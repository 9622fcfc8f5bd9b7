---------------------------- MODULE XrayLifecycle ----------------------------
(***************************************************************************)
(* internal/controller/xray_controller.go: POST /node/xray/start and       *)
(* GET /node/xray/stop, served concurrently (one goroutine per request)    *)
(* over one EmbeddedCore and one RuntimeState.                             *)
(*                                                                         *)
(* A start runs behind a single-flight gate (startProcessing); a stop does *)
(* not.  A step of a handler is one critical section of startMu, of        *)
(* EmbeddedCore.mu or of RuntimeState.mu, or the start or the end of a     *)
(* call into xray-core, which holds no lock: everything else may run       *)
(* between two steps.  Each request is made at most once.                  *)
(*                                                                         *)
(*   bind -> decide -> health -> keep                      (no restart)    *)
(*             |         +-> markDown -+                                   *)
(*             +-----------------------+-> prepare -> take -> closeOld ->  *)
(*        launch -> await -> publish -> setStarted -> setProtocols -> end  *)
(*                     +-> closeFailed -> sync           (start failed)    *)
(*                                                                         *)
(* The labels name the step that comes next.                               *)
(***************************************************************************)
EXTENDS RuntimeState, EmbeddedCore

\* A configuration goes by the name of the start request that carried it.
ASSUME ConfigsAreStarts == Configs = Starts

VARIABLES
  startProcessing,  \* the gate, under startMu
  pc,               \* per handler, its next step
  request,          \* per start, what the Panel sent
  coreRunning,      \* per start, the IsRunning it read before deciding
  answer            \* per handler, what was answered

ctrlVars == <<startProcessing, pc, request, coreRunning, answer>>
vars == <<coreVars, stateVars, ctrlVars>>

Requests == [force : BOOLEAN, hashes : HashLists \cup {NoHashes}]
NoRequest == [force |-> FALSE, hashes |-> NoHashes]

StartLabels ==
  {"idle", "bind", "decide", "health", "keep", "markDown", "prepare", "take",
   "closeOld", "launch", "await", "closeFailed", "publish", "setStarted",
   "setProtocols", "sync", "syncRunning", "syncCached", "syncStopped", "end",
   "done"}
StopLabels == {"idle", "closing", "setStopped", "done"}

Answers == {"none", "in_progress", "bad_request", "up_to_date", "failed",
            "started", "stopped"}

ControlTypeOK ==
  /\ startProcessing \in BOOLEAN
  /\ pc \in [Handlers -> StartLabels \cup StopLabels]
  /\ \A s \in Starts : pc[s] \in StartLabels
  /\ \A t \in Stops : pc[t] \in StopLabels
  /\ request \in [Starts -> Requests]
  /\ coreRunning \in [Starts -> BOOLEAN]
  /\ answer \in [Handlers -> Answers]

TypeOK == CoreTypeOK /\ StateTypeOK /\ ControlTypeOK

Init ==
  /\ CoreInit
  /\ StateInit
  /\ startProcessing = FALSE
  /\ pc = [h \in Handlers |-> "idle"]
  /\ request = [s \in Starts |-> NoRequest]
  /\ coreRunning = [s \in Starts |-> FALSE]
  /\ answer = [h \in Handlers |-> "none"]

-----------------------------------------------------------------------------
\* Handler h moves from one label to the next, answering or not.
Go(h, from, to) ==
  /\ pc[h] = from
  /\ pc' = [pc EXCEPT ![h] = to]

Answer(h, a) == answer' = [answer EXCEPT ![h] = a]

\* A step on the core alone, on the runtime state alone.
CoreStep(h, from, to) ==
  /\ Go(h, from, to)
  /\ UNCHANGED <<stateVars, startProcessing, request, coreRunning, answer>>

StateStep(h, from, to) ==
  /\ Go(h, from, to)
  /\ UNCHANGED <<coreVars, startProcessing, request, coreRunning>>

-----------------------------------------------------------------------------
(***************************************************************************)
(* POST /node/xray/start                                                   *)
(***************************************************************************)
\* FAULT: the gate is set but not looked at.
BeginStartUngated(s) ==
  /\ Go(s, "idle", "bind")
  /\ startProcessing' = TRUE
  /\ \E force \in BOOLEAN, hashes \in HashLists :
       request' = [request EXCEPT ![s] = [force |-> force, hashes |-> hashes]]
  /\ UNCHANGED <<coreVars, stateVars, coreRunning, answer>>

\* tryBeginStart: one start at a time, the others are turned away.
BeginStart(s) ==
  /\ ~startProcessing
  /\ Go(s, "idle", "bind")
  /\ startProcessing' = TRUE
  /\ \E force \in BOOLEAN, hashes \in HashLists :
       request' = [request EXCEPT ![s] = [force |-> force, hashes |-> hashes]]
  /\ UNCHANGED <<coreVars, stateVars, coreRunning, answer>>

RejectStart(s) ==
  /\ startProcessing
  /\ Go(s, "idle", "done")
  /\ Answer(s, "in_progress")
  /\ UNCHANGED <<coreVars, stateVars, startProcessing, request, coreRunning>>

\* The body does not bind: answered without a look at the core.
BindFails(s) ==
  /\ Go(s, "bind", "end")
  /\ Answer(s, "bad_request")
  /\ UNCHANGED <<coreVars, stateVars, startProcessing, request, coreRunning>>

ReadCoreRunning(s) ==
  /\ Go(s, "bind", "decide")
  /\ coreRunning' = [coreRunning EXCEPT ![s] = IsRunning]
  /\ UNCHANGED <<coreVars, stateVars, startProcessing, request, answer>>

Decide(s) ==
  /\ Go(s, "decide",
        IF ShouldRestart(request[s].force, lastHashes, request[s].hashes,
                         coreRunning[s])
        THEN "prepare" ELSE "health")
  /\ UNCHANGED <<coreVars, stateVars, startProcessing, request, coreRunning,
                 answer>>

\* FAULT: trusts the first look at the core.
CheckHealthSkipped(s) ==
  /\ Go(s, "health", "keep")
  /\ UNCHANGED <<coreVars, stateVars, startProcessing, request, coreRunning,
                 answer>>

\* Health is a second look at c.instance: a stop may have come in between.
CheckHealth(s) ==
  /\ Go(s, "health", IF IsRunning THEN "keep" ELSE "markDown")
  /\ UNCHANGED <<coreVars, stateVars, startProcessing, request, coreRunning,
                 answer>>

KeepRunning(s) ==
  /\ StateStep(s, "keep", "end")
  /\ SetXrayInternalStatusCached(TRUE)
  /\ Answer(s, "up_to_date")

MarkDown(s) ==
  /\ StateStep(s, "markDown", "prepare")
  /\ SetXrayInternalStatusCached(FALSE)
  /\ UNCHANGED answer

\* Build, PrepareGeodata and MarshalIndent, then the checks that come first in
\* EmbeddedCore.Start: the configuration parses and makes an instance, or the
\* old instance is left alone.
PrepareFails(s) == CoreStep(s, "prepare", "sync") /\ UNCHANGED coreVars
PrepareSucceeds(s) == CoreStep(s, "prepare", "take") /\ UNCHANGED coreVars

\* FAULT: the old instance is closed on the side.
TakeOldWithoutWaiting(s) ==
  CoreStep(s, "take", "launch") /\ TakeInstance(s)

\* EmbeddedCore.Start from line 69.
TakeOld(s) ==
  /\ CoreStep(s, "take", IF IsRunning THEN "closeOld" ELSE "launch")
  /\ TakeInstance(s)

OldClosed(s) == CoreStep(s, "closeOld", "launch") /\ HeldCloseReturns(s)

Launch(s) == CoreStep(s, "launch", "await") /\ LaunchInstance(s)

\* FAULT: the error of the start is not looked at.
StartSucceededAnyway(s) ==
  /\ CoreStep(s, "await", "publish")
  /\ startCall[s] \in {"ok", "error"}
  /\ UNCHANGED coreVars

StartSucceeded(s) ==
  /\ CoreStep(s, "await", "publish")
  /\ startCall[s] = "ok"
  /\ UNCHANGED coreVars

StartFailed(s) ==
  /\ CoreStep(s, "await", "closeFailed")
  /\ CloseFailedInstance(s)

\* FAULT: the context is not looked at.
StartNeverTimesOut(s) == FALSE

\* 15 seconds are over, or the client is gone.
StartTimesOut(s) ==
  /\ CoreStep(s, "await", "sync")
  /\ AbandonInstance(s)

FailedClosed(s) == CoreStep(s, "closeFailed", "sync") /\ FailedCloseReturns(s)

Publish(s) == CoreStep(s, "publish", "setStarted") /\ PublishInstance(s)

RecordStarted(s) ==
  /\ StateStep(s, "setStarted", "setProtocols")
  /\ SetXrayStarted(s, request[s].hashes)
  /\ UNCHANGED answer

RecordProtocols(s) ==
  /\ StateStep(s, "setProtocols", "end")
  /\ SetInboundProtocolsFromConfig(s)
  /\ Answer(s, "started")

\* FAULT: a failed start is taken for a stopped core.
SyncAssumesStopped(s) ==
  /\ Go(s, "sync", "syncStopped")
  /\ UNCHANGED <<coreVars, stateVars, startProcessing, request, coreRunning,
                 answer>>

\* syncStartFailureState: a look at the core, then one or two updates.
SyncReads(s) ==
  /\ Go(s, "sync", IF IsRunning THEN "syncRunning" ELSE "syncStopped")
  /\ UNCHANGED <<coreVars, stateVars, startProcessing, request, coreRunning,
                 answer>>

SyncRunning(s) ==
  /\ StateStep(s, "syncRunning", "syncCached")
  /\ SetXrayRunning(TRUE)
  /\ UNCHANGED answer

SyncCached(s) ==
  /\ StateStep(s, "syncCached", "end")
  /\ SetXrayInternalStatusCached(TRUE)
  /\ Answer(s, "failed")

SyncStopped(s) ==
  /\ StateStep(s, "syncStopped", "end")
  /\ SetXrayRunning(FALSE)
  /\ Answer(s, "failed")

\* FAULT: the gate stays shut.
EndStartForgotten(s) ==
  /\ Go(s, "end", "done")
  /\ UNCHANGED <<coreVars, stateVars, startProcessing, request, coreRunning,
                 answer>>

\* The deferred endStart, on every path that passed the gate.
EndStart(s) ==
  /\ Go(s, "end", "done")
  /\ startProcessing' = FALSE
  /\ UNCHANGED <<coreVars, stateVars, request, coreRunning, answer>>

-----------------------------------------------------------------------------
(***************************************************************************)
(* GET /node/xray/stop: not behind the gate.                               *)
(***************************************************************************)
BeginStop(t) ==
  /\ CoreStep(t, "idle", IF IsRunning THEN "closing" ELSE "setStopped")
  /\ TakeInstance(t)

StopCloseReturns(t) ==
  CoreStep(t, "closing", "setStopped") /\ HeldCloseReturns(t)

RecordStopped(t) ==
  /\ StateStep(t, "setStopped", "done")
  /\ SetXrayRunning(FALSE)
  /\ Answer(t, "stopped")

-----------------------------------------------------------------------------
\* The steps of a start after the gate, of a stop after its first, and of the
\* goroutines that xray-core's calls run on.
StartStep(s) ==
  \/ BindFails(s) \/ ReadCoreRunning(s) \/ Decide(s)
  \/ CheckHealth(s) \/ KeepRunning(s) \/ MarkDown(s)
  \/ PrepareFails(s) \/ PrepareSucceeds(s)
  \/ TakeOld(s) \/ OldClosed(s) \/ Launch(s)
  \/ StartSucceeded(s) \/ StartFailed(s) \/ StartTimesOut(s) \/ FailedClosed(s)
  \/ Publish(s) \/ RecordStarted(s) \/ RecordProtocols(s)
  \/ SyncReads(s) \/ SyncRunning(s) \/ SyncCached(s) \/ SyncStopped(s)
  \/ EndStart(s)

StopStep(t) == StopCloseReturns(t) \/ RecordStopped(t)

\* The goroutines of startInstanceWithContext touch the core only.
LaunchReturns(s) == StartCallReturns(s) /\ UNCHANGED <<stateVars, ctrlVars>>
AbandonedCloses(s) == WatcherCloses(s) /\ UNCHANGED <<stateVars, ctrlVars>>
AbandonedClosed(s) ==
  WatcherCloseReturns(s) /\ UNCHANGED <<stateVars, ctrlVars>>

WatcherStep(s) == AbandonedCloses(s) \/ AbandonedClosed(s)

\* Every request was made and answered, and nothing runs in the background.
Finished ==
  /\ \A h \in Handlers : pc[h] = "done"
  /\ \A s \in Starts : watcher[s] \in {"no", "done"} /\ startCall[s] # "running"
  /\ UNCHANGED vars

Next ==
  \/ \E s \in Starts : BeginStart(s) \/ RejectStart(s) \/ StartStep(s)
  \/ \E t \in Stops : BeginStop(t) \/ StopStep(t)
  \/ \E s \in Starts : LaunchReturns(s) \/ WatcherStep(s)
  \/ Finished

Spec == Init /\ [][Next]_vars

\* The scheduler runs every goroutine, timers fire, and xcore's Close returns.
\* Nothing makes a request arrive, and nothing makes xcore's Start return.
FairSpec ==
  /\ Spec
  /\ \A s \in Starts : WF_vars(StartStep(s))
  /\ \A t \in Stops : WF_vars(StopStep(t))
  /\ \A s \in Starts : WF_vars(WatcherStep(s))
=============================================================================
