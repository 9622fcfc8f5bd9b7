----------------------- MODULE XrayLifecycleProperties -----------------------
(***************************************************************************)
(* What the start and stop handlers promise, and what their documentation  *)
(* says of them.                                                           *)
(***************************************************************************)
EXTENDS XrayLifecycle

\* s has passed the gate and has not released it.
InStart(s) == pc[s] \notin {"idle", "done"}

\* t is between its first step and its answer.
InStop(t) == pc[t] \in {"closing", "setStopped"}

Idle == \A h \in Handlers : pc[h] \in {"idle", "done"}

-----------------------------------------------------------------------------
(***************************************************************************)
(* The instances                                                           *)
(***************************************************************************)
\* xray-core never sees Start and Close of one instance at the same time, and
\* is never asked to close what it has not been asked to start (the promise of
\* the comment in startInstanceWithContext, for all three callers of Close).
NoStartCloseOverlap ==
  \A i \in Starts : closers[i] # {} => startCall[i] \in {"ok", "error"}

\* A start that replaces an instance, a stop and the goroutine behind a timed
\* out start never both close one instance.
ClosedByOne == \A i \in Starts : \A p, q \in closers[i] : p = q

\* What Instance() hands to the user and stats handlers has started without an
\* error, and nobody has begun to close it.
PublishedIsUsable ==
  IsRunning => startCall[instance] = "ok" /\ closers[instance] = {}

\* An instance whose start has returned is published, or is being closed, or
\* somebody is left who will do one or the other: nothing keeps its ports
\* behind everybody's back.
NoOrphan ==
  \A i \in Starts :
    startCall[i] \in {"ok", "error"} =>
      \/ instance = i
      \/ closers[i] # {}
      \/ pc[i] \in {"await", "publish"}
      \/ watcher[i] = "waiting"

\* When a start launches its instance, every instance that a start has closed,
\* the one it replaces among them, has returned from Close: its ports are free.
OldClosedFirst ==
  \A s \in Starts : pc[s] \in {"launch", "await", "publish"} =>
    \A i \in Starts : closers[i] \cap Starts # {} => closeCall[i] = "done"

\* What xray-core is asked to do with its instances comes in an order that it allows,
\* and an instance that replaces another finds the ports free.
CallsInOrder == NoStartCloseOverlap /\ OldClosedFirst

\* Every instance that came up has somebody who keeps it or will close it, and one only.
OwnedByOne == NoOrphan /\ ClosedByOne

-----------------------------------------------------------------------------
(***************************************************************************)
(* What the node remembers of them                                         *)
(***************************************************************************)
\* The hashes and the configuration the node remembers are those the running
\* instance was built from, whatever starts failed and stops came since; the
\* exception is the gap between publishing an instance and recording it.
HashesDescribeInstance ==
  (IsRunning /\ pc[instance] # "setStarted") =>
    /\ currentConfig = instance
    /\ lastHashes = request[instance].hashes

\* Configuration, hashes and protocols come from one start, not a mixture of
\* two, whenever no start is at work.
RememberedFromOneStart ==
  ~startProcessing =>
    \/ currentConfig = NoConfig /\ lastHashes = NoHashes /\ protocolsFrom = {}
    \/ /\ currentConfig \in Starts
       /\ lastHashes = request[currentConfig].hashes
       /\ protocolsFrom = {currentConfig}

\* What the node remembers of a configuration is that of one start, and of the start
\* whose instance runs.
MemoryDescribesInstance == HashesDescribeInstance /\ RememberedFromOneStart

\* A start that is answered "up to date" found, when it checked the health of
\* the core, an instance built from the hashes it carries, and did not ask for
\* a restart: between the decision and the check nobody can have replaced it.
KeptOnlyIfUpToDate ==
  [][\A s \in Starts : (pc[s] = "health" /\ pc'[s] = "keep") =>
       /\ IsRunning
       /\ ~request[s].force
       /\ SameHashes(request[instance].hashes, request[s].hashes)]_vars

\* As long as nobody has asked for a stop, XrayRunning and the cached status of
\* the healthcheck say, between starts, whether there is a running instance,
\* however the starts ended.
StatusMatchesCore ==
  (Idle /\ \A t \in Stops : pc[t] = "idle")
    => xrayRunning = IsRunning /\ statusCached = IsRunning

\* A start whose instance did not come up, in time or at all, is answered with
\* the core down and the healthcheck saying so: the old instance is gone.
FailedLaunchLeavesCoreDown ==
  [][\A s \in Starts :
       (answer'[s] = "failed" /\ answer[s] = "none" /\ startCall[s] # "no")
         => ~IsRunning /\ ~statusCached']_vars

-----------------------------------------------------------------------------
(***************************************************************************)
(* The invariant behind these: what every label of a handler says of the   *)
(* gate, of the instances and of the runtime state.                        *)
(***************************************************************************)
GateInv ==
  /\ \A s \in Starts : InStart(s) => startProcessing
  /\ \A s1, s2 \in Starts : InStart(s1) /\ InStart(s2) => s1 = s2
  /\ startProcessing => \E s \in Starts : InStart(s)
  /\ \A s \in Starts : answer[s] = "in_progress" => pc[s] = "done"

BeforeLaunch ==
  {"idle", "bind", "decide", "health", "keep", "markDown", "prepare", "take",
   "closeOld", "launch"}

\* Untouched by Close, so far in the hands of the one who started it.
Fresh(i) == closers[i] = {} /\ watcher[i] = "no" /\ instance # i

\* The instance that start i builds, by where its handler and its watcher are.
LifeInv(i) ==
  /\ pc[i] \in BeforeLaunch => startCall[i] = "no"
  /\ pc[i] = "await" => startCall[i] # "no" /\ Fresh(i)
  /\ pc[i] = "publish" => startCall[i] = "ok" /\ Fresh(i)
  /\ pc[i] = "closeFailed" => closers[i] = {i} /\ watcher[i] = "no"
  /\ pc[i] \in {"setStarted", "setProtocols"} => startCall[i] = "ok"
  /\ startCall[i] = "no" => Fresh(i)
  /\ startCall[i] = "running" => pc[i] = "await" \/ watcher[i] = "waiting"
  /\ watcher[i] = "waiting" => closers[i] = {} /\ instance # i /\ startCall[i] # "no"
  /\ watcher[i] \in {"closing", "done"} => closers[i] = {Background}
  /\ closers[i] # {} => startCall[i] \in {"ok", "error"} /\ instance # i
  /\ \A p, q \in closers[i] : p = q
  /\ closeCall[i] = "no" <=> closers[i] = {}
  /\ instance = i => startCall[i] = "ok" /\ watcher[i] = "no"

\* Whoever waits for Close holds the instance and is the one who called it.
HeldInv(h) ==
  pc[h] \in {"closeOld", "closing"} =>
    /\ held[h] \in Starts
    /\ closers[held[h]] = {h}

\* From taking the old instance to publishing the new one the slot is empty,
\* and until the start is over nothing but its own instance is put there.
SlotInv(s) ==
  /\ pc[s] \in {"closeOld", "launch", "await", "closeFailed", "publish"} => ~IsRunning
  /\ pc[s] \in {"setStarted", "setProtocols"} => instance \in {s, NoInstance}

\* Only the start at work waits for a Close it has called.
ClosedByStartInv ==
  \A i \in Starts : closers[i] \cap Starts # {} =>
    \/ closeCall[i] = "done"
    \/ \E s \in Starts : pc[s] = "closeOld" /\ held[s] = i
    \/ pc[i] = "closeFailed"

CoreInv ==
  /\ \A i \in Starts : LifeInv(i) /\ SlotInv(i)
  /\ \A h \in Handlers : HeldInv(h)
  /\ ClosedByStartInv
  /\ NoOrphan

\* A start that is about to be kept matches what the node remembers.
KeepInv ==
  \A s \in Starts : pc[s] = "health" =>
    /\ ~request[s].force
    /\ lastHashes # NoHashes
    /\ SameHashes(lastHashes, request[s].hashes)

\* The remembered configuration is that of a start past its SetXrayStarted,
\* whose protocols are there or are about to be.
RememberInv ==
  /\ \A s \in Starts : pc[s] = "setProtocols" => currentConfig = s
  /\ \/ currentConfig = NoConfig /\ lastHashes = NoHashes /\ protocolsFrom = {}
     \/ /\ currentConfig \in Starts
        /\ pc[currentConfig] \in {"setProtocols", "end", "done"}
        /\ lastHashes = request[currentConfig].hashes
        /\ protocolsFrom =
             IF pc[currentConfig] = "setProtocols" THEN {} ELSE {currentConfig}

MemoryInv == HashesDescribeInstance /\ RememberInv /\ KeepInv

IInv == TypeOK /\ GateInv /\ CoreInv /\ MemoryInv

\* The status is that of the core but while a start, past the old instance, has yet to
\* write down what became of the new one; stops are left out.
StatusMatches == xrayRunning = IsRunning /\ statusCached = IsRunning

Unrecorded ==
  {"closeOld", "launch", "await", "closeFailed", "publish", "setStarted", "sync", "syncStopped"}

StatusInv ==
  (\A t \in Stops : pc[t] = "idle") =>
    /\ (\A s \in Starts : pc[s] \notin Unrecorded) => StatusMatches
    /\ \A s \in Starts :
         /\ pc[s] \in {"keep", "setStarted", "syncRunning", "syncCached"} => IsRunning
         /\ pc[s] \in {"markDown", "syncStopped"} => ~IsRunning
         /\ pc[s] = "sync" => ~IsRunning \/ StatusMatches

\* After a start has launched its instance and failed, nothing runs until it is over, and
\* it finds nothing.
FailedLaunchInv ==
  \A s \in Starts : startCall[s] # "no" =>
    /\ pc[s] \in {"sync", "syncStopped"} => ~IsRunning
    /\ pc[s] \notin {"syncRunning", "syncCached"}

-----------------------------------------------------------------------------
(***************************************************************************)
(* What the documentation says, and a stop that races a start breaks       *)
(***************************************************************************)
\* docs/development.md:226: after a failed start the cached status follows the
\* real state of the core; asked here of a start that fails with no stop at
\* work at that moment.
FailedStartSyncsStatus ==
  [][\A s \in Starts :
       (/\ answer[s] = "none" /\ answer'[s] = "failed"
        /\ \A t \in Stops : ~InStop(t))
         => statusCached' = IsRunning]_vars

\* TestStopXrayClearsHealthcheckInternalStatus: after a stop the healthcheck
\* says the core is down; asked here with everything answered, the core down.
StopClearsStatus ==
  (Idle /\ ~IsRunning /\ \E t \in Stops : answer[t] = "stopped") => ~statusCached

-----------------------------------------------------------------------------
(***************************************************************************)
(* Progress                                                                *)
(***************************************************************************)
\* Every request is answered, also a start whose instance never comes up: the
\* timeout of startInstanceWithContext is honoured.
RequestsComplete ==
  \A h \in Handlers : (pc[h] # "idle") ~> (pc[h] = "done" /\ answer[h] # "none")

\* An instance whose start has returned is published or closed in the end,
\* also when the start that built it was given up on.
NoLeak ==
  \A i \in Starts :
    startCall[i] \in {"ok", "error"} ~> (instance = i \/ closeCall[i] = "done")

-----------------------------------------------------------------------------
(***************************************************************************)
(* The abstract specifications the handlers implement                      *)
(***************************************************************************)
LifeOf(i) ==
  CASE closeCall[i] = "done"    -> "gone"
    [] closeCall[i] = "running" -> "retiring"
    [] closeCall[i] = "no" ->
         IF instance = i THEN "live"
         ELSE CASE startCall[i] = "no"      -> "unborn"
                [] startCall[i] = "running" -> "starting"
                [] startCall[i] = "ok"      -> "ready"
                [] startCall[i] = "error"   -> "failed"

Slot == INSTANCE InstanceSlot
  WITH Instances <- Starts, Nothing <- NoInstance,
       slot <- instance, life <- [i \in Starts |-> LifeOf(i)]

\* EmbeddedCore, as the handlers use it, is a slot of instances that live once.
ImplementsInstanceSlot == Slot!SlotSpec

Working == IF \E s \in Starts : InStart(s)
           THEN CHOOSE s \in Starts : InStart(s) ELSE NoInstance

Rejected == {s \in Starts : answer[s] = "in_progress"}

Gate == INSTANCE SingleFlight
  WITH Callers <- Starts, Nobody <- NoInstance,
       inside <- Working, turned <- Rejected

\* The start handler is a single-flight gate: one start at a time, and one is
\* turned away only while another is really at work.
ImplementsSingleFlight == Gate!GateSpec
=============================================================================
