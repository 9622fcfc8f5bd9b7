---------------------------- MODULE EmbeddedCore ----------------------------
(***************************************************************************)
(* internal/xray/core.go: the embedded core.  EmbeddedCore guards one      *)
(* pointer, c.instance, by a lock that is held while the pointer is read   *)
(* or swapped, never while xray-core starts or closes an instance.         *)
(*                                                                         *)
(* EmbeddedCore.Start and Stop run inside HTTP handlers, so this module    *)
(* gives their steps as action fragments: the program counters, and with   *)
(* them the order of the steps, belong to the handlers (XrayLifecycle).    *)
(* A start request builds at most one instance, which carries its name.    *)
(***************************************************************************)
EXTENDS Naturals

CONSTANTS
  Starts,       \* the start requests, and the instances they build
  Stops,        \* the stop requests
  NoInstance,   \* the nil *xcore.Instance
  Background    \* the goroutine that closes an abandoned instance

ASSUME DistinctNames ==
  /\ Starts \cap Stops = {}
  /\ NoInstance \notin Starts
  /\ Background \notin Starts \cup Stops

VARIABLES
  instance,     \* c.instance
  startCall,    \* per instance, xcore's Start: "no", "running", "ok", "error"
  closers,      \* per instance, who has called xcore's Close on it
  closeCall,    \* per instance, xcore's Close: "no", "running", "done"
  held,         \* per handler, the instance it took out of c.instance
  watcher       \* per instance, its goroutine of lines 108-111

coreVars == <<instance, startCall, closers, closeCall, held, watcher>>

Handlers == Starts \cup Stops
MaybeInstance == Starts \cup {NoInstance}

CoreTypeOK ==
  /\ instance \in MaybeInstance
  /\ startCall \in [Starts -> {"no", "running", "ok", "error"}]
  /\ closers \in [Starts -> SUBSET (Handlers \cup {Background})]
  /\ closeCall \in [Starts -> {"no", "running", "done"}]
  /\ held \in [Handlers -> MaybeInstance]
  /\ watcher \in [Starts -> {"no", "waiting", "closing", "done"}]

CoreInit ==
  /\ instance = NoInstance
  /\ startCall = [i \in Starts |-> "no"]
  /\ closers = [i \in Starts |-> {}]
  /\ closeCall = [i \in Starts |-> "no"]
  /\ held = [h \in Handlers |-> NoInstance]
  /\ watcher = [i \in Starts |-> "no"]

-----------------------------------------------------------------------------
\* IsRunning, Health: one read under the lock.
IsRunning == instance # NoInstance

\* closeXrayInstance(i) is called by p, and returns.
CallClose(p, i) ==
  /\ closers' = [closers EXCEPT ![i] = @ \cup {p}]
  /\ closeCall' = [closeCall EXCEPT ![i] = "running"]

CloseReturns(i) ==
  /\ closeCall' = [closeCall EXCEPT ![i] = "done"]
  /\ UNCHANGED <<instance, startCall, closers>>

\* FAULT: the pointer is read but not cleared.
TakeInstanceKeepsIt(h) ==
  /\ held' = [held EXCEPT ![h] = instance]
  /\ IF instance = NoInstance
     THEN UNCHANGED <<closers, closeCall>>
     ELSE CallClose(h, instance)
  /\ UNCHANGED <<instance, startCall, watcher>>

\* The critical section that starts Start's second half and Stop: the pointer
\* is taken out, and what was there is closed by the one who took it.
TakeInstance(h) ==
  /\ held' = [held EXCEPT ![h] = instance]
  /\ instance' = NoInstance
  /\ IF instance = NoInstance
     THEN UNCHANGED <<closers, closeCall>>
     ELSE CallClose(h, instance)
  /\ UNCHANGED <<startCall, watcher>>

\* h's call of Close on the instance it took returns.
HeldCloseReturns(h) ==
  /\ CloseReturns(held[h])
  /\ held' = [held EXCEPT ![h] = NoInstance]
  /\ UNCHANGED watcher

\* startInstanceWithContext: a goroutine calls xcore's Start on s ...
LaunchInstance(s) ==
  /\ startCall' = [startCall EXCEPT ![s] = "running"]
  /\ UNCHANGED <<instance, closers, closeCall, held, watcher>>

\* ... which returns, sooner or later or never, and fills the channel.
StartCallReturns(s) ==
  /\ startCall[s] = "running"
  /\ \E result \in {"ok", "error"} :
       startCall' = [startCall EXCEPT ![s] = result]
  /\ UNCHANGED <<instance, closers, closeCall, held, watcher>>

\* The start failed: its handler closes the instance it built.
CloseFailedInstance(s) ==
  /\ startCall[s] = "error"
  /\ CallClose(s, s)
  /\ UNCHANGED <<instance, startCall, held, watcher>>

FailedCloseReturns(s) ==
  /\ CloseReturns(s)
  /\ UNCHANGED <<held, watcher>>

\* FAULT: nobody looks after the instance.
AbandonInstanceForGood(s) ==
  UNCHANGED <<watcher, instance, startCall, closers, closeCall, held>>

\* The context ends first: the instance is left to a goroutine.  A select with
\* both channels ready picks either, so the start may already have returned.
AbandonInstance(s) ==
  /\ watcher' = [watcher EXCEPT ![s] = "waiting"]
  /\ UNCHANGED <<instance, startCall, closers, closeCall, held>>

\* FAULT: it closes without waiting for the start to return.
WatcherClosesAtOnce(s) ==
  /\ watcher[s] = "waiting"
  /\ CallClose(Background, s)
  /\ watcher' = [watcher EXCEPT ![s] = "closing"]
  /\ UNCHANGED <<instance, startCall, held>>

\* That goroutine: it waits for the start to return, then closes.
WatcherCloses(s) ==
  /\ watcher[s] = "waiting"
  /\ startCall[s] # "running"
  /\ CallClose(Background, s)
  /\ watcher' = [watcher EXCEPT ![s] = "closing"]
  /\ UNCHANGED <<instance, startCall, held>>

WatcherCloseReturns(s) ==
  /\ watcher[s] = "closing"
  /\ CloseReturns(s)
  /\ watcher' = [watcher EXCEPT ![s] = "done"]
  /\ UNCHANGED held

\* The critical section that ends Start: the started instance is published.
PublishInstance(s) ==
  /\ instance' = s
  /\ UNCHANGED <<startCall, closers, closeCall, held, watcher>>
=============================================================================
