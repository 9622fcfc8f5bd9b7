------------------------- MODULE XrayLifecycleProofs -------------------------
(***************************************************************************)
(* Proofs about the start and stop handlers, for any sets of requests and  *)
(* any hashes.                                                             *)
(***************************************************************************)
EXTENDS XrayLifecycleProperties, TLAPS

\* A request that is not answered with a restart is not forced, finds the core
\* running, and carries the hashes the node remembers.
LEMMA KeptMeansSame ==
  ASSUME NEW force \in BOOLEAN, NEW last, NEW hashes, NEW running \in BOOLEAN,
         ~ShouldRestart(force, last, hashes, running)
  PROVE  ~force /\ running /\ last # NoHashes /\ SameHashes(last, hashes)
BY DEF ShouldRestart, RestartDecisionFor, InboundDecision, Decision

\* No step of any handler or goroutine breaks a variable's type.
LEMMA TypeStep == TypeOK /\ [Next]_vars => TypeOK'
<1> SUFFICES ASSUME TypeOK, [Next]_vars PROVE TypeOK'
  OBVIOUS
<1> USE DistinctNames, ConfigsAreStarts
    DEF TypeOK, CoreTypeOK, StateTypeOK, ControlTypeOK, Handlers, MaybeInstance,
        StartLabels, StopLabels, Answers, Go, Answer, IsRunning, coreVars,
        stateVars, ctrlVars
<1>1. ASSUME NEW s \in Starts, BeginStart(s) PROVE TypeOK'
  BY <1>1 DEF BeginStart, Requests
<1>2. ASSUME NEW s \in Starts, RejectStart(s) PROVE TypeOK'
  BY <1>2 DEF RejectStart
<1>3. ASSUME NEW s \in Starts, BindFails(s) PROVE TypeOK'
  BY <1>3 DEF BindFails
<1>4. ASSUME NEW s \in Starts, ReadCoreRunning(s) PROVE TypeOK'
  BY <1>4 DEF ReadCoreRunning
<1>5. ASSUME NEW s \in Starts, Decide(s) PROVE TypeOK'
  BY <1>5 DEF Decide
<1>6. ASSUME NEW s \in Starts, CheckHealth(s) PROVE TypeOK'
  BY <1>6 DEF CheckHealth
<1>7. ASSUME NEW s \in Starts, KeepRunning(s) PROVE TypeOK'
  BY <1>7 DEF KeepRunning, SetXrayInternalStatusCached, StateStep
<1>8. ASSUME NEW s \in Starts, MarkDown(s) PROVE TypeOK'
  BY <1>8 DEF MarkDown, SetXrayInternalStatusCached, StateStep
<1>9. ASSUME NEW s \in Starts, PrepareFails(s) PROVE TypeOK'
  BY <1>9 DEF PrepareFails, CoreStep
<1>10. ASSUME NEW s \in Starts, PrepareSucceeds(s) PROVE TypeOK'
  BY <1>10 DEF PrepareSucceeds, CoreStep
<1>11. ASSUME NEW s \in Starts, TakeOld(s) PROVE TypeOK'
  BY <1>11 DEF TakeOld, TakeInstance, CallClose, CoreStep
<1>12. ASSUME NEW s \in Starts, OldClosed(s) PROVE TypeOK'
  BY <1>12 DEF OldClosed, HeldCloseReturns, CloseReturns, CoreStep
<1>13. ASSUME NEW s \in Starts, Launch(s) PROVE TypeOK'
  BY <1>13 DEF Launch, LaunchInstance, CoreStep
<1>14. ASSUME NEW s \in Starts, StartSucceeded(s) PROVE TypeOK'
  BY <1>14 DEF StartSucceeded, CoreStep
<1>15. ASSUME NEW s \in Starts, StartFailed(s) PROVE TypeOK'
  BY <1>15 DEF StartFailed, CloseFailedInstance, CallClose, CoreStep
<1>16. ASSUME NEW s \in Starts, StartTimesOut(s) PROVE TypeOK'
  BY <1>16 DEF StartTimesOut, AbandonInstance, CoreStep
<1>17. ASSUME NEW s \in Starts, FailedClosed(s) PROVE TypeOK'
  BY <1>17 DEF FailedClosed, FailedCloseReturns, CloseReturns, CoreStep
<1>18. ASSUME NEW s \in Starts, Publish(s) PROVE TypeOK'
  BY <1>18 DEF Publish, PublishInstance, CoreStep
<1>19. ASSUME NEW s \in Starts, RecordStarted(s) PROVE TypeOK'
  BY <1>19 DEF RecordStarted, SetXrayStarted, StateStep, Requests
<1>20. ASSUME NEW s \in Starts, RecordProtocols(s) PROVE TypeOK'
  BY <1>20 DEF RecordProtocols, SetInboundProtocolsFromConfig, StateStep
<1>21. ASSUME NEW s \in Starts, SyncReads(s) PROVE TypeOK'
  BY <1>21 DEF SyncReads
<1>22. ASSUME NEW s \in Starts, SyncRunning(s) PROVE TypeOK'
  BY <1>22 DEF SyncRunning, SetXrayRunning, StateStep
<1>23. ASSUME NEW s \in Starts, SyncCached(s) PROVE TypeOK'
  BY <1>23 DEF SyncCached, SetXrayInternalStatusCached, StateStep
<1>24. ASSUME NEW s \in Starts, SyncStopped(s) PROVE TypeOK'
  BY <1>24 DEF SyncStopped, SetXrayRunning, StateStep
<1>25. ASSUME NEW s \in Starts, EndStart(s) PROVE TypeOK'
  BY <1>25 DEF EndStart
<1>26. ASSUME NEW s \in Starts, LaunchReturns(s) PROVE TypeOK'
  BY <1>26 DEF LaunchReturns, StartCallReturns
<1>27. ASSUME NEW s \in Starts, AbandonedCloses(s) PROVE TypeOK'
  BY <1>27 DEF AbandonedCloses, WatcherCloses, CallClose
<1>28. ASSUME NEW s \in Starts, AbandonedClosed(s) PROVE TypeOK'
  BY <1>28 DEF AbandonedClosed, WatcherCloseReturns, CloseReturns
<1>29. ASSUME NEW t \in Stops, BeginStop(t) PROVE TypeOK'
  BY <1>29 DEF BeginStop, TakeInstance, CallClose, CoreStep
<1>30. ASSUME NEW t \in Stops, StopCloseReturns(t) PROVE TypeOK'
  BY <1>30 DEF StopCloseReturns, HeldCloseReturns, CloseReturns, CoreStep
<1>31. ASSUME NEW t \in Stops, RecordStopped(t) PROVE TypeOK'
  BY <1>31 DEF RecordStopped, SetXrayRunning, StateStep
<1>32. CASE UNCHANGED vars
  BY <1>32 DEF vars, ctrlVars
<1> QED
  BY <1>1, <1>2, <1>3, <1>4, <1>5, <1>6, <1>7, <1>8, <1>9, <1>10, <1>11,
      <1>12, <1>13, <1>14, <1>15, <1>16, <1>17, <1>18, <1>19, <1>20, <1>21,
      <1>22, <1>23, <1>24, <1>25, <1>26, <1>27, <1>28, <1>29, <1>30, <1>31,
      <1>32
  DEF Next, StartStep, StopStep, WatcherStep, Finished

\* The flag startProcessing says exactly whether one start is past the gate:
\* only BeginStart, RejectStart and EndStart touch it.
LEMMA GateStep == TypeOK /\ GateInv /\ [Next]_vars => GateInv'
<1> SUFFICES ASSUME TypeOK, GateInv, [Next]_vars PROVE GateInv'
  OBVIOUS
<1> USE DistinctNames
    DEF TypeOK, ControlTypeOK, Handlers, StartLabels, StopLabels, Go, Answer,
        IsRunning, ctrlVars, GateInv, InStart
<1>1. ASSUME NEW s \in Starts, BeginStart(s) PROVE GateInv'
  BY <1>1 DEF BeginStart
<1>2. ASSUME NEW s \in Starts, RejectStart(s) PROVE GateInv'
  BY <1>2 DEF RejectStart
<1>3. ASSUME NEW s \in Starts, BindFails(s) PROVE GateInv'
  BY <1>3 DEF BindFails
<1>4. ASSUME NEW s \in Starts, ReadCoreRunning(s) PROVE GateInv'
  BY <1>4 DEF ReadCoreRunning
<1>5. ASSUME NEW s \in Starts, Decide(s) PROVE GateInv'
  BY <1>5 DEF Decide
<1>6. ASSUME NEW s \in Starts, CheckHealth(s) PROVE GateInv'
  BY <1>6 DEF CheckHealth
<1>7. ASSUME NEW s \in Starts, KeepRunning(s) PROVE GateInv'
  BY <1>7 DEF KeepRunning, SetXrayInternalStatusCached, StateStep
<1>8. ASSUME NEW s \in Starts, MarkDown(s) PROVE GateInv'
  BY <1>8 DEF MarkDown, SetXrayInternalStatusCached, StateStep
<1>9. ASSUME NEW s \in Starts, PrepareFails(s) PROVE GateInv'
  BY <1>9 DEF PrepareFails, CoreStep
<1>10. ASSUME NEW s \in Starts, PrepareSucceeds(s) PROVE GateInv'
  BY <1>10 DEF PrepareSucceeds, CoreStep
<1>11. ASSUME NEW s \in Starts, TakeOld(s) PROVE GateInv'
  BY <1>11 DEF TakeOld, TakeInstance, CallClose, CoreStep
<1>12. ASSUME NEW s \in Starts, OldClosed(s) PROVE GateInv'
  BY <1>12 DEF OldClosed, HeldCloseReturns, CloseReturns, CoreStep
<1>13. ASSUME NEW s \in Starts, Launch(s) PROVE GateInv'
  BY <1>13 DEF Launch, LaunchInstance, CoreStep
<1>14. ASSUME NEW s \in Starts, StartSucceeded(s) PROVE GateInv'
  BY <1>14 DEF StartSucceeded, CoreStep
<1>15. ASSUME NEW s \in Starts, StartFailed(s) PROVE GateInv'
  BY <1>15 DEF StartFailed, CloseFailedInstance, CallClose, CoreStep
<1>16. ASSUME NEW s \in Starts, StartTimesOut(s) PROVE GateInv'
  BY <1>16 DEF StartTimesOut, AbandonInstance, CoreStep
<1>17. ASSUME NEW s \in Starts, FailedClosed(s) PROVE GateInv'
  BY <1>17 DEF FailedClosed, FailedCloseReturns, CloseReturns, CoreStep
<1>18. ASSUME NEW s \in Starts, Publish(s) PROVE GateInv'
  BY <1>18 DEF Publish, PublishInstance, CoreStep
<1>19. ASSUME NEW s \in Starts, RecordStarted(s) PROVE GateInv'
  BY <1>19 DEF RecordStarted, SetXrayStarted, StateStep
<1>20. ASSUME NEW s \in Starts, RecordProtocols(s) PROVE GateInv'
  BY <1>20 DEF RecordProtocols, SetInboundProtocolsFromConfig, StateStep
<1>21. ASSUME NEW s \in Starts, SyncReads(s) PROVE GateInv'
  BY <1>21 DEF SyncReads
<1>22. ASSUME NEW s \in Starts, SyncRunning(s) PROVE GateInv'
  BY <1>22 DEF SyncRunning, SetXrayRunning, StateStep
<1>23. ASSUME NEW s \in Starts, SyncCached(s) PROVE GateInv'
  BY <1>23 DEF SyncCached, SetXrayInternalStatusCached, StateStep
<1>24. ASSUME NEW s \in Starts, SyncStopped(s) PROVE GateInv'
  BY <1>24 DEF SyncStopped, SetXrayRunning, StateStep
<1>25. ASSUME NEW s \in Starts, EndStart(s) PROVE GateInv'
  BY <1>25 DEF EndStart
<1>26. ASSUME NEW s \in Starts, LaunchReturns(s) PROVE GateInv'
  BY <1>26 DEF LaunchReturns, StartCallReturns
<1>27. ASSUME NEW s \in Starts, AbandonedCloses(s) PROVE GateInv'
  BY <1>27 DEF AbandonedCloses, WatcherCloses, CallClose
<1>28. ASSUME NEW s \in Starts, AbandonedClosed(s) PROVE GateInv'
  BY <1>28 DEF AbandonedClosed, WatcherCloseReturns, CloseReturns
<1>29. ASSUME NEW t \in Stops, BeginStop(t) PROVE GateInv'
  BY <1>29 DEF BeginStop, TakeInstance, CallClose, CoreStep
<1>30. ASSUME NEW t \in Stops, StopCloseReturns(t) PROVE GateInv'
  BY <1>30 DEF StopCloseReturns, HeldCloseReturns, CloseReturns, CoreStep
<1>31. ASSUME NEW t \in Stops, RecordStopped(t) PROVE GateInv'
  BY <1>31 DEF RecordStopped, SetXrayRunning, StateStep
<1>32. CASE UNCHANGED vars
  BY <1>32 DEF vars, ctrlVars
<1> QED
  BY <1>1, <1>2, <1>3, <1>4, <1>5, <1>6, <1>7, <1>8, <1>9, <1>10, <1>11,
      <1>12, <1>13, <1>14, <1>15, <1>16, <1>17, <1>18, <1>19, <1>20, <1>21,
      <1>22, <1>23, <1>24, <1>25, <1>26, <1>27, <1>28, <1>29, <1>30, <1>31,
      <1>32
  DEF Next, StartStep, StopStep, WatcherStep, Finished

\* Taking the instance out of the slot, by a start or a stop.
LEMMA TakeKeepsCoreInv ==
  ASSUME NEW h \in Handlers, NEW to, TypeOK, CoreInv, TakeInstance(h),
         pc[h] \in {"take", "idle"}, h \in Starts => pc[h] = "take",
         pc' = [pc EXCEPT ![h] = to],
         to \in IF IsRunning THEN {"closeOld", "closing"} ELSE {"launch", "setStopped"},
         h \in Starts => to # "closing"
  PROVE  CoreInv'
<1>t. /\ pc \in [Handlers -> StartLabels \cup StopLabels]
      /\ closers \in [Starts -> SUBSET (Handlers \cup {Background})]
      /\ closeCall \in [Starts -> {"no", "running", "done"}]
      /\ held \in [Handlers -> MaybeInstance]
      /\ instance \in MaybeInstance
  BY DEF TypeOK, CoreTypeOK, ControlTypeOK
<1>l. \A i \in Starts : LifeInv(i) /\ SlotInv(i)
  BY DEF CoreInv
<1>h. \A g \in Handlers : HeldInv(g)
  BY DEF CoreInv
<1>c. ClosedByStartInv /\ NoOrphan
  BY DEF CoreInv
<1>p. /\ \A g \in Handlers \ {h} : pc'[g] = pc[g] /\ held'[g] = held[g]
      /\ pc'[h] = to /\ held'[h] = instance
  BY <1>t DEF TakeInstance
<1>u. UNCHANGED <<startCall, watcher>> /\ instance' = NoInstance
  BY DEF TakeInstance
<1>n. NoInstance \notin Starts /\ Starts \subseteq Handlers
  BY DistinctNames DEF Handlers
<1>f. h \in Starts => startCall[h] = "no"
  BY <1>l, <1>n DEF LifeInv, BeforeLaunch
<1>1. CASE instance = NoInstance
  <2>1. UNCHANGED <<closers, closeCall>> /\ to \in {"launch", "setStopped"}
    BY <1>1 DEF TakeInstance, IsRunning
  <2>2. ASSUME NEW i \in Starts PROVE LifeInv(i)'
    BY <1>1, <1>l, <1>p, <1>u, <1>n, <1>f, <2>1 DEF LifeInv, BeforeLaunch, Fresh
  <2>3. ASSUME NEW i \in Starts PROVE SlotInv(i)'
    BY <1>u DEF SlotInv, IsRunning
  <2>4. ASSUME NEW g \in Handlers PROVE HeldInv(g)'
    BY <1>h, <1>p, <2>1 DEF HeldInv
  <2>5. ClosedByStartInv'
    <3> SUFFICES ASSUME NEW i \in Starts, closers'[i] \cap Starts # {}, closeCall'[i] # "done",
                        pc'[i] # "closeFailed"
                 PROVE  \E s \in Starts : pc'[s] = "closeOld" /\ held'[s] = i
      BY DEF ClosedByStartInv
    <3>1. pc[i] # "closeFailed"
      BY <1>p, <1>n
    <3>2. PICK s \in Starts : pc[s] = "closeOld" /\ held[s] = i
      BY <1>c, <2>1, <3>1 DEF ClosedByStartInv
    <3>3. s \in Handlers \ {h}
      BY <1>n, <3>2
    <3> QED BY <1>p, <3>2, <3>3
  <2>6. NoOrphan'
    <3> SUFFICES ASSUME NEW i \in Starts, startCall'[i] \in {"ok", "error"},
                        closers'[i] = {}, watcher'[i] # "waiting"
                 PROVE  pc'[i] \in {"await", "publish"}
      BY DEF NoOrphan
    <3>1. i # instance /\ i # h /\ i \in Handlers
      BY <1>1, <1>n, <1>f, <1>u
    <3> QED BY <1>c, <1>p, <1>u, <2>1, <3>1 DEF NoOrphan
  <2> QED BY <2>2, <2>3, <2>4, <2>5, <2>6 DEF CoreInv
<1>2. CASE instance \in Starts
  <2>1. closers[instance] = {} /\ startCall[instance] = "ok" /\ watcher[instance] = "no"
    BY <1>2, <1>l DEF LifeInv
  <2>2. /\ closers' = [closers EXCEPT ![instance] = closers[instance] \cup {h}]
        /\ closeCall' = [closeCall EXCEPT ![instance] = "running"]
        /\ to \in {"closeOld", "closing"}
    BY <1>2, <1>n DEF TakeInstance, CallClose, IsRunning
  <2>3. \A i \in Starts : /\ i # instance => closers'[i] = closers[i]
                          /\ i # instance => closeCall'[i] = closeCall[i]
    BY <1>t, <2>2
  <2>4. closers'[instance] = {h} /\ closeCall'[instance] = "running"
    BY <1>2, <1>t, <2>1, <2>2
  <2>5. instance # h
    BY <1>f, <2>1, <1>2
  <2>6. ASSUME NEW i \in Starts PROVE LifeInv(i)'
    <3>1. CASE i = instance
      <4>1. pc[i] \notin BeforeLaunch \cup {"await", "publish", "closeFailed"}
        BY <1>l, <2>1, <3>1 DEF LifeInv, Fresh
      <4>2. pc'[i] = pc[i] /\ i # NoInstance
        BY <1>p, <1>n, <2>5, <3>1
      <4> QED BY <1>u, <2>1, <2>4, <3>1, <4>1, <4>2, <1>l DEF LifeInv, Fresh
    <3>2. CASE i # instance
      BY <1>l, <1>p, <1>u, <1>n, <1>f, <2>2, <2>3, <3>2 DEF LifeInv, BeforeLaunch, Fresh
    <3> QED BY <3>1, <3>2
  <2>7. ASSUME NEW i \in Starts PROVE SlotInv(i)'
    BY <1>u DEF SlotInv, IsRunning
  <2>8. ASSUME NEW g \in Handlers PROVE HeldInv(g)'
    <3>1. CASE g = h
      BY <1>2, <1>p, <2>4, <3>1 DEF HeldInv
    <3>2. CASE g # h
      <4> SUFFICES ASSUME pc[g] \in {"closeOld", "closing"}
                   PROVE  held[g] \in Starts /\ closers'[held[g]] = {g}
        BY <1>p, <3>2 DEF HeldInv
      <4>1. held[g] \in Starts /\ closers[held[g]] = {g}
        BY <1>h DEF HeldInv
      <4>2. held[g] # instance
        BY <2>1, <4>1
      <4> QED BY <2>3, <4>1, <4>2
    <3> QED BY <3>1, <3>2
  <2>9. ClosedByStartInv'
    <3> SUFFICES ASSUME NEW i \in Starts, closers'[i] \cap Starts # {}, closeCall'[i] # "done",
                        pc'[i] # "closeFailed"
                 PROVE  \E s \in Starts : pc'[s] = "closeOld" /\ held'[s] = i
      BY DEF ClosedByStartInv
    <3>1. CASE i = instance
      <4>1. h \in Starts
        BY <2>4, <3>1
      <4>2. to = "closeOld"
        BY <2>2, <4>1
      <4> QED BY <1>p, <3>1, <4>1, <4>2
    <3>2. CASE i # instance
      <4>1. pc[i] # "closeFailed" /\ closers[i] \cap Starts # {} /\ closeCall[i] # "done"
        BY <1>p, <1>n, <2>3, <3>2
      <4>2. PICK s \in Starts : pc[s] = "closeOld" /\ held[s] = i
        BY <1>c, <4>1 DEF ClosedByStartInv
      <4>3. s \in Handlers \ {h}
        BY <1>n, <4>2
      <4> QED BY <1>p, <4>2, <4>3
    <3> QED BY <3>1, <3>2
  <2>10. NoOrphan'
    <3> SUFFICES ASSUME NEW i \in Starts, startCall'[i] \in {"ok", "error"},
                        closers'[i] = {}, watcher'[i] # "waiting"
                 PROVE  pc'[i] \in {"await", "publish"}
      BY DEF NoOrphan
    <3>1. i # instance /\ i # h /\ i \in Handlers
      BY <1>n, <1>f, <1>u, <2>4
    <3> QED BY <1>c, <1>p, <1>u, <2>3, <3>1 DEF NoOrphan
  <2> QED BY <2>6, <2>7, <2>8, <2>9, <2>10 DEF CoreInv
<1> QED BY <1>1, <1>2, <1>t DEF MaybeInstance

\* The Close of an instance that was taken out returns.
LEMMA HeldCloseKeepsCoreInv ==
  ASSUME NEW h \in Handlers, NEW to, TypeOK, CoreInv, HeldCloseReturns(h),
         pc[h] \in {"closeOld", "closing"}, pc' = [pc EXCEPT ![h] = to],
         to \in {"launch", "setStopped"}, h \in Starts => pc[h] = "closeOld"
  PROVE  CoreInv'
<1>t. /\ pc \in [Handlers -> StartLabels \cup StopLabels]
      /\ closeCall \in [Starts -> {"no", "running", "done"}]
      /\ held \in [Handlers -> MaybeInstance]
  BY DEF TypeOK, CoreTypeOK, ControlTypeOK
<1>l. \A i \in Starts : LifeInv(i) /\ SlotInv(i)
  BY DEF CoreInv
<1>h. \A g \in Handlers : HeldInv(g)
  BY DEF CoreInv
<1>c. ClosedByStartInv /\ NoOrphan
  BY DEF CoreInv
<1>n. Starts \subseteq Handlers
  BY DEF Handlers
<1>p. /\ \A g \in Handlers \ {h} : pc'[g] = pc[g] /\ held'[g] = held[g]
      /\ pc'[h] = to
  BY <1>t DEF HeldCloseReturns
<1>u. /\ UNCHANGED <<startCall, watcher, instance, closers>>
      /\ closeCall' = [closeCall EXCEPT ![held[h]] = "done"]
  BY DEF HeldCloseReturns, CloseReturns
<1>1. held[h] \in Starts /\ closers[held[h]] = {h}
  BY <1>h DEF HeldInv
<1>2. closeCall[held[h]] # "no"
  BY <1>1, <1>l DEF LifeInv
<1>3. \A i \in Starts : /\ closeCall'[i] = "no" <=> closeCall[i] = "no"
                        /\ closeCall[i] = "done" => closeCall'[i] = "done"
  BY <1>1, <1>2, <1>t, <1>u
<1>4. h \in Starts => startCall[h] = "no" /\ ~IsRunning
  BY <1>l DEF LifeInv, SlotInv, BeforeLaunch
<1>5. ASSUME NEW i \in Starts PROVE LifeInv(i)'
  BY <1>l, <1>n, <1>p, <1>u, <1>3, <1>4 DEF LifeInv, BeforeLaunch, Fresh
<1>6. ASSUME NEW i \in Starts PROVE SlotInv(i)'
  BY <1>l, <1>n, <1>p, <1>u, <1>4 DEF SlotInv, IsRunning
<1>7. ASSUME NEW g \in Handlers PROVE HeldInv(g)'
  BY <1>h, <1>p, <1>u DEF HeldInv
<1>8. ClosedByStartInv'
  <2> SUFFICES ASSUME NEW i \in Starts, closers'[i] \cap Starts # {}, closeCall'[i] # "done",
                      pc'[i] # "closeFailed"
               PROVE  \E s \in Starts : pc'[s] = "closeOld" /\ held'[s] = i
    BY DEF ClosedByStartInv
  <2>1. i # held[h] /\ closeCall[i] # "done"
    BY <1>1, <1>3, <1>t, <1>u
  <2>2. pc[i] # "closeFailed"
    BY <1>p, <1>n
  <2>3. PICK s \in Starts : pc[s] = "closeOld" /\ held[s] = i
    BY <1>c, <1>u, <2>1, <2>2 DEF ClosedByStartInv
  <2>4. s \in Handlers \ {h}
    BY <1>n, <2>1, <2>3
  <2> QED BY <1>p, <2>3, <2>4
<1>9. NoOrphan'
  <2> SUFFICES ASSUME NEW i \in Starts, startCall'[i] \in {"ok", "error"}, instance' # i,
                      closers'[i] = {}, watcher'[i] # "waiting"
               PROVE  pc'[i] \in {"await", "publish"}
    BY DEF NoOrphan
  <2>1. i # h /\ i \in Handlers
    BY <1>n, <1>4, <1>u
  <2> QED BY <1>c, <1>p, <1>u, <2>1 DEF NoOrphan
<1> QED BY <1>5, <1>6, <1>7, <1>8, <1>9 DEF CoreInv

\* What the labels say of the instances holds after every step, given that at
\* most one start is at work.
LEMMA CoreInvStep == TypeOK /\ GateInv /\ CoreInv /\ [Next]_vars => CoreInv'
<1> SUFFICES ASSUME TypeOK, GateInv, CoreInv, [Next]_vars PROVE CoreInv'
  OBVIOUS
<1>g. \A s1, s2 \in Starts : InStart(s1) /\ InStart(s2) => s1 = s2
  BY DEF GateInv
\* The four steps that take an instance out of the slot, or end its Close.
<1>11. ASSUME NEW s \in Starts, TakeOld(s) PROVE CoreInv'
  <2>1. s \in Handlers
    BY DEF Handlers
  <2>2. TakeInstance(s) /\ Go(s, "take", IF IsRunning THEN "closeOld" ELSE "launch")
    BY <1>11 DEF TakeOld, CoreStep
  <2> QED BY <2>1, <2>2, TakeKeepsCoreInv DEF Go
<1>12. ASSUME NEW s \in Starts, OldClosed(s) PROVE CoreInv'
  <2>1. s \in Handlers
    BY DEF Handlers
  <2>2. HeldCloseReturns(s) /\ Go(s, "closeOld", "launch")
    BY <1>12 DEF OldClosed, CoreStep
  <2> QED BY <2>1, <2>2, HeldCloseKeepsCoreInv DEF Go
<1>29. ASSUME NEW t \in Stops, BeginStop(t) PROVE CoreInv'
  <2>1. t \in Handlers /\ t \notin Starts
    BY DistinctNames DEF Handlers
  <2>2. TakeInstance(t) /\ Go(t, "idle", IF IsRunning THEN "closing" ELSE "setStopped")
    BY <1>29 DEF BeginStop, CoreStep
  <2> QED BY <2>1, <2>2, TakeKeepsCoreInv DEF Go
<1>30. ASSUME NEW t \in Stops, StopCloseReturns(t) PROVE CoreInv'
  <2>1. t \in Handlers /\ t \notin Starts
    BY DistinctNames DEF Handlers
  <2>2. HeldCloseReturns(t) /\ Go(t, "closing", "setStopped")
    BY <1>30 DEF StopCloseReturns, CoreStep
  <2> QED BY <2>1, <2>2, HeldCloseKeepsCoreInv DEF Go
<1> USE DistinctNames
    DEF TypeOK, CoreTypeOK, ControlTypeOK, Handlers, MaybeInstance,
        StartLabels, StopLabels, Go, Answer, IsRunning, coreVars, ctrlVars,
        CoreInv, LifeInv, HeldInv, SlotInv, ClosedByStartInv,
        NoOrphan, BeforeLaunch, Fresh
<1>1. ASSUME NEW s \in Starts, BeginStart(s) PROVE CoreInv'
  BY <1>1 DEF BeginStart
<1>2. ASSUME NEW s \in Starts, RejectStart(s) PROVE CoreInv'
  BY <1>2 DEF RejectStart
<1>3. ASSUME NEW s \in Starts, BindFails(s) PROVE CoreInv'
  BY <1>3 DEF BindFails
<1>4. ASSUME NEW s \in Starts, ReadCoreRunning(s) PROVE CoreInv'
  BY <1>4 DEF ReadCoreRunning
<1>5. ASSUME NEW s \in Starts, Decide(s) PROVE CoreInv'
  BY <1>5 DEF Decide
<1>6. ASSUME NEW s \in Starts, CheckHealth(s) PROVE CoreInv'
  BY <1>6 DEF CheckHealth
<1>7. ASSUME NEW s \in Starts, KeepRunning(s) PROVE CoreInv'
  BY <1>7 DEF KeepRunning, SetXrayInternalStatusCached, StateStep
<1>8. ASSUME NEW s \in Starts, MarkDown(s) PROVE CoreInv'
  BY <1>8 DEF MarkDown, SetXrayInternalStatusCached, StateStep
<1>9. ASSUME NEW s \in Starts, PrepareFails(s) PROVE CoreInv'
  BY <1>9 DEF PrepareFails, CoreStep
<1>10. ASSUME NEW s \in Starts, PrepareSucceeds(s) PROVE CoreInv'
  BY <1>10 DEF PrepareSucceeds, CoreStep
<1>13. ASSUME NEW s \in Starts, Launch(s) PROVE CoreInv'
  BY <1>13 DEF Launch, LaunchInstance, CoreStep
<1>14. ASSUME NEW s \in Starts, StartSucceeded(s) PROVE CoreInv'
  BY <1>14 DEF StartSucceeded, CoreStep
<1>15. ASSUME NEW s \in Starts, StartFailed(s) PROVE CoreInv'
  <2>1. \A i \in Starts : LifeInv(i)'
    BY <1>15 DEF StartFailed, CloseFailedInstance, CallClose, CoreStep
  <2>2. \A i \in Starts : SlotInv(i)'
    BY <1>15 DEF StartFailed, CloseFailedInstance, CallClose, CoreStep
  <2>3. \A h \in Handlers : HeldInv(h)'
    BY <1>15 DEF StartFailed, CloseFailedInstance, CallClose, CoreStep
  <2>4. ClosedByStartInv'
    BY <1>15 DEF StartFailed, CloseFailedInstance, CallClose, CoreStep
  <2>5. NoOrphan'
    BY <1>15 DEF StartFailed, CloseFailedInstance, CallClose, CoreStep
  <2> QED BY <2>1, <2>2, <2>3, <2>4, <2>5
<1>16. ASSUME NEW s \in Starts, StartTimesOut(s) PROVE CoreInv'
  BY <1>16 DEF StartTimesOut, AbandonInstance, CoreStep
<1>17. ASSUME NEW s \in Starts, FailedClosed(s) PROVE CoreInv'
  <2>1. /\ pc[s] = "closeFailed" /\ pc' = [pc EXCEPT ![s] = "sync"]
        /\ closeCall' = [closeCall EXCEPT ![s] = "done"]
        /\ UNCHANGED <<instance, startCall, closers, held, watcher>>
    BY <1>17 DEF FailedClosed, FailedCloseReturns, CloseReturns, CoreStep
  <2>2. closers[s] = {s} /\ closeCall[s] # "no"
    BY <2>1
  <2>3. \A i \in Starts : LifeInv(i)'
    BY <2>1, <2>2
  <2>4. \A i \in Starts : SlotInv(i)'
    BY <2>1
  <2>5. \A h \in Handlers : HeldInv(h)'
    BY <2>1
  <2>6. ClosedByStartInv'
    <3> SUFFICES ASSUME NEW i \in Starts, closers[i] \cap Starts # {}, closeCall'[i] # "done"
                 PROVE  \/ \E r \in Starts : pc'[r] = "closeOld" /\ held'[r] = i
                        \/ pc'[i] = "closeFailed"
      BY <2>1
    <3>1. i # s /\ closeCall[i] # "done"
      BY <2>1
    <3> QED BY <2>1, <3>1
  <2>7. NoOrphan'
    BY <2>1, <2>2
  <2> QED BY <2>3, <2>4, <2>5, <2>6, <2>7
<1>18. ASSUME NEW s \in Starts, Publish(s) PROVE CoreInv'
  BY <1>18, <1>g DEF Publish, PublishInstance, CoreStep, InStart
<1>19. ASSUME NEW s \in Starts, RecordStarted(s) PROVE CoreInv'
  BY <1>19 DEF RecordStarted, SetXrayStarted, StateStep
<1>20. ASSUME NEW s \in Starts, RecordProtocols(s) PROVE CoreInv'
  BY <1>20 DEF RecordProtocols, SetInboundProtocolsFromConfig, StateStep
<1>21. ASSUME NEW s \in Starts, SyncReads(s) PROVE CoreInv'
  BY <1>21 DEF SyncReads
<1>22. ASSUME NEW s \in Starts, SyncRunning(s) PROVE CoreInv'
  BY <1>22 DEF SyncRunning, SetXrayRunning, StateStep
<1>23. ASSUME NEW s \in Starts, SyncCached(s) PROVE CoreInv'
  BY <1>23 DEF SyncCached, SetXrayInternalStatusCached, StateStep
<1>24. ASSUME NEW s \in Starts, SyncStopped(s) PROVE CoreInv'
  BY <1>24 DEF SyncStopped, SetXrayRunning, StateStep
<1>25. ASSUME NEW s \in Starts, EndStart(s) PROVE CoreInv'
  BY <1>25 DEF EndStart
<1>26. ASSUME NEW s \in Starts, LaunchReturns(s) PROVE CoreInv'
  BY <1>26 DEF LaunchReturns, StartCallReturns
<1>27. ASSUME NEW s \in Starts, AbandonedCloses(s) PROVE CoreInv'
  <2>1. closers[s] = {} /\ closers' = [closers EXCEPT ![s] = {Background}]
    <3>1. closers[s] = {}
      BY <1>27 DEF AbandonedCloses, WatcherCloses
    <3>2. closers' = [closers EXCEPT ![s] = closers[s] \cup {Background}]
      BY <1>27 DEF AbandonedCloses, WatcherCloses, CallClose
    <3> QED BY <3>1, <3>2
  <2>2. \A i \in Starts : LifeInv(i)'
    BY <2>1, <1>27 DEF AbandonedCloses, WatcherCloses, CallClose
  <2>3. \A i \in Starts : SlotInv(i)'
    BY <1>27 DEF AbandonedCloses, WatcherCloses, CallClose
  <2>4. \A h \in Handlers : HeldInv(h)'
    <3> SUFFICES ASSUME NEW h \in Handlers, pc[h] \in {"closeOld", "closing"}
                 PROVE  held[h] \in Starts /\ closers'[held[h]] = {h}
      BY <1>27 DEF AbandonedCloses, WatcherCloses, CallClose
    <3>1. held[h] \in Starts /\ closers[held[h]] = {h}
      OBVIOUS
    <3> QED BY <2>1, <3>1
  <2>5. ClosedByStartInv'
    BY <2>1, <1>27 DEF AbandonedCloses, WatcherCloses, CallClose
  <2>6. NoOrphan'
    <3>1. /\ UNCHANGED <<instance, startCall, pc>>
          /\ watcher' = [watcher EXCEPT ![s] = "closing"]
      BY <1>27 DEF AbandonedCloses, WatcherCloses
    <3>2. closers'[s] # {}
      BY <2>1
    <3>3. \A i \in Starts : i # s => closers'[i] = closers[i] /\ watcher'[i] = watcher[i]
      BY <2>1, <3>1
    <3> QED BY <3>1, <3>2, <3>3
  <2> QED BY <2>2, <2>3, <2>4, <2>5, <2>6
<1>28. ASSUME NEW s \in Starts, AbandonedClosed(s) PROVE CoreInv'
  BY <1>28 DEF AbandonedClosed, WatcherCloseReturns, CloseReturns
<1>31. ASSUME NEW t \in Stops, RecordStopped(t) PROVE CoreInv'
  BY <1>31 DEF RecordStopped, SetXrayRunning, StateStep
<1>32. CASE UNCHANGED vars
  BY <1>32 DEF vars, ctrlVars
<1> QED
  BY <1>1, <1>2, <1>3, <1>4, <1>5, <1>6, <1>7, <1>8, <1>9, <1>10, <1>11,
      <1>12, <1>13, <1>14, <1>15, <1>16, <1>17, <1>18, <1>19, <1>20, <1>21,
      <1>22, <1>23, <1>24, <1>25, <1>26, <1>27, <1>28, <1>29, <1>30, <1>31,
      <1>32
  DEF Next, StartStep, StopStep, WatcherStep, Finished

\* What the labels say of the remembered configuration holds after every step.
LEMMA MemoryStep == IInv /\ [Next]_vars => MemoryInv'
<1> SUFFICES ASSUME IInv, [Next]_vars PROVE MemoryInv'
  OBVIOUS
<1> USE DistinctNames, ConfigsAreStarts
    DEF IInv, TypeOK, CoreTypeOK, StateTypeOK, ControlTypeOK, Handlers, MaybeInstance,
        StartLabels, StopLabels, Go, Answer, IsRunning, coreVars, stateVars, ctrlVars,
        GateInv, InStart, CoreInv, LifeInv, SlotInv, BeforeLaunch, Fresh,
        MemoryInv, HashesDescribeInstance, RememberInv, KeepInv
<1>1. ASSUME NEW s \in Starts, BeginStart(s) PROVE MemoryInv'
  BY <1>1 DEF BeginStart
<1>2. ASSUME NEW s \in Starts, RejectStart(s) PROVE MemoryInv'
  BY <1>2 DEF RejectStart
<1>3. ASSUME NEW s \in Starts, BindFails(s) PROVE MemoryInv'
  BY <1>3 DEF BindFails
<1>4. ASSUME NEW s \in Starts, ReadCoreRunning(s) PROVE MemoryInv'
  BY <1>4 DEF ReadCoreRunning
<1>5. ASSUME NEW s \in Starts, Decide(s) PROVE MemoryInv'
  <2>1. CASE ShouldRestart(request[s].force, lastHashes, request[s].hashes,
                           coreRunning[s])
    BY <1>5, <2>1 DEF Decide
  <2>2. CASE ~ShouldRestart(request[s].force, lastHashes, request[s].hashes,
                            coreRunning[s])
    <3>1. /\ ~request[s].force
          /\ lastHashes # NoHashes
          /\ SameHashes(lastHashes, request[s].hashes)
      <4>1. request[s].force \in BOOLEAN /\ coreRunning[s] \in BOOLEAN
        BY DEF Requests
      <4> QED BY <2>2, <4>1, KeptMeansSame
    <3> QED BY <1>5, <2>2, <3>1 DEF Decide
  <2> QED BY <2>1, <2>2
<1>6. ASSUME NEW s \in Starts, CheckHealth(s) PROVE MemoryInv'
  BY <1>6 DEF CheckHealth
<1>7. ASSUME NEW s \in Starts, KeepRunning(s) PROVE MemoryInv'
  BY <1>7 DEF KeepRunning, SetXrayInternalStatusCached, StateStep
<1>8. ASSUME NEW s \in Starts, MarkDown(s) PROVE MemoryInv'
  BY <1>8 DEF MarkDown, SetXrayInternalStatusCached, StateStep
<1>9. ASSUME NEW s \in Starts, PrepareFails(s) PROVE MemoryInv'
  BY <1>9 DEF PrepareFails, CoreStep
<1>10. ASSUME NEW s \in Starts, PrepareSucceeds(s) PROVE MemoryInv'
  BY <1>10 DEF PrepareSucceeds, CoreStep
<1>11. ASSUME NEW s \in Starts, TakeOld(s) PROVE MemoryInv'
  BY <1>11 DEF TakeOld, TakeInstance, CallClose, CoreStep
<1>12. ASSUME NEW s \in Starts, OldClosed(s) PROVE MemoryInv'
  BY <1>12 DEF OldClosed, HeldCloseReturns, CloseReturns, CoreStep
<1>13. ASSUME NEW s \in Starts, Launch(s) PROVE MemoryInv'
  BY <1>13 DEF Launch, LaunchInstance, CoreStep
<1>14. ASSUME NEW s \in Starts, StartSucceeded(s) PROVE MemoryInv'
  BY <1>14 DEF StartSucceeded, CoreStep
<1>15. ASSUME NEW s \in Starts, StartFailed(s) PROVE MemoryInv'
  BY <1>15 DEF StartFailed, CloseFailedInstance, CallClose, CoreStep
<1>16. ASSUME NEW s \in Starts, StartTimesOut(s) PROVE MemoryInv'
  BY <1>16 DEF StartTimesOut, AbandonInstance, CoreStep
<1>17. ASSUME NEW s \in Starts, FailedClosed(s) PROVE MemoryInv'
  BY <1>17 DEF FailedClosed, FailedCloseReturns, CloseReturns, CoreStep
<1>18. ASSUME NEW s \in Starts, Publish(s) PROVE MemoryInv'
  BY <1>18 DEF Publish, PublishInstance, CoreStep
<1>19. ASSUME NEW s \in Starts, RecordStarted(s) PROVE MemoryInv'
  BY <1>19 DEF RecordStarted, SetXrayStarted, StateStep
<1>20. ASSUME NEW s \in Starts, RecordProtocols(s) PROVE MemoryInv'
  <2>1. HashesDescribeInstance'
    BY <1>20 DEF RecordProtocols, SetInboundProtocolsFromConfig, StateStep
  <2>2. RememberInv'
    <3>1. currentConfig = s /\ pc[s] = "setProtocols" /\ s # NoConfig
      BY <1>20, DistinctConfigs DEF RecordProtocols, StateStep
    <3>2. lastHashes = request[s].hashes /\ protocolsFrom = {}
      BY <3>1
    <3>3. pc' = [pc EXCEPT ![s] = "end"] /\ protocolsFrom' = protocolsFrom \cup {s}
          /\ UNCHANGED <<currentConfig, lastHashes, request>>
      BY <1>20 DEF RecordProtocols, SetInboundProtocolsFromConfig, StateStep
    <3>4. protocolsFrom' = {s}
      BY <3>2, <3>3
    <3>5. \A r \in Starts : pc'[r] # "setProtocols"
      BY <3>1, <3>3
    <3> QED BY <3>1, <3>2, <3>3, <3>4, <3>5
  <2>3. KeepInv'
    BY <1>20 DEF RecordProtocols, SetInboundProtocolsFromConfig, StateStep
  <2> QED BY <2>1, <2>2, <2>3
<1>21. ASSUME NEW s \in Starts, SyncReads(s) PROVE MemoryInv'
  BY <1>21 DEF SyncReads
<1>22. ASSUME NEW s \in Starts, SyncRunning(s) PROVE MemoryInv'
  BY <1>22 DEF SyncRunning, SetXrayRunning, StateStep
<1>23. ASSUME NEW s \in Starts, SyncCached(s) PROVE MemoryInv'
  BY <1>23 DEF SyncCached, SetXrayInternalStatusCached, StateStep
<1>24. ASSUME NEW s \in Starts, SyncStopped(s) PROVE MemoryInv'
  BY <1>24 DEF SyncStopped, SetXrayRunning, StateStep
<1>25. ASSUME NEW s \in Starts, EndStart(s) PROVE MemoryInv'
  BY <1>25 DEF EndStart
<1>26. ASSUME NEW s \in Starts, LaunchReturns(s) PROVE MemoryInv'
  BY <1>26 DEF LaunchReturns, StartCallReturns
<1>27. ASSUME NEW s \in Starts, AbandonedCloses(s) PROVE MemoryInv'
  BY <1>27 DEF AbandonedCloses, WatcherCloses, CallClose
<1>28. ASSUME NEW s \in Starts, AbandonedClosed(s) PROVE MemoryInv'
  BY <1>28 DEF AbandonedClosed, WatcherCloseReturns, CloseReturns
<1>29. ASSUME NEW t \in Stops, BeginStop(t) PROVE MemoryInv'
  BY <1>29 DEF BeginStop, TakeInstance, CallClose, CoreStep
<1>30. ASSUME NEW t \in Stops, StopCloseReturns(t) PROVE MemoryInv'
  BY <1>30 DEF StopCloseReturns, HeldCloseReturns, CloseReturns, CoreStep
<1>31. ASSUME NEW t \in Stops, RecordStopped(t) PROVE MemoryInv'
  BY <1>31 DEF RecordStopped, SetXrayRunning, StateStep
<1>32. CASE UNCHANGED vars
  BY <1>32 DEF vars, ctrlVars
<1> QED
  BY <1>1, <1>2, <1>3, <1>4, <1>5, <1>6, <1>7, <1>8, <1>9, <1>10, <1>11,
      <1>12, <1>13, <1>14, <1>15, <1>16, <1>17, <1>18, <1>19, <1>20, <1>21,
      <1>22, <1>23, <1>24, <1>25, <1>26, <1>27, <1>28, <1>29, <1>30, <1>31,
      <1>32
  DEF Next, StartStep, StopStep, WatcherStep, Finished

\* Without stops, the status follows the core from label to label.
LEMMA StatusStep == IInv /\ StatusInv /\ [Next]_vars => StatusInv'
<1> SUFFICES ASSUME IInv /\ StatusInv, [Next]_vars PROVE StatusInv'
  OBVIOUS
<1> USE DistinctNames
    DEF IInv, TypeOK, CoreTypeOK, StateTypeOK, ControlTypeOK, Handlers, MaybeInstance,
        Go, IsRunning, coreVars, stateVars, ctrlVars, GateInv, InStart, CoreInv, LifeInv,
        SlotInv, BeforeLaunch,
        StatusMatches, Unrecorded, StatusInv
<1>1. ASSUME NEW s \in Starts, BeginStart(s) PROVE StatusInv'
  BY <1>1 DEF BeginStart
<1>2. ASSUME NEW s \in Starts, RejectStart(s) PROVE StatusInv'
  BY <1>2 DEF RejectStart
<1>3. ASSUME NEW s \in Starts, BindFails(s) PROVE StatusInv'
  BY <1>3 DEF BindFails
<1>4. ASSUME NEW s \in Starts, ReadCoreRunning(s) PROVE StatusInv'
  BY <1>4 DEF ReadCoreRunning
<1>5. ASSUME NEW s \in Starts, Decide(s) PROVE StatusInv'
  BY <1>5 DEF Decide
<1>6. ASSUME NEW s \in Starts, CheckHealth(s) PROVE StatusInv'
  BY <1>6 DEF CheckHealth
<1>7. ASSUME NEW s \in Starts, KeepRunning(s) PROVE StatusInv'
  BY <1>7 DEF KeepRunning, SetXrayInternalStatusCached, StateStep
<1>8. ASSUME NEW s \in Starts, MarkDown(s) PROVE StatusInv'
  BY <1>8 DEF MarkDown, SetXrayInternalStatusCached, StateStep
<1>9. ASSUME NEW s \in Starts, PrepareFails(s) PROVE StatusInv'
  BY <1>9 DEF PrepareFails, CoreStep
<1>10. ASSUME NEW s \in Starts, PrepareSucceeds(s) PROVE StatusInv'
  BY <1>10 DEF PrepareSucceeds, CoreStep
<1>11. ASSUME NEW s \in Starts, TakeOld(s) PROVE StatusInv'
  BY <1>11 DEF TakeOld, TakeInstance, CoreStep
<1>12. ASSUME NEW s \in Starts, OldClosed(s) PROVE StatusInv'
  BY <1>12 DEF OldClosed, HeldCloseReturns, CloseReturns, CoreStep
<1>13. ASSUME NEW s \in Starts, Launch(s) PROVE StatusInv'
  BY <1>13 DEF Launch, LaunchInstance, CoreStep
<1>14. ASSUME NEW s \in Starts, StartSucceeded(s) PROVE StatusInv'
  BY <1>14 DEF StartSucceeded, CoreStep
<1>15. ASSUME NEW s \in Starts, StartFailed(s) PROVE StatusInv'
  BY <1>15 DEF StartFailed, CloseFailedInstance, CoreStep
<1>16. ASSUME NEW s \in Starts, StartTimesOut(s) PROVE StatusInv'
  BY <1>16 DEF StartTimesOut, AbandonInstance, CoreStep
<1>17. ASSUME NEW s \in Starts, FailedClosed(s) PROVE StatusInv'
  BY <1>17 DEF FailedClosed, FailedCloseReturns, CloseReturns, CoreStep
<1>18. ASSUME NEW s \in Starts, Publish(s) PROVE StatusInv'
  BY <1>18 DEF Publish, PublishInstance, CoreStep
<1>19. ASSUME NEW s \in Starts, RecordStarted(s) PROVE StatusInv'
  BY <1>19 DEF RecordStarted, SetXrayStarted, StateStep
<1>20. ASSUME NEW s \in Starts, RecordProtocols(s) PROVE StatusInv'
  BY <1>20 DEF RecordProtocols, SetInboundProtocolsFromConfig, StateStep
<1>21. ASSUME NEW s \in Starts, SyncReads(s) PROVE StatusInv'
  BY <1>21 DEF SyncReads
<1>22. ASSUME NEW s \in Starts, SyncRunning(s) PROVE StatusInv'
  BY <1>22 DEF SyncRunning, SetXrayRunning, StateStep
<1>23. ASSUME NEW s \in Starts, SyncCached(s) PROVE StatusInv'
  BY <1>23 DEF SyncCached, SetXrayInternalStatusCached, StateStep
<1>24. ASSUME NEW s \in Starts, SyncStopped(s) PROVE StatusInv'
  BY <1>24 DEF SyncStopped, SetXrayRunning, StateStep
<1>25. ASSUME NEW s \in Starts, EndStart(s) PROVE StatusInv'
  BY <1>25 DEF EndStart
<1>26. ASSUME NEW s \in Starts, LaunchReturns(s) PROVE StatusInv'
  BY <1>26 DEF LaunchReturns, StartCallReturns
<1>27. ASSUME NEW s \in Starts, AbandonedCloses(s) PROVE StatusInv'
  BY <1>27 DEF AbandonedCloses, WatcherCloses
<1>28. ASSUME NEW s \in Starts, AbandonedClosed(s) PROVE StatusInv'
  BY <1>28 DEF AbandonedClosed, WatcherCloseReturns, CloseReturns
<1>29. ASSUME NEW t \in Stops, BeginStop(t) PROVE StatusInv'
  BY <1>29 DEF BeginStop, TakeInstance, CoreStep
<1>30. ASSUME NEW t \in Stops, StopCloseReturns(t) PROVE StatusInv'
  BY <1>30 DEF StopCloseReturns, HeldCloseReturns, CloseReturns, CoreStep
<1>31. ASSUME NEW t \in Stops, RecordStopped(t) PROVE StatusInv'
  BY <1>31 DEF RecordStopped, SetXrayRunning, StateStep
<1>32. CASE UNCHANGED vars
  BY <1>32 DEF vars, ctrlVars
<1> QED
  BY <1>1, <1>2, <1>3, <1>4, <1>5, <1>6, <1>7, <1>8, <1>9, <1>10, <1>11,
      <1>12, <1>13, <1>14, <1>15, <1>16, <1>17, <1>18, <1>19, <1>20, <1>21,
      <1>22, <1>23, <1>24, <1>25, <1>26, <1>27, <1>28, <1>29, <1>30, <1>31,
      <1>32
  DEF Next, StartStep, StopStep, WatcherStep, Finished

\* Whoever publishes an instance has the gate, and so has the start that failed.
LEMMA FailedLaunchStep == IInv /\ FailedLaunchInv /\ [Next]_vars => FailedLaunchInv'
<1> SUFFICES ASSUME IInv /\ FailedLaunchInv, [Next]_vars PROVE FailedLaunchInv'
  OBVIOUS
<1> USE DistinctNames
    DEF IInv, TypeOK, CoreTypeOK, StateTypeOK, ControlTypeOK, Handlers, MaybeInstance,
        Go, IsRunning, coreVars, stateVars, ctrlVars, GateInv, InStart, CoreInv, LifeInv,
        SlotInv, BeforeLaunch,
        FailedLaunchInv
<1>1. ASSUME NEW s \in Starts, BeginStart(s) PROVE FailedLaunchInv'
  BY <1>1 DEF BeginStart
<1>2. ASSUME NEW s \in Starts, RejectStart(s) PROVE FailedLaunchInv'
  BY <1>2 DEF RejectStart
<1>3. ASSUME NEW s \in Starts, BindFails(s) PROVE FailedLaunchInv'
  BY <1>3 DEF BindFails
<1>4. ASSUME NEW s \in Starts, ReadCoreRunning(s) PROVE FailedLaunchInv'
  BY <1>4 DEF ReadCoreRunning
<1>5. ASSUME NEW s \in Starts, Decide(s) PROVE FailedLaunchInv'
  BY <1>5 DEF Decide
<1>6. ASSUME NEW s \in Starts, CheckHealth(s) PROVE FailedLaunchInv'
  BY <1>6 DEF CheckHealth
<1>7. ASSUME NEW s \in Starts, KeepRunning(s) PROVE FailedLaunchInv'
  BY <1>7 DEF KeepRunning, SetXrayInternalStatusCached, StateStep
<1>8. ASSUME NEW s \in Starts, MarkDown(s) PROVE FailedLaunchInv'
  BY <1>8 DEF MarkDown, SetXrayInternalStatusCached, StateStep
<1>9. ASSUME NEW s \in Starts, PrepareFails(s) PROVE FailedLaunchInv'
  BY <1>9 DEF PrepareFails, CoreStep
<1>10. ASSUME NEW s \in Starts, PrepareSucceeds(s) PROVE FailedLaunchInv'
  BY <1>10 DEF PrepareSucceeds, CoreStep
<1>11. ASSUME NEW s \in Starts, TakeOld(s) PROVE FailedLaunchInv'
  BY <1>11 DEF TakeOld, TakeInstance, CoreStep
<1>12. ASSUME NEW s \in Starts, OldClosed(s) PROVE FailedLaunchInv'
  BY <1>12 DEF OldClosed, HeldCloseReturns, CloseReturns, CoreStep
<1>13. ASSUME NEW s \in Starts, Launch(s) PROVE FailedLaunchInv'
  BY <1>13 DEF Launch, LaunchInstance, CoreStep
<1>14. ASSUME NEW s \in Starts, StartSucceeded(s) PROVE FailedLaunchInv'
  BY <1>14 DEF StartSucceeded, CoreStep
<1>15. ASSUME NEW s \in Starts, StartFailed(s) PROVE FailedLaunchInv'
  BY <1>15 DEF StartFailed, CloseFailedInstance, CoreStep
<1>16. ASSUME NEW s \in Starts, StartTimesOut(s) PROVE FailedLaunchInv'
  BY <1>16 DEF StartTimesOut, AbandonInstance, CoreStep
<1>17. ASSUME NEW s \in Starts, FailedClosed(s) PROVE FailedLaunchInv'
  BY <1>17 DEF FailedClosed, FailedCloseReturns, CloseReturns, CoreStep
<1>18. ASSUME NEW s \in Starts, Publish(s) PROVE FailedLaunchInv'
  BY <1>18 DEF Publish, PublishInstance, CoreStep
<1>19. ASSUME NEW s \in Starts, RecordStarted(s) PROVE FailedLaunchInv'
  BY <1>19 DEF RecordStarted, SetXrayStarted, StateStep
<1>20. ASSUME NEW s \in Starts, RecordProtocols(s) PROVE FailedLaunchInv'
  BY <1>20 DEF RecordProtocols, SetInboundProtocolsFromConfig, StateStep
<1>21. ASSUME NEW s \in Starts, SyncReads(s) PROVE FailedLaunchInv'
  BY <1>21 DEF SyncReads
<1>22. ASSUME NEW s \in Starts, SyncRunning(s) PROVE FailedLaunchInv'
  BY <1>22 DEF SyncRunning, SetXrayRunning, StateStep
<1>23. ASSUME NEW s \in Starts, SyncCached(s) PROVE FailedLaunchInv'
  BY <1>23 DEF SyncCached, SetXrayInternalStatusCached, StateStep
<1>24. ASSUME NEW s \in Starts, SyncStopped(s) PROVE FailedLaunchInv'
  BY <1>24 DEF SyncStopped, SetXrayRunning, StateStep
<1>25. ASSUME NEW s \in Starts, EndStart(s) PROVE FailedLaunchInv'
  BY <1>25 DEF EndStart
<1>26. ASSUME NEW s \in Starts, LaunchReturns(s) PROVE FailedLaunchInv'
  BY <1>26 DEF LaunchReturns, StartCallReturns
<1>27. ASSUME NEW s \in Starts, AbandonedCloses(s) PROVE FailedLaunchInv'
  BY <1>27 DEF AbandonedCloses, WatcherCloses
<1>28. ASSUME NEW s \in Starts, AbandonedClosed(s) PROVE FailedLaunchInv'
  BY <1>28 DEF AbandonedClosed, WatcherCloseReturns, CloseReturns
<1>29. ASSUME NEW t \in Stops, BeginStop(t) PROVE FailedLaunchInv'
  BY <1>29 DEF BeginStop, TakeInstance, CoreStep
<1>30. ASSUME NEW t \in Stops, StopCloseReturns(t) PROVE FailedLaunchInv'
  BY <1>30 DEF StopCloseReturns, HeldCloseReturns, CloseReturns, CoreStep
<1>31. ASSUME NEW t \in Stops, RecordStopped(t) PROVE FailedLaunchInv'
  BY <1>31 DEF RecordStopped, SetXrayRunning, StateStep
<1>32. CASE UNCHANGED vars
  BY <1>32 DEF vars, ctrlVars
<1> QED
  BY <1>1, <1>2, <1>3, <1>4, <1>5, <1>6, <1>7, <1>8, <1>9, <1>10, <1>11,
      <1>12, <1>13, <1>14, <1>15, <1>16, <1>17, <1>18, <1>19, <1>20, <1>21,
      <1>22, <1>23, <1>24, <1>25, <1>26, <1>27, <1>28, <1>29, <1>30, <1>31,
      <1>32
  DEF Next, StartStep, StopStep, WatcherStep, Finished

-----------------------------------------------------------------------------
(***************************************************************************)
(* The invariant, and what it gives                                        *)
(***************************************************************************)
\* The invariant holds before the first request.
LEMMA InitInv == Init => IInv
<1> SUFFICES ASSUME Init PROVE IInv
  OBVIOUS
<1> USE DistinctNames DEF Init, CoreInit, StateInit, Handlers
<1>1. TypeOK
  <2>1. CoreTypeOK
    BY DEF CoreTypeOK, MaybeInstance
  <2>2. StateTypeOK
    BY DEF StateTypeOK
  <2>3. NoRequest \in Requests
    BY DEF NoRequest, Requests
  <2>4. ControlTypeOK
    BY <2>3 DEF ControlTypeOK, StartLabels, StopLabels, Answers
  <2> QED BY <2>1, <2>2, <2>4 DEF TypeOK
<1>2. GateInv
  BY DEF GateInv, InStart
<1>3. CoreInv
  BY DEF CoreInv, LifeInv, SlotInv, HeldInv, ClosedByStartInv, NoOrphan,
     BeforeLaunch, Fresh, IsRunning
<1>4. MemoryInv
  BY DEF MemoryInv, HashesDescribeInstance, RememberInv, KeepInv, IsRunning
<1> QED BY <1>1, <1>2, <1>3, <1>4 DEF IInv

\* The inductive invariant holds throughout.
THEOREM Invariance == Spec => []IInv
<1>1. IInv /\ [Next]_vars => IInv'
  BY TypeStep, GateStep, CoreInvStep, MemoryStep DEF IInv
<1> QED BY InitInv, <1>1, PTL DEF Spec

\* Every variable keeps its type.
THEOREM TypeCorrect == Spec => []TypeOK
<1>1. IInv => TypeOK
  BY DEF IInv
<1> QED BY Invariance, <1>1, PTL

\* xray-core never sees Start and Close of one instance overlap.
LEMMA StartAndCloseApart == Spec => []NoStartCloseOverlap
<1>1. IInv => NoStartCloseOverlap
  BY DEF IInv, CoreInv, LifeInv, NoStartCloseOverlap
<1> QED BY Invariance, <1>1, PTL

\* No instance is closed by two of a start, a stop and a background goroutine.
LEMMA CloseIsUnique == Spec => []ClosedByOne
<1>1. IInv => ClosedByOne
  BY DEF IInv, CoreInv, LifeInv, ClosedByOne
<1> QED BY Invariance, <1>1, PTL

\* The published instance is up and nobody has begun to close it.
THEOREM PublishedIsUp == Spec => []PublishedIsUsable
<1>1. IInv => PublishedIsUsable
  <2> SUFFICES ASSUME IInv, instance # NoInstance
               PROVE  startCall[instance] = "ok" /\ closers[instance] = {}
    BY DEF PublishedIsUsable, IsRunning
  <2>1. instance \in Starts
    BY DEF IInv, TypeOK, CoreTypeOK, MaybeInstance
  <2> QED BY <2>1 DEF IInv, CoreInv, LifeInv
<1> QED BY Invariance, <1>1, PTL

\* Nothing that was started is forgotten.
LEMMA NothingOrphaned == Spec => []NoOrphan
<1>1. IInv => NoOrphan
  BY DEF IInv, CoreInv
<1> QED BY Invariance, <1>1, PTL

\* What a start closes has returned from Close before it launches.
LEMMA ClosedBeforeLaunch == Spec => []OldClosedFirst
<1>1. IInv => OldClosedFirst
  <2> SUFFICES ASSUME IInv,
                      NEW s \in Starts, pc[s] \in {"launch", "await", "publish"},
                      NEW i \in Starts, closers[i] \cap Starts # {}
               PROVE  closeCall[i] = "done"
    BY DEF OldClosedFirst
  <2>1. \A r \in Starts : InStart(r) => r = s
    BY DEF IInv, GateInv, InStart
  <2>2. \A r \in Starts : pc[r] # "closeOld" /\ pc[r] # "closeFailed"
    BY <2>1 DEF InStart
  <2> QED BY <2>2 DEF IInv, CoreInv, ClosedByStartInv
<1> QED BY Invariance, <1>1, PTL

\* The remembered hashes and configuration are those of the running instance.
LEMMA HashesAreTheInstances == Spec => []HashesDescribeInstance
<1>1. IInv => HashesDescribeInstance
  BY DEF IInv, MemoryInv
<1> QED BY Invariance, <1>1, PTL

\* Configuration, hashes and protocols always come from one start.
LEMMA MemoryFromOneStart == Spec => []RememberedFromOneStart
<1>1. IInv => RememberedFromOneStart
  BY DEF IInv, MemoryInv, RememberInv, GateInv, InStart, RememberedFromOneStart
<1> QED BY Invariance, <1>1, PTL

\* xray-core is asked to start and to close its instances in an order that it allows.
THEOREM CoreCallsInOrder == Spec => []CallsInOrder
<1>1. NoStartCloseOverlap /\ OldClosedFirst => CallsInOrder
  BY DEF CallsInOrder
<1> QED BY StartAndCloseApart, ClosedBeforeLaunch, <1>1, PTL

\* Every instance that came up is kept or closed by one of them.
THEOREM InstancesOwned == Spec => []OwnedByOne
<1>1. NoOrphan /\ ClosedByOne => OwnedByOne
  BY DEF OwnedByOne
<1> QED BY NothingOrphaned, CloseIsUnique, <1>1, PTL

\* The node remembers the configuration of one start, that of the running instance.
THEOREM MemoryIsTheInstances == Spec => []MemoryDescribesInstance
<1>1. HashesDescribeInstance /\ RememberedFromOneStart => MemoryDescribesInstance
  BY DEF MemoryDescribesInstance
<1> QED BY HashesAreTheInstances, MemoryFromOneStart, <1>1, PTL

\* A start answered "up to date" matches the instance that is running.
THEOREM KeptIsUpToDate == Spec => KeptOnlyIfUpToDate
<1>1. ASSUME IInv, [Next]_vars, NEW s \in Starts, pc[s] = "health", pc'[s] = "keep"
      PROVE  /\ IsRunning
             /\ ~request[s].force
             /\ SameHashes(request[instance].hashes, request[s].hashes)
  <2>1. ~request[s].force /\ SameHashes(lastHashes, request[s].hashes)
    BY <1>1 DEF IInv, MemoryInv, KeepInv
  <2>2. IsRunning
    <3>1. pc \in [Handlers -> StartLabels \cup StopLabels] /\ pc' # pc
      BY <1>1 DEF IInv, TypeOK, ControlTypeOK
    <3>2. CheckHealth(s)
      BY <1>1, <3>1, DistinctNames
      DEF Next, StartStep, StopStep, WatcherStep, Finished, Go, CoreStep, StateStep, Handlers,
          vars, ctrlVars, BeginStart, RejectStart, BindFails, ReadCoreRunning, Decide, CheckHealth,
          KeepRunning, MarkDown, PrepareFails, PrepareSucceeds, TakeOld, OldClosed,
          Launch, StartSucceeded, StartFailed, StartTimesOut, FailedClosed, Publish,
          RecordStarted, RecordProtocols, SyncReads, SyncRunning, SyncCached, SyncStopped,
          EndStart, LaunchReturns, AbandonedCloses, AbandonedClosed, BeginStop, StopCloseReturns,
          RecordStopped
    <3> QED BY <1>1, <3>1, <3>2 DEF CheckHealth, Go, Handlers
  <2>3. instance \in Starts /\ pc[instance] # "setStarted"
    BY <1>1, <2>2 DEF IInv, TypeOK, CoreTypeOK, MaybeInstance, IsRunning, GateInv, InStart
  <2>4. lastHashes = request[instance].hashes
    BY <1>1, <2>2, <2>3 DEF IInv, MemoryInv, HashesDescribeInstance
  <2> QED BY <2>1, <2>2, <2>4
<1>2. IInv /\ [Next]_vars =>
        [\A s \in Starts : (pc[s] = "health" /\ pc'[s] = "keep") =>
           /\ IsRunning
           /\ ~request[s].force
           /\ SameHashes(request[instance].hashes, request[s].hashes)]_vars
  BY <1>1
<1> QED BY Invariance, <1>2, PTL DEF Spec, KeptOnlyIfUpToDate

\* Without stops, whenever all is answered the status of the node is that of its core.
THEOREM StatusFollows == Spec => []StatusMatchesCore
<1>1. Init => StatusInv
  <2> SUFFICES ASSUME Init PROVE StatusInv
    OBVIOUS
  <2>1. IsRunning = FALSE /\ xrayRunning = FALSE /\ statusCached = FALSE
    BY DEF Init, CoreInit, StateInit, IsRunning
  <2>2. \A s \in Starts : pc[s] = "idle"
    BY DEF Init, Handlers
  <2> QED BY <2>1, <2>2 DEF StatusInv, StatusMatches
<1>2. IInv /\ StatusInv /\ [Next]_vars => StatusInv'
  BY StatusStep
<1>3. StatusInv => StatusMatchesCore
  BY DEF StatusInv, StatusMatches, Unrecorded, StatusMatchesCore, Idle, Handlers
<1> QED BY Invariance, <1>1, <1>2, <1>3, PTL DEF Spec

\* A start that launched its instance and answers "failed" leaves the core down and the
\* healthcheck saying so.
THEOREM FailedLaunchIsDown == Spec => FailedLaunchLeavesCoreDown
<1>1. Init => FailedLaunchInv
  BY DEF Init, CoreInit, FailedLaunchInv
<1>2. IInv /\ FailedLaunchInv /\ [Next]_vars => FailedLaunchInv'
  BY FailedLaunchStep
<1>3. ASSUME IInv, FailedLaunchInv, [Next]_vars, NEW s \in Starts,
             answer'[s] = "failed", answer[s] = "none", startCall[s] # "no"
      PROVE  ~IsRunning /\ ~statusCached'
  <2>1. answer \in [Handlers -> Answers] /\ answer' # answer /\ s \in Handlers
    BY <1>3 DEF IInv, TypeOK, ControlTypeOK, Handlers
  <2>2. ASSUME NEW h \in Handlers, NEW a, Answer(h, a) PROVE h = s /\ a = "failed"
    BY <1>3, <2>1, <2>2 DEF Answer
  <2>3. \/ \E h \in Starts : RejectStart(h) \/ BindFails(h) \/ KeepRunning(h)
                            \/ RecordProtocols(h)
        \/ \E h \in Starts : SyncCached(h) \/ SyncStopped(h)
        \/ \E h \in Stops : RecordStopped(h)
    BY <1>3, <2>1
    DEF Next, StartStep, StopStep, WatcherStep, Finished, CoreStep, StateStep, vars, ctrlVars,
        BeginStart, ReadCoreRunning, Decide, CheckHealth, MarkDown, PrepareFails,
        PrepareSucceeds, TakeOld, OldClosed, Launch, StartSucceeded, StartFailed,
        StartTimesOut, FailedClosed, Publish, RecordStarted, SyncReads, SyncRunning, EndStart,
        LaunchReturns, AbandonedCloses, AbandonedClosed, BeginStop, StopCloseReturns
  <2>4. ASSUME NEW h \in Starts,
               RejectStart(h) \/ BindFails(h) \/ KeepRunning(h) \/ RecordProtocols(h)
        PROVE  FALSE
    <3>1. \/ Answer(h, "in_progress") \/ Answer(h, "bad_request")
          \/ Answer(h, "up_to_date") \/ Answer(h, "started")
      BY <2>4 DEF RejectStart, BindFails, KeepRunning, RecordProtocols
    <3> QED BY <2>2, <3>1 DEF Handlers
  <2>5. ASSUME NEW h \in Stops, RecordStopped(h) PROVE FALSE
    BY <2>2, <2>5 DEF RecordStopped, Handlers
  <2>6. SyncCached(s) \/ SyncStopped(s)
    BY <2>2, <2>3, <2>4, <2>5 DEF SyncCached, SyncStopped, Handlers
  <2>7. SyncStopped(s) /\ pc[s] = "syncStopped"
    BY <1>3, <2>6 DEF SyncCached, SyncStopped, StateStep, Go, FailedLaunchInv
  <2> QED BY <1>3, <2>7 DEF SyncStopped, SetXrayRunning, FailedLaunchInv
<1>4. IInv /\ FailedLaunchInv /\ [Next]_vars =>
        [\A s \in Starts : (answer'[s] = "failed" /\ answer[s] = "none" /\ startCall[s] # "no")
           => ~IsRunning /\ ~statusCached']_vars
  BY <1>3
<1> QED BY Invariance, <1>1, <1>2, <1>4, PTL DEF Spec, FailedLaunchLeavesCoreDown

-----------------------------------------------------------------------------
(***************************************************************************)
(* The start and stop handlers implement the abstract specifications of    *)
(* the instance slot and of the single-flight gate.                        *)
(***************************************************************************)
life == [i \in Starts |-> LifeOf(i)]

\* The life of an instance depends on nothing but these variables.
LEMMA LifeStays ==
  ASSUME UNCHANGED <<instance, startCall, closeCall>>
  PROVE  UNCHANGED <<instance, life>>
BY DEF life, LifeOf

\* When one instance's variables move, the others' lives stay.
LEMMA LifeMoves ==
  ASSUME NEW i \in Starts, NEW to,
         \A j \in Starts \ {i} : LifeOf(j)' = LifeOf(j),
         LifeOf(i)' = to
  PROVE  life' = [life EXCEPT ![i] = to]
BY DEF life

\* A Close returns: the instance is gone, unless it was so already.
LEMMA CloseIsGone ==
  ASSUME NEW i \in Starts, CoreTypeOK, closeCall[i] # "no",
         closeCall' = [closeCall EXCEPT ![i] = "done"],
         UNCHANGED <<instance, startCall>>
  PROVE  Slot!CloseReturned(i) \/ UNCHANGED <<instance, life>>
<1>1. LifeOf(i)' = "gone"
  BY DEF LifeOf, CoreTypeOK
<1>2. \A j \in Starts \ {i} : LifeOf(j)' = LifeOf(j)
  BY DEF LifeOf, CoreTypeOK
<1>3. CASE closeCall[i] = "running"
  <2>1. LifeOf(i) = "retiring"
    BY <1>3 DEF LifeOf
  <2> QED BY <1>1, <1>2, <2>1, LifeMoves DEF Slot!CloseReturned, Slot!Becomes, life
<1>4. CASE closeCall[i] = "done"
  <2>1. LifeOf(i) = "gone"
    BY <1>4 DEF LifeOf
  <2>2. life' = life
    BY <1>1, <1>2, <2>1 DEF life
  <2> QED BY <2>2
<1> QED BY <1>3, <1>4 DEF CoreTypeOK

\* Whoever takes a published instance out retires it.
LEMMA TakeIsLeave ==
  ASSUME NEW h \in Handlers, CoreTypeOK, \A i \in Starts : LifeInv(i),
         TakeInstance(h)
  PROVE  (\E i \in Starts : Slot!Leave(i)) \/ UNCHANGED <<instance, life>>
<1>1. CASE instance = NoInstance
  BY <1>1, LifeStays DEF TakeInstance
<1>2. CASE instance \in Starts
  <2>1. closeCall[instance] = "no"
    BY <1>2 DEF LifeInv
  <2>2. /\ closeCall' = [closeCall EXCEPT ![instance] = "running"]
        /\ instance' = NoInstance
        /\ startCall' = startCall
    BY <1>2, DistinctNames DEF TakeInstance, CallClose
  <2>3. LifeOf(instance) = "live"
    BY <2>1 DEF LifeOf
  <2>4. ASSUME NEW i \in Starts, i = instance PROVE LifeOf(i)' = "retiring"
    BY <2>2, <2>4 DEF LifeOf, CoreTypeOK
  <2>5. \A j \in Starts \ {instance} : LifeOf(j)' = LifeOf(j)
    BY <2>2, DistinctNames DEF LifeOf, CoreTypeOK
  <2>6. PICK i \in Starts : i = instance
    BY <1>2
  <2>7. life' = [life EXCEPT ![i] = "retiring"]
    BY <2>4, <2>5, <2>6, LifeMoves
  <2>8. Slot!Leave(i)
    BY <2>2, <2>3, <2>6, <2>7 DEF Slot!Leave, Slot!Becomes, life
  <2> QED BY <2>8
<1> QED BY <1>1, <1>2 DEF CoreTypeOK, MaybeInstance

\* A Close by the one who started the instance, or by its watcher.
LEMMA CloseIsDiscard ==
  ASSUME NEW s \in Starts, CoreTypeOK,
         startCall[s] \in {"ok", "error"}, closeCall[s] = "no", instance # s,
         closeCall' = [closeCall EXCEPT ![s] = "running"],
         UNCHANGED <<instance, startCall>>
  PROVE  Slot!Discard(s)
<1>1. LifeOf(s) \in {"ready", "failed"} /\ LifeOf(s)' = "retiring"
  BY DEF LifeOf, CoreTypeOK
<1>2. \A j \in Starts \ {s} : LifeOf(j)' = LifeOf(j)
  BY DEF LifeOf, CoreTypeOK
<1> QED BY <1>1, <1>2, LifeMoves DEF Slot!Discard, Slot!Becomes, life

\* Before the first request the slot is empty and no instance is born.
LEMMA SlotInitially == Init => Slot!SlotInit
<1> SUFFICES ASSUME Init PROVE Slot!SlotInit
  OBVIOUS
<1>1. \A i \in Starts : LifeOf(i) = "unborn"
  BY DistinctNames DEF Init, CoreInit, LifeOf
<1> QED BY <1>1 DEF Init, CoreInit, Slot!SlotInit

\* Every step moves one instance forward in its life, in or out of the slot
\* with it, or leaves slot and lives alone.
LEMMA SlotStep == IInv /\ [Next]_vars => [Slot!SlotNext]_(Slot!slotVars)
<1> DEFINE Step(i) == \/ Slot!StartCalled(i) \/ Slot!StartReturned(i)
                      \/ Slot!Enter(i) \/ Slot!Leave(i)
                      \/ Slot!Discard(i) \/ Slot!CloseReturned(i)
           Goal    == (\E i \in Starts : Step(i)) \/ UNCHANGED <<instance, life>>
<1> SUFFICES ASSUME IInv, [Next]_vars PROVE Goal
  BY DEF Slot!SlotNext, Slot!slotVars, life
<1>t. /\ CoreTypeOK
      /\ \A i \in Starts : LifeInv(i) /\ SlotInv(i)
      /\ \A h \in Handlers : HeldInv(h)
  BY DEF IInv, TypeOK, CoreInv
<1>1. ASSUME NEW s \in Starts, TakeOld(s) PROVE Goal
  BY <1>1, <1>t, TakeIsLeave DEF TakeOld, Handlers
<1>2. ASSUME NEW s \in Starts, OldClosed(s) PROVE Goal
  <2>1. held[s] \in Starts /\ closeCall[held[s]] # "no"
    BY <1>2, <1>t DEF OldClosed, CoreStep, Go, HeldInv, LifeInv, Handlers
  <2> QED BY <1>2, <2>1, <1>t, CloseIsGone
    DEF OldClosed, HeldCloseReturns, CloseReturns
<1>3. ASSUME NEW s \in Starts, Launch(s) PROVE Goal
  <2>1. startCall[s] = "no" /\ closeCall[s] = "no" /\ instance # s
    BY <1>3, <1>t DEF Launch, CoreStep, Go, LifeInv, BeforeLaunch, Fresh
  <2>2. /\ startCall' = [startCall EXCEPT ![s] = "running"]
        /\ UNCHANGED <<instance, closeCall>>
    BY <1>3 DEF Launch, LaunchInstance
  <2>3. LifeOf(s) = "unborn" /\ LifeOf(s)' = "starting"
    BY <2>1, <2>2, <1>t DEF LifeOf, CoreTypeOK
  <2>4. \A j \in Starts \ {s} : LifeOf(j)' = LifeOf(j)
    BY <2>2, <1>t DEF LifeOf, CoreTypeOK
  <2>5. Slot!StartCalled(s)
    BY <2>2, <2>3, <2>4, LifeMoves DEF Slot!StartCalled, Slot!Becomes, life
  <2> QED BY <2>5
<1>4. ASSUME NEW s \in Starts, StartFailed(s) PROVE Goal
  <2>1. startCall[s] = "error" /\ closeCall[s] = "no" /\ instance # s
    BY <1>4, <1>t DEF StartFailed, CoreStep, Go, CloseFailedInstance, LifeInv, Fresh
  <2> QED BY <1>4, <2>1, <1>t, CloseIsDiscard
    DEF StartFailed, CloseFailedInstance, CallClose
<1>5. ASSUME NEW s \in Starts, FailedClosed(s) PROVE Goal
  <2>1. closeCall[s] # "no"
    BY <1>5, <1>t DEF FailedClosed, CoreStep, Go, LifeInv
  <2> QED BY <1>5, <2>1, <1>t, CloseIsGone
    DEF FailedClosed, FailedCloseReturns, CloseReturns
<1>6. ASSUME NEW s \in Starts, Publish(s) PROVE Goal
  <2>1. /\ startCall[s] = "ok" /\ closeCall[s] = "no"
        /\ instance = NoInstance
    BY <1>6, <1>t DEF Publish, CoreStep, Go, LifeInv, SlotInv, Fresh, IsRunning
  <2>2. instance' = s /\ UNCHANGED <<startCall, closeCall>>
    BY <1>6 DEF Publish, PublishInstance
  <2>3. LifeOf(s) = "ready" /\ LifeOf(s)' = "live"
    BY <2>1, <2>2, DistinctNames DEF LifeOf
  <2>4. \A j \in Starts \ {s} : LifeOf(j)' = LifeOf(j)
    BY <2>1, <2>2, DistinctNames DEF LifeOf
  <2>5. Slot!Enter(s)
    BY <2>1, <2>2, <2>3, <2>4, LifeMoves DEF Slot!Enter, Slot!Becomes, life
  <2> QED BY <2>5
<1>7. ASSUME NEW s \in Starts, LaunchReturns(s) PROVE Goal
  <2>1. PICK result \in {"ok", "error"} :
          startCall' = [startCall EXCEPT ![s] = result]
    BY <1>7 DEF LaunchReturns, StartCallReturns
  <2>2. startCall[s] = "running" /\ UNCHANGED <<instance, closeCall>>
    BY <1>7 DEF LaunchReturns, StartCallReturns
  <2>3. closeCall[s] = "no" /\ instance # s
    BY <2>2, <1>t DEF LifeInv
  <2>4. LifeOf(s) = "starting" /\ LifeOf(s)' \in {"ready", "failed"}
    BY <2>1, <2>2, <2>3, <1>t DEF LifeOf, CoreTypeOK
  <2>5. \A j \in Starts \ {s} : LifeOf(j)' = LifeOf(j)
    BY <2>1, <2>2, <1>t DEF LifeOf, CoreTypeOK
  <2>6. Slot!StartReturned(s)
    BY <2>2, <2>4, <2>5, LifeMoves DEF Slot!StartReturned, Slot!Becomes, life
  <2> QED BY <2>6
<1>8. ASSUME NEW s \in Starts, AbandonedCloses(s) PROVE Goal
  <2>1. startCall[s] \in {"ok", "error"} /\ closeCall[s] = "no" /\ instance # s
    BY <1>8, <1>t DEF AbandonedCloses, WatcherCloses, LifeInv, CoreTypeOK
  <2> QED BY <1>8, <2>1, <1>t, CloseIsDiscard
    DEF AbandonedCloses, WatcherCloses, CallClose
<1>9. ASSUME NEW s \in Starts, AbandonedClosed(s) PROVE Goal
  <2>1. closeCall[s] # "no"
    BY <1>9, <1>t DEF AbandonedClosed, WatcherCloseReturns, LifeInv
  <2> QED BY <1>9, <2>1, <1>t, CloseIsGone
    DEF AbandonedClosed, WatcherCloseReturns, CloseReturns
<1>10. ASSUME NEW t \in Stops, BeginStop(t) PROVE Goal
  BY <1>10, <1>t, TakeIsLeave DEF BeginStop, Handlers
<1>11. ASSUME NEW t \in Stops, StopCloseReturns(t) PROVE Goal
  <2>1. held[t] \in Starts /\ closeCall[held[t]] # "no"
    BY <1>11, <1>t DEF StopCloseReturns, CoreStep, Go, HeldInv, LifeInv, Handlers
  <2> QED BY <1>11, <2>1, <1>t, CloseIsGone
    DEF StopCloseReturns, HeldCloseReturns, CloseReturns
<1>12. ASSUME UNCHANGED <<instance, startCall, closeCall>> PROVE Goal
  BY <1>12, LifeStays
<1> HIDE DEF Goal
<1> QED
  BY <1>1, <1>2, <1>3, <1>4, <1>5, <1>6, <1>7, <1>8, <1>9, <1>10, <1>11,
      <1>12
  DEF Next, StartStep, StopStep, WatcherStep, Finished, CoreStep, StateStep, vars,
      coreVars, AbandonInstance,
      BeginStart, RejectStart, BindFails, ReadCoreRunning, Decide,
      CheckHealth, KeepRunning, MarkDown, PrepareFails, PrepareSucceeds,
      StartSucceeded, StartTimesOut, RecordStarted, RecordProtocols,
      SyncReads, SyncRunning, SyncCached, SyncStopped, EndStart,
      RecordStopped

\* EmbeddedCore, used by any number of starts and stops, is the abstract slot.
THEOREM RefinesInstanceSlot == Spec => ImplementsInstanceSlot
BY SlotInitially, SlotStep, Invariance, PTL DEF Spec, ImplementsInstanceSlot, Slot!SlotSpec

-----------------------------------------------------------------------------
\* With one start past the gate, it is the one at work.
LEMMA WorkingIs ==
  ASSUME NEW s \in Starts, InStart(s), GateInv
  PROVE  Working = s
BY DEF Working, GateInv

\* With no start past the gate, nobody is inside.
LEMMA NobodyWorks ==
  ASSUME \A s \in Starts : ~InStart(s)
  PROVE  Working = NoInstance
BY DEF Working

\* A step that takes nobody in or out, and turns nobody away.
LEMMA GateStays ==
  ASSUME \A r \in Starts : InStart(r)' = InStart(r),
         \A r \in Starts : (answer'[r] = "in_progress") = (answer[r] = "in_progress")
  PROVE  UNCHANGED <<Working, Rejected>>
BY DEF Working, Rejected

\* Every step admits, turns away or releases one caller of the gate, or
\* leaves it alone.
LEMMA GateRefinementStep == IInv /\ IInv' /\ [Next]_vars => [Gate!GateNext]_(Gate!gateVars)
<1> DEFINE Goal == \/ \E c \in Starts : Gate!Admit(c) \/ Gate!TurnAway(c) \/ Gate!Release(c)
                   \/ UNCHANGED <<Working, Rejected>>
<1> SUFFICES ASSUME IInv, IInv', [Next]_vars PROVE Goal
  BY DEF Gate!GateNext, Gate!gateVars
<1>t. /\ GateInv /\ GateInv'
      /\ ControlTypeOK
  BY DEF IInv, TypeOK
<1> USE DistinctNames DEF Handlers, Go, Answer
<1>1. ASSUME NEW s \in Starts, BeginStart(s) PROVE Goal
  <2>1. /\ pc[s] = "idle" /\ pc' = [pc EXCEPT ![s] = "bind"]
        /\ ~startProcessing /\ answer' = answer
    BY <1>1 DEF BeginStart
  <2>2. Working = NoInstance
    BY <2>1, <1>t, NobodyWorks DEF GateInv
  <2>3. InStart(s)'
    BY <2>1, <1>t DEF InStart, ControlTypeOK
  <2>4. Working' = s
    BY <2>3, <1>t, WorkingIs DEF GateInv, Working, InStart
  <2>5. s \notin Rejected /\ Rejected' = Rejected
    BY <2>1, <1>t DEF Rejected, GateInv
  <2>6. Gate!Admit(s)
    BY <2>2, <2>4, <2>5 DEF Gate!Admit
  <2> QED BY <2>6
<1>2. ASSUME NEW s \in Starts, RejectStart(s) PROVE Goal
  <2>1. /\ pc[s] = "idle" /\ pc' = [pc EXCEPT ![s] = "done"]
        /\ startProcessing /\ answer' = [answer EXCEPT ![s] = "in_progress"]
    BY <1>2 DEF RejectStart
  <2>2. PICK r \in Starts : InStart(r)
    BY <2>1, <1>t DEF GateInv
  <2>3. Working = r /\ r # s
    BY <2>1, <2>2, <1>t, WorkingIs DEF InStart
  <2>4. \A q \in Starts : InStart(q)' = InStart(q)
    BY <2>1, <1>t DEF InStart, ControlTypeOK
  <2>5. Working' = Working
    BY <2>4 DEF Working
  <2>6. s \notin Rejected /\ Rejected' = Rejected \cup {s}
    BY <2>1, <1>t DEF Rejected, GateInv, ControlTypeOK
  <2>7. Working \notin {NoInstance, s}
    BY <2>3
  <2>8. Gate!TurnAway(s)
    BY <2>5, <2>6, <2>7 DEF Gate!TurnAway
  <2> QED BY <2>8
<1>3. ASSUME NEW s \in Starts, EndStart(s) PROVE Goal
  <2>1. /\ pc[s] = "end" /\ pc' = [pc EXCEPT ![s] = "done"]
        /\ startProcessing' = FALSE /\ answer' = answer
    BY <1>3 DEF EndStart
  <2>2. Working = s
    BY <2>1, <1>t, WorkingIs DEF InStart
  <2>3. Working' = NoInstance
    BY <2>1, <1>t DEF GateInv, Working
  <2>4. Rejected' = Rejected
    BY <2>1 DEF Rejected
  <2>5. Gate!Release(s)
    BY <2>2, <2>3, <2>4 DEF Gate!Release
  <2> QED BY <2>5
<1>4. ASSUME NEW s \in Starts, StartStep(s), ~EndStart(s) PROVE Goal
  <2>1. PICK from \in StartLabels \ {"idle", "done"}, to \in StartLabels \ {"idle", "done"} :
          pc[s] = from /\ pc' = [pc EXCEPT ![s] = to]
    BY <1>4 DEF StartStep, CoreStep, StateStep, StartLabels,
      BindFails, ReadCoreRunning, Decide, CheckHealth, KeepRunning,
      MarkDown, PrepareFails, PrepareSucceeds, TakeOld, OldClosed, Launch,
      StartSucceeded, StartFailed, StartTimesOut, FailedClosed, Publish,
      RecordStarted, RecordProtocols, SyncReads, SyncRunning, SyncCached,
      SyncStopped
  <2>2. answer' = answer \/ \E a \in Answers \ {"in_progress"} :
          answer' = [answer EXCEPT ![s] = a]
    BY <1>4 DEF StartStep, CoreStep, StateStep, Answers,
      BindFails, ReadCoreRunning, Decide, CheckHealth, KeepRunning,
      MarkDown, PrepareFails, PrepareSucceeds, TakeOld, OldClosed, Launch,
      StartSucceeded, StartFailed, StartTimesOut, FailedClosed, Publish,
      RecordStarted, RecordProtocols, SyncReads, SyncRunning, SyncCached,
      SyncStopped
  <2>3. \A r \in Starts : InStart(r)' = InStart(r)
    BY <2>1, <1>t DEF InStart, ControlTypeOK
  <2>4. \A r \in Starts : (answer'[r] = "in_progress") = (answer[r] = "in_progress")
    BY <2>1, <2>2, <1>t DEF GateInv, ControlTypeOK
  <2> QED BY <2>3, <2>4, GateStays
<1>5. ASSUME NEW t \in Stops, BeginStop(t) \/ StopStep(t) PROVE Goal
  <2>1. \A r \in Starts : pc'[r] = pc[r] /\ answer'[r] = answer[r]
    BY <1>5, <1>t DEF BeginStop, StopStep, StopCloseReturns, RecordStopped, CoreStep,
       StateStep, ControlTypeOK
  <2> QED BY <2>1, GateStays DEF InStart
<1>6. ASSUME UNCHANGED ctrlVars PROVE Goal
  BY <1>6 DEF ctrlVars, Working, Rejected, InStart
<1> HIDE DEF Goal
<1> QED
  BY <1>1, <1>2, <1>3, <1>4, <1>5, <1>6
  DEF Next, WatcherStep, LaunchReturns, AbandonedCloses, AbandonedClosed, Finished, vars

\* Before the first request nobody is inside and nobody was turned away.
LEMMA GateInitially == Init => Gate!GateInit
<1> SUFFICES ASSUME Init PROVE Gate!GateInit
  OBVIOUS
<1>1. Working = NoInstance
  BY NobodyWorks DEF Init, InStart, Handlers
<1>2. Rejected = {}
  BY DEF Init, Rejected, Handlers
<1> QED BY <1>1, <1>2 DEF Gate!GateInit

\* The start handler is a single-flight gate for any number of requests.
THEOREM RefinesSingleFlight == Spec => ImplementsSingleFlight
BY GateInitially, GateRefinementStep, Invariance, PTL
DEF Spec, ImplementsSingleFlight, Gate!GateSpec
=============================================================================
