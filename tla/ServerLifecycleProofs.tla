----------------------- MODULE ServerLifecycleProofs -----------------------
(***************************************************************************)
(* ServerInv is invariant, and the safety properties follow from it.       *)
(***************************************************************************)
EXTENDS ServerLifecycle, TLAPS

\* The first result is taken.
LEMMA TakeResult ==
  ASSUME NEW q \in Seq({"nil", "error"}), q # <<>>
  PROVE  /\ Tail(q) \in Seq({"nil", "error"}) /\ Head(q) \in {"nil", "error"}
         /\ Len(Tail(q)) = Len(q) - 1
         /\ (\E i \in 1..Len(q) : q[i] = "error")
              <=> Head(q) = "error" \/ \E i \in 1..Len(Tail(q)) : Tail(q)[i] = "error"
<1>1. /\ Tail(q) \in Seq({"nil", "error"}) /\ Len(Tail(q)) = Len(q) - 1
      /\ Head(q) = q[1] /\ q[1] \in {"nil", "error"}
      /\ \A i \in 1..Len(Tail(q)) : Tail(q)[i] = q[i + 1]
      /\ Len(q) \in Nat \ {0}
  OBVIOUS
<1>2. ASSUME NEW i \in 1..Len(q), q[i] = "error", i # 1
      PROVE  \E k \in 1..Len(Tail(q)) : Tail(q)[k] = "error"
  <2>1. i - 1 \in 1..Len(Tail(q)) /\ Tail(q)[i - 1] = q[i]
    BY <1>1, <1>2
  <2> QED
    BY <1>2, <2>1
<1>3. ASSUME NEW i \in 1..Len(Tail(q)), Tail(q)[i] = "error"
      PROVE  \E k \in 1..Len(q) : q[k] = "error"
  <2>1. i + 1 \in 1..Len(q)
    BY <1>1
  <2> QED
    BY <1>1, <1>3, <2>1
<1> QED
  BY <1>1, <1>2, <1>3

\* A listener is opened.
LEMMA ListenStep ==
  ASSUME ServerInv, Listen
  PROVE  ServerInv'
<1>1. ServerTypeOK'
  BY DEF ServerInv, ServerTypeOK, Servers, Listen, mainVars
<1>2. ResultsInv'
  BY DEF ServerInv, ResultsInv, ListenInv, Returned, Listen
<1>3. ListenInv'
  BY DEF ServerInv, ListenInv, Listen
<1>4. ErrorInv'
  BY DEF ServerInv, ErrorInv, ErrorSent, Listen, mainVars
<1>5. ShutdownInv'
  BY DEF ServerInv, ShutdownInv, Active, Listen, mainVars
<1> QED
  BY <1>1, <1>2, <1>3, <1>4, <1>5 DEF ServerInv

\* A listener cannot be opened.
LEMMA ListenFailsStep ==
  ASSUME ServerInv, ListenFails
  PROVE  ServerInv'
<1>1. ServerTypeOK'
  BY DEF ServerInv, ServerTypeOK, ListenFails, mainVars
<1>2. ResultsInv'
  BY DEF ServerInv, ResultsInv, Returned, ListenFails
<1>3. ListenInv'
  BY DEF ServerInv, ListenInv, ListenFails
<1>4. ErrorInv'
  BY DEF ErrorInv, ListenFails
<1>5. ShutdownInv'
  BY DEF ServerInv, ShutdownInv, Active, ListenFails, mainVars
<1> QED
  BY <1>1, <1>2, <1>3, <1>4, <1>5 DEF ServerInv

\* The goroutines are started.
LEMMA SpawnStep ==
  ASSUME ServerInv, Spawn
  PROVE  ServerInv'
<1>1. ServerTypeOK'
  BY DEF ServerInv, ServerTypeOK, Spawn, mainVars
<1>2. ResultsInv'
  BY DEF ServerInv, ResultsInv, ListenInv, Returned, Servers, Spawn
<1>3. ListenInv'
  BY DEF ServerInv, ListenInv, ServerTypeOK, Servers, ResultsInv, Returned, Spawn
<1>4. ErrorInv'
  BY DEF ServerInv, ErrorInv, ErrorSent, Spawn, mainVars
<1>5. ShutdownInv'
  BY DEF ServerInv, ShutdownInv, Active, Spawn, mainVars
<1> QED
  BY <1>1, <1>2, <1>3, <1>4, <1>5 DEF ServerInv

\* A result is received.
LEMMA CollectStep ==
  ASSUME ServerInv, Collect
  PROVE  ServerInv'
<1>1. /\ errCh' \in Seq({"nil", "error"}) /\ Head(errCh) \in {"nil", "error"}
      /\ Len(errCh') = Len(errCh) - 1
      /\ ErrorSent <=> Head(errCh) = "error" \/ ErrorSent'
  BY TakeResult DEF ServerInv, ServerTypeOK, Collect, ErrorSent
<1>2. received < 2 /\ las = "collect"
  BY DEF ServerInv, ListenInv, Collect
<1>3. ServerTypeOK'
  BY <1>1, <1>2 DEF ServerInv, ServerTypeOK, Servers, Collect, mainVars
<1>4. ResultsInv'
  <2>1. Len(errCh) \in Nat /\ received \in Nat
    BY DEF ServerInv, ServerTypeOK
  <2> QED
    BY <1>1, <2>1 DEF ServerInv, ResultsInv, Returned, Collect
<1>5. ListenInv'
  BY <1>2 DEF ServerInv, ServerTypeOK, ListenInv, Collect
<1>6. ErrorInv'
  <2>1. firstErr' \/ ErrorSent' <=> firstErr \/ ErrorSent
    BY <1>1 DEF Collect
  <2> QED
    BY <1>1, <1>2, <2>1 DEF ServerInv, ErrorInv, Collect, mainVars
<1>7. ShutdownInv'
  BY DEF ServerInv, ShutdownInv, Active, Collect, mainVars
<1> QED
  BY <1>3, <1>4, <1>5, <1>6, <1>7 DEF ServerInv

\* A server is closed.
LEMMA CloseStep ==
  ASSUME ServerInv, Close
  PROVE  ServerInv'
<1>1. ServerTypeOK'
  BY DEF ServerInv, ServerTypeOK, Servers, Close, mainVars, TakeDown
<1>2. ResultsInv'
  BY DEF ServerInv, ResultsInv, Returned, Close, TakeDown
<1>3. ListenInv'
  BY DEF ServerInv, ListenInv, ServerTypeOK, Close
<1>4. ErrorInv'
  BY DEF ServerInv, ErrorInv, Close
<1>5. ShutdownInv'
  BY DEF ServerInv, ShutdownInv, Active, ErrorInv, Close, mainVars, TakeDown
<1> QED
  BY <1>1, <1>2, <1>3, <1>4, <1>5 DEF ServerInv

\* A goroutine calls Serve.
LEMMA ServeStep ==
  ASSUME ServerInv, NEW s \in Servers, Serve(s)
  PROVE  ServerInv'
<1>1. ServerTypeOK'
  BY DEF ServerInv, ServerTypeOK, Serve, lasVars, mainVars
<1>2. ResultsInv'
  BY DEF ServerInv, ResultsInv, Returned, Serve, lasVars
<1>3. ListenInv'
  BY DEF ServerInv, ListenInv, Serve, lasVars
<1>4. ErrorInv'
  BY DEF ServerInv, ErrorInv, ErrorSent, Serve, lasVars, mainVars
<1>5. ShutdownInv'
  BY DEF ServerInv, ShutdownInv, Active, Serve, mainVars
<1> QED
  BY <1>1, <1>2, <1>3, <1>4, <1>5 DEF ServerInv

\* Serve returns from a server that was taken down.
LEMMA ServeEndsStep ==
  ASSUME ServerInv, NEW s \in Servers, ServeEnds(s)
  PROVE  ServerInv'
<1>1. ServerTypeOK'
  BY DEF ServerInv, ServerTypeOK, ServeEnds, lasVars, mainVars, ServeReturns
<1>2. ResultsInv'
  BY DEF ServerInv, ResultsInv, Returned, ServerTypeOK, Servers, ServeEnds, lasVars, ServeReturns
<1>3. ListenInv'
  BY DEF ServerInv, ListenInv, ServeEnds, lasVars, ServeReturns
<1>4. ErrorInv'
  BY DEF ServerInv, ErrorInv, ErrorSent, ServeEnds, lasVars, mainVars, ServeReturns
<1>5. ShutdownInv'
  BY DEF ServerInv, ShutdownInv, Active, ServeEnds, mainVars, ServeReturns
<1> QED
  BY <1>1, <1>2, <1>3, <1>4, <1>5 DEF ServerInv

\* Serve fails.
LEMMA ServeFailsStep ==
  ASSUME ServerInv, NEW s \in Servers, ServeFails(s)
  PROVE  ServerInv'
<1>1. ServerTypeOK'
  BY DEF ServerInv, ServerTypeOK, ServeFails, lasVars, mainVars, ServeReturns
<1>2. ResultsInv'
  BY DEF ServerInv, ResultsInv, Returned, ServerTypeOK, Servers, ServeFails, lasVars, ServeReturns
<1>3. ListenInv'
  BY DEF ServerInv, ListenInv, ServeFails, lasVars, ServeReturns
<1>4. ErrorInv'
  BY DEF ServerInv, ErrorInv, ErrorSent, ServeFails, lasVars, mainVars, ServeReturns
<1>5. ShutdownInv'
  BY DEF ServerInv, ShutdownInv, Active, ServeFails, mainVars, ServeReturns
<1> QED
  BY <1>1, <1>2, <1>3, <1>4, <1>5 DEF ServerInv

\* A request comes.
LEMMA SendStep ==
  ASSUME ServerInv, NEW r \in Connections, NEW s \in Servers, Send(r, s)
  PROVE  ServerInv'
<1>1. ServerTypeOK'
  BY DEF ServerInv, ServerTypeOK, Send, lasVars, mainVars
<1>2. ResultsInv'
  BY DEF ServerInv, ResultsInv, Returned, Send, lasVars
<1>3. ListenInv'
  BY DEF ServerInv, ListenInv, Send, lasVars
<1>4. ErrorInv'
  BY DEF ServerInv, ErrorInv, ErrorSent, Send, lasVars, mainVars
<1>5. ShutdownInv'
  BY DEF ServerInv, ShutdownInv, Active, Servers, Send, mainVars
<1> QED
  BY <1>1, <1>2, <1>3, <1>4, <1>5 DEF ServerInv

\* A request is answered.
LEMMA AnswerStep ==
  ASSUME ServerInv, NEW r \in Connections, Answer(r)
  PROVE  ServerInv'
<1>1. ServerTypeOK'
  BY DEF ServerInv, ServerTypeOK, Answer, lasVars, mainVars
<1>2. ResultsInv'
  BY DEF ServerInv, ResultsInv, Returned, Answer, lasVars
<1>3. ListenInv'
  BY DEF ServerInv, ListenInv, Answer, lasVars
<1>4. ErrorInv'
  BY DEF ServerInv, ErrorInv, ErrorSent, Answer, lasVars, mainVars
<1>5. ShutdownInv'
  BY DEF ServerInv, ShutdownInv, Active, Answer, mainVars
<1> QED
  BY <1>1, <1>2, <1>3, <1>4, <1>5 DEF ServerInv

\* A signal comes.
LEMMA SignalStep ==
  ASSUME ServerInv, Signal
  PROVE  ServerInv'
<1>1. ServerTypeOK'
  BY DEF ServerInv, ServerTypeOK, Signal, lasVars, mainVars
<1>2. ResultsInv'
  BY DEF ServerInv, ResultsInv, Returned, Signal, lasVars
<1>3. ListenInv'
  BY DEF ServerInv, ListenInv, Signal, lasVars
<1>4. ErrorInv'
  BY DEF ServerInv, ErrorInv, ErrorSent, Signal, lasVars, mainVars
<1>5. ShutdownInv'
  BY DEF ServerInv, ShutdownInv, Signal, mainVars
<1> QED
  BY <1>1, <1>2, <1>3, <1>4, <1>5 DEF ServerInv

\* main takes the signal.
LEMMA InterruptedStep ==
  ASSUME ServerInv, Interrupted
  PROVE  ServerInv'
<1>1. ServerTypeOK'
  BY DEF ServerInv, ServerTypeOK, Interrupted, lasVars
<1>2. ResultsInv'
  BY DEF ServerInv, ResultsInv, Returned, Interrupted, lasVars
<1>3. ListenInv'
  BY DEF ServerInv, ListenInv, Interrupted, lasVars
<1>4. ErrorInv'
  BY DEF ServerInv, ErrorInv, ErrorSent, Interrupted, lasVars
<1>5. ShutdownInv'
  BY DEF ServerInv, ShutdownInv, Interrupted
<1> QED
  BY <1>1, <1>2, <1>3, <1>4, <1>5 DEF ServerInv

\* main takes the end of ListenAndServe.
LEMMA ServerReturnedStep ==
  ASSUME ServerInv, ServerReturned
  PROVE  ServerInv'
<1>1. ServerTypeOK'
  BY DEF ServerInv, ServerTypeOK, ServerReturned, lasVars, Exit
<1>2. ResultsInv'
  BY DEF ServerInv, ResultsInv, Returned, ServerReturned, lasVars
<1>3. ListenInv'
  BY DEF ServerInv, ListenInv, ServerReturned, lasVars
<1>4. ErrorInv'
  BY DEF ServerInv, ErrorInv, ErrorSent, ServerReturned, lasVars
<1>5. firstErr
  <2>1. CASE received = 2
    <3>1. Len(errCh) = 0 /\ \A s \in Servers : serving[s] = "returned"
      <4>1. Len(errCh) \in Nat
        BY DEF ServerInv, ServerTypeOK
      <4> QED
        BY <2>1, <4>1 DEF ServerInv, ResultsInv, Returned, Servers
    <3>2. ~ErrorSent
      BY <3>1 DEF ErrorSent
    <3> QED
      BY <3>1, <3>2 DEF ServerInv, ErrorInv, Servers, ServerReturned
  <2> QED
    BY <2>1 DEF ServerInv, ListenInv, ServerReturned
<1>6. ShutdownInv'
  BY <1>5 DEF ShutdownInv, ServerReturned, Exit
<1> QED
  BY <1>1, <1>2, <1>3, <1>4, <1>6 DEF ServerInv

\* main takes a server down.
LEMMA ShutdownStep ==
  ASSUME ServerInv, Shutdown
  PROVE  ServerInv'
<1>1. ServerTypeOK'
  BY DEF ServerInv, ServerTypeOK, Shutdown, lasVars, TakeDown
<1>2. ResultsInv'
  BY DEF ServerInv, ResultsInv, Returned, Shutdown, lasVars, TakeDown
<1>3. ListenInv'
  BY DEF ServerInv, ListenInv, Shutdown, lasVars, TakeDown
<1>4. ErrorInv'
  BY DEF ServerInv, ErrorInv, ErrorSent, Shutdown, lasVars, TakeDown
<1>5. ShutdownInv'
  BY DEF ServerInv, ShutdownInv, Active, ServerTypeOK, Shutdown, TakeDown
<1> QED
  BY <1>1, <1>2, <1>3, <1>4, <1>5 DEF ServerInv

\* A Shutdown returns, drained or not.
LEMMA ShutdownReturnsStep ==
  ASSUME ServerInv, NEW err \in BOOLEAN, main = "drain", err \/ Active(stopping) = {},
         ShutdownReturns(err)
  PROVE  ServerInv'
<1>1. ServerTypeOK'
  BY DEF ServerInv, ServerTypeOK, Servers, ShutdownReturns, lasVars, Exit
<1>2. ResultsInv'
  BY DEF ServerInv, ResultsInv, Returned, ShutdownReturns, lasVars
<1>3. ListenInv'
  BY DEF ServerInv, ListenInv, ShutdownReturns, lasVars
<1>4. ErrorInv'
  BY DEF ServerInv, ErrorInv, ErrorSent, ShutdownReturns, lasVars, Exit
<1>5. ShutdownInv'
  BY DEF ServerInv, ShutdownInv, Active, ServerTypeOK, Servers, ShutdownReturns, Exit
<1> QED
  BY <1>1, <1>2, <1>3, <1>4, <1>5 DEF ServerInv

\* The ten seconds are over.
LEMMA DeadlineStep ==
  ASSUME ServerInv, Deadline
  PROVE  ServerInv'
<1>1. ServerTypeOK'
  BY DEF ServerInv, ServerTypeOK, Deadline, lasVars, mainVars
<1>2. ResultsInv'
  BY DEF ServerInv, ResultsInv, Returned, Deadline, lasVars
<1>3. ListenInv'
  BY DEF ServerInv, ListenInv, Deadline, lasVars
<1>4. ErrorInv'
  BY DEF ServerInv, ErrorInv, ErrorSent, Deadline, lasVars, mainVars
<1>5. ShutdownInv'
  BY DEF ServerInv, ShutdownInv, Active, Deadline, mainVars
<1> QED
  BY <1>1, <1>2, <1>3, <1>4, <1>5 DEF ServerInv

-----------------------------------------------------------------------------
LEMMA ServerInit ==
  ASSUME ServersInit
  PROVE  ServerInv
<1>1. ServerTypeOK
  <2>1. errCh \in Seq({"nil", "error"})
    BY DEF ServersInit
  <2>2. conn \in [Connections -> {"unsent", "answered", "cut"} \cup Servers]
    BY DEF ServersInit
  <2>3. /\ listener \in [Servers -> {"none", "open", "closed"}]
        /\ serving \in [Servers -> {"none", "spawned", "serving", "returned"}]
        /\ down \in [Servers -> BOOLEAN]
    BY DEF ServersInit
  <2>4. at \in Servers /\ stopping \in Servers /\ received \in 0..2
    BY DEF ServersInit, Servers
  <2>5. /\ firstErr \in BOOLEAN /\ shutErr \in BOOLEAN
        /\ signal \in BOOLEAN /\ deadline \in BOOLEAN /\ failed \in BOOLEAN
    BY DEF ServersInit
  <2>6. /\ las \in {"listen", "serve", "collect", "close", "returned"}
        /\ main \in {"select", "stop", "drain", "ok", "failed"}
    BY DEF ServersInit
  <2> QED
    BY <2>1, <2>2, <2>3, <2>4, <2>5, <2>6 DEF ServerTypeOK
<1>2. Len(errCh) = 0 /\ ~ErrorSent
  BY DEF ServersInit, ErrorSent
<1>3. ResultsInv /\ ListenInv /\ ErrorInv
  BY <1>2 DEF ServersInit, ResultsInv, Returned, ListenInv, ErrorInv, Servers
<1>4. ShutdownInv
  BY DEF ServersInit, ShutdownInv
<1> QED
  BY <1>1, <1>3, <1>4 DEF ServerInv

LEMMA ServerStep ==
  ASSUME ServerInv, [ServersNext]_serverVars
  PROVE  ServerInv'
<1>1. CASE ListenAndServe
  BY <1>1, ListenStep, ListenFailsStep, SpawnStep, CollectStep, CloseStep DEF ListenAndServe
<1>2. ASSUME NEW s \in Servers, Goroutine(s) \/ ServeFails(s)
      PROVE  ServerInv'
  BY <1>2, ServeStep, ServeEndsStep, ServeFailsStep DEF Goroutine
<1>3. ASSUME NEW r \in Connections, Answer(r) \/ \E s \in Servers : Send(r, s)
      PROVE  ServerInv'
  BY <1>3, AnswerStep, SendStep
<1>4. CASE Main
  <2>1. CASE Drained
    BY <2>1, ShutdownReturnsStep DEF Drained
  <2>2. CASE DrainTimesOut
    BY <2>2, ShutdownReturnsStep DEF DrainTimesOut
  <2> QED
    BY <1>4, <2>1, <2>2, InterruptedStep, ServerReturnedStep, ShutdownStep DEF Main
<1>5. CASE UNCHANGED serverVars
  BY <1>5 DEF serverVars, lasVars, mainVars, ServerInv, ServerTypeOK, ResultsInv, ListenInv, ErrorInv,
              ShutdownInv, Returned, ErrorSent, Active
<1> QED
  BY <1>1, <1>2, <1>3, <1>4, <1>5, SignalStep, DeadlineStep DEF ServersNext

\* The invariant holds in every behaviour.
THEOREM ServerInvariance == ServersSpec => []ServerInv
<1> QED
  BY ServerInit, ServerStep, PTL DEF ServersSpec

\* Every variable keeps its type.
THEOREM ServerTypeCorrect == ServersSpec => []ServerTypeOK
<1>1. ServerInv => ServerTypeOK
  BY DEF ServerInv
<1> QED
  BY <1>1, ServerInvariance, PTL

\* ListenAndServe never returns with a port bound or a server at work.
THEOREM NothingLeftBound == ServersSpec => []ListenersReleased
<1>1. ServerInv => ListenersReleased
  <2> SUFFICES ASSUME ServerInv, las = "returned", NEW s \in Servers
               PROVE  listener[s] # "open" /\ serving[s] \in {"none", "returned"}
    BY DEF ListenersReleased
  <2>1. CASE received = 2
    <3>1. Len(errCh) \in Nat
      OBVIOUS
    <3>2. serving[s] = "returned"
      BY <2>1, <3>1 DEF ServerInv, ResultsInv, Returned, Servers
    <3> QED
      BY <3>2 DEF ServerInv, ResultsInv
  <2> QED
    BY <2>1 DEF ServerInv, ListenInv
<1> QED
  BY <1>1, ServerInvariance, PTL

\* The process never ends well unasked, nor with a request cut unless a server failed.
THEOREM EndsClean == ServersSpec => []CleanExit
<1>1. ServerInv => CleanExit
  BY DEF ServerInv, ShutdownInv, CleanExit
<1> QED
  BY <1>1, ServerInvariance, PTL
=============================================================================
