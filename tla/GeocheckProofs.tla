--------------------------- MODULE GeocheckProofs ---------------------------
(***************************************************************************)
(* The inductive invariant of Geocheck, what follows from it, and that the *)
(* runner implements the abstract single-flight gate.                      *)
(***************************************************************************)
EXTENDS Geocheck, TLAPS

RunInv == \A r \in Requests : ChildInv(r) /\ OutputInv(r) /\ AnswerInv(r)

LEMMA ReportExists == NoReport \in Reports
<1>1. PICK n \in Sizes : TRUE
  BY GeocheckAssumption
<1>2. [size |-> n, content |-> "other"] \in Reports
  BY DEF Reports
<1> QED BY <1>2 DEF NoReport

LEMMA Bounds == MaxOutput \in Nat /\ PipeSize \in Nat /\ Nobody \notin Requests
BY GeocheckAssumption

LEMMA ReportSizes == \A x \in Reports : x.size \in Nat \ {0}
BY GeocheckAssumption DEF Reports

LEMMA NoReportSize == NoReport.size \in Nat
BY ReportExists, ReportSizes

LEMMA Numbers ==
  ASSUME GeocheckTypeOK, NEW r \in Requests
  PROVE  written[r] \in Nat /\ buffered[r] \in Nat /\ report[r].size \in Nat
<1>1. written[r] \in Nat /\ buffered[r] \in Nat
  BY DEF GeocheckTypeOK
<1>2. report[r].size \in Nat
  BY ReportSizes DEF GeocheckTypeOK
<1> QED BY <1>1, <1>2

LEMMA InvInitially == Init => GeocheckInv
<1> SUFFICES ASSUME Init PROVE GeocheckInv
  OBVIOUS
<1> USE ReportExists, NoReportSize, Bounds
<1>1. GeocheckTypeOK
  BY DEF Init, GeocheckTypeOK
<1>2. GateInv
  BY DEF Init, GateInv, Inside
<1>3. RunInv
  <2>1. NoReport.size >= 0
    BY NoReportSize
  <2>2. \A r \in Requests : ChildInv(r) /\ AnswerInv(r)
    BY DEF Init, ChildInv, AnswerInv
  <2>3. \A r \in Requests : OutputInv(r)
    <3> SUFFICES ASSUME Init, NEW r \in Requests PROVE OutputInv(r)
      OBVIOUS
    <3>1. /\ buffered[r] = 0 /\ written[r] = 0 /\ report[r] = NoReport
          /\ child[r] = "none" /\ copying[r] = "open"
      BY DEF Init
    <3> QED BY <2>1, <3>1 DEF OutputInv
  <2> QED BY <2>2, <2>3 DEF RunInv
<1>4. ReportIsWholeOrNone
  BY DEF Init, ReportIsWholeOrNone
<1> QED BY <1>1, <1>2, <1>3, <1>4 DEF GeocheckInv, RunInv

-----------------------------------------------------------------------------
LEMMA TypesKept == GeocheckInv /\ [Next]_vars => GeocheckTypeOK'
<1> SUFFICES ASSUME GeocheckInv, [Next]_vars PROVE GeocheckTypeOK'
  OBVIOUS
<1> USE ReportExists, Bounds DEF GeocheckInv, GeocheckTypeOK
<1>1. ASSUME NEW r \in Requests, Arrive(r) PROVE GeocheckTypeOK'
  BY <1>1 DEF Arrive, Refuse, Begin, Busy, runVars
<1>2. ASSUME NEW r \in Requests, StartFails(r) \/ Wait(r) PROVE GeocheckTypeOK'
  BY <1>2 DEF StartFails, Wait, Returns, Error, runVars
<1>3. ASSUME NEW r \in Requests, NEW x \in Reports, StartChild(r, x) PROVE GeocheckTypeOK'
  BY <1>3 DEF StartChild
<1>4. ASSUME NEW r \in Requests, Kill(r) \/ CopyEnds(r) PROVE GeocheckTypeOK'
  BY <1>4 DEF Kill, CopyEnds
<1>5. ASSUME NEW r \in Requests, End(r) PROVE GeocheckTypeOK'
  BY <1>5 DEF End
<1>6. ASSUME NEW r \in Requests, NEW n \in 1..PipeSize, Copy(r, n) PROVE GeocheckTypeOK'
  <2>1. n \in Nat /\ buffered[r] \in Nat
    BY Numbers
  <2>4. buffered[r] + n \in Nat
    BY <2>1
  <2>2. CASE copying' = [copying EXCEPT ![r] = "refused"] /\ UNCHANGED buffered
    BY <1>6, <2>2 DEF Copy
  <2>3. CASE buffered' = [buffered EXCEPT ![r] = @ + n] /\ UNCHANGED copying
    BY <1>6, <2>4, <2>3 DEF Copy
  <2> QED BY <1>6, <2>2, <2>3 DEF Copy
<1>7. ASSUME NEW r \in Requests, ChildWrites(r) PROVE GeocheckTypeOK'
  <2>0. written[r] \in Nat
    BY Numbers
  <2>1. written[r] + 1 \in Nat
    BY <2>0
  <2> QED BY <1>7, <2>1 DEF ChildWrites
<1>10. ASSUME NEW r \in Requests, NEW how \in {"succeeded", "failed"}, ChildEnds(r, how)
       PROVE GeocheckTypeOK'
  BY <1>10 DEF ChildEnds
<1>8. ASSUME NEW r \in Requests, Timeout(r) \/ ClientLeaves(r) PROVE GeocheckTypeOK'
  BY <1>8 DEF Timeout, ClientLeaves
<1>9. ASSUME UNCHANGED vars PROVE GeocheckTypeOK'
  BY <1>9 DEF vars, runVars
<1> QED BY <1>1, <1>2, <1>3, <1>4, <1>5, <1>6, <1>7, <1>8, <1>9, <1>10
    DEF Next, RunStep, ChildStep

-----------------------------------------------------------------------------
\* Who is inside changes with Begin and End only.
LEMMA GateUnmoved ==
  ASSUME GateInv, isRunning' = isRunning, \A q \in Requests : Inside(q)' <=> Inside(q)
  PROVE  GateInv'
BY DEF GateInv

LEMMA InsideStays ==
  ASSUME NEW r \in Requests, GeocheckTypeOK,
         \/ pc' = pc
         \/ /\ pc[r] = "new"
            /\ pc' = [pc EXCEPT ![r] = "done"]
         \/ /\ Inside(r)
            /\ \E to \in {"running", "returned"} : pc' = [pc EXCEPT ![r] = to]
  PROVE  \A q \in Requests : Inside(q)' <=> Inside(q)
<1>1. CASE pc' = pc
  BY <1>1 DEF Inside
<1>2. CASE pc[r] = "new" /\ pc' = [pc EXCEPT ![r] = "done"]
  BY <1>2 DEF Inside
<1>3. ASSUME NEW to \in {"running", "returned"}, Inside(r), pc' = [pc EXCEPT ![r] = to]
      PROVE  \A q \in Requests : Inside(q)' <=> Inside(q)
  BY <1>3 DEF Inside
<1> QED BY <1>1, <1>2, <1>3

LEMMA RunStaysInside ==
  ASSUME NEW r \in Requests, GeocheckTypeOK, RunStep(r), ~End(r)
  PROVE  isRunning' = isRunning /\ \A q \in Requests : Inside(q)' <=> Inside(q)
<1>1. isRunning' = isRunning /\ Inside(r)
  BY DEF RunStep, StartFails, StartChild, Kill, CopyEnds, Wait, Copy, Returns, Inside
<1>2. \/ pc' = pc
      \/ \E to \in {"running", "returned"} : pc' = [pc EXCEPT ![r] = to]
  BY DEF RunStep, StartFails, StartChild, Kill, CopyEnds, Wait, Copy, Returns
<1> QED BY <1>1, <1>2, InsideStays

LEMMA GateKept == GeocheckInv /\ [Next]_vars => GateInv'
<1> SUFFICES ASSUME GeocheckInv, [Next]_vars PROVE GateInv'
  OBVIOUS
<1>t. GeocheckTypeOK /\ GateInv
  BY DEF GeocheckInv
<1>1. ASSUME NEW r \in Requests, Begin(r) PROVE GateInv'
  <2>1. \A q \in Requests : ~Inside(q)
    BY <1>1, <1>t DEF Begin, GateInv
  <2>2. isRunning' /\ \A q \in Requests : Inside(q)' <=> q = r
    BY <1>1, <1>t, <2>1 DEF Begin, Inside, GeocheckTypeOK
  <2> QED BY <2>2 DEF GateInv
<1>2. ASSUME NEW r \in Requests, Refuse(r) \/ Busy(r) PROVE GateInv'
  BY <1>2, <1>t, InsideStays, GateUnmoved DEF Refuse, Busy
<1>3. ASSUME NEW r \in Requests, End(r) PROVE GateInv'
  <2>1. \A q \in Requests : Inside(q) => q = r
    BY <1>3, <1>t DEF End, GateInv, Inside
  <2>2. isRunning' = FALSE /\ \A q \in Requests : ~Inside(q)'
    BY <1>3, <1>t, <2>1 DEF End, Inside, GeocheckTypeOK
  <2> QED BY <2>2 DEF GateInv
<1>4. ASSUME NEW r \in Requests, RunStep(r), ~End(r) PROVE GateInv'
  BY <1>4, <1>t, RunStaysInside, GateUnmoved
<1>5. ASSUME NEW r \in Requests, ChildStep(r) \/ Timeout(r) \/ ClientLeaves(r) PROVE GateInv'
  <2>1. pc' = pc /\ isRunning' = isRunning
    BY <1>5 DEF ChildStep, ChildWrites, ChildEnds, Timeout, ClientLeaves
  <2> QED BY <2>1, <1>t, GateUnmoved DEF Inside
<1>6. ASSUME UNCHANGED vars PROVE GateInv'
  BY <1>6, <1>t, GateUnmoved DEF vars, Inside
<1> QED BY <1>1, <1>2, <1>3, <1>4, <1>5, <1>6 DEF Next, Arrive

-----------------------------------------------------------------------------
\* A step of one request leaves the runs of the others alone.
LEMMA RunsKept ==
  ASSUME NEW r \in Requests, RunInv,
         \A q \in Requests \ {r} :
           /\ pc'[q] = pc[q] /\ child'[q] = child[q] /\ report'[q] = report[q]
           /\ written'[q] = written[q] /\ buffered'[q] = buffered[q]
           /\ copying'[q] = copying[q] /\ answer'[q] = answer[q],
         ChildInv(r)' /\ OutputInv(r)' /\ AnswerInv(r)'
  PROVE  RunInv'
<1>1. \A q \in Requests \ {r} : (ChildInv(q) /\ OutputInv(q) /\ AnswerInv(q))'
  BY DEF RunInv, ChildInv, OutputInv, AnswerInv
<1> QED BY <1>1 DEF RunInv

LEMMA RunKept == GeocheckInv /\ [Next]_vars => RunInv'
<1> SUFFICES ASSUME GeocheckInv, [Next]_vars PROVE RunInv'
  OBVIOUS
<1>r. RunInv
  BY DEF GeocheckInv, RunInv
<1> DEFINE Good(r) == ChildInv(r) /\ OutputInv(r) /\ AnswerInv(r)
           Others(r) ==
             \A q \in Requests \ {r} :
               /\ pc'[q] = pc[q] /\ child'[q] = child[q] /\ report'[q] = report[q]
               /\ written'[q] = written[q] /\ buffered'[q] = buffered[q]
               /\ copying'[q] = copying[q] /\ answer'[q] = answer[q]
<1>s. ASSUME NEW r \in Requests, Others(r), Good(r)' PROVE RunInv'
  BY <1>r, <1>s, RunsKept
<1>t. /\ GeocheckTypeOK
      /\ \A r \in Requests : Good(r)
  BY DEF GeocheckInv
<1>n. \A r \in Requests : /\ report[r].size \in Nat
                          /\ written[r] \in Nat /\ buffered[r] \in Nat
  BY <1>t, Numbers
<1> USE Bounds
    DEF GeocheckTypeOK, ChildInv, OutputInv, AnswerInv
<1>1. ASSUME NEW r \in Requests, Arrive(r) PROVE RunInv'
  <2>1. Others(r)
    BY <1>1, <1>t DEF Arrive, Refuse, Begin, Busy, runVars
  <2>2. Good(r)'
    BY <1>1, <1>t DEF Arrive, Refuse, Begin, Busy, runVars
  <2> QED BY <2>1, <2>2, <1>s
<1>2. ASSUME NEW r \in Requests, StartFails(r) \/ Wait(r) PROVE RunInv'
  <2>1. Others(r)
    BY <1>2, <1>t DEF StartFails, Wait, Returns, runVars
  <2>2. Good(r)'
    BY <1>2, <1>t DEF StartFails, Wait, Returns, Error, runVars
  <2> QED BY <2>1, <2>2, <1>s
<1>3. ASSUME NEW r \in Requests, NEW x \in Reports, StartChild(r, x) PROVE RunInv'
  <2>1. Others(r)
    BY <1>3, <1>t DEF StartChild
  <2>2. x.size \in Nat
    BY ReportSizes
  <2>3. Good(r)'
    BY <1>3, <1>t, <2>2 DEF StartChild
  <2> QED BY <2>1, <2>3, <1>s
<1>4. ASSUME NEW r \in Requests, Kill(r) \/ CopyEnds(r) PROVE RunInv'
  <2>1. Others(r)
    BY <1>4, <1>t DEF Kill, CopyEnds
  <2>2. Good(r)'
    BY <1>4, <1>t DEF Kill, CopyEnds
  <2> QED BY <2>1, <2>2, <1>s
<1>5. ASSUME NEW r \in Requests, End(r) PROVE RunInv'
  <2>1. Others(r)
    BY <1>5, <1>t DEF End
  <2>2. Good(r)'
    BY <1>5, <1>t, NoReportSize DEF End
  <2> QED BY <2>1, <2>2, <1>s
<1>6. ASSUME NEW r \in Requests, NEW n \in 1..PipeSize, Copy(r, n) PROVE RunInv'
  <2>1. Others(r)
    BY <1>6, <1>t DEF Copy
  <2>2. n \in Nat /\ buffered[r] + n <= written[r]
    BY <1>6, <1>t DEF Copy
  <2>3. CASE /\ buffered[r] + n > MaxOutput
             /\ copying' = [copying EXCEPT ![r] = "refused"] /\ UNCHANGED buffered
    <3>2. ChildInv(r)' /\ AnswerInv(r)'
      BY <1>6, <1>t, <2>3 DEF Copy
    <3>3. written[r] <= report[r].size /\ written[r] \in Nat /\ buffered[r] \in Nat
      BY <1>n, <1>t
    <3>4. report[r].size > MaxOutput
      BY <1>n, <2>2, <2>3, <3>3
    <3>1. OutputInv(r)'
      BY <1>6, <1>t, <2>3, <3>4 DEF Copy
    <3> QED BY <2>1, <3>1, <3>2, <1>s
  <2>4. CASE /\ ~(buffered[r] + n > MaxOutput)
             /\ buffered' = [buffered EXCEPT ![r] = @ + n] /\ UNCHANGED copying
    <3>1. Good(r)'
      BY <1>6, <1>t, <2>2, <2>4 DEF Copy
    <3> QED BY <2>1, <3>1, <1>s
  <2> QED BY <1>6, <2>3, <2>4 DEF Copy
<1>7. ASSUME NEW r \in Requests, ChildWrites(r) PROVE RunInv'
  <2>1. Others(r)
    BY <1>7, <1>t DEF ChildWrites
  <2>3. written[r] \in Nat /\ buffered[r] \in Nat /\ report[r].size \in Nat
    BY <1>n
  <2>4. written'[r] = written[r] + 1
    BY <1>7, <1>t DEF ChildWrites
  <2>2. Good(r)'
    <3>1. ChildInv(r)' /\ AnswerInv(r)'
      BY <1>7, <1>t DEF ChildWrites
    <3>2. OutputInv(r)'
      BY <1>7, <1>t, <2>3, <2>4 DEF ChildWrites
    <3> QED BY <3>1, <3>2
  <2> QED BY <2>1, <2>2, <1>s
<1>10. ASSUME NEW r \in Requests, NEW how \in {"succeeded", "failed"}, ChildEnds(r, how)
       PROVE RunInv'
  <2>1. Others(r)
    BY <1>10, <1>t DEF ChildEnds
  <2>2. Good(r)'
    BY <1>10, <1>t DEF ChildEnds
  <2> QED BY <2>1, <2>2, <1>s
<1>8. ASSUME NEW r \in Requests, Timeout(r) \/ ClientLeaves(r) PROVE RunInv'
  BY <1>8, <1>r DEF Timeout, ClientLeaves, RunInv
<1>9. ASSUME UNCHANGED vars PROVE RunInv'
  BY <1>9, <1>r DEF vars, runVars, RunInv
<1> QED BY <1>1, <1>2, <1>3, <1>4, <1>5, <1>6, <1>7, <1>8, <1>9, <1>10
    DEF Next, RunStep, ChildStep

-----------------------------------------------------------------------------
\* What a run returns is decided by Wait and StartFails, and then stays.
LEMMA ReportKept == GeocheckInv /\ [Next]_vars => ReportIsWholeOrNone'
<1> SUFFICES ASSUME GeocheckInv, [Next]_vars, NEW r \in Requests, pc'[r] = "returned"
             PROVE  /\ answer'[r] = "report" <=> /\ child'[r] = "succeeded"
                                                 /\ report'[r].size <= MaxOutput
                                                 /\ report'[r].content = "image"
                    /\ answer'[r] = "report" => buffered'[r] = report'[r].size
  BY DEF ReportIsWholeOrNone
<1>t. GeocheckTypeOK /\ ChildInv(r) /\ OutputInv(r) /\ AnswerInv(r) /\ ReportIsWholeOrNone
  BY DEF GeocheckInv
<1>1. CASE StartFails(r)
  BY <1>1, <1>t DEF StartFails, Returns, Error, runVars, GeocheckTypeOK, ChildInv
<1>2. CASE Wait(r)
  <2> USE <1>2, <1>t, ReportSizes, GeocheckAssumption
      DEF Wait, Returns, runVars, GeocheckTypeOK, OutputInv
  <2>1. CASE copying[r] = "refused"
    <3>1. answer'[r] # "report"
      BY <2>1 DEF Error
    <3>2. report[r].size \in Nat
      OBVIOUS
    <3>3. ~(report[r].size <= MaxOutput)
      BY <2>1, <3>2
    <3> QED BY <3>1, <3>3
  <2>2. CASE copying[r] = "ended" /\ child[r] # "succeeded"
    BY <2>2 DEF Error
  <2>3. CASE copying[r] = "ended" /\ child[r] = "succeeded"
    BY <2>3
  <2> QED BY <2>1, <2>2, <2>3
<1>3. CASE ~StartFails(r) /\ ~Wait(r)
  <2>1. /\ pc[r] = "returned" /\ answer'[r] = answer[r] /\ child'[r] = child[r]
        /\ report'[r] = report[r] /\ buffered'[r] = buffered[r]
    BY <1>3, <1>t DEF Next, Arrive, RunStep, ChildStep, Refuse, Begin, Busy, StartFails,
       Wait, Returns, StartChild, Kill, CopyEnds, End, Copy, ChildWrites, ChildEnds,
       Timeout, ClientLeaves, vars, runVars, GeocheckTypeOK, ChildInv
  <2> QED BY <2>1, <1>t DEF ReportIsWholeOrNone
<1> QED BY <1>1, <1>2, <1>3

\* The inductive invariant holds for any requests and reports, of any sizes.
THEOREM GeocheckInvariance == Spec => []GeocheckInv
<1>1. GeocheckInv /\ [Next]_vars => GeocheckInv'
  BY TypesKept, GateKept, RunKept, ReportKept DEF GeocheckInv, RunInv
<1> QED BY <1>1, InvInitially, PTL DEF Spec

\* Every variable keeps its type.
THEOREM GeocheckTypeCorrect == Spec => []GeocheckTypeOK
<1>1. GeocheckInv => GeocheckTypeOK
  BY DEF GeocheckInv
<1> QED BY <1>1, GeocheckInvariance, PTL

\* The gate keeps the child processes apart, those of timed out requests included.
THEOREM ChildrenApart == Spec => []OneChildAtATime
<1>1. GeocheckInv => OneChildAtATime
  BY DEF GeocheckInv, GateInv, ChildInv, OneChildAtATime, Inside
<1> QED BY <1>1, GeocheckInvariance, PTL

\* A report is answered whole, when and only when the child has succeeded with one.
THEOREM ReportsAreWhole == Spec => []ReportIsWholeOrNone
<1>1. GeocheckInv => ReportIsWholeOrNone
  BY DEF GeocheckInv
<1> QED BY <1>1, GeocheckInvariance, PTL

-----------------------------------------------------------------------------
\* With one request inside at most, the one who is inside is the runner.
LEMMA RunnerIs ==
  ASSUME GateInv, NEW r \in Requests, Inside(r)
  PROVE  Runner = r
BY DEF Runner

LEMMA NobodyRuns ==
  ASSUME \A r \in Requests : ~Inside(r)
  PROVE  Runner = Nobody
BY DEF Runner

\* Steps that neither enter nor leave, nor turn anybody away.
LEMMA GateStays ==
  ASSUME \A r \in Requests : Inside(r)' <=> Inside(r),
         \A r \in Requests : answer'[r] = "busy" <=> answer[r] = "busy"
  PROVE  UNCHANGED <<Runner, TurnedAway>>
BY DEF Runner, TurnedAway

LEMMA GateStep ==
  GeocheckInv /\ GeocheckInv' /\ [Next]_vars => [Gate!GateNext]_(Gate!gateVars)
<1> DEFINE Goal == \/ \E c \in Requests : Gate!Admit(c) \/ Gate!TurnAway(c) \/ Gate!Release(c)
                   \/ UNCHANGED <<Runner, TurnedAway>>
<1> SUFFICES ASSUME GeocheckInv, GeocheckInv', [Next]_vars PROVE Goal
  BY DEF Gate!GateNext, Gate!gateVars
<1>t. /\ GateInv /\ GateInv' /\ GeocheckTypeOK
      /\ \A r \in Requests : AnswerInv(r)
      /\ \A r \in Requests : ChildInv(r)
  BY DEF GeocheckInv
<1> USE Bounds DEF GeocheckTypeOK
<1>1. ASSUME NEW r \in Requests, Begin(r) PROVE Goal
  <2>1. Runner = Nobody
    BY <1>1, <1>t, NobodyRuns DEF Begin, GateInv
  <2>2. Inside(r)'
    BY <1>1, <1>t DEF Begin, Inside
  <2>3. Runner' = r
    BY <2>2, <1>t DEF Runner
  <2>4. r \notin TurnedAway /\ TurnedAway' = TurnedAway
    BY <1>1, <1>t DEF Begin, TurnedAway, AnswerInv
  <2>5. Gate!Admit(r)
    BY <2>1, <2>3, <2>4 DEF Gate!Admit
  <2> QED BY <2>5
<1>2. ASSUME NEW r \in Requests, Busy(r) PROVE Goal
  <2>1. PICK q \in Requests : Inside(q)
    BY <1>2, <1>t DEF Busy, GateInv
  <2>2. Runner = q /\ q # r
    BY <1>2, <2>1, <1>t, RunnerIs DEF Busy, Inside
  <2>3. \A p \in Requests : Inside(p)' <=> Inside(p)
    <3>1. pc[r] = "new" /\ pc' = [pc EXCEPT ![r] = "done"]
      BY <1>2 DEF Busy
    <3>2. GeocheckTypeOK
      BY <1>t
    <3> HIDE DEF GeocheckTypeOK
    <3> QED BY <3>1, <3>2, InsideStays
  <2>4. Runner' = Runner
    BY <2>3 DEF Runner
  <2>5. r \notin TurnedAway /\ TurnedAway' = TurnedAway \cup {r}
    BY <1>2, <1>t DEF Busy, TurnedAway, AnswerInv
  <2>6. Gate!TurnAway(r)
    BY <2>2, <2>4, <2>5 DEF Gate!TurnAway
  <2> QED BY <2>6
<1>3. ASSUME NEW r \in Requests, End(r) PROVE Goal
  <2>1. Runner = r
    BY <1>3, <1>t, RunnerIs DEF End, Inside
  <2>2. Runner' = Nobody
    BY <1>3, <1>t DEF End, GateInv, Runner
  <2>3. TurnedAway' = TurnedAway
    BY <1>3 DEF End, TurnedAway
  <2>4. Gate!Release(r)
    BY <2>1, <2>2, <2>3 DEF Gate!Release
  <2> QED BY <2>4
<1>4. ASSUME NEW r \in Requests, Refuse(r) PROVE Goal
  <2>1. \A q \in Requests : Inside(q)' <=> Inside(q)
    BY <1>4, <1>t, InsideStays DEF Refuse
  <2>2. \A q \in Requests : answer'[q] = "busy" <=> answer[q] = "busy"
    BY <1>4, <1>t DEF Refuse, AnswerInv
  <2>s. UNCHANGED <<Runner, TurnedAway>>
    BY <2>1, <2>2, GateStays
  <2> QED BY <2>s
<1>5. ASSUME NEW r \in Requests, RunStep(r), ~End(r) PROVE Goal
  <2>2. \A q \in Requests : Inside(q)' <=> Inside(q)
    BY <1>5, <1>t, RunStaysInside
  <2>3. \/ answer' = answer
        \/ StartFails(r) \/ Wait(r)
    BY <1>5 DEF RunStep, StartChild, Kill, CopyEnds, Copy
  <2>4. \A q \in Requests : answer'[q] = "busy" <=> answer[q] = "busy"
    <3>1. CASE answer' = answer
      BY <3>1
    <3>2. CASE StartFails(r) \/ Wait(r)
      BY <3>2, <1>t DEF StartFails, Wait, Returns, Error, AnswerInv
    <3> QED BY <2>3, <3>1, <3>2
  <2>s. UNCHANGED <<Runner, TurnedAway>>
    BY <2>2, <2>4, GateStays
  <2> QED BY <2>s
<1>6. ASSUME NEW r \in Requests, ChildStep(r) \/ Timeout(r) \/ ClientLeaves(r) PROVE Goal
  <2>1. pc' = pc /\ answer' = answer
    BY <1>6 DEF ChildStep, ChildWrites, ChildEnds, Timeout, ClientLeaves
  <2> QED BY <2>1, GateStays DEF Inside
<1>7. ASSUME UNCHANGED vars PROVE Goal
  BY <1>7, GateStays DEF vars, Inside
<1> HIDE DEF Goal
<1> QED BY <1>1, <1>2, <1>3, <1>4, <1>5, <1>6, <1>7 DEF Next, Arrive

LEMMA GateInitially == Init => Gate!GateInit
<1> SUFFICES ASSUME Init PROVE Gate!GateInit
  OBVIOUS
<1>1. Runner = Nobody
  BY NobodyRuns DEF Init, Inside
<1>2. TurnedAway = {}
  BY DEF Init, TurnedAway
<1> QED BY <1>1, <1>2 DEF Gate!GateInit

\* The geocheck runner is a single-flight gate for any number of requests.
THEOREM RunnerRefinesSingleFlight == Spec => RunnerImplementsSingleFlight
BY GateInitially, GateStep, GeocheckInvariance, PTL
DEF Spec, RunnerImplementsSingleFlight, Gate!GateSpec
=============================================================================
