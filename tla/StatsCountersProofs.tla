------------------------ MODULE StatsCountersProofs ------------------------
(***************************************************************************)
(* Proofs about StatsCounters: for any requests, counters, traffic and     *)
(* restarts.                                                               *)
(***************************************************************************)
EXTENDS StatsCounters, TLAPS

\* A request makes one call or two, for different counters.
LEMMA CallsOK ==
  ASSUME NEW in \in Inputs
  PROVE  /\ Len(Calls(in)) \in 1..2
         /\ \A k \in 1..Len(Calls(in)) : Calls(in)[k] \subseteq Counters
         /\ Len(Calls(in)) = 2 => Calls(in)[1] \cap Calls(in)[2] = {}
<1>1. \A kind, owner : OfKind(kind) \subseteq Counters /\ OfOwner(kind, owner) \subseteq Counters
  BY DEF OfKind, OfOwner
<1>2. OfKind("inbound") \cap OfKind("outbound") = {}
  BY DEF OfKind
<1>3. CASE in.kind = "combined"
  <2>1. Calls(in) = <<OfKind("inbound"), OfKind("outbound")>>
    BY <1>3 DEF Calls
  <2> QED
    BY <1>1, <1>2, <2>1
<1>4. CASE in.kind # "combined"
  <2>1. \E S \in SUBSET Counters : Calls(in) = <<S>>
    BY <1>1, <1>4, InputsTyped DEF Calls, Kinds
  <2> QED
    BY <2>1
<1> QED
  BY <1>3, <1>4

\* The fields of a job have their types.
LEMMA JobFields ==
  ASSUME NEW j \in Jobs
  PROVE  /\ j.in \in Inputs /\ j.in.reset \in BOOLEAN
         /\ j.call \in 1..2 /\ j.at \in Counters /\ j.todo \in SUBSET Counters
         /\ j.met \in Instances \cup {NoInstance}
         /\ j.got \in [Counters -> SUBSET Units]
BY InputsTyped DEF Jobs

\* The request that has not begun.
LEMMA IdleJobOK ==
  /\ IdleJob \in Jobs
  /\ IdleJob.pc = "idle" /\ IdleJob.zeroed = {} /\ IdleJob.prior = {}
  /\ IdleJob.got = [c \in Counters |-> {}] /\ IdleJob.late = {}
  /\ IdleJob.call = 1 /\ IdleJob.todo = {} /\ IdleJob.alongside = {}
<1>1. (CHOOSE in \in Inputs : TRUE) \in Inputs /\ (CHOOSE c \in Counters : TRUE) \in Counters
  BY SomeCounter
<1> QED
  BY <1>1 DEF IdleJob, Jobs

\* A request that has read nothing has nothing of what the invariant is about.
LEMMA NothingRead ==
  ASSUME NEW j \in Jobs, j.got = [c \in Counters |-> {}], j.zeroed = {}, j.prior = {},
         j.pc \in {"idle", "check"}, j.todo = {}, j.call = 1,
         j.pc = "idle" => j.alongside = {}, NEW r
  PROVE  /\ Everything(j) = {}
         /\ VisitOK(j) /\ TakenOK(j) /\ ResetOK(j) /\ CompleteOK(r, j)
<1>1. Everything(j) = {}
  BY DEF Everything
<1>2. VisitOK(j)
  <2>1. 1 <= Len(Calls(j.in)) /\ \A c \in ToVisit(j) : c \in Counters
    BY CallsOK, JobFields DEF ToVisit
  <2> QED
    BY <2>1 DEF VisitOK
<1> QED
  BY <1>1, <1>2 DEF TakenOK, ResetOK, CompleteOK

-----------------------------------------------------------------------------
\* A step of one request that sets nothing to zero: it preserves the invariant if
\* the new job is all right, and has read nothing but what was on a counter.
LEMMA OneJob ==
  ASSUME StatsInv, NEW r \in Requests, NEW j \in Jobs, AtWork(r),
         Continue(r, j), UNCHANGED <<instance, count, unused>>,
         j.pc # "idle", j.in = job[r].in, j.alongside = job[r].alongside,
         j.zeroed = job[r].zeroed,
         VisitOK(j), TakenOK(j), ResetOK(j), CompleteOK(r, j),
         \A u \in Everything(j) :
           u \in Everything(job[r]) \/ \E i \in Instances, c \in Counters : u \in count[i][c],
         j.pc = "done" => j.got = job[r].got
  PROVE  StatsInv'
<1>1. StatsTypeOK'
  BY DEF StatsInv, StatsTypeOK, Continue
<1>2. job'[r] = j /\ \A q \in Requests : q # r => job'[q] = job[q]
  BY DEF StatsInv, StatsTypeOK, Continue
<1>3. PlacesInv'
  BY DEF StatsInv, PlacesInv
<1>4. \A q \in Requests : OthersZeroed(q)' = OthersZeroed(q)
  BY <1>2 DEF OthersZeroed
<1>5. ASSUME NEW q \in Requests
      PROVE  /\ VisitOK(job[q])' /\ TakenOK(job[q])' /\ ResetOK(job[q])'
             /\ CompleteOK(q, job[q])'
  <2>1. CASE q = r
    BY <1>2, <1>4, <2>1 DEF VisitOK, TakenOK, ResetOK, CompleteOK, Everything, Remaining, ToVisit
  <2>2. CASE q # r
    <3>1. VisitOK(job[q]) /\ TakenOK(job[q]) /\ ResetOK(job[q]) /\ CompleteOK(q, job[q])
      BY DEF StatsInv
    <3>2. job'[q] = job[q]
      BY <1>2, <2>2
    <3> QED
      BY <1>4, <3>1, <3>2
      DEF VisitOK, TakenOK, ResetOK, CompleteOK, Everything, Remaining, ToVisit
  <2> QED
    BY <2>1, <2>2
<1>6. OverlapInv'
  <2> SUFFICES ASSUME NEW p \in Requests, NEW q \in Requests, p # q
               PROVE  /\ q \in job'[p].alongside <=> p \in job'[q].alongside
                      /\ AtWork(p)' /\ AtWork(q)' => q \in job'[p].alongside
                      /\ /\ job'[p].pc = "done" /\ q \notin job'[p].alongside
                         /\ job'[p].in.reset /\ job'[q].in.reset
                         => Everything(job'[p]) \cap Everything(job'[q]) = {}
    BY DEF OverlapInv
  <2>1. \A s \in Requests : job'[s].alongside = job[s].alongside /\ job'[s].in = job[s].in
    BY <1>2
  <2>2. \A s \in Requests : AtWork(s)' => AtWork(s)
    BY <1>2 DEF AtWork
  <2>3. /\ q \in job'[p].alongside <=> p \in job'[q].alongside
        /\ AtWork(p)' /\ AtWork(q)' => q \in job'[p].alongside
    BY <2>1, <2>2 DEF StatsInv, OverlapInv
  <2>4. ASSUME job'[p].pc = "done", q \notin job'[p].alongside,
               job'[p].in.reset, job'[q].in.reset
        PROVE  Everything(job'[p]) \cap Everything(job'[q]) = {}
    <3>1. CASE p # r /\ q # r
      BY <1>2, <2>1, <2>4, <3>1 DEF StatsInv, OverlapInv
    <3>2. CASE p = r
      <4>1. Everything(job'[p]) = Everything(job[r]) /\ job'[q] = job[q]
        BY <1>2, <2>4, <3>2 DEF Everything
      <4>2. ~AtWork(q)
        BY <2>1, <2>4, <3>2 DEF StatsInv, OverlapInv
      <4>3. CASE job[q].pc = "idle"
        BY <4>1, <4>3 DEF StatsInv, VisitOK, Everything
      <4>4. CASE job[q].pc = "done"
        <5>1. Everything(job[q]) \cap Everything(job[r]) = {}
          BY <2>1, <2>4, <3>2, <4>4 DEF StatsInv, OverlapInv
        <5> QED
          BY <4>1, <5>1
      <4> QED
        BY <4>2, <4>3, <4>4 DEF StatsInv, StatsTypeOK, Jobs, AtWork
    <3>3. CASE q = r
      <4>1. job'[p] = job[p] /\ job'[q] = j
        BY <1>2, <3>3
      <4>2. Everything(job[p]) \cap Everything(job[r]) = {}
        BY <2>1, <2>4, <3>3, <4>1 DEF StatsInv, OverlapInv
      <4>3. \A i \in Instances, c \in Counters : Everything(job[p]) \cap count[i][c] = {}
        BY <2>4, <4>1 DEF StatsInv, TakenOK, Everything
      <4> QED
        BY <4>1, <4>2, <4>3
    <3> QED
      BY <3>1, <3>2, <3>3
  <2> QED
    BY <2>3, <2>4
<1> QED
  BY <1>1, <1>3, <1>5, <1>6 DEF StatsInv

\* A request goes on to its next call, or to its answer.
LEMMA NextCallOK ==
  ASSUME StatsInv, NEW r \in Requests, NEW j \in Jobs,
         \/ job[r].pc = "lookup" /\ j = [job[r] EXCEPT !.failed = TRUE]
         \/ job[r].pc = "visit" /\ job[r].todo = {} /\ j = job[r],
         Continue(r, AfterCall(j)), UNCHANGED <<instance, count, unused>>
  PROVE  StatsInv'
<1> DEFINE k == AfterCall(j)
<1>1. job[r] \in Jobs
  BY DEF StatsInv, StatsTypeOK
<1>2. /\ j.in = job[r].in /\ j.call = job[r].call /\ j.got = job[r].got
      /\ j.zeroed = job[r].zeroed /\ j.late = job[r].late /\ j.prior = job[r].prior
      /\ j.alongside = job[r].alongside /\ j.todo = job[r].todo
  BY <1>1 DEF Jobs
<1>3. job[r].todo = {} /\ job[r].call <= Len(Calls(job[r].in)) /\ AtWork(r)
  BY DEF StatsInv, VisitOK, AtWork
<1>4. /\ k.in = j.in /\ k.got = j.got /\ k.zeroed = j.zeroed /\ k.late = j.late
      /\ k.prior = j.prior /\ k.alongside = j.alongside /\ k.todo = j.todo
      /\ \/ k.pc = "done" /\ k.call = j.call
         \/ k.pc = "lookup" /\ k.call = j.call + 1 /\ j.call < Len(Calls(j.in))
  BY <1>1 DEF AfterCall, Jobs
<1>5. Len(Calls(j.in)) \in 1..2 /\ j.call \in 1..2
  BY <1>1, <1>2, JobFields, CallsOK
<1>6. k \in Jobs
  <2>1. [j EXCEPT !.pc = "done"] \in Jobs
    BY DEF Jobs
  <2>2. ASSUME j.call < Len(Calls(j.in))
        PROVE  [j EXCEPT !.pc = "lookup", !.call = @ + 1] \in Jobs
    <3>1. \A m, n \in 1..2 : m < n => m + 1 \in 1..2
      OBVIOUS
    <3>2. j.call + 1 \in 1..2
      BY ONLY <1>5, <2>2, <3>1
    <3> QED
      BY <3>2 DEF Jobs
  <2> QED
    BY <2>1, <2>2, Zenon DEF AfterCall
<1> HIDE DEF k
<1>7. VisitOK(k)
  <2>1. k.pc = "lookup" => \A c \in ToVisit(k) : k.got[c] = {}
    <3>1. k.pc = "lookup" => ToVisit(k) \subseteq ToVisit(job[r])
      BY <1>2, <1>4, <1>5 DEF ToVisit
    <3>2. \A c \in ToVisit(job[r]) : job[r].got[c] = {}
      BY DEF StatsInv, VisitOK
    <3> QED
      BY <1>2, <1>4, <3>1, <3>2
  <2> QED
    BY <1>2, <1>3, <1>4, <1>5, <2>1 DEF VisitOK
<1>8. Everything(k) = Everything(job[r])
  BY <1>2, <1>4 DEF Everything
<1>9. TakenOK(k) /\ ResetOK(k)
  BY <1>2, <1>4, <1>8 DEF StatsInv, TakenOK, ResetOK
<1>10. CompleteOK(r, k)
  BY <1>2, <1>3, <1>4, <1>8 DEF StatsInv, CompleteOK, Remaining
<1>11. Continue(r, k)
  BY DEF k
<1> QED
  BY <1>2, <1>3, <1>4, <1>6, <1>7, <1>8, <1>9, <1>10, <1>11, OneJob

LEMMA CheckStep ==
  ASSUME StatsInv, NEW r \in Requests, Check(r)
  PROVE  StatsInv'
<1> DEFINE j == [job[r] EXCEPT !.pc = IF instance = NoInstance THEN "done" ELSE "lookup",
                              !.failed = instance = NoInstance]
<1>1. job[r] \in Jobs /\ job[r].pc = "check" /\ AtWork(r)
  BY DEF StatsInv, StatsTypeOK, Check, AtWork
<1>2. /\ j.in = job[r].in /\ j.call = job[r].call /\ j.got = job[r].got
      /\ j.zeroed = job[r].zeroed /\ j.late = job[r].late /\ j.prior = job[r].prior
      /\ j.alongside = job[r].alongside /\ j.todo = job[r].todo
      /\ j.pc \in {"done", "lookup"}
  BY <1>1 DEF Jobs
<1>3. j \in Jobs
  <2>1. (IF instance = NoInstance THEN "done" ELSE "lookup")
           \in {"idle", "check", "lookup", "visit", "reset", "done"}
        /\ (instance = NoInstance) \in BOOLEAN
    OBVIOUS
  <2> QED
    BY <1>1, <2>1 DEF Jobs
<1>4. Everything(j) = Everything(job[r])
  BY <1>2 DEF Everything
<1>5. VisitOK(j)
  BY <1>1, <1>2 DEF StatsInv, VisitOK, ToVisit
<1>6. TakenOK(j) /\ ResetOK(j)
  BY <1>1, <1>2, <1>4 DEF StatsInv, TakenOK, ResetOK
<1>7. CompleteOK(r, j)
  BY <1>1, <1>2, <1>4 DEF StatsInv, CompleteOK
<1>8. Continue(r, j) /\ UNCHANGED <<instance, count, unused>>
  BY DEF Check
<1> QED
  BY <1>1, <1>2, <1>3, <1>4, <1>5, <1>6, <1>7, <1>8, OneJob

LEMMA LookupFailsStep ==
  ASSUME StatsInv, NEW r \in Requests, LookupFails(r)
  PROVE  StatsInv'
<1>1. job[r] \in Jobs
  BY DEF StatsInv, StatsTypeOK
<1>2. [job[r] EXCEPT !.failed = TRUE] \in Jobs
  BY <1>1 DEF Jobs
<1> QED
  BY <1>2, NextCallOK DEF LookupFails

LEMMA EndCallStep ==
  ASSUME StatsInv, NEW r \in Requests, EndCall(r)
  PROVE  StatsInv'
<1>1. job[r] \in Jobs
  BY DEF StatsInv, StatsTypeOK
<1> QED
  BY <1>1, NextCallOK DEF EndCall

LEMMA LookupStep ==
  ASSUME StatsInv, NEW r \in Requests, Lookup(r)
  PROVE  StatsInv'
<1> DEFINE scope == Calls(job[r].in)[job[r].call]
           held == UNION {count[instance][c] : c \in scope}
           j == [job[r] EXCEPT !.pc = "visit", !.met = instance, !.todo = scope,
                               !.prior = @ \cup held]
<1>1. job[r] \in Jobs /\ job[r].pc = "lookup" /\ AtWork(r) /\ instance \in Instances
  BY DEF StatsInv, StatsTypeOK, Lookup, AtWork
<1>2. /\ Len(Calls(job[r].in)) \in 1..2 /\ job[r].call \in 1..Len(Calls(job[r].in))
      /\ scope \subseteq Counters
  <2>1. job[r].call <= Len(Calls(job[r].in)) /\ job[r].in \in Inputs /\ job[r].call \in 1..2
    BY <1>1, JobFields DEF StatsInv, VisitOK
  <2> QED
    BY <2>1, CallsOK
<1>3. held \subseteq Units
  BY <1>1, <1>2 DEF StatsInv, StatsTypeOK
<1>4. j \in Jobs
  BY <1>1, <1>2, <1>3 DEF Jobs
<1>5. /\ j.in = job[r].in /\ j.call = job[r].call /\ j.got = job[r].got
      /\ j.zeroed = job[r].zeroed /\ j.late = job[r].late
      /\ j.prior = job[r].prior \cup held
      /\ j.alongside = job[r].alongside /\ j.todo = scope /\ j.pc = "visit"
      /\ j.met = instance
  BY <1>1 DEF Jobs
<1>10. Continue(r, j) /\ UNCHANGED <<instance, count, unused>>
  BY DEF Lookup
<1> HIDE DEF j
<1>6. Everything(j) = Everything(job[r])
  BY <1>5 DEF Everything
<1>7. VisitOK(j)
  <2>1. ToVisit(j) \subseteq ToVisit(job[r])
    BY <1>1, <1>2, <1>5 DEF ToVisit, Remaining
  <2>2. \A c \in ToVisit(job[r]) : job[r].got[c] = {}
    BY <1>1 DEF StatsInv, VisitOK
  <2> QED
    BY <1>1, <1>2, <1>5, <2>1, <2>2 DEF VisitOK
<1>8. TakenOK(j) /\ ResetOK(j)
  BY <1>1, <1>5, <1>6 DEF StatsInv, TakenOK, ResetOK
<1>9. CompleteOK(r, j)
  BY <1>1, <1>5, <1>6 DEF StatsInv, CompleteOK, Remaining
<1> QED
  BY <1>1, <1>4, <1>5, <1>6, <1>7, <1>8, <1>9, <1>10, OneJob
\* A counter is read: what it holds is nowhere else, and is not lost if it is then
\* set to zero.
LEMMA ReadStep ==
  ASSUME StatsInv, NEW r \in Requests, NEW c \in Counters, Read(r, c)
  PROVE  StatsInv'
<1> DEFINE held == count[job[r].met][c]
           got == [job[r].got EXCEPT ![c] = held]
           j == IF job[r].in.reset
                THEN [job[r] EXCEPT !.pc = "reset", !.at = c, !.got = got]
                ELSE [job[r] EXCEPT !.todo = @ \ {c}, !.got = got]
<1>1. /\ job[r] \in Jobs /\ job[r].pc = "visit" /\ AtWork(r) /\ c \in job[r].todo
      /\ job[r].met \in Instances /\ job[r].got \in [Counters -> SUBSET Units]
      /\ job[r].in.reset \in BOOLEAN
  BY JobFields DEF StatsInv, StatsTypeOK, VisitOK, Read, AtWork
<1>2. held \subseteq Units /\ got \in [Counters -> SUBSET Units]
  BY <1>1 DEF StatsInv, StatsTypeOK
<1>3. j \in Jobs
  <2>1. [job[r] EXCEPT !.pc = "reset", !.at = c, !.got = got] \in Jobs
    BY <1>1, <1>2 DEF Jobs
  <2>2. [job[r] EXCEPT !.todo = @ \ {c}, !.got = got] \in Jobs
    BY <1>1, <1>2 DEF Jobs
  <2> QED
    BY <2>1, <2>2
<1>4. /\ j.in = job[r].in /\ j.call = job[r].call /\ j.got = got
      /\ j.zeroed = job[r].zeroed /\ j.late = job[r].late /\ j.prior = job[r].prior
      /\ j.alongside = job[r].alongside /\ j.met = job[r].met
      /\ Remaining(j) = job[r].todo \ {c} /\ j.todo \subseteq job[r].todo
      /\ \/ job[r].in.reset /\ j.pc = "reset" /\ j.at = c /\ j.todo = job[r].todo
         \/ ~job[r].in.reset /\ j.pc = "visit"
  BY <1>1, <1>2 DEF Jobs, Remaining
<1>5. Continue(r, j) /\ UNCHANGED <<instance, count, unused>>
  BY DEF Read
<1>6. got[c] = held /\ \A d \in Counters : d # c => got[d] = job[r].got[d]
  BY <1>1
<1> HIDE DEF j, got
<1>7. job[r].got[c] = {}
  <2>1. c \in ToVisit(job[r])
    BY <1>1 DEF ToVisit, Remaining
  <2> QED
    BY <1>1, <2>1 DEF StatsInv, VisitOK
<1>8. Everything(j) = Everything(job[r]) \cup held
  BY <1>4, <1>6, <1>7 DEF Everything
<1>9. VisitOK(j)
  <2>1. /\ job[r].call \in 1..Len(Calls(job[r].in)) /\ Len(Calls(job[r].in)) \in 1..2
        /\ job[r].todo \subseteq Calls(job[r].in)[job[r].call]
        /\ Len(Calls(job[r].in)) = 2 => Calls(job[r].in)[1] \cap Calls(job[r].in)[2] = {}
    BY <1>1, JobFields, CallsOK DEF StatsInv, VisitOK
  <2>2. c \notin ToVisit(j) /\ ToVisit(j) \subseteq ToVisit(job[r])
    BY <1>1, <1>4, <2>1 DEF ToVisit, Remaining
  <2>3. ToVisit(j) \subseteq Counters
    <3>1. \A k \in 1..Len(Calls(job[r].in)) : Calls(job[r].in)[k] \subseteq Counters
      BY <1>1, JobFields, CallsOK
    <3> QED
      BY <1>1, <1>4, <2>1, <3>1, JobFields DEF ToVisit, Remaining
  <2>4. \A d \in ToVisit(job[r]) : job[r].got[d] = {}
    BY <1>1 DEF StatsInv, VisitOK
  <2>5. \A d \in ToVisit(j) : j.got[d] = {}
    BY <1>4, <1>6, <2>2, <2>3, <2>4
  <2> QED
    BY <1>1, <1>4, <2>1, <2>5 DEF VisitOK
<1>10. ResetOK(j)
  BY <1>1, <1>4, <1>6, <1>8 DEF StatsInv, ResetOK
<1>11. TakenOK(j)
  <2> SUFFICES ASSUME job[r].in.reset
               PROVE  /\ Everything(j) \cap unused = {}
                      /\ \A i \in Instances : \A e, d \in Counters :
                           j.got[e] \cap count[i][d] # {} =>
                             j.pc = "reset" /\ j.at = e /\ e = d /\ j.met = i
    BY <1>4 DEF TakenOK
  <2>1. Everything(j) \cap unused = {}
    BY <1>1, <1>8 DEF StatsInv, TakenOK, PlacesInv
  <2>2. ASSUME NEW i \in Instances, NEW e \in Counters, NEW d \in Counters,
               j.got[e] \cap count[i][d] # {}
        PROVE  j.pc = "reset" /\ j.at = e /\ e = d /\ j.met = i
    <3>1. e = c
      BY <1>1, <1>4, <1>6, <2>2 DEF StatsInv, TakenOK
    <3>2. i = job[r].met /\ d = c
      BY <1>1, <1>4, <1>6, <2>2, <3>1 DEF StatsInv, PlacesInv
    <3> QED
      BY <1>4, <3>1, <3>2
  <2> QED
    BY <2>1, <2>2
<1>12. CompleteOK(r, j)
  <2> SUFFICES ASSUME NEW u \in job[r].prior
               PROVE  \/ u \in Everything(j) \cup OthersZeroed(r)
                      \/ \E d \in job[r].todo \ {c} : u \in count[job[r].met][d]
    BY <1>4 DEF CompleteOK
  <2>1. \/ u \in Everything(job[r]) \cup OthersZeroed(r)
        \/ \E d \in job[r].todo : u \in count[job[r].met][d]
    BY <1>1 DEF StatsInv, CompleteOK, Remaining
  <2> QED
    BY <1>8, <2>1
<1>13. j.pc # "idle" /\ j.pc # "done"
  BY <1>4
<1>14. \A u \in Everything(j) :
         u \in Everything(job[r]) \/ \E i \in Instances, d \in Counters : u \in count[i][d]
  BY <1>1, <1>8
<1> QED
  BY <1>1, <1>3, <1>4, <1>5, <1>9, <1>10, <1>11, <1>12, <1>13, <1>14, OneJob

\* A counter is set to zero.
LEMMA ResetStep ==
  ASSUME StatsInv, NEW r \in Requests, Reset(r)
  PROVE  StatsInv'
<1> DEFINE m == job[r].met
           a == job[r].at
           j == [job[r] EXCEPT !.pc = "visit", !.todo = @ \ {a}, !.zeroed = @ \cup count[m][a]]
<1>1. /\ job[r] \in Jobs /\ job[r].pc = "reset" /\ AtWork(r) /\ a \in job[r].todo
      /\ m \in Instances /\ a \in Counters /\ job[r].in.reset
  BY JobFields DEF StatsInv, StatsTypeOK, VisitOK, Reset, AtWork
<1>2. count[m][a] \subseteq Units /\ j \in Jobs
  <2>1. count[m][a] \subseteq Units
    BY <1>1 DEF StatsInv, StatsTypeOK
  <2> QED
    BY <1>1, <2>1 DEF Jobs
<1>3. /\ j.in = job[r].in /\ j.call = job[r].call /\ j.got = job[r].got
      /\ j.zeroed = job[r].zeroed \cup count[m][a] /\ j.late = job[r].late
      /\ j.prior = job[r].prior /\ j.alongside = job[r].alongside /\ j.met = m
      /\ j.todo = job[r].todo \ {a} /\ j.pc = "visit"
      /\ Remaining(j) = Remaining(job[r]) /\ ToVisit(j) = ToVisit(job[r])
      /\ Everything(j) = Everything(job[r])
  BY <1>1 DEF Jobs, Remaining, ToVisit, Everything
<1>4. job'[r] = j /\ (\A q \in Requests : q # r => job'[q] = job[q]) /\ job' \in [Requests -> Jobs]
  BY <1>2 DEF Reset, Continue, StatsInv, StatsTypeOK
<1>5. /\ count'[m][a] = {}
      /\ \A i \in Instances, c \in Counters : i # m \/ c # a => count'[i][c] = count[i][c]
      /\ count' \in [Instances -> [Counters -> SUBSET Units]]
  <2>1. count' = [count EXCEPT ![m] = [count[m] EXCEPT ![a] = {}]]
    BY DEF Reset
  <2> QED
    BY <1>1, <2>1 DEF StatsInv, StatsTypeOK
<1>6. UNCHANGED <<instance, unused>>
  BY DEF Reset
<1> HIDE DEF j, m, a
<1>7. \A i \in Instances, c \in Counters : count'[i][c] \subseteq count[i][c]
  BY <1>5
<1>8. StatsTypeOK'
  BY <1>4, <1>5, <1>6 DEF StatsInv, StatsTypeOK
<1>9. PlacesInv'
  BY <1>6, <1>7 DEF StatsInv, PlacesInv
<1>10. /\ \A q \in Requests : OthersZeroed(q) \subseteq OthersZeroed(q)'
       /\ \A q \in Requests : q # r => count[m][a] \subseteq OthersZeroed(q)'
  BY <1>3, <1>4 DEF OthersZeroed
<1>11. VisitOK(job'[r]) /\ TakenOK(job[r])' /\ ResetOK(job[r])' /\ CompleteOK(r, job[r])'
  <2>1. VisitOK(j)
    BY <1>1, <1>3 DEF StatsInv, VisitOK
  <2>2. TakenOK(job[r])'
    BY <1>1, <1>3, <1>4, <1>5, <1>6, <1>7 DEF StatsInv, TakenOK, Everything, m, a
  <2>3. ResetOK(job[r])'
    BY <1>1, <1>3, <1>4 DEF StatsInv, ResetOK, Everything, m, a
  <2>4. CompleteOK(r, job[r])'
    <3>1. SUFFICES ASSUME NEW u \in j.prior
                   PROVE  \/ u \in Everything(j) \cup OthersZeroed(r)'
                          \/ \E c \in Remaining(j) : u \in count'[m][c]
      BY <1>3, <1>4 DEF CompleteOK, Everything, Remaining
    <3>2. \/ u \in Everything(job[r]) \cup OthersZeroed(r)
          \/ \E c \in Remaining(job[r]) : u \in count[m][c]
      BY <1>1, <1>3 DEF StatsInv, CompleteOK, m
    <3>3. Remaining(job[r]) \subseteq Counters \ {a}
      BY <1>1, JobFields DEF Remaining, a
    <3> QED
      BY <1>1, <1>3, <1>5, <1>10, <3>2, <3>3
  <2> QED
    BY <1>4, <2>1, <2>2, <2>3, <2>4
<1>12. ASSUME NEW q \in Requests, q # r
       PROVE  VisitOK(job'[q]) /\ TakenOK(job[q])' /\ ResetOK(job[q])' /\ CompleteOK(q, job[q])'
  <2>1. /\ VisitOK(job[q]) /\ TakenOK(job[q]) /\ ResetOK(job[q]) /\ CompleteOK(q, job[q])
        /\ job[q] \in Jobs /\ job'[q] = job[q]
    BY <1>4, <1>12 DEF StatsInv, StatsTypeOK
  <2>2. TakenOK(job[q])'
    BY <1>6, <1>7, <2>1 DEF TakenOK, Everything
  <2>3. ResetOK(job[q])'
    BY <1>7, <2>1, JobFields DEF ResetOK, Everything, VisitOK
  <2>4. CompleteOK(q, job[q])'
    <3>1. SUFFICES ASSUME NEW u \in job[q].prior
                   PROVE  \/ u \in Everything(job[q]) \cup OthersZeroed(q)'
                          \/ /\ job[q].pc \in {"visit", "reset"}
                             /\ \E c \in Remaining(job[q]) : u \in count'[job[q].met][c]
      BY <2>1 DEF CompleteOK, Everything, Remaining
    <3>2. Remaining(job[q]) \subseteq Counters
      BY <2>1, JobFields DEF Remaining
    <3>3. job[q].pc \in {"visit", "reset"} => job[q].met \in Instances
      BY <2>1 DEF VisitOK
    <3> QED
      BY <1>5, <1>10, <1>12, <2>1, <3>2, <3>3 DEF CompleteOK
  <2> QED
    BY <2>1, <2>2, <2>3, <2>4
<1>13. OverlapInv'
  <2>1. \A q \in Requests : /\ job'[q].alongside = job[q].alongside /\ job'[q].in = job[q].in
                           /\ (AtWork(q)' <=> AtWork(q))
                           /\ (job'[q].pc = "done" <=> job[q].pc = "done")
                           /\ Everything(job'[q]) = Everything(job[q])
    BY <1>1, <1>3, <1>4 DEF AtWork
  <2> QED
    BY <2>1 DEF StatsInv, OverlapInv, Everything
<1>14. \A q \in Requests : VisitOK(job'[q]) /\ TakenOK(job[q])' /\ ResetOK(job[q])' /\ CompleteOK(q, job[q])'
  BY <1>11, <1>12
<1> QED
  BY <1>8, <1>9, <1>13, <1>14 DEF StatsInv, VisitOK, ToVisit, Remaining

-----------------------------------------------------------------------------
\* A unit of traffic is counted.
LEMMA CountStep ==
  ASSUME StatsInv, NEW c \in Counters, NEW u \in Units, Count(c, u)
  PROVE  StatsInv'
<1>1. instance \in Instances /\ u \in unused
  BY DEF Count, StatsInv, StatsTypeOK
<1>2. /\ count' \in [Instances -> [Counters -> SUBSET Units]]
      /\ count'[instance][c] = count[instance][c] \cup {u}
      /\ \A i \in Instances, d \in Counters :
           i # instance \/ d # c => count'[i][d] = count[i][d]
  <2>1. count' = [count EXCEPT ![instance] = [count[instance] EXCEPT ![c] = @ \cup {u}]]
    BY DEF Count
  <2> QED
    BY <1>1, <2>1 DEF StatsInv, StatsTypeOK
<1>3. /\ UNCHANGED instance /\ unused' = unused \ {u}
  BY DEF Count
<1>4. ASSUME NEW q \in Requests
      PROVE  /\ job'[q] \in Jobs
             /\ job'[q].pc = job[q].pc /\ job'[q].in = job[q].in
             /\ job'[q].call = job[q].call /\ job'[q].met = job[q].met
             /\ job'[q].todo = job[q].todo /\ job'[q].at = job[q].at
             /\ job'[q].got = job[q].got /\ job'[q].zeroed = job[q].zeroed
             /\ job'[q].prior = job[q].prior /\ job'[q].alongside = job[q].alongside
             /\ job[q].late \subseteq job'[q].late
             /\ job[q].pc = "reset" /\ job[q].met = instance /\ job[q].at = c
                  => u \in job'[q].late
  <2>1. job[q] \in Jobs
    BY DEF StatsInv, StatsTypeOK
  <2>2. job'[q] = IF job[q].pc = "reset" /\ job[q].met = instance /\ job[q].at = c
                  THEN [job[q] EXCEPT !.late = @ \cup {u}] ELSE job[q]
    BY DEF Count
  <2> QED
    BY <2>1, <2>2 DEF Jobs
<1>5. job' \in [Requests -> Jobs]
  <2>1. job' = [q \in Requests |-> job'[q]]
    BY DEF Count
  <2> QED
    BY <1>4, <2>1
<1>6. StatsTypeOK'
  BY <1>2, <1>3, <1>5 DEF StatsInv, StatsTypeOK
<1>7. \A i \in Instances, d \in Counters : u \notin count[i][d]
  BY <1>1 DEF StatsInv, PlacesInv
<1>8. PlacesInv'
  BY <1>1, <1>2, <1>3, <1>7 DEF StatsInv, PlacesInv
<1>9. \A i \in Instances, d \in Counters : count[i][d] \subseteq count'[i][d]
  BY <1>2
<1>10. \A q \in Requests : OthersZeroed(q)' = OthersZeroed(q)
  BY <1>4 DEF OthersZeroed
<1>11. ASSUME NEW q \in Requests
       PROVE  VisitOK(job[q])' /\ TakenOK(job[q])' /\ ResetOK(job[q])' /\ CompleteOK(q, job[q])'
  <2>1. /\ VisitOK(job[q]) /\ TakenOK(job[q]) /\ ResetOK(job[q]) /\ CompleteOK(q, job[q])
        /\ job[q] \in Jobs
    BY DEF StatsInv, StatsTypeOK
  <2>2. VisitOK(job[q])'
    BY <1>4, <2>1 DEF VisitOK, ToVisit, Remaining
  <2>3. TakenOK(job[q])'
    <3> SUFFICES ASSUME job[q].in.reset
                 PROVE  /\ Everything(job[q]) \cap unused' = {}
                        /\ \A i \in Instances : \A e, d \in Counters :
                             job[q].got[e] \cap count'[i][d] # {} =>
                               job[q].pc = "reset" /\ job[q].at = e /\ e = d /\ job[q].met = i
      BY <1>4 DEF TakenOK, Everything
    <3>1. Everything(job[q]) \cap unused = {}
      BY <2>1 DEF TakenOK
    <3>2. \A e \in Counters : u \notin job[q].got[e]
      BY <1>1, <3>1 DEF Everything
    <3> QED
      BY <1>2, <1>3, <2>1, <3>1, <3>2 DEF TakenOK
  <2>4. ResetOK(job[q])'
    <3>1. job[q].pc = "reset" => job[q].met \in Instances /\ job[q].at \in Counters
      BY <2>1, JobFields DEF VisitOK
    <3> QED
      BY <1>2, <1>4, <2>1, <3>1 DEF ResetOK, Everything
  <2>5. CompleteOK(q, job[q])'
    <3>1. Remaining(job'[q]) = Remaining(job[q]) /\ Remaining(job[q]) \subseteq Counters
      BY <1>4, <2>1, JobFields DEF Remaining
    <3>2. job[q].pc \in {"visit", "reset"} => job[q].met \in Instances
      BY <2>1 DEF VisitOK
    <3>3. Everything(job'[q]) = Everything(job[q])
      BY <1>4 DEF Everything
    <3>4. ASSUME NEW v \in job[q].prior
          PROVE  \/ v \in Everything(job'[q]) \cup OthersZeroed(q)'
                 \/ /\ job'[q].pc \in {"visit", "reset"}
                    /\ \E d \in Remaining(job'[q]) : v \in count'[job'[q].met][d]
      BY <1>4, <1>9, <1>10, <2>1, <3>1, <3>2, <3>3, <3>4 DEF CompleteOK
    <3> QED
      BY <1>4, <3>4 DEF CompleteOK, Everything, Remaining
  <2> QED
    BY <2>2, <2>3, <2>4, <2>5
<1>12. OverlapInv'
  <2>1. \A q \in Requests : /\ job'[q].alongside = job[q].alongside /\ job'[q].in = job[q].in
                           /\ job'[q].pc = job[q].pc
                           /\ Everything(job'[q]) = Everything(job[q])
    BY <1>4 DEF Everything
  <2> QED
    BY <2>1 DEF StatsInv, OverlapInv, AtWork, Everything
<1> QED
  BY <1>6, <1>8, <1>11, <1>12 DEF StatsInv

\* A request begins.
LEMMA BeginStep ==
  ASSUME StatsInv, NEW r \in Requests, NEW in \in Inputs, Begin(r, in)
  PROVE  StatsInv'
<1> DEFINE atWork == {p \in Requests : AtWork(p)}
           j == [IdleJob EXCEPT !.pc = "check", !.in = in, !.alongside = atWork]
<1>1. /\ UNCHANGED <<instance, count, unused>> /\ job[r].pc = "idle" /\ ~AtWork(r)
      /\ job[r].alongside = {} /\ job[r].got = [c \in Counters |-> {}]
  BY DEF Begin, AtWork, StatsInv, VisitOK
<1>2. /\ j \in Jobs /\ j.got = [c \in Counters |-> {}] /\ j.zeroed = {} /\ j.prior = {}
      /\ j.pc = "check" /\ j.todo = {} /\ j.call = 1 /\ j.alongside = atWork
  BY IdleJobOK DEF Jobs
<1>3. /\ Everything(j) = {} /\ job'[r] = j
      /\ VisitOK(j) /\ TakenOK(j) /\ ResetOK(j) /\ CompleteOK(r, j)
  BY <1>2, NothingRead DEF Begin
<1>4. ASSUME NEW q \in Requests, q # r
      PROVE  /\ job'[q] \in Jobs
             /\ job'[q].pc = job[q].pc /\ job'[q].in = job[q].in
             /\ job'[q].call = job[q].call /\ job'[q].met = job[q].met
             /\ job'[q].todo = job[q].todo /\ job'[q].at = job[q].at
             /\ job'[q].got = job[q].got /\ job'[q].zeroed = job[q].zeroed
             /\ job'[q].prior = job[q].prior /\ job'[q].late = job[q].late
             /\ job'[q].alongside
                  = IF AtWork(q) THEN job[q].alongside \cup {r} ELSE job[q].alongside
  <2>1. job[q] \in Jobs
    BY DEF StatsInv, StatsTypeOK
  <2>2. job'[q] = [job[q] EXCEPT !.alongside = IF AtWork(q) THEN job[q].alongside \cup {r}
                                               ELSE job[q].alongside]
    BY <1>4 DEF Begin
  <2> QED
    BY <2>1, <2>2 DEF Jobs
<1>11. ASSUME NEW q \in Requests, q # r
       PROVE  /\ job'[q].pc = job[q].pc /\ job'[q].in = job[q].in
              /\ job'[q].call = job[q].call /\ job'[q].met = job[q].met
              /\ job'[q].todo = job[q].todo /\ job'[q].at = job[q].at
              /\ job'[q].got = job[q].got /\ job'[q].zeroed = job[q].zeroed
              /\ job'[q].prior = job[q].prior /\ job'[q].late = job[q].late
              /\ job[q].pc = "idle" => job'[q].alongside = job[q].alongside
              /\ AtWork(q)' <=> AtWork(q)
              /\ Everything(job'[q]) = Everything(job[q])
  <2>1. /\ job'[q].pc = job[q].pc /\ job'[q].in = job[q].in
        /\ job'[q].call = job[q].call /\ job'[q].met = job[q].met
        /\ job'[q].todo = job[q].todo /\ job'[q].at = job[q].at
        /\ job'[q].got = job[q].got /\ job'[q].zeroed = job[q].zeroed
        /\ job'[q].prior = job[q].prior /\ job'[q].late = job[q].late
        /\ job'[q].alongside
             = IF AtWork(q) THEN job[q].alongside \cup {r} ELSE job[q].alongside
    BY <1>4, <1>11
  <2>2. job[q].pc = "idle" => ~AtWork(q)
    BY DEF AtWork
  <2>3. AtWork(q)' <=> AtWork(q)
    BY <2>1 DEF AtWork
  <2>4. Everything(job'[q]) = Everything(job[q])
    BY <2>1 DEF Everything
  <2> QED
    BY <2>1, <2>2, <2>3, <2>4
<1> HIDE DEF j, atWork
<1>5. job' \in [Requests -> Jobs]
  <2>1. job' = [q \in Requests |-> job'[q]]
    BY DEF Begin
  <2> QED
    BY <1>2, <1>3, <1>4, <2>1
<1>6. StatsTypeOK' /\ PlacesInv'
  BY <1>1, <1>5 DEF StatsInv, StatsTypeOK, PlacesInv
<1>7. \A q \in Requests : OthersZeroed(q)' = OthersZeroed(q)
  <2>1. \A q \in Requests : job'[q].zeroed = job[q].zeroed
    BY <1>1, <1>2, <1>3, <1>4 DEF StatsInv, VisitOK
  <2> QED
    BY <2>1 DEF OthersZeroed
<1>8. VisitOK(job[r])' /\ TakenOK(job[r])' /\ ResetOK(job[r])' /\ CompleteOK(r, job[r])'
  <2>1. j.prior = {} /\ j.zeroed = {} /\ j.pc # "reset" /\ (\A c \in Counters : j.got[c] = {})
    BY <1>2
  <2>2. VisitOK(job[r])'
    BY <1>3 DEF VisitOK, ToVisit, Remaining
  <2>3. TakenOK(job[r])' /\ ResetOK(job[r])' /\ CompleteOK(r, job[r])'
    BY <1>3, <2>1 DEF TakenOK, ResetOK, CompleteOK, Everything
  <2> QED
    BY <2>2, <2>3
<1>9. ASSUME NEW q \in Requests, q # r
      PROVE  VisitOK(job[q])' /\ TakenOK(job[q])' /\ ResetOK(job[q])' /\ CompleteOK(q, job[q])'
  <2>1. /\ VisitOK(job[q]) /\ TakenOK(job[q]) /\ ResetOK(job[q]) /\ CompleteOK(q, job[q])
    BY DEF StatsInv
  <2>2. /\ job'[q].pc = job[q].pc /\ job'[q].in = job[q].in
        /\ job'[q].call = job[q].call /\ job'[q].met = job[q].met
        /\ job'[q].todo = job[q].todo /\ job'[q].at = job[q].at
        /\ job'[q].got = job[q].got /\ job'[q].zeroed = job[q].zeroed
        /\ job'[q].prior = job[q].prior /\ job'[q].late = job[q].late
        /\ job[q].pc = "idle" => job'[q].alongside = job[q].alongside
        /\ Everything(job'[q]) = Everything(job[q])
    BY <1>9, <1>11
  <2>3. VisitOK(job[q])'
    BY <2>1, <2>2 DEF VisitOK, ToVisit, Remaining
  <2>4. TakenOK(job[q])'
    BY <1>1, <2>1, <2>2 DEF TakenOK, Everything
  <2>5. ResetOK(job[q])'
    BY <1>1, <2>1, <2>2 DEF ResetOK, Everything
  <2>6. CompleteOK(q, job[q])'
    BY <1>1, <1>7, <2>1, <2>2 DEF CompleteOK, Everything, Remaining
  <2> QED
    BY <2>3, <2>4, <2>5, <2>6
<1>10. OverlapInv'
  <2>1. \A q \in Requests : q # r =>
          /\ (AtWork(q)' <=> AtWork(q)) /\ Everything(job'[q]) = Everything(job[q])
          /\ job'[q].pc = job[q].pc /\ job'[q].in = job[q].in
    BY <1>11
  <2>2. \A q \in Requests : q # r => r \notin job[q].alongside
    BY <1>1 DEF StatsInv, OverlapInv
  <2>3. ASSUME NEW q \in Requests, q # r
        PROVE  /\ q \in job'[r].alongside <=> AtWork(q)
               /\ r \in job'[q].alongside <=> AtWork(q)
    <3>1. q \in job'[r].alongside <=> AtWork(q)
      BY <1>2, <1>3 DEF atWork
    <3>2. CASE AtWork(q)
      BY <1>4, <2>3, <3>1, <3>2
    <3>3. CASE ~AtWork(q)
      BY <1>4, <2>2, <2>3, <3>1, <3>3
    <3> QED
      BY <3>2, <3>3
  <2>4. \A p, q \in Requests : p # r /\ q # r => (q \in job'[p].alongside <=> q \in job[p].alongside)
    BY <1>4
  <2>5. ASSUME NEW p \in Requests, NEW q \in Requests, p # q
        PROVE  /\ q \in job'[p].alongside <=> p \in job'[q].alongside
               /\ AtWork(p)' /\ AtWork(q)' => q \in job'[p].alongside
               /\ /\ job'[p].pc = "done" /\ q \notin job'[p].alongside
                  /\ job'[p].in.reset /\ job'[q].in.reset
                  => Everything(job'[p]) \cap Everything(job'[q]) = {}
    <3>1. CASE p # r /\ q # r
      BY <2>1, <2>4, <2>5, <3>1 DEF StatsInv, OverlapInv
    <3>2. CASE p = r
      BY <1>3, <2>1, <2>3, <2>5, <3>2
    <3>3. CASE q = r
      BY <1>3, <2>1, <2>3, <2>5, <3>3
    <3> QED
      BY <3>1, <3>2, <3>3
  <2> QED
    BY <2>5 DEF OverlapInv, Everything
<1> QED
  BY <1>6, <1>8, <1>9, <1>10 DEF StatsInv

-----------------------------------------------------------------------------
LEMMA StatsInit ==
  ASSUME Init
  PROVE  StatsInv
<1>1. \A r \in Requests : job[r] = IdleJob
  BY DEF Init
<1>2. StatsTypeOK /\ PlacesInv
  BY IdleJobOK DEF Init, StatsTypeOK, PlacesInv
<1>3. \A r \in Requests :
        VisitOK(job[r]) /\ TakenOK(job[r]) /\ ResetOK(job[r]) /\ CompleteOK(r, job[r])
  BY <1>1, IdleJobOK, NothingRead
<1>4. OverlapInv
  BY <1>1, IdleJobOK DEF OverlapInv, AtWork
<1> QED
  BY <1>2, <1>3, <1>4 DEF StatsInv

LEMMA StatsStep ==
  ASSUME StatsInv, [Next]_vars
  PROVE  StatsInv'
<1>1. ASSUME UNCHANGED <<count, unused, job>>, instance' \in Instances \cup {NoInstance}
      PROVE  StatsInv'
  <2>1. StatsTypeOK'
    BY <1>1 DEF StatsInv, StatsTypeOK
  <2>2. PlacesInv'
    BY <1>1 DEF StatsInv, PlacesInv
  <2>3. OverlapInv'
    BY <1>1 DEF StatsInv, OverlapInv, AtWork, Everything
  <2>4. ASSUME NEW r \in Requests
        PROVE  VisitOK(job[r])' /\ TakenOK(job[r])' /\ ResetOK(job[r])' /\ CompleteOK(r, job[r])'
    <3>1. VisitOK(job[r]) /\ TakenOK(job[r]) /\ ResetOK(job[r]) /\ CompleteOK(r, job[r])
      BY DEF StatsInv
    <3>2. job' = job /\ count' = count /\ unused' = unused
      BY <1>1
    <3>3. OthersZeroed(r)' = OthersZeroed(r)
      BY <3>2 DEF OthersZeroed
    <3>4. VisitOK(job[r])'
      BY <3>1, <3>2 DEF VisitOK, ToVisit, Remaining
    <3>5. TakenOK(job[r])' /\ ResetOK(job[r])'
      BY <3>1, <3>2 DEF TakenOK, ResetOK, Everything
    <3>6. CompleteOK(r, job[r])'
      BY <3>1, <3>2, <3>3 DEF CompleteOK, Everything, Remaining
    <3> QED
      BY <3>4, <3>5, <3>6
  <2> QED
    BY <2>1, <2>2, <2>3, <2>4 DEF StatsInv
<1>2. ASSUME NEW i \in Instances, Publish(i) PROVE StatsInv'
  BY <1>1, <1>2 DEF Publish
<1>3. CASE Close
  BY <1>1, <1>3 DEF Close
<1>4. ASSUME NEW c \in Counters, NEW u \in Units, Count(c, u) PROVE StatsInv'
  BY <1>4, CountStep
<1>5. ASSUME NEW r \in Requests, RequestStep(r) PROVE StatsInv'
  BY <1>5, BeginStep, CheckStep, LookupStep, LookupFailsStep, ReadStep, ResetStep, EndCallStep
  DEF RequestStep
<1>6. CASE UNCHANGED vars
  BY <1>1, <1>6 DEF vars, StatsInv, StatsTypeOK
<1> QED
  BY <1>2, <1>3, <1>4, <1>5, <1>6 DEF Next

\* The invariant holds in every behaviour.
THEOREM StatsInvariance == Spec => []StatsInv
<1> QED
  BY StatsInit, StatsStep, PTL DEF Spec

\* What an answer leaves out is nothing.
LEMMA ReportedEverything ==
  ASSUME StatsInv, NEW r \in Requests
  PROVE  Reported(r) = Everything(job[r])
<1>1. \A c \in Counters : job[r].got[c] # {} => Shown(job[r], c)
  BY DEF Shown, OfOwner, OfKind
<1> QED
  BY <1>1 DEF Reported, Everything

\* Every variable keeps its type.
THEOREM StatsTypeCorrect == Spec => []StatsTypeOK
<1>1. StatsInv => StatsTypeOK
  BY DEF StatsInv
<1> QED
  BY <1>1, StatsInvariance, PTL

\* Requests that are not at work at once never report the same traffic.
THEOREM NothingReportedTwice == Spec => []ReportedTwiceOnlyAtOnce
<1>1. StatsInv => ReportedTwiceOnlyAtOnce
  BY ReportedEverything DEF StatsInv, OverlapInv, ReportedTwiceOnlyAtOnce, Answered
<1> QED
  BY <1>1, StatsInvariance, PTL

\* What a request has set to zero is in its answer or came in between.
THEOREM NothingResetUnseen == Spec => []ResetIsReported
<1>1. StatsInv => ResetIsReported
  BY ReportedEverything DEF StatsInv, ResetOK, ResetIsReported
<1> QED
  BY <1>1, StatsInvariance, PTL

\* An answer has all that was there, but for what others have taken.
THEOREM NothingLeftOut == Spec => []AnswersAreComplete
<1>1. StatsInv => AnswersAreComplete
  BY ReportedEverything DEF StatsInv, CompleteOK, AnswersAreComplete, Answered
<1> QED
  BY <1>1, StatsInvariance, PTL
=============================================================================
