--------------------------- MODULE StatsCounters ---------------------------
(***************************************************************************)
(* The traffic statistics: internal/controller/stats_controller.go and the *)
(* stats client of internal/xray/core.go.  A request reads counters of the *)
(* running core and, if the Panel asks for it, sets each to zero after     *)
(* having read it, while traffic is counted, other requests do the same,   *)
(* and starts and stops replace the core.  The combined statistics are two *)
(* calls of the client.                                                    *)
(*                                                                         *)
(* A counter is the set of the units of traffic it has counted since it    *)
(* was set to zero, so that what happens to each can be followed.          *)
(***************************************************************************)
EXTENDS Naturals, Sequences, FiniteSets

CONSTANTS
  Requests,
  Inputs,                  \* what they ask for: a kind, an owner, to reset or not
  Counters,                \* [kind, owner, direction]
  Units,                   \* bounds the traffic
  Instances, NoInstance

Kinds == {"users", "inbound", "outbound", "inbounds", "outbounds", "combined"}

ASSUME InputsTyped ==
  \A in \in Inputs : in.kind \in Kinds /\ in.reset \in BOOLEAN

ASSUME SomeCounter == Counters # {} /\ Inputs # {} /\ NoInstance \notin Instances

VARIABLES
  instance,   \* c.instance
  count,      \* per instance and counter, the units counted; external
  unused,     \* units not counted yet
  job         \* per request, its locals

vars == <<instance, count, unused, job>>

OfKind(kind) == {c \in Counters : c.kind = kind}
OfOwner(kind, owner) == {c \in OfKind(kind) : c.owner = owner}

\* The counters that the calls of a request visit.
Calls(in) ==
  CASE in.kind = "users"     -> <<OfKind("user")>>
    [] in.kind = "inbound"   -> <<OfOwner("inbound", in.owner)>>
    [] in.kind = "outbound"  -> <<OfOwner("outbound", in.owner)>>
    [] in.kind = "inbounds"  -> <<OfKind("inbound")>>
    [] in.kind = "outbounds" -> <<OfKind("outbound")>>
    [] in.kind = "combined"  -> <<OfKind("inbound"), OfKind("outbound")>>

\* zeroed, late, prior and alongside record history for the properties: what the
\* request has set to zero; what was counted on a counter between its reading and
\* its resetting; what the counters held when the request looked the core up; and
\* the requests that were at work while it was.
IdleJob ==
  [pc |-> "idle", in |-> CHOOSE in \in Inputs : TRUE, call |-> 1, met |-> NoInstance,
   todo |-> {}, at |-> CHOOSE c \in Counters : TRUE, failed |-> FALSE,
   got |-> [c \in Counters |-> {}],
   zeroed |-> {}, late |-> {}, prior |-> {}, alongside |-> {}]

Init ==
  /\ instance = NoInstance
  /\ count = [i \in Instances |-> [c \in Counters |-> {}]]
  /\ unused = Units
  /\ job = [r \in Requests |-> IdleJob]

-----------------------------------------------------------------------------
\* Starts and stops as the statistics see them.  An instance is not used again.
Publish(i) ==
  /\ instance # i
  /\ count[i] = [c \in Counters |-> {}]
  /\ instance' = i
  /\ UNCHANGED <<count, unused, job>>

Close ==
  /\ instance # NoInstance
  /\ instance' = NoInstance
  /\ UNCHANGED <<count, unused, job>>

\* The running core counts a unit of traffic.
Count(c, u) ==
  /\ instance # NoInstance /\ u \in unused
  /\ unused' = unused \ {u}
  /\ count' = [count EXCEPT ![instance] = [count[instance] EXCEPT ![c] = @ \cup {u}]]
  /\ job' = [r \in Requests |->
               IF job[r].pc = "reset" /\ job[r].met = instance /\ job[r].at = c
               THEN [job[r] EXCEPT !.late = @ \cup {u}] ELSE job[r]]
  /\ UNCHANGED instance

-----------------------------------------------------------------------------
AtWork(r) == job[r].pc \in {"check", "lookup", "visit", "reset"}

Continue(r, j) == job' = [job EXCEPT ![r] = j]

Begin(r, in) ==
  /\ job[r].pc = "idle"
  /\ job' = [q \in Requests |->
               IF q = r
               THEN [IdleJob EXCEPT !.pc = "check", !.in = in,
                                    !.alongside = {p \in Requests : AtWork(p)}]
               ELSE [job[q] EXCEPT !.alongside = IF AtWork(q) THEN @ \cup {r} ELSE @]]
  /\ UNCHANGED <<instance, count, unused>>

\* statsClient: without a core the request fails at once.
Check(r) ==
  /\ job[r].pc = "check"
  /\ Continue(r, [job[r] EXCEPT !.pc = IF instance = NoInstance THEN "done" ELSE "lookup",
                                !.failed = instance = NoInstance])
  /\ UNCHANGED <<instance, count, unused>>

\* The next call, or the answer.
AfterCall(j) ==
  IF j.call < Len(Calls(j.in))
  THEN [j EXCEPT !.pc = "lookup", !.call = @ + 1]
  ELSE [j EXCEPT !.pc = "done"]

\* manager, once for each call: the core may have gone since the last one.
Lookup(r) ==
  /\ job[r].pc = "lookup" /\ instance # NoInstance
  /\ LET scope == Calls(job[r].in)[job[r].call]
     IN  Continue(r, [job[r] EXCEPT !.pc = "visit", !.met = instance, !.todo = scope,
                                    !.prior = @ \cup UNION {count[instance][c] : c \in scope}])
  /\ UNCHANGED <<instance, count, unused>>

\* A call that finds no core fails, which does not keep the next one from being made.
LookupFails(r) ==
  /\ job[r].pc = "lookup" /\ instance = NoInstance
  /\ Continue(r, AfterCall([job[r] EXCEPT !.failed = TRUE]))
  /\ UNCHANGED <<instance, count, unused>>

\* FAULT: the counter is set to zero, and then read.
ResetBeforeRead(r, c) ==
  /\ job[r].pc = "visit" /\ c \in job[r].todo
  /\ LET j == job[r]
     IN  /\ count' = IF j.in.reset THEN [count EXCEPT ![j.met] = [@ EXCEPT ![c] = {}]]
                                   ELSE count
         /\ Continue(r, [j EXCEPT !.todo = @ \ {c},
                                  !.got = [@ EXCEPT ![c] = count'[j.met][c]],
                                  !.zeroed = @ \cup (count[j.met][c] \ count'[j.met][c])])
  /\ UNCHANGED <<instance, unused>>

\* counter.Value().  Counters are visited in any order.
Read(r, c) ==
  /\ job[r].pc = "visit" /\ c \in job[r].todo
  /\ LET got == [job[r].got EXCEPT ![c] = count[job[r].met][c]]
     IN  Continue(r, IF job[r].in.reset
                     THEN [job[r] EXCEPT !.pc = "reset", !.at = c, !.got = got]
                     ELSE [job[r] EXCEPT !.todo = @ \ {c}, !.got = got])
  /\ UNCHANGED <<instance, count, unused>>

\* FAULT: nothing is set to zero.
ResetForgotten(r) ==
  /\ job[r].pc = "reset"
  /\ Continue(r, [job[r] EXCEPT !.pc = "visit", !.todo = @ \ {job[r].at}])
  /\ UNCHANGED <<instance, count, unused>>

\* counter.Set(0), of the instance that was looked up.
Reset(r) ==
  /\ job[r].pc = "reset"
  /\ LET j == job[r]
     IN  /\ count' = [count EXCEPT ![j.met] = [@ EXCEPT ![j.at] = {}]]
         /\ Continue(r, [j EXCEPT !.pc = "visit", !.todo = @ \ {j.at},
                                  !.zeroed = @ \cup count[j.met][j.at]])
  /\ UNCHANGED <<instance, unused>>

EndCall(r) ==
  /\ job[r].pc = "visit" /\ job[r].todo = {}
  /\ Continue(r, AfterCall(job[r]))
  /\ UNCHANGED <<instance, count, unused>>

RequestStep(r) ==
  \/ \E in \in Inputs : Begin(r, in)
  \/ Check(r) \/ Lookup(r) \/ LookupFails(r)
  \/ \E c \in Counters : Read(r, c)
  \/ Reset(r) \/ EndCall(r)

Next ==
  \/ \E i \in Instances : Publish(i)
  \/ Close
  \/ \E c \in Counters, u \in Units : Count(c, u)
  \/ \E r \in Requests : RequestStep(r)

Spec == Init /\ [][Next]_vars

-----------------------------------------------------------------------------
\* FAULT: users who have only sent or only received are left out.
ShownIfBoth(j, c) ==
  c.kind = "user" => \A d \in OfOwner("user", c.owner) : j.got[d] # {}

\* Users without any traffic are left out of the answer, inbounds are not.
Shown(j, c) ==
  c.kind = "user" => \E d \in OfOwner("user", c.owner) : j.got[d] # {}

Answered(r) == job[r].pc = "done" /\ ~job[r].failed
Reported(r) == UNION {job[r].got[c] : c \in {d \in Counters : Shown(job[r], d)}}

Jobs ==
  [pc : {"idle", "check", "lookup", "visit", "reset", "done"}, in : Inputs, call : 1..2,
   met : Instances \cup {NoInstance}, todo : SUBSET Counters, at : Counters,
   failed : BOOLEAN, got : [Counters -> SUBSET Units],
   zeroed : SUBSET Units, late : SUBSET Units, prior : SUBSET Units,
   alongside : SUBSET Requests]

Everything(j) == UNION {j.got[c] : c \in Counters}
OthersZeroed(r) == UNION {job[q].zeroed : q \in Requests \ {r}}

\* The types of all variables.
StatsTypeOK ==
  /\ instance \in Instances \cup {NoInstance}
  /\ count \in [Instances -> [Counters -> SUBSET Units]]
  /\ unused \in SUBSET Units
  /\ job \in [Requests -> Jobs]

\* The Panel is not told of the same traffic twice by two requests that reset the
\* counters, unless they were at work at the same time.
ReportedTwiceOnlyAtOnce ==
  \A r, q \in Requests :
    /\ r # q /\ Answered(r) /\ Answered(q)
    /\ job[r].in.reset /\ job[q].in.reset
    /\ Reported(r) \cap Reported(q) # {}
    => q \in job[r].alongside

\* The traffic that a request has set to zero is in its answer, except what was
\* counted on a counter between its reading and its resetting.
ResetIsReported ==
  \A r \in Requests :
    Answered(r) => job[r].zeroed \subseteq Reported(r) \cup job[r].late

\* An answer leaves out nothing that was counted when its counters were looked up,
\* except what another request has set to zero in the meantime.
AnswersAreComplete ==
  \A r \in Requests :
    Answered(r) =>
      job[r].prior \subseteq
        Reported(r) \cup OthersZeroed(r)
-----------------------------------------------------------------------------
(***************************************************************************)
(* The inductive invariant.                                                *)
(***************************************************************************)
\* A unit is at one place: not counted yet, or on one counter.
PlacesInv ==
  /\ \A i \in Instances, c \in Counters : count[i][c] \cap unused = {}
  /\ \A i, k \in Instances : \A c, d \in Counters :
       count[i][c] \cap count[k][d] # {} => i = k /\ c = d

\* The counters a request has yet to visit: in this call, and in all of them.
Remaining(j) == IF j.pc = "reset" THEN j.todo \ {j.at} ELSE j.todo

ToVisit(j) ==
  IF j.pc \in {"visit", "reset"}
  THEN Remaining(j) \cup UNION {Calls(j.in)[k] : k \in (j.call + 1)..Len(Calls(j.in))}
  ELSE UNION {Calls(j.in)[k] : k \in j.call..Len(Calls(j.in))}

\* Where a request is: a counter is visited once.
VisitOK(j) ==
  /\ j.pc = "idle" => j.got = [c \in Counters |-> {}] /\ j.zeroed = {} /\ j.alongside = {}
  /\ j.call <= Len(Calls(j.in))
  /\ j.pc \in {"visit", "reset"} => /\ j.met \in Instances
                                    /\ j.todo \subseteq Calls(j.in)[j.call]
  /\ j.pc \notin {"visit", "reset"} => j.todo = {}
  /\ j.pc = "reset" => j.at \in j.todo /\ j.in.reset
  /\ j.pc # "done" => \A c \in ToVisit(j) : j.got[c] = {}

\* What has been read and reset is on no counter any more; what has been read and
\* not yet reset, on that counter only.
TakenOK(j) ==
  j.in.reset =>
    /\ Everything(j) \cap unused = {}
    /\ \A i \in Instances : \A c, d \in Counters :
         j.got[c] \cap count[i][d] # {} =>
           j.pc = "reset" /\ j.at = c /\ c = d /\ j.met = i

\* What is set to zero, or about to be, was read or came late.
ResetOK(j) ==
  /\ j.zeroed \subseteq Everything(j) \cup j.late
  /\ j.pc = "reset" => count[j.met][j.at] \subseteq j.got[j.at] \cup j.late

\* What was there at the lookup has been read, has been taken by another request,
\* or is on a counter that remains to be visited.
CompleteOK(r, j) ==
  \A u \in j.prior :
    \/ u \in Everything(j) \cup OthersZeroed(r)
    \/ /\ j.pc \in {"visit", "reset"}
       /\ \E c \in Remaining(j) : u \in count[j.met][c]

\* Of two requests that were not at work at the same time, the one that was done
\* first has left the other nothing of what it has read.
OverlapInv ==
  \A r, q \in Requests :
    r # q =>
      /\ q \in job[r].alongside <=> r \in job[q].alongside
      /\ AtWork(r) /\ AtWork(q) => q \in job[r].alongside
      /\ /\ job[r].pc = "done" /\ q \notin job[r].alongside
         /\ job[r].in.reset /\ job[q].in.reset
         => Everything(job[r]) \cap Everything(job[q]) = {}

StatsInv ==
  /\ StatsTypeOK
  /\ PlacesInv
  /\ \A r \in Requests :
       /\ VisitOK(job[r])
       /\ TakenOK(job[r])
       /\ ResetOK(job[r])
       /\ CompleteOK(r, job[r])
  /\ OverlapInv
=============================================================================
