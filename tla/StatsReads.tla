----------------------------- MODULE StatsReads -----------------------------
(***************************************************************************)
(* The statistics that only read: who is online, from where, and for how   *)
(* long the core has been up (internal/controller/stats_controller.go and  *)
(* the stats client of internal/xray/core.go).  A request makes several    *)
(* reads, between which users connect and leave and starts and stops       *)
(* replace the core.  Requests that only read do not meet each other: one  *)
(* at a time is enough.                                                    *)
(***************************************************************************)
EXTENDS Integers

CONSTANTS
  Queries,                 \* what the Panel asks for: a kind and a user
  Users, Connections,      \* pairs of a user and an address
  CoreInstances, NoCore,
  MaxUptime, MaxClock      \* the largest uint32; bounds the clock

ASSUME ReadsAssumption ==
  /\ \A q \in Queries : q.kind \in {"system", "status", "ips", "users"}
  /\ \A c \in Connections : c[1] \in Users
  /\ NoCore \notin CoreInstances
  /\ MaxUptime \in Nat

VARIABLES
  core, startedAt,   \* c.instance and c.startedAt, which change together
  retired,           \* instances that have been published
  online,            \* the online maps: per instance, the connections it serves
  time,
  query              \* the request and its locals

readsVars == <<core, startedAt, retired, online, time, query>>

Of(u, connections) == {c \in connections : c[1] = u}

\* seen, throughout and alone are history: the connections that a published instance
\* served at some moment of the request, and at each; and that no start or stop came.
NoQuery ==
  [pc |-> "idle", in |-> CHOOSE q \in Queries : TRUE, met |-> NoCore, now |-> 0,
   todo |-> {}, names |-> {}, got |-> {}, uptime |-> 0, since |-> 0,
   seen |-> {}, throughout |-> {}, alone |-> TRUE]

ReadsInit ==
  /\ core = NoCore /\ startedAt = 0 /\ retired = {}
  /\ online = [i \in CoreInstances |-> {}]
  /\ time = 0
  /\ query = NoQuery

Served == IF core = NoCore THEN {} ELSE online[core]

-----------------------------------------------------------------------------
\* Starts and stops, as the statistics see them.
PublishCore(i) ==
  /\ i \notin retired
  /\ core' = i /\ startedAt' = time /\ retired' = retired \cup {i}
  /\ query' = [query EXCEPT !.alone = FALSE]
  /\ UNCHANGED <<online, time>>

TakeCore ==
  /\ core # NoCore
  /\ core' = NoCore /\ startedAt' = 0
  /\ query' = [query EXCEPT !.alone = FALSE]
  /\ UNCHANGED <<retired, online, time>>

ConnectUser(c) ==
  /\ core # NoCore /\ c \notin online[core]
  /\ online' = [online EXCEPT ![core] = @ \cup {c}]
  /\ query' = [query EXCEPT !.seen = @ \cup {c}]
  /\ UNCHANGED <<core, startedAt, retired, time>>

\* A connection ends, at an instance that may have been closed.
LeaveUser(i, c) ==
  /\ c \in online[i]
  /\ online' = [online EXCEPT ![i] = @ \ {c}]
  /\ query' = [query EXCEPT !.throughout = IF i = core THEN @ \ {c} ELSE @]
  /\ UNCHANGED <<core, startedAt, retired, time>>

TimePasses ==
  /\ time < MaxClock
  /\ time' = time + 1
  /\ UNCHANGED <<core, startedAt, retired, online, query>>

-----------------------------------------------------------------------------
Step(q) ==
  /\ query' = q
  /\ UNCHANGED <<core, startedAt, retired, online, time>>

Ask(in) ==
  /\ query.pc \in {"idle", "done"}
  /\ Step([NoQuery EXCEPT !.pc = "check", !.in = in, !.seen = Served, !.throughout = Served])

\* statsClient: without a core there is an error, or a false, or an empty list.
CheckCore ==
  /\ query.pc = "check"
  /\ Step([query EXCEPT !.pc = IF core = NoCore THEN "done"
                               ELSE IF query.in.kind = "system" THEN "now" ELSE "manager"])

\* SysStats takes the time before uptime takes the lock.
ReadNow ==
  /\ query.pc = "now"
  /\ Step([query EXCEPT !.pc = "uptime", !.now = time])

\* FAULT: a start between the two makes a negative number of seconds, modulo the width.
UptimeUnguarded(now) ==
  IF core = NoCore THEN 0 ELSE (now - startedAt) % (MaxUptime + 1)

Uptime(now) ==
  IF core = NoCore \/ now < startedAt THEN 0
  ELSE IF now - startedAt > MaxUptime THEN MaxUptime ELSE now - startedAt

ReadUptime ==
  /\ query.pc = "uptime"
  /\ Step([query EXCEPT !.pc = "done", !.uptime = Uptime(query.now), !.since = startedAt])

\* manager, once: what follows reads that instance, closed or not.
LookUpManager ==
  /\ query.pc = "manager" /\ core # NoCore
  /\ LET asked == IF query.in.kind = "users" THEN {} ELSE {query.in.user}
     IN  Step([query EXCEPT !.pc = IF asked = {} THEN "names" ELSE "read",
                            !.met = core,
                            !.todo = IF asked = {} THEN Users ELSE {}, !.names = asked])

ManagerIsGone ==
  /\ query.pc = "manager" /\ core = NoCore
  /\ Step([query EXCEPT !.pc = "done"])

\* GetAllOnlineUsers looks at one online map after the other.
NameUser(u) ==
  /\ query.pc = "names" /\ u \in query.todo
  /\ Step([query EXCEPT !.todo = @ \ {u},
                        !.names = IF Of(u, online[query.met]) # {} THEN @ \cup {u} ELSE @])

AllNamed ==
  /\ query.pc = "names" /\ query.todo = {}
  /\ Step([query EXCEPT !.pc = "read"])

\* FAULT: the addresses of one user replace those of the one before.
ReadUserOnly(u) ==
  /\ query.pc = "read" /\ u \in query.names
  /\ Step([query EXCEPT !.names = @ \ {u}, !.got = Of(u, online[query.met])])

\* onlineIPLastSeen or onlineStatus, one online map at a time; users in any order.  A
\* user who has left in the meantime has no address and is not listed.
ReadUser(u) ==
  /\ query.pc = "read" /\ u \in query.names
  /\ Step([query EXCEPT !.names = @ \ {u}, !.got = @ \cup Of(u, online[query.met])])

AllRead ==
  /\ query.pc = "read" /\ query.names = {}
  /\ Step([query EXCEPT !.pc = "done"])

-----------------------------------------------------------------------------
RequestReads ==
  \/ CheckCore \/ ReadNow \/ ReadUptime \/ LookUpManager \/ ManagerIsGone
  \/ \E u \in Users : NameUser(u) \/ ReadUser(u)
  \/ AllNamed \/ AllRead

ReadsNext ==
  \/ \E in \in Queries : Ask(in)
  \/ RequestReads
  \/ \E i \in CoreInstances : PublishCore(i)
  \/ TakeCore
  \/ \E c \in Connections : ConnectUser(c) \/ (\E i \in CoreInstances : LeaveUser(i, c))
  \/ TimePasses

ReadsSpec == ReadsInit /\ [][ReadsNext]_readsVars

-----------------------------------------------------------------------------
Answered == query.pc = "done"

\* Who is listed, and from where, was online at some moment of the request; who was
\* online at every moment of it is listed, unless a start or stop came: the list is not
\* a snapshot, but it is never wrong by more than what changed meanwhile.
ListsAreTrue ==
  Answered =>
    /\ query.got \subseteq query.seen
    /\ query.alone /\ query.in.kind = "users" => query.throughout \subseteq query.got
    /\ query.alone /\ query.in.kind \in {"status", "ips"} =>
         Of(query.in.user, query.throughout) \subseteq query.got

\* The uptime that is answered is never longer than the core has been up that was
\* running when it was read, though the time was taken before the lock.
UptimeIsReal == Answered /\ query.uptime # 0 => query.since + query.uptime <= time

\* What the reading handlers tell of the core, they tell of one that was running.
ReadsAreTrue == ListsAreTrue /\ UptimeIsReal
=============================================================================
