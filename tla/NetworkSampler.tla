--------------------------- MODULE NetworkSampler ---------------------------
(***************************************************************************)
(* NetworkSampler of internal/system/stats.go: once in every interval a    *)
(* goroutine looks up the interface of the default route, reads its byte   *)
(* counters and the time, and publishes the rates since the last sample,   *)
(* while traffic flows, interfaces come, go and start again from zero, the *)
(* routes change, and requests read what is published.                     *)
(* A rate is what perSecond truncates its float64 to, without the rounding *)
(* of the division and the cap at the largest uint64.                      *)
(***************************************************************************)
EXTENDS Integers, Sequences

CONSTANTS
  Ifaces, Directions,       \* names of interfaces; received and sent
  RouteTables,              \* what /proc/net/route may hold
  SecondTicks,              \* ticks of the clock in a second
  Carriable, MaxTime,       \* bounds of the traffic, per interface, and of the clock
  None, Unparsable

Lines == [iface : Ifaces, complete : BOOLEAN, default : BOOLEAN, metric : Int \cup {Unparsable}]

\* networkCounterSample, and the NetworkInterface that is published
Samples == [iface : Ifaces, bytes : [Directions -> Nat], at : Nat]
Rates == [iface : Ifaces, total : [Directions -> Nat], rate : [Directions -> Nat]]

ASSUME SamplerAssumption ==
  /\ SecondTicks \in Nat \ {0}
  /\ None \notin Ifaces \cup Samples \cup Rates
  /\ \A t \in RouteTables : t \in Seq(Lines)

VARIABLES
  routes, present,   \* the route table; the interfaces that have counters
  counter,           \* per interface and direction
  clock,
  pc,                \* where the goroutine is
  iface, read, at,   \* locals of sample
  previous, current, \* s.previous, s.current
  closed,            \* s.done
  \* History: all that an interface has carried, now, when it was read and at the
  \* previous sample; what was carried, and the time that passed, between the samples
  \* of the published rates; how many whole samples have been taken since anything but
  \* traffic changed, two at most, and whether the present one is to be counted.
  carried, readCarried, prevCarried, shown, settled, steady

environment == <<routes, present, counter, clock, carried>>
samplerVars == <<environment, pc, iface, read, at, previous, current, closed,
                 readCarried, prevCarried, shown, settled, steady>>

NoBytes == [d \in Directions |-> 0]
NothingShown == [elapsed |-> 0, moved |-> NoBytes]

-----------------------------------------------------------------------------
Metric(line) == IF line.metric = Unparsable THEN 0 ELSE line.metric

\* FAULT: a later line of the same metric wins.
BetterOrEqual(best, line) ==
  IF best.iface = None \/ Metric(line) <= best.metric
  THEN [iface |-> line.iface, metric |-> Metric(line)] ELSE best

Better(best, line) ==
  IF best.iface = None \/ Metric(line) < best.metric
  THEN [iface |-> line.iface, metric |-> Metric(line)] ELSE best

Usable(line) == line.complete /\ line.default

NoneYet == [iface |-> None, metric |-> 0]

\* The loop over the lines: what is best after the first n of them.
BestAfter(table) ==
  LET best[n \in 0..Len(table)] ==
        IF n = 0 THEN NoneYet
        ELSE IF Usable(table[n]) THEN Better(best[n - 1], table[n]) ELSE best[n - 1]
  IN  best

\* None is the error "default route not found".
DefaultInterface(table) == BestAfter(table)[Len(table)].iface

\* FAULT: the difference is taken whatever its sign, modulo the width of a counter.
PerSecondWrapping(now, before, elapsed) ==
  (SecondTicks * ((now + 256 - before) % 256)) \div elapsed

PerSecond(now, before, elapsed) ==
  IF now < before THEN 0 ELSE (SecondTicks * (now - before)) \div elapsed

-----------------------------------------------------------------------------
\* NewNetworkSampler takes the first sample before it starts the goroutine.
SamplerInit ==
  /\ routes \in RouteTables
  /\ present \in SUBSET Ifaces
  /\ counter = [i \in Ifaces |-> NoBytes] /\ carried = counter
  /\ clock = 0
  /\ pc = "resolve" /\ iface = None /\ read = NoBytes /\ at = 0
  /\ previous = None /\ current = None /\ closed = FALSE
  /\ readCarried = NoBytes /\ prevCarried = NoBytes
  /\ shown = NothingShown
  /\ settled = 0 /\ steady = TRUE

\* run: the ticker fires; it may do so once more after Close.
TickerFires ==
  /\ pc = "wait"
  /\ pc' = "resolve" /\ steady' = TRUE
  /\ UNCHANGED <<environment, iface, read, at, previous, current, closed, readCarried, prevCarried, shown, settled>>

SeeDone ==
  /\ pc = "wait" /\ closed
  /\ pc' = "ended"
  /\ UNCHANGED <<environment, iface, read, at, previous, current, closed, readCarried, prevCarried, shown, settled, steady>>

Resolve ==
  /\ pc = "resolve"
  /\ iface' = DefaultInterface(routes)
  /\ pc' = IF iface' = None THEN "clear" ELSE "count"
  /\ UNCHANGED <<environment, read, at, previous, current, closed, readCarried, prevCarried, shown, settled, steady>>

\* NetIOCounters and findCounter.
ReadCounters ==
  /\ pc = "count" /\ iface \in present
  /\ read' = counter[iface] /\ readCarried' = carried[iface]
  /\ pc' = "time"
  /\ UNCHANGED <<environment, iface, at, previous, current, closed, prevCarried, shown, settled, steady>>

NoSuchCounter ==
  /\ pc = "count" /\ iface \notin present
  /\ pc' = "clear"
  /\ UNCHANGED <<environment, iface, read, at, previous, current, closed, readCarried, prevCarried, shown, settled, steady>>

\* DefaultInterface cannot read the table, or NetIOCounters the counters.
ReadFails ==
  /\ pc \in {"resolve", "count"}
  /\ pc' = "clear" /\ steady' = FALSE
  /\ UNCHANGED <<environment, iface, read, at, previous, current, closed, readCarried, prevCarried, shown, settled>>

ReadClock ==
  /\ pc = "time"
  /\ at' = clock
  /\ pc' = "store"
  /\ UNCHANGED <<environment, iface, read, previous, current, closed, readCarried, prevCarried, shown, settled, steady>>

Elapsed == at - previous.at

Comparable == previous # None /\ previous.iface = iface /\ Elapsed > 0

\* FAULT: the first sample of an interface stays the previous one.
RememberFirst ==
  previous' = IF previous # None THEN previous ELSE [iface |-> iface, bytes |-> read, at |-> at]

Remember == previous' = [iface |-> iface, bytes |-> read, at |-> at]

\* sample returns, and its locals are gone.
Return ==
  /\ pc' = "wait"
  /\ iface' = None /\ read' = NoBytes /\ at' = 0 /\ readCarried' = NoBytes

\* The critical section of sample.
Store ==
  /\ pc = "store" /\ Return
  /\ IF Comparable
     THEN /\ current' = [iface |-> iface, total |-> read,
                         rate |-> [d \in Directions |->
                                     PerSecond(read[d], previous.bytes[d], Elapsed)]]
          /\ shown' = [elapsed |-> Elapsed,
                       moved |-> [d \in Directions |-> readCarried[d] - prevCarried[d]]]
     ELSE UNCHANGED <<current, shown>>
  /\ Remember /\ prevCarried' = readCarried
  /\ settled' = IF ~steady THEN 0
                ELSE IF settled = 0 THEN 1
                ELSE IF settled = 1 /\ Elapsed > 0 THEN 2 ELSE settled
  /\ UNCHANGED <<environment, closed, steady>>

Forget == previous' = None /\ current' = None

\* clear
Clear ==
  /\ pc = "clear" /\ Return
  /\ Forget
  /\ settled' = IF ~steady THEN 0 ELSE IF settled = 0 THEN 1 ELSE settled
  /\ prevCarried' = NoBytes /\ shown' = NothingShown
  /\ UNCHANGED <<environment, closed, steady>>

CloseSampler ==
  /\ ~closed /\ closed' = TRUE
  /\ UNCHANGED <<environment, pc, iface, read, at, previous, current, readCarried, prevCarried, shown, settled, steady>>

-----------------------------------------------------------------------------
Unobserved == UNCHANGED <<pc, iface, read, at, previous, current, closed, readCarried, prevCarried, shown>>

\* An interface carries a unit of traffic.
Carry(i, d) ==
  /\ i \in present /\ carried[i][d] < Carriable[i]
  /\ counter' = [counter EXCEPT ![i][d] = @ + 1]
  /\ carried' = [carried EXCEPT ![i][d] = @ + 1]
  /\ UNCHANGED <<routes, present, clock, settled, steady>> /\ Unobserved

\* Time passes in jumps: a sample may be late.
Advance ==
  /\ clock < MaxTime
  /\ clock' = clock + 1
  /\ UNCHANGED <<routes, present, counter, carried, settled, steady>> /\ Unobserved

RoutesChange(table) ==
  /\ table # routes /\ routes' = table
  /\ settled' = 0 /\ steady' = FALSE
  /\ UNCHANGED <<present, counter, carried, clock>> /\ Unobserved

\* An interface goes, or comes, and then counts from zero.
Replug(i) ==
  /\ present' = IF i \in present THEN present \ {i} ELSE present \cup {i}
  /\ counter' = [counter EXCEPT ![i] = NoBytes]
  /\ settled' = 0 /\ steady' = FALSE
  /\ UNCHANGED <<routes, carried, clock>> /\ Unobserved

-----------------------------------------------------------------------------
Sample == Resolve \/ ReadCounters \/ NoSuchCounter \/ ReadFails \/ ReadClock \/ Store \/ Clear

SamplerNext ==
  \/ TickerFires \/ SeeDone \/ Sample \/ CloseSampler
  \/ \E i \in Ifaces, d \in Directions : Carry(i, d)
  \/ Advance
  \/ \E t \in RouteTables : RoutesChange(t)
  \/ \E i \in Ifaces : Replug(i)

SamplerSpec == SamplerInit /\ [][SamplerNext]_samplerVars

-----------------------------------------------------------------------------
SamplerTypeOK ==
  /\ routes \in RouteTables /\ present \subseteq Ifaces
  /\ counter \in [Ifaces -> [Directions -> Nat]] /\ carried \in [Ifaces -> [Directions -> Nat]]
  /\ clock \in Nat /\ at \in Nat
  /\ pc \in {"wait", "resolve", "count", "time", "store", "clear", "ended"}
  /\ read \in [Directions -> Nat] /\ readCarried \in [Directions -> Nat]
  /\ pc \in {"time", "store"} => iface \in Ifaces
  /\ previous \in Samples \cup {None}
  /\ prevCarried \in [Directions -> Nat]
  /\ current \in Rates \cup {None}
  /\ shown \in [elapsed : Nat, moved : [Directions -> Nat]]
  /\ settled \in 0..2 /\ steady \in BOOLEAN /\ closed \in BOOLEAN

\* The published rates never amount to more than what the interface really carried
\* between the two samples they come from, whether its counter went back in
\* between, was read again too soon, or belongs to another interface.
RatesWithinTraffic ==
  current # None =>
    \A d \in Directions : current.rate[d] * shown.elapsed <= SecondTicks * shown.moved[d]

\* What the routes call the default: the first of the complete default routes with
\* the lowest metric, of which one that is no number counts as zero.
IsDefault(i, table) ==
  \E n \in DOMAIN table :
    /\ table[n].complete /\ table[n].default /\ table[n].iface = i
    /\ \A m \in DOMAIN table :
         table[m].complete /\ table[m].default =>
           \/ Metric(table[n]) < Metric(table[m])
           \/ Metric(table[n]) = Metric(table[m]) /\ n <= m

\* Two samples after routes and interfaces have come to rest, what is published are
\* the rates of the default interface; one sample after, nothing is published if
\* there is none: the rates of an interface that is no longer the default, or gone,
\* are shown for one more interval at most.
SettledIsShown ==
  /\ settled = 2 => \A i \in present : IsDefault(i, routes) => current # None /\ current.iface = i
  /\ settled \in {1, 2} =>
       (current = None \/ \E i \in present : IsDefault(i, routes))
=============================================================================
