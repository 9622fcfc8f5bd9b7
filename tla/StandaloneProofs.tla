-------------------------- MODULE StandaloneProofs --------------------------
(***************************************************************************)
(* What holds of the sampler and of the statistics that only read, for any *)
(* interfaces, routes, traffic, clocks, users and connections; and of what *)
(* the algorithms compute from any input, and the configuration builder    *)
(* from any document.                                                      *)
(***************************************************************************)
EXTENDS NetworkSampler, StatsReads, Algorithms, Building,
        FunctionTheorems, FiniteSetTheorems, WellFoundedInduction, TLAPS

Sampling == pc \in {"time", "store"}

\* What a counter has gained since it was read into b, when its interface had carried c,
\* is no more than what the interface has carried since: a counter that starts again
\* from zero only loses.
GainedAtMost(now, b, carriedNow, c) ==
  \A d \in Directions : now[d] + c[d] <= b[d] + carriedNow[d] /\ c[d] <= carriedNow[d]

\* The type invariant in three parts: what surrounds the sampler, what it is at, and what
\* it keeps.
SurroundingsOK ==
  /\ routes \in RouteTables /\ present \subseteq Ifaces
  /\ counter \in [Ifaces -> [Directions -> Nat]] /\ carried \in [Ifaces -> [Directions -> Nat]]
  /\ clock \in Nat

PlaceOK ==
  /\ at \in Nat
  /\ pc \in {"wait", "resolve", "count", "time", "store", "clear", "ended"}
  /\ read \in [Directions -> Nat] /\ readCarried \in [Directions -> Nat]
  /\ pc \in {"time", "store"} => iface \in Ifaces

KeptOK ==
  /\ previous \in Samples \cup {None}
  /\ prevCarried \in [Directions -> Nat]
  /\ current \in Rates \cup {None}
  /\ shown \in [elapsed : Nat, moved : [Directions -> Nat]]
  /\ settled \in 0..2 /\ steady \in BOOLEAN /\ closed \in BOOLEAN

LEMMA TypeParts == SamplerTypeOK <=> SurroundingsOK /\ PlaceOK /\ KeptOK
  BY Zenon DEF SamplerTypeOK, SurroundingsOK, PlaceOK, KeptOK

LEMMA TypePartsNext == SamplerTypeOK' <=> SurroundingsOK' /\ PlaceOK' /\ KeptOK'
  BY Zenon DEF SamplerTypeOK, SurroundingsOK, PlaceOK, KeptOK

\* The invariant: since the previous sample, since the present one was read, and between
\* the two if they are of the same interface.
PreviousInv ==
  previous # None =>
    GainedAtMost(counter[previous.iface], previous.bytes, carried[previous.iface], prevCarried)

ReadInv == Sampling => GainedAtMost(counter[iface], read, carried[iface], readCarried)

BetweenInv ==
  (Sampling /\ previous # None /\ previous.iface = iface) =>
    GainedAtMost(read, previous.bytes, readCarried, prevCarried)

SamplerInv ==
  SamplerTypeOK /\ PreviousInv /\ ReadInv /\ BetweenInv /\ RatesWithinTraffic

-----------------------------------------------------------------------------
LEMMA Seconds == SecondTicks \in Nat /\ SecondTicks # 0
  BY SamplerAssumption

\* Dividing and multiplying again never gives more.
LEMMA Divided ==
  ASSUME NEW x \in Nat, NEW e \in Nat, e > 0
  PROVE  x \div e \in Nat /\ (x \div e) * e <= x
  OBVIOUS

\* perSecond never gives more than the counter's difference, and nothing when it went
\* back.
LEMMA RateBound ==
  ASSUME NEW now \in Nat, NEW before \in Nat, NEW e \in Nat, e > 0,
         NEW moved \in Nat, now <= before + moved
  PROVE  /\ PerSecond(now, before, e) \in Nat
         /\ PerSecond(now, before, e) * e <= SecondTicks * moved
<1> DEFINE gain == now - before
<1>1. CASE now < before
  BY <1>1, Seconds DEF PerSecond
<1>2. CASE ~(now < before)
  <2>1. gain \in Nat /\ gain <= moved
    BY <1>2
  <2>2. SecondTicks * gain \in Nat /\ SecondTicks * gain <= SecondTicks * moved
    BY <2>1, Seconds
  <2>3. PerSecond(now, before, e) = (SecondTicks * gain) \div e
    BY <1>2 DEF PerSecond
  <2> QED
    <3> HIDE DEF gain
    <3> DEFINE x == SecondTicks * gain
    <3>1. x \in Nat /\ x <= SecondTicks * moved
      BY <2>2
    <3>2. SecondTicks * moved \in Nat
      BY Seconds
    <3> HIDE DEF x
    <3>3. x \div e \in Nat /\ (x \div e) * e <= x
      BY <3>1, Divided
    <3>4. (x \div e) * e \in Nat
      BY <3>3
    <3>5. (x \div e) * e <= SecondTicks * moved
      BY <3>1, <3>2, <3>3, <3>4
    <3> QED BY <2>3, <3>3, <3>5 DEF x
<1> QED BY <1>1, <1>2

-----------------------------------------------------------------------------
LEMMA SamplerStarts == SamplerInit => SamplerInv
<1> SUFFICES ASSUME SamplerInit PROVE SamplerInv
  OBVIOUS
<1>1. SamplerTypeOK
  <2>1. NoBytes \in [Directions -> Nat]
    BY DEF NoBytes
  <2>2. SurroundingsOK
    BY <2>1 DEF SamplerInit, SurroundingsOK
  <2>3. PlaceOK
    BY <2>1 DEF SamplerInit, PlaceOK
  <2>4. NothingShown \in [elapsed : Nat, moved : [Directions -> Nat]]
    BY <2>1 DEF NothingShown
  <2>5. KeptOK
    <3>1. settled \in 0..2 /\ prevCarried \in [Directions -> Nat]
      BY <2>1 DEF SamplerInit
    <3>2. /\ previous = None /\ current = None /\ shown = NothingShown
          /\ steady \in BOOLEAN /\ closed \in BOOLEAN
      BY Zenon DEF SamplerInit
    <3> QED BY Zenon, <2>4, <3>1, <3>2 DEF KeptOK
  <2> QED BY <2>2, <2>3, <2>5, TypeParts
<1>2. PreviousInv /\ ReadInv /\ BetweenInv /\ RatesWithinTraffic
  BY DEF SamplerInit, PreviousInv, ReadInv, BetweenInv, RatesWithinTraffic, Sampling
<1> QED BY <1>1, <1>2 DEF SamplerInv

\* The counters are the same, and so is what was read: only the place changes, from or
\* to one where nothing is being sampled.
LEMMA ElsewhereKept ==
  ASSUME SamplerInv,
         UNCHANGED <<counter, carried, previous, current, prevCarried, shown>>,
         ~Sampling' \/ (Sampling /\ UNCHANGED <<iface, read, readCarried>>)
  PROVE  PreviousInv' /\ ReadInv' /\ BetweenInv' /\ RatesWithinTraffic'
<1>1. PreviousInv'
  BY DEF SamplerInv, PreviousInv, GainedAtMost
<1>2. ReadInv'
  BY DEF SamplerInv, ReadInv, GainedAtMost
<1>3. BetweenInv'
  BY DEF SamplerInv, BetweenInv, GainedAtMost
<1>4. RatesWithinTraffic'
  BY DEF SamplerInv, RatesWithinTraffic
<1> QED BY <1>1, <1>2, <1>3, <1>4

LEMMA MovesKept ==
  ASSUME SamplerInv,
         TickerFires \/ SeeDone \/ Resolve \/ NoSuchCounter \/ ReadFails \/ ReadClock
           \/ CloseSampler \/ Advance \/ (\E t \in RouteTables : RoutesChange(t))
  PROVE  SamplerInv'
<1>1. SamplerTypeOK'
  <2>1. SurroundingsOK /\ PlaceOK /\ KeptOK
    BY TypeParts DEF SamplerInv
  <2>2. SurroundingsOK'
    BY <2>1 DEF SurroundingsOK, TickerFires, SeeDone, Resolve, NoSuchCounter, ReadFails,
       ReadClock, CloseSampler, Advance, RoutesChange, Unobserved, environment
  <2>3. PlaceOK'
    BY <2>1 DEF PlaceOK, SurroundingsOK, TickerFires, SeeDone, Resolve, NoSuchCounter, ReadFails,
       ReadClock, CloseSampler, Advance, RoutesChange, Unobserved, environment
  <2>4. UNCHANGED <<previous, prevCarried, current, shown>> /\ settled' \in 0..2
    <3>1. settled \in 0..2 /\ 0 \in 0..2
      BY <2>1 DEF KeptOK
    <3> QED BY <3>1 DEF TickerFires, SeeDone, Resolve, NoSuchCounter, ReadFails,
       ReadClock, CloseSampler, Advance, RoutesChange, Unobserved, environment
  <2>5. steady' \in BOOLEAN /\ closed' \in BOOLEAN
    <3>1. steady \in BOOLEAN /\ closed \in BOOLEAN
      BY Zenon, <2>1 DEF KeptOK
    <3>2. CASE TickerFires \/ SeeDone \/ CloseSampler \/ Advance
      BY Zenon, <3>1, <3>2 DEF TickerFires, SeeDone, CloseSampler, Advance, Unobserved
    <3>3. CASE Resolve \/ NoSuchCounter \/ ReadFails \/ ReadClock
      BY Zenon, <3>1, <3>3 DEF Resolve, NoSuchCounter, ReadFails, ReadClock
    <3>4. CASE \E t \in RouteTables : RoutesChange(t)
      BY Zenon, <3>1, <3>4 DEF RoutesChange, Unobserved
    <3> QED BY Zenon, <3>2, <3>3, <3>4
  <2>6. KeptOK'
    BY Zenon, <2>1, <2>4, <2>5 DEF KeptOK
  <2> QED BY <2>2, <2>3, <2>6, TypePartsNext
<1>2. UNCHANGED <<counter, carried, previous, current, prevCarried, shown>>
  BY DEF TickerFires, SeeDone, Resolve, NoSuchCounter, ReadFails,
     ReadClock, CloseSampler, Advance, RoutesChange, Unobserved, environment
<1>3. ~Sampling' \/ (Sampling /\ UNCHANGED <<iface, read, readCarried>>)
  BY DEF Sampling, TickerFires, SeeDone, Resolve, NoSuchCounter, ReadFails,
     ReadClock, CloseSampler, Advance, RoutesChange, Unobserved
<1> QED BY <1>1, <1>2, <1>3, ElsewhereKept DEF SamplerInv

LEMMA ReadKept ==
  ASSUME SamplerInv, ReadCounters
  PROVE  SamplerInv'
<1>1. SamplerTypeOK'
  BY DEF SamplerInv, SamplerTypeOK, ReadCounters, environment
<1>2. UNCHANGED <<counter, carried, previous, current, prevCarried, shown, iface>>
  BY DEF ReadCounters, environment
<1>3. iface \in Ifaces /\ read' = counter[iface] /\ readCarried' = carried[iface]
  BY DEF ReadCounters, SamplerInv, SamplerTypeOK
<1>4. PreviousInv' /\ RatesWithinTraffic'
  BY <1>2 DEF SamplerInv, PreviousInv, GainedAtMost, RatesWithinTraffic
<1>5. ReadInv'
  <2>1. \A d \in Directions : counter[iface][d] \in Nat /\ carried[iface][d] \in Nat
    BY <1>3 DEF SamplerInv, SamplerTypeOK
  <2> QED BY <1>2, <1>3, <2>1 DEF ReadInv, GainedAtMost
<1>6. BetweenInv'
  BY <1>2, <1>3 DEF SamplerInv, PreviousInv, BetweenInv, GainedAtMost
<1> QED BY <1>1, <1>4, <1>5, <1>6 DEF SamplerInv

\* A counter that goes up by what is carried, or back to zero.
LEMMA TrafficKept ==
  ASSUME SamplerInv, NEW i \in Ifaces,
         (\E d \in Directions : Carry(i, d)) \/ Replug(i)
  PROVE  SamplerInv'
<1>1. UNCHANGED <<pc, iface, read, at, previous, current, prevCarried, readCarried, shown>>
  BY DEF Carry, Replug, Unobserved
<1>2. /\ counter' \in [Ifaces -> [Directions -> Nat]]
      /\ carried' \in [Ifaces -> [Directions -> Nat]]
  <2>1. /\ counter \in [Ifaces -> [Directions -> Nat]]
        /\ carried \in [Ifaces -> [Directions -> Nat]]
        /\ NoBytes \in [Directions -> Nat]
    BY DEF SamplerInv, SamplerTypeOK, NoBytes
  <2>3. CASE \E d \in Directions : Carry(i, d)
    <3>1. PICK d \in Directions : Carry(i, d)
      BY <2>3
    <3> QED BY <2>1, <3>1 DEF Carry
  <2>4. CASE Replug(i)
    BY <2>1, <2>4 DEF Replug
  <2> QED BY <2>3, <2>4
<1>3. SamplerTypeOK'
  <2>1. SurroundingsOK /\ PlaceOK /\ KeptOK
    BY TypeParts DEF SamplerInv
  <2>2. SurroundingsOK'
    BY <1>2, <2>1 DEF SurroundingsOK, Carry, Replug, Unobserved
  <2>3. PlaceOK'
    BY <1>1, <2>1 DEF PlaceOK
  <2>4. settled' \in 0..2
    BY <2>1 DEF KeptOK, Carry, Replug, Unobserved
  <2>5. KeptOK'
    <3>1. steady \in BOOLEAN /\ closed \in BOOLEAN
      BY Zenon, <2>1 DEF KeptOK
    <3>2. steady' \in BOOLEAN /\ closed' \in BOOLEAN
      BY Zenon, <3>1 DEF Carry, Replug, Unobserved
    <3> QED BY Zenon, <1>1, <2>1, <2>4, <3>2 DEF KeptOK
  <2> QED BY <2>2, <2>3, <2>5, TypePartsNext
<1>4. ASSUME NEW j \in Ifaces, NEW b \in [Directions -> Nat], NEW c \in [Directions -> Nat],
             GainedAtMost(counter[j], b, carried[j], c)
      PROVE  GainedAtMost(counter'[j], b, carried'[j], c)
  <2> SUFFICES ASSUME NEW d \in Directions
               PROVE  /\ counter'[j][d] + c[d] <= b[d] + carried'[j][d]
                      /\ c[d] <= carried'[j][d]
    BY DEF GainedAtMost
  <2>1. /\ counter[j][d] \in Nat /\ carried[j][d] \in Nat /\ b[d] \in Nat /\ c[d] \in Nat
        /\ counter[j][d] + c[d] <= b[d] + carried[j][d] /\ c[d] <= carried[j][d]
    BY <1>4 DEF GainedAtMost, SamplerInv, SamplerTypeOK
  <2>2. \/ counter'[j][d] = counter[j][d] /\ carried'[j][d] = carried[j][d]
        \/ counter'[j][d] = counter[j][d] + 1 /\ carried'[j][d] = carried[j][d] + 1
        \/ counter'[j][d] = 0 /\ carried'[j][d] = carried[j][d]
    <3>1. /\ counter \in [Ifaces -> [Directions -> Nat]]
          /\ carried \in [Ifaces -> [Directions -> Nat]]
      BY DEF SamplerInv, SamplerTypeOK
    <3>2. CASE \E e \in Directions : Carry(i, e)
      <4>1. PICK e \in Directions : Carry(i, e)
        BY <3>2
      <4>2. /\ counter' = [counter EXCEPT ![i][e] = counter[i][e] + 1]
            /\ carried' = [carried EXCEPT ![i][e] = carried[i][e] + 1]
        BY <4>1 DEF Carry
      <4>3. CASE j = i /\ d = e
        BY <3>1, <4>2, <4>3
      <4>4. CASE ~(j = i /\ d = e)
        BY <3>1, <4>2, <4>4
      <4> QED BY <4>3, <4>4
    <3>3. CASE Replug(i)
      <4>1. counter' = [counter EXCEPT ![i] = NoBytes] /\ carried' = carried
        BY <3>3 DEF Replug
      <4> QED BY <3>1, <4>1 DEF NoBytes
    <3> QED BY <3>2, <3>3
  <2> QED BY <2>1, <2>2
<1>5. PreviousInv'
  BY <1>1, <1>4 DEF SamplerInv, SamplerTypeOK, PreviousInv, Samples
<1>6. ReadInv'
  BY <1>1, <1>4 DEF SamplerInv, SamplerTypeOK, ReadInv, Sampling
<1>7. BetweenInv' /\ RatesWithinTraffic'
  BY <1>1 DEF SamplerInv, BetweenInv, Sampling, RatesWithinTraffic, GainedAtMost
<1> QED BY <1>3, <1>5, <1>6, <1>7 DEF SamplerInv

LEMMA ClearKept ==
  ASSUME SamplerInv, Clear
  PROVE  SamplerInv'
<1>1. SamplerTypeOK'
  BY DEF SamplerInv, SamplerTypeOK, Clear, Return, Forget, environment, NoBytes, NothingShown
<1>2. PreviousInv' /\ ReadInv' /\ BetweenInv' /\ RatesWithinTraffic'
  BY DEF Clear, Return, Forget, PreviousInv, ReadInv, BetweenInv, Sampling, RatesWithinTraffic
<1> QED BY <1>1, <1>2 DEF SamplerInv

-----------------------------------------------------------------------------
\* The published rates are of the two samples, and the difference of what was carried
\* is what moved between them.
LEMMA StoreKept ==
  ASSUME SamplerInv, Store
  PROVE  SamplerInv'
<1> USE DEF SamplerInv
<1>1. /\ iface \in Ifaces /\ Sampling /\ at \in Nat
      /\ read \in [Directions -> Nat] /\ readCarried \in [Directions -> Nat]
      /\ prevCarried \in [Directions -> Nat]
  BY DEF Store, SamplerTypeOK, Sampling
<1>2. /\ previous' = [iface |-> iface, bytes |-> read, at |-> at] /\ prevCarried' = readCarried
      /\ UNCHANGED <<counter, carried>> /\ ~Sampling'
  BY DEF Store, Remember, Return, environment, Sampling
<1>3. PreviousInv'
  BY <1>1, <1>2 DEF ReadInv, PreviousInv, GainedAtMost
<1>4. ReadInv' /\ BetweenInv'
  BY <1>2 DEF ReadInv, BetweenInv
<1>5. /\ RatesWithinTraffic'
      /\ current' \in Rates \cup {None}
      /\ shown' \in [elapsed : Nat, moved : [Directions -> Nat]]
  <2>1. CASE ~Comparable
    <3>1. UNCHANGED <<current, shown>>
      BY <2>1 DEF Store
    <3> QED BY <3>1 DEF RatesWithinTraffic, SamplerTypeOK
  <2>2. CASE Comparable
    <3> DEFINE e == at - previous.at
               rate(d) == PerSecond(read[d], previous.bytes[d], e)
               moved(d) == readCarried[d] - prevCarried[d]
    <3>1. /\ previous \in Samples
          /\ previous.iface = iface
          /\ e \in Nat /\ e > 0
      BY <1>1, <2>2 DEF Comparable, Elapsed, SamplerTypeOK, Samples
    <3>2. ASSUME NEW d \in Directions
          PROVE  /\ moved(d) \in Nat /\ rate(d) \in Nat
                 /\ rate(d) * e <= SecondTicks * moved(d)
      <4>1. /\ read[d] \in Nat /\ previous.bytes[d] \in Nat
            /\ readCarried[d] \in Nat /\ prevCarried[d] \in Nat
        BY <1>1, <3>1 DEF Samples
      <4>2. /\ read[d] + prevCarried[d] <= previous.bytes[d] + readCarried[d]
            /\ prevCarried[d] <= readCarried[d]
        BY <1>1, <2>2, <3>1 DEF BetweenInv, GainedAtMost, Comparable
      <4>3. moved(d) \in Nat /\ read[d] <= previous.bytes[d] + moved(d)
        BY <4>1, <4>2
      <4> HIDE DEF moved, e
      <4> QED BY <3>1, <4>1, <4>3, RateBound
    <3>3. /\ current' = [iface |-> iface, total |-> read, rate |-> [d \in Directions |-> rate(d)]]
          /\ shown' = [elapsed |-> e, moved |-> [d \in Directions |-> moved(d)]]
      BY <2>2 DEF Store, Elapsed
    <3> HIDE DEF e, rate, moved
    <3>4. RatesWithinTraffic'
      BY <3>2, <3>3 DEF RatesWithinTraffic
    <3> QED BY <1>1, <3>1, <3>2, <3>3, <3>4 DEF Rates
  <2> QED BY <2>1, <2>2
<1>6. SamplerTypeOK'
  <2>1. settled' \in 0..2
    BY DEF Store, SamplerTypeOK
  <2>2. /\ UNCHANGED <<routes, present, counter, carried, clock, closed, steady>>
        /\ pc' = "wait" /\ read' = NoBytes /\ at' = 0 /\ readCarried' = NoBytes
    BY DEF Store, Return, environment
  <2>3. previous' \in Samples
    BY <1>1, <1>2 DEF Samples
  <2> QED BY <1>1, <1>2, <1>5, <2>1, <2>2, <2>3 DEF SamplerTypeOK, NoBytes
<1> QED BY <1>3, <1>4, <1>5, <1>6

-----------------------------------------------------------------------------
LEMMA SamplerStep == SamplerInv /\ [SamplerNext]_samplerVars => SamplerInv'
<1> SUFFICES ASSUME SamplerInv, [SamplerNext]_samplerVars PROVE SamplerInv'
  OBVIOUS
<1>1. CASE TickerFires \/ SeeDone \/ CloseSampler \/ Advance
  BY <1>1, MovesKept
<1>2. CASE Resolve \/ NoSuchCounter \/ ReadFails \/ ReadClock
  BY <1>2, MovesKept
<1>3. CASE \E t \in RouteTables : RoutesChange(t)
  BY <1>3, MovesKept
<1>4. CASE ReadCounters
  BY <1>4, ReadKept
<1>5. CASE Store
  BY <1>5, StoreKept
<1>6. CASE Clear
  BY <1>6, ClearKept
<1>7. CASE \E i \in Ifaces : (\E d \in Directions : Carry(i, d)) \/ Replug(i)
  BY <1>7, TrafficKept
<1>8. CASE UNCHANGED samplerVars
  <2>1. SamplerTypeOK'
    BY <1>8 DEF SamplerInv, SamplerTypeOK, samplerVars, environment
  <2>2. PreviousInv' /\ ReadInv' /\ BetweenInv' /\ RatesWithinTraffic'
    BY <1>8 DEF SamplerInv, samplerVars, environment, PreviousInv, ReadInv, BetweenInv,
       Sampling, GainedAtMost, RatesWithinTraffic
  <2> QED BY <2>1, <2>2 DEF SamplerInv
<1> QED BY <1>1, <1>2, <1>3, <1>4, <1>5, <1>6, <1>7, <1>8 DEF SamplerNext, Sample

\* The invariant holds of every behaviour of the sampler.
THEOREM SamplerInvariance == SamplerSpec => []SamplerInv
<1> QED BY SamplerStarts, SamplerStep, PTL DEF SamplerSpec

\* Every variable of the sampler keeps its type.
THEOREM SamplerTypeCorrect == SamplerSpec => []SamplerTypeOK
<1>1. SamplerInv => SamplerTypeOK
  BY DEF SamplerInv
<1> QED BY SamplerInvariance, <1>1, PTL

\* What is published is never more than what was carried.
THEOREM RatesAreReal == SamplerSpec => []RatesWithinTraffic
<1>1. SamplerInv => RatesWithinTraffic
  BY DEF SamplerInv
<1> QED BY SamplerInvariance, <1>1, PTL

-----------------------------------------------------------------------------
\* A set of natural numbers has a least one, and so there is induction, for a set.
LessOnNat == {pair \in Nat \X Nat : pair[1] < pair[2]}

LEMMA LeastExists ==
  ASSUME NEW S \in SUBSET Nat, S # {}
  PROVE  \E m \in S : \A k \in S : m <= k
<1>1. IsWellFoundedOn(LessOnNat, Nat)
  BY NatLessThanWellFounded DEF OpToRel, LessOnNat
<1>2. PICK m \in S : \A k \in S : ~(<<k, m>> \in LessOnNat)
  BY <1>1, WFMin
<1>3. \A k \in S : m \in Nat /\ k \in Nat /\ ~(k < m)
  BY <1>2 DEF LessOnNat
<1> QED
  BY <1>3

LEMMA NatSetInduction ==
  ASSUME NEW S, 0 \in S, \A n \in Nat : n \in S => n + 1 \in S
  PROVE  Nat \subseteq S
<1> DEFINE T == {n \in Nat : n \notin S}
<1> SUFFICES ASSUME T # {} PROVE FALSE
  OBVIOUS
<1>1. PICK x \in T : \A y \in T : x <= y
  <2>1. T \in SUBSET Nat
    OBVIOUS
  <2> HIDE DEF T
  <2> QED
    BY <2>1, LeastExists
<1>2. x # 0
  BY <1>1
<1>3. x - 1 \in Nat /\ x - 1 \notin T
  BY <1>1, <1>2
<1> QED
  BY <1>1, <1>3

-----------------------------------------------------------------------------
\* The loop's function is one, whatever the table.
LoopStep(table, b, n) == IF Usable(table[n]) THEN Better(b, table[n]) ELSE b

IsLoop(f, table, n) ==
  f = [k \in 0..n |-> IF k = 0 THEN NoneYet ELSE LoopStep(table, f[k - 1], k)]

LEMMA LoopExists ==
  ASSUME NEW table, NEW n \in Nat
  PROVE  \E f : IsLoop(f, table, n)
<1> DEFINE S == {m \in Nat : \E f : IsLoop(f, table, m)}
<1>1. 0 \in S
  <2> DEFINE f == [k \in 0..0 |-> NoneYet]
  <2>1. f = [k \in 0..0 |-> IF k = 0 THEN NoneYet ELSE LoopStep(table, f[k - 1], k)]
    OBVIOUS
  <2> QED BY <2>1 DEF IsLoop
<1>2. ASSUME NEW m \in Nat, m \in S PROVE m + 1 \in S
  <2>1. PICK f : IsLoop(f, table, m)
    BY <1>2
  <2> DEFINE g == [k \in 0..(m + 1) |-> IF k = m + 1 THEN LoopStep(table, f[m], m + 1) ELSE f[k]]
             h == [k \in 0..(m + 1) |-> IF k = 0 THEN NoneYet ELSE LoopStep(table, g[k - 1], k)]
  <2>2. ASSUME NEW k \in 0..(m + 1) PROVE g[k] = h[k]
    <3>1. CASE k = m + 1
      BY <3>1
    <3>2. CASE k = 0
      BY <3>2, <2>1 DEF IsLoop
    <3>3. CASE k \in 1..m
      <4>1. k - 1 \in 0..m /\ k - 1 # m + 1 /\ k \in 0..m /\ k # 0 /\ k # m + 1
        BY <3>3
      <4>2. g[k] = f[k] /\ g[k - 1] = f[k - 1]
        BY <4>1
      <4>3. f[k] = LoopStep(table, f[k - 1], k)
        BY <2>1, <4>1 DEF IsLoop
      <4>4. h[k] = LoopStep(table, g[k - 1], k)
        BY <4>1
      <4> QED BY <4>2, <4>3, <4>4
    <3> QED BY <3>1, <3>2, <3>3
  <2>3. g = h
    <3> HIDE DEF LoopStep
    <3>1. g = [k \in 0..(m + 1) |-> g[k]] /\ h = [k \in 0..(m + 1) |-> h[k]]
      OBVIOUS
    <3> HIDE DEF g, h
    <3> QED BY <2>2, <3>1
  <2>4. IsLoop(g, table, m + 1)
    BY <2>3 DEF IsLoop
  <2> HIDE DEF g
  <2> QED BY <2>4
<1> HIDE DEF S
<1>3. n \in S
  BY <1>1, <1>2, NatSetInduction
<1> QED BY <1>3 DEF S

LEMMA BestIsLoop ==
  ASSUME NEW table, Len(table) \in Nat
  PROVE  IsLoop(BestAfter(table), table, Len(table))
<1>1. \E f : IsLoop(f, table, Len(table))
  BY LoopExists
<1>2. BestAfter(table) = CHOOSE f : IsLoop(f, table, Len(table))
  BY DEF BestAfter, IsLoop, LoopStep
<1> QED BY <1>1, <1>2

\* What the loop holds after n lines: nothing, if none of them is a default route, or the
\* first of the best of them.
HoldsBest(b, table, n) ==
  \/ b = NoneYet /\ \A m \in 1..n : ~Usable(table[m])
  \/ \E k \in 1..n :
       /\ Usable(table[k])
       /\ b = [iface |-> table[k].iface, metric |-> Metric(table[k])]
       /\ \A m \in 1..n : Usable(table[m]) =>
            \/ Metric(table[k]) < Metric(table[m])
            \/ Metric(table[k]) = Metric(table[m]) /\ k <= m

LEMMA LineOK ==
  ASSUME NEW line \in Lines
  PROVE  Metric(line) \in Int /\ line.iface \in Ifaces /\ line.iface # None
  BY SamplerAssumption DEF Lines, Metric

LEMMA HoldsNext ==
  ASSUME NEW table \in Seq(Lines), NEW n \in Nat, n + 1 \in 1..Len(table), NEW b,
         HoldsBest(b, table, n)
  PROVE  HoldsBest(LoopStep(table, b, n + 1), table, n + 1)
<1> DEFINE line == table[n + 1]
<1>1. /\ \A m \in 1..(n + 1) : table[m] \in Lines
      /\ \A m \in 1..(n + 1) : Metric(table[m]) \in Int
      /\ \A m \in 1..(n + 1) : table[m].iface # None
      /\ \A m \in 1..(n + 1) : m \in 1..n \/ m = n + 1
  BY LineOK
<1>2. CASE ~Usable(line)
  <2>1. LoopStep(table, b, n + 1) = b
    BY <1>2 DEF LoopStep
  <2> QED BY <1>1, <1>2, <2>1 DEF HoldsBest
<1>3. CASE Usable(line) /\ b = NoneYet /\ \A m \in 1..n : ~Usable(table[m])
  <2>1. LoopStep(table, b, n + 1) = [iface |-> line.iface, metric |-> Metric(line)]
    BY <1>3 DEF LoopStep, Better, NoneYet
  <2>2. \A m \in 1..(n + 1) : Usable(table[m]) => m = n + 1
    BY <1>1, <1>3
  <2> QED BY <1>1, <1>3, <2>1, <2>2 DEF HoldsBest
<1>4. ASSUME Usable(line), NEW k \in 1..n, Usable(table[k]),
             b = [iface |-> table[k].iface, metric |-> Metric(table[k])],
             \A m \in 1..n : Usable(table[m]) =>
               \/ Metric(table[k]) < Metric(table[m])
               \/ Metric(table[k]) = Metric(table[m]) /\ k <= m
      PROVE  HoldsBest(LoopStep(table, b, n + 1), table, n + 1)
  <2>1. /\ k \in 1..(n + 1) /\ n + 1 \in 1..(n + 1) /\ k <= n + 1 /\ b.iface # None
        /\ Metric(table[k]) \in Int /\ Metric(line) \in Int
    BY <1>1, <1>4
  <2>2. CASE Metric(line) < Metric(table[k])
    <3>1. LoopStep(table, b, n + 1) = [iface |-> line.iface, metric |-> Metric(line)]
      BY <1>4, <2>2 DEF LoopStep, Better
    <3>2. \A m \in 1..n : Usable(table[m]) => Metric(line) < Metric(table[m])
      BY <1>1, <1>4, <2>1, <2>2
    <3>3. \A m \in 1..(n + 1) : Usable(table[m]) =>
            \/ Metric(line) < Metric(table[m])
            \/ Metric(line) = Metric(table[m]) /\ n + 1 <= m
      BY <1>1, <3>2
    <3> QED BY <1>4, <2>1, <3>1, <3>3 DEF HoldsBest
  <2>3. CASE ~(Metric(line) < Metric(table[k]))
    <3>1. LoopStep(table, b, n + 1) = b
      BY <1>4, <2>1, <2>3 DEF LoopStep, Better
    <3>2. \/ Metric(table[k]) < Metric(line)
          \/ Metric(table[k]) = Metric(line) /\ k <= n + 1
      BY <2>1, <2>3
    <3>3. \A m \in 1..(n + 1) : Usable(table[m]) =>
            \/ Metric(table[k]) < Metric(table[m])
            \/ Metric(table[k]) = Metric(table[m]) /\ k <= m
      BY <1>1, <1>4, <3>2
    <3> QED BY <1>4, <2>1, <3>1, <3>3 DEF HoldsBest
  <2> QED BY <2>2, <2>3
<1> QED BY <1>2, <1>3, <1>4 DEF HoldsBest

LEMMA HoldsThroughout ==
  ASSUME NEW table \in Seq(Lines), NEW n \in 0..Len(table)
  PROVE  HoldsBest(BestAfter(table)[n], table, n)
<1> DEFINE best == BestAfter(table)
           S == {m \in Nat : m \in 0..Len(table) => HoldsBest(best[m], table, m)}
<1>1. Len(table) \in Nat /\ IsLoop(best, table, Len(table))
  BY BestIsLoop
<1> HIDE DEF best
<1>2. best[0] = NoneYet
  BY <1>1 DEF IsLoop
<1>3. \A m \in Nat : m + 1 \in 0..Len(table) => best[m + 1] = LoopStep(table, best[m], m + 1)
  BY <1>1 DEF IsLoop
<1>4. 0 \in S
  BY <1>2 DEF HoldsBest
<1>5. ASSUME NEW m \in Nat, m \in S PROVE m + 1 \in S
  <2> SUFFICES ASSUME m + 1 \in 0..Len(table) PROVE HoldsBest(best[m + 1], table, m + 1)
    OBVIOUS
  <2>1. m \in 0..Len(table) /\ m + 1 \in 1..Len(table)
    BY <1>1
  <2>2. HoldsBest(best[m], table, m)
    BY <1>5, <2>1
  <2> QED BY <1>3, <2>1, <2>2, HoldsNext
<1> HIDE DEF S
<1>6. n \in S
  BY <1>4, <1>5, <1>1, NatSetInduction
<1> QED BY <1>6 DEF S, best

\* The loop finds the default interface, for every route table.
LEMMA DefaultFound ==
  ASSUME NEW table \in RouteTables
  PROVE  /\ DefaultInterface(table) \in Ifaces \cup {None}
         /\ \A i \in Ifaces : IsDefault(i, table) <=> DefaultInterface(table) = i
<1>1. table \in Seq(Lines) /\ Len(table) \in Nat /\ DOMAIN table = 1..Len(table)
  BY SamplerAssumption
<1> DEFINE n == Len(table)
           b == BestAfter(table)[n]
<1>2. HoldsBest(b, table, n)
  BY <1>1, HoldsThroughout
<1>3. DefaultInterface(table) = b.iface
  BY DEF DefaultInterface
<1> HIDE DEF b
<1>4. \A m \in 1..n : table[m] \in Lines /\ table[m].iface \in Ifaces /\ Metric(table[m]) \in Int
  BY <1>1, LineOK
<1>5. CASE b = NoneYet /\ \A m \in 1..n : ~Usable(table[m])
  <2>1. b.iface = None
    BY <1>5 DEF NoneYet
  <2> QED BY <1>1, <1>3, <1>5, <2>1, SamplerAssumption DEF IsDefault, Usable
<1>6. ASSUME NEW k \in 1..n, Usable(table[k]), b.iface = table[k].iface,
             \A m \in 1..n : Usable(table[m]) =>
               \/ Metric(table[k]) < Metric(table[m])
               \/ Metric(table[k]) = Metric(table[m]) /\ k <= m
      PROVE  /\ b.iface \in Ifaces
             /\ \A i \in Ifaces : IsDefault(i, table) <=> b.iface = i
  <2>1. IsDefault(b.iface, table)
    BY <1>1, <1>6 DEF IsDefault, Usable
  <2>2. ASSUME NEW i \in Ifaces, IsDefault(i, table) PROVE i = b.iface
    <3>1. PICK j \in 1..n :
            /\ Usable(table[j]) /\ table[j].iface = i
            /\ \A m \in 1..n : Usable(table[m]) =>
                 \/ Metric(table[j]) < Metric(table[m])
                 \/ Metric(table[j]) = Metric(table[m]) /\ j <= m
      BY <1>1, <2>2 DEF IsDefault, Usable
    <3>2. j = k
      BY <1>1, <1>4, <1>6, <3>1
    <3> QED BY <1>6, <3>1, <3>2
  <2> QED BY <1>4, <1>6, <2>1, <2>2
<1> QED BY <1>2, <1>3, <1>5, <1>6 DEF HoldsBest

-----------------------------------------------------------------------------
\* What a sample has found out while nothing but traffic changed is still so.
FreshInv ==
  steady =>
    /\ pc \in {"count", "time", "store"} => iface = DefaultInterface(routes)
    /\ pc \in {"time", "store"} => iface \in present
    /\ pc = "clear" => DefaultInterface(routes) \notin present

\* What the samples have kept since anything but traffic changed.
KeptInv ==
  settled # 0 =>
    IF DefaultInterface(routes) \in present
    THEN /\ previous # None /\ previous.iface = DefaultInterface(routes)
         /\ settled = 2 => current # None /\ current.iface = DefaultInterface(routes)
    ELSE previous = None /\ current = None

RestInv == SamplerTypeOK /\ FreshInv /\ KeptInv

LEMMA SomethingKept ==
  ASSUME SamplerTypeOK
  PROVE  \A s \in Samples \cup Rates : s # None
  BY SamplerAssumption

LEMMA RateType ==
  ASSUME NEW now \in Nat, NEW before \in Nat, NEW e \in Int, e > 0
  PROVE  PerSecond(now, before, e) \in Nat
<1>1. e \in Nat /\ now <= before + now
  OBVIOUS
<1> QED BY <1>1, RateBound

\* Steps that change neither the surroundings nor what is kept, nor count a sample.
LEMMA RestKept ==
  ASSUME RestInv, UNCHANGED <<routes, present, previous, current, settled>>
  PROVE  KeptInv'
  BY DEF RestInv, KeptInv

LEMMA RestStarts == SamplerInit => RestInv
<1> SUFFICES ASSUME SamplerInit PROVE RestInv
  OBVIOUS
<1>1. FreshInv /\ KeptInv
  BY DEF SamplerInit, FreshInv, KeptInv
<1> QED BY <1>1, SamplerStarts DEF RestInv, SamplerInv

LEMMA RestStep == SamplerInv /\ RestInv /\ [SamplerNext]_samplerVars => RestInv'
<1> SUFFICES ASSUME SamplerInv, RestInv, [SamplerNext]_samplerVars PROVE FreshInv' /\ KeptInv'
  BY SamplerStep DEF RestInv, SamplerInv
<1>0. /\ DefaultInterface(routes) \in Ifaces \cup {None} /\ present \subseteq Ifaces /\ None \notin Ifaces
      /\ pc \in {"wait", "resolve", "count", "time", "store", "clear", "ended"}
      /\ FreshInv /\ KeptInv /\ settled \in 0..2 /\ steady \in BOOLEAN
  BY DefaultFound, SamplerAssumption DEF RestInv, SamplerTypeOK
<1>1. CASE TickerFires \/ SeeDone \/ CloseSampler
  <2>1. CASE TickerFires \/ SeeDone
    BY <2>1, RestKept DEF TickerFires, SeeDone, environment, FreshInv
  <2>2. CASE CloseSampler
    BY <1>0, <2>2, RestKept DEF CloseSampler, environment, FreshInv
  <2> QED BY <1>1, <2>1, <2>2
<1>2. CASE Resolve
  BY <1>0, <1>2, RestKept DEF Resolve, environment, FreshInv
<1>3. CASE ReadCounters \/ NoSuchCounter
  BY <1>0, <1>3, RestKept DEF ReadCounters, NoSuchCounter, environment, FreshInv
<1>4. CASE ReadFails \/ ReadClock
  BY <1>0, <1>4, RestKept DEF ReadFails, ReadClock, environment, FreshInv
<1>5. CASE Store
  <2>1. /\ UNCHANGED <<routes, present, steady>> /\ pc' = "wait" /\ pc = "store"
        /\ previous' = [iface |-> iface, bytes |-> read, at |-> at]
        /\ settled' = IF ~steady THEN 0
                      ELSE IF settled = 0 THEN 1
                      ELSE IF settled = 1 /\ Elapsed > 0 THEN 2 ELSE settled
    BY <1>5 DEF Store, Return, Remember, environment
  <2>2. FreshInv'
    BY <2>1 DEF FreshInv
  <2>3. previous' # None /\ previous'.iface = iface
    <3>1. previous' \in Samples
      BY <2>1 DEF RestInv, SamplerTypeOK, Samples
    <3> QED BY <2>1, <3>1, SomethingKept DEF RestInv
  <2>4. CASE ~steady
    BY <2>1, <2>2, <2>4 DEF KeptInv
  <2>5. CASE steady
    <3>1. iface = DefaultInterface(routes) /\ iface \in present
      BY <1>0, <2>1, <2>5 DEF FreshInv
    <3>2. CASE settled = 0
      BY <2>1, <2>2, <2>3, <2>5, <3>1, <3>2 DEF KeptInv
    <3>3. CASE settled # 0
      <4>1. previous # None /\ previous.iface = iface
        BY <1>0, <3>1, <3>3 DEF KeptInv
      <4>2. CASE Elapsed > 0
        <5>1. current' = [iface |-> iface, total |-> read,
                          rate |-> [d \in Directions |->
                                      PerSecond(read[d], previous.bytes[d], Elapsed)]]
          BY <1>5, <4>1, <4>2 DEF Store, Comparable
        <5>2. current' # None
          <6>1. /\ iface \in Ifaces /\ read \in [Directions -> Nat]
                /\ previous \in Samples /\ at \in Nat
            BY <1>0, <2>1, <3>1, <4>1 DEF RestInv, SamplerTypeOK
          <6>2. \A d \in Directions : PerSecond(read[d], previous.bytes[d], Elapsed) \in Nat
            <7>1. Elapsed \in Int /\ \A d \in Directions : read[d] \in Nat /\ previous.bytes[d] \in Nat
              BY <6>1 DEF Elapsed, Samples
            <7> QED BY <4>2, <7>1, RateType
          <6>3. current' \in Rates
            BY <5>1, <6>1, <6>2 DEF Rates
          <6> QED BY <6>3, SomethingKept DEF RestInv
        <5> QED BY <2>1, <2>2, <2>3, <3>1, <5>1, <5>2 DEF KeptInv
      <4>3. CASE ~(Elapsed > 0)
        <5>1. current' = current /\ settled' = settled
          BY <1>0, <1>5, <2>1, <2>5, <3>3, <4>3 DEF Store, Comparable
        <5> QED BY <1>0, <2>1, <2>2, <2>3, <3>1, <3>3, <5>1 DEF KeptInv
      <4> QED BY <4>2, <4>3
    <3> QED BY <3>2, <3>3
  <2> QED BY <2>2, <2>4, <2>5
<1>6. CASE Clear
  <2>1. /\ UNCHANGED <<routes, present, steady>> /\ pc' = "wait" /\ pc = "clear"
        /\ previous' = None /\ current' = None
        /\ settled' = IF ~steady THEN 0 ELSE IF settled = 0 THEN 1 ELSE settled
    BY <1>6 DEF Clear, Return, Forget, environment
  <2>2. steady => DefaultInterface(routes) \notin present
    BY <1>0, <2>1 DEF FreshInv
  <2> QED BY <2>1, <2>2 DEF FreshInv, KeptInv
<1>7. CASE Advance \/ \E i \in Ifaces, d \in Directions : Carry(i, d)
  <2>1. UNCHANGED <<routes, present, previous, current, settled, steady, pc, iface>>
    BY <1>7 DEF Advance, Carry, Unobserved
  <2> QED BY <1>0, <2>1, RestKept DEF FreshInv
<1>8. CASE (\E t \in RouteTables : RoutesChange(t)) \/ (\E i \in Ifaces : Replug(i))
  <2>1. settled' = 0 /\ steady' = FALSE
    BY <1>8 DEF RoutesChange, Replug
  <2> QED BY <2>1 DEF FreshInv, KeptInv
<1>9. CASE UNCHANGED samplerVars
  BY <1>0, <1>9, RestKept DEF samplerVars, environment, FreshInv
<1> QED BY <1>1, <1>2, <1>3, <1>4, <1>5, <1>6, <1>7, <1>8, <1>9 DEF SamplerNext, Sample

\* Two samples after the routes and the interfaces came to rest, the rates are those of
\* the default interface, for every route table; one sample after, there are none if
\* there is no such interface.
THEOREM RestIsShown == SamplerSpec => []SettledIsShown
<1>1. RestInv => SettledIsShown
  <2> SUFFICES ASSUME RestInv PROVE SettledIsShown
    OBVIOUS
  <2>1. /\ \A i \in Ifaces : IsDefault(i, routes) <=> DefaultInterface(routes) = i
        /\ present \subseteq Ifaces /\ KeptInv
    BY DefaultFound DEF RestInv, SamplerTypeOK
  <2> QED BY <2>1 DEF KeptInv, SettledIsShown
<1>2. SamplerInv /\ RestInv /\ [SamplerNext]_samplerVars => (SamplerInv /\ RestInv)'
  BY SamplerStep, RestStep
<1> QED BY <1>1, <1>2, SamplerStarts, RestStarts, PTL DEF SamplerSpec

-----------------------------------------------------------------------------
\* The statistics that only read.
RequestRecord ==
  [pc : {"idle", "check", "now", "uptime", "manager", "names", "read", "done"},
   in : Queries \cup {CHOOSE q \in Queries : TRUE},
   met : CoreInstances \cup {NoCore}, now : Nat,
   todo : SUBSET Users, names : SUBSET (Users \cup {q.user : q \in Queries}),
   got : SUBSET Connections, uptime : Nat, since : Nat,
   seen : SUBSET Connections, throughout : SUBSET Connections, alone : BOOLEAN]

ReadsTypeOK ==
  /\ core \in CoreInstances \cup {NoCore} /\ startedAt \in Nat
  /\ retired \in SUBSET CoreInstances
  /\ online \in [CoreInstances -> SUBSET Connections]
  /\ time \in Nat
  /\ query \in RequestRecord

Asked == query.pc # "idle"
Reading == query.pc \in {"names", "read"}

\* Who is served was put on record: an instance is published once, and serves nobody
\* before.
SeenInv ==
  /\ core # NoCore => core \in retired
  /\ \A i \in CoreInstances \ retired : online[i] = {}
  /\ Asked => Served \subseteq query.seen /\ query.in \in Queries
  /\ query.pc \in {"now", "uptime"} => query.in.kind = "system"
  /\ Reading => query.met \in CoreInstances /\ online[query.met] \subseteq query.seen
  /\ query.got \subseteq query.seen

\* A request that meets no start and no stop reads the core that served those who were
\* connected throughout, and they are on its list or still to be looked at.
ThroughoutInv ==
  Asked /\ query.alone =>
    /\ query.throughout \subseteq Served
    /\ Reading => query.met = core
    /\ query.pc = "names" =>
         /\ query.in.kind = "users"
         /\ \A c \in query.throughout : c[1] \in query.todo \cup query.names
    /\ query.pc = "read" =>
         \A c \in query.throughout :
           query.in.kind = "users" \/ c[1] = query.in.user => c[1] \in query.names \/ c \in query.got

\* The clock does not go back.
UptimeInv ==
  /\ startedAt <= time /\ query.now <= time
  /\ query.uptime # 0 => query.since + query.uptime <= time

ReadsInv == ReadsTypeOK /\ SeenInv /\ ThroughoutInv /\ UptimeInv /\ ReadsAreTrue

\* What a request has in its fields may be read off its record.
LEMMA RequestFields ==
  ASSUME ReadsTypeOK
  PROVE  /\ query.pc \in {"idle", "check", "now", "uptime", "manager", "names", "read", "done"}
         /\ query.met \in CoreInstances \cup {NoCore} /\ query.now \in Nat
         /\ query.todo \in SUBSET Users /\ query.got \in SUBSET Connections
         /\ query.names \in SUBSET (Users \cup {q.user : q \in Queries})
         /\ query.uptime \in Nat /\ query.since \in Nat
         /\ query.seen \in SUBSET Connections /\ query.throughout \in SUBSET Connections
         /\ query.alone \in BOOLEAN
  BY DEF ReadsTypeOK, RequestRecord

LEMMA NoRequest ==
  NoQuery \in RequestRecord
  BY DEF NoQuery, RequestRecord

LEMMA Connects == \A c \in Connections : c[1] \in Users
  BY ReadsAssumption

LEMMA ServedType == ReadsTypeOK => Served \in SUBSET Connections
  BY DEF ReadsTypeOK, Served

LEMMA UptimeIs ==
  ASSUME ReadsTypeOK, UptimeInv, NEW now \in Nat, now <= time
  PROVE  Uptime(now) \in Nat /\ (Uptime(now) # 0 => startedAt + Uptime(now) <= time)
<1>1. startedAt \in Nat /\ time \in Nat /\ MaxUptime \in Nat
  BY ReadsAssumption DEF ReadsTypeOK
<1> QED BY <1>1 DEF Uptime

LEMMA ReadsStart == ReadsInit => ReadsInv
<1> SUFFICES ASSUME ReadsInit PROVE ReadsInv
  OBVIOUS
<1>1. ReadsTypeOK
  BY NoRequest DEF ReadsInit, ReadsTypeOK
<1>2. query.pc = "idle" /\ query.got = {} /\ query.now = 0 /\ query.uptime = 0
  BY DEF ReadsInit, NoQuery
<1>3. SeenInv
  BY <1>2 DEF ReadsInit, SeenInv, Asked, Reading
<1>4. ThroughoutInv
  BY <1>2 DEF ThroughoutInv, Asked
<1>5. UptimeInv
  BY <1>2 DEF ReadsInit, UptimeInv
<1>6. ReadsAreTrue
  BY <1>2 DEF ReadsAreTrue, ListsAreTrue, UptimeIsReal, Answered
<1> QED BY <1>1, <1>3, <1>4, <1>5, <1>6 DEF ReadsInv

LEMMA PublishCoreKeeps ==
  ASSUME ReadsInv, NEW i \in CoreInstances, PublishCore(i)
  PROVE  ReadsInv'
<1>1. /\ ReadsTypeOK /\ SeenInv /\ ThroughoutInv /\ UptimeInv /\ ReadsAreTrue
  BY DEF ReadsInv
<1>2. /\ query'.alone = FALSE
      /\ query'.pc = query.pc /\ query'.in = query.in /\ query'.met = query.met /\ query'.now = query.now /\ query'.todo = query.todo /\ query'.names = query.names /\ query'.got = query.got /\ query'.uptime = query.uptime /\ query'.since = query.since /\ query'.seen = query.seen /\ query'.throughout = query.throughout
  BY <1>1 DEF PublishCore, ReadsTypeOK, RequestRecord, Step
<1>3. ReadsTypeOK'
  BY <1>1, <1>2, UptimeIs, Connects DEF PublishCore, ReadsTypeOK, RequestRecord, Step, UptimeInv, Of
<1>4. SeenInv'
  BY <1>1, <1>2, RequestFields, ServedType DEF PublishCore, Step, ReadsTypeOK, SeenInv, Served, Asked, Reading, Of
<1>5. ThroughoutInv'
  BY <1>1, <1>2, RequestFields, ServedType, Connects DEF PublishCore, Step, ReadsTypeOK, ThroughoutInv, SeenInv, Served, Asked, Reading, Of
<1>6. UptimeInv'
  BY <1>1, <1>2, RequestFields, UptimeIs DEF PublishCore, Step, ReadsTypeOK, UptimeInv
<1>7. ReadsAreTrue'
  BY <1>1, <1>2, RequestFields DEF PublishCore, Step, ReadsAreTrue, ListsAreTrue, UptimeIsReal, Answered, ThroughoutInv, SeenInv, UptimeInv, Asked, Reading, Served, Of
<1> QED BY <1>3, <1>4, <1>5, <1>6, <1>7 DEF ReadsInv

LEMMA TakeCoreKeeps ==
  ASSUME ReadsInv, TakeCore
  PROVE  ReadsInv'
<1>1. /\ ReadsTypeOK /\ SeenInv /\ ThroughoutInv /\ UptimeInv /\ ReadsAreTrue
  BY DEF ReadsInv
<1>2. /\ query'.alone = FALSE
      /\ query'.pc = query.pc /\ query'.in = query.in /\ query'.met = query.met /\ query'.now = query.now /\ query'.todo = query.todo /\ query'.names = query.names /\ query'.got = query.got /\ query'.uptime = query.uptime /\ query'.since = query.since /\ query'.seen = query.seen /\ query'.throughout = query.throughout
  BY <1>1 DEF TakeCore, ReadsTypeOK, RequestRecord, Step
<1>3. ReadsTypeOK'
  BY <1>1, <1>2, UptimeIs, Connects DEF TakeCore, ReadsTypeOK, RequestRecord, Step, UptimeInv, Of
<1>4. SeenInv'
  BY <1>1, <1>2, RequestFields, ServedType DEF TakeCore, Step, ReadsTypeOK, SeenInv, Served, Asked, Reading, Of
<1>5. ThroughoutInv'
  BY <1>1, <1>2, RequestFields, ServedType, Connects DEF TakeCore, Step, ReadsTypeOK, ThroughoutInv, SeenInv, Served, Asked, Reading, Of
<1>6. UptimeInv'
  BY <1>1, <1>2, RequestFields, UptimeIs DEF TakeCore, Step, ReadsTypeOK, UptimeInv
<1>7. ReadsAreTrue'
  BY <1>1, <1>2, RequestFields DEF TakeCore, Step, ReadsAreTrue, ListsAreTrue, UptimeIsReal, Answered, ThroughoutInv, SeenInv, UptimeInv, Asked, Reading, Served, Of
<1> QED BY <1>3, <1>4, <1>5, <1>6, <1>7 DEF ReadsInv

LEMMA ConnectUserKeeps ==
  ASSUME ReadsInv, NEW c \in Connections, ConnectUser(c)
  PROVE  ReadsInv'
<1>1. /\ ReadsTypeOK /\ SeenInv /\ ThroughoutInv /\ UptimeInv /\ ReadsAreTrue
  BY DEF ReadsInv
<1>2. /\ query'.seen = query.seen \cup {c}
      /\ query'.pc = query.pc /\ query'.in = query.in /\ query'.met = query.met /\ query'.now = query.now /\ query'.todo = query.todo /\ query'.names = query.names /\ query'.got = query.got /\ query'.uptime = query.uptime /\ query'.since = query.since /\ query'.throughout = query.throughout /\ query'.alone = query.alone
  BY <1>1 DEF ConnectUser, ReadsTypeOK, RequestRecord, Step
<1>3. ReadsTypeOK'
  BY <1>1, <1>2, UptimeIs, Connects DEF ConnectUser, ReadsTypeOK, RequestRecord, Step, UptimeInv, Of
<1>4. SeenInv'
  BY <1>1, <1>2, RequestFields, ServedType DEF ConnectUser, Step, ReadsTypeOK, SeenInv, Served, Asked, Reading, Of
<1>5. ThroughoutInv'
  BY <1>1, <1>2, RequestFields, ServedType, Connects DEF ConnectUser, Step, ReadsTypeOK, ThroughoutInv, SeenInv, Served, Asked, Reading, Of
<1>6. UptimeInv'
  BY <1>1, <1>2, RequestFields, UptimeIs DEF ConnectUser, Step, ReadsTypeOK, UptimeInv
<1>7. ReadsAreTrue'
  BY <1>1, <1>2, RequestFields DEF ConnectUser, Step, ReadsAreTrue, ListsAreTrue, UptimeIsReal, Answered, ThroughoutInv, SeenInv, UptimeInv, Asked, Reading, Served, Of
<1> QED BY <1>3, <1>4, <1>5, <1>6, <1>7 DEF ReadsInv

LEMMA LeaveUserKeeps ==
  ASSUME ReadsInv, NEW i \in CoreInstances, NEW c \in Connections, LeaveUser(i, c)
  PROVE  ReadsInv'
<1>1. /\ ReadsTypeOK /\ SeenInv /\ ThroughoutInv /\ UptimeInv /\ ReadsAreTrue
  BY DEF ReadsInv
<1>2. /\ query'.throughout = (IF i = core THEN query.throughout \ {c} ELSE query.throughout)
      /\ query'.pc = query.pc /\ query'.in = query.in /\ query'.met = query.met /\ query'.now = query.now /\ query'.todo = query.todo /\ query'.names = query.names /\ query'.got = query.got /\ query'.uptime = query.uptime /\ query'.since = query.since /\ query'.seen = query.seen /\ query'.alone = query.alone
  BY <1>1 DEF LeaveUser, ReadsTypeOK, RequestRecord, Step
<1>3. ReadsTypeOK'
  BY <1>1, <1>2, UptimeIs, Connects DEF LeaveUser, ReadsTypeOK, RequestRecord, Step, UptimeInv, Of
<1>4. SeenInv'
  BY <1>1, <1>2, RequestFields, ServedType DEF LeaveUser, Step, ReadsTypeOK, SeenInv, Served, Asked, Reading, Of
<1>5. ThroughoutInv'
  BY <1>1, <1>2, RequestFields, ServedType, Connects DEF LeaveUser, Step, ReadsTypeOK, ThroughoutInv, SeenInv, Served, Asked, Reading, Of
<1>6. UptimeInv'
  BY <1>1, <1>2, RequestFields, UptimeIs DEF LeaveUser, Step, ReadsTypeOK, UptimeInv
<1>7. ReadsAreTrue'
  BY <1>1, <1>2, RequestFields DEF LeaveUser, Step, ReadsAreTrue, ListsAreTrue, UptimeIsReal, Answered, ThroughoutInv, SeenInv, UptimeInv, Asked, Reading, Served, Of
<1> QED BY <1>3, <1>4, <1>5, <1>6, <1>7 DEF ReadsInv

LEMMA CheckCoreKeeps ==
  ASSUME ReadsInv, CheckCore
  PROVE  ReadsInv'
<1>1. /\ ReadsTypeOK /\ SeenInv /\ ThroughoutInv /\ UptimeInv /\ ReadsAreTrue
  BY DEF ReadsInv
<1>2. /\ query'.pc = (IF core = NoCore THEN "done" ELSE IF query.in.kind = "system" THEN "now" ELSE "manager")
      /\ query'.in = query.in /\ query'.met = query.met /\ query'.now = query.now /\ query'.todo = query.todo /\ query'.names = query.names /\ query'.got = query.got /\ query'.uptime = query.uptime /\ query'.since = query.since /\ query'.seen = query.seen /\ query'.throughout = query.throughout /\ query'.alone = query.alone
  BY <1>1 DEF CheckCore, ReadsTypeOK, RequestRecord, Step
<1>3. ReadsTypeOK'
  BY <1>1, <1>2, UptimeIs, Connects DEF CheckCore, ReadsTypeOK, RequestRecord, Step, UptimeInv, Of
<1>4. SeenInv'
  BY <1>1, <1>2, RequestFields, ServedType DEF CheckCore, Step, ReadsTypeOK, SeenInv, Served, Asked, Reading, Of
<1>5. ThroughoutInv'
  BY <1>1, <1>2, RequestFields, ServedType, Connects DEF CheckCore, Step, ReadsTypeOK, ThroughoutInv, SeenInv, Served, Asked, Reading, Of
<1>6. UptimeInv'
  BY <1>1, <1>2, RequestFields, UptimeIs DEF CheckCore, Step, ReadsTypeOK, UptimeInv
<1>7. ReadsAreTrue'
  BY <1>1, <1>2, RequestFields DEF CheckCore, Step, ReadsAreTrue, ListsAreTrue, UptimeIsReal, Answered, ThroughoutInv, SeenInv, UptimeInv, Asked, Reading, Served, Of
<1> QED BY <1>3, <1>4, <1>5, <1>6, <1>7 DEF ReadsInv

LEMMA ReadNowKeeps ==
  ASSUME ReadsInv, ReadNow
  PROVE  ReadsInv'
<1>1. /\ ReadsTypeOK /\ SeenInv /\ ThroughoutInv /\ UptimeInv /\ ReadsAreTrue
  BY DEF ReadsInv
<1>2. /\ query'.pc = "uptime"
      /\ query'.now = time
      /\ query'.in = query.in /\ query'.met = query.met /\ query'.todo = query.todo /\ query'.names = query.names /\ query'.got = query.got /\ query'.uptime = query.uptime /\ query'.since = query.since /\ query'.seen = query.seen /\ query'.throughout = query.throughout /\ query'.alone = query.alone
  BY <1>1 DEF ReadNow, ReadsTypeOK, RequestRecord, Step
<1>3. ReadsTypeOK'
  BY <1>1, <1>2, UptimeIs, Connects DEF ReadNow, ReadsTypeOK, RequestRecord, Step, UptimeInv, Of
<1>4. SeenInv'
  BY <1>1, <1>2, RequestFields, ServedType DEF ReadNow, Step, ReadsTypeOK, SeenInv, Served, Asked, Reading, Of
<1>5. ThroughoutInv'
  BY <1>1, <1>2, RequestFields, ServedType, Connects DEF ReadNow, Step, ReadsTypeOK, ThroughoutInv, SeenInv, Served, Asked, Reading, Of
<1>6. UptimeInv'
  BY <1>1, <1>2, RequestFields, UptimeIs DEF ReadNow, Step, ReadsTypeOK, UptimeInv
<1>7. ReadsAreTrue'
  BY <1>1, <1>2, RequestFields DEF ReadNow, Step, ReadsAreTrue, ListsAreTrue, UptimeIsReal, Answered, ThroughoutInv, SeenInv, UptimeInv, Asked, Reading, Served, Of
<1> QED BY <1>3, <1>4, <1>5, <1>6, <1>7 DEF ReadsInv

LEMMA ReadUptimeKeeps ==
  ASSUME ReadsInv, ReadUptime
  PROVE  ReadsInv'
<1>1. /\ ReadsTypeOK /\ SeenInv /\ ThroughoutInv /\ UptimeInv /\ ReadsAreTrue
  BY DEF ReadsInv
<1>2. /\ query'.pc = "done"
      /\ query'.uptime = Uptime(query.now)
      /\ query'.since = startedAt
      /\ query'.in = query.in /\ query'.met = query.met /\ query'.now = query.now /\ query'.todo = query.todo /\ query'.names = query.names /\ query'.got = query.got /\ query'.seen = query.seen /\ query'.throughout = query.throughout /\ query'.alone = query.alone
  BY <1>1 DEF ReadUptime, ReadsTypeOK, RequestRecord, Step
<1>3. ReadsTypeOK'
  BY <1>1, <1>2, UptimeIs, Connects DEF ReadUptime, ReadsTypeOK, RequestRecord, Step, UptimeInv, Of
<1>4. SeenInv'
  BY <1>1, <1>2, RequestFields, ServedType DEF ReadUptime, Step, ReadsTypeOK, SeenInv, Served, Asked, Reading, Of
<1>5. ThroughoutInv'
  BY <1>1, <1>2, RequestFields, ServedType, Connects DEF ReadUptime, Step, ReadsTypeOK, ThroughoutInv, SeenInv, Served, Asked, Reading, Of
<1>6. UptimeInv'
  BY <1>1, <1>2, RequestFields, UptimeIs DEF ReadUptime, Step, ReadsTypeOK, UptimeInv
<1>7. ReadsAreTrue'
  <2>1. query.pc = "uptime"
    BY DEF ReadUptime
  <2>2. ListsAreTrue'
    <3>1. /\ query.got \subseteq query.seen
          /\ query.alone => query.throughout \subseteq Served
      BY <1>1, <2>1 DEF SeenInv, ThroughoutInv, Asked
    <3>2. query.in.kind = "system"
      BY <1>1, <2>1 DEF SeenInv
    <3> QED BY <1>2, <3>1, <3>2 DEF ListsAreTrue
  <2>3. UptimeIsReal'
    BY <1>6 DEF UptimeInv, UptimeIsReal
  <2> QED BY <2>2, <2>3 DEF ReadsAreTrue
<1> QED BY <1>3, <1>4, <1>5, <1>6, <1>7 DEF ReadsInv

LEMMA LookUpManagerKeeps ==
  ASSUME ReadsInv, LookUpManager
  PROVE  ReadsInv'
<1>1. /\ ReadsTypeOK /\ SeenInv /\ ThroughoutInv /\ UptimeInv /\ ReadsAreTrue
  BY DEF ReadsInv
<1>2. /\ query'.pc = (IF query.in.kind = "users" THEN "names" ELSE "read")
      /\ query'.met = core
      /\ query'.todo = (IF query.in.kind = "users" THEN Users ELSE {})
      /\ query'.names = (IF query.in.kind = "users" THEN {} ELSE {query.in.user})
      /\ query'.in = query.in /\ query'.now = query.now /\ query'.got = query.got /\ query'.uptime = query.uptime /\ query'.since = query.since /\ query'.seen = query.seen /\ query'.throughout = query.throughout /\ query'.alone = query.alone
  BY <1>1 DEF LookUpManager, ReadsTypeOK, RequestRecord, Step
<1>3. ReadsTypeOK'
  <2>1. query.in \in Queries /\ core \in CoreInstances
    BY <1>1 DEF LookUpManager, SeenInv, Asked, ReadsTypeOK
  <2>2. UNCHANGED <<core, startedAt, retired, online, time>>
    BY DEF LookUpManager, Step
  <2>3. query' \in RequestRecord
    <3>1. query'.names \in SUBSET (Users \cup {q.user : q \in Queries})
      BY <1>2, <2>1
    <3>2. query' = [query EXCEPT !.pc = query'.pc, !.met = query'.met, !.todo = query'.todo,
                                 !.names = query'.names]
      BY <1>1 DEF LookUpManager, Step, ReadsTypeOK, RequestRecord
    <3> QED BY <1>1, <1>2, <2>1, <3>1, <3>2 DEF ReadsTypeOK, RequestRecord
  <2> QED BY <1>1, <2>2, <2>3 DEF ReadsTypeOK
<1>4. SeenInv'
  BY <1>1, <1>2, RequestFields, ServedType DEF LookUpManager, Step, ReadsTypeOK, SeenInv, Served, Asked, Reading, Of
<1>5. ThroughoutInv'
  BY <1>1, <1>2, RequestFields, ServedType, Connects DEF LookUpManager, Step, ReadsTypeOK, ThroughoutInv, SeenInv, Served, Asked, Reading, Of
<1>6. UptimeInv'
  BY <1>1, <1>2, RequestFields, UptimeIs DEF LookUpManager, Step, ReadsTypeOK, UptimeInv
<1>7. ReadsAreTrue'
  BY <1>1, <1>2, RequestFields DEF LookUpManager, Step, ReadsAreTrue, ListsAreTrue, UptimeIsReal, Answered, ThroughoutInv, SeenInv, UptimeInv, Asked, Reading, Served, Of
<1> QED BY <1>3, <1>4, <1>5, <1>6, <1>7 DEF ReadsInv

LEMMA ManagerIsGoneKeeps ==
  ASSUME ReadsInv, ManagerIsGone
  PROVE  ReadsInv'
<1>1. /\ ReadsTypeOK /\ SeenInv /\ ThroughoutInv /\ UptimeInv /\ ReadsAreTrue
  BY DEF ReadsInv
<1>2. /\ query'.pc = "done"
      /\ query'.in = query.in /\ query'.met = query.met /\ query'.now = query.now /\ query'.todo = query.todo /\ query'.names = query.names /\ query'.got = query.got /\ query'.uptime = query.uptime /\ query'.since = query.since /\ query'.seen = query.seen /\ query'.throughout = query.throughout /\ query'.alone = query.alone
  BY <1>1 DEF ManagerIsGone, ReadsTypeOK, RequestRecord, Step
<1>3. ReadsTypeOK'
  BY <1>1, <1>2, UptimeIs, Connects DEF ManagerIsGone, ReadsTypeOK, RequestRecord, Step, UptimeInv, Of
<1>4. SeenInv'
  BY <1>1, <1>2, RequestFields, ServedType DEF ManagerIsGone, Step, ReadsTypeOK, SeenInv, Served, Asked, Reading, Of
<1>5. ThroughoutInv'
  BY <1>1, <1>2, RequestFields, ServedType, Connects DEF ManagerIsGone, Step, ReadsTypeOK, ThroughoutInv, SeenInv, Served, Asked, Reading, Of
<1>6. UptimeInv'
  BY <1>1, <1>2, RequestFields, UptimeIs DEF ManagerIsGone, Step, ReadsTypeOK, UptimeInv
<1>7. ReadsAreTrue'
  BY <1>1, <1>2, RequestFields DEF ManagerIsGone, Step, ReadsAreTrue, ListsAreTrue, UptimeIsReal, Answered, ThroughoutInv, SeenInv, UptimeInv, Asked, Reading, Served, Of
<1> QED BY <1>3, <1>4, <1>5, <1>6, <1>7 DEF ReadsInv

LEMMA NameUserKeeps ==
  ASSUME ReadsInv, NEW u \in Users, NameUser(u)
  PROVE  ReadsInv'
<1>1. /\ ReadsTypeOK /\ SeenInv /\ ThroughoutInv /\ UptimeInv /\ ReadsAreTrue
  BY DEF ReadsInv
<1>2. /\ query'.todo = query.todo \ {u}
      /\ query'.names = (IF Of(u, online[query.met]) # {} THEN query.names \cup {u} ELSE query.names)
      /\ query'.pc = query.pc /\ query'.in = query.in /\ query'.met = query.met /\ query'.now = query.now /\ query'.got = query.got /\ query'.uptime = query.uptime /\ query'.since = query.since /\ query'.seen = query.seen /\ query'.throughout = query.throughout /\ query'.alone = query.alone
  BY <1>1 DEF NameUser, ReadsTypeOK, RequestRecord, Step
<1>3. ReadsTypeOK'
  BY <1>1, <1>2, UptimeIs, Connects DEF NameUser, ReadsTypeOK, RequestRecord, Step, UptimeInv, Of
<1>4. SeenInv'
  BY <1>1, <1>2, RequestFields, ServedType DEF NameUser, Step, ReadsTypeOK, SeenInv, Served, Asked, Reading, Of
<1>5. ThroughoutInv'
  BY <1>1, <1>2, RequestFields, ServedType, Connects DEF NameUser, Step, ReadsTypeOK, ThroughoutInv, SeenInv, Served, Asked, Reading, Of
<1>6. UptimeInv'
  BY <1>1, <1>2, RequestFields, UptimeIs DEF NameUser, Step, ReadsTypeOK, UptimeInv
<1>7. ReadsAreTrue'
  BY <1>1, <1>2, RequestFields DEF NameUser, Step, ReadsAreTrue, ListsAreTrue, UptimeIsReal, Answered, ThroughoutInv, SeenInv, UptimeInv, Asked, Reading, Served, Of
<1> QED BY <1>3, <1>4, <1>5, <1>6, <1>7 DEF ReadsInv

LEMMA ReadUserKeeps ==
  ASSUME ReadsInv, NEW u \in Users, ReadUser(u)
  PROVE  ReadsInv'
<1>1. /\ ReadsTypeOK /\ SeenInv /\ ThroughoutInv /\ UptimeInv /\ ReadsAreTrue
  BY DEF ReadsInv
<1>2. /\ query'.names = query.names \ {u}
      /\ query'.got = query.got \cup Of(u, online[query.met])
      /\ query'.pc = query.pc /\ query'.in = query.in /\ query'.met = query.met /\ query'.now = query.now /\ query'.todo = query.todo /\ query'.uptime = query.uptime /\ query'.since = query.since /\ query'.seen = query.seen /\ query'.throughout = query.throughout /\ query'.alone = query.alone
  BY <1>1 DEF ReadUser, ReadsTypeOK, RequestRecord, Step
<1>3. ReadsTypeOK'
  <2>1. query' = [query EXCEPT !.names = query'.names, !.got = query'.got]
    BY <1>2 DEF ReadUser, Step
  <2>2. Of(u, online[query.met]) \in SUBSET Connections
    BY <1>1 DEF ReadUser, SeenInv, Reading, ReadsTypeOK, Of
  <2>3. /\ query'.got \in SUBSET Connections
        /\ query'.names \in SUBSET (Users \cup {q.user : q \in Queries})
    BY <1>1, <1>2, <2>2, RequestFields
  <2>4. query' \in RequestRecord
    BY <1>1, <2>1, <2>3 DEF ReadsTypeOK, RequestRecord
  <2> QED BY <1>1, <2>4 DEF ReadUser, Step, ReadsTypeOK
<1>4. SeenInv'
  BY <1>1, <1>2, RequestFields, ServedType DEF ReadUser, Step, ReadsTypeOK, SeenInv, Served, Asked, Reading, Of
<1>5. ThroughoutInv'
  BY <1>1, <1>2, RequestFields, ServedType, Connects DEF ReadUser, Step, ReadsTypeOK, ThroughoutInv, SeenInv, Served, Asked, Reading, Of
<1>6. UptimeInv'
  BY <1>1, <1>2, RequestFields, UptimeIs DEF ReadUser, Step, ReadsTypeOK, UptimeInv
<1>7. ReadsAreTrue'
  BY <1>1, <1>2, RequestFields DEF ReadUser, Step, ReadsAreTrue, ListsAreTrue, UptimeIsReal, Answered, ThroughoutInv, SeenInv, UptimeInv, Asked, Reading, Served, Of
<1> QED BY <1>3, <1>4, <1>5, <1>6, <1>7 DEF ReadsInv

LEMMA AllNamedKeeps ==
  ASSUME ReadsInv, AllNamed
  PROVE  ReadsInv'
<1>1. /\ ReadsTypeOK /\ SeenInv /\ ThroughoutInv /\ UptimeInv /\ ReadsAreTrue
  BY DEF ReadsInv
<1>2. /\ query'.pc = "read"
      /\ query'.in = query.in /\ query'.met = query.met /\ query'.now = query.now /\ query'.todo = query.todo /\ query'.names = query.names /\ query'.got = query.got /\ query'.uptime = query.uptime /\ query'.since = query.since /\ query'.seen = query.seen /\ query'.throughout = query.throughout /\ query'.alone = query.alone
  BY <1>1 DEF AllNamed, ReadsTypeOK, RequestRecord, Step
<1>3. ReadsTypeOK'
  BY <1>1, <1>2, UptimeIs, Connects DEF AllNamed, ReadsTypeOK, RequestRecord, Step, UptimeInv, Of
<1>4. SeenInv'
  BY <1>1, <1>2, RequestFields, ServedType DEF AllNamed, Step, ReadsTypeOK, SeenInv, Served, Asked, Reading, Of
<1>5. ThroughoutInv'
  BY <1>1, <1>2, RequestFields, ServedType, Connects DEF AllNamed, Step, ReadsTypeOK, ThroughoutInv, SeenInv, Served, Asked, Reading, Of
<1>6. UptimeInv'
  BY <1>1, <1>2, RequestFields, UptimeIs DEF AllNamed, Step, ReadsTypeOK, UptimeInv
<1>7. ReadsAreTrue'
  BY <1>1, <1>2, RequestFields DEF AllNamed, Step, ReadsAreTrue, ListsAreTrue, UptimeIsReal, Answered, ThroughoutInv, SeenInv, UptimeInv, Asked, Reading, Served, Of
<1> QED BY <1>3, <1>4, <1>5, <1>6, <1>7 DEF ReadsInv

LEMMA AllReadKeeps ==
  ASSUME ReadsInv, AllRead
  PROVE  ReadsInv'
<1>1. /\ ReadsTypeOK /\ SeenInv /\ ThroughoutInv /\ UptimeInv /\ ReadsAreTrue
  BY DEF ReadsInv
<1>2. /\ query'.pc = "done"
      /\ query'.in = query.in /\ query'.met = query.met /\ query'.now = query.now /\ query'.todo = query.todo /\ query'.names = query.names /\ query'.got = query.got /\ query'.uptime = query.uptime /\ query'.since = query.since /\ query'.seen = query.seen /\ query'.throughout = query.throughout /\ query'.alone = query.alone
  BY <1>1 DEF AllRead, ReadsTypeOK, RequestRecord, Step
<1>3. ReadsTypeOK'
  BY <1>1, <1>2, UptimeIs, Connects DEF AllRead, ReadsTypeOK, RequestRecord, Step, UptimeInv, Of
<1>4. SeenInv'
  BY <1>1, <1>2, RequestFields, ServedType DEF AllRead, Step, ReadsTypeOK, SeenInv, Served, Asked, Reading, Of
<1>5. ThroughoutInv'
  BY <1>1, <1>2, RequestFields, ServedType, Connects DEF AllRead, Step, ReadsTypeOK, ThroughoutInv, SeenInv, Served, Asked, Reading, Of
<1>6. UptimeInv'
  BY <1>1, <1>2, RequestFields, UptimeIs DEF AllRead, Step, ReadsTypeOK, UptimeInv
<1>7. ReadsAreTrue'
  BY <1>1, <1>2, RequestFields DEF AllRead, Step, ReadsAreTrue, ListsAreTrue, UptimeIsReal, Answered, ThroughoutInv, SeenInv, UptimeInv, Asked, Reading, Served, Of
<1> QED BY <1>3, <1>4, <1>5, <1>6, <1>7 DEF ReadsInv

LEMMA TimePassesKeeps ==
  ASSUME ReadsInv, TimePasses
  PROVE  ReadsInv'
<1>1. /\ ReadsTypeOK /\ SeenInv /\ ThroughoutInv /\ UptimeInv /\ ReadsAreTrue
  BY DEF ReadsInv
<1>2. UNCHANGED <<core, startedAt, retired, online, query>> /\ time' = time + 1
  BY DEF TimePasses
<1>3. ReadsTypeOK'
  BY <1>1, <1>2 DEF ReadsTypeOK
<1>4. SeenInv' /\ ThroughoutInv'
  BY <1>1, <1>2 DEF SeenInv, ThroughoutInv, Served, Asked, Reading
<1>5. UptimeInv'
  BY <1>1, <1>2, RequestFields DEF UptimeInv, ReadsTypeOK
<1>6. ListsAreTrue'
  BY <1>1, <1>2 DEF ReadsAreTrue, ListsAreTrue, Answered
<1> QED BY <1>3, <1>4, <1>5, <1>6 DEF ReadsInv, ReadsAreTrue, UptimeIsReal, UptimeInv

\* A request begins with nothing but who is served.
LEMMA AskKeeps ==
  ASSUME ReadsInv, NEW in \in Queries, Ask(in)
  PROVE  ReadsInv'
<1>1. /\ ReadsTypeOK /\ SeenInv /\ UptimeInv
  BY DEF ReadsInv
<1>2. /\ query'.pc = "check" /\ query'.in = in /\ query'.seen = Served
      /\ query'.throughout = Served /\ query'.got = {}
      /\ query'.now = 0 /\ query'.uptime = 0 /\ query'.since = 0
      /\ UNCHANGED <<core, startedAt, retired, online, time>>
  BY DEF Ask, Step, NoQuery
<1>3. ReadsTypeOK'
  <2>1. query' \in RequestRecord
    BY <1>1, NoRequest, ServedType DEF Ask, Step, RequestRecord
  <2> QED BY <1>1, <1>2, <2>1 DEF ReadsTypeOK
<1>4. SeenInv'
  BY <1>1, <1>2 DEF SeenInv, Served, Asked, Reading
<1>5. ThroughoutInv'
  BY <1>2 DEF ThroughoutInv, Served, Asked, Reading
<1>6. UptimeInv'
  BY <1>1, <1>2 DEF UptimeInv, ReadsTypeOK
<1>7. ReadsAreTrue'
  BY <1>2 DEF ReadsAreTrue, ListsAreTrue, UptimeIsReal, Answered
<1> QED BY <1>3, <1>4, <1>5, <1>6, <1>7 DEF ReadsInv

LEMMA ReadsStep == ReadsInv /\ [ReadsNext]_readsVars => ReadsInv'
<1> SUFFICES ASSUME ReadsInv, [ReadsNext]_readsVars PROVE ReadsInv'
  OBVIOUS
<1>1. CASE UNCHANGED readsVars
  <2>1. UNCHANGED <<core, startedAt, retired, online, time, query>>
    BY <1>1 DEF readsVars
  <2> QED BY <2>1 DEF ReadsInv, ReadsTypeOK, SeenInv, ThroughoutInv, UptimeInv, ReadsAreTrue,
                     ListsAreTrue, UptimeIsReal, Answered, Served, Asked, Reading
<1>2. CASE RequestReads
  BY <1>2, CheckCoreKeeps, ReadNowKeeps, ReadUptimeKeeps, LookUpManagerKeeps,
     ManagerIsGoneKeeps, NameUserKeeps, ReadUserKeeps, AllNamedKeeps, AllReadKeeps
  DEF RequestReads
<1> QED
  BY <1>1, <1>2, AskKeeps, PublishCoreKeeps, TakeCoreKeeps, ConnectUserKeeps,
     LeaveUserKeeps, TimePassesKeeps
  DEF ReadsNext

\* The invariant holds of every run of the readers.
THEOREM ReadsInvariance == ReadsSpec => []ReadsInv
  BY ReadsStart, ReadsStep, PTL DEF ReadsSpec

\* What the statistics answer was so: who is listed was online during the request, who
\* was online throughout is listed unless a start or stop came, and the uptime is not
\* longer than the core has been up.
THEOREM StatisticsAreTrue == ReadsSpec => []ReadsAreTrue
<1>1. ReadsInv => ReadsAreTrue
  BY DEF ReadsInv
<1> QED BY <1>1, ReadsInvariance, PTL

-----------------------------------------------------------------------------
\* The places of x in a list, and how many of them are among the first i.
Places(s, x) == {k \in 1..Len(s) : s[k] = x}
PlacesUpTo(s, i) == {k \in 1..i : s[k] = s[i]}

LEMMA PlacesFinite ==
  ASSUME NEW S, NEW s \in Seq(S), NEW x
  PROVE  /\ IsFiniteSet(Places(s, x)) /\ Occurrences(s, x) = Cardinality(Places(s, x))
         /\ Occurrences(s, x) \in Nat
<1>1. IsFiniteSet(1..Len(s)) /\ Places(s, x) \in SUBSET (1..Len(s))
  BY FS_Interval DEF Places
<1>2. IsFiniteSet(Places(s, x))
  BY <1>1, FS_Subset
<1> QED
  BY <1>2, FS_CardinalityType DEF Occurrences, Places

LEMMA PrefixCount ==
  ASSUME NEW S, NEW s \in Seq(S), NEW i \in 1..Len(s)
  PROVE  /\ Occurrences(SubSeq(s, 1, i), s[i]) = Cardinality(PlacesUpTo(s, i))
         /\ IsFiniteSet(PlacesUpTo(s, i)) /\ PlacesUpTo(s, i) \subseteq Places(s, s[i])
         /\ Cardinality(PlacesUpTo(s, i)) \in Nat \ {0}
<1>1. Len(SubSeq(s, 1, i)) = i /\ \A k \in 1..i : SubSeq(s, 1, i)[k] = s[k]
  OBVIOUS
<1>2. {k \in 1..Len(SubSeq(s, 1, i)) : SubSeq(s, 1, i)[k] = s[i]} = PlacesUpTo(s, i)
  BY <1>1 DEF PlacesUpTo
<1>3. PlacesUpTo(s, i) \subseteq Places(s, s[i]) /\ i \in PlacesUpTo(s, i)
  BY DEF PlacesUpTo, Places
<1>4. IsFiniteSet(PlacesUpTo(s, i))
  BY <1>3, PlacesFinite, FS_Subset
<1>5. Cardinality(PlacesUpTo(s, i)) \in Nat /\ Cardinality(PlacesUpTo(s, i)) # 0
  BY <1>3, <1>4, FS_CardinalityType, FS_EmptySet
<1> QED
  BY <1>2, <1>3, <1>4, <1>5 DEF Occurrences

\* A later place of the same entry is a higher one.
LEMMA RankGrows ==
  ASSUME NEW S, NEW s \in Seq(S), NEW i \in 1..Len(s), NEW j \in 1..Len(s), i < j, s[i] = s[j]
  PROVE  Cardinality(PlacesUpTo(s, i)) # Cardinality(PlacesUpTo(s, j))
<1>1. PlacesUpTo(s, i) \in SUBSET PlacesUpTo(s, j) /\ j \in PlacesUpTo(s, j) /\ j \notin PlacesUpTo(s, i)
  BY DEF PlacesUpTo
<1> QED
  BY <1>1, PrefixCount, FS_Subset

\* The counting loop accepts a list in another order, ...
LEMMA PermutationIsCounted ==
  ASSUME NEW S, NEW a \in Seq(S), NEW b \in Seq(S), Permutation(a, b), NEW i \in 1..Len(b)
  PROVE  Occurrences(SubSeq(b, 1, i), b[i]) <= Occurrences(a, b[i])
<1>1. PICK p \in [1..Len(a) -> 1..Len(a)] :
        /\ \A k, j \in 1..Len(a) : p[k] = p[j] => k = j
        /\ \A k \in 1..Len(a) : b[k] = a[p[k]]
  BY DEF Permutation
<1>2. Len(a) = Len(b)
  BY DEF Permutation
<1> DEFINE f == [k \in PlacesUpTo(b, i) |-> p[k]]
<1>3. f \in Injection(PlacesUpTo(b, i), Places(a, b[i]))
  <2>1. \A k \in PlacesUpTo(b, i) : k \in 1..Len(a) /\ b[k] = b[i]
    BY <1>2 DEF PlacesUpTo
  <2>2. \A k \in PlacesUpTo(b, i) : f[k] \in Places(a, b[i])
    BY <1>1, <2>1 DEF Places
  <2>3. f \in [PlacesUpTo(b, i) -> Places(a, b[i])]
    BY <2>2
  <2>4. \A k, j \in PlacesUpTo(b, i) : f[k] = f[j] => k = j
    BY <1>1, <2>1
  <2> QED
    BY <2>3, <2>4, Fun_IsInj
<1>4. Cardinality(PlacesUpTo(b, i)) <= Cardinality(Places(a, b[i]))
  BY <1>3, FS_Injection, PlacesFinite
<1> QED
  BY <1>4, PlacesFinite, PrefixCount

\* ... and what it accepts is one: the n-th place of an entry in the second list is taken
\* to its n-th place in the first.
LEMMA CountedIsPermutation ==
  ASSUME NEW S, NEW a \in Seq(S), NEW b \in Seq(S), Len(a) = Len(b),
         \A i \in 1..Len(b) : Occurrences(SubSeq(b, 1, i), b[i]) <= Occurrences(a, b[i])
  PROVE  Permutation(a, b)
<1> DEFINE Rank(i) == Cardinality(PlacesUpTo(b, i))
           Nth(x) == CHOOSE g : g \in Bijection(1..Cardinality(Places(a, x)), Places(a, x))
           p == [i \in 1..Len(a) |-> Nth(b[i])[Rank(i)]]
<1>1. \A x : Nth(x) \in Bijection(1..Cardinality(Places(a, x)), Places(a, x))
  <2>1. \A x : ExistsBijection(1..Cardinality(Places(a, x)), Places(a, x))
    BY PlacesFinite, FS_CardinalityType
  <2> QED
    BY <2>1 DEF ExistsBijection
<1>2. \A i \in 1..Len(a) : Rank(i) \in 1..Cardinality(Places(a, b[i]))
  <2> TAKE i \in 1..Len(a)
  <2>1. Rank(i) \in Nat \ {0} /\ Rank(i) <= Cardinality(Places(a, b[i]))
    BY PlacesFinite, PrefixCount
  <2>2. Cardinality(Places(a, b[i])) \in Nat
    BY PlacesFinite
  <2> QED
    BY <2>1, <2>2
<1>3. \A i \in 1..Len(a) : p[i] \in Places(a, b[i])
  <2> TAKE i \in 1..Len(a)
  <2>1. Nth(b[i]) \in [1..Cardinality(Places(a, b[i])) -> Places(a, b[i])]
    <3> HIDE DEF Nth
    <3>1. Nth(b[i]) \in Bijection(1..Cardinality(Places(a, b[i])), Places(a, b[i]))
      BY <1>1
    <3> QED
      BY <3>1, Zenon DEF Bijection, Injection
  <2> HIDE DEF Nth, Rank
  <2> QED
    BY <2>1, <1>2
<1>4. p \in [1..Len(a) -> 1..Len(a)] /\ \A i \in 1..Len(a) : b[i] = a[p[i]]
  <2>1. \A i \in 1..Len(a) : p[i] \in 1..Len(a) /\ b[i] = a[p[i]]
    BY <1>3 DEF Places
  <2> QED
    BY <2>1
<1>5. ASSUME NEW i \in 1..Len(a), NEW j \in 1..Len(a), p[i] = p[j]
      PROVE  i = j
  <2>1. b[i] = b[j]
    BY <1>4, <1>5
  <2>2. Rank(i) = Rank(j)
    <3> DEFINE g == Nth(b[i])
    <3>1. \A m, n \in 1..Cardinality(Places(a, b[i])) : g[m] = g[n] => m = n
      <4> HIDE DEF g
      <4>1. g \in Bijection(1..Cardinality(Places(a, b[i])), Places(a, b[i]))
        BY <1>1 DEF g
      <4> QED
        BY <4>1, Fun_BijectionProperties
    <3>2. g[Rank(i)] = g[Rank(j)]
      BY <1>5, <2>1
    <3> HIDE DEF g, Rank
    <3> QED
      BY <1>2, <2>1, <3>1, <3>2
  <2> QED
    BY <2>1, <2>2, RankGrows
<1> HIDE DEF p
<1> QED
  BY <1>4, <1>5 DEF Permutation

\* SameHashes decides whether the second list is the first one in another order.
LEMMA SameHashesDecides ==
  ASSUME NEW x \in HashLists, NEW y \in HashLists
  PROVE  SameHashes(x, y) <=>
           x.emptyConfig = y.emptyConfig /\ Permutation(x.inbounds, y.inbounds)
<1> DEFINE S == InboundHashes
<1>1. x.inbounds \in Seq(S) /\ y.inbounds \in Seq(S)
  BY DEF HashLists
<1>2. Permutation(x.inbounds, y.inbounds) => Len(x.inbounds) = Len(y.inbounds)
  BY DEF Permutation
<1> QED
  BY <1>1, <1>2, PermutationIsCounted, CountedIsPermutation DEF SameHashes

-----------------------------------------------------------------------------
LEMMA ElementOf ==
  ASSUME NEW S, NEW s \in Seq(S), NEW i \in 1..Len(s)
  PROVE  s[i] \in S
  OBVIOUS

LEMMA SameEntry ==
  ASSUME NEW x \in InboundHashes, NEW y \in InboundHashes,
         x.tag = y.tag, x.hash = y.hash, x.usersCount = y.usersCount
  PROVE  x = y
<1>1. x = [tag |-> x.tag, hash |-> x.hash, usersCount |-> x.usersCount]
  BY DEF InboundHashes
<1>2. y = [tag |-> y.tag, hash |-> y.hash, usersCount |-> y.usersCount]
  BY DEF InboundHashes
<1> QED
  BY <1>1, <1>2

\* With distinct tags, there is one entry to find for a tag.
LEMMA ByTagFinds ==
  ASSUME NEW S, NEW s \in Seq(S), DistinctTags(s), NEW i \in 1..Len(s)
  PROVE  ByTag(s, s[i].tag) = s[i]
<1> DEFINE Last(k) == /\ s[k].tag = s[i].tag
                      /\ \A j \in 1..Len(s) : s[j].tag = s[i].tag => j <= k
<1>1. Last(i)
  BY DEF DistinctTags
<1>2. \A k \in 1..Len(s) : Last(k) => k = i
  BY DEF DistinctTags
<1>3. (CHOOSE k \in 1..Len(s) : Last(k)) = i
  <2> HIDE DEF Last
  <2> QED
    BY <1>1, <1>2
<1> QED
  BY <1>3 DEF ByTag

\* The entries that InboundDecision would report.
Bad(a, b) == {i \in 1..Len(a) : Removed(a[i], b) \/ Changed(a[i], b)}

\* An entry that is bad is not among the incoming ones, ...
LEMMA BadIsAbsent ==
  ASSUME NEW S, NEW a \in Seq(S), NEW b \in Seq(S), DistinctTags(b), NEW i \in Bad(a, b)
  PROVE  Occurrences(b, a[i]) = 0
<1>1. ASSUME NEW j \in 1..Len(b), b[j] = a[i]
      PROVE  FALSE
  <2>1. a[i].tag \in TagsOf(b)
    BY <1>1 DEF TagsOf
  <2>2. ByTag(b, a[i].tag) = a[i]
    BY <1>1, ByTagFinds
  <2> QED
    BY <2>1, <2>2 DEF Bad, Removed, Changed
<1>2. {j \in 1..Len(b) : b[j] = a[i]} = {}
  BY <1>1
<1> QED
  BY <1>2, FS_EmptySet DEF Occurrences

\* ... and with none that is bad, every entry is, and so the lists are the same.
LEMMA NoneBad ==
  ASSUME NEW a \in Seq(InboundHashes),
         NEW b \in Seq(InboundHashes),
         DistinctTags(a), DistinctTags(b), Len(a) = Len(b), Bad(a, b) = {}
  PROVE  Permutation(a, b)
<1> DEFINE n == Len(a)
<1>0. n \in Nat
  OBVIOUS
<1>1. \A i \in 1..n : \E j \in 1..n : b[j] = a[i]
  <2> TAKE i \in 1..n
  <2>1. ~Removed(a[i], b) /\ ~Changed(a[i], b)
    BY DEF Bad
  <2>2. PICK j \in 1..Len(b) : b[j].tag = a[i].tag
    BY <2>1 DEF Removed, TagsOf
  <2>3. a[i].hash = b[j].hash /\ a[i].usersCount = b[j].usersCount
    BY <2>1, <2>2, ByTagFinds DEF Changed
  <2>4. b[j] = a[i]
    BY <2>2, <2>3, ElementOf, SameEntry
  <2> QED
    BY <2>4
<1> DEFINE q == [i \in 1..n |-> CHOOSE j \in 1..n : b[j] = a[i]]
<1>2. q \in [1..n -> 1..n] /\ \A i \in 1..n : b[q[i]] = a[i]
  BY <1>1
<1> HIDE DEF q
<1>3. \A i, j \in 1..n : q[i] = q[j] => i = j
  BY <1>2 DEF DistinctTags
<1>4. q \in Injection(1..n, 1..n)
  BY <1>2, <1>3, Fun_IsInj
<1>5. q \in Surjection(1..n, 1..n)
  BY <1>0, <1>4, FS_Interval, FS_Injection
<1>6. \A j \in 1..n : \E i \in 1..n : q[i] = j
  <2> HIDE DEF n
  <2> QED
    BY <1>5 DEF Surjection
<1> DEFINE p == [j \in 1..n |-> CHOOSE i \in 1..n : q[i] = j]
<1>7. p \in [1..n -> 1..n] /\ \A j \in 1..n : q[p[j]] = j
  BY <1>6
<1> HIDE DEF p
<1>8. \A i, j \in 1..n : p[i] = p[j] => i = j
  BY <1>7
<1>9. \A j \in 1..n : b[j] = a[p[j]]
  BY <1>2, <1>7
<1> QED
  BY <1>7, <1>8, <1>9 DEF Permutation

\* What an inbound is blamed for, when one is.
LEMMA BlameIsDue ==
  ASSUME NEW x \in HashLists, NEW y \in HashLists,
         DistinctTags(x.inbounds), DistinctTags(y.inbounds),
         Len(x.inbounds) = Len(y.inbounds), ~Permutation(x.inbounds, y.inbounds)
  PROVE  \E i \in 1..Len(x.inbounds) :
           /\ x.inbounds[i].tag = InboundDecision(x.inbounds, y.inbounds).inboundTag
           /\ Occurrences(y.inbounds, x.inbounds[i]) = 0
<1> DEFINE a == x.inbounds  b == y.inbounds
           Least(i) == \A j \in Bad(a, b) : i <= j
           first == CHOOSE i \in Bad(a, b) : Least(i)
<1>1. a \in Seq(InboundHashes)
      /\ b \in Seq(InboundHashes)
  BY DEF HashLists
<1>2. InboundDecision(a, b) =
        IF Bad(a, b) = {} THEN Decision(TRUE, "inbound_hash_changed", NoTag)
        ELSE Decision(TRUE, IF Removed(a[first], b) THEN "inbound_removed" ELSE "inbound_hash_changed",
                      a[first].tag)
  BY Zenon DEF InboundDecision, Bad
<1> HIDE DEF a, b
<1>3. CASE Bad(a, b) = {}
  <2>1. Permutation(a, b)
    BY <1>1, <1>3, NoneBad DEF a, b
  <2> QED
    BY <2>1 DEF a, b
<1>4. CASE Bad(a, b) # {}
  <2>1. Bad(a, b) \in SUBSET Nat
    BY <1>1 DEF Bad
  <2>2. first \in Bad(a, b)
    <3>1. \E i \in Bad(a, b) : \A j \in Bad(a, b) : i <= j
      BY <1>4, <2>1, LeastExists
    <3>2. \E i \in Bad(a, b) : Least(i)
      BY <3>1
    <3> HIDE DEF Least
    <3> QED
      BY <3>2
  <2> HIDE DEF first
  <2>3. first \in 1..Len(a)
    BY <2>2 DEF Bad
  <2>4. Occurrences(b, a[first]) = 0
    BY <1>1, <2>2, BadIsAbsent DEF b
  <2>5. InboundDecision(a, b).inboundTag = a[first].tag
    BY <1>2, <1>4 DEF Decision
  <2> QED
    BY <2>3, <2>4, <2>5 DEF a, b
<1> QED
  BY <1>3, <1>4

\* The restart decision, whatever is compared.
IsRight(force, last, incoming, coreRunning, d) ==
  /\ ~d.shouldRestart <=>
       /\ ~force /\ coreRunning /\ last # NoHashes
       /\ last.emptyConfig = incoming.emptyConfig
       /\ Permutation(last.inbounds, incoming.inbounds)
  /\ (last # NoHashes /\ DistinctTags(last.inbounds) /\ DistinctTags(incoming.inbounds)
        /\ NamesInbound(d)) =>
       \E i \in 1..Len(last.inbounds) :
         /\ last.inbounds[i].tag = d.inboundTag
         /\ Occurrences(incoming.inbounds, last.inbounds[i]) = 0

LEMMA DecisionIsRight ==
  ASSUME NEW force \in BOOLEAN, NEW last \in HashLists \cup {NoHashes}, NEW incoming \in HashLists,
         NEW coreRunning \in BOOLEAN,
         NEW d, d = RestartDecisionFor(force, last, incoming, coreRunning)
  PROVE  IsRight(force, last, incoming, coreRunning, d)
<1> USE DEF IsRight
<1>1. CASE force \/ ~coreRunning \/ last = NoHashes
  BY <1>1 DEF RestartDecisionFor, Decision, NamesInbound
<1>2. CASE ~force /\ coreRunning /\ last # NoHashes
  <2>1. SameHashes(last, incoming) <=>
          last.emptyConfig = incoming.emptyConfig /\ Permutation(last.inbounds, incoming.inbounds)
    BY <1>2, SameHashesDecides
  <2>2. CASE SameHashes(last, incoming)
    BY <1>2, <2>1, <2>2 DEF RestartDecisionFor, Decision, NamesInbound
  <2>3. CASE ~SameHashes(last, incoming) /\ (\/ last.emptyConfig # incoming.emptyConfig
                                            \/ Len(last.inbounds) # Len(incoming.inbounds))
    BY <1>2, <2>1, <2>3 DEF RestartDecisionFor, Decision, NamesInbound
  <2>4. CASE /\ ~SameHashes(last, incoming) /\ last.emptyConfig = incoming.emptyConfig
             /\ Len(last.inbounds) = Len(incoming.inbounds)
    <3>1. d = InboundDecision(last.inbounds, incoming.inbounds)
      BY <1>2, <2>4 DEF RestartDecisionFor
    <3>2. d.shouldRestart = TRUE
      BY <3>1 DEF InboundDecision, Decision
    <3>3. ~Permutation(last.inbounds, incoming.inbounds)
      BY <2>1, <2>4
    <3> QED
      BY <1>2, <2>4, <3>1, <3>2, <3>3, BlameIsDue
  <2> QED
    BY <2>2, <2>3, <2>4
<1> QED
  BY <1>1, <1>2

-----------------------------------------------------------------------------
LEMMA SpecialValues ==
  /\ Blank # Malformed /\ Refused # Blank /\ Refused # Malformed
  /\ \A n \in Int : n # Blank /\ n # Malformed /\ n # Refused
  /\ \A b \in BOOLEAN : b # Blank /\ b # Malformed /\ b # Refused
  /\ \A s \in Spellings : s # Blank /\ s # Malformed /\ s # Refused
  /\ \A p \in Payloads : p # Blank /\ p # Malformed /\ p # Refused
  /\ Refused \notin Configurations /\ Refused \notin Servers
  /\ LongZero # Blank /\ LongZero # Malformed /\ \A n \in Int : n # LongZero
  BY Zenon, AlgorithmsAssumption DEF Numbers, Flags, Words

OrDefault(env, v) == IF env[v] = Blank THEN Defaults[v] ELSE env[v]

\* What each of the readers makes of what it may find.
LEMMA PortRead ==
  ASSUME NEW raw \in Numbers, NEW fallback \in 1..MaxPort
  PROVE  /\ EnvPort(raw, fallback) # Refused <=>
               raw # Malformed /\ (raw # Blank => raw \in 1..MaxPort)
         /\ EnvPort(raw, fallback) # Refused =>
               /\ EnvPort(raw, fallback) = IF raw = Blank THEN fallback ELSE raw
               /\ EnvPort(raw, fallback) \in 1..MaxPort
  BY SpecialValues, SetupAssumption DEF EnvPort, Numbers

LEMMA OptionalPortRead ==
  ASSUME NEW raw \in Numbers
  PROVE  /\ EnvOptionalPort(raw) # Refused <=>
               raw # Malformed /\ (raw # Blank => raw \in 0..MaxPort)
         /\ EnvOptionalPort(raw) # Refused => EnvOptionalPort(raw) \in Int
  BY SpecialValues, SetupAssumption DEF EnvOptionalPort, EnvPort, Numbers

LEMMA LimitRead ==
  ASSUME NEW raw \in Numbers, NEW fallback \in Nat
  PROVE  /\ EnvNonNegativeInt64(raw, fallback) # Refused <=>
               raw # Malformed /\ (raw # Blank => raw \in Nat \cup {LongZero})
         /\ EnvNonNegativeInt64(raw, fallback) # Refused =>
               /\ EnvNonNegativeInt64(raw, fallback) =
                    IF raw = Blank THEN fallback ELSE IF raw = LongZero THEN 0 ELSE raw
               /\ EnvNonNegativeInt64(raw, fallback) \in Nat
<1>0. Blank # Malformed /\ Refused \notin Nat
  BY SpecialValues
<1>1. CASE raw = Blank
  BY <1>0, <1>1 DEF EnvNonNegativeInt64
<1>2. CASE raw = Malformed
  BY <1>0, <1>2, SpecialValues DEF EnvNonNegativeInt64
<1>3. CASE raw = LongZero
  BY <1>3, SpecialValues DEF EnvNonNegativeInt64
<1>4. CASE raw \in Int
  <2>1. raw # Blank /\ raw # Malformed /\ raw # LongZero /\ raw # Refused
    BY <1>4, SpecialValues
  <2> QED
    BY <1>4, <2>1 DEF EnvNonNegativeInt64
<1> QED
  BY <1>1, <1>3, <1>4, <1>2 DEF Numbers

LEMMA FlagRead ==
  ASSUME NEW raw \in Flags
  PROVE  /\ EnvBool(raw) # Refused <=> raw # Malformed
         /\ EnvBool(raw) # Refused => EnvBool(raw) \in BOOLEAN /\ EnvBool(raw) = (raw = TRUE)
<1>1. CASE raw = Blank
  BY <1>1, SpecialValues, Zenon DEF EnvBool
<1>2. CASE raw = Malformed
  BY <1>2, SpecialValues, Zenon DEF EnvBool
<1>3. CASE raw \in BOOLEAN
  BY <1>3, SpecialValues, Zenon DEF EnvBool
<1> QED
  BY <1>1, <1>2, <1>3 DEF Flags

LEMMA NameRead ==
  ASSUME NEW raw \in Words, NEW fallback \in Spellings
  PROVE  /\ EnvName(raw, fallback) # Refused <=> raw # Malformed
         /\ EnvName(raw, fallback) # Refused =>
               /\ EnvName(raw, fallback) \in Spellings
               /\ EnvName(raw, fallback) = IF raw = Blank THEN fallback ELSE raw
  BY SpecialValues DEF EnvName, Words

LEMMA EnvironmentFields ==
  ASSUME NEW env \in EnvironmentType
  PROVE  /\ env.nodePort \in Numbers /\ env.internalPort \in Numbers
         /\ env.hysteria \in Numbers /\ env.limit \in Numbers
         /\ env.requireSecret \in Flags /\ env.sni \in Flags
         /\ env.clientAuth \in {Blank, Malformed} \cup Modes
         /\ env.clientAuth \in Words /\ env.logLevel \in Words /\ env.logColor \in Words
         /\ env.secret \in {Blank} \cup Payloads
<1>1. env.clientAuth \in {Blank, Malformed} \cup Modes
  BY DEF EnvironmentType
<1>2. env.clientAuth \in Words
  BY <1>1, AlgorithmsAssumption DEF Words
<1> QED
  BY <1>1, <1>2 DEF EnvironmentType

LEMMA DefaultValues ==
  /\ Defaults.nodePort \in 1..MaxPort /\ Defaults.internalPort \in 1..MaxPort
  /\ Defaults.limit \in Nat /\ Defaults.clientAuth = "mtls" /\ Defaults.clientAuth \in Modes
  /\ Defaults.clientAuth \in Spellings
  /\ Defaults.logLevel \in Spellings /\ Defaults.logColor \in Spellings
  /\ \A n \in 1..MaxPort : n \in Int
<1>1. /\ Defaults.logLevel \in Spellings /\ Defaults.logColor \in Spellings
  BY AlgorithmsAssumption, Zenon
<1>2. /\ Defaults.limit \in Nat /\ Defaults.clientAuth = "mtls"
      /\ Defaults.nodePort \in 1..MaxPort /\ Defaults.internalPort \in 1..MaxPort
  BY SetupAssumption, Zenon
<1>3. "mtls" \in Modes /\ Defaults.clientAuth \in Spellings
  BY <1>2, AlgorithmsAssumption DEF Modes
<1> QED
  BY <1>1, <1>2, <1>3, SetupAssumption

\* The configuration that Load puts together before it looks at it.
ValueOf(env, v) ==
  CASE v \in Ports    -> EnvPort(env[v], Defaults[v])
    [] v = "hysteria" -> EnvOptionalPort(env[v])
    [] v = "limit"    -> EnvNonNegativeInt64(env[v], Defaults[v])
    [] v \in Switches -> EnvBool(env[v])
    [] v \in Names    -> EnvName(env[v], Defaults[v])
    [] v = "secret"   -> env[v]

Read(env) == [v \in (DOMAIN env) \ {"dotEnv"} |-> ValueOf(env, v)]

LEMMA ReadFields ==
  ASSUME NEW env \in EnvironmentType
  PROVE  /\ DOMAIN env = {"nodePort", "internalPort", "hysteria", "limit", "requireSecret", "sni",
                          "clientAuth", "logLevel", "logColor", "secret", "dotEnv"}
         /\ DOMAIN Read(env) = {"nodePort", "internalPort", "hysteria", "limit", "requireSecret",
                                "sni", "clientAuth", "logLevel", "logColor", "secret"}
         /\ Read(env).nodePort = EnvPort(env.nodePort, Defaults.nodePort)
         /\ Read(env).internalPort = EnvPort(env.internalPort, Defaults.internalPort)
         /\ Read(env).hysteria = EnvOptionalPort(env.hysteria)
         /\ Read(env).limit = EnvNonNegativeInt64(env.limit, Defaults.limit)
         /\ Read(env).requireSecret = EnvBool(env.requireSecret)
         /\ Read(env).sni = EnvBool(env.sni)
         /\ Read(env).clientAuth = EnvName(env.clientAuth, Defaults.clientAuth)
         /\ Read(env).logLevel = EnvName(env.logLevel, Defaults.logLevel)
         /\ Read(env).logColor = EnvName(env.logColor, Defaults.logColor)
         /\ Read(env).secret = env.secret
<1>1. DOMAIN env = {"nodePort", "internalPort", "hysteria", "limit", "requireSecret", "sni",
                    "clientAuth", "logLevel", "logColor", "secret", "dotEnv"}
  BY DEF EnvironmentType
<1>2. DOMAIN Read(env) = {"nodePort", "internalPort", "hysteria", "limit", "requireSecret",
                          "sni", "clientAuth", "logLevel", "logColor", "secret"}
  BY <1>1 DEF Read
<1> QED
  BY <1>1, <1>2 DEF Read, ValueOf, Ports, Switches, Names

LEMMA AcceptsAll ==
  ASSUME NEW payload \in Payloads
  PROVE  Accepts(payload) <=> \A fact \in DOMAIN payload : payload[fact]
<1>1. DOMAIN payload = {"decodes", "complete", "caParses", "caInTime", "caSelfSigned", "nodeParses",
                        "nodeSigned", "keyParses", "keyMatches", "jwtParses", "jwtIsRSA"}
  BY DEF Payloads
<1>2. DOMAIN Checks(payload) = {"caParses", "caInTime", "caSelfSigned", "nodeParses", "nodeSigned",
                                "keyMatches", "jwtIsRSA"}
  BY DEF Checks
<1>3. \A fact \in DOMAIN payload : payload[fact] \in BOOLEAN
  BY <1>1 DEF Payloads
<1> QED
  BY <1>1, <1>2, <1>3 DEF Accepts, Checks, Decoded, KeyMatchesCert, RSAPublicKey

Acceptable(env) ==
  /\ env.dotEnv # Malformed
  /\ \A v \in DOMAIN Read(env) : Read(env)[v] # Refused
  /\ Read(env).nodePort # Read(env).internalPort
  /\ ~(Read(env).requireSecret /\ Read(env).secret = Blank)

LEMMA LoadIs ==
  ASSUME NEW env
  PROVE  Load(env) = IF Acceptable(env) THEN Read(env) ELSE Refused
  BY Zenon DEF Load, Acceptable, Read, ValueOf

\* Each variable is refused exactly if it is not legal, ...
LEMMA FieldsRead ==
  ASSUME NEW env \in EnvironmentType
  PROVE  /\ (env.dotEnv # Malformed /\ \A v \in DOMAIN Read(env) : Read(env)[v] # Refused) <=>
              /\ \A v \in DOMAIN env : env[v] # Malformed
              /\ \A v \in Ports : env[v] # Blank => env[v] \in 1..MaxPort
              /\ env.hysteria # Blank => env.hysteria \in 0..MaxPort
              /\ env.limit # Blank => env.limit \in Nat \cup {LongZero}
<1>1. /\ Read(env).nodePort # Refused <=>
            env.nodePort # Malformed /\ (env.nodePort # Blank => env.nodePort \in 1..MaxPort)
      /\ Read(env).internalPort # Refused <=>
            env.internalPort # Malformed /\ (env.internalPort # Blank => env.internalPort \in 1..MaxPort)
  BY ReadFields, PortRead, EnvironmentFields, DefaultValues
<1>2. Read(env).hysteria # Refused <=>
        env.hysteria # Malformed /\ (env.hysteria # Blank => env.hysteria \in 0..MaxPort)
  BY ReadFields, OptionalPortRead, EnvironmentFields, DefaultValues
<1>3. Read(env).limit # Refused <=> env.limit # Malformed /\ (env.limit # Blank => env.limit \in Nat \cup {LongZero})
  BY ReadFields, LimitRead, EnvironmentFields, DefaultValues
<1>4. /\ Read(env).requireSecret # Refused <=> env.requireSecret # Malformed
      /\ Read(env).sni # Refused <=> env.sni # Malformed
  <2>1. Read(env).requireSecret = EnvBool(env.requireSecret) /\ Read(env).sni = EnvBool(env.sni)
    BY ReadFields
  <2> QED
    BY <2>1, EnvironmentFields, FlagRead, Zenon
<1>5. /\ Read(env).clientAuth # Refused <=> env.clientAuth # Malformed
      /\ Read(env).logLevel # Refused <=> env.logLevel # Malformed
      /\ Read(env).logColor # Refused <=> env.logColor # Malformed
  <2>1. /\ Read(env).clientAuth = EnvName(env.clientAuth, Defaults.clientAuth)
        /\ Read(env).logLevel = EnvName(env.logLevel, Defaults.logLevel)
        /\ Read(env).logColor = EnvName(env.logColor, Defaults.logColor)
    BY ReadFields
  <2>2. Read(env).clientAuth # Refused <=> env.clientAuth # Malformed
    BY <2>1, EnvironmentFields, DefaultValues, NameRead
  <2>3. Read(env).logLevel # Refused <=> env.logLevel # Malformed
    BY <2>1, EnvironmentFields, DefaultValues, NameRead
  <2>4. Read(env).logColor # Refused <=> env.logColor # Malformed
    BY <2>1, EnvironmentFields, DefaultValues, NameRead
  <2> QED
    BY <2>2, <2>3, <2>4
<1>6. Read(env).secret # Refused /\ env.secret # Malformed
  BY ReadFields, SpecialValues DEF EnvironmentType
<1> QED
  BY <1>1, <1>2, <1>3, <1>4, <1>5, <1>6, ReadFields DEF Ports

LEMMA ReadTypes ==
  ASSUME NEW env \in EnvironmentType, \A v \in DOMAIN Read(env) : Read(env)[v] # Refused
  PROVE  /\ Read(env).nodePort = OrDefault(env, "nodePort")
         /\ Read(env).internalPort = OrDefault(env, "internalPort")
         /\ Read(env).limit = LimitOf(env)
         /\ Read(env).limit \in Nat
         /\ Read(env).requireSecret \in BOOLEAN /\ Read(env).requireSecret = (env.requireSecret = TRUE)
         /\ Read(env).sni \in BOOLEAN /\ Read(env).sni = (env.sni = TRUE)
         /\ Read(env).clientAuth = OrDefault(env, "clientAuth")
         /\ Read(env).clientAuth \in Modes
         /\ Read(env).secret = env.secret
         /\ Read(env) \in Configurations
<1>1. /\ Read(env).nodePort # Refused /\ Read(env).internalPort # Refused
      /\ Read(env).hysteria # Refused /\ Read(env).limit # Refused
      /\ Read(env).requireSecret # Refused /\ Read(env).sni # Refused
      /\ Read(env).clientAuth # Refused /\ Read(env).logLevel # Refused /\ Read(env).logColor # Refused
  BY ReadFields
<1>2. /\ Read(env).nodePort = OrDefault(env, "nodePort")
      /\ Read(env).internalPort = OrDefault(env, "internalPort")
      /\ Read(env).nodePort \in Int /\ Read(env).internalPort \in Int
  <2>2. Read(env).nodePort # Refused /\ Read(env).internalPort # Refused
    BY <1>1
  <2>3. Read(env).nodePort = EnvPort(env.nodePort, Defaults.nodePort)
        /\ Read(env).internalPort = EnvPort(env.internalPort, Defaults.internalPort)
    BY ReadFields
  <2> QED
    BY <2>2, <2>3, PortRead, EnvironmentFields, DefaultValues DEF OrDefault
<1>3. Read(env).hysteria \in Int
  BY <1>1, ReadFields, OptionalPortRead, EnvironmentFields, DefaultValues
<1>4. Read(env).limit = LimitOf(env)
      /\ Read(env).limit \in Nat
  <2>1. Read(env).limit = EnvNonNegativeInt64(env.limit, Defaults.limit) /\ Read(env).limit # Refused
    BY <1>1, ReadFields
  <2>2. env.limit \in Numbers /\ Defaults.limit \in Nat
    BY EnvironmentFields, DefaultValues
  <2> QED
    BY <2>1, <2>2, LimitRead DEF LimitOf
<1>5. /\ Read(env).requireSecret \in BOOLEAN /\ Read(env).requireSecret = (env.requireSecret = TRUE)
      /\ Read(env).sni \in BOOLEAN /\ Read(env).sni = (env.sni = TRUE)
  <2>1. Read(env).requireSecret = EnvBool(env.requireSecret) /\ Read(env).sni = EnvBool(env.sni)
    BY ReadFields
  <2> QED
    BY <1>1, <2>1, EnvironmentFields, FlagRead, Zenon
<1>6. /\ Read(env).clientAuth = OrDefault(env, "clientAuth")
      /\ Read(env).clientAuth \in Modes /\ Read(env).clientAuth \in Spellings
      /\ Read(env).logLevel \in Spellings /\ Read(env).logColor \in Spellings
  <2>1. /\ Read(env).clientAuth = EnvName(env.clientAuth, Defaults.clientAuth)
        /\ Read(env).logLevel = EnvName(env.logLevel, Defaults.logLevel)
        /\ Read(env).logColor = EnvName(env.logColor, Defaults.logColor)
    BY ReadFields
  <2>2. Read(env).clientAuth = OrDefault(env, "clientAuth") /\ Read(env).clientAuth \in Spellings
    BY <1>1, <2>1, EnvironmentFields, DefaultValues, NameRead DEF OrDefault
  <2>5. Read(env).clientAuth \in Modes
    BY <1>1, <2>1, EnvironmentFields, DefaultValues, NameRead
  <2>3. Read(env).logLevel \in Spellings
    BY <2>1, EnvironmentFields, DefaultValues, NameRead, <1>1
  <2>4. Read(env).logColor \in Spellings
    BY <2>1, EnvironmentFields, DefaultValues, NameRead, <1>1
  <2> QED
    BY <2>2, <2>3, <2>4, <2>5
<1>7. Read(env).secret = env.secret /\ env.secret \in {Blank} \cup Payloads
  BY ReadFields DEF EnvironmentType
<1>8. Read(env) \in Configurations
  <2>1. DOMAIN Read(env) = Ports \cup Switches \cup Names \cup {"hysteria", "limit", "secret"}
    BY ReadFields DEF Ports, Switches, Names
  <2>2. \A v \in DOMAIN Read(env) : Read(env)[v] \in Numbers \cup Flags \cup Words \cup Payloads
    <3>1. /\ Read(env).nodePort \in Numbers /\ Read(env).internalPort \in Numbers
          /\ Read(env).hysteria \in Numbers /\ Read(env).limit \in Numbers
      <4>1. Read(env).limit \in Int
        BY <1>4
      <4> QED
        BY <1>2, <1>3, <4>1, Zenon DEF Numbers
    <3>2. Read(env).requireSecret \in Flags /\ Read(env).sni \in Flags
      BY <1>5 DEF Flags
    <3>3. /\ Read(env).clientAuth \in Words /\ Read(env).logLevel \in Words
          /\ Read(env).logColor \in Words
      BY <1>6 DEF Words
    <3>4. Read(env).secret \in Words \cup Payloads
      BY <1>7 DEF Words
    <3> QED
      BY <3>1, <3>2, <3>3, <3>4, ReadFields
  <2>3. Read(env) = [v \in DOMAIN Read(env) |-> Read(env)[v]]
    BY DEF Read
  <2> QED
    BY <2>1, <2>2, <2>3 DEF Configurations
<1> QED
  BY <1>2, <1>4, <1>5, <1>6, <1>7, <1>8, Zenon

\* ... and so the node comes up exactly if it should, and as it should.
LEMMA SetUpIsRight ==
  ASSUME NEW env \in EnvironmentType, NEW r, r = Setup(env)
  PROVE  /\ r # Refused <=>
              /\ Legal(env)
              /\ OrDefault(env, "nodePort") # OrDefault(env, "internalPort")
              /\ env.requireSecret = TRUE => env.secret # Blank
         /\ r # Refused =>
              /\ r.secure <=> env.secret # Blank
              /\ r.secure => /\ r.sni <=> env.sni = TRUE
                             /\ r.clientAuth = OrDefault(env, "clientAuth")
              /\ r.limit = LimitOf(env)
<1> DEFINE fieldsRead == env.dotEnv # Malformed /\ \A v \in DOMAIN Read(env) : Read(env)[v] # Refused
           sound == env.secret # Blank => \A fact \in DOMAIN env.secret : env.secret[fact]
<1>1. Legal(env) <=> fieldsRead /\ sound
  BY FieldsRead, Zenon DEF Legal
<1>2. Load(env) # Refused <=>
        /\ fieldsRead
        /\ OrDefault(env, "nodePort") # OrDefault(env, "internalPort")
        /\ env.requireSecret = TRUE => env.secret # Blank
  <2>1. CASE fieldsRead
    <3>1. Acceptable(env) <=> /\ OrDefault(env, "nodePort") # OrDefault(env, "internalPort")
                              /\ env.requireSecret = TRUE => env.secret # Blank
      BY <2>1, ReadTypes, Zenon DEF Acceptable
    <3>2. Read(env) # Refused
      BY <2>1, ReadTypes, SpecialValues
    <3> QED
      BY <2>1, <3>1, <3>2, LoadIs, Zenon
  <2>2. CASE ~fieldsRead
    BY <2>2, LoadIs, Zenon DEF Acceptable
  <2> QED
    BY <2>1, <2>2
<1>3. env.secret # Blank => env.secret \in Payloads
  BY DEF EnvironmentType
<1> HIDE DEF OrDefault, sound
<1>4. CASE Load(env) = Refused
  BY <1>1, <1>2, <1>4 DEF Setup
<1>5. CASE Load(env) # Refused
  <2>1. Load(env) = Read(env)
    BY <1>5, LoadIs
  <2>2. fieldsRead
    BY <1>2, <1>5
  <2>3. r = NewServer(Read(env))
    BY <1>5, <2>1 DEF Setup
  <2>4. CASE env.secret = Blank
    <3>1. r = [secure |-> FALSE, clientAuth |-> "none", sni |-> FALSE, limit |-> Read(env).limit]
      BY <2>2, <2>3, <2>4, ReadTypes DEF NewServer
    <3>2. r # Refused
      <4>1. Read(env).limit \in Nat
        BY <2>2, ReadTypes
      <4>2. r \in Servers
        BY <3>1, <4>1 DEF Servers, Modes
      <4> QED
        BY <4>2, SpecialValues
    <3>3. sound
      BY <2>4 DEF sound
    <3> QED
      <4>1. ~r.secure /\ r.limit = LimitOf(env)
        <5>1. Read(env).limit = LimitOf(env)
          BY <2>2, ReadTypes, Zenon
        <5> QED
          BY <3>1, <5>1
      <4> QED
        BY <1>1, <1>2, <1>5, <2>2, <2>4, <3>2, <3>3, <4>1, Zenon
  <2>5. CASE env.secret # Blank
    <3>1. Accepts(env.secret) <=> sound
      BY <1>3, <2>5, AcceptsAll DEF sound
    <3>2. CASE sound
      <4>1. r = [secure |-> TRUE, clientAuth |-> Read(env).clientAuth, sni |-> Read(env).sni,
                 limit |-> Read(env).limit]
        BY <2>2, <2>3, <2>5, <3>1, <3>2, ReadTypes DEF NewServer
      <4>2. r # Refused
        <5>1. Read(env).limit \in Nat /\ Read(env).clientAuth \in Modes /\ Read(env).sni \in BOOLEAN
          BY <2>2, ReadTypes, Zenon
        <5>2. r \in Servers
          BY <4>1, <5>1 DEF Servers
        <5> QED
          BY <5>2, SpecialValues
      <4>3. /\ r.secure = TRUE /\ r.sni = Read(env).sni /\ r.clientAuth = Read(env).clientAuth
            /\ r.limit = Read(env).limit
        BY <4>1
      <4>4. /\ r.sni <=> env.sni = TRUE
            /\ r.clientAuth = OrDefault(env, "clientAuth")
            /\ r.limit = LimitOf(env)
        BY <2>2, <4>3, ReadTypes, Zenon
      <4> QED
        BY <1>1, <1>2, <1>5, <2>2, <2>5, <3>2, <4>2, <4>3, <4>4, Zenon
    <3>3. CASE ~sound
      <4>1. r = Refused
        BY <2>2, <2>3, <2>5, <3>1, <3>3, ReadTypes DEF NewServer
      <4> QED
        BY <1>1, <3>3, <4>1
    <3> QED
      BY <3>2, <3>3
  <2> QED
    BY <2>4, <2>5
<1> QED
  BY <1>4, <1>5

-----------------------------------------------------------------------------
\* What stands before the body lets through what it should.
LEMMA BarredIs ==
  ASSUME NEW server \in MainServers, NEW request \in RequestType,
         server.secure \/ (server.clientAuth = "none" /\ ~server.sni)
  PROVE  Barred(server, request) <=> ~Handshake(server, request) \/ ~Authorized(server, request)
<1>1. /\ server.secure \in BOOLEAN /\ server.sni \in BOOLEAN /\ request.named \in BOOLEAN
      /\ request.token \in BOOLEAN
  BY DEF MainServers, RequestType
<1>2. CASE server.clientAuth = "none"
  BY <1>1, <1>2 DEF Barred, Handshake, Authorized, ClientAuth
<1>3. CASE server.clientAuth = "optional"
  BY <1>1, <1>3 DEF Barred, Handshake, Authorized, ClientAuth
<1>4. CASE server.clientAuth = "mtls"
  BY <1>1, <1>4 DEF Barred, Handshake, Authorized, ClientAuth
<1> QED
  BY <1>2, <1>3, <1>4 DEF MainServers, Modes

\* A handler serves a request exactly if it reads nothing or can bind what it wants, and
\* what it answers otherwise is its own affair.
LEMMA ServedIf ==
  ASSUME NEW handler, NEW limit \in Nat, NEW body,
         body.value \in Nat, body.size \in Nat
  PROVE  /\ Serve(handler, body, limit) =
              IF \/ handler = "readsNone"
                 \/ body.value <= body.size /\ WithinLimit(limit, body.value)
              THEN RunInFull ELSE BindFailed(handler)
  BY DEF Serve, Binds, WithinLimit

\* What the middleware reads of a compressed body is let through exactly if the body is sound
\* and within the limit; and then all of the body was read.
LEMMA ReadIsAll ==
  ASSUME NEW limit \in 0..MaxInt, limit # MaxInt,
         NEW body \in [size : Nat, sound : BOOLEAN, value : Nat \ {0}],
         NEW plain, plain = ReadDecoded(body, limit)
  PROVE  /\ plain.sound /\ ~(limit > 0 /\ plain.size > limit)
              <=> body.sound /\ WithinLimit(limit, body.size)
         /\ body.sound /\ WithinLimit(limit, body.size) => plain = body
<1>1. limit \in Nat /\ body.size \in Nat /\ Successor(limit) = limit + 1
  BY SetupAssumption DEF Successor
<1>2. CASE limit = 0
  BY <1>2 DEF ReadDecoded, WithinLimit
<1>3. CASE limit > 0 /\ body.size >= limit + 1
  <2>1. plain = [body EXCEPT !.size = limit + 1, !.sound = TRUE]
    BY <1>1, <1>3 DEF ReadDecoded, ReadLimited
  <2>2. plain.size = limit + 1 /\ ~WithinLimit(limit, body.size)
    BY <1>1, <1>3, <2>1 DEF WithinLimit
  <2> QED
    BY <1>1, <1>3, <2>2
<1>4. CASE limit > 0 /\ ~(body.size >= limit + 1)
  <2>1. plain = body
    BY <1>1, <1>4 DEF ReadDecoded, ReadLimited
  <2> QED
    BY <1>1, <1>4, <2>1 DEF WithinLimit
<1> QED
  BY <1>1, <1>2, <1>3, <1>4

\* What becomes of a request, in terms of the request.
HandledAsDue(server, request, r) ==
  LET body == request.body  limit == server.limit
      barred == Barred(server, request)
      reached == /\ ~barred
                 /\ request.compressed => body.sound /\ WithinLimit(limit, body.size)
      bound == \/ request.handler = "readsNone"
               \/ body.value <= body.size /\ WithinLimit(limit, body.value)
  IN  /\ r.outcome # "unreached" <=> reached
      /\ r.outcome = "served" <=> reached /\ bound
      /\ r.status = 0 <=> barred
      /\ ~barred /\ ~reached => r.status \in {400, 413}
      /\ r.status = 500 <=> reached /\ ~bound /\ request.handler = "answersError"

\* What is rejected, served or not bound, by its status and outcome.
LEMMA Outcomes ==
  /\ \A status : Rejected(status).outcome = "unreached" /\ Rejected(status).status = status
  /\ RunInFull.outcome = "served" /\ RunInFull.status = 200
  /\ \A handler \in {"answersOK", "answersError"} :
       /\ BindFailed(handler).outcome = "failed"
       /\ BindFailed(handler).status \in {200, 500}
       /\ BindFailed(handler).status = 500 <=> handler = "answersError"
  BY DEF Rejected, RunInFull, BindFailed

LEMMA HandledRight ==
  ASSUME NEW server \in MainServers, NEW request \in RequestType,
         server.secure \/ (server.clientAuth = "none" /\ ~server.sni),
         ~(request.compressed /\ server.limit = MaxInt),
         NEW r, r = Handle(server, request)
  PROVE  HandledAsDue(server, request, r)
<1> DEFINE body == request.body
           limit == server.limit
           bound == \/ request.handler = "readsNone"
                    \/ body.value <= body.size /\ WithinLimit(limit, body.value)
           fits == body.sound /\ WithinLimit(limit, body.size)
           answer == IF bound THEN RunInFull ELSE BindFailed(request.handler)
<1>1. /\ limit \in 0..MaxInt /\ limit \in Nat
      /\ body \in [size : Nat, sound : BOOLEAN, value : Nat \ {0}]
      /\ request.compressed \in BOOLEAN
      /\ request.handler \in {"answersOK", "answersError", "readsNone"}
  BY SetupAssumption DEF MainServers, RequestType
<1>2. Serve(request.handler, body, limit) = answer
  BY <1>1, ServedIf
<1> HIDE DEF body, limit
<1>3. CASE Barred(server, request)
  <2>1. r = Rejected(0)
    BY <1>3, BarredIs DEF Handle
  <2>2. r.outcome = "unreached" /\ r.status = 0
    BY <2>1, Outcomes
  <2> QED
    BY <1>3, <2>2 DEF HandledAsDue
<1>4. ASSUME ~Barred(server, request), request.compressed => fits, r = answer
      PROVE  HandledAsDue(server, request, r)
  <2>1. CASE bound
    <3>1. r.outcome = "served" /\ r.status = 200
      BY <1>4, <2>1, Outcomes
    <3> QED
      BY <1>4, <2>1, <3>1 DEF HandledAsDue, body, limit
  <2>2. CASE ~bound
    <3>1. /\ r.outcome = "failed" /\ r.status \in {200, 500}
          /\ r.status = 500 <=> request.handler = "answersError"
      BY <1>1, <1>4, <2>2, Outcomes
    <3> QED
      BY <1>4, <2>2, <3>1 DEF HandledAsDue, body, limit
  <2> QED
    BY <2>1, <2>2
<1>5. CASE ~Barred(server, request) /\ ~request.compressed
  <2>1. r = Serve(request.handler, body, limit)
    BY <1>5, BarredIs DEF Handle, body, limit
  <2> QED
    BY <1>2, <1>4, <1>5, <2>1
<1>6. CASE ~Barred(server, request) /\ request.compressed
  <2> DEFINE plain == ReadDecoded(body, limit)
  <2>1. r = IF ~plain.sound THEN Rejected(400)
            ELSE IF limit > 0 /\ plain.size > limit THEN Rejected(413)
            ELSE Serve(request.handler, plain, limit)
    BY <1>6, BarredIs DEF Handle, body, limit
  <2>2. /\ plain.sound /\ ~(limit > 0 /\ plain.size > limit) <=> fits
        /\ fits => plain = body
    BY <1>1, <1>6, ReadIsAll DEF limit
  <2> HIDE DEF plain
  <2>3. CASE fits
    <3>1. r = Serve(request.handler, body, limit)
      BY <2>1, <2>2, <2>3
    <3> QED
      BY <1>2, <1>4, <1>6, <2>3, <3>1
  <2>4. CASE ~fits
    <3>1. r = Rejected(400) \/ r = Rejected(413)
      BY <2>1, <2>2, <2>4
    <3>2. r.outcome = "unreached" /\ r.status \in {400, 413}
      BY <3>1, Outcomes
    <3> QED
      BY <1>6, <2>4, <3>2 DEF HandledAsDue, body, limit
  <2> QED
    BY <2>3, <2>4
<1> QED
  BY <1>3, <1>5, <1>6

-----------------------------------------------------------------------------
\* The invariant of the algorithms: the input is one of those that were assumed, and the
\* result, once there is one, is what the code makes of it.
InputInv ==
  \/ task = "decide" /\ input \in HashListPairs
  \/ task = "setup" /\ input \in Environments
  \/ /\ task = "handle" /\ input.server \in MainServers /\ input.request \in Requests
     /\ input.server.secure \/ (input.server.clientAuth = "none" /\ ~input.server.sni)

ResultInv == result # Pending => result = Answer(task, input)

\* Whatever is computed, is computed once, from an input that does not change.
THEOREM AlgorithmsInvariance == AlgorithmsSpec => [](InputInv /\ ResultInv)
<1>1. AlgorithmsInit => InputInv /\ ResultInv
  <2> SUFFICES ASSUME AlgorithmsInit PROVE InputInv /\ ResultInv
    OBVIOUS
  <2>1. ResultInv
    BY DEF AlgorithmsInit, ResultInv
  <2>2. CASE task = "decide" /\ input \in HashListPairs
    BY <2>1, <2>2, Zenon DEF InputInv
  <2>3. CASE task = "setup" /\ input \in Environments
    BY <2>1, <2>3, Zenon DEF InputInv
  <2>4. CASE task = "handle"
    <3>1. /\ input \in [server : MainServers, request : Requests]
          /\ input.server.secure \/ (input.server.clientAuth = "none" /\ ~input.server.sni)
      BY <2>4 DEF AlgorithmsInit, MainServers
    <3>2. input.server \in MainServers /\ input.request \in Requests
      BY <3>1
    <3> QED
      BY <2>1, <2>4, <3>1, <3>2, Zenon DEF InputInv
  <2> QED
    BY <2>1, <2>2, <2>3, <2>4 DEF AlgorithmsInit
<1>2. InputInv /\ ResultInv /\ [AlgorithmsNext]_algorithmVars => (InputInv /\ ResultInv)'
  <2> SUFFICES ASSUME InputInv, ResultInv, [AlgorithmsNext]_algorithmVars
               PROVE  InputInv' /\ ResultInv'
    OBVIOUS
  <2>1. task' = task /\ input' = input
    BY DEF AlgorithmsNext, algorithmVars
  <2>2. ResultInv'
    BY <2>1 DEF AlgorithmsNext, algorithmVars, ResultInv
  <2> QED
    BY <2>1, <2>2 DEF InputInv
<1> QED
  BY <1>1, <1>2, PTL DEF AlgorithmsSpec

\* The core is restarted when and only when it must be, and the log says why, whatever
\* was started before and whatever the Panel sends.
THEOREM RestartsAreDue == AlgorithmsSpec => []DecidedRightly
<1>1. ASSUME InputInv, ResultInv
      PROVE  DecidedRightly
  <2>1. CASE ~Done("decide")
    BY <2>1 DEF DecidedRightly, KeptIffSameConfiguration, BlamedInboundDiffers
  <2>2. CASE Done("decide")
    <3> DEFINE force == input[1]  last == input[2]  incoming == input[3]  coreRunning == input[4]
    <3>1. result = RestartDecisionFor(force, last, incoming, coreRunning)
      BY <1>1, <2>2 DEF Done, ResultInv, Answer
    <3>2. /\ force \in BOOLEAN /\ last \in HashLists \cup {NoHashes}
          /\ incoming \in HashLists /\ coreRunning \in BOOLEAN
      <4>1. input \in BOOLEAN \X (HashLists \cup {NoHashes}) \X HashLists \X BOOLEAN
        BY <1>1, <2>2, AlgorithmsAssumption DEF Done, InputInv
      <4> QED
        BY <4>1
    <3> HIDE DEF force, last, incoming, coreRunning
    <3>4. IsRight(force, last, incoming, coreRunning, result)
      BY <3>1, <3>2, DecisionIsRight
    <3> QED
      BY <3>4, Zenon
      DEF force, last, incoming, coreRunning, IsRight, DecidedRightly, KeptIffSameConfiguration,
          BlamedInboundDiffers
  <2> QED
    BY <2>1, <2>2
<1> QED
  BY <1>1, AlgorithmsInvariance, PTL

\* A node comes up exactly if its environment is sound, and as it was set up.
THEOREM ComesUpIfSound == AlgorithmsSpec => []SetUpIffSound
<1>1. ASSUME InputInv, ResultInv
      PROVE  SetUpIffSound
  <2>1. CASE ~Done("setup")
    BY <2>1 DEF SetUpIffSound
  <2>2. CASE Done("setup")
    <3>1. result = Setup(input)
      BY <1>1, <2>2 DEF Done, ResultInv, Answer
    <3>2. input \in EnvironmentType
      BY <1>1, <2>2, AlgorithmsAssumption DEF Done, InputInv
    <3>3. Defaults.clientAuth = "mtls"
      BY SetupAssumption
    <3> QED
      BY <3>1, <3>2, <3>3, SetUpIsRight, Zenon DEF SetUpIffSound, OrDefault
  <2> QED
    BY <2>1, <2>2
<1> QED
  BY <1>1, AlgorithmsInvariance, PTL

\* A request reaches its handler, and is served there, exactly when the handshake, the token
\* and the limit of a body say so, whatever the request and whatever the limit.
THEOREM RequestsAreHeldToTheLimit == AlgorithmsSpec => []LimitIsKept
<1>1. ASSUME InputInv, ResultInv
      PROVE  LimitIsKept
  <2>1. CASE ~Done("handle")
    BY <2>1 DEF LimitIsKept
  <2>2. CASE Done("handle")
    <3>1. result = Handle(input.server, input.request)
      BY <1>1, <2>2 DEF Done, ResultInv, Answer
    <3>2. /\ input.server \in MainServers /\ input.request \in RequestType
          /\ input.server.secure \/ (input.server.clientAuth = "none" /\ ~input.server.sni)
      BY <1>1, <2>2, AlgorithmsAssumption DEF Done, InputInv, RequestType
    <3> QED
      <4>1. ASSUME ~(input.request.compressed /\ input.server.limit = MaxInt)
            PROVE  HandledAsDue(input.server, input.request, result)
        BY <3>1, <3>2, <4>1, HandledRight
      <4> QED
        BY <4>1 DEF LimitIsKept, HandledAsDue
  <2> QED
    BY <2>1, <2>2
<1> QED
  BY <1>1, AlgorithmsInvariance, PTL

-----------------------------------------------------------------------------
\* The configuration builder.  A build copies the document, and goes on copying and
\* writing to copies: what is shown is, of each part that it makes, where its object lies,
\* what the object is, and that the copies of all that the build does not touch are still
\* there; and of these copies, that they are the same trees as what they are copies of.

\* The kinds of values and objects do not mix.
LEMMA Kinds ==
  ASSUME NEW f, NEW s, NEW n
  PROVE  /\ IsMap([map |-> f]) /\ ~IsList([map |-> f]) /\ [map |-> f].map = f
         /\ IsList([list |-> f]) /\ ~IsMap([list |-> f]) /\ [list |-> f].list = f
         /\ IsRef(Ref(n)) /\ Ref(n).ref = n
         /\ ~IsRef(Scalar(s)) /\ ~IsMap(Scalar(s)) /\ ~IsList(Scalar(s)) /\ Scalar(s).scalar = s
  BY DEF IsMap, IsList, IsRef, Scalar, Ref

LEMMA LikeKind ==
  ASSUME NEW object, NEW f
  PROVE  /\ Children(Like(object, f)) = f
         /\ IsMap(Like(object, f)) <=> IsMap(object)
         /\ IsMap(object) => Like(object, f) = [map |-> f]
         /\ ~IsMap(object) => Like(object, f) = [list |-> f]
         /\ Like(Like(object, f), f) = Like(object, f)
  BY Kinds DEF Like, Children

LEMMA MovedKind ==
  ASSUME NEW value, NEW by
  PROVE  /\ IsRef(Moved(value, by)) <=> IsRef(value)
         /\ IsRef(value) => Moved(value, by) = Ref(value.ref + by) /\ Moved(value, by).ref = value.ref + by
         /\ ~IsRef(value) => Moved(value, by) = value
  BY Kinds DEF Moved

LEMMA CopyKind ==
  ASSUME NEW object, NEW by
  PROVE  /\ Children(Copy(object, by)) = Shifted(Children(object), by)
         /\ IsMap(Copy(object, by)) <=> IsMap(object)
         /\ IsMap(object) => Copy(object, by) = [map |-> Shifted(object.map, by)]
         /\ ~IsMap(object) => Copy(object, by) = [list |-> Shifted(object.list, by)]
         /\ Copy(object, by) = Like(Copy(object, by), Children(Copy(object, by)))
  BY LikeKind, Kinds DEF Copy, Children

LEMMA ShiftedAt ==
  ASSUME NEW f, NEW by, NEW key
  PROVE  /\ DOMAIN Shifted(f, by) = DOMAIN f
         /\ key \in DOMAIN f => Shifted(f, by)[key] = Moved(f[key], by)
         /\ At(Shifted(f, by), key) = Moved(At(f, key), by)
  BY Kinds DEF Shifted, At, Moved

\* A value that is moved is moved again.
LEMMA MovedTwice ==
  ASSUME NEW value, NEW a \in Int, NEW b \in Int, IsRef(value) => value.ref \in Int
  PROVE  Moved(Moved(value, a), b) = Moved(value, a + b)
<1>1. CASE IsRef(value)
  <2>1. (value.ref + a) + b = value.ref + (a + b)
    BY <1>1
  <2> QED BY <1>1, <2>1, MovedKind
<1>2. CASE ~IsRef(value)
  BY <1>2, MovedKind
<1> QED BY <1>1, <1>2

-----------------------------------------------------------------------------
\* The heaps that a build goes through: they begin with the document, and what is new
\* refers to what is new only.
IsObject(object, places) ==
  /\ object = Like(object, Children(object))
  /\ \A k \in DOMAIN Children(object) : IsValue(Children(object)[k], places)

Extends(doc, heap) ==
  /\ Len(heap) \in Nat /\ DOMAIN heap = 1..Len(heap) /\ Len(doc) <= Len(heap)
  /\ \A n \in 1..Len(doc) : heap[n] = doc[n]
  /\ \A n \in (Len(doc) + 1)..Len(heap) : IsObject(heap[n], (Len(doc) + 1)..Len(heap))

\* The places of a heap but for some hold on another heap what they held.
Grown(old, heap, but) ==
  Len(old) <= Len(heap) /\ \A n \in 1..Len(old) : n \notin but => heap[n] = old[n]

IsDoc(doc) ==
  /\ Len(doc) \in Nat /\ DOMAIN doc = 1..Len(doc)
  /\ \A n \in 1..Len(doc) : IsObject(doc[n], 1..Len(doc))

LEMMA DecodedIsDoc ==
  ASSUME NEW doc, NEW w, IsDecoded(doc, w)
  PROVE  IsDoc(doc) /\ Extends(doc, doc)
  BY DEF IsDecoded, IsDoc, Extends, IsObject

LEMMA Wider ==
  ASSUME NEW object, NEW P, NEW R, IsObject(object, P), P \subseteq R
  PROVE  IsObject(object, R)
  BY DEF IsObject, IsValue

\* A map, by its kind.
LEMMA MapObject ==
  ASSUME NEW f
  PROVE  /\ Children([map |-> f]) = f /\ Like([map |-> f], f) = [map |-> f]
         /\ \A P : IsObject([map |-> f], P) <=> \A k \in DOMAIN f : IsValue(f[k], P)
<1>1. Children([map |-> f]) = f /\ Like([map |-> f], f) = [map |-> f]
  BY Kinds DEF Children, Like
<1> QED BY <1>1 DEF IsObject

LEMMA AllObjects ==
  ASSUME NEW doc, IsDoc(doc), NEW heap, Extends(doc, heap), NEW n \in 1..Len(heap)
  PROVE  IsObject(heap[n], 1..Len(heap))
<1>1. CASE n \in 1..Len(doc)
  <2>1. IsObject(heap[n], 1..Len(doc))
    BY <1>1 DEF IsDoc, Extends
  <2>2. 1..Len(doc) \subseteq 1..Len(heap)
    BY DEF IsDoc, Extends
  <2> QED BY <2>1, <2>2, Wider
<1>2. CASE n \in (Len(doc) + 1)..Len(heap)
  <2>1. IsObject(heap[n], (Len(doc) + 1)..Len(heap))
    BY <1>2 DEF Extends
  <2>2. (Len(doc) + 1)..Len(heap) \subseteq 1..Len(heap)
    BY DEF IsDoc, Extends
  <2> QED BY <2>1, <2>2, Wider
<1> QED BY <1>1, <1>2 DEF IsDoc, Extends

LEMMA MovedValue ==
  ASSUME NEW size \in Nat, NEW by \in Nat, NEW value, IsValue(value, 1..size)
  PROVE  IsValue(Moved(value, by), (by + 1)..(by + size))
<1>1. CASE IsRef(value)
  BY <1>1, MovedKind, Kinds DEF IsValue
<1>2. CASE ~IsRef(value)
  BY <1>2, MovedKind DEF IsValue
<1> QED BY <1>1, <1>2

LEMMA CopyObject ==
  ASSUME NEW size \in Nat, NEW by \in Nat, NEW object, IsObject(object, 1..size)
  PROVE  IsObject(Copy(object, by), (by + 1)..(by + size))
<1>1. \A k \in DOMAIN Children(object) :
        IsValue(Shifted(Children(object), by)[k], (by + 1)..(by + size))
  BY MovedValue, ShiftedAt DEF IsObject
<1> QED BY <1>1, CopyKind, ShiftedAt DEF IsObject

\* cloneMap and cloneValue.
LEMMA Cloned ==
  ASSUME NEW doc, IsDoc(doc), NEW heap, Extends(doc, heap), NEW value
  PROVE  LET copy == Clone(heap, value).heap
         IN  /\ Extends(doc, copy) /\ Len(copy) = Len(heap) + Len(heap)
             /\ \A n \in 1..Len(heap) : copy[n] = heap[n]
             /\ \A n \in 1..Len(heap) : copy[n + Len(heap)] = Copy(heap[n], Len(heap))
<1> DEFINE size == Len(heap)
           fresh == [n \in 1..size |-> Copy(heap[n], size)]
           copy == heap \o fresh
<1>1. size \in Nat /\ DOMAIN heap = 1..size /\ DOMAIN fresh = 1..size
  BY DEF Extends
<1>2. Clone(heap, value).heap = copy
  BY DEF Clone
<1>3. /\ Len(copy) = size + size /\ DOMAIN copy = 1..(size + size)
      /\ \A n \in 1..size : copy[n] = heap[n]
      /\ \A n \in 1..size : copy[size + n] = fresh[n]
  <2> HIDE DEF size, fresh
  <2> QED BY <1>1
<1>4. \A n \in 1..size : copy[n + size] = Copy(heap[n], size)
  <2> HIDE DEF size, copy
  <2>1. \A n \in 1..size : n + size = size + n /\ fresh[n] = Copy(heap[n], size)
    BY <1>1
  <2> QED BY <2>1, <1>3
<1>5. \A n \in 1..size : IsObject(copy[n + size], (size + 1)..(size + size))
  <2> HIDE DEF size, copy
  <2> QED BY <1>1, <1>4, AllObjects, CopyObject DEF size
<1>6. Extends(doc, copy)
  <2> HIDE DEF copy, fresh
  <2>1. Len(doc) <= size /\ Len(doc) \in Nat
    BY DEF Extends, IsDoc
  <2>2. \A n \in 1..Len(doc) : copy[n] = doc[n]
    BY <1>1, <1>3, <2>1 DEF Extends
  <2>3. ASSUME NEW n \in (Len(doc) + 1)..(size + size)
        PROVE  IsObject(copy[n], (Len(doc) + 1)..(size + size))
    <3>1. CASE n <= size
      <4>1. IsObject(heap[n], (Len(doc) + 1)..size)
        BY <3>1, <2>1 DEF Extends
      <4>2. copy[n] = heap[n]
        BY <3>1, <1>1, <2>1, <1>3
      <4>3. (Len(doc) + 1)..size \subseteq (Len(doc) + 1)..(size + size)
        BY <1>1, <2>1
      <4> HIDE DEF size
      <4> QED BY <4>1, <4>2, <4>3 DEF IsObject, IsValue
    <3>2. CASE n > size
      <4>1. n - size \in 1..size /\ (n - size) + size = n
        BY <3>2, <1>1, <2>1
      <4>2. IsObject(copy[n], (size + 1)..(size + size))
        BY <4>1, <1>5
      <4>3. (size + 1)..(size + size) \subseteq (Len(doc) + 1)..(size + size)
        BY <1>1, <2>1
      <4> HIDE DEF size
      <4> QED BY <4>2, <4>3 DEF IsObject, IsValue
    <3> HIDE DEF size
    <3> QED BY <3>1, <3>2, <1>1, <2>1
  <2> QED BY <1>1, <1>3, <2>1, <2>2, <2>3 DEF Extends
<1> HIDE DEF copy, fresh
<1> QED BY <1>2, <1>3, <1>4, <1>6

LEMMA Added ==
  ASSUME NEW doc, IsDoc(doc), NEW heap, Extends(doc, heap)
  PROVE  LET new == New(heap, [map |-> <<>>])
         IN  /\ Extends(doc, new.heap) /\ Len(new.heap) = Len(heap) + 1
             /\ \A n \in 1..Len(heap) : new.heap[n] = heap[n]
             /\ new.heap[Len(heap) + 1] = [map |-> <<>>]
             /\ new.value = Ref(Len(heap) + 1)
<1> DEFINE size == Len(heap)
           new == Append(heap, [map |-> <<>>])
<1>1. size \in Nat /\ DOMAIN heap = 1..size /\ Len(doc) \in Nat /\ Len(doc) <= size
  BY DEF Extends, IsDoc
<1>2. /\ New(heap, [map |-> <<>>]).heap = new
      /\ New(heap, [map |-> <<>>]).value = Ref(size + 1)
  BY DEF New
<1>3. /\ Len(new) = size + 1 /\ DOMAIN new = 1..(size + 1)
      /\ \A n \in 1..size : new[n] = heap[n]
      /\ new[size + 1] = [map |-> <<>>]
  <2> DEFINE o == [map |-> <<>>]
  <2> HIDE DEF size, o
  <2> QED BY <1>1
<1>4. IsObject([map |-> <<>>], (Len(doc) + 1)..(size + 1))
  <2>1. DOMAIN <<>> = {}
    OBVIOUS
  <2> QED BY <2>1, MapObject
<1>5. ASSUME NEW n \in (Len(doc) + 1)..(size + 1)
      PROVE  IsObject(new[n], (Len(doc) + 1)..(size + 1))
  <2> HIDE DEF new
  <2>1. CASE n = size + 1
    BY <2>1, <1>3, <1>4
  <2>2. CASE n # size + 1
    <3>1. n \in (Len(doc) + 1)..size /\ n \in 1..size
      BY <2>2, <1>1
    <3>2. IsObject(heap[n], (Len(doc) + 1)..size)
      BY <3>1 DEF Extends
    <3>3. (Len(doc) + 1)..size \subseteq (Len(doc) + 1)..(size + 1)
      BY <1>1
    <3> QED BY <3>1, <3>2, <3>3, <1>3 DEF IsObject, IsValue
  <2> QED BY <2>1, <2>2
<1>6. \A n \in 1..Len(doc) : new[n] = doc[n]
  <2> HIDE DEF new
  <2> QED BY <1>1, <1>3 DEF Extends
<1> HIDE DEF new
<1> QED BY <1>1, <1>2, <1>3, <1>5, <1>6 DEF Extends

\* Keys of a map are set, to a value that is scalar or new.
IsStored(doc, heap, stored, p, object) ==
  /\ Extends(doc, stored) /\ Len(stored) = Len(heap)
  /\ Grown(heap, stored, {p})
  /\ stored[p] = object

LEMMA Stored ==
  ASSUME NEW doc, IsDoc(doc), NEW heap, Extends(doc, heap),
         NEW p \in (Len(doc) + 1)..Len(heap), NEW f, heap[p] = [map |-> f],
         NEW keys, NEW new, IsValue(new, (Len(doc) + 1)..Len(heap)),
         NEW stored, stored = PutAll(heap, Ref(p), keys, new)
  PROVE  IsStored(doc, heap, stored, p, [map |-> With(f, keys, new)])
<1> DEFINE after == [heap EXCEPT ![p] = [map |-> With(f, keys, new)]]
           places == (Len(doc) + 1)..Len(heap)
<1>0. Len(heap) \in Nat /\ Len(doc) \in Nat /\ DOMAIN heap = 1..Len(heap) /\ Len(doc) <= Len(heap)
  BY DEF Extends, IsDoc
<1>1. PutAll(heap, Ref(p), keys, new) = after
  <2>1. Ref(p).ref = p /\ MapAt(heap, Ref(p)) = f
    BY DEF MapAt, Ref
  <2> QED BY <2>1, Zenon DEF PutAll
<1>2. DOMAIN after = 1..Len(heap) /\ Len(after) = Len(heap)
  BY <1>0
<1>3. after[p] = [map |-> With(f, keys, new)]
  BY <1>0
<1>4. \A n \in 1..Len(heap) : n # p => after[n] = heap[n]
  BY <1>0
<1>5. IsObject([map |-> With(f, keys, new)], places)
  <2>1. \A k \in DOMAIN f : IsValue(f[k], places)
    <3>1. IsObject(heap[p], places)
      BY DEF Extends
    <3> QED BY <3>1, MapObject, SMTT(30)
  <2>2. ASSUME NEW k \in DOMAIN With(f, keys, new)
        PROVE  IsValue(With(f, keys, new)[k], places)
    <3>1. CASE k \in keys
      <4>1. With(f, keys, new)[k] = new
        BY <3>1 DEF With
      <4> QED BY <4>1
    <3>2. CASE k \notin keys
      <4>1. k \in DOMAIN f /\ With(f, keys, new)[k] = f[k]
        BY <3>2, <2>2 DEF With
      <4> QED BY <4>1, <2>1
    <3> QED BY <3>1, <3>2
  <2> QED BY <2>2, MapObject
<1>6. \A n \in places : IsObject(after[n], places)
  <2> HIDE DEF after
  <2> QED BY <1>0, <1>3, <1>4, <1>5 DEF Extends
<1> HIDE DEF after
<1> QED BY <1>0, <1>1, <1>2, <1>3, <1>4, <1>6 DEF Extends, Grown, IsStored

-----------------------------------------------------------------------------
\* The map that a value of the document stands for, if it does.
MapIn(doc, w) == IF IsRef(w) /\ IsMap(doc[w.ref]) THEN doc[w.ref].map ELSE <<>>

\* The places of the document whose copies, moved by s, are on a heap as they were made.
Mirrored(doc, heap, s) ==
  {q \in 1..Len(doc) : q + s \in 1..Len(heap) /\ heap[q + s] = Copy(doc[q], s)}

\* The copies of Q are there, and not among the places A that are written to.
Ready(doc, Q, heap, A, s) == Q \subseteq Mirrored(doc, heap, s) /\ \A q \in Q : q + s \notin A

LEMMA ReadyStays ==
  ASSUME NEW doc, NEW Q, NEW A, NEW B, NEW s \in Nat, NEW old, NEW heap,
         Len(doc) \in Nat, Len(old) \in Nat, Len(heap) \in Nat,
         Grown(old, heap, A), Ready(doc, Q, old, A, s), B \cap 1..Len(old) \subseteq A
  PROVE  Ready(doc, Q, heap, B, s)
<1> SUFFICES ASSUME NEW q \in Q
             PROVE  q \in Mirrored(doc, heap, s) /\ q + s \notin B
  BY DEF Ready
<1>1. /\ q \in 1..Len(doc) /\ q + s \in 1..Len(old) /\ old[q + s] = Copy(doc[q], s)
      /\ q + s \notin A
  BY DEF Ready, Mirrored
<1>2. heap[q + s] = old[q + s] /\ q + s \in 1..Len(heap)
  BY <1>1 DEF Grown
<1> QED BY <1>1, <1>2 DEF Mirrored

\* Moved copies of copies are copies.
LEMMA CopyTwice ==
  ASSUME NEW object, NEW places, NEW a \in Nat, NEW b \in Nat,
         IsObject(object, places), places \subseteq Int
  PROVE  Copy(Copy(object, a), b) = Copy(object, a + b)
<1> DEFINE f == Children(object)
<1>1. Shifted(Shifted(f, a), b) = Shifted(f, a + b)
  <2>1. \A k \in DOMAIN f : Moved(Moved(f[k], a), b) = Moved(f[k], a + b)
    <3> SUFFICES ASSUME NEW k \in DOMAIN f PROVE Moved(Moved(f[k], a), b) = Moved(f[k], a + b)
      OBVIOUS
    <3>1. IsRef(f[k]) => f[k].ref \in Int
      BY DEF IsObject, IsValue
    <3> HIDE DEF f
    <3> QED BY <3>1, MovedTwice
  <2>2. DOMAIN Shifted(f, a) = DOMAIN f /\ \A k \in DOMAIN f : Shifted(f, a)[k] = Moved(f[k], a)
    BY DEF Shifted
  <2> HIDE DEF f
  <2>3. Shifted(Shifted(f, a), b) = [k \in DOMAIN f |-> Moved(Moved(f[k], a), b)]
    BY <2>2 DEF Shifted
  <2> QED BY <2>1, <2>3 DEF Shifted
<1>2. CASE IsMap(object)
  <2>1. Copy(object, a) = [map |-> Shifted(f, a)] /\ Copy(object, a + b) = [map |-> Shifted(f, a + b)]
    BY <1>2 DEF Copy, Like
  <2>2. Copy([map |-> Shifted(f, a)], b) = [map |-> Shifted(Shifted(f, a), b)]
    BY Kinds, MapObject DEF Copy, Like
  <2> QED BY <2>1, <2>2, <1>1
<1>3. CASE ~IsMap(object)
  <2>1. Copy(object, a) = [list |-> Shifted(f, a)] /\ Copy(object, a + b) = [list |-> Shifted(f, a + b)]
    BY <1>3 DEF Copy, Like
  <2>2. Children([list |-> Shifted(f, a)]) = Shifted(f, a)
    BY Kinds DEF Children
  <2>3. Copy([list |-> Shifted(f, a)], b) = [list |-> Shifted(Shifted(f, a), b)]
    BY <2>2, Kinds DEF Copy, Like
  <2> QED BY <2>1, <2>3, <1>1
<1> QED BY <1>2, <1>3

\* ensureMap, of a value that is as a value of the document, moved by s: a new map, with
\* the values of the document moved by t.
IsMade(doc, w, heap, made, s, t) ==
  /\ t \in Nat /\ (IsRef(w) /\ IsMap(doc[w.ref]) => Len(heap) <= t)
  /\ Extends(doc, made.heap) /\ Grown(heap, made.heap, {})
  /\ made.value = Ref(made.value.ref) /\ made.value.ref \in (Len(heap) + 1)..Len(made.heap)
  /\ made.heap[made.value.ref] = [map |-> Shifted(MapIn(doc, w), t)]
  /\ \A Q, A : /\ A \subseteq 1..Len(heap)
               /\ Ready(doc, Q, heap, A, s)
               => /\ Ready(doc, Q, made.heap, A, t)
                  /\ (IsRef(w) => w.ref \notin Q) =>
                       Ready(doc, Q, made.heap, A \cup {made.value.ref}, t)

LEMMA EmptyShifted == ASSUME NEW t PROVE Shifted(<<>>, t) = <<>>
<1>1. DOMAIN <<>> = {}
  OBVIOUS
<1>2. Shifted(<<>>, t) = [k \in {} |-> Moved(<<>>[k], t)]
  BY <1>1 DEF Shifted
<1> QED BY <1>2

LEMMA MapMade ==
  ASSUME NEW doc, IsDoc(doc), NEW w, IsValue(w, 1..Len(doc)), NEW heap, Extends(doc, heap),
         NEW s \in Nat, IsRef(w) => w.ref \in Mirrored(doc, heap, s)
  PROVE  \E t : IsMade(doc, w, heap, EnsureMap(heap, Moved(w, s)), s, t)
<1> DEFINE size == Len(heap)
           v == Moved(w, s)
<1>0. size \in Nat /\ Len(doc) \in Nat /\ DOMAIN heap = 1..size
  BY DEF Extends, IsDoc
<1>1. CASE IsRef(w) /\ IsMap(doc[w.ref])
  <2> DEFINE copy == Clone(heap, v)
             t == s + size
             r == w.ref + t
  <2>1. /\ w.ref \in 1..Len(doc) /\ w.ref + s \in 1..size
        /\ heap[w.ref + s] = Copy(doc[w.ref], s)
    BY <1>1 DEF Mirrored
  <2>2. v = Ref(w.ref + s) /\ IsRef(v) /\ v.ref = w.ref + s
    BY <1>1, MovedKind, Kinds
  <2>3. IsMap(heap[v.ref])
    BY <1>1, <2>1, <2>2, CopyKind
  <2>4. EnsureMap(heap, v) = copy
    BY <2>2, <2>3 DEF EnsureMap
  <2>5. /\ Extends(doc, copy.heap) /\ Len(copy.heap) = size + size
        /\ \A n \in 1..size : copy.heap[n] = heap[n]
        /\ \A n \in 1..size : copy.heap[n + size] = Copy(heap[n], size)
    BY Cloned
  <2>6. copy.value = Ref(r) /\ copy.value.ref = r
    <3>1. copy.value = Moved(v, size)
      BY DEF Clone
    <3>2. v.ref + size = r
      BY <2>1, <2>2, <1>0
    <3> QED BY <3>1, <3>2, <2>2, MovedKind, Kinds
  <2>7. t \in Nat /\ r \in (size + 1)..(size + size) /\ Len(heap) <= t
    BY <1>0, <2>1
  <2>8. Mirrored(doc, heap, s) \subseteq Mirrored(doc, copy.heap, t)
    <3> SUFFICES ASSUME NEW q \in Mirrored(doc, heap, s)
                 PROVE  q + t \in 1..(size + size) /\ copy.heap[q + t] = Copy(doc[q], t)
      BY <2>5 DEF Mirrored
    <3>1. q \in 1..Len(doc) /\ q + s \in 1..size /\ heap[q + s] = Copy(doc[q], s)
      BY DEF Mirrored
    <3>2. (q + s) + size = q + t
      BY <3>1, <1>0
    <3>3. copy.heap[q + t] = Copy(heap[q + s], size)
      BY <2>5, <3>1, <3>2
    <3>4. Copy(Copy(doc[q], s), size) = Copy(doc[q], t)
      <4>1. IsObject(doc[q], 1..Len(doc)) /\ 1..Len(doc) \subseteq Int
        BY <3>1 DEF IsDoc
      <4> QED BY <4>1, <1>0, CopyTwice
    <3> QED BY <3>1, <3>2, <3>3, <3>4, <1>0
  <2>9. copy.heap[r] = [map |-> Shifted(MapIn(doc, w), t)]
    <3>1. copy.heap[r] = Copy(doc[w.ref], t)
      BY <1>1, <2>8 DEF Mirrored
    <3> QED BY <3>1, <1>1, CopyKind DEF MapIn
  <2>10. Grown(heap, copy.heap, {})
    BY <2>5, <1>0 DEF Grown
  <2>11. ASSUME NEW Q, NEW A, A \subseteq 1..size, Ready(doc, Q, heap, A, s)
         PROVE  /\ Ready(doc, Q, copy.heap, A, t)
                /\ w.ref \notin Q => Ready(doc, Q, copy.heap, A \cup {r}, t)
    <3>1. Q \subseteq Mirrored(doc, copy.heap, t)
      BY <2>8, <2>11 DEF Ready
    <3>2. ASSUME NEW q \in Q
          PROVE  q + t \notin A /\ (w.ref \notin Q => q + t # r)
      <4>1. q \in 1..Len(doc)
        BY <2>11 DEF Ready, Mirrored
      <4>2. q + s \in 1..size
        BY <2>11 DEF Ready, Mirrored
      <4>3. q + t > size
        BY <4>1, <4>2, <1>0
      <4>4. q # w.ref => q + t # r
        BY <4>1, <2>1, <2>7
      <4>5. q + t \notin A
        BY <2>11, <4>1, <4>3, <1>0
      <4> QED BY <4>4, <4>5
    <3> QED BY <3>1, <3>2 DEF Ready
  <2> HIDE DEF copy, t, r
  <2>12. IsMade(doc, w, heap, copy, s, t)
    BY <2>5, <2>6, <2>7, <2>9, <2>10, <2>11, <1>1 DEF IsMade
  <2> QED BY <2>4, <2>12
<1>2. CASE ~(IsRef(w) /\ IsMap(doc[w.ref]))
  <2> DEFINE new == New(heap, [map |-> <<>>])
  <2>1. EnsureMap(heap, v) = new
    <3>1. IsRef(w) => IsRef(v) /\ v.ref = w.ref + s /\ ~IsMap(heap[v.ref])
      <4>1. ASSUME IsRef(w) PROVE heap[w.ref + s] = Copy(doc[w.ref], s)
        BY <4>1 DEF Mirrored
      <4> QED BY <4>1, <1>2, CopyKind, MovedKind
    <3>2. ~IsRef(w) => ~IsRef(v)
      BY MovedKind
    <3> QED BY <3>1, <3>2 DEF EnsureMap
  <2>2. /\ Extends(doc, new.heap) /\ Len(new.heap) = size + 1
        /\ \A n \in 1..size : new.heap[n] = heap[n]
        /\ new.heap[size + 1] = [map |-> <<>>]
        /\ new.value = Ref(size + 1) /\ new.value.ref = size + 1
    <3>1. /\ Extends(doc, new.heap) /\ Len(new.heap) = size + 1
          /\ \A n \in 1..size : new.heap[n] = heap[n]
          /\ new.heap[size + 1] = [map |-> <<>>]
          /\ new.value = Ref(size + 1)
      BY Added
    <3> QED BY <3>1, Kinds
  <2>3. MapIn(doc, w) = <<>> /\ Shifted(<<>>, s) = <<>>
    BY <1>2, EmptyShifted DEF MapIn
  <2>4. Grown(heap, new.heap, {}) /\ Len(new.heap) \in Nat
    BY <2>2, <1>0 DEF Grown
  <2>5. ASSUME NEW Q, NEW A, A \subseteq 1..size, Ready(doc, Q, heap, A, s)
        PROVE  Ready(doc, Q, new.heap, A, s) /\ Ready(doc, Q, new.heap, A \cup {size + 1}, s)
    <3>1. Grown(heap, new.heap, A)
      BY <2>4 DEF Grown
    <3>2. (A \cup {size + 1}) \cap 1..size \subseteq A
      BY <1>0
    <3> HIDE DEF new
    <3> QED BY <3>1, <3>2, <2>4, <2>5, <1>0, ReadyStays
  <2> HIDE DEF new
  <2>6. IsMade(doc, w, heap, new, s, s)
    <3>1. ~(IsRef(w) /\ IsMap(doc[w.ref]))
      BY <1>2
    <3> QED BY <3>1, <2>2, <2>3, <2>4, <2>5, <1>0 DEF IsMade
  <2> QED BY <2>1, <2>6
<1> QED BY <1>1, <1>2

-----------------------------------------------------------------------------
\* The function of Trees is one, whatever the heap.
IsUnfolding(f, heap, n) ==
  f = [k \in 0..n |-> IF k = 0 THEN [p \in DOMAIN heap |-> Scalar(Nil)] ELSE Deeper(heap, f[k - 1])]

LEMMA UnfoldingExists ==
  ASSUME NEW heap, NEW n \in Nat
  PROVE  \E f : IsUnfolding(f, heap, n)
<1> DEFINE S == {m \in Nat : \E f : IsUnfolding(f, heap, m)}
           bottom == [p \in DOMAIN heap |-> Scalar(Nil)]
<1>1. 0 \in S
  <2> DEFINE f == [k \in 0..0 |-> bottom]
  <2>1. f = [k \in 0..0 |-> IF k = 0 THEN bottom ELSE Deeper(heap, f[k - 1])]
    OBVIOUS
  <2> QED BY <2>1 DEF IsUnfolding
<1>2. ASSUME NEW m \in Nat, m \in S PROVE m + 1 \in S
  <2>1. PICK f : IsUnfolding(f, heap, m)
    BY <1>2
  <2> DEFINE g == [k \in 0..(m + 1) |-> IF k = m + 1 THEN Deeper(heap, f[m]) ELSE f[k]]
             h == [k \in 0..(m + 1) |-> IF k = 0 THEN bottom ELSE Deeper(heap, g[k - 1])]
  <2>2. ASSUME NEW k \in 0..(m + 1) PROVE g[k] = h[k]
    <3>1. CASE k = m + 1
      BY <3>1
    <3>2. CASE k = 0
      BY <3>2, <2>1 DEF IsUnfolding
    <3>3. CASE k \in 1..m
      <4>1. k - 1 \in 0..m /\ k - 1 # m + 1 /\ k \in 0..m /\ k # 0 /\ k # m + 1
        BY <3>3
      <4>2. g[k] = f[k] /\ g[k - 1] = f[k - 1]
        BY <4>1
      <4>3. f[k] = Deeper(heap, f[k - 1])
        BY <2>1, <4>1 DEF IsUnfolding
      <4>4. h[k] = Deeper(heap, g[k - 1])
        BY <4>1
      <4> QED BY <4>2, <4>3, <4>4
    <3> QED BY <3>1, <3>2, <3>3
  <2>3. g = h
    <3> HIDE DEF bottom
    <3>1. g = [k \in 0..(m + 1) |-> g[k]] /\ h = [k \in 0..(m + 1) |-> h[k]]
      OBVIOUS
    <3> HIDE DEF g, h
    <3> QED BY <2>2, <3>1
  <2>4. IsUnfolding(g, heap, m + 1)
    BY <2>3 DEF IsUnfolding
  <2> HIDE DEF g
  <2> QED BY <2>4
<1> HIDE DEF S
<1>3. n \in S
  BY <1>1, <1>2, NatSetInduction
<1> QED BY <1>3 DEF S

LEMMA TreesUnfold ==
  ASSUME NEW heap
  PROVE  IsUnfolding(Trees(heap), heap, Depth)
<1>1. \E f : IsUnfolding(f, heap, Depth)
  BY UnfoldingExists, BuildingAssumption
<1>2. Trees(heap) = CHOOSE f : IsUnfolding(f, heap, Depth)
  BY DEF Trees, IsUnfolding
<1> QED BY <1>1, <1>2

\* A value as a tree of depth n, and the values of an object.
TreeOf(heap, n, value) == IF IsRef(value) THEN Trees(heap)[n][value.ref] ELSE value
TreesIn(heap, n, children) == [k \in DOMAIN children |-> TreeOf(heap, n, children[k])]

LEMMA TreeAt ==
  ASSUME NEW heap, NEW p \in DOMAIN heap, NEW n \in 1..Depth
  PROVE  Trees(heap)[n][p] = Like(heap[p], TreesIn(heap, n - 1, Children(heap[p])))
<1>1. n \in 0..Depth /\ n # 0
  BY BuildingAssumption
<1>2. Trees(heap)[n] = Deeper(heap, Trees(heap)[n - 1])
  BY <1>1, TreesUnfold DEF IsUnfolding
<1> QED BY <1>2 DEF Deeper, TreesIn, TreeOf

LEMMA TreeAtZero ==
  ASSUME NEW heap, NEW p \in DOMAIN heap
  PROVE  Trees(heap)[0][p] = Scalar(Nil)
<1>1. 0 \in 0..Depth
  BY BuildingAssumption
<1>2. Trees(heap)[0] = [q \in DOMAIN heap |-> Scalar(Nil)]
  BY <1>1, TreesUnfold DEF IsUnfolding
<1> QED BY <1>2

\* Places that lead to each other only.
Closed(doc, Q) ==
  \A q \in Q : /\ q \in 1..Len(doc)
               /\ \A k \in DOMAIN Children(doc[q]) :
                    IsRef(Children(doc[q])[k]) => Children(doc[q])[k].ref \in Q

\* Copies are the same trees.
LEMMA CopiesAlike ==
  ASSUME NEW doc, IsDoc(doc), NEW heap, Extends(doc, heap), NEW s \in Nat,
         NEW Q, Closed(doc, Q), Q \subseteq Mirrored(doc, heap, s),
         NEW n \in 0..Depth, NEW q \in Q
  PROVE  Trees(heap)[n][q + s] = Trees(doc)[n][q]
<1> DEFINE S == {m \in Nat : m <= Depth => \A p \in Q : Trees(heap)[m][p + s] = Trees(doc)[m][p]}
<1>0. DOMAIN heap = 1..Len(heap) /\ DOMAIN doc = 1..Len(doc) /\ Depth \in Nat
  BY BuildingAssumption DEF Extends, IsDoc
<1>1. \A p \in Q : /\ p \in DOMAIN doc /\ p + s \in DOMAIN heap
                   /\ heap[p + s] = Copy(doc[p], s)
  BY <1>0 DEF Mirrored
<1>2. 0 \in S
  BY <1>1, TreeAtZero
<1>3. ASSUME NEW m \in Nat, m \in S PROVE m + 1 \in S
  <2> SUFFICES ASSUME m + 1 <= Depth, NEW p \in Q
               PROVE  Trees(heap)[m + 1][p + s] = Trees(doc)[m + 1][p]
    OBVIOUS
  <2>1. m + 1 \in 1..Depth /\ (m + 1) - 1 = m /\ m <= Depth
    BY <1>0
  <2> DEFINE f == Children(doc[p])
             g == Children(heap[p + s])
  <2>2. g = Shifted(f, s)
    BY <1>1, CopyKind
  <2>3. ASSUME NEW k \in DOMAIN f PROVE TreeOf(heap, m, g[k]) = TreeOf(doc, m, f[k])
    <3>1. g[k] = Moved(f[k], s)
      BY <2>2, ShiftedAt
    <3>2. CASE IsRef(f[k])
      <4>1. f[k].ref \in Q
        BY <3>2 DEF Closed
      <4>2. Trees(heap)[m][f[k].ref + s] = Trees(doc)[m][f[k].ref]
        BY <1>3, <2>1, <4>1
      <4> QED BY <3>1, <3>2, <4>2, MovedKind DEF TreeOf
    <3>3. CASE ~IsRef(f[k])
      BY <3>1, <3>3, MovedKind DEF TreeOf
    <3> QED BY <3>2, <3>3
  <2>4. TreesIn(heap, m, g) = TreesIn(doc, m, f)
    <3>1. DOMAIN g = DOMAIN f
      BY <2>2, ShiftedAt
    <3> HIDE DEF f, g
    <3> QED BY <2>3, <3>1 DEF TreesIn
  <2>5. /\ Trees(heap)[m + 1][p + s] = Like(heap[p + s], TreesIn(heap, m, g))
        /\ Trees(doc)[m + 1][p] = Like(doc[p], TreesIn(doc, m, f))
    <3>1. p + s \in DOMAIN heap /\ p \in DOMAIN doc
      BY <1>1
    <3>2. Trees(heap)[m + 1][p + s] = Like(heap[p + s], TreesIn(heap, (m + 1) - 1, g))
      BY <3>1, <2>1, TreeAt
    <3>3. Trees(doc)[m + 1][p] = Like(doc[p], TreesIn(doc, (m + 1) - 1, f))
      BY <3>1, <2>1, TreeAt
    <3> QED BY <3>2, <3>3, <2>1
  <2>6. IsMap(heap[p + s]) <=> IsMap(doc[p])
    BY <1>1, CopyKind
  <2> QED BY <2>4, <2>5, <2>6 DEF Like
<1> HIDE DEF S
<1>4. n \in S
  BY <1>2, <1>3, <1>0, NatSetInduction
<1> QED BY <1>4, <1>0 DEF S

LEMMA ValuesAlike ==
  ASSUME NEW doc, IsDoc(doc), NEW heap, Extends(doc, heap), NEW s \in Nat,
         NEW Q, Closed(doc, Q), Q \subseteq Mirrored(doc, heap, s),
         NEW n \in 0..Depth, NEW value, IsRef(value) => value.ref \in Q
  PROVE  TreeOf(heap, n, Moved(value, s)) = TreeOf(doc, n, value)
<1>1. CASE IsRef(value)
  BY <1>1, CopiesAlike, MovedKind DEF TreeOf
<1>2. CASE ~IsRef(value)
  BY <1>2, MovedKind DEF TreeOf
<1> QED BY <1>1, <1>2

-----------------------------------------------------------------------------
\* The parts of a build, each with the places that it writes to, among places A that are
\* still to be written to, and what it leaves there.
Part(doc, w, key) == At(MapIn(doc, w), key)
Place(w) == IF IsRef(w) THEN {w.ref} ELSE {}

LEMMA PartIsValue ==
  ASSUME NEW doc, IsDoc(doc), NEW w, IsValue(w, 1..Len(doc)), NEW key
  PROVE  IsValue(Part(doc, w, key), 1..Len(doc))
<1>0. IsValue(Scalar(Nil), 1..Len(doc))
  BY Kinds DEF IsValue
<1>1. CASE IsRef(w) /\ IsMap(doc[w.ref])
  <2>1. IsObject(doc[w.ref], 1..Len(doc)) /\ Children(doc[w.ref]) = MapIn(doc, w)
    BY <1>1 DEF IsValue, IsDoc, MapIn, Children
  <2> QED BY <2>1, <1>0 DEF Part, At, IsObject
<1>2. CASE ~(IsRef(w) /\ IsMap(doc[w.ref]))
  <2>1. MapIn(doc, w) = <<>> /\ DOMAIN <<>> = {}
    BY <1>2 DEF MapIn
  <2> QED BY <2>1, <1>0 DEF Part, At
<1> QED BY <1>1, <1>2

\* What EnsureMap makes of a key of a map.
IsAdded(doc, heap, made, w, Q, A, t, r) ==
  /\ Extends(doc, made.heap) /\ Grown(heap, made.heap, {})
  /\ made.value = Ref(r)
  /\ made.heap[r] = [map |-> Shifted(MapIn(doc, w), t)]
  /\ Ready(doc, Q, made.heap, A \cup {r}, t)

LEMMA KeyMade ==
  ASSUME NEW doc, IsDoc(doc), NEW heap, Extends(doc, heap),
         NEW w, IsValue(w, 1..Len(doc)), NEW s \in Nat,
         NEW A, A \subseteq 1..Len(heap), NEW Q, Place(w) \cap Q = {},
         Ready(doc, Q \cup Place(w), heap, A, s),
         NEW value, value = Moved(w, s)
  PROVE  LET made == EnsureMap(heap, value)
         IN  \E t \in Nat, r \in (Len(heap) + 1)..Len(made.heap) : IsAdded(doc, heap, made, w, Q, A, t, r)
<1>1. IsRef(w) => w.ref \in Mirrored(doc, heap, s)
  BY DEF Ready, Place
<1>2. PICK t : IsMade(doc, w, heap, EnsureMap(heap, value), s, t)
  BY <1>1, MapMade
<1>3. Ready(doc, Q, heap, A, s) /\ (IsRef(w) => w.ref \notin Q)
  BY DEF Ready, Place
<1> DEFINE made == EnsureMap(heap, value)
<1> HIDE DEF made
<1>4. /\ t \in Nat /\ Extends(doc, made.heap) /\ Grown(heap, made.heap, {})
      /\ made.value = Ref(made.value.ref) /\ made.value.ref \in (Len(heap) + 1)..Len(made.heap)
      /\ made.heap[made.value.ref] = [map |-> Shifted(MapIn(doc, w), t)]
      /\ Ready(doc, Q, made.heap, A \cup {made.value.ref}, t)
  BY <1>2, <1>3 DEF IsMade, made
<1>5. IsAdded(doc, heap, made, w, Q, A, t, made.value.ref)
  BY <1>4, Zenon DEF IsAdded
<1> QED BY <1>4, <1>5 DEF made

LEMMA SimpleValues ==
  ASSUME NEW P, NEW n \in P, NEW x
  PROVE  IsValue(Scalar(x), P) /\ IsValue(Ref(n), P)
<1>1. ~IsRef(Scalar(x)) /\ Scalar(x).scalar = x /\ IsRef(Ref(n)) /\ Ref(n).ref = n
  BY Kinds
<1> QED BY <1>1 DEF IsValue

\* A key of a map is set to a new map.
IsSet(doc, heap, after, p, f, key, r) ==
  /\ Extends(doc, after) /\ Grown(heap, after, {p})
  /\ after[p] = [map |-> With(f, {key}, Ref(r))] /\ r > Len(heap)

\* levels["0"]: what is at its new place.
Level0Is(doc, w, userOnline, t) ==
  [map |-> With(With(Shifted(MapIn(doc, w), t), UserStats, Scalar(TRUE)),
                {"statsUserOnline"}, Scalar(userOnline))]

Level0Shown(doc, Q, heap, A, w, userOnline, ze) ==
  /\ ze \in (Len(doc) + 1)..Len(heap) /\ ze \notin A
  /\ \E t \in Nat : heap[ze] = Level0Is(doc, w, userOnline, t) /\ Ready(doc, Q, heap, A, t)

LEMMA Level0Made ==
  ASSUME NEW doc, IsDoc(doc), NEW heap, Extends(doc, heap),
         NEW wZ, IsValue(wZ, 1..Len(doc)), NEW s \in Nat,
         NEW A, A \subseteq 1..Len(heap), NEW Q, Place(wZ) \cap Q = {},
         Ready(doc, Q \cup Place(wZ), heap, A, s),
         NEW le \in (Len(doc) + 1)..Len(heap), le \in A,
         NEW f, heap[le] = [map |-> f], At(f, "0") = Moved(wZ, s), NEW userOnline
  PROVE  \E ze : /\ IsSet(doc, heap, SetLevel0(heap, Ref(le), userOnline), le, f, "0", ze)
                 /\ Level0Shown(doc, Q, SetLevel0(heap, Ref(le), userOnline), A, wZ, userOnline, ze)
<1> DEFINE made == EnsureMap(heap, Moved(wZ, s))
<1>m. PICK t \in Nat, ze \in (Len(heap) + 1)..Len(made.heap) :
         IsAdded(doc, heap, made, wZ, Q, A, t, ze)
  BY KeyMade
<1>1. /\ Extends(doc, made.heap) /\ Grown(heap, made.heap, {})
      /\ made.value = Ref(ze)
      /\ made.heap[ze] = [map |-> Shifted(MapIn(doc, wZ), t)]
      /\ Ready(doc, Q, made.heap, A \cup {ze}, t)
  BY <1>m, Zenon DEF IsAdded
<1> DEFINE h0 == made.heap
           F1 == With(Shifted(MapIn(doc, wZ), t), UserStats, Scalar(TRUE))
           F2 == With(F1, {"statsUserOnline"}, Scalar(userOnline))
           h1 == PutAll(h0, Ref(ze), UserStats, Scalar(TRUE))
           h2 == PutAll(h1, Ref(ze), {"statsUserOnline"}, Scalar(userOnline))
           h3 == PutAll(h2, Ref(le), {"0"}, Ref(ze))
<1>2. SetLevel0(heap, Ref(le), userOnline) = h3
  <2>1. At(MapAt(heap, Ref(le)), "0") = Moved(wZ, s)
    BY DEF MapAt, Ref
  <2> QED BY <2>1, <1>1, Zenon DEF SetLevel0, Put
<1>3. /\ Len(heap) \in Nat /\ Len(doc) \in Nat /\ Len(h0) \in Nat
      /\ ze \in (Len(doc) + 1)..Len(h0) /\ le \in (Len(doc) + 1)..Len(h0) /\ le # ze
      /\ ze \notin A /\ h0[le] = [map |-> f] /\ Len(heap) <= Len(h0)
  BY <1>1 DEF Extends, IsDoc, Grown
<1>a. Extends(doc, h0) /\ h0[ze] = [map |-> Shifted(MapIn(doc, wZ), t)]
  BY <1>1
<1> HIDE DEF made, h0
<1>4. /\ IsValue(Scalar(TRUE), (Len(doc) + 1)..Len(h0))
      /\ IsValue(Scalar(userOnline), (Len(doc) + 1)..Len(h0))
      /\ IsValue(Ref(ze), (Len(doc) + 1)..Len(h0))
  BY <1>3, SimpleValues
<1>b. h1 = PutAll(h0, Ref(ze), UserStats, Scalar(TRUE))
  OBVIOUS
<1>c. h2 = PutAll(h1, Ref(ze), {"statsUserOnline"}, Scalar(userOnline))
  OBVIOUS
<1>d. h3 = PutAll(h2, Ref(le), {"0"}, Ref(ze))
  OBVIOUS
<1> HIDE DEF h1, h2, h3
<1>5. /\ Extends(doc, h1) /\ Len(h1) = Len(h0) /\ Grown(h0, h1, {ze}) /\ h1[ze] = [map |-> F1]
  <2>1. ze \in (Len(doc) + 1)..Len(h0)
    BY <1>3
  <2>2. IsValue(Scalar(TRUE), (Len(doc) + 1)..Len(h0))
    BY <1>4
  <2>3. IsStored(doc, h0, h1, ze, [map |-> F1])
    BY <1>a, <1>b, <2>1, <2>2, Stored
  <2> QED BY <2>3 DEF IsStored
<1> HIDE DEF h1, F1
<1>6. /\ Extends(doc, h2) /\ Len(h2) = Len(h0) /\ Grown(h1, h2, {ze}) /\ h2[ze] = [map |-> F2]
  <2>1. ze \in (Len(doc) + 1)..Len(h1)
    BY <1>3, <1>5
  <2>2. IsValue(Scalar(userOnline), (Len(doc) + 1)..Len(h1))
    BY <1>4, <1>5
  <2>3. Extends(doc, h1) /\ Len(h1) = Len(h0) /\ h1[ze] = [map |-> F1]
    BY <1>5
  <2>4. IsStored(doc, h1, h2, ze, [map |-> F2])
    BY <1>c, <2>1, <2>2, <2>3, Stored
  <2> QED BY <2>3, <2>4 DEF IsStored
<1> HIDE DEF h2, F2
<1>7. h2[le] = [map |-> f]
  BY <1>3, <1>5, <1>6 DEF Grown
<1>8. /\ Extends(doc, h3) /\ Len(h3) = Len(h0) /\ Grown(h2, h3, {le})
      /\ h3[le] = [map |-> With(f, {"0"}, Ref(ze))]
  <2>1. le \in (Len(doc) + 1)..Len(h2)
    BY <1>3, <1>6
  <2>2. IsValue(Ref(ze), (Len(doc) + 1)..Len(h2))
    BY <1>4, <1>6
  <2>3. Extends(doc, h2) /\ Len(h2) = Len(h0)
    BY <1>6
  <2>4. IsStored(doc, h2, h3, le, [map |-> With(f, {"0"}, Ref(ze))])
    BY <1>d, <1>7, <2>1, <2>2, <2>3, Stored
  <2> QED BY <2>3, <2>4 DEF IsStored
<1> HIDE DEF h3
<1>9. h3[ze] = [map |-> F2]
  BY <1>3, <1>6, <1>8 DEF Grown
<1>10. Grown(heap, h3, {le})
  BY <1>1, <1>3, <1>5, <1>6, <1>8 DEF Grown, h0
<1>11. Ready(doc, Q, h3, A, t)
  <2>1. Grown(h0, h3, A \cup {ze})
    BY <1>3, <1>5, <1>6, <1>8 DEF Grown
  <2> QED BY <2>1, <1>1, <1>3, <1>8, ReadyStays DEF h0
<1>12. Level0Shown(doc, Q, h3, A, wZ, userOnline, ze)
  BY <1>3, <1>8, <1>9, <1>11 DEF Level0Shown, Level0Is, F1, F2
<1>13. IsSet(doc, heap, h3, le, f, "0", ze)
  BY <1>1, <1>8, <1>10 DEF IsSet, Extends
<1> QED BY <1>2, <1>12, <1>13

LEMMA Level0Stays ==
  ASSUME NEW doc, NEW Q, NEW A, NEW B, NEW old, NEW heap, NEW w, NEW userOnline, NEW ze,
         Len(doc) \in Nat, Len(old) \in Nat, Len(heap) \in Nat,
         Grown(old, heap, A), B \subseteq A, Level0Shown(doc, Q, old, A, w, userOnline, ze)
  PROVE  Level0Shown(doc, Q, heap, B, w, userOnline, ze)
<1>1. PICK t \in Nat : old[ze] = Level0Is(doc, w, userOnline, t) /\ Ready(doc, Q, old, A, t)
  BY DEF Level0Shown
<1>2. ze \in (Len(doc) + 1)..Len(old) /\ ze \notin A
  BY DEF Level0Shown
<1>3. Ready(doc, Q, heap, B, t)
  <2>1. B \cap 1..Len(old) \subseteq A
    OBVIOUS
  <2> QED BY <1>1, <2>1, ReadyStays
<1>4. heap[ze] = old[ze] /\ ze \in (Len(doc) + 1)..Len(heap) /\ ze \notin B
  BY <1>2 DEF Grown
<1> QED BY <1>1, <1>3, <1>4 DEF Level0Shown

\* policy["levels"]
LevelsIs(doc, w, ze, t) == [map |-> With(Shifted(MapIn(doc, w), t), {"0"}, Ref(ze))]

LevelsShown(doc, Q, heap, A, w, userOnline, le) ==
  /\ le \in (Len(doc) + 1)..Len(heap) /\ le \notin A
  /\ \E t \in Nat : \E ze :
       /\ heap[le] = LevelsIs(doc, w, ze, t) /\ Ready(doc, Q, heap, A, t)
       /\ Level0Shown(doc, Q, heap, A, Part(doc, w, "0"), userOnline, ze)

LEMMA LevelsStay ==
  ASSUME NEW doc, NEW Q, NEW A, NEW B, NEW old, NEW heap, NEW w, NEW userOnline, NEW le,
         Len(doc) \in Nat, Len(old) \in Nat, Len(heap) \in Nat,
         Grown(old, heap, A), B \subseteq A, LevelsShown(doc, Q, old, A, w, userOnline, le)
  PROVE  LevelsShown(doc, Q, heap, B, w, userOnline, le)
<1>1. PICK t \in Nat : \E ze :
        /\ old[le] = LevelsIs(doc, w, ze, t) /\ Ready(doc, Q, old, A, t)
        /\ Level0Shown(doc, Q, old, A, Part(doc, w, "0"), userOnline, ze)
  BY DEF LevelsShown
<1>2. PICK ze :
        /\ old[le] = LevelsIs(doc, w, ze, t) /\ Ready(doc, Q, old, A, t)
        /\ Level0Shown(doc, Q, old, A, Part(doc, w, "0"), userOnline, ze)
  BY <1>1
<1>3. le \in (Len(doc) + 1)..Len(old) /\ le \notin A
  BY DEF LevelsShown
<1>4. Ready(doc, Q, heap, B, t)
  <2>1. B \cap 1..Len(old) \subseteq A
    OBVIOUS
  <2> QED BY <1>2, <2>1, ReadyStays
<1>5. heap[le] = old[le] /\ le \in (Len(doc) + 1)..Len(heap) /\ le \notin B
  BY <1>3 DEF Grown
<1>6. Level0Shown(doc, Q, heap, B, Part(doc, w, "0"), userOnline, ze)
  BY <1>2, Level0Stays
<1> QED BY <1>2, <1>4, <1>5, <1>6 DEF LevelsShown

LEMMA LevelsMade ==
  ASSUME NEW doc, IsDoc(doc), NEW heap, Extends(doc, heap),
         NEW w, IsValue(w, 1..Len(doc)), NEW s \in Nat,
         NEW A, A \subseteq 1..Len(heap), NEW Q,
         Place(w) \cap (Q \cup Place(Part(doc, w, "0"))) = {}, Place(Part(doc, w, "0")) \cap Q = {},
         Ready(doc, (Q \cup Place(Part(doc, w, "0"))) \cup Place(w), heap, A, s),
         NEW po \in (Len(doc) + 1)..Len(heap), po \in A,
         NEW f, heap[po] = [map |-> f], At(f, "levels") = Moved(w, s), NEW userOnline
  PROVE  \E le : /\ IsSet(doc, heap, SetLevels(heap, Ref(po), userOnline), po, f, "levels", le)
                 /\ LevelsShown(doc, Q, SetLevels(heap, Ref(po), userOnline), A, w, userOnline, le)
<1> DEFINE made == EnsureMap(heap, Moved(w, s))
           wZ == Part(doc, w, "0")
<1>0. IsValue(wZ, 1..Len(doc)) /\ Len(doc) \in Nat /\ Len(heap) \in Nat
  BY PartIsValue DEF Extends, IsDoc
<1> HIDE DEF wZ
<1>m. PICK t \in Nat, le \in (Len(heap) + 1)..Len(made.heap) :
         IsAdded(doc, heap, made, w, Q \cup Place(wZ), A, t, le)
  BY KeyMade DEF wZ
<1>1. /\ Extends(doc, made.heap) /\ Grown(heap, made.heap, {})
      /\ made.value = Ref(le)
      /\ made.heap[le] = [map |-> Shifted(MapIn(doc, w), t)]
      /\ Ready(doc, Q \cup Place(wZ), made.heap, A \cup {le}, t)
  BY <1>m, Zenon DEF IsAdded
<1> DEFINE h0 == made.heap
           h1 == SetLevel0(h0, Ref(le), userOnline)
           h2 == PutAll(h1, Ref(po), {"levels"}, Ref(le))
<1>2. SetLevels(heap, Ref(po), userOnline) = h2
  <2>1. At(MapAt(heap, Ref(po)), "levels") = Moved(w, s)
    BY DEF MapAt, Ref
  <2> QED BY <2>1, <1>1, Zenon DEF SetLevels, Put
<1>3. /\ Len(h0) \in Nat /\ le \in (Len(doc) + 1)..Len(h0) /\ po \in (Len(doc) + 1)..Len(h0)
      /\ le # po /\ le \notin A /\ h0[po] = [map |-> f] /\ Len(heap) <= Len(h0)
      /\ A \cup {le} \subseteq 1..Len(h0)
  BY <1>0, <1>1 DEF Extends, IsDoc, Grown
<1>4. /\ Extends(doc, h0) /\ h0[le] = [map |-> Shifted(MapIn(doc, w), t)] /\ Grown(heap, h0, {})
      /\ Ready(doc, Q \cup Place(wZ), h0, A \cup {le}, t)
  BY <1>1
<1> HIDE DEF made, h0
<1>5. At(Shifted(MapIn(doc, w), t), "0") = Moved(wZ, t)
  BY ShiftedAt DEF Part, wZ
<1>a. /\ Place(wZ) \cap Q = {} /\ A \cup {le} \subseteq 1..Len(h0) /\ le \in A \cup {le}
      /\ IsValue(wZ, 1..Len(doc)) /\ le \in (Len(doc) + 1)..Len(h0)
  BY <1>0, <1>3 DEF wZ
<1> DEFINE g == Shifted(MapIn(doc, w), t)
<1>b. h0[le] = [map |-> g] /\ At(g, "0") = Moved(wZ, t)
  BY <1>4, <1>5
<1>c. /\ Extends(doc, h0) /\ Ready(doc, Q \cup Place(wZ), h0, A \cup {le}, t)
  BY <1>4
<1> HIDE DEF g
<1>d. \E ze : /\ IsSet(doc, h0, h1, le, g, "0", ze)
              /\ Level0Shown(doc, Q, h1, A \cup {le}, wZ, userOnline, ze)
  BY <1>a, <1>b, <1>c, Level0Made
<1>e. PICK ze : /\ IsSet(doc, h0, h1, le, g, "0", ze)
                /\ Level0Shown(doc, Q, h1, A \cup {le}, wZ, userOnline, ze)
  BY <1>d
<1> HIDE DEF h1
<1>6. /\ Extends(doc, h1) /\ Grown(h0, h1, {le})
      /\ h1[le] = [map |-> With(Shifted(MapIn(doc, w), t), {"0"}, Ref(ze))]
  BY <1>e DEF IsSet, g
<1>7. /\ h1[le] = LevelsIs(doc, w, ze, t)
      /\ Level0Shown(doc, Q, h1, A \cup {le}, wZ, userOnline, ze)
  BY <1>e, <1>6 DEF LevelsIs
<1>8. h2 = PutAll(h1, Ref(po), {"levels"}, Ref(le))
  OBVIOUS
<1> HIDE DEF h1, h2
<1>9. /\ Len(h1) \in Nat /\ Len(h0) <= Len(h1) /\ po \in (Len(doc) + 1)..Len(h1)
      /\ le \in (Len(doc) + 1)..Len(h1) /\ h1[po] = [map |-> f]
  BY <1>3, <1>6 DEF Extends, Grown
<1>10. IsStored(doc, h1, h2, po, [map |-> With(f, {"levels"}, Ref(le))])
  <2>1. IsValue(Ref(le), (Len(doc) + 1)..Len(h1))
    BY <1>9, SimpleValues
  <2>2. Extends(doc, h1) /\ po \in (Len(doc) + 1)..Len(h1) /\ h1[po] = [map |-> f]
    BY <1>6, <1>9
  <2> QED BY <1>8, <2>1, <2>2, Stored
<1>11. /\ Extends(doc, h2) /\ Len(h2) = Len(h1) /\ Grown(h1, h2, {po})
       /\ h2[po] = [map |-> With(f, {"levels"}, Ref(le))]
  BY <1>10 DEF IsStored
<1>12. Grown(heap, h2, {po})
  <2>1. le > Len(heap)
    BY <1>0, <1>1
  <2> QED BY <2>1, <1>0, <1>3, <1>4, <1>6, <1>9, <1>11, SMTT(30) DEF Grown
<1>13. h2[le] = LevelsIs(doc, w, ze, t) /\ le \in (Len(doc) + 1)..Len(h2)
  BY <1>3, <1>7, <1>9, <1>11 DEF Grown
<1>14. Ready(doc, Q, h2, A, t)
  <2>1. Grown(h0, h2, A \cup {le})
    BY <1>3, <1>6, <1>9, <1>11, SMTT(30) DEF Grown
  <2>2. Ready(doc, Q, h0, A \cup {le}, t)
    BY <1>4 DEF Ready
  <2>3. A \cap 1..Len(h0) \subseteq A \cup {le}
    OBVIOUS
  <2> QED BY <2>1, <2>2, <2>3, <1>0, <1>3, <1>9, <1>11, ReadyStays
<1>15. Level0Shown(doc, Q, h2, A, wZ, userOnline, ze)
  <2>1. Grown(h1, h2, A \cup {le})
    BY <1>11 DEF Grown
  <2> QED BY <2>1, <1>0, <1>7, <1>9, <1>11, Level0Stays
<1>16. LevelsShown(doc, Q, h2, A, w, userOnline, le)
  BY <1>3, <1>13, <1>14, <1>15 DEF LevelsShown, wZ
<1>17. IsSet(doc, heap, h2, po, f, "levels", le)
  BY <1>0, <1>1, <1>11, <1>12 DEF IsSet
<1> QED BY <1>2, <1>16, <1>17

\* A map with keys of it switched on: policy["system"], and config["stats"] with none.
FlagsIs(doc, w, keys, t) == [map |-> With(Shifted(MapIn(doc, w), t), keys, Scalar(TRUE))]

FlagsShown(doc, Q, heap, A, w, keys, p) ==
  /\ p \in (Len(doc) + 1)..Len(heap) /\ p \notin A
  /\ \E t \in Nat : heap[p] = FlagsIs(doc, w, keys, t) /\ Ready(doc, Q, heap, A, t)

LEMMA FlagsStay ==
  ASSUME NEW doc, NEW Q, NEW A, NEW B, NEW old, NEW heap, NEW w, NEW keys, NEW p,
         Len(doc) \in Nat, Len(old) \in Nat, Len(heap) \in Nat,
         Grown(old, heap, A), B \subseteq A, FlagsShown(doc, Q, old, A, w, keys, p)
  PROVE  FlagsShown(doc, Q, heap, B, w, keys, p)
<1>1. PICK t \in Nat : old[p] = FlagsIs(doc, w, keys, t) /\ Ready(doc, Q, old, A, t)
  BY DEF FlagsShown
<1>2. p \in (Len(doc) + 1)..Len(old) /\ p \notin A
  BY DEF FlagsShown
<1>3. Ready(doc, Q, heap, B, t)
  <2>1. B \cap 1..Len(old) \subseteq A
    OBVIOUS
  <2> QED BY <1>1, <2>1, ReadyStays
<1>4. heap[p] = old[p] /\ p \in (Len(doc) + 1)..Len(heap) /\ p \notin B
  BY <1>2 DEF Grown
<1> QED BY <1>1, <1>3, <1>4 DEF FlagsShown

LEMMA SystemMade ==
  ASSUME NEW doc, IsDoc(doc), NEW heap, Extends(doc, heap),
         NEW w, IsValue(w, 1..Len(doc)), NEW s \in Nat,
         NEW A, A \subseteq 1..Len(heap), NEW Q, Place(w) \cap Q = {},
         Ready(doc, Q \cup Place(w), heap, A, s),
         NEW po \in (Len(doc) + 1)..Len(heap), po \in A,
         NEW f, heap[po] = [map |-> f], At(f, "system") = Moved(w, s)
  PROVE  \E sy : /\ IsSet(doc, heap, SetSystem(heap, Ref(po)), po, f, "system", sy)
                 /\ FlagsShown(doc, Q, SetSystem(heap, Ref(po)), A, w, SystemStats, sy)
<1> DEFINE made == EnsureMap(heap, Moved(w, s))
<1>m. PICK t \in Nat, sy \in (Len(heap) + 1)..Len(made.heap) :
         IsAdded(doc, heap, made, w, Q, A, t, sy)
  BY KeyMade
<1>1. /\ Extends(doc, made.heap) /\ Grown(heap, made.heap, {})
      /\ made.value = Ref(sy)
      /\ made.heap[sy] = [map |-> Shifted(MapIn(doc, w), t)]
      /\ Ready(doc, Q, made.heap, A \cup {sy}, t)
  BY <1>m, Zenon DEF IsAdded
<1> DEFINE h0 == made.heap
           F1 == With(Shifted(MapIn(doc, w), t), SystemStats, Scalar(TRUE))
           h1 == PutAll(h0, Ref(sy), SystemStats, Scalar(TRUE))
           h2 == PutAll(h1, Ref(po), {"system"}, Ref(sy))
<1>2. SetSystem(heap, Ref(po)) = h2
  <2>1. At(MapAt(heap, Ref(po)), "system") = Moved(w, s)
    BY DEF MapAt, Ref
  <2> QED BY <2>1, <1>1, Zenon DEF SetSystem, Put
<1>3. /\ Len(heap) \in Nat /\ Len(doc) \in Nat /\ Len(h0) \in Nat
      /\ sy \in (Len(doc) + 1)..Len(h0) /\ po \in (Len(doc) + 1)..Len(h0) /\ po # sy
      /\ sy \notin A /\ h0[po] = [map |-> f] /\ Len(heap) <= Len(h0) /\ sy > Len(heap)
  BY <1>1 DEF Extends, IsDoc, Grown
<1>4. /\ Extends(doc, h0) /\ h0[sy] = [map |-> Shifted(MapIn(doc, w), t)]
      /\ Grown(heap, h0, {}) /\ Ready(doc, Q, h0, A \cup {sy}, t)
  BY <1>1
<1> HIDE DEF made, h0
<1>5. /\ IsValue(Scalar(TRUE), (Len(doc) + 1)..Len(h0))
      /\ IsValue(Ref(sy), (Len(doc) + 1)..Len(h0))
  BY <1>3, SimpleValues
<1>b. h1 = PutAll(h0, Ref(sy), SystemStats, Scalar(TRUE))
  OBVIOUS
<1>c. h2 = PutAll(h1, Ref(po), {"system"}, Ref(sy))
  OBVIOUS
<1> HIDE DEF h1, h2
<1>6. /\ Extends(doc, h1) /\ Len(h1) = Len(h0) /\ Grown(h0, h1, {sy}) /\ h1[sy] = [map |-> F1]
  <2>1. sy \in (Len(doc) + 1)..Len(h0)
    BY <1>3
  <2>2. IsValue(Scalar(TRUE), (Len(doc) + 1)..Len(h0))
    BY <1>5
  <2>3. IsStored(doc, h0, h1, sy, [map |-> F1])
    BY <1>4, <1>b, <2>1, <2>2, Stored
  <2> QED BY <2>3 DEF IsStored
<1> HIDE DEF F1
<1>7. h1[po] = [map |-> f]
  BY <1>3, <1>6 DEF Grown
<1>8. /\ Extends(doc, h2) /\ Len(h2) = Len(h0) /\ Grown(h1, h2, {po})
      /\ h2[po] = [map |-> With(f, {"system"}, Ref(sy))]
  <2>1. po \in (Len(doc) + 1)..Len(h1)
    BY <1>3, <1>6
  <2>2. IsValue(Ref(sy), (Len(doc) + 1)..Len(h1))
    BY <1>5, <1>6
  <2>3. Extends(doc, h1) /\ Len(h1) = Len(h0)
    BY <1>6
  <2>4. IsStored(doc, h1, h2, po, [map |-> With(f, {"system"}, Ref(sy))])
    BY <1>c, <1>7, <2>1, <2>2, <2>3, Stored
  <2> QED BY <2>3, <2>4 DEF IsStored
<1>9. h2[sy] = [map |-> F1]
  BY <1>3, <1>6, <1>8 DEF Grown
<1>10. Grown(heap, h2, {po})
  BY <1>3, <1>4, <1>6, <1>8 DEF Grown
<1>11. Ready(doc, Q, h2, A, t)
  <2>1. Grown(h0, h2, A \cup {sy})
    BY <1>3, <1>6, <1>8 DEF Grown
  <2> QED BY <2>1, <1>3, <1>4, <1>8, ReadyStays
<1>12. FlagsShown(doc, Q, h2, A, w, SystemStats, sy)
  BY <1>3, <1>8, <1>9, <1>11 DEF FlagsShown, FlagsIs, F1
<1>13. IsSet(doc, heap, h2, po, f, "system", sy)
  BY <1>3, <1>8, <1>10 DEF IsSet
<1> QED BY <1>2, <1>12, <1>13

LEMMA WithNone ==
  ASSUME NEW f, f = [k \in DOMAIN f |-> f[k]], NEW value
  PROVE  With(f, {}, value) = f
  BY DEF With

LEMMA StatsMade ==
  ASSUME NEW doc, IsDoc(doc), NEW heap, Extends(doc, heap),
         NEW w, IsValue(w, 1..Len(doc)), NEW s \in Nat,
         NEW A, A \subseteq 1..Len(heap), NEW Q, Place(w) \cap Q = {},
         Ready(doc, Q \cup Place(w), heap, A, s),
         NEW c \in (Len(doc) + 1)..Len(heap), c \in A,
         NEW f, heap[c] = [map |-> f], At(f, "stats") = Moved(w, s)
  PROVE  \E st : /\ IsSet(doc, heap, SetStats(heap, Ref(c)), c, f, "stats", st)
                 /\ FlagsShown(doc, Q, SetStats(heap, Ref(c)), A, w, {}, st)
<1> DEFINE made == EnsureMap(heap, Moved(w, s))
<1>m. PICK t \in Nat, st \in (Len(heap) + 1)..Len(made.heap) :
         IsAdded(doc, heap, made, w, Q, A, t, st)
  BY KeyMade
<1>1. /\ Extends(doc, made.heap) /\ Grown(heap, made.heap, {})
      /\ made.value = Ref(st)
      /\ made.heap[st] = [map |-> Shifted(MapIn(doc, w), t)]
      /\ Ready(doc, Q, made.heap, A \cup {st}, t)
  BY <1>m, Zenon DEF IsAdded
<1> DEFINE h0 == made.heap
           h1 == PutAll(h0, Ref(c), {"stats"}, Ref(st))
<1>2. SetStats(heap, Ref(c)) = h1
  <2>1. At(MapAt(heap, Ref(c)), "stats") = Moved(w, s)
    BY DEF MapAt, Ref
  <2> QED BY <2>1, <1>1, Zenon DEF SetStats, Put
<1>3. /\ Len(heap) \in Nat /\ Len(doc) \in Nat /\ Len(h0) \in Nat
      /\ st \in (Len(doc) + 1)..Len(h0) /\ c \in (Len(doc) + 1)..Len(h0) /\ c # st
      /\ st \notin A /\ h0[c] = [map |-> f] /\ Len(heap) <= Len(h0) /\ st > Len(heap)
  BY <1>1 DEF Extends, IsDoc, Grown
<1>4. /\ Extends(doc, h0) /\ h0[st] = [map |-> Shifted(MapIn(doc, w), t)]
      /\ Grown(heap, h0, {}) /\ Ready(doc, Q, h0, A \cup {st}, t)
  BY <1>1
<1> HIDE DEF made, h0
<1>5. IsValue(Ref(st), (Len(doc) + 1)..Len(h0))
  BY <1>3, SimpleValues
<1>b. h1 = PutAll(h0, Ref(c), {"stats"}, Ref(st))
  OBVIOUS
<1> HIDE DEF h1
<1>8. /\ Extends(doc, h1) /\ Len(h1) = Len(h0) /\ Grown(h0, h1, {c})
      /\ h1[c] = [map |-> With(f, {"stats"}, Ref(st))]
  <2>1. c \in (Len(doc) + 1)..Len(h0)
    BY <1>3
  <2>2. Extends(doc, h0) /\ h0[c] = [map |-> f]
    BY <1>3, <1>4
  <2>4. IsStored(doc, h0, h1, c, [map |-> With(f, {"stats"}, Ref(st))])
    BY <1>b, <1>5, <2>1, <2>2, Stored
  <2> QED BY <2>4 DEF IsStored
<1>9. h1[st] = FlagsIs(doc, w, {}, t)
  <2>1. h1[st] = [map |-> Shifted(MapIn(doc, w), t)]
    BY <1>3, <1>4, <1>8 DEF Grown
  <2>2. Shifted(MapIn(doc, w), t) = [k \in DOMAIN Shifted(MapIn(doc, w), t) |-> Shifted(MapIn(doc, w), t)[k]]
    BY DEF Shifted
  <2> QED BY <2>1, <2>2, WithNone DEF FlagsIs
<1>10. Grown(heap, h1, {c})
  BY <1>3, <1>4, <1>8 DEF Grown
<1>11. Ready(doc, Q, h1, A, t)
  <2>1. Grown(h0, h1, A \cup {st})
    BY <1>3, <1>8 DEF Grown
  <2> QED BY <2>1, <1>3, <1>4, <1>8, ReadyStays
<1>12. FlagsShown(doc, Q, h1, A, w, {}, st)
  BY <1>3, <1>8, <1>9, <1>11 DEF FlagsShown
<1>13. IsSet(doc, heap, h1, c, f, "stats", st)
  BY <1>3, <1>8, <1>10 DEF IsSet
<1> QED BY <1>2, <1>12, <1>13

LEMMA LevelsAside ==
  ASSUME NEW f, NEW value
  PROVE  At(With(f, {"levels"}, value), "system") = At(f, "system")
<1>1. "system" \notin {"levels"}
  OBVIOUS
<1> QED BY <1>1, Zenon DEF With, At

\* config["policy"], with what is under it.
PolicyIs(doc, w, le, sy, t) ==
  [map |-> With(With(Shifted(MapIn(doc, w), t), {"levels"}, Ref(le)), {"system"}, Ref(sy))]

PolicyShown(doc, Q, R, heap, A, w, userOnline, po) ==
  /\ po \in (Len(doc) + 1)..Len(heap) /\ po \notin A
  /\ \E t \in Nat : \E le, sy :
       /\ heap[po] = PolicyIs(doc, w, le, sy, t) /\ Ready(doc, Q, heap, A, t)
       /\ LevelsShown(doc, R, heap, A, Part(doc, w, "levels"), userOnline, le)
       /\ FlagsShown(doc, Q, heap, A, Part(doc, w, "system"), SystemStats, sy)

\* The policy is where it may be made: what is under it is not Q, nor the same.
PolicyReady(doc, heap, w, s, A, Q, R, RZ, RL, c, f) ==
  LET wL == Part(doc, w, "levels")
      wZ == Part(doc, wL, "0")
      wY == Part(doc, w, "system")
  IN  /\ IsDoc(doc) /\ Extends(doc, heap) /\ IsValue(w, 1..Len(doc)) /\ s \in Nat
      /\ R = Q \cup Place(wY) /\ RZ = R \cup Place(wZ) /\ RL = RZ \cup Place(wL)
      /\ Place(wY) \cap Q = {} /\ Place(wZ) \cap R = {} /\ Place(wL) \cap RZ = {}
      /\ Place(w) \cap RL = {}
      /\ A \subseteq 1..Len(heap) /\ Ready(doc, RL \cup Place(w), heap, A, s)
      /\ c \in (Len(doc) + 1)..Len(heap) /\ c \in A
      /\ heap[c] = [map |-> f] /\ At(f, "policy") = Moved(w, s)

LEMMA PolicyMade ==
  ASSUME NEW doc, NEW heap, NEW w, NEW s, NEW A, NEW Q, NEW R, NEW RZ, NEW RL, NEW c, NEW f,
         PolicyReady(doc, heap, w, s, A, Q, R, RZ, RL, c, f), NEW userOnline
  PROVE  \E po : /\ IsSet(doc, heap, SetPolicy(heap, Ref(c), userOnline), c, f, "policy", po)
                 /\ PolicyShown(doc, Q, R, SetPolicy(heap, Ref(c), userOnline), A, w, userOnline, po)
<1> DEFINE wL == Part(doc, w, "levels")
           wZ == Part(doc, wL, "0")
           wY == Part(doc, w, "system")
<1>p. /\ IsDoc(doc) /\ Extends(doc, heap) /\ IsValue(w, 1..Len(doc)) /\ s \in Nat
      /\ R = Q \cup Place(wY) /\ RZ = R \cup Place(wZ) /\ RL = RZ \cup Place(wL)
      /\ Place(wY) \cap Q = {} /\ Place(wZ) \cap R = {} /\ Place(wL) \cap RZ = {}
      /\ Place(w) \cap RL = {}
      /\ A \subseteq 1..Len(heap) /\ Ready(doc, RL \cup Place(w), heap, A, s)
      /\ c \in (Len(doc) + 1)..Len(heap) /\ c \in A
      /\ heap[c] = [map |-> f] /\ At(f, "policy") = Moved(w, s)
  BY DEF PolicyReady
<1>q. wL = Part(doc, w, "levels") /\ wZ = Part(doc, wL, "0") /\ wY = Part(doc, w, "system")
  OBVIOUS
<1> HIDE DEF wL, wZ, wY
<1> USE <1>p, <1>q
<1> DEFINE made == EnsureMap(heap, Moved(w, s))
<1>0. /\ IsValue(wL, 1..Len(doc)) /\ IsValue(wY, 1..Len(doc)) /\ Len(doc) \in Nat
      /\ Len(heap) \in Nat
  BY PartIsValue DEF Extends, IsDoc
<1>m. PICK t \in Nat, po \in (Len(heap) + 1)..Len(made.heap) :
         IsAdded(doc, heap, made, w, RL, A, t, po)
  BY KeyMade
<1>1. /\ Extends(doc, made.heap) /\ Grown(heap, made.heap, {})
      /\ made.value = Ref(po)
      /\ made.heap[po] = [map |-> Shifted(MapIn(doc, w), t)]
      /\ Ready(doc, RL, made.heap, A \cup {po}, t)
  BY <1>m, Zenon DEF IsAdded
<1> DEFINE h0 == made.heap
           g0 == Shifted(MapIn(doc, w), t)
           h1 == SetLevels(h0, Ref(po), userOnline)
           h2 == SetSystem(h1, Ref(po))
           h3 == PutAll(h2, Ref(c), {"policy"}, Ref(po))
           B == A \cup {po}
<1>2. SetPolicy(heap, Ref(c), userOnline) = h3
  <2>1. At(MapAt(heap, Ref(c)), "policy") = Moved(w, s)
    BY DEF MapAt, Ref
  <2> QED BY <2>1, <1>1, Zenon DEF SetPolicy, Put
<1>3. /\ Len(h0) \in Nat /\ po \in (Len(doc) + 1)..Len(h0) /\ c \in (Len(doc) + 1)..Len(h0)
      /\ po # c /\ po \notin A /\ h0[c] = [map |-> f] /\ Len(heap) <= Len(h0)
      /\ B \subseteq 1..Len(h0) /\ po \in B /\ po > Len(heap)
  BY <1>0, <1>1 DEF Extends, IsDoc, Grown
<1>4. Extends(doc, h0) /\ h0[po] = [map |-> g0] /\ Grown(heap, h0, {}) /\ Ready(doc, RL, h0, B, t)
  BY <1>1
<1>b. h3 = PutAll(h2, Ref(c), {"policy"}, Ref(po))
  OBVIOUS
<1> HIDE DEF made, h0, B
<1>5. At(g0, "levels") = Moved(wL, t) /\ At(g0, "system") = Moved(wY, t)
  BY ShiftedAt DEF Part
<1> HIDE DEF g0
<1>6. \E le : /\ IsSet(doc, h0, h1, po, g0, "levels", le)
              /\ LevelsShown(doc, R, h1, B, wL, userOnline, le)
  <2>1. /\ Place(wL) \cap (R \cup Place(Part(doc, wL, "0"))) = {}
        /\ Place(Part(doc, wL, "0")) \cap R = {}
        /\ Ready(doc, (R \cup Place(Part(doc, wL, "0"))) \cup Place(wL), h0, B, t)
    BY <1>4
  <2>2. At(g0, "levels") = Moved(wL, t) /\ h0[po] = [map |-> g0] /\ Extends(doc, h0)
    BY <1>4, <1>5
  <2>3. po \in (Len(doc) + 1)..Len(h0) /\ po \in B /\ B \subseteq 1..Len(h0) /\ IsValue(wL, 1..Len(doc))
    BY <1>0, <1>3
  <2> QED BY <2>1, <2>2, <2>3, LevelsMade
<1> HIDE DEF h1
<1>7. PICK le : /\ IsSet(doc, h0, h1, po, g0, "levels", le)
                /\ LevelsShown(doc, R, h1, B, wL, userOnline, le)
  BY <1>6
<1> DEFINE g1 == With(g0, {"levels"}, Ref(le))
<1>8. /\ Extends(doc, h1) /\ Grown(h0, h1, {po}) /\ h1[po] = [map |-> g1] /\ Len(h1) \in Nat
      /\ Len(h0) <= Len(h1) /\ po \in (Len(doc) + 1)..Len(h1) /\ B \subseteq 1..Len(h1)
  BY <1>3, <1>7 DEF IsSet, Extends, Grown
<1>9. At(g1, "system") = Moved(wY, t)
  <2>1. "system" \notin {"levels"}
    OBVIOUS
  <2>2. At(With(g0, {"levels"}, Ref(le)), "system") = At(g0, "system")
    BY LevelsAside
  <2> QED BY <2>2, <1>5
<1> HIDE DEF g1
<1>10. Ready(doc, R, h1, B, t)
  <2>1. Ready(doc, R, h0, B, t)
    BY <1>4 DEF Ready
  <2>2. Grown(h0, h1, B) /\ B \cap 1..Len(h0) \subseteq B
    BY <1>3, <1>8 DEF Grown
  <2> QED BY <2>1, <2>2, <1>0, <1>3, <1>8, ReadyStays
<1>11. \E sy : /\ IsSet(doc, h1, h2, po, g1, "system", sy)
               /\ FlagsShown(doc, Q, h2, B, wY, SystemStats, sy)
  <2>1. Ready(doc, Q \cup Place(wY), h1, B, t) /\ Place(wY) \cap Q = {}
    BY <1>10
  <2>2. At(g1, "system") = Moved(wY, t) /\ h1[po] = [map |-> g1] /\ Extends(doc, h1)
    BY <1>8, <1>9
  <2>3. po \in (Len(doc) + 1)..Len(h1) /\ po \in B /\ B \subseteq 1..Len(h1) /\ IsValue(wY, 1..Len(doc))
    BY <1>0, <1>3, <1>8
  <2> QED BY <2>1, <2>2, <2>3, SystemMade
<1> HIDE DEF h2
<1>12. PICK sy : /\ IsSet(doc, h1, h2, po, g1, "system", sy)
                 /\ FlagsShown(doc, Q, h2, B, wY, SystemStats, sy)
  BY <1>11
<1> HIDE DEF h3
<1>13. /\ Extends(doc, h2) /\ Grown(h1, h2, {po}) /\ Len(h2) \in Nat /\ Len(h1) <= Len(h2)
       /\ h2[po] = PolicyIs(doc, w, le, sy, t)
       /\ c \in (Len(doc) + 1)..Len(h2) /\ h2[c] = [map |-> f] /\ po \in (Len(doc) + 1)..Len(h2)
  <2>1. h2[po] = [map |-> With(g1, {"system"}, Ref(sy))] /\ Extends(doc, h2) /\ Grown(h1, h2, {po})
    BY <1>12 DEF IsSet
  <2> QED BY <2>1, <1>3, <1>8 DEF g0, g1, PolicyIs, Grown, Extends
<1>14. /\ Extends(doc, h3) /\ Len(h3) = Len(h2) /\ Grown(h2, h3, {c})
       /\ h3[c] = [map |-> With(f, {"policy"}, Ref(po))]
  <2>1. IsValue(Ref(po), (Len(doc) + 1)..Len(h2))
    BY <1>13, SimpleValues
  <2>2. Extends(doc, h2) /\ c \in (Len(doc) + 1)..Len(h2) /\ h2[c] = [map |-> f]
    BY <1>13
  <2>3. IsStored(doc, h2, h3, c, [map |-> With(f, {"policy"}, Ref(po))])
    BY <1>b, <2>1, <2>2, Stored
  <2> QED BY <2>3 DEF IsStored
<1>15. h3[po] = PolicyIs(doc, w, le, sy, t) /\ po \in (Len(doc) + 1)..Len(h3)
  BY <1>3, <1>13, <1>14 DEF Grown
<1>16. Grown(h1, h2, B) /\ Grown(h2, h3, A) /\ Grown(h1, h3, B) /\ A \subseteq B /\ A \subseteq A
  BY <1>3, <1>13, <1>14 DEF Grown, B
<1>17. LevelsShown(doc, R, h3, A, wL, userOnline, le)
  <2>1. LevelsShown(doc, R, h1, B, wL, userOnline, le)
    BY <1>7
  <2> QED BY <2>1, <1>0, <1>8, <1>13, <1>14, <1>16, LevelsStay
<1>18. FlagsShown(doc, Q, h3, A, wY, SystemStats, sy)
  <2>1. FlagsShown(doc, Q, h2, B, wY, SystemStats, sy) /\ Grown(h2, h3, B)
    BY <1>12, <1>16 DEF Grown
  <2> QED BY <2>1, <1>0, <1>13, <1>14, <1>16, FlagsStay
<1>19. Ready(doc, Q, h3, A, t)
  <2>1. Ready(doc, Q, h1, B, t)
    BY <1>10 DEF Ready
  <2>2. A \cap 1..Len(h1) \subseteq B
    BY <1>16
  <2> QED BY <2>1, <2>2, <1>0, <1>8, <1>13, <1>14, <1>16, ReadyStays
<1>20. PolicyShown(doc, Q, R, h3, A, w, userOnline, po)
  BY <1>3, <1>15, <1>17, <1>18, <1>19 DEF PolicyShown
<1>21. Grown(heap, h3, {c})
  <2>1. Len(heap) <= Len(h0) /\ Len(h0) <= Len(h1) /\ Len(h1) <= Len(h2) /\ Len(h2) = Len(h3)
    BY <1>3, <1>8, <1>13, <1>14
  <2>2. Len(h3) \in Nat /\ Len(heap) <= Len(h3)
    BY <2>1, <1>0, <1>3, <1>8, <1>13
  <2>3. ASSUME NEW n \in 1..Len(heap), n # c PROVE h3[n] = heap[n]
    <3>1. n \in 1..Len(h0) /\ n \in 1..Len(h1) /\ n \in 1..Len(h2) /\ n # po
      BY <2>1, <1>0, <1>3, <1>8, <1>13, SMTT(30)
    <3>2. h0[n] = heap[n]
      BY <1>4 DEF Grown
    <3>3. h1[n] = h0[n]
      BY <3>1, <1>8 DEF Grown
    <3>4. h2[n] = h1[n]
      BY <3>1, <1>13 DEF Grown
    <3>5. h3[n] = h2[n]
      BY <2>3, <3>1, <1>14 DEF Grown
    <3> QED BY <3>2, <3>3, <3>4, <3>5
  <2> QED BY <2>2, <2>3 DEF Grown
<1>22. IsSet(doc, heap, h3, c, f, "policy", po)
  BY <1>3, <1>14, <1>21 DEF IsSet
<1> QED BY <1>2, <1>20, <1>22

-----------------------------------------------------------------------------
\* The document: an object of it is referred to once, from somewhere.
Held(doc, p, m, k) ==
  m \in 1..Len(doc) /\ k \in DOMAIN Children(doc[m]) /\ Children(doc[m])[k] = Ref(p)

LEMMA HeldOnce ==
  ASSUME NEW doc, NEW v, IsDecoded(doc, v),
         NEW p, NEW m, NEW k, Held(doc, p, m, k), NEW n, NEW j, Held(doc, p, n, j)
  PROVE  m = n /\ k = j
<1>1. IsRef(Ref(p)) /\ DOMAIN doc = 1..Len(doc)
  BY Kinds DEF IsDecoded
<1>2. /\ n \in DOMAIN doc /\ j \in DOMAIN Children(doc[n]) /\ Children(doc[n])[j] = Ref(p)
      /\ m \in DOMAIN doc /\ k \in DOMAIN Children(doc[m]) /\ Children(doc[m])[k] = Ref(p)
  BY <1>1 DEF Held
<1>3. \A a \in DOMAIN doc : \A b \in DOMAIN Children(doc[a]) :
        Children(doc[a])[b] = Children(doc[n])[j] => a = n /\ b = j
  BY <1>1, <1>2 DEF IsDecoded
<1> QED BY <1>2, <1>3

LEMMA HeldInside ==
  ASSUME NEW doc, NEW v, IsDecoded(doc, v), NEW p, NEW m, NEW k, Held(doc, p, m, k)
  PROVE  p \in 1..Len(doc) /\ p \notin Place(v)
<1>1. IsRef(Ref(p)) /\ Ref(p).ref = p
  BY Kinds
<1>2. IsValue(Ref(p), 1..Len(doc)) /\ Ref(p) # v
  BY <1>1 DEF IsDecoded, Held
<1>3. IsRef(v) => v = Ref(v.ref)
  BY DEF IsDecoded, IsValue
<1> QED BY <1>1, <1>2, <1>3 DEF IsValue, Place

LEMMA ValueHeld ==
  ASSUME NEW doc, IsDoc(doc), NEW m \in 1..Len(doc), NEW k \in DOMAIN Children(doc[m]),
         NEW value, value = Children(doc[m])[k]
  PROVE  IsValue(value, 1..Len(doc)) /\ (IsRef(value) => Held(doc, value.ref, m, k))
  BY DEF IsDoc, IsObject, IsValue, Held

LEMMA InMap ==
  ASSUME NEW doc, IsDoc(doc), NEW w, IsValue(w, 1..Len(doc)), NEW k \in DOMAIN MapIn(doc, w),
         NEW value, value = MapIn(doc, w)[k]
  PROVE  /\ IsRef(w) /\ IsMap(doc[w.ref]) /\ w.ref \in 1..Len(doc)
         /\ IsValue(value, 1..Len(doc)) /\ (IsRef(value) => Held(doc, value.ref, w.ref, k))
<1>1. DOMAIN <<>> = {}
  OBVIOUS
<1>2. IsRef(w) /\ IsMap(doc[w.ref]) /\ MapIn(doc, w) = Children(doc[w.ref]) /\ w.ref \in 1..Len(doc)
  BY <1>1 DEF MapIn, Children, IsValue
<1> QED BY <1>2, ValueHeld

LEMMA PartHeld ==
  ASSUME NEW doc, IsDoc(doc), NEW w, IsValue(w, 1..Len(doc)), NEW key,
         NEW p \in Place(Part(doc, w, key))
  PROVE  Held(doc, p, w.ref, key) /\ w.ref \in Place(w) /\ IsMap(doc[w.ref])
<1>1. IsRef(Part(doc, w, key)) /\ p = Part(doc, w, key).ref
  BY DEF Place
<1>2. key \in DOMAIN MapIn(doc, w) /\ Part(doc, w, key) = MapIn(doc, w)[key]
  BY <1>1, Kinds DEF Part, At
<1> QED BY <1>1, <1>2, InMap DEF Place

LEMMA PartsDiffer ==
  ASSUME NEW doc, NEW v, IsDecoded(doc, v), NEW w, IsValue(w, 1..Len(doc)),
         NEW x, IsValue(x, 1..Len(doc)), NEW key, NEW other, key # other
  PROVE  Place(Part(doc, w, key)) \cap Place(Part(doc, x, other)) = {}
<1> SUFFICES ASSUME NEW p \in Place(Part(doc, w, key)), p \in Place(Part(doc, x, other))
             PROVE  FALSE
  OBVIOUS
<1>1. Held(doc, p, w.ref, key) /\ Held(doc, p, x.ref, other)
  BY PartHeld, DecodedIsDoc
<1> QED BY <1>1, HeldOnce

LEMMA RootDiffers ==
  ASSUME NEW doc, NEW v, IsDecoded(doc, v), NEW w, IsValue(w, 1..Len(doc)), NEW key
  PROVE  Place(Part(doc, w, key)) \subseteq 1..Len(doc) \ Place(v)
  BY PartHeld, HeldInside, DecodedIsDoc

\* The objects that a build makes anew or writes to, and the others.
ListIn(doc, w) == IF IsRef(w) /\ IsList(doc[w.ref]) THEN doc[w.ref].list ELSE <<>>
ListPlace(doc, w) == IF IsRef(w) /\ IsList(doc[w.ref]) THEN {w.ref} ELSE {}

InSection(doc, v, section) ==
  {p \in 1..Len(doc) :
     /\ IsMap(doc[p])
     /\ \E i \in DOMAIN ListIn(doc, Part(doc, v, section)) :
          ListIn(doc, Part(doc, v, section))[i] = Ref(p)}

Hysterias(doc, v, port) ==
  {p \in InSection(doc, v, "inbounds") : port > 0 /\ IsHysteria(doc[p].map)}

PolicyOf(doc, v) == Part(doc, v, "policy")
LevelsOf(doc, v) == Part(doc, PolicyOf(doc, v), "levels")

Touched(doc, v, port) ==
  UNION {Place(v), Place(Part(doc, v, "stats")), Place(PolicyOf(doc, v)),
         Place(LevelsOf(doc, v)), Place(Part(doc, PolicyOf(doc, v), "system")),
         Place(Part(doc, LevelsOf(doc, v), "0")),
         ListPlace(doc, Part(doc, v, "inbounds")), Hysterias(doc, v, port)}

Rest(doc, v, port) == 1..Len(doc) \ Touched(doc, v, port)

LEMMA ValuesUsed ==
  ASSUME NEW doc, NEW v, IsDecoded(doc, v)
  PROVE  /\ IsValue(v, 1..Len(doc)) /\ IsValue(Part(doc, v, "stats"), 1..Len(doc))
         /\ IsValue(PolicyOf(doc, v), 1..Len(doc)) /\ IsValue(LevelsOf(doc, v), 1..Len(doc))
         /\ IsValue(Part(doc, PolicyOf(doc, v), "system"), 1..Len(doc))
         /\ IsValue(Part(doc, LevelsOf(doc, v), "0"), 1..Len(doc))
         /\ IsValue(Part(doc, v, "inbounds"), 1..Len(doc))
<1>1. IsDoc(doc) /\ IsValue(v, 1..Len(doc))
  BY DecodedIsDoc, Kinds DEF IsDecoded, IsValue
<1>2. IsValue(PolicyOf(doc, v), 1..Len(doc))
  BY <1>1, PartIsValue DEF PolicyOf
<1>3. IsValue(LevelsOf(doc, v), 1..Len(doc))
  BY <1>1, <1>2, PartIsValue DEF LevelsOf
<1> QED BY <1>1, <1>2, <1>3, PartIsValue

LEMMA InList ==
  ASSUME NEW doc, NEW v, IsDecoded(doc, v), NEW w, IsValue(w, 1..Len(doc)),
         NEW i \in DOMAIN ListIn(doc, w), NEW value, value = ListIn(doc, w)[i]
  PROVE  /\ ListPlace(doc, w) = {w.ref} /\ ~IsMap(doc[w.ref])
         /\ IsValue(value, 1..Len(doc)) /\ (IsRef(value) => Held(doc, value.ref, w.ref, i))
<1>1. DOMAIN <<>> = {} /\ IsDoc(doc)
  BY DecodedIsDoc
<1>2. IsRef(w) /\ IsList(doc[w.ref]) /\ w.ref \in 1..Len(doc)
  BY <1>1 DEF ListIn, IsValue
<1>3. doc[w.ref] = Like(doc[w.ref], Children(doc[w.ref]))
  BY <1>2, <1>1 DEF IsDoc, IsObject
<1>4. ~IsMap(doc[w.ref])
  <2>1. ASSUME IsMap(doc[w.ref]) PROVE FALSE
    <3>1. doc[w.ref] = [map |-> Children(doc[w.ref])]
      BY <1>3, <2>1 DEF Like
    <3>2. ~IsList([map |-> Children(doc[w.ref])])
      BY Kinds
    <3> QED BY <3>1, <3>2, <1>2
  <2> QED BY <2>1
<1>5. ListIn(doc, w) = Children(doc[w.ref])
  BY <1>2, <1>4 DEF ListIn, Children
<1> QED BY <1>1, <1>2, <1>4, <1>5, ValueHeld DEF ListPlace

\* Where the touched objects are referred to from.
FromTouched(doc, v, port, r, m, k) ==
  \/ m \in Place(v) /\ k \in {"stats", "policy"}
  \/ m \in Place(v) /\ k = "inbounds" /\ ListPlace(doc, Part(doc, v, "inbounds")) # {}
  \/ m \in Place(PolicyOf(doc, v)) /\ k \in {"levels", "system"}
  \/ m \in Place(LevelsOf(doc, v)) /\ k = "0"
  \/ m \in ListPlace(doc, Part(doc, v, "inbounds")) /\ r \in Hysterias(doc, v, port)

LEMMA TouchedHeld ==
  ASSUME NEW doc, NEW v, IsDecoded(doc, v), NEW port,
         NEW r, NEW m, NEW k, Held(doc, r, m, k), r \in Touched(doc, v, port)
  PROVE  FromTouched(doc, v, port, r, m, k)
<1>0. IsDoc(doc)
  BY DecodedIsDoc
<1>1. ASSUME NEW w, IsValue(w, 1..Len(doc)), NEW key, r \in Place(Part(doc, w, key))
      PROVE  m \in Place(w) /\ k = key
  <2>1. Held(doc, r, w.ref, key) /\ w.ref \in Place(w)
    BY <1>0, <1>1, PartHeld
  <2> QED BY <2>1, HeldOnce
<1>2. r \notin Place(v)
  BY HeldInside
<1>3. CASE r \in Place(Part(doc, v, "stats"))
  BY <1>1, <1>3, ValuesUsed DEF FromTouched
<1>4. CASE r \in Place(PolicyOf(doc, v))
  BY <1>1, <1>4, ValuesUsed DEF FromTouched, PolicyOf
<1>5. CASE r \in Place(LevelsOf(doc, v))
  <2>1. m \in Place(PolicyOf(doc, v)) /\ k = "levels"
    BY <1>1, <1>5, ValuesUsed DEF LevelsOf
  <2> QED BY <2>1 DEF FromTouched
<1>6. CASE r \in Place(Part(doc, PolicyOf(doc, v), "system"))
  <2>1. m \in Place(PolicyOf(doc, v)) /\ k = "system"
    BY <1>1, <1>6, ValuesUsed
  <2> QED BY <2>1 DEF FromTouched
<1>7. CASE r \in Place(Part(doc, LevelsOf(doc, v), "0"))
  <2>1. m \in Place(LevelsOf(doc, v)) /\ k = "0"
    BY <1>1, <1>7, ValuesUsed
  <2> QED BY <2>1 DEF FromTouched
<1>8. CASE r \in ListPlace(doc, Part(doc, v, "inbounds"))
  <2>1. r \in Place(Part(doc, v, "inbounds"))
    BY <1>8 DEF ListPlace, Place
  <2>2. m \in Place(v) /\ k = "inbounds"
    BY <1>1, <2>1, ValuesUsed
  <2> QED BY <2>2, <1>8 DEF FromTouched
<1>9. CASE r \in Hysterias(doc, v, port)
  <2> DEFINE w == Part(doc, v, "inbounds")
  <2>0. IsValue(w, 1..Len(doc))
    BY ValuesUsed
  <2>1. PICK i \in DOMAIN ListIn(doc, w) : ListIn(doc, w)[i] = Ref(r)
    BY <1>9 DEF Hysterias, InSection
  <2>2. ListPlace(doc, w) = {w.ref} /\ Held(doc, r, w.ref, i)
    <3>1. ListPlace(doc, w) = {w.ref} /\ (IsRef(Ref(r)) => Held(doc, Ref(r).ref, w.ref, i))
      <4> HIDE DEF w
      <4> QED BY <2>0, <2>1, InList
    <3>2. IsRef(Ref(r)) /\ Ref(r).ref = r
      BY Kinds
    <3> QED BY <3>1, <3>2
  <2>3. m = w.ref
    BY <2>2, HeldOnce
  <2> QED BY <2>2, <2>3, <1>9 DEF FromTouched
<1> QED BY <1>2, <1>3, <1>4, <1>5, <1>6, <1>7, <1>8, <1>9 DEF Touched

LEMMA RestIs ==
  ASSUME NEW doc, NEW v, IsDecoded(doc, v), NEW port,
         NEW r, NEW m, NEW k, Held(doc, r, m, k), ~FromTouched(doc, v, port, r, m, k)
  PROVE  r \in Rest(doc, v, port)
  BY TouchedHeld, HeldInside DEF Rest

LEMMA RestClosed ==
  ASSUME NEW doc, NEW v, IsDecoded(doc, v), NEW port
  PROVE  Closed(doc, Rest(doc, v, port))
<1> SUFFICES ASSUME NEW q \in Rest(doc, v, port), NEW k \in DOMAIN Children(doc[q]),
                    IsRef(Children(doc[q])[k])
             PROVE  Children(doc[q])[k].ref \in Rest(doc, v, port)
  BY DEF Closed, Rest
<1> DEFINE r == Children(doc[q])[k].ref
<1>1. q \in 1..Len(doc) /\ q \notin Touched(doc, v, port)
  BY DEF Rest
<1>2. Held(doc, r, q, k)
  BY <1>1, ValueHeld, DecodedIsDoc
<1>3. ~FromTouched(doc, v, port, r, q, k)
  BY <1>1 DEF FromTouched, Touched
<1> QED BY <1>2, <1>3, RestIs

\* What the touched objects are is not the same.
LEMMA TouchedApart ==
  ASSUME NEW doc, NEW v, IsDecoded(doc, v), NEW port
  PROVE  LET S == Place(Part(doc, v, "stats"))
             P == Place(PolicyOf(doc, v))
             L == Place(LevelsOf(doc, v))
             Y == Place(Part(doc, PolicyOf(doc, v), "system"))
             Z == Place(Part(doc, LevelsOf(doc, v), "0"))
             I == ListPlace(doc, Part(doc, v, "inbounds"))
             H == Hysterias(doc, v, port)
         IN  /\ Place(v) \cap (S \cup P \cup L \cup Y \cup Z \cup I \cup H) = {}
             /\ P \cap (S \cup L \cup Y \cup Z \cup I \cup H) = {}
             /\ L \cap (S \cup Y \cup Z \cup I \cup H) = {}
             /\ S \cap (Y \cup Z \cup I \cup H) = {}
             /\ Y \cap (Z \cup I \cup H) = {} /\ Z \cap (I \cup H) = {} /\ I \cap H = {}
<1> DEFINE S == Place(Part(doc, v, "stats"))
           P == Place(PolicyOf(doc, v))
           L == Place(LevelsOf(doc, v))
           Y == Place(Part(doc, PolicyOf(doc, v), "system"))
           Z == Place(Part(doc, LevelsOf(doc, v), "0"))
           I == ListPlace(doc, Part(doc, v, "inbounds"))
           J == Place(Part(doc, v, "inbounds"))
           H == Hysterias(doc, v, port)
<1>0. I \subseteq J
  BY DEF ListPlace, Place
<1>1. Place(v) \cap (S \cup P \cup L \cup Y \cup Z \cup J) = {}
  BY RootDiffers, ValuesUsed DEF PolicyOf, LevelsOf
<1>2. P \cap S = {} /\ P \cap L = {} /\ P \cap Y = {} /\ P \cap Z = {} /\ P \cap J = {}
  BY PartsDiffer, ValuesUsed DEF PolicyOf, LevelsOf
<1>3. L \cap S = {} /\ L \cap Y = {} /\ L \cap Z = {} /\ L \cap J = {}
  BY PartsDiffer, ValuesUsed DEF LevelsOf
<1>4. S \cap Y = {} /\ S \cap Z = {} /\ S \cap J = {} /\ Y \cap Z = {} /\ Y \cap J = {} /\ Z \cap J = {}
  BY PartsDiffer, ValuesUsed
<1>5. ASSUME NEW p \in H
      PROVE  \E m, k : Held(doc, p, m, k) /\ m \in I /\ IsMap(doc[p]) /\ ~IsMap(doc[m])
  <2> DEFINE w == Part(doc, v, "inbounds")
  <2>0. IsValue(w, 1..Len(doc))
    BY ValuesUsed
  <2>1. PICK i \in DOMAIN ListIn(doc, w) : ListIn(doc, w)[i] = Ref(p)
    BY DEF Hysterias, InSection
  <2>2. IsRef(Ref(p)) /\ Ref(p).ref = p
    BY Kinds
  <2>3. /\ ListPlace(doc, w) = {w.ref} /\ ~IsMap(doc[w.ref])
        /\ (IsRef(Ref(p)) => Held(doc, Ref(p).ref, w.ref, i))
    <3> HIDE DEF w
    <3> QED BY <2>0, <2>1, InList
  <2>4. IsMap(doc[p])
    BY DEF Hysterias, InSection
  <2> QED BY <2>2, <2>3, <2>4
<1>6. I \cap H = {}
  <2> SUFFICES ASSUME NEW p \in H, p \in I PROVE FALSE
    OBVIOUS
  <2>1. PICK m, k : Held(doc, p, m, k) /\ m \in I /\ IsMap(doc[p]) /\ ~IsMap(doc[m])
    BY <1>5
  <2>2. p = m
    BY <2>1 DEF ListPlace
  <2> QED BY <2>1, <2>2
<1>7. Place(v) \cap H = {}
  BY <1>5, HeldInside
<1>8. ASSUME NEW w, IsValue(w, 1..Len(doc)), NEW key, Place(w) \cap J = {}
      PROVE  Place(Part(doc, w, key)) \cap H = {}
  <2> SUFFICES ASSUME NEW p \in H, p \in Place(Part(doc, w, key)) PROVE FALSE
    OBVIOUS
  <2>1. PICK m, k : Held(doc, p, m, k) /\ m \in I
    BY <1>5
  <2>2. Held(doc, p, w.ref, key) /\ w.ref \in Place(w)
    BY <1>8, PartHeld, DecodedIsDoc
  <2>3. m = w.ref
    BY <2>1, <2>2, HeldOnce
  <2> QED BY <2>1, <2>2, <2>3, <1>0, <1>8
<1>9. S \cap H = {} /\ P \cap H = {} /\ L \cap H = {} /\ Y \cap H = {} /\ Z \cap H = {}
  <2>1. S \cap H = {} /\ P \cap H = {}
    BY <1>1, <1>8, ValuesUsed DEF PolicyOf
  <2>2. L \cap H = {} /\ Y \cap H = {}
    BY <1>2, <1>8, ValuesUsed DEF LevelsOf
  <2>3. Z \cap H = {}
    BY <1>3, <1>8, ValuesUsed
  <2> QED BY <2>1, <2>2, <2>3
<1> HIDE DEF S, P, L, Y, Z, I, J, H
<1>10. /\ Place(v) \cap (S \cup P \cup L \cup Y \cup Z \cup I \cup H) = {}
       /\ P \cap (S \cup L \cup Y \cup Z \cup I \cup H) = {}
       /\ L \cap (S \cup Y \cup Z \cup I \cup H) = {}
       /\ S \cap (Y \cup Z \cup I \cup H) = {}
       /\ Y \cap (Z \cup I \cup H) = {} /\ Z \cap (I \cup H) = {} /\ I \cap H = {}
  BY <1>0, <1>1, <1>2, <1>3, <1>4, <1>6, <1>7, <1>9
<1> QED BY <1>10 DEF S, P, L, Y, Z, I, H

-----------------------------------------------------------------------------
\* The copy of the document that a build works on: the configuration at c.
IsBegun(doc, v, heap, c, t) ==
  /\ t \in Nat /\ c \in (Len(doc) + 1)..Len(heap) /\ Extends(doc, heap)
  /\ heap[c] = [map |-> Shifted(MapIn(doc, v), t)]
  /\ Ready(doc, 1..Len(doc) \ Place(v), heap, {c}, t)
  /\ IsRef(v) => Len(doc) <= t

LEMMA NotMoved ==
  ASSUME NEW doc, NEW v, IsDecoded(doc, v), NEW q \in 1..Len(doc)
  PROVE  Copy(doc[q], 0) = doc[q]
<1> DEFINE f == Children(doc[q])
<1>1. f = [k \in DOMAIN f |-> f[k]] /\ doc[q] = Like(doc[q], f)
  BY DEF IsDecoded
<1>2. ASSUME NEW k \in DOMAIN f PROVE Moved(f[k], 0) = f[k]
  <2>1. IsValue(f[k], 1..Len(doc))
    BY DecodedIsDoc DEF IsDoc, IsObject
  <2> HIDE DEF f
  <2>2. CASE IsRef(f[k])
    <3>1. f[k] = Ref(f[k].ref) /\ f[k].ref + 0 = f[k].ref
      BY <2>1, <2>2 DEF IsValue
    <3> QED BY <2>2, <3>1, MovedKind
  <2>3. CASE ~IsRef(f[k])
    BY <2>3, MovedKind
  <2> QED BY <2>2, <2>3
<1> HIDE DEF f
<1>3. Shifted(f, 0) = f
  BY <1>1, <1>2 DEF Shifted
<1> QED BY <1>1, <1>3 DEF Copy, f

LEMMA ObjectKinds ==
  ASSUME NEW o, o = Like(o, Children(o)), NEW t
  PROVE  /\ IsList(o) <=> ~IsMap(o)
         /\ IsMap(Copy(o, t)) => ~IsList(Copy(o, t))
         /\ IsList(o) => IsList(Copy(o, t)) /\ Copy(o, t).list = Shifted(o.list, t)
<1> DEFINE f == Children(o)
           g == Shifted(o.list, t)
           h == Shifted(f, t)
<1>1. CASE IsMap(o)
  <2>1. o = [map |-> f] /\ Copy(o, t) = [map |-> h]
    BY <1>1 DEF Like, Copy
  <2> HIDE DEF f, h
  <2>2. ~IsList([map |-> f]) /\ ~IsList([map |-> h])
    BY Kinds
  <2> QED BY <2>1, <2>2, <1>1
<1>2. CASE ~IsMap(o)
  <2>1. o = [list |-> f]
    BY <1>2 DEF Like
  <2>2. Copy(o, t) = [list |-> g]
    BY <1>2, CopyKind
  <2> HIDE DEF f, g
  <2>3. IsList([list |-> f]) /\ IsList([list |-> g]) /\ [list |-> g].list = g /\ ~IsMap([list |-> g])
    BY Kinds
  <2> QED BY <2>1, <2>2, <2>3, <1>2 DEF g
<1> QED BY <1>1, <1>2

LEMMA Begins ==
  ASSUME NEW doc, NEW v, IsDecoded(doc, v)
  PROVE  \E c, t : EnsureMap(doc, v).value = Ref(c) /\ IsBegun(doc, v, EnsureMap(doc, v).heap, c, t)
<1> DEFINE Q == 1..Len(doc) \ Place(v)
           made == EnsureMap(doc, v)
<1>0. IsDoc(doc) /\ Extends(doc, doc) /\ IsValue(v, 1..Len(doc)) /\ 0 \in Nat /\ Len(doc) \in Nat
  BY DecodedIsDoc, ValuesUsed DEF IsDoc
<1>1. v = Moved(v, 0)
  <2>1. CASE IsRef(v)
    <3>1. v = Ref(v.ref) /\ v.ref + 0 = v.ref
      BY <1>0, <2>1 DEF IsValue
    <3> QED BY <2>1, <3>1, MovedKind
  <2>2. CASE ~IsRef(v)
    BY <2>2, MovedKind
  <2> QED BY <2>1, <2>2
<1>2. Ready(doc, Q \cup Place(v), doc, {}, 0)
  <2>1. Place(v) \subseteq 1..Len(doc)
    BY <1>0 DEF Place, IsValue
  <2>2. \A q \in 1..Len(doc) : q + 0 = q /\ Copy(doc[q], 0) = doc[q]
    BY NotMoved
  <2> QED BY <2>1, <2>2 DEF Ready, Mirrored
<1>3. IsRef(v) => v.ref \in Mirrored(doc, doc, 0) /\ v.ref \notin Q
  BY <1>2 DEF Ready, Place
<1>4. PICK t : IsMade(doc, v, doc, EnsureMap(doc, Moved(v, 0)), 0, t)
  BY <1>0, <1>3, MapMade
<1> DEFINE r == made.value.ref
<1> HIDE DEF Q, made
<1>5. IsMade(doc, v, doc, made, 0, t)
  BY <1>1, <1>4 DEF made
<1>6. Ready(doc, Q, made.heap, {r}, t)
  <2>1. Ready(doc, Q, doc, {}, 0)
    BY <1>2 DEF Ready
  <2>2. ASSUME NEW A, A = {} PROVE Ready(doc, Q, made.heap, A \cup {r}, t)
    <3>1. A \subseteq 1..Len(doc) /\ Ready(doc, Q, doc, A, 0) /\ (IsRef(v) => v.ref \notin Q)
      BY <2>1, <2>2, <1>3
    <3> QED BY <3>1, <1>5 DEF IsMade
  <2>3. {} \cup {r} = {r}
    OBVIOUS
  <2> QED BY <2>2, <2>3
<1>7. IsBegun(doc, v, made.heap, r, t)
  <2>1. IsRef(v) => IsMap(doc[v.ref])
    BY DEF IsDecoded
  <2> QED BY <2>1, <1>0, <1>5, <1>6 DEF IsBegun, IsMade, Q
<1>8. made.value = Ref(r)
  BY <1>5 DEF IsMade
<1> QED BY <1>7, <1>8 DEF made

LEMMA CopyThere ==
  ASSUME NEW doc, NEW v, IsDecoded(doc, v), NEW heap, NEW c, NEW t, IsBegun(doc, v, heap, c, t),
         NEW p, NEW m, NEW k, Held(doc, p, m, k)
  PROVE  /\ p \in 1..Len(doc) /\ heap[p + t] = Copy(doc[p], t)
         /\ p + t \in 1..Len(heap) /\ p + t # c
<1>1. p \in 1..Len(doc) \ Place(v)
  BY HeldInside
<1> QED BY <1>1 DEF IsBegun, Ready, Mirrored

LEMMA ItemsFound ==
  ASSUME NEW doc, NEW v, IsDecoded(doc, v), NEW heap, NEW c, NEW t, IsBegun(doc, v, heap, c, t),
         NEW section
  PROVE  EnsureArray(heap, At(MapAt(heap, Ref(c)), section)) =
           [heap |-> heap, items |-> Shifted(ListIn(doc, Part(doc, v, section)), t)]
<1> DEFINE w == Part(doc, v, section)
<1>0. IsDoc(doc) /\ IsValue(v, 1..Len(doc)) /\ IsValue(w, 1..Len(doc)) /\ t \in Nat
  BY DecodedIsDoc, ValuesUsed, PartIsValue DEF IsBegun
<1>1. At(MapAt(heap, Ref(c)), section) = Moved(w, t)
  <2>1. MapAt(heap, Ref(c)) = Shifted(MapIn(doc, v), t)
    BY DEF IsBegun, MapAt, Ref
  <2> QED BY <2>1, ShiftedAt DEF Part
<1>2. IsRef(w) => Held(doc, w.ref, v.ref, section)
  <2>1. IsRef(w) => w.ref \in Place(w)
    BY DEF Place
  <2> QED BY <1>0, <2>1, PartHeld
<1>3. CASE IsRef(w)
  <2>1. heap[w.ref + t] = Copy(doc[w.ref], t) /\ w.ref \in 1..Len(doc)
    BY <1>2, <1>3, CopyThere
  <2>2. Moved(w, t) = Ref(w.ref + t) /\ IsRef(Moved(w, t)) /\ Moved(w, t).ref = w.ref + t
    BY <1>3, MovedKind
  <2>3. IsObject(doc[w.ref], 1..Len(doc))
    BY <1>0, <2>1 DEF IsDoc
  <2>4. CASE IsMap(doc[w.ref])
    <3>1. ~IsList(heap[w.ref + t]) /\ ~IsList(doc[w.ref])
      BY <2>1, <2>3, <2>4, ObjectKinds, CopyKind DEF IsObject
    <3>2. ListIn(doc, w) = <<>>
      BY <3>1 DEF ListIn
    <3> HIDE DEF w
    <3> QED BY <1>1, <2>2, <3>1, <3>2, EmptyShifted DEF EnsureArray, w
  <2>5. CASE ~IsMap(doc[w.ref])
    <3>1. /\ IsList(doc[w.ref]) /\ IsList(heap[w.ref + t])
          /\ heap[w.ref + t].list = Shifted(doc[w.ref].list, t)
      BY <2>1, <2>3, <2>5, ObjectKinds DEF IsObject
    <3>2. ListIn(doc, w) = doc[w.ref].list
      BY <1>3, <3>1 DEF ListIn
    <3> HIDE DEF w
    <3> QED BY <1>1, <2>2, <3>1, <3>2 DEF EnsureArray, w
  <2> QED BY <2>4, <2>5
<1>4. CASE ~IsRef(w)
  <2>1. ~IsRef(Moved(w, t)) /\ ListIn(doc, w) = <<>>
    BY <1>4, MovedKind DEF ListIn
  <2> HIDE DEF w
  <2> QED BY <1>1, <2>1, EmptyShifted DEF EnsureArray, w
<1> QED BY <1>3, <1>4

LEMMA MapsFound ==
  ASSUME NEW doc, NEW v, IsDecoded(doc, v), NEW heap, NEW c, NEW t, IsBegun(doc, v, heap, c, t),
         NEW section
  PROVE  /\ MapsOf(heap, Ref(c), section).heap = heap
         /\ MapsOf(heap, Ref(c), section).maps = {Ref(p + t) : p \in InSection(doc, v, section)}
         /\ \A p \in InSection(doc, v, section) :
              p + t \in 1..Len(heap) /\ p + t # c /\ heap[p + t] = [map |-> Shifted(doc[p].map, t)]
<1> DEFINE w == Part(doc, v, section)
           list == ListIn(doc, w)
           items == Shifted(list, t)
           found == {items[i] : i \in DOMAIN items}
           maps == {x \in found : IsRef(x) /\ IsMap(heap[x.ref])}
<1>0. IsValue(w, 1..Len(doc)) /\ t \in Nat
  BY DecodedIsDoc, ValuesUsed, PartIsValue DEF IsBegun
<1>1. MapsOf(heap, Ref(c), section) = [heap |-> heap, maps |-> maps]
  <2> DEFINE array == EnsureArray(heap, At(MapAt(heap, Ref(c)), section))
  <2>1. array = [heap |-> heap, items |-> items]
    BY ItemsFound
  <2> HIDE DEF array, items
  <2>2. array.heap = heap /\ array.items = items
    BY <2>1
  <2> QED BY <2>2 DEF MapsOf, array
<1>2. DOMAIN items = DOMAIN list /\ \A i \in DOMAIN list : items[i] = Moved(list[i], t)
  BY DEF Shifted
<1>3. ASSUME NEW i \in DOMAIN list, IsRef(list[i])
      PROVE  \E p \in 1..Len(doc) :
               /\ list[i] = Ref(p) /\ items[i] = Ref(p + t) /\ heap[p + t] = Copy(doc[p], t)
               /\ p + t \in 1..Len(heap) /\ p + t # c
  <2> DEFINE p == list[i].ref
  <2>1. IsValue(list[i], 1..Len(doc)) /\ Held(doc, p, w.ref, i)
    <3> HIDE DEF w
    <3> QED BY <1>0, <1>3, InList
  <2>2. list[i] = Ref(p) /\ p \in 1..Len(doc)
    BY <1>3, <2>1 DEF IsValue
  <2>3. heap[p + t] = Copy(doc[p], t) /\ p + t \in 1..Len(heap) /\ p + t # c
    BY <2>1, CopyThere
  <2>4. items[i] = Ref(p + t)
    BY <1>2, <1>3, MovedKind
  <2> QED BY <2>2, <2>3, <2>4
<1>4. InSection(doc, v, section) =
        {p \in 1..Len(doc) : IsMap(doc[p]) /\ \E i \in DOMAIN list : list[i] = Ref(p)}
  BY DEF InSection
<1> HIDE DEF w, list, items
<1>5. ASSUME NEW p \in InSection(doc, v, section)
      PROVE  /\ p + t \in 1..Len(heap) /\ p + t # c /\ heap[p + t] = [map |-> Shifted(doc[p].map, t)]
             /\ Ref(p + t) \in maps
  <2>1. PICK i \in DOMAIN list : list[i] = Ref(p)
    BY <1>4
  <2>2. IsRef(list[i]) /\ \A q : Ref(q) = Ref(p) => q = p
    BY <2>1 DEF Ref, IsRef
  <2>3. items[i] = Ref(p + t) /\ heap[p + t] = Copy(doc[p], t) /\ p + t \in 1..Len(heap) /\ p + t # c
    BY <1>3, <2>1, <2>2
  <2>4. IsMap(doc[p]) /\ IsRef(Ref(p + t)) /\ Ref(p + t).ref = p + t
    BY <1>4, Kinds
  <2>5. heap[p + t] = [map |-> Shifted(doc[p].map, t)] /\ IsMap(heap[p + t])
    BY <2>3, <2>4, CopyKind
  <2>6. Ref(p + t) \in found
    BY <1>2, <2>1, <2>3
  <2> QED BY <2>3, <2>4, <2>5, <2>6
<1>6. ASSUME NEW x \in maps PROVE \E p \in InSection(doc, v, section) : x = Ref(p + t)
  <2>1. PICK i \in DOMAIN list : x = Moved(list[i], t) /\ IsRef(x) /\ IsMap(heap[x.ref])
    BY <1>2
  <2>2. IsRef(list[i]) /\ x = items[i]
    BY <1>2, <2>1, MovedKind
  <2>3. PICK p \in 1..Len(doc) :
               /\ list[i] = Ref(p) /\ items[i] = Ref(p + t) /\ heap[p + t] = Copy(doc[p], t)
    BY <1>3, <2>2
  <2>4. IsMap(doc[p])
    <3>1. x = Ref(p + t) /\ Ref(p + t).ref = p + t
      BY <2>2, <2>3, Kinds
    <3>2. IsMap(Copy(doc[p], t))
      BY <2>1, <2>3, <3>1
    <3> QED BY <3>2, CopyKind
  <2> QED BY <2>2, <2>3, <2>4, <1>4
<1>7. maps = {Ref(p + t) : p \in InSection(doc, v, section)}
  <2> HIDE DEF maps
  <2> QED BY <1>5, <1>6
<1> QED BY <1>1, <1>5, <1>7

LEMMA MovedScalar ==
  ASSUME NEW value, NEW t, NEW x
  PROVE  Moved(value, t) = Scalar(x) <=> value = Scalar(x)
<1>1. CASE IsRef(value)
  BY <1>1, MovedKind, Kinds
<1>2. CASE ~IsRef(value)
  BY <1>2, MovedKind
<1> QED BY <1>1, <1>2

\* The tags of the document, and of its copy.
Uses(doc, v, tag) ==
  \E section \in {"inbounds", "outbounds"} :
    \E p \in InSection(doc, v, section) : At(doc[p].map, "tag") = Scalar(tag)

LEMMA TagFound ==
  ASSUME NEW doc, NEW v, IsDecoded(doc, v), NEW heap, NEW c, NEW t, IsBegun(doc, v, heap, c, t),
         NEW tag
  PROVE  HasTag(heap, Ref(c), tag) <=> Uses(doc, v, tag)
<1>1. ASSUME NEW section
      PROVE  (\E x \in MapsOf(heap, Ref(c), section).maps :
                At(MapAt(MapsOf(heap, Ref(c), section).heap, x), "tag") = Scalar(tag))
             <=> \E p \in InSection(doc, v, section) : At(doc[p].map, "tag") = Scalar(tag)
  <2>1. ASSUME NEW p \in InSection(doc, v, section)
        PROVE  At(MapAt(heap, Ref(p + t)), "tag") = Scalar(tag)
                 <=> At(doc[p].map, "tag") = Scalar(tag)
    <3>1. heap[p + t] = [map |-> Shifted(doc[p].map, t)]
      BY MapsFound
    <3>2. MapAt(heap, Ref(p + t)) = Shifted(doc[p].map, t)
      BY <3>1 DEF MapAt, Ref
    <3> QED BY <3>2, ShiftedAt, MovedScalar
  <2>2. /\ MapsOf(heap, Ref(c), section).heap = heap
        /\ MapsOf(heap, Ref(c), section).maps = {Ref(p + t) : p \in InSection(doc, v, section)}
    BY MapsFound
  <2> QED BY <2>1, <2>2
<1> QED BY <1>1 DEF HasTag, Uses

\* What applyHysteriaListenPort leaves.
IsRedirected(doc, v, heap, after, t, port) ==
  /\ Extends(doc, after) /\ Len(after) = Len(heap)
  /\ \A n \in 1..Len(heap) : (\A p \in Hysterias(doc, v, port) : n # p + t) => after[n] = heap[n]
  /\ \A p \in Hysterias(doc, v, port) :
       /\ p + t \in 1..Len(heap)
       /\ after[p + t] = [map |-> With(Shifted(doc[p].map, t), {"port"}, Scalar(port))]

LEMMA Redirects ==
  ASSUME NEW doc, NEW v, IsDecoded(doc, v), NEW heap, NEW c, NEW t, IsBegun(doc, v, heap, c, t),
         NEW port \in Nat
  PROVE  IsRedirected(doc, v, heap, ApplyHysteriaListenPort(heap, Ref(c), port), t, port)
<1> DEFINE H == Hysterias(doc, v, port)
           S == InSection(doc, v, "inbounds")
           after == ApplyHysteriaListenPort(heap, Ref(c), port)
           new(p) == [map |-> With(Shifted(doc[p].map, t), {"port"}, Scalar(port))]
<1>0. /\ IsDoc(doc) /\ Extends(doc, heap) /\ Len(heap) \in Nat /\ DOMAIN heap = 1..Len(heap)
      /\ Len(doc) \in Nat /\ t \in Nat
  BY DecodedIsDoc DEF IsBegun, Extends, IsDoc
<1>1. ASSUME NEW p \in S
      PROVE  /\ p + t \in (Len(doc) + 1)..Len(heap)
             /\ heap[p + t] = [map |-> Shifted(doc[p].map, t)]
             /\ MapAt(heap, Ref(p + t)) = Shifted(doc[p].map, t)
             /\ IsHysteria(MapAt(heap, Ref(p + t))) <=> IsHysteria(doc[p].map)
  <2>1. heap[p + t] = [map |-> Shifted(doc[p].map, t)] /\ p + t \in 1..Len(heap)
    BY MapsFound
  <2>2. MapAt(heap, Ref(p + t)) = Shifted(doc[p].map, t)
    BY <2>1 DEF MapAt, Ref
  <2>3. IsHysteria(MapAt(heap, Ref(p + t))) <=> IsHysteria(doc[p].map)
    BY <2>2, ShiftedAt, MovedScalar DEF IsHysteria
  <2>4. IsRef(v)
    <3>1. PICK i \in DOMAIN ListIn(doc, Part(doc, v, "inbounds")) : TRUE
      BY DEF InSection
    <3>2. IsRef(Part(doc, v, "inbounds"))
      <4>1. DOMAIN <<>> = {}
        OBVIOUS
      <4> QED BY <3>1, <4>1 DEF ListIn
    <3>3. Part(doc, v, "inbounds").ref \in Place(Part(doc, v, "inbounds"))
      BY <3>2 DEF Place
    <3>4. Part(doc, v, "inbounds").ref \in Place(Part(doc, v, "inbounds")) => v.ref \in Place(v)
      BY <1>0, ValuesUsed, PartHeld
    <3> QED BY <3>3, <3>4 DEF Place
  <2>5. p \in 1..Len(doc) /\ Len(doc) <= t
    BY <2>4 DEF InSection, IsBegun
  <2> QED BY <1>0, <2>1, <2>2, <2>3, <2>5
<1>2. CASE port = 0
  <2>1. after = heap
    BY <1>2 DEF ApplyHysteriaListenPort
  <2>2. H = {}
    BY <1>2 DEF Hysterias
  <2> HIDE DEF after, H
  <2> QED BY <1>0, <2>1, <2>2 DEF IsRedirected, after, H
<1>3. CASE port > 0
  <2> DEFINE found == {Ref(p + t) : p \in S}
             Hit(n) == Ref(n) \in found /\ IsHysteria(MapAt(heap, Ref(n)))
             left == [n \in DOMAIN heap |->
                          IF Hit(n) THEN [map |-> With(MapAt(heap, Ref(n)), {"port"}, Scalar(port))]
                          ELSE heap[n]]
  <2>1. after = left
    <3> DEFINE maps == MapsOf(heap, Ref(c), "inbounds")
    <3>1. maps.heap = heap /\ maps.maps = found
      BY MapsFound
    <3>2. ~(port <= 0)
      BY <1>3
    <3> HIDE DEF maps, found
    <3> QED BY <3>1, <3>2 DEF ApplyHysteriaListenPort, maps
  <2>2. \A n, m : Ref(n) = Ref(m) <=> n = m
    BY DEF Ref
  <2>3. H = {p \in S : IsHysteria(doc[p].map)}
    BY <1>3 DEF Hysterias
  <2>4. \A n \in 1..Len(heap) : Hit(n) <=> \E p \in H : n = p + t
    <3> SUFFICES ASSUME NEW n \in 1..Len(heap) PROVE Hit(n) <=> \E p \in H : n = p + t
      OBVIOUS
    <3>1. Ref(n) \in found <=> \E p \in S : n = p + t
      BY <2>2
    <3> HIDE DEF S, H
    <3> QED BY <3>1, <2>3, <1>1
  <2> HIDE DEF found, Hit, H, S, after
  <2>5. DOMAIN left = 1..Len(heap) /\ Len(left) = Len(heap)
    BY <1>0
  <2>6. \A n \in 1..Len(heap) : (\A p \in H : n # p + t) => left[n] = heap[n]
    BY <1>0, <2>4
  <2>7. \A p \in H : p + t \in (Len(doc) + 1)..Len(heap) /\ p + t \in 1..Len(heap) /\ left[p + t] = new(p)
    <3> SUFFICES ASSUME NEW p \in H
                 PROVE  /\ p + t \in (Len(doc) + 1)..Len(heap) /\ p + t \in 1..Len(heap)
                        /\ left[p + t] = new(p)
      OBVIOUS
    <3>1. /\ p + t \in (Len(doc) + 1)..Len(heap)
          /\ MapAt(heap, Ref(p + t)) = Shifted(doc[p].map, t)
      BY <1>1, <2>3
    <3>2. p + t \in 1..Len(heap)
      BY <3>1, <1>0
    <3>3. Hit(p + t)
      BY <3>2, <2>4
    <3> QED BY <3>1, <3>2, <3>3, <1>0
  <2>8. Extends(doc, left)
    <3>1. \A n \in 1..Len(doc) : left[n] = doc[n]
      <4> SUFFICES ASSUME NEW n \in 1..Len(doc) PROVE left[n] = doc[n]
        OBVIOUS
      <4>1. n \in 1..Len(heap) /\ heap[n] = doc[n]
        BY <1>0 DEF Extends
      <4>2. ASSUME NEW p \in H PROVE n # p + t
        <5>1. p + t \in (Len(doc) + 1)..Len(heap)
          BY <2>7
        <5> QED BY <5>1, <1>0
      <4> HIDE DEF left
      <4> QED BY <4>1, <4>2, <2>6
    <3>2. ASSUME NEW n \in (Len(doc) + 1)..Len(heap)
          PROVE  IsObject(left[n], (Len(doc) + 1)..Len(heap))
      <4>0. IsObject(heap[n], (Len(doc) + 1)..Len(heap)) /\ n \in 1..Len(heap)
        BY <1>0 DEF Extends
      <4>1. CASE \A p \in H : n # p + t
        <5>1. left[n] = heap[n]
          BY <4>0, <4>1, <2>6
        <5> HIDE DEF left
        <5> QED BY <4>0, <5>1
      <4>2. CASE \E p \in H : n = p + t
        <5>1. PICK p \in H : n = p + t
          BY <4>2
        <5> DEFINE f == Shifted(doc[p].map, t)
                   P == (Len(doc) + 1)..Len(heap)
        <5>2. left[n] = [map |-> With(f, {"port"}, Scalar(port))] /\ heap[n] = [map |-> f]
          BY <5>1, <2>7, <2>3, <1>1
        <5> HIDE DEF f, P, left
        <5>3. \A k \in DOMAIN f : IsValue(f[k], P)
          BY <4>0, <5>2, MapObject DEF P
        <5>4. IsValue(Scalar(port), P)
          BY Kinds DEF IsValue
        <5>5. \A k \in DOMAIN With(f, {"port"}, Scalar(port)) : IsValue(With(f, {"port"}, Scalar(port))[k], P)
          BY <5>3, <5>4 DEF With
        <5> QED BY <5>2, <5>5, MapObject, ZenonT(30) DEF P
      <4> QED BY <4>1, <4>2
    <3>3. Len(doc) <= Len(heap)
      BY <1>0 DEF Extends
    <3> HIDE DEF left
    <3> QED BY <3>1, <3>2, <3>3, <2>5, <1>0 DEF Extends
  <2> HIDE DEF left
  <2>9. Len(after) = Len(heap) /\ Extends(doc, after)
    BY <2>1, <2>5, <2>8
  <2>10. \A n \in 1..Len(heap) : (\A p \in H : n # p + t) => after[n] = heap[n]
    BY <2>1, <2>6
  <2>11. \A p \in H : p + t \in 1..Len(heap) /\ after[p + t] = new(p)
    BY <2>1, <2>7
  <2> QED BY <2>9, <2>10, <2>11 DEF IsRedirected, H, after
<1> QED BY <1>2, <1>3

-----------------------------------------------------------------------------
\* What a build leaves: the configuration at c, the copies of what it does not touch and
\* of the list of the inbounds, moved by t, and the inbounds whose ports it set.
StatsOf(doc, v) == Part(doc, v, "stats")
SystemOf(doc, v) == Part(doc, PolicyOf(doc, v), "system")
Level0Of(doc, v) == Part(doc, LevelsOf(doc, v), "0")
InboundsOf(doc, v) == Part(doc, v, "inbounds")

ConfigIs(doc, v, st, po, t) ==
  [map |-> With(With(Shifted(MapIn(doc, v), t), {"stats"}, Ref(st)), {"policy"}, Ref(po))]

PortsShown(doc, v, heap, t, port) ==
  \A p \in Hysterias(doc, v, port) :
    /\ p + t \in 1..Len(heap)
    /\ heap[p + t] = [map |-> With(Shifted(doc[p].map, t), {"port"}, Scalar(port))]

BuiltShown(doc, v, heap, c, userOnline, port) ==
  /\ Extends(doc, heap) /\ c \in (Len(doc) + 1)..Len(heap)
  /\ \E t \in Nat : \E st, po :
       /\ heap[c] = ConfigIs(doc, v, st, po, t)
       /\ Ready(doc, Rest(doc, v, port) \cup ListPlace(doc, InboundsOf(doc, v)), heap, {c}, t)
       /\ PortsShown(doc, v, heap, t, port)
       /\ FlagsShown(doc, Rest(doc, v, port), heap, {c}, StatsOf(doc, v), {}, st)
       /\ PolicyShown(doc, Rest(doc, v, port), Rest(doc, v, port) \cup Place(SystemOf(doc, v)),
                      heap, {c}, PolicyOf(doc, v), userOnline, po)

LEMMA StatsAside ==
  ASSUME NEW f, NEW value
  PROVE  At(With(f, {"stats"}, value), "policy") = At(f, "policy")
<1>1. "policy" \notin {"stats"}
  OBVIOUS
<1> QED BY <1>1, Zenon DEF With, At

LEMMA ReadyRedirected ==
  ASSUME NEW doc, NEW v, IsDecoded(doc, v), NEW heap, NEW c, NEW t, IsBegun(doc, v, heap, c, t),
         NEW port, NEW after, IsRedirected(doc, v, heap, after, t, port),
         NEW Q, Q \subseteq (1..Len(doc) \ Place(v)) \ Hysterias(doc, v, port)
  PROVE  Ready(doc, Q, after, {c}, t)
<1> SUFFICES ASSUME NEW q \in Q
             PROVE  /\ q \in 1..Len(doc) /\ q + t \in 1..Len(after) /\ after[q + t] = Copy(doc[q], t)
                    /\ q + t # c
  BY DEF Ready, Mirrored
<1>1. q \in 1..Len(doc) /\ q + t \in 1..Len(heap) /\ heap[q + t] = Copy(doc[q], t) /\ q + t # c
  BY DEF IsBegun, Ready, Mirrored
<1>2. ASSUME NEW p \in Hysterias(doc, v, port) PROVE q + t # p + t
  <2>1. p \in 1..Len(doc) /\ q # p /\ q \in 1..Len(doc) /\ t \in Nat
    BY DEF Hysterias, InSection, IsBegun
  <2> QED BY <2>1
<1>3. after[q + t] = heap[q + t] /\ Len(after) = Len(heap)
  BY <1>1, <1>2 DEF IsRedirected
<1> QED BY <1>1, <1>3

LEMMA PartsApart ==
  ASSUME NEW doc, NEW v, IsDecoded(doc, v), NEW port
  PROVE  LET W == (1..Len(doc) \ Place(v)) \ Hysterias(doc, v, port)
             Q == Rest(doc, v, port)
             S == Place(StatsOf(doc, v))
             P == Place(PolicyOf(doc, v))
             L == Place(LevelsOf(doc, v))
             Y == Place(SystemOf(doc, v))
             Z == Place(Level0Of(doc, v))
             I == ListPlace(doc, InboundsOf(doc, v))
         IN  /\ Q \cup S \subseteq W /\ Q \cup I \subseteq W
             /\ ((((Q \cup Y) \cup Z) \cup L) \cup P) \subseteq W
             /\ S \cap Q = {} /\ Y \cap Q = {} /\ Z \cap (Q \cup Y) = {}
             /\ L \cap ((Q \cup Y) \cup Z) = {} /\ P \cap (((Q \cup Y) \cup Z) \cup L) = {}
<1> DEFINE H == Hysterias(doc, v, port)
           N == 1..Len(doc)
           W == (N \ Place(v)) \ Hysterias(doc, v, port)
           Q == Rest(doc, v, port)
           S == Place(StatsOf(doc, v))
           P == Place(PolicyOf(doc, v))
           L == Place(LevelsOf(doc, v))
           Y == Place(SystemOf(doc, v))
           Z == Place(Level0Of(doc, v))
           I == ListPlace(doc, InboundsOf(doc, v))
           V == Place(v)
<1>1. S \subseteq N /\ P \subseteq N /\ L \subseteq N /\ Y \subseteq N /\ Z \subseteq N /\ I \subseteq N
  <2>1. S \subseteq N /\ P \subseteq N /\ L \subseteq N /\ Y \subseteq N /\ Z \subseteq N
    BY RootDiffers, ValuesUsed DEF StatsOf, PolicyOf, LevelsOf, SystemOf, Level0Of
  <2>2. I \subseteq Place(InboundsOf(doc, v))
    BY DEF ListPlace, Place
  <2> QED BY <2>1, <2>2, RootDiffers, ValuesUsed DEF InboundsOf
<1>2. Q = N \ UNION {V, S, P, L, Y, Z, I, H}
  BY DEF Rest, Touched, StatsOf, SystemOf, Level0Of, InboundsOf
<1>3. /\ V \cap (S \cup P \cup L \cup Y \cup Z \cup I \cup H) = {}
      /\ P \cap (S \cup L \cup Y \cup Z \cup I \cup H) = {}
      /\ L \cap (S \cup Y \cup Z \cup I \cup H) = {}
      /\ S \cap (Y \cup Z \cup I \cup H) = {}
      /\ Y \cap (Z \cup I \cup H) = {} /\ Z \cap (I \cup H) = {} /\ I \cap H = {}
  BY TouchedApart DEF StatsOf, SystemOf, Level0Of, InboundsOf
<1>4. W = (N \ V) \ H
  OBVIOUS
<1> HIDE DEF H, N, W, Q, S, P, L, Y, Z, I, V
<1>5. Q \cup S \subseteq W /\ Q \cup I \subseteq W /\ (((Q \cup Y) \cup Z) \cup L) \cup P \subseteq W
  BY <1>1, <1>2, <1>3, <1>4
<1>6. /\ S \cap Q = {} /\ Y \cap Q = {} /\ Z \cap (Q \cup Y) = {}
      /\ L \cap ((Q \cup Y) \cup Z) = {} /\ P \cap (((Q \cup Y) \cup Z) \cup L) = {}
  BY <1>2, <1>3
<1> QED BY <1>5, <1>6 DEF H, N, W, Q, S, P, L, Y, Z, I, V

LEMMA InboundsAside ==
  ASSUME NEW doc, NEW v, IsDecoded(doc, v), NEW heap, NEW c, NEW t, IsBegun(doc, v, heap, c, t),
         NEW section, NEW p \in InSection(doc, v, section)
  PROVE  p + t # c
<1>1. \A q \in InSection(doc, v, section) :
        q + t \in 1..Len(heap) /\ q + t # c /\ heap[q + t] = [map |-> Shifted(doc[q].map, t)]
  BY MapsFound
<1> QED BY <1>1

LEMMA Builds ==
  ASSUME NEW doc, NEW v, IsDecoded(doc, v), NEW heap, NEW c, NEW t, IsBegun(doc, v, heap, c, t),
         NEW port \in Nat, NEW userOnline, NEW h1, h1 = ApplyHysteriaListenPort(heap, Ref(c), port),
         NEW h2, h2 = SetStats(h1, Ref(c)), NEW h3, h3 = SetPolicy(h2, Ref(c), userOnline)
  PROVE  BuiltShown(doc, v, h3, c, userOnline, port)
<1> DEFINE f == Shifted(MapIn(doc, v), t)
           Q == Rest(doc, v, port)
           S == StatsOf(doc, v)
           P == PolicyOf(doc, v)
           L == LevelsOf(doc, v)
           Y == SystemOf(doc, v)
           Z == Level0Of(doc, v)
           I == ListPlace(doc, InboundsOf(doc, v))
           R == Q \cup Place(Y)
           RZ == R \cup Place(Z)
           RL == RZ \cup Place(L)
<1>0. /\ IsDoc(doc) /\ t \in Nat /\ Len(doc) \in Nat /\ Len(heap) \in Nat
      /\ c \in (Len(doc) + 1)..Len(heap) /\ heap[c] = [map |-> f]
  BY DecodedIsDoc DEF IsBegun, IsDoc, Extends
<1>1. IsRedirected(doc, v, heap, h1, t, port)
  BY Redirects
<1>2. /\ Extends(doc, h1) /\ Len(h1) = Len(heap) /\ h1[c] = heap[c]
      /\ PortsShown(doc, v, h1, t, port) /\ \A p \in Hysterias(doc, v, port) : p + t # c
  <2>1. \A p \in Hysterias(doc, v, port) : p + t # c
    <3>1. \A p \in InSection(doc, v, "inbounds") : p + t # c
      BY InboundsAside
    <3> QED BY <3>1 DEF Hysterias
  <2>2. c \in 1..Len(heap)
    BY <1>0
  <2> QED BY <1>1, <2>1, <2>2 DEF IsRedirected, PortsShown
<1>3. /\ Ready(doc, Q \cup Place(S), h1, {c}, t) /\ Ready(doc, Q \cup I, h1, {c}, t)
      /\ Ready(doc, RL \cup Place(P), h1, {c}, t)
  <2> DEFINE W == (1..Len(doc) \ Place(v)) \ Hysterias(doc, v, port)
  <2>1. Q \cup Place(S) \subseteq W /\ Q \cup I \subseteq W /\ RL \cup Place(P) \subseteq W
    BY PartsApart
  <2>2. Ready(doc, W, h1, {c}, t)
    BY <1>1, ReadyRedirected
  <2> HIDE DEF W, Q, S, I, RL, P
  <2> QED BY <2>1, <2>2 DEF Ready
<1>4. /\ Place(S) \cap Q = {} /\ Place(Y) \cap Q = {} /\ Place(Z) \cap R = {}
      /\ Place(L) \cap RZ = {} /\ Place(P) \cap RL = {}
  BY PartsApart
<1>5. /\ IsValue(S, 1..Len(doc)) /\ IsValue(P, 1..Len(doc))
      /\ At(f, "stats") = Moved(S, t) /\ At(f, "policy") = Moved(P, t)
  BY ValuesUsed, ShiftedAt DEF StatsOf, PolicyOf, Part
<1>6. /\ L = Part(doc, P, "levels") /\ Y = Part(doc, P, "system") /\ Z = Part(doc, L, "0")
  BY DEF LevelsOf, SystemOf, Level0Of
<1> HIDE DEF f, Q, S, P, L, Y, Z, I
<1>7. \E st : IsSet(doc, h1, h2, c, f, "stats", st) /\ FlagsShown(doc, Q, h2, {c}, S, {}, st)
  <2>1. c \in (Len(doc) + 1)..Len(h1) /\ h1[c] = [map |-> f] /\ c \in {c}
    BY <1>0, <1>2
  <2>2. Extends(doc, h1) /\ {c} \subseteq 1..Len(h1) /\ Ready(doc, Q \cup Place(S), h1, {c}, t)
    BY <1>0, <1>2, <1>3
  <2>3. ASSUME NEW A, A = {c}
        PROVE \E st : IsSet(doc, h1, h2, c, f, "stats", st) /\ FlagsShown(doc, Q, h2, A, S, {}, st)
    <3>1. c \in A /\ A \subseteq 1..Len(h1) /\ Ready(doc, Q \cup Place(S), h1, A, t)
      BY <2>1, <2>2, <2>3
    <3>2. Place(S) \cap Q = {} /\ IsValue(S, 1..Len(doc)) /\ At(f, "stats") = Moved(S, t)
      BY <1>4, <1>5
    <3> QED BY <1>0, <2>1, <2>2, <3>1, <3>2, StatsMade
  <2> QED BY <2>3
<1>8. PICK st : IsSet(doc, h1, h2, c, f, "stats", st) /\ FlagsShown(doc, Q, h2, {c}, S, {}, st)
  BY <1>7
<1> DEFINE f2 == With(f, {"stats"}, Ref(st))
<1>9. /\ Extends(doc, h2) /\ Grown(h1, h2, {c}) /\ h2[c] = [map |-> f2]
      /\ Len(h1) \in Nat /\ Len(h2) \in Nat /\ Len(h1) <= Len(h2) /\ c \in (Len(doc) + 1)..Len(h2)
      /\ {c} \subseteq 1..Len(h2)
  BY <1>0, <1>2, <1>8 DEF IsSet, Extends, Grown
<1>10. At(f2, "policy") = Moved(P, t)
  BY <1>5, StatsAside
<1> HIDE DEF f2
<1>11. Ready(doc, RL \cup Place(P), h2, {c}, t) /\ Ready(doc, Q \cup I, h2, {c}, t)
  <2>1. {c} \cap 1..Len(h1) \subseteq {c}
    OBVIOUS
  <2> QED BY <2>1, <1>0, <1>3, <1>9, ReadyStays
<1>12. \E po : /\ IsSet(doc, h2, h3, c, f2, "policy", po)
               /\ PolicyShown(doc, Q, R, h3, {c}, P, userOnline, po)
  <2>1. ASSUME NEW A, A = {c}
        PROVE \E po : /\ IsSet(doc, h2, h3, c, f2, "policy", po)
                      /\ PolicyShown(doc, Q, R, h3, A, P, userOnline, po)
    <3>1. c \in A /\ A \subseteq 1..Len(h2) /\ Ready(doc, RL \cup Place(P), h2, A, t)
      BY <2>1, <1>9, <1>11
    <3>2. /\ R = Q \cup Place(Y) /\ RZ = R \cup Place(Z) /\ RL = RZ \cup Place(L)
      OBVIOUS
    <3>3. Extends(doc, h2) /\ c \in (Len(doc) + 1)..Len(h2) /\ h2[c] = [map |-> f2]
      BY <1>9
    <3> HIDE DEF R, RZ, RL
    <3>4. PolicyReady(doc, h2, P, t, A, Q, R, RZ, RL, c, f2)
      BY <1>0, <1>4, <1>5, <1>6, <1>10, <3>1, <3>2, <3>3 DEF PolicyReady
    <3> QED BY <3>4, PolicyMade
  <2> QED BY <2>1
<1>13. PICK po : /\ IsSet(doc, h2, h3, c, f2, "policy", po)
                 /\ PolicyShown(doc, Q, R, h3, {c}, P, userOnline, po)
  BY <1>12
<1>14. /\ Extends(doc, h3) /\ Grown(h2, h3, {c}) /\ Len(h3) \in Nat /\ Len(h2) <= Len(h3)
       /\ h3[c] = ConfigIs(doc, v, st, po, t) /\ c \in (Len(doc) + 1)..Len(h3)
  <2>1. Extends(doc, h3) /\ Grown(h2, h3, {c}) /\ h3[c] = [map |-> With(f2, {"policy"}, Ref(po))]
    BY <1>13 DEF IsSet
  <2> QED BY <2>1, <1>0, <1>9 DEF f, f2, ConfigIs, Extends, Grown
<1>15. FlagsShown(doc, Q, h3, {c}, S, {}, st)
  BY <1>0, <1>8, <1>9, <1>14, FlagsStay
<1>16. Ready(doc, Q \cup I, h3, {c}, t)
  <2>1. {c} \cap 1..Len(h2) \subseteq {c}
    OBVIOUS
  <2> QED BY <2>1, <1>0, <1>9, <1>11, <1>14, ReadyStays
<1>17. PortsShown(doc, v, h3, t, port)
  <2> SUFFICES ASSUME NEW p \in Hysterias(doc, v, port)
               PROVE  /\ p + t \in 1..Len(h3)
                      /\ h3[p + t] = [map |-> With(Shifted(doc[p].map, t), {"port"}, Scalar(port))]
    BY DEF PortsShown
  <2>1. /\ p + t \in 1..Len(h1) /\ p + t # c
        /\ h1[p + t] = [map |-> With(Shifted(doc[p].map, t), {"port"}, Scalar(port))]
    BY <1>2 DEF PortsShown
  <2>2. p + t \in 1..Len(h2) /\ p + t \in 1..Len(h3)
    BY <2>1, <1>9, <1>14
  <2>3. h2[p + t] = h1[p + t]
    BY <2>1, <1>9 DEF Grown
  <2>4. h3[p + t] = h2[p + t]
    BY <2>1, <2>2, <1>14 DEF Grown
  <2> QED BY <2>1, <2>2, <2>3, <2>4
<1> QED BY <1>0, <1>13, <1>14, <1>15, <1>16, <1>17, SMTT(30) DEF BuiltShown, Q, S, P, Y, I

-----------------------------------------------------------------------------
\* The trees of what is on a heap.
LEMMA TreeOfMap ==
  ASSUME NEW heap, NEW p \in DOMAIN heap, NEW n \in 1..Depth, NEW f, heap[p] = [map |-> f]
  PROVE  TreeOf(heap, n, Ref(p)) = [map |-> TreesIn(heap, n - 1, f)]
<1>1. TreeOf(heap, n, Ref(p)) = Trees(heap)[n][p]
  BY Kinds DEF TreeOf
<1>2. Children(heap[p]) = f
  BY Kinds DEF Children
<1>3. IsMap([map |-> f])
  BY Kinds
<1>4. ASSUME NEW g PROVE Like(heap[p], g) = [map |-> g]
  BY <1>3 DEF Like
<1> QED BY <1>1, <1>2, <1>4, TreeAt

LEMMA TreesAt ==
  ASSUME NEW heap, NEW n, NEW f, NEW key
  PROVE  /\ At(TreesIn(heap, n, f), key) = TreeOf(heap, n, At(f, key))
         /\ DOMAIN TreesIn(heap, n, f) = DOMAIN f
         /\ key \in DOMAIN f => TreesIn(heap, n, f)[key] = TreeOf(heap, n, f[key])
<1>1. TreeOf(heap, n, Scalar(Nil)) = Scalar(Nil)
  BY Kinds DEF TreeOf
<1> QED BY <1>1 DEF At, TreesIn

LEMMA TreesWith ==
  ASSUME NEW heap, NEW n, NEW f, NEW keys, NEW value
  PROVE  TreesIn(heap, n, With(f, keys, value)) =
           With(TreesIn(heap, n, f), keys, TreeOf(heap, n, value))
  BY DEF TreesIn, With

LEMMA EmptyTrees == ASSUME NEW heap, NEW n PROVE TreesIn(heap, n, <<>>) = <<>>
<1>1. DOMAIN <<>> = {}
  OBVIOUS
<1>2. TreesIn(heap, n, <<>>) = [k \in {} |-> TreeOf(heap, n, <<>>[k])]
  BY <1>1 DEF TreesIn
<1> QED BY <1>2

LEMMA ScalarTree ==
  ASSUME NEW heap, NEW n, NEW x
  PROVE  TreeOf(heap, n, Scalar(x)) = Scalar(x)
  BY Kinds DEF TreeOf

\* What of the document a tree of it shows.
LEMMA TreeKinds ==
  ASSUME NEW doc, IsDoc(doc), NEW w, IsValue(w, 1..Len(doc)), NEW n \in 1..Depth,
         NEW tree, tree = TreeOf(doc, n, w)
  PROVE  /\ MapOf(tree) = TreesIn(doc, n - 1, MapIn(doc, w))
         /\ IsMap(tree) <=> IsRef(w) /\ IsMap(doc[w.ref])
         /\ IsMap(tree) => tree = [map |-> MapOf(tree)]
         /\ IsList(tree) <=> IsRef(w) /\ IsList(doc[w.ref])
         /\ IsList(tree) => tree = [list |-> TreesIn(doc, n - 1, ListIn(doc, w))]
         /\ \A x : tree = Scalar(x) <=> w = Scalar(x)
<1>0. DOMAIN doc = 1..Len(doc)
  BY DEF IsDoc
<1>1. CASE IsRef(w)
  <2> DEFINE o == doc[w.ref]
             f == Children(o)
             g == TreesIn(doc, n - 1, f)
  <2>1. w.ref \in DOMAIN doc /\ o = Like(o, f)
    BY <1>0, <1>1 DEF IsValue, IsDoc, IsObject
  <2>2. tree = Like(o, g)
    BY <1>1, <2>1, TreeAt DEF TreeOf
  <2>3. \A x : w # Scalar(x)
    BY <1>1, Kinds
  <2>4. CASE IsMap(o)
    <3>1. MapIn(doc, w) = f /\ tree = [map |-> g] /\ o = [map |-> f]
      BY <1>1, <2>1, <2>2, <2>4 DEF MapIn, Like, Children
    <3> HIDE DEF g, f
    <3>2. IsMap([map |-> g]) /\ [map |-> g].map = g /\ ~IsList([map |-> g]) /\ ~IsList([map |-> f])
      BY Kinds
    <3>3. ASSUME NEW x PROVE Scalar(x) # [map |-> g]
      <4>1. ~IsMap(Scalar(x)) /\ ~IsList(Scalar(x))
        BY Kinds
      <4> QED BY <3>2, <4>1
    <3> QED BY <1>1, <2>3, <2>4, <3>1, <3>2, <3>3 DEF MapOf, g
  <2>5. CASE ~IsMap(o)
    <3>1. tree = [list |-> g] /\ o = [list |-> f] /\ MapIn(doc, w) = <<>>
      BY <1>1, <2>1, <2>2, <2>5 DEF MapIn, Like
    <3> HIDE DEF g, f
    <3>2. /\ IsList([list |-> g]) /\ ~IsMap([list |-> g]) /\ IsList([list |-> f])
          /\ [list |-> f].list = f
      BY Kinds
    <3>3. ASSUME NEW x PROVE Scalar(x) # [list |-> g]
      <4>1. ~IsMap(Scalar(x)) /\ ~IsList(Scalar(x))
        BY Kinds
      <4> QED BY <3>2, <4>1
    <3>4. ListIn(doc, w) = f
      BY <1>1, <3>1, <3>2 DEF ListIn
    <3>5. MapOf(tree) = <<>> /\ TreesIn(doc, n - 1, <<>>) = <<>>
      BY <3>1, <3>2, EmptyTrees DEF MapOf
    <3> QED BY <1>1, <2>3, <2>5, <3>1, <3>2, <3>3, <3>4, <3>5 DEF g
  <2> QED BY <2>4, <2>5
<1>2. CASE ~IsRef(w)
  <2>1. tree = w /\ w = Scalar(w.scalar)
    BY <1>2 DEF TreeOf, IsValue
  <2>2. ~IsMap(w) /\ ~IsList(w)
    BY <2>1, Kinds
  <2>3. MapOf(tree) = <<>> /\ MapIn(doc, w) = <<>>
    BY <1>2, <2>1, <2>2 DEF MapOf, MapIn
  <2> QED BY <1>2, <2>1, <2>2, <2>3, EmptyTrees
<1> QED BY <1>1, <1>2

\* The trees of a map that was copied and of the map itself are the same, but for those
\* that are not among the places Q.
Within(f, keys, Q) == \A k \in DOMAIN f \ keys : IsRef(f[k]) => f[k].ref \in Q

Faithful(doc, heap, Q, t) ==
  /\ IsDoc(doc) /\ Extends(doc, heap) /\ t \in Nat
  /\ Closed(doc, Q) /\ Q \subseteq Mirrored(doc, heap, t)

LEMMA ShiftedTrees ==
  ASSUME NEW doc, NEW heap, NEW Q, NEW t, Faithful(doc, heap, Q, t), NEW n \in 0..Depth,
         NEW f, NEW keys, Within(f, keys, Q)
  PROVE  /\ DOMAIN TreesIn(heap, n, Shifted(f, t)) = DOMAIN TreesIn(doc, n, f)
         /\ \A k \in DOMAIN TreesIn(doc, n, f) \ keys :
              TreesIn(heap, n, Shifted(f, t))[k] = TreesIn(doc, n, f)[k]
<1>1. ASSUME NEW k \in DOMAIN f \ keys
      PROVE  TreeOf(heap, n, Shifted(f, t)[k]) = TreeOf(doc, n, f[k])
  <2>1. IsRef(f[k]) => f[k].ref \in Q
    BY DEF Within
  <2>2. Shifted(f, t)[k] = Moved(f[k], t)
    BY ShiftedAt
  <2> QED BY <2>1, <2>2, ValuesAlike DEF Faithful
<1> QED BY <1>1, ShiftedAt, TreesAt

LEMMA WithAgree ==
  ASSUME NEW f, NEW g, DOMAIN f = DOMAIN g, NEW keys, \A k \in DOMAIN g \ keys : f[k] = g[k],
         NEW value
  PROVE  With(f, keys, value) = With(g, keys, value)
  BY DEF With

LEMMA AllAgree ==
  ASSUME NEW doc, NEW heap, NEW Q, NEW t, Faithful(doc, heap, Q, t), NEW n \in 0..Depth,
         NEW f, Within(f, {}, Q)
  PROVE  TreesIn(heap, n, Shifted(f, t)) = TreesIn(doc, n, f)
<1> DEFINE g == Shifted(f, t)
           F == TreesIn(doc, n, f)
           G == TreesIn(heap, n, g)
<1>1. F = [k \in DOMAIN F |-> F[k]] /\ G = [k \in DOMAIN G |-> G[k]]
  BY DEF TreesIn
<1>2. DOMAIN G = DOMAIN F /\ \A k \in DOMAIN F \ {} : G[k] = F[k]
  BY ShiftedTrees
<1> HIDE DEF F, G
<1>3. F = G
  BY <1>1, <1>2
<1> QED BY <1>3 DEF F, G

\* The parts that are promised, from what the document had at their places.
PromisedLevel0(m, userOnline) == Setting(Setting(m, UserStats, TRUE), {"statsUserOnline"}, userOnline)
PromisedLevels(m, userOnline) == With(m, {"0"}, [map |-> PromisedLevel0(MapOf(At(m, "0")), userOnline)])
Switched(m, keys) == Setting(m, keys, TRUE)
PromisedSystem(m) == Switched(m, SystemStats)
PromisedPolicy(m, userOnline) ==
  With(With(m, {"levels"}, [map |-> PromisedLevels(MapOf(At(m, "levels")), userOnline)]),
       {"system"}, [map |-> PromisedSystem(MapOf(At(m, "system")))])

\* What of the document may be anywhere else.
Inside(f, Q) == Within(f, {}, Q)
InsideLevels(f, Q) == Within(f, {"0"}, Q)
InsidePolicy(f, Q) == Within(f, {"levels", "system"}, Q)

LEMMA FlagsTree ==
  ASSUME NEW doc, IsDoc(doc), NEW heap, Extends(doc, heap), NEW Q, Closed(doc, Q),
         NEW R, Q \subseteq R, NEW A, NEW w, NEW keys, NEW p,
         FlagsShown(doc, R, heap, A, w, keys, p), Inside(MapIn(doc, w), Q), NEW n \in 1..Depth
  PROVE  TreeOf(heap, n, Ref(p)) =
           [map |-> Switched(TreesIn(doc, n - 1, MapIn(doc, w)), keys)]
<1> DEFINE m == MapIn(doc, w)
<1>1. PICK t \in Nat : heap[p] = FlagsIs(doc, w, keys, t) /\ Ready(doc, R, heap, A, t)
  BY DEF FlagsShown
<1>2. p \in DOMAIN heap /\ n - 1 \in 0..Depth
  BY BuildingAssumption DEF FlagsShown, Extends, IsDoc
<1>3. Faithful(doc, heap, Q, t)
  BY <1>1 DEF Faithful, Ready
<1>4. TreesIn(heap, n - 1, Shifted(m, t)) = TreesIn(doc, n - 1, m)
  BY <1>2, <1>3, AllAgree DEF Inside
<1>5. TreeOf(heap, n, Ref(p)) = [map |-> TreesIn(heap, n - 1, With(Shifted(m, t), keys, Scalar(TRUE)))]
  BY <1>1, <1>2, TreeOfMap DEF FlagsIs
<1>6. TreesIn(heap, n - 1, With(Shifted(m, t), keys, Scalar(TRUE)))
        = With(TreesIn(doc, n - 1, m), keys, Scalar(TRUE))
  <2>1. TreesIn(heap, n - 1, With(Shifted(m, t), keys, Scalar(TRUE)))
          = With(TreesIn(heap, n - 1, Shifted(m, t)), keys, TreeOf(heap, n - 1, Scalar(TRUE)))
    BY TreesWith, ZenonT(30)
  <2>2. TreeOf(heap, n - 1, Scalar(TRUE)) = Scalar(TRUE)
    BY ScalarTree, Zenon
  <2> QED BY <1>4, <2>1, <2>2, Zenon
<1> QED BY <1>5, <1>6 DEF Setting, Switched

LEMMA Level0Tree ==
  ASSUME NEW doc, IsDoc(doc), NEW heap, Extends(doc, heap), NEW Q, Closed(doc, Q),
         NEW R, Q \subseteq R, NEW A, NEW w, NEW userOnline, NEW ze,
         Level0Shown(doc, R, heap, A, w, userOnline, ze), Inside(MapIn(doc, w), Q), NEW n \in 1..Depth
  PROVE  TreeOf(heap, n, Ref(ze)) =
           [map |-> PromisedLevel0(TreesIn(doc, n - 1, MapIn(doc, w)), userOnline)]
<1> DEFINE m == MapIn(doc, w)
<1>1. PICK t \in Nat : heap[ze] = Level0Is(doc, w, userOnline, t) /\ Ready(doc, R, heap, A, t)
  BY DEF Level0Shown
<1>2. ze \in DOMAIN heap /\ n - 1 \in 0..Depth
  BY BuildingAssumption DEF Level0Shown, Extends, IsDoc
<1>3. Faithful(doc, heap, Q, t)
  BY <1>1 DEF Faithful, Ready
<1>4. TreesIn(heap, n - 1, Shifted(m, t)) = TreesIn(doc, n - 1, m)
  BY <1>2, <1>3, AllAgree DEF Inside
<1>5. TreeOf(heap, n, Ref(ze)) =
        [map |-> TreesIn(heap, n - 1, With(With(Shifted(m, t), UserStats, Scalar(TRUE)),
                                           {"statsUserOnline"}, Scalar(userOnline)))]
  BY <1>1, <1>2, TreeOfMap DEF Level0Is
<1>6. TreesIn(heap, n - 1, With(Shifted(m, t), UserStats, Scalar(TRUE)))
        = With(TreesIn(doc, n - 1, m), UserStats, Scalar(TRUE))
  <2>1. TreesIn(heap, n - 1, With(Shifted(m, t), UserStats, Scalar(TRUE)))
          = With(TreesIn(heap, n - 1, Shifted(m, t)), UserStats, TreeOf(heap, n - 1, Scalar(TRUE)))
    BY TreesWith, ZenonT(30)
  <2>2. TreeOf(heap, n - 1, Scalar(TRUE)) = Scalar(TRUE)
    BY ScalarTree, Zenon
  <2> QED BY <1>4, <2>1, <2>2, Zenon
<1>7. \A f : TreesIn(heap, n - 1, With(f, {"statsUserOnline"}, Scalar(userOnline)))
        = With(TreesIn(heap, n - 1, f), {"statsUserOnline"}, Scalar(userOnline))
  BY TreesWith, ScalarTree
<1> QED BY <1>5, <1>6, <1>7 DEF Setting, PromisedLevel0

LEMMA LevelsTree ==
  ASSUME NEW doc, IsDoc(doc), NEW heap, Extends(doc, heap), NEW Q, Closed(doc, Q),
         NEW R, Q \subseteq R, NEW A, NEW w, IsValue(w, 1..Len(doc)), NEW userOnline, NEW le,
         LevelsShown(doc, R, heap, A, w, userOnline, le),
         InsideLevels(MapIn(doc, w), Q), Inside(MapIn(doc, Part(doc, w, "0")), Q),
         NEW n \in 2..Depth
  PROVE  TreeOf(heap, n, Ref(le)) =
           [map |-> PromisedLevels(TreesIn(doc, n - 1, MapIn(doc, w)), userOnline)]
<1> DEFINE m == MapIn(doc, w)
           f == TreesIn(doc, n - 1, m)
           g(t) == TreesIn(heap, n - 1, Shifted(m, t))
<1>1. PICK t \in Nat : \E ze :
        /\ heap[le] = LevelsIs(doc, w, ze, t) /\ Ready(doc, R, heap, A, t)
        /\ Level0Shown(doc, R, heap, A, Part(doc, w, "0"), userOnline, ze)
  BY DEF LevelsShown
<1>a. PICK ze :
        /\ heap[le] = LevelsIs(doc, w, ze, t) /\ Ready(doc, R, heap, A, t)
        /\ Level0Shown(doc, R, heap, A, Part(doc, w, "0"), userOnline, ze)
  BY <1>1
<1>2. /\ le \in DOMAIN heap /\ n - 1 \in 0..Depth /\ n - 1 \in 1..Depth /\ n \in 1..Depth
      /\ (n - 1) - 1 = n - 2
  BY BuildingAssumption DEF LevelsShown, Extends, IsDoc
<1>3. Faithful(doc, heap, Q, t)
  BY <1>a DEF Faithful, Ready
<1>4. DOMAIN g(t) = DOMAIN f /\ \A k \in DOMAIN f \ {"0"} : g(t)[k] = f[k]
  BY <1>2, <1>3, ShiftedTrees DEF InsideLevels
<1>5. TreeOf(heap, n, Ref(le)) = [map |-> TreesIn(heap, n - 1, With(Shifted(m, t), {"0"}, Ref(ze)))]
  BY <1>a, <1>2, TreeOfMap DEF LevelsIs
<1>6. TreesIn(heap, n - 1, With(Shifted(m, t), {"0"}, Ref(ze)))
        = With(g(t), {"0"}, TreeOf(heap, n - 1, Ref(ze)))
  BY TreesWith
<1>7. TreeOf(heap, n - 1, Ref(ze)) =
        [map |-> PromisedLevel0(TreesIn(doc, (n - 1) - 1, MapIn(doc, Part(doc, w, "0"))), userOnline)]
  <2>1. ASSUME NEW j \in 1..Depth
        PROVE  TreeOf(heap, j, Ref(ze)) =
                 [map |-> PromisedLevel0(TreesIn(doc, j - 1, MapIn(doc, Part(doc, w, "0"))), userOnline)]
    BY <1>a, Level0Tree
  <2> QED BY <2>1, <1>2
<1>8. MapOf(At(f, "0")) = TreesIn(doc, (n - 1) - 1, MapIn(doc, Part(doc, w, "0")))
  <2>1. At(f, "0") = TreeOf(doc, n - 1, Part(doc, w, "0"))
    BY TreesAt DEF Part
  <2>2. IsValue(Part(doc, w, "0"), 1..Len(doc))
    BY PartIsValue
  <2> QED BY <2>1, <2>2, <1>2, TreeKinds
<1> HIDE DEF f, g
<1>9. With(g(t), {"0"}, TreeOf(heap, n - 1, Ref(ze))) = With(f, {"0"}, TreeOf(heap, n - 1, Ref(ze)))
  BY <1>4, WithAgree
<1> QED BY <1>5, <1>6, <1>7, <1>8, <1>9 DEF PromisedLevels, f

LEMMA PoliciesAgree ==
  ASSUME NEW f, NEW g, DOMAIN f = DOMAIN g,
         \A k \in DOMAIN g \ {"levels", "system"} : f[k] = g[k], NEW a, NEW b
  PROVE  With(With(f, {"levels"}, a), {"system"}, b) = With(With(g, {"levels"}, a), {"system"}, b)
<1>1. ASSUME NEW h
      PROVE With(With(h, {"levels"}, a), {"system"}, b) =
              [k \in {"levels", "system"} \cup DOMAIN h |-> IF k = "system" THEN b ELSE IF k = "levels" THEN a ELSE h[k]]
  BY DEF With
<1> DEFINE r(h) == [k \in {"levels", "system"} \cup DOMAIN h |->
                      IF k = "system" THEN b ELSE IF k = "levels" THEN a ELSE h[k]]
<1>2. r(f) = r(g)
  OBVIOUS
<1> HIDE DEF r
<1>3. \A h : With(With(h, {"levels"}, a), {"system"}, b) = r(h)
  BY <1>1 DEF r
<1> QED BY <1>2, <1>3

LEMMA PolicyTree ==
  ASSUME NEW doc, IsDoc(doc), NEW heap, Extends(doc, heap), NEW Q, Closed(doc, Q),
         NEW R, Q \subseteq R, NEW A, NEW w, IsValue(w, 1..Len(doc)), NEW userOnline, NEW po,
         PolicyShown(doc, Q, R, heap, A, w, userOnline, po),
         NEW wL, wL = Part(doc, w, "levels"), NEW wY, wY = Part(doc, w, "system"),
         InsidePolicy(MapIn(doc, w), Q), InsideLevels(MapIn(doc, wL), Q),
         Inside(MapIn(doc, Part(doc, wL, "0")), Q), Inside(MapIn(doc, wY), Q),
         NEW n \in 3..Depth
  PROVE  TreeOf(heap, n, Ref(po)) =
           [map |-> PromisedPolicy(TreesIn(doc, n - 1, MapIn(doc, w)), userOnline)]
<1> DEFINE m == MapIn(doc, w)
           f == TreesIn(doc, n - 1, m)
           g(t) == TreesIn(heap, n - 1, Shifted(m, t))
<1>1. PICK t \in Nat : \E le, sy :
        /\ heap[po] = PolicyIs(doc, w, le, sy, t) /\ Ready(doc, Q, heap, A, t)
        /\ LevelsShown(doc, R, heap, A, wL, userOnline, le)
        /\ FlagsShown(doc, Q, heap, A, wY, SystemStats, sy)
  BY DEF PolicyShown
<1>a. PICK le, sy :
        /\ heap[po] = PolicyIs(doc, w, le, sy, t) /\ Ready(doc, Q, heap, A, t)
        /\ LevelsShown(doc, R, heap, A, wL, userOnline, le)
        /\ FlagsShown(doc, Q, heap, A, wY, SystemStats, sy)
  BY <1>1
<1>2. /\ po \in DOMAIN heap /\ n - 1 \in 0..Depth /\ n - 1 \in 2..Depth /\ n - 1 \in 1..Depth
      /\ n \in 1..Depth
  BY BuildingAssumption DEF PolicyShown, Extends, IsDoc
<1>3. Faithful(doc, heap, Q, t)
  BY <1>a DEF Faithful, Ready
<1>4. DOMAIN g(t) = DOMAIN f /\ \A k \in DOMAIN f \ {"levels", "system"} : g(t)[k] = f[k]
  BY <1>2, <1>3, ShiftedTrees DEF InsidePolicy
<1>5. TreeOf(heap, n, Ref(po)) =
        [map |-> TreesIn(heap, n - 1, With(With(Shifted(m, t), {"levels"}, Ref(le)), {"system"}, Ref(sy)))]
  BY <1>a, <1>2, TreeOfMap DEF PolicyIs
<1>6. TreesIn(heap, n - 1, With(With(Shifted(m, t), {"levels"}, Ref(le)), {"system"}, Ref(sy)))
        = With(With(g(t), {"levels"}, TreeOf(heap, n - 1, Ref(le))),
               {"system"}, TreeOf(heap, n - 1, Ref(sy)))
  BY TreesWith
<1>7. TreeOf(heap, n - 1, Ref(le)) =
        [map |-> PromisedLevels(TreesIn(doc, (n - 1) - 1, MapIn(doc, wL)), userOnline)]
  <2>1. IsValue(wL, 1..Len(doc))
    BY PartIsValue
  <2>2. LevelsShown(doc, R, heap, A, wL, userOnline, le)
    BY <1>a
  <2>3. ASSUME NEW j \in 2..Depth
        PROVE  TreeOf(heap, j, Ref(le)) =
                 [map |-> PromisedLevels(TreesIn(doc, j - 1, MapIn(doc, wL)), userOnline)]
    BY <2>1, <2>2, LevelsTree
  <2> QED BY <2>3, <1>2
<1>8. TreeOf(heap, n - 1, Ref(sy)) =
        [map |-> PromisedSystem(TreesIn(doc, (n - 1) - 1, MapIn(doc, wY)))]
  <2>1. Q \subseteq Q
    OBVIOUS
  <2>2. FlagsShown(doc, Q, heap, A, wY, SystemStats, sy)
    BY <1>a
  <2>3. ASSUME NEW j \in 1..Depth
        PROVE  TreeOf(heap, j, Ref(sy)) =
                 [map |-> Switched(TreesIn(doc, j - 1, MapIn(doc, wY)), SystemStats)]
    BY <2>1, <2>2, FlagsTree
  <2> QED BY <2>3, <1>2 DEF PromisedSystem
<1>9. /\ MapOf(At(f, "levels")) = TreesIn(doc, (n - 1) - 1, MapIn(doc, wL))
      /\ MapOf(At(f, "system")) = TreesIn(doc, (n - 1) - 1, MapIn(doc, wY))
  <2>1. At(f, "levels") = TreeOf(doc, n - 1, wL) /\ At(f, "system") = TreeOf(doc, n - 1, wY)
    BY TreesAt DEF Part
  <2>2. IsValue(wL, 1..Len(doc)) /\ IsValue(wY, 1..Len(doc))
    BY PartIsValue
  <2> QED BY <2>1, <2>2, <1>2, TreeKinds
<1> HIDE DEF f, g
<1>10. ASSUME NEW a, NEW b
       PROVE  With(With(g(t), {"levels"}, a), {"system"}, b)
                = With(With(f, {"levels"}, a), {"system"}, b)
  BY <1>4, PoliciesAgree
<1> QED BY <1>5, <1>6, <1>7, <1>8, <1>9, <1>10 DEF PromisedPolicy, f

-----------------------------------------------------------------------------
\* What the touched objects hold is touched as a build means to, or is not at all.
LEMMA InsideRest ==
  ASSUME NEW doc, NEW v, IsDecoded(doc, v), NEW port
  PROVE  LET Q == Rest(doc, v, port)
         IN  /\ Inside(MapIn(doc, StatsOf(doc, v)), Q) /\ Inside(MapIn(doc, SystemOf(doc, v)), Q)
             /\ Inside(MapIn(doc, Level0Of(doc, v)), Q)
             /\ InsideLevels(MapIn(doc, LevelsOf(doc, v)), Q)
             /\ InsidePolicy(MapIn(doc, PolicyOf(doc, v)), Q)
             /\ \A p \in Hysterias(doc, v, port) : Inside(doc[p].map, Q)
<1> DEFINE Q == Rest(doc, v, port)
           V == Place(v)
           S == Place(StatsOf(doc, v))
           P == Place(PolicyOf(doc, v))
           L == Place(LevelsOf(doc, v))
           Y == Place(SystemOf(doc, v))
           Z == Place(Level0Of(doc, v))
           I == ListPlace(doc, InboundsOf(doc, v))
           H == Hysterias(doc, v, port)
<1>0. IsDoc(doc)
  BY DecodedIsDoc
<1>1. /\ V \cap (S \cup P \cup L \cup Y \cup Z \cup I \cup H) = {}
      /\ P \cap (S \cup L \cup Y \cup Z \cup I \cup H) = {}
      /\ L \cap (S \cup Y \cup Z \cup I \cup H) = {}
      /\ S \cap (Y \cup Z \cup I \cup H) = {}
      /\ Y \cap (Z \cup I \cup H) = {} /\ Z \cap (I \cup H) = {} /\ I \cap H = {}
  BY TouchedApart DEF StatsOf, SystemOf, Level0Of, InboundsOf
<1>2. ASSUME NEW r, NEW m, NEW k, Held(doc, r, m, k),
             ~(m \in V /\ k \in {"stats", "policy"}), ~(m \in V /\ k = "inbounds" /\ I # {}),
             ~(m \in P /\ k \in {"levels", "system"}), ~(m \in L /\ k = "0"), ~(m \in I /\ r \in H)
      PROVE  r \in Q
  BY <1>2, RestIs DEF FromTouched, InboundsOf
<1>3. ASSUME NEW w, IsValue(w, 1..Len(doc)), NEW k \in DOMAIN MapIn(doc, w), IsRef(MapIn(doc, w)[k])
      PROVE  Held(doc, MapIn(doc, w)[k].ref, w.ref, k) /\ w.ref \in Place(w)
  BY <1>0, <1>3, InMap DEF Place
<1>4. /\ IsValue(StatsOf(doc, v), 1..Len(doc)) /\ IsValue(SystemOf(doc, v), 1..Len(doc))
      /\ IsValue(Level0Of(doc, v), 1..Len(doc)) /\ IsValue(LevelsOf(doc, v), 1..Len(doc))
      /\ IsValue(PolicyOf(doc, v), 1..Len(doc))
  BY ValuesUsed DEF StatsOf, SystemOf, Level0Of
<1> HIDE DEF Q, V, S, P, L, Y, Z, I, H
<1>5. Inside(MapIn(doc, StatsOf(doc, v)), Q)
  <2> SUFFICES ASSUME NEW k \in DOMAIN MapIn(doc, StatsOf(doc, v)), IsRef(MapIn(doc, StatsOf(doc, v))[k])
               PROVE  MapIn(doc, StatsOf(doc, v))[k].ref \in Q
    BY DEF Inside, Within
  <2>1. Held(doc, MapIn(doc, StatsOf(doc, v))[k].ref, StatsOf(doc, v).ref, k) /\ StatsOf(doc, v).ref \in S
    BY <1>3, <1>4 DEF S
  <2> QED BY <2>1, <1>1, <1>2
<1>6. Inside(MapIn(doc, SystemOf(doc, v)), Q)
  <2> SUFFICES ASSUME NEW k \in DOMAIN MapIn(doc, SystemOf(doc, v)), IsRef(MapIn(doc, SystemOf(doc, v))[k])
               PROVE  MapIn(doc, SystemOf(doc, v))[k].ref \in Q
    BY DEF Inside, Within
  <2>1. Held(doc, MapIn(doc, SystemOf(doc, v))[k].ref, SystemOf(doc, v).ref, k) /\ SystemOf(doc, v).ref \in Y
    BY <1>3, <1>4 DEF Y
  <2> QED BY <2>1, <1>1, <1>2
<1>7. Inside(MapIn(doc, Level0Of(doc, v)), Q)
  <2> SUFFICES ASSUME NEW k \in DOMAIN MapIn(doc, Level0Of(doc, v)), IsRef(MapIn(doc, Level0Of(doc, v))[k])
               PROVE  MapIn(doc, Level0Of(doc, v))[k].ref \in Q
    BY DEF Inside, Within
  <2>1. Held(doc, MapIn(doc, Level0Of(doc, v))[k].ref, Level0Of(doc, v).ref, k) /\ Level0Of(doc, v).ref \in Z
    BY <1>3, <1>4 DEF Z
  <2> QED BY <2>1, <1>1, <1>2
<1>8. InsideLevels(MapIn(doc, LevelsOf(doc, v)), Q)
  <2> SUFFICES ASSUME NEW k \in DOMAIN MapIn(doc, LevelsOf(doc, v)) \ {"0"}, IsRef(MapIn(doc, LevelsOf(doc, v))[k])
               PROVE  MapIn(doc, LevelsOf(doc, v))[k].ref \in Q
    BY DEF InsideLevels, Within
  <2>1. Held(doc, MapIn(doc, LevelsOf(doc, v))[k].ref, LevelsOf(doc, v).ref, k) /\ LevelsOf(doc, v).ref \in L
    BY <1>3, <1>4 DEF L
  <2> QED BY <2>1, <1>1, <1>2
<1>9. InsidePolicy(MapIn(doc, PolicyOf(doc, v)), Q)
  <2> SUFFICES ASSUME NEW k \in DOMAIN MapIn(doc, PolicyOf(doc, v)) \ {"levels", "system"}, IsRef(MapIn(doc, PolicyOf(doc, v))[k])
               PROVE  MapIn(doc, PolicyOf(doc, v))[k].ref \in Q
    BY DEF InsidePolicy, Within
  <2>1. Held(doc, MapIn(doc, PolicyOf(doc, v))[k].ref, PolicyOf(doc, v).ref, k) /\ PolicyOf(doc, v).ref \in P
    BY <1>3, <1>4 DEF P
  <2> QED BY <2>1, <1>1, <1>2
<1>10. ASSUME NEW p \in H PROVE Inside(doc[p].map, Q)
  <2> SUFFICES ASSUME NEW k \in DOMAIN doc[p].map, IsRef(doc[p].map[k])
               PROVE  doc[p].map[k].ref \in Q
    BY DEF Inside, Within
  <2>1. p \in 1..Len(doc) /\ IsMap(doc[p])
    BY DEF H, Hysterias, InSection
  <2>2. Held(doc, doc[p].map[k].ref, p, k)
    BY <1>0, <2>1, ValueHeld DEF Children
  <2> QED BY <2>2, <1>1, <1>2
<1> QED BY <1>5, <1>6, <1>7, <1>8, <1>9, <1>10 DEF Q, H

LEMMA RootHolds ==
  ASSUME NEW doc, NEW v, IsDecoded(doc, v), NEW port,
         NEW k \in DOMAIN MapIn(doc, v) \ {"stats", "policy"}, IsRef(MapIn(doc, v)[k])
  PROVE  \/ MapIn(doc, v)[k].ref \in Rest(doc, v, port)
         \/ k = "inbounds" /\ ListPlace(doc, InboundsOf(doc, v)) # {}
<1>1. Held(doc, MapIn(doc, v)[k].ref, v.ref, k) /\ v.ref \in Place(v)
  BY InMap, ValuesUsed, DecodedIsDoc DEF Place
<1>2. /\ Place(v) \cap Place(PolicyOf(doc, v)) = {} /\ Place(v) \cap Place(LevelsOf(doc, v)) = {}
      /\ Place(v) \cap ListPlace(doc, InboundsOf(doc, v)) = {}
  BY TouchedApart DEF InboundsOf
<1>3. CASE FromTouched(doc, v, port, MapIn(doc, v)[k].ref, v.ref, k)
  BY <1>1, <1>2, <1>3 DEF FromTouched, InboundsOf
<1>4. CASE ~FromTouched(doc, v, port, MapIn(doc, v)[k].ref, v.ref, k)
  BY <1>1, <1>4, RestIs
<1> QED BY <1>3, <1>4

LEMMA ListHolds ==
  ASSUME NEW doc, NEW v, IsDecoded(doc, v), NEW port, NEW list, list = ListIn(doc, InboundsOf(doc, v)),
         NEW i \in DOMAIN list, IsRef(list[i])
  PROVE  /\ list[i] = Ref(list[i].ref)
         /\ list[i].ref \in Rest(doc, v, port) \/ list[i].ref \in Hysterias(doc, v, port)
<1> DEFINE w == InboundsOf(doc, v)
           r == list[i].ref
<1>1. ListPlace(doc, w) = {w.ref} /\ IsValue(list[i], 1..Len(doc)) /\ Held(doc, r, w.ref, i)
  <2>1. IsValue(w, 1..Len(doc))
    BY ValuesUsed DEF InboundsOf
  <2> HIDE DEF w
  <2>2. i \in DOMAIN ListIn(doc, w) /\ list[i] = ListIn(doc, w)[i]
    BY DEF w
  <2> QED BY <2>1, <2>2, InList
<1>2. /\ Place(v) \cap ListPlace(doc, w) = {} /\ Place(PolicyOf(doc, v)) \cap ListPlace(doc, w) = {}
      /\ Place(LevelsOf(doc, v)) \cap ListPlace(doc, w) = {}
  BY TouchedApart DEF InboundsOf
<1>3. CASE FromTouched(doc, v, port, r, w.ref, i)
  BY <1>1, <1>2, <1>3 DEF FromTouched, IsValue
<1>4. CASE ~FromTouched(doc, v, port, r, w.ref, i)
  BY <1>1, <1>4, RestIs DEF IsValue
<1> QED BY <1>3, <1>4

-----------------------------------------------------------------------------
\* The configuration as a tree.
RedirectedTree(tree, port) ==
  IF port > 0 /\ IsMap(tree) /\ IsHysteria(MapOf(tree))
  THEN [map |-> Setting(tree.map, {"port"}, port)] ELSE tree

LEMMA InboundTree ==
  ASSUME NEW doc, NEW v, IsDecoded(doc, v), NEW port \in Nat, NEW heap, NEW t,
         Faithful(doc, heap, Rest(doc, v, port), t), PortsShown(doc, v, heap, t, port),
         NEW list, list = ListIn(doc, InboundsOf(doc, v)), NEW i \in DOMAIN list,
         NEW n \in 2..Depth
  PROVE  TreeOf(heap, n, Moved(list[i], t)) = RedirectedTree(TreeOf(doc, n, list[i]), port)
<1> DEFINE x == list[i]
           tree == TreeOf(doc, n, x)
<1>0. /\ IsDoc(doc) /\ IsValue(x, 1..Len(doc)) /\ n \in 1..Depth /\ n - 1 \in 0..Depth /\ n - 1 \in 1..Depth
      /\ n \in 0..Depth /\ DOMAIN heap = 1..Len(heap)
  <2>1. IsValue(InboundsOf(doc, v), 1..Len(doc))
    BY ValuesUsed DEF InboundsOf
  <2>2. i \in DOMAIN ListIn(doc, InboundsOf(doc, v)) /\ x = ListIn(doc, InboundsOf(doc, v))[i]
    OBVIOUS
  <2> HIDE DEF x
  <2>3. IsValue(x, 1..Len(doc))
    BY <2>1, <2>2, InList
  <2> QED BY <2>3, BuildingAssumption DEF Faithful, Extends
<1>1. /\ MapOf(tree) = TreesIn(doc, n - 1, MapIn(doc, x))
      /\ IsMap(tree) <=> IsRef(x) /\ IsMap(doc[x.ref])
      /\ IsMap(tree) => tree = [map |-> MapOf(tree)]
  <2> HIDE DEF x
  <2> QED BY <1>0, TreeKinds
<1>2. IsHysteria(MapOf(tree)) <=> IsHysteria(MapIn(doc, x))
  <2> DEFINE y == Part(doc, x, "protocol")
  <2>1. At(MapOf(tree), "protocol") = TreeOf(doc, n - 1, y)
    BY <1>1, TreesAt DEF Part
  <2>2. IsValue(y, 1..Len(doc))
    BY <1>0, PartIsValue
  <2>3. TreeOf(doc, n - 1, y) = Scalar("hysteria") <=> y = Scalar("hysteria")
    <3> HIDE DEF y
    <3> QED BY <1>0, <2>2, TreeKinds
  <2> QED BY <2>1, <2>3 DEF IsHysteria, Part
<1>3. IsRef(x) => x = Ref(x.ref) /\ (x.ref \in Rest(doc, v, port) \/ x.ref \in Hysterias(doc, v, port))
  BY ListHolds
<1>4. CASE IsRef(x) /\ x.ref \in Hysterias(doc, v, port)
  <2> DEFINE p == x.ref
             f == doc[p].map
  <2>1. port > 0 /\ IsMap(doc[p]) /\ IsHysteria(f) /\ p \in 1..Len(doc) /\ MapIn(doc, x) = f
    BY <1>4 DEF Hysterias, InSection, MapIn
  <2>2. p + t \in DOMAIN heap /\ heap[p + t] = [map |-> With(Shifted(f, t), {"port"}, Scalar(port))]
    BY <1>0, <1>4 DEF PortsShown
  <2>3. Moved(x, t) = Ref(p + t)
    BY <1>4, MovedKind
  <2>4. TreeOf(heap, n, Ref(p + t)) = [map |-> TreesIn(heap, n - 1, With(Shifted(f, t), {"port"}, Scalar(port)))]
    <3> HIDE DEF f, p
    <3>1. ASSUME NEW q, q = p + t
          PROVE TreeOf(heap, n, Ref(q)) = [map |-> TreesIn(heap, n - 1, With(Shifted(f, t), {"port"}, Scalar(port)))]
      BY <1>0, <2>2, <3>1, TreeOfMap
    <3> QED BY <3>1
  <2>5. TreesIn(heap, n - 1, Shifted(f, t)) = TreesIn(doc, n - 1, f)
    <3>1. Inside(f, Rest(doc, v, port))
      BY <1>4, InsideRest
    <3> QED BY <3>1, <1>0, AllAgree DEF Inside
  <2>6. TreesIn(heap, n - 1, With(Shifted(f, t), {"port"}, Scalar(port)))
          = With(TreesIn(doc, n - 1, f), {"port"}, Scalar(port))
    <3>1. TreesIn(heap, n - 1, With(Shifted(f, t), {"port"}, Scalar(port)))
          = With(TreesIn(heap, n - 1, Shifted(f, t)), {"port"}, TreeOf(heap, n - 1, Scalar(port)))
      <4> HIDE DEF f
      <4> QED BY TreesWith
    <3>2. TreeOf(heap, n - 1, Scalar(port)) = Scalar(port)
      BY ScalarTree
    <3> HIDE DEF f
    <3> QED BY <2>5, <3>1, <3>2
  <2>7. IsMap(tree) /\ tree = [map |-> TreesIn(doc, n - 1, f)] /\ IsHysteria(MapOf(tree))
    BY <1>1, <1>2, <1>4, <2>1
  <2>8. tree.map = TreesIn(doc, n - 1, f)
    BY <2>7
  <2>9. RedirectedTree(tree, port) = [map |-> With(TreesIn(doc, n - 1, f), {"port"}, Scalar(port))]
    BY <2>1, <2>7, <2>8 DEF RedirectedTree, Setting
  <2> QED BY <2>3, <2>4, <2>6, <2>9
<1>5. CASE ~(IsRef(x) /\ x.ref \in Hysterias(doc, v, port))
  <2>1. TreeOf(heap, n, Moved(x, t)) = tree
    <3>1. IsRef(x) => x.ref \in Rest(doc, v, port)
      BY <1>3, <1>5
    <3> DEFINE Q == Rest(doc, v, port)
    <3>2. Closed(doc, Q) /\ Q \subseteq Mirrored(doc, heap, t) /\ Extends(doc, heap) /\ t \in Nat
      BY DEF Faithful
    <3> HIDE DEF x, Q
    <3>3. n \in 0..Depth /\ IsDoc(doc) /\ (IsRef(x) => x.ref \in Q)
      BY <1>0, <3>1 DEF Q
    <3>4. TreeOf(heap, n, Moved(x, t)) = TreeOf(doc, n, x)
      BY <3>2, <3>3, ValuesAlike
    <3> QED BY <3>4 DEF x
  <2>2. ~(port > 0 /\ IsMap(tree) /\ IsHysteria(MapOf(tree)))
    <3> SUFFICES ASSUME port > 0, IsMap(tree), IsHysteria(MapOf(tree)) PROVE FALSE
      OBVIOUS
    <3>1. IsRef(x) /\ IsMap(doc[x.ref]) /\ IsHysteria(doc[x.ref].map) /\ x.ref \in 1..Len(doc)
      BY <1>0, <1>1, <1>2 DEF MapIn, IsValue
    <3>2. x.ref \in Hysterias(doc, v, port)
      BY <1>3, <3>1 DEF Hysterias, InSection, InboundsOf
    <3> QED BY <1>5, <3>1, <3>2
  <2> QED BY <2>1, <2>2 DEF RedirectedTree
<1> QED BY <1>4, <1>5

LEMMA InboundsTree ==
  ASSUME NEW doc, NEW v, IsDecoded(doc, v), NEW port \in Nat, NEW heap, NEW t,
         Faithful(doc, heap, Rest(doc, v, port), t), PortsShown(doc, v, heap, t, port),
         NEW w, w = InboundsOf(doc, v), ListPlace(doc, w) # {},
         ListPlace(doc, w) \subseteq Mirrored(doc, heap, t), NEW n \in 3..Depth
  PROVE  LET tree == TreeOf(doc, n, w)
         IN  /\ IsList(tree)
             /\ TreeOf(heap, n, Moved(w, t)) =
                  [list |-> [i \in DOMAIN tree.list |-> RedirectedTree(tree.list[i], port)]]
<1> DEFINE list == ListIn(doc, w)
           p == w.ref
           f == Shifted(list, t)
           g == TreesIn(heap, n - 1, f)
           h == TreesIn(doc, n - 1, list)
           r == [i \in DOMAIN h |-> RedirectedTree(h[i], port)]
<1>0. /\ IsDoc(doc) /\ IsValue(w, 1..Len(doc)) /\ n \in 1..Depth /\ n - 1 \in 2..Depth
      /\ DOMAIN heap = 1..Len(heap)
  BY BuildingAssumption, ValuesUsed DEF Faithful, Extends, InboundsOf
<1>1. IsRef(w) /\ IsList(doc[p]) /\ p \in 1..Len(doc) /\ list = doc[p].list
  BY <1>0 DEF ListPlace, ListIn, IsValue
<1>2. p + t \in DOMAIN heap /\ heap[p + t] = Copy(doc[p], t) /\ Moved(w, t) = Ref(p + t)
  BY <1>0, <1>1, MovedKind DEF ListPlace, Mirrored
<1>3. doc[p] = Like(doc[p], Children(doc[p]))
  BY <1>0, <1>1 DEF IsDoc, IsObject
<1>4. ~IsMap(doc[p]) /\ heap[p + t] = [list |-> f]
  BY <1>1, <1>2, <1>3, ObjectKinds, CopyKind
<1>5. TreeOf(doc, n, w) = [list |-> h]
  <2>1. IsList(TreeOf(doc, n, w))
    BY <1>0, <1>1, TreeKinds
  <2> QED BY <1>0, <2>1, TreeKinds
<1>6. TreeOf(heap, n, Moved(w, t)) = [list |-> g]
  <2> HIDE DEF f, g, p
  <2>1. ASSUME NEW o, o = [list |-> f] PROVE Children(o) = f /\ \A x : Like(o, x) = [list |-> x]
    <3>1. ~IsMap([list |-> f])
      BY Kinds
    <3> QED BY <2>1, <3>1 DEF Children, Like
  <2>2. Children(heap[p + t]) = f /\ \A x : Like(heap[p + t], x) = [list |-> x]
    BY <1>4, <2>1
  <2>3. TreeOf(heap, n, Ref(p + t)) = Trees(heap)[n][p + t]
    BY Kinds DEF TreeOf
  <2>4. Trees(heap)[n][p + t] = Like(heap[p + t], TreesIn(heap, n - 1, Children(heap[p + t])))
    BY <1>0, <1>2, TreeAt
  <2> QED BY <1>2, <2>2, <2>3, <2>4 DEF g
<1>7. g = r
  <2>1. ASSUME NEW i \in DOMAIN list PROVE g[i] = RedirectedTree(h[i], port)
    <3>1. g[i] = TreeOf(heap, n - 1, f[i]) /\ h[i] = TreeOf(doc, n - 1, list[i]) /\ f[i] = Moved(list[i], t)
      BY TreesAt, ShiftedAt
    <3>2. ASSUME NEW j \in 2..Depth
          PROVE  TreeOf(heap, j, Moved(list[i], t)) = RedirectedTree(TreeOf(doc, j, list[i]), port)
      BY InboundTree
    <3>3. TreeOf(heap, n - 1, Moved(list[i], t)) = RedirectedTree(TreeOf(doc, n - 1, list[i]), port)
      BY <1>0, <3>2
    <3> HIDE DEF g, h, f
    <3> QED BY <3>1, <3>3
  <2>2. DOMAIN g = DOMAIN list /\ DOMAIN h = DOMAIN list /\ g = [i \in DOMAIN g |-> g[i]]
    BY TreesAt, ShiftedAt DEF TreesIn
  <2> HIDE DEF g, h
  <2> QED BY <2>1, <2>2
<1> HIDE DEF g, h, list
<1>8. IsList([list |-> h]) /\ [list |-> h].list = h
  BY Kinds
<1> QED BY <1>5, <1>6, <1>7, <1>8

PromisedKey(m, k, userOnline, port) ==
  CASE k = "stats"  -> [map |-> MapOf(At(m, "stats"))]
    [] k = "policy" -> [map |-> PromisedPolicy(MapOf(At(m, "policy")), userOnline)]
    [] k = "inbounds" /\ IsList(m["inbounds"]) ->
         [list |-> [i \in DOMAIN m["inbounds"].list |-> RedirectedTree(m["inbounds"].list[i], port)]]
    [] OTHER -> m[k]

PromisedMap(m, userOnline, port) ==
  [map |-> [k \in {"stats", "policy"} \cup DOMAIN m |-> PromisedKey(m, k, userOnline, port)]]

LEMMA PromisedIs ==
  ASSUME NEW document, NEW userOnline, NEW port
  PROVE  Promised(document, userOnline, port) = PromisedMap(MapOf(document), userOnline, port)
  BY Zenon DEF Promised, PromisedMap, PromisedKey, PromisedPolicy, PromisedLevels, PromisedLevel0, PromisedSystem,
         Switched, RedirectedTree
LEMMA StatsTree ==
  ASSUME NEW doc, NEW v, IsDecoded(doc, v), NEW port, NEW heap, Extends(doc, heap), NEW A,
         NEW keys, keys = {}, NEW st,
         FlagsShown(doc, Rest(doc, v, port), heap, A, StatsOf(doc, v), keys, st), NEW n \in 2..Depth
  PROVE  TreeOf(heap, n, Ref(st)) = [map |-> MapOf(TreeOf(doc, n, StatsOf(doc, v)))]
<1> DEFINE Q == Rest(doc, v, port)
           w == StatsOf(doc, v)
<1>0. IsDoc(doc) /\ n \in 1..Depth /\ IsValue(w, 1..Len(doc)) /\ Closed(doc, Q) /\ Inside(MapIn(doc, w), Q)
  BY DecodedIsDoc, ValuesUsed, RestClosed, InsideRest, BuildingAssumption DEF StatsOf
<1> HIDE DEF w, Q
<1>1. FlagsShown(doc, Q, heap, A, w, keys, st)
  BY DEF w, Q
<1>2. TreeOf(heap, n, Ref(st)) = [map |-> Switched(TreesIn(doc, n - 1, MapIn(doc, w)), keys)]
  BY <1>0, <1>1, FlagsTree
<1>3. MapOf(TreeOf(doc, n, w)) = TreesIn(doc, n - 1, MapIn(doc, w))
  BY <1>0, TreeKinds
<1>4. TreesIn(doc, n - 1, MapIn(doc, w)) = [k \in DOMAIN TreesIn(doc, n - 1, MapIn(doc, w)) |-> TreesIn(doc, n - 1, MapIn(doc, w))[k]]
  BY Zenon DEF TreesIn
<1>5. Switched(TreesIn(doc, n - 1, MapIn(doc, w)), keys) = TreesIn(doc, n - 1, MapIn(doc, w))
  BY <1>4, WithNone DEF Switched, Setting
<1> QED BY <1>2, <1>3, <1>5 DEF w

LEMMA PolicyOfTree ==
  ASSUME NEW doc, NEW v, IsDecoded(doc, v), NEW port, NEW heap, Extends(doc, heap), NEW A,
         NEW userOnline, NEW po,
         PolicyShown(doc, Rest(doc, v, port), Rest(doc, v, port) \cup Place(SystemOf(doc, v)),
                     heap, A, PolicyOf(doc, v), userOnline, po), NEW n \in 3..Depth
  PROVE  TreeOf(heap, n, Ref(po)) = [map |-> PromisedPolicy(MapOf(TreeOf(doc, n, PolicyOf(doc, v))), userOnline)]
<1> DEFINE Q == Rest(doc, v, port)
           R == Q \cup Place(SystemOf(doc, v))
           w == PolicyOf(doc, v)
           wL == LevelsOf(doc, v)
           wY == SystemOf(doc, v)
<1>0. /\ IsDoc(doc) /\ n \in 1..Depth /\ IsValue(w, 1..Len(doc)) /\ Closed(doc, Q) /\ Q \subseteq R
      /\ InsidePolicy(MapIn(doc, w), Q) /\ InsideLevels(MapIn(doc, wL), Q)
      /\ Inside(MapIn(doc, Part(doc, wL, "0")), Q) /\ Inside(MapIn(doc, wY), Q)
  BY DecodedIsDoc, ValuesUsed, RestClosed, InsideRest, BuildingAssumption DEF SystemOf, Level0Of
<1>1. wL = Part(doc, w, "levels") /\ wY = Part(doc, w, "system") /\ PolicyShown(doc, Q, R, heap, A, w, userOnline, po)
  BY DEF LevelsOf, SystemOf
<1>2. MapOf(TreeOf(doc, n, w)) = TreesIn(doc, n - 1, MapIn(doc, w))
  <2> HIDE DEF w
  <2> QED BY <1>0, TreeKinds
<1>3. TreeOf(heap, n, Ref(po)) = [map |-> PromisedPolicy(TreesIn(doc, n - 1, MapIn(doc, w)), userOnline)]
  <2> HIDE DEF w, wL, wY, Q, R
  <2> QED BY <1>0, <1>1, PolicyTree
<1> QED BY <1>2, <1>3

\* The other keys of the configuration.
LEMMA OtherTree ==
  ASSUME NEW doc, NEW v, IsDecoded(doc, v), NEW port \in Nat, NEW heap, NEW t,
         Faithful(doc, heap, Rest(doc, v, port), t), PortsShown(doc, v, heap, t, port),
         ListPlace(doc, InboundsOf(doc, v)) \subseteq Mirrored(doc, heap, t),
         NEW n \in 3..Depth, NEW m, m = TreesIn(doc, n, MapIn(doc, v)), NEW userOnline,
         NEW k \in DOMAIN MapIn(doc, v) \ {"stats", "policy"}
  PROVE  TreeOf(heap, n, Moved(MapIn(doc, v)[k], t)) = PromisedKey(m, k, userOnline, port)
<1> DEFINE x == MapIn(doc, v)[k]
           Q == Rest(doc, v, port)
<1>0. IsDoc(doc) /\ n \in 0..Depth /\ n \in 1..Depth /\ IsValue(InboundsOf(doc, v), 1..Len(doc))
  BY DecodedIsDoc, ValuesUsed, BuildingAssumption DEF InboundsOf
<1>1. m[k] = TreeOf(doc, n, x)
  BY TreesAt
<1>2. k # "stats" /\ k # "policy"
  OBVIOUS
<1>3. CASE k = "inbounds" /\ ListPlace(doc, InboundsOf(doc, v)) # {}
  <2>1. x = InboundsOf(doc, v)
    BY <1>3 DEF InboundsOf, Part, At
  <2>2. /\ IsList(TreeOf(doc, n, x))
        /\ TreeOf(heap, n, Moved(x, t)) =
             [list |-> [i \in DOMAIN TreeOf(doc, n, x).list |-> RedirectedTree(TreeOf(doc, n, x).list[i], port)]]
    <3> HIDE DEF x
    <3> QED BY <1>3, <2>1, InboundsTree
  <2>3. PromisedKey(m, k, userOnline, port) =
          [list |-> [i \in DOMAIN m["inbounds"].list |-> RedirectedTree(m["inbounds"].list[i], port)]]
    BY <1>1, <1>2, <1>3, <2>2 DEF PromisedKey
  <2> QED BY <1>1, <1>3, <2>2, <2>3
<1>4. CASE ~(k = "inbounds" /\ ListPlace(doc, InboundsOf(doc, v)) # {})
  <2>1. IsRef(x) => x.ref \in Q
    BY <1>4, RootHolds
  <2>2. TreeOf(heap, n, Moved(x, t)) = TreeOf(doc, n, x)
    <3> HIDE DEF x, Q
    <3>1. Faithful(doc, heap, Q, t)
      BY DEF Q
    <3> QED BY <1>0, <2>1, <3>1, ValuesAlike DEF Faithful
  <2>3. k = "inbounds" => ~IsList(m["inbounds"])
    <3>1. SUFFICES ASSUME k = "inbounds" PROVE ~IsList(TreeOf(doc, n, x))
      BY <1>1
    <3>2. x = InboundsOf(doc, v)
      BY <3>1 DEF InboundsOf, Part, At
    <3>3. ~(IsRef(x) /\ IsList(doc[x.ref]))
      BY <1>4, <3>1, <3>2 DEF ListPlace
    <3> HIDE DEF x
    <3> QED BY <1>0, <3>2, <3>3, TreeKinds
  <2>4. PromisedKey(m, k, userOnline, port) = m[k]
    BY <1>2, <2>3 DEF PromisedKey
  <2> QED BY <1>1, <2>2, <2>4
<1> QED BY <1>3, <1>4

WithBoth(f, a, b) == With(With(f, {"stats"}, a), {"policy"}, b)

HasBoth(g, f, a, b) ==
  /\ g = [k \in {"stats", "policy"} \cup DOMAIN f |-> g[k]]
  /\ g["stats"] = a /\ g["policy"] = b
  /\ \A k \in DOMAIN f \ {"stats", "policy"} : g[k] = f[k]

LEMMA BothKeys == ASSUME NEW f, NEW a, NEW b PROVE HasBoth(WithBoth(f, a, b), f, a, b)
  BY DEF With, WithBoth, HasBoth

LEMMA ConfigTree ==
  ASSUME NEW doc, NEW v, IsDecoded(doc, v), NEW port \in Nat, NEW heap, NEW c, NEW userOnline,
         BuiltShown(doc, v, heap, c, userOnline, port),
         NEW document, document = TreeOf(doc, Depth, v)
  PROVE  TreeOf(heap, Depth, Ref(c)) = Promised(document, userOnline, port)
<1>1. PICK t \in Nat : \E st, po :
        /\ heap[c] = ConfigIs(doc, v, st, po, t)
        /\ Ready(doc, Rest(doc, v, port) \cup ListPlace(doc, InboundsOf(doc, v)), heap, {c}, t)
        /\ PortsShown(doc, v, heap, t, port)
        /\ FlagsShown(doc, Rest(doc, v, port), heap, {c}, StatsOf(doc, v), {}, st)
        /\ PolicyShown(doc, Rest(doc, v, port), Rest(doc, v, port) \cup Place(SystemOf(doc, v)),
                       heap, {c}, PolicyOf(doc, v), userOnline, po)
  BY Zenon DEF BuiltShown
<1>2. PICK st, po :
        /\ heap[c] = ConfigIs(doc, v, st, po, t)
        /\ Ready(doc, Rest(doc, v, port) \cup ListPlace(doc, InboundsOf(doc, v)), heap, {c}, t)
        /\ PortsShown(doc, v, heap, t, port)
        /\ FlagsShown(doc, Rest(doc, v, port), heap, {c}, StatsOf(doc, v), {}, st)
        /\ PolicyShown(doc, Rest(doc, v, port), Rest(doc, v, port) \cup Place(SystemOf(doc, v)),
                       heap, {c}, PolicyOf(doc, v), userOnline, po)
  BY <1>1, Zenon
<1> DEFINE Q == Rest(doc, v, port)
           f == MapIn(doc, v)
           n == Depth - 1
           m == TreesIn(doc, n, f)
           G == TreesIn(heap, n, Shifted(f, t))
           g == With(With(G, {"stats"}, TreeOf(heap, n, Ref(st))), {"policy"}, TreeOf(heap, n, Ref(po)))
<1>3. /\ IsDoc(doc) /\ IsValue(v, 1..Len(doc)) /\ n \in 3..Depth /\ n \in 2..Depth /\ n \in 0..Depth
      /\ Depth \in 1..Depth /\ Extends(doc, heap) /\ c \in DOMAIN heap
  BY DecodedIsDoc, ValuesUsed, BuildingAssumption DEF BuiltShown, Extends
<1>4. /\ Faithful(doc, heap, Q, t) /\ ListPlace(doc, InboundsOf(doc, v)) \subseteq Mirrored(doc, heap, t)
  BY <1>2, <1>3, RestClosed DEF Faithful, Ready
<1>5. MapOf(document) = m
  BY <1>3, TreeKinds
<1>6. TreeOf(heap, Depth, Ref(c)) = [map |-> g]
  <2> DEFINE F == With(Shifted(f, t), {"stats"}, Ref(st))
  <2>1. heap[c] = [map |-> With(F, {"policy"}, Ref(po))]
    BY <1>2 DEF ConfigIs
  <2> DEFINE FF == With(F, {"policy"}, Ref(po))
  <2>2. TreeOf(heap, Depth, Ref(c)) = [map |-> TreesIn(heap, n, FF)]
    <3> HIDE DEF F
    <3>1. heap[c] = [map |-> FF]
      BY <2>1
    <3> HIDE DEF FF
    <3> QED BY <1>3, <3>1, TreeOfMap
  <2>3. TreesIn(heap, n, FF) = With(TreesIn(heap, n, F), {"policy"}, TreeOf(heap, n, Ref(po)))
    <3> HIDE DEF F, n
    <3> QED BY TreesWith
  <2>4. TreesIn(heap, n, F) = With(G, {"stats"}, TreeOf(heap, n, Ref(st)))
    <3> HIDE DEF f, n
    <3> QED BY TreesWith
  <2> HIDE DEF F, G, FF, n
  <2> QED BY <2>2, <2>3, <2>4
<1>7. TreeOf(heap, n, Ref(st)) = PromisedKey(m, "stats", userOnline, port)
  <2>1. At(m, "stats") = TreeOf(doc, n, StatsOf(doc, v))
    BY TreesAt DEF StatsOf, Part
  <2>2. ASSUME NEW keys, keys = {} PROVE TreeOf(heap, n, Ref(st)) = [map |-> MapOf(TreeOf(doc, n, StatsOf(doc, v)))]
    <3>1. FlagsShown(doc, Rest(doc, v, port), heap, {c}, StatsOf(doc, v), keys, st)
      BY <1>2, <2>2
    <3> HIDE DEF n
    <3> QED BY <1>3, <2>2, <3>1, StatsTree
  <2>3. TreeOf(heap, n, Ref(st)) = [map |-> MapOf(TreeOf(doc, n, StatsOf(doc, v)))]
    BY <2>2
  <2> HIDE DEF m, n
  <2> QED BY <2>1, <2>3 DEF PromisedKey
<1>8. TreeOf(heap, n, Ref(po)) = PromisedKey(m, "policy", userOnline, port)
  <2>1. At(m, "policy") = TreeOf(doc, n, PolicyOf(doc, v))
    BY TreesAt DEF PolicyOf, Part
  <2>2. TreeOf(heap, n, Ref(po)) = [map |-> PromisedPolicy(MapOf(TreeOf(doc, n, PolicyOf(doc, v))), userOnline)]
    <3> HIDE DEF n
    <3> QED BY <1>2, <1>3, PolicyOfTree
  <2> HIDE DEF m, n
  <2>3. "policy" # "stats"
    OBVIOUS
  <2> QED BY <2>1, <2>2, <2>3 DEF PromisedKey
<1>9. ASSUME NEW k \in DOMAIN f \ {"stats", "policy"} PROVE G[k] = PromisedKey(m, k, userOnline, port)
  <2>1. G[k] = TreeOf(heap, n, Moved(f[k], t))
    BY TreesAt, ShiftedAt
  <2>2. TreeOf(heap, n, Moved(MapIn(doc, v)[k], t)) = PromisedKey(m, k, userOnline, port)
    <3>1. m = TreesIn(doc, n, MapIn(doc, v)) /\ k \in DOMAIN MapIn(doc, v) \ {"stats", "policy"}
      OBVIOUS
    <3> HIDE DEF m, n, f, G
    <3> QED BY <1>2, <1>3, <1>4, <3>1, OtherTree DEF Q
  <2> QED BY <2>1, <2>2
<1>10. DOMAIN G = DOMAIN f /\ DOMAIN m = DOMAIN f
  BY TreesAt, ShiftedAt
<1> HIDE DEF m, n, f, G
<1>11. g = [k \in {"stats", "policy"} \cup DOMAIN m |-> PromisedKey(m, k, userOnline, port)]
  <2>1. /\ g = [k \in {"stats", "policy"} \cup DOMAIN G |-> g[k]]
        /\ g["stats"] = TreeOf(heap, n, Ref(st)) /\ g["policy"] = TreeOf(heap, n, Ref(po))
        /\ \A k \in DOMAIN G \ {"stats", "policy"} : g[k] = G[k]
    <3>1. g = WithBoth(G, TreeOf(heap, n, Ref(st)), TreeOf(heap, n, Ref(po)))
      BY DEF WithBoth
    <3> DEFINE a == TreeOf(heap, n, Ref(st))
               b == TreeOf(heap, n, Ref(po))
    <3>2. g = WithBoth(G, a, b)
      BY <3>1
    <3> HIDE DEF a, b, g
    <3>3. HasBoth(g, G, a, b)
      BY <3>2, BothKeys, Zenon
    <3> QED BY <3>3 DEF a, b, HasBoth
  <2> HIDE DEF g
  <2>2. ASSUME NEW k \in {"stats", "policy"} \cup DOMAIN m PROVE g[k] = PromisedKey(m, k, userOnline, port)
    BY <1>7, <1>8, <1>9, <1>10, <2>1
  <2> QED BY <1>10, <2>1, <2>2
<1>12. Promised(document, userOnline, port) = PromisedMap(m, userOnline, port)
  BY <1>5, PromisedIs, Zenon
<1> QED BY <1>6, <1>11, <1>12 DEF PromisedMap

\* The tags in the sections of the document, as a tree.
LEMMA ItemTree ==
  ASSUME NEW doc, IsDoc(doc), NEW x, IsValue(x, 1..Len(doc)), NEW n \in 2..Depth,
         NEW tree, tree = TreeOf(doc, n, x), NEW tag
  PROVE  IsMap(tree) /\ At(tree.map, "tag") = Scalar(tag)
         <=> IsRef(x) /\ IsMap(doc[x.ref]) /\ At(doc[x.ref].map, "tag") = Scalar(tag)
<1>0. n \in 1..Depth /\ n - 1 \in 1..Depth
  BY BuildingAssumption
<1>1. /\ MapOf(tree) = TreesIn(doc, n - 1, MapIn(doc, x))
      /\ IsMap(tree) <=> IsRef(x) /\ IsMap(doc[x.ref])
  BY <1>0, TreeKinds
<1>2. SUFFICES ASSUME IsMap(tree)
               PROVE  At(tree.map, "tag") = Scalar(tag) <=> At(doc[x.ref].map, "tag") = Scalar(tag)
  BY <1>1
<1>3. tree.map = TreesIn(doc, n - 1, MapIn(doc, x)) /\ MapIn(doc, x) = doc[x.ref].map
  BY <1>1, <1>2 DEF MapOf, MapIn
<1> DEFINE y == Part(doc, x, "tag")
<1>4. At(tree.map, "tag") = TreeOf(doc, n - 1, y) /\ y = At(doc[x.ref].map, "tag")
  BY <1>3, TreesAt DEF Part
<1>5. IsValue(y, 1..Len(doc))
  BY PartIsValue
<1> HIDE DEF y
<1>6. TreeOf(doc, n - 1, y) = Scalar(tag) <=> y = Scalar(tag)
  BY <1>0, <1>5, TreeKinds
<1> QED BY <1>4, <1>6

LEMMA SectionTrees ==
  ASSUME NEW doc, NEW v, IsDecoded(doc, v), NEW document, document = TreeOf(doc, Depth, v),
         NEW section, NEW tag
  PROVE  (\E m \in MapsInSection(document, section) : At(m.map, "tag") = Scalar(tag))
         <=> \E p \in InSection(doc, v, section) : At(doc[p].map, "tag") = Scalar(tag)
<1> DEFINE w == Part(doc, v, section)
           tree == TreeOf(doc, Depth - 1, w)
           list == ListIn(doc, w)
<1>0. /\ IsDoc(doc) /\ IsValue(v, 1..Len(doc)) /\ IsValue(w, 1..Len(doc))
      /\ Depth \in 1..Depth /\ Depth - 1 \in 1..Depth /\ Depth - 2 \in 2..Depth
  BY DecodedIsDoc, ValuesUsed, PartIsValue, BuildingAssumption
<1>1. At(MapOf(document), section) = tree
  <2>1. MapOf(document) = TreesIn(doc, Depth - 1, MapIn(doc, v))
    BY <1>0, TreeKinds
  <2> QED BY <2>1, TreesAt DEF Part
<1>2. /\ IsList(tree) <=> IsRef(w) /\ IsList(doc[w.ref])
      /\ IsList(tree) => tree = [list |-> TreesIn(doc, Depth - 2, list)]
  <2> HIDE DEF w
  <2>1. ASSUME NEW n \in 1..Depth, n = Depth - 1
        PROVE  /\ IsList(TreeOf(doc, n, w)) <=> IsRef(w) /\ IsList(doc[w.ref])
               /\ IsList(TreeOf(doc, n, w)) => TreeOf(doc, n, w) = [list |-> TreesIn(doc, n - 1, list)]
    BY <1>0, TreeKinds
  <2>2. (Depth - 1) - 1 = Depth - 2
    BY BuildingAssumption
  <2> QED BY <1>0, <2>1, <2>2
<1>3. CASE ~IsList(tree)
  <2>1. MapsInSection(document, section) = {}
    BY <1>1, <1>3 DEF MapsInSection
  <2>2. InSection(doc, v, section) = {}
    BY <1>2, <1>3 DEF InSection, ListIn
  <2> QED BY <2>1, <2>2
<1>4. CASE IsList(tree)
  <2> DEFINE item(i) == TreeOf(doc, Depth - 2, list[i])
  <2>1. tree.list = TreesIn(doc, Depth - 2, list)
    <3> HIDE DEF tree, list
    <3> QED BY <1>2, <1>4, Kinds
  <2>2. DOMAIN tree.list = DOMAIN list /\ \A i \in DOMAIN list : tree.list[i] = item(i)
    <3> HIDE DEF tree, list
    <3> QED BY <2>1, TreesAt
  <2>3. MapsInSection(document, section) = {m \in {item(i) : i \in DOMAIN list} : IsMap(m)}
    <3> HIDE DEF tree, list
    <3> QED BY <1>1, <1>4, <2>2 DEF MapsInSection
  <2>4. ASSUME NEW i \in DOMAIN list
        PROVE  /\ IsValue(list[i], 1..Len(doc))
               /\ IsMap(item(i)) /\ At(item(i).map, "tag") = Scalar(tag)
                  <=> IsRef(list[i]) /\ IsMap(doc[list[i].ref]) /\ At(doc[list[i].ref].map, "tag") = Scalar(tag)
    <3>1. ASSUME NEW x, x = list[i] PROVE IsValue(x, 1..Len(doc))
      <4>1. i \in DOMAIN ListIn(doc, w) /\ x = ListIn(doc, w)[i]
        BY <3>1
      <4> HIDE DEF w
      <4> QED BY <1>0, <4>1, InList
    <3>2. IsValue(list[i], 1..Len(doc))
      BY <3>1
    <3> HIDE DEF list
    <3>3. ASSUME NEW n \in 2..Depth, n = Depth - 2, NEW x, x = list[i], NEW y, y = TreeOf(doc, n, x)
          PROVE  IsMap(y) /\ At(y.map, "tag") = Scalar(tag)
                 <=> IsRef(x) /\ IsMap(doc[x.ref]) /\ At(doc[x.ref].map, "tag") = Scalar(tag)
      BY <1>0, <3>2, <3>3, ItemTree
    <3> QED BY <1>0, <3>2, <3>3
  <2>5. ASSUME NEW p
        PROVE  p \in InSection(doc, v, section)
               <=> p \in 1..Len(doc) /\ IsMap(doc[p]) /\ \E i \in DOMAIN list : list[i] = Ref(p)
    BY DEF InSection
  <2>6. ASSUME NEW i \in DOMAIN list, IsRef(list[i])
        PROVE  list[i] = Ref(list[i].ref) /\ list[i].ref \in 1..Len(doc)
    <3> HIDE DEF list
    <3> QED BY <2>4, <2>6 DEF IsValue
  <2> HIDE DEF list, tree, item
  <2>7. ASSUME NEW m \in MapsInSection(document, section), At(m.map, "tag") = Scalar(tag)
        PROVE  \E p \in InSection(doc, v, section) : At(doc[p].map, "tag") = Scalar(tag)
    <3>1. PICK i \in DOMAIN list : m = item(i) /\ IsMap(m)
      BY <2>3
    <3>2. IsRef(list[i]) /\ IsMap(doc[list[i].ref]) /\ At(doc[list[i].ref].map, "tag") = Scalar(tag)
      BY <2>4, <2>7, <3>1
    <3> QED BY <2>5, <2>6, <3>2
  <2>8. ASSUME NEW p \in InSection(doc, v, section), At(doc[p].map, "tag") = Scalar(tag)
        PROVE  \E m \in MapsInSection(document, section) : At(m.map, "tag") = Scalar(tag)
    <3>1. PICK i \in DOMAIN list : list[i] = Ref(p)
      BY <2>5, <2>8
    <3>2. IsRef(list[i]) /\ list[i].ref = p /\ IsMap(doc[p])
      BY <2>5, <2>8, <3>1, Kinds, ZenonT(30)
    <3>3. IsMap(item(i)) /\ At(item(i).map, "tag") = Scalar(tag)
      BY <2>4, <2>8, <3>2
    <3> QED BY <2>3, <3>3
  <2> QED BY <2>7, <2>8
<1> QED BY <1>3, <1>4

\* The refusal of a document, and what it says of the tree.
Taken(document) ==
  \E section \in {"inbounds", "outbounds"} :
    \E m \in MapsInSection(document, section) :
      At(m.map, "tag") \in {Scalar(APITag), Scalar(APIInboundTag)}

LEMMA ConflictFound ==
  ASSUME NEW doc, NEW v, IsDecoded(doc, v), NEW heap, NEW c, NEW t, IsBegun(doc, v, heap, c, t),
         NEW document, document = TreeOf(doc, Depth, v)
  PROVE  Taken(document) <=> Conflict(heap, Ref(c)) # NoConflict
<1>1. Conflict(heap, Ref(c)) # NoConflict <=> HasTag(heap, Ref(c), APITag) \/ HasTag(heap, Ref(c), APIInboundTag)
  BY BuildingAssumption DEF Conflict
<1>2. \A tag : HasTag(heap, Ref(c), tag) <=> Uses(doc, v, tag)
  BY TagFound
<1>3. \A tag : Uses(doc, v, tag) <=>
        \E section \in {"inbounds", "outbounds"} :
          \E m \in MapsInSection(document, section) : At(m.map, "tag") = Scalar(tag)
  BY SectionTrees DEF Uses
<1>4. Taken(document) <=> Uses(doc, v, APITag) \/ Uses(doc, v, APIInboundTag)
  BY <1>3, Zenon DEF Taken
<1> QED BY <1>1, <1>2, <1>4

\* What was there is left, and not referred to.
IsApart(before, heap, config) ==
  LET new == DOMAIN heap \ DOMAIN before
  IN  /\ \A n \in DOMAIN before : n \in DOMAIN heap /\ heap[n] = before[n]
      /\ \A n \in new : \A k \in DOMAIN Children(heap[n]) :
           LET value == Children(heap[n])[k] IN IsRef(value) => value.ref \in new
      /\ IsRef(config) => config.ref \in new

LEMMA LeftAlone ==
  ASSUME NEW doc, NEW v, IsDecoded(doc, v), NEW heap, Extends(doc, heap),
         NEW config, IsRef(config) => config.ref \in (Len(doc) + 1)..Len(heap)
  PROVE  IsApart(doc, heap, config)
<1>1. Len(doc) \in Nat /\ Len(heap) \in Nat /\ Len(doc) <= Len(heap)
  BY DecodedIsDoc DEF IsDoc, Extends
<1>2. DOMAIN doc = 1..Len(doc) /\ DOMAIN heap = 1..Len(heap)
  BY DecodedIsDoc DEF IsDoc, Extends
<1>3. DOMAIN heap \ DOMAIN doc = (Len(doc) + 1)..Len(heap)
  BY <1>1, <1>2
<1>4. \A n \in DOMAIN doc : n \in DOMAIN heap /\ heap[n] = doc[n]
  BY <1>1, <1>2 DEF Extends
<1>5. ASSUME NEW n \in (Len(doc) + 1)..Len(heap), NEW k \in DOMAIN Children(heap[n]), IsRef(Children(heap[n])[k])
      PROVE  Children(heap[n])[k].ref \in (Len(doc) + 1)..Len(heap)
  BY <1>5 DEF Extends, IsObject, IsValue
<1> QED BY <1>3, <1>4, <1>5, Zenon DEF IsApart

\* ConfigBuilder.Build.
LEMMA Built ==
  ASSUME NEW doc, NEW v, IsDecoded(doc, v), NEW port \in Nat, NEW userOnline,
         NEW document, document = Tree(doc, v), NEW b, b = Build(doc, v, userOnline, port)
  PROVE  /\ Taken(document) <=> b.conflict # NoConflict
         /\ ~Taken(document) => Tree(b.heap, b.config) = Promised(document, userOnline, port)
         /\ IsApart(doc, b.heap, b.config)
<1> DEFINE config == EnsureMap(doc, v)
<1>1. config = IF IsRef(v) THEN Clone(doc, v) ELSE New(doc, [map |-> <<>>])
  BY DEF IsDecoded, EnsureMap
<1>2. PICK c, t : config.value = Ref(c) /\ IsBegun(doc, v, config.heap, c, t)
  BY Begins
<1>3. \A h, x : Tree(h, x) = TreeOf(h, Depth, x)
  BY DEF Tree, TreeOf
<1>4. Taken(document) <=> Conflict(config.heap, config.value) # NoConflict
  <2> HIDE DEF config
  <2> QED BY <1>2, <1>3, ConflictFound
<1> DEFINE h1 == ApplyHysteriaListenPort(config.heap, Ref(c), port)
           h2 == SetStats(h1, Ref(c))
           h3 == SetPolicy(h2, Ref(c), userOnline)
<1>5. b = IF Conflict(config.heap, config.value) # NoConflict
          THEN [heap |-> config.heap, config |-> Scalar(Nil), conflict |-> Conflict(config.heap, config.value)]
          ELSE [heap |-> h3, config |-> Ref(c), conflict |-> NoConflict]
  BY <1>1, <1>2, Zenon DEF Build
<1>6. BuiltShown(doc, v, h3, c, userOnline, port)
  <2> HIDE DEF config
  <2>1. ASSUME NEW a1, a1 = h1, NEW a2, a2 = h2, NEW a3, a3 = h3
        PROVE  BuiltShown(doc, v, a3, c, userOnline, port)
    BY <1>2, <2>1, Builds
  <2> QED BY <2>1
<1>7. TreeOf(h3, Depth, Ref(c)) = Promised(document, userOnline, port)
  <2> HIDE DEF h3
  <2> QED BY <1>3, <1>6, ConfigTree
<1>8. IsApart(doc, config.heap, Scalar(Nil))
  <2>1. Extends(doc, config.heap)
    BY <1>2 DEF IsBegun
  <2>2. ~IsRef(Scalar(Nil))
    BY Kinds
  <2> HIDE DEF config
  <2> QED BY <2>1, <2>2, LeftAlone
<1>9. IsApart(doc, h3, Ref(c))
  <2>1. Extends(doc, h3) /\ c \in (Len(doc) + 1)..Len(h3)
    BY <1>6 DEF BuiltShown
  <2>2. Ref(c).ref = c
    BY Kinds
  <2> HIDE DEF h3
  <2> QED BY <2>1, <2>2, LeftAlone
<1> HIDE DEF config, h3
<1>10. CASE Conflict(config.heap, config.value) # NoConflict
  <2>1. b = [heap |-> config.heap, config |-> Scalar(Nil), conflict |-> Conflict(config.heap, config.value)]
    BY <1>5, <1>10
  <2>2. b.heap = config.heap /\ b.config = Scalar(Nil) /\ b.conflict = Conflict(config.heap, config.value)
    BY <2>1
  <2> QED BY <1>4, <1>8, <1>10, <2>2
<1>11. CASE ~(Conflict(config.heap, config.value) # NoConflict)
  <2>1. b = [heap |-> h3, config |-> Ref(c), conflict |-> NoConflict]
    BY <1>5, <1>11
  <2>2. b.heap = h3 /\ b.config = Ref(c) /\ b.conflict = NoConflict
    BY <2>1
  <2> QED BY <1>3, <1>4, <1>7, <1>9, <1>11, <2>2
<1> QED BY <1>10, <1>11

\* The order that a behaviour of the builder begins with, and what it ends with.
BuildingInv ==
  /\ order \in [document : Documents, online : BOOLEAN, port : BuilderPorts]
  /\ built # NotBuilt =>
       built = Build(order.document.heap, order.document.value, order.online, order.port)

\* The builder makes of any decoded document what was promised, refuses it exactly when a
\* tag of the node's own is taken, and leaves it as it was.
THEOREM BuildsAsPromised == BuildingSpec => []BuiltRightly
<1>1. BuildingInit => BuildingInv
  BY DEF BuildingInit, BuildingInv
<1>2. BuildingInv /\ [BuildingNext]_buildingVars => BuildingInv'
  BY DEF BuildingInv, BuildingNext, buildingVars
<1>3. BuildingInv => BuiltRightly
  <2>1. SUFFICES ASSUME BuildingInv, built # NotBuilt
                 PROVE  BuiltRightly
    BY DEF BuiltRightly, BuiltAsPromised, DocumentUntouched
  <2> DEFINE doc == order.document.heap
             v == order.document.value
             document == Tree(doc, v)
  <2>2. IsDecoded(doc, v) /\ order.port \in Nat /\ built = Build(doc, v, order.online, order.port)
    BY <2>1, BuildingAssumption DEF BuildingInv
  <2>3. /\ Taken(document) <=> built.conflict # NoConflict
        /\ ~Taken(document) => Tree(built.heap, built.config) = Promised(document, order.online, order.port)
        /\ IsApart(doc, built.heap, built.config)
    <3> HIDE DEF doc, v
    <3> QED BY <2>2, Built
  <2>4. BuiltAsPromised
    BY <2>3, Zenon DEF BuiltAsPromised, Taken
  <2>5. DocumentUntouched
    BY <2>3, Zenon DEF DocumentUntouched, IsApart
  <2> QED BY <2>4, <2>5 DEF BuiltRightly
<1> QED BY <1>1, <1>2, <1>3, PTL DEF BuildingSpec
=============================================================================
