--------------------------- MODULE GeodataProofs ---------------------------
(***************************************************************************)
(* Proofs about Geodata: for any assets, files, sizes and concurrency, any *)
(* number of calls, and the node killed at any moment.                     *)
(***************************************************************************)
EXTENDS Geodata, FiniteSetTheorems, TLAPS

\* What is counted is finite, and only goroutines that copy have a temporary file.
LEMMA Counting ==
  ASSUME GeodataInv
  PROVE  /\ IsFiniteSet(Holders) /\ Cardinality(Holders) \in Nat
         /\ IsFiniteSet(Temps) /\ Cardinality(Temps) \in Nat
         /\ Cardinality(Temps) <= Cardinality(Holders)
<1>1. Holders \in SUBSET Assets /\ Temps \in SUBSET Holders
  BY DEF Holders, Temps, Holding, GeodataInv
<1>2. IsFiniteSet(Holders)
  BY <1>1, FS_Subset, GeodataAssumption
<1>3. IsFiniteSet(Temps) /\ Cardinality(Temps) <= Cardinality(Holders)
  BY <1>1, <1>2, FS_Subset
<1> QED
  BY <1>2, <1>3, FS_CardinalityType

\* One goroutine more at work, one fewer, or the same ones.
LEMMA Enters ==
  ASSUME GeodataInv, NEW a \in Assets, NEW s \in Holding,
         step[a] \notin Holding, step' = [step EXCEPT ![a] = s]
  PROVE  Cardinality(Holders') = Cardinality(Holders) + 1
<1>1. Holders' = Holders \cup {a} /\ a \notin Holders
  BY DEF Holders, GeodataInv, GeodataTypeOK
<1> QED
  BY <1>1, Counting, FS_AddElement

LEMMA Leaves ==
  ASSUME GeodataInv, NEW a \in Assets, NEW s \in Finished,
         step[a] \in Holding, step' = [step EXCEPT ![a] = s]
  PROVE  /\ Cardinality(Holders') = Cardinality(Holders) - 1
         /\ Cardinality(Holders) \in Nat \ {0}
<1>1. Holders' = Holders \ {a} /\ a \in Holders
  BY DEF Holders, GeodataInv, GeodataTypeOK, Finished, Holding
<1>2. Cardinality(Holders) # 0
  BY <1>1, Counting, FS_EmptySet
<1> QED
  BY <1>1, <1>2, Counting, FS_RemoveElement

\* So a goroutine that ends gives back a token that it had.
LEMMA TokenBack ==
  ASSUME GeodataInv, NEW a \in Assets, NEW s \in Finished,
         step[a] \in Holding, Finish(a, s)
  PROVE  sem' = Cardinality(Holders') /\ sem' \in 0..Concurrency
<1>1. step' = [step EXCEPT ![a] = s] /\ sem' = sem - 1
  BY DEF Finish
<1>2. sem = Cardinality(Holders) /\ sem \in 0..Concurrency /\ Concurrency \in Nat
  BY GeodataAssumption DEF GeodataInv, GeodataTypeOK
<1>3. Cardinality(Holders') = Cardinality(Holders) - 1 /\ Cardinality(Holders) \in Nat \ {0}
  BY <1>1, Leaves
<1> QED
  BY <1>1, <1>2, <1>3

LEMMA GoesOn ==
  ASSUME GeodataInv, NEW a \in Assets, NEW s \in Holding,
         step[a] \in Holding, step' = [step EXCEPT ![a] = s]
  PROVE  Cardinality(Holders') = Cardinality(Holders)
<1>1. Holders' = Holders
  BY DEF Holders, GeodataInv, GeodataTypeOK
<1> QED
  BY <1>1

\* A killed call leaves at most Concurrency temporary files.
LEMMA CrashBound ==
  ASSUME NEW c \in Nat, NEW n \in Nat
  PROVE  n * (c + 1) = n * c + n /\ n * (1 + c) = n * c + n /\ n * c \in Nat
OBVIOUS

-----------------------------------------------------------------------------
\* Nothing is at work and there is no temporary file at first.
LEMMA GeodataInit ==
  ASSUME Init
  PROVE  GeodataInv
<1>1. Holders = {}
  BY DEF Holders, Init, Holding
<1>2. Cardinality(Holders) = 0
  BY <1>1, FS_EmptySet
<1>3. Concurrency * crashes = 0
  BY GeodataAssumption DEF Init
<1> QED
  BY <1>2, <1>3, GeodataAssumption
  DEF Init, GeodataInv, GeodataTypeOK, PreparedFilesExist, Steps, Contents

\* The steps of a goroutine preserve the invariant.
LEMMA WorkStep ==
  ASSUME GeodataInv, NEW a \in Assets, Work(a)
  PROVE  GeodataInv'
<1> USE DEF GeodataInv, GeodataTypeOK, PreparedFilesExist, Steps, Holding, Finished
<1>0. /\ sem = Cardinality(Holders) /\ sem \in 0..Concurrency /\ File[a] \in Files
      /\ Concurrency \in Nat
  BY GeodataAssumption
<1>1. CASE Acquire(a)
  <2>1. sem' = Cardinality(Holders')
    BY <1>0, <1>1, Enters DEF Acquire
  <2> QED
    BY <1>0, <1>1, <2>1 DEF Acquire
<1>2. CASE Skip(a)
  <2>1. sem' = Cardinality(Holders') /\ sem' \in 0..Concurrency
    BY <1>2, TokenBack DEF Skip
  <2>2. disk[File[a]] # Absent
    BY <1>2, DistinctContents DEF Skip, ExistsNonEmpty
  <2> QED
    BY <1>0, <1>2, <2>1, <2>2 DEF Skip, Finish
<1>3. CASE Request(a)
  <2>1. sem' = Cardinality(Holders')
    BY <1>0, <1>3, GoesOn DEF Request
  <2> QED
    BY <1>0, <1>3, <2>1 DEF Request
<1>4. CASE RequestFails(a)
  <2>1. sem' = Cardinality(Holders')
    BY <1>0, <1>4, GoesOn DEF RequestFails
  <2> QED
    BY <1>0, <1>4, <2>1 DEF RequestFails
<1>5. CASE \E size \in Sizes : Answered(a, size)
  <2>1. PICK size \in Sizes : Answered(a, size)
    BY <1>5
  <2>2. sem' = Cardinality(Holders')
    BY <1>0, <2>1, GoesOn DEF Answered
  <2>3. [from |-> a, blocks |-> 0, size |-> size] \in Downloads
    BY GeodataAssumption DEF Downloads
  <2> QED
    BY <1>0, <2>1, <2>2, <2>3 DEF Answered
<1>6. CASE Copy(a)
  <2>1. temp'[a] \in Downloads /\ temp'[a].from = a
    <3>1. temp[a] \in Downloads /\ temp[a].from = a
      BY <1>6 DEF Copy
    <3>2. temp'[a] = [temp[a] EXCEPT !.blocks = temp[a].blocks + 1]
      BY <1>6 DEF Copy
    <3> QED
      BY <3>1, <3>2 DEF Downloads
  <2>2. Holders' = Holders
    BY <1>6 DEF Copy, Holders
  <2> QED
    BY <1>0, <1>6, <2>1, <2>2 DEF Copy
<1>7. CASE DownloadFails(a)
  <2>1. sem' = Cardinality(Holders')
    BY <1>0, <1>7, GoesOn DEF DownloadFails
  <2> QED
    BY <1>0, <1>7, <2>1 DEF DownloadFails
<1>8. CASE Store(a)
  <2>1. sem' = Cardinality(Holders') /\ sem' \in 0..Concurrency
    BY <1>8, TokenBack DEF Store
  <2>2. temp[a] \in Downloads /\ temp[a] \in Contents /\ temp[a] # Absent
    BY <1>8, DistinctContents DEF Store, Contents
  <2>3. disk' \in [Files -> Contents]
    BY <1>0, <1>8, <2>2 DEF Store
  <2>4. \A f \in Files : disk[f] # Absent => disk'[f] # Absent
    BY <1>0, <1>8, <2>2 DEF Store
  <2>5. disk'[File[a]] # Absent
    BY <1>0, <1>8, <2>2 DEF Store
  <2>6. PreparedFilesExist'
    BY <1>8, <2>4, <2>5, GeodataAssumption DEF Store, Finish
  <2> QED
    BY <1>0, <1>8, <2>1, <2>3, <2>6 DEF Store, Finish
<1>9. CASE Stub(a)
  <2>1. sem' = Cardinality(Holders') /\ sem' \in 0..Concurrency
    BY <1>9, TokenBack DEF Stub
  <2>2. Empty \in Contents /\ Empty # Absent
    BY DistinctContents DEF Contents
  <2>3. disk' \in [Files -> Contents]
    BY <1>0, <1>9, <2>2 DEF Stub
  <2>4. \A f \in Files : disk[f] # Absent => disk'[f] # Absent
    BY <1>0, <1>9, <2>2 DEF Stub
  <2>5. disk'[File[a]] # Absent
    BY <1>0, <1>9, <2>2 DEF Stub
  <2>6. PreparedFilesExist'
    BY <1>9, <2>4, <2>5, GeodataAssumption DEF Stub, Finish
  <2> QED
    BY <1>0, <1>9, <2>1, <2>3, <2>6 DEF Stub, Finish
<1>10. CASE StubFails(a)
  <2>1. sem' = Cardinality(Holders') /\ sem' \in 0..Concurrency
    BY <1>10, TokenBack DEF StubFails
  <2> QED
    BY <1>0, <1>10, <2>1 DEF StubFails, Finish
<1> QED
  BY <1>1, <1>2, <1>3, <1>4, <1>5, <1>6, <1>7, <1>8, <1>9, <1>10 DEF Work

\* So do calls that begin and end, and the node being killed.
LEMMA GeodataStep ==
  ASSUME GeodataInv, [Next]_vars
  PROVE  GeodataInv'
<1> USE DEF GeodataInv, GeodataTypeOK, PreparedFilesExist, Steps
<1>1. ASSUME NEW listed \in SUBSET Assets, Call(listed) PROVE GeodataInv'
  <2>1. Holders' = {} /\ Holders = {}
    BY <1>1 DEF Holders, Call, InCall, Holding
  <2>2. \A a \in Assets : temp[a] = Absent
    BY <1>1 DEF Call, InCall
  <2>3. calls' \in 0..MaxCalls
    BY <1>1, GeodataAssumption DEF Call
  <2> QED
    BY <1>1, <2>1, <2>2, <2>3 DEF Call
<1>2. ASSUME NEW a \in Assets, Work(a) PROVE GeodataInv'
  BY <1>2, WorkStep DEF GeodataInv
<1>3. CASE Return
  <2>1. Holders' = {} /\ Holders = {}
    BY <1>3 DEF Holders, Return, Holding, Finished
  <2>2. \A a \in Assets : temp[a] = Absent
    BY <1>3 DEF Return, Finished
  <2> QED
    BY <1>3, <2>1, <2>2 DEF Return
<1>4. CASE Crash
  <2>1. Cardinality(Holders') = 0
    <3>1. Holders' = {}
      BY <1>4 DEF Holders, Crash, Holding
    <3> QED
      BY <3>1, FS_EmptySet
  <2>2. Cardinality(Temps) \in Nat /\ Cardinality(Temps) <= Concurrency
    BY Counting, GeodataAssumption
  <2>3. left' \in Nat /\ left' <= Concurrency * crashes + Concurrency
    BY <1>4, <2>2, CrashBound, GeodataAssumption DEF Crash
  <2>4. Concurrency * crashes' = Concurrency * crashes + Concurrency
    BY <1>4, CrashBound, GeodataAssumption DEF Crash
  <2>5. crashes' \in 0..MaxCrashes
    BY <1>4, GeodataAssumption DEF Crash
  <2> QED
    BY <1>4, <2>1, <2>3, <2>4, <2>5, GeodataAssumption DEF Crash
<1>5. CASE UNCHANGED vars
  <2>1. Holders' = Holders
    BY <1>5 DEF vars, Holders
  <2> QED
    BY <1>5, <2>1 DEF vars
<1> QED
  BY <1>1, <1>2, <1>3, <1>4, <1>5 DEF Next

\* The invariant holds in every behaviour.
THEOREM GeodataInvariance == Spec => []GeodataInv
<1> QED
  BY GeodataInit, GeodataStep, PTL DEF Spec

-----------------------------------------------------------------------------
\* Every variable keeps its type; in particular no token is given back twice.
THEOREM GeodataTypeCorrect == Spec => []GeodataTypeOK
<1>1. GeodataInv => GeodataTypeOK
  BY DEF GeodataInv
<1> QED
  BY <1>1, GeodataInvariance, PTL

\* xray-core finds a file for each asset that was skipped, stored or stubbed.
THEOREM FilesArePrepared == Spec => []PreparedFilesExist
<1>1. GeodataInv => PreparedFilesExist
  BY DEF GeodataInv
<1> QED
  BY <1>1, GeodataInvariance, PTL

\* Temporary files are bounded by the goroutines at work and the crashes.
THEOREM TempFilesAreBounded == Spec => []TempFilesBounded
<1>1. GeodataInv => TempFilesBounded
  <2> SUFFICES ASSUME GeodataInv PROVE TempFilesBounded
    OBVIOUS
  <2>1. Cardinality(Temps) \in Nat /\ Cardinality(Temps) <= Concurrency
    BY Counting, GeodataAssumption DEF GeodataInv, GeodataTypeOK
  <2>2. left \in Nat /\ left <= Concurrency * crashes
    BY DEF GeodataInv, GeodataTypeOK
  <2>3. Concurrency * (1 + crashes) = Concurrency * crashes + Concurrency
    BY CrashBound, GeodataAssumption DEF GeodataInv, GeodataTypeOK
  <2> QED
    BY <2>1, <2>2, <2>3, CrashBound, GeodataAssumption
    DEF TempFilesBounded, GeodataInv, GeodataTypeOK
<1> QED
  BY <1>1, GeodataInvariance, PTL

\* A file changes only to a stub where there was none or to one whole download.
THEOREM FilesAreWhole == Spec => FilesChangeWhole
<1> DEFINE Changes ==
      \A f \in Files :
        \/ disk'[f] = disk[f]
        \/ disk[f] = Absent /\ disk'[f] = Empty
        \/ /\ disk'[f] \in Downloads
           /\ Whole(disk'[f])
           /\ disk'[f].from \in Valid /\ File[disk'[f].from] = f
<1>1. ASSUME GeodataInv, [Next]_vars PROVE [Changes]_vars
  <2> SUFFICES ASSUME NEW f \in Files
               PROVE  \/ disk'[f] = disk[f]
                      \/ disk[f] = Absent /\ disk'[f] = Empty
                      \/ /\ disk'[f] \in Downloads
                         /\ Whole(disk'[f])
                         /\ disk'[f].from \in Valid /\ File[disk'[f].from] = f
    OBVIOUS
  <2>1. ASSUME NEW a \in Assets, Store(a), f = File[a]
        PROVE  /\ disk'[f] \in Downloads
               /\ Whole(disk'[f])
               /\ disk'[f].from \in Valid /\ File[disk'[f].from] = f
    <3>1. disk'[f] = temp[a] /\ temp[a] \in Downloads /\ temp[a].from = a
      BY <1>1, <2>1 DEF GeodataInv, GeodataTypeOK, Store
    <3>2. a \in Valid /\ temp[a].blocks = Admitted(temp[a].size)
      BY <1>1, <2>1 DEF GeodataInv, Store
    <3> QED
      BY <2>1, <3>1, <3>2 DEF Whole
  <2>2. ASSUME NEW a \in Assets, Store(a), f # File[a] PROVE disk'[f] = disk[f]
    BY <1>1, <2>2 DEF GeodataInv, GeodataTypeOK, Store
  <2>3. ASSUME NEW a \in Assets, Stub(a)
        PROVE  disk'[f] = disk[f] \/ (disk[f] = Absent /\ disk'[f] = Empty)
    BY <1>1, <2>3 DEF GeodataInv, GeodataTypeOK, Stub
  <2>4. ASSUME NEW a \in Assets, Work(a), ~Store(a), ~Stub(a) PROVE disk' = disk
    BY <2>4 DEF Work, Acquire, Skip, Request, RequestFails, Answered, Copy,
                DownloadFails, StubFails
  <2>5. ASSUME NEW listed \in SUBSET Assets, Call(listed) PROVE disk' = disk
    BY <2>5 DEF Call
  <2>6. ASSUME Return \/ Crash \/ UNCHANGED vars PROVE disk' = disk
    BY <2>6 DEF Return, Crash, vars
  <2> QED
    BY <1>1, <2>1, <2>2, <2>3, <2>4, <2>5, <2>6 DEF Next
<1>2. Spec => [][Changes]_vars
  BY <1>1, GeodataInvariance, PTL DEF Spec
<1> QED
  BY <1>2 DEF FilesChangeWhole
=============================================================================
