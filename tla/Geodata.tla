------------------------------ MODULE Geodata ------------------------------
(***************************************************************************)
(* internal/xray/geodata.go: PrepareGeodata, which a start runs before it  *)
(* builds the core.  A goroutine per asset of the configuration, of which  *)
(* Concurrency are at work at once, skips a file that is there, or         *)
(* downloads it to a temporary file and renames that, or leaves a stub.    *)
(* Two assets may have one name.  The node may be killed between any two   *)
(* steps: files stay, goroutines go.  Starts, and so calls, exclude each   *)
(* other (XrayLifecycle).                                                  *)
(*                                                                         *)
(* The content of a file is what tells a whole download from a part of     *)
(* one: where it is from, how much of it is there, how much there was.     *)
(***************************************************************************)
EXTENDS Naturals, FiniteSets

CONSTANTS
  Assets,       \* the entries a configuration may list: a URL and a file name
  Valid,        \* those with an https URL and a plain file name
  Files, File,  \* the file that an asset names
  Sizes,        \* how much a server may send, in blocks
  Limit,        \* maxGeodataAssetSize, in blocks
  Concurrency,  \* geodataConcurrency
  Absent, Empty, Preset, Irregular,  \* a file before any download, see Contents
  MaxCalls, MaxCrashes

ASSUME GeodataAssumption ==
  /\ IsFiniteSet(Assets) /\ Valid \subseteq Assets
  /\ File \in [Assets -> Files]
  /\ Sizes \subseteq Nat
  /\ Limit \in Nat \ {0}
  /\ Concurrency \in Nat \ {0}
  /\ MaxCalls \in Nat /\ MaxCrashes \in Nat

VARIABLES
  disk,     \* the asset directory: the content of every file
  temp,     \* per asset, its temporary file
  step,     \* per asset, where its goroutine is
  sem,      \* the tokens in the channel sem
  left,     \* temporary files of goroutines that were killed
  calls, crashes

vars == <<disk, temp, step, sem, left, calls, crashes>>

Lesser(m, n) == IF m < n THEN m ELSE n

\* What a server sends of a body of this size and LimitReader lets through.
Admitted(size) == Lesser(size, Limit)

Downloads == [from : Assets, blocks : Nat, size : Nat]

\* No file, an empty one, one that came with the node, a directory.
ASSUME DistinctContents ==
  /\ {Absent, Empty, Preset, Irregular} \cap Downloads = {}
  /\ Absent \notin {Empty, Preset, Irregular}
  /\ Empty \notin {Preset, Irregular} /\ Preset # Irregular

Contents == {Absent, Empty, Preset, Irregular} \cup Downloads

Whole(content) ==
  content \in Downloads => content.blocks = Admitted(content.size)

\* fileExistsNonEmpty: a regular file with something in it.
ExistsNonEmpty(content) ==
  \/ content = Preset
  \/ content \in Downloads /\ content.blocks > 0

Finished == {"skipped", "stored", "stubbed", "bare"}
Holding == {"check", "request", "copy", "stub"}
Steps == {"none", "queued"} \cup Holding \cup Finished

Init ==
  /\ disk \in [Files -> {Absent, Empty, Preset, Irregular}]
  /\ temp = [a \in Assets |-> Absent]
  /\ step = [a \in Assets |-> "none"]
  /\ sem = 0
  /\ left = 0
  /\ calls = 0
  /\ crashes = 0

-----------------------------------------------------------------------------
InCall == \E a \in Assets : step[a] # "none"
Holders == {a \in Assets : step[a] \in Holding}
Temps == {a \in Assets : temp[a] # Absent}

\* The goroutines of the valid assets are started.
Call(listed) ==
  /\ ~InCall /\ calls < MaxCalls
  /\ calls' = calls + 1
  /\ step' = [a \in Assets |-> IF a \in listed \cap Valid THEN "queued" ELSE "none"]
  /\ UNCHANGED <<disk, temp, sem, left, crashes>>

\* FAULT: nobody waits for a token.
AcquireFreely(a) ==
  /\ step[a] = "queued"
  /\ sem' = sem
  /\ step' = [step EXCEPT ![a] = "check"]
  /\ UNCHANGED <<disk, temp, left, calls, crashes>>

Acquire(a) ==
  /\ step[a] = "queued" /\ sem < Concurrency
  /\ sem' = sem + 1
  /\ step' = [step EXCEPT ![a] = "check"]
  /\ UNCHANGED <<disk, temp, left, calls, crashes>>

\* FAULT: an asset that failed keeps its token.
FinishKeepingToken(a, how) ==
  /\ sem' = IF how = "stubbed" THEN sem ELSE sem - 1
  /\ step' = [step EXCEPT ![a] = how]

\* The goroutine gives its token back and ends.
Finish(a, how) ==
  /\ sem' = sem - 1
  /\ step' = [step EXCEPT ![a] = how]

Skip(a) ==
  /\ step[a] = "check" /\ ExistsNonEmpty(disk[File[a]])
  /\ Finish(a, "skipped")
  /\ UNCHANGED <<disk, temp, left, calls, crashes>>

\* There is no such file, it is empty or a directory, or Stat failed.
Request(a) ==
  /\ step[a] = "check"
  /\ step' = [step EXCEPT ![a] = "request"]
  /\ UNCHANGED <<disk, temp, sem, left, calls, crashes>>

\* FAULT: an answer with another status than 200 counts as a download.
RequestSucceedsAnyway(a) ==
  /\ step[a] = "request"
  /\ Finish(a, "stored")
  /\ UNCHANGED <<disk, temp, left, calls, crashes>>

\* No answer in time, another status than 200, or no temporary file.
RequestFails(a) ==
  /\ step[a] = "request"
  /\ step' = [step EXCEPT ![a] = "stub"]
  /\ UNCHANGED <<disk, temp, sem, left, calls, crashes>>

Answered(a, size) ==
  /\ step[a] = "request"
  /\ temp' = [temp EXCEPT ![a] = [from |-> a, blocks |-> 0, size |-> size]]
  /\ step' = [step EXCEPT ![a] = "copy"]
  /\ UNCHANGED <<disk, sem, left, calls, crashes>>

Copy(a) ==
  /\ step[a] = "copy" /\ temp[a].blocks < Admitted(temp[a].size)
  /\ temp' = [temp EXCEPT ![a] = [temp[a] EXCEPT !.blocks = @ + 1]]
  /\ UNCHANGED <<disk, step, sem, left, calls, crashes>>

\* FAULT: the temporary file stays when the download fails.
DownloadFailsUntidily(a) ==
  /\ step[a] = "copy"
  /\ left' = left + 1
  /\ temp' = [temp EXCEPT ![a] = Absent]
  /\ step' = [step EXCEPT ![a] = "stub"]
  /\ UNCHANGED <<disk, sem, calls, crashes>>

\* The connection breaks, the time is over, or Close or Rename fails.
DownloadFails(a) ==
  /\ step[a] = "copy"
  /\ temp' = [temp EXCEPT ![a] = Absent]
  /\ step' = [step EXCEPT ![a] = "stub"]
  /\ UNCHANGED <<disk, sem, left, calls, crashes>>

\* The temporary file takes the place of whatever is there but a directory.
Store(a) ==
  /\ step[a] = "copy" /\ temp[a].blocks = Admitted(temp[a].size)
  /\ disk[File[a]] # Irregular
  /\ disk' = [disk EXCEPT ![File[a]] = temp[a]]
  /\ temp' = [temp EXCEPT ![a] = Absent]
  /\ Finish(a, "stored")
  /\ UNCHANGED <<left, calls, crashes>>

\* FAULT: O_TRUNC for O_EXCL.
StubTruncates(a) ==
  /\ step[a] = "stub"
  /\ disk' = [disk EXCEPT ![File[a]] = IF @ = Irregular THEN @ ELSE Empty]
  /\ Finish(a, "stubbed")
  /\ UNCHANGED <<temp, left, calls, crashes>>

\* O_EXCL: what is there stays.
Stub(a) ==
  /\ step[a] = "stub"
  /\ disk' = [disk EXCEPT ![File[a]] = IF @ = Absent THEN Empty ELSE @]
  /\ Finish(a, "stubbed")
  /\ UNCHANGED <<temp, left, calls, crashes>>

\* The directory or the file cannot be created.
StubFails(a) ==
  /\ step[a] = "stub" /\ disk[File[a]] = Absent
  /\ Finish(a, "bare")
  /\ UNCHANGED <<disk, temp, left, calls, crashes>>

\* wg.Wait returns.
Return ==
  /\ InCall
  /\ \A a \in Assets : step[a] \in Finished \cup {"none"}
  /\ step' = [a \in Assets |-> "none"]
  /\ UNCHANGED <<disk, temp, sem, left, calls, crashes>>

\* The node is killed and started again.
Crash ==
  /\ InCall /\ crashes < MaxCrashes
  /\ crashes' = crashes + 1
  /\ left' = left + Cardinality(Temps)
  /\ temp' = [a \in Assets |-> Absent]
  /\ step' = [a \in Assets |-> "none"]
  /\ sem' = 0
  /\ UNCHANGED <<disk, calls>>

Work(a) ==
  \/ Acquire(a) \/ Skip(a)
  \/ Request(a) \/ RequestFails(a) \/ \E size \in Sizes : Answered(a, size)
  \/ Copy(a) \/ DownloadFails(a) \/ Store(a)
  \/ Stub(a) \/ StubFails(a)

Next ==
  \/ \E listed \in SUBSET Assets : Call(listed)
  \/ \E a \in Assets : Work(a)
  \/ Return
  \/ Crash

Spec == Init /\ [][Next]_vars

\* The goroutines are scheduled, and a download has its own timeout.
FairSpec == Spec /\ WF_vars(Return) /\ \A a \in Assets : WF_vars(Work(a))

-----------------------------------------------------------------------------
\* The types of all variables.
GeodataTypeOK ==
  /\ disk \in [Files -> Contents]
  /\ temp \in [Assets -> {Absent} \cup Downloads]
  /\ step \in [Assets -> Steps]
  /\ sem \in 0..Concurrency
  /\ left \in Nat
  /\ calls \in 0..MaxCalls
  /\ crashes \in 0..MaxCrashes

\* The files xray-core reads are never half written, whatever fails and whenever
\* the node is killed: a file changes only from absent to an empty stub, or to
\* all that LimitReader admits of one download of a valid asset of that name.
FilesChangeWhole ==
  [][\A f \in Files :
       \/ disk'[f] = disk[f]
       \/ disk[f] = Absent /\ disk'[f] = Empty
       \/ /\ disk'[f] \in Downloads
          /\ Whole(disk'[f])
          /\ disk'[f].from \in Valid /\ File[disk'[f].from] = f]_vars

\* An asset that was skipped, downloaded or given a stub has its file, so that
\* xray-core finds it, whatever the assets of the same name did.  (Without the
\* permission to create a stub there is none.)
PreparedFilesExist ==
  \A a \in Assets :
    step[a] \in {"skipped", "stored", "stubbed"} => disk[File[a]] # Absent

\* A call that returned or is at work keeps no temporary file it does not use:
\* there are never more than those at work at once, plus those of the calls
\* during which the node was killed.
TempFilesBounded ==
  left + Cardinality(Temps) <= Concurrency * (1 + crashes)

\* The inductive invariant: a token for each goroutine at work, a temporary file
\* for each that copies, with a part of its own download, and what calls that were
\* killed have left.
GeodataInv ==
  /\ GeodataTypeOK
  /\ sem = Cardinality(Holders)
  /\ \A a \in Assets :
       /\ step[a] # "none" => a \in Valid
       /\ IF step[a] = "copy"
          THEN temp[a] \in Downloads /\ temp[a].from = a
          ELSE temp[a] = Absent
  /\ PreparedFilesExist
  /\ left <= Concurrency * crashes

\* Unless the node is killed, a call ends, though a server may never answer.
CallReturns == InCall ~> ~InCall
=============================================================================
