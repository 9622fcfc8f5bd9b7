--------------------------- MODULE RestartDecision ---------------------------
(***************************************************************************)
(* The pure part of internal/state/runtime.go: does a start request need a *)
(* restart of the core?  The Panel sends, with every configuration, a hash *)
(* of the configuration without users and one entry per inbound (tag, hash *)
(* of its users, number of users).  The node keeps the hashes of the last  *)
(* configuration it started and compares.                                  *)
(*                                                                         *)
(* A value of the Go type Hashes is a record                               *)
(*     [emptyConfig |-> e, inbounds |-> <<[tag, hash, usersCount], ...>>]  *)
(* The Go flag HasLastHashes is `last # NoHashes'.                         *)
(***************************************************************************)
EXTENDS Naturals, Sequences, FiniteSets

CONSTANT NoHashes   \* no start has succeeded yet: HasLastHashes = false

\* How often the entry x occurs in the list of inbounds.
Occurrences(inbounds, x) ==
  Cardinality({i \in 1..Len(inbounds) : inbounds[i] = x})

\* FAULT: compares the inbounds as sets.
SameHashesAsSets(a, b) ==
  /\ a.emptyConfig = b.emptyConfig
  /\ Len(a.inbounds) = Len(b.inbounds)
  /\ \A i \in 1..Len(b.inbounds) : Occurrences(a.inbounds, b.inbounds[i]) > 0

\* sameHashes: counts a's entries, then takes b's entries off one at a time
\* and gives up when a count goes below zero.
SameHashes(a, b) ==
  /\ a.emptyConfig = b.emptyConfig
  /\ Len(a.inbounds) = Len(b.inbounds)
  /\ \A i \in 1..Len(b.inbounds) :
       Occurrences(SubSeq(b.inbounds, 1, i), b.inbounds[i])
         <= Occurrences(a.inbounds, b.inbounds[i])

-----------------------------------------------------------------------------
\* incomingByTag: the map built by overwriting, so the last entry of a tag wins.
TagsOf(inbounds) == {inbounds[i].tag : i \in 1..Len(inbounds)}

ByTag(inbounds, tag) ==
  LET last == CHOOSE i \in 1..Len(inbounds) :
                /\ inbounds[i].tag = tag
                /\ \A j \in 1..Len(inbounds) : inbounds[j].tag = tag => j <= i
  IN  inbounds[last]

\* The entry of the previous configuration is not in the incoming one, or is
\* there with another hash or another number of users.
Removed(previous, incoming) == previous.tag \notin TagsOf(incoming)

\* FAULT: forgets the number of users.
ChangedHashOnly(previous, incoming) ==
  /\ ~Removed(previous, incoming)
  /\ previous.hash # ByTag(incoming, previous.tag).hash

Changed(previous, incoming) ==
  /\ ~Removed(previous, incoming)
  /\ LET entry == ByTag(incoming, previous.tag)
     IN  previous.hash # entry.hash \/ previous.usersCount # entry.usersCount

\* The empty tag: InboundTag when it is not set, and what an inbound may be tagged with.
NoTag == "no inbound tag"
Decision(restart, reason, tag) ==
  [shouldRestart |-> restart, reason |-> reason, inboundTag |-> tag]

\* FAULT: reports the tag of the last inbound instead of the one that differs.
InboundDecisionBlamesLast(previous, incoming) ==
  Decision(TRUE, "inbound_hash_changed", previous[Len(previous)].tag)

\* The loop over the previous inbounds: the first one removed or changed is
\* reported; with none, the reason is a changed hash without a tag.
InboundDecision(previous, incoming) ==
  LET bad   == {i \in 1..Len(previous) : \/ Removed(previous[i], incoming)
                                         \/ Changed(previous[i], incoming)}
      first == CHOOSE i \in bad : \A j \in bad : i <= j
  IN  IF bad = {}
      THEN Decision(TRUE, "inbound_hash_changed", NoTag)
      ELSE Decision(TRUE,
                    IF Removed(previous[first], incoming)
                    THEN "inbound_removed" ELSE "inbound_hash_changed",
                    previous[first].tag)

\* RuntimeState.RestartDecision, with the state's LastHashes as `last': the
\* early returns of the code, in their order.
RestartDecisionFor(force, last, hashes, coreRunning) ==
  IF force THEN Decision(TRUE, "force_restart", NoTag)
  ELSE IF ~coreRunning THEN Decision(TRUE, "core_not_running", NoTag)
  ELSE IF last = NoHashes THEN Decision(TRUE, "no_previous_hashes", NoTag)
  ELSE IF SameHashes(last, hashes) THEN Decision(FALSE, "up_to_date", NoTag)
  ELSE IF last.emptyConfig # hashes.emptyConfig
    THEN Decision(TRUE, "empty_config_hash_changed", NoTag)
  ELSE IF Len(last.inbounds) # Len(hashes.inbounds)
    THEN Decision(TRUE, "inbound_count_changed", NoTag)
  ELSE InboundDecision(last.inbounds, hashes.inbounds)

ShouldRestart(force, last, hashes, coreRunning) ==
  RestartDecisionFor(force, last, hashes, coreRunning).shouldRestart
=============================================================================
