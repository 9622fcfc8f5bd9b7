---------------------------- MODULE SingleFlight ----------------------------
(***************************************************************************)
(* What a single-flight gate promises: callers come, at most one of them   *)
(* is let in, and one that comes while another is in is turned away rather *)
(* than queued.  A caller comes once.                                      *)
(***************************************************************************)
CONSTANTS Callers, Nobody   \* Nobody is no caller

VARIABLES
  inside,    \* who is in
  turned     \* who was turned away

gateVars == <<inside, turned>>

GateTypeOK ==
  /\ inside \in Callers \cup {Nobody}
  /\ turned \in SUBSET Callers

GateInit == inside = Nobody /\ turned = {}

Admit(c) ==
  /\ inside = Nobody
  /\ c \notin turned
  /\ inside' = c
  /\ UNCHANGED turned

TurnAway(c) ==
  /\ inside \notin {Nobody, c}
  /\ c \notin turned
  /\ turned' = turned \cup {c}
  /\ UNCHANGED inside

Release(c) == inside = c /\ inside' = Nobody /\ UNCHANGED turned

GateNext == \E c \in Callers : Admit(c) \/ TurnAway(c) \/ Release(c)

GateSpec == GateInit /\ [][GateNext]_gateVars
=============================================================================
