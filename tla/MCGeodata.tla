----------------------------- MODULE MCGeodata -----------------------------
(***************************************************************************)
(* Two assets of one name and one of another, and an invalid entry.         *)
(***************************************************************************)
EXTENDS Geodata

CONSTANTS a1, a2, a3, a4, f1, f2

MCFile == [a \in {a1, a2, a3, a4} |-> IF a \in {a1, a2} THEN f1 ELSE f2]
=============================================================================
