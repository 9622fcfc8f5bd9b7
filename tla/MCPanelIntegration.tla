------------------------- MODULE MCPanelIntegration -------------------------
(* Two nodes; a hint that means one of them, and one that means either. *)
EXTENDS PanelIntegration, TLC
CONSTANTS n1, n2, one, both
MCMatches == one :> {n1} @@ both :> {n1, n2}
=============================================================================
