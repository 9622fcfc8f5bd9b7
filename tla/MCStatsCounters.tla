-------------------------- MODULE MCStatsCounters --------------------------
(***************************************************************************)
(* A user with two directions, two inbounds, an outbound.                   *)
(***************************************************************************)
EXTENDS StatsCounters, TLC

CONSTANTS r1, r2, n1, n2, i1, i2

Counter(kind, owner, direction) ==
  [kind |-> kind, owner |-> owner, direction |-> direction]

MCCounters ==
  {Counter("user", "alice", "uplink"), Counter("user", "alice", "downlink"),
   Counter("inbound", "in1", "uplink"), Counter("inbound", "in2", "uplink"),
   Counter("outbound", "direct", "uplink")}

Input(kind, owner, reset) == [kind |-> kind, owner |-> owner, reset |-> reset]

MCInputs ==
  {Input("users", "", TRUE),
   Input("inbound", "in1", TRUE), Input("outbound", "direct", FALSE),
   Input("inbounds", "", FALSE), Input("outbounds", "", TRUE),
   Input("combined", "", TRUE)}

Interchangeable == Permutations({r1, r2}) \cup Permutations({n1, n2}) \cup Permutations({i1, i2})
=============================================================================
