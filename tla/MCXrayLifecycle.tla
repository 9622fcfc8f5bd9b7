--------------------------- MODULE MCXrayLifecycle ---------------------------
(***************************************************************************)
(* Instances of XrayLifecycle for TLC: two configurations, one of which    *)
(* the Panel may send with its inbounds in another order.                  *)
(***************************************************************************)
EXTENDS XrayLifecycleProperties, TLC

Inbound(tag) == [tag |-> tag, hash |-> "h", usersCount |-> 1]

ConfigA == [emptyConfig |-> "a", inbounds |-> <<Inbound("x"), Inbound("y")>>]
ConfigAReordered ==
  [emptyConfig |-> "a", inbounds |-> <<Inbound("y"), Inbound("x")>>]
ConfigB == [emptyConfig |-> "a", inbounds |-> <<Inbound("x"), Inbound("z")>>]

AllHashLists == {ConfigA, ConfigAReordered, ConfigB}
TwoHashLists == {ConfigA, ConfigB}

Symmetry == Permutations(Starts) \cup Permutations(Stops)
=============================================================================
