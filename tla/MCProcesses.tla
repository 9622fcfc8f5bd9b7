---------------------------- MODULE MCProcesses ----------------------------
(***************************************************************************)
(* The process of the node, with three connections, two at one server and  *)
(* one at the other; and the processes it starts for three geocheck        *)
(* requests: one inside, one turned away, one that comes next.  A geocheck *)
(* is to the servers a request that is answered late or never, which they  *)
(* meet anyway, and so a behaviour is one of one of them.                  *)
(***************************************************************************)
EXTENDS Geocheck, ServerLifecycle

VARIABLE machine

ProcessesInit == machine \in {"servers", "geocheck"} /\ ServersInit /\ Init

ProcessesNext ==
  /\ UNCHANGED machine
  /\ \/ machine = "servers" /\ ServersNext /\ UNCHANGED vars
     \/ machine = "geocheck" /\ Next /\ UNCHANGED serverVars

ProcessesSpec ==
  /\ ProcessesInit /\ [][ProcessesNext]_<<machine, serverVars, vars>>
  /\ machine = "servers" => ServersFairness
  /\ machine = "geocheck" => Fairness
=============================================================================
