--------------------------- MODULE MCUserScenarios ---------------------------
(***************************************************************************)
(* Two scenarios of UserHandlers for one run of TLC: a request of any kind *)
(* on its own, with connections of the user it is about from either        *)
(* address if it may drop any; or two requests at once, without            *)
(* connections and so without addresses to drop.                           *)
(***************************************************************************)
EXTENDS MCUserHandlers, FiniteSets, Naturals

VARIABLE scenario

AllInputs == MCSingleInputs \cup MCPairInputs

AtWorkOnly(inputs) == \A r \in Requests : job'[r].pc = "idle" \/ job'[r].in \in inputs

OnItsOwn ==
  /\ Cardinality({r \in Requests : job'[r].pc # "idle"}) <= 1
  /\ AtWorkOnly(MCSingleInputs)
  /\ \A s \in sessions' : s.user = u1
  /\ sessions' = {} \/ \A r \in Requests :
       job'[r].pc = "idle" \/ job'[r].in.kind \in {"add", "dropUsers", "dropIPs"}

TwoAtOnce ==
  /\ AtWorkOnly(MCPairInputs)
  /\ sessions' = {} /\ \A r \in Requests : job'[r].captured = {}

ScenarioInit == Init /\ scenario \in {"alone", "together"}

ScenarioNext ==
  /\ Next
  /\ UNCHANGED scenario
  /\ IF scenario = "alone" THEN OnItsOwn ELSE TwoAtOnce

ScenarioSpec == ScenarioInit /\ [][ScenarioNext]_<<vars, scenario>>
=============================================================================
