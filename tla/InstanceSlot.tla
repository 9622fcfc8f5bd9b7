---------------------------- MODULE InstanceSlot ----------------------------
(***************************************************************************)
(* What EmbeddedCore promises its users: one slot that holds at most one   *)
(* xray-core instance, and for every instance a life that only moves       *)
(* forward,                                                                *)
(*                                                                         *)
(*   unborn -> starting -> ready -> live -> retiring -> gone               *)
(*                 +-> failed -------------^                               *)
(*                                                                         *)
(* An instance is ready when its Start has returned without an error, live *)
(* while it is in the slot, and retiring while its Close runs.  So Start   *)
(* and Close of one instance never overlap, Close is called once, nobody   *)
(* but the slot's holder is offered an instance, and what left the slot    *)
(* never comes back.                                                       *)
(***************************************************************************)
CONSTANTS Instances, Nothing   \* Nothing is no instance

VARIABLES slot, life

slotVars == <<slot, life>>

Lives == {"unborn", "starting", "ready", "failed", "live", "retiring", "gone"}

SlotTypeOK ==
  /\ slot \in Instances \cup {Nothing}
  /\ life \in [Instances -> Lives]

SlotInit ==
  /\ slot = Nothing
  /\ life = [i \in Instances |-> "unborn"]

Becomes(i, from, to) ==
  /\ life[i] \in from
  /\ life' = [life EXCEPT ![i] = to]

StartCalled(i) == Becomes(i, {"unborn"}, "starting") /\ UNCHANGED slot
StartReturned(i) ==
  (Becomes(i, {"starting"}, "ready") \/ Becomes(i, {"starting"}, "failed"))
    /\ UNCHANGED slot
Enter(i) == Becomes(i, {"ready"}, "live") /\ slot = Nothing /\ slot' = i
Leave(i) == Becomes(i, {"live"}, "retiring") /\ slot = i /\ slot' = Nothing
Discard(i) == Becomes(i, {"ready", "failed"}, "retiring") /\ UNCHANGED slot
CloseReturned(i) == Becomes(i, {"retiring"}, "gone") /\ UNCHANGED slot

SlotNext ==
  \E i \in Instances :
    \/ StartCalled(i) \/ StartReturned(i)
    \/ Enter(i) \/ Leave(i) \/ Discard(i) \/ CloseReturned(i)

SlotSpec == SlotInit /\ [][SlotNext]_slotVars
=============================================================================
