---------------------------- MODULE ConfigBuilder ----------------------------
(***************************************************************************)
(* internal/xray/config.go: the configuration that the Panel sent is made  *)
(* into the one that xray-core is started with.                            *)
(*                                                                         *)
(* The maps and slices of a decoded JSON document are shared, not copied,  *)
(* when they are assigned: here they lie on a heap, a sequence of objects  *)
(*     [map |-> <a function of values>]  or  [list |-> <<values>>],        *)
(* and a value is a scalar, or the place of an object in the heap:         *)
(*     [scalar |-> s]  or  [ref |-> n].                                    *)
(***************************************************************************)
EXTENDS Naturals, Sequences

CONSTANTS Nil, NoConflict       \* an absent value; Build has no error

Scalar(s) == [scalar |-> s]
Ref(n) == [ref |-> n]
IsRef(value) == "ref" \in DOMAIN value
IsMap(object) == "map" \in DOMAIN object
IsList(object) == "list" \in DOMAIN object
Children(object) == IF IsMap(object) THEN object.map ELSE object.list
Like(object, children) == IF IsMap(object) THEN [map |-> children] ELSE [list |-> children]

\* Reading a key that is not there gives nil; a map with keys of it set.
At(map, key) == IF key \in DOMAIN map THEN map[key] ELSE Scalar(Nil)
With(map, keys, value) ==
  [k \in keys \cup DOMAIN map |-> IF k \in keys THEN value ELSE map[k]]

\* The heap with an object added to it, and the value that stands for it.
New(heap, object) == [heap |-> Append(heap, object), value |-> Ref(Len(heap) + 1)]

-----------------------------------------------------------------------------
\* FAULT: the objects in the first map are shared with the copy.
CloneTop(heap, value) == New(heap, heap[value.ref])

\* cloneMap and cloneValue: what the value leads to is made anew, and refers to what was
\* made with it.  The rest of the heap is copied along, and reached by nobody.  Decoded
\* JSON has one reference to an object at most, so that one copy of each is enough.
Moved(value, by) == IF IsRef(value) THEN Ref(value.ref + by) ELSE value
Shifted(children, by) == [k \in DOMAIN children |-> Moved(children[k], by)]
Copy(object, by) == Like(object, Shifted(Children(object), by))

Clone(heap, value) ==
  [heap |-> heap \o [n \in 1..Len(heap) |-> Copy(heap[n], Len(heap))],
   value |-> Moved(value, Len(heap))]

\* The map at a place, and the heap with keys of it set.
MapAt(heap, value) == heap[value.ref].map
PutAll(heap, value, keys, new) ==
  [heap EXCEPT ![value.ref] = [map |-> With(MapAt(heap, value), keys, new)]]
Put(heap, value, key, new) == PutAll(heap, value, {key}, new)

EnsureMap(heap, value) ==
  IF IsRef(value) /\ IsMap(heap[value.ref]) THEN Clone(heap, value)
  ELSE New(heap, [map |-> <<>>])

\* FAULT: the elements are copied, too.
EnsureArrayDeeply(heap, value) ==
  IF IsRef(value) /\ IsList(heap[value.ref])
  THEN LET copy == Clone(heap, value)
       IN  [heap |-> copy.heap, items |-> copy.heap[copy.value.ref].list]
  ELSE [heap |-> heap, items |-> <<>>]

\* ensureArray: a new slice of the same elements.
EnsureArray(heap, value) ==
  [heap |-> heap,
   items |-> IF IsRef(value) /\ IsList(heap[value.ref]) THEN heap[value.ref].list ELSE <<>>]

\* The maps among the elements of a section of the configuration.
MapsOf(heap, config, section) ==
  LET array == EnsureArray(heap, At(MapAt(heap, config), section))
      items == {array.items[i] : i \in DOMAIN array.items}
  IN  [heap |-> array.heap,
       maps |-> {v \in items : IsRef(v) /\ IsMap(array.heap[v.ref])}]

HasTag(heap, config, tag) ==
  \E section \in {"inbounds", "outbounds"} :
    LET found == MapsOf(heap, config, section)
    IN  \E v \in found.maps : At(MapAt(found.heap, v), "tag") = Scalar(tag)

\* applyHysteriaListenPort: the inbounds are set one after the other, to the same port.
IsHysteria(map) == At(map, "protocol") = Scalar("hysteria")

ApplyHysteriaListenPort(heap, config, port) ==
  IF port <= 0 THEN heap
  ELSE LET found == MapsOf(heap, config, "inbounds")
       IN  [n \in DOMAIN found.heap |->
              IF Ref(n) \in found.maps /\ IsHysteria(MapAt(found.heap, Ref(n)))
              THEN [map |-> With(MapAt(found.heap, Ref(n)), {"port"}, Scalar(port))]
              ELSE found.heap[n]]

UserStats == {"statsUserUplink", "statsUserDownlink"}
SystemStats == {"statsInboundDownlink", "statsInboundUplink",
                "statsOutboundDownlink", "statsOutboundUplink"}

\* The part of Build from `policy' on.
SetLevel0(heap, levels, online) ==
  LET level0 == EnsureMap(heap, At(MapAt(heap, levels), "0"))
      h      == PutAll(level0.heap, level0.value, UserStats, Scalar(TRUE))
  IN  Put(Put(h, level0.value, "statsUserOnline", Scalar(online)), levels, "0", level0.value)

\* FAULT: the levels are not stored in the policy.
SetLevelsUnstored(heap, policy, online) ==
  LET levels == EnsureMap(heap, At(MapAt(heap, policy), "levels"))
  IN  SetLevel0(levels.heap, levels.value, online)

SetLevels(heap, policy, online) ==
  LET levels == EnsureMap(heap, At(MapAt(heap, policy), "levels"))
  IN  Put(SetLevel0(levels.heap, levels.value, online), policy, "levels", levels.value)

SetSystem(heap, policy) ==
  LET system == EnsureMap(heap, At(MapAt(heap, policy), "system"))
      h      == PutAll(system.heap, system.value, SystemStats, Scalar(TRUE))
  IN  Put(h, policy, "system", system.value)

SetPolicy(heap, config, online) ==
  LET policy == EnsureMap(heap, At(MapAt(heap, config), "policy"))
      h      == SetLevels(policy.heap, policy.value, online)
  IN  Put(SetSystem(h, policy.value), config, "policy", policy.value)

SetStats(heap, config) ==
  LET stats == EnsureMap(heap, At(MapAt(heap, config), "stats"))
  IN  Put(stats.heap, config, "stats", stats.value)

APITag == "REMNAWAVE_API"
APIInboundTag == "REMNAWAVE_API_INBOUND"

\* ConfigBuilder.Build: the heap afterwards, the configuration, the error.  A nil
\* document is an empty map.
Conflict(heap, config) == 
  IF HasTag(heap, config, APITag) THEN APITag
  ELSE IF HasTag(heap, config, APIInboundTag) THEN APIInboundTag ELSE NoConflict

Build(heap, panelConfig, online, port) ==
  LET config == IF IsRef(panelConfig) THEN Clone(heap, panelConfig)
                                      ELSE New(heap, [map |-> <<>>])
      conflict == Conflict(config.heap, config.value)
      h1 == ApplyHysteriaListenPort(config.heap, config.value, port)
      h2 == SetPolicy(SetStats(h1, config.value), config.value, online)
  IN  IF conflict # NoConflict
      THEN [heap |-> config.heap, config |-> Scalar(Nil), conflict |-> conflict]
      ELSE [heap |-> h2, config |-> config.value, conflict |-> NoConflict]
=============================================================================
