------------------------------ MODULE Building ------------------------------
(***************************************************************************)
(* The configuration builder on its own: a behaviour takes what the Panel  *)
(* sent and builds from it once; the properties compare what was built     *)
(* with definitions that do not follow the code.                           *)
(***************************************************************************)
EXTENDS ConfigBuilder

CONSTANTS
  Documents,      \* what the Panel may send: a heap, and the value of the document on it
  BuilderPorts,   \* HYSTERIA_LISTEN_PORT
  NotBuilt,
  Depth           \* how far documents are compared

\* Decoded JSON: every reference is to an object of the heap, no object is referred to
\* twice, and the document is nil or a map that nothing refers to.
IsValue(value, places) ==
  IF IsRef(value) THEN value = Ref(value.ref) /\ value.ref \in places
                  ELSE value = Scalar(value.scalar)

IsDecoded(heap, document) ==
  /\ Len(heap) \in Nat /\ DOMAIN heap = 1..Len(heap)
  /\ \A n \in DOMAIN heap :
       /\ heap[n] = Like(heap[n], Children(heap[n]))
       /\ Children(heap[n]) = [k \in DOMAIN Children(heap[n]) |-> Children(heap[n])[k]]
       /\ \A k \in DOMAIN Children(heap[n]) :
            LET value == Children(heap[n])[k]
            IN  /\ IsValue(value, DOMAIN heap)
                /\ IsRef(value) =>
                     /\ value # document
                     /\ \A m \in DOMAIN heap : \A j \in DOMAIN Children(heap[m]) :
                          Children(heap[m])[j] = value => m = n /\ j = k
  /\ IF IsRef(document) THEN IsValue(document, DOMAIN heap) /\ IsMap(heap[document.ref])
                        ELSE document = Scalar(Nil)

ASSUME BuildingAssumption ==
  /\ \A d \in Documents : IsDecoded(d.heap, d.value)
  /\ BuilderPorts \subseteq Nat
  /\ Depth \in Nat /\ Depth >= 4
  /\ NoConflict \notin {APITag, APIInboundTag}

VARIABLES order, built

buildingVars == <<order, built>>

BuildingInit ==
  /\ order \in [document : Documents, online : BOOLEAN, port : BuilderPorts]
  /\ built = NotBuilt

BuildingNext ==
  /\ built = NotBuilt
  /\ built' = Build(order.document.heap, order.document.value, order.online, order.port)
  /\ UNCHANGED order

BuildingSpec == BuildingInit /\ [][BuildingNext]_buildingVars

-----------------------------------------------------------------------------
\* Reference: the same documents as trees, that is objects with trees for their values,
\* down to a depth at which what is there is not looked at.
Deeper(heap, trees) ==
  [p \in DOMAIN heap |->
     Like(heap[p], [k \in DOMAIN Children(heap[p]) |->
                      IF IsRef(Children(heap[p])[k]) THEN trees[Children(heap[p])[k].ref]
                                                     ELSE Children(heap[p])[k]])]

Trees(heap) ==
  LET tree[n \in 0..Depth] == IF n = 0 THEN [p \in DOMAIN heap |-> Scalar(Nil)]
                                       ELSE Deeper(heap, tree[n - 1])
  IN  tree

Tree(heap, value) == IF IsRef(value) THEN Trees(heap)[Depth][value.ref] ELSE value

MapOf(tree) == IF IsMap(tree) THEN tree.map ELSE <<>>
Setting(f, keys, value) == With(f, keys, Scalar(value))

MapsInSection(document, section) ==
  LET tree == At(MapOf(document), section)
  IN  IF IsList(tree) THEN {t \in {tree.list[i] : i \in DOMAIN tree.list} : IsMap(t)} ELSE {}

Promised(document, online, port) ==
  LET doc    == MapOf(document)
      policy == MapOf(At(doc, "policy"))
      levels == MapOf(At(policy, "levels"))
      level0 == Setting(Setting(MapOf(At(levels, "0")), UserStats, TRUE), {"statsUserOnline"}, online)
      system == Setting(MapOf(At(policy, "system")), SystemStats, TRUE)
      Redirected(tree) ==
        IF port > 0 /\ IsMap(tree) /\ IsHysteria(MapOf(tree))
        THEN [map |-> Setting(tree.map, {"port"}, port)] ELSE tree
      OfKey(key) ==
        CASE key = "stats"  -> [map |-> MapOf(At(doc, "stats"))]
          [] key = "policy" -> [map |-> With(With(policy,
                                  {"levels"}, [map |-> With(levels, {"0"}, [map |-> level0])]),
                                  {"system"}, [map |-> system])]
          [] key = "inbounds" /\ IsList(doc["inbounds"]) ->
               [list |-> [i \in DOMAIN doc["inbounds"].list |-> Redirected(doc["inbounds"].list[i])]]
          [] OTHER -> doc[key]
  IN  [map |-> [key \in {"stats", "policy"} \cup DOMAIN doc |-> OfKey(key)]]

\* The configuration that is built has the statistics switched on and the ports of the
\* hysteria inbounds replaced, whatever the Panel had at these places, and is for the
\* rest what the Panel sent; it is refused exactly when it uses a tag of the node's own.
BuiltAsPromised ==
  built # NotBuilt =>
    LET document == Tree(order.document.heap, order.document.value)
        taken == \E section \in {"inbounds", "outbounds"} :
                   \E m \in MapsInSection(document, section) :
                     At(m.map, "tag") \in {Scalar(APITag), Scalar(APIInboundTag)}
    IN  /\ taken <=> built.conflict # NoConflict
        /\ ~taken => Tree(built.heap, built.config) = Promised(document, order.online, order.port)

\* What the Panel sent is left as it was, and nothing of it is shared with what was
\* built: the places of the document hold what they held, and no later object refers
\* to one of them.
DocumentUntouched ==
  built # NotBuilt =>
    LET before == order.document.heap
        new    == DOMAIN built.heap \ DOMAIN before
    IN  /\ \A n \in DOMAIN before : n \in DOMAIN built.heap /\ built.heap[n] = before[n]
        /\ \A n \in new : \A k \in DOMAIN Children(built.heap[n]) :
             LET value == Children(built.heap[n])[k] IN IsRef(value) => value.ref \in new
        /\ IsRef(built.config) => built.config.ref \in new

\* xray-core is started with what was promised, and the Panel's document is left alone, as
\* the test of the builder asks ("input map was mutated").
BuiltRightly == BuiltAsPromised /\ DocumentUntouched
=============================================================================
