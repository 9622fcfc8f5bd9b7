---------------------------- MODULE MCStandalone ----------------------------
(***************************************************************************)
(* The parts of the node that nothing else acts upon: the statistics that  *)
(* only read, the sampler behind the rates of the host (which the readers  *)
(* meet in one value, read under one lock), and the algorithms.  They do   *)
(* not interact, and so a behaviour is one of one of them.                 *)
(***************************************************************************)
EXTENDS NetworkSampler, StatsReads, Algorithms, Building, FiniteSetsExt, TLC

CONSTANTS eth, wg, alice, bob, t1, hash1, hash2, e1, e2, Odd, OldPort

VARIABLE machine

-----------------------------------------------------------------------------
\* The sampler and the readers.
Line(iface_, complete, default, metric) ==
  [iface |-> iface_, complete |-> complete, default |-> default, metric |-> metric]

\* A line that is cut off, a metric that is no number, a route that is not the default;
\* equal metrics, a better metric, below zero, last, no route at all.
MCRouteTables ==
  {<<Line(wg, FALSE, TRUE, 0), Line(eth, TRUE, TRUE, Unparsable), Line(wg, TRUE, TRUE, 0)>>,
   <<Line(eth, TRUE, FALSE, 0), Line(eth, TRUE, TRUE, 2), Line(wg, TRUE, TRUE, -1)>>,
   <<>>}

MCCarriable == eth :> 2 @@ wg :> 1

MCQueries == {[kind |-> k, user |-> alice] : k \in {"system", "status", "ips", "users"}}

MCConnections == {<<alice, "a">>, <<alice, "b">>, <<bob, "a">>}

-----------------------------------------------------------------------------
\* The restart decision: a tag, which may be empty, with one of two hashes, or with the
\* first hash and another number of users; every pair of lists of up to three inbounds,
\* and of up to one when the lists do not matter.
MCTags == {t1, NoTag}

Entries ==
  [tag : MCTags, hash : {hash1, hash2}, usersCount : {1}]
    \cup [tag : MCTags, hash : {hash1}, usersCount : {2}]

ShortHashLists(n) ==
  [emptyConfig : {e1, e2}, inbounds : UNION {[1..m -> Entries] : m \in 0..n}]

MCHashListPairs ==
  ({FALSE} \X (ShortHashLists(3) \cup {NoHashes}) \X ShortHashLists(3) \X {TRUE})
    \cup (BOOLEAN \X (ShortHashLists(1) \cup {NoHashes}) \X ShortHashLists(1) \X BOOLEAN)

-----------------------------------------------------------------------------
\* The documents: keys that are missing, that hold no map or no list, or a map with
\* something in it; inbounds of the node's own tag, of hysteria, with and without a port.
Map(f) == [map |-> f]
OddValue == Scalar(Odd)
Missing == <<>>
KeyWith(key, trees) == {Missing} \cup {key :> t : t \in trees}
MapsWith(fs, gs) == {Map(f @@ g) : f \in fs, g \in gs}

Level0s == {OddValue, Map("statsUserOnline" :> OddValue @@ "bufferSize" :> OddValue)}
LevelMaps == {OddValue} \cup MapsWith(KeyWith("0", Level0s), {Missing, "1" :> Map(Missing)})
SystemMaps == {OddValue, Map("statsInboundUplink" :> OddValue @@ "other" :> OddValue)}
PolicyTrees == {OddValue} \cup MapsWith(KeyWith("levels", LevelMaps), KeyWith("system", SystemMaps))

InboundTrees ==
  {OddValue,
   Map("protocol" :> Scalar("hysteria") @@ "tag" :> Scalar("A")),
   Map("protocol" :> Scalar("hysteria") @@ "port" :> Scalar(OldPort)),
   Map("protocol" :> Scalar("vless") @@ "port" :> Scalar(OldPort)),
   Map("tag" :> Scalar(APIInboundTag)), Map("tag" :> Scalar(APITag))}
ListsOf(trees) == {OddValue} \cup {[list |-> s] : s \in UNION {[1..n -> trees] : n \in 0..2}}
OutboundLists == {[list |-> <<>>], [list |-> <<OddValue, Map("tag" :> Scalar(APITag))>>],
                  [list |-> <<Map("protocol" :> Scalar("hysteria"))>>]}

\* Everything about the inbounds, or everything about the policy.
DocumentTrees ==
  {Map(i @@ o) : i \in KeyWith("inbounds", ListsOf(InboundTrees)),
                 o \in KeyWith("outbounds", OutboundLists)}
    \cup {Map(p @@ s @@ ("inbounds" :> [list |-> <<Map("protocol" :> Scalar("hysteria"))>>])) :
            p \in KeyWith("policy", PolicyTrees),
            s \in KeyWith("stats", {OddValue, Map(Missing), Map("x" :> OddValue)})}

\* encoding/json: the document is put on a heap, an object after those in it.
RECURSIVE Decode(_, _)
Decode(heap, tree) ==
  IF ~(IsMap(tree) \/ IsList(tree)) THEN [heap |-> heap, value |-> tree]
  ELSE LET Add(k, done) ==
             LET child == Decode(done.heap, Children(tree)[k])
             IN  [heap |-> child.heap, children |-> [done.children EXCEPT ![k] = child.value]]
           all == FoldSet(Add, [heap |-> heap, children |-> Children(tree)],
                          DOMAIN Children(tree))
       IN  New(all.heap, Like(tree, all.children))

MCDocuments == {Decode(<<>>, tree) : tree \in DocumentTrees \cup {Scalar(Nil)}}

-----------------------------------------------------------------------------
\* The environments: any two variables set to anything, the others not set.
MCDefaults == [nodePort |-> 2, internalPort |-> 3, limit |-> 3,
               clientAuth |-> "mtls", logLevel |-> "info", logColor |-> "always"]

SecretFacts == {"decodes", "complete", "caParses", "caInTime", "caSelfSigned", "nodeParses",
                "nodeSigned", "keyParses", "keyMatches", "jwtParses", "jwtIsRSA"}

Values(v) ==
  CASE v \in Ports \cup {"hysteria"} -> {Blank, Malformed, LongZero} \cup -1..(MaxPort + 1)
    [] v = "limit"    -> {Blank, Malformed, LongZero, -1, 0, 1, MaxInt}
    [] v \in Switches -> {Blank, Malformed, TRUE, FALSE}
    [] v \in Names    -> {Blank, Malformed, "none"}  \* of logLevel and logColor, any name
    [] v = "dotEnv"   -> {Blank, Malformed}
    [] v = "secret"   -> {Blank} \cup {[f \in SecretFacts |-> f \notin bad] :
                                          bad \in {b \in SUBSET SecretFacts : Cardinality(b) <= 2}}

Variables == Ports \cup Switches \cup Names \cup {"hysteria", "limit", "dotEnv", "secret"}

MCEnvironments ==
  UNION {{[[v \in Variables |-> Blank] EXCEPT ![p[1]] = x, ![p[2]] = y] :
            x \in Values(p[1]), y \in Values(p[2])} : p \in Variables \X Variables}

\* An object that is complete with more bytes than there can be is never complete.
MCRequests ==
  [named : BOOLEAN, certificate : {"absent", "foreign", "trusted"},
   token : BOOLEAN, compressed : BOOLEAN,
   body : [size : 0..MaxInt, sound : BOOLEAN, value : 1..(MaxInt + 1)],
   handler : {"answersOK", "answersError", "readsNone"}]

-----------------------------------------------------------------------------
Init ==
  /\ machine \in {"sampler", "reads", "algorithms", "builder"}
  /\ IF machine = "sampler" THEN SamplerInit
     ELSE SamplerInit /\ routes = <<>> /\ present = {}
  /\ ReadsInit
  /\ IF machine = "algorithms" THEN AlgorithmsInit
     ELSE task = "none" /\ input = Nil /\ result = Pending
  /\ IF machine = "builder" THEN BuildingInit ELSE order = Nil /\ built = NotBuilt

Next ==
  \/ /\ machine = "sampler" /\ SamplerNext
     /\ UNCHANGED <<machine, readsVars, algorithmVars, buildingVars>>
  \/ /\ machine = "reads" /\ ReadsNext
     /\ UNCHANGED <<machine, samplerVars, algorithmVars, buildingVars>>
  \/ /\ machine = "algorithms" /\ AlgorithmsNext
     /\ UNCHANGED <<machine, samplerVars, readsVars, buildingVars>>
  \/ /\ machine = "builder" /\ BuildingNext
     /\ UNCHANGED <<machine, samplerVars, readsVars, algorithmVars>>

Spec == Init /\ [][Next]_<<machine, samplerVars, readsVars, algorithmVars, buildingVars>>
=============================================================================
