----------------------------- MODULE Algorithms -----------------------------
(***************************************************************************)
(* The parts of the node that compute an answer from their input and keep  *)
(* nothing: the restart decision, and the way from the environment to a    *)
(* request.  A behaviour takes one input and computes its result; the      *)
(* properties compare it with definitions that do not follow the code.     *)
(***************************************************************************)
EXTENDS RestartDecision, NodeSetup

CONSTANTS
  Tags, Digests,            \* of inbounds; the hashes the Panel computes
  HashListPairs,            \* of <<force, last, incoming, coreRunning>>
  Environments, Requests,   \* what a node is set up with, and is asked
  Spellings,                \* of the names that a variable may hold
  Pending

InboundHashes == [tag : Tags, hash : Digests, usersCount : Int]
HashLists == [emptyConfig : Digests, inbounds : Seq(InboundHashes)]

\* What the checks of a secret tell apart.
Payloads ==
  [decodes : BOOLEAN, complete : BOOLEAN, caParses : BOOLEAN, caInTime : BOOLEAN,
   caSelfSigned : BOOLEAN, nodeParses : BOOLEAN, nodeSigned : BOOLEAN,
   keyParses : BOOLEAN, keyMatches : BOOLEAN, jwtParses : BOOLEAN, jwtIsRSA : BOOLEAN]

Modes == {"mtls", "optional", "none"}

\* An environment, variable by variable.
Numbers == {Blank, Malformed, LongZero} \cup Int
Flags == {Blank, Malformed} \cup BOOLEAN
Words == {Blank, Malformed} \cup Spellings

EnvironmentType ==
  [nodePort : Numbers, internalPort : Numbers, hysteria : Numbers, limit : Numbers,
   requireSecret : Flags, sni : Flags, clientAuth : {Blank, Malformed} \cup Modes,
   logLevel : Words, logColor : Words, secret : {Blank} \cup Payloads,
   dotEnv : {Blank, Malformed}]

\* The values that Load and NewServer return, other than an error.
Configurations ==
  [Ports \cup Switches \cup Names \cup {"hysteria", "limit", "secret"} ->
     Numbers \cup Flags \cup Words \cup Payloads]
Servers == [secure : BOOLEAN, clientAuth : Modes, sni : BOOLEAN, limit : Nat]

\* The servers a request may reach, and what matters of a request.
MainServers == [secure : BOOLEAN, clientAuth : Modes, sni : BOOLEAN, limit : 0..MaxInt]
RequestType ==
  [named : BOOLEAN, certificate : {"absent", "foreign", "trusted"}, token : BOOLEAN,
   compressed : BOOLEAN, body : [size : Nat, sound : BOOLEAN, value : Nat \ {0}],
   handler : {"answersOK", "answersError", "readsNone"}]

\* What stands for no value, or for an error, is no value.
ASSUME AlgorithmsAssumption ==
  /\ HashListPairs \subseteq BOOLEAN \X (HashLists \cup {NoHashes}) \X HashLists \X BOOLEAN
  /\ Environments \subseteq EnvironmentType
  /\ Modes \cup {Defaults.logLevel, Defaults.logColor} \subseteq Spellings
  /\ Blank \notin Int \cup BOOLEAN \cup Spellings \cup Payloads
  /\ Malformed \notin Int \cup BOOLEAN \cup Spellings \cup Payloads \cup {Blank}
  /\ LongZero \notin Int \cup BOOLEAN \cup Spellings \cup Payloads \cup {Blank, Malformed}
  /\ Refused \notin Numbers \cup Flags \cup Words \cup Payloads \cup Configurations \cup Servers
  /\ Requests \subseteq RequestType

VARIABLES task, input, result

algorithmVars == <<task, input, result>>

Done(t) == task = t /\ result # Pending

AlgorithmsInit ==
  /\ result = Pending
  /\ \/ task = "decide" /\ input \in HashListPairs
     \/ task = "setup" /\ input \in Environments
     \/ /\ task = "handle"
        /\ input \in [server : MainServers, request : Requests]
        /\ input.server.secure \/ (input.server.clientAuth = "none" /\ ~input.server.sni)

Answer(t, in) ==
  CASE t = "decide" -> RestartDecisionFor(in[1], in[2], in[3], in[4])
    [] t = "setup"  -> Setup(in)
    [] t = "handle" -> Handle(in.server, in.request)

AlgorithmsNext ==
  /\ result = Pending
  /\ result' = Answer(task, input)
  /\ UNCHANGED <<task, input>>

AlgorithmsSpec == AlgorithmsInit /\ [][AlgorithmsNext]_algorithmVars

-----------------------------------------------------------------------------
\* Reference: the second list is the first one in another order.
Permutation(a, b) ==
  /\ Len(a) = Len(b)
  /\ \E p \in [1..Len(a) -> 1..Len(a)] :
       /\ \A i, j \in 1..Len(a) : p[i] = p[j] => i = j
       /\ \A i \in 1..Len(a) : b[i] = a[p[i]]

DistinctTags(a) == \A i, j \in 1..Len(a) : a[i].tag = a[j].tag => i = j

\* The core is kept exactly when the request is not forced, the core runs, a
\* start succeeded before, and the two configurations have the same hash and
\* the same inbounds in any order: the counting loop of sameHashes, which
\* never looks at what is left over, decides equality of multisets.
KeptIffSameConfiguration ==
  Done("decide") =>
    LET force == input[1]  last == input[2]  incoming == input[3]
    IN  ~result.shouldRestart <=>
          /\ ~force /\ input[4] /\ last # NoHashes
          /\ last.emptyConfig = incoming.emptyConfig
          /\ Permutation(last.inbounds, incoming.inbounds)

NamesInbound(decision) == decision.reason \in {"inbound_removed", "inbound_hash_changed"}

\* With distinct tags, a restart for an inbound always names the tag of one that was there
\* before and is not, as it was, among the incoming ones: though the loop over the
\* previous ones may end without one, and though a tag may be empty.
BlamedInboundDiffers ==
  (Done("decide") /\ input[2] # NoHashes /\ DistinctTags(input[2].inbounds)
     /\ DistinctTags(input[3].inbounds) /\ NamesInbound(result)) =>
    \E i \in 1..Len(input[2].inbounds) :
      /\ input[2].inbounds[i].tag = result.inboundTag
      /\ Occurrences(input[3].inbounds, input[2].inbounds[i]) = 0

\* The core is restarted when and only when it must be, and the log says why.
DecidedRightly == KeptIffSameConfiguration /\ BlamedInboundDiffers

-----------------------------------------------------------------------------
Legal(env) ==
  /\ \A v \in DOMAIN env : env[v] # Malformed
  /\ \A v \in Ports : env[v] # Blank => env[v] \in 1..MaxPort
  /\ env.hysteria # Blank => env.hysteria \in 0..MaxPort
  /\ env.limit # Blank => env.limit \in Nat \cup {LongZero}
  /\ env.secret # Blank => \A fact \in DOMAIN env.secret : env.secret[fact]

LimitOf(env) ==
  IF env.limit = Blank THEN Defaults.limit ELSE IF env.limit = LongZero THEN 0 ELSE env.limit

\* The node comes up exactly if every variable that is set is legal (none is replaced
\* by its default because it is not), its two ports differ, and the secret, if there is
\* one or must be one, is sound in every respect; requests are then checked exactly if
\* there is a secret, in the way that was set, and the limit of a body is the one set.
SetUpIffSound ==
  Done("setup") =>
    LET PortOf(v) == IF input[v] = Blank THEN Defaults[v] ELSE input[v]
    IN  /\ result # Refused <=>
             /\ Legal(input)
             /\ PortOf("nodePort") # PortOf("internalPort")
             /\ input.requireSecret = TRUE => input.secret # Blank
        /\ result # Refused =>
             /\ result.secure <=> input.secret # Blank
             /\ result.secure => /\ result.sni <=> input.sni = TRUE
                                 /\ result.clientAuth = IF input.clientAuth = Blank THEN "mtls"
                                                        ELSE input.clientAuth
             /\ result.limit = LimitOf(input)

\* The name, the certificate or the token is not as configured.
Barred(server, request) ==
  /\ server.secure
  /\ \/ ~request.token
     \/ server.sni /\ ~request.named
     \/ server.clientAuth = "mtls" /\ request.certificate # "trusted"
     \/ server.clientAuth # "none" /\ request.certificate = "foreign"

WithinLimit(limit, n) == limit = 0 \/ n <= limit

\* A request that is barred, or whose compressed body is broken or over the limit, never
\* reaches its handler; every other one does, even with a plain body over the limit.  There
\* it is served exactly if the handler reads no body, or the object it wants ends within the
\* body and the limit; a handler that cannot bind it says so in its own way.  The largest
\* limit is excepted for bodies that are compressed (see LargestLimitServes).
LimitIsKept ==
  (Done("handle") /\ ~(input.request.compressed /\ input.server.limit = MaxInt)) =>
    LET request == input.request  body == request.body  limit == input.server.limit
        barred == Barred(input.server, request)
        reached == /\ ~barred
                   /\ request.compressed => body.sound /\ WithinLimit(limit, body.size)
        bound == \/ request.handler = "readsNone"
                 \/ body.value <= body.size /\ WithinLimit(limit, body.value)
    IN  /\ result.outcome # "unreached" <=> reached
        /\ result.outcome = "served" <=> reached /\ bound
        /\ result.status = 0 <=> barred
        /\ ~barred /\ ~reached => result.status \in {400, 413}
        /\ result.status = 500 <=> reached /\ ~bound /\ request.handler = "answersError"

\* Whatever the limit is set to, a request that is not barred, and whose body is sound, holds
\* what its handler wants and is within the limit, is served, compressed or not.
LargestLimitServes ==
  Done("handle") =>
    LET body == input.request.body
    IN  (~Barred(input.server, input.request) /\ body.sound /\ body.value <= body.size
           /\ WithinLimit(input.server.limit, body.size)) => result.outcome = "served"
=============================================================================
