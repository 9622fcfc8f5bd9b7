------------------------------ MODULE NodeSetup ------------------------------
(***************************************************************************)
(* From the environment to a request: config.Load, DecodeSecretKey and     *)
(* ValidateNodePayload, httpapi.NewServer, and what NewServer puts in      *)
(* front of the router of the main API (TLS, JWT, zstd, body limit).       *)
(*                                                                         *)
(* A variable that is not set, or set to spaces, is Blank, and Malformed   *)
(* when it cannot be parsed; otherwise it is its value.  LongZero is zero, *)
(* but not written "0".  Names (the log level and so on) are lower-cased   *)
(* by the code and are one value here.                                     *)
(* Of the files in SECRET_KEY only what the checks tell apart is kept.     *)
(***************************************************************************)
EXTENDS Integers, FiniteSets

CONSTANTS
  Blank, Malformed, LongZero,
  Refused,             \* an error is returned, and the process ends
  MaxPort, Defaults,   \* the Default... constants
  MaxInt               \* the largest int64

ASSUME SetupAssumption ==
  /\ MaxPort \in Nat /\ MaxInt \in Nat
  /\ Defaults.nodePort # Defaults.internalPort
  /\ {Defaults.nodePort, Defaults.internalPort} \subseteq 1..MaxPort
  /\ Defaults.limit \in Nat /\ Defaults.clientAuth = "mtls"

Ports == {"nodePort", "internalPort"}
Switches == {"requireSecret", "sni"}
Names == {"clientAuth", "logLevel", "logColor"}

-----------------------------------------------------------------------------
\* FAULT: a value that is no port is as good as none.
EnvPortForgiving(raw, fallback) ==
  IF raw \in {Blank, Malformed} THEN fallback
  ELSE IF raw \in 1..MaxPort THEN raw ELSE fallback

EnvPort(raw, fallback) ==
  IF raw = Blank THEN fallback
  ELSE IF raw = Malformed THEN Refused
  ELSE IF raw \in 1..MaxPort THEN raw ELSE Refused

\* What is looked for is the text "0".
EnvOptionalPort(raw) == IF raw = Blank \/ raw = 0 THEN 0 ELSE EnvPort(raw, 0)

EnvNonNegativeInt64(raw, fallback) ==
  IF raw = Blank THEN fallback
  ELSE IF raw = Malformed THEN Refused
  ELSE IF raw = LongZero THEN 0
  ELSE IF raw >= 0 THEN raw ELSE Refused

EnvBool(raw) == IF raw = Blank THEN FALSE ELSE IF raw = Malformed THEN Refused ELSE raw

\* A name is validated after the rest has been read.
EnvName(raw, fallback) == IF raw = Blank THEN fallback ELSE IF raw = Malformed THEN Refused ELSE raw

\* Load; the .env file may be one that cannot be read.
Load(env) ==
  LET cfg == [v \in (DOMAIN env) \ {"dotEnv"} |->
                CASE v \in Ports    -> EnvPort(env[v], Defaults[v])
                  [] v = "hysteria" -> EnvOptionalPort(env[v])
                  [] v = "limit"    -> EnvNonNegativeInt64(env[v], Defaults[v])
                  [] v \in Switches -> EnvBool(env[v])
                  [] v \in Names    -> EnvName(env[v], Defaults[v])
                  [] v = "secret"   -> env[v]]
      acceptable ==
        /\ env.dotEnv # Malformed
        /\ \A v \in DOMAIN cfg : cfg[v] # Refused
        /\ cfg.nodePort # cfg.internalPort
        /\ ~(cfg.requireSecret /\ cfg.secret = Blank)
  IN  IF acceptable THEN cfg ELSE Refused

-----------------------------------------------------------------------------
\* DecodeSecretKey
Decoded(payload) == payload.decodes /\ payload.complete

KeyMatchesCert(payload) == payload.nodeParses /\ payload.keyParses /\ payload.keyMatches

RSAPublicKey(payload) == payload.jwtParses /\ payload.jwtIsRSA

\* The seven checks of ValidateNodePayload, by name; one that needs a certificate
\* that does not parse fails.
Checks(payload) ==
  LET ca == payload.caParses  node == payload.nodeParses
  IN  [caParses |-> ca, caInTime |-> ca /\ payload.caInTime,
       caSelfSigned |-> ca /\ payload.caSelfSigned, nodeParses |-> node,
       nodeSigned |-> ca /\ node /\ payload.nodeSigned,
       keyMatches |-> KeyMatchesCert(payload), jwtIsRSA |-> RSAPublicKey(payload)]

\* FAULT: it is enough that the certificates and the key can be loaded.
AcceptsLoadable(payload) ==
  Decoded(payload) /\ Checks(payload).caParses
    /\ Checks(payload).keyMatches /\ Checks(payload).jwtIsRSA

\* TLSConfigFromSecretWithOptions and ParseJWTPublicKey, which come after the checks, ask
\* for less.
Accepts(payload) ==
  /\ Decoded(payload)
  /\ \A c \in DOMAIN Checks(payload) : Checks(payload)[c]

\* NewServer: the main API as far as it depends on the configuration.
NewServer(cfg) ==
  IF cfg.secret = Blank
  THEN [secure |-> FALSE, clientAuth |-> "none", sni |-> FALSE, limit |-> cfg.limit]
  ELSE IF Accepts(cfg.secret)
  THEN [secure |-> TRUE, clientAuth |-> cfg.clientAuth, sni |-> cfg.sni, limit |-> cfg.limit]
  ELSE Refused

\* main: the server, or the end of the process.
Setup(env) == IF Load(env) = Refused THEN Refused ELSE NewServer(Load(env))

-----------------------------------------------------------------------------
\* tlsClientAuth: a certificate that the CA of the secret has not signed is "foreign";
\* one that is not asked for is not looked at.
ClientAuth(mode, certificate) ==
  CASE mode = "none"     -> TRUE
    [] mode = "optional" -> certificate # "foreign"
    [] OTHER             -> certificate = "trusted"

\* FAULT: the name decides, where there is one, and not the certificate as well.
HandshakeByName(server, request) ==
  IF server.sni THEN request.named ELSE ClientAuth(server.clientAuth, request.certificate)

\* The handshake: named tells whether the client asks for the name that DeriveSNI makes
\* of the secret.
Handshake(server, request) ==
  /\ server.sni => request.named
  /\ ClientAuth(server.clientAuth, request.certificate)

\* JWTMiddleware: a token that was signed with the key of the secret, in RS256.
Authorized(server, request) == server.secure => request.token

\* A body is its size, whether it can be read (decoded) to its end, and the number of its
\* bytes with which the JSON object the handler wants is complete: more than there are if
\* it holds none.  A handler that cannot bind it "answersOK" or "answersError"; one that
\* "readsNone" of it does not ask.
Rejected(status) == [status |-> status, outcome |-> "unreached"]
BindFailed(handler) ==
  [status |-> IF handler = "answersOK" THEN 200 ELSE 500, outcome |-> "failed"]
RunInFull == [status |-> 200, outcome |-> "served"]

\* An int64 wraps around.
Successor(n) == IF n = MaxInt THEN -MaxInt - 1 ELSE n + 1

\* What io.ReadAll gets through an io.LimitReader of that many bytes, which asks for no more.
ReadLimited(body, n) ==
  IF n <= 0 THEN [body EXCEPT !.size = 0, !.sound = TRUE]
  ELSE IF body.size >= n THEN [body EXCEPT !.size = n, !.sound = TRUE]
  ELSE body

\* FAULT: reads no more than the limit, and so never sees that there is more.
ReadWithinLimit(body, limit) == IF limit > 0 THEN ReadLimited(body, limit) ELSE body

ReadDecoded(body, limit) == IF limit > 0 THEN ReadLimited(body, Successor(limit)) ELSE body

\* FAULT: the limit is for bodies that are compressed.
BindsWhatever(body, limit) == body.value <= body.size

\* ginBodyLimit and ShouldBindJSON: http.MaxBytesReader hands over the bytes up to the limit
\* and then an error, which the decoder does not meet if the object ends before.
Binds(body, limit) == body.value <= body.size /\ (limit > 0 => body.value <= limit)

Serve(handler, body, limit) ==
  IF handler = "readsNone" \/ Binds(body, limit) THEN RunInFull ELSE BindFailed(handler)

\* One request through TLS, JWTMiddleware, ZstdMiddlewareWithLimit, ginBodyLimit and the
\* binding of its handler.  A connection that is refused, or closed by JWTMiddleware where
\* it can be, has no status.
Handle(server, request) ==
  IF ~Handshake(server, request) \/ ~Authorized(server, request) THEN Rejected(0)
  ELSE IF ~request.compressed THEN Serve(request.handler, request.body, server.limit)
  ELSE LET read == ReadDecoded(request.body, server.limit)
       IN  IF ~read.sound THEN Rejected(400)
           ELSE IF server.limit > 0 /\ read.size > server.limit THEN Rejected(413)
           ELSE Serve(request.handler, read, server.limit)
=============================================================================
