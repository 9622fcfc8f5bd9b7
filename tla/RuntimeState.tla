---------------------------- MODULE RuntimeState ----------------------------
(***************************************************************************)
(* internal/state/runtime.go: what the node remembers of the core for the  *)
(* Panel.  Every operation is one critical section of RuntimeState.mu and  *)
(* is given here as an action fragment; the handlers that call them are in *)
(* XrayLifecycle.  A configuration is the name of the start request that   *)
(* carried it.  SetXrayStarted also empties the users per inbound, which   *)
(* nothing in this model reads, and stores the version of the linked       *)
(* xray-core, a constant of the build.                                     *)
(***************************************************************************)
EXTENDS RestartDecision

CONSTANTS
  Configs,    \* the configurations, by the start request that carried them
  HashLists,  \* the values of Hashes that requests carry
  NoConfig    \* the empty configuration before the first start

ASSUME DistinctConfigs == NoConfig \notin Configs /\ NoHashes \notin HashLists

VARIABLES
  xrayRunning,     \* XrayRunning
  statusCached,    \* XrayInternalStatusCached: what the healthcheck answers
  currentConfig,   \* CurrentConfig
  lastHashes,      \* LastHashes, and HasLastHashes
  protocolsFrom    \* the configurations merged into InboundProtocols

stateVars ==
  <<xrayRunning, statusCached, currentConfig, lastHashes, protocolsFrom>>

StateTypeOK ==
  /\ xrayRunning \in BOOLEAN
  /\ statusCached \in BOOLEAN
  /\ currentConfig \in Configs \cup {NoConfig}
  /\ lastHashes \in HashLists \cup {NoHashes}
  /\ protocolsFrom \in SUBSET Configs

\* NewRuntimeState
StateInit ==
  /\ xrayRunning = FALSE
  /\ statusCached = FALSE
  /\ currentConfig = NoConfig
  /\ lastHashes = NoHashes
  /\ protocolsFrom = {}

-----------------------------------------------------------------------------
\* FAULT: the cached status survives a stop.
SetXrayRunningOnly(running) ==
  /\ xrayRunning' = running
  /\ UNCHANGED <<statusCached, currentConfig, lastHashes, protocolsFrom>>

SetXrayRunning(running) ==
  /\ xrayRunning' = running
  /\ statusCached' = (running /\ statusCached)
  /\ UNCHANGED <<currentConfig, lastHashes, protocolsFrom>>

SetXrayInternalStatusCached(cached) ==
  /\ statusCached' = cached
  /\ xrayRunning' = (cached /\ xrayRunning)
  /\ UNCHANGED <<currentConfig, lastHashes, protocolsFrom>>

\* FAULT: the hashes of the first start are kept.
SetXrayStartedKeepsHashes(config, hashes) ==
  /\ xrayRunning' = TRUE
  /\ statusCached' = TRUE
  /\ currentConfig' = config
  /\ lastHashes' = IF lastHashes = NoHashes THEN hashes ELSE lastHashes
  /\ protocolsFrom' = {}

SetXrayStarted(config, hashes) ==
  /\ xrayRunning' = TRUE
  /\ statusCached' = TRUE
  /\ currentConfig' = config
  /\ lastHashes' = hashes
  /\ protocolsFrom' = {}

SetInboundProtocolsFromConfig(config) ==
  /\ protocolsFrom' = protocolsFrom \cup {config}
  /\ UNCHANGED <<xrayRunning, statusCached, currentConfig, lastHashes>>
=============================================================================
