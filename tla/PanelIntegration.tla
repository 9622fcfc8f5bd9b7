-------------------------- MODULE PanelIntegration --------------------------
(***************************************************************************)
(* The tool that exercises a live Panel: cmd/panel-integration/main.go     *)
(* over internal/testkit/panel_client.go.  It looks a node up, enables or  *)
(* disables it, and polls until the Panel shows the change, a deadline has *)
(* passed, or its context ends.  Its requests and the answers may be lost, *)
(* late or refused; an action the tool has given up on may still be        *)
(* carried out.  The Panel connects to its nodes in its own time, and      *)
(* others use it as well.                                                  *)
(*                                                                         *)
(* Time goes in ticks; what is due is done before the next one.            *)
(***************************************************************************)
EXTENDS Naturals, FiniteSets

CONSTANTS
  Nodes,                    \* the full UUID of a node is the node itself
  Hints, Matches,           \* other values of PANEL_NODE_ID, and the nodes they match
  UnknownNode, NoId,        \* a UUID of no node; PANEL_NODE_ID is not set
  Timeout, Grace,           \* enable-timeout and disable-timeout; what commandTimeout adds
  ClientTimeout,            \* of the HTTP client
  MaxInterval, MaxPaths,    \* bounds of poll-interval and of PANEL_EXTENDED_SMOKE
  MaxMeddling               \* bounds what others do

ASSUME PanelAssumption ==
  /\ {Timeout, Grace, ClientTimeout, MaxInterval, MaxPaths, MaxMeddling} \subseteq Nat
  /\ Matches \in [Hints -> SUBSET Nodes]
  /\ UnknownNode \notin Nodes /\ NoId \notin Nodes
  /\ Hints \cap (Nodes \cup {UnknownNode, NoId}) = {}

Commands == {"smoke", "extended", "node", "enable", "disable"}
Ids == Nodes \cup Hints \cup {UnknownNode, NoId}

VARIABLES
  command, id, interval, paths, configured,   \* how the tool was called
  panel,              \* the Panel: per node, whether it is disabled, and connected
  clock, ctxEnd, deadline, wake,
  pc,                 \* what the tool waits for
  request, sentAt,    \* "none", "underway" or "answered"
  answer,
  stray,              \* an action the tool has given up on is still under way
  code, reason,       \* the exit
  meddled,            \* what others have done
  \* History: the action was carried out; the node has been as wanted since the last
  \* request was sent; the last time at which it was not.
  carried, reached, lastAway

call == <<command, id, interval, paths, configured>>
toolVars == <<clock, ctxEnd, deadline, wake, pc, request, sentAt, answer, code, reason>>
history == <<carried, reached, lastAway>>
vars == <<call, panel, toolVars, stray, meddled, history>>

IsUUID(i) == i \in Nodes \cup {UnknownNode}
Modifies == command \in {"enable", "disable"}
Exited == pc = "exited"

\* FAULT: a node that is connected will do, be it disabled.
WantedIfConnected(node) ==
  IF command = "enable" THEN node.connected ELSE node.disabled

\* What runEnable and runDisable wait for.
Wanted(node) ==
  IF command = "enable" THEN node.connected /\ ~node.disabled ELSE node.disabled

NoAnswer == [ok |-> FALSE, node |-> [disabled |-> FALSE, connected |-> FALSE]]

Init ==
  /\ command \in Commands /\ id \in Ids
  /\ interval \in 0..MaxInterval /\ paths \in 0..MaxPaths /\ configured \in BOOLEAN
  \* what a command does not look at
  /\ (Modifies \/ interval = 0) /\ (command = "extended" \/ paths = 0)
  /\ panel \in [Nodes -> [disabled : BOOLEAN, connected : BOOLEAN]]
  /\ clock = 0 /\ ctxEnd = 0 /\ deadline = 0 /\ wake = 0
  /\ pc = "start" /\ request = "none" /\ sentAt = 0 /\ answer = NoAnswer
  /\ stray = FALSE /\ code = 0 /\ reason = "none" /\ meddled = 0
  /\ carried = FALSE /\ reached = FALSE /\ lastAway = 0

\* The history speaks of the node that was asked for, until the tool ends; it has a
\* definition of its own of what the commands are for.
AsWanted(node) ==
  IF command = "enable" THEN node.connected /\ ~node.disabled ELSE node.disabled

Observe ==
  IF id \in Nodes /\ ~Exited
  THEN /\ reached' = (reached \/ AsWanted(panel'[id]))
       /\ lastAway' = IF AsWanted(panel'[id]) THEN lastAway ELSE clock'
  ELSE UNCHANGED <<reached, lastAway>>

-----------------------------------------------------------------------------
\* The tool.
Exit(c, why) == pc' = "exited" /\ code' = c /\ reason' = why

\* Client.Do: the request is made; what comes of it is up to the network.
SendFor(step) ==
  /\ pc' = step /\ request' = "underway" /\ sentAt' = clock /\ answer' = NoAnswer
  /\ reached' = (id \in Nodes /\ AsWanted(panel[id]))

Idle == request' = "none" /\ sentAt' = 0 /\ answer' = NoAnswer

\* run: no PANEL_BASE_URL, no PANEL_API_KEY, flags that do not parse, and so on.
RefuseUsage ==
  /\ pc = "start" /\ ~configured
  /\ Exit(2, "usage")
  /\ UNCHANGED <<call, panel, clock, ctxEnd, deadline, wake, request, sentAt, answer, stray, meddled, history>>

\* runNode, runEnable and runDisable, before they send anything.
Accepted ==
  CASE command \in {"enable", "disable"} -> IsUUID(id) /\ interval > 0
    [] command = "node" -> id # NoId
    [] OTHER -> TRUE

RefuseCall ==
  /\ pc = "start" /\ configured /\ ~Accepted
  /\ Exit(1, "usage")
  /\ UNCHANGED <<call, panel, clock, ctxEnd, deadline, wake, request, sentAt, answer, stray, meddled, history>>

CommandTimeout ==
  CASE command \in {"enable", "disable"} -> Timeout + Grace
    [] command = "extended" -> 4 * Grace
    [] OTHER -> Grace

FirstStep ==
  CASE command \in {"enable", "disable"} -> "resolve"
    [] command = "node" -> "lookup"
    [] OTHER -> "smoke"

Begin ==
  /\ pc = "start" /\ configured /\ Accepted
  /\ ~(command = "extended" /\ paths = 0)
  /\ ctxEnd' = clock + CommandTimeout
  /\ SendFor(FirstStep)
  /\ UNCHANGED <<call, panel, clock, deadline, wake, code, reason, stray, meddled, carried, lastAway>>

\* runExtendedSmoke without usable paths
SkipSmoke ==
  /\ pc = "start" /\ configured /\ command = "extended" /\ paths = 0
  /\ Exit(0, "skipped")
  /\ UNCHANGED <<call, panel, clock, ctxEnd, deadline, wake, request, sentAt, answer, stray, meddled, history>>

Received == request = "answered" /\ answer.ok

\* Every error of a request ends the command: a status other than 2xx, a body that
\* cannot be read or decoded, or that lacks the fields of a node.
ReceiveError ==
  /\ request = "answered" /\ ~answer.ok
  /\ Exit(1, "request") /\ Idle
  /\ UNCHANGED <<call, panel, clock, ctxEnd, deadline, wake, stray, meddled, history>>

\* runSmoke
SmokeAnswered ==
  /\ pc = "smoke" /\ command = "smoke" /\ Received
  /\ Exit(0, "done") /\ Idle
  /\ UNCHANGED <<call, panel, clock, ctxEnd, deadline, wake, stray, meddled, history>>

\* The loop of runExtendedSmoke.
NextPath ==
  /\ pc = "smoke" /\ command = "extended" /\ Received
  /\ IF paths > 1
     THEN paths' = paths - 1 /\ SendFor("smoke") /\ UNCHANGED <<code, reason>>
     ELSE Exit(0, "done") /\ Idle /\ UNCHANGED <<paths, reached>>
  /\ UNCHANGED <<command, id, interval, configured, panel, clock, ctxEnd, deadline, wake, stray, meddled, carried, lastAway>>

\* GetNodeStatusSummaryByHint
Matched == Cardinality(Matches[id]) = 1

LookedUp ==
  /\ pc = "lookup" /\ Received
  /\ IF IsUUID(id) \/ Matched THEN Exit(0, "done") ELSE Exit(1, "noMatch")
  /\ Idle
  /\ UNCHANGED <<call, panel, clock, ctxEnd, deadline, wake, stray, meddled, history>>

Resolved ==
  /\ pc = "resolve" /\ Received
  /\ SendFor("act")
  /\ UNCHANGED <<call, panel, clock, ctxEnd, deadline, wake, code, reason, stray, meddled, carried, lastAway>>

Acted ==
  /\ pc = "act" /\ Received
  /\ deadline' = clock + Timeout
  /\ SendFor("poll")
  /\ UNCHANGED <<call, panel, clock, ctxEnd, wake, code, reason, stray, meddled, carried, lastAway>>

\* FAULT: the deadline is looked at before the answer.
PolledLate ==
  /\ pc = "poll" /\ Received
  /\ Idle
  /\ \/ /\ clock > deadline /\ Exit(1, "notReached") /\ UNCHANGED wake
     \/ /\ clock <= deadline /\ Wanted(answer.node) /\ Exit(0, "done") /\ UNCHANGED wake
     \/ /\ clock <= deadline /\ ~Wanted(answer.node)
        /\ pc' = "sleep" /\ wake' = clock + interval /\ UNCHANGED <<code, reason>>
  /\ UNCHANGED <<call, panel, clock, ctxEnd, deadline, stray, meddled, history>>

\* One round of waitForNode.
Polled ==
  /\ pc = "poll" /\ Received
  /\ Idle
  /\ \/ /\ Wanted(answer.node) /\ Exit(0, "done") /\ UNCHANGED wake
     \/ /\ ~Wanted(answer.node) /\ clock > deadline
        /\ Exit(1, "notReached") /\ UNCHANGED wake
     \/ /\ ~Wanted(answer.node) /\ clock <= deadline
        /\ pc' = "sleep" /\ wake' = clock + interval /\ UNCHANGED <<code, reason>>
  /\ UNCHANGED <<call, panel, clock, ctxEnd, deadline, stray, meddled, history>>

PollAgain ==
  /\ pc = "sleep" /\ clock >= wake
  /\ SendFor("poll")
  /\ UNCHANGED <<call, panel, clock, ctxEnd, deadline, wake, code, reason, stray, meddled, carried, lastAway>>

ContextEnds ==
  /\ pc = "sleep" /\ clock >= ctxEnd
  /\ Exit(1, "notReached") /\ Idle
  /\ UNCHANGED <<call, panel, clock, ctxEnd, deadline, wake, stray, meddled, history>>

\* The error of a request that never got an answer; the Panel may still get it.
RequestFails ==
  /\ Exit(1, "request") /\ Idle
  /\ stray' = (stray \/ (pc = "act" /\ request = "underway"))
  /\ UNCHANGED <<call, panel, clock, ctxEnd, deadline, wake, meddled, history>>

\* FAULT: only the client's own timeout counts, and there is none.
GiveUpNever == FALSE /\ UNCHANGED vars

\* The timeout of the client, or the end of the context.
GiveUp ==
  /\ request # "none" /\ (clock >= sentAt + ClientTimeout \/ clock >= ctxEnd)
  /\ RequestFails

-----------------------------------------------------------------------------
\* The network and the Panel.
ConnectionBreaks == request # "none" /\ RequestFails

Target == IF id \in Nodes THEN id ELSE CHOOSE n \in Nodes : TRUE

CarryOut(n) ==
  /\ panel' = [panel EXCEPT ![n].disabled = (command = "disable")]
  /\ carried' = TRUE

\* The Panel handles the request and answers it; it knows no UnknownNode.
Serve ==
  /\ request = "underway"
  /\ IF pc = "act" THEN CarryOut(Target) ELSE UNCHANGED <<panel, carried>>
  /\ request' = "answered"
  /\ answer' = [ok |-> pc = "smoke" \/ id # UnknownNode, node |-> panel'[Target]]
  /\ UNCHANGED <<call, clock, ctxEnd, deadline, wake, pc, sentAt, code, reason, stray, meddled>>
  /\ Observe

\* An error status; an action may have been carried out all the same.
ServeBadly ==
  /\ request = "underway"
  /\ \/ pc = "act" /\ CarryOut(Target)
     \/ UNCHANGED <<panel, carried>>
  /\ request' = "answered" /\ answer' = NoAnswer
  /\ UNCHANGED <<call, clock, ctxEnd, deadline, wake, pc, sentAt, code, reason, stray, meddled>>
  /\ Observe

StrayArrives ==
  /\ stray /\ stray' = FALSE
  /\ CarryOut(Target)
  /\ UNCHANGED <<call, toolVars, meddled>>
  /\ Observe

\* The Panel connects to a node that is not disabled; a connection ends at any time.
LinkChanges(n) ==
  /\ ~Exited
  /\ ~panel[n].connected => ~panel[n].disabled
  /\ panel' = [panel EXCEPT ![n].connected = ~@]
  /\ UNCHANGED <<call, toolVars, stray, meddled, carried>>
  /\ Observe

\* Somebody else enables or disables a node.
Meddle(n) ==
  /\ ~Exited /\ meddled < MaxMeddling
  /\ meddled' = meddled + 1
  /\ panel' = [panel EXCEPT ![n].disabled = ~@]
  /\ UNCHANGED <<call, toolVars, stray, carried>>
  /\ Observe

\* Something that the tool does in no time.
Due ==
  \/ pc = "start"
  \/ pc = "sleep" /\ (clock >= wake \/ clock >= ctxEnd)
  \/ request # "none" /\ (clock >= sentAt + ClientTimeout \/ clock >= ctxEnd)

Tick ==
  /\ ~Exited /\ ~Due
  /\ clock' = clock + 1
  /\ UNCHANGED <<panel, carried>>
  /\ UNCHANGED <<call, ctxEnd, deadline, wake, pc, request, sentAt, answer, code, reason, stray, meddled>>
  /\ Observe

-----------------------------------------------------------------------------
ToolStep ==
  \/ RefuseUsage \/ RefuseCall \/ Begin \/ SkipSmoke
  \/ ReceiveError \/ SmokeAnswered \/ NextPath \/ LookedUp \/ Resolved \/ Acted \/ Polled
  \/ PollAgain \/ ContextEnds \/ GiveUp

Next ==
  \/ ToolStep
  \/ ConnectionBreaks \/ Serve \/ ServeBadly \/ StrayArrives
  \/ \E n \in Nodes : LinkChanges(n) \/ Meddle(n)
  \/ Tick

Spec == Init /\ [][Next]_vars

\* The tool is scheduled and time passes; nobody has to answer.
FairSpec == Spec /\ WF_vars(ToolStep) /\ WF_vars(Tick)

-----------------------------------------------------------------------------
\* The tool tells of a success only if it had the action carried out, and the Panel had
\* the node as wanted at some moment of the last poll, whoever else enables or disables
\* nodes and whatever was under way before.
SuccessIsTrue == Exited /\ code = 0 /\ Modifies => carried /\ reached

\* The tool gives up waiting only for a node that was not as wanted within the last
\* interval and request: one that got there in time is not missed.
NotGivenUpOnSuccess ==
  reason = "notReached" /\ id \in Nodes => clock <= lastAway + interval + ClientTimeout

\* The tool ends whatever the Panel and the network do, or fail to do.
ToolEnds == <>Exited
=============================================================================
