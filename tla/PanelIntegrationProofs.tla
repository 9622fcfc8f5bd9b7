----------------------- MODULE PanelIntegrationProofs -----------------------
(***************************************************************************)
(* What the Panel integration tool answers is true, for any timeouts, poll *)
(* interval, nodes and meddling of others.                                 *)
(***************************************************************************)
EXTENDS PanelIntegration, TLAPS

Labels == {"start", "smoke", "lookup", "resolve", "act", "poll", "sleep", "exited"}

NodeState == [disabled : BOOLEAN, connected : BOOLEAN]

PanelTypeOK ==
  /\ command \in Commands /\ id \in Ids
  /\ interval \in Nat /\ paths \in Nat /\ configured \in BOOLEAN
  /\ panel \in [Nodes -> NodeState]
  /\ clock \in Nat /\ ctxEnd \in Nat /\ deadline \in Nat /\ wake \in Nat
  /\ pc \in Labels
  /\ request \in {"none", "underway", "answered"} /\ sentAt \in Nat
  /\ answer.ok \in BOOLEAN /\ (id \in Nodes => answer.node \in NodeState)
  /\ stray \in BOOLEAN /\ meddled \in 0..MaxMeddling
  /\ code \in 0..2 /\ reason \in {"none", "usage", "skipped", "request", "done", "noMatch", "notReached"}
  /\ carried \in BOOLEAN /\ reached \in BOOLEAN /\ lastAway \in Nat

\* What the labels say of the call: a request is under way or answered exactly at those
\* that wait for one, an answer to a command that modifies tells of an existing node.
StageInv ==
  /\ request # "none" <=> pc \in {"smoke", "lookup", "resolve", "act", "poll"}
  /\ pc \in {"resolve", "act", "poll", "sleep"} => Modifies /\ IsUUID(id)
  /\ pc \in {"smoke", "lookup"} => ~Modifies
  /\ Received /\ Modifies => id \in Nodes
  /\ reason # "none" => Exited

\* The tool polls only after an action that was carried out, and an answer that has the
\* node as wanted was true of the Panel after the request was sent.
PollInv ==
  /\ pc = "act" /\ Received => carried
  /\ pc \in {"poll", "sleep"} => carried
  /\ pc = "poll" /\ Received /\ Wanted(answer.node) => reached
  /\ SuccessIsTrue

\* No request outlives the client's timeout and no sleep its wake, so the node was last
\* away from what is wanted no earlier than the poll, or the poll before the sleep, was sent.
AwayInv ==
  /\ lastAway <= clock
  /\ request # "none" => sentAt <= clock /\ clock <= sentAt + ClientTimeout
  /\ pc = "poll" /\ Received /\ ~Wanted(answer.node) => sentAt <= lastAway
  /\ pc = "sleep" => clock <= wake /\ wake <= lastAway + interval + ClientTimeout
  /\ NotGivenUpOnSuccess

PanelInv == PanelTypeOK /\ StageInv /\ PollInv /\ AwayInv

-----------------------------------------------------------------------------
LEMMA Bounds ==
  /\ Timeout \in Nat /\ Grace \in Nat /\ ClientTimeout \in Nat
  /\ MaxInterval \in Nat /\ MaxPaths \in Nat /\ MaxMeddling \in Nat
  BY PanelAssumption

\* The two definitions of what a command is for, the tool's and the history's, agree.
LEMMA WantedIs == \A node : Wanted(node) <=> AsWanted(node)
  BY DEF Wanted, AsWanted

LEMMA TheTarget == id \in Nodes => Target = id
  BY DEF Target

\* An action changes no more than whether its node is disabled.
LEMMA CarriedOut ==
  ASSUME panel \in [Nodes -> NodeState], NEW n, CarryOut(n)
  PROVE  panel' \in [Nodes -> NodeState] /\ carried' = TRUE
<1>1. CASE n \in Nodes
  <2>1. [panel[n] EXCEPT !.disabled = (command = "disable")] \in NodeState
    BY <1>1 DEF NodeState
  <2> QED BY <1>1, <2>1 DEF CarryOut
<1>2. CASE n \notin Nodes
  BY <1>2 DEF CarryOut
<1> QED BY <1>1, <1>2

\* What the history makes of a step that takes no time, or a tick.
LEMMA Observed ==
  ASSUME PanelTypeOK, AwayInv, Observe, clock' \in {clock, clock + 1},
         panel' \in [Nodes -> NodeState]
  PROVE  /\ reached' \in BOOLEAN /\ lastAway' \in Nat
         /\ reached => reached'
         /\ lastAway <= lastAway' /\ lastAway' <= clock'
         /\ id \in Nodes /\ ~Exited =>
              /\ AsWanted(panel'[id]) => reached'
              /\ ~AsWanted(panel'[id]) => lastAway' = clock'
<1>1. lastAway \in Nat /\ clock \in Nat /\ lastAway <= clock /\ reached \in BOOLEAN
  BY DEF PanelTypeOK, AwayInv
<1>2. CASE id \in Nodes /\ ~Exited
  <2> DEFINE b == AsWanted(panel'[id])
  <2>1. b \in BOOLEAN
    BY <1>2 DEF AsWanted, NodeState
  <2>2. reached' = (reached \/ b) /\ lastAway' = IF b THEN lastAway ELSE clock'
    BY <1>2 DEF Observe
  <2> HIDE DEF b
  <2>3. /\ reached' \in BOOLEAN /\ (reached => reached') /\ (b => reached')
        /\ b => lastAway' = lastAway
        /\ ~b => lastAway' = clock'
    BY <1>1, <2>1, <2>2
  <2>4. lastAway' \in Nat /\ lastAway <= lastAway' /\ lastAway' <= clock'
    BY <1>1, <2>1, <2>3
  <2> QED BY <2>3, <2>4 DEF b
<1>3. CASE ~(id \in Nodes /\ ~Exited)
  BY <1>1, <1>3 DEF Observe
<1> QED BY <1>2, <1>3

\* Sending a request.
LEMMA Sent ==
  ASSUME PanelTypeOK, NEW step, SendFor(step)
  PROVE  /\ pc' = step /\ request' = "underway" /\ sentAt' = clock
         /\ answer'.ok = FALSE /\ answer'.node \in NodeState /\ answer'.ok \in BOOLEAN
         /\ reached' \in BOOLEAN
<1>1. reached' \in BOOLEAN
  BY DEF SendFor, AsWanted
<1> QED BY <1>1 DEF SendFor, NoAnswer, NodeState

LEMMA Idles ==
  ASSUME Idle
  PROVE  /\ request' = "none" /\ sentAt' = 0
         /\ answer'.ok = FALSE /\ answer'.node \in NodeState /\ answer'.ok \in BOOLEAN
  BY DEF Idle, NoAnswer, NodeState

\* A bound on how long ago the node was away stays when it is away again.
LEMMA Later ==
  ASSUME NEW x \in Nat, NEW a \in Nat, NEW b \in Nat, NEW i \in Nat, NEW c \in Nat,
         x <= a + i + c, a <= b
  PROVE  x <= b + i + c
  OBVIOUS

-----------------------------------------------------------------------------
LEMMA PanelStarts == Init => PanelInv
<1> SUFFICES ASSUME Init PROVE PanelInv
  OBVIOUS
<1>1. PanelTypeOK
  <2>1. /\ command \in Commands /\ id \in Ids /\ configured \in BOOLEAN
        /\ panel \in [Nodes -> NodeState]
    BY DEF Init, NodeState
  <2>2. interval \in Nat /\ paths \in Nat /\ meddled \in 0..MaxMeddling
    BY Bounds DEF Init
  <2>3. /\ clock \in Nat /\ ctxEnd \in Nat /\ deadline \in Nat /\ wake \in Nat
        /\ pc \in Labels /\ sentAt \in Nat /\ lastAway \in Nat /\ code \in 0..2
    BY DEF Init, Labels
  <2>4. answer.ok \in BOOLEAN /\ answer.node \in NodeState
    BY DEF Init, NoAnswer, NodeState
  <2>5. /\ request = "none" /\ reason = "none"
        /\ stray \in BOOLEAN /\ carried \in BOOLEAN /\ reached \in BOOLEAN
    BY DEF Init
  <2> QED BY <2>1, <2>2, <2>3, <2>4, <2>5 DEF PanelTypeOK
<1>2. StageInv
  BY DEF Init, StageInv, Received, Exited
<1>3. PollInv
  BY DEF Init, PollInv, SuccessIsTrue, Exited
<1>4. AwayInv
  BY DEF Init, AwayInv, NotGivenUpOnSuccess
<1> QED BY <1>1, <1>2, <1>3, <1>4 DEF PanelInv

\* Every step keeps the types.
LEMMA PanelTypeStep == PanelInv /\ [Next]_vars => PanelTypeOK'
<1> SUFFICES ASSUME PanelInv, [Next]_vars PROVE PanelTypeOK'
  OBVIOUS
<1>t. PanelTypeOK /\ AwayInv
  BY DEF PanelInv
<1> USE <1>t DEF PanelTypeOK
<1>1. CASE RefuseUsage
  BY <1>1 DEF RefuseUsage, Exit, Labels, call, history
<1>2. CASE RefuseCall
  BY <1>2 DEF RefuseCall, Exit, Labels, call, history
<1>3. CASE Begin
  <2>1. ctxEnd' \in Nat
    BY <1>3, Bounds DEF Begin, CommandTimeout
  <2>2. SendFor(FirstStep) /\ FirstStep \in {"resolve", "lookup", "smoke"}
    BY <1>3 DEF Begin, FirstStep
  <2> QED BY <1>3, <2>1, <2>2, Sent DEF Begin, Labels, call
<1>4. CASE SkipSmoke
  BY <1>4 DEF SkipSmoke, Exit, Labels, call, history
<1>5. CASE ReceiveError
  BY <1>5, Idles DEF ReceiveError, Exit, Labels, call, history
<1>6. CASE SmokeAnswered
  BY <1>6, Idles DEF SmokeAnswered, Exit, Labels, call, history
<1>7. CASE NextPath
  <2>1. CASE paths > 1
    <3>1. paths' \in Nat /\ SendFor("smoke") /\ UNCHANGED <<code, reason>>
      BY <1>7, <2>1 DEF NextPath
    <3> QED BY <1>7, <3>1, Sent DEF NextPath, Labels
  <2>2. CASE ~(paths > 1)
    BY <1>7, <2>2, Idles DEF NextPath, Exit, Labels
  <2> QED BY <2>1, <2>2
<1>8. CASE LookedUp
  BY <1>8, Idles DEF LookedUp, Exit, Labels, call, history
<1>9. CASE Resolved
  BY <1>9, Sent, Bounds DEF Resolved, FirstStep, CommandTimeout, Labels, call
<1>10. CASE Acted
  <2>1. deadline' \in Nat
    BY <1>10, Bounds DEF Acted
  <2>2. SendFor("poll")
    BY <1>10 DEF Acted
  <2> QED BY <1>10, <2>1, <2>2, Sent DEF Acted, Labels, call
<1>11. CASE Polled
  BY <1>11, Idles DEF Polled, Exit, Labels, call, history
<1>12. CASE PollAgain
  BY <1>12, Sent, Bounds DEF PollAgain, FirstStep, CommandTimeout, Labels, call
<1>13. CASE ContextEnds
  BY <1>13, Idles DEF ContextEnds, Exit, Labels, call, history
<1>14. CASE GiveUp
  BY <1>14, Idles DEF GiveUp, RequestFails, Exit, Labels, call, history
<1>15. CASE ConnectionBreaks
  BY <1>15, Idles DEF ConnectionBreaks, RequestFails, Exit, Labels, call, history
<1>16. CASE Serve
  <2>1. panel' \in [Nodes -> NodeState] /\ carried' \in BOOLEAN
    BY <1>16, CarriedOut DEF Serve
  <2>2. reached' \in BOOLEAN /\ lastAway' \in Nat
    BY <1>16, <2>1, Observed DEF Serve
  <2>3. answer'.ok \in BOOLEAN /\ (id \in Nodes => answer'.node \in NodeState)
    BY <1>16, <2>1, TheTarget DEF Serve
  <2> QED BY <1>16, <2>1, <2>2, <2>3 DEF Serve, Labels, call
<1>17. CASE ServeBadly
  <2>1. panel' \in [Nodes -> NodeState] /\ carried' \in BOOLEAN
    BY <1>17, CarriedOut DEF ServeBadly
  <2>2. reached' \in BOOLEAN /\ lastAway' \in Nat
    BY <1>17, <2>1, Observed DEF ServeBadly
  <2>3. answer'.ok \in BOOLEAN /\ answer'.node \in NodeState
    BY <1>17 DEF ServeBadly, NoAnswer, NodeState
  <2> QED BY <1>17, <2>1, <2>2, <2>3 DEF ServeBadly, Labels, call
<1>18. CASE StrayArrives
  <2>1. panel' \in [Nodes -> NodeState] /\ carried' \in BOOLEAN
    BY <1>18, CarriedOut DEF StrayArrives
  <2>2. reached' \in BOOLEAN /\ lastAway' \in Nat
    BY <1>18, <2>1, Observed DEF StrayArrives, toolVars
  <2> QED BY <1>18, <2>1, <2>2 DEF StrayArrives, Labels, call, toolVars
<1>19. ASSUME NEW n \in Nodes, LinkChanges(n) PROVE PanelTypeOK'
  <2>1. panel' \in [Nodes -> NodeState] /\ carried' \in BOOLEAN
    BY <1>19 DEF LinkChanges, NodeState
  <2>2. reached' \in BOOLEAN /\ lastAway' \in Nat
    BY <1>19, <2>1, Observed DEF LinkChanges, toolVars
  <2> QED BY <1>19, <2>1, <2>2 DEF LinkChanges, Labels, call, toolVars
<1>20. ASSUME NEW n \in Nodes, Meddle(n) PROVE PanelTypeOK'
  <2>1. panel' \in [Nodes -> NodeState] /\ carried' \in BOOLEAN
    BY <1>20 DEF Meddle, NodeState
  <2>2. reached' \in BOOLEAN /\ lastAway' \in Nat
    BY <1>20, <2>1, Observed DEF Meddle, toolVars
  <2>3. meddled' \in 0..MaxMeddling
    BY <1>20, Bounds DEF Meddle
  <2> QED BY <1>20, <2>1, <2>2, <2>3 DEF Meddle, Labels, call, toolVars
<1>21. CASE Tick
  <2>1. reached' \in BOOLEAN /\ lastAway' \in Nat
    BY <1>21, Observed DEF Tick
  <2> QED BY <1>21, <2>1 DEF Tick, call
<1>22. CASE UNCHANGED vars
  BY <1>22 DEF vars, call, toolVars, history
<1> QED
  BY <1>1, <1>2, <1>3, <1>4, <1>5, <1>6, <1>7, <1>8, <1>9, <1>10, <1>11,
      <1>12, <1>13, <1>14, <1>15, <1>16, <1>17, <1>18, <1>19, <1>20, <1>21, <1>22
  DEF Next, ToolStep

\* What the labels say of the call holds after every step.
LEMMA StageStep == PanelInv /\ [Next]_vars => StageInv'
<1> SUFFICES ASSUME PanelInv, [Next]_vars PROVE StageInv'
  OBVIOUS
<1>t. PanelTypeOK /\ StageInv /\ request \in {"none", "underway", "answered"} /\ pc \in Labels
  BY DEF PanelInv, PanelTypeOK
<1> USE <1>t DEF StageInv, Received, Modifies, IsUUID, Labels, Exited
<1>1. CASE RefuseUsage
  BY <1>1 DEF RefuseUsage, Exit, call, history
<1>2. CASE RefuseCall
  BY <1>2 DEF RefuseCall, Exit, call, history
<1>3. CASE Begin
  BY <1>3 DEF Begin, SendFor, NoAnswer, FirstStep, Accepted, call
<1>4. CASE SkipSmoke
  BY <1>4 DEF SkipSmoke, Exit, call, history
<1>5. CASE ReceiveError
  BY <1>5, Idles DEF ReceiveError, Exit, call, history
<1>6. CASE SmokeAnswered
  BY <1>6, Idles DEF SmokeAnswered, Exit, call, history
<1>7. CASE NextPath
  <2>1. CASE paths > 1
    BY <1>7, <2>1 DEF NextPath, SendFor, NoAnswer
  <2>2. CASE ~(paths > 1)
    BY <1>7, <2>2, Idles DEF NextPath, Exit
  <2> QED BY <2>1, <2>2
<1>8. CASE LookedUp
  BY <1>8, Idles DEF LookedUp, Exit, call, history
<1>9. CASE Resolved
  BY <1>9 DEF Resolved, SendFor, NoAnswer, call
<1>10. CASE Acted
  BY <1>10 DEF Acted, SendFor, NoAnswer, call
<1>11. CASE Polled
  BY <1>11, Idles DEF Polled, Exit, call, history
<1>12. CASE PollAgain
  BY <1>12 DEF PollAgain, SendFor, NoAnswer, call
<1>13. CASE ContextEnds
  BY <1>13, Idles DEF ContextEnds, Exit, call, history
<1>14. CASE GiveUp
  BY <1>14, Idles DEF GiveUp, RequestFails, Exit, call, history
<1>15. CASE ConnectionBreaks
  BY <1>15, Idles DEF ConnectionBreaks, RequestFails, Exit, call, history
<1>16. CASE Serve
  <2>1. pc \in {"smoke", "lookup", "resolve", "act", "poll"}
    BY <1>16 DEF Serve
  <2>2. Modifies /\ id # UnknownNode /\ pc # "smoke" => id \in Nodes
    BY <2>1
  <2> QED BY <1>16, <2>1, <2>2 DEF Serve, call
<1>17. CASE ServeBadly
  BY <1>17 DEF ServeBadly, NoAnswer, call
<1>18. CASE StrayArrives
  BY <1>18 DEF StrayArrives, call, toolVars
<1>19. ASSUME NEW n \in Nodes, LinkChanges(n) PROVE StageInv'
  BY <1>19 DEF LinkChanges, call, toolVars
<1>20. ASSUME NEW n \in Nodes, Meddle(n) PROVE StageInv'
  BY <1>20 DEF Meddle, call, toolVars
<1>21. CASE Tick
  BY <1>21 DEF Tick, call
<1>22. CASE UNCHANGED vars
  BY <1>22 DEF vars, call, toolVars, history
<1> QED
  BY <1>1, <1>2, <1>3, <1>4, <1>5, <1>6, <1>7, <1>8, <1>9, <1>10, <1>11,
      <1>12, <1>13, <1>14, <1>15, <1>16, <1>17, <1>18, <1>19, <1>20, <1>21, <1>22
  DEF Next, ToolStep

\* What the labels say, spelled out for the steps of a poll.
LEMMA StageFacts ==
  ASSUME StageInv
  PROVE  /\ request # "none" <=> pc \in {"smoke", "lookup", "resolve", "act", "poll"}
         /\ pc \in {"smoke", "lookup"} => ~Modifies
         /\ pc \in {"poll", "sleep"} => Modifies
         /\ pc = "poll" /\ request = "answered" /\ answer.ok => id \in Nodes
         /\ pc = "poll" /\ id # UnknownNode => id \in Nodes
         /\ pc = "sleep" => request = "none"
  BY DEF StageInv, Received, IsUUID, Modifies

\* What the history makes of a step, in the tool's own terms.
LEMMA Witnessed ==
  ASSUME PanelInv, [Next]_vars, Observe, clock' \in {clock, clock + 1}
  PROVE  /\ reached => reached'
         /\ lastAway <= lastAway' /\ lastAway' <= clock' /\ lastAway' \in Nat
         /\ id \in Nodes /\ ~Exited =>
              /\ Wanted(panel'[id]) => reached'
              /\ ~Wanted(panel'[id]) => lastAway' = clock'
<1>1. panel' \in [Nodes -> NodeState]
  BY PanelTypeStep DEF PanelTypeOK
<1>2. PanelTypeOK /\ AwayInv
  BY DEF PanelInv
<1> QED BY <1>1, <1>2, Observed, WantedIs

\* What the tool knows of the action and of the node holds after every step.
LEMMA PollStep == PanelInv /\ [Next]_vars => PollInv'
<1> SUFFICES ASSUME PanelInv, [Next]_vars PROVE PollInv'
  OBVIOUS
<1>t. PanelTypeOK /\ StageInv /\ PollInv /\ AwayInv
  BY DEF PanelInv
<1>p. /\ request # "none" <=> pc \in {"smoke", "lookup", "resolve", "act", "poll"}
      /\ pc \in {"smoke", "lookup"} => ~Modifies
      /\ pc \in {"poll", "sleep"} => Modifies
      /\ pc = "poll" /\ request = "answered" /\ answer.ok => id \in Nodes
      /\ pc = "poll" /\ id # UnknownNode => id \in Nodes
      /\ pc = "sleep" => request = "none"
  BY <1>t, StageFacts
<1>o. ASSUME Observe, clock' \in {clock, clock + 1}
      PROVE  /\ reached => reached'
             /\ lastAway <= lastAway' /\ lastAway' <= clock' /\ lastAway' \in Nat
             /\ id \in Nodes /\ ~Exited =>
                  /\ Wanted(panel'[id]) => reached'
                  /\ ~Wanted(panel'[id]) => lastAway' = clock'
  BY <1>o, Witnessed
<1> USE <1>t, <1>p DEF PollInv, SuccessIsTrue, Exited, Received, Modifies, Wanted
<1>1. CASE RefuseUsage
  BY <1>1 DEF RefuseUsage, Exit, call, history
<1>2. CASE RefuseCall
  BY <1>2 DEF RefuseCall, Exit, call, history
<1>3. CASE Begin
  BY <1>3 DEF Begin, SendFor, NoAnswer, FirstStep, Accepted, call
<1>4. CASE SkipSmoke
  BY <1>4 DEF SkipSmoke, Exit, call, history
<1>5. CASE ReceiveError
  BY <1>5, Idles DEF ReceiveError, Exit, call, history
<1>6. CASE SmokeAnswered
  BY <1>6, Idles DEF SmokeAnswered, Exit, call, history
<1>7. CASE NextPath
  <2>1. CASE paths > 1
    BY <1>7, <2>1 DEF NextPath, SendFor, NoAnswer
  <2>2. CASE ~(paths > 1)
    BY <1>7, <2>2, Idles DEF NextPath, Exit
  <2> QED BY <2>1, <2>2
<1>8. CASE LookedUp
  BY <1>8, Idles DEF LookedUp, Exit, call, history
<1>9. CASE Resolved
  BY <1>9 DEF Resolved, SendFor, NoAnswer, call
<1>10. CASE Acted
  BY <1>10 DEF Acted, SendFor, NoAnswer, call
<1>11. CASE Polled
  BY <1>11, Idles DEF Polled, Exit, call, history
<1>12. CASE PollAgain
  BY <1>12 DEF PollAgain, SendFor, NoAnswer, call
<1>13. CASE ContextEnds
  BY <1>13, Idles DEF ContextEnds, Exit, call, history
<1>14. CASE GiveUp
  BY <1>14, Idles DEF GiveUp, RequestFails, Exit, call, history
<1>15. CASE ConnectionBreaks
  BY <1>15, Idles DEF ConnectionBreaks, RequestFails, Exit, call, history
<1>16. CASE Serve
  <2>1. Observe /\ clock' = clock
    BY <1>16 DEF Serve
  <2>2. reached => reached'
    BY <2>1, <1>o
  <2>3. pc = "poll" /\ answer'.ok /\ Wanted(answer'.node) => reached'
    BY <1>16, <2>1, <1>o, TheTarget DEF Serve
  <2> QED BY <1>16, <2>2, <2>3 DEF Serve, CarryOut, call
<1>17. CASE ServeBadly
  <2>1. Observe /\ clock' = clock
    BY <1>17 DEF ServeBadly
  <2>2. reached => reached'
    BY <2>1, <1>o
  <2> QED BY <1>17, <2>2 DEF ServeBadly, CarryOut, NoAnswer, call
<1>18. CASE StrayArrives
  <2>1. Observe /\ clock' = clock
    BY <1>18 DEF StrayArrives, toolVars
  <2>2. reached => reached'
    BY <2>1, <1>o
  <2> QED BY <1>18, <2>2 DEF StrayArrives, CarryOut, toolVars, call
<1>19. ASSUME NEW n \in Nodes, LinkChanges(n) PROVE PollInv'
  <2>1. Observe /\ clock' = clock
    BY <1>19 DEF LinkChanges, toolVars
  <2>2. reached => reached'
    BY <2>1, <1>o
  <2> QED BY <1>19, <2>2 DEF LinkChanges, toolVars, call
<1>20. ASSUME NEW n \in Nodes, Meddle(n) PROVE PollInv'
  <2>1. Observe /\ clock' = clock
    BY <1>20 DEF Meddle, toolVars
  <2>2. reached => reached'
    BY <2>1, <1>o
  <2> QED BY <1>20, <2>2 DEF Meddle, toolVars, call
<1>21. CASE Tick
  <2>1. Observe /\ clock' = clock + 1
    BY <1>21 DEF Tick
  <2>2. reached => reached'
    BY <2>1, <1>o
  <2> QED BY <1>21, <2>2 DEF Tick, call
<1>22. CASE UNCHANGED vars
  BY <1>22 DEF vars, call, toolVars, history
<1> QED
  BY <1>1, <1>2, <1>3, <1>4, <1>5, <1>6, <1>7, <1>8, <1>9, <1>10, <1>11,
      <1>12, <1>13, <1>14, <1>15, <1>16, <1>17, <1>18, <1>19, <1>20, <1>21, <1>22
  DEF Next, ToolStep

\* How long ago the node was away from what is wanted is bounded after every step.
LEMMA AwayStep == PanelInv /\ [Next]_vars => AwayInv'
<1> SUFFICES ASSUME PanelInv, [Next]_vars PROVE AwayInv'
  OBVIOUS
<1>t. PanelTypeOK /\ StageInv /\ PollInv /\ AwayInv
  BY DEF PanelInv
<1>p. /\ request # "none" <=> pc \in {"smoke", "lookup", "resolve", "act", "poll"}
      /\ pc \in {"smoke", "lookup"} => ~Modifies
      /\ pc \in {"poll", "sleep"} => Modifies
      /\ pc = "poll" /\ request = "answered" /\ answer.ok => id \in Nodes
      /\ pc = "poll" /\ id # UnknownNode => id \in Nodes
      /\ pc = "sleep" => request = "none"
  BY <1>t, StageFacts
<1>o. ASSUME Observe, clock' \in {clock, clock + 1}
      PROVE  /\ reached => reached'
             /\ lastAway <= lastAway' /\ lastAway' <= clock' /\ lastAway' \in Nat
             /\ id \in Nodes /\ ~Exited =>
                  /\ Wanted(panel'[id]) => reached'
                  /\ ~Wanted(panel'[id]) => lastAway' = clock'
  BY <1>o, Witnessed
<1>n. /\ clock \in Nat /\ wake \in Nat /\ sentAt \in Nat /\ lastAway \in Nat
      /\ interval \in Nat /\ ClientTimeout \in Nat /\ pc \in Labels
  BY <1>t, Bounds DEF PanelTypeOK
<1> USE <1>t, <1>p, <1>n DEF AwayInv, NotGivenUpOnSuccess, Received, Wanted, Labels
<1>1. CASE RefuseUsage
  BY <1>1 DEF RefuseUsage, Exit, call, history
<1>2. CASE RefuseCall
  BY <1>2 DEF RefuseCall, Exit, call, history
<1>3. CASE Begin
  BY <1>3 DEF Begin, SendFor, NoAnswer, FirstStep, Accepted, call
<1>4. CASE SkipSmoke
  BY <1>4 DEF SkipSmoke, Exit, call, history
<1>5. CASE ReceiveError
  BY <1>5, Idles DEF ReceiveError, Exit, call, history
<1>6. CASE SmokeAnswered
  BY <1>6, Idles DEF SmokeAnswered, Exit, call, history
<1>7. CASE NextPath
  <2>1. CASE paths > 1
    BY <1>7, <2>1 DEF NextPath, SendFor, NoAnswer
  <2>2. CASE ~(paths > 1)
    BY <1>7, <2>2, Idles DEF NextPath, Exit
  <2> QED BY <2>1, <2>2
<1>8. CASE LookedUp
  BY <1>8, Idles DEF LookedUp, Exit, call, history
<1>9. CASE Resolved
  BY <1>9 DEF Resolved, SendFor, NoAnswer, call
<1>10. CASE Acted
  BY <1>10 DEF Acted, SendFor, NoAnswer, call
<1>11. CASE Polled
  BY <1>11, Idles DEF Polled, Exit, call, history
<1>12. CASE PollAgain
  BY <1>12 DEF PollAgain, SendFor, NoAnswer, call
<1>13. CASE ContextEnds
  BY <1>13, Idles DEF ContextEnds, Exit, call, history
<1>14. CASE GiveUp
  BY <1>14, Idles DEF GiveUp, RequestFails, Exit, call, history
<1>15. CASE ConnectionBreaks
  BY <1>15, Idles DEF ConnectionBreaks, RequestFails, Exit, call, history
<1>16. CASE Serve
  <2>1. Observe /\ clock' = clock
    BY <1>16 DEF Serve
  <2>2. lastAway' \in Nat /\ lastAway <= lastAway' /\ lastAway' <= clock'
    BY <2>1, <1>o
  <2>3. pc = "poll" /\ answer'.ok /\ ~Wanted(answer'.node) => lastAway' = clock'
    BY <1>16, <2>1, <1>o, TheTarget DEF Serve, Exited
  <2>4. UNCHANGED <<command, id, interval, wake, pc, sentAt, reason>> /\ request # "none"
    BY <1>16 DEF Serve, call
  <2>5. NotGivenUpOnSuccess'
    BY <2>1, <2>2, <2>4, Later
  <2>6. pc' = "poll" /\ answer'.ok /\ ~Wanted(answer'.node) => sentAt' <= lastAway'
    BY <2>1, <2>3, <2>4
  <2>7. pc # "sleep"
    BY <2>4
  <2>8. lastAway' <= clock' /\ sentAt <= clock' /\ clock' <= sentAt + ClientTimeout
    BY <2>1, <2>2, <2>4
  <2> QED BY <2>4, <2>5, <2>6, <2>7, <2>8
<1>17. CASE ServeBadly
  <2>1. Observe /\ clock' = clock
    BY <1>17 DEF ServeBadly
  <2>2. lastAway' \in Nat /\ lastAway <= lastAway' /\ lastAway' <= clock'
    BY <2>1, <1>o
  <2>3. /\ UNCHANGED <<command, id, interval, wake, pc, sentAt, reason>> /\ request # "none"
        /\ answer'.ok = FALSE
    BY <1>17 DEF ServeBadly, NoAnswer, call
  <2>4. NotGivenUpOnSuccess'
    BY <2>1, <2>2, <2>3, Later
  <2> QED BY <2>1, <2>2, <2>3, <2>4, Later
<1>18. CASE StrayArrives
  <2>1. Observe /\ clock' = clock
    BY <1>18 DEF StrayArrives, toolVars
  <2>2. lastAway' \in Nat /\ lastAway <= lastAway' /\ lastAway' <= clock'
    BY <2>1, <1>o
  <2>3. UNCHANGED <<command, id, interval, wake, pc, request, sentAt, answer, reason>>
    BY <1>18 DEF StrayArrives, toolVars, call
  <2>4. NotGivenUpOnSuccess'
    BY <2>1, <2>2, <2>3, Later
  <2>5. pc = "sleep" => clock' <= wake /\ wake <= lastAway' + interval + ClientTimeout
    BY <2>1, <2>2, Later
  <2>6. lastAway' <= clock' /\ (request # "none" => sentAt <= clock' /\ clock' <= sentAt + ClientTimeout)
    BY <2>1, <2>2
  <2>7. pc = "poll" /\ Received /\ ~Wanted(answer.node) => sentAt <= lastAway'
    BY <2>2
  <2> QED BY <2>3, <2>4, <2>5, <2>6, <2>7
<1>19. ASSUME NEW n \in Nodes, LinkChanges(n) PROVE AwayInv'
  <2>1. Observe /\ clock' = clock
    BY <1>19 DEF LinkChanges, toolVars
  <2>2. lastAway' \in Nat /\ lastAway <= lastAway' /\ lastAway' <= clock'
    BY <2>1, <1>o
  <2> QED BY <1>19, <2>1, <2>2, Later DEF LinkChanges, toolVars, call
<1>20. ASSUME NEW n \in Nodes, Meddle(n) PROVE AwayInv'
  <2>1. Observe /\ clock' = clock
    BY <1>20 DEF Meddle, toolVars
  <2>2. lastAway' \in Nat /\ lastAway <= lastAway' /\ lastAway' <= clock'
    BY <2>1, <1>o
  <2> QED BY <1>20, <2>1, <2>2, Later DEF Meddle, toolVars, call
<1>21. CASE Tick
  <2>1. Observe /\ clock' = clock + 1
    BY <1>21 DEF Tick
  <2>2. lastAway' \in Nat /\ lastAway <= lastAway' /\ lastAway' <= clock'
    BY <2>1, <1>o
  <2>3. UNCHANGED <<command, id, interval, wake, pc, request, sentAt, answer, reason>>
    BY <1>21 DEF Tick, call
  <2>4. reason # "notReached"
    BY <1>21 DEF Tick, StageInv
  <2>5. pc = "sleep" => clock' <= wake
    BY <1>21, <2>1 DEF Tick, Due
  <2>6. pc = "sleep" => wake <= lastAway' + interval + ClientTimeout
    BY <2>2, Later
  <2>7. request # "none" => sentAt <= clock' /\ clock' <= sentAt + ClientTimeout
    BY <1>21, <2>1 DEF Tick, Due
  <2>8. pc = "poll" /\ Received /\ ~Wanted(answer.node) => sentAt <= lastAway'
    BY <2>2
  <2> QED BY <2>2, <2>3, <2>4, <2>5, <2>6, <2>7, <2>8
<1>22. CASE UNCHANGED vars
  BY <1>22 DEF vars, call, toolVars, history
<1> QED
  BY <1>1, <1>2, <1>3, <1>4, <1>5, <1>6, <1>7, <1>8, <1>9, <1>10, <1>11,
      <1>12, <1>13, <1>14, <1>15, <1>16, <1>17, <1>18, <1>19, <1>20, <1>21, <1>22
  DEF Next, ToolStep

-----------------------------------------------------------------------------
\* The invariant holds of every run of the tool.
THEOREM PanelInvariance == Spec => []PanelInv
<1>1. PanelInv /\ [Next]_vars => PanelInv'
  BY PanelTypeStep, StageStep, PollStep, AwayStep DEF PanelInv
<1> QED BY <1>1, PanelStarts, PTL DEF Spec

\* A run that ends well was one whose action the Panel carried out, with the node as it
\* was asked for at some moment since the last poll was sent.
THEOREM SuccessTold == Spec => []SuccessIsTrue
<1>1. PanelInv => SuccessIsTrue
  BY DEF PanelInv, PollInv
<1> QED BY <1>1, PanelInvariance, PTL

\* A run that gives up waiting is one whose node was away from what was asked for within
\* the last interval and request.
THEOREM GivenUpRightly == Spec => []NotGivenUpOnSuccess
<1>1. PanelInv => NotGivenUpOnSuccess
  BY DEF PanelInv, AwayInv
<1> QED BY <1>1, PanelInvariance, PTL
=============================================================================
