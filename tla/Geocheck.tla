------------------------------ MODULE Geocheck ------------------------------
(***************************************************************************)
(* internal/geocheck/geocheck.go and its handler, GetGeocheck: a request   *)
(* runs a child process and answers with the report it has written to its  *)
(* standard output.  One request does so at a time; others are turned away.*)
(* The child is killed when its 45 seconds are over or the client is gone. *)
(*                                                                         *)
(* os/exec and the child are external.  The child writes its report block  *)
(* by block into a pipe, from which a goroutine of os/exec copies to the   *)
(* limitedBuffer; no other process holds the pipe.                         *)
(***************************************************************************)
EXTENDS Naturals

CONSTANTS
  Requests, Nobody,
  Sizes,      \* of the reports, in blocks
  MaxOutput,  \* DefaultMaxOutput
  PipeSize    \* blocks a pipe holds

ASSUME GeocheckAssumption ==
  /\ Nobody \notin Requests
  /\ Sizes \subseteq Nat \ {0} /\ Sizes # {}
  /\ MaxOutput \in Nat /\ PipeSize \in Nat \ {0}

VARIABLES
  isRunning,  \* the gate
  pc,         \* per request, where its handler is
  ctx,        \* runCtx: live, or why it is done
  child,      \* the child process
  report,     \* what the child is to write
  written,    \* how much of it has been written
  buffered,   \* how much of it is in the limitedBuffer
  copying,    \* the goroutine that copies; "refused" is tooLarge
  answer

runVars == <<ctx, child, report, written, buffered, copying>>
vars == <<isRunning, pc, runVars, answer>>

\* A report with an image, or one without or that is no JSON.
Reports == [size : Sizes, content : {"image", "other"}]

NoReport == CHOOSE x \in Reports : TRUE   \* before there is one

Init ==
  /\ isRunning = FALSE
  /\ pc = [r \in Requests |-> "new"]
  /\ ctx = [r \in Requests |-> "live"]
  /\ child = [r \in Requests |-> "none"]
  /\ report = [r \in Requests |-> NoReport]
  /\ written = [r \in Requests |-> 0]
  /\ buffered = [r \in Requests |-> 0]
  /\ copying = [r \in Requests |-> "open"]
  /\ answer = [r \in Requests |-> "none"]

\* Between begin and end.
Inside(r) == pc[r] \in {"admitted", "running", "returned"}

-----------------------------------------------------------------------------
\* A body that is no JSON, an address that is none: no gate is passed.
Refuse(r) ==
  /\ pc[r] = "new"
  /\ pc' = [pc EXCEPT ![r] = "done"]
  /\ answer' = [answer EXCEPT ![r] = "invalid"]
  /\ UNCHANGED <<isRunning, runVars>>

Begin(r) ==
  /\ pc[r] = "new" /\ ~isRunning
  /\ isRunning' = TRUE
  /\ pc' = [pc EXCEPT ![r] = "admitted"]
  /\ UNCHANGED <<runVars, answer>>

\* FAULT: `defer r.end()' comes before the check.
BusyOpensGate(r) ==
  /\ pc[r] = "new" /\ isRunning
  /\ isRunning' = FALSE
  /\ pc' = [pc EXCEPT ![r] = "done"]
  /\ answer' = [answer EXCEPT ![r] = "busy"]
  /\ UNCHANGED runVars

\* ErrAlreadyRunning.
Busy(r) ==
  /\ pc[r] = "new" /\ isRunning
  /\ pc' = [pc EXCEPT ![r] = "done"]
  /\ answer' = [answer EXCEPT ![r] = "busy"]
  /\ UNCHANGED <<isRunning, runVars>>

\* formatExecError: a context that is done is blamed first.
Error(r, err) == IF ctx[r] # "live" THEN "timedOut" ELSE err

\* The end of execCommand, and of what Run makes of its result.
Returns(r, result) ==
  /\ pc' = [pc EXCEPT ![r] = "returned"]
  /\ answer' = [answer EXCEPT ![r] = result]
  /\ UNCHANGED <<isRunning, runVars>>

\* cmd.Start: no binary, or a context that is done already.
StartFails(r) ==
  /\ pc[r] = "admitted"
  /\ Returns(r, Error(r, "failed"))

StartChild(r, x) ==
  /\ pc[r] = "admitted" /\ ctx[r] = "live"
  /\ pc' = [pc EXCEPT ![r] = "running"]
  /\ child' = [child EXCEPT ![r] = "alive"]
  /\ report' = [report EXCEPT ![r] = x]
  /\ UNCHANGED <<isRunning, ctx, written, buffered, copying, answer>>

-----------------------------------------------------------------------------
\* A block goes into the pipe, or is lost when nobody reads from it any more.
ChildWrites(r) ==
  /\ child[r] = "alive" /\ written[r] < report[r].size
  /\ copying[r] = "open" => written[r] - buffered[r] < PipeSize
  /\ written' = [written EXCEPT ![r] = @ + 1]
  /\ UNCHANGED <<isRunning, pc, ctx, child, report, buffered, copying, answer>>

\* Success, if all is written; failure, for whatever reason.
ChildEnds(r, how) ==
  /\ child[r] = "alive"
  /\ how = "succeeded" => written[r] = report[r].size
  /\ child' = [child EXCEPT ![r] = how]
  /\ UNCHANGED <<isRunning, pc, ctx, report, written, buffered, copying, answer>>

\* FAULT: exec.Command, without the context.
KillNever(r) == FALSE /\ UNCHANGED vars

\* The context is done and os/exec kills the child, which may just have ended.
Kill(r) ==
  /\ pc[r] = "running" /\ ctx[r] # "live"
  /\ child[r] \in {"alive", "succeeded"}
  /\ child' = [child EXCEPT ![r] = "killed"]
  /\ UNCHANGED <<isRunning, pc, ctx, report, written, buffered, copying, answer>>

\* FAULT: a full buffer is one too many.
CopyRefusesFull(r, n) ==
  /\ pc[r] = "running" /\ copying[r] = "open"
  /\ n \in 1..(written[r] - buffered[r])
  /\ IF buffered[r] + n >= MaxOutput
     THEN copying' = [copying EXCEPT ![r] = "refused"] /\ UNCHANGED buffered
     ELSE buffered' = [buffered EXCEPT ![r] = @ + n] /\ UNCHANGED copying
  /\ UNCHANGED <<isRunning, pc, ctx, child, report, written, answer>>

\* limitedBuffer.Write, with what io.Copy has read from the pipe at once.
Copy(r, n) ==
  /\ pc[r] = "running" /\ copying[r] = "open"
  /\ n \in 1..(written[r] - buffered[r])
  /\ IF buffered[r] + n > MaxOutput
     THEN copying' = [copying EXCEPT ![r] = "refused"] /\ UNCHANGED buffered
     ELSE buffered' = [buffered EXCEPT ![r] = @ + n] /\ UNCHANGED copying
  /\ UNCHANGED <<isRunning, pc, ctx, child, report, written, answer>>

\* The pipe is empty and the child, gone, has closed it.
CopyEnds(r) ==
  /\ pc[r] = "running" /\ copying[r] = "open"
  /\ child[r] # "alive" /\ written[r] = buffered[r]
  /\ copying' = [copying EXCEPT ![r] = "ended"]
  /\ UNCHANGED <<isRunning, pc, ctx, child, report, written, buffered, answer>>

Timeout(r) ==
  /\ pc[r] \in {"admitted", "running"} /\ ctx[r] = "live"
  /\ ctx' = [ctx EXCEPT ![r] = "over"]
  /\ UNCHANGED <<isRunning, pc, child, report, written, buffered, copying, answer>>

ClientLeaves(r) ==
  /\ pc[r] \in {"new", "admitted", "running"} /\ ctx[r] = "live"
  /\ ctx' = [ctx EXCEPT ![r] = "cancelled"]
  /\ UNCHANGED <<isRunning, pc, child, report, written, buffered, copying, answer>>

-----------------------------------------------------------------------------
\* FAULT: waits for the child, or for its time to be over.
WaitGivesUp(r) ==
  /\ pc[r] = "running"
  /\ \/ ctx[r] # "live"
     \/ child[r] # "alive" /\ copying[r] # "open"
  /\ Returns(r, IF copying[r] = "refused" THEN Error(r, "tooLarge")
                ELSE IF child[r] # "succeeded" THEN Error(r, "failed")
                ELSE IF report[r].content = "image" THEN "report" ELSE "badReport")

\* cmd.Run returns when the child is gone and its output is copied; then what has
\* been written is parsed.
Wait(r) ==
  /\ pc[r] = "running" /\ child[r] # "alive" /\ copying[r] # "open"
  /\ Returns(r, IF copying[r] = "refused" THEN Error(r, "tooLarge")
                ELSE IF child[r] # "succeeded" THEN Error(r, "failed")
                ELSE IF report[r].content = "image" THEN "report" ELSE "badReport")

\* end and cancel; the locals are gone, and the answer is sent.
End(r) ==
  /\ pc[r] = "returned"
  /\ isRunning' = FALSE
  /\ pc' = [pc EXCEPT ![r] = "done"]
  /\ ctx' = [ctx EXCEPT ![r] = "cancelled"]
  /\ child' = [child EXCEPT ![r] = IF @ = "alive" THEN @ ELSE "none"]
  /\ report' = [report EXCEPT ![r] = NoReport]
  /\ written' = [written EXCEPT ![r] = 0]
  /\ buffered' = [buffered EXCEPT ![r] = 0]
  /\ copying' = [copying EXCEPT ![r] = "open"]
  /\ UNCHANGED answer

ChildStep(r) ==
  \/ ChildWrites(r)
  \/ \E how \in {"succeeded", "failed"} : ChildEnds(r, how)

Arrive(r) == Refuse(r) \/ Begin(r) \/ Busy(r)

RunStep(r) ==
  \/ StartFails(r)
  \/ \E x \in Reports : StartChild(r, x)
  \/ Kill(r) \/ CopyEnds(r) \/ Wait(r) \/ End(r)
  \/ \E n \in 1..PipeSize : Copy(r, n)

Next ==
  \E r \in Requests :
    Arrive(r) \/ RunStep(r) \/ ChildStep(r) \/ Timeout(r) \/ ClientLeaves(r)

Spec == Init /\ [][Next]_vars

\* The goroutines run and the timer fires.  Requests need not come, and the child
\* may hang.
Fairness ==
  \A r \in Requests : WF_vars(RunStep(r)) /\ WF_vars(Kill(r)) /\ WF_vars(Timeout(r))

-----------------------------------------------------------------------------
\* The types of all variables.
GeocheckTypeOK ==
  /\ isRunning \in BOOLEAN
  /\ pc \in [Requests -> {"new", "admitted", "running", "returned", "done"}]
  /\ ctx \in [Requests -> {"live", "over", "cancelled"}]
  /\ child \in [Requests -> {"none", "alive", "succeeded", "failed", "killed"}]
  /\ report \in [Requests -> Reports]
  /\ written \in [Requests -> Nat]
  /\ buffered \in [Requests -> Nat]
  /\ copying \in [Requests -> {"open", "refused", "ended"}]
  /\ answer \in [Requests -> {"none", "invalid", "busy", "timedOut", "failed",
                              "tooLarge", "badReport", "report"}]

\* There is never more than one child process, a timed out one included: the gate
\* is opened again only when the child of the request is gone.
OneChildAtATime ==
  \A r, q \in Requests : child[r] = "alive" /\ child[q] = "alive" => r = q

\* A request is answered with a report exactly when its child has succeeded, was not
\* killed, and has written one with an image and within the limit; and what is
\* answered is all that the child has written.
ReportIsWholeOrNone ==
  \A r \in Requests :
    pc[r] = "returned" =>
      /\ answer[r] = "report" <=> /\ child[r] = "succeeded"
                                  /\ report[r].size <= MaxOutput
                                  /\ report[r].content = "image"
      /\ answer[r] = "report" => buffered[r] = report[r].size

\* Every request that is let in is answered, and lets the next one in, whether its child
\* ends or hangs, as long as no process it leaves behind keeps its output pipe open.
GateOpensAgain ==
  \A r \in Requests : Inside(r) ~> pc[r] = "done"

\* Who is inside, and who was turned away.
Runner == IF \E r \in Requests : Inside(r)
          THEN CHOOSE r \in Requests : Inside(r) ELSE Nobody
TurnedAway == {r \in Requests : answer[r] = "busy"}

Gate == INSTANCE SingleFlight
  WITH Callers <- Requests, inside <- Runner, turned <- TurnedAway

\* The runner implements the single-flight gate: a request that comes while another
\* one is inside is turned away, and none that is inside lets others in.
RunnerImplementsSingleFlight == Gate!GateSpec
-----------------------------------------------------------------------------
(***************************************************************************)
(* The inductive invariant.                                                *)
(***************************************************************************)
\* The gate is closed when somebody is inside, and one request is at most.
GateInv ==
  /\ isRunning <=> \E r \in Requests : Inside(r)
  /\ \A r, q \in Requests : Inside(r) /\ Inside(q) => r = q

\* A child lives within a run; nothing of a run is there before or after it.
ChildInv(r) ==
  /\ child[r] = "alive" => pc[r] = "running"
  /\ pc[r] = "running" => child[r] # "none"
  /\ pc[r] \in {"new", "admitted", "done"} =>
       child[r] = "none" /\ written[r] = 0 /\ buffered[r] = 0 /\ copying[r] = "open"

\* What is in the buffer has been written; all of it, at the end.
OutputInv(r) ==
  /\ buffered[r] <= written[r] /\ written[r] <= report[r].size
  /\ buffered[r] <= MaxOutput
  /\ child[r] = "succeeded" => written[r] = report[r].size
  /\ copying[r] = "ended" => buffered[r] = written[r] /\ child[r] # "alive"
  /\ copying[r] = "refused" => report[r].size > MaxOutput

AnswerInv(r) ==
  /\ pc[r] \in {"new", "admitted", "running"} => answer[r] = "none"
  /\ answer[r] = "busy" => pc[r] = "done"

GeocheckInv ==
  /\ GeocheckTypeOK
  /\ GateInv
  /\ \A r \in Requests : ChildInv(r) /\ OutputInv(r) /\ AnswerInv(r)
  /\ ReportIsWholeOrNone
=============================================================================
