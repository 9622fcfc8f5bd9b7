-------------------------- MODULE ServerLifecycle --------------------------
(***************************************************************************)
(* The node as a process: internal/httpapi/server.go and the end of        *)
(* cmd/rw-node-go/main.go.  ListenAndServe opens two listeners, serves     *)
(* each in a goroutine and waits for both; when one fails it closes both   *)
(* servers.  main waits for it or for a signal, upon which it shuts down   *)
(* one server after the other, for ten seconds in all.                     *)
(*                                                                         *)
(* Of net/http: Serve returns an error of its own, or ErrServerClosed once *)
(* its server has been shut down or closed, before or after it was called; *)
(* it closes its listener in either case.  Shutdown waits for requests,    *)
(* Close cuts them.                                                        *)
(***************************************************************************)
EXTENDS Naturals, Sequences

CONSTANTS Connections   \* of one request each

VARIABLES
  listener,   \* per server: "none", "open", "closed"
  serving,    \* per server, its goroutine: "none", "spawned", "serving", "returned"
  down,       \* per server: Shutdown or Close has been called (inShutdown)
  conn,       \* per connection: "unsent", the server that handles it, "answered", "cut"
  errCh,      \* errCh of ListenAndServe
  las, at,    \* where ListenAndServe is, and at which server
  received,   \* how many results it has received
  firstErr,   \* whether it has an error to return
  main, stopping,   \* where main is, and which server it shuts down
  shutErr,    \* whether a Shutdown has failed
  signal, deadline, \* a signal has come; the ten seconds are over
  failed      \* history: a listener or a server has failed

lasVars == <<las, at, received, firstErr>>
mainVars == <<main, stopping, shutErr>>
serverVars == <<listener, serving, down, conn, errCh, lasVars, mainVars, signal, deadline, failed>>

\* In the order in which they are opened, closed and shut down.
Servers == {"internal", "main"}

Active(s) == {r \in Connections : conn[r] = s}
Exited == main \in {"ok", "failed"}

ServersInit ==
  /\ listener = [s \in Servers |-> "none"]
  /\ serving = [s \in Servers |-> "none"]
  /\ down = [s \in Servers |-> FALSE]
  /\ conn = [r \in Connections |-> "unsent"]
  /\ errCh = <<>>
  /\ las = "listen" /\ at = "internal" /\ received = 0 /\ firstErr = FALSE
  /\ main = "select" /\ stopping = "internal" /\ shutErr = FALSE
  /\ signal = FALSE /\ deadline = FALSE /\ failed = FALSE

-----------------------------------------------------------------------------
\* ListenAndServe.
Listen ==
  /\ las = "listen"
  /\ listener' = [listener EXCEPT ![at] = "open"]
  /\ at' = "main"
  /\ las' = IF at = "main" THEN "serve" ELSE "listen"
  /\ UNCHANGED <<serving, down, conn, errCh, received, firstErr, mainVars, signal, deadline, failed>>

\* FAULT: the listener of the internal server stays.
ListenFailsUntidily ==
  /\ las = "listen"
  /\ las' = "returned" /\ firstErr' = TRUE /\ failed' = TRUE
  /\ UNCHANGED <<listener, serving, down, conn, errCh, at, received, mainVars, signal, deadline>>

\* The address is taken, or TLS is not configured: what was opened is closed.
ListenFails ==
  /\ las = "listen"
  /\ listener' = [s \in Servers |-> IF listener[s] = "open" THEN "closed" ELSE listener[s]]
  /\ las' = "returned" /\ firstErr' = TRUE /\ failed' = TRUE
  /\ UNCHANGED <<serving, down, conn, errCh, at, received, mainVars, signal, deadline>>

Spawn ==
  /\ las = "serve"
  /\ serving' = [s \in Servers |-> "spawned"]
  /\ las' = "collect"
  /\ UNCHANGED <<listener, down, conn, errCh, at, received, firstErr, mainVars, signal, deadline, failed>>

\* FAULT: the last result counts, not the first error.
CollectLast ==
  /\ las = "collect" /\ errCh # <<>>
  /\ errCh' = Tail(errCh)
  /\ received' = received + 1
  /\ firstErr' = (Head(errCh) = "error")
  /\ IF Head(errCh) = "error"
     THEN las' = "close" /\ at' = "internal"
     ELSE las' = (IF received' = 2 THEN "returned" ELSE "collect") /\ UNCHANGED at
  /\ UNCHANGED <<listener, serving, down, conn, mainVars, signal, deadline, failed>>

\* One result; the first error has both servers closed.
Collect ==
  /\ las = "collect" /\ errCh # <<>>
  /\ errCh' = Tail(errCh)
  /\ received' = received + 1
  /\ firstErr' = (firstErr \/ Head(errCh) = "error")
  /\ IF Head(errCh) = "error" /\ ~firstErr
     THEN las' = "close" /\ at' = "internal"
     ELSE las' = (IF received' = 2 THEN "returned" ELSE "collect") /\ UNCHANGED at
  /\ UNCHANGED <<listener, serving, down, conn, mainVars, signal, deadline, failed>>

\* Both Shutdown and Close: a listener that is not served yet is closed by Serve.
TakeDown(s) ==
  /\ down' = [down EXCEPT ![s] = TRUE]
  /\ listener' = [listener EXCEPT ![s] = IF serving[s] = "serving" THEN "closed" ELSE @]

Close ==
  /\ las = "close"
  /\ TakeDown(at)
  /\ conn' = [r \in Connections |-> IF conn[r] = at THEN "cut" ELSE conn[r]]
  /\ at' = "main"
  /\ las' = IF at = "internal" THEN "close" ELSE IF received = 2 THEN "returned" ELSE "collect"
  /\ UNCHANGED <<serving, errCh, received, firstErr, mainVars, signal, deadline, failed>>

-----------------------------------------------------------------------------
\* The goroutines that serve.
Serve(s) ==
  /\ serving[s] = "spawned" /\ ~down[s]
  /\ serving' = [serving EXCEPT ![s] = "serving"]
  /\ UNCHANGED <<listener, down, conn, errCh, lasVars, mainVars, signal, deadline, failed>>

\* Serve has returned and the result is sent.
ServeReturns(s, result) ==
  /\ serving' = [serving EXCEPT ![s] = "returned"]
  /\ listener' = [listener EXCEPT ![s] = "closed"]
  /\ errCh' = Append(errCh, result)
  /\ UNCHANGED <<down, conn, lasVars, mainVars, signal, deadline>>

\* ErrServerClosed, which is no error.
ServeEnds(s) ==
  /\ serving[s] \in {"spawned", "serving"} /\ down[s]
  /\ ServeReturns(s, "nil")
  /\ UNCHANGED failed

ServeFails(s) ==
  /\ serving[s] = "serving" /\ ~down[s]
  /\ ServeReturns(s, "error")
  /\ failed' = TRUE

\* A request is accepted and, if it ever is, answered.
Send(r, s) ==
  /\ conn[r] = "unsent" /\ serving[s] = "serving" /\ ~down[s]
  /\ conn' = [conn EXCEPT ![r] = s]
  /\ UNCHANGED <<listener, serving, down, errCh, lasVars, mainVars, signal, deadline, failed>>

Answer(r) ==
  /\ conn[r] \in Servers
  /\ conn' = [conn EXCEPT ![r] = "answered"]
  /\ UNCHANGED <<listener, serving, down, errCh, lasVars, mainVars, signal, deadline, failed>>

-----------------------------------------------------------------------------
\* main.
Signal ==
  /\ ~signal
  /\ signal' = TRUE
  /\ UNCHANGED <<listener, serving, down, conn, errCh, lasVars, mainVars, deadline, failed>>

\* The process ends, and with it what it was doing.
Exit(status) ==
  /\ main' = status
  /\ conn' = [r \in Connections |-> IF conn[r] \in Servers THEN "cut" ELSE conn[r]]

\* Either case of the select, if both are ready.
Interrupted ==
  /\ main = "select" /\ signal
  /\ main' = "stop"
  /\ UNCHANGED <<listener, serving, down, conn, errCh, lasVars, stopping, shutErr, signal, deadline, failed>>

ServerReturned ==
  /\ main = "select" /\ las = "returned"
  /\ Exit(IF firstErr THEN "failed" ELSE "ok")
  /\ UNCHANGED <<listener, serving, down, errCh, lasVars, stopping, shutErr, signal, deadline, failed>>

Shutdown ==
  /\ main = "stop"
  /\ TakeDown(stopping)
  /\ main' = "drain"
  /\ UNCHANGED <<serving, conn, errCh, lasVars, stopping, shutErr, signal, deadline, failed>>

\* Shutdown has returned: the next server, or the end.
ShutdownReturns(err) ==
  /\ shutErr' = (shutErr \/ err)
  /\ stopping' = "main"
  /\ IF stopping = "internal"
     THEN main' = "stop" /\ UNCHANGED conn
     ELSE Exit(IF shutErr' THEN "failed" ELSE "ok")
  /\ UNCHANGED <<listener, serving, down, errCh, lasVars, signal, deadline, failed>>

\* FAULT: Shutdown waits for nobody.
DrainedAtOnce == main = "drain" /\ ShutdownReturns(FALSE)

Drained == main = "drain" /\ Active(stopping) = {} /\ ShutdownReturns(FALSE)

Deadline ==
  /\ main \in {"stop", "drain"} /\ ~deadline
  /\ deadline' = TRUE
  /\ UNCHANGED <<listener, serving, down, conn, errCh, lasVars, mainVars, signal, failed>>

\* FAULT: the deadline of a drain is that of the other server.
DrainTimesOutForMain == main = "drain" /\ deadline /\ stopping = "main" /\ ShutdownReturns(TRUE)

\* Also if the last request has just been answered: Shutdown looks now and then.
DrainTimesOut == main = "drain" /\ deadline /\ ShutdownReturns(TRUE)

ListenAndServe == Listen \/ ListenFails \/ Spawn \/ Collect \/ Close
Goroutine(s) == Serve(s) \/ ServeEnds(s)
Main == Interrupted \/ ServerReturned \/ Shutdown \/ Drained \/ DrainTimesOut

ServersNext ==
  /\ ~Exited
  /\ \/ ListenAndServe
     \/ \E s \in Servers : Goroutine(s) \/ ServeFails(s)
     \/ \E r \in Connections : Answer(r) \/ \E s \in Servers : Send(r, s)
     \/ Main \/ Signal \/ Deadline

ServersSpec == ServersInit /\ [][ServersNext]_serverVars

\* Goroutines are scheduled and the timer fires.  Connections need not be answered,
\* servers need not fail, nobody need send a signal.
ServersFairness ==
  /\ WF_serverVars(~Exited /\ ListenAndServe)
  /\ \A s \in Servers : WF_serverVars(~Exited /\ Goroutine(s))
  /\ WF_serverVars(~Exited /\ Main) /\ WF_serverVars(~Exited /\ Deadline)

-----------------------------------------------------------------------------
\* The types of all variables.
ServerTypeOK ==
  /\ listener \in [Servers -> {"none", "open", "closed"}]
  /\ serving \in [Servers -> {"none", "spawned", "serving", "returned"}]
  /\ down \in [Servers -> BOOLEAN]
  /\ conn \in [Connections -> {"unsent", "answered", "cut"} \cup Servers]
  /\ errCh \in Seq({"nil", "error"})
  /\ las \in {"listen", "serve", "collect", "close", "returned"}
  /\ at \in Servers
  /\ received \in 0..2
  /\ firstErr \in BOOLEAN
  /\ main \in {"select", "stop", "drain", "ok", "failed"}
  /\ stopping \in Servers
  /\ shutErr \in BOOLEAN /\ signal \in BOOLEAN /\ deadline \in BOOLEAN /\ failed \in BOOLEAN

\* When ListenAndServe has returned, whatever has failed and whatever main did
\* meanwhile, no port is left bound and nothing is served.
ListenersReleased ==
  las = "returned" =>
    \A s \in Servers : listener[s] # "open" /\ serving[s] \in {"none", "returned"}

\* The process ends with status 0 only if it was told to end, and unless a server
\* has failed at the same time it has then cut no request: neither one it was
\* draining nor one that came to one server while it drained the other.
CleanExit ==
  main = "ok" =>
    /\ signal
    /\ failed \/ \A r \in Connections : conn[r] # "cut"

\* A signal, or the failure of either server, ends the process, whatever it is
\* doing then and though requests may never be answered: it does not live on with
\* one of its servers.
EndsWhenItMust == signal \/ failed ~> Exited
-----------------------------------------------------------------------------
(***************************************************************************)
(* The inductive invariant.                                                *)
(***************************************************************************)
Returned(s) == IF serving[s] = "returned" THEN 1 ELSE 0
ErrorSent == \E i \in 1..Len(errCh) : errCh[i] = "error"

\* Every goroutine that has returned has sent one result and closed its listener.
ResultsInv ==
  /\ received + Len(errCh) = Returned("internal") + Returned("main")
  /\ \A s \in Servers : serving[s] = "returned" => listener[s] = "closed"

\* ListenAndServe returns before it has started the goroutines, or with both results.
ListenInv ==
  /\ las \in {"listen", "serve"} => \A s \in Servers : serving[s] = "none"
  /\ las \in {"collect", "close"} => \A s \in Servers : serving[s] # "none"
  /\ las = "collect" => received < 2
  /\ las = "returned" =>
       \/ received = 2
       \/ /\ firstErr
          /\ \A s \in Servers : serving[s] = "none" /\ listener[s] # "open"

\* A server ends because it failed, or because it was taken down, which takes an
\* error or a signal.
ErrorInv ==
  /\ las = "close" => firstErr
  /\ firstErr \/ ErrorSent => failed
  /\ \A s \in Servers :
       /\ serving[s] = "returned" => down[s] \/ firstErr \/ ErrorSent
       /\ down[s] => firstErr \/ main # "select"

\* main shuts down upon a signal only, and leaves no request behind.
ShutdownInv ==
  /\ main = "select" => stopping = "internal"
  /\ main \in {"stop", "drain", "ok"} => signal
  /\ main = "drain" => down[stopping]
  /\ main \in {"stop", "drain"} /\ stopping = "main" /\ ~shutErr =>
       down["internal"] /\ Active("internal") = {}
  /\ \A r \in Connections : conn[r] = "cut" => failed \/ main = "failed"

ServerInv == ServerTypeOK /\ ResultsInv /\ ListenInv /\ ErrorInv /\ ShutdownInv
=============================================================================
