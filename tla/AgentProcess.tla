---------------------------- MODULE AgentProcess ----------------------------
(***************************************************************************)
(* The agent's process: main (src/main.go), Server.Run and closeAPI        *)
(* (src/server/server.go, api.go), and the goroutine that serves the API.  *)
(* The two threads share the field s.srv with no synchronisation.  main    *)
(* ends the process when closeAPI returns, whatever it returns.            *)
(*                                                                         *)
(* The handlers' work is AgentServer's subject; a request here is only     *)
(* waiting in the listener's queue, in a handler, or over.  Shutdown,      *)
(* Serve and signals do what net/http and the Go runtime do (external).    *)
(***************************************************************************)
CONSTANTS
  Requests    \* the requests sent to the process

VARIABLES
  main,      \* where main is: "new", "notify", "wait", "close", "drain", "exit", "exited"
  api,       \* where runAPI is: "none", "listen", "assign", "serve", "serving"; or how
             \* it ended: "failed" to listen, or "ended" because of a shutdown
  shut,      \* Shutdown was called: the listener is closed for good
  request,   \* what became of each request
  signal,    \* "none", "early" (nobody listened: the process ended), "sent", "heard"
  overdue,   \* the 5 seconds of the shutdown are over
  late       \* requests accepted after main took the signal (history)

processVars == <<main, api, shut, request, signal, overdue, late>>

ProcessTypeOK ==
  /\ main \in {"new", "notify", "wait", "close", "drain", "exit", "exited"}
  /\ api \in {"none", "listen", "assign", "serve", "serving", "failed", "ended"}
  /\ shut \in BOOLEAN
  /\ request \in [Requests -> {"none", "queued", "running", "answered", "reset", "cut"}]
  /\ signal \in {"none", "early", "sent", "heard"}
  /\ overdue \in BOOLEAN
  /\ late \subseteq Requests

ProcessLives == main # "exited"
Running == {r \in Requests : request[r] = "running"}

-----------------------------------------------------------------------------
(* main                                                                    *)

\* New, then Run: the goroutine starts.
Run ==
  /\ main = "new"
  /\ main' = "notify"
  /\ api' = "listen"
  /\ UNCHANGED <<shut, request, signal, overdue, late>>

Notify ==
  /\ main = "notify"
  /\ main' = "wait"
  /\ UNCHANGED <<api, shut, request, signal, overdue, late>>

\* <-sigChan
TakeSignal ==
  /\ main = "wait"
  /\ signal = "sent"
  /\ signal' = "heard"
  /\ main' = "close"
  /\ UNCHANGED <<api, shut, request, overdue, late>>

\* What the end of the process does to the requests.
Ends ==
  /\ main' = "exited"
  /\ request' = [r \in Requests |-> CASE request[r] = "queued"  -> "reset"
                                      [] request[r] = "running" -> "cut"
                                      [] OTHER -> request[r]]

\* The queue of the listener goes with it.
CloseListener ==
  /\ shut' = TRUE
  /\ request' = [r \in Requests |-> IF request[r] = "queued" THEN "reset" ELSE request[r]]

\* closeAPI reads s.srv.  Until Serve has taken the server's lock, the assignment may
\* not be visible to main yet.
closeAPI ==
  /\ main = "close"
  /\ \/ /\ api \in {"listen", "assign", "serve", "failed"}
        /\ main' = "exit"
        /\ UNCHANGED <<shut, request>>
     \/ /\ api \in {"serve", "serving"}
        /\ main' = "drain"
        /\ CloseListener
  /\ UNCHANGED <<api, signal, overdue, late>>

\* Fault: Shutdown gets a context without a deadline.
Deadline_Missing == FALSE /\ UNCHANGED processVars

Deadline ==
  /\ main = "drain"
  /\ ~overdue
  /\ overdue' = TRUE
  /\ UNCHANGED <<main, api, shut, request, signal, late>>

\* Fault: the server is closed, not shut down.
Shutdown_Close ==
  /\ main = "drain"
  /\ main' = "exit"
  /\ UNCHANGED <<api, shut, request, signal, overdue, late>>

\* Shutdown returns when no handler runs, or with an error when it is overdue.
Shutdown ==
  /\ main = "drain"
  /\ Running = {} \/ overdue
  /\ main' = "exit"
  /\ UNCHANGED <<api, shut, request, signal, overdue, late>>

\* main returns, whatever Run returned.
Return ==
  /\ main = "exit"
  /\ Ends
  /\ UNCHANGED <<api, shut, signal, overdue, late>>

Main == Run \/ Notify \/ TakeSignal \/ closeAPI \/ Deadline \/ Shutdown \/ Return

-----------------------------------------------------------------------------
(* The goroutine of the API, and its requests.                             *)

\* The port may be taken: the goroutine ends, and Run goes on waiting.
Listen ==
  /\ ProcessLives
  /\ api = "listen"
  /\ api' \in {"assign", "failed"}
  /\ UNCHANGED <<main, shut, request, signal, overdue, late>>

Assign ==
  /\ ProcessLives
  /\ api = "assign"
  /\ api' = "serve"
  /\ UNCHANGED <<main, shut, request, signal, overdue, late>>

\* Serve returns at once when the server was shut down before.
Serve ==
  /\ ProcessLives
  /\ api = "serve"
  /\ api' = IF shut THEN "ended" ELSE "serving"
  /\ UNCHANGED <<main, shut, request, signal, overdue, late>>

ServeReturns ==
  /\ ProcessLives
  /\ api = "serving"
  /\ shut
  /\ api' = "ended"
  /\ UNCHANGED <<main, shut, request, signal, overdue, late>>

Accept(r) ==
  /\ ProcessLives
  /\ api = "serving"
  /\ ~shut
  /\ request[r] = "queued"
  /\ request' = [request EXCEPT ![r] = "running"]
  /\ late' = IF signal = "heard" THEN late \cup {r} ELSE late
  /\ UNCHANGED <<main, api, shut, signal, overdue>>

API == Listen \/ Assign \/ Serve \/ ServeReturns \/ \E r \in Requests : Accept(r)

\* A handler takes as long as its runtime does, or for ever.
Finish(r) ==
  /\ ProcessLives
  /\ request[r] = "running"
  /\ request' = [request EXCEPT ![r] = "answered"]
  /\ UNCHANGED <<main, api, shut, signal, overdue, late>>

-----------------------------------------------------------------------------
(* The clients and the container.                                          *)

Send(r) ==
  /\ ProcessLives
  /\ api \in {"assign", "serve", "serving"}
  /\ ~shut
  /\ request[r] = "none"
  /\ request' = [request EXCEPT ![r] = "queued"]
  /\ UNCHANGED <<main, api, shut, signal, overdue, late>>

\* TERM or INT.  Before Notify it ends the process (the Go runtime's handler);
\* after the first, others are dropped.
Terminate ==
  /\ signal = "none"
  /\ \/ /\ main \in {"new", "notify"}
        /\ signal' = "early"
        /\ Ends
     \/ /\ main = "wait"
        /\ signal' = "sent"
        /\ UNCHANGED <<main, request>>
  /\ UNCHANGED <<api, shut, overdue, late>>

ProcessInit ==
  /\ main = "new"
  /\ api = "none"
  /\ shut = FALSE
  /\ request = [r \in Requests |-> "none"]
  /\ signal = "none"
  /\ overdue = FALSE
  /\ late = {}

ProcessNext ==
  \/ Main \/ API \/ Terminate
  \/ \E r \in Requests : Send(r) \/ Finish(r)

ProcessSpec == ProcessInit /\ [][ProcessNext]_processVars

-----------------------------------------------------------------------------

\* A handler that the end of the process cuts off had its 5 seconds: only requests
\* accepted after main took the signal, and those of a process that was killed
\* before it listened for signals, can be cut without them, although closeAPI may
\* miss the server that is being assigned (api.go:37, 48).
GraceGiven ==
  \A r \in Requests : request[r] = "cut" => overdue \/ signal = "early" \/ r \in late
=============================================================================
