-------------------------- MODULE ContainerProofs --------------------------
(***************************************************************************)
(* Theorems about the start-up script (Entrypoint) and about the container *)
(* it starts the agent in, for any number of requests and of seconds to    *)
(* wait.                                                                   *)
(*                                                                         *)
(* Nothing in the script tests whether prepare failed, and kill -0 finds a *)
(* child that will not become a gateway.  What IInv says instead is that   *)
(* only a prepared directory ever has a gateway that listens (Alive), that *)
(* where the probe reaches no other process only such a gateway is heard   *)
(* (Heard), that the script is past the loop only if a probe was answered  *)
(* (Ready), and that the trap knows of any child there is (Registered).    *)
(*                                                                         *)
(* What the start-up script guarantees of the agent's process holds in the *)
(* composition, because every step of the container is one of the script   *)
(* or leaves its state alone.  That a handler gets its grace, although     *)
(* closeAPI may miss the server, rests on ProcessInv: handlers run only    *)
(* once Serve runs (Serving), by then main cannot miss the server, and     *)
(* when main is about to return, whatever still runs is overdue or was     *)
(* accepted too late (Leaving).                                            *)
(***************************************************************************)
EXTENDS Container, TLAPS

-----------------------------------------------------------------------------
(* The start-up script.                                                    *)

\* Before the launch there is no gateway, and none was heard.
Before == pc \in {"check", "prepare", "launch"} => gateway = "none" /\ ~heard

\* In the body of the loop the counter has not reached its limit.
Counting == pc \in {"probe", "curl", "sleep"} => i < WaitSeconds

Alive      == gateway \in {"booting", "serving", "refusing", "deaf"} => prepared
Heard      == other = "none" /\ heard => prepared
Ready      == pc \in {"ready", "main"} /\ runtime = "openclaw" => heard
Registered == gateway # "none" => registered

IInv == /\ TypeOK /\ Before /\ Counting /\ Alive /\ Heard /\ Ready /\ Registered
        /\ NoGatewayLeftBehind

-----------------------------------------------------------------------------

\* The script starts with no gateway and nothing prepared.
LEMMA InitInv == Init => IInv
<1> SUFFICES ASSUME Init PROVE IInv
  OBVIOUS
<1>1. TypeOK
  <2>1. i \in 0 .. WaitSeconds /\ url \in 1 .. 2
    BY AEntrypoint DEF Init
  <2> QED
    BY <2>1 DEF Init, TypeOK, Script
<1>2. Before /\ Counting /\ Alive /\ Heard /\ Ready /\ Registered
  BY DEF Init, Before, Counting, Alive, Heard, Ready, Registered
<1>3. NoGatewayLeftBehind
  BY DEF Init, NoGatewayLeftBehind
<1> QED
  BY <1>1, <1>2, <1>3 DEF IInv

\* Every step of the script, the gateway and the container stays in the types; the
\* counter stays below its limit because the loop tests it before each round.
LEMMA NextType == ASSUME IInv, Next PROVE TypeOK'
<1> USE AEntrypoint DEF IInv, TypeOK, Script, Goto, Exit, cleanup
<1>1. CASE Check
  BY <1>1 DEF Check
<1>2. CASE Prepare
  BY <1>2 DEF Prepare
<1>3. CASE Launch
  BY <1>3 DEF Launch
<1>4. CASE Wait
  BY <1>4 DEF Wait
<1>5. CASE Probe
  BY <1>5 DEF Probe
<1>6. CASE ProbeReturns
  <2>1. CASE Answerer = "serving"
    BY <1>6, <2>1 DEF ProbeReturns
  <2>2. CASE Answerer # "serving" /\ url = 1
    BY <1>6, <2>2 DEF ProbeReturns
  <2>3. CASE Answerer # "serving" /\ url # 1
    BY <1>6, <2>3 DEF ProbeReturns
  <2> QED
    BY <2>1, <2>2, <2>3
<1>7. CASE Sleep
  BY <1>7 DEF Sleep, Counting
<1>8. CASE Exec
  BY <1>8 DEF Exec
<1>9. CASE HandleTerm
  <2>1. killed' \in BOOLEAN /\ term' \in BOOLEAN
    BY <1>9 DEF HandleTerm
  <2>2. UNCHANGED <<runtime, pc, prepared, i, url, gateway, other, registered, heard>>
    BY <1>9 DEF HandleTerm
  <2> QED
    BY <2>1, <2>2
<1>10. CASE Signal
  BY <1>10 DEF Signal
<1>11. CASE ChildStarts \/ Reap
  BY <1>11 DEF ChildStarts, Reap
<1>12. CASE GatewayStep \/ OtherStep
  BY <1>12 DEF GatewayStep, OtherStep, ServerMoves
<1> QED
  BY <1>1, <1>2, <1>3, <1>4, <1>5, <1>6, <1>7, <1>8, <1>9, <1>10, <1>11, <1>12
     DEF Next, ScriptStep

\* Every step preserves what is known of the loop, of prepare and of the gateway.
LEMMA NextParts ==
  ASSUME IInv, Next
  PROVE  (Before /\ Counting /\ Alive /\ Heard /\ Ready /\ Registered)'
<1> USE AEntrypoint DEF IInv, TypeOK, Script, Goto, Exit, cleanup, Before, Counting,
                        Alive, Heard, Ready, Registered
<1>1. CASE Check
  BY <1>1 DEF Check
<1>2. CASE Prepare
  BY <1>2 DEF Prepare
<1>3. CASE Launch
  BY <1>3 DEF Launch
<1>4. CASE Wait
  BY <1>4 DEF Wait
<1>5. CASE Probe
  BY <1>5 DEF Probe
<1>6. CASE ProbeReturns
  BY <1>6 DEF ProbeReturns, Answerer
<1>7. CASE Sleep
  BY <1>7 DEF Sleep
<1>8. CASE Exec
  BY <1>8 DEF Exec
<1>9. CASE HandleTerm
  BY <1>9 DEF HandleTerm
<1>10. CASE Signal
  BY <1>10 DEF Signal
<1>11. CASE ChildStarts \/ Reap
  BY <1>11 DEF ChildStarts, Reap
<1>12. CASE GatewayStep \/ OtherStep
  BY <1>12 DEF GatewayStep, OtherStep, ServerMoves
<1> QED
  BY <1>1, <1>2, <1>3, <1>4, <1>5, <1>6, <1>7, <1>8, <1>9, <1>10, <1>11, <1>12
     DEF Next, ScriptStep

\* A script that ends sends TERM to the gateway it registered; one that has ended
\* starts no gateway, and a signal that was handled is not forgotten.
LEMMA NextNoneLeft == ASSUME IInv, Next PROVE NoGatewayLeftBehind'
<1> USE DEF IInv, TypeOK, Script, Goto, Exit, cleanup, Registered, NoGatewayLeftBehind
<1>1. CASE Check \/ Prepare \/ Wait
  BY <1>1 DEF Check, Prepare, Wait
<1>2. CASE Launch \/ Probe \/ ProbeReturns \/ Sleep \/ Exec
  BY <1>2 DEF Launch, Probe, ProbeReturns, Sleep, Exec
<1>3. CASE HandleTerm \/ Signal
  BY <1>3 DEF HandleTerm, Signal
<1>4. CASE ChildStarts \/ Reap
  BY <1>4 DEF ChildStarts, Reap
<1>5. CASE GatewayStep \/ OtherStep
  BY <1>5 DEF GatewayStep, OtherStep, ServerMoves
<1> QED
  BY <1>1, <1>2, <1>3, <1>4, <1>5 DEF Next, ScriptStep

-----------------------------------------------------------------------------

\* The inductive invariant holds in every behaviour of the start-up.
THEOREM Invariant == Spec => []IInv
<1>1. IInv /\ [Next]_vars => IInv'
  <2>1. ASSUME IInv, Next PROVE IInv'
    BY <2>1, NextType, NextParts, NextNoneLeft DEF IInv
  <2>2. ASSUME IInv, UNCHANGED vars PROVE IInv'
    BY <2>2 DEF vars, IInv, TypeOK, Before, Counting, Alive, Heard, Ready, Registered,
       NoGatewayLeftBehind
  <2> QED
    BY <2>1, <2>2
<1> QED
  BY <1>1, InitInv, PTL DEF Spec

\* The start-up stays in its types: the loop never goes past its limit.
THEOREM TypeCorrect == Spec => []TypeOK
<1>1. IInv => TypeOK
  BY DEF IInv
<1> QED
  BY <1>1, Invariant, PTL

\* Where the probe's URL reaches no process but the launched one, the openclaw agent
\* only starts prepared, behind that gateway (openclaw.sh:8, 36 and 40).
THEOREM StartsPrepared == Spec => []AgentStartsPrepared
<1>1. IInv => AgentStartsPrepared
  BY DEF IInv, Ready, Heard, AgentStartsPrepared, StartsBehindItsGateway
<1> QED
  BY <1>1, Invariant, PTL

\* However a start-up fails, the gateway it launched was told to stop
\* (start-vmdocker-agent.sh:37).
THEOREM NoneLeftBehind == Spec => []NoGatewayLeftBehind
<1>1. IInv => NoGatewayLeftBehind
  BY DEF IInv
<1> QED
  BY <1>1, Invariant, PTL

-----------------------------------------------------------------------------
(* The process in the container.                                           *)


\* Handlers run only since Serve, and Serve returns only after a shutdown.
Serving ==
  /\ \A r \in Requests : request[r] \in {"running", "answered", "cut"}
       => api \in {"serving", "ended"}
  /\ api = "ended" => shut
  /\ main = "new" => api = "none"

\* After the signal main knows that it had one.
Told == main \in {"close", "drain", "exit"} => signal = "heard"

\* What runs when main is about to return may be cut.
Leaving ==
  main = "exit" => \A r \in Requests : request[r] = "running" => overdue \/ r \in late

ProcessInv == ProcessTypeOK /\ Serving /\ Told /\ Leaving /\ GraceGiven

-----------------------------------------------------------------------------

\* The process starts with no requests.
LEMMA ProcessInitInv == ProcessInit => ProcessInv
BY DEF ProcessInit, ProcessInv, ProcessTypeOK, Serving, Told, Leaving, GraceGiven

\* The end of the process keeps the requests in their types, and cuts what ran.
LEMMA EndsRequests ==
  ASSUME ProcessTypeOK, Ends
  PROVE  /\ main' = "exited"
         /\ request' \in [Requests -> {"none", "queued", "running", "answered", "reset", "cut"}]
         /\ \A r \in Requests :
              request'[r] = (CASE request[r] = "queued"  -> "reset"
                               [] request[r] = "running" -> "cut"
                               [] OTHER -> request[r])
BY DEF ProcessTypeOK, Ends

\* Each step of main, the API, the clients and the container keeps the invariant.
LEMMA ProcessNextInv == ASSUME ProcessInv, ProcessNext PROVE ProcessInv'
<1> USE DEF ProcessInv, ProcessTypeOK, Serving, Told, Leaving, GraceGiven
<1>1. CASE Run
  BY <1>1 DEF Run
<1>2. CASE Notify
  BY <1>2 DEF Notify
<1>3. CASE TakeSignal
  BY <1>3 DEF TakeSignal
<1>4. CASE closeAPI
  <2>1. CASE main' = "exit"
    BY <1>4, <2>1 DEF closeAPI
  <2>2. CASE main' = "drain"
    BY <1>4, <2>2 DEF closeAPI, CloseListener
  <2> QED
    BY <1>4, <2>1, <2>2 DEF closeAPI
<1>5. CASE Deadline
  BY <1>5 DEF Deadline
<1>6. CASE Shutdown
  BY <1>6 DEF Shutdown, Running
<1>7. CASE Return
  BY <1>7, EndsRequests DEF Return
<1>8. CASE Listen
  BY <1>8 DEF Listen, ProcessLives
<1>9. CASE Assign
  BY <1>9 DEF Assign, ProcessLives
<1>10. CASE Serve
  BY <1>10 DEF Serve, ProcessLives
<1>11. CASE ServeReturns
  BY <1>11 DEF ServeReturns, ProcessLives
<1>12. ASSUME NEW r \in Requests, Accept(r) PROVE ProcessInv'
  BY <1>12 DEF Accept, ProcessLives
<1>13. CASE Terminate
  <2>1. CASE main \in {"new", "notify"} /\ Ends /\ signal' = "early"
    BY <1>13, <2>1, EndsRequests DEF Terminate
  <2>2. CASE main = "wait" /\ signal' = "sent" /\ UNCHANGED <<main, request>>
    BY <1>13, <2>2 DEF Terminate
  <2> QED
    BY <1>13, <2>1, <2>2 DEF Terminate
<1>14. ASSUME NEW r \in Requests, Send(r) PROVE ProcessInv'
  BY <1>14 DEF Send, ProcessLives
<1>15. ASSUME NEW r \in Requests, Finish(r) PROVE ProcessInv'
  BY <1>15 DEF Finish, ProcessLives
<1> QED
  BY <1>1, <1>2, <1>3, <1>4, <1>5, <1>6, <1>7, <1>8, <1>9, <1>10, <1>11, <1>12,
     <1>13, <1>14, <1>15 DEF ProcessNext, Main, API

\* A step that leaves the process alone keeps what holds of it.
LEMMA ProcessStutterInv == ASSUME ProcessInv, UNCHANGED processVars PROVE ProcessInv'
BY DEF ProcessInv, ProcessTypeOK, Serving, Told, Leaving, GraceGiven, processVars

-----------------------------------------------------------------------------

\* The strengthened invariant of the agent's process, in the container.
THEOREM ProcessInvariant == ContainerSpec => []ProcessInv
<1>1. ContainerInit => ProcessInv
  BY ProcessInitInv DEF ContainerInit
<1>2. ProcessInv /\ [ContainerNext]_containerVars => ProcessInv'
  BY ProcessNextInv, ProcessStutterInv
  DEF ContainerNext, StartUp, Agent, containerVars
<1> QED
  BY <1>1, <1>2, PTL DEF ContainerSpec

\* No handler is cut off without its 5 seconds, unless it was accepted after the
\* signal or the process was killed before it listened for signals (api.go:37, 48).
THEOREM Grace == ContainerSpec => []GraceGiven
<1>1. ProcessInv => GraceGiven
  BY DEF ProcessInv
<1> QED
  BY <1>1, ProcessInvariant, PTL

\* The container behaves as its start-up script until the exec, and leaves the
\* script's state alone afterwards.
THEOREM ScriptWithin == ContainerSpec => Spec
<1>1. ContainerInit => Init
  BY DEF ContainerInit
<1>2. [ContainerNext]_containerVars => [Next]_vars
  BY DEF ContainerNext, StartUp, Agent, containerVars
<1> QED
  BY <1>1, <1>2, PTL DEF ContainerSpec, Spec

\* In the container, too, an agent of the openclaw runtime runs only on a prepared
\* state directory and behind the gateway that came up from it, unless another process
\* listens at the probe's URL (openclaw.sh:8, 30).
THEOREM AgentRunsPrepared == ContainerSpec => []AgentStartsPrepared
BY ScriptWithin, StartsPrepared, PTL

\* In the container, too, a start-up that failed leaves no gateway behind that was
\* not sent TERM (start-vmdocker-agent.sh:55).
THEOREM ContainerLeavesNone == ContainerSpec => []NoGatewayLeftBehind
BY ScriptWithin, NoneLeftBehind, PTL
=============================================================================
