------------------------------ MODULE Container ------------------------------
(***************************************************************************)
(* The container: the start-up script (Entrypoint) and the process it      *)
(* becomes with exec (AgentProcess).  The gateway lives on beside the      *)
(* agent; a TERM is the script's until the exec and the agent's after it.  *)
(* One that is still pending at the exec is lost with the script's trap.   *)
(***************************************************************************)
EXTENDS Entrypoint, AgentProcess

containerVars == <<vars, processVars>>

\* The script runs, and the agent is not there yet.
StartUp == Next /\ UNCHANGED processVars

\* The agent runs, where the script was.
Agent == pc = "main" /\ ProcessNext /\ UNCHANGED vars

ContainerInit == Init /\ ProcessInit

ContainerNext == StartUp \/ Agent

ContainerSpec == ContainerInit /\ [][ContainerNext]_containerVars

AgentStep(A) == pc = "main" /\ A /\ UNCHANGED vars

ScriptCommand(A) == A /\ UNCHANGED processVars

\* The script runs: it is not signalled for ever, so each command of its own is fair.
\* The two threads of the agent run and its timer fires.  Nothing is assumed of the
\* handlers, the clients, the gateway or the sender of signals.
FairContainer ==
  /\ ContainerSpec
  /\ WF_containerVars(ScriptCommand(Check)) /\ WF_containerVars(ScriptCommand(Prepare))
  /\ WF_containerVars(ScriptCommand(Launch)) /\ WF_containerVars(ScriptCommand(Wait))
  /\ WF_containerVars(ScriptCommand(Probe)) /\ WF_containerVars(ScriptCommand(ProbeReturns))
  /\ WF_containerVars(ScriptCommand(Sleep)) /\ WF_containerVars(ScriptCommand(Exec))
  /\ WF_containerVars(AgentStep(Main))
  /\ WF_containerVars(AgentStep(API))

-----------------------------------------------------------------------------

\* The container comes to serve its API, or ends; it stays up without an API only when
\* it could not listen (api.go:32), or when what listens at the probe's URL takes the
\* connection and never answers it ("Startup health-check timeout", readme.md:48).
ServesUnlessDeaf ==
  \/ <>(pc = "exited" \/ api \in {"serving", "failed"} \/ main = "exited")
  \/ <>[](pc = "curl" /\ Answerer = "deaf")

\* An agent that waits for signals and gets one ends, whatever its handlers and its
\* gateway do, and wherever the API goroutine is.
StopsWhenTold == (signal = "sent") ~> (main = "exited")
=============================================================================
