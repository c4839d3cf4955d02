----------------------------- MODULE Entrypoint -----------------------------
(***************************************************************************)
(* The container's start-up: src/start-vmdocker-agent.sh with its hook     *)
(* src/bootstrap/openclaw.sh.  The script prepares the state directory,    *)
(* starts the gateway in the background, waits until it answers a health   *)
(* probe, and becomes the agent (exec).  It runs under set -eu with one    *)
(* trap for EXIT, INT and TERM, which sends TERM to the gateway and, on a  *)
(* signal, lets the script go on where it was.                             *)
(*                                                                         *)
(* A step is a command of the script.  The gateway is external, and so is  *)
(* whatever else listens: the probe goes to OPENCLAW_GATEWAY_URL when that *)
(* is set, wherever it points.                                             *)
(***************************************************************************)
EXTENDS Naturals

CONSTANTS
  WaitSeconds    \* OPENCLAW_GATEWAY_READY_WAIT_SECONDS

ASSUME AEntrypoint == WaitSeconds \in Nat

VARIABLES
  runtime,      \* RUNTIME_TYPE: "openclaw", or another that has no gateway
  pc,           \* the command the script is at; "main" once it is the agent
  prepared,     \* did bootstrap prepare succeed
  i,            \* the loop counter
  url,          \* the health URL of the probe: 1, /healthz, or 2, /health
  gateway,      \* the process the script launched: the shell's child, then the gateway
  other,        \* what else answers at the probe's URL: "none", it reaches the gateway
  registered,   \* is the gateway in BACKGROUND_PIDS
  heard,        \* a probe was answered
  term,         \* a TERM or INT that the script has not handled yet
  killed        \* the gateway was sent TERM

vars ==
  <<runtime, pc, prepared, i, url, gateway, other, registered, heard, term, killed>>

Script == {"check", "prepare", "launch", "wait", "probe", "curl", "sleep", "ready"}

TypeOK ==
  /\ runtime \in {"openclaw", "other"}
  /\ pc \in Script \cup {"main", "exited"}
  /\ prepared \in BOOLEAN
  /\ i \in 0 .. WaitSeconds
  /\ url \in 1 .. 2
  /\ gateway \in {"none", "forked", "booting", "serving", "refusing", "deaf", "dead",
                  "reaped"}
  /\ other \in {"none", "serving", "refusing", "deaf", "dead"}
  /\ registered \in BOOLEAN
  /\ heard \in BOOLEAN
  /\ term \in BOOLEAN
  /\ killed \in BOOLEAN

-----------------------------------------------------------------------------

\* cleanup_background_pids
cleanup == killed' = (killed \/ registered)

Goto(step) == pc' = step /\ UNCHANGED killed

\* entry_fail, bootstrap_fail, or set -e: the trap runs and the script ends.
Exit == pc' = "exited" /\ cleanup

\* main is there, the runtime type is known, the audit passes, the hook is
\* executable; any runtime but openclaw is ready then.
Check ==
  /\ pc = "check"
  /\ \/ Goto(IF runtime = "openclaw" THEN "prepare" ELSE "ready")
     \/ Exit
  /\ UNCHANGED <<runtime, prepared, i, url, gateway, other, registered, heard, term>>

\* eval "$(bootstrap prepare --shell)": when prepare fails it prints nothing, and
\* eval of nothing succeeds.
Prepare ==
  /\ pc = "prepare"
  /\ \/ prepared' \in BOOLEAN /\ Goto("launch")
     \/ Exit /\ UNCHANGED prepared
  /\ UNCHANGED <<runtime, i, url, gateway, other, registered, heard, term>>

\* Fault: without set -u the gateway starts, prepared or not.
Launch_Unset ==
  /\ pc = "launch"
  /\ gateway' = "booting"
  /\ registered' = TRUE
  /\ Goto("wait")
  /\ UNCHANGED <<runtime, prepared, i, url, other, heard, term>>

\* Fault: the gateway's pid is not registered.
Launch_Unregistered ==
  /\ pc = "launch"
  /\ gateway' = "forked"
  /\ Goto("wait")
  /\ UNCHANGED <<runtime, prepared, i, url, other, registered, heard, term>>

\* The shell forks the gateway's process, whether prepare failed or not.
Launch ==
  /\ pc = "launch"
  /\ gateway' = "forked"
  /\ registered' = TRUE
  /\ Goto("wait")
  /\ UNCHANGED <<runtime, prepared, i, url, other, heard, term>>

\* The child opens the log and becomes the gateway.  Without prepare's
\* OPENCLAW_GATEWAY_LOG_PATH the redirection is an error under set -u: the child ends,
\* and the script goes on meanwhile.
ChildStarts ==
  /\ gateway = "forked"
  /\ gateway' \in (IF prepared THEN {"booting", "dead"} ELSE {"dead"})
  /\ UNCHANGED <<runtime, pc, prepared, i, url, other, registered, heard, term, killed>>

\* The shell collects the child that ended, while it waits for another command or
\* between two.
Reap ==
  /\ gateway = "dead"
  /\ pc \in Script
  /\ gateway' = "reaped"
  /\ UNCHANGED <<runtime, pc, prepared, i, url, other, registered, heard, term, killed>>

\* The head of the loop: time is left and kill -0 finds the child, or the start fails.
\* It finds a child that has just been forked, and one that has ended and is not reaped.
Wait ==
  /\ pc = "wait"
  /\ \/ /\ i < WaitSeconds
        /\ gateway # "reaped"
        /\ url' = 1
        /\ Goto("probe")
     \/ (i = WaitSeconds \/ gateway = "reaped") /\ Exit /\ UNCHANGED url
  /\ UNCHANGED <<runtime, prepared, i, gateway, other, registered, heard, term>>

\* health_probe: curl, with no time limit.
Probe ==
  /\ pc = "probe"
  /\ Goto("curl")
  /\ UNCHANGED <<runtime, prepared, i, url, gateway, other, registered, heard, term>>

\* Who listens at ready_base.
Answerer == IF other = "none" THEN gateway ELSE other

\* curl is answered, or is refused (-f counts an error status); one that is deaf does
\* neither.
ProbeReturns ==
  /\ pc = "curl"
  /\ \/ /\ Answerer = "serving"
        /\ heard' = TRUE
        /\ Goto("ready")
        /\ UNCHANGED url
     \/ /\ Answerer \notin {"serving", "deaf"}
        /\ IF url = 1 THEN url' = 2 /\ Goto("probe")
                      ELSE url' = 1 /\ Goto("sleep")
        /\ UNCHANGED heard
  /\ UNCHANGED <<runtime, prepared, i, gateway, other, registered, term>>

\* Fault: the counter is not advanced.
Sleep_Uncounted ==
  /\ pc = "sleep"
  /\ Goto("wait")
  /\ UNCHANGED <<runtime, prepared, i, url, gateway, other, registered, heard, term>>

Sleep ==
  /\ pc = "sleep"
  /\ i' = i + 1
  /\ Goto("wait")
  /\ UNCHANGED <<runtime, prepared, url, gateway, other, registered, heard, term>>

\* exec main: the traps are gone, the gateway is main's child.
Exec ==
  /\ pc = "ready"
  /\ Goto("main")
  /\ UNCHANGED <<runtime, prepared, i, url, gateway, other, registered, heard, term>>

\* The trap runs when the command in the foreground has ended: not while curl waits.
\* The script goes on after it.
HandleTerm ==
  /\ term
  /\ pc \in Script \ {"curl"}
  /\ term' = FALSE
  /\ cleanup
  /\ UNCHANGED <<runtime, pc, prepared, i, url, gateway, other, registered, heard>>

ScriptStep ==
  \/ Check \/ Prepare \/ Launch \/ Wait \/ Probe \/ ProbeReturns \/ Sleep \/ Exec
  \/ HandleTerm

-----------------------------------------------------------------------------
(* The container and the gateway (external).                               *)

Signal ==
  /\ ~term
  /\ pc \in Script
  /\ term' = TRUE
  /\ UNCHANGED <<runtime, pc, prepared, i, url, gateway, other, registered, heard, killed>>

\* A server comes up, answers with errors, takes connections and never answers them
\* (deaf), or dies.
ServerMoves(from, to) ==
  \/ /\ from \in {"booting", "serving", "refusing"}
     /\ to \in {"serving", "refusing", "deaf", "dead"}
  \/ from = "deaf" /\ to = "dead"

\* The gateway; one that was sent TERM may go on for a while.
GatewayStep ==
  /\ ServerMoves(gateway, gateway')
  /\ UNCHANGED <<runtime, pc, prepared, i, url, other, registered, heard, term, killed>>

\* The process that is not this script's, while the script may probe it.
OtherStep ==
  /\ pc \in Script
  /\ ServerMoves(other, other')
  /\ UNCHANGED <<runtime, pc, prepared, i, url, gateway, registered, heard, term, killed>>

Init ==
  /\ runtime \in {"openclaw", "other"}
  /\ pc = "check"
  /\ prepared = FALSE
  /\ i = 0
  /\ url = 1
  /\ gateway = "none"
  /\ other \in (IF runtime = "openclaw" THEN {"none", "serving", "refusing"} ELSE {"none"})
  /\ registered = FALSE
  /\ heard = FALSE
  /\ term = FALSE
  /\ killed = FALSE

Next == ScriptStep \/ ChildStarts \/ Reap \/ Signal \/ GatewayStep \/ OtherStep

Spec == Init /\ [][Next]_vars

-----------------------------------------------------------------------------

\* The health check is one "for the embedded gateway" (readme.md:48): the openclaw agent
\* only ever starts behind a gateway that runs from a prepared state directory.  Nothing
\* tests whether prepare failed (openclaw.sh:8); it is the gateway that does not come up.
StartsBehindItsGateway == pc = "main" /\ runtime = "openclaw" => prepared /\ heard

\* So it is as long as the probe's URL reaches the launched process and no other
\* (openclaw.sh:30): although kill -0 finds an unprepared child that is about to end
\* (openclaw.sh:36), no probe of it is answered.
AgentStartsPrepared == other = "none" => StartsBehindItsGateway

\* However the start-up fails, whatever signals it got, it leaves no gateway behind
\* that was not told to stop.
NoGatewayLeftBehind == pc = "exited" => gateway \in {"none", "dead", "reaped"} \/ killed
=============================================================================
