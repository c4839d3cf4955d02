-------------------------- MODULE BootstrapConfig --------------------------
(***************************************************************************)
(* PrepareOpenclawRuntime (src/utils/openclaw_bootstrap.go): at every      *)
(* start of the container it lays out the state directory, copies the      *)
(* configuration template the first time, and writes the managed settings  *)
(* over whatever configuration it finds.  The directory outlives the       *)
(* container, which may die between any two file operations; the next      *)
(* start, perhaps in another environment, finds what was left.             *)
(*                                                                         *)
(* A configuration is its gateway mode, one managed setting (the primary   *)
(* model; the workspace is set the same way) and the rest.                 *)
(***************************************************************************)
EXTENDS Naturals

CONSTANTS
  Modes,       \* values of OPENCLAW_GATEWAY_MODE
  Models,      \* values of the managed model
  None,        \* not set
  MaxFaults    \* bound: crashes and failed operations in a behaviour

ASSUME ABootstrap ==
  /\ None \notin Modes \cup Models
  /\ MaxFaults \in Nat

VARIABLES
  pc,         \* where the start-up is
  target,     \* the write of the configuration it is at: "template" or "managed"
  env,        \* the environment of this start
  draft,      \* the text to write
  config,     \* openclaw.json
  tmp,        \* openclaw.json.tmp
  sessions,   \* sessions.json
  faults

vars == <<pc, target, env, draft, config, tmp, sessions, faults>>

Whole(mode, model, rest) ==
  [form |-> "whole", mode |-> mode, model |-> model, rest |-> rest]
Absent == [form |-> "absent", mode |-> None, model |-> None, rest |-> None]
Torn   == [form |-> "torn", mode |-> None, model |-> None, rest |-> None]

Configs == {Whole(g, m, r) : g \in Modes \cup {None}, m \in Models \cup {None},
                             r \in {"template", "edited"}}
Files   == Configs \cup {Absent, Torn}

\* A start-up is on its way; otherwise the container is down, or up and serving.
Preparing == pc \notin {"down", "up"}

TypeOK ==
  /\ pc \in {"down", "layout", "sessions", "materialize", "managed",
             "open", "write", "rename", "remove", "up"}
  /\ target \in {"template", "managed"}
  /\ env \in [mode : Modes \cup {None}, model : Models \cup {None}]
  /\ draft \in Configs \cup {Absent}
  /\ config \in Files
  /\ tmp \in Files
  /\ sessions \in {"absent", "empty", "initial", "used"}
  /\ faults \in 0 .. MaxFaults

-----------------------------------------------------------------------------

\* A file operation fails: prepare exits, and the container is started again.
Fail ==
  /\ faults < MaxFaults
  /\ faults' = faults + 1
  /\ pc' = "down"

Goto(step) == pc' = step /\ UNCHANGED faults

Boot ==
  /\ pc = "down"
  /\ env' \in [mode : Modes \cup {None}, model : Models \cup {None}]
  /\ Goto("layout")
  /\ UNCHANGED <<target, draft, config, tmp, sessions>>

\* Fault: sessions.json is written without a look at what is there.
EnsureOpenclawStateLayout_NoStat ==
  /\ pc = "layout"
  /\ sessions' = "empty"
  /\ Goto("sessions")
  /\ UNCHANGED <<target, env, draft, config, tmp>>

\* The directories, then sessions.json: any file of that name is left alone, and
\* a missing one is created, empty at first.
EnsureOpenclawStateLayout ==
  /\ pc = "layout"
  /\ \/ sessions # "absent" /\ Goto("materialize") /\ UNCHANGED sessions
     \/ sessions = "absent" /\ Goto("sessions") /\ sessions' = "empty"
     \/ Fail /\ UNCHANGED sessions
  /\ UNCHANGED <<target, env, draft, config, tmp>>

\* WriteFile's write of "{}": here a crash leaves the file empty for good.
WriteSessions ==
  /\ pc = "sessions"
  /\ \/ Goto("materialize") /\ sessions' = "initial"
     \/ Fail /\ UNCHANGED sessions
  /\ UNCHANGED <<target, env, draft, config, tmp>>

\* Fault: the mode of this start is written over an existing configuration.
MaterializeOpenclawConfig_EveryStart ==
  /\ pc = "materialize"
  /\ \/ /\ config.form # "torn"
        /\ draft' = IF config = Absent THEN Whole(env.mode, None, "template")
                    ELSE [config EXCEPT !.mode = env.mode]
        /\ target' = "template"
        /\ Goto("open")
     \/ Fail /\ UNCHANGED <<draft, target>>
  /\ UNCHANGED <<env, config, tmp, sessions>>

\* Only when there is no configuration: the template, with the mode of this start.
MaterializeOpenclawConfig ==
  /\ pc = "materialize"
  /\ \/ config # Absent /\ Goto("managed") /\ UNCHANGED <<draft, target>>
     \/ /\ config = Absent
        /\ draft' = Whole(env.mode, None, "template")
        /\ target' = "template"
        /\ Goto("open")
     \/ Fail /\ UNCHANGED <<draft, target>>
  /\ UNCHANGED <<env, config, tmp, sessions>>

Managed(c) == IF env.model = None THEN c ELSE [c EXCEPT !.model = env.model]

\* Fault: a configuration that has a model keeps it.
ApplyManagedOpenclawConfig_KeepsOld ==
  /\ pc = "managed"
  /\ \/ /\ config \in Configs
        /\ config.model # None \/ Managed(config) = config
        /\ Goto("up")
        /\ UNCHANGED <<draft, target>>
     \/ /\ config \in Configs
        /\ config.model = None /\ Managed(config) # config
        /\ draft' = Managed(config)
        /\ target' = "managed"
        /\ Goto("open")
     \/ config = Torn /\ Goto("down") /\ UNCHANGED <<draft, target>>
     \/ Fail /\ UNCHANGED <<draft, target>>
  /\ UNCHANGED <<env, config, tmp, sessions>>

\* The managed settings, over what the file says; nothing is written when nothing
\* changes.  A file that does not decode fails the start.
ApplyManagedOpenclawConfig ==
  /\ pc = "managed"
  /\ \/ /\ config \in Configs
        /\ Managed(config) = config
        /\ Goto("up")
        /\ UNCHANGED <<draft, target>>
     \/ /\ config \in Configs
        /\ Managed(config) # config
        /\ draft' = Managed(config)
        /\ target' = "managed"
        /\ Goto("open")
     \/ config = Torn /\ Goto("down") /\ UNCHANGED <<draft, target>>
     \/ Fail /\ UNCHANGED <<draft, target>>
  /\ UNCHANGED <<env, config, tmp, sessions>>

-----------------------------------------------------------------------------
(* atomicWriteFile.                                                        *)

\* Fault: a temporary file left behind is an error.
OpenTmp_Exclusive ==
  /\ pc = "open"
  /\ \/ tmp = Absent /\ Goto("write") /\ tmp' = Torn
     \/ tmp # Absent /\ Goto("down") /\ UNCHANGED tmp
     \/ Fail /\ UNCHANGED tmp
  /\ UNCHANGED <<target, env, draft, config, sessions>>

\* The temporary file is created or truncated.
OpenTmp ==
  /\ pc = "open"
  /\ \/ Goto("write") /\ tmp' = Torn
     \/ Fail /\ UNCHANGED tmp
  /\ UNCHANGED <<target, env, draft, config, sessions>>

WriteTmp ==
  /\ pc = "write"
  /\ \/ Goto("rename") /\ tmp' = draft
     \/ Fail /\ UNCHANGED tmp
  /\ UNCHANGED <<target, env, draft, config, sessions>>

RenameTmp ==
  /\ pc = "rename"
  /\ \/ /\ config' = tmp
        /\ tmp' = Absent
        /\ Goto(IF target = "template" THEN "managed" ELSE "up")
     \/ /\ faults < MaxFaults
        /\ faults' = faults + 1
        /\ pc' = "remove"
        /\ UNCHANGED <<config, tmp>>
  /\ UNCHANGED <<target, env, draft, sessions>>

\* The rename failed, and so does prepare.
RemoveTmp ==
  /\ pc = "remove"
  /\ tmp' = Absent
  /\ Goto("down")
  /\ UNCHANGED <<target, env, draft, config, sessions>>

PrepareOpenclawRuntime ==
  \/ EnsureOpenclawStateLayout \/ WriteSessions
  \/ MaterializeOpenclawConfig \/ ApplyManagedOpenclawConfig
  \/ OpenTmp \/ WriteTmp \/ RenameTmp \/ RemoveTmp

-----------------------------------------------------------------------------
(* The rest of the world (external).                                       *)

\* The user, or the gateway, edits the configuration, damages or removes it.
Edit ==
  /\ ~Preparing
  /\ config' \in Files
  /\ UNCHANGED <<pc, target, env, draft, tmp, sessions, faults>>

\* The gateway records sessions.
UseSessions ==
  /\ pc = "up"
  /\ sessions' = "used"
  /\ UNCHANGED <<pc, target, env, draft, config, tmp, faults>>

\* The container dies.
Crash ==
  /\ pc # "down"
  /\ Fail
  /\ UNCHANGED <<target, env, draft, config, tmp, sessions>>

Init ==
  /\ pc = "down"
  /\ target = "template"
  /\ env = [mode |-> None, model |-> None]
  /\ draft = Absent
  /\ config = Absent
  /\ tmp = Absent
  /\ sessions = "absent"
  /\ faults = 0

Next == Boot \/ PrepareOpenclawRuntime \/ Edit \/ UseSessions \/ Crash

Spec == Init /\ [][Next]_vars

\* The container is restarted when it is down, and prepare runs.
FairSpec == Spec /\ WF_vars(Boot \/ PrepareOpenclawRuntime)

-----------------------------------------------------------------------------

\* Whatever dies or fails, and wherever, a start changes the configuration only as
\* a whole: from nothing to the template with the mode of that start ("only when
\* the config file is first materialized", readme.md:47), and from what it finds to
\* the same with the managed settings of that start.  Edits survive every restart.
ConfigChangesWhole ==
  [][Preparing /\ config' # config =>
       \/ config = Absent /\ config' = Whole(env.mode, None, "template")
       \/ config \in Configs /\ config' = Managed(config)]_vars

\* A container that comes up has a configuration with its own environment's managed
\* settings, whatever an earlier start in another environment left half done.
ComesUpManaged ==
  [][pc # "up" /\ pc' = "up" =>
       config' \in Configs /\ (env.model # None => config'.model = env.model)]_vars

\* Sessions the gateway recorded are never lost to a restart.
SessionsKept == [][sessions = "used" => sessions' = "used"]_vars

\* What a crash or a failure leaves behind never stands in the way of the next
\* start: once faults stop the container comes up, unless its configuration is
\* damaged from outside.
BootsAgain == <>[](pc = "up") \/ []<>(config = Torn)
=============================================================================
