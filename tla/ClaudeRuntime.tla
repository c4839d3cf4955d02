--------------------------- MODULE ClaudeRuntime ---------------------------
(***************************************************************************)
(* The claude runtime (src/runtime/claudecode/claudecode.go).  An Apply    *)
(* runs the claude CLI once, and once more when the CLI succeeds with an   *)
(* empty text; the conversation lives in sessions the CLI keeps, and the   *)
(* runtime remembers the id of the last one.  Applies overlap: the lock    *)
(* covers single reads and writes of the state, not the call.              *)
(*                                                                         *)
(* The CLI is external.  With --resume it goes on in the session or in a   *)
(* fresh copy of it; it outlives the agent's process.  "log" is what each  *)
(* session has recorded: the turns <<call, attempt>>.                      *)
(***************************************************************************)
EXTENDS Naturals, FiniteSets

CONSTANTS
  Calls,        \* every Apply of a behaviour
  Ids,          \* the session ids the CLI can issue
  Models,       \* values of a setting: the model, the base URL or the directory
  None,         \* the empty string
  MaxSaved      \* bound: the different checkpoints a behaviour takes

ASSUME AClaude ==
  /\ None \notin Ids \cup Models
  /\ MaxSaved \in Nat

maxApplyAttempts == 2

VARIABLES
  up,         \* is there a runtime
  config,     \* config.Model (likewise BaseURL, Cwd): from the environment, fixed
  model,      \* state.Model
  session,    \* state.SessionID
  pc,         \* where a call is
  attempt,    \* its attempt
  cfg,        \* its snapshot of the setting
  resume,     \* the session id it passes to --resume
  tag,        \* the SessionID tag of its reply
  cli,        \* its CLI process
  text,       \* what the CLI printed: a text, an empty text, an error
  sid,        \* the session id the CLI printed
  log,        \* the turns each CLI session has recorded
  minted,     \* the session ids the CLI has issued
  saved,      \* the checkpoints handed out
  kept,       \* the turns acknowledged in the life of the runtime (history)
  restored,   \* the session id the runtime was restored with (history)
  overlapped  \* did a call ever start while another was on its way (history)

stateVars == <<up, config, model, session>>
callVars  == <<pc, attempt, cfg, resume, tag>>
cliVars   == <<cli, text, sid, log, minted>>
history   == <<kept, restored, overlapped>>
vars      == <<stateVars, callVars, cliVars, saved, history>>

Turns  == Calls \X (1 .. maxApplyAttempts)
Ended  == {"ok", "failed", "lost"}
Active == {"snapshot", "read", "launch", "running", "update", "tagging"}

\* turns is history: what was acknowledged when the checkpoint was taken.
Checkpoints == [session : Ids \cup {None}, model : Models \cup {None},
                turns : SUBSET Turns]

TypeOK ==
  /\ up \in BOOLEAN
  /\ config \in Models \cup {None}
  /\ model \in Models \cup {None}
  /\ session \in minted \cup {None}
  /\ pc \in [Calls -> {"idle"} \cup Active \cup Ended]
  /\ attempt \in [Calls -> 0 .. maxApplyAttempts]
  /\ cfg \in [Calls -> Models \cup {None}]
  /\ resume \in [Calls -> minted \cup {None}]
  /\ tag \in [Calls -> minted \cup {None}]
  /\ cli \in [Calls -> {"none", "running", "done", "killed", "gone"}]
  /\ text \in [Calls -> {"none", "text", "empty", "error"}]
  /\ sid \in [Calls -> minted \cup {None}]
  /\ log \in [Ids -> SUBSET Turns]
  /\ minted \subseteq Ids
  /\ saved \subseteq Checkpoints
  /\ kept \subseteq Turns
  /\ restored \in minted \cup {None}
  /\ overlapped \in BOOLEAN

-----------------------------------------------------------------------------
(* Apply.                                                                  *)

Goto(c, to) == pc' = [pc EXCEPT ![c] = to]

\* snapshotConfig: the state's setting wins over the configured one.
effective == IF model # None THEN model ELSE config

\* An Apply arrives; without a command it fails at once.
Start(c) ==
  /\ up
  /\ pc[c] = "idle"
  /\ overlapped' = (overlapped \/ \E d \in Calls : pc[d] \in Active)
  /\ Goto(c, "snapshot") \/ Goto(c, "failed")
  /\ UNCHANGED <<stateVars, cliVars, attempt, cfg, resume, tag, saved, kept, restored>>

snapshotConfig(c) ==
  /\ pc[c] = "snapshot"
  /\ cfg' = [cfg EXCEPT ![c] = effective]
  /\ Goto(c, "read")
  /\ UNCHANGED <<stateVars, cliVars, attempt, resume, tag, saved, history>>

\* The session id to resume, read once for the first attempt.
ReadSession(c) ==
  /\ pc[c] = "read"
  /\ resume' = [resume EXCEPT ![c] = session]
  /\ attempt' = [attempt EXCEPT ![c] = 1]
  /\ Goto(c, "launch")
  /\ UNCHANGED <<stateVars, cliVars, cfg, tag, saved, history>>

\* cmd.Run starts the CLI, or fails: no binary, or the deadline has passed already
\* (both attempts share it).
Launch(c) ==
  /\ pc[c] = "launch"
  /\ \/ Goto(c, "running") /\ cli' = [cli EXCEPT ![c] = "running"]
     \/ Goto(c, "failed") /\ UNCHANGED cli
  /\ UNCHANGED <<stateVars, attempt, cfg, resume, tag, text, sid, log, minted,
                 saved, history>>

\* Fault: exec.Command, without the context.
Deadline_Missing(c) == FALSE /\ UNCHANGED <<vars, c>>

\* The deadline: exec.CommandContext kills the CLI, and it alone.  A process the CLI
\* started may keep the output pipes open.
Deadline(c) ==
  /\ pc[c] = "running"
  /\ cli[c] = "running"
  /\ \/ cli' = [cli EXCEPT ![c] = "gone"]
     \/ cli' = [cli EXCEPT ![c] = "killed"]
  /\ UNCHANGED <<stateVars, callVars, text, sid, log, minted, saved, history>>

\* cmd.Run returned: the pipes are closed.  A deadline that has passed by now wins
\* over a complete answer; so do an exit status, output that does not decode, an
\* answer with neither text nor id, and is_error.
CollectFailure(c) ==
  /\ pc[c] = "running"
  /\ cli[c] \in {"done", "gone"}
  /\ Goto(c, "failed")
  /\ UNCHANGED <<stateVars, cliVars, attempt, cfg, resume, tag, saved, history>>

\* A text ends the loop.
CollectText(c) ==
  /\ pc[c] = "running"
  /\ cli[c] = "done"
  /\ text[c] = "text"
  /\ Goto(c, "update")
  /\ UNCHANGED <<stateVars, cliVars, attempt, cfg, resume, tag, saved, history>>

\* Fault: the session of an empty answer is adopted at once.
Retry_Adopts(c) ==
  /\ pc[c] = "running"
  /\ cli[c] = "done"
  /\ text[c] = "empty"
  /\ attempt[c] < maxApplyAttempts
  /\ attempt' = [attempt EXCEPT ![c] = @ + 1]
  /\ resume' = [resume EXCEPT ![c] = IF sid[c] # None THEN sid[c] ELSE @]
  /\ session' = IF sid[c] # None THEN sid[c] ELSE session
  /\ Goto(c, "launch")
  /\ UNCHANGED <<up, config, model, cliVars, cfg, tag, saved, history>>

\* Fault: the second attempt resumes what the first one did.
Retry_FromScratch(c) ==
  /\ pc[c] = "running"
  /\ cli[c] = "done"
  /\ text[c] = "empty"
  /\ attempt[c] < maxApplyAttempts
  /\ attempt' = [attempt EXCEPT ![c] = @ + 1]
  /\ Goto(c, "launch")
  /\ UNCHANGED <<stateVars, cliVars, cfg, resume, tag, saved, history>>

\* An empty text: the prompt is sent again, in the session the CLI named.
Retry(c) ==
  /\ pc[c] = "running"
  /\ cli[c] = "done"
  /\ text[c] = "empty"
  /\ attempt[c] < maxApplyAttempts
  /\ attempt' = [attempt EXCEPT ![c] = @ + 1]
  /\ resume' = [resume EXCEPT ![c] = IF sid[c] # None THEN sid[c] ELSE @]
  /\ Goto(c, "launch")
  /\ UNCHANGED <<stateVars, cliVars, cfg, tag, saved, history>>

\* Fault: the state takes the configured setting, not the one the call ran with.
updateState_FromConfig(c) ==
  /\ pc[c] = "update"
  /\ session' = IF sid[c] # None THEN sid[c] ELSE session
  /\ model' = config
  /\ kept' = IF sid[c] # None THEN kept \cup {<<c, attempt[c]>>} ELSE kept
  /\ Goto(c, "tagging")
  /\ UNCHANGED <<up, config, cliVars, attempt, cfg, resume, tag, saved, restored,
                 overlapped>>

\* Fault: the id the call resumed is written back.
updateState_Resumed(c) ==
  /\ pc[c] = "update"
  /\ session' = IF resume[c] # None THEN resume[c] ELSE sid[c]
  /\ model' = cfg[c]
  /\ kept' = IF sid[c] # None THEN kept \cup {<<c, attempt[c]>>} ELSE kept
  /\ Goto(c, "tagging")
  /\ UNCHANGED <<up, config, cliVars, attempt, cfg, resume, tag, saved, restored,
                 overlapped>>

\* Fault: an id is stored only when the state has none.
updateState_KeepsFirst(c) ==
  /\ pc[c] = "update"
  /\ session' = IF session = None THEN sid[c] ELSE session
  /\ model' = cfg[c]
  /\ kept' = IF sid[c] # None THEN kept \cup {<<c, attempt[c]>>} ELSE kept
  /\ Goto(c, "tagging")
  /\ UNCHANGED <<up, config, cliVars, attempt, cfg, resume, tag, saved, restored,
                 overlapped>>

\* The session the CLI named, if any, and the setting the call ran with, over
\* whatever the state holds by now.
updateState(c) ==
  /\ pc[c] = "update"
  /\ session' = IF sid[c] # None THEN sid[c] ELSE session
  /\ model' = cfg[c]
  /\ kept' = IF sid[c] # None THEN kept \cup {<<c, attempt[c]>>} ELSE kept
  /\ Goto(c, "tagging")
  /\ UNCHANGED <<up, config, cliVars, attempt, cfg, resume, tag, saved, restored,
                 overlapped>>

\* The reply carries the session id the state holds now.
Tag(c) ==
  /\ pc[c] = "tagging"
  /\ tag' = [tag EXCEPT ![c] = session]
  /\ Goto(c, "ok")
  /\ UNCHANGED <<stateVars, cliVars, attempt, cfg, resume, saved, history>>

Apply(c) ==
  \/ snapshotConfig(c) \/ ReadSession(c) \/ Launch(c) \/ Deadline(c)
  \/ CollectFailure(c) \/ CollectText(c) \/ Retry(c) \/ updateState(c) \/ Tag(c)

-----------------------------------------------------------------------------
(* The CLI (external).                                                     *)

\* The CLI records the turn, in the session it resumes or in a fresh one that
\* starts with the resumed one's turns, and prints the session's id, or not.
CLIAnswers(c) ==
  /\ \/ resume[c] # None /\ sid' = [sid EXCEPT ![c] = resume[c]] /\ UNCHANGED minted
     \/ \E s \in Ids \ minted : /\ sid' = [sid EXCEPT ![c] = s]
                                /\ minted' = minted \cup {s}
  /\ log' = [log EXCEPT ![sid'[c]] =
               {<<c, attempt[c]>>}
                 \cup (IF resume[c] # None THEN log[resume[c]] ELSE {})]
  /\ \E t \in {"text", "empty"} : text' = [text EXCEPT ![c] = t]

\* A text with no session id, or any of the failures.
CLIFails(c) ==
  /\ \E t \in {"text", "error"} : text' = [text EXCEPT ![c] = t]
  /\ sid' = [sid EXCEPT ![c] = None]
  /\ UNCHANGED <<log, minted>>

CLI(c) ==
  /\ cli[c] = "running"
  /\ CLIAnswers(c) \/ CLIFails(c)
  /\ cli' = [cli EXCEPT ![c] = "done"]
  /\ UNCHANGED <<stateVars, callVars, saved, history>>

\* What the killed CLI left behind ends.
LingererEnds(c) ==
  /\ cli[c] = "killed"
  /\ cli' = [cli EXCEPT ![c] = "gone"]
  /\ UNCHANGED <<stateVars, callVars, text, sid, log, minted, saved, history>>

-----------------------------------------------------------------------------
(* The life of the runtime.                                                *)

\* NewWithParams, with the environment of this process.
Spawn ==
  /\ ~up
  /\ up' = TRUE
  /\ config' \in Models \cup {None}
  /\ model' = config'
  /\ session' = None
  /\ kept' = {}
  /\ restored' = None
  /\ UNCHANGED <<callVars, cliVars, saved, overlapped>>

Checkpoint ==
  /\ up
  /\ Cardinality(saved) < MaxSaved
  /\ saved' = saved \cup {[session |-> session, model |-> model, turns |-> kept]}
  /\ UNCHANGED <<stateVars, callVars, cliVars, history>>

\* NewRestored, with the environment of this process: what it sets wins over the
\* checkpoint.
Restore ==
  /\ ~up
  /\ up' = TRUE
  /\ config' \in Models \cup {None}
  /\ \E s \in saved :
       /\ session' = s.session
       /\ model' = IF config' # None THEN config' ELSE s.model
       /\ kept' = s.turns
       /\ restored' = s.session
  /\ UNCHANGED <<callVars, cliVars, saved, overlapped>>

\* The agent's process dies, with what its calls held; a CLI it started runs on.
Crash ==
  /\ up
  /\ up' = FALSE
  /\ pc' = [c \in Calls |-> IF pc[c] \in {"idle", "failed"} THEN pc[c] ELSE "lost"]
  /\ cfg' = [c \in Calls |-> None]
  /\ tag' = [c \in Calls |-> None]
  /\ UNCHANGED <<config, model, session, attempt, resume, cliVars, saved, history>>

Init ==
  /\ up = FALSE
  /\ config = None
  /\ model = None
  /\ session = None
  /\ pc = [c \in Calls |-> "idle"]
  /\ attempt = [c \in Calls |-> 0]
  /\ cfg = [c \in Calls |-> None]
  /\ resume = [c \in Calls |-> None]
  /\ tag = [c \in Calls |-> None]
  /\ cli = [c \in Calls |-> "none"]
  /\ text = [c \in Calls |-> "none"]
  /\ sid = [c \in Calls |-> None]
  /\ log = [s \in Ids |-> {}]
  /\ minted = {}
  /\ saved = {}
  /\ kept = {}
  /\ restored = None
  /\ overlapped = FALSE

Next ==
  \/ \E c \in Calls : Start(c) \/ Apply(c) \/ CLI(c) \/ LingererEnds(c)
  \/ Spawn \/ Checkpoint \/ Restore \/ Crash

Spec == Init /\ [][Next]_vars

\* Goroutines run and the deadline passes.  Nothing is assumed of the CLI or of what
\* it leaves behind.
FairSpec == Spec /\ \A c \in Calls : WF_vars(Apply(c))

-----------------------------------------------------------------------------

\* The runtime never goes on in a session of a call that failed: not of one that
\* timed out, nor of one whose answers were empty (claudecode.go:257).
FailedSessionNotAdopted ==
  session \in {None, restored}
    \cup {sid[c] : c \in {d \in Calls : pc[d] \in {"tagging", "ok", "lost"}}}

\* The second attempt goes on where the first one left: the session it ends in has
\* recorded both, however calls overlap.
RetryContinues ==
  \A c \in Calls :
    pc[c] \in {"tagging", "ok"} /\ attempt[c] = 2 /\ sid[c] # None
      => <<c, 1>> \in log[sid[c]]

\* The setting the CLI runs with does not change in the life of a runtime, although
\* every call writes it back.
SettingStable == [][up /\ up' => effective' = effective]_vars

\* A caller that waits for each answer loses nothing it was told: every turn
\* acknowledged, before and since the checkpoint the runtime was restored from, is
\* recorded in the session the next call resumes.
AcknowledgedTurnsKept ==
  up /\ ~overlapped => \A turn \in kept : session # None /\ turn \in log[session]

\* To such a caller a reply names the session its turn is recorded in.
ReplyNamesItsSession ==
  ~overlapped => \A c \in Calls : pc[c] = "ok" /\ sid[c] # None => tag[c] = sid[c]

\* "Optional Claude CLI timeout in milliseconds" (readme.md:27): a call ends,
\* whatever the CLI does.
EveryCallEnds ==
  \A c \in Calls : (pc[c] \in Active) ~> (pc[c] \in Ended)

\* A call ends, or waits for a process that a killed CLI left behind.
EndsUnlessHeld ==
  \A c \in Calls : (pc[c] \in Active) ~> (pc[c] \in Ended \/ cli[c] = "killed")
=============================================================================
