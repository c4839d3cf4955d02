----------------------------- MODULE Migration -----------------------------
(***************************************************************************)
(* The life of a runtime over several containers: the platform starts an   *)
(* agent with some environment, spawns a runtime in it or restores one     *)
(* from a checkpoint that an earlier agent handed out, and may take it     *)
(* away again at any time (src/runtime/runtime.go and the four runtimes it *)
(* chooses from).  The next agent may have another environment: another    *)
(* runtime type, other settings, no binary.                                *)
(*                                                                         *)
(* One request at a time starts a runtime here (AgentServer has the ones   *)
(* that overlap), in the order of the constructors: configuration or       *)
(* gateway, then the checkpoint, then the bot.  What happens inside the    *)
(* calls of a runtime that is up is in OpenclawRuntime and ClaudeRuntime:  *)
(* here a call may only leave another session id.                          *)
(***************************************************************************)
EXTENDS RuntimeConfig, FiniteSets

CONSTANTS
  Environments,  \* of the agents' processes
  RequestTags,   \* the tags of a spawn or restore
  Ids,           \* session ids
  None,          \* no session id; no checkpoint
  MaxSaved       \* bound: the checkpoints handed out

\* The variables that name a model hold texts, as do the tags of a request.  The flags
\* are any text: line is history, the arguments that whoever wrote them had in mind.
ASSUME AMigration ==
  /\ \A e \in Environments : /\ e.anthropic \in Seq(STRING)
                             /\ e.claude \in Seq(STRING)
                             /\ e.line \in Seq(Word)
  /\ \A tags \in RequestTags : \A name \in DOMAIN tags : tags[name] \in Seq(STRING)

VARIABLES
  phase,    \* "off", "idle" (no runtime), then the steps of a start: "load",
            \* "restore", "bot"; "up"
  env,      \* the environment of the process
  request,  \* the request that starts a runtime: its tags and checkpoint, if any
  kind,     \* the runtime type
  config,   \* Config
  state,    \* checkpointState: the session and the model
  bots,     \* the Telegram bots the process runs
  saved,    \* the checkpoints handed out
  origin,   \* the checkpoint the runtime was restored from (history)
  due       \* the session and the model this runtime should have: the session its last
            \* call, or its last ancestor's by way of checkpoints, ended in, and the
            \* model that an environment or a tag gave last to any of them (history)

vars == <<phase, env, request, kind, config, state, bots, saved, origin, due>>

CLIKinds == {"claude", "telegramcustomer"}
Types    == CLIKinds \cup {"test", "openclaw"}
Starting == {"load", "restore", "bot"}

NoRequest == [tags |-> <<>>, from |-> None]
NoState  == [session |-> None, model |-> Empty]
NoConfig == [model |-> Empty, flags |-> <<>>]

\* by and due are history: the kind of runtime that handed it out, and its due state.
Saved(format, content, by, ought) ==
  [format |-> format, session |-> content.session, model |-> content.model,
   by |-> by, due |-> ought]

\* What the test runtime hands out, the empty text; and a document with a session but no
\* format, which the checks let pass.
BlankCheckpoint == Saved("blank", NoState, "test", NoState)
Formatless      == {Saved("none", [NoState EXCEPT !.session = s], "other",
                          [NoState EXCEPT !.session = s]) : s \in Ids}

-----------------------------------------------------------------------------

\* RUNTIME_TYPE; unset is the test runtime.
runtimeType == IF env.type = "unset" THEN "test" ELSE env.type

\* A spawn or a restore reaches newRuntime.
Request ==
  /\ phase = "idle"
  /\ \E tags \in RequestTags, from \in saved \cup {None} :
       request' = [tags |-> tags, from |-> from]
  /\ phase' = "load"
  /\ kind' = runtimeType
  /\ UNCHANGED <<env, config, state, bots, saved, origin, due>>

\* The request fails, and leaves no runtime.
Refuse ==
  /\ phase' = "idle"
  /\ kind' = "none"
  /\ config' = NoConfig
  /\ state' = NoState
  /\ origin' = None
  /\ due' = NoState
  /\ request' = NoRequest
  /\ UNCHANGED <<env, bots, saved>>

Step(to) == phase' = to /\ UNCHANGED <<env, request, kind, bots, saved>>

AfterLoad == IF request.from # None THEN "restore" ELSE "bot"

\* A spawned Telegram runtime makes up its session id; a claude one has none yet; that
\* of an openclaw one is the gateway's.
LoadCLI ==
  /\ kind \in CLIKinds
  /\ \/ LoadFails(kind, env, request.tags) /\ Refuse
     \/ /\ ~LoadFails(kind, env, request.tags)
        /\ config' = loadConfig(env, request.tags)
        /\ state' \in {[session |-> s, model |-> config'.model] :
                         s \in IF kind = "telegramcustomer" /\ request.from = None
                               THEN Ids ELSE {None}}
        /\ due' = state'
        /\ Step(AfterLoad)
        /\ UNCHANGED origin

LoadOpenclaw ==
  /\ kind = "openclaw"
  /\ \/ Refuse
     \/ /\ state' \in {[NoState EXCEPT !.session = s] :
                         s \in IF request.from = None THEN Ids ELSE {None}}
        /\ due' = state'
        /\ Step(AfterLoad)
        /\ UNCHANGED <<config, origin>>

\* newRuntime's switch.  The test runtime takes no notice of a checkpoint; any other
\* type is an error.
newRuntime ==
  /\ phase = "load"
  /\ \/ LoadCLI
     \/ LoadOpenclaw
     \/ kind = "test" /\ Step("up") /\ origin' = request.from /\ UNCHANGED <<config, state, due>>
     \/ kind \notin Types /\ Refuse

Format == [openclaw |-> "openclaw", claude |-> "claude", telegramcustomer |-> "telegramcustomer"]

\* Fault: the format of a checkpoint is not compared.
Accepts_AnyFormat(k, checkpoint) ==
  /\ checkpoint.format # "blank"
  /\ k = "openclaw" => checkpoint.session # None

\* Does a runtime's Restore accept a checkpoint.
Accepts(k, checkpoint) ==
  /\ checkpoint.format \in {"none", Format[k]}
  /\ k = "openclaw" => checkpoint.session # None

\* The history of a restore.
Inherit ==
  /\ origin' = request.from
  /\ due' = [session |-> request.from.due.session,
             model   |-> IF config.model # Empty THEN config.model ELSE request.from.due.model]

\* Fault: the checkpoint gives the session alone.
RestoreState_SessionOnly ==
  /\ phase = "restore"
  /\ IF Accepts(kind, request.from)
     THEN /\ state' = [state EXCEPT !.session = request.from.session]
          /\ Inherit
          /\ Step("bot")
          /\ UNCHANGED config
     ELSE Refuse

\* Restore: the session is the checkpoint's, and so is the model unless the
\* configuration has one.
RestoreState ==
  /\ phase = "restore"
  /\ IF Accepts(kind, request.from)
     THEN /\ state' = [session |-> request.from.session,
                       model   |-> OrElse(config.model, request.from.model)]
          /\ Inherit
          /\ Step("bot")
          /\ UNCHANGED config
     ELSE Refuse

\* Fault: the bot is started before the checkpoint is looked at.
RunByHymx_First ==
  \/ /\ phase = "load"
     /\ kind = "telegramcustomer"
     /\ bots = 0
     /\ bots' = 1
     /\ UNCHANGED <<phase, env, request, kind, config, state, saved, origin, due>>
  \/ /\ phase = "bot"
     /\ Step("up")
     /\ UNCHANGED <<config, state, origin, due>>

\* The bot of a Telegram runtime starts, or cannot.
RunByHymx ==
  /\ phase = "bot"
  /\ \/ kind = "telegramcustomer" /\ Refuse
     \/ /\ bots' = IF kind = "telegramcustomer" THEN bots + 1 ELSE bots
        /\ phase' = "up"
        /\ UNCHANGED <<env, request, kind, config, state, saved, origin, due>>

\* A call of an openclaw or claude runtime leaves another session id; openclaw's may
\* leave none.  A Telegram runtime's Apply is not implemented.
Apply ==
  /\ phase = "up"
  /\ kind \in {"openclaw", "claude"}
  /\ \E s \in Ids \cup {None} :
       /\ s = None => kind = "openclaw"
       /\ state' = [state EXCEPT !.session = s]
       /\ due' = [due EXCEPT !.session = s]
  /\ UNCHANGED <<phase, env, request, kind, config, bots, saved, origin>>

\* Checkpoint; an openclaw runtime without a session refuses.
Checkpoint ==
  /\ phase = "up"
  /\ Cardinality(saved) < MaxSaved
  /\ kind = "openclaw" => state.session # None
  /\ saved' = saved \cup
       {IF kind = "test" THEN BlankCheckpoint ELSE Saved(Format[kind], state, kind, due)}
  /\ UNCHANGED <<phase, env, request, kind, config, state, bots, origin, due>>

\* An agent starts (external).
Boot ==
  /\ phase = "off"
  /\ phase' = "idle"
  /\ env' \in Environments
  /\ UNCHANGED <<request, kind, config, state, bots, saved, origin, due>>

\* The agent is stopped, or dies.  What it ran is gone, its bot with it (external).
Stop ==
  /\ phase # "off"
  /\ phase' = "off"
  /\ env' = None
  /\ request' = NoRequest
  /\ kind' = "none"
  /\ config' = NoConfig
  /\ state' = NoState
  /\ bots' = 0
  /\ origin' = None
  /\ due' = NoState
  /\ UNCHANGED saved
Init ==
  /\ phase = "off"
  /\ env = None
  /\ request = NoRequest
  /\ kind = "none"
  /\ config = NoConfig
  /\ state = NoState
  /\ bots = 0
  /\ saved \in {{}} \cup {{f} : f \in Formatless}
  /\ origin = None
  /\ due = NoState

Next ==
  \/ Boot \/ Request \/ newRuntime \/ RestoreState \/ RunByHymx \/ Apply \/ Checkpoint
  \/ Stop

Spec == Init /\ [][Next]_vars

-----------------------------------------------------------------------------

\* A checkpoint comes back only in the kind of runtime that handed it out, however the
\* environments differ; the test runtime takes any, and a document without a format is
\* taken by any kind (runtime.go:52, claudecode.go:417).
RestoredInKind ==
  phase = "up" /\ origin # None /\ kind # "test" => origin.by \in {kind, "other"}

\* Over any number of migrations a runtime goes on in the session that its ancestors
\* ended in, and with the model that its environment or tags, or else the nearest
\* ancestor's, gave it (claudecode.go:431, openclaw.go:333).
MigrationKeepsState == phase = "up" /\ kind # "test" => state = due

\* The process runs the bot of its runtime and no other, whatever requests were refused
\* before it was up (telegramcustomer.go:92).
OneBot == bots = IF phase = "up" /\ kind = "telegramcustomer" THEN 1 ELSE 0

\* "Quote values with spaces" (readme.md:28): the arguments of a CLI are the ones that
\* were meant, however each is quoted or escaped (claudecode.go:164).
FlagsAsMeant ==
  phase \in {"restore", "bot", "up"} /\ kind \in CLIKinds /\ env.flags = Written(env.line)
    => config.flags = [i \in DOMAIN env.line |-> env.line[i].text]
=============================================================================
