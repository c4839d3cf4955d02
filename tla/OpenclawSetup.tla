--------------------------- MODULE OpenclawSetup ---------------------------
(***************************************************************************)
(* The calls of the openclaw runtime that set something up outside the     *)
(* session: the spawn's set-up as its tags ask for it, Configure and       *)
(* ApprovePairing (src/runtime/openclaw/setup.go), with the configuration  *)
(* the gateway keeps and the openclaw command the agent runs.  It refines  *)
(* OpenclawRuntime, where such a call is one request, or a choice of       *)
(* requests: the rest of that module's calls are taken over as they are.   *)
(*                                                                         *)
(* A configuration is the set of edits it contains, which is also its      *)
(* hash.  An option is <<>> or <<value>>.  One context with one deadline   *)
(* covers a call, the command it runs and all its requests (openclaw.go:79,*)
(* 133).  The gateway, the command and the configuration's other editors   *)
(* are external.                                                           *)
(***************************************************************************)
EXTENDS OpenclawRuntime, RequestFields

CONSTANTS
  Applies,      \* the other Applies that a behaviour may have (a bound, within Ops)
  SpawnTags,    \* the tags of a spawn
  ConfigTags,   \* the parameters of a Configure
  HashAnswers,  \* the documents that answer a config.get: "current" stands for the
                \* hash of the configuration, other texts are other hashes
  User,         \* whoever edits the configuration past this agent
  Other         \* a hash that is none of this configuration's

ASSUME ASetup ==
  /\ \A tags \in SpawnTags : \A name \in DOMAIN tags : tags[name] \in Seq(STRING)
  /\ Other \notin Calls \cup {User}
  /\ \A answer \in HashAnswers : Document(answer)

VARIABLES
  wants,    \* what the tags of a spawn, or the parameters of a Configure, ask for
  hash,    \* the base hash a Configure sends (option)
  seen,    \* the configuration it knows of by that hash (history, option)
  cli,     \* the openclaw command a call runs: "none", "running", "blocked" on a
           \* full standard error, or ended: "ok", "failed"
  held,    \* does another process hold the output pipes of an ended command
  spent,   \* the deadline of a call that waited for a command has passed
  did,     \* what a call has brought about outside so far (history)
  config   \* the gateway's configuration

setupVars == <<wants, hash, seen, cli, held, spent, did, config>>
allVars   == <<vars, setupVars>>

SetupOps  == {"config", "approve"}
CommandPc == {"reading", "pairing"}
SetupPc   == {"hash", "hashing", "reload", "choose", "telegram", "approve"} \cup CommandPc
Edits     == Calls \cup {User}
Effects   == {"key", "model", "patch", "command", "gateway"}

\* What the tags of a spawn ask for.
Wanted(t) ==
  LET provider == extractProviderName(t)
  IN  [apiKey   |-> extractModelAPIKey(t),
       provider |-> provider,
       profile  |-> extractAuthProfileID(provider, t),
       given    |-> splitModelName(extractModelInput(t)),
       model    |-> extractModelName(t),
       telegram |-> buildTelegramConfigPatch(t)]

\* What a step of a call leaves of its own variables: those of a call that has ended
\* are gone.
Forget(c, f, none) == IF pc'[c] \in Ended THEN [f EXCEPT ![c] = none] ELSE f

ForgetEnded(c) ==
  /\ wants'  = Forget(c, wants, <<>>)
  /\ hash'  = Forget(c, hash, <<>>)
  /\ seen'  = Forget(c, seen, <<>>)
  /\ spent' = Forget(c, spent, FALSE)
  /\ did'   = Forget(c, did, {})

\* A step of OpenclawRuntime.
Base(c, step) == step /\ ForgetEnded(c) /\ UNCHANGED <<cli, held, config>>

\* A step that leaves the runtime, the gateway's sessions and the wire alone.
Local(c) == UNCHANGED <<saved, history, gatewayVars, data, tag>>

Failing(c) ==
  Local(c) /\ Fail(c) /\ ForgetEnded(c) /\ UNCHANGED <<op, ask, key, cli, held, config>>

\* A call goes on to another place in the code, with the request it made as it was.
Pass(c, to) ==
  Local(c) /\ Goto(c, to) /\ ForgetEnded(c) /\ UNCHANGED <<phase, session, op, ask, key>>

-----------------------------------------------------------------------------
(* SetupOnSpawn, from the tags.                                            *)

SpawnStarts(c) ==
  /\ StartSpawn(c)
  /\ \E t \in SpawnTags : wants' = [wants EXCEPT ![c] = Wanted(t)]
  /\ UNCHANGED <<hash, seen, cli, held, spent, did, config>>

\* An API key goes to an auth store, under its provider (AuthStore has the files: it may
\* be the fallback's, setup.go:110).
StoreKey(c) ==
  /\ did' = [did EXCEPT ![c] = @ \cup {"key"}]
  /\ Local(c)
  /\ Goto(c, "reload")
  /\ UNCHANGED <<phase, session, op, ask, key, wants, hash, seen, spent, cli, held, config>>

SetupKey(c) ==
  /\ pc[c] = "configure"
  /\ ask[c] = "create"
  /\ IF wants[c].apiKey = Empty
     THEN Pass(c, "choose") /\ UNCHANGED <<cli, held, config>>
     ELSE \/ Failing(c)
          \/ /\ wants[c].provider # Empty
             /\ wants[c].profile # Empty
             /\ StoreKey(c)

\* runSecretsReload: switched off, not started, or started.
runSecretsReload(c) ==
  /\ pc[c] = "reload"
  /\ \/ Pass(c, "choose") /\ UNCHANGED cli
     \/ Pass(c, "reading") /\ cli' = [cli EXCEPT ![c] = "running"]
  /\ UNCHANGED <<held, config>>

\* Both pipes are read to their ends and the command has ended; how, is ignored.
ReloadEnds(c) ==
  /\ pc[c] = "reading"
  /\ cli[c] \in {"ok", "failed"}
  /\ ~held[c]
  /\ Pass(c, "choose")
  /\ cli' = [cli EXCEPT ![c] = "none"]
  /\ UNCHANGED <<held, config>>

\* Fault: the model is not configured when the API key was stored.
SetupModel_Skipped(c) ==
  /\ pc[c] = "choose"
  /\ Pass(c, "telegram")
  /\ UNCHANGED <<cli, held, config>>

\* Fault: the fallback session is not excepted.
SetupModel_EvenFallback(c) ==
  /\ pc[c] = "choose"
  /\ IF wants[c].model = Empty
     THEN Pass(c, "telegram")
     ELSE /\ ask' = [ask EXCEPT ![c] = "model"]
          /\ key' = [key EXCEPT ![c] = session]
          /\ Goto(c, "ready")
          /\ Local(c)
          /\ ForgetEnded(c)
          /\ UNCHANGED <<phase, session, op>>
  /\ UNCHANGED <<cli, held, config>>

\* The model is configured unless the session is the fallback one.
SetupModel(c) ==
  /\ pc[c] = "choose"
  /\ IF wants[c].model = Empty \/ session = Fallback
     THEN Pass(c, "telegram")
     ELSE /\ ask' = [ask EXCEPT ![c] = "model"]
          /\ key' = [key EXCEPT ![c] = session]
          /\ Goto(c, "ready")
          /\ Local(c)
          /\ ForgetEnded(c)
          /\ UNCHANGED <<phase, session, op>>
  /\ UNCHANGED <<cli, held, config>>

\* The runtime serves.
Serves(c) == phase' = "up" /\ Goto(c, "ok") /\ UNCHANGED ask

\* A Telegram patch is sent without a base hash.
SetupTelegram(c) ==
  /\ pc[c] = "telegram" \/ (pc[c] = "configure" /\ ask[c] = "model")
  /\ IF wants[c].telegram
     THEN ask' = [ask EXCEPT ![c] = "plain"] /\ Goto(c, "ready") /\ UNCHANGED phase
     ELSE Serves(c)
  /\ Local(c)
  /\ ForgetEnded(c)
  /\ UNCHANGED <<session, op, key, cli, held, config>>

SetupDone(c) ==
  /\ pc[c] = "configure"
  /\ ask[c] = "plain"
  /\ Serves(c)
  /\ Local(c)
  /\ ForgetEnded(c)
  /\ UNCHANGED <<session, op, key, cli, held, config>>

SpawnStep(c) ==
  \/ SetupKey(c) \/ runSecretsReload(c) \/ ReloadEnds(c) \/ SetupModel(c)
  \/ SetupTelegram(c) \/ SetupDone(c)

-----------------------------------------------------------------------------
(* Configure and ApprovePairing.                                           *)

\* The Apply of one of the two: its parameters, with any hash the caller gave.
SetupStarts(c) ==
  /\ phase = "up"
  /\ pc[c] = "idle"
  /\ overlapped' = (overlapped \/ \E d \in Calls : pc[d] \notin {"idle"} \cup Ended)
  /\ ask' = [ask EXCEPT ![c] = "plain"]
  /\ \/ /\ op' = [op EXCEPT ![c] = "approve"]
        /\ Goto(c, "ready")
        /\ UNCHANGED <<wants, hash, seen>>
     \/ \E t \in ConfigTags, given \in {<<>>, <<config>>} :
          /\ op'   = [op EXCEPT ![c] = "config"]
          /\ wants' = [wants EXCEPT ![c] = extractConfigAction(t)]
          /\ hash' = [hash EXCEPT ![c] = given]
          /\ seen' = [seen EXCEPT ![c] = given]
          /\ Goto(c, IF given = <<>> /\ extractConfigAction(t) = <<"patch">>
                     THEN "hash" ELSE "ready")
  /\ UNCHANGED <<runtimeVars, restored, gatewayVars, key, data, tag, cli, held, spent, did, config>>

\* fetchCurrentConfigHash: the request; or there is nothing to patch with, or no gateway.
AskHash(c) ==
  /\ pc[c] = "hash"
  /\ \/ Failing(c) /\ UNCHANGED wire
     \/ /\ wire' = [wire EXCEPT ![c] = "request"]
        /\ ask' = [ask EXCEPT ![c] = "hash"]
        /\ Goto(c, "hashing")
        /\ ForgetEnded(c)
        /\ UNCHANGED <<phase, session, op, key, cli, held, config>>
  /\ UNCHANGED <<saved, history, new, tool, open, issued, data, tag>>

\* Fault: the hash is read and not put into the payload.
HearHash_Dropped(c) ==
  /\ pc[c] = "hashing"
  /\ wire[c] = "ok"
  /\ wire' = [wire EXCEPT ![c] = "none"]
  /\ ask' = [ask EXCEPT ![c] = "plain"]
  /\ Goto(c, "ready")
  /\ UNCHANGED <<runtimeVars, history, new, tool, open, issued, op, key, data, tag>>
  /\ UNCHANGED <<wants, hash, seen, spent, did, cli, held, config>>

\* What an answer may name as the hash.
NamedHashes == {extractConfigHash(answer) : answer \in HashAnswers}

\* The hash the answer names, if any, is sent with the patch.
HearHash(c) ==
  /\ pc[c] = "hashing"
  /\ wire[c] = "ok"
  /\ \E found \in NamedHashes :
       \/ /\ found = {}
          /\ seen' = [seen EXCEPT ![c] = <<>>]
          /\ UNCHANGED hash
       \/ /\ \E h \in found : hash' = [hash EXCEPT ![c] =
               IF h = <<"current">> THEN seen[c] ELSE <<{Other}>>]
          /\ UNCHANGED seen
  /\ wire' = [wire EXCEPT ![c] = "none"]
  /\ ask' = [ask EXCEPT ![c] = "plain"]
  /\ Goto(c, "ready")
  /\ UNCHANGED <<runtimeVars, history, new, tool, open, issued, op, key, data, tag>>
  /\ UNCHANGED <<wants, spent, did, cli, held, config>>

HashFails(c) ==
  /\ pc[c] = "hashing"
  /\ Failing(c)

\* Configure's patch was answered, or the gateway approved.
HearSetupCall(c) ==
  /\ pc[c] = "asking"
  /\ op[c] \in SetupOps
  /\ wire[c] = "ok"
  /\ Pass(c, "tagging")
  /\ UNCHANGED <<cli, held, config>>

\* runPairingApprove, unless there is no code; bash may not start.
runPairingApprove(c) ==
  /\ pc[c] = "ready"
  /\ op[c] = "approve"
  /\ \/ Failing(c)
     \/ /\ cli' = [cli EXCEPT ![c] = "running"]
        /\ wire' = [wire EXCEPT ![c] = "request"]
        /\ ask' = [ask EXCEPT ![c] = "command"]
        /\ Goto(c, "pairing")
        /\ ForgetEnded(c)
        /\ UNCHANGED <<phase, session, op, key, held, config>>
        /\ UNCHANGED <<saved, history, new, tool, open, issued, data, tag>>

\* Fault: the result of the command is not looked at.
PairingReturns_Unchecked(c) ==
  /\ pc[c] = "pairing"
  /\ cli[c] \in {"ok", "failed"}
  /\ ~held[c]
  /\ Pass(c, "tagging")
  /\ cli' = [cli EXCEPT ![c] = "none"]
  /\ UNCHANGED <<held, config>>

\* CombinedOutput returns when the command has ended and nobody holds its output.
\* Only a command that failed leads on to the gateway.
PairingReturns(c) ==
  /\ pc[c] = "pairing"
  /\ cli[c] \in {"ok", "failed"}
  /\ ~held[c]
  /\ Pass(c, IF cli[c] = "ok" THEN "tagging" ELSE "approve")
  /\ cli' = [cli EXCEPT ![c] = "none"]
  /\ UNCHANGED <<held, config>>

\* The gateway is asked within the same deadline.
AskApprove(c) ==
  /\ pc[c] = "approve"
  /\ \/ Failing(c)
     \/ /\ ~spent[c]
        /\ ask' = [ask EXCEPT ![c] = "plain"]
        /\ Goto(c, "asking")
        /\ Local(c)
        /\ ForgetEnded(c)
        /\ UNCHANGED <<phase, session, op, key, cli, held, config>>

ApplyStep(c) ==
  \/ AskHash(c) \/ HearHash(c) \/ HashFails(c) \/ HearSetupCall(c)
  \/ runPairingApprove(c) \/ PairingReturns(c) \/ AskApprove(c)

\* Fault: the command is run without the call's context.
Expire_Ignored(c) == FALSE /\ UNCHANGED <<allVars, c>>

\* The deadline of a call that waits for a command: the command is killed, and what
\* it started may live on and hold its output.
Expire(c) ==
  /\ pc[c] \in CommandPc
  /\ ~spent[c]
  /\ spent' = [spent EXCEPT ![c] = TRUE]
  /\ IF cli[c] \in {"running", "blocked"}
     THEN /\ cli' = [cli EXCEPT ![c] = "failed"]
          /\ held' \in {held, [held EXCEPT ![c] = TRUE]}
     ELSE UNCHANGED <<cli, held>>
  /\ UNCHANGED <<vars, wants, hash, seen, did, config>>

-----------------------------------------------------------------------------
(* The openclaw command, the gateway and the editors of its configuration. *)

\* A reload may fill its standard error, which nobody reads before its standard
\* output is at its end.
CommandBlocks(c) ==
  /\ pc[c] = "reading"
  /\ cli[c] = "running"
  /\ cli' = [cli EXCEPT ![c] = "blocked"]
  /\ UNCHANGED <<vars, wants, hash, seen, held, spent, did, config>>

\* The approval takes effect, even past the deadline when only bash was killed.
CommandApproves(c) ==
  /\ pc[c] = "pairing"
  /\ cli[c] = "running" \/ held[c]
  /\ did' = [did EXCEPT ![c] = @ \cup {"command"}]
  /\ UNCHANGED <<vars, wants, hash, seen, cli, held, spent, config>>

\* It ends, and reports success only if it had any.
CommandEnds(c) ==
  /\ cli[c] = "running"
  /\ \E end \in {"ok", "failed"} :
       /\ op[c] = "approve" /\ end = "ok" => "command" \in did[c]
       /\ cli' = [cli EXCEPT ![c] = end]
       /\ wire' = IF op[c] = "approve" /\ end = "ok" THEN [wire EXCEPT ![c] = "ok"] ELSE wire
  /\ held' \in {held, [held EXCEPT ![c] = TRUE]}
  /\ UNCHANGED <<runtimeVars, history, callVars, new, tool, open, issued>>
  /\ UNCHANGED <<wants, hash, seen, spent, did, config>>

HolderEnds(c) ==
  /\ held[c]
  /\ held' = [held EXCEPT ![c] = FALSE]
  /\ UNCHANGED <<vars, wants, hash, seen, cli, spent, did, config>>

\* config.get
GatewayReads(c) ==
  /\ wire[c] = "request"
  /\ ask[c] = "hash"
  /\ \/ /\ wire' = [wire EXCEPT ![c] = "ok"]
        /\ seen' = IF pc[c] = "hashing" THEN [seen EXCEPT ![c] = <<config>>] ELSE seen
     \/ wire' = [wire EXCEPT ![c] = "error"] /\ UNCHANGED seen
  /\ UNCHANGED <<runtimeVars, history, callVars, new, tool, open, issued>>
  /\ UNCHANGED <<wants, hash, cli, held, spent, did, config>>

\* The gateway merges a patch, or replaces the configuration, if the base hash it was
\* sent, if any, is that of the configuration; and changes nothing otherwise.
GatewayConfigures(c) ==
  /\ op[c] = "config"
  /\ hash[c] \in {<<>>, <<config>>}
  /\ config' = IF wants[c] = <<"apply">> THEN {c} ELSE config \cup {c}

\* What the other requests that were carried out have brought about.  The effect of
\* one that is carried out after the call ended is not followed.
GatewayActs(c) ==
  /\ Gateway(c)
  /\ \/ /\ wire'[c] # "ok" \/ ask[c] \in {"create", "close", "send"} \/ pc[c] # "asking"
        /\ UNCHANGED <<config, did>>
     \/ /\ wire'[c] = "ok"
        /\ pc[c] = "asking"
        /\ \/ /\ ask[c] = "model"
              /\ did' = [did EXCEPT ![c] = @ \cup {"model"}]
              /\ UNCHANGED config
           \/ /\ ask[c] = "plain"
              /\ op[c] = "approve"
              /\ did' = [did EXCEPT ![c] = @ \cup {"gateway"}]
              /\ UNCHANGED config
           \/ /\ ask[c] = "plain"
              /\ op[c] # "approve"
              /\ CASE op[c] = "config" -> GatewayConfigures(c)
                   [] op[c] = "spawn"  -> config' = config \cup {c}
                   [] OTHER -> config' \in {config, config \cup {c}}
              /\ did' = [did EXCEPT ![c] = @ \cup {"patch"}]
  /\ UNCHANGED <<wants, hash, seen, cli, held, spent>>

\* Somebody else edits the configuration (bound: while a Configure is on its way).
UserEdits ==
  /\ User \notin config
  /\ \E c \in Calls : op[c] = "config" /\ pc[c] \notin Ended
  /\ config' = config \cup {User}
  /\ UNCHANGED <<vars, wants, hash, seen, cli, held, spent, did>>

External(c) ==
  \/ CommandBlocks(c) \/ CommandApproves(c) \/ CommandEnds(c) \/ HolderEnds(c)
  \/ GatewayReads(c) \/ GatewayActs(c)

-----------------------------------------------------------------------------

StartsOther(c) == Base(c, Start(c)) /\ op'[c] \in Applies

\* A spent deadline fails the next request before it is sent.
SendRequest(c) ==
  /\ op[c] # "approve"
  /\ Base(c, Ask(c))
  /\ spent[c] => pc'[c] = "failed"

RuntimeStep(c) ==
  \/ ReadKey(c) \/ Checkpoint(c) \/ StoreSession(c) \/ RereadSession(c) \/ ClearSession(c)
  \/ Hear(c) \/ Tag(c) \/ HearSetup(c) \/ Timeout(c) \/ HearError(c)

BaseStep(c) == SendRequest(c) \/ Base(c, RuntimeStep(c))

SetupCallStep(c) == BaseStep(c) \/ SpawnStep(c) \/ ApplyStep(c) \/ Expire(c)

\* The process dies, and every command with it.
SetupCrash ==
  /\ Crash
  /\ wants' = [c \in Calls |-> <<>>]
  /\ hash' = [c \in Calls |-> <<>>]
  /\ seen' = [c \in Calls |-> <<>>]
  /\ cli' = [c \in Calls |-> "none"]
  /\ held' = [c \in Calls |-> FALSE]
  /\ spent' = [c \in Calls |-> FALSE]
  /\ did' = [c \in Calls |-> {}]
  /\ UNCHANGED config

SetupInit ==
  /\ Init
  /\ wants = [c \in Calls |-> <<>>]
  /\ hash = [c \in Calls |-> <<>>]
  /\ seen = [c \in Calls |-> <<>>]
  /\ cli = [c \in Calls |-> "none"]
  /\ held = [c \in Calls |-> FALSE]
  /\ spent = [c \in Calls |-> FALSE]
  /\ did = [c \in Calls |-> {}]
  /\ config = {}

SetupSystemNext ==
  \/ \E c \in Calls :
       \/ SpawnStarts(c) \/ SetupStarts(c) \/ StartsOther(c)
       \/ SetupCallStep(c) \/ External(c)
  \/ Restore /\ UNCHANGED setupVars
  \/ SetupCrash
  \/ UserEdits

SetupSpec == SetupInit /\ [][SetupSystemNext]_allVars

\* Goroutines run and deadlines pass.  Nothing is assumed of the gateway or of the
\* openclaw command.
FairSetup == SetupSpec /\ \A c \in Calls : WF_allVars(SetupCallStep(c))

-----------------------------------------------------------------------------

\* OpenclawRuntime, where a Configure or an ApprovePairing is one request: the
\* request for the hash, and what happens between the requests of a set-up, do not
\* show, and the command counts as the request.
opShown == [c \in Calls |-> IF op[c] \in SetupOps THEN "plain" ELSE op[c]]

askShown == [c \in Calls |-> IF ask[c] \in {"hash", "command"} THEN "plain" ELSE ask[c]]

wireShown == [c \in Calls |-> IF ask[c] = "hash" THEN "none" ELSE wire[c]]

pcShown ==
  [c \in Calls |-> CASE pc[c] \in {"hash", "hashing"} -> "ready"
                     [] pc[c] \in {"pairing", "approve"} -> "asking"
                     [] pc[c] \in {"reload", "reading", "choose", "telegram"} -> "configure"
                     [] OTHER -> pc[c]]

R == INSTANCE OpenclawRuntime WITH
  op <- opShown, ask <- askShown, wire <- wireShown, pc <- pcShown

ImplementsRuntime == R!Spec

\* A spawn that is acknowledged has done all its tags ask for, although it takes up to
\* five steps that can each fail: the key is stored (AuthStore says in which file), the
\* model configured unless the session is the fallback one, the Telegram patch applied
\* (setup.go:33, 45, 52).
SpawnDoesWhatTagsAsk ==
  [][\A c \in Calls : op[c] = "spawn" /\ pc[c] # "ok" /\ pc'[c] = "ok" =>
       /\ wants[c].apiKey # Empty => "key" \in did[c]
       /\ wants[c].model # Empty /\ session # Fallback => "model" \in did[c]
       /\ wants[c].telegram => "patch" \in did[c]]_allVars

\* The key is stored for the provider of the model that is configured, whichever tag
\* names it and in whatever letters (readme.md:353, setup.go:25, 39); a provider tag
\* that has a slash in it, or a model that has nothing after its slash, names none.
KeyBelongsToModel ==
  \A c \in Calls :
    /\ op[c] = "spawn" /\ pc[c] = "asking" /\ ask[c] = "model"
    /\ wants[c].apiKey # Empty
    /\ wants[c].given.name # Empty
    => splitModelName(wants[c].model).provider = wants[c].provider

\* A Configure takes effect only on the configuration whose hash it read or was given,
\* whoever edits it in between; only without a hash does it patch blindly (setup.go:216).
PatchOnWhatWasRead ==
  [][\A c \in Calls :
       op[c] = "config" /\ "patch" \in did'[c] \ did[c] /\ seen[c] # <<>>
         => seen[c] = <<config>>]_allVars

\* An ApprovePairing that is acknowledged has been approved, by the command or by the
\* gateway, whatever ended the command (setup.go:244).
PairingApproved ==
  [][\A c \in Calls : op[c] = "approve" /\ pc[c] # "ok" /\ pc'[c] = "ok"
       => did[c] \cap {"command", "gateway"} # {}]_allVars

\* Every call ends, although a reload's output is read one pipe after the other
\* (setup.go:172); unless another process holds the output of its command.
EndsUnlessHeld ==
  \A c \in Calls :
    (pc[c] \notin {"idle"} \cup Ended) ~> (pc[c] \in Ended \/ held[c])
=============================================================================
