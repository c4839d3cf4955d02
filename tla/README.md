# A TLA+ model of vmdocker_agent

vmdocker_agent is the process inside a container that a hymx node drives over
HTTP: it spawns one *runtime* (openclaw, claude, telegram customer or a test
runtime), passes it messages, and hands out and takes back checkpoints of it.
This directory models the parts of it whose correctness depends on order:
handlers that overlap, calls that give up, gateways that answer late, processes
that die between two file operations, checkpoints that come back somewhere else.
Line numbers refer to the repository.

## 1. The system

| Component | State | Operations | Model |
|---|---|---|---|
| HTTP API (`server/api.go`) | `s.runtime`, one pointer without a lock | `health`, `apply`, `checkpoint`, `restore`, `spawn`, each in a goroutine of its own | `AgentServer`, abstract: `AgentLifecycle` |
| Server process (`main.go`, `server/server.go`) | `s.srv`, the signal channel | `Run`, `Close`, `runAPI`, `closeAPI` | `AgentProcess`, in `Container` |
| Runtime façade (`runtime/runtime.go`) | the implementation chosen by `RUNTIME_TYPE` | `New`, `NewRestored`, `Apply`, `Checkpoint` | `Migration`; overlapping constructions in `AgentServer` |
| Openclaw runtime (`runtime/openclaw/openclaw.go`, `setup.go`, `gateway.go`) | `state.SessionID` behind a read-write lock held for one access at a time | spawn set-up; `Ping`, `Query`, `Execute`, `Chat`, `CreateSession`, `CloseSession`, `ConfigureModel`, `ConfigureTelegram`, `Configure`, `ApprovePairing`; checkpoint, restore | `OpenclawRuntime`, refined by `OpenclawSetup` |
| Openclaw request fields (`tools.go`) | none | extraction and normalisation of names, models, hashes | `RequestFields`, in part |
| Openclaw auth store (`setup.go:81-153`) | `auth-profiles.json` and its `.tmp` | `upsertAuthProfileAPIKey` | `AuthStore` |
| Claude runtime (`runtime/claudecode`) | session id, model, base URL, directory | `loadConfig`, `Apply` (one or two runs of the CLI), checkpoint, restore | `ClaudeRuntime`, `RuntimeConfig`, `Migration` |
| Telegram customer runtime | as the claude runtime's, and a bot of an external library | construction, checkpoint, restore; `Apply` is not implemented | `RuntimeConfig`, `Migration` |
| Test runtime (`runtime/testrt`) | none | construction, an empty checkpoint | `Migration` |
| State directory (`utils/openclaw_bootstrap.go`, `cmd/bootstrap`) | `openclaw.json`, its `.tmp`, `sessions.json` | `prepare` | `BootstrapConfig` |
| Entrypoint (`start-vmdocker-agent.sh`, `bootstrap/*.sh`) | the shell's process, the gateway's, the list of background pids | audit, prepare, launch, readiness loop, exec, trap | `Entrypoint`, in `Container` |
| Module generator, logging, CORS, Dockerfiles, scripts | none that matters | | not modelled |

How they interact. The entrypoint runs `bootstrap prepare`, starts the openclaw
gateway in the background and `exec`s the agent. A `spawn` or `restore` builds a
runtime and stores it in `s.runtime`; `apply` and `checkpoint` call its methods.
An openclaw runtime talks to the gateway over HTTP, which edits the
configuration prepare wrote; its set-up writes the auth store the gateway
reads, and it runs the `openclaw` command for what the gateway has no endpoint
for. A claude runtime starts a CLI process per call, and the CLI keeps the
conversations. Gateway, CLI, bot and caller are external: they are modelled by
what the code here may meet of them.

What is hard about each, and what makes it correct:

* **API.** Every handler reads `s.runtime`, and reads or assigns it again later,
  with no lock; a caller that times out does not cancel its handler. Right means:
  no method is called on nil, only a runtime whose construction succeeded serves,
  an acknowledged spawn is seen by whoever can know of it, and one runtime exists.
* **Process.** `main` and the goroutine of the API share `s.srv` with no
  synchronisation, and a shutdown waits 5 seconds for handlers that may need
  minutes. Right means: a process that is told to stop stops, and what it cuts
  off had its 5 seconds.
* **Façade and telegram.** A checkpoint may come back in a container of another
  type, with other settings, after any number of moves; a bot cannot be stopped.
  Right means: a checkpoint is taken by its own kind, a runtime goes on in the
  session and with the model it is owed, and a refused start leaves no bot.
* **Openclaw runtime.** The lock covers single accesses; a call reads the session,
  asks the gateway for seconds, and writes or rereads the session. A request that
  timed out may still take effect. Right means: no empty session is sent, the
  session held is explained by what happened, replies name the right one.
* **Openclaw set-up.** Up to five steps that can each fail make one spawn; a
  configuration is read in one request and patched in another, while others edit
  it; an approval is tried twice by two ways; a command is read one pipe after
  the other. Right means: an acknowledgement means that all of it was done, for
  the model that was meant, and on the configuration that was read.
* **Auth store.** Read, merge, write, rename: by overlapping spawns through one
  temporary name, across crashes and a full disk, in the configured file or, when its
  directory cannot be made, in another. Right means: acknowledged keys are there,
  other profiles are untouched, damage heals.
* **Claude runtime.** A retry in the session the first attempt named, a deadline
  that races a complete answer, a restore in another environment, and a parser of
  quoted flags. Right means: acknowledged turns stay in the conversation, failed
  ones are not adopted, settings do not change under a runtime, flags mean what
  was written.
* **State directory.** A crash between any two file operations, and a next start
  in another environment. Right means: whole configurations only, edits and
  sessions survive, and what is left behind never blocks a start.
* **Entrypoint.** `eval "$(...)"` swallows a failure, a trap that does not end the
  script, a child that may fail after the script went on, a probe sent to a URL
  that need not be the child's, a loop that counts iterations. Right means: the agent
  starts only on a prepared directory behind its own gateway, no gateway is left
  behind, and the start-up ends.

`PROJECT.json` lists each hazard at its line with the properties that watch it.

## 2. The modules

**`AgentServer`** is the API. A request is a process with a program counter, and
one action is what its handler does between two points where another handler can
run: `CheckPresent`/`CheckAbsent` (the nil check at the head), `Bind`
(ShouldBindJSON), `Build` (`runtime.New`, `NewRestored`), `Publish` (the
assignment), `Call` (the second read), `Return`, `Write`. `Spawn(r)`, `Apply(r)`
and so on group them by endpoint. A runtime is named by the request that built
it. `GiveUp` is the caller's timeout; `informed` records which requests were
sent when an acknowledgement could already be known, `overlapped` whether two
handlers were ever on their way at once. `Serialised` and `MayGiveUp` say how the
caller behaves: hymx decides that, not this code, so the runs and theorems say for
which caller they hold.

**`AgentLifecycle`** is the promise: a runtime is established once, and every
served call is served by it.

**`AgentProcess`** is the process around the handlers: `main` with its signal
channel, the goroutine of `runAPI`, and requests that are queued, in a handler,
or over. `closeAPI` reads `s.srv` while the goroutine may be assigning it: until
`Serve` has taken the server's lock, either value may be seen.

**`Entrypoint`** is the script: one action per command, the trap (`HandleTerm`,
which runs when the foreground command has ended, and after which the script goes
on), and the gateway's process. `Launch` only forks: the child becomes the gateway,
or ends because a variable is unset, in a step of its own (`ChildStarts`) while the
script goes on, and `kill -0` finds it until the shell has collected it (`Reap`). The
probe goes to `OPENCLAW_GATEWAY_URL`: `other` is whatever answers there, if it is not
the launched process. `OPENCLAW_GATEWAY_LOG_PATH` is taken to be set by
`prepare` alone: inherited from the container's environment, it would defeat the
`set -u` that `AgentStartsPrepared` rests on. **`Container`** composes it with
`AgentProcess`: the script is the container's process until `exec`, the agent
after it, and the gateway lives beside both.

**`OpenclawRuntime`** has one `session` field and calls in flight. `Start` is
Apply or Checkpoint up to its first access to the session, `StartSpawn` a spawn
whose gateway answered the ping; `ReadKey`, `Ask`, `Timeout`, `HearError`,
`StoreSession`, `RereadSession`, `ClearSession`, `Hear`, `Tag` are the accesses
and waits in their order, `HearSetup` and `SetupNext` are SetupOnSpawn.
A creation that is answered without an id makes the answer's text the session
(`Body`), and one for which there is no tool makes it the shared one (`Fallback`).
Query, Execute and Chat are one path (`send`), Ping and ConfigureTelegram
another (`plain`: no session). `Gateway(c)` answers, refuses, or acts after the
runtime stopped listening. `Crash` loses the field and the calls; `Restore` takes
any checkpoint handed out before, and refuses an empty one. A behaviour may
begin after an earlier life of the agent, with a session and a checkpoint of it.

**`OpenclawSetup`** extends it with what its `SetupNext` and its `plain` calls
leave open: the steps of a spawn as its tags ask for them (`SetupKey`,
`runSecretsReload`, `SetupModel`, `SetupTelegram`), Configure (`AskHash`,
`HearHash`, then the patch), ApprovePairing (`runPairingApprove`, `AskApprove`),
the `openclaw` command with its two pipes, and the gateway's configuration with
its other editors. Every other step is a step of `OpenclawRuntime`. The
instance `R` maps it back: a Configure is one `plain` request, and a set-up's
local steps are stuttering. What the tags mean is computed by
**`RequestFields`**, on texts as sequences of words (**`Texts`**): Go's order of
a map is a choice there, so a search returns the set of its possible results. A
document is nested in at most `MaxNesting` levels, which the assumption `ASetup` says
of the answers of a run.

**`AuthStore`** is the upsert as file operations on inodes: a writer keeps the
inode it opened while another renames or truncates the name. There are two such
files: the one the configuration names, and the one in `/tmp/.openclaw` that an upsert
turns to when it cannot make the directory of the first. `place` is the one an upsert
rewrites, of which its spawn learns nothing. A file is whole,
empty, torn, or the JSON text `null`, which decodes to no map and makes the merge
panic; a text that does not decode, or a file that cannot be read, counts as an
empty store, as in the code.

**`ClaudeRuntime`** has the state, the calls and the CLI's sessions with the turns
each has recorded. `snapshotConfig`, `ReadSession`, `Launch`, `Deadline`,
`CollectFailure`, `CollectText`, `Retry`, `updateState` and `Tag` are Apply; the
model, base URL and directory follow one rule and are one setting. The CLI
resumes a session in place or in a copy, answers with or without a text or an
id, or fails. A process it started may outlive it and hold the output pipes.

**`RuntimeConfig`** is `loadConfig` of the claude and telegram runtimes as
operators: which of environment and tags names the model, and the parser of `CLAUDE_CODE_FLAGS` character by character
(`Scan`, `flush`). `Written` is the other side, and external: how somebody puts a
line of arguments down, each plain with backslashes, in double or in single quotes.
An argument that parser and writer cannot agree on is not a `Word`: the empty one,
which the parser drops even in quotes, and one in single quotes with a backslash or
a single quote in it. **`Migration`** uses it: agents are started with some environment,
and in them runtimes of all four types are spawned, restored from any checkpoint
handed out before, refused, or lost, each construction in the code's order
(configuration or gateway, checkpoint, bot).

**`BootstrapConfig`** is `prepare` as file operations, in the environment of each
start. A configuration is its gateway mode, one managed setting and the rest.
Every operation may fail and the container may die between any two. The
configuration may be edited, damaged or removed while `prepare` is not at work:
nothing else runs in the container by then.

**`AgentServerProofs`**, **`OpenclawProofs`** (runtime and set-up),
**`AuthStoreProofs`**, **`ClaudeRuntimeProofs`**, **`MigrationProofs`**,
**`BootstrapConfigProofs`** and **`ContainerProofs`** (script and process) hold the
theorems, **`TextsProofs`** lemmas about texts for two of them (trimming, the loops
over a tag's names, texts put together).
`MCAgentServer`, `MCOpenclawRuntime`, `MCClaudeRuntime` and `MCAuthStore` add the
symmetry sets for TLC, `MCOpenclawSetup` the tags and answers, `MCMigration` the
environments; three of them leave out initial states ("Bounds", below).
`BootstrapConfig` and `Container` are run as they are.

In every module an operator named `<Definition>_<Word>` and marked "Fault" is the
definition with a plausible mistake in it. No specification uses them: they
record, for each property, a change of the code that the property would notice.

## 3. What the runs show

| Run | Expect | Question |
|---|---|---|
| `server_concurrent` | pass | Four requests overlapping in every way, callers giving up: no call on nil, only built runtimes serve, acknowledgements hold; and until two handlers overlap no runtime is orphaned, and `AgentServer` implements `AgentLifecycle` |
| `server_retry` | violation | A caller that gives up on a slow spawn and sends another gets two successes and an orphan |
| `container` | pass | A start-up with signals, a misbehaving gateway and perhaps another one that answers for it, the agent after it, and its end at any point |
| `openclaw_calls` | pass | Three calls of every kind, with sessions that have an id or none: what is sent, held, kept and answered |
| `openclaw_setup` | pass | Two calls with spawns of every kind of tags, configurations and approvals: what an acknowledgement means; `OpenclawSetup` implements `OpenclawRuntime`; calls end |
| `openclaw_close_race` | violation | CloseSession forgets a session created while it waited |
| `openclaw_fallback` | violation | A session creation that fails does not lead to the fallback session |
| `authstore` | pass | Three upserts into either of two files with crashes and failures at every step |
| `claude_calls` | pass | Two calls with retries, deadlines, restores: turns, settings, replies, and how calls end |
| `claude_timeout` | violation | The deadline does not end a call whose output pipes are held |
| `migration` | pass | Checkpoints moving between agents in more than two hundred environments |
| `bootstrap` | pass | Starts in changing environments with three faults and edits in between |

The properties worth reading first:

* `AcknowledgementHolds`: a spawn may be overtaken by anything, but not by a
  request sent after someone read its 200.
* `SessionExplained`: the runtime holds a session that is not open only
  while a close is unanswered, after one whose answer was lost, or after a
  restore from an old checkpoint; the session shared by all runtimes only
  for want of the tool that creates one, or from a checkpoint; and the text of an
  answer only after a creation answered without an id, or from a checkpoint.
* `SpawnDoesWhatTagsAsk`, `KeyBelongsToModel`, `PairingApproved`: what an
  acknowledgement of the set-up calls is worth, whichever of their steps fail.
* `PatchOnWhatWasRead`: a Configure does not overwrite an edit it has not seen,
  unless it had no hash at all.
* `LoneKeysStored`, `LoneUpsertHeals`, `OneUpsertAtATime`: without overlap the
  rewrite is atomic at every step it can die, and what a spawn stored is never undone;
  with overlap it may lose keys, but the next lone spawn repairs what is left. All of
  it in the file that the spawn wrote, which need not be the configured one.
* `AcknowledgedTurnsKept`, `FailedSessionNotAdopted`, `RetryContinues`: the
  conversation the next call resumes has every turn the caller was told of.
* `MigrationKeepsState`, `SettingStable`: which session and model a runtime has
  after any number of moves, and that its calls do not change them back.
* `ConfigChangesWhole`, `ComesUpManaged`, `BootsAgain`: the configuration across
  crashes, environments and edits.
* `AgentStartsPrepared`: nothing tests whether prepare failed; only an unset
  variable stops the gateway's child, which `kill -0` may still find, and only a probe
  that nobody answers stops the script. It holds where no other process answers the
  probe.
* `GraceGiven`, `StopsWhenTold`: the race on `s.srv` costs no handler its
  5 seconds, and does not keep the process alive.

Some properties are about a caller that waits for each answer: they speak of a
behaviour as long as `overlapped` (did a call ever start while another was on its
way) is FALSE, so one run covers both kinds of callers.

### Findings

1. **Two spawns succeed** (`server_retry`, `api.go:132`). The assignment comes
   seconds after the check, without a second look; the test `TestSpawnTwice`
   expects 400 for the second.
2. **CloseSession forgets another session** (`openclaw_close_race`,
   `openclaw.go:285`). It clears the field whatever it holds by then; the session
   that is forgotten may be a new one or the shared one.
3. **A deadline that does not end the call** (`claude_timeout`,
   `claudecode.go:323`). No `WaitDelay`: `cmd.Run` waits for every holder of the pipes.
4. **A failed creation does not fall back** (`openclaw_fallback`, `setup.go:314`).
   `readme.md:52` calls the shared key the "fallback session key if session creation
   fails"; the code falls back only when the tool is missing, and any other refusal
   fails the spawn. `SessionExplained` states what the code does.

What was met beyond these has no run of its own. Three points disagree with the readme:

* When the directory of the auth store cannot be made, `setup.go:104-114` writes the key
  to `/tmp/.openclaw` and the spawn is acknowledged, where `readme.md:43` says "only
  falls back to `/tmp/.openclaw` when no usable home directory is available". The three
  properties of `authstore` speak of the file the spawn wrote; the configured store
  need not have the key, nor be healed.
* The probe goes to `OPENCLAW_GATEWAY_URL` (`openclaw.sh:30`), where `readme.md:48`
  speaks of a health check "for the embedded gateway": if another gateway answers there
  while `kill -0` still finds the launched child, the agent starts, with prepare failed
  and no gateway of its own. This is the exception of `AgentStartsPrepared`: without
  it (`StartsBehindItsGateway`), TLC finds that behaviour.
* The product at `claudecode.go:161` is not checked: a `CLAUDE_CODE_TIMEOUT_MS` (milliseconds,
  says `readme.md:27`) above 2^63 / 10^6 wraps around, to a limit that is over
  before the call began, or to some other. The number is not in the models.

For the rest, no document denies it, or a property of a passing run names it as its
exception:

* Overlapping upserts lose an acknowledged API key (`setup.go:144`: one temporary
  name, no lock); it needs two spawns that overlap, which finding 1 allows.
  `LoneKeysStored` has the exception.
* An auth store that cannot be read is replaced by one profile (`setup.go:117`),
  and the text `null` makes the spawn panic (`setup.go:123`).
* `openclaw.sh:40` probes with a curl that has no time limit, so the documented
  start-up timeout (`readme.md:48`) does not bound a gateway that takes the
  connection and stays silent: `ServesUnlessDeaf` names that case.
* When the port is taken the process lives on without an API (`api.go:32`):
  `ServesUnlessDeaf` names that case, too.
* A creation that is answered without an id leaves the runtime with the answer's text
  as its session (`setup.go:335`), which goes out with every later request and into
  checkpoints: `SessionExplained` names it.
* `OneBot` and the rest of `migration` are about one construction at a time: two spawns
  that overlap (finding 1) would start two bots.
* A provider tag that itself contains a slash, or a model with nothing after its
  slash, configures a model whose provider is not the one the key is stored for:
  `KeyBelongsToModel` excepts the second, and no tag of the run is the first.
* `CLAUDE_CODE_FLAGS` cannot hold an empty argument, nor a backslash in single quotes
  (`claudecode.go:176`, `188`); and a last argument that ends in an escaped blank is
  refused, because the text is trimmed first (`claudecode.go:165`). No document
  promises otherwise; `Word` and `ParsesLine` have the exceptions.
* An openclaw or claude command that leaves a process behind holds its call past
  the deadline: both `EndsUnlessHeld` name it.

### Bounds

* Requests, calls and writers are used once each. Every pairwise race needs two,
  and a third is there to notice, to overlap, or to come after. Four requests
  cover a creator that overtakes a creator while two callers watch. Two calls of the claude runtime are one that makes a session and one
  that resumes it, each with two attempts. In `container` two requests are one
  that the shutdown meets in a handler and one that it meets in the queue.
* Two session ids: one to replace the other. When all are issued the gateway's
  creation can only fail, which it may do at any time anyway. The first life of the
  runs has a checkpoint of an open session, of the shared one, or none: `MCSpec` leaves
  out one of an answer's text, which a run can make by itself, and `MCFairSetup` all
  but those of the shared one.
* Two files for the auth store, the configured one found in every state, the other
  one missing or with every profile (`FallbackMissingOrFull`): the two are alike.
* In `openclaw_setup` one id is enough, because the sessions are the subject of
  `openclaw_calls`; `Applies = {"plain"}` keeps the calls next to the set-up to
  those that change the configuration, and `ImplementsRuntime` ties the others to
  `OpenclawRuntime`. The configuration's other editor is at work only while a
  Configure is on its way, because only a Configure reads the configuration. A
  hash given by the caller is none, or the current one when the call starts,
  which an edit then makes stale. `MCSpawnTags` has a tag of every kind the
  set-up branches on, `MCHashAnswers` a document for every way the search goes;
  none is nested deeper than `MaxNesting = 4`, the depth to which
  `findConfigHashRecursive` is defined.
* `MaxSaved = 1` checkpoint in `claude_calls`, taken at any moment and restored
  from at any later one, any number of times; `MaxSaved = 2` in `migration`, one
  and the next one made after a restore from it. Openclaw's are unbounded.
* `MCEnvironments` of `migration` has every runtime type and an unknown one;
  settings that are absent, blank, or given twice; every line of one argument of one or two characters, or of
  two from a set of five, in every quoting that can write it down; and flags that
  nobody writes by the rules (`Unruly`), which the parser refuses or reads its way.
* `MaxFaults = 3` crashes or failed operations in `bootstrap`: one per write of
  the configuration and one more in the recovery. Restarts and edits are unbounded.
* `WaitSeconds = 3`: the loop's first, middle and last iteration.
* Symmetry (of requests, calls, ids, writers, profiles) is used in runs without
  liveness properties only; no constant of a symmetric set is named in a property.

`CHECK_DEADLOCK FALSE` is set where every request, call or writer of the bound
may have ended, or the container has: there is then nothing left to do.
`bootstrap` and `migration` check deadlock.

### Fairness

* `OpenclawSetup!FairSetup`, `ClaudeRuntime!FairSpec`: weak fairness of the
  agent's own steps, for each call. Goroutines are scheduled, and each request to
  the gateway (context and HTTP client) and each run of a command has a deadline,
  which is one of those steps. Nothing is assumed of the gateway, the commands, or
  what they leave behind.
* `BootstrapConfig!FairSpec`: the container is restarted when it is down, and
  prepare runs. `BootsAgain` excepts a configuration damaged from outside again
  and again, which prepare refuses.
* `Container!FairContainer`: each command of the script is fair by itself, because
  a container may be signalled for ever; of the agent, the two threads, the
  5-second timer among them. Nothing is assumed of the gateway, the handlers, the
  clients or whoever sends signals.

## 4. What is proved

### The API (`AgentServerProofs`)

For any set of requests and any caller, checked by TLAPS:

| Theorem | States |
|---|---|
| `TypeCorrect` | `Spec => []TypeOK` |
| `NilSafety` | `Spec => []NoCallOnNil` |
| `BuiltBeforeServing` | `Spec => []OnlyBuiltRuntimesServe` |
| `InformedOfRuntime` | `Spec => []AcknowledgementHolds` |
| `RuntimeStays` | `Spec => NeverBackToNil` |
| `SerialNoOrphan` | `Spec => []NoOrphanRuntime` |
| `SerialRefinement` | `Spec => ImplementsLifecycle`: until two handlers overlap |
| `WaitingRefinement` | `Spec => Lifecycle!Spec`, for a caller that waits and does not give up |

The only assumption is `AServer`: nil is not a request, and the two switches are
Booleans. None of the properties is inductive: that a call never meets nil rests
on what its handler learnt steps ago. `IInv` adds for each request how far its
handler can be (`Progress`), what the nil check leaves behind (`Present`: the
field is set from the check to the call), where runtimes come from (`Origin`:
what is published was built) and what a request sent after an acknowledgement
finds (`Informed`: the field is set before its first step, so a creator ends at
its check); and `Published`, that whatever the field holds was built and
answered "ok". Each part has a lemma with one case per action; `NextInv` puts
them together, and each theorem is one consequence.

`SerialInv` adds, for behaviours without overlap, `Alone` (at most one handler is on
its way), `Fresh` (a creator past its check still finds the field nil) and
`NoOrphanRuntime` itself, which `Publish` keeps because of `Fresh`. With it `Publish`
maps to `Establish`, `Call` to `Serve`, and every other step changes nothing the
abstract state sees. `Fresh` is what fails for a caller that gives up, as
`server_retry` shows. A caller that waits awaits exactly the requests whose handlers
are on their way (`Waits`), so they never overlap.

### The openclaw runtime (`OpenclawProofs`, first part)

For any calls, session ids and sets of calls to make; the assumption `AOpenclaw`
is that None, the shared session and the text of an answer without an id are three
things, and not ids.

| Theorem | States |
|---|---|
| `TypeCorrect` | `Spec => []TypeOK` |
| `KeysFull` | `Spec => []NoEmptyKeySent` |
| `HeldSessionExplained` | `Spec => []SessionExplained` |
| `RepliesName` | `Spec => []ReplyNamesItsSession` |
| `BeginsWithSession` | `Spec => ServesWithSession` |
| `FailuresKeep` | `Spec => FailureKeepsSession` |
| `LoneClose` | `Spec => LoneCloseForgetsWhatItClosed` |

What a call sends was read steps before, so `Shape` says for every point of a call
what it has read by then, and `Phases` who can be at work with it: a spawn is alone,
because the server publishes the runtime only after it. `SessionExplained` needs that
the session a creation stores, unless it is the text of an answer, is still open, and
no close can have named it: nobody holds its id until it is stored (`Unpublished`),
and ids come from the gateway only (`Known`). A stored text is that of a creation
answered without an id, because nothing else has one (`Shape`: a creation has a
session, or a text, from its answer on). For a caller that waits, `Alone` and `OwnSession` say that the field is
what its own call read or made until the reply is tagged. Each part has a lemma for
the steps of a call, one for what they leave alone in other calls, and one each for
the gateway, a restore and a crash. By `SetupRefines`, below, what these theorems
say holds of `OpenclawSetup`, too, in the state that `R` shows.

### The openclaw set-up (`OpenclawProofs`, second part)

For any calls, session ids, sets of tags and documents; the assumption `ASetup` is
that tags are texts, that the configuration's other editor is not a call, and that
the gateway's answers are documents of no more than `MaxNesting` levels, for any
number of them.

| Theorem | States |
|---|---|
| `SetupRefines` | `SetupSpec => ImplementsRuntime` |
| `SpawnsDoTheirTags` | `SetupSpec => SpawnDoesWhatTagsAsk` |
| `PatchesWhatWasRead` | `SetupSpec => PatchOnWhatWasRead` |
| `PairingsApproved` | `SetupSpec => PairingApproved` |
| `KeysOfModels` | `SetupSpec => []KeyBelongsToModel`, if no provider tag has a slash in it |
| `HashFound` | `extractConfigHash` finds a hash in an answer exactly if some part of it has one, and nothing else |
| `NeverBlind` | if every answer has a hash in it: a patch takes effect only on the configuration its call was given or read |

The three action properties are about the step that acknowledges, and what it
acknowledges was done steps ago. `SetupInv` says by where a call is what it has
done: `Spawned` which of key, model and patch, `Based` which hash a Configure
carries, `Approved` which of the two ways approved. `Place` says which request or
command a call waits for there. That a model may be left out while the session is
the fallback one needs the session not to change under a spawn: `SetupPhases` says
that a spawn is alone. `OnlyOwnSteps` names the one step that can acknowledge a
call; `SpawnEndsWell`, `PatchTakes` and `PairingEndsWell` say of it what the
properties say.

For `SetupRefines`, `Shows` is what the four refined variables show of one call.
`ShowsOwn` says that it depends on what is the call's own, and `CallShows` has one
case per action: it is the action of `OpenclawRuntime` of the same name, or a
stutter. What the set-up does between two requests of the runtime (asking for the
hash, running the command, the deadline that kills it) stutters because `PcOf` shows
all those places as the one the runtime is in: "ready", "asking" or "configure".

`PatchOnWhatWasRead` says nothing of a patch without a hash, so it is worth as much
as the search for the hash. `HashFound` is about that search: six paths, then every
part of the document in an order Go does not fix. Its recursion is over the document,
and is resolved by the levels of nesting (`Level`, `Nested`): `SearchDefined` builds
what it gives from the deepest level up, `SearchFinds` takes a hash found down to
where it is, and a part without a result up to a document without one; `LookupPart`
does the same for a path. `Sighted` then says that a call that has its answer knows
a configuration, and keeps knowing it until its patch is sent: that is `NeverBlind`.
Its hypothesis is needed: with an answer without a hash, which the run has, a blind
patch takes effect.

`KeysOfModels` needs its hypothesis: from the provider "a/b" the code configures the
model "a/b/name", whose provider is "a", and stores the key for "a/b". Its argument
is about texts: a provider tag that is trimmed and in small letters stays so
(`LowerTwice`, `TrimTwice`), and the first slash of provider, slash, name is the one
after the provider (`PrefixedModel`). `TextsProofs` has the lemmas about `trim` and
about the loops over a tag's names; they rest on `Smallest` and `Largest`: `Min` and
`Max` of a set of positions are in it.

### The auth store (`AuthStoreProofs`)

For any writers and profiles; the assumption `AAuthStore` is that None, the earlier
writer and the two places are not among the writers, and None is none of the others.

| Theorem | States |
|---|---|
| `TypeCorrect` | `Spec => []TypeOK` |
| `KeysStored` | `Spec => []LoneKeysStored` |
| `Heals` | `Spec => []LoneUpsertHeals` |
| `OneAtATime` | `Spec => OneUpsertAtATime` |

An upsert decides what to write when it reads, and takes effect when it renames.
While it is alone, what it decided stays the store with its own profile
(`Decided`), because every operation in between is on its temporary file, which is no
inode of a store's name, nor of the other place's temporary name (`Apart`, lemma
`StoreStays`); what it renames is what it wrote (`Draft`, lemma `RenamePublishes`),
even when a crash left a temporary file there. `LoneKeysStored` compares the stores
with `acked`, which names for each place and profile the last spawn that succeeded:
it is part of the invariant, and kept because a rename changes both alike. `Healing` is weaker and holds after any overlap: the last writer, if it
started with nobody at work, stays the only one until the next starts.

### The claude runtime (`ClaudeRuntimeProofs`)

For any calls, session ids, models and number of checkpoints; the assumption
`AClaude` is that None is neither an id nor a model and `MaxSaved` is a natural
number.

| Theorem | States |
|---|---|
| `TypeCorrect` | `Spec => []TypeOK` |
| `SettingKept` | `Spec => SettingStable` |
| `FailedNotAdopted` | `Spec => []FailedSessionNotAdopted` |
| `RetriesContinue` | `Spec => []RetryContinues` |
| `TurnsKept` | `Spec => []AcknowledgedTurnsKept` |
| `RepliesName` | `Spec => []ReplyNamesItsSession` |

A call reads the setting and the session when it begins and writes both back when
it has an answer. The setting survives that because every call on its way has
the one in effect (`Snapshot`), which a restore can only change when nobody is on
the way (`Quiet`). The session the runtime holds is that of a restore or of a call
whose CLI is done for good (`Adopted`), so never that of a failed one. The CLI's
answer is one of three (lemma `Answer`), and its sessions only grow: `Recorded` and
`Retried` say which turns are in them at each point of a call. The three parts
about a caller that waits are in `Told` (what it was told is in the runtime's
session and in every checkpoint's) and `Continues` (and in the session its next call
resumes, and in the one the CLI names).

### Migration (`MigrationProofs`)

For any environments, tags and number of checkpoints; the assumption `AMigration`
says of variables and tags that they are texts, and of what somebody had in mind with the flags that it is a sequence of
`Word`s. The flags themselves are any text.

| Theorem | States |
|---|---|
| `RestoresInKind` | `Spec => []RestoredInKind` |
| `KeepsState` | `Spec => []MigrationKeepsState` |
| `RunsOneBot` | `Spec => []OneBot` |
| `ParsesLine` | for any line, `parseFlags(Written(line))` is the texts of the line; or it is refused, and the line ends in a blank outside of quotes |
| `FlagsMeant` | `Spec => []FlagsAsMeant` |

A restored runtime is never compared with the one it comes from. It is what it should
be because every checkpoint ever handed out names its kind by its format (`Stamped`)
and holds what was due to its maker (`Faithful`), and because nothing of an earlier
runtime is left when a start loads (`Blanked`); from the load on `Current` says that
the state is the one due. The model passes through `trim` at every move: that this
changes nothing is `TrimTwice`, and `Loaded` says that a configuration has it trimmed.

`FlagsAsMeant` is about lines and words of any length. The argument is `Reads`: a
piece of text takes the parser from one state of the loop to another. Two pieces do
it one after the other (`ReadsBoth`), and `Amid` names the states between the words
of a line: so many arguments done, a piece of the next one read, in or out of
quotes. Then there is one lemma for an escaped letter, one for the letters of a word,
one for each way of putting it down, and `ReadsLine` for the line. What is left is
`trim`, which takes away the blank after the last word and may take one that belongs
to it: `ParseTrimmed` says that blanks at the ends make no difference unless the text
ends in an escape or a quote without them, and `NotOpen` that this happens to no line
but one whose last word is plain and ends in a blank. Such a line can only be
refused, never misread, and then there is no runtime. Where the proof needs
induction over a length it is `UpTo`, which rests on `Smallest`.

### The configuration (`BootstrapConfigProofs`)

For any modes, models and number of faults; the assumption `ABootstrap` is that
None is not a mode or a model and that the number of faults is a natural number.

| Theorem | States |
|---|---|
| `TypeCorrect` | `Spec => []TypeOK` |
| `ChangesWhole` | `Spec => ConfigChangesWhole` |
| `UpManaged` | `Spec => ComesUpManaged` |
| `KeepsSessions` | `Spec => SessionsKept` |

A start decides what to write in one step and renames it into place three steps
later. `IInv` adds that what was decided is still right then (`Drafted`: the
configuration is what it was, and the draft is the template or the managed form
of it) and that what is renamed is what was written, not what an earlier start
left under that name (`Written`). `prepare` looks for the sessions file in one step
and fills it in a later one: `Created` says that what it fills is the empty file it
has just made.

### The container (`ContainerProofs`)

For any `WaitSeconds` and any set of requests; the assumption `AEntrypoint` is
that `WaitSeconds` is a natural number.

| Theorem | States |
|---|---|
| `TypeCorrect` | of the script, `Spec => []TypeOK` |
| `StartsPrepared` | `Spec => []AgentStartsPrepared` |
| `NoneLeftBehind` | `Spec => []NoGatewayLeftBehind` |
| `ScriptWithin` | `ContainerSpec => Spec`: the container behaves as the script until the exec |
| `AgentRunsPrepared`, `ContainerLeavesNone` | so the two hold in the container |
| `Grace` | `ContainerSpec => []GraceGiven` |

No command tests whether prepare failed, so `AgentStartsPrepared` needs a chain. The
child of a failed prepare is there for `kill -0` between its fork and its end, and
until it is reaped, so probes of it can be made; but only a prepared directory ever has
a gateway that listens (`Alive`), only one that listens is heard where the probe
reaches no other process (`Heard`), and the script is past the loop only if a probe was
answered (`Ready`).
`Registered` (the trap knows of any gateway there is) gives `NoGatewayLeftBehind`,
`Before` and `Counting` the first step of each and the bound of the loop.

`GraceGiven` is about the end of the process, and its reason lies in `main` and
in the other goroutine. `ProcessInv` adds `Serving` (a handler runs only once
`Serve` does, and `Serve` returns only after a shutdown: so when there is a
handler to cut, `closeAPI` cannot miss the server), `Told` (after the wait there
was a signal) and `Leaving` (when `main` is about to return, whatever still runs
is overdue or was accepted too late).

### Only model-checked

* Every liveness property (`EndsUnlessHeld` of both runtimes, `BootsAgain`,
  `ServesUnlessDeaf`, `StopsWhenTold`): liveness under fairness is outside of what
  TLAPS proves. `BootsAgain` and `EndsUnlessHeld` rest on fairness of steps, so on
  ENABLED as well.
* The four violations are TLC's counterexamples. Next to each is a property that
  says what does hold: `NoOrphanRuntime` (theorem `SerialNoOrphan`),
  `LoneCloseForgetsWhatItClosed` (`LoneClose`), `SessionExplained`
  (`HeldSessionExplained`), and `EndsUnlessHeld`, which is model-checked.

Every other property of a passing run is the conclusion of a theorem above. No
module has a RECURSIVE operator.

## 5. Not modelled

* The module generator (`modulegen`, `cmd/module`): an offline tool, one
  sequential pass over docker commands with no state of its own between runs. What
  can go wrong in it, a tag that moves between two commands, is listed as a hazard.
* Request fields that are passed through (raw configuration, pairing code,
  channel, command), and the extraction of session ids and reply texts from the
  gateway's and the CLI's answers: in the models an answer has an id and a text
  or it has not. A Telegram patch is there or not.
* The environment and arguments of the CLI, except its flags; paths; the number of
  milliseconds in its time limit (a deadline may pass at any moment).
* Test runtime's echo, logging, CORS, Dockerfiles and test scripts: no behaviour
  in time.

## 6. Plan

Done: `AgentLifecycle`, `AgentServer`, `AgentProcess`, `Entrypoint`, `Container`,
`OpenclawRuntime`, `OpenclawSetup`, `RequestFields`, `AuthStore`,
`ClaudeRuntime`, `RuntimeConfig`, `Migration`, `BootstrapConfig`, and the proofs
of section 4.

Next:

1. `AgentServer` composed with `OpenclawRuntime` and `AuthStore`: that the
   overlaps the runtime and the store meet are those the server lets through.
2. `ModuleGenerator`, with a repository of images that others push to.

A theorem to state next: `StartUp` and `Agent` of `Container` as a step each of a
shorter abstract container that starts, serves and stops.
