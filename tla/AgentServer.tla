---------------------------- MODULE AgentServer ----------------------------
(***************************************************************************)
(* The HTTP API of the agent (src/server/api.go).                          *)
(*                                                                         *)
(* net/http runs every request in a goroutine of its own.  The handlers    *)
(* share one field, s.runtime, which no lock protects: each of them reads  *)
(* it to decide whether to go on and, some steps later, reads it again     *)
(* (apply, checkpoint) or assigns it (spawn, restore).  One step of this   *)
(* module is what a handler does between two points where another handler  *)
(* may run.  A read or an assignment of the field is one step: it is one   *)
(* machine word.                                                           *)
(*                                                                         *)
(* A runtime is named by the request that built it.                        *)
(***************************************************************************)
EXTENDS FiniteSets

CONSTANTS
  Requests,     \* every HTTP request of a behaviour
  NoRuntime,    \* Go's nil
  Serialised,   \* the caller sends a request only when it awaits no other
  MayGiveUp     \* the caller may stop waiting for an answer (its own timeout)

ASSUME AServer ==
  /\ NoRuntime \notin Requests
  /\ Serialised \in BOOLEAN
  /\ MayGiveUp \in BOOLEAN

VARIABLES
  kind,      \* the endpoint a request was sent to
  pc,        \* where its handler is
  reply,     \* what the handler decided to answer
  awaited,   \* the requests whose caller still waits for the answer
  runtime,   \* s.runtime
  built,     \* the runtimes runtime.New and runtime.NewRestored have returned
  callee,    \* the runtime whose method the handler called
  informed,  \* the requests sent after some caller read a spawn's or restore's 200
             \* (history)
  overlapped \* was a request ever sent while a handler was on its way (history)

history == <<informed, overlapped>>
vars    == <<kind, pc, reply, awaited, runtime, built, callee, history>>

Creators == {"spawn", "restore"}
Callers  == {"apply", "checkpoint"}
Kinds    == Creators \cup Callers \cup {"health"}

Steps   == {"idle", "entry", "bind", "build", "publish", "call", "running",
            "write", "answered"}
Replies == {"none", "ok", "runtime is nil", "runtime is not nil",
            "bad request", "failed", "panic"}

TypeOK ==
  /\ kind \in [Requests -> Kinds \cup {"none"}]
  /\ pc \in [Requests -> Steps]
  /\ reply \in [Requests -> Replies]
  /\ awaited \subseteq Requests
  /\ runtime \in Requests \cup {NoRuntime}
  /\ built \subseteq Requests
  /\ callee \in [Requests -> Requests \cup {NoRuntime}]
  /\ informed \subseteq Requests
  /\ overlapped \in BOOLEAN

-----------------------------------------------------------------------------

Acknowledged == {c \in Requests : /\ kind[c] \in Creators
                                  /\ pc[c] = "answered"
                                  /\ reply[c] = "ok"}

OnItsWay(r) == pc[r] \notin {"idle", "answered"}

Goto(r, step) == pc' = [pc EXCEPT ![r] = step] /\ UNCHANGED reply

Answer(r, code) == /\ pc'    = [pc EXCEPT ![r] = "write"]
                   /\ reply' = [reply EXCEPT ![r] = code]

\* The router hands a request to its handler: the five POST routes of runAPI.
Receive(r) ==
  /\ pc[r] = "idle"
  /\ Serialised => awaited = {}
  /\ \E k \in Kinds : kind' = [kind EXCEPT ![r] = k]
  /\ Goto(r, "entry")
  /\ awaited' = awaited \cup {r}
  /\ informed' = IF Acknowledged = {} THEN informed ELSE informed \cup {r}
  /\ overlapped' = (overlapped \/ \E q \in Requests : OnItsWay(q))
  /\ UNCHANGED <<runtime, built, callee>>

\* The caller's own timeout.  No handler looks at the request's context, so the
\* handler runs on.
GiveUp(r) ==
  /\ MayGiveUp
  /\ r \in awaited
  /\ awaited' = awaited \ {r}
  /\ UNCHANGED <<kind, pc, reply, runtime, built, callee, history>>

\* apply and checkpoint, first read: refuse when s.runtime is nil.
CheckPresent(r) ==
  /\ pc[r] = "entry"
  /\ IF runtime = NoRuntime
     THEN Answer(r, "runtime is nil")
     ELSE Goto(r, IF kind[r] = "apply" THEN "bind" ELSE "call")
  /\ UNCHANGED <<kind, awaited, runtime, built, callee, history>>

\* Fault: spawn and restore do not look at s.runtime.
CheckAbsent_Forgotten(r) ==
  /\ pc[r] = "entry"
  /\ Goto(r, "bind")
  /\ UNCHANGED <<kind, awaited, runtime, built, callee, history>>

\* spawn and restore, first read: refuse when s.runtime is set.
CheckAbsent(r) ==
  /\ pc[r] = "entry"
  /\ IF runtime = NoRuntime
     THEN Goto(r, "bind")
     ELSE Answer(r, "runtime is not nil")
  /\ UNCHANGED <<kind, awaited, runtime, built, callee, history>>

\* ShouldBindJSON: the body decodes or the answer is 400.
Bind(r, next) ==
  /\ pc[r] = "bind"
  /\ Goto(r, next) \/ Answer(r, "bad request")
  /\ UNCHANGED <<kind, awaited, runtime, built, callee, history>>

\* Fault: a construction that fails clears s.runtime.
Build_ClearsField(r) ==
  /\ pc[r] = "build"
  /\ \/ built' = built \cup {r} /\ Goto(r, "publish") /\ UNCHANGED runtime
     \/ UNCHANGED built /\ Answer(r, "failed") /\ runtime' = NoRuntime
  /\ UNCHANGED <<kind, awaited, callee, history>>

\* Fault: s.runtime, err = runtime.New(...) assigns the field before err is tested.
Build_AssignsField(r) ==
  /\ pc[r] = "build"
  /\ runtime' = r
  /\ \/ built' = built \cup {r} /\ Goto(r, "publish")
     \/ UNCHANGED built /\ Answer(r, "failed")
  /\ UNCHANGED <<kind, awaited, callee, history>>

\* Fault: the answer does not wait for the construction to end.
Build_AnswersEarly(r) ==
  /\ pc[r] = "build"
  /\ \/ built' = built \cup {r} /\ Answer(r, "ok")
     \/ UNCHANGED built /\ Answer(r, "failed")
  /\ UNCHANGED <<kind, awaited, runtime, callee, history>>

\* runtime.New or runtime.NewRestored: seconds of work, then a runtime or an error.
Build(r) ==
  /\ pc[r] = "build"
  /\ \/ built' = built \cup {r} /\ Goto(r, "publish")
     \/ UNCHANGED built /\ Answer(r, "failed")
  /\ UNCHANGED <<kind, awaited, runtime, callee, history>>

\* s.runtime = r, with no second look at what the field holds by now.
Publish(r) ==
  /\ pc[r] = "publish"
  /\ runtime' = r
  /\ Answer(r, "ok")
  /\ UNCHANGED <<kind, awaited, built, callee, history>>

\* Second read of s.runtime, and the call.  On nil the method dereferences it:
\* gin's recovery turns the panic into a 500.
Call(r) ==
  /\ pc[r] = "call"
  /\ IF runtime = NoRuntime
     THEN Answer(r, "panic") /\ UNCHANGED callee
     ELSE Goto(r, "running") /\ callee' = [callee EXCEPT ![r] = runtime]
  /\ UNCHANGED <<kind, awaited, runtime, built, history>>

\* The runtime's method returns a result or an error.
Return(r) ==
  /\ pc[r] = "running"
  /\ Answer(r, "ok") \/ Answer(r, "failed")
  /\ UNCHANGED <<kind, awaited, runtime, built, callee, history>>

\* c.JSON: the answer is on its way; a caller that gave up does not read it.
Write(r) ==
  /\ pc[r] = "write"
  /\ Goto(r, "answered")
  /\ awaited' = awaited \ {r}
  /\ UNCHANGED <<kind, runtime, built, callee, history>>

-----------------------------------------------------------------------------

Apply(r) == /\ kind[r] = "apply"
            /\ CheckPresent(r) \/ Bind(r, "call") \/ Call(r) \/ Return(r)

Checkpoint(r) == /\ kind[r] = "checkpoint"
                 /\ CheckPresent(r) \/ Call(r) \/ Return(r)

Spawn(r) == /\ kind[r] = "spawn"
            /\ CheckAbsent(r) \/ Bind(r, "build") \/ Build(r) \/ Publish(r)

Restore(r) == /\ kind[r] = "restore"
              /\ CheckAbsent(r) \/ Bind(r, "build") \/ Build(r) \/ Publish(r)

Health(r) == /\ kind[r] = "health"
             /\ pc[r] = "entry"
             /\ Answer(r, "ok")
             /\ UNCHANGED <<kind, awaited, runtime, built, callee, history>>

Handler(r) == Apply(r) \/ Checkpoint(r) \/ Spawn(r) \/ Restore(r) \/ Health(r)
              \/ Write(r)

Init ==
  /\ kind = [r \in Requests |-> "none"]
  /\ pc = [r \in Requests |-> "idle"]
  /\ reply = [r \in Requests |-> "none"]
  /\ awaited = {}
  /\ runtime = NoRuntime
  /\ built = {}
  /\ callee = [r \in Requests |-> NoRuntime]
  /\ informed = {}
  /\ overlapped = FALSE

Next == \E r \in Requests : Receive(r) \/ GiveUp(r) \/ Handler(r)

Spec == Init /\ [][Next]_vars

-----------------------------------------------------------------------------

\* apply and checkpoint read s.runtime twice, with JSON decoding or nothing in
\* between (api.go:65 and 80, 139 and 147).  The second read never meets nil,
\* whatever the other handlers did meanwhile.
NoCallOnNil == \A r \in Requests : reply[r] # "panic"

\* A runtime whose construction failed never serves: what s.runtime holds was
\* returned without error, and so was every runtime a method was called on.
OnlyBuiltRuntimesServe ==
  \A r \in Requests :
    /\ runtime = r => r \in built /\ reply[r] = "ok"
    /\ callee[r] # NoRuntime => callee[r] \in built

\* Once any caller can know that a spawn or restore succeeded, a call sent from
\* then on is never told that there is no runtime, and a spawn or restore sent from
\* then on builds nothing.
AcknowledgementHolds ==
  \A r \in informed :
    /\ kind[r] \in Callers  => reply[r] # "runtime is nil"
    /\ kind[r] \in Creators => r \notin built /\ reply[r] # "ok"

\* s.runtime never goes back to nil, so the checks at the head of the handlers
\* stay true: an apply that passed its check does not lose its runtime.
NeverBackToNil == [][runtime # NoRuntime => runtime' # NoRuntime]_vars

\* TestSpawnTwice (api_test.go:693): of two spawns one is refused.
SecondSpawnRefused ==
  \A p, q \in Requests :
    /\ kind[p] \in Creators /\ reply[p] = "ok"
    /\ kind[q] \in Creators /\ reply[q] = "ok"
    => p = q

\* As long as no two handlers overlapped, every runtime ever built is the one s.runtime
\* holds, or is about to be: none is left behind holding a gateway session or a bot
\* nobody can reach (api.go:97, 132, 163, 188).
NoOrphanRuntime ==
  ~overlapped => \A b \in built : runtime = b \/ pc[b] = "publish"

\* The creators that were told "ok".
Made == {r \in Requests : kind[r] \in Creators /\ reply[r] = "ok"}

\* The lifecycle seen through s.runtime and the answers decided.
Lifecycle == INSTANCE AgentLifecycle WITH
  current <- runtime,
  made    <- Made,
  served  <- callee

\* The server implements AgentLifecycle until two handlers overlap: one runtime, never
\* replaced, made by the only creator that was told "ok", serves every call.
ImplementsLifecycle ==
  Lifecycle!Init /\ [][overlapped' \/ Lifecycle!Next]_<<runtime, Made, callee>>
=============================================================================
