-------------------------- MODULE OpenclawRuntime --------------------------
(***************************************************************************)
(* The openclaw runtime (src/runtime/openclaw): one session id, guarded by *)
(* a lock that is held for a single read or write, and calls that talk to  *)
(* the gateway in between.                                                 *)
(*                                                                         *)
(* A call is a spawn's set-up, or one Apply or Checkpoint of a runtime     *)
(* that is up; Applies overlap.  Each is its own sequence of steps: read   *)
(* the session id, send a request, hear the answer or run out of time,     *)
(* write the session id, read it again for the reply.  The gateway is      *)
(* external: it may answer late, or act on a request after the runtime     *)
(* stopped waiting for it.  It outlives the runtime, which a crash loses.  *)
(***************************************************************************)
EXTENDS FiniteSets

CONSTANTS
  Calls,        \* every spawn, Apply and Checkpoint of a behaviour
  Ids,          \* the session ids the gateway can issue
  Fallback,     \* OPENCLAW_SESSION_KEY
  Body,         \* the text of a sessions_create answer that names no session id
  None          \* the empty session id

ASSUME AOpenclaw ==
  /\ Fallback \notin Ids
  /\ None \notin Ids
  /\ Body \notin Ids
  /\ None # Fallback
  /\ None # Body
  /\ Body # Fallback

VARIABLES
  phase,      \* "absent", "spawning" or "up": is there a runtime, and does it serve
  session,    \* state.SessionID
  op,         \* what a call does
  pc,         \* where it is
  ask,        \* the gateway request it makes
  key,        \* the session id it read and sends
  data,       \* what CreateSession read back as the response data
  tag,        \* the SessionID tag of its reply
  wire,       \* the request, then the gateway's answer to it
  new,        \* the session id in the answer to a sessions_create, or its text
  saved,      \* the session ids in the checkpoints handed out
  tool,       \* does the gateway offer sessions_create
  open,       \* the sessions open at the gateway
  issued,     \* every session the gateway ever opened
  restored,   \* the session the present runtime was restored with (history)
  overlapped  \* did a call ever start while another was on its way (history)

runtimeVars == <<phase, session, saved>>
history     == <<restored, overlapped>>
callVars    == <<op, pc, ask, key, data, tag>>
gatewayVars == <<wire, new, tool, open, issued>>
vars        == <<runtimeVars, history, callVars, gatewayVars>>

Sessions == Ids \cup {Fallback, Body}

\* Query, Execute and Chat are one control path (send); so are Ping and
\* ConfigureTelegram, which use no session (plain).
Keyed == {"send", "model"}
Ops   == Keyed \cup {"create", "close", "plain", "checkpoint"}
Asks  == Keyed \cup {"create", "close", "plain"}

Ended  == {"ok", "failed", "lost"}
Active == {"locate", "ready", "asking", "configure", "reread", "tagging"}

TypeOK ==
  /\ phase \in {"absent", "spawning", "up"}
  /\ session \in Sessions \cup {None}
  /\ op \in [Calls -> Ops \cup {"spawn", "none"}]
  /\ pc \in [Calls -> {"idle"} \cup Active \cup Ended]
  /\ ask \in [Calls -> Asks \cup {"none"}]
  /\ key \in [Calls -> Sessions \cup {None}]
  /\ data \in [Calls -> Sessions \cup {None}]
  /\ tag \in [Calls -> Sessions \cup {None}]
  /\ wire \in [Calls -> {"none", "request", "ok", "tool not available", "error"}]
  /\ new \in [Calls -> Ids \cup {None, Body}]
  /\ saved \subseteq Sessions
  /\ tool \in BOOLEAN
  /\ open \subseteq issued
  /\ issued \subseteq Ids
  /\ restored \in Sessions \cup {None}
  /\ overlapped \in BOOLEAN

-----------------------------------------------------------------------------
(* Steps of a call.                                                        *)

Goto(c, to) == pc' = [pc EXCEPT ![c] = to]

\* The call returns an error.  A spawn's runtime is dropped with whatever session
\* it had opened.
Fail(c) ==
  /\ Goto(c, "failed")
  /\ IF op[c] = "spawn"
     THEN phase' = "absent" /\ session' = None
     ELSE UNCHANGED <<phase, session>>

\* Apply: the action selects the request.  CreateSession and plain requests need no
\* session; the others, and Checkpoint, read it first.
Start(c) ==
  /\ phase = "up"
  /\ pc[c] = "idle"
  /\ overlapped' = (overlapped \/ \E d \in Calls : pc[d] \notin {"idle"} \cup Ended)
  /\ \E o \in Ops :
       /\ op'  = [op EXCEPT ![c] = o]
       /\ ask' = [ask EXCEPT ![c] = IF o = "checkpoint" THEN "none" ELSE o]
       /\ Goto(c, IF o \in {"create", "plain"} THEN "ready" ELSE "locate")
  /\ UNCHANGED <<runtimeVars, restored, gatewayVars, key, data, tag>>

\* NewWithParams: the gateway answered the ping, set-up starts with CreateSession.
StartSpawn(c) ==
  /\ phase = "absent"
  /\ pc[c] = "idle"
  /\ phase' = "spawning"
  /\ restored' = None
  /\ op' = [op EXCEPT ![c] = "spawn"]
  /\ ask' = [ask EXCEPT ![c] = "create"]
  /\ Goto(c, "ready")
  /\ UNCHANGED <<overlapped, session, saved, gatewayVars, key, data, tag>>

\* Fault: the id of the checkpoint is kept apart and wins over the field.
ReadKey_Cached(c) ==
  /\ pc[c] = "locate"
  /\ op[c] # "checkpoint"
  /\ IF session = None
     THEN Fail(c) /\ UNCHANGED key
     ELSE /\ key' = [key EXCEPT ![c] = IF restored # None THEN restored ELSE session]
          /\ Goto(c, "ready")
          /\ UNCHANGED <<phase, session>>
  /\ UNCHANGED <<saved, history, gatewayVars, op, ask, data, tag>>

\* r.sessionID(), once, into a local variable; empty is an error.
ReadKey(c) ==
  /\ pc[c] = "locate"
  /\ op[c] # "checkpoint"
  /\ IF session = None
     THEN Fail(c) /\ UNCHANGED key
     ELSE /\ key' = [key EXCEPT ![c] = session]
          /\ Goto(c, "ready")
          /\ UNCHANGED <<phase, session>>
  /\ UNCHANGED <<saved, history, gatewayVars, op, ask, data, tag>>

\* Checkpoint: one read, which must not be empty, goes into the saved state.
Checkpoint(c) ==
  /\ pc[c] = "locate"
  /\ op[c] = "checkpoint"
  /\ IF session = None
     THEN Fail(c) /\ UNCHANGED saved
     ELSE /\ saved' = saved \cup {session}
          /\ Goto(c, "ok")
          /\ UNCHANGED <<phase, session>>
  /\ UNCHANGED <<history, gatewayVars, op, ask, key, data, tag>>

\* Fault: the payload is built from the field, not from the checked local.
Ask_Rereads(c) ==
  /\ pc[c] = "ready"
  /\ \/ /\ wire' = [wire EXCEPT ![c] = "request"]
        /\ key'  = [key EXCEPT ![c] = IF op[c] \in Keyed THEN session ELSE @]
        /\ Goto(c, "asking")
        /\ UNCHANGED <<phase, session>>
     \/ Fail(c) /\ UNCHANGED <<wire, key>>
  /\ UNCHANGED <<saved, history, new, tool, open, issued, op, ask, data, tag>>

\* HTTPGatewayClient.Call up to the request; the action may have no endpoint, or the
\* gateway be unreachable.
Ask(c) ==
  /\ pc[c] = "ready"
  /\ \/ /\ wire' = [wire EXCEPT ![c] = "request"]
        /\ Goto(c, "asking")
        /\ UNCHANGED <<phase, session>>
     \/ Fail(c) /\ UNCHANGED wire
  /\ UNCHANGED <<saved, history, new, tool, open, issued, op, ask, key, data, tag>>

\* The context's deadline, or the connection broke: the answer is not read, whether
\* or not the gateway acted or will act.
Timeout(c) ==
  /\ pc[c] = "asking"
  /\ Fail(c)
  /\ UNCHANGED <<saved, history, gatewayVars, op, ask, key, data, tag>>

\* Fault: a close that is refused forgets the session too.
HearError_Forgets(c) ==
  /\ pc[c] = "asking"
  /\ wire[c] = "error"
  /\ Goto(c, "failed")
  /\ phase' = IF op[c] = "spawn" THEN "absent" ELSE phase
  /\ session' = IF op[c] \in {"spawn", "close"} THEN None ELSE session
  /\ UNCHANGED <<saved, history, gatewayVars, op, ask, key, data, tag>>

\* An answer with a status of 400 or more, or a sessions_create answer with no text.
HearError(c) ==
  /\ pc[c] = "asking"
  /\ \/ wire[c] = "error"
     \/ wire[c] = "tool not available" /\ ask[c] # "create"
  /\ Fail(c)
  /\ UNCHANGED <<saved, history, gatewayVars, op, ask, key, data, tag>>

\* Fault: an id is stored only when the field is empty.
StoreSession_KeepsOld(c) ==
  /\ pc[c] = "asking"
  /\ ask[c] = "create"
  /\ wire[c] \in {"ok", "tool not available"}
  /\ op[c] = "create"
  /\ session' = IF session # None THEN session
                ELSE IF wire[c] = "ok" THEN new[c] ELSE Fallback
  /\ Goto(c, "reread")
  /\ UNCHANGED <<phase, saved, history, gatewayVars, op, ask, key, data, tag>>

\* CreateSession stores the answer's session id (its text, when it names none), or the
\* fallback when the tool does not exist, over whatever the field holds.
StoreSession(c) ==
  /\ pc[c] = "asking"
  /\ ask[c] = "create"
  /\ wire[c] \in {"ok", "tool not available"}
  /\ op[c] = "create"
  /\ session' = IF wire[c] = "ok" THEN new[c] ELSE Fallback
  /\ Goto(c, "reread")
  /\ UNCHANGED <<phase, saved, history, gatewayVars, op, ask, key, data, tag>>

\* responseData = r.sessionID()
RereadSession(c) ==
  /\ pc[c] = "reread"
  /\ data' = [data EXCEPT ![c] = session]
  /\ Goto(c, "tagging")
  /\ UNCHANGED <<runtimeVars, history, gatewayVars, op, ask, key, tag>>

\* Fault: closeSession leaves the id in place.
ClearSession_Forgotten(c) ==
  /\ pc[c] = "asking"
  /\ ask[c] = "close"
  /\ wire[c] = "ok"
  /\ Goto(c, "tagging")
  /\ UNCHANGED <<runtimeVars, history, gatewayVars, op, ask, key, data, tag>>

\* closeSession: whatever the field holds by now is cleared.
ClearSession(c) ==
  /\ pc[c] = "asking"
  /\ ask[c] = "close"
  /\ wire[c] = "ok"
  /\ session' = None
  /\ Goto(c, "tagging")
  /\ UNCHANGED <<phase, saved, history, gatewayVars, op, ask, key, data, tag>>

\* Any other request of an Apply was answered: on to the reply.
Hear(c) ==
  /\ pc[c] = "asking"
  /\ op[c] \in Keyed \cup {"plain"}
  /\ wire[c] = "ok"
  /\ Goto(c, "tagging")
  /\ UNCHANGED <<runtimeVars, history, gatewayVars, op, ask, key, data, tag>>

\* The reply carries the session id the field holds now.
Tag(c) ==
  /\ pc[c] = "tagging"
  /\ tag' = [tag EXCEPT ![c] = session]
  /\ Goto(c, "ok")
  /\ UNCHANGED <<runtimeVars, history, gatewayVars, op, ask, key, data>>

-----------------------------------------------------------------------------
(* SetupOnSpawn and the life of the runtime.                               *)

\* A request of the set-up was answered.  CreateSession's answer is stored.
HearSetup(c) ==
  /\ pc[c] = "asking"
  /\ op[c] = "spawn"
  /\ \/ wire[c] = "ok"
     \/ wire[c] = "tool not available" /\ ask[c] = "create"
  /\ session' = IF ask[c] # "create" THEN session
                ELSE IF wire[c] = "ok" THEN new[c] ELSE Fallback
  /\ Goto(c, "configure")
  /\ UNCHANGED <<phase, saved, history, gatewayVars, op, ask, key, data, tag>>

\* What the spawn tags ask for next: the API key (which may fail locally), the
\* model unless the session is the fallback, telegram; then the runtime serves.
SetupNext(c) ==
  /\ pc[c] = "configure"
  /\ \/ /\ ask[c] = "create"
        /\ Fail(c)
        /\ UNCHANGED <<ask, key>>
     \/ /\ ask[c] = "create"
        /\ session # Fallback
        /\ ask' = [ask EXCEPT ![c] = "model"]
        /\ key' = [key EXCEPT ![c] = session]
        /\ Goto(c, "ready")
        /\ UNCHANGED <<phase, session>>
     \/ /\ ask[c] \in {"create", "model"}
        /\ ask' = [ask EXCEPT ![c] = "plain"]
        /\ Goto(c, "ready")
        /\ UNCHANGED <<phase, session, key>>
     \/ /\ phase' = "up"
        /\ Goto(c, "ok")
        /\ UNCHANGED <<session, ask, key>>
  /\ UNCHANGED <<saved, history, gatewayVars, op, data, tag>>

\* Fault: an empty session id in a checkpoint is accepted.
Restore_AcceptsEmpty ==
  /\ phase = "absent"
  /\ \E s \in saved \cup {None} : session' = s /\ restored' = s
  /\ phase' = "up"
  /\ UNCHANGED <<overlapped, saved, callVars, gatewayVars>>

\* NewRestored, with a checkpoint taken earlier or with an empty one, which is
\* refused.  No session is created and the gateway is not asked about this one.
Restore ==
  /\ phase = "absent"
  /\ \E s \in saved \cup {None} : s # None /\ session' = s /\ restored' = s
  /\ phase' = "up"
  /\ UNCHANGED <<overlapped, saved, callVars, gatewayVars>>

\* The agent's process dies: the field and every call of this life are gone, and the
\* gateway may still act on their requests.
Crash ==
  /\ phase # "absent"
  /\ phase' = "absent"
  /\ session' = None
  /\ pc' = [c \in Calls |-> IF pc[c] = "idle" THEN "idle" ELSE "lost"]
  /\ data' = [c \in Calls |-> None]
  /\ tag' = [c \in Calls |-> None]
  /\ UNCHANGED <<saved, history, op, ask, key, gatewayVars>>

-----------------------------------------------------------------------------
(* The gateway (external).                                                 *)

\* sessions_create opens a session, answers with a text that names none (one it may have
\* opened all the same nobody knows of), fails or answers nothing, or does not exist.
GatewayCreates(c) ==
  /\ ask[c] = "create"
  /\ \/ /\ tool
        /\ \E s \in Ids \ issued :
             /\ new' = [new EXCEPT ![c] = s]
             /\ issued' = issued \cup {s}
             /\ open' = open \cup {s}
        /\ wire' = [wire EXCEPT ![c] = "ok"]
     \/ /\ tool
        /\ new' = [new EXCEPT ![c] = Body]
        /\ wire' = [wire EXCEPT ![c] = "ok"]
        /\ UNCHANGED <<issued, open>>
     \/ /\ wire' = [wire EXCEPT ![c] = IF tool THEN "error" ELSE "tool not available"]
        /\ UNCHANGED <<new, issued, open>>

\* sessions_delete closes the session named by the request.
GatewayCloses(c) ==
  /\ ask[c] = "close"
  /\ \/ wire' = [wire EXCEPT ![c] = "ok"] /\ open' = open \ {key[c]}
     \/ wire' = [wire EXCEPT ![c] = "error"] /\ UNCHANGED open
  /\ UNCHANGED <<new, issued>>

\* Every other request is carried out, or refused.
GatewayServes(c) ==
  /\ ask[c] \in Keyed \cup {"plain"}
  /\ \E answer \in {"ok", "error"} : wire' = [wire EXCEPT ![c] = answer]
  /\ UNCHANGED <<new, issued, open>>

Gateway(c) ==
  /\ wire[c] = "request"
  /\ GatewayCreates(c) \/ GatewayCloses(c) \/ GatewayServes(c)
  /\ UNCHANGED <<runtimeVars, history, callVars, tool>>

-----------------------------------------------------------------------------

CallStep(c) ==
  \/ ReadKey(c) \/ Checkpoint(c) \/ Ask(c)
  \/ StoreSession(c) \/ RereadSession(c) \/ ClearSession(c) \/ Hear(c) \/ Tag(c)
  \/ HearSetup(c) \/ SetupNext(c)
  \/ HearError(c) \/ Timeout(c)

\* The agent starts, perhaps not for the first time: the gateway knows a session of
\* an earlier life, still open or not, and there may be a checkpoint of that life.
Init ==
  /\ phase = "absent"
  /\ session = None
  /\ op = [c \in Calls |-> "none"]
  /\ pc = [c \in Calls |-> "idle"]
  /\ ask = [c \in Calls |-> "none"]
  /\ key = [c \in Calls |-> None]
  /\ data = [c \in Calls |-> None]
  /\ tag = [c \in Calls |-> None]
  /\ wire = [c \in Calls |-> "none"]
  /\ new = [c \in Calls |-> None]
  /\ tool \in BOOLEAN
  /\ \/ saved \in {{}, {Fallback}, {Body}} /\ issued = {}
     \/ \E s \in Ids : saved = {s} /\ issued = {s}
  /\ open \in SUBSET issued
  /\ restored = None
  /\ overlapped = FALSE

Next ==
  \/ \E c \in Calls : Start(c) \/ StartSpawn(c) \/ CallStep(c) \/ Gateway(c)
  \/ Restore
  \/ Crash

Spec == Init /\ [][Next]_vars

-----------------------------------------------------------------------------

\* A call tests the session id and sends it some steps later, while a CloseSession
\* may clear the field: what is sent is never empty (openclaw.go:189, setup.go:64).
NoEmptyKeySent ==
  \A c \in Calls :
    wire[c] # "none" /\ ask[c] \in Keyed \cup {"close"} => key[c] # None

\* What the runtime holds as its session is explained: a session open at the gateway;
\* what a checkpoint said; one the gateway closed by a close that was not answered yet,
\* or whose answer never came or was a refusal; the session shared by all runtimes, when
\* the gateway has no tool to create one (setup.go:314); or the text of an answer that
\* named no session (setup.go:335).
SessionExplained ==
  session # None =>
    \/ session \in open
    \/ session = restored
    \/ session = Fallback /\ ~tool
    \/ session = Body /\ \E c \in Calls : new[c] = Body
    \/ session \in issued /\ \E c \in Calls :
         op[c] = "close" /\ key[c] = session /\ pc[c] \in {"asking", "failed", "lost"}

\* "Fallback session key if session creation fails (default: `main`)" (readme.md:52): a
\* creation that the gateway refuses leaves the runtime with that key.
FallsBackWhenCreationFails ==
  [][\A c \in Calls :
       ask[c] = "create" /\ wire[c] = "error" /\ pc[c] = "asking" /\ pc'[c] # "asking"
         => session' = Fallback]_vars

\* An Apply that fails leaves the session id as it was.
FailureKeepsSession ==
  [][\A c \in Calls :
       (pc'[c] = "failed" /\ pc[c] # "failed" /\ op[c] # "spawn")
         => session' = session]_vars

\* A runtime that starts to serve, spawned or restored, has a session: the first
\* send or checkpoint finds one.
ServesWithSession == [][phase # "up" /\ phase' = "up" => session' # None]_vars

\* To a caller that waits for each answer, a reply names the session its request
\* went to; a CreateSession's reply names the session it made, in the tag and in
\* the data.
ReplyNamesItsSession ==
  ~overlapped => \A c \in Calls : pc[c] = "ok" =>
    /\ op[c] \in Keyed => tag[c] = key[c]
    /\ op[c] = "create" /\ wire[c] = "ok" => tag[c] = new[c] /\ data[c] = new[c]

\* "closes current runtime session" (readme.md:421): the session that an answered
\* CloseSession makes the runtime forget is the one the gateway closed.
ForgetsWhatItClosed(c) ==
  (op[c] = "close" /\ pc[c] = "asking" /\ pc'[c] = "tagging" /\ session # None)
    => session = key[c]

CloseForgetsWhatItClosed == [][\A c \in Calls : ForgetsWhatItClosed(c)]_vars

\* So it is for a caller that waits for each answer.
LoneCloseForgetsWhatItClosed ==
  [][~overlapped => \A c \in Calls : ForgetsWhatItClosed(c)]_vars
=============================================================================
