--------------------------- MODULE OpenclawProofs ---------------------------
(***************************************************************************)
(* Theorems about the openclaw runtime (OpenclawRuntime), and about its    *)
(* set-up (OpenclawSetup), for any calls, session ids, tags and answers.   *)
(*                                                                         *)
(* None of the runtime's properties is inductive.  What a call sends was   *)
(* read steps before (Shape), so it matters who else can work at the time  *)
(* (Phases); that a new session is open when it is stored rests on nobody  *)
(* having seen its id before (Known, Unpublished); and a caller that waits *)
(* relies on the field staying as its own call left it (Alone, OwnSession).*)
(*                                                                         *)
(* The set-up has an invariant of its own, SetupInv.  What a call is       *)
(* acknowledged for it did steps before: Spawned, Based and Approved say   *)
(* what it has done by where it is, and Place says where that can be.  A   *)
(* spawn skips its model while the session is the fallback one, so it      *)
(* matters that no other call works then (SetupPhases).  After it comes    *)
(* what shows of each step to OpenclawRuntime.  The last parts are about   *)
(* the fields of answers and requests: which hash is found in an answer,   *)
(* so that no patch is blind (NeverBlind), and whose key a key is.         *)
(***************************************************************************)
EXTENDS OpenclawSetup, TextsProofs

Working(c) == pc[c] \in Active

\* Who works in which phase of the runtime's life.
Phases ==
  /\ phase = "absent" => session = None /\ \A c \in Calls : ~Working(c)
  /\ phase = "up" => \A c \in Calls : Working(c) => op[c] # "spawn"
  /\ phase = "spawning" =>
       \A c, d \in Calls : Working(c) /\ Working(d) => op[c] = "spawn" /\ c = d

\* Where a call is, and what it has read by then.
Shape(c) ==
  /\ pc[c] = "idle" => ask[c] = "none" /\ wire[c] = "none" /\ new[c] = None
  /\ pc[c] = "locate" => wire[c] = "none"
  /\ ask[c] = "close" => op[c] = "close"
  /\ wire[c] = "request" => pc[c] \in {"asking", "failed", "lost"}
  /\ wire[c] = "tool not available" => ~tool
  /\ ask[c] = "create" =>
       /\ pc[c] = "ready" => wire[c] = "none"
       /\ wire[c] \in {"none", "request"} => new[c] = None
       /\ wire[c] = "ok" => new[c] # None
  /\ ask[c] \in Keyed \cup {"close"} =>
       /\ wire[c] # "none" => key[c] # None
       /\ pc[c] \in {"ready", "asking"} => key[c] # None
  /\ pc[c] = "configure" => op[c] = "spawn"
  /\ pc[c] = "reread" => op[c] = "create"
  /\ Working(c) /\ op[c] = "spawn" =>
       /\ pc[c] \in {"ready", "asking", "configure"}
       /\ session # None \/ (ask[c] = "create" /\ pc[c] # "configure")

\* Only the gateway makes session ids.
Known ==
  /\ session \in issued \cup {Fallback, Body, None}
  /\ saved \subseteq issued \cup {Fallback, Body}
  /\ \A c \in Calls : /\ key[c] \in issued \cup {Fallback, Body, None}
                      /\ new[c] \in issued \cup {Body, None}

\* A session that was created and not stored yet is open, and nobody has its id.
Unpublished(c) ==
  pc[c] = "asking" /\ wire[c] = "ok" /\ ask[c] = "create" /\ new[c] # Body =>
    /\ new[c] \in open
    /\ new[c] # session
    /\ \A d \in Calls : key[d] # new[c] /\ (new[d] = new[c] => d = c)

SessionInv ==
  /\ TypeOK
  /\ Phases
  /\ \A c \in Calls : Shape(c)
  /\ Known
  /\ \A c \in Calls : Unpublished(c)
  /\ SessionExplained

\* A caller that waits has one call on its way at most.
Alone == ~overlapped => \A c, d \in Calls : Working(c) /\ Working(d) => c = d

\* Then the field is what the call read, or made.
OwnSession(c) ==
  ~overlapped =>
    /\ pc[c] \in {"ready", "asking"} /\ op[c] \in Keyed \cup {"close"} => session = key[c]
    /\ op[c] \in Keyed =>
         /\ pc[c] = "tagging" => session = key[c]
         /\ pc[c] = "ok" => tag[c] = key[c]
    /\ op[c] = "create" /\ wire[c] = "ok" =>
         /\ pc[c] = "reread" => session = new[c]
         /\ pc[c] = "tagging" => session = new[c] /\ data[c] = new[c]
         /\ pc[c] = "ok" => tag[c] = new[c] /\ data[c] = new[c]

LoneInv == SessionInv /\ Alone /\ \A c \in Calls : OwnSession(c)
-----------------------------------------------------------------------------
(* Types, and what one call leaves alone.                                  *)

\* The agent starts with nothing, perhaps after an earlier life.
LEMMA InitInv == Init => LoneInv
<1> SUFFICES ASSUME Init PROVE LoneInv
  OBVIOUS
<1> USE AOpenclaw DEF Init, Sessions, Ops, Asks, Keyed, Active
<1>1. TypeOK
  BY DEF TypeOK
<1>2. Phases /\ Alone
  BY DEF Phases, Alone, Working
<1>3. ASSUME NEW c \in Calls PROVE Shape(c) /\ Unpublished(c) /\ OwnSession(c)
  BY <1>3 DEF Shape, Working, Unpublished, OwnSession
<1>4. Known /\ SessionExplained
  BY DEF Known, SessionExplained
<1> QED
  BY <1>1, <1>2, <1>3, <1>4 DEF LoneInv, SessionInv

\* The steps of a call keep the types.
LEMMA StepType ==
  ASSUME TypeOK, NEW c \in Calls, Start(c) \/ StartSpawn(c) \/ CallStep(c) PROVE TypeOK'
<1> USE DEF TypeOK, Sessions, Goto, Fail, Ops, Asks, Keyed, Active, Ended, history, runtimeVars, gatewayVars
<1>1. CASE Start(c)
  <2>1. PICK o \in Ops :
          /\ op' = [op EXCEPT ![c] = o]
          /\ ask' = [ask EXCEPT ![c] = IF o = "checkpoint" THEN "none" ELSE o]
          /\ pc' = [pc EXCEPT ![c] = IF o \in {"create", "plain"} THEN "ready" ELSE "locate"]
    BY <1>1 DEF Start
  <2>2. overlapped' \in BOOLEAN
    BY <1>1 DEF Start
  <2> QED
    BY <1>1, <2>1, <2>2 DEF Start
<1>2. CASE StartSpawn(c)
  BY <1>2 DEF StartSpawn
<1>3. CASE ReadKey(c)
  BY <1>3 DEF ReadKey
<1>4. CASE Checkpoint(c)
  <2>1. CASE session = None
    BY <1>4, <2>1 DEF Checkpoint
  <2>2. CASE session # None
    <3>1. /\ saved' = saved \cup {session}
          /\ pc' = [pc EXCEPT ![c] = "ok"]
          /\ UNCHANGED <<phase, session, history, gatewayVars, op, ask, key, data, tag>>
      BY <1>4, <2>2 DEF Checkpoint
    <3>2. saved' \subseteq Sessions
      BY <2>2, <3>1
    <3> QED
      BY <3>1, <3>2
  <2> QED
    BY <2>1, <2>2
<1>5. CASE Ask(c)
  BY <1>5 DEF Ask
<1>6. CASE StoreSession(c)
  BY <1>6 DEF StoreSession
<1>7. CASE RereadSession(c)
  BY <1>7 DEF RereadSession
<1>8. CASE ClearSession(c)
  BY <1>8 DEF ClearSession
<1>9. CASE Hear(c)
  BY <1>9 DEF Hear
<1>10. CASE Tag(c)
  BY <1>10 DEF Tag
<1>11. CASE HearSetup(c)
  BY <1>11 DEF HearSetup
<1>12. CASE SetupNext(c)
  <2>1. ask' \in [Calls -> Asks \cup {"none"}]
    <3>1. ask' \in {ask, [ask EXCEPT ![c] = "model"], [ask EXCEPT ![c] = "plain"]}
      BY <1>12 DEF SetupNext
    <3> QED
      BY <3>1
  <2>4. key' \in [Calls -> Sessions \cup {None}]
    <3>1. key' \in {key, [key EXCEPT ![c] = session]}
      BY <1>12 DEF SetupNext
    <3> QED
      BY <3>1
  <2>2. pc' \in [Calls -> {"idle"} \cup Active \cup Ended]
    BY <1>12, ZenonT(30) DEF SetupNext
  <2>3. phase' \in {"absent", "spawning", "up"} /\ session' \in Sessions \cup {None}
    BY <1>12 DEF SetupNext
  <2> QED
    BY <1>12, <2>1, <2>2, <2>3, <2>4 DEF SetupNext
<1>13. CASE Timeout(c)
  BY <1>13 DEF Timeout
<1>14. CASE HearError(c)
  BY <1>14 DEF HearError
<1> QED
  BY <1>1, <1>2, <1>3, <1>4, <1>5, <1>6, <1>7, <1>8, <1>9, <1>10, <1>11, <1>12, <1>13, <1>14 DEF CallStep

\* Every step keeps the types.
LEMMA NextType == ASSUME TypeOK, Next PROVE TypeOK'
<1>1. ASSUME NEW c \in Calls, Start(c) \/ StartSpawn(c) \/ CallStep(c) PROVE TypeOK'
  BY <1>1, StepType
<1> USE DEF TypeOK, Sessions, history, runtimeVars, callVars, gatewayVars
<1>2. ASSUME NEW c \in Calls, Gateway(c) PROVE TypeOK'
  <2>1. CASE GatewayCreates(c)
    <3>1. wire' \in [Calls -> {"none", "request", "ok", "tool not available", "error"}]
      <4>1. \E answer \in {"ok", "tool not available", "error"} : wire' = [wire EXCEPT ![c] = answer]
        BY <2>1 DEF GatewayCreates
      <4> QED
        BY <4>1
    <3>2. CASE UNCHANGED <<new, issued, open>>
      BY <1>2, <3>1, <3>2 DEF Gateway
    <3>3. CASE \E x \in Ids \ issued : /\ new' = [new EXCEPT ![c] = x]
                                       /\ issued' = issued \cup {x}
                                       /\ open' = open \cup {x}
      <4>1. new' \in [Calls -> Ids \cup {None, Body}]
        BY <3>3
      <4>2. issued' \subseteq Ids /\ open' \subseteq issued'
        BY <3>3
      <4> QED
        BY <1>2, <3>1, <4>1, <4>2 DEF Gateway
    <3>4. CASE new' = [new EXCEPT ![c] = Body] /\ UNCHANGED <<issued, open>>
      BY <1>2, <3>1, <3>4 DEF Gateway
    <3> QED
      BY <2>1, <3>2, <3>3, <3>4 DEF GatewayCreates
  <2>2. CASE GatewayCloses(c)
    BY <1>2, <2>2 DEF Gateway, GatewayCloses
  <2>3. CASE GatewayServes(c)
    BY <1>2, <2>3 DEF Gateway, GatewayServes
  <2> QED
    BY <1>2, <2>1, <2>2, <2>3 DEF Gateway
<1>3. CASE Restore
  BY <1>3 DEF Restore
<1>4. CASE Crash
  BY <1>4 DEF Crash, Ended
<1> QED
  BY <1>1, <1>2, <1>3, <1>4 DEF Next

\* A step of a call leaves the variables of the others and the gateway's sessions alone.
Frame(c) ==
  /\ \A d \in Calls : d # c =>
       /\ pc'[d] = pc[d] /\ op'[d] = op[d] /\ ask'[d] = ask[d] /\ key'[d] = key[d]
       /\ data'[d] = data[d] /\ tag'[d] = tag[d] /\ wire'[d] = wire[d]
  /\ UNCHANGED <<new, tool, open, issued>>

\* What a step of a call may make of the session, of the key it sends, of the checkpoints
\* and of the phase.
Effect(c) ==
  /\ Working(c) /\ op'[c] = op[c] /\ UNCHANGED history
  /\ \/ session' = session
     \/ session' = None
     \/ pc[c] = "asking" /\ ask[c] = "create" /\ wire[c] = "ok" /\ session' = new[c]
     \/ session' = Fallback /\ wire[c] = "tool not available"
  /\ key'[c] \in {key[c], session}
  /\ pc'[c] = "asking" => wire'[c] = "request"
  /\ op[c] # "spawn" /\ pc'[c] = "failed" => session' = session
  /\ op[c] = "close" /\ pc[c] = "asking" =>
       session' = None \/ (pc'[c] = "failed" /\ key'[c] = key[c])
  /\ saved' = saved \/ (saved' = saved \cup {session} /\ session # None)
  /\ \/ phase' = phase /\ (op[c] = "spawn" => Working(c)')
     \/ op[c] = "spawn" /\ phase' = "absent" /\ session' = None /\ pc'[c] = "failed"
     \/ op[c] = "spawn" /\ phase' = "up" /\ session' = session /\ pc'[c] = "ok"

\* So it is.
LEMMA StepFrame ==
  ASSUME TypeOK, NEW c \in Calls, Start(c) \/ StartSpawn(c) \/ CallStep(c) PROVE Frame(c)
<1> USE DEF TypeOK, Frame, Goto, Fail, history, runtimeVars, gatewayVars, callVars
<1>1. CASE Start(c)
  BY <1>1 DEF Start
<1>2. CASE StartSpawn(c)
  BY <1>2 DEF StartSpawn
<1>3. CASE ReadKey(c)
  BY <1>3 DEF ReadKey
<1>4. CASE Checkpoint(c)
  BY <1>4 DEF Checkpoint
<1>5. CASE Ask(c)
  BY <1>5 DEF Ask
<1>6. CASE StoreSession(c)
  BY <1>6 DEF StoreSession
<1>7. CASE RereadSession(c)
  BY <1>7 DEF RereadSession
<1>8. CASE ClearSession(c)
  BY <1>8 DEF ClearSession
<1>9. CASE Hear(c)
  BY <1>9 DEF Hear
<1>10. CASE Tag(c)
  BY <1>10 DEF Tag
<1>11. CASE HearSetup(c)
  BY <1>11 DEF HearSetup
<1>12. CASE SetupNext(c)
  BY <1>12 DEF SetupNext
<1>13. CASE Timeout(c)
  BY <1>13 DEF Timeout
<1>14. CASE HearError(c)
  BY <1>14 DEF HearError
<1> QED
  BY <1>1, <1>2, <1>3, <1>4, <1>5, <1>6, <1>7, <1>8, <1>9, <1>10, <1>11, <1>12, <1>13, <1>14 DEF CallStep

\* And that is all.
LEMMA StepEffect ==
  ASSUME TypeOK, NEW c \in Calls, Shape(c), CallStep(c) PROVE Effect(c)
<1> USE DEF TypeOK, Effect, Working, Active, Ended, Goto, Fail, history, runtimeVars, gatewayVars, callVars, Shape, Ops, Keyed
<1>1. CASE ReadKey(c)
  BY <1>1 DEF ReadKey
<1>2. CASE Checkpoint(c)
  BY <1>2 DEF Checkpoint
<1>3. CASE Ask(c)
  BY <1>3 DEF Ask
<1>4. CASE StoreSession(c)
  BY <1>4 DEF StoreSession
<1>5. CASE RereadSession(c)
  BY <1>5 DEF RereadSession
<1>6. CASE ClearSession(c)
  BY <1>6 DEF ClearSession
<1>7. CASE Hear(c)
  BY <1>7 DEF Hear
<1>8. CASE Tag(c)
  BY <1>8 DEF Tag
<1>9. CASE HearSetup(c)
  BY <1>9 DEF HearSetup
<1>10. CASE SetupNext(c)
  BY <1>10 DEF SetupNext
<1>11. CASE Timeout(c)
  BY <1>11 DEF Timeout
<1>12. CASE HearError(c)
  BY <1>12 DEF HearError
<1> QED
  BY <1>1, <1>2, <1>3, <1>4, <1>5, <1>6, <1>7, <1>8, <1>9, <1>10, <1>11, <1>12 DEF CallStep

\* What a call is when it has started.
LEMMA StartEffect ==
  ASSUME TypeOK, NEW c \in Calls, Start(c)
  PROVE  /\ phase = "up" /\ pc[c] = "idle" /\ wire'[c] = wire[c]
         /\ UNCHANGED <<phase, session, saved, restored, key, data, tag>>
         /\ op'[c] \in Ops
         /\ ask'[c] = (IF op'[c] = "checkpoint" THEN "none" ELSE op'[c])
         /\ pc'[c] = (IF op'[c] \in {"create", "plain"} THEN "ready" ELSE "locate")
         /\ ~overlapped' => ~overlapped /\ \A d \in Calls : ~Working(d)
<1>1. PICK o \in Ops :
        /\ op' = [op EXCEPT ![c] = o]
        /\ ask' = [ask EXCEPT ![c] = IF o = "checkpoint" THEN "none" ELSE o]
        /\ pc' = [pc EXCEPT ![c] = IF o \in {"create", "plain"} THEN "ready" ELSE "locate"]
  BY DEF Start, Goto
<1>2. op'[c] = o /\ ask'[c] = (IF o = "checkpoint" THEN "none" ELSE o)
  BY <1>1 DEF TypeOK
<1>3. pc'[c] = (IF o \in {"create", "plain"} THEN "ready" ELSE "locate")
  BY <1>1 DEF TypeOK
<1>4. ~overlapped' => ~overlapped /\ \A d \in Calls : ~Working(d)
  BY DEF Start, Working, Active, Ended
<1> QED
  BY <1>2, <1>3, <1>4 DEF Start, runtimeVars, gatewayVars

\* And a spawn.
LEMMA SpawnEffect ==
  ASSUME TypeOK, NEW c \in Calls, StartSpawn(c)
  PROVE  /\ phase = "absent" /\ phase' = "spawning" /\ pc[c] = "idle" /\ wire'[c] = wire[c]
         /\ UNCHANGED <<overlapped, session, saved, key, data, tag>>
         /\ op'[c] = "spawn" /\ ask'[c] = "create" /\ pc'[c] = "ready"
BY DEF StartSpawn, Goto, TypeOK, gatewayVars

-----------------------------------------------------------------------------
(* Each part of the invariant, over the steps of a call.                   *)

\* A call starts in a phase that has room for it, and ends the phase that is its own.
LEMMA StepPhases ==
  ASSUME TypeOK, Phases, NEW c \in Calls, Shape(c), Start(c) \/ StartSpawn(c) \/ CallStep(c)
  PROVE  Phases'
<1>1. CASE Start(c)
  <2>1. phase' = "up" /\ phase = "up" /\ op'[c] # "spawn"
    BY <1>1, StartEffect DEF Ops, Keyed
  <2>2. ASSUME NEW d \in Calls, Working(d)' PROVE op'[d] # "spawn"
    BY <1>1, <2>1, <2>2, StepFrame DEF Frame, Phases, Working
  <2> QED
    BY <2>1, <2>2 DEF Phases
<1>2. CASE StartSpawn(c)
  <2>1. phase' = "spawning" /\ phase = "absent" /\ op'[c] = "spawn"
    BY <1>2, SpawnEffect
  <2>2. ASSUME NEW d \in Calls, Working(d)' PROVE d = c
    BY <1>2, <2>1, <2>2, StepFrame DEF Frame, Phases, Working
  <2> QED
    BY <2>1, <2>2 DEF Phases
<1>3. CASE CallStep(c)
  <2>1. Frame(c) /\ Effect(c)
    BY <1>3, StepFrame, StepEffect
  <2>2. phase \in {"up", "spawning"} /\ (op[c] = "spawn" => phase = "spawning")
    BY <2>1 DEF Effect, Phases, TypeOK
  <2>3. \A d \in Calls : Working(d)' => d = c \/ (Working(d) /\ op'[d] = op[d])
    BY <2>1 DEF Frame, Working
  <2>4. CASE phase' = phase
    BY <2>1, <2>2, <2>3, <2>4 DEF Effect, Phases
  <2>5. CASE op[c] = "spawn" /\ phase' = "absent" /\ session' = None /\ pc'[c] = "failed"
    BY <2>1, <2>2, <2>3, <2>5 DEF Effect, Phases, Working, Active
  <2>6. CASE op[c] = "spawn" /\ phase' = "up" /\ pc'[c] = "ok"
    BY <2>1, <2>2, <2>3, <2>6 DEF Effect, Phases, Working, Active
  <2> QED
    BY <2>1, <2>4, <2>5, <2>6 DEF Effect
<1> QED
  BY <1>1, <1>2, <1>3

\* The call that moves.
LEMMA StepShape ==
  ASSUME TypeOK, NEW c \in Calls, Shape(c), Start(c) \/ StartSpawn(c) \/ CallStep(c)
  PROVE  Shape(c)'
<1> USE AOpenclaw DEF TypeOK, Shape, Working, Active, Ended, Goto, Fail, Ops, Keyed, Asks,
                  history, runtimeVars, gatewayVars, callVars
<1>1. CASE Start(c)
  <2>1. Frame(c)
    BY <1>1, StepFrame
  <2> QED
    BY <1>1, <2>1, StartEffect DEF Frame
<1>2. CASE StartSpawn(c)
  <2>1. Frame(c)
    BY <1>2, StepFrame
  <2> QED
    BY <1>2, <2>1, SpawnEffect DEF Frame
<1>3. CASE ReadKey(c)
  BY <1>3 DEF ReadKey
<1>4. CASE Checkpoint(c)
  BY <1>4 DEF Checkpoint
<1>5. CASE Ask(c)
  <2>1. CASE pc'[c] = "asking"
    BY <1>5, <2>1 DEF Ask
  <2>2. CASE Fail(c) /\ UNCHANGED wire
    BY <1>5, <2>2 DEF Ask
  <2>3. pc'[c] = "asking" \/ (Fail(c) /\ UNCHANGED wire)
    BY <1>5 DEF Ask
  <2> HIDE DEF TypeOK, Shape, Fail
  <2> QED
    BY <2>1, <2>2, <2>3
<1>6. CASE StoreSession(c)
  BY <1>6 DEF StoreSession
<1>7. CASE RereadSession(c)
  BY <1>7 DEF RereadSession
<1>8. CASE ClearSession(c)
  BY <1>8 DEF ClearSession
<1>9. CASE Hear(c)
  BY <1>9 DEF Hear
<1>10. CASE Tag(c)
  BY <1>10 DEF Tag
<1>11. CASE HearSetup(c)
  BY <1>11 DEF HearSetup
<1>12. CASE SetupNext(c)
  <2>1. CASE Fail(c)
    BY <1>12, <2>1 DEF SetupNext
  <2>2. CASE pc'[c] = "ready"
    BY <1>12, <2>2 DEF SetupNext
  <2>3. CASE pc'[c] = "ok"
    BY <1>12, <2>3 DEF SetupNext
  <2>4. Fail(c) \/ pc'[c] = "ready" \/ pc'[c] = "ok"
    BY <1>12 DEF SetupNext
  <2> HIDE DEF TypeOK, Shape, Fail
  <2> QED
    BY <2>1, <2>2, <2>3, <2>4
<1>13. CASE Timeout(c)
  BY <1>13 DEF Timeout
<1>14. CASE HearError(c)
  BY <1>14 DEF HearError
<1> QED
  BY <1>1, <1>2, <1>3, <1>4, <1>5, <1>6, <1>7, <1>8, <1>9, <1>10, <1>11, <1>12, <1>13, <1>14 DEF CallStep

\* The others: a spawn that is on its way is alone, so its session stays.
LEMMA OthersShape ==
  ASSUME TypeOK, Phases, NEW c \in Calls, NEW d \in Calls, d # c, Shape(c), Shape(d),
         Start(c) \/ StartSpawn(c) \/ CallStep(c)
  PROVE  Shape(d)'
<1>1. Frame(c)
  BY StepFrame
<1>2. session' = session \/ ~(Working(d) /\ op[d] = "spawn")
  <2>1. CASE Start(c)
    BY <2>1 DEF Start, runtimeVars
  <2>2. CASE StartSpawn(c)
    BY <2>2 DEF StartSpawn
  <2>3. CASE CallStep(c)
    BY <2>3, StepEffect, ZenonT(30) DEF Effect, Phases, TypeOK
  <2> QED
    BY <2>1, <2>2, <2>3
<1> QED
  BY <1>1, <1>2, ZenonT(30) DEF Frame, Shape, Working, TypeOK

\* A call takes over the ids it is given, and makes none.
LEMMA StepKnown ==
  ASSUME TypeOK, Known, NEW c \in Calls, Shape(c), Start(c) \/ StartSpawn(c) \/ CallStep(c)
  PROVE  Known'
<1> USE DEF TypeOK, Known
<1>1. CASE Start(c)
  BY <1>1 DEF Start, runtimeVars, gatewayVars
<1>2. CASE StartSpawn(c)
  BY <1>2 DEF StartSpawn, gatewayVars
<1>3. CASE CallStep(c)
  <2>1. Frame(c) /\ Effect(c)
    BY <1>3, StepFrame, StepEffect
  <2>2. session' \in issued \cup {Fallback, Body, None}
    BY <2>1 DEF Effect
  <2>3. saved' \subseteq issued \cup {Fallback, Body}
    <3>1. saved' = saved \/ (saved' = saved \cup {session} /\ session # None)
      BY <2>1 DEF Effect
    <3>2. session # None => session \in issued \cup {Fallback, Body}
      OBVIOUS
    <3>3. saved \subseteq issued \cup {Fallback, Body}
      OBVIOUS
    <3> HIDE DEF TypeOK, Known
    <3> QED
      BY <3>1, <3>2, <3>3
  <2>4. ASSUME NEW d \in Calls PROVE key'[d] \in issued \cup {Fallback, Body, None}
    <3>1. CASE d = c
      BY <2>1, <3>1 DEF Effect
    <3>2. CASE d # c
      BY <2>1, <3>2 DEF Frame
    <3> QED
      BY <3>1, <3>2
  <2> QED
    BY <2>1, <2>2, <2>3, <2>4 DEF Frame
<1> QED
  BY <1>1, <1>2, <1>3

\* No call gets hold of an id before it is stored.
LEMMA StepUnpublished ==
  ASSUME TypeOK, NEW c \in Calls, Shape(c), NEW d \in Calls, Unpublished(d),
         Start(c) \/ StartSpawn(c) \/ CallStep(c)
  PROVE  Unpublished(d)'
<1> USE AOpenclaw DEF TypeOK, Unpublished
<1>1. CASE Start(c)
  BY <1>1 DEF Start, Goto, runtimeVars, gatewayVars
<1>2. CASE StartSpawn(c)
  BY <1>2 DEF StartSpawn, Goto, gatewayVars
<1>3. CASE CallStep(c)
  <2>1. Frame(c) /\ Effect(c)
    BY <1>3, StepFrame, StepEffect
  <2>2. CASE d = c
    BY <2>1, <2>2 DEF Effect
  <2>3. CASE d # c
    <3>1. SUFFICES ASSUME pc[d] = "asking", wire[d] = "ok", ask[d] = "create",
                          new[d] # Body
                   PROVE  Unpublished(d)'
      BY <2>1, <2>3 DEF Frame
    <3>2. new[d] \in Ids /\ session' # new[d]
      BY <2>1, <2>3, <3>1 DEF Effect
    <3>3. ASSUME NEW e \in Calls PROVE key'[e] # new[d]
      <4>1. key[e] # new[d] /\ session # new[d]
        BY <3>1
      <4>2. e # c => key'[e] = key[e]
        BY <2>1 DEF Frame
      <4>3. key'[c] \in {key[c], session}
        BY <2>1 DEF Effect
      <4> QED BY <4>1, <4>2, <4>3
    <3> QED
      BY <2>1, <2>3, <3>1, <3>2, <3>3 DEF Frame
  <2> QED
    BY <2>2, <2>3
<1> QED
  BY <1>1, <1>2, <1>3

\* What a call leaves in the field is explained.
LEMMA StepExplained ==
  ASSUME SessionInv, NEW c \in Calls, Start(c) \/ StartSpawn(c) \/ CallStep(c)
  PROVE  SessionExplained'
<1> USE AOpenclaw DEF SessionInv, TypeOK
<1>1. CASE Start(c)
  BY <1>1 DEF Start, Goto, runtimeVars, gatewayVars, SessionExplained
<1>2. CASE StartSpawn(c)
  BY <1>2 DEF StartSpawn, SessionExplained, Phases
<1>3. CASE CallStep(c)
  <2>1. Frame(c) /\ Effect(c)
    BY <1>3, StepFrame, StepEffect
  <2>2. CASE session' = session
    <3>1. ASSUME NEW d \in Calls, op[d] = "close", key[d] = session,
                 pc[d] \in {"asking", "failed", "lost"}, session # None
          PROVE  op'[d] = "close" /\ key'[d] = session /\ pc'[d] \in {"asking", "failed", "lost"}
      BY <2>1, <2>2, <3>1 DEF Frame, Effect, Working, Active
    <3>2. UNCHANGED <<open, issued, tool, new, restored>>
      BY <2>1 DEF Frame, Effect, history
    <3> QED
      BY <2>2, <3>1, <3>2 DEF SessionExplained
  <2>3. CASE session' = None
    BY <2>1, <2>3 DEF Frame, SessionExplained
  <2>4. CASE pc[c] = "asking" /\ ask[c] = "create" /\ wire[c] = "ok" /\ session' = new[c]
    <3>1. CASE new[c] = Body
      BY <2>1, <2>4, <3>1 DEF Frame, SessionExplained
    <3>2. CASE new[c] # Body
      BY <2>1, <2>4, <3>2 DEF Frame, Unpublished, SessionExplained
    <3> QED
      BY <3>1, <3>2
  <2>5. CASE session' = Fallback /\ wire[c] = "tool not available"
    BY <2>1, <2>5 DEF Frame, Shape, SessionExplained
  <2> QED
    BY <2>1, <2>2, <2>3, <2>4, <2>5 DEF Effect
<1> QED
  BY <1>1, <1>2, <1>3

-----------------------------------------------------------------------------
(* The gateway, and the life of the runtime.                               *)

\* What the gateway's answer to a call may bring.
Answered(c) ==
  /\ wire[c] = "request" /\ wire'[c] # "request" /\ wire'[c] # "none"
  /\ \A d \in Calls : d # c => wire'[d] = wire[d] /\ new'[d] = new[d]
  /\ wire'[c] = "tool not available" => ~tool
  /\ \/ ask[c] # "create" /\ issued' = issued /\ new' = new
        /\ open' \in {open, open \ {key[c]}} /\ (open' # open => ask[c] = "close")
     \/ ask[c] = "create" /\ UNCHANGED <<issued, open, new>> /\ wire'[c] # "ok"
     \/ ask[c] = "create" /\ UNCHANGED <<issued, open>> /\ wire'[c] = "ok" /\ new'[c] = Body
     \/ /\ ask[c] = "create" /\ new'[c] \in Ids \ issued
        /\ issued' = issued \cup {new'[c]} /\ open' = open \cup {new'[c]}

\* The gateway answers, or acts after the runtime has stopped listening, in one of those
\* ways and no other.
LEMMA GatewayEffect == ASSUME TypeOK, NEW c \in Calls, Gateway(c) PROVE Answered(c)
<1> USE DEF TypeOK, Answered, Gateway
<1>1. CASE GatewayCreates(c)
  BY <1>1 DEF GatewayCreates
<1>2. CASE GatewayCloses(c)
  BY <1>2 DEF GatewayCloses
<1>3. CASE GatewayServes(c)
  BY <1>3 DEF GatewayServes, Keyed
<1> QED
  BY <1>1, <1>2, <1>3

\* The gateway acts on requests that were sent, whoever still listens.
LEMMA GatewayInv == ASSUME SessionInv, NEW c \in Calls, Gateway(c) PROVE SessionInv'
<1>1. TypeOK'
  BY NextType DEF SessionInv, Next
<1>2. /\ Answered(c)
      /\ UNCHANGED <<phase, session, saved, restored, op, pc, ask, key, tool>>
  BY GatewayEffect DEF SessionInv, Gateway, runtimeVars, history, callVars
<1>3. Phases'
  BY <1>2 DEF SessionInv, Phases, Working
<1>4. ASSUME NEW d \in Calls PROVE Shape(d)'
  <2>1. CASE d = c
    BY <1>2, <2>1, AOpenclaw DEF SessionInv, Shape, Working, Answered, TypeOK
  <2>2. CASE d # c
    BY <1>2, <2>2 DEF SessionInv, Shape, Working, Answered
  <2> QED
    BY <2>1, <2>2
<1>5. Known'
  <2>1. issued \subseteq issued'
    BY <1>2 DEF Answered
  <2>2. ASSUME NEW d \in Calls PROVE new'[d] \in issued' \cup {Body, None}
    BY <1>2, <2>1 DEF SessionInv, Known, Answered
  <2> QED
    BY <1>2, <2>1, <2>2 DEF SessionInv, Known
<1>6. ASSUME NEW d \in Calls PROVE Unpublished(d)'
  <2> SUFFICES ASSUME pc[d] = "asking", wire'[d] = "ok", ask[d] = "create", new'[d] # Body
               PROVE  Unpublished(d)'
    BY <1>2 DEF Unpublished
  <2>1. CASE d = c
    <3>1. new'[c] \in open' /\ new'[c] \in Ids \ issued
      BY <1>2, <2>1 DEF Answered
    <3> QED
      BY <1>2, <2>1, <3>1, AOpenclaw DEF SessionInv, Unpublished, Known, Answered
  <2>2. CASE d # c
    <3>1. wire[d] = "ok" /\ new'[d] = new[d] /\ Unpublished(d)
      BY <1>2, <2>2 DEF Answered, SessionInv
    <3>2. new[d] \in open' /\ new[d] \in issued
      BY <1>2, <3>1 DEF Answered, Unpublished, SessionInv, TypeOK
    <3> QED
      BY <1>2, <2>2, <3>1, <3>2 DEF Answered, Unpublished
  <2> QED
    BY <2>1, <2>2
<1>7. SessionExplained'
  <2>1. \A d \in Calls : new[d] = Body => new'[d] = Body
    BY <1>2, AOpenclaw DEF SessionInv, Shape, Answered
  <2>2. issued \subseteq issued'
    BY <1>2 DEF Answered
  <2>3. CASE open \subseteq open'
    BY <1>2, <2>1, <2>2, <2>3 DEF SessionInv, SessionExplained
  <2>4. CASE ask[c] = "close" /\ issued' = issued /\ open' = open \ {key[c]}
    <3>1. op[c] = "close" /\ pc[c] \in {"asking", "failed", "lost"}
      BY <1>2, <2>4 DEF SessionInv, Shape, Answered
    <3>2. session \in open /\ session \notin open' => session = key[c] /\ session \in issued'
      BY <2>4 DEF SessionInv, TypeOK
    <3> QED
      BY <1>2, <2>1, <2>4, <3>1, <3>2 DEF SessionInv, SessionExplained
  <2> QED
    BY <1>2, <2>3, <2>4 DEF Answered
<1> QED
  BY <1>1, <1>3, <1>4, <1>5, <1>6, <1>7 DEF SessionInv

\* A restored runtime has the session of its checkpoint, and no calls yet.
LEMMA RestoreInv == ASSUME SessionInv, Restore PROVE SessionInv'
<1> USE DEF Restore, callVars, gatewayVars
<1>1. TypeOK'
  BY NextType DEF SessionInv, Next
<1>2. \A c \in Calls : ~Working(c) /\ pc[c] # "asking"
  BY DEF SessionInv, Phases, Working, Active
<1>3. Phases' /\ Known'
  BY <1>2 DEF SessionInv, Phases, Working, Known
<1>4. ASSUME NEW c \in Calls PROVE Shape(c)' /\ Unpublished(c)'
  BY <1>2 DEF SessionInv, Shape, Working, Unpublished
<1>5. SessionExplained'
  BY AOpenclaw DEF SessionInv, TypeOK, SessionExplained
<1> QED
  BY <1>1, <1>3, <1>4, <1>5 DEF SessionInv

\* A crash leaves the gateway, and requests nobody waits for.
LEMMA CrashInv == ASSUME SessionInv, Crash PROVE SessionInv'
<1> USE DEF Crash, gatewayVars, history
<1>1. TypeOK'
  BY NextType DEF SessionInv, Next
<1>2. ASSUME NEW c \in Calls PROVE pc'[c] = (IF pc[c] = "idle" THEN "idle" ELSE "lost")
  OBVIOUS
<1>3. Phases' /\ Known'
  BY <1>2 DEF SessionInv, Phases, Working, Active, Known
<1>4. ASSUME NEW c \in Calls PROVE Shape(c)' /\ Unpublished(c)'
  BY <1>2 DEF SessionInv, Shape, Working, Active, Unpublished
<1>5. SessionExplained'
  BY AOpenclaw DEF SessionInv, TypeOK, SessionExplained
<1> QED
  BY <1>1, <1>3, <1>4, <1>5 DEF SessionInv

\* Every step keeps the invariant of the sessions.
LEMMA NextInv == ASSUME SessionInv, Next PROVE SessionInv'
<1>1. ASSUME NEW c \in Calls, Start(c) \/ StartSpawn(c) \/ CallStep(c) PROVE SessionInv'
  <2>1. TypeOK' /\ Phases' /\ Known' /\ SessionExplained'
    BY <1>1, StepType, StepPhases, StepKnown, StepExplained DEF SessionInv
  <2>2. ASSUME NEW d \in Calls PROVE Shape(d)' /\ Unpublished(d)'
    BY <1>1, StepShape, OthersShape, StepUnpublished DEF SessionInv
  <2> QED
    BY <2>1, <2>2 DEF SessionInv
<1>2. ASSUME NEW c \in Calls, Gateway(c) PROVE SessionInv'
  BY <1>2, GatewayInv
<1>3. CASE Restore \/ Crash
  BY <1>3, RestoreInv, CrashInv
<1> QED
  BY <1>1, <1>2, <1>3 DEF Next

-----------------------------------------------------------------------------
(* A caller that waits for each answer.                                    *)

\* Its call finds the field as it left it.
LEMMA OwnStep ==
  ASSUME TypeOK, NEW c \in Calls, Shape(c), OwnSession(c), CallStep(c)
  PROVE  OwnSession(c)'
<1> USE DEF TypeOK, Shape, OwnSession, Ended, Goto, Fail, Ops, Keyed, history, runtimeVars,
            gatewayVars
<1>1. CASE ReadKey(c)
  BY <1>1 DEF ReadKey
<1>2. CASE Checkpoint(c)
  BY <1>2 DEF Checkpoint
<1>3. CASE Ask(c)
  BY <1>3 DEF Ask
<1>4. CASE StoreSession(c)
  <2>1. pc'[c] = "reread" /\ op'[c] = "create" /\ wire'[c] = wire[c] /\ new'[c] = new[c]
    BY <1>4 DEF StoreSession
  <2>2. wire[c] = "ok" => session' = new[c]
    BY <1>4 DEF StoreSession
  <2> QED
    BY <2>1, <2>2
<1>5. CASE RereadSession(c)
  BY <1>5 DEF RereadSession
<1>6. CASE ClearSession(c)
  BY <1>6 DEF ClearSession
<1>7. CASE Hear(c)
  BY <1>7 DEF Hear
<1>8. CASE Tag(c)
  BY <1>8 DEF Tag
<1>9. CASE HearSetup(c)
  BY <1>9 DEF HearSetup
<1>10. CASE SetupNext(c)
  BY <1>10 DEF SetupNext
<1>11. CASE Timeout(c)
  BY <1>11 DEF Timeout
<1>12. CASE HearError(c)
  BY <1>12 DEF HearError
<1> QED
  BY <1>1, <1>2, <1>3, <1>4, <1>5, <1>6, <1>7, <1>8, <1>9, <1>10, <1>11, <1>12 DEF CallStep

\* Nothing else touches the field, or what a call that has ended answered.
LEMMA NextLone == ASSUME LoneInv, Next PROVE Alone' /\ \A d \in Calls : OwnSession(d)'
<1> SUFFICES ASSUME NEW d \in Calls PROVE Alone' /\ OwnSession(d)'
  BY DEF Alone
<1> USE DEF LoneInv, SessionInv
<1>1. ASSUME NEW c \in Calls, Start(c) PROVE Alone' /\ OwnSession(d)'
  <2>1. Frame(c)
    BY <1>1, StepFrame
  <2>2. Alone'
    BY <1>1, <2>1, StartEffect DEF Frame, Alone, Working
  <2>3. OwnSession(d)'
    <3>1. CASE d = c
      BY <1>1, <3>1, StartEffect DEF OwnSession, Keyed
    <3>2. CASE d # c
      BY <1>1, <2>1, <3>2, StartEffect DEF Frame, OwnSession, Working, Active
    <3> QED
      BY <3>1, <3>2
  <2> QED
    BY <2>2, <2>3
<1>2. ASSUME NEW c \in Calls, StartSpawn(c) PROVE Alone' /\ OwnSession(d)'
  <2>1. Frame(c) /\ \A e \in Calls : ~Working(e)
    BY <1>2, StepFrame, SpawnEffect DEF Phases
  <2>2. Alone'
    BY <1>2, <2>1, SpawnEffect DEF Frame, Alone, Working
  <2>3. OwnSession(d)'
    <3>1. CASE d = c
      BY <1>2, <3>1, SpawnEffect DEF OwnSession, Keyed
    <3>2. CASE d # c
      BY <1>2, <2>1, <3>2, SpawnEffect DEF Frame, OwnSession, Working, Active
    <3> QED
      BY <3>1, <3>2
  <2> QED
    BY <2>2, <2>3
<1>3. ASSUME NEW c \in Calls, CallStep(c) PROVE Alone' /\ OwnSession(d)'
  <2>1. Frame(c) /\ Effect(c)
    BY <1>3, StepFrame, StepEffect
  <2>2. Alone'
    BY <2>1 DEF Frame, Effect, Alone, Working, history
  <2>3. OwnSession(d)'
    <3>1. CASE d = c
      BY <1>3, <3>1, OwnStep
    <3>2. CASE d # c
      BY <2>1, <3>2, ZenonT(30) DEF Frame, Effect, Alone, OwnSession, Working, Active, history
    <3> QED
      BY <3>1, <3>2
  <2> QED
    BY <2>2, <2>3
<1>4. ASSUME NEW c \in Calls, Gateway(c) PROVE Alone' /\ OwnSession(d)'
  <2>1. Answered(c) /\ UNCHANGED <<session, overlapped, op, pc, key, data, tag>>
    BY <1>4, GatewayEffect DEF Gateway, runtimeVars, history, callVars
  <2>2. d = c => pc[d] \in {"asking", "failed", "lost"}
    BY <2>1 DEF Answered, Shape
  <2> QED
    BY <2>1, <2>2 DEF Answered, Alone, OwnSession, Working
<1>5. CASE Restore
  <2>1. ~Working(d)
    BY <1>5 DEF Restore, Phases
  <2> QED
    BY <1>5, <2>1 DEF Restore, callVars, gatewayVars, Alone, OwnSession, Working, Active
<1>6. CASE Crash
  <2>1. \A c \in Calls : pc'[c] \in {"idle", "lost"}
    BY <1>6 DEF Crash
  <2> QED
    BY <2>1 DEF Alone, OwnSession, Working, Active
<1> QED
  BY <1>1, <1>2, <1>3, <1>4, <1>5, <1>6 DEF Next

\* A step that changes nothing keeps everything.
LEMMA StutterInv == ASSUME LoneInv, UNCHANGED vars PROVE LoneInv'
<1> USE DEF vars, runtimeVars, history, callVars, gatewayVars
<1>1. TypeOK' /\ Phases' /\ Known' /\ SessionExplained' /\ Alone'
  <2>1. TypeOK' /\ Known'
    BY DEF LoneInv, SessionInv, TypeOK, Known
  <2>2. Phases' /\ Alone'
    BY DEF LoneInv, SessionInv, Phases, Working, Alone
  <2>3. SessionExplained'
    BY DEF LoneInv, SessionInv, SessionExplained
  <2> QED BY <2>1, <2>2, <2>3
<1>2. ASSUME NEW c \in Calls PROVE Shape(c)' /\ Unpublished(c)' /\ OwnSession(c)'
  BY DEF LoneInv, SessionInv, Shape, Working, Unpublished, OwnSession
<1> QED
  BY <1>1, <1>2 DEF LoneInv, SessionInv

-----------------------------------------------------------------------------
(* The theorems.                                                           *)

\* The strengthened invariant holds in every state.
THEOREM Invariant == Spec => []LoneInv
<1>1. LoneInv /\ [Next]_vars => LoneInv'
  BY NextInv, NextLone, StutterInv DEF LoneInv
<1> QED
  BY InitInv, <1>1, PTL DEF Spec

\* Every variable has its type.
THEOREM TypeCorrect == Spec => []TypeOK
<1>1. LoneInv => TypeOK
  BY DEF LoneInv, SessionInv
<1> QED
  BY <1>1, Invariant, PTL

\* No request is sent without a session id, whatever closes overlap it
\* (openclaw.go:189, setup.go:64).
THEOREM KeysFull == Spec => []NoEmptyKeySent
<1>1. LoneInv => NoEmptyKeySent
  BY DEF LoneInv, SessionInv, Shape, NoEmptyKeySent
<1> QED
  BY <1>1, Invariant, PTL

\* The session the runtime holds is open at the gateway, or what a checkpoint said, or one
\* that a close without a good answer may have closed (openclaw.go:280), or the shared one
\* for want of a tool (setup.go:314), or the text of an answer without an id (setup.go:335).
THEOREM HeldSessionExplained == Spec => []SessionExplained
<1>1. LoneInv => SessionExplained
  BY DEF LoneInv, SessionInv
<1> QED
  BY <1>1, Invariant, PTL

\* To a caller that waits, a reply names the session of its request (openclaw.go:223).
THEOREM RepliesName == Spec => []ReplyNamesItsSession
<1>1. LoneInv => ReplyNamesItsSession
  BY DEF LoneInv, OwnSession, ReplyNamesItsSession
<1> QED
  BY <1>1, Invariant, PTL

\* A runtime that starts to serve has a session (openclaw.go:316).
THEOREM BeginsWithSession == Spec => ServesWithSession
<1>1. ASSUME LoneInv, Next, phase # "up", phase' = "up" PROVE session' # None
  <2> USE DEF LoneInv, SessionInv
  <2>1. ASSUME NEW c \in Calls, CallStep(c) PROVE session' # None
    <3>1. op[c] = "spawn" /\ session' = session /\ Working(c) /\ phase = "spawning"
      BY <1>1, <2>1, StepEffect DEF Effect, Phases, TypeOK
    <3>2. pc[c] = "configure"
      BY <1>1, <2>1, <3>1 DEF CallStep, ReadKey, Checkpoint, Ask, StoreSession, RereadSession,
           ClearSession, Hear, Tag, HearSetup, SetupNext, Timeout, HearError, Fail, runtimeVars
    <3> QED
      BY <1>1, <3>1, <3>2 DEF Shape
  <2>2. ASSUME NEW c \in Calls, Start(c) \/ StartSpawn(c) \/ Gateway(c) PROVE FALSE
    BY <1>1, <2>2, StartEffect, SpawnEffect DEF Gateway, runtimeVars
  <2> QED
    BY <1>1, <2>1, <2>2 DEF Next, Restore, Crash
<1>2. LoneInv /\ [Next]_vars => (phase # "up" /\ phase' = "up" => session' # None)
  BY <1>1 DEF vars, runtimeVars
<1> QED
  BY <1>2, Invariant, PTL DEF Spec, ServesWithSession

\* A call that fails leaves the session as it was (openclaw.go:280).
THEOREM FailuresKeep == Spec => FailureKeepsSession
<1>1. ASSUME LoneInv, Next, NEW c \in Calls, pc'[c] = "failed", pc[c] # "failed", op[c] # "spawn"
      PROVE  session' = session
  <2> USE DEF LoneInv, SessionInv
  <2>1. ASSUME NEW d \in Calls, Start(d) \/ StartSpawn(d) \/ CallStep(d) PROVE session' = session
    <3>1. d = c
      BY <1>1, <2>1, StepFrame DEF Frame
    <3> QED
      BY <1>1, <2>1, <3>1, StartEffect, SpawnEffect, StepEffect DEF Effect
  <2>2. ASSUME NEW d \in Calls, Gateway(d) PROVE FALSE
    BY <1>1, <2>2 DEF Gateway, callVars
  <2>3. ~Restore /\ ~Crash
    BY <1>1 DEF Restore, Crash, callVars
  <2> QED
    BY <1>1, <2>1, <2>2, <2>3 DEF Next
<1>2. LoneInv /\ [Next]_vars =>
        \A c \in Calls : pc'[c] = "failed" /\ pc[c] # "failed" /\ op[c] # "spawn"
                          => session' = session
  BY <1>1 DEF vars, runtimeVars
<1> QED
  BY <1>2, Invariant, PTL DEF Spec, FailureKeepsSession

\* The session that an answered CloseSession forgets is the one the gateway closed, for a
\* caller that waits (openclaw.go:285).
THEOREM LoneClose == Spec => LoneCloseForgetsWhatItClosed
<1>1. LoneInv => (~overlapped => \A c \in Calls : ForgetsWhatItClosed(c))
  BY DEF LoneInv, OwnSession, ForgetsWhatItClosed
<1> QED
  BY <1>1, Invariant, PTL DEF LoneCloseForgetsWhatItClosed
-----------------------------------------------------------------------------
(* The set-up, and its invariant.                                          *)

\* A step of one call, or of what the outside does for it.
CallActs(c) ==
  \/ SpawnStarts(c) \/ SetupStarts(c) \/ StartsOther(c) \/ SetupCallStep(c) \/ External(c)

SetupType ==
  /\ phase \in {"absent", "spawning", "up"}
  /\ op \in [Calls -> Ops \cup SetupOps \cup {"spawn", "none"}]
  /\ pc \in [Calls -> {"idle"} \cup Active \cup SetupPc \cup Ended]
  /\ ask \in [Calls -> Asks \cup {"hash", "command", "none"}]
  /\ wire \in [Calls -> {"none", "request", "ok", "tool not available", "error"}]
  /\ cli \in [Calls -> {"none", "running", "blocked", "ok", "failed"}]
  /\ did \in [Calls -> SUBSET Effects]
  /\ DOMAIN wants = Calls
  /\ DOMAIN hash = Calls
  /\ DOMAIN seen = Calls
  /\ config \subseteq Edits

\* What the invariant says of a call is about these, and they are its own.
Own(c) == <<op[c], pc[c], ask[c], wire[c], wants[c], hash[c], seen[c], cli[c], did[c]>>

Busy(c) == pc[c] \notin {"idle"} \cup Ended

\* Who is under way in which phase of the runtime's life.
SetupPhases ==
  /\ phase = "absent" => \A c \in Calls : ~Busy(c)
  /\ phase = "up" => \A c \in Calls : Busy(c) => op[c] # "spawn"
  /\ phase = "spawning" =>
       \A c, d \in Calls : Busy(c) /\ Busy(d) => op[c] = "spawn" /\ c = d

\* Where a call is, and the request or the command it waits for.
Place(c) ==
  /\ pc[c] = "idle" => op[c] = "none" /\ ask[c] = "none" /\ wire[c] = "none" /\ cli[c] = "none"
  /\ cli[c] # "none" => pc[c] \in CommandPc
  /\ ask[c] = "hash" => op[c] = "config" /\ pc[c] \in {"hashing"} \cup Ended
  /\ ask[c] = "command" =>
       op[c] = "approve" /\ pc[c] \in {"pairing", "approve", "tagging"} \cup Ended
  /\ pc[c] = "hash" => op[c] = "config" /\ ask[c] = "plain" /\ wire[c] = "none"
  /\ pc[c] = "hashing" => ask[c] = "hash"
  /\ pc[c] = "pairing" => ask[c] = "command" /\ wire[c] = IF cli[c] = "ok" THEN "ok" ELSE "request"
  /\ pc[c] = "approve" => ask[c] = "command" /\ wire[c] = "request"
  /\ pc[c] \in {"ready", "asking"} /\ op[c] \in SetupOps => ask[c] = "plain"
  /\ pc[c] \in {"reload", "reading", "choose", "telegram"} => op[c] = "spawn" /\ ask[c] = "create"
  /\ pc[c] = "configure" => op[c] = "spawn"
  /\ op[c] = "config" => pc[c] \in {"hash", "hashing", "ready", "asking", "tagging"} \cup Ended
  /\ op[c] = "approve" => pc[c] \in {"ready", "pairing", "approve", "asking", "tagging"} \cup Ended
  /\ op[c] = "spawn" /\ Busy(c) =>
       /\ pc[c] \in {"ready", "asking", "configure", "reload", "reading", "choose", "telegram"}
       /\ ask[c] \in {"create", "model", "plain"}

\* What a spawn has done of what its tags ask for, by where it is.
Spawned(c) ==
  op[c] = "spawn" /\ Busy(c) =>
    /\ \E t \in SpawnTags : wants[c] = Wanted(t)
    /\ pc[c] \in {"reload", "reading"} => "key" \in did[c]
    /\ (pc[c] \in {"choose", "telegram"} \/ ask[c] \in {"model", "plain"})
         /\ wants[c].apiKey # Empty => "key" \in did[c]
    /\ (pc[c] = "telegram" \/ ask[c] = "plain") /\ wants[c].model # Empty /\ session # Fallback
         => "model" \in did[c]
    /\ pc[c] = "configure" \/ (pc[c] = "asking" /\ wire[c] = "ok") =>
         /\ ask[c] = "model" => "model" \in did[c]
         /\ ask[c] = "plain" => "patch" \in did[c]

\* A Configure that is sent has a base hash that matches no configuration but the one
\* it knows of.
Based(c) ==
  op[c] = "config" =>
    /\ pc[c] \in {"hash", "hashing"} => hash[c] = <<>>
    /\ pc[c] \in {"ready", "asking"} => hash[c] \in {seen[c], <<{Other}>>}

\* Whoever reported an approval has approved.
Approved(c) ==
  op[c] = "approve" =>
    /\ pc[c] = "pairing" /\ cli[c] = "ok" => "command" \in did[c]
    /\ pc[c] = "asking" /\ wire[c] = "ok" => "gateway" \in did[c]
    /\ pc[c] = "tagging" => did[c] \cap {"command", "gateway"} # {}

SetupInv ==
  /\ SetupType
  /\ SetupPhases
  /\ \A c \in Calls : Place(c) /\ Spawned(c) /\ Based(c) /\ Approved(c)

\* A call's step keeps the types, and leaves the other calls alone.
LEMMA SetupStepType ==
  ASSUME SetupType, NEW c \in Calls, CallActs(c)
  PROVE  SetupType' /\ \A d \in Calls : d # c => Own(d)' = Own(d)
<1> USE DEF SetupType, Own, Ops, Asks, Keyed, Active, Ended, SetupOps, SetupPc, CommandPc, Edits, Effects,
            Base, Local, Failing, Pass, Goto, Fail, ForgetEnded, Forget,
            vars, runtimeVars, history, callVars, gatewayVars
<1>1. CASE SpawnStarts(c)
  <2>1. PICK v : wants' = [wants EXCEPT ![c] = v]
    BY <1>1 DEF SpawnStarts
  <2> QED BY <1>1, <2>1 DEF SpawnStarts, StartSpawn
<1>2. CASE SetupStarts(c)
  <2>1. /\ UNCHANGED <<runtimeVars, gatewayVars, cli, did, config>>
        /\ ask' = [ask EXCEPT ![c] = "plain"]
    BY <1>2 DEF SetupStarts
  <2>2. CASE /\ op' = [op EXCEPT ![c] = "approve"]
             /\ Goto(c, "ready")
             /\ UNCHANGED <<wants, hash, seen>>
    BY <2>1, <2>2
  <2>3. ASSUME NEW v, NEW g, NEW to \in {"hash", "ready"},
               op' = [op EXCEPT ![c] = "config"], wants' = [wants EXCEPT ![c] = v],
               hash' = [hash EXCEPT ![c] = g], seen' = [seen EXCEPT ![c] = g], Goto(c, to)
        PROVE  SetupType' /\ \A d \in Calls : d # c => Own(d)' = Own(d)
    BY <2>1, <2>3
  <2>4. \/ /\ op' = [op EXCEPT ![c] = "approve"]
           /\ Goto(c, "ready")
           /\ UNCHANGED <<wants, hash, seen>>
        \/ \E v, g : \E to \in {"hash", "ready"} :
             /\ op' = [op EXCEPT ![c] = "config"]
             /\ wants' = [wants EXCEPT ![c] = v]
             /\ hash' = [hash EXCEPT ![c] = g]
             /\ seen' = [seen EXCEPT ![c] = g]
             /\ Goto(c, to)
    BY <1>2 DEF SetupStarts
  <2> QED BY <2>2, <2>3, <2>4
<1>3. CASE StartsOther(c)
  <2>1. PICK o \in Ops, to \in {"ready", "locate"}, a \in Asks \cup {"none"} :
          op' = [op EXCEPT ![c] = o] /\ ask' = [ask EXCEPT ![c] = a] /\ Goto(c, to)
    BY <1>3 DEF StartsOther, Start
  <2> QED BY <1>3, <2>1 DEF StartsOther, Start
<1>4. CASE SendRequest(c)
  <2>1. ForgetEnded(c) /\ UNCHANGED <<op, ask, cli, config>>
    BY <1>4 DEF SendRequest, Ask
  <2>2. CASE Fail(c) /\ UNCHANGED wire
    BY <2>1, <2>2
  <2>3. CASE /\ wire' = [wire EXCEPT ![c] = "request"]
             /\ Goto(c, "asking")
             /\ UNCHANGED <<phase, session>>
    BY <2>1, <2>3
  <2> QED BY <1>4, <2>2, <2>3 DEF SendRequest, Ask
<1>5. CASE Base(c, ReadKey(c))
  BY <1>5, ZenonT(30) DEF ReadKey
<1>6. CASE Base(c, Checkpoint(c))
  BY <1>6 DEF Checkpoint
<1>7. CASE Base(c, StoreSession(c))
  BY <1>7 DEF StoreSession
<1>8. CASE Base(c, RereadSession(c))
  BY <1>8 DEF RereadSession
<1>9. CASE Base(c, ClearSession(c))
  BY <1>9 DEF ClearSession
<1>10. CASE Base(c, Hear(c))
  BY <1>10 DEF Hear
<1>11. CASE Base(c, Tag(c))
  BY <1>11 DEF Tag
<1>12. CASE Base(c, HearSetup(c))
  BY <1>12 DEF HearSetup
<1>13. CASE Base(c, Timeout(c))
  BY <1>13 DEF Timeout
<1>14. CASE Base(c, HearError(c))
  BY <1>14 DEF HearError
<1>15. CASE SetupKey(c)
  <2>1. CASE Failing(c)
    BY <1>15, <2>1 DEF SetupKey
  <2>2. CASE Pass(c, "choose") /\ UNCHANGED <<cli, held, config>>
    BY <2>2
  <2>3. CASE StoreKey(c)
    BY <2>3 DEF StoreKey
  <2> QED BY <1>15, <2>1, <2>2, <2>3 DEF SetupKey
<1>16. CASE runSecretsReload(c)
  <2>1. CASE Pass(c, "choose") /\ UNCHANGED cli
    BY <1>16, <2>1 DEF runSecretsReload
  <2>2. CASE Pass(c, "reading") /\ cli' = [cli EXCEPT ![c] = "running"]
    BY <1>16, <2>2 DEF runSecretsReload
  <2> QED BY <1>16, <2>1, <2>2 DEF runSecretsReload
<1>17. CASE ReloadEnds(c)
  BY <1>17 DEF ReloadEnds
<1>18. CASE SetupModel(c)
  <2>1. CASE wants[c].model = Empty \/ session = Fallback
    BY <1>18, <2>1, ZenonT(30) DEF SetupModel
  <2>2. CASE ~(wants[c].model = Empty \/ session = Fallback)
    BY <1>18, <2>2, ZenonT(30) DEF SetupModel
  <2> QED BY <2>1, <2>2
<1>19. CASE SetupTelegram(c)
  BY <1>19, ZenonT(30) DEF SetupTelegram, Serves
<1>20. CASE SetupDone(c)
  BY <1>20 DEF SetupDone, Serves
<1>21. CASE AskHash(c)
  <2>1. CASE Failing(c) /\ UNCHANGED wire
    BY <2>1
  <2>2. CASE /\ wire' = [wire EXCEPT ![c] = "request"]
             /\ ask' = [ask EXCEPT ![c] = "hash"]
             /\ Goto(c, "hashing")
             /\ ForgetEnded(c)
             /\ UNCHANGED <<phase, session, op, key, cli, held, config>>
    BY <2>2
  <2> QED BY <1>21, <2>1, <2>2 DEF AskHash
<1>22. CASE HearHash(c)
  BY <1>22 DEF HearHash
<1>23. CASE HashFails(c)
  BY <1>23 DEF HashFails
<1>24. CASE HearSetupCall(c)
  BY <1>24 DEF HearSetupCall
<1>25. CASE runPairingApprove(c)
  <2>1. CASE Failing(c)
    BY <2>1
  <2>2. CASE /\ cli' = [cli EXCEPT ![c] = "running"]
             /\ wire' = [wire EXCEPT ![c] = "request"]
             /\ ask' = [ask EXCEPT ![c] = "command"]
             /\ Goto(c, "pairing")
             /\ ForgetEnded(c)
             /\ UNCHANGED <<phase, session, op, key, held, config>>
    BY <2>2
  <2> QED BY <1>25, <2>1, <2>2 DEF runPairingApprove
<1>26. CASE PairingReturns(c)
  BY <1>26 DEF PairingReturns
<1>27. CASE AskApprove(c)
  <2>1. CASE Failing(c)
    BY <2>1
  <2>2. CASE /\ ask' = [ask EXCEPT ![c] = "plain"]
             /\ Goto(c, "asking")
             /\ Local(c)
             /\ ForgetEnded(c)
             /\ UNCHANGED <<phase, session, op, key, cli, held, config>>
    BY <2>2
  <2> QED BY <1>27, <2>1, <2>2 DEF AskApprove
<1>28. CASE Expire(c)
  BY <1>28 DEF Expire
<1>29. CASE CommandBlocks(c)
  BY <1>29 DEF CommandBlocks
<1>30. CASE CommandApproves(c)
  BY <1>30 DEF CommandApproves
<1>31. CASE CommandEnds(c)
  <2>1. PICK end \in {"ok", "failed"}, w \in {wire[c], "ok"} :
          cli' = [cli EXCEPT ![c] = end] /\ wire' = [wire EXCEPT ![c] = w]
    <3>1. wire = [wire EXCEPT ![c] = wire[c]]
      OBVIOUS
    <3> QED BY <1>31, <3>1 DEF CommandEnds
  <2> QED BY <1>31, <2>1 DEF CommandEnds
<1>32. CASE HolderEnds(c)
  BY <1>32 DEF HolderEnds
<1>33. CASE GatewayReads(c)
  BY <1>33, ZenonT(30) DEF GatewayReads
<1>34. CASE GatewayActs(c)
  <2>1. PICK w \in {"ok", "error", "tool not available"} : wire' = [wire EXCEPT ![c] = w]
    BY <1>34 DEF GatewayActs, Gateway, GatewayCreates, GatewayCloses, GatewayServes
  <2>2. /\ UNCHANGED <<runtimeVars, history, callVars, tool>>
        /\ UNCHANGED <<wants, hash, seen, cli, held, spent>>
    BY <1>34 DEF GatewayActs, Gateway
  <2>3. PICK e \in {{}, {"model"}, {"gateway"}, {"patch"}} :
          did' = [did EXCEPT ![c] = @ \cup e]
    <3>1. did = [did EXCEPT ![c] = @ \cup {}]
      <4>1. did[c] \cup {} = did[c]
        OBVIOUS
      <4> QED BY <4>1
    <3> QED BY <1>34, <3>1 DEF GatewayActs
  <2>4. config' \in {config, config \cup {c}, {c}}
    BY <1>34 DEF GatewayActs, GatewayConfigures
  <2> QED BY <2>1, <2>2, <2>3, <2>4
<1> QED
  BY <1>1, <1>2, <1>3, <1>4, <1>5, <1>6, <1>7, <1>8, <1>9, <1>10, <1>11, <1>12, <1>13, <1>14, <1>15, <1>16, <1>17, <1>18, <1>19, <1>20, <1>21, <1>22, <1>23, <1>24, <1>25, <1>26, <1>27, <1>28, <1>29, <1>30, <1>31, <1>32, <1>33, <1>34
     DEF CallActs, SetupCallStep, BaseStep, RuntimeStep, SpawnStep, ApplyStep, External, Base

\* How a step of a call moves the call and the life of the runtime: it starts, goes on,
\* ends a spawn, or is a step of the outside for it.
Moves(c) ==
  \/ pc[c] = "idle" /\ phase = "absent" /\ phase' = "spawning" /\ op'[c] = "spawn" /\ session' = session
  \/ pc[c] = "idle" /\ phase = "up" /\ phase' = "up" /\ op'[c] # "spawn" /\ session' = session
  \/ Busy(c) /\ op' = op /\ phase' = phase
  \/ Busy(c) /\ op' = op /\ op[c] = "spawn" /\ phase' \in {"absent", "up"} /\ pc'[c] \in Ended
  \/ op' = op /\ pc' = pc /\ phase' = phase /\ session' = session

\* A step of a call is one of these.
LEMMA SetupStepMoves ==
  ASSUME SetupType, NEW c \in Calls, Place(c), CallActs(c)
  PROVE  Moves(c)
<1> USE DEF SetupType, Place, Moves, Busy, Active, Ended, SetupPc, CommandPc,
            Base, Local, Failing, Pass, Goto, Fail,
            vars, runtimeVars, history, callVars, gatewayVars
<1>1. CASE SpawnStarts(c)
  BY <1>1 DEF SpawnStarts, StartSpawn
<1>2. CASE SetupStarts(c)
  BY <1>2 DEF SetupStarts
<1>3. CASE StartsOther(c)
  <2>1. PICK o \in Ops : op' = [op EXCEPT ![c] = o]
    BY <1>3 DEF StartsOther, Start
  <2>2. o # "spawn"
    BY DEF Ops, Keyed
  <2> QED BY <1>3, <2>1, <2>2 DEF StartsOther, Start
<1>4. CASE SendRequest(c)
  BY <1>4 DEF SendRequest, Ask
<1>5. CASE Base(c, ReadKey(c))
  BY <1>5 DEF ReadKey
<1>6. CASE Base(c, Checkpoint(c))
  BY <1>6 DEF Checkpoint
<1>7. CASE Base(c, StoreSession(c))
  BY <1>7 DEF StoreSession
<1>8. CASE Base(c, RereadSession(c))
  BY <1>8 DEF RereadSession
<1>9. CASE Base(c, ClearSession(c))
  BY <1>9 DEF ClearSession
<1>10. CASE Base(c, Hear(c))
  BY <1>10 DEF Hear
<1>11. CASE Base(c, Tag(c))
  BY <1>11 DEF Tag
<1>12. CASE Base(c, HearSetup(c))
  BY <1>12 DEF HearSetup
<1>13. CASE Base(c, Timeout(c))
  BY <1>13 DEF Timeout
<1>14. CASE Base(c, HearError(c))
  BY <1>14 DEF HearError
<1>15. CASE SetupKey(c)
  BY <1>15 DEF SetupKey, StoreKey
<1>16. CASE runSecretsReload(c)
  BY <1>16 DEF runSecretsReload
<1>17. CASE ReloadEnds(c)
  BY <1>17 DEF ReloadEnds
<1>18. CASE SetupModel(c)
  BY <1>18 DEF SetupModel
<1>19. CASE SetupTelegram(c)
  BY <1>19 DEF SetupTelegram, Serves
<1>20. CASE SetupDone(c)
  BY <1>20 DEF SetupDone, Serves
<1>21. CASE AskHash(c)
  BY <1>21 DEF AskHash
<1>22. CASE HearHash(c)
  BY <1>22 DEF HearHash
<1>23. CASE HashFails(c)
  BY <1>23 DEF HashFails
<1>24. CASE HearSetupCall(c)
  BY <1>24 DEF HearSetupCall
<1>25. CASE runPairingApprove(c)
  BY <1>25 DEF runPairingApprove
<1>26. CASE PairingReturns(c)
  BY <1>26 DEF PairingReturns
<1>27. CASE AskApprove(c)
  BY <1>27 DEF AskApprove
<1>28. CASE Expire(c)
  BY <1>28 DEF Expire
<1>29. CASE CommandBlocks(c)
  BY <1>29 DEF CommandBlocks
<1>30. CASE CommandApproves(c)
  BY <1>30 DEF CommandApproves
<1>31. CASE CommandEnds(c)
  BY <1>31 DEF CommandEnds
<1>32. CASE HolderEnds(c)
  BY <1>32 DEF HolderEnds
<1>33. CASE GatewayReads(c)
  BY <1>33 DEF GatewayReads
<1>34. CASE GatewayActs(c)
  BY <1>34 DEF GatewayActs, Gateway, GatewayCreates, GatewayCloses, GatewayServes, GatewayConfigures
<1> QED
  BY <1>1, <1>2, <1>3, <1>4, <1>5, <1>6, <1>7, <1>8, <1>9, <1>10, <1>11, <1>12, <1>13, <1>14, <1>15, <1>16, <1>17, <1>18, <1>19, <1>20, <1>21, <1>22, <1>23, <1>24, <1>25, <1>26, <1>27, <1>28, <1>29, <1>30, <1>31, <1>32, <1>33, <1>34
     DEF CallActs, SetupCallStep, BaseStep, RuntimeStep, SpawnStep, ApplyStep, External, Base

\* A call's step leaves the call where it should be.
LEMMA SetupStepPlace ==
  ASSUME SetupType, NEW c \in Calls, Place(c), CallActs(c)
  PROVE  Place(c)'
<1> USE DEF SetupType, Place, Busy, Ops, Asks, Keyed, Active, Ended, SetupOps, SetupPc, CommandPc,
            Base, Local, Failing, Pass, Goto, Fail,
            vars, runtimeVars, history, callVars, gatewayVars
<1>1. CASE SpawnStarts(c)
  BY <1>1 DEF SpawnStarts, StartSpawn
<1>2. CASE SetupStarts(c)
  BY <1>2, ZenonT(30) DEF SetupStarts
<1>3. CASE StartsOther(c)
  BY <1>3, ZenonT(30) DEF StartsOther, Start
<1>4. CASE SendRequest(c)
  BY <1>4 DEF SendRequest, Ask
<1>5. CASE Base(c, ReadKey(c))
  BY <1>5 DEF ReadKey
<1>6. CASE Base(c, Checkpoint(c))
  BY <1>6 DEF Checkpoint
<1>7. CASE Base(c, StoreSession(c))
  BY <1>7 DEF StoreSession
<1>8. CASE Base(c, RereadSession(c))
  BY <1>8 DEF RereadSession
<1>9. CASE Base(c, ClearSession(c))
  BY <1>9 DEF ClearSession
<1>10. CASE Base(c, Hear(c))
  BY <1>10 DEF Hear
<1>11. CASE Base(c, Tag(c))
  BY <1>11 DEF Tag
<1>12. CASE Base(c, HearSetup(c))
  BY <1>12 DEF HearSetup
<1>13. CASE Base(c, Timeout(c))
  BY <1>13 DEF Timeout
<1>14. CASE Base(c, HearError(c))
  BY <1>14 DEF HearError
<1>15. CASE SetupKey(c)
  BY <1>15 DEF SetupKey, StoreKey
<1>16. CASE runSecretsReload(c)
  BY <1>16 DEF runSecretsReload
<1>17. CASE ReloadEnds(c)
  BY <1>17 DEF ReloadEnds
<1>18. CASE SetupModel(c)
  BY <1>18, ZenonT(30) DEF SetupModel
<1>19. CASE SetupTelegram(c)
  BY <1>19, ZenonT(30) DEF SetupTelegram, Serves
<1>20. CASE SetupDone(c)
  BY <1>20 DEF SetupDone, Serves
<1>21. CASE AskHash(c)
  BY <1>21 DEF AskHash
<1>22. CASE HearHash(c)
  BY <1>22 DEF HearHash
<1>23. CASE HashFails(c)
  BY <1>23 DEF HashFails
<1>24. CASE HearSetupCall(c)
  BY <1>24 DEF HearSetupCall
<1>25. CASE runPairingApprove(c)
  BY <1>25, ZenonT(30) DEF runPairingApprove
<1>26. CASE PairingReturns(c)
  BY <1>26 DEF PairingReturns
<1>27. CASE AskApprove(c)
  BY <1>27, ZenonT(30) DEF AskApprove
<1>28. CASE Expire(c)
  BY <1>28 DEF Expire
<1>29. CASE CommandBlocks(c)
  BY <1>29 DEF CommandBlocks
<1>30. CASE CommandApproves(c)
  BY <1>30 DEF CommandApproves
<1>31. CASE CommandEnds(c)
  BY <1>31 DEF CommandEnds
<1>32. CASE HolderEnds(c)
  BY <1>32 DEF HolderEnds
<1>33. CASE GatewayReads(c)
  BY <1>33 DEF GatewayReads
<1>34. CASE GatewayActs(c)
  BY <1>34 DEF GatewayActs, Gateway, GatewayCreates, GatewayCloses, GatewayServes, GatewayConfigures
<1> QED
  BY <1>1, <1>2, <1>3, <1>4, <1>5, <1>6, <1>7, <1>8, <1>9, <1>10, <1>11, <1>12, <1>13, <1>14, <1>15, <1>16, <1>17, <1>18, <1>19, <1>20, <1>21, <1>22, <1>23, <1>24, <1>25, <1>26, <1>27, <1>28, <1>29, <1>30, <1>31, <1>32, <1>33, <1>34
     DEF CallActs, SetupCallStep, BaseStep, RuntimeStep, SpawnStep, ApplyStep, External, Base

\* Whatever a call does, spawns and other calls stay apart, and a spawn has its session
\* to itself.
LEMMA SetupStepPhases ==
  ASSUME SetupType, SetupPhases, NEW c \in Calls, Place(c), CallActs(c)
  PROVE  /\ SetupPhases'
         /\ \A d \in Calls : d # c /\ op[d] = "spawn" /\ Busy(d) => session' = session
<1>1. SetupType' /\ \A d \in Calls : d # c => op'[d] = op[d] /\ pc'[d] = pc[d]
  BY SetupStepType DEF Own
<1>2. Moves(c)
  BY SetupStepMoves
<1>3. phase \in {"absent", "spawning", "up"} /\ phase' \in {"absent", "spawning", "up"}
  BY <1>1 DEF SetupType
<1>4. \A d \in Calls : d # c => (Busy(d)' <=> Busy(d))
  BY <1>1 DEF Busy
<1>5. pc[c] = "idle" => ~Busy(c)
  BY DEF Busy
<1>6. pc'[c] \in Ended => ~Busy(c)'
  BY DEF Busy
<1>7. pc' = pc => \A d \in Calls : Busy(d)' <=> Busy(d)
  BY DEF Busy
<1> HIDE DEF Busy
<1>8. SetupPhases'
  BY <1>1, <1>2, <1>3, <1>4, <1>5, <1>6, <1>7 DEF SetupPhases, Moves
<1>9. ASSUME NEW d \in Calls, d # c, op[d] = "spawn", Busy(d) PROVE session' = session
  BY <1>2, <1>3, <1>5, <1>9 DEF SetupPhases, Moves
<1> QED BY <1>8, <1>9

\* A spawn gets on only by doing what its tags ask for.
LEMMA SetupStepSpawned ==
  ASSUME SetupType, NEW c \in Calls, Place(c), Spawned(c), CallActs(c)
  PROVE  Spawned(c)'
<1> USE DEF SetupType, Place, Spawned, Busy, Ops, Keyed, Active, Ended, SetupOps, SetupPc, CommandPc,
            Base, Local, Failing, Pass, Goto, Fail, ForgetEnded, Forget,
            vars, runtimeVars, history, callVars, gatewayVars
<1>1. CASE SpawnStarts(c)
  BY <1>1 DEF SpawnStarts, StartSpawn
<1>2. CASE SetupStarts(c)
  BY <1>2 DEF SetupStarts
<1>3. CASE StartsOther(c)
  BY <1>3 DEF StartsOther, Start
<1>4. CASE SendRequest(c)
  BY <1>4 DEF SendRequest, Ask
<1>5. CASE Base(c, ReadKey(c))
  BY <1>5 DEF ReadKey
<1>6. CASE Base(c, Checkpoint(c))
  BY <1>6 DEF Checkpoint
<1>7. CASE Base(c, StoreSession(c))
  BY <1>7 DEF StoreSession
<1>8. CASE Base(c, RereadSession(c))
  BY <1>8 DEF RereadSession
<1>9. CASE Base(c, ClearSession(c))
  BY <1>9 DEF ClearSession
<1>10. CASE Base(c, Hear(c))
  BY <1>10 DEF Hear
<1>11. CASE Base(c, Tag(c))
  BY <1>11 DEF Tag
<1>12. CASE Base(c, HearSetup(c))
  BY <1>12 DEF HearSetup
<1>13. CASE Base(c, Timeout(c))
  BY <1>13 DEF Timeout
<1>14. CASE Base(c, HearError(c))
  BY <1>14 DEF HearError
<1>15. CASE SetupKey(c)
  <2>1. CASE Failing(c)
    BY <2>1
  <2>2. CASE wants[c].apiKey = Empty /\ Pass(c, "choose") /\ UNCHANGED cli
    BY <1>15, <2>2 DEF SetupKey
  <2>3. CASE StoreKey(c)
    BY <1>15, <2>3 DEF SetupKey, StoreKey
  <2> QED BY <1>15, <2>1, <2>2, <2>3 DEF SetupKey
<1>16. CASE runSecretsReload(c)
  <2>1. CASE Pass(c, "choose") /\ UNCHANGED cli
    BY <1>16, <2>1 DEF runSecretsReload
  <2>2. CASE Pass(c, "reading") /\ cli' = [cli EXCEPT ![c] = "running"]
    BY <1>16, <2>2 DEF runSecretsReload
  <2> QED BY <1>16, <2>1, <2>2 DEF runSecretsReload
<1>17. CASE ReloadEnds(c)
  BY <1>17 DEF ReloadEnds
<1>18. CASE SetupModel(c)
  BY <1>18, ZenonT(30) DEF SetupModel
<1>19. CASE SetupTelegram(c)
  BY <1>19 DEF SetupTelegram, Serves
<1>20. CASE SetupDone(c)
  BY <1>20 DEF SetupDone, Serves
<1>21. CASE AskHash(c)
  BY <1>21 DEF AskHash
<1>22. CASE HearHash(c)
  BY <1>22 DEF HearHash
<1>23. CASE HashFails(c)
  BY <1>23 DEF HashFails
<1>24. CASE HearSetupCall(c)
  BY <1>24 DEF HearSetupCall
<1>25. CASE runPairingApprove(c)
  BY <1>25 DEF runPairingApprove
<1>26. CASE PairingReturns(c)
  BY <1>26 DEF PairingReturns
<1>27. CASE AskApprove(c)
  BY <1>27 DEF AskApprove
<1>28. CASE Expire(c)
  BY <1>28 DEF Expire
<1>29. CASE CommandBlocks(c)
  BY <1>29 DEF CommandBlocks
<1>30. CASE CommandApproves(c)
  BY <1>30 DEF CommandApproves
<1>31. CASE CommandEnds(c)
  BY <1>31 DEF CommandEnds
<1>32. CASE HolderEnds(c)
  BY <1>32 DEF HolderEnds
<1>33. CASE GatewayReads(c)
  BY <1>33 DEF GatewayReads
<1>34. CASE GatewayActs(c)
  <2>1. PICK w : wire' = [wire EXCEPT ![c] = w]
    BY <1>34 DEF GatewayActs, Gateway, GatewayCreates, GatewayCloses, GatewayServes
  <2>2. /\ UNCHANGED <<runtimeVars, history, callVars, wants, hash, seen, cli>>
        /\ wire[c] = "request"
    BY <1>34 DEF GatewayActs, Gateway
  <2>3. CASE /\ wire'[c] # "ok" \/ ask[c] \in {"create", "close", "send"} \/ pc[c] # "asking"
             /\ UNCHANGED <<config, did>>
    BY <2>1, <2>2, <2>3
  <2>4. CASE /\ pc[c] = "asking"
             /\ ask[c] = "model"
             /\ did' = [did EXCEPT ![c] = @ \cup {"model"}]
    BY <2>1, <2>2, <2>4
  <2>5. CASE /\ pc[c] = "asking"
             /\ ask[c] = "plain"
             /\ op[c] = "approve"
             /\ did' = [did EXCEPT ![c] = @ \cup {"gateway"}]
    BY <2>1, <2>2, <2>5
  <2>6. CASE /\ pc[c] = "asking"
             /\ ask[c] = "plain"
             /\ op[c] # "approve"
             /\ did' = [did EXCEPT ![c] = @ \cup {"patch"}]
    BY <2>1, <2>2, <2>6
  <2> QED BY <1>34, <2>3, <2>4, <2>5, <2>6 DEF GatewayActs
<1> QED
  BY <1>1, <1>2, <1>3, <1>4, <1>5, <1>6, <1>7, <1>8, <1>9, <1>10, <1>11, <1>12, <1>13, <1>14, <1>15, <1>16, <1>17, <1>18, <1>19, <1>20, <1>21, <1>22, <1>23, <1>24, <1>25, <1>26, <1>27, <1>28, <1>29, <1>30, <1>31, <1>32, <1>33, <1>34
     DEF CallActs, SetupCallStep, BaseStep, RuntimeStep, SpawnStep, ApplyStep, External, Base

\* A Configure that reads a hash sends that hash, or one of no configuration.
LEMMA SetupStepBased ==
  ASSUME SetupType, NEW c \in Calls, Place(c), Based(c), CallActs(c)
  PROVE  Based(c)'
<1> USE DEF SetupType, Place, Based, Ops, Keyed, Active, Ended, SetupOps, SetupPc, CommandPc,
            Base, Local, Failing, Pass, Goto, Fail, ForgetEnded, Forget,
            vars, runtimeVars, history, callVars, gatewayVars
<1>1. CASE SpawnStarts(c)
  BY <1>1 DEF SpawnStarts, StartSpawn
<1>2. CASE SetupStarts(c)
  <2>1. CASE op' = [op EXCEPT ![c] = "approve"]
    BY <2>1
  <2>2. CASE op' # [op EXCEPT ![c] = "approve"]
    <3>1. PICK given \in {<<>>, <<config>>} :
            /\ hash' = [hash EXCEPT ![c] = given]
            /\ seen' = [seen EXCEPT ![c] = given]
            /\ \/ Goto(c, "ready")
               \/ Goto(c, "hash") /\ given = <<>>
      BY <1>2, <2>2 DEF SetupStarts
    <3> QED BY <3>1
  <2> QED BY <2>1, <2>2
<1>3. CASE StartsOther(c)
  BY <1>3 DEF StartsOther, Start
<1>4. CASE SendRequest(c)
  BY <1>4 DEF SendRequest, Ask
<1>5. CASE Base(c, ReadKey(c))
  BY <1>5 DEF ReadKey
<1>6. CASE Base(c, Checkpoint(c))
  BY <1>6 DEF Checkpoint
<1>7. CASE Base(c, StoreSession(c))
  BY <1>7 DEF StoreSession
<1>8. CASE Base(c, RereadSession(c))
  BY <1>8 DEF RereadSession
<1>9. CASE Base(c, ClearSession(c))
  BY <1>9 DEF ClearSession
<1>10. CASE Base(c, Hear(c))
  BY <1>10 DEF Hear
<1>11. CASE Base(c, Tag(c))
  BY <1>11 DEF Tag
<1>12. CASE Base(c, HearSetup(c))
  BY <1>12 DEF HearSetup
<1>13. CASE Base(c, Timeout(c))
  BY <1>13 DEF Timeout
<1>14. CASE Base(c, HearError(c))
  BY <1>14 DEF HearError
<1>15. CASE SetupKey(c)
  BY <1>15 DEF SetupKey, StoreKey
<1>16. CASE runSecretsReload(c)
  BY <1>16 DEF runSecretsReload
<1>17. CASE ReloadEnds(c)
  BY <1>17 DEF ReloadEnds
<1>18. CASE SetupModel(c)
  BY <1>18 DEF SetupModel
<1>19. CASE SetupTelegram(c)
  BY <1>19 DEF SetupTelegram, Serves
<1>20. CASE SetupDone(c)
  BY <1>20 DEF SetupDone, Serves
<1>21. CASE AskHash(c)
  BY <1>21 DEF AskHash
<1>22. CASE HearHash(c)
  <2>1. /\ pc' = [pc EXCEPT ![c] = "ready"]
        /\ hash[c] = <<>>
    BY <1>22 DEF HearHash
  <2>2. hash'[c] \in {seen'[c], <<{Other}>>}
    <3>1. CASE seen' = [seen EXCEPT ![c] = <<>>] /\ hash' = hash
      BY <2>1, <3>1
    <3>2. CASE hash' = [hash EXCEPT ![c] = seen[c]] /\ seen' = seen
      BY <3>2
    <3>3. CASE hash' = [hash EXCEPT ![c] = <<{Other}>>] /\ seen' = seen
      BY <3>3
    <3> QED BY <1>22, <3>1, <3>2, <3>3 DEF HearHash
  <2> QED BY <2>1, <2>2
<1>23. CASE HashFails(c)
  BY <1>23 DEF HashFails
<1>24. CASE HearSetupCall(c)
  BY <1>24 DEF HearSetupCall
<1>25. CASE runPairingApprove(c)
  BY <1>25 DEF runPairingApprove
<1>26. CASE PairingReturns(c)
  BY <1>26 DEF PairingReturns
<1>27. CASE AskApprove(c)
  BY <1>27 DEF AskApprove
<1>28. CASE Expire(c)
  BY <1>28 DEF Expire
<1>29. CASE CommandBlocks(c)
  BY <1>29 DEF CommandBlocks
<1>30. CASE CommandApproves(c)
  BY <1>30 DEF CommandApproves
<1>31. CASE CommandEnds(c)
  BY <1>31 DEF CommandEnds
<1>32. CASE HolderEnds(c)
  BY <1>32 DEF HolderEnds
<1>33. CASE GatewayReads(c)
  BY <1>33 DEF GatewayReads
<1>34. CASE GatewayActs(c)
  BY <1>34 DEF GatewayActs, Gateway, GatewayCreates, GatewayCloses, GatewayServes, GatewayConfigures
<1> QED
  BY <1>1, <1>2, <1>3, <1>4, <1>5, <1>6, <1>7, <1>8, <1>9, <1>10, <1>11, <1>12, <1>13, <1>14, <1>15, <1>16, <1>17, <1>18, <1>19, <1>20, <1>21, <1>22, <1>23, <1>24, <1>25, <1>26, <1>27, <1>28, <1>29, <1>30, <1>31, <1>32, <1>33, <1>34
     DEF CallActs, SetupCallStep, BaseStep, RuntimeStep, SpawnStep, ApplyStep, External, Base

\* An ApprovePairing gets on only by an approval.
LEMMA SetupStepApproved ==
  ASSUME SetupType, NEW c \in Calls, Place(c), Approved(c), CallActs(c)
  PROVE  Approved(c)'
<1> USE DEF SetupType, Place, Approved, Ops, Keyed, Active, Ended, SetupOps, SetupPc, CommandPc,
            Base, Local, Failing, Pass, Goto, Fail, ForgetEnded, Forget,
            vars, runtimeVars, history, callVars, gatewayVars
<1>1. CASE SpawnStarts(c)
  BY <1>1 DEF SpawnStarts, StartSpawn
<1>2. CASE SetupStarts(c)
  BY <1>2 DEF SetupStarts
<1>3. CASE StartsOther(c)
  BY <1>3 DEF StartsOther, Start
<1>4. CASE SendRequest(c)
  BY <1>4 DEF SendRequest, Ask
<1>5. CASE Base(c, ReadKey(c))
  BY <1>5 DEF ReadKey
<1>6. CASE Base(c, Checkpoint(c))
  BY <1>6 DEF Checkpoint
<1>7. CASE Base(c, StoreSession(c))
  BY <1>7 DEF StoreSession
<1>8. CASE Base(c, RereadSession(c))
  BY <1>8 DEF RereadSession
<1>9. CASE Base(c, ClearSession(c))
  BY <1>9 DEF ClearSession
<1>10. CASE Base(c, Hear(c))
  BY <1>10 DEF Hear
<1>11. CASE Base(c, Tag(c))
  BY <1>11 DEF Tag
<1>12. CASE Base(c, HearSetup(c))
  BY <1>12 DEF HearSetup
<1>13. CASE Base(c, Timeout(c))
  BY <1>13 DEF Timeout
<1>14. CASE Base(c, HearError(c))
  BY <1>14 DEF HearError
<1>15. CASE SetupKey(c)
  BY <1>15 DEF SetupKey, StoreKey
<1>16. CASE runSecretsReload(c)
  BY <1>16 DEF runSecretsReload
<1>17. CASE ReloadEnds(c)
  BY <1>17 DEF ReloadEnds
<1>18. CASE SetupModel(c)
  BY <1>18 DEF SetupModel
<1>19. CASE SetupTelegram(c)
  BY <1>19 DEF SetupTelegram, Serves
<1>20. CASE SetupDone(c)
  BY <1>20 DEF SetupDone, Serves
<1>21. CASE AskHash(c)
  BY <1>21 DEF AskHash
<1>22. CASE HearHash(c)
  BY <1>22 DEF HearHash
<1>23. CASE HashFails(c)
  BY <1>23 DEF HashFails
<1>24. CASE HearSetupCall(c)
  BY <1>24 DEF HearSetupCall
<1>25. CASE runPairingApprove(c)
  BY <1>25 DEF runPairingApprove
<1>26. CASE PairingReturns(c)
  BY <1>26 DEF PairingReturns
<1>27. CASE AskApprove(c)
  BY <1>27 DEF AskApprove
<1>28. CASE Expire(c)
  BY <1>28 DEF Expire
<1>29. CASE CommandBlocks(c)
  BY <1>29 DEF CommandBlocks
<1>30. CASE CommandApproves(c)
  BY <1>30 DEF CommandApproves
<1>31. CASE CommandEnds(c)
  BY <1>31 DEF CommandEnds
<1>32. CASE HolderEnds(c)
  BY <1>32 DEF HolderEnds
<1>33. CASE GatewayReads(c)
  BY <1>33 DEF GatewayReads
<1>34. CASE GatewayActs(c)
  <2>1. PICK w : wire' = [wire EXCEPT ![c] = w]
    BY <1>34 DEF GatewayActs, Gateway, GatewayCreates, GatewayCloses, GatewayServes
  <2>2. /\ UNCHANGED <<runtimeVars, history, callVars, wants, hash, seen, cli>>
        /\ wire[c] = "request"
    BY <1>34 DEF GatewayActs, Gateway
  <2>3. CASE /\ wire'[c] # "ok" \/ ask[c] \in {"create", "close", "send"} \/ pc[c] # "asking"
             /\ UNCHANGED <<config, did>>
    BY <2>1, <2>2, <2>3
  <2>4. CASE /\ pc[c] = "asking"
             /\ ask[c] = "model"
             /\ did' = [did EXCEPT ![c] = @ \cup {"model"}]
    BY <2>1, <2>2, <2>4
  <2>5. CASE /\ pc[c] = "asking"
             /\ ask[c] = "plain"
             /\ op[c] = "approve"
             /\ did' = [did EXCEPT ![c] = @ \cup {"gateway"}]
    BY <2>1, <2>2, <2>5
  <2>6. CASE /\ pc[c] = "asking"
             /\ ask[c] = "plain"
             /\ op[c] # "approve"
             /\ did' = [did EXCEPT ![c] = @ \cup {"patch"}]
    BY <2>1, <2>2, <2>6
  <2> QED BY <1>34, <2>3, <2>4, <2>5, <2>6 DEF GatewayActs
<1> QED
  BY <1>1, <1>2, <1>3, <1>4, <1>5, <1>6, <1>7, <1>8, <1>9, <1>10, <1>11, <1>12, <1>13, <1>14, <1>15, <1>16, <1>17, <1>18, <1>19, <1>20, <1>21, <1>22, <1>23, <1>24, <1>25, <1>26, <1>27, <1>28, <1>29, <1>30, <1>31, <1>32, <1>33, <1>34
     DEF CallActs, SetupCallStep, BaseStep, RuntimeStep, SpawnStep, ApplyStep, External, Base

\* A step of a call keeps the invariant.
LEMMA CallActsInv ==
  ASSUME SetupInv, NEW c \in Calls, CallActs(c)
  PROVE  SetupInv'
<1>1. SetupType' /\ \A d \in Calls : d # c => Own(d)' = Own(d)
  BY SetupStepType DEF SetupInv
<1>2. /\ SetupPhases'
      /\ \A d \in Calls : d # c /\ op[d] = "spawn" /\ Busy(d) => session' = session
  BY SetupStepPhases DEF SetupInv
<1>3. Place(c)' /\ Spawned(c)' /\ Based(c)' /\ Approved(c)'
  BY SetupStepPlace, SetupStepSpawned, SetupStepBased, SetupStepApproved DEF SetupInv
<1>4. ASSUME NEW d \in Calls, d # c
      PROVE  Place(d)' /\ Spawned(d)' /\ Based(d)' /\ Approved(d)'
  <2>1. Place(d) /\ Spawned(d) /\ Based(d) /\ Approved(d)
    BY DEF SetupInv
  <2>2. Own(d)' = Own(d)
    BY <1>1, <1>4
  <2>3. op[d] = "spawn" /\ Busy(d) => session' = session
    BY <1>2, <1>4
  <2>4. Place(d)' /\ Based(d)' /\ Approved(d)'
    BY <2>1, <2>2 DEF Own, Place, Busy, Based, Approved
  <2>5. Spawned(d)'
    BY <2>1, <2>2, <2>3 DEF Own, Spawned, Busy
  <2> QED BY <2>4, <2>5
<1> QED BY <1>1, <1>2, <1>3, <1>4 DEF SetupInv

\* The agent starts with no call under way.
LEMMA SetupInitInv == SetupInit => SetupInv
<1> SUFFICES ASSUME SetupInit PROVE SetupInv
  OBVIOUS
<1> USE DEF SetupInit, Init
<1>1. SetupType
  BY DEF SetupType, Edits
<1>2. SetupPhases
  BY DEF SetupPhases, Busy
<1>3. ASSUME NEW c \in Calls PROVE Place(c) /\ Spawned(c) /\ Based(c) /\ Approved(c)
  BY <1>3 DEF Place, Spawned, Based, Approved, Busy, SetupOps, SetupPc, CommandPc, Ended
<1> QED BY <1>1, <1>2, <1>3 DEF SetupInv

\* A restored runtime has no call under way.
LEMMA SetupRestoreInv ==
  ASSUME SetupInv, Restore, UNCHANGED setupVars
  PROVE  SetupInv'
<1> USE DEF SetupInv, Restore, setupVars, callVars, gatewayVars
<1>1. SetupType' /\ SetupPhases'
  BY DEF SetupType, SetupPhases, Busy
<1>2. ASSUME NEW c \in Calls PROVE Place(c)' /\ Spawned(c)' /\ Based(c)' /\ Approved(c)'
  BY DEF Place, Spawned, Based, Approved, SetupPhases, Busy
<1> QED BY <1>1, <1>2

\* A crash loses the calls, and the commands with them.
LEMMA SetupCrashInv ==
  ASSUME SetupInv, SetupCrash
  PROVE  SetupInv'
<1> USE DEF SetupCrash, Crash, gatewayVars
<1>1. SetupType'
  BY DEF SetupInv, SetupType, Ended
<1>2. SetupPhases'
  BY DEF SetupPhases, Busy, Ended
<1>3. ASSUME NEW c \in Calls PROVE Place(c)' /\ Spawned(c)' /\ Based(c)' /\ Approved(c)'
  <2>1. Place(c) /\ op' = op /\ ask' = ask /\ wire' = wire
    BY DEF SetupInv
  <2>2. pc'[c] = (IF pc[c] = "idle" THEN "idle" ELSE "lost") /\ cli'[c] = "none"
    OBVIOUS
  <2>3. Place(c)'
    BY <2>1, <2>2 DEF Place, Busy, Ended, SetupOps, CommandPc
  <2>4. pc'[c] \in {"idle", "lost"}
    BY <2>2
  <2>5. Spawned(c)' /\ Based(c)' /\ Approved(c)'
    BY <2>4 DEF Spawned, Based, Approved, Busy, Ended
  <2> QED BY <2>3, <2>5
<1> QED BY <1>1, <1>2, <1>3 DEF SetupInv

\* An edit of the configuration keeps it a set of edits.
LEMMA UserEditsInv ==
  ASSUME SetupInv, UserEdits
  PROVE  SetupInv'
<1> USE DEF SetupInv, UserEdits, vars, runtimeVars, callVars, gatewayVars
<1>1. SetupType' /\ SetupPhases'
  BY DEF SetupType, SetupPhases, Busy, Edits
<1>2. ASSUME NEW c \in Calls PROVE Place(c)' /\ Spawned(c)' /\ Based(c)' /\ Approved(c)'
  BY DEF Place, Spawned, Based, Approved, Busy
<1> QED BY <1>1, <1>2

\* What does not change anything keeps the invariant.
LEMMA SetupStutterInv ==
  ASSUME SetupInv, UNCHANGED allVars
  PROVE  SetupInv'
<1> USE DEF SetupInv, allVars, setupVars, vars, runtimeVars, callVars, gatewayVars
<1>1. SetupType' /\ SetupPhases'
  BY DEF SetupType, SetupPhases, Busy
<1>2. ASSUME NEW c \in Calls PROVE Place(c)' /\ Spawned(c)' /\ Based(c)' /\ Approved(c)'
  BY DEF Place, Spawned, Based, Approved, Busy
<1> QED BY <1>1, <1>2

\* Every step keeps the invariant.
LEMMA SetupNextInv == SetupInv /\ [SetupSystemNext]_allVars => SetupInv'
<1> SUFFICES ASSUME SetupInv, [SetupSystemNext]_allVars PROVE SetupInv'
  OBVIOUS
<1>1. ASSUME NEW c \in Calls, CallActs(c) PROVE SetupInv'
  BY <1>1, CallActsInv
<1> QED
  BY <1>1, SetupRestoreInv, SetupCrashInv, UserEditsInv, SetupStutterInv
     DEF SetupSystemNext, CallActs

\* The invariant of the set-up calls holds, for any calls, tags and answers.
THEOREM SetupInvariant == SetupSpec => []SetupInv
BY SetupInitInv, SetupNextInv, PTL DEF SetupSpec

-----------------------------------------------------------------------------
(* What a call has brought about when it is acknowledged.                  *)

\* Only a spawn that has done what its tags ask for ends well.
LEMMA SpawnEndsWell ==
  ASSUME SetupType, NEW c \in Calls, Place(c), Spawned(c), CallActs(c),
         op[c] = "spawn", pc[c] # "ok", pc'[c] = "ok"
  PROVE  /\ wants[c].apiKey # Empty => "key" \in did[c]
         /\ wants[c].model # Empty /\ session # Fallback => "model" \in did[c]
         /\ wants[c].telegram => "patch" \in did[c]
<1> USE DEF SetupType, Place, Spawned, Busy, Keyed, Ended, SetupOps, SetupPc, CommandPc,
            Base, Local, Failing, Pass, Goto, Fail,
            vars, runtimeVars, history, callVars, gatewayVars
<1>1. CASE SpawnStarts(c)
  BY <1>1 DEF SpawnStarts, StartSpawn
<1>2. CASE SetupStarts(c)
  BY <1>2 DEF SetupStarts
<1>3. CASE StartsOther(c)
  BY <1>3 DEF StartsOther, Start
<1>4. CASE SendRequest(c)
  BY <1>4 DEF SendRequest, Ask
<1>5. CASE Base(c, ReadKey(c))
  BY <1>5 DEF ReadKey
<1>6. CASE Base(c, Checkpoint(c))
  BY <1>6 DEF Checkpoint
<1>7. CASE Base(c, StoreSession(c))
  BY <1>7 DEF StoreSession
<1>8. CASE Base(c, RereadSession(c))
  BY <1>8 DEF RereadSession
<1>9. CASE Base(c, ClearSession(c))
  BY <1>9 DEF ClearSession
<1>10. CASE Base(c, Hear(c))
  BY <1>10 DEF Hear
<1>11. CASE Base(c, Tag(c))
  BY <1>11 DEF Tag
<1>12. CASE Base(c, HearSetup(c))
  BY <1>12 DEF HearSetup
<1>13. CASE Base(c, Timeout(c))
  BY <1>13 DEF Timeout
<1>14. CASE Base(c, HearError(c))
  BY <1>14 DEF HearError
<1>15. CASE SetupKey(c)
  BY <1>15 DEF SetupKey, StoreKey
<1>16. CASE runSecretsReload(c)
  BY <1>16 DEF runSecretsReload
<1>17. CASE ReloadEnds(c)
  BY <1>17 DEF ReloadEnds
<1>18. CASE SetupModel(c)
  BY <1>18 DEF SetupModel
<1>19. CASE SetupTelegram(c)
  BY <1>19 DEF SetupTelegram, Serves
<1>20. CASE SetupDone(c)
  BY <1>20 DEF SetupDone, Serves
<1>21. CASE AskHash(c)
  BY <1>21 DEF AskHash
<1>22. CASE HearHash(c)
  BY <1>22 DEF HearHash
<1>23. CASE HashFails(c)
  BY <1>23 DEF HashFails
<1>24. CASE HearSetupCall(c)
  BY <1>24 DEF HearSetupCall
<1>25. CASE runPairingApprove(c)
  BY <1>25 DEF runPairingApprove
<1>26. CASE PairingReturns(c)
  BY <1>26 DEF PairingReturns
<1>27. CASE AskApprove(c)
  BY <1>27 DEF AskApprove
<1>28. CASE Expire(c)
  BY <1>28 DEF Expire
<1>29. CASE CommandBlocks(c)
  BY <1>29 DEF CommandBlocks
<1>30. CASE CommandApproves(c)
  BY <1>30 DEF CommandApproves
<1>31. CASE CommandEnds(c)
  BY <1>31 DEF CommandEnds
<1>32. CASE HolderEnds(c)
  BY <1>32 DEF HolderEnds
<1>33. CASE GatewayReads(c)
  BY <1>33 DEF GatewayReads
<1>34. CASE GatewayActs(c)
  BY <1>34 DEF GatewayActs, Gateway, GatewayCreates, GatewayCloses, GatewayServes, GatewayConfigures
<1> QED
  BY <1>1, <1>2, <1>3, <1>4, <1>5, <1>6, <1>7, <1>8, <1>9, <1>10, <1>11, <1>12, <1>13, <1>14, <1>15, <1>16, <1>17, <1>18, <1>19, <1>20, <1>21, <1>22, <1>23, <1>24, <1>25, <1>26, <1>27, <1>28, <1>29, <1>30, <1>31, <1>32, <1>33, <1>34
     DEF CallActs, SetupCallStep, BaseStep, RuntimeStep, SpawnStep, ApplyStep, External, Base

\* Only an ApprovePairing that has an approval ends well.
LEMMA PairingEndsWell ==
  ASSUME SetupType, NEW c \in Calls, Place(c), Approved(c), CallActs(c),
         op[c] = "approve", pc[c] # "ok", pc'[c] = "ok"
  PROVE  did[c] \cap {"command", "gateway"} # {}
<1> USE DEF SetupType, Place, Approved, Keyed, Ended, SetupOps, SetupPc, CommandPc,
            Base, Local, Failing, Pass, Goto, Fail,
            vars, runtimeVars, history, callVars, gatewayVars
<1>1. CASE SpawnStarts(c)
  BY <1>1 DEF SpawnStarts, StartSpawn
<1>2. CASE SetupStarts(c)
  BY <1>2 DEF SetupStarts
<1>3. CASE StartsOther(c)
  BY <1>3 DEF StartsOther, Start
<1>4. CASE SendRequest(c)
  BY <1>4 DEF SendRequest, Ask
<1>5. CASE Base(c, ReadKey(c))
  BY <1>5 DEF ReadKey
<1>6. CASE Base(c, Checkpoint(c))
  BY <1>6 DEF Checkpoint
<1>7. CASE Base(c, StoreSession(c))
  BY <1>7 DEF StoreSession
<1>8. CASE Base(c, RereadSession(c))
  BY <1>8 DEF RereadSession
<1>9. CASE Base(c, ClearSession(c))
  BY <1>9 DEF ClearSession
<1>10. CASE Base(c, Hear(c))
  BY <1>10 DEF Hear
<1>11. CASE Base(c, Tag(c))
  BY <1>11 DEF Tag
<1>12. CASE Base(c, HearSetup(c))
  BY <1>12 DEF HearSetup
<1>13. CASE Base(c, Timeout(c))
  BY <1>13 DEF Timeout
<1>14. CASE Base(c, HearError(c))
  BY <1>14 DEF HearError
<1>15. CASE SetupKey(c)
  BY <1>15 DEF SetupKey, StoreKey
<1>16. CASE runSecretsReload(c)
  BY <1>16 DEF runSecretsReload
<1>17. CASE ReloadEnds(c)
  BY <1>17 DEF ReloadEnds
<1>18. CASE SetupModel(c)
  BY <1>18 DEF SetupModel
<1>19. CASE SetupTelegram(c)
  BY <1>19 DEF SetupTelegram, Serves
<1>20. CASE SetupDone(c)
  BY <1>20 DEF SetupDone, Serves
<1>21. CASE AskHash(c)
  BY <1>21 DEF AskHash
<1>22. CASE HearHash(c)
  BY <1>22 DEF HearHash
<1>23. CASE HashFails(c)
  BY <1>23 DEF HashFails
<1>24. CASE HearSetupCall(c)
  BY <1>24 DEF HearSetupCall
<1>25. CASE runPairingApprove(c)
  BY <1>25 DEF runPairingApprove
<1>26. CASE PairingReturns(c)
  BY <1>26 DEF PairingReturns
<1>27. CASE AskApprove(c)
  BY <1>27 DEF AskApprove
<1>28. CASE Expire(c)
  BY <1>28 DEF Expire
<1>29. CASE CommandBlocks(c)
  BY <1>29 DEF CommandBlocks
<1>30. CASE CommandApproves(c)
  BY <1>30 DEF CommandApproves
<1>31. CASE CommandEnds(c)
  BY <1>31 DEF CommandEnds
<1>32. CASE HolderEnds(c)
  BY <1>32 DEF HolderEnds
<1>33. CASE GatewayReads(c)
  BY <1>33 DEF GatewayReads
<1>34. CASE GatewayActs(c)
  BY <1>34 DEF GatewayActs, Gateway, GatewayCreates, GatewayCloses, GatewayServes, GatewayConfigures
<1> QED
  BY <1>1, <1>2, <1>3, <1>4, <1>5, <1>6, <1>7, <1>8, <1>9, <1>10, <1>11, <1>12, <1>13, <1>14, <1>15, <1>16, <1>17, <1>18, <1>19, <1>20, <1>21, <1>22, <1>23, <1>24, <1>25, <1>26, <1>27, <1>28, <1>29, <1>30, <1>31, <1>32, <1>33, <1>34
     DEF CallActs, SetupCallStep, BaseStep, RuntimeStep, SpawnStep, ApplyStep, External, Base

\* A hash that is given is one, and is itself.
LEMMA GivenHash == ASSUME NEW g, NEW h PROVE <<g>> # <<>> /\ (<<g>> = <<h>> => g = h)
OBVIOUS

\* Only the gateway carries out a Configure, on the configuration of the hash it has.
LEMMA PatchTakes ==
  ASSUME SetupType, NEW c \in Calls, Place(c), Based(c), CallActs(c),
         op[c] = "config", "patch" \in did'[c] \ did[c]
  PROVE  pc[c] = "asking" /\ (seen[c] # <<>> => seen[c] = <<config>>)
<1> USE DEF SetupType, Place, Keyed, Ended, SetupOps, SetupPc, CommandPc,
            Base, Local, Failing, Pass, Goto, Fail, ForgetEnded, Forget,
            vars, runtimeVars, history, callVars, gatewayVars
<1>1. CASE SpawnStarts(c)
  BY <1>1 DEF SpawnStarts, StartSpawn
<1>2. CASE SetupStarts(c)
  BY <1>2 DEF SetupStarts
<1>3. CASE StartsOther(c)
  BY <1>3 DEF StartsOther, Start
<1>4. CASE SendRequest(c)
  BY <1>4 DEF SendRequest, Ask
<1>5. CASE Base(c, ReadKey(c))
  BY <1>5 DEF ReadKey
<1>6. CASE Base(c, Checkpoint(c))
  BY <1>6 DEF Checkpoint
<1>7. CASE Base(c, StoreSession(c))
  BY <1>7 DEF StoreSession
<1>8. CASE Base(c, RereadSession(c))
  BY <1>8 DEF RereadSession
<1>9. CASE Base(c, ClearSession(c))
  BY <1>9 DEF ClearSession
<1>10. CASE Base(c, Hear(c))
  BY <1>10 DEF Hear
<1>11. CASE Base(c, Tag(c))
  BY <1>11 DEF Tag
<1>12. CASE Base(c, HearSetup(c))
  BY <1>12 DEF HearSetup
<1>13. CASE Base(c, Timeout(c))
  BY <1>13 DEF Timeout
<1>14. CASE Base(c, HearError(c))
  BY <1>14 DEF HearError
<1>15. CASE SetupKey(c)
  BY <1>15 DEF SetupKey, StoreKey
<1>16. CASE runSecretsReload(c)
  BY <1>16 DEF runSecretsReload
<1>17. CASE ReloadEnds(c)
  BY <1>17 DEF ReloadEnds
<1>18. CASE SetupModel(c)
  BY <1>18 DEF SetupModel
<1>19. CASE SetupTelegram(c)
  BY <1>19 DEF SetupTelegram, Serves
<1>20. CASE SetupDone(c)
  BY <1>20 DEF SetupDone, Serves
<1>21. CASE AskHash(c)
  BY <1>21, ZenonT(30) DEF AskHash
<1>22. CASE HearHash(c)
  BY <1>22 DEF HearHash
<1>23. CASE HashFails(c)
  BY <1>23 DEF HashFails
<1>24. CASE HearSetupCall(c)
  BY <1>24 DEF HearSetupCall
<1>25. CASE runPairingApprove(c)
  BY <1>25 DEF runPairingApprove
<1>26. CASE PairingReturns(c)
  BY <1>26 DEF PairingReturns
<1>27. CASE AskApprove(c)
  BY <1>27 DEF AskApprove
<1>28. CASE Expire(c)
  BY <1>28 DEF Expire
<1>29. CASE CommandBlocks(c)
  BY <1>29 DEF CommandBlocks
<1>30. CASE CommandApproves(c)
  BY <1>30 DEF CommandApproves
<1>31. CASE CommandEnds(c)
  BY <1>31 DEF CommandEnds
<1>32. CASE HolderEnds(c)
  BY <1>32 DEF HolderEnds
<1>33. CASE GatewayReads(c)
  BY <1>33 DEF GatewayReads
<1>34. CASE GatewayActs(c)
  <2>1. /\ pc[c] = "asking"
        /\ hash[c] \in {<<>>, <<config>>}
    BY <1>34 DEF GatewayActs, GatewayConfigures
  <2>2. hash[c] \in {seen[c], <<{Other}>>}
    BY <2>1 DEF Based
  <2>3. config # {Other}
    BY ASetup DEF Edits
  <2>4. <<{Other}>> # <<config>> /\ <<{Other}>> # <<>>
    BY <2>3, GivenHash
  <2> HIDE DEF SetupType
  <2> QED BY <2>1, <2>2, <2>4
<1> QED
  BY <1>1, <1>2, <1>3, <1>4, <1>5, <1>6, <1>7, <1>8, <1>9, <1>10, <1>11, <1>12, <1>13, <1>14, <1>15, <1>16, <1>17, <1>18, <1>19, <1>20, <1>21, <1>22, <1>23, <1>24, <1>25, <1>26, <1>27, <1>28, <1>29, <1>30, <1>31, <1>32, <1>33, <1>34
     DEF CallActs, SetupCallStep, BaseStep, RuntimeStep, SpawnStep, ApplyStep, External, Base

-----------------------------------------------------------------------------
(* The refinement: what shows of a step is a step of OpenclawRuntime.      *)

PcOf(p) == CASE p \in {"hash", "hashing"} -> "ready"
             [] p \in {"pairing", "approve"} -> "asking"
             [] p \in {"reload", "reading", "choose", "telegram"} -> "configure"
             [] OTHER -> p

\* What a call shows of itself.
Shows(c) ==
  /\ opShown[c] = IF op[c] \in SetupOps THEN "plain" ELSE op[c]
  /\ askShown[c] = IF ask[c] \in {"hash", "command"} THEN "plain" ELSE ask[c]
  /\ wireShown[c] = IF ask[c] = "hash" THEN "none" ELSE wire[c]
  /\ pcShown[c] = PcOf(pc[c])

\* Of a step of a call shows what it changes of that call.
LEMMA ShowsOwn ==
  ASSUME SetupType, NEW c \in Calls, \A d \in Calls : d # c => Own(d)' = Own(d)
  PROVE  /\ Shows(c) /\ Shows(c)'
         /\ opShown' = [opShown EXCEPT ![c] = opShown'[c]]
         /\ askShown' = [askShown EXCEPT ![c] = askShown'[c]]
         /\ wireShown' = [wireShown EXCEPT ![c] = wireShown'[c]]
         /\ pcShown' = [pcShown EXCEPT ![c] = pcShown'[c]]
         /\ opShown'[c] = opShown[c] => opShown' = opShown
         /\ askShown'[c] = askShown[c] => askShown' = askShown
         /\ wireShown'[c] = wireShown[c] => wireShown' = wireShown
         /\ pcShown'[c] = pcShown[c] => pcShown' = pcShown
<1>1. pcShown = [d \in Calls |-> PcOf(pc[d])]
  BY DEF pcShown, PcOf
<1>2. pcShown' = [d \in Calls |-> PcOf(pc'[d])]
  BY DEF pcShown, PcOf
<1>3. \A d \in Calls : d # c => op'[d] = op[d] /\ pc'[d] = pc[d] /\ ask'[d] = ask[d] /\ wire'[d] = wire[d]
  BY DEF Own
<1>4. Shows(c) /\ Shows(c)'
  BY <1>1, <1>2 DEF Shows, opShown, askShown, wireShown
<1>5. pcShown' = [pcShown EXCEPT ![c] = pcShown'[c]] /\ (pcShown'[c] = pcShown[c] => pcShown' = pcShown)
  <2> HIDE DEF pcShown
  <2> QED BY <1>1, <1>2, <1>3
<1>6. opShown' = [opShown EXCEPT ![c] = opShown'[c]] /\ (opShown'[c] = opShown[c] => opShown' = opShown)
  BY <1>3 DEF opShown
<1>7. askShown' = [askShown EXCEPT ![c] = askShown'[c]] /\ (askShown'[c] = askShown[c] => askShown' = askShown)
  BY <1>3 DEF askShown
<1>8. wireShown' = [wireShown EXCEPT ![c] = wireShown'[c]] /\ (wireShown'[c] = wireShown[c] => wireShown' = wireShown)
  BY <1>3 DEF wireShown
<1> QED BY <1>4, <1>5, <1>6, <1>7, <1>8

\* A step of a call shows as a step of that call, of the gateway for it, or not at all.
LEMMA CallShows ==
  ASSUME SetupType, NEW c \in Calls, Place(c), CallActs(c)
  PROVE  R!Start(c) \/ R!StartSpawn(c) \/ R!CallStep(c) \/ R!Gateway(c) \/ UNCHANGED R!vars
<1>0. /\ Shows(c) /\ Shows(c)'
      /\ opShown' = [opShown EXCEPT ![c] = opShown'[c]]
      /\ askShown' = [askShown EXCEPT ![c] = askShown'[c]]
      /\ wireShown' = [wireShown EXCEPT ![c] = wireShown'[c]]
      /\ pcShown' = [pcShown EXCEPT ![c] = pcShown'[c]]
      /\ opShown'[c] = opShown[c] => opShown' = opShown
      /\ askShown'[c] = askShown[c] => askShown' = askShown
      /\ wireShown'[c] = wireShown[c] => wireShown' = wireShown
      /\ pcShown'[c] = pcShown[c] => pcShown' = pcShown
  BY SetupStepType, ShowsOwn
<1> USE DEF SetupType, Place, Shows, PcOf, Ops, Asks, Keyed, Active, Ended, SetupOps, SetupPc, CommandPc,
            Base, Local, Failing, Pass, Goto, Fail,
            vars, runtimeVars, history, callVars, gatewayVars,
            R!Goto, R!Fail, R!Ended, R!Ops, R!Keyed,
            R!vars, R!runtimeVars, R!history, R!callVars, R!gatewayVars
<1>1. CASE SpawnStarts(c)
  BY <1>0, <1>1 DEF SpawnStarts, StartSpawn, R!StartSpawn
<1>2. CASE SetupStarts(c)
  <2>1. /\ pcShown[c] = "idle" /\ pcShown'[c] = "ready" /\ opShown'[c] = "plain"
        /\ askShown'[c] = "plain" /\ wireShown'[c] = wireShown[c]
    <3>1. /\ op'[c] \in SetupOps /\ pc'[c] \in {"ready", "hash"} /\ ask'[c] = "plain" /\ wire' = wire
          /\ pc[c] = "idle"
      BY <1>2 DEF SetupStarts
    <3> QED BY <1>0, <3>1
  <2>2. overlapped' = (overlapped \/ \E d \in Calls : pcShown[d] \notin {"idle"} \cup Ended)
    <3>1. \A d \in Calls : pcShown[d] \in {"idle"} \cup Ended <=> pc[d] \in {"idle"} \cup Ended
      BY DEF pcShown
    <3>2. overlapped' = (overlapped \/ \E d \in Calls : pc[d] \notin {"idle"} \cup Ended)
      BY <1>2 DEF SetupStarts
    <3> QED BY <3>1, <3>2, Zenon
  <2>3. phase = "up" /\ UNCHANGED <<runtimeVars, restored, new, tool, open, issued, key, data, tag>>
    BY <1>2 DEF SetupStarts
  <2>4. "plain" \in R!Ops
    OBVIOUS
  <2> QED BY <1>0, <2>1, <2>2, <2>3, <2>4, ZenonT(30) DEF R!Start
<1>3. CASE StartsOther(c)
  <2>1. PICK o \in Ops :
          /\ op' = [op EXCEPT ![c] = o]
          /\ ask' = [ask EXCEPT ![c] = IF o = "checkpoint" THEN "none" ELSE o]
          /\ Goto(c, IF o \in {"create", "plain"} THEN "ready" ELSE "locate")
    BY <1>3 DEF StartsOther, Start
  <2>2. /\ pcShown[c] = "idle" /\ opShown'[c] = o /\ wireShown'[c] = wireShown[c]
        /\ pcShown'[c] = IF o \in {"create", "plain"} THEN "ready" ELSE "locate"
        /\ askShown'[c] = IF o = "checkpoint" THEN "none" ELSE o
    BY <1>0, <1>3, <2>1, ZenonT(30) DEF StartsOther, Start
  <2>3. overlapped' = (overlapped \/ \E d \in Calls : pcShown[d] \notin {"idle"} \cup Ended)
    <3>1. \A d \in Calls : pcShown[d] \in {"idle"} \cup Ended <=> pc[d] \in {"idle"} \cup Ended
      BY DEF pcShown
    <3>2. overlapped' = (overlapped \/ \E d \in Calls : pc[d] \notin {"idle"} \cup Ended)
      BY <1>3 DEF StartsOther, Start
    <3> QED BY <3>1, <3>2, Zenon
  <2>4. phase = "up" /\ UNCHANGED <<runtimeVars, restored, new, tool, open, issued, key, data, tag>>
    BY <1>3 DEF StartsOther, Start
  <2>5. o \in R!Ops
    OBVIOUS
  <2> QED BY <1>0, <2>2, <2>3, <2>4, <2>5, ZenonT(30) DEF R!Start
<1>4. CASE SendRequest(c)
  <2>1. pc[c] = "ready" /\ UNCHANGED <<saved, history, new, tool, open, issued, op, ask, key, data, tag>>
    BY <1>4 DEF SendRequest, Ask
  <2>2. CASE Fail(c) /\ UNCHANGED wire
    BY <1>0, <2>1, <2>2 DEF R!Ask, R!CallStep
  <2>3. CASE /\ wire' = [wire EXCEPT ![c] = "request"]
             /\ Goto(c, "asking")
             /\ UNCHANGED <<phase, session>>
    BY <1>0, <2>1, <2>3 DEF R!Ask, R!CallStep
  <2> QED BY <1>4, <2>2, <2>3 DEF SendRequest, Ask
<1>5. CASE Base(c, ReadKey(c))
  <2>1. /\ pcShown[c] = "locate" /\ opShown[c] = op[c] /\ op[c] # "checkpoint"
        /\ opShown' = opShown /\ askShown' = askShown /\ wireShown' = wireShown
        /\ pcShown' = [pcShown EXCEPT ![c] = pc'[c]]
        /\ UNCHANGED <<saved, history, new, tool, open, issued, data, tag>>
    BY <1>0, <1>5, ZenonT(30) DEF ReadKey
  <2>2. CASE session = None
    BY <1>5, <2>1, <2>2 DEF ReadKey, R!ReadKey, R!CallStep
  <2>3. CASE session # None
    BY <1>5, <2>1, <2>3 DEF ReadKey, R!ReadKey, R!CallStep
  <2> QED BY <2>2, <2>3
<1>6. CASE Base(c, Checkpoint(c))
  <2>1. /\ pcShown[c] = "locate" /\ opShown[c] = "checkpoint"
        /\ opShown' = opShown /\ askShown' = askShown /\ wireShown' = wireShown
        /\ pcShown' = [pcShown EXCEPT ![c] = pc'[c]]
        /\ UNCHANGED <<history, new, tool, open, issued, key, data, tag>>
    BY <1>0, <1>6, ZenonT(30) DEF Checkpoint
  <2>2. CASE session = None
    BY <1>6, <2>1, <2>2 DEF Checkpoint, R!Checkpoint, R!CallStep
  <2>3. CASE session # None
    BY <1>6, <2>1, <2>3 DEF Checkpoint, R!Checkpoint, R!CallStep
  <2> QED BY <2>2, <2>3
<1>7. CASE Base(c, StoreSession(c))
  BY <1>0, <1>7 DEF StoreSession, R!StoreSession, R!CallStep
<1>8. CASE Base(c, RereadSession(c))
  BY <1>0, <1>8 DEF RereadSession, R!RereadSession, R!CallStep
<1>9. CASE Base(c, ClearSession(c))
  BY <1>0, <1>9 DEF ClearSession, R!ClearSession, R!CallStep
<1>10. CASE Base(c, Hear(c))
  BY <1>0, <1>10 DEF Hear, R!Hear, R!CallStep
<1>11. CASE Base(c, Tag(c))
  BY <1>0, <1>11 DEF Tag, R!Tag, R!CallStep
<1>12. CASE Base(c, HearSetup(c))
  BY <1>0, <1>12 DEF HearSetup, R!HearSetup, R!CallStep
<1>13. CASE Base(c, Timeout(c))
  BY <1>0, <1>13 DEF Timeout, R!Timeout, R!CallStep
<1>14. CASE Base(c, HearError(c))
  BY <1>0, <1>14 DEF HearError, R!HearError, R!CallStep
<1>15. CASE SetupKey(c)
  <2>1. pc[c] = "configure" /\ ask[c] = "create"
    BY <1>15 DEF SetupKey
  <2>2. CASE Failing(c)
    BY <1>0, <2>1, <2>2 DEF R!SetupNext, R!CallStep
  <2>3. CASE Pass(c, "choose")
    BY <1>0, <2>1, <2>3
  <2>4. CASE StoreKey(c)
    BY <1>0, <2>1, <2>4 DEF StoreKey
  <2> QED BY <1>15, <2>2, <2>3, <2>4 DEF SetupKey
<1>16. CASE runSecretsReload(c)
  <2>1. CASE Pass(c, "choose")
    BY <1>0, <1>16, <2>1 DEF runSecretsReload
  <2>2. CASE Pass(c, "reading")
    BY <1>0, <1>16, <2>2 DEF runSecretsReload
  <2> QED BY <1>16, <2>1, <2>2 DEF runSecretsReload
<1>17. CASE ReloadEnds(c)
  BY <1>0, <1>17 DEF ReloadEnds
<1>18. CASE SetupModel(c)
  <2>1. pc[c] = "choose"
    BY <1>18 DEF SetupModel
  <2>2. CASE Pass(c, "telegram")
    BY <1>0, <2>1, <2>2
  <2>3. CASE /\ session # Fallback
             /\ ask' = [ask EXCEPT ![c] = "model"]
             /\ key' = [key EXCEPT ![c] = session]
             /\ Goto(c, "ready")
             /\ Local(c)
             /\ UNCHANGED <<phase, session, op>>
    BY <1>0, <2>1, <2>3 DEF R!SetupNext, R!CallStep
  <2> QED BY <1>18, <2>2, <2>3 DEF SetupModel
<1>19. CASE SetupTelegram(c)
  <2>1. /\ pc[c] = "telegram" \/ (pc[c] = "configure" /\ ask[c] = "model")
        /\ Local(c)
        /\ UNCHANGED <<session, op, key>>
    BY <1>19 DEF SetupTelegram
  <2>2. CASE ask' = [ask EXCEPT ![c] = "plain"] /\ Goto(c, "ready") /\ UNCHANGED phase
    BY <1>0, <2>1, <2>2 DEF R!SetupNext, R!CallStep
  <2>3. CASE Serves(c)
    BY <1>0, <2>1, <2>3 DEF Serves, R!SetupNext, R!CallStep
  <2> QED BY <1>19, <2>2, <2>3 DEF SetupTelegram
<1>20. CASE SetupDone(c)
  BY <1>0, <1>20 DEF SetupDone, Serves, R!SetupNext, R!CallStep
<1>21. CASE AskHash(c)
  <2>1. pc[c] = "hash" /\ UNCHANGED <<saved, history, new, tool, open, issued, data, tag>>
    BY <1>21 DEF AskHash
  <2>2. CASE Failing(c) /\ UNCHANGED wire
    BY <1>0, <2>1, <2>2 DEF R!Ask, R!CallStep
  <2>3. CASE /\ wire' = [wire EXCEPT ![c] = "request"]
             /\ ask' = [ask EXCEPT ![c] = "hash"]
             /\ Goto(c, "hashing")
             /\ UNCHANGED <<phase, session, op, key>>
    BY <1>0, <2>1, <2>3
  <2> QED BY <1>21, <2>2, <2>3 DEF AskHash
<1>22. CASE HearHash(c)
  BY <1>0, <1>22 DEF HearHash
<1>23. CASE HashFails(c)
  BY <1>0, <1>23 DEF HashFails, R!Ask, R!CallStep
<1>24. CASE HearSetupCall(c)
  BY <1>0, <1>24 DEF HearSetupCall, R!Hear, R!CallStep
<1>25. CASE runPairingApprove(c)
  <2>1. pc[c] = "ready" /\ op[c] = "approve"
    BY <1>25 DEF runPairingApprove
  <2>2. CASE Failing(c)
    BY <1>0, <2>1, <2>2 DEF R!Ask, R!CallStep
  <2>3. CASE /\ wire' = [wire EXCEPT ![c] = "request"]
             /\ ask' = [ask EXCEPT ![c] = "command"]
             /\ Goto(c, "pairing")
             /\ UNCHANGED <<phase, session, op, key>>
             /\ UNCHANGED <<saved, history, new, tool, open, issued, data, tag>>
    BY <1>0, <2>1, <2>3 DEF R!Ask, R!CallStep
  <2> QED BY <1>25, <2>2, <2>3 DEF runPairingApprove
<1>26. CASE PairingReturns(c)
  BY <1>0, <1>26 DEF PairingReturns, R!Hear, R!CallStep
<1>27. CASE AskApprove(c)
  <2>1. pc[c] = "approve"
    BY <1>27 DEF AskApprove
  <2>2. CASE Failing(c)
    BY <1>0, <2>1, <2>2 DEF R!Timeout, R!CallStep
  <2>3. CASE /\ ask' = [ask EXCEPT ![c] = "plain"]
             /\ Goto(c, "asking")
             /\ Local(c)
             /\ UNCHANGED <<phase, session, op, key>>
    BY <1>0, <2>1, <2>3
  <2> QED BY <1>27, <2>2, <2>3 DEF AskApprove
<1>28. CASE Expire(c)
  BY <1>0, <1>28 DEF Expire
<1>29. CASE CommandBlocks(c)
  BY <1>0, <1>29 DEF CommandBlocks
<1>30. CASE CommandApproves(c)
  BY <1>0, <1>30 DEF CommandApproves
<1>31. CASE CommandEnds(c)
  <2>1. /\ cli[c] = "running"
        /\ UNCHANGED <<runtimeVars, history, callVars, new, tool, open, issued>>
    BY <1>31 DEF CommandEnds
  <2>2. CASE wire' = wire
    BY <1>0, <2>1, <2>2
  <2>3. CASE op[c] = "approve" /\ wire' = [wire EXCEPT ![c] = "ok"]
    BY <1>0, <2>1, <2>3 DEF R!Gateway, R!GatewayServes
  <2> QED BY <1>31, <2>2, <2>3 DEF CommandEnds
<1>32. CASE HolderEnds(c)
  BY <1>0, <1>32, ZenonT(30) DEF HolderEnds
<1>33. CASE GatewayReads(c)
  BY <1>0, <1>33 DEF GatewayReads
<1>34. CASE GatewayActs(c)
  <2>1. wire[c] = "request" /\ UNCHANGED <<runtimeVars, history, callVars, tool>>
    BY <1>34 DEF GatewayActs, Gateway
  <2>2. CASE GatewayCreates(c)
    <3>1. ask[c] = "create"
      BY <2>2 DEF GatewayCreates
    <3>2. CASE /\ wire' = [wire EXCEPT ![c] = IF tool THEN "error" ELSE "tool not available"]
               /\ UNCHANGED <<new, issued, open>>
      <4>1. /\ wireShown[c] = "request" /\ askShown[c] = "create"
            /\ wireShown' = [wireShown EXCEPT ![c] = IF tool THEN "error" ELSE "tool not available"]
            /\ opShown' = opShown /\ askShown' = askShown /\ pcShown' = pcShown
        BY <1>0, <2>1, <3>1, <3>2
      <4> QED BY <2>1, <3>2, <4>1 DEF R!Gateway, R!GatewayCreates
    <3>3. ASSUME tool, NEW s \in Ids \ issued,
                 new' = [new EXCEPT ![c] = s], issued' = issued \cup {s},
                 open' = open \cup {s}, wire' = [wire EXCEPT ![c] = "ok"]
          PROVE  R!Gateway(c)
      <4>1. /\ wireShown[c] = "request" /\ askShown[c] = "create"
            /\ wireShown' = [wireShown EXCEPT ![c] = "ok"]
            /\ opShown' = opShown /\ askShown' = askShown /\ pcShown' = pcShown
        BY <1>0, <2>1, <3>1, <3>3
      <4> QED BY <2>1, <3>3, <4>1 DEF R!Gateway, R!GatewayCreates
    <3>4. ASSUME tool, new' = [new EXCEPT ![c] = Body], wire' = [wire EXCEPT ![c] = "ok"],
                 UNCHANGED <<issued, open>>
          PROVE  R!Gateway(c)
      <4>1. /\ wireShown[c] = "request" /\ askShown[c] = "create"
            /\ wireShown' = [wireShown EXCEPT ![c] = "ok"]
            /\ opShown' = opShown /\ askShown' = askShown /\ pcShown' = pcShown
        BY <1>0, <2>1, <3>1, <3>4
      <4> QED BY <2>1, <3>4, <4>1 DEF R!Gateway, R!GatewayCreates
    <3> QED BY <2>2, <3>2, <3>3, <3>4 DEF GatewayCreates
  <2>3. CASE GatewayCloses(c)
    BY <1>0, <2>1, <2>3, ZenonT(30) DEF GatewayCloses, R!Gateway, R!GatewayCloses
  <2>4. CASE GatewayServes(c)
    <3>1. PICK answer \in {"ok", "error"} : wire' = [wire EXCEPT ![c] = answer]
      BY <2>4 DEF GatewayServes
    <3>2. /\ ask[c] \in Keyed \cup {"plain"}
          /\ UNCHANGED <<new, issued, open>>
      BY <2>4 DEF GatewayServes
    <3>3. /\ wireShown[c] = "request" /\ askShown[c] \in R!Keyed \cup {"plain"}
          /\ wireShown' = [wireShown EXCEPT ![c] = answer]
          /\ opShown' = opShown /\ askShown' = askShown /\ pcShown' = pcShown
      BY <1>0, <2>1, <3>1, <3>2
    <3> QED BY <2>1, <3>2, <3>3 DEF R!Gateway, R!GatewayServes
  <2> QED BY <1>34, <2>2, <2>3, <2>4 DEF GatewayActs, Gateway
<1> QED
  BY <1>1, <1>2, <1>3, <1>4, <1>5, <1>6, <1>7, <1>8, <1>9, <1>10, <1>11, <1>12, <1>13, <1>14, <1>15, <1>16, <1>17, <1>18, <1>19, <1>20, <1>21, <1>22, <1>23, <1>24, <1>25, <1>26, <1>27, <1>28, <1>29, <1>30, <1>31, <1>32, <1>33, <1>34
     DEF CallActs, SetupCallStep, BaseStep, RuntimeStep, SpawnStep, ApplyStep, External, Base

\* A crash loses every call that shows.
LEMMA CrashShows == ASSUME SetupType, SetupCrash PROVE R!Crash
<1>1. opShown' = opShown /\ askShown' = askShown /\ wireShown' = wireShown
  BY DEF SetupCrash, Crash, opShown, askShown, wireShown, gatewayVars
<1>2. pcShown' = [c \in Calls |-> IF pcShown[c] = "idle" THEN "idle" ELSE "lost"]
  <2>1. pcShown = [c \in Calls |-> PcOf(pc[c])] /\ pcShown' = [c \in Calls |-> PcOf(pc'[c])]
    BY DEF pcShown, PcOf
  <2>2. \A c \in Calls : pc'[c] = IF pc[c] = "idle" THEN "idle" ELSE "lost"
    BY DEF SetupCrash, Crash
  <2>3. \A c \in Calls : PcOf(pc'[c]) = IF PcOf(pc[c]) = "idle" THEN "idle" ELSE "lost"
    BY <2>2 DEF PcOf
  <2> HIDE DEF pcShown
  <2> QED BY <2>1, <2>3
<1> HIDE DEF opShown, askShown, wireShown, pcShown
<1> QED BY <1>1, <1>2 DEF SetupCrash, Crash, history, gatewayVars, R!Crash, R!history, R!gatewayVars

\* Every step shows as a step of OpenclawRuntime, or not at all.
LEMMA StepShows ==
  ASSUME SetupInv, [SetupSystemNext]_allVars
  PROVE  [R!Next]_R!vars
<1> HIDE DEF opShown, askShown, wireShown, pcShown
<1>1. ASSUME NEW c \in Calls, CallActs(c) PROVE [R!Next]_R!vars
  <2>1. SetupType /\ Place(c)
    BY DEF SetupInv
  <2> QED BY <1>1, <2>1, CallShows DEF R!Next
<1>2. ASSUME UNCHANGED <<op, pc, ask, wire>>
      PROVE  opShown' = opShown /\ askShown' = askShown /\ wireShown' = wireShown /\ pcShown' = pcShown
  BY <1>2 DEF opShown, askShown, wireShown, pcShown
<1>3. CASE Restore /\ UNCHANGED setupVars
  BY <1>2, <1>3 DEF Restore, callVars, gatewayVars, R!Next, R!Restore, R!callVars, R!gatewayVars
<1>4. CASE SetupCrash
  BY <1>4, CrashShows DEF R!Next, SetupInv
<1>5. CASE UserEdits \/ UNCHANGED allVars
  BY <1>2, <1>5 DEF UserEdits, allVars, vars, runtimeVars, history, callVars, gatewayVars,
       R!vars, R!runtimeVars, R!history, R!callVars, R!gatewayVars
<1> QED BY <1>1, <1>3, <1>4, <1>5 DEF SetupSystemNext, CallActs

\* An agent that starts shows nothing.
LEMMA InitShows == ASSUME SetupInit PROVE R!Init
<1>1. /\ opShown = [c \in Calls |-> "none"]
      /\ askShown = [c \in Calls |-> "none"]
      /\ wireShown = [c \in Calls |-> "none"]
      /\ pcShown = [c \in Calls |-> "idle"]
  BY DEF SetupInit, Init, opShown, askShown, wireShown, pcShown, SetupOps
<1> HIDE DEF opShown, askShown, wireShown, pcShown
<1> QED BY <1>1 DEF SetupInit, Init, R!Init

\* The calls that set something up, the command and the configuration included, keep to
\* what OpenclawRuntime says of the session (setup.go, openclaw.go).
THEOREM SetupRefines == SetupSpec => ImplementsRuntime
<1>1. SetupInit => R!Init
  BY InitShows
<1>2. SetupInv /\ [SetupSystemNext]_allVars => [R!Next]_R!vars
  BY StepShows
<1> QED BY <1>1, <1>2, SetupInvariant, PTL DEF SetupSpec, ImplementsRuntime, R!Spec

-----------------------------------------------------------------------------

\* Only a call's own step moves it on, and brings about what it does.
LEMMA OnlyOwnSteps ==
  ASSUME SetupInv, [SetupSystemNext]_allVars, NEW c \in Calls
  PROVE  CallActs(c) \/ (pc'[c] \in {pc[c], "idle", "lost"} /\ did'[c] \subseteq did[c])
<1>1. ASSUME NEW d \in Calls, CallActs(d), d # c
      PROVE  pc'[c] = pc[c] /\ did'[c] = did[c]
  BY <1>1, SetupStepType DEF SetupInv, Own
<1>2. CASE (Restore /\ UNCHANGED setupVars) \/ UserEdits \/ UNCHANGED allVars
  BY <1>2 DEF Restore, UserEdits, allVars, setupVars, vars, callVars
<1>3. CASE SetupCrash
  BY <1>3 DEF SetupCrash, Crash
<1> QED BY <1>1, <1>2, <1>3 DEF SetupSystemNext, CallActs

\* A spawn that is acknowledged has stored the key, configured the model and applied the
\* patch that its tags ask for (setup.go:33, 45, 52).
THEOREM SpawnsDoTheirTags == SetupSpec => SpawnDoesWhatTagsAsk
<1>1. ASSUME SetupInv, [SetupSystemNext]_allVars, NEW c \in Calls,
             op[c] = "spawn", pc[c] # "ok", pc'[c] = "ok"
      PROVE  /\ wants[c].apiKey # Empty => "key" \in did[c]
             /\ wants[c].model # Empty /\ session # Fallback => "model" \in did[c]
             /\ wants[c].telegram => "patch" \in did[c]
  <2>1. CallActs(c)
    BY <1>1, OnlyOwnSteps
  <2> QED BY <1>1, <2>1, SpawnEndsWell DEF SetupInv
<1>2. SetupInv /\ [SetupSystemNext]_allVars =>
        [\A c \in Calls : op[c] = "spawn" /\ pc[c] # "ok" /\ pc'[c] = "ok" =>
           /\ wants[c].apiKey # Empty => "key" \in did[c]
           /\ wants[c].model # Empty /\ session # Fallback => "model" \in did[c]
           /\ wants[c].telegram => "patch" \in did[c]]_allVars
  BY <1>1
<1> QED BY <1>2, SetupInvariant, PTL DEF SetupSpec, SpawnDoesWhatTagsAsk

\* A Configure takes effect only on the configuration whose hash it read or was given
\* (setup.go:216).
THEOREM PatchesWhatWasRead == SetupSpec => PatchOnWhatWasRead
<1>1. ASSUME SetupInv, [SetupSystemNext]_allVars, NEW c \in Calls,
             op[c] = "config", "patch" \in did'[c] \ did[c], seen[c] # <<>>
      PROVE  seen[c] = <<config>>
  <2>1. CallActs(c)
    BY <1>1, OnlyOwnSteps
  <2> QED BY <1>1, <2>1, PatchTakes DEF SetupInv
<1>2. SetupInv /\ [SetupSystemNext]_allVars =>
        [\A c \in Calls :
           op[c] = "config" /\ "patch" \in did'[c] \ did[c] /\ seen[c] # <<>>
             => seen[c] = <<config>>]_allVars
  BY <1>1
<1> QED BY <1>2, SetupInvariant, PTL DEF SetupSpec, PatchOnWhatWasRead

\* An ApprovePairing that is acknowledged has been approved (setup.go:244).
THEOREM PairingsApproved == SetupSpec => PairingApproved
<1>1. ASSUME SetupInv, [SetupSystemNext]_allVars, NEW c \in Calls,
             op[c] = "approve", pc[c] # "ok", pc'[c] = "ok"
      PROVE  did[c] \cap {"command", "gateway"} # {}
  <2>1. CallActs(c)
    BY <1>1, OnlyOwnSteps
  <2> QED BY <1>1, <2>1, PairingEndsWell DEF SetupInv
<1>2. SetupInv /\ [SetupSystemNext]_allVars =>
        [\A c \in Calls : op[c] = "approve" /\ pc[c] # "ok" /\ pc'[c] = "ok"
           => did[c] \cap {"command", "gateway"} # {}]_allVars
  BY <1>1
<1> QED BY <1>2, SetupInvariant, PTL DEF SetupSpec, PairingApproved

-----------------------------------------------------------------------------
(* The hash of a configuration, in whatever answers a config.get.          *)

\* The documents right below some others.
Below(documents) == UNION {Children(w) : w \in documents}

\* There is a level of each depth.
LEMMA Levels ==
  ASSUME NEW v
  PROVE  /\ Level(v) = [n \in 0 .. MaxNesting |-> Level(v)[n]]
         /\ Level(v)[0] = {v}
         /\ \A n \in 1 .. MaxNesting : Level(v)[n] = Below(Level(v)[n - 1])
<1> DEFINE M == MaxNesting
           Step(h) == [n \in 0 .. M |-> IF n = 0 THEN {v} ELSE Below(h[n - 1])]
           whole == CHOOSE h : h = Step(h)
           S == {k \in 0 .. M : \E f : f[0] = {v} /\ \A i \in 1 .. k : f[i] = Below(f[i - 1])}
<1>0. M \in Nat
  BY ANesting
<1>1. 0 \in S
  <2> DEFINE f == [i \in 0 .. 0 |-> {v}]
  <2>1. f[0] = {v} /\ \A i \in 1 .. 0 : f[i] = Below(f[i - 1])
    OBVIOUS
  <2>2. 0 \in 0 .. M
    BY <1>0
  <2> HIDE DEF f
  <2> QED BY <2>1, <2>2, Zenon
<1>2. ASSUME NEW k \in 1 .. M, k - 1 \in S PROVE k \in S
  <2>1. PICK f : f[0] = {v} /\ \A i \in 1 .. k - 1 : f[i] = Below(f[i - 1])
    BY <1>2
  <2> DEFINE g == [i \in 0 .. k |-> IF i = k THEN Below(f[k - 1]) ELSE f[i]]
  <2>2. k \in Nat /\ k > 0 /\ k \in 0 .. M
    BY <1>0
  <2>3. g[0] = {v}
    BY <2>1, <2>2
  <2>4. ASSUME NEW i \in 1 .. k PROVE g[i] = Below(g[i - 1])
    <3>1. i \in 0 .. k /\ i - 1 \in 0 .. k /\ i - 1 # k
      BY <2>2
    <3>2. g[i - 1] = f[i - 1]
      BY <3>1
    <3>3. CASE i = k
      BY <3>1, <3>2, <3>3
    <3>4. CASE i # k
      <4>1. i \in 1 .. k - 1
        BY <2>2, <3>4
      <4>2. g[i] = f[i]
        BY <3>1, <3>4
      <4> QED BY <2>1, <3>2, <4>1, <4>2
    <3> QED BY <3>3, <3>4
  <2> HIDE DEF g
  <2> QED BY <2>2, <2>3, <2>4, Zenon
<1> HIDE DEF S
<1>3. M \in S
  <2>1. 0 .. M \subseteq S
    <3>1. \A k \in 1 .. M : k - 1 \in S => k \in S
      BY <1>2
    <3> QED BY <1>0, <1>1, <3>1, UpTo, Zenon
  <2>2. M \in 0 .. M
    BY <1>0
  <2> QED BY <2>1, <2>2
<1>4. PICK f : f[0] = {v} /\ \A i \in 1 .. M : f[i] = Below(f[i - 1])
  BY <1>3 DEF S
<1>5. \E h : h = Step(h)
  <2> DEFINE g == [i \in 0 .. M |-> f[i]]
  <2>1. ASSUME NEW n \in 0 .. M PROVE g[n] = IF n = 0 THEN {v} ELSE Below(g[n - 1])
    <3>1. CASE n = 0
      BY <1>4, <3>1
    <3>2. CASE n # 0
      <4>1. n \in 1 .. M /\ n - 1 \in 0 .. M
        BY <1>0, <3>2
      <4>2. g[n] = f[n] /\ g[n - 1] = f[n - 1]
        BY <4>1
      <4> QED BY <1>4, <3>2, <4>1, <4>2
    <3> QED BY <3>1, <3>2
  <2>2. g = Step(g)
    BY <2>1
  <2> QED BY <2>2
<1>6. whole = Step(whole)
  BY <1>5
<1>7. Level(v) = whole
  BY DEF Level, Below
<1> HIDE DEF whole, M
<1>8. \A n \in 0 .. M : whole[n] = IF n = 0 THEN {v} ELSE Below(whole[n - 1])
  BY <1>6
<1>9. whole = [n \in 0 .. M |-> whole[n]]
  <2>1. whole = [n \in 0 .. M |-> IF n = 0 THEN {v} ELSE Below(whole[n - 1])]
    BY <1>6
  <2> QED BY <1>8, <2>1
<1>10. 0 \in 0 .. M /\ \A n \in 1 .. M : n \in 0 .. M /\ n # 0
  BY <1>0
<1> QED BY <1>7, <1>8, <1>9, <1>10 DEF M

\* The documents of one are its levels, and what is nested in any of them is one of them,
\* a level below.
LEMMA Nested ==
  ASSUME NEW v, Document(v)
  PROVE  /\ v \in Documents(v)
         /\ \A w \in Documents(v) : Children(w) \subseteq Documents(v)
         /\ \A w \in Documents(v) : \E n \in 0 .. MaxNesting : w \in Level(v)[n]
         /\ \A n \in 0 .. MaxNesting : Level(v)[n] \subseteq Documents(v)
         /\ \A n \in 0 .. MaxNesting : \A w \in Level(v)[n] :
              Children(w) # {} => n + 1 \in 0 .. MaxNesting /\ Children(w) \subseteq Level(v)[n + 1]
<1> DEFINE L == Level(v)
           M == MaxNesting
<1>0. M \in Nat
  BY ANesting
<1>1. /\ L = [n \in 0 .. M |-> L[n]]
      /\ L[0] = {v}
      /\ \A n \in 1 .. M : L[n] = Below(L[n - 1])
  BY Levels
<1>2. Documents(v) = UNION {L[n] : n \in 0 .. M}
  <2>1. DOMAIN L = 0 .. M
    BY <1>1
  <2> QED BY <2>1 DEF Documents, Range
<1>3. \A w \in L[M] : Children(w) = {}
  BY DEF Document
<1> HIDE DEF L, M
<1>4. v \in Documents(v)
  BY <1>0, <1>1, <1>2
<1>5. \A w \in Documents(v) : \E n \in 0 .. M : w \in L[n]
  BY <1>2
<1>6. \A n \in 0 .. M : L[n] \subseteq Documents(v)
  BY <1>2
<1>7. ASSUME NEW n \in 0 .. M, NEW w \in L[n], Children(w) # {}
      PROVE  n + 1 \in 0 .. M /\ Children(w) \subseteq L[n + 1]
  <2>1. n # M
    BY <1>3, <1>7
  <2>2. n + 1 \in 1 .. M /\ (n + 1) - 1 = n
    BY <1>0, <2>1
  <2>3. L[n + 1] = Below(L[n])
    BY <1>1, <2>2
  <2>4. n + 1 \in 0 .. M
    BY <1>0, <2>2
  <2> QED BY <2>3, <2>4 DEF Below
<1>8. ASSUME NEW w \in Documents(v) PROVE Children(w) \subseteq Documents(v)
  <2>1. PICK n \in 0 .. M : w \in L[n]
    BY <1>5
  <2>2. CASE Children(w) = {}
    BY <2>2
  <2>3. CASE Children(w) # {}
    BY <1>6, <1>7, <2>1, <2>3
  <2> QED BY <2>2, <2>3
<1> QED BY <1>4, <1>5, <1>6, <1>7, <1>8 DEF L, M

\* The parts of a document are its members, or the entries of its list.
LEMMA Parts ==
  ASSUME NEW v, Document(v), NEW w \in Documents(v)
  PROVE  /\ \/ IsText(w) /\ ~IsMap(w)
            \/ ~IsText(w) /\ IsMap(w)
            \/ ~IsText(w) /\ ~IsMap(w) /\ w.list \in [1 .. Len(w.list) -> Children(w)]
         /\ ~IsText(w) /\ ~IsMap(w) => \A x \in Children(w) : \E i \in DOMAIN w.list : w.list[i] = x
<1>1. \/ DOMAIN w = {"text"}
      \/ DOMAIN w = {"map"}
      \/ DOMAIN w = {"list"} /\ w.list \in Seq(Children(w))
  BY DEF Document
<1>2. "text" # "map" /\ "text" # "list" /\ "map" # "list"
  OBVIOUS
<1>3. ~IsText(w) /\ ~IsMap(w) => Children(w) = {w.list[i] : i \in DOMAIN w.list}
  BY DEF Children, ToSet
<1> QED BY <1>1, <1>2, <1>3 DEF IsText, IsMap

\* What the search gives for a document, when g is what it gives for those nested in it.
Found(g, w) ==
  IF IsText(w) THEN {}
  ELSE IF IsMap(w)
  THEN IF HashIn(w) # {} THEN HashIn(w) ELSE UNION {g[x] : x \in Children(w)}
  ELSE LET hits == {i \in DOMAIN w.list : g[w.list[i]] # {}}
       IN  IF hits = {} THEN {} ELSE g[w.list[Min(hits)]]

\* It is the entry of one of its parts, or what the document has itself;
LEMMA FoundIn ==
  ASSUME NEW v, Document(v), NEW w \in Documents(v), NEW g
  PROVE  /\ \A h \in Found(g, w) : h \in HashIn(w) \/ \E x \in Children(w) : h \in g[x]
         /\ Found(g, w) = {} => \A x \in Children(w) : g[x] = {}
         /\ IsMap(w) /\ Found(g, w) = {} => HashIn(w) = {}
<1>0. IsText(w) => Children(w) = {}
  BY DEF Children
<1>1. CASE IsText(w)
  <2>1. Found(g, w) = {} /\ ~IsMap(w)
    BY <1>1, Parts DEF Found
  <2> QED BY <1>0, <1>1, <2>1
<1>3. CASE ~IsText(w) /\ IsMap(w)
  <2>1. Found(g, w) = IF HashIn(w) # {} THEN HashIn(w) ELSE UNION {g[x] : x \in Children(w)}
    BY <1>3 DEF Found
  <2> QED BY <2>1
<1>2. CASE ~IsText(w) /\ ~IsMap(w)
  <2> DEFINE hits == {i \in DOMAIN w.list : g[w.list[i]] # {}}
  <2>1. /\ w.list \in [1 .. Len(w.list) -> Children(w)]
        /\ \A x \in Children(w) : \E i \in DOMAIN w.list : w.list[i] = x
    BY <1>2, Parts
  <2>2. Found(g, w) = IF hits = {} THEN {} ELSE g[w.list[Min(hits)]]
    BY <1>2 DEF Found
  <2>3. hits \subseteq Nat /\ hits \subseteq DOMAIN w.list
    BY <2>1
  <2>4. \A i \in hits : g[w.list[i]] # {} /\ w.list[i] \in Children(w)
    BY <2>1
  <2>5. hits # {} => Min(hits) \in hits
    <3> HIDE DEF hits
    <3> QED BY <2>3, Smallest
  <2>6. hits = {} => \A x \in Children(w) : g[x] = {}
    BY <2>1
  <2> HIDE DEF hits
  <2> QED BY <1>2, <2>2, <2>4, <2>5, <2>6
<1> QED BY <1>1, <1>2, <1>3

\* and it depends on what it gives for the parts alone.
LEMMA FoundByParts ==
  ASSUME NEW v, Document(v), NEW w \in Documents(v),
         NEW g, NEW h, \A x \in Children(w) : g[x] = h[x]
  PROVE  Found(g, w) = Found(h, w)
<1>1. CASE IsText(w) \/ IsMap(w)
  <2>1. {g[x] : x \in Children(w)} = {h[x] : x \in Children(w)}
    OBVIOUS
  <2> QED BY <1>1, <2>1 DEF Found
<1>2. CASE ~IsText(w) /\ ~IsMap(w)
  <2>1. \A i \in DOMAIN w.list : g[w.list[i]] = h[w.list[i]]
    BY <1>2, Parts
  <2>2. {i \in DOMAIN w.list : g[w.list[i]] # {}} = {i \in DOMAIN w.list : h[w.list[i]] # {}}
    BY <2>1
  <2> DEFINE hits == {i \in DOMAIN w.list : h[w.list[i]] # {}}
  <2>3. hits # {} => Min(hits) \in DOMAIN w.list
    <3>1. hits \subseteq Nat /\ hits \subseteq DOMAIN w.list
      BY <1>2, Parts
    <3> HIDE DEF hits
    <3> QED BY <3>1, Smallest
  <2>4. /\ Found(g, w) = IF hits = {} THEN {} ELSE g[w.list[Min(hits)]]
        /\ Found(h, w) = IF hits = {} THEN {} ELSE h[w.list[Min(hits)]]
    BY <1>2, <2>2 DEF Found
  <2> HIDE DEF hits
  <2> QED BY <2>1, <2>3, <2>4
<1> QED BY <1>1, <1>2

\* The search is defined: from the parts nested deepest up.
LEMMA SearchDefined ==
  ASSUME NEW v, Document(v)
  PROVE  \E f : /\ f = [w \in Documents(v) |-> Found(f, w)]
                /\ f[v] = findConfigHashRecursive(v)
<1> DEFINE L == Level(v)
           M == MaxNesting
           D == Documents(v)
           From(k) == UNION {L[i] : i \in k .. M}
           S == {j \in 0 .. M + 1 : \E g : \A w \in From(M + 1 - j) : g[w] = Found(g, w)}
           Search(h) == [w \in D |-> Found(h, w)]
           find == CHOOSE h : h = Search(h)
<1>0. M \in Nat
  BY ANesting
<1>1. /\ v \in D
      /\ \A w \in D : \E n \in 0 .. M : w \in L[n]
      /\ \A n \in 0 .. M : L[n] \subseteq D
      /\ \A n \in 0 .. M : \A w \in L[n] :
              Children(w) # {} => n + 1 \in 0 .. M /\ Children(w) \subseteq L[n + 1]
  BY Nested
<1> HIDE DEF L, M, D
<1>2. 0 \in S
  <2>1. From(M + 1 - 0) = {}
    BY <1>0
  <2> QED BY <1>0, <2>1
<1>3. ASSUME NEW j \in 1 .. M + 1, j - 1 \in S PROVE j \in S
  <2> DEFINE k == M + 1 - j
             deep == From(k)
             deeper == From(k + 1)
  <2>1. k \in 0 .. M /\ M + 1 - (j - 1) = k + 1 /\ j \in 0 .. M + 1
    BY <1>0
  <2>2. PICK g : \A w \in deeper : g[w] = Found(g, w)
    BY <1>3, <2>1
  <2>3. deep \subseteq D /\ deeper \subseteq deep
    BY <1>0, <1>1, <2>1
  <2>4. ASSUME NEW w \in deep PROVE Children(w) \subseteq deeper
    <3>1. PICK i \in k .. M : w \in L[i]
      OBVIOUS
    <3>2. CASE Children(w) = {}
      BY <3>2
    <3>3. CASE Children(w) # {}
      <4>1. i + 1 \in 0 .. M /\ Children(w) \subseteq L[i + 1]
        BY <1>1, <2>1, <3>1, <3>3
      <4>2. i + 1 \in k + 1 .. M
        BY <2>1, <4>1, <1>0
      <4> QED BY <4>1, <4>2
    <3> QED BY <3>2, <3>3
  <2> DEFINE h == [w \in deep |-> IF w \in deeper THEN g[w] ELSE Found(g, w)]
  <2> HIDE DEF deep, deeper, k
  <2>5. ASSUME NEW w \in deep PROVE h[w] = Found(h, w)
    <3>1. \A x \in Children(w) : h[x] = g[x]
      BY <2>3, <2>4
    <3>2. Found(h, w) = Found(g, w)
      <4> HIDE DEF h
      <4> QED BY <2>3, <3>1, FoundByParts DEF D
    <3>3. h[w] = Found(g, w)
      BY <2>2
    <3> QED BY <3>2, <3>3
  <2> HIDE DEF h
  <2>6. \E e : \A w \in deep : e[w] = Found(e, w)
    BY <2>5
  <2> QED BY <2>1, <2>6 DEF deep, k
<1>4. M + 1 \in S
  <2> HIDE DEF S
  <2>1. \A j \in 1 .. M + 1 : j - 1 \in S => j \in S
    BY <1>3
  <2>2. M + 1 \in Nat /\ M + 1 \in 0 .. M + 1
    BY <1>0
  <2>3. 0 .. M + 1 \subseteq S
    BY <1>2, <2>1, <2>2, UpTo, Zenon
  <2> QED BY <2>2, <2>3
<1>5. PICK g : \A w \in From(0) : g[w] = Found(g, w)
  <2>1. M + 1 - (M + 1) = 0
    BY <1>0
  <2> QED BY <1>4, <2>1
<1>6. D \subseteq From(0)
  BY <1>1
<1> HIDE DEF From, S
<1>7. \E h : h = Search(h)
  <2> DEFINE h == [w \in D |-> g[w]]
  <2>1. ASSUME NEW w \in D PROVE h[w] = Found(h, w)
    <3>1. \A x \in Children(w) : h[x] = g[x]
      BY Nested DEF D
    <3>2. Found(h, w) = Found(g, w)
      <4> HIDE DEF h
      <4> QED BY <3>1, FoundByParts DEF D
    <3>3. h[w] = g[w] /\ g[w] = Found(g, w)
      BY <1>5, <1>6
    <3> QED BY <3>2, <3>3
  <2>2. h = Search(h)
    BY <2>1
  <2> QED BY <2>2
<1>8. find = Search(find)
  BY <1>7
<1>9. find[v] = findConfigHashRecursive(v)
  BY DEF findConfigHashRecursive, Found, D
<1> QED BY <1>8, <1>9 DEF D

\* The search finds a hash if any part of the document has one, at any depth, and finds
\* nothing else.
LEMMA SearchFinds ==
  ASSUME NEW v, Document(v)
  PROVE  /\ \A h \in findConfigHashRecursive(v) : \E w \in Documents(v) : h \in HashIn(w)
         /\ (\E w \in Documents(v) : IsMap(w) /\ HashIn(w) # {}) => findConfigHashRecursive(v) # {}
<1> DEFINE L == Level(v)
           M == MaxNesting
           D == Documents(v)
<1>0. M \in Nat
  BY ANesting
<1>1. /\ v \in D
      /\ \A w \in D : Children(w) \subseteq D
      /\ \A w \in D : \E n \in 0 .. M : w \in L[n]
      /\ \A n \in 0 .. M : L[n] \subseteq D
      /\ \A n \in 0 .. M : \A w \in L[n] :
              Children(w) # {} => n + 1 \in 0 .. M /\ Children(w) \subseteq L[n + 1]
  BY Nested
<1>2. L[0] = {v} /\ \A n \in 1 .. M : L[n] = Below(L[n - 1])
  BY Levels
<1>3. PICK f : f = [w \in D |-> Found(f, w)] /\ f[v] = findConfigHashRecursive(v)
  BY SearchDefined
<1>4. \A w \in D : f[w] = Found(f, w)
  BY <1>3
<1>5. ASSUME NEW w \in D
      PROVE  /\ \A h \in f[w] : h \in HashIn(w) \/ \E x \in Children(w) : h \in f[x]
             /\ f[w] = {} => \A x \in Children(w) : f[x] = {}
             /\ IsMap(w) /\ f[w] = {} => HashIn(w) = {}
  <2>1. f[w] = Found(f, w)
    BY <1>4
  <2> QED BY <2>1, FoundIn DEF D
<1> HIDE DEF L, M, D
<1>6. ASSUME f[v] = {} PROVE \A w \in D : f[w] = {}
  <2> DEFINE S == {n \in 0 .. M : \A w \in L[n] : f[w] = {}}
  <2>1. 0 \in S
    BY <1>0, <1>2, <1>6
  <2>2. ASSUME NEW n \in 1 .. M, n - 1 \in S PROVE n \in S
    <3>1. n \in 0 .. M /\ n - 1 \in 0 .. M
      BY <1>0
    <3>2. \A w \in L[n] : \E u \in L[n - 1] : w \in Children(u)
      BY <1>2 DEF Below
    <3>3. \A u \in L[n - 1] : u \in D /\ f[u] = {}
      BY <1>1, <2>2, <3>1
    <3> QED BY <1>5, <3>1, <3>2, <3>3
  <2> HIDE DEF S
  <2>3. 0 .. M \subseteq S
    <3>1. \A n \in 1 .. M : n - 1 \in S => n \in S
      BY <2>2
    <3> QED BY <1>0, <2>1, <3>1, UpTo, Zenon
  <2> QED BY <1>1, <2>3 DEF S
<1>7. \A h \in f[v] : \E w \in D : h \in HashIn(w)
  <2> DEFINE Has(h) == \E w \in D : h \in HashIn(w)
             S == {j \in 0 .. M + 1 : \A i \in M + 1 - j .. M : \A w \in L[i] :
                     \A h \in f[w] : Has(h)}
  <2>1. 0 \in S
    BY <1>0
  <2>2. ASSUME NEW j \in 1 .. M + 1, j - 1 \in S PROVE j \in S
    <3> SUFFICES ASSUME NEW i \in M + 1 - j .. M, NEW w \in L[i], NEW h \in f[w] PROVE Has(h)
      BY <1>0
    <3>1. i \in 0 .. M /\ w \in D
      BY <1>0, <1>1
    <3>2. CASE h \in HashIn(w)
      BY <3>1, <3>2
    <3>3. CASE h \notin HashIn(w)
      <4>1. PICK x \in Children(w) : h \in f[x]
        BY <1>5, <3>1, <3>3
      <4>2. i + 1 \in 0 .. M /\ x \in L[i + 1]
        BY <1>1, <3>1, <4>1
      <4>3. i + 1 \in M + 1 - (j - 1) .. M
        BY <1>0, <4>2
      <4> HIDE DEF Has
      <4> QED BY <2>2, <4>1, <4>2, <4>3
    <3> QED BY <3>2, <3>3
  <2> HIDE DEF S
  <2>3. M + 1 \in S
    <3>1. \A j \in 1 .. M + 1 : j - 1 \in S => j \in S
      BY <2>2
    <3>2. M + 1 \in Nat /\ M + 1 \in 0 .. M + 1
      BY <1>0
    <3>3. 0 .. M + 1 \subseteq S
      BY <2>1, <3>1, <3>2, UpTo, Zenon
    <3> QED BY <3>2, <3>3
  <2>4. 0 \in M + 1 - (M + 1) .. M
    BY <1>0
  <2>5. \A h \in f[v] : Has(h)
    BY <1>2, <2>3, <2>4 DEF S
  <2> QED BY <2>5
<1> QED BY <1>3, <1>5, <1>6, <1>7 DEF D

\* The texts among some documents, trimmed.
TextsOf(documents) == {trim(w.text) : w \in {d \in documents : IsText(d) /\ trim(d.text) # Empty}}

\* A lookup goes from member to member.
LEMMA Reached ==
  ASSUME NEW v, NEW path, Len(path) \in Nat
  PROVE  \E f : /\ f[0] = {v}
                /\ \A i \in 1 .. Len(path) : f[i] = Member(f[i - 1], path[i])
                /\ Lookup(v, path) = TextsOf(f[Len(path)])
<1> DEFINE n == Len(path)
           Step(h) == [i \in 0 .. n |-> IF i = 0 THEN {v} ELSE Member(h[i - 1], path[i])]
           whole == CHOOSE h : h = Step(h)
           S == {k \in 0 .. n : \E f : f[0] = {v} /\ \A i \in 1 .. k : f[i] = Member(f[i - 1], path[i])}
<1>6. Lookup(v, path) = TextsOf(whole[n])
  BY DEF Lookup, TextsOf
<1>0. n \in Nat
  OBVIOUS
<1> HIDE DEF n
<1>1. 0 \in S
  <2> DEFINE f == [i \in 0 .. 0 |-> {v}]
  <2>1. f[0] = {v} /\ \A i \in 1 .. 0 : f[i] = Member(f[i - 1], path[i])
    OBVIOUS
  <2>2. 0 \in 0 .. n
    BY <1>0
  <2> HIDE DEF f
  <2> QED BY <2>1, <2>2, Zenon
<1>2. ASSUME NEW k \in 1 .. n, k - 1 \in S PROVE k \in S
  <2>1. PICK f : f[0] = {v} /\ \A i \in 1 .. k - 1 : f[i] = Member(f[i - 1], path[i])
    BY <1>2
  <2> DEFINE g == [i \in 0 .. k |-> IF i = k THEN Member(f[k - 1], path[k]) ELSE f[i]]
  <2>2. k \in Nat /\ k > 0 /\ k \in 0 .. n
    BY <1>0
  <2>3. g[0] = {v}
    BY <2>1, <2>2
  <2>4. ASSUME NEW i \in 1 .. k PROVE g[i] = Member(g[i - 1], path[i])
    <3>1. i \in 0 .. k /\ i - 1 \in 0 .. k /\ i - 1 # k
      BY <2>2
    <3>2. g[i - 1] = f[i - 1]
      BY <3>1
    <3>3. CASE i = k
      BY <3>1, <3>2, <3>3
    <3>4. CASE i # k
      <4>1. i \in 1 .. k - 1
        BY <2>2, <3>4
      <4>2. g[i] = f[i]
        BY <3>1, <3>4
      <4> QED BY <2>1, <3>2, <4>1, <4>2
    <3> QED BY <3>3, <3>4
  <2> HIDE DEF g
  <2> QED BY <2>2, <2>3, <2>4, Zenon
<1> HIDE DEF S
<1>3. n \in S
  <2>1. 0 .. n \subseteq S
    <3>1. \A k \in 1 .. n : k - 1 \in S => k \in S
      BY <1>2
    <3> QED BY <1>0, <1>1, <3>1, UpTo, Zenon
  <2>2. n \in 0 .. n
    BY <1>0
  <2> QED BY <2>1, <2>2
<1>4. PICK f : f[0] = {v} /\ \A i \in 1 .. n : f[i] = Member(f[i - 1], path[i])
  BY <1>3 DEF S
<1>5. \E h : h = Step(h)
  <2> DEFINE g == [i \in 0 .. n |-> f[i]]
  <2>1. ASSUME NEW i \in 0 .. n PROVE g[i] = IF i = 0 THEN {v} ELSE Member(g[i - 1], path[i])
    <3>1. CASE i = 0
      BY <1>4, <3>1
    <3>2. CASE i # 0
      <4>1. i \in 1 .. n /\ i - 1 \in 0 .. n
        BY <1>0, <3>2
      <4>2. g[i] = f[i] /\ g[i - 1] = f[i - 1]
        BY <4>1
      <4> QED BY <1>4, <3>2, <4>1, <4>2
    <3> QED BY <3>1, <3>2
  <2>2. g = Step(g)
    BY <2>1
  <2> QED BY <2>2
<1>7. whole = Step(whole)
  BY <1>5
<1> HIDE DEF whole
<1>8. \A i \in 0 .. n : whole[i] = IF i = 0 THEN {v} ELSE Member(whole[i - 1], path[i])
  BY <1>7
<1>9. 0 \in 0 .. n /\ \A i \in 1 .. n : i \in 0 .. n /\ i # 0
  BY <1>0
<1>10. whole[0] = {v} /\ \A i \in 1 .. n : whole[i] = Member(whole[i - 1], path[i])
  BY <1>8, <1>9
<1> QED BY <1>6, <1>10 DEF n

\* One name leads to a member.
LEMMA LookupName ==
  ASSUME NEW w, NEW k
  PROVE  Lookup(w, <<k>>) = TextsOf(Member({w}, k))
<1> DEFINE path == <<k>>
<1>1. Len(path) = 1 /\ path[1] = k /\ 1 \in 1 .. 1 /\ 1 - 1 = 0 /\ Len(path) \in Nat
  OBVIOUS
<1> HIDE DEF path
<1>2. PICK f : /\ f[0] = {w}
               /\ \A i \in 1 .. Len(path) : f[i] = Member(f[i - 1], path[i])
               /\ Lookup(w, path) = TextsOf(f[Len(path)])
  BY <1>1, Reached
<1>3. f[1] = Member(f[0], k)
  BY <1>1, <1>2
<1> QED BY <1>1, <1>2, <1>3 DEF path

\* Only a map has members, and what a lookup finds is not blank.
LEMMA HashOfMap ==
  ASSUME NEW w, NEW h \in HashIn(w)
  PROVE  IsMap(w) /\ h # Empty
<1>1. PICK k : h \in TextsOf(Member({w}, k))
  BY LookupName DEF HashIn
<1> QED BY <1>1 DEF TextsOf, Member

\* A longer path leads to a part of the document that has a member of the last name.
LEMMA LookupPart ==
  ASSUME NEW v, Document(v), NEW path, Len(path) \in Nat, Len(path) # 0,
         NEW h \in Lookup(v, path)
  PROVE  \E w \in Documents(v) : h \in Lookup(w, <<path[Len(path)]>>)
<1> DEFINE n == Len(path)
           k == path[n]
           D == Documents(v)
<1>1. PICK f : /\ f[0] = {v}
               /\ \A i \in 1 .. n : f[i] = Member(f[i - 1], path[i])
               /\ Lookup(v, path) = TextsOf(f[n])
  BY Reached
<1>2. n \in Nat /\ n \in 1 .. n /\ n - 1 \in 0 .. n
  OBVIOUS
<1>3. v \in D /\ \A w \in D : Children(w) \subseteq D
  BY Nested
<1>4. \A w \in D : IsMap(w) => ~IsText(w)
  BY Parts
<1> HIDE DEF n, D
<1>5. ASSUME NEW documents \in SUBSET D, NEW name PROVE Member(documents, name) \subseteq D
  <2>1. ASSUME NEW w \in documents, IsMap(w), name \in DOMAIN w.map PROVE w.map[name] \in D
    <3>1. w.map[name] \in Children(w)
      BY <1>4, <2>1 DEF Children, Range
    <3> QED BY <1>3, <3>1
  <2> QED BY <2>1 DEF Member
<1> DEFINE S == {i \in 0 .. n : f[i] \subseteq D}
<1>6. 0 .. n \subseteq S
  <2>1. 0 \in S
    BY <1>1, <1>2, <1>3
  <2>2. \A i \in 1 .. n : i - 1 \in S => i \in S
    BY <1>1, <1>2, <1>5
  <2> HIDE DEF S
  <2> QED BY <1>2, <2>1, <2>2, UpTo, Zenon
<1>7. f[n - 1] \subseteq D /\ f[n] = Member(f[n - 1], k)
  BY <1>1, <1>2, <1>6
<1>8. PICK x \in Member(f[n - 1], k) : IsText(x) /\ trim(x.text) # Empty /\ h = trim(x.text)
  BY <1>1, <1>7 DEF TextsOf
<1>9. PICK w \in f[n - 1] : IsMap(w) /\ k \in DOMAIN w.map /\ x = w.map[k]
  BY <1>8 DEF Member
<1>10. x \in Member({w}, k)
  BY <1>9 DEF Member
<1>11. h \in TextsOf(Member({w}, k))
  BY <1>8, <1>10 DEF TextsOf
<1>12. h \in Lookup(w, <<k>>)
  BY <1>11, LookupName
<1> QED BY <1>7, <1>9, <1>12 DEF n, D

\* Of an answer of the gateway, however it is nested, a patch gets a hash if there is one
\* in any part of it, and nothing that is not one: neither the paths nor the search miss
\* one or take another text for it (extractConfigHash, tools.go:351).
THEOREM HashFound ==
  ASSUME NEW answer \in HashAnswers
  PROVE  /\ extractConfigHash(answer) # {} <=> \E w \in Documents(answer) : HashIn(w) # {}
         /\ \A h \in extractConfigHash(answer) :
              h # Empty /\ \E w \in Documents(answer) : h \in HashIn(w)
<1> DEFINE paths == << <<"payload", "hash">>, <<"data", "payload", "hash">>,
                       <<"result", "payload", "hash">>, <<"hash">>, <<"data", "hash">>,
                       <<"result", "hash">> >>
           hits  == {i \in DOMAIN paths : Lookup(answer, paths[i]) # {}}
           D     == Documents(answer)
<1>1. Document(answer)
  BY ASetup
<1>2. extractConfigHash(answer) = IF hits # {} THEN Lookup(answer, paths[Min(hits)])
                                  ELSE findConfigHashRecursive(answer)
  BY DEF extractConfigHash
<1>3. DOMAIN paths = 1 .. 6
  OBVIOUS
<1>4. ASSUME NEW i \in 1 .. 6
      PROVE  Len(paths[i]) \in Nat /\ Len(paths[i]) # 0 /\ paths[i][Len(paths[i])] = "hash"
  <2>1. i = 1 \/ i = 2 \/ i = 3 \/ i = 4 \/ i = 5 \/ i = 6
    OBVIOUS
  <2>2. /\ paths[1] = <<"payload", "hash">> /\ paths[2] = <<"data", "payload", "hash">>
        /\ paths[3] = <<"result", "payload", "hash">> /\ paths[4] = <<"hash">>
        /\ paths[5] = <<"data", "hash">> /\ paths[6] = <<"result", "hash">>
    OBVIOUS
  <2>3. PICK path : path = paths[i]
    OBVIOUS
  <2>4. \/ path = <<"hash">>
        \/ \E a : path = <<a, "hash">>
        \/ \E a, b : path = <<a, b, "hash">>
    <3> HIDE DEF paths
    <3> QED BY <2>1, <2>2, <2>3
  <2>5. Len(path) \in Nat /\ Len(path) # 0 /\ path[Len(path)] = "hash"
    <3>1. CASE path = <<"hash">>
      BY <3>1
    <3>2. ASSUME NEW a, path = <<a, "hash">>
          PROVE  Len(path) \in Nat /\ Len(path) # 0 /\ path[Len(path)] = "hash"
      BY <3>2
    <3>3. ASSUME NEW a, NEW b, path = <<a, b, "hash">>
          PROVE  Len(path) \in Nat /\ Len(path) # 0 /\ path[Len(path)] = "hash"
      BY <3>3
    <3> QED BY <2>4, <3>1, <3>2, <3>3
  <2> QED BY <2>3, <2>5
<1> HIDE DEF paths
<1>5. ASSUME NEW i \in 1 .. 6, NEW h \in Lookup(answer, paths[i])
      PROVE  \E w \in D : h \in HashIn(w)
  <2>1. PICK w \in D : h \in Lookup(w, <<"hash">>)
    <3>1. PICK w \in D : h \in Lookup(w, <<paths[i][Len(paths[i])]>>)
      BY <1>1, <1>4, LookupPart
    <3> QED BY <1>4, <3>1
  <2> QED BY <2>1 DEF HashIn, HashNames
<1>6. hits # {} => Min(hits) \in hits
  <2>1. hits \subseteq Nat
    BY <1>3
  <2> HIDE DEF hits
  <2> QED BY <2>1, Smallest
<1>7. \A w \in D : HashIn(w) # {} => IsMap(w)
  BY HashOfMap
<1>8. /\ \A h \in findConfigHashRecursive(answer) : \E w \in D : h \in HashIn(w)
      /\ (\E w \in D : IsMap(w) /\ HashIn(w) # {}) => findConfigHashRecursive(answer) # {}
  BY <1>1, SearchFinds
<1> HIDE DEF D
<1>9. ASSUME NEW h \in extractConfigHash(answer) PROVE \E w \in D : h \in HashIn(w)
  <2>1. CASE hits # {}
    <3>1. Min(hits) \in 1 .. 6
      BY <1>3, <1>6, <2>1
    <3>2. h \in Lookup(answer, paths[Min(hits)])
      BY <1>2, <2>1
    <3> HIDE DEF hits
    <3> QED BY <1>5, <3>1, <3>2
  <2>2. CASE hits = {}
    BY <1>2, <1>8, <2>2
  <2> QED BY <2>1, <2>2
<1>10. ASSUME NEW w \in D, HashIn(w) # {} PROVE extractConfigHash(answer) # {}
  <2>1. findConfigHashRecursive(answer) # {}
    BY <1>7, <1>8, <1>10
  <2>2. hits # {} => Lookup(answer, paths[Min(hits)]) # {}
    BY <1>6
  <2> HIDE DEF hits
  <2> QED BY <1>2, <2>1, <2>2
<1>11. \A h \in extractConfigHash(answer) : h # Empty
  BY <1>9, HashOfMap
<1> QED BY <1>9, <1>10, <1>11 DEF D

\* Does every answer have a hash, somewhere.
Hashed == \A answer \in HashAnswers : \E w \in Documents(answer) : HashIn(w) # {}

\* Then one is found in any of them.
LEMMA HashesNamed ==
  ASSUME Hashed
  PROVE  \A found \in NamedHashes : found # {}
BY HashFound DEF NamedHashes, Hashed

\* Once there is an answer, and ever after, a patch knows of a configuration.
Sighted(c) ==
  op[c] = "config" =>
    /\ pc[c] = "hashing" /\ wire[c] = "ok" => seen[c] # <<>>
    /\ pc[c] \in {"ready", "asking"} /\ wants[c] = <<"patch">> => seen[c] # <<>>

\* A patch is sent with what was read: an answer came, and it had a hash.
LEMMA StepSighted ==
  ASSUME Hashed, SetupType, NEW c \in Calls, Place(c), Sighted(c), CallActs(c)
  PROVE  Sighted(c)'
<1> USE DEF SetupType, Place, Sighted, Ops, Keyed, Active, Ended, SetupOps, SetupPc, CommandPc,
            Base, Local, Failing, Pass, Goto, Fail, ForgetEnded, Forget,
            vars, runtimeVars, history, callVars, gatewayVars
<1>1. CASE SpawnStarts(c)
  BY <1>1 DEF SpawnStarts, StartSpawn
<1>2. CASE SetupStarts(c)
  <2>1. CASE op' = [op EXCEPT ![c] = "approve"]
    BY <2>1
  <2>2. CASE op' # [op EXCEPT ![c] = "approve"]
    <3>1. PICK t \in ConfigTags, given \in {<<>>, <<config>>} :
            /\ wants' = [wants EXCEPT ![c] = extractConfigAction(t)]
            /\ seen' = [seen EXCEPT ![c] = given]
            /\ Goto(c, IF given = <<>> /\ extractConfigAction(t) = <<"patch">>
                       THEN "hash" ELSE "ready")
      <4> HIDE DEF SetupType, Place, Sighted, Goto
      <4> QED BY <1>2, <2>2 DEF SetupStarts
    <3>2. wants'[c] = extractConfigAction(t) /\ seen'[c] = given
      BY <3>1
    <3>3. CASE given = <<>> /\ extractConfigAction(t) = <<"patch">>
      BY <3>1, <3>3
    <3>4. CASE given # <<>> \/ extractConfigAction(t) # <<"patch">>
      BY <3>1, <3>2, <3>4
    <3> QED BY <3>3, <3>4
  <2> QED BY <2>1, <2>2
<1>3. CASE StartsOther(c)
  BY <1>3 DEF StartsOther, Start
<1>4. CASE SendRequest(c)
  BY <1>4 DEF SendRequest, Ask
<1>5. CASE Base(c, ReadKey(c))
  BY <1>5 DEF ReadKey
<1>6. CASE Base(c, Checkpoint(c))
  BY <1>6 DEF Checkpoint
<1>7. CASE Base(c, StoreSession(c))
  BY <1>7 DEF StoreSession
<1>8. CASE Base(c, RereadSession(c))
  BY <1>8 DEF RereadSession
<1>9. CASE Base(c, ClearSession(c))
  BY <1>9 DEF ClearSession
<1>10. CASE Base(c, Hear(c))
  BY <1>10 DEF Hear
<1>11. CASE Base(c, Tag(c))
  BY <1>11 DEF Tag
<1>12. CASE Base(c, HearSetup(c))
  BY <1>12 DEF HearSetup
<1>13. CASE Base(c, Timeout(c))
  BY <1>13 DEF Timeout
<1>14. CASE Base(c, HearError(c))
  BY <1>14 DEF HearError
<1>15. CASE SetupKey(c)
  BY <1>15 DEF SetupKey, StoreKey
<1>16. CASE runSecretsReload(c)
  BY <1>16 DEF runSecretsReload
<1>17. CASE ReloadEnds(c)
  BY <1>17 DEF ReloadEnds
<1>18. CASE SetupModel(c)
  BY <1>18 DEF SetupModel
<1>19. CASE SetupTelegram(c)
  BY <1>19 DEF SetupTelegram, Serves
<1>20. CASE SetupDone(c)
  BY <1>20 DEF SetupDone, Serves
<1>21. CASE AskHash(c)
  BY <1>21 DEF AskHash
<1>22. CASE HearHash(c)
  <2>1. pc' = [pc EXCEPT ![c] = "ready"] /\ (op[c] = "config" => seen[c] # <<>>)
    BY <1>22 DEF HearHash
  <2>2. \A found \in NamedHashes : found # {}
    BY HashesNamed
  <2>4. seen' = seen
    BY <1>22, <2>2 DEF HearHash
  <2> QED BY <1>22, <2>1, <2>4 DEF HearHash
<1>23. CASE HashFails(c)
  BY <1>23 DEF HashFails
<1>24. CASE HearSetupCall(c)
  BY <1>24 DEF HearSetupCall
<1>25. CASE runPairingApprove(c)
  BY <1>25 DEF runPairingApprove
<1>26. CASE PairingReturns(c)
  BY <1>26 DEF PairingReturns
<1>27. CASE AskApprove(c)
  BY <1>27 DEF AskApprove
<1>28. CASE Expire(c)
  BY <1>28 DEF Expire
<1>29. CASE CommandBlocks(c)
  BY <1>29 DEF CommandBlocks
<1>30. CASE CommandApproves(c)
  BY <1>30 DEF CommandApproves
<1>31. CASE CommandEnds(c)
  BY <1>31 DEF CommandEnds
<1>32. CASE HolderEnds(c)
  BY <1>32 DEF HolderEnds
<1>33. CASE GatewayReads(c)
  <2>1. pc' = pc /\ op' = op /\ wants' = wants
    BY <1>33 DEF GatewayReads
  <2>2. CASE wire' = [wire EXCEPT ![c] = "error"] /\ seen' = seen
    BY <2>1, <2>2
  <2>3. CASE seen' = IF pc[c] = "hashing" THEN [seen EXCEPT ![c] = <<config>>] ELSE seen
    <3>1. CASE pc[c] = "hashing"
      <4>1. seen'[c] = <<config>>
        BY <2>3, <3>1
      <4>2. <<config>> # <<>>
        BY GivenHash
      <4> QED BY <2>1, <3>1, <4>1, <4>2
    <3>2. CASE pc[c] # "hashing"
      BY <2>1, <2>3, <3>2
    <3> QED BY <3>1, <3>2
  <2> QED BY <1>33, <2>2, <2>3 DEF GatewayReads
<1>34. CASE GatewayActs(c)
  BY <1>34 DEF GatewayActs, Gateway, GatewayCreates, GatewayCloses, GatewayServes, GatewayConfigures
<1> QED
  BY <1>1, <1>2, <1>3, <1>4, <1>5, <1>6, <1>7, <1>8, <1>9, <1>10, <1>11, <1>12, <1>13, <1>14, <1>15, <1>16, <1>17, <1>18, <1>19, <1>20, <1>21, <1>22, <1>23, <1>24, <1>25, <1>26, <1>27, <1>28, <1>29, <1>30, <1>31, <1>32, <1>33, <1>34
     DEF CallActs, SetupCallStep, BaseStep, RuntimeStep, SpawnStep, ApplyStep, External, Base

\* So does every step of the agent and of those around it.
LEMMA SightedNext ==
  ASSUME Hashed, SetupInv, \A c \in Calls : Sighted(c), [SetupSystemNext]_allVars
  PROVE  \A c \in Calls : Sighted(c)'
<1> SUFFICES ASSUME NEW c \in Calls PROVE Sighted(c)'
  OBVIOUS
<1>1. CASE CallActs(c)
  BY <1>1, StepSighted DEF SetupInv
<1>2. ASSUME NEW d \in Calls, d # c, CallActs(d) PROVE Sighted(c)'
  <2>1. Own(c)' = Own(c)
    BY <1>2, SetupStepType DEF SetupInv
  <2> QED BY <2>1 DEF Own, Sighted
<1>3. CASE Restore /\ UNCHANGED setupVars
  BY <1>3 DEF Restore, setupVars, callVars, gatewayVars, Sighted
<1>4. CASE SetupCrash
  <2>1. pc'[c] \in {"idle", "lost"}
    BY <1>4 DEF SetupCrash, Crash
  <2> QED BY <2>1 DEF Sighted
<1>5. CASE UserEdits
  BY <1>5 DEF UserEdits, vars, runtimeVars, callVars, gatewayVars, Sighted
<1>6. CASE UNCHANGED allVars
  BY <1>6 DEF allVars, setupVars, vars, runtimeVars, callVars, gatewayVars, Sighted
<1> QED BY <1>1, <1>2, <1>3, <1>4, <1>5, <1>6 DEF SetupSystemNext, CallActs

\* With a gateway whose every answer has the hash in it, wherever, no patch is blind: it
\* takes effect on the configuration that the call read, or not at all (setup.go:216).
THEOREM NeverBlind ==
  ASSUME Hashed
  PROVE  SetupSpec =>
           [][\A c \in Calls :
                op[c] = "config" /\ wants[c] = <<"patch">> /\ "patch" \in did'[c] \ did[c]
                  => seen[c] = <<config>>]_allVars
<1> DEFINE SInv == SetupInv /\ \A c \in Calls : Sighted(c)
<1>1. SetupInit => SInv
  <2> SUFFICES ASSUME SetupInit PROVE SInv
    OBVIOUS
  <2>1. \A c \in Calls : Sighted(c)
    BY DEF SetupInit, Init, Sighted
  <2> QED BY <2>1, SetupInitInv
<1>2. SInv /\ [SetupSystemNext]_allVars => SInv'
  BY SetupNextInv, SightedNext
<1>3. ASSUME SInv, [SetupSystemNext]_allVars, NEW c \in Calls,
             op[c] = "config", wants[c] = <<"patch">>, "patch" \in did'[c] \ did[c]
      PROVE  seen[c] = <<config>>
  <2>1. CallActs(c)
    BY <1>3, OnlyOwnSteps
  <2>2. pc[c] = "asking" /\ (seen[c] # <<>> => seen[c] = <<config>>)
    BY <1>3, <2>1, PatchTakes DEF SetupInv
  <2> QED BY <1>3, <2>2 DEF Sighted
<1>4. SInv /\ [SetupSystemNext]_allVars =>
        [\A c \in Calls :
           op[c] = "config" /\ wants[c] = <<"patch">> /\ "patch" \in did'[c] \ did[c]
             => seen[c] = <<config>>]_allVars
  BY <1>3
<1> QED BY <1>1, <1>2, <1>4, PTL DEF SetupSpec

-----------------------------------------------------------------------------
(* Providers and models in the tags of a spawn.                            *)

\* Letters are made small once.
LEMMA LowerTwice ==
  ASSUME NEW Words, "p" \in Words, NEW t \in Seq(Words)
  PROVE  /\ lower(t) \in Seq(Words)
         /\ Len(lower(t)) = Len(t)
         /\ \A i \in 1 .. Len(t) : lower(t)[i] = Blank <=> t[i] = Blank
         /\ lower(lower(t)) = lower(t)
<1>1. /\ lower(t) \in Seq(Words)
      /\ DOMAIN lower(t) = 1 .. Len(t)
      /\ \A i \in 1 .. Len(t) : lower(t)[i] = IF t[i] = "P" THEN "p" ELSE t[i]
  <2>1. DOMAIN t = 1 .. Len(t) /\ Len(t) \in Nat
    OBVIOUS
  <2>2. lower(t) = [i \in 1 .. Len(t) |-> IF t[i] = "P" THEN "p" ELSE t[i]]
    BY <2>1 DEF lower
  <2>3. \A i \in 1 .. Len(t) : (IF t[i] = "P" THEN "p" ELSE t[i]) \in Words
    OBVIOUS
  <2>4. lower(t) \in Seq(Words)
    BY <2>1, <2>2, <2>3
  <2> QED BY <2>2, <2>4
<1>2. Len(lower(t)) = Len(t)
  BY <1>1
<1>3. \A i \in 1 .. Len(t) : lower(t)[i] = Blank <=> t[i] = Blank
  BY <1>1 DEF Blank
<1>4. lower(lower(t)) = [i \in 1 .. Len(t) |-> lower(t)[i]]
  <2>1. lower(lower(t)) = [i \in 1 .. Len(t) |-> IF lower(t)[i] = "P" THEN "p" ELSE lower(t)[i]]
    BY <1>1 DEF lower
  <2>2. \A i \in 1 .. Len(t) : lower(t)[i] # "P"
    BY <1>1
  <2> QED BY <2>1, <2>2
<1> QED BY <1>1, <1>2, <1>3, <1>4

\* A word alone is a text of one word.
LEMMA OneWord ==
  ASSUME NEW Words, NEW x \in Words
  PROVE  <<x>> \in Seq(Words) /\ Len(<<x>>) = 1 /\ <<x>>[1] = x
OBVIOUS

\* A provider, a slash and a name are the model of that provider.
LEMMA PrefixedModel ==
  ASSUME NEW Words, "/" \in Words, NEW p \in Seq(Words), Len(p) > 0, p[1] # Blank, p[Len(p)] # Blank, lower(p) = p,
         \A i \in 1 .. Len(p) : p[i] # "/",
         NEW n \in Seq(Words), Len(n) > 0, n[Len(n)] # Blank
  PROVE  splitModelName(p \o <<"/">> \o n).provider = p
<1> DEFINE w == p \o <<"/">> \o n
           slashes == {i \in DOMAIN w : w[i] = "/"}
<1>1. /\ w \in Seq(Words)
      /\ Len(w) = Len(p) + 1 + Len(n)
      /\ \A i \in 1 .. Len(p) : w[i] = p[i]
      /\ w[Len(p) + 1] = "/"
      /\ w[Len(w)] = n[Len(n)]
  <2>1. <<"/">> \in Seq(Words) /\ Len(<<"/">>) = 1 /\ <<"/">>[1] = "/"
    BY OneWord
  <2>2. /\ p \o <<"/">> \in Seq(Words)
        /\ Len(p \o <<"/">>) = Len(p) + 1
        /\ \A i \in 1 .. Len(p) : (p \o <<"/">>)[i] = p[i]
        /\ (p \o <<"/">>)[Len(p) + 1] = "/"
    BY <2>1
  <2> QED BY <2>2
<1> HIDE DEF w
<1>2. trim(w) = w
  <2>1. Len(p) \in Nat /\ Len(n) \in Nat
    OBVIOUS
  <2>2. Len(w) > 0 /\ w[1] = p[1]
    BY <1>1, <2>1
  <2> QED BY <1>1, <2>2, TrimSolid
<1>3. Len(p) + 1 \in slashes /\ slashes \subseteq Nat /\ slashes # {}
  <2>1. DOMAIN w = 1 .. Len(w) /\ Len(w) \in Nat
    BY <1>1
  <2>2. Len(p) + 1 \in 1 .. Len(w)
    <3>1. Len(p) \in Nat /\ Len(n) \in Nat
      OBVIOUS
    <3> QED BY <1>1, <3>1
  <2>3. slashes \subseteq Nat
    BY <2>1
  <2> QED BY <1>1, <2>1, <2>2, <2>3
<1>4. Min(slashes) \in slashes /\ \A y \in slashes : Min(slashes) <= y
  BY <1>3, Smallest
<1>5. \A i \in slashes : i \in Nat /\ i > Len(p)
  <2>1. \A i \in slashes : i \in 1 .. Len(w) /\ w[i] = "/"
    BY <1>1
  <2>2. Len(p) \in Nat /\ Len(w) \in Nat
    BY <1>1
  <2> HIDE DEF slashes
  <2> QED BY <1>1, <2>1, <2>2
<1>6. Min(slashes) = Len(p) + 1
  <2> HIDE DEF slashes
  <2>1. Min(slashes) \in Nat /\ Min(slashes) > Len(p) /\ Len(p) \in Nat
    BY <1>4, <1>5
  <2>2. Min(slashes) <= Len(p) + 1
    BY <1>3, <1>4
  <2> QED BY <2>1, <2>2
<1>7. SubSeq(w, 1, Len(p)) = p
  <2>1. SubSeq(w, 1, Len(p)) = [i \in 1 .. Len(p) |-> w[i]]
    BY <1>1
  <2> QED BY <1>1, <2>1
<1>8. splitModelName(w).provider = normalizeProviderName(SubSeq(w, 1, Min(slashes) - 1))
  BY <1>2, <1>3 DEF splitModelName
<1>9. Min(slashes) - 1 = Len(p)
  BY <1>6
<1>10. normalizeProviderName(p) = p
  BY TrimSolid DEF normalizeProviderName
<1> QED BY <1>7, <1>8, <1>9, <1>10 DEF w

\* The name of a model is a text, trimmed.
LEMMA NameTrimmed ==
  ASSUME NEW m \in Seq(STRING)
  PROVE  \E u \in Seq(STRING) : splitModelName(m).name = trim(u)
<1> DEFINE t == trim(m)
           slashes == {i \in DOMAIN t : t[i] = "/"}
<1>1. t \in Seq(STRING)
  BY TrimEnds
<1>2. CASE slashes = {}
  BY <1>2 DEF splitModelName
<1>3. CASE slashes # {}
  <2>1. Min(slashes) \in slashes
    <3> HIDE DEF t
    <3>1. slashes \subseteq Nat
      BY <1>1
    <3> QED BY <1>3, <3>1, Smallest
  <2>2. SubSeq(t, Min(slashes) + 1, Len(t)) \in Seq(STRING)
    <3>1. Min(slashes) \in 1 .. Len(t)
      BY <1>1, <2>1
    <3> HIDE DEF t, slashes
    <3> QED BY <1>1, <3>1
  <2>3. splitModelName(m).name = trim(SubSeq(t, Min(slashes) + 1, Len(t)))
    BY <1>3 DEF splitModelName
  <2> QED BY <2>2, <2>3
<1> QED BY <1>2, <1>3

\* The provider of the key is the provider of the model, whichever tag names it.
LEMMA SameProvider ==
  ASSUME NEW tags, \A name \in DOMAIN tags : tags[name] \in Seq(STRING),
         \A i \in DOMAIN extractProviderTagValue(tags) : extractProviderTagValue(tags)[i] # "/",
         splitModelName(extractModelInput(tags)).name # Empty
  PROVE  splitModelName(extractModelName(tags)).provider = extractProviderName(tags)
<1> DEFINE Words == STRING \cup {"p", "/"}
           p == extractProviderTagValue(tags)
           m == extractModelInput(tags)
           n == splitModelName(m).name
<1>1. CASE p = Empty
  BY <1>1 DEF extractProviderName
<1>2. CASE p # Empty
  <2>1. PICK f \in Seq(STRING) : p = lower(trim(f))
    <3>1. DOMAIN <<"provider", "Provider">> \subseteq Nat
      OBVIOUS
    <3> QED BY <3>1, FirstIsTrimmed DEF extractProviderTagValue
  <2>2. trim(f) \in Seq(Words)
    <3>1. f \in Seq(Words)
      BY \A k \in 1 .. Len(f) : f[k] \in Words
    <3> QED BY <3>1, TrimEnds
  <2>3. trim(f) # Empty
    <3>1. lower(Empty) = Empty
      BY DEF lower, Empty
    <3> QED BY <1>2, <2>1, <3>1
  <2>4. /\ p \in Seq(Words) /\ Len(p) > 0 /\ p[1] # Blank /\ p[Len(p)] # Blank
        /\ lower(p) = p
    <3> HIDE DEF p
    <3>1. /\ Len(trim(f)) > 0 /\ Len(trim(f)) \in Nat
          /\ trim(f)[1] # Blank /\ trim(f)[Len(trim(f))] # Blank
      BY <2>2, <2>3, TrimEnds
    <3>2. /\ lower(trim(f)) \in Seq(Words)
          /\ Len(lower(trim(f))) = Len(trim(f))
          /\ \A i \in 1 .. Len(trim(f)) : lower(trim(f))[i] = Blank <=> trim(f)[i] = Blank
          /\ lower(lower(trim(f))) = lower(trim(f))
      BY <2>2, LowerTwice
    <3> QED BY <2>1, <3>1, <3>2
  <2>5. PICK g \in Seq(STRING) : m = trim(g)
    <3>1. DOMAIN <<"model", "Model", "modelName", "ModelName", "data">> \subseteq Nat
      OBVIOUS
    <3> QED BY <3>1, FirstIsTrimmed DEF extractModelInput
  <2>6. PICK u \in Seq(STRING) : n = trim(u)
    <3>1. m \in Seq(STRING)
      BY <2>5, TrimEnds
    <3> HIDE DEF m
    <3> QED BY <3>1, NameTrimmed
  <2>7. n # Empty
    OBVIOUS
  <2>8. n \in Seq(Words) /\ Len(n) > 0 /\ n[Len(n)] # Blank
    <3> HIDE DEF n
    <3>1. n \in Seq(STRING) /\ Len(n) > 0 /\ n[Len(n)] # Blank
      BY <2>6, <2>7, TrimEnds
    <3>2. n \in Seq(Words)
      BY <3>1, \A k \in 1 .. Len(n) : n[k] \in Words
    <3> QED BY <3>1, <3>2
  <2>9. m # Empty
    <3>1. splitModelName(Empty).name = Empty
      <4>1. {i \in DOMAIN Empty : Empty[i] = "/"} = {}
        BY DEF Empty
      <4> QED BY <4>1, TrimEmpty DEF splitModelName
    <3> HIDE DEF m
    <3> QED BY <2>7, <3>1
  <2>10. extractModelName(tags) = p \o <<"/">> \o n
    BY <1>2, <2>7, <2>9 DEF extractModelName
  <2>11. \A i \in 1 .. Len(p) : p[i] # "/"
    <3> HIDE DEF p
    <3>1. DOMAIN p = 1 .. Len(p)
      BY <2>4
    <3> QED BY <3>1 DEF p
  <2>12. splitModelName(p \o <<"/">> \o n).provider = p
    <3> HIDE DEF p, n
    <3> QED BY <2>4, <2>8, <2>11, PrefixedModel
  <2>13. extractProviderName(tags) = p
    BY <1>2 DEF extractProviderName
  <2> QED BY <2>10, <2>12, <2>13
<1> QED BY <1>1, <1>2

\* The key a spawn stores is for the provider of the model it configures, unless its
\* provider tag has a slash in it (readme.md:353, setup.go:25, 39).
THEOREM KeysOfModels ==
  ASSUME \A tags \in SpawnTags : \A i \in DOMAIN extractProviderTagValue(tags) :
           extractProviderTagValue(tags)[i] # "/"
  PROVE  SetupSpec => []KeyBelongsToModel
<1>1. SetupInv => KeyBelongsToModel
  <2> SUFFICES ASSUME SetupInv, NEW c \in Calls,
                      op[c] = "spawn", pc[c] = "asking", wants[c].given.name # Empty
               PROVE  splitModelName(wants[c].model).provider = wants[c].provider
    BY DEF KeyBelongsToModel
  <2>1. PICK t \in SpawnTags : wants[c] = Wanted(t)
    BY DEF SetupInv, Spawned, Busy, Ended
  <2>2. /\ wants[c].given = splitModelName(extractModelInput(t))
        /\ wants[c].model = extractModelName(t)
        /\ wants[c].provider = extractProviderName(t)
    BY <2>1 DEF Wanted
  <2>3. \A name \in DOMAIN t : t[name] \in Seq(STRING)
    BY ASetup
  <2> QED BY <2>2, <2>3, SameProvider
<1> QED BY <1>1, SetupInvariant, PTL

=============================================================================
