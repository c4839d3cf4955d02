------------------------- MODULE AgentServerProofs -------------------------
(***************************************************************************)
(* Theorems about AgentServer, for any set of requests and any caller      *)
(* discipline.                                                             *)
(*                                                                         *)
(* Every property rests on how far a handler can be once it has looked at  *)
(* s.runtime.  IInv says it of each request: what an answer says about the *)
(* handler (Progress), what a handler that passed the nil check may rely   *)
(* on (Present), where runtimes come from (Origin), and what a request     *)
(* sent after an acknowledged spawn can find (Informed).                   *)
(***************************************************************************)
EXTENDS AgentServer, TLAPS

\* A handler answers once, at its end; only a creator builds, and only once.
Progress(r) ==
  /\ reply[r] # "none" => pc[r] \in {"write", "answered"}
  /\ pc[r] \in {"build", "publish"} => kind[r] \in Creators
  /\ pc[r] \in {"call", "running"} => kind[r] \in Callers
  /\ pc[r] \in {"idle", "entry", "bind", "build"} => r \notin built
  /\ pc[r] \in {"idle", "entry", "bind", "call"} => callee[r] = NoRuntime

\* The outcome of the nil check outlives the steps between it and the call.
Present(r) ==
  /\ pc[r] \in {"bind", "call"} /\ kind[r] \in Callers => runtime # NoRuntime
  /\ reply[r] # "panic"

\* What is published or called was built; whoever was told "ok" published.
Origin(r) ==
  /\ pc[r] = "publish" => r \in built
  /\ kind[r] \in Creators /\ reply[r] = "ok" => runtime # NoRuntime
  /\ callee[r] # NoRuntime => callee[r] \in built

\* A request sent after an acknowledgement finds the field set at its first step.
Informed(r) ==
  r \in informed =>
    /\ runtime # NoRuntime
    /\ pc[r] # "idle"
    /\ reply[r] # "runtime is nil"
    /\ kind[r] \in Creators => /\ pc[r] \in {"entry", "write", "answered"}
                               /\ reply[r] # "ok"
                               /\ r \notin built

Published == runtime # NoRuntime => runtime \in built /\ reply[runtime] = "ok"

Local(r) == Progress(r) /\ Present(r) /\ Origin(r) /\ Informed(r)

IInv == TypeOK /\ Published /\ \A r \in Requests : Local(r)

-----------------------------------------------------------------------------

\* The steps of one handler, without the grouping by endpoint.
Step(r) ==
  \/ CheckPresent(r) /\ kind[r] \in Callers
  \/ CheckAbsent(r) /\ kind[r] \in Creators
  \/ Bind(r, "call") /\ kind[r] = "apply"
  \/ Bind(r, "build") /\ kind[r] \in Creators
  \/ Build(r) /\ kind[r] \in Creators
  \/ Publish(r) /\ kind[r] \in Creators
  \/ Call(r) /\ kind[r] \in Callers
  \/ Return(r) /\ kind[r] \in Callers
  \/ Health(r)
  \/ Write(r)

\* A handler's step is one of the ten above, whatever the endpoint.
LEMMA HandlerSteps == ASSUME NEW r \in Requests, Handler(r) PROVE Step(r)
  BY DEF Handler, Apply, Checkpoint, Spawn, Restore, Step, Callers, Creators

\* No handler has started: the invariant holds of the server main creates.
LEMMA InitInv == Init => IInv
<1> SUFFICES ASSUME Init PROVE IInv
  OBVIOUS
<1> USE AServer DEF Init
<1>1. TypeOK /\ Published
  BY DEF TypeOK, Steps, Replies, Published
<1>2. ASSUME NEW r \in Requests PROVE Local(r)
  BY DEF Local, Progress, Present, Origin, Informed
<1> QED
  BY <1>1, <1>2 DEF IInv

\* A step of a handler leaves it at a step, with an answer, that exist.
LEMMA MoveType ==
  ASSUME TypeOK, NEW r \in Requests
  PROVE  /\ \A s \in Steps : Goto(r, s) => /\ pc' \in [Requests -> Steps]
                                         /\ reply' \in [Requests -> Replies]
         /\ \A c \in Replies : Answer(r, c) => /\ pc' \in [Requests -> Steps]
                                             /\ reply' \in [Requests -> Replies]
<1>1. "write" \in Steps
  BY DEF Steps
<1> QED
  BY <1>1 DEF TypeOK, Goto, Answer, history

\* Every step preserves the type of the state.
LEMMA StepType ==
  ASSUME TypeOK, NEW r \in Requests, Receive(r) \/ GiveUp(r) \/ Step(r)
  PROVE  TypeOK'
<1>a. /\ "entry" \in Steps /\ "bind" \in Steps /\ "build" \in Steps
      /\ "publish" \in Steps /\ "call" \in Steps /\ "running" \in Steps
      /\ "write" \in Steps /\ "answered" \in Steps
  BY DEF Steps
<1>b. /\ "ok" \in Replies /\ "runtime is nil" \in Replies
      /\ "runtime is not nil" \in Replies /\ "bad request" \in Replies
      /\ "failed" \in Replies /\ "panic" \in Replies
  BY DEF Replies
<1> USE <1>a, <1>b, MoveType, AServer DEF TypeOK, history
<1>1. CASE Receive(r)
  <2>1. kind' \in [Requests -> Kinds \cup {"none"}]
    BY <1>1, ZenonT(30) DEF Receive
  <2>2. informed' \subseteq Requests
    BY <1>1 DEF Receive
  <2>3. pc' \in [Requests -> Steps] /\ reply' \in [Requests -> Replies]
    BY <1>1 DEF Receive
  <2> QED
    BY <1>1, <2>1, <2>2, <2>3 DEF Receive, OnItsWay
<1>2. CASE GiveUp(r)
  BY <1>2 DEF GiveUp
<1>3. CASE CheckPresent(r) /\ kind[r] \in Callers
  BY <1>3 DEF CheckPresent
<1>4. CASE CheckAbsent(r) /\ kind[r] \in Creators
  BY <1>4 DEF CheckAbsent
<1>5. CASE Bind(r, "call") /\ kind[r] = "apply"
  BY <1>5 DEF Bind
<1>6. CASE Bind(r, "build") /\ kind[r] \in Creators
  BY <1>6 DEF Bind
<1>7. CASE Build(r) /\ kind[r] \in Creators
  BY <1>7 DEF Build
<1>8. CASE Publish(r) /\ kind[r] \in Creators
  BY <1>8 DEF Publish
<1>9. CASE Call(r) /\ kind[r] \in Callers
  BY <1>9 DEF Call
<1>10. CASE Return(r) /\ kind[r] \in Callers
  BY <1>10 DEF Return
<1>11. CASE Health(r)
  BY <1>11 DEF Health
<1>12. CASE Write(r)
  BY <1>12 DEF Write
<1> QED
  BY <1>1, <1>2, <1>3, <1>4, <1>5, <1>6, <1>7, <1>8, <1>9, <1>10, <1>11, <1>12 DEF Step

\* What s.runtime holds stays built and answered.
LEMMA StepPublished ==
  ASSUME TypeOK, Published, NEW r \in Requests, Local(r),
         Receive(r) \/ GiveUp(r) \/ Step(r)
  PROVE  Published'
<1> USE AServer DEF TypeOK, Goto, Answer, history, Local, Progress, Origin, Published, Creators, Callers
<1>1. CASE Receive(r)
  BY <1>1 DEF Receive
<1>2. CASE GiveUp(r)
  BY <1>2 DEF GiveUp
<1>3. CASE CheckPresent(r) /\ kind[r] \in Callers
  BY <1>3 DEF CheckPresent
<1>4. CASE CheckAbsent(r) /\ kind[r] \in Creators
  BY <1>4 DEF CheckAbsent
<1>5. CASE Bind(r, "call") /\ kind[r] = "apply"
  BY <1>5 DEF Bind
<1>6. CASE Bind(r, "build") /\ kind[r] \in Creators
  BY <1>6 DEF Bind
<1>7. CASE Build(r) /\ kind[r] \in Creators
  BY <1>7 DEF Build
<1>8. CASE Publish(r) /\ kind[r] \in Creators
  BY <1>8 DEF Publish
<1>9. CASE Call(r) /\ kind[r] \in Callers
  BY <1>9 DEF Call
<1>10. CASE Return(r) /\ kind[r] \in Callers
  BY <1>10 DEF Return
<1>11. CASE Health(r)
  BY <1>11 DEF Health
<1>12. CASE Write(r)
  BY <1>12 DEF Write
<1> QED
  BY <1>1, <1>2, <1>3, <1>4, <1>5, <1>6, <1>7, <1>8, <1>9, <1>10, <1>11, <1>12 DEF Step

\* A handler stays on its way, decides its answer once and builds at most once.
LEMMA StepProgress ==
  ASSUME TypeOK, NEW q \in Requests, NEW r \in Requests,
         Local(q), Local(r), Receive(r) \/ GiveUp(r) \/ Step(r)
  PROVE  Progress(q)'
<1> USE AServer DEF TypeOK, Goto, Answer, history, Local, Progress, Creators, Callers
<1>1. CASE Receive(r)
  BY <1>1 DEF Receive
<1>2. CASE GiveUp(r)
  BY <1>2 DEF GiveUp
<1>3. CASE CheckPresent(r) /\ kind[r] \in Callers
  BY <1>3 DEF CheckPresent
<1>4. CASE CheckAbsent(r) /\ kind[r] \in Creators
  BY <1>4 DEF CheckAbsent
<1>5. CASE Bind(r, "call") /\ kind[r] = "apply"
  BY <1>5 DEF Bind
<1>6. CASE Bind(r, "build") /\ kind[r] \in Creators
  BY <1>6, ZenonT(30) DEF Bind
<1>7. CASE Build(r) /\ kind[r] \in Creators
  BY <1>7 DEF Build
<1>8. CASE Publish(r) /\ kind[r] \in Creators
  BY <1>8 DEF Publish
<1>9. CASE Call(r) /\ kind[r] \in Callers
  BY <1>9 DEF Call
<1>10. CASE Return(r) /\ kind[r] \in Callers
  BY <1>10 DEF Return
<1>11. CASE Health(r)
  BY <1>11 DEF Health
<1>12. CASE Write(r)
  BY <1>12 DEF Write
<1> QED
  BY <1>1, <1>2, <1>3, <1>4, <1>5, <1>6, <1>7, <1>8, <1>9, <1>10, <1>11, <1>12 DEF Step

\* No step takes the runtime away between the nil check and the call.
LEMMA StepPresent ==
  ASSUME TypeOK, NEW q \in Requests, NEW r \in Requests,
         Local(q), Local(r), Receive(r) \/ GiveUp(r) \/ Step(r)
  PROVE  Present(q)'
<1> USE AServer DEF TypeOK, Goto, Answer, history, Local, Progress, Present, Creators, Callers
<1>1. CASE Receive(r)
  BY <1>1 DEF Receive
<1>2. CASE GiveUp(r)
  BY <1>2 DEF GiveUp
<1>3. CASE CheckPresent(r) /\ kind[r] \in Callers
  BY <1>3 DEF CheckPresent
<1>4. CASE CheckAbsent(r) /\ kind[r] \in Creators
  BY <1>4 DEF CheckAbsent
<1>5. CASE Bind(r, "call") /\ kind[r] = "apply"
  BY <1>5 DEF Bind
<1>6. CASE Bind(r, "build") /\ kind[r] \in Creators
  BY <1>6 DEF Bind
<1>7. CASE Build(r) /\ kind[r] \in Creators
  BY <1>7 DEF Build
<1>8. CASE Publish(r) /\ kind[r] \in Creators
  BY <1>8 DEF Publish
<1>9. CASE Call(r) /\ kind[r] \in Callers
  BY <1>9 DEF Call
<1>10. CASE Return(r) /\ kind[r] \in Callers
  BY <1>10 DEF Return
<1>11. CASE Health(r)
  BY <1>11 DEF Health
<1>12. CASE Write(r)
  BY <1>12 DEF Write
<1> QED
  BY <1>1, <1>2, <1>3, <1>4, <1>5, <1>6, <1>7, <1>8, <1>9, <1>10, <1>11, <1>12 DEF Step

\* Whatever is published or called comes out of a construction that succeeded.
LEMMA StepOrigin ==
  ASSUME TypeOK, Published, NEW q \in Requests, NEW r \in Requests,
         Local(q), Local(r), Receive(r) \/ GiveUp(r) \/ Step(r)
  PROVE  Origin(q)'
<1> USE AServer DEF TypeOK, Goto, Answer, history, Local, Progress, Origin, Published, Creators, Callers
<1>1. CASE Receive(r)
  BY <1>1 DEF Receive
<1>2. CASE GiveUp(r)
  BY <1>2 DEF GiveUp
<1>3. CASE CheckPresent(r) /\ kind[r] \in Callers
  BY <1>3 DEF CheckPresent
<1>4. CASE CheckAbsent(r) /\ kind[r] \in Creators
  BY <1>4 DEF CheckAbsent
<1>5. CASE Bind(r, "call") /\ kind[r] = "apply"
  BY <1>5 DEF Bind
<1>6. CASE Bind(r, "build") /\ kind[r] \in Creators
  BY <1>6 DEF Bind
<1>7. CASE Build(r) /\ kind[r] \in Creators
  BY <1>7 DEF Build
<1>8. CASE Publish(r) /\ kind[r] \in Creators
  BY <1>8 DEF Publish
<1>9. CASE Call(r) /\ kind[r] \in Callers
  BY <1>9 DEF Call
<1>10. CASE Return(r) /\ kind[r] \in Callers
  BY <1>10 DEF Return
<1>11. CASE Health(r)
  BY <1>11 DEF Health
<1>12. CASE Write(r)
  BY <1>12 DEF Write
<1> QED
  BY <1>1, <1>2, <1>3, <1>4, <1>5, <1>6, <1>7, <1>8, <1>9, <1>10, <1>11, <1>12 DEF Step

\* An acknowledgement proves that s.runtime is set.
LEMMA AcknowledgedPublished ==
  ASSUME \A c \in Requests : Origin(c), Acknowledged # {}
  PROVE  runtime # NoRuntime
  BY DEF Acknowledged, Origin

\* Informed requests keep finding the runtime whose creation was acknowledged.
LEMMA StepInformed ==
  ASSUME TypeOK, \A c \in Requests : Origin(c), NEW q \in Requests,
         NEW r \in Requests, Local(q), Local(r),
         Receive(r) \/ GiveUp(r) \/ Step(r)
  PROVE  Informed(q)'
<1> USE AServer DEF TypeOK, Goto, Answer, history, Local, Progress, Present, Informed, Creators, Callers
<1>1. CASE Receive(r)
  BY <1>1, AcknowledgedPublished DEF Receive
<1>2. CASE GiveUp(r)
  BY <1>2 DEF GiveUp
<1>3. CASE CheckPresent(r) /\ kind[r] \in Callers
  BY <1>3 DEF CheckPresent
<1>4. CASE CheckAbsent(r) /\ kind[r] \in Creators
  BY <1>4 DEF CheckAbsent
<1>5. CASE Bind(r, "call") /\ kind[r] = "apply"
  BY <1>5 DEF Bind
<1>6. CASE Bind(r, "build") /\ kind[r] \in Creators
  BY <1>6 DEF Bind
<1>7. CASE Build(r) /\ kind[r] \in Creators
  <2>1. CASE q = r
    BY <1>7, <2>1 DEF Build
  <2>2. CASE q # r
    <3>1. /\ pc'[q] = pc[q] /\ reply'[q] = reply[q]
          /\ kind' = kind /\ runtime' = runtime /\ informed' = informed
          /\ q \in built' => q \in built
      BY <1>7, <2>2 DEF Build
    <3> QED
      BY <3>1
  <2> QED
    BY <2>1, <2>2
<1>8. CASE Publish(r) /\ kind[r] \in Creators
  BY <1>8 DEF Publish
<1>9. CASE Call(r) /\ kind[r] \in Callers
  BY <1>9 DEF Call
<1>10. CASE Return(r) /\ kind[r] \in Callers
  BY <1>10 DEF Return
<1>11. CASE Health(r)
  BY <1>11 DEF Health
<1>12. CASE Write(r)
  BY <1>12 DEF Write
<1> QED
  BY <1>1, <1>2, <1>3, <1>4, <1>5, <1>6, <1>7, <1>8, <1>9, <1>10, <1>11, <1>12 DEF Step


\* Every step of every handler preserves IInv.
LEMMA NextInv == ASSUME IInv, Next PROVE IInv'
<1>1. PICK r \in Requests : Receive(r) \/ GiveUp(r) \/ Step(r)
  BY HandlerSteps DEF Next
<1>2. TypeOK' /\ Published'
  BY <1>1, StepType, StepPublished DEF IInv
<1>3. \A c \in Requests : Origin(c)
  BY DEF IInv, Local
<1>4. ASSUME NEW q \in Requests PROVE Local(q)'
  <2>1. Progress(q)' /\ Present(q)'
    BY <1>1, StepProgress, StepPresent DEF IInv
  <2>2. Origin(q)'
    BY <1>1, StepOrigin DEF IInv
  <2>3. Informed(q)'
    BY <1>1, <1>3, StepInformed DEF IInv
  <2> QED
    BY <2>1, <2>2, <2>3 DEF Local
<1> QED
  BY <1>2, <1>4 DEF IInv

\* The invariant reads only the variables of the specification.
LEMMA StutterInv == ASSUME IInv, UNCHANGED vars PROVE IInv'
<1>1. TypeOK' /\ Published'
  BY DEF vars, history, IInv, TypeOK, Published
<1>2. ASSUME NEW q \in Requests PROVE Local(q)'
  <2>1. Local(q)
    BY DEF IInv
  <2> QED
    BY <2>1 DEF vars, history, Local, Progress, Present, Origin, Informed
<1> QED
  BY <1>1, <1>2 DEF IInv

\* IInv is an invariant of the API.
THEOREM Invariant == Spec => []IInv
<1>1. IInv /\ [Next]_vars => IInv'
  BY NextInv, StutterInv
<1> QED
  BY InitInv, <1>1, PTL DEF Spec

-----------------------------------------------------------------------------

\* Every variable keeps its type, however many requests overlap.
THEOREM TypeCorrect == Spec => []TypeOK
  BY Invariant, PTL DEF IInv

\* No handler calls a method of a nil runtime, although apply and checkpoint test
\* s.runtime and use it in two reads with no lock.
THEOREM NilSafety == Spec => []NoCallOnNil
<1>1. IInv => NoCallOnNil
  BY DEF IInv, Local, Present, NoCallOnNil
<1> QED
  BY <1>1, Invariant, PTL

\* What serves was built without error.
THEOREM BuiltBeforeServing == Spec => []OnlyBuiltRuntimesServe
<1>1. IInv => OnlyBuiltRuntimesServe
  BY AServer DEF IInv, Published, Local, Origin, OnlyBuiltRuntimesServe
<1> QED
  BY <1>1, Invariant, PTL

\* After an acknowledged spawn, calls find a runtime and spawns are refused.
THEOREM InformedOfRuntime == Spec => []AcknowledgementHolds
<1>1. IInv => AcknowledgementHolds
  BY DEF IInv, TypeOK, Local, Informed, AcknowledgementHolds
<1> QED
  BY <1>1, Invariant, PTL

\* s.runtime, once set, is set for good.
THEOREM RuntimeStays == Spec => NeverBackToNil
<1>1. ASSUME [Next]_vars, runtime # NoRuntime
      PROVE  runtime' # NoRuntime
  <2>1. ASSUME NEW r \in Requests, Step(r) PROVE runtime' # NoRuntime
    BY <1>1, <2>1, AServer DEF Step, CheckPresent, CheckAbsent, Bind, Build,
       Publish, Call, Return, Health, Write
  <2>2. ASSUME NEW r \in Requests, Receive(r) \/ GiveUp(r)
        PROVE  runtime' # NoRuntime
    BY <1>1, <2>2 DEF Receive, GiveUp
  <2> QED
    BY <1>1, <2>1, <2>2, HandlerSteps DEF Next, vars
<1>2. [Next]_vars => [runtime # NoRuntime => runtime' # NoRuntime]_vars
  BY <1>1
<1> QED
  BY <1>2, PTL DEF Spec, NeverBackToNil
-----------------------------------------------------------------------------
(* As long as no two handlers overlap, AgentServer implements              *)
(* AgentLifecycle.  The argument is that a creator which passed its check  *)
(* is still right about s.runtime when it assigns the field (Fresh),       *)
(* because nobody else is on its way (Alone).  Neither holds of a caller   *)
(* that overlaps its requests or abandons one and sends another: that is   *)
(* what the run server_retry shows.                                        *)

\* One handler runs at a time.
Alone == \A p, q \in Requests : OnItsWay(p) /\ OnItsWay(q) => p = q

\* So a creator that passed its check is still right about s.runtime when it assigns it.
Fresh(r) ==
  pc[r] \in {"bind", "build", "publish"} /\ kind[r] \in Creators
    => runtime = NoRuntime

SerialInv ==
  /\ IInv
  /\ ~overlapped => Alone /\ (\A r \in Requests : Fresh(r)) /\ NoOrphanRuntime

\* With no request sent yet, none is ahead of another.
LEMMA InitSerial == Init => SerialInv
  BY InitInv DEF Init, SerialInv, Alone, OnItsWay, Fresh, NoOrphanRuntime

\* A request that does not overlap is sent when no handler is on its way.
LEMMA StepAlone ==
  ASSUME ~overlapped', TypeOK, Alone, NEW r \in Requests,
         Receive(r) \/ GiveUp(r) \/ Step(r)
  PROVE  Alone'
<1> USE DEF TypeOK, Goto, Answer, history, Alone, OnItsWay
<1>1. CASE Receive(r)
  BY <1>1 DEF Receive
<1>2. CASE GiveUp(r)
  BY <1>2 DEF GiveUp
<1>3. CASE CheckPresent(r) /\ kind[r] \in Callers
  BY <1>3 DEF CheckPresent
<1>4. CASE CheckAbsent(r) /\ kind[r] \in Creators
  BY <1>4 DEF CheckAbsent
<1>5. CASE Bind(r, "call") /\ kind[r] = "apply"
  BY <1>5 DEF Bind
<1>6. CASE Bind(r, "build") /\ kind[r] \in Creators
  BY <1>6 DEF Bind
<1>7. CASE Build(r) /\ kind[r] \in Creators
  BY <1>7 DEF Build
<1>8. CASE Publish(r) /\ kind[r] \in Creators
  BY <1>8 DEF Publish
<1>9. CASE Call(r) /\ kind[r] \in Callers
  BY <1>9 DEF Call
<1>10. CASE Return(r) /\ kind[r] \in Callers
  BY <1>10 DEF Return
<1>11. CASE Health(r)
  BY <1>11 DEF Health
<1>12. CASE Write(r)
  BY <1>12 DEF Write
<1> QED
  BY <1>1, <1>2, <1>3, <1>4, <1>5, <1>6, <1>7, <1>8, <1>9, <1>10, <1>11, <1>12 DEF Step

\* Only the one handler on its way can have passed a check.
LEMMA StepFresh ==
  ASSUME TypeOK, Alone, NEW q \in Requests, NEW r \in Requests,
         Fresh(q), Local(q), Local(r), Receive(r) \/ GiveUp(r) \/ Step(r)
  PROVE  Fresh(q)'
<1> USE DEF TypeOK, Goto, Answer, Alone, OnItsWay, Fresh, Local, Progress, Callers, Creators
<1>1. CASE Receive(r)
  BY <1>1 DEF Receive
<1>2. CASE GiveUp(r)
  BY <1>2 DEF GiveUp
<1>3. CASE CheckPresent(r) /\ kind[r] \in Callers
  BY <1>3 DEF CheckPresent
<1>4. CASE CheckAbsent(r) /\ kind[r] \in Creators
  <2>1. CASE q = r
    BY <1>4, <2>1 DEF CheckAbsent
  <2>2. CASE q # r
    <3>1. pc[q]' = pc[q] /\ kind' = kind /\ runtime' = runtime
      BY <1>4, <2>2 DEF CheckAbsent
    <3> QED
      BY <3>1
  <2> QED
    BY <2>1, <2>2
<1>5. CASE Bind(r, "call") /\ kind[r] = "apply"
  BY <1>5 DEF Bind
<1>6. CASE Bind(r, "build") /\ kind[r] \in Creators
  BY <1>6 DEF Bind
<1>7. CASE Build(r) /\ kind[r] \in Creators
  BY <1>7 DEF Build
<1>8. CASE Publish(r) /\ kind[r] \in Creators
  BY <1>8 DEF Publish
<1>9. CASE Call(r) /\ kind[r] \in Callers
  BY <1>9 DEF Call
<1>10. CASE Return(r) /\ kind[r] \in Callers
  BY <1>10 DEF Return
<1>11. CASE Health(r)
  BY <1>11 DEF Health
<1>12. CASE Write(r)
  BY <1>12 DEF Write
<1> QED
  BY <1>1, <1>2, <1>3, <1>4, <1>5, <1>6, <1>7, <1>8, <1>9, <1>10, <1>11, <1>12 DEF Step

\* A runtime is assigned while the field is nil, and by the only creator on its way, so
\* it takes nobody's place.
LEMMA StepOrphan ==
  ASSUME ~overlapped, TypeOK, Alone, NoOrphanRuntime, NEW r \in Requests,
         Fresh(r), Receive(r) \/ GiveUp(r) \/ Step(r)
  PROVE  NoOrphanRuntime'
<1> SUFFICES ASSUME NEW b \in built' PROVE runtime' = b \/ pc'[b] = "publish"
  BY DEF NoOrphanRuntime
<1>1. CASE Publish(r) /\ kind[r] \in Creators
  <2>1. b \in built /\ built \subseteq Requests
    BY <1>1 DEF TypeOK, Publish
  <2>2. pc[r] = "publish" /\ runtime = NoRuntime /\ runtime' = r
    BY <1>1 DEF Publish, Fresh
  <2>3. pc[b] = "publish"
    BY <2>1, <2>2, AServer DEF NoOrphanRuntime
  <2>4. b = r
    BY <2>1, <2>2, <2>3 DEF Alone, OnItsWay
  <2> QED
    BY <2>2, <2>4
<1>2. CASE Build(r) /\ kind[r] \in Creators
  BY <1>2 DEF TypeOK, Build, Goto, Answer, NoOrphanRuntime
<1>3. CASE ~(Publish(r) /\ kind[r] \in Creators) /\ ~(Build(r) /\ kind[r] \in Creators)
  <2>1. UNCHANGED <<built, runtime>> /\ (pc' = pc \/ (pc[r] # "publish" /\ \E to : pc' = [pc EXCEPT ![r] = to]))
    BY <1>3 DEF Step, Receive, GiveUp, CheckPresent, CheckAbsent, Bind, Call, Return, Health,
       Write, Goto, Answer
  <2> QED
    BY <2>1 DEF TypeOK, NoOrphanRuntime
<1> QED
  BY <1>1, <1>2, <1>3

\* What overlapped once has overlapped for good.
LEMMA StepOverlapped ==
  ASSUME NEW r \in Requests, Receive(r) \/ GiveUp(r) \/ Step(r), ~overlapped'
  PROVE  ~overlapped
  BY DEF Receive, GiveUp, Step, CheckPresent, CheckAbsent, Bind, Build, Publish, Call,
     Return, Health, Write, history, TypeOK

\* Every step preserves the strengthened invariant, unless handlers overlap from it on.
LEMMA NextSerial == ASSUME SerialInv, Next PROVE SerialInv'
<1>1. PICK r \in Requests : Receive(r) \/ GiveUp(r) \/ Step(r)
  BY HandlerSteps DEF Next
<1>2. ASSUME ~overlapped'
      PROVE  (Alone /\ (\A q \in Requests : Fresh(q)) /\ NoOrphanRuntime)'
  <2>1. ~overlapped /\ Alone /\ (\A q \in Requests : Fresh(q)) /\ NoOrphanRuntime
    BY <1>1, <1>2, StepOverlapped DEF SerialInv
  <2>2. Alone'
    BY <1>1, <1>2, <2>1, StepAlone DEF SerialInv, IInv
  <2>3. ASSUME NEW q \in Requests PROVE Fresh(q)'
    BY <1>1, <2>1, StepFresh DEF SerialInv, IInv
  <2>4. NoOrphanRuntime'
    BY <1>1, <2>1, StepOrphan DEF SerialInv, IInv
  <2> QED
    BY <2>2, <2>3, <2>4
<1> QED
  BY <1>2, NextInv DEF SerialInv

\* Every step of a handler is a step of the lifecycle or changes nothing it sees.
LEMMA StepRefines ==
  ASSUME TypeOK, NEW r \in Requests, Fresh(r), Local(r),
         Receive(r) \/ GiveUp(r) \/ Step(r)
  PROVE  [Lifecycle!Next]_<<runtime, Made, callee>>
<1> USE DEF Made, TypeOK, Goto, Answer, Fresh, Local, Progress, Callers, Creators
<1>1. CASE Publish(r) /\ kind[r] \in Creators
  <2>1. /\ runtime = NoRuntime /\ runtime' = r /\ UNCHANGED callee
    BY <1>1 DEF Publish
  <2>2. Made' = Made \cup {r}
    BY <1>1 DEF Publish
  <2> QED
    BY <2>1, <2>2 DEF Lifecycle!Next, Lifecycle!Establish
<1>2. CASE Call(r) /\ kind[r] \in Callers
  <2>1. Made' = Made
    BY <1>2 DEF Call
  <2>2. CASE runtime = NoRuntime
    BY <1>2, <2>1, <2>2 DEF Call
  <2>3. CASE runtime # NoRuntime
    <3>1. /\ callee[r] = NoRuntime /\ runtime' = runtime
          /\ callee' = [callee EXCEPT ![r] = runtime]
      BY <1>2, <2>3 DEF Call
    <3> QED
      BY <2>1, <2>3, <3>1 DEF Lifecycle!Next, Lifecycle!Serve
  <2> QED
    BY <2>2, <2>3
<1>3. ASSUME ~(Publish(r) /\ kind[r] \in Creators), ~(Call(r) /\ kind[r] \in Callers)
      PROVE  UNCHANGED <<runtime, Made, callee>>
  <2>1. UNCHANGED <<runtime, callee>>
    BY <1>3 DEF Step, Receive, GiveUp, CheckPresent, CheckAbsent, Bind, Build,
       Return, Health, Write
  <2>2. Made' = Made
    <3>1. CASE Receive(r)
      BY <3>1 DEF Receive
    <3>2. CASE GiveUp(r)
      BY <3>2 DEF GiveUp
    <3>3. CASE Step(r)
      <4>1. kind' = kind
        BY <3>3, <1>3 DEF Step, CheckPresent, CheckAbsent, Bind, Build, Return,
           Health, Write
      <4>2. \A c \in Requests : (kind[c] \in Creators /\ reply[c] = "ok")
                             <=> (kind[c] \in Creators /\ reply'[c] = "ok")
        BY <3>3, <1>3 DEF Step, CheckPresent, CheckAbsent, Bind, Build, Return,
           Health, Write
      <4> QED
        BY <4>1, <4>2
    <3> QED
      BY <3>1, <3>2, <3>3
  <2> QED
    BY <2>1, <2>2
<1> QED
  BY <1>1, <1>2, <1>3

\* The strengthened invariant holds, whoever sends the requests.
THEOREM SerialInvariant == Spec => []SerialInv
<1>1. SerialInv /\ [Next]_vars => SerialInv'
  <2>1. ASSUME SerialInv, UNCHANGED vars PROVE SerialInv'
    BY <2>1, StutterInv DEF SerialInv, Alone, OnItsWay, Fresh, NoOrphanRuntime, vars, history
  <2> QED
    BY <2>1, NextSerial
<1> QED
  BY InitSerial, <1>1, PTL DEF Spec

\* Until two handlers overlap, no runtime is left behind that nobody can reach.
THEOREM SerialNoOrphan == Spec => []NoOrphanRuntime
<1>1. SerialInv => NoOrphanRuntime
  BY DEF SerialInv, NoOrphanRuntime
<1> QED
  BY <1>1, SerialInvariant, PTL

\* Until two handlers overlap, a step of the server is a step of the lifecycle.
LEMMA NextRefines ==
  ASSUME SerialInv, [Next]_vars, ~overlapped'
  PROVE  [Lifecycle!Next]_<<runtime, Made, callee>>
<1>1. CASE Next
  <2>1. PICK r \in Requests : Receive(r) \/ GiveUp(r) \/ Step(r)
    BY <1>1, HandlerSteps DEF Next
  <2>2. ~overlapped
    BY <2>1, StepOverlapped
  <2> QED
    BY <2>1, <2>2, StepRefines DEF SerialInv, IInv
<1>2. CASE UNCHANGED vars
  BY <1>2 DEF vars, Made
<1> QED
  BY <1>1, <1>2

\* The server's first state is one of the lifecycle.
LEMMA InitRefines == Init => Lifecycle!Init
  BY DEF Init, Lifecycle!Init, Made, Creators

\* Until two handlers overlap the server is the abstract lifecycle: one runtime, never
\* replaced, made by the only spawn or restore that was told "ok", and serving every
\* call that is served.
THEOREM SerialRefinement == Spec => ImplementsLifecycle
<1>1. SerialInv /\ [Next]_vars
        => [overlapped' \/ Lifecycle!Next]_<<runtime, Made, callee>>
  BY NextRefines
<1> QED
  BY SerialInvariant, InitRefines, <1>1, PTL DEF Spec, ImplementsLifecycle

-----------------------------------------------------------------------------

\* A caller that waits for each answer, and waits for as long as it takes, never makes
\* two handlers overlap.
Waits == ~overlapped /\ \A r \in Requests : r \in awaited <=> OnItsWay(r)

\* Its requests are awaited exactly while their handlers are on their way.
LEMMA StepWaits ==
  ASSUME Serialised, ~MayGiveUp, TypeOK, Waits, NEW r \in Requests,
         Receive(r) \/ GiveUp(r) \/ Step(r)
  PROVE  Waits'
<1> USE DEF TypeOK, Goto, Answer, history, Waits, OnItsWay
<1>1. CASE Receive(r)
  BY <1>1 DEF Receive
<1>2. CASE GiveUp(r)
  BY <1>2 DEF GiveUp
<1>3. CASE Write(r)
  BY <1>3 DEF Write
<1>4. CASE Step(r) /\ ~Write(r)
  <2>1. UNCHANGED <<awaited, history>>
    BY <1>4 DEF Step, CheckPresent, CheckAbsent, Bind, Build, Publish, Call, Return, Health
  <2>2. /\ pc[r] \notin {"idle", "answered"}
        /\ \E s \in Steps \ {"idle", "answered"} : pc' = [pc EXCEPT ![r] = s]
    BY <1>4 DEF Step, CheckPresent, CheckAbsent, Bind, Build, Publish, Call, Return, Health,
       Steps
  <2> QED
    BY <2>1, <2>2
<1> QED
  BY <1>1, <1>2, <1>3, <1>4

\* To such a caller the server is the abstract lifecycle for good.
THEOREM WaitingRefinement ==
  ASSUME Serialised, ~MayGiveUp PROVE Spec => Lifecycle!Spec
<1>1. Init => Waits
  BY DEF Init, Waits, OnItsWay
<1>2. TypeOK /\ Waits /\ [Next]_vars => Waits'
  <2>1. ASSUME TypeOK, Waits, Next PROVE Waits'
    <3>1. PICK r \in Requests : Receive(r) \/ GiveUp(r) \/ Step(r)
      BY <2>1, HandlerSteps DEF Next
    <3> QED
      BY <2>1, <3>1, StepWaits
  <2>2. ASSUME Waits, UNCHANGED vars PROVE Waits'
    BY <2>2 DEF Waits, OnItsWay, vars, history
  <2> QED
    BY <2>1, <2>2
<1>3. SerialInv /\ Waits' /\ [Next]_vars => [Lifecycle!Next]_<<runtime, Made, callee>>
  BY NextRefines DEF Waits
<1> QED
  BY SerialInvariant, TypeCorrect, InitRefines, <1>1, <1>2, <1>3, PTL DEF Spec, Lifecycle!Spec
=============================================================================
