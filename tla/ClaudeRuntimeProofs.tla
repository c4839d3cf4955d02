------------------------ MODULE ClaudeRuntimeProofs ------------------------
(***************************************************************************)
(* Theorems about the claude runtime, for any calls, session ids, settings *)
(* and number of checkpoints.                                              *)
(*                                                                         *)
(* None of the properties is inductive.  A call reads the setting and the  *)
(* session when it begins, and writes both when it has an answer.  That    *)
(* the setting it writes is the one that is there rests on every call on   *)
(* its way having the same one (Snapshot).  That no turn is lost rests on  *)
(* what the CLI's sessions have recorded at each point of a call           *)
(* (Recorded, Retried), and, for a caller that waits, on the turns it was  *)
(* told of being in the session each step is about (Told, Continues).      *)
(***************************************************************************)
EXTENDS ClaudeRuntime, TLAPS

Working(c) == pc[c] \in Active

\* Without a runtime no call is on its way.
Quiet == ~up => \A c \in Calls : pc[c] \in {"idle", "failed", "lost"}

\* Only the CLI makes session ids, also those of checkpoints.
Known == \A s \in saved : s.session \in minted \cup {None}

\* How far a call and its CLI are.
Shape(c) ==
  /\ pc[c] \in {"launch", "running", "update", "tagging", "ok"} => attempt[c] # 0
  /\ cli[c] # "none" => attempt[c] # 0
  /\ pc[c] \in {"update", "tagging", "ok"} => cli[c] = "done"
  /\ text[c] = "empty" => sid[c] # None

\* Every call on its way has the setting that is in effect.
Snapshot(c) == up /\ pc[c] \in {"read", "launch", "running", "update"} => cfg[c] = effective

\* The session a CLI named has recorded the turn.
Recorded(c) ==
  pc[c] \in {"running", "update", "tagging", "ok"} /\ cli[c] = "done" /\ sid[c] # None
    => <<c, attempt[c]>> \in log[sid[c]]

\* A second attempt resumes, and ends in, a session with the first one's turn.
Retried(c) ==
  attempt[c] = 2 =>
    /\ resume[c] # None /\ <<c, 1>> \in log[resume[c]]
    /\ sid[c] # None => <<c, 1>> \in log[sid[c]]

\* The session id is that of a call whose CLI is done for good.
Settled(c) == pc[c] \in {"tagging", "ok", "lost"} /\ cli[c] = "done"

Adopted ==
  session \in {None, restored} \/ \E c \in Calls : Settled(c) /\ session = sid[c]

TurnInv ==
  /\ TypeOK
  /\ Quiet
  /\ Known
  /\ \A c \in Calls : Shape(c) /\ Snapshot(c) /\ Recorded(c) /\ Retried(c)
  /\ Adopted

\* Have these turns been recorded in that session.
In(turns, s) == turns = {} \/ (s # None /\ turns \subseteq log[s])

\* A caller that waits has one call on its way at most, and what it was told is in the
\* session of the runtime and of every checkpoint.
Told ==
  ~overlapped =>
    /\ \A c, d \in Calls : Working(c) /\ Working(d) => c = d
    /\ up => In(kept, session)
    /\ \A s \in saved : In(s.turns, s.session)

\* The call of such a caller goes on from what the caller was told, and its session is
\* the runtime's once it has stored it.
Continues(c) ==
  ~overlapped =>
    /\ pc[c] \in {"launch", "running", "update"} => In(kept, resume[c])
    /\ pc[c] \in {"running", "update"} /\ cli[c] = "done" /\ sid[c] # None => In(kept, sid[c])
    /\ pc[c] = "tagging" /\ sid[c] # None => session = sid[c]
    /\ pc[c] = "ok" /\ sid[c] # None => tag[c] = sid[c]

LoneInv == TurnInv /\ Told /\ \A c \in Calls : Continues(c)
-----------------------------------------------------------------------------
(* Types, and what a step leaves alone.                                    *)

\* A step of a call or of its CLI.
CallStep(c) == Start(c) \/ Apply(c) \/ CLI(c) \/ LingererEnds(c)

\* What belongs to the other calls stays.
LEMMA OthersStay ==
  ASSUME TypeOK, NEW c \in Calls, CallStep(c), NEW d \in Calls, d # c
  PROVE  /\ pc'[d] = pc[d] /\ attempt'[d] = attempt[d] /\ cfg'[d] = cfg[d]
         /\ resume'[d] = resume[d] /\ tag'[d] = tag[d]
         /\ cli'[d] = cli[d] /\ text'[d] = text[d] /\ sid'[d] = sid[d]
<1> USE DEF TypeOK, Goto, stateVars, callVars, cliVars, history
<1>1. CASE Start(c)
  BY <1>1 DEF Start
<1>2. CASE snapshotConfig(c) \/ ReadSession(c)
  BY <1>2 DEF snapshotConfig, ReadSession
<1>3. CASE Launch(c)
  BY <1>3 DEF Launch
<1>4. CASE Deadline(c) \/ LingererEnds(c)
  BY <1>4 DEF Deadline, LingererEnds
<1>5. CASE CollectFailure(c) \/ CollectText(c)
  BY <1>5 DEF CollectFailure, CollectText
<1>6. CASE Retry(c)
  BY <1>6 DEF Retry
<1>7. CASE updateState(c) \/ Tag(c)
  BY <1>7 DEF updateState, Tag
<1>8. CASE CLI(c)
  <2>1. text'[d] = text[d] /\ sid'[d] = sid[d]
    BY <1>8 DEF CLI, CLIAnswers, CLIFails
  <2> QED
    BY <1>8, <2>1 DEF CLI
<1> QED
  BY <1>1, <1>2, <1>3, <1>4, <1>5, <1>6, <1>7, <1>8 DEF CallStep, Apply

\* What a CLI prints and records: a failure, or a turn on top of those of the session
\* it resumes, in that session or in a fresh one.
LEMMA Answer ==
  ASSUME TypeOK, NEW c \in Calls, CLI(c)
  PROVE  /\ text' \in [Calls -> {"none", "text", "empty", "error"}]
         /\ \/ /\ UNCHANGED <<log, minted>>
               /\ sid' = [sid EXCEPT ![c] = None]
               /\ text'[c] # "empty"
            \/ \E s \in Ids :
                 /\ s = resume[c] \/ s \notin minted
                 /\ sid' = [sid EXCEPT ![c] = s]
                 /\ minted' = minted \cup {s}
                 /\ log' = [log EXCEPT ![s] =
                      {<<c, attempt[c]>>}
                        \cup (IF resume[c] # None THEN log[resume[c]] ELSE {})]
<1>1. CASE CLIFails(c)
  BY <1>1 DEF CLIFails, TypeOK
<1>2. CASE CLIAnswers(c)
  <2>1. text' \in [Calls -> {"none", "text", "empty", "error"}]
    BY <1>2 DEF CLIAnswers, TypeOK
  <2>2. PICK s \in Ids :
          /\ s = resume[c] \/ s \notin minted
          /\ sid' = [sid EXCEPT ![c] = s]
          /\ minted' = minted \cup {s}
    <3>1. CASE resume[c] # None /\ sid' = [sid EXCEPT ![c] = resume[c]] /\ UNCHANGED minted
      <4>1. resume[c] \in Ids /\ minted' = minted \cup {resume[c]}
        BY <3>1 DEF TypeOK
      <4> QED
        BY <3>1, <4>1
    <3>2. CASE \E s \in Ids \ minted : /\ sid' = [sid EXCEPT ![c] = s]
                                       /\ minted' = minted \cup {s}
      BY <3>2
    <3> QED
      BY <1>2, <3>1, <3>2 DEF CLIAnswers
  <2>3. sid'[c] = s
    BY <2>2 DEF TypeOK
  <2>4. log' = [log EXCEPT ![s] =
                  {<<c, attempt[c]>>} \cup (IF resume[c] # None THEN log[resume[c]] ELSE {})]
    <3>1. log' = [log EXCEPT ![sid'[c]] =
                    {<<c, attempt[c]>>} \cup (IF resume[c] # None THEN log[resume[c]] ELSE {})]
      BY <1>2 DEF CLIAnswers
    <3> QED
      BY <2>3, <3>1
  <2> QED
    BY <2>1, <2>2, <2>4
<1> QED
  BY <1>1, <1>2 DEF CLI

\* Turns are recorded for good, and ids are never taken back.
LEMMA LogGrows ==
  ASSUME TypeOK, NEW c \in Calls, CallStep(c)
  PROVE  /\ minted \subseteq minted'
         /\ \A s \in minted : log[s] \subseteq log'[s]
<1>1. CASE CLI(c)
  <2>1. CASE UNCHANGED <<log, minted>>
    BY <2>1
  <2>2. CASE ~UNCHANGED <<log, minted>>
    <3>1. PICK s \in Ids :
            /\ s = resume[c] \/ s \notin minted
            /\ minted' = minted \cup {s}
            /\ log' = [log EXCEPT ![s] =
                 {<<c, attempt[c]>>} \cup (IF resume[c] # None THEN log[resume[c]] ELSE {})]
      BY <1>1, <2>2, Answer
    <3>2. ASSUME NEW i \in minted PROVE log[i] \subseteq log'[i]
      <4>1. CASE i # s
        BY <3>1, <4>1 DEF TypeOK
      <4>2. CASE i = s
        <5>1. s = resume[c] /\ s # None
          BY <3>1, <4>2, AClaude
        <5>2. log'[s] = {<<c, attempt[c]>>} \cup log[s]
          BY <3>1, <5>1 DEF TypeOK
        <5> QED
          BY <4>2, <5>2
      <4> QED
        BY <4>1, <4>2
    <3> QED
      BY <3>1, <3>2
  <2> QED
    BY <2>1, <2>2
<1>2. CASE ~CLI(c)
  BY <1>2 DEF CallStep, Start, Apply, snapshotConfig, ReadSession, Launch, Deadline, CollectFailure,
     CollectText, Retry, updateState, Tag, LingererEnds, cliVars
<1> QED
  BY <1>1, <1>2

\* The steps of a call keep the types.
LEMMA CallType == ASSUME TypeOK, NEW c \in Calls, Shape(c), CallStep(c) PROVE TypeOK'
<1> USE DEF TypeOK, Goto, stateVars, callVars, cliVars, history, Active, Ended, maxApplyAttempts
<1>1. CASE Start(c)
  <2>1. overlapped' \in BOOLEAN
    BY <1>1 DEF Start
  <2> QED
    BY <1>1, <2>1 DEF Start
<1>2. CASE snapshotConfig(c)
  BY <1>2 DEF snapshotConfig, effective
<1>3. CASE ReadSession(c)
  BY <1>3 DEF ReadSession
<1>4. CASE Launch(c)
  BY <1>4 DEF Launch
<1>5. CASE Deadline(c) \/ LingererEnds(c)
  BY <1>5 DEF Deadline, LingererEnds
<1>6. CASE CollectFailure(c) \/ CollectText(c)
  BY <1>6 DEF CollectFailure, CollectText
<1>7. CASE Retry(c)
  <2>1. attempt' \in [Calls -> 0 .. maxApplyAttempts]
    BY <1>7 DEF Retry
  <2>2. resume' \in [Calls -> minted \cup {None}]
    BY <1>7 DEF Retry
  <2> QED
    BY <1>7, <2>1, <2>2 DEF Retry
<1>8. CASE updateState(c)
  <2>1. kept' \subseteq Turns
    <3>1. attempt[c] # 0
      BY <1>8 DEF updateState, Shape
    <3>2. <<c, attempt[c]>> \in Turns
      BY <3>1 DEF Turns
    <3> QED
      BY <1>8, <3>2 DEF updateState
  <2> QED
    BY <1>8, <2>1 DEF updateState
<1>9. CASE Tag(c)
  BY <1>9 DEF Tag
<1>10. CASE CLI(c)
  <2>1. /\ text' \in [Calls -> {"none", "text", "empty", "error"}]
        /\ cli' \in [Calls -> {"none", "running", "done", "killed", "gone"}]
        /\ UNCHANGED <<stateVars, callVars, saved, history>>
    BY <1>10, Answer DEF CLI
  <2>2. minted \subseteq minted' /\ minted' \subseteq Ids
    BY <1>10, Answer
  <2>3. sid' \in [Calls -> minted' \cup {None}]
    BY <1>10, Answer
  <2>4. log' \in [Ids -> SUBSET Turns]
    <3>1. <<c, attempt[c]>> \in Turns
      BY <1>10 DEF CLI, Shape, Turns
    <3> QED
      BY <1>10, <3>1, Answer, SMTT(30)
  <2> QED
    BY <2>1, <2>2, <2>3, <2>4
<1> QED
  BY <1>1, <1>2, <1>3, <1>4, <1>5, <1>6, <1>7, <1>8, <1>9, <1>10 DEF CallStep, Apply

-----------------------------------------------------------------------------
(* The turns.                                                              *)

\* At the start there is no runtime, and the CLI has no session.
LEMMA InitInv == Init => LoneInv
<1> SUFFICES ASSUME Init PROVE LoneInv
  OBVIOUS
<1>1. TypeOK
  <2>1. /\ pc \in [Calls -> {"idle"} \cup Active \cup Ended]
        /\ attempt \in [Calls -> 0 .. maxApplyAttempts]
        /\ log \in [Ids -> SUBSET Turns]
    BY DEF Init, maxApplyAttempts
  <2>2. /\ cfg \in [Calls -> Models \cup {None}]
        /\ resume \in [Calls -> minted \cup {None}]
        /\ tag \in [Calls -> minted \cup {None}]
        /\ sid \in [Calls -> minted \cup {None}]
    BY DEF Init
  <2>3. /\ cli \in [Calls -> {"none", "running", "done", "killed", "gone"}]
        /\ text \in [Calls -> {"none", "text", "empty", "error"}]
    BY DEF Init
  <2> QED
    BY <2>1, <2>2, <2>3 DEF Init, TypeOK
<1>2. Quiet /\ Known /\ Adopted
  BY DEF Init, Quiet, Known, Adopted
<1>3. ASSUME NEW c \in Calls
      PROVE  Shape(c) /\ Snapshot(c) /\ Recorded(c) /\ Retried(c) /\ Continues(c)
  BY <1>3 DEF Init, Shape, Snapshot, Recorded, Retried, Continues
<1>4. Told
  BY DEF Init, Told, Working, Active
<1> QED
  BY <1>1, <1>2, <1>3, <1>4 DEF LoneInv, TurnInv

\* A call and its CLI go on in step.
LEMMA StepShape ==
  ASSUME TypeOK, NEW c \in Calls, Shape(c), CallStep(c)
  PROVE  Shape(c)'
<1> USE DEF TypeOK, Goto, stateVars, callVars, cliVars, history
<1>1. CASE Start(c)
  BY <1>1 DEF Shape, Start
<1>2. CASE snapshotConfig(c) \/ ReadSession(c)
  BY <1>2 DEF Shape, snapshotConfig, ReadSession
<1>3. CASE Launch(c)
  BY <1>3 DEF Shape, Launch
<1>4. CASE Deadline(c) \/ LingererEnds(c)
  BY <1>4 DEF Shape, Deadline, LingererEnds
<1>5. CASE CollectFailure(c) \/ CollectText(c)
  BY <1>5 DEF Shape, CollectFailure, CollectText
<1>6. CASE Retry(c)
  BY <1>6 DEF Shape, Retry
<1>7. CASE updateState(c) \/ Tag(c)
  BY <1>7 DEF Shape, updateState, Tag
<1>8. CASE CLI(c)
  <2>1. text'[c] = "empty" => sid'[c] # None
    BY <1>8, Answer, AClaude
  <2> QED
    BY <1>8, <2>1 DEF Shape, CLI
<1> QED
  BY <1>1, <1>2, <1>3, <1>4, <1>5, <1>6, <1>7, <1>8 DEF CallStep, Apply

\* Only a call that stores its answer writes the setting: the one it read, which is the
\* one there still is.
LEMMA SettingStays ==
  ASSUME TypeOK, NEW c \in Calls, Quiet, Snapshot(c), CallStep(c)
  PROVE  effective' = effective
<1>1. CASE updateState(c)
  <2>1. up /\ cfg[c] = effective
    BY <1>1 DEF updateState, Quiet, Snapshot
  <2>2. model' = cfg[c] /\ config' = config
    BY <1>1 DEF updateState
  <2> QED
    BY <2>1, <2>2 DEF effective
<1>2. CASE ~updateState(c)
  <2>1. UNCHANGED <<model, config>>
    BY <1>2 DEF CallStep, Start, Apply, snapshotConfig, ReadSession, Launch, Deadline,
       CollectFailure, CollectText, Retry, Tag, CLI, LingererEnds, stateVars
  <2> QED
    BY <2>1 DEF effective
<1> QED
  BY <1>1, <1>2

\* Every call on its way keeps the setting that is in effect.
LEMMA StepSnapshot ==
  ASSUME TypeOK, NEW c \in Calls, Quiet, \A d \in Calls : Snapshot(d), CallStep(c)
  PROVE  \A d \in Calls : Snapshot(d)'
<1>1. effective' = effective /\ up' = up
  <2>1. effective' = effective
    BY SettingStays
  <2>2. up' = up
    BY DEF CallStep, Start, Apply, snapshotConfig, ReadSession, Launch, Deadline, CollectFailure,
       CollectText, Retry, updateState, Tag, CLI, LingererEnds, stateVars
  <2> QED
    BY <2>1, <2>2
<1>2. ASSUME NEW d \in Calls, d # c PROVE Snapshot(d)'
  BY <1>1, <1>2, OthersStay DEF Snapshot
<1>3. Snapshot(c)'
  <2>1. CASE snapshotConfig(c)
    BY <1>1, <2>1 DEF TypeOK, snapshotConfig, Snapshot
  <2>2. CASE ~snapshotConfig(c)
    <3>1. cfg' = cfg
      BY <2>2 DEF CallStep, Start, Apply, ReadSession, Launch, Deadline, CollectFailure,
         CollectText, Retry, updateState, Tag, CLI, LingererEnds, callVars
    <3>2. pc'[c] \in {"read", "launch", "running", "update"}
            => pc[c] \in {"read", "launch", "running", "update"}
      BY <2>2 DEF TypeOK, Goto, CallStep, Start, Apply, ReadSession, Launch, Deadline,
         CollectFailure, CollectText, Retry, updateState, Tag, CLI, LingererEnds, callVars
    <3> QED
      BY <1>1, <3>1, <3>2 DEF Snapshot
  <2> QED
    BY <2>1, <2>2
<1> QED
  BY <1>2, <1>3

\* The session a CLI names has its turn.
LEMMA StepRecorded ==
  ASSUME TypeOK, NEW c \in Calls, Shape(c), Recorded(c), CallStep(c)
  PROVE  Recorded(c)'
<1> USE DEF TypeOK, Goto, stateVars, callVars, cliVars, history
<1>1. CASE Start(c) \/ snapshotConfig(c) \/ ReadSession(c)
  BY <1>1 DEF Start, snapshotConfig, ReadSession, Recorded
<1>2. CASE Launch(c)
  BY <1>2 DEF Launch, Recorded
<1>3. CASE Deadline(c) \/ LingererEnds(c)
  BY <1>3 DEF Deadline, LingererEnds, Recorded
<1>4. CASE CollectFailure(c) \/ CollectText(c)
  BY <1>4 DEF CollectFailure, CollectText, Recorded
<1>5. CASE Retry(c)
  BY <1>5 DEF Retry, Recorded
<1>6. CASE updateState(c) \/ Tag(c)
  BY <1>6 DEF updateState, Tag, Recorded
<1>7. CASE CLI(c)
  <2>1. attempt' = attempt
    BY <1>7 DEF CLI
  <2>2. sid'[c] # None => <<c, attempt[c]>> \in log'[sid'[c]]
    BY <1>7, Answer
  <2> QED
    BY <2>1, <2>2 DEF Recorded
<1> QED
  BY <1>1, <1>2, <1>3, <1>4, <1>5, <1>6, <1>7 DEF CallStep, Apply

\* The second attempt keeps the first one's turn.
LEMMA StepRetried ==
  ASSUME TypeOK, NEW c \in Calls, Shape(c), Recorded(c), Retried(c), CallStep(c)
  PROVE  Retried(c)'
<1> USE DEF TypeOK, Goto, stateVars, callVars, cliVars, history
<1>1. CASE ReadSession(c)
  BY <1>1 DEF ReadSession, Retried
<1>2. CASE Retry(c)
  <2>1. attempt'[c] = 2 => attempt[c] = 1
    BY <1>2 DEF Retry
  <2>2. sid[c] # None /\ resume'[c] = sid[c]
    BY <1>2 DEF Retry, Shape
  <2>3. <<c, attempt[c]>> \in log[sid[c]]
    BY <1>2, <2>2 DEF Retry, Recorded
  <2> QED
    BY <1>2, <2>1, <2>2, <2>3 DEF Retry, Retried
<1>3. CASE CLI(c)
  <2>1. attempt' = attempt /\ resume' = resume
    BY <1>3 DEF CLI
  <2>2. CASE UNCHANGED <<log, minted>> /\ sid' = [sid EXCEPT ![c] = None]
    BY <2>1, <2>2 DEF Retried
  <2>3. ASSUME attempt[c] = 2, NEW s \in Ids,
               s = resume[c] \/ s \notin minted,
               sid' = [sid EXCEPT ![c] = s],
               log' = [log EXCEPT ![s] =
                 {<<c, attempt[c]>>} \cup (IF resume[c] # None THEN log[resume[c]] ELSE {})]
        PROVE  Retried(c)'
    <3>1. resume[c] # None /\ <<c, 1>> \in log[resume[c]]
      BY <2>3 DEF Retried
    <3>2. sid'[c] = s /\ log'[s] = {<<c, attempt[c]>>} \cup log[resume[c]]
      BY <2>3, <3>1
    <3>3. log[resume[c]] \subseteq log'[resume[c]]
      BY <3>1, LogGrows
    <3> QED
      BY <2>1, <3>1, <3>2, <3>3 DEF Retried
  <2> QED
    BY <1>3, <2>1, <2>2, <2>3, Answer DEF Retried
<1>4. CASE ~ReadSession(c) /\ ~Retry(c) /\ ~CLI(c)
  <2>1. UNCHANGED <<attempt, resume, sid, log>>
    BY <1>4 DEF CallStep, Apply, Start, snapshotConfig, Launch, Deadline, CollectFailure,
       CollectText, updateState, Tag, LingererEnds
  <2> QED
    BY <2>1 DEF Retried
<1> QED
  BY <1>1, <1>2, <1>3, <1>4

\* What was recorded for other calls stays recorded.
LEMMA OthersRecorded ==
  ASSUME TypeOK, NEW c \in Calls, CallStep(c), NEW d \in Calls, d # c,
         Shape(d), Recorded(d), Retried(d)
  PROVE  Shape(d)' /\ Recorded(d)' /\ Retried(d)'
<1>1. /\ pc'[d] = pc[d] /\ attempt'[d] = attempt[d] /\ resume'[d] = resume[d]
      /\ cli'[d] = cli[d] /\ text'[d] = text[d] /\ sid'[d] = sid[d]
  BY OthersStay
<1>2. /\ sid[d] # None => log[sid[d]] \subseteq log'[sid[d]]
      /\ resume[d] # None => log[resume[d]] \subseteq log'[resume[d]]
  BY LogGrows DEF TypeOK
<1>3. Shape(d)' /\ Recorded(d)'
  BY <1>1, <1>2 DEF Shape, Recorded
<1>4. Retried(d)'
  BY <1>1, <1>2 DEF Retried
<1> QED
  BY <1>3, <1>4

\* A session is taken from a call whose CLI will not say another.
LEMMA StepAdopted ==
  ASSUME TypeOK, NEW c \in Calls, Shape(c), Adopted, CallStep(c)
  PROVE  Adopted'
<1>1. restored' = restored
  BY DEF CallStep, Start, Apply, snapshotConfig, ReadSession, Launch, Deadline, CollectFailure,
     CollectText, Retry, updateState, Tag, CLI, LingererEnds, history
<1>2. ASSUME NEW d \in Calls, Settled(d) PROVE Settled(d)' /\ sid'[d] = sid[d]
  <2>1. CASE d # c
    BY <1>2, <2>1, OthersStay DEF Settled
  <2>2. CASE d = c
    BY <1>2, <2>2 DEF Settled, TypeOK, Goto, CallStep, Start, Apply, snapshotConfig, ReadSession,
       Launch, Deadline, CollectFailure, CollectText, Retry, updateState, Tag, CLI,
       LingererEnds, cliVars
  <2> QED
    BY <2>1, <2>2
<1>3. CASE updateState(c) /\ sid[c] # None
  <2>1. session' = sid'[c] /\ pc'[c] = "tagging" /\ cli'[c] = "done"
    BY <1>3 DEF TypeOK, Goto, Shape, updateState, cliVars
  <2> QED
    BY <2>1 DEF Adopted, Settled
<1>4. CASE ~(updateState(c) /\ sid[c] # None)
  <2>1. session' = session
    BY <1>4 DEF CallStep, Start, Apply, snapshotConfig, ReadSession, Launch, Deadline,
       CollectFailure, CollectText, Retry, updateState, Tag, CLI, LingererEnds, stateVars
  <2> QED
    BY <1>1, <1>2, <2>1 DEF Adopted
<1> QED
  BY <1>3, <1>4

\* A step of a call, or of its CLI, keeps the invariant.
LEMMA CallInv == ASSUME TurnInv, NEW c \in Calls, CallStep(c) PROVE TurnInv'
<1>1. /\ TypeOK /\ Quiet /\ Known /\ Adopted
      /\ \A d \in Calls : Shape(d) /\ Snapshot(d) /\ Recorded(d) /\ Retried(d)
  BY DEF TurnInv
<1>2. TypeOK' /\ Adopted'
  BY <1>1, CallType, StepAdopted
<1>3. Quiet'
  <2>1. up' = up
    BY DEF CallStep, Start, Apply, snapshotConfig, ReadSession, Launch, Deadline, CollectFailure,
       CollectText, Retry, updateState, Tag, CLI, LingererEnds, stateVars
  <2>2. \A d \in Calls : pc'[d] = pc[d] \/ (d = c /\ (up \/ pc'[d] = pc[d]))
    <3>1. up \/ pc' = pc
      BY <1>1 DEF Quiet, CallStep, Start, Apply, snapshotConfig, ReadSession, Launch, Deadline,
         CollectFailure, CollectText, Retry, updateState, Tag, CLI, LingererEnds, callVars
    <3> QED
      BY <1>1, <3>1, OthersStay
  <2> QED
    BY <1>1, <2>1, <2>2 DEF Quiet
<1>4. Known'
  <2>1. saved' = saved
    BY DEF CallStep, Start, Apply, snapshotConfig, ReadSession, Launch, Deadline, CollectFailure,
       CollectText, Retry, updateState, Tag, CLI, LingererEnds
  <2> QED
    BY <1>1, <2>1, LogGrows DEF Known
<1>5. \A d \in Calls : Snapshot(d)'
  BY <1>1, StepSnapshot
<1>6. ASSUME NEW d \in Calls PROVE Shape(d)' /\ Recorded(d)' /\ Retried(d)'
  <2>1. CASE d = c
    BY <1>1, <2>1, StepShape, StepRecorded, StepRetried
  <2>2. CASE d # c
    BY <1>1, <2>2, OthersRecorded
  <2> QED
    BY <2>1, <2>2
<1> QED
  BY <1>2, <1>3, <1>4, <1>5, <1>6 DEF TurnInv

\* A new runtime, from nothing or from a checkpoint, finds no call on its way.
LEMMA ComesUp == ASSUME TurnInv, Spawn \/ Restore PROVE TurnInv'
<1>1. /\ TypeOK /\ Quiet /\ Known
      /\ \A d \in Calls : Shape(d) /\ Recorded(d) /\ Retried(d)
  BY DEF TurnInv
<1>2. /\ ~up /\ up' = TRUE
      /\ UNCHANGED <<pc, attempt, cfg, resume, tag, cli, text, sid, log, minted, saved, overlapped>>
  BY DEF Spawn, Restore, callVars, cliVars
<1>3. /\ config' \in Models \cup {None} /\ model' \in Models \cup {None}
      /\ session' \in minted \cup {None} /\ restored' \in {session', None}
      /\ session' \in {None, restored'} /\ kept' \subseteq Turns
  <2>1. CASE Spawn
    BY <2>1 DEF Spawn
  <2>2. CASE Restore
    <3>1. PICK s \in saved :
            /\ session' = s.session
            /\ model' = IF config' # None THEN config' ELSE s.model
            /\ kept' = s.turns
            /\ restored' = s.session
      BY <2>2 DEF Restore
    <3>2. s.model \in Models \cup {None} /\ s.turns \subseteq Turns /\ s.session \in minted \cup {None}
      BY <1>1, <3>1 DEF TypeOK, Checkpoints, Known
    <3> QED
      BY <2>2, <3>1, <3>2 DEF Restore
  <2> QED
    BY <2>1, <2>2
<1>4. TypeOK' /\ Quiet' /\ Known' /\ Adopted'
  BY <1>1, <1>2, <1>3 DEF TypeOK, Quiet, Known, Adopted
<1>5. ASSUME NEW d \in Calls PROVE Shape(d)' /\ Snapshot(d)' /\ Recorded(d)' /\ Retried(d)'
  BY <1>1, <1>2 DEF Quiet, Shape, Snapshot, Recorded, Retried
<1> QED
  BY <1>4, <1>5 DEF TurnInv

\* A crash ends the calls; their CLIs run on, and settled ones stay so.
LEMMA CrashInv == ASSUME TurnInv, Crash PROVE TurnInv'
<1>1. /\ TypeOK /\ Known /\ Adopted
      /\ \A d \in Calls : Shape(d) /\ Recorded(d) /\ Retried(d)
  BY DEF TurnInv
<1>2. /\ up' = FALSE
      /\ pc' = [c \in Calls |-> IF pc[c] \in {"idle", "failed"} THEN pc[c] ELSE "lost"]
      /\ cfg' = [c \in Calls |-> None] /\ tag' = [c \in Calls |-> None]
      /\ UNCHANGED <<config, model, session, attempt, resume, cli, text, sid, log, minted, saved,
                     kept, restored, overlapped>>
  BY DEF Crash, cliVars, history
<1>3. TypeOK'
  BY <1>1, <1>2 DEF TypeOK, Ended
<1>4. Quiet' /\ Known'
  BY <1>1, <1>2 DEF Quiet, Known
<1>5. Adopted'
  <2>1. \A d \in Calls : Settled(d) => Settled(d)'
    BY <1>2 DEF Settled
  <2> QED
    BY <1>1, <1>2, <2>1 DEF Adopted
<1>6. ASSUME NEW d \in Calls PROVE Shape(d)' /\ Snapshot(d)' /\ Recorded(d)' /\ Retried(d)'
  BY <1>1, <1>2 DEF Shape, Snapshot, Recorded, Retried
<1> QED
  BY <1>3, <1>4, <1>5, <1>6 DEF TurnInv

\* Every step keeps the invariant.
LEMMA NextInv == ASSUME TurnInv, Next PROVE TurnInv'
<1>1. CASE Checkpoint
  <2>1. [session |-> session, model |-> model, turns |-> kept] \in Checkpoints
    BY DEF TurnInv, TypeOK, Checkpoints
  <2>2. /\ saved' = saved \cup {[session |-> session, model |-> model, turns |-> kept]}
        /\ UNCHANGED <<stateVars, callVars, cliVars, history>>
    BY <1>1 DEF Checkpoint
  <2>3. TypeOK' /\ Known'
    BY <2>1, <2>2 DEF TurnInv, TypeOK, Known, stateVars, callVars, cliVars, history
  <2>4. Quiet' /\ Adopted' /\ effective' = effective
    BY <2>2 DEF TurnInv, Quiet, Adopted, Settled, effective, stateVars, callVars, cliVars, history
  <2>5. ASSUME NEW d \in Calls PROVE Shape(d)' /\ Snapshot(d)' /\ Recorded(d)' /\ Retried(d)'
    BY <2>2, <2>4 DEF TurnInv, Shape, Snapshot, Recorded, Retried, stateVars, callVars, cliVars
  <2> QED
    BY <2>3, <2>4, <2>5 DEF TurnInv
<1> QED
  BY <1>1, CallInv, ComesUp, CrashInv DEF Next, CallStep
-----------------------------------------------------------------------------
(* The caller that waits.                                                  *)

\* What is in a session stays there.
LEMMA InStays ==
  ASSUME TypeOK, NEW c \in Calls, CallStep(c), NEW turns, NEW s \in minted \cup {None},
         In(turns, s)
  PROVE  In(turns, s)'
<1>1. CASE turns = {}
  BY <1>1 DEF In
<1>2. CASE s # None /\ turns \subseteq log[s]
  BY <1>2, LogGrows DEF In
<1> QED
  BY <1>1, <1>2 DEF In

\* What has overlapped once stays so; and the one call of a caller that waits is the
\* only one to change what the caller was told.
LEMMA LoneFrame ==
  ASSUME TypeOK, NEW c \in Calls, CallStep(c)
  PROVE  /\ ~overlapped' => ~overlapped
         /\ UNCHANGED <<up, saved, config>>
         /\ ~updateState(c) => UNCHANGED <<session, kept>>
<1>1. CASE Start(c)
  <2>1. ~overlapped' => ~overlapped
    BY <1>1, Zenon DEF Start
  <2> QED
    BY <1>1, <2>1 DEF Start, stateVars
<1>2. CASE ~Start(c)
  <2>1. overlapped' = overlapped
    BY <1>2 DEF CallStep, Apply, snapshotConfig, ReadSession, Launch, Deadline, CollectFailure,
       CollectText, Retry, updateState, Tag, CLI, LingererEnds, history
  <2>2. UNCHANGED <<up, saved, config>> /\ (~updateState(c) => UNCHANGED <<session, kept>>)
    BY <1>2 DEF CallStep, Apply, snapshotConfig, ReadSession, Launch, Deadline, CollectFailure,
       CollectText, Retry, updateState, Tag, CLI, LingererEnds, stateVars, history
  <2> QED
    BY <2>1, <2>2, Zenon
<1> QED
  BY <1>1, <1>2

\* Such a caller's calls do not meet.
LEMMA StepAlone ==
  ASSUME TypeOK, NEW c \in Calls, CallStep(c), ~overlapped',
         \A p, q \in Calls : Working(p) /\ Working(q) => p = q
  PROVE  \A p, q \in Calls : Working(p)' /\ Working(q)' => p = q
<1>1. \A d \in Calls : d # c => (Working(d)' <=> Working(d))
  BY OthersStay DEF Working
<1>2. CASE Start(c)
  <2>1. \A d \in Calls : ~Working(d)
    BY <1>2 DEF Start, Working
  <2> QED
    BY <1>1, <2>1
<1>3. CASE ~Start(c)
  <2>1. Working(c)' => Working(c)
    BY <1>3 DEF TypeOK, Working, Active, Goto, CallStep, Apply, snapshotConfig, ReadSession, Launch,
       Deadline, CollectFailure, CollectText, Retry, updateState, Tag, CLI, LingererEnds, callVars
  <2> QED
    BY <1>1, <2>1
<1> QED
  BY <1>2, <1>3

\* The turn of such a call ends in a session that has all earlier ones, which becomes the
\* session of the runtime.
LEMMA StepTold ==
  ASSUME LoneInv, NEW c \in Calls, CallStep(c)
  PROVE  Told'
<1> SUFFICES ASSUME ~overlapped' PROVE Told'
  BY DEF Told
<1>1. TypeOK /\ ~overlapped /\ Told /\ Known /\ Recorded(c) /\ Shape(c) /\ Continues(c)
  BY LoneFrame DEF LoneInv, TurnInv
<1>2. \A p, q \in Calls : Working(p)' /\ Working(q)' => p = q
  BY <1>1, StepAlone DEF Told
<1>3. UNCHANGED <<up, saved>>
  BY <1>1, LoneFrame
<1>4. ASSUME NEW s \in saved PROVE In(s.turns, s.session)'
  BY <1>1, InStays DEF Told, Known
<1>5. ASSUME up PROVE In(kept, session)'
  <2>1. CASE updateState(c) /\ sid[c] # None
    <3>1. In(kept, sid[c]) /\ <<c, attempt[c]>> \in log[sid[c]]
      BY <1>1, <2>1 DEF Continues, Recorded, Shape, updateState
    <3>2. session' = sid[c] /\ kept' = kept \cup {<<c, attempt[c]>>} /\ log' = log
      BY <2>1 DEF updateState, cliVars
    <3> QED
      BY <2>1, <3>1, <3>2 DEF In
  <2>2. CASE ~(updateState(c) /\ sid[c] # None)
    <3>1. UNCHANGED <<session, kept>>
      BY <1>1, <2>2, LoneFrame DEF updateState
    <3>2. In(kept, session) /\ session \in minted \cup {None}
      BY <1>1, <1>5 DEF Told, TypeOK
    <3> QED
      BY <1>1, <3>1, <3>2, InStays DEF In
  <2> QED
    BY <2>1, <2>2
<1> QED
  BY <1>2, <1>3, <1>4, <1>5 DEF Told

\* And it goes on from them at every point on the way.
LEMMA StepContinues ==
  ASSUME LoneInv, NEW c \in Calls, CallStep(c), NEW d \in Calls
  PROVE  Continues(d)'
<1> SUFFICES ASSUME ~overlapped' PROVE Continues(d)'
  BY DEF Continues
<1>1. /\ TypeOK /\ ~overlapped /\ Told /\ Quiet
      /\ Shape(c) /\ Shape(d) /\ Continues(c) /\ Continues(d)
  BY LoneFrame DEF LoneInv, TurnInv
<1>2. CASE d # c
  <2>1. /\ pc'[d] = pc[d] /\ resume'[d] = resume[d] /\ tag'[d] = tag[d]
        /\ cli'[d] = cli[d] /\ sid'[d] = sid[d]
    BY <1>1, <1>2, OthersStay
  <2>2. Working(d) => ~updateState(c)
    BY <1>1, <1>2 DEF Told, Working, Active, updateState
  <2>3. Working(d) => UNCHANGED <<session, kept>>
    BY <1>1, <2>2, LoneFrame
  <2>4. ASSUME pc[d] \in {"launch", "running", "update"} PROVE In(kept, resume[d])'
    <3>1. In(kept, resume[d]) /\ resume[d] \in minted \cup {None} /\ kept' = kept
      BY <1>1, <2>3, <2>4 DEF Continues, TypeOK, Working, Active
    <3> QED
      BY <1>1, <2>1, <3>1, InStays DEF In
  <2>5. ASSUME pc[d] \in {"running", "update"}, cli[d] = "done", sid[d] # None
        PROVE  In(kept, sid[d])'
    <3>1. In(kept, sid[d]) /\ sid[d] \in minted \cup {None} /\ kept' = kept
      BY <1>1, <2>3, <2>5 DEF Continues, TypeOK, Working, Active
    <3> QED
      BY <1>1, <2>1, <3>1, InStays DEF In
  <2>6. pc[d] = "tagging" => session' = session
    BY <2>3 DEF Working, Active
  <2> QED
    BY <1>1, <2>1, <2>4, <2>5, <2>6 DEF Continues
<1>3. CASE d = c
  <2> USE DEF TypeOK, Goto
  <2>1. CASE Start(c) \/ snapshotConfig(c)
    BY <1>1, <1>3, <2>1 DEF Start, snapshotConfig, Continues
  <2>2. CASE ReadSession(c)
    <3>1. up /\ In(kept, session)
      BY <1>1, <2>2 DEF ReadSession, Quiet, Told
    <3>2. pc'[c] = "launch" /\ resume'[c] = session /\ UNCHANGED <<kept, log>>
      BY <1>1, <2>2 DEF ReadSession, cliVars, history
    <3> QED
      BY <1>3, <3>1, <3>2 DEF Continues, In
  <2>3. CASE Launch(c)
    <3>1. pc[c] = "launch" /\ UNCHANGED <<kept, log, resume>>
          /\ (pc'[c] = "failed" \/ (pc'[c] = "running" /\ cli'[c] = "running"))
      BY <1>1, <2>3 DEF Launch, history
    <3> QED
      BY <1>1, <1>3, <3>1 DEF Continues, In
  <2>4. CASE Deadline(c) \/ LingererEnds(c)
    <3>1. cli'[c] # "done" /\ UNCHANGED <<pc, kept, log, resume, tag, session, sid>>
      BY <1>1, <2>4 DEF Deadline, LingererEnds, callVars, stateVars, history
    <3> QED
      BY <1>1, <1>3, <3>1 DEF Continues, In
  <2>5. CASE CollectFailure(c) \/ CollectText(c)
    <3>1. /\ pc[c] = "running" /\ UNCHANGED <<kept, log, resume, sid, cli>>
          /\ pc'[c] \in {"failed", "update"}
      BY <1>1, <2>5 DEF CollectFailure, CollectText, cliVars, history
    <3> QED
      BY <1>1, <1>3, <3>1 DEF Continues, In
  <2>6. CASE Retry(c)
    <3>1. sid[c] # None /\ In(kept, sid[c])
      BY <1>1, <2>6 DEF Retry, Shape, Continues
    <3>2. pc'[c] = "launch" /\ resume'[c] = sid[c] /\ UNCHANGED <<kept, log>>
      BY <1>1, <2>6, <3>1 DEF Retry, cliVars, history
    <3> QED
      BY <1>3, <3>1, <3>2 DEF Continues, In
  <2>7. CASE updateState(c)
    <3>1. pc'[c] = "tagging" /\ (sid'[c] # None => session' = sid'[c])
      BY <1>1, <2>7 DEF updateState, cliVars
    <3> QED
      BY <1>3, <3>1 DEF Continues
  <2>8. CASE Tag(c)
    <3>1. pc[c] = "tagging" /\ pc'[c] = "ok" /\ tag'[c] = session /\ sid' = sid
      BY <1>1, <2>8 DEF Tag, cliVars
    <3> QED
      BY <1>1, <1>3, <3>1 DEF Continues
  <2>9. CASE CLI(c)
    <3>1. UNCHANGED <<pc, kept, resume, tag, session>> /\ cli[c] = "running"
      BY <1>1, <2>9 DEF CLI, callVars, stateVars, history
    <3>2. pc[c] \notin {"update", "tagging", "ok"}
      BY <1>1, <3>1 DEF Shape
    <3>3. ASSUME pc[c] \in {"launch", "running"} PROVE In(kept, resume[c]) /\ In(kept, resume[c])'
      <4>1. In(kept, resume[c]) /\ resume[c] \in minted \cup {None}
        BY <1>1, <3>3 DEF Continues
      <4> QED
        BY <1>1, <3>1, <4>1, InStays DEF In
    <3>4. ASSUME pc[c] = "running", sid'[c] # None PROVE In(kept, sid[c])'
      <4>1. PICK s \in Ids :
              /\ sid' = [sid EXCEPT ![c] = s]
              /\ log' = [log EXCEPT ![s] =
                   {<<c, attempt[c]>>} \cup (IF resume[c] # None THEN log[resume[c]] ELSE {})]
        <5>1. sid' # [sid EXCEPT ![c] = None]
          BY <1>1, <3>4
        <5> HIDE DEF TypeOK
        <5> QED
          BY <1>1, <2>9, <5>1, Answer
      <4>2. sid'[c] = s /\ s # None
            /\ log'[s] = {<<c, attempt[c]>>} \cup (IF resume[c] # None THEN log[resume[c]] ELSE {})
        BY <1>1, <4>1, AClaude
      <4> QED
        BY <3>1, <3>3, <3>4, <4>2 DEF In
    <3> QED
      BY <1>3, <3>1, <3>2, <3>3, <3>4 DEF Continues
  <2> QED
    BY <2>1, <2>2, <2>3, <2>4, <2>5, <2>6, <2>7, <2>8, <2>9 DEF CallStep, Apply
<1> QED
  BY <1>2, <1>3

\* A new runtime was told of nothing, or of what its checkpoint's session has.
LEMMA ComesUpTold == ASSUME LoneInv, Spawn \/ Restore PROVE Told' /\ \A d \in Calls : Continues(d)'
<1>1. /\ Quiet /\ Told /\ ~up
      /\ UNCHANGED <<pc, log, saved, overlapped>>
  BY DEF LoneInv, TurnInv, Spawn, Restore, callVars, cliVars
<1>2. ~overlapped => In(kept', session')
  <2>1. CASE Spawn
    BY <2>1 DEF Spawn, In
  <2>2. CASE Restore
    BY <1>1, <2>2 DEF Restore, Told
  <2> QED
    BY <2>1, <2>2
<1>3. Told'
  BY <1>1, <1>2 DEF Told, Working, In
<1>4. ASSUME NEW d \in Calls PROVE Continues(d)'
  <2>1. pc'[d] \in {"idle", "failed", "lost"}
    BY <1>1 DEF Quiet
  <2> QED
    BY <2>1 DEF Continues
<1> QED
  BY <1>3, <1>4

\* Every step keeps what a caller that waits can rely on.
LEMMA NextLone == ASSUME LoneInv, Next PROVE Told' /\ \A d \in Calls : Continues(d)'
<1>1. CASE \E c \in Calls : CallStep(c)
  BY <1>1, StepTold, StepContinues
<1>2. CASE Spawn \/ Restore
  BY <1>2, ComesUpTold
<1>3. CASE Checkpoint
  <2>1. /\ Told /\ up
        /\ saved' = saved \cup {[session |-> session, model |-> model, turns |-> kept]}
        /\ UNCHANGED <<up, session, pc, resume, tag, cli, sid, log, kept, overlapped>>
    BY <1>3 DEF LoneInv, Checkpoint, stateVars, callVars, cliVars, history
  <2>2. Told'
    BY <2>1 DEF Told, Working, In
  <2>3. ASSUME NEW d \in Calls PROVE Continues(d)'
    BY <2>1 DEF LoneInv, Continues, In
  <2> QED
    BY <2>2, <2>3
<1>4. CASE Crash
  <2>1. /\ Told /\ ~up'
        /\ \A d \in Calls : pc'[d] \in {"idle", "failed", "lost"}
        /\ UNCHANGED <<saved, log, overlapped>>
    BY <1>4 DEF LoneInv, Crash, cliVars, history
  <2>2. Told'
    BY <2>1 DEF Told, Working, Active, In
  <2>3. ASSUME NEW d \in Calls PROVE Continues(d)'
    BY <2>1 DEF Continues
  <2> QED
    BY <2>2, <2>3
<1> QED
  BY <1>1, <1>2, <1>3, <1>4 DEF Next, CallStep

\* So does a step that changes nothing.
LEMMA StutterInv == ASSUME LoneInv, UNCHANGED vars PROVE LoneInv'
<1>1. UNCHANGED <<up, config, model, session, pc, attempt, cfg, resume, tag, cli, text, sid, log,
                  minted, saved, kept, restored, overlapped>>
  BY DEF vars, stateVars, callVars, cliVars, history
<1>2. TypeOK' /\ Quiet' /\ Known' /\ Adopted' /\ Told'
  BY <1>1 DEF LoneInv, TurnInv, TypeOK, Quiet, Known, Adopted, Settled, Told, Working, In
<1>3. ASSUME NEW d \in Calls
      PROVE  Shape(d)' /\ Snapshot(d)' /\ Recorded(d)' /\ Retried(d)' /\ Continues(d)'
  BY <1>1 DEF LoneInv, TurnInv, Shape, Snapshot, effective, Recorded, Retried, Continues, In
<1> QED
  BY <1>2, <1>3 DEF LoneInv, TurnInv
-----------------------------------------------------------------------------
(* Theorems.                                                               *)

\* The invariant holds.
THEOREM Invariant == Spec => []LoneInv
<1>1. LoneInv /\ [Next]_vars => LoneInv'
  <2>1. ASSUME LoneInv, Next PROVE LoneInv'
    <3>1. TurnInv'
      BY <2>1, NextInv DEF LoneInv
    <3> QED
      BY <2>1, <3>1, NextLone DEF LoneInv
  <2> QED
    BY <2>1, StutterInv
<1> QED
  BY <1>1, InitInv, PTL DEF Spec

\* The runtime, its calls and the CLI's sessions keep their types.
THEOREM TypeCorrect == Spec => []TypeOK
<1>1. LoneInv => TypeOK
  BY DEF LoneInv, TurnInv
<1> QED
  BY <1>1, Invariant, PTL

\* The runtime never goes on in a session of a call that failed or timed out
\* (claudecode.go:257).
THEOREM FailedNotAdopted == Spec => []FailedSessionNotAdopted
<1>1. LoneInv => FailedSessionNotAdopted
  BY DEF LoneInv, TurnInv, Adopted, Settled, FailedSessionNotAdopted
<1> QED
  BY <1>1, Invariant, PTL

\* The second attempt ends in a session that has recorded the first one.
THEOREM RetriesContinue == Spec => []RetryContinues
<1>1. LoneInv => RetryContinues
  BY DEF LoneInv, TurnInv, Retried, RetryContinues
<1> QED
  BY <1>1, Invariant, PTL

\* The session that the next call of a caller that waits resumes has every turn the
\* caller was told of, before and since the last restore.
THEOREM TurnsKept == Spec => []AcknowledgedTurnsKept
<1>1. LoneInv => AcknowledgedTurnsKept
  BY DEF LoneInv, Told, In, AcknowledgedTurnsKept
<1> QED
  BY <1>1, Invariant, PTL

\* A reply to such a caller names the session of its turn.
THEOREM RepliesName == Spec => []ReplyNamesItsSession
<1>1. LoneInv => ReplyNamesItsSession
  BY DEF LoneInv, Continues, ReplyNamesItsSession
<1> QED
  BY <1>1, Invariant, PTL

\* The setting in effect does not change in the life of a runtime, although every call
\* writes back the one it read, however calls overlap.
THEOREM SettingKept == Spec => SettingStable
<1>1. ASSUME LoneInv, [Next]_vars, up, up' PROVE effective' = effective
  <2>1. TypeOK /\ Quiet /\ \A c \in Calls : Snapshot(c)
    BY <1>1 DEF LoneInv, TurnInv
  <2>2. CASE \E c \in Calls : CallStep(c)
    BY <2>1, <2>2, SettingStays
  <2>3. CASE Spawn \/ Restore \/ Crash
    BY <1>1, <2>3 DEF Spawn, Restore, Crash
  <2>4. CASE Checkpoint \/ UNCHANGED vars
    BY <2>4 DEF Checkpoint, vars, stateVars, effective
  <2> QED
    BY <1>1, <2>2, <2>3, <2>4 DEF Next, CallStep
<1>2. LoneInv /\ [Next]_vars => [up /\ up' => effective' = effective]_vars
  BY <1>1
<1> QED
  BY <1>2, Invariant, PTL DEF Spec, SettingStable
=============================================================================
