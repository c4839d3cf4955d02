----------------------- MODULE BootstrapConfigProofs -----------------------
(***************************************************************************)
(* Theorems about BootstrapConfig, for any modes and models and any number *)
(* of faults.                                                              *)
(*                                                                         *)
(* A start decides what to write in one step and renames it into place     *)
(* three steps later.  IInv says that what it decided is still right then  *)
(* (Drafted), and that the temporary file it renames is what it wrote and  *)
(* not what an earlier start left behind (Written).  The sessions file is  *)
(* looked at in one step and filled in the next: Created says that it is   *)
(* still the empty one.                                                    *)
(***************************************************************************)
EXTENDS BootstrapConfig, TLAPS

Template == Whole(env.mode, None, "template")

\* From the decision to the rename, the configuration is what it was decided on.
Drafted ==
  pc \in {"open", "write", "rename"} =>
    \/ target = "template" /\ config = Absent /\ draft = Template
    \/ target = "managed" /\ config \in Configs /\ draft = Managed(config)

Written == pc = "rename" => tmp = draft

\* A sessions file that prepare is about to fill is the one it has just created.
Created == pc = "sessions" => sessions = "empty"

IInv == TypeOK /\ Drafted /\ Written /\ Created

-----------------------------------------------------------------------------

\* The template of a start is a configuration.
LEMMA TemplateIsConfig == ASSUME TypeOK PROVE Template \in Configs
<1>1. env.mode \in Modes \cup {None}
  BY DEF TypeOK
<1> QED
  BY <1>1 DEF Template, Configs

\* A configuration with the managed settings of a start is a configuration, and has
\* them.
LEMMA ManagedIsConfig ==
  ASSUME TypeOK, NEW c \in Configs
  PROVE  Managed(c) \in Configs /\ (env.model # None => Managed(c).model = env.model)
<1>1. PICK g \in Modes \cup {None}, m \in Models \cup {None},
           r \in {"template", "edited"} : c = Whole(g, m, r)
  BY DEF Configs
<1>2. env.model \in Models \cup {None}
  BY DEF TypeOK
<1>3. CASE env.model = None
  BY <1>3 DEF Managed
<1>4. CASE env.model # None
  <2>1. Managed(c) = Whole(g, env.model, r)
    BY <1>1, <1>4 DEF Managed, Whole
  <2>2. Managed(c) \in Configs
    BY <2>1, <1>2 DEF Configs
  <2> QED
    BY <2>1, <2>2 DEF Whole
<1> QED
  BY <1>3, <1>4

\* A container that never started has no configuration.
LEMMA InitInv == Init => IInv
<1> SUFFICES ASSUME Init PROVE IInv
  OBVIOUS
<1>1. faults \in 0 .. MaxFaults
  BY ABootstrap DEF Init
<1>2. env \in [mode : Modes \cup {None}, model : Models \cup {None}]
  BY DEF Init
<1>3. TypeOK
  BY <1>1, <1>2 DEF Init, TypeOK, Files
<1>4. Drafted /\ Written /\ Created
  BY DEF Init, Drafted, Written, Created
<1> QED
  BY <1>3, <1>4 DEF IInv

\* Every step stays in the types: whatever is written is a configuration.
LEMMA NextType == ASSUME IInv, Next PROVE TypeOK'
<1>a. /\ draft \in Configs => draft \in Files
      /\ Absent \in Files /\ Torn \in Files
  BY DEF Files
<1>b. Template \in Configs /\ (config \in Configs => Managed(config) \in Configs)
  BY TemplateIsConfig, ManagedIsConfig DEF IInv
<1>c. pc = "rename" => draft \in Configs
  BY <1>b DEF IInv, Drafted
<1> USE ABootstrap DEF IInv, TypeOK, Goto, Fail
<1>1. CASE Boot
  BY <1>1 DEF Boot
<1>2. CASE EnsureOpenclawStateLayout \/ WriteSessions
  BY <1>2 DEF EnsureOpenclawStateLayout, WriteSessions
<1>3. CASE MaterializeOpenclawConfig
  BY <1>3, <1>b DEF MaterializeOpenclawConfig, Template
<1>4. CASE ApplyManagedOpenclawConfig
  BY <1>4, <1>b DEF ApplyManagedOpenclawConfig
<1>5. CASE OpenTmp
  BY <1>5, <1>a DEF OpenTmp
<1>6. CASE WriteTmp
  <2>1. draft \in Files
    BY <1>6, <1>a, <1>b DEF WriteTmp, Drafted
  <2> QED
    BY <1>6, <2>1 DEF WriteTmp
<1>7. CASE RenameTmp
  BY <1>7, <1>a DEF RenameTmp
<1>8. CASE RemoveTmp
  BY <1>8, <1>a DEF RemoveTmp
<1>9. CASE Edit \/ UseSessions \/ Crash
  BY <1>9 DEF Edit, UseSessions, Crash
<1> QED
  BY <1>1, <1>2, <1>3, <1>4, <1>5, <1>6, <1>7, <1>8, <1>9
     DEF Next, PrepareOpenclawRuntime

\* Nothing changes the configuration or the environment under a draft, and no step
\* before the rename writes anything else to the temporary file.
LEMMA NextDraft == ASSUME IInv, Next PROVE Drafted' /\ Written'
<1> USE DEF IInv, Goto, Fail, Drafted, Written, Template, Managed, Preparing
<1>1. CASE Boot
  BY <1>1 DEF Boot
<1>2. CASE EnsureOpenclawStateLayout \/ WriteSessions
  BY <1>2 DEF EnsureOpenclawStateLayout, WriteSessions
<1>3. CASE MaterializeOpenclawConfig
  BY <1>3 DEF MaterializeOpenclawConfig
<1>4. CASE ApplyManagedOpenclawConfig
  BY <1>4 DEF ApplyManagedOpenclawConfig
<1>5. CASE OpenTmp
  BY <1>5 DEF OpenTmp
<1>6. CASE WriteTmp
  BY <1>6 DEF WriteTmp
<1>7. CASE RenameTmp
  BY <1>7 DEF RenameTmp
<1>8. CASE RemoveTmp
  BY <1>8 DEF RemoveTmp
<1>9. CASE Edit \/ UseSessions \/ Crash
  BY <1>9 DEF Edit, UseSessions, Crash
<1> QED
  BY <1>1, <1>2, <1>3, <1>4, <1>5, <1>6, <1>7, <1>8, <1>9
     DEF Next, PrepareOpenclawRuntime

\* The gateway, which records sessions, is not up while prepare is at work; so prepare
\* fills a file that nobody has used, and leaves any other.
LEMMA NextSessions ==
  ASSUME IInv, Next
  PROVE  Created' /\ (sessions = "used" => sessions' = "used")
<1> USE DEF IInv, Goto, Fail, Created
<1>1. CASE EnsureOpenclawStateLayout
  BY <1>1 DEF EnsureOpenclawStateLayout
<1>2. CASE WriteSessions
  BY <1>2 DEF WriteSessions
<1>3. CASE UseSessions
  BY <1>3 DEF UseSessions
<1>4. CASE ~EnsureOpenclawStateLayout /\ ~WriteSessions /\ ~UseSessions
  <2>1. sessions' = sessions /\ (pc' = "sessions" => pc = "sessions")
    BY <1>4 DEF Next, PrepareOpenclawRuntime, Boot, MaterializeOpenclawConfig,
       ApplyManagedOpenclawConfig, OpenTmp, WriteTmp, RenameTmp, RemoveTmp, Edit, Crash
  <2> QED
    BY <2>1
<1> QED
  BY <1>1, <1>2, <1>3, <1>4

\* Only the rename changes the configuration of a start, to what was decided.
LEMMA NextWhole ==
  ASSUME IInv, Next, Preparing, config' # config
  PROVE  \/ config = Absent /\ config' = Template
         \/ config \in Configs /\ config' = Managed(config)
<1>1. CASE RenameTmp
  BY <1>1 DEF RenameTmp, IInv, Drafted, Written
<1>2. CASE ~RenameTmp
  BY <1>2 DEF Next, PrepareOpenclawRuntime, Boot, EnsureOpenclawStateLayout,
     WriteSessions, MaterializeOpenclawConfig, ApplyManagedOpenclawConfig, OpenTmp,
     WriteTmp, RemoveTmp, Edit, UseSessions, Crash
<1> QED
  BY <1>1, <1>2

\* A start comes up through one of two steps: nothing had to change, or the managed
\* configuration was renamed into place.
LEMMA NextUp ==
  ASSUME IInv, Next, pc # "up", pc' = "up"
  PROVE  config' \in Configs /\ (env.model # None => config'.model = env.model)
<1>1. CASE ApplyManagedOpenclawConfig
  <2>1. config \in Configs /\ Managed(config) = config /\ config' = config
    BY <1>1 DEF ApplyManagedOpenclawConfig, Goto, Fail
  <2> QED
    BY <2>1, ManagedIsConfig DEF IInv
<1>2. CASE RenameTmp
  <2>1. config \in Configs /\ config' = Managed(config)
    BY <1>2 DEF RenameTmp, Goto, IInv, Drafted, Written
  <2> QED
    BY <2>1, ManagedIsConfig DEF IInv
<1>3. CASE ~ApplyManagedOpenclawConfig /\ ~RenameTmp
  BY <1>3 DEF Next, PrepareOpenclawRuntime, Boot, EnsureOpenclawStateLayout,
     WriteSessions, MaterializeOpenclawConfig, OpenTmp, WriteTmp, RemoveTmp, Edit,
     UseSessions, Crash, Goto, Fail
<1> QED
  BY <1>1, <1>2, <1>3

-----------------------------------------------------------------------------

\* The inductive invariant holds over any number of starts, crashes and edits.
THEOREM Invariant == Spec => []IInv
<1>1. IInv /\ [Next]_vars => IInv'
  <2>1. ASSUME IInv, Next PROVE IInv'
    BY <2>1, NextType, NextDraft, NextSessions DEF IInv
  <2>2. ASSUME IInv, UNCHANGED vars PROVE IInv'
    BY <2>2 DEF vars, IInv, TypeOK, Drafted, Written, Created, Template, Managed
  <2> QED
    BY <2>1, <2>2
<1> QED
  BY <1>1, InitInv, PTL DEF Spec

\* Every start stays in its types: openclaw.json is only ever absent, a whole
\* configuration, or what somebody else tore.
THEOREM TypeCorrect == Spec => []TypeOK
<1>1. IInv => TypeOK
  BY DEF IInv
<1> QED
  BY <1>1, Invariant, PTL

\* Whatever dies and wherever, a start changes the configuration only as a whole
\* (openclaw_bootstrap.go:135, 188 and 227).
THEOREM ChangesWhole == Spec => ConfigChangesWhole
<1>1. ASSUME IInv, [Next]_vars, Preparing, config' # config
      PROVE  \/ config = Absent /\ config' = Whole(env.mode, None, "template")
             \/ config \in Configs /\ config' = Managed(config)
  BY <1>1, NextWhole DEF Template, vars
<1>2. IInv /\ [Next]_vars =>
        [Preparing /\ config' # config =>
           \/ config = Absent /\ config' = Whole(env.mode, None, "template")
           \/ config \in Configs /\ config' = Managed(config)]_vars
  BY <1>1
<1> QED
  BY <1>2, Invariant, PTL DEF Spec, ConfigChangesWhole

\* A container that comes up has the managed settings of its own environment
\* (openclaw_bootstrap.go:198).
THEOREM UpManaged == Spec => ComesUpManaged
<1>1. ASSUME IInv, [Next]_vars, pc # "up", pc' = "up"
      PROVE  config' \in Configs /\ (env.model # None => config'.model = env.model)
  BY <1>1, NextUp DEF vars
<1>2. IInv /\ [Next]_vars =>
        [pc # "up" /\ pc' = "up" =>
           config' \in Configs /\ (env.model # None => config'.model = env.model)]_vars
  BY <1>1
<1> QED
  BY <1>2, Invariant, PTL DEF Spec, ComesUpManaged

\* Sessions the gateway recorded are never lost to a restart, although prepare looks for
\* the file in one step and writes it in the next (openclaw_bootstrap.go:165).
THEOREM KeepsSessions == Spec => SessionsKept
<1>1. ASSUME IInv, [Next]_vars, sessions = "used" PROVE sessions' = "used"
  BY <1>1, NextSessions DEF vars
<1>2. IInv /\ [Next]_vars => [sessions = "used" => sessions' = "used"]_vars
  BY <1>1
<1> QED
  BY <1>2, Invariant, PTL DEF Spec, SessionsKept
=============================================================================
