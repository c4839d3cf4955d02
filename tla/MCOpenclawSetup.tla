-------------------------- MODULE MCOpenclawSetup --------------------------
(***************************************************************************)
(* Tags and answers for OpenclawSetup.                                     *)
(***************************************************************************)
EXTENDS OpenclawSetup, TLC

\* With and without a key, a provider tag in other letters and a Telegram field; models
\* with and without a provider, with two slashes, and with nothing after the slash.
Tags(k, p, m, t) == [apiKey |-> k, Provider |-> p, model |-> m, allowFrom |-> t]

NoTag    == <<" ">>
Key      == <<" ", "k">>
Provider == <<" ", "P">>
Telegram == <<"u", ",">>
MCSpawnTags ==
  { Tags(NoTag, NoTag, NoTag, <<" ", ",">>),
    Tags(Key, NoTag, <<"P", "/", "m">>, Telegram),
    Tags(Key, NoTag, <<"m">>, NoTag),
    Tags(Key, Provider, <<"q", "/", "m", "/", "n">>, NoTag),
    Tags(NoTag, Provider, <<"q", "/">>, Telegram) }

MCConfigTags ==
  {[configAction |-> <<"other">>, method |-> <<"apply">>], [method |-> <<" ">>]}

Text(t) == [text |-> t]
Map(f)  == [map |-> f]

\* The hash at a known path, next to another one; in a list somewhere; in one of two
\* places of which either may be taken; nowhere.
MCHashAnswers ==
  { Map([result |-> Map([hash |-> Text(<<"current">>), plugin |-> Map([hash |-> Text(<<"x">>)])])]),
    Map([result |-> Map([content |-> [list |-> <<Text(<<"t">>), Map([Hash |-> Text(<<"current">>)])>>]])]),
    Map([details |-> Map([hash |-> Text(<<"current">>)]), plugin |-> Map([hash |-> Text(<<"x">>)])]),
    Map([ok |-> Text(<<"true">>)]) }

\* The checkpoint of an earlier life, if any, is one of the fallback session: what a
\* restored runtime can hold is the subject of MCOpenclawRuntime.
MCInit      == SetupInit /\ saved \subseteq {Fallback}
MCFairSetup ==
  MCInit /\ [][SetupSystemNext]_allVars /\ \A c \in Calls : WF_allVars(SetupCallStep(c))
=============================================================================
