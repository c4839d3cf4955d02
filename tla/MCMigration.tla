---------------------------- MODULE MCMigration ----------------------------
(***************************************************************************)
(* Environments for Migration.                                             *)
(***************************************************************************)
EXTENDS Migration, TLC

Words(texts) == {w \in [text : texts, style : {"plain", "double", "single"}] : w \in Word}

Texts1 == {<<c>> : c \in {"a", " ", "'", "\\"}}
Texts2 == {t \o u : t \in Texts1, u \in Texts1}
Pairs  == {<<"a">>, <<"a", " ">>, <<" ", "a">>, <<"a", "'">>, <<"\\", "a">>}

Lines ==
  {<<>>} \cup {<<w>> : w \in Words(Texts1 \cup Texts2)}
         \cup {<<v, w>> : v \in Words(Pairs), w \in Words(Pairs)}

Env(type, found, anthropic, claude, token, line) ==
  [type |-> type, found |-> found, anthropic |-> anthropic, claude |-> claude,
   token |-> token, flags |-> Written(line), line |-> line]

\* Flags that nobody writes by the rules.
Unruly == {<<"'">>, <<"a", "\"">>, <<"\\">>, <<" ", "a", "'", " ", "'">>}

\* No settings, one variable blank and the other set, or both set; with and without a
\* token or a binary; and every line of flags.
MCEnvironments ==
       {Env(t, TRUE, m[1], m[2], k, <<>>) :
          t \in CLIKinds, m \in {<<Empty, Empty>>, <<<<" ">>, <<"b">>>>, <<<<"a">>, <<"b">>>>},
          k \in {<<" ">>, <<"k">>}}
  \cup {Env(t, TRUE, Empty, Empty, Empty, <<>>) : t \in {"unset", "test", "openclaw", "ollama"}}
  \cup {Env("claude", FALSE, Empty, Empty, Empty, <<>>)}
  \cup {Env("claude", TRUE, Empty, Empty, Empty, line) : line \in Lines}
  \cup {[Env("claude", TRUE, Empty, Empty, Empty, <<>>) EXCEPT !.flags = f] : f \in Unruly}

MCRequestTags ==
  {[botToken |-> <<" ">>], [botToken |-> <<"t">>, Model |-> <<" ">>, modelName |-> <<"c", " ">>]}
=============================================================================
