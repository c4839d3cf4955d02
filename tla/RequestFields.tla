--------------------------- MODULE RequestFields ---------------------------
(***************************************************************************)
(* What the openclaw runtime reads out of a request's tags and out of the  *)
(* gateway's answers (src/runtime/openclaw/tools.go).                      *)
(*                                                                         *)
(* A text is a sequence of words: a blank " ", a separator "/" or ",", or  *)
(* a name; "P" is the name "p" in other letters.  A JSON document is a     *)
(* record of a kind: [text |-> t], [map |-> f] with f from member names to *)
(* documents, or [list |-> s].  Go goes through the members of a map in an *)
(* order of its own, so what a search of a document finds is a set: any    *)
(* element of it may be the result, and the empty set is "".               *)
(***************************************************************************)
EXTENDS Texts, Integers

CONSTANT MaxNesting  \* bound: the levels of documents in documents

ASSUME ANesting == MaxNesting \in Nat

lower(t) == [i \in DOMAIN t |-> IF t[i] = "P" THEN "p" ELSE t[i]]

normalizeProviderName(t) == lower(trim(t))

\* The provider before the first slash, if there is one, and the rest.
splitModelName(model) ==
  LET t == trim(model)
      slashes == {i \in DOMAIN t : t[i] = "/"}
  IN  IF slashes = {} THEN [provider |-> Empty, name |-> t]
      ELSE [provider |-> normalizeProviderName(SubSeq(t, 1, Min(slashes) - 1)),
            name     |-> trim(SubSeq(t, Min(slashes) + 1, Len(t)))]

extractProviderTagValue(tags) == lower(FirstOf(tags, <<"provider", "Provider">>))

extractModelInput(tags) == FirstOf(tags, <<"model", "Model", "modelName", "ModelName", "data">>)

\* Fault: a provider tag is put before the whole model.
extractModelName_Prefixed(tags) ==
  LET provider == extractProviderTagValue(tags)
      model    == extractModelInput(tags)
  IN  IF model = Empty \/ provider = Empty \/ splitModelName(model).provider # Empty
      THEN model ELSE provider \o <<"/">> \o model

\* A provider tag replaces the model's own; a model that is only a provider and a
\* slash leaves the provider alone.
extractModelName(tags) ==
  LET provider == extractProviderTagValue(tags)
      model    == extractModelInput(tags)
      suffix   == splitModelName(model).name
  IN  IF model = Empty \/ provider = Empty THEN model
      ELSE IF suffix = Empty THEN provider ELSE provider \o <<"/">> \o suffix

extractProviderName(tags) ==
  LET provider == extractProviderTagValue(tags)
  IN  IF provider # Empty THEN provider ELSE splitModelName(extractModelName(tags)).provider

extractModelAPIKey(tags) == FirstOf(tags, <<"apiKey", "modelApiKey", "OPENAI_API_KEY">>)

extractAuthProfileID(provider, tags) ==
  LET given == FirstOf(tags, <<"authProfileId", "profileId">>)
  IN  IF given # Empty THEN given
      ELSE IF provider = Empty THEN Empty ELSE provider \o <<":default">>

\* strings.Split at the commas, blank parts left out; only whether any part is left
\* matters below.
parseStringList(t) == {i \in DOMAIN t : t[i] \notin {Blank, ","}}

buildTelegramConfigPatch(tags) ==
  \/ \E name \in {"botToken", "defaultAccount", "dmPolicy"} : FirstOf(tags, <<name>>) # Empty
  \/ parseStringList(FirstOf(tags, <<"allowFrom">>)) # {}

\* A word that is no action is passed over, and the next name looked at.
extractConfigAction(tags) ==
  LET names == <<"configAction", "method">>
      known == {i \in DOMAIN names :
                  names[i] \in DOMAIN tags /\ trim(tags[names[i]]) \in {<<"patch">>, <<"apply">>}}
  IN  IF known = {} THEN <<"patch">> ELSE trim(tags[names[Min(known)]])

-----------------------------------------------------------------------------
(* The gateway's answers.                                                  *)

IsText(v) == "text" \in DOMAIN v
IsMap(v)  == "map" \in DOMAIN v

\* lookupStringPath: the member at each name of the path in turn.
Member(documents, k) ==
  {v.map[k] : v \in {w \in documents : IsMap(w) /\ k \in DOMAIN w.map}}

Lookup(v, path) ==
  LET reached[i \in 0 .. Len(path)] == IF i = 0 THEN {v} ELSE Member(reached[i - 1], path[i])
  IN  {trim(w.text) : w \in {d \in reached[Len(path)] : IsText(d) /\ trim(d.text) # Empty}}

\* The names that normalizeKey takes for "hash", and what a document has under them.
HashNames == {"hash", "Hash"}
HashIn(w) == UNION {Lookup(w, <<k>>) : k \in HashNames}

Children(v) == IF IsText(v) THEN {} ELSE IF IsMap(v) THEN Range(v.map) ELSE ToSet(v.list)

\* A document and those nested in it, by their depth.
Level(v) ==
  LET level[n \in 0 .. MaxNesting] ==
        IF n = 0 THEN {v} ELSE UNION {Children(w) : w \in level[n - 1]}
  IN  level

Documents(v) == UNION Range(Level(v))

\* Every part of it is of one of the kinds, and none is nested too deep.
Document(v) ==
  /\ \A w \in Documents(v) :
       \/ DOMAIN w = {"text"} /\ w.text \in Seq(STRING)
       \/ DOMAIN w = {"map"}
       \/ DOMAIN w = {"list"} /\ w.list \in Seq(Children(w))
  /\ \A w \in Level(v)[MaxNesting] : Children(w) = {}

\* A member of that name here, or whatever any of the nested documents gives; a list
\* is searched in order.
findConfigHashRecursive(v) ==
  LET find[w \in Documents(v)] ==
        IF IsText(w) THEN {}
        ELSE IF IsMap(w)
        THEN IF HashIn(w) # {} THEN HashIn(w) ELSE UNION {find[x] : x \in Children(w)}
        ELSE LET hits == {i \in DOMAIN w.list : find[w.list[i]] # {}}
             IN  IF hits = {} THEN {} ELSE find[w.list[Min(hits)]]
  IN  find[v]

\* The first of the listed paths that leads to a text, else the search.
extractConfigHash(v) ==
  LET paths == << <<"payload", "hash">>, <<"data", "payload", "hash">>,
                  <<"result", "payload", "hash">>, <<"hash">>, <<"data", "hash">>,
                  <<"result", "hash">> >>
      hits  == {i \in DOMAIN paths : Lookup(v, paths[i]) # {}}
  IN  IF hits # {} THEN Lookup(v, paths[Min(hits)]) ELSE findConfigHashRecursive(v)
=============================================================================
