--------------------------- MODULE RuntimeConfig ---------------------------
(***************************************************************************)
(* The configuration of the claude runtime and of the telegramcustomer     *)
(* runtime (loadConfig of src/runtime/claudecode/claudecode.go and of      *)
(* src/runtime/telegramcustomer/telegramcustomer.go, which differ in the   *)
(* bot's token), from the environment of the process and from the tags of  *)
(* a request.  A text is a sequence of characters.  The working directory  *)
(* always resolves to some directory of the process and is left out, and   *)
(* so is the number of CLAUDE_CODE_TIMEOUT_MS, which never refuses a       *)
(* runtime (ClaudeRuntime has the deadline, which may pass at any moment); *)
(* the base URL goes the way of the model.                                 *)
(***************************************************************************)
EXTENDS Texts, Integers

-----------------------------------------------------------------------------
(* CLAUDE_CODE_FLAGS.                                                      *)

Backslash == "\\"
Quotes    == {"'", "\""}
NoQuote   == "none"

flush(scan) ==
  IF scan.current = Empty THEN scan
  ELSE [scan EXCEPT !.args = Append(@, scan.current), !.current = Empty]

\* Fault: a quote of either kind ends a quoted part.
Scan_AnyQuote(scan, r) ==
  IF scan.escaped THEN [scan EXCEPT !.current = Append(@, r), !.escaped = FALSE]
  ELSE IF r = Backslash THEN [scan EXCEPT !.escaped = TRUE]
  ELSE IF r \in Quotes THEN [scan EXCEPT !.quote = IF @ = NoQuote THEN r ELSE NoQuote]
  ELSE IF scan.quote = NoQuote /\ r = Blank THEN flush(scan)
  ELSE [scan EXCEPT !.current = Append(@, r)]

\* One character of the loop.  A backslash works inside quotes, too.
Scan(scan, r) ==
  IF scan.escaped THEN [scan EXCEPT !.current = Append(@, r), !.escaped = FALSE]
  ELSE IF r = Backslash THEN [scan EXCEPT !.escaped = TRUE]
  ELSE IF scan.quote # NoQuote /\ r = scan.quote THEN [scan EXCEPT !.quote = NoQuote]
  ELSE IF scan.quote = NoQuote /\ r \in Quotes THEN [scan EXCEPT !.quote = r]
  ELSE IF scan.quote = NoQuote /\ r = Blank THEN flush(scan)
  ELSE [scan EXCEPT !.current = Append(@, r)]

Start   == [args |-> <<>>, current |-> Empty, quote |-> NoQuote, escaped |-> FALSE]
Refused == <<"refused">>

\* The arguments; or the text ends in an escape or inside a quote.
parseFlags(raw) ==
  LET text == trim(raw)
      scans[i \in 0 .. Len(text)] == IF i = 0 THEN Start ELSE Scan(scans[i - 1], text[i])
      end == scans[Len(text)]
  IN  IF end.escaped \/ end.quote # NoQuote THEN Refused ELSE flush(end).args

-----------------------------------------------------------------------------
(* How whoever sets CLAUDE_CODE_FLAGS puts an argument down (external;     *)
(* readme.md:28): with a backslash before every character that means       *)
(* something, or in quotes.                                                *)

Word == {w \in [text : Seq(STRING), style : {"plain", "double", "single"}] :
           /\ w.text # Empty
           /\ w.style = "single" => ToSet(w.text) \cap {"'", Backslash} = {}}

Escape(t, special) ==
  FlattenSeq([i \in DOMAIN t |-> IF t[i] \in special THEN <<Backslash, t[i]>> ELSE <<t[i]>>])

Put(word) ==
  CASE word.style = "plain"  -> Escape(word.text, Quotes \cup {Backslash, Blank})
    [] word.style = "double" -> <<"\"">> \o Escape(word.text, {"\"", Backslash}) \o <<"\"">>
    [] word.style = "single" -> <<"'">> \o word.text \o <<"'">>

Written(line) == FlattenSeq([i \in DOMAIN line |-> Put(line[i]) \o <<Blank>>])

-----------------------------------------------------------------------------
(* loadConfig.                                                             *)

\* env has the fields found (is there a claude binary), anthropic and claude (the two
\* variables that name a model), token and flags.
OrElse(t, u) == IF trim(t) # Empty THEN trim(t) ELSE u

extractModelName(tags) == FirstOf(tags, <<"model", "Model", "modelName", "ModelName">>)
extractBotToken(tags)  == FirstOf(tags, <<"botToken", "BotToken", "bot_token">>)

Model(env, tags) ==
  OrElse(env.anthropic, OrElse(env.claude, extractModelName(tags)))

BotToken(env, tags) == OrElse(env.token, extractBotToken(tags))

loadConfig(env, tags) ==
  [model |-> Model(env, tags), flags |-> parseFlags(env.flags)]

\* Is there an error instead.
LoadFails(kind, env, tags) ==
  \/ ~env.found
  \/ parseFlags(env.flags) = Refused
  \/ kind = "telegramcustomer" /\ BotToken(env, tags) = Empty
=============================================================================
