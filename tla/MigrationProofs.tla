-------------------------- MODULE MigrationProofs --------------------------
(***************************************************************************)
(* Proofs about Migration: over any number of agents, environments and     *)
(* checkpoints, a runtime comes back in its kind, with its session and its *)
(* model, its process runs its own bot alone, and its CLI has the arguments*)
(* that were meant.                                                        *)
(*                                                                         *)
(* Nobody compares two runtimes: a restored one is what it should be       *)
(* because every checkpoint handed out says who made it (Stamped) and      *)
(* holds the state due to it (Faithful), and because a runtime that starts *)
(* has no state but the one it loads (Blanked, Loaded).                    *)
(*                                                                         *)
(* That the flags come out as they were meant is a fact about parseFlags   *)
(* alone: where its loop is after each word of a line (LineParts), and why *)
(* the blank after the last word makes no difference (ParseTrimmed).       *)
(***************************************************************************)
EXTENDS Migration, TextsProofs

\* The request that starts a runtime brings a checkpoint that was handed out, and is
\* among the requests there are.
Asked ==
  /\ phase # "off" => env \in Environments
  /\ phase \in Starting => /\ request.tags \in RequestTags
                           /\ request.from \in saved \cup {None}

\* The type of a runtime is settled when its start begins, and only a known type goes
\* on to the steps after newRuntime.
Kinds ==
  /\ phase \in {"off", "idle", "load", "restore", "bot", "up"}
  /\ phase \in {"restore", "bot"} => kind \in CLIKinds \cup {"openclaw"}
  /\ phase = "up" => kind \in Types
  /\ phase = "restore" => request.from \in saved

\* The format of a checkpoint tells the kind of runtime that handed it out.
Stamped ==
  \A c \in saved :
    \/ c.format = "none" /\ c.by = "other"
    \/ c.format = "blank" /\ c.by = "test"
    \/ c.format = c.by /\ c.by \in CLIKinds \cup {"openclaw"}

\* A checkpoint holds the session and the model that were due to whoever handed it out.
Faithful == \A c \in saved : c.session = c.due.session /\ c.model = c.due.model

\* Where a runtime is not yet loaded nothing is left of an earlier one.
Blanked ==
  /\ phase \in {"off", "idle", "load"} => config = NoConfig
  /\ phase \in {"off", "idle", "load", "restore"} => origin = None

\* A loaded configuration has its model without blanks around it, and what its flags were
\* parsed to, which was not refused.
Loaded ==
  phase \in {"restore", "bot", "up"} /\ kind # "test" =>
    /\ trim(config.model) = config.model
    /\ kind \in CLIKinds => config.flags = parseFlags(env.flags) /\ config.flags # Refused

\* From the load on, a runtime has the state that is due to it, and comes from a
\* checkpoint of its kind, if from any.
Current ==
  phase \in {"restore", "bot", "up"} /\ kind # "test" =>
    /\ state = due
    /\ origin # None => origin.by \in {kind, "other"}

IInv ==
  /\ Asked /\ Kinds /\ Stamped /\ Faithful /\ Blanked /\ Loaded /\ Current /\ OneBot

-----------------------------------------------------------------------------
(* The configuration.                                                      *)

\* The model of a configuration has no blanks around it, whichever of the variables
\* and tags gave it.
LEMMA ModelTrimmed ==
  ASSUME NEW e \in Environments, NEW tags \in RequestTags
  PROVE  trim(Model(e, tags)) = Model(e, tags)
<1>1. /\ trim(trim(e.anthropic)) = trim(e.anthropic)
      /\ trim(trim(e.claude)) = trim(e.claude)
  BY AMigration, TrimTwice
<1>2. trim(extractModelName(tags)) = extractModelName(tags)
  <2>1. DOMAIN <<"model", "Model", "modelName", "ModelName">> \subseteq Nat
    OBVIOUS
  <2>2. \A name \in DOMAIN tags : tags[name] \in Seq(STRING)
    BY AMigration
  <2> QED BY <2>1, <2>2, FirstTrimmed DEF extractModelName
<1> QED BY <1>1, <1>2 DEF Model, OrElse

-----------------------------------------------------------------------------
(* The flags.                                                              *)

\* Where the loop of parseFlags can be: within a quote of either kind, or within none.
Within == Quotes \cup {NoQuote}

\* How far it can be.
Scans(Letters) ==
  [args : Seq(Seq(Letters)), current : Seq(Letters), quote : Within,
   escaped : BOOLEAN]

\* The loop gets from one point to another by a text.
Reads(Letters, from, t, to) ==
  \E f : /\ f \in [0 .. Len(t) -> Scans(Letters)]
         /\ f[0] = from
         /\ \A i \in 1 .. Len(t) : f[i] = Scan(f[i - 1], t[i])
         /\ f[Len(t)] = to

\* A character takes the loop on.
LEMMA ScanType ==
  ASSUME NEW Letters, NEW s \in Scans(Letters), NEW r \in Letters
  PROVE  Scan(s, r) \in Scans(Letters)
<1> USE DEF Scans, Within
<1>1. Append(s.current, r) \in Seq(Letters) /\ Empty \in Seq(Letters)
  BY DEF Empty
<1>2. Append(s.args, s.current) \in Seq(Seq(Letters))
  OBVIOUS
<1>3. flush(s) \in Scans(Letters)
  BY <1>1, <1>2 DEF flush
<1> QED BY <1>1, <1>3 DEF Scan

\* No text leads nowhere.
LEMMA ReadsNone ==
  ASSUME NEW Letters, NEW x \in Scans(Letters)
  PROVE  Reads(Letters, x, <<>>, x)
<1> DEFINE f == [i \in 0 .. 0 |-> x]
<1>1. f \in [0 .. 0 -> Scans(Letters)] /\ f[0] = x
  OBVIOUS
<1> HIDE DEF f
<1>2. Len(<<>>) = 0
  OBVIOUS
<1>3. \A i \in 1 .. 0 : f[i] = Scan(f[i - 1], <<>>[i])
  OBVIOUS
<1> QED BY <1>1, <1>2, <1>3 DEF Reads

\* One character leads a turn of the loop on.
LEMMA ReadsOne ==
  ASSUME NEW Letters, NEW x \in Scans(Letters), NEW r \in Letters
  PROVE  Reads(Letters, x, <<r>>, Scan(x, r))
<1> DEFINE f == [i \in 0 .. 1 |-> IF i = 0 THEN x ELSE Scan(x, r)]
<1>0. Scan(x, r) \in Scans(Letters)
  BY ScanType
<1>1. f \in [0 .. 1 -> Scans(Letters)] /\ f[0] = x /\ f[1] = Scan(x, r)
  BY <1>0
<1> HIDE DEF f
<1>2. \A i \in 1 .. 1 : i = 1 /\ i - 1 = 0
  OBVIOUS
<1>3. \A i \in 1 .. 1 : f[i] = Scan(f[i - 1], <<r>>[i])
  BY <1>1, <1>2, OneLetter
<1> QED BY <1>1, <1>3, OneLetter DEF Reads

\* One text after another leads from the first's beginning to the second's end.
LEMMA ReadsBoth ==
  ASSUME NEW Letters, NEW s \in Seq(Letters), NEW t \in Seq(Letters), NEW x, NEW y, NEW z,
         Reads(Letters, x, s, y), Reads(Letters, y, t, z)
  PROVE  Reads(Letters, x, s \o t, z)
<1> DEFINE m == Len(s)
           n == Len(t)
<1>0. /\ m \in Nat /\ n \in Nat /\ Len(s \o t) = m + n
      /\ \A i \in 1 .. m : (s \o t)[i] = s[i]
      /\ \A i \in m + 1 .. m + n : (s \o t)[i] = t[i - m]
  OBVIOUS
<1>1. PICK f : /\ f \in [0 .. m -> Scans(Letters)] /\ f[0] = x /\ f[m] = y
               /\ \A i \in 1 .. m : f[i] = Scan(f[i - 1], s[i])
  BY DEF Reads
<1>2. PICK g : /\ g \in [0 .. n -> Scans(Letters)] /\ g[0] = y /\ g[n] = z
               /\ \A i \in 1 .. n : g[i] = Scan(g[i - 1], t[i])
  BY DEF Reads
<1> DEFINE u == s \o t
<1> HIDE DEF m, n, u
<1> DEFINE h == [i \in 0 .. m + n |-> IF i <= m THEN f[i] ELSE g[i - m]]
<1>3. h \in [0 .. m + n -> Scans(Letters)]
  <2>1. ASSUME NEW i \in 0 .. m + n PROVE h[i] \in Scans(Letters)
    <3>1. CASE i <= m
      <4>1. i \in 0 .. m
        BY <3>1, <1>0
      <4> QED BY <3>1, <4>1, <1>1
    <3>2. CASE ~(i <= m)
      <4>1. i - m \in 0 .. n
        BY <3>2, <1>0
      <4> QED BY <3>2, <4>1, <1>2
    <3> QED BY <3>1, <3>2
  <2> QED BY <2>1
<1>4. h[0] = x
  <2>1. 0 \in 0 .. m + n /\ 0 <= m
    BY <1>0
  <2> QED BY <2>1, <1>1
<1>5. h[m + n] = z
  <2>1. m + n \in 0 .. m + n /\ m + n - m = n
    BY <1>0
  <2>2. CASE n = 0
    <3>1. m + n = m /\ m <= m
      BY <2>2, <1>0
    <3>2. y = z
      BY <2>2, <1>2
    <3> QED BY <2>1, <3>1, <3>2, <1>1
  <2>3. CASE n # 0
    <3>1. PICK k \in 0 .. m + n : k = m + n
      BY <2>1
    <3>2. ~(k <= m) /\ k - m = n
      BY <2>3, <3>1, <1>0
    <3>3. h[k] = g[k - m]
      BY <3>2
    <3> HIDE DEF h
    <3> QED BY <3>1, <3>2, <3>3, <1>2
  <2> QED BY <2>2, <2>3
<1>6. ASSUME NEW i \in 1 .. m + n PROVE h[i] = Scan(h[i - 1], u[i])
  <2>0. i \in 0 .. m + n /\ i - 1 \in 0 .. m + n
    BY <1>0
  <2>1. CASE i <= m
    <3>1. i \in 1 .. m /\ i - 1 <= m
      BY <2>1, <1>0
    <3>2. h[i] = f[i] /\ h[i - 1] = f[i - 1] /\ u[i] = s[i]
      BY <2>0, <2>1, <3>1, <1>0 DEF u
    <3> QED BY <3>1, <3>2, <1>1
  <2>2. CASE i > m
    <3>1. i \in m + 1 .. m + n /\ i - m \in 1 .. n /\ ~(i <= m) /\ i - m - 1 = i - 1 - m
      BY <2>2, <1>0
    <3>2. h[i] = g[i - m] /\ u[i] = t[i - m]
      BY <2>0, <3>1, <1>0 DEF u
    <3>3. h[i - 1] = g[i - m - 1]
      <4>1. CASE i - 1 <= m
        <5>1. i - 1 = m /\ i - m - 1 = 0
          BY <4>1, <2>2, <1>0
        <5> QED BY <5>1, <2>0, <1>1, <1>2, <4>1
      <4>2. CASE ~(i - 1 <= m)
        BY <4>2, <2>0, <3>1
      <4> QED BY <4>1, <4>2
    <3> HIDE DEF h
    <3> QED BY <3>1, <3>2, <3>3, <1>2
  <2> QED BY <2>1, <2>2, <1>0
<1> HIDE DEF h
<1>7. Len(u) = m + n
  BY <1>0 DEF u
<1>8. Reads(Letters, x, u, z)
  BY <1>3, <1>4, <1>5, <1>6, <1>7, Zenon DEF Reads
<1> QED BY <1>8 DEF u

\* From one place a text leads to one other.
LEMMA ReadsOnce ==
  ASSUME NEW Letters, NEW t \in Seq(Letters), NEW x, NEW y, NEW z,
         Reads(Letters, x, t, y), Reads(Letters, x, t, z)
  PROVE  y = z
<1> DEFINE n == Len(t)
<1>0. n \in Nat /\ 0 \in 0 .. n /\ n \in 0 .. n
  OBVIOUS
<1>1. PICK f : /\ f[0] = x /\ f[n] = y /\ \A i \in 1 .. n : f[i] = Scan(f[i - 1], t[i])
  BY DEF Reads
<1>2. PICK g : /\ g[0] = x /\ g[n] = z /\ \A i \in 1 .. n : g[i] = Scan(g[i - 1], t[i])
  BY DEF Reads
<1> HIDE DEF n
<1> DEFINE S == {i \in 0 .. n : f[i] = g[i]}
<1>3. 0 \in S
  BY <1>0, <1>1, <1>2
<1>4. ASSUME NEW i \in 1 .. n, i - 1 \in S PROVE i \in S
  <2>1. i \in 0 .. n
    BY <1>0
  <2> QED BY <1>1, <1>2, <1>4, <2>1
<1> HIDE DEF S
<1>5. 0 .. n \subseteq S
  <2>1. \A i \in 1 .. n : i - 1 \in S => i \in S
    BY <1>4
  <2> QED BY <1>0, <1>3, <2>1, UpTo, Zenon
<1> QED BY <1>0, <1>1, <1>2, <1>5 DEF S

\* What parseFlags makes of a text is settled by where the loop ends.
LEMMA ParseEnd ==
  ASSUME NEW Letters, NEW raw \in Seq(Letters), NEW end, Reads(Letters, Start, trim(raw), end)
  PROVE  parseFlags(raw) =
           IF end.escaped \/ end.quote # NoQuote THEN Refused ELSE flush(end).args
<1> DEFINE text == trim(raw)
           n == Len(text)
           Turn(h) == [i \in 0 .. n |-> IF i = 0 THEN Start ELSE Scan(h[i - 1], text[i])]
           scans == CHOOSE h : h = Turn(h)
           last == scans[n]
<1>0. n \in Nat /\ 0 \in 0 .. n /\ n \in 0 .. n
  <2>1. text \in Seq(Letters)
    BY TrimEnds
  <2> HIDE DEF text
  <2> QED BY <2>1
<1>1. PICK f : /\ f \in [0 .. n -> Scans(Letters)] /\ f[0] = Start /\ f[n] = end
               /\ \A i \in 1 .. n : f[i] = Scan(f[i - 1], text[i])
  BY DEF Reads
<1>2. parseFlags(raw) =
        IF last.escaped \/ last.quote # NoQuote THEN Refused ELSE flush(last).args
  BY DEF parseFlags
<1> HIDE DEF text, n
<1>3. f = Turn(f)
  <2>1. ASSUME NEW i \in 0 .. n PROVE f[i] = IF i = 0 THEN Start ELSE Scan(f[i - 1], text[i])
    <3>1. i # 0 => i \in 1 .. n
      BY <1>0
    <3> QED BY <3>1, <1>1
  <2>2. f = [i \in 0 .. n |-> f[i]]
    BY <1>1
  <2> QED BY <2>1, <2>2
<1>4. scans = Turn(scans)
  BY <1>3
<1> HIDE DEF scans
<1> DEFINE S == {i \in 0 .. n : scans[i] = f[i]}
<1>5. 0 \in S
  BY <1>0, <1>1, <1>4
<1>6. ASSUME NEW k \in 1 .. n, k - 1 \in S PROVE k \in S
  <2>1. k \in 0 .. n /\ k # 0
    BY <1>0
  <2>2. scans[k] = Scan(scans[k - 1], text[k])
    BY <2>1, <1>4
  <2>3. f[k] = Scan(f[k - 1], text[k])
    BY <1>1
  <2> QED BY <1>6, <2>1, <2>2, <2>3
<1> HIDE DEF S
<1>7. 0 .. n \subseteq S
  <2>1. \A k \in 1 .. n : k - 1 \in S => k \in S
    BY <1>6
  <2> QED BY <1>0, <1>5, <2>1, UpTo, Zenon
<1>8. scans[n] = end
  BY <1>0, <1>1, <1>7 DEF S
<1> QED BY <1>2, <1>8

\* Outside of quotes a blank ends an argument, and another one changes nothing.
LEMMA ScanBlank ==
  ASSUME NEW Letters, NEW x \in Scans(Letters), ~x.escaped, x.quote = NoQuote
  PROVE  /\ Scan(x, Blank) = flush(x)
         /\ flush(x) \in Scans(Letters) /\ ~flush(x).escaped /\ flush(x).quote = NoQuote
         /\ flush(flush(x)) = flush(x)
<1>1. Scan(x, Blank) = flush(x)
  BY DEF Scan, Blank, Backslash, Quotes, NoQuote
<1>2. x.current \in Seq(Letters) /\ x.args \in Seq(Seq(Letters)) /\ Empty \in Seq(Letters)
  BY DEF Scans, Empty
<1>3. Append(x.args, x.current) \in Seq(Seq(Letters))
  BY <1>2
<1>4. flush(x) \in Scans(Letters) /\ ~flush(x).escaped /\ flush(x).quote = NoQuote
  BY <1>2, <1>3 DEF flush, Scans
<1>5. flush(x).current = Empty
  BY <1>2 DEF flush, Scans
<1>6. flush(flush(x)) = flush(x)
  BY <1>5 DEF flush
<1> QED BY <1>1, <1>4, <1>6

\* Without the blanks after it a text ends in an escape or in a quote.
Open(Letters, raw) ==
  \E b \in 1 .. Len(raw) :
    /\ raw[b] # Blank
    /\ \A i \in b + 1 .. Len(raw) : raw[i] = Blank
    /\ \E e : /\ Reads(Letters, Start, SubSeq(raw, 1, b), e)
              /\ e.escaped \/ e.quote # NoQuote

\* The blanks around a text make no difference, unless it ends in an escape or in a quote
\* without them.
LEMMA ParseTrimmed ==
  ASSUME NEW Letters, NEW raw \in Seq(Letters), NEW end,
         Reads(Letters, Start, raw, end), end.current = Empty
  PROVE  \/ parseFlags(raw) = end.args
         \/ parseFlags(raw) = Refused /\ Open(Letters, raw)
<1> DEFINE n == Len(raw)
           solid == {i \in DOMAIN raw : raw[i] # Blank}
           a == Min(solid)
           b == Max(solid)
<1>0. n \in Nat
  OBVIOUS
<1>1. PICK f : /\ f \in [0 .. n -> Scans(Letters)] /\ f[0] = Start /\ f[n] = end
               /\ \A i \in 1 .. n : f[i] = Scan(f[i - 1], raw[i])
  BY DEF Reads
<1>2. /\ Start \in Scans(Letters) /\ ~Start.escaped /\ Start.quote = NoQuote
      /\ flush(Start) = Start /\ Scan(Start, Blank) = Start
  <2>1. Start \in Scans(Letters)
    BY DEF Start, Scans, Within, Empty
  <2>2. ~Start.escaped /\ Start.quote = NoQuote /\ flush(Start) = Start
    BY DEF Start, flush
  <2> QED BY <2>1, <2>2, ScanBlank
\* Up to the first other character the loop stays where it starts.
<1>3. ASSUME NEW k \in 0 .. n, \A i \in 1 .. k : raw[i] = Blank
      PROVE  f[k] = Start
  <2> DEFINE S == {i \in 0 .. k : f[i] = Start}
  <2>1. 0 \in S
    BY <1>0, <1>1
  <2>2. ASSUME NEW i \in 1 .. k, i - 1 \in S PROVE i \in S
    <3>1. i \in 1 .. n /\ i \in 0 .. k
      BY <1>0
    <3>2. f[i] = Scan(f[i - 1], raw[i])
      BY <3>1, <1>1
    <3> QED BY <1>2, <1>3, <2>2, <3>1, <3>2
  <2>3. k \in Nat /\ k \in 0 .. k
    BY <1>0
  <2> HIDE DEF S
  <2>4. 0 .. k \subseteq S
    <3>1. \A i \in 1 .. k : i - 1 \in S => i \in S
      BY <2>2
    <3> QED BY <2>1, <2>3, <3>1, UpTo, Zenon
  <2> QED BY <2>3, <2>4 DEF S
<1>4. CASE solid = {}
  <2>1. trim(raw) = <<>>
    BY <1>4 DEF trim, Empty
  <2>2. f[n] = Start
    <3>1. n \in 0 .. n /\ \A i \in 1 .. n : raw[i] = Blank
      BY <1>0, <1>4
    <3> QED BY <3>1, <1>3
  <2>3. Reads(Letters, Start, trim(raw), Start)
    BY <1>2, <2>1, ReadsNone
  <2>4. parseFlags(raw) = flush(Start).args
    BY <1>2, <2>3, ParseEnd
  <2> QED BY <1>1, <1>2, <2>2, <2>4
<1>5. CASE solid # {}
  <2>1. a \in 1 .. n /\ b \in 1 .. n /\ a <= b /\ raw[b] # Blank
        /\ (\A y \in solid : a <= y) /\ (\A y \in solid : b >= y)
    <3>1. solid \subseteq 0 .. n /\ solid \subseteq Nat
      BY <1>0
    <3>2. a \in solid /\ \A y \in solid : a <= y
      BY <1>5, <3>1, Smallest
    <3>3. b \in solid /\ \A y \in solid : b >= y
      BY <1>0, <1>5, <3>1, Largest
    <3> QED BY <3>2, <3>3
  <2>2. trim(raw) = SubSeq(raw, a, b)
    BY <1>5 DEF trim
  <2> DEFINE text == trim(raw)
             m == b - a + 1
  <2>3. Len(text) = m /\ \A i \in 1 .. m : text[i] = raw[a - 1 + i]
    <3> HIDE DEF a, b, solid
    <3> QED BY <2>1, <2>2
  <2>4. \A i \in 1 .. n : i < a \/ i > b => raw[i] = Blank
    <3>1. ASSUME NEW i \in 1 .. n, i < a \/ i > b PROVE raw[i] = Blank
      <4>1. i \notin solid
        <5> HIDE DEF a, b, solid
        <5> QED BY <2>1, <3>1
      <4> QED BY <4>1
    <3> QED BY <3>1
  <2> HIDE DEF a, b, solid, text
  <2>5. f[a - 1] = Start
    <3>1. a - 1 \in 0 .. n /\ \A i \in 1 .. a - 1 : i \in 1 .. n /\ i < a
      BY <2>1, <1>0
    <3> QED BY <3>1, <2>4, <1>3
  <2>6. Reads(Letters, Start, text, f[b])
    <3> DEFINE g == [i \in 0 .. m |-> f[a - 1 + i]]
    <3>1. g \in [0 .. m -> Scans(Letters)]
      <4>1. \A i \in 0 .. m : a - 1 + i \in 0 .. n
        BY <2>1, <1>0
      <4> QED BY <4>1, <1>1
    <3>2. g[0] = Start
      <4>1. 0 \in 0 .. m /\ a - 1 + 0 = a - 1
        BY <2>1
      <4> QED BY <4>1, <2>5
    <3>3. g[m] = f[b]
      <4>1. m \in 0 .. m /\ a - 1 + m = b
        BY <2>1
      <4> QED BY <4>1
    <3>4. ASSUME NEW i \in 1 .. m PROVE g[i] = Scan(g[i - 1], text[i])
      <4>1. PICK k \in 1 .. n : k = a - 1 + i
        BY <2>1, <1>0
      <4>2. i \in 0 .. m /\ i - 1 \in 0 .. m /\ k - 1 = a - 1 + (i - 1)
        BY <4>1, <2>1
      <4>3. f[k] = Scan(f[k - 1], raw[k])
        BY <1>1
      <4>4. g[i] = f[k] /\ g[i - 1] = f[k - 1] /\ text[i] = raw[k]
        BY <4>1, <4>2, <2>3
      <4> HIDE DEF g
      <4> QED BY <4>3, <4>4
    <3> HIDE DEF g, m
    <3> QED BY <3>1, <3>2, <3>3, <3>4, <2>3, Zenon DEF Reads
  <2>7. ASSUME ~f[b].escaped, f[b].quote = NoQuote PROVE flush(f[b]).args = end.args
    <3>0. f[b] \in Scans(Letters) /\ n - b \in Nat /\ b + 0 = b /\ b + (n - b) = n
      <4>1. b \in 0 .. n
        BY <2>1
      <4> QED BY <4>1, <2>1, <1>0, <1>1
    <3> DEFINE S == {i \in 0 .. n - b : f[b + i] \in {f[b], flush(f[b])}}
    <3>1. 0 \in S
      BY <3>0
    <3>2. ASSUME NEW i \in 1 .. n - b, i - 1 \in S PROVE i \in S
      <4>1. PICK k \in 1 .. n : k = b + i
        BY <2>1, <1>0
      <4>2. f[k] = Scan(f[k - 1], Blank)
        <5>1. k > b
          BY <4>1, <2>1
        <5> QED BY <5>1, <1>1, <2>4
      <4>3. k - 1 = b + (i - 1) /\ i \in 0 .. n - b
        BY <4>1, <2>1, <1>0
      <4>5. f[k - 1] \in {f[b], flush(f[b])}
        BY <3>2, <4>3
      <4>4. \A x \in {f[b], flush(f[b])} : Scan(x, Blank) = flush(f[b])
        BY <3>0, <2>7, ScanBlank
      <4> QED BY <4>1, <4>2, <4>3, <4>4, <4>5
    <3> HIDE DEF S
    <3>3. 0 .. n - b \subseteq S
      <4>1. \A i \in 1 .. n - b : i - 1 \in S => i \in S
        BY <3>2
      <4> QED BY <3>0, <3>1, <4>1, UpTo, Zenon
    <3>4. n - b \in S
      BY <3>0, <3>3
    <3>5. end \in {f[b], flush(f[b])}
      BY <3>0, <3>4, <1>1 DEF S
    <3> QED BY <3>5 DEF flush
  <2>8. parseFlags(raw) =
          IF f[b].escaped \/ f[b].quote # NoQuote THEN Refused ELSE flush(f[b]).args
    BY <2>6, ParseEnd DEF text
  <2>9. ASSUME f[b].escaped \/ f[b].quote # NoQuote PROVE Open(Letters, raw)
    <3> DEFINE g == [i \in 0 .. b |-> f[i]]
               head == SubSeq(raw, 1, b)
    <3>1. b \in Nat /\ 0 \in 0 .. b /\ b \in 0 .. b /\ \A i \in 0 .. b : i \in 0 .. n
      BY <2>1, <1>0
    <3>2. Len(head) = b /\ \A i \in 1 .. b : head[i] = raw[i]
      BY <2>1
    <3>3. g \in [0 .. b -> Scans(Letters)] /\ g[0] = Start /\ g[b] = f[b]
      BY <3>1, <1>1
    <3>4. ASSUME NEW i \in 1 .. b PROVE g[i] = Scan(g[i - 1], head[i])
      <4>1. i \in 1 .. n /\ i \in 0 .. b /\ i - 1 \in 0 .. b
        BY <2>1, <3>1, <1>0
      <4>2. f[i] = Scan(f[i - 1], raw[i]) /\ g[i] = f[i] /\ g[i - 1] = f[i - 1]
        BY <4>1, <1>1
      <4> HIDE DEF g, head
      <4> QED BY <4>2, <3>2
    <3> HIDE DEF g
    <3>5. Reads(Letters, Start, head, f[b])
      <4> HIDE DEF head
      <4> QED BY <3>2, <3>3, <3>4, Zenon DEF Reads
    <3>6. \A i \in b + 1 .. n : raw[i] = Blank
      BY <2>1, <2>4
    <3> QED BY <2>1, <2>9, <3>5, <3>6 DEF Open
  <2> QED BY <2>7, <2>8, <2>9
<1> QED BY <1>4, <1>5

\* The loop in the middle of an argument, within a quote or not.
Amid(args, current, quote) ==
  [args |-> args, current |-> current, quote |-> quote, escaped |-> FALSE]

\* The characters that mean something there.
Special(quote) ==
  IF quote = NoQuote THEN Quotes \cup {Backslash, Blank} ELSE {quote, Backslash}

\* A point in an argument is one the loop can be at.
LEMMA AmidType ==
  ASSUME NEW Letters, NEW args \in Seq(Seq(Letters)), NEW c \in Seq(Letters),
         NEW quote \in Within
  PROVE  Amid(args, c, quote) \in Scans(Letters)
BY DEF Amid, Scans

\* A character that means nothing is part of the argument.
LEMMA ReadsLetter ==
  ASSUME NEW Letters, NEW args \in Seq(Seq(Letters)), NEW c \in Seq(Letters),
         NEW quote \in Within, NEW r \in Letters, r \notin Special(quote)
  PROVE  /\ Scan(Amid(args, c, quote), r) = Amid(args, Append(c, r), quote)
         /\ Reads(Letters, Amid(args, c, quote), <<r>>, Amid(args, Append(c, r), quote))
<1>1. Scan(Amid(args, c, quote), r) = Amid(args, Append(c, r), quote)
  BY DEF Scan, Amid, Special
<1> QED BY <1>1, AmidType, ReadsOne

\* And so is any character after a backslash.
LEMMA ReadsEscaped ==
  ASSUME NEW Letters, Backslash \in Letters, NEW args \in Seq(Seq(Letters)),
         NEW c \in Seq(Letters), NEW quote \in Within, NEW r \in Letters
  PROVE  Reads(Letters, Amid(args, c, quote), <<Backslash, r>>, Amid(args, Append(c, r), quote))
<1> DEFINE x == Amid(args, c, quote)
           y == [x EXCEPT !.escaped = TRUE]
<1>1. Scan(x, Backslash) = y
  BY DEF Scan, Amid
<1>2. Scan(y, r) = Amid(args, Append(c, r), quote)
  BY DEF Scan, Amid
<1>3. x \in Scans(Letters) /\ y \in Scans(Letters)
  BY AmidType DEF Scans, Amid
<1> HIDE DEF x, y
<1>4. /\ Reads(Letters, x, <<Backslash>>, y)
      /\ Reads(Letters, y, <<r>>, Amid(args, Append(c, r), quote))
  BY <1>1, <1>2, <1>3, ReadsOne
<1>5. <<Backslash>> \in Seq(Letters) /\ <<r>> \in Seq(Letters)
      /\ <<Backslash, r>> = <<Backslash>> \o <<r>>
  BY TwoLetters
<1>6. Reads(Letters, x, <<Backslash, r>>, Amid(args, Append(c, r), quote))
  BY <1>4, <1>5, ReadsBoth
<1> QED BY <1>6 DEF x

\* A text of which no character means anything is read as it is.
LEMMA ReadsAsItIs ==
  ASSUME NEW Letters, NEW args \in Seq(Seq(Letters)), NEW quote \in Within,
         NEW t \in Seq(Letters), \A i \in 1 .. Len(t) : t[i] \notin Special(quote)
  PROVE  Reads(Letters, Amid(args, Empty, quote), t, Amid(args, t, quote))
<1> DEFINE f == [i \in 0 .. Len(t) |-> Amid(args, SubSeq(t, 1, i), quote)]
<1>0. Len(t) \in Nat
  OBVIOUS
<1>1. f \in [0 .. Len(t) -> Scans(Letters)]
  BY AmidType, LetterByLetter
<1>2. f[0] = Amid(args, Empty, quote) /\ f[Len(t)] = Amid(args, t, quote)
  <2>1. 0 \in 0 .. Len(t) /\ Len(t) \in 0 .. Len(t)
    BY <1>0
  <2>2. f[0] = Amid(args, SubSeq(t, 1, 0), quote)
    BY <2>1
  <2>3. f[Len(t)] = Amid(args, SubSeq(t, 1, Len(t)), quote)
    BY <2>1
  <2> HIDE DEF f
  <2> QED BY <2>2, <2>3, LetterByLetter
<1>3. ASSUME NEW i \in 1 .. Len(t) PROVE f[i] = Scan(f[i - 1], t[i])
  <2>1. i \in 0 .. Len(t) /\ i - 1 \in 0 .. Len(t) /\ t[i] \in Letters
    BY <1>0
  <2>2. SubSeq(t, 1, i) = Append(SubSeq(t, 1, i - 1), t[i]) /\ SubSeq(t, 1, i - 1) \in Seq(Letters)
    BY <2>1, LetterByLetter
  <2>3. Scan(Amid(args, SubSeq(t, 1, i - 1), quote), t[i])
          = Amid(args, Append(SubSeq(t, 1, i - 1), t[i]), quote)
    <3>1. PICK c \in Seq(Letters) : c = SubSeq(t, 1, i - 1)
      BY <2>2
    <3>2. PICK r \in Letters : r = t[i] /\ r \notin Special(quote)
      BY <2>1
    <3> HIDE DEF f
    <3>3. Scan(Amid(args, c, quote), r) = Amid(args, Append(c, r), quote)
      BY <3>2 DEF Scan, Amid, Special
    <3> QED BY <3>1, <3>2, <3>3
  <2>4. f[i] = Amid(args, SubSeq(t, 1, i), quote)
        /\ f[i - 1] = Amid(args, SubSeq(t, 1, i - 1), quote)
    BY <2>1
  <2> HIDE DEF f
  <2> QED BY <2>2, <2>3, <2>4
<1> HIDE DEF f
<1> QED BY <1>1, <1>2, <1>3 DEF Reads

\* A character as Escape puts it down, and what Escape has put down after each.
Escaped(r, special) == IF r \in special THEN <<Backslash, r>> ELSE <<r>>

Escapes(Letters, t, special, f) ==
  /\ f \in [0 .. Len(t) -> Seq(Letters)]
  /\ f[0] = Empty
  /\ \A i \in 1 .. Len(t) : f[i] = f[i - 1] \o Escaped(t[i], special)
  /\ f[Len(t)] = Escape(t, special)

\* An escaped text is put together letter by letter, with a backslash or without.
LEMMA EscapeParts ==
  ASSUME NEW Letters, Backslash \in Letters, NEW t \in Seq(Letters), NEW special
  PROVE  \E f : Escapes(Letters, t, special, f)
<1> DEFINE n == Len(t)
           pieces == [i \in DOMAIN t |-> Escaped(t[i], special)]
<1>0. n \in Nat /\ DOMAIN t = 1 .. n /\ \A i \in 1 .. n : t[i] \in Letters
  OBVIOUS
<1>1. ASSUME NEW i \in 1 .. n PROVE pieces[i] \in Seq(Letters)
  BY <1>0, TwoLetters DEF Escaped
<1>2. pieces \in Seq(Seq(Letters)) /\ Len(pieces) = n
  BY <1>0, <1>1
<1>3. Escape(t, special) = FlattenSeq(pieces)
  BY DEF Escape, Escaped
<1>4. \A i \in 1 .. n : pieces[i] = Escaped(t[i], special)
  BY <1>0
<1> HIDE DEF n, pieces
<1>7. \E f \in [0 .. Len(pieces) -> Seq(Letters)] :
        /\ f[0] = Empty
        /\ \A i \in 1 .. Len(pieces) : f[i] = f[i - 1] \o pieces[i]
        /\ f[Len(pieces)] = FlattenSeq(pieces)
  BY <1>2, Flattened
<1>5. PICK f \in [0 .. n -> Seq(Letters)] :
        /\ f[0] = Empty
        /\ \A i \in 1 .. n : f[i] = f[i - 1] \o pieces[i]
        /\ f[n] = FlattenSeq(pieces)
  BY <1>2, <1>7
<1>6. ASSUME NEW i \in 1 .. n PROVE f[i] = f[i - 1] \o Escaped(t[i], special)
  BY <1>4, <1>5
<1> QED BY <1>3, <1>5, <1>6 DEF n, Escapes

\* It ends in the letter that it ended in before.
LEMMA EscapeEnd ==
  ASSUME NEW Letters, Backslash \in Letters, NEW t \in Seq(Letters), t # Empty, NEW special
  PROVE  /\ Escape(t, special) \in Seq(Letters)
         /\ Len(Escape(t, special)) # 0
         /\ Escape(t, special)[Len(Escape(t, special))] = t[Len(t)]
<1> DEFINE n == Len(t)
           piece == Escaped(t[n], special)
<1>0. n \in 1 .. n /\ n - 1 \in 0 .. n /\ n \in 0 .. n /\ t[n] \in Letters
  BY DEF Empty
<1>1. PICK f : Escapes(Letters, t, special, f)
  BY EscapeParts
<1>2. piece \in Seq(Letters) /\ Len(piece) # 0 /\ piece[Len(piece)] = t[n]
  <2>1. /\ <<t[n]>> \in Seq(Letters) /\ Len(<<t[n]>>) = 1 /\ <<t[n]>>[1] = t[n]
    BY <1>0
  <2>2. /\ <<Backslash, t[n]>> \in Seq(Letters) /\ Len(<<Backslash, t[n]>>) = 2
        /\ <<Backslash, t[n]>>[2] = t[n]
    BY <1>0
  <2> QED BY <2>1, <2>2 DEF Escaped
<1>3. /\ f[n] = Escape(t, special) /\ f[n] = f[n - 1] \o piece
      /\ f[n] \in Seq(Letters) /\ f[n - 1] \in Seq(Letters)
  BY <1>0, <1>1 DEF Escapes
<1> HIDE DEF n, piece
<1>4. Len(f[n]) = Len(f[n - 1]) + Len(piece) /\ f[n][Len(f[n])] = piece[Len(piece)]
  BY <1>2, <1>3, EndOfBoth
<1>5. Len(f[n]) # 0
  <2>1. Len(f[n - 1]) \in Nat /\ Len(piece) \in Nat
    BY <1>2, <1>3
  <2> QED BY <1>2, <1>4, <2>1
<1> QED BY <1>2, <1>3, <1>4, <1>5 DEF n

\* An escaped text is read as what it was before.
LEMMA ReadsEscape ==
  ASSUME NEW Letters, Backslash \in Letters, NEW args \in Seq(Seq(Letters)),
         NEW quote \in Within, NEW t \in Seq(Letters)
  PROVE  /\ Escape(t, Special(quote)) \in Seq(Letters)
         /\ Reads(Letters, Amid(args, Empty, quote), Escape(t, Special(quote)),
                  Amid(args, t, quote))
<1> DEFINE n == Len(t)
           special == Special(quote)
           piece(i) == Escaped(t[i], special)
<1>0. n \in Nat /\ \A i \in 1 .. n : t[i] \in Letters
  OBVIOUS
<1>1. ASSUME NEW i \in 1 .. n, NEW c \in Seq(Letters)
      PROVE  /\ piece(i) \in Seq(Letters)
             /\ Reads(Letters, Amid(args, c, quote), piece(i), Amid(args, Append(c, t[i]), quote))
  <2>1. t[i] \in Letters
    BY <1>0
  <2> QED BY <2>1, TwoLetters, ReadsLetter, ReadsEscaped DEF Escaped
<1>2. Empty \in Seq(Letters)
  BY DEF Empty
<1>5. PICK f \in [0 .. n -> Seq(Letters)] :
        /\ f[0] = Empty
        /\ \A i \in 1 .. n : f[i] = f[i - 1] \o piece(i)
        /\ f[n] = Escape(t, special)
  <2> HIDE DEF special
  <2>1. PICK f : Escapes(Letters, t, special, f)
    BY EscapeParts
  <2> QED BY <2>1 DEF Escapes
<1> HIDE DEF n, special, piece
<1> DEFINE S == {i \in 0 .. n : Reads(Letters, Amid(args, Empty, quote), f[i],
                                      Amid(args, SubSeq(t, 1, i), quote))}
<1>6. 0 \in S
  <2>1. Empty \in Seq(Letters) /\ SubSeq(t, 1, 0) = Empty
    BY LetterByLetter DEF Empty
  <2>2. Reads(Letters, Amid(args, Empty, quote), Empty, Amid(args, Empty, quote))
    BY <2>1, AmidType, ReadsNone DEF Empty
  <2>3. 0 \in 0 .. n
    BY <1>0
  <2>4. Reads(Letters, Amid(args, Empty, quote), f[0], Amid(args, SubSeq(t, 1, 0), quote))
    BY <1>5, <2>1, <2>2
  <2> QED BY <2>3, <2>4
<1>7. ASSUME NEW i \in 1 .. n, i - 1 \in S PROVE i \in S
  <2>1. i \in 0 .. n /\ i - 1 \in 0 .. n
    BY <1>0
  <2>2. SubSeq(t, 1, i - 1) \in Seq(Letters)
        /\ SubSeq(t, 1, i) = Append(SubSeq(t, 1, i - 1), t[i])
    BY <2>1, LetterByLetter DEF n
  <2>3. Reads(Letters, Amid(args, Empty, quote), f[i - 1], Amid(args, SubSeq(t, 1, i - 1), quote))
    BY <1>7
  <2>4. Reads(Letters, Amid(args, SubSeq(t, 1, i - 1), quote), piece(i),
              Amid(args, SubSeq(t, 1, i), quote))
    BY <1>1, <2>2
  <2>5. f[i - 1] \in Seq(Letters) /\ piece(i) \in Seq(Letters) /\ f[i] = f[i - 1] \o piece(i)
    BY <1>1, <1>2, <1>5, <2>1
  <2>6. Reads(Letters, Amid(args, Empty, quote), f[i], Amid(args, SubSeq(t, 1, i), quote))
    BY <2>3, <2>4, <2>5, ReadsBoth
  <2> QED BY <2>1, <2>6
<1> HIDE DEF S
<1>8. 0 .. n \subseteq S
  <2>1. \A i \in 1 .. n : i - 1 \in S => i \in S
    BY <1>7
  <2> QED BY <1>0, <1>6, <2>1, UpTo, Zenon
<1>9. n \in S /\ f[n] \in Seq(Letters)
  <2>1. n \in 0 .. n
    BY <1>0
  <2> QED BY <2>1, <1>5, <1>8
<1>10. SubSeq(t, 1, n) = t
  BY LetterByLetter DEF n
<1> QED BY <1>5, <1>9, <1>10 DEF S, special

\* Every character of a text, and those that the writer of flags adds.
Character == STRING \cup Quotes \cup {Backslash, Blank}

\* A quote is opened at the beginning of an argument and closed at its end.
LEMMA ReadsQuote ==
  ASSUME NEW Letters, NEW args \in Seq(Seq(Letters)), NEW quote \in Quotes, quote \in Letters,
         NEW t \in Seq(Letters), NEW s \in Seq(Letters),
         Reads(Letters, Amid(args, Empty, quote), s, Amid(args, t, quote))
  PROVE  /\ <<quote>> \o s \o <<quote>> \in Seq(Letters)
         /\ Reads(Letters, Amid(args, Empty, NoQuote), <<quote>> \o s \o <<quote>>,
                  Amid(args, t, NoQuote))
<1>1. /\ Empty \in Seq(Letters)
      /\ quote \in Within /\ NoQuote \in Within
      /\ quote # Backslash /\ quote # NoQuote
  <2>1. Empty \in Seq(Letters)
    BY DEF Empty
  <2>2. quote # Backslash /\ quote # NoQuote
    BY DEF Quotes, NoQuote, Backslash
  <2> QED BY <2>1, <2>2 DEF Within
<1>2. Scan(Amid(args, Empty, NoQuote), quote) = Amid(args, Empty, quote)
  BY <1>1 DEF Scan, Amid
<1>3. Scan(Amid(args, t, quote), quote) = Amid(args, t, NoQuote)
  BY <1>1 DEF Scan, Amid
<1>4. /\ Amid(args, Empty, NoQuote) \in Scans(Letters)
      /\ Amid(args, t, quote) \in Scans(Letters)
  BY <1>1, AmidType
<1>5. /\ Reads(Letters, Amid(args, Empty, NoQuote), <<quote>>, Amid(args, Empty, quote))
      /\ Reads(Letters, Amid(args, t, quote), <<quote>>, Amid(args, t, NoQuote))
  BY <1>2, <1>3, <1>4, ReadsOne
<1>6. <<quote>> \in Seq(Letters) /\ <<quote>> \o s \in Seq(Letters)
      /\ <<quote>> \o s \o <<quote>> \in Seq(Letters)
  OBVIOUS
<1>7. Reads(Letters, Amid(args, Empty, NoQuote), <<quote>> \o s, Amid(args, t, quote))
  BY <1>5, <1>6, ReadsBoth
<1>8. Reads(Letters, Amid(args, Empty, NoQuote), <<quote>> \o s \o <<quote>>,
            Amid(args, t, NoQuote))
  BY <1>5, <1>6, <1>7, ReadsBoth
<1> QED BY <1>6, <1>8

\* A word is read as its text, however it is put down.
LEMMA ReadsPut ==
  ASSUME NEW Letters, Quotes \cup {Backslash, Blank} \subseteq Letters,
         NEW args \in Seq(Seq(Letters)), NEW word, word.text \in Seq(Letters),
         word.style \in {"plain", "double", "single"},
         word.style = "single" => ToSet(word.text) \cap {"'", Backslash} = {}
  PROVE  /\ Put(word) \in Seq(Letters)
         /\ Reads(Letters, Amid(args, Empty, NoQuote), Put(word),
                  Amid(args, word.text, NoQuote))
<1>0. /\ Backslash \in Letters /\ NoQuote \in Within
      /\ "\"" \in Letters /\ "\"" \in Quotes /\ "\"" \in Within
      /\ "'" \in Letters /\ "'" \in Quotes /\ "'" \in Within
  BY DEF Quotes, Within
<1>1. PICK t \in Seq(Letters) : t = word.text
  OBVIOUS
<1>2. CASE word.style = "plain"
  <2>1. Put(word) = Escape(t, Special(NoQuote))
    BY <1>1, <1>2 DEF Put, Special
  <2>2. /\ Escape(t, Special(NoQuote)) \in Seq(Letters)
        /\ Reads(Letters, Amid(args, Empty, NoQuote), Escape(t, Special(NoQuote)),
                 Amid(args, t, NoQuote))
    BY <1>0, ReadsEscape
  <2> QED BY <1>1, <2>1, <2>2
<1>3. CASE word.style = "double"
  <2>1. Special("\"") = {"\"", Backslash}
    BY DEF Special, NoQuote
  <2>2. PICK s : s = Escape(t, Special("\""))
    OBVIOUS
  <2>3. Put(word) = <<"\"">> \o s \o <<"\"">>
    BY <1>1, <1>3, <2>1, <2>2 DEF Put
  <2>4. s \in Seq(Letters) /\ Reads(Letters, Amid(args, Empty, "\""), s, Amid(args, t, "\""))
    BY <1>0, <2>2, ReadsEscape
  <2>5. /\ <<"\"">> \o s \o <<"\"">> \in Seq(Letters)
        /\ Reads(Letters, Amid(args, Empty, NoQuote), <<"\"">> \o s \o <<"\"">>,
                 Amid(args, t, NoQuote))
    BY <1>0, <2>4, ReadsQuote
  <2> QED BY <1>1, <2>3, <2>5
<1>4. CASE word.style = "single"
  <2>1. Put(word) = <<"'">> \o t \o <<"'">>
    BY <1>1, <1>4 DEF Put
  <2>2. \A i \in 1 .. Len(t) : t[i] \notin Special("'")
    <3>1. Special("'") = {"'", Backslash}
      BY DEF Special, NoQuote
    <3>2. \A i \in 1 .. Len(t) : t[i] \in ToSet(t)
      <4>1. DOMAIN t = 1 .. Len(t)
        OBVIOUS
      <4> QED BY <4>1 DEF ToSet
    <3> QED BY <1>1, <1>4, <3>1, <3>2
  <2>3. Reads(Letters, Amid(args, Empty, "'"), t, Amid(args, t, "'"))
    BY <1>0, <2>2, ReadsAsItIs
  <2>4. /\ <<"'">> \o t \o <<"'">> \in Seq(Letters)
        /\ Reads(Letters, Amid(args, Empty, NoQuote), <<"'">> \o t \o <<"'">>,
                 Amid(args, t, NoQuote))
    BY <1>0, <2>3, ReadsQuote
  <2> QED BY <1>1, <2>1, <2>4
<1> QED BY <1>2, <1>3, <1>4

\* However a word is put down, it ends in no blank, unless it does so itself and is not in
\* quotes.
LEMMA PutEnd ==
  ASSUME NEW Letters, Quotes \cup {Backslash, Blank} \subseteq Letters,
         NEW word, word.text \in Seq(Letters), word.text # Empty,
         word.style \in {"plain", "double", "single"},
         word.style = "plain" => word.text[Len(word.text)] # Blank,
         NEW p \in Seq(Letters), p = Put(word)
  PROVE  Len(p) # 0 /\ p[Len(p)] # Blank
<1>1. PICK t \in Seq(Letters) : t = word.text
  OBVIOUS
<1>2. /\ Backslash \in Letters /\ "\"" \in Letters /\ "'" \in Letters
      /\ "\"" # Blank /\ "'" # Blank
  BY DEF Quotes, Blank
<1>3. CASE word.style = "plain"
  <2>1. p = Escape(t, Quotes \cup {Backslash, Blank})
    BY <1>1, <1>3 DEF Put
  <2>2. t # Empty /\ t[Len(t)] # Blank
    BY <1>1, <1>3
  <2>3. PICK special : special = Quotes \cup {Backslash, Blank}
    OBVIOUS
  <2>4. p = Escape(t, special)
    BY <2>1, <2>3
  <2>5. /\ Len(Escape(t, special)) # 0
        /\ Escape(t, special)[Len(Escape(t, special))] = t[Len(t)]
    <3>1. Backslash \in Letters /\ t # Empty
      BY <1>2, <2>2
    <3> QED BY <3>1, EscapeEnd
  <2> QED BY <2>2, <2>4, <2>5
<1>4. ASSUME NEW quote \in Letters, quote # Blank, NEW s \in Seq(Letters),
             p = <<quote>> \o s \o <<quote>>
      PROVE  Len(p) # 0 /\ p[Len(p)] # Blank
  <2>1. <<quote>> \in Seq(Letters) /\ Len(<<quote>>) = 1 /\ <<quote>>[1] = quote
    BY OneLetter
  <2>2. PICK h \in Seq(Letters), q \in Seq(Letters) : p = h \o q /\ q = <<quote>>
    <3>1. PICK h : h = <<quote>> \o s
      OBVIOUS
    <3>2. h \in Seq(Letters)
      BY <2>1, <3>1
    <3>3. p = h \o <<quote>>
      BY <1>4, <3>1
    <3> QED BY <2>1, <3>2, <3>3
  <2>3. Len(q) = 1 /\ q[1] = quote
    BY <2>1, <2>2
  <2>4. Len(q) # 0
    BY <2>3
  <2>5. Len(p) = Len(h) + Len(q) /\ p[Len(p)] = q[Len(q)]
    BY <2>2, <2>4, EndOfBoth
  <2> QED BY <1>4, <2>3, <2>5
<1>5. CASE word.style = "double"
  <2>1. PICK s : s = Escape(t, {"\"", Backslash})
    OBVIOUS
  <2>2. s \in Seq(Letters)
    <3>1. PICK special : special = {"\"", Backslash}
      OBVIOUS
    <3>2. PICK f : Escapes(Letters, t, special, f)
      BY <1>2, EscapeParts
    <3>3. Len(t) \in 0 .. Len(t)
      OBVIOUS
    <3> QED BY <2>1, <3>1, <3>2, <3>3 DEF Escapes
  <2>3. p = <<"\"">> \o s \o <<"\"">>
    BY <1>1, <1>5, <2>1 DEF Put
  <2> QED BY <1>2, <1>4, <2>2, <2>3
<1>6. CASE word.style = "single"
  <2>1. p = <<"'">> \o t \o <<"'">>
    BY <1>1, <1>6 DEF Put
  <2> QED BY <1>2, <1>4, <2>1
<1> QED BY <1>3, <1>5, <1>6

\* A word, for any characters.
LEMMA WordParts ==
  ASSUME NEW word \in Word
  PROVE  /\ word.text \in Seq(Character)
         /\ word.text # Empty
         /\ word.style \in {"plain", "double", "single"}
         /\ word.style = "single" => ToSet(word.text) \cap {"'", Backslash} = {}
<1>1. Seq(STRING) \subseteq Seq(Character)
  <2>1. STRING \subseteq Character
    BY DEF Character
  <2> QED BY <2>1, SeqOfMore
<1> QED BY <1>1 DEF Word

\* The loop after some words of a line.
After(line, i) ==
  Amid(SubSeq([j \in DOMAIN line |-> line[j].text], 1, i), Empty, NoQuote)

\* What is written of a line after each of its words.
Line(line, f) ==
  /\ f \in [0 .. Len(line) -> Seq(Character)]
  /\ \A i \in 0 .. Len(line) : Reads(Character, Start, f[i], After(line, i))
  /\ \A i \in 1 .. Len(line) : f[i] = f[i - 1] \o (Put(line[i]) \o <<Blank>>)
  /\ f[0] = Empty
  /\ f[Len(line)] = Written(line)

\* A line is read word by word.
LEMMA LineParts ==
  ASSUME NEW line \in Seq(Word)
  PROVE  \E f : Line(line, f)
<1> DEFINE n == Len(line)
           texts == [i \in DOMAIN line |-> line[i].text]
           pieces == [i \in DOMAIN line |-> Put(line[i]) \o <<Blank>>]
           At(i) == After(line, i)
<1>0. n \in Nat /\ DOMAIN line = 1 .. n /\ \A i \in 1 .. n : line[i] \in Word
  OBVIOUS
<1>1. Quotes \cup {Backslash, Blank} \subseteq Character
  BY DEF Character
<1>2. ASSUME NEW i \in 1 .. n
      PROVE  /\ line[i].text \in Seq(Character)
             /\ line[i].text # Empty
             /\ line[i].style \in {"plain", "double", "single"}
             /\ line[i].style = "single" => ToSet(line[i].text) \cap {"'", Backslash} = {}
  BY <1>0, WordParts
<1>3. texts \in Seq(Seq(Character)) /\ Len(texts) = n
  BY <1>0, <1>2
<1>4. ASSUME NEW i \in 1 .. n, NEW args \in Seq(Seq(Character))
      PROVE  /\ pieces[i] \in Seq(Character)
             /\ Reads(Character, Amid(args, Empty, NoQuote), pieces[i],
                      Amid(Append(args, texts[i]), Empty, NoQuote))
  <2> DEFINE u == Put(line[i])
  <2>1. u \in Seq(Character) /\ Reads(Character, Amid(args, Empty, NoQuote), u,
                                      Amid(args, line[i].text, NoQuote))
    BY <1>1, <1>2, ReadsPut
  <2>2. Scan(Amid(args, line[i].text, NoQuote), Blank)
          = Amid(Append(args, line[i].text), Empty, NoQuote)
    BY <1>2 DEF Scan, Amid, flush, Quotes, NoQuote, Backslash, Blank
  <2>3. Blank \in Character /\ Amid(args, line[i].text, NoQuote) \in Scans(Character)
    <3>1. NoQuote \in Within
      BY DEF Within
    <3>2. line[i].text \in Seq(Character)
      BY <1>2
    <3> HIDE DEF u, pieces, texts
    <3> QED BY <1>1, <3>1, <3>2, AmidType
  <2>4. Reads(Character, Amid(args, line[i].text, NoQuote), <<Blank>>,
              Amid(Append(args, line[i].text), Empty, NoQuote))
    BY <2>2, <2>3, ReadsOne
  <2>5. pieces[i] = u \o <<Blank>> /\ texts[i] = line[i].text
    BY <1>0
  <2> HIDE DEF u, pieces, texts
  <2>6. <<Blank>> \in Seq(Character) /\ u \o <<Blank>> \in Seq(Character)
    BY <2>1, <2>3
  <2> QED BY <2>1, <2>4, <2>5, <2>6, ReadsBoth
<1>5. pieces \in Seq(Seq(Character)) /\ Len(pieces) = n
  <2>1. Empty \in Seq(Seq(Character)) /\ Empty = <<>>
    BY DEF Empty
  <2>2. \A i \in 1 .. n : pieces[i] \in Seq(Character)
    BY <1>4, <2>1
  <2>3. pieces = [i \in 1 .. n |-> pieces[i]]
    BY <1>0
  <2> HIDE DEF pieces
  <2> QED BY <1>0, <2>2, <2>3
<1>6. Written(line) = FlattenSeq(pieces)
  BY DEF Written
<1>14. \A i \in 1 .. n : pieces[i] = Put(line[i]) \o <<Blank>>
  BY <1>0
<1> HIDE DEF n, pieces, texts
<1>16. \E f \in [0 .. Len(pieces) -> Seq(Character)] :
        /\ f[0] = Empty
        /\ \A i \in 1 .. Len(pieces) : f[i] = f[i - 1] \o pieces[i]
        /\ f[Len(pieces)] = FlattenSeq(pieces)
  BY <1>5, Flattened
<1>7. PICK f \in [0 .. n -> Seq(Character)] :
        /\ f[0] = Empty
        /\ \A i \in 1 .. n : f[i] = f[i - 1] \o pieces[i]
        /\ f[n] = FlattenSeq(pieces)
  BY <1>5, <1>16
<1>8. /\ SubSeq(texts, 1, 0) = Empty /\ SubSeq(texts, 1, n) = texts
      /\ \A i \in 0 .. n : SubSeq(texts, 1, i) \in Seq(Seq(Character))
      /\ \A i \in 1 .. n : SubSeq(texts, 1, i) = Append(SubSeq(texts, 1, i - 1), texts[i])
  BY <1>3, LetterByLetter
<1> DEFINE S == {i \in 0 .. n : Reads(Character, Start, f[i], At(i))}
<1>9. 0 \in S
  <2>1. At(0) = Start
    BY <1>8 DEF Start, Amid, Empty, After, texts
  <2>2. 0 \in 0 .. n /\ Empty \in Seq(Character) /\ Empty \in Seq(Seq(Character))
        /\ NoQuote \in Within
    <3>1. NoQuote \in Within
      BY DEF Within
    <3> QED BY <1>0, <3>1 DEF Empty
  <2>3. Start \in Scans(Character)
    BY <2>2 DEF Start, Scans, Empty
  <2> HIDE DEF At
  <2>4. Reads(Character, Start, f[0], At(0))
    BY <1>7, <2>1, <2>3, ReadsNone DEF Empty
  <2> QED BY <2>2, <2>4
<1>10. ASSUME NEW i \in 1 .. n, i - 1 \in S PROVE i \in S
  <2>1. i \in 0 .. n /\ i - 1 \in 0 .. n
    BY <1>0
  <2>2. pieces[i] \in Seq(Character) /\ Reads(Character, At(i - 1), pieces[i], At(i))
    BY <1>4, <1>8, <2>1 DEF After, texts
  <2> HIDE DEF At
  <2>3. f[i - 1] \in Seq(Character) /\ f[i] = f[i - 1] \o pieces[i]
    BY <1>7, <2>1
  <2>4. Reads(Character, Start, f[i - 1], At(i - 1))
    BY <1>10
  <2>5. Reads(Character, Start, f[i], At(i))
    BY <2>2, <2>3, <2>4, ReadsBoth
  <2> QED BY <2>1, <2>5
<1> HIDE DEF S
<1>11. 0 .. n \subseteq S
  <2>1. \A i \in 1 .. n : i - 1 \in S => i \in S
    BY <1>10
  <2> QED BY <1>0, <1>9, <2>1, UpTo, Zenon
<1>12. n \in 0 .. n
  BY <1>0
<1>13. \A i \in 1 .. n : f[i] = f[i - 1] \o (Put(line[i]) \o <<Blank>>)
  BY <1>7, <1>14
<1>15. \A i \in 0 .. n : Reads(Character, Start, f[i], After(line, i))
  BY <1>11 DEF S
<1> QED BY <1>6, <1>7, <1>13, <1>15 DEF n, Line

\* So the whole of it is read as the texts of its words.
LEMMA ReadsLine ==
  ASSUME NEW line \in Seq(Word)
  PROVE  /\ Written(line) \in Seq(Character)
         /\ Reads(Character, Start, Written(line),
                  Amid([i \in DOMAIN line |-> line[i].text], Empty, NoQuote))
<1> DEFINE n == Len(line)
           texts == [i \in DOMAIN line |-> line[i].text]
<1>1. PICK f : Line(line, f)
  BY LineParts
<1>2. n \in 0 .. n
  OBVIOUS
<1>3. SubSeq(texts, 1, n) = texts
  <2>1. \A i \in 1 .. n : line[i].text \in Seq(Character)
    BY WordParts
  <2>2. texts \in Seq(Seq(Character)) /\ Len(texts) = n
    BY <2>1
  <2> HIDE DEF texts, n
  <2> QED BY <2>2, LetterByLetter
<1>4. After(line, n) = Amid(texts, Empty, NoQuote)
  BY <1>3 DEF After
<1> HIDE DEF n, texts
<1>5. f[n] = Written(line) /\ f[n] \in Seq(Character)
      /\ Reads(Character, Start, f[n], After(line, n))
  BY <1>1, <1>2 DEF Line, n
<1> QED BY <1>4, <1>5 DEF texts

\* Does a line end in a word with a blank at its end and no quotes around it.
EndsInBlank(line) ==
  line # <<>> /\ LET last == line[Len(line)]
                 IN  last.style = "plain" /\ last.text[Len(last.text)] = Blank

\* Without the blanks after it any other line is complete.
LEMMA NotOpen ==
  ASSUME NEW line \in Seq(Word), ~EndsInBlank(line)
  PROVE  ~Open(Character, Written(line))
<1> DEFINE n == Len(line)
           raw == Written(line)
           word == line[n]
<1> SUFFICES ASSUME Open(Character, raw) PROVE FALSE
  OBVIOUS
<1>0. PICK b \in 1 .. Len(raw) :
        /\ raw[b] # Blank
        /\ \A i \in b + 1 .. Len(raw) : raw[i] = Blank
        /\ \E e : /\ Reads(Character, Start, SubSeq(raw, 1, b), e)
                  /\ e.escaped \/ e.quote # NoQuote
  BY DEF Open
<1>1. PICK e : /\ raw[b] # Blank
               /\ \A i \in b + 1 .. Len(raw) : raw[i] = Blank
               /\ Reads(Character, Start, SubSeq(raw, 1, b), e)
               /\ e.escaped \/ e.quote # NoQuote
  BY <1>0
<1>2. PICK f : Line(line, f)
  BY LineParts
<1>3. CASE n = 0
  <2>1. raw = <<>>
    BY <1>2, <1>3 DEF Line, Empty
  <2> QED BY <1>1, <2>1
<1>4. CASE n # 0
  <2>1. n \in 1 .. n /\ n - 1 \in 0 .. n /\ line # <<>> /\ word \in Word
    BY <1>4
  <2> DEFINE p == Put(word)
             h == f[n - 1]
             args == SubSeq([j \in DOMAIN line |-> line[j].text], 1, n - 1)
  <2>2. h \in Seq(Character) /\ Reads(Character, Start, h, Amid(args, Empty, NoQuote))
        /\ raw = h \o (p \o <<Blank>>)
    BY <1>2, <2>1 DEF Line, After
  <2>3. args \in Seq(Seq(Character))
    <3> DEFINE texts == [j \in DOMAIN line |-> line[j].text]
    <3>1. \A i \in 1 .. n : line[i].text \in Seq(Character)
      BY WordParts
    <3>2. texts \in Seq(Seq(Character)) /\ Len(texts) = n
      BY <3>1
    <3> HIDE DEF texts, n
    <3>3. SubSeq(texts, 1, n - 1) \in Seq(Seq(Character))
      BY <2>1, <3>2, LetterByLetter
    <3> QED BY <3>3 DEF texts
  <2>4. Quotes \cup {Backslash, Blank} \subseteq Character
    BY DEF Character
  <2>5. word.style = "plain" => word.text[Len(word.text)] # Blank
    BY <2>1 DEF EndsInBlank
  <2> HIDE DEF n, word, args, h, raw
  <2>6. p \in Seq(Character)
        /\ Reads(Character, Amid(args, Empty, NoQuote), p, Amid(args, word.text, NoQuote))
    BY <2>1, <2>3, <2>4, WordParts, ReadsPut
  <2>7. Len(p) # 0 /\ p[Len(p)] # Blank
    BY <2>1, <2>4, <2>5, <2>6, WordParts, PutEnd
  <2> HIDE DEF p
  <2> DEFINE u == h \o p
  <2>8. /\ u \in Seq(Character)
        /\ Reads(Character, Start, u, Amid(args, word.text, NoQuote))
    BY <2>2, <2>6, ReadsBoth
  <2>9. Len(u) \in Nat \ {0} /\ u[Len(u)] # Blank
    BY <2>2, <2>6, <2>7, EndOfBoth
  <2>10. raw = u \o <<Blank>>
    BY <2>2, <2>4, <2>6
  <2> HIDE DEF u
  <2>11. /\ Len(raw) = Len(u) + 1 /\ raw[Len(u) + 1] = Blank
         /\ \A i \in 1 .. Len(u) : raw[i] = u[i]
         /\ SubSeq(raw, 1, Len(u)) = u
    BY <2>4, <2>8, <2>9, <2>10
  <2>12. b = Len(u)
    <3>1. b # Len(u) + 1
      BY <1>1, <2>11
    <3>2. ~(b < Len(u))
      <4>1. raw[Len(u)] # Blank
        BY <2>9, <2>11
      <4> QED BY <1>1, <2>9, <2>11, <4>1
    <3>3. b \in Int /\ b <= Len(u) + 1 /\ Len(u) \in Int
      BY <2>9, <2>11
    <3> QED BY <3>1, <3>2, <3>3
  <2>13. e = Amid(args, word.text, NoQuote)
    <3>1. Reads(Character, Start, u, e)
      BY <1>1, <2>11, <2>12
    <3> QED BY <2>8, <3>1, ReadsOnce
  <2> QED BY <1>1, <2>13 DEF Amid
<1> QED BY <1>3, <1>4

\* The arguments found in a line of words are their texts, unless the line ends in a blank
\* that is part of its last word and not in quotes: then it may be refused.
THEOREM ParsesLine ==
  ASSUME NEW line \in Seq(Word)
  PROVE  \/ parseFlags(Written(line)) = [i \in DOMAIN line |-> line[i].text]
         \/ parseFlags(Written(line)) = Refused /\ EndsInBlank(line)
<1> DEFINE end == Amid([i \in DOMAIN line |-> line[i].text], Empty, NoQuote)
<1>1. Written(line) \in Seq(Character) /\ Reads(Character, Start, Written(line), end)
  BY ReadsLine
<1>2. end.current = Empty /\ end.args = [i \in DOMAIN line |-> line[i].text]
  BY DEF Amid
<1> HIDE DEF end
<1>3. \/ parseFlags(Written(line)) = end.args
      \/ parseFlags(Written(line)) = Refused /\ Open(Character, Written(line))
  BY <1>1, <1>2, ParseTrimmed
<1> QED BY <1>2, <1>3, NotOpen

-----------------------------------------------------------------------------

\* An agent that is not started has nothing to inherit.
LEMMA InitInv == Init => IInv
<1> SUFFICES ASSUME Init PROVE IInv
  OBVIOUS
<1> USE DEF Init
<1>1. \A c \in saved : /\ c.format = "none" /\ c.by = "other"
                       /\ c.session = c.due.session /\ c.model = c.due.model
  BY DEF Formatless, Saved, NoState
<1>2. Asked /\ Kinds /\ Blanked
  BY DEF Asked, Kinds, Blanked, Starting
<1>3. Stamped /\ Faithful
  BY <1>1 DEF Stamped, Faithful
<1>4. Loaded /\ Current /\ OneBot
  BY DEF Loaded, Current, OneBot
<1> QED BY <1>2, <1>3, <1>4 DEF IInv

\* What an agent keeps over a refused request, or over its end: the checkpoints.
LEMMA RefuseInv ==
  ASSUME IInv, Refuse, phase # "off", bots = 0
  PROVE  IInv'
<1> USE DEF Refuse
<1>1. Asked' /\ Kinds' /\ Blanked'
  BY DEF IInv, Asked, Kinds, Blanked, Starting
<1>2. Stamped' /\ Faithful'
  BY DEF IInv, Stamped, Faithful
<1>3. Loaded' /\ Current' /\ OneBot'
  BY DEF Loaded, Current, OneBot
<1> QED BY <1>1, <1>2, <1>3 DEF IInv

\* Boot and Request begin with nothing.
LEMMA BeginInv ==
  ASSUME IInv, Boot \/ Request
  PROVE  IInv'
<1>1. CASE Boot
  <2> USE <1>1 DEF Boot
  <2>1. Asked' /\ Kinds' /\ Blanked'
    BY DEF IInv, Asked, Kinds, Blanked, Starting
  <2>2. Stamped' /\ Faithful'
    BY DEF IInv, Stamped, Faithful
  <2>3. Loaded' /\ Current' /\ OneBot'
    BY DEF IInv, Loaded, Current, OneBot
  <2> QED BY <2>1, <2>2, <2>3 DEF IInv
<1>2. CASE Request
  <2> USE <1>2 DEF Request
  <2>1. PICK tags \in RequestTags, from \in saved \cup {None} :
          request' = [tags |-> tags, from |-> from]
    OBVIOUS
  <2>2. Asked' /\ Kinds' /\ Blanked'
    BY <2>1 DEF IInv, Asked, Kinds, Blanked, Starting
  <2>3. Stamped' /\ Faithful'
    BY DEF IInv, Stamped, Faithful
  <2>4. Loaded' /\ Current' /\ OneBot'
    BY DEF IInv, Loaded, Current, OneBot
  <2> QED BY <2>2, <2>3, <2>4 DEF IInv
<1> QED BY <1>1, <1>2

\* A start is refused before there is a bot.
LEMMA NoBotYet ==
  ASSUME IInv, phase # "up"
  PROVE  bots = 0
BY DEF IInv, OneBot

\* The steps of a start leave the checkpoints as they are, with what is true of them.
LEMMA StepInv ==
  ASSUME IInv, NEW to, Step(to)
  PROVE  Stamped' /\ Faithful'
BY DEF IInv, Stamped, Faithful, Step

\* A CLI runtime is loaded with its state, from its environment.
LEMMA LoadCLIInv ==
  ASSUME IInv, phase = "load", LoadCLI
  PROVE  IInv'
<1>1. CASE LoadFails(kind, env, request.tags) /\ Refuse
  BY <1>1, NoBotYet, RefuseInv
<1>2. CASE /\ ~LoadFails(kind, env, request.tags)
           /\ config' = loadConfig(env, request.tags)
           /\ state' \in {[session |-> s, model |-> config'.model] :
                            s \in IF kind = "telegramcustomer" /\ request.from = None
                                  THEN Ids ELSE {None}}
           /\ due' = state'
           /\ Step(AfterLoad)
           /\ UNCHANGED origin
  <2>1. AfterLoad \in {"restore", "bot"} /\ (AfterLoad = "restore" => request.from # None)
    BY DEF AfterLoad
  <2>2. phase' = AfterLoad /\ UNCHANGED <<env, request, kind, bots, saved, origin>>
    BY <1>2 DEF Step
  <2>3. kind \in CLIKinds /\ origin = None /\ bots = 0
    BY NoBotYet DEF LoadCLI, IInv, Blanked
  <2>4. Stamped' /\ Faithful'
    BY <1>2, StepInv
  <2>5. Asked' /\ Kinds' /\ Blanked'
    BY <2>1, <2>2, <2>3 DEF IInv, Asked, Kinds, Blanked, Starting
  <2>6. Loaded'
    <3>1. trim(config'.model) = config'.model
      BY <1>2, ModelTrimmed DEF IInv, Asked, Starting, loadConfig
    <3>2. config'.flags = parseFlags(env.flags)
      BY <1>2 DEF loadConfig
    <3>3. parseFlags(env.flags) # Refused
      BY <1>2 DEF LoadFails
    <3> QED BY <2>2, <3>1, <3>2, <3>3 DEF Loaded
  <2>7. Current' /\ OneBot'
    BY <1>2, <2>1, <2>2, <2>3 DEF Current, OneBot
  <2> QED BY <2>4, <2>5, <2>6, <2>7 DEF IInv
<1> QED BY <1>1, <1>2 DEF LoadCLI

\* An openclaw runtime begins in the gateway's session, or in none if it will be
\* restored.
LEMMA LoadOpenclawInv ==
  ASSUME IInv, phase = "load", LoadOpenclaw
  PROVE  IInv'
<1>1. CASE Refuse
  BY <1>1, NoBotYet, RefuseInv
<1>2. CASE /\ due' = state'
           /\ Step(AfterLoad)
           /\ UNCHANGED <<config, origin>>
  <2>1. AfterLoad \in {"restore", "bot"} /\ (AfterLoad = "restore" => request.from # None)
    BY DEF AfterLoad
  <2>2. phase' = AfterLoad /\ UNCHANGED <<env, request, kind, bots, saved, origin, config>>
    BY <1>2 DEF Step
  <2>3. kind = "openclaw" /\ origin = None /\ bots = 0 /\ config = NoConfig
    BY NoBotYet DEF LoadOpenclaw, IInv, Blanked
  <2>4. Stamped' /\ Faithful'
    BY <1>2, StepInv
  <2>5. Asked' /\ Kinds' /\ Blanked'
    BY <2>1, <2>2, <2>3 DEF IInv, Asked, Kinds, Blanked, Starting
  <2>6. Loaded'
    BY <2>2, <2>3, TrimEmpty DEF Loaded, NoConfig, CLIKinds
  <2>7. Current' /\ OneBot'
    BY <1>2, <2>1, <2>2, <2>3 DEF Current, OneBot
  <2> QED BY <2>4, <2>5, <2>6, <2>7 DEF IInv
<1> QED BY <1>1, <1>2 DEF LoadOpenclaw

\* newRuntime keeps the invariant, whichever of the four runtimes it chooses.
LEMMA NewRuntimeInv ==
  ASSUME IInv, newRuntime
  PROVE  IInv'
<1>0. phase = "load" /\ bots = 0
  BY NoBotYet DEF newRuntime
<1>1. CASE LoadCLI
  BY <1>0, <1>1, LoadCLIInv
<1>2. CASE LoadOpenclaw
  BY <1>0, <1>2, LoadOpenclawInv
<1>3. CASE kind = "test" /\ Step("up") /\ origin' = request.from
           /\ UNCHANGED <<config, state, due>>
  <2>1. Stamped' /\ Faithful'
    BY <1>3, StepInv
  <2>2. Asked' /\ Kinds' /\ Blanked'
    BY <1>0, <1>3 DEF IInv, Asked, Kinds, Blanked, Starting, Step, Types
  <2>3. Loaded' /\ Current' /\ OneBot'
    BY <1>0, <1>3 DEF Loaded, Current, OneBot, Step
  <2> QED BY <2>1, <2>2, <2>3 DEF IInv
<1>4. CASE kind \notin Types /\ Refuse
  BY <1>0, <1>4, RefuseInv
<1> QED BY <1>1, <1>2, <1>3, <1>4 DEF newRuntime

\* A restore takes a checkpoint of its kind alone, and with it the state that was due:
\* the checkpoint's model is the one due unless the configuration has its own.
LEMMA RestoreStateInv ==
  ASSUME IInv, RestoreState
  PROVE  IInv'
<1> DEFINE c == request.from
<1>1. CASE ~Accepts(kind, c)
  <2>1. Refuse /\ phase # "off" /\ bots = 0
    BY <1>1, NoBotYet DEF RestoreState
  <2> QED BY <2>1, RefuseInv
<1>2. CASE Accepts(kind, c)
  <2>1. /\ phase = "restore"
        /\ state' = [session |-> c.session, model |-> OrElse(config.model, c.model)]
        /\ Inherit
        /\ Step("bot")
        /\ UNCHANGED config
    BY <1>2 DEF RestoreState
  <2>2. c \in saved /\ kind \in CLIKinds \cup {"openclaw"} /\ bots = 0
    BY <2>1, NoBotYet DEF IInv, Kinds
  <2>3. c.by \in {kind, "other"}
    <3>1. c.format \in {"none", Format[kind]}
      BY <1>2 DEF Accepts
    <3>2. Format[kind] = kind
      BY <2>2 DEF Format, CLIKinds
    <3> QED BY <2>2, <3>1, <3>2 DEF IInv, Stamped, CLIKinds
  <2>4. state' = due'
    <3>1. trim(config.model) = config.model
      BY <2>1, <2>2 DEF IInv, Loaded, CLIKinds
    <3>2. c.session = c.due.session /\ c.model = c.due.model
      BY <2>2 DEF IInv, Faithful
    <3> QED BY <2>1, <3>1, <3>2 DEF Inherit, OrElse
  <2>5. Stamped' /\ Faithful'
    BY <2>1, StepInv
  <2>6. phase' = "bot" /\ origin' = c
        /\ UNCHANGED <<env, request, kind, bots, saved, config>>
    BY <2>1 DEF Step, Inherit
  <2>7. Asked' /\ Kinds' /\ Blanked'
    BY <2>1, <2>2, <2>6 DEF IInv, Asked, Kinds, Blanked, Starting
  <2>8. Loaded'
    BY <2>1, <2>6 DEF IInv, Loaded
  <2>9. Current' /\ OneBot'
    BY <2>2, <2>3, <2>4, <2>6 DEF Current, OneBot
  <2> QED BY <2>5, <2>7, <2>8, <2>9 DEF IInv
<1> QED BY <1>1, <1>2

\* The bot is the last to start: when it is refused there is none, and when it runs
\* its runtime is up.
LEMMA RunByHymxInv ==
  ASSUME IInv, RunByHymx
  PROVE  IInv'
<1>0. phase = "bot" /\ bots = 0 /\ kind \in CLIKinds \cup {"openclaw"}
  BY NoBotYet DEF RunByHymx, IInv, Kinds
<1>1. CASE Refuse
  BY <1>0, <1>1, RefuseInv
<1>2. CASE /\ bots' = IF kind = "telegramcustomer" THEN bots + 1 ELSE bots
           /\ phase' = "up"
           /\ UNCHANGED <<env, request, kind, config, state, saved, origin, due>>
  <2> USE <1>0, <1>2
  <2>1. Asked' /\ Kinds' /\ Blanked'
    BY DEF IInv, Asked, Kinds, Blanked, Starting, Types
  <2>2. Stamped' /\ Faithful'
    BY DEF IInv, Stamped, Faithful
  <2>3. Loaded' /\ Current' /\ OneBot'
    BY DEF IInv, Loaded, Current, OneBot
  <2> QED BY <2>1, <2>2, <2>3 DEF IInv
<1> QED BY <1>1, <1>2 DEF RunByHymx

\* A call leaves the runtime with another session, which is then the one due.
LEMMA ApplyInv ==
  ASSUME IInv, Apply
  PROVE  IInv'
<1>1. PICK s \in Ids \cup {None} : /\ state' = [state EXCEPT !.session = s]
                                   /\ due' = [due EXCEPT !.session = s]
  BY DEF Apply
<1>2. /\ phase = "up" /\ kind \in {"openclaw", "claude"}
      /\ UNCHANGED <<phase, env, request, kind, config, bots, saved, origin>>
  BY DEF Apply
<1>3. Asked' /\ Kinds' /\ Blanked'
  BY <1>2 DEF IInv, Asked, Kinds, Blanked, Starting
<1>4. Stamped' /\ Faithful'
  BY <1>2 DEF IInv, Stamped, Faithful
<1>5. Loaded' /\ OneBot'
  BY <1>2 DEF IInv, Loaded, OneBot
<1>6. Current'
  <2>1. state = due /\ (origin # None => origin.by \in {kind, "other"})
    BY <1>2 DEF IInv, Current
  <2> QED BY <1>1, <1>2, <2>1 DEF Current
<1> QED BY <1>3, <1>4, <1>5, <1>6 DEF IInv

\* A checkpoint that is handed out says who made it, and holds what is due.
LEMMA CheckpointInv ==
  ASSUME IInv, Checkpoint
  PROVE  IInv'
<1> DEFINE new == IF kind = "test" THEN BlankCheckpoint ELSE Saved(Format[kind], state, kind, due)
<1>1. /\ phase = "up" /\ kind \in Types
      /\ saved' = saved \cup {new}
      /\ UNCHANGED <<phase, env, request, kind, config, state, bots, origin, due>>
  BY DEF Checkpoint, IInv, Kinds
<1>2. Asked' /\ Kinds' /\ Blanked'
  BY <1>1 DEF IInv, Asked, Kinds, Blanked, Starting
<1>3. \/ new.format = "blank" /\ new.by = "test"
      \/ new.format = new.by /\ new.by \in CLIKinds \cup {"openclaw"}
  BY <1>1 DEF Types, CLIKinds, BlankCheckpoint, Saved, Format
<1>4. new.session = new.due.session /\ new.model = new.due.model
  <2>1. CASE kind = "test"
    BY <2>1 DEF BlankCheckpoint, Saved
  <2>2. CASE kind # "test"
    <3>1. state = due
      BY <1>1, <2>2 DEF IInv, Current
    <3> QED BY <2>2, <3>1 DEF Saved
  <2> QED BY <2>1, <2>2
<1> HIDE DEF new
<1>5. Stamped' /\ Faithful'
  BY <1>1, <1>3, <1>4 DEF IInv, Stamped, Faithful
<1>6. Loaded' /\ Current' /\ OneBot'
  BY <1>1 DEF IInv, Loaded, Current, OneBot
<1> QED BY <1>2, <1>5, <1>6 DEF IInv

\* With the agent goes all but what it handed out.
LEMMA StopInv ==
  ASSUME IInv, Stop
  PROVE  IInv'
<1> USE DEF Stop
<1>1. Asked' /\ Kinds' /\ Blanked'
  BY DEF Asked, Kinds, Blanked, Starting
<1>2. Stamped' /\ Faithful'
  BY DEF IInv, Stamped, Faithful
<1>3. Loaded' /\ Current' /\ OneBot'
  BY DEF Loaded, Current, OneBot
<1> QED BY <1>1, <1>2, <1>3 DEF IInv

\* Every step keeps the invariant.
LEMMA NextInv == IInv /\ [Next]_vars => IInv'
<1> SUFFICES ASSUME IInv, [Next]_vars PROVE IInv'
  OBVIOUS
<1>1. CASE UNCHANGED vars
  BY <1>1 DEF vars, IInv, Asked, Kinds, Stamped, Faithful, Blanked, Loaded, Current, OneBot,
              Starting
<1> QED
  BY <1>1, BeginInv, NewRuntimeInv, RestoreStateInv, RunByHymxInv, ApplyInv, CheckpointInv,
     StopInv DEF Next

\* The invariant holds however often a runtime migrates.
THEOREM Invariant == Spec => []IInv
BY InitInv, NextInv, PTL DEF Spec

\* A checkpoint comes back only in the kind of runtime that handed it out, for any
\* environments (Accepts, runtime.go:52 and claudecode.go:417).
THEOREM RestoresInKind == Spec => []RestoredInKind
<1>1. IInv => RestoredInKind
  BY DEF IInv, Current, RestoredInKind
<1> QED BY <1>1, Invariant, PTL

\* A runtime goes on in the session and with the model due to it, over any number of
\* migrations (claudecode.go:431, openclaw.go:333).
THEOREM KeepsState == Spec => []MigrationKeepsState
<1>1. IInv => MigrationKeepsState
  BY DEF IInv, Current, MigrationKeepsState
<1> QED BY <1>1, Invariant, PTL

\* A process runs the bot of its runtime and no other (telegramcustomer.go:92).
THEOREM RunsOneBot == Spec => []OneBot
<1>1. IInv => OneBot
  BY DEF IInv
<1> QED BY <1>1, Invariant, PTL

\* The arguments of a CLI are the ones that were meant, for any line of words, each put
\* down in any of the ways there are (parseFlags, claudecode.go:164).
THEOREM FlagsMeant == Spec => []FlagsAsMeant
<1>1. IInv => FlagsAsMeant
  <2> SUFFICES ASSUME IInv, phase \in {"restore", "bot", "up"}, kind \in CLIKinds,
                      env.flags = Written(env.line)
               PROVE  config.flags = [i \in DOMAIN env.line |-> env.line[i].text]
    BY DEF FlagsAsMeant
  <2>1. phase \in {"restore", "bot", "up"} /\ kind # "test"
    BY DEF CLIKinds
  <2>2. config.flags = parseFlags(Written(env.line)) /\ config.flags # Refused
    BY <2>1 DEF IInv, Loaded
  <2>3. env.line \in Seq(Word)
    BY AMigration DEF IInv, Asked
  <2> QED BY <2>2, <2>3, ParsesLine
<1> QED BY <1>1, Invariant, PTL
=============================================================================
