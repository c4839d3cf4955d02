-------------------------- MODULE AuthStoreProofs --------------------------
(***************************************************************************)
(* Theorems about the auth store, for any writers and profiles.            *)
(*                                                                         *)
(* An upsert decides what to write when it reads and takes effect when it  *)
(* renames.  In between the decision must stay right (Decided), and the    *)
(* name that is renamed must have the text that was written (Draft),       *)
(* which a writer can rely on while it is alone, on an inode that is not   *)
(* the store's (Apart).  Healing asks for less, and holds after overlaps:  *)
(* only that nobody is at work but the last writer (Healing).              *)
(***************************************************************************)
EXTENDS AuthStore, TLAPS

Working(w) == pc[w] \in Active

\* The file a writer opened is empty; the one it renames is whole.
Draft(w) ==
  /\ pc[w] = "write" => /\ tmp[place[w]] # None /\ fd[w] = tmp[place[w]]
                        /\ content[tmp[place[w]]] = Empty
  /\ pc[w] = "rename" => /\ tmp[place[w]] # None
                         /\ content[tmp[place[w]]] = Whole(merged[w])

\* A temporary name's file is no store's and no other temporary name's, and a writer
\* that has not opened its own has none.
Apart ==
  /\ \A p, q \in Places :
       tmp[p] # None => tmp[p] # store[q] /\ (p # q => tmp[p] # tmp[q])
  /\ \A w \in Writers : pc[w] \in {"idle", "read", "open"} =>
       \A p \in Places : tmp[p] # w /\ store[p] # w

\* What a writer will write is the store with its own profile.
Decided(w) ==
  pc[w] \in {"open", "write", "rename"} =>
    merged[w] = [Stored(place[w]) EXCEPT ![profile[w]] = w]

Alone ==
  ~overlapped =>
    /\ Apart
    /\ \A w \in Writers :
         /\ \A v \in Writers : Working(v) /\ Working(w) => v = w
         /\ Draft(w)
         /\ ~unread => Decided(w)

\* While the last writer started alone, nobody else is at work.
Healing ==
  last # None =>
    /\ pc[last] # "idle"
    /\ \A w \in Writers : Working(w) => w = last
    /\ Draft(last)
    /\ pc[last] \in {"open", "write", "rename"} => merged[last][profile[last]] = last

IInv == TypeOK /\ Alone /\ Healing /\ LoneKeysStored /\ LoneUpsertHeals
-----------------------------------------------------------------------------
(* Types.                                                                  *)

\* A reader makes a store of whatever the file holds.
LEMMA StoredType == ASSUME TypeOK, NEW p \in Places PROVE Stored(p) \in Stores
<1>1. NoProfiles \in Stores
  BY DEF NoProfiles, Stores
<1>2. ASSUME NEW t \in Texts PROVE t.store \in Stores
  BY <1>1, <1>2 DEF Texts, Whole, Empty, Torn, Null
<1> QED
  BY <1>1, <1>2 DEF Stored, TypeOK

\* The store of a writer: what it read, with its own profile.
LEMMA MergeType ==
  ASSUME TypeOK, NEW w \in Writers, NEW s \in Stores
  PROVE  /\ [s EXCEPT ![profile[w]] = w] \in Stores
         /\ [merged EXCEPT ![w] = [s EXCEPT ![profile[w]] = w]] \in [Writers -> Stores]
<1>1. [s EXCEPT ![profile[w]] = w] \in Stores
  BY DEF TypeOK, Stores
<1> QED
  BY <1>1 DEF TypeOK

\* Each file operation of a writer keeps the types.
LEMMA WriterType ==
  ASSUME TypeOK, NEW w \in Writers, Start(w) \/ upsertAuthProfileAPIKey(w)
  PROVE  TypeOK'
<1>0. /\ \A to : to \in {"idle", "done", "failed", "lost"} \cup Active /\ Goto(w, to)
                 => pc' \in [Writers -> {"idle", "done", "failed", "lost"} \cup Active]
      /\ {"read", "open", "write", "rename", "remove"} = Active
      /\ NoProfiles \in Stores
  BY DEF TypeOK, Goto, Active, NoProfiles, Stores
<1>a. /\ Empty \in Texts /\ Torn \in Texts
      /\ Whole(merged[w]) \in Texts
  BY DEF TypeOK, Texts
<1>b. place[w] \in Places
  BY DEF TypeOK
<1>1. CASE Start(w)
  <2>1. pc' \in [Writers -> {"idle", "done", "failed", "lost"} \cup Active]
    BY <1>0, <1>1 DEF Start
  <2>2. place' \in [Writers -> Places]
    BY <1>1 DEF TypeOK, Start
  <2>3. acked' \in [Places -> Stores]
    BY <1>0, <1>1 DEF TypeOK, Start
  <2> QED
    BY <1>1, <2>1, <2>2, <2>3 DEF TypeOK, Start
<1>2. CASE Read(w)
  <2>1. pc' \in [Writers -> {"idle", "done", "failed", "lost"} \cup Active]
    BY <1>0, <1>2 DEF Read
  <2>2. merged' \in [Writers -> Stores]
    BY <1>0, <1>b, <1>2, StoredType, MergeType DEF TypeOK, Read
  <2>3. unread' \in BOOLEAN
    BY <1>2 DEF TypeOK, Read
  <2> QED
    BY <1>2, <2>1, <2>2, <2>3 DEF TypeOK, Read
<1>3. CASE Open(w)
  <2>1. pc' \in [Writers -> {"idle", "done", "failed", "lost"} \cup Active]
    BY <1>0, <1>3 DEF Open
  <2>2. PICK i \in Inodes :
          /\ tmp' = [tmp EXCEPT ![place[w]] = i]
          /\ content' = [content EXCEPT ![i] = Empty]
          /\ fd' = [fd EXCEPT ![w] = i]
    BY <1>b, <1>3 DEF TypeOK, Open, Inodes
  <2>3. /\ tmp' \in [Places -> Inodes \cup {None}]
        /\ fd' \in [Writers -> Inodes \cup {None}]
    BY <2>2 DEF TypeOK
  <2>4. content' \in [Inodes -> Texts]
    BY <1>a, <2>2 DEF TypeOK
  <2>5. UNCHANGED <<profile, place, merged, store, last, acked, overlapped, unread>>
    BY <1>3 DEF Open, history
  <2> QED
    BY <2>1, <2>3, <2>4, <2>5 DEF TypeOK
<1>4. CASE Write(w)
  <2>1. pc' \in [Writers -> {"idle", "done", "failed", "lost"} \cup Active]
    BY <1>0, <1>4 DEF Write
  <2>2. content' \in [Inodes -> Texts]
    BY <1>4, <1>a DEF TypeOK, Write
  <2>3. fd' \in [Writers -> Inodes \cup {None}]
    BY <1>4 DEF TypeOK, Write
  <2> QED
    BY <1>4, <2>1, <2>2, <2>3 DEF TypeOK, Write, history
<1>5. CASE Rename(w)
  <2>1. pc' \in [Writers -> {"idle", "done", "failed", "lost"} \cup Active]
    BY <1>0, <1>5 DEF Rename
  <2>2. /\ store' \in [Places -> Inodes \cup {None}]
        /\ tmp' \in [Places -> Inodes \cup {None}]
    BY <1>b, <1>5 DEF TypeOK, Rename
  <2>3. acked' \in [Places -> Stores]
    <3>1. [acked[place[w]] EXCEPT ![profile[w]] = w] \in Stores
      BY <1>b DEF TypeOK, Stores
    <3> QED
      BY <1>b, <1>5, <3>1 DEF TypeOK, Rename
  <2> QED
    BY <1>5, <2>1, <2>2, <2>3 DEF TypeOK, Rename
<1>6. CASE Remove(w)
  <2>1. pc' \in [Writers -> {"idle", "done", "failed", "lost"} \cup Active]
    BY <1>0, <1>6 DEF Remove
  <2> QED
    BY <1>6, <2>1 DEF TypeOK, Remove, history
<1> QED
  BY <1>1, <1>2, <1>3, <1>4, <1>5, <1>6 DEF upsertAuthProfileAPIKey

\* A crash keeps the types.
LEMMA CrashType == ASSUME TypeOK, Crash PROVE TypeOK'
<1>1. pc' \in [Writers -> {"idle", "done", "failed", "lost"} \cup Active]
  BY DEF TypeOK, Crash
<1>2. Torn \in Texts
  BY DEF Texts
<1>3. content' \in [Inodes -> Texts]
  BY <1>2 DEF TypeOK, Crash
<1>4. fd' \in [Writers -> Inodes \cup {None}]
  BY DEF TypeOK, Crash
<1> QED
  BY <1>1, <1>3, <1>4 DEF TypeOK, Crash, history
-----------------------------------------------------------------------------
(* What a step does to the store a reader sees.                            *)

\* Under Alone, only a rename changes a store: every other operation is on a temporary
\* file, which is another one.
LEMMA StoreStays ==
  ASSUME TypeOK, Alone, ~overlapped, NEW p \in Places,
         \/ \E w \in Writers : Start(w) \/ Read(w) \/ Open(w) \/ Write(w) \/ Remove(w)
         \/ Crash
  PROVE  Stored(p)' = Stored(p)
<1> USE DEF Stored
<1>1. ASSUME NEW w \in Writers, Start(w) \/ Read(w) \/ Remove(w)
      PROVE  Stored(p)' = Stored(p)
  BY <1>1 DEF Start, Read, Remove
<1>2. ASSUME NEW w \in Writers, Open(w) PROVE Stored(p)' = Stored(p)
  <2>1. PICK i \in Inodes :
          /\ content' = [content EXCEPT ![i] = Empty]
          /\ i = IF tmp[place[w]] = None THEN w ELSE tmp[place[w]]
    BY <1>2 DEF TypeOK, Open, Inodes
  <2>2. i # store[p]
    BY <1>2, <2>1 DEF TypeOK, Alone, Apart, Open
  <2> QED
    BY <1>2, <2>1, <2>2 DEF TypeOK, Open
<1>3. ASSUME NEW w \in Writers, Write(w) PROVE Stored(p)' = Stored(p)
  <2>1. fd[w] # store[p]
    BY <1>3 DEF TypeOK, Alone, Apart, Draft, Write
  <2>2. \A i \in Inodes : i # fd[w] => content'[i] = content[i]
    BY <1>3 DEF TypeOK, Write
  <2> QED
    BY <1>3, <2>1, <2>2 DEF TypeOK, Write
<1>4. CASE Crash
  <2>1. \A w \in Writers : pc[w] = "write" => fd[w] # store[p]
    BY DEF TypeOK, Alone, Apart, Draft
  <2>2. \A i \in Inodes : i = store[p] => content'[i] = content[i]
    BY <1>4, <2>1 DEF TypeOK, Crash
  <2> QED
    BY <1>4, <2>2 DEF TypeOK, Crash
<1> QED
  BY <1>1, <1>2, <1>3, <1>4

\* A rename by a writer whose draft is in place makes it the store, or fails; it leaves
\* the other place alone.
LEMMA RenamePublishes ==
  ASSUME TypeOK, NEW w \in Writers, Draft(w), Rename(w)
  PROVE  /\ \/ pc' = [pc EXCEPT ![w] = "done"] /\ Stored(place[w])' = merged[w]
            \/ pc' = [pc EXCEPT ![w] = "remove"] /\ Stored(place[w])' = Stored(place[w])
         /\ \A p \in Places : p # place[w] => Stored(p)' = Stored(p)
<1>0. place[w] \in Places /\ place' = place
  BY DEF TypeOK, Rename
<1>1. CASE /\ store' = [store EXCEPT ![place[w]] = tmp[place[w]]]
           /\ pc' = [pc EXCEPT ![w] = "done"]
  <2>1. store'[place[w]] = tmp[place[w]] /\ tmp[place[w]] # None
    BY <1>0, <1>1 DEF TypeOK, Draft, Rename
  <2>2. content'[tmp[place[w]]] = Whole(merged[w])
    BY DEF Draft, Rename
  <2>3. Stored(place[w])' = merged[w]
    BY <1>0, <2>1, <2>2 DEF Stored, Whole
  <2>4. \A p \in Places : p # place[w] => Stored(p)' = Stored(p)
    BY <1>0, <1>1 DEF TypeOK, Stored, Rename
  <2> QED
    BY <1>1, <2>3, <2>4
<1>2. CASE pc' = [pc EXCEPT ![w] = "remove"] /\ UNCHANGED store
  BY <1>0, <1>2 DEF Rename, Stored
<1> QED
  BY <1>1, <1>2 DEF Rename, Goto
-----------------------------------------------------------------------------
(* The writer that is alone.                                               *)

\* At the start nothing is on its way, and no writer has a file.
LEMMA InitInv == Init => IInv
<1> SUFFICES ASSUME Init PROVE IInv
  OBVIOUS
<1>0. NoProfiles \in Stores /\ "configured" \in Places
  BY DEF NoProfiles, Stores, Places
<1>1. TypeOK
  <2>1. Found \cup {Empty} \subseteq Texts
    <3>1. [Profiles -> {Before, None}] \subseteq Stores
      BY DEF Stores
    <3> QED
      BY <3>1 DEF Texts, Found
  <2>2. content \in [Inodes -> Texts]
    BY <2>1 DEF Init
  <2>3. /\ store \in [Places -> Inodes \cup {None}]
        /\ tmp \in [Places -> Inodes \cup {None}]
    BY DEF Init, Inodes
  <2> QED
    BY <1>0, <2>2, <2>3 DEF Init, TypeOK
<1>2. Alone
  <2>1. \A p \in Places : tmp[p] = None /\ store[p] \in Places \cup {None}
    BY DEF Init
  <2>2. Apart
    BY <2>1, AAuthStore DEF Apart
  <2> QED
    BY <2>2 DEF Init, Alone, Draft, Decided, Working, Active
<1>3. Healing /\ LoneUpsertHeals
  BY DEF Init, Healing, LoneUpsertHeals
<1>4. LoneKeysStored
  BY DEF Init, LoneKeysStored, NoProfiles
<1> QED
  BY <1>1, <1>2, <1>3, <1>4 DEF IInv

\* A writer that is alone keeps the names apart, its draft in place and its decision
\* right: nobody else changes the store it read.
LEMMA AloneStep ==
  ASSUME TypeOK, Alone, ~overlapped', NEW w \in Writers,
         Start(w) \/ upsertAuthProfileAPIKey(w)
  PROVE  Alone'
<1>0. ~overlapped /\ Apart
  <2>1. ~overlapped
    BY Zenon DEF Start, upsertAuthProfileAPIKey, Read, Open, Write, Rename, Remove, history
  <2> QED
    BY <2>1 DEF Alone
<1>a. \A v \in Writers : v # w => ~Working(v) \/ Start(w)
  BY <1>0 DEF Alone, Working, Active, upsertAuthProfileAPIKey, Read, Open, Write, Rename, Remove
<1>b. \A v \in Writers : v # w => ~Working(v)
  BY <1>0, <1>a DEF Start, Quiet, Working
<1>c. \A v \in Writers : v # w => pc'[v] = pc[v]
  BY DEF TypeOK, Goto, Start, upsertAuthProfileAPIKey, Read, Open, Write, Rename, Remove
<1>d. /\ \A v, u \in Writers : Working(v)' /\ Working(u)' => u = v
      /\ \A v \in Writers : v # w => pc'[v] \notin {"read", "open", "write", "rename", "remove"}
  BY <1>b, <1>c DEF Working, Active
<1>e. SUFFICES Apart' /\ Draft(w)' /\ (~unread' => Decided(w)')
  BY <1>d DEF Alone, Draft, Decided
<1>f. /\ w # None /\ pc[w] \in {"idle"} \cup Active /\ place[w] \in Places
      /\ \A v \in Writers : v # w /\ pc'[v] \in {"idle", "read", "open"} =>
           \A p \in Places : tmp[p] # v /\ store[p] # v
  BY <1>0, <1>c, AAuthStore DEF TypeOK, Apart, Start, upsertAuthProfileAPIKey, Read, Open,
     Write, Rename, Remove, Active
<1>1. CASE Start(w)
  <2>1. pc' = [pc EXCEPT ![w] = "read"] \/ pc' = [pc EXCEPT ![w] = "failed"]
    BY <1>1 DEF Start, Goto
  <2>2. Apart'
    BY <1>0, <1>1, <1>f, <2>1 DEF Apart, Start
  <2> QED
    BY <2>1, <2>2 DEF TypeOK, Draft, Decided
<1>2. CASE Read(w)
  <2>1. pc'[w] \in {"open", "failed"} /\ UNCHANGED <<store, tmp, content, profile, place>>
    BY <1>2 DEF TypeOK, Read, Goto
  <2>2. Apart'
    BY <1>0, <1>2, <1>f, <2>1 DEF Apart, Read
  <2>3. Draft(w)'
    BY <2>1 DEF Draft
  <2>4. ASSUME ~unread', pc'[w] = "open"
        PROVE  merged'[w] = [Stored(place[w]) EXCEPT ![profile[w]] = w]
    BY <1>2, <2>4 DEF TypeOK, Read, Goto
  <2>5. Stored(place[w])' = Stored(place[w])
    BY <2>1 DEF Stored
  <2> QED
    BY <2>1, <2>2, <2>3, <2>4, <2>5 DEF Decided
<1>3. CASE Open(w)
  <2>1. PICK i \in Inodes :
          /\ tmp' = [tmp EXCEPT ![place[w]] = i]
          /\ content' = [content EXCEPT ![i] = Empty]
          /\ fd' = [fd EXCEPT ![w] = i]
          /\ i = IF tmp[place[w]] = None THEN w ELSE tmp[place[w]]
    BY <1>f, <1>3 DEF TypeOK, Open, Inodes
  <2>2. /\ pc[w] = "open" /\ pc'[w] = "write"
        /\ UNCHANGED <<merged, profile, place, store, unread>>
    BY <1>3 DEF TypeOK, Open, Goto, history
  <2>3. /\ tmp'[place[w]] = i /\ i # None
        /\ \A p \in Places : p # place[w] => tmp'[p] = tmp[p]
        /\ \A p \in Places : i # store[p] /\ (p # place[w] => i # tmp[p])
    BY <1>0, <1>f, <2>1, <2>2, AAuthStore DEF TypeOK, Apart, Inodes
  <2>4. \A p, q \in Places :
          tmp'[p] # None => tmp'[p] # store'[q] /\ (p # q => tmp'[p] # tmp'[q])
    BY <1>0, <2>2, <2>3 DEF Apart
  <2>5. \A v \in Writers : pc'[v] \in {"idle", "read", "open"} =>
          \A p \in Places : tmp'[p] # v /\ store'[p] # v
    <3>1. SUFFICES ASSUME NEW v \in Writers, v # w, pc'[v] \in {"idle", "read", "open"}
                   PROVE  i # v
      BY <1>f, <2>2, <2>3
    <3> QED
      BY <1>f, <2>1, <3>1
  <2>6. Apart'
    BY <2>4, <2>5 DEF Apart
  <2>7. Draft(w)'
    BY <1>f, <2>1, <2>2, <2>3 DEF TypeOK, Draft
  <2>8. Stored(place[w])' = Stored(place[w])
    <3>1. \A p \in Places : Stored(p)' = Stored(p)
      BY <1>0, <1>3, StoreStays
    <3> QED
      BY <1>f, <2>2, <3>1
  <2> QED
    BY <1>0, <2>2, <2>6, <2>7, <2>8 DEF Alone, Decided
<1>4. CASE Write(w)
  <2>1. /\ pc[w] = "write" /\ pc'[w] \in {"rename", "failed"}
        /\ UNCHANGED <<store, tmp, merged, profile, place, unread>>
    BY <1>4 DEF TypeOK, Write, Goto, history
  <2>2. Apart'
    BY <1>0, <1>f, <2>1 DEF Apart
  <2>3. Draft(w)'
    BY <1>0, <1>4, <1>f, <2>1 DEF TypeOK, Alone, Draft, Write, Goto
  <2>4. Stored(place[w])' = Stored(place[w])
    <3>1. \A p \in Places : Stored(p)' = Stored(p)
      BY <1>0, <1>4, StoreStays
    <3> QED
      BY <1>f, <2>1, <3>1
  <2> QED
    BY <1>0, <2>1, <2>2, <2>3, <2>4 DEF Alone, Decided
<1>5. CASE Rename(w)
  <2>1. pc[w] = "rename" /\ pc'[w] \in {"done", "remove"}
    BY <1>5 DEF TypeOK, Rename, Goto
  <2>2. CASE UNCHANGED <<store, tmp>>
    <3>1. Apart'
      BY <1>0, <1>f, <2>1, <2>2 DEF Apart
    <3> QED
      BY <2>1, <3>1 DEF Draft, Decided
  <2>3. CASE /\ tmp[place[w]] # None
             /\ store' = [store EXCEPT ![place[w]] = tmp[place[w]]]
             /\ tmp' = [tmp EXCEPT ![place[w]] = None]
    <3>1. /\ tmp'[place[w]] = None /\ store'[place[w]] = tmp[place[w]]
          /\ \A p \in Places : p # place[w] => tmp'[p] = tmp[p] /\ store'[p] = store[p]
      BY <1>f, <2>3 DEF TypeOK
    <3>2. \A p, q \in Places :
            tmp'[p] # None => tmp'[p] # store'[q] /\ (p # q => tmp'[p] # tmp'[q])
      BY <1>0, <1>f, <3>1 DEF Apart
    <3>3. \A v \in Writers : pc'[v] \in {"idle", "read", "open"} =>
            \A p \in Places : tmp'[p] # v /\ store'[p] # v
      BY <1>f, <2>1, <3>1, AAuthStore
    <3> QED
      BY <2>1, <3>2, <3>3 DEF Apart, Draft, Decided
  <2> QED
    BY <1>5, <2>2, <2>3 DEF Rename
<1>6. CASE Remove(w)
  <2>1. /\ pc'[w] = "failed" /\ store' = store
        /\ \A p \in Places : tmp'[p] = IF p = place[w] THEN None ELSE tmp[p]
    BY <1>6 DEF TypeOK, Remove, Goto
  <2>2. Apart'
    BY <1>0, <1>f, <2>1, AAuthStore DEF Apart
  <2> QED
    BY <2>1, <2>2 DEF Draft, Decided
<1> QED
  BY <1>1, <1>2, <1>3, <1>4, <1>5, <1>6 DEF upsertAuthProfileAPIKey

\* The last writer, if it started alone, is alone until the next one starts, whatever
\* others left behind.
LEMMA HealingStep ==
  ASSUME TypeOK, Healing, NEW w \in Writers, Start(w) \/ upsertAuthProfileAPIKey(w)
  PROVE  Healing'
<1>0. SUFFICES ASSUME last' # None PROVE Healing'
  BY DEF Healing
<1>a. place[w] \in Places
  BY DEF TypeOK
<1>1. CASE Start(w)
  <2>1. Quiet /\ last' = w /\ pc'[w] \in {"read", "failed"}
    BY <1>0, <1>1 DEF TypeOK, Start, Goto
  <2>2. \A v \in Writers : v # w => ~Working(v)'
    BY <1>1, <2>1 DEF TypeOK, Start, Goto, Quiet, Working
  <2> QED
    BY <2>1, <2>2 DEF Healing, Draft
<1>2. CASE upsertAuthProfileAPIKey(w)
  <2>1. /\ last' = last /\ w = last
        /\ \A v \in Writers : v # w => ~Working(v) /\ pc'[v] = pc[v]
    BY <1>0, <1>2 DEF TypeOK, Healing, Working, Active, Goto, history, upsertAuthProfileAPIKey,
       Read, Open, Write, Rename, Remove
  <2>2. SUFFICES /\ pc'[w] # "idle"
                 /\ Draft(w)'
                 /\ pc'[w] \in {"open", "write", "rename"} => merged'[w][profile'[w]] = w
    BY <2>1 DEF Healing, Working
  <2>3. CASE Read(w)
    <3>1. /\ pc'[w] \in {"open", "failed"} /\ profile' = profile
          /\ pc'[w] = "open" => \E s \in Stores : merged'[w] = [s EXCEPT ![profile[w]] = w]
      <4>1. NoProfiles \in Stores
        BY DEF NoProfiles, Stores
      <4> QED
        BY <1>a, <2>3, <4>1, StoredType DEF TypeOK, Read, Goto
    <3>2. pc'[w] = "open" => merged'[w][profile'[w]] = w
      BY <3>1 DEF TypeOK, Stores
    <3> QED
      BY <3>1, <3>2 DEF Draft
  <2>4. CASE Open(w)
    <3>1. PICK i \in Inodes :
            /\ tmp' = [tmp EXCEPT ![place[w]] = i]
            /\ content' = [content EXCEPT ![i] = Empty]
            /\ fd' = [fd EXCEPT ![w] = i]
      BY <1>a, <2>4 DEF TypeOK, Open, Inodes
    <3>2. pc[w] = "open" /\ pc'[w] = "write" /\ UNCHANGED <<merged, profile, place>>
      BY <2>4 DEF TypeOK, Open, Goto
    <3>3. Draft(w)'
      BY <1>a, <3>1, <3>2, AAuthStore DEF TypeOK, Draft, Inodes
    <3> QED
      BY <2>1, <1>0, <3>2, <3>3 DEF Healing
  <2>5. CASE Write(w)
    <3>1. /\ pc[w] = "write" /\ pc'[w] \in {"rename", "failed"}
          /\ UNCHANGED <<tmp, merged, profile, place>>
      BY <2>5 DEF TypeOK, Write, Goto
    <3>2. Draft(w)
      BY <1>0, <2>1 DEF Healing
    <3>3. Draft(w)'
      BY <1>a, <2>5, <3>1, <3>2 DEF TypeOK, Draft, Write, Goto
    <3> QED
      BY <2>1, <1>0, <3>1, <3>3 DEF Healing
  <2>6. CASE Rename(w)
    BY <2>6 DEF TypeOK, Rename, Goto, Draft
  <2>7. CASE Remove(w)
    BY <2>7 DEF TypeOK, Remove, Goto, Draft
  <2> QED
    BY <1>2, <2>3, <2>4, <2>5, <2>6, <2>7 DEF upsertAuthProfileAPIKey
<1> QED
  BY <1>1, <1>2

\* A crash leaves nobody at work, and the stores as they were.
LEMMA CrashStep ==
  ASSUME IInv, Crash
  PROVE  Alone' /\ Healing' /\ LoneKeysStored' /\ LoneUpsertHeals'
<1>1. /\ TypeOK
      /\ UNCHANGED <<profile, place, store, tmp, last, acked, overlapped, unread, merged>>
      /\ \A w \in Writers : pc'[w] = IF pc[w] \in Active THEN "lost" ELSE pc[w]
  BY DEF IInv, TypeOK, Crash, history
<1>2. /\ \A w \in Writers : pc'[w] \notin {"read", "open", "write", "rename", "remove"}
      /\ \A w \in Writers : pc'[w] \in {"idle", "done"} => pc'[w] = pc[w]
  BY <1>1 DEF Active
<1>3. Apart => Apart'
  BY <1>1, <1>2 DEF Apart
<1>4. Alone'
  BY <1>1, <1>2, <1>3 DEF IInv, Alone, Working, Active, Draft, Decided
<1>5. PICK v \in Writers : pc[v] \in Active
  BY DEF Crash
<1>6. last # None => last = v /\ pc[last] # "idle"
  BY <1>5 DEF IInv, Healing, Working
<1>7. last # None => pc'[last] = "lost"
  BY <1>1, <1>5, <1>6
<1>8. Healing' /\ LoneUpsertHeals'
  BY <1>1, <1>2, <1>7 DEF IInv, TypeOK, Healing, Working, Active, Draft, LoneUpsertHeals
<1>9. ~overlapped => \A p \in Places : Stored(p)' = Stored(p)
  BY <1>1, StoreStays DEF IInv
<1>10. LoneKeysStored'
  BY <1>1, <1>9 DEF IInv, LoneKeysStored
<1> QED
  BY <1>4, <1>8, <1>10

\* What once overlapped, or could not be read, stays so.
LEMMA HistoryStays ==
  ASSUME NEW w \in Writers, Start(w) \/ upsertAuthProfileAPIKey(w)
  PROVE  (~overlapped' => ~overlapped) /\ (~unread' => ~unread)
<1>1. CASE Start(w)
  BY <1>1, Zenon DEF Start
<1>2. CASE upsertAuthProfileAPIKey(w)
  <2>1. overlapped' = overlapped
    BY <1>2 DEF upsertAuthProfileAPIKey, Read, Open, Write, Rename, Remove, history
  <2>2. ~unread' => ~unread
    <3>1. CASE Read(w)
      BY <3>1, Zenon DEF Read
    <3>2. CASE ~Read(w)
      <4>1. unread' = unread
        BY <1>2, <3>2 DEF upsertAuthProfileAPIKey, Open, Write, Rename, Remove, history
      <4> QED
        BY <4>1, Zenon
    <3> QED
      BY <3>1, <3>2
  <2> QED
    BY <2>1, <2>2, Zenon
<1> QED
  BY <1>1, <1>2

\* A writer that is alone changes a store only by merging its own profile into its own,
\* and is acknowledged exactly then.
LEMMA StoreMerged ==
  ASSUME TypeOK, Alone, ~overlapped', ~unread', NEW w \in Writers,
         Start(w) \/ upsertAuthProfileAPIKey(w), NEW p \in Places
  PROVE  \/ /\ Stored(p)' = Stored(p)
            /\ acked'[p] = acked[p]
         \/ /\ p = place[w]
            /\ Stored(p)' = [Stored(p) EXCEPT ![profile[w]] = w]
            /\ acked'[p] = [acked[p] EXCEPT ![profile[w]] = w]
<1>1. ~overlapped /\ place[w] \in Places
  BY HistoryStays DEF TypeOK
<1>2. CASE Rename(w)
  <2>1. Draft(w) /\ merged[w] = [Stored(place[w]) EXCEPT ![profile[w]] = w]
    <3>1. pc[w] = "rename" /\ ~unread
      BY <1>2 DEF Rename
    <3> QED
      BY <1>1, <3>1 DEF Alone, Decided
  <2>2. /\ \/ pc' = [pc EXCEPT ![w] = "done"] /\ Stored(place[w])' = merged[w]
           \/ /\ pc' = [pc EXCEPT ![w] = "remove"]
              /\ Stored(place[w])' = Stored(place[w])
        /\ \A q \in Places : q # place[w] => Stored(q)' = Stored(q)
    BY <1>2, <2>1, RenamePublishes
  <2>3. /\ pc'[w] = "done" => acked' = [acked EXCEPT ![place[w]][profile[w]] = w]
        /\ pc'[w] = "remove" => acked' = acked
        /\ place' = place
    BY <1>1, <1>2 DEF TypeOK, Rename, Goto
  <2>4. /\ pc'[w] = "done" =>
             acked'[p] = IF p = place[w] THEN [acked[p] EXCEPT ![profile[w]] = w] ELSE acked[p]
        /\ pc'[w] = "remove" => acked'[p] = acked[p]
    BY <1>1, <2>3 DEF TypeOK
  <2>5. CASE pc' = [pc EXCEPT ![w] = "done"] /\ Stored(place[w])' = merged[w]
    <3>1. pc'[w] = "done"
      BY <2>5 DEF TypeOK
    <3>2. CASE p = place[w]
      <4>1. Stored(p)' = [Stored(p) EXCEPT ![profile[w]] = w]
        BY <2>1, <2>3, <2>5, <3>2
      <4> QED
        BY <2>4, <3>1, <3>2, <4>1
    <3>3. CASE p # place[w]
      BY <2>2, <2>4, <3>1, <3>3
    <3> QED
      BY <3>2, <3>3
  <2>6. CASE pc' = [pc EXCEPT ![w] = "remove"] /\ Stored(place[w])' = Stored(place[w])
    <3>1. pc'[w] = "remove"
      BY <2>6 DEF TypeOK
    <3>2. Stored(p)' = Stored(p)
      BY <2>2, <2>3, <2>6
    <3> QED
      BY <2>4, <3>1, <3>2
  <2> QED
    BY <2>2, <2>5, <2>6
<1>3. CASE ~Rename(w)
  <2>1. Start(w) \/ Read(w) \/ Open(w) \/ Write(w) \/ Remove(w)
    BY <1>3 DEF upsertAuthProfileAPIKey
  <2>2. Stored(p)' = Stored(p)
    BY <1>1, <2>1, StoreStays
  <2>3. acked' = acked
    <3>1. CASE Start(w)
      <4>1. Quiet
        BY <3>1, Zenon DEF Start
      <4> QED
        BY <3>1, <4>1 DEF Start
    <3> QED
      BY <2>1, <3>1 DEF Read, Open, Write, Remove, history
  <2> QED
    BY <2>2, <2>3
<1> QED
  BY <1>2, <1>3

\* Once the last writer is done, what is stored under its profile is its own key.
LEMMA HealsStep ==
  ASSUME TypeOK, Healing, LoneUpsertHeals, NEW w \in Writers,
         Start(w) \/ upsertAuthProfileAPIKey(w)
  PROVE  LoneUpsertHeals'
<1> SUFFICES ASSUME last' # None, pc'[last'] = "done"
             PROVE  Stored(place[last])'[profile'[last']] = last'
  BY DEF LoneUpsertHeals
<1>1. profile' = profile
  BY DEF Start, upsertAuthProfileAPIKey, Read, Open, Write, Rename, Remove
<1>2. ~Start(w)
  BY DEF TypeOK, Start, Goto
<1>3. last' = last /\ last = w /\ place' = place
  BY <1>2 DEF Healing, Working, Active, history, upsertAuthProfileAPIKey, Read, Open, Write,
     Rename, Remove
<1>4. Rename(w)
  BY <1>2, <1>3 DEF TypeOK, Goto, upsertAuthProfileAPIKey, Read, Open, Write, Remove
<1>5. Draft(w) /\ pc[w] = "rename" /\ merged[w][profile[w]] = w
  BY <1>3, <1>4 DEF Healing, Rename
<1>6. \/ pc' = [pc EXCEPT ![w] = "done"] /\ Stored(place[w])' = merged[w]
      \/ pc' = [pc EXCEPT ![w] = "remove"]
  BY <1>4, <1>5, RenamePublishes
<1> QED
  BY <1>1, <1>3, <1>5, <1>6 DEF TypeOK

\* Every step keeps the invariant.
LEMMA NextInv == ASSUME IInv, [Next]_vars PROVE IInv'
<1>1. ASSUME NEW w \in Writers, Start(w) \/ upsertAuthProfileAPIKey(w) PROVE IInv'
  <2>1. TypeOK /\ Alone /\ Healing /\ LoneKeysStored /\ LoneUpsertHeals
    BY DEF IInv
  <2>2. TypeOK' /\ Healing' /\ LoneUpsertHeals'
    BY <1>1, <2>1, WriterType, HealingStep, HealsStep
  <2>3. Alone'
    BY <1>1, <2>1, AloneStep DEF Alone
  <2>4. ASSUME ~overlapped', ~unread', NEW p \in Places, NEW q \in Profiles,
               acked'[p][q] # None
        PROVE  Stored(p)'[q] = acked'[p][q]
    <3>1. ~overlapped /\ ~unread
      BY <1>1, <2>4, HistoryStays
    <3>2. acked[p][q] # None => Stored(p)[q] = acked[p][q]
      BY <2>1, <3>1 DEF LoneKeysStored
    <3>3. Stored(p) \in Stores /\ acked[p] \in Stores /\ profile[w] \in Profiles
      BY <2>1, StoredType DEF TypeOK
    <3>4. \/ Stored(p)' = Stored(p) /\ acked'[p] = acked[p]
          \/ /\ Stored(p)' = [Stored(p) EXCEPT ![profile[w]] = w]
             /\ acked'[p] = [acked[p] EXCEPT ![profile[w]] = w]
      BY <1>1, <2>1, <2>4, StoreMerged
    <3> QED
      BY <2>4, <3>2, <3>3, <3>4 DEF Stores
  <2>5. LoneKeysStored'
    BY <2>4 DEF LoneKeysStored
  <2> QED
    BY <2>2, <2>3, <2>5 DEF IInv
<1>2. CASE Crash
  BY <1>2, CrashType, CrashStep DEF IInv
<1>3. CASE UNCHANGED vars
  BY <1>3 DEF IInv, vars, history, TypeOK, Alone, Apart, Working, Draft, Decided, Healing, Stored,
     LoneKeysStored, LoneUpsertHeals
<1> QED
  BY <1>1, <1>2, <1>3 DEF Next
-----------------------------------------------------------------------------
(* Theorems.                                                               *)

\* The invariant holds.
THEOREM Invariant == Spec => []IInv
<1> QED
  BY InitInv, NextInv, PTL DEF Spec

\* The variables keep their types, whatever text a crash leaves in a file.
THEOREM TypeCorrect == Spec => []TypeOK
<1>1. IInv => TypeOK
  BY DEF IInv
<1> QED
  BY Invariant, <1>1, PTL

\* As long as no two upserts overlap and every store can be read, the key that an upsert
\* put into a store stays there until the next one for the same profile and the same
\* store, whatever fails or crashes in between (setup.go:103-152).
THEOREM KeysStored == Spec => []LoneKeysStored
<1>1. IInv => LoneKeysStored
  BY DEF IInv
<1> QED
  BY Invariant, <1>1, PTL

\* An upsert that starts alone and succeeds, after any overlaps and crashes, leaves the
\* file it wrote, at the configured place or in the fallback, as a store with its key.
THEOREM Heals == Spec => []LoneUpsertHeals
<1>1. IInv => LoneUpsertHeals
  BY DEF IInv
<1> QED
  BY Invariant, <1>1, PTL

\* Without overlap, each of the two stores goes from one upsert's merge to the next's,
\* whichever step fails or is the last before a crash.
THEOREM OneAtATime == Spec => OneUpsertAtATime
<1>1. ASSUME IInv, [Next]_vars
      PROVE  [~overlapped' /\ ~unread' => MergesOne]_vars
  <2> SUFFICES ASSUME ~overlapped', ~unread', NEW p \in Places, Stored(p)' # Stored(p)
               PROVE  \E w \in Writers :
                        /\ place[w] = p
                        /\ Stored(p)' = [Stored(p) EXCEPT ![profile[w]] = w]
    BY DEF MergesOne
  <2>1. CASE Crash
    <3>1. ~overlapped
      BY <2>1 DEF Crash, history
    <3> QED
      BY <1>1, <2>1, <3>1, StoreStays DEF IInv
  <2>2. CASE UNCHANGED vars
    BY <2>2 DEF vars, Stored
  <2>3. CASE \E w \in Writers : Start(w) \/ upsertAuthProfileAPIKey(w)
    BY <1>1, <2>3, StoreMerged DEF IInv
  <2> QED
    BY <1>1, <2>1, <2>2, <2>3 DEF Next
<1> QED
  BY Invariant, <1>1, PTL DEF Spec, OneUpsertAtATime
=============================================================================
