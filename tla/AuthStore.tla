----------------------------- MODULE AuthStore -----------------------------
(***************************************************************************)
(* The auth store (auth-profiles.json), as upsertAuthProfileAPIKey in      *)
(* src/runtime/openclaw/setup.go rewrites it: read the file, merge one     *)
(* profile, write the whole to <path>.tmp, rename that over the file.  A   *)
(* spawn with an API key does it once; two spawns that overlap (see        *)
(* AgentServer) share the one temporary name.                              *)
(*                                                                         *)
(* The file is the one the configuration names, or, for an upsert that     *)
(* could not make its directory, one under /tmp/.openclaw; an upsert tells *)
(* its spawn nothing about which.                                          *)
(*                                                                         *)
(* Files are inodes, because a writer keeps the inode it opened whatever   *)
(* happens to the name.  An inode is named by the writer that created it,  *)
(* or by the place where the first spawn found it.  A profile's key is     *)
(* named by the writer that put it there.                                  *)
(***************************************************************************)
EXTENDS FiniteSets

CONSTANTS
  Writers,      \* the spawns with an API key
  Profiles,     \* provider:default
  Before,       \* stands for whoever wrote the stores the first spawn finds
  None

\* The file the configuration names, and the one in /tmp/.openclaw.
Places == {"configured", "fallback"}

ASSUME AAuthStore ==
  /\ Before \notin Writers
  /\ Places \cap Writers = {}
  /\ None \notin Writers \cup Places \cup {Before}

VARIABLES
  profile,   \* the profile a writer upserts
  pc,        \* where it is
  place,     \* whose file it rewrites
  merged,    \* the store as it will write it
  fd,        \* the inode it has open
  store,     \* the inode behind auth-profiles.json, at each place
  tmp,       \* the inode behind auth-profiles.json.tmp
  content,   \* what an inode holds
  last,      \* the writer that started alone, if none started since (history)
  acked,     \* whose upsert of a profile was the last to succeed (history)
  overlapped,\* did an upsert ever start while another was on its way (history)
  unread     \* was there ever a store that an upsert could not read (history)

history == <<last, acked, overlapped, unread>>
vars    == <<profile, pc, place, merged, fd, store, tmp, content, history>>

Inodes == Writers \cup Places
Stores == [Profiles -> Writers \cup {Before, None}]
NoProfiles == [p \in Profiles |-> None]

\* A file's text decodes to a store (whole), or to no map at all (the JSON null), or is
\* empty, or is part of one.
Whole(s) == [form |-> "whole", store |-> s]
Empty    == [form |-> "empty", store |-> NoProfiles]
Torn     == [form |-> "torn", store |-> NoProfiles]
Null     == [form |-> "null", store |-> NoProfiles]
Texts    == {Whole(s) : s \in Stores} \cup {Empty, Torn, Null}

Active == {"read", "open", "write", "rename", "remove"}

TypeOK ==
  /\ profile \in [Writers -> Profiles]
  /\ pc \in [Writers -> {"idle", "done", "failed", "lost"} \cup Active]
  /\ place \in [Writers -> Places]
  /\ merged \in [Writers -> Stores]
  /\ fd \in [Writers -> Inodes \cup {None}]
  /\ store \in [Places -> Inodes \cup {None}]
  /\ tmp \in [Places -> Inodes \cup {None}]
  /\ content \in [Inodes -> Texts]
  /\ last \in Writers \cup {None}
  /\ acked \in [Places -> Stores]
  /\ overlapped \in BOOLEAN
  /\ unread \in BOOLEAN

\* What a reader makes of the file: one that is missing, empty or does not decode
\* counts as a store with no profiles.
Stored(p) == IF store[p] = None THEN NoProfiles ELSE content[store[p]].store

Goto(w, to) == pc' = [pc EXCEPT ![w] = to]

-----------------------------------------------------------------------------

Quiet == \A v \in Writers : pc[v] \notin Active

\* The configured directory is made; or it cannot be, and the fallback's is; or neither
\* (or the configured one is the fallback's).
Start(w) ==
  /\ pc[w] = "idle"
  /\ \/ Goto(w, "read") /\ place' \in {[place EXCEPT ![w] = p] : p \in Places}
     \/ Goto(w, "failed") /\ UNCHANGED place
  /\ last' = IF Quiet THEN w ELSE None
  /\ overlapped' = (overlapped \/ ~Quiet)
  /\ acked' = IF Quiet THEN acked ELSE [p \in Places |-> NoProfiles]
  /\ UNCHANGED <<profile, merged, fd, store, tmp, content, unread>>

\* Fault: the store is written afresh, without what it held.
Read_Fresh(w) ==
  /\ pc[w] = "read"
  /\ merged' = [merged EXCEPT ![w] = [NoProfiles EXCEPT ![profile[w]] = w]]
  /\ Goto(w, "open")
  /\ UNCHANGED <<profile, place, fd, store, tmp, content, history>>

Missing(p) == store[p] = None
IsNull(p)  == ~Missing(p) /\ content[store[p]] = Null

\* ReadFile, Unmarshal and the merge of one profile.  A store that cannot be read counts
\* as one with no profiles; after null there is no map to merge into, and the request
\* panics.
Read(w) ==
  /\ pc[w] = "read"
  /\ \/ /\ ~IsNull(place[w])
        /\ merged' = [merged EXCEPT ![w] = [Stored(place[w]) EXCEPT ![profile[w]] = w]]
        /\ Goto(w, "open")
        /\ UNCHANGED unread
     \/ IsNull(place[w]) /\ Goto(w, "failed") /\ UNCHANGED <<merged, unread>>
     \/ /\ ~Missing(place[w])
        /\ merged' = [merged EXCEPT ![w] = [NoProfiles EXCEPT ![profile[w]] = w]]
        /\ Goto(w, "open")
        /\ unread' = TRUE
  /\ UNCHANGED <<profile, place, fd, store, tmp, content, last, acked, overlapped>>

\* Fault: the file is truncated and written in place.
Open_InPlace(w) ==
  /\ pc[w] = "open"
  /\ LET i == IF Missing(place[w]) THEN w ELSE store[place[w]] IN
       /\ store' = [store EXCEPT ![place[w]] = i]
       /\ content' = [content EXCEPT ![i] = Empty]
       /\ fd' = [fd EXCEPT ![w] = i]
  /\ Goto(w, "write")
  /\ UNCHANGED <<profile, place, merged, tmp, history>>

\* Fault: a temporary file left over is taken for the one just written.
Open_TrustsLeftover(w) ==
  /\ pc[w] = "open"
  /\ IF tmp[place[w]] = None
     THEN /\ tmp' = [tmp EXCEPT ![place[w]] = w]
          /\ content' = [content EXCEPT ![w] = Empty]
          /\ fd' = [fd EXCEPT ![w] = w]
          /\ Goto(w, "write")
     ELSE Goto(w, "rename") /\ UNCHANGED <<tmp, content, fd>>
  /\ UNCHANGED <<profile, place, merged, store, history>>

\* WriteFile opens the temporary file: created, or truncated where one is left over
\* or another writer is at it.
Open(w) ==
  /\ pc[w] = "open"
  /\ LET i == IF tmp[place[w]] = None THEN w ELSE tmp[place[w]] IN
       /\ tmp' = [tmp EXCEPT ![place[w]] = i]
       /\ content' = [content EXCEPT ![i] = Empty]
       /\ fd' = [fd EXCEPT ![w] = i]
  /\ Goto(w, "write")
  /\ UNCHANGED <<profile, place, merged, store, history>>

\* WriteFile writes: over a longer text of another writer, the tail of that text
\* stays.  Or it fails half-way (a full disk).  It closes the file.
Write(w) ==
  /\ pc[w] = "write"
  /\ \/ /\ content' = [content EXCEPT ![fd[w]] = Whole(merged[w])]
        /\ Goto(w, "rename")
     \/ /\ content[fd[w]] # Empty
        /\ content' = [content EXCEPT ![fd[w]] = Torn]
        /\ Goto(w, "rename")
     \/ /\ content' = [content EXCEPT ![fd[w]] = Torn]
        /\ Goto(w, "failed")
  /\ fd' = [fd EXCEPT ![w] = None]
  /\ UNCHANGED <<profile, place, merged, store, tmp, history>>

\* Rename acts on the name, whichever inode is behind it by now.  The history of who
\* succeeded is of use only until upserts overlap.
Rename(w) ==
  /\ pc[w] = "rename"
  /\ \/ /\ tmp[place[w]] # None
        /\ store' = [store EXCEPT ![place[w]] = tmp[place[w]]]
        /\ tmp' = [tmp EXCEPT ![place[w]] = None]
        /\ acked' = IF overlapped THEN acked
                    ELSE [acked EXCEPT ![place[w]][profile[w]] = w]
        /\ Goto(w, "done")
     \/ Goto(w, "remove") /\ UNCHANGED <<store, tmp, acked>>
  /\ UNCHANGED <<profile, place, merged, fd, content, last, overlapped, unread>>

\* Rename failed: the temporary name is removed, whoever's it is.
Remove(w) ==
  /\ pc[w] = "remove"
  /\ tmp' = [tmp EXCEPT ![place[w]] = None]
  /\ Goto(w, "failed")
  /\ UNCHANGED <<profile, place, merged, fd, store, content, history>>

upsertAuthProfileAPIKey(w) ==
  Read(w) \/ Open(w) \/ Write(w) \/ Rename(w) \/ Remove(w)

\* The agent's process dies, in the middle of any of the writes or between two steps.
Crash ==
  /\ \E w \in Writers : pc[w] \in Active
  /\ pc' = [w \in Writers |-> IF pc[w] \in Active THEN "lost" ELSE pc[w]]
  /\ \E torn \in SUBSET {fd[w] : w \in {v \in Writers : pc[v] = "write"}} :
       content' = [i \in Inodes |-> IF i \in torn THEN Torn ELSE content[i]]
  /\ fd' = [w \in Writers |-> None]
  /\ UNCHANGED <<profile, place, merged, store, tmp, history>>

\* A file as it may be found: it holds some profiles, is damaged or is null.
Found == {Whole(s) : s \in [Profiles -> {Before, None}]} \cup {Torn, Null}

\* Either file is there or missing.
Init ==
  /\ profile \in [Writers -> Profiles]
  /\ pc = [w \in Writers |-> "idle"]
  /\ merged = [w \in Writers |-> NoProfiles]
  /\ place = [w \in Writers |-> "configured"]
  /\ fd = [w \in Writers |-> None]
  /\ store \in [Places -> Places \cup {None}]
  /\ \A p \in Places : store[p] \in {p, None}
  /\ tmp = [p \in Places |-> None]
  /\ content \in [Inodes -> Found \cup {Empty}]
  /\ \A i \in Inodes : content[i] = Empty <=> i \notin {store[p] : p \in Places}
  /\ last = None
  /\ acked = [p \in Places |-> NoProfiles]
  /\ overlapped = FALSE
  /\ unread = FALSE

Next ==
  \/ \E w \in Writers : Start(w) \/ upsertAuthProfileAPIKey(w)
  \/ Crash

Spec == Init /\ [][Next]_vars

-----------------------------------------------------------------------------

\* As long as no two spawns overlapped and every store could be read, the key that a
\* spawn put under its profile stays there until a later spawn's for that profile: no
\* upsert of another profile, failure or crash brings an older one back, or none
\* (setup.go:116, 144).  It is there in the file the spawn wrote, wherever that is.
LoneKeysStored ==
  ~overlapped /\ ~unread =>
    \A p \in Places, q \in Profiles :
      acked[p][q] # None => Stored(p)[q] = acked[p][q]

\* Whatever overlapping writers and crashes left behind, damage included, the next
\* spawn that runs alone leaves a store that decodes and has its key: again, the file
\* that it wrote, which need not be the one that is damaged (setup.go:110).
LoneUpsertHeals ==
  last # None /\ pc[last] = "done" => Stored(place[last])[profile[last]] = last

\* A step leaves both stores as readers see them, or merges one profile into one.
MergesOne ==
  \A p \in Places : Stored(p)' # Stored(p) =>
    \E w \in Writers : place[w] = p /\ Stored(p)' = [Stored(p) EXCEPT ![profile[w]] = w]

\* Seen through either file, and as long as no two spawns overlapped, each upsert
\* happens at once or not at all, at whatever step it fails or the agent dies: no
\* other profile is ever lost or changed, and the other file never.  A store that could
\* not be read, though, is replaced by one with that profile alone (setup.go:117).
OneUpsertAtATime == [][~overlapped' /\ ~unread' => MergesOne]_vars
=============================================================================
