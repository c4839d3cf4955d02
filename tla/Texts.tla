------------------------------- MODULE Texts -------------------------------
(***************************************************************************)
(* Texts, as far as the agent takes them apart: sequences of words or of   *)
(* characters, of which " " is the blank one.                              *)
(***************************************************************************)
EXTENDS SequencesExt

Blank == " "
Empty == <<>>

\* strings.TrimSpace
trim(t) ==
  LET solid == {i \in DOMAIN t : t[i] # Blank}
  IN  IF solid = {} THEN Empty ELSE SubSeq(t, Min(solid), Max(solid))

\* The loops over alternative names of a tag: the first that is not blank.
FirstOf(tags, names) ==
  LET filled == {i \in DOMAIN names :
                   names[i] \in DOMAIN tags /\ trim(tags[names[i]]) # Empty}
  IN  IF filled = {} THEN Empty ELSE trim(tags[names[Min(filled)]])
=============================================================================
