----------------------------- MODULE PayMetadata -----------------------------
(***************************************************************************)
(* PayResponse::try_from_parts (detective/src/lnurl.rs): a fold over the   *)
(* entries of the metadata of a pay response, against what LUD-06 says     *)
(* they mean.  An entry is a pair of strings, or something else without a  *)
(* key; of a string only what the code tells apart is kept.                *)
(***************************************************************************)
EXTENDS Naturals, FiniteSets, Sequences, SequencesExt

CONSTANT None   \* "no value"

Key   == {"text/plain", "text/long-desc", "text/longdesc", "image/png;base64",
          "image/jpeg;base64", "other"}
Value == {"empty", "text", "base64"}
Entry == [key : Key, value : Value] \cup {[key |-> None, value |-> None]}

\* decode_base64: nothing is the encoding of nothing.
IsBase64(value) == value \in {"empty", "base64"}

IsLong(key)  == key \in {"text/long-desc", "text/longdesc"}
IsImage(key) == key \in {"image/png;base64", "image/jpeg;base64"}

Nothing == [description |-> None, long |-> None, image |-> None, metadata |-> <<>>]

Rejected == [Nothing EXCEPT !.description = "rejected"]

\* Mutant of Plain: a second description replaces the first.
PlainLastWins(found, e) ==
  IF e.value = "empty" THEN Rejected ELSE [found EXCEPT !.description = e.value]

Plain(found, e) ==
  IF e.value = "empty" \/ found.description # None
  THEN Rejected
  ELSE [found EXCEPT !.description = e.value]

LongDescription(found, e) ==
  IF e.value = "empty" THEN Rejected ELSE [found EXCEPT !.long = e.value]

Image(found, e) ==
  IF ~IsBase64(e.value) \/ found.image # None THEN Rejected
  ELSE [found EXCEPT !.image = e]

Other(found, e) == [found EXCEPT !.metadata = Append(@, e)]

\* The body of the loop; an error leaves it.
Read(found, e) ==
  IF found = Rejected THEN Rejected ELSE
  CASE e.key = None         -> Rejected
    [] e.key = "text/plain" -> Plain(found, e)
    [] IsLong(e.key)        -> LongDescription(found, e)
    [] IsImage(e.key)       -> Image(found, e)
    [] OTHER                -> Other(found, e)

\* The description is the one thing required.
Parse(entries) ==
  LET found == FoldLeft(Read, Nothing, entries)
  IN  IF found.description = None THEN Rejected ELSE found

-----------------------------------------------------------------------------
(* The reference: what the whole array means.                              *)

With(entries, P(_)) == {i \in DOMAIN entries : P(entries[i].key)}

IsPlain(key) == key = "text/plain"
IsOther(key) == key = "other"

Acceptable(entries) ==
  /\ \A i \in DOMAIN entries : entries[i].key # None
  /\ Cardinality(With(entries, IsPlain)) = 1
  /\ Cardinality(With(entries, IsImage)) <= 1
  /\ \A i \in With(entries, IsPlain) \cup With(entries, IsLong) : entries[i].value # "empty"
  /\ \A i \in With(entries, IsImage) : IsBase64(entries[i].value)

LastOf(S) == CHOOSE i \in S : \A j \in S : j <= i

\* The entries at these places are the whole list, each as far from its beginning as
\* there are such places up to it.
IsListOf(list, entries, places) ==
  /\ Len(list) = Cardinality(places)
  /\ \A i \in places : list[Cardinality({j \in places : j <= i})] = entries[i]

IsMeaning(found, entries) ==
  LET long  == With(entries, IsLong)
      image == With(entries, IsImage)
  IN  /\ found.description = entries[LastOf(With(entries, IsPlain))].value
      /\ found.long = IF long = {} THEN None ELSE entries[LastOf(long)].value
      /\ found.image = IF image = {} THEN None ELSE entries[LastOf(image)]
      /\ IsListOf(found.metadata, entries, With(entries, IsOther))
=============================================================================
