----------------------------- MODULE CashuRequest -----------------------------
(***************************************************************************)
(* parse_payment_request (detective/src/cashu.rs): a Cashu payment request *)
(* from its two encodings.  NUT-26 is entries of kind, length and value,   *)
(* some of them nested twice; the bytes are those of the code in a smaller *)
(* base.  NUT-18 is CBOR, which a library reads.                           *)
(***************************************************************************)
EXTENDS Naturals, Sequences, SequencesExt

CONSTANTS
  Base,            \* bytes are the digits of this base
  MaxAmountBytes,  \* bytes of an amount: 8 in the code
  None             \* "no value"

Byte  == 0..Base - 1
Bytes == Seq(Byte)

\* The last byte stands for those that are not UTF-8.
IsText(bytes) == \A i \in DOMAIN bytes : bytes[i] < Base - 1

-----------------------------------------------------------------------------
(* Entries.                                                                *)

LengthOf(input) == input[2] * Base + input[3]

Truncated == [kind |-> None, value |-> <<>>]

\* Mutant of Cut: what is too short for an entry is left.
CutQuietly(input) == IF Len(input) < 3 THEN <<>> ELSE <<Truncated>>

\* Less is left than an entry needs.
IsCut(input) == Len(input) < 3 \/ Len(input) < 3 + LengthOf(input)
Cut(input)   == <<Truncated>>

\* parse_tlv_entries; an error is an entry of its own at the end.
Entries[input \in Bytes] ==
  IF input = <<>> THEN <<>>
  ELSE IF IsCut(input) THEN Cut(input)
  ELSE LET end == 3 + LengthOf(input) IN
       <<[kind |-> input[1], value |-> SubSeq(input, 4, end)]>>
         \o Entries[SubSeq(input, end + 1, Len(input))]

\* The parts of a tag, each after a byte with its length; one that runs over the end is
\* as good as one that is not text.
Parts[input \in Bytes] ==
  IF input = <<>> THEN <<>>
  ELSE IF Len(input) < 1 + input[1] THEN << <<Base>> >>
  ELSE <<SubSeq(input, 2, 1 + input[1])>> \o Parts[SubSeq(input, 2 + input[1], Len(input))]

Values(entries, kind) ==
  LET Of(e) == IF e.kind = kind THEN <<e.value>> ELSE <<>>
  IN  FlattenSeq([i \in DOMAIN entries |-> Of(entries[i])])

\* A field that is given again is replaced.
LastValue(entries, kind) ==
  LET all == Values(entries, kind) IN IF all = <<>> THEN None ELSE Last(all)

\* parse_tag_tuple.
TagFits(bytes) == bytes # <<>> /\ \A p \in Range(Parts[bytes]) : IsText(p)
Tag(bytes)     == [key |-> Head(Parts[bytes]), values |-> Tail(Parts[bytes])]

Tags(list) == [i \in DOMAIN list |-> Tag(list[i])]

\* Bytes are shown as text or in hex.
Display(bytes, text) == [text |-> text, of |-> bytes]

\* What the transports and the NUT-10 option share: a kind of one byte, data and tags.
OptionFits(entries) ==
  /\ Truncated \notin Range(entries)
  /\ Values(entries, 1) # <<>> /\ Values(entries, 2) # <<>>
  /\ \A kind \in Range(Values(entries, 1)) : Len(kind) = 1
  /\ \A tag \in Range(Values(entries, 3)) : TagFits(tag)

\* Kind 1, "post", has a URL for a target.
TransportFits(bytes) ==
  LET es == Entries[bytes] IN
  OptionFits(es) /\ (LastValue(es, 1) = <<1>> => IsText(LastValue(es, 2)))

Transport(bytes) ==
  LET es == Entries[bytes] IN
  [kind   |-> LastValue(es, 1)[1],
   target |-> Display(LastValue(es, 2), LastValue(es, 1) = <<1>>),
   tags   |-> Tags(Values(es, 3))]

Nut10(bytes) ==
  LET es == Entries[bytes] IN
  [kind |-> LastValue(es, 1)[1],
   data |-> Display(LastValue(es, 2), IsText(LastValue(es, 2))),
   tags |-> Tags(Values(es, 3))]

-----------------------------------------------------------------------------
(* Requests.                                                               *)

FieldFits(entry) ==
  LET kind == entry.kind
      v    == entry.value
  IN  /\ kind # None
      /\ kind \in {1, 5, 6} => IsText(v)
      /\ kind = 2 => Len(v) \in 1..MaxAmountBytes
      /\ kind = 4 => v \in {<<0>>, <<1>>}
      /\ kind = 7 => TransportFits(v)
      /\ kind = 8 => OptionFits(Entries[v])

\* parse_u64: the big-endian number of so many bytes.
Number(bytes) == FoldLeft(LAMBDA n, b : n * Base + b, 0, bytes)

\* "sat" has a byte for a short name.
Unit(bytes) == Display(bytes, bytes = <<0>> \/ IsText(bytes))

Optional(value, Read(_)) == IF value = None THEN None ELSE Read(value)

Refused == [refused |-> TRUE]

ParseNut26(bytes) ==
  LET es == Entries[bytes] IN
  IF \E e \in Range(es) : ~FieldFits(e) THEN Refused ELSE
  [id          |-> LastValue(es, 1),
   amount      |-> Optional(LastValue(es, 2), Number),
   unit        |-> Optional(LastValue(es, 3), Unit),
   single_use  |-> Optional(LastValue(es, 4), LAMBDA v : v = <<1>>),
   mints       |-> Values(es, 5),
   description |-> LastValue(es, 6),
   transports  |-> LET ts == Values(es, 7) IN [i \in DOMAIN ts |-> Transport(ts[i])],
   nut10       |-> Optional(LastValue(es, 8), Nut10)]

\* tags_from_nested_strings: what NUT-26 refuses, an empty tag, is dropped here.
NestedTags(lists) ==
  LET Of(l) == IF l = <<>> THEN <<>> ELSE << [key |-> Head(l), values |-> Tail(l)] >>
  IN  FlattenSeq([i \in DOMAIN lists |-> Of(lists[i])])

\* The tags of the transports and of the option, converted.
Retagged(request, Of(_)) ==
  LET ts == request.transports
      New(x) == [x EXCEPT !.tags = Of(x.tags)]
  IN  [request EXCEPT !.transports = [i \in DOMAIN ts |-> New(ts[i])],
                      !.nut10 = Optional(request.nut10, New)]

\* From what the library made of the CBOR.
ParseNut18(content) ==
  IF content = Refused THEN Refused ELSE Retagged(content, NestedTags)

\* parse_payment_request.
Parse(wire) == IF wire.nut = 26 THEN ParseNut26(wire.of) ELSE ParseNut18(wire.of)

-----------------------------------------------------------------------------
(* The reference: how a request is written.                                *)

Entry(kind, value) == <<kind, Len(value) \div Base, Len(value) % Base>> \o value
Part(value) == <<Len(value)>> \o value

Flat(list, Write(_)) == FlattenSeq([i \in DOMAIN list |-> Write(list[i])])

TagBytes(t) == Part(t.key) \o Flat(t.values, Part)
WriteTag(t) == Entry(3, TagBytes(t))
WriteOption(kind, data, tags) ==
  Entry(1, <<kind>>) \o Entry(2, data) \o Flat(tags, WriteTag)

WriteTransport(t) == Entry(7, WriteOption(t.kind, t.target.of, t.tags))

Maybe(kind, value, Write(_)) == IF value = None THEN <<>> ELSE Entry(kind, Write(value))

Same(v) == v

Nut26(r) ==
  Maybe(1, r.id, Same)
    \o Maybe(2, r.amount, LAMBDA n : <<n \div Base, n % Base>>)
    \o Maybe(3, r.unit, LAMBDA u : u.of)
    \o Maybe(4, r.single_use, LAMBDA b : IF b THEN <<1>> ELSE <<0>>)
    \o Flat(r.mints, LAMBDA m : Entry(5, m))
    \o Maybe(6, r.description, Same)
    \o Flat(r.transports, WriteTransport)
    \o Maybe(8, r.nut10, LAMBDA o : WriteOption(o.kind, o.data.of, o.tags))

\* Bytes of which there are fewer than n, as one or two bytes can tell.
Short(n) == {bytes \in Bytes : Len(bytes) < n}
Text(n)  == {bytes \in Short(n) : IsText(bytes)}

TagType == {t \in [key : Text(Base), values : Seq(Text(Base))] : Len(TagBytes(t)) < Base * Base}

Shown == [text : BOOLEAN, of : Short(Base * Base)]

TransportType ==
  {t \in [kind : Byte, target : Shown, tags : Seq(TagType)] :
     /\ t.target.text <=> t.kind = 1
     /\ t.kind = 1 => IsText(t.target.of)
     /\ Len(WriteOption(t.kind, t.target.of, t.tags)) < Base * Base}

Nut10Type ==
  {o \in [kind : Byte, data : Shown, tags : Seq(TagType)] :
     /\ o.data.text <=> IsText(o.data.of)
     /\ Len(WriteOption(o.kind, o.data.of, o.tags)) < Base * Base}

\* What can be written.
Request ==
  [id          : Text(Base * Base) \cup {None},
   amount      : 0..Base * Base - 1 \cup {None},
   unit        : {u \in Shown : u.text <=> IsText(u.of)} \cup {None},
   single_use  : BOOLEAN \cup {None},
   mints       : Seq(Text(Base * Base)),
   description : Text(Base * Base) \cup {None},
   transports  : Seq(TransportType),
   nut10       : Nut10Type \cup {None}]

\* What NUT-18 has no other form for.
IsAllText(r) ==
  /\ r.unit # None => r.unit.text
  /\ \A i \in DOMAIN r.transports : r.transports[i].target.text
  /\ r.nut10 # None => r.nut10.data.text

Nest(tags) == [i \in DOMAIN tags |-> <<tags[i].key>> \o tags[i].values]

Nut18(r, Tagged(_)) == Retagged(r, LAMBDA tags : Tagged(Nest(tags)))

\* Every beginning of the bytes, and every other byte in each place: what a writer
\* with another idea of the format may send.
Damages(bytes) ==
  {SubSeq(bytes, 1, n) : n \in 0..Len(bytes) - 1} \cup
  {[bytes EXCEPT ![i] = b] : i \in DOMAIN bytes, b \in Byte}

\* An unknown entry and an id that is replaced go before.
Before == {<<>>, Entry(0, <<1>>) \o Entry(1, <<2>>)}

\* What may come for a request: its encodings, or something else.
Wires26(r) ==
  {[nut |-> 26, damaged |-> FALSE, of |-> prefix \o Nut26(r)] :
     prefix \in IF r.id = None THEN {<<>>} ELSE Before} \cup
  {[nut |-> 26, damaged |-> TRUE, of |-> bytes] : bytes \in Damages(Nut26(r))}

Wires18(r) ==
  {[nut |-> 18, damaged |-> TRUE, of |-> Refused]} \cup
  (IF ~IsAllText(r) THEN {}
   ELSE {[nut |-> 18, damaged |-> FALSE, of |-> Nut18(r, Same)],
         [nut |-> 18, damaged |-> FALSE, of |-> Nut18(r, LAMBDA tags : << <<>> >> \o tags)]})

Rewritten(bytes) == Flat(Entries[bytes], LAMBDA e : Entry(e.kind, e.value))

\* Made of whole entries, and every transport and option in it too.
IsWhole(bytes) ==
  /\ Rewritten(bytes) = bytes
  /\ \A e \in Range(Entries[bytes]) : e.kind \in {7, 8} => Rewritten(e.value) = e.value
=============================================================================
