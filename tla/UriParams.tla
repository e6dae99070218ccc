------------------------------ MODULE UriParams ------------------------------
(***************************************************************************)
(* The two URI parsers: parse_bip21 (detective/src/decoder.rs) and         *)
(* parse_liquid_uri (detective/src/liquid_address.rs), a fold over the     *)
(* query parameters each.  They differ in nearly every rule: whether a key *)
(* is percent-decoded before it is looked up, what an empty parameter is,  *)
(* and what a second value for a key does.                                 *)
(***************************************************************************)
EXTENDS Naturals, Sequences, SequencesExt

CONSTANT None   \* "no value"

\* A key, and whether it is written with escapes; "%" cannot be decoded.
Key   == {"amount", "label", "assetid", "pjos", "other", "%"}
Value == {"0", "1", "%31", "text", "%"}
Empty == [key |-> None, escaped |-> FALSE, value |-> "empty"]
NoEquals == [key |-> None, escaped |-> FALSE, value |-> "no ="]
Param == [key : Key, escaped : BOOLEAN, value : Value] \cup {Empty, NoEquals}

\* "foreign": an address of another network than the scheme's; BIP-21 has no such thing.
Address == {"", "valid", "foreign", "malformed"}

\* decode_percent.
Percent(text) == IF text = "%31" THEN "1" ELSE text
Decodes(text) == text # "%"

IsAmount(text) == text \in {"0", "1"}

\* Liquid's fields.
Field == {"amount", "assetid", "label"}

-----------------------------------------------------------------------------

\* What a URI is read into: Liquid's fields, and the rest in its order.
Start == [ok |-> TRUE, fields |-> [f \in Field |-> None], list |-> <<>>]

Refuse(uri) == [uri EXCEPT !.ok = FALSE]

\* One list entry: under which variant, with which key and value.
Push(uri, variant, key, value) ==
  [uri EXCEPT !.list = Append(@, [as |-> variant, key |-> key, value |-> value])]

\* Mutant of Set: the first value of a field stays.
SetOnce(uri, field, value) ==
  [uri EXCEPT !.fields[field] = IF @ = None THEN value ELSE @]

\* A later value replaces an earlier one.
Set(uri, field, value) == [uri EXCEPT !.fields[field] = value]

\* Bip21Param::try_from matches the key as it is written; only one that it does not
\* know is decoded.
Known(p) == ~p.escaped /\ p.key \in {"amount", "label", "pjos"}

Bip21(uri, p) ==
  CASE p \in {Empty, NoEquals} -> Refuse(uri)
    [] Known(p) /\ p.key = "amount" ->
         IF IsAmount(p.value) THEN Push(uri, "amount", p.key, p.value) ELSE Refuse(uri)
    [] Known(p) /\ p.key = "pjos" ->
         IF p.value = "0" THEN Push(uri, "pjos", p.key, "0") ELSE Refuse(uri)
    [] OTHER ->
         IF Decodes(p.key) /\ Decodes(p.value)
         THEN Push(uri, IF Known(p) THEN "label" ELSE "unknown", p.key, Percent(p.value))
         ELSE Refuse(uri)

Liquid(uri, p) ==
  LET value == Percent(p.value)
      reads == p # NoEquals /\ Decodes(p.key) /\ Decodes(value)
  IN
  CASE p = Empty -> uri
    [] p # Empty /\ ~reads -> Refuse(uri)
    [] reads /\ p.key = "amount" ->
         IF IsAmount(value) THEN Set(uri, "amount", value) ELSE Refuse(uri)
    [] reads /\ p.key \in {"assetid", "label"} -> Set(uri, p.key, value)
    [] OTHER -> Push(uri, "unknown", p.key, value)

\* Liquid looks at the address first and BIP-21 last; either way the URI is refused.
AddressFits(u) ==
  \/ u.address \in {"", "valid"}
  \/ u.address = "foreign" /\ u.form = "bip21"

\* The first parameter that is refused ends the loop.
Params(params, Read(_, _)) ==
  FoldLeft(LAMBDA uri, p : IF uri.ok THEN Read(uri, p) ELSE uri, Start, params)

Parse(u) ==
  LET uri == IF u.form = "bip21" THEN Params(u.params, Bip21) ELSE Params(u.params, Liquid)
  IN  IF AddressFits(u) THEN uri ELSE Refuse(uri)

\* The query is what is after the question mark; without one there is no parameter.
Uri(max) ==
  [form : {"bip21", "liquid"}, address : Address,
   params : UNION {[1..n -> Param] : n \in 0..max} \ {<<Empty>>}]

-----------------------------------------------------------------------------
(* The reference.                                                          *)

Written(u) == {i \in DOMAIN u.params : u.params[i].key # None}

\* The i-th parameter is on the page: its key and its value, decoded.
IsShown(u, uri, i) ==
  LET p == u.params[i] IN
  \/ \E e \in Range(uri.list) : e.key = p.key /\ e.value = Percent(p.value)
  \/ p.key \in Field /\ uri.fields[p.key] = Percent(p.value)

\* Another value of the same field follows.
IsReplaced(u, i) ==
  /\ u.form = "liquid" /\ u.params[i].key \in Field
  /\ \E j \in i + 1 .. Len(u.params) : u.params[j].key = u.params[i].key

\* Something in the URI that its format rules out, wherever it stands.
IsWrong(u) ==
  \/ ~AddressFits(u) \/ NoEquals \in Range(u.params)
  \/ u.form = "bip21" /\ Empty \in Range(u.params)
  \/ \E i \in Written(u) : LET p == u.params[i] IN
       \/ "%" \in {p.key, p.value}
       \/ u.form = "liquid" /\ p.key = "amount" /\ ~IsAmount(Percent(p.value))
       \/ u.form = "bip21" /\ Known(p) /\ p.key = "amount" /\ ~IsAmount(p.value)
       \/ u.form = "bip21" /\ Known(p) /\ p.key = "pjos" /\ p.value # "0"
=============================================================================
