------------------------------- MODULE Formats -------------------------------
(***************************************************************************)
(* The pure functions of the library, each called with every input of its  *)
(* bounds: what a text is (Decoder), the query of a URI (UriParams), a     *)
(* Cashu request (CashuRequest), the metadata of an LNURL response         *)
(* (PayMetadata), and how values are shown (Display).  A behaviour is one  *)
(* call; the properties relate what comes out to a reference.              *)
(***************************************************************************)
EXTENDS Naturals, Sequences

CONSTANTS
  MaxParams,       \* bound: parameters of a URI
  MaxEntries,      \* bound: entries of the metadata
  Base,            \* bytes are the digits of this base
  MaxAmountBytes,  \* bytes of an amount of Cashu: 8 in the code
  Requests,        \* the Cashu requests that are encoded
  Amounts,         \* numbers of millisatoshis, or of the units of a currency
  Exponents,       \* digits after the point of a currency
  Bounds,          \* the ends of a range
  Ppm,             \* fees in millionths
  Seconds,         \* durations
  Blocks,          \* numbers of blocks
  Word,            \* 2^64 in the code
  Texts,           \* texts of "x", "CR" and "LF"
  None             \* "no value"

ASSUME ConstantsAssumption ==
  /\ MaxParams \in Nat /\ MaxEntries \in Nat
  /\ Base \in Nat \ 0..8 /\ MaxAmountBytes \in Nat \ 0..1
  /\ Word \in Nat \ {0} /\ Seconds \cup Blocks \subseteq 0..Word - 1
  /\ Amounts \cup Exponents \cup Bounds \cup Ppm \subseteq Nat
  /\ Texts \subseteq Seq({"x", "CR", "LF"})

Text     == INSTANCE Decoder
Uri      == INSTANCE UriParams
Cashu    == INSTANCE CashuRequest
Metadata == INSTANCE PayMetadata
Value    == INSTANCE Display

\* "No value" is none of those there may be.
ASSUME NoneAssumption ==
  /\ None \notin Uri!Key \cup Uri!Value
  /\ None \notin Metadata!Key \cup Metadata!Value \cup {"rejected"}
  /\ None \notin Metadata!Entry
  /\ None \notin BOOLEAN \cup Nat \cup Cashu!Bytes
  /\ None \notin [kind : Cashu!Byte, data : Cashu!Shown, tags : Seq(Seq(Cashu!Bytes))]

ASSUME RequestsAssumption == Requests \subseteq Cashu!Request

VARIABLES
  called,  \* which function
  input,   \* with what
  output   \* what it returned; None before

vars == <<called, input, output>>

Call(function, argument) == called = function /\ input = argument /\ output = None

Init ==
  \/ \E i \in Text!Input : Call("decode", i)
  \/ \E u \in Uri!Uri(MaxParams) : Call("parse uri", u)
  \/ \E r \in Requests :
       \/ \E w \in Cashu!Wires26(r) : Call("parse_payment_request", [request |-> r, wire |-> w])
       \/ \E w \in Cashu!Wires18(r) : Call("parse_payment_request", [request |-> r, wire |-> w])
  \/ \E n \in 0..MaxEntries : \E es \in [1..n -> Metadata!Entry] : Call("try_from_parts", es)
  \/ \E v \in Value!Item : Call("fmt", v)

Return(function, value) ==
  /\ called = function /\ output = None
  /\ output' = value
  /\ UNCHANGED <<called, input>>

Decode           == Return("decode", Text!Decode(input))
ParseUri         == Return("parse uri", Uri!Parse(input))
ParseRequest     == Return("parse_payment_request", Cashu!Parse(input.wire))
TryFromParts     == Return("try_from_parts", Metadata!Parse(input))
Fmt              == Return("fmt", Value!Show(input))

Next == Decode \/ ParseUri \/ ParseRequest \/ TryFromParts \/ Fmt

Spec == Init /\ [][Next]_vars

-----------------------------------------------------------------------------
(* Properties.                                                             *)

Returned(function) == called = function /\ output # None

\* What is read in small letters.
Lightning == Text!Lud17 \cup {"lno", "lnr", "lnurl", "ln"}

\* Capitals, as QR codes have them, change what a text is only where a parser reads them.
\* What `lightning:` stands before, and what is read as if it did, is what it is in small
\* letters, whatever its parser says of it in capitals.  Anything else but names and the
\* two values the page makes itself is the same kind of thing, if its parser takes it in
\* both spellings or in neither: not so a URI with a known key in capitals, or an address
\* whose letters count.  And without `lightning:` a text is what it is with it, or a name
\* that DNS is asked for as well (decoder.rs:46, 64-68, 89-96).
SpellingDoesNotMatter ==
  Returned("decode") =>
    /\ input.scheme = "lightning:" \/ (input.scheme = "" /\ input.start \in Lightning) =>
         output = Text!Decode(Text!Lowercased(input))
    /\ input.start \notin Text!Hex \cup {"name"} /\ input.valid = input.small =>
         output = Text!Decode(Text!Lowercased(input))
    /\ input.scheme = "" /\ Text!DecodeLightningUri(input) # Text!Refused =>
         \/ output = Text!DecodeLightningUri(input)
         \/ input.start = "name"
            /\ output = Text!Data(IF input.upper THEN "Bip353" ELSE "Bip353OrLightningAddress")

\* A URI is shown whole or refused: every parameter of an accepted one is there, save
\* the values Liquid replaces by later ones; only amounts that are amounts are shown as
\* such, and whether a URI is refused does not depend on the order of its parameters
\* (decoder.rs:204-254, liquid_address.rs:75-135).
ShowsTheWholeUri ==
  Returned("parse uri") =>
    /\ output.ok <=> ~Uri!IsWrong(input)
    /\ output.ok =>
         /\ \A i \in Uri!Written(input) :
              Uri!IsShown(input, output, i) \/ Uri!IsReplaced(input, i)
         /\ input.form = "bip21" => Len(output.list) = Len(input.params)
         /\ output.fields.amount # None => Uri!IsAmount(output.fields.amount)
         /\ \A i \in DOMAIN output.list :
              output.list[i].as = "amount" => Uri!IsAmount(output.list[i].value)

\* The page that explains the formats says "When amount is present, assetid is
\* required." (server/templates/doc.html:156).
AmountNeedsAsset ==
  Returned("parse uri") =>
    (output.ok /\ output.fields.amount # None => output.fields.assetid # None)

\* A request reads back as it was written, the same from both encodings, whatever is
\* unknown or given again in front of it.  Of bytes that nobody wrote so every one is
\* read once and none beyond the end, or they are refused: an accepted request is made
\* of whole entries, and so is every transport and option in it (cashu.rs:81-293).
ReadsWhatWasWritten ==
  Returned("parse_payment_request") =>
    /\ ~input.wire.damaged => output = input.request
    /\ output # Cashu!Refused /\ input.wire.nut = 26 => Cashu!IsWhole(input.wire.of)

\* Metadata is accepted exactly when the whole of it is acceptable, whatever the order
\* of its entries, and what is kept is what it means: the one description, the last
\* long description, the one image, every other entry in its order (lnurl.rs:183-250).
ReadsTheMetadata ==
  Returned("try_from_parts") =>
    IF Metadata!Acceptable(input) THEN Metadata!IsMeaning(output, input)
    ELSE output = Metadata!Rejected

\* A reader takes what is shown for what it is: amounts to the last digit, also those
\* shorter than their fraction; the ends of a range; a duration to the second, of
\* blocks as long as the product fits a word; an event line by line, as long as no CR
\* is on its own (types.rs:30-80, bolt12.rs:44-64, invoice_details.rs:79-88 and 156,
\* duration.rs:3-26, server/src/main.rs:415).
ReadsBack == Returned("fmt") => Value!IsReadBack(input, output)
=============================================================================
