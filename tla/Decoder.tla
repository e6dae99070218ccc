------------------------------- MODULE Decoder -------------------------------
(***************************************************************************)
(* decode (detective/src/decoder.rs): what the text in the form is.  A     *)
(* text is a scheme and a body; of the body it matters how it begins,      *)
(* whether that is in capitals, and what the parsers of the libraries say  *)
(* of it as it is written and of it in small letters, which may differ.    *)
(* The first rule that takes the beginning decides: when its parser then   *)
(* fails no other rule is tried.                                           *)
(***************************************************************************)

\* `start`: how the body begins.  "name" is user@domain; an address begins with what
\* no other rule knows.  `upper`: what it begins with is in capitals.
Scheme == {"", "lightning:", "liquidnetwork:", "bitcoin:", "bitcoin-sign"}
Hex    == {"bolt12_invoice:", "bolt12_static_invoice:"}
Cashu  == {"creqa", "creqb1"}
Lud17  == {"lnurlc", "lnurlp", "lnurlw", "keyauth"}
Address == {"liquid", "onchain", "silent payment"}
Text   == Hex \cup Cashu \cup Lud17 \cup Address
            \cup {"ark1p", "lno", "lnr", "lnurl", "ln", "other"}

\* `valid`: the parser of that kind takes the text as it is written, with the keys of a
\* URI as they are; `small`: it takes it in small letters.  `hrn` and `address`: a name is
\* one for BIP-353, and in small letters one for LUD-16.
Input ==
  [scheme : Scheme, start : Text, upper : BOOLEAN, valid : BOOLEAN, small : BOOLEAN] \cup
  [scheme : Scheme, start : {"name"}, upper : BOOLEAN, hrn : BOOLEAN, address : BOOLEAN]

Refused == [kind |-> "error"]

Data(kind) == [kind |-> kind]

Parsed(i, kind) == IF i.valid THEN Data(kind) ELSE Refused

\* UriParams says which URIs are taken, as they are written; one with a name for an
\* address is not.
ParsedUri(i, kind) == IF i.start = "name" THEN Refused ELSE Parsed(i, kind)

-----------------------------------------------------------------------------
(* How the rules look at the beginning.                                    *)

\* InvestigateValue::parse knows its two kinds as they are written.
IsInvestigateValue(i) == i.scheme = "" /\ i.start \in Hex /\ ~i.upper

\* Mutant of IsPaymentRequest: a request in capitals, as in a QR code, is not seen.
IsPaymentRequestAsWritten(i) == i.scheme = "" /\ i.start \in Cashu /\ ~i.upper

\* In any case.
IsPaymentRequest(i) == i.scheme = "" /\ i.start \in Cashu
IsArkAddress(i)     == i.scheme = "" /\ i.start = "ark1p"

\* LightningAddress::from_str takes a user name in small letters.
IsLightningAddress(i) == i.address /\ ~i.upper

\* The text in small letters.
Lowercased(i) ==
  IF i.start = "name" THEN [i EXCEPT !.upper = FALSE]
  ELSE [scheme |-> i.scheme, start |-> i.start, upper |-> FALSE,
        valid |-> i.small, small |-> i.small]

\* LnUrl::from_str: the kind is in the scheme.
LnUrlKindOf(start) ==
  CASE start = "lnurlc" -> "Channel"
    [] start = "lnurlp" -> "Pay"
    [] start = "lnurlw" -> "Withdraw"
    [] start = "keyauth" -> "Login"
    [] OTHER -> "Unknown"

LnUrl(i) ==
  IF i.valid THEN [kind |-> "LnUrl", lnurl |-> LnUrlKindOf(i.start)] ELSE Refused

\* decode_lightning; an at sign comes before every beginning.
DecodeLightning(i) ==
  CASE i.start = "name" ->
         IF IsLightningAddress(i) THEN Data("LightningAddress") ELSE Refused
    [] i.start = "lno"  -> Parsed(i, "Offer")
    [] i.start = "lnr"  -> Parsed(i, "Refund")
    [] i.start \in Lud17 \cup {"lnurl"} -> LnUrl(i)
    [] i.start = "ln"   -> Parsed(i, "Invoice")
    [] OTHER            -> Refused

\* A name without a scheme that BIP-353 takes.
DecodeName(i) == IF IsLightningAddress(i) THEN Data("Bip353OrLightningAddress")
                 ELSE Data("Bip353")

\* After the scheme `lightning:` the rest is taken in small letters.
DecodeLightningUri(i) == DecodeLightning(Lowercased(i))

Decode(i) ==
  CASE IsInvestigateValue(i) ->
         Parsed(i, IF i.start = "bolt12_invoice:" THEN "Bolt12Invoice"
                   ELSE "Bolt12StaticInvoice")
    [] IsPaymentRequest(i)            -> Parsed(i, "CashuPaymentRequest")
    [] i.scheme = "lightning:"        -> DecodeLightningUri(i)
    [] i.scheme = "liquidnetwork:"    -> ParsedUri(i, "LiquidUri")
    [] i.scheme = "" /\ i.start \in Address /\ i.valid ->
         Data(CASE i.start = "liquid"  -> "LiquidAddress"
                [] i.start = "onchain" -> "OnchainAddress"
                [] OTHER               -> "SilentPaymentAddress")
    [] IsArkAddress(i)                -> Parsed(i, "ArkAddress")
    [] i.scheme = "bitcoin:"          -> ParsedUri(i, "Bip21")
    [] i.scheme = "bitcoin-sign"      ->
         IF i.start = "name" /\ i.hrn THEN Data("Bip353") ELSE Refused
    [] i.scheme = "" /\ i.start = "name" /\ i.hrn -> DecodeName(i)
    [] OTHER                          -> DecodeLightning(Lowercased(i))
=============================================================================
