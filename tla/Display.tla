------------------------------- MODULE Display -------------------------------
(***************************************************************************)
(* How values are shown: amounts and ranges (detective/src/types.rs,       *)
(* bolt12.rs), fees and block counts (invoice_details.rs), durations       *)
(* (duration.rs), and HTML as a server-sent event (server/src/main.rs).    *)
(* Each is checked against how a reader takes it.  A number is shown as    *)
(* its whole part and the digits after the point.                          *)
(***************************************************************************)
EXTENDS Naturals, Sequences, SequencesExt, FiniteSetsExt

CONSTANTS
  Amounts,    \* numbers of millisatoshis, or of the units of a currency
  Exponents,  \* digits after the point of a currency
  Bounds,     \* the ends of a range
  Ppm,        \* fees in millionths
  Seconds,    \* durations
  Blocks,     \* numbers of blocks
  Word,       \* 2^64 in the code
  Texts,      \* texts of "x", "CR" and "LF"
  None        \* "no value"

Digits[n \in Nat] == IF n < 10 THEN <<n>> ELSE Append(Digits[n \div 10], n % 10)

\* The number whose last digits are these and whose digits before are those of n.
Continued(n, digits) == FoldLeft(LAMBDA m, d : m * 10 + d, n, digits)

Number(digits) == Continued(0, digits)

Zeros(n) == [i \in 1..n |-> 0]

\* {:0width}.
Padded(n, width) == Zeros(width - Len(Digits[n])) \o Digits[n]

Shown(whole, fraction) == [whole |-> whole, fraction |-> fraction]

\* Mutant of ShowMsat: the zeros before the thousandths are left out.
ShowMsatUnpadded(msat) ==
  Shown(msat \div 1000, IF msat % 1000 = 0 THEN <<>> ELSE Digits[msat % 1000])

ShowMsat(msat) ==
  Shown(msat \div 1000, IF msat % 1000 = 0 THEN <<>> ELSE Padded(msat % 1000, 3))

\* MsatRange: an end is None where it is open; one amount is shown for two equal ends.
ShowRange(min, max) ==
  CASE min = None /\ max = None -> <<"any">>
    [] min # None /\ max = None -> <<"from", ShowMsat(min)>>
    [] min = None /\ max # None -> <<"to", ShowMsat(max)>>
    [] OTHER -> IF min = max THEN <<"exactly", ShowMsat(min)>>
                ELSE <<"between", ShowMsat(min), ShowMsat(max)>>

\* Amount of BOLT-12: the point is put into the digits.
ShowAmount(amount, exponent) ==
  LET digits == Digits[amount]
      whole  == Len(digits) - exponent
  IN  IF exponent = 0 THEN Shown(amount, <<>>)
      ELSE IF Len(digits) <= exponent
           THEN Shown(0, Zeros(exponent - Len(digits)) \o digits)
           ELSE LET fraction == SubSeq(digits, whole + 1, Len(digits)) IN
                Shown(Number(SubSeq(digits, 1, whole)),
                      IF \E i \in DOMAIN fraction : fraction[i] # 0 THEN fraction ELSE <<>>)

TrimZeros(digits) ==
  SubSeq(digits, 1, Max({0} \cup {i \in DOMAIN digits : digits[i] # 0}))

\* format_proportional.
ShowPercent(ppm) == Shown(ppm \div 10000, TrimZeros(Padded(ppm % 10000, 4)))

\* format_duration: parts that are zero are left out, but not all.
ShowDuration(secs) ==
  LET Some(count, unit) == IF count > 0 THEN << <<count, unit>> >> ELSE <<>>
      parts == Some(secs \div 86400, 86400) \o Some((secs % 86400) \div 3600, 3600)
                 \o Some((secs % 3600) \div 60, 60)
  IN  parts \o (IF parts = <<>> THEN << <<secs % 60, 1>> >> ELSE Some(secs % 60, 1))

\* format_number_of_blocks: ten minutes a block, in a word.
ShowBlocks(number) == [blocks |-> number, about |-> ShowDuration((60 * 10 * number) % Word)]

\* str::lines: a CR counts only before the LF.
Lines[text \in Seq({"x", "CR", "LF"})] ==
  IF text = <<>> THEN <<>>
  ELSE IF ~Contains(text, "LF") THEN <<text>>
  ELSE LET lf  == Min({i \in DOMAIN text : text[i] = "LF"})
           end == IF lf > 1 /\ text[lf - 1] = "CR" THEN lf - 2 ELSE lf - 1
       IN  <<SubSeq(text, 1, end)>> \o Lines[SubSeq(text, lf + 1, Len(text))]

\* format_sse.
ShowEvent(text) ==
  FlattenSeq([i \in DOMAIN Lines[text] |-> <<"data: ">> \o Lines[text][i] \o <<"LF">>])

Item ==
  [kind : {"msat"}, of : Amounts] \cup
  [kind : {"range"}, min : Bounds \cup {None}, max : Bounds \cup {None}] \cup
  [kind : {"amount"}, of : Amounts, exponent : Exponents] \cup
  [kind : {"percent"}, of : Ppm] \cup [kind : {"duration"}, of : Seconds] \cup
  [kind : {"blocks"}, of : Blocks] \cup [kind : {"event"}, of : Texts]

Show(item) ==
  CASE item.kind = "msat"     -> ShowMsat(item.of)
    [] item.kind = "range"    -> ShowRange(item.min, item.max)
    [] item.kind = "amount"   -> ShowAmount(item.of, item.exponent)
    [] item.kind = "percent"  -> ShowPercent(item.of)
    [] item.kind = "duration" -> ShowDuration(item.of)
    [] item.kind = "blocks"   -> ShowBlocks(item.of)
    [] item.kind = "event"    -> ShowEvent(item.of)

-----------------------------------------------------------------------------
(* The readers.                                                            *)

\* The number shown, in units of the last of so many digits after the point.
Read(s, digits) ==
  IF Len(s.fraction) > digits THEN None
  ELSE Continued(s.whole, s.fraction \o Zeros(digits - Len(s.fraction)))

ReadRange(s) ==
  CASE s[1] = "any"     -> <<None, None>>
    [] s[1] = "from"    -> <<Read(s[2], 3), None>>
    [] s[1] = "to"      -> <<None, Read(s[2], 3)>>
    [] s[1] = "exactly" -> <<Read(s[2], 3), Read(s[2], 3)>>
    [] OTHER            -> <<Read(s[2], 3), Read(s[3], 3)>>

ReadDuration(s) == FoldLeft(LAMBDA n, p : n + p[1] * p[2], 0, s)

\* How an EventSource splits a stream: a bare CR ends a line as well, and a line that
\* has no end is none.
StreamLines[s \in Seq({"x", "CR", "LF", "data: "})] ==
  IF {i \in DOMAIN s : s[i] \in {"CR", "LF"}} = {} THEN <<>>
  ELSE LET end  == Min({i \in DOMAIN s : s[i] \in {"CR", "LF"}})
           skip == IF s[end] = "CR" /\ end < Len(s) /\ s[end + 1] = "LF" THEN 2 ELSE 1
       IN  <<SubSeq(s, 1, end - 1)>> \o StreamLines[SubSeq(s, end + skip, Len(s))]

\* A line without the field name is none of the data.
ReadEvent(s) ==
  LET lines   == StreamLines[s]
      Data(l) == IF l # <<>> /\ Head(l) = "data: " THEN <<Tail(l)>> ELSE <<>>
  IN  FlattenSeq([i \in DOMAIN lines |-> Data(lines[i])])

HasBareCR(text) ==
  \E i \in DOMAIN text : text[i] = "CR" /\ (i = Len(text) \/ text[i + 1] # "LF")

\* A reader takes what is shown for what it is, a product that fits no word and a CR on
\* its own left aside.
IsReadBack(item, shown) ==
  CASE item.kind = "msat"     -> Read(shown, 3) = item.of
    [] item.kind = "range"    -> ReadRange(shown) = <<item.min, item.max>>
    [] item.kind = "amount"   -> Read(shown, item.exponent) = item.of
    [] item.kind = "percent"  -> Read(shown, 4) = item.of
    [] item.kind = "duration" -> ReadDuration(shown) = item.of
    [] item.kind = "blocks"   ->
         600 * item.of < Word => ReadDuration(shown.about) = 600 * shown.blocks
    [] item.kind = "event"    -> ~HasBareCR(item.of) => ReadEvent(shown) = Lines[item.of]
=============================================================================
