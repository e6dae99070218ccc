------------------------------ MODULE MCFormats ------------------------------
(* The inputs of Formats for TLC. *)
EXTENDS Formats

\* Each field of a Cashu request alone with its edges, and two requests with everything.
Blank == [id |-> None, amount |-> None, unit |-> None, single_use |-> None,
          mints |-> <<>>, description |-> None, transports |-> <<>>, nut10 |-> None]

MCTags == {<<>>, <<[key |-> <<>>, values |-> <<>>]>>,
           <<[key |-> <<1>>, values |-> <<<<>>, <<1, 2>>>>], [key |-> <<3>>, values |-> <<>>]>>}

Post(tags)  == [kind |-> 1, target |-> [text |-> TRUE, of |-> <<5>>], tags |-> tags]
Nostr(tags) == [kind |-> 0, target |-> [text |-> FALSE, of |-> <<8>>], tags |-> tags]
P2pk(data, tags) ==
  [kind |-> 0, data |-> [text |-> Cashu!IsText(data), of |-> data], tags |-> tags]

MCRequests ==
  {Blank} \cup {[Blank EXCEPT !.id = t] : t \in {<<>>, <<1>>}}
    \cup {[Blank EXCEPT !.amount = n, !.unit = [text |-> u # <<8>>, of |-> u]] :
            n \in {0, 1, 80}, u \in {<<0>>, <<>>, <<8>>}}
    \cup {[Blank EXCEPT !.single_use = b, !.mints = m] :
            b \in BOOLEAN, m \in {<<>>, <<<<>>>>, <<<<1>>, <<1>>>>}}
    \cup {[Blank EXCEPT !.transports = <<Post(tags)>>] : tags \in MCTags}
    \cup {[Blank EXCEPT !.transports = <<Nostr(tags), Post(<<>>)>>] : tags \in MCTags}
    \cup {[Blank EXCEPT !.nut10 = P2pk(d, tags)] : d \in {<<>>, <<8>>}, tags \in MCTags}
    \cup {[id |-> <<1>>, amount |-> n, unit |-> [text |-> TRUE, of |-> <<0>>],
           single_use |-> TRUE, mints |-> <<<<7>>>>, description |-> <<2>>,
           transports |-> <<Post(<<>>)>>, nut10 |-> P2pk(<<3>>, <<>>)] : n \in {7, 80}}

\* About the powers of ten, the fractions and the units of time.
Around(S) == UNION {{n - 1, n, n + 1} : n \in S}

MCAmounts == 0..130 \cup Around({1000, 1100, 2000, 10000, 12345, 100000, 1000000})
MCPpm     == 0..120 \cup Around({1000, 10000, 12300, 120000, 1000000})
MCSeconds == 0..125 \cup Around({3600, 7200, 86400, 90061, 172800})
MCTexts   == UNION {[1..n -> {"x", "CR", "LF"}] : n \in 0..5}
=============================================================================
