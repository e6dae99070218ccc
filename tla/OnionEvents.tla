---------------------------- MODULE OnionEvents ----------------------------
(***************************************************************************)
(* What a BOLT-12 invoice request tells its client and what it ends with:  *)
(* the vocabulary shared by InvoiceService, which says what is promised,   *)
(* and OnionRequest, which says how it is done.                            *)
(***************************************************************************)
CONSTANTS
  Requests,  \* payment ids, one per call of request_bolt12_invoice
  None       \* "no value"

Events == {"Resolving", "Resolved", "Connecting", "ConnectionError",
           "Connected", "WaitingForHandshake", "Handshaked", "SendingOnion",
           "OnionSent", "Result"}

\* An answer comes in along the reply path of the request `via`; an invoice
\* commits to the payer data of the request `payer` it was made for.
Message == [via : Requests, kind : {"invoice", "static", "error"}, payer : Requests]

Outcome == [ok : BOOLEAN, message : Message \cup {None}]

Failure == [ok |-> FALSE, message |-> None]

ASSUME NoneAssumption == None \notin Message \cup Outcome \cup Events
=============================================================================
