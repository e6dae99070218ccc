-------------------------- MODULE InvoiceService --------------------------
(***************************************************************************)
(* The promise of request_bolt12_invoice to its caller: a stream of        *)
(* progress events in a fixed order, closed by at most one Result, and a   *)
(* Result is Ok only with an answer the payee gave to this very request    *)
(* after the onion message had gone out.                                   *)
(***************************************************************************)
EXTENDS OnionEvents

VARIABLES
  asked,    \* requests the payee may have seen
  outcome,  \* what a request ended with
  last      \* the event its client saw last

vars == <<asked, outcome, last>>

Init ==
  /\ asked = {}
  /\ outcome = [r \in Requests |-> None]
  /\ last = [r \in Requests |-> None]

\* The events that may follow e; an early end is possible after every one.
After(e) ==
  CASE e = None                              -> {"Resolving", "Result"}
    [] e = "Resolving"                       -> {"Resolved", "Result"}
    [] e \in {"Resolved", "ConnectionError"} -> {"Connecting", "Result"}
    [] e = "Connecting"          -> {"Connected", "ConnectionError", "Result"}
    [] e = "Connected"           -> {"WaitingForHandshake", "Result"}
    [] e = "WaitingForHandshake" -> {"Handshaked", "Result"}
    [] e = "Handshaked"          -> {"SendingOnion", "Result"}
    [] e = "SendingOnion"        -> {"OnionSent", "Result"}
    [] e = "OnionSent"           -> {"Result"}
    [] OTHER                     -> {}

Ask(r) ==
  /\ outcome[r] = None
  /\ asked' = asked \cup {r}
  /\ UNCHANGED <<outcome, last>>

Succeed(r, m) ==
  /\ outcome[r] = None
  /\ r \in asked /\ m.via = r
  /\ \/ m.kind = "invoice" /\ m.payer = r
     \/ m.kind = "static"
  /\ outcome' = [outcome EXCEPT ![r] = [ok |-> TRUE, message |-> m]]
  /\ UNCHANGED <<asked, last>>

GiveUp(r, m) ==
  /\ outcome[r] = None
  /\ outcome' = [outcome EXCEPT ![r] = [ok |-> FALSE, message |-> m]]
  /\ UNCHANGED <<asked, last>>

Show(r, e) ==
  /\ e \in After(last[r])
  /\ e = "Result" => /\ outcome[r] # None
                     /\ outcome[r].ok => last[r] = "OnionSent"
  /\ last' = [last EXCEPT ![r] = e]
  /\ UNCHANGED <<asked, outcome>>

Next ==
  \E r \in Requests :
    \/ Ask(r)
    \/ \E m \in Message : Succeed(r, m)
    \/ \E m \in Message \cup {None} : GiveUp(r, m)
    \/ \E e \in Events : Show(r, e)

Spec == Init /\ [][Next]_vars
=============================================================================
