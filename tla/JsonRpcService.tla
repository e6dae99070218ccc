--------------------------- MODULE JsonRpcService ---------------------------
(***************************************************************************)
(* The promise of the streams of JsonRpcEvents (lnurl.rs) to their reader: *)
(* the steps of one HTTP exchange in their order, closed by at most one    *)
(* Result, which is Ok only after the last of them.                        *)
(***************************************************************************)
EXTENDS Naturals, Sequences

CONSTANT Steps  \* the steps of an exchange, in order

VARIABLES
  shown,   \* the steps its reader has seen
  result   \* the Result it has seen

vars == <<shown, result>>

Init == shown = <<>> /\ result = "none"

Show ==
  /\ result = "none" /\ Len(shown) < Len(Steps)
  /\ shown' = Append(shown, Steps[Len(shown) + 1])
  /\ UNCHANGED result

Close ==
  /\ result = "none"
  /\ \/ result' = "error"
     \/ result' = "ok" /\ shown = Steps
  /\ UNCHANGED shown

Next == Show \/ Close

Spec == Init /\ [][Next]_vars
=============================================================================
