------------------------------ MODULE WebClient ------------------------------
(***************************************************************************)
(* The main form of the page (server/static/app.js): its text area, the    *)
(* address bar with its history, the result and the two things that share  *)
(* it.  The address bar is changed when a request goes out and the result  *)
(* when its answer comes in; the share button takes the address bar as it  *)
(* is then, the QR code as it was when the result came in.  InvoiceStream  *)
(* is about what else is on the page; no name is in both modules, so that  *)
(* one module may extend the two.                                          *)
(***************************************************************************)
EXTENDS Naturals, Sequences

CONSTANTS
  Texts,       \* what can be asked
  Empty,       \* no text, no parameter in the address, no result
  MaxHistory   \* bound: entries of the history

ASSUME FormAssumption == Empty \in Texts /\ MaxHistory \in Nat \ {0}

VARIABLES
  text,     \* in the text area
  entries,  \* the history of this page: the request of each address
  at,       \* where in the history the page is
  waiting,  \* the text of the request in flight, if any
  queued,   \* the form was sent once more
  shownFor, \* the text whose result is shown
  qr,       \* the text the QR code of the result shows
  moved     \* the address was changed since, or the last request failed

formVars == <<text, entries, at, waiting, queued, shownFor, qr, moved>>

address == entries[at]

FormInit ==
  /\ text \in Texts
  /\ entries = <<text>> /\ at = 1
  /\ waiting = <<>> /\ queued = FALSE
  /\ shownFor = text /\ qr = text
  /\ moved = FALSE

Type ==
  /\ text' \in Texts
  /\ UNCHANGED <<entries, at, waiting, queued, shownFor, qr, moved>>

\* handleBeforeRequest: the address so far is pushed, and replaced by the new one.
Issue ==
  /\ at < MaxHistory
  /\ entries' = Append(SubSeq(entries, 1, at), text)
  /\ at' = at + 1
  /\ waiting' = <<text>>
  /\ queued' = FALSE
  /\ moved' = FALSE

\* The button is disabled without a text and during a request, the enter key is not;
\* htmx keeps one request back while another is in flight.
SubmitForm ==
  /\ \/ waiting = <<>> /\ Issue
     \/ /\ waiting # <<>>
        /\ queued' = TRUE
        /\ UNCHANGED <<entries, at, waiting, moved>>
  /\ UNCHANGED <<text, shownFor, qr>>

\* The end of a request; the one kept back goes out with the text of now.
EndRequest(failed) ==
  \/ queued /\ Issue
  \/ /\ ~queued
     /\ waiting' = <<>>
     /\ moved' = (moved \/ failed)
     /\ UNCHANGED <<entries, at, queued>>

\* Mutant of Answer: the address bar follows the answer, with the text of now.
AnswerThenAddress ==
  /\ waiting # <<>> /\ ~queued
  /\ shownFor' = Head(waiting) /\ qr' = address
  /\ waiting' = <<>>
  /\ entries' = [entries EXCEPT ![at] = text]
  /\ UNCHANGED <<text, at, queued, moved>>

\* htmx swaps the result in, and wireQrButton reads the address bar.
Answer ==
  /\ waiting # <<>>
  /\ shownFor' = Head(waiting) /\ qr' = address
  /\ EndRequest(FALSE)
  /\ UNCHANGED text

\* The request fails; the old result stays.
RequestFails ==
  /\ waiting # <<>>
  /\ EndRequest(TRUE)
  /\ UNCHANGED <<text, shownFor, qr>>

\* The Reset button, which is disabled without a text; a request goes on.
ResetForm ==
  /\ text # Empty
  /\ text' = Empty
  /\ entries' = [entries EXCEPT ![at] = Empty]
  /\ shownFor' = Empty /\ qr' = Empty
  /\ moved' = (waiting # <<>>)
  /\ UNCHANGED <<at, waiting, queued>>

\* Back and forward: the page does not listen to popstate.
Go ==
  /\ at' \in DOMAIN entries \ {at}
  /\ moved' = TRUE
  /\ UNCHANGED <<text, entries, waiting, queued, shownFor, qr>>

FormNext == Type \/ SubmitForm \/ Answer \/ RequestFails \/ ResetForm \/ Go

FormSpec == FormInit /\ [][FormNext]_formVars

-----------------------------------------------------------------------------
(* Properties.                                                             *)

\* What is shared is what is shown, however requests, typing and Reset overlap: while
\* no request is in flight the address bar and the QR code have the text of the result,
\* unless the address was moved by Back or Forward, by Reset during a request, or is
\* the one of a request that failed (app.js:320-338).
SharesWhatIsShown ==
  waiting = <<>> /\ ~moved => address = shownFor /\ qr = shownFor

\* What makes it inductive: while a request is in flight and the address was not moved,
\* the address is the one of that request, not of the one kept back.
FormTypeOK ==
  /\ {text, shownFor, qr} \subseteq Texts
  /\ entries \in Seq(Texts) /\ at \in 1..Len(entries)
  /\ waiting \in {<<>>} \cup {<<t>> : t \in Texts}
  /\ {queued, moved} \subseteq BOOLEAN
  /\ queued => waiting # <<>>

AddressInv == waiting # <<>> /\ ~moved => address = Head(waiting)

FormInv == FormTypeOK /\ SharesWhatIsShown /\ AddressInv
=============================================================================
