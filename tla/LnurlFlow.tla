------------------------------ MODULE LnurlFlow ------------------------------
(***************************************************************************)
(* One call of resolve_lnurl or request_invoice (detective/src/lnurl.rs):  *)
(* a task makes an HTTP request, reports each step through a channel, and  *)
(* sends what it ends with as the last event.  The reader of the stream    *)
(* (the page's event stream, the collect of the investigation, the loop of *)
(* the command line) may stop reading or leave at any time; the server may *)
(* answer anything, or nothing.                                            *)
(***************************************************************************)
EXTENDS Naturals, Sequences, SequencesExt

CONSTANTS
  Amounts,   \* amounts in millisatoshi
  Capacity,  \* slots of the channel
  None       \* "no value"

Progress == <<"Requesting", "ResponseReceived", "ResponseBodyReceived", "JsonParsed">>

ASSUME ConstantsAssumption ==
  /\ Amounts \subseteq Nat
  /\ Capacity \in Nat /\ Capacity > Len(Progress)

LnUrlKind == {"Pay", "Withdraw", "Channel", "Login", "Unknown"}

Job == [call : {"resolve"}, kind : LnUrlKind] \cup [call : {"invoice"}, amount : Amounts]

\* What a body can hold.  `fits`: it has the fields and types the struct wants; the
\* fields after it are looked at by lnurl.rs itself.
PayJson      == [tag : {"payRequest"}, fits : BOOLEAN, metadata : {"valid", "invalid"},
                 allows : BOOLEAN \cup {None}, key : {"valid", "invalid", None},
                 min : Amounts, max : Amounts]
WithdrawJson == [tag : {"withdrawRequest"}, fits : BOOLEAN,
                 blank : SUBSET {"defaultDescription", "callback", "k1"},
                 min : Amounts \cup {None}, max : Amounts]
ChannelJson  == [tag : {"channelRequest"}, fits : BOOLEAN]
OtherJson    == [tag : {"other", None}]
InvoiceJson  == [pr : {"missing", "malformed", "amountless", "invoice"}, amount : Amounts]

Json(job) ==
  IF job.call = "invoice" THEN InvoiceJson
  ELSE PayJson \cup WithdrawJson \cup ChannelJson \cup OtherJson

ASSUME NoneAssumption ==
  None \notin LnUrlKind \cup {"payRequest", "withdrawRequest", "channelRequest"}

VARIABLES
  job,      \* what the caller asked for
  pc,       \* where the task stands
  status,   \* the status of the HTTP response
  json,     \* its body, when that is JSON
  outcome,  \* what the task ended with
  channel,  \* events on their way to the reader
  reader,   \* the reader of the stream
  seen      \* the events it has read

vars == <<job, pc, status, json, outcome, channel, reader, seen>>

Failure == [ok |-> FALSE]

Event == Range(Progress) \cup {"Ok", "Err"}

TypeOK ==
  /\ job \in Job
  /\ pc \in {"start", "call", "answered", "body", "text", "parse", "parsed", "decode",
             "finish", "done"}
  /\ status \in {"success", "other", None}
  /\ json \in Json(job) \cup {None}
  /\ outcome = None \/ outcome.ok \in BOOLEAN
  /\ channel \in Seq(Event) /\ Len(channel) <= Capacity
  /\ reader \in {"reading", "stalled", "gone", "ended"}
  /\ seen \in Seq(Event)

Init ==
  /\ job \in Job
  /\ pc = "start"
  /\ status = None /\ json = None /\ outcome = None
  /\ channel = <<>> /\ seen = <<>>
  /\ reader = "reading"

-----------------------------------------------------------------------------
(* What the answers mean.                                                  *)

\* response_kind_from_json: an unknown or missing tag is no kind.
ResponseKind(j) ==
  CASE j.tag = "payRequest"      -> "Pay"
    [] j.tag = "withdrawRequest" -> "Withdraw"
    [] j.tag = "channelRequest"  -> "Channel"
    [] OTHER                     -> None

\* expected_response_kind, with None as any kind.
ExpectedKinds(kind) ==
  IF kind = "Unknown" THEN {"Pay", "Withdraw", "Channel"} ELSE {kind}

\* ZapSupport::from_raw: without permission the key is dropped.
ZapSupport(j) ==
  IF j.allows = TRUE
  THEN [allowed |-> TRUE, nostr_pubkey |-> j.key, valid |-> j.key = "valid"]
  ELSE [allowed |-> FALSE, nostr_pubkey |-> None, valid |-> FALSE]

\* The amounts are taken as they are, also when no amount lies between them.
PayResponse(j) ==
  IF j.fits /\ j.metadata = "valid"
  THEN [ok |-> TRUE, kind |-> "Pay", zap |-> ZapSupport(j), amount |-> <<j.min, j.max>>]
  ELSE Failure

Least(j) == IF j.min = None THEN 0 ELSE j.min

WithdrawalResponse(j) ==
  IF j.fits /\ j.blank = {} /\ Least(j) <= j.max
  THEN [ok |-> TRUE, kind |-> "Withdraw", amount |-> <<Least(j), j.max>>]
  ELSE Failure

\* Mutant of VerifyInvoice: an invoice that leaves the amount open passes.
VerifyLeniently(j, amount) ==
  IF j.pr = "amountless" \/ (j.pr = "invoice" /\ j.amount = amount)
  THEN [ok |-> TRUE, pr |-> j] ELSE Failure

\* RequestInvoiceResponse and verify_invoice_amount.
VerifyInvoice(j, amount) ==
  IF j.pr = "invoice" /\ j.amount = amount THEN [ok |-> TRUE, pr |-> j] ELSE Failure

-----------------------------------------------------------------------------
(* The task.                                                               *)

Finish(o) ==
  /\ outcome' = o
  /\ pc' = "finish"
  /\ UNCHANGED <<job, channel, reader, seen>>

\* Mutant of Send: a failed send is ignored.
SendRegardless(event, here, there) ==
  /\ pc = here
  /\ channel' = IF reader = "gone" THEN channel ELSE Append(channel, event)
  /\ pc' = there
  /\ UNCHANGED <<job, status, json, outcome, reader, seen>>

\* events.send(..).await?: waits for a slot; fails once nobody reads.
Send(event, here, there) ==
  /\ pc = here
  /\ \/ /\ reader # "gone" /\ Len(channel) < Capacity
        /\ channel' = Append(channel, event)
        /\ pc' = there
        /\ UNCHANGED <<job, status, json, outcome, reader, seen>>
     \/ /\ reader = "gone"
        /\ Finish(Failure)
        /\ UNCHANGED <<status, json>>

ReportRequest == Send("Requesting", "start", "call")
ReportStatus  == Send("ResponseReceived", "answered", "body")
ReportBody    == Send("ResponseBodyReceived", "text", "parse")

\* Mutant of ReportJson: the event is left out.
SkipJson ==
  /\ pc = "parsed"
  /\ pc' = "decode"
  /\ UNCHANGED <<job, status, json, outcome, channel, reader, seen>>

ReportJson    == Send("JsonParsed", "parsed", "decode")

\* The response head comes in.
Answer ==
  /\ pc = "call"
  /\ status' \in {"success", "other"}
  /\ pc' = "answered"
  /\ UNCHANGED <<job, json, outcome, channel, reader, seen>>

\* Its body comes in; whether it is JSON shows when it is parsed.
ReceiveBody ==
  /\ pc = "body"
  /\ json' \in Json(job) \cup {None}
  /\ pc' = "text"
  /\ UNCHANGED <<job, status, outcome, channel, reader, seen>>

\* The client cannot be built, the connection fails or breaks.
HttpFails ==
  /\ pc \in {"call", "body"}
  /\ Finish(Failure)
  /\ UNCHANGED <<status, json>>

\* Mutant of TimesOut: the time limit ends with the head of the response.
TimesOutBeforeHead ==
  /\ pc = "call"
  /\ Finish(Failure)
  /\ UNCHANGED <<status, json>>

\* The client's 20 seconds run from the request to the end of the body.
TimesOut ==
  /\ pc \in {"call", "body"}
  /\ Finish(Failure)
  /\ UNCHANGED <<status, json>>

ParseJson ==
  /\ pc = "parse"
  /\ \/ /\ status # "success" \/ json = None
        /\ Finish(Failure)
     \/ /\ status = "success" /\ json # None
        /\ pc' = "parsed"
        /\ UNCHANGED <<job, outcome, channel, reader, seen>>
  /\ UNCHANGED <<status, json>>

\* The task ends without a Result; its senders are dropped with it.
Panic ==
  /\ pc' = "done"
  /\ UNCHANGED <<job, outcome, channel, reader, seen>>

\* Mutant of DecodeLnurl: the conversion of a withdrawal is todo!() as well.
DecodePanics ==
  /\ pc = "decode" /\ job.call = "resolve"
  /\ LET kind == ResponseKind(json) IN
     \/ kind \notin ExpectedKinds(job.kind) /\ Finish(Failure)
     \/ /\ kind \in ExpectedKinds(job.kind)
        /\ \/ kind = "Pay" /\ Finish(PayResponse(json))
           \/ kind # "Pay" /\ IF json.fits THEN Panic ELSE Finish(Failure)
  /\ UNCHANGED <<status, json>>

\* The end of resolve_lnurl_impl.  ChannelResponse::try_from is todo!().
DecodeLnurl ==
  /\ pc = "decode" /\ job.call = "resolve"
  /\ LET kind == ResponseKind(json) IN
     \/ kind \notin ExpectedKinds(job.kind) /\ Finish(Failure)
     \/ /\ kind \in ExpectedKinds(job.kind)
        /\ \/ kind = "Pay" /\ Finish(PayResponse(json))
           \/ kind = "Withdraw" /\ Finish(WithdrawalResponse(json))
           \/ kind = "Channel" /\ IF json.fits THEN Panic ELSE Finish(Failure)
  /\ UNCHANGED <<status, json>>

DecodeInvoice ==
  /\ pc = "decode" /\ job.call = "invoice"
  /\ Finish(VerifyInvoice(json, job.amount))
  /\ UNCHANGED <<status, json>>

\* let _ = tx.send(Result(..)).await: a reader that has gone is no error here.
SendResult ==
  /\ pc = "finish"
  /\ reader = "gone" \/ Len(channel) < Capacity
  /\ channel' = IF reader = "gone" THEN channel
                ELSE Append(channel, IF outcome.ok THEN "Ok" ELSE "Err")
  /\ pc' = "done"
  /\ UNCHANGED <<job, status, json, outcome, reader, seen>>

Task ==
  \/ ReportRequest \/ ReportStatus \/ ReportBody \/ ReportJson
  \/ TimesOut \/ ParseJson \/ DecodeLnurl \/ DecodeInvoice \/ SendResult

-----------------------------------------------------------------------------
(* The reader.                                                             *)

Read ==
  /\ reader = "reading" /\ channel # <<>>
  /\ seen' = Append(seen, Head(channel))
  /\ channel' = Tail(channel)
  /\ UNCHANGED <<job, pc, status, json, outcome, reader>>

EndOfStream ==
  /\ reader = "reading" /\ channel = <<>> /\ pc = "done"
  /\ reader' = "ended"
  /\ UNCHANGED <<job, pc, status, json, outcome, channel, seen>>

\* The reader keeps the stream and does not read on, or drops it.
Stall ==
  /\ reader = "reading"
  /\ reader' = "stalled"
  /\ UNCHANGED <<job, pc, status, json, outcome, channel, seen>>

Leave ==
  /\ reader \in {"reading", "stalled"}
  /\ reader' = "gone"
  /\ channel' = <<>>
  /\ UNCHANGED <<job, pc, status, json, outcome, seen>>

Next ==
  \/ Task \/ Answer \/ ReceiveBody \/ HttpFails
  \/ Read \/ EndOfStream \/ Stall \/ Leave

Spec == Init /\ [][Next]_vars

\* tokio runs a task that can run and the timer of the client fires; a reader that
\* has neither stalled nor left is polled.  Remote servers owe nothing.
FairSpec == Spec /\ WF_vars(Task) /\ WF_vars(Read \/ EndOfStream)

-----------------------------------------------------------------------------
(* Properties.                                                             *)

\* Whatever the server sends, an Ok is an answer to what was asked: the kind the
\* LNURL announced, for a withdrawal a range that is not empty and a callback; an
\* invoice over exactly the amount requested, never an open one; and never the body
\* of an HTTP error (lnurl.rs:374-454).  The range of a pay response may be empty:
\* its amounts are not compared yet (the TODO at lnurl.rs:249).
OkIsWhatWasAsked ==
  outcome # None /\ outcome.ok =>
    /\ status = "success"
    /\ IF job.call = "invoice" THEN outcome.pr = [pr |-> "invoice", amount |-> job.amount]
       ELSE /\ job.kind \in {outcome.kind, "Unknown"}
            /\ outcome.kind = "Pay" =>
                 (outcome.zap.valid => outcome.zap.allowed /\ json.key = "valid")
            /\ outcome.kind = "Withdraw" =>
                 outcome.amount[1] <= outcome.amount[2] /\ json.blank = {}

\* Every stream closes with a Result, except for a channelRequest that was asked
\* for: its conversion panics and takes the Result along (lnurl.rs:299-305).
ClosedWithoutResult ==
  reader = "ended" =>
    \/ Last(seen) \in {"Ok", "Err"}
    \/ job.call = "resolve" /\ job.kind \in {"Channel", "Unknown"}
       /\ json # None /\ ResponseKind(json) = "Channel"

\* For a reader that left before the request was announced no request is made
\* (lnurl.rs:357, 404).
NoCallForNobody ==
  [](pc = "start" /\ reader = "gone" => [](pc \notin {"call", "answered", "body"}))

\* The task ends whatever the server and the reader do: the 20 seconds bound the
\* exchange, and the channel holds all its events, also for a reader that does not
\* read and does not leave; and one that goes on reading, as the server's collect does,
\* comes to the end of the stream (lnurl.rs:324, 362, server/src/main.rs:220).
TaskEnds == <>(pc = "done") /\ <>(reader # "reading")

\* The reader has seen the Result.
Closed == seen # <<>> /\ Last(seen) \in {"Ok", "Err"}

ShownSteps == IF Closed THEN Front(seen) ELSE seen

ShownResult ==
  IF ~Closed THEN "none" ELSE IF Last(seen) = "Ok" THEN "ok" ELSE "error"

Service ==
  INSTANCE JsonRpcService WITH
    Steps <- Progress, shown <- ShownSteps, result <- ShownResult

\* What the reader sees is what JsonRpcService promises: the steps in their order
\* and once, at most one Result, Ok only after all of them (lnurl.rs:314-321).
KeepsPromise == Service!Spec
=============================================================================
