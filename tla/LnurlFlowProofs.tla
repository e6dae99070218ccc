--------------------------- MODULE LnurlFlowProofs ---------------------------
(***************************************************************************)
(* Theorems about LnurlFlow for every set of amounts and every capacity of *)
(* the channel that the code's meets.                                      *)
(***************************************************************************)
EXTENDS LnurlFlow, SequenceTheorems, TLAPS

-----------------------------------------------------------------------------
(* The inductive invariant.                                                *)

\* The events sent so far, read or not.
Total == Len(seen) + Len(channel)

\* The i-th of them.
Sent(i) == IF i <= Len(seen) THEN seen[i] ELSE channel[i - Len(seen)]

\* How many steps a task has reported before it is at p.
Reported(p) ==
  CASE p = "start"                -> 0
    [] p \in {"call", "answered"} -> 1
    [] p \in {"body", "text"}     -> 2
    [] p \in {"parse", "parsed"}  -> 3
    [] OTHER                      -> 4

\* A step stands where it belongs, the Result at the very end, and an Ok after every
\* step.
EventsInOrder ==
  \A i \in 1..Total :
    \/ i <= Len(Progress) /\ Sent(i) = Progress[i]
    \/ /\ i = Total /\ pc = "done"
       /\ \/ Sent(i) = "Err"
          \/ Sent(i) = "Ok" /\ i = Len(Progress) + 1

\* ChannelResponse::try_from has ended the task.
Panicked ==
  /\ job.call = "resolve" /\ job.kind \in {"Channel", "Unknown"}
  /\ json # None /\ ResponseKind(json) = "Channel"

\* How many events there are, by the step the task is at; nothing is known of a reader
\* that has left.
EventsFollowSteps ==
  reader # "gone" =>
    /\ pc \notin {"finish", "done"} => Total = Reported(pc)
    /\ pc = "finish" => Total <= Len(Progress) /\ (outcome.ok => Total = Len(Progress))
    /\ pc = "done" => Panicked \/ (Total > 0 /\ Sent(Total) \in {"Ok", "Err"})

\* What the task knows at a step.
KnownAtStep ==
  /\ pc \notin {"finish", "done"} => outcome = None
  /\ pc \in {"parsed", "decode"} => status = "success" /\ json # None
  /\ pc = "finish" => outcome.ok \in BOOLEAN
  /\ reader = "ended" => pc = "done" /\ channel = <<>>

IInv ==
  TypeOK /\ EventsInOrder /\ EventsFollowSteps /\ KnownAtStep /\ OkIsWhatWasAsked

-----------------------------------------------------------------------------
(* The events.                                                             *)

LEMMA ProgressEvents ==
  /\ Len(Progress) = 4
  /\ Progress[1] = "Requesting" /\ Progress[2] = "ResponseReceived"
  /\ Progress[3] = "ResponseBodyReceived" /\ Progress[4] = "JsonParsed"
BY DEF Progress

LEMMA EventNames ==
  Event = {"Requesting", "ResponseReceived", "ResponseBodyReceived", "JsonParsed",
           "Ok", "Err"}
<1>1. Range(Progress) =
        {"Requesting", "ResponseReceived", "ResponseBodyReceived", "JsonParsed"}
  <2>1. DOMAIN Progress = {1, 2, 3, 4}
    BY DEF Progress
  <2> QED BY <2>1, ProgressEvents DEF Range
<1> QED BY <1>1 DEF Event

\* An event sent comes after those that were there.
LEMMA AppendEvent ==
  ASSUME seen \in Seq(Event), channel \in Seq(Event), NEW e \in Event,
         channel' = Append(channel, e), UNCHANGED seen
  PROVE  /\ Total \in Nat /\ Total' = Total + 1
         /\ \A i \in 1..Total : Sent(i)' = Sent(i)
         /\ \A i \in {Total + 1} : Sent(i)' = e
<1>1. /\ Len(channel') = Len(channel) + 1
      /\ \A i \in 1..Len(channel) : channel'[i] = channel[i]
      /\ channel'[Len(channel) + 1] = e
  BY AppendProperties
<1>2. Len(seen) \in Nat /\ Len(channel) \in Nat
  BY LenProperties
<1>3. Total \in Nat /\ Total' = Total + 1
  BY <1>1, <1>2 DEF Total
<1>4. \A i \in 1..Total : Sent(i)' = Sent(i)
  BY <1>1, <1>2 DEF Total, Sent
<1>5. \A i \in {Total + 1} : Sent(i)' = e
  BY <1>1, <1>2 DEF Total, Sent
<1> QED BY <1>3, <1>4, <1>5

\* Reading changes no event.
LEMMA ReadEvent ==
  ASSUME TypeOK, Read
  PROVE  /\ Total \in Nat /\ Total' = Total
         /\ \A i \in 1..Total : Sent(i)' = Sent(i)
<1>1. seen \in Seq(Event) /\ channel \in Seq(Event) /\ channel # <<>>
  BY DEF TypeOK, Read
<1>2. /\ Head(channel) \in Event /\ Head(channel) = channel[1]
      /\ Len(channel') = Len(channel) - 1
      /\ \A i \in 1..Len(channel') : channel'[i] = channel[i + 1]
  BY <1>1, HeadTailProperties DEF Read
<1>3. /\ Len(seen') = Len(seen) + 1
      /\ \A i \in 1..Len(seen) : seen'[i] = seen[i]
      /\ seen'[Len(seen) + 1] = channel[1]
  BY <1>1, <1>2, AppendProperties DEF Read
<1>4. Len(seen) \in Nat /\ Len(channel) \in Nat \ {0}
  BY <1>1, LenProperties, EmptySeq
<1> QED BY <1>2, <1>3, <1>4 DEF Total, Sent

\* What is lost with a reader that leaves is the end.
LEMMA LeaveEvents ==
  ASSUME TypeOK, Leave
  PROVE  /\ Total \in Nat /\ Total' \in Nat /\ Total' <= Total
         /\ \A i \in 1..Total' : Sent(i)' = Sent(i)
<1>1. Len(seen) \in Nat /\ Len(channel) \in Nat
  BY LenProperties DEF TypeOK
<1>2. Total' = Len(seen)
  BY <1>1, EmptySeq DEF Leave, Total
<1> QED BY <1>1, <1>2 DEF Total, Sent, Leave

LEMMA SameEvents ==
  ASSUME UNCHANGED <<seen, channel>>
  PROVE  Total' = Total /\ \A i \in 1..Total : Sent(i)' = Sent(i)
BY DEF Total, Sent

LEMMA TotalType == TypeOK => Total \in Nat
BY LenProperties DEF TypeOK, Total

-----------------------------------------------------------------------------
(* The initial states.                                                     *)

LEMMA InitInvariant == Init => IInv
<1> SUFFICES ASSUME Init PROVE IInv
  OBVIOUS
<1>1. TypeOK
  <2>1. <<>> \in Seq(Event) /\ Len(<<>>) = 0
    BY EmptySeq
  <2> QED BY <2>1, ConstantsAssumption DEF Init, TypeOK
<1>2. Total = 0
  BY EmptySeq DEF Init, Total
<1>3. EventsInOrder
  BY <1>2 DEF EventsInOrder
<1>4. EventsFollowSteps /\ KnownAtStep /\ OkIsWhatWasAsked
  BY <1>2 DEF Init, EventsFollowSteps, KnownAtStep, OkIsWhatWasAsked, Reported
<1> QED BY <1>1, <1>3, <1>4 DEF IInv

-----------------------------------------------------------------------------
(* The steps of the task.                                                  *)

\* A step that ends the exchange: the outcome is there, and no event.
LEMMA FinishStep ==
  ASSUME IInv, pc \notin {"finish", "done"}, NEW o, Finish(o), o.ok \in BOOLEAN,
         UNCHANGED <<status, json>>,
         o.ok => pc = "decode" /\ OkIsWhatWasAsked'
  PROVE  IInv'
<1> USE DEF IInv
<1>1. pc' = "finish" /\ outcome' = o /\ UNCHANGED <<job, channel, reader, seen>>
  BY DEF Finish
<1>2. TypeOK'
  BY <1>1 DEF TypeOK
<1>3. EventsInOrder'
  BY <1>1, SameEvents DEF EventsInOrder
<1>4. EventsFollowSteps'
  <2>1. Reported(pc) <= 4 /\ (pc = "decode" => Reported(pc) = 4)
    BY DEF Reported
  <2> QED BY <1>1, <2>1, SameEvents, ProgressEvents DEF EventsFollowSteps
<1>5. KnownAtStep'
  BY <1>1 DEF KnownAtStep
<1>6. OkIsWhatWasAsked'
  BY <1>1 DEF OkIsWhatWasAsked
<1> QED BY <1>2, <1>3, <1>4, <1>5, <1>6

LEMMA FailureStep ==
  ASSUME IInv, pc \notin {"finish", "done"}, Finish(Failure), UNCHANGED <<status, json>>
  PROVE  IInv'
<1>1. Failure.ok = FALSE
  BY DEF Failure
<1> QED BY <1>1, FinishStep

\* A step that moves the task on without an event.
LEMMA QuietStep ==
  ASSUME IInv, pc \notin {"finish", "done"}, NEW there \in {"answered", "text", "parsed"},
         pc' = there, Reported(pc) = Reported(there),
         UNCHANGED <<job, outcome, channel, reader, seen>>,
         status' \in {"success", "other", None}, json' \in Json(job) \cup {None},
         there = "parsed" => status' = "success" /\ json' # None
  PROVE  IInv'
<1> USE DEF IInv
<1>1. TypeOK'
  BY DEF TypeOK, Json
<1>2. EventsInOrder'
  BY SameEvents DEF EventsInOrder
<1>3. EventsFollowSteps'
  BY SameEvents DEF EventsFollowSteps
<1>4. KnownAtStep'
  BY DEF KnownAtStep
<1>5. OkIsWhatWasAsked'
  BY DEF OkIsWhatWasAsked, KnownAtStep
<1> QED BY <1>1, <1>2, <1>3, <1>4, <1>5

\* Reporting the next step, or finding that nobody reads.
LEMMA SendStep ==
  ASSUME IInv, NEW here \in {"start", "answered", "text", "parsed"},
         NEW there \in {"call", "body", "parse", "decode"},
         Send(Progress[Reported(here) + 1], here, there),
         Reported(there) = Reported(here) + 1,
         there = "decode" => here = "parsed"
  PROVE  IInv'
<1> DEFINE e == Progress[Reported(here) + 1]
<1>1. pc = here /\ Reported(here) \in 0..3 /\ e \in Event \ {"Ok", "Err"}
  <2>1. Reported(here) \in 0..3
    BY DEF Reported
  <2> QED BY <2>1, ProgressEvents, EventNames DEF Send
<1>2. CASE reader = "gone" /\ Finish(Failure) /\ UNCHANGED <<status, json>>
  BY <1>1, <1>2, FailureStep
<1>3. CASE /\ reader # "gone" /\ Len(channel) < Capacity
           /\ channel' = Append(channel, e)
           /\ pc' = there
           /\ UNCHANGED <<job, status, json, outcome, reader, seen>>
  <2> USE DEF IInv
  <2>1. /\ Total \in Nat /\ Total' = Total + 1
        /\ \A i \in 1..Total : Sent(i)' = Sent(i)
        /\ \A i \in {Total + 1} : Sent(i)' = e
    BY <1>1, <1>3, AppendEvent DEF TypeOK
  <2>2. Total = Reported(here)
    BY <1>1, <1>3 DEF EventsFollowSteps
  <2>3. TypeOK'
    <3>1. channel' \in Seq(Event) /\ Len(channel') = Len(channel) + 1
      BY <1>1, <1>3, AppendProperties DEF TypeOK
    <3>2. Len(channel) \in Nat /\ Capacity \in Nat
      BY ConstantsAssumption, LenProperties DEF TypeOK
    <3> QED BY <1>3, <3>1, <3>2 DEF TypeOK
  <2>4. EventsInOrder'
    <3> SUFFICES ASSUME NEW i \in 1..Total + 1
                 PROVE  i <= Len(Progress) /\ Sent(i)' = Progress[i]
      BY <2>1 DEF EventsInOrder
    <3>1. CASE i = Total + 1
      BY <1>1, <2>1, <2>2, <3>1, ProgressEvents
    <3>2. CASE i \in 1..Total
      BY <1>1, <2>1, <3>2 DEF EventsInOrder
    <3> QED BY <2>1, <3>1, <3>2
  <2>5. EventsFollowSteps'
    BY <1>3, <2>1, <2>2 DEF EventsFollowSteps
  <2>6. KnownAtStep' /\ OkIsWhatWasAsked'
    BY <1>1, <1>3 DEF KnownAtStep, OkIsWhatWasAsked
  <2> QED BY <2>3, <2>4, <2>5, <2>6
<1> QED BY <1>2, <1>3 DEF Send

LEMMA ReportSteps ==
  ASSUME IInv, ReportRequest \/ ReportStatus \/ ReportBody \/ ReportJson
  PROVE  IInv'
<1>1. /\ Reported("start") = 0 /\ Reported("call") = 1
      /\ Reported("answered") = 1 /\ Reported("body") = 2
      /\ Reported("text") = 2 /\ Reported("parse") = 3
      /\ Reported("parsed") = 3 /\ Reported("decode") = 4
  BY DEF Reported
<1>2. CASE ReportRequest
  BY <1>1, <1>2, ProgressEvents, SendStep DEF ReportRequest
<1>3. CASE ReportStatus
  BY <1>1, <1>3, ProgressEvents, SendStep DEF ReportStatus
<1>4. CASE ReportBody
  BY <1>1, <1>4, ProgressEvents, SendStep DEF ReportBody
<1>5. CASE ReportJson
  BY <1>1, <1>5, ProgressEvents, SendStep DEF ReportJson
<1> QED BY <1>2, <1>3, <1>4, <1>5

LEMMA ExchangeSteps ==
  ASSUME IInv, Answer \/ ReceiveBody \/ HttpFails \/ TimesOut \/ ParseJson
  PROVE  IInv'
<1>1. CASE Answer
  BY <1>1, QuietStep DEF Answer, Reported, IInv, TypeOK
<1>2. CASE ReceiveBody
  BY <1>2, QuietStep DEF ReceiveBody, Reported, IInv, TypeOK
<1>3. CASE HttpFails
  BY <1>3, FailureStep DEF HttpFails
<1>4. CASE TimesOut
  BY <1>4, FailureStep DEF TimesOut
<1>5. CASE ParseJson
  <2>1. CASE Finish(Failure)
    BY <1>5, <2>1, FailureStep DEF ParseJson
  <2>2. CASE pc' = "parsed"
    <3>1. /\ pc = "parse" /\ status = "success" /\ json # None
          /\ UNCHANGED <<job, outcome, channel, reader, seen, status, json>>
      BY <1>5, <2>2 DEF ParseJson, Finish
    <3> QED BY <2>2, <3>1, QuietStep DEF Reported, IInv, TypeOK
  <2> QED BY <1>5, <2>1, <2>2 DEF ParseJson
<1> QED BY <1>1, <1>2, <1>3, <1>4, <1>5

-----------------------------------------------------------------------------
(* What is made of a body is what was asked, or no Ok.                     *)

\* Which record a body is, by its tag.
LEMMA KindOfBody ==
  ASSUME job.call = "resolve", json \in Json(job), NEW kind, kind = ResponseKind(json)
  PROVE  /\ kind = "Pay" => json \in PayJson
         /\ kind = "Withdraw" => json \in WithdrawJson
         /\ kind = "Channel" => json \in ChannelJson
<1>1. json \in PayJson \cup WithdrawJson \cup ChannelJson \cup OtherJson
  BY DEF Json
<1>2. CASE json \in PayJson
  <2>1. json.tag = "payRequest"
    BY <1>2 DEF PayJson
  <2> QED BY <1>2, <2>1 DEF ResponseKind
<1>3. CASE json \in WithdrawJson
  <2>1. json.tag = "withdrawRequest"
    BY <1>3 DEF WithdrawJson
  <2> QED BY <1>3, <2>1 DEF ResponseKind
<1>4. CASE json \in ChannelJson
  <2>1. json.tag = "channelRequest"
    BY <1>4 DEF ChannelJson
  <2> QED BY <1>4, <2>1 DEF ResponseKind
<1>5. CASE json \in OtherJson
  <2>1. json.tag \in {"other", None}
    BY <1>5 DEF OtherJson
  <2>2. kind = None
    BY <2>1, NoneAssumption DEF ResponseKind
  <2> QED BY <2>2, NoneAssumption DEF LnUrlKind
<1> QED BY <1>1, <1>2, <1>3, <1>4, <1>5

\* An Ok is one of the two that can be shown, and only of its kind.
LEMMA ResolvedIsAsked ==
  ASSUME TypeOK, KnownAtStep, pc = "decode", job.call = "resolve",
         NEW kind, kind = ResponseKind(json), kind \in ExpectedKinds(job.kind),
         NEW o, \/ kind = "Pay" /\ o = PayResponse(json)
                \/ kind = "Withdraw" /\ o = WithdrawalResponse(json),
         outcome' = o, UNCHANGED <<job, status, json>>
  PROVE  o.ok \in BOOLEAN /\ OkIsWhatWasAsked'
<1>1. job.kind \in {kind, "Unknown"} /\ status = "success" /\ json \in Json(job)
  BY DEF ExpectedKinds, KnownAtStep, TypeOK
<1>2. CASE kind = "Pay" /\ o = PayResponse(json)
  <2>1. json \in PayJson
    BY <1>1, <1>2, KindOfBody
  <2>2. json.fits \in BOOLEAN
    BY <2>1 DEF PayJson
  <2>3. CASE json.fits /\ json.metadata = "valid"
    <3>1. o = [ok |-> TRUE, kind |-> "Pay", zap |-> ZapSupport(json),
               amount |-> <<json.min, json.max>>]
      BY <1>2, <2>3 DEF PayResponse
    <3>2. ZapSupport(json).valid => ZapSupport(json).allowed /\ json.key = "valid"
      <4>1. CASE json.allows = TRUE /\ json.key = "valid"
        <5>1. ZapSupport(json).allowed = TRUE
          BY <4>1 DEF ZapSupport
        <5> QED BY <4>1, <5>1
      <4>2. CASE json.allows = TRUE /\ json.key # "valid"
        <5>1. (json.key = "valid") = FALSE
          BY <4>2
        <5>2. ZapSupport(json) =
                [allowed |-> TRUE, nostr_pubkey |-> json.key, valid |-> FALSE]
          BY <4>2, <5>1, Zenon DEF ZapSupport
        <5> QED BY <5>2
      <4>3. CASE json.allows # TRUE
        <5>1. ZapSupport(json).valid = FALSE
          BY <4>3 DEF ZapSupport
        <5> QED BY <5>1
      <4> QED BY <4>1, <4>2, <4>3
    <3>3. o.ok = TRUE /\ o.kind = "Pay" /\ o.zap = ZapSupport(json)
      BY <3>1
    <3>4. outcome'.zap.valid => outcome'.zap.allowed /\ json'.key = "valid"
      BY <3>2, <3>3
    <3> QED BY <1>1, <1>2, <3>3, <3>4 DEF OkIsWhatWasAsked
  <2>4. CASE ~(json.fits /\ json.metadata = "valid")
    BY <1>2, <2>4 DEF PayResponse, Failure, OkIsWhatWasAsked
  <2> QED BY <2>3, <2>4
<1>3. CASE kind = "Withdraw" /\ o = WithdrawalResponse(json)
  <2>1. CASE json.fits /\ json.blank = {} /\ Least(json) <= json.max
    <3>1. o = [ok |-> TRUE, kind |-> "Withdraw", amount |-> <<Least(json), json.max>>]
      BY <1>3, <2>1 DEF WithdrawalResponse
    <3> QED BY <1>1, <1>3, <2>1, <3>1 DEF OkIsWhatWasAsked
  <2>2. CASE ~(json.fits /\ json.blank = {} /\ Least(json) <= json.max)
    BY <1>3, <2>2 DEF WithdrawalResponse, Failure, OkIsWhatWasAsked
  <2> QED BY <2>1, <2>2
<1> QED BY <1>2, <1>3

LEMMA DecodeLnurlStep ==
  ASSUME IInv, DecodeLnurl
  PROVE  IInv'
<1> DEFINE kind == ResponseKind(json)
<1>1. pc = "decode" /\ job.call = "resolve" /\ UNCHANGED <<status, json>>
  BY DEF DecodeLnurl
<1>2. CASE Finish(Failure)
  BY <1>1, <1>2, FailureStep
<1>3. CASE kind \in ExpectedKinds(job.kind) /\ kind = "Pay" /\ Finish(PayResponse(json))
  <2>1. outcome' = PayResponse(json) /\ UNCHANGED job
    BY <1>3 DEF Finish
  <2>2. PayResponse(json).ok \in BOOLEAN /\ OkIsWhatWasAsked'
    BY <1>1, <1>3, <2>1, ResolvedIsAsked DEF IInv
  <2> QED BY <1>1, <1>3, <2>2, FinishStep
<1>4. CASE /\ kind \in ExpectedKinds(job.kind) /\ kind = "Withdraw"
           /\ Finish(WithdrawalResponse(json))
  <2>1. outcome' = WithdrawalResponse(json) /\ UNCHANGED job
    BY <1>4 DEF Finish
  <2>2. WithdrawalResponse(json).ok \in BOOLEAN /\ OkIsWhatWasAsked'
    BY <1>1, <1>4, <2>1, ResolvedIsAsked DEF IInv
  <2> QED BY <1>1, <1>4, <2>2, FinishStep
<1>5. CASE kind \in ExpectedKinds(job.kind) /\ kind = "Channel" /\ Panic
  <2> USE DEF IInv
  <2>1. pc' = "done" /\ UNCHANGED <<job, outcome, channel, reader, seen>>
    BY <1>5 DEF Panic
  <2>2. Panicked'
    BY <1>1, <1>5, <2>1 DEF Panicked, ExpectedKinds, KnownAtStep
  <2>3. TypeOK'
    BY <1>1, <2>1 DEF TypeOK
  <2>4. EventsInOrder'
    BY <1>1, <2>1, SameEvents DEF EventsInOrder
  <2>5. EventsFollowSteps'
    BY <2>1, <2>2 DEF EventsFollowSteps
  <2>6. KnownAtStep' /\ OkIsWhatWasAsked'
    BY <1>1, <2>1 DEF KnownAtStep, OkIsWhatWasAsked
  <2> QED BY <2>3, <2>4, <2>5, <2>6
<1> QED BY <1>2, <1>3, <1>4, <1>5 DEF DecodeLnurl

LEMMA DecodeInvoiceStep ==
  ASSUME IInv, DecodeInvoice
  PROVE  IInv'
<1> DEFINE o == VerifyInvoice(json, job.amount)
<1>1. /\ pc = "decode" /\ job.call = "invoice" /\ Finish(o)
      /\ UNCHANGED <<status, json>>
  BY DEF DecodeInvoice
<1>2. outcome' = o /\ UNCHANGED job
  BY <1>1 DEF Finish
<1>3. status = "success" /\ json \in InvoiceJson
  BY <1>1 DEF IInv, TypeOK, KnownAtStep, Json
<1>4. CASE json.pr = "invoice" /\ json.amount = job.amount
  <2>1. o = [ok |-> TRUE, pr |-> json]
    BY <1>4 DEF VerifyInvoice
  <2>2. json = [pr |-> "invoice", amount |-> job.amount]
    BY <1>3, <1>4 DEF InvoiceJson
  <2>3. OkIsWhatWasAsked'
    BY <1>1, <1>2, <1>3, <2>1, <2>2 DEF OkIsWhatWasAsked
  <2> QED BY <1>1, <2>1, <2>3, FinishStep
<1>5. CASE ~(json.pr = "invoice" /\ json.amount = job.amount)
  BY <1>1, <1>5, FailureStep DEF VerifyInvoice
<1> QED BY <1>4, <1>5

LEMMA SendResultStep ==
  ASSUME IInv, SendResult
  PROVE  IInv'
<1> USE DEF IInv
<1>1. /\ pc = "finish" /\ pc' = "done" /\ outcome.ok \in BOOLEAN
      /\ UNCHANGED <<job, status, json, outcome, reader, seen>>
  BY DEF SendResult, KnownAtStep
<1>2. KnownAtStep' /\ OkIsWhatWasAsked'
  BY <1>1 DEF KnownAtStep, OkIsWhatWasAsked
<1>3. CASE reader = "gone"
  <2>1. UNCHANGED channel
    BY <1>3 DEF SendResult
  <2>2. TypeOK' /\ EventsFollowSteps'
    BY <1>1, <1>3, <2>1 DEF TypeOK, EventsFollowSteps
  <2>3. EventsInOrder'
    BY <1>1, <2>1, SameEvents DEF EventsInOrder
  <2> QED BY <1>2, <2>2, <2>3
<1>4. CASE reader # "gone"
  <2> DEFINE e == IF outcome.ok THEN "Ok" ELSE "Err"
  <2>1. channel' = Append(channel, e) /\ Len(channel) < Capacity /\ e \in Event
    BY <1>4, EventNames DEF SendResult
  <2>2. /\ Total \in Nat /\ Total' = Total + 1
        /\ \A i \in 1..Total : Sent(i)' = Sent(i)
        /\ \A i \in {Total + 1} : Sent(i)' = e
    BY <1>1, <2>1, AppendEvent DEF TypeOK
  <2>3. Total <= Len(Progress) /\ (outcome.ok => Total = Len(Progress))
    BY <1>1, <1>4 DEF EventsFollowSteps
  <2>4. TypeOK'
    <3>1. channel' \in Seq(Event) /\ Len(channel') = Len(channel) + 1
      BY <2>1, AppendProperties DEF TypeOK
    <3>2. Len(channel) \in Nat /\ Capacity \in Nat
      BY ConstantsAssumption, LenProperties DEF TypeOK
    <3> QED BY <1>1, <2>1, <3>1, <3>2 DEF TypeOK
  <2>5. EventsInOrder'
    <3> SUFFICES ASSUME NEW i \in 1..Total + 1
                 PROVE  \/ i <= Len(Progress) /\ Sent(i)' = Progress[i]
                        \/ /\ i = Total + 1
                           /\ \/ Sent(i)' = "Err"
                              \/ Sent(i)' = "Ok" /\ i = Len(Progress) + 1
      BY <1>1, <2>2 DEF EventsInOrder
    <3>1. CASE i = Total + 1
      BY <2>2, <2>3, <3>1
    <3>2. CASE i \in 1..Total
      BY <1>1, <2>2, <3>2 DEF EventsInOrder
    <3> QED BY <2>2, <3>1, <3>2
  <2>6. EventsFollowSteps'
    <3>1. (Sent(Total) \in {"Ok", "Err"} /\ Total > 0)'
      BY <2>2 DEF Sent
    <3> QED BY <1>1, <3>1 DEF EventsFollowSteps
  <2> QED BY <1>2, <2>4, <2>5, <2>6
<1> QED BY <1>3, <1>4

-----------------------------------------------------------------------------
(* The steps of the reader.                                                *)

LEMMA ReadStep ==
  ASSUME IInv, Read
  PROVE  IInv'
<1> USE DEF IInv
<1>1. /\ UNCHANGED <<job, pc, status, json, outcome, reader>>
      /\ reader = "reading" /\ channel # <<>>
  BY DEF Read
<1>2. TypeOK'
  <2>1. /\ Head(channel) \in Event /\ channel' \in Seq(Event)
        /\ Len(channel') = Len(channel) - 1
    BY <1>1, HeadTailProperties DEF TypeOK, Read
  <2>2. seen' \in Seq(Event)
    BY <2>1, AppendProperties DEF TypeOK, Read
  <2>3. Len(channel) \in Nat /\ Capacity \in Nat
    BY ConstantsAssumption, LenProperties DEF TypeOK
  <2> QED BY <1>1, <2>1, <2>2, <2>3 DEF TypeOK
<1>3. EventsInOrder'
  BY <1>1, ReadEvent DEF EventsInOrder
<1>4. EventsFollowSteps'
  <2>1. Total > 0 => Sent(Total)' = Sent(Total)
    <3>1. \A i \in 1..Total : i = Total' => Sent(i)' = Sent(Total)'
      BY DEF Sent
    <3> QED BY <3>1, ReadEvent
  <2>2. Panicked' <=> Panicked
    BY <1>1 DEF Panicked
  <2> QED BY <1>1, <2>1, <2>2, ReadEvent DEF EventsFollowSteps
<1>5. KnownAtStep' /\ OkIsWhatWasAsked'
  BY <1>1 DEF KnownAtStep, OkIsWhatWasAsked
<1> QED BY <1>2, <1>3, <1>4, <1>5

LEMMA ReaderSteps ==
  ASSUME IInv, EndOfStream \/ Stall \/ Leave
  PROVE  IInv'
<1> USE DEF IInv
<1>1. UNCHANGED <<job, pc, status, json, outcome, seen>> /\ reader # "gone"
  BY DEF EndOfStream, Stall, Leave
<1>2. OkIsWhatWasAsked'
  BY <1>1 DEF OkIsWhatWasAsked
<1>3. CASE EndOfStream \/ Stall
  <2>1. UNCHANGED channel /\ reader' \in {"ended", "stalled"}
    BY <1>3 DEF EndOfStream, Stall
  <2>2. TypeOK' /\ EventsFollowSteps'
    BY <1>1, <2>1, SameEvents DEF TypeOK, EventsFollowSteps, Panicked, Sent
  <2>3. EventsInOrder'
    BY <1>1, <2>1, SameEvents DEF EventsInOrder
  <2>4. KnownAtStep'
    BY <1>1, <1>3, <2>1 DEF KnownAtStep, EndOfStream, Stall
  <2> QED BY <1>2, <2>2, <2>3, <2>4
<1>4. CASE Leave
  <2>1. channel' = <<>> /\ reader' = "gone"
    BY <1>4 DEF Leave
  <2>2. TypeOK'
    BY <1>1, <2>1, EmptySeq, ConstantsAssumption DEF TypeOK
  <2>3. EventsInOrder'
    BY <1>1, <1>4, LeaveEvents DEF EventsInOrder
  <2>4. EventsFollowSteps' /\ KnownAtStep'
    BY <1>1, <2>1 DEF EventsFollowSteps, KnownAtStep
  <2> QED BY <1>2, <2>2, <2>3, <2>4
<1> QED BY <1>3, <1>4

LEMMA StutterStep ==
  ASSUME IInv, UNCHANGED vars
  PROVE  IInv'
<1> USE DEF IInv, vars
<1>1. TypeOK' /\ KnownAtStep' /\ OkIsWhatWasAsked'
  BY DEF TypeOK, KnownAtStep, OkIsWhatWasAsked
<1>2. EventsInOrder'
  BY SameEvents DEF EventsInOrder
<1>3. EventsFollowSteps'
  BY SameEvents DEF EventsFollowSteps, Panicked, Sent
<1> QED BY <1>1, <1>2, <1>3

LEMMA NextInvariant == IInv /\ [Next]_vars => IInv'
BY ReportSteps, ExchangeSteps, DecodeLnurlStep, DecodeInvoiceStep, SendResultStep,
   ReadStep, ReaderSteps, StutterStep DEF Next, Task

-----------------------------------------------------------------------------
(* The invariants and the action property.                                 *)

THEOREM Invariance == Spec => []IInv
<1>1. Init => IInv
  BY InitInvariant
<1>2. IInv /\ [Next]_vars => IInv'
  BY NextInvariant
<1> QED BY <1>1, <1>2, PTL DEF Spec

\* The types of the task, its channel and its reader.
THEOREM TypeCorrect == Spec => []TypeOK
<1>1. IInv => TypeOK
  BY DEF IInv
<1> QED BY <1>1, Invariance, PTL

\* Whatever the server sends, an Ok is an answer to what was asked: of the kind that was
\* announced, for a withdrawal with a range that is not empty, for an invoice over the
\* amount asked (lnurl.rs:374-454).  The bounds of a pay response may be in any order.
THEOREM OkAnswersTheQuestion == Spec => []OkIsWhatWasAsked
<1>1. IInv => OkIsWhatWasAsked
  BY DEF IInv
<1> QED BY <1>1, Invariance, PTL

\* A stream that ends without a Result is one whose channelRequest was asked for, and
\* no other (lnurl.rs:299-305).
THEOREM StreamsCloseWithResult == Spec => []ClosedWithoutResult
<1>1. IInv => ClosedWithoutResult
  <2> SUFFICES ASSUME IInv, reader = "ended", ~Panicked
               PROVE  Last(seen) \in {"Ok", "Err"}
    BY DEF ClosedWithoutResult, Panicked
  <2>1. channel = <<>> /\ Total > 0 /\ Sent(Total) \in {"Ok", "Err"}
    BY DEF IInv, KnownAtStep, EventsFollowSteps
  <2>2. Len(seen) \in Nat /\ Total = Len(seen)
    BY <2>1, LenProperties, EmptySeq DEF IInv, TypeOK, Total
  <2> QED BY <2>1, <2>2 DEF Sent, Last
<1> QED BY <1>1, Invariance, PTL

\* For a reader that left before the request was announced none is made, ever
\* (lnurl.rs:357, 404).
THEOREM NobodyIsNotCalledFor == Spec => NoCallForNobody
<1> DEFINE Over == reader = "gone" /\ pc \in {"start", "finish", "done"}
<1>1. pc = "start" /\ reader = "gone" => Over
  OBVIOUS
<1>2. Over /\ [Next]_vars => Over'
  BY DEF Next, Task, ReportRequest, ReportStatus, ReportBody, ReportJson, Send, Finish,
         TimesOut, ParseJson, DecodeLnurl, DecodeInvoice, SendResult, Panic, Answer,
         ReceiveBody, HttpFails, Read, EndOfStream, Stall, Leave, vars
<1>3. Over => pc \notin {"call", "answered", "body"}
  OBVIOUS
<1> QED BY <1>1, <1>2, <1>3, PTL DEF Spec, NoCallForNobody

-----------------------------------------------------------------------------
(* The task and its reader implement JsonRpcService.                       *)

\* Before a reader takes an event it has seen no Result, and the event is either the
\* step it is waiting for or the Result.
LEMMA NextEvent ==
  ASSUME IInv, Read, NEW e, e = Head(channel)
  PROVE  /\ seen \in Seq(Event) /\ e \in Event
         /\ ~Closed
         /\ \A i \in 1..Len(seen) : i <= Len(Progress) /\ seen[i] = Progress[i]
         /\ \/ Len(seen) < Len(Progress) /\ e = Progress[Len(seen) + 1]
            \/ e = "Err"
            \/ e = "Ok" /\ Len(seen) = Len(Progress)
<1>1. seen \in Seq(Event) /\ channel \in Seq(Event) /\ channel # <<>>
  BY DEF IInv, TypeOK, Read
<1>2. Len(seen) \in Nat /\ Len(channel) \in Nat \ {0} /\ e = channel[1] /\ e \in Event
  BY <1>1, LenProperties, EmptySeq, HeadTailProperties
<1>3. \A i \in 1..Len(seen) : i \in 1..Total /\ i # Total /\ Sent(i) = seen[i]
  BY <1>2 DEF Total, Sent
<1>4. \A i \in 1..Len(seen) : i <= Len(Progress) /\ seen[i] = Progress[i]
  BY <1>3 DEF IInv, EventsInOrder
<1>5. ~Closed
  <2>1. \A i \in 1..4 : Progress[i] \notin {"Ok", "Err"}
    BY ProgressEvents
  <2>2. CASE seen # <<>>
    <3>1. Len(seen) \in 1..Len(seen)
      BY <1>1, <2>2, EmptySeq
    <3> QED BY <1>4, <2>1, <3>1, ProgressEvents DEF Closed, Last
  <2> QED BY <2>2 DEF Closed
<1>6. Len(seen) + 1 \in 1..Total /\ Sent(Len(seen) + 1) = e
  BY <1>2 DEF Total, Sent
<1>7. \/ Len(seen) < Len(Progress) /\ e = Progress[Len(seen) + 1]
      \/ e = "Err"
      \/ e = "Ok" /\ Len(seen) = Len(Progress)
  <2> DEFINE n == Len(seen) + 1
  <2>1. n \in 1..Total /\ Sent(n) = e
    BY <1>6
  <2>2. \/ n <= Len(Progress) /\ e = Progress[n]
        \/ e = "Err"
        \/ e = "Ok" /\ n = Len(Progress) + 1
    <3> HIDE DEF n
    <3> QED BY <2>1 DEF IInv, EventsInOrder
  <2>3. CASE n <= Len(Progress) /\ e = Progress[n]
    BY <1>2, <2>3, ProgressEvents
  <2>4. CASE e = "Ok" /\ n = Len(Progress) + 1
    <3>1. \A k \in Nat : k + 1 = 4 + 1 => k = 4
      OBVIOUS
    <3>2. Len(seen) = 4
      BY <1>2, <2>4, <3>1, ProgressEvents
    <3> QED BY <2>4, <3>2, ProgressEvents
  <2> QED BY <2>2, <2>3, <2>4
<1> QED BY <1>1, <1>2, <1>4, <1>5, <1>7

\* Reading a step shows it, and reading the Result closes the stream.
LEMMA ReadRefines ==
  ASSUME IInv, Read
  PROVE  Service!Next
<1> DEFINE e == Head(channel)
<1>1. /\ seen \in Seq(Event) /\ e \in Event /\ ~Closed
      /\ \A i \in 1..Len(seen) : i <= Len(Progress) /\ seen[i] = Progress[i]
      /\ \/ Len(seen) < Len(Progress) /\ e = Progress[Len(seen) + 1]
         \/ e = "Err"
         \/ e = "Ok" /\ Len(seen) = Len(Progress)
  BY NextEvent
<1>2. seen' = Append(seen, e)
  BY DEF Read
<1>3. /\ Len(seen) \in Nat /\ Len(seen') = Len(seen) + 1
      /\ seen' # <<>> /\ Last(seen') = e
  BY <1>1, <1>2, LenProperties, AppendProperties DEF Last
<1>4. Front(seen') = seen
  <2>1. Front(seen') = SubSeq(seen', 1, Len(seen))
    BY <1>3 DEF Front
  <2>2. /\ seen' \in Seq(Event)
        /\ \A i \in 1..Len(seen) : seen'[i] = seen[i] /\ seen'[i] \in Event
    BY <1>1, <1>2, AppendProperties, ElementOfSeq
  <2>3. /\ SubSeq(seen', 1, Len(seen)) \in Seq(Event)
        /\ Len(SubSeq(seen', 1, Len(seen))) = Len(seen)
        /\ \A i \in 1..Len(seen) : SubSeq(seen', 1, Len(seen))[i] = seen'[i]
    BY <1>3, <2>2, SubSeqProperties
  <2> QED BY <1>1, <2>1, <2>2, <2>3, SeqEqual
<1>5. CASE Len(seen) < Len(Progress) /\ e = Progress[Len(seen) + 1]
  <2>1. e \notin {"Ok", "Err"}
    BY <1>3, <1>5, ProgressEvents
  <2>2. ~Closed'
    BY <1>3, <2>1 DEF Closed
  <2>3. /\ ShownSteps = seen /\ ShownResult = "none"
        /\ ShownSteps' = seen' /\ ShownResult' = "none"
    BY <1>1, <2>2 DEF ShownSteps, ShownResult
  <2> QED BY <1>2, <1>5, <2>3 DEF Service!Next, Service!Show
<1>6. CASE e \in {"Ok", "Err"}
  <2>1. Closed'
    BY <1>3, <1>6 DEF Closed
  <2>2. e = "Ok" => seen = Progress
    <3> SUFFICES ASSUME e = "Ok" PROVE seen = Progress
      OBVIOUS
    <3>1. Len(seen) = Len(Progress)
      BY <1>1, <1>3, ProgressEvents
    <3>2. Progress \in Seq(Event)
      BY EventNames DEF Progress
    <3> QED BY <1>1, <3>1, <3>2, SeqEqual
  <2>3. ShownSteps = seen /\ ShownResult = "none"
    BY <1>1 DEF ShownSteps, ShownResult
  <2>4. /\ ShownSteps' = seen
        /\ ShownResult' = IF e = "Ok" THEN "ok" ELSE "error"
    BY <1>3, <1>4, <2>1 DEF ShownSteps, ShownResult
  <2> QED BY <2>2, <2>3, <2>4 DEF Service!Next, Service!Close
<1> QED BY <1>1, <1>5, <1>6

\* What a reader sees is what JsonRpcService promises: the steps in their order and
\* once, at most one Result, Ok only after all of them (lnurl.rs:314-321).
THEOREM Refinement == Spec => KeepsPromise
<1>1. Init => Service!Init
  <2>1. Init => ~Closed /\ seen = <<>>
    BY DEF Init, Closed
  <2> QED BY <2>1 DEF Service!Init, ShownSteps, ShownResult
<1>2. IInv /\ [Next]_vars => [Service!Next]_(Service!vars)
  <2> SUFFICES ASSUME IInv, [Next]_vars
               PROVE  Service!Next \/ UNCHANGED seen
    BY DEF Service!vars, ShownSteps, ShownResult, Closed
  <2>1. CASE Read
    BY <2>1, ReadRefines
  <2>2. CASE Task
    BY <2>2 DEF Task, ReportRequest, ReportStatus, ReportBody, ReportJson, Send, Finish,
                TimesOut, ParseJson, DecodeLnurl, DecodeInvoice, SendResult, Panic
  <2>3. CASE Answer \/ ReceiveBody \/ HttpFails
    BY <2>3 DEF Answer, ReceiveBody, HttpFails, Finish
  <2>4. CASE EndOfStream \/ Stall \/ Leave \/ UNCHANGED vars
    BY <2>4 DEF EndOfStream, Stall, Leave, vars
  <2> QED BY <2>1, <2>2, <2>3, <2>4 DEF Next
<1> QED BY <1>1, <1>2, Invariance, PTL DEF Spec, KeepsPromise, Service!Spec
=============================================================================
