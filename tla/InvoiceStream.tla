--------------------------- MODULE InvoiceStream ---------------------------
(***************************************************************************)
(* How the page asks for an invoice.  A POST leaves the form's input in    *)
(* OFFER_REQUESTS or LNURL_REQUESTS (server/src/main.rs) and answers with  *)
(* a stream div; the sse extension (server/static/vendor/htmx-sse.js)      *)
(* opens an EventSource for the div; its GET takes the input out of the    *)
(* store and streams what the task it starts reports.  The extension never *)
(* closes an EventSource whose div is still there, so the browser connects *)
(* again whenever a stream ends or breaks, and is stopped by a 404.        *)
(*                                                                         *)
(* A request is named by its random id.  The task is reduced to how many   *)
(* events it has sent; OnionRequest says what goes on inside.  Results of  *)
(* the main form are numbered; the last one is in the document.            *)
(***************************************************************************)
EXTENDS Naturals, Sequences

CONSTANTS
  Ids,          \* ids that generate_id gives
  Offers,       \* ids of BOLT-12 forms; the others are LNURL forms
  MaxEvents,    \* bound: progress events of a task
  MaxRestarts,  \* bound: restarts of the server
  MaxResults    \* bound: results of the main form

VARIABLES
  stored,    \* ids in the request stores
  runs,      \* how many tasks were started for an id
  task,      \* the task of an id
  sent,      \* how many events the task has sent
  body,      \* the response body: events on their way to the browser
  link,      \* the response the browser is reading
  result,    \* the number of the result in the document
  area,      \* the result the form of an id is part of
  form,      \* the form and the div its answer brings
  source,    \* readyState of the EventSource of the div
  shown,     \* events appended to the div
  progress,  \* whether the div has its progress bar
  restarts

server == <<stored, runs, task, sent, restarts>>
page   == <<result, area, form, source, shown, progress>>
vars   == <<server, body, link, page>>

ASSUME ConstantsAssumption ==
  /\ Offers \subseteq Ids
  /\ MaxEvents \in Nat /\ MaxRestarts \in Nat /\ MaxResults \in Nat

Event == [index : Nat, kind : {"progress", "result", "error"}]

TypeOK ==
  /\ stored \subseteq Ids
  /\ runs \in [Ids -> Nat]
  /\ task \in [Ids -> {"none", "running", "ended", "killed"}]
  /\ sent \in [Ids -> Nat]
  /\ body \in [Ids -> Seq(Event)]
  /\ link \in [Ids -> {"none", "up", "ended", "lost"}]
  /\ result \in Nat
  /\ area \in [Ids -> Nat]
  /\ form \in [Ids -> {"new", "posted", "answered", "failed", "shown", "gone"}]
  /\ source \in [Ids -> {"none", "connecting", "open", "closed"}]
  /\ shown \in [Ids -> Seq(Event)]
  /\ progress \in [Ids -> BOOLEAN]
  /\ restarts \in Nat

Init ==
  /\ stored = {}
  /\ runs = [id \in Ids |-> 0]
  /\ task = [id \in Ids |-> "none"]
  /\ sent = [id \in Ids |-> 0]
  /\ body = [id \in Ids |-> <<>>]
  /\ link = [id \in Ids |-> "none"]
  /\ result = 0
  /\ area = [id \in Ids |-> 0]
  /\ form = [id \in Ids |-> "new"]
  /\ source = [id \in Ids |-> "none"]
  /\ shown = [id \in Ids |-> <<>>]
  /\ progress = [id \in Ids |-> FALSE]
  /\ restarts = 0

-----------------------------------------------------------------------------
(* The form.  htmx has one request of a form in flight at a time.          *)

Submit(id) ==
  /\ form[id] = "new"
  /\ \A other \in Ids :
       form[other] \in {"posted", "answered"} => area[other] # result
  /\ form' = [form EXCEPT ![id] = "posted"]
  /\ area' = [area EXCEPT ![id] = result]
  /\ UNCHANGED <<server, body, link, result, source, shown, progress>>

\* Mutant of StoreRequest: the input is stored under its URL.
StoreUnderUrl(id) ==
  /\ form[id] = "posted"
  /\ stored' = stored \cup {<<"stream?id=", id>>}
  /\ form' = [form EXCEPT ![id] = "answered"]
  /\ UNCHANGED <<runs, task, sent, restarts, body, link, result, area, source, shown,
                 progress>>

\* request_invoice and request_offer_invoice.
StoreRequest(id) ==
  /\ form[id] = "posted"
  /\ stored' = stored \cup {id}
  /\ form' = [form EXCEPT ![id] = "answered"]
  /\ UNCHANGED <<runs, task, sent, restarts, body, link, result, area, source, shown,
                 progress>>

\* The POST or its answer is lost; what was stored stays.
PostFails(id) ==
  /\ form[id] \in {"posted", "answered"}
  /\ form' = [form EXCEPT ![id] = "failed"]
  /\ UNCHANGED <<server, body, link, result, area, source, shown, progress>>

-----------------------------------------------------------------------------
(* The div and its EventSource.                                            *)

\* The divs in a result, at most one; those of the last result are in the document.
Divs(n) == {id \in Ids : form[id] = "shown" /\ area[id] = n}

\* connectSource for the divs `new` and disconnectSource for the divs `old` that htmx
\* takes out: nobody reads their responses any longer.
Rewire(new, old) ==
  /\ source' = [id \in Ids |-> IF id \in new THEN "connecting"
                               ELSE IF id \in old THEN "closed" ELSE source[id]]
  /\ link' = [id \in Ids |-> IF id \in old /\ link[id] = "up" THEN "lost" ELSE link[id]]
  /\ body' = [id \in Ids |-> IF id \in old THEN <<>> ELSE body[id]]

\* Mutant of ShowStream: beforeCleanupElement is not handled.
ShowStreamOnly(id) ==
  /\ form[id] = "answered"
  /\ form' = [i \in Ids |-> IF i = id THEN "shown"
                            ELSE IF i \in Divs(area[id]) THEN "gone" ELSE form[i]]
  /\ Rewire({id}, {})
  /\ progress' = [progress EXCEPT ![id] = TRUE]
  /\ UNCHANGED <<server, result, area, shown>>

\* The answer of the POST is swapped in where the div of the last request was; also
\* when the result is not in the document any longer.
ShowStream(id) ==
  /\ form[id] = "answered"
  /\ form' = [i \in Ids |-> IF i = id THEN "shown"
                            ELSE IF i \in Divs(area[id]) THEN "gone" ELSE form[i]]
  /\ Rewire({id}, Divs(area[id]))
  /\ progress' = [progress EXCEPT ![id] = TRUE]
  /\ UNCHANGED <<server, result, area, shown>>

\* Something else is investigated: htmx swaps the result.
Investigate ==
  /\ result < MaxResults
  /\ result' = result + 1
  /\ form' = [id \in Ids |-> IF id \in Divs(result) THEN "gone" ELSE form[id]]
  /\ Rewire({}, Divs(result))
  /\ UNCHANGED <<server, area, shown, progress>>

\* The Reset button empties the result without htmx: EventSources go on.
Reset ==
  /\ result < MaxResults
  /\ result' = result + 1
  /\ UNCHANGED <<server, body, link, area, form, source, shown, progress>>

\* Mutant of Deliver: the bar is not removed out of band.
DeliverKeepingBar(id) ==
  /\ source[id] = "open" /\ body[id] # <<>>
  /\ shown' = [shown EXCEPT ![id] = Append(@, Head(body[id]))]
  /\ body' = [body EXCEPT ![id] = Tail(@)]
  /\ UNCHANGED <<server, link, result, area, form, source, progress>>

\* swapInto: an event is appended, and a Result takes away the progress bar that is
\* in the document, whosever it is.  The error of sse_error_response takes none.
Deliver(id) ==
  LET event == Head(body[id]) IN
  /\ source[id] = "open" /\ body[id] # <<>>
  /\ shown' = [shown EXCEPT ![id] = Append(@, event)]
  /\ progress' = [i \in Ids |-> progress[i] /\ ~(event.kind = "result" /\ i \in Divs(result))]
  /\ body' = [body EXCEPT ![id] = Tail(@)]
  /\ UNCHANGED <<server, link, result, area, form, source>>

\* The response is over: the browser waits a moment and connects again.
StreamEnds(id) ==
  /\ link[id] = "up" /\ body[id] = <<>> /\ task[id] # "running"
  /\ link' = [link EXCEPT ![id] = "ended"]
  /\ source' = [source EXCEPT ![id] = "connecting"]
  /\ UNCHANGED <<server, body, result, area, form, shown, progress>>

\* The connection breaks; what was under way in it is lost.
ConnectionLost(id) ==
  /\ link[id] = "up"
  /\ link' = [link EXCEPT ![id] = "lost"]
  /\ body' = [body EXCEPT ![id] = <<>>]
  /\ source' = [source EXCEPT ![id] = "connecting"]
  /\ UNCHANGED <<server, result, area, form, shown, progress>>

-----------------------------------------------------------------------------
(* The GET handlers and the task.                                          *)

\* The input was in the store: a task is started, or an offer does not decode and
\* the response is one error event.
Respond(id) ==
  /\ link' = [link EXCEPT ![id] = "up"]
  /\ source' = [source EXCEPT ![id] = "open"]
  /\ \/ /\ runs' = [runs EXCEPT ![id] = @ + 1]
        /\ task' = [task EXCEPT ![id] = "running"]
        /\ sent' = [sent EXCEPT ![id] = 0]
        /\ body' = [body EXCEPT ![id] = <<>>]
     \/ /\ id \in Offers
        /\ body' = [body EXCEPT ![id] = <<[index |-> 0, kind |-> "error"]>>]
        /\ UNCHANGED <<runs, task, sent>>

\* 404: the browser gives the EventSource up.
NotFound(id) ==
  /\ source' = [source EXCEPT ![id] = "closed"]
  /\ UNCHANGED <<stored, runs, task, sent, body, link>>

\* Mutants of Get: the input is read and stays; an unknown id is told to the user
\* with sse_error_response, which is a stream like any other.
GetKeeping(id) ==
  /\ source[id] = "connecting"
  /\ IF id \in stored THEN Respond(id) /\ UNCHANGED stored ELSE NotFound(id)
  /\ UNCHANGED <<result, area, form, shown, progress, restarts>>

GetAlwaysStream(id) ==
  /\ source[id] = "connecting"
  /\ IF id \in stored
     THEN Respond(id) /\ stored' = stored \ {id}
     ELSE /\ link' = [link EXCEPT ![id] = "up"]
          /\ source' = [source EXCEPT ![id] = "open"]
          /\ UNCHANGED <<stored, runs, task, sent, body>>
  /\ UNCHANGED <<result, area, form, shown, progress, restarts>>

\* lnurl_request_invoice_stream and offer_request_invoice_stream.
Get(id) ==
  /\ source[id] = "connecting"
  /\ IF id \in stored
     THEN Respond(id) /\ stored' = stored \ {id}
     ELSE NotFound(id)
  /\ UNCHANGED <<result, area, form, shown, progress, restarts>>

\* Mutant of Send: `index` for `index + 1`.
SendFromZero(id, kind) ==
  /\ link[id] = "up"
  /\ body' = [body EXCEPT ![id] = Append(@, [index |-> sent[id], kind |-> kind])]
  /\ sent' = [sent EXCEPT ![id] = @ + 1]

\* The item n of the enumerated stream is rendered with index n + 1.
Send(id, kind) ==
  /\ link[id] = "up"
  /\ body' = [body EXCEPT ![id] = Append(@, [index |-> sent[id] + 1, kind |-> kind])]
  /\ sent' = [sent EXCEPT ![id] = @ + 1]

Report(id) ==
  /\ task[id] = "running" /\ sent[id] < MaxEvents
  /\ Send(id, "progress")
  /\ UNCHANGED <<stored, runs, task, restarts, link, page>>

\* Mutant of EndTask: the body is closed without waiting for what is in it.
EndTaskDropping(id) ==
  /\ task[id] = "running"
  /\ \/ link[id] = "up" /\ body' = [body EXCEPT ![id] = <<>>]
     \/ link[id] # "up" /\ UNCHANGED body
  /\ task' = [task EXCEPT ![id] = "ended"]
  /\ UNCHANGED <<stored, runs, sent, restarts, link, page>>

\* The task sends its Result, the last item of the stream; with the receiver gone
\* it ends without.
EndTask(id) ==
  /\ task[id] = "running"
  /\ \/ Send(id, "result")
     \/ link[id] # "up" /\ UNCHANGED <<sent, body>>
  /\ task' = [task EXCEPT ![id] = "ended"]
  /\ UNCHANGED <<stored, runs, restarts, link, page>>

\* The process ends and is started again: the stores are empty, tasks and
\* connections are gone.
Restart ==
  /\ restarts < MaxRestarts
  /\ restarts' = restarts + 1
  /\ stored' = {}
  /\ task' = [id \in Ids |-> IF task[id] = "running" THEN "killed" ELSE task[id]]
  /\ link' = [id \in Ids |-> IF link[id] = "up" THEN "lost" ELSE link[id]]
  /\ source' = [id \in Ids |-> IF source[id] = "open" THEN "connecting" ELSE source[id]]
  /\ body' = [id \in Ids |-> <<>>]
  /\ form' = [id \in Ids |-> IF form[id] = "posted" THEN "failed" ELSE form[id]]
  /\ UNCHANGED <<runs, sent, result, area, shown, progress>>

-----------------------------------------------------------------------------
Next ==
  \/ \E id \in Ids :
       \/ Submit(id) \/ StoreRequest(id) \/ PostFails(id) \/ ShowStream(id)
       \/ Deliver(id) \/ StreamEnds(id) \/ ConnectionLost(id)
       \/ Get(id) \/ Report(id) \/ EndTask(id)
  \/ Investigate
  \/ Reset
  \/ Restart

Spec == Init /\ [][Next]_vars

\* A browser reads what has come, notices the end of a response and connects again,
\* and the server answers.  Nothing says that a task ends.
Fairness ==
  \A id \in Ids : /\ WF_vars(Deliver(id))
                  /\ WF_vars(StreamEnds(id))
                  /\ WF_vars(Get(id))

FairSpec == Spec /\ Fairness

-----------------------------------------------------------------------------
(* Properties.                                                             *)

\* One submitted form starts at most one task, so a payee is asked once, however
\* often the EventSource connects again, also around a restart
\* (main.rs:279-283, 335-339).
AtMostOneRun == \A id \in Ids : runs[id] <= 1

\* A stream shows what its task sent, from the first event on, in order, without a
\* gap and without a repetition, and nothing after a Result, across every reconnect
\* (main.rs:294-305, 371-381; htmx-sse.js:65-105).
ShownInOrder ==
  \A id \in Ids : \A i \in 1..Len(shown[id]) :
    /\ shown[id][i].kind # "error" => shown[id][i].index = i
    /\ shown[id][i].kind # "progress" => i = Len(shown[id])

\* A result has at most one live EventSource, that of the div in it: one whose div htmx
\* has replaced is closed, and what its task still sends reaches no page.  It is not
\* one in all: Reset leaves one behind (htmx-sse.js:142-158, app.js:410-423).
OneLiveSource ==
  \A id \in Ids :
    source[id] \in {"connecting", "open"} => Divs(area[id]) = {id}

\* The bar of the div in the document is there until a Result is: its own, or that of
\* a div that Reset has left behind (htmx-sse.js:37-63, *-request-invoice-event.html).
HasResult(id) == \E i \in 1..Len(shown[id]) : shown[id][i].kind = "result"

BarUntilResult ==
  \A id \in Divs(result) :
    /\ HasResult(id) => ~progress[id]
    /\ ~progress[id] => \E other \in Ids :
                          /\ HasResult(other)
                          /\ other = id \/ (form[other] \in {"shown", "gone"} /\ area[other] < result)

\* The browser does not connect again for ever: once the task of a stream is over,
\* or if none was started, its EventSource gets to its 404 (main.rs:283-288, 339-344).
Settles ==
  \A id \in Ids :
    source[id] # "none" ~> source[id] = "closed" \/ task[id] = "running"

\* A Result that was sent is seen, unless its connection breaks or the div goes.
ResultIsSeen ==
  \A id \in Ids : task[id] = "ended" ~> HasResult(id) \/ link[id] = "lost"

\* What makes AtMostOneRun and OneLiveSource inductive: an input is in the store only
\* until its task is started and no POST stores it twice; a result has one div at most.
Unserved ==
  \A id \in Ids :
    /\ form[id] \in {"new", "posted"} \/ id \in stored => runs[id] = 0
    /\ form[id] \in {"new", "posted"} => source[id] = "none"

OneDiv ==
  /\ \A id \in Ids : link[id] = "up" => source[id] = "open"
  /\ \A id \in Ids : source[id] \in {"connecting", "open"} => form[id] = "shown"
  /\ \A id, other \in Ids :
       form[id] = "shown" /\ form[other] = "shown" /\ area[id] = area[other] => id = other

\* What makes ShownInOrder inductive: the body goes on where the div ends, and as long
\* as a task runs and its response is read, nothing it sent is missing from the two.
Started(id) == ~(form[id] \in {"new", "posted"} \/ id \in stored)

Unstarted ==
  \A id \in Ids :
    ~Started(id) => task[id] = "none" /\ shown[id] = <<>> /\ body[id] = <<>>

OnlyProgress(events) == \A i \in 1..Len(events) : events[i].kind = "progress"

Continues ==
  \A id \in Ids :
    /\ \A i \in 1..Len(body[id]) :
         /\ body[id][i].kind # "error" => body[id][i].index = Len(shown[id]) + i
         /\ body[id][i].kind # "progress" => i = Len(body[id])
    /\ body[id] # <<>> => OnlyProgress(shown[id])

Complete ==
  \A id \in Ids : task[id] = "running" /\ link[id] = "up" =>
    /\ sent[id] = Len(shown[id]) + Len(body[id])
    /\ OnlyProgress(shown[id]) /\ OnlyProgress(body[id])

\* What makes BarUntilResult inductive: a div is empty when it comes, and no form is
\* part of a result that is still to come.
NewDivs ==
  \A id \in Ids :
    /\ area[id] <= result
    /\ form[id] \notin {"shown", "gone"} => shown[id] = <<>>

IInv ==
  /\ TypeOK /\ AtMostOneRun /\ Unserved /\ OneDiv
  /\ ShownInOrder /\ Unstarted /\ Continues /\ Complete
  /\ BarUntilResult /\ NewDivs
=============================================================================
