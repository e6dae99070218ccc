----------------------- MODULE InvoiceStreamProofs ------------------------
(* Proofs about InvoiceStream: a form is served once, a result has one     *)
(* live EventSource, and a div shows what its task sent, in its order, and *)
(* a bar until the Result.                                                 *)
EXTENDS InvoiceStream, WebClient, SequenceTheorems, TLAPS

LEMMA InitInvariant == Init => IInv
<1> SUFFICES ASSUME Init PROVE IInv
  OBVIOUS
<1>1. TypeOK
  BY EmptySeq DEF Init, TypeOK
<1>2. AtMostOneRun /\ Unserved /\ OneDiv
  BY DEF Init, AtMostOneRun, Unserved, OneDiv
<1>3. ShownInOrder /\ Unstarted /\ Continues /\ Complete
  BY DEF Init, ShownInOrder, Unstarted, Continues, Complete
<1>4. BarUntilResult /\ NewDivs
  BY DEF Init, BarUntilResult, Divs, NewDivs
<1> QED BY <1>1, <1>2, <1>3, <1>4 DEF IInv

-----------------------------------------------------------------------------
(* Every step preserves the types.                                         *)

LEMMA FormTypes ==
  ASSUME TypeOK, NEW id \in Ids,
         Submit(id) \/ StoreRequest(id) \/ PostFails(id) \/ ShowStream(id)
  PROVE  TypeOK'
<1> USE DEF TypeOK, server
<1>1. CASE Submit(id)
  BY <1>1 DEF Submit
<1>2. CASE StoreRequest(id)
  BY <1>2 DEF StoreRequest
<1>3. CASE PostFails(id)
  BY <1>3 DEF PostFails
<1>4. CASE ShowStream(id)
  BY <1>4, EmptySeq DEF ShowStream, Rewire
<1> QED BY <1>1, <1>2, <1>3, <1>4

LEMMA StreamTypes ==
  ASSUME TypeOK, NEW id \in Ids,
         Deliver(id) \/ StreamEnds(id) \/ ConnectionLost(id)
  PROVE  TypeOK'
<1> USE DEF TypeOK, server
<1>1. CASE Deliver(id)
  <2>1. /\ body[id] \in Seq(Event) /\ body[id] # <<>>
        /\ shown[id] \in Seq(Event)
    BY <1>1 DEF Deliver
  <2>2. /\ Tail(body[id]) \in Seq(Event)
        /\ Append(shown[id], Head(body[id])) \in Seq(Event)
    BY <2>1, HeadTailProperties, AppendProperties
  <2>3. /\ shown' \in [Ids -> Seq(Event)]
        /\ body' \in [Ids -> Seq(Event)]
        /\ progress' \in [Ids -> BOOLEAN]
    BY <1>1, <2>2 DEF Deliver
  <2>4. UNCHANGED <<server, link, result, area, form, source>>
    BY <1>1 DEF Deliver
  <2> QED BY <2>3, <2>4
<1>2. CASE StreamEnds(id)
  BY <1>2 DEF StreamEnds
<1>3. CASE ConnectionLost(id)
  BY <1>3, EmptySeq DEF ConnectionLost
<1> QED BY <1>1, <1>2, <1>3

LEMMA SendTypes ==
  ASSUME TypeOK, NEW id \in Ids, NEW kind \in {"progress", "result"}, Send(id, kind)
  PROVE  body' \in [Ids -> Seq(Event)] /\ sent' \in [Ids -> Nat]
<1>1. [index |-> sent[id] + 1, kind |-> kind] \in Event
  BY DEF Event, TypeOK
<1>2. Append(body[id], [index |-> sent[id] + 1, kind |-> kind]) \in Seq(Event)
  BY <1>1, AppendProperties DEF TypeOK
<1> QED BY <1>2 DEF Send, TypeOK

LEMMA ServerTypes ==
  ASSUME TypeOK, NEW id \in Ids,
         Get(id) \/ Report(id) \/ EndTask(id)
  PROVE  TypeOK'
<1> USE DEF TypeOK, page
<1>1. CASE Get(id)
  <2>1. CASE id \in stored
    <3>1. [index |-> 0, kind |-> "error"] \in Event
      BY DEF Event
    <3>2. <<[index |-> 0, kind |-> "error"]>> \in Seq(Event) /\ <<>> \in Seq(Event)
      BY <3>1
    <3>3. body' \in [Ids -> Seq(Event)]
      BY <1>1, <2>1, <3>2, ZenonT(40) DEF Get, Respond
    <3>4. /\ runs' \in [Ids -> Nat] /\ sent' \in [Ids -> Nat]
          /\ task' \in [Ids -> {"none", "running", "ended", "killed"}]
      <4>1. CASE /\ runs' = [runs EXCEPT ![id] = @ + 1]
                 /\ task' = [task EXCEPT ![id] = "running"]
                 /\ sent' = [sent EXCEPT ![id] = 0]
        BY <4>1
      <4>2. CASE UNCHANGED <<runs, task, sent>>
        BY <4>2
      <4> QED BY <1>1, <2>1, <4>1, <4>2 DEF Get, Respond
    <3>5. /\ stored' \subseteq Ids
          /\ link' \in [Ids -> {"none", "up", "ended", "lost"}]
          /\ source' \in [Ids -> {"none", "connecting", "open", "closed"}]
          /\ UNCHANGED <<result, area, form, shown, progress, restarts>>
      BY <1>1, <2>1 DEF Get, Respond
    <3> QED BY <3>3, <3>4, <3>5
  <2>2. CASE id \notin stored
    BY <1>1, <2>2 DEF Get, NotFound
  <2> QED BY <2>1, <2>2
<1>2. CASE Report(id)
  BY <1>2, SendTypes DEF Report
<1>3. CASE EndTask(id)
  <2>1. body' \in [Ids -> Seq(Event)] /\ sent' \in [Ids -> Nat]
    BY <1>3, SendTypes DEF EndTask
  <2> QED BY <1>3, <2>1 DEF EndTask
<1> QED BY <1>1, <1>2, <1>3

LEMMA PageTypes ==
  ASSUME TypeOK, Investigate \/ Reset \/ Restart
  PROVE  TypeOK'
<1> USE DEF TypeOK, server
<1>1. CASE Investigate
  BY <1>1, EmptySeq DEF Investigate, Rewire
<1>2. CASE Reset
  BY <1>2 DEF Reset
<1>3. CASE Restart
  BY <1>3, EmptySeq DEF Restart
<1> QED BY <1>1, <1>2, <1>3

LEMMA TypesPreserved == TypeOK /\ [Next]_vars => TypeOK'
<1> SUFFICES ASSUME TypeOK, [Next]_vars PROVE TypeOK'
  OBVIOUS
<1>1. CASE UNCHANGED vars
  BY <1>1 DEF vars, server, page, TypeOK
<1> QED BY <1>1, FormTypes, StreamTypes, ServerTypes, PageTypes DEF Next

-----------------------------------------------------------------------------
(* Every step preserves the rest of the invariant.                         *)

\* An input leaves the store with the step that starts its task.
LEMMA ServedOnce ==
  ASSUME IInv, [Next]_vars
  PROVE  AtMostOneRun' /\ Unserved'
<1> USE DEF IInv
<1> DEFINE Goal == AtMostOneRun' /\ Unserved'
<1>0. /\ runs \in [Ids -> Nat]
      /\ form = [id \in Ids |-> form[id]] /\ source = [id \in Ids |-> source[id]]
      /\ \A id \in Ids : link[id] = "up" => source[id] = "open"
  BY DEF TypeOK, OneDiv
<1>1. ASSUME NEW id \in Ids, Submit(id) PROVE Goal
  BY <1>0, <1>1 DEF Submit, AtMostOneRun, Unserved, server
<1>2. ASSUME NEW id \in Ids, StoreRequest(id) PROVE Goal
  BY <1>0, <1>2 DEF StoreRequest, AtMostOneRun, Unserved
<1>3. ASSUME NEW id \in Ids, PostFails(id) PROVE Goal
  BY <1>0, <1>3 DEF PostFails, AtMostOneRun, Unserved, server
<1>4. ASSUME NEW id \in Ids, ShowStream(id) PROVE Goal
  BY <1>0, <1>4 DEF ShowStream, Rewire, Divs, AtMostOneRun, Unserved, server
<1>5. ASSUME NEW id \in Ids, Deliver(id) PROVE Goal
  BY <1>5 DEF Deliver, AtMostOneRun, Unserved, server
<1>6. ASSUME NEW id \in Ids, StreamEnds(id) PROVE Goal
  BY <1>0, <1>6 DEF StreamEnds, AtMostOneRun, Unserved, server
<1>7. ASSUME NEW id \in Ids, ConnectionLost(id) PROVE Goal
  BY <1>0, <1>7 DEF ConnectionLost, AtMostOneRun, Unserved, server
<1>8. ASSUME NEW id \in Ids, Get(id) PROVE Goal
  <2>1. source[id] = "connecting" /\ UNCHANGED form /\ form[id] \notin {"new", "posted"}
    BY <1>8 DEF Get, Unserved
  <2>2. CASE id \in stored
    <3>1. runs[id] = 0 /\ stored' = stored \ {id} /\ source' = [source EXCEPT ![id] = "open"]
      BY <1>8, <2>2 DEF Get, Respond, Unserved
    <3>2. runs' = [runs EXCEPT ![id] = 1] \/ runs' = runs
      BY <1>8, <2>2, <3>1 DEF Get, Respond
    <3> QED BY <1>0, <2>1, <3>1, <3>2 DEF AtMostOneRun, Unserved
  <2>3. CASE id \notin stored
    BY <1>0, <1>8, <2>1, <2>3 DEF Get, NotFound, AtMostOneRun, Unserved
  <2> QED BY <2>2, <2>3
<1>9. ASSUME NEW id \in Ids, Report(id) \/ EndTask(id) PROVE Goal
  BY <1>9 DEF Report, EndTask, AtMostOneRun, Unserved, page
<1>10. CASE Investigate
  BY <1>0, <1>10 DEF Investigate, Rewire, Divs, AtMostOneRun, Unserved, server
<1>11. CASE Reset
  BY <1>11 DEF Reset, AtMostOneRun, Unserved, server
<1>12. CASE Restart
  BY <1>0, <1>12 DEF Restart, AtMostOneRun, Unserved
<1>13. CASE UNCHANGED vars
  BY <1>13 DEF vars, server, page, AtMostOneRun, Unserved
<1> QED
  BY <1>1, <1>2, <1>3, <1>4, <1>5, <1>6, <1>7, <1>8, <1>9, <1>10, <1>11, <1>12, <1>13 DEF Next

\* A div comes with the source that is opened for it and takes the place of the last.
LEMMA OneDivStays ==
  ASSUME IInv, [Next]_vars
  PROVE  OneDiv'
<1> USE DEF IInv
<1>0. /\ form = [id \in Ids |-> form[id]] /\ source = [id \in Ids |-> source[id]]
      /\ link = [id \in Ids |-> link[id]] /\ area = [id \in Ids |-> area[id]]
  BY DEF TypeOK
<1>1. ASSUME NEW id \in Ids, Submit(id) PROVE OneDiv'
  BY <1>0, <1>1 DEF Submit, OneDiv, server
<1>2. ASSUME NEW id \in Ids, StoreRequest(id) PROVE OneDiv'
  BY <1>0, <1>2 DEF StoreRequest, OneDiv
<1>3. ASSUME NEW id \in Ids, PostFails(id) PROVE OneDiv'
  BY <1>0, <1>3 DEF PostFails, OneDiv, server
<1>4. ASSUME NEW id \in Ids, ShowStream(id) PROVE OneDiv'
  <2> DEFINE old == Divs(area[id])
  <2>1. /\ form[id] = "answered" /\ area' = area
        /\ form' = [i \in Ids |-> IF i = id THEN "shown"
                                  ELSE IF i \in old THEN "gone" ELSE form[i]]
        /\ source' = [i \in Ids |-> IF i \in {id} THEN "connecting"
                                    ELSE IF i \in old THEN "closed" ELSE source[i]]
        /\ link' = [i \in Ids |-> IF i \in old /\ link[i] = "up" THEN "lost" ELSE link[i]]
    BY <1>4 DEF ShowStream, Rewire
  <2>2. link[id] # "up" /\ id \notin old
    BY <2>1 DEF OneDiv, Divs
  <2>3. \A i \in Ids : link'[i] = "up" => source'[i] = "open"
    BY <2>1, <2>2 DEF OneDiv
  <2>4. \A i \in Ids : source'[i] \in {"connecting", "open"} => form'[i] = "shown"
    BY <2>1 DEF OneDiv
  <2>5. \A i, j \in Ids :
          form'[i] = "shown" /\ form'[j] = "shown" /\ area'[i] = area'[j] => i = j
    BY <2>1 DEF OneDiv, Divs
  <2> QED BY <2>3, <2>4, <2>5 DEF OneDiv
<1>5. ASSUME NEW id \in Ids, Deliver(id) PROVE OneDiv'
  BY <1>5 DEF Deliver, OneDiv
<1>6. ASSUME NEW id \in Ids, StreamEnds(id) PROVE OneDiv'
  BY <1>0, <1>6 DEF StreamEnds, OneDiv
<1>7. ASSUME NEW id \in Ids, ConnectionLost(id) PROVE OneDiv'
  BY <1>0, <1>7 DEF ConnectionLost, OneDiv
<1>8. ASSUME NEW id \in Ids, Get(id) PROVE OneDiv'
  BY <1>0, <1>8 DEF Get, Respond, NotFound, OneDiv
<1>9. ASSUME NEW id \in Ids, Report(id) \/ EndTask(id) PROVE OneDiv'
  BY <1>9 DEF Report, EndTask, OneDiv, page
<1>10. CASE Investigate
  BY <1>0, <1>10 DEF Investigate, Rewire, Divs, OneDiv
<1>11. CASE Reset
  BY <1>11 DEF Reset, OneDiv
<1>12. CASE Restart
  BY <1>0, <1>12 DEF Restart, OneDiv
<1>13. CASE UNCHANGED vars
  BY <1>13 DEF vars, page, OneDiv
<1> QED
  BY <1>1, <1>2, <1>3, <1>4, <1>5, <1>6, <1>7, <1>8, <1>9, <1>10, <1>11, <1>12, <1>13 DEF Next

-----------------------------------------------------------------------------
(* Streams are in order.                                                   *)

\* What an event that is appended or taken away leaves of a sequence of events.
LEMMA Appended ==
  ASSUME NEW events \in Seq(Event), NEW event \in Event
  PROVE  /\ Append(events, event) \in Seq(Event)
         /\ Len(Append(events, event)) = Len(events) + 1
         /\ \A i \in 1..Len(events) : Append(events, event)[i] = events[i]
         /\ Append(events, event)[Len(events) + 1] = event
BY AppendProperties

LEMMA TakenAway ==
  ASSUME NEW events \in Seq(Event), events # <<>>
  PROVE  /\ Head(events) = events[1] /\ Head(events) \in Event
         /\ Tail(events) \in Seq(Event) /\ Len(events) \in Nat \ {0}
         /\ Len(Tail(events)) = Len(events) - 1
         /\ \A i \in 1..Len(Tail(events)) : Tail(events)[i] = events[i + 1]
BY HeadTailProperties, EmptySeq, LenProperties

\* What the invariant says of one form and its stream.
OneStream(id) ==
  /\ \A i \in 1..Len(shown[id]) :
       /\ shown[id][i].kind # "error" => shown[id][i].index = i
       /\ shown[id][i].kind # "progress" => i = Len(shown[id])
  /\ ~Started(id) => task[id] = "none" /\ shown[id] = <<>> /\ body[id] = <<>>
  /\ \A i \in 1..Len(body[id]) :
       /\ body[id][i].kind # "error" => body[id][i].index = Len(shown[id]) + i
       /\ body[id][i].kind # "progress" => i = Len(body[id])
  /\ body[id] # <<>> => OnlyProgress(shown[id])
  /\ task[id] = "running" /\ link[id] = "up" =>
       /\ sent[id] = Len(shown[id]) + Len(body[id])
       /\ OnlyProgress(shown[id]) /\ OnlyProgress(body[id])

LEMMA EachStream ==
  (ShownInOrder /\ Unstarted /\ Continues /\ Complete) <=> \A id \in Ids : OneStream(id)
BY DEF ShownInOrder, Unstarted, Continues, Complete, OneStream

\* A step that shows nothing and sends nothing: it leaves the stream alone, cuts its
\* response off, wherever that is, or ends its task.
CutsOff(id) ==
  /\ shown'[id] = shown[id] /\ body'[id] \in {body[id], <<>>}
  /\ \/ task'[id] = task[id] /\ sent'[id] = sent[id]
     \/ task'[id] # "running" /\ Started(id)
  /\ (link'[id] = link[id] /\ body'[id] = body[id]) \/ link'[id] # "up"
  /\ Started(id) => Started(id)'

LEMMA CutOff ==
  ASSUME NEW id \in Ids, OneStream(id), CutsOff(id)
  PROVE  OneStream(id)'
<1>1. \A i \in 1..Len(shown'[id]) :
        /\ shown'[id][i].kind # "error" => shown'[id][i].index = i
        /\ shown'[id][i].kind # "progress" => i = Len(shown'[id])
  BY DEF OneStream, CutsOff
<1>2. ~Started(id)' => task'[id] = "none" /\ shown'[id] = <<>> /\ body'[id] = <<>>
  BY DEF OneStream, CutsOff
<1>3. \A i \in 1..Len(body'[id]) :
        /\ body'[id][i].kind # "error" => body'[id][i].index = Len(shown'[id]) + i
        /\ body'[id][i].kind # "progress" => i = Len(body'[id])
  <2>1. CASE body'[id] = body[id]
    BY <2>1 DEF OneStream, CutsOff
  <2>2. CASE body'[id] = <<>>
    BY <2>2
  <2> QED BY <2>1, <2>2 DEF CutsOff
<1>4. body'[id] # <<>> => OnlyProgress(shown'[id])
  BY DEF OneStream, CutsOff
<1>5. task'[id] = "running" /\ link'[id] = "up" =>
        /\ sent'[id] = Len(shown'[id]) + Len(body'[id])
        /\ OnlyProgress(shown'[id]) /\ OnlyProgress(body'[id])
  BY DEF OneStream, CutsOff
<1> QED BY <1>1, <1>2, <1>3, <1>4, <1>5 DEF OneStream, OnlyProgress

\* Send goes on where the body ends.
LEMMA Sending ==
  ASSUME TypeOK, NEW id \in Ids, NEW kind \in {"progress", "result"},
         OneStream(id), task[id] = "running", Started(id), Send(id, kind),
         UNCHANGED <<stored, form, shown, link>>,
         task'[id] = "running" => kind = "progress"
  PROVE  OneStream(id)'
<1> DEFINE event == [index |-> sent[id] + 1, kind |-> kind]
<1>1. /\ body[id] \in Seq(Event) /\ shown[id] \in Seq(Event) /\ sent[id] \in Nat
      /\ event \in Event
  BY DEF TypeOK, Event
<1>2. /\ body'[id] = Append(body[id], event) /\ sent'[id] = sent[id] + 1
      /\ link[id] = "up" /\ shown'[id] = shown[id]
  BY DEF Send, TypeOK
<1>3. /\ Len(body'[id]) = Len(body[id]) + 1 /\ body'[id][Len(body[id]) + 1] = event
      /\ \A i \in 1..Len(body[id]) : body'[id][i] = body[id][i]
  BY <1>1, <1>2, Appended
<1>4. /\ sent[id] = Len(shown[id]) + Len(body[id])
      /\ OnlyProgress(shown[id]) /\ OnlyProgress(body[id])
      /\ Len(shown[id]) \in Nat /\ Len(body[id]) \in Nat
  BY <1>1, <1>2, LenProperties DEF OneStream
<1>5. \A a, b, c \in Nat : a = b + c => a + 1 = b + (c + 1)
  OBVIOUS
<1>6. sent[id] + 1 = Len(shown[id]) + (Len(body[id]) + 1)
  BY <1>5, <1>1, <1>4
<1>7. \A i \in 1..Len(body'[id]) : i \in 1..Len(body[id]) \/ i = Len(body[id]) + 1
  BY <1>3, <1>4
<1>8. \A i \in 1..Len(body'[id]) :
        /\ body'[id][i].kind # "error" => body'[id][i].index = Len(shown'[id]) + i
        /\ body'[id][i].kind # "progress" => i = Len(body'[id])
  <2>1. \A i \in 1..Len(body[id]) :
          /\ body'[id][i].kind = "progress"
          /\ body'[id][i].index = Len(shown'[id]) + i
    <3>1. \A i \in 1..Len(body[id]) :
            body[id][i].kind = "progress" /\ body'[id][i] = body[id][i]
      BY <1>3, <1>4 DEF OnlyProgress
    <3>2. \A i \in 1..Len(body[id]) :
            body[id][i].kind # "error" => body[id][i].index = Len(shown[id]) + i
      BY Zenon DEF OneStream
    <3>3. shown'[id] = shown[id]
      BY <1>2, Zenon
    <3> QED BY <3>1, <3>2, <3>3
  <2>2. event.index = Len(shown'[id]) + (Len(body[id]) + 1)
    BY <1>2, <1>6
  <2> QED BY <1>3, <1>7, <2>1, <2>2
<1>9. task'[id] = "running" => OnlyProgress(body'[id])
  BY <1>3, <1>4, <1>7 DEF OnlyProgress
<1>10. sent'[id] = Len(shown'[id]) + Len(body'[id])
  BY <1>2, <1>3, <1>6
<1>11. \A i \in 1..Len(shown'[id]) :
        /\ shown'[id][i].kind # "error" => shown'[id][i].index = i
        /\ shown'[id][i].kind # "progress" => i = Len(shown'[id])
  BY DEF OneStream
<1>12. OnlyProgress(shown'[id]) /\ Started(id)'
  BY <1>4 DEF OnlyProgress, Started
<1> QED BY <1>8, <1>9, <1>10, <1>11, <1>12 DEF OneStream, OnlyProgress

\* Deliver moves the first event of the body to the end of the div.
LEMMA Delivering ==
  ASSUME TypeOK, NEW id \in Ids, OneStream(id), Deliver(id)
  PROVE  OneStream(id)'
<1> DEFINE event == Head(body[id])
<1>1. /\ body[id] \in Seq(Event) /\ body[id] # <<>> /\ shown[id] \in Seq(Event)
      /\ sent[id] \in Nat
  BY DEF TypeOK, Deliver
<1>2. /\ shown'[id] = Append(shown[id], event) /\ body'[id] = Tail(body[id])
      /\ UNCHANGED <<stored, form, task, sent, link>>
  BY DEF TypeOK, Deliver, server
<1>3. /\ event \in Event /\ event = body[id][1] /\ Len(body[id]) \in Nat \ {0}
      /\ Len(body'[id]) = Len(body[id]) - 1
      /\ \A i \in 1..Len(body'[id]) : body'[id][i] = body[id][i + 1]
  BY <1>1, <1>2, TakenAway
<1>4. /\ Len(shown[id]) \in Nat /\ Len(shown'[id]) = Len(shown[id]) + 1
      /\ \A i \in 1..Len(shown[id]) : shown'[id][i] = shown[id][i]
      /\ shown'[id][Len(shown[id]) + 1] = event
  BY <1>1, <1>2, <1>3, Appended, LenProperties
<1>5. \A i \in 1..Len(shown'[id]) : i \in 1..Len(shown[id]) \/ i = Len(shown[id]) + 1
  BY <1>4
<1>6. /\ OnlyProgress(shown[id]) /\ Started(id)
      /\ \A i \in 1..Len(body[id]) :
           /\ body[id][i].kind # "error" => body[id][i].index = Len(shown[id]) + i
           /\ body[id][i].kind # "progress" => i = Len(body[id])
  BY <1>1 DEF OneStream
<1>7. /\ event.kind # "error" => event.index = Len(shown[id]) + 1
      /\ event.kind # "progress" => Len(body[id]) = 1
  <2>1. 1 \in 1..Len(body[id])
    BY <1>3
  <2>2. /\ body[id][1].kind # "error" => body[id][1].index = Len(shown[id]) + 1
        /\ body[id][1].kind # "progress" => 1 = Len(body[id])
    BY <1>6, <2>1
  <2> QED BY <1>3, <2>2
<1>8. \A i \in 1..Len(shown'[id]) :
        /\ shown'[id][i].kind # "error" => shown'[id][i].index = i
        /\ shown'[id][i].kind # "progress" => i = Len(shown'[id])
  <2>1. \A i \in 1..Len(shown[id]) :
          shown'[id][i].kind = "progress" /\ shown'[id][i].index = i
    BY <1>4, <1>6 DEF OneStream, OnlyProgress
  <2>2. shown'[id][Len(shown[id]) + 1].kind # "error"
          => shown'[id][Len(shown[id]) + 1].index = Len(shown[id]) + 1
    BY <1>4, <1>7
  <2> QED BY <1>4, <1>5, <2>1, <2>2
<1>9. \A i \in 1..Len(body'[id]) :
        /\ body'[id][i].kind # "error" => body'[id][i].index = Len(shown'[id]) + i
        /\ body'[id][i].kind # "progress" => i = Len(body'[id])
  <2> SUFFICES ASSUME NEW i \in 1..Len(body'[id])
               PROVE  /\ body'[id][i].kind # "error"
                           => body'[id][i].index = Len(shown'[id]) + i
                      /\ body'[id][i].kind # "progress" => i = Len(body'[id])
    OBVIOUS
  <2>1. i + 1 \in 1..Len(body[id]) /\ body'[id][i] = body[id][i + 1] /\ i \in Nat
    BY <1>3
  <2>2. \A a, b \in Nat : a + (b + 1) = (a + 1) + b
    OBVIOUS
  <2>3. Len(shown[id]) + (i + 1) = Len(shown'[id]) + i
    BY <1>4, <2>1, <2>2
  <2>4. i + 1 = Len(body[id]) => i = Len(body'[id])
    BY <1>3, <2>1
  <2> QED BY <1>6, <2>1, <2>3, <2>4
<1>10. body'[id] # <<>> => event.kind = "progress"
  <2>1. body'[id] \in Seq(Event)
    BY <1>1, <1>2, TakenAway
  <2>2. body'[id] # <<>> => Len(body'[id]) # 0
    BY <2>1, EmptySeq
  <2> QED BY <1>3, <1>7, <2>2
<1>11. event.kind = "progress" => OnlyProgress(shown'[id])
  BY <1>4, <1>5, <1>6 DEF OnlyProgress
<1>12. task'[id] = "running" /\ link'[id] = "up" =>
         /\ sent'[id] = Len(shown'[id]) + Len(body'[id])
         /\ OnlyProgress(shown'[id]) /\ OnlyProgress(body'[id])
  <2> SUFFICES ASSUME task[id] = "running", link[id] = "up"
               PROVE  /\ sent'[id] = Len(shown'[id]) + Len(body'[id])
                      /\ OnlyProgress(shown'[id]) /\ OnlyProgress(body'[id])
    BY <1>2
  <2>1. sent[id] = Len(shown[id]) + Len(body[id]) /\ OnlyProgress(body[id])
    BY DEF OneStream
  <2>2. \A a \in Nat, b \in Nat \ {0} : a + b = (a + 1) + (b - 1)
    OBVIOUS
  <2>3. sent[id] = Len(shown'[id]) + Len(body'[id])
    BY <1>3, <1>4, <2>1, <2>2
  <2>4. event.kind = "progress" /\ OnlyProgress(body'[id])
    <3>1. 1 \in 1..Len(body[id]) /\ \A i \in 1..Len(body'[id]) : i + 1 \in 1..Len(body[id])
      BY <1>3
    <3>2. body[id][1].kind = "progress"
      BY <2>1, <3>1 DEF OnlyProgress
    <3>3. \A i \in 1..Len(body'[id]) : body'[id][i].kind = "progress"
      BY <1>3, <2>1, <3>1 DEF OnlyProgress
    <3> QED BY <1>3, <3>2, <3>3 DEF OnlyProgress
  <2> QED BY <1>2, <1>11, <2>3, <2>4
<1>13. Started(id)'
  BY <1>2, <1>6 DEF Started
<1> QED BY <1>8, <1>9, <1>10, <1>11, <1>12, <1>13 DEF OneStream, OnlyProgress

\* Get finds the input of a form no task was started for; what came before is nothing.
LEMMA Getting ==
  ASSUME TypeOK, Unserved, NEW id \in Ids, OneStream(id), Get(id)
  PROVE  OneStream(id)'
<1>1. form[id] \notin {"new", "posted"} /\ UNCHANGED <<form, shown>>
  BY DEF Get, Unserved
<1>2. CASE id \notin stored
  BY <1>1, <1>2, CutOff DEF Get, NotFound, Started, CutsOff
<1>3. CASE id \in stored
  <2>1. /\ task[id] = "none" /\ shown'[id] = <<>> /\ id \notin stored'
        /\ \/ body'[id] = <<>> /\ sent'[id] = 0
           \/ body'[id] = <<[index |-> 0, kind |-> "error"]>> /\ task'[id] = "none"
    BY <1>1, <1>3 DEF Get, Respond, OneStream, Started, TypeOK
  <2>2. CASE body'[id] = <<>> /\ sent'[id] = 0
    BY <1>1, <2>1, <2>2 DEF OneStream, Started, OnlyProgress
  <2>3. CASE body'[id] = <<[index |-> 0, kind |-> "error"]>> /\ task'[id] = "none"
    BY <1>1, <2>1, <2>3 DEF OneStream, Started, OnlyProgress
  <2> QED BY <2>1, <2>2, <2>3
<1> QED BY <1>2, <1>3

\* Every step leaves every stream in order: most cut it off or leave it alone.
LEMMA StreamsStay ==
  ASSUME IInv, [Next]_vars, NEW i \in Ids
  PROVE  OneStream(i)'
<1>0. TypeOK /\ Unserved /\ OneDiv /\ \A id \in Ids : OneStream(id)
  BY EachStream DEF IInv
<1>1. ASSUME NEW id \in Ids, Submit(id) PROVE CutsOff(i)
  BY <1>0, <1>1 DEF CutsOff, Submit, Started, server, TypeOK
<1>2. ASSUME NEW id \in Ids, StoreRequest(id) PROVE CutsOff(i)
  BY <1>0, <1>2 DEF CutsOff, StoreRequest, Started, TypeOK, OneStream
<1>3. ASSUME NEW id \in Ids, PostFails(id) PROVE CutsOff(i)
  BY <1>0, <1>3 DEF CutsOff, PostFails, Started, server, TypeOK
<1>4. ASSUME NEW id \in Ids, ShowStream(id) PROVE CutsOff(i)
  BY <1>0, <1>4 DEF CutsOff, ShowStream, Rewire, Divs, Started, server, TypeOK
<1>5. ASSUME NEW id \in Ids, Deliver(id) PROVE OneStream(i)'
  <2>1. CASE i = id
    BY <1>0, <1>5, <2>1, Delivering
  <2>2. CASE i # id
    BY <1>0, <1>5, <2>2, CutOff DEF CutsOff, Deliver, Started, server, TypeOK
  <2> QED BY <2>1, <2>2
<1>6. ASSUME NEW id \in Ids, StreamEnds(id) PROVE CutsOff(i)
  BY <1>0, <1>6 DEF CutsOff, StreamEnds, Started, server, TypeOK
<1>7. ASSUME NEW id \in Ids, ConnectionLost(id) PROVE CutsOff(i)
  BY <1>0, <1>7 DEF CutsOff, ConnectionLost, Started, server, TypeOK
<1>8. ASSUME NEW id \in Ids, Get(id) PROVE OneStream(i)'
  <2>1. CASE i = id
    BY <1>0, <1>8, <2>1, Getting
  <2>2. CASE i # id
    BY <1>0, <1>8, <2>2, CutOff DEF CutsOff, Get, Respond, NotFound, Started, TypeOK
  <2> QED BY <2>1, <2>2
<1>9. ASSUME NEW id \in Ids, Report(id) \/ EndTask(id) PROVE OneStream(i)'
  <2>1. /\ task[id] = "running" /\ Started(id)
        /\ UNCHANGED <<stored, form, shown, link>>
    BY <1>0, <1>9 DEF Report, EndTask, page, OneStream
  <2>2. CASE i = id /\ Report(id)
    BY <1>0, <2>1, <2>2, Sending DEF Report
  <2>3. CASE i = id /\ EndTask(id)
    <3>1. task'[id] = "ended"
      BY <1>0, <2>3 DEF EndTask, TypeOK
    <3>2. CASE Send(id, "result")
      BY <1>0, <2>1, <2>3, <3>1, <3>2, Sending
    <3>3. CASE UNCHANGED <<sent, body>>
      BY <1>0, <2>1, <2>3, <3>1, <3>3, CutOff DEF CutsOff, Started
    <3> QED BY <2>3, <3>2, <3>3 DEF EndTask
  <2>4. CASE i # id
    BY <1>0, <1>9, <2>1, <2>4, CutOff DEF CutsOff, Report, EndTask, Send, Started, TypeOK
  <2> QED BY <1>9, <2>2, <2>3, <2>4
<1>10. ASSUME Investigate PROVE CutsOff(i)
  BY <1>0, <1>10 DEF CutsOff, Investigate, Rewire, Divs, Started, server, TypeOK
<1>11. ASSUME Reset PROVE CutsOff(i)
  BY <1>0, <1>11 DEF CutsOff, Reset, Started, server
<1>12. ASSUME Restart PROVE CutsOff(i)
  BY <1>0, <1>12 DEF CutsOff, Restart, Started, TypeOK, OneStream
<1>13. ASSUME UNCHANGED vars PROVE CutsOff(i)
  BY <1>0, <1>13 DEF CutsOff, vars, server, page, Started
<1> QED
  BY <1>0, CutOff, <1>1, <1>2, <1>3, <1>4, <1>5, <1>6, <1>7, <1>8, <1>9, <1>10, <1>11, <1>12, <1>13 DEF Next

-----------------------------------------------------------------------------
(* The bar of the div in the document.                                     *)

\* A step that shows no event and brings no div.
LeavesDivs ==
  /\ UNCHANGED <<shown, progress>>
  /\ result' = result \/ result' = result + 1
  /\ \A id \in Ids :
       /\ form'[id] \in {"shown", "gone"} <=> form[id] \in {"shown", "gone"}
       /\ form'[id] = "shown" => form[id] = "shown"
       /\ area'[id] = area[id] \/ (form[id] = "new" /\ area'[id] = result)

LEMMA BarLeft ==
  ASSUME TypeOK, BarUntilResult, NewDivs, LeavesDivs
  PROVE  BarUntilResult' /\ NewDivs'
<1>1. \A id \in Ids : area[id] \in Nat /\ result \in Nat
  BY DEF TypeOK
<1>2. \A id \in Ids : area'[id] <= result /\ result <= result'
  BY <1>1 DEF NewDivs, LeavesDivs
<1>3. NewDivs'
  <2>1. \A id \in Ids : area'[id] <= result'
    BY <1>1, <1>2 DEF LeavesDivs
  <2> QED BY <2>1 DEF NewDivs, LeavesDivs
<1>4. \A id \in Divs(result)' : id \in Divs(result)
  <2> SUFFICES ASSUME NEW id \in Ids, form'[id] = "shown", area'[id] = result'
               PROVE  form[id] = "shown" /\ area[id] = result
    BY DEF Divs
  <2>1. form[id] = "shown" /\ area'[id] = area[id]
    BY DEF LeavesDivs
  <2> QED BY <1>1, <1>2, <2>1 DEF LeavesDivs
<1>5. \A id \in Ids : HasResult(id)' <=> HasResult(id)
  BY DEF HasResult, LeavesDivs
<1>6. ASSUME NEW other \in Ids, form[other] \in {"shown", "gone"}, area[other] < result
      PROVE  form'[other] \in {"shown", "gone"} /\ area'[other] < result'
  <2>1. area'[other] = area[other]
    BY <1>6 DEF LeavesDivs
  <2> QED BY <1>1, <1>2, <1>6, <2>1 DEF LeavesDivs
<1>7. BarUntilResult'
  <2> SUFFICES ASSUME NEW id \in Divs(result)'
               PROVE  /\ HasResult(id)' => ~progress'[id]
                      /\ ~progress'[id] => \E other \in Ids :
                           /\ HasResult(other)'
                           /\ other = id \/ (form'[other] \in {"shown", "gone"}
                                               /\ area'[other] < result')
    BY DEF BarUntilResult
  <2>1. id \in Divs(result) /\ id \in Ids /\ progress'[id] = progress[id]
    BY <1>4 DEF Divs, LeavesDivs
  <2>2. HasResult(id)' => ~progress'[id]
    BY <1>5, <2>1 DEF BarUntilResult
  <2>3. ASSUME ~progress[id]
        PROVE  \E other \in Ids :
                 /\ HasResult(other)'
                 /\ other = id \/ (form'[other] \in {"shown", "gone"}
                                     /\ area'[other] < result')
    BY <1>5, <1>6, <2>1, <2>3 DEF BarUntilResult
  <2> QED BY <2>1, <2>2, <2>3
<1> QED BY <1>3, <1>7

\* A new div comes with its bar and without an event.
LEMMA BarComes ==
  ASSUME IInv, NEW id \in Ids, ShowStream(id)
  PROVE  BarUntilResult' /\ NewDivs'
<1>1. /\ form[id] = "answered" /\ UNCHANGED <<area, result, shown>>
      /\ \A i \in Ids : /\ form'[i] = "shown" => i = id \/ form[i] = "shown"
                        /\ form[i] \in {"shown", "gone"} => form'[i] \in {"shown", "gone"}
                        /\ i # id => progress'[i] = progress[i]
      /\ progress'[id] = TRUE
      /\ \A i \in Ids : form'[i] \notin {"shown", "gone"} => form[i] \notin {"shown", "gone"}
  BY DEF ShowStream, Divs, IInv, TypeOK
<1>2. NewDivs'
  BY <1>1 DEF IInv, NewDivs
<1>3. ~HasResult(id)' /\ \A i \in Ids : HasResult(i)' <=> HasResult(i)
  BY <1>1 DEF IInv, NewDivs, HasResult
<1>4. ASSUME NEW i \in Divs(result)', i # id
      PROVE  /\ HasResult(i)' => ~progress'[i]
             /\ ~progress'[i] => \E other \in Ids :
                  /\ HasResult(other)'
                  /\ other = i \/ (form'[other] \in {"shown", "gone"}
                                     /\ area'[other] < result')
  <2>1. i \in Divs(result) /\ i \in Ids /\ progress'[i] = progress[i]
    BY <1>1, <1>4 DEF Divs
  <2> QED BY <1>1, <1>3, <2>1 DEF IInv, BarUntilResult
<1> QED BY <1>1, <1>2, <1>3, <1>4 DEF BarUntilResult

\* An event comes into the div of the document, or into one that Reset left behind.
LEMMA BarGoes ==
  ASSUME IInv, NEW id \in Ids, Deliver(id)
  PROVE  BarUntilResult' /\ NewDivs'
<1> DEFINE event == Head(body[id])
<1>1. /\ UNCHANGED <<area, result, form>> /\ form[id] = "shown"
      /\ body[id] \in Seq(Event) /\ body[id] # <<>> /\ shown[id] \in Seq(Event)
      /\ shown'[id] = Append(shown[id], event)
      /\ \A i \in Ids \ {id} : shown'[i] = shown[i]
      /\ progress' = [i \in Ids |-> progress[i] /\ ~(event.kind = "result" /\ i \in Divs(result))]
  BY DEF Deliver, IInv, TypeOK, OneDiv
<1>2. NewDivs'
  BY <1>1 DEF IInv, NewDivs
<1>3. /\ event \in Event /\ Len(shown[id]) \in Nat
      /\ Len(shown'[id]) = Len(shown[id]) + 1
      /\ \A i \in 1..Len(shown[id]) : shown'[id][i] = shown[id][i]
      /\ shown'[id][Len(shown[id]) + 1] = event
  BY <1>1, TakenAway, Appended, LenProperties
<1>4. HasResult(id)' <=> HasResult(id) \/ event.kind = "result"
  <2>1. \A i \in 1..Len(shown'[id]) : i \in 1..Len(shown[id]) \/ i = Len(shown[id]) + 1
    BY <1>3
  <2>2. /\ \A i \in 1..Len(shown[id]) : i \in 1..Len(shown'[id])
        /\ Len(shown[id]) + 1 \in 1..Len(shown'[id])
    BY <1>3
  <2> QED BY <1>3, <2>1, <2>2 DEF HasResult
<1>5. \A i \in Ids \ {id} : HasResult(i)' <=> HasResult(i)
  BY <1>1 DEF HasResult
<1>6. Divs(result)' = Divs(result)
  BY <1>1 DEF Divs
<1>7. CASE event.kind = "result"
  <2>1. \A i \in Divs(result) : ~progress'[i]
    BY <1>1, <1>7 DEF Divs
  <2>2. \A i \in Divs(result) : i = id \/ area[id] < result
    <3>1. area[id] <= result /\ area[id] \in Nat /\ result \in Nat
      BY DEF IInv, NewDivs, TypeOK
    <3>2. \A i \in Divs(result) : area[id] = result => i = id
      BY <1>1 DEF IInv, OneDiv, Divs
    <3> QED BY <3>1, <3>2
  <2>3. HasResult(id)'
    BY <1>4, <1>7
  <2> QED BY <1>1, <1>2, <1>6, <2>1, <2>2, <2>3 DEF BarUntilResult
<1>8. CASE event.kind # "result"
  <2>1. \A i \in Ids : (progress'[i] <=> progress[i]) /\ (HasResult(i)' <=> HasResult(i))
    BY <1>1, <1>4, <1>5, <1>8
  <2>2. \A i \in Divs(result) : i \in Ids
    BY DEF Divs
  <2> QED BY <1>1, <1>2, <1>6, <2>1, <2>2 DEF IInv, BarUntilResult
<1> QED BY <1>7, <1>8

LEMMA BarStays ==
  ASSUME IInv, [Next]_vars
  PROVE  BarUntilResult' /\ NewDivs'
<1>0. TypeOK /\ OneDiv /\ BarUntilResult /\ NewDivs
  BY DEF IInv
<1>1. ASSUME UNCHANGED <<result, area, form, shown, progress>> PROVE LeavesDivs
  BY <1>1 DEF LeavesDivs
<1>2. ASSUME NEW id \in Ids, Submit(id) PROVE LeavesDivs
  BY <1>0, <1>2 DEF Submit, LeavesDivs, TypeOK, server
<1>3. ASSUME NEW id \in Ids, StoreRequest(id) PROVE LeavesDivs
  BY <1>0, <1>3 DEF StoreRequest, LeavesDivs, TypeOK
<1>4. ASSUME NEW id \in Ids, PostFails(id) PROVE LeavesDivs
  BY <1>0, <1>4 DEF PostFails, LeavesDivs, TypeOK, server
<1>5. ASSUME NEW id \in Ids, StreamEnds(id) \/ ConnectionLost(id) PROVE LeavesDivs
  BY <1>1, <1>5 DEF StreamEnds, ConnectionLost, server
<1>6. ASSUME NEW id \in Ids, Get(id) \/ Report(id) \/ EndTask(id) PROVE LeavesDivs
  BY <1>1, <1>6 DEF Get, Report, EndTask, page
<1>7. ASSUME Investigate PROVE LeavesDivs
  BY <1>0, <1>7 DEF Investigate, Divs, LeavesDivs, TypeOK, server
<1>8. ASSUME Reset PROVE LeavesDivs
  BY <1>8 DEF Reset, LeavesDivs, server
<1>9. ASSUME Restart PROVE LeavesDivs
  BY <1>0, <1>9 DEF Restart, LeavesDivs, TypeOK
<1>10. ASSUME UNCHANGED vars PROVE LeavesDivs
  BY <1>1, <1>10 DEF vars, page
<1> QED
  BY <1>0, <1>2, <1>3, <1>4, <1>5, <1>6, <1>7, <1>8, <1>9, <1>10,
     BarLeft, BarComes, BarGoes DEF Next

-----------------------------------------------------------------------------
\* The conjunction that is inductive holds in every state, for every set of forms.
THEOREM Invariance == Spec => []IInv
<1>1. Init => IInv
  BY InitInvariant
<1>2. IInv /\ [Next]_vars => IInv'
  <2> SUFFICES ASSUME IInv, [Next]_vars PROVE IInv'
    OBVIOUS
  <2>1. TypeOK' /\ AtMostOneRun' /\ Unserved' /\ OneDiv'
    BY TypesPreserved, ServedOnce, OneDivStays DEF IInv
  <2>2. \A id \in Ids : OneStream(id)'
    BY StreamsStay
  <2>3. ShownInOrder' /\ Unstarted' /\ Continues' /\ Complete'
    BY <2>2 DEF ShownInOrder, Unstarted, Continues, Complete, OneStream
  <2> QED BY <2>1, <2>3, BarStays DEF IInv
<1> QED BY <1>1, <1>2, PTL DEF Spec

\* Every variable keeps its type.
THEOREM TypeCorrect == Spec => []TypeOK
<1>1. IInv => TypeOK
  BY DEF IInv
<1> QED BY <1>1, Invariance, PTL

\* However many forms are submitted, restarts there are and times a browser connects
\* again: no input that a POST has left starts a second task.
THEOREM FormsAreServedOnce == Spec => []AtMostOneRun
<1>1. IInv => AtMostOneRun
  BY DEF IInv
<1> QED BY <1>1, Invariance, PTL

\* In every result at most the EventSource of the div in it is alive.
THEOREM OneSourcePerResult == Spec => []OneLiveSource
<1>1. IInv => OneLiveSource
  BY DEF IInv, OneDiv, OneLiveSource, Divs
<1> QED BY <1>1, Invariance, PTL

\* However often a response ends, breaks or is asked for again: what a div shows is what
\* its task sent, from its first event on, in order and without a gap, and nothing after
\* a Result.
THEOREM StreamsAreInOrder == Spec => []ShownInOrder
<1>1. IInv => ShownInOrder
  BY DEF IInv
<1> QED BY <1>1, Invariance, PTL

\* The div in the document has its bar until a Result is shown: its own, after which it has
\* none, or that of a div which Reset left behind.
THEOREM BarsGoWithResults == Spec => []BarUntilResult
<1>1. IInv => BarUntilResult
  BY DEF IInv
<1> QED BY <1>1, Invariance, PTL

-----------------------------------------------------------------------------
(* The main form of the same page, with its address bar: whatever the user *)
(* types, sends and clicks, and however long the history is, the page      *)
(* shares what it shows.                                                   *)

\* An entry written over the address: the history stays as long as it was.
LEMMA EntryReplaced ==
  ASSUME NEW s \in Seq(Texts), NEW i \in 1..Len(s), NEW t \in Texts
  PROVE  /\ [s EXCEPT ![i] = t] \in Seq(Texts)
         /\ Len([s EXCEPT ![i] = t]) = Len(s)
         /\ [s EXCEPT ![i] = t][i] = t
BY ExceptSeq, LenProperties

\* pushState: what was ahead of the address is gone, and the new one is the last.
LEMMA EntryPushed ==
  ASSUME NEW s \in Seq(Texts), NEW i \in 1..Len(s), NEW t \in Texts
  PROVE  LET p == Append(SubSeq(s, 1, i), t)
         IN  p \in Seq(Texts) /\ Len(p) = i + 1 /\ p[i + 1] = t
<1>1. Len(s) \in Nat /\ i \in Nat /\ i >= 1 /\ i <= Len(s)
  BY LenProperties
<1>2. \A k \in 1..i : s[k] \in Texts
  BY <1>1, ElementOfSeq
<1>3. SubSeq(s, 1, i) \in Seq(Texts) /\ Len(SubSeq(s, 1, i)) = i
  BY <1>1, <1>2, SubSeqProperties
<1> QED BY <1>1, <1>3, AppendProperties

\* A request that goes out has the address of its own text.
LEMMA IssueType ==
  ASSUME FormTypeOK, Issue
  PROVE  /\ entries' \in Seq(Texts) /\ at' \in 1..Len(entries')
         /\ waiting' = <<text>> /\ address' = text
         /\ queued' = FALSE /\ moved' = FALSE
<1>1. text \in Texts /\ entries \in Seq(Texts) /\ at \in 1..Len(entries)
  BY DEF FormTypeOK
<1>2. at \in Nat
  BY <1>1, LenProperties
<1>3. /\ entries' \in Seq(Texts) /\ Len(entries') = at + 1
      /\ entries'[at + 1] = text /\ at' = at + 1
  BY <1>1, EntryPushed DEF Issue
<1> QED BY <1>2, <1>3 DEF Issue, address

LEMMA FormInitially == FormInit => FormInv
<1> SUFFICES ASSUME FormInit PROVE FormInv
  OBVIOUS
<1>1. entries \in Seq(Texts) /\ at \in 1..Len(entries) /\ address = text
  BY DEF FormInit, address
<1> QED BY <1>1
        DEF FormInit, FormInv, FormTypeOK, SharesWhatIsShown, AddressInv

\* The end of a request: the one kept back goes out, or none is in flight any more.
LEMMA EndOfRequest ==
  ASSUME FormTypeOK, waiting # <<>>, NEW failed \in BOOLEAN, EndRequest(failed)
  PROVE  /\ entries' \in Seq(Texts) /\ at' \in 1..Len(entries')
         /\ waiting' \in {<<>>} \cup {<<t>> : t \in Texts}
         /\ {queued', moved'} \subseteq BOOLEAN
         /\ queued' => waiting' # <<>>
         /\ waiting' # <<>> => address' = Head(waiting')
         /\ waiting' = <<>> => /\ moved' = (moved \/ failed)
                               /\ address' = address
<1>1. CASE Issue
  <2>1. <<text>> # <<>> /\ Head(<<text>>) = text
    OBVIOUS
  <2> QED BY <1>1, <2>1, IssueType DEF FormTypeOK
<1>2. CASE /\ ~queued /\ waiting' = <<>> /\ moved' = (moved \/ failed)
           /\ UNCHANGED <<entries, at, queued>>
  BY <1>2 DEF FormTypeOK, address
<1> QED BY <1>1, <1>2 DEF EndRequest

LEMMA FormSteps == FormInv /\ [FormNext]_formVars => FormInv'
<1> SUFFICES ASSUME FormInv, [FormNext]_formVars PROVE FormInv'
  OBVIOUS
<1> USE DEF FormInv
<1>1. CASE Type
  BY <1>1
  DEF Type, FormTypeOK, SharesWhatIsShown, AddressInv, address
<1>2. CASE SubmitForm
  <2>1. CASE waiting = <<>> /\ Issue /\ UNCHANGED <<text, shownFor, qr>>
    <3>1. <<text>> # <<>> /\ Head(<<text>>) = text
      OBVIOUS
    <3>2. /\ entries' \in Seq(Texts) /\ at' \in 1..Len(entries')
          /\ waiting' = <<text>> /\ address' = text
          /\ queued' = FALSE /\ moved' = FALSE
          /\ text' = text /\ shownFor' = shownFor /\ qr' = qr
      BY <2>1, IssueType
    <3>3. text \in Texts /\ shownFor \in Texts /\ qr \in Texts
      BY DEF FormTypeOK
    <3>4. FormTypeOK'
      BY <3>1, <3>2, <3>3 DEF FormTypeOK
    <3> QED BY <3>1, <3>2, <3>4 DEF SharesWhatIsShown, AddressInv
  <2>2. CASE /\ waiting # <<>> /\ queued' = TRUE
             /\ UNCHANGED <<entries, at, waiting, moved, text, shownFor, qr>>
    BY <2>2 DEF FormTypeOK, SharesWhatIsShown, AddressInv, address
  <2> QED BY <1>2, <2>1, <2>2 DEF SubmitForm
<1>3. CASE Answer
  <2>1. /\ waiting # <<>> /\ EndRequest(FALSE)
        /\ shownFor' = Head(waiting) /\ qr' = address /\ text' = text
    BY <1>3 DEF Answer
  <2>2. Head(waiting) \in Texts
    BY <2>1 DEF FormTypeOK
  <2>3. address \in Texts
    BY ElementOfSeq DEF FormTypeOK, address
  <2>4. FormTypeOK' /\ AddressInv'
    BY <2>1, <2>2, <2>3, EndOfRequest DEF FormTypeOK, AddressInv
  <2>5. SharesWhatIsShown'
    BY <2>1, EndOfRequest DEF SharesWhatIsShown, AddressInv
  <2> QED BY <2>4, <2>5
<1>4. CASE RequestFails
  <2>1. /\ waiting # <<>> /\ EndRequest(TRUE)
        /\ UNCHANGED <<text, shownFor, qr>>
    BY <1>4 DEF RequestFails
  <2>2. FormTypeOK' /\ AddressInv'
    BY <2>1, EndOfRequest DEF FormTypeOK, AddressInv
  <2>3. SharesWhatIsShown'
    BY <2>1, EndOfRequest DEF SharesWhatIsShown
  <2> QED BY <2>2, <2>3
<1>5. CASE ResetForm
  <2>1. /\ entries' \in Seq(Texts) /\ Len(entries') = Len(entries)
        /\ address' = Empty /\ at' = at
    BY <1>5, FormAssumption, EntryReplaced DEF ResetForm, FormTypeOK, address
  <2> QED BY <1>5, <2>1, FormAssumption
          DEF ResetForm, FormTypeOK, SharesWhatIsShown, AddressInv
<1>6. CASE Go
  <2>1. at' \in 1..Len(entries)
    BY <1>6, LenProperties DEF Go, FormTypeOK
  <2> QED BY <1>6, <2>1 DEF Go, FormTypeOK, SharesWhatIsShown, AddressInv
<1>7. CASE UNCHANGED formVars
  BY <1>7 DEF formVars, FormTypeOK, SharesWhatIsShown, AddressInv, address
<1> QED BY <1>1, <1>2, <1>3, <1>4, <1>5, <1>6, <1>7 DEF FormNext

\* The inductive invariant of the form, its address bar and its result.
THEOREM FormInvariance == FormSpec => []FormInv
BY FormInitially, FormSteps, PTL DEF FormSpec

\* For every history and every order of typing, sending, answers, failures, Reset and
\* Back: while no request is in flight and the address was not moved, the address bar
\* and the QR code have the text of the result.
THEOREM PageSharesItsResult == FormSpec => []SharesWhatIsShown
BY FormInvariance, PTL DEF FormInv
=============================================================================
