--------------------------- MODULE OnionRequest ---------------------------
(***************************************************************************)
(* BOLT-12 invoice requests as detective/src/ldk_node runs them.  Every    *)
(* request is a spawned task with an LdkNode of its own (peer manager,     *)
(* onion messenger, OffersHandler) and an mpsc channel of progress events  *)
(* that the SSE response or the CLI drains.  All nodes are built from one  *)
(* fixed seed, so on the network they are the same node: an answer to one  *)
(* request can come in over the connection of another one.                 *)
(*                                                                         *)
(* A request is named by its payment id, fresh for every call.  A task is  *)
(* cut at its awaits: between two of them nothing else in the process can  *)
(* see an intermediate state.                                              *)
(***************************************************************************)
EXTENDS OnionEvents, Naturals, Sequences, FiniteSets

CONSTANTS
  MaxAddresses,  \* bound: IP addresses the graph has for an introduction node
  Capacity,      \* slots of the event channel (100 in the code)
  MaxInFlight    \* bound: answers travelling at one time

VARIABLES
  pc,        \* where the task of a request stands
  left,      \* addresses resolve_and_connect has still to try
  outcome,   \* the task's `result`, once it has one
  queue,     \* events sent and not yet received
  consumer,  \* the receiving half of the event channel
  last,      \* the event the consumer received last
  conn,      \* a node's connection to the introduction peer
  asked,     \* requests whose onion message was buffered for the peer
  net,       \* answers on their way to us
  pending,   \* OffersHandler::pending, the ids registered with a node
  response   \* what was sent through the oneshot of a request

task    == <<pc, left, outcome>>
channel == <<queue, consumer, last>>
network == <<conn, asked, net>>
handler == <<pending, response>>
vars    == <<task, channel, network, handler>>

-----------------------------------------------------------------------------
Labels == {"idle", "start", "download", "build", "resolving", "lookup", "resolved",
           "next_address", "connect", "connect_error", "connected", "waiting",
           "handshake", "handshaked", "register", "sending", "send", "sent",
           "await", "finish", "done"}

ASSUME ConstantsAssumption ==
  /\ MaxAddresses \in Nat
  /\ Capacity \in Nat \ {0}
  /\ MaxInFlight \in Nat

TypeOK ==
  /\ pc \in [Requests -> Labels]
  /\ left \in [Requests -> Nat]
  /\ outcome \in [Requests -> Outcome \cup {None}]
  /\ queue \in [Requests -> Seq(Events)]
  /\ consumer \in [Requests -> {"none", "reading", "ended", "gone"}]
  /\ last \in [Requests -> Events \cup {None}]
  /\ conn \in [Requests -> {"none", "handshaking", "up", "lost"}]
  /\ asked \subseteq Requests
  /\ net \subseteq Message
  /\ pending \in [Requests -> SUBSET Requests]
  /\ response \in [Requests -> Outcome \cup {None}]

Init ==
  /\ pc = [r \in Requests |-> "idle"]
  /\ left = [r \in Requests |-> 0]
  /\ outcome = [r \in Requests |-> None]
  /\ queue = [r \in Requests |-> <<>>]
  /\ consumer = [r \in Requests |-> "none"]
  /\ last = [r \in Requests |-> None]
  /\ conn = [r \in Requests |-> "none"]
  /\ asked = {}
  /\ net = {}
  /\ pending = [r \in Requests |-> {}]
  /\ response = [r \in Requests |-> None]

-----------------------------------------------------------------------------
(* Steps every task is made of.                                            *)

GoTo(r, l) == pc' = [pc EXCEPT ![r] = l]

\* An Err that `?`, `ensure!` or `bail!` carries out of the impl function.
Fail(r) ==
  /\ GoTo(r, "finish")
  /\ outcome' = [outcome EXCEPT ![r] = Failure]

\* Mutant of Emit: `let _ = events.send(e).await`.
EmitIgnoringErrors(r, e, next) ==
  /\ \/ consumer[r] = "reading" /\ Len(queue[r]) < Capacity
        /\ queue' = [queue EXCEPT ![r] = Append(@, e)]
     \/ consumer[r] = "gone" /\ UNCHANGED queue
  /\ GoTo(r, next)
  /\ UNCHANGED <<outcome, consumer, last, network, handler>>

\* `events.send(e).await?`: waits for a slot; fails once the receiver is gone.
Emit(r, e, next) ==
  /\ \/ /\ consumer[r] = "reading"
        /\ Len(queue[r]) < Capacity
        /\ queue' = [queue EXCEPT ![r] = Append(@, e)]
        /\ GoTo(r, next)
        /\ UNCHANGED outcome
     \/ /\ consumer[r] = "gone"
        /\ Fail(r)
        /\ UNCHANGED queue
  /\ UNCHANGED <<consumer, last, network, handler>>

\* A step that only decides where to go on.
Local(r) == UNCHANGED <<left, channel, network, handler>>

-----------------------------------------------------------------------------
(* The task of a request, in the order of the code.                        *)

Spawn(r) ==
  /\ pc[r] = "idle"
  /\ GoTo(r, "start")
  /\ consumer' = [consumer EXCEPT ![r] = "reading"]
  /\ UNCHANGED <<left, outcome, queue, last, network, handler>>

\* node.start() up to its await: a snapshot file that may still be used is applied,
\* or is bad, or there is none.
Start(r) ==
  /\ pc[r] = "start"
  /\ \/ GoTo(r, "build") /\ UNCHANGED outcome
     \/ GoTo(r, "download") /\ UNCHANGED outcome
     \/ Fail(r)
  /\ Local(r)

\* The rest of node.start(): `reqwest::get`, which has no timeout, comes to an end
\* and its snapshot is applied, or something of this fails.
Download(r) ==
  /\ pc[r] = "download"
  /\ \/ GoTo(r, "build") /\ UNCHANGED outcome
     \/ Fail(r)
  /\ Local(r)

\* The chain check and the invoice-request builder.
Build(r) ==
  /\ pc[r] = "build"
  /\ \/ GoTo(r, "resolving") /\ UNCHANGED outcome
     \/ Fail(r)
  /\ Local(r)

Resolving(r) == pc[r] = "resolving" /\ Emit(r, "Resolving", "lookup") /\ UNCHANGED left

\* Channel, node or its addresses are missing from the graph, or n of the
\* addresses are IP addresses.
Lookup(r) ==
  /\ pc[r] = "lookup"
  /\ \/ /\ GoTo(r, "resolved")
        /\ \E n \in 0..MaxAddresses : left' = [left EXCEPT ![r] = n]
        /\ UNCHANGED outcome
     \/ Fail(r) /\ UNCHANGED left
  /\ UNCHANGED <<channel, network, handler>>

Resolved(r) == pc[r] = "resolved" /\ Emit(r, "Resolved", "next_address") /\ UNCHANGED left

\* Mutant of Connecting: an index that runs over the end of the addresses.
ConnectingPastEnd(r) ==
  /\ pc[r] = "next_address"
  /\ Emit(r, "Connecting", "connect")
  /\ left' = [left EXCEPT ![r] = @ - 1]

Connecting(r) ==
  /\ pc[r] = "next_address" /\ left[r] > 0
  /\ Emit(r, "Connecting", "connect")
  /\ left' = [left EXCEPT ![r] = @ - 1]

AllAddressesFailed(r) ==
  /\ pc[r] = "next_address" /\ left[r] = 0
  /\ Fail(r)
  /\ Local(r)

\* The TCP connection is made, or is refused, or takes over ten seconds.
ConnectPeer(r) ==
  /\ pc[r] = "connect"
  /\ \/ GoTo(r, "connected") /\ conn' = [conn EXCEPT ![r] = "handshaking"]
     \/ GoTo(r, "connect_error") /\ UNCHANGED conn
  /\ UNCHANGED <<left, outcome, channel, asked, net, handler>>

ConnectionError(r) ==
  /\ pc[r] = "connect_error"
  /\ Emit(r, "ConnectionError", "next_address")
  /\ UNCHANGED left

Connected(r) == pc[r] = "connected" /\ Emit(r, "Connected", "waiting") /\ UNCHANGED left

WaitingForHandshake(r) ==
  /\ pc[r] = "waiting"
  /\ Emit(r, "WaitingForHandshake", "handshake")
  /\ UNCHANGED left

\* Mutant of AwaitHandshake: no timeout.
AwaitHandshakeForever(r) ==
  /\ pc[r] = "handshake"
  /\ conn[r] = "up" /\ GoTo(r, "handshaked") /\ UNCHANGED outcome
  /\ Local(r)

\* The poll that ends wait_for_handshake: it finds the peer, or a minute is
\* over and the peer is not there.  The other addresses are not tried.
AwaitHandshake(r) ==
  /\ pc[r] = "handshake"
  /\ \/ conn[r] = "up" /\ GoTo(r, "handshaked") /\ UNCHANGED outcome
     \/ conn[r] # "up" /\ Fail(r)
  /\ Local(r)

Handshaked(r) == pc[r] = "handshaked" /\ Emit(r, "Handshaked", "register") /\ UNCHANGED left

Register(r) ==
  /\ pc[r] = "register"
  /\ IF r \in pending[r]
     THEN Fail(r) /\ UNCHANGED pending
     ELSE /\ pending' = [pending EXCEPT ![r] = @ \cup {r}]
          /\ GoTo(r, "sending")
          /\ UNCHANGED outcome
  /\ UNCHANGED <<left, channel, network, response>>

SendingOnion(r) == pc[r] = "sending" /\ Emit(r, "SendingOnion", "send") /\ UNCHANGED left

\* send_onion_message buffers for a connected peer; it fails without one, and
\* may fail for reasons of its own.  The registration stays in either case.
SendOnionMessage(r) ==
  /\ pc[r] = "send"
  /\ \/ /\ conn[r] = "up"
        /\ asked' = asked \cup {r}
        /\ GoTo(r, "sent")
        /\ UNCHANGED outcome
     \/ Fail(r) /\ UNCHANGED asked
  /\ UNCHANGED <<left, channel, conn, net, handler>>

OnionSent(r) == pc[r] = "sent" /\ Emit(r, "OnionSent", "await") /\ UNCHANGED left

\* An InvoiceError is an answer to the handler and an Err to the caller.
ResultOf(res) == [ok |-> res.ok /\ res.message.kind # "error", message |-> res.message]

\* `response_rx.await`: no timeout, and the receiver of the events is not looked at.
AwaitResponse(r) ==
  /\ pc[r] = "await"
  /\ response[r] # None
  /\ outcome' = [outcome EXCEPT ![r] = ResultOf(response[r])]
  /\ GoTo(r, "finish")
  /\ Local(r)

\* Mutants of Finish: the last send is not allowed to fail; it is a try_send, which
\* drops the Result when the channel is full.
FinishInsisting(r) ==
  /\ pc[r] = "finish"
  /\ consumer[r] = "reading"
  /\ Len(queue[r]) < Capacity
  /\ queue' = [queue EXCEPT ![r] = Append(@, "Result")]
  /\ GoTo(r, "done")
  /\ UNCHANGED <<left, outcome, consumer, last, network, handler>>

FinishTrySend(r) ==
  /\ pc[r] = "finish"
  /\ IF consumer[r] = "reading" /\ Len(queue[r]) < Capacity
     THEN queue' = [queue EXCEPT ![r] = Append(@, "Result")]
     ELSE UNCHANGED queue
  /\ GoTo(r, "done")
  /\ UNCHANGED <<left, outcome, consumer, last, network, handler>>

\* `let _ = tx.send(Result(..)).await`, then both senders are dropped.
Finish(r) ==
  /\ pc[r] = "finish"
  /\ \/ /\ consumer[r] = "reading"
        /\ Len(queue[r]) < Capacity
        /\ queue' = [queue EXCEPT ![r] = Append(@, "Result")]
     \/ consumer[r] = "gone" /\ UNCHANGED queue
  /\ GoTo(r, "done")
  /\ UNCHANGED <<left, outcome, consumer, last, network, handler>>

Task(r) ==
  \/ Start(r) \/ Download(r) \/ Build(r) \/ Resolving(r) \/ Lookup(r) \/ Resolved(r)
  \/ Connecting(r) \/ AllAddressesFailed(r) \/ ConnectPeer(r)
  \/ ConnectionError(r) \/ Connected(r) \/ WaitingForHandshake(r)
  \/ AwaitHandshake(r) \/ Handshaked(r) \/ Register(r) \/ SendingOnion(r)
  \/ SendOnionMessage(r) \/ OnionSent(r) \/ AwaitResponse(r) \/ Finish(r)

-----------------------------------------------------------------------------
(* The receiving half of the channel.                                      *)

Receive(r) ==
  /\ consumer[r] = "reading" /\ queue[r] # <<>>
  /\ last' = [last EXCEPT ![r] = Head(queue[r])]
  /\ queue' = [queue EXCEPT ![r] = Tail(@)]
  /\ UNCHANGED <<task, consumer, network, handler>>

StreamEnds(r) ==
  /\ consumer[r] = "reading" /\ queue[r] = <<>> /\ pc[r] = "done"
  /\ consumer' = [consumer EXCEPT ![r] = "ended"]
  /\ UNCHANGED <<task, queue, last, network, handler>>

\* The client closes its EventSource: the response body, and the receiver and
\* what it holds with it, are dropped.
Leave(r) ==
  /\ consumer[r] = "reading"
  /\ consumer' = [consumer EXCEPT ![r] = "gone"]
  /\ queue' = [queue EXCEPT ![r] = <<>>]
  /\ UNCHANGED <<task, last, network, handler>>

-----------------------------------------------------------------------------
(* Connections, the payee and the onion messages between us.  A connection  *)
(* belongs to the peer manager and outlives the task.                       *)

HandshakeCompletes(r) ==
  /\ conn[r] = "handshaking"
  /\ conn' = [conn EXCEPT ![r] = "up"]
  /\ UNCHANGED <<task, channel, asked, net, handler>>

ConnectionLost(r) ==
  /\ conn[r] \in {"handshaking", "up"}
  /\ conn' = [conn EXCEPT ![r] = "lost"]
  /\ UNCHANGED <<task, channel, asked, net, handler>>

\* A payee answers as often as it likes, and may send an invoice it made for
\* another of its requests along this reply path.
PayeeAnswers(m) ==
  /\ m.via \in asked /\ m.payer \in asked
  /\ m.kind # "invoice" => m.payer = m.via
  /\ m \notin net
  /\ Cardinality(net) < MaxInFlight
  /\ net' = net \cup {m}
  /\ UNCHANGED <<task, channel, conn, asked, handler>>

MessageLost(m) ==
  /\ m \in net
  /\ net' = net \ {m}
  /\ UNCHANGED <<task, channel, conn, asked, handler>>

-----------------------------------------------------------------------------
(* OffersHandler.                                                          *)

\* The oneshot receiver lives from `register` until the task leaves request_invoice.
Listening(r) == pc[r] \in {"sending", "send", "sent", "await"}

\* Mutants of Resolve: the entry is read and not removed; an Err is not sent on.
ResolveKeepingEntry(n, id, res) ==
  IF id \in pending[n]
  THEN /\ response' = IF Listening(id) THEN [response EXCEPT ![id] = res] ELSE response
       /\ UNCHANGED pending
  ELSE UNCHANGED handler

ResolveOnlyOk(n, id, res) ==
  IF id \in pending[n]
  THEN /\ pending' = [pending EXCEPT ![n] = @ \ {id}]
       /\ response' = IF Listening(id) /\ res.ok THEN [response EXCEPT ![id] = res]
                      ELSE response
  ELSE UNCHANGED handler

\* OffersHandler::resolve on the handler of node n.
Resolve(n, id, res) ==
  IF id \in pending[n]
  THEN /\ pending' = [pending EXCEPT ![n] = @ \ {id}]
       /\ response' = IF Listening(id) THEN [response EXCEPT ![id] = res] ELSE response
  ELSE UNCHANGED handler

\* Mutant of ResponseTo: invoices are not verified.
ResponseUnverified(m) == [ok |-> TRUE, message |-> m]

\* An invoice is checked against the payment id of its context; static
\* invoices and errors are taken as they are.
ResponseTo(m) == [ok |-> m.kind = "invoice" => m.payer = m.via, message |-> m]

\* Mutant of HandleMessage: a node has one request, so resolve that one.
HandleMessageByNode(n, m) ==
  /\ m \in net /\ conn[n] = "up"
  /\ net' = net \ {m}
  /\ Resolve(n, n, ResponseTo(m))
  /\ UNCHANGED <<task, channel, conn, asked>>

\* handle_message in the node n over whose connection the answer came.  Every
\* node has the keys to open it.
HandleMessage(n, m) ==
  /\ m \in net /\ conn[n] = "up"
  /\ net' = net \ {m}
  /\ Resolve(n, m.via, ResponseTo(m))
  /\ UNCHANGED <<task, channel, conn, asked>>

-----------------------------------------------------------------------------
Next ==
  \/ \E r \in Requests :
       \/ Spawn(r) \/ Task(r)
       \/ Receive(r) \/ StreamEnds(r) \/ Leave(r)
       \/ HandshakeCompletes(r) \/ ConnectionLost(r)
  \/ \E m \in Message :
       \/ PayeeAnswers(m) \/ MessageLost(m)
       \/ \E n \in Requests : HandleMessage(n, m)

Spec == Init /\ [][Next]_vars

\* The runtime polls every task that can go on (the connect and handshake
\* waits have timeouts), and a client that has not left keeps reading.  The
\* download of the snapshot and the answer of the payee need not come.
Fairness ==
  \A r \in Requests : /\ WF_vars(pc[r] # "download" /\ Task(r))
                      /\ WF_vars(Receive(r) \/ StreamEnds(r))

FairSpec == Spec /\ Fairness
-----------------------------------------------------------------------------
(* Properties.                                                             *)

\* A request whose onion message is out and whose task has not left request_invoice
\* is registered with its node or has its answer in the oneshot, and never both
\* (node.rs:260-278, offers_handler.rs:50-55).  An answer that comes in at its own
\* node before any other is not lost, then; one at another node is dropped there.
NoLostAnswer ==
  \A r \in asked :
    Listening(r) => (r \in pending[r]) # (response[r] # None)

\* Nodes share keys but not registrations: an id is registered with its own
\* node only, so an answer that comes in over the connection of another
\* request is dropped there and never given to that request, and a response
\* always came along the request's own reply path (offers_handler.rs:65-90).
OwnRegistrations ==
  /\ \A n \in Requests : pending[n] \subseteq {n}
  /\ \A r \in Requests : response[r] # None => response[r].message.via = r

\* The first answer is final: later and duplicated answers change neither the
\* response nor the outcome of a request (offers_handler.rs:50-55).
FirstAnswerWins ==
  [][\A r \in Requests :
       /\ response[r] # None => response'[r] = response[r]
       /\ outcome[r] # None => outcome'[r] = outcome[r]]_vars

\* A request whose client has left enters no connection attempt, handshake wait,
\* send or answer wait it was not in already (every `events.send(..).await?` of
\* node.rs:197-336).  Only the download of the snapshot, which comes before the first
\* event, is still begun for nobody.
NothingForNobody ==
  [][\A r \in Requests :
       consumer[r] = "gone" /\ pc'[r] \in {"connect", "handshake", "send", "await"}
         => pc'[r] = pc[r]]_vars

\* What makes the two invariants inductive.  A registration is made once, at the
\* "register" step; an answer exists only for a request that was sent; a response
\* takes the place of the registration and is what the checks of handle_message
\* made of an answer that came along the request's own reply path.
BeforeRegister == {"idle", "start", "download", "build", "resolving", "lookup",
                   "resolved", "next_address", "connect", "connect_error",
                   "connected", "waiting", "handshake", "handshaked", "register"}

Accounted(r) ==
  /\ pending[r] \subseteq {r}
  /\ pc[r] \in BeforeRegister => pending[r] = {} /\ response[r] = None
  /\ Listening(r) => r \in pending[r] \/ response[r] # None
  /\ response[r] # None => /\ r \notin pending[r]
                           /\ r \in asked
                           /\ response[r].message \in Message
                           /\ response[r].message.via = r
                           /\ response[r] = ResponseTo(response[r].message)

RegistrationInv ==
  /\ \A m \in net : m.via \in asked
  /\ \A r \in asked : pc[r] \in {"sent", "await", "finish", "done"}
  /\ \A r \in Requests : Accounted(r)

OutcomeInv ==
  \A r \in Requests :
    /\ outcome[r] # None <=> pc[r] \in {"finish", "done"}
    /\ outcome[r] # None /\ outcome[r].ok =>
         /\ response[r] # None
         /\ response[r].message.kind # "error"
         /\ outcome[r] = response[r]

IInv == TypeOK /\ RegistrationInv /\ OutcomeInv

Service == INSTANCE InvoiceService
             WITH asked <- asked, outcome <- outcome, last <- last

\* What makes the order of the events inductive: the event before the i-th in the
\* channel, the event sent last, and what that can be where a task stands.
Previous(r, i) == IF i = 1 THEN last[r] ELSE queue[r][i - 1]

LastSent(r) == IF queue[r] = <<>> THEN last[r] ELSE queue[r][Len(queue[r])]

SentAt(r) ==
  CASE pc[r] \in {"idle", "start", "download", "build", "resolving"} -> {None}
    [] pc[r] \in {"lookup", "resolved"}                         -> {"Resolving"}
    [] pc[r] = "next_address"                     -> {"Resolved", "ConnectionError"}
    [] pc[r] \in {"connect", "connect_error", "connected"}      -> {"Connecting"}
    [] pc[r] = "waiting"                                        -> {"Connected"}
    [] pc[r] \in {"handshake", "handshaked"}              -> {"WaitingForHandshake"}
    [] pc[r] \in {"register", "sending"}                        -> {"Handshaked"}
    [] pc[r] \in {"send", "sent"}                               -> {"SendingOnion"}
    [] pc[r] = "await"                                          -> {"OnionSent"}
    [] pc[r] = "finish"  -> IF outcome[r].ok THEN {"OnionSent"}
                            ELSE (Events \ {"Result"}) \cup {None}
    [] OTHER                                                    -> {"Result"}

Ordered(r) ==
  /\ LastSent(r) \in SentAt(r)
  /\ \A i \in 1..Len(queue[r]) :
       /\ queue[r][i] \in Service!After(Previous(r, i))
       /\ queue[r][i] = "Result" =>
            pc[r] = "done" /\ (outcome[r].ok => Previous(r, i) = "OnionSent")

FreshInv == \A r \in Requests : pc[r] = "idle" => consumer[r] = "none"

StreamInv ==
  \A r \in Requests :
    /\ consumer[r] # "gone" => Ordered(r)
    /\ consumer[r] = "gone" => queue[r] = <<>>

\* The requests keep the promise of InvoiceService: the order of the events the
\* client sees, at most one Result, and an Ok only with an answer to this request
\* (mod.rs:16-40).
KeepsPromise == Service!Spec

\* The snapshot service and the payee are all that is waited for without a limit:
\* whatever peers do, and while clients read on or leave, a request comes to one of these
\* two waits or ends, and once past the first to the second or an end
\* (rgs_graph.rs:86, node.rs:276, 338-369).
WaitsForOthersOnly ==
  \A r \in Requests : pc[r] # "idle" ~> pc[r] \in {"download", "await", "done"}

\* A request that was answered ends, also when its client has gone meanwhile.
AnswerEndsRequest ==
  \A r \in Requests : response[r] # None ~> pc[r] = "done"

\* A client that stays sees the stream of an ended request close, with a Result
\* as the last event (mod.rs:37-39).
ResultReachesClient ==
  \A r \in Requests :
    pc[r] = "done" ~> consumer[r] = "gone" \/ (consumer[r] = "ended" /\ last[r] = "Result")
=============================================================================
