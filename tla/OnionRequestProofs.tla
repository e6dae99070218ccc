------------------------ MODULE OnionRequestProofs ------------------------
(***************************************************************************)
(* Theorems about OnionRequest for every set of requests, every channel    *)
(* capacity and every number of addresses and answers in flight.           *)
(***************************************************************************)
EXTENDS OnionRequest, SequenceTheorems, TLAPS

-----------------------------------------------------------------------------
(* Types of the pieces the steps are made of.                              *)

\* An Err taken out of the task is an outcome.
LEMMA FailureIsOutcome == Failure \in Outcome
BY DEF Failure, Outcome

\* What the handler makes of an answer is an outcome, and so is what the task
\* makes of that.
LEMMA ResponseIsOutcome ==
  /\ \A m \in Message : ResponseTo(m) \in Outcome
  /\ \A res \in Outcome : ResultOf(res) \in Outcome
BY DEF ResponseTo, ResultOf, Outcome

\* The places the steps of a task jump to, and the events it sends.
LEMMA Names ==
  /\ {"start", "download", "build", "resolving", "lookup", "resolved", "next_address",
      "connect", "connect_error", "connected", "waiting", "handshake",
      "handshaked", "register", "sending", "send", "sent", "await", "finish",
      "done"} \subseteq Labels
  /\ {"Resolving", "Resolved", "Connecting", "ConnectionError", "Connected",
      "WaitingForHandshake", "Handshaked", "SendingOnion", "OnionSent",
      "Result"} \subseteq Events
BY DEF Labels, Events

\* A failing task keeps the types of its own state.
LEMMA FailType ==
  ASSUME TypeOK, NEW r \in Requests, Fail(r)
  PROVE  pc' \in [Requests -> Labels] /\ outcome' \in [Requests -> Outcome \cup {None}]
BY FailureIsOutcome DEF TypeOK, Fail, GoTo, Labels

\* So does a jump to one of the labels.
LEMMA GoToType ==
  ASSUME TypeOK, NEW r \in Requests, NEW l \in Labels, GoTo(r, l)
  PROVE  pc' \in [Requests -> Labels]
BY DEF TypeOK, GoTo

\* Sending an event, or failing to, keeps the types of all but `left`.
LEMMA EmitType ==
  ASSUME TypeOK, NEW r \in Requests, NEW e \in Events, NEW l \in Labels, Emit(r, e, l),
         left' \in [Requests -> Nat]
  PROVE  TypeOK'
<1>1. /\ pc' \in [Requests -> Labels]
      /\ outcome' \in [Requests -> Outcome \cup {None}]
      /\ queue' \in [Requests -> Seq(Events)]
  <2>1. CASE Fail(r) /\ UNCHANGED queue
    BY <2>1, FailType DEF TypeOK
  <2>2. CASE GoTo(r, l) /\ UNCHANGED outcome /\ queue' = [queue EXCEPT ![r] = Append(@, e)]
    <3>1. Append(queue[r], e) \in Seq(Events)
      BY DEF TypeOK
    <3>2. QED
      BY <2>2, <3>1, GoToType DEF TypeOK
  <2>3. QED
    BY <2>1, <2>2 DEF Emit
<1>2. QED
  BY <1>1 DEF Emit, TypeOK, network, handler

-----------------------------------------------------------------------------
(* Type correctness.                                                       *)

\* A step of a task keeps the state well typed.
LEMMA TaskType ==
  ASSUME TypeOK, NEW r \in Requests, Task(r)
  PROVE  TypeOK'
<1> USE DEF Local, channel, network, handler
<1>1. CASE Start(r)
  BY <1>1, Names, GoToType, FailType DEF Start, TypeOK
<1>d. CASE Download(r)
  BY <1>d, Names, GoToType, FailType DEF Download, TypeOK
<1>2. CASE Build(r)
  BY <1>2, Names, GoToType, FailType DEF Build, TypeOK
<1>3. CASE Resolving(r)
  BY <1>3, Names, EmitType DEF Resolving, TypeOK
<1>4. CASE Lookup(r)
  <2>1. pc' \in [Requests -> Labels] /\ outcome' \in [Requests -> Outcome \cup {None}]
    BY <1>4, Names, GoToType, FailType DEF Lookup, TypeOK
  <2>2. left' \in [Requests -> Nat]
    <3>1. \A n \in 0..MaxAddresses : [left EXCEPT ![r] = n] \in [Requests -> Nat]
      BY ConstantsAssumption DEF TypeOK
    <3>2. QED
      BY <1>4, <3>1, ZenonT(40) DEF Lookup, TypeOK
  <2>3. QED
    BY <1>4, <2>1, <2>2 DEF Lookup, TypeOK
<1>5. CASE Resolved(r)
  BY <1>5, Names, EmitType DEF Resolved, TypeOK
<1>6. CASE Connecting(r)
  <2>1. left' \in [Requests -> Nat]
    BY <1>6 DEF Connecting, TypeOK
  <2>2. QED
    BY <1>6, <2>1, Names, EmitType DEF Connecting
<1>7. CASE AllAddressesFailed(r)
  BY <1>7, FailType DEF AllAddressesFailed, TypeOK
<1>8. CASE ConnectPeer(r)
  BY <1>8, Names, GoToType, ZenonT(40) DEF ConnectPeer, TypeOK
<1>9. CASE ConnectionError(r)
  BY <1>9, Names, EmitType DEF ConnectionError, TypeOK
<1>10. CASE Connected(r)
  BY <1>10, Names, EmitType DEF Connected, TypeOK
<1>11. CASE WaitingForHandshake(r)
  BY <1>11, Names, EmitType DEF WaitingForHandshake, TypeOK
<1>12. CASE AwaitHandshake(r)
  BY <1>12, Names, GoToType, FailType DEF AwaitHandshake, TypeOK
<1>13. CASE Handshaked(r)
  BY <1>13, Names, EmitType DEF Handshaked, TypeOK
<1>14. CASE Register(r)
  <2>1. pending' \in [Requests -> SUBSET Requests]
    <3>1. pending[r] \cup {r} \in SUBSET Requests
      BY DEF TypeOK
    <3>2. QED
      BY <1>14, <3>1, ZenonT(40) DEF Register, TypeOK
  <2>2. pc' \in [Requests -> Labels] /\ outcome' \in [Requests -> Outcome \cup {None}]
    BY <1>14, Names, GoToType, FailType DEF Register, TypeOK
  <2>3. QED
    BY <1>14, <2>1, <2>2 DEF Register, TypeOK
<1>15. CASE SendingOnion(r)
  BY <1>15, Names, EmitType DEF SendingOnion, TypeOK
<1>16. CASE SendOnionMessage(r)
  BY <1>16, Names, GoToType, FailType DEF SendOnionMessage, TypeOK
<1>17. CASE OnionSent(r)
  BY <1>17, Names, EmitType DEF OnionSent, TypeOK
<1>18. CASE AwaitResponse(r)
  <2>1. outcome' \in [Requests -> Outcome \cup {None}]
    BY <1>18, ResponseIsOutcome DEF AwaitResponse, TypeOK
  <2>2. QED
    BY <1>18, <2>1, Names, GoToType DEF AwaitResponse, TypeOK
<1>19. CASE Finish(r)
  <2>1. queue' \in [Requests -> Seq(Events)]
    <3>1. Append(queue[r], "Result") \in Seq(Events)
      BY Names DEF TypeOK
    <3>2. QED
      BY <1>19, <3>1 DEF Finish, TypeOK
  <2>2. QED
    BY <1>19, <2>1, Names, GoToType DEF Finish, TypeOK
<1>20. QED
  BY <1>1, <1>2, <1>3, <1>4, <1>5, <1>6, <1>7, <1>8, <1>9, <1>10, <1>11, <1>12,
     <1>13, <1>14, <1>15, <1>16, <1>17, <1>18, <1>19, <1>d DEF Task

\* Taking an event from the channel keeps the state well typed.
LEMMA ReceiveType ==
  ASSUME TypeOK, NEW r \in Requests, Receive(r)
  PROVE  TypeOK'
<1>1. Head(queue[r]) \in Events /\ Tail(queue[r]) \in Seq(Events)
  BY DEF Receive, TypeOK
<1>2. /\ last' \in [Requests -> Events \cup {None}]
      /\ queue' \in [Requests -> Seq(Events)]
  BY <1>1 DEF Receive, TypeOK
<1>3. QED
  BY <1>2 DEF Receive, TypeOK, task, network, handler

\* So does delivering an answer, to whichever node.
LEMMA HandleMessageType ==
  ASSUME TypeOK, NEW m \in Message, NEW n \in Requests, HandleMessage(n, m)
  PROVE  TypeOK'
<1>1. pending[n] \ {m.via} \in SUBSET Requests /\ m.via \in Requests
  BY DEF TypeOK, Message
<1>2. ResponseTo(m) \in Outcome
  BY ResponseIsOutcome
<1>3. pending' \in [Requests -> SUBSET Requests]
  BY <1>1 DEF HandleMessage, Resolve, TypeOK, handler
<1>4. response' \in [Requests -> Outcome \cup {None}]
  BY <1>1, <1>2 DEF HandleMessage, Resolve, TypeOK, handler
<1>5. QED
  BY <1>3, <1>4 DEF HandleMessage, TypeOK, task, channel

\* The state stays well typed (all of node.rs:191-381 and offers_handler.rs:39-92).
THEOREM TypeCorrect == Spec => []TypeOK
<1>1. Init => TypeOK
  BY DEF Init, TypeOK, Labels
<1>2. TypeOK /\ [Next]_vars => TypeOK'
  <2> SUFFICES ASSUME TypeOK, [Next]_vars PROVE TypeOK'
    OBVIOUS
  <2> USE DEF task, channel, network, handler
  <2>1. ASSUME NEW r \in Requests, Spawn(r) PROVE TypeOK'
    BY <2>1, Names, GoToType DEF Spawn, TypeOK
  <2>2. ASSUME NEW r \in Requests, Task(r) \/ Receive(r) PROVE TypeOK'
    BY <2>2, TaskType, ReceiveType
  <2>3. ASSUME NEW r \in Requests, StreamEnds(r) PROVE TypeOK'
    BY <2>3 DEF StreamEnds, TypeOK
  <2>4. ASSUME NEW r \in Requests, Leave(r) PROVE TypeOK'
    <3>1. queue' \in [Requests -> Seq(Events)]
      BY <2>4, <<>> \in Seq(Events) DEF Leave, TypeOK
    <3>2. QED
      BY <2>4, <3>1 DEF Leave, TypeOK
  <2>5. ASSUME NEW r \in Requests, HandshakeCompletes(r) \/ ConnectionLost(r) PROVE TypeOK'
    BY <2>5, ZenonT(40) DEF HandshakeCompletes, ConnectionLost, TypeOK
  <2>6. ASSUME NEW m \in Message, PayeeAnswers(m) \/ MessageLost(m) PROVE TypeOK'
    BY <2>6 DEF PayeeAnswers, MessageLost, TypeOK
  <2>7. ASSUME NEW m \in Message, NEW n \in Requests, HandleMessage(n, m) PROVE TypeOK'
    BY <2>7, HandleMessageType
  <2>8. CASE UNCHANGED vars
    BY <2>8 DEF vars, TypeOK
  <2>9. QED
    BY <2>1, <2>2, <2>3, <2>4, <2>5, <2>6, <2>7, <2>8 DEF Next
<1>3. QED
  BY <1>1, <1>2, PTL DEF Spec

-----------------------------------------------------------------------------
(* The inductive invariant.                                                *)

Core == RegistrationInv /\ OutcomeInv

\* A task that fails leaves its registration and its response as they are.
LEMMA FailInv ==
  ASSUME IInv, NEW r \in Requests, Fail(r), pc[r] \notin {"finish", "done"},
         UNCHANGED <<asked, net, handler>>
  PROVE  Core'
<1> USE DEF IInv, TypeOK, Fail, GoTo, handler
<1>1. RegistrationInv'
  BY DEF RegistrationInv, Accounted, Listening, BeforeRegister, ResponseTo
<1>2. OutcomeInv'
  <2>1. Failure # None /\ ~Failure.ok
    BY NoneAssumption, FailureIsOutcome DEF Failure
  <2>2. QED
    BY <2>1 DEF OutcomeInv
<1>3. QED
  BY <1>1, <1>2 DEF Core

\* A task that goes on before it has registered.
LEMMA EarlyInv ==
  ASSUME IInv, NEW r \in Requests, NEW l \in BeforeRegister, GoTo(r, l),
         pc[r] \in BeforeRegister, UNCHANGED <<asked, net, handler, outcome>>
  PROVE  Core'
<1> USE DEF IInv, TypeOK, GoTo, handler, BeforeRegister
<1>1. RegistrationInv'
  BY DEF RegistrationInv, Accounted, Listening, ResponseTo
<1>2. OutcomeInv'
  BY DEF OutcomeInv
<1>3. QED
  BY <1>1, <1>2 DEF Core

\* A task that goes on while it listens for its answer.
LEMMA ListeningInv ==
  ASSUME IInv, NEW r \in Requests, NEW l \in {"send", "sent", "await"}, GoTo(r, l),
         Listening(r), r \in asked => l \in {"sent", "await"},
         UNCHANGED <<asked, net, handler, outcome>>
  PROVE  Core'
<1> USE DEF IInv, TypeOK, GoTo, handler, Listening
<1>1. RegistrationInv'
  BY DEF RegistrationInv, Accounted, BeforeRegister, ResponseTo
<1>2. OutcomeInv'
  BY DEF OutcomeInv
<1>3. QED
  BY <1>1, <1>2 DEF Core

\* A step of a task keeps the invariant.
LEMMA TaskInv ==
  ASSUME IInv, NEW r \in Requests, Task(r)
  PROVE  Core'
<1> USE DEF BeforeRegister
<1>1. CASE Start(r)
  BY <1>1, FailInv, EarlyInv DEF Start, Local, channel, network
<1>d. CASE Download(r)
  BY <1>d, FailInv, EarlyInv DEF Download, Local, channel, network
<1>2. CASE Build(r)
  BY <1>2, FailInv, EarlyInv DEF Build, Local, channel, network
<1>3. CASE Resolving(r)
  BY <1>3, FailInv, EarlyInv DEF Resolving, Emit, network
<1>4. CASE Lookup(r)
  BY <1>4, FailInv, EarlyInv DEF Lookup, network
<1>5. CASE Resolved(r)
  BY <1>5, FailInv, EarlyInv DEF Resolved, Emit, network
<1>6. CASE Connecting(r)
  BY <1>6, FailInv, EarlyInv DEF Connecting, Emit, network
<1>7. CASE AllAddressesFailed(r)
  BY <1>7, FailInv, EarlyInv DEF AllAddressesFailed, Local, network
<1>8. CASE ConnectPeer(r)
  BY <1>8, FailInv, EarlyInv DEF ConnectPeer
<1>9. CASE ConnectionError(r)
  BY <1>9, FailInv, EarlyInv DEF ConnectionError, Emit, network
<1>10. CASE Connected(r)
  BY <1>10, FailInv, EarlyInv DEF Connected, Emit, network
<1>11. CASE WaitingForHandshake(r)
  BY <1>11, FailInv, EarlyInv DEF WaitingForHandshake, Emit, network
<1>12. CASE AwaitHandshake(r)
  BY <1>12, FailInv, EarlyInv DEF AwaitHandshake, Local, network
<1>13. CASE Handshaked(r)
  BY <1>13, FailInv, EarlyInv DEF Handshaked, Emit, network
<1>14. CASE Register(r)
  <2>1. CASE r \in pending[r]
    BY <1>14, <2>1, FailInv DEF Register, network, handler
  <2>2. CASE r \notin pending[r]
    <3> USE <1>14, <2>2 DEF Register, GoTo, network, IInv, TypeOK
    <3>a. r \notin asked /\ response[r] = None /\ pending[r] = {}
      BY DEF RegistrationInv, Accounted
    <3>b. /\ pc'[r] = "sending" /\ pending'[r] = {r}
          /\ \A s \in Requests \ {r} : pc'[s] = pc[s] /\ pending'[s] = pending[s]
      BY <3>a
    <3>1. RegistrationInv'
      <4>1. Accounted(r)'
        BY <3>a, <3>b DEF Accounted, Listening
      <4>2. ASSUME NEW s \in Requests, s # r PROVE Accounted(s)'
        BY <3>b, <4>2 DEF RegistrationInv, Accounted, Listening, ResponseTo
      <4>3. QED
        BY <3>a, <3>b, <4>1, <4>2 DEF RegistrationInv
    <3>2. OutcomeInv'
      BY DEF OutcomeInv
    <3>3. QED
      BY <3>1, <3>2 DEF Core
  <2>3. QED
    BY <2>1, <2>2
<1>15. CASE SendingOnion(r)
  <2>1. Listening(r) /\ r \notin asked
    BY <1>15 DEF SendingOnion, Listening, IInv, RegistrationInv
  <2>2. QED
    BY <1>15, <2>1, FailInv, ListeningInv DEF SendingOnion, Emit, network
<1>16. CASE SendOnionMessage(r)
  <2>1. CASE Fail(r) /\ UNCHANGED asked
    BY <1>16, <2>1, FailInv DEF SendOnionMessage
  <2>2. CASE asked' = asked \cup {r} /\ GoTo(r, "sent") /\ UNCHANGED outcome
    <3> USE <1>16, <2>2 DEF SendOnionMessage, GoTo, handler, IInv, TypeOK
    <3>1. RegistrationInv'
      BY DEF RegistrationInv, Accounted, Listening, ResponseTo
    <3>2. OutcomeInv'
      BY DEF OutcomeInv
    <3>3. QED
      BY <3>1, <3>2 DEF Core
  <2>3. QED
    BY <1>16, <2>1, <2>2 DEF SendOnionMessage
<1>17. CASE OnionSent(r)
  <2>1. Listening(r)
    BY <1>17 DEF OnionSent, Listening
  <2>2. QED
    BY <1>17, <2>1, FailInv, ListeningInv DEF OnionSent, Emit, network
<1>18. CASE AwaitResponse(r)
  <2> USE <1>18 DEF AwaitResponse, GoTo, Local, network, handler, IInv, TypeOK
  <2>1. RegistrationInv'
    BY DEF RegistrationInv, Accounted, Listening, ResponseTo
  <2>2. OutcomeInv'
    <3>1. ResultOf(response[r]) # None
      BY ResponseIsOutcome, NoneAssumption
    <3>2. ResultOf(response[r]).ok =>
            response[r].message.kind # "error" /\ ResultOf(response[r]) = response[r]
      BY DEF ResultOf, Outcome
    <3>3. QED
      BY <3>1, <3>2 DEF OutcomeInv
  <2>3. QED
    BY <2>1, <2>2 DEF Core
<1>19. CASE Finish(r)
  <2> USE <1>19 DEF Finish, GoTo, network, handler, IInv, TypeOK
  <2>1. RegistrationInv'
    BY DEF RegistrationInv, Accounted, Listening, ResponseTo
  <2>2. OutcomeInv'
    BY DEF OutcomeInv
  <2>3. QED
    BY <2>1, <2>2 DEF Core
<1>20. QED
  BY <1>1, <1>2, <1>3, <1>4, <1>5, <1>6, <1>7, <1>8, <1>9, <1>10, <1>11, <1>12,
     <1>13, <1>14, <1>15, <1>16, <1>17, <1>18, <1>19, <1>d DEF Task

\* Delivering an answer keeps the invariant: at its own node it takes the place
\* of the registration, at any other node it finds none.
LEMMA HandleMessageInv ==
  ASSUME IInv, NEW m \in Message, NEW n \in Requests, HandleMessage(n, m)
  PROVE  Core'
<1> USE DEF HandleMessage, task, channel, IInv, TypeOK
<1>1. m.via \in asked /\ m.via \in Requests
  BY DEF RegistrationInv, Message
<1>2. ResponseTo(m) # None /\ ResponseTo(m).message = m
  BY ResponseIsOutcome, NoneAssumption DEF ResponseTo
<1>3. CASE m.via \in pending[n]
  <2>1. n = m.via
    BY <1>3 DEF RegistrationInv, Accounted
  <2>2. /\ pending' = [pending EXCEPT ![n] = @ \ {n}]
        /\ response' = IF Listening(n) THEN [response EXCEPT ![n] = ResponseTo(m)] ELSE response
    BY <1>3, <2>1 DEF Resolve
  <2>3. RegistrationInv'
    BY <1>1, <1>2, <2>1, <2>2 DEF RegistrationInv, Accounted, Listening, BeforeRegister, ResponseTo
  <2>4. OutcomeInv'
    BY <2>2 DEF OutcomeInv, Listening
  <2>5. QED
    BY <2>3, <2>4 DEF Core
<1>4. CASE m.via \notin pending[n]
  BY <1>4 DEF Core, RegistrationInv, Accounted, OutcomeInv, Resolve, handler, Listening, BeforeRegister, ResponseTo
<1>5. QED
  BY <1>3, <1>4

\* Every step keeps the invariant.
LEMMA NextInv == IInv /\ [Next]_vars /\ TypeOK' => IInv'
<1> SUFFICES ASSUME IInv, [Next]_vars PROVE Core'
  BY DEF IInv, Core
<1> USE DEF task, channel, network, handler
<1>1. ASSUME NEW r \in Requests, Spawn(r) PROVE Core'
  BY <1>1, EarlyInv DEF Spawn, BeforeRegister
<1>2. ASSUME NEW r \in Requests, Task(r) PROVE Core'
  BY <1>2, TaskInv
<1>3. CASE UNCHANGED <<task, asked, net, handler>>
  BY <1>3 DEF IInv, Core, RegistrationInv, Accounted, OutcomeInv, Listening, BeforeRegister, ResponseTo
<1>4. ASSUME NEW r \in Requests,
             \/ Receive(r) \/ StreamEnds(r) \/ Leave(r)
             \/ HandshakeCompletes(r) \/ ConnectionLost(r)
      PROVE  Core'
  BY <1>3, <1>4 DEF Receive, StreamEnds, Leave, HandshakeCompletes, ConnectionLost
<1>5. ASSUME NEW m \in Message, PayeeAnswers(m) \/ MessageLost(m) PROVE Core'
  BY <1>5 DEF PayeeAnswers, MessageLost, IInv, Core, RegistrationInv, Accounted, OutcomeInv,
              Listening, BeforeRegister, ResponseTo
<1>6. ASSUME NEW m \in Message, NEW n \in Requests, HandleMessage(n, m) PROVE Core'
  BY <1>6, HandleMessageInv
<1>7. QED
  BY <1>1, <1>2, <1>3, <1>4, <1>5, <1>6 DEF Next, vars

\* Where registrations, answers and outcomes stand relative to a task holds in every
\* state (node.rs:197-281, offers_handler.rs:39-92).
THEOREM Invariance == Spec => []IInv
<1>1. Init => RegistrationInv /\ OutcomeInv
  BY DEF Init, RegistrationInv, Accounted, OutcomeInv, BeforeRegister, Listening
<1>2. QED
  BY <1>1, NextInv, TypeCorrect, PTL DEF Spec, IInv

-----------------------------------------------------------------------------
(* The order of the events.                                                *)

\* What other requests have sent and received is not touched by a step of r.
LEMMA OthersOrdered ==
  ASSUME TypeOK, StreamInv, NEW r \in Requests, NEW s \in Requests, s # r,
         pc'[s] = pc[s], outcome'[s] = outcome[s], queue'[s] = queue[s],
         consumer'[s] = consumer[s], last'[s] = last[s]
  PROVE  /\ consumer'[s] # "gone" => Ordered(s)'
         /\ consumer'[s] = "gone" => queue'[s] = <<>>
BY DEF StreamInv, Ordered, LastSent, SentAt, Previous

\* A step that sends nothing and leaves the task where its last event fits.
LEMMA JumpOrdered ==
  ASSUME TypeOK, TypeOK', StreamInv, NEW r \in Requests, UNCHANGED channel, pc[r] # "done",
         \A s \in Requests \ {r} : pc'[s] = pc[s] /\ outcome'[s] = outcome[s],
         consumer[r] # "gone" => SentAt(r) \subseteq SentAt(r)'
  PROVE  StreamInv'
<1>1. consumer[r] # "gone" => Ordered(r)'
  BY DEF StreamInv, Ordered, LastSent, Previous, channel
<1>2. QED
  BY <1>1, OthersOrdered DEF StreamInv, channel

\* A task that fails has sent no Result yet.
LEMMA FailOrdered ==
  ASSUME TypeOK, TypeOK', StreamInv, NEW r \in Requests, Fail(r), UNCHANGED channel,
         pc[r] \notin {"finish", "done"}
  PROVE  StreamInv'
<1>1. SentAt(r) \subseteq SentAt(r)'
  <2>1. SentAt(r)' = (Events \ {"Result"}) \cup {None}
    BY DEF SentAt, Fail, GoTo, TypeOK, Failure
  <2>2. SentAt(r) \subseteq (Events \ {"Result"}) \cup {None}
    BY DEF SentAt, TypeOK, Labels, Events
  <2>3. QED
    BY <2>1, <2>2
<1>2. QED
  BY <1>1, JumpOrdered DEF Fail, GoTo, TypeOK

\* An event appended after one that it may follow.
LEMMA AppendOrdered ==
  ASSUME TypeOK, TypeOK', StreamInv, NEW r \in Requests, NEW e \in Events,
         consumer[r] = "reading", UNCHANGED <<consumer, last, outcome>>,
         queue' = [queue EXCEPT ![r] = Append(@, e)],
         \A s \in Requests \ {r} : pc'[s] = pc[s],
         pc[r] # "done", \A p \in SentAt(r) : e \in Service!After(p),
         e \in SentAt(r)',
         e = "Result" => pc'[r] = "done" /\ (outcome[r].ok => SentAt(r) = {"OnionSent"})
  PROVE  StreamInv'
<1>0. PICK n \in Nat : n = Len(queue[r])
  BY DEF TypeOK
<1>1. /\ queue[r] \in Seq(Events)
      /\ queue[r] = <<>> <=> n = 0
      /\ queue'[r] = Append(queue[r], e)
      /\ Len(queue'[r]) = n + 1 /\ queue'[r][n + 1] = e
      /\ \A i \in 1..n : queue'[r][i] = queue[r][i]
  BY <1>0 DEF TypeOK
<1>2. Ordered(r) /\ LastSent(r) \in SentAt(r)
  BY DEF StreamInv, Ordered
<1>3. Previous(r, n + 1)' = LastSent(r)
  BY <1>0, <1>1 DEF Previous, LastSent
<1>4. \A i \in 1..n : Previous(r, i)' = Previous(r, i) /\ queue[r][i] # "Result"
  BY <1>0, <1>1, <1>2 DEF Previous, Ordered
<1>5. ASSUME NEW i \in 1..Len(queue'[r])
      PROVE  /\ queue'[r][i] \in Service!After(Previous(r, i)')
             /\ queue'[r][i] = "Result" =>
                  pc'[r] = "done" /\ (outcome'[r].ok => Previous(r, i)' = "OnionSent")
  <2>1. CASE i = n + 1
    BY <1>1, <1>2, <1>3, <2>1
  <2>2. CASE i \in 1..n
    BY <1>0, <1>1, <1>2, <1>4, <2>2 DEF Ordered
  <2>3. QED
    BY <1>1, <2>1, <2>2
<1>6. LastSent(r)' = e
  BY <1>1 DEF LastSent
<1>7. Ordered(r)'
  BY <1>5, <1>6 DEF Ordered, Service!After
<1>8. QED
  BY <1>7, OthersOrdered DEF StreamInv, TypeOK

\* Sending a progress event, or failing to.
LEMMA EmitOrdered ==
  ASSUME TypeOK, TypeOK', StreamInv, NEW r \in Requests, NEW e \in Events \ {"Result"},
         NEW l \in Labels, Emit(r, e, l), pc[r] \notin {"finish", "done"},
         \A p \in SentAt(r) : e \in Service!After(p),
         pc'[r] = l => e \in SentAt(r)'
  PROVE  StreamInv'
<1>1. CASE Fail(r) /\ UNCHANGED queue
  BY <1>1, FailOrdered DEF Emit, channel
<1>2. CASE /\ consumer[r] = "reading" /\ GoTo(r, l) /\ UNCHANGED outcome
           /\ queue' = [queue EXCEPT ![r] = Append(@, e)]
  <2>1. pc'[r] = l /\ \A s \in Requests \ {r} : pc'[s] = pc[s]
    BY <1>2 DEF GoTo, TypeOK
  <2>2. QED
    BY <1>2, <2>1, AppendOrdered DEF Emit
<1>3. QED
  BY <1>1, <1>2 DEF Emit

\* Receiving an event moves it from the head of the channel to `last`.
LEMMA ReceiveOrdered ==
  ASSUME TypeOK, TypeOK', StreamInv, NEW r \in Requests, Receive(r)
  PROVE  StreamInv'
<1>0. PICK n \in Nat : n = Len(queue[r])
  BY DEF TypeOK
<1>1. /\ queue[r] \in Seq(Events) /\ n # 0
      /\ queue[r] # <<>> /\ (queue'[r] = <<>> <=> n = 1)
      /\ queue'[r] = Tail(queue[r]) /\ last'[r] = queue[r][1]
      /\ Len(queue'[r]) = n - 1
      /\ \A i \in 1..(n - 1) : queue'[r][i] = queue[r][i + 1]
  <2>1. /\ queue[r] \in Seq(Events) /\ queue[r] # <<>>
        /\ queue'[r] = Tail(queue[r]) /\ last'[r] = Head(queue[r])
    BY DEF Receive, TypeOK
  <2>2. n # 0
    BY <1>0, <2>1
  <2>3. Len(Tail(queue[r])) = n - 1 /\ Head(queue[r]) = queue[r][1]
    BY <1>0, <2>1, <2>2
  <2>4. \A i \in 1..(n - 1) : Tail(queue[r])[i] = queue[r][i + 1]
    BY <1>0, <2>1, <2>2
  <2>5. Tail(queue[r]) = <<>> <=> n = 1
    <3>1. Tail(queue[r]) \in Seq(Events)
      BY <2>1
    <3>2. Tail(queue[r]) # <<>> => n - 1 # 0
      BY <2>3, <3>1, EmptySeq
    <3>3. Tail(queue[r]) = <<>> => n - 1 = 0
      BY <2>3, EmptySeq
    <3>4. QED
      BY <3>2, <3>3
  <2>6. QED
    BY <2>1, <2>2, <2>3, <2>4, <2>5
<1>2. Ordered(r)
  BY DEF StreamInv, Receive
<1>3. \A i \in 1..(n - 1) : Previous(r, i)' = Previous(r, i + 1)
  BY <1>0, <1>1, SMTT(30) DEF Previous
<1>4. LastSent(r)' = LastSent(r)
  BY <1>0, <1>1 DEF LastSent
<1>5. SentAt(r)' = SentAt(r) /\ UNCHANGED <<pc, outcome, consumer>>
  BY DEF SentAt, Receive, task
<1>6. ASSUME NEW i \in 1..Len(queue'[r])
      PROVE  /\ queue'[r][i] \in Service!After(Previous(r, i)')
             /\ queue'[r][i] = "Result" =>
                  pc'[r] = "done" /\ (outcome'[r].ok => Previous(r, i)' = "OnionSent")
  <2>1. i \in 1..(n - 1) /\ i + 1 \in 1..n
    BY <1>1
  <2>2. QED
    BY <1>0, <1>1, <1>2, <1>3, <1>5, <2>1 DEF Ordered
<1>7. Ordered(r)'
  BY <1>2, <1>4, <1>5, <1>6 DEF Ordered, Service!After
<1>8. QED
  BY <1>5, <1>7, OthersOrdered DEF StreamInv, Receive, TypeOK

\* A step of a task keeps the order of the events.
LEMMA TaskOrdered ==
  ASSUME IInv, TypeOK', StreamInv, NEW r \in Requests, Task(r)
  PROVE  StreamInv'
<1>0. TypeOK
  BY DEF IInv
<1>a. ASSUME NEW l \in Labels, GoTo(r, l), UNCHANGED <<outcome, channel>>, pc[r] # "done",
             SentAt(r) \subseteq SentAt(r)'
      PROVE  StreamInv'
  BY <1>0, <1>a, JumpOrdered DEF GoTo, TypeOK
<1> USE <1>0 DEF Local
<1>1. CASE Start(r)
  <2>1. CASE Fail(r)
    BY <1>1, <2>1, FailOrdered DEF Start
  <2>2. ASSUME NEW l \in {"build", "download"}, GoTo(r, l), UNCHANGED outcome
        PROVE  StreamInv'
    <3>1. SentAt(r) \subseteq SentAt(r)'
      BY <1>1, <2>2 DEF Start, GoTo, TypeOK, SentAt
    <3>2. QED
      BY <1>1, <1>a, <2>2, <3>1, Names DEF Start
  <2>3. QED
    BY <1>1, <2>1, <2>2 DEF Start
<1>d. CASE Download(r)
  <2>1. CASE Fail(r)
    BY <1>d, <2>1, FailOrdered DEF Download
  <2>2. CASE GoTo(r, "build") /\ UNCHANGED outcome
    <3>1. SentAt(r) \subseteq SentAt(r)'
      BY <1>d, <2>2 DEF Download, GoTo, TypeOK, SentAt
    <3>2. QED
      BY <1>d, <1>a, <2>2, <3>1, Names DEF Download
  <2>3. QED
    BY <1>d, <2>1, <2>2 DEF Download
<1>2. CASE Build(r)
  <2>1. CASE Fail(r)
    BY <1>2, <2>1, FailOrdered DEF Build
  <2>2. CASE GoTo(r, "resolving") /\ UNCHANGED outcome
    <3>1. SentAt(r) \subseteq SentAt(r)'
      BY <1>2, <2>2 DEF Build, GoTo, TypeOK, SentAt
    <3>2. QED
      BY <1>2, <1>a, <2>2, <3>1, Names DEF Build
  <2>3. QED
    BY <1>2, <2>1, <2>2 DEF Build
<1>4. CASE Lookup(r)
  <2>1. CASE Fail(r)
    BY <1>4, <2>1, FailOrdered DEF Lookup
  <2>2. CASE GoTo(r, "resolved") /\ UNCHANGED outcome
    <3>1. SentAt(r) \subseteq SentAt(r)'
      BY <1>4, <2>2 DEF Lookup, GoTo, TypeOK, SentAt
    <3>2. QED
      BY <1>4, <1>a, <2>2, <3>1, Names DEF Lookup
  <2>3. QED
    BY <1>4, <2>1, <2>2 DEF Lookup
<1>12. CASE AwaitHandshake(r)
  <2>1. CASE Fail(r)
    BY <1>12, <2>1, FailOrdered DEF AwaitHandshake
  <2>2. CASE GoTo(r, "handshaked") /\ UNCHANGED outcome
    <3>1. SentAt(r) \subseteq SentAt(r)'
      BY <1>12, <2>2 DEF AwaitHandshake, GoTo, TypeOK, SentAt
    <3>2. QED
      BY <1>12, <1>a, <2>2, <3>1, Names DEF AwaitHandshake
  <2>3. QED
    BY <1>12, <2>1, <2>2 DEF AwaitHandshake
<1>14. CASE Register(r)
  <2>1. CASE Fail(r)
    BY <1>14, <2>1, FailOrdered DEF Register
  <2>2. CASE GoTo(r, "sending") /\ UNCHANGED outcome
    <3>1. SentAt(r) \subseteq SentAt(r)'
      BY <1>14, <2>2 DEF Register, GoTo, TypeOK, SentAt
    <3>2. QED
      BY <1>14, <1>a, <2>2, <3>1, Names DEF Register
  <2>3. QED
    BY <1>14, <2>1, <2>2 DEF Register
<1>16. CASE SendOnionMessage(r)
  <2>1. CASE Fail(r)
    BY <1>16, <2>1, FailOrdered DEF SendOnionMessage
  <2>2. CASE GoTo(r, "sent") /\ UNCHANGED outcome
    <3>1. SentAt(r) \subseteq SentAt(r)'
      BY <1>16, <2>2 DEF SendOnionMessage, GoTo, TypeOK, SentAt
    <3>2. QED
      BY <1>16, <1>a, <2>2, <3>1, Names DEF SendOnionMessage
  <2>3. QED
    BY <1>16, <2>1, <2>2 DEF SendOnionMessage
<1>3. CASE Resolving(r)
  <2>1. /\ \A p \in SentAt(r) : "Resolving" \in Service!After(p)
        /\ pc'[r] = "lookup" => "Resolving" \in SentAt(r)'
    BY <1>3, NoneAssumption DEF Resolving, SentAt, Service!After, Events
  <2>2. QED
    BY <1>3, <2>1, EmitOrdered, Names DEF Resolving
<1>5. CASE Resolved(r)
  <2>1. /\ \A p \in SentAt(r) : "Resolved" \in Service!After(p)
        /\ pc'[r] = "next_address" => "Resolved" \in SentAt(r)'
    BY <1>5, NoneAssumption DEF Resolved, SentAt, Service!After, Events
  <2>2. QED
    BY <1>5, <2>1, EmitOrdered, Names DEF Resolved
<1>6. CASE Connecting(r)
  <2>1. /\ \A p \in SentAt(r) : "Connecting" \in Service!After(p)
        /\ pc'[r] = "connect" => "Connecting" \in SentAt(r)'
    BY <1>6, NoneAssumption DEF Connecting, SentAt, Service!After, Events
  <2>2. QED
    BY <1>6, <2>1, EmitOrdered, Names DEF Connecting
<1>9. CASE ConnectionError(r)
  <2>1. /\ \A p \in SentAt(r) : "ConnectionError" \in Service!After(p)
        /\ pc'[r] = "next_address" => "ConnectionError" \in SentAt(r)'
    BY <1>9, NoneAssumption DEF ConnectionError, SentAt, Service!After, Events
  <2>2. QED
    BY <1>9, <2>1, EmitOrdered, Names DEF ConnectionError
<1>10. CASE Connected(r)
  <2>1. /\ \A p \in SentAt(r) : "Connected" \in Service!After(p)
        /\ pc'[r] = "waiting" => "Connected" \in SentAt(r)'
    BY <1>10, NoneAssumption DEF Connected, SentAt, Service!After, Events
  <2>2. QED
    BY <1>10, <2>1, EmitOrdered, Names DEF Connected
<1>11. CASE WaitingForHandshake(r)
  <2>1. /\ \A p \in SentAt(r) : "WaitingForHandshake" \in Service!After(p)
        /\ pc'[r] = "handshake" => "WaitingForHandshake" \in SentAt(r)'
    BY <1>11, NoneAssumption DEF WaitingForHandshake, SentAt, Service!After, Events
  <2>2. QED
    BY <1>11, <2>1, EmitOrdered, Names DEF WaitingForHandshake
<1>13. CASE Handshaked(r)
  <2>1. /\ \A p \in SentAt(r) : "Handshaked" \in Service!After(p)
        /\ pc'[r] = "register" => "Handshaked" \in SentAt(r)'
    BY <1>13, NoneAssumption DEF Handshaked, SentAt, Service!After, Events
  <2>2. QED
    BY <1>13, <2>1, EmitOrdered, Names DEF Handshaked
<1>15. CASE SendingOnion(r)
  <2>1. /\ \A p \in SentAt(r) : "SendingOnion" \in Service!After(p)
        /\ pc'[r] = "send" => "SendingOnion" \in SentAt(r)'
    BY <1>15, NoneAssumption DEF SendingOnion, SentAt, Service!After, Events
  <2>2. QED
    BY <1>15, <2>1, EmitOrdered, Names DEF SendingOnion
<1>17. CASE OnionSent(r)
  <2>1. /\ \A p \in SentAt(r) : "OnionSent" \in Service!After(p)
        /\ pc'[r] = "await" => "OnionSent" \in SentAt(r)'
    BY <1>17, NoneAssumption DEF OnionSent, SentAt, Service!After, Events
  <2>2. QED
    BY <1>17, <2>1, EmitOrdered, Names DEF OnionSent
<1>7. CASE AllAddressesFailed(r)
  BY <1>7, FailOrdered DEF AllAddressesFailed
<1>8. CASE ConnectPeer(r)
  <2>1. SentAt(r) \subseteq SentAt(r)'
    BY <1>8 DEF ConnectPeer, GoTo, TypeOK, SentAt
  <2>2. QED
    BY <1>8, <1>a, <2>1, Names DEF ConnectPeer
<1>18. CASE AwaitResponse(r)
  <2>1. SentAt(r) \subseteq SentAt(r)'
    BY <1>18, Names, NoneAssumption DEF AwaitResponse, GoTo, TypeOK, SentAt
  <2>2. QED
    BY <1>18, <2>1, JumpOrdered DEF AwaitResponse, GoTo, TypeOK
<1>19. CASE Finish(r)
  <2>1. CASE UNCHANGED queue /\ consumer[r] = "gone"
    BY <1>19, <2>1, JumpOrdered DEF Finish, GoTo, TypeOK, channel
  <2>2. CASE consumer[r] = "reading" /\ queue' = [queue EXCEPT ![r] = Append(@, "Result")]
    <3>1. /\ \A p \in SentAt(r) : "Result" \in Service!After(p)
          /\ outcome[r].ok => SentAt(r) = {"OnionSent"}
      BY <1>19, NoneAssumption DEF Finish, SentAt, Service!After, Events
    <3>2. /\ pc'[r] = "done" /\ "Result" \in SentAt(r)'
          /\ \A s \in Requests \ {r} : pc'[s] = pc[s]
      BY <1>19 DEF Finish, GoTo, TypeOK, SentAt
    <3>3. QED
      BY <1>19, <2>2, <3>1, <3>2, AppendOrdered, Names DEF Finish
  <2>3. QED
    BY <1>19, <2>1, <2>2 DEF Finish
<1>20. QED
  BY <1>1, <1>2, <1>3, <1>4, <1>5, <1>6, <1>7, <1>8, <1>9, <1>10, <1>11, <1>12,
     <1>13, <1>14, <1>15, <1>16, <1>17, <1>18, <1>19, <1>d DEF Task

\* What a step of a task leaves alone.
LEMMA TaskFrame ==
  ASSUME TypeOK, NEW r \in Requests, Task(r)
  PROVE  /\ UNCHANGED <<consumer, last, response>>
         /\ pc'[r] # "idle" /\ pc[r] \notin {"idle", "done"}
         /\ \A s \in Requests \ {r} : pc'[s] = pc[s] /\ outcome'[s] = outcome[s]
BY DEF TypeOK, Task, Start, Download, Build, Resolving, Lookup, Resolved, Connecting,
       AllAddressesFailed, ConnectPeer, ConnectionError, Connected,
       WaitingForHandshake, AwaitHandshake, Handshaked, Register, SendingOnion,
       SendOnionMessage, OnionSent, AwaitResponse, Finish, Emit, Local, Fail, GoTo,
       channel, handler

\* A request that was not spawned has no consumer.
LEMMA NextFresh == TypeOK /\ FreshInv /\ [Next]_vars => FreshInv'
<1> SUFFICES ASSUME TypeOK, FreshInv, [Next]_vars PROVE FreshInv'
  OBVIOUS
<1> USE DEF FreshInv, TypeOK
<1>1. ASSUME NEW r \in Requests, Spawn(r) PROVE FreshInv'
  BY <1>1 DEF Spawn, GoTo
<1>2. ASSUME NEW r \in Requests, Task(r) PROVE FreshInv'
  BY <1>2, TaskFrame
<1>3. ASSUME NEW r \in Requests, StreamEnds(r) \/ Leave(r) PROVE FreshInv'
  BY <1>3 DEF StreamEnds, Leave, task
<1>4. CASE UNCHANGED <<pc, consumer>>
  BY <1>4
<1>5. ASSUME NEW r \in Requests, Receive(r) \/ HandshakeCompletes(r) \/ ConnectionLost(r)
      PROVE  FreshInv'
  BY <1>4, <1>5 DEF Receive, HandshakeCompletes, ConnectionLost, task, channel
<1>6. ASSUME NEW m \in Message,
             PayeeAnswers(m) \/ MessageLost(m) \/ \E n \in Requests : HandleMessage(n, m)
      PROVE  FreshInv'
  BY <1>4, <1>6 DEF PayeeAnswers, MessageLost, HandleMessage, task, channel
<1>7. QED
  BY <1>1, <1>2, <1>3, <1>4, <1>5, <1>6 DEF Next, vars, task, channel

\* Every step keeps the order of the events.
LEMMA NextOrdered ==
  IInv /\ FreshInv /\ TypeOK' /\ StreamInv /\ [Next]_vars => StreamInv'
<1> SUFFICES ASSUME IInv, FreshInv, TypeOK', StreamInv, [Next]_vars PROVE StreamInv'
  OBVIOUS
<1>0. TypeOK
  BY DEF IInv
<1>1. ASSUME NEW r \in Requests, Spawn(r) PROVE StreamInv'
  <2>1. Ordered(r)'
    <3>1. Ordered(r) /\ SentAt(r) = {None}
      BY <1>1 DEF Spawn, FreshInv, StreamInv, SentAt
    <3>2. SentAt(r)' = {None}
      BY <1>0, <1>1 DEF Spawn, GoTo, TypeOK, SentAt
    <3>3. LastSent(r)' = LastSent(r) /\ \A i : Previous(r, i)' = Previous(r, i)
      BY <1>1 DEF Spawn, LastSent, Previous
    <3>4. \A i \in 1..Len(queue[r]) : queue[r][i] # "Result"
      BY <1>1, <3>1 DEF Spawn, Ordered
    <3>5. QED
      BY <1>1, <3>1, <3>2, <3>3, <3>4 DEF Spawn, Ordered
  <2>2. QED
    BY <1>0, <1>1, <2>1, OthersOrdered DEF Spawn, GoTo, TypeOK, StreamInv
<1>2. ASSUME NEW r \in Requests, Task(r) \/ Receive(r) PROVE StreamInv'
  BY <1>0, <1>2, TaskOrdered, ReceiveOrdered
<1>3. CASE UNCHANGED <<task, channel>>
  BY <1>3 DEF task, channel, StreamInv, Ordered, LastSent, SentAt, Previous
<1>4. ASSUME NEW r \in Requests, StreamEnds(r) \/ Leave(r) PROVE StreamInv'
  <2>1. /\ consumer'[r] # "gone" => Ordered(r)'
        /\ consumer'[r] = "gone" => queue'[r] = <<>>
    <3>1. CASE StreamEnds(r)
      <4>1. Ordered(r) /\ UNCHANGED <<pc, outcome, queue, last>>
        BY <3>1 DEF StreamEnds, StreamInv, task
      <4>2. Ordered(r)'
        BY <4>1 DEF Ordered, LastSent, SentAt, Previous
      <4>3. QED
        BY <1>0, <3>1, <4>2 DEF StreamEnds, TypeOK
    <3>2. CASE Leave(r)
      BY <1>0, <3>2 DEF Leave, TypeOK
    <3>3. QED
      BY <1>4, <3>1, <3>2
  <2>2. QED
    BY <1>0, <1>4, <2>1, OthersOrdered DEF StreamEnds, Leave, task, TypeOK, StreamInv
<1>5. ASSUME NEW r \in Requests, HandshakeCompletes(r) \/ ConnectionLost(r) PROVE StreamInv'
  BY <1>3, <1>5 DEF HandshakeCompletes, ConnectionLost
<1>6. ASSUME NEW m \in Message,
             PayeeAnswers(m) \/ MessageLost(m) \/ \E n \in Requests : HandleMessage(n, m)
      PROVE  StreamInv'
  BY <1>3, <1>6 DEF PayeeAnswers, MessageLost, HandleMessage
<1>7. QED
  BY <1>1, <1>2, <1>3, <1>4, <1>5, <1>6 DEF Next, vars

\* The channel and what was received of it always follow the promised order.
THEOREM StreamInvariance == Spec => []StreamInv
<1>1. Init => StreamInv /\ FreshInv
  <2> SUFFICES ASSUME Init PROVE StreamInv /\ FreshInv
    OBVIOUS
  <2>1. ASSUME NEW r \in Requests PROVE Ordered(r) /\ consumer[r] = "none"
    <3>1. queue[r] = <<>> /\ Len(queue[r]) = 0 /\ last[r] = None /\ pc[r] = "idle"
      BY DEF Init
    <3>2. 1..Len(queue[r]) = {}
      BY <3>1
    <3>3. LastSent(r) = None /\ SentAt(r) = {None}
      BY <3>1 DEF LastSent, SentAt
    <3>4. QED
      BY <3>2, <3>3 DEF Init, Ordered
  <2>2. QED
    BY <2>1 DEF StreamInv, FreshInv
<1>2. QED
  BY <1>1, NextFresh, NextOrdered, TypeCorrect, Invariance, PTL DEF Spec

-----------------------------------------------------------------------------
(* The properties.                                                         *)

\* For any number of requests: one whose onion message is out and whose task listens is
\* registered with its own node or has its answer, never both (node.rs:260-278).
THEOREM RegisteredOrAnswered == Spec => []NoLostAnswer
<1>1. IInv => NoLostAnswer
  BY DEF IInv, TypeOK, RegistrationInv, Accounted, NoLostAnswer
<1>2. QED
  BY <1>1, Invariance, PTL

\* No node registers the request of another one, and no request gets an answer that
\* did not come along its own reply path, however many nodes share the seed
\* (offers_handler.rs:65-90).
THEOREM RequestsAreNotMixedUp == Spec => []OwnRegistrations
<1>1. IInv => OwnRegistrations
  BY DEF IInv, RegistrationInv, Accounted, OwnRegistrations
<1>2. QED
  BY <1>1, Invariance, PTL

\* Nothing that comes in later changes a response or an outcome
\* (offers_handler.rs:50-55).
THEOREM FirstAnswerIsFinal == Spec => FirstAnswerWins
<1> DEFINE Final == \A r \in Requests :
              /\ response[r] # None => response'[r] = response[r]
              /\ outcome[r] # None => outcome'[r] = outcome[r]
<1>1. IInv /\ [Next]_vars => [Final]_vars
  <2> SUFFICES ASSUME IInv, [Next]_vars PROVE Final
    OBVIOUS
  <2> USE DEF IInv, TypeOK, task, channel, network, handler
  <2>1. ASSUME NEW r \in Requests, Task(r) PROVE Final
    <3>1. UNCHANGED response
      BY <2>1, TaskFrame
    <3>2. CASE Finish(r)
      BY <3>1, <3>2 DEF Finish
    <3>3. CASE ~Finish(r)
      <4>1. pc[r] \notin {"finish", "done"}
        BY <2>1, <3>3 DEF Task, Start, Download, Build, Resolving, Lookup, Resolved, Connecting,
         AllAddressesFailed, ConnectPeer, ConnectionError, Connected,
         WaitingForHandshake, AwaitHandshake, Handshaked, Register, SendingOnion,
         SendOnionMessage, OnionSent, AwaitResponse
      <4>2. outcome[r] = None
        BY <4>1 DEF OutcomeInv
      <4>3. \A s \in Requests \ {r} : outcome'[s] = outcome[s]
        BY <2>1, TaskFrame
      <4>4. QED
        BY <3>1, <4>2, <4>3
    <3>4. QED
      BY <3>2, <3>3
  <2>2. ASSUME NEW m \in Message, NEW n \in Requests, HandleMessage(n, m) PROVE Final
    <3>1. m.via \in pending[n] => n = m.via /\ response[n] = None
      BY DEF RegistrationInv, Accounted
    <3>2. QED
      BY <2>2, <3>1 DEF HandleMessage, Resolve, Message
  <2>3. CASE UNCHANGED <<outcome, response>>
    BY <2>3
  <2>4. ASSUME NEW r \in Requests,
               \/ Spawn(r) \/ Receive(r) \/ StreamEnds(r) \/ Leave(r)
               \/ HandshakeCompletes(r) \/ ConnectionLost(r)
        PROVE  Final
    BY <2>3, <2>4 DEF Spawn, Receive, StreamEnds, Leave, HandshakeCompletes, ConnectionLost
  <2>5. ASSUME NEW m \in Message, PayeeAnswers(m) \/ MessageLost(m) PROVE Final
    BY <2>3, <2>5 DEF PayeeAnswers, MessageLost
  <2>6. QED
    BY <2>1, <2>2, <2>3, <2>4, <2>5 DEF Next, vars
<1>2. QED
  BY <1>1, Invariance, PTL DEF Spec, FirstAnswerWins

\* Whoever serves a client that has left gets into no connection attempt, handshake, onion
\* message or wait for the answer (the `?` of every send in node.rs:197-336).
THEOREM AbandonedRequestsStop == Spec => NothingForNobody
<1> DEFINE Stops == \A r \in Requests :
             consumer[r] = "gone" /\ pc'[r] \in {"connect", "handshake", "send", "await"}
               => pc'[r] = pc[r]
<1>1. TypeOK /\ [Next]_vars => [Stops]_vars
  <2> SUFFICES ASSUME TypeOK, [Next]_vars PROVE Stops
    OBVIOUS
  <2>1. ASSUME NEW r \in Requests, Task(r) PROVE Stops
    <3>1. /\ consumer[r] = "gone"
          /\ pc'[r] \in {"connect", "handshake", "send", "await"}
          => pc'[r] = pc[r]
      BY <2>1 DEF TypeOK, Task, Start, Download, Build, Resolving, Lookup, Resolved, Connecting,
         AllAddressesFailed, ConnectPeer, ConnectionError, Connected,
         WaitingForHandshake, AwaitHandshake, Handshaked, Register, SendingOnion,
         SendOnionMessage, OnionSent, AwaitResponse, Finish, Emit, Fail, GoTo
    <3>2. QED
      BY <2>1, <3>1, TaskFrame
  <2>2. ASSUME NEW r \in Requests, Spawn(r) PROVE Stops
    BY <2>2 DEF Spawn, GoTo, TypeOK
  <2>3. CASE UNCHANGED pc
    BY <2>3
  <2>4. ASSUME NEW r \in Requests,
               \/ Receive(r) \/ StreamEnds(r) \/ Leave(r)
               \/ HandshakeCompletes(r) \/ ConnectionLost(r)
        PROVE  Stops
    BY <2>3, <2>4 DEF Receive, StreamEnds, Leave, HandshakeCompletes, ConnectionLost, task
  <2>5. ASSUME NEW m \in Message,
               PayeeAnswers(m) \/ MessageLost(m) \/ \E n \in Requests : HandleMessage(n, m)
        PROVE  Stops
    BY <2>3, <2>5 DEF PayeeAnswers, MessageLost, HandleMessage, task
  <2>6. QED
    BY <2>1, <2>2, <2>3, <2>4, <2>5 DEF Next, vars, task
<1>2. QED
  BY <1>1, TypeCorrect, PTL DEF Spec, NothingForNobody

-----------------------------------------------------------------------------
(* The requests implement InvoiceService.                                  *)

\* Both specifications speak of the same answers and events.
LEMMA SameVocabulary == Service!Message = Message /\ Service!Events = Events
BY DEF Service!Message, Message, Service!Events, Events

\* A failing task gives up in the sense of the abstract specification.
LEMMA FailGivesUp ==
  ASSUME IInv, NEW r \in Requests, Fail(r), pc[r] \notin {"finish", "done"},
         UNCHANGED <<asked, last>>
  PROVE  Service!Next
<1>1. outcome[r] = None
  BY DEF IInv, OutcomeInv
<1>2. Service!GiveUp(r, None)
  BY <1>1 DEF Fail, Failure, Service!GiveUp
<1>3. QED
  BY <1>2 DEF Service!Next

\* Every step of a task is a step of the service or none at all.
LEMMA TaskRefines ==
  ASSUME IInv, NEW r \in Requests, Task(r)
  PROVE  Service!Next \/ UNCHANGED <<asked, outcome, last>>
<1>1. CASE SendOnionMessage(r)
  <2>1. CASE Fail(r) /\ UNCHANGED asked
    BY <1>1, <2>1, FailGivesUp DEF SendOnionMessage, channel
  <2>2. CASE asked' = asked \cup {r} /\ UNCHANGED outcome
    <3>1. Service!Ask(r)
      BY <1>1, <2>2 DEF SendOnionMessage, channel, IInv, OutcomeInv, Service!Ask
    <3>2. QED
      BY <3>1 DEF Service!Next
  <2>3. QED
    BY <1>1, <2>1, <2>2 DEF SendOnionMessage
<1>2. CASE AwaitResponse(r)
  <2> DEFINE m == response[r].message
             b == ResultOf(response[r]).ok
  <2>1. /\ outcome[r] = None /\ UNCHANGED <<asked, last>>
        /\ outcome' = [outcome EXCEPT ![r] = ResultOf(response[r])]
    BY <1>2 DEF AwaitResponse, Local, channel, network, IInv, OutcomeInv
  <2>2. /\ r \in asked /\ m \in Message /\ m.via = r
        /\ response[r].ok => (m.kind = "invoice" => m.payer = r)
    <3>1. /\ r \in asked /\ m \in Message /\ m.via = r
          /\ response[r] = ResponseTo(m)
      BY <1>2 DEF AwaitResponse, IInv, RegistrationInv, Accounted
    <3>2. ResponseTo(m).ok => (m.kind = "invoice" => m.payer = m.via)
      BY DEF ResponseTo
    <3>3. response[r].ok => (m.kind = "invoice" => m.payer = m.via)
      BY <3>1, <3>2
    <3>4. QED
      BY <3>1, <3>3
  <2>3. b \in BOOLEAN /\ ResultOf(response[r]) = [ok |-> b, message |-> m]
    <3>1. response[r] \in Outcome
      BY <1>2 DEF AwaitResponse, IInv, TypeOK
    <3>2. response[r].ok \in BOOLEAN
      BY <3>1 DEF Outcome
    <3>3. QED
      BY <3>2 DEF ResultOf
  <2>4. CASE b = TRUE
    <3>1. response[r].ok /\ m.kind # "error"
      BY <2>4 DEF ResultOf
    <3>2. \/ m.kind = "invoice" /\ m.payer = r
          \/ m.kind = "static"
      BY <2>2, <3>1 DEF Message
    <3>3. outcome' = [outcome EXCEPT ![r] = [ok |-> TRUE, message |-> m]]
      BY <2>1, <2>3, <2>4
    <3>4. Service!Succeed(r, m)
      BY <2>1, <2>2, <3>2, <3>3 DEF Service!Succeed
    <3>5. QED
      BY <2>2, <3>4, SameVocabulary DEF Service!Next
  <2>5. CASE b = FALSE
    <3>1. outcome' = [outcome EXCEPT ![r] = [ok |-> FALSE, message |-> m]]
      BY <2>1, <2>3, <2>5
    <3>2. Service!GiveUp(r, m)
      BY <2>1, <3>1 DEF Service!GiveUp
    <3>3. QED
      BY <2>2, <3>2, SameVocabulary DEF Service!Next
  <2>6. QED
    BY <2>3, <2>4, <2>5
<1>3. CASE ~SendOnionMessage(r) /\ ~AwaitResponse(r)
  <2>1. UNCHANGED <<asked, last>>
    BY <1>3, Task(r) DEF Task, Start, Download, Build, Resolving, Lookup, Resolved, Connecting,
       AllAddressesFailed, ConnectPeer, ConnectionError, Connected,
       WaitingForHandshake, AwaitHandshake, Handshaked, Register, SendingOnion,
       OnionSent, Finish, Emit, Local, channel, network
  <2>2. \/ UNCHANGED outcome
        \/ Fail(r) /\ pc[r] \notin {"finish", "done"}
    BY <1>3, Task(r) DEF Task, Start, Download, Build, Resolving, Lookup, Resolved, Connecting,
       AllAddressesFailed, ConnectPeer, ConnectionError, Connected,
       WaitingForHandshake, AwaitHandshake, Handshaked, Register, SendingOnion,
       OnionSent, Finish, Emit, Local
  <2>3. QED
    BY <2>1, <2>2, FailGivesUp
<1>4. QED
  BY <1>1, <1>2, <1>3

\* The client sees the head of the channel, which is the next event it may see.
LEMMA ReceiveRefines ==
  ASSUME IInv, StreamInv, NEW r \in Requests, Receive(r)
  PROVE  Service!Next
<1> DEFINE e == Head(queue[r])
<1>1. e = queue[r][1] /\ 1 \in 1..Len(queue[r]) /\ e \in Events
  BY DEF IInv, TypeOK, Receive
<1>2. Ordered(r)
  BY DEF StreamInv, Receive
<1>3. /\ e \in Service!After(last[r])
      /\ e = "Result" => pc[r] = "done" /\ (outcome[r].ok => last[r] = "OnionSent")
  BY <1>1, <1>2 DEF Ordered, Previous
<1>4. e = "Result" => outcome[r] # None
  BY <1>3 DEF IInv, OutcomeInv
<1>5. Service!Show(r, e)
  BY <1>3, <1>4 DEF Receive, task, network, Service!Show
<1>6. QED
  BY <1>1, <1>5, SameVocabulary DEF Service!Next

\* The detailed specification implements the promise (mod.rs:16-57).
THEOREM Refinement == Spec => KeepsPromise
<1>1. Init => Service!Init
  BY DEF Init, Service!Init
<1>2. IInv /\ StreamInv /\ [Next]_vars => [Service!Next]_(Service!vars)
  <2> SUFFICES ASSUME IInv, StreamInv, [Next]_vars
               PROVE  Service!Next \/ UNCHANGED <<asked, outcome, last>>
    BY DEF Service!vars
  <2>1. ASSUME NEW r \in Requests, Task(r) \/ Receive(r)
        PROVE  Service!Next \/ UNCHANGED <<asked, outcome, last>>
    BY <2>1, TaskRefines, ReceiveRefines
  <2>2. ASSUME NEW r \in Requests,
               \/ Spawn(r) \/ StreamEnds(r) \/ Leave(r)
               \/ HandshakeCompletes(r) \/ ConnectionLost(r)
        PROVE  UNCHANGED <<asked, outcome, last>>
    BY <2>2 DEF Spawn, StreamEnds, Leave, HandshakeCompletes, ConnectionLost,
                task, channel, network
  <2>3. ASSUME NEW m \in Message,
               PayeeAnswers(m) \/ MessageLost(m) \/ \E n \in Requests : HandleMessage(n, m)
        PROVE  UNCHANGED <<asked, outcome, last>>
    BY <2>3 DEF PayeeAnswers, MessageLost, HandleMessage, task, channel
  <2>4. CASE UNCHANGED vars
    BY <2>4 DEF vars, task, channel, network
  <2>5. QED
    BY <2>1, <2>2, <2>3, <2>4 DEF Next
<1>3. QED
  BY <1>1, <1>2, Invariance, StreamInvariance, PTL DEF Spec, KeepsPromise, Service!Spec
=============================================================================
