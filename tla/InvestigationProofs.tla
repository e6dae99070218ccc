------------------------ MODULE InvestigationProofs ------------------------
(* Proofs about Investigation: a page has every finding, both ways of      *)
(* paying a name, and the same wallet whichever order the hints are in.    *)
(* Sequences are put together by a recursive function; what is said of     *)
(* them for every length is shown with a least number that it is wrong of. *)
EXTENDS Investigation, SequenceTheorems, WellFoundedInduction, TLAPS

-----------------------------------------------------------------------------
(* The least number of a set, and sequences put together.                  *)

Less == {p \in Nat \X Nat : p[1] < p[2]}

LEMMA LessIsWellFounded == IsWellFoundedOn(Less, Nat)
BY NatLessThanWellFounded DEF OpToRel, Less

LEMMA LeastNumber ==
  ASSUME NEW T, T \subseteq Nat, T # {}
  PROVE  \E x \in T : \A y \in T : x <= y
<1>1. PICK x \in T : \A y \in T : <<y, x>> \notin Less
  BY LessIsWellFounded, WFMin
<1>2. ASSUME NEW y \in T PROVE x <= y
  <2>1. x \in Nat /\ y \in Nat /\ <<y, x>> \notin Less
    BY <1>1
  <2>2. <<y, x>> \in Nat \X Nat /\ <<y, x>>[1] = y /\ <<y, x>>[2] = x
    BY <2>1
  <2>3. ~ (y < x)
    BY <2>1, <2>2 DEF Less
  <2> QED BY <2>1, <2>3
<1> QED BY <1>2

\* The function that FlattenSeq defines, on the first n sequences.
Flattens(f, seqs, n) ==
  f = [i \in 1..n |-> IF i = 1 THEN seqs[i] ELSE f[i - 1] \o seqs[i]]

LEMMA FlatteningExists ==
  ASSUME NEW seqs, NEW n \in Nat
  PROVE  \E f : Flattens(f, seqs, n)
<1> DEFINE Bad == {m \in Nat : ~\E f : Flattens(f, seqs, m)}
<1> SUFFICES ASSUME n \in Bad PROVE FALSE
  OBVIOUS
<1>1. PICK m \in Bad : \A k \in Bad : m <= k
  BY LeastNumber
<1>2. m \in Nat /\ m # 0
  <2>1. Flattens([i \in 1..0 |-> 0], seqs, 0)
    BY DEF Flattens
  <2> QED BY <2>1
<1>3. PICK f : Flattens(f, seqs, m - 1)
  <2>1. m - 1 \in Nat /\ ~ (m <= m - 1)
    BY <1>2
  <2>2. m - 1 \notin Bad
    BY <1>1, <2>1
  <2> QED BY <2>1, <2>2
<1> DEFINE g == [i \in 1..m |-> IF i = 1 THEN seqs[i] ELSE f[i - 1] \o seqs[i]]
<1>4. \A i \in 1..(m - 1) : f[i] = IF i = 1 THEN seqs[i] ELSE f[i - 1] \o seqs[i]
  BY <1>3, Zenon DEF Flattens
<1>5. ASSUME NEW i \in 1..m, i # 1
      PROVE  g[i - 1] = f[i - 1]
  <2>1. i - 1 \in 1..(m - 1) /\ i - 1 \in 1..m
    BY <1>2, <1>5
  <2>2. g[i - 1] = IF i - 1 = 1 THEN seqs[i - 1] ELSE f[(i - 1) - 1] \o seqs[i - 1]
    BY <2>1
  <2> QED BY <1>4, <2>1, <2>2
<1>6. Flattens(g, seqs, m)
  <2> DEFINE k == [i \in 1..m |-> IF i = 1 THEN seqs[i] ELSE g[i - 1] \o seqs[i]]
  <2>1. \A i \in 1..m : g[i] = k[i]
    BY <1>5
  <2>2. g = k
    BY <2>1
  <2> QED BY <2>2 DEF Flattens
<1>7. \A e : ~Flattens(e, seqs, m)
  BY <1>1
<1> QED BY <1>6, <1>7

LEMMA FlattenType ==
  ASSUME NEW S, NEW seqs \in Seq(Seq(S))
  PROVE  FlattenSeq(seqs) \in Seq(S)
<1>1. CASE Len(seqs) = 0
  BY <1>1 DEF FlattenSeq
<1>2. CASE Len(seqs) # 0
  <2> DEFINE n == Len(seqs)
             h == CHOOSE f :
                    f = [i \in 1..n |-> IF i = 1 THEN seqs[i] ELSE f[i - 1] \o seqs[i]]
  <2>1. n \in Nat /\ n # 0 /\ \A i \in 1..n : seqs[i] \in Seq(S)
    BY <1>2, LenProperties
  <2>2. FlattenSeq(seqs) = h[n]
    BY <1>2 DEF FlattenSeq
  <2>3. \E f : f = [i \in 1..n |-> IF i = 1 THEN seqs[i] ELSE f[i - 1] \o seqs[i]]
    BY <2>1, FlatteningExists DEF Flattens
  <2>4. h = [i \in 1..n |-> IF i = 1 THEN seqs[i] ELSE h[i - 1] \o seqs[i]]
    BY <2>3, Zenon
  <2> HIDE DEF n, h
  <2> DEFINE Bad == {i \in 1..n : h[i] \notin Seq(S)}
  <2>5. Bad = {}
    <3> SUFFICES ASSUME Bad # {} PROVE FALSE
      OBVIOUS
    <3>1. PICK m \in Bad : \A k \in Bad : m <= k
      <4>1. Bad \subseteq Nat
        BY <2>1
      <4> QED BY <4>1, LeastNumber
    <3>2. m \in 1..n /\ h[m] \notin Seq(S)
      OBVIOUS
    <3>3. CASE m = 1
      BY <2>1, <2>4, <3>2, <3>3
    <3>4. CASE m # 1
      <4>1. m - 1 \in 1..n /\ ~ (m <= m - 1)
        BY <2>1, <3>2, <3>4
      <4>2. h[m - 1] \in Seq(S)
        BY <3>1, <4>1
      <4>3. h[m] = h[m - 1] \o seqs[m]
        BY <2>4, <3>2, <3>4
      <4> QED BY <2>1, <3>2, <4>2, <4>3, ConcatProperties
    <3> QED BY <3>3, <3>4
  <2> QED BY <2>1, <2>2, <2>5
<1> QED BY <1>1, <1>2

-----------------------------------------------------------------------------
(* The plan of a request.                                                  *)

\* The keys to look up are keys, however many hints and hops there are.
LEMMA ExpectedType ==
  ASSUME data \in Data
  PROVE  Expected \in Seq(Keys)
<1>1. CASE data.kind = "Invoice"
  <2>1. data.payee \in Keys /\ data.hints \in Seq(Seq(Keys))
    BY <1>1, TableAssumption DEF Data, Bolt12, Static, Remote
  <2>2. FlattenSeq(data.hints) \in Seq(Keys)
    BY <2>1, FlattenType
  <2>3. Expected = <<data.payee>> \o FlattenSeq(data.hints)
    BY <1>1 DEF Expected, Bolt12
  <2> QED BY <2>1, <2>2, <2>3, ConcatProperties
<1>2. CASE data.kind \in Bolt12
  <2>1. data.payee \in Keys /\ Expected = <<data.payee>>
    BY <1>2 DEF Data, Bolt12, Static, Remote, Expected
  <2> QED BY <2>1
<1>3. CASE data.kind \notin WithPayee
  BY <1>3, EmptySeq DEF Expected, WithPayee
<1> QED BY <1>1, <1>2, <1>3 DEF WithPayee

\* Lookups of keys in their order.
LEMMA NodesProperties ==
  ASSUME NEW keys \in Seq(Keys)
  PROVE  /\ Nodes(keys) \in Seq(Call) /\ Len(Nodes(keys)) = Len(keys)
         /\ \A i \in 1..Len(keys) : Nodes(keys)[i] = [to |-> "node", key |-> keys[i]]
<1>1. Len(keys) \in Nat /\ DOMAIN keys = 1..Len(keys) /\ \A i \in 1..Len(keys) : keys[i] \in Keys
  BY LenProperties
<1>2. \A i \in 1..Len(keys) : [to |-> "node", key |-> keys[i]] \in Call
  BY <1>1 DEF Call
<1>3. Nodes(keys) = [i \in 1..Len(keys) |-> [to |-> "node", key |-> keys[i]]]
  BY <1>1 DEF Nodes
<1> QED BY <1>1, <1>2, <1>3

\* One call of a service that needs no key.
LEMMA ToProperties ==
  ASSUME NEW service \in {"load", "payee", "dns", "lnurl", "onion"}
  PROVE  /\ To(service) \in Seq(Call) /\ Len(To(service)) = 1
         /\ To(service)[1] = [to |-> service]
         /\ Head(To(service)) = [to |-> service] /\ Tail(To(service)) = <<>>
<1>1. [to |-> service] \in Call
  BY DEF Call
<1> QED BY <1>1 DEF To

LEMMA InvestigateProperties ==
  ASSUME data \in Data, data.kind \in WithPayee
  PROVE  /\ Investigate(data) \in Seq(Call)
         /\ data.kind = "Invoice" => Investigate(data) = Nodes(Expected)
         /\ data.kind \in Bolt12 => Investigate(data) = To("payee")
<1>1. data.kind = "Invoice" => Investigate(data) = Nodes(Expected)
  BY DEF Investigate, Expected, Bolt12
<1>2. data.kind \in Bolt12 => Investigate(data) = To("payee")
  BY DEF Investigate, Bolt12
<1> QED BY <1>1, <1>2, ExpectedType, NodesProperties, ToProperties DEF WithPayee

\* DNS first, then the domain.
LEMMA BothWays ==
  LET both == To("dns") \o To("lnurl") IN
  /\ both \in Seq(Call) /\ Len(both) = 2
  /\ both[1] = [to |-> "dns"] /\ both[2] = [to |-> "lnurl"]
  /\ Head(both) = [to |-> "dns"] /\ Tail(both) = To("lnurl")
<1>1. [to |-> "dns"] \in Call /\ [to |-> "lnurl"] \in Call
  BY DEF Call
<1>2. /\ To("dns") \in Seq(Call) /\ Len(To("dns")) = 1 /\ To("dns")[1] = [to |-> "dns"]
      /\ To("lnurl") \in Seq(Call) /\ Len(To("lnurl")) = 1
      /\ To("lnurl")[1] = [to |-> "lnurl"]
  BY ToProperties
<1> DEFINE both == To("dns") \o To("lnurl")
<1>3. both \in Seq(Call) /\ Len(both) = 2
  <2>1. both \in Seq(Call) /\ Len(both) = Len(To("dns")) + Len(To("lnurl"))
    BY <1>2, ConcatProperties
  <2>2. Len(both) = 1 + 1
    BY <1>2, <2>1
  <2>3. 1 + 1 = 2
    OBVIOUS
  <2> QED BY <2>1, <2>2, <2>3
<1>4. \A i \in 1..Len(To("dns")) + Len(To("lnurl")) :
        both[i] = IF i <= Len(To("dns")) THEN To("dns")[i] ELSE To("lnurl")[i - Len(To("dns"))]
  BY <1>2, ConcatProperties
<1>5. both[1] = [to |-> "dns"] /\ both[2] = [to |-> "lnurl"]
  <2> HIDE DEF both
  <2>1. \A i \in 1..2 : both[i] = IF i <= 1 THEN To("dns")[i] ELSE To("lnurl")[i - 1]
    BY <1>2, <1>4
  <2> QED BY <1>2, <2>1
<1>6. /\ Head(both) = [to |-> "dns"] /\ Tail(both) \in Seq(Call) /\ Len(Tail(both)) = 1
      /\ Tail(both)[1] = [to |-> "lnurl"]
  <2> HIDE DEF both
  <2>1. both # <<>>
    BY <1>3, EmptySeq
  <2>2. /\ Tail(both) \in Seq(Call) /\ Len(Tail(both)) = Len(both) - 1
        /\ \A i \in 1..Len(Tail(both)) : Tail(both)[i] = both[i + 1]
    BY <1>3, <2>1, HeadTailProperties
  <2>3. Head(both) = both[1]
    BY <1>3, <2>1
  <2>4. 1 \in 1..1
    OBVIOUS
  <2> QED BY <1>3, <1>5, <2>2, <2>3, <2>4
<1>7. Tail(both) = To("lnurl")
  <2> HIDE DEF both
  <2>1. \A i \in 1..1 : Tail(both)[i] = To("lnurl")[i]
    <3>1. \A i \in 1..1 : i = 1
      OBVIOUS
    <3> QED BY <1>2, <1>6, <3>1
  <2> QED BY <1>2, <1>6, <2>1, SeqEqual
<1> QED BY <1>3, <1>5, <1>6, <1>7

LEMMA PlanWithPayee ==
  ASSUME data \in Data, data.kind \in WithPayee, client \in {"server", "cli"}
  PROVE  /\ Plan(client, data) \in Seq(Call)
         /\ client = "server" => Plan(client, data) = Investigate(data)
         /\ client = "cli" => /\ Plan(client, data) # <<>>
                              /\ Head(Plan(client, data)) = [to |-> "load"]
                              /\ Tail(Plan(client, data)) = Investigate(data)
<1>1. Plan(client, data) = (IF client = "cli" THEN To("load") ELSE <<>>) \o Investigate(data)
  BY DEF Plan, WithPayee, Bolt12
<1>2. Investigate(data) \in Seq(Call)
  BY InvestigateProperties
<1>3. CASE client = "server"
  BY <1>1, <1>2, <1>3, ConcatEmptySeq
<1>4. CASE client = "cli"
  <2> DEFINE s == To("load")
             t == Investigate(data)
             p == s \o t
  <2>1. s \in Seq(Call) /\ Len(s) = 1 /\ s[1] = [to |-> "load"] /\ Len(t) \in Nat
    BY <1>2, ToProperties, LenProperties
  <2>2. /\ p \in Seq(Call) /\ Len(p) = Len(t) + 1 /\ p # <<>>
        /\ p[1] = [to |-> "load"]
        /\ \A i \in 1..Len(t) : p[i + 1] = t[i]
    <3>1. p \in Seq(Call) /\ Len(p) = Len(s) + Len(t)
      BY <1>2, <2>1, ConcatProperties
    <3>2. \A i \in 1..Len(s) + Len(t) : p[i] = IF i <= Len(s) THEN s[i] ELSE t[i - Len(s)]
      BY <1>2, <2>1, ConcatProperties
    <3> HIDE DEF p, s, t
    <3>3. p # <<>>
      BY <2>1, <3>1, EmptySeq
    <3>4. p[1] = [to |-> "load"]
      BY <2>1, <3>2
    <3>5. ASSUME NEW i \in 1..Len(t) PROVE p[i + 1] = t[i]
      <4>1. i + 1 \in 1..Len(s) + Len(t) /\ ~ (i + 1 <= Len(s)) /\ (i + 1) - Len(s) = i
        BY <2>1, <3>5
      <4> QED BY <3>2, <4>1
    <3> QED BY <2>1, <3>1, <3>3, <3>4, <3>5
  <2>3. Head(p) = [to |-> "load"] /\ Tail(p) \in Seq(Call) /\ Len(Tail(p)) = Len(t)
    <3> HIDE DEF p, t
    <3> QED BY <2>1, <2>2, HeadTailProperties
  <2>4. Tail(p) = t
    <3>1. \A i \in 1..Len(Tail(p)) : Tail(p)[i] = p[i + 1]
      BY <2>2, HeadTailProperties
    <3>2. \A i \in 1..Len(t) : Tail(p)[i] = t[i]
      BY <2>2, <2>3, <3>1
    <3> QED BY <1>2, <2>3, <3>2, SeqEqual
  <2>5. Plan(client, data) = p
    BY <1>1, <1>4
  <2> QED BY <1>4, <2>2, <2>3, <2>4, <2>5
<1> QED BY <1>3, <1>4

LEMMA PlanWithoutPayee ==
  ASSUME data \in Data, data.kind \notin WithPayee, client \in {"server", "cli"}
  PROVE  /\ Plan(client, data) \in Seq(Call)
         /\ \A i \in 1..Len(Plan(client, data)) :
              Plan(client, data)[i].to \in {"dns", "lnurl", "onion"}
         /\ data.kind = "Bip353OrLightningAddress"
              => Plan(client, data) = To("dns") \o To("lnurl")
<1> DEFINE p == Plan(client, data)
<1>1. CASE data.kind \in {"LnUrl", "LightningAddress"}
  <2>1. p = To("lnurl")
    BY <1>1 DEF Plan, Bolt12
  <2> QED BY <1>1, <2>1, ToProperties
<1>2. CASE data.kind = "Bip353"
  <2>1. p = To("dns")
    BY <1>2 DEF Plan, Bolt12
  <2> QED BY <1>2, <2>1, ToProperties
<1>3. CASE data.kind = "Bip353OrLightningAddress"
  <2>1. p = To("dns") \o To("lnurl")
    BY <1>3 DEF Plan, Bolt12
  <2> QED BY <2>1, BothWays
<1>4. CASE data.kind = "Offer" /\ client = "cli"
  <2>1. p = To("onion")
    BY <1>4 DEF Plan, Bolt12
  <2> QED BY <1>4, <2>1, ToProperties
<1>5. CASE ~ \/ data.kind \in {"LnUrl", "LightningAddress", "Bip353", "Bip353OrLightningAddress"}
             \/ data.kind = "Offer" /\ client = "cli"
  <2>1. p = <<>>
    BY <1>5 DEF Plan, WithPayee
  <2> QED BY <1>5, <2>1, EmptySeq
<1> QED BY <1>1, <1>2, <1>3, <1>4, <1>5

LEMMA InitInvariant == Init => IInv
<1> SUFFICES ASSUME Init PROVE IInv
  OBVIOUS
<1>1. data \in Data /\ client \in {"server", "cli"} /\ todo = Plan(client, data)
  BY DEF Init
<1>2. TypeOK
  BY <1>1, PlanWithPayee, PlanWithoutPayee, EmptySeq DEF Init, TypeOK
<1>3. FindingsInv
  <2>1. nodes = <<>> /\ ended = "no"
    BY DEF Init
  <2>2. ASSUME data.kind \in WithPayee, client = "server"
        PROVE  (data.kind \in Bolt12 /\ todo = To("payee")) \/ RestIsToDo
    <3>1. todo = Investigate(data)
      BY <1>1, <2>2, PlanWithPayee
    <3>2. CASE data.kind = "Invoice"
      <4>1. todo = Nodes(Expected) /\ Expected \in Seq(Keys)
        BY <1>1, <2>2, <3>1, <3>2, InvestigateProperties, ExpectedType
      <4>2. /\ Len(todo) = Len(Expected) /\ Len(Expected) \in Nat
            /\ \A i \in 1..Len(Expected) : todo[i] = [to |-> "node", key |-> Expected[i]]
        BY <4>1, NodesProperties, LenProperties
      <4> QED BY <2>1, <4>2 DEF RestIsToDo
    <3>3. CASE data.kind \in Bolt12
      BY <1>1, <2>2, <3>1, <3>3, InvestigateProperties
    <3> QED BY <2>2, <3>2, <3>3 DEF WithPayee
  <2> QED BY <1>1, <2>1, <2>2, PlanWithoutPayee DEF FindingsInv
<1>4. NamesInv
  <2>1. data.kind = "Bip353OrLightningAddress" => data.kind \notin WithPayee
    BY DEF WithPayee, Bolt12
  <2> QED BY <1>1, <2>1, PlanWithoutPayee DEF Init, NamesInv
<1> QED BY <1>2, <1>3, <1>4 DEF IInv

-----------------------------------------------------------------------------
(* Every step preserves the types.                                         *)

\* What is left of the calls when the first is done.
LEMMA CallsLeft ==
  ASSUME todo \in Seq(Call), todo # <<>>
  PROVE  /\ Head(todo) = todo[1] /\ Head(todo) \in Call
         /\ Tail(todo) \in Seq(Call) /\ Len(todo) \in Nat \ {0}
         /\ Len(Tail(todo)) = Len(todo) - 1
         /\ \A i \in 1..Len(Tail(todo)) : Tail(todo)[i] = todo[i + 1]
BY HeadTailProperties, EmptySeq, LenProperties

\* The key of a lookup is a key.
LEMMA KeyOfLookup ==
  ASSUME TypeOK, Busy("node")
  PROVE  Head(todo).key \in Keys
<1>1. Head(todo) \in Call /\ Head(todo).to = "node"
  BY CallsLeft DEF TypeOK, Busy
<1> QED BY <1>1 DEF Call

\* The node that is found is a node.
LEMMA NodeFound ==
  ASSUME TypeOK, QueryNode
  PROVE  \E node \in Node :
           /\ nodes' = Append(nodes, node)
           /\ node.pubkey = Head(todo).key
           /\ node.announced <=> graph[Head(todo).key] # "absent"
           /\ node.alias = "graph" <=> graph[Head(todo).key] = "named"
<1> DEFINE k == Head(todo).key
<1>1. k \in Keys
  BY KeyOfLookup DEF QueryNode
<1>2. PICK alias \in IF graph[k] = "named" THEN {"graph"} ELSE {"directory", None} :
        nodes' = Append(nodes, [pubkey |-> k, alias |-> alias, announced |-> graph[k] # "absent"])
  BY DEF QueryNode
<1>3. alias \in {"graph", "directory", None} /\ (alias = "graph" <=> graph[k] = "named")
  BY <1>2, NoneAssumption
<1> DEFINE node == [pubkey |-> k, alias |-> alias, announced |-> graph[k] # "absent"]
<1>4. (graph[k] # "absent") \in BOOLEAN
  OBVIOUS
<1>5. node \in Node
  BY <1>1, <1>3, <1>4 DEF Node
<1>6. node.pubkey = k /\ node.alias = alias /\ (node.announced <=> graph[k] # "absent")
  OBVIOUS
<1> QED BY <1>2, <1>3, <1>5, <1>6

\* Which calls can be the next one.
LEMMA NextCall ==
  ASSUME IInv, ended = "no", todo # <<>>
  PROVE  \/ /\ Busy("load") /\ data.kind \in WithPayee /\ client = "cli" /\ nodes = <<>>
            /\ Tail(todo) = Investigate(data)
         \/ Busy("payee") /\ data.kind \in Bolt12 /\ nodes = <<>>
         \/ Busy("node") /\ data.kind \in WithPayee /\ RestIsToDo
         \/ /\ data.kind \notin WithPayee
            /\ \E service \in {"dns", "lnurl", "onion"} : Busy(service)
<1>1. /\ data \in Data /\ client \in {"server", "cli"}
      /\ Head(todo) = todo[1] /\ 1 \in 1..Len(todo)
  BY CallsLeft DEF IInv, TypeOK
<1>2. CASE data.kind \notin WithPayee
  BY <1>1, <1>2 DEF IInv, FindingsInv, Busy
<1>3. CASE data.kind \in WithPayee
  <2>1. CASE nodes = <<>> /\ ended = "no" /\ client = "cli" /\ todo = Plan(client, data)
    <3>1. Head(todo) = [to |-> "load"] /\ Tail(todo) = Investigate(data)
      BY <1>1, <1>3, <2>1, PlanWithPayee
    <3> QED BY <1>3, <2>1, <3>1 DEF Busy
  <2>2. CASE nodes = <<>> /\ ended = "no" /\ data.kind \in Bolt12 /\ todo = To("payee")
    BY <2>2, ToProperties DEF Busy
  <2>3. CASE RestIsToDo
    <3>1. todo[1].to = "node"
      <4>1. todo[1] = [to |-> "node", key |-> Expected[Len(nodes) + 1]]
        BY <1>1, <2>3 DEF RestIsToDo
      <4> QED BY <4>1
    <3> QED BY <1>1, <1>3, <2>3, <3>1 DEF Busy
  <2> QED BY <1>3, <2>1, <2>2, <2>3 DEF IInv, FindingsInv
<1> QED BY <1>2, <1>3

LEMMA TypesPreserved == IInv /\ [Next]_vars => TypeOK'
<1> SUFFICES ASSUME IInv, TypeOK, [Next]_vars PROVE TypeOK'
  BY DEF IInv
<1>0. todo # <<>> => Tail(todo) \in Seq(Call)
  BY CallsLeft DEF TypeOK
<1>1. CASE LoadGraph
  <2>1. graph' \in [Keys -> GraphInfo]
    BY <1>1 DEF LoadGraph, TypeOK, GraphInfo
  <2> QED BY <1>0, <1>1, <2>1 DEF LoadGraph, Busy, Done, TypeOK
<1>2. CASE FindPayee
  <2>1. CASE Fail("error")
    BY <1>2, <2>1, EmptySeq DEF FindPayee, Fail, TypeOK
  <2>2. CASE todo' = Nodes(<<data.payee>>) /\ UNCHANGED ended /\ data.intro # "scid"
    <3>1. data.kind \in Bolt12
      BY <1>2, NextCall DEF FindPayee, Busy, WithPayee
    <3>2. <<data.payee>> \in Seq(Keys)
      BY <3>1 DEF TypeOK, Data, Bolt12, Static, Remote
    <3>3. Nodes(<<data.payee>>) \in Seq(Call)
      BY <3>2, NodesProperties
    <3> QED BY <1>2, <2>2, <3>3 DEF FindPayee, TypeOK
  <2> QED BY <1>2, <2>1, <2>2 DEF FindPayee
<1>3. CASE QueryNode
  <2>1. nodes' \in Seq(Node)
    <3>1. PICK node \in Node : nodes' = Append(nodes, node)
      BY <1>3, NodeFound
    <3> QED BY <3>1, AppendProperties DEF TypeOK
  <2> QED BY <1>0, <1>3, <2>1 DEF QueryNode, Busy, Done, TypeOK
<1>4. ASSUME NEW service \in {"dns", "lnurl", "onion"},
             NEW result \in {"ok", "withdraw", "error", None}, Show(service, result)
      PROVE  sections' \in Seq(Section)
  <2>1. [of |-> service, result |-> result] \in Section
    BY DEF Section
  <2> QED BY <1>4, <2>1, AppendProperties DEF Show, TypeOK
<1>5. CASE AskDns
  <2>1. sections' \in Seq(Section)
    BY <1>4, <1>5 DEF AskDns, TypeOK
  <2>2. Done \/ Fail("error")
    BY <1>5 DEF AskDns
  <2> QED BY <1>0, <1>5, <2>1, <2>2, EmptySeq DEF AskDns, Busy, Done, Fail, TypeOK
<1>6. CASE AskLnurl
  <2>1. sections' \in Seq(Section)
    BY <1>4, <1>6 DEF AskLnurl
  <2>2. Done \/ Fail("panic")
    BY <1>6 DEF AskLnurl
  <2> QED BY <1>0, <1>6, <2>1, <2>2, EmptySeq DEF AskLnurl, Busy, Done, Fail, TypeOK
<1>7. CASE AskPayee
  <2>1. sections' \in Seq(Section)
    BY <1>4, <1>7 DEF AskPayee
  <2> QED BY <1>0, <1>7, <2>1 DEF AskPayee, Busy, Done, TypeOK
<1>8. CASE Finish
  BY <1>8 DEF Finish, TypeOK
<1>9. CASE Leave
  BY <1>9, EmptySeq DEF Leave, Fail, TypeOK
<1>10. CASE UNCHANGED vars
  BY <1>10 DEF vars, TypeOK
<1> QED BY <1>1, <1>2, <1>3, <1>5, <1>6, <1>7, <1>8, <1>9, <1>10 DEF Next

-----------------------------------------------------------------------------
(* The findings.                                                           *)

\* What a step that leaves the nodes and the graph alone keeps.
LEMMA SameNodes ==
  ASSUME FindingsInv, UNCHANGED <<client, data, graph, nodes>>
  PROVE  /\ Expected' = Expected /\ Plan(client, data)' = Plan(client, data)
         /\ \A i \in 1..Len(nodes') : Right(i)'
<1>1. Expected' = Expected /\ Plan(client, data)' = Plan(client, data)
  BY DEF Expected
<1> QED BY <1>1 DEF FindingsInv, Right

\* A request that is left or fails has nothing to show.
LEMMA FailKeepsFindings ==
  ASSUME TypeOK, FindingsInv, NEW how \in {"error", "panic", "left"}, Fail(how),
         UNCHANGED <<client, data, graph, nodes>>
  PROVE  FindingsInv'
<1>1. todo' = <<>> /\ ended' = how
  BY DEF Fail
<1> QED BY <1>1, SameNodes, EmptySeq DEF FindingsInv

\* A service is asked only for what has no payee.
LEMMA ServiceKeepsFindings ==
  ASSUME IInv, NEW service \in {"dns", "lnurl", "onion"}, Busy(service), Done,
         UNCHANGED <<client, data, graph, nodes>>
  PROVE  FindingsInv'
<1>1. data.kind \notin WithPayee
  BY NextCall DEF Busy
<1>2. todo' = Tail(todo) /\ ended' = "no" /\ todo \in Seq(Call) /\ todo # <<>>
  BY DEF Busy, Done, IInv, TypeOK
<1>3. \A i \in 1..Len(todo') : todo'[i].to \in {"dns", "lnurl", "onion"}
  <2>1. /\ Len(todo) \in Nat \ {0} /\ Len(todo') = Len(todo) - 1
        /\ \A i \in 1..Len(todo') : todo'[i] = todo[i + 1]
    BY <1>2, CallsLeft
  <2>2. \A i \in 1..Len(todo') : i + 1 \in 1..Len(todo)
    BY <2>1
  <2> QED BY <1>1, <2>1, <2>2 DEF IInv, FindingsInv
<1> QED BY <1>1, <1>2, <1>3, SameNodes DEF IInv, FindingsInv

LEMMA LoadKeepsFindings ==
  ASSUME IInv, LoadGraph
  PROVE  FindingsInv'
<1>1. /\ data.kind \in WithPayee /\ client = "cli" /\ nodes = <<>> /\ data \in Data
      /\ todo' = Investigate(data) /\ ended' = "no"
      /\ UNCHANGED <<client, data, nodes>>
  BY NextCall DEF LoadGraph, Busy, Done, IInv, TypeOK
<1>2. Expected' = Expected
  BY <1>1 DEF Expected
<1>3. CASE data.kind = "Invoice"
  <2>1. todo' = Nodes(Expected) /\ Expected \in Seq(Keys)
    BY <1>1, <1>3, InvestigateProperties, ExpectedType
  <2>2. /\ Len(todo') = Len(Expected) /\ Len(Expected) \in Nat
        /\ \A i \in 1..Len(Expected) : todo'[i] = [to |-> "node", key |-> Expected[i]]
    BY <2>1, NodesProperties, LenProperties
  <2>3. RestIsToDo'
    BY <1>1, <1>2, <2>2 DEF RestIsToDo
  <2> QED BY <1>1, <2>3 DEF FindingsInv
<1>4. CASE data.kind \in Bolt12
  <2>1. todo' = To("payee")
    BY <1>1, <1>4, InvestigateProperties
  <2> QED BY <1>1, <1>4, <2>1 DEF FindingsInv, To
<1> QED BY <1>1, <1>3, <1>4 DEF WithPayee

LEMMA PayeeKeepsFindings ==
  ASSUME IInv, FindPayee
  PROVE  FindingsInv'
<1>1. CASE Fail("error")
  BY <1>1, FailKeepsFindings DEF FindPayee, IInv
<1>2. CASE todo' = Nodes(<<data.payee>>) /\ UNCHANGED ended
  <2>1. /\ data.kind \in Bolt12 /\ nodes = <<>> /\ ended' = "no" /\ data \in Data
        /\ UNCHANGED <<client, data, graph, nodes>>
    BY <1>2, NextCall DEF FindPayee, Busy, WithPayee, IInv, TypeOK
  <2>2. Expected = <<data.payee>> /\ Expected \in Seq(Keys) /\ Expected' = Expected
    BY <2>1, ExpectedType DEF Expected, Bolt12
  <2>3. /\ Len(todo') = Len(Expected) /\ Len(Expected) \in Nat
        /\ \A i \in 1..Len(Expected) : todo'[i] = [to |-> "node", key |-> Expected[i]]
    BY <1>2, <2>2, NodesProperties, LenProperties
  <2>4. RestIsToDo'
    BY <2>1, <2>2, <2>3 DEF RestIsToDo
  <2> QED BY <2>1, <2>4 DEF FindingsInv, WithPayee
<1> QED BY <1>1, <1>2 DEF FindPayee

\* A lookup is for the first of the nodes not found yet.
LEMMA LookupKeepsFindings ==
  ASSUME IInv, QueryNode
  PROVE  FindingsInv'
<1>1. /\ data.kind \in WithPayee /\ RestIsToDo
      /\ todo' = Tail(todo) /\ ended' = "no"
      /\ UNCHANGED <<client, data, graph>>
      /\ todo \in Seq(Call) /\ todo # <<>> /\ nodes \in Seq(Node) /\ data \in Data
  BY NextCall DEF QueryNode, Busy, Done, IInv, TypeOK
<1>2. /\ Expected' = Expected /\ Expected \in Seq(Keys) /\ Len(Expected) \in Nat
      /\ Len(nodes) \in Nat
  BY <1>1, ExpectedType, LenProperties DEF Expected
<1>3. /\ Len(todo) \in Nat \ {0} /\ Len(todo') = Len(todo) - 1
      /\ \A i \in 1..Len(todo') : todo'[i] = todo[i + 1]
      /\ Head(todo) = todo[1]
  BY <1>1, CallsLeft
<1>4. PICK node \in Node :
        /\ nodes' = Append(nodes, node)
        /\ node.pubkey = Head(todo).key
        /\ node.announced <=> graph[Head(todo).key] # "absent"
        /\ node.alias = "graph" <=> graph[Head(todo).key] = "named"
  BY NodeFound DEF IInv
<1>5. /\ Len(nodes') = Len(nodes) + 1 /\ nodes'[Len(nodes) + 1] = node
      /\ \A i \in 1..Len(nodes) : nodes'[i] = nodes[i]
  BY <1>1, <1>4, AppendProperties
<1>6. Head(todo).key = Expected[Len(nodes) + 1]
  <2>1. 1 \in 1..Len(todo)
    BY <1>3
  <2>2. todo[1] = [to |-> "node", key |-> Expected[Len(nodes) + 1]]
    BY <1>1, <2>1 DEF RestIsToDo
  <2> QED BY <1>3, <2>2
<1>7. \A i \in 1..Len(nodes') : Right(i)'
  <2>1. \A i \in 1..Len(nodes) : Right(i)'
    BY <1>1, <1>2, <1>5 DEF IInv, FindingsInv, Right
  <2>2. \A i \in {Len(nodes) + 1} : Right(i)'
    BY <1>1, <1>2, <1>4, <1>5, <1>6 DEF Right
  <2>3. \A i \in 1..Len(nodes') : i \in 1..Len(nodes) \/ i = Len(nodes) + 1
    BY <1>2, <1>5
  <2> QED BY <2>1, <2>2, <2>3
<1>8. RestIsToDo'
  <2>1. \A a \in Nat, b \in Nat \ {0} : (a + 1) + (b - 1) = a + b
    OBVIOUS
  <2>2. Len(nodes') + Len(todo') = Len(Expected)
    BY <1>1, <1>2, <1>3, <1>5, <2>1 DEF RestIsToDo
  <2>3. ASSUME NEW i \in 1..Len(todo')
        PROVE  todo'[i] = [to |-> "node", key |-> Expected[Len(nodes') + i]]
    <3>1. i + 1 \in 1..Len(todo) /\ i \in Nat
      BY <1>3
    <3>2. todo[i + 1] = [to |-> "node", key |-> Expected[Len(nodes) + (i + 1)]]
      BY <1>1, <3>1 DEF RestIsToDo
    <3>3. \A a, b \in Nat : a + (b + 1) = (a + 1) + b
      OBVIOUS
    <3>4. Len(nodes) + (i + 1) = Len(nodes') + i
      BY <1>2, <1>5, <3>1, <3>3
    <3> QED BY <1>3, <3>2, <3>4
  <2> QED BY <1>2, <2>2, <2>3 DEF RestIsToDo
<1> QED BY <1>1, <1>7, <1>8 DEF FindingsInv

LEMMA FindingsStay == IInv /\ [Next]_vars => FindingsInv'
<1> SUFFICES ASSUME IInv, [Next]_vars PROVE FindingsInv'
  OBVIOUS
<1>1. CASE AskDns
  BY <1>1, ServiceKeepsFindings, FailKeepsFindings DEF AskDns, IInv
<1>2. CASE AskLnurl
  <2>1. Done \/ Fail("panic")
    BY <1>2 DEF AskLnurl
  <2> QED BY <1>2, <2>1, ServiceKeepsFindings, FailKeepsFindings DEF AskLnurl, IInv
<1>3. CASE AskPayee
  BY <1>3, ServiceKeepsFindings DEF AskPayee
<1>4. CASE Finish
  <2>1. /\ todo = <<>> /\ ended = "no" /\ ended' \in {"page", "error"}
        /\ data \in Data /\ client \in {"server", "cli"}
        /\ UNCHANGED <<client, data, graph, todo, nodes>>
    BY <1>4 DEF Finish, IInv, TypeOK
  <2>2. data.kind \in WithPayee => RestIsToDo
    <3>1. To("payee") # <<>>
      BY DEF To
    <3> QED BY <2>1, <3>1, PlanWithPayee DEF IInv, FindingsInv
  <2>3. data.kind \in WithPayee => RestIsToDo'
    BY <2>1, <2>2, SameNodes DEF RestIsToDo, IInv
  <2> QED BY <2>1, <2>3, SameNodes DEF IInv, FindingsInv
<1>5. CASE Leave
  BY <1>5, FailKeepsFindings DEF Leave, IInv
<1>6. CASE UNCHANGED vars
  BY <1>6, SameNodes DEF vars, IInv, FindingsInv, RestIsToDo
<1> QED
  BY <1>1, <1>2, <1>3, <1>4, <1>5, <1>6, LoadKeepsFindings, PayeeKeepsFindings,
     LookupKeepsFindings DEF Next

-----------------------------------------------------------------------------
(* Names.                                                                  *)

LEMMA NamesStay == IInv /\ [Next]_vars => NamesInv'
<1> SUFFICES ASSUME IInv, [Next]_vars, data'.kind = "Bip353OrLightningAddress"
             PROVE  /\ ended' \in {"no", "page", "left"}
                    /\ ended' # "left" =>
                         \/ sections' = <<>> /\ ended' = "no" /\ todo' = To("dns") \o To("lnurl")
                         \/ /\ Len(sections') = 1 /\ sections'[1].of = "dns"
                            /\ ended' = "no" /\ todo' = To("lnurl")
                         \/ /\ Len(sections') = 2 /\ sections'[1].of = "dns"
                            /\ sections'[2].of = "lnurl" /\ todo' = <<>>
  BY DEF NamesInv
<1>0. /\ data.kind = "Bip353OrLightningAddress" /\ data.kind \notin WithPayee
      /\ todo \in Seq(Call) /\ sections \in Seq(Section)
      /\ ended \in {"no", "page", "left"}
  BY DEF IInv, TypeOK, NamesInv, Next, vars, LoadGraph, FindPayee, QueryNode, AskDns,
         AskLnurl, AskPayee, Finish, Leave, WithPayee, Bolt12
<1>1. /\ To("dns") \o To("lnurl") # <<>>
      /\ Head(To("dns") \o To("lnurl")).to = "dns" /\ Head(To("lnurl")).to = "lnurl"
      /\ Tail(To("dns") \o To("lnurl")) = To("lnurl") /\ Tail(To("lnurl")) = <<>>
      /\ To("lnurl") # <<>>
  <2>1. To("dns") \o To("lnurl") # <<>>
    BY BothWays, EmptySeq
  <2>2. To("lnurl") # <<>>
    BY ToProperties, EmptySeq
  <2> QED BY <2>1, <2>2, BothWays, ToProperties
<1>2. CASE LoadGraph \/ FindPayee \/ QueryNode
  <2>1. FALSE
    <3>1. ended = "no" /\ todo # <<>> /\ Head(todo).to \in {"load", "payee", "node"}
      BY <1>2 DEF LoadGraph, FindPayee, QueryNode, Busy
    <3> QED BY <1>0, <3>1, NextCall DEF Busy, WithPayee
  <2> QED BY <2>1
<1>3. CASE AskDns
  <2>1. sections = <<>> /\ todo = To("dns") \o To("lnurl") /\ ended = "no"
    BY <1>0, <1>1, <1>3 DEF AskDns, Busy, IInv, NamesInv
  <2>2. todo' = To("lnurl") /\ ended' = "no"
    BY <1>0, <1>1, <1>3, <2>1 DEF AskDns, Done
  <2>3. Len(sections') = 1 /\ sections'[1].of = "dns"
    BY <1>0, <1>3, <2>1 DEF AskDns, Show
  <2> QED BY <2>2, <2>3
<1>4. CASE AskLnurl
  <2>1. Len(sections) = 1 /\ sections[1].of = "dns" /\ todo = To("lnurl") /\ ended = "no"
    BY <1>0, <1>1, <1>4 DEF AskLnurl, Busy, IInv, NamesInv
  <2>2. todo' = <<>> /\ ended' = "no"
    BY <1>0, <1>1, <1>4, <2>1 DEF AskLnurl, Done
  <2>3. PICK result \in {"ok", "withdraw", "error", None} :
          sections' = Append(sections, [of |-> "lnurl", result |-> result])
    BY <1>4 DEF AskLnurl, Show
  <2>4. [of |-> "lnurl", result |-> result] \in Section
    BY DEF Section
  <2>5. /\ Len(sections') = Len(sections) + 1 /\ sections'[1] = sections[1]
        /\ sections'[Len(sections) + 1] = [of |-> "lnurl", result |-> result]
    <3>1. 1 \in 1..Len(sections)
      BY <2>1
    <3> QED BY <1>0, <2>3, <2>4, <3>1, AppendProperties
  <2>6. Len(sections) + 1 = 2
    BY <2>1
  <2> QED BY <2>1, <2>2, <2>5, <2>6
<1>5. CASE AskPayee
  <2>1. FALSE
    BY <1>0, <1>1, <1>5 DEF AskPayee, Busy, IInv, NamesInv
  <2> QED BY <2>1
<1>6. CASE Finish
  BY <1>0, <1>1, <1>6 DEF Finish, IInv, NamesInv
<1>7. CASE Leave
  BY <1>7 DEF Leave, Fail
<1>8. CASE UNCHANGED vars
  BY <1>0, <1>8 DEF vars, IInv, NamesInv
<1> QED BY <1>2, <1>3, <1>4, <1>5, <1>6, <1>7, <1>8 DEF Next

-----------------------------------------------------------------------------
\* The conjunction that is inductive holds in every state, whatever the keys, the
\* tables of services, the hints and the answers of the services.
THEOREM Invariance == Spec => []IInv
<1>1. Init => IInv
  BY InitInvariant
<1>2. IInv /\ [Next]_vars => IInv'
  BY TypesPreserved, FindingsStay, NamesStay DEF IInv
<1> QED BY <1>1, <1>2, PTL DEF Spec

\* Every variable keeps its type.
THEOREM TypeCorrect == Spec => []TypeOK
<1>1. IInv => TypeOK
  BY DEF IInv
<1> QED BY <1>1, Invariance, PTL

\* A page has every node of the payment in its order, each with what the graph and the
\* directory know of it, for invoices with any number of hints and hops.
THEOREM PagesAreWhole == Spec => []FindingsAreWhole
<1>1. IInv => FindingsAreWhole
  <2> SUFFICES ASSUME IInv, ended = "page"
               PROVE  /\ Len(nodes) = Len(Expected)
                      /\ \A i \in DOMAIN nodes :
                           /\ nodes[i].pubkey = Expected[i]
                           /\ nodes[i].announced <=> graph[Expected[i]] # "absent"
                           /\ nodes[i].alias = "graph" <=> graph[Expected[i]] = "named"
    BY DEF FindingsAreWhole
  <2>1. nodes \in Seq(Node) /\ data \in Data /\ todo = <<>>
    BY DEF IInv, TypeOK, FindingsInv
  <2>2. DOMAIN nodes = 1..Len(nodes) /\ Len(nodes) \in Nat /\ Len(Expected) \in Nat
    BY <2>1, ExpectedType, LenProperties
  <2>3. \A i \in DOMAIN nodes : Right(i)
    BY <2>2 DEF IInv, FindingsInv
  <2>4. Len(nodes) = Len(Expected)
    <3>1. CASE data.kind \in WithPayee
      BY <2>1, <2>2, <3>1 DEF IInv, FindingsInv, RestIsToDo
    <3>2. CASE data.kind \notin WithPayee
      BY <3>2 DEF IInv, FindingsInv, Expected, WithPayee
    <3> QED BY <3>1, <3>2
  <2> QED BY <2>3, <2>4 DEF Right
<1> QED BY <1>1, Invariance, PTL

\* Whatever DNS and the domain answer: a name that can be both is shown with what became
\* of both.
THEOREM NamesAreShownWithBoth == Spec => []NamesShowBoth
<1>1. IInv => NamesShowBoth
  <2> SUFFICES ASSUME IInv, data.kind = "Bip353OrLightningAddress", ended \notin {"no", "left"}
               PROVE  /\ ended = "page"
                      /\ Len(sections) = 2
                      /\ sections[1].of = "dns" /\ sections[2].of = "lnurl"
    BY DEF NamesShowBoth
  <2>1. ended = "page"
    BY DEF IInv, NamesInv
  <2> QED BY <2>1 DEF IInv, NamesInv
<1> QED BY <1>1, Invariance, PTL

-----------------------------------------------------------------------------
(* The recipient.                                                          *)

LEMMA MinOfNumbers ==
  ASSUME NEW T, T \subseteq Nat, T # {}
  PROVE  Min(T) \in T
<1>1. \E x \in T : \A y \in T : x <= y
  BY LeastNumber
<1> QED BY <1>1 DEF Min

\* With hints the tables of custodians and wrapping services are not looked at.
LEMMA RecipientThroughHints ==
  ASSUME NEW payee, NEW hints, hints # <<>>
  PROVE  Recipient(payee, hints) = ThroughHints(payee, hints)
BY DEF Recipient

\* The first of the hints the loop stops at is one of them.
LEMMA FirstStop ==
  ASSUME NEW hints, DOMAIN hints \subseteq Nat, Stops(hints) # {}
  PROVE  Min(Stops(hints)) \in Stops(hints)
BY MinOfNumbers DEF Stops

\* What is made of hints that agree, from any one of those the loop would stop at.
LEMMA AnyStopDecides ==
  ASSUME NEW payee, NEW hints, DOMAIN hints \subseteq Nat, Agree(hints),
         NEW i \in Stops(hints)
  PROVE  ThroughHints(payee, hints) =
           IF Len(hints[i]) # 1 THEN [kind |-> "Unknown"]
           ELSE [kind |-> "NonCustodial", id |-> payee, lsp |-> hints[i][1]]
<1> DEFINE first == Min(Stops(hints))
<1>1. first \in Stops(hints)
  BY FirstStop
<1> HIDE DEF first
<1>2. hints[first] = hints[i] \/ (Len(hints[first]) # 1 /\ Len(hints[i]) # 1)
  BY <1>1 DEF Agree
<1> QED BY <1>1, <1>2 DEF ThroughHints, first

LEMMA OrderDoesNotMatter ==
  ASSUME NEW payee, NEW hints \in Seq(Seq(Keys)), hints # <<>>, Agree(hints),
         NEW other \in Reorderings(hints)
  PROVE  Recipient(payee, other) = Recipient(payee, hints)
<1>1. PICK p \in Bijection(DOMAIN hints, DOMAIN hints) :
             other = [i \in DOMAIN hints |-> hints[p[i]]]
  BY DEF Reorderings
<1>2. /\ DOMAIN other = DOMAIN hints
      /\ \A i \in Stops(other) : p[i] \in Stops(hints) /\ other[i] = hints[p[i]]
      /\ \A i \in Stops(hints) : \E j \in Stops(other) : p[j] = i
  <2>1. /\ p \in [DOMAIN hints -> DOMAIN hints]
        /\ \A i \in DOMAIN hints : \E j \in DOMAIN hints : p[j] = i
    BY DEF Bijection, Injection, Surjection
  <2>2. DOMAIN other = DOMAIN hints /\ \A i \in DOMAIN hints : other[i] = hints[p[i]]
    BY <1>1
  <2>3. \A i \in Stops(other) : p[i] \in Stops(hints) /\ other[i] = hints[p[i]]
    BY <2>1, <2>2 DEF Stops
  <2>4. ASSUME NEW i \in Stops(hints)
        PROVE  \E j \in Stops(other) : p[j] = i
    <3>1. PICK j \in DOMAIN hints : p[j] = i
      BY <2>1, <2>4 DEF Stops
    <3>2. j \in Stops(other)
      BY <2>2, <2>4, <3>1 DEF Stops
    <3> QED BY <3>1, <3>2
  <2> QED BY <2>2, <2>3, <2>4
<1>3. DOMAIN hints \subseteq Nat /\ DOMAIN hints # {}
  <2> DEFINE S == Seq(Keys)
  <2>1. hints \in Seq(S) /\ hints # <<>>
    OBVIOUS
  <2> HIDE DEF S
  <2>2. DOMAIN hints = 1..Len(hints) /\ Len(hints) \in Nat \ {0}
    BY <2>1, EmptySeq, LenProperties
  <2>3. 1 \in DOMAIN hints
    BY <2>2
  <2> QED BY <2>2, <2>3
<1>4. /\ Recipient(payee, hints) = ThroughHints(payee, hints)
      /\ Recipient(payee, other) = ThroughHints(payee, other)
  <2>1. other # <<>>
    BY <1>2, <1>3
  <2> QED BY <2>1, RecipientThroughHints
<1>5. Agree(other)
  <2> SUFFICES ASSUME NEW i \in Stops(other), NEW j \in Stops(other)
               PROVE  other[i] = other[j] \/ (Len(other[i]) # 1 /\ Len(other[j]) # 1)
    BY DEF Agree
  <2>1. /\ p[i] \in Stops(hints) /\ other[i] = hints[p[i]]
        /\ p[j] \in Stops(hints) /\ other[j] = hints[p[j]]
    BY <1>2
  <2> QED BY <2>1 DEF Agree
<1>6. CASE Stops(hints) = {}
  <2>1. Stops(other) = {}
    BY <1>2, <1>6
  <2> QED BY <1>4, <1>6, <2>1 DEF ThroughHints
<1>7. CASE Stops(hints) # {}
  <2>1. PICK j \in Stops(other) : p[j] \in Stops(hints) /\ other[j] = hints[p[j]]
    BY <1>2, <1>7
  <2>2. ThroughHints(payee, other) =
          IF Len(other[j]) # 1 THEN [kind |-> "Unknown"]
          ELSE [kind |-> "NonCustodial", id |-> payee, lsp |-> other[j][1]]
    BY <1>2, <1>3, <1>5, <2>1, AnyStopDecides
  <2>3. ThroughHints(payee, hints) =
          IF Len(hints[p[j]]) # 1 THEN [kind |-> "Unknown"]
          ELSE [kind |-> "NonCustodial", id |-> payee, lsp |-> hints[p[j]][1]]
    BY <1>3, <2>1, AnyStopDecides
  <2> QED BY <1>4, <2>1, <2>2, <2>3
<1> QED BY <1>6, <1>7

\* For every invoice with any number of hints that do not contradict each other: all
\* orders of them give one recipient, and a wallet if a hint names one.
THEOREM HintsInAnyOrder == Spec => []OrderOfHints
<1>1. TypeOK => OrderOfHints
  <2> SUFFICES ASSUME TypeOK, data.kind = "Invoice", data.hints # <<>>, Agree(data.hints)
               PROVE  /\ \A other \in Reorderings(data.hints) :
                           Recipient(data.payee, other) = Recipient(data.payee, data.hints)
                      /\ (\E i \in Stops(data.hints) : Len(data.hints[i]) = 1)
                           => Findings.kind = "NonCustodial"
    BY DEF OrderOfHints
  <2>1. data.hints \in Seq(Seq(Keys))
    BY TableAssumption DEF TypeOK, Data, Bolt12, Static, Remote
  <2>2. ASSUME NEW i \in Stops(data.hints), Len(data.hints[i]) = 1
        PROVE  Findings.kind = "NonCustodial"
    <3>1. DOMAIN data.hints \subseteq Nat
      BY <2>1, LenProperties
    <3>2. Recipient(data.payee, data.hints)
            = [kind |-> "NonCustodial", id |-> data.payee, lsp |-> data.hints[i][1]]
      BY <2>2, <3>1, AnyStopDecides, RecipientThroughHints
    <3> QED BY <3>2 DEF Findings
  <2> QED BY <2>1, <2>2, OrderDoesNotMatter
<1> QED BY <1>1, TypeCorrect, PTL

=============================================================================
