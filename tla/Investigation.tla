---------------------------- MODULE Investigation ----------------------------
(***************************************************************************)
(* One request of the main form (parse_impl, server/src/main.rs) or one    *)
(* run of the command line (cli/src/main.rs): what was decoded decides     *)
(* which services are asked, one after the other, and what a failing one   *)
(* costs.  Nodes are looked up in the graph and, without an alias there,   *)
(* in the directory (detective/src/lib.rs); the recipient is read off the  *)
(* payee and the route hints (recipient.rs).                               *)
(***************************************************************************)
EXTENDS Naturals, Sequences, SequencesExt, FiniteSetsExt

CONSTANTS
  Keys,          \* public keys
  Custodians,    \* keys of custodial services
  WrappingLsps,  \* keys of services that wrap the invoices of others
  Lsps,          \* keys of the LSPs of wallets
  Sparks,        \* those of them that are Spark's
  Hints,         \* the lists of route hints an invoice can have
  None           \* "no value"

\* One service is in two of the tables; no key is a custodian's and an LSP's.
ASSUME TableAssumption ==
  /\ Custodians \cup WrappingLsps \cup Lsps \subseteq Keys /\ Sparks \subseteq Lsps
  /\ Custodians \cap (WrappingLsps \cup Lsps) = {}
  /\ Hints \subseteq Seq(Seq(Keys))

ASSUME NoneAssumption == None \notin {"graph", "directory"}

Bolt12 == {"Bolt12Invoice", "Bolt12StaticInvoice"}
Static == {"OnchainAddress", "LiquidAddress", "LiquidUri", "SilentPaymentAddress",
           "CashuPaymentRequest", "ArkAddress", "Bip21"}
Remote == {"LnUrl", "LightningAddress", "Bip353", "Bip353OrLightningAddress"}

\* `intro`: what the first message path of a BOLT-12 payload starts from; without a
\* path the payee is the signer.
Data ==
  [kind : {"Invoice"}, payee : Keys, hints : Hints, spark : BOOLEAN] \cup
  [kind : Bolt12, payee : Keys, intro : {"node", "scid", "none"}] \cup
  [kind : Static \cup Remote \cup {"Offer", "Refund", "error"}]

VARIABLES
  client,    \* who runs the request
  data,      \* what the text was decoded to
  graph,     \* what the graph of this process says of a key
  todo,      \* the calls still to make
  nodes,     \* the nodes found
  sections,  \* what there is to show: the calls that ended, and how
  ended      \* how the request ended

vars == <<client, data, graph, todo, nodes, sections, ended>>

GraphInfo == {"absent", "unnamed", "named"}

Node == [pubkey : Keys, alias : {"graph", "directory", None}, announced : BOOLEAN]

Call == [to : {"load", "payee", "dns", "lnurl", "onion"}] \cup [to : {"node"}, key : Keys]

Section == [of : {"dns", "lnurl", "onion"}, result : {"ok", "withdraw", "error", None}]

TypeOK ==
  /\ client \in {"server", "cli"} /\ data \in Data
  /\ graph \in [Keys -> GraphInfo]
  /\ todo \in Seq(Call) /\ nodes \in Seq(Node) /\ sections \in Seq(Section)
  /\ ended \in {"no", "page", "error", "panic", "left"}

-----------------------------------------------------------------------------
(* Who is paid: RecipientDecoder::decode.                                  *)

\* The hints the loop stops at: the first of them decides.
Stops(hints) == {i \in DOMAIN hints : Len(hints[i]) # 1 \/ hints[i][1] \in Lsps}

\* Mutant of ThroughHints: only the first hint is looked at.
ThroughFirstHint(payee, hints) ==
  IF Len(hints[1]) = 1 /\ hints[1][1] \in Lsps
  THEN [kind |-> "NonCustodial", id |-> payee, lsp |-> hints[1][1]]
  ELSE [kind |-> "Unknown"]

ThroughHints(payee, hints) ==
  IF Stops(hints) = {} \/ Len(hints[Min(Stops(hints))]) # 1 THEN [kind |-> "Unknown"]
  ELSE [kind |-> "NonCustodial", id |-> payee, lsp |-> hints[Min(Stops(hints))][1]]

Recipient(payee, hints) ==
  CASE hints = <<>> /\ payee \in Custodians   -> [kind |-> "Custodial", custodian |-> payee]
    [] hints = <<>> /\ payee \in WrappingLsps -> [kind |-> "Wrapped", lsp |-> payee]
    [] hints # <<>>                           -> ThroughHints(payee, hints)
    [] OTHER                                  -> [kind |-> "Unknown"]

\* investigate_bolt11: with Spark the id is the address in a hint, or nothing.
Findings ==
  LET r == Recipient(data.payee, IF data.kind = "Invoice" THEN data.hints ELSE <<>>) IN
  IF data.kind = "Invoice" /\ r.kind = "NonCustodial" /\ r.lsp \in Sparks
  THEN [r EXCEPT !.id = IF data.spark THEN "spark address" ELSE ""]
  ELSE r

-----------------------------------------------------------------------------
(* What is asked.                                                          *)

Nodes(keys) == [i \in DOMAIN keys |-> [to |-> "node", key |-> keys[i]]]

To(service) == <<[to |-> service]>>

\* The payee first, then the hops in their order.
Investigate(d) ==
  IF d.kind = "Invoice" THEN Nodes(<<d.payee>> \o FlattenSeq(d.hints)) ELSE To("payee")

\* The command line loads a graph of its own and asks an offer at once.
Plan(c, d) ==
  CASE d.kind \in Bolt12 \cup {"Invoice"} ->
         (IF c = "cli" THEN To("load") ELSE <<>>) \o Investigate(d)
    [] d.kind \in {"LnUrl", "LightningAddress"}  -> To("lnurl")
    [] d.kind = "Bip353"                         -> To("dns")
    [] d.kind = "Bip353OrLightningAddress"       -> To("dns") \o To("lnurl")
    [] d.kind = "Offer" /\ c = "cli"             -> To("onion")
    [] OTHER                                     -> <<>>

Init ==
  /\ client \in {"server", "cli"} /\ data \in Data
  /\ graph \in [Keys -> GraphInfo]
  /\ todo = Plan(client, data)
  /\ nodes = <<>> /\ sections = <<>>
  /\ ended = "no"

Busy(service) == ended = "no" /\ todo # <<>> /\ Head(todo).to = service

Done == todo' = Tail(todo) /\ ended' = ended

Fail(how) == ended' = how /\ todo' = <<>>

\* An empty graph is as good as any.
LoadGraph ==
  /\ Busy("load")
  /\ Done
  /\ \/ UNCHANGED graph
     \/ graph' = [k \in Keys |-> "absent"]
  /\ UNCHANGED <<client, data, nodes, sections>>

\* resolve_bolt12_pubkey.
FindPayee ==
  /\ Busy("payee")
  /\ \/ data.intro = "scid" /\ Fail("error")
     \/ /\ data.intro # "scid"
        /\ todo' = Nodes(<<data.payee>>)
        /\ UNCHANGED ended
  /\ UNCHANGED <<client, data, graph, nodes, sections>>

\* Mutant of QueryNode: a node whose alias is not found is left out.
QueryNamedNode ==
  /\ Busy("node")
  /\ LET k == Head(todo).key IN
     \/ nodes' = Append(nodes, [pubkey |-> k, alias |-> "directory",
                                announced |-> graph[k] # "absent"])
     \/ UNCHANGED nodes
  /\ Done
  /\ UNCHANGED <<client, data, graph, sections>>

\* Mutant of QueryNode: a node that is not in the graph is waited for.
QueryAnnouncedNode ==
  /\ Busy("node") /\ graph[Head(todo).key] # "absent"
  /\ nodes' = Append(nodes, [pubkey |-> Head(todo).key, alias |-> None, announced |-> TRUE])
  /\ Done
  /\ UNCHANGED <<client, data, graph, sections>>

\* query_node; the directory may know no alias, or not answer.
QueryNode ==
  /\ Busy("node")
  /\ LET k == Head(todo).key IN
     \E alias \in IF graph[k] = "named" THEN {"graph"} ELSE {"directory", None} :
       nodes' = Append(nodes, [pubkey |-> k, alias |-> alias,
                               announced |-> graph[k] # "absent"])
  /\ Done
  /\ UNCHANGED <<client, data, graph, sections>>

Show(service, result) ==
  sections' = Append(sections, [of |-> service, result |-> result])

\* Mutant of AskDns: a failure ends the request.
AskDnsOrEnd ==
  /\ Busy("dns")
  /\ \/ Show("dns", "ok") /\ Done
     \/ Fail("error") /\ UNCHANGED sections
  /\ UNCHANGED <<client, data, graph, nodes>>

\* resolve_bip353.  Only a name that can be a Lightning address as well survives.
AskDns ==
  /\ Busy("dns")
  /\ \/ Show("dns", "ok") /\ Done
     \/ data.kind = "Bip353" /\ Fail("error") /\ UNCHANGED sections
     \/ data.kind # "Bip353" /\ Show("dns", "error") /\ Done
  /\ UNCHANGED <<client, data, graph, nodes>>

\* resolve_lnurl to the end of its stream, which LnurlFlow describes.  The command line
\* cannot print a withdrawal: todo!().
AskLnurl ==
  /\ Busy("lnurl")
  /\ \E result \in {"ok", "withdraw", "error", None} :
       /\ result \in {"withdraw", None} => data.kind = "LnUrl"
       /\ Show("lnurl", result)
       /\ IF client = "cli" /\ data.kind = "LnUrl" /\ result = "withdraw"
          THEN Fail("panic")
          ELSE Done
  /\ UNCHANGED <<client, data, graph, nodes>>

\* request_bolt12_invoice, which OnionRequest describes.
AskPayee ==
  /\ Busy("onion")
  /\ \E result \in {"ok", "error"} : Show("onion", result)
  /\ Done
  /\ UNCHANGED <<client, data, graph, nodes>>

Finish ==
  /\ ended = "no" /\ todo = <<>>
  /\ ended' = IF data.kind = "error" \/ (data.kind = "Refund" /\ client = "server")
              THEN "error" ELSE "page"
  /\ UNCHANGED <<client, data, graph, todo, nodes, sections>>

\* The connection of the form is closed, and axum drops the handler; the command line
\* is interrupted.
Leave ==
  /\ ended = "no"
  /\ Fail("left")
  /\ UNCHANGED <<client, data, graph, nodes, sections>>

Next ==
  \/ LoadGraph \/ FindPayee \/ QueryNode \/ AskDns \/ AskLnurl \/ AskPayee
  \/ Finish \/ Leave

Spec == Init /\ [][Next]_vars

\* A lookup in the directory and an LNURL exchange have time limits of their own.
FairSpec ==
  Spec /\ WF_vars(FindPayee \/ QueryNode \/ Finish) /\ WF_vars(AskLnurl)

-----------------------------------------------------------------------------
(* Properties.                                                             *)

Expected ==
  CASE data.kind = "Invoice" -> <<data.payee>> \o FlattenSeq(data.hints)
    [] data.kind \in Bolt12  -> <<data.payee>>
    [] OTHER                 -> <<>>

\* A page has the payee and every hop of every hint, in their order, announced when
\* the graph has them, and with the graph's alias before the directory's; an alias
\* that cannot be found costs nothing else (lib.rs:103-104, 184-203).
FindingsAreWhole ==
  ended = "page" =>
    /\ Len(nodes) = Len(Expected)
    /\ \A i \in DOMAIN nodes :
         /\ nodes[i].pubkey = Expected[i]
         /\ nodes[i].announced <=> graph[Expected[i]] # "absent"
         /\ nodes[i].alias = "graph" <=> graph[Expected[i]] = "named"

\* Neither way of paying a name hides the other: whatever DNS and the domain answer,
\* the page shows what became of both (server/src/main.rs:231-245).
NamesShowBoth ==
  data.kind = "Bip353OrLightningAddress" /\ ended \notin {"no", "left"} =>
    /\ ended = "page"
    /\ Len(sections) = 2 /\ sections[1].of = "dns" /\ sections[2].of = "lnurl"

\* The hints the loop would stop at say the same: one LSP, or several hops each.
Agree(hints) ==
  \A i, j \in Stops(hints) :
    hints[i] = hints[j] \/ (Len(hints[i]) # 1 /\ Len(hints[j]) # 1)

Reorderings(hints) ==
  {[i \in DOMAIN hints |-> hints[p[i]]] : p \in Bijection(DOMAIN hints, DOMAIN hints)}

\* The order in which a payee lists the hints of an invoice does not decide who it is,
\* as long as they do not contradict each other: every order of them gives the same
\* recipient, and a wallet if a hint names one (recipient.rs:273-289).  Of hints that
\* contradict each other, two LSPs or an LSP and several hops, the first one decides.
OrderOfHints ==
  data.kind = "Invoice" /\ data.hints # <<>> /\ Agree(data.hints) =>
    /\ \A other \in Reorderings(data.hints) :
         Recipient(data.payee, other) = Recipient(data.payee, data.hints)
    /\ (\E i \in Stops(data.hints) : Len(data.hints[i]) = 1)
         => Findings.kind = "NonCustodial"

\* A request ends, except while it waits for DNS, for the graph or for the payee of an
\* offer, which have no limit in this code (server/src/main.rs:172).
EndsOrWaitsForOthers ==
  <>(ended # "no") \/ <>[](\E s \in {"dns", "load", "onion"} : Busy(s))

\* What makes FindingsAreWhole inductive: every node found is right, and the calls still
\* to make are the whole plan, the search for the payee or a lookup for each of the
\* nodes not found yet.
Right(i) ==
  /\ nodes[i].pubkey = Expected[i]
  /\ nodes[i].announced <=> graph[Expected[i]] # "absent"
  /\ nodes[i].alias = "graph" <=> graph[Expected[i]] = "named"

RestIsToDo ==
  /\ Len(nodes) + Len(todo) = Len(Expected)
  /\ \A i \in 1..Len(todo) : todo[i] = [to |-> "node", key |-> Expected[Len(nodes) + i]]

WithPayee == Bolt12 \cup {"Invoice"}

FindingsInv ==
  /\ \A i \in 1..Len(nodes) : Right(i)
  /\ data.kind \notin WithPayee =>
       nodes = <<>> /\ \A i \in 1..Len(todo) : todo[i].to \in {"dns", "lnurl", "onion"}
  /\ data.kind \in WithPayee /\ ended \in {"no", "page"} =>
       \/ nodes = <<>> /\ ended = "no" /\ client = "cli" /\ todo = Plan(client, data)
       \/ nodes = <<>> /\ ended = "no" /\ data.kind \in Bolt12 /\ todo = To("payee")
       \/ RestIsToDo
  /\ ended = "page" => todo = <<>>

\* What makes NamesShowBoth inductive: DNS first, and the domain whatever it said.
NamesInv ==
  data.kind = "Bip353OrLightningAddress" =>
    /\ ended \in {"no", "page", "left"}
    /\ ended # "left" =>
         \/ sections = <<>> /\ ended = "no" /\ todo = To("dns") \o To("lnurl")
         \/ Len(sections) = 1 /\ sections[1].of = "dns" /\ ended = "no" /\ todo = To("lnurl")
         \/ Len(sections) = 2 /\ sections[1].of = "dns" /\ sections[2].of = "lnurl" /\ todo = <<>>

IInv == TypeOK /\ FindingsInv /\ NamesInv
=============================================================================
