# Lightning Detective in TLA+

Models, model-checking runs and proofs for Lightning Detective: the `detective` library, the
`server` with its web page, and the `cli`. Line numbers are those of the files under `src/`.

## The system

Lightning Detective takes a payment instruction (BOLT-11 invoice, BOLT-12 offer, LNURL, BIP-21
URI, ...), says what it is and, for lightning, who probably receives the payment. It can also ask
the payee for an invoice. Parts and what they keep:

| Part | Source | State | Operations | Hard behaviour |
|---|---|---|---|---|
| BOLT-12 invoice request | `detective/src/ldk_node` | per request: the task, an event channel, the node's connections, `OffersHandler::pending`, a oneshot | connect to the introduction node, send the onion message, wait for the answer | concurrent requests under one node identity, late and repeated answers, timeouts, a client that leaves |
| Invoice request stores and streams | `server/src/main.rs`, `server/static/vendor/htmx-sse.js`, templates | `OFFER_REQUESTS`, `LNURL_REQUESTS`, response bodies; in the page the stream div and its EventSource | POST stores, GET takes out and streams, the page appends events | reconnects, lost connections, restarts, a div replaced under a running stream |
| Alias cache | `detective/src/alias_resolver.rs` | map in memory, JSON file shared by processes | `resolve` | concurrent fetches, unlocked file writes, crash and restart, expiry |
| Gossip snapshot cache | `detective/src/rgs_graph.rs` | file, the graph in memory | load at start and per BOLT-12 request | partial and bad files, age |
| LNURL client | `detective/src/lnurl.rs` | event channel per request | resolve, request invoice | timeout, malformed answers, amount check, a reader that leaves or stalls |
| Classification | `detective/src/decoder.rs` and the format modules (`cashu`, `liquid_address`, `ark`, ...) | none | `decode` | order of attempts, boundaries of TLV and numbers |
| Investigation | `server/src/main.rs`, `detective/src/lib.rs`, `recipient.rs` | constant tables; per request what was found so far | the main form, `investigate_*`, `decode` of a recipient | one lookup of several failing, rules that depend on the order of hints |
| Display | `detective/src/types.rs`, `bolt12.rs`, `invoice_details.rs`, `duration.rs` | none | `fmt` | zeros and carries of fractions |
| Page | `server/static/app.js`, `index.html` | address bar, main form, result | submit, reset, share, QR | events of overlapping requests |
| Graph builder | `graph-builder/src/main.rs` | an SQLite file | dump nodes and channels | a run that stops half way |
| CLI | `cli/src/main.rs` | none | print | shares the cache files with the server |

How they interact: an HTTP handler calls `InvoiceDetective` (graph, alias cache, recipient tables);
the stream handlers start a task of `ldk_node` or `lnurl` and turn its event channel into
server-sent events; the page opens an EventSource on them. The alias and gossip files in `/tmp` are
shared by all processes on the machine.

What makes each part correct: an answer reaches the request it was made for or none; a request
ends, or waits for the gossip snapshot or its answer and nothing else; a form asks the payee at most once; a page shows the events
of its own task in order; an alias or a snapshot is never older than promised, and a bad one is not in
the way for ever; callers do not undo each other; a failing lookup costs its own answer and no other;
what is parsed is the whole of what was written; what is shared is what is shown.
The hazards at their lines, with the properties that cover them, are in `PROJECT.json`.

## Modules

### Invoice requests: `OnionEvents`, `InvoiceService`, `OnionRequest`

`OnionRequest` is `request_bolt12_invoice` (`mod.rs`), `LdkNode` (`node.rs`) and `OffersHandler`
(`offers_handler.rs`). A request is cut at its awaits; `pc` is the await it is at. Every
`events.send(..).await?` is `Emit`: it appends when the channel has a slot, waits when it has none
and fails the request when the receiver is gone. `ConnectPeer` and `AwaitHandshake` are the two
waits with a timeout, which is a choice they always have. The waits without one are `Download`, the
request for a snapshot that `node.start()` makes when the file is too old, and `AwaitResponse`.
`pending[n]` is the map of node `n`'s handler and `response[r]` the oneshot of request `r`; `Resolve` is
`OffersHandler::resolve`. All nodes are built from the seed `[42; 32]`, so an answer may come in over the
connection of any of them (`HandleMessage(n, m)`), where it is looked up in that node's own map, and
dropped if it is another's. `PayeeAnswers`
lets a payee answer repeatedly, with invoices made for another request too, and `MessageLost`
loses answers. `Receive`, `StreamEnds` and `Leave` are the consumer: the SSE body or the CLI loop.

Abstracted: contents of offers and invoices (a message is its reply path, its kind and the request
it was made for), cryptography (`verify_using_payer_data` compares the two requests), addresses (how
many there are). `ConnectionNeeded` is never sent by the code and is not an event of the model.

`InvoiceService` is what a caller is promised: an order of events, one `Result` at most, and `Ok`
only with an answer this payee gave to this request. `OnionRequest` implements it with `asked`, `outcome` and
`last` as they are (`KeepsPromise`); both take their vocabulary from `OnionEvents`.

### Streams in the page: `InvoiceStream`

Both forms (offer, LNURL) work alike: `StoreRequest` is the POST handler, `Get` the stream handler,
which removes the input under the lock and starts a task, answers 404, or, for an offer that does
not decode, answers one error event (`Respond`). `ShowStream` is htmx swapping the answer of the POST in:
it cleans up the div that was there (`disconnectSource`) and opens an EventSource (`connectSource`).
`Deliver` is `swapInto`. An EventSource reconnects after the end or the loss of a response
(`StreamEnds`, `ConnectionLost`) and gives up at a 404, which is how the browser's standard has it.
The `Reset` button empties the result with `innerHTML`, so htmx cleans nothing up.

Results of the main form are numbered: `area[id]` is the result the form of `id` is in, `result` the
one in the document. An event keeps its index and its kind; a task is only the number of events it
has sent (`OnionRequest` is what goes on inside).

What the model shows of the code, and the properties are worded to allow: after `Reset` the old
EventSource lives on, and its `Result` removes the *next* request's progress bar, because the
bar is looked up by id in the whole document; after an error event the bar stays; a Result that is
in flight when the connection breaks is lost, since the reconnect finds 404.

### Alias cache: `AliasCache`

`resolve` in steps: `Resolve` looks the key up, `DirectoryAnswers` or `FetchFails` is the request,
`CacheAlias` inserts and clones under the lock, `TruncateFile` and `WriteFile` are `fs::write` after the lock is
gone. `Start` reads the file (`unwrap_or_default`), `Stop` is the end of a process in the middle of
anything. An alias is represented by the moment at which the directory gave it, so "how old is what
we show" can be asked. A file is a map or `Torn` (missing, truncated, or a mixture serde rejects).

### Gossip snapshot: `RgsCache`

`update_network_graph` in steps: `Check` looks at the age of the file and `ReadFile` at its bytes, which another
loader may have replaced in between; `Fetch` and `FetchFails` are the request, `Truncate` and `Fill` are `fs::write`,
`Apply` is LDK. A snapshot is its content (good, bad, torn) and its age. Ages stop one above the TTL, so
time can go on for ever and the model stays finite; `Tick` does not fall between the steps of one
loader that have no await of the network between them.

### LNURL: `JsonRpcService`, `LnurlFlow`

`LnurlFlow` is one call of `resolve_lnurl` or `request_invoice`. The four progress events are `Send`, which
waits for a slot and fails when the reader is gone; `Answer`, `ReceiveBody`, `HttpFails` and `TimesOut` are what
can become of the exchange; `DecodeLnurl` and `DecodeInvoice` are what is made of the body, which is any record
of `Json(job)`; the bounds of a pay response are taken as they are. `ChannelResponse::try_from` is `todo!()`, so its branch is `Panic`: the task is gone and sends no Result.
The reader reads on, stalls or leaves. `JsonRpcService` is the promise: the steps in their order and
once, then one Result at most, `Ok` after all of them. `KeepsPromise` is the refinement: what the reader
has seen before the Result is the steps, and the Result, once seen, the result.

### The main form: `Investigation`

`parse_impl` of the server and `main` of the command line: `todo` is the list of calls still to make,
which `Plan` takes from what was decoded. `QueryNode` is `query_node` (graph, then directory), `FindPayee` is
`resolve_bolt12_pubkey`, `AskDns`, `AskLnurl` and `AskPayee` the services, each with its outcomes. `Recipient` is
`RecipientDecoder::decode` with its tables as constants.

### Pure functions: `Formats` over `Decoder`, `UriParams`, `CashuRequest`, `PayMetadata`, `Display`

Five modules of operators, each a function of the library and the reference it is compared with;
`Formats` calls them, one call a behaviour, with every input of the bounds.

- `Decoder`: the rules of `decode` in their order, over how a text begins, whether that is in capitals,
  and whether the parser takes the text as it is written and in small letters. The two may differ, as
  for a URI whose keys are in capitals, and each rule asks for the one that the code asks for.
- `UriParams`: `parse_bip21` and `parse_liquid_uri` as folds over the query. Reference: which URIs are wrong,
  independently of the order, and what must be shown of the others.
- `CashuRequest`: NUT-26 from bytes (of base 9) to entries, transports, options and tags; NUT-18 from
  what the CBOR library returns. Reference: a writer of the requests there can be (`Request`), and cut
  or changed bytes.
- `PayMetadata`: `try_from_parts` as a fold. Reference: what LUD-06 says the whole array means
  (`Acceptable`, `IsMeaning`).
- `Display`: amounts, ranges, fees, durations, block counts and events. Reference: a reader.

### Graph database: `GraphBuilder`

Runs of the builder over any of the files, one step per node, edge and statement of `CREATE_DB`, and one
for the transaction of `dump`, which fails as a whole when an id does not fit SQLite's signed 64 bits.
Capacities are added modulo `Word`, or the run panics (`Overflows`), as the two builds do; a sum that is
no signed 64-bit number is stored as the REAL nearest to it (`Column`, with `Rounded` for any rounding).
A run may stop at any step, and the next one finds the tables as they are. Runs come one after the
other: two at the same time on one database, which SQLite's locks would order statement by statement,
are not modelled.

### The page's main form: `WebClient`

Text area, address bar with its history, result, QR code. `Issue` is `handleBeforeRequest` (push, replace), `Answer`
the swap after which `wireQrButton` reads the address bar, `EndRequest` the end of a request, after which
htmx sends the one it kept back. Back and Forward move the address bar without the page noticing.

## Runs

| Run | Question | Bounds |
|---|---|---|
| `two_requests` | is a sent request registered or answered, by its own answer, when two are served at once | 2 requests, 1 address, channel of 1 slot, 2 answers in flight |
| `one_request_live` | what can a request wait for without limit, does an answer end it, does its Result arrive | 1 request, 2 addresses, channel of 2 slots, 2 answers |
| `stream` | is a form served at most once, shown once, and does the page come to rest | 2 forms (one offer, one LNURL), 2 progress events, 1 restart, 1 Reset or new investigation |
| `alias_processes` | how old can an alias be | 2 processes (2 callers, 1 caller), 1 key, TTL 1, timeout 1, 4 ticks |
| `alias_keys` | do callers of one process undo each other, do lookups end | 1 process, 2 callers, 2 keys, 2 ticks |
| `rgs_cache` | how old can a graph be, does a bad file go away | 2 loaders, TTL 1 and everything older, 1 crash, no bound on time |
| `lnurl` | is an `Ok` what was asked, does the task end, what does the reader see | every kind of LNURL, 2 amounts, every kind of answer, channel of 5 slots |
| `investigation` | does a failing lookup cost more than its answer, does a request end | 4 keys (user, custodian, LSP that wraps, Spark), 12 lists of hints, any graph |
| `graph_builder` | what do stopped runs leave in the database | any number of runs over 84 files of 2 nodes and 2 edges, words of 4 bits and integers of 3 |
| `web_client` | is what is shared what is shown | 2 texts and none, 3 requests |
| `formats` | do the pure functions agree with their references | 2 parameters, 3 metadata entries, 32 Cashu requests with all their damages, values about every carry |
| `liquid_amount` | must an amount have an asset (expected: violated) | as `formats` |

Two requests are enough for one to get the other's answer, one slot for a full channel, one address
for success and for "all addresses failed", two for a retry; requests are symmetric. Two answers in
flight give repeated, crossed and late ones. One tick past TTL + timeout is needed to see an entry expire;
four give an entry time to be cached late, written by another process, reloaded and expire. Two
loaders are a writer and a reader between whose steps it writes. Five slots are one more than the steps
of an LNURL exchange, which is what the code's 100 are for. Two parameters or edges are enough for one
to replace the other, and three capacities for sums that fit, are rounded and wrap around; three
metadata entries for two of a kind and one of another. Three requests
are one in flight, one kept back and one before them. Deadlock is not checked where the system may stop: requests that are over, or that wait for an answer that
does not come; a clock at its bound.

`liquid_amount` is the one run that is expected to fail. The documentation page says of Liquid URIs "When
amount is present, assetid is required." (`server/templates/doc.html:156`); `parse_liquid_uri` reads the two
independently and accepts an amount alone.

Each property of a run has a mutant of the code's definition in the module (named and described
before it) with which TLC finds the property violated.

### Fairness

- `OnionRequest`: weak fairness of a request's task and of its reader. The tokio runtime polls every
  task that can go on; the connect wait ends after 10 s and the handshake wait after 60 s, in one
  way or the other; a client that has not left keeps reading. Nothing is assumed of peers, payees
  and the network: the download of the snapshot need not come to an end, nor the answer come.
- `InvoiceStream`: the browser delivers events that came, notices the end of a response and
  reconnects, and the server answers a GET. That a task ends is not assumed.
- `AliasCache`: the runtime continues a call that is not waiting, and the HTTP client (5 s) ends one
  that is. The directory need not answer.
- `LnurlFlow`: the runtime continues the task, the client's timer (20 s) fires, and a reader that has
  neither stalled nor left is polled. The server need not answer.
- `RgsCache`: loaders run and are started again, time goes on (`[]<><<Tick>>_vars`, since a `Tick` can be put
  off by loaders that keep coming), and a service that is up answers. `reqwest::get` has no time limit,
  so nothing is said of a service that is not.
- `Investigation`: lookups in the directory (5 s) and LNURL exchanges (20 s) end. DNS, the load of the
  graph by the command line and the payee of an offer have no limit here and get no fairness.

## Proofs

TLC checks a small instance; each theorem below is for every value of the constants that meets the
assumptions of the module: any number of requests, loaders, forms, hints, nodes, parameters, and every
bound. The theorems with the properties they state are listed in `PROJECT.json`. In each module a
property is proved from an inductive invariant `IInv`, which TLC checked first: `Init => IInv`, one lemma
or step per action for `IInv /\ [Next]_vars => IInv'`, and the property from `IInv`.

- `OnionRequestProofs`. `NoLostAnswer` is not inductive alone: that a registered id is still there needs to
  know that an id is registered once, at one step of the task, only with its own node, and that a
  response takes its place (`RegistrationInv`, `OutcomeInv`). From it follow `RegisteredOrAnswered`,
  `RequestsAreNotMixedUp`, `FirstAnswerIsFinal` and `AbandonedRequestsStop`. `StreamInvariance` proves that every
  event in the channel may follow the one before it (`Ordered`, which ties the event sent last to where
  the task stands), and `Refinement` that each step is a step of `InvoiceService` or leaves its
  variables alone.
- `InvoiceStreamProofs`. `Unserved` (an input is in the store only while no task was started for it) makes
  `AtMostOneRun` inductive; `OneDiv` (a live EventSource has its div, a result has one div) gives
  `OneLiveSource`. `ShownInOrder` needs where the body goes on (`Continues`) and that nothing a running task
  sent is missing from div and body together (`Complete`); `BarUntilResult` needs that a div is empty when
  it comes (`NewDivs`). The same module proves `SharesWhatIsShown` of the page's main form, `WebClient`: while a
  request is in flight the address is that request's, not that of the one kept back (`AddressInv` in
  `FormInv`).
- `AliasCacheProofs`. `SoundContents` says of every entry anywhere, in a cache, a snapshot still to be written
  or the file, that it was cached within one timeout of the directory's answer; with
  `RequestsInTime` it is inductive, and gives `AliasesAreRecent` and `NoEntryIsLost`.
- `RgsCacheProofs`. What is in the file is as old as the file, a loader about to read has a file that may still
  be used, since it can only have become younger, and what a loader has in memory follows from its
  step. `SnapshotsAreRecent` and `FetchesAreUsed` follow. Assumed: `None` is not a file.
- `LnurlFlowProofs`. The events, read or not, are the steps in their order with the Result at the end
  (`EventsInOrder`), as many as the step of the task says (`EventsFollowSteps`). This gives `StreamsCloseWithResult`,
  `OkAnswersTheQuestion`, `NobodyIsNotCalledFor` and, since what the reader has seen is a beginning of it,
  `Refinement`: every step is a step of `JsonRpcService` or a stutter. Assumed: the channel has more slots
  than there are steps (100 in the code), and `None` is none of the tags and kinds.
- `InvestigationProofs`. Every node found is right, and the calls still to make are the whole plan, the search
  for the payee, or a lookup for each node not found yet (`FindingsInv`); DNS comes first and the domain
  whatever it said (`NamesInv`). `HintsInAnyOrder` needs no invariant but the type: it is about
  `RecipientDecoder::decode` and every order of a list whose hints do not contradict each other
  (`Agree`). The first hint that stops the loop decides (`FirstStop`), and of such hints any does. Assumed: the tables are disjoint as the code's are,
  and `None` is not the origin of an alias.
- `GraphBuilderProofs`. The maps are what the elements read so far describe (`MapsInv`), and the tables
  are emptied one after the other (`StatementsInv`). The capacity of a node is a sum over the edges that
  name it; that reading one more edge adds its capacity once for each end is a lemma about
  `MapThenSumSet`, and that a sum cut to a word at every step is the sum cut once is `CutSum`. Assumed:
  a graph file is lists of nodes, edges and malformed elements, ids and capacities are words, and
  the greatest integer of SQLite is less than a word.
- `FormatsProofs`. All the properties of `Formats`, for every length. Both URI parsers and the reader of
  metadata are folds: `IsReadUpTo` and `IsFoundIn` say what is read from the first `n` elements, that it is
  refused exactly when one of them is wrong, and otherwise that each of them is shown or replaced by a
  later one, or is what the prefix means (`UrisAreShownWhole`, `MetadataIsReadForWhatItMeans`).
  `TextsAreReadInAnySpelling` is by cases over how a text begins; that a parser says the same of two
  spellings is not assumed but a hypothesis of the part of the property that needs it.
  For `ValuesReadBack`, digits that were shown are read as the same number (`Digits` recurses on the number,
  `Read` folds over the digits), also after zeros were put before them or trimmed behind; the parts of a
  duration add up; and a stream of an event's lines is split where they end, one line at a time.
  `RequestsAreReadAsWritten` has two halves. What a writer wrote is read: an entry in front of any bytes is
  read as that entry and then the bytes (`EntryIsRead`, `EntriesAreRead`, and the same for the parts of a
  tag), so of every kind exactly the values that were written come back (`Made`), of which each field is
  made again. And of any bytes, `AcceptedIsWhole`: written again, the entries of bytes that are accepted are
  those bytes (`RewrittenIsWhole`), of every transport and option too. Assumed: the base has 9 digits or
  more (256 in the code), an amount may have two bytes, the requests are of the type `Request`, values are
  short enough for the length before them, and "no value" is none of the values.

What a fold, a sum or a recursive function computes for every input is proved without the induction
theorems, which take an operator as a parameter: the set of the lengths for which a statement fails
has a least element (`LeastNumber`, from `WFMin` of `WellFoundedInduction`), and that is neither 0 nor one
more than a length for which it holds. That a function exists which satisfies the recursive equation,
so that the equation may be used, is shown in the same way (`FoldsExist`, `RecursionExists`): of functions
that split a sequence and go on with a shorter rest.

Only model-checked are the liveness properties (`WaitsForOthersOnly`, `AnswerEndsRequest`, `ResultReachesClient`,
`Settles`, `ResultIsSeen`, `ResolveEnds`, `Recovers`, `TaskEnds`, `EndsOrWaitsForOthers`), which are outside what TLAPS
proves. Every invariant and every action property that a run checks is stated by a theorem, but
`AmountNeedsAsset`, which does not hold.

The type invariants and `IInv` of the modules that no run lists are stated for the proofs.

## What the models show of the code

Behaviour that the properties are worded to allow, and that a reader of the code may not expect:

- A request for an invoice waits for the download of the gossip snapshot without a limit, and does not
  notice that its client has left meanwhile (`rgs_graph.rs:86`); the payee's answer is the other such wait.
- An answer over the connection of another node is dropped, though its own request waits for it.
- A pay response whose least amount is above its greatest is accepted (TODO at `lnurl.rs:249`).
- Where hints of an invoice contradict each other, the first that names a recipient decides.
- A `channelRequest` panics the LNURL task, and its stream ends without a Result (`lnurl.rs:299`); the command
  line panics on a withdrawal (`cli/src/main.rs:185`).
- A bad or torn gossip snapshot is used from the file for a day, since it is written before it is
  applied. The server's graph is loaded once, so its age has no bound; `BoundedStaleness` is about the load.
- After `lightning:`, and in every text that no earlier rule takes, the rest is read in small letters; so is
  a LUD-17 URL, path and query included. A name in capitals is a Lightning address with the scheme and
  a BIP-353 name alone without it.
- URIs are read as they are written: a key in capitals is an unknown one, so that `BITCOIN:?PJOS=1` is
  accepted and `bitcoin:?pjos=1` is refused. A QR code in capitals shows its parameters as unknown ones.
- In a BIP-21 URI a key written with escapes is an unknown one, in a Liquid URI it is the key it spells.
  BIP-21 keeps a second value beside the first, Liquid replaces the first.
- An empty tag makes a NUT-26 request invalid and is dropped from a NUT-18 request.
- A channel that is in the graph file twice counts twice in the capacity of its nodes and is one row.
- A capacity above 2^63 - 1 is stored rounded, and one above 2^64 - 1 wraps around in a release build
  and stops the run in a debug build (`graph-builder/src/main.rs:92, 139`).
- A block count above 2^64 / 600 overflows: a release build shows the wrapped duration.
- A CR on its own inside a line of HTML would split the line of an event in two and lose the rest.
- Back and Forward change what the share button takes, but neither the form nor the result.

Hazards without a property, and why: the onion message is only buffered, and who flushes it is the
business of `lightning-net-tokio`; the socket task outlives the request (how a peer treats a second
connection of a node id is the peer's); stored inputs that are never asked for stay for the life
of the process, and no expiry is promised; an alias that was fetched first and cached last stays, for
as long as its own age allows; snapshots of the alias map can reach the file in another
order than they were taken, which costs a fetch after a restart; a clock that is set back, in both caches.

## Not modelled

- The composition of `InvoiceStream` with `OnionRequest` and `LnurlFlow`: a task of `InvoiceStream` is the number of
  events it sent, and what it may send is what `InvoiceService` and `JsonRpcService` say. A body that the
  server drops is `Leave` in the two.
- Runs of the graph builder at the same time.
- What holds no state and decides nothing: templates, static files, printing in the command line, the
  privacy note and labels of the page, names of payload types, feature bits and chain hashes, the
  Boltz routing hint (`lib.rs:115`, which is only shown).
- The libraries (LDK, reqwest, tokio, htmx, serde, SQLite, the address and invoice parsers), which are
  modelled by how this code uses them.

## Plan

Every safety property is proved. What could be added is the composition named above, of `InvoiceStream`
with the tasks that feed it, and the routing hints of an invoice as they are shown.
