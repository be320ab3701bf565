# OpenK9 in TLA+

A formal model of the parts of OpenK9 that are hard to test: the ingestion
pipeline of its datasource service, the provisioning of its tenants, and the chat
of its search frontend. What they do step by step, what must never go wrong in
them, what TLC checks of that on small instances and what TLAPS proves for all of
them. Paths are those of the repository; `D/` stands for
`src/core/app/datasource/src/main/java/io/openk9/datasource/`, `T/` for
`src/core/app/tenant-manager/src/main/java/io/openk9/tenantmanager/`, `F/` for
`src/js-packages/search-frontend/src/`.

## The system

OpenK9 crawls data sources and indexes what they hold. Connectors post payloads
to the **ingestion** service, which publishes them to RabbitMQ. The
**datasource** service, a cluster of Quarkus nodes joined by Apache Pekko, takes
them from there, enriches them and writes them to OpenSearch. Around it are the
search service, an API gateway, the tenant manager, Python services for
embedding and RAG, connectors, enrichers and user interfaces.

| component | where | state | operations |
|---|---|---|---|
| Scheduling entity | `D/pipeline/actor/Scheduling.java` | held messages, commands set aside, cached Scheduler row, flags of progress and of stopping, internal clock | one handler per message, see below |
| SchedulingService | `D/pipeline/service` | the Scheduler row | fetch, status, last ingestion date, error description: one transaction each |
| WorkStage | `D/pipeline/stages/working` | its writers, a counter | start a worker, processor response, write, post-write |
| CloseStage | `D/pipeline/stages/closing`, `D/pipeline/actor/{closing,common}` | replies collected | start the handlers, aggregate |
| QueueManager, MessageGateway, consumers | `D/pipeline/actor`, `D/pipeline/consumer` | channels, registrations set aside | declare and delete queues, spawn consumers, deliver, acknowledge, retry, reroute |
| JobScheduler, SchedulerInitializer | `D/listener` | jobs, stash | trigger, create a scheduling, halt it, register again at boot |
| EnrichPipeline | `D/pipeline/actor/EnrichPipeline.java`, `enrichitem/` | current item, nonce of the awaited callback | start, call an enricher, accept a callback, time out |
| EmbeddingProcessor, ChunkStreamWriter | `D/pipeline/actor` | batch being written, stream phase | stream chunks, delete the old ones, index the new ones |
| DataIndexWriter, PartialUpdateWriter | `D/pipeline/actor` | the data index | delete then index, update in place |
| ChunkWindowBuffer | `D/pipeline/service` | a window of chunks | offer, flush, finalize |
| Tenant provisioning | `T/pipe/tenant/create`, `T/service` | operations answered, compensations due, the adapter of the manager, deletion tokens | provision schema, realm and ingress, persist the tenant, compensate; delete it by a confirmed token |
| Copilot chat | `F/components/useCopilotChat.tsx`, `F/components/Copilot.tsx`, `F/App.tsx` | messages, the stream in flight, turns that were stopped; what the page searched and has still to ask | send, read a stream, stop, reset; notify the host; ask the first question of a search |
| P2PCache | `D/cache` | known instances | invalidate |

How a document travels: JobScheduler creates a Scheduler row and registers its
queues; a MainConsumer asks the Scheduling entity of that row to `Ingest` each
delivery; the entity hands it to its WorkStage child, which answers `Working`,
runs the processors and a writer and answers `Done` or `Failed`; the entity
answers the consumer, which acknowledges or rejects; a rejected message goes to
the retry queue, from which RetryConsumer publishes it again or, after three
attempts, drops it to the error queue and asks `TrackError`. A one-second Tick
closes a scheduling that received `LAST`: the CloseStage updates the datasource
and decides the final status, the entity persists it, has the queues deleted and
stops.

What is hard in it:

- *Interleaving*: every handler of the entity is atomic, but everything it
  starts (transactions, work, closing, queue deletion) comes back later as a
  message, to whatever behavior the entity then has. In two of its behaviors it
  sets messages aside, in three it drops them.
- *Stale state*: the status is a cached copy, decisions travel as messages the
  entity tells itself, and the adapter for `Response` is one slot.
- *Failure*: transactions, work and queue deletion fail; a handler that throws
  restarts the behavior with an empty memory; a rebalance stops the entity.
- *Time*: ticks, the 6-hour timeout, asks that expire while the work goes on.
- *Identity*: a callback is matched by its nonce, a saga's answer by the adapter that
  happens to be registered, a stream by the controller it was started with; each is
  compared with what is current when it arrives, not when it was sent.
- *Rendering*: React queues the updates of the state, a handler sees the state of the
  render it was created in, and effects run after the render that others already see.
- *Endings*: an entity must stop exactly once, from any behavior, with nothing
  it promised left open.

Per component, what makes it correct: an entity confirms only what was indexed,
answers a delivery at most once, advances its date only over processed work, and
every state it waits in is ended by something on its way; a retry queue loses no
message without tracking an error; a job scheduler is busy only while a
scheduling is being created; an enrichment accepts one answer per step; a chunk
writer leaves a version of the document in the index; a saga answers its caller
and takes nothing from a tenant that is served; a chat is busy exactly while its
last question is being answered.

## Modules

| module | models | status |
|---|---|---|
| `Scheduling` | the entity with the surroundings it needs | done |
| `DeliveryLedger` | what a consumer relies on: the abstract specification `Scheduling` implements | done |
| `SchedulingProofs` | theorems about `Scheduling`: types, no confirmation without the work | done |
| `DeliveryLedgerProofs` | theorems about deliveries: one answer each, the refinement of the ledger, the dates | done |
| `AwaitedProofs` | theorems about what an entity that only waits is waiting for | done |
| `ChunkStream` | the embedding of one content: the processor, its writer, OpenSearch | done |
| `ChunkReplacement` | what the embedding does to the index: the abstract specification `ChunkStream` implements | done |
| `ChunkStreamProofs` | theorems about the writers: types, one write at a time, timers | done |
| `ChunkReplacementProofs` | theorems about the index: a content confirmed is whole, the refinement of the replacement | done |
| `Enrichment` | the enrichment of one document: the entity, the supervisors of its items, the HTTP actors, the callback endpoint | done |
| `EnrichContract` | what the scheduling relies on: the abstract specification `Enrichment` implements | done |
| `EnrichmentProofs` | theorems about `Enrichment`, the refinement of the contract among them | done |
| `Provisioning` | the creation and deletion of tenants: service, manager, sagas, the consumers of the event bus | done |
| `ProvisioningProofs` | theorems about `Provisioning` | done |
| `CopilotChat` | the chat hook in its two hosts, React and the streams | done |
| `CopilotChatProofs` | theorems about `CopilotChat` | done |
| `MCScheduling`, `MCChunkStream`, `MCEnrichment`, `MCProvisioning`, `MCCopilotChat` | values for TLC | done |

### Scheduling

One action is one message handler of `Scheduling.java`, named like it (`OnTick`
is `onTick`); `PROJECT.json` gives the lines of each. An action takes the head of
`mailbox`, through `Incoming`, and appends what the handler tells itself.

| variable | code |
|---|---|
| `behavior` | the current `Receive`: `settingUp`, `ready`, `busy`, `closing`, `gracefulEnding`, the anonymous one of `onHalt` (`halted`), or no actor (`stopped`) |
| `mailbox`, `lag` | the Pekko mailbox, and the `lag` deque of `onEnqueue` |
| `adapter` | the one registration of `messageAdapter(Response.class, ...)`: Pekko keeps one per class and looks it up when the response is processed |
| `held` | keys of `heldMessages` (a delivery stands for its HeldMessage and its `replyTo`) |
| `failureTracked`, `lastIngestionDate`, `lastReceived`, `passivating`, `stopRequested`, `nodes`, `maxWorkers`, `scheduler` | the fields of the same names |
| `expired`, `timer` | `isExpired()` and the running internal clock |
| `workBox`, `working`, `workStage` | the WorkStage's mailbox, the documents its processors and writers have, and whether a payload it could not decode has killed it |
| `closeStage` | the CloseStage child: not created, idle, running with the row it was started with, or dead after its only answer |
| `transactions`, `row`, `datasource` | SchedulingService requests in flight, the Scheduler row, the datasource's last ingestion date |
| `queues` | the queues of the scheduling, and a deletion under way (`abandoned` when the entity that asked is gone) |
| `shard` | the shard's view: it routes, waits to passivate, or waits for the stop |
| `sent`, `answers`, `indexed` | history: requests and events that happened, the answers each requester got, the documents worked |

`Response` messages carry only success or failure; which message they become is
decided by `adapter` when they are processed. A crash (a null `scheduler`,
`workStage` or `closeStage`, or `replyTo` of a message that is not held) is
`Crash`: `restartWithBackoff` keeps mailbox and adapters, resets the fields and
runs no `PostStop`. A transaction reads the row in one step and writes it whole in
another, so two of them can lose an update, as they can in the code; one that fails on
the event bus by its timeout may still be written later, with nobody waiting for it
(`Outlived`). A WorkStage that cannot decode a payload dies with all it holds
(`FailWorkStage`), and nobody watches it: what it is told afterwards is lost, its
documents stay held until the entity stops. A cancel or a close reads the row first
and tells the entity later; `CancelScheduling` and `CloseScheduling` are the telling,
which may come whatever became of the row meanwhile.

Outside `src/` and modelled from its use (external in the map): the Pekko mailbox,
timers, shard and adapters.

### DeliveryLedger

Three variables: what was asked, what was worked, what was answered. A delivery is
answered at most once; a document is confirmed only after its work; any set of
unanswered deliveries may be refused. `ImplementsLedger` is the refinement: `asked`
is the deliveries sent, `indexed` and `answers` are those of `Scheduling`.

### ChunkStream

One action is one handler of `ChunkStreamWriter.java` or `EmbeddingProcessor.java`,
or one step of what surrounds them: the stream of the embedding module
(`AskWriter`, `StreamCompletes`, `StreamFails`), the timeout of an ask, OpenSearch
carrying out a request or its client giving up on it, a crash.

| variable | code |
|---|---|
| `processor` | what an EmbeddingProcessor waits for: the stream's next item (`streaming`), an answer of its writer to a chunk (`asking`) or to the end (`closing`), or a message it piped to itself (`completed`, `closed`, `failed`); or how it ended |
| `streamed` | how many chunks the stream gave |
| `writer` | the fields of the ChunkStreamWriter, its mailbox and stash; `pendingAck` says whether `pendingAck` is set, `timer` whether the flush timer runs |
| `requests` | requests OpenSearch has not carried out, and whether the client still waits |
| `index` | the documents of the content: the previous version, and chunks by attempt |
| `inserted`, `announced` | history: the chunks of each attempt's successful bulks in order, and the attempts whose creation was announced |

Several attempts at one content exist because the consumers retry; the work stage
gives each a key of its own ("a redelivered message must never land on the processor
entity of a previous attempt", `D/pipeline/stages/working/WorkStage.java:52-58`), so
they share the index and nothing else. `Concurrent` says whether they may overlap; in
the run they do not, but what an attempt asked of OpenSearch may land after it ended.
Three facts of Pekko are built in: a cancelled timer's tick is discarded, so a tick
is handled when the timer is due; unstashing puts messages in front of the mailbox;
a child stops with its parent. A delete by query sees the index as of its last
refresh, so it removes the previous version and any part of what attempts inserted; that the
previous version is old enough to be refreshed is assumed. A payload carries one chunk
document or none, since `EmbeddingService.java` encodes each windowed chunk by itself.
The faults: the module fails, a payload is refused (`Malformed`) or kills the writer
(`Garbage`), the client throws (`IO`), OpenSearch fails or answers late (`Search`), an
ask times out, a node is lost. Left out: per-shard failures that a delete's
response carries and the code does not read, and the error events to the datasource
topic.

### ChunkReplacement

Per attempt: chunks are streamed; something is deleted before the attempt inserted
anything; when the previous version is gone a batch is inserted, the chunks that come
next after those inserted; the attempt completes with all its chunks inserted, or fails. `ImplementsReplacement`
maps every way a processor ends to the outcome.

### Enrichment

One action is one message handler of `EnrichPipeline.java` or of an actor in
`enrichitem/`. The items of the pipeline, their supervisors, groovy actors and
processors are known by the item's position.

| variable | code |
|---|---|
| `items` | the enrich items of the scheduler row, `scheduler.getEnrichItems()` |
| `mailbox`, `current`, `item` | the entity's mailbox; the `Start` its behavior closes over; the head that `initPipeline` executes, the tail being the positions after it |
| `pending` | `PendingCallback`: the nonce awaited, the waiter being the processor that registered it; a new one for each item |
| `asked` | the ask of the item in progress is open: after its timeout a reply goes nowhere |
| `inbox`, `live`, `groovy` | each `EnrichItemSupervisor`'s mailbox, whether it has stopped, and what its groovy actor runs |
| `httpBox`, `adapter` | the HttpSupervisor's mailbox, and its one registration of `messageAdapter(HttpProcessor.Response.class, ...)` |
| `http`, `delivered`, `early` | each HttpProcessor's behavior, the callback in its mailbox, and `earlyCallback` |
| `tokens`, `calls`, `sent` | what the environment did: tokens handed to enrichers, callbacks posted, deliveries |
| `answers`, `lost`, `late`, `handed` | history: what each delivery was answered, the runs lost with the actor, the items that timed out in this run, the callbacks handed to each processor |

The children stop with the entity, and what is left in its mailbox is lost; the
sharding creates it again at the next message, as `OnSetup` and `OnStaleCallback` find
it. A nonce is the delivery and the item, which makes it unique as the UUID of the
code is. Nothing of an enricher is assumed: its response may come before or after its
callback or fail, callbacks come when they like, twice or never, and also after a
redelivery began.

Two things the code allows are stated rather than excluded. An item that timed out
keeps its processor, so that its late registration may take over `pending`, or its
late body be adapted to the item in progress. From there on every answer may be shifted,
each taken for the result of a later item, although those items are on time: with three
synchronous items TLC shows the result of the second taken for that of the third.
`ForeignIsLate` says that nothing but a timeout, of the item a body is about or of one
before it, leads there, and `AwaitedIsRegistered` assumes none. A body whose skip flag is
not a boolean stops the entity, because the flag is read outside the guarded part
(`D/pipeline/actor/EnrichPipeline.java:376`): the delivery is then in `lost`, and its
consumer waits for its own timeout. Left out: a request timeout that is null, which
neither the entity nor the DTO of an item admits (`EnrichItem.java:73`), the merge of the payloads, and the
pre-signed URLs that supervisors of timed-out items may still write.

### EnrichContract

A delivery is taken up when none is in progress, and refused with a failure while
another is; the items are taken in turn; success needs every item concluded or one
that rejects, failure an item whose policy is to fail; the run may be lost with its
actor. `ImplementsContract` maps `current` to the delivery worked on.

### Provisioning

One action is one handler of the manager or of a saga, or one consumer of the event
bus. The provisioners between saga and bus forward what they are told and stop: an
operation is therefore the work its consumer has to do, and the reply the saga sees.

| variable | code |
|---|---|
| `asked`, `caller` | the request, and how far the caller of `create` is: the virtual host was looked up, the manager was asked, the answer of the ask is the tenant of some request, or a failure |
| `box`, `adapter` | the manager's mailbox, and its one registration of `messageAdapter(TenantProvisioningSaga.Response.class, ...)` |
| `saga` | the behavior of each saga |
| `creating`, `reply` | bus requests the consumers have not carried out; `collectedResponses` and the `PersistResponse` |
| `counter`, `erasing`, `undo` | `compensationCounter` as it was set; the rollbacks to carry out; those the saga asked for and was answered |
| `resources`, `tenants` | schemas, realms and ingresses by name; the tenant table with its two unique columns |
| `tokens`, `deletionTokens` | the requests to delete, by the tenant that was looked up, whether the token was put in the map, and (history) the tenant it deleted; the map of the valid tokens, by virtual host |
| `confirmed`, `deleting` | `EXECUTE_DELETION` messages on the bus; the operations of each `executeDeletion` |

A bus request that times out is an error to the saga while its work is still to come:
`BusTimeout` and `RollBackTimeout` leave `creating` and `erasing` alone. A request that
fails may have left its resource behind, as the schema that is committed before its
tables are created; a rollback may do nothing, and the saga counts whatever it is
answered. What is looked up first may be stale when it is used: a virtual host that was free when
`Create` looked may be taken when `StartCreateTenant` asks, and the tenant of
`RequestDeletion` may be gone when `GiveToken` puts its token. A tenant that is not
exposed, because it opted out of the ingress or because no cluster is configured, has no ingress
created, and the provisioner reports success (`SkipIngress`); its rollback still
deletes one of that name, if there is any. A deletion looks up the tenant its virtual host then has, and does all its
operations whichever of them fail, as `andCollectFailures` asks. The Helm resources a
deletion also removes are left out.

What the model says of the saga as it is:

- *A saga may wait for ever*: a rollback skips the realm that was not provisioned by
  decrementing the counter after the check for zero (`T/pipe/tenant/create/TenantProvisioningSaga.java:501`).
  When schema and ingress both failed and no realm was asked for, nothing is left to
  roll back, and nobody answers. `StrandedWithoutRealm` says that this is the only way
  to it, and `SagaEnds` that every other saga ends.
- *Answers can be swapped*: the manager registers one adapter for all its sagas, so that
  with two at once the last caller gets the first answer. `AnswerExists` says that what
  it gets is at least a tenant that exists, and `GivenToOne` that nobody else is given
  that tenant too, not even the caller it was meant for.
- *Failed requests leave things behind*: `ErrorIsCompensated` is about what was reported
  to have succeeded only, because the code rolls nothing else back.
- *A rollback is by name*: `LiveHasResources` excludes requests with the same name, one of
  which may delete the ingress of the other, and a tenant whose row was written after
  the bus had given it up.
- *A deletion is by virtual host*: a token asked for while its tenant is already being
  deleted stays valid, and deletes the tenant that took the virtual host since.
  `DeletedWasRequested` says that this is the only way to delete a tenant that no token
  was asked for, and TLC reaches it.

### CopilotChat

One action is one event of a stream, one click, one search, one render, or the effects
of one render.

| variable | code |
|---|---|
| `hook` | the hook's state with the queued updates (`messages`, `isChatting`) and its refs (`inFlight`, `cancelled`, `turnCounter`); for each turn its `stream` and the `history` its request carried |
| `page` | `searchText` and `pending` of `K9Copilot` with the queued updates, and `lastQueryRef` |
| `shown` | what the last render showed: what handlers and effects read |
| `ran` | the state of the render whose effects ran last: their dependencies are compared with it |
| `flushing` | a click is being rendered; React renders a click, and runs its effects, before any other event |
| `fired` | `firedRef` of the panel |

`Sent`, `Cancelled` and `Reset` are `send`, `cancel` and `reset` of
`useCopilotChat.tsx` as functions of the hook; `RunEffects` runs the effects of
`Copilot.tsx` or of the page in the order they are written. An aborted stream delivers
nothing more, since its next read is rejected and `owns()` no longer holds: that is how a
stopped turn is kept, `cancelledRef` being looked at for documents only. The grammar of a
stream is the server's (`src/ai-packages/agentic-rag-module/app/rag/agentic_rag.py`):
chunks, then END or ERROR, or a cut at any point; a guardrail counts as END. An answer is
the number of its chunks.

`AnsweringIsCurrent` has one exception, which TLC finds necessary: on the page, a
question clicked between the effect that sends the first question of a search
(`F/App.tsx:1331`) and its render is sent as well, and if the first stream is then cut it
stays unfinished in the conversation, since only the current stream is finalized. A
stream that breaks after END turns a notified response into an error, and the host is
told of both, where the comment says "once per turn" (`F/components/Copilot.tsx:187`).
Not modelled: the unmount, and with it the branch of `OnFailure` for an abort that still
owns the chat (stop and reset give the ownership up before they abort, so that only the
unmount gets there, and what it writes goes with the component); the suggestions, a search whose pending question is sent in
place of a newer one (which the actions allow and no property forbids), and the status
code of the response, which the code does not look at: the body of a failed request is
an answer without events.

## Runs

The `scheduling_` runs use `MCScheduling`: documents `d1` and `d2` have different
dates, `last` and `halt` are the LAST and HALT payloads. The `chunks_` runs use
`MCChunkStream`, the last three the MC module of their component.

| run | instance | shows |
|---|---|---|
| `scheduling_documents` | d1, d2, last; 2 workers; nothing fails | the refinement of the ledger, `BusyIsAwaited`, `DateHasSource` |
| `scheduling_failures` | d1, d2; 1 worker; failing work, a payload that cannot be read, a rebalance, member events with one node above or below | `SuccessMeansIndexed`, `AnsweredAtMostOnce` |
| `scheduling_requests` | d1, a TrackError, a Restart; one failed transaction | `SettingUpIsAwaited`, `DateHasSource` |
| `scheduling_endings` | halt; two of seven external events; a reindex; fairness | `TypeOK`, `HaltedIsAwaited`, `GracefulEndingIsAwaited`, and by liveness `TransitionsEnd` |
| `scheduling_error` | d1, last, a TrackError | refutes `ErrorNeverFinishes` |
| `scheduling_passivation` | d1, a TrackError | refutes `PassivationDrains` |
| `scheduling_stop` | a wake-up and a cancel, no document; fairness | refutes `EndingStops` |
| `chunks_stream` | an attempt of three chunks, a retry of one; batches of two; every fault; fairness | `TypeOK`, `DoneMeansIndexed`, `OneWriteAtATime`, `BufferedIsTimed`, the refinement of the replacement, and by liveness `EveryStreamIsAnswered` |
| `chunks_failure` | one attempt, a module that fails | refutes `FailureKeepsPrevious` |
| `enrich_pipeline` | five pipelines of none to three items, of every type and policy; a delivery and a redelivery; two callbacks; fairness | `TypeOK`, `OneOutcome`, `AnsweredOnce`, `ForeignIsLate`, `AwaitedIsRegistered`, `AcceptedIsKept`, the refinement of the contract, and by liveness `TakenUpIsAnswered` |
| `provisioning` | two requests: same host, same name, both, one that needs a Keycloak there is not, or one that wants no ingress; one timeout or up to two deletions; fairness | `TypeOK`, `ErrorIsCompensated`, `LiveHasResources`, `AnswerExists`, `DeletedWasRequested`, `GivenToOne`, `StrandedWithoutRealm`, and by liveness `SagaEnds` |
| `copilot_chat` | two questions, two searches of two queries, answers of one chunk, both hosts; fairness | `TypeOK`, `ChattingIsInFlight`, `AnsweringIsCurrent`, `HistoryIsConversation`, `EndIsNotified`, the action property `StoppedIsKept`, and by liveness `ChattingEnds` |

The four refutations are of comments in the code, and findings in
`PROJECT.json`: a Close decided before an error is obeyed after it; a passivating
entity does not drain a document its WorkStage has not yet confirmed; a cancel that
overtakes the end of the setup leaves a `StartInternalClock` behind it, which takes
the ending entity back to `ready`: `DestroyQueue` is unhandled there, so the
CANCELLED scheduling keeps its queues and its entity; a stream that fails after its
first batch was written has already deleted the version it should leave intact.

`TransitionsEnd` therefore says only that an entity leaves the behaviors of an
ending, and `EndingStops` what it should find when it does.
`GracefulEndingIsAwaited` leaves out an entity that noted a `Stop` while passivating:
only a Tick would obey it, and an ending entity discards ticks.

Bounds, all named in the module: each request is sent once and each external event
happens once (`sent`), at most `MaxEvents` of them; at most `MaxNodes` nodes are counted,
and as many downed that were never counted (with none, no member event arrives); one undelivered tick and one undelivered cluster
event at a time. Two documents are enough for what one delivery can do to another (order of dates, the worker
limit, a lost update); a second tick in the mailbox only repeats what the first
tells. Every message kind meets every behavior in some run. For the chunk stream,
three chunks in batches of two give a full batch, a tail, a batch the timer wrote
early and one it did not; a retry of one chunk is enough to meet what the first
attempt left in OpenSearch. A fault may strike at every point and any number of times.

For the enrichment, two items are what it takes for one to be late for the other, and
three for an item that is on time to get the answer of another; the second delivery meets the first at each of its points, after it, and in the entity that
was created again; two callbacks allow one that is expected and one that is not, or a
duplicate. For the provisioning, two requests overlap at every point, and the cases are the
ways they can get at each other: host, name, the adapter alone (that three callers are no
different from two is the theorem `GivenOnce`), and the deletion of one
before or while the other is created; one timeout strikes any request or ask, and two
tokens are what a stale one takes. Timeouts and deletions are not combined. For the chat, two questions and two searches give up
to four turns, so that a stream can be superseded twice and a history have several turns;
a second chunk would only repeat the first.

`CHECK_DEADLOCK FALSE` in every run: an entity that stopped with every request sent
has nothing left to do, and so have processors, pipelines, sagas and chats that ended.

Fairness (`FairSpec` of `Scheduling`), used for `TransitionsEnd` and `EndingStops`: the
dispatcher runs actors with messages, the database and the broker answer, the shard
sends the stop it promised, a running timer fires. Nothing is assumed of the
environment, and nothing of the order within a class of actions.

Fairness (`FairSpec` of `ChunkStream`), used for `EveryStreamIsAnswered`: actors with
messages run, the timer fires, OpenSearch carries out every request, and a stream that
can end ends (strong fairness, because an item in flight suspends it). An ask times out
for certain only when its writer is gone: while the writer lives, the answer must come
from it and not from the five-minute timeout.

Fairness (`FairSpec` of `Enrichment`), used for `TakenUpIsAnswered`: the entity handles
its messages and the scheduler of the actor system fires the timeout of an ask that
stays open. Nothing is assumed of the other actors, of enrichers or of scripts: the
timeout alone must lead to an answer.

Fairness (`FairSpec` of `Provisioning`), used for `SagaEnds`: manager and sagas handle
their messages, and the bus answers each request, if only with its timeout, whose bound
the liveness does not need, since a consumer that works answers too.

Fairness (`FairSpec` of `CopilotChat`), used for `ChattingEnds`: React renders what is
queued and runs the effects, and each stream goes on until it ends or breaks. The last
is an assumption on server and network that the code does not enforce, as the client
sets no timeout; the property says that no path by which a stream ends leaves the chat
busy.

## Proofs

Every safety invariant, action property and refinement that a passing run checks is also
a theorem, for every value of the constants that satisfies the assumptions of the
module (`ConstantsAssumption` and its like: what the constants are, never what they are
worth). The one exception is said below: `Busy` assumes a node. TLC says that the
property holds on an instance in which the interesting cases happen; the theorem
that it holds however many deliveries, attempts, items, tenants or questions there are.

All proofs have the same shape. The property is strengthened to an inductive invariant,
which says what is true of the messages, requests and copies that are under way; a
lemma for each handler shows that it is kept, one for each conjunct the handler can
disturb; the handlers that have the same shape share lemmas about it (`Tell`,
`Reply`, a queue with one message less or one more). `Init`, the step and the
consequence are then put together with PTL.

### Scheduling

`SchedulingProofs`:

- `Typing`: `TypeOK`. No handler meets a message, an answer or a row it does not know.
- `Safety`: `SuccessMeansIndexed`. The property is not inductive: a `Done` in the
  mailbox, or set aside in `lag`, becomes a Success. `Soundness` adds `SoundQueues`:
  every `Done` in either queue is of a document that was worked, and every `Last` or
  `Halt` of a delivery that carries no document. It survives crashes because a restart
  keeps the mailbox, and stops because a release answers Failure only.

`DeliveryLedgerProofs`:

- `Answers`: `AnsweredAtMostOnce`. A delivery is one token (`OneToken`): the number of
  its messages in the mailbox, among those set aside and with the WorkStage, of its
  entries among the held, and of its answers is at most one once it was sent, and none
  before. A crash or a stop may lose the token; nothing makes a second one. A `Done` or a
  `Failed` carries none, and is worth an answer only while the delivery is held.
- `Refinement`: `ImplementsLedger`. From the tokens, `Soundness` and `WorkKnown`
  (only what was sent is worked), every handler is an ask, a work done, a confirmation,
  a rejection of some deliveries, or a stutter of the ledger.
- `SourcedDates`: `DateHasSource`. The date has many copies, in messages, in the
  transactions that read a row and will write it whole, in the cached row, in the row the
  CloseStage was started with. `DatesSourced` says of every copy that it is of a document
  whose work was done or of a `LAST` that was received.

`AwaitedProofs`:

- `SettingUp`, `Halted`, `GracefulEnding`: the three behaviors in which an entity drops or
  sets aside all but one kind of message. That the kind it handles is on its way is not
  inductive, since a response in the mailbox becomes what the one adapter then makes of
  it. `AwaitedInv` adds the registration that each of the three waits with; the proof is
  that no handler of theirs, crash or late response replaces it meanwhile.
- `Busy`: `BusyIsAwaited`, under `[](maxWorkers > 0)`. `onClusterEvent` multiplies the
  workers by the nodes it counts, on every member event, also on those it does not count.
  While it counts none the limit is zero, and the answer to the last document held leaves
  the entity busy, with no answer left that would make it ready again (a member event
  alone does not): without the hypothesis the statement is false. The run that checks it
  has no member events (`MaxNodes = 0`), so the hypothesis holds there; nothing is
checked of an entity whose limit is zero.

### Chunk stream

`ChunkStreamProofs`, for any attempts, overlapping or not, any streams, any batch size
and any faults:

- `Typing`: `TypeOK`, which includes that no writer holds a full batch.
- `Slots` and `Timed`: `OneWriteAtATime` and `BufferedIsTimed`. The two are inductive only
  together with what `Slot` adds: no answer of OpenSearch is ever stashed (or the
  replay would bring it a second time), a processor that has not started has no writer
  and no request, and a writer that buffers is not writing and knows of no failure (or
  the tick would drop the batch). A step is split into the writer it is about, where
  each handler has a lemma, and the others, which it leaves apart (`Apart`).

`ChunkReplacementProofs`:

- `Done`: `DoneMeansIndexed`. At any moment the chunks streamed so far are four
  consecutive runs (`Chain`): those inserted, those in flight, those buffered, and
  the one of the ask the writer has still to take. A writer whose runs are broken has a
  failure on its way (`Doomed`), or has answered or noted it and writes nothing more
  (`Spent`). The end of the stream is therefore confirmed only with the last three empty.
- `Refinement`: `ImplementsReplacement`, from the same invariant and what it says of
  requests whose writer is gone (`Requested`): one at most, a delete before anything was
  inserted, or the batch that comes next.

### Enrichment

`EnrichmentProofs`, for any pipelines, deliveries, callbacks, timeouts and crashes:

- `Typing`: `TypeOK`, with `AtRest`: between two runs nothing of a run is left but
  deliveries and callbacks in the mailbox.
- `Outcome`: `OneOutcome`. It needs `FailureIsFinal`: the error that ends a run comes from
  an item whose policy is to fail.
- `Answered`: `AnsweredOnce`. What waits in the mailbox was not answered, is not in
  progress, and waits once; what was not sent has no answer (`AnswerInv`).
- `Refinement`: `ImplementsContract`, from the two.
- `Foreign`: `ForeignIsLate`. `ProgressInv` says where the item in progress is as long as
  no item up to it timed out: in one place among its supervisor's mailbox, its script, the
  HttpSupervisor and its processor (`OneThread`), nothing being about the items before it
  (`QuietBehind`), nor about those after it whatever timed out (`FreshAhead`).
- `Kept`: `AcceptedIsKept`. An enricher is called once in a run (`CalledOnce`: the
  execution, the validation and the call are in one place, before the processor starts),
  so that its nonce is registered once; and a nonce in place, or on its way, is of a
  processor that called its enricher and was handed nothing (`Armed`).
- `Registered`: `AwaitedIsRegistered`. No token exists before the enricher it is for was
  called (`TokensInv`); its registration is then the last in the mailbox, ahead of every
  callback that carries it, and without a timeout no other comes after it (`WatchedInv`).

### Provisioning

`ProvisioningProofs`, for any requests, names and hosts, any timeouts and deletions. Four
invariants are inductive together: `SagaInv` (what a saga asked for, was answered and rolls
back, by its behavior), `MailInv` (a request is in the manager's mailbox once, before
its saga starts or after it ended, and a tenant is given away with its answer), `StoreInv`
(a row that was written exists or was deleted; a tenant whose name is its own has
what was reported provisioned and not skipped) and `TokenInv` (a token is given and
valid, then confirmed, then executed). From them follow `Typing`, `Compensated`, `Stranding`, `Exists`, `GivenOnce`,
`Requested` and `Live`, the seven invariants of the run. `Stranding` is where the
arithmetic is: the counter is the number of rollbacks asked for, and it can be zero in
one case only.

### Copilot chat

`CopilotChatProofs`, for any questions, searches and lengths of answers, on the page and
in the panel:

- `Typing`: `TypeOK`, with `CountInv`: a turn counts a question asked or a search, each of
  which is still to be shown, to be noticed by the effects, pending, or a turn.
- `Chatting`: `ChattingIsInFlight`, from `TurnInv`: turns are in the order they were asked,
  a turn that is over has a stream that has nothing more to say, and a stopped one has
  nothing to say.
- `AnsweringCurrent`: `AnsweringIsCurrent`, and `History`: `HistoryIsConversation`, from
  `ShownInv`, how far what is shown is behind the hook, and what each
  turn was sent with.
- `EndNotified`: `EndIsNotified`, from `NotifiedInv`: every turn but the last was notified
  or is the last one shown, its effects being still to run.
- `Stopped`: the action property `StoppedIsKept`, from `TurnInv`.

### What is only model-checked

Liveness: `TransitionsEnd`, `EveryStreamIsAnswered`, `TakenUpIsAnswered`, `SagaEnds` and
`ChattingEnds`. Fairness speaks of ENABLED, which is out of the prover's reach; the
invariants of `AwaitedProofs`, `OneOutcome`, `BufferedIsTimed`, `StrandedWithoutRealm`
and `ChattingIsInFlight` are the safety part of them, that what is waited for is there.
Likewise out of reach is induction over data; no module uses a RECURSIVE operator, and the
proofs count with the cardinality theorems of the library. The four refutations are
counterexamples of TLC.

## Plan

The five components are modelled, checked and, but for liveness, proved. Next:

1. The retry queues with the consumers: no message is lost without an error tracked;
   composition with `Scheduling` through the ledger.
2. `JobScheduler` and the message gateway; the two document writers;
   `ChunkWindowBuffer` against a reference definition; the aggregate of the close
   stage.
3. Proofs about these, as far as they say more than the runs.

Not to be modelled: services without a protocol of their own (search, CRUD, GraphQL,
the Python services), generated clients and types, user interfaces other than the
chat, charts; `PROJECT.json` gives the reason for
each.
