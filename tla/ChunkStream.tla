----------------------------- MODULE ChunkStream -----------------------------
(***************************************************************************)
(* The embedding path of one content.  An EmbeddingProcessor streams the   *)
(* chunks of a document from the embedding module and hands them, one ask  *)
(* at a time, to the ChunkStreamWriter it spawned, which batches them and  *)
(* writes the batches to OpenSearch: first a delete of what the content    *)
(* had, then bulks.  A retry of the document is another processor with     *)
(* another writer: the work stage gives each a key of its own, so they     *)
(* meet only in the index.                                                 *)
(*                                                                         *)
(* One action is one message handler.  The messages a handler unstashes    *)
(* go to the front of the mailbox, where they are handled next.            *)
(***************************************************************************)
EXTENDS Integers, Sequences, FiniteSets, SequencesExt

CONSTANTS
  Processors,  \* the attempts to embed the content
  BatchSize,   \* BATCH_SIZE
  MaxChunks,   \* [Processors -> Nat]: bound on the chunks a stream gives
  Concurrent,  \* attempts may overlap; if not, a retry starts when the one
               \* before it has ended, whatever OpenSearch still has of it
  Faults,      \* which of AllFaults may happen
  Previous     \* the version of the content indexed before

AllFaults ==
  {"Module", "Malformed", "Garbage", "IO", "Search", "AskTimeout", "Crash"}

ASSUME ConstantsAssumption ==
  /\ BatchSize \in Nat \ {0}
  /\ MaxChunks \in [Processors -> Nat]
  /\ Concurrent \in BOOLEAN
  /\ Faults \subseteq AllFaults
  /\ Previous \notin Processors \X Nat

VARIABLES
  processor,  \* what each processor is doing, or how it ended
  streamed,   \* the number of chunks its stream gave so far
  writer,     \* its writer
  requests,   \* the requests OpenSearch has not carried out yet
  index,      \* the documents of the content: Previous and chunks <<p, i>>
  inserted,   \* per processor, the chunks of its bulks that succeeded, in order
  announced   \* the processors whose writer emitted the New event

vars == <<processor, streamed, writer, requests, index, inserted, announced>>
searchEngine == <<index, inserted>>

-----------------------------------------------------------------------------
(* Messages, writers and requests *)

Chunks == Seq(Nat)

(* Malformed is a payload the writer refuses, Garbage one the parser throws *)
(* on in a way the writer does not catch.                                   *)
Payload == [kind : {"Chunks"}, docs : Chunks] \cup [kind : {"Malformed", "Garbage"}]
Documents(docs) == [kind |-> "Chunks", docs |-> docs]

Command ==
  [kind : {"WriteChunk"}, payload : Payload]
    \cup [kind : {"EndStream"}]
    \cup [kind : {"DeleteResponse"}, ok : BOOLEAN, docs : Chunks]
    \cup [kind : {"IndexResponse"}, ok : BOOLEAN]

EndStream == [kind |-> "EndStream"]

(* pendingAck tells whether a caller waits for the write in flight. *)
Writer ==
  [running : BOOLEAN, mailbox : Seq(Command), stash : Seq(Command),
   pending : Chunks, firstBatch : BOOLEAN, wroteAny : BOOLEAN,
   writing : BOOLEAN, pendingAck : BOOLEAN, deferredFailure : BOOLEAN,
   timer : BOOLEAN]

NewWriter ==
  [running |-> TRUE, mailbox |-> <<>>, stash |-> <<>>,
   pending |-> <<>>, firstBatch |-> TRUE, wroteAny |-> FALSE,
   writing |-> FALSE, pendingAck |-> FALSE, deferredFailure |-> FALSE,
   timer |-> FALSE]

NoWriter == [NewWriter EXCEPT !.running = FALSE]

(* A request whose client gave up on it is no longer awaited. *)
Request == [by : Processors, op : {"delete", "bulk"}, docs : Chunks, awaited : BOOLEAN]

Phases == {"idle", "streaming", "asking", "completed", "closing", "closed", "failed"}
Endings == {"Complete", "Failure", "Crashed"}

TypeOK ==
  /\ processor \in [Processors -> Phases \cup Endings]
  /\ streamed \in [Processors -> Nat]
  /\ writer \in [Processors -> Writer]
  /\ \A p \in Processors : Len(writer[p].pending) < BatchSize
  /\ requests \subseteq Request
  /\ index \subseteq {Previous} \cup (Processors \X Nat)
  /\ inserted \in [Processors -> Chunks]
  /\ announced \subseteq Processors

Init ==
  /\ processor = [p \in Processors |-> "idle"]
  /\ streamed = [p \in Processors |-> 0]
  /\ writer = [p \in Processors |-> NoWriter]
  /\ requests = {}
  /\ index = {Previous}
  /\ inserted = [p \in Processors |-> <<>>]
  /\ announced = {}

-----------------------------------------------------------------------------
(* ChunkStreamWriter *)

Received(p, kind) ==
  /\ writer[p].running
  /\ writer[p].mailbox # <<>>
  /\ Head(writer[p].mailbox).kind = kind

Message(p) == Head(writer[p].mailbox)

(* The writer as the handler of its message finds it. *)
Taken(p) == [writer[p] EXCEPT !.mailbox = Tail(@)]

Become(p, w) == writer' = [writer EXCEPT ![p] = w]

Stash(w, message) == [w EXCEPT !.stash = Append(@, message)]
UnstashAll(w) == [w EXCEPT !.mailbox = w.stash \o @, !.stash = <<>>]

(* The answer to the ask the processor has open; after a timeout it has none. *)
Tell(p, ok) ==
  processor' = [processor EXCEPT ![p] =
    CASE @ = "asking"  -> IF ok THEN "streaming" ELSE "failed"
      [] @ = "closing" -> IF ok THEN "closed" ELSE "failed"
      [] OTHER         -> @]

Answer(p, w, ok) == Become(p, UnstashAll(w)) /\ Tell(p, ok)

(* A mutant: nobody is told of the failure of a write nobody waits for. *)
CompleteWriteForgetfully(p, w, ok) ==
  /\ Become(p, UnstashAll([w EXCEPT !.writing = FALSE, !.pendingAck = FALSE]))
  /\ IF w.pendingAck THEN Tell(p, ok) ELSE UNCHANGED processor

(* A mutant: what was stashed waits for a next write. *)
CompleteWriteStashed(p, w, ok) ==
  /\ Become(p, [w EXCEPT !.writing = FALSE, !.pendingAck = FALSE,
                         !.deferredFailure = @ \/ ~(ok \/ w.pendingAck)])
  /\ IF w.pendingAck THEN Tell(p, ok) ELSE UNCHANGED processor

CompleteWrite(p, w, ok) ==
  /\ Become(p, UnstashAll([w EXCEPT
       !.writing = FALSE, !.pendingAck = FALSE,
       !.deferredFailure = @ \/ ~(ok \/ w.pendingAck)]))
  /\ IF w.pendingAck THEN Tell(p, ok) ELSE UNCHANGED processor

Send(p, op, docs) ==
  requests' = requests \cup {[by |-> p, op |-> op, docs |-> docs, awaited |-> TRUE]}

(* The client of OpenSearch refuses the request on the spot. *)
IOException(p, w) ==
  "IO" \in Faults /\ CompleteWrite(p, w, FALSE) /\ UNCHANGED requests

(* A mutant: the slot is free as soon as the delete is done. *)
IndexBatchReleased(p, w, docs) ==
  \/ Become(p, [w EXCEPT !.writing = FALSE]) /\ Send(p, "bulk", docs) /\ UNCHANGED processor
  \/ IOException(p, w)

IndexBatch(p, w, docs) ==
  \/ Become(p, w) /\ Send(p, "bulk", docs) /\ UNCHANGED processor
  \/ IOException(p, w)

(* A mutant: every batch deletes what the content has. *)
FlushAlwaysDeletes(p, w, ack) ==
  LET drained == [w EXCEPT !.pending = <<>>, !.timer = FALSE,
                           !.writing = TRUE, !.pendingAck = ack]
  IN \/ Become(p, drained) /\ Send(p, "delete", w.pending) /\ UNCHANGED processor
     \/ IOException(p, drained)

Flush(p, w, ack) ==
  LET drained == [w EXCEPT !.pending = <<>>, !.timer = FALSE,
                           !.writing = TRUE, !.pendingAck = ack]
  IN \/ /\ w.firstBatch
        /\ Become(p, [drained EXCEPT !.firstBatch = FALSE])
        /\ Send(p, "delete", w.pending)
        /\ UNCHANGED processor
     \/ w.firstBatch /\ IOException(p, drained)
     \/ ~w.firstBatch /\ IndexBatch(p, drained, w.pending)

(* A mutant: a batch is written when it is more than full. *)
BufferOverfull(p, w, docs) ==
  LET buffered == [w EXCEPT !.pending = @ \o docs]
  IN IF Len(buffered.pending) > BatchSize
     THEN Flush(p, buffered, TRUE)
     ELSE /\ Answer(p, [buffered EXCEPT !.timer = @ \/ w.pending = <<>>], TRUE)
          /\ UNCHANGED requests

(* A mutant: the timer is armed for the first batch only. *)
BufferTimedOnce(p, w, docs) ==
  LET buffered == [w EXCEPT !.pending = @ \o docs]
  IN IF Len(buffered.pending) >= BatchSize
     THEN Flush(p, buffered, TRUE)
     ELSE /\ Answer(p, [buffered EXCEPT !.timer = @ \/ w.firstBatch], TRUE)
          /\ UNCHANGED requests

(* A chunk is buffered and acknowledged, or fills the batch and waits for it. *)
Buffer(p, w, docs) ==
  LET buffered == [w EXCEPT !.pending = @ \o docs]
  IN IF Len(buffered.pending) >= BatchSize
     THEN Flush(p, buffered, TRUE)
     ELSE /\ Answer(p, [buffered EXCEPT !.timer = @ \/ w.pending = <<>>], TRUE)
          /\ UNCHANGED requests

OnWriteChunk(p) ==
  /\ Received(p, "WriteChunk")
  /\ LET w == Taken(p)  payload == Message(p).payload IN
     \/ w.writing /\ Become(p, Stash(w, Message(p))) /\ UNCHANGED <<processor, requests>>
     \/ /\ ~w.writing
        /\ w.deferredFailure \/ payload.kind = "Malformed"
        /\ Answer(p, w, FALSE)
        /\ UNCHANGED requests
     \/ /\ ~w.writing /\ ~w.deferredFailure /\ payload.kind = "Garbage"
        /\ Become(p, NoWriter)
        /\ UNCHANGED <<processor, requests>>
     \/ /\ ~w.writing /\ ~w.deferredFailure /\ payload = Documents(<<>>)
        /\ Answer(p, w, TRUE)
        /\ UNCHANGED requests
     \/ /\ ~w.writing /\ ~w.deferredFailure
        /\ payload.kind = "Chunks" /\ payload # Documents(<<>>)
        /\ Buffer(p, w, payload.docs)
  /\ UNCHANGED <<streamed, searchEngine, announced>>

(* Pekko discards the tick of a timer that was cancelled, so the one that   *)
(* arrives is of the timer running; it fires once.                          *)
OnFlushTick(p) ==
  /\ writer[p].running
  /\ writer[p].timer
  /\ LET w == [writer[p] EXCEPT !.timer = FALSE] IN
     IF w.writing \/ w.pending = <<>> \/ w.deferredFailure
     THEN Become(p, w) /\ UNCHANGED <<processor, requests>>
     ELSE Flush(p, w, FALSE)
  /\ UNCHANGED <<streamed, searchEngine, announced>>

OnDeleteResponse(p) ==
  /\ Received(p, "DeleteResponse")
  /\ IF Message(p).ok
     THEN IndexBatch(p, Taken(p), Message(p).docs)
     ELSE CompleteWrite(p, Taken(p), FALSE) /\ UNCHANGED requests
  /\ UNCHANGED <<streamed, searchEngine, announced>>

OnIndexResponse(p) ==
  /\ Received(p, "IndexResponse")
  /\ LET ok == Message(p).ok
     IN CompleteWrite(p, [Taken(p) EXCEPT !.wroteAny = @ \/ ok], ok)
  /\ UNCHANGED <<streamed, requests, searchEngine, announced>>

OnEndStream(p) ==
  /\ Received(p, "EndStream")
  /\ LET w == Taken(p) IN
     \/ /\ w.writing
        /\ Become(p, Stash(w, EndStream))
        /\ UNCHANGED <<processor, requests, announced>>
     \/ /\ ~w.writing /\ w.deferredFailure
        /\ Become(p, NoWriter) /\ Tell(p, FALSE)
        /\ UNCHANGED <<requests, announced>>
     \/ /\ ~w.writing /\ ~w.deferredFailure /\ w.pending # <<>>
        /\ Flush(p, Stash(w, EndStream), FALSE)
        /\ UNCHANGED announced
     \/ /\ ~w.writing /\ ~w.deferredFailure /\ w.pending = <<>>
        /\ Become(p, NoWriter) /\ Tell(p, TRUE)
        /\ announced' = IF w.wroteAny THEN announced \cup {p} ELSE announced
        /\ UNCHANGED requests
  /\ UNCHANGED <<streamed, searchEngine>>

-----------------------------------------------------------------------------
(* EmbeddingProcessor and the stream it subscribed to *)

Move(p, from, to) ==
  /\ processor[p] \in from
  /\ processor' = [processor EXCEPT ![p] = to]

Enqueue(p, message) ==
  writer' = IF writer[p].running
            THEN [writer EXCEPT ![p].mailbox = Append(@, message)] ELSE writer

OnStart(p) ==
  /\ Concurrent \/ \A q \in Processors : processor[q] \in Endings \cup {"idle"}
  /\ Move(p, {"idle"}, "streaming")
  /\ Become(p, NewWriter)
  /\ UNCHANGED <<streamed, requests, searchEngine, announced>>

(* The stream gives its next item: a chunk, an empty payload, or garbage. *)
AskWriter(p) ==
  /\ Move(p, {"streaming"}, "asking")
  /\ \/ /\ streamed[p] < MaxChunks[p]
        /\ streamed' = [streamed EXCEPT ![p] = @ + 1]
        /\ Enqueue(p, [kind |-> "WriteChunk", payload |-> Documents(<<streamed[p] + 1>>)])
     \/ /\ UNCHANGED streamed
        /\ Enqueue(p, [kind |-> "WriteChunk", payload |-> Documents(<<>>)])
     \/ \E kind \in {"Malformed", "Garbage"} \cap Faults :
        /\ UNCHANGED streamed
        /\ Enqueue(p, [kind |-> "WriteChunk", payload |-> [kind |-> kind]])
  /\ UNCHANGED <<requests, searchEngine, announced>>

StreamCompletes(p) ==
  /\ Move(p, {"streaming"}, "completed")
  /\ UNCHANGED <<streamed, writer, requests, searchEngine, announced>>

StreamFails(p) ==
  /\ "Module" \in Faults
  /\ Move(p, {"streaming", "asking"}, "failed")
  /\ UNCHANGED <<streamed, writer, requests, searchEngine, announced>>

AskTimesOut(p) ==
  /\ "AskTimeout" \in Faults
  /\ Move(p, {"asking", "closing"}, "failed")
  /\ UNCHANGED <<streamed, writer, requests, searchEngine, announced>>

OnStreamCompleted(p) ==
  /\ Move(p, {"completed"}, "closing")
  /\ Enqueue(p, EndStream)
  /\ UNCHANGED <<streamed, requests, searchEngine, announced>>

(* The child stops with its parent, whatever it has in flight. *)
OnStreamClosed(p) ==
  /\ Move(p, {"closed"}, "Complete")
  /\ Become(p, NoWriter)
  /\ UNCHANGED <<streamed, requests, searchEngine, announced>>

OnStreamFailed(p) ==
  /\ Move(p, {"failed"}, "Failure")
  /\ Become(p, NoWriter)
  /\ UNCHANGED <<streamed, requests, searchEngine, announced>>

(* A rebalance or the loss of the node. *)
Crash(p) ==
  /\ "Crash" \in Faults
  /\ Move(p, Phases \ {"idle"}, "Crashed")
  /\ Become(p, NoWriter)
  /\ UNCHANGED <<streamed, requests, searchEngine, announced>>

-----------------------------------------------------------------------------
(* OpenSearch *)

Respond(r, response) ==
  IF r.awaited THEN Enqueue(r.by, response) ELSE UNCHANGED writer

(* A delete by query sees the index as of its last refresh: the previous    *)
(* version, and what it may of the chunks of other attempts.  Failing, it   *)
(* has removed some of that.                                                *)
LandDelete(r) ==
  /\ r.op = "delete"
  /\ requests' = requests \ {r}
  /\ \E gone \in SUBSET index, ok \in BOOLEAN :
       /\ IF ok THEN Previous \notin index \ gone ELSE "Search" \in Faults
       /\ index' = index \ gone
       /\ Respond(r, [kind |-> "DeleteResponse", ok |-> ok, docs |-> r.docs])
  /\ UNCHANGED <<processor, streamed, inserted, announced>>

(* A bulk reports an error when some of its items failed. *)
LandBulk(r) ==
  /\ r.op = "bulk"
  /\ requests' = requests \ {r}
  /\ \E done \in SUBSET ToSet(r.docs) :
       LET ok == done = ToSet(r.docs) IN
       /\ ok \/ "Search" \in Faults
       /\ index' = index \cup ({r.by} \X done)
       /\ inserted' = IF ok THEN [inserted EXCEPT ![r.by] = @ \o r.docs] ELSE inserted
       /\ Respond(r, [kind |-> "IndexResponse", ok |-> ok])
  /\ UNCHANGED <<processor, streamed, announced>>

(* The client gives up on a request OpenSearch may still carry out. *)
Expire(r) ==
  /\ "Search" \in Faults
  /\ r.awaited
  /\ requests' = (requests \ {r}) \cup {[r EXCEPT !.awaited = FALSE]}
  /\ Respond(r, IF r.op = "delete"
                THEN [kind |-> "DeleteResponse", ok |-> FALSE, docs |-> r.docs]
                ELSE [kind |-> "IndexResponse", ok |-> FALSE])
  /\ UNCHANGED <<processor, streamed, searchEngine, announced>>

-----------------------------------------------------------------------------
WriterStep(p) ==
  \/ OnWriteChunk(p) \/ OnEndStream(p)
  \/ OnDeleteResponse(p) \/ OnIndexResponse(p)

ProcessorStep(p) ==
  \/ OnStart(p) \/ OnStreamCompleted(p) \/ OnStreamClosed(p) \/ OnStreamFailed(p)

Land(r) == LandDelete(r) \/ LandBulk(r)

Next ==
  \/ \E p \in Processors :
       \/ WriterStep(p) \/ OnFlushTick(p) \/ ProcessorStep(p)
       \/ AskWriter(p) \/ StreamCompletes(p) \/ StreamFails(p)
       \/ AskTimesOut(p) \/ Crash(p)
  \/ \E r \in requests : Land(r) \/ Expire(r)

Spec == Init /\ [][Next]_vars

(* Actors with messages run, the timer fires, OpenSearch answers, and a     *)
(* stream ends, however many empty payloads it gives.  No ask is assumed to *)
(* time out, but one to a writer that is gone.                              *)
FairSpec ==
  /\ Spec
  /\ \A p \in Processors :
       /\ WF_vars(WriterStep(p))
       /\ WF_vars(OnFlushTick(p))
       /\ WF_vars(ProcessorStep(p))
       /\ SF_vars(StreamCompletes(p))
       /\ WF_vars(~writer[p].running /\ AskTimesOut(p))
       /\ WF_vars(\E r \in requests : r.by = p /\ Land(r))

-----------------------------------------------------------------------------
(* Properties *)

(* A content is confirmed, and announced as new, only when every chunk of   *)
(* its stream was inserted, once and in order, whether a batch was written  *)
(* because it was full, by the timer or by the close, and whoever was told  *)
(* of its failure.  (onEndStream, completeWrite)                            *)
DoneMeansIndexed ==
  \A p \in Processors :
    processor[p] \in {"closed", "Complete"} \/ p \in announced =>
      inserted[p] = [i \in 1 .. streamed[p] |-> i]

Answers == {"DeleteResponse", "IndexResponse"}
Awaited(p) == { r \in requests : r.by = p /\ r.awaited }

(* No answer in a sequence of messages; one. *)
Clean(messages) == \A i \in DOMAIN messages : messages[i].kind \notin Answers
Lone(messages) ==
  \E i \in DOMAIN messages : \A j \in DOMAIN messages :
    messages[j].kind \in Answers <=> j = i

(* A writer has one request of its own with OpenSearch while it is writing, *)
(* or the answer to it, and none while it is not: the slot is neither taken *)
(* twice nor kept for nothing.  (flush, completeWrite)                      *)
OneWrite(p) ==
  \/ ~writer[p].writing /\ Awaited(p) = {} /\ Clean(writer[p].mailbox)
  \/ writer[p].writing /\ Clean(writer[p].mailbox) /\ \E r \in requests : Awaited(p) = {r}
  \/ writer[p].writing /\ Awaited(p) = {} /\ Lone(writer[p].mailbox)
OneWriteAtATime == \A p \in Processors : writer[p].running => OneWrite(p)

(* A buffered chunk never waits for the next one or for the end: the timer  *)
(* that writes it is running.  (onWriteChunk, onFlushTick, flush)           *)
BufferedIsTimed == \A p \in Processors : writer[p].pending # <<>> => writer[p].timer

(* The processors and their writers implement the replacement of a version  *)
(* by another: nothing is inserted before the previous version is gone or   *)
(* deleted after, nothing is written twice.  (flush, onDeleteResponse)      *)
Replacement == INSTANCE ChunkReplacement WITH
  outcome <- [p \in Processors |-> IF processor[p] \in Endings THEN processor[p] ELSE "open"]
ImplementsReplacement == Replacement!Spec

(* Every document whose embedding starts is answered, with no help of the   *)
(* asks' timeouts while the writer lives: nothing stays stashed, no write   *)
(* stays open.                                                              *)
(* (completeWrite, answer, onEndStream)                                     *)
EveryStreamIsAnswered ==
  \A p \in Processors : processor[p] = "streaming" ~> processor[p] \in Endings

(* "the delete of the previous version rides on the first non-empty batch,  *)
(* so a failure midway leaves the prior version intact" (ChunkStreamWriter) *)
FailureKeepsPrevious ==
  \A p \in Processors : processor[p] = "Failure" => Previous \in index
=============================================================================
