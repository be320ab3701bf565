------------------------- MODULE ChunkStreamProofs -------------------------
(***************************************************************************)
(* Theorems about the chunk stream: every variable keeps its type and a    *)
(* buffer never exceeds a batch (Typing); a writer has one write at a time *)
(* and a buffered chunk always has its timer (Slots), for any number of    *)
(* attempts, any batch size and any faults.                                *)
(***************************************************************************)
EXTENDS ChunkStream, SequenceTheorems, TLAPS

-----------------------------------------------------------------------------
(* Types *)

WritersOK ==
  /\ writer \in [Processors -> Writer]
  /\ \A p \in Processors : Len(writer[p].pending) < BatchSize

ProcessorsOK == processor \in [Processors -> Phases \cup Endings]

(* The messages the handlers and OpenSearch send are commands.              *)
LEMMA Commands ==
  /\ EndStream \in Command
  /\ \A payload \in Payload : [kind |-> "WriteChunk", payload |-> payload] \in Command
  /\ \A ok \in BOOLEAN : [kind |-> "IndexResponse", ok |-> ok] \in Command
  /\ \A ok \in BOOLEAN, docs \in Chunks :
       [kind |-> "DeleteResponse", ok |-> ok, docs |-> docs] \in Command
  BY DEF EndStream, Command

(* Unstashing moves messages and nothing else.                              *)
LEMMA UnstashAllType ==
  ASSUME NEW w \in Writer
  PROVE  UnstashAll(w) \in Writer /\ UnstashAll(w).pending = w.pending
<1>1. w.stash \o w.mailbox \in Seq(Command) /\ <<>> \in Seq(Command)
  BY ConcatProperties DEF Writer
<1> HIDE DEF Command
<1> QED BY <1>1 DEF UnstashAll, Writer

(* A writer that has taken its message is a writer.                         *)
LEMMA TakenType ==
  ASSUME WritersOK, NEW p \in Processors, writer[p].mailbox # <<>>
  PROVE  /\ Taken(p) \in Writer
         /\ Taken(p).pending = writer[p].pending
         /\ Len(Taken(p).pending) < BatchSize
         /\ Message(p) \in Command
<1>1. writer[p] \in Writer /\ writer[p].mailbox \in Seq(Command)
  BY DEF WritersOK, Writer
<1>2. Tail(writer[p].mailbox) \in Seq(Command) /\ Head(writer[p].mailbox) \in Command
  BY <1>1, HeadTailProperties
<1> QED BY <1>1, <1>2 DEF WritersOK, Taken, Message, Writer

(* Replacing one writer by a writer with less than a batch.                 *)
LEMMA BecomeType ==
  ASSUME WritersOK, NEW p \in Processors,
         NEW w \in Writer, Len(w.pending) < BatchSize, Become(p, w)
  PROVE  WritersOK'
  BY DEF WritersOK, Become

(* Telling moves a processor among its phases.                              *)
LEMMA TellType ==
  ASSUME ProcessorsOK, NEW p \in Processors, NEW ok \in BOOLEAN, Tell(p, ok)
  PROVE  ProcessorsOK'
  BY DEF ProcessorsOK, Tell, Phases

(* An answer to a chunk keeps the types.                                    *)
LEMMA AnswerType ==
  ASSUME WritersOK, ProcessorsOK, NEW p \in Processors, NEW ok \in BOOLEAN,
         NEW w \in Writer, Len(w.pending) < BatchSize, Answer(p, w, ok)
  PROVE  WritersOK' /\ ProcessorsOK'
<1>1. WritersOK'
  BY UnstashAllType, BecomeType DEF Answer
<1> QED BY <1>1, TellType DEF Answer

(* So does the end of a write.                                              *)
LEMMA CompleteWriteType ==
  ASSUME WritersOK, ProcessorsOK, NEW p \in Processors, NEW ok \in BOOLEAN,
         NEW w \in Writer, Len(w.pending) < BatchSize, CompleteWrite(p, w, ok)
  PROVE  WritersOK' /\ ProcessorsOK'
<1> DEFINE v == [w EXCEPT !.writing = FALSE, !.pendingAck = FALSE,
                          !.deferredFailure = @ \/ ~(ok \/ w.pendingAck)]
<1>1. v \in Writer /\ v.pending = w.pending
  BY DEF Writer
<1>2. WritersOK'
  <2>1. Become(p, UnstashAll(v))
    BY DEF CompleteWrite
  <2> HIDE DEF v
  <2> QED BY <2>1, <1>1, UnstashAllType, BecomeType
<1>3. ProcessorsOK'
  BY TellType DEF CompleteWrite, ProcessorsOK
<1> QED BY <1>2, <1>3

(* A request is of the type of requests.                                    *)
LEMMA SendType ==
  ASSUME requests \subseteq Request, NEW p \in Processors,
         NEW op \in {"delete", "bulk"}, NEW docs \in Chunks, Send(p, op, docs)
  PROVE  (requests \subseteq Request)'
<1>1. [by |-> p, op |-> op, docs |-> docs, awaited |-> TRUE] \in Request
  BY DEF Request
<1> QED BY <1>1 DEF Send, Request

(* Indexing a batch, or being refused it, keeps the types.                  *)
LEMMA IndexBatchType ==
  ASSUME WritersOK, ProcessorsOK, requests \subseteq Request, NEW p \in Processors,
         NEW w \in Writer, Len(w.pending) < BatchSize,
         NEW docs \in Chunks, IndexBatch(p, w, docs)
  PROVE  WritersOK' /\ ProcessorsOK' /\ (requests \subseteq Request)'
<1>1. CASE Become(p, w) /\ Send(p, "bulk", docs) /\ UNCHANGED processor
  BY <1>1, BecomeType, SendType DEF ProcessorsOK
<1>2. CASE IOException(p, w)
  BY <1>2, CompleteWriteType DEF IOException
<1> QED BY <1>1, <1>2 DEF IndexBatch

(* A flush empties the buffer, whatever it holds.                           *)
LEMMA FlushType ==
  ASSUME WritersOK, ProcessorsOK, requests \subseteq Request, NEW p \in Processors,
         NEW w \in Writer, NEW ack \in BOOLEAN, Flush(p, w, ack)
  PROVE  WritersOK' /\ ProcessorsOK' /\ (requests \subseteq Request)'
<1> DEFINE drained == [w EXCEPT !.pending = <<>>, !.timer = FALSE,
                                !.writing = TRUE, !.pendingAck = ack]
           deleting == [drained EXCEPT !.firstBatch = FALSE]
<1>1. /\ drained \in Writer /\ Len(drained.pending) < BatchSize
      /\ deleting \in Writer /\ Len(deleting.pending) < BatchSize
      /\ w.pending \in Chunks
  <2>1. <<>> \in Chunks /\ Len(<<>>) < BatchSize
    BY ConstantsAssumption DEF Chunks
  <2> HIDE DEF Chunks
  <2>2. drained \in Writer /\ drained.pending = <<>> /\ w.pending \in Chunks
    BY <2>1 DEF Writer
  <2>3. deleting \in Writer /\ deleting.pending = <<>>
    BY <2>2 DEF Writer
  <2> QED BY <2>1, <2>2, <2>3
<1>2. \/ Become(p, deleting) /\ Send(p, "delete", w.pending) /\ UNCHANGED processor
      \/ IOException(p, drained)
      \/ IndexBatch(p, drained, w.pending)
  BY DEF Flush
<1> HIDE DEF drained, deleting
<1>3. CASE Become(p, deleting) /\ Send(p, "delete", w.pending) /\ UNCHANGED processor
  BY <1>1, <1>3, BecomeType, SendType DEF ProcessorsOK
<1>4. CASE IOException(p, drained)
  BY <1>1, <1>4, CompleteWriteType DEF IOException
<1>5. CASE IndexBatch(p, drained, w.pending)
  BY <1>1, <1>5, IndexBatchType
<1> QED BY <1>2, <1>3, <1>4, <1>5

(* A chunk that is buffered keeps the buffer below a batch.                 *)
LEMMA BufferType ==
  ASSUME WritersOK, ProcessorsOK, requests \subseteq Request, NEW p \in Processors,
         NEW w \in Writer, NEW docs \in Chunks, Buffer(p, w, docs)
  PROVE  WritersOK' /\ ProcessorsOK' /\ (requests \subseteq Request)'
<1> DEFINE buffered == [w EXCEPT !.pending = @ \o docs]
           timed == [buffered EXCEPT !.timer = @ \/ w.pending = <<>>]
<1>1. buffered \in Writer /\ Len(buffered.pending) \in Nat
  <2>1. w.pending \o docs \in Chunks /\ Len(w.pending \o docs) \in Nat
    BY ConcatProperties, LenProperties DEF Chunks, Writer
  <2> QED BY <2>1 DEF Writer
<1>2. timed \in Writer /\ timed.pending = buffered.pending
  BY <1>1 DEF Writer
<1>3. IF Len(buffered.pending) >= BatchSize THEN Flush(p, buffered, TRUE)
      ELSE Answer(p, timed, TRUE) /\ UNCHANGED requests
  BY DEF Buffer
<1> HIDE DEF buffered, timed
<1>4. CASE Len(buffered.pending) >= BatchSize
  BY <1>1, <1>3, <1>4, FlushType
<1>5. CASE ~(Len(buffered.pending) >= BatchSize)
  <2>1. Len(timed.pending) < BatchSize
    BY <1>1, <1>2, <1>5, ConstantsAssumption
  <2> QED BY <1>2, <1>3, <1>5, <2>1, AnswerType
<1> QED BY <1>4, <1>5

(* Enqueuing a message keeps the types.                                     *)
LEMMA EnqueueType ==
  ASSUME WritersOK, NEW p \in Processors, NEW m \in Command, Enqueue(p, m)
  PROVE  WritersOK'
<1>1. CASE ~writer[p].running
  BY <1>1 DEF WritersOK, Enqueue
<1>2. CASE writer[p].running
  <2> DEFINE w == [writer[p] EXCEPT !.mailbox = Append(@, m)]
  <2>1. Append(writer[p].mailbox, m) \in Seq(Command)
    BY AppendProperties DEF WritersOK, Writer
  <2>2. w \in Writer /\ w.pending = writer[p].pending
    BY <2>1 DEF WritersOK, Writer
  <2>3. Become(p, w)
    BY <1>2 DEF Enqueue, Become, WritersOK
  <2> HIDE DEF w
  <2>4. Len(w.pending) < BatchSize
    BY <2>2 DEF WritersOK
  <2> QED BY <2>2, <2>3, <2>4, BecomeType
<1> QED BY <1>1, <1>2

(* A fresh writer and none are writers with an empty buffer.                *)
LEMMA NewWriterType ==
  /\ NewWriter \in Writer /\ Len(NewWriter.pending) < BatchSize
  /\ NoWriter \in Writer /\ Len(NoWriter.pending) < BatchSize
<1>1. <<>> \in Chunks /\ <<>> \in Seq(Command) /\ Len(<<>>) < BatchSize
  BY ConstantsAssumption DEF Chunks
<1> HIDE DEF Chunks, Command
<1>2. NewWriter \in Writer /\ NewWriter.pending = <<>>
  BY <1>1 DEF NewWriter, Writer
<1>3. NoWriter \in Writer /\ NoWriter.pending = <<>>
  BY <1>2 DEF NoWriter, Writer
<1> QED BY <1>1, <1>2, <1>3

(* Setting a message aside keeps the types.                                 *)
LEMMA StashType ==
  ASSUME NEW w \in Writer, NEW m \in Command
  PROVE  Stash(w, m) \in Writer /\ Stash(w, m).pending = w.pending
<1>1. Append(w.stash, m) \in Seq(Command)
  BY AppendProperties DEF Writer
<1> HIDE DEF Command
<1> QED BY <1>1 DEF Stash, Writer

(* What a message of each kind carries.                                     *)
LEMMA MessageParts ==
  ASSUME NEW m \in Command
  PROVE  /\ m.kind = "WriteChunk" => m.payload \in Payload
         /\ m.kind = "WriteChunk" /\ m.payload.kind = "Chunks" => m.payload.docs \in Chunks
         /\ m.kind = "DeleteResponse" => m.ok \in BOOLEAN /\ m.docs \in Chunks
         /\ m.kind = "IndexResponse" => m.ok \in BOOLEAN
<1> HIDE DEF Chunks
<1> QED BY DEF Command, Payload

(* The parts of the state a writer's handler and a tick change.             *)
WriterTypes == WritersOK /\ ProcessorsOK /\ requests \subseteq Request

LEMMA OnWriteChunkType ==
  ASSUME WriterTypes, NEW p \in Processors, OnWriteChunk(p)
  PROVE  WriterTypes'
<1> DEFINE w == Taken(p)  payload == Message(p).payload
<1>1. /\ w \in Writer /\ Len(w.pending) < BatchSize /\ Message(p) \in Command
      /\ Message(p).kind = "WriteChunk"
  BY TakenType DEF WriterTypes, OnWriteChunk, Received, Message
<1> USE DEF WriterTypes
<1>2. CASE Become(p, Stash(w, Message(p))) /\ UNCHANGED <<processor, requests>>
  <2>1. Stash(w, Message(p)) \in Writer /\ Len(Stash(w, Message(p)).pending) < BatchSize
    BY <1>1, StashType
  <2> QED BY <1>2, <2>1, BecomeType DEF ProcessorsOK
<1>3. CASE \E ok \in BOOLEAN : Answer(p, w, ok) /\ UNCHANGED requests
  BY <1>1, <1>3, AnswerType
<1>4. CASE payload.kind = "Chunks" /\ Buffer(p, w, payload.docs)
  <2>1. payload.docs \in Chunks
    BY <1>1, <1>4, MessageParts
  <2> QED BY <1>1, <1>4, <2>1, BufferType
<1>5. CASE Become(p, NoWriter) /\ UNCHANGED <<processor, requests>>
  BY <1>5, NewWriterType, BecomeType DEF ProcessorsOK
<1> QED BY <1>2, <1>3, <1>4, <1>5 DEF OnWriteChunk

LEMMA OnFlushTickType ==
  ASSUME WriterTypes, NEW p \in Processors, OnFlushTick(p)
  PROVE  WriterTypes'
<1> DEFINE w == [writer[p] EXCEPT !.timer = FALSE]
<1>1. w \in Writer /\ Len(w.pending) < BatchSize
  BY DEF WriterTypes, WritersOK, Writer
<1>2. \/ Become(p, w) /\ UNCHANGED <<processor, requests>>
      \/ Flush(p, w, FALSE)
  BY DEF OnFlushTick
<1> HIDE DEF w
<1> USE DEF WriterTypes
<1>3. CASE Become(p, w) /\ UNCHANGED <<processor, requests>>
  BY <1>1, <1>3, BecomeType DEF ProcessorsOK
<1>4. CASE Flush(p, w, FALSE)
  BY <1>1, <1>4, FlushType
<1> QED BY <1>2, <1>3, <1>4

LEMMA OnDeleteResponseType ==
  ASSUME WriterTypes, NEW p \in Processors, OnDeleteResponse(p)
  PROVE  WriterTypes'
<1>1. /\ Taken(p) \in Writer /\ Len(Taken(p).pending) < BatchSize
      /\ Message(p) \in Command /\ Message(p).kind = "DeleteResponse"
  BY TakenType DEF WriterTypes, OnDeleteResponse, Received, Message
<1>2. Message(p).docs \in Chunks
  BY <1>1, MessageParts
<1> USE DEF WriterTypes
<1>3. CASE IndexBatch(p, Taken(p), Message(p).docs)
  BY <1>1, <1>2, <1>3, IndexBatchType
<1>4. CASE CompleteWrite(p, Taken(p), FALSE) /\ UNCHANGED requests
  BY <1>1, <1>4, CompleteWriteType
<1> QED BY <1>3, <1>4 DEF OnDeleteResponse

LEMMA OnIndexResponseType ==
  ASSUME WriterTypes, NEW p \in Processors, OnIndexResponse(p)
  PROVE  WriterTypes'
<1> DEFINE ok == Message(p).ok
           w == [Taken(p) EXCEPT !.wroteAny = @ \/ ok]
<1>1. /\ Taken(p) \in Writer /\ Len(Taken(p).pending) < BatchSize
      /\ Message(p) \in Command /\ Message(p).kind = "IndexResponse"
  BY TakenType DEF WriterTypes, OnIndexResponse, Received, Message
<1>2. ok \in BOOLEAN
  BY <1>1, MessageParts
<1>3. w \in Writer /\ w.pending = Taken(p).pending
  BY <1>1 DEF Writer
<1>4. CompleteWrite(p, w, ok) /\ UNCHANGED requests
  BY DEF OnIndexResponse
<1> HIDE DEF w, ok
<1> QED BY <1>1, <1>2, <1>3, <1>4, CompleteWriteType DEF WriterTypes

LEMMA OnEndStreamType ==
  ASSUME WriterTypes, announced \subseteq Processors, NEW p \in Processors, OnEndStream(p)
  PROVE  WriterTypes' /\ (announced \subseteq Processors)'
<1> DEFINE w == Taken(p)
<1>1. w \in Writer /\ Len(w.pending) < BatchSize
  BY TakenType DEF WriterTypes, OnEndStream, Received
<1>2. Stash(w, EndStream) \in Writer /\ Len(Stash(w, EndStream).pending) < BatchSize
  BY <1>1, StashType, Commands
<1> USE DEF WriterTypes
<1>3. CASE Become(p, Stash(w, EndStream)) /\ UNCHANGED <<processor, requests, announced>>
  BY <1>2, <1>3, BecomeType DEF ProcessorsOK
<1>4. CASE \E ok \in BOOLEAN : /\ Become(p, NoWriter) /\ Tell(p, ok)
                               /\ announced' \in {announced, announced \cup {p}}
                               /\ UNCHANGED requests
  BY <1>4, NewWriterType, BecomeType, TellType
<1>5. CASE Flush(p, Stash(w, EndStream), FALSE) /\ UNCHANGED announced
  BY <1>2, <1>5, FlushType
<1> QED BY <1>3, <1>4, <1>5 DEF OnEndStream

(* The processor's own steps and those of its stream.                       *)
LEMMA ProcessorType ==
  ASSUME TypeOK, NEW p \in Processors,
         \/ ProcessorStep(p) \/ AskWriter(p) \/ StreamCompletes(p)
         \/ StreamFails(p) \/ AskTimesOut(p) \/ Crash(p)
  PROVE  TypeOK'
<1>1. WritersOK /\ ProcessorsOK
  BY DEF TypeOK, WritersOK, ProcessorsOK
<1>2. SUFFICES WritersOK' /\ ProcessorsOK' /\ (streamed \in [Processors -> Nat])'
               /\ UNCHANGED <<requests, index, inserted, announced>>
  BY DEF TypeOK, WritersOK, ProcessorsOK
<1>3. CASE OnStart(p)
  BY <1>1, <1>3, NewWriterType, BecomeType
  DEF OnStart, Move, ProcessorsOK, Phases, searchEngine, TypeOK
<1>4. CASE OnStreamCompleted(p)
  BY <1>1, <1>4, EnqueueType, Commands
  DEF OnStreamCompleted, Move, ProcessorsOK, Phases, searchEngine, TypeOK
<1>5. CASE OnStreamClosed(p) \/ OnStreamFailed(p) \/ Crash(p)
  BY <1>1, <1>5, NewWriterType, BecomeType
  DEF OnStreamClosed, OnStreamFailed, Crash, Move, ProcessorsOK, Endings, searchEngine, TypeOK
<1>6. CASE StreamCompletes(p) \/ StreamFails(p) \/ AskTimesOut(p)
  BY <1>1, <1>6
  DEF StreamCompletes, StreamFails, AskTimesOut, Move, ProcessorsOK, WritersOK,
      Phases, searchEngine, TypeOK
<1>7. CASE AskWriter(p)
  <2>1. ProcessorsOK' /\ UNCHANGED <<requests, index, inserted, announced>>
    BY <1>1, <1>7 DEF AskWriter, Move, ProcessorsOK, Phases, searchEngine
  <2>2. (streamed \in [Processors -> Nat])'
    <3>1. \/ streamed' = streamed
          \/ streamed' = [streamed EXCEPT ![p] = @ + 1]
      BY <1>7 DEF AskWriter
    <3> QED BY <3>1 DEF TypeOK
  <2>3. /\ Documents(<<streamed[p] + 1>>) \in Payload /\ Documents(<<>>) \in Payload
        /\ \A kind \in {"Malformed", "Garbage"} : [kind |-> kind] \in Payload
    BY DEF Documents, Payload, Chunks, TypeOK
  <2>4. \E payload \in Payload : Enqueue(p, [kind |-> "WriteChunk", payload |-> payload])
    BY <1>7, <2>3 DEF AskWriter
  <2>5. WritersOK'
    BY <1>1, <2>4, EnqueueType, Commands
  <2> QED BY <2>1, <2>2, <2>5
<1> QED BY <1>3, <1>4, <1>5, <1>6, <1>7 DEF ProcessorStep

(* What OpenSearch does.                                                    *)
LEMMA SearchType ==
  ASSUME TypeOK, NEW r \in requests, Land(r) \/ Expire(r)
  PROVE  TypeOK'
<1>1. WritersOK /\ ProcessorsOK /\ r \in Request /\ r.by \in Processors /\ r.docs \in Chunks
  BY DEF TypeOK, WritersOK, ProcessorsOK, Request
<1>2. ASSUME NEW m \in Command, Respond(r, m)
      PROVE  WritersOK'
  BY <1>1, <1>2, EnqueueType DEF Respond, WritersOK
<1>3. SUFFICES /\ WritersOK' /\ (requests \subseteq Request)'
               /\ (index \subseteq {Previous} \cup (Processors \X Nat))'
               /\ (inserted \in [Processors -> Chunks])'
               /\ UNCHANGED <<processor, streamed, announced>>
  BY DEF TypeOK, WritersOK, ProcessorsOK
<1>4. CASE LandDelete(r)
  <2>1. PICK gone \in SUBSET index, ok \in BOOLEAN :
          /\ index' = index \ gone
          /\ Respond(r, [kind |-> "DeleteResponse", ok |-> ok, docs |-> r.docs])
    BY <1>4 DEF LandDelete
  <2>2. WritersOK'
    BY <1>1, <1>2, <2>1, Commands
  <2> QED BY <1>4, <2>1, <2>2 DEF LandDelete, TypeOK
<1>5. CASE LandBulk(r)
  <2>1. PICK done \in SUBSET ToSet(r.docs) :
          /\ index' = index \cup ({r.by} \X done)
          /\ inserted' \in {inserted, [inserted EXCEPT ![r.by] = @ \o r.docs]}
          /\ Respond(r, [kind |-> "IndexResponse", ok |-> done = ToSet(r.docs)])
    BY <1>5 DEF LandBulk
  <2>2. WritersOK'
    BY <1>2, <2>1, Commands
  <2>3. (inserted \in [Processors -> Chunks])'
    <3>1. inserted[r.by] \o r.docs \in Chunks
      BY <1>1, ConcatProperties DEF TypeOK, Chunks
    <3> QED BY <1>1, <2>1, <3>1 DEF TypeOK
  <2>4. ToSet(r.docs) \subseteq Nat
    BY <1>1, ElementOfSeq, LenProperties DEF ToSet, Chunks
  <2> QED BY <1>1, <1>5, <2>1, <2>2, <2>3, <2>4 DEF LandBulk, TypeOK
<1>6. CASE Expire(r)
  <2>1. WritersOK'
    BY <1>1, <1>2, <1>6, Commands DEF Expire
  <2>2. [r EXCEPT !.awaited = FALSE] \in Request
    BY <1>1 DEF Request
  <2> QED BY <1>6, <2>1, <2>2 DEF Expire, searchEngine, TypeOK
<1> QED BY <1>4, <1>5, <1>6 DEF Land

LEMMA InitType == Init => TypeOK
<1> SUFFICES ASSUME Init PROVE TypeOK
  OBVIOUS
<1>1. <<>> \in Chunks
  BY DEF Chunks
<1> HIDE DEF Chunks
<1> QED BY <1>1, NewWriterType DEF Init, TypeOK, Phases

LEMMA NextType == TypeOK /\ [Next]_vars => TypeOK'
<1> SUFFICES ASSUME TypeOK, [Next]_vars PROVE TypeOK'
  OBVIOUS
<1>1. WriterTypes /\ announced \subseteq Processors
  BY DEF TypeOK, WriterTypes, WritersOK, ProcessorsOK
<1>2. ASSUME NEW p \in Processors, WriterStep(p) \/ OnFlushTick(p)
      PROVE  TypeOK'
  <2>1. WriterTypes' /\ (announced \subseteq Processors)' /\ UNCHANGED <<streamed, searchEngine>>
    BY <1>1, <1>2, OnWriteChunkType, OnFlushTickType, OnDeleteResponseType,
       OnIndexResponseType, OnEndStreamType
    DEF WriterStep, OnWriteChunk, OnFlushTick, OnDeleteResponse, OnIndexResponse, OnEndStream
  <2> QED BY <2>1 DEF TypeOK, WriterTypes, WritersOK, ProcessorsOK, searchEngine
<1>3. CASE UNCHANGED vars
  BY <1>3 DEF TypeOK, vars, searchEngine
<1> QED BY <1>2, <1>3, ProcessorType, SearchType DEF Next

(* Every variable keeps its type: no handler meets a message or a payload   *)
(* it does not know, and a buffer never holds a whole batch.                *)
THEOREM Typing == Spec => []TypeOK
  BY InitType, NextType, PTL DEF Spec

-----------------------------------------------------------------------------
(* Slots *)

(* What makes OneWriteAtATime and BufferedIsTimed inductive: no answer is   *)
(* ever stashed, a writer is new when its processor starts, and a chunk is  *)
(* buffered only by a writer that is not writing and knows of no failure.   *)
Slot(p) ==
  /\ processor[p] = "idle" => ~writer[p].running /\ \A r \in requests : r.by # p
  /\ Clean(writer[p].stash)
  /\ writer[p].running => OneWrite(p)
  /\ writer[p].pending # <<>> =>
       writer[p].timer /\ ~writer[p].writing /\ ~writer[p].deferredFailure

SlotsInv == TypeOK /\ \A p \in Processors : Slot(p)

(* Clean and Lone mailboxes as messages come and go.                        *)
LEMMA CleanEmpty == Clean(<<>>)
  BY DEF Clean

LEMMA MailboxTail ==
  ASSUME NEW m \in Seq(Command), m # <<>>
  PROVE  /\ Clean(m) => Clean(Tail(m)) /\ Head(m).kind \notin Answers
         /\ Lone(m) /\ Head(m).kind \notin Answers => Lone(Tail(m))
         /\ Lone(m) /\ Head(m).kind \in Answers => Clean(Tail(m))
<1>1. /\ Len(m) \in Nat /\ Len(m) >= 1 /\ DOMAIN m = 1 .. Len(m)
      /\ Head(m) = m[1] /\ 1 \in DOMAIN m
      /\ DOMAIN Tail(m) = 1 .. (Len(m) - 1)
      /\ \A i \in 1 .. (Len(m) - 1) : Tail(m)[i] = m[i + 1]
  BY EmptySeq, LenProperties, HeadTailProperties
<1>2. Clean(m) => Clean(Tail(m)) /\ Head(m).kind \notin Answers
  BY <1>1 DEF Clean
<1>3. ASSUME Lone(m), Head(m).kind \notin Answers
      PROVE  Lone(Tail(m))
  <2>1. PICK i \in DOMAIN m : \A j \in DOMAIN m : m[j].kind \in Answers <=> j = i
    BY <1>3 DEF Lone
  <2>2. i # 1 /\ i - 1 \in DOMAIN Tail(m)
    BY <1>1, <1>3, <2>1
  <2>3. \A j \in DOMAIN Tail(m) : Tail(m)[j].kind \in Answers <=> j = i - 1
    BY <1>1, <2>1
  <2> QED BY <2>2, <2>3 DEF Lone
<1>4. ASSUME Lone(m), Head(m).kind \in Answers
      PROVE  Clean(Tail(m))
  <2>1. PICK i \in DOMAIN m : \A j \in DOMAIN m : m[j].kind \in Answers <=> j = i
    BY <1>4 DEF Lone
  <2>2. i = 1
    BY <1>1, <1>4, <2>1
  <2> QED BY <1>1, <2>1, <2>2 DEF Clean
<1> QED BY <1>2, <1>3, <1>4

LEMMA MailboxAppend ==
  ASSUME NEW m \in Seq(Command), NEW x \in Command
  PROVE  /\ Clean(m) /\ x.kind \notin Answers => Clean(Append(m, x))
         /\ Lone(m) /\ x.kind \notin Answers => Lone(Append(m, x))
         /\ Clean(m) /\ x.kind \in Answers => Lone(Append(m, x))
<1>1. /\ Len(m) \in Nat /\ DOMAIN m = 1 .. Len(m)
      /\ DOMAIN Append(m, x) = 1 .. (Len(m) + 1)
      /\ \A i \in 1 .. Len(m) : Append(m, x)[i] = m[i]
      /\ Append(m, x)[Len(m) + 1] = x
  BY LenProperties, AppendProperties
<1>2. Clean(m) /\ x.kind \notin Answers => Clean(Append(m, x))
  BY <1>1 DEF Clean
<1>3. ASSUME Lone(m), x.kind \notin Answers
      PROVE  Lone(Append(m, x))
  <2>1. PICK i \in DOMAIN m : \A j \in DOMAIN m : m[j].kind \in Answers <=> j = i
    BY <1>3 DEF Lone
  <2>2. /\ i \in DOMAIN Append(m, x)
        /\ \A j \in DOMAIN Append(m, x) : Append(m, x)[j].kind \in Answers <=> j = i
    BY <1>1, <1>3, <2>1
  <2> QED BY <2>2 DEF Lone
<1>4. ASSUME Clean(m), x.kind \in Answers
      PROVE  Lone(Append(m, x))
  <2>1. /\ Len(m) + 1 \in DOMAIN Append(m, x)
        /\ \A j \in DOMAIN Append(m, x) :
             Append(m, x)[j].kind \in Answers <=> j = Len(m) + 1
    BY <1>1, <1>4 DEF Clean
  <2> QED BY <2>1 DEF Lone
<1> QED BY <1>2, <1>3, <1>4

LEMMA MailboxConcat ==
  ASSUME NEW m \in Seq(Command), NEW n \in Seq(Command), Clean(m), Clean(n)
  PROVE  Clean(m \o n)
<1>1. /\ Len(m) \in Nat /\ Len(n) \in Nat
      /\ DOMAIN m = 1 .. Len(m) /\ DOMAIN n = 1 .. Len(n)
      /\ DOMAIN (m \o n) = 1 .. (Len(m) + Len(n))
      /\ \A i \in 1 .. (Len(m) + Len(n)) :
           (m \o n)[i] = IF i <= Len(m) THEN m[i] ELSE n[i - Len(m)]
  BY LenProperties, ConcatProperties
<1> QED BY <1>1 DEF Clean

(* The slot of a processor depends on its own state only.                   *)
LEMMA SlotFrame ==
  ASSUME SlotsInv, TypeOK', NEW p \in Processors, Slot(p)',
         \A q \in Processors \ {p} :
           /\ writer'[q] = writer[q]
           /\ processor'[q] = processor[q]
           /\ \A r : r.by = q => (r \in requests' <=> r \in requests)
  PROVE  SlotsInv'
<1> SUFFICES ASSUME NEW q \in Processors, q # p PROVE Slot(q)'
  BY DEF SlotsInv
<1>1. /\ Slot(q) /\ writer'[q] = writer[q] /\ processor'[q] = processor[q]
      /\ \A r : r.by = q => (r \in requests' <=> r \in requests)
  BY DEF SlotsInv
<1>2. Awaited(q)' = Awaited(q)
  BY <1>1 DEF Awaited
<1>3. OneWrite(q) => OneWrite(q)'
  <2>1. (\E r \in requests : Awaited(q) = {r}) => \E r \in requests' : Awaited(q)' = {r}
    <3> SUFFICES ASSUME NEW r \in requests, Awaited(q) = {r} PROVE r \in requests'
      BY <1>2
    <3>1. r.by = q
      BY DEF Awaited
    <3> QED BY <1>1, <3>1
  <2> QED BY <1>1, <1>2, <2>1 DEF OneWrite
<1> QED BY <1>1, <1>3 DEF Slot

(* Telling never makes a processor idle.                                    *)
LEMMA TellSlots ==
  ASSUME TypeOK, NEW p \in Processors, NEW ok \in BOOLEAN,
         processor[p] # "idle", Tell(p, ok) \/ UNCHANGED processor
  PROVE  processor'[p] # "idle"
  BY DEF TypeOK, Tell

(* The end of a write leaves the slot free.                                 *)
LEMMA CompleteWriteSlots ==
  ASSUME TypeOK, NEW p \in Processors, processor[p] # "idle", NEW ok \in BOOLEAN,
         NEW w \in Writer, Clean(w.mailbox), Clean(w.stash), w.pending = <<>>,
         Awaited(p)' = {}, CompleteWrite(p, w, ok)
  PROVE  Slot(p)'
<1> DEFINE v == [w EXCEPT !.writing = FALSE, !.pendingAck = FALSE,
                          !.deferredFailure = @ \/ ~(ok \/ w.pendingAck)]
<1>1. /\ UnstashAll(v).mailbox = w.stash \o w.mailbox /\ UnstashAll(v).stash = <<>>
      /\ UnstashAll(v).writing = FALSE /\ UnstashAll(v).pending = <<>>
  BY DEF UnstashAll, Writer
<1>2. writer'[p] = UnstashAll(v)
  BY DEF CompleteWrite, Become, TypeOK
<1>3. processor'[p] # "idle"
  BY TellSlots DEF CompleteWrite
<1>4. Clean(w.stash \o w.mailbox)
  BY MailboxConcat DEF Writer
<1> HIDE DEF v
<1> QED BY <1>1, <1>2, <1>3, <1>4, CleanEmpty DEF Slot, OneWrite

(* A request takes a free slot.                                             *)
LEMMA SendSlots ==
  ASSUME TypeOK, NEW p \in Processors, processor[p] # "idle",
         NEW w \in Writer, Clean(w.mailbox), Clean(w.stash), w.pending = <<>>, w.writing,
         Awaited(p) = {}, NEW op, NEW docs,
         Become(p, w), Send(p, op, docs), UNCHANGED processor
  PROVE  Slot(p)'
<1> DEFINE r == [by |-> p, op |-> op, docs |-> docs, awaited |-> TRUE]
<1>1. writer'[p] = w /\ processor'[p] # "idle"
  BY DEF Become, TypeOK
<1>2. r.by = p /\ r.awaited /\ requests' = requests \cup {r}
  BY DEF Send
<1> HIDE DEF r
<1>3. Awaited(p)' = {r} /\ r \in requests'
  BY <1>2 DEF Awaited
<1> QED BY <1>1, <1>3 DEF Slot, OneWrite

(* Indexing a batch by a writer that is writing with nothing in flight.     *)
LEMMA IndexBatchSlots ==
  ASSUME TypeOK, NEW p \in Processors, processor[p] # "idle",
         NEW w \in Writer, Clean(w.mailbox), Clean(w.stash), w.pending = <<>>, w.writing,
         Awaited(p) = {}, NEW docs, IndexBatch(p, w, docs)
  PROVE  Slot(p)'
<1>1. CASE Become(p, w) /\ Send(p, "bulk", docs) /\ UNCHANGED processor
  BY <1>1, SendSlots
<1>2. CASE IOException(p, w)
  <2>1. Awaited(p)' = {}
    BY <1>2 DEF IOException, Awaited
  <2> QED BY <1>2, <2>1, CompleteWriteSlots DEF IOException
<1> QED BY <1>1, <1>2 DEF IndexBatch

(* A flush by a writer with nothing in flight.                              *)
LEMMA FlushSlots ==
  ASSUME TypeOK, NEW p \in Processors, processor[p] # "idle",
         NEW w \in Writer, Clean(w.mailbox), Clean(w.stash),
         Awaited(p) = {}, NEW ack \in BOOLEAN, Flush(p, w, ack)
  PROVE  Slot(p)'
<1> DEFINE drained == [w EXCEPT !.pending = <<>>, !.timer = FALSE,
                                !.writing = TRUE, !.pendingAck = ack]
           deleting == [drained EXCEPT !.firstBatch = FALSE]
<1>1. /\ drained \in Writer /\ drained.pending = <<>> /\ drained.writing
      /\ drained.mailbox = w.mailbox /\ drained.stash = w.stash
  <2>1. <<>> \in Chunks
    BY DEF Chunks
  <2> HIDE DEF Chunks
  <2> QED BY <2>1 DEF Writer
<1>2. /\ deleting \in Writer /\ deleting.pending = <<>> /\ deleting.writing
      /\ deleting.mailbox = w.mailbox /\ deleting.stash = w.stash
  BY <1>1 DEF Writer
<1>3. \/ Become(p, deleting) /\ Send(p, "delete", w.pending) /\ UNCHANGED processor
      \/ IOException(p, drained)
      \/ IndexBatch(p, drained, w.pending)
  BY DEF Flush
<1> HIDE DEF drained, deleting
<1>4. CASE Become(p, deleting) /\ Send(p, "delete", w.pending) /\ UNCHANGED processor
  BY <1>2, <1>4, SendSlots
<1>5. CASE IOException(p, drained)
  <2>1. Awaited(p)' = {}
    BY <1>5 DEF IOException, Awaited
  <2> QED BY <1>1, <1>5, <2>1, CompleteWriteSlots DEF IOException
<1>6. CASE IndexBatch(p, drained, w.pending)
  BY <1>1, <1>6, IndexBatchSlots
<1> QED BY <1>3, <1>4, <1>5, <1>6

(* An answer given at once leaves a free slot free.                         *)
LEMMA AnswerSlots ==
  ASSUME TypeOK, NEW p \in Processors, processor[p] # "idle", NEW ok \in BOOLEAN,
         NEW w \in Writer, Clean(w.mailbox), Clean(w.stash), ~w.writing,
         w.pending # <<>> => w.timer /\ ~w.deferredFailure,
         Awaited(p) = {}, UNCHANGED requests, Answer(p, w, ok)
  PROVE  Slot(p)'
<1>1. /\ UnstashAll(w).mailbox = w.stash \o w.mailbox /\ UnstashAll(w).stash = <<>>
      /\ UnstashAll(w).writing = w.writing /\ UnstashAll(w).pending = w.pending
      /\ UnstashAll(w).timer = w.timer /\ UnstashAll(w).deferredFailure = w.deferredFailure
  BY DEF UnstashAll, Writer
<1>2. writer'[p] = UnstashAll(w)
  BY DEF Answer, Become, TypeOK
<1>3. processor'[p] # "idle"
  BY TellSlots DEF Answer
<1>4. Clean(w.stash \o w.mailbox)
  BY MailboxConcat DEF Writer
<1>5. Awaited(p)' = {}
  BY DEF Awaited
<1> QED BY <1>1, <1>2, <1>3, <1>4, <1>5, CleanEmpty DEF Slot, OneWrite

(* Buffering a chunk arms the timer, or flushes.                            *)
LEMMA BufferSlots ==
  ASSUME TypeOK, NEW p \in Processors, processor[p] # "idle",
         NEW w \in Writer, Clean(w.mailbox), Clean(w.stash), ~w.writing, ~w.deferredFailure,
         w.pending # <<>> => w.timer,
         NEW docs \in Chunks, Awaited(p) = {}, Buffer(p, w, docs)
  PROVE  Slot(p)'
<1> DEFINE buffered == [w EXCEPT !.pending = @ \o docs]
           timed == [buffered EXCEPT !.timer = @ \/ w.pending = <<>>]
<1>1. /\ buffered \in Writer /\ buffered.mailbox = w.mailbox /\ buffered.stash = w.stash
      /\ timed \in Writer /\ timed.mailbox = w.mailbox /\ timed.stash = w.stash
      /\ ~timed.writing /\ ~timed.deferredFailure /\ timed.timer
  <2>1. w.pending \o docs \in Chunks
    BY ConcatProperties DEF Chunks, Writer
  <2>2. buffered \in Writer /\ buffered.mailbox = w.mailbox /\ buffered.stash = w.stash
    BY <2>1 DEF Writer
  <2> QED BY <2>2 DEF Writer
<1>2. \/ Flush(p, buffered, TRUE)
      \/ Answer(p, timed, TRUE) /\ UNCHANGED requests
  BY DEF Buffer
<1> HIDE DEF buffered, timed
<1> QED BY <1>1, <1>2, FlushSlots, AnswerSlots

(* The writer as a handler finds it: a message that is no answer leaves     *)
(* what is in flight as it was, an answer was the only thing in flight.     *)
LEMMA TakenSlots ==
  ASSUME SlotsInv, NEW p \in Processors, writer[p].running, writer[p].mailbox # <<>>
  PROVE  /\ processor[p] # "idle"
         /\ Taken(p) \in Writer /\ Message(p) \in Command
         /\ Taken(p) = [writer[p] EXCEPT !.mailbox = Taken(p).mailbox]
         /\ Taken(p).running /\ Clean(Taken(p).stash)
         /\ Taken(p).writing = writer[p].writing
         /\ Taken(p).pending # <<>> =>
              Taken(p).timer /\ ~Taken(p).writing /\ ~Taken(p).deferredFailure
         /\ Message(p).kind \notin Answers =>
              \/ ~Taken(p).writing /\ Awaited(p) = {} /\ Clean(Taken(p).mailbox)
              \/ /\ Taken(p).writing /\ Clean(Taken(p).mailbox)
                 /\ \E r \in requests : Awaited(p) = {r}
              \/ Taken(p).writing /\ Awaited(p) = {} /\ Lone(Taken(p).mailbox)
         /\ Message(p).kind \in Answers =>
              Taken(p).writing /\ Awaited(p) = {} /\ Clean(Taken(p).mailbox)
<1> DEFINE w == Taken(p)
<1>1. WritersOK /\ writer[p] \in Writer /\ Slot(p) /\ OneWrite(p)
  BY DEF SlotsInv, TypeOK, WritersOK, Slot
<1>2. w \in Writer /\ Message(p) \in Command
  BY <1>1, TakenType
<1>3. /\ w.mailbox = Tail(writer[p].mailbox) /\ w.stash = writer[p].stash
      /\ w.running = writer[p].running /\ w.writing = writer[p].writing
      /\ w.pending = writer[p].pending /\ w.timer = writer[p].timer
      /\ w.deferredFailure = writer[p].deferredFailure
      /\ w = [writer[p] EXCEPT !.mailbox = w.mailbox]
  BY <1>1 DEF Taken, Writer
<1>4. /\ Clean(writer[p].mailbox) => Clean(w.mailbox) /\ Message(p).kind \notin Answers
      /\ Lone(writer[p].mailbox) /\ Message(p).kind \notin Answers => Lone(w.mailbox)
      /\ Lone(writer[p].mailbox) /\ Message(p).kind \in Answers => Clean(w.mailbox)
  BY <1>1, <1>3, MailboxTail DEF Writer, Message
<1> HIDE DEF w
<1>5. processor[p] # "idle" /\ w.running /\ Clean(w.stash)
      /\ (w.pending # <<>> => w.timer /\ ~w.writing /\ ~w.deferredFailure)
  BY <1>1, <1>3 DEF Slot
<1>6. \/ ~w.writing /\ Awaited(p) = {} /\ Clean(writer[p].mailbox)
      \/ w.writing /\ Clean(writer[p].mailbox) /\ \E r \in requests : Awaited(p) = {r}
      \/ w.writing /\ Awaited(p) = {} /\ Lone(writer[p].mailbox)
  BY <1>1, <1>3 DEF OneWrite
<1>7. /\ Message(p).kind \notin Answers =>
              \/ ~w.writing /\ Awaited(p) = {} /\ Clean(w.mailbox)
              \/ w.writing /\ Clean(w.mailbox) /\ \E r \in requests : Awaited(p) = {r}
              \/ w.writing /\ Awaited(p) = {} /\ Lone(w.mailbox)
      /\ Message(p).kind \in Answers => w.writing /\ Awaited(p) = {} /\ Clean(w.mailbox)
  BY <1>4, <1>6
<1> QED BY <1>2, <1>3, <1>5, <1>7 DEF w

(* A message set aside changes nothing of what is in flight.                *)
LEMMA StashSlots ==
  ASSUME SlotsInv, NEW p \in Processors, writer[p].running, writer[p].mailbox # <<>>,
         NEW m \in Command, m.kind \notin Answers, Message(p).kind \notin Answers,
         Taken(p).writing, Become(p, Stash(Taken(p), m)),
         UNCHANGED <<processor, requests>>
  PROVE  Slot(p)'
<1> DEFINE w == Taken(p)
<1>1. writer'[p] = Stash(w, m) /\ processor'[p] # "idle"
  BY TakenSlots DEF Become, SlotsInv, TypeOK
<1>2. /\ w \in Writer /\ Clean(w.stash) /\ w.pending = <<>>
      /\ \/ Clean(w.mailbox) /\ \E r \in requests : Awaited(p) = {r}
         \/ Awaited(p) = {} /\ Lone(w.mailbox)
  BY TakenSlots
<1> HIDE DEF w
<1>3. /\ Stash(w, m).mailbox = w.mailbox /\ Stash(w, m).writing = w.writing
      /\ Stash(w, m).stash = Append(w.stash, m) /\ Stash(w, m).pending = <<>>
  BY <1>2 DEF Stash, Writer
<1>4. Clean(Append(w.stash, m))
  BY <1>2, MailboxAppend DEF Writer
<1>5. Awaited(p)' = Awaited(p) /\ requests' = requests
  BY DEF Awaited
<1>6. w.writing
  BY DEF w
<1> QED BY <1>1, <1>2, <1>3, <1>4, <1>5, <1>6 DEF Slot, OneWrite

LEMMA OnWriteChunkSlots ==
  ASSUME SlotsInv, NEW p \in Processors, OnWriteChunk(p)
  PROVE  Slot(p)'
<1> DEFINE w == Taken(p)  payload == Message(p).payload
<1>1. /\ writer[p].running /\ writer[p].mailbox # <<>> /\ TypeOK
      /\ Message(p).kind = "WriteChunk" /\ Message(p).kind \notin Answers
  BY DEF OnWriteChunk, Received, Message, Answers, SlotsInv
<1>2. CASE w.writing /\ Become(p, Stash(w, Message(p))) /\ UNCHANGED <<processor, requests>>
  BY <1>1, <1>2, TakenSlots, StashSlots
<1>3. CASE ~w.writing
  <2>1. /\ w \in Writer /\ Clean(w.mailbox) /\ Clean(w.stash) /\ processor[p] # "idle"
        /\ w.pending # <<>> => w.timer /\ ~w.deferredFailure
        /\ Awaited(p) = {} /\ Message(p) \in Command
    BY <1>1, <1>3, TakenSlots
  <2>2. CASE \E ok \in BOOLEAN : Answer(p, w, ok) /\ UNCHANGED requests
    BY <1>1, <1>3, <2>1, <2>2, AnswerSlots
  <2>3. CASE ~w.deferredFailure /\ payload.kind = "Chunks" /\ Buffer(p, w, payload.docs)
    <3>1. payload.docs \in Chunks
      BY <1>1, <2>1, <2>3, MessageParts
    <3> QED BY <1>1, <1>3, <2>1, <2>3, <3>1, BufferSlots
  <2>4. CASE Become(p, NoWriter) /\ UNCHANGED <<processor, requests>>
    <3>1. writer'[p] = NoWriter /\ processor'[p] # "idle"
      BY <1>1, <2>1, <2>4 DEF Become, TypeOK
    <3>2. ~NoWriter.running /\ NoWriter.pending = <<>> /\ NoWriter.stash = <<>>
      BY DEF NoWriter, NewWriter
    <3> QED BY <3>1, <3>2, CleanEmpty DEF Slot
  <2> QED BY <1>3, <2>2, <2>3, <2>4 DEF OnWriteChunk
<1> QED BY <1>2, <1>3 DEF OnWriteChunk

LEMMA OnFlushTickSlots ==
  ASSUME SlotsInv, NEW p \in Processors, OnFlushTick(p)
  PROVE  Slot(p)'
<1> DEFINE w == [writer[p] EXCEPT !.timer = FALSE]
<1>1. /\ writer[p] \in Writer /\ Slot(p) /\ OneWrite(p) /\ processor[p] # "idle" /\ TypeOK
  BY DEF SlotsInv, TypeOK, Slot, OnFlushTick
<1>2. /\ w \in Writer /\ w.mailbox = writer[p].mailbox /\ w.stash = writer[p].stash
      /\ w.writing = writer[p].writing /\ w.pending = writer[p].pending
      /\ w.deferredFailure = writer[p].deferredFailure
  BY <1>1 DEF Writer
<1>3. \/ /\ w.writing \/ w.pending = <<>> \/ w.deferredFailure
         /\ Become(p, w) /\ UNCHANGED <<processor, requests>>
      \/ ~w.writing /\ Flush(p, w, FALSE)
  BY DEF OnFlushTick
<1> HIDE DEF w
<1>4. CASE /\ w.writing \/ w.pending = <<>> \/ w.deferredFailure
           /\ Become(p, w) /\ UNCHANGED <<processor, requests>>
  <2>1. w.pending = <<>>
    BY <1>1, <1>2, <1>4 DEF Slot
  <2>2. writer'[p] = w /\ processor'[p] # "idle"
    BY <1>1, <1>4 DEF Become, TypeOK
  <2>3. Awaited(p)' = Awaited(p) /\ requests' = requests
    BY <1>4 DEF Awaited
  <2> QED BY <1>1, <1>2, <2>1, <2>2, <2>3 DEF Slot, OneWrite
<1>5. CASE ~w.writing /\ Flush(p, w, FALSE)
  <2>1. Awaited(p) = {} /\ Clean(w.mailbox) /\ Clean(w.stash)
    BY <1>1, <1>2, <1>5 DEF Slot, OneWrite
  <2> QED BY <1>1, <1>2, <1>5, <2>1, FlushSlots
<1> QED BY <1>3, <1>4, <1>5

LEMMA OnDeleteResponseSlots ==
  ASSUME SlotsInv, NEW p \in Processors, OnDeleteResponse(p)
  PROVE  Slot(p)'
<1> DEFINE w == Taken(p)
<1>1. /\ writer[p].running /\ writer[p].mailbox # <<>> /\ TypeOK
      /\ Message(p).kind \in Answers
  BY DEF OnDeleteResponse, Received, Message, Answers, SlotsInv
<1>2. /\ w \in Writer /\ Clean(w.mailbox) /\ Clean(w.stash) /\ processor[p] # "idle"
      /\ w.pending = <<>> /\ w.writing /\ Awaited(p) = {}
  BY <1>1, TakenSlots
<1>3. CASE IndexBatch(p, w, Message(p).docs)
  BY <1>1, <1>2, <1>3, IndexBatchSlots
<1>4. CASE CompleteWrite(p, w, FALSE) /\ UNCHANGED requests
  <2>1. Awaited(p)' = {}
    BY <1>2, <1>4 DEF Awaited
  <2> QED BY <1>1, <1>2, <1>4, <2>1, CompleteWriteSlots
<1> QED BY <1>3, <1>4 DEF OnDeleteResponse

LEMMA OnIndexResponseSlots ==
  ASSUME SlotsInv, NEW p \in Processors, OnIndexResponse(p)
  PROVE  Slot(p)'
<1> DEFINE ok == Message(p).ok
           w == [Taken(p) EXCEPT !.wroteAny = @ \/ ok]
<1>1. /\ writer[p].running /\ writer[p].mailbox # <<>> /\ TypeOK
      /\ Message(p).kind = "IndexResponse" /\ Message(p).kind \in Answers
  BY DEF OnIndexResponse, Received, Message, Answers, SlotsInv
<1>2. /\ Taken(p) \in Writer /\ Clean(Taken(p).mailbox) /\ Clean(Taken(p).stash)
      /\ processor[p] # "idle" /\ Taken(p).pending = <<>> /\ Awaited(p) = {}
      /\ Message(p) \in Command
  BY <1>1, TakenSlots
<1>3. ok \in BOOLEAN
  BY <1>1, <1>2, MessageParts
<1>4. /\ w \in Writer /\ w.mailbox = Taken(p).mailbox /\ w.stash = Taken(p).stash
      /\ w.pending = <<>>
  BY <1>2 DEF Writer
<1>5. CompleteWrite(p, w, ok) /\ Awaited(p)' = {}
  BY <1>2 DEF OnIndexResponse, Awaited
<1> HIDE DEF w, ok
<1> QED BY <1>1, <1>2, <1>3, <1>4, <1>5, CompleteWriteSlots

LEMMA OnEndStreamSlots ==
  ASSUME SlotsInv, NEW p \in Processors, OnEndStream(p)
  PROVE  Slot(p)'
<1> DEFINE w == Taken(p)
<1>1. /\ writer[p].running /\ writer[p].mailbox # <<>> /\ TypeOK
      /\ Message(p).kind \notin Answers
      /\ EndStream \in Command /\ EndStream.kind \notin Answers
  BY Commands DEF OnEndStream, Received, Message, Answers, SlotsInv, EndStream
<1>2. CASE w.writing /\ Become(p, Stash(w, EndStream)) /\ UNCHANGED <<processor, requests>>
  BY <1>1, <1>2, StashSlots
<1>3. CASE \E ok \in BOOLEAN : Become(p, NoWriter) /\ Tell(p, ok)
  <2>1. processor'[p] # "idle"
    BY <1>1, <1>3, TakenSlots, TellSlots
  <2>2. writer'[p] = NoWriter
    BY <1>1, <1>3 DEF Become, TypeOK
  <2>3. ~NoWriter.running /\ NoWriter.pending = <<>> /\ NoWriter.stash = <<>>
    BY DEF NoWriter, NewWriter
  <2> QED BY <2>1, <2>2, <2>3, CleanEmpty DEF Slot
<1>4. CASE ~w.writing /\ Flush(p, Stash(w, EndStream), FALSE)
  <2>1. /\ w \in Writer /\ Clean(w.mailbox) /\ Clean(w.stash) /\ processor[p] # "idle"
        /\ Awaited(p) = {}
    BY <1>1, <1>4, TakenSlots
  <2>2. Stash(w, EndStream) \in Writer
    BY <1>1, <2>1, StashType
  <2> HIDE DEF w
  <2>3. /\ Stash(w, EndStream).mailbox = w.mailbox
        /\ Stash(w, EndStream).stash = Append(w.stash, EndStream)
    BY <2>1 DEF Stash, Writer
  <2>4. Clean(Append(w.stash, EndStream))
    BY <1>1, <2>1, MailboxAppend DEF Writer
  <2> QED BY <1>1, <1>4, <2>1, <2>2, <2>3, <2>4, FlushSlots
<1> QED BY <1>2, <1>3, <1>4 DEF OnEndStream

(* A message that is no answer, sent to a writer.                           *)
LEMMA EnqueueSlots ==
  ASSUME SlotsInv, NEW p \in Processors, processor[p] # "idle", processor'[p] # "idle",
         NEW m \in Command, m.kind \notin Answers, Enqueue(p, m), UNCHANGED requests
  PROVE  Slot(p)'
<1>1. writer[p] \in Writer /\ Slot(p) /\ Awaited(p)' = Awaited(p) /\ TypeOK
  BY DEF SlotsInv, TypeOK, Awaited
<1>2. CASE ~writer[p].running
  BY <1>1, <1>2 DEF Enqueue, Slot
<1>3. CASE writer[p].running
  <2> DEFINE w == [writer[p] EXCEPT !.mailbox = Append(@, m)]
  <2>1. writer'[p] = w
    BY <1>1, <1>3 DEF Enqueue, TypeOK
  <2>2. /\ w.mailbox = Append(writer[p].mailbox, m) /\ w.stash = writer[p].stash
        /\ w.writing = writer[p].writing /\ w.pending = writer[p].pending
        /\ w.timer = writer[p].timer /\ w.deferredFailure = writer[p].deferredFailure
    BY <1>1 DEF Writer
  <2>3. /\ Clean(writer[p].mailbox) => Clean(w.mailbox)
        /\ Lone(writer[p].mailbox) => Lone(w.mailbox)
    BY <1>1, <2>2, MailboxAppend DEF Writer
  <2> HIDE DEF w
  <2> QED BY <1>1, <1>3, <2>1, <2>2, <2>3 DEF Slot, OneWrite
<1> QED BY <1>2, <1>3

LEMMA ProcessorSlots ==
  ASSUME SlotsInv, NEW p \in Processors,
         \/ ProcessorStep(p) \/ AskWriter(p) \/ StreamCompletes(p)
         \/ StreamFails(p) \/ AskTimesOut(p) \/ Crash(p)
  PROVE  Slot(p)'
<1>1. TypeOK /\ Slot(p)
  BY DEF SlotsInv
<1>2. CASE OnStart(p)
  <2>1. writer'[p] = NewWriter /\ processor'[p] = "streaming" /\ Awaited(p)' = {}
    BY <1>1, <1>2 DEF OnStart, Move, Become, TypeOK, Slot, Awaited
  <2>2. /\ NewWriter.mailbox = <<>> /\ NewWriter.stash = <<>> /\ NewWriter.pending = <<>>
        /\ ~NewWriter.writing
    BY DEF NewWriter
  <2> QED BY <2>1, <2>2, CleanEmpty DEF Slot, OneWrite
<1>3. CASE OnStreamClosed(p) \/ OnStreamFailed(p) \/ Crash(p)
  <2>1. writer'[p] = NoWriter /\ processor'[p] \in Endings
    BY <1>1, <1>3 DEF OnStreamClosed, OnStreamFailed, Crash, Move, Become, TypeOK, Endings
  <2>2. ~NoWriter.running /\ NoWriter.pending = <<>> /\ NoWriter.stash = <<>>
    BY DEF NoWriter, NewWriter
  <2> QED BY <2>1, <2>2, CleanEmpty DEF Slot, Endings
<1>4. CASE StreamCompletes(p) \/ StreamFails(p) \/ AskTimesOut(p)
  <2>1. /\ processor'[p] # "idle" /\ writer' = writer /\ requests' = requests
        /\ Awaited(p)' = Awaited(p)
    BY <1>1, <1>4 DEF StreamCompletes, StreamFails, AskTimesOut, Move, TypeOK, Awaited
  <2> QED BY <1>1, <2>1 DEF Slot, OneWrite
<1>5. CASE OnStreamCompleted(p)
  <2>1. /\ processor[p] # "idle" /\ processor'[p] # "idle" /\ Enqueue(p, EndStream)
        /\ UNCHANGED requests /\ EndStream.kind \notin Answers
    BY <1>1, <1>5 DEF OnStreamCompleted, Move, TypeOK, EndStream, Answers
  <2> QED BY <2>1, Commands, EnqueueSlots
<1>6. CASE AskWriter(p)
  <2>1. processor[p] # "idle" /\ processor'[p] # "idle" /\ UNCHANGED requests
    BY <1>1, <1>6 DEF AskWriter, Move, TypeOK
  <2>2. /\ Documents(<<streamed[p] + 1>>) \in Payload /\ Documents(<<>>) \in Payload
        /\ \A kind \in {"Malformed", "Garbage"} : [kind |-> kind] \in Payload
    BY <1>1 DEF Documents, Payload, Chunks, TypeOK
  <2>3. PICK payload \in Payload : Enqueue(p, [kind |-> "WriteChunk", payload |-> payload])
    BY <1>6, <2>2 DEF AskWriter
  <2>4. [kind |-> "WriteChunk", payload |-> payload].kind \notin Answers
    BY DEF Answers
  <2> QED BY <2>1, <2>3, <2>4, Commands, EnqueueSlots
<1> QED BY <1>2, <1>3, <1>4, <1>5, <1>6 DEF ProcessorStep

(* An answer to an awaited request replaces it in its writer's slot; what   *)
(* is left of the request, if anything, is awaited no more.                 *)
LEMMA RespondSlots ==
  ASSUME SlotsInv, NEW r \in requests, r.awaited,
         NEW m \in Command, m.kind \in Answers, Enqueue(r.by, m), UNCHANGED processor,
         requests' \in {requests \ {r}, (requests \ {r}) \cup {[r EXCEPT !.awaited = FALSE]}}
  PROVE  Slot(r.by)'
<1> DEFINE p == r.by
<1>1. /\ p \in Processors /\ TypeOK /\ writer[p] \in Writer /\ Slot(p)
      /\ r \in Request
  BY DEF SlotsInv, TypeOK, Request
<1>2. processor'[p] # "idle"
  BY <1>1 DEF Slot
<1>3. CASE ~writer[p].running
  BY <1>1, <1>2, <1>3 DEF Enqueue, Slot
<1>4. CASE writer[p].running
  <2> DEFINE w == [writer[p] EXCEPT !.mailbox = Append(@, m)]
  <2>1. writer'[p] = w
    BY <1>1, <1>4 DEF Enqueue, TypeOK
  <2>2. r \in Awaited(p)
    BY DEF Awaited
  <2>3. writer[p].writing /\ Clean(writer[p].mailbox) /\ Awaited(p) = {r}
    BY <1>1, <1>4, <2>2 DEF Slot, OneWrite
  <2>4. Awaited(p)' = {}
    <3>1. ~[r EXCEPT !.awaited = FALSE].awaited
      BY <1>1 DEF Request
    <3>2. \A x \in requests : x.by = p /\ x.awaited => x = r
      BY <2>3 DEF Awaited
    <3> QED BY <3>1, <3>2 DEF Awaited
  <2>5. /\ w.mailbox = Append(writer[p].mailbox, m) /\ w.stash = writer[p].stash
        /\ w.writing = writer[p].writing /\ w.pending = writer[p].pending
    BY <1>1 DEF Writer
  <2>6. Lone(w.mailbox)
    BY <1>1, <2>3, <2>5, MailboxAppend DEF Writer
  <2>7. w.pending = <<>>
    BY <1>1, <2>3, <2>5 DEF Slot
  <2> HIDE DEF w
  <2> QED BY <1>1, <1>2, <2>1, <2>3, <2>4, <2>5, <2>6, <2>7 DEF Slot, OneWrite
<1> QED BY <1>3, <1>4

LEMMA SearchSlots ==
  ASSUME SlotsInv, NEW r \in requests, Land(r) \/ Expire(r)
  PROVE  Slot(r.by)'
<1>1. TypeOK /\ r \in Request /\ r.by \in Processors /\ r.docs \in Chunks /\ Slot(r.by)
  BY DEF SlotsInv, TypeOK, Request
<1>2. PICK m \in Command : m.kind \in Answers /\ Respond(r, m)
  <2>1. \A ok \in BOOLEAN :
          /\ [kind |-> "IndexResponse", ok |-> ok] \in Command
          /\ [kind |-> "IndexResponse", ok |-> ok].kind \in Answers
          /\ [kind |-> "DeleteResponse", ok |-> ok, docs |-> r.docs] \in Command
          /\ [kind |-> "DeleteResponse", ok |-> ok, docs |-> r.docs].kind \in Answers
    BY <1>1, Commands DEF Answers
  <2>2. CASE LandDelete(r)
    BY <2>1, <2>2 DEF LandDelete
  <2>3. CASE LandBulk(r)
    BY <2>1, <2>3 DEF LandBulk
  <2>4. CASE Expire(r)
    BY <2>1, <2>4 DEF Expire
  <2> QED BY <2>2, <2>3, <2>4 DEF Land
<1>3. /\ UNCHANGED processor
      /\ requests' \in {requests \ {r}, (requests \ {r}) \cup {[r EXCEPT !.awaited = FALSE]}}
      /\ ~r.awaited => requests' = requests \ {r}
  BY DEF Land, LandDelete, LandBulk, Expire
<1>4. CASE r.awaited
  BY <1>2, <1>3, <1>4, RespondSlots DEF Respond
<1>5. CASE ~r.awaited
  <2>1. writer' = writer /\ Awaited(r.by)' = Awaited(r.by)
    BY <1>2, <1>3, <1>5 DEF Respond, Awaited
  <2>2. processor[r.by] # "idle"
    BY <1>1 DEF Slot
  <2>3. \A x \in requests : Awaited(r.by) = {x} => x \in requests'
    BY <1>3, <1>5 DEF Awaited
  <2> QED BY <1>1, <1>3, <2>1, <2>2, <2>3 DEF Slot, OneWrite
<1> QED BY <1>4, <1>5

LEMMA InitSlots == Init => SlotsInv
<1> SUFFICES ASSUME Init PROVE SlotsInv
  OBVIOUS
<1>1. ~NoWriter.running /\ NoWriter.pending = <<>> /\ NoWriter.stash = <<>>
  BY DEF NoWriter, NewWriter
<1> QED BY <1>1, InitType, CleanEmpty DEF Init, SlotsInv, Slot

(* A step of one processor's writer or stream leaves the others alone.      *)
Apart(p) ==
  \A q \in Processors \ {p} :
    /\ writer'[q] = writer[q]
    /\ processor'[q] = processor[q]
    /\ \A r : r.by = q => (r \in requests' <=> r \in requests)

LEMMA BecomeApart ==
  ASSUME TypeOK, NEW p \in Processors, NEW w, Become(p, w), UNCHANGED requests,
         UNCHANGED processor \/ \E ok \in BOOLEAN : Tell(p, ok)
  PROVE  Apart(p)
  BY DEF Become, Tell, TypeOK, Apart

LEMMA CompleteWriteApart ==
  ASSUME TypeOK, NEW p \in Processors, NEW w, NEW ok \in BOOLEAN,
         CompleteWrite(p, w, ok), UNCHANGED requests
  PROVE  Apart(p)
<1>1. UNCHANGED processor \/ Tell(p, ok)
  BY DEF CompleteWrite
<1> QED BY <1>1, BecomeApart DEF CompleteWrite

LEMMA SendApart ==
  ASSUME TypeOK, NEW p \in Processors, NEW w, NEW op, NEW docs,
         Become(p, w), Send(p, op, docs), UNCHANGED processor
  PROVE  Apart(p)
  BY DEF Become, Send, TypeOK, Apart

LEMMA IndexBatchApart ==
  ASSUME TypeOK, NEW p \in Processors, NEW w, NEW docs, IndexBatch(p, w, docs)
  PROVE  Apart(p)
  BY SendApart, CompleteWriteApart DEF IndexBatch, IOException

LEMMA FlushApart ==
  ASSUME TypeOK, NEW p \in Processors, NEW w, NEW ack, Flush(p, w, ack)
  PROVE  Apart(p)
  BY SendApart, CompleteWriteApart, IndexBatchApart DEF Flush, IOException

LEMMA BufferApart ==
  ASSUME TypeOK, NEW p \in Processors, NEW w, NEW docs, Buffer(p, w, docs)
  PROVE  Apart(p)
  BY BecomeApart, FlushApart DEF Buffer, Answer

LEMMA WriterApart ==
  ASSUME TypeOK, NEW p \in Processors, WriterStep(p) \/ OnFlushTick(p)
  PROVE  Apart(p)
<1>1. CASE OnWriteChunk(p)
  BY <1>1, BecomeApart, BufferApart DEF OnWriteChunk, Answer
<1>2. CASE OnEndStream(p)
  BY <1>2, BecomeApart, FlushApart DEF OnEndStream
<1>3. CASE OnDeleteResponse(p)
  BY <1>3, IndexBatchApart, CompleteWriteApart DEF OnDeleteResponse
<1>4. CASE OnIndexResponse(p)
  <2>1. Message(p).ok \in BOOLEAN
    BY <1>4, TakenType, MessageParts
    DEF OnIndexResponse, Received, Message, TypeOK, WritersOK
  <2> QED BY <1>4, <2>1, CompleteWriteApart DEF OnIndexResponse
<1>5. CASE OnFlushTick(p)
  BY <1>5, BecomeApart, FlushApart DEF OnFlushTick
<1> QED BY <1>1, <1>2, <1>3, <1>4, <1>5 DEF WriterStep

LEMMA ProcessorApart ==
  ASSUME TypeOK, NEW p \in Processors,
         \/ ProcessorStep(p) \/ AskWriter(p) \/ StreamCompletes(p)
         \/ StreamFails(p) \/ AskTimesOut(p) \/ Crash(p)
  PROVE  Apart(p)
<1> SUFFICES ASSUME NEW q \in Processors \ {p}
             PROVE  /\ writer'[q] = writer[q]
                    /\ processor'[q] = processor[q] /\ requests' = requests
  BY DEF Apart
<1>1. processor'[q] = processor[q] /\ requests' = requests
  BY DEF ProcessorStep, OnStart, OnStreamCompleted, OnStreamClosed, OnStreamFailed,
         AskWriter, StreamCompletes, StreamFails, AskTimesOut, Crash, Move, TypeOK
<1>2. writer'[q] = writer[q]
  BY DEF ProcessorStep, OnStart, OnStreamCompleted, OnStreamClosed, OnStreamFailed,
         AskWriter, StreamCompletes, StreamFails, AskTimesOut, Crash, Become, Enqueue, TypeOK
<1> QED BY <1>1, <1>2

LEMMA NextSlots == SlotsInv /\ [Next]_vars => SlotsInv'
<1> SUFFICES ASSUME SlotsInv, [Next]_vars PROVE SlotsInv'
  OBVIOUS
<1>1. TypeOK /\ TypeOK'
  BY NextType DEF SlotsInv
<1>2. ASSUME NEW p \in Processors,
             \/ WriterStep(p) \/ OnFlushTick(p) \/ ProcessorStep(p)
             \/ AskWriter(p) \/ StreamCompletes(p) \/ StreamFails(p)
             \/ AskTimesOut(p) \/ Crash(p)
      PROVE  SlotsInv'
  <2>1. Slot(p)'
    BY <1>2, OnWriteChunkSlots, OnFlushTickSlots, OnDeleteResponseSlots,
       OnIndexResponseSlots, OnEndStreamSlots, ProcessorSlots DEF WriterStep
  <2>2. Apart(p)
    BY <1>1, <1>2, WriterApart, ProcessorApart
  <2> QED BY <1>1, <2>1, <2>2, SlotFrame DEF Apart
<1>3. ASSUME NEW r \in requests, Land(r) \/ Expire(r)
      PROVE  SlotsInv'
  <2>1. r.by \in Processors /\ r \in Request
    BY <1>1 DEF TypeOK, Request
  <2>2. Slot(r.by)'
    BY <1>3, SearchSlots
  <2>3. ASSUME NEW q \in Processors \ {r.by}
        PROVE  /\ writer'[q] = writer[q]
               /\ processor'[q] = processor[q]
               /\ \A x : x.by = q => (x \in requests' <=> x \in requests)
    <3>1. [r EXCEPT !.awaited = FALSE].by = r.by
      BY <2>1 DEF Request
    <3>2. \A m : Respond(r, m) => writer'[q] = writer[q]
      BY <1>1, <2>1 DEF Respond, Enqueue, TypeOK
    <3>3. writer'[q] = writer[q] /\ processor' = processor
      BY <1>3, <3>2 DEF Land, LandDelete, LandBulk, Expire
    <3>4. requests' \in {requests \ {r}, (requests \ {r}) \cup {[r EXCEPT !.awaited = FALSE]}}
      BY <1>3 DEF Land, LandDelete, LandBulk, Expire
    <3> QED BY <3>1, <3>3, <3>4
  <2> QED BY <1>1, <2>1, <2>2, <2>3, SlotFrame
<1>4. CASE UNCHANGED vars
  <2>1. \A p \in Processors : Awaited(p)' = Awaited(p)
    BY <1>4 DEF vars, Awaited
  <2> QED BY <1>1, <1>4, <2>1 DEF vars, SlotsInv, Slot, OneWrite
<1> QED BY <1>2, <1>3, <1>4 DEF Next

LEMMA SlotsHold == Spec => []SlotsInv
  BY InitSlots, NextSlots, PTL DEF Spec

(* A writer has one write at a time: the slot is taken and released in step *)
(* with OpenSearch, whatever fails, expires or crashes.                     *)
THEOREM Slots == Spec => []OneWriteAtATime
<1>1. SlotsInv => OneWriteAtATime
  BY DEF SlotsInv, Slot, OneWriteAtATime
<1> QED BY <1>1, SlotsHold, PTL

(* A buffered chunk has its timer, so that it never waits for the next.     *)
THEOREM Timed == Spec => []BufferedIsTimed
<1>1. SlotsInv => BufferedIsTimed
  BY DEF SlotsInv, Slot, BufferedIsTimed
<1> QED BY <1>1, SlotsHold, PTL
=============================================================================
