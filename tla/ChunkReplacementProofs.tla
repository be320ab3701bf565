----------------------- MODULE ChunkReplacementProofs -----------------------
(***************************************************************************)
(* The chunk stream implements the replacement of one version of a content *)
(* by the next (Refinement), and a content that is confirmed or announced  *)
(* has every chunk of its stream inserted (Done): for any attempts,        *)
(* overlapping or not, any batch size, streams and faults.                 *)
(*                                                                         *)
(* The chunks of a stream are at any moment cut in four consecutive runs:  *)
(* those inserted, those in flight, those buffered, and the one of the     *)
(* message the writer has still to take.  A writer whose runs are broken   *)
(* is told of a failure, or knows of one, and writes nothing more.         *)
(***************************************************************************)
EXTENDS ChunkStreamProofs

-----------------------------------------------------------------------------
(* The invariant *)

(* The chunks a + 1 to b of a stream, in order.                             *)
Run(a, b) == [i \in 1 .. (b - a) |-> a + i]

(* Messages without an ask of the processor; with this one only.            *)
NoCall(messages) == \A i \in DOMAIN messages : messages[i].kind \in Answers
OneCall(messages, m) ==
  \E i \in DOMAIN messages :
    /\ messages[i] = m
    /\ \A j \in DOMAIN messages : messages[j].kind \notin Answers <=> j = i

(* The ask a writer has still to take: none, or one, set aside or not.      *)
Uncalled(w) == NoCall(w.mailbox) /\ w.stash = <<>>
Called(w, m) ==
  \/ OneCall(w.mailbox, m) /\ w.stash = <<>>
  \/ NoCall(w.mailbox) /\ w.stash = <<m>>

(* The phases of a processor that asked; one that gave up has failed.       *)
Asking(m) == IF m.kind = "WriteChunk" THEN {"asking", "failed"} ELSE {"closing", "failed"}

Carried(m) ==
  IF m.kind = "WriteChunk" /\ m.payload.kind = "Chunks" THEN m.payload.docs ELSE <<>>

(* A processor has one ask open at a time: it is in the writer's mailbox or *)
(* stash, or waits for the write in flight.  It carries docs.               *)
Calls(w, phase, docs) ==
  \/ /\ Uncalled(w) /\ docs = <<>>
     /\ w.pendingAck => w.writing /\ phase \in {"asking", "failed"}
  \/ \E m \in Command :
       /\ m.kind \notin Answers /\ Called(w, m) /\ docs = Carried(m)
       /\ ~w.pendingAck /\ phase \in Asking(m)

Own(p) == { r \in requests : r.by = p }

Says(messages, m) == \E i \in DOMAIN messages : messages[i] = m
Fails(messages) ==
  \E i \in DOMAIN messages : messages[i].kind \in Answers /\ ~messages[i].ok

(* What the writer is writing and is not inserted yet.                      *)
Flight(p, w, docs) ==
  \/ ~w.writing /\ docs = <<>>
  \/ w.writing /\ \E r \in Own(p) : r.docs = docs
  \/ /\ w.writing /\ Own(p) = {}
     /\ \/ Says(w.mailbox, [kind |-> "DeleteResponse", ok |-> TRUE, docs |-> docs])
        \/ Says(w.mailbox, [kind |-> "IndexResponse", ok |-> TRUE]) /\ docs = <<>>

Indexed(p, i) == <<p, i>> \in index

(* The four runs; nothing is indexed beyond the first, and the previous     *)
(* version is there only until the first batch has deleted it.              *)
Chain(p, w, phase, a, b, c) ==
  /\ a <= b /\ b <= c /\ c <= streamed[p]
  /\ inserted[p] = Run(0, a)
  /\ Flight(p, w, Run(a, b))
  /\ w.pending = Run(b, c)
  /\ Calls(w, phase, Run(c, streamed[p]))
  /\ ~w.deferredFailure
  /\ \A r \in Own(p) : r.awaited
  /\ \A i \in Nat : Indexed(p, i) => i <= a
  /\ w.firstBatch => ~w.writing /\ a = 0
  /\ ~w.firstBatch => Previous \notin index \/ \E r \in Own(p) : r.op = "delete"

(* A failure is on its way to the writer; the writer has answered it, or    *)
(* keeps it for the next ask.                                               *)
Doomed(w, phase) ==
  /\ w.writing /\ Fails(w.mailbox)
  /\ \E docs \in Chunks : Calls(w, phase, docs)

Spent(w, phase) ==
  /\ ~w.writing /\ w.pending = <<>>
  /\ \E docs \in Chunks : Calls(w, phase, docs)
  /\ w.deferredFailure \/ (Uncalled(w) /\ phase = "failed")

Fate(p, w, phase) ==
  \/ \E a, b, c \in Nat : Chain(p, w, phase, a, b, c)
  \/ Doomed(w, phase)
  \/ Spent(w, phase)

(* What is asked of OpenSearch, by a writer that may be gone: one request,  *)
(* to delete before anything is inserted or to insert what comes next.      *)
Requested(p) ==
  /\ \A r, s \in Own(p) : r = s
  /\ \A r \in Own(p) :
       \/ r.op = "delete" /\ inserted[p] = <<>> /\ streamed[p] > 0
       \/ /\ r.op = "bulk" /\ Previous \notin index
          /\ \E a, b \in Nat :
               /\ a <= b /\ b <= streamed[p]
               /\ inserted[p] = Run(0, a) /\ r.docs = Run(a, b)
               /\ \A i \in Nat : Indexed(p, i) => i <= a

Whole(p) ==
  /\ processor[p] = "idle" =>
       /\ streamed[p] = 0 /\ inserted[p] = <<>> /\ p \notin announced
       /\ \A i \in Nat : ~Indexed(p, i)
  /\ processor[p] \in {"closed", "Complete"} \/ p \in announced =>
       /\ ~writer[p].running /\ inserted[p] = Run(0, streamed[p]) /\ Own(p) = {}
       /\ processor[p] \in {"closed", "failed"} \cup Endings
  /\ Requested(p)
  /\ writer[p].running => Fate(p, writer[p], processor[p])

ReplacedInv == SlotsInv /\ \A p \in Processors : Whole(p)

-----------------------------------------------------------------------------
(* Runs of chunks *)

LEMMA RunParts ==
  ASSUME NEW a \in Nat, NEW b \in Nat, a <= b
  PROVE  /\ Run(a, b) \in Chunks /\ Len(Run(a, b)) = b - a
         /\ DOMAIN Run(a, b) = 1 .. (b - a)
         /\ \A i \in 1 .. (b - a) : Run(a, b)[i] = a + i
         /\ Run(a, b) = <<>> <=> a = b
<1>1. /\ DOMAIN Run(a, b) = 1 .. (b - a)
      /\ \A i \in 1 .. (b - a) : Run(a, b)[i] = a + i
  BY DEF Run
<1>2. Run(a, b) \in [1 .. (b - a) -> Nat]
  BY DEF Run
<1>3. Run(a, b) \in Seq(Nat) /\ Len(Run(a, b)) = b - a
  BY <1>1, <1>2, IsASeq, LenProperties
<1>4. Run(a, b) = <<>> <=> Len(Run(a, b)) = 0
  BY <1>3, EmptySeq
<1> QED BY <1>1, <1>3, <1>4 DEF Chunks

LEMMA RunConcat ==
  ASSUME NEW a \in Nat, NEW b \in Nat, NEW c \in Nat, a <= b, b <= c
  PROVE  Run(a, b) \o Run(b, c) = Run(a, c)
<1>1. /\ Run(a, b) \in Seq(Nat) /\ Len(Run(a, b)) = b - a
      /\ \A i \in 1 .. (b - a) : Run(a, b)[i] = a + i
  BY RunParts DEF Chunks
<1>2. /\ Run(b, c) \in Seq(Nat) /\ Len(Run(b, c)) = c - b
      /\ \A i \in 1 .. (c - b) : Run(b, c)[i] = b + i
  BY RunParts DEF Chunks
<1>3. /\ Run(a, c) \in Seq(Nat) /\ Len(Run(a, c)) = c - a
      /\ \A i \in 1 .. (c - a) : Run(a, c)[i] = a + i
  <2>1. a <= c
    OBVIOUS
  <2> QED BY <2>1, RunParts DEF Chunks
<1> DEFINE s == Run(a, b)  t == Run(b, c)
<1>4. /\ s \o t \in Seq(Nat) /\ Len(s \o t) = Len(s) + Len(t)
      /\ \A i \in 1 .. (Len(s) + Len(t)) :
           (s \o t)[i] = IF i <= Len(s) THEN s[i] ELSE t[i - Len(s)]
  BY <1>1, <1>2, ConcatProperties
<1>5. ASSUME NEW i \in 1 .. (c - a)
      PROVE  (s \o t)[i] = a + i
  <2>1. i \in 1 .. (Len(s) + Len(t))
    BY <1>1, <1>2
  <2>2. CASE i <= b - a
    BY <1>1, <1>4, <2>1, <2>2
  <2>3. CASE ~(i <= b - a)
    <3>1. i - (b - a) \in 1 .. (c - b)
      BY <2>3
    <3>2. (s \o t)[i] = t[i - (b - a)]
      BY <1>1, <1>4, <2>1, <2>3
    <3>3. t[i - (b - a)] = b + (i - (b - a))
      BY <1>2, <3>1
    <3> QED BY <3>2, <3>3
  <2> QED BY <2>2, <2>3
<1>6. Len(s \o t) = Len(Run(a, c))
  BY <1>1, <1>2, <1>3, <1>4
<1>7. \A i \in 1 .. Len(s \o t) : (s \o t)[i] = Run(a, c)[i]
  BY <1>3, <1>5, <1>6
<1> QED BY <1>3, <1>4, <1>6, <1>7, SeqEqual

LEMMA RunOne ==
  ASSUME NEW n \in Nat
  PROVE  Run(n, n + 1) = <<n + 1>> /\ Run(n, n) = <<>>
<1>1. n + 1 \in Nat /\ n <= n + 1 /\ (n + 1) - n = 1
  OBVIOUS
<1>2. Len(Run(n, n + 1)) = 1 /\ Run(n, n + 1) \in Seq(Nat)
  BY <1>1, RunParts DEF Chunks
<1>3. Run(n, n + 1)[1] = n + 1
  BY <1>1 DEF Run
<1>4. Run(n, n + 1) = <<n + 1>>
  <2>1. /\ <<n + 1>> \in Seq(Nat) /\ Len(<<n + 1>>) = 1 /\ <<n + 1>>[1] = n + 1
    BY <1>1
  <2> QED BY <1>2, <1>3, <2>1, SeqEqual
<1>5. Run(n, n) = <<>>
  BY RunParts
<1> QED BY <1>4, <1>5

LEMMA RunZero ==
  ASSUME NEW n \in Nat
  PROVE  Run(0, n) = [i \in 1 .. n |-> i]
<1>1. n - 0 = n /\ \A i \in 1 .. n : 0 + i = i
  OBVIOUS
<1> QED BY <1>1 DEF Run

LEMMA RunSet ==
  ASSUME NEW a \in Nat, NEW b \in Nat, a <= b
  PROVE  ToSet(Run(a, b)) = (a + 1) .. b
<1>1. /\ DOMAIN Run(a, b) = 1 .. (b - a)
      /\ \A i \in 1 .. (b - a) : Run(a, b)[i] = a + i
  BY RunParts
<1>2. ASSUME NEW j \in (a + 1) .. b
      PROVE  j - a \in DOMAIN Run(a, b) /\ Run(a, b)[j - a] = j
  BY <1>1
<1> QED BY <1>1, <1>2 DEF ToSet

-----------------------------------------------------------------------------
(* Calls and answers in a mailbox, as messages come and go *)

LEMMA CallTail ==
  ASSUME NEW m \in Seq(Command), m # <<>>
  PROVE  /\ NoCall(m) => NoCall(Tail(m)) /\ Head(m).kind \in Answers
         /\ \A x : OneCall(m, x) /\ Head(m).kind \in Answers => OneCall(Tail(m), x)
         /\ \A x : OneCall(m, x) /\ Head(m).kind \notin Answers =>
              NoCall(Tail(m)) /\ Head(m) = x
<1>1. /\ Len(m) \in Nat /\ Len(m) >= 1 /\ DOMAIN m = 1 .. Len(m)
      /\ Head(m) = m[1] /\ 1 \in DOMAIN m
      /\ DOMAIN Tail(m) = 1 .. (Len(m) - 1)
      /\ \A i \in 1 .. (Len(m) - 1) : Tail(m)[i] = m[i + 1]
  BY EmptySeq, LenProperties, HeadTailProperties
<1> DEFINE t == Tail(m)  h == Head(m)
<1> HIDE DEF t, h
<1>2. NoCall(m) => NoCall(t) /\ h.kind \in Answers
  BY <1>1 DEF NoCall, t, h
<1>3. ASSUME NEW x, OneCall(m, x)
      PROVE  /\ h.kind \in Answers => OneCall(t, x)
             /\ h.kind \notin Answers => NoCall(t) /\ h = x
  <2>1. PICK i \in DOMAIN m :
          m[i] = x /\ \A j \in DOMAIN m : m[j].kind \notin Answers <=> j = i
    BY <1>3 DEF OneCall
  <2>2. ASSUME h.kind \in Answers PROVE OneCall(t, x)
    <3>1. i # 1 /\ i - 1 \in DOMAIN t /\ t[i - 1] = x
      BY <1>1, <2>1, <2>2 DEF h, t
    <3>2. \A j \in DOMAIN t : t[j].kind \notin Answers <=> j = i - 1
      BY <1>1, <2>1 DEF t
    <3> QED BY <3>1, <3>2 DEF OneCall
  <2>3. ASSUME h.kind \notin Answers PROVE NoCall(t) /\ h = x
    <3>1. i = 1 /\ h = x
      BY <1>1, <2>1, <2>3 DEF h
    <3> QED BY <1>1, <2>1, <3>1 DEF NoCall, t
  <2> QED BY <2>2, <2>3
<1> QED BY <1>2, <1>3 DEF t, h

LEMMA CallAppend ==
  ASSUME NEW m \in Seq(Command), NEW x \in Command
  PROVE  /\ NoCall(m) /\ x.kind \in Answers => NoCall(Append(m, x))
         /\ NoCall(m) /\ x.kind \notin Answers => OneCall(Append(m, x), x)
         /\ \A y : OneCall(m, y) /\ x.kind \in Answers => OneCall(Append(m, x), y)
<1> DEFINE s == Append(m, x)
<1>1. /\ Len(m) \in Nat /\ DOMAIN m = 1 .. Len(m)
      /\ DOMAIN s = 1 .. (Len(m) + 1)
      /\ \A i \in 1 .. Len(m) : s[i] = m[i]
      /\ s[Len(m) + 1] = x
  BY LenProperties, AppendProperties
<1> HIDE DEF s
<1>2. NoCall(m) /\ x.kind \in Answers => NoCall(s)
  BY <1>1 DEF NoCall
<1>3. ASSUME NoCall(m), x.kind \notin Answers PROVE OneCall(s, x)
  <2>1. \A j \in DOMAIN s : s[j].kind \notin Answers <=> j = Len(m) + 1
    BY <1>1, <1>3 DEF NoCall
  <2> QED BY <1>1, <2>1 DEF OneCall
<1>4. ASSUME NEW y, OneCall(m, y), x.kind \in Answers PROVE OneCall(s, y)
  <2>1. PICK i \in DOMAIN m :
          m[i] = y /\ \A j \in DOMAIN m : m[j].kind \notin Answers <=> j = i
    BY <1>4 DEF OneCall
  <2>2. i \in DOMAIN s /\ s[i] = y
    BY <1>1, <2>1
  <2>3. \A j \in DOMAIN s : s[j].kind \notin Answers <=> j = i
    BY <1>1, <1>4, <2>1
  <2> QED BY <2>2, <2>3 DEF OneCall
<1> QED BY <1>2, <1>3, <1>4 DEF s

LEMMA CallFirst ==
  ASSUME NEW m \in Seq(Command), NEW x \in Command, NoCall(m), x.kind \notin Answers
  PROVE  OneCall(<<x>> \o m, x)
<1> DEFINE s == <<x>> \o m
<1>1. <<x>> \in Seq(Command) /\ Len(<<x>>) = 1 /\ <<x>>[1] = x
  OBVIOUS
<1>2. /\ Len(m) \in Nat /\ DOMAIN m = 1 .. Len(m)
      /\ DOMAIN s = 1 .. (1 + Len(m)) /\ s[1] = x
      /\ \A i \in 2 .. (1 + Len(m)) : s[i] = m[i - 1]
  <2> HIDE DEF Command
  <2>1. Len(m) \in Nat /\ DOMAIN m = 1 .. Len(m)
    BY LenProperties
  <2>2. /\ s \in Seq(Command) /\ Len(s) = 1 + Len(m)
        /\ \A i \in 1 .. (1 + Len(m)) : s[i] = IF i <= 1 THEN <<x>>[i] ELSE m[i - 1]
    BY <1>1, <2>1, ConcatProperties
  <2>3. DOMAIN s = 1 .. (1 + Len(m))
    BY <2>2, LenProperties
  <2> HIDE DEF s
  <2>4. s[1] = x
    BY <1>1, <2>1, <2>2
  <2>5. \A i \in 2 .. (1 + Len(m)) : s[i] = m[i - 1]
    BY <2>1, <2>2
  <2> QED BY <2>1, <2>3, <2>4, <2>5
<1> HIDE DEF s
<1>3. \A j \in DOMAIN s : s[j].kind \notin Answers <=> j = 1
  <2> SUFFICES ASSUME NEW j \in DOMAIN s, j # 1 PROVE s[j].kind \in Answers
    BY <1>2
  <2>1. j - 1 \in DOMAIN m /\ s[j] = m[j - 1]
    BY <1>2
  <2> QED BY <2>1 DEF NoCall
<1>4. 1 \in DOMAIN s
  BY <1>2
<1> QED BY <1>2, <1>3, <1>4 DEF OneCall, s

LEMMA SaysTail ==
  ASSUME NEW m \in Seq(Command), m # <<>>
  PROVE  /\ \A x : Says(m, x) /\ x # Head(m) => Says(Tail(m), x)
         /\ Fails(m) /\ Head(m).kind \notin Answers => Fails(Tail(m))
         /\ Lone(m) /\ Head(m).kind \in Answers =>
              /\ \A x : x.kind \in Answers /\ Says(m, x) => x = Head(m)
              /\ Fails(m) => ~Head(m).ok
<1>1. /\ Len(m) \in Nat /\ Len(m) >= 1 /\ DOMAIN m = 1 .. Len(m)
      /\ Head(m) = m[1] /\ 1 \in DOMAIN m
      /\ DOMAIN Tail(m) = 1 .. (Len(m) - 1)
      /\ \A i \in 1 .. (Len(m) - 1) : Tail(m)[i] = m[i + 1]
  BY EmptySeq, LenProperties, HeadTailProperties
<1> DEFINE t == Tail(m)  h == Head(m)
<1> HIDE DEF t, h
<1>2. \A i \in DOMAIN m : m[i] = h \/ (i - 1 \in DOMAIN t /\ t[i - 1] = m[i])
  BY <1>1 DEF t, h
<1>3. \A x : Says(m, x) /\ x # h => Says(t, x)
  BY <1>2 DEF Says
<1>4. Fails(m) /\ h.kind \notin Answers => Fails(t)
  BY <1>2 DEF Fails
<1>5. ASSUME Lone(m), h.kind \in Answers
      PROVE  \A i \in DOMAIN m : m[i].kind \in Answers => m[i] = h
  <2>1. PICK i \in DOMAIN m : \A j \in DOMAIN m : m[j].kind \in Answers <=> j = i
    BY <1>5 DEF Lone
  <2>2. i = 1
    BY <1>1, <1>5, <2>1 DEF h
  <2> QED BY <1>1, <2>1, <2>2 DEF h
<1>6. Lone(m) /\ h.kind \in Answers =>
        /\ \A x : x.kind \in Answers /\ Says(m, x) => x = h
        /\ Fails(m) => ~h.ok
  BY <1>5 DEF Says, Fails
<1> QED BY <1>3, <1>4, <1>6 DEF t, h

LEMMA SaysAppend ==
  ASSUME NEW m \in Seq(Command), NEW y \in Command
  PROVE  /\ \A x : Says(m, x) => Says(Append(m, y), x)
         /\ Says(Append(m, y), y)
         /\ Fails(m) => Fails(Append(m, y))
         /\ y.kind \in Answers /\ ~y.ok => Fails(Append(m, y))
<1> DEFINE s == Append(m, y)
<1>1. /\ Len(m) \in Nat /\ DOMAIN m = 1 .. Len(m)
      /\ DOMAIN s = 1 .. (Len(m) + 1)
      /\ \A i \in 1 .. Len(m) : s[i] = m[i]
      /\ s[Len(m) + 1] = y
  BY LenProperties, AppendProperties
<1> HIDE DEF s
<1>2. /\ \A i \in DOMAIN m : i \in DOMAIN s /\ s[i] = m[i]
      /\ Len(m) + 1 \in DOMAIN s
  BY <1>1
<1>3. /\ \A x : Says(m, x) => Says(s, x)
      /\ Says(s, y)
  BY <1>1, <1>2 DEF Says
<1>4. /\ Fails(m) => Fails(s)
      /\ y.kind \in Answers /\ ~y.ok => Fails(s)
  BY <1>1, <1>2 DEF Fails
<1> QED BY <1>3, <1>4 DEF s

LEMMA CleanSays ==
  ASSUME NEW m \in Seq(Command), Clean(m)
  PROVE  ~Fails(m) /\ \A x : Says(m, x) => x.kind \notin Answers
  BY DEF Clean, Fails, Says

LEMMA NoCallEmpty == NoCall(<<>>)
  BY DEF NoCall

-----------------------------------------------------------------------------
(* Calls of a writer *)

LEMMA CallsSame ==
  ASSUME NEW w, NEW v, NEW phase, NEW docs, Calls(w, phase, docs),
         v.mailbox = w.mailbox, v.stash = w.stash, v.pendingAck = w.pendingAck,
         w.pendingAck => v.writing
  PROVE  Calls(v, phase, docs)
  BY DEF Calls, Called, Uncalled

(* A processor that gave up may have its ask left open.                     *)
LEMMA CallsFailed ==
  ASSUME NEW w, NEW phase, NEW docs, Calls(w, phase, docs)
  PROVE  Calls(w, "failed", docs)
  BY DEF Calls, Asking

LEMMA CallsNone ==
  ASSUME NEW w, NEW phase, NEW docs, Calls(w, phase, docs),
         phase \notin {"asking", "closing", "failed"}
  PROVE  Uncalled(w) /\ docs = <<>> /\ ~w.pendingAck
  BY DEF Calls, Asking

(* A writer that waits to tell the outcome of its write has no other ask.   *)
LEMMA CallsAck ==
  ASSUME NEW w, NEW phase, NEW docs, Calls(w, phase, docs), w.pendingAck
  PROVE  Uncalled(w) /\ docs = <<>> /\ phase \in {"asking", "failed"}
  BY DEF Calls

(* Taking an ask leaves none; taking an answer leaves the ask.              *)
LEMMA CallsTaken ==
  ASSUME NEW w \in Writer, w.mailbox # <<>>, NEW phase, NEW docs, Calls(w, phase, docs),
         NEW v, v = [w EXCEPT !.mailbox = Tail(@)]
  PROVE  /\ Head(w.mailbox).kind \notin Answers =>
              /\ Uncalled(v) /\ ~w.pendingAck
              /\ docs = Carried(Head(w.mailbox)) /\ phase \in Asking(Head(w.mailbox))
         /\ Head(w.mailbox).kind \in Answers => Calls(v, phase, docs)
<1>1. /\ w.mailbox \in Seq(Command) /\ v.mailbox = Tail(w.mailbox) /\ v.stash = w.stash
      /\ v.pendingAck = w.pendingAck /\ v.writing = w.writing
  BY DEF Writer
<1> DEFINE h == Head(w.mailbox)
<1> HIDE DEF h
<1>2. /\ NoCall(w.mailbox) => NoCall(v.mailbox) /\ h.kind \in Answers
      /\ \A x : OneCall(w.mailbox, x) /\ h.kind \in Answers => OneCall(v.mailbox, x)
      /\ \A x : OneCall(w.mailbox, x) /\ h.kind \notin Answers => NoCall(v.mailbox) /\ h = x
  BY <1>1, CallTail DEF h
<1>3. CASE /\ Uncalled(w) /\ docs = <<>>
           /\ w.pendingAck => w.writing /\ phase \in {"asking", "failed"}
  BY <1>1, <1>2, <1>3 DEF Uncalled, Calls, h
<1>4. ASSUME NEW m \in Command, m.kind \notin Answers, Called(w, m), docs = Carried(m),
             ~w.pendingAck, phase \in Asking(m)
      PROVE  /\ h.kind \notin Answers =>
                  /\ Uncalled(v) /\ ~w.pendingAck
                  /\ docs = Carried(h) /\ phase \in Asking(h)
             /\ h.kind \in Answers => Calls(v, phase, docs)
  <2>1. CASE OneCall(w.mailbox, m) /\ w.stash = <<>>
    <3>1. h.kind \notin Answers => Uncalled(v) /\ h = m
      BY <1>1, <1>2, <2>1 DEF Uncalled
    <3>2. h.kind \in Answers => Called(v, m)
      BY <1>1, <1>2, <2>1 DEF Called
    <3> QED BY <1>1, <1>4, <3>1, <3>2 DEF Calls
  <2>2. CASE NoCall(w.mailbox) /\ w.stash = <<m>>
    <3>1. h.kind \in Answers /\ Called(v, m)
      BY <1>1, <1>2, <2>2 DEF Called
    <3> QED BY <1>1, <1>4, <3>1 DEF Calls
  <2> QED BY <1>4, <2>1, <2>2 DEF Called
<1> QED BY <1>3, <1>4 DEF Calls, h

(* Unstashing puts the ask that was set aside back in the mailbox.          *)
LEMMA CallsUnstash ==
  ASSUME NEW w \in Writer, ~w.pendingAck, NEW phase, NEW docs, Calls(w, phase, docs)
  PROVE  Calls(UnstashAll(w), phase, docs)
<1> DEFINE v == UnstashAll(w)
<1>1. /\ v.mailbox = w.stash \o w.mailbox /\ v.stash = <<>> /\ v.pendingAck = w.pendingAck
      /\ w.mailbox \in Seq(Command)
  BY DEF UnstashAll, Writer
<1>2. w.stash = <<>> => v.mailbox = w.mailbox
  BY <1>1, ConcatSimplifications
<1> HIDE DEF v
<1>3. ASSUME Uncalled(w), docs = <<>>
      PROVE  Calls(v, phase, docs)
  <2>1. Uncalled(v)
    BY <1>1, <1>2, <1>3 DEF Uncalled
  <2>2. ~v.pendingAck
    BY <1>1
  <2> QED BY <1>3, <2>1, <2>2 DEF Calls
<1>4. ASSUME NEW m \in Command, m.kind \notin Answers, Called(w, m), docs = Carried(m),
             phase \in Asking(m)
      PROVE  Calls(v, phase, docs)
  <2>1. CASE OneCall(w.mailbox, m) /\ w.stash = <<>>
    BY <1>1, <1>2, <1>4, <2>1 DEF Calls, Called
  <2>2. CASE NoCall(w.mailbox) /\ w.stash = <<m>>
    <3>1. OneCall(v.mailbox, m)
      BY <1>1, <1>4, <2>2, CallFirst
    <3> QED BY <1>1, <1>4, <3>1 DEF Calls, Called
  <2> QED BY <1>4, <2>1, <2>2 DEF Called
<1>5. \/ Uncalled(w) /\ docs = <<>>
      \/ \E m \in Command :
           m.kind \notin Answers /\ Called(w, m) /\ docs = Carried(m) /\ phase \in Asking(m)
  BY DEF Calls
<1>6. Calls(v, phase, docs)
  BY <1>3, <1>4, <1>5
<1> QED BY <1>6 DEF v

LEMMA UncalledUnstash ==
  ASSUME NEW w \in Writer, Uncalled(w)
  PROVE  Uncalled(UnstashAll(w))
<1>1. /\ UnstashAll(w).mailbox = w.stash \o w.mailbox /\ UnstashAll(w).stash = <<>>
      /\ w.mailbox \in Seq(Command) /\ w.stash = <<>>
  BY DEF UnstashAll, Writer, Uncalled
<1>2. w.stash \o w.mailbox = w.mailbox
  BY <1>1, ConcatSimplifications
<1> QED BY <1>1, <1>2 DEF Uncalled

(* The end of a write: the ask that waited for it is answered, any other    *)
(* stays open; a failure is told, or kept for the next ask.                 *)
LEMMA CompleteWriteCalls ==
  ASSUME TypeOK, NEW p \in Processors, NEW ok \in BOOLEAN, NEW w \in Writer,
         NEW docs, Calls(w, processor[p], docs), CompleteWrite(p, w, ok)
  PROVE  /\ Calls(writer'[p], processor'[p], docs)
         /\ ~writer'[p].writing /\ writer'[p].pending = w.pending
         /\ writer'[p].firstBatch = w.firstBatch
         /\ writer'[p].deferredFailure = (w.deferredFailure \/ ~(ok \/ w.pendingAck))
         /\ ~ok => \/ writer'[p].deferredFailure
                   \/ Uncalled(writer'[p]) /\ processor'[p] = "failed"
         /\ processor'[p] \in {processor[p], "streaming", "failed"}
<1> DEFINE v == [w EXCEPT !.writing = FALSE, !.pendingAck = FALSE,
                          !.deferredFailure = @ \/ ~(ok \/ w.pendingAck)]
<1>1. /\ v \in Writer /\ v.mailbox = w.mailbox /\ v.stash = w.stash
      /\ v.pendingAck = FALSE /\ v.writing = FALSE /\ v.pending = w.pending
      /\ v.firstBatch = w.firstBatch
      /\ v.deferredFailure = (w.deferredFailure \/ ~(ok \/ w.pendingAck))
  BY DEF Writer
<1>2. /\ writer'[p] = UnstashAll(v)
      /\ IF w.pendingAck THEN Tell(p, ok) ELSE UNCHANGED processor
  BY DEF CompleteWrite, Become, TypeOK
<1> HIDE DEF v
<1>3. /\ UnstashAll(v).writing = FALSE /\ UnstashAll(v).pending = w.pending
      /\ UnstashAll(v).firstBatch = w.firstBatch /\ UnstashAll(v).pendingAck = FALSE
      /\ UnstashAll(v).deferredFailure = (w.deferredFailure \/ ~(ok \/ w.pendingAck))
  BY <1>1 DEF UnstashAll, Writer
<1>4. CASE w.pendingAck
  <2>1. Uncalled(w) /\ docs = <<>> /\ processor[p] \in {"asking", "failed"}
    BY <1>4, CallsAck
  <2>2. Uncalled(UnstashAll(v))
    BY <1>1, <2>1, UncalledUnstash DEF Uncalled
  <2>3. /\ processor'[p] \in {"streaming", "failed"}
        /\ ~ok => processor'[p] = "failed"
    BY <1>2, <1>4, <2>1 DEF Tell, TypeOK
  <2>4. Calls(UnstashAll(v), processor'[p], docs)
    BY <1>3, <2>1, <2>2 DEF Calls
  <2> QED BY <1>2, <1>3, <1>4, <2>2, <2>3, <2>4
<1>5. CASE ~w.pendingAck
  <2>1. processor' = processor
    BY <1>2, <1>5
  <2>2. v.pendingAck = w.pendingAck
    BY <1>1, <1>5 DEF Writer
  <2>3. Calls(v, processor[p], docs)
    BY <1>1, <1>5, <2>2, CallsSame
  <2>4. Calls(UnstashAll(v), processor[p], docs)
    BY <1>1, <2>3, CallsUnstash
  <2> QED BY <1>2, <1>3, <1>5, <2>1, <2>4
<1> QED BY <1>4, <1>5

-----------------------------------------------------------------------------
(* Writes *)

(* A step that touches no chunk but those of p, and the requests of p only. *)
Kept == UNCHANGED <<streamed, index, inserted>>

LEMMA RequestedKept ==
  ASSUME NEW p \in Processors, Requested(p), Kept, UNCHANGED requests
  PROVE  Requested(p)'
<1>1. Own(p)' = Own(p)
  BY DEF Own
<1> QED BY <1>1 DEF Requested, Indexed, Kept

(* What a writer sends comes next: a is inserted, a + 1 to c are sent.      *)
LEMMA SendFate ==
  ASSUME TypeOK, NEW p \in Processors, NEW w \in Writer, Own(p) = {}, Kept,
         w.writing, w.pending = <<>>, ~w.deferredFailure, ~w.firstBatch,
         NEW a \in Nat, NEW c \in Nat, a <= c, c <= streamed[p], inserted[p] = Run(0, a),
         Calls(w, processor[p], Run(c, streamed[p])),
         \A i \in Nat : Indexed(p, i) => i <= a,
         NEW op \in {"delete", "bulk"},
         op = "delete" => a = 0 /\ c > 0,
         op = "bulk" => Previous \notin index,
         Become(p, w), Send(p, op, Run(a, c)), UNCHANGED processor
  PROVE  Fate(p, writer[p], processor[p])' /\ Requested(p)'
<1> DEFINE r == [by |-> p, op |-> op, docs |-> Run(a, c), awaited |-> TRUE]
<1>1. r.by = p /\ r.op = op /\ r.docs = Run(a, c) /\ r.awaited
  OBVIOUS
<1>2. Own(p)' = {r}
  BY <1>1 DEF Own, Send
<1> HIDE DEF r
<1>3. writer'[p] = w /\ processor'[p] = processor[p]
  BY DEF Become, TypeOK
<1>4. Flight(p, w, Run(a, c))'
  BY <1>1, <1>2 DEF Flight
<1>5. Run(c, c) = <<>>
  BY RunOne
<1>6. Chain(p, writer[p], processor[p], a, c, c)'
  BY <1>1, <1>2, <1>3, <1>4, <1>5 DEF Chain, Indexed, Kept
<1>7. Requested(p)'
  <2>1. CASE op = "delete"
    <3>1. Run(0, a) = <<>>
      BY <2>1, RunOne
    <3>2. streamed[p] \in Nat
      BY DEF TypeOK
    <3>3. inserted'[p] = <<>> /\ streamed'[p] > 0
      BY <2>1, <3>1, <3>2 DEF Kept
    <3> QED BY <1>1, <1>2, <2>1, <3>3 DEF Requested
  <2>2. CASE op = "bulk"
    BY <1>1, <1>2, <2>2 DEF Requested, Indexed, Kept
  <2> QED BY <2>1, <2>2
<1> QED BY <1>6, <1>7 DEF Fate

(* A write refused on the spot.                                             *)
LEMMA RefusedFate ==
  ASSUME TypeOK, NEW p \in Processors, NEW w \in Writer, Kept, Requested(p),
         w.pending = <<>>, NEW docs \in Chunks, Calls(w, processor[p], docs),
         CompleteWrite(p, w, FALSE), UNCHANGED requests
  PROVE  /\ Fate(p, writer[p], processor[p])' /\ Requested(p)'
         /\ processor'[p] \in {processor[p], "streaming", "failed"}
<1>1. /\ Calls(writer'[p], processor'[p], docs)
      /\ ~writer'[p].writing /\ writer'[p].pending = <<>>
      /\ \/ writer'[p].deferredFailure
         \/ Uncalled(writer'[p]) /\ processor'[p] = "failed"
      /\ processor'[p] \in {processor[p], "streaming", "failed"}
  BY CompleteWriteCalls
<1>2. Spent(writer'[p], processor'[p])
  BY <1>1 DEF Spent
<1> QED BY <1>1, <1>2, RequestedKept DEF Fate

LEMMA IndexBatchFate ==
  ASSUME TypeOK, NEW p \in Processors, NEW w \in Writer, Own(p) = {}, Kept, Requested(p),
         w.writing, w.pending = <<>>, ~w.deferredFailure, ~w.firstBatch,
         NEW a \in Nat, NEW c \in Nat, a <= c, c <= streamed[p], inserted[p] = Run(0, a),
         Calls(w, processor[p], Run(c, streamed[p])),
         \A i \in Nat : Indexed(p, i) => i <= a,
         Previous \notin index,
         IndexBatch(p, w, Run(a, c))
  PROVE  /\ Fate(p, writer[p], processor[p])' /\ Requested(p)'
         /\ processor'[p] \in {processor[p], "streaming", "failed"}
<1>1. CASE Become(p, w) /\ Send(p, "bulk", Run(a, c)) /\ UNCHANGED processor
  BY <1>1, SendFate
<1>2. CASE IOException(p, w)
  <2>1. Run(c, streamed[p]) \in Chunks
    BY RunParts DEF TypeOK
  <2> QED BY <1>2, <2>1, RefusedFate DEF IOException
<1> QED BY <1>1, <1>2 DEF IndexBatch

(* A writer with nothing in flight and the chunks a + 1 to c buffered.      *)
Ready(p, w, a, c) ==
  /\ Own(p) = {} /\ ~w.writing /\ ~w.deferredFailure
  /\ a <= c /\ c <= streamed[p] /\ inserted[p] = Run(0, a) /\ w.pending = Run(a, c)
  /\ \A i \in Nat : Indexed(p, i) => i <= a
  /\ w.firstBatch => a = 0
  /\ ~w.firstBatch => Previous \notin index

LEMMA FlushFate ==
  ASSUME TypeOK, NEW p \in Processors, NEW w \in Writer, NEW ack \in BOOLEAN,
         Kept, Requested(p), NEW a \in Nat, NEW c \in Nat, Ready(p, w, a, c), a < c,
         Calls([w EXCEPT !.writing = TRUE, !.pendingAck = ack],
               processor[p], Run(c, streamed[p])),
         Flush(p, w, ack)
  PROVE  /\ Fate(p, writer[p], processor[p])' /\ Requested(p)'
         /\ processor'[p] \in {processor[p], "streaming", "failed"}
<1> DEFINE acked == [w EXCEPT !.writing = TRUE, !.pendingAck = ack]
           drained == [w EXCEPT !.pending = <<>>, !.timer = FALSE,
                                !.writing = TRUE, !.pendingAck = ack]
           deleting == [drained EXCEPT !.firstBatch = FALSE]
<1>1. /\ drained \in Writer /\ drained.pending = <<>> /\ drained.writing
      /\ drained.mailbox = w.mailbox /\ drained.stash = w.stash
      /\ drained.pendingAck = ack /\ drained.deferredFailure = w.deferredFailure
      /\ drained.firstBatch = w.firstBatch
      /\ acked.mailbox = w.mailbox /\ acked.stash = w.stash /\ acked.pendingAck = ack
  <2>1. <<>> \in Chunks
    BY DEF Chunks
  <2> HIDE DEF Chunks
  <2> QED BY <2>1 DEF Writer
<1>2. /\ deleting \in Writer /\ deleting.pending = <<>> /\ deleting.writing
      /\ deleting.mailbox = w.mailbox /\ deleting.stash = w.stash
      /\ deleting.pendingAck = ack /\ deleting.deferredFailure = w.deferredFailure
      /\ ~deleting.firstBatch
  BY <1>1 DEF Writer
<1>3. \/ /\ w.firstBatch /\ Become(p, deleting) /\ Send(p, "delete", w.pending)
         /\ UNCHANGED processor
      \/ IOException(p, drained)
      \/ ~w.firstBatch /\ IndexBatch(p, drained, w.pending)
  BY DEF Flush
<1>4. Calls(acked, processor[p], Run(c, streamed[p]))
  OBVIOUS
<1> HIDE DEF acked, drained, deleting
<1>5. /\ Calls(drained, processor[p], Run(c, streamed[p]))
      /\ Calls(deleting, processor[p], Run(c, streamed[p]))
  BY <1>1, <1>2, <1>4, CallsSame
<1>6. Run(c, streamed[p]) \in Chunks
  BY RunParts DEF TypeOK, Ready
<1>7. CASE /\ w.firstBatch /\ Become(p, deleting) /\ Send(p, "delete", w.pending)
           /\ UNCHANGED processor
  <2>1. /\ Own(p) = {} /\ ~deleting.deferredFailure /\ c <= streamed[p]
        /\ inserted[p] = Run(0, a) /\ w.pending = Run(a, c) /\ a = 0 /\ c > 0
        /\ \A i \in Nat : Indexed(p, i) => i <= a
    BY <1>2, <1>7 DEF Ready
  <2>2. Send(p, "delete", Run(a, c))
    BY <1>7, <2>1
  <2>3. Fate(p, writer[p], processor[p])' /\ Requested(p)'
    BY <1>2, <1>5, <1>7, <2>1, <2>2, SendFate
  <2> QED BY <1>7, <2>3
<1>8. CASE IOException(p, drained)
  BY <1>1, <1>5, <1>6, <1>8, RefusedFate DEF IOException
<1>9. CASE ~w.firstBatch /\ IndexBatch(p, drained, w.pending)
  <2>1. /\ Own(p) = {} /\ ~drained.deferredFailure /\ ~drained.firstBatch
        /\ c <= streamed[p] /\ inserted[p] = Run(0, a) /\ w.pending = Run(a, c)
        /\ Previous \notin index
        /\ \A i \in Nat : Indexed(p, i) => i <= a
    BY <1>1, <1>9 DEF Ready
  <2>2. IndexBatch(p, drained, Run(a, c))
    BY <1>9, <2>1
  <2> QED BY <1>1, <1>5, <2>1, <2>2, IndexBatchFate
<1> QED BY <1>3, <1>7, <1>8, <1>9

(* A chunk is buffered behind those that are, and may fill the batch.       *)
LEMMA BufferFate ==
  ASSUME TypeOK, NEW p \in Processors, NEW w \in Writer, Kept, Requested(p),
         NEW a \in Nat, NEW b \in Nat, Ready(p, w, a, b), b < streamed[p],
         Uncalled(w), ~w.pendingAck, processor[p] \in {"asking", "failed"},
         Buffer(p, w, Run(b, streamed[p]))
  PROVE  /\ Fate(p, writer[p], processor[p])' /\ Requested(p)'
         /\ processor'[p] \in {processor[p], "streaming", "failed"}
<1> PICK n : n = streamed[p]
  OBVIOUS
<1> DEFINE buffered == [w EXCEPT !.pending = @ \o Run(b, n)]
           timed == [buffered EXCEPT !.timer = @ \/ w.pending = <<>>]
           acked == [buffered EXCEPT !.writing = TRUE, !.pendingAck = TRUE]
<1>1. n \in Nat /\ a <= b /\ b <= n /\ a < n /\ n <= n
  BY DEF TypeOK, Ready
<1>2. /\ w.pending = Run(a, b) /\ Run(a, b) \o Run(b, n) = Run(a, n)
      /\ Run(b, n) \in Chunks /\ Run(a, n) \in Chunks
  <2>1. w.pending = Run(a, b)
    BY DEF Ready
  <2>2. a <= n
    BY <1>1
  <2>3. Run(a, b) \o Run(b, n) = Run(a, n)
    BY <1>1, RunConcat
  <2>4. Run(b, n) \in Chunks
    BY <1>1, RunParts
  <2>5. Run(a, n) \in Chunks
    BY <1>1, <2>2, RunParts
  <2> QED BY <2>1, <2>3, <2>4, <2>5
<1>3. /\ buffered \in Writer /\ buffered.pending = Run(a, n)
      /\ buffered.mailbox = w.mailbox /\ buffered.stash = w.stash
      /\ buffered.writing = w.writing /\ buffered.pendingAck = w.pendingAck
      /\ buffered.deferredFailure = w.deferredFailure
      /\ buffered.firstBatch = w.firstBatch
  <2> HIDE DEF Chunks
  <2> QED BY <1>2 DEF Writer
<1>4. /\ timed \in Writer /\ timed.pending = Run(a, n)
      /\ timed.mailbox = w.mailbox /\ timed.stash = w.stash
      /\ timed.writing = w.writing /\ timed.pendingAck = w.pendingAck
      /\ timed.deferredFailure = w.deferredFailure
      /\ timed.firstBatch = w.firstBatch
  BY <1>3 DEF Writer
<1>5. /\ acked.mailbox = w.mailbox /\ acked.stash = w.stash /\ acked.writing
  BY <1>3 DEF Writer
<1>6. \/ Flush(p, buffered, TRUE)
      \/ Answer(p, timed, TRUE) /\ UNCHANGED requests
  BY DEF Buffer
<1>7. Run(n, n) = <<>>
  BY <1>1, RunOne
<1>8. Calls([buffered EXCEPT !.writing = TRUE, !.pendingAck = TRUE], processor[p], <<>>)
  BY <1>5 DEF Calls, Uncalled
<1> HIDE DEF buffered, timed, acked
<1>9. CASE Flush(p, buffered, TRUE)
  <2>1. Ready(p, buffered, a, n)
    BY <1>1, <1>3 DEF Ready
  <2> QED BY <1>1, <1>3, <1>7, <1>8, <1>9, <2>1, FlushFate
<1>10. CASE Answer(p, timed, TRUE) /\ UNCHANGED requests
  <2>1. /\ Uncalled(timed) /\ writer'[p] = UnstashAll(timed)
        /\ processor'[p] \in {"streaming", "failed"}
    BY <1>4, <1>10 DEF Uncalled, Answer, Become, Tell, TypeOK
  <2>2. /\ Uncalled(writer'[p]) /\ writer'[p].pending = Run(a, n)
        /\ ~writer'[p].writing /\ ~writer'[p].pendingAck
        /\ ~writer'[p].deferredFailure /\ writer'[p].firstBatch = w.firstBatch
    <3>1. Uncalled(UnstashAll(timed))
      BY <1>4, <2>1, UncalledUnstash
    <3> QED BY <1>4, <2>1, <3>1 DEF UnstashAll, Writer, Ready
  <2>3. Own(p)' = Own(p) /\ Own(p) = {}
    BY <1>10 DEF Own, Ready
  <2>4. Calls(writer'[p], processor'[p], <<>>)
    BY <2>2 DEF Calls
  <2>5. Run(a, a) = <<>>
    BY RunOne
  <2>6. Flight(p, writer[p], Run(a, a))'
    BY <2>2, <2>5 DEF Flight
  <2>7. Chain(p, writer[p], processor[p], a, a, n)'
    <3>1. a <= a
      OBVIOUS
    <3>2. inserted'[p] = Run(0, a) /\ streamed'[p] = n
      BY DEF Ready, Kept
    <3>3. \A i \in Nat : Indexed(p, i)' => i <= a
      BY DEF Ready, Kept, Indexed
    <3>4. /\ writer'[p].firstBatch => ~writer'[p].writing /\ a = 0
          /\ ~writer'[p].firstBatch => Previous \notin index'
      BY <2>2 DEF Ready, Kept
    <3> QED BY <1>1, <1>7, <2>2, <2>3, <2>4, <2>6, <3>1, <3>2, <3>3, <3>4 DEF Chain
  <2> QED BY <1>1, <1>10, <2>1, <2>7, RequestedKept DEF Fate
<1> QED BY <1>6, <1>9, <1>10

-----------------------------------------------------------------------------
(* The handlers of the writer *)

(* The writer has taken an ask: no other is open, and a writer that is not  *)
(* writing and knows of no failure has everything else.                     *)
LEMMA TakenAsk ==
  ASSUME SlotsInv, NEW p \in Processors, Whole(p),
         writer[p].running, writer[p].mailbox # <<>>, Message(p).kind \notin Answers
  PROVE  /\ Uncalled(Taken(p)) /\ ~Taken(p).pendingAck /\ processor[p] \in Asking(Message(p))
         /\ ~Taken(p).writing /\ ~Taken(p).deferredFailure =>
              \E a, c \in Nat :
                /\ Ready(p, Taken(p), a, c)
                /\ Run(c, streamed[p]) = Carried(Message(p))
<1> DEFINE w == Taken(p)
<1>1. /\ writer[p] \in Writer /\ Slot(p) /\ w = [writer[p] EXCEPT !.mailbox = Tail(@)]
      /\ Message(p) = Head(writer[p].mailbox)
  BY DEF SlotsInv, TypeOK, Taken, Message
<1>2. /\ w.pending = writer[p].pending /\ w.writing = writer[p].writing
      /\ w.pendingAck = writer[p].pendingAck /\ w.firstBatch = writer[p].firstBatch
      /\ w.deferredFailure = writer[p].deferredFailure /\ w.mailbox = Tail(writer[p].mailbox)
  BY <1>1 DEF Writer
<1> HIDE DEF w
<1>3. \A docs : Calls(writer[p], processor[p], docs) =>
        /\ Uncalled(w) /\ ~writer[p].pendingAck
        /\ docs = Carried(Message(p)) /\ processor[p] \in Asking(Message(p))
  BY <1>1, CallsTaken
<1>4. PICK docs : Calls(writer[p], processor[p], docs)
  BY DEF Whole, Fate, Chain, Doomed, Spent
<1>5. Uncalled(w) /\ ~w.pendingAck /\ processor[p] \in Asking(Message(p))
  BY <1>2, <1>3, <1>4
<1>6. ASSUME ~w.writing, ~w.deferredFailure
      PROVE  \E a, c \in Nat : Ready(p, w, a, c) /\ Run(c, streamed[p]) = Carried(Message(p))
  <2>1. ~Doomed(writer[p], processor[p])
    BY <1>2, <1>6 DEF Doomed
  <2>2. ~Spent(writer[p], processor[p])
    <3>1. SUFFICES ASSUME Uncalled(writer[p]) PROVE FALSE
      BY <1>2, <1>6 DEF Spent
    <3>2. writer[p].mailbox \in Seq(Command)
      BY <1>1 DEF Writer
    <3> QED BY <1>1, <3>1, <3>2, CallTail DEF Uncalled
  <2>3. PICK a, b, c \in Nat : Chain(p, writer[p], processor[p], a, b, c)
    BY <2>1, <2>2 DEF Whole, Fate
  <2>4. Own(p) = {}
    <3>1. Awaited(p) = {}
      BY <1>1, <1>2, <1>6 DEF Slot, OneWrite
    <3> QED BY <2>3, <3>1 DEF Chain, Own, Awaited
  <2>5. Run(a, b) = <<>>
    BY <1>2, <1>6, <2>3 DEF Chain, Flight
  <2>6. a = b
    BY <2>3, <2>5, RunParts DEF Chain
  <2>7. Ready(p, w, a, c)
    BY <1>2, <1>6, <2>3, <2>4, <2>6 DEF Chain, Ready
  <2>8. Run(c, streamed[p]) = Carried(Message(p))
    BY <1>3, <2>3 DEF Chain
  <2> QED BY <2>7, <2>8
<1> QED BY <1>5, <1>6 DEF w

(* A running writer's processor is not done, and no step of the writer but  *)
(* the last answer makes it so.                                             *)
LEMMA StillRunning ==
  ASSUME TypeOK, NEW p \in Processors, Whole(p), writer[p].running, processor[p] # "idle",
         processor'[p] \in {processor[p], "streaming", "failed"}, UNCHANGED announced,
         Requested(p)', writer'[p].running => Fate(p, writer[p], processor[p])'
  PROVE  Whole(p)'
  BY DEF Whole

(* A message set aside during a write.                                      *)
LEMMA StashFate ==
  ASSUME SlotsInv, NEW p \in Processors, Whole(p), Kept,
         writer[p].running, writer[p].mailbox # <<>>, Message(p).kind \notin Answers,
         Taken(p).writing, Become(p, Stash(Taken(p), Message(p))),
         UNCHANGED <<processor, requests>>
  PROVE  Fate(p, writer[p], processor[p])'
<1> DEFINE w == Taken(p)  m == Message(p)  v == Stash(w, m)
<1>1. /\ writer[p] \in Writer /\ Slot(p) /\ w = [writer[p] EXCEPT !.mailbox = Tail(@)]
      /\ m = Head(writer[p].mailbox) /\ m \in Command /\ w \in Writer
  BY TakenSlots DEF SlotsInv, TypeOK, Taken, Message
<1>2. /\ w.pending = writer[p].pending /\ w.writing = writer[p].writing
      /\ w.firstBatch = writer[p].firstBatch /\ w.stash = writer[p].stash
      /\ w.deferredFailure = writer[p].deferredFailure /\ w.mailbox = Tail(writer[p].mailbox)
  BY <1>1 DEF Writer
<1>3. Uncalled(w) /\ ~w.pendingAck /\ processor[p] \in Asking(m)
  BY TakenAsk
<1>4. writer'[p] = v /\ w.writing
  BY DEF Become, SlotsInv, TypeOK
<1> HIDE DEF w, m
<1>5. /\ v.mailbox = w.mailbox /\ v.stash = <<m>> /\ v.writing = w.writing
      /\ v.pendingAck = w.pendingAck /\ v.pending = w.pending
      /\ v.firstBatch = w.firstBatch /\ v.deferredFailure = w.deferredFailure
  <2>1. Append(<<>>, m) = <<m>>
    OBVIOUS
  <2> QED BY <1>1, <1>3, <2>1 DEF Stash, Writer, Uncalled
<1> HIDE DEF v
<1>6. Calls(v, processor[p], Carried(m))
  BY <1>1, <1>3, <1>5 DEF Calls, Called, Uncalled, m
<1>7. \A docs : Calls(writer[p], processor[p], docs) => docs = Carried(m)
  BY <1>1, CallsTaken DEF m
<1>8. /\ \A x : Says(writer[p].mailbox, x) /\ x.kind \in Answers => Says(v.mailbox, x)
      /\ Fails(writer[p].mailbox) => Fails(v.mailbox)
  <2>1. writer[p].mailbox \in Seq(Command)
    BY <1>1 DEF Writer
  <2> QED BY <1>1, <1>2, <1>5, <2>1, SaysTail DEF m
<1>9. Own(p)' = Own(p)
  BY DEF Own
<1>10. CASE Doomed(writer[p], processor[p])
  <2>1. Carried(m) \in Chunks
    BY <1>7, <1>10 DEF Doomed
  <2>2. Doomed(v, processor[p])
    BY <1>2, <1>4, <1>5, <1>6, <1>8, <1>10, <2>1 DEF Doomed
  <2> QED BY <1>4, <2>2 DEF Fate
<1>11. ASSUME NEW a \in Nat, NEW b \in Nat, NEW c \in Nat,
              Chain(p, writer[p], processor[p], a, b, c)
       PROVE  Fate(p, writer[p], processor[p])'
  <2>1. Flight(p, writer[p], Run(a, b))'
    <3>1. /\ [kind |-> "DeleteResponse", ok |-> TRUE, docs |-> Run(a, b)].kind \in Answers
          /\ [kind |-> "IndexResponse", ok |-> TRUE].kind \in Answers
      BY DEF Answers
    <3>2. Flight(p, writer[p], Run(a, b))
      BY <1>11 DEF Chain
    <3> QED BY <1>2, <1>4, <1>5, <1>8, <1>9, <3>1, <3>2 DEF Flight
  <2>2. Run(c, streamed[p]) = Carried(m)
    BY <1>7, <1>11 DEF Chain
  <2>3. Chain(p, writer[p], processor[p], a, b, c)'
    BY <1>2, <1>4, <1>5, <1>6, <1>9, <1>11, <2>1, <2>2 DEF Chain, Kept, Indexed
  <2> QED BY <2>3 DEF Fate
<1>12. ~Spent(writer[p], processor[p])
  BY <1>2, <1>4 DEF Spent
<1> QED BY <1>10, <1>11, <1>12 DEF Whole, Fate

LEMMA OnWriteChunkWhole ==
  ASSUME SlotsInv, NEW p \in Processors, Whole(p), OnWriteChunk(p)
  PROVE  Whole(p)'
<1> DEFINE w == Taken(p)  m == Message(p)
<1>1. /\ writer[p].running /\ writer[p].mailbox # <<>> /\ TypeOK
      /\ m.kind = "WriteChunk" /\ m.kind \notin Answers
      /\ Kept /\ UNCHANGED announced
  BY DEF OnWriteChunk, Received, Message, Answers, SlotsInv, searchEngine, Kept
<1>2. /\ w \in Writer /\ m \in Command /\ processor[p] # "idle" /\ w.running
      /\ Requested(p)
  BY <1>1, TakenSlots DEF Whole
<1>3. /\ Uncalled(w) /\ ~w.pendingAck /\ processor[p] \in {"asking", "failed"}
      /\ ~w.writing /\ ~w.deferredFailure =>
           \E a, c \in Nat : Ready(p, w, a, c) /\ Run(c, streamed[p]) = Carried(m)
  BY <1>1, TakenAsk DEF Asking
<1>4. CASE w.writing /\ Become(p, Stash(w, m)) /\ UNCHANGED <<processor, requests>>
  <2>1. Fate(p, writer[p], processor[p])'
    BY <1>1, <1>4, StashFate
  <2> QED BY <1>1, <1>2, <1>4, <2>1, RequestedKept, StillRunning
<1>5. ASSUME NEW ok \in BOOLEAN, ~w.writing, Answer(p, w, ok), UNCHANGED requests,
             ~w.deferredFailure => Carried(m) = <<>>,
             w.deferredFailure => ~ok
      PROVE  Whole(p)'
  <2>1. /\ writer'[p] = UnstashAll(w)
        /\ processor'[p] \in {"streaming", "failed"}
        /\ ~ok => processor'[p] = "failed"
    BY <1>1, <1>3, <1>5 DEF Answer, Become, Tell, TypeOK
  <2>2. /\ Uncalled(writer'[p]) /\ ~writer'[p].pendingAck /\ ~writer'[p].writing
        /\ writer'[p].pending = w.pending /\ writer'[p].firstBatch = w.firstBatch
        /\ writer'[p].deferredFailure = w.deferredFailure
    <3>1. Uncalled(UnstashAll(w))
      BY <1>2, <1>3, UncalledUnstash
    <3> QED BY <1>2, <1>3, <1>5, <2>1, <3>1 DEF UnstashAll, Writer
  <2>3. Calls(writer'[p], processor'[p], <<>>) /\ <<>> \in Chunks
    BY <2>2 DEF Calls, Chunks
  <2>4. CASE w.deferredFailure
    <3>1. w.pending = <<>>
      BY <1>1, <2>4, TakenSlots
    <3>2. Spent(writer'[p], processor'[p])
      BY <2>2, <2>3, <2>4, <3>1 DEF Spent
    <3>3. Fate(p, writer[p], processor[p])'
      BY <3>2 DEF Fate
    <3> QED BY <1>1, <1>2, <1>5, <2>1, <3>3, RequestedKept, StillRunning
  <2>5. CASE ~w.deferredFailure
    <3>1. PICK a, c \in Nat : Ready(p, w, a, c) /\ Run(c, streamed[p]) = <<>>
      BY <1>3, <1>5, <2>5
    <3>2. c = streamed[p] /\ Run(a, a) = <<>>
      BY <1>1, <3>1, RunParts, RunOne DEF Ready, TypeOK
    <3>3. Own(p)' = Own(p)
      BY <1>5 DEF Own
    <3>4. Flight(p, writer[p], Run(a, a))'
      BY <2>2, <3>2 DEF Flight
    <3>5. Chain(p, writer[p], processor[p], a, a, c)'
      <4>1. Calls(writer'[p], processor'[p], Run(c, streamed'[p]))
        BY <1>1, <2>3, <3>1 DEF Kept
      <4>2. a <= a
        OBVIOUS
      <4> QED BY <1>1, <2>2, <3>1, <3>3, <3>4, <4>1, <4>2 DEF Chain, Ready, Kept, Indexed
    <3>6. Fate(p, writer[p], processor[p])'
      BY <3>5 DEF Fate
    <3> QED BY <1>1, <1>2, <1>5, <2>1, <3>6, RequestedKept, StillRunning
  <2> QED BY <2>4, <2>5
<1>6. CASE Become(p, NoWriter) /\ UNCHANGED <<processor, requests>>
  <2>1. ~writer'[p].running
    BY <1>1, <1>6 DEF Become, TypeOK, NoWriter, NewWriter
  <2> QED BY <1>1, <1>2, <1>6, <2>1, RequestedKept, StillRunning
<1>7. CASE /\ ~w.writing /\ ~w.deferredFailure
           /\ m.payload.kind = "Chunks" /\ m.payload # Documents(<<>>)
           /\ Buffer(p, w, m.payload.docs)
  <2>1. PICK a, c \in Nat : Ready(p, w, a, c) /\ Run(c, streamed[p]) = m.payload.docs
    BY <1>1, <1>3, <1>7 DEF Carried
  <2>2. m.payload.docs # <<>>
    BY <1>1, <1>2, <1>7 DEF Command, Payload, Documents
  <2>3. c < streamed[p]
    <3>1. c <= streamed[p] /\ streamed[p] \in Nat
      BY <1>1, <2>1 DEF Ready, TypeOK
    <3>2. c # streamed[p]
      BY <2>1, <2>2, RunOne
    <3> QED BY <3>1, <3>2
  <2>4. Buffer(p, w, Run(c, streamed[p]))
    BY <1>7, <2>1
  <2>5. /\ Fate(p, writer[p], processor[p])' /\ Requested(p)'
        /\ processor'[p] \in {processor[p], "streaming", "failed"}
    BY <1>1, <1>2, <1>3, <2>1, <2>3, <2>4, BufferFate
  <2> QED BY <1>1, <1>2, <2>5, StillRunning
<1>8. m.payload = Documents(<<>>) => Carried(m) = <<>>
  BY <1>1 DEF Carried, Documents
<1>9. m.payload.kind = "Malformed" => Carried(m) = <<>>
  BY <1>1 DEF Carried
<1> QED
  <2>1. CASE /\ ~w.writing /\ (w.deferredFailure \/ m.payload.kind = "Malformed")
             /\ Answer(p, w, FALSE) /\ UNCHANGED requests
    BY <1>5, <1>9, <2>1
  <2>2. CASE /\ ~w.writing /\ ~w.deferredFailure /\ m.payload = Documents(<<>>)
             /\ Answer(p, w, TRUE) /\ UNCHANGED requests
    BY <1>5, <1>8, <2>2
  <2> QED BY <1>4, <1>6, <1>7, <2>1, <2>2 DEF OnWriteChunk

(* A running writer that is not writing and has chunks buffered.            *)
LEMMA BufferedReady ==
  ASSUME SlotsInv, NEW p \in Processors, Whole(p), writer[p].running,
         writer[p].pending # <<>>
  PROVE  \E a, c \in Nat :
           /\ Ready(p, writer[p], a, c) /\ a < c
           /\ Calls(writer[p], processor[p], Run(c, streamed[p]))
<1>1. Slot(p) /\ ~writer[p].writing
  BY DEF SlotsInv, Slot
<1>2. PICK a, b, c \in Nat : Chain(p, writer[p], processor[p], a, b, c)
  BY <1>1 DEF Whole, Fate, Doomed, Spent
<1>3. Own(p) = {}
  <2>1. Awaited(p) = {}
    BY <1>1 DEF Slot, OneWrite
  <2> QED BY <1>2, <2>1 DEF Chain, Own, Awaited
<1>4. a = b
  <2>1. Run(a, b) = <<>> /\ a <= b
    BY <1>1, <1>2 DEF Chain, Flight
  <2> QED BY <2>1, RunParts
<1>5. a < c
  <2>1. Run(b, c) # <<>> /\ b <= c
    BY <1>2 DEF Chain
  <2>2. b # c
    BY <2>1, RunOne
  <2> QED BY <1>4, <2>1, <2>2
<1>6. Ready(p, writer[p], a, c)
  BY <1>1, <1>2, <1>3, <1>4 DEF Chain, Ready
<1>7. Calls(writer[p], processor[p], Run(c, streamed[p]))
  BY <1>2 DEF Chain
<1> QED BY <1>5, <1>6, <1>7

LEMMA OnFlushTickWhole ==
  ASSUME SlotsInv, NEW p \in Processors, Whole(p), OnFlushTick(p)
  PROVE  Whole(p)'
<1> DEFINE w == [writer[p] EXCEPT !.timer = FALSE]
<1>1. /\ TypeOK /\ writer[p] \in Writer /\ writer[p].running /\ Requested(p)
      /\ Slot(p) /\ processor[p] # "idle" /\ Kept /\ UNCHANGED announced
  BY DEF SlotsInv, TypeOK, Slot, Whole, OnFlushTick, Kept, searchEngine
<1>2. /\ w \in Writer /\ w.mailbox = writer[p].mailbox /\ w.stash = writer[p].stash
      /\ w.writing = writer[p].writing /\ w.pending = writer[p].pending
      /\ w.pendingAck = writer[p].pendingAck /\ w.firstBatch = writer[p].firstBatch
      /\ w.deferredFailure = writer[p].deferredFailure
  BY <1>1 DEF Writer
<1>3. \/ Become(p, w) /\ UNCHANGED <<processor, requests>>
      \/ ~w.writing /\ w.pending # <<>> /\ Flush(p, w, FALSE)
  BY DEF OnFlushTick
<1> HIDE DEF w
<1>4. CASE Become(p, w) /\ UNCHANGED <<processor, requests>>
  <2>1. writer'[p] = w /\ processor'[p] = processor[p] /\ Own(p)' = Own(p)
    BY <1>1, <1>4 DEF Become, TypeOK, Own
  <2>2. \A docs : Calls(writer[p], processor[p], docs) => Calls(w, processor[p], docs)
    <3>1. \E docs : Calls(writer[p], processor[p], docs)
      BY <1>1 DEF Whole, Fate, Chain, Doomed, Spent
    <3>2. writer[p].pendingAck => writer[p].writing
      BY <3>1 DEF Calls
    <3> QED BY <1>2, <3>2, CallsSame
  <2>3. ASSUME NEW a \in Nat, NEW b \in Nat, NEW c \in Nat,
               Chain(p, writer[p], processor[p], a, b, c)
        PROVE  Chain(p, writer[p], processor[p], a, b, c)'
    <3>1. Flight(p, writer[p], Run(a, b))'
      BY <1>2, <2>1, <2>3 DEF Chain, Flight
    <3>2. Calls(w, processor[p], Run(c, streamed[p]))
      BY <2>2, <2>3 DEF Chain
    <3> QED BY <1>1, <1>2, <2>1, <2>3, <3>1, <3>2 DEF Chain, Kept, Indexed
  <2>4. Doomed(writer[p], processor[p]) => Doomed(w, processor[p])
    BY <1>2, <2>2 DEF Doomed
  <2>5. Spent(writer[p], processor[p]) => Spent(w, processor[p])
    BY <1>2, <2>2 DEF Spent, Uncalled
  <2>6. Fate(p, writer[p], processor[p])'
    BY <1>1, <2>1, <2>3, <2>4, <2>5 DEF Fate, Whole
  <2> QED BY <1>1, <1>4, <2>1, <2>6, RequestedKept, StillRunning
<1>5. CASE ~w.writing /\ w.pending # <<>> /\ Flush(p, w, FALSE)
  <2>1. PICK a, c \in Nat :
          /\ Ready(p, writer[p], a, c) /\ a < c
          /\ Calls(writer[p], processor[p], Run(c, streamed[p]))
    BY <1>1, <1>2, <1>5, BufferedReady
  <2>2. Ready(p, w, a, c)
    BY <1>2, <2>1 DEF Ready
  <2>3. Calls([w EXCEPT !.writing = TRUE, !.pendingAck = FALSE],
              processor[p], Run(c, streamed[p]))
    <3>1. ~w.pendingAck
      BY <1>2, <1>5, <2>1 DEF Calls
    <3> DEFINE v == [w EXCEPT !.writing = TRUE, !.pendingAck = FALSE]
    <3>2. /\ v.mailbox = w.mailbox /\ v.stash = w.stash /\ ~v.pendingAck
      BY <1>2 DEF Writer
    <3> HIDE DEF v
    <3>3. Calls(v, processor[p], Run(c, streamed[p]))
      BY <1>2, <2>1, <3>1, <3>2 DEF Calls, Uncalled, Called
    <3> QED BY <3>3 DEF v
  <2>4. /\ Fate(p, writer[p], processor[p])' /\ Requested(p)'
        /\ processor'[p] \in {processor[p], "streaming", "failed"}
    BY <1>1, <1>2, <1>5, <2>1, <2>2, <2>3, FlushFate
  <2> QED BY <1>1, <2>4, StillRunning
<1> QED BY <1>3, <1>4, <1>5

(* The writer has taken an answer: its ask stays open, nothing is left in   *)
(* flight, and the answer says what becomes of the chunks that were.        *)
LEMMA TakenAnswer ==
  ASSUME SlotsInv, NEW p \in Processors, Whole(p),
         writer[p].running, writer[p].mailbox # <<>>, Message(p).kind \in Answers
  PROVE  /\ Taken(p).pending = <<>> /\ Taken(p).writing
         /\ \E docs \in Chunks : Calls(Taken(p), processor[p], docs)
         /\ Message(p).ok =>
              /\ Own(p) = {} /\ ~Taken(p).deferredFailure
              /\ ~Taken(p).firstBatch /\ Previous \notin index
              /\ \E a, c \in Nat :
                   /\ a <= c /\ c <= streamed[p] /\ inserted[p] = Run(0, a)
                   /\ Calls(Taken(p), processor[p], Run(c, streamed[p]))
                   /\ \A i \in Nat : Indexed(p, i) => i <= a
                   /\ Message(p).kind = "DeleteResponse" => Message(p).docs = Run(a, c)
                   /\ Message(p).kind = "IndexResponse" => c = a
<1> DEFINE w == Taken(p)  m == Message(p)
<1>1. /\ writer[p] \in Writer /\ Slot(p) /\ w = [writer[p] EXCEPT !.mailbox = Tail(@)]
      /\ m = Head(writer[p].mailbox) /\ m \in Command /\ OneWrite(p) /\ TypeOK
  BY TakenSlots DEF SlotsInv, TypeOK, Taken, Message, Slot
<1>2. /\ w.pending = writer[p].pending /\ w.writing = writer[p].writing
      /\ w.firstBatch = writer[p].firstBatch
      /\ w.deferredFailure = writer[p].deferredFailure
      /\ writer[p].mailbox \in Seq(Command)
  BY <1>1 DEF Writer
<1>3. w.pending = <<>> /\ w.writing /\ Awaited(p) = {}
  BY TakenSlots
<1>4. Lone(writer[p].mailbox)
  BY <1>1, <1>2, <1>3, MailboxTail DEF OneWrite
<1> HIDE DEF w, m
<1>5. \A docs : Calls(writer[p], processor[p], docs) => Calls(w, processor[p], docs)
  BY <1>1, CallsTaken DEF m
<1>6. /\ \A x : x.kind \in Answers /\ Says(writer[p].mailbox, x) => x = m
      /\ Fails(writer[p].mailbox) => ~m.ok
  BY <1>1, <1>2, <1>4, SaysTail DEF m
<1>7. ASSUME NEW a \in Nat, NEW b \in Nat, NEW c \in Nat,
             Chain(p, writer[p], processor[p], a, b, c)
      PROVE  /\ Run(c, streamed[p]) \in Chunks
             /\ Own(p) = {} /\ ~w.deferredFailure
             /\ ~w.firstBatch /\ Previous \notin index
             /\ a <= c /\ c <= streamed[p] /\ inserted[p] = Run(0, a)
             /\ Calls(w, processor[p], Run(c, streamed[p]))
             /\ \A i \in Nat : Indexed(p, i) => i <= a
             /\ m.kind = "DeleteResponse" => m.docs = Run(a, c)
             /\ m.kind = "IndexResponse" => c = a
  <2>1. /\ a <= b /\ b <= c /\ c <= streamed[p] /\ inserted[p] = Run(0, a)
        /\ Flight(p, writer[p], Run(a, b)) /\ w.pending = Run(b, c)
        /\ Calls(w, processor[p], Run(c, streamed[p]))
        /\ ~w.deferredFailure
        /\ \A i \in Nat : Indexed(p, i) => i <= a
    BY <1>2, <1>5, <1>7 DEF Chain
  <2>2. Own(p) = {}
    BY <1>3, <1>7 DEF Chain, Own, Awaited
  <2>3. ~w.firstBatch /\ Previous \notin index
    BY <1>2, <1>3, <1>7, <2>2 DEF Chain
  <2>4. b = c
    BY <1>3, <2>1, RunParts
  <2>5. \/ m = [kind |-> "DeleteResponse", ok |-> TRUE, docs |-> Run(a, b)]
        \/ m = [kind |-> "IndexResponse", ok |-> TRUE] /\ Run(a, b) = <<>>
    <3>1. /\ [kind |-> "DeleteResponse", ok |-> TRUE, docs |-> Run(a, b)].kind \in Answers
          /\ [kind |-> "IndexResponse", ok |-> TRUE].kind \in Answers
      BY DEF Answers
    <3>2. \/ Says(writer[p].mailbox, [kind |-> "DeleteResponse", ok |-> TRUE, docs |-> Run(a, b)])
          \/ /\ Says(writer[p].mailbox, [kind |-> "IndexResponse", ok |-> TRUE])
             /\ Run(a, b) = <<>>
      BY <1>2, <1>3, <2>1, <2>2 DEF Flight
    <3> QED BY <1>6, <3>1, <3>2
  <2>6. m.kind = "DeleteResponse" => m.docs = Run(a, c)
    BY <2>4, <2>5
  <2>7. m.kind = "IndexResponse" => c = a
    BY <2>1, <2>4, <2>5, RunParts
  <2>8. Run(c, streamed[p]) \in Chunks
    BY <1>1, <2>1, RunParts DEF TypeOK
  <2>9. a <= c
    BY <2>1
  <2> QED BY <2>1, <2>2, <2>3, <2>6, <2>7, <2>8, <2>9
<1>8. ~Spent(writer[p], processor[p])
  BY <1>2, <1>3 DEF Spent
<1>9. \E docs \in Chunks : Calls(w, processor[p], docs)
  BY <1>5, <1>7, <1>8 DEF Whole, Fate, Doomed
<1>10. ASSUME m.ok
       PROVE  \E a, b, c \in Nat : Chain(p, writer[p], processor[p], a, b, c)
  BY <1>6, <1>8, <1>10 DEF Whole, Fate, Doomed
<1> QED BY <1>3, <1>7, <1>9, <1>10 DEF w, m

LEMMA OnDeleteResponseWhole ==
  ASSUME SlotsInv, NEW p \in Processors, Whole(p), OnDeleteResponse(p)
  PROVE  Whole(p)'
<1> DEFINE w == Taken(p)  m == Message(p)
<1>1. /\ writer[p].running /\ writer[p].mailbox # <<>> /\ TypeOK
      /\ m.kind = "DeleteResponse" /\ m.kind \in Answers
      /\ Kept /\ UNCHANGED announced /\ Requested(p)
  BY DEF OnDeleteResponse, Received, Message, Answers, SlotsInv, searchEngine, Kept, Whole
<1>2. w \in Writer /\ processor[p] # "idle"
  BY <1>1, TakenSlots
<1>3. CASE m.ok /\ IndexBatch(p, w, m.docs)
  <2>1. PICK a, c \in Nat :
          /\ a <= c /\ c <= streamed[p] /\ inserted[p] = Run(0, a)
          /\ Calls(w, processor[p], Run(c, streamed[p]))
          /\ \A i \in Nat : Indexed(p, i) => i <= a
          /\ m.docs = Run(a, c)
    BY <1>1, <1>3, TakenAnswer
  <2>2. /\ w.pending = <<>> /\ w.writing /\ Own(p) = {} /\ ~w.deferredFailure
        /\ ~w.firstBatch /\ Previous \notin index
    BY <1>1, <1>3, TakenAnswer
  <2>3. IndexBatch(p, w, Run(a, c))
    BY <1>3, <2>1
  <2> HIDE DEF w
  <2>4. /\ Fate(p, writer[p], processor[p])' /\ Requested(p)'
        /\ processor'[p] \in {processor[p], "streaming", "failed"}
    BY <1>1, <1>2, <2>1, <2>2, <2>3, IndexBatchFate
  <2> QED BY <1>1, <1>2, <2>4, StillRunning
<1>4. CASE CompleteWrite(p, w, FALSE) /\ UNCHANGED requests
  <2>1. PICK docs \in Chunks : Calls(w, processor[p], docs)
    BY <1>1, TakenAnswer
  <2>2. w.pending = <<>>
    BY <1>1, TakenAnswer
  <2> HIDE DEF w
  <2>3. /\ Fate(p, writer[p], processor[p])' /\ Requested(p)'
        /\ processor'[p] \in {processor[p], "streaming", "failed"}
    BY <1>1, <1>2, <1>4, <2>1, <2>2, RefusedFate
  <2> QED BY <1>1, <1>2, <2>3, StillRunning
<1> QED BY <1>3, <1>4 DEF OnDeleteResponse

LEMMA OnIndexResponseWhole ==
  ASSUME SlotsInv, NEW p \in Processors, Whole(p), OnIndexResponse(p)
  PROVE  Whole(p)'
<1> DEFINE t == Taken(p)  m == Message(p)  ok == m.ok
           w == [t EXCEPT !.wroteAny = @ \/ ok]
<1>1. /\ writer[p].running /\ writer[p].mailbox # <<>> /\ TypeOK
      /\ m.kind = "IndexResponse" /\ m.kind \in Answers
      /\ Kept /\ UNCHANGED announced /\ UNCHANGED requests /\ Requested(p)
  BY DEF OnIndexResponse, Received, Message, Answers, SlotsInv, searchEngine, Kept, Whole
<1>2. t \in Writer /\ processor[p] # "idle" /\ m \in Command
  BY <1>1, TakenSlots
<1>3. ok \in BOOLEAN /\ CompleteWrite(p, w, ok)
  BY <1>1, <1>2, MessageParts DEF OnIndexResponse
<1>4. /\ w \in Writer /\ w.mailbox = t.mailbox /\ w.stash = t.stash
      /\ w.pendingAck = t.pendingAck /\ w.writing = t.writing /\ w.pending = t.pending
      /\ w.deferredFailure = t.deferredFailure /\ w.firstBatch = t.firstBatch
  BY <1>2, <1>3 DEF Writer
<1>5. t.pending = <<>> /\ t.writing
  BY <1>1, TakenAnswer
<1>6. PICK docs \in Chunks : Calls(t, processor[p], docs)
  BY <1>1, TakenAnswer
<1> HIDE DEF w
<1>7. \A d : Calls(t, processor[p], d) => Calls(w, processor[p], d)
  BY <1>4, <1>5, CallsSame
<1>8. CASE ~ok
  <2>1. CompleteWrite(p, w, FALSE)
    BY <1>3, <1>8
  <2>2. /\ Fate(p, writer[p], processor[p])' /\ Requested(p)'
        /\ processor'[p] \in {processor[p], "streaming", "failed"}
    BY <1>1, <1>4, <1>5, <1>6, <1>7, <2>1, RefusedFate
  <2> QED BY <1>1, <1>2, <2>2, StillRunning
<1>9. CASE ok
  <2>1. PICK a, c \in Nat :
          /\ a <= c /\ c <= streamed[p] /\ inserted[p] = Run(0, a)
          /\ Calls(t, processor[p], Run(c, streamed[p]))
          /\ \A i \in Nat : Indexed(p, i) => i <= a
          /\ c = a
    BY <1>1, <1>9, TakenAnswer
  <2>2. /\ Own(p) = {} /\ ~t.deferredFailure /\ ~t.firstBatch /\ Previous \notin index
    BY <1>1, <1>9, TakenAnswer
  <2>3. Calls(w, processor[p], Run(c, streamed[p]))
    BY <1>7, <2>1
  <2>4. /\ Calls(writer'[p], processor'[p], Run(c, streamed[p]))
        /\ ~writer'[p].writing /\ writer'[p].pending = <<>>
        /\ ~writer'[p].firstBatch /\ ~writer'[p].deferredFailure
        /\ processor'[p] \in {processor[p], "streaming", "failed"}
    BY <1>1, <1>3, <1>4, <1>5, <1>9, <2>2, <2>3, CompleteWriteCalls
  <2>5. Own(p)' = {} /\ Run(a, a) = <<>>
    BY <1>1, <2>2, RunOne DEF Own
  <2>6. Flight(p, writer[p], Run(a, a))'
    BY <2>4, <2>5 DEF Flight
  <2>7. Chain(p, writer[p], processor[p], a, a, a)'
    <3>1. a <= a
      OBVIOUS
    <3>2. Calls(writer'[p], processor'[p], Run(a, streamed'[p]))
      BY <1>1, <2>1, <2>4 DEF Kept
    <3> QED BY <1>1, <2>1, <2>2, <2>4, <2>5, <2>6, <3>1, <3>2 DEF Chain, Kept, Indexed
  <2>8. Fate(p, writer[p], processor[p])'
    BY <2>7 DEF Fate
  <2> QED BY <1>1, <1>2, <2>4, <2>8, RequestedKept, StillRunning
<1> QED BY <1>8, <1>9

LEMMA OnEndStreamWhole ==
  ASSUME SlotsInv, NEW p \in Processors, Whole(p), OnEndStream(p)
  PROVE  Whole(p)'
<1> DEFINE w == Taken(p)  m == Message(p)
<1>1. /\ writer[p].running /\ writer[p].mailbox # <<>> /\ TypeOK
      /\ m.kind = "EndStream" /\ m.kind \notin Answers
      /\ Kept /\ Requested(p)
  BY DEF OnEndStream, Received, Message, Answers, SlotsInv, searchEngine, Kept, Whole
<1>2. /\ w \in Writer /\ m \in Command /\ processor[p] # "idle" /\ w.running
      /\ EndStream \in Command
  BY <1>1, TakenSlots, Commands
<1>3. m = EndStream
  BY <1>1, <1>2 DEF Command, EndStream
<1>4. /\ Uncalled(w) /\ ~w.pendingAck /\ processor[p] \in {"closing", "failed"}
      /\ ~w.writing /\ ~w.deferredFailure =>
           \E a, c \in Nat : Ready(p, w, a, c) /\ Run(c, streamed[p]) = <<>>
  BY <1>1, TakenAsk DEF Asking, Carried
<1>5. p \notin announced
  BY <1>1 DEF Whole
<1>6. CASE /\ w.writing /\ Become(p, Stash(w, EndStream))
           /\ UNCHANGED <<processor, requests, announced>>
  <2>1. Fate(p, writer[p], processor[p])'
    BY <1>1, <1>3, <1>6, StashFate
  <2> QED BY <1>1, <1>2, <1>6, <2>1, RequestedKept, StillRunning
<1>7. CASE /\ Become(p, NoWriter) /\ Tell(p, FALSE)
           /\ UNCHANGED <<requests, announced>>
  <2>1. ~writer'[p].running /\ processor'[p] = "failed"
    BY <1>1, <1>4, <1>7 DEF Become, Tell, TypeOK, NoWriter, NewWriter
  <2> QED BY <1>1, <1>2, <1>7, <2>1, RequestedKept, StillRunning
<1>8. CASE /\ ~w.writing /\ ~w.deferredFailure /\ w.pending # <<>>
           /\ Flush(p, Stash(w, EndStream), FALSE) /\ UNCHANGED announced
  <2>1. PICK a, c \in Nat : Ready(p, w, a, c) /\ Run(c, streamed[p]) = <<>>
    BY <1>4, <1>8
  <2> DEFINE v == Stash(w, EndStream)
             u == [v EXCEPT !.writing = TRUE, !.pendingAck = FALSE]
  <2>2. v \in Writer
    BY <1>2, StashType
  <2> HIDE DEF w
  <2>3. /\ v.mailbox = w.mailbox /\ v.stash = <<EndStream>> /\ v.writing = w.writing
        /\ v.pendingAck = w.pendingAck /\ v.pending = w.pending
        /\ v.firstBatch = w.firstBatch /\ v.deferredFailure = w.deferredFailure
    <3>1. Append(<<>>, EndStream) = <<EndStream>>
      OBVIOUS
    <3> QED BY <1>2, <1>4, <3>1 DEF Stash, Writer, Uncalled
  <2>4. Ready(p, v, a, c) /\ Flush(p, v, FALSE)
    BY <1>8, <2>1, <2>3 DEF Ready
  <2>5. u.mailbox = w.mailbox /\ u.stash = <<EndStream>> /\ ~u.pendingAck
    <3> HIDE DEF v
    <3> QED BY <2>2, <2>3 DEF Writer
  <2> HIDE DEF u, v
  <2>6. Calls(u, processor[p], <<>>)
    <3>1. /\ Called(u, EndStream) /\ EndStream.kind \notin Answers
          /\ Carried(EndStream) = <<>> /\ processor[p] \in Asking(EndStream)
      BY <1>4, <2>5 DEF Called, Uncalled, EndStream, Answers, Carried, Asking
    <3> QED BY <1>2, <2>5, <3>1 DEF Calls
  <2>7. Calls([v EXCEPT !.writing = TRUE, !.pendingAck = FALSE],
              processor[p], Run(c, streamed[p]))
    BY <2>1, <2>6 DEF u
  <2>8. a < c
    <3>1. Run(a, c) # <<>> /\ a <= c
      BY <1>8, <2>1 DEF Ready
    <3>2. a # c
      BY <3>1, RunOne
    <3> QED BY <3>1, <3>2
  <2>9. /\ Fate(p, writer[p], processor[p])' /\ Requested(p)'
        /\ processor'[p] \in {processor[p], "streaming", "failed"}
    BY <1>1, <2>2, <2>4, <2>7, <2>8, FlushFate
  <2> QED BY <1>1, <1>2, <1>8, <2>9, StillRunning
<1>9. CASE /\ ~w.writing /\ ~w.deferredFailure /\ w.pending = <<>>
           /\ Become(p, NoWriter) /\ Tell(p, TRUE)
           /\ announced' \in {announced, announced \cup {p}}
           /\ UNCHANGED requests
  <2>1. PICK a, c \in Nat : Ready(p, w, a, c) /\ Run(c, streamed[p]) = <<>>
    BY <1>4, <1>9
  <2>2. a = c /\ c = streamed[p]
    <3>1. Run(a, c) = <<>> /\ a <= c /\ c <= streamed[p] /\ streamed[p] \in Nat
      BY <1>1, <1>9, <2>1 DEF Ready, TypeOK
    <3> QED BY <2>1, <3>1, RunParts
  <2>3. ~writer'[p].running /\ processor'[p] \in {"closed", "failed"}
    BY <1>1, <1>4, <1>9 DEF Become, Tell, TypeOK, NoWriter, NewWriter
  <2>4. Own(p)' = {} /\ inserted'[p] = Run(0, streamed'[p])
    BY <1>1, <1>9, <2>1, <2>2 DEF Own, Ready, Kept
  <2>5. Requested(p)'
    BY <2>4 DEF Requested
  <2> QED BY <2>3, <2>4, <2>5 DEF Whole
<1> QED BY <1>6, <1>7, <1>8, <1>9 DEF OnEndStream

-----------------------------------------------------------------------------
(* The processor and its stream *)

LEMMA ProcessorWhole ==
  ASSUME SlotsInv, NEW p \in Processors, Whole(p),
         \/ ProcessorStep(p) \/ AskWriter(p) \/ StreamCompletes(p)
         \/ StreamFails(p) \/ AskTimesOut(p) \/ Crash(p)
  PROVE  Whole(p)'
<1>1. /\ TypeOK /\ writer[p] \in Writer /\ Requested(p) /\ Own(p)' = Own(p)
      /\ UNCHANGED <<requests, index, inserted, announced>>
  BY DEF SlotsInv, TypeOK, Whole, Own, ProcessorStep, OnStart, OnStreamCompleted,
         OnStreamClosed, OnStreamFailed, AskWriter, StreamCompletes, StreamFails,
         AskTimesOut, Crash, searchEngine
<1>2. CASE OnStart(p)
  <2>1. /\ writer'[p] = NewWriter /\ processor'[p] = "streaming" /\ Kept
        /\ streamed[p] = 0 /\ inserted[p] = <<>> /\ p \notin announced
        /\ \A i \in Nat : ~Indexed(p, i)
    BY <1>1, <1>2 DEF OnStart, Move, Become, TypeOK, Whole, Kept, searchEngine
  <2>2. Own(p)' = {}
    BY <1>1, <1>2 DEF SlotsInv, Slot, Own, OnStart, Move
  <2>3. /\ NewWriter.mailbox = <<>> /\ NewWriter.stash = <<>> /\ NewWriter.pending = <<>>
        /\ ~NewWriter.writing /\ ~NewWriter.pendingAck /\ NewWriter.firstBatch
        /\ ~NewWriter.deferredFailure
    BY DEF NewWriter
  <2>4. Run(0, 0) = <<>>
    BY RunOne
  <2>5. Calls(writer'[p], processor'[p], Run(0, 0))
    BY <2>1, <2>3, <2>4, NoCallEmpty DEF Calls, Uncalled
  <2>6. Chain(p, writer[p], processor[p], 0, 0, 0)'
    <3>1. Flight(p, writer[p], Run(0, 0))'
      BY <2>1, <2>3, <2>4 DEF Flight
    <3>2. streamed'[p] = 0 /\ inserted'[p] = Run(0, 0)
      BY <2>1, <2>4 DEF Kept
    <3> QED BY <2>1, <2>2, <2>3, <2>4, <2>5, <3>1, <3>2 DEF Chain, Kept, Indexed
  <2>7. Requested(p)'
    BY <1>1, <2>1, RequestedKept
  <2>8. Fate(p, writer[p], processor[p])'
    BY <2>6 DEF Fate
  <2> QED BY <1>1, <2>1, <2>7, <2>8 DEF Whole
<1>3. CASE OnStreamClosed(p) \/ OnStreamFailed(p) \/ Crash(p)
  <2>1. /\ ~writer'[p].running /\ Kept /\ processor'[p] \in Endings
        /\ processor'[p] = "Complete" => processor[p] = "closed"
    BY <1>1, <1>3 DEF OnStreamClosed, OnStreamFailed, Crash, Move, Become, TypeOK, Endings,
       NoWriter, NewWriter, Kept, searchEngine
  <2>2. Requested(p)'
    BY <1>1, <2>1, RequestedKept
  <2> QED BY <1>1, <2>1, <2>2 DEF Whole, Endings, Kept
<1>4. CASE StreamCompletes(p) \/ StreamFails(p) \/ AskTimesOut(p)
  <2>1. /\ processor'[p] = "failed" \/ (processor[p] = "streaming" /\ processor'[p] = "completed")
        /\ processor[p] \in {"streaming", "asking", "closing"}
        /\ writer' = writer /\ Kept
    BY <1>1, <1>4 DEF StreamCompletes, StreamFails, AskTimesOut, Move, TypeOK, Kept, searchEngine
  <2>2. \A docs : Calls(writer[p], processor[p], docs) => Calls(writer[p], processor'[p], docs)
    <3>1. CASE processor'[p] = "failed"
      BY <3>1, CallsFailed
    <3>2. CASE processor[p] = "streaming" /\ processor'[p] = "completed"
      BY <3>2, CallsNone DEF Calls
    <3> QED BY <2>1, <3>1, <3>2
  <2>3. ASSUME NEW a \in Nat, NEW b \in Nat, NEW c \in Nat,
               Chain(p, writer[p], processor[p], a, b, c)
        PROVE  Chain(p, writer[p], processor[p], a, b, c)'
    <3>1. Flight(p, writer[p], Run(a, b))'
      BY <1>1, <2>1, <2>3 DEF Chain, Flight
    <3>2. Calls(writer[p], processor'[p], Run(c, streamed[p]))
      BY <2>2, <2>3 DEF Chain
    <3> QED BY <1>1, <2>1, <2>3, <3>1, <3>2 DEF Chain, Kept, Indexed
  <2>4. Doomed(writer[p], processor[p]) => Doomed(writer[p], processor'[p])
    BY <2>2 DEF Doomed
  <2>5. Spent(writer[p], processor[p]) => Spent(writer[p], processor'[p])
    BY <2>1, <2>2 DEF Spent
  <2>6. writer'[p].running => Fate(p, writer[p], processor[p])'
    BY <2>1, <2>3, <2>4, <2>5 DEF Fate, Whole
  <2>7. Requested(p)'
    BY <1>1, <2>1, RequestedKept
  <2> QED BY <1>1, <2>1, <2>6, <2>7 DEF Whole, Endings, Kept
<1>5. ASSUME NEW m \in Command, m.kind \notin Answers, Enqueue(p, m),
             processor[p] \in {"streaming", "completed"}, processor'[p] \in Asking(m) \ {"failed"},
             streamed[p] <= streamed'[p], streamed'[p] \in Nat,
             Carried(m) = Run(streamed[p], streamed'[p])
      PROVE  Whole(p)'
  <2> DEFINE n == streamed[p]  w == [writer[p] EXCEPT !.mailbox = Append(@, m)]
  <2>1. processor'[p] \in {"asking", "closing"} /\ n \in Nat
    BY <1>1, <1>5 DEF Asking, TypeOK
  <2>2. Requested(p)'
    <3>1. \A b \in Nat : b <= n => b <= streamed'[p]
      BY <1>5, <2>1
    <3>2. n > 0 => streamed'[p] > 0
      BY <1>5, <2>1
    <3> QED BY <1>1, <3>1, <3>2 DEF Requested, Indexed
  <2>3. p \notin announced
    BY <1>5 DEF Whole, Endings
  <2>4. CASE ~writer[p].running
    <3>1. ~writer'[p].running
      BY <1>5, <2>4 DEF Enqueue
    <3> QED BY <1>1, <2>1, <2>2, <2>3, <3>1 DEF Whole
  <2>5. CASE writer[p].running
    <3>1. writer'[p] = w
      BY <1>1, <1>5, <2>5 DEF Enqueue, TypeOK
    <3>2. /\ w.mailbox = Append(writer[p].mailbox, m) /\ w.stash = writer[p].stash
          /\ w.writing = writer[p].writing /\ w.pending = writer[p].pending
          /\ w.pendingAck = writer[p].pendingAck /\ w.firstBatch = writer[p].firstBatch
          /\ w.deferredFailure = writer[p].deferredFailure
          /\ writer[p].mailbox \in Seq(Command)
      BY <1>1 DEF Writer
    <3> HIDE DEF w
    <3>3. \A docs : Calls(writer[p], processor[p], docs) =>
            Uncalled(writer[p]) /\ docs = <<>> /\ ~writer[p].pendingAck
      BY <1>5, CallsNone
    <3>4. /\ \A x : Says(writer[p].mailbox, x) => Says(w.mailbox, x)
          /\ Fails(writer[p].mailbox) => Fails(w.mailbox)
      BY <3>2, SaysAppend
    <3>5. ASSUME Uncalled(writer[p]), ~writer[p].pendingAck
          PROVE  Calls(w, processor'[p], Run(n, streamed'[p]))
      <4>1. Called(w, m)
        BY <1>5, <3>2, <3>5, CallAppend DEF Uncalled, Called
      <4> QED BY <1>5, <3>2, <3>5, <4>1 DEF Calls
    <3>6. Run(n, streamed'[p]) \in Chunks
      BY <1>5, <2>1, RunParts
    <3>7. ASSUME NEW a \in Nat, NEW b \in Nat, NEW c \in Nat,
                 Chain(p, writer[p], processor[p], a, b, c)
          PROVE  Fate(p, writer[p], processor[p])'
      <4>1. Uncalled(writer[p]) /\ ~writer[p].pendingAck /\ Run(c, n) = <<>> /\ c <= n
        BY <3>3, <3>7 DEF Chain
      <4>2. c = n
        BY <2>1, <4>1, RunParts
      <4>3. Flight(p, writer[p], Run(a, b))'
        BY <1>1, <3>1, <3>2, <3>4, <3>7 DEF Chain, Flight
      <4>4. Calls(writer'[p], processor'[p], Run(c, streamed'[p]))
        BY <3>1, <3>5, <4>1, <4>2
      <4>5. c <= streamed'[p]
        BY <1>5, <4>2
      <4>6. Chain(p, writer[p], processor[p], a, b, c)'
        BY <1>1, <3>1, <3>2, <3>7, <4>3, <4>4, <4>5 DEF Chain, Indexed
      <4> QED BY <4>6 DEF Fate
    <3>8. ASSUME Doomed(writer[p], processor[p])
          PROVE  Fate(p, writer[p], processor[p])'
      <4>1. Doomed(writer'[p], processor'[p])
        BY <3>1, <3>2, <3>3, <3>4, <3>5, <3>6, <3>8 DEF Doomed
      <4> QED BY <4>1 DEF Fate
    <3>9. ASSUME Spent(writer[p], processor[p])
          PROVE  Fate(p, writer[p], processor[p])'
      <4>1. Spent(writer'[p], processor'[p])
        BY <1>5, <3>1, <3>2, <3>3, <3>5, <3>6, <3>9 DEF Spent
      <4> QED BY <4>1 DEF Fate
    <3>10. Fate(p, writer[p], processor[p])'
      BY <2>5, <3>7, <3>8, <3>9 DEF Whole, Fate
    <3> QED BY <1>1, <2>1, <2>2, <2>3, <3>10 DEF Whole
  <2> QED BY <2>4, <2>5
<1>6. CASE OnStreamCompleted(p)
  <2>1. /\ processor[p] = "completed" /\ processor'[p] = "closing" /\ Enqueue(p, EndStream)
        /\ streamed'[p] = streamed[p] /\ streamed[p] \in Nat
    BY <1>1, <1>6 DEF OnStreamCompleted, Move, TypeOK
  <2>2. /\ EndStream.kind \notin Answers /\ Carried(EndStream) = <<>>
        /\ "closing" \in Asking(EndStream) \ {"failed"}
    BY DEF EndStream, Answers, Carried, Asking
  <2>3. Run(streamed[p], streamed'[p]) = <<>> /\ streamed[p] <= streamed'[p]
    BY <2>1, RunOne
  <2> QED BY <1>5, <2>1, <2>2, <2>3, Commands
<1>7. CASE AskWriter(p)
  <2>1. processor[p] = "streaming" /\ processor'[p] = "asking" /\ streamed[p] \in Nat
    BY <1>1, <1>7 DEF AskWriter, Move, TypeOK
  <2>2. /\ Documents(<<streamed[p] + 1>>) \in Payload /\ Documents(<<>>) \in Payload
        /\ \A kind \in {"Malformed", "Garbage"} : [kind |-> kind] \in Payload
    BY <1>1 DEF Documents, Payload, Chunks, TypeOK
  <2>3. PICK payload \in Payload :
          /\ Enqueue(p, [kind |-> "WriteChunk", payload |-> payload])
          /\ \/ streamed'[p] = streamed[p] + 1 /\ payload = Documents(<<streamed[p] + 1>>)
             \/ streamed'[p] = streamed[p] /\ payload = Documents(<<>>)
             \/ streamed'[p] = streamed[p] /\ payload.kind \in {"Malformed", "Garbage"}
    <3>1. CASE /\ streamed' = [streamed EXCEPT ![p] = @ + 1]
               /\ Enqueue(p, [kind |-> "WriteChunk", payload |-> Documents(<<streamed[p] + 1>>)])
      BY <1>1, <2>2, <3>1 DEF TypeOK
    <3>2. CASE /\ UNCHANGED streamed
               /\ Enqueue(p, [kind |-> "WriteChunk", payload |-> Documents(<<>>)])
      BY <2>2, <3>2
    <3>3. ASSUME NEW kind \in {"Malformed", "Garbage"}, UNCHANGED streamed,
                 Enqueue(p, [kind |-> "WriteChunk", payload |-> [kind |-> kind]])
          PROVE  \E payload \in Payload :
                   /\ Enqueue(p, [kind |-> "WriteChunk", payload |-> payload])
                   /\ streamed'[p] = streamed[p] /\ payload.kind \in {"Malformed", "Garbage"}
      BY <2>2, <3>3
    <3> QED BY <1>7, <3>1, <3>2, <3>3 DEF AskWriter
  <2> DEFINE m == [kind |-> "WriteChunk", payload |-> payload]
  <2>4. /\ m \in Command /\ m.kind = "WriteChunk" /\ m.payload = payload /\ Enqueue(p, m)
    BY <2>3, Commands
  <2> HIDE DEF m
  <2>5. /\ m.kind \notin Answers /\ "asking" \in Asking(m) \ {"failed"}
    BY <2>4 DEF Answers, Asking
  <2>6. /\ streamed[p] <= streamed'[p] /\ streamed'[p] \in Nat
        /\ Carried(m) = Run(streamed[p], streamed'[p])
    <3>1. CASE streamed'[p] = streamed[p] + 1 /\ payload = Documents(<<streamed[p] + 1>>)
      <4>1. Carried(m) = <<streamed[p] + 1>>
        BY <2>4, <3>1 DEF Carried, Documents
      <4> QED BY <2>1, <3>1, <4>1, RunOne
    <3>2. CASE streamed'[p] = streamed[p] /\ payload = Documents(<<>>)
      <4>1. Carried(m) = <<>>
        BY <2>4, <3>2 DEF Carried, Documents
      <4> QED BY <2>1, <3>2, <4>1, RunOne
    <3>3. CASE streamed'[p] = streamed[p] /\ payload.kind \in {"Malformed", "Garbage"}
      <4>1. Carried(m) = <<>>
        BY <2>4, <3>3 DEF Carried
      <4> QED BY <2>1, <3>3, <4>1, RunOne
    <3> QED BY <2>3, <3>1, <3>2, <3>3
  <2> QED BY <1>5, <2>1, <2>4, <2>5, <2>6
<1> QED BY <1>2, <1>3, <1>4, <1>6, <1>7 DEF ProcessorStep

-----------------------------------------------------------------------------
(* OpenSearch *)

(* What is asked of OpenSearch by a running writer, and still awaited, is   *)
(* what the writer is writing.                                              *)
LEMMA AwaitedWrite ==
  ASSUME SlotsInv, NEW p \in Processors, writer[p].running,
         NEW r \in Own(p), r.awaited
  PROVE  /\ writer[p].writing /\ Clean(writer[p].mailbox)
<1>1. r \in Awaited(p) /\ OneWrite(p)
  BY DEF Own, Awaited, SlotsInv, Slot
<1> QED BY <1>1 DEF OneWrite

(* Messages of OpenSearch leave the ask a writer has still to take.         *)
LEMMA CallsAnswered ==
  ASSUME NEW w \in Writer, NEW m \in Command, m.kind \in Answers, NEW v,
         v = [w EXCEPT !.mailbox = Append(@, m)],
         NEW phase, NEW docs, Calls(w, phase, docs)
  PROVE  Calls(v, phase, docs)
<1>1. /\ v.mailbox = Append(w.mailbox, m) /\ v.stash = w.stash
      /\ v.pendingAck = w.pendingAck /\ v.writing = w.writing
      /\ w.mailbox \in Seq(Command)
  BY DEF Writer
<1>2. /\ NoCall(w.mailbox) => NoCall(v.mailbox)
      /\ \A x : OneCall(w.mailbox, x) => OneCall(v.mailbox, x)
  BY <1>1, CallAppend
<1>3. /\ Uncalled(w) => Uncalled(v)
      /\ \A x : Called(w, x) => Called(v, x)
  BY <1>1, <1>2 DEF Uncalled, Called
<1> QED BY <1>1, <1>3 DEF Calls

(* A request that failed, or that the client gave up on, dooms its writer;  *)
(* what becomes of it later changes nothing for a writer that knows.        *)
LEMMA FailedRequest ==
  ASSUME SlotsInv, NEW p \in Processors, Whole(p), NEW r \in Own(p),
         NEW m \in Command, m.kind \in Answers, ~m.ok,
         IF r.awaited THEN Enqueue(p, m) ELSE UNCHANGED writer, UNCHANGED processor
  PROVE  writer'[p].running => Fate(p, writer[p], processor[p])'
<1>1. TypeOK /\ writer[p] \in Writer /\ Slot(p) /\ processor'[p] = processor[p]
  BY DEF SlotsInv, TypeOK
<1>2. CASE ~r.awaited
  <2>1. \A a, b, c \in Nat : ~Chain(p, writer[p], processor[p], a, b, c)
    BY <1>2 DEF Chain
  <2>2. writer'[p] = writer[p]
    BY <1>2
  <2>3. writer[p].running => Doomed(writer[p], processor[p]) \/ Spent(writer[p], processor[p])
    BY <2>1 DEF Whole, Fate
  <2> QED BY <1>1, <2>2, <2>3 DEF Fate
<1>3. CASE ~writer[p].running
  BY <1>1, <1>3 DEF Enqueue
<1>4. CASE r.awaited /\ writer[p].running
  <2> DEFINE w == [writer[p] EXCEPT !.mailbox = Append(@, m)]
  <2>1. writer'[p] = w
    BY <1>1, <1>4 DEF Enqueue, TypeOK
  <2>2. /\ w.mailbox = Append(writer[p].mailbox, m) /\ w.writing = writer[p].writing
        /\ writer[p].mailbox \in Seq(Command)
    BY <1>1 DEF Writer
  <2>3. PICK docs \in Chunks : Calls(writer[p], processor[p], docs)
    <3>1. \A c \in Nat : c <= streamed[p] => Run(c, streamed[p]) \in Chunks
      BY <1>1, RunParts DEF TypeOK
    <3> QED BY <1>4, <3>1 DEF Whole, Fate, Chain, Doomed, Spent
  <2>4. Calls(w, processor[p], docs)
    BY <1>1, <2>3, CallsAnswered
  <2> HIDE DEF w
  <2>5. Fails(w.mailbox)
    BY <2>2, SaysAppend
  <2>6. Doomed(w, processor[p])
    BY <1>4, <2>2, <2>3, <2>4, <2>5, AwaitedWrite DEF Doomed
  <2> QED BY <1>1, <2>1, <2>6 DEF Fate
<1> QED BY <1>2, <1>3, <1>4

(* A request carried out: what was in flight is answered, or inserted.      *)
LEMMA ServedRequest ==
  ASSUME SlotsInv, NEW p \in Processors, Whole(p), NEW r \in Own(p), TypeOK',
         NEW m \in Command, m.kind \in Answers,
         IF r.awaited THEN Enqueue(p, m) ELSE UNCHANGED writer,
         UNCHANGED <<processor, streamed>>, Own(p)' = {}, Previous \notin index',
         \/ /\ m = [kind |-> "DeleteResponse", ok |-> TRUE, docs |-> r.docs]
            /\ inserted'[p] = inserted[p]
            /\ \A i \in Nat : Indexed(p, i)' => Indexed(p, i)
         \/ /\ m = [kind |-> "IndexResponse", ok |-> TRUE]
            /\ inserted'[p] = inserted[p] \o r.docs
            /\ \A i \in Nat : Indexed(p, i)' => Indexed(p, i) \/ i \in ToSet(r.docs)
  PROVE  writer'[p].running => Fate(p, writer[p], processor[p])'
<1>1. /\ TypeOK /\ writer[p] \in Writer /\ Slot(p) /\ processor'[p] = processor[p]
      /\ streamed'[p] = streamed[p]
  BY DEF SlotsInv, TypeOK
<1>2. CASE ~r.awaited
  <2>1. \A a, b, c \in Nat : ~Chain(p, writer[p], processor[p], a, b, c)
    BY <1>2 DEF Chain
  <2>2. writer'[p] = writer[p]
    BY <1>2
  <2>3. writer[p].running => Doomed(writer[p], processor[p]) \/ Spent(writer[p], processor[p])
    BY <2>1 DEF Whole, Fate
  <2> QED BY <1>1, <2>2, <2>3 DEF Fate
<1>3. CASE ~writer[p].running
  BY <1>1, <1>3 DEF Enqueue
<1>4. CASE r.awaited /\ writer[p].running
  <2>1. writer[p].writing /\ Clean(writer[p].mailbox)
    BY <1>4, AwaitedWrite
  <2>2. PICK a, b, c \in Nat : Chain(p, writer[p], processor[p], a, b, c)
    <3>1. ~Doomed(writer[p], processor[p])
      <4>1. writer[p].mailbox \in Seq(Command)
        BY <1>1 DEF Writer
      <4> QED BY <2>1, <4>1, CleanSays DEF Doomed
    <3>2. ~Spent(writer[p], processor[p])
      BY <2>1 DEF Spent
    <3> QED BY <1>4, <3>1, <3>2 DEF Whole, Fate
  <2>3. r.docs = Run(a, b)
    <3>1. \E x \in Own(p) : x.docs = Run(a, b)
      BY <2>1, <2>2 DEF Chain, Flight
    <3> QED BY <3>1 DEF Whole, Requested
  <2> DEFINE w == [writer[p] EXCEPT !.mailbox = Append(@, m)]
  <2>4. writer'[p] = w
    BY <1>1, <1>4 DEF Enqueue, TypeOK
  <2>5. /\ w.mailbox = Append(writer[p].mailbox, m) /\ w.writing = writer[p].writing
        /\ w.pending = writer[p].pending /\ w.firstBatch = writer[p].firstBatch
        /\ w.deferredFailure = writer[p].deferredFailure
        /\ writer[p].mailbox \in Seq(Command)
    BY <1>1 DEF Writer
  <2>6. Calls(writer[p], processor[p], Run(c, streamed[p]))
    BY <2>2 DEF Chain
  <2> HIDE DEF w
  <2>7. Calls(w, processor[p], Run(c, streamed[p]))
    <3>1. w = [writer[p] EXCEPT !.mailbox = Append(@, m)]
      BY DEF w
    <3> QED BY ONLY <1>1, <2>6, <3>1, m \in Command, m.kind \in Answers, CallsAnswered
  <2>8. Says(w.mailbox, m)
    BY <2>5, SaysAppend
  <2>9. /\ a <= b /\ b <= c /\ c <= streamed[p] /\ inserted[p] = Run(0, a)
        /\ w.pending = Run(b, c) /\ ~w.deferredFailure /\ ~w.firstBatch
        /\ \A i \in Nat : Indexed(p, i) => i <= a
    BY <2>1, <2>2, <2>5 DEF Chain
  <2>10. CASE /\ m = [kind |-> "DeleteResponse", ok |-> TRUE, docs |-> r.docs]
              /\ inserted'[p] = inserted[p]
              /\ \A i \in Nat : Indexed(p, i)' => Indexed(p, i)
    <3>1. Flight(p, writer[p], Run(a, b))'
      BY <2>1, <2>3, <2>4, <2>5, <2>8, <2>10 DEF Flight
    <3>2. Chain(p, writer[p], processor[p], a, b, c)'
      BY <1>1, <2>4, <2>7, <2>9, <2>10, <3>1 DEF Chain
    <3> QED BY <3>2 DEF Fate
  <2>11. CASE /\ m = [kind |-> "IndexResponse", ok |-> TRUE]
              /\ inserted'[p] = inserted[p] \o r.docs
              /\ \A i \in Nat : Indexed(p, i)' => Indexed(p, i) \/ i \in ToSet(r.docs)
    <3>1. Flight(p, writer[p], <<>>)'
      BY <2>1, <2>4, <2>5, <2>8, <2>11 DEF Flight
    <3>2. Run(b, b) = <<>> /\ b <= b
      BY RunOne
    <3>3. inserted'[p] = Run(0, b)
      <4>1. 0 \in Nat /\ 0 <= a /\ a <= b
        BY <2>9
      <4>2. Run(0, a) \o Run(a, b) = Run(0, b)
        BY <4>1, RunConcat
      <4> QED BY <2>3, <2>9, <2>11, <4>2
    <3>4. \A i \in Nat : Indexed(p, i)' => i <= b
      <4>1. ToSet(Run(a, b)) = (a + 1) .. b
        BY <2>9, RunSet
      <4> QED BY <2>3, <2>9, <2>11, <4>1
    <3>5. Chain(p, writer[p], processor[p], b, b, c)'
      BY <1>1, <2>4, <2>7, <2>9, <3>1, <3>2, <3>3, <3>4 DEF Chain
    <3> QED BY <3>5 DEF Fate
  <2> QED BY <2>10, <2>11
<1> QED BY <1>2, <1>3, <1>4

LEMMA SearchWhole ==
  ASSUME SlotsInv, NEW r \in requests, Whole(r.by), TypeOK', Land(r) \/ Expire(r)
  PROVE  Whole(r.by)'
<1> PICK p : p = r.by
  OBVIOUS
<1>1. /\ TypeOK /\ r \in Request /\ p \in Processors /\ r.docs \in Chunks
      /\ r \in Own(p) /\ Own(p) = {r} /\ Slot(p) /\ Whole(p)
  BY DEF SlotsInv, TypeOK, Request, Own, Whole, Requested
<1>2. processor[p] # "idle" /\ processor[p] \notin {"closed", "Complete"} /\ p \notin announced
  BY <1>1 DEF Slot, Whole
<1>3. UNCHANGED <<processor, streamed, announced>>
  BY DEF Land, LandDelete, LandBulk, Expire
<1>4. ASSUME Requested(p)', writer'[p].running => Fate(p, writer[p], processor[p])'
      PROVE  Whole(p)'
  BY <1>2, <1>3, <1>4 DEF Whole
<1>5. CASE LandDelete(r)
  <2>1. Own(p)' = {}
    BY <1>1, <1>5 DEF LandDelete, Own
  <2>2. Requested(p)'
    BY <2>1 DEF Requested
  <2>3. PICK ok \in BOOLEAN :
          /\ ok => Previous \notin index'
          /\ Respond(r, [kind |-> "DeleteResponse", ok |-> ok, docs |-> r.docs])
          /\ index' \subseteq index
    BY <1>5 DEF LandDelete
  <2> DEFINE m == [kind |-> "DeleteResponse", ok |-> ok, docs |-> r.docs]
  <2>4. /\ m \in Command /\ m.kind \in Answers /\ m.ok = ok
        /\ IF r.awaited THEN Enqueue(p, m) ELSE UNCHANGED writer
    BY <1>1, <2>3, Commands DEF Answers, Respond
  <2>5. CASE ~ok
    <3> HIDE DEF m
    <3>1. writer'[p].running => Fate(p, writer[p], processor[p])'
      BY <1>1, <1>3, <2>4, <2>5, FailedRequest
    <3> QED BY <1>4, <2>2, <3>1
  <2>6. CASE ok
    <3>1. m = [kind |-> "DeleteResponse", ok |-> TRUE, docs |-> r.docs]
      BY <2>6
    <3> HIDE DEF m
    <3>2. /\ inserted'[p] = inserted[p] /\ Previous \notin index'
          /\ \A i \in Nat : Indexed(p, i)' => Indexed(p, i)
      BY <1>5, <2>3, <2>6 DEF LandDelete, Indexed
    <3>3. writer'[p].running => Fate(p, writer[p], processor[p])'
      BY <1>1, <1>3, <2>1, <2>4, <3>1, <3>2, ServedRequest
    <3> QED BY <1>4, <2>2, <3>3
  <2> QED BY <2>5, <2>6
<1>6. CASE LandBulk(r)
  <2>1. Own(p)' = {}
    BY <1>1, <1>6 DEF LandBulk, Own
  <2>2. Requested(p)'
    BY <2>1 DEF Requested
  <2>3. PICK done \in SUBSET ToSet(r.docs), ok \in BOOLEAN :
          /\ ok <=> done = ToSet(r.docs)
          /\ index' = index \cup ({p} \X done)
          /\ inserted' = IF ok THEN [inserted EXCEPT ![p] = @ \o r.docs] ELSE inserted
          /\ Respond(r, [kind |-> "IndexResponse", ok |-> ok])
    BY <1>6 DEF LandBulk
  <2> DEFINE m == [kind |-> "IndexResponse", ok |-> ok]
  <2>4. /\ m \in Command /\ m.kind \in Answers /\ m.ok = ok
        /\ IF r.awaited THEN Enqueue(p, m) ELSE UNCHANGED writer
    BY <2>3, Commands DEF Answers, Respond
  <2>5. CASE ~ok
    <3> HIDE DEF m
    <3>1. writer'[p].running => Fate(p, writer[p], processor[p])'
      BY <1>1, <1>3, <2>4, <2>5, FailedRequest
    <3> QED BY <1>4, <2>2, <3>1
  <2>6. CASE ok
    <3>1. m = [kind |-> "IndexResponse", ok |-> TRUE]
      BY <2>6
    <3> HIDE DEF m
    <3>2. inserted'[p] = inserted[p] \o r.docs
      BY <1>1, <2>3, <2>6 DEF TypeOK
    <3>3. Previous \notin index'
      <4>1. Previous \notin index
        BY <1>1, <1>6 DEF Whole, Requested, LandBulk
      <4>2. done \subseteq Nat
        <5>1. ToSet(r.docs) \subseteq Nat
          BY <1>1, LenProperties DEF ToSet, Chunks
        <5> QED BY <5>1
      <4> QED BY <1>1, <2>3, <4>1, <4>2, ConstantsAssumption
    <3>4. \A i \in Nat : Indexed(p, i)' => Indexed(p, i) \/ i \in ToSet(r.docs)
      BY <2>3 DEF Indexed
    <3>5. writer'[p].running => Fate(p, writer[p], processor[p])'
      BY <1>1, <1>3, <2>1, <2>4, <3>1, <3>2, <3>3, <3>4, ServedRequest
    <3> QED BY <1>4, <2>2, <3>5
  <2> QED BY <2>5, <2>6
<1>7. CASE Expire(r)
  <2> DEFINE s == [r EXCEPT !.awaited = FALSE]
  <2>1. s.by = p /\ s.op = r.op /\ s.docs = r.docs
    BY <1>1 DEF Request
  <2>2. Own(p)' = {s}
    BY <1>1, <1>7, <2>1 DEF Expire, Own
  <2> HIDE DEF s
  <2>3. Requested(p)'
    BY <1>1, <1>3, <1>7, <2>1, <2>2 DEF Requested, Whole, Expire, searchEngine, Indexed
  <2>4. PICK m \in Command :
          /\ m.kind \in Answers /\ ~m.ok
          /\ IF r.awaited THEN Enqueue(p, m) ELSE UNCHANGED writer
    <3>1. /\ [kind |-> "IndexResponse", ok |-> FALSE] \in Command
          /\ [kind |-> "DeleteResponse", ok |-> FALSE, docs |-> r.docs] \in Command
      BY <1>1, Commands
    <3> QED BY <1>7, <3>1 DEF Expire, Respond, Answers
  <2>5. writer'[p].running => Fate(p, writer[p], processor[p])'
    BY <1>1, <1>3, <2>4, FailedRequest
  <2> QED BY <1>4, <2>3, <2>5
<1>8. Whole(p)'
  BY <1>5, <1>6, <1>7 DEF Land
<1> QED BY <1>8

-----------------------------------------------------------------------------
(* Every step *)

LEMMA WholeFrame ==
  ASSUME NEW q \in Processors, Whole(q),
         writer'[q] = writer[q], processor'[q] = processor[q],
         streamed'[q] = streamed[q], inserted'[q] = inserted[q],
         q \in announced' <=> q \in announced, Own(q)' = Own(q),
         \A i \in Nat : Indexed(q, i)' => Indexed(q, i),
         Previous \in index' => Previous \in index
  PROVE  Whole(q)'
<1>1. Requested(q)'
  <2>1. \A r, s \in Own(q)' : r = s
    BY DEF Whole, Requested
  <2>2. ASSUME NEW r \in Own(q)', r.op = "bulk", Previous \notin index,
               NEW a \in Nat, NEW b \in Nat, a <= b, b <= streamed[q],
               inserted[q] = Run(0, a), r.docs = Run(a, b),
               \A i \in Nat : Indexed(q, i) => i <= a
        PROVE  /\ Previous \notin index' /\ b <= streamed'[q]
               /\ inserted'[q] = Run(0, a)
               /\ \A i \in Nat : Indexed(q, i)' => i <= a
    BY <2>2
  <2> QED BY <2>1, <2>2 DEF Whole, Requested
<1>2. ASSUME writer[q].running
      PROVE  Fate(q, writer[q], processor[q])'
  <2>1. \A docs : Flight(q, writer[q], docs) => Flight(q, writer[q], docs)'
    BY DEF Flight
  <2>2. \A a, b, c \in Nat :
          Chain(q, writer[q], processor[q], a, b, c)
            => Chain(q, writer[q], processor[q], a, b, c)'
    BY <2>1 DEF Chain
  <2>3. Fate(q, writer[q], processor[q])
    BY <1>2 DEF Whole
  <2> QED BY <2>2, <2>3 DEF Fate
<1> QED BY <1>1, <1>2 DEF Whole

LEMMA StepApart ==
  ASSUME TypeOK, NEW p \in Processors, NEW q \in Processors \ {p},
         \/ WriterStep(p) \/ OnFlushTick(p) \/ ProcessorStep(p)
         \/ AskWriter(p) \/ StreamCompletes(p) \/ StreamFails(p)
         \/ AskTimesOut(p) \/ Crash(p)
  PROVE  /\ streamed'[q] = streamed[q] /\ UNCHANGED <<index, inserted>>
         /\ q \in announced' <=> q \in announced
<1>1. UNCHANGED <<index, inserted>> /\ (q \in announced' <=> q \in announced)
  BY DEF WriterStep, OnWriteChunk, OnEndStream, OnDeleteResponse, OnIndexResponse,
         OnFlushTick, ProcessorStep, OnStart, OnStreamCompleted, OnStreamClosed,
         OnStreamFailed, AskWriter, StreamCompletes, StreamFails, AskTimesOut, Crash,
         searchEngine
<1>2. streamed'[q] = streamed[q]
  BY DEF WriterStep, OnWriteChunk, OnEndStream, OnDeleteResponse, OnIndexResponse,
         OnFlushTick, ProcessorStep, OnStart, OnStreamCompleted, OnStreamClosed,
         OnStreamFailed, AskWriter, StreamCompletes, StreamFails, AskTimesOut, Crash,
         TypeOK
<1> QED BY <1>1, <1>2

LEMMA SearchApart ==
  ASSUME TypeOK, NEW r \in requests, NEW q \in Processors \ {r.by}, Land(r) \/ Expire(r),
         Whole(r.by)
  PROVE  /\ writer'[q] = writer[q] /\ inserted'[q] = inserted[q]
         /\ UNCHANGED <<processor, streamed, announced>>
         /\ Own(q)' = Own(q)
         /\ \A i \in Nat : Indexed(q, i)' => Indexed(q, i)
         /\ Previous \in index' => Previous \in index
<1>1. r \in Request /\ r.by \in Processors
  BY DEF TypeOK, Request
<1>2. [r EXCEPT !.awaited = FALSE].by = r.by
  BY <1>1 DEF Request
<1>3. \A m : Respond(r, m) => writer'[q] = writer[q]
  BY <1>1 DEF Respond, Enqueue, TypeOK
<1>4. writer'[q] = writer[q] /\ UNCHANGED <<processor, streamed, announced>>
  BY <1>3 DEF Land, LandDelete, LandBulk, Expire
<1>5. Own(q)' = Own(q)
  <2>1. requests' \in {requests \ {r}, (requests \ {r}) \cup {[r EXCEPT !.awaited = FALSE]}}
    BY DEF Land, LandDelete, LandBulk, Expire
  <2> QED BY <1>2, <2>1 DEF Own
<1>6. CASE LandBulk(r)
  <2>1. PICK done \in SUBSET ToSet(r.docs), ok \in BOOLEAN :
          /\ index' = index \cup ({r.by} \X done)
          /\ inserted' = IF ok THEN [inserted EXCEPT ![r.by] = @ \o r.docs] ELSE inserted
    BY <1>6 DEF LandBulk
  <2>2. inserted'[q] = inserted[q]
    BY <1>1, <2>1 DEF TypeOK
  <2>3. \A i \in Nat : Indexed(q, i)' => Indexed(q, i)
    BY <2>1 DEF Indexed
  <2>4. Previous \in index' => Previous \in index
    <3>1. ToSet(r.docs) \subseteq Nat
      BY <1>1, LenProperties DEF Request, ToSet, Chunks
    <3> QED BY <1>1, <2>1, <3>1, ConstantsAssumption
  <2> QED BY <1>4, <1>5, <2>2, <2>3, <2>4
<1>7. CASE LandDelete(r) \/ Expire(r)
  <2>1. inserted' = inserted /\ index' \subseteq index
    BY <1>7 DEF LandDelete, Expire, searchEngine
  <2> QED BY <1>4, <1>5, <2>1 DEF Indexed
<1> QED BY <1>6, <1>7 DEF Land

LEMMA InitReplaced == Init => ReplacedInv
<1> SUFFICES ASSUME Init PROVE ReplacedInv
  OBVIOUS
<1>1. ~NoWriter.running
  BY DEF NoWriter, NewWriter
<1>2. ASSUME NEW p \in Processors
      PROVE  Whole(p)
  <2>1. \A i \in Nat : ~Indexed(p, i)
    BY ConstantsAssumption DEF Init, Indexed
  <2>2. Requested(p)
    BY DEF Init, Requested, Own
  <2> QED BY <1>1, <2>1, <2>2 DEF Init, Whole
<1> QED BY <1>2, InitSlots DEF ReplacedInv

LEMMA NextReplaced == ReplacedInv /\ [Next]_vars => ReplacedInv'
<1> SUFFICES ASSUME SlotsInv, \A p \in Processors : Whole(p), [Next]_vars
             PROVE  \A q \in Processors : Whole(q)'
  BY NextSlots DEF ReplacedInv
<1>1. TypeOK /\ TypeOK'
  BY NextType DEF SlotsInv
<1>2. ASSUME NEW p \in Processors,
             \/ WriterStep(p) \/ OnFlushTick(p) \/ ProcessorStep(p)
             \/ AskWriter(p) \/ StreamCompletes(p) \/ StreamFails(p)
             \/ AskTimesOut(p) \/ Crash(p),
             NEW q \in Processors
      PROVE  Whole(q)'
  <2>1. CASE q = p
    BY <1>2, <2>1, OnWriteChunkWhole, OnFlushTickWhole, OnDeleteResponseWhole,
       OnIndexResponseWhole, OnEndStreamWhole, ProcessorWhole DEF WriterStep
  <2>2. CASE q # p
    <3>1. Apart(p)
      BY <1>1, <1>2, WriterApart, ProcessorApart
    <3>2. Own(q)' = Own(q)
      BY <2>2, <3>1 DEF Apart, Own
    <3>3. /\ streamed'[q] = streamed[q] /\ UNCHANGED <<index, inserted>>
          /\ q \in announced' <=> q \in announced
      BY <1>1, <1>2, <2>2, StepApart
    <3>4. writer'[q] = writer[q] /\ processor'[q] = processor[q]
      BY <2>2, <3>1 DEF Apart
    <3> QED BY <3>2, <3>3, <3>4, WholeFrame DEF Indexed
  <2> QED BY <2>1, <2>2
<1>3. ASSUME NEW r \in requests, Land(r) \/ Expire(r), NEW q \in Processors
      PROVE  Whole(q)'
  <2>1. r.by \in Processors
    BY <1>1 DEF TypeOK, Request
  <2>2. CASE q = r.by
    BY <1>1, <1>3, <2>1, <2>2, SearchWhole
  <2>3. CASE q # r.by
    BY <1>1, <1>3, <2>1, <2>3, SearchApart, WholeFrame
  <2> QED BY <2>2, <2>3
<1>4. ASSUME UNCHANGED vars, NEW q \in Processors
      PROVE  Whole(q)'
  BY <1>4, WholeFrame DEF vars, Own, Indexed
<1> QED BY <1>2, <1>3, <1>4 DEF Next

LEMMA ReplacedHolds == Spec => []ReplacedInv
  BY InitReplaced, NextReplaced, PTL DEF Spec

(* A content is confirmed, and announced, only with every chunk of its      *)
(* stream inserted, once and in order, whoever was told of a failed write.  *)
THEOREM Done == Spec => []DoneMeansIndexed
<1>1. ReplacedInv => DoneMeansIndexed
  <2> SUFFICES ASSUME ReplacedInv, NEW p \in Processors,
                      processor[p] \in {"closed", "Complete"} \/ p \in announced
               PROVE  inserted[p] = [i \in 1 .. streamed[p] |-> i]
    BY DEF DoneMeansIndexed
  <2>1. inserted[p] = Run(0, streamed[p]) /\ streamed[p] \in Nat
    BY DEF ReplacedInv, Whole, SlotsInv, TypeOK
  <2> QED BY <2>1, RunZero
<1> QED BY <1>1, ReplacedHolds, PTL

-----------------------------------------------------------------------------
(* The replacement: every step is one of it, or none *)

LEMMA Unseen ==
  ASSUME UNCHANGED <<index, streamed, inserted>>,
         \A q \in Processors : \/ processor'[q] = processor[q]
                               \/ processor[q] \notin Endings /\ processor'[q] \notin Endings
  PROVE  UNCHANGED Replacement!vars
<1> DEFINE outcome == [q \in Processors |-> IF processor[q] \in Endings THEN processor[q] ELSE "open"]
<1>1. outcome' = outcome
  OBVIOUS
<1> QED BY <1>1 DEF Replacement!vars

LEMMA TellUnseen ==
  ASSUME TypeOK, NEW p \in Processors, UNCHANGED <<index, streamed, inserted>>,
         UNCHANGED processor \/ \E ok : Tell(p, ok)
  PROVE  UNCHANGED Replacement!vars
<1>1. ASSUME NEW ok, Tell(p, ok), NEW q \in Processors
      PROVE  \/ processor'[q] = processor[q]
             \/ processor[q] \notin Endings /\ processor'[q] \notin Endings
  BY <1>1 DEF Tell, TypeOK, Endings
<1> QED BY <1>1, Unseen

LEMMA CompleteWriteTells ==
  ASSUME NEW p, NEW w, NEW ok, CompleteWrite(p, w, ok)
  PROVE  UNCHANGED processor \/ \E answer : Tell(p, answer)
  BY DEF CompleteWrite

LEMMA FlushTells ==
  ASSUME NEW p, NEW w, NEW ack, Flush(p, w, ack)
  PROVE  UNCHANGED processor \/ \E answer : Tell(p, answer)
  BY CompleteWriteTells DEF Flush, IndexBatch, IOException

LEMMA WriterUnseen ==
  ASSUME TypeOK, NEW p \in Processors, WriterStep(p) \/ OnFlushTick(p)
  PROVE  UNCHANGED Replacement!vars
<1>1. UNCHANGED <<index, streamed, inserted>>
  BY DEF WriterStep, OnWriteChunk, OnEndStream, OnDeleteResponse, OnIndexResponse,
         OnFlushTick, searchEngine
<1>2. UNCHANGED processor \/ \E answer : Tell(p, answer)
  <2>1. CASE OnWriteChunk(p)
    BY <2>1, FlushTells DEF OnWriteChunk, Buffer, Answer
  <2>2. CASE OnEndStream(p)
    BY <2>2, FlushTells DEF OnEndStream
  <2>3. CASE OnDeleteResponse(p)
    BY <2>3, CompleteWriteTells DEF OnDeleteResponse, IndexBatch, IOException
  <2>4. CASE OnIndexResponse(p)
    BY <2>4, CompleteWriteTells DEF OnIndexResponse
  <2>5. CASE OnFlushTick(p)
    BY <2>5, FlushTells DEF OnFlushTick
  <2> QED BY <2>1, <2>2, <2>3, <2>4, <2>5 DEF WriterStep
<1> QED BY <1>1, <1>2, TellUnseen

LEMMA CloseOutcome ==
  ASSUME TypeOK, NEW p \in Processors, NEW how \in Endings,
         processor[p] \notin Endings, processor' = [processor EXCEPT ![p] = how],
         UNCHANGED <<index, streamed, inserted>>,
         how = "Complete" => inserted[p] = [i \in 1 .. streamed[p] |-> i]
  PROVE  Replacement!Close(p, how)
<1> DEFINE outcome == [q \in Processors |-> IF processor[q] \in Endings THEN processor[q] ELSE "open"]
<1>1. outcome[p] = "open"
  OBVIOUS
<1>2. outcome' = [outcome EXCEPT ![p] = how]
  BY DEF TypeOK
<1> HIDE DEF outcome
<1>3. UNCHANGED <<index, streamed, inserted>>
  OBVIOUS
<1> QED BY <1>1, <1>2, <1>3 DEF Replacement!Close, outcome

LEMMA ProcessorReplaces ==
  ASSUME ReplacedInv, NEW p \in Processors,
         \/ ProcessorStep(p) \/ AskWriter(p) \/ StreamCompletes(p)
         \/ StreamFails(p) \/ AskTimesOut(p) \/ Crash(p)
  PROVE  Replacement!Next \/ UNCHANGED Replacement!vars
<1>1. TypeOK /\ UNCHANGED <<index, inserted>>
  BY DEF ReplacedInv, SlotsInv, ProcessorStep, OnStart, OnStreamCompleted, OnStreamClosed,
         OnStreamFailed, AskWriter, StreamCompletes, StreamFails, AskTimesOut, Crash, searchEngine
<1>2. CASE OnStreamClosed(p)
  <2>1. inserted[p] = [i \in 1 .. streamed[p] |-> i]
    <3>1. inserted[p] = Run(0, streamed[p]) /\ streamed[p] \in Nat
      BY <1>1, <1>2 DEF ReplacedInv, Whole, TypeOK, OnStreamClosed, Move
    <3> QED BY <3>1, RunZero
  <2>2. Replacement!Close(p, "Complete")
    BY <1>1, <1>2, <2>1, CloseOutcome DEF OnStreamClosed, Move, Endings
  <2> QED BY <2>2 DEF Replacement!Next
<1>3. CASE OnStreamFailed(p)
  <2>1. Replacement!Close(p, "Failure")
    BY <1>1, <1>3, CloseOutcome DEF OnStreamFailed, Move, Endings
  <2> QED BY <2>1 DEF Replacement!Next
<1>4. CASE Crash(p)
  <2>1. CASE processor[p] \notin Endings
    <3>1. Replacement!Close(p, "Crashed")
      BY <1>1, <1>4, <2>1, CloseOutcome DEF Crash, Move, Endings
    <3> QED BY <3>1 DEF Replacement!Next
  <2>2. CASE processor[p] \in Endings
    BY <1>4, <2>2 DEF Crash, Move, Endings, Phases
  <2> QED BY <2>1, <2>2
<1>5. CASE AskWriter(p) /\ streamed' # streamed
  <2>1. streamed' = [streamed EXCEPT ![p] = @ + 1]
    BY <1>5 DEF AskWriter
  <2>2. processor[p] = "streaming" /\ processor' = [processor EXCEPT ![p] = "asking"]
    BY <1>5 DEF AskWriter, Move
  <2> DEFINE outcome == [q \in Processors |-> IF processor[q] \in Endings THEN processor[q] ELSE "open"]
  <2>3. outcome[p] = "open" /\ outcome' = outcome
    BY <1>1, <2>2 DEF TypeOK, Endings
  <2>4. Replacement!Stream(p)
    BY <1>1, <2>1, <2>3 DEF Replacement!Stream
  <2> QED BY <2>4 DEF Replacement!Next
<1>6. CASE AskWriter(p) /\ streamed' = streamed
  <2>1. processor[p] = "streaming" /\ processor' = [processor EXCEPT ![p] = "asking"]
    BY <1>6 DEF AskWriter, Move
  <2> QED BY <1>1, <1>6, <2>1, Unseen DEF TypeOK, Endings
<1>7. CASE OnStart(p) \/ OnStreamCompleted(p) \/ StreamCompletes(p) \/ StreamFails(p) \/ AskTimesOut(p)
  <2>1. /\ UNCHANGED streamed
        /\ \E from, to \in Phases : processor[p] = from /\ processor' = [processor EXCEPT ![p] = to]
    BY <1>7 DEF OnStart, OnStreamCompleted, StreamCompletes, StreamFails, AskTimesOut, Move, Phases
  <2>2. \A phase \in Phases : phase \notin Endings
    BY DEF Phases, Endings
  <2> QED BY <1>1, <2>1, <2>2, Unseen DEF TypeOK
<1> QED BY <1>2, <1>3, <1>4, <1>5, <1>6, <1>7 DEF ProcessorStep

LEMMA SearchReplaces ==
  ASSUME ReplacedInv, NEW r \in requests, Land(r) \/ Expire(r)
  PROVE  Replacement!Next \/ UNCHANGED Replacement!vars
<1> PICK p : p = r.by
  OBVIOUS
<1>1. /\ TypeOK /\ p \in Processors /\ r \in Own(p) /\ Requested(p)
      /\ streamed[p] \in Nat /\ inserted \in [Processors -> Chunks]
  BY DEF ReplacedInv, SlotsInv, TypeOK, Request, Own, Whole
<1>2. UNCHANGED <<processor, streamed>>
  BY DEF Land, LandDelete, LandBulk, Expire
<1> DEFINE outcome == [q \in Processors |-> IF processor[q] \in Endings THEN processor[q] ELSE "open"]
<1>3. outcome' = outcome
  BY <1>2
<1>4. CASE LandDelete(r)
  <2>1. streamed[p] > 0 /\ inserted[p] = <<>>
    BY <1>1, <1>4 DEF Requested, LandDelete
  <2>2. \E gone \in SUBSET index : index' = index \ gone
    BY <1>4 DEF LandDelete
  <2>3. UNCHANGED inserted
    BY <1>4 DEF LandDelete
  <2>4. Replacement!Delete(p)
    BY <1>2, <1>3, <2>1, <2>2, <2>3 DEF Replacement!Delete
  <2> QED BY <1>1, <2>4 DEF Replacement!Next
<1>5. CASE LandBulk(r)
  <2>1. Previous \notin index
    BY <1>1, <1>5 DEF Requested, LandBulk
  <2>2. PICK a \in Nat, b \in Nat :
          /\ a <= b /\ b <= streamed[p]
          /\ inserted[p] = Run(0, a) /\ r.docs = Run(a, b)
          /\ \A i \in Nat : Indexed(p, i) => i <= a
    BY <1>1, <1>5 DEF Requested, LandBulk
  <2> DEFINE batch == (a + 1) .. b
  <2>3. PICK done \in SUBSET ToSet(r.docs), ok \in BOOLEAN :
          /\ ok <=> done = ToSet(r.docs)
          /\ index' = index \cup ({p} \X done)
          /\ inserted' = IF ok THEN [inserted EXCEPT ![p] = @ \o r.docs] ELSE inserted
    BY <1>5 DEF LandBulk
  <2>4. ToSet(r.docs) = batch
    BY <2>2, RunSet
  <2>5. 0 \in Nat /\ 0 <= a
    OBVIOUS
  <2>6. Len(inserted[p]) = a
    <3>1. Len(Run(0, a)) = a - 0
      BY <2>5, RunParts
    <3> QED BY <2>2, <3>1
  <2>7. inserted[p] \o r.docs = [i \in 1 .. b |-> i]
    <3>1. Run(0, a) \o Run(a, b) = Run(0, b)
      BY <2>2, <2>5, RunConcat
    <3> QED BY <2>2, <3>1, RunZero
  <2>8. ({p} \X batch) \cap index = {}
    <3>1. \A i \in batch : i \in Nat /\ ~(i <= a)
      OBVIOUS
    <3> QED BY <2>2, <3>1 DEF Indexed
  <2>9. b \in a .. streamed[p]
    BY <1>1, <2>2
  <2> HIDE DEF batch
  <2>10. \/ /\ index' = index \cup ({p} \X batch)
            /\ inserted' = [inserted EXCEPT ![p] = [i \in 1 .. b |-> i]]
         \/ /\ \E part \in SUBSET batch : index' = index \cup ({p} \X part)
            /\ UNCHANGED inserted
    <3>1. [inserted EXCEPT ![p] = @ \o r.docs] = [inserted EXCEPT ![p] = [i \in 1 .. b |-> i]]
      BY <2>7
    <3> QED BY <2>3, <2>4, <3>1
  <2>11. Replacement!Insert(p)
    BY <1>2, <1>3, <2>1, <2>6, <2>8, <2>9, <2>10 DEF Replacement!Insert, batch
  <2> QED BY <1>1, <2>11 DEF Replacement!Next
<1>6. CASE Expire(r)
  BY <1>2, <1>6, Unseen DEF Expire, searchEngine
<1> QED BY <1>4, <1>5, <1>6 DEF Land

LEMMA InitReplaces == Init => Replacement!Init
<1> SUFFICES ASSUME Init PROVE Replacement!Init
  OBVIOUS
<1> DEFINE outcome == [q \in Processors |-> IF processor[q] \in Endings THEN processor[q] ELSE "open"]
<1>1. outcome = [q \in Processors |-> "open"]
  BY DEF Init, Endings
<1> QED BY <1>1 DEF Init, Replacement!Init

(* The chunk stream implements the replacement of a version by the next: a  *)
(* delete comes before any insertion, chunks come in order and once, and    *)
(* Complete only when all of them are there.                                *)
THEOREM Refinement == Spec => ImplementsReplacement
<1>1. ReplacedInv /\ [Next]_vars => [Replacement!Next]_(Replacement!vars)
  <2> SUFFICES ASSUME ReplacedInv, [Next]_vars
               PROVE  Replacement!Next \/ UNCHANGED Replacement!vars
    OBVIOUS
  <2>1. CASE UNCHANGED vars
    BY <2>1, Unseen DEF vars
  <2>2. TypeOK
    BY DEF ReplacedInv, SlotsInv
  <2> QED BY <2>1, <2>2, WriterUnseen, ProcessorReplaces, SearchReplaces DEF Next
<1> QED BY <1>1, InitReplaces, ReplacedHolds, PTL
        DEF Spec, ImplementsReplacement, Replacement!Spec
=============================================================================
