------------------------ MODULE DeliveryLedgerProofs ------------------------
(***************************************************************************)
(* The Scheduling entity implements the ledger its consumers rely on       *)
(* (Refinement), answers a delivery at most once (Answers), and lets the   *)
(* row and the Datasource take over only dates of work done                *)
(* (SourcedDates): for any deliveries, requests, workers, events and       *)
(* failures, across crashes and incarnations.                              *)
(*                                                                         *)
(* A delivery is one token.  Once sent it is in one place at a time: asked *)
(* in the mailbox or set aside, with the WorkStage, in the first response  *)
(* about it, held, or answered.  A crash or a stop may lose the token,     *)
(* nothing makes a second one; a Done or a Failed carries none, and is     *)
(* worth an answer only while the delivery is held.                        *)
(***************************************************************************)
EXTENDS SchedulingProofs, FiniteSetTheorems

-----------------------------------------------------------------------------
(* The invariants *)

(* How many elements of a sequence are in a set.                            *)
Among(q, S) == Cardinality({ i \in DOMAIN q : q[i] \in S })

(* The messages that carry the token of a delivery.                         *)
Token(d) ==
  { m \in Command :
      /\ m.kind \in {"Ingest", "WorkStageResponse"}
      /\ m.kind = "WorkStageResponse" => m.outcome \notin {"Done", "Failed"}
      /\ m.from = d }

One(x, S) == IF x \in S THEN 1 ELSE 0

Queueing(d) == Among(mailbox, Token(d)) + Among(lag, Token(d))
Settled(d) == Among(workBox, {d}) + One(d, held) + Len(answers[d])

OneToken == \A d \in Deliveries : Queueing(d) + Settled(d) <= One(d, sent)

(* Only a document that was sent is worked.                                 *)
WorkKnown == \A d \in working : d \in sent /\ PayloadType[d] = "DOCUMENT"

LedgerInv == Soundness /\ OneToken /\ WorkKnown

(* No date, or one that has its source.                                     *)
Sourced(date) == date = Null \/ HasSource(date)

SourcedCommand ==
  { m \in Command :
      /\ m.kind = "TrackDate" => HasSource(m.date)
      /\ m.kind = "UpdateScheduler" /\ m.row # Null => Sourced(m.row.date)
      /\ m.kind = "WorkStageResponse" /\ m.outcome = "Last"
           => PayloadType[m.from] = "LAST" }

SourcedTransaction ==
  { t \in Transaction :
      /\ t.request.op = "date" => HasSource(t.request.date)
      /\ t.read # Null => Sourced(t.read.date) }

(* The cached row, the one the CloseStage was started with, the row and the *)
(* Datasource.                                                              *)
RowsSourced ==
  /\ scheduler # Null => Sourced(scheduler.date)
  /\ closeStage.row # Null => Sourced(closeStage.row.date)
  /\ Sourced(row.date) /\ Sourced(datasource)

(* Every copy of the date is sourced: in the messages, the transactions and *)
(* the rows.                                                                *)
DatesSourced ==
  /\ mailbox \in Seq(SourcedCommand) /\ lag \in Seq(SourcedCommand)
  /\ transactions \in Seq(SourcedTransaction)
  /\ RowsSourced

-----------------------------------------------------------------------------
(* Counting in sequences *)

LEMMA AmongFinite ==
  ASSUME NEW T, NEW q \in Seq(T), NEW S
  PROVE  /\ IsFiniteSet({ i \in DOMAIN q : q[i] \in S })
         /\ Among(q, S) \in Nat
<1>1. DOMAIN q = 1 .. Len(q) /\ Len(q) \in Nat
  BY LenProperties
<1>2. IsFiniteSet(1 .. Len(q))
  BY <1>1, FS_Interval
<1>3. { i \in DOMAIN q : q[i] \in S } \in SUBSET (1 .. Len(q))
  BY <1>1
<1>4. IsFiniteSet({ i \in DOMAIN q : q[i] \in S })
  BY <1>2, <1>3, FS_Subset
<1> QED BY <1>4, FS_CardinalityType DEF Among

(* The count of no and of one element.                                       *)
LEMMA AmongSmall ==
  ASSUME NEW S
  PROVE  Among(<<>>, S) = 0 /\ \A x : Among(<<x>>, S) = One(x, S)
<1>1. { i \in DOMAIN <<>> : <<>>[i] \in S } = {}
  OBVIOUS
<1>2. ASSUME NEW x
      PROVE  Among(<<x>>, S) = One(x, S)
  <2>1. <<x>>[1] = x /\ DOMAIN <<x>> = {1}
    OBVIOUS
  <2>2. CASE x \in S
    <3>1. { i \in DOMAIN <<x>> : <<x>>[i] \in S } = {1}
      BY <2>1, <2>2
    <3> QED BY <2>2, <3>1, FS_Singleton DEF Among, One
  <2>3. CASE x \notin S
    <3>1. { i \in DOMAIN <<x>> : <<x>>[i] \in S } = {}
      BY <2>1, <2>3
    <3> QED BY <2>3, <3>1, FS_EmptySet DEF Among, One
  <2> QED BY <2>2, <2>3
<1> QED BY <1>1, <1>2, FS_EmptySet DEF Among

(* The count of a concatenation.                                             *)
LEMMA AmongConcat ==
  ASSUME NEW T, NEW q \in Seq(T), NEW r \in Seq(T), NEW S
  PROVE  Among(q \o r, S) = Among(q, S) + Among(r, S)
<1> DEFINE n == Len(q)
           A == { i \in DOMAIN q : q[i] \in S }
           B == { i \in DOMAIN r : r[i] \in S }
           C == { i \in DOMAIN (q \o r) : (q \o r)[i] \in S }
           shifted == { i \in (n + 1) .. (n + Len(r)) : r[i - n] \in S }
           shift == [i \in B |-> i + n]
<1>1. /\ n \in Nat /\ Len(r) \in Nat
      /\ DOMAIN q = 1 .. n /\ DOMAIN r = 1 .. Len(r)
      /\ DOMAIN (q \o r) = 1 .. (n + Len(r))
      /\ \A i \in 1 .. (n + Len(r)) : (q \o r)[i] = IF i <= n THEN q[i] ELSE r[i - n]
  <2>1. q \o r \in Seq(T) /\ Len(q \o r) = n + Len(r)
    BY ConcatProperties
  <2>2. DOMAIN (q \o r) = 1 .. Len(q \o r)
    BY <2>1, LenProperties
  <2> QED BY <2>1, <2>2, LenProperties, ConcatProperties
<1>2. IsFiniteSet(A) /\ IsFiniteSet(B)
  BY AmongFinite
<1>3. C = A \cup shifted /\ A \cap shifted = {}
  <2>1. \A i \in 1 .. (n + Len(r)) : i \in 1 .. n \/ i \in (n + 1) .. (n + Len(r))
    BY <1>1
  <2>2. \A i \in 1 .. n : i <= n /\ i \in 1 .. (n + Len(r))
    BY <1>1
  <2>3. \A i \in (n + 1) .. (n + Len(r)) : ~(i <= n) /\ i \in 1 .. (n + Len(r)) /\ i \notin 1 .. n
    BY <1>1
  <2> QED BY <1>1, <2>1, <2>2, <2>3
<1>4. shift \in Bijection(B, shifted)
  <2>1. \A i \in B : i \in 1 .. Len(r) /\ r[i] \in S
    BY <1>1
  <2>2. \A i \in 1 .. Len(r) : i + n \in (n + 1) .. (n + Len(r)) /\ (i + n) - n = i
    BY <1>1
  <2>3. shift \in [B -> shifted]
    BY <2>1, <2>2
  <2>4. \A i, j \in B : shift[i] = shift[j] => i = j
    BY <2>1, <1>1
  <2>5. \A k \in shifted : k - n \in B /\ shift[k - n] = k
    <3>1. \A k \in (n + 1) .. (n + Len(r)) : k - n \in 1 .. Len(r) /\ (k - n) + n = k
      BY <1>1
    <3> QED BY <1>1, <3>1
  <2> QED BY <2>3, <2>4, <2>5 DEF Bijection, Injection, Surjection, IsInjective
<1>5. IsFiniteSet(shifted) /\ Cardinality(shifted) = Cardinality(B)
  BY <1>2, <1>4, FS_Bijection DEF ExistsBijection
<1>9. /\ Among(q \o r, S) = Cardinality(C)
      /\ Among(q, S) = Cardinality(A) /\ Among(r, S) = Cardinality(B)
  BY DEF Among
<1> HIDE DEF shifted, A, B, C, shift
<1>6. Cardinality(C) = Cardinality(A) + Cardinality(shifted) - Cardinality(A \cap shifted)
  BY <1>2, <1>3, <1>5, FS_Union
<1>7. Cardinality(A \cap shifted) = 0
  BY <1>3, FS_EmptySet
<1>8. Cardinality(A) \in Nat /\ Cardinality(B) \in Nat
  BY <1>2, FS_CardinalityType
<1> QED BY <1>5, <1>6, <1>7, <1>8, <1>9

(* The count of a head and a tail.                                           *)
LEMMA AmongHeadTail ==
  ASSUME NEW T, NEW q \in Seq(T), q # <<>>, NEW S
  PROVE  Among(q, S) = One(Head(q), S) + Among(Tail(q), S)
<1>1. q = <<Head(q)>> \o Tail(q) /\ <<Head(q)>> \in Seq(T) /\ Tail(q) \in Seq(T)
  BY HeadTailProperties
<1>2. Among(<<Head(q)>> \o Tail(q), S) = Among(<<Head(q)>>, S) + Among(Tail(q), S)
  BY <1>1, AmongConcat
<1> QED BY <1>1, <1>2, AmongSmall

(* The count of one element more.                                            *)
LEMMA AmongAppend ==
  ASSUME NEW T, NEW q \in Seq(T), NEW x \in T, NEW S
  PROVE  Among(Append(q, x), S) = Among(q, S) + One(x, S)
<1>1. Append(q, x) = q \o <<x>> /\ <<x>> \in Seq(T)
  BY AppendIsConcat
<1>2. Among(q \o <<x>>, S) = Among(q, S) + Among(<<x>>, S)
  BY <1>1, AmongConcat
<1> QED BY <1>1, <1>2, AmongSmall

(* An element counts for a natural number.                                   *)
LEMMA OneNat == \A x, S : One(x, S) \in Nat
  BY DEF One

(* Voiding ticks takes no token.                                            *)
LEMMA AmongVoid ==
  ASSUME NEW q \in Seq(Command), NEW d
  PROVE  Among(WithoutTick(q), Token(d)) = Among(q, Token(d))
<1>1. DOMAIN WithoutTick(q) = DOMAIN q
  BY DEF WithoutTick
<1>2. \A i \in DOMAIN q : WithoutTick(q)[i] \in Token(d) <=> q[i] \in Token(d)
  BY DEF WithoutTick, Token, Signal
<1> QED BY <1>1, <1>2 DEF Among

-----------------------------------------------------------------------------
(* The tokens of the queues *)

(* What the handlers tell carries no token.                                 *)
LEMMA Tokenless ==
  ASSUME NEW d, NEW m, m.kind \notin {"Ingest", "WorkStageResponse"}
  PROVE  /\ m \notin Token(d) /\ One(m, Token(d)) = 0
         /\ Among(<<m>>, Token(d)) = 0
  BY AmongSmall DEF Token, One

(* The counts are natural numbers before a step,                             *)
LEMMA QueueingNat ==
  ASSUME TypeOK, NEW d \in Deliveries
  PROVE  /\ Queueing(d) \in Nat /\ Settled(d) \in Nat
         /\ Among(mailbox, Token(d)) \in Nat /\ Among(lag, Token(d)) \in Nat
         /\ Among(workBox, {d}) \in Nat /\ One(d, held) \in Nat
         /\ Len(answers[d]) \in Nat
<1>1. /\ mailbox \in Seq(Command) /\ lag \in Seq(Command) /\ workBox \in Seq(Deliveries)
      /\ answers[d] \in Seq({"Success", "Failure"})
  BY DEF TypeOK, Requesters
<1>2. /\ Among(mailbox, Token(d)) \in Nat /\ Among(lag, Token(d)) \in Nat
      /\ Among(workBox, {d}) \in Nat /\ Len(answers[d]) \in Nat
  BY <1>1, AmongFinite, LenProperties
<1>3. One(d, held) \in Nat
  BY DEF One
<1> QED BY <1>2, <1>3 DEF Queueing, Settled

(* and after it.                                                             *)
LEMMA QueueingNext ==
  ASSUME TypeOK', NEW d \in Deliveries
  PROVE  /\ Queueing(d)' \in Nat /\ Settled(d)' \in Nat
         /\ Among(workBox, {d})' \in Nat /\ Len(answers[d])' \in Nat
<1>1. /\ mailbox' \in Seq(Command) /\ lag' \in Seq(Command) /\ workBox' \in Seq(Deliveries)
      /\ answers'[d] \in Seq({"Success", "Failure"})
  BY DEF TypeOK, Requesters
<1>2. /\ Among(mailbox', Token(d)) \in Nat /\ Among(lag', Token(d)) \in Nat
      /\ Among(workBox', {d}) \in Nat /\ Len(answers'[d]) \in Nat
  BY <1>1, AmongFinite, LenProperties
<1>3. One(d, held') \in Nat
  BY DEF One
<1> QED BY <1>2, <1>3 DEF Queueing, Settled

(* The token of the message a behavior is given leaves the mailbox.         *)
LEMMA IncomingToken ==
  ASSUME TypeOK, mailbox # <<>>, NEW d
  PROVE  /\ Incoming \in Token(d) <=> Head(mailbox) \in Token(d)
         /\ Among(mailbox, Token(d)) = One(Incoming, Token(d)) + Among(Tail(mailbox), Token(d))
         /\ Among(Tail(mailbox), Token(d)) \in Nat
<1>1. Incoming \in Token(d) <=> Head(mailbox) \in Token(d)
  <2>1. Incoming = Head(mailbox) \/ /\ Incoming.kind \notin {"Ingest", "WorkStageResponse"}
                                    /\ Head(mailbox).kind \notin {"Ingest", "WorkStageResponse"}
    BY DEF Incoming, Adapt, Signal, GracefulEnd
  <2> QED BY <2>1 DEF Token
<1>2. mailbox \in Seq(Command) /\ Tail(mailbox) \in Seq(Command)
  BY HeadTailProperties DEF TypeOK
<1>3. Among(mailbox, Token(d)) = One(Head(mailbox), Token(d)) + Among(Tail(mailbox), Token(d))
  BY <1>2, AmongHeadTail
<1> QED BY <1>1, <1>2, <1>3, AmongFinite DEF One

(* Telling takes the token of the message and adds those that are told;      *)
LEMMA TellTokens ==
  ASSUME TypeOK, mailbox # <<>>, NEW ms \in Seq(Command), Tell(ms), UNCHANGED lag,
         NEW d \in Deliveries
  PROVE  Queueing(d) = Queueing(d)' + One(Incoming, Token(d)) - Among(ms, Token(d))
<1>1. Tail(mailbox) \in Seq(Command)
  BY HeadTailProperties DEF TypeOK
<1>2. Among(mailbox', Token(d)) = Among(Tail(mailbox), Token(d)) + Among(ms, Token(d))
  BY <1>1, AmongConcat DEF Tell
<1>3. Among(ms, Token(d)) \in Nat
  BY AmongFinite
<1>4. /\ Queueing(d) = Among(mailbox, Token(d)) + Among(lag, Token(d))
      /\ Queueing(d)' = Among(mailbox', Token(d)) + Among(lag, Token(d))
      /\ Among(lag, Token(d)) \in Nat
  BY QueueingNat DEF Queueing
<1> QED BY <1>2, <1>3, <1>4, IncomingToken, OneNat

(* popping besides moves one from the lag to the mailbox.                    *)
LEMMA TellAndNextTokens ==
  ASSUME TypeOK, mailbox # <<>>, NEW ms \in Seq(Command), TellAndNext(ms),
         NEW d \in Deliveries
  PROVE  Queueing(d) = Queueing(d)' + One(Incoming, Token(d)) - Among(ms, Token(d))
<1>1. Tail(mailbox) \in Seq(Command) /\ Popped \in Seq(Command) /\ Remaining \in Seq(Command)
      /\ lag \in Seq(Command)
  BY HeadTailProperties, Queues DEF TypeOK
<1>2. ms \o Popped \in Seq(Command)
  BY <1>1, ConcatProperties
<1>3. Among(mailbox', Token(d)) = Among(Tail(mailbox), Token(d)) + Among(ms \o Popped, Token(d))
  BY <1>1, <1>2, AmongConcat DEF TellAndNext, Tell
<1>4. Among(ms \o Popped, Token(d)) = Among(ms, Token(d)) + Among(Popped, Token(d))
  BY <1>1, AmongConcat
<1>5. Among(lag, Token(d)) = Among(Popped, Token(d)) + Among(Remaining, Token(d))
  <2>1. CASE lag = <<>>
    BY <2>1, AmongSmall DEF Popped, Remaining
  <2>2. CASE lag # <<>>
    <3>1. Among(lag, Token(d)) = One(Head(lag), Token(d)) + Among(Tail(lag), Token(d))
      BY <1>1, <2>2, AmongHeadTail
    <3> QED BY <2>2, <3>1, AmongSmall DEF Popped, Remaining
  <2> QED BY <2>1, <2>2
<1>6. /\ Among(ms, Token(d)) \in Nat /\ Among(Popped, Token(d)) \in Nat
      /\ Among(Remaining, Token(d)) \in Nat
  BY <1>1, AmongFinite
<1>7. lag' = Remaining
  BY DEF TellAndNext
<1>8. /\ Queueing(d) = Among(mailbox, Token(d)) + Among(lag, Token(d))
      /\ Queueing(d)' = Among(mailbox', Token(d)) + Among(Remaining, Token(d))
  BY <1>7 DEF Queueing
<1> QED BY <1>3, <1>4, <1>5, <1>6, <1>8, IncomingToken, OneNat

(* A restart loses what was set aside, asked of the WorkStage and held;      *)
LEMMA CrashTokens ==
  ASSUME TypeOK, mailbox # <<>>, NEW ms \in Seq(Command), Crash(ms), NEW d \in Deliveries,
         Among(ms, Token(d)) = 0
  PROVE  /\ Queueing(d)' + One(Incoming, Token(d)) <= Queueing(d)
         /\ Queueing(d)' \in Nat
         /\ Among(workBox, {d})' = 0 /\ One(d, held)' = 0
<1> DEFINE box == WithoutTick(Tail(mailbox))
<1>1. /\ Tail(mailbox) \in Seq(Command) /\ WithoutTick(Tail(mailbox)) \in Seq(Command)
      /\ <<Signal("Setup")>> \in Seq(Command)
  BY Queues, Commands, SmallSeqs
<1>2. /\ mailbox' = (box \o ms) \o <<Signal("Setup")>>
      /\ lag' = <<>> /\ workBox' = <<>> /\ held' = {}
  BY DEF Crash, FreshFields
<1>3. box \o ms \in Seq(Command)
  BY <1>1, ConcatProperties
<1>4. Among(box, Token(d)) = Among(Tail(mailbox), Token(d))
  BY <1>1, AmongVoid
<1>12. box \in Seq(Command)
  BY <1>1
<1> HIDE DEF box
<1>5. Among(box \o ms, Token(d)) = Among(box, Token(d)) + Among(ms, Token(d))
  BY <1>12, AmongConcat
<1>6. Among((box \o ms) \o <<Signal("Setup")>>, Token(d))
        = Among(box \o ms, Token(d)) + Among(<<Signal("Setup")>>, Token(d))
  BY <1>1, <1>3, AmongConcat
<1>7. Among(<<Signal("Setup")>>, Token(d)) = 0
  BY Tokenless DEF Signal
<1>8. Among(lag', Token(d)) = 0 /\ Among(workBox', {d}) = 0
  BY <1>2, AmongSmall
<1>9. /\ Queueing(d) = Among(mailbox, Token(d)) + Among(lag, Token(d))
      /\ Queueing(d)' = Among(mailbox', Token(d)) + Among(lag', Token(d))
      /\ Among(lag, Token(d)) \in Nat
  BY QueueingNat DEF Queueing
<1>10. Among(mailbox', Token(d)) = Among(Tail(mailbox), Token(d))
  BY <1>2, <1>4, <1>5, <1>6, <1>7, IncomingToken
<1>11. One(d, held)' = 0
  BY <1>2 DEF One
<1> QED BY <1>8, <1>9, <1>10, <1>11, IncomingToken, OneNat

(* a stop what was in the mailbox too.                                       *)
LEMMA StopTokens ==
  ASSUME StopEntity, NEW d \in Deliveries
  PROVE  Queueing(d)' = 0 /\ Among(workBox, {d})' = 0 /\ One(d, held)' = 0
<1>1. mailbox' = <<>> /\ lag' = <<>> /\ workBox' = <<>> /\ held' = {}
  BY DEF StopEntity, FreshFields
<1> QED BY <1>1, AmongSmall DEF Queueing, One

(* What arrives from elsewhere.                                             *)
LEMMA ArrivesTokens ==
  ASSUME TypeOK, NEW m \in Command, Arrives(m), UNCHANGED lag, NEW d \in Deliveries
  PROVE  Queueing(d)' = Queueing(d) + One(m, Token(d))
<1>1. Among(mailbox', Token(d)) = Among(mailbox, Token(d)) + One(m, Token(d))
  BY AmongAppend DEF TypeOK, Arrives
<1>2. /\ Queueing(d) = Among(mailbox, Token(d)) + Among(lag, Token(d))
      /\ Queueing(d)' = Among(mailbox', Token(d)) + Among(lag, Token(d))
      /\ Among(lag, Token(d)) \in Nat /\ Among(mailbox, Token(d)) \in Nat
  BY QueueingNat DEF Queueing
<1> QED BY <1>1, <1>2, OneNat

-----------------------------------------------------------------------------
(* The steps of the ledger *)

(* The entity's answers, as the ledger sees them.                           *)
LEMMA LedgerStutters ==
  ASSUME UNCHANGED indexed, sent' \cap Deliveries = sent \cap Deliveries,
         \A d \in Deliveries : answers'[d] = answers[d]
  PROVE  UNCHANGED Ledger!vars
<1>1. [d \in Deliveries |-> answers[d]]' = [d \in Deliveries |-> answers[d]]
  OBVIOUS
<1> QED BY <1>1 DEF Ledger!vars

(* One answer to a delivery that had none.                                  *)
LEMMA LedgerAnswers ==
  ASSUME TypeOK, NEW d \in Deliveries, d \in sent, answers[d] = <<>>,
         NEW v \in {"Success", "Failure"}, answers' = Answered(d, v),
         UNCHANGED <<sent, indexed>>,
         v = "Success" /\ PayloadType[d] = "DOCUMENT" => d \in indexed
  PROVE  Ledger!Next
<1> DEFINE seen == [e \in Deliveries |-> answers[e]]
           asked == sent \cap Deliveries
<1>1. answers' = [answers EXCEPT ![d] = Append(@, v)] /\ Append(answers[d], v) = <<v>>
  BY ConstantsAssumption DEF Answered, Requesters
<1>2. \A e \in Deliveries : answers'[e] = IF e = d THEN <<v>> ELSE answers[e]
  BY <1>1 DEF TypeOK, Requesters
<1>3. seen' = [e \in Deliveries |-> IF e = d THEN <<v>> ELSE answers[e]] /\ asked' = asked
  BY <1>2
<1>4. d \in Ledger!Unanswered
  BY DEF Ledger!Unanswered
<1>5. CASE v = "Success"
  <2>1. seen' = [seen EXCEPT ![d] = <<"Success">>]
    BY <1>3, <1>5
  <2>2. Ledger!Confirm(d)
    BY <1>3, <1>4, <1>5, <2>1 DEF Ledger!Confirm
  <2> QED BY <2>2 DEF Ledger!Next
<1>6. CASE v = "Failure"
  <2>1. seen' = [e \in Deliveries |-> IF e \in {d} THEN <<"Failure">> ELSE seen[e]]
    BY <1>3, <1>6
  <2>2. Ledger!Reject({d})
    BY <1>3, <1>4, <2>1 DEF Ledger!Reject
  <2> QED BY <2>2 DEF Ledger!Next
<1> QED BY <1>5, <1>6

(* The release of what is held, none of it answered.                        *)
LEMMA LedgerReleases ==
  ASSUME TypeOK, OneToken, answers' = Released, UNCHANGED <<sent, indexed>>
  PROVE  Ledger!Next
<1> DEFINE seen == [e \in Deliveries |-> answers[e]]
           asked == sent \cap Deliveries
<1>1. ASSUME NEW d \in held
      PROVE  d \in Deliveries /\ d \in sent /\ answers[d] = <<>>
  <2>1. d \in Deliveries /\ answers[d] \in Seq({"Success", "Failure"})
    BY DEF TypeOK, Requesters
  <2>2. Queueing(d) + Settled(d) <= One(d, sent) /\ One(d, held) = 1
    BY <2>1 DEF OneToken, One
  <2>3. Settled(d) = Among(workBox, {d}) + One(d, held) + Len(answers[d])
    BY DEF Settled
  <2>4. One(d, sent) = 1 /\ Len(answers[d]) = 0
    BY <2>1, <2>2, <2>3, QueueingNat DEF One
  <2>5. answers[d] = <<>>
    BY <2>1, <2>4, EmptySeq
  <2>6. d \in sent
    BY <2>4 DEF One
  <2> QED BY <2>1, <2>5, <2>6
<1>2. \A e \in Deliveries : answers'[e] = IF e \in held THEN <<"Failure">> ELSE answers[e]
  <2>1. \A e \in Deliveries : e \in Requesters
    BY DEF Requesters
  <2>2. Append(<<>>, "Failure") = <<"Failure">>
    OBVIOUS
  <2> QED BY <1>1, <2>1, <2>2 DEF Released
<1>3. seen' = [e \in Deliveries |-> IF e \in held THEN <<"Failure">> ELSE seen[e]] /\ asked' = asked
  BY <1>2
<1>4. held \subseteq Ledger!Unanswered /\ held \subseteq Deliveries
  BY <1>1 DEF Ledger!Unanswered
<1> PICK released : released = held
  OBVIOUS
<1>5. Ledger!Reject(released)
  BY <1>3, <1>4 DEF Ledger!Reject
<1> QED BY <1>4, <1>5 DEF Ledger!Next

-----------------------------------------------------------------------------
(* The handlers *)

(* An answer to d leaves the other deliveries' answers alone.               *)
LEMMA AnsweredOne ==
  ASSUME TypeOK, NEW from \in Requesters \cup {Null}, NEW v \in {"Success", "Failure"},
         answers' = Answered(from, v), NEW d \in Deliveries
  PROVE  /\ from # d => answers'[d] = answers[d]
         /\ from = d => Len(answers'[d]) = Len(answers[d]) + 1
<1>1. d \in Requesters /\ d # Null /\ answers[d] \in Seq({"Success", "Failure"})
  BY ConstantsAssumption DEF TypeOK, Requesters
<1>2. CASE from = Null
  BY <1>1, <1>2 DEF Answered
<1>3. CASE from # Null
  <2>1. answers' = [answers EXCEPT ![from] = Append(@, v)] /\ from \in Requesters
    BY <1>3 DEF Answered
  <2>2. from # d => answers'[d] = answers[d]
    BY <1>1, <2>1 DEF TypeOK
  <2>3. from = d => answers'[d] = Append(answers[d], v)
    BY <1>1, <2>1 DEF TypeOK
  <2> QED BY <1>1, <2>2, <2>3, AppendProperties
<1> QED BY <1>2, <1>3

(* What a response of the WorkStage does with the token of its delivery.    *)
LEMMA WorkStageTokens ==
  ASSUME LedgerInv, OnWorkStageResponse
  PROVE  /\ OneToken' /\ working' \subseteq working /\ UNCHANGED <<sent, indexed>>
         /\ Ledger!Next \/ UNCHANGED Ledger!vars
<1> PICK d : d = Incoming.from
  OBVIOUS
<1> PICK outcome : outcome = Incoming.outcome
  OBVIOUS
<1> DEFINE token == outcome \notin {"Done", "Failed"}
<1>0. /\ TypeOK /\ TypeOK' /\ mailbox # <<>> /\ Incoming \in SoundCommand /\ Incoming \in Command
      /\ Incoming.kind = "WorkStageResponse"
  BY IncomingSound, OtherCommands, Steps
  DEF Next, Actor, LedgerInv, Soundness, OnWorkStageResponse, OnInvalid, OnWorkHalt, OnLast, OnWorking,
      OnDone, OnFailed, FromWorkStage, Receive
<1>1. /\ d \in Deliveries /\ d \in Requesters
      /\ \A e : Incoming \in Token(e) <=> e = d /\ token
  BY <1>0 DEF Command, Signals, Requesters, Token
<1> HIDE DEF token
<1>2. /\ <<>> \in Seq(Command) /\ <<TrackDate(d)>> \in Seq(Command)
      /\ <<Signal("PersistException")>> \in Seq(Command) /\ <<Signal("Halt")>> \in Seq(Command)
      /\ \A e : /\ Among(<<>>, Token(e)) = 0 /\ Among(<<TrackDate(d)>>, Token(e)) = 0
                /\ Among(<<Signal("PersistException")>>, Token(e)) = 0
                /\ Among(<<Signal("Halt")>>, Token(e)) = 0
  BY <1>1, Commands, SmallSeqs, AmongSmall, Tokenless DEF TrackDate, Signal
<1>3. ASSUME NEW ms \in Seq(Command), \A e : Among(ms, Token(e)) = 0,
             ReadyOrBusy(ms) \/ (Tell(ms) /\ UNCHANGED lag), NEW e \in Deliveries
      PROVE  Queueing(e) = Queueing(e)' + One(Incoming, Token(e)) /\ Queueing(e)' \in Nat
  <2>1. Queueing(e) = Queueing(e)' + One(Incoming, Token(e)) - Among(ms, Token(e))
    BY <1>0, <1>3, TellTokens, TellAndNextTokens DEF ReadyOrBusy
  <2>2. Queueing(e) \in Nat
    BY <1>0, QueueingNat
  <2>3. Queueing(e)' \in Nat
    BY <1>0, QueueingNext
  <2> QED BY <1>3, <2>1, <2>2, <2>3, OneNat
<1>4. ASSUME \A e \in Deliveries : Queueing(e)' + Settled(e)' <= Queueing(e) + Settled(e),
             UNCHANGED sent
      PROVE  OneToken'
  <2> SUFFICES ASSUME NEW e \in Deliveries
               PROVE  Queueing(e)' + Settled(e)' <= One(e, sent)
    BY <1>4 DEF OneToken
  <2>1. Queueing(e) + Settled(e) <= One(e, sent)
    BY DEF LedgerInv, OneToken
  <2>2. Queueing(e) \in Nat /\ Settled(e) \in Nat
    BY <1>0, QueueingNat
  <2>3. Queueing(e)' \in Nat /\ Settled(e)' \in Nat
    BY <1>0, QueueingNext
  <2> QED BY <1>4, <2>1, <2>2, <2>3, OneNat
<1>5. ASSUME token
      PROVE  d \in sent /\ answers[d] = <<>> /\ Settled(d) = 0
  <2>1. Among(mailbox, Token(d)) = One(Incoming, Token(d)) + Among(Tail(mailbox), Token(d))
    BY <1>0, IncomingToken
  <2>2. One(Incoming, Token(d)) = 1
    BY <1>1, <1>5 DEF One
  <2>3. Queueing(d) >= 1
    <3>1. Among(Tail(mailbox), Token(d)) \in Nat /\ Among(lag, Token(d)) \in Nat
      BY <1>0, <1>1, IncomingToken, QueueingNat
    <3> QED BY ONLY <2>1, <2>2, <3>1 DEF Queueing
  <2>4. Queueing(d) + Settled(d) <= One(d, sent)
    BY <1>1 DEF LedgerInv, OneToken
  <2>5. One(d, sent) = 1 /\ Settled(d) = 0
    <3>1. Queueing(d) \in Nat /\ Settled(d) \in Nat
      BY <1>0, <1>1, QueueingNat
    <3>2. One(d, sent) = 0 \/ One(d, sent) = 1
      BY DEF One
    <3> QED BY ONLY <2>3, <2>4, <3>1, <3>2
  <2>6. Len(answers[d]) = 0
    <3>1. /\ Among(workBox, {d}) \in Nat /\ One(d, held) \in Nat
          /\ Len(answers[d]) \in Nat
      BY <1>0, <1>1, QueueingNat
    <3> QED BY ONLY <2>5, <3>1 DEF Settled
  <2>7. answers[d] = <<>>
    <3>1. answers[d] \in Seq({"Success", "Failure"})
      BY <1>0, <1>1 DEF TypeOK
    <3> QED BY <2>6, <3>1, EmptySeq
  <2>8. d \in sent
    BY <2>5 DEF One
  <2> QED BY <2>5, <2>7, <2>8
<1>6. ASSUME NEW v \in {"Success", "Failure"}, answers' = Answered(d, v), NEW e \in Deliveries
      PROVE  Len(answers'[e]) = Len(answers[e]) + One(e, {d})
  <2>1. /\ d # e => answers'[e] = answers[e]
        /\ d = e => Len(answers'[e]) = Len(answers[e]) + 1
    BY <1>0, <1>1, <1>6, AnsweredOne
  <2>2. Len(answers[e]) \in Nat
    BY <1>0, QueueingNat
  <2>3. One(e, {d}) = IF d = e THEN 1 ELSE 0
    BY DEF One
  <2> QED BY ONLY <2>1, <2>2, <2>3
<1>7. ASSUME NEW e \in Deliveries
      PROVE  /\ Settled(e) = Among(workBox, {e}) + One(e, held) + Len(answers[e])
             /\ Settled(e)' = Among(workBox', {e}) + One(e, held') + Len(answers'[e])
             /\ Among(workBox, {e}) \in Nat /\ Len(answers[e]) \in Nat
             /\ One(e, held) \in Nat /\ One(e, {d}) \in Nat
             /\ One(e, held') \in Nat /\ Queueing(e) \in Nat
             /\ One(Incoming, Token(e)) \in Nat
             /\ token => One(Incoming, Token(e)) = One(e, {d})
             /\ ~token => One(Incoming, Token(e)) = 0
  <2>1. /\ token => One(Incoming, Token(e)) = One(e, {d})
        /\ ~token => One(Incoming, Token(e)) = 0
    BY <1>1 DEF One
  <2> QED BY <1>0, <2>1, QueueingNat, OneNat DEF Settled
(* A delivery answered by the first response about it. *)
<1>8. ASSUME token, NEW v \in {"Success", "Failure"}, answers' = Answered(d, v),
             NEW ms \in Seq(Command), \A e : Among(ms, Token(e)) = 0, ReadyOrBusy(ms),
             UNCHANGED <<held, KeptByWork>>,
             v = "Success" => PayloadType[d] # "DOCUMENT"
      PROVE  /\ OneToken' /\ working' \subseteq working /\ UNCHANGED <<sent, indexed>>
             /\ Ledger!Next \/ UNCHANGED Ledger!vars
  <2>1. UNCHANGED <<held, workBox, working, sent, indexed>>
    BY <1>8 DEF KeptByWork, children, work, outside
  <2>2. ASSUME NEW e \in Deliveries
        PROVE  Queueing(e)' + Settled(e)' <= Queueing(e) + Settled(e)
    <3>1. Queueing(e) = Queueing(e)' + One(Incoming, Token(e)) /\ Queueing(e)' \in Nat
      BY <1>3, <1>8, <2>2
    <3>2. Len(answers'[e]) = Len(answers[e]) + One(e, {d})
      BY <1>6, <1>8, <2>2
    <3>3. workBox' = workBox /\ held' = held
      BY <2>1
    <3>9. /\ Settled(e) = Among(workBox, {e}) + One(e, held) + Len(answers[e])
          /\ Settled(e)' = Among(workBox', {e}) + One(e, held') + Len(answers'[e])
          /\ Among(workBox, {e}) \in Nat /\ Len(answers[e]) \in Nat
          /\ One(e, held) \in Nat /\ One(e, {d}) \in Nat /\ One(e, held') \in Nat
          /\ One(Incoming, Token(e)) \in Nat
          /\ One(Incoming, Token(e)) = One(e, {d})
      BY <1>7, <1>8, <2>2
    <3> QED BY ONLY <3>1, <3>2, <3>3, <3>9
  <2>3. Ledger!Next
    BY <1>0, <1>1, <1>5, <1>8, <2>1, LedgerAnswers
  <2> QED BY <1>4, <2>1, <2>2, <2>3
<1>9. CASE OnInvalid
  <2>1. token
    BY <1>9 DEF OnInvalid, FromWorkStage, token
  <2>2. /\ answers' = Answered(d, "Failure") /\ UNCHANGED <<held, KeptByWork>>
        /\ ReadyOrBusy(<<Signal("PersistException")>>)
    BY <1>9 DEF OnInvalid
  <2> QED BY <1>2, <1>8, <2>1, <2>2
<1>10. CASE OnWorkHalt
  <2>1. token /\ PayloadType[d] # "DOCUMENT"
    BY <1>0, <1>10 DEF OnWorkHalt, FromWorkStage, token, SoundCommand
  <2>2. /\ answers' = Answered(d, "Success") /\ UNCHANGED <<held, KeptByWork>>
        /\ ReadyOrBusy(<<Signal("Halt")>>)
    BY <1>10 DEF OnWorkHalt
  <2> QED BY <1>2, <1>8, <2>1, <2>2
(* A restart takes what was held and what was asked of the WorkStage. *)
<1>11. ASSUME NEW ms \in Seq(Command), \A e : Among(ms, Token(e)) = 0, Crash(ms),
              NEW e \in Deliveries
       PROVE  /\ Queueing(e)' + One(Incoming, Token(e)) <= Queueing(e) /\ Queueing(e)' \in Nat
              /\ Settled(e)' = Len(answers'[e])
  <2>1. /\ Queueing(e)' + One(Incoming, Token(e)) <= Queueing(e) /\ Queueing(e)' \in Nat
        /\ Among(workBox, {e})' = 0 /\ One(e, held)' = 0
    BY <1>0, <1>11, CrashTokens
  <2>2. Len(answers'[e]) \in Nat
    BY <1>0, QueueingNext
  <2> QED BY <1>7, <2>1, <2>2
<1>12. ASSUME NEW ms, Crash(ms)
       PROVE  working' \subseteq working /\ UNCHANGED <<sent, indexed>>
  BY <1>12 DEF Crash, FreshFields, outside
<1>13. CASE OnLast
  <2>1. token /\ PayloadType[d] # "DOCUMENT" /\ answers' = Answered(d, "Success")
    BY <1>0, <1>13 DEF OnLast, FromWorkStage, token, SoundCommand
  <2>2. CASE Crash(<<>>)
    <3>1. ASSUME NEW e \in Deliveries
          PROVE  Queueing(e)' + Settled(e)' <= Queueing(e) + Settled(e)
      <4>1. /\ Queueing(e)' + One(Incoming, Token(e)) <= Queueing(e) /\ Queueing(e)' \in Nat
            /\ Settled(e)' = Len(answers'[e])
        BY <1>2, <1>11, <2>2, <3>1
      <4>2. Len(answers'[e]) = Len(answers[e]) + One(e, {d})
        BY <1>6, <2>1, <3>1
      <4>9. /\ Settled(e) = Among(workBox, {e}) + One(e, held) + Len(answers[e])
            /\ Settled(e)' = Among(workBox', {e}) + One(e, held') + Len(answers'[e])
            /\ Among(workBox, {e}) \in Nat /\ Len(answers[e]) \in Nat
            /\ One(e, held) \in Nat /\ One(e, {d}) \in Nat /\ One(e, held') \in Nat /\ Queueing(e) \in Nat
            /\ One(Incoming, Token(e)) \in Nat
            /\ One(Incoming, Token(e)) = One(e, {d})
        BY <1>7, <2>1, <3>1
      <4> QED BY ONLY <4>1, <4>2, <4>9
    <3>2. UNCHANGED <<sent, indexed>> /\ working' \subseteq working
      BY <1>12, <2>2
    <3>3. Ledger!Next
      BY <1>0, <1>1, <1>5, <2>1, <3>2, LedgerAnswers
    <3> QED BY <1>4, <3>1, <3>2, <3>3
  <2>3. CASE ~Crash(<<>>)
    <3>1. UNCHANGED <<held, KeptByWork>> /\ \E ms \in {<<>>, <<TrackDate(d)>>} : ReadyOrBusy(ms)
      BY <1>13, <2>3 DEF OnLast
    <3> QED BY <1>2, <1>8, <2>1, <3>1
  <2> QED BY <2>2, <2>3
<1>14. CASE OnWorking
  <2>1. token /\ held' = held \cup {d} /\ UNCHANGED <<answers, KeptByWork>> /\ ReadyOrBusy(<<>>)
    BY <1>14 DEF OnWorking, FromWorkStage, token
  <2>2. UNCHANGED <<workBox, working, sent, indexed>>
    BY <2>1 DEF KeptByWork, children, work, outside
  <2>3. ASSUME NEW e \in Deliveries
        PROVE  Queueing(e)' + Settled(e)' <= Queueing(e) + Settled(e)
    <3>1. One(e, held') <= One(e, held) + One(e, {d})
      BY <2>1 DEF One
    <3>2. Queueing(e) = Queueing(e)' + One(Incoming, Token(e)) /\ Queueing(e)' \in Nat
      BY <1>2, <1>3, <2>1, <2>3
    <3>3. workBox' = workBox /\ answers' = answers
      BY <2>1, <2>2
    <3>4. One(Incoming, Token(e)) = One(e, {d})
      BY <1>7, <2>1, <2>3
    <3>9. /\ Settled(e) = Among(workBox, {e}) + One(e, held) + Len(answers[e])
          /\ Settled(e)' = Among(workBox', {e}) + One(e, held') + Len(answers'[e])
          /\ Among(workBox, {e}) \in Nat /\ Len(answers[e]) \in Nat
          /\ One(e, held) \in Nat /\ One(e, {d}) \in Nat /\ One(e, held') \in Nat
          /\ One(Incoming, Token(e)) \in Nat
      BY <1>7, <2>3
    <3> QED BY ONLY <3>1, <3>2, <3>3, <3>4, <3>9
  <2>4. UNCHANGED Ledger!vars
    BY <2>1, <2>2, LedgerStutters
  <2> QED BY <1>4, <2>2, <2>3, <2>4
(* The answer to a delivery that is held. *)
<1>15. ASSUME d \in held, ~token, NEW v \in {"Success", "Failure"}, answers' = Answered(d, v),
              held' = held \ {d}, UNCHANGED KeptByWork,
              NEW ms \in Seq(Command), \A e : Among(ms, Token(e)) = 0,
              ReadyOrBusy(ms) \/ (Tell(ms) /\ UNCHANGED lag),
              v = "Success" => d \in indexed
       PROVE  /\ OneToken' /\ working' \subseteq working /\ UNCHANGED <<sent, indexed>>
              /\ Ledger!Next \/ UNCHANGED Ledger!vars
  <2>1. UNCHANGED <<workBox, working, sent, indexed>>
    BY <1>15 DEF KeptByWork, children, work, outside
  <2>2. ASSUME NEW e \in Deliveries
        PROVE  Queueing(e)' + Settled(e)' <= Queueing(e) + Settled(e)
    <3>1. One(e, held') + One(e, {d}) = One(e, held)
      BY <1>15 DEF One
    <3>2. Queueing(e) = Queueing(e)' + One(Incoming, Token(e)) /\ Queueing(e)' \in Nat
      BY <1>3, <1>15, <2>2
    <3>3. Len(answers'[e]) = Len(answers[e]) + One(e, {d})
      BY <1>6, <1>15, <2>2
    <3>4. workBox' = workBox
      BY <2>1
    <3>9. /\ Settled(e) = Among(workBox, {e}) + One(e, held) + Len(answers[e])
          /\ Settled(e)' = Among(workBox', {e}) + One(e, held') + Len(answers'[e])
          /\ Among(workBox, {e}) \in Nat /\ Len(answers[e]) \in Nat
          /\ One(e, held) \in Nat /\ One(e, {d}) \in Nat /\ One(e, held') \in Nat
          /\ One(Incoming, Token(e)) \in Nat
          /\ One(Incoming, Token(e)) = 0
      BY <1>7, <1>15, <2>2
    <3> QED BY ONLY <3>1, <3>2, <3>3, <3>4, <3>9
  <2>3. d \in sent /\ answers[d] = <<>>
    <3>1. Queueing(d) + Settled(d) <= One(d, sent) /\ One(d, held) = 1
      BY <1>1, <1>15 DEF LedgerInv, OneToken, One
    <3>2. One(d, sent) = 1 /\ Len(answers[d]) = 0
      <4>1. One(d, sent) = 0 \/ One(d, sent) = 1
        BY DEF One
      <4>9. /\ Settled(d) = Among(workBox, {d}) + One(d, held) + Len(answers[d])
            /\ Settled(d)' = Among(workBox', {d}) + One(d, held') + Len(answers'[d])
            /\ Among(workBox, {d}) \in Nat /\ Len(answers[d]) \in Nat
            /\ One(d, held) \in Nat /\ One(d, {d}) \in Nat /\ One(d, held') \in Nat
            /\ One(Incoming, Token(d)) \in Nat
            /\ Queueing(d) \in Nat
        BY <1>1, <1>7
      <4> QED BY ONLY <3>1, <4>1, <4>9
    <3>3. answers[d] \in Seq({"Success", "Failure"})
      BY <1>0, <1>1 DEF TypeOK
    <3> QED BY <3>2, <3>3, EmptySeq DEF One
  <2>4. Ledger!Next
    BY <1>0, <1>1, <1>15, <2>1, <2>3, LedgerAnswers
  <2> QED BY <1>4, <2>1, <2>2, <2>4
(* One that is not held restarts the entity. *)
<1>16. ASSUME NEW ms \in Seq(Command), \A e : Among(ms, Token(e)) = 0, Crash(ms),
              UNCHANGED answers
       PROVE  /\ OneToken' /\ working' \subseteq working /\ UNCHANGED <<sent, indexed>>
              /\ Ledger!Next \/ UNCHANGED Ledger!vars
  <2>1. ASSUME NEW e \in Deliveries
        PROVE  Queueing(e)' + Settled(e)' <= Queueing(e) + Settled(e)
    <3>1. /\ Queueing(e)' + One(Incoming, Token(e)) <= Queueing(e) /\ Queueing(e)' \in Nat
          /\ Settled(e)' = Len(answers[e])
      BY <1>11, <1>16, <2>1
    <3>9. /\ Settled(e) = Among(workBox, {e}) + One(e, held) + Len(answers[e])
          /\ Settled(e)' = Among(workBox', {e}) + One(e, held') + Len(answers'[e])
          /\ Among(workBox, {e}) \in Nat /\ Len(answers[e]) \in Nat
          /\ One(e, held) \in Nat /\ One(e, {d}) \in Nat /\ One(e, held') \in Nat /\ Queueing(e) \in Nat
          /\ One(Incoming, Token(e)) \in Nat
      BY <1>7, <2>1
    <3> QED BY ONLY <3>1, <3>9
  <2>2. working' \subseteq working /\ UNCHANGED <<sent, indexed>>
    BY <1>12, <1>16
  <2>3. UNCHANGED Ledger!vars
    BY <1>16, <2>2, LedgerStutters
  <2> QED BY <1>4, <2>1, <2>2, <2>3
<1>17. CASE OnDone
  <2>1. ~token /\ d \in indexed
    BY <1>0, <1>17 DEF OnDone, FromWorkStage, token, SoundCommand
  <2>2. CASE Crash(<<>>) /\ UNCHANGED answers
    BY <1>2, <1>16, <2>2
  <2>3. CASE ~(Crash(<<>>) /\ UNCHANGED answers)
    <3>1. /\ d \in held /\ held' = held \ {d} /\ answers' = Answered(d, "Success")
          /\ Tell(<<TrackDate(d)>>) /\ UNCHANGED lag /\ UNCHANGED KeptByWork
      BY <1>17, <2>3 DEF OnDone, TrackDone, WithoutHeld
    <3> QED BY <1>2, <1>15, <2>1, <3>1
  <2> QED BY <2>2, <2>3
<1>18. CASE OnFailed
  <2>1. ~token
    BY <1>18 DEF OnFailed, FromWorkStage, token
  <2>2. CASE Crash(<<Signal("PersistException")>>) /\ UNCHANGED answers
    BY <1>2, <1>16, <2>2
  <2>3. CASE ~(Crash(<<Signal("PersistException")>>) /\ UNCHANGED answers)
    <3>1. /\ d \in held /\ held' = held \ {d} /\ answers' = Answered(d, "Failure")
          /\ ReadyOrBusy(<<Signal("PersistException")>>) /\ UNCHANGED KeptByWork
      BY <1>18, <2>3 DEF OnFailed, WithoutHeld
    <3> QED BY <1>2, <1>15, <2>1, <3>1
  <2> QED BY <2>2, <2>3
<1> QED BY <1>9, <1>10, <1>13, <1>14, <1>17, <1>18 DEF OnWorkStageResponse

(* The commands that carry neither a token nor a date.                      *)
PlainCommand ==
  { m \in Command :
      m.kind \notin {"Ingest", "WorkStageResponse", "TrackDate", "UpdateScheduler"} }

(* Telling them moves no token.                                             *)
LEMMA PlainTokens ==
  ASSUME NEW ms \in Seq(PlainCommand)
  PROVE  ms \in Seq(Command) /\ \A d : Among(ms, Token(d)) = 0
<1>1. \A i \in DOMAIN ms : ms[i] \in PlainCommand
  BY ElementOfSeq, LenProperties
<1>2. \A d : { i \in DOMAIN ms : ms[i] \in Token(d) } = {}
  BY <1>1 DEF PlainCommand, Token
<1>3. ms \in Seq(Command)
  BY DEF PlainCommand
<1> QED BY <1>2, <1>3, FS_EmptySet DEF Among

(* A handler that moves no token but the one it is given loses none.        *)
LEMMA QuietQueues ==
  ASSUME TypeOK, TypeOK', mailbox # <<>>, NEW ms \in Seq(PlainCommand),
         (Tell(ms) /\ UNCHANGED lag) \/ TellAndNext(ms), NEW d \in Deliveries
  PROVE  Queueing(d)' + One(Incoming, Token(d)) <= Queueing(d)
<1>1. ms \in Seq(Command) /\ Among(ms, Token(d)) = 0
  BY PlainTokens
<1>2. Queueing(d) = Queueing(d)' + One(Incoming, Token(d)) - Among(ms, Token(d))
  BY <1>1, TellTokens, TellAndNextTokens
<1>3. Queueing(d) \in Nat /\ Queueing(d)' \in Nat /\ One(Incoming, Token(d)) \in Nat
  BY QueueingNat, QueueingNext, OneNat
<1> QED BY <1>1, <1>2, <1>3

(* Voiding the ticks and popping move none either.                          *)
LEMMA VoidedQueues ==
  ASSUME TypeOK, TypeOK', mailbox # <<>>,
         \/ mailbox' = WithoutTick(Tail(mailbox)) \o Popped /\ lag' = Remaining
         \/ mailbox' = WithoutTick(Tail(mailbox)) /\ UNCHANGED lag,
         NEW d \in Deliveries
  PROVE  Queueing(d)' <= Queueing(d)
<1>1. /\ Tail(mailbox) \in Seq(Command) /\ Popped \in Seq(Command)
      /\ Remaining \in Seq(Command) /\ lag \in Seq(Command)
      /\ WithoutTick(Tail(mailbox)) \in Seq(Command)
  BY Queues DEF TypeOK
<1>2. Among(WithoutTick(Tail(mailbox)), Token(d)) = Among(Tail(mailbox), Token(d))
  BY <1>1, AmongVoid
<1>3. Among(WithoutTick(Tail(mailbox)) \o Popped, Token(d))
        = Among(WithoutTick(Tail(mailbox)), Token(d)) + Among(Popped, Token(d))
  BY <1>1, AmongConcat
<1>4. Among(lag, Token(d)) = Among(Popped, Token(d)) + Among(Remaining, Token(d))
  <2>1. CASE lag = <<>>
    BY <2>1, AmongSmall DEF Popped, Remaining
  <2>2. CASE lag # <<>>
    <3>1. Among(lag, Token(d)) = One(Head(lag), Token(d)) + Among(Tail(lag), Token(d))
      BY <1>1, <2>2, AmongHeadTail
    <3> QED BY <2>2, <3>1, AmongSmall DEF Popped, Remaining
  <2> QED BY <2>1, <2>2
<1>5. /\ Among(mailbox, Token(d)) = One(Incoming, Token(d)) + Among(Tail(mailbox), Token(d))
      /\ Among(Tail(mailbox), Token(d)) \in Nat /\ One(Incoming, Token(d)) \in Nat
      /\ Among(Popped, Token(d)) \in Nat /\ Among(Remaining, Token(d)) \in Nat
  BY <1>1, IncomingToken, OneNat, AmongFinite
<1>6. /\ Queueing(d) = Among(mailbox, Token(d)) + Among(lag, Token(d))
      /\ Queueing(d)' = Among(mailbox', Token(d)) + Among(lag', Token(d))
  BY DEF Queueing
<1>7. CASE mailbox' = WithoutTick(Tail(mailbox)) \o Popped /\ lag' = Remaining
  BY <1>2, <1>3, <1>4, <1>5, <1>6, <1>7
<1>8. CASE mailbox' = WithoutTick(Tail(mailbox)) /\ UNCHANGED lag
  BY <1>2, <1>4, <1>5, <1>6, <1>8
<1> QED BY <1>7, <1>8

(* The parts of a step that answers no delivery and takes none.             *)
Quiet ==
  /\ UNCHANGED indexed /\ working' \subseteq working
  /\ sent' \cap Deliveries = sent \cap Deliveries
  /\ \A d \in Deliveries : /\ answers'[d] = answers[d]
                           /\ Queueing(d)' + Settled(d)' <= Queueing(d) + Settled(d)

(* It keeps the invariant, and the ledger does not see it.                   *)
LEMMA QuietLedger ==
  ASSUME LedgerInv, TypeOK', Quiet
  PROVE  OneToken' /\ WorkKnown' /\ UNCHANGED Ledger!vars
<1>1. ASSUME NEW d \in Deliveries
      PROVE  Queueing(d)' + Settled(d)' <= One(d, sent)
  <2>1. Queueing(d) + Settled(d) <= One(d, sent)
    BY DEF LedgerInv, OneToken
  <2>2. Queueing(d)' + Settled(d)' <= Queueing(d) + Settled(d)
    BY DEF Quiet
  <2>3. /\ Queueing(d) \in Nat /\ Settled(d) \in Nat /\ One(d, sent) \in Nat
        /\ Queueing(d)' \in Nat /\ Settled(d)' \in Nat
    BY QueueingNat, QueueingNext, OneNat DEF LedgerInv, Soundness
  <2> QED BY ONLY <2>1, <2>2, <2>3
<1>2. OneToken'
  <2>1. \A d \in Deliveries : One(d, sent') = One(d, sent)
    BY DEF Quiet, One
  <2> QED BY <1>1, <2>1 DEF OneToken
<1>3. WorkKnown'
  <2>1. working \subseteq Deliveries
    BY DEF LedgerInv, Soundness, TypeOK
  <2> QED BY <2>1 DEF LedgerInv, WorkKnown, Quiet
<1> QED BY <1>2, <1>3, LedgerStutters DEF Quiet

(* A handler that leaves the tokens of the WorkStage and the held ones.     *)
LEMMA QuietTold ==
  ASSUME LedgerInv, TypeOK', UNCHANGED <<indexed, workBox, working, held>>,
         sent' \cap Deliveries = sent \cap Deliveries,
         \A d \in Deliveries : answers'[d] = answers[d],
         \A d \in Deliveries : Queueing(d)' <= Queueing(d)
  PROVE  Quiet
<1> SUFFICES ASSUME NEW d \in Deliveries
             PROVE  Queueing(d)' + Settled(d)' <= Queueing(d) + Settled(d)
  BY DEF Quiet
<1>1. Settled(d)' = Settled(d)
  BY DEF Settled
<1>2. /\ Queueing(d) \in Nat /\ Settled(d) \in Nat /\ Queueing(d)' \in Nat
  BY QueueingNat, QueueingNext DEF LedgerInv, Soundness
<1>3. Queueing(d)' <= Queueing(d)
  OBVIOUS
<1> QED BY ONLY <1>1, <1>2, <1>3

(* A restart that answers nobody.                                           *)
LEMMA QuietCrash ==
  ASSUME LedgerInv, TypeOK', mailbox # <<>>, NEW ms \in Seq(PlainCommand), Crash(ms),
         UNCHANGED answers
  PROVE  Quiet
<1>1. UNCHANGED <<sent, indexed>> /\ working' \subseteq working
  BY DEF Crash, FreshFields, outside
<1>2. TypeOK
  BY DEF LedgerInv, Soundness
<1> SUFFICES ASSUME NEW d \in Deliveries
             PROVE  Queueing(d)' + Settled(d)' <= Queueing(d) + Settled(d)
  BY <1>1 DEF Quiet
<1>3. ms \in Seq(Command) /\ Among(ms, Token(d)) = 0
  BY PlainTokens
<1>4. /\ Queueing(d)' + One(Incoming, Token(d)) <= Queueing(d)
      /\ Queueing(d)' \in Nat /\ Among(workBox, {d})' = 0 /\ One(d, held)' = 0
  BY <1>2, <1>3, CrashTokens
<1>5. /\ Settled(d)' = Among(workBox, {d})' + One(d, held)' + Len(answers[d])
      /\ Settled(d) = Among(workBox, {d}) + One(d, held) + Len(answers[d])
  BY DEF Settled
<1>6. /\ Among(workBox, {d}) \in Nat /\ One(d, held) \in Nat /\ Len(answers[d]) \in Nat
      /\ One(Incoming, Token(d)) \in Nat /\ Queueing(d) \in Nat
  BY <1>2, QueueingNat, OneNat
<1> QED BY ONLY <1>4, <1>5, <1>6

(* What a stop releases was held, and is answered instead.                  *)
LEMMA StopLedger ==
  ASSUME LedgerInv, TypeOK', StopEntity
  PROVE  OneToken' /\ WorkKnown' /\ Ledger!Next
<1>1. TypeOK /\ OneToken
  BY DEF LedgerInv, Soundness
<1>2. answers' = Released /\ UNCHANGED <<sent, indexed>> /\ working' = {}
  BY DEF StopEntity, FreshFields
<1>3. ASSUME NEW d \in Deliveries
      PROVE  Queueing(d)' + Settled(d)' <= One(d, sent)
  <2>1. Queueing(d)' = 0 /\ Among(workBox, {d})' = 0 /\ One(d, held)' = 0
    BY StopTokens
  <2>2. Len(answers'[d]) = Len(answers[d]) + One(d, held)
    <3>1. d \in Requesters /\ answers[d] \in Seq({"Success", "Failure"})
      BY <1>1 DEF TypeOK, Requesters
    <3>2. answers'[d] = IF d \in held THEN Append(answers[d], "Failure") ELSE answers[d]
      BY <1>2, <3>1 DEF Released
    <3>3. Len(Append(answers[d], "Failure")) = Len(answers[d]) + 1 /\ Len(answers[d]) \in Nat
      BY <3>1, AppendProperties, LenProperties
    <3>4. One(d, held) = IF d \in held THEN 1 ELSE 0
      BY DEF One
    <3>5. CASE d \in held
      BY ONLY <3>2, <3>3, <3>4, <3>5
    <3>6. CASE d \notin held
      BY ONLY <3>2, <3>3, <3>4, <3>6
    <3> QED BY <3>5, <3>6
  <2>3. /\ Settled(d)' = Among(workBox, {d})' + One(d, held)' + Len(answers'[d])
        /\ Settled(d) = Among(workBox, {d}) + One(d, held) + Len(answers[d])
    BY DEF Settled
  <2>4. Queueing(d) + Settled(d) <= One(d, sent)
    BY <1>1 DEF OneToken
  <2>5. /\ Among(workBox, {d}) \in Nat /\ One(d, held) \in Nat /\ Len(answers[d]) \in Nat
        /\ Queueing(d) \in Nat /\ One(d, sent) \in Nat
    BY <1>1, QueueingNat, OneNat
  <2> QED BY ONLY <2>1, <2>2, <2>3, <2>4, <2>5
<1>4. OneToken'
  BY <1>2, <1>3 DEF OneToken
<1>5. WorkKnown'
  BY <1>2 DEF WorkKnown
<1> QED BY <1>1, <1>2, <1>4, <1>5, LedgerReleases

(* The request of a consumer becomes work for the WorkStage.                *)
LEMMA IngestQuiet ==
  ASSUME LedgerInv, TypeOK', OnIngest
  PROVE  Quiet
<1>1. TypeOK /\ mailbox # <<>> /\ Incoming \in Command /\ Incoming.kind = "Ingest"
  BY IncomingType DEF LedgerInv, Soundness, OnIngest, Receive
<1>2. <<>> \in Seq(PlainCommand)
  BY SmallSeqs
<1>3. CASE Crash(<<>>)
  BY <1>1, <1>2, <1>3, QuietCrash DEF OnIngest
<1>4. CASE ~Crash(<<>>)
  <2> PICK d : d = Incoming.from
    OBVIOUS
  <2>1. d \in Deliveries /\ \A e : Incoming \in Token(e) <=> e = d
    BY <1>1 DEF Command, Signals, Token
  <2>2. /\ workBox' = Append(workBox, d) \/ workBox' = workBox
        /\ Tell(<<>>) /\ UNCHANGED lag
        /\ UNCHANGED <<sent, indexed, working, held, answers>>
    BY <1>4 DEF OnIngest, outside
  <2> SUFFICES ASSUME NEW e \in Deliveries
               PROVE  Queueing(e)' + Settled(e)' <= Queueing(e) + Settled(e)
    BY <2>2 DEF Quiet
  <2>3. Queueing(e)' + One(Incoming, Token(e)) <= Queueing(e)
    BY <1>1, <1>2, <2>2, QuietQueues
  <2>4. \/ Among(workBox', {e}) = Among(workBox, {e}) + One(d, {e})
        \/ Among(workBox', {e}) = Among(workBox, {e})
    <3>1. workBox \in Seq(Deliveries)
      BY <1>1 DEF TypeOK
    <3>2. Among(Append(workBox, d), {e}) = Among(workBox, {e}) + One(d, {e})
      BY <2>1, <3>1, AmongAppend
    <3> QED BY <2>2, <3>2
  <2>5. One(Incoming, Token(e)) = One(d, {e})
    BY <2>1 DEF One
  <2>6. /\ Settled(e)' = Among(workBox', {e}) + One(e, held) + Len(answers[e])
        /\ Settled(e) = Among(workBox, {e}) + One(e, held) + Len(answers[e])
    BY <2>2 DEF Settled
  <2>7. /\ Among(workBox, {e}) \in Nat /\ One(e, held) \in Nat /\ Len(answers[e]) \in Nat
        /\ One(d, {e}) \in Nat /\ Queueing(e) \in Nat /\ Queueing(e)' \in Nat
    BY <1>1, QueueingNat, QueueingNext, OneNat
  <2> QED BY ONLY <2>3, <2>4, <2>5, <2>6, <2>7
<1> QED BY <1>3, <1>4

(* A command set aside keeps its token.                                     *)
LEMMA EnqueueQuiet ==
  ASSUME LedgerInv, TypeOK', OnEnqueue
  PROVE  Quiet
<1>1. TypeOK /\ mailbox # <<>> /\ Incoming \in Command
  BY IncomingType DEF LedgerInv, Soundness, OnEnqueue, Unhandled
<1>2. /\ mailbox' = Tail(mailbox) \o <<>> /\ lag' = Append(lag, Incoming)
      /\ UNCHANGED <<sent, indexed, workBox, working, held, answers>>
  BY DEF OnEnqueue, Tell, outside, children, work, fields, ledger
<1>3. ASSUME NEW d \in Deliveries
      PROVE  Queueing(d)' <= Queueing(d)
  <2>1. lag \in Seq(Command) /\ Tail(mailbox) \in Seq(Command) /\ <<>> \in Seq(Command)
    BY <1>1, Queues, SmallSeqs DEF TypeOK
  <2>2. Among(lag', Token(d)) = Among(lag, Token(d)) + One(Incoming, Token(d))
    BY <1>1, <1>2, <2>1, AmongAppend
  <2>3. Among(mailbox', Token(d)) = Among(Tail(mailbox), Token(d)) + Among(<<>>, Token(d))
    BY <1>2, <2>1, AmongConcat
  <2>4. /\ Among(<<>>, Token(d)) = 0 /\ Among(lag, Token(d)) \in Nat
        /\ Among(mailbox, Token(d)) = One(Incoming, Token(d)) + Among(Tail(mailbox), Token(d))
        /\ Among(Tail(mailbox), Token(d)) \in Nat /\ One(Incoming, Token(d)) \in Nat
    BY <1>1, <2>1, IncomingToken, AmongSmall, AmongFinite, OneNat
  <2>5. /\ Queueing(d) = Among(mailbox, Token(d)) + Among(lag, Token(d))
        /\ Queueing(d)' = Among(mailbox', Token(d)) + Among(lag', Token(d))
    BY DEF Queueing
  <2> QED BY ONLY <2>2, <2>3, <2>4, <2>5
<1> QED BY <1>2, <1>3, QuietTold

(* What the other handlers tell is plain.                                   *)
LEMMA PlainSignals ==
  /\ \A k \in Signals : Signal(k) \in PlainCommand
  /\ Signal("PersistException") \in PlainCommand /\ Signal("Halt") \in PlainCommand
  /\ Signal("StopInternalClock") \in PlainCommand
  /\ Signal("StartInternalClock") \in PlainCommand
  /\ Signal("Setup") \in PlainCommand /\ Signal("Stop") \in PlainCommand
  /\ Signal("Close") \in PlainCommand /\ Signal("WakeUp") \in PlainCommand
  /\ \A s \in Status : GracefulEnd(s) \in PlainCommand
  /\ \A s \in Status, f \in Callers : UpdateStatus(s, f) \in PlainCommand
  /\ \A b \in BOOLEAN : [kind |-> "Response", ok |-> b] \in PlainCommand
<1>1. \A b \in BOOLEAN : [kind |-> "Response", ok |-> b] \in PlainCommand
  BY DEF PlainCommand, Command
<1> QED
  BY <1>1, Commands
  DEF PlainCommand, Signal, Signals, GracefulEnd, UpdateStatus

(* How a handler that only moves its message changes the two queues.        *)
Told == \E ms \in Seq(PlainCommand) : (Tell(ms) /\ UNCHANGED lag) \/ TellAndNext(ms)

Voided == \/ mailbox' = WithoutTick(Tail(mailbox)) \o Popped /\ lag' = Remaining
          \/ mailbox' = WithoutTick(Tail(mailbox)) /\ UNCHANGED lag

Restarted == UNCHANGED answers /\ \E ms \in Seq(PlainCommand) : Crash(ms)

(* The other handlers tell, void the ticks, restart or stop.                *)
LEMMA HandlersMove ==
  ASSUME TypeOK, Actor, ~OnWorkStageResponse, ~OnIngest, ~OnEnqueue
  PROVE  mailbox # <<>> /\ (Told \/ Voided \/ Restarted \/ StopEntity)
<1> USE DEF allButMailbox
<1>1. \A m \in PlainCommand : <<m>> \in Seq(PlainCommand)
  BY SmallSeqs
<1>2. <<>> \in Seq(PlainCommand)
  BY SmallSeqs
<1>3. mailbox # <<>> /\ Incoming \in Command
  <2>1. mailbox # <<>>
    BY DEF Actor, OnStart, OnStartInternalClock, OnStopInternalClock, OnStop, OnClusterEvent,
        OnUpdateScheduler, OnSetup, OnWakeUp, OnTick, OnTrackDate, OnUpdateStatus, OnClose,
        OnHalt, OnPersistException, OnTrackFailure, OnGracefulEnd, OnTrackError, OnRestart,
        OnCloseStageResponse, OnDestroyQueue, OnDestroyQueueResult, OnDiscard, Unhandled,
        Receive
  <2> QED BY <2>1, IncomingType
<1>4. ASSUME Tell(<<>>), UNCHANGED lag
      PROVE  Told
  BY <1>2, <1>4 DEF Told
<1>5. ASSUME NEW m \in PlainCommand, Tell(<<m>>), UNCHANGED lag
      PROVE  Told
  BY <1>1, <1>5 DEF Told
<1>6. ASSUME NEW request, NEW from, PipeAndSetUp(request, from)
      PROVE  Told
  BY <1>5, <1>6, PlainSignals DEF PipeAndSetUp
<1>7. ASSUME NEW m \in PlainCommand, TellAndNext(<<m>>)
      PROVE  Told
  BY <1>1, <1>7 DEF Told
<1>8. ASSUME TellAndNext(<<>>)
      PROVE  Told
  BY <1>2, <1>8 DEF Told
<1>9. CASE OnStart
  BY <1>3, <1>7, <1>9, PlainSignals DEF OnStart
<1>10. CASE OnStartInternalClock
  BY <1>3, <1>10 DEF OnStartInternalClock, Voided
<1>11. CASE OnStopInternalClock
  BY <1>3, <1>11 DEF OnStopInternalClock, Voided
<1>12. CASE OnStop
  BY <1>3, <1>4, <1>12 DEF OnStop
<1>13. CASE OnClusterEvent \/ OnWakeUp \/ OnHalt \/ OnPersistException \/ OnGracefulEnd \/ OnDiscard
  BY <1>3, <1>4, <1>13 DEF OnClusterEvent, OnWakeUp, OnHalt, OnPersistException, OnGracefulEnd,
                     OnDiscard, OnlyTell
<1>14. CASE OnUpdateScheduler
  <2>1. [kind |-> "Response", ok |-> Incoming.row # Null] \in PlainCommand
    BY PlainSignals
  <2> QED BY <1>3, <1>5, <1>14, <2>1 DEF OnUpdateScheduler, Reply
<1>15. CASE OnSetup \/ OnUpdateStatus
  BY <1>3, <1>6, <1>15 DEF OnSetup, OnUpdateStatus
<1>16. CASE OnTick
  <2>1. TickMessages \in Seq(PlainCommand)
    <3>1. /\ UpdateStatus("STALE", Null) \in PlainCommand
          /\ UpdateStatus("RUNNING", Null) \in PlainCommand
          /\ Signal("Close") \in PlainCommand
      BY PlainSignals DEF Status, Callers
    <3> QED BY <3>1 DEF TickMessages
  <2>2. CASE StopEntity
    BY <1>3, <2>2
  <2>3. CASE Crash(<<>>) /\ UNCHANGED answers
    BY <1>2, <1>3, <2>3 DEF Restarted
  <2>4. CASE Passivate
    BY <1>3, <1>4, <2>4 DEF Passivate
  <2>5. CASE OnlyTell(TickMessages)
    BY <1>3, <2>1, <2>5 DEF OnlyTell, Told
  <2> QED BY <1>3, <1>16, <2>2, <2>3, <2>4, <2>5 DEF OnTick
<1>17. CASE OnTrackDate
  BY <1>3, <1>6, <1>8, <1>17 DEF OnTrackDate
<1>18. CASE OnClose
  <2>1. Signal("StopInternalClock") \in PlainCommand
    BY PlainSignals
  <2>2. CASE Crash(<<Signal("StopInternalClock")>>) /\ UNCHANGED answers
    BY <1>1, <1>3, <2>1, <2>2 DEF Restarted
  <2> QED BY <1>3, <1>5, <1>18, <2>1, <2>2 DEF OnClose
<1>19. CASE OnTrackFailure
  BY <1>3, <1>8, <1>19 DEF OnTrackFailure
<1>20. CASE OnTrackError
  BY <1>3, <1>2, <1>6, <1>8, <1>20 DEF OnTrackError, Restarted
<1>21. CASE OnRestart
  <2>1. Incoming.from \in Callers
    BY <1>3, <1>21 DEF OnRestart, Receive, Command, Signals, Callers
  <2>2. UpdateStatus("RUNNING", Incoming.from) \in PlainCommand
    BY <2>1, PlainSignals DEF Status
  <2> QED BY <1>3, <1>7, <1>21, <2>2 DEF OnRestart
<1>22. CASE OnCloseStageResponse
  <2>1. Incoming.status \in Status
    BY <1>3, <1>22 DEF OnCloseStageResponse, Receive, Command, Signals
  <2> QED BY <1>3, <1>5, <1>22, <2>1, PlainSignals DEF OnCloseStageResponse, OnlyTell
<1>23. CASE OnDestroyQueue \/ OnDestroyQueueResult
  BY <1>3, <1>4, <1>5, <1>23, PlainSignals DEF OnDestroyQueue, OnDestroyQueueResult, OnlyTell
<1> QED
  BY <1>3, <1>9, <1>10, <1>11, <1>12, <1>13, <1>14, <1>15, <1>16, <1>17, <1>18, <1>19, <1>20,
     <1>21, <1>22, <1>23
  DEF Actor

(* They answer no delivery, and touch the tokens of the WorkStage and the   *)
(* held ones only by a restart or a stop.                                   *)
LEMMA HandlersKeep ==
  ASSUME TypeOK, Actor, ~OnWorkStageResponse, ~OnIngest, ~OnEnqueue, ~Restarted, ~StopEntity
  PROVE  /\ UNCHANGED <<indexed, workBox, working, held, sent>>
         /\ \A d \in Deliveries : answers'[d] = answers[d]
<1> USE DEF allButMailbox, fields, children, work, outside, ledger
<1>1. \A ms : UNCHANGED answers /\ Crash(ms) => ms \notin Seq(PlainCommand)
  BY DEF Restarted
<1>2. <<>> \in Seq(PlainCommand) /\ <<Signal("StopInternalClock")>> \in Seq(PlainCommand)
  BY SmallSeqs, PlainSignals
<1>3. UNCHANGED <<indexed, workBox, working, held, sent>>
  BY <1>1, <1>2
  DEF Actor, OnStart, OnStartInternalClock, OnStopInternalClock, OnStop, OnClusterEvent,
      OnUpdateScheduler, OnSetup, OnWakeUp, OnTick, OnTrackDate, OnUpdateStatus, OnClose, OnHalt,
      OnPersistException, OnTrackFailure, OnGracefulEnd, OnTrackError, OnRestart,
      OnCloseStageResponse, OnDestroyQueue, OnDestroyQueueResult, OnDiscard, OnlyTell, Passivate
<1>4. ASSUME NEW from \in Callers, NEW v \in {"Success", "Failure"},
             answers' = Answered(from, v), NEW d \in Deliveries
      PROVE  answers'[d] = answers[d]
  <2>1. from \in Requesters \cup {Null} /\ from # d
    BY ConstantsAssumption DEF Callers, Requesters
  <2> QED BY <1>4, <2>1, AnsweredOne
<1>5. CASE OnStart
  <2>1. Incoming \in Command
    BY <1>5, IncomingType DEF OnStart, Receive
  <2>2. Incoming.from \in Callers /\ Verdict(Incoming.ok) \in {"Success", "Failure"}
    BY <1>5, <2>1 DEF OnStart, Receive, Command, Signals, Verdict
  <2> QED BY <1>3, <1>4, <1>5, <2>2 DEF OnStart
<1>6. CASE OnTrackError
  <2>1. Incoming \in Command
    BY <1>6, IncomingType DEF OnTrackError, Receive
  <2>2. Incoming.from \in Callers
    BY <1>6, <2>1 DEF OnTrackError, Receive, Command, Signals, Callers
  <2>3. UNCHANGED answers \/ answers' = Answered(Incoming.from, "Success")
    BY <1>6 DEF OnTrackError, Crash
  <2> QED BY <1>3, <1>4, <2>2, <2>3
<1>7. CASE ~(OnStart \/ OnTrackError)
  <2>1. UNCHANGED answers
    BY <1>7
    DEF Actor, OnStartInternalClock, OnStopInternalClock, OnStop, OnClusterEvent,
        OnUpdateScheduler, OnSetup, OnWakeUp, OnTick, OnTrackDate, OnUpdateStatus, OnClose,
        OnHalt, OnPersistException, OnTrackFailure, OnGracefulEnd, OnRestart,
        OnCloseStageResponse, OnDestroyQueue, OnDestroyQueueResult, OnDiscard, OnlyTell,
        Passivate, Crash
  <2> QED BY <1>3, <2>1
<1> QED BY <1>5, <1>6, <1>7

(* Every handler keeps the tokens, and is a step of the ledger or none.     *)
LEMMA ActorLedger ==
  ASSUME LedgerInv, TypeOK', Actor
  PROVE  OneToken' /\ WorkKnown' /\ (Ledger!Next \/ UNCHANGED Ledger!vars)
<1>1. TypeOK
  BY DEF LedgerInv, Soundness
<1>2. CASE OnWorkStageResponse
  <2>1. /\ OneToken' /\ working' \subseteq working /\ UNCHANGED sent
        /\ Ledger!Next \/ UNCHANGED Ledger!vars
    BY <1>2, WorkStageTokens
  <2>2. WorkKnown'
    BY <2>1 DEF LedgerInv, WorkKnown
  <2> QED BY <2>1, <2>2
<1>3. CASE OnIngest
  BY <1>3, IngestQuiet, QuietLedger
<1>4. CASE OnEnqueue
  BY <1>4, EnqueueQuiet, QuietLedger
<1>5. CASE StopEntity
  BY <1>5, StopLedger
<1>6. CASE ~OnWorkStageResponse /\ ~OnIngest /\ ~OnEnqueue /\ ~StopEntity
  <2>1. mailbox # <<>> /\ (Told \/ Voided \/ Restarted)
    BY <1>1, <1>6, HandlersMove
  <2>2. CASE Restarted
    <3>1. PICK ms \in Seq(PlainCommand) : Crash(ms) /\ UNCHANGED answers
      BY <2>2 DEF Restarted
    <3>2. Quiet
      BY <2>1, <3>1, QuietCrash
    <3> QED BY <3>2, QuietLedger
  <2>3. CASE ~Restarted
    <3>1. /\ UNCHANGED <<indexed, workBox, working, held, sent>>
          /\ \A d \in Deliveries : answers'[d] = answers[d]
      BY <1>1, <1>6, <2>3, HandlersKeep
    <3>2. ASSUME NEW d \in Deliveries
          PROVE  Queueing(d)' <= Queueing(d)
      <4>1. CASE Voided
        BY <1>1, <2>1, <4>1, VoidedQueues DEF Voided
      <4>2. CASE Told
        <5>1. PICK ms \in Seq(PlainCommand) : (Tell(ms) /\ UNCHANGED lag) \/ TellAndNext(ms)
          BY <4>2 DEF Told
        <5>2. Queueing(d)' + One(Incoming, Token(d)) <= Queueing(d)
          BY <1>1, <2>1, <5>1, QuietQueues
        <5>3. /\ Queueing(d)' \in Nat /\ Queueing(d) \in Nat
              /\ One(Incoming, Token(d)) \in Nat
          BY <1>1, QueueingNat, QueueingNext, OneNat
        <5> QED BY ONLY <5>2, <5>3
      <4> QED BY <2>1, <2>3, <4>1, <4>2
    <3>3. Quiet
      BY <3>1, <3>2, QuietTold
    <3> QED BY <3>3, QuietLedger
  <2> QED BY <2>2, <2>3
<1> QED BY <1>2, <1>3, <1>4, <1>5, <1>6

-----------------------------------------------------------------------------
(* The children and the surroundings *)

(* A message without a token that arrives, or none, and an event that may   *)
(* have happened.                                                           *)
NoToken == { m \in Command : m.kind \notin {"Ingest", "WorkStageResponse"} }

(* Neither moves a token.                                                   *)
LEMMA PlainArrival ==
  ASSUME LedgerInv, TypeOK',
         UNCHANGED mailbox \/ \E m \in NoToken : Arrives(m),
         UNCHANGED <<lag, workBox, working, held, answers, indexed>>,
         UNCHANGED sent \/ \E event : Happens(event)
  PROVE  Quiet
<1>1. sent' \cap Deliveries = sent \cap Deliveries
  <2>1. CASE UNCHANGED sent
    BY <2>1
  <2>2. ASSUME NEW event, Happens(event)
        PROVE  sent' \cap Deliveries = sent \cap Deliveries
    <3>1. event \in ExternalEvents /\ sent' = sent \cup {event}
      BY <2>2, ConstantsAssumption DEF Happens
    <3>2. event \notin Deliveries
      BY <3>1, ConstantsAssumption DEF Requesters
    <3> QED BY <3>1, <3>2
  <2> QED BY <2>1, <2>2
<1>2. ASSUME NEW d \in Deliveries
      PROVE  Queueing(d)' <= Queueing(d)
  <2>1. TypeOK
    BY DEF LedgerInv, Soundness
  <2>2. Queueing(d) \in Nat
    BY <2>1, QueueingNat
  <2>3. CASE UNCHANGED mailbox
    <3>1. Queueing(d)' = Queueing(d)
      BY <2>3 DEF Queueing
    <3> QED BY ONLY <2>2, <3>1
  <2>4. ASSUME NEW m \in NoToken, Arrives(m)
        PROVE  Queueing(d)' <= Queueing(d)
    <3>1. m \in Command /\ One(m, Token(d)) = 0
      BY Tokenless DEF NoToken
    <3>2. Queueing(d)' = Queueing(d) + One(m, Token(d))
      BY <2>1, <2>4, <3>1, ArrivesTokens
    <3> QED BY ONLY <2>2, <3>1, <3>2
  <2> QED BY <2>3, <2>4
<1> QED BY <1>1, <1>2, QuietTold

(* A plain message delivered by the shard.                                  *)
LEMMA DeliverTokens ==
  ASSUME TypeOK, NEW m \in Command, Deliver(m), NEW d \in Deliveries
  PROVE  Queueing(d)' <= Queueing(d) + One(m, Token(d))
<1>1. UNCHANGED lag
  BY DEF Deliver
<1>2. CASE Arrives(m)
  <2>1. Queueing(d)' = Queueing(d) + One(m, Token(d)) /\ Queueing(d) \in Nat
    BY <1>1, <1>2, ArrivesTokens, QueueingNat
  <2> QED BY <2>1, OneNat
<1>3. CASE mailbox' = <<Signal("Setup"), m>>
  <2>1. <<Signal("Setup")>> \in Seq(Command) /\ <<m>> \in Seq(Command)
    BY Commands, SmallSeqs
  <2>2. <<Signal("Setup"), m>> = <<Signal("Setup")>> \o <<m>>
    OBVIOUS
  <2>3. Among(<<Signal("Setup")>> \o <<m>>, Token(d))
          = Among(<<Signal("Setup")>>, Token(d)) + Among(<<m>>, Token(d))
    BY <2>1, AmongConcat
  <2>4. Among(<<Signal("Setup")>>, Token(d)) = 0 /\ Among(<<m>>, Token(d)) = One(m, Token(d))
    BY Tokenless, AmongSmall DEF Signal
  <2>5. Among(mailbox', Token(d)) = One(m, Token(d))
    <3>1. mailbox' = <<Signal("Setup")>> \o <<m>>
      BY <1>3, <2>2
    <3>2. Among(mailbox', Token(d))
            = Among(<<Signal("Setup")>>, Token(d)) + Among(<<m>>, Token(d))
      BY <3>1, <2>3
    <3>3. One(m, Token(d)) \in Nat
      BY OneNat
    <3> QED BY ONLY <2>4, <3>2, <3>3
  <2>6. /\ Queueing(d)' = Among(mailbox', Token(d)) + Among(lag, Token(d))
        /\ Queueing(d) = Among(mailbox, Token(d)) + Among(lag, Token(d))
    BY <1>1 DEF Queueing
  <2>7. /\ Among(mailbox, Token(d)) \in Nat /\ Among(lag, Token(d)) \in Nat
        /\ One(m, Token(d)) \in Nat
    BY QueueingNat, OneNat
  <2> QED BY ONLY <2>5, <2>6, <2>7
<1> QED BY <1>2, <1>3 DEF Deliver

(* Another message delivered by the shard moves no token.                    *)
LEMMA PlainDelivery ==
  ASSUME LedgerInv, TypeOK', NEW m \in Command, Deliver(m), UNCHANGED answers,
         m.kind # "Ingest" /\ m.kind # "WorkStageResponse",
         sent' \cap Deliveries = sent \cap Deliveries
  PROVE  Quiet
<1>1. UNCHANGED <<indexed, workBox, working, held>>
  BY DEF Deliver, children, work, fields, ledger
<1>2. ASSUME NEW d \in Deliveries
      PROVE  Queueing(d)' <= Queueing(d)
  <2>1. Queueing(d)' <= Queueing(d) + One(m, Token(d)) /\ One(m, Token(d)) = 0
    BY DeliverTokens, Tokenless DEF LedgerInv, Soundness
  <2>2. Queueing(d) \in Nat
    BY QueueingNat DEF LedgerInv, Soundness
  <2> QED BY <2>1, <2>2
<1> QED BY <1>1, <1>2, QuietTold

(* The WorkStage takes a delivery and responds about it: the token moves.   *)
LEMMA StartWorkerLedger ==
  ASSUME LedgerInv, TypeOK', StartWorker
  PROVE  OneToken' /\ WorkKnown' /\ UNCHANGED Ledger!vars
<1> PICK d : d = Head(workBox)
  OBVIOUS
<1>1. /\ TypeOK /\ workBox \in Seq(Deliveries) /\ workBox # <<>> /\ d \in Deliveries
      /\ workBox' = Tail(workBox) /\ Tail(workBox) \in Seq(Deliveries)
  BY HeadTailProperties DEF LedgerInv, Soundness, TypeOK, StartWorker
<1> DEFINE reply(o) == [kind |-> "WorkStageResponse", outcome |-> o, from |-> d]
<1>2. PICK o \in Outcomes \ {"Done", "Failed"} :
        /\ Arrives(reply(o))
        /\ working' \subseteq working \cup {d}
        /\ working' = working \/ PayloadType[d] = "DOCUMENT"
  BY DEF StartWorker, Respond, Outcomes
<1>3. UNCHANGED <<lag, held, answers, indexed, sent>>
  BY DEF StartWorker, fields, outside, ledger
<1>4. reply(o) \in Command /\ \A e : reply(o) \in Token(e) <=> e = d
  <2>1. reply(o) \in Command
    BY <1>1, <1>2 DEF Command
  <2>2. \A e : reply(o) \in Token(e) <=> e = d
    BY <1>2, <2>1 DEF Token
  <2> QED BY <2>1, <2>2
<1>5. ASSUME NEW e \in Deliveries
      PROVE  /\ Queueing(e)' + Settled(e)' = Queueing(e) + Settled(e)
             /\ Among(workBox, {e}) >= One(d, {e})
  <2>1. Queueing(e)' = Queueing(e) + One(reply(o), Token(e))
    BY <1>1, <1>2, <1>3, <1>4, ArrivesTokens
  <2>2. One(reply(o), Token(e)) = One(d, {e})
    BY <1>4 DEF One
  <2>3. Among(workBox, {e}) = One(d, {e}) + Among(Tail(workBox), {e})
    BY <1>1, AmongHeadTail
  <2>4. /\ Settled(e)' = Among(Tail(workBox), {e}) + One(e, held) + Len(answers[e])
        /\ Settled(e) = Among(workBox, {e}) + One(e, held) + Len(answers[e])
    BY <1>1, <1>3 DEF Settled
  <2>5. /\ Among(Tail(workBox), {e}) \in Nat /\ One(d, {e}) \in Nat
        /\ Queueing(e) \in Nat /\ One(e, held) \in Nat /\ Len(answers[e]) \in Nat
    BY <1>1, AmongFinite, QueueingNat, OneNat
  <2> QED BY ONLY <2>1, <2>2, <2>3, <2>4, <2>5
<1>6. ASSUME NEW e \in Deliveries
      PROVE  Queueing(e)' + Settled(e)' <= One(e, sent)
  <2>1. Queueing(e)' + Settled(e)' = Queueing(e) + Settled(e)
    BY <1>5
  <2>2. Queueing(e) + Settled(e) <= One(e, sent)
    BY DEF LedgerInv, OneToken
  <2> QED BY ONLY <2>1, <2>2
<1>7. OneToken'
  BY <1>3, <1>6 DEF OneToken
<1>8. d \in sent
  <2>1. Among(workBox, {d}) >= 1
    <3>1. Among(workBox, {d}) >= One(d, {d})
      BY <1>1, <1>5
    <3>2. One(d, {d}) = 1
      BY DEF One
    <3> QED BY <3>1, <3>2
  <2>2. Queueing(d) + Settled(d) <= One(d, sent)
    BY <1>1 DEF LedgerInv, OneToken
  <2>3. /\ Among(workBox, {d}) \in Nat /\ Queueing(d) \in Nat /\ One(d, held) \in Nat
        /\ Len(answers[d]) \in Nat /\ One(d, sent) \in Nat
    BY <1>1, QueueingNat, OneNat
  <2>4. One(d, sent) >= 1
    BY ONLY <2>1, <2>2, <2>3 DEF Settled
  <2> QED BY <2>4 DEF One
<1>9. WorkKnown'
  BY <1>1, <1>2, <1>3, <1>8 DEF LedgerInv, WorkKnown
<1> QED BY <1>3, <1>7, <1>9, LedgerStutters

(* The end of the work carries no token: a step of the ledger when the      *)
(* document was indexed.                                                    *)
LEMMA FinishWorkLedger ==
  ASSUME LedgerInv, TypeOK', NEW d \in working, FinishWork(d)
  PROVE  OneToken' /\ WorkKnown' /\ (Ledger!Next \/ UNCHANGED Ledger!vars)
<1> DEFINE reply(o) == [kind |-> "WorkStageResponse", outcome |-> o, from |-> d]
<1>1. TypeOK /\ d \in Deliveries /\ d \in sent /\ PayloadType[d] = "DOCUMENT"
  BY DEF LedgerInv, Soundness, TypeOK, WorkKnown
<1>2. UNCHANGED <<lag, held, answers, workBox, sent>> /\ working' \subseteq working
  BY DEF FinishWork, fields, outside
<1>3. PICK o \in {"Done", "Failed"} : Arrives(reply(o))
  BY DEF FinishWork, Respond
<1>4. reply(o) \in Command /\ \A e : reply(o) \notin Token(e)
  BY <1>1, <1>3 DEF Command, Token, Outcomes
<1>5. ASSUME NEW e \in Deliveries
      PROVE  Queueing(e)' + Settled(e)' <= One(e, sent)
  <2>1. Queueing(e)' = Queueing(e) + One(reply(o), Token(e)) /\ One(reply(o), Token(e)) = 0
    BY <1>1, <1>2, <1>3, <1>4, ArrivesTokens DEF One
  <2>2. Settled(e)' = Settled(e)
    BY <1>2 DEF Settled
  <2>3. Queueing(e) + Settled(e) <= One(e, sent) /\ Queueing(e) \in Nat
    BY <1>1, QueueingNat DEF LedgerInv, OneToken
  <2> QED BY ONLY <2>1, <2>2, <2>3
<1>6. OneToken'
  BY <1>2, <1>5 DEF OneToken
<1>7. WorkKnown'
  BY <1>2 DEF LedgerInv, WorkKnown
<1>8. CASE indexed' = indexed \cup {d}
  <2>1. [e \in Deliveries |-> answers[e]]' = [e \in Deliveries |-> answers[e]]
    BY <1>2
  <2>2. Ledger!Work(d)
    BY <1>1, <1>2, <1>8, <2>1 DEF Ledger!Work
  <2> QED BY <1>1, <1>6, <1>7, <2>2 DEF Ledger!Next
<1>9. CASE UNCHANGED indexed
  BY <1>2, <1>6, <1>7, <1>9, LedgerStutters
<1> QED BY <1>8, <1>9 DEF FinishWork

(* The tokens with a WorkStage that dies are lost.                          *)
LEMMA FailWorkStageQuiet ==
  ASSUME LedgerInv, TypeOK', FailWorkStage
  PROVE  Quiet
<1>1. /\ workBox' = <<>> /\ working' = {}
      /\ UNCHANGED <<mailbox, lag, held, answers, indexed>>
      /\ \E event : Happens(event)
  BY DEF FailWorkStage, fields, ledger
<1>2. sent' \cap Deliveries = sent \cap Deliveries
  BY <1>1, ConstantsAssumption DEF Happens, Requesters
<1>3. ASSUME NEW d \in Deliveries
      PROVE  Queueing(d)' + Settled(d)' <= Queueing(d) + Settled(d)
  <2>1. Among(workBox', {d}) = 0
    BY <1>1, AmongSmall
  <2>2. Queueing(d)' = Queueing(d)
    BY <1>1 DEF Queueing
  <2>3. /\ Settled(d)' = Among(workBox', {d}) + One(d, held) + Len(answers[d])
        /\ Settled(d) = Among(workBox, {d}) + One(d, held) + Len(answers[d])
    BY <1>1 DEF Settled
  <2>4. /\ Among(workBox, {d}) \in Nat /\ One(d, held) \in Nat /\ Len(answers[d]) \in Nat
        /\ Queueing(d) \in Nat
    BY QueueingNat, OneNat DEF LedgerInv, Soundness
  <2> QED BY ONLY <2>1, <2>2, <2>3, <2>4
<1> QED BY <1>1, <1>2, <1>3 DEF Quiet

(* A consumer asks: the one token of the delivery.                          *)
LEMMA SendLedger ==
  ASSUME LedgerInv, TypeOK', NEW d \in Deliveries, SendIngest(d)
  PROVE  OneToken' /\ WorkKnown' /\ Ledger!Next
<1> DEFINE m == [kind |-> "Ingest", from |-> d]
<1>1. /\ d \notin sent /\ sent' = sent \cup {d} /\ Deliver(m)
      /\ UNCHANGED <<indexed, answers, workBox, working, held>>
  BY DEF SendIngest, Ask, Deliver, children, work, fields, ledger
<1>2. m \in Command /\ \A e : m \in Token(e) <=> e = d
  BY DEF Command, Token
<1>3. TypeOK
  BY DEF LedgerInv, Soundness
<1>4. ASSUME NEW e \in Deliveries
      PROVE  Queueing(e)' + Settled(e)' <= One(e, sent')
  <2>1. Queueing(e)' <= Queueing(e) + One(m, Token(e))
    BY <1>1, <1>2, <1>3, DeliverTokens
  <2>2. One(m, Token(e)) + One(e, sent) = One(e, sent')
    BY <1>1, <1>2 DEF One
  <2>3. Settled(e)' = Settled(e) /\ Queueing(e) + Settled(e) <= One(e, sent)
    BY <1>1 DEF LedgerInv, OneToken, Settled
  <2>4. /\ Queueing(e) \in Nat /\ Settled(e) \in Nat /\ Queueing(e)' \in Nat
        /\ One(m, Token(e)) \in Nat /\ One(e, sent) \in Nat
    BY <1>3, QueueingNat, QueueingNext, OneNat
  <2> QED BY ONLY <2>1, <2>2, <2>3, <2>4
<1>5. OneToken'
  BY <1>4 DEF OneToken
<1>6. WorkKnown'
  BY <1>1 DEF LedgerInv, WorkKnown
<1>7. [e \in Deliveries |-> answers[e]]' = [e \in Deliveries |-> answers[e]]
  BY <1>1
<1>8. Ledger!Ask(d)
  BY <1>1, <1>7 DEF Ledger!Ask
<1> QED BY <1>5, <1>6, <1>8 DEF Ledger!Next

(* The children and the surroundings keep the tokens, and are steps of the  *)
(* ledger or none.                                                          *)
LEMMA OthersLedger ==
  ASSUME LedgerInv, TypeOK', Database \/ Children \/ DeleteQueues \/ ShardStops \/ TimerFires
                      \/ Environment
  PROVE  OneToken' /\ WorkKnown' /\ (Ledger!Next \/ UNCHANGED Ledger!vars)
<1> USE DEF fields, outside, ledger, children, work, allButMailbox
<1>0. TypeOK /\ \A k \in Signals : Signal(k) \in NoToken
  BY Commands DEF LedgerInv, Soundness, NoToken, Signal, Signals
<1>1. ASSUME UNCHANGED mailbox \/ \E m \in NoToken : Arrives(m),
             UNCHANGED <<lag, workBox, working, held, answers, indexed>>,
             UNCHANGED sent \/ \E event : Happens(event)
      PROVE  OneToken' /\ WorkKnown' /\ UNCHANGED Ledger!vars
  BY <1>1, PlainArrival, QuietLedger
<1>2. CASE Database
  <2>1. PICK i \in DOMAIN transactions :
          BeginTransaction(i) \/ CommitTransaction(i) \/ FailTransaction(i)
    BY <1>2 DEF Database
  <2>2. UNCHANGED <<lag, workBox, working, held, answers, indexed>>
    BY <2>1 DEF BeginTransaction, CommitTransaction, FailTransaction
  <2>3. UNCHANGED sent \/ \E event : Happens(event)
    BY <2>1 DEF BeginTransaction, CommitTransaction, FailTransaction
  <2>4. \A result \in Row \cup {Null} :
          [kind |-> "UpdateScheduler", row |-> result] \in NoToken
    BY DEF NoToken, Command
  <2>5. UNCHANGED mailbox \/ \E m \in NoToken : Arrives(m)
    BY <1>0, <1>2, <2>4, DatabaseTells
  <2> QED BY <1>1, <2>2, <2>3, <2>5
<1>3. CASE StartWorker
  BY <1>3, StartWorkerLedger
<1>4. ASSUME NEW d \in working, FinishWork(d)
      PROVE  OneToken' /\ WorkKnown' /\ (Ledger!Next \/ UNCHANGED Ledger!vars)
  BY <1>4, FinishWorkLedger
<1>5. CASE CloseStageReplies
  <2>1. [kind |-> "CloseStageResponse", status |-> ClosingStatus(closeStage.row)]
          \in NoToken
    BY DEF NoToken, Command, ClosingStatus, Status
  <2> QED BY <1>1, <1>5, <2>1 DEF CloseStageReplies
<1>6. CASE DeleteQueues
  <2>1. Signal("DestroyQueueResult") \in NoToken
    BY <1>0 DEF Signals
  <2> QED BY <1>1, <1>6, <2>1 DEF DeleteQueues
<1>7. CASE ShardStops
  BY <1>0, <1>1, <1>7 DEF ShardStops, Signals
<1>8. CASE TimerFires
  <2>1. Signal("TimerTick") \in NoToken
    BY <1>0 DEF Signals
  <2> QED BY <1>1, <1>8, <2>1 DEF TimerFires
<1>9. ASSUME NEW m \in Command, m.kind # "Ingest" /\ m.kind # "WorkStageResponse", Deliver(m),
             sent' \cap Deliveries = sent \cap Deliveries
      PROVE  OneToken' /\ WorkKnown' /\ UNCHANGED Ledger!vars
  BY <1>9, PlainDelivery, QuietLedger DEF Deliver
<1>10. ASSUME NEW event \in ExternalEvents, Happens(event)
       PROVE  sent' \cap Deliveries = sent \cap Deliveries
  <2>1. event \notin Deliveries /\ sent' = sent \cup {event}
    BY <1>10, ConstantsAssumption DEF Requesters, Happens
  <2> QED BY <2>1
<1>11. ASSUME NEW d \in Deliveries, SendIngest(d)
       PROVE  OneToken' /\ WorkKnown' /\ Ledger!Next
  BY <1>11, SendLedger
<1>12. ASSUME NEW kind \in {"TrackError", "Restart"}, NEW c \in TrackErrors \cup Restarts,
              Ask(kind, c), [kind |-> kind, from |-> c] \in Command
       PROVE  OneToken' /\ WorkKnown' /\ UNCHANGED Ledger!vars
  <2>1. sent' \cap Deliveries = sent \cap Deliveries
    BY <1>12, ConstantsAssumption DEF Ask
  <2> QED BY <1>9, <1>12, <2>1 DEF Ask
<1>13. CASE SendWakeUp \/ SendHalt \/ CancelScheduling \/ CloseScheduling
  <2>1. GracefulEnd("CANCELLED") \in Command /\ GracefulEnd("CANCELLED").kind = "GracefulEnd"
    BY Commands DEF Status, GracefulEnd
  <2> QED
    BY <1>9, <1>10, <1>13, <2>1, Commands
    DEF SendWakeUp, SendHalt, CancelScheduling, CloseScheduling, Signal, ExternalEvents
<1>14. CASE Expire
  BY <1>1, <1>14 DEF Expire
<1>15. CASE MemberEvent
  <2>1. {Signal("MemberUp"), Signal("MemberDowned"), Signal("MemberOther")} \subseteq NoToken
    BY <1>0 DEF Signals
  <2> QED BY <1>1, <1>15, <2>1 DEF MemberEvent
<1>16. CASE Environment
  <2>1. ASSUME NEW c \in TrackErrors, SendTrackError(c)
        PROVE  OneToken' /\ WorkKnown' /\ UNCHANGED Ledger!vars
    BY <1>12, <2>1 DEF SendTrackError, Command
  <2>2. ASSUME NEW c \in Restarts, SendRestart(c)
        PROVE  OneToken' /\ WorkKnown' /\ UNCHANGED Ledger!vars
    BY <1>12, <2>2 DEF SendRestart, Command
  <2>3. CASE FailWorkStage
    BY <2>3, FailWorkStageQuiet, QuietLedger
  <2> QED BY <1>11, <1>13, <1>14, <1>15, <1>16, <2>1, <2>2, <2>3 DEF Environment
<1> QED
  BY <1>2, <1>3, <1>4, <1>5, <1>6, <1>7, <1>8, <1>16 DEF Children

-----------------------------------------------------------------------------
(* The theorems *)

LEMMA InitLedger == Init => LedgerInv /\ Ledger!Init
<1> SUFFICES ASSUME Init PROVE LedgerInv /\ Ledger!Init
  OBVIOUS
<1>1. Soundness
  BY InitSound
<1>2. WorkKnown
  BY DEF Init, WorkKnown
<1>3. ASSUME NEW d \in Deliveries
      PROVE  Queueing(d) + Settled(d) <= One(d, sent) /\ answers[d] = <<>>
  <2>1. mailbox = <<>> /\ lag = <<>> /\ workBox = <<>> /\ held = {} /\ answers[d] = <<>>
    BY DEF Init, Requesters
  <2>2. Among(mailbox, Token(d)) = 0 /\ Among(lag, Token(d)) = 0 /\ Among(workBox, {d}) = 0
    BY <2>1, AmongSmall
  <2>3. One(d, held) = 0 /\ Len(answers[d]) = 0 /\ One(d, sent) \in Nat
    BY <2>1, OneNat DEF One
  <2>4. Queueing(d) = 0 /\ Settled(d) = 0
    BY <2>2, <2>3 DEF Queueing, Settled
  <2> QED BY <2>1, <2>3, <2>4
<1>4. OneToken
  BY <1>3 DEF OneToken
<1>5. Ledger!Init
  BY <1>3 DEF Init, Ledger!Init
<1> QED BY <1>1, <1>2, <1>4, <1>5 DEF LedgerInv

(* Every step keeps the invariant, and is a step of the ledger or none.      *)
LEMMA NextLedger ==
  LedgerInv /\ [Next]_vars => LedgerInv' /\ [Ledger!Next]_(Ledger!vars)
<1> SUFFICES ASSUME LedgerInv, [Next]_vars
             PROVE  LedgerInv' /\ [Ledger!Next]_(Ledger!vars)
  OBVIOUS
<1>1. Soundness' /\ TypeOK'
  BY SoundSteps DEF LedgerInv, Soundness
<1>2. CASE Actor
  BY <1>1, <1>2, ActorLedger DEF LedgerInv
<1>3. CASE Database \/ Children \/ DeleteQueues \/ ShardStops \/ TimerFires \/ Environment
  BY <1>1, <1>3, OthersLedger DEF LedgerInv
<1>4. CASE UNCHANGED vars
  <2>1. UNCHANGED <<mailbox, lag, workBox, working, held, answers, indexed, sent>>
    BY <1>4 DEF vars, allButMailbox, ledger, fields, children, work, outside
  <2>2. UNCHANGED Ledger!vars
    BY <2>1, LedgerStutters
  <2>3. OneToken'
    BY <2>1 DEF LedgerInv, OneToken, Queueing, Settled
  <2>4. WorkKnown'
    BY <2>1 DEF LedgerInv, WorkKnown
  <2> QED BY <1>1, <2>2, <2>3, <2>4 DEF LedgerInv
<1> QED BY <1>2, <1>3, <1>4 DEF Next

(* A delivery is answered at most once, by its outcome or by the release of *)
(* a stop, whatever restarts, stops and incarnations come between: a crash  *)
(* of the consumer aside, no document is acknowledged and refused.          *)
THEOREM Answers == Spec => []AnsweredAtMostOnce
<1>1. LedgerInv => AnsweredAtMostOnce
  <2> SUFFICES ASSUME LedgerInv, NEW d \in Deliveries
               PROVE  Len(answers[d]) <= 1
    BY DEF AnsweredAtMostOnce
  <2>1. Queueing(d) + Settled(d) <= One(d, sent)
    BY DEF LedgerInv, OneToken
  <2>2. /\ Queueing(d) \in Nat /\ Among(workBox, {d}) \in Nat /\ One(d, held) \in Nat
        /\ Len(answers[d]) \in Nat
    BY QueueingNat DEF LedgerInv, Soundness
  <2>3. One(d, sent) = 0 \/ One(d, sent) = 1
    BY DEF One
  <2> QED BY ONLY <2>1, <2>2, <2>3 DEF Settled
<1> QED BY <1>1, InitLedger, NextLedger, PTL DEF Spec

(* The entity keeps the promise its consumers rely on: every step of it is  *)
(* a step of the ledger, or leaves the ledger alone.                        *)
THEOREM Refinement == Spec => ImplementsLedger
<1>1. Init => LedgerInv /\ Ledger!Init
  BY InitLedger
<1>2. LedgerInv /\ [Next]_vars => LedgerInv' /\ [Ledger!Next]_(Ledger!vars)
  BY NextLedger
<1> QED BY <1>1, <1>2, PTL DEF Spec, ImplementsLedger, Ledger!Spec

-----------------------------------------------------------------------------
(* The dates *)

(* What is done and confirmed stays so, and a source a source.              *)
LEMMA SourceStays ==
  ASSUME LedgerInv, [Next]_vars
  PROVE  /\ \A date : HasSource(date) => HasSource(date)'
         /\ \A date : Sourced(date) => Sourced(date)'
         /\ SourcedCommand \subseteq SourcedCommand'
         /\ SourcedTransaction \subseteq SourcedTransaction'
<1>1. Ledger!Next \/ UNCHANGED Ledger!vars
  BY NextLedger
<1>2. indexed \subseteq indexed'
  BY <1>1 DEF Ledger!Next, Ledger!vars, Ledger!Ask, Ledger!Work, Ledger!Confirm, Ledger!Reject
<1>3. ASSUME NEW d \in Deliveries, Confirmed(d)
      PROVE  Confirmed(d)'
  <2>1. CASE [e \in Deliveries |-> answers[e]]' = [e \in Deliveries |-> answers[e]]
    <3>1. answers'[d] = answers[d]
      BY <2>1
    <3> QED BY <1>3, <3>1 DEF Confirmed
  <2>2. answers[d] # <<>>
    BY <1>3 DEF Confirmed
  <2>3. ASSUME NEW e \in Deliveries, Ledger!Confirm(e)
        PROVE  answers'[d] = answers[d]
    <3>1. e # d
      BY <2>2, <2>3 DEF Ledger!Confirm, Ledger!Unanswered
    <3>2. [x \in Deliveries |-> answers[x]]'
            = [[x \in Deliveries |-> answers[x]] EXCEPT ![e] = <<"Success">>]
      BY <2>3 DEF Ledger!Confirm
    <3> QED BY <3>1, <3>2
  <2>4. ASSUME NEW refused \in SUBSET Deliveries, Ledger!Reject(refused)
        PROVE  answers'[d] = answers[d]
    <3>1. d \notin refused
      BY <2>2, <2>4 DEF Ledger!Reject, Ledger!Unanswered
    <3>2. [x \in Deliveries |-> answers[x]]'
            = [x \in Deliveries |-> IF x \in refused THEN <<"Failure">>
                                    ELSE [y \in Deliveries |-> answers[y]][x]]
      BY <2>4 DEF Ledger!Reject
    <3> QED BY <3>1, <3>2
  <2>5. ASSUME answers'[d] = answers[d]
        PROVE  Confirmed(d)'
    BY <1>3, <2>5 DEF Confirmed
  <2> QED
    BY <1>1, <2>1, <2>3, <2>4, <2>5 DEF Ledger!Next, Ledger!vars, Ledger!Ask, Ledger!Work
<1>4. ASSUME NEW date, HasSource(date)
      PROVE  HasSource(date)'
  <2>1. PICK d \in Deliveries : /\ ParsingDate[d] = date
                                /\ d \in indexed \/ (PayloadType[d] = "LAST" /\ Confirmed(d))
    BY <1>4 DEF HasSource
  <2>2. d \in indexed' \/ (PayloadType[d] = "LAST" /\ Confirmed(d)')
    BY <1>2, <1>3, <2>1
  <2> QED BY <2>1, <2>2 DEF HasSource
<1>5. \A date : Sourced(date) => Sourced(date)'
  BY <1>4 DEF Sourced
<1>6. SourcedCommand \subseteq SourcedCommand'
  BY <1>4, <1>5 DEF SourcedCommand
<1>7. SourcedTransaction \subseteq SourcedTransaction'
  BY <1>4, <1>5 DEF SourcedTransaction
<1> QED BY <1>4, <1>5, <1>6, <1>7

(* The message a behavior is given is sourced.                              *)
LEMMA IncomingSourced ==
  ASSUME TypeOK, DatesSourced, mailbox # <<>>
  PROVE  Incoming \in SourcedCommand
<1>1. Incoming \in Command
  BY IncomingType
<1>2. Head(mailbox) \in SourcedCommand
  BY HeadTailProperties DEF DatesSourced
<1>3. \/ Incoming = Head(mailbox)
      \/ Incoming.kind \notin {"TrackDate", "UpdateScheduler", "WorkStageResponse"}
  BY DEF Incoming, Adapt, Signal, GracefulEnd
<1> QED BY <1>1, <1>2, <1>3 DEF SourcedCommand

(* What carries no date is sourced.                                          *)
LEMMA PlainSourced == PlainCommand \subseteq SourcedCommand
  BY DEF PlainCommand, SourcedCommand

(* Popping and voiding keep a queue in any set that has the plain commands. *)
LEMMA PartsIn ==
  ASSUME NEW S, PlainCommand \subseteq S, mailbox \in Seq(S), lag \in Seq(S), mailbox # <<>>
  PROVE  /\ Tail(mailbox) \in Seq(S) /\ WithoutTick(Tail(mailbox)) \in Seq(S)
         /\ Popped \in Seq(S) /\ Remaining \in Seq(S)
<1>1. Tail(mailbox) \in Seq(S)
  BY HeadTailProperties
<1>2. lag # <<>> => Head(lag) \in S /\ Tail(lag) \in Seq(S)
  BY HeadTailProperties
<1>3. Popped \in Seq(S) /\ Remaining \in Seq(S)
  BY <1>2, SmallSeqs DEF Popped, Remaining
<1>4. WithoutTick(Tail(mailbox)) \in Seq(S)
  <2>1. \A i \in DOMAIN Tail(mailbox) : Tail(mailbox)[i] \in S
    BY <1>1, ElementOfSeq, LenProperties
  <2>2. Signal("VoidTick") \in S
    BY PlainSignals DEF Signals
  <2>3. WithoutTick(Tail(mailbox)) \in [1 .. Len(Tail(mailbox)) -> S]
    BY <1>1, <2>1, <2>2, LenProperties DEF WithoutTick
  <2> QED BY <1>1, <2>3, LenProperties, IsASeq
<1> QED BY <1>1, <1>3, <1>4

(* So does every way a handler changes the queues.                          *)
LEMMA MovesIn ==
  ASSUME NEW S, PlainCommand \subseteq S, mailbox \in Seq(S), lag \in Seq(S), mailbox # <<>>
  PROVE  /\ \A ms \in Seq(S) : Tell(ms) /\ UNCHANGED lag
                                 => mailbox' \in Seq(S) /\ lag' \in Seq(S)
         /\ \A ms \in Seq(S) : TellAndNext(ms) => mailbox' \in Seq(S) /\ lag' \in Seq(S)
         /\ \A ms \in Seq(S) : Crash(ms) => mailbox' \in Seq(S) /\ lag' \in Seq(S)
         /\ Voided \/ StopEntity => mailbox' \in Seq(S) /\ lag' \in Seq(S)
<1>1. /\ Tail(mailbox) \in Seq(S) /\ WithoutTick(Tail(mailbox)) \in Seq(S)
      /\ Popped \in Seq(S) /\ Remaining \in Seq(S)
  BY PartsIn
<1>2. <<>> \in Seq(S) /\ <<Signal("Setup")>> \in Seq(S)
  BY PlainSignals, SmallSeqs
<1>3. ASSUME NEW ms \in Seq(S), Tell(ms), UNCHANGED lag
      PROVE  mailbox' \in Seq(S) /\ lag' \in Seq(S)
  BY <1>1, <1>3, ConcatProperties DEF Tell
<1>4. ASSUME NEW ms \in Seq(S), TellAndNext(ms)
      PROVE  mailbox' \in Seq(S) /\ lag' \in Seq(S)
  <2>1. ms \o Popped \in Seq(S)
    BY <1>1, ConcatProperties
  <2> QED BY <1>1, <1>4, <2>1, ConcatProperties DEF TellAndNext, Tell
<1>5. ASSUME NEW ms \in Seq(S), Crash(ms)
      PROVE  mailbox' \in Seq(S) /\ lag' \in Seq(S)
  <2>1. WithoutTick(Tail(mailbox)) \o ms \in Seq(S)
    BY <1>1, ConcatProperties
  <2> QED BY <1>2, <1>5, <2>1, ConcatProperties DEF Crash, FreshFields
<1>6. ASSUME Voided
      PROVE  mailbox' \in Seq(S) /\ lag' \in Seq(S)
  BY <1>1, <1>6, ConcatProperties DEF Voided
<1>7. ASSUME StopEntity
      PROVE  mailbox' \in Seq(S) /\ lag' \in Seq(S)
  BY <1>2, <1>7 DEF StopEntity, FreshFields
<1> QED BY <1>3, <1>4, <1>5, <1>6, <1>7

(* A handler tells a date of a document that is done, or of a LAST message  *)
(* that it confirms.                                                        *)
LEMMA QueuesSourced ==
  ASSUME LedgerInv, DatesSourced, [Next]_vars, Actor
  PROVE  mailbox' \in Seq(SourcedCommand') /\ lag' \in Seq(SourcedCommand')
<1> PICK S : S = SourcedCommand'
  OBVIOUS
<1>1. TypeOK /\ mailbox # <<>> /\ Incoming \in Command
  <2>1. mailbox # <<>>
    BY DEF Actor, OnWorkStageResponse, OnInvalid, OnWorkHalt, OnLast, OnWorking, OnDone, OnFailed,
        FromWorkStage, OnIngest, OnEnqueue,
        OnStart, OnStartInternalClock, OnStopInternalClock, OnStop, OnClusterEvent,
        OnUpdateScheduler, OnSetup, OnWakeUp, OnTick, OnTrackDate, OnUpdateStatus, OnClose,
        OnHalt, OnPersistException, OnTrackFailure, OnGracefulEnd, OnTrackError, OnRestart,
        OnCloseStageResponse, OnDestroyQueue, OnDestroyQueueResult, OnDiscard, Unhandled,
        Receive
  <2> QED BY <2>1, IncomingType DEF LedgerInv, Soundness
<1>2. SourcedCommand \subseteq S /\ PlainCommand \subseteq S
  BY SourceStays, PlainSourced
<1>3. mailbox \in Seq(S) /\ lag \in Seq(S) /\ Incoming \in S
  BY <1>1, <1>2, IncomingSourced DEF DatesSourced
<1>4. /\ <<>> \in Seq(S) /\ \A m \in PlainCommand : <<m>> \in Seq(S)
      /\ Seq(PlainCommand) \subseteq Seq(S)
  BY <1>2, SmallSeqs
<1>5. ASSUME NEW ms \in Seq(S),
             (Tell(ms) /\ UNCHANGED lag) \/ TellAndNext(ms) \/ Crash(ms) \/ ReadyOrBusy(ms)
      PROVE  mailbox' \in Seq(S) /\ lag' \in Seq(S)
  BY <1>1, <1>2, <1>3, <1>5, MovesIn DEF ReadyOrBusy
<1>6. CASE OnWorkStageResponse
  <2>0. <<Signal("PersistException")>> \in Seq(S) /\ <<Signal("Halt")>> \in Seq(S)
    BY <1>4, PlainSignals
  <2>1. ASSUME NEW d \in Deliveries, HasSource(ParsingDate[d])'
        PROVE  <<TrackDate(d)>> \in Seq(S)
    <3>1. TrackDate(d) \in Command
      BY Commands
    <3>2. TrackDate(d) \in SourcedCommand'
      BY <2>1, <3>1 DEF SourcedCommand, TrackDate
    <3> QED BY <3>2, SmallSeqs
  <2> PICK d : d = Incoming.from
    OBVIOUS
  <2>2. Incoming \in SoundCommand
    BY <1>1, IncomingSound DEF LedgerInv, Soundness
  <2>3. CASE OnInvalid \/ OnWorkHalt \/ OnWorking
    BY <1>4, <1>5, <2>0, <2>3 DEF OnInvalid, OnWorkHalt, OnWorking
  <2>4. CASE OnLast
    <3>1. d \in Deliveries /\ PayloadType[d] = "LAST" /\ Incoming.outcome = "Last"
      BY <1>1, <2>4, IncomingSourced
      DEF OnLast, FromWorkStage, Receive, Command, Signals, SourcedCommand
    <3>2. Confirmed(d)'
      <4>1. d \in Requesters /\ d # Null /\ answers[d] \in Seq({"Success", "Failure"})
        BY <1>1, <3>1, ConstantsAssumption DEF TypeOK, Requesters
      <4>2. answers'[d] = Append(answers[d], "Success")
        BY <1>1, <2>4, <4>1 DEF OnLast, Answered, TypeOK
      <4>3. Len(answers[d]) + 1 \in DOMAIN answers'[d] /\ answers'[d][Len(answers[d]) + 1] = "Success"
        BY <4>1, <4>2, AppendProperties
      <4> QED BY <4>3 DEF Confirmed
    <3>3. HasSource(ParsingDate[d])'
      BY <3>1, <3>2 DEF HasSource
    <3>4. \E ms \in Seq(S) : Crash(ms) \/ ReadyOrBusy(ms)
      BY <1>4, <2>1, <2>4, <3>1, <3>3 DEF OnLast
    <3> QED BY <1>5, <3>4
  <2>5. CASE OnDone
    <3>1. d \in Deliveries /\ d \in indexed
      BY <1>1, <2>2, <2>5
      DEF OnDone, FromWorkStage, Receive, Command, Signals, SoundCommand
    <3>2. HasSource(ParsingDate[d])
      BY <3>1 DEF HasSource
    <3>3. HasSource(ParsingDate[d])'
      BY <3>2, SourceStays
    <3> QED BY <1>4, <1>5, <2>1, <2>5, <3>1, <3>3 DEF OnDone, TrackDone
  <2>6. CASE OnFailed
    BY <1>4, <1>5, <2>0, <2>6 DEF OnFailed
  <2> QED BY <1>6, <2>3, <2>4, <2>5, <2>6 DEF OnWorkStageResponse
<1>7. CASE OnIngest
  BY <1>4, <1>5, <1>7 DEF OnIngest
<1>8. CASE OnEnqueue
  <2>1. mailbox' = Tail(mailbox) \o <<>> /\ lag' = Append(lag, Incoming)
    BY <1>8 DEF OnEnqueue, Tell
  <2>2. Tail(mailbox) \in Seq(S)
    BY <1>1, <1>2, <1>3, PartsIn
  <2> QED BY <1>3, <1>4, <2>1, <2>2, AppendProperties, ConcatProperties
<1>9. CASE ~OnWorkStageResponse /\ ~OnIngest /\ ~OnEnqueue
  <2>1. Told \/ Voided \/ Restarted \/ StopEntity
    BY <1>1, <1>9, HandlersMove
  <2>2. CASE Told
    BY <1>4, <1>5, <2>2 DEF Told
  <2>3. CASE Restarted
    BY <1>4, <1>5, <2>3 DEF Restarted
  <2>4. CASE Voided \/ StopEntity
    BY <1>1, <1>2, <1>3, <2>4, MovesIn
  <2> QED BY <2>1, <2>2, <2>3, <2>4
<1> QED BY <1>6, <1>7, <1>8, <1>9

(* A request the entity pipes carries a date that has its source.           *)
LEMMA PipeSourced ==
  ASSUME NEW T, transactions \in Seq(T), NEW request, NEW a, Opened(request, TRUE) \in T,
         Pipe(request, a)
  PROVE  transactions' \in Seq(T)
  BY AppendProperties DEF Pipe

(* What the entity has the database write is sourced.                       *)
LEMMA RequestsSourced ==
  ASSUME LedgerInv, DatesSourced, [Next]_vars, Actor
  PROVE  transactions' \in Seq(SourcedTransaction')
<1> PICK T : T = SourcedTransaction'
  OBVIOUS
<1>1. TypeOK /\ transactions \in Seq(T)
  BY SourceStays DEF LedgerInv, Soundness, DatesSourced
<1>2. ASSUME NEW request \in Request, request.op = "date" => HasSource(request.date)
      PROVE  Opened(request, TRUE) \in T
  <2>1. Opened(request, TRUE) \in SourcedTransaction
    BY <1>2 DEF Opened, SourcedTransaction, Transaction
  <2> QED BY <2>1, SourceStays
<1>3. ASSUME NEW request \in Request, request.op # "date", NEW a, Pipe(request, a)
      PROVE  transactions' \in Seq(T)
  BY <1>1, <1>2, <1>3, PipeSourced
<1>4. /\ [op |-> "fetch"] \in Request /\ [op |-> "describe"] \in Request
      /\ [op |-> "append"] \in Request
      /\ \A s \in Status : PersistStatus(s) \in Request /\ PersistStatus(s).op = "status"
  BY DEF Request, PersistStatus
<1>5. CASE UNCHANGED transactions
  BY <1>1, <1>5
<1>6. CASE StopEntity
  <2>1. transactions' = [i \in DOMAIN transactions |-> [transactions[i] EXCEPT !.live = FALSE]]
    BY <1>6 DEF StopEntity
  <2>2. \A i \in DOMAIN transactions : transactions[i] \in SourcedTransaction
    BY ElementOfSeq, LenProperties DEF DatesSourced
  <2>3. \A t \in SourcedTransaction : [t EXCEPT !.live = FALSE] \in SourcedTransaction
    BY DEF SourcedTransaction, Transaction
  <2>4. transactions' \in [1 .. Len(transactions) -> T]
    BY <1>1, <2>1, <2>2, <2>3, SourceStays, LenProperties
  <2> QED BY <1>1, <2>4, LenProperties, IsASeq
<1>7. CASE OnTrackDate
  <2>1. CASE PipeAndSetUp([op |-> "date", date |-> Incoming.date], Null)
    <3>1. mailbox # <<>> /\ Incoming.kind = "TrackDate"
      BY <1>7 DEF OnTrackDate, Receive
    <3>2. HasSource(Incoming.date) /\ Incoming.date \in Dates
      BY <1>1, <3>1, IncomingSourced DEF SourcedCommand, Command, Signals
    <3>3. Opened([op |-> "date", date |-> Incoming.date], TRUE) \in T
      BY <1>2, <3>2 DEF Request
    <3> QED BY <1>1, <2>1, <3>3, PipeSourced DEF PipeAndSetUp
  <2> QED BY <1>5, <1>7, <2>1 DEF OnTrackDate, requests
<1>8. CASE OnUpdateStatus \/ OnGracefulEnd
  <2>1. mailbox # <<>> /\ Incoming.kind \in {"UpdateStatus", "GracefulEnd"}
    BY <1>8 DEF OnUpdateStatus, OnGracefulEnd, Receive
  <2>2. Incoming.status \in Status
    BY <1>1, <2>1, IncomingType DEF Command, Signals
  <2> QED BY <1>3, <1>4, <1>8, <2>2 DEF OnUpdateStatus, OnGracefulEnd, PipeAndSetUp
<1>9. CASE OnSetup \/ OnHalt \/ OnPersistException \/ OnTrackError
  BY <1>3, <1>4, <1>5, <1>9
  DEF OnSetup, OnHalt, OnPersistException, OnTrackError, PipeAndSetUp, Crash, requests
<1>10. CASE ~(StopEntity \/ OnTrackDate \/ OnUpdateStatus \/ OnGracefulEnd \/ OnSetup \/ OnHalt
              \/ OnPersistException \/ OnTrackError)
  <2>1. UNCHANGED transactions
    BY <1>10
    DEF Actor, OnWorkStageResponse, OnInvalid, OnWorkHalt, OnLast, OnWorking, OnDone, OnFailed,
        OnIngest, OnEnqueue, OnStart, OnStartInternalClock, OnStopInternalClock, OnStop,
        OnClusterEvent, OnUpdateScheduler, OnWakeUp, OnTick, OnClose, OnTrackFailure, OnRestart,
        OnCloseStageResponse, OnDestroyQueue, OnDestroyQueueResult, OnDiscard, OnlyTell,
        Passivate, Crash, requests, allButMailbox, KeptByWork
  <2> QED BY <1>5, <2>1
<1> QED BY <1>6, <1>7, <1>8, <1>9, <1>10

(* They are sourced while they are not replaced.                            *)
LEMMA RowsStay ==
  ASSUME LedgerInv, RowsSourced, [Next]_vars
  PROVE  /\ UNCHANGED scheduler => (scheduler # Null => Sourced(scheduler.date))'
         /\ UNCHANGED closeStage => (closeStage.row # Null => Sourced(closeStage.row.date))'
         /\ UNCHANGED row => Sourced(row.date)'
         /\ UNCHANGED datasource => Sourced(datasource)'
<1>1. \A date : Sourced(date) => Sourced(date)'
  BY SourceStays
<1>2. ASSUME UNCHANGED scheduler, scheduler # Null
      PROVE  Sourced(scheduler.date)'
  <2> PICK date : date = scheduler.date
    OBVIOUS
  <2>1. Sourced(date)'
    BY <1>1, <1>2 DEF RowsSourced
  <2>2. scheduler'.date = date
    BY <1>2
  <2> QED BY <2>1, <2>2 DEF Sourced, HasSource, Confirmed
<1>3. ASSUME UNCHANGED closeStage, closeStage.row # Null
      PROVE  Sourced(closeStage.row.date)'
  <2> PICK date : date = closeStage.row.date
    OBVIOUS
  <2>1. Sourced(date)'
    BY <1>1, <1>3 DEF RowsSourced
  <2>2. closeStage'.row.date = date
    BY <1>3
  <2> QED BY <2>1, <2>2 DEF Sourced, HasSource, Confirmed
<1>4. ASSUME UNCHANGED row
      PROVE  Sourced(row.date)'
  <2> PICK date : date = row.date
    OBVIOUS
  <2>1. Sourced(date)' /\ row'.date = date
    BY <1>1, <1>4 DEF RowsSourced
  <2> QED BY <2>1 DEF Sourced, HasSource, Confirmed
<1>5. ASSUME UNCHANGED datasource
      PROVE  Sourced(datasource)'
  <2> PICK date : date = datasource
    OBVIOUS
  <2>1. Sourced(date)' /\ datasource' = date
    BY <1>1, <1>5 DEF RowsSourced
  <2> QED BY <2>1 DEF Sourced, HasSource, Confirmed
<1> QED BY <1>2, <1>3, <1>4, <1>5

(* A handler caches the row it is told of, and closes with the cached row.  *)
LEMMA ActorRows ==
  ASSUME LedgerInv, DatesSourced, [Next]_vars, Actor
  PROVE  RowsSourced'
<1>0. RowsSourced /\ TypeOK
  BY DEF DatesSourced, RowsSourced, LedgerInv, Soundness
<1> USE DEF RowsSourced
<1>1. UNCHANGED <<row, datasource>>
  BY DEF Actor, OnWorkStageResponse, OnInvalid, OnWorkHalt, OnLast, OnWorking, OnDone, OnFailed,
      OnIngest, OnEnqueue, OnStart, OnStartInternalClock, OnStopInternalClock, OnStop,
      OnClusterEvent, OnUpdateScheduler, OnSetup, OnWakeUp, OnTick, OnTrackDate, OnUpdateStatus,
      OnClose, OnHalt, OnPersistException, OnTrackFailure, OnGracefulEnd, OnTrackError, OnRestart,
      OnCloseStageResponse, OnDestroyQueue, OnDestroyQueueResult, OnDiscard, OnlyTell,
      Passivate, Crash, StopEntity, outside, allButMailbox, KeptByWork
<1>2. Sourced(row.date)' /\ Sourced(datasource)'
  BY <1>0, <1>1, RowsStay
<1>3. CASE StopEntity \/ \E ms : Crash(ms)
  <2>1. scheduler' = Null /\ closeStage'.row = Null
    BY <1>3 DEF StopEntity, Crash, FreshFields
  <2> QED BY <1>2, <2>1
<1>4. CASE OnUpdateScheduler
  <2> PICK fetched : fetched = Incoming.row
    OBVIOUS
  <2>1. mailbox # <<>> /\ Incoming.kind = "UpdateScheduler"
    BY <1>4 DEF OnUpdateScheduler, Receive
  <2>2. fetched # Null => Sourced(fetched.date)'
    <3>1. Incoming \in SourcedCommand
      BY <1>0, <2>1, IncomingSourced
    <3>2. fetched # Null => Sourced(fetched.date)
      BY <2>1, <3>1 DEF SourcedCommand
    <3> QED BY <3>2, SourceStays
  <2>3. /\ scheduler' = IF fetched = Null THEN scheduler ELSE fetched
        /\ closeStage' = closeStage \/ closeStage'.row = Null
    BY <1>4 DEF OnUpdateScheduler
  <2>4. (scheduler # Null => Sourced(scheduler.date))'
    <3>1. CASE fetched = Null
      BY <1>0, <2>3, <3>1, RowsStay
    <3>2. CASE fetched # Null
      BY <2>2, <2>3, <3>2 DEF Sourced, HasSource, Confirmed
    <3> QED BY <3>1, <3>2
  <2>5. (closeStage.row # Null => Sourced(closeStage.row.date))'
    BY <1>0, <2>3, RowsStay
  <2> QED BY <1>2, <2>4, <2>5
<1>5. CASE OnClose /\ ~\E ms : Crash(ms)
  <2>1. UNCHANGED scheduler
    BY <1>5 DEF OnClose, fields
  <2>2. (scheduler # Null => Sourced(scheduler.date))'
    BY <1>0, <2>1, RowsStay
  <2>3. closeStage' = closeStage \/ closeStage'.row = scheduler'
    BY <1>5, <2>1 DEF OnClose
  <2>4. (closeStage.row # Null => Sourced(closeStage.row.date))'
    <3>1. CASE closeStage' = closeStage
      BY <1>0, <3>1, RowsStay
    <3>2. CASE closeStage'.row = scheduler'
      BY <2>2, <3>2 DEF Sourced, HasSource, Confirmed
    <3> QED BY <2>3, <3>1, <3>2
  <2> QED BY <1>2, <2>2, <2>4
<1>6. CASE ~(StopEntity \/ OnUpdateScheduler \/ OnClose \/ \E ms : Crash(ms))
  <2>1. UNCHANGED <<scheduler, closeStage>>
    BY <1>6
    DEF Actor, OnWorkStageResponse, OnInvalid, OnWorkHalt, OnLast, OnWorking, OnDone, OnFailed,
        OnIngest, OnEnqueue, OnStart, OnStartInternalClock, OnStopInternalClock, OnStop,
        OnClusterEvent, OnSetup, OnWakeUp, OnTick, OnTrackDate, OnUpdateStatus,
        OnHalt, OnPersistException, OnTrackFailure, OnGracefulEnd, OnTrackError, OnRestart,
        OnCloseStageResponse, OnDestroyQueue, OnDestroyQueueResult, OnDiscard, OnlyTell,
        Passivate, fields, children, work, allButMailbox, KeptByWork
  <2> QED BY <1>0, <1>2, <2>1, RowsStay
<1> QED BY <1>3, <1>4, <1>5, <1>6

(* What else arrives is sourced: the row a transaction wrote, the response  *)
(* about a LAST message.                                                    *)
LEMMA ArrivalSourced ==
  ASSUME LedgerInv, DatesSourced, [Next]_vars, UNCHANGED lag,
         NEW m, m \in SourcedCommand',
         UNCHANGED mailbox \/ Arrives(m) \/ mailbox' = <<Signal("Setup"), m>>
  PROVE  mailbox' \in Seq(SourcedCommand') /\ lag' \in Seq(SourcedCommand')
<1> PICK S : S = SourcedCommand'
  OBVIOUS
<1>1. SourcedCommand \subseteq S /\ PlainCommand \subseteq S
  BY SourceStays, PlainSourced
<1>2. mailbox \in Seq(S) /\ lag \in Seq(S) /\ m \in S /\ Signal("Setup") \in S
  BY <1>1, PlainSignals DEF DatesSourced
<1>3. <<Signal("Setup"), m>> \in Seq(S)
  BY <1>2
<1>4. Append(mailbox, m) \in Seq(S)
  BY <1>2, AppendProperties
<1>5. mailbox' \in Seq(S)
  BY <1>2, <1>3, <1>4 DEF Arrives
<1> QED BY <1>2, <1>5

(* The database reads and writes sourced rows.                              *)
LEMMA DatabaseDates ==
  ASSUME LedgerInv, DatesSourced, [Next]_vars, Database
  PROVE  DatesSourced'
<1>0. TypeOK /\ RowsSourced
  BY DEF LedgerInv, Soundness, DatesSourced
<1> PICK T : T = SourcedTransaction'
  OBVIOUS
<1>1. PICK i \in DOMAIN transactions :
        BeginTransaction(i) \/ CommitTransaction(i) \/ FailTransaction(i)
  BY DEF Database
<1> PICK t : t = transactions[i]
  OBVIOUS
<1>2. /\ transactions \in Seq(SourcedTransaction) /\ transactions \in Seq(T)
      /\ t \in SourcedTransaction /\ t \in Transaction /\ i \in 1 .. Len(transactions)
  BY SourceStays, ElementOfSeq, LenProperties DEF DatesSourced, SourcedTransaction
<1>3. UNCHANGED <<lag, scheduler, closeStage, datasource>>
  BY <1>1
  DEF BeginTransaction, CommitTransaction, FailTransaction, fields, children, work, outside
<1>4. /\ (scheduler # Null => Sourced(scheduler.date))'
      /\ (closeStage.row # Null => Sourced(closeStage.row.date))'
      /\ Sourced(datasource)'
  BY <1>0, <1>3, RowsStay
<1>5. ASSUME UNCHANGED row
      PROVE  Sourced(row.date)'
  BY <1>0, <1>5, RowsStay
<1>6. ASSUME NEW left \in Left(i),
             NEW result \in Row \cup {Null}, result # Null => Sourced(result.date)',
             Conclude(t, left, result)
      PROVE  /\ mailbox' \in Seq(SourcedCommand') /\ lag' \in Seq(SourcedCommand')
             /\ transactions' \in Seq(SourcedTransaction')
  <2>1. [kind |-> "UpdateScheduler", row |-> result] \in SourcedCommand'
    <3>1. [kind |-> "UpdateScheduler", row |-> result] \in Command
      BY DEF Command
    <3> QED BY <1>6, <3>1 DEF SourcedCommand
  <2>2. UNCHANGED mailbox \/ Arrives([kind |-> "UpdateScheduler", row |-> result])
    BY <1>6 DEF Conclude
  <2>3. left \in Seq(T)
    <3>1. Outlived(t) \in T
      <4>1. /\ [t EXCEPT !.live = FALSE] \in SourcedTransaction
            /\ [t EXCEPT !.live = FALSE, !.request = [op |-> "describe"]]
                 \in SourcedTransaction
        BY <1>2 DEF SourcedTransaction, Transaction, Request
      <4>2. \/ Outlived(t) = [t EXCEPT !.live = FALSE]
            \/ Outlived(t) = [t EXCEPT !.live = FALSE, !.request = [op |-> "describe"]]
        BY <1>2 DEF Outlived, SourcedTransaction, Transaction
      <4> QED BY <4>1, <4>2, SourceStays
    <3>2. [transactions EXCEPT ![i] = Outlived(t)] \in Seq(T)
      BY <1>2, <3>1, ExceptSeq
    <3>3. RemoveAt(transactions, i) \in Seq(T)
      BY <1>2, RemoveAtSeq
    <3> QED BY <3>2, <3>3 DEF Left
  <2>4. Opened(PersistStatus("ERROR"), t.live) \in T
    <3>1. Opened(PersistStatus("ERROR"), t.live) \in SourcedTransaction
      BY <1>2 DEF Opened, PersistStatus, SourcedTransaction, Transaction, Request, Status
    <3> QED BY <3>1, SourceStays
  <2>5. transactions' \in Seq(T)
    BY <1>6, <2>3, <2>4, AppendProperties DEF Conclude
  <2> QED BY <1>3, <2>1, <2>2, <2>5, ArrivalSourced
<1>7. CASE BeginTransaction(i)
  <2>1. UNCHANGED <<mailbox, lag, row>>
    BY <1>7 DEF BeginTransaction, outside
  <2>2. Signal("Setup") \in SourcedCommand'
    BY PlainSignals, PlainSourced, SourceStays
  <2>3. mailbox' \in Seq(SourcedCommand') /\ lag' \in Seq(SourcedCommand')
    BY <2>1, <2>2, ArrivalSourced
  <2>4. [t EXCEPT !.read = row] \in T
    <3>1. [t EXCEPT !.read = row] \in SourcedTransaction
      BY <1>0, <1>2 DEF SourcedTransaction, Transaction, TypeOK, RowsSourced
    <3> QED BY <3>1, SourceStays
  <2>5. transactions' = [transactions EXCEPT ![i] = [t EXCEPT !.read = row]]
    BY <1>7 DEF BeginTransaction
  <2>6. transactions' \in Seq(T)
    BY <1>2, <2>4, <2>5, ExceptSeq
  <2> QED BY <1>4, <1>5, <2>1, <2>3, <2>6 DEF DatesSourced, RowsSourced
<1>8. CASE CommitTransaction(i)
  <2> PICK result : result = Written(t.request, t.read)
    OBVIOUS
  <2>1. result \in Row /\ t.read # Null
    BY <1>0, <1>8, TransactionAt, WrittenType DEF CommitTransaction
  <2>2. Sourced(result.date)
    <3>1. t.request.op = "date" => HasSource(t.request.date)
      BY <1>2 DEF SourcedTransaction
    <3>2. Sourced(t.read.date) /\ t.read \in Row
      BY <1>2, <2>1 DEF SourcedTransaction, Transaction
    <3>3. \/ result.date = t.read.date
          \/ t.request.op = "date" /\ result.date = t.request.date
      BY <3>2 DEF Written, Row
    <3> QED BY <3>1, <3>2, <3>3 DEF Sourced
  <2>3. Sourced(result.date)'
    BY <2>2, SourceStays
  <2>4. /\ \E left \in Left(i) : Conclude(t, left, result)
        /\ row' = row \/ row' = result
    BY <1>8 DEF CommitTransaction, Left
  <2>5. Sourced(row.date)'
    <3>1. CASE row' = result
      BY <2>3, <3>1 DEF Sourced, HasSource, Confirmed
    <3> QED BY <1>5, <2>4, <3>1
  <2> QED BY <1>4, <1>6, <2>1, <2>3, <2>4, <2>5 DEF DatesSourced, RowsSourced
<1>9. CASE FailTransaction(i)
  <2>1. (\E left \in Left(i) : Conclude(t, left, Null)) /\ UNCHANGED row
    BY <1>9, FailConcludes DEF FailTransaction
  <2> QED BY <1>4, <1>5, <1>6, <2>1 DEF DatesSourced, RowsSourced
<1> QED BY <1>1, <1>7, <1>8, <1>9

(* The rest touches no row but the Datasource's, which takes over the date  *)
(* the CloseStage was started with.                                         *)
LEMMA OthersDates ==
  ASSUME LedgerInv, DatesSourced, [Next]_vars,
         Children \/ DeleteQueues \/ ShardStops \/ TimerFires \/ Environment
  PROVE  DatesSourced'
<1> USE DEF fields, outside, requests, ledger, children, work, allButMailbox
<1>0. TypeOK /\ RowsSourced
  BY DEF LedgerInv, Soundness, DatesSourced
<1>1. transactions' \in Seq(SourcedTransaction')
  <2>1. UNCHANGED transactions
    BY DEF Children, StartWorker, FinishWork, CloseStageReplies, DeleteQueues, ShardStops,
        TimerFires, Environment, SendIngest, SendTrackError, SendRestart, Ask, Deliver,
        SendWakeUp, SendHalt, CancelScheduling, CloseScheduling, Expire, MemberEvent, FailWorkStage
  <2> QED BY <2>1, SourceStays DEF DatesSourced
<1>2. RowsSourced'
  <2>1. CASE CloseStageReplies
    <3>1. UNCHANGED <<scheduler, row>>
      BY <2>1 DEF CloseStageReplies
    <3>2. closeStage' = [closeStage EXCEPT !.phase = "dead"] /\ closeStage.phase = "running"
      BY <2>1 DEF CloseStageReplies
    <3> PICK r : r = closeStage.row
      OBVIOUS
    <3>3. r \in Row /\ r # Null /\ closeStage'.row = r
      BY <1>0, <3>2, ConstantsAssumption DEF TypeOK
    <3>4. Sourced(r.date)'
      <4>1. Sourced(r.date)
        BY <1>0, <3>3 DEF RowsSourced
      <4> QED BY <4>1, SourceStays
    <3>5. (closeStage.row # Null => Sourced(closeStage.row.date))'
      BY <3>3, <3>4 DEF Sourced, HasSource, Confirmed
    <3>6. datasource' = datasource \/ datasource' = r.date
      BY <2>1 DEF CloseStageReplies
    <3>7. Sourced(datasource)'
      <4>1. CASE datasource' = r.date
        BY <3>4, <4>1 DEF Sourced, HasSource, Confirmed
      <4> QED BY <1>0, <3>6, <4>1, RowsStay
    <3> QED BY <1>0, <3>1, <3>5, <3>7, RowsStay DEF RowsSourced
  <2>2. CASE ~CloseStageReplies
    <3>1. UNCHANGED <<scheduler, closeStage, row, datasource>>
      BY <2>2
      DEF Children, StartWorker, FinishWork, DeleteQueues, ShardStops,
          TimerFires, Environment, SendIngest, SendTrackError, SendRestart, Ask, Deliver,
          SendWakeUp, SendHalt, CancelScheduling, CloseScheduling, Expire, MemberEvent,
          FailWorkStage
    <3> QED BY <1>0, <3>1, RowsStay DEF RowsSourced
  <2> QED BY <2>1, <2>2
<1>3. UNCHANGED lag
  BY DEF Children, StartWorker, FinishWork, CloseStageReplies, DeleteQueues, ShardStops,
      TimerFires, Environment, SendIngest, SendTrackError, SendRestart, Ask, Deliver,
      SendWakeUp, SendHalt, CancelScheduling, CloseScheduling, Expire, MemberEvent, FailWorkStage
<1>4. ASSUME NEW m, m \in SourcedCommand',
             UNCHANGED mailbox \/ Arrives(m) \/ mailbox' = <<Signal("Setup"), m>>
      PROVE  mailbox' \in Seq(SourcedCommand') /\ lag' \in Seq(SourcedCommand')
  BY <1>3, <1>4, ArrivalSourced
<1>5. \A m \in PlainCommand : m \in SourcedCommand'
  BY PlainSourced, SourceStays
<1>6. ASSUME NEW m \in Command, m.kind \notin {"TrackDate", "UpdateScheduler", "WorkStageResponse"}
      PROVE  m \in SourcedCommand'
  BY <1>6 DEF SourcedCommand
<1>7. CASE StartWorker
  <2>1. Head(workBox) \in Deliveries
    BY <1>0, <1>7, HeadTailProperties DEF TypeOK, StartWorker
  <2> DEFINE reply(o) == [kind |-> "WorkStageResponse", outcome |-> o, from |-> Head(workBox)]
  <2>2. PICK o \in Outcomes :
          Arrives(reply(o)) /\ (o = "Last" => PayloadType[Head(workBox)] = "LAST")
    BY <1>7 DEF StartWorker, Respond, Outcomes
  <2>3. reply(o) \in SourcedCommand'
    BY <2>1, <2>2 DEF SourcedCommand, Command
  <2> QED BY <1>1, <1>2, <1>4, <2>2, <2>3 DEF DatesSourced
<1>8. ASSUME NEW d \in working, FinishWork(d)
      PROVE  DatesSourced'
  <2> DEFINE reply(o) == [kind |-> "WorkStageResponse", outcome |-> o, from |-> d]
  <2>1. PICK o \in {"Done", "Failed"} : Arrives(reply(o))
    BY <1>8 DEF FinishWork, Respond
  <2>2. reply(o) \in SourcedCommand'
    BY <1>0, <2>1 DEF SourcedCommand, Command, TypeOK, Outcomes
  <2> QED BY <1>1, <1>2, <1>4, <2>1, <2>2 DEF DatesSourced
<1>9. CASE CloseStageReplies
  <2>1. [kind |-> "CloseStageResponse", status |-> ClosingStatus(closeStage.row)]
          \in PlainCommand
    BY DEF PlainCommand, Command, ClosingStatus, Status
  <2> QED BY <1>1, <1>2, <1>4, <1>5, <1>9, <2>1 DEF CloseStageReplies, DatesSourced
<1>10. CASE DeleteQueues \/ ShardStops \/ TimerFires \/ MemberEvent \/ Expire \/ FailWorkStage
  <2>1. \A k \in Signals : Signal(k) \in SourcedCommand'
    BY <1>5, PlainSignals
  <2>2. UNCHANGED mailbox \/ \E k \in Signals : Arrives(Signal(k))
    BY <1>10
    DEF DeleteQueues, ShardStops, TimerFires, MemberEvent, Expire, FailWorkStage, Signals
  <2>3. Signal("Setup") \in SourcedCommand'
    BY <2>1 DEF Signals
  <2>4. mailbox' \in Seq(SourcedCommand') /\ lag' \in Seq(SourcedCommand')
    BY <1>4, <2>1, <2>2, <2>3
  <2> QED BY <1>1, <1>2, <2>4 DEF DatesSourced
<1>11. ASSUME NEW m \in Command, m.kind \notin {"TrackDate", "UpdateScheduler", "WorkStageResponse"},
              Deliver(m)
       PROVE  DatesSourced'
  <2>1. Arrives(m) \/ mailbox' = <<Signal("Setup"), m>>
    BY <1>11 DEF Deliver
  <2> QED BY <1>1, <1>2, <1>4, <1>6, <1>11, <2>1 DEF DatesSourced
<1>12. ASSUME NEW kind \in {"Ingest", "TrackError", "Restart"}, NEW from, Ask(kind, from),
              [kind |-> kind, from |-> from] \in Command
       PROVE  DatesSourced'
  BY <1>11, <1>12 DEF Ask
<1>13. CASE Environment
  <2>1. ASSUME NEW d \in Deliveries, SendIngest(d)
        PROVE  DatesSourced'
    BY <1>12, <2>1 DEF SendIngest, Command
  <2>2. ASSUME NEW c \in TrackErrors, SendTrackError(c)
        PROVE  DatesSourced'
    BY <1>12, <2>2 DEF SendTrackError, Command
  <2>3. ASSUME NEW c \in Restarts, SendRestart(c)
        PROVE  DatesSourced'
    BY <1>12, <2>3 DEF SendRestart, Command
  <2>4. CASE SendWakeUp \/ SendHalt \/ CancelScheduling \/ CloseScheduling
    <3>1. GracefulEnd("CANCELLED") \in Command /\ GracefulEnd("CANCELLED").kind = "GracefulEnd"
      BY Commands DEF Status, GracefulEnd
    <3> QED
      BY <1>11, <2>4, <3>1, Commands
      DEF SendWakeUp, SendHalt, CancelScheduling, CloseScheduling, Signal
  <2> QED BY <1>10, <1>13, <2>1, <2>2, <2>3, <2>4 DEF Environment
<1> QED BY <1>7, <1>8, <1>9, <1>10, <1>13 DEF Children

(* The row and the Datasource only ever take over the date of a document    *)
(* whose work was done or of a LAST message that was confirmed, whatever    *)
(* updates are lost and whichever row the CloseStage was started with.      *)
THEOREM SourcedDates == Spec => []DateHasSource
<1>1. Init => DatesSourced
  <2>1. Init => /\ mailbox \in Seq(SourcedCommand) /\ lag \in Seq(SourcedCommand)
                /\ transactions \in Seq(SourcedTransaction)
    BY SmallSeqs DEF Init
  <2>2. Init => RowsSourced
    BY DEF Init, RowsSourced, Sourced
  <2> QED BY <2>1, <2>2 DEF DatesSourced
<1>2. LedgerInv /\ DatesSourced /\ [Next]_vars => DatesSourced'
  <2> SUFFICES ASSUME LedgerInv, DatesSourced, [Next]_vars
               PROVE  DatesSourced'
    OBVIOUS
  <2>1. CASE Actor
    BY <2>1, QueuesSourced, RequestsSourced, ActorRows DEF DatesSourced
  <2>2. CASE Database
    BY <2>2, DatabaseDates
  <2>3. CASE Children \/ DeleteQueues \/ ShardStops \/ TimerFires \/ Environment
    BY <2>3, OthersDates
  <2>4. CASE UNCHANGED vars
    <3>1. UNCHANGED <<mailbox, lag, transactions, scheduler, closeStage, row, datasource, answers,
                      indexed>>
      BY <2>4 DEF vars, allButMailbox, fields, children, work, outside, requests, ledger
    <3> QED BY <3>1 DEF DatesSourced, RowsSourced, SourcedCommand, SourcedTransaction, Sourced,
                        HasSource, Confirmed
  <2> QED BY <2>1, <2>2, <2>3, <2>4 DEF Next
<1>3. DatesSourced => DateHasSource
  BY DEF DatesSourced, RowsSourced, DateHasSource, Sourced
<1> QED BY <1>1, <1>2, <1>3, InitLedger, NextLedger, PTL DEF Spec
=============================================================================
