--------------------------- MODULE AwaitedProofs ---------------------------
(***************************************************************************)
(* An entity that only waits has something on its way that it handles:     *)
(* while it sets up (SettingUp), while it is halted (Halted), while it     *)
(* ends (GracefulEnding), and while it is busy (Busy), there as long as    *)
(* the cluster it counts has a node.                                       *)
(*                                                                         *)
(* The first three are not inductive: a response in the mailbox does not   *)
(* tell which message the one adapter will make of it.  AwaitedInv says    *)
(* which registration a behavior waits with; that nothing replaces it      *)
(* meanwhile is what the proof shows.                                      *)
(***************************************************************************)
EXTENDS DeliveryLedgerProofs

(* What is on its way, and the registration that will adapt it.             *)
AwaitedInv ==
  /\ behavior = "settingUp" =>
       Queued({"Setup"}) \/ (adapter.to = "Start" /\ AwaitsDatabase)
  /\ behavior = "halted" =>
       Queued({"GracefulEnd"}) \/ (adapter.to = "GracefulEnd" /\ AwaitsDatabase)
  /\ behavior = "gracefulEnding" =>
       /\ adapter.to = "DestroyQueue"
       /\ \/ stopRequested
          \/ AwaitsDatabase
          \/ queues = "deleting"
          \/ Queued({"DestroyQueueResult", "Stop"})

-----------------------------------------------------------------------------
(* Messages stay in the mailbox until they are taken *)

(* Some message of a queue is of one of the kinds.                          *)
Has(q, K) == \E i \in DOMAIN q : q[i].kind \in K

(* It is still there when others are put behind it, or before it.           *)
LEMMA HasConcat ==
  ASSUME NEW q \in Seq(Command), NEW r \in Seq(Command), NEW K, Has(q, K) \/ Has(r, K)
  PROVE  Has(q \o r, K)
<1>1. /\ DOMAIN q = 1 .. Len(q) /\ DOMAIN r = 1 .. Len(r)
      /\ DOMAIN (q \o r) = 1 .. Len(q) + Len(r)
      /\ \A i \in 1 .. Len(q) + Len(r) :
           (q \o r)[i] = IF i <= Len(q) THEN q[i] ELSE r[i - Len(q)]
      /\ Len(q) \in Nat /\ Len(r) \in Nat
  BY ConcatProperties, LenProperties
<1>2. CASE Has(q, K)
  BY <1>1, <1>2 DEF Has
<1>3. CASE Has(r, K)
  <2>1. PICK i \in 1 .. Len(r) : r[i].kind \in K
    BY <1>1, <1>3 DEF Has
  <2>2. /\ i + Len(q) \in 1 .. Len(q) + Len(r)
        /\ ~(i + Len(q) <= Len(q)) /\ (i + Len(q)) - Len(q) = i
    BY <1>1
  <2>3. (q \o r)[i + Len(q)] = r[i]
    BY <1>1, <2>2
  <2> QED BY <1>1, <2>1, <2>2, <2>3 DEF Has
<1> QED BY <1>2, <1>3

(* It is in the rest if it is not the one that is taken.                    *)
LEMMA HasTail ==
  ASSUME NEW q \in Seq(Command), q # <<>>, NEW K, Has(q, K), Head(q).kind \notin K
  PROVE  Has(Tail(q), K)
<1>1. /\ DOMAIN q = 1 .. Len(q) /\ Len(q) \in Nat
      /\ DOMAIN Tail(q) = 1 .. Len(q) - 1
      /\ Head(q) = q[1] /\ \A i \in 1 .. Len(q) - 1 : Tail(q)[i] = q[i + 1]
  BY HeadTailProperties, LenProperties
<1>2. PICK i \in 1 .. Len(q) : q[i].kind \in K
  BY <1>1 DEF Has
<1>3. i # 1
  BY <1>1, <1>2
<1>4. i - 1 \in 1 .. Len(q) - 1 /\ (i - 1) + 1 = i
  BY <1>1, <1>2, <1>3
<1> QED BY <1>1, <1>2, <1>4 DEF Has

(* Voiding the ticks takes nothing else away.                               *)
LEMMA HasVoid ==
  ASSUME NEW q \in Seq(Command), NEW K, "TimerTick" \notin K, Has(q, K)
  PROVE  Has(WithoutTick(q), K)
  BY DEF Has, WithoutTick

(* What is told is on its way.                                              *)
LEMMA HasOne ==
  ASSUME NEW m, NEW K, m.kind \in K
  PROVE  Has(<<m>>, K)
<1>1. 1 \in DOMAIN <<m>> /\ <<m>>[1] = m
  OBVIOUS
<1> QED BY <1>1 DEF Has

(* What arrives is on its way, behind what is.                              *)
LEMMA ArrivalQueued ==
  ASSUME TypeOK, NEW m \in Command, Arrives(m), NEW K, Queued(K) \/ m.kind \in K
  PROVE  Queued(K)'
<1>1. /\ mailbox \in Seq(Command) /\ mailbox' = mailbox \o <<m>>
      /\ <<m>> \in Seq(Command)
  BY AppendIsConcat, SmallSeqs DEF TypeOK, Arrives
<1>2. Has(mailbox, K) \/ Has(<<m>>, K)
  BY HasOne DEF Has, Queued
<1>3. Has(mailbox', K)
  BY <1>1, <1>2, HasConcat
<1> QED BY <1>3 DEF Has, Queued

-----------------------------------------------------------------------------
(* A handler takes one message, and puts others behind what stays *)

(* Whatever it does but stop.                                               *)
LEMMA ActorMoves ==
  ASSUME TypeOK, Actor, ~StopEntity
  PROVE  /\ mailbox # <<>> /\ behavior # "stopped" /\ Incoming \in Command
         /\ \E told \in Seq(Command) : \/ mailbox' = Tail(mailbox) \o told
                                       \/ mailbox' = WithoutTick(Tail(mailbox)) \o told
<1>1. mailbox # <<>> /\ behavior # "stopped" /\ Incoming \in Command
  <2>1. mailbox # <<>> /\ behavior # "stopped"
    BY DEF Actor, OnWorkStageResponse, OnInvalid, OnWorkHalt, OnLast, OnWorking, OnDone, OnFailed,
        FromWorkStage, OnIngest, OnEnqueue,
        OnStart, OnStartInternalClock, OnStopInternalClock, OnStop, OnClusterEvent,
        OnUpdateScheduler, OnSetup, OnWakeUp, OnTick, OnTrackDate, OnUpdateStatus, OnClose,
        OnHalt, OnPersistException, OnTrackFailure, OnGracefulEnd, OnTrackError, OnRestart,
        OnCloseStageResponse, OnDestroyQueue, OnDestroyQueueResult, OnDiscard, Unhandled,
        Receive
  <2> QED BY <2>1, IncomingType
<1>2. /\ <<>> \in Seq(Command) /\ \A m \in Command : <<m>> \in Seq(Command)
      /\ Seq(PlainCommand) \subseteq Seq(Command)
      /\ Tail(mailbox) \in Seq(Command) /\ WithoutTick(Tail(mailbox)) \in Seq(Command)
      /\ Popped \in Seq(Command)
  BY <1>1, SmallSeqs, Queues DEF PlainCommand
<1> DEFINE Moved == \E told \in Seq(Command) : \/ mailbox' = Tail(mailbox) \o told
                                               \/ mailbox' = WithoutTick(Tail(mailbox)) \o told
<1> SUFFICES Moved
  BY <1>1
<1>3. ASSUME NEW ms \in Seq(Command), Tell(ms) \/ TellAndNext(ms) \/ ReadyOrBusy(ms)
      PROVE  Moved
  <2>1. ms \o Popped \in Seq(Command)
    BY <1>2, ConcatProperties
  <2> QED BY <1>3, <2>1 DEF Tell, TellAndNext, ReadyOrBusy
<1>4. ASSUME NEW ms \in Seq(Command), Crash(ms)
      PROVE  Moved
  <2>1. <<Signal("Setup")>> \in Seq(Command)
    BY <1>2, Commands
  <2>2. ms \o <<Signal("Setup")>> \in Seq(Command)
    BY <2>1, ConcatProperties
  <2>3. mailbox' = WithoutTick(Tail(mailbox)) \o (ms \o <<Signal("Setup")>>)
    BY <1>2, <1>4, <2>1, ConcatAssociative DEF Crash
  <2> QED BY <2>2, <2>3
<1>5. CASE OnWorkStageResponse
  <2>1. /\ <<Signal("PersistException")>> \in Seq(Command)
        /\ <<Signal("Halt")>> \in Seq(Command)
        /\ \A d \in Deliveries : <<TrackDate(d)>> \in Seq(Command)
    BY <1>2, Commands
  <2>2. Incoming.from \in Deliveries
    BY <1>1, <1>5 DEF OnWorkStageResponse, OnInvalid, OnWorkHalt, OnLast, OnWorking, OnDone,
       OnFailed, FromWorkStage, Receive, Command, Signals
  <2>3. \E ms \in Seq(Command) : Tell(ms) \/ ReadyOrBusy(ms) \/ Crash(ms)
    BY <1>2, <1>5, <2>1, <2>2
    DEF OnWorkStageResponse, OnInvalid, OnWorkHalt, OnLast, OnWorking, OnDone, OnFailed, TrackDone
  <2> QED BY <1>3, <1>4, <2>3
<1>6. CASE OnIngest \/ OnEnqueue
  BY <1>2, <1>3, <1>4, <1>6 DEF OnIngest, OnEnqueue
<1>7. CASE ~OnWorkStageResponse /\ ~OnIngest /\ ~OnEnqueue
  <2>1. Told \/ Voided \/ Restarted
    BY <1>7, HandlersMove
  <2>2. CASE Told
    BY <1>2, <1>3, <2>2 DEF Told
  <2>3. CASE Restarted
    BY <1>2, <1>4, <2>3 DEF Restarted
  <2>4. CASE Voided
    <3>1. CASE mailbox' = WithoutTick(Tail(mailbox))
      <4>1. mailbox' = WithoutTick(Tail(mailbox)) \o <<>>
        BY <1>2, <3>1, ConcatEmptySeq
      <4> QED BY <1>2, <4>1
    <3> QED BY <1>2, <2>4, <3>1 DEF Voided
  <2> QED BY <2>1, <2>2, <2>3, <2>4
<1> QED BY <1>5, <1>6, <1>7

(* So what is in the mailbox stays there until it is taken.                 *)
LEMMA HandlerKeepsQueued ==
  ASSUME TypeOK, Actor, ~StopEntity, NEW K, "TimerTick" \notin K,
         Queued(K), Head(mailbox).kind \notin K
  PROVE  Queued(K)'
<1>1. mailbox # <<>> /\ mailbox \in Seq(Command)
  BY ActorMoves DEF TypeOK
<1>2. PICK told \in Seq(Command) : \/ mailbox' = Tail(mailbox) \o told
                                   \/ mailbox' = WithoutTick(Tail(mailbox)) \o told
  BY ActorMoves
<1>3. Has(Tail(mailbox), K)
  BY <1>1, HasTail DEF Has, Queued
<1>4. Tail(mailbox) \in Seq(Command) /\ WithoutTick(Tail(mailbox)) \in Seq(Command)
  BY <1>1, Queues
<1>5. Has(WithoutTick(Tail(mailbox)), K)
  BY <1>3, <1>4, HasVoid
<1>6. Has(mailbox', K)
  BY <1>2, <1>3, <1>4, <1>5, HasConcat
<1> QED BY <1>6 DEF Has, Queued

(* What is told is on its way.                                              *)
LEMMA ToldQueued ==
  ASSUME TypeOK, mailbox # <<>>, NEW m \in Command, NEW K, m.kind \in K, Tell(<<m>>)
  PROVE  Queued(K)'
<1>1. Tail(mailbox) \in Seq(Command) /\ <<m>> \in Seq(Command)
  BY Queues, SmallSeqs
<1>2. Has(Tail(mailbox) \o <<m>>, K)
  BY <1>1, HasOne, HasConcat
<1> QED BY <1>2 DEF Tell, Has, Queued

(* So is the setup of the behavior that a crash restarts.                   *)
LEMMA CrashQueued ==
  ASSUME TypeOK, mailbox # <<>>, NEW ms \in Seq(Command), Crash(ms)
  PROVE  Queued({"Setup"})'
<1>1. WithoutTick(Tail(mailbox)) \o ms \in Seq(Command) /\ <<Signal("Setup")>> \in Seq(Command)
  BY Queues, ConcatProperties, Commands, SmallSeqs
<1>2. Has(mailbox', {"Setup"})
  <2>1. Has(<<Signal("Setup")>>, {"Setup"})
    BY HasOne DEF Signal
  <2> QED BY <1>1, <2>1, HasConcat DEF Crash
<1> QED BY <1>2 DEF Has, Queued

-----------------------------------------------------------------------------
(* A request in flight is heard of *)

(* A handler that does not stop the entity abandons no request.             *)
LEMMA RequestsKept ==
  ASSUME TypeOK, Actor, ~StopEntity
  PROVE  /\ \A i \in DOMAIN transactions :
              i \in DOMAIN transactions' /\ transactions'[i] = transactions[i]
<1>1. transactions \in Seq(Transaction)
  BY DEF TypeOK
<1>2. ASSUME NEW t, transactions' = Append(transactions, t), NEW i \in DOMAIN transactions
      PROVE  i \in DOMAIN transactions' /\ transactions'[i] = transactions[i]
  BY <1>1, <1>2
<1>3. UNCHANGED transactions \/ \E t : transactions' = Append(transactions, t)
  BY DEF Actor, OnWorkStageResponse, OnInvalid, OnWorkHalt, OnLast, OnWorking, OnDone, OnFailed,
      OnIngest, OnEnqueue, OnStart, OnStartInternalClock, OnStopInternalClock, OnStop,
      OnClusterEvent, OnUpdateScheduler, OnWakeUp, OnTick, OnClose, OnTrackFailure, OnRestart,
      OnCloseStageResponse, OnDestroyQueue, OnDestroyQueueResult, OnDiscard, OnlyTell,
      OnSetup, OnTrackDate, OnUpdateStatus, OnHalt, OnPersistException, OnGracefulEnd,
      OnTrackError, PipeAndSetUp, Pipe, Passivate, Crash, requests, allButMailbox, KeptByWork
<1> QED BY <1>2, <1>3

(* A request that is piped is awaited.                                      *)
LEMMA PipeAwaited ==
  ASSUME TypeOK, NEW request, NEW a, Pipe(request, a)
  PROVE  AwaitsDatabase'
<1>1. transactions \in Seq(Transaction)
  BY DEF TypeOK
<1>4. Opened(request, TRUE).live
  BY DEF Opened
<1>0. PICK t : t = Opened(request, TRUE) /\ t.live
  BY <1>4
<1>2. transactions' = Append(transactions, t)
  BY <1>0 DEF Pipe
<1>3. /\ Len(transactions) + 1 \in DOMAIN transactions'
      /\ transactions'[Len(transactions) + 1] = t
  BY <1>1, <1>2
<1> QED BY <1>0, <1>3 DEF AwaitsDatabase

(* An answer of the database is followed by the response, whatever the      *)
(* behavior: the wait goes on until a response is taken.                    *)
LEMMA AwaitKept ==
  ASSUME TypeOK, Actor, ~StopEntity, AwaitsDatabase, Head(mailbox).kind # "Response"
  PROVE  AwaitsDatabase'
<1>1. CASE \E i \in DOMAIN transactions : transactions[i].live
  BY <1>1, RequestsKept DEF AwaitsDatabase
<1>2. CASE Queued({"Response"})
  <2>1. Queued({"Response"})'
    BY <1>2, HandlerKeepsQueued
  <2> QED BY <2>1 DEF AwaitsDatabase, Queued
<1>3. CASE Queued({"UpdateScheduler"}) /\ Head(mailbox).kind # "UpdateScheduler"
  <2>1. Queued({"UpdateScheduler"})'
    BY <1>3, HandlerKeepsQueued
  <2> QED BY <2>1 DEF AwaitsDatabase, Queued
<1>4. CASE Head(mailbox).kind = "UpdateScheduler"
  <2>1. mailbox # <<>> /\ Incoming.kind = "UpdateScheduler"
    BY <1>4, ActorMoves DEF Incoming
  <2>2. OnUpdateScheduler
    BY <2>1
    DEF Actor, OnWorkStageResponse, OnInvalid, OnWorkHalt, OnLast, OnWorking, OnDone, OnFailed,
        FromWorkStage, OnIngest, OnEnqueue,
        OnStart, OnStartInternalClock, OnStopInternalClock, OnStop, OnClusterEvent,
        OnSetup, OnWakeUp, OnTick, OnTrackDate, OnUpdateStatus, OnClose,
        OnHalt, OnPersistException, OnTrackFailure, OnGracefulEnd, OnTrackError, OnRestart,
        OnCloseStageResponse, OnDestroyQueue, OnDestroyQueueResult, OnDiscard, Unhandled,
        Handled, Always, Receive
  <2>3. PICK ok \in BOOLEAN : Tell(<<[kind |-> "Response", ok |-> ok]>>)
    BY <2>2 DEF OnUpdateScheduler, Reply
  <2>4. [kind |-> "Response", ok |-> ok] \in Command
    BY DEF Command
  <2>5. Queued({"Response"})'
    BY <2>1, <2>3, <2>4, ToldQueued
  <2> QED BY <2>5 DEF AwaitsDatabase, Queued
<1> QED BY <1>1, <1>2, <1>3, <1>4 DEF AwaitsDatabase, Queued

-----------------------------------------------------------------------------
(* The handlers *)

(* A handler that only waits leaves alone what the behavior waits with, and *)
(* is not the one that what is awaited is for.                              *)
Waits ==
  /\ UNCHANGED <<behavior, adapter, queues>>
  /\ behavior = "settingUp" => Incoming.kind \notin {"Setup", "Start"}
  /\ behavior = "halted" => Incoming.kind # "GracefulEnd"
  /\ behavior = "gracefulEnding" => Incoming.kind \notin {"DestroyQueue", "DestroyQueueResult"}
  /\ stopRequested \/ Incoming.kind = "Stop" => stopRequested'

(* What a handler does to the wait: it ends it, begins one, or goes on.     *)
LEMMA ActorWaits ==
  ASSUME TypeOK, Actor, ~StopEntity
  PROVE  \/ \E ms \in Seq(Command) : Crash(ms)
         \/ \E request, from : PipeAndSetUp(request, from)
         \/ OnHalt \/ OnGracefulEnd \/ OnDestroyQueue \/ OnDestroyQueueResult
         \/ behavior' \in {"ready", "busy", "closing"}
         \/ Waits
<1> USE DEF allButMailbox, fields, outside, requests, stopping
<1>1. <<>> \in Seq(Command) /\ <<Signal("PersistException")>> \in Seq(Command)
      /\ <<Signal("StopInternalClock")>> \in Seq(Command)
  BY SmallSeqs, Commands
<1>2. mailbox # <<>> /\ behavior # "stopped" /\ Incoming \in Command
  BY ActorMoves
<1>3. CASE OnStart \/ OnStartInternalClock \/ OnTrackFailure \/ OnRestart
  BY <1>3 DEF OnStart, OnStartInternalClock, OnTrackFailure, OnRestart, TellAndNext
<1>4. CASE OnStopInternalClock \/ OnClusterEvent \/ OnUpdateScheduler
  BY <1>4 DEF OnStopInternalClock, OnClusterEvent, OnUpdateScheduler, Receive, Waits
<1>5. CASE OnStop
  BY <1>5 DEF OnStop, Receive, Waits
<1>6. CASE OnSetup \/ OnUpdateStatus
  BY <1>6 DEF OnSetup, OnUpdateStatus
<1>7. CASE OnWakeUp \/ OnPersistException \/ OnIngest
  BY <1>1, <1>7 DEF OnWakeUp, OnPersistException, OnIngest, OnlyTell, IsSetUp
<1>8. CASE OnTick
  BY <1>1, <1>8 DEF OnTick, OnlyTell, IsSetUp, Passivate
<1>9. CASE OnTrackDate \/ OnTrackError
  BY <1>1, <1>9 DEF OnTrackDate, OnTrackError, TellAndNext
<1>10. CASE OnClose
  BY <1>1, <1>10 DEF OnClose
<1>11. CASE OnWorkStageResponse
  BY <1>1, <1>11 DEF OnWorkStageResponse, OnInvalid, OnWorkHalt, OnLast, OnWorking, OnDone, OnFailed,
     ReadyOrBusy, TellAndNext
<1>12. CASE OnCloseStageResponse
  BY <1>12 DEF OnCloseStageResponse, OnlyTell
<1>13. CASE OnEnqueue
  <2>1. behavior \in {"settingUp", "busy"} /\ UNCHANGED <<behavior, adapter, queues, stopRequested>>
    BY <1>13 DEF OnEnqueue
  <2>2. Incoming.kind \notin {"Start", "Stop"} /\ (behavior = "settingUp" => Incoming.kind # "Setup")
    BY <1>13 DEF OnEnqueue, Unhandled, Handled, Always
  <2> QED BY <2>1, <2>2 DEF Waits
<1>14. CASE OnDiscard
  <2>1. UNCHANGED <<behavior, adapter, queues, stopRequested>>
    BY <1>14 DEF OnDiscard, OnlyTell
  <2>2. /\ Incoming.kind \notin {"Start", "Stop"}
        /\ behavior = "settingUp" => Incoming.kind # "Setup"
        /\ behavior = "halted" => Incoming.kind # "GracefulEnd"
        /\ behavior = "gracefulEnding" => Incoming.kind \notin {"DestroyQueue", "DestroyQueueResult"}
    BY <1>14 DEF OnDiscard, Unhandled, Handled, Always
  <2> QED BY <2>1, <2>2 DEF Waits
<1> QED
  BY <1>3, <1>4, <1>5, <1>6, <1>7, <1>8, <1>9, <1>10, <1>11, <1>12, <1>13, <1>14 DEF Actor

(* Every handler that does not stop the entity leaves something on its way. *)
LEMMA ActorAwaits ==
  ASSUME TypeOK, TypeOK', AwaitedInv, Actor, ~StopEntity
  PROVE  AwaitedInv'
<1>1. mailbox # <<>> /\ behavior # "stopped"
  BY ActorMoves
<1>2. ASSUME NEW ms \in Seq(Command), Crash(ms)
      PROVE  AwaitedInv'
  <2>1. Queued({"Setup"})'
    BY <1>1, <1>2, CrashQueued
  <2> QED BY <1>2, <2>1 DEF Crash, AwaitedInv
<1>3. ASSUME NEW request, NEW from, PipeAndSetUp(request, from)
      PROVE  AwaitedInv'
  <2>1. AwaitsDatabase'
    BY <1>3, PipeAwaited DEF PipeAndSetUp
  <2> QED BY <1>3, <2>1 DEF PipeAndSetUp, Pipe, StartWrapper, AwaitedInv
<1>4. CASE OnHalt
  <2>1. AwaitsDatabase'
    BY <1>4, PipeAwaited DEF OnHalt
  <2> QED BY <1>4, <2>1 DEF OnHalt, Pipe, Adapted, AwaitedInv
<1>5. CASE OnGracefulEnd
  <2>1. AwaitsDatabase'
    BY <1>5, PipeAwaited DEF OnGracefulEnd
  <2> QED BY <1>5, <2>1 DEF OnGracefulEnd, Pipe, Adapted, AwaitedInv
<1>6. CASE OnDestroyQueue
  <2>1. ASSUME Tell(<<Signal("Stop")>>)
        PROVE  Queued({"DestroyQueueResult", "Stop"})'
    BY <1>1, <2>1, ToldQueued, Commands DEF Signal
  <2> QED BY <1>6, <2>1 DEF OnDestroyQueue, requests, AwaitedInv
<1>7. CASE OnDestroyQueueResult
  <2>1. Queued({"DestroyQueueResult", "Stop"})'
    BY <1>1, <1>7, ToldQueued, Commands DEF Signal, OnDestroyQueueResult, OnlyTell
  <2> QED
    BY <1>7, <2>1 DEF OnDestroyQueueResult, OnlyTell, allButMailbox, requests, AwaitedInv
<1>8. CASE behavior' \in {"ready", "busy", "closing"}
  BY <1>8 DEF AwaitedInv
<1>9. CASE Waits
  <2>1. ASSUME behavior = "settingUp"
        PROVE  AwaitedInv'
    <3>1. CASE Queued({"Setup"})
      <4>1. Head(mailbox).kind # "Setup"
        BY <1>9, <2>1 DEF Waits, Incoming
      <4>2. Queued({"Setup"})'
        BY <3>1, <4>1, HandlerKeepsQueued
      <4> QED BY <1>9, <2>1, <4>2 DEF Waits, AwaitedInv
    <3>2. CASE adapter.to = "Start" /\ AwaitsDatabase
      <4>1. Head(mailbox).kind # "Response"
        BY <1>9, <2>1, <3>2 DEF Waits, Incoming, Adapt
      <4>2. AwaitsDatabase'
        BY <3>2, <4>1, AwaitKept
      <4> QED BY <1>9, <2>1, <3>2, <4>2 DEF Waits, AwaitedInv
    <3> QED BY <2>1, <3>1, <3>2 DEF AwaitedInv
  <2>2. ASSUME behavior = "halted"
        PROVE  AwaitedInv'
    <3>1. CASE Queued({"GracefulEnd"})
      <4>1. Head(mailbox).kind # "GracefulEnd"
        BY <1>9, <2>2 DEF Waits, Incoming
      <4>2. Queued({"GracefulEnd"})'
        BY <3>1, <4>1, HandlerKeepsQueued
      <4> QED BY <1>9, <2>2, <4>2 DEF Waits, AwaitedInv
    <3>2. CASE adapter.to = "GracefulEnd" /\ AwaitsDatabase
      <4>1. Head(mailbox).kind # "Response"
        BY <1>9, <2>2, <3>2 DEF Waits, Incoming, Adapt, GracefulEnd
      <4>2. AwaitsDatabase'
        BY <3>2, <4>1, AwaitKept
      <4> QED BY <1>9, <2>2, <3>2, <4>2 DEF Waits, AwaitedInv
    <3> QED BY <2>2, <3>1, <3>2 DEF AwaitedInv
  <2>3. ASSUME behavior = "gracefulEnding"
        PROVE  AwaitedInv'
    <3>1. adapter.to = "DestroyQueue" /\ UNCHANGED <<behavior, adapter, queues>>
      BY <1>9, <2>3 DEF Waits, AwaitedInv
    <3>2. CASE stopRequested \/ Incoming.kind = "Stop"
      BY <1>9, <2>3, <3>1, <3>2 DEF Waits, AwaitedInv
    <3>3. CASE AwaitsDatabase
      <4>1. Head(mailbox).kind # "Response"
        BY <1>9, <2>3, <3>1 DEF Waits, Incoming, Adapt
      <4>2. AwaitsDatabase'
        BY <3>3, <4>1, AwaitKept
      <4> QED BY <2>3, <3>1, <4>2 DEF AwaitedInv
    <3>4. CASE queues = "deleting"
      BY <2>3, <3>1, <3>4 DEF AwaitedInv
    <3>5. CASE Queued({"DestroyQueueResult", "Stop"}) /\ Incoming.kind # "Stop"
      <4>1. Head(mailbox).kind \notin {"DestroyQueueResult", "Stop"}
        BY <1>9, <2>3, <3>5 DEF Waits, Incoming
      <4>2. Queued({"DestroyQueueResult", "Stop"})'
        BY <3>5, <4>1, HandlerKeepsQueued
      <4> QED BY <2>3, <3>1, <4>2 DEF AwaitedInv
    <3> QED BY <2>3, <3>2, <3>3, <3>4, <3>5 DEF AwaitedInv
  <2>4. ASSUME behavior \notin {"settingUp", "halted", "gracefulEnding"}
        PROVE  AwaitedInv'
    BY <1>9, <2>4 DEF Waits, AwaitedInv
  <2> QED BY <2>1, <2>2, <2>3, <2>4
<1> QED BY <1>2, <1>3, <1>4, <1>5, <1>6, <1>7, <1>8, <1>9, ActorWaits

-----------------------------------------------------------------------------
(* The others *)

(* Removing an element moves the others by one at most.                     *)
LEMMA RemoveAtKeeps ==
  ASSUME NEW S, NEW q \in Seq(S), NEW i \in DOMAIN q, NEW j \in DOMAIN q, j # i
  PROVE  \E k \in DOMAIN RemoveAt(q, i) : RemoveAt(q, i)[k] = q[j]
<1> DEFINE front == SubSeq(q, 1, i - 1)
           rest == SubSeq(q, i + 1, Len(q))
<1>1. i \in 1 .. Len(q) /\ j \in 1 .. Len(q) /\ Len(q) \in Nat
  BY LenProperties
<1>2. /\ front \in Seq(S) /\ Len(front) = i - 1
      /\ \A k \in 1 .. i - 1 : front[k] = q[k]
      /\ rest \in Seq(S) /\ Len(rest) = Len(q) - i
      /\ \A k \in 1 .. Len(q) - i : rest[k] = q[i + k]
  BY <1>1, SubSeqProperties
<1> HIDE DEF front, rest
<1>3. /\ DOMAIN (front \o rest) = 1 .. (i - 1) + (Len(q) - i)
      /\ \A k \in 1 .. (i - 1) + (Len(q) - i) :
           (front \o rest)[k] = IF k <= i - 1 THEN front[k] ELSE rest[k - (i - 1)]
  BY <1>2, ConcatProperties, LenProperties
<1>4. CASE j < i
  <2>1. /\ j \in 1 .. (i - 1) + (Len(q) - i)
        /\ (front \o rest)[j] = q[j]
    BY <1>1, <1>2, <1>3, <1>4
  <2> QED BY <1>3, <2>1 DEF RemoveAt, front, rest
<1>5. CASE j > i
  <2>1. /\ j - 1 \in 1 .. (i - 1) + (Len(q) - i) /\ ~(j - 1 <= i - 1)
        /\ (j - 1) - (i - 1) = j - i
        /\ j - i \in 1 .. Len(q) - i /\ i + (j - i) = j
    BY <1>1, <1>5
  <2>2. (front \o rest)[j - 1] = q[j]
    BY <1>2, <1>3, <2>1
  <2> QED BY <1>3, <2>1, <2>2 DEF RemoveAt, front, rest
<1> QED BY <1>1, <1>4, <1>5

(* A request that ends is followed by another, or by its answer, and leaves *)
(* the other transactions.                                                  *)
LEMMA ConcludeAwaits ==
  ASSUME TypeOK, AwaitsDatabase, NEW i \in DOMAIN transactions, NEW left \in Left(i),
         NEW result \in Row \cup {Null}, Conclude(transactions[i], left, result)
  PROVE  AwaitsDatabase'
<1>1. transactions \in Seq(Transaction) /\ left \in Seq(Transaction)
  BY LeftType DEF TypeOK
<1>2. PICK m : m = [kind |-> "UpdateScheduler", row |-> result] /\ m.kind = "UpdateScheduler"
  <2>1. [kind |-> "UpdateScheduler", row |-> result].kind = "UpdateScheduler"
    OBVIOUS
  <2> QED BY <2>1
<1>3. m \in Command
  BY <1>2 DEF Command
<1>4. PICK t : t = Opened(PersistStatus("ERROR"), transactions[i].live)
  OBVIOUS
<1>5. t.live = transactions[i].live
  BY <1>4 DEF Opened
<1>6. UNCHANGED mailbox \/ Arrives(m)
  BY <1>2 DEF Conclude
<1>7. CASE Queued({"UpdateScheduler", "Response"})
  <2>1. Queued({"UpdateScheduler", "Response"})'
    BY <1>3, <1>6, <1>7, ArrivalQueued DEF Queued
  <2> QED BY <2>1 DEF AwaitsDatabase
<1>8. CASE transactions[i].live
  <2>1. CASE transactions' = Append(left, t)
    <3>1. /\ Len(left) + 1 \in DOMAIN transactions'
          /\ transactions'[Len(left) + 1] = t
      BY <1>1, <2>1
    <3> QED BY <1>5, <1>8, <3>1 DEF AwaitsDatabase
  <2>2. CASE Arrives(m)
    <3>1. Queued({"UpdateScheduler", "Response"})'
      BY <1>2, <1>3, <2>2, ArrivalQueued
    <3> QED BY <3>1 DEF AwaitsDatabase
  <2> QED BY <1>2, <1>4, <1>8, <2>1, <2>2 DEF Conclude
<1>9. ASSUME NEW j \in DOMAIN transactions, transactions[j].live, j # i
      PROVE  AwaitsDatabase'
  <2>1. PICK k \in DOMAIN left : left[k] = transactions[j]
    <3>1. CASE left = RemoveAt(transactions, i)
      BY <1>1, <1>9, <3>1, RemoveAtKeeps
    <3>2. CASE left = [transactions EXCEPT ![i] = Outlived(transactions[i])]
      BY <1>9, <3>2
    <3> QED BY <3>1, <3>2 DEF Left
  <2>2. k \in DOMAIN transactions' /\ transactions'[k] = transactions[j]
    <3>1. transactions' = left \/ transactions' = Append(left, t)
      BY <1>4 DEF Conclude
    <3>2. CASE transactions' = left
      BY <2>1, <3>2
    <3>3. CASE transactions' = Append(left, t)
      BY <1>1, <2>1, <3>3
    <3> QED BY <3>1, <3>2, <3>3
  <2> QED BY <1>9, <2>2 DEF AwaitsDatabase
<1> QED BY <1>7, <1>8, <1>9 DEF AwaitsDatabase

(* An arrival, or a step elsewhere, takes nothing away from what is awaited. *)
LEMMA ArrivalAwaits ==
  ASSUME TypeOK, AwaitedInv, UNCHANGED <<behavior, adapter, stopRequested, transactions, queues>>,
         UNCHANGED mailbox \/ \E m \in Command : Arrives(m)
  PROVE  AwaitedInv'
<1>1. ASSUME NEW K, Queued(K)
      PROVE  Queued(K)'
  BY <1>1, ArrivalQueued DEF Queued
<1>2. /\ Queued({"Setup"}) => Queued({"Setup"})'
      /\ Queued({"GracefulEnd"}) => Queued({"GracefulEnd"})'
      /\ Queued({"DestroyQueueResult", "Stop"}) => Queued({"DestroyQueueResult", "Stop"})'
      /\ Queued({"UpdateScheduler", "Response"}) => Queued({"UpdateScheduler", "Response"})'
  BY <1>1
<1>3. AwaitsDatabase => AwaitsDatabase'
  BY <1>2 DEF AwaitsDatabase
<1> QED BY <1>2, <1>3 DEF AwaitedInv

(* The database's answers arrive behind what is in the mailbox.             *)
LEMMA DatabaseArrives ==
  ASSUME TypeOK, Database
  PROVE  UNCHANGED mailbox \/ \E m \in Command : Arrives(m)
<1>1. \A result \in Row \cup {Null} : [kind |-> "UpdateScheduler", row |-> result] \in Command
  BY DEF Command
<1> QED BY <1>1, DatabaseTells

(* The database answers what is asked of it.                                *)
LEMMA DatabaseAwaits ==
  ASSUME TypeOK, AwaitedInv, Database
  PROVE  AwaitedInv'
<1> USE DEF fields, stopping, outside
<1>1. PICK i \in DOMAIN transactions :
        BeginTransaction(i) \/ CommitTransaction(i) \/ FailTransaction(i)
  BY DEF Database
<1>2. UNCHANGED <<behavior, adapter, stopRequested, queues>>
  BY <1>1 DEF BeginTransaction, CommitTransaction, FailTransaction
<1>3. ASSUME NEW K, Queued(K)
      PROVE  Queued(K)'
  BY <1>3, DatabaseArrives, ArrivalQueued DEF Queued
<1>4. ASSUME NEW left \in Left(i), NEW result \in Row \cup {Null},
             Conclude(transactions[i], left, result)
      PROVE  AwaitedInv'
  <2>1. AwaitsDatabase => AwaitsDatabase'
    BY <1>4, ConcludeAwaits
  <2>2. /\ Queued({"Setup"}) => Queued({"Setup"})'
        /\ Queued({"GracefulEnd"}) => Queued({"GracefulEnd"})'
        /\ Queued({"DestroyQueueResult", "Stop"}) => Queued({"DestroyQueueResult", "Stop"})'
    BY <1>3
  <2> QED BY <1>2, <2>1, <2>2 DEF AwaitedInv
<1>5. CASE BeginTransaction(i)
  <2>1. transactions' = [transactions EXCEPT ![i].read = row] /\ UNCHANGED mailbox
    BY <1>5 DEF BeginTransaction
  <2>2. \A j \in DOMAIN transactions :
          j \in DOMAIN transactions' /\ transactions'[j].live = transactions[j].live
    BY <2>1, TransactionAt DEF Transaction
  <2>3. AwaitsDatabase => AwaitsDatabase'
    BY <2>1, <2>2 DEF AwaitsDatabase, Queued
  <2> QED BY <1>2, <2>1, <2>3 DEF AwaitedInv, Queued
<1>6. CASE CommitTransaction(i)
  <2>1. Written(transactions[i].request, transactions[i].read) \in Row
    BY <1>6, TransactionAt, WrittenType DEF CommitTransaction
  <2> QED BY <1>4, <1>6, <2>1 DEF CommitTransaction, Left
<1>7. CASE FailTransaction(i)
  BY <1>4, <1>7, FailConcludes
<1> QED BY <1>1, <1>5, <1>6, <1>7

(* Whoever asks the entity, or tells it, does so through the shard.         *)
LEMMA EnvironmentDelivers ==
  ASSUME Environment, ~Expire, ~MemberEvent, ~FailWorkStage
  PROVE  \E m \in Command : Deliver(m)
<1>1. /\ \A d \in Deliveries : [kind |-> "Ingest", from |-> d] \in Command
      /\ \A c \in TrackErrors : [kind |-> "TrackError", from |-> c] \in Command
      /\ \A c \in Restarts : [kind |-> "Restart", from |-> c] \in Command
  BY DEF Command
<1>2. GracefulEnd("CANCELLED") \in Command
  BY Commands DEF Status
<1> QED
  BY <1>1, <1>2, Commands
  DEF Environment, SendIngest, SendTrackError, SendRestart, Ask, SendWakeUp, SendHalt,
      CancelScheduling, CloseScheduling

(* What the children, the queue manager, the shard, the timer and the       *)
(* senders send arrives behind what is in the mailbox, or creates the entity. *)
LEMMA OthersArrive ==
  ASSUME TypeOK, Children \/ DeleteQueues \/ ShardStops \/ TimerFires \/ Environment
  PROVE  \/ UNCHANGED mailbox
         \/ \E m \in Command : Arrives(m)
         \/ \E m \in Command : behavior = "stopped" /\ Deliver(m)
<1> USE DEF allButMailbox
<1>1. CASE Children
  <2>1. ASSUME NEW o \in Outcomes, NEW d \in Deliveries, Respond(o, d)
        PROVE  \E m \in Command : Arrives(m)
    <3>1. [kind |-> "WorkStageResponse", outcome |-> o, from |-> d] \in Command
      BY DEF Command
    <3> QED BY <2>1, <3>1 DEF Respond
  <2>2. ASSUME NEW d \in working, FinishWork(d)
        PROVE  \E m \in Command : Arrives(m)
    BY <2>1, <2>2 DEF FinishWork, Outcomes, TypeOK
  <2>3. CASE StartWorker
    <3>1. Head(workBox) \in Deliveries
      BY <2>3, HeadTailProperties DEF TypeOK, StartWorker
    <3> QED BY <2>1, <2>3, <3>1 DEF StartWorker, Outcomes
  <2>4. CASE CloseStageReplies
    <3>1. [kind |-> "CloseStageResponse", status |-> ClosingStatus(closeStage.row)] \in Command
      BY DEF Command, ClosingStatus, Status
    <3> QED BY <2>4, <3>1 DEF CloseStageReplies
  <2> QED BY <1>1, <2>2, <2>3, <2>4 DEF Children
<1>2. CASE DeleteQueues
  BY <1>2, Commands DEF DeleteQueues, Signals
<1>3. CASE ShardStops
  BY <1>3, Commands DEF ShardStops
<1>4. CASE TimerFires
  BY <1>4, Commands DEF TimerFires, Signals
<1>5. CASE MemberEvent
  BY <1>5, Commands DEF MemberEvent, Signals
<1>6. CASE Expire
  BY <1>6 DEF Expire
<1>7. CASE Environment /\ ~Expire /\ ~MemberEvent /\ ~FailWorkStage
  BY <1>7, EnvironmentDelivers DEF Deliver
<1>8. CASE FailWorkStage
  BY <1>8 DEF FailWorkStage
<1> QED BY <1>1, <1>2, <1>3, <1>4, <1>5, <1>6, <1>7, <1>8

(* They change the behavior only by creating the entity.                    *)
LEMMA KeepsBehavior ==
  ASSUME Children \/ DeleteQueues \/ ShardStops \/ TimerFires \/ Environment
  PROVE  \/ UNCHANGED behavior
         \/ \E m \in Command : behavior = "stopped" /\ Deliver(m)
<1> USE DEF allButMailbox
<1>1. ASSUME NEW m \in Command, Deliver(m)
      PROVE  UNCHANGED behavior \/ (behavior = "stopped" /\ Deliver(m))
  BY <1>1 DEF Deliver
<1>2. CASE Children \/ DeleteQueues \/ ShardStops \/ TimerFires \/ Expire \/ MemberEvent
             \/ FailWorkStage
  BY <1>2 DEF Children, StartWorker, FinishWork, CloseStageReplies, DeleteQueues, ShardStops,
     TimerFires, Expire, MemberEvent, FailWorkStage
<1>3. CASE Environment /\ ~Expire /\ ~MemberEvent /\ ~FailWorkStage
  BY <1>1, <1>3, EnvironmentDelivers
<1> QED BY <1>2, <1>3

(* None of them takes away what is awaited; an entity that is created sets  *)
(* up.                                                                      *)
LEMMA OthersAwait ==
  ASSUME TypeOK, AwaitedInv,
         Children \/ DeleteQueues \/ ShardStops \/ TimerFires \/ Environment
  PROVE  AwaitedInv'
<1> USE DEF allButMailbox, fields, stopping, outside, requests
<1>1. ASSUME NEW m \in Command, behavior = "stopped", Deliver(m)
      PROVE  AwaitedInv'
  <2>1. behavior' = "settingUp" /\ mailbox' = <<Signal("Setup"), m>>
    BY <1>1 DEF Deliver
  <2>2. 1 \in DOMAIN mailbox' /\ mailbox'[1].kind = "Setup"
    BY <2>1 DEF Signal
  <2>3. Queued({"Setup"})'
    BY <2>2 DEF Queued
  <2> QED BY <2>1, <2>3 DEF AwaitedInv
<1>2. CASE DeleteQueues
  <2>1. UNCHANGED <<behavior, adapter, stopRequested, transactions>>
    BY <1>2 DEF DeleteQueues
  <2>2. CASE queues = "deleting"
    <3>1. PICK m \in Command : m = Signal("DestroyQueueResult") /\ m.kind = "DestroyQueueResult"
      BY Commands DEF Signals, Signal
    <3>2. Arrives(m)
      BY <1>2, <2>2, <3>1 DEF DeleteQueues
    <3>3. \A K : Queued(K) \/ m.kind \in K => Queued(K)'
      BY <3>2, ArrivalQueued
    <3>4. Queued({"DestroyQueueResult", "Stop"})'
      BY <3>1, <3>3
    <3>5. AwaitsDatabase => AwaitsDatabase'
      BY <2>1, <3>3 DEF AwaitsDatabase
    <3>6. /\ Queued({"Setup"}) => Queued({"Setup"})'
          /\ Queued({"GracefulEnd"}) => Queued({"GracefulEnd"})'
      BY <3>3
    <3> QED BY <2>1, <3>4, <3>5, <3>6 DEF AwaitedInv
  <2>3. CASE queues # "deleting"
    <3>1. UNCHANGED mailbox
      BY <1>2, <2>3 DEF DeleteQueues
    <3> QED BY <2>1, <2>3, <3>1 DEF AwaitedInv, AwaitsDatabase, Queued
  <2> QED BY <2>2, <2>3
<1>3. CASE ~DeleteQueues /\ ~(\E m \in Command : behavior = "stopped" /\ Deliver(m))
  <2>1. UNCHANGED mailbox \/ \E m \in Command : Arrives(m)
    BY <1>3, OthersArrive
  <2>2. UNCHANGED <<adapter, stopRequested, transactions, queues>>
    BY <1>3
    DEF Children, StartWorker, FinishWork, CloseStageReplies, ShardStops, TimerFires,
        Environment, SendIngest, SendTrackError, SendRestart, Ask, SendWakeUp, SendHalt,
        CancelScheduling, CloseScheduling, Deliver, Expire, MemberEvent, FailWorkStage
  <2>3. UNCHANGED behavior
    BY <1>3, KeepsBehavior
  <2> QED BY <2>1, <2>2, <2>3, ArrivalAwaits
<1> QED BY <1>1, <1>2, <1>3

-----------------------------------------------------------------------------
(* The busy entity *)

(* Workers that are all taken hold something.                               *)
LEMMA AllTaken ==
  ASSUME TypeOK, maxWorkers > 0, NEW ms, ReadyOrBusy(ms), behavior' = "busy"
  PROVE  held' # {}
<1>1. Cardinality(held') >= maxWorkers
  BY DEF ReadyOrBusy, TellAndNext
<1>2. Cardinality({}) = 0
  BY FS_EmptySet
<1>3. ASSUME held' = {}
      PROVE  FALSE
  <2>1. Cardinality(held') = 0
    BY <1>2, <1>3
  <2>2. maxWorkers \in Int
    BY DEF TypeOK
  <2> QED BY <1>1, <2>1, <2>2
<1> QED BY <1>3

(* A handler that leaves the entity busy has something held or told, or     *)
(* leaves what is awaited alone.                                            *)
LEMMA ActorBusy ==
  ASSUME TypeOK, TypeOK', BusyIsAwaited, maxWorkers > 0, Actor, ~StopEntity, behavior' = "busy"
  PROVE  BusyIsAwaited'
<1> USE DEF allButMailbox, fields
<1>1. mailbox # <<>> /\ behavior # "stopped" /\ Incoming \in Command
  BY ActorMoves
<1>2. CASE UNCHANGED <<behavior, held>> /\ Incoming.kind # "TrackDate"
  <2>1. behavior = "busy" /\ held' = held
    BY <1>2
  <2>2. CASE held # {}
    BY <2>1, <2>2 DEF BusyIsAwaited
  <2>3. CASE Queued({"TrackDate"})
    <3>1. Head(mailbox).kind # "TrackDate"
      BY <1>2 DEF Incoming
    <3>2. Queued({"TrackDate"})'
      BY <2>3, <3>1, HandlerKeepsQueued
    <3> QED BY <3>2 DEF BusyIsAwaited
  <2> QED BY <2>1, <2>2, <2>3 DEF BusyIsAwaited
<1>3. ASSUME NEW ms, ReadyOrBusy(ms)
      PROVE  BusyIsAwaited'
  BY <1>3, AllTaken DEF BusyIsAwaited
<1>4. CASE OnDone
  <2>1. Incoming.from \in Deliveries
    BY <1>1, <1>4 DEF OnDone, FromWorkStage, Receive, Command, Signals
  <2>2. Tell(<<TrackDate(Incoming.from)>>)
    BY <1>4 DEF OnDone, Crash, TrackDone
  <2>3. TrackDate(Incoming.from) \in Command /\ TrackDate(Incoming.from).kind \in {"TrackDate"}
    BY <2>1, Commands DEF TrackDate
  <2>4. Queued({"TrackDate"})'
    BY <1>1, <2>2, <2>3, ToldQueued
  <2> QED BY <2>4 DEF BusyIsAwaited
<1>5. CASE OnInvalid \/ OnWorkHalt \/ OnLast \/ OnWorking \/ OnFailed
  BY <1>3, <1>5 DEF OnInvalid, OnWorkHalt, OnLast, OnWorking, OnFailed, Crash
<1>6. CASE OnStopInternalClock \/ OnStop \/ OnClusterEvent \/ OnUpdateScheduler \/ OnWakeUp
           \/ OnPersistException
  BY <1>2, <1>6
  DEF OnStopInternalClock, OnStop, OnClusterEvent, OnUpdateScheduler, OnWakeUp, OnPersistException,
      OnlyTell, Receive
<1>7. CASE OnTick
  BY <1>2, <1>7 DEF OnTick, Receive, Crash, Passivate, OnlyTell
<1>8. CASE OnEnqueue
  <2>1. UNCHANGED <<behavior, held>>
    BY <1>8 DEF OnEnqueue
  <2>2. Incoming.kind # "TrackDate"
    BY <1>8, <2>1 DEF OnEnqueue, Unhandled, Handled, AfterSetup
  <2> QED BY <1>2, <2>1, <2>2
<1>9. CASE OnDiscard
  <2>1. UNCHANGED <<behavior, held>>
    BY <1>9 DEF OnDiscard, OnlyTell
  <2>2. Incoming.kind # "TrackDate"
    BY <1>9, <2>1 DEF OnDiscard, Unhandled, Handled, AfterSetup
  <2> QED BY <1>2, <2>1, <2>2
<1>10. CASE ~(OnWorkStageResponse \/ OnStopInternalClock \/ OnStop \/ OnClusterEvent
              \/ OnUpdateScheduler \/ OnWakeUp \/ OnPersistException \/ OnTick \/ OnEnqueue
              \/ OnDiscard)
  <2>1. behavior' # "busy"
    BY <1>10
    DEF Actor, OnIngest, OnStart, OnStartInternalClock, OnSetup, OnTrackDate, OnUpdateStatus,
        OnClose, OnHalt, OnTrackFailure, OnGracefulEnd, OnTrackError, OnRestart,
        OnCloseStageResponse, OnDestroyQueue, OnDestroyQueueResult, OnlyTell, PipeAndSetUp,
        TellAndNext, Crash
  <2> QED BY <2>1
<1> QED
  BY <1>4, <1>5, <1>6, <1>7, <1>8, <1>9, <1>10 DEF OnWorkStageResponse

(* The others put in the mailbox and take nothing out of it.                *)
LEMMA OthersBusy ==
  ASSUME TypeOK, BusyIsAwaited, behavior' = "busy",
         Database \/ Children \/ DeleteQueues \/ ShardStops \/ TimerFires \/ Environment
  PROVE  BusyIsAwaited'
<1> USE DEF allButMailbox, fields
<1>1. UNCHANGED held
  BY DEF Database, BeginTransaction, CommitTransaction, FailTransaction, Children, StartWorker,
     FinishWork, CloseStageReplies, DeleteQueues, ShardStops, TimerFires, Environment,
     SendIngest, SendTrackError, SendRestart, Ask, SendWakeUp, SendHalt, CancelScheduling,
     CloseScheduling, Deliver, Expire, MemberEvent, FailWorkStage
<1>2. \A m : ~(behavior = "stopped" /\ Deliver(m))
  BY DEF Deliver
<1>3. UNCHANGED behavior /\ (UNCHANGED mailbox \/ \E m \in Command : Arrives(m))
  <2>1. CASE Database
    BY <2>1, DatabaseArrives DEF Database, BeginTransaction, CommitTransaction, FailTransaction
  <2> QED BY <1>2, <2>1, OthersArrive, KeepsBehavior
<1>4. Queued({"TrackDate"}) => Queued({"TrackDate"})'
  BY <1>3, ArrivalQueued DEF Queued
<1> QED BY <1>1, <1>3, <1>4 DEF BusyIsAwaited

-----------------------------------------------------------------------------
(* The theorems *)

(* The entity that is not created awaits nothing.                           *)
LEMMA InitAwaits == Init => AwaitedInv
  BY DEF Init, AwaitedInv

(* Every step leaves something on its way to a behavior that waits for it.  *)
LEMMA NextAwaits == TypeOK /\ AwaitedInv /\ [Next]_vars => AwaitedInv'
<1> SUFFICES ASSUME TypeOK, AwaitedInv, [Next]_vars PROVE AwaitedInv'
  OBVIOUS
<1>1. TypeOK'
  BY Steps
<1>2. CASE UNCHANGED vars
  BY <1>2, ArrivalAwaits DEF vars, allButMailbox, fields, stopping, outside, requests
<1>3. CASE StopEntity
  BY <1>3 DEF StopEntity, AwaitedInv
<1>4. CASE Actor /\ ~StopEntity
  BY <1>1, <1>4, ActorAwaits
<1> QED
  BY <1>1, <1>2, <1>3, <1>4, DatabaseAwaits, OthersAwait DEF Next

(* So something always is.                                                  *)
LEMMA Awaiting == Spec => [](TypeOK /\ AwaitedInv)
<1>1. Init => TypeOK /\ AwaitedInv
  BY InitType, InitAwaits
<1>2. TypeOK /\ AwaitedInv /\ [Next]_vars => (TypeOK /\ AwaitedInv)'
  BY Steps, NextAwaits
<1> QED BY <1>1, <1>2, PTL DEF Spec

(* An entity that sets up has a request in flight, its answer or a response *)
(* in the mailbox, or the message that starts it or the setup over again:   *)
(* it does not set commands aside for ever.  (getStartWrapper, onStart)     *)
THEOREM SettingUp == Spec => []SettingUpIsAwaited
<1>1. TypeOK /\ AwaitedInv => SettingUpIsAwaited
  BY DEF AwaitedInv, SettingUpIsAwaited, Queued
<1> QED BY <1>1, Awaiting, PTL

(* A halted entity, which drops every message but the one that ends it, has *)
(* that one on its way, persisted or not.  (onHalt)                         *)
THEOREM Halted == Spec => []HaltedIsAwaited
<1>1. TypeOK /\ AwaitedInv => HaltedIsAwaited
  BY DEF AwaitedInv, HaltedIsAwaited
<1> QED BY <1>1, Awaiting, PTL

(* So has an entity that ends, which drops every message but those that     *)
(* stop it, unless it noted a stop.  (onGracefulEnd, onDestroyQueue, onStop) *)
THEOREM GracefulEnding == Spec => []GracefulEndingIsAwaited
<1>1. TypeOK /\ AwaitedInv => GracefulEndingIsAwaited
  BY DEF AwaitedInv, GracefulEndingIsAwaited, Queued
<1> QED BY <1>1, Awaiting, PTL

(* A busy entity, which refuses new deliveries, holds a document or has a   *)
(* date to track, as long as the cluster it counts has a node: nothing     *)
(* else would make it ready again.  (onWorkStageResponse, onClusterEvent)   *)
THEOREM Busy == Spec /\ [](maxWorkers > 0) => []BusyIsAwaited
<1>1. Init => BusyIsAwaited
  BY DEF Init, BusyIsAwaited
<1>2. TypeOK /\ BusyIsAwaited /\ maxWorkers > 0 /\ [Next]_vars => BusyIsAwaited'
  <2> SUFFICES ASSUME TypeOK, BusyIsAwaited, maxWorkers > 0, [Next]_vars, behavior' = "busy"
               PROVE  BusyIsAwaited'
    BY DEF BusyIsAwaited
  <2>1. TypeOK'
    BY Steps
  <2>2. CASE UNCHANGED vars
    BY <2>2 DEF vars, allButMailbox, fields, BusyIsAwaited, Queued
  <2>3. ~StopEntity
    BY DEF StopEntity
  <2> QED BY <2>1, <2>2, <2>3, ActorBusy, OthersBusy DEF Next
<1> QED BY <1>1, <1>2, Typing, PTL DEF Spec
=============================================================================
