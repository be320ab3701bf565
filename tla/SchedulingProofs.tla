-------------------------- MODULE SchedulingProofs --------------------------
(***************************************************************************)
(* Theorems about the Scheduling entity: every variable keeps its type     *)
(* (Typing), and a document is answered Success only after the work on it  *)
(* was done (Safety), for every value of the constants.                    *)
(*                                                                         *)
(* SuccessMeansIndexed alone is not inductive: the handler that answers    *)
(* Success reads a message that was sent long before.  Soundness adds what *)
(* is true of the messages meanwhile, in the mailbox and among the set     *)
(* aside, through crashes, reorderings and the growth of indexed.          *)
(***************************************************************************)
EXTENDS Scheduling, SequenceTheorems, TLAPS

(* Dropping the head of a queue and appending to it stays in the type.      *)
LEMMA TailConcat ==
  ASSUME NEW S, NEW q \in Seq(S), q # <<>>, NEW ms \in Seq(S)
  PROVE  Tail(q) \o ms \in Seq(S)
  BY HeadTailProperties, ConcatProperties

(* Removing one element stays in the type.                                  *)
LEMMA RemoveAtSeq ==
  ASSUME NEW S, NEW q \in Seq(S), NEW i \in DOMAIN q
  PROVE  RemoveAt(q, i) \in Seq(S)
<1>1. /\ i \in 1 .. Len(q)  /\ Len(q) \in Nat
  BY LenProperties
<1>2. /\ SubSeq(q, 1, i - 1) \in Seq(S)
      /\ SubSeq(q, i + 1, Len(q)) \in Seq(S)
  BY <1>1, SubSeqProperties
<1> QED BY <1>2, ConcatProperties DEF RemoveAt

(* Voiding the enqueued ticks stays in the type.                            *)
LEMMA VoidSeq ==
  ASSUME NEW q \in Seq(Command)
  PROVE  WithoutTick(q) \in Seq(Command)
<1>1. \A i \in DOMAIN q : q[i] \in Command
  BY ElementOfSeq, LenProperties
<1>2. Signal("VoidTick") \in Command
  BY DEF Signal, Command, Signals
<1>3. WithoutTick(q) \in [1 .. Len(q) -> Command]
  BY <1>1, <1>2, LenProperties DEF WithoutTick
<1> QED BY <1>3, LenProperties, IsASeq

(* What the handlers tell are commands.                                     *)
LEMMA Commands ==
  /\ \A k \in Signals : Signal(k) \in Command
  /\ Signal("PersistException") \in Command /\ Signal("Halt") \in Command
  /\ Signal("StopInternalClock") \in Command /\ Signal("StartInternalClock") \in Command
  /\ Signal("Setup") \in Command /\ Signal("Stop") \in Command
  /\ Signal("Close") \in Command /\ Signal("WakeUp") \in Command
  /\ \A d \in Deliveries : TrackDate(d) \in Command
  /\ \A s \in Status : GracefulEnd(s) \in Command
  /\ \A s \in Status, f \in Callers : UpdateStatus(s, f) \in Command
  BY ConstantsAssumption DEF Signal, Signals, Command, TrackDate, GracefulEnd, UpdateStatus

(* The message a behavior is given, adapted or not, is a command.           *)
LEMMA IncomingType ==
  ASSUME TypeOK, mailbox # <<>>
  PROVE  Incoming \in Command
<1>1. Head(mailbox) \in Command
  BY HeadTailProperties DEF TypeOK
<1>2. CASE Head(mailbox).kind = "Response"
  <2>1. Head(mailbox).ok \in BOOLEAN
    BY <1>1, <1>2 DEF Command, Signals
  <2>2. Adapt(Head(mailbox).ok) \in Command
    BY <2>1 DEF TypeOK, Adapter, Adapt, Command, GracefulEnd, Status
  <2> QED BY <1>2, <2>2 DEF Incoming
<1>3. CASE Head(mailbox).kind # "Response"
  BY <1>1, <1>3, Commands DEF Incoming, Signals
<1> QED BY <1>2, <1>3


(* The sequences of no and of one element.                                  *)
LEMMA SmallSeqs ==
  ASSUME NEW S
  PROVE  <<>> \in Seq(S) /\ \A x \in S : <<x>> \in Seq(S)
  OBVIOUS

(* What the handlers append and leave in the two queues is well typed. *)
LEMMA Queues ==
  ASSUME TypeOK
  PROVE  /\ Popped \in Seq(Command) /\ Remaining \in Seq(Command)
         /\ mailbox # <<>> => Tail(mailbox) \in Seq(Command)
         /\ mailbox # <<>> => WithoutTick(Tail(mailbox)) \in Seq(Command)
<1>1. lag \in Seq(Command) /\ mailbox \in Seq(Command)
  BY DEF TypeOK
<1>2. lag # <<>> => Head(lag) \in Command /\ Tail(lag) \in Seq(Command)
  BY <1>1, HeadTailProperties
<1>3. mailbox # <<>> => Tail(mailbox) \in Seq(Command)
  BY <1>1, HeadTailProperties
<1>4. Popped \in Seq(Command)
  BY <1>2, SmallSeqs DEF Popped
<1>5. Remaining \in Seq(Command)
  BY <1>1, <1>2 DEF Remaining
<1> QED BY <1>3, <1>4, <1>5, VoidSeq

(* Telling keeps the mailbox well typed; so it is for none and one message. *)
LEMMA TellType ==
  ASSUME TypeOK, mailbox # <<>>, NEW ms \in Seq(Command), Tell(ms)
  PROVE  mailbox' \in Seq(Command)
  BY TailConcat DEF TypeOK, Tell

(* Telling nothing keeps the mailbox well typed.                            *)
LEMMA TellNothing ==
  ASSUME TypeOK, mailbox # <<>>, Tell(<<>>)
  PROVE  mailbox' \in Seq(Command)
  BY TellType, SmallSeqs

(* Telling one command keeps the mailbox well typed.                        *)
LEMMA TellOne ==
  ASSUME TypeOK, mailbox # <<>>, NEW m \in Command, Tell(<<m>>)
  PROVE  mailbox' \in Seq(Command)
  BY TellType, SmallSeqs

(* So does telling and popping what was set aside, for both queues.         *)
LEMMA TellAndNextType ==
  ASSUME TypeOK, mailbox # <<>>, NEW ms \in Seq(Command), TellAndNext(ms)
  PROVE  mailbox' \in Seq(Command) /\ lag' \in Seq(Command)
<1>1. ms \o Popped \in Seq(Command)
  BY Queues, ConcatProperties
<1>2. Remaining \in Seq(Command)
  BY Queues
<1> QED BY <1>1, <1>2, TellType DEF TellAndNext

(* Popping alone keeps both queues well typed.                              *)
LEMMA NextAfterNothing ==
  ASSUME TypeOK, mailbox # <<>>, TellAndNext(<<>>)
  PROVE  mailbox' \in Seq(Command) /\ lag' \in Seq(Command)
  BY TellAndNextType, SmallSeqs

(* Telling one command and popping keeps both queues well typed.            *)
LEMMA NextAfterOne ==
  ASSUME TypeOK, mailbox # <<>>, NEW m \in Command, TellAndNext(<<m>>)
  PROVE  mailbox' \in Seq(Command) /\ lag' \in Seq(Command)
  BY TellAndNextType, SmallSeqs

(* A request keeps the adapter and the transactions well typed.             *)
LEMMA PipeType ==
  ASSUME TypeOK, NEW request \in Request, NEW a \in Adapter, Pipe(request, a)
  PROVE  adapter' \in Adapter /\ transactions' \in Seq(Transaction)
  BY AppendProperties DEF TypeOK, Pipe, Opened, Transaction

(* So does a request that sets up again, with the mailbox.                  *)
LEMMA PipeAndSetUpType ==
  ASSUME TypeOK, mailbox # <<>>, NEW request \in Request,
         NEW from \in Callers, PipeAndSetUp(request, from)
  PROVE  /\ mailbox' \in Seq(Command)
         /\ adapter' \in Adapter
         /\ transactions' \in Seq(Transaction)
<1>1. mailbox' \in Seq(Command)
  BY TellOne, Commands DEF PipeAndSetUp
<1>2. StartWrapper(from) \in Adapter
  BY DEF StartWrapper, Adapter
<1> QED BY <1>1, <1>2, PipeType DEF PipeAndSetUp

(* The CloseStage is created with the cached row and started with it. *)
CloseStageType ==
  /\ closeStage \in [phase : {"none", "idle"}, row : {Null}]
                       \cup [phase : {"running", "dead"}, row : Row]
  /\ closeStage.phase # "none" => scheduler \in Row

(* What FreshFields sets, typed. *)
FreshType ==
  /\ lag \in Seq(Command) /\ workBox \in Seq(Deliveries)
  /\ failureTracked \in BOOLEAN /\ lastReceived \in BOOLEAN
  /\ passivating \in BOOLEAN /\ stopRequested \in BOOLEAN
  /\ expired \in BOOLEAN /\ timer \in BOOLEAN
  /\ lastIngestionDate \in Dates \cup {Null} /\ scheduler \in Row \cup {Null}
  /\ nodes \in Int /\ maxWorkers \in Int
  /\ CloseStageType
  /\ held \subseteq Deliveries /\ working \subseteq Deliveries
  /\ workStage \in {"running", "dead"}

(* The fields of a fresh incarnation are well typed.                        *)
LEMMA FreshFieldsType ==
  ASSUME FreshFields
  PROVE  FreshType'
<1>1. lag' \in Seq(Command) /\ workBox' \in Seq(Deliveries)
  BY SmallSeqs DEF FreshFields
<1>2. /\ failureTracked' \in BOOLEAN /\ lastReceived' \in BOOLEAN
      /\ passivating' \in BOOLEAN /\ stopRequested' \in BOOLEAN
      /\ expired' \in BOOLEAN /\ timer' \in BOOLEAN
  BY DEF FreshFields
<1>3. /\ lastIngestionDate' \in Dates \cup {Null} /\ scheduler' \in Row \cup {Null}
      /\ nodes' \in Int /\ maxWorkers' \in Int
  BY ConstantsAssumption DEF FreshFields
<1>4. CloseStageType'
  BY DEF FreshFields, CloseStageType
<1>5. /\ held' \subseteq Deliveries /\ working' \subseteq Deliveries
      /\ workStage' \in {"running", "dead"}
  BY DEF FreshFields
<1> QED
  BY <1>1, <1>2, <1>3, <1>4, <1>5 DEF FreshType

(* Stopping and restarting leave a well-typed incarnation behind. *)
LEMMA StopType ==
  ASSUME TypeOK, StopEntity
  PROVE  TypeOK'
<1>1. transactions' \in Seq(Transaction)
  <2>1. \A i \in DOMAIN transactions :
          [transactions[i] EXCEPT !.live = FALSE] \in Transaction
    <3>1. \A i \in DOMAIN transactions : transactions[i] \in Transaction
      BY LenProperties, ElementOfSeq DEF TypeOK
    <3> QED BY <3>1 DEF Transaction
  <2>2. DOMAIN transactions = 1 .. Len(transactions) /\ Len(transactions) \in Nat
    BY LenProperties DEF TypeOK
  <2> DEFINE f == [i \in 1 .. Len(transactions) |->
                     [transactions[i] EXCEPT !.live = FALSE]]
  <2>3. f \in [1 .. Len(transactions) -> Transaction]
    BY <2>1, <2>2
  <2>4. f \in Seq(Transaction)
    BY <2>2, <2>3, IsASeq
  <2> QED BY <2>2, <2>4 DEF StopEntity
<1>2. answers' \in [Requesters -> Seq({"Success", "Failure"})]
  BY AppendProperties DEF TypeOK, StopEntity, Released
<1>3. FreshType'
  BY FreshFieldsType DEF StopEntity
<1>4. mailbox' \in Seq(Command) /\ adapter' \in Adapter
  BY SmallSeqs DEF StopEntity, Adapter, Adapted, Callers
<1>5. /\ behavior' = "stopped" /\ shard' = "active"
      /\ queues' \in {"declared", "deleting", "abandoned", "deleted"}
      /\ UNCHANGED <<row, datasource, sent, indexed>>
  BY DEF StopEntity, TypeOK
<1> QED
  BY <1>1, <1>2, <1>3, <1>4, <1>5 DEF TypeOK, FreshType, CloseStageType

(* What the requesters were answered, typed. *)
AnswersType == answers \in [Requesters -> Seq({"Success", "Failure"})]

(* So does a restart by the supervisor, whatever it answered before.        *)
LEMMA CrashType ==
  ASSUME TypeOK, mailbox # <<>>, NEW ms \in Seq(Command), Crash(ms), AnswersType'
  PROVE  TypeOK'
<1>1. mailbox' \in Seq(Command)
  <2>1. WithoutTick(Tail(mailbox)) \o ms \in Seq(Command)
    BY Queues, ConcatProperties
  <2>2. <<Signal("Setup")>> \in Seq(Command)
    BY Commands, SmallSeqs
  <2> QED BY <2>1, <2>2, ConcatProperties DEF Crash
<1>2. FreshType'
  BY FreshFieldsType DEF Crash
<1>3. UNCHANGED <<adapter, transactions, row, datasource, queues, shard, sent, indexed>>
  BY DEF Crash, requests, outside
<1>4. behavior' = "settingUp"
  BY DEF Crash
<1> QED
  BY <1>1, <1>2, <1>3, <1>4 DEF TypeOK, FreshType, CloseStageType, AnswersType

(* A restart that answered nobody.                                          *)
LEMMA CrashUnanswered ==
  ASSUME TypeOK, mailbox # <<>>, NEW ms \in Seq(Command), Crash(ms), UNCHANGED answers
  PROVE  TypeOK'
<1>1. AnswersType'
  BY DEF TypeOK, AnswersType
<1> QED BY <1>1, CrashType

(* A restart that told nothing.                                             *)
LEMMA CrashAfterNothing ==
  ASSUME TypeOK, mailbox # <<>>, Crash(<<>>), UNCHANGED answers
  PROVE  TypeOK'
  BY CrashUnanswered, SmallSeqs

(* A restart that told one command.                                         *)
LEMMA CrashAfterOne ==
  ASSUME TypeOK, mailbox # <<>>, NEW m \in Command, Crash(<<m>>), UNCHANGED answers
  PROVE  TypeOK'
  BY CrashUnanswered, SmallSeqs

(* Every answer of the WorkStage is handled within the types.               *)
LEMMA WorkStageType ==
  ASSUME TypeOK, OnWorkStageResponse
  PROVE  TypeOK'
<1> USE DEF progress, stopping, cluster, children, work, outside, requests, KeptByWork
<1>0. Incoming \in Command /\ mailbox # <<>> /\ Incoming.kind = "WorkStageResponse"
  BY IncomingType DEF OnWorkStageResponse, OnInvalid, OnWorkHalt, OnLast, OnWorking,
     OnDone, OnFailed, FromWorkStage, Receive
<1>1. Incoming.from \in Deliveries
  BY <1>0 DEF Command, Signals
<1>2. /\ <<>> \in Seq(Command)
      /\ <<TrackDate(Incoming.from)>> \in Seq(Command)
      /\ <<Signal("PersistException")>> \in Seq(Command)
      /\ <<Signal("Halt")>> \in Seq(Command)
  BY <1>1, Commands, SmallSeqs
<1>3. ASSUME NEW v \in {"Success", "Failure"}, answers' = Answered(Incoming.from, v)
      PROVE  AnswersType'
  BY <1>3, AppendProperties DEF TypeOK, Answered, AnswersType
<1>4. ASSUME NEW ms \in Seq(Command), ReadyOrBusy(ms)
      PROVE  /\ mailbox' \in Seq(Command)
             /\ lag' \in Seq(Command)
             /\ behavior' \in {"ready", "busy"}
  BY <1>0, <1>4, TellType, TellAndNextType DEF TypeOK, ReadyOrBusy, TellAndNext
<1>5. /\ held \cup {Incoming.from} \subseteq Deliveries
      /\ WithoutHeld(Incoming.from) \subseteq Deliveries
  BY <1>1 DEF TypeOK, WithoutHeld
<1>6. CASE OnInvalid
  <2>1. AnswersType'
    BY <1>3, <1>6 DEF OnInvalid
  <2>2. mailbox' \in Seq(Command) /\ lag' \in Seq(Command) /\ behavior' \in {"ready", "busy"}
    BY <1>2, <1>4, <1>6 DEF OnInvalid
  <2> QED BY <1>6, <2>1, <2>2 DEF TypeOK, AnswersType, OnInvalid
<1>7. CASE OnWorkHalt
  <2>1. AnswersType'
    BY <1>3, <1>7 DEF OnWorkHalt
  <2>2. mailbox' \in Seq(Command) /\ lag' \in Seq(Command) /\ behavior' \in {"ready", "busy"}
    BY <1>2, <1>4, <1>7 DEF OnWorkHalt
  <2> QED BY <1>7, <2>1, <2>2 DEF TypeOK, AnswersType, OnWorkHalt
<1>8. CASE OnLast
  <2>1. AnswersType'
    BY <1>3, <1>8 DEF OnLast
  <2>2. CASE Crash(<<>>)
    BY <1>0, <1>2, <2>1, <2>2, CrashType
  <2>3. CASE ~Crash(<<>>)
    <3>1. mailbox' \in Seq(Command) /\ lag' \in Seq(Command) /\ behavior' \in {"ready", "busy"}
      BY <1>2, <1>4, <1>8, <2>3 DEF OnLast
    <3>2. lastReceived' \in BOOLEAN
      BY <1>8, <2>3 DEF OnLast
    <3> QED BY <1>8, <2>1, <2>3, <3>1, <3>2 DEF TypeOK, AnswersType, OnLast
  <2> QED BY <2>2, <2>3
<1>9. CASE OnWorking
  <2>1. mailbox' \in Seq(Command) /\ lag' \in Seq(Command) /\ behavior' \in {"ready", "busy"}
    BY <1>2, <1>4, <1>9 DEF OnWorking
  <2>2. held' \subseteq Deliveries
    BY <1>5, <1>9 DEF OnWorking
  <2> QED BY <1>9, <2>1, <2>2 DEF TypeOK, OnWorking
<1>10. CASE OnDone
  <2>1. CASE Crash(<<>>) /\ UNCHANGED answers
    BY <1>0, <2>1, CrashAfterNothing
  <2>2. CASE ~(Crash(<<>>) /\ UNCHANGED answers)
    <3>1. AnswersType'
      BY <1>3, <1>10, <2>2 DEF OnDone
    <3>2. TrackDone(Incoming.from) \in Seq(Command)
      BY <1>2 DEF TrackDone
    <3>3. mailbox' \in Seq(Command)
      BY <1>0, <1>10, <2>2, <3>2, TellType DEF OnDone
    <3>4. held' \subseteq Deliveries
      BY <1>5, <1>10, <2>2 DEF OnDone
    <3> QED BY <1>10, <2>2, <3>1, <3>3, <3>4 DEF TypeOK, AnswersType, OnDone
  <2> QED BY <2>1, <2>2
<1>11. CASE OnFailed
  <2>1. CASE Crash(<<Signal("PersistException")>>) /\ UNCHANGED answers
    BY <1>0, <1>2, <2>1, CrashUnanswered
  <2>2. CASE ~(Crash(<<Signal("PersistException")>>) /\ UNCHANGED answers)
    <3>1. AnswersType'
      BY <1>3, <1>11, <2>2 DEF OnFailed
    <3>2. mailbox' \in Seq(Command) /\ lag' \in Seq(Command) /\ behavior' \in {"ready", "busy"}
      BY <1>2, <1>4, <1>11, <2>2 DEF OnFailed
    <3>3. held' \subseteq Deliveries
      BY <1>5, <1>11, <2>2 DEF OnFailed
    <3> QED BY <1>11, <2>2, <3>1, <3>2, <3>3 DEF TypeOK, AnswersType, OnFailed
  <2> QED BY <2>1, <2>2
<1> QED
  BY <1>6, <1>7, <1>8, <1>9, <1>10, <1>11 DEF OnWorkStageResponse

(* Every handler of the entity keeps the types.                             *)
LEMMA ActorType ==
  ASSUME TypeOK, Actor
  PROVE  TypeOK'
<1> USE Queues, Commands DEF fields, progress, stopping, cluster, children, work, outside,
        requests, ledger, allButMailbox, KeptByWork
<1>1. CASE OnStart
  <2>1. Incoming \in Command /\ mailbox # <<>>
    BY <1>1, IncomingType DEF OnStart, Receive
  <2>2. Incoming.from \in Callers /\ Incoming.ok \in BOOLEAN
    BY <1>1, <2>1 DEF OnStart, Receive, Command, Signals
  <2>4. Callers \subseteq Requesters \cup {Null}
    BY DEF Callers, Requesters
  <2>3. mailbox' \in Seq(Command) /\ lag' \in Seq(Command)
    BY <1>1, <2>1, NextAfterOne DEF OnStart
  <2> QED
    BY <1>1, <2>2, <2>3, <2>4 DEF TypeOK, OnStart, TellAndNext, Answered, Verdict
<1>2. CASE OnStartInternalClock
  <2>1. mailbox # <<>>
    BY <1>2 DEF OnStartInternalClock, Receive
  <2>2. mailbox' \in Seq(Command) /\ lag' \in Seq(Command)
    BY <1>2, <2>1, ConcatProperties DEF OnStartInternalClock
  <2> QED
    BY <1>2, <2>2 DEF TypeOK, OnStartInternalClock
<1>3. CASE OnStopInternalClock
  <2>1. mailbox' \in Seq(Command) /\ timer' \in BOOLEAN
    BY <1>3 DEF OnStopInternalClock, Receive
  <2> QED
    BY <1>3, <2>1 DEF TypeOK, OnStopInternalClock
<1>4. CASE OnStop
  <2>1. CASE StopEntity
    BY <2>1, StopType
  <2>2. CASE ~StopEntity
    <3>1. mailbox' \in Seq(Command)
      BY <1>4, <2>2, TellNothing DEF OnStop, Receive
    <3>2. stopRequested' \in BOOLEAN
      BY <1>4, <2>2 DEF OnStop
    <3> QED
      BY <1>4, <2>2, <3>1, <3>2 DEF TypeOK, OnStop
  <2> QED BY <2>1, <2>2
<1>5. CASE OnClusterEvent
  <2>1. mailbox' \in Seq(Command)
    BY <1>5, TellNothing DEF OnClusterEvent, Receive
  <2>2. nodes' \in Int /\ maxWorkers' \in Int
    BY <1>5, ConstantsAssumption DEF OnClusterEvent, TypeOK
  <2> QED
    BY <1>5, <2>1, <2>2 DEF TypeOK, OnClusterEvent
<1>6. CASE OnUpdateScheduler
  <2>1. Incoming \in Command /\ mailbox # <<>>
    BY <1>6, IncomingType DEF OnUpdateScheduler, Receive
  <2>2. Incoming.row \in Row \cup {Null}
    BY <1>6, <2>1 DEF OnUpdateScheduler, Receive, Command, Signals
  <2>3. Reply(Incoming.row) \in Seq(Command)
    BY DEF Reply, Command
  <2>4. mailbox' \in Seq(Command)
    BY <1>6, <2>1, <2>3, TellType DEF OnUpdateScheduler
  <2>5. scheduler' \in Row \cup {Null}
    BY <1>6, <2>2 DEF OnUpdateScheduler, TypeOK
  <2>6. CloseStageType'
    BY <1>6, <2>2 DEF OnUpdateScheduler, TypeOK, CloseStageType
  <2> QED
    BY <1>6, <2>4, <2>5, <2>6 DEF TypeOK, CloseStageType, OnUpdateScheduler
<1>7. CASE OnSetup
  <2>1. /\ mailbox' \in Seq(Command)
        /\ adapter' \in Adapter
        /\ transactions' \in Seq(Transaction)
    BY <1>7, PipeAndSetUpType DEF OnSetup, Receive, Request, Callers
  <2> QED
    BY <1>7, <2>1 DEF TypeOK, OnSetup, PipeAndSetUp
<1>8. CASE OnWakeUp
  BY <1>8, TellNothing DEF TypeOK, OnWakeUp, OnlyTell, Receive
<1>9. CASE OnTick
  <2>1. CASE StopEntity
    BY <2>1, StopType
  <2>2. CASE Crash(<<>>) /\ UNCHANGED answers
    BY <1>9, <2>2, CrashAfterNothing DEF OnTick, Receive
  <2>3. CASE Passivate
    <3>1. mailbox' \in Seq(Command)
      BY <1>9, <2>3, TellNothing DEF OnTick, Receive, Passivate
    <3> QED BY <2>3, <3>1 DEF TypeOK, Passivate
  <2>4. CASE OnlyTell(TickMessages)
    <3>1. TickMessages \in Seq(Command)
      BY DEF TickMessages, Status, Signals, Callers
    <3> QED BY <1>9, <2>4, <3>1, TellType DEF TypeOK, OnlyTell, OnTick, Receive
  <2> QED
    BY <1>9, <2>1, <2>2, <2>3, <2>4 DEF OnTick
<1>10. CASE OnTrackDate
  <2>1. Incoming \in Command /\ mailbox # <<>>
    BY <1>10, IncomingType DEF OnTrackDate, Receive
  <2>2. Incoming.date \in Dates
    BY <1>10, <2>1 DEF OnTrackDate, Receive, Command, Signals
  <2>3. CASE PipeAndSetUp([op |-> "date", date |-> Incoming.date], Null)
    <3>1. /\ mailbox' \in Seq(Command)
          /\ adapter' \in Adapter
          /\ transactions' \in Seq(Transaction)
      BY <2>1, <2>2, <2>3, PipeAndSetUpType DEF Request, Callers
    <3> QED BY <1>10, <2>2, <2>3, <3>1 DEF TypeOK, OnTrackDate, PipeAndSetUp
  <2>4. CASE TellAndNext(<<>>) /\ UNCHANGED requests
    <3>1. mailbox' \in Seq(Command) /\ lag' \in Seq(Command)
      BY <2>1, <2>4, NextAfterNothing
    <3> QED BY <1>10, <2>2, <2>4, <3>1 DEF TypeOK, OnTrackDate, TellAndNext
  <2> QED BY <1>10, <2>3, <2>4 DEF OnTrackDate
<1>11. CASE OnUpdateStatus
  <2>1. Incoming \in Command /\ mailbox # <<>>
    BY <1>11, IncomingType DEF OnUpdateStatus, Receive
  <2>2. Incoming.status \in Status /\ Incoming.from \in Callers
    BY <1>11, <2>1 DEF OnUpdateStatus, Receive, Command, Signals
  <2>3. /\ mailbox' \in Seq(Command)
        /\ adapter' \in Adapter
        /\ transactions' \in Seq(Transaction)
    BY <1>11, <2>1, <2>2, PipeAndSetUpType DEF OnUpdateStatus, PersistStatus, Request
  <2> QED
    BY <1>11, <2>3 DEF TypeOK, OnUpdateStatus, PipeAndSetUp
<1>12. CASE OnClose
  <2>1. CASE Crash(<<Signal("StopInternalClock")>>) /\ UNCHANGED answers
    BY <1>12, <2>1, CrashAfterOne DEF OnClose, Receive
  <2>2. CASE ~(Crash(<<Signal("StopInternalClock")>>) /\ UNCHANGED answers)
    <3>1. mailbox' \in Seq(Command)
      BY <1>12, <2>2, TellOne DEF OnClose, Receive
    <3>2. CloseStageType'
      BY <1>12, <2>2 DEF TypeOK, OnClose, CloseStageType
    <3> QED BY <1>12, <2>2, <3>1, <3>2 DEF TypeOK, CloseStageType, OnClose
  <2> QED BY <2>1, <2>2
<1>13. CASE OnHalt
  <2>1. mailbox' \in Seq(Command)
    BY <1>13, TellNothing DEF OnHalt, Receive
  <2>2. adapter' \in Adapter /\ transactions' \in Seq(Transaction)
    BY <1>13, PipeType DEF OnHalt, Request, Adapter, Adapted, Callers
  <2> QED BY <1>13, <2>1, <2>2 DEF TypeOK, OnHalt
<1>14. CASE OnPersistException
  <2>1. mailbox' \in Seq(Command)
    BY <1>14, TellNothing DEF OnPersistException, Receive
  <2>2. adapter' \in Adapter /\ transactions' \in Seq(Transaction)
    BY <1>14, PipeType DEF TypeOK, OnPersistException, Request, Adapter, Adapted, Callers
  <2> QED BY <1>14, <2>1, <2>2 DEF TypeOK, OnPersistException
<1>15. CASE OnTrackFailure
  <2>1. Incoming \in Command /\ mailbox # <<>>
    BY <1>15, IncomingType DEF OnTrackFailure, Receive
  <2>2. Incoming.ok \in BOOLEAN
    BY <1>15, <2>1 DEF OnTrackFailure, Receive, Command, Signals
  <2>3. mailbox' \in Seq(Command) /\ lag' \in Seq(Command)
    BY <1>15, <2>1, NextAfterNothing DEF OnTrackFailure
  <2>4. failureTracked' \in BOOLEAN
    BY <1>15 DEF OnTrackFailure
  <2> QED BY <1>15, <2>3, <2>4 DEF TypeOK, OnTrackFailure, TellAndNext
<1>16. CASE OnGracefulEnd
  <2>1. Incoming \in Command /\ mailbox # <<>>
    BY <1>16, IncomingType DEF OnGracefulEnd, Receive
  <2>2. Incoming.status \in Status
    BY <1>16, <2>1 DEF OnGracefulEnd, Receive, Command, Signals
  <2>3. mailbox' \in Seq(Command)
    BY <1>16, <2>1, TellNothing DEF OnGracefulEnd
  <2>4. adapter' \in Adapter /\ transactions' \in Seq(Transaction)
    BY <1>16, <2>2, PipeType DEF OnGracefulEnd, PersistStatus, Request, Adapter, Adapted, Callers
  <2> QED BY <1>16, <2>3, <2>4 DEF TypeOK, OnGracefulEnd
<1>17. CASE OnWorkStageResponse
  BY <1>17, WorkStageType
<1>18. CASE OnIngest
  <2>1. Incoming \in Command /\ mailbox # <<>>
    BY <1>18, IncomingType DEF OnIngest, Receive
  <2>2. CASE Crash(<<>>) /\ UNCHANGED answers
    BY <2>1, <2>2, CrashAfterNothing
  <2>3. CASE ~Crash(<<>>)
    <3>1. mailbox' \in Seq(Command)
      BY <1>18, <2>1, <2>3, TellNothing DEF OnIngest
    <3>2. Incoming.from \in Deliveries
      BY <1>18, <2>1 DEF OnIngest, Receive, Command, Signals
    <3>3. workBox' = Append(workBox, Incoming.from) \/ workBox' = workBox
      BY <1>18, <2>3 DEF OnIngest
    <3>4. workBox' \in Seq(Deliveries)
      <4>1. workBox \in Seq(Deliveries)
        BY DEF TypeOK
      <4>2. Append(workBox, Incoming.from) \in Seq(Deliveries)
        BY <3>2, <4>1, AppendProperties
      <4> QED BY <3>3, <4>1, <4>2
    <3>5. expired' \in BOOLEAN
      BY <1>18, <2>3 DEF OnIngest
    <3> QED BY <1>18, <2>3, <3>1, <3>4, <3>5 DEF TypeOK, OnIngest
  <2> QED BY <1>18, <2>2, <2>3 DEF OnIngest
<1>19. CASE OnTrackError
  <2>1. Incoming \in Command /\ mailbox # <<>>
    BY <1>19, IncomingType DEF OnTrackError, Receive
  <2>2. Incoming.from \in Requesters \cap Callers
    BY <1>19, <2>1 DEF OnTrackError, Receive, Command, Signals, Requesters, Callers
  <2>3. CASE Crash(<<>>) /\ UNCHANGED answers
    BY <2>1, <2>3, CrashAfterNothing
  <2>4. CASE TellAndNext(<<>>) /\ answers' = Answered(Incoming.from, "Success")
               /\ UNCHANGED <<fields, children, outside, requests, indexed>>
    <3>1. mailbox' \in Seq(Command) /\ lag' \in Seq(Command)
      BY <2>1, <2>4, NextAfterNothing
    <3> QED BY <2>2, <2>4, <3>1 DEF TypeOK, TellAndNext, Answered
  <2>5. CASE PipeAndSetUp([op |-> "append"], Incoming.from)
               /\ UNCHANGED <<fields, children, outside, ledger>>
    <3>1. /\ mailbox' \in Seq(Command)
          /\ adapter' \in Adapter
          /\ transactions' \in Seq(Transaction)
      BY <2>1, <2>2, <2>5, PipeAndSetUpType DEF Request, Callers
    <3> QED BY <2>5, <3>1 DEF TypeOK, PipeAndSetUp
  <2> QED BY <1>19, <2>3, <2>4, <2>5 DEF OnTrackError
<1>20. CASE OnRestart
  <2>1. Incoming \in Command /\ mailbox # <<>>
    BY <1>20, IncomingType DEF OnRestart, Receive
  <2>2. Incoming.from \in Callers
    BY <1>20, <2>1 DEF OnRestart, Receive, Command, Signals, Callers
  <2>3. mailbox' \in Seq(Command) /\ lag' \in Seq(Command)
    <3>1. UpdateStatus("RUNNING", Incoming.from) \in Command
      BY <2>2 DEF Status
    <3> QED BY <1>20, <2>1, <3>1, NextAfterOne DEF OnRestart
  <2>4. failureTracked' \in BOOLEAN /\ expired' \in BOOLEAN
    BY <1>20 DEF OnRestart
  <2> QED BY <1>20, <2>3, <2>4 DEF TypeOK, OnRestart, TellAndNext
<1>21. CASE OnCloseStageResponse
  <2>1. Incoming \in Command /\ mailbox # <<>>
    BY <1>21, IncomingType DEF OnCloseStageResponse, Receive
  <2>2. Incoming.status \in Status
    BY <1>21, <2>1 DEF OnCloseStageResponse, Receive, Command, Signals
  <2> QED BY <1>21, <2>1, <2>2, TellOne DEF TypeOK, OnCloseStageResponse, OnlyTell
<1>22. CASE OnDestroyQueue
  <2>1. mailbox' \in Seq(Command)
    BY <1>22, TellNothing, TellOne DEF OnDestroyQueue, Receive
  <2> QED BY <1>22, <2>1 DEF TypeOK, OnDestroyQueue
<1>23. CASE OnDestroyQueueResult
  BY <1>23, TellOne DEF TypeOK, OnDestroyQueueResult, OnlyTell, Receive
<1>24. CASE OnEnqueue
  <2>1. Incoming \in Command /\ mailbox # <<>>
    BY <1>24, IncomingType DEF OnEnqueue, Unhandled
  <2>2. mailbox' \in Seq(Command)
    BY <1>24, <2>1, TellNothing DEF OnEnqueue
  <2> QED BY <1>24, <2>1, <2>2, AppendProperties DEF TypeOK, OnEnqueue
<1>25. CASE OnDiscard
  BY <1>25, TellNothing DEF TypeOK, OnDiscard, OnlyTell, Unhandled
<1> QED
  BY <1>1, <1>2, <1>3, <1>4, <1>5, <1>6, <1>7, <1>8, <1>9, <1>10, <1>11, <1>12, <1>13,
     <1>14, <1>15, <1>16, <1>17, <1>18, <1>19, <1>20, <1>21, <1>22, <1>23, <1>24, <1>25
  DEF Actor

(* What someone else puts in the mailbox keeps it well typed.               *)
LEMMA ArrivesType ==
  ASSUME TypeOK, NEW m \in Command, Arrives(m)
  PROVE  mailbox' \in Seq(Command)
  BY AppendProperties DEF TypeOK, Arrives

(* The parts of a transaction in flight.                                    *)
LEMMA TransactionAt ==
  ASSUME TypeOK, NEW i \in DOMAIN transactions
  PROVE  /\ transactions[i] \in Transaction
         /\ transactions[i].request \in Request
         /\ transactions[i].read \in Row \cup {Null}
         /\ transactions[i].live \in BOOLEAN
<1>1. transactions[i] \in Transaction
  BY ElementOfSeq, LenProperties DEF TypeOK
<1> QED BY <1>1 DEF Transaction

(* What a transaction writes is a row.                                      *)
LEMMA WrittenType ==
  ASSUME NEW request \in Request, NEW read \in Row
  PROVE  Written(request, read) \in Row
<1>1. CASE request.op = "status"
  <2>1. request.status \in Status
    BY <1>1 DEF Request
  <2> QED BY <1>1, <2>1 DEF Written, Row
<1>2. CASE request.op = "date"
  <2>1. request.date \in Dates \cup {Null}
    BY <1>2 DEF Request
  <2> QED BY <1>2, <2>1 DEF Written, Row
<1>3. CASE request.op \notin {"status", "date"}
  BY <1>3 DEF Written
<1> QED BY <1>1, <1>2, <1>3

(* What a request that failed leaves: its transaction is gone, or goes on.   *)
Left(i) ==
  {RemoveAt(transactions, i), [transactions EXCEPT ![i] = Outlived(transactions[i])]}

LEMMA LeftType ==
  ASSUME TypeOK, NEW i \in DOMAIN transactions
  PROVE  /\ Outlived(transactions[i]) \in Transaction
         /\ Left(i) \subseteq Seq(Transaction)
<1> PICK t : t = transactions[i]
  OBVIOUS
<1>1. t \in Transaction /\ transactions \in Seq(Transaction)
  BY TransactionAt DEF TypeOK
<1>2. Outlived(t) \in Transaction
  <2>1. [op |-> "describe"] \in Request
    BY DEF Request
  <2> QED BY <1>1, <2>1 DEF Outlived, Transaction
<1>3. [transactions EXCEPT ![i] = Outlived(t)] \in Seq(Transaction)
  BY <1>1, <1>2, ExceptSeq
<1> QED BY <1>1, <1>2, <1>3, RemoveAtSeq DEF Left

LEMMA FailConcludes ==
  ASSUME NEW i \in DOMAIN transactions, FailTransaction(i)
  PROVE  \E left \in Left(i) : Conclude(transactions[i], left, Null)
  BY DEF FailTransaction, Left

(* The end of a request keeps the mailbox and the transactions well typed.   *)
LEMMA ConcludeType ==
  ASSUME TypeOK, NEW t \in Transaction, NEW left \in Seq(Transaction),
         NEW result \in Row \cup {Null}, Conclude(t, left, result)
  PROVE  mailbox' \in Seq(Command) /\ transactions' \in Seq(Transaction)
<1>2. Opened(PersistStatus("ERROR"), t.live) \in Transaction
  <2>1. PersistStatus("ERROR") \in Request
    BY DEF PersistStatus, Request, Status
  <2> QED BY <2>1 DEF Opened, Transaction
<1>3. transactions' \in Seq(Transaction)
  BY <1>2, AppendProperties DEF Conclude
<1>4. [kind |-> "UpdateScheduler", row |-> result] \in Command
  BY DEF Command
<1>5. mailbox' \in Seq(Command)
  BY <1>4, ArrivesType DEF TypeOK, Conclude
<1> QED BY <1>3, <1>5

(* SchedulingService keeps the types.                                       *)
LEMMA DatabaseType ==
  ASSUME TypeOK, Database
  PROVE  TypeOK'
<1> USE DEF fields, progress, stopping, cluster, children, work, outside, ledger
<1>1. PICK i \in DOMAIN transactions :
        BeginTransaction(i) \/ CommitTransaction(i) \/ FailTransaction(i)
  BY DEF Database
<1>2. CASE BeginTransaction(i)
  <2>1. [transactions[i] EXCEPT !.read = row] \in Transaction
    BY TransactionAt DEF TypeOK, Transaction
  <2>2. transactions' \in Seq(Transaction)
    BY <1>2, <2>1, ExceptSeq DEF TypeOK, BeginTransaction
  <2> QED BY <1>2, <2>2 DEF TypeOK, BeginTransaction
<1>3. CASE CommitTransaction(i)
  <2> DEFINE result == Written(transactions[i].request, transactions[i].read)
  <2>1. result \in Row
    BY <1>3, TransactionAt, WrittenType DEF CommitTransaction
  <2>2. mailbox' \in Seq(Command) /\ transactions' \in Seq(Transaction)
    BY <1>3, <2>1, TransactionAt, LeftType, ConcludeType DEF CommitTransaction, Left
  <2>3. row' \in Row
    BY <1>3, <2>1 DEF TypeOK, CommitTransaction
  <2> QED BY <1>3, <2>2, <2>3 DEF TypeOK, CommitTransaction
<1>4. CASE FailTransaction(i)
  <2>1. mailbox' \in Seq(Command) /\ transactions' \in Seq(Transaction)
    BY <1>4, FailConcludes, TransactionAt, LeftType, ConcludeType
  <2>2. sent' \subseteq Requesters \cup ExternalEvents
    BY <1>4, ConstantsAssumption DEF TypeOK, FailTransaction, Happens
  <2> QED BY <1>4, <2>1, <2>2 DEF TypeOK, FailTransaction
<1> QED BY <1>1, <1>2, <1>3, <1>4

(* The database answers the entity, or nobody.                              *)
LEMMA DatabaseTells ==
  ASSUME TypeOK, Database
  PROVE  \/ UNCHANGED mailbox
         \/ \E result \in Row \cup {Null} :
              Arrives([kind |-> "UpdateScheduler", row |-> result])
<1>1. PICK i \in DOMAIN transactions :
        BeginTransaction(i) \/ CommitTransaction(i) \/ FailTransaction(i)
  BY DEF Database
<1>2. CASE BeginTransaction(i)
  BY <1>2 DEF BeginTransaction
<1>3. CASE CommitTransaction(i)
  <2>1. Written(transactions[i].request, transactions[i].read) \in Row
    BY <1>3, TransactionAt, WrittenType DEF CommitTransaction
  <2> QED BY <1>3, <2>1 DEF CommitTransaction, Conclude
<1>4. CASE FailTransaction(i)
  BY <1>4, FailConcludes DEF Conclude
<1> QED BY <1>1, <1>2, <1>3, <1>4

(* WorkStage and CloseStage keep the types.                                 *)
LEMMA ChildrenType ==
  ASSUME TypeOK, Children
  PROVE  TypeOK'
<1> USE DEF fields, progress, stopping, cluster, work, outside, requests, ledger
<1>1. ASSUME NEW o \in Outcomes, NEW d \in Deliveries, Respond(o, d)
      PROVE  mailbox' \in Seq(Command)
  <2>1. [kind |-> "WorkStageResponse", outcome |-> o, from |-> d] \in Command
    BY DEF Command
  <2> QED BY <1>1, <2>1, ArrivesType DEF Respond
<1>2. CASE StartWorker
  <2>1. Head(workBox) \in Deliveries /\ Tail(workBox) \in Seq(Deliveries)
    BY <1>2, HeadTailProperties DEF TypeOK, StartWorker
  <2>2. mailbox' \in Seq(Command)
    BY <1>1, <1>2, <2>1 DEF StartWorker, Outcomes
  <2>3. working' \subseteq Deliveries
    BY <1>2, <2>1 DEF TypeOK, StartWorker
  <2> QED BY <1>2, <2>1, <2>2, <2>3 DEF TypeOK, StartWorker
<1>3. ASSUME NEW d \in working, FinishWork(d)
      PROVE  TypeOK'
  <2>1. d \in Deliveries
    BY DEF TypeOK
  <2>2. mailbox' \in Seq(Command)
    BY <1>1, <1>3, <2>1 DEF FinishWork, Outcomes
  <2>3. working' \subseteq Deliveries /\ indexed' \subseteq Deliveries
    BY <1>3, <2>1 DEF TypeOK, FinishWork
  <2> QED BY <1>3, <2>2, <2>3 DEF TypeOK, FinishWork
<1>4. CASE CloseStageReplies
  <2>1. closeStage.row \in Row
    BY <1>4 DEF TypeOK, CloseStageReplies
  <2>2. [kind |-> "CloseStageResponse", status |-> ClosingStatus(closeStage.row)] \in Command
    BY DEF Command, ClosingStatus, Status
  <2>3. mailbox' \in Seq(Command)
    BY <1>4, <2>2, ArrivesType DEF CloseStageReplies
  <2>4. CloseStageType'
    BY <1>4, <2>1 DEF TypeOK, CloseStageType, CloseStageReplies
  <2>5. datasource' \in Dates \cup {Null}
    BY <1>4, <2>1 DEF TypeOK, CloseStageReplies, Row
  <2> QED BY <1>4, <2>3, <2>4, <2>5 DEF TypeOK, CloseStageType, CloseStageReplies
<1> QED BY <1>2, <1>3, <1>4 DEF Children

(* A message delivered through the shard keeps the types.                   *)
LEMMA DeliverType ==
  ASSUME TypeOK, NEW m \in Command, Deliver(m), sent' \subseteq Requesters \cup ExternalEvents
  PROVE  TypeOK'
<1> USE DEF fields, progress, stopping, cluster, children, work, requests, ledger
<1>1. <<Signal("Setup"), m>> \in Seq(Command)
  BY Commands
<1>2. mailbox' \in Seq(Command)
  BY <1>1, ArrivesType DEF Deliver
<1> QED BY <1>2 DEF TypeOK, Deliver

(* The consumers, the gateway, the schedulers and the cluster keep the types. *)
LEMMA EnvironmentType ==
  ASSUME TypeOK, Environment
  PROVE  TypeOK'
<1>1. ASSUME NEW event, Happens(event)
      PROVE  sent' \subseteq Requesters \cup ExternalEvents
  BY <1>1, ConstantsAssumption DEF TypeOK, Happens
<1>2. ASSUME NEW kind, NEW from \in Requesters, Ask(kind, from),
             [kind |-> kind, from |-> from] \in Command
      PROVE  TypeOK'
  <2>1. sent' \subseteq Requesters \cup ExternalEvents
    BY <1>2 DEF TypeOK, Ask
  <2> QED BY <1>2, <2>1, DeliverType DEF Ask
<1>3. ASSUME NEW d \in Deliveries, SendIngest(d)
      PROVE  TypeOK'
  <2>1. [kind |-> "Ingest", from |-> d] \in Command /\ d \in Requesters
    BY DEF Command, Requesters
  <2> QED BY <1>2, <1>3, <2>1 DEF SendIngest
<1>4. ASSUME NEW c \in TrackErrors, SendTrackError(c)
      PROVE  TypeOK'
  <2>1. [kind |-> "TrackError", from |-> c] \in Command /\ c \in Requesters
    BY DEF Command, Requesters
  <2> QED BY <1>2, <1>4, <2>1 DEF SendTrackError
<1>5. ASSUME NEW c \in Restarts, SendRestart(c)
      PROVE  TypeOK'
  <2>1. [kind |-> "Restart", from |-> c] \in Command /\ c \in Requesters
    BY DEF Command, Requesters
  <2> QED BY <1>2, <1>5, <2>1 DEF SendRestart
<1>6. ASSUME NEW event, NEW m \in Command, Happens(event), Deliver(m)
      PROVE  TypeOK'
  BY <1>1, <1>6, DeliverType
<1>7. CASE SendWakeUp \/ SendHalt \/ CancelScheduling \/ CloseScheduling
  <2>1. GracefulEnd("CANCELLED") \in Command
    BY Commands DEF Status
  <2> QED
    BY <1>6, <1>7, <2>1, Commands DEF SendWakeUp, SendHalt, CancelScheduling, CloseScheduling
<1>8. CASE Expire
  <2>1. sent' \subseteq Requesters \cup ExternalEvents
    BY <1>1, <1>8 DEF Expire
  <2>2. expired' \in BOOLEAN
    BY <1>8 DEF Expire
  <2> QED
    BY <1>8, <2>1, <2>2
    DEF TypeOK, Expire, progress, stopping, cluster, children, work, requests, ledger
<1>9. CASE MemberEvent
  <2>1. mailbox' \in Seq(Command)
    BY <1>9, Commands, ArrivesType DEF MemberEvent, Signals
  <2> QED
    BY <1>9, <2>1 DEF TypeOK, MemberEvent, allButMailbox, fields, progress, stopping,
       cluster, children, work, outside, requests, ledger
<1>10. CASE FailWorkStage
  <2>1. sent' \subseteq Requesters \cup ExternalEvents
    BY <1>1, <1>10 DEF FailWorkStage
  <2>2. <<>> \in Seq(Deliveries)
    BY EmptySeq
  <2> QED
    BY <1>10, <2>1, <2>2
    DEF TypeOK, FailWorkStage, fields, progress, stopping, cluster, requests, ledger
<1> QED
  BY <1>3, <1>4, <1>5, <1>7, <1>8, <1>9, <1>10 DEF Environment

(* The queue manager, the shard and the timer keep the types.               *)
LEMMA SurroundingsType ==
  ASSUME TypeOK, DeleteQueues \/ ShardStops \/ TimerFires
  PROVE  TypeOK'
<1> USE DEF fields, progress, stopping, cluster, children, work, requests, ledger
<1>0. [kind |-> "TimerTick"] \in Command /\ Signal("DestroyQueueResult") \in Command
  BY DEF Command, Signals, Signal
<1>1. CASE DeleteQueues
  <2>1. mailbox' \in Seq(Command)
    BY <1>0, <1>1, ArrivesType DEF TypeOK, DeleteQueues
  <2>2. queues' \in {"declared", "deleting", "abandoned", "deleted"}
    BY <1>1 DEF DeleteQueues
  <2> QED BY <1>1, <2>1, <2>2 DEF TypeOK, DeleteQueues
<1>2. CASE ShardStops
  <2>1. mailbox' \in Seq(Command)
    BY <1>2, Commands, ArrivesType DEF ShardStops
  <2>2. sent' \subseteq Requesters \cup ExternalEvents
    BY <1>2, ConstantsAssumption DEF TypeOK, ShardStops, Happens
  <2> QED BY <1>2, <2>1, <2>2 DEF TypeOK, ShardStops
<1>3. CASE TimerFires
  <2>1. mailbox' \in Seq(Command)
    BY <1>0, <1>3, ArrivesType DEF TimerFires, Signal
  <2> QED BY <1>3, <2>1 DEF TypeOK, TimerFires, allButMailbox, outside
<1> QED BY <1>1, <1>2, <1>3

(* The initial state is well typed.                                         *)
LEMMA InitType == Init => TypeOK
<1> SUFFICES ASSUME Init PROVE TypeOK
  OBVIOUS
<1>1. mailbox \in Seq(Command) /\ transactions \in Seq(Transaction)
  BY SmallSeqs DEF Init
<1>2. lag \in Seq(Command) /\ workBox \in Seq(Deliveries)
  BY SmallSeqs DEF Init
<1>3. answers \in [Requesters -> Seq({"Success", "Failure"})]
  BY SmallSeqs DEF Init
<1>4. /\ adapter \in Adapter
      /\ row \in Row
      /\ CloseStageType
  BY DEF Init, Adapter, Adapted, Callers, Row, Status, CloseStageType
<1>5. nodes \in Int /\ maxWorkers \in Int
  BY ConstantsAssumption DEF Init
<1>6. /\ failureTracked \in BOOLEAN /\ lastReceived \in BOOLEAN
      /\ passivating \in BOOLEAN /\ stopRequested \in BOOLEAN
      /\ expired \in BOOLEAN /\ timer \in BOOLEAN
  BY DEF Init
<1> QED
  BY <1>1, <1>2, <1>3, <1>4, <1>5, <1>6 DEF Init, TypeOK, CloseStageType

(* No step takes a variable out of its type. *)
LEMMA Steps == TypeOK /\ [Next]_vars => TypeOK'
<1> SUFFICES ASSUME TypeOK, [Next]_vars PROVE TypeOK'
  OBVIOUS
<1>1. CASE UNCHANGED vars
  BY <1>1 DEF TypeOK, vars, allButMailbox, fields, progress, stopping, cluster, children, work,
     outside, requests, ledger
<1> QED
  BY <1>1, ActorType, DatabaseType, ChildrenType, SurroundingsType, EnvironmentType DEF Next

(* Every variable keeps its type in every reachable state. *)
THEOREM Typing == Spec => []TypeOK
  BY Steps, InitType, PTL DEF Spec

-----------------------------------------------------------------------------
(* The responses of the WorkStage that are under way tell the truth: Done is *)
(* about a document that was indexed, Last and Halt are not about documents. *)
SoundCommand ==
  { m \in Command :
      m.kind = "WorkStageResponse" =>
        /\ m.outcome = "Done" => m.from \in indexed
        /\ m.outcome \in {"Last", "Halt"} => PayloadType[m.from] # "DOCUMENT" }

SoundQueues == mailbox \in Seq(SoundCommand) /\ lag \in Seq(SoundCommand)

Soundness == TypeOK /\ SoundQueues /\ SuccessMeansIndexed

(* Any command but a response of the WorkStage is sound.                    *)
LEMMA OtherCommands ==
  /\ SoundCommand \subseteq Command
  /\ \A m \in Command : m.kind # "WorkStageResponse" => m \in SoundCommand
  BY DEF SoundCommand

(* What the handlers tell is sound.                                         *)
LEMMA SoundSignals ==
  /\ \A k \in Signals : Signal(k) \in SoundCommand
  /\ Signal("PersistException") \in SoundCommand /\ Signal("Halt") \in SoundCommand
  /\ Signal("StopInternalClock") \in SoundCommand
  /\ Signal("StartInternalClock") \in SoundCommand
  /\ Signal("Setup") \in SoundCommand /\ Signal("Stop") \in SoundCommand
  /\ Signal("VoidTick") \in SoundCommand
  /\ Signal("Close") \in SoundCommand /\ Signal("WakeUp") \in SoundCommand
  /\ \A d \in Deliveries : TrackDate(d) \in SoundCommand
  /\ \A s \in Status : GracefulEnd(s) \in SoundCommand
  /\ \A s \in Status, f \in Callers : UpdateStatus(s, f) \in SoundCommand
<1>1. Signal("VoidTick") \in Command
  BY Commands DEF Signals
<1> QED
  BY <1>1, Commands, OtherCommands DEF Signal, Signals, TrackDate, GracefulEnd, UpdateStatus

(* Voiding ticks keeps a queue sound.                                       *)
LEMMA VoidSound ==
  ASSUME NEW q \in Seq(SoundCommand)
  PROVE  WithoutTick(q) \in Seq(SoundCommand)
<1>1. \A i \in DOMAIN q : q[i] \in SoundCommand
  BY ElementOfSeq, LenProperties
<1>2. WithoutTick(q) \in [1 .. Len(q) -> SoundCommand]
  BY <1>1, SoundSignals, LenProperties DEF WithoutTick
<1> QED BY <1>2, LenProperties, IsASeq

(* The message a behavior is given is sound.                                *)
LEMMA IncomingSound ==
  ASSUME TypeOK, SoundQueues, mailbox # <<>>
  PROVE  Incoming \in SoundCommand
<1>1. Incoming \in Command
  BY IncomingType
<1>2. Head(mailbox) \in SoundCommand
  BY HeadTailProperties DEF SoundQueues
<1>3. Incoming = Head(mailbox) \/ Incoming.kind # "WorkStageResponse"
  BY DEF Incoming, Adapt, Signal, GracefulEnd
<1> QED BY <1>1, <1>2, <1>3, OtherCommands

(* What is popped and what is left of the two queues is sound.              *)
LEMMA SoundParts ==
  ASSUME SoundQueues
  PROVE  /\ Popped \in Seq(SoundCommand) /\ Remaining \in Seq(SoundCommand)
         /\ mailbox # <<>> => Tail(mailbox) \in Seq(SoundCommand)
         /\ mailbox # <<>> => WithoutTick(Tail(mailbox)) \in Seq(SoundCommand)
<1>1. lag \in Seq(SoundCommand) /\ mailbox \in Seq(SoundCommand)
  BY DEF SoundQueues
<1>2. lag # <<>> => Head(lag) \in SoundCommand /\ Tail(lag) \in Seq(SoundCommand)
  BY <1>1, HeadTailProperties
<1>3. mailbox # <<>> => Tail(mailbox) \in Seq(SoundCommand)
  BY <1>1, HeadTailProperties
<1>4. Popped \in Seq(SoundCommand)
  BY <1>2, SmallSeqs DEF Popped
<1>5. Remaining \in Seq(SoundCommand)
  BY <1>1, <1>2 DEF Remaining
<1> QED BY <1>3, <1>4, <1>5, VoidSound

(* The queues stay sound under every way a handler changes them. *)
LEMMA TellSound ==
  ASSUME SoundQueues, mailbox # <<>>, NEW ms \in Seq(SoundCommand), Tell(ms)
  PROVE  mailbox' \in Seq(SoundCommand)
  BY TailConcat DEF SoundQueues, Tell

(* Telling and popping keeps both queues sound.                             *)
LEMMA TellAndNextSound ==
  ASSUME SoundQueues, mailbox # <<>>, NEW ms \in Seq(SoundCommand), TellAndNext(ms)
  PROVE  mailbox' \in Seq(SoundCommand) /\ lag' \in Seq(SoundCommand)
<1>1. ms \o Popped \in Seq(SoundCommand) /\ Remaining \in Seq(SoundCommand)
  BY SoundParts, ConcatProperties
<1> QED BY <1>1, TellSound DEF TellAndNext

(* A restart keeps the mailbox sound and empties the lag.                   *)
LEMMA CrashSound ==
  ASSUME SoundQueues, mailbox # <<>>, NEW ms \in Seq(SoundCommand), Crash(ms)
  PROVE  mailbox' \in Seq(SoundCommand) /\ lag' \in Seq(SoundCommand)
<1>1. WithoutTick(Tail(mailbox)) \o ms \in Seq(SoundCommand)
  BY SoundParts, ConcatProperties
<1>2. <<Signal("Setup")>> \in Seq(SoundCommand)
  BY SoundSignals, SmallSeqs
<1>3. mailbox' \in Seq(SoundCommand)
  BY <1>1, <1>2, ConcatProperties DEF Crash
<1> QED BY <1>3, SmallSeqs DEF Crash, FreshFields

(* A stop empties both.                                                     *)
LEMMA StopSound ==
  ASSUME StopEntity
  PROVE  mailbox' \in Seq(SoundCommand) /\ lag' \in Seq(SoundCommand)
  BY SmallSeqs DEF StopEntity, FreshFields

(* The queues stay sound while indexed grows. *)
LEMMA SoundGrows ==
  ASSUME indexed \subseteq indexed',
         mailbox' \in Seq(SoundCommand), lag' \in Seq(SoundCommand)
  PROVE  SoundQueues'
<1>1. SoundCommand \subseteq SoundCommand'
  BY DEF SoundCommand
<1>2. Seq(SoundCommand) \subseteq Seq(SoundCommand')
  BY <1>1
<1> QED BY <1>2 DEF SoundQueues, SoundCommand

(* An answer that is not a Success for a document keeps the answers true. *)
LEMMA TrueAnswer ==
  ASSUME TypeOK, SuccessMeansIndexed, UNCHANGED indexed,
         NEW from \in Requesters \cup {Null}, NEW v \in {"Success", "Failure"},
         v = "Success" /\ from \in Deliveries /\ PayloadType[from] = "DOCUMENT"
           => from \in indexed,
         answers' = Answered(from, v)
  PROVE  SuccessMeansIndexed'
<1> SUFFICES ASSUME NEW d \in Deliveries, PayloadType[d] = "DOCUMENT", Confirmed(d)'
             PROVE  d \in indexed
  BY DEF SuccessMeansIndexed
<1>1. /\ answers \in [Requesters -> Seq({"Success", "Failure"})]
      /\ d \in Requesters
  BY DEF TypeOK, Requesters
<1>2. CASE from # d \/ from = Null
  <2>1. answers'[d] = answers[d]
    BY <1>1, <1>2, ConstantsAssumption DEF Answered
  <2> QED BY <2>1 DEF Confirmed, SuccessMeansIndexed
<1>3. CASE from = d /\ from # Null
  <2>1. answers'[d] = Append(answers[d], v)
    BY <1>1, <1>3 DEF Answered
  <2>2. PICK i \in DOMAIN answers'[d] : answers'[d][i] = "Success"
    BY DEF Confirmed
  <2>3. \/ i \in DOMAIN answers[d] /\ answers'[d][i] = answers[d][i]
        \/ answers'[d][i] = v
    BY <1>1, <2>1, <2>2, AppendProperties, LenProperties
  <2>4. Confirmed(d) \/ v = "Success"
    BY <2>2, <2>3 DEF Confirmed
  <2> QED BY <1>3, <2>4 DEF SuccessMeansIndexed
<1> QED BY <1>2, <1>3

(* Answers that do not change stay true while indexed grows.                *)
LEMMA SameAnswers ==
  ASSUME SuccessMeansIndexed, UNCHANGED answers, indexed \subseteq indexed'
  PROVE  SuccessMeansIndexed'
  BY DEF SuccessMeansIndexed, Confirmed

(* Releasing what is held as failures keeps the answers true.               *)
LEMMA ReleasedTruly ==
  ASSUME TypeOK, SuccessMeansIndexed, UNCHANGED indexed, answers' = Released
  PROVE  SuccessMeansIndexed'
<1> SUFFICES ASSUME NEW d \in Deliveries, PayloadType[d] = "DOCUMENT", Confirmed(d)'
             PROVE  d \in indexed
  BY DEF SuccessMeansIndexed
<1>1. /\ answers \in [Requesters -> Seq({"Success", "Failure"})]
      /\ d \in Requesters
  BY DEF TypeOK, Requesters
<1>2. answers'[d] = answers[d] \/ answers'[d] = Append(answers[d], "Failure")
  BY <1>1 DEF Released
<1>3. PICK i \in DOMAIN answers'[d] : answers'[d][i] = "Success"
  BY DEF Confirmed
<1>4. answers[d] \in Seq({"Success", "Failure"})
  BY <1>1
<1>5. CASE answers'[d] = answers[d]
  BY <1>3, <1>5 DEF Confirmed, SuccessMeansIndexed
<1>6. CASE answers'[d] = Append(answers[d], "Failure")
  <2>1. i \in DOMAIN answers[d] /\ answers[d][i] = "Success"
    BY <1>3, <1>4, <1>6, AppendProperties, LenProperties
  <2> QED BY <2>1 DEF Confirmed, SuccessMeansIndexed
<1> QED BY <1>2, <1>5, <1>6

(* A response of the WorkStage: Done is answered Success for a document    *)
(* that was indexed, Last and Halt for a delivery that carries none.       *)
LEMMA WorkStageSound ==
  ASSUME Soundness, OnWorkStageResponse
  PROVE  /\ mailbox' \in Seq(SoundCommand) /\ lag' \in Seq(SoundCommand)
         /\ UNCHANGED indexed
         /\ SuccessMeansIndexed'
<1> USE DEF Soundness, KeptByWork
<1>0. /\ mailbox # <<>>
      /\ Incoming \in SoundCommand /\ Incoming \in Command
      /\ Incoming.kind = "WorkStageResponse"
  BY IncomingSound, OtherCommands
  DEF OnWorkStageResponse, OnInvalid, OnWorkHalt, OnLast, OnWorking, OnDone, OnFailed,
      FromWorkStage, Receive
<1>1. Incoming.from \in Deliveries /\ Incoming.from \in Requesters
  BY <1>0 DEF Command, Signals, Requesters
<1>2. /\ <<>> \in Seq(SoundCommand)
      /\ <<TrackDate(Incoming.from)>> \in Seq(SoundCommand)
      /\ <<Signal("PersistException")>> \in Seq(SoundCommand)
      /\ <<Signal("Halt")>> \in Seq(SoundCommand)
  BY <1>1, SoundSignals, SmallSeqs
<1>3. ASSUME NEW ms \in Seq(SoundCommand), ReadyOrBusy(ms)
      PROVE  mailbox' \in Seq(SoundCommand) /\ lag' \in Seq(SoundCommand)
  BY <1>0, <1>3, TellSound, TellAndNextSound DEF SoundQueues, ReadyOrBusy
<1>4. ASSUME NEW ms \in Seq(SoundCommand), Crash(ms)
      PROVE  /\ mailbox' \in Seq(SoundCommand) /\ lag' \in Seq(SoundCommand)
             /\ UNCHANGED indexed
  BY <1>0, <1>4, CrashSound DEF Crash
<1>5. ASSUME UNCHANGED indexed, answers' = Answered(Incoming.from, "Failure")
      PROVE  SuccessMeansIndexed'
  BY <1>1, <1>5, TrueAnswer
<1>6. ASSUME UNCHANGED indexed, answers' = Answered(Incoming.from, "Success"),
             Incoming.outcome \in {"Done", "Last", "Halt"}
      PROVE  SuccessMeansIndexed'
  <2>1. PayloadType[Incoming.from] = "DOCUMENT" => Incoming.from \in indexed
    BY <1>0, <1>6 DEF SoundCommand
  <2> QED BY <1>1, <1>6, <2>1, TrueAnswer
<1>7. CASE OnInvalid
  BY <1>2, <1>3, <1>5, <1>7 DEF OnInvalid
<1>8. CASE OnWorkHalt
  BY <1>2, <1>3, <1>6, <1>8 DEF OnWorkHalt, FromWorkStage
<1>9. CASE OnLast
  <2>1. UNCHANGED indexed
    BY <1>2, <1>4, <1>9 DEF OnLast
  <2>2. SuccessMeansIndexed'
    BY <1>6, <1>9, <2>1 DEF OnLast, FromWorkStage
  <2>3. mailbox' \in Seq(SoundCommand) /\ lag' \in Seq(SoundCommand)
    BY <1>2, <1>3, <1>4, <1>9 DEF OnLast
  <2> QED BY <2>1, <2>2, <2>3
<1>10. CASE OnWorking
  BY <1>2, <1>3, <1>10, SameAnswers DEF OnWorking
<1>11. CASE OnDone
  <2>1. CASE Crash(<<>>) /\ UNCHANGED answers
    BY <1>2, <1>4, <2>1, SameAnswers
  <2>2. CASE ~(Crash(<<>>) /\ UNCHANGED answers)
    <3>1. UNCHANGED <<indexed, lag>> /\ Tell(<<TrackDate(Incoming.from)>>)
      BY <1>11, <2>2 DEF OnDone, TrackDone
    <3>2. SuccessMeansIndexed'
      BY <1>6, <1>11, <2>2, <3>1 DEF OnDone, FromWorkStage
    <3>3. mailbox' \in Seq(SoundCommand) /\ lag' \in Seq(SoundCommand)
      BY <1>0, <1>2, <3>1, TellSound DEF SoundQueues
    <3> QED BY <3>1, <3>2, <3>3
  <2> QED BY <2>1, <2>2
<1>12. CASE OnFailed
  <2>1. CASE Crash(<<Signal("PersistException")>>) /\ UNCHANGED answers
    BY <1>2, <1>4, <2>1, SameAnswers
  <2>2. CASE ~(Crash(<<Signal("PersistException")>>) /\ UNCHANGED answers)
    BY <1>2, <1>3, <1>5, <1>12, <2>2 DEF OnFailed
  <2> QED BY <2>1, <2>2
<1> QED
  BY <1>7, <1>8, <1>9, <1>10, <1>11, <1>12 DEF OnWorkStageResponse

(* The queues after any other handler: what it tells is never a response.  *)
LEMMA ActorQueues ==
  ASSUME TypeOK, SoundQueues, Actor, ~OnWorkStageResponse
  PROVE  mailbox' \in Seq(SoundCommand) /\ lag' \in Seq(SoundCommand)
<1> USE DEF SoundQueues, allButMailbox
<1>1. ASSUME mailbox # <<>> PROVE Incoming \in SoundCommand /\ Incoming \in Command
  BY <1>1, IncomingSound, IncomingType
<1>2. \A m \in SoundCommand : <<m>> \in Seq(SoundCommand)
  BY SmallSeqs
<1>3. <<>> \in Seq(SoundCommand)
  BY SmallSeqs
<1>4. ASSUME mailbox # <<>>, Tell(<<>>), UNCHANGED lag
      PROVE  mailbox' \in Seq(SoundCommand) /\ lag' \in Seq(SoundCommand)
  BY <1>3, <1>4, TellSound
<1>5. ASSUME mailbox # <<>>, NEW m \in SoundCommand, Tell(<<m>>), UNCHANGED lag
      PROVE  mailbox' \in Seq(SoundCommand) /\ lag' \in Seq(SoundCommand)
  BY <1>2, <1>5, TellSound
<1>6. ASSUME mailbox # <<>>, NEW request, NEW from, PipeAndSetUp(request, from)
      PROVE  mailbox' \in Seq(SoundCommand) /\ lag' \in Seq(SoundCommand)
  BY <1>5, <1>6, SoundSignals DEF PipeAndSetUp
<1>7. CASE OnStart
  <2>1. <<Signal("StartInternalClock")>> \in Seq(SoundCommand)
    BY <1>2, SoundSignals
  <2> QED BY <1>7, <2>1, TellAndNextSound DEF OnStart, Receive
<1>8. CASE OnStartInternalClock
  BY <1>8, SoundParts, ConcatProperties DEF OnStartInternalClock, Receive
<1>9. CASE OnStopInternalClock
  BY <1>9, SoundParts DEF OnStopInternalClock, Receive
<1>10. CASE OnStop
  BY <1>4, <1>10, StopSound DEF OnStop, Receive
<1>11. CASE OnClusterEvent
  BY <1>4, <1>11 DEF OnClusterEvent, Receive
<1>12. CASE OnUpdateScheduler
  <2>1. [kind |-> "Response", ok |-> Incoming.row # Null] \in SoundCommand
    BY OtherCommands DEF Command
  <2> QED BY <1>5, <1>12, <2>1 DEF OnUpdateScheduler, Receive, Reply
<1>13. CASE OnSetup
  BY <1>6, <1>13 DEF OnSetup, Receive
<1>14. CASE OnWakeUp
  BY <1>4, <1>14 DEF OnWakeUp, OnlyTell, Receive
<1>15. CASE OnTick
  <2>1. TickMessages \in Seq(SoundCommand)
    <3>1. /\ UpdateStatus("STALE", Null) \in SoundCommand
          /\ UpdateStatus("RUNNING", Null) \in SoundCommand
          /\ Signal("Close") \in SoundCommand
      BY SoundSignals DEF Status, Callers
    <3> QED BY <3>1 DEF TickMessages
  <2>2. CASE StopEntity
    BY <2>2, StopSound
  <2>3. CASE Crash(<<>>)
    BY <1>3, <1>15, <2>3, CrashSound DEF OnTick, Receive
  <2>4. CASE Passivate
    BY <1>4, <1>15, <2>4 DEF OnTick, Receive, Passivate
  <2>5. CASE OnlyTell(TickMessages)
    BY <1>15, <2>1, <2>5, TellSound DEF OnTick, Receive, OnlyTell
  <2> QED BY <1>15, <2>2, <2>3, <2>4, <2>5 DEF OnTick
<1>16. CASE OnTrackDate
  BY <1>3, <1>6, <1>16, TellAndNextSound DEF OnTrackDate, Receive
<1>17. CASE OnUpdateStatus
  BY <1>6, <1>17 DEF OnUpdateStatus, Receive
<1>18. CASE OnClose
  <2>1. <<Signal("StopInternalClock")>> \in Seq(SoundCommand)
    BY <1>2, SoundSignals
  <2> QED BY <1>18, <2>1, CrashSound, TellSound DEF OnClose, Receive
<1>19. CASE OnHalt
  BY <1>4, <1>19 DEF OnHalt, Receive
<1>20. CASE OnPersistException
  BY <1>4, <1>20 DEF OnPersistException, Receive
<1>21. CASE OnTrackFailure
  BY <1>3, <1>21, TellAndNextSound DEF OnTrackFailure, Receive
<1>22. CASE OnGracefulEnd
  BY <1>4, <1>22 DEF OnGracefulEnd, Receive
<1>23. CASE OnIngest
  <2>1. CASE Crash(<<>>)
    BY <1>3, <1>23, <2>1, CrashSound DEF OnIngest, Receive
  <2>2. CASE ~Crash(<<>>)
    BY <1>4, <1>23, <2>2 DEF OnIngest, Receive
  <2> QED BY <2>1, <2>2
<1>24. CASE OnTrackError
  BY <1>3, <1>6, <1>24, CrashSound, TellAndNextSound DEF OnTrackError, Receive
<1>25. CASE OnRestart
  <2>1. Incoming.from \in Callers
    BY <1>1, <1>25 DEF OnRestart, Receive, Command, Signals, Callers
  <2>2. <<UpdateStatus("RUNNING", Incoming.from)>> \in Seq(SoundCommand)
    BY <1>2, <2>1, SoundSignals DEF Status
  <2> QED BY <1>25, <2>2, TellAndNextSound DEF OnRestart, Receive
<1>26. CASE OnCloseStageResponse
  <2>1. Incoming.status \in Status
    BY <1>1, <1>26 DEF OnCloseStageResponse, Receive, Command, Signals
  <2> QED
    BY <1>5, <1>26, <2>1, SoundSignals DEF OnCloseStageResponse, OnlyTell, Receive
<1>27. CASE OnDestroyQueue
  BY <1>4, <1>5, <1>27, SoundSignals DEF OnDestroyQueue, Receive
<1>28. CASE OnDestroyQueueResult
  BY <1>5, <1>28, SoundSignals DEF OnDestroyQueueResult, OnlyTell, Receive
<1>29. CASE OnEnqueue
  <2>1. mailbox' \in Seq(SoundCommand)
    BY <1>3, <1>29, TellSound DEF OnEnqueue, Unhandled
  <2>2. lag' \in Seq(SoundCommand)
    BY <1>1, <1>29, AppendProperties DEF OnEnqueue, Unhandled
  <2> QED BY <2>1, <2>2
<1>30. CASE OnDiscard
  BY <1>4, <1>30 DEF OnDiscard, OnlyTell, Unhandled
<1> QED
  BY <1>7, <1>8, <1>9, <1>10, <1>11, <1>12, <1>13, <1>14, <1>15, <1>16, <1>17, <1>18,
     <1>19, <1>20, <1>21, <1>22, <1>23, <1>24, <1>25, <1>26, <1>27, <1>28, <1>29, <1>30
  DEF Actor

(* Any other handler answers no delivery, or releases the held ones as      *)
(* failures.                                                                *)
LEMMA ActorAnswers ==
  ASSUME TypeOK, SuccessMeansIndexed, Actor, ~OnWorkStageResponse
  PROVE  UNCHANGED indexed /\ SuccessMeansIndexed'
<1> USE DEF allButMailbox, ledger
<1>1. ASSUME UNCHANGED indexed, NEW from \in Callers, NEW v \in {"Success", "Failure"},
             answers' = Answered(from, v)
      PROVE  SuccessMeansIndexed'
  <2>1. from \in Requesters \cup {Null} /\ from \notin Deliveries
    BY ConstantsAssumption DEF Callers, Requesters
  <2> QED BY <1>1, <2>1, TrueAnswer
<1>2. CASE OnStart
  <2>1. Incoming \in Command
    BY <1>2, IncomingType DEF OnStart, Receive
  <2>2. Incoming.from \in Callers /\ Verdict(Incoming.ok) \in {"Success", "Failure"}
    BY <1>2, <2>1 DEF OnStart, Receive, Command, Signals, Verdict
  <2> QED BY <1>1, <1>2, <2>2 DEF OnStart
<1>3. CASE OnTrackError
  <2>1. Incoming \in Command
    BY <1>3, IncomingType DEF OnTrackError, Receive
  <2>2. Incoming.from \in Callers
    BY <1>3, <2>1 DEF OnTrackError, Receive, Command, Signals, Callers
  <2>3. UNCHANGED indexed /\ (UNCHANGED answers \/ answers' = Answered(Incoming.from, "Success"))
    BY <1>3 DEF OnTrackError, Crash
  <2> QED BY <1>1, <2>2, <2>3, SameAnswers
<1>4. CASE OnStop \/ OnTick
  <2>1. UNCHANGED indexed /\ (UNCHANGED answers \/ answers' = Released)
    BY <1>4 DEF OnStop, OnTick, StopEntity, Crash, Passivate, OnlyTell
  <2> QED BY <2>1, SameAnswers, ReleasedTruly
<1>5. CASE ~(OnStart \/ OnTrackError \/ OnStop \/ OnTick)
  <2>1. UNCHANGED <<answers, indexed>>
    BY <1>5
    DEF Actor, OnStartInternalClock, OnStopInternalClock, OnClusterEvent,
        OnUpdateScheduler, OnSetup, OnWakeUp, OnTrackDate, OnUpdateStatus, OnClose, OnHalt,
        OnPersistException, OnTrackFailure, OnGracefulEnd, OnIngest, OnRestart,
        OnCloseStageResponse, OnDestroyQueue, OnDestroyQueueResult, OnEnqueue, OnDiscard,
        OnlyTell, Crash
  <2> QED BY <2>1, SameAnswers
<1> QED BY <1>2, <1>3, <1>4, <1>5

(* What else happens adds no answer; a document is indexed before the Done *)
(* about it is sent.                                                       *)
LEMMA OthersSound ==
  ASSUME Soundness, Database \/ Children \/ DeleteQueues \/ ShardStops \/ TimerFires
                      \/ Environment
  PROVE  SoundQueues' /\ SuccessMeansIndexed'
<1> USE DEF Soundness, SoundQueues, ledger, allButMailbox
<1>1. ASSUME NEW m \in SoundCommand', Arrives(m), indexed \subseteq indexed', UNCHANGED lag
      PROVE  SoundQueues'
  <2>1. SoundCommand \subseteq SoundCommand'
    BY <1>1 DEF SoundCommand
  <2>2. mailbox \in Seq(SoundCommand') /\ lag' \in Seq(SoundCommand')
    BY <1>1, <2>1
  <2> QED BY <1>1, <2>2, AppendProperties DEF Arrives
<1>2. ASSUME NEW m \in Command, m.kind # "WorkStageResponse"
      PROVE  m \in SoundCommand'
  BY <1>2 DEF SoundCommand
<1>3. ASSUME UNCHANGED <<mailbox, lag, indexed>>
      PROVE  SoundQueues'
  BY <1>3, SoundGrows
<1>4. CASE Database
  <2>1. PICK i \in DOMAIN transactions :
          BeginTransaction(i) \/ CommitTransaction(i) \/ FailTransaction(i)
    BY <1>4 DEF Database
  <2>2. UNCHANGED <<lag, answers, indexed>>
    BY <2>1 DEF BeginTransaction, CommitTransaction, FailTransaction
  <2>3. \A result \in Row \cup {Null} :
          [kind |-> "UpdateScheduler", row |-> result] \in SoundCommand'
    BY <1>2 DEF Command
  <2> QED BY <1>1, <1>3, <1>4, <2>2, <2>3, DatabaseTells, SameAnswers
<1>5. CASE StartWorker
  <2>1. Head(workBox) \in Deliveries
    BY <1>5, HeadTailProperties DEF TypeOK, StartWorker
  <2> DEFINE d == Head(workBox)
             reply(o) == [kind |-> "WorkStageResponse", outcome |-> o, from |-> d]
  <2>2. UNCHANGED <<lag, answers, indexed>>
    BY <1>5 DEF StartWorker
  <2>3. PICK o \in Outcomes \ {"Done", "Failed"} :
          /\ Arrives(reply(o))
          /\ o \in {"Last", "Halt"} => PayloadType[d] # "DOCUMENT"
    BY <1>5 DEF StartWorker, Respond, Outcomes
  <2>4. reply(o) \in SoundCommand'
    BY <2>1, <2>3 DEF SoundCommand, Command
  <2> QED BY <1>1, <2>2, <2>3, <2>4, SameAnswers
<1>6. ASSUME NEW d \in working, FinishWork(d)
      PROVE  SoundQueues' /\ SuccessMeansIndexed'
  <2> DEFINE reply(o) == [kind |-> "WorkStageResponse", outcome |-> o, from |-> d]
  <2>1. d \in Deliveries
    BY DEF TypeOK
  <2>2. UNCHANGED <<lag, answers>> /\ indexed \subseteq indexed'
    BY <1>6 DEF FinishWork
  <2>3. PICK o \in {"Done", "Failed"} : Arrives(reply(o)) /\ (o = "Done" => d \in indexed')
    BY <1>6 DEF FinishWork, Respond
  <2>4. reply(o) \in SoundCommand'
    BY <2>1, <2>3 DEF SoundCommand, Command, Outcomes
  <2> QED BY <1>1, <2>2, <2>3, <2>4, SameAnswers
<1>7. CASE CloseStageReplies
  <2>1. [kind |-> "CloseStageResponse", status |-> ClosingStatus(closeStage.row)]
          \in SoundCommand'
    BY <1>2 DEF Command, ClosingStatus, Status
  <2>2. UNCHANGED <<lag, answers, indexed>>
    BY <1>7 DEF CloseStageReplies
  <2> QED BY <1>1, <1>7, <2>1, <2>2, SameAnswers DEF CloseStageReplies
<1>8. CASE DeleteQueues
  <2>1. Signal("DestroyQueueResult") \in SoundCommand'
    BY <1>2, Commands DEF Signal, Signals
  <2>2. UNCHANGED <<lag, answers, indexed>>
    BY <1>8 DEF DeleteQueues
  <2> QED BY <1>1, <1>3, <1>8, <2>1, <2>2, SameAnswers DEF DeleteQueues
<1>9. CASE ShardStops
  <2>1. Signal("Stop") \in SoundCommand'
    BY <1>2, Commands DEF Signal, Signals
  <2>2. UNCHANGED <<lag, answers, indexed>>
    BY <1>9 DEF ShardStops
  <2> QED BY <1>1, <1>9, <2>1, <2>2, SameAnswers DEF ShardStops
<1>10. CASE TimerFires
  <2>1. Signal("TimerTick") \in SoundCommand'
    BY <1>2, Commands DEF Signal, Signals
  <2> QED BY <1>1, <1>10, <2>1, SameAnswers DEF TimerFires
<1>11. ASSUME NEW m \in Command, m.kind # "WorkStageResponse", Deliver(m)
       PROVE  SoundQueues' /\ SuccessMeansIndexed'
  <2>1. UNCHANGED <<lag, answers, indexed>>
    BY <1>11 DEF Deliver
  <2>2. m \in SoundCommand' /\ Signal("Setup") \in SoundCommand'
    BY <1>2, <1>11, Commands DEF Signal
  <2>3. CASE mailbox' = <<Signal("Setup"), m>>
    <3>1. mailbox' \in Seq(SoundCommand')
      BY <2>2, <2>3
    <3>2. SoundCommand \subseteq SoundCommand'
      BY <2>1 DEF SoundCommand
    <3>3. lag' \in Seq(SoundCommand')
      BY <2>1, <3>2
    <3> QED BY <2>1, <3>1, <3>3, SameAnswers
  <2>4. CASE Arrives(m)
    BY <1>1, <2>1, <2>2, <2>4, SameAnswers
  <2> QED BY <1>11, <2>3, <2>4 DEF Deliver
<1>12. CASE Environment
  <2>1. ASSUME NEW kind \in {"Ingest", "TrackError", "Restart"}, NEW from, Ask(kind, from),
               [kind |-> kind, from |-> from] \in Command
        PROVE  SoundQueues' /\ SuccessMeansIndexed'
    BY <1>11, <2>1 DEF Ask
  <2>2. ASSUME NEW d \in Deliveries, SendIngest(d)
        PROVE  SoundQueues' /\ SuccessMeansIndexed'
    BY <2>1, <2>2 DEF SendIngest, Command
  <2>3. ASSUME NEW c \in TrackErrors, SendTrackError(c)
        PROVE  SoundQueues' /\ SuccessMeansIndexed'
    BY <2>1, <2>3 DEF SendTrackError, Command
  <2>4. ASSUME NEW c \in Restarts, SendRestart(c)
        PROVE  SoundQueues' /\ SuccessMeansIndexed'
    BY <2>1, <2>4 DEF SendRestart, Command
  <2>5. CASE SendWakeUp \/ SendHalt \/ CancelScheduling \/ CloseScheduling
    <3>1. GracefulEnd("CANCELLED") \in Command /\ GracefulEnd("CANCELLED").kind = "GracefulEnd"
      BY Commands DEF Status, GracefulEnd
    <3> QED
      BY <1>11, <2>5, <3>1, Commands
      DEF SendWakeUp, SendHalt, CancelScheduling, CloseScheduling, Signal
  <2>6. CASE Expire
    <3>1. UNCHANGED <<mailbox, lag, answers, indexed>>
      BY <2>6 DEF Expire
    <3> QED BY <1>3, <3>1, SameAnswers
  <2>7. CASE MemberEvent
    <3>1. {Signal("MemberUp"), Signal("MemberDowned"), Signal("MemberOther")}
            \subseteq SoundCommand'
      BY <1>2, Commands DEF Signal, Signals
    <3>2. UNCHANGED <<lag, answers, indexed>>
      BY <2>7 DEF MemberEvent
    <3> QED BY <1>1, <2>7, <3>1, <3>2, SameAnswers DEF MemberEvent
  <2>8. CASE FailWorkStage
    <3>1. UNCHANGED <<mailbox, lag, answers, indexed>>
      BY <2>8 DEF FailWorkStage, fields
    <3> QED BY <1>3, <3>1, SameAnswers
  <2> QED BY <1>12, <2>2, <2>3, <2>4, <2>5, <2>6, <2>7, <2>8 DEF Environment
<1> QED
  BY <1>4, <1>5, <1>6, <1>7, <1>8, <1>9, <1>10, <1>12 DEF Children

(* Every step keeps the queues and the answers sound.                       *)
LEMMA SoundSteps == Soundness /\ [Next]_vars => Soundness'
<1> SUFFICES ASSUME Soundness, [Next]_vars PROVE Soundness'
  OBVIOUS
<1>1. TypeOK'
  BY Steps DEF Soundness
<1>2. CASE OnWorkStageResponse
  BY <1>1, <1>2, WorkStageSound, SoundGrows DEF Soundness
<1>3. CASE Actor /\ ~OnWorkStageResponse
  BY <1>1, <1>3, ActorQueues, ActorAnswers, SoundGrows DEF Soundness
<1>4. CASE Database \/ Children \/ DeleteQueues \/ ShardStops \/ TimerFires \/ Environment
  BY <1>1, <1>4, OthersSound DEF Soundness
<1>5. CASE UNCHANGED vars
  <2>1. UNCHANGED <<mailbox, lag, answers, indexed>>
    BY <1>5 DEF vars, allButMailbox, ledger
  <2> QED BY <1>1, <2>1, SoundGrows, SameAnswers DEF Soundness, SoundQueues
<1> QED BY <1>2, <1>3, <1>4, <1>5 DEF Next

LEMMA InitSound == Init => Soundness
<1>1. Init => mailbox \in Seq(SoundCommand) /\ lag \in Seq(SoundCommand)
  BY SmallSeqs DEF Init
<1>2. Init => SuccessMeansIndexed
  BY DEF Init, SuccessMeansIndexed, Confirmed, Requesters
<1> QED BY <1>1, <1>2, InitType DEF Soundness, SoundQueues

(* A consumer is told Success about a document only after the work on it   *)
(* was done, for any number of deliveries, requests, workers and events.   *)
THEOREM Safety == Spec => []SuccessMeansIndexed
  BY InitSound, SoundSteps, PTL DEF Spec, Soundness
=============================================================================
