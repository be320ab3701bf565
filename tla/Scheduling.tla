----------------------------- MODULE Scheduling -----------------------------
(***************************************************************************)
(* The Scheduling entity: the sharded Pekko actor that runs one ingestion. *)
(* It takes the documents the queue consumers deliver, holds them while    *)
(* its WorkStage child processes them, answers each consumer, mirrors the  *)
(* Scheduler row it persists asynchronously, and closes the ingestion when *)
(* a Tick finds it finished.                                               *)
(*                                                                         *)
(* One action is one message handler.  A handler takes the head of the     *)
(* mailbox and appends what it tells to itself.  The adapter registered    *)
(* for Scheduling.Response is a single slot: it is looked up when the      *)
(* response is processed, so a later registration redirects an earlier     *)
(* request.                                                                *)
(***************************************************************************)
EXTENDS Integers, Sequences, FiniteSets, SequencesExt

CONSTANTS
  Deliveries,     \* the deliveries of queue messages, each asked once
  PayloadType,    \* [Deliveries -> {"DOCUMENT", "LAST", "HALT"}]
  ParsingDate,    \* [Deliveries -> Dates]
  Dates,          \* the parsing dates of the payloads
  TrackErrors,    \* the TrackError requests of the retry consumer
  Restarts,       \* the Restart requests of a reroute
  External,       \* which of ExternalEvents the environment may produce
  MaxEvents,      \* bound on the external events of a behavior
  WorkersPerNode, \* scheduling.workers-per-node
  MaxNodes,       \* bound on the members that come up, and on those downed
  Reindex,        \* the scheduling is a reindex
  Null            \* no row, no date, the ignoreRef

(* Each happens once; the work, UpdateDatasource and the deletion of the    *)
(* queues may besides fail whenever External has their failure.             *)
ExternalEvents == {"Cancel", "Close", "Halt", "WakeUp", "Rebalance", "Expire",
                   "WorkFailure", "Unreadable", "PersistFailure", "QueueFailure"}

Requesters == Deliveries \cup TrackErrors \cup Restarts

(* Whom the end of a setup answers: Null is the ignoreRef. *)
Callers == TrackErrors \cup Restarts \cup {Null}

Status == {"RUNNING", "FINISHED", "CANCELLED", "ERROR", "STALE", "FAILURE"}

(* The columns of the Scheduler row the entity writes and reads back. *)
Row == [status : Status, date : Dates \cup {Null}]

ASSUME ConstantsAssumption ==
  /\ PayloadType \in [Deliveries -> {"DOCUMENT", "LAST", "HALT"}]
  /\ ParsingDate \in [Deliveries -> Dates]
  /\ External \subseteq ExternalEvents
  /\ WorkersPerNode \in Nat \ {0}
  /\ MaxEvents \in Nat
  /\ MaxNodes \in Nat
  /\ Reindex \in BOOLEAN
  /\ Null \notin Requesters \cup Dates \cup Row
  /\ Deliveries \cap (TrackErrors \cup Restarts) = {}
  /\ TrackErrors \cap Restarts = {}
  /\ Requesters \cap ExternalEvents = {}

VARIABLES
  behavior,          \* the current Receive
  mailbox, lag,      \* the actor's mailbox and the commands it set aside
  adapter,           \* the registered adapter for Scheduling.Response
  held,              \* heldMessages: the deliveries being worked
  failureTracked, lastIngestionDate, lastReceived,
  passivating, stopRequested,
  expired,           \* lastRequest is older than the timeout
  nodes, maxWorkers,
  scheduler,         \* the cached SchedulerDTO
  timer,             \* the internal clock is running
  workBox, working,  \* WorkStage: its mailbox and the documents in process
  workStage,         \* it runs, or died of a payload it could not read
  closeStage,        \* CloseStage: its phase and the row it was started with
  transactions,      \* the SchedulingService requests in flight
  row,               \* the Scheduler row on the database
  datasource,        \* the lastIngestionDate of the Datasource
  queues,            \* the main, retry and error queues of this scheduling
  shard,             \* the shard's view of the entity
  sent,              \* what the environment already sent
  answers,           \* what each requester was answered, in order
  indexed            \* the documents whose work was done

progress == <<failureTracked, lastIngestionDate, lastReceived>>
stopping == <<passivating, stopRequested>>
cluster  == <<nodes, maxWorkers>>
fields   == <<held, progress, stopping, cluster, expired, scheduler, timer>>
work     == <<workBox, working, workStage>>
children == <<work, closeStage>>
outside  == <<row, datasource, queues, shard, sent>>
requests == <<adapter, transactions>>
ledger   == <<answers, indexed>>
allButMailbox == <<behavior, lag, fields, children, outside, requests, ledger>>
vars == <<mailbox, allButMailbox>>

-----------------------------------------------------------------------------
(* Messages *)

Signals == {"Setup", "StartInternalClock", "StopInternalClock", "Stop",
            "TimerTick", "VoidTick", "Tick", "WakeUp", "Close", "MemberUp",
            "MemberDowned", "MemberOther", "DestroyQueueResult"}

Outcomes == {"Invalid", "Halt", "Last", "Working", "Done", "Failed"}

Command ==
  [kind : Signals \cup {"PersistException", "Halt"}]
    \cup [kind : {"Ingest"}, from : Deliveries]
    \cup [kind : {"TrackError"}, from : TrackErrors]
    \cup [kind : {"Restart"}, from : Restarts]
    \cup [kind : {"GracefulEnd", "CloseStageResponse"}, status : Status]
    \cup [kind : {"UpdateStatus"}, status : Status, from : Callers]
    \cup [kind : {"TrackDate"}, date : Dates]
    \cup [kind : {"WorkStageResponse"}, outcome : Outcomes, from : Deliveries]
    \cup [kind : {"UpdateScheduler"}, row : Row \cup {Null}]
    \cup [kind : {"Response", "TrackFailure", "DestroyQueue"}, ok : BOOLEAN]
    \cup [kind : {"Start"}, ok : BOOLEAN, from : Callers]

Signal(k)       == [kind |-> k]
TrackDate(d)    == [kind |-> "TrackDate", date |-> ParsingDate[d]]
GracefulEnd(s)  == [kind |-> "GracefulEnd", status |-> s]
UpdateStatus(s, from) == [kind |-> "UpdateStatus", status |-> s, from |-> from]

Adapter == [to : {"None", "Start", "TrackFailure", "GracefulEnd", "DestroyQueue"},
            from : Callers]

Adapted(to) == [to |-> to, from |-> Null]
StartWrapper(from) == [to |-> "Start", from |-> from]

(* The response adapted by whichever registration is current. *)
Adapt(ok) ==
  CASE adapter.to = "Start"        -> [kind |-> "Start", ok |-> ok, from |-> adapter.from]
    [] adapter.to = "GracefulEnd"  -> GracefulEnd("FAILURE")
    [] adapter.to = "TrackFailure" -> [kind |-> "TrackFailure", ok |-> ok]
    [] OTHER                       -> [kind |-> "DestroyQueue", ok |-> ok]

(* The message the current behavior is given. *)
Incoming ==
  CASE Head(mailbox).kind = "Response"  -> Adapt(Head(mailbox).ok)
    [] Head(mailbox).kind = "TimerTick" -> Signal("Tick")
    [] OTHER                            -> Head(mailbox)

Receive(k) == /\ behavior # "stopped"
              /\ mailbox # <<>>
              /\ Incoming.kind = k

Tell(messages) == mailbox' = Tail(mailbox) \o messages

(* The handler does no more than tell. *)
OnlyTell(messages) == Tell(messages) /\ UNCHANGED allButMailbox

(* An answer, a tick or an event that someone else puts in the mailbox. *)
Arrives(message) == mailbox' = Append(mailbox, message)

(* Cancelling or restarting a timer voids the tick it already enqueued. *)
WithoutTick(box) ==
  [i \in DOMAIN box |-> IF box[i].kind = "TimerTick" THEN Signal("VoidTick") ELSE box[i]]

Answered(from, verdict) ==
  IF from = Null THEN answers ELSE [answers EXCEPT ![from] = Append(@, verdict)]

Verdict(ok) == IF ok THEN "Success" ELSE "Failure"

IsIdle == held = {} /\ lag = <<>>

(* next(): the oldest command set aside goes to the end of the mailbox. *)
Popped == IF lag = <<>> THEN <<>> ELSE <<Head(lag)>>
Remaining == IF lag = <<>> THEN lag ELSE Tail(lag)

TellAndNext(messages) ==
  /\ Tell(messages \o Popped)
  /\ lag' = Remaining
  /\ behavior' = "ready"

(* An external event, within the bound. *)
Happens(event) ==
  /\ event \in External \ sent
  /\ Cardinality(sent \cap ExternalEvents) < MaxEvents
  /\ sent' = sent \cup {event}

-----------------------------------------------------------------------------
(* SchedulingService: each request is a transaction that reads the whole   *)
(* row and writes the whole row back, and tells UpdateScheduler.           *)

Request ==
  [op : {"fetch", "describe", "append"}]
    \cup [op : {"date"}, date : Dates]
    \cup [op : {"status"}, status : Status]

Transaction == [request : Request, read : Row \cup {Null}, live : BOOLEAN]

Opened(request, live) == [request |-> request, read |-> Null, live |-> live]

(* pipeToSelf of a request, its answer to be adapted by a. *)
Pipe(request, a) ==
  /\ adapter' = a
  /\ transactions' = Append(transactions, Opened(request, TRUE))

PersistStatus(s) == [op |-> "status", status |-> s]

(* getStartWrapper and pipeToSelf: the entity sets up again, its clock     *)
(* stopped, and the requester is answered by the response.                 *)
PipeAndSetUp(request, from) ==
  /\ Pipe(request, StartWrapper(from))
  /\ Tell(<<Signal("StopInternalClock")>>)
  /\ behavior' = "settingUp"
  /\ UNCHANGED lag

Written(request, read) ==
  CASE request.op = "status" -> [read EXCEPT !.status = request.status]
    [] request.op = "date"   -> [read EXCEPT !.date = request.date]
    [] OTHER                 -> read

(* The transaction begins: it fetches the row. *)
BeginTransaction(i) ==
  /\ transactions[i].read = Null
  /\ transactions' = [transactions EXCEPT ![i].read = row]
  /\ UNCHANGED <<mailbox, behavior, lag, fields, children, outside, adapter, ledger>>

(* What follows the request of t, which leaves the transactions left.  The *)
(* append of TrackError is followed by the status, whatever became of it;  *)
(* the others report to the entity, unless the incarnation that asked is   *)
(* gone.                                                                   *)
Conclude(t, left, result) ==
  \/ /\ t.request.op = "append"
     /\ transactions' = Append(left, Opened(PersistStatus("ERROR"), t.live))
     /\ UNCHANGED mailbox
  \/ /\ t.request.op # "append"
     /\ transactions' = left
     /\ IF t.live THEN Arrives([kind |-> "UpdateScheduler", row |-> result])
                  ELSE UNCHANGED mailbox

CommitTransaction(i) ==
  /\ transactions[i].read # Null
  /\ LET result == Written(transactions[i].request, transactions[i].read)
     IN /\ row' = IF transactions[i].request.op = "fetch" THEN row ELSE result
        /\ Conclude(transactions[i], RemoveAt(transactions, i), result)
  /\ UNCHANGED <<behavior, lag, fields, children, datasource, queues, shard, sent,
                 adapter, ledger>>

(* What is left of a transaction that nobody waits for any more. *)
Outlived(t) ==
  [t EXCEPT !.live = FALSE,
            !.request = IF @.op = "append" THEN [op |-> "describe"] ELSE @]

(* The request fails, or times out on the event bus while the transaction   *)
(* goes on.                                                                 *)
FailTransaction(i) ==
  /\ Happens("PersistFailure")
  /\ \/ Conclude(transactions[i], RemoveAt(transactions, i), Null)
     \/ /\ transactions[i].live
        /\ Conclude(transactions[i], [transactions EXCEPT ![i] = Outlived(@)], Null)
  /\ UNCHANGED <<behavior, lag, fields, children, row, datasource, queues, shard,
                 adapter, ledger>>

Database ==
  \E i \in DOMAIN transactions :
    BeginTransaction(i) \/ CommitTransaction(i) \/ FailTransaction(i)

-----------------------------------------------------------------------------
(* The life of an incarnation *)

FreshFields ==
  /\ lag' = <<>>
  /\ held' = {}
  /\ failureTracked' = FALSE
  /\ lastIngestionDate' = Null
  /\ lastReceived' = FALSE
  /\ passivating' = FALSE
  /\ stopRequested' = FALSE
  /\ expired' = FALSE
  /\ nodes' = 0
  /\ maxWorkers' = WorkersPerNode
  /\ scheduler' = Null
  /\ timer' = FALSE
  /\ workBox' = <<>>
  /\ working' = {}
  /\ workStage' = "running"
  /\ closeStage' = [phase |-> "none", row |-> Null]

(* onPostStop releases what is held as failures; and as done. *)
ReleasedAsDone == [r \in Requesters |->
                     IF r \in held THEN Append(answers[r], "Success") ELSE answers[r]]
Released == [r \in Requesters |->
               IF r \in held THEN Append(answers[r], "Failure") ELSE answers[r]]

(* Behaviors.stopped: the held documents are released, the children stop,  *)
(* the shard forgets the entity.                                           *)
StopEntity ==
  /\ behavior' = "stopped"
  /\ mailbox' = <<>>
  /\ FreshFields
  /\ adapter' = Adapted("None")
  /\ answers' = Released
  /\ transactions' = [i \in DOMAIN transactions |-> [transactions[i] EXCEPT !.live = FALSE]]
  /\ shard' = "active"
  /\ queues' = IF queues = "deleting" THEN "abandoned" ELSE queues
  /\ UNCHANGED <<row, datasource, sent, indexed>>

(* An exception in a handler: the supervisor restarts the behavior in the  *)
(* same actor.  Mailbox and adapter survive, fields and children do not.   *)
Crash(messages) ==
  /\ behavior' = "settingUp"
  /\ mailbox' = WithoutTick(Tail(mailbox)) \o messages \o <<Signal("Setup")>>
  /\ FreshFields
  /\ UNCHANGED <<requests, outside, indexed>>

-----------------------------------------------------------------------------
(* Handled in every behavior *)

OnStart ==
  /\ Receive("Start")
  /\ answers' = Answered(Incoming.from, Verdict(Incoming.ok))
  /\ TellAndNext(<<Signal("StartInternalClock")>>)
  /\ UNCHANGED <<fields, children, outside, requests, indexed>>

OnStartInternalClock ==
  /\ Receive("StartInternalClock")
  /\ timer' = TRUE
  /\ mailbox' = WithoutTick(Tail(mailbox)) \o Popped
  /\ lag' = Remaining
  /\ behavior' = "ready"
  /\ UNCHANGED <<held, progress, stopping, cluster, expired, scheduler, children,
                 outside, requests, ledger>>

OnStopInternalClock ==
  /\ Receive("StopInternalClock")
  /\ timer' = FALSE
  /\ mailbox' = WithoutTick(Tail(mailbox))
  /\ UNCHANGED <<behavior, lag, held, progress, stopping, cluster, expired, scheduler,
                 children, outside, requests, ledger>>

OnStop ==
  /\ Receive("Stop")
  /\ \/ /\ passivating /\ ~IsIdle
        /\ stopRequested' = TRUE
        /\ Tell(<<>>)
        /\ UNCHANGED <<behavior, lag, held, progress, passivating, cluster, expired,
                       scheduler, timer, children, outside, requests, ledger>>
     \/ ~(passivating /\ ~IsIdle) /\ StopEntity

OnClusterEvent ==
  /\ \/ Receive("MemberUp") /\ nodes' = nodes + 1
     \/ Receive("MemberDowned") /\ nodes' = nodes - 1
     \/ Receive("MemberOther") /\ nodes' = nodes
  /\ maxWorkers' = WorkersPerNode * nodes'
  /\ Tell(<<>>)
  /\ UNCHANGED <<behavior, lag, held, progress, stopping, expired, scheduler, timer,
                 children, outside, requests, ledger>>

(* The replyTo of an UpdateScheduler is the adapter's reference; and the    *)
(* reply only on success, the failure left to the log.                      *)
ReplyOnSuccess(fetched) ==
  IF fetched = Null THEN <<>> ELSE <<[kind |-> "Response", ok |-> TRUE]>>
Reply(fetched) == <<[kind |-> "Response", ok |-> fetched # Null]>>

OnUpdateScheduler ==
  /\ Receive("UpdateScheduler")
  /\ LET fetched == Incoming.row
     IN /\ scheduler' = IF fetched = Null THEN scheduler ELSE fetched
        /\ closeStage' = IF fetched # Null /\ closeStage.phase = "none"
                         THEN [phase |-> "idle", row |-> Null] ELSE closeStage
        /\ Tell(Reply(fetched))
  /\ UNCHANGED <<behavior, lag, held, progress, stopping, cluster, expired, timer,
                 work, outside, requests, ledger>>

Always == {"Start", "StartInternalClock", "StopInternalClock", "Stop", "MemberUp",
           "MemberDowned", "MemberOther", "UpdateScheduler"}

-----------------------------------------------------------------------------
(* Setting up, and what is handled once set up: in ready and in busy *)

IsSetUp == behavior \in {"ready", "busy"}

OnSetup ==
  /\ behavior = "settingUp" /\ Receive("Setup")
  /\ PipeAndSetUp([op |-> "fetch"], Null)
  /\ UNCHANGED <<fields, children, outside, ledger>>

OnWakeUp == IsSetUp /\ Receive("WakeUp") /\ OnlyTell(<<>>)

(* An idle entity in ERROR asks the shard to be passivated. *)
Passivate ==
  /\ passivating' = TRUE
  /\ shard' = "passivating"
  /\ Tell(<<>>)
  /\ UNCHANGED <<behavior, lag, held, progress, stopRequested, cluster, expired,
                 scheduler, timer, children, row, datasource, queues, sent, requests,
                 ledger>>

(* What a Tick tells the entity to do, by the cached status. *)
TickMessages ==
  LET becomes(s) == <<UpdateStatus(s, Null)>>
      closeIf(condition) == IF condition THEN <<Signal("Close")>> ELSE <<>>
  IN CASE scheduler.status = "RUNNING" /\ held # {} ->
            IF expired THEN becomes("STALE") ELSE <<>>
       [] scheduler.status = "RUNNING" /\ held = {} ->
            closeIf(~failureTracked /\ lastReceived) \o closeIf(expired)
       [] scheduler.status = "STALE" /\ held = {} -> becomes("RUNNING")
       [] OTHER -> <<>>

OnTick ==
  /\ IsSetUp /\ Receive("Tick")
  /\ \/ stopRequested /\ IsIdle /\ StopEntity
     \/ /\ ~(stopRequested /\ IsIdle)
        /\ \/ scheduler = Null /\ Crash(<<>>) /\ UNCHANGED answers
           \/ /\ scheduler # Null
              /\ IF scheduler.status = "ERROR" /\ ~passivating /\ IsIdle
                 THEN Passivate ELSE OnlyTell(TickMessages)

(* The date is set in memory before it is persisted. *)
OnTrackDate ==
  /\ IsSetUp /\ Receive("TrackDate")
  /\ lastIngestionDate' = Incoming.date
  /\ \/ /\ lastIngestionDate # Incoming.date
        /\ PipeAndSetUp([op |-> "date", date |-> Incoming.date], Null)
     \/ /\ lastIngestionDate = Incoming.date
        /\ TellAndNext(<<>>)
        /\ UNCHANGED requests
  /\ UNCHANGED <<held, failureTracked, lastReceived, stopping, cluster, expired,
                 scheduler, timer, children, outside, ledger>>

OnUpdateStatus ==
  /\ IsSetUp /\ Receive("UpdateStatus")
  /\ PipeAndSetUp(PersistStatus(Incoming.status), Incoming.from)
  /\ UNCHANGED <<fields, children, outside, ledger>>

(* CloseStage handles one Start in its life; a later one is lost. *)
OnClose ==
  /\ IsSetUp /\ Receive("Close")
  /\ \/ /\ closeStage.phase = "none"
        /\ Crash(<<Signal("StopInternalClock")>>)
        /\ UNCHANGED answers
     \/ /\ closeStage.phase # "none"
        /\ closeStage' = IF closeStage.phase = "idle"
                         THEN [phase |-> "running", row |-> scheduler] ELSE closeStage
        /\ Tell(<<Signal("StopInternalClock")>>)
        /\ behavior' = "closing"
        /\ UNCHANGED <<lag, fields, work, outside, requests, ledger>>

OnHalt ==
  /\ IsSetUp /\ Receive("Halt")
  /\ Pipe([op |-> "describe"], Adapted("GracefulEnd"))
  /\ Tell(<<>>)
  /\ behavior' = "halted"
  /\ UNCHANGED <<lag, fields, children, outside, ledger>>

OnPersistException ==
  /\ IsSetUp /\ Receive("PersistException")
  /\ IF failureTracked THEN UNCHANGED requests
                       ELSE Pipe([op |-> "describe"], Adapted("TrackFailure"))
  /\ Tell(<<>>)
  /\ UNCHANGED <<behavior, lag, fields, children, outside, ledger>>

OnTrackFailure ==
  /\ IsSetUp /\ Receive("TrackFailure")
  /\ failureTracked' = (failureTracked \/ Incoming.ok)
  /\ TellAndNext(<<>>)
  /\ UNCHANGED <<held, lastIngestionDate, lastReceived, stopping, cluster, expired,
                 scheduler, timer, children, outside, requests, ledger>>

OnGracefulEnd ==
  /\ behavior \in {"ready", "busy", "closing", "halted"}
  /\ Receive("GracefulEnd")
  /\ Pipe(PersistStatus(Incoming.status), Adapted("DestroyQueue"))
  /\ Tell(<<>>)
  /\ behavior' = "gracefulEnding"
  /\ UNCHANGED <<lag, fields, children, outside, ledger>>

-----------------------------------------------------------------------------
(* Answers of the WorkStage *)

FromWorkStage(outcome) ==
  IsSetUp /\ Receive("WorkStageResponse") /\ Incoming.outcome = outcome

(* After any answer but Done: take another command while workers are free. *)
ReadyOrBusy(messages) ==
  \/ Cardinality(held') < maxWorkers /\ TellAndNext(messages)
  \/ /\ Cardinality(held') >= maxWorkers
     /\ Tell(messages)
     /\ behavior' = "busy"
     /\ UNCHANGED lag

(* What every answer leaves alone. *)
KeptByWork == <<stopping, cluster, expired, scheduler, timer, children, outside,
                requests, indexed>>

(* Invalid is refused and recorded, Halt is confirmed and obeyed; neither  *)
(* was ever held.                                                          *)
OnInvalid ==
  /\ FromWorkStage("Invalid")
  /\ answers' = Answered(Incoming.from, "Failure")
  /\ UNCHANGED <<held, progress, KeptByWork>>
  /\ ReadyOrBusy(<<Signal("PersistException")>>)

OnWorkHalt ==
  /\ FromWorkStage("Halt")
  /\ answers' = Answered(Incoming.from, "Success")
  /\ UNCHANGED <<held, progress, KeptByWork>>
  /\ ReadyOrBusy(<<Signal("Halt")>>)

OnLast ==
  /\ FromWorkStage("Last")
  /\ answers' = Answered(Incoming.from, "Success")
  /\ \/ scheduler = Null /\ Crash(<<>>)
     \/ /\ scheduler # Null
        /\ lastReceived' = TRUE
        /\ UNCHANGED <<held, failureTracked, lastIngestionDate, KeptByWork>>
        /\ ReadyOrBusy(IF ~Reindex /\ lastIngestionDate = Null
                       THEN <<TrackDate(Incoming.from)>> ELSE <<>>)

(* The date tracked, or the consumer answered, when the document is taken  *)
(* and not when it is done.                                                *)
OnWorkingTracksDate ==
  /\ FromWorkStage("Working")
  /\ held' = held \cup {Incoming.from}
  /\ UNCHANGED <<progress, answers, KeptByWork>>
  /\ ReadyOrBusy(<<TrackDate(Incoming.from)>>)

OnWorkingConfirms ==
  /\ FromWorkStage("Working")
  /\ held' = held \cup {Incoming.from}
  /\ answers' = Answered(Incoming.from, "Success")
  /\ UNCHANGED <<progress, KeptByWork>>
  /\ ReadyOrBusy(<<>>)

OnWorking ==
  /\ FromWorkStage("Working")
  /\ held' = held \cup {Incoming.from}
  /\ UNCHANGED <<progress, answers, KeptByWork>>
  /\ ReadyOrBusy(<<>>)

(* heldMessages.remove; and heldMessages.get in its place. *)
StillHeld(d) == held
WithoutHeld(d) == held \ {d}

(* The date of a document that is done; and only one that is new. *)
TrackIfNew(d) == IF ParsingDate[d] = lastIngestionDate THEN <<>> ELSE <<TrackDate(d)>>
TrackDone(d) == <<TrackDate(d)>>

(* An answer for a document that is not held finds no requester. *)
OnDone ==
  /\ FromWorkStage("Done")
  /\ \/ Incoming.from \notin held /\ Crash(<<>>) /\ UNCHANGED answers
     \/ /\ Incoming.from \in held
        /\ held' = WithoutHeld(Incoming.from)
        /\ answers' = Answered(Incoming.from, "Success")
        /\ Tell(TrackDone(Incoming.from))
        /\ behavior' = "busy"
        /\ UNCHANGED <<lag, progress, KeptByWork>>

OnFailed ==
  /\ FromWorkStage("Failed")
  /\ \/ /\ Incoming.from \notin held
        /\ Crash(<<Signal("PersistException")>>)
        /\ UNCHANGED answers
     \/ /\ Incoming.from \in held
        /\ held' = WithoutHeld(Incoming.from)
        /\ answers' = Answered(Incoming.from, "Failure")
        /\ UNCHANGED <<progress, KeptByWork>>
        /\ ReadyOrBusy(<<Signal("PersistException")>>)

OnWorkStageResponse ==
  OnInvalid \/ OnWorkHalt \/ OnLast \/ OnWorking \/ OnDone \/ OnFailed

-----------------------------------------------------------------------------
(* Handled in ready only *)

(* What is told to a WorkStage that died is lost. *)
OnIngest ==
  /\ behavior = "ready" /\ Receive("Ingest")
  /\ \/ scheduler = Null /\ Crash(<<>>)
     \/ /\ scheduler # Null
        /\ expired' = FALSE
        /\ workBox' = IF workStage = "running" THEN Append(workBox, Incoming.from)
                                              ELSE workBox
        /\ Tell(<<>>)
        /\ UNCHANGED <<behavior, lag, held, progress, stopping, cluster, scheduler,
                       timer, working, workStage, closeStage, outside, requests,
                       indexed>>
  /\ UNCHANGED answers

OnTrackError ==
  /\ behavior = "ready" /\ Receive("TrackError")
  /\ \/ scheduler = Null /\ Crash(<<>>) /\ UNCHANGED answers
     \/ /\ scheduler # Null
        /\ scheduler.status = "ERROR"
        /\ answers' = Answered(Incoming.from, "Success")
        /\ TellAndNext(<<>>)
        /\ UNCHANGED <<fields, children, outside, requests, indexed>>
     \/ /\ scheduler # Null
        /\ scheduler.status # "ERROR"
        /\ PipeAndSetUp([op |-> "append"], Incoming.from)
        /\ UNCHANGED <<fields, children, outside, ledger>>

OnRestart ==
  /\ behavior = "ready" /\ Receive("Restart")
  /\ failureTracked' = FALSE
  /\ expired' = FALSE
  /\ TellAndNext(<<UpdateStatus("RUNNING", Incoming.from)>>)
  /\ UNCHANGED <<held, lastIngestionDate, lastReceived, stopping, cluster, scheduler,
                 timer, children, outside, requests, ledger>>

-----------------------------------------------------------------------------
(* Closing and ending *)

OnCloseStageResponse ==
  /\ behavior = "closing" /\ Receive("CloseStageResponse")
  /\ OnlyTell(<<GracefulEnd(Incoming.status)>>)

(* With the failure branch left out. *)
OnDestroyQueueIfPersisted ==
  /\ behavior = "gracefulEnding" /\ Receive("DestroyQueue")
  /\ Tell(<<>>)
  /\ queues' = IF Incoming.ok THEN "deleting" ELSE queues
  /\ UNCHANGED <<behavior, lag, fields, children, row, datasource, shard, sent,
                 requests, ledger>>

OnDestroyQueue ==
  /\ behavior = "gracefulEnding" /\ Receive("DestroyQueue")
  /\ IF Incoming.ok
     THEN Tell(<<>>) /\ queues' = "deleting"
     ELSE Tell(<<Signal("Stop")>>) /\ UNCHANGED queues
  /\ UNCHANGED <<behavior, lag, fields, children, row, datasource, shard, sent,
                 requests, ledger>>

OnDestroyQueueResult ==
  /\ behavior = "gracefulEnding" /\ Receive("DestroyQueueResult")
  /\ OnlyTell(<<Signal("Stop")>>)

-----------------------------------------------------------------------------
(* What a behavior does not handle *)

AfterSetup == {"WakeUp", "Tick", "WorkStageResponse", "TrackDate", "UpdateStatus",
               "Close", "Halt", "PersistException", "TrackFailure", "GracefulEnd"}

Handled ==
  Always \cup
  CASE behavior = "settingUp" -> {"Setup"}
    [] behavior = "ready"     -> AfterSetup \cup {"Ingest", "TrackError", "Restart"}
    [] behavior = "busy"      -> AfterSetup
    [] behavior = "closing"   -> {"CloseStageResponse", "GracefulEnd"}
    [] behavior = "gracefulEnding" -> {"DestroyQueue", "DestroyQueueResult"}
    [] OTHER                  -> {"GracefulEnd"}

Unhandled == /\ behavior # "stopped"
             /\ mailbox # <<>>
             /\ Incoming.kind \notin Handled

OnEnqueue ==
  /\ behavior \in {"settingUp", "busy"}
  /\ Unhandled /\ Incoming.kind # "VoidTick"
  /\ lag' = Append(lag, Incoming)
  /\ Tell(<<>>)
  /\ UNCHANGED <<behavior, fields, children, outside, requests, ledger>>

(* Discarded, unhandled or cancelled: the message is gone, unanswered. *)
OnDiscard ==
  /\ Unhandled
  /\ behavior \notin {"settingUp", "busy"} \/ Incoming.kind = "VoidTick"
  /\ OnlyTell(<<>>)

Actor ==
  \/ OnStart \/ OnStartInternalClock \/ OnStopInternalClock \/ OnStop
  \/ OnClusterEvent \/ OnUpdateScheduler \/ OnSetup \/ OnWakeUp \/ OnTick
  \/ OnTrackDate \/ OnUpdateStatus \/ OnClose \/ OnHalt \/ OnPersistException
  \/ OnTrackFailure \/ OnGracefulEnd \/ OnWorkStageResponse \/ OnIngest
  \/ OnTrackError \/ OnRestart \/ OnCloseStageResponse \/ OnDestroyQueue
  \/ OnDestroyQueueResult \/ OnEnqueue \/ OnDiscard

-----------------------------------------------------------------------------
(* The children *)

Respond(outcome, d) ==
  Arrives([kind |-> "WorkStageResponse", outcome |-> outcome, from |-> d])

(* WorkStage.onStartWorker *)
StartWorker ==
  /\ workBox # <<>>
  /\ workBox' = Tail(workBox)
  /\ LET d == Head(workBox)
     IN \/ PayloadType[d] = "LAST" /\ Respond("Last", d) /\ UNCHANGED working
        \/ PayloadType[d] = "HALT" /\ Respond("Halt", d) /\ UNCHANGED working
        \/ /\ PayloadType[d] = "DOCUMENT"
           /\ Respond("Working", d)
           /\ working' = working \cup {d}
        \/ /\ PayloadType[d] = "DOCUMENT"
           /\ "WorkFailure" \in External
           /\ Respond("Invalid", d)
           /\ UNCHANGED working
  /\ UNCHANGED <<behavior, lag, fields, workStage, closeStage, outside, requests,
                 ledger>>

(* A payload that cannot be read fails the WorkStage, and with it what it  *)
(* has in process; the entity does not watch it.                           *)
FailWorkStage ==
  /\ workBox # <<>>
  /\ Happens("Unreadable")
  /\ workBox' = <<>>
  /\ working' = {}
  /\ workStage' = "dead"
  /\ UNCHANGED <<mailbox, behavior, lag, fields, closeStage, row, datasource, queues,
                 shard, requests, ledger>>

(* WorkStage.onProcessorResponse, onWrite and onPostWrite: the document is *)
(* indexed, skipped or failed.                                             *)
FinishWork(d) ==
  /\ d \in working
  /\ working' = working \ {d}
  /\ \/ Respond("Done", d) /\ indexed' = indexed \cup {d}
     \/ "WorkFailure" \in External /\ Respond("Failed", d) /\ UNCHANGED indexed
  /\ UNCHANGED <<behavior, lag, fields, workBox, workStage, closeStage, outside,
                 requests, answers>>

(* EvaluateStatus judges the row the stage was started with; and with no   *)
(* default for a scheduling without a date.                                *)
ClosingStatusUnset(r) == IF r.date = Null THEN Null ELSE "FINISHED"
ClosingStatus(r) == IF r.date = Null /\ Reindex THEN "CANCELLED" ELSE "FINISHED"

(* UpdateDatasource takes over the row's date, and succeeds if it cannot. *)
CloseStageReplies ==
  /\ closeStage.phase = "running"
  /\ closeStage' = [closeStage EXCEPT !.phase = "dead"]
  /\ \/ datasource' = IF closeStage.row.date = Null THEN datasource
                                                    ELSE closeStage.row.date
     \/ "PersistFailure" \in External /\ UNCHANGED datasource
  /\ Arrives([kind |-> "CloseStageResponse", status |-> ClosingStatus(closeStage.row)])
  /\ UNCHANGED <<behavior, lag, fields, work, row, queues, shard, sent, requests,
                 ledger>>

Children == StartWorker \/ (\E d \in working : FinishWork(d)) \/ CloseStageReplies

-----------------------------------------------------------------------------
(* The surroundings *)

(* QueueManager.onDestroyQueue answers whether or not it could delete; and *)
(* only if it could.                                                       *)
DeleteQueuesSilently ==
  /\ queues \in {"deleting", "abandoned"}
  /\ queues' = "deleted" \/ ("QueueFailure" \in External /\ queues' = "declared")
  /\ IF queues = "deleting" /\ queues' = "deleted"
     THEN Arrives(Signal("DestroyQueueResult")) ELSE UNCHANGED mailbox
  /\ UNCHANGED <<behavior, lag, fields, children, row, datasource, shard, sent,
                 requests, ledger>>

DeleteQueues ==
  /\ queues \in {"deleting", "abandoned"}
  /\ queues' = "deleted" \/ ("QueueFailure" \in External /\ queues' = "declared")
  /\ IF queues = "deleting" THEN Arrives(Signal("DestroyQueueResult"))
                            ELSE UNCHANGED mailbox
  /\ UNCHANGED <<behavior, lag, fields, children, row, datasource, shard, sent,
                 requests, ledger>>

(* The shard creates the entity for a message, and keeps the messages that *)
(* arrive while it stops.                                                  *)
Deliver(message) ==
  /\ \/ /\ behavior = "stopped"
        /\ behavior' = "settingUp"
        /\ mailbox' = <<Signal("Setup"), message>>
     \/ /\ behavior # "stopped" /\ shard = "active"
        /\ Arrives(message)
        /\ UNCHANGED behavior
  /\ UNCHANGED <<lag, fields, children, row, datasource, queues, shard, requests,
                 ledger>>

(* The consumers and the gateway ask; the bound is one request of each. *)
Ask(kind, from) ==
  /\ from \notin sent
  /\ sent' = sent \cup {from}
  /\ Deliver([kind |-> kind, from |-> from])

SendIngest(d) == Ask("Ingest", d)
SendTrackError(c) == Ask("TrackError", c)
SendRestart(c) == Ask("Restart", c)

(* JobScheduler and SchedulerService.  The service reads the row, and tells *)
(* the entity later if it was open; it was so at first, so that whatever    *)
(* became of it the message may be on its way.                              *)
SendWakeUp == Happens("WakeUp") /\ Deliver(Signal("WakeUp"))
SendHalt == Happens("Halt") /\ Deliver(Signal("Halt"))
CancelScheduling == Happens("Cancel") /\ Deliver(GracefulEnd("CANCELLED"))
CloseScheduling == Happens("Close") /\ Deliver(Signal("Close"))

(* The shard sends the stop message on passivation and on rebalance. *)
ShardStops ==
  /\ behavior # "stopped"
  /\ \/ shard = "passivating" /\ UNCHANGED sent
     \/ shard = "active" /\ Happens("Rebalance")
  /\ shard' = "stopping"
  /\ Arrives(Signal("Stop"))
  /\ UNCHANGED <<behavior, lag, fields, children, row, datasource, queues, requests,
                 ledger>>

Queued(kinds) == \E i \in DOMAIN mailbox : mailbox[i].kind \in kinds

(* The timer fires; the bound is one undelivered tick. *)
TimerFires ==
  /\ timer /\ ~Queued({"TimerTick"})
  /\ Arrives(Signal("TimerTick"))
  /\ UNCHANGED allButMailbox

Expire ==
  /\ Happens("Expire") /\ behavior # "stopped"
  /\ expired' = TRUE
  /\ UNCHANGED <<mailbox, behavior, lag, held, progress, stopping, cluster, scheduler,
                 timer, children, row, datasource, queues, shard, requests, ledger>>

(* Cluster membership: a member comes up, is downed, though it may never    *)
(* have come up, or changes in another way; the bounds are MaxNodes and one *)
(* event in flight.                                                         *)
MemberEvent ==
  /\ behavior # "stopped" /\ ~Queued({"MemberUp", "MemberDowned", "MemberOther"})
  /\ \/ nodes < MaxNodes /\ Arrives(Signal("MemberUp"))
     \/ nodes > -MaxNodes /\ Arrives(Signal("MemberDowned"))
     \/ MaxNodes > 0 /\ Arrives(Signal("MemberOther"))
  /\ UNCHANGED allButMailbox

Environment ==
  \/ \E d \in Deliveries : SendIngest(d)
  \/ \E c \in TrackErrors : SendTrackError(c)
  \/ \E c \in Restarts : SendRestart(c)
  \/ SendWakeUp \/ SendHalt \/ CancelScheduling \/ CloseScheduling
  \/ Expire \/ MemberEvent \/ FailWorkStage

(* The row is on the database, the entity not yet created. *)
Init ==
  /\ behavior = "stopped"
  /\ mailbox = <<>>
  /\ lag = <<>>
  /\ adapter = Adapted("None")
  /\ held = {}
  /\ failureTracked = FALSE
  /\ lastIngestionDate = Null
  /\ lastReceived = FALSE
  /\ passivating = FALSE
  /\ stopRequested = FALSE
  /\ expired = FALSE
  /\ nodes = 0
  /\ maxWorkers = WorkersPerNode
  /\ scheduler = Null
  /\ timer = FALSE
  /\ workBox = <<>>
  /\ working = {}
  /\ workStage = "running"
  /\ closeStage = [phase |-> "none", row |-> Null]
  /\ row = [status |-> "RUNNING", date |-> Null]
  /\ datasource = Null
  /\ transactions = <<>>
  /\ queues = "declared"
  /\ shard = "active"
  /\ sent = {}
  /\ answers = [r \in Requesters |-> <<>>]
  /\ indexed = {}

Next == Actor \/ Database \/ Children \/ DeleteQueues \/ ShardStops \/ TimerFires
          \/ Environment

Spec == Init /\ [][Next]_vars

(* The dispatcher runs every actor that has a message, the database and    *)
(* the queue broker answer, the shard stops what it passivates and the     *)
(* timer fires; nothing obliges the environment.                           *)
Fairness == /\ WF_vars(Actor) /\ WF_vars(Database) /\ WF_vars(Children)
            /\ WF_vars(DeleteQueues) /\ WF_vars(ShardStops) /\ WF_vars(TimerFires)

FairSpec == Spec /\ Fairness

-----------------------------------------------------------------------------
(* Every variable keeps its type: no handler meets a message, a status or  *)
(* a row of a shape it does not know.                                      *)
TypeOK ==
  /\ behavior \in {"settingUp", "ready", "busy", "closing", "halted",
                   "gracefulEnding", "stopped"}
  /\ mailbox \in Seq(Command)
  /\ lag \in Seq(Command)
  /\ adapter \in Adapter
  /\ held \subseteq Deliveries
  /\ failureTracked \in BOOLEAN
  /\ lastIngestionDate \in Dates \cup {Null}
  /\ lastReceived \in BOOLEAN
  /\ passivating \in BOOLEAN
  /\ stopRequested \in BOOLEAN
  /\ expired \in BOOLEAN
  /\ nodes \in Int
  /\ maxWorkers \in Int
  /\ scheduler \in Row \cup {Null}
  /\ timer \in BOOLEAN
  /\ workBox \in Seq(Deliveries)
  /\ working \subseteq Deliveries
  /\ workStage \in {"running", "dead"}
  /\ closeStage \in [phase : {"none", "idle"}, row : {Null}]
                       \cup [phase : {"running", "dead"}, row : Row]
  /\ closeStage.phase # "none" => scheduler \in Row
  /\ transactions \in Seq(Transaction)
  /\ row \in Row
  /\ datasource \in Dates \cup {Null}
  /\ queues \in {"declared", "deleting", "abandoned", "deleted"}
  /\ shard \in {"active", "passivating", "stopping"}
  /\ sent \subseteq Requesters \cup ExternalEvents
  /\ answers \in [Requesters -> Seq({"Success", "Failure"})]
  /\ indexed \subseteq Deliveries

Confirmed(d) == \E i \in DOMAIN answers[d] : answers[d][i] = "Success"

(* A consumer acknowledges a document only if it was answered Success; then *)
(* the work on it was done, whatever crashes, stops and reorderings came    *)
(* between.  (onWorkStageResponse, onPostStop)                              *)
SuccessMeansIndexed ==
  \A d \in Deliveries : PayloadType[d] = "DOCUMENT" /\ Confirmed(d) => d \in indexed

(* A delivery is answered at most once, by its outcome or by the release of *)
(* a stop, across incarnations.  (onWorkStageResponse, onPostStop)          *)
AnsweredAtMostOnce == \A d \in Deliveries : Len(answers[d]) <= 1

(* A date the row or the Datasource takes over is that of a document whose  *)
(* work was done, or of a LAST message: a lost update may put an older one  *)
(* back, but the next trigger never starts from the date of a document that *)
(* was not processed.  (onTrackDate, persistLastIngestionDate, UpdateDatasource) *)
HasSource(date) ==
  \E d \in Deliveries : /\ ParsingDate[d] = date
                        /\ d \in indexed \/ (PayloadType[d] = "LAST" /\ Confirmed(d))

DateHasSource ==
  \A date \in {row.date, datasource} \ {Null} : HasSource(date)

AwaitsDatabase ==
  \/ \E i \in DOMAIN transactions : transactions[i].live
  \/ Queued({"UpdateScheduler", "Response"})

(* An entity that only sets commands aside has something on its way that    *)
(* ends the setup, whichever request the adapter was re-registered for.     *)
(* (getStartWrapper, onUpdateScheduler, onStart)                            *)
SettingUpIsAwaited == behavior = "settingUp" => AwaitsDatabase \/ Queued({"Setup", "Start"})

(* A halted entity drops every message but one: the end it waits for is on  *)
(* its way even when the error description cannot be persisted.  (onHalt)   *)
HaltedIsAwaited == behavior = "halted" => AwaitsDatabase \/ Queued({"GracefulEnd"})

(* A gracefully ending entity drops every message but what stops it, which  *)
(* is on its way, unless it noted a stop that it leaves to a Tick.          *)
(* (onGracefulEnd, onDestroyQueue, onDestroyQueueResult, onStop)            *)
GracefulEndingIsAwaited ==
  behavior = "gracefulEnding" /\ ~stopRequested =>
    \/ AwaitsDatabase
    \/ queues = "deleting"
    \/ Queued({"DestroyQueue", "DestroyQueueResult", "Stop"})

(* A busy entity refuses new deliveries: some document is held, or the date *)
(* of the last one is to be tracked.  (onWorkStageResponse, onTrackDate)    *)
BusyIsAwaited == behavior = "busy" => held # {} \/ Queued({"TrackDate"})

(* The entity keeps the promise the consumers rely on: every step is a step *)
(* of the ledger, or leaves it alone.  (onIngest, onWorkStageResponse,       *)
(* onPostStop)                                                              *)
Ledger == INSTANCE DeliveryLedger WITH
            Documents <- { d \in Deliveries : PayloadType[d] = "DOCUMENT" },
            asked     <- sent \cap Deliveries,
            answers   <- [d \in Deliveries |-> answers[d]]

ImplementsLedger == Ledger!Spec

(* What is awaited comes: the entity does not set up, halt or end for ever. *)
(* (onStart, onHalt, onDestroyQueue, onDestroyQueueResult)                  *)
TransitionsEnd ==
  \A b \in {"settingUp", "halted", "gracefulEnding"} : behavior = b ~> behavior # b

(* "The status is written even when the description cannot be: ERROR is     *)
(* what stops the scheduling from closing as FINISHED" (onTrackError).      *)
ErrorNeverFinishes == [][row.status = "ERROR" => row'.status # "FINISHED"]_vars

(* "a message delivered before the shard got the Passivate may have started *)
(* work meanwhile: drain it" (onStop): a passivating entity stops only when *)
(* its WorkStage has nothing left to do.                                    *)
PassivationDrains ==
  [][behavior # "stopped" /\ passivating /\ behavior' = "stopped"
       => workBox = <<>> /\ working = {}]_vars

(* "they stop by themselves once their work is done" (ActorSystemConfig):   *)
(* an entity that ends gracefully stops.                                    *)
EndingStops == behavior = "gracefulEnding" ~> behavior = "stopped"
=============================================================================
