----------------------------- MODULE Enrichment -----------------------------
(***************************************************************************)
(* The enrich pipeline entity: the sharded Pekko actor that takes one      *)
(* document through the enrich items of its pipeline, one at a time.       *)
(* Each item has a supervisor of its own, asked with the item's timeout;   *)
(* the HTTP items share one HttpSupervisor, which starts an HttpProcessor  *)
(* for every call; an asynchronous enricher answers through a callback     *)
(* that carries the nonce its request was given.                           *)
(*                                                                         *)
(* One action is one message handler.  An item is known by its position,   *)
(* as are its supervisor, its groovy actor and its processor: an item is   *)
(* executed once in a run.  A nonce is the start of the run and the item,  *)
(* and a body is the item whose enricher wrote it.  The adapter the        *)
(* HttpSupervisor registers for HttpProcessor.Response is a single slot,   *)
(* looked up when a response is processed.                                 *)
(***************************************************************************)
EXTENDS Naturals, Sequences

CONSTANTS
  Pipelines,     \* the pipelines a scheduling may be configured with
  MaxStarts,     \* bound on the deliveries of the document
  MaxCallbacks,  \* bound on the callbacks the enrichers post
  None           \* no nonce, no start

EnrichItem == [type    : {"HTTP_ASYNC", "HTTP_SYNC", "GROOVY_SCRIPT"},
               script  : BOOLEAN,   \* an HTTP item with a validation script
               onError : {"SKIP", "REJECT", "FAIL"}]

(* The first delivery of the document, then the redeliveries. *)
Starts == 1..MaxStarts

Nonce == Starts \X (Nat \ {0})

ASSUME EnrichmentAssumption ==
  /\ Pipelines \subseteq Seq(EnrichItem)
  /\ MaxStarts \in Nat /\ MaxCallbacks \in Nat
  /\ None \notin Starts \cup Nonce

VARIABLES
  items,      \* the enrich items of the scheduling
  mailbox,    \* the mailbox of the entity
  current,    \* the start in progress, None when the entity is not working
  item,       \* the position of the item in progress
  pending,    \* PendingCallback: the nonce the entity awaits, or None
  asked,      \* the ask of the item in progress is open
  inbox,      \* the mailbox of each item's supervisor
  live,       \* the items whose supervisor has not stopped
  groovy,     \* what each item's groovy actor is running
  httpBox,    \* the mailbox of the HttpSupervisor
  adapter,    \* the item its response adapter answers, 0 before any call
  http,       \* the behavior of each item's HttpProcessor
  delivered,  \* the callbacks handed to a processor that did not take them yet
  early,      \* the processors that hold an early callback
  tokens,     \* the nonces the enrichers were given
  calls,      \* how many callbacks were posted
  sent,       \* how many starts were sent
  answers,    \* what each start was answered, in order
  lost,       \* the starts whose run was lost with the actor
  late,       \* the items whose ask timed out in this run
  handed      \* how many callbacks each item's processor was handed

entity  == <<mailbox, current, item, pending, asked>>
actors  == <<inbox, live, groovy>>
httpActors == <<httpBox, adapter, http, delivered, early>>
outside == <<items, tokens, calls, sent>>
ledger  == <<answers, lost, late, handed>>
vars    == <<entity, actors, httpActors, outside, ledger>>

-----------------------------------------------------------------------------
(* Messages *)

Positions == DOMAIN items

Outcomes == {"EnrichItemError", "ResponseWrapper", "InternalResponse", "InternalError"}

Command(positions) ==
  [kind : {"Start"}, start : Starts]
    \cup [kind : {"Callback", "RegisterCallback"}, nonce : Starts \X positions]
    \cup [kind : {"EnrichItemError", "InternalError"}]
    \cup [kind : {"ResponseWrapper", "InternalResponse"}, body : positions]

ItemCommand(positions) ==
  [kind : {"Execute", "GroovyError", "Valid", "Invalid", "HttpError"}]
    \cup [kind : {"GroovyResponse", "HttpBody"}, body : positions]

HttpCommand(positions) ==
  [kind : {"Call"}, item : positions]
    \cup [kind : {"Response"}, item : positions, ok : BOOLEAN]

Signal(kind)     == [kind |-> kind]
Body(kind, i)    == [kind |-> kind, body |-> i]
Response(i, ok)  == [kind |-> "Response", item |-> i, ok |-> ok]

TypeOK ==
  /\ items \in Pipelines
  /\ mailbox \in Seq(Command(Positions))
  /\ current \in Starts \cup {None}
  /\ item \in Positions \cup {0}
  /\ pending \in (Starts \X Positions) \cup {None}
  /\ asked \in BOOLEAN
  /\ inbox \in [Positions -> Seq(ItemCommand(Positions))]
  /\ live \subseteq Positions
  /\ groovy \in [Positions -> {"idle", "script", "validation"}]
  /\ httpBox \in Seq(HttpCommand(Positions))
  /\ adapter \in Positions \cup {0}
  /\ http \in [Positions -> {"none", "started", "posted", "awaiting", "stopped"}]
  /\ delivered \subseteq Positions
  /\ early \subseteq Positions
  /\ tokens \subseteq Starts \X Positions
  /\ calls \in Nat
  /\ sent \in 0..MaxStarts
  /\ lost \subseteq Starts /\ late \subseteq Positions
  /\ answers \in [Starts -> Seq({"success", "skip", "failure"})]
  /\ handed \in [Positions -> Nat]

-----------------------------------------------------------------------------
(* The entity starts, moves on and stops *)

NoItem(value) == [i \in Positions |-> value]

Init ==
  /\ items \in Pipelines
  /\ mailbox = <<>> /\ current = None /\ item = 0 /\ pending = None /\ asked = FALSE
  /\ inbox = NoItem(<<>>) /\ live = {} /\ groovy = NoItem("idle")
  /\ httpBox = <<>> /\ adapter = 0 /\ http = NoItem("none")
  /\ delivered = {} /\ early = {}
  /\ tokens = {} /\ calls = 0 /\ sent = 0
  /\ answers = [s \in Starts |-> <<>>] /\ lost = {}
  /\ late = {} /\ handed = NoItem(0)

(* Behaviors.stopped: the children stop with the entity, what is left in    *)
(* its mailbox goes to the dead letters; the sharding recreates it.         *)
Stopped ==
  /\ mailbox' = <<>> /\ current' = None /\ item' = 0 /\ pending' = None /\ asked' = FALSE
  /\ inbox' = NoItem(<<>>) /\ live' = {} /\ groovy' = NoItem("idle")
  /\ httpBox' = <<>> /\ adapter' = 0 /\ http' = NoItem("none")
  /\ delivered' = {} /\ early' = {}
  /\ late' = {} /\ handed' = NoItem(0)
  /\ UNCHANGED items

Answer(s, result) == answers' = [answers EXCEPT ![s] = Append(@, result)]

(* The head item is executed: its supervisor is created and asked. *)
Execute(i) ==
  /\ item' = i
  /\ pending' = None
  /\ asked' = TRUE
  /\ inbox' = [inbox EXCEPT ![i] = <<Signal("Execute")>>]
  /\ live' = live \cup {i}
  /\ mailbox' = Tail(mailbox)

(* A mutant: what is left of the items is not checked. *)
InitPipelineUnchecked(s) ==
  /\ Execute(item + 1)
  /\ current' = s
  /\ UNCHANGED <<groovy, httpActors, answers, items, late, handed>>

(* initPipeline on the items after the current one. *)
InitPipeline(s) ==
  \/ /\ item = Len(items)
     /\ Answer(s, "success")
     /\ Stopped
  \/ /\ item < Len(items)
     /\ Execute(item + 1)
     /\ current' = s
     /\ UNCHANGED <<groovy, httpActors, answers, items, late, handed>>

-----------------------------------------------------------------------------
(* The messages of the entity *)

Receive(kind) == mailbox # <<>> /\ Head(mailbox).kind = kind

(* The handler tells itself m. *)
TellSelf(m) ==
  /\ mailbox' = Append(Tail(mailbox), m)
  /\ UNCHANGED <<current, item, pending, asked, actors, httpActors, outside, ledger>>

(* A payload that cannot be decoded fails the actor. *)
OnSetup ==
  /\ Receive("Start") /\ current = None
  /\ \/ /\ InitPipeline(Head(mailbox).start)
        /\ UNCHANGED lost
     \/ /\ Stopped
        /\ lost' = lost \cup {Head(mailbox).start}
        /\ UNCHANGED answers
  /\ UNCHANGED <<tokens, calls, sent>>

(* A mutant: the failure goes to the delivery in progress. *)
OnStartAnswersCurrent ==
  /\ Receive("Start") /\ current # None
  /\ Answer(current, "failure")
  /\ mailbox' = Tail(mailbox)
  /\ UNCHANGED <<current, item, pending, asked, actors, httpActors, outside,
                 lost, late, handed>>

OnStartInProgress ==
  /\ Receive("Start") /\ current # None
  /\ Answer(Head(mailbox).start, "failure")
  /\ mailbox' = Tail(mailbox)
  /\ UNCHANGED <<current, item, pending, asked, actors, httpActors, outside,
                 lost, late, handed>>

(* A mutant: the item is skipped, and with it the rest of the pipeline. *)
SkipsTheRest ==
  /\ items[item].onError \in {"SKIP", "REJECT"}
  /\ Answer(current, "success")
  /\ Stopped
  /\ UNCHANGED <<tokens, calls, sent, lost>>

Skips ==
  /\ items[item].onError = "SKIP"
  /\ InitPipeline(current)
  /\ UNCHANGED <<tokens, calls, sent, lost>>

Rejects ==
  /\ items[item].onError = "REJECT"
  /\ Answer(current, "success")
  /\ Stopped
  /\ UNCHANGED <<tokens, calls, sent, lost>>

(* A mutant: the error is raised to nobody. *)
FailsSilently ==
  /\ items[item].onError = "FAIL"
  /\ mailbox' = Tail(mailbox)
  /\ UNCHANGED <<current, item, pending, asked, actors, httpActors, outside, ledger>>

Fails ==
  /\ items[item].onError = "FAIL"
  /\ TellSelf(Signal("InternalError"))

(* BehaviorOnError. *)
OnEnrichItemError == Receive("EnrichItemError") /\ (Skips \/ Rejects \/ Fails)

OnResponseWrapper ==
  /\ Receive("ResponseWrapper")
  /\ TellSelf(Body("InternalResponse", Head(mailbox).body))

(* The body may carry the enriched payload, the skip flag, something that   *)
(* cannot be read or merged, or a payload whose reading is not guarded.     *)
OnInternalResponse ==
  /\ Receive("InternalResponse")
  /\ \/ /\ InitPipeline(current)
        /\ UNCHANGED <<tokens, calls, sent, lost>>
     \/ /\ Answer(current, "skip")
        /\ Stopped
        /\ UNCHANGED <<tokens, calls, sent, lost>>
     \/ TellSelf(Signal("EnrichItemError"))
     \/ /\ lost' = lost \cup {current}
        /\ Stopped
        /\ UNCHANGED <<tokens, calls, sent, answers>>

OnInternalError ==
  /\ Receive("InternalError")
  /\ Answer(current, "failure")
  /\ Stopped
  /\ UNCHANGED <<tokens, calls, sent, lost>>

OnRegisterCallback ==
  /\ Receive("RegisterCallback")
  /\ pending' = Head(mailbox).nonce
  /\ mailbox' = Tail(mailbox)
  /\ UNCHANGED <<current, item, asked, actors, httpActors, outside, ledger>>

(* The waiter is the processor that registered the nonce. *)
Accept ==
  /\ pending = Head(mailbox).nonce
  /\ delivered' = delivered \cup {pending[2]}
  /\ handed' = [handed EXCEPT ![pending[2]] = @ + 1]
  /\ pending' = None

(* A mutant: an unknown callback disarms the awaited one. *)
DiscardAndDisarm ==
  /\ pending # Head(mailbox).nonce
  /\ pending' = None
  /\ UNCHANGED <<delivered, handed>>

Discard ==
  /\ pending # Head(mailbox).nonce
  /\ UNCHANGED <<pending, delivered, handed>>

OnCallback ==
  /\ Receive("Callback") /\ current # None
  /\ mailbox' = Tail(mailbox)
  /\ Accept \/ Discard
  /\ UNCHANGED <<current, item, asked, actors, httpBox, adapter, http, early,
                 outside, answers, lost, late>>

(* A recreated entity has no pipeline running: unknown, and stop. *)
OnStaleCallback ==
  /\ Receive("Callback") /\ current = None
  /\ Stopped
  /\ UNCHANGED <<tokens, calls, sent, answers, lost>>

-----------------------------------------------------------------------------
(* The supervisor of an item *)

ItemReceives(i, kind) ==
  i \in live /\ inbox[i] # <<>> /\ Head(inbox[i]).kind = kind

Handled(i) == inbox' = [inbox EXCEPT ![i] = Tail(@)]

(* A mutant: a reply is taken after its ask timed out. *)
ReplyAnyway(i, m) ==
  /\ mailbox' = Append(mailbox, m)
  /\ asked' = FALSE

(* The reply reaches the entity while the ask is open, or nobody. *)
Reply(i, m) ==
  \/ /\ asked /\ item = i
     /\ mailbox' = Append(mailbox, m)
     /\ asked' = FALSE
  \/ /\ ~(asked /\ item = i)
     /\ UNCHANGED <<mailbox, asked>>

ReplyAndStop(i, m) ==
  /\ Reply(i, m)
  /\ live' = live \ {i}
  /\ inbox' = [inbox EXCEPT ![i] = <<>>]
  /\ UNCHANGED <<current, item, pending, groovy, httpActors, outside, ledger>>

Call(i) == httpBox' = Append(httpBox, [kind |-> "Call", item |-> i])

(* A mutant: the enricher is called without waiting for the validation, and *)
(* again after it.                                                          *)
ValidateAndCall(i) ==
  /\ groovy' = [groovy EXCEPT ![i] = "validation"]
  /\ Call(i)

Validate(i) ==
  /\ groovy' = [groovy EXCEPT ![i] = "validation"]
  /\ UNCHANGED httpBox

(* A configuration that cannot be read fails the supervisor. *)
OnExecute(i) ==
  /\ ItemReceives(i, "Execute")
  /\ Handled(i)
  /\ \/ /\ items[i].type = "GROOVY_SCRIPT"
        /\ groovy' = [groovy EXCEPT ![i] = "script"]
        /\ UNCHANGED <<live, httpBox>>
     \/ /\ items[i].type # "GROOVY_SCRIPT" /\ items[i].script
        /\ Validate(i)
        /\ UNCHANGED live
     \/ /\ items[i].type # "GROOVY_SCRIPT" /\ ~items[i].script
        /\ Call(i)
        /\ UNCHANGED <<live, groovy>>
     \/ /\ live' = live \ {i}
        /\ UNCHANGED <<groovy, httpBox>>
  /\ UNCHANGED <<entity, adapter, http, delivered, early, outside, ledger>>

(* The script runs; one that cannot be parsed fails the actor silently. *)
RunScript(i) ==
  /\ groovy[i] # "idle"
  /\ groovy' = [groovy EXCEPT ![i] = "idle"]
  /\ \E m \in IF groovy[i] = "script"
              THEN {Body("GroovyResponse", i), Signal("GroovyError")}
              ELSE {Signal("Valid"), Signal("Invalid"), Signal("GroovyError")} :
       inbox' \in {inbox, [inbox EXCEPT ![i] = Append(@, m)]}
  /\ UNCHANGED <<entity, live, httpActors, outside, ledger>>

OnGroovyResponse(i) ==
  \/ /\ ItemReceives(i, "GroovyResponse")
     /\ ReplyAndStop(i, Body("ResponseWrapper", Head(inbox[i]).body))
  \/ /\ ItemReceives(i, "GroovyError") \/ ItemReceives(i, "Invalid")
     /\ ReplyAndStop(i, Signal("EnrichItemError"))

OnGroovyValidatorResponse(i) ==
  /\ ItemReceives(i, "Valid")
  /\ Handled(i)
  /\ Call(i)
  /\ UNCHANGED <<entity, live, groovy, adapter, http, delivered, early, outside, ledger>>

OnHttpResponse(i) ==
  \/ /\ ItemReceives(i, "HttpBody")
     /\ ReplyAndStop(i, Body("ResponseWrapper", Head(inbox[i]).body))
  \/ /\ ItemReceives(i, "HttpError")
     /\ ReplyAndStop(i, Signal("EnrichItemError"))

(* requestTimeout: the entity is told, the supervisor is not. *)
AskTimeout ==
  /\ asked
  /\ asked' = FALSE
  /\ late' = late \cup {item}
  /\ mailbox' = Append(mailbox, Signal("EnrichItemError"))
  /\ UNCHANGED <<current, item, pending, actors, httpActors, outside,
                 answers, lost, handed>>

-----------------------------------------------------------------------------
(* The HTTP actors *)

OnCall ==
  /\ httpBox # <<>> /\ Head(httpBox).kind = "Call"
  /\ adapter' = Head(httpBox).item
  /\ http' = [http EXCEPT ![Head(httpBox).item] = "started"]
  /\ httpBox' = Tail(httpBox)
  /\ UNCHANGED <<entity, actors, delivered, early, outside, ledger>>

(* The response is adapted by the latest registration. *)
OnResponse ==
  /\ httpBox # <<>> /\ Head(httpBox).kind = "Response"
  /\ inbox' = [i \in Positions |->
                 IF i = adapter /\ i \in live
                 THEN Append(inbox[i], IF Head(httpBox).ok
                                       THEN Body("HttpBody", Head(httpBox).item)
                                       ELSE Signal("HttpError"))
                 ELSE inbox[i]]
  /\ httpBox' = Tail(httpBox)
  /\ UNCHANGED <<entity, live, groovy, adapter, http, delivered, early, outside, ledger>>

Async(i) == items[i].type = "HTTP_ASYNC"

(* The processor answers the HttpSupervisor and stops. *)
Conclude(i, ok) ==
  /\ httpBox' = Append(httpBox, Response(i, ok))
  /\ http' = [http EXCEPT ![i] = "stopped"]

(* The entity is told the nonce before the enricher is called. *)
OnStart(i) ==
  /\ http[i] = "started"
  /\ \/ /\ http' = [http EXCEPT ![i] = "posted"]
        /\ IF Async(i)
           THEN /\ mailbox' = Append(mailbox, [kind  |-> "RegisterCallback",
                                               nonce |-> <<current, i>>])
                /\ tokens' = tokens \cup {<<current, i>>}
           ELSE UNCHANGED <<mailbox, tokens>>
        /\ UNCHANGED httpBox
     \/ /\ Conclude(i, FALSE)   \* the URL is not valid
        /\ UNCHANGED <<mailbox, tokens>>
  /\ UNCHANGED <<current, item, pending, asked, actors, adapter, delivered, early,
                 items, calls, sent, ledger>>

(* The enricher answers the request, or its HTTP timeout does. *)
OnHttpOutcome(i) ==
  /\ http[i] = "posted"
  /\ \/ /\ Async(i) /\ i \notin early
        /\ http' = [http EXCEPT ![i] = "awaiting"]
        /\ UNCHANGED httpBox
     \/ /\ Async(i) => i \in early
        /\ Conclude(i, TRUE)
     \/ Conclude(i, FALSE)
  /\ UNCHANGED <<entity, actors, adapter, delivered, early, outside, ledger>>

(* A mutant: a callback that beats the response is not kept; and the code. *)
ForgetEarly(i) == early' = early
KeepEarly(i) == early' = early \cup {i}

OnDelivered(i) ==
  /\ i \in delivered
  /\ delivered' = delivered \ {i}
  /\ \/ /\ http[i] = "posted"
        /\ KeepEarly(i)
        /\ UNCHANGED <<httpBox, http>>
     \/ /\ http[i] = "awaiting"
        /\ Conclude(i, TRUE)
        /\ UNCHANGED early
     \/ /\ http[i] = "stopped"
        /\ UNCHANGED <<httpBox, http, early>>
  /\ UNCHANGED <<entity, actors, adapter, outside, ledger>>

-----------------------------------------------------------------------------
(* The environment *)

SendStart ==
  /\ sent < MaxStarts
  /\ sent' = sent + 1
  /\ mailbox' = Append(mailbox, [kind |-> "Start", start |-> sent + 1])
  /\ UNCHANGED <<current, item, pending, asked, actors, httpActors,
                 items, tokens, calls, ledger>>

PostCallback(n) ==
  /\ n \in tokens /\ calls < MaxCallbacks
  /\ calls' = calls + 1
  /\ mailbox' = Append(mailbox, [kind |-> "Callback", nonce |-> n])
  /\ UNCHANGED <<current, item, pending, asked, actors, httpActors,
                 items, tokens, sent, ledger>>

(* The node leaves the cluster; nothing of the entity is persisted. *)
Crash ==
  /\ current # None
  /\ lost' = lost \cup {current}
  /\ Stopped
  /\ UNCHANGED <<tokens, calls, sent, answers>>

-----------------------------------------------------------------------------
OnMessage ==
  \/ OnSetup \/ OnStartInProgress \/ OnEnrichItemError \/ OnResponseWrapper
  \/ OnInternalResponse \/ OnInternalError \/ OnRegisterCallback
  \/ OnCallback \/ OnStaleCallback

ItemStep(i) ==
  \/ OnExecute(i) \/ RunScript(i) \/ OnGroovyResponse(i)
  \/ OnGroovyValidatorResponse(i) \/ OnHttpResponse(i)

HttpStep(i) == OnStart(i) \/ OnHttpOutcome(i) \/ OnDelivered(i)

Next ==
  \/ OnMessage \/ AskTimeout \/ OnCall \/ OnResponse \/ SendStart \/ Crash
  \/ \E i \in Positions : ItemStep(i) \/ HttpStep(i)
  \/ \E n \in tokens : PostCallback(n)

Spec == Init /\ [][Next]_vars

(* The dispatcher runs every actor that has a message, and the scheduler of *)
(* the actor system fires the timeouts.  Enrichers owe nothing.             *)
FairSpec == Spec /\ WF_vars(OnMessage) /\ WF_vars(AskTimeout)
-----------------------------------------------------------------------------
(* Properties *)

Holds(kinds) == { k \in DOMAIN mailbox : mailbox[k].kind \in kinds }

(* The item in progress has exactly one outcome to come: the open ask, or   *)
(* one message about it in the mailbox.  No item is concluded twice, none   *)
(* is waited for in vain.                                                   *)
OneOutcome ==
  /\ \A j, k \in Holds(Outcomes) : j = k
  /\ Holds(Outcomes) # {} => current # None /\ ~asked
  /\ current # None /\ ~asked => Holds(Outcomes) # {}

(* A delivery is answered at most once, and not while it is in progress:    *)
(* neither a redelivery refused nor a run ended answers another delivery.   *)
AnsweredOnce ==
  /\ \A s \in Starts : Len(answers[s]) <= 1
  /\ current # None => answers[current] = <<>>

(* A body is taken for the result of another item than the one its enricher *)
(* was asked about only after an item timed out; from there on the answers  *)
(* may all be shifted, each taken for the result of a later item.           *)
ForeignIsLate ==
  \A k \in Holds({"ResponseWrapper", "InternalResponse"}) :
    \/ mailbox[k].body = item
    \/ mailbox[k].body < item /\ \E i \in late : i <= mailbox[k].body

(* Unless an earlier item timed out, a callback to the item in progress is  *)
(* recognised from the moment its enricher has the token: the registration  *)
(* is in place, or ahead of it in the mailbox.                              *)
AwaitedIsRegistered ==
  LET n == <<current, item>>
      At(kind) == { k \in Holds({kind}) : mailbox[k].nonce = n }
  IN  asked /\ n \in tokens /\ handed[item] = 0 /\ late = {} =>
        \/ pending = n
        \/ \E r \in At("RegisterCallback") : \A c \in At("Callback") : r < c

(* An accepted callback is not lost between the two connections: a          *)
(* processor that was handed one does not wait for another.                 *)
AcceptedIsKept ==
  \A i \in Positions :
    /\ handed[i] <= 1
    /\ http[i] = "awaiting" /\ handed[i] > 0 => i \in delivered

(* A delivery the entity took up is answered, or its run was lost with the  *)
(* actor: no enricher, callback or redelivery can leave it pending.         *)
TakenUpIsAnswered ==
  \A s \in Starts : current = s ~> answers[s] # <<>> \/ s \in lost

(* The entity as the scheduling sees it: items concluded in order, and an   *)
(* answer that the pipeline's policies allow.                               *)
Contract == INSTANCE EnrichContract WITH working <- current

ImplementsContract == Contract!Spec
=============================================================================
