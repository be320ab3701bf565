-------------------------- MODULE EnrichmentProofs --------------------------
(***************************************************************************)
(* Theorems about the enrichment of a document, for any pipelines, any     *)
(* number of deliveries and callbacks, any timeouts and crashes: every     *)
(* variable keeps its type, an item has one outcome, a delivery is         *)
(* answered once, a callback that was accepted is kept, one that is waited *)
(* for is recognised, the answers are shifted only after a timeout, and    *)
(* the entity implements the contract the scheduling relies on.            *)
(***************************************************************************)
EXTENDS Enrichment, SequenceTheorems, TLAPS

-----------------------------------------------------------------------------
(* The inductive invariants *)

(* Between two runs nothing of a run is left but deliveries and callbacks. *)
AtRest ==
  /\ item = 0 <=> current = None
  /\ current = None =>
       /\ ~asked /\ pending = None /\ httpBox = <<>>
       /\ live = {} /\ delivered = {} /\ early = {} /\ late = {}
       /\ \A i \in Positions :
            inbox[i] = <<>> /\ groovy[i] = "idle" /\ http[i] = "none" /\ handed[i] = 0
       /\ \A k \in DOMAIN mailbox : mailbox[k].kind \in {"Start", "Callback"}

TypeInv == TypeOK /\ AtRest

(* Only an item whose policy is to fail raises the error of the run. *)
FailureIsFinal == \A k \in Holds({"InternalError"}) : items[item].onError = "FAIL"

OutcomeInv == OneOutcome /\ FailureIsFinal

(* What was not started, or not taken up yet, has no answer. *)
AnswerInv ==
  /\ AnsweredOnce
  /\ \A s \in Starts : s > sent => answers[s] = <<>>
  /\ current # None => current <= sent
  /\ \A k \in Holds({"Start"}) :
       /\ answers[mailbox[k].start] = <<>>
       /\ mailbox[k].start # current /\ mailbox[k].start <= sent
  /\ \A j, k \in Holds({"Start"}) : mailbox[j].start = mailbox[k].start => j = k

(* No item before i, nor i, timed out. *)
Punctual(i) == \A j \in late : j > i

(* Nothing is in progress about an item. *)
Quiet(i) ==
  /\ i \notin live /\ inbox[i] = <<>> /\ groovy[i] = "idle"
  /\ http[i] \in {"none", "stopped"}
  /\ \A k \in DOMAIN httpBox : httpBox[k].item # i

(* An item that was not executed yet. *)
Fresh(i) == Quiet(i) /\ http[i] = "none" /\ i \notin late

(* The item in progress is in one place: its supervisor's mailbox, its      *)
(* script, the HttpSupervisor's mailbox or its processor.                   *)
InOnePlace ==
  /\ inbox[item] # <<>> =>
       /\ Len(inbox[item]) = 1 /\ groovy[item] = "idle" /\ httpBox = <<>>
       /\ http[item] \in {"none", "stopped"}
  /\ groovy[item] # "idle" =>
       httpBox = <<>> /\ http[item] \in {"none", "stopped"}
  /\ httpBox # <<>> => Len(httpBox) = 1 /\ http[item] \in {"none", "stopped"}

(* A result may be about item i: it is the item in progress, or it follows  *)
(* a timeout.                                                               *)
Owns(i) == i = item \/ (i < item /\ ~Punctual(i))

FreshAhead == \A i \in Positions : i > item => Fresh(i)

QuietBehind == \A i \in Positions : i < item /\ Punctual(i) => Quiet(i)

OneThread ==
  current # None /\ Punctual(item) => InOnePlace /\ (~asked => Quiet(item))

CallsOwned == \A k \in DOMAIN httpBox : Owns(httpBox[k].item)

InboxOwned ==
  current # None =>
    \A k \in DOMAIN inbox[item] :
      inbox[item][k].kind \in {"GroovyResponse", "HttpBody"} => Owns(inbox[item][k].body)

BodiesOwned ==
  \A k \in Holds({"ResponseWrapper", "InternalResponse"}) : Owns(mailbox[k].body)

ProgressInv ==
  FreshAhead /\ QuietBehind /\ OneThread /\ CallsOwned /\ InboxOwned /\ BodiesOwned

-----------------------------------------------------------------------------
(* Queues and messages *)

(* What is left of a queue without its first message.                       *)
LEMMA TailAt ==
  ASSUME NEW S, NEW q \in Seq(S), q # <<>>
  PROVE  /\ Tail(q) \in Seq(S) /\ Head(q) \in S /\ Head(q) = q[1]
         /\ 1 \in DOMAIN q /\ DOMAIN q \subseteq Nat \ {0}
         /\ \A k \in DOMAIN Tail(q) : k + 1 \in DOMAIN q /\ Tail(q)[k] = q[k + 1]
         /\ \A k \in DOMAIN q : k # 1 => k - 1 \in DOMAIN Tail(q) /\ Tail(q)[k - 1] = q[k]
<1>1. Tail(q) \in Seq(S) /\ Head(q) \in S /\ Len(q) \in Nat \ {0}
      /\ Len(Tail(q)) = Len(q) - 1
      /\ \A k \in 1..Len(Tail(q)) : Tail(q)[k] = q[k + 1]
  BY HeadTailProperties, EmptySeq
<1>2. DOMAIN q = 1..Len(q) /\ DOMAIN Tail(q) = 1..Len(Tail(q))
  BY <1>1, LenProperties
<1>3. Head(q) = q[1]
  OBVIOUS
<1> QED BY <1>1, <1>2, <1>3

(* A queue with one more message.                                           *)
LEMMA AppendAt ==
  ASSUME NEW S, NEW q \in Seq(S), NEW m \in S
  PROVE  /\ Append(q, m) \in Seq(S) /\ Append(q, m) # <<>>
         /\ Len(q) \in Nat /\ DOMAIN q = 1..Len(q)
         /\ DOMAIN Append(q, m) = 1..(Len(q) + 1)
         /\ Append(q, m)[Len(q) + 1] = m
         /\ \A k \in DOMAIN q : Append(q, m)[k] = q[k]
<1>1. /\ Append(q, m) \in Seq(S) /\ Append(q, m) # <<>>
      /\ Len(Append(q, m)) = Len(q) + 1
      /\ \A k \in 1..Len(q) : Append(q, m)[k] = q[k]
      /\ Append(q, m)[Len(q) + 1] = m
  BY AppendProperties
<1>2. /\ Len(q) \in Nat /\ DOMAIN q = 1..Len(q)
      /\ DOMAIN Append(q, m) = 1..Len(Append(q, m))
  BY <1>1, LenProperties
<1> QED BY <1>1, <1>2

(* The messages the actors send are messages of the receivers.              *)
LEMMA Messages ==
  ASSUME NEW P
  PROVE  /\ \A s \in Starts : [kind |-> "Start", start |-> s] \in Command(P)
         /\ \A n \in Starts \X P :
              /\ [kind |-> "Callback", nonce |-> n] \in Command(P)
              /\ [kind |-> "RegisterCallback", nonce |-> n] \in Command(P)
         /\ Signal("EnrichItemError") \in Command(P) /\ Signal("InternalError") \in Command(P)
         /\ \A i \in P : /\ Body("ResponseWrapper", i) \in Command(P)
                         /\ Body("InternalResponse", i) \in Command(P)
         /\ \A k \in {"Execute", "GroovyError", "Valid", "Invalid", "HttpError"} :
              Signal(k) \in ItemCommand(P)
         /\ \A i \in P : /\ Body("GroovyResponse", i) \in ItemCommand(P)
                         /\ Body("HttpBody", i) \in ItemCommand(P)
                         /\ [kind |-> "Call", item |-> i] \in HttpCommand(P)
                         /\ \A ok \in BOOLEAN : Response(i, ok) \in HttpCommand(P)
<1>1. /\ \A s \in Starts : [kind |-> "Start", start |-> s] \in Command(P)
      /\ \A n \in Starts \X P :
           /\ [kind |-> "Callback", nonce |-> n] \in Command(P)
           /\ [kind |-> "RegisterCallback", nonce |-> n] \in Command(P)
  BY DEF Command
<1>2. /\ Signal("EnrichItemError") \in Command(P) /\ Signal("InternalError") \in Command(P)
      /\ \A i \in P : /\ Body("ResponseWrapper", i) \in Command(P)
                      /\ Body("InternalResponse", i) \in Command(P)
  BY DEF Command, Signal, Body
<1>3. /\ \A k \in {"Execute", "GroovyError", "Valid", "Invalid", "HttpError"} :
           Signal(k) \in ItemCommand(P)
      /\ \A i \in P : /\ Body("GroovyResponse", i) \in ItemCommand(P)
                      /\ Body("HttpBody", i) \in ItemCommand(P)
  BY DEF ItemCommand, Signal, Body
<1>4. \A i \in P : /\ [kind |-> "Call", item |-> i] \in HttpCommand(P)
                  /\ \A ok \in BOOLEAN : Response(i, ok) \in HttpCommand(P)
  BY DEF HttpCommand, Response
<1> QED BY <1>1, <1>2, <1>3, <1>4

(* What the messages carry, by their kind.                                  *)
LEMMA MessageParts ==
  ASSUME NEW P
  PROVE  /\ \A m \in Command(P) :
              /\ m.kind \in Outcomes \cup {"Start", "Callback", "RegisterCallback"}
              /\ m.kind = "Start" => m.start \in Starts
              /\ m.kind \in {"Callback", "RegisterCallback"} => m.nonce \in Starts \X P
              /\ m.kind \in {"ResponseWrapper", "InternalResponse"} => m.body \in P
         /\ \A m \in ItemCommand(P) : m.kind \in {"GroovyResponse", "HttpBody"} => m.body \in P
         /\ \A m \in HttpCommand(P) :
              /\ m.kind \in {"Call", "Response"} /\ m.item \in P
              /\ m.kind = "Response" => m.ok \in BOOLEAN
<1>1. \A m \in Command(P) :
        /\ m.kind \in Outcomes \cup {"Start", "Callback", "RegisterCallback"}
        /\ m.kind = "Start" => m.start \in Starts
        /\ m.kind \in {"Callback", "RegisterCallback"} => m.nonce \in Starts \X P
        /\ m.kind \in {"ResponseWrapper", "InternalResponse"} => m.body \in P
  BY DEF Command, Outcomes
<1>2. \A m \in ItemCommand(P) : m.kind \in {"GroovyResponse", "HttpBody"} => m.body \in P
  BY DEF ItemCommand
<1>3. \A m \in HttpCommand(P) :
        /\ m.kind \in {"Call", "Response"} /\ m.item \in P
        /\ m.kind = "Response" => m.ok \in BOOLEAN
  BY DEF HttpCommand
<1> QED BY <1>1, <1>2, <1>3

-----------------------------------------------------------------------------
(* Types *)

EntityOK ==
  /\ mailbox \in Seq(Command(Positions))
  /\ current \in Starts \cup {None}
  /\ item \in Positions \cup {0}
  /\ pending \in (Starts \X Positions) \cup {None}
  /\ asked \in BOOLEAN

ActorsOK ==
  /\ inbox \in [Positions -> Seq(ItemCommand(Positions))]
  /\ live \subseteq Positions
  /\ groovy \in [Positions -> {"idle", "script", "validation"}]

HttpOK ==
  /\ httpBox \in Seq(HttpCommand(Positions))
  /\ adapter \in Positions \cup {0}
  /\ http \in [Positions -> {"none", "started", "posted", "awaiting", "stopped"}]
  /\ delivered \subseteq Positions
  /\ early \subseteq Positions

OutsideOK ==
  /\ items \in Pipelines
  /\ tokens \subseteq Starts \X Positions
  /\ calls \in Nat
  /\ sent \in 0..MaxStarts

LedgerOK ==
  /\ answers \in [Starts -> Seq({"success", "skip", "failure"})]
  /\ lost \subseteq Starts /\ late \subseteq Positions
  /\ handed \in [Positions -> Nat]

(* The parts of the type invariant.                                         *)
LEMMA TypeParts ==
  TypeInv <=> EntityOK /\ ActorsOK /\ HttpOK /\ OutsideOK /\ LedgerOK /\ AtRest
  BY DEF TypeInv, TypeOK, EntityOK, ActorsOK, HttpOK, OutsideOK, LedgerOK

LEMMA TypePartsNext ==
  ASSUME EntityOK', ActorsOK', HttpOK', OutsideOK', LedgerOK', AtRest'
  PROVE  TypeInv'
  BY DEF TypeInv, TypeOK, EntityOK, ActorsOK, HttpOK, OutsideOK, LedgerOK

(* A pipeline is a sequence of items.                                       *)
LEMMA Pipeline ==
  ASSUME OutsideOK
  PROVE  Len(items) \in Nat /\ Positions = 1..Len(items) /\ items \in Seq(EnrichItem)
<1>1. items \in Seq(EnrichItem)
  BY EnrichmentAssumption DEF OutsideOK
<1> QED BY <1>1, LenProperties DEF Positions

(* The parts a step leaves alone keep their types.                          *)
LEMMA Frames ==
  ASSUME TypeInv, UNCHANGED items
  PROVE  /\ Positions' = Positions
         /\ UNCHANGED actors => ActorsOK'
         /\ UNCHANGED httpActors => HttpOK'
         /\ UNCHANGED <<tokens, calls, sent>> => OutsideOK'
         /\ UNCHANGED ledger => LedgerOK'
         /\ UNCHANGED entity => EntityOK'
<1>0. Positions' = Positions
  BY DEF Positions
<1>1. UNCHANGED actors => ActorsOK'
  BY <1>0, TypeParts DEF actors, ActorsOK
<1>2. UNCHANGED httpActors => HttpOK'
  BY <1>0, TypeParts DEF httpActors, HttpOK
<1>3. UNCHANGED <<tokens, calls, sent>> => OutsideOK'
  BY <1>0, TypeParts DEF OutsideOK
<1>4. UNCHANGED ledger => LedgerOK'
  BY <1>0, TypeParts DEF ledger, LedgerOK
<1>5. UNCHANGED entity => EntityOK'
  BY <1>0, TypeParts DEF entity, EntityOK
<1> QED BY <1>0, <1>1, <1>2, <1>3, <1>4, <1>5

(* The mailbox of the entity with one message less, one more, or both.      *)
LEMMA MailboxType ==
  ASSUME TypeInv, UNCHANGED items
  PROVE  /\ mailbox # <<>> =>
              /\ Tail(mailbox) \in Seq(Command(Positions')) /\ Head(mailbox) \in Command(Positions)
              /\ \A m \in Command(Positions) : Append(Tail(mailbox), m) \in Seq(Command(Positions'))
         /\ \A m \in Command(Positions) : Append(mailbox, m) \in Seq(Command(Positions'))
         /\ mailbox \in Seq(Command(Positions'))
<1>1. Positions' = Positions /\ mailbox \in Seq(Command(Positions))
  BY TypeParts, Frames DEF EntityOK
<1>2. ASSUME mailbox # <<>>
      PROVE  /\ Tail(mailbox) \in Seq(Command(Positions)) /\ Head(mailbox) \in Command(Positions)
             /\ \A m \in Command(Positions) : Append(Tail(mailbox), m) \in Seq(Command(Positions))
  BY <1>1, <1>2, HeadTailProperties, AppendProperties
<1>3. \A m \in Command(Positions) : Append(mailbox, m) \in Seq(Command(Positions))
  BY <1>1, AppendProperties
<1> QED BY <1>1, <1>2, <1>3

(* A run is in progress when anything of it is.                             *)
LEMMA Working ==
  ASSUME TypeInv
  PROVE  /\ current # None <=> item # 0
         /\ current # None <=> item \in Positions
         /\ asked \/ httpBox # <<>> => current # None
         /\ \A i \in Positions :
              i \in live \/ i \in delivered \/ inbox[i] # <<>>
                \/ groovy[i] # "idle" \/ http[i] # "none" => current # None
         /\ mailbox # <<>> /\ Head(mailbox).kind \notin {"Start", "Callback"} => current # None
<1>1. mailbox # <<>> => Head(mailbox) = mailbox[1] /\ 1 \in DOMAIN mailbox
  BY TypeParts, TailAt DEF EntityOK
<1>2. item \in Positions \cup {0} /\ 0 \notin Positions
  BY TypeParts, Pipeline DEF EntityOK
<1> QED BY <1>1, <1>2, TypeParts DEF AtRest

(* A step that stays in the run does not disturb the rest.                  *)
LEMMA RestFrame ==
  ASSUME TypeInv, current # None, UNCHANGED <<current, item>>
  PROVE  AtRest'
  BY TypeParts DEF AtRest

(* The end of a run keeps the types, and leaves nothing of it.              *)
LEMMA StoppedType ==
  ASSUME TypeInv, Stopped, UNCHANGED <<tokens, calls, sent>>,
         answers' \in [Starts -> Seq({"success", "skip", "failure"})], lost' \subseteq Starts
  PROVE  TypeInv'
<1>0. UNCHANGED items /\ Positions' = Positions /\ OutsideOK'
  BY Frames DEF Stopped
<1>1. EntityOK'
  BY <1>0, EmptySeq DEF Stopped, EntityOK
<1>2. ActorsOK'
  BY <1>0, EmptySeq DEF Stopped, ActorsOK, NoItem
<1>3. HttpOK'
  BY <1>0, EmptySeq DEF Stopped, HttpOK, NoItem
<1>4. LedgerOK'
  BY <1>0 DEF Stopped, LedgerOK, NoItem
<1>5. AtRest'
  BY <1>0 DEF Stopped, AtRest, NoItem
<1> QED BY <1>0, <1>1, <1>2, <1>3, <1>4, <1>5, TypePartsNext

(* One more answer to a start.                                              *)
LEMMA AnswerType ==
  ASSUME TypeInv, NEW s \in Starts, NEW result \in {"success", "skip", "failure"},
         Answer(s, result)
  PROVE  answers' \in [Starts -> Seq({"success", "skip", "failure"})]
<1>1. Append(answers[s], result) \in Seq({"success", "skip", "failure"})
  BY TypeParts, AppendProperties DEF LedgerOK
<1> QED BY <1>1, TypeParts DEF LedgerOK, Answer

(* The next item is executed, of a run that begins or goes on.              *)
LEMMA ExecuteType ==
  ASSUME TypeInv, NEW s \in Starts, mailbox # <<>>, item < Len(items),
         Execute(item + 1), current' = s,
         UNCHANGED <<groovy, httpActors, items, late, handed, tokens, calls, sent>>,
         answers' \in [Starts -> Seq({"success", "skip", "failure"})], lost' \subseteq Starts
  PROVE  TypeInv'
<1>1. item + 1 \in Positions /\ item + 1 # 0 /\ s # None
  BY TypeParts, Pipeline, EnrichmentAssumption DEF EntityOK
<1>2. EntityOK'
  BY <1>1, Frames, MailboxType DEF Execute, EntityOK
<1>3. ActorsOK'
  <2>1. <<Signal("Execute")>> \in Seq(ItemCommand(Positions))
    BY Messages
  <2> QED BY <1>1, <2>1, Frames, TypeParts DEF Execute, ActorsOK
<1>4. HttpOK' /\ OutsideOK' /\ LedgerOK'
  BY Frames, TypeParts DEF LedgerOK
<1>5. AtRest'
  BY <1>1 DEF Execute, AtRest
<1> QED BY <1>2, <1>3, <1>4, <1>5, TypePartsNext

LEMMA InitPipelineType ==
  ASSUME TypeInv, NEW s \in Starts, mailbox # <<>>, InitPipeline(s),
         UNCHANGED <<tokens, calls, sent>>, lost' \subseteq Starts
  PROVE  TypeInv'
<1>1. CASE item = Len(items) /\ Answer(s, "success") /\ Stopped
  BY <1>1, AnswerType, StoppedType
<1>2. CASE /\ item < Len(items) /\ Execute(item + 1) /\ current' = s
           /\ UNCHANGED <<groovy, httpActors, answers, items, late, handed>>
  BY <1>2, ExecuteType, TypeParts DEF LedgerOK
<1> QED BY <1>1, <1>2 DEF InitPipeline

(* The handler tells itself a message.                                      *)
LEMMA TellSelfType ==
  ASSUME TypeInv, mailbox # <<>>, current # None,
         NEW m \in Command(Positions), TellSelf(m)
  PROVE  TypeInv'
<1>1. UNCHANGED <<items, tokens, calls, sent, current, item>>
  BY DEF TellSelf, outside
<1>2. ActorsOK' /\ HttpOK' /\ OutsideOK' /\ LedgerOK'
  BY <1>1, Frames DEF TellSelf
<1>3. EntityOK'
  BY <1>1, Frames, MailboxType, TypeParts DEF TellSelf, EntityOK
<1> QED BY <1>1, <1>2, <1>3, RestFrame, TypePartsNext

(* The messages of the entity.                                              *)
LEMMA OnSetupType ==
  ASSUME TypeInv, OnSetup
  PROVE  TypeInv'
<1>1. mailbox # <<>> /\ Head(mailbox).start \in Starts
  BY MailboxType, MessageParts, TypeParts, TailAt DEF OnSetup, Receive, EntityOK
<1>2. lost' \subseteq Starts /\ answers \in [Starts -> Seq({"success", "skip", "failure"})]
  BY <1>1, TypeParts DEF OnSetup, LedgerOK
<1>3. CASE InitPipeline(Head(mailbox).start) /\ UNCHANGED lost
  BY <1>1, <1>2, <1>3, InitPipelineType DEF OnSetup
<1>4. CASE Stopped /\ UNCHANGED answers
  BY <1>1, <1>2, <1>4, StoppedType DEF OnSetup
<1> QED BY <1>3, <1>4 DEF OnSetup

LEMMA OnStartInProgressType ==
  ASSUME TypeInv, OnStartInProgress
  PROVE  TypeInv'
<1>1. mailbox # <<>> /\ Head(mailbox).start \in Starts /\ current # None
  BY MessageParts, TypeParts, TailAt DEF OnStartInProgress, Receive, EntityOK
<1>2. UNCHANGED <<items, tokens, calls, sent, current, item>>
  BY DEF OnStartInProgress, outside
<1>3. ActorsOK' /\ HttpOK' /\ OutsideOK'
  BY <1>2, Frames DEF OnStartInProgress
<1>4. EntityOK'
  BY <1>1, <1>2, Frames, MailboxType, TypeParts DEF OnStartInProgress, EntityOK
<1>5. LedgerOK'
  <2>1. answers' \in [Starts -> Seq({"success", "skip", "failure"})]
    BY <1>1, AnswerType DEF OnStartInProgress
  <2> QED BY <2>1, <1>2, Frames, TypeParts DEF OnStartInProgress, LedgerOK
<1> QED BY <1>1, <1>2, <1>3, <1>4, <1>5, RestFrame, TypePartsNext

(* The end of the run in progress, whatever it answers.                     *)
LEMMA EndType ==
  ASSUME TypeInv, current # None, Stopped, UNCHANGED <<tokens, calls, sent>>,
         \/ \E result \in {"success", "skip", "failure"} : Answer(current, result) /\ UNCHANGED lost
         \/ lost' = lost \cup {current} /\ UNCHANGED answers
  PROVE  TypeInv'
<1>1. current \in Starts
  BY TypeParts DEF EntityOK
<1>2. answers' \in [Starts -> Seq({"success", "skip", "failure"})] /\ lost' \subseteq Starts
  BY <1>1, AnswerType, TypeParts DEF LedgerOK
<1> QED BY <1>2, StoppedType

LEMMA OnEnrichItemErrorType ==
  ASSUME TypeInv, OnEnrichItemError
  PROVE  TypeInv'
<1>1. mailbox # <<>> /\ current # None /\ current \in Starts
  BY Working, TypeParts DEF OnEnrichItemError, Receive, EntityOK
<1>2. CASE Skips
  BY <1>1, <1>2, InitPipelineType, TypeParts DEF Skips, LedgerOK
<1>3. CASE Rejects
  BY <1>1, <1>3, EndType DEF Rejects
<1>4. CASE Fails
  BY <1>1, <1>4, Messages, TellSelfType DEF Fails
<1> QED BY <1>2, <1>3, <1>4 DEF OnEnrichItemError

LEMMA OnResponseWrapperType ==
  ASSUME TypeInv, OnResponseWrapper
  PROVE  TypeInv'
<1>1. mailbox # <<>> /\ current # None
  BY Working DEF OnResponseWrapper, Receive
<1>2. Head(mailbox).body \in Positions
  BY <1>1, MailboxType, MessageParts, TypeParts, TailAt DEF OnResponseWrapper, Receive, EntityOK
<1> QED BY <1>1, <1>2, Messages, TellSelfType DEF OnResponseWrapper

LEMMA OnInternalResponseType ==
  ASSUME TypeInv, OnInternalResponse
  PROVE  TypeInv'
<1>1. mailbox # <<>> /\ current # None /\ current \in Starts
  BY Working, TypeParts DEF OnInternalResponse, Receive, EntityOK
<1>2. CASE InitPipeline(current) /\ UNCHANGED <<tokens, calls, sent, lost>>
  BY <1>1, <1>2, InitPipelineType, TypeParts DEF LedgerOK
<1>3. CASE Answer(current, "skip") /\ Stopped /\ UNCHANGED <<tokens, calls, sent, lost>>
  BY <1>1, <1>3, EndType
<1>4. CASE TellSelf(Signal("EnrichItemError"))
  BY <1>1, <1>4, Messages, TellSelfType
<1>5. CASE lost' = lost \cup {current} /\ Stopped /\ UNCHANGED <<tokens, calls, sent, answers>>
  BY <1>1, <1>5, EndType
<1> QED BY <1>2, <1>3, <1>4, <1>5 DEF OnInternalResponse

LEMMA OnInternalErrorType ==
  ASSUME TypeInv, OnInternalError
  PROVE  TypeInv'
  BY Working, EndType DEF OnInternalError, Receive

(* A message of a callback is taken and the run goes on.                    *)
LEMMA TakenType ==
  ASSUME TypeInv, mailbox # <<>>, current # None, mailbox' = Tail(mailbox),
         UNCHANGED <<current, item, asked, items, actors, tokens, calls, sent>>,
         pending' \in (Starts \X Positions) \cup {None},
         HttpOK', LedgerOK'
  PROVE  TypeInv'
<1>1. EntityOK'
  BY Frames, MailboxType, TypeParts DEF EntityOK
<1> QED BY <1>1, Frames, RestFrame, TypePartsNext

LEMMA OnRegisterCallbackType ==
  ASSUME TypeInv, OnRegisterCallback
  PROVE  TypeInv'
<1>1. mailbox # <<>> /\ current # None
  BY Working DEF OnRegisterCallback, Receive
<1>2. Head(mailbox).nonce \in Starts \X Positions
  BY <1>1, MessageParts, TypeParts, TailAt DEF OnRegisterCallback, Receive, EntityOK
<1>3. UNCHANGED <<items, tokens, calls, sent>>
  BY DEF OnRegisterCallback, outside
<1>4. HttpOK' /\ LedgerOK'
  BY <1>3, Frames DEF OnRegisterCallback
<1> QED BY <1>1, <1>2, <1>3, <1>4, TakenType DEF OnRegisterCallback

LEMMA OnCallbackType ==
  ASSUME TypeInv, OnCallback
  PROVE  TypeInv'
<1>1. mailbox # <<>> /\ current # None
  BY DEF OnCallback, Receive
<1>2. Head(mailbox).nonce \in Starts \X Positions
  BY <1>1, MessageParts, TypeParts, TailAt DEF OnCallback, Receive, EntityOK
<1>3. UNCHANGED <<items, tokens, calls, sent>> /\ Positions' = Positions
  BY Frames DEF OnCallback, outside
<1>4. CASE Accept
  <2>1. pending[2] \in Positions
    BY <1>2, <1>4 DEF Accept
  <2>2. HttpOK' /\ LedgerOK' /\ pending' = None
    BY <2>1, <1>3, <1>4, TypeParts DEF Accept, OnCallback, HttpOK, LedgerOK
  <2> QED BY <2>2, <1>1, <1>3, TakenType DEF OnCallback
<1>5. CASE Discard
  <2>1. HttpOK' /\ LedgerOK' /\ pending' = pending
    BY <1>3, <1>5, TypeParts DEF Discard, OnCallback, HttpOK, LedgerOK
  <2> QED BY <2>1, <1>1, <1>3, TakenType, TypeParts DEF OnCallback, EntityOK
<1> QED BY <1>4, <1>5 DEF OnCallback

LEMMA OnStaleCallbackType ==
  ASSUME TypeInv, OnStaleCallback
  PROVE  TypeInv'
  BY StoppedType, TypeParts DEF OnStaleCallback, LedgerOK

(* The supervisor of an item.                                               *)
LEMMA InboxType ==
  ASSUME TypeInv, NEW i \in Positions
  PROVE  /\ inbox[i] \in Seq(ItemCommand(Positions))
         /\ inbox[i] # <<>> =>
              /\ Tail(inbox[i]) \in Seq(ItemCommand(Positions))
              /\ Head(inbox[i]) \in ItemCommand(Positions)
         /\ \A m \in ItemCommand(Positions) :
              Append(inbox[i], m) \in Seq(ItemCommand(Positions))
<1>1. inbox[i] \in Seq(ItemCommand(Positions))
  BY TypeParts DEF ActorsOK
<1> QED BY <1>1, HeadTailProperties, AppendProperties

LEMMA HttpBoxType ==
  ASSUME TypeInv
  PROVE  /\ httpBox \in Seq(HttpCommand(Positions))
         /\ httpBox # <<>> =>
              /\ Tail(httpBox) \in Seq(HttpCommand(Positions))
              /\ Head(httpBox) \in HttpCommand(Positions)
         /\ \A m \in HttpCommand(Positions) :
              Append(httpBox, m) \in Seq(HttpCommand(Positions))
<1>1. httpBox \in Seq(HttpCommand(Positions))
  BY TypeParts DEF HttpOK
<1> QED BY <1>1, HeadTailProperties, AppendProperties

LEMMA OnExecuteType ==
  ASSUME TypeInv, NEW i \in Positions, OnExecute(i)
  PROVE  TypeInv'
<1>1. UNCHANGED <<items, tokens, calls, sent, current, item>> /\ Positions' = Positions
  BY Frames DEF OnExecute, outside, entity
<1>2. EntityOK' /\ OutsideOK' /\ LedgerOK'
  BY <1>1, Frames DEF OnExecute
<1>3. AtRest'
  BY <1>1, Working, RestFrame DEF OnExecute, ItemReceives
<1>4. ActorsOK'
  BY <1>1, InboxType, TypeParts DEF OnExecute, ItemReceives, Handled, Validate, ActorsOK
<1>5. HttpOK'
  BY <1>1, HttpBoxType, Messages, TypeParts DEF OnExecute, Validate, Call, HttpOK
<1> QED BY <1>2, <1>3, <1>4, <1>5, TypePartsNext

LEMMA RunScriptType ==
  ASSUME TypeInv, NEW i \in Positions, RunScript(i)
  PROVE  TypeInv'
<1>1. UNCHANGED <<items, tokens, calls, sent, current, item>> /\ Positions' = Positions
  BY Frames DEF RunScript, outside, entity
<1>2. EntityOK' /\ HttpOK' /\ OutsideOK' /\ LedgerOK'
  BY <1>1, Frames DEF RunScript
<1>3. AtRest'
  BY <1>1, Working, RestFrame DEF RunScript
<1>4. PICK m \in ItemCommand(Positions) :
        inbox' = inbox \/ inbox' = [inbox EXCEPT ![i] = Append(@, m)]
  BY Messages DEF RunScript
<1>5. ActorsOK'
  BY <1>1, <1>4, InboxType, TypeParts DEF RunScript, ActorsOK
<1> QED BY <1>2, <1>3, <1>5, TypePartsNext

LEMMA ReplyAndStopType ==
  ASSUME TypeInv, NEW i \in Positions, i \in live,
         NEW m \in Command(Positions), ReplyAndStop(i, m)
  PROVE  TypeInv'
<1>1. UNCHANGED <<items, tokens, calls, sent, current, item>> /\ Positions' = Positions
  BY Frames DEF ReplyAndStop, outside
<1>2. HttpOK' /\ OutsideOK' /\ LedgerOK'
  BY <1>1, Frames DEF ReplyAndStop
<1>3. AtRest'
  BY <1>1, Working, RestFrame
<1>4. EntityOK'
  BY <1>1, MailboxType, TypeParts DEF ReplyAndStop, Reply, EntityOK
<1>5. ActorsOK'
  BY <1>1, EmptySeq, TypeParts DEF ReplyAndStop, ActorsOK
<1> QED BY <1>2, <1>3, <1>4, <1>5, TypePartsNext

LEMMA RepliesType ==
  ASSUME TypeInv, NEW i \in Positions, OnGroovyResponse(i) \/ OnHttpResponse(i)
  PROVE  TypeInv'
<1>1. i \in live
  BY DEF OnGroovyResponse, OnHttpResponse, ItemReceives
<1>2. CASE \/ ItemReceives(i, "GroovyResponse") /\ ReplyAndStop(i, Body("ResponseWrapper", Head(inbox[i]).body))
           \/ ItemReceives(i, "HttpBody") /\ ReplyAndStop(i, Body("ResponseWrapper", Head(inbox[i]).body))
  <2>1. Head(inbox[i]).body \in Positions
    BY <1>2, InboxType, MessageParts DEF ItemReceives
  <2> QED BY <2>1, <1>1, <1>2, Messages, ReplyAndStopType
<1>3. CASE ReplyAndStop(i, Signal("EnrichItemError"))
  BY <1>1, <1>3, Messages, ReplyAndStopType
<1> QED BY <1>2, <1>3 DEF OnGroovyResponse, OnHttpResponse

LEMMA OnGroovyValidatorResponseType ==
  ASSUME TypeInv, NEW i \in Positions, OnGroovyValidatorResponse(i)
  PROVE  TypeInv'
<1>1. UNCHANGED <<items, tokens, calls, sent, current, item>> /\ Positions' = Positions
  BY Frames DEF OnGroovyValidatorResponse, outside, entity
<1>2. EntityOK' /\ OutsideOK' /\ LedgerOK'
  BY <1>1, Frames DEF OnGroovyValidatorResponse
<1>3. AtRest'
  BY <1>1, Working, RestFrame DEF OnGroovyValidatorResponse, ItemReceives
<1>4. ActorsOK'
  BY <1>1, InboxType, TypeParts DEF OnGroovyValidatorResponse, ItemReceives, Handled, ActorsOK
<1>5. HttpOK'
  BY <1>1, HttpBoxType, Messages, TypeParts DEF OnGroovyValidatorResponse, Call, HttpOK
<1> QED BY <1>2, <1>3, <1>4, <1>5, TypePartsNext

LEMMA AskTimeoutType ==
  ASSUME TypeInv, AskTimeout
  PROVE  TypeInv'
<1>1. UNCHANGED <<items, tokens, calls, sent, current, item>> /\ Positions' = Positions
  BY Frames DEF AskTimeout, outside
<1>2. ActorsOK' /\ HttpOK' /\ OutsideOK'
  BY <1>1, Frames DEF AskTimeout
<1>3. AtRest' /\ item \in Positions
  BY <1>1, Working, RestFrame DEF AskTimeout
<1>4. EntityOK'
  BY <1>1, MailboxType, Messages, TypeParts DEF AskTimeout, EntityOK
<1>5. LedgerOK'
  BY <1>1, <1>3, TypeParts DEF AskTimeout, LedgerOK
<1> QED BY <1>2, <1>3, <1>4, <1>5, TypePartsNext

(* The HTTP actors.                                                         *)
LEMMA OnCallType ==
  ASSUME TypeInv, OnCall
  PROVE  TypeInv'
<1>1. UNCHANGED <<items, tokens, calls, sent, current, item>> /\ Positions' = Positions
  BY Frames DEF OnCall, outside, entity
<1>2. EntityOK' /\ ActorsOK' /\ OutsideOK' /\ LedgerOK'
  BY <1>1, Frames DEF OnCall
<1>3. AtRest'
  BY <1>1, Working, RestFrame DEF OnCall
<1>4. Head(httpBox).item \in Positions
  BY HttpBoxType, MessageParts DEF OnCall
<1>5. HttpOK'
  BY <1>1, <1>4, HttpBoxType, TypeParts DEF OnCall, HttpOK
<1> QED BY <1>2, <1>3, <1>5, TypePartsNext

LEMMA OnResponseType ==
  ASSUME TypeInv, OnResponse
  PROVE  TypeInv'
<1>1. UNCHANGED <<items, tokens, calls, sent, current, item>> /\ Positions' = Positions
  BY Frames DEF OnResponse, outside, entity
<1>2. EntityOK' /\ OutsideOK' /\ LedgerOK'
  BY <1>1, Frames DEF OnResponse
<1>3. AtRest'
  BY <1>1, Working, RestFrame DEF OnResponse
<1>4. Body("HttpBody", Head(httpBox).item) \in ItemCommand(Positions)
      /\ Signal("HttpError") \in ItemCommand(Positions)
  BY HttpBoxType, MessageParts, Messages DEF OnResponse
<1>5. ActorsOK'
  BY <1>1, <1>4, InboxType, TypeParts DEF OnResponse, ActorsOK
<1>6. HttpOK'
  BY <1>1, HttpBoxType, TypeParts DEF OnResponse, HttpOK
<1> QED BY <1>2, <1>3, <1>5, <1>6, TypePartsNext

LEMMA ConcludeType ==
  ASSUME TypeInv, UNCHANGED <<items, adapter>>, NEW i \in Positions, NEW ok \in BOOLEAN,
         Conclude(i, ok), delivered' \subseteq Positions, early' \subseteq Positions
  PROVE  HttpOK'
  BY Frames, HttpBoxType, Messages, TypeParts DEF Conclude, HttpOK

LEMMA OnStartType ==
  ASSUME TypeInv, NEW i \in Positions, OnStart(i)
  PROVE  TypeInv'
<1>1. UNCHANGED <<items, calls, sent, current, item>> /\ Positions' = Positions
  BY Frames DEF OnStart
<1>2. ActorsOK' /\ LedgerOK'
  BY <1>1, Frames DEF OnStart
<1>3. AtRest' /\ current \in Starts
  BY <1>1, Working, RestFrame, TypeParts DEF OnStart, EntityOK
<1>4. <<current, i>> \in Starts \X Positions
  BY <1>3
<1>5. EntityOK'
  BY <1>1, <1>4, MailboxType, Messages, TypeParts DEF OnStart, EntityOK
<1>6. OutsideOK'
  BY <1>1, <1>4, TypeParts DEF OnStart, OutsideOK
<1>7. HttpOK'
  BY <1>1, ConcludeType, TypeParts DEF OnStart, HttpOK
<1> QED BY <1>2, <1>3, <1>5, <1>6, <1>7, TypePartsNext

LEMMA OnHttpOutcomeType ==
  ASSUME TypeInv, NEW i \in Positions, OnHttpOutcome(i)
  PROVE  TypeInv'
<1>1. UNCHANGED <<items, tokens, calls, sent, current, item>> /\ Positions' = Positions
  BY Frames DEF OnHttpOutcome, outside, entity
<1>2. EntityOK' /\ ActorsOK' /\ OutsideOK' /\ LedgerOK'
  BY <1>1, Frames DEF OnHttpOutcome
<1>3. AtRest'
  BY <1>1, Working, RestFrame DEF OnHttpOutcome
<1>4. HttpOK'
  BY <1>1, ConcludeType, TypeParts DEF OnHttpOutcome, HttpOK
<1> QED BY <1>2, <1>3, <1>4, TypePartsNext

LEMMA OnDeliveredType ==
  ASSUME TypeInv, NEW i \in Positions, OnDelivered(i)
  PROVE  TypeInv'
<1>1. UNCHANGED <<items, tokens, calls, sent, current, item>> /\ Positions' = Positions
  BY Frames DEF OnDelivered, outside, entity
<1>2. EntityOK' /\ ActorsOK' /\ OutsideOK' /\ LedgerOK'
  BY <1>1, Frames DEF OnDelivered
<1>3. AtRest'
  BY <1>1, Working, RestFrame DEF OnDelivered
<1>4. HttpOK'
  BY <1>1, ConcludeType, TypeParts DEF OnDelivered, KeepEarly, HttpOK
<1> QED BY <1>2, <1>3, <1>4, TypePartsNext

(* The environment.                                                         *)
LEMMA MailedType ==
  ASSUME TypeInv, NEW m \in Command(Positions), m.kind \in {"Start", "Callback"},
         mailbox' = Append(mailbox, m),
         UNCHANGED <<current, item, pending, asked, items, actors, httpActors, ledger>>
  PROVE  EntityOK' /\ ActorsOK' /\ HttpOK' /\ LedgerOK' /\ AtRest'
<1>1. EntityOK'
  BY Frames, MailboxType, TypeParts DEF EntityOK
<1>2. ActorsOK' /\ HttpOK' /\ LedgerOK'
  BY Frames
<1>3. AtRest'
  <2>1. mailbox \in Seq(Command(Positions)) /\ Positions' = Positions
    BY Frames, TypeParts DEF EntityOK
  <2>2. DOMAIN mailbox' = 1..(Len(mailbox) + 1) /\ mailbox'[Len(mailbox) + 1] = m
        /\ DOMAIN mailbox = 1..Len(mailbox) /\ Len(mailbox) \in Nat
        /\ \A k \in DOMAIN mailbox : mailbox'[k] = mailbox[k]
    BY <2>1, AppendAt
  <2>3. \A k \in DOMAIN mailbox' : k \in DOMAIN mailbox \/ k = Len(mailbox) + 1
    BY <2>2
  <2> QED BY <2>1, <2>2, <2>3, TypeParts DEF AtRest, actors, httpActors, ledger
<1> QED BY <1>1, <1>2, <1>3

LEMMA SendStartType ==
  ASSUME TypeInv, SendStart
  PROVE  TypeInv'
<1>1. sent + 1 \in Starts /\ sent' \in 0..MaxStarts
  BY TypeParts, EnrichmentAssumption DEF OutsideOK, SendStart, Starts
<1>2. [kind |-> "Start", start |-> sent + 1] \in Command(Positions)
  BY <1>1, Messages
<1>3. EntityOK' /\ ActorsOK' /\ HttpOK' /\ LedgerOK' /\ AtRest'
  BY <1>2, MailedType DEF SendStart
<1>4. OutsideOK'
  BY <1>1, Frames, TypeParts DEF SendStart, OutsideOK
<1> QED BY <1>3, <1>4, TypePartsNext

LEMMA PostCallbackType ==
  ASSUME TypeInv, NEW n \in tokens, PostCallback(n)
  PROVE  TypeInv'
<1>1. [kind |-> "Callback", nonce |-> n] \in Command(Positions)
  BY TypeParts, Messages DEF OutsideOK
<1>2. EntityOK' /\ ActorsOK' /\ HttpOK' /\ LedgerOK' /\ AtRest'
  BY <1>1, MailedType DEF PostCallback
<1>3. OutsideOK'
  BY Frames, TypeParts DEF PostCallback, OutsideOK
<1> QED BY <1>2, <1>3, TypePartsNext

LEMMA CrashType ==
  ASSUME TypeInv, Crash
  PROVE  TypeInv'
  BY EndType DEF Crash

LEMMA InitType == Init => TypeInv
<1> SUFFICES ASSUME Init PROVE TypeInv
  OBVIOUS
<1>1. EntityOK /\ ActorsOK /\ HttpOK
  BY EmptySeq DEF Init, EntityOK, ActorsOK, HttpOK, NoItem
<1>2. OutsideOK /\ LedgerOK /\ AtRest
  BY EmptySeq, EnrichmentAssumption DEF Init, OutsideOK, LedgerOK, AtRest, NoItem
<1> QED BY <1>1, <1>2, TypeParts

LEMMA StutterType ==
  ASSUME TypeInv, UNCHANGED vars
  PROVE  TypeInv'
<1>1. UNCHANGED <<items, tokens, calls, sent, current, item, mailbox, entity,
                  actors, httpActors, ledger>>
  BY DEF vars, outside, entity
<1>2. EntityOK' /\ ActorsOK' /\ HttpOK' /\ OutsideOK' /\ LedgerOK' /\ Positions' = Positions
  BY <1>1, Frames
<1>3. AtRest'
  BY <1>1, <1>2, TypeParts DEF AtRest, entity, actors, httpActors, ledger
<1> QED BY <1>2, <1>3, TypePartsNext

LEMMA NextType == TypeInv /\ [Next]_vars => TypeInv'
<1> SUFFICES ASSUME TypeInv, [Next]_vars PROVE TypeInv'
  OBVIOUS
<1>1. CASE OnMessage
  BY <1>1, OnSetupType, OnStartInProgressType, OnEnrichItemErrorType,
     OnResponseWrapperType, OnInternalResponseType, OnInternalErrorType,
     OnRegisterCallbackType, OnCallbackType, OnStaleCallbackType DEF OnMessage
<1>2. CASE \E i \in Positions : ItemStep(i)
  BY <1>2, OnExecuteType, RunScriptType, RepliesType, OnGroovyValidatorResponseType
     DEF ItemStep
<1>3. CASE \E i \in Positions : HttpStep(i)
  BY <1>3, OnStartType, OnHttpOutcomeType, OnDeliveredType DEF HttpStep
<1>4. CASE AskTimeout \/ OnCall \/ OnResponse
  BY <1>4, AskTimeoutType, OnCallType, OnResponseType
<1>5. CASE SendStart \/ Crash \/ \E n \in tokens : PostCallback(n)
  BY <1>5, SendStartType, PostCallbackType, CrashType
<1>6. CASE UNCHANGED vars
  BY <1>6, StutterType
<1> QED BY <1>1, <1>2, <1>3, <1>4, <1>5, <1>6 DEF Next

(* Every variable of the enrichment keeps its type: no actor meets a        *)
(* message it does not know, no item is looked up beyond the pipeline.      *)
THEOREM Typing == Spec => []TypeOK
<1>1. Spec => []TypeInv
  BY InitType, NextType, PTL DEF Spec
<1>2. TypeInv => TypeOK
  BY DEF TypeInv
<1> QED BY <1>1, <1>2, PTL

-----------------------------------------------------------------------------
(* One outcome *)

(* Where a queue holds messages of some kinds. *)
HoldsIn(box, kinds) == { k \in DOMAIN box : box[k].kind \in kinds }

LEMMA HoldsAll == \A kinds : Holds(kinds) = HoldsIn(mailbox, kinds)
  BY DEF Holds, HoldsIn

LEMMA HoldsAllNext == \A kinds : Holds(kinds)' = HoldsIn(mailbox', kinds)
  BY DEF Holds, HoldsIn

(* The first message goes: the others move one place.                       *)
LEMMA HoldsTail ==
  ASSUME NEW S, NEW box \in Seq(S), box # <<>>, NEW kinds
  PROVE  /\ 1 \in HoldsIn(box, kinds) <=> Head(box).kind \in kinds
         /\ \A k \in HoldsIn(box, kinds) : k \in Nat \ {0} /\ (k # 1 => k - 1 \in HoldsIn(Tail(box), kinds))
         /\ \A k \in HoldsIn(Tail(box), kinds) :
              k \in Nat \ {0} /\ k + 1 \in HoldsIn(box, kinds) /\ Tail(box)[k] = box[k + 1]
<1>1. Tail(box) \in Seq(S)
  BY TailAt
<1>2. DOMAIN Tail(box) \subseteq Nat \ {0}
  BY <1>1, LenProperties
<1> QED BY <1>2, TailAt DEF HoldsIn

(* A message comes: it is the last.                                         *)
LEMMA HoldsAppend ==
  ASSUME NEW S, NEW box \in Seq(S), NEW m \in S, NEW kinds
  PROVE  /\ Len(box) \in Nat
         /\ \A k \in HoldsIn(box, kinds) :
              /\ k \in 1..Len(box)
              /\ k \in HoldsIn(Append(box, m), kinds) /\ Append(box, m)[k] = box[k]
         /\ \A k \in HoldsIn(Append(box, m), kinds) :
              \/ k \in HoldsIn(box, kinds)
              \/ k = Len(box) + 1 /\ m.kind \in kinds
         /\ m.kind \in kinds => Len(box) + 1 \in HoldsIn(Append(box, m), kinds)
         /\ Append(box, m)[Len(box) + 1] = m
<1>1. \A k \in 1..(Len(box) + 1) : k \in 1..Len(box) \/ k = Len(box) + 1
  BY AppendAt
<1> QED BY <1>1, AppendAt DEF HoldsIn

Single(box) == \A j, k \in HoldsIn(box, Outcomes) : j = k

Pending(box) == HoldsIn(box, Outcomes) # {}

Failing(box) == HoldsIn(box, {"InternalError"}) # {}

(* The invariant in these terms.                                            *)
LEMMA OutcomeParts ==
  OutcomeInv <=>
    /\ Single(mailbox)
    /\ Pending(mailbox) => current # None /\ ~asked
    /\ current # None /\ ~asked => Pending(mailbox)
    /\ Failing(mailbox) => items[item].onError = "FAIL"
  BY HoldsAll DEF OutcomeInv, OneOutcome, FailureIsFinal, Single, Pending, Failing

LEMMA OutcomePartsNext ==
  ASSUME Single(mailbox'),
         Pending(mailbox') => current' # None /\ ~asked',
         current' # None /\ ~asked' => Pending(mailbox'),
         Failing(mailbox') => items'[item'].onError = "FAIL"
  PROVE  OutcomeInv'
  BY HoldsAllNext DEF OutcomeInv, OneOutcome, FailureIsFinal, Single, Pending, Failing

(* An outcome is taken: there is none; it is followed by another: it is     *)
(* the only one.                                                            *)
LEMMA OutcomeTaken ==
  ASSUME NEW S, NEW box \in Seq(S), box # <<>>, Single(box), Head(box).kind \in Outcomes
  PROVE  ~Pending(Tail(box)) /\ ~Failing(Tail(box))
<1>1. HoldsIn(Tail(box), Outcomes) = {}
  BY HoldsTail DEF Single
<1> QED BY <1>1 DEF Pending, Failing, HoldsIn, Outcomes

LEMMA OtherTaken ==
  ASSUME NEW S, NEW box \in Seq(S), box # <<>>, Head(box).kind \notin Outcomes
  PROVE  /\ Single(box) => Single(Tail(box))
         /\ Pending(box) <=> Pending(Tail(box))
         /\ Failing(Tail(box)) => Failing(box)
<1>1. Single(box) => Single(Tail(box))
  BY HoldsTail DEF Single
<1>2. Pending(box) <=> Pending(Tail(box))
  <2>1. ASSUME NEW k \in HoldsIn(box, Outcomes)
        PROVE  k - 1 \in HoldsIn(Tail(box), Outcomes)
    BY HoldsTail
  <2>2. ASSUME NEW k \in HoldsIn(Tail(box), Outcomes)
        PROVE  k + 1 \in HoldsIn(box, Outcomes)
    BY HoldsTail
  <2> QED BY <2>1, <2>2 DEF Pending
<1>3. Failing(Tail(box)) => Failing(box)
  BY HoldsTail DEF Failing
<1> QED BY <1>1, <1>2, <1>3

LEMMA OutcomeSent ==
  ASSUME NEW S, NEW box \in Seq(S), NEW m \in S, m.kind \in Outcomes,
         ~Pending(box), ~Failing(box)
  PROVE  /\ Single(Append(box, m)) /\ Pending(Append(box, m))
         /\ Failing(Append(box, m)) => m.kind = "InternalError"
  BY HoldsAppend DEF Single, Pending, Failing

LEMMA OtherSent ==
  ASSUME NEW S, NEW box \in Seq(S), NEW m \in S, m.kind \notin Outcomes
  PROVE  /\ Single(box) => Single(Append(box, m))
         /\ Pending(box) <=> Pending(Append(box, m))
         /\ Failing(Append(box, m)) => Failing(box)
<1>1. Single(box) => Single(Append(box, m))
  BY HoldsAppend DEF Single
<1>2. Pending(box) <=> Pending(Append(box, m))
  BY HoldsAppend DEF Pending
<1>3. Failing(Append(box, m)) => Failing(box)
  BY HoldsAppend DEF Failing, Outcomes
<1> QED BY <1>1, <1>2, <1>3

LEMMA NothingPending ==
  Single(<<>>) /\ ~Pending(<<>>) /\ ~Failing(<<>>)
  BY DEF Single, Pending, Failing, HoldsIn

(* The steps that leave the entity alone, or send it something that is not  *)
(* an outcome, keep its outcome.                                            *)
LEMMA OutcomeFrame ==
  ASSUME OutcomeInv, UNCHANGED <<mailbox, current, item, asked, items>>
  PROVE  OutcomeInv'
  BY OutcomeParts, OutcomePartsNext

LEMMA OutcomeMailed ==
  ASSUME TypeInv, OutcomeInv, NEW m \in Command(Positions), m.kind \notin Outcomes,
         mailbox' = Append(mailbox, m), UNCHANGED <<current, item, asked, items>>
  PROVE  OutcomeInv'
<1>1. mailbox \in Seq(Command(Positions))
  BY TypeParts DEF EntityOK
<1> QED BY <1>1, OtherSent, OutcomeParts, OutcomePartsNext

LEMMA OtherTakenKeeps ==
  ASSUME TypeInv, OutcomeInv, mailbox # <<>>, Head(mailbox).kind \notin Outcomes,
         mailbox' = Tail(mailbox), UNCHANGED <<current, item, asked, items>>
  PROVE  OutcomeInv'
<1>1. mailbox \in Seq(Command(Positions))
  BY TypeParts DEF EntityOK
<1> QED BY <1>1, OtherTaken, OutcomeParts, OutcomePartsNext

(* The item in progress is concluded while it is awaited.                   *)
LEMMA Concluded ==
  ASSUME TypeInv, OutcomeInv, asked, NEW m \in Command(Positions),
         m.kind \in Outcomes \ {"InternalError"},
         mailbox' = Append(mailbox, m), asked' = FALSE, UNCHANGED <<current, item, items>>
  PROVE  OutcomeInv'
<1>1. mailbox \in Seq(Command(Positions)) /\ current # None
  BY Working, TypeParts DEF EntityOK
<1>2. ~Pending(mailbox) /\ ~Failing(mailbox)
  BY OutcomeParts DEF Pending, Failing, HoldsIn, Outcomes
<1> QED BY <1>1, <1>2, OutcomeSent, OutcomeParts, OutcomePartsNext

(* One outcome is followed by another.                                      *)
LEMMA Passed ==
  ASSUME TypeInv, OutcomeInv, mailbox # <<>>, Head(mailbox).kind \in Outcomes,
         NEW m \in Command(Positions), m.kind \in Outcomes, TellSelf(m),
         m.kind = "InternalError" => items[item].onError = "FAIL"
  PROVE  OutcomeInv'
<1>1. mailbox \in Seq(Command(Positions)) /\ Tail(mailbox) \in Seq(Command(Positions))
  BY TypeParts, HeadTailProperties DEF EntityOK
<1>2. 1 \in HoldsIn(mailbox, Outcomes)
  BY <1>1, HoldsTail
<1>3. current # None /\ ~asked /\ Single(mailbox)
  BY <1>2, OutcomeParts DEF Pending
<1>4. ~Pending(Tail(mailbox)) /\ ~Failing(Tail(mailbox))
  BY <1>1, <1>3, OutcomeTaken
<1>5. mailbox' = Append(Tail(mailbox), m) /\ UNCHANGED <<current, item, asked, items>>
  BY DEF TellSelf, outside
<1> QED BY <1>1, <1>3, <1>4, <1>5, OutcomeSent, OutcomePartsNext

(* The end of a run and the next item leave no outcome behind.              *)
LEMMA StoppedOutcome ==
  ASSUME Stopped
  PROVE  OutcomeInv'
  BY NothingPending, OutcomePartsNext DEF Stopped

LEMMA ExecuteOutcome ==
  ASSUME TypeInv, OutcomeInv, mailbox # <<>>,
         Head(mailbox).kind \in Outcomes \/ (current = None /\ Head(mailbox).kind = "Start"),
         NEW i, Execute(i), current' # None
  PROVE  OutcomeInv'
<1>1. mailbox \in Seq(Command(Positions))
  BY TypeParts DEF EntityOK
<1>2. ~Pending(Tail(mailbox)) /\ ~Failing(Tail(mailbox))
  <2>1. CASE Head(mailbox).kind \in Outcomes
    BY <1>1, <2>1, OutcomeTaken, OutcomeParts
  <2>2. CASE current = None /\ Head(mailbox).kind = "Start"
    <3>1. ~Pending(mailbox) /\ ~Failing(mailbox)
      BY <2>2, OutcomeParts DEF Pending, Failing, HoldsIn, Outcomes
    <3>2. Head(mailbox).kind \notin Outcomes
      BY <2>2 DEF Outcomes
    <3> QED BY <1>1, <3>1, <3>2, OtherTaken
  <2> QED BY <2>1, <2>2
<1>3. mailbox' = Tail(mailbox) /\ asked' = TRUE
  BY DEF Execute
<1>4. Single(Tail(mailbox))
  BY <1>2 DEF Single, Pending
<1> QED BY <1>2, <1>3, <1>4, OutcomePartsNext

LEMMA InitPipelineOutcome ==
  ASSUME TypeInv, OutcomeInv, mailbox # <<>>,
         Head(mailbox).kind \in Outcomes \/ (current = None /\ Head(mailbox).kind = "Start"),
         NEW s \in Starts, InitPipeline(s)
  PROVE  OutcomeInv'
  BY StoppedOutcome, ExecuteOutcome, EnrichmentAssumption DEF InitPipeline

LEMMA MessageOutcome ==
  ASSUME TypeInv, OutcomeInv, OnMessage
  PROVE  OutcomeInv'
<1>1. mailbox # <<>> /\ Head(mailbox) \in Command(Positions)
  BY TypeParts, HeadTailProperties
     DEF EntityOK, OnMessage, OnSetup, OnStartInProgress, OnEnrichItemError, OnResponseWrapper,
         OnInternalResponse, OnInternalError, OnRegisterCallback, OnCallback, OnStaleCallback,
         Receive
<1>2. /\ Head(mailbox).kind = "Start" => Head(mailbox).start \in Starts
      /\ Head(mailbox).kind = "ResponseWrapper" => Head(mailbox).body \in Positions
  BY <1>1, MessageParts
<1>3. Head(mailbox).kind \in Outcomes => current \in Starts
  BY <1>1, Working, TypeParts DEF EntityOK, Outcomes
<1>4. CASE OnSetup
  BY <1>1, <1>2, <1>4, InitPipelineOutcome, StoppedOutcome DEF OnSetup, Receive
<1>5. CASE OnStartInProgress
  BY <1>1, <1>5, OtherTakenKeeps DEF OnStartInProgress, Receive, Outcomes, outside
<1>6. CASE OnEnrichItemError
  <2>1. Head(mailbox).kind \in Outcomes
    BY <1>6 DEF OnEnrichItemError, Receive, Outcomes
  <2>2. CASE Skips
    BY <1>1, <1>3, <2>1, <2>2, InitPipelineOutcome DEF Skips
  <2>3. CASE Rejects
    BY <2>3, StoppedOutcome DEF Rejects
  <2>4. CASE Fails
    <3>1. Signal("InternalError") \in Command(Positions)
          /\ Signal("InternalError").kind = "InternalError"
      BY Messages DEF Signal
    <3> QED BY <1>1, <2>1, <2>4, <3>1, Passed DEF Fails, Outcomes
  <2> QED BY <1>6, <2>2, <2>3, <2>4 DEF OnEnrichItemError
<1>7. CASE OnResponseWrapper
  <2>1. Body("InternalResponse", Head(mailbox).body) \in Command(Positions)
        /\ Body("InternalResponse", Head(mailbox).body).kind = "InternalResponse"
    BY <1>2, <1>7, Messages DEF Body, OnResponseWrapper, Receive
  <2> QED BY <1>1, <1>7, <2>1, Passed DEF OnResponseWrapper, Receive, Outcomes
<1>8. CASE OnInternalResponse
  <2>1. Head(mailbox).kind \in Outcomes
    BY <1>8 DEF OnInternalResponse, Receive, Outcomes
  <2>2. CASE InitPipeline(current)
    BY <1>1, <1>3, <2>1, <2>2, InitPipelineOutcome
  <2>3. CASE Stopped
    BY <2>3, StoppedOutcome
  <2>4. CASE TellSelf(Signal("EnrichItemError"))
    <3>1. Signal("EnrichItemError") \in Command(Positions)
          /\ Signal("EnrichItemError").kind = "EnrichItemError"
      BY Messages DEF Signal
    <3> QED BY <1>1, <2>1, <2>4, <3>1, Passed DEF Outcomes
  <2> QED BY <1>8, <2>2, <2>3, <2>4 DEF OnInternalResponse
<1>9. CASE OnInternalError \/ OnStaleCallback
  BY <1>9, StoppedOutcome DEF OnInternalError, OnStaleCallback
<1>10. CASE OnRegisterCallback
  BY <1>1, <1>10, OtherTakenKeeps DEF OnRegisterCallback, Receive, Outcomes, outside
<1>11. CASE OnCallback
  BY <1>1, <1>11, OtherTakenKeeps DEF OnCallback, Receive, Outcomes, outside
<1> QED BY <1>4, <1>5, <1>6, <1>7, <1>8, <1>9, <1>10, <1>11 DEF OnMessage

(* A reply is an outcome if it is awaited, and nothing if it is not.        *)
LEMMA ReplyOutcome ==
  ASSUME TypeInv, OutcomeInv, NEW i, NEW m \in Command(Positions),
         m.kind \in Outcomes \ {"InternalError"}, ReplyAndStop(i, m)
  PROVE  OutcomeInv'
<1>1. UNCHANGED <<current, item, items>>
  BY DEF ReplyAndStop, outside
<1>2. CASE asked /\ item = i
  BY <1>1, <1>2, Concluded DEF ReplyAndStop, Reply
<1>3. CASE ~(asked /\ item = i)
  BY <1>1, <1>3, OutcomeFrame DEF ReplyAndStop, Reply
<1> QED BY <1>2, <1>3

LEMMA ItemOutcome ==
  ASSUME TypeInv, OutcomeInv, NEW i \in Positions, ItemStep(i)
  PROVE  OutcomeInv'
<1>1. CASE OnExecute(i) \/ RunScript(i) \/ OnGroovyValidatorResponse(i)
  BY <1>1, OutcomeFrame DEF OnExecute, RunScript, OnGroovyValidatorResponse, entity, outside
<1>2. CASE OnGroovyResponse(i) \/ OnHttpResponse(i)
  <2>1. PICK m : ReplyAndStop(i, m) /\ m \in Command(Positions)
                 /\ m.kind \in {"ResponseWrapper", "EnrichItemError"}
    <3>1. Signal("EnrichItemError") \in Command(Positions)
          /\ Signal("EnrichItemError").kind = "EnrichItemError"
      BY Messages DEF Signal
    <3>2. ASSUME ItemReceives(i, "GroovyResponse") \/ ItemReceives(i, "HttpBody")
          PROVE  /\ Body("ResponseWrapper", Head(inbox[i]).body) \in Command(Positions)
                 /\ Body("ResponseWrapper", Head(inbox[i]).body).kind = "ResponseWrapper"
      <4>1. Head(inbox[i]).body \in Positions
        BY <3>2, InboxType, MessageParts DEF ItemReceives
      <4> QED BY <4>1, Messages DEF Body
    <3> QED BY <1>2, <3>1, <3>2 DEF OnGroovyResponse, OnHttpResponse
  <2> QED BY <2>1, ReplyOutcome DEF Outcomes
<1> QED BY <1>1, <1>2 DEF ItemStep

LEMMA OthersOutcome ==
  ASSUME TypeInv, OutcomeInv,
         \/ AskTimeout \/ OnCall \/ OnResponse \/ SendStart \/ Crash
         \/ \E i \in Positions : HttpStep(i)
         \/ \E n \in tokens : PostCallback(n)
         \/ UNCHANGED vars
  PROVE  OutcomeInv'
<1>1. CASE AskTimeout
  <2>1. Signal("EnrichItemError") \in Command(Positions)
        /\ Signal("EnrichItemError").kind = "EnrichItemError"
    BY Messages DEF Signal
  <2> QED BY <1>1, <2>1, Concluded DEF AskTimeout, Outcomes, outside
<1>2. CASE OnCall \/ OnResponse \/ UNCHANGED vars
  BY <1>2, OutcomeFrame DEF OnCall, OnResponse, vars, entity, outside
<1>3. CASE SendStart
  <2> DEFINE m == [kind |-> "Start", start |-> sent + 1]
  <2>1. sent + 1 \in Starts
    BY <1>3, TypeParts, EnrichmentAssumption DEF OutsideOK, SendStart, Starts
  <2>2. m \in Command(Positions) /\ m.kind \notin Outcomes
    BY <2>1, Messages DEF Outcomes
  <2>3. mailbox' = Append(mailbox, m) /\ UNCHANGED <<current, item, asked, items>>
    BY <1>3 DEF SendStart
  <2> HIDE DEF m
  <2> QED BY <2>2, <2>3, OutcomeMailed
<1>4. CASE Crash
  BY <1>4, StoppedOutcome DEF Crash
<1>5. CASE \E n \in tokens : PostCallback(n)
  <2>1. PICK n \in tokens : PostCallback(n)
    BY <1>5
  <2> DEFINE m == [kind |-> "Callback", nonce |-> n]
  <2>2. m \in Command(Positions) /\ m.kind \notin Outcomes
    BY Messages, TypeParts DEF Outcomes, OutsideOK
  <2>3. mailbox' = Append(mailbox, m) /\ UNCHANGED <<current, item, asked, items>>
    BY <2>1 DEF PostCallback
  <2> HIDE DEF m
  <2> QED BY <2>2, <2>3, OutcomeMailed
<1>6. ASSUME NEW i \in Positions, HttpStep(i)
      PROVE  OutcomeInv'
  <2>1. CASE OnHttpOutcome(i) \/ OnDelivered(i)
    BY <2>1, OutcomeFrame DEF OnHttpOutcome, OnDelivered, entity, outside
  <2>2. CASE OnStart(i)
    <3> DEFINE m == [kind |-> "RegisterCallback", nonce |-> <<current, i>>]
    <3>1. current \in Starts
      BY <2>2, Working, TypeParts DEF OnStart, EntityOK
    <3>2. m \in Command(Positions) /\ m.kind \notin Outcomes
      BY <3>1, Messages DEF Outcomes
    <3>3. UNCHANGED <<current, item, asked, items>>
          /\ (mailbox' = Append(mailbox, m) \/ UNCHANGED mailbox)
      BY <2>2 DEF OnStart
    <3> HIDE DEF m
    <3> QED BY <3>2, <3>3, OutcomeMailed, OutcomeFrame
  <2> QED BY <1>6, <2>1, <2>2 DEF HttpStep
<1> QED BY <1>1, <1>2, <1>3, <1>4, <1>5, <1>6

LEMMA InitOutcome == Init => OutcomeInv
<1> SUFFICES ASSUME Init PROVE OutcomeInv
  OBVIOUS
<1>1. mailbox = <<>> /\ current = None
  BY DEF Init
<1> QED BY <1>1, NothingPending, OutcomeParts

LEMMA NextOutcome == TypeInv /\ OutcomeInv /\ [Next]_vars => OutcomeInv'
<1> SUFFICES ASSUME TypeInv, OutcomeInv, [Next]_vars PROVE OutcomeInv'
  OBVIOUS
<1> QED BY MessageOutcome, ItemOutcome, OthersOutcome DEF Next

LEMMA AlwaysOutcome == Spec => [](TypeInv /\ OutcomeInv)
<1>1. Init => TypeInv /\ OutcomeInv
  BY InitType, InitOutcome
<1>2. TypeInv /\ OutcomeInv /\ [Next]_vars => (TypeInv /\ OutcomeInv)'
  BY NextType, NextOutcome
<1> QED BY <1>1, <1>2, PTL DEF Spec

(* The item in progress is concluded once, by its supervisor or by the      *)
(* timeout of its ask, whatever comes late.                                 *)
THEOREM Outcome == Spec => []OneOutcome
<1>1. OutcomeInv => OneOutcome
  BY DEF OutcomeInv
<1> QED BY <1>1, AlwaysOutcome, PTL

-----------------------------------------------------------------------------
(* One answer *)

(* The starts that wait in a queue are distinct, sent and owed an answer.   *)
Dues(box, a, c, n) ==
  /\ \A k \in HoldsIn(box, {"Start"}) :
       /\ a[box[k].start] = <<>>
       /\ box[k].start # c /\ box[k].start <= n
  /\ \A j, k \in HoldsIn(box, {"Start"}) : box[j].start = box[k].start => j = k

(* What was answered, beside the start in progress. *)
Ledger(a, c, n) ==
  /\ \A s \in Starts : Len(a[s]) <= 1
  /\ \A s \in Starts : s > n => a[s] = <<>>
  /\ c # None => a[c] = <<>> /\ c <= n

LEMMA AnswerParts ==
  AnswerInv <=> Ledger(answers, current, sent) /\ Dues(mailbox, answers, current, sent)
  BY HoldsAll DEF AnswerInv, AnsweredOnce, Ledger, Dues

LEMMA AnswerPartsNext ==
  ASSUME Ledger(answers', current', sent'), Dues(mailbox', answers', current', sent')
  PROVE  AnswerInv'
  BY HoldsAllNext DEF AnswerInv, AnsweredOnce, Ledger, Dues

LEMMA DuesTail ==
  ASSUME NEW S, NEW box \in Seq(S), box # <<>>, NEW a, NEW c, NEW n, Dues(box, a, c, n)
  PROVE  Dues(Tail(box), a, c, n)
<1> DEFINE t == Tail(box)
           held == HoldsIn(t, {"Start"})
<1>1. \A k \in held : k \in Nat /\ k + 1 \in HoldsIn(box, {"Start"}) /\ t[k] = box[k + 1]
  BY HoldsTail
<1> HIDE DEF t
<1>2. ASSUME NEW j \in held, NEW k \in held, t[j].start = t[k].start
      PROVE  j = k
  <2>1. j + 1 \in HoldsIn(box, {"Start"}) /\ k + 1 \in HoldsIn(box, {"Start"})
        /\ box[j + 1].start = box[k + 1].start
    BY <1>1, <1>2
  <2>2. j + 1 = k + 1
    BY <2>1 DEF Dues
  <2> QED BY <1>1, <2>2
<1>3. ASSUME NEW k \in held
      PROVE  /\ a[t[k].start] = <<>>
             /\ t[k].start # c /\ t[k].start <= n
  <2>1. k + 1 \in HoldsIn(box, {"Start"}) /\ t[k] = box[k + 1]
    BY <1>1
  <2> QED BY <2>1 DEF Dues
<1>4. Dues(t, a, c, n)
  BY <1>2, <1>3 DEF Dues
<1> QED BY <1>4 DEF t

LEMMA DuesOther ==
  ASSUME NEW S, NEW box \in Seq(S), NEW m \in S, m.kind # "Start",
         NEW a, NEW c, NEW n, Dues(box, a, c, n)
  PROVE  Dues(Append(box, m), a, c, n)
  BY HoldsAppend DEF Dues

LEMMA DuesNone ==
  ASSUME NEW a, NEW c, NEW n
  PROVE  Dues(<<>>, a, c, n)
  BY DEF Dues, HoldsIn

LEMMA StartsHeld ==
  ASSUME NEW box \in Seq(Command(Positions))
  PROVE  \A k \in HoldsIn(box, {"Start"}) : box[k].start \in Starts
  BY MessageParts, LenProperties, ElementOfSeq DEF HoldsIn

(* The start that is taken from the mailbox is owed an answer, and none of  *)
(* those behind it is the same.                                             *)
LEMMA StartTaken ==
  ASSUME TypeInv, AnswerInv, Receive("Start")
  PROVE  /\ mailbox # <<>> /\ Head(mailbox).start \in Starts
         /\ answers[Head(mailbox).start] = <<>>
         /\ Head(mailbox).start # current /\ Head(mailbox).start <= sent
         /\ \A k \in HoldsIn(Tail(mailbox), {"Start"}) :
              Tail(mailbox)[k].start # Head(mailbox).start
<1>1. mailbox \in Seq(Command(Positions)) /\ mailbox # <<>>
  BY TypeParts DEF EntityOK, Receive
<1>2. Head(mailbox) \in Command(Positions) /\ Head(mailbox) = mailbox[1]
  BY <1>1, TailAt
<1>3. 1 \in HoldsIn(mailbox, {"Start"})
  BY <1>1, HoldsTail DEF Receive
<1>4. Dues(mailbox, answers, current, sent)
  BY AnswerParts
<1>5. \A k \in HoldsIn(Tail(mailbox), {"Start"}) :
        Tail(mailbox)[k].start # Head(mailbox).start
  <2> SUFFICES ASSUME NEW k \in HoldsIn(Tail(mailbox), {"Start"}),
                      Tail(mailbox)[k].start = Head(mailbox).start
               PROVE  FALSE
    OBVIOUS
  <2>1. k \in Nat \ {0} /\ k + 1 \in HoldsIn(mailbox, {"Start"})
        /\ Tail(mailbox)[k] = mailbox[k + 1]
    BY <1>1, HoldsTail
  <2>2. k + 1 = 1
    BY <1>2, <1>3, <1>4, <2>1 DEF Dues
  <2> QED BY <2>1, <2>2
<1>6. /\ answers[Head(mailbox).start] = <<>>
      /\ Head(mailbox).start # current /\ Head(mailbox).start <= sent
  BY <1>2, <1>3, <1>4 DEF Dues
<1>7. Head(mailbox).start \in Starts
  BY <1>2, MessageParts DEF Receive
<1> QED BY <1>1, <1>5, <1>6, <1>7

(* A start that was owed an answer gets it, and is not in progress.         *)
LEMMA AnswerGiven ==
  ASSUME TypeInv, Ledger(answers, current, sent), NEW s \in Starts, answers[s] = <<>>,
         s <= sent, NEW result \in {"success", "skip", "failure"}, Answer(s, result),
         NEW c, c = None \/ (c = current /\ c # s)
  PROVE  Ledger(answers', c, sent)
<1>1. answers'[s] = <<result>> /\ \A t \in Starts \ {s} : answers'[t] = answers[t]
  BY TypeParts DEF Answer, LedgerOK
<1>2. current \in Starts \cup {None}
  BY TypeParts DEF EntityOK
<1>3. \A t \in Starts : Len(answers'[t]) <= 1
  <2>1. Len(<<result>>) <= 1
    OBVIOUS
  <2> QED BY <1>1, <2>1 DEF Ledger
<1>4. \A t \in Starts : t > sent => answers'[t] = <<>>
  BY <1>1, TypeParts DEF Ledger, OutsideOK, Starts
<1>5. c # None => answers'[c] = <<>> /\ c <= sent
  BY <1>1, <1>2 DEF Ledger
<1> QED BY <1>3, <1>4, <1>5 DEF Ledger

LEMMA AnswerFrame ==
  ASSUME AnswerInv, UNCHANGED <<mailbox, current, answers, sent>>
  PROVE  AnswerInv'
  BY AnswerParts, AnswerPartsNext

LEMMA OtherAppended ==
  ASSUME TypeInv, AnswerInv, NEW m \in Command(Positions), m.kind # "Start",
         mailbox' = Append(mailbox, m), UNCHANGED <<current, answers, sent>>
  PROVE  AnswerInv'
<1>1. mailbox \in Seq(Command(Positions))
  BY TypeParts DEF EntityOK
<1> QED BY <1>1, DuesOther, AnswerParts, AnswerPartsNext

LEMMA AnyTaken ==
  ASSUME TypeInv, AnswerInv, mailbox # <<>>,
         mailbox' = Tail(mailbox), UNCHANGED <<current, answers, sent>>
  PROVE  AnswerInv'
<1>1. mailbox \in Seq(Command(Positions))
  BY TypeParts DEF EntityOK
<1> QED BY <1>1, DuesTail, AnswerParts, AnswerPartsNext

LEMMA ToldSelf ==
  ASSUME TypeInv, AnswerInv, mailbox # <<>>,
         NEW m \in Command(Positions), m.kind # "Start", TellSelf(m)
  PROVE  AnswerInv'
<1>1. mailbox \in Seq(Command(Positions)) /\ Tail(mailbox) \in Seq(Command(Positions))
  BY TypeParts, HeadTailProperties DEF EntityOK
<1>2. Dues(Tail(mailbox), answers, current, sent)
  BY <1>1, DuesTail, AnswerParts
<1>3. mailbox' = Append(Tail(mailbox), m) /\ UNCHANGED <<current, answers, sent>>
  BY DEF TellSelf, outside, ledger
<1> QED BY <1>1, <1>2, <1>3, DuesOther, AnswerParts, AnswerPartsNext

(* A run ends, answered or not.                                             *)
LEMMA RunEnded ==
  ASSUME TypeInv, AnswerInv, Stopped, UNCHANGED sent,
         \/ UNCHANGED answers
         \/ \E s \in Starts, result \in {"success", "skip", "failure"} :
              answers[s] = <<>> /\ s <= sent /\ Answer(s, result)
  PROVE  AnswerInv'
<1>1. mailbox' = <<>> /\ current' = None
  BY DEF Stopped
<1>2. Ledger(answers, None, sent)
  BY AnswerParts DEF Ledger
<1>3. Ledger(answers', current', sent)
  BY <1>1, <1>2, AnswerGiven, AnswerParts
<1> QED BY <1>1, <1>3, DuesNone, AnswerPartsNext

LEMMA CurrentOwed ==
  ASSUME TypeInv, AnswerInv, current # None
  PROVE  current \in Starts /\ answers[current] = <<>> /\ current <= sent
  BY TypeParts, AnswerParts DEF EntityOK, Ledger

(* A run begins with the start that is taken, or goes on.                   *)
LEMMA RunBegins ==
  ASSUME TypeInv, AnswerInv, Receive("Start"), InitPipeline(Head(mailbox).start),
         UNCHANGED sent
  PROVE  AnswerInv'
<1> DEFINE s == Head(mailbox).start
<1>1. /\ mailbox # <<>> /\ s \in Starts /\ answers[s] = <<>> /\ s <= sent
      /\ \A k \in HoldsIn(Tail(mailbox), {"Start"}) : Tail(mailbox)[k].start # s
  BY StartTaken
<1>2. InitPipeline(s)
  OBVIOUS
<1> HIDE DEF s
<1>3. CASE Answer(s, "success") /\ Stopped
  BY <1>1, <1>3, RunEnded
<1>4. CASE Execute(item + 1) /\ current' = s /\ UNCHANGED answers
  <2>1. mailbox' = Tail(mailbox)
    BY <1>4 DEF Execute
  <2>2. mailbox \in Seq(Command(Positions))
    BY TypeParts DEF EntityOK
  <2>3. Dues(Tail(mailbox), answers, s, sent)
    <3>1. Dues(Tail(mailbox), answers, current, sent)
      BY <1>1, <2>2, DuesTail, AnswerParts
    <3> QED BY <1>1, <3>1 DEF Dues
  <2>4. Ledger(answers, s, sent)
    BY <1>1, AnswerParts DEF Ledger
  <2> QED BY <1>4, <2>1, <2>3, <2>4, AnswerPartsNext
<1> QED BY <1>2, <1>3, <1>4 DEF InitPipeline

LEMMA RunGoesOn ==
  ASSUME TypeInv, AnswerInv, mailbox # <<>>, current # None, InitPipeline(current),
         UNCHANGED sent
  PROVE  AnswerInv'
<1>1. CASE Answer(current, "success") /\ Stopped
  BY <1>1, CurrentOwed, RunEnded
<1>2. CASE Execute(item + 1) /\ UNCHANGED <<answers, current>>
  BY <1>2, AnyTaken DEF Execute
<1> QED BY <1>1, <1>2 DEF InitPipeline

LEMMA MessageAnswer ==
  ASSUME TypeInv, AnswerInv, OnMessage
  PROVE  AnswerInv'
<1>1. mailbox # <<>> /\ Head(mailbox) \in Command(Positions)
      /\ mailbox \in Seq(Command(Positions))
  BY TypeParts, HeadTailProperties
     DEF EntityOK, OnMessage, OnSetup, OnStartInProgress, OnEnrichItemError, OnResponseWrapper,
         OnInternalResponse, OnInternalError, OnRegisterCallback, OnCallback, OnStaleCallback,
         Receive
<1>2. CASE OnSetup
  BY <1>2, RunBegins, RunEnded DEF OnSetup
<1>3. CASE OnStartInProgress
  <2> DEFINE s == Head(mailbox).start
  <2>1. /\ s \in Starts /\ answers[s] = <<>> /\ s <= sent /\ s # current
        /\ \A k \in HoldsIn(Tail(mailbox), {"Start"}) : Tail(mailbox)[k].start # s
    BY <1>3, StartTaken DEF OnStartInProgress
  <2>2. Answer(s, "failure") /\ mailbox' = Tail(mailbox) /\ UNCHANGED <<current, sent>>
    BY <1>3 DEF OnStartInProgress, outside
  <2> HIDE DEF s
  <2>3. Ledger(answers', current', sent')
    BY <2>1, <2>2, AnswerGiven, AnswerParts
  <2>4. Dues(Tail(mailbox), answers, current, sent)
    BY <1>1, DuesTail, AnswerParts
  <2>5. \A k \in HoldsIn(Tail(mailbox), {"Start"}) :
          answers'[Tail(mailbox)[k].start] = answers[Tail(mailbox)[k].start]
    <3>1. \A k \in HoldsIn(Tail(mailbox), {"Start"}) : Tail(mailbox)[k].start \in Starts
      BY <1>1, HeadTailProperties, StartsHeld
    <3> QED BY <2>1, <2>2, <3>1, TypeParts DEF Answer, LedgerOK
  <2>6. Dues(mailbox', answers', current', sent')
    BY <2>2, <2>4, <2>5 DEF Dues
  <2> QED BY <2>3, <2>6, AnswerPartsNext
<1>4. CASE OnEnrichItemError
  <2>1. current # None
    BY <1>4, Working DEF OnEnrichItemError, Receive
  <2>2. CASE Skips
    BY <1>1, <2>1, <2>2, RunGoesOn DEF Skips
  <2>3. CASE Rejects
    BY <2>1, <2>3, CurrentOwed, RunEnded DEF Rejects
  <2>4. CASE Fails
    BY <1>1, <2>4, Messages, ToldSelf DEF Fails, Signal
  <2> QED BY <1>4, <2>2, <2>3, <2>4 DEF OnEnrichItemError
<1>5. CASE OnResponseWrapper
  <2>1. Head(mailbox).body \in Positions
    BY <1>1, <1>5, MessageParts DEF OnResponseWrapper, Receive
  <2>2. Body("InternalResponse", Head(mailbox).body) \in Command(Positions)
        /\ Body("InternalResponse", Head(mailbox).body).kind # "Start"
    BY <2>1, Messages DEF Body
  <2> QED BY <1>1, <1>5, <2>2, ToldSelf DEF OnResponseWrapper
<1>6. CASE OnInternalResponse
  <2>1. current # None
    BY <1>6, Working DEF OnInternalResponse, Receive
  <2>2. CASE InitPipeline(current) /\ UNCHANGED sent
    BY <1>1, <2>1, <2>2, RunGoesOn
  <2>3. CASE Answer(current, "skip") /\ Stopped /\ UNCHANGED sent
    BY <2>1, <2>3, CurrentOwed, RunEnded
  <2>4. CASE TellSelf(Signal("EnrichItemError"))
    BY <1>1, <2>4, Messages, ToldSelf DEF Signal
  <2>5. CASE Stopped /\ UNCHANGED <<sent, answers>>
    BY <2>5, RunEnded
  <2> QED BY <1>6, <2>2, <2>3, <2>4, <2>5 DEF OnInternalResponse
<1>7. CASE OnInternalError
  <2>1. current # None
    BY <1>7, Working DEF OnInternalError, Receive
  <2> QED BY <1>7, <2>1, CurrentOwed, RunEnded DEF OnInternalError
<1>8. CASE OnRegisterCallback
  BY <1>1, <1>8, AnyTaken DEF OnRegisterCallback, outside, ledger
<1>9. CASE OnCallback
  BY <1>1, <1>9, AnyTaken DEF OnCallback, outside
<1>10. CASE OnStaleCallback
  BY <1>10, RunEnded DEF OnStaleCallback
<1> QED BY <1>2, <1>3, <1>4, <1>5, <1>6, <1>7, <1>8, <1>9, <1>10 DEF OnMessage

LEMMA ItemAnswer ==
  ASSUME TypeInv, AnswerInv, NEW i \in Positions, ItemStep(i)
  PROVE  AnswerInv'
<1>1. CASE OnExecute(i) \/ RunScript(i) \/ OnGroovyValidatorResponse(i)
  BY <1>1, AnswerFrame
     DEF OnExecute, RunScript, OnGroovyValidatorResponse, entity, outside, ledger
<1>2. CASE OnGroovyResponse(i) \/ OnHttpResponse(i)
  <2>1. PICK m : ReplyAndStop(i, m) /\ m \in Command(Positions) /\ m.kind # "Start"
    <3>1. Signal("EnrichItemError") \in Command(Positions)
          /\ Signal("EnrichItemError").kind # "Start"
      BY Messages DEF Signal
    <3>2. ASSUME ItemReceives(i, "GroovyResponse") \/ ItemReceives(i, "HttpBody")
          PROVE  /\ Body("ResponseWrapper", Head(inbox[i]).body) \in Command(Positions)
                 /\ Body("ResponseWrapper", Head(inbox[i]).body).kind # "Start"
      <4>1. Head(inbox[i]).body \in Positions
        BY <3>2, InboxType, MessageParts DEF ItemReceives
      <4> QED BY <4>1, Messages DEF Body
    <3> QED BY <1>2, <3>1, <3>2 DEF OnGroovyResponse, OnHttpResponse
  <2>2. UNCHANGED <<current, answers, sent>>
        /\ (mailbox' = Append(mailbox, m) \/ UNCHANGED mailbox)
    BY <2>1 DEF ReplyAndStop, Reply, outside, ledger
  <2> QED BY <2>1, <2>2, OtherAppended, AnswerFrame
<1> QED BY <1>1, <1>2 DEF ItemStep

LEMMA OthersAnswer ==
  ASSUME TypeInv, AnswerInv,
         \/ AskTimeout \/ OnCall \/ OnResponse \/ SendStart \/ Crash
         \/ \E i \in Positions : HttpStep(i)
         \/ \E n \in tokens : PostCallback(n)
         \/ UNCHANGED vars
  PROVE  AnswerInv'
<1>1. CASE AskTimeout
  BY <1>1, Messages, OtherAppended DEF AskTimeout, Signal, outside
<1>2. CASE OnCall \/ OnResponse \/ UNCHANGED vars
  BY <1>2, AnswerFrame DEF OnCall, OnResponse, vars, entity, outside, ledger
<1>3. CASE SendStart
  <2> DEFINE m == [kind |-> "Start", start |-> sent + 1]
  <2>1. sent + 1 \in Starts /\ sent \in Nat
    BY <1>3, TypeParts, EnrichmentAssumption DEF OutsideOK, SendStart, Starts
  <2>2. m \in Command(Positions) /\ m.start = sent + 1
    BY <2>1, Messages
  <2>3. /\ mailbox' = Append(mailbox, m) /\ sent' = sent + 1 /\ UNCHANGED <<current, answers>>
    BY <1>3 DEF SendStart, ledger
  <2>4. mailbox \in Seq(Command(Positions)) /\ current \in Starts \cup {None}
    BY TypeParts DEF EntityOK
  <2> HIDE DEF m
  <2>5. Ledger(answers', current', sent')
    BY <2>1, <2>3, <2>4, AnswerParts DEF Ledger, Starts
  <2>6. Dues(mailbox', answers', current', sent')
    <3>1. Dues(mailbox, answers, current, sent) /\ Ledger(answers, current, sent)
      BY AnswerParts
    <3>2. \A k \in HoldsIn(mailbox, {"Start"}) : mailbox[k].start \in Starts
      BY <2>4, StartsHeld
    <3>3. answers[sent + 1] = <<>> /\ sent + 1 # current
      BY <2>1, <2>4, <3>1, EnrichmentAssumption DEF Ledger, Starts
    <3>4. \A k \in HoldsIn(mailbox', {"Start"}) :
            \/ k \in HoldsIn(mailbox, {"Start"}) /\ mailbox'[k] = mailbox[k]
            \/ k = Len(mailbox) + 1 /\ mailbox'[k] = m
      BY <2>2, <2>3, <2>4, HoldsAppend
    <3>5. \A k \in HoldsIn(mailbox, {"Start"}) : mailbox[k].start # sent + 1
                                              /\ mailbox[k].start <= sent + 1
      BY <2>1, <3>1, <3>2 DEF Dues, Starts
    <3>6. \A k \in HoldsIn(mailbox', {"Start"}) :
            /\ answers[mailbox'[k].start] = <<>>
            /\ mailbox'[k].start # current /\ mailbox'[k].start <= sent + 1
      BY <2>1, <2>2, <3>1, <3>3, <3>4, <3>5 DEF Dues
    <3>7. \A j, k \in HoldsIn(mailbox', {"Start"}) :
            mailbox'[j].start = mailbox'[k].start => j = k
      BY <2>2, <3>1, <3>4, <3>5 DEF Dues
    <3> QED BY <2>3, <3>6, <3>7 DEF Dues
  <2> QED BY <2>5, <2>6, AnswerPartsNext
<1>4. CASE Crash
  BY <1>4, RunEnded DEF Crash
<1>5. CASE \E n \in tokens : PostCallback(n)
  <2>1. PICK n \in tokens : PostCallback(n)
    BY <1>5
  <2> DEFINE m == [kind |-> "Callback", nonce |-> n]
  <2>2. m \in Command(Positions) /\ m.kind # "Start"
    BY Messages, TypeParts DEF OutsideOK
  <2>3. mailbox' = Append(mailbox, m) /\ UNCHANGED <<current, answers, sent>>
    BY <2>1 DEF PostCallback, ledger
  <2> HIDE DEF m
  <2> QED BY <2>2, <2>3, OtherAppended
<1>6. ASSUME NEW i \in Positions, HttpStep(i)
      PROVE  AnswerInv'
  <2>1. CASE OnHttpOutcome(i) \/ OnDelivered(i)
    BY <2>1, AnswerFrame DEF OnHttpOutcome, OnDelivered, entity, outside, ledger
  <2>2. CASE OnStart(i)
    <3> DEFINE m == [kind |-> "RegisterCallback", nonce |-> <<current, i>>]
    <3>1. current \in Starts
      BY <2>2, Working, TypeParts DEF OnStart, EntityOK
    <3>2. m \in Command(Positions) /\ m.kind # "Start"
      BY <3>1, Messages
    <3>3. UNCHANGED <<current, answers, sent>>
          /\ (mailbox' = Append(mailbox, m) \/ UNCHANGED mailbox)
      BY <2>2 DEF OnStart, ledger
    <3> HIDE DEF m
    <3> QED BY <3>2, <3>3, OtherAppended, AnswerFrame
  <2> QED BY <1>6, <2>1, <2>2 DEF HttpStep
<1> QED BY <1>1, <1>2, <1>3, <1>4, <1>5, <1>6

LEMMA InitAnswer == Init => AnswerInv
<1> SUFFICES ASSUME Init PROVE AnswerInv
  OBVIOUS
<1>1. Ledger(answers, current, sent)
  BY DEF Init, Ledger
<1>2. Dues(mailbox, answers, current, sent)
  BY DuesNone DEF Init
<1> QED BY <1>1, <1>2, AnswerParts

LEMMA NextAnswer == TypeInv /\ AnswerInv /\ [Next]_vars => AnswerInv'
<1> SUFFICES ASSUME TypeInv, AnswerInv, [Next]_vars PROVE AnswerInv'
  OBVIOUS
<1> QED BY MessageAnswer, ItemAnswer, OthersAnswer DEF Next

LEMMA AlwaysAnswer == Spec => [](TypeInv /\ AnswerInv)
<1>1. Init => TypeInv /\ AnswerInv
  BY InitType, InitAnswer
<1>2. TypeInv /\ AnswerInv /\ [Next]_vars => (TypeInv /\ AnswerInv)'
  BY NextType, NextAnswer
<1> QED BY <1>1, <1>2, PTL DEF Spec

(* A delivery is answered at most once, and not while it is in progress,    *)
(* however many redeliveries are refused beside it.                         *)
THEOREM Answered == Spec => []AnsweredOnce
<1>1. AnswerInv => AnsweredOnce
  BY DEF AnswerInv
<1> QED BY <1>1, AlwaysAnswer, PTL

-----------------------------------------------------------------------------
(* The entity implements the contract *)

LEMMA OwedAnswer ==
  ASSUME NEW s \in Starts, answers[s] = <<>>,
         NEW result \in {"success", "skip", "failure"}, Answer(s, result)
  PROVE  Contract!Answer(s, result)
<1>1. Append(answers[s], result) = <<result>>
  OBVIOUS
<1> QED BY <1>1 DEF Answer, Contract!Answer, Contract!Owed

(* The pipeline goes on with the next item, or it succeeds.                 *)
LEMMA GoesOn ==
  ASSUME TypeInv, AnswerInv, current # None, InitPipeline(current)
  PROVE  Contract!Next
<1>1. current \in Starts /\ answers[current] = <<>> /\ item \in Positions
  BY CurrentOwed, Working
<1>2. CASE item = Len(items) /\ Answer(current, "success") /\ Stopped
  <2>1. Contract!Answer(current, "success")
    BY <1>1, <1>2, OwedAnswer
  <2>2. Contract!Idle /\ UNCHANGED items
    BY <1>2 DEF Stopped, Contract!Idle
  <2>3. Contract!Succeed(current)
    BY <1>2, <2>1, <2>2 DEF Contract!Succeed
  <2> QED BY <1>1, <2>3 DEF Contract!Next
<1>3. CASE /\ item < Len(items) /\ Execute(item + 1) /\ current' = current
           /\ UNCHANGED <<answers, items>>
  <2>1. Contract!Advance
    BY <1>3 DEF Contract!Advance, Execute
  <2> QED BY <2>1 DEF Contract!Next
<1> QED BY <1>2, <1>3 DEF InitPipeline

LEMMA LoseRefines ==
  ASSUME current # None, Stopped, UNCHANGED answers
  PROVE  Contract!Next
<1>1. Contract!Lose
  BY DEF Stopped, Contract!Lose, Contract!Idle
<1> QED BY <1>1 DEF Contract!Next

LEMMA MessageRefines ==
  ASSUME TypeInv, OutcomeInv, AnswerInv, OnMessage
  PROVE  Contract!Next \/ UNCHANGED Contract!vars
<1>1. CASE OnSetup
  <2> DEFINE s == Head(mailbox).start
  <2>1. s \in Starts /\ answers[s] = <<>> /\ current = None /\ item = 0
    BY <1>1, StartTaken, Working DEF OnSetup
  <2>2. \/ InitPipeline(s)
        \/ Stopped /\ UNCHANGED answers
    BY <1>1 DEF OnSetup
  <2>3. CASE Stopped /\ UNCHANGED answers
    BY <2>1, <2>3 DEF Stopped, Contract!vars
  <2> HIDE DEF s
  <2>4. CASE item = Len(items) /\ Answer(s, "success") /\ Stopped
    <3>1. Contract!Answer(s, "success") /\ Contract!Idle /\ UNCHANGED items
      BY <2>1, <2>4, OwedAnswer DEF Stopped, Contract!Idle
    <3>2. items = <<>>
      BY <2>1, <2>4, TypeParts, Pipeline, EmptySeq
    <3>3. Contract!Succeed(s)
      BY <2>1, <3>1, <3>2 DEF Contract!Succeed
    <3> QED BY <2>1, <3>3 DEF Contract!Next
  <2>5. CASE /\ item < Len(items) /\ Execute(item + 1) /\ current' = s
             /\ UNCHANGED <<answers, items>>
    <3>1. items # <<>>
      BY <2>1, <2>5
    <3>2. Contract!TakeUp(s)
      BY <2>1, <2>5, <3>1 DEF Contract!TakeUp, Contract!Owed, Execute
    <3> QED BY <2>1, <3>2 DEF Contract!Next
  <2> QED BY <2>2, <2>3, <2>4, <2>5 DEF InitPipeline
<1>2. CASE OnStartInProgress
  <2> DEFINE s == Head(mailbox).start
  <2>1. s \in Starts /\ answers[s] = <<>> /\ s # current
    BY <1>2, StartTaken DEF OnStartInProgress
  <2>2. current # None /\ Answer(s, "failure") /\ UNCHANGED <<items, current, item>>
    BY <1>2 DEF OnStartInProgress, outside
  <2> HIDE DEF s
  <2>3. Contract!Refuse(s)
    BY <2>1, <2>2, OwedAnswer DEF Contract!Refuse
  <2> QED BY <2>1, <2>3 DEF Contract!Next
<1>3. CASE OnEnrichItemError
  <2>1. current # None /\ current \in Starts /\ answers[current] = <<>>
    BY <1>3, Working, CurrentOwed DEF OnEnrichItemError, Receive
  <2>2. CASE Skips
    BY <2>1, <2>2, GoesOn DEF Skips
  <2>3. CASE Rejects
    <3>1. Contract!Answer(current, "success") /\ Contract!Idle /\ UNCHANGED items
      BY <2>1, <2>3, OwedAnswer DEF Rejects, Stopped, Contract!Idle
    <3>2. Contract!Succeed(current)
      BY <2>3, <3>1 DEF Rejects, Contract!Succeed
    <3> QED BY <2>1, <3>2 DEF Contract!Next
  <2>4. CASE Fails
    BY <2>4 DEF Fails, TellSelf, outside, ledger, Contract!vars
  <2> QED BY <1>3, <2>2, <2>3, <2>4 DEF OnEnrichItemError
<1>4. CASE OnResponseWrapper
  BY <1>4 DEF OnResponseWrapper, TellSelf, outside, ledger, Contract!vars
<1>5. CASE OnInternalResponse
  <2>1. current # None /\ current \in Starts /\ answers[current] = <<>>
    BY <1>5, Working, CurrentOwed DEF OnInternalResponse, Receive
  <2>2. CASE InitPipeline(current)
    BY <2>1, <2>2, GoesOn
  <2>3. CASE Answer(current, "skip") /\ Stopped
    <3>1. Contract!Answer(current, "skip") /\ Contract!Idle /\ UNCHANGED items
      BY <2>1, <2>3, OwedAnswer DEF Stopped, Contract!Idle
    <3>2. Contract!Skip
      BY <2>1, <3>1 DEF Contract!Skip
    <3> QED BY <3>2 DEF Contract!Next
  <2>4. CASE TellSelf(Signal("EnrichItemError"))
    BY <2>4 DEF TellSelf, outside, ledger, Contract!vars
  <2>5. CASE Stopped /\ UNCHANGED answers
    BY <2>1, <2>5, LoseRefines
  <2> QED BY <1>5, <2>2, <2>3, <2>4, <2>5 DEF OnInternalResponse
<1>6. CASE OnInternalError
  <2>1. current # None /\ current \in Starts /\ answers[current] = <<>>
    BY <1>6, Working, CurrentOwed DEF OnInternalError, Receive
  <2>2. items[item].onError = "FAIL"
    <3>1. mailbox \in Seq(Command(Positions)) /\ mailbox # <<>>
      BY <1>6, TypeParts DEF EntityOK, OnInternalError, Receive
    <3>2. Failing(mailbox)
      BY <1>6, <3>1, HoldsTail DEF Failing, OnInternalError, Receive
    <3> QED BY <3>2, OutcomeParts
  <2>3. Contract!Answer(current, "failure") /\ Contract!Idle /\ UNCHANGED items
    BY <1>6, <2>1, OwedAnswer DEF OnInternalError, Stopped, Contract!Idle
  <2>4. Contract!Fail
    BY <2>1, <2>2, <2>3 DEF Contract!Fail
  <2> QED BY <2>4 DEF Contract!Next
<1>7. CASE OnRegisterCallback \/ OnCallback
  BY <1>7 DEF OnRegisterCallback, OnCallback, outside, ledger, Contract!vars
<1>8. CASE OnStaleCallback
  BY <1>8, Working DEF OnStaleCallback, Stopped, Contract!vars
<1> QED BY <1>1, <1>2, <1>3, <1>4, <1>5, <1>6, <1>7, <1>8 DEF OnMessage

LEMMA OthersRefine ==
  ASSUME TypeInv,
         \/ AskTimeout \/ OnCall \/ OnResponse \/ SendStart \/ Crash
         \/ \E i \in Positions : ItemStep(i) \/ HttpStep(i)
         \/ \E n \in tokens : PostCallback(n)
         \/ UNCHANGED vars
  PROVE  Contract!Next \/ UNCHANGED Contract!vars
<1>1. CASE AskTimeout \/ OnCall \/ OnResponse \/ SendStart \/ UNCHANGED vars
  BY <1>1 DEF AskTimeout, OnCall, OnResponse, SendStart, vars, entity, outside, ledger,
              Contract!vars
<1>2. CASE Crash
  BY <1>2, LoseRefines DEF Crash
<1>3. CASE \E n \in tokens : PostCallback(n)
  BY <1>3 DEF PostCallback, ledger, Contract!vars
<1>4. CASE \E i \in Positions : HttpStep(i)
  BY <1>4 DEF HttpStep, OnStart, OnHttpOutcome, OnDelivered, entity, outside, ledger,
              Contract!vars
<1>5. ASSUME NEW i \in Positions, ItemStep(i)
      PROVE  UNCHANGED Contract!vars
  <2>1. CASE OnExecute(i) \/ RunScript(i) \/ OnGroovyValidatorResponse(i)
    BY <2>1 DEF OnExecute, RunScript, OnGroovyValidatorResponse, entity, outside, ledger,
                Contract!vars
  <2>2. CASE OnGroovyResponse(i) \/ OnHttpResponse(i)
    <3>1. PICK m : ReplyAndStop(i, m)
      BY <2>2 DEF OnGroovyResponse, OnHttpResponse
    <3> QED BY <3>1 DEF ReplyAndStop, outside, ledger, Contract!vars
  <2> QED BY <1>5, <2>1, <2>2 DEF ItemStep
<1> QED BY <1>1, <1>2, <1>3, <1>4, <1>5

(* Whatever the actors, the enrichers and the network do, the scheduling    *)
(* sees one run at a time, its items in order, and at most one answer to    *)
(* each delivery, one the policies of the items allow.                      *)
THEOREM Refinement == Spec => ImplementsContract
<1>1. Init => Contract!Init
  BY DEF Init, Contract!Init
<1>2. TypeInv /\ OutcomeInv /\ AnswerInv /\ [Next]_vars => [Contract!Next]_(Contract!vars)
  <2> SUFFICES ASSUME TypeInv, OutcomeInv, AnswerInv, [Next]_vars
               PROVE  Contract!Next \/ UNCHANGED Contract!vars
    OBVIOUS
  <2> QED BY MessageRefines, OthersRefine DEF Next
<1> QED BY <1>1, <1>2, AlwaysOutcome, AlwaysAnswer, PTL
        DEF Spec, ImplementsContract, Contract!Spec

-----------------------------------------------------------------------------
(* The progress of an item *)

(* An item about which something is in progress was executed: it is the one *)
(* in progress, or follows a timeout.                                       *)
LEMMA Active ==
  ASSUME TypeInv, ProgressInv, current # None, NEW i \in Positions, ~Quiet(i)
  PROVE  /\ Owns(i) /\ i <= item
         /\ Punctual(item) => i = item /\ asked
<1>1. item \in Positions /\ Positions \subseteq Nat
  BY Working, TypeParts, Pipeline
<1>2. Fresh(i) => Quiet(i)
  BY DEF Fresh
<1>3. i <= item
  BY <1>1, <1>2 DEF ProgressInv, FreshAhead
<1>4. i < item => ~Punctual(i)
  BY <1>1 DEF ProgressInv, QuietBehind
<1>5. Punctual(item) /\ i < item => Punctual(i)
  <2>1. late \subseteq Nat /\ item \in Nat /\ i \in Nat
    BY <1>1, TypeParts DEF LedgerOK
  <2> QED BY <2>1 DEF Punctual
<1>6. Punctual(item) => i = item /\ asked
  BY <1>1, <1>3, <1>4, <1>5 DEF ProgressInv, OneThread
<1>7. Owns(i)
  BY <1>1, <1>3, <1>4 DEF Owns
<1> QED BY <1>3, <1>6, <1>7

(* The bodies an entity that does not move on may find.                     *)
BodiesIn(box) ==
  \A k \in HoldsIn(box, {"ResponseWrapper", "InternalResponse"}) : Owns(box[k].body)

LEMMA BodiesTail ==
  ASSUME NEW S, NEW box \in Seq(S), box # <<>>, BodiesIn(box)
  PROVE  BodiesIn(Tail(box))
<1> DEFINE t == Tail(box)
           kinds == {"ResponseWrapper", "InternalResponse"}
<1>1. \A k \in HoldsIn(t, kinds) : k + 1 \in HoldsIn(box, kinds) /\ t[k] = box[k + 1]
  BY HoldsTail
<1> HIDE DEF t
<1>2. BodiesIn(t)
  BY <1>1 DEF BodiesIn
<1> QED BY <1>2 DEF t

LEMMA BodiesAppend ==
  ASSUME NEW S, NEW box \in Seq(S), NEW m \in S, BodiesIn(box),
         m.kind \in {"ResponseWrapper", "InternalResponse"} => Owns(m.body)
  PROVE  BodiesIn(Append(box, m))
<1> DEFINE t == Append(box, m)
           kinds == {"ResponseWrapper", "InternalResponse"}
<1>1. \A k \in HoldsIn(t, kinds) :
        \/ k \in HoldsIn(box, kinds) /\ t[k] = box[k]
        \/ m.kind \in kinds /\ t[k] = m
  BY HoldsAppend
<1> HIDE DEF t
<1>2. BodiesIn(t)
  BY <1>1 DEF BodiesIn
<1> QED BY <1>2 DEF t

(* In a run, timeouts only add to what follows one.                         *)
LEMMA OwnsGrows ==
  ASSUME UNCHANGED item, late \subseteq late', NEW i, Owns(i)
  PROVE  Owns(i)'
  BY DEF Owns, Punctual

LEMMA BodiesNext ==
  ASSUME UNCHANGED item, late \subseteq late', BodiesIn(mailbox')
  PROVE  BodiesOwned'
<1>1. \A k \in Holds({"ResponseWrapper", "InternalResponse"})' : Owns(mailbox'[k].body)
  BY HoldsAllNext DEF BodiesIn
<1> QED BY <1>1, OwnsGrows DEF BodiesOwned

LEMMA BodiesNow == BodiesOwned => BodiesIn(mailbox)
  BY HoldsAll DEF BodiesOwned, BodiesIn

(* What a step leaves alone but for the mailbox keeps the progress.         *)
LEMMA ProgressFrame ==
  ASSUME ProgressInv, BodiesIn(mailbox'),
         UNCHANGED <<current, item, asked, actors, httpBox, http, items, late>>
  PROVE  ProgressInv'
<1>1. \A i : Punctual(i)' = Punctual(i) /\ Quiet(i)' = Quiet(i) /\ Owns(i)' = Owns(i)
  BY DEF Punctual, Quiet, Owns, actors
<1>2. \A i : Fresh(i)' = Fresh(i)
  BY <1>1 DEF Fresh
<1>3. InOnePlace' = InOnePlace /\ Positions' = Positions
  BY DEF InOnePlace, actors, Positions
<1>4. BodiesOwned'
  BY BodiesNext
<1>5. FreshAhead' /\ QuietBehind'
  BY <1>1, <1>2, <1>3 DEF ProgressInv, FreshAhead, QuietBehind
<1>6. OneThread'
  BY <1>1, <1>3 DEF ProgressInv, OneThread
<1>7. CallsOwned'
  BY <1>1 DEF ProgressInv, CallsOwned
<1>8. InboxOwned'
  BY <1>1 DEF ProgressInv, InboxOwned, actors
<1> QED BY <1>4, <1>5, <1>6, <1>7, <1>8 DEF ProgressInv

(* A step that is about item i, which something is in progress about,       *)
(* leaves the items ahead fresh and those behind quiet.                     *)
LEMMA Local ==
  ASSUME TypeInv, ProgressInv, current # None, NEW i \in Positions, ~Quiet(i),
         UNCHANGED <<current, item, items, late>>, live' \subseteq live,
         \A j \in Positions \ {i} :
           inbox'[j] = inbox[j] /\ groovy'[j] = groovy[j] /\ http'[j] = http[j],
         \A k \in DOMAIN httpBox' :
           httpBox'[k].item = i \/ \E n \in DOMAIN httpBox : httpBox'[k].item = httpBox[n].item
  PROVE  FreshAhead' /\ QuietBehind' /\ CallsOwned'
<1>1. Positions' = Positions /\ \A j : Punctual(j)' = Punctual(j) /\ Owns(j)' = Owns(j)
  BY DEF Positions, Punctual, Owns
<1>2. Owns(i) /\ i <= item
  BY Active
<1>3. \A j \in Positions \ {i} : Quiet(j) => Quiet(j)'
  BY DEF Quiet
<1>4. \A j \in Positions \ {i} : Fresh(j) => Fresh(j)'
  BY <1>3 DEF Fresh
<1>5. FreshAhead'
  <2>1. item \in Positions /\ Positions \subseteq Nat
    BY Working, TypeParts, Pipeline
  <2>2. \A j \in Positions : j > item => j # i
    BY <2>1, <1>2
  <2> QED BY <1>1, <1>4, <2>2 DEF ProgressInv, FreshAhead
<1>6. QuietBehind'
  BY <1>1, <1>3 DEF ProgressInv, QuietBehind
<1>7. CallsOwned'
  BY <1>1, <1>2 DEF ProgressInv, CallsOwned
<1> QED BY <1>5, <1>6, <1>7

(* Queues of calls. *)
LEMMA LastTaken ==
  ASSUME NEW S, NEW q \in Seq(S), Len(q) = 1
  PROVE  Tail(q) = <<>>
<1>1. q # <<>>
  OBVIOUS
<1>2. Tail(q) \in Seq(S) /\ Len(Tail(q)) = 0
  BY <1>1, HeadTailProperties
<1> QED BY <1>2, EmptySeq

LEMMA CallsTail ==
  ASSUME TypeInv, httpBox # <<>>
  PROVE  /\ \A k \in DOMAIN Tail(httpBox) :
              \E n \in DOMAIN httpBox : Tail(httpBox)[k].item = httpBox[n].item
         /\ \E n \in DOMAIN httpBox : Head(httpBox).item = httpBox[n].item
         /\ Len(httpBox) = 1 => Tail(httpBox) = <<>>
<1>1. httpBox \in Seq(HttpCommand(Positions))
  BY TypeParts DEF HttpOK
<1>2. Len(httpBox) = 1 => Tail(httpBox) = <<>>
  BY <1>1, LastTaken
<1> QED BY <1>1, <1>2, TailAt

LEMMA CallsAppend ==
  ASSUME TypeInv, NEW m \in HttpCommand(Positions)
  PROVE  /\ \A k \in DOMAIN Append(httpBox, m) :
              \/ Append(httpBox, m)[k].item = m.item
              \/ \E n \in DOMAIN httpBox : Append(httpBox, m)[k].item = httpBox[n].item
         /\ httpBox = <<>> => Len(Append(httpBox, m)) = 1
<1>1. httpBox \in Seq(HttpCommand(Positions))
  BY TypeParts DEF HttpOK
<1>2. \A k \in 1..(Len(httpBox) + 1) : k \in 1..Len(httpBox) \/ k = Len(httpBox) + 1
  BY <1>1, AppendAt
<1> QED BY <1>1, <1>2, AppendAt

(* The end of a run leaves nothing in progress.                             *)
LEMMA StoppedProgress ==
  ASSUME TypeInv, Stopped
  PROVE  ProgressInv'
<1>1. Positions' = Positions /\ Positions \subseteq Nat \ {0}
  BY TypeParts, Pipeline DEF Stopped, Positions
<1>2. item' = 0 /\ current' = None /\ httpBox' = <<>> /\ mailbox' = <<>> /\ late' = {}
  BY DEF Stopped
<1>3. \A i \in Positions : Fresh(i)'
  BY <1>1 DEF Stopped, Fresh, Quiet, NoItem
<1>4. FreshAhead' /\ QuietBehind'
  BY <1>1, <1>2, <1>3 DEF FreshAhead, QuietBehind
<1>5. OneThread' /\ CallsOwned' /\ InboxOwned'
  BY <1>2 DEF OneThread, CallsOwned, InboxOwned
<1>6. BodiesOwned'
  BY <1>2 DEF BodiesOwned, Holds
<1> QED BY <1>4, <1>5, <1>6 DEF ProgressInv

(* The next item starts from nothing: the item before it is concluded, and  *)
(* without a timeout nothing is in progress about it any more.              *)
LEMMA ExecuteProgress ==
  ASSUME TypeInv, ProgressInv, item < Len(items), ~asked,
         ~Pending(Tail(mailbox)), Execute(item + 1), current' # None,
         UNCHANGED <<groovy, httpActors, items, late>>
  PROVE  ProgressInv'
<1> DEFINE new == item + 1
<1>1. /\ Positions' = Positions /\ Positions \subseteq Nat \ {0}
      /\ new \in Positions /\ item \in Nat /\ new \in Nat
      /\ late \subseteq Positions /\ httpBox \in Seq(HttpCommand(Positions))
  BY TypeParts, Pipeline DEF EntityOK, LedgerOK, HttpOK, Positions
<1>2. item' = new /\ asked' /\ UNCHANGED <<http, httpBox, late>>
  BY DEF Execute, httpActors
<1>3. \A i \in Positions \ {new} : Quiet(i)' <=> Quiet(i)
  BY DEF Execute, Quiet, httpActors
<1>4. \A i : Punctual(i)' <=> Punctual(i)
  BY <1>2 DEF Punctual
<1>5. item # 0 /\ Punctual(item) => Quiet(item)
  BY Working DEF ProgressInv, OneThread
<1>6. FreshAhead'
  <2>1. ASSUME NEW i \in Positions, i > new
        PROVE  Fresh(i)'
    <3>1. i # new /\ i > item
      BY <1>1, <2>1
    <3> QED BY <1>2, <1>3, <3>1 DEF ProgressInv, FreshAhead, Fresh
  <2> QED BY <1>1, <1>2, <2>1 DEF FreshAhead
<1>7. QuietBehind'
  <2>1. ASSUME NEW i \in Positions, i < new, Punctual(i)
        PROVE  Quiet(i)'
    <3>1. i # new /\ i # 0 /\ (i < item \/ i = item)
      BY <1>1, <2>1
    <3>2. Quiet(i)
      BY <1>5, <2>1, <3>1 DEF ProgressInv, QuietBehind
    <3> QED BY <1>3, <3>1, <3>2
  <2> QED BY <1>1, <1>2, <1>4, <2>1 DEF QuietBehind
<1>8. \A k \in DOMAIN httpBox : httpBox[k].item < new /\ ~Punctual(httpBox[k].item)
  <2> SUFFICES ASSUME NEW k \in DOMAIN httpBox
               PROVE  httpBox[k].item < new /\ ~Punctual(httpBox[k].item)
    OBVIOUS
  <2>1. httpBox # <<>>
    OBVIOUS
  <2>2. item # 0 /\ item \in Positions
    BY <2>1, Working
  <2>3. Quiet(item) => httpBox[k].item # item
    BY DEF Quiet
  <2>4. Owns(httpBox[k].item)
    BY DEF ProgressInv, CallsOwned
  <2>5. CASE httpBox[k].item = item
    BY <1>1, <1>5, <2>2, <2>3, <2>5
  <2>6. CASE httpBox[k].item < item /\ ~Punctual(httpBox[k].item)
    <3>1. httpBox[k].item \in Nat
      <4>1. httpBox[k] \in HttpCommand(Positions)
        BY <1>1, TailAt
      <4> QED BY <1>1, <4>1, MessageParts
    <3> QED BY <1>1, <2>6, <3>1
  <2> QED BY <2>4, <2>5, <2>6 DEF Owns
<1>9. CallsOwned'
  BY <1>2, <1>4, <1>8 DEF CallsOwned, Owns
<1>10. Punctual(new) => httpBox = <<>>
  <2> SUFFICES ASSUME Punctual(new), httpBox # <<>> PROVE FALSE
    OBVIOUS
  <2>1. 1 \in DOMAIN httpBox
    BY <1>1, TailAt
  <2>2. httpBox[1] \in HttpCommand(Positions)
    BY <1>1, TailAt
  <2>3. httpBox[1].item \in Nat
    <3>1. httpBox[1].item \in Positions
      BY <2>2, MessageParts
    <3> QED BY <1>1, <3>1
  <2>4. \A j \in late : j \in Nat /\ j > new
    BY <1>1 DEF Punctual
  <2>5. httpBox[1].item < new
    BY <1>8, <2>1
  <2>6. \A j \in late : j > httpBox[1].item
    BY <1>1, <2>3, <2>4, <2>5
  <2> QED BY <1>8, <2>1, <2>6 DEF Punctual
<1>11. inbox'[new] = <<Signal("Execute")>> /\ groovy'[new] = "idle" /\ http'[new] = "none"
  <2>1. Fresh(new)
    BY <1>1 DEF ProgressInv, FreshAhead
  <2> QED BY <1>1, <1>2, <2>1, TypeParts DEF Execute, Fresh, Quiet, ActorsOK
<1>12. OneThread'
  <2>1. Punctual(new) => InOnePlace'
    BY <1>2, <1>10, <1>11 DEF InOnePlace
  <2> QED BY <1>2, <1>4, <2>1 DEF OneThread
<1>13. InboxOwned'
  BY <1>2, <1>11 DEF InboxOwned, Signal
<1>14. BodiesOwned'
  <2>1. HoldsIn(Tail(mailbox), Outcomes) = {} /\ mailbox' = Tail(mailbox)
    BY DEF Pending, Execute
  <2>2. Holds({"ResponseWrapper", "InternalResponse"})' \subseteq HoldsIn(Tail(mailbox), Outcomes)
    BY <2>1, HoldsAllNext DEF HoldsIn, Outcomes
  <2> QED BY <2>1, <2>2 DEF BodiesOwned
<1> QED BY <1>6, <1>7, <1>9, <1>12, <1>13, <1>14 DEF ProgressInv

LEMMA InitPipelineProgress ==
  ASSUME TypeInv, OutcomeInv, ProgressInv, mailbox # <<>>,
         Head(mailbox).kind \in Outcomes \/ (current = None /\ Head(mailbox).kind = "Start"),
         NEW s \in Starts, InitPipeline(s)
  PROVE  ProgressInv'
<1>1. mailbox \in Seq(Command(Positions))
  BY TypeParts DEF EntityOK
<1>2. ~asked /\ ~Pending(Tail(mailbox))
  <2>1. CASE Head(mailbox).kind \in Outcomes
    <3>1. Pending(mailbox)
      BY <1>1, <2>1, HoldsTail DEF Pending
    <3> QED BY <1>1, <2>1, <3>1, OutcomeTaken, OutcomeParts
  <2>2. CASE current = None /\ Head(mailbox).kind = "Start"
    <3>1. ~Pending(mailbox) /\ ~asked
      BY <2>2, OutcomeParts, Working
    <3>2. Head(mailbox).kind \notin Outcomes
      BY <2>2 DEF Outcomes
    <3> QED BY <1>1, <3>1, <3>2, OtherTaken
  <2> QED BY <2>1, <2>2
<1>3. s # None
  BY EnrichmentAssumption
<1> QED BY <1>2, <1>3, StoppedProgress, ExecuteProgress DEF InitPipeline

(* The messages of the entity.                                              *)
LEMMA TakenProgress ==
  ASSUME TypeInv, ProgressInv, mailbox # <<>>, mailbox' = Tail(mailbox),
         UNCHANGED <<current, item, asked, actors, httpBox, http, items, late>>
  PROVE  ProgressInv'
<1>1. mailbox \in Seq(Command(Positions)) /\ BodiesIn(mailbox)
  BY TypeParts, BodiesNow DEF EntityOK, ProgressInv
<1> QED BY <1>1, BodiesTail, ProgressFrame

LEMMA TellSelfProgress ==
  ASSUME TypeInv, ProgressInv, mailbox # <<>>, NEW m \in Command(Positions), TellSelf(m),
         m.kind \in {"ResponseWrapper", "InternalResponse"} => Owns(m.body)
  PROVE  ProgressInv'
<1>1. mailbox \in Seq(Command(Positions)) /\ BodiesIn(mailbox)
      /\ Tail(mailbox) \in Seq(Command(Positions))
  BY TypeParts, BodiesNow, HeadTailProperties DEF EntityOK, ProgressInv
<1>2. BodiesIn(Append(Tail(mailbox), m))
  BY <1>1, BodiesTail, BodiesAppend
<1> QED BY <1>2, ProgressFrame DEF TellSelf, httpActors, outside, ledger

LEMMA MessageProgress ==
  ASSUME TypeInv, OutcomeInv, ProgressInv, OnMessage
  PROVE  ProgressInv'
<1>1. mailbox # <<>> /\ Head(mailbox) \in Command(Positions)
  BY TypeParts, HeadTailProperties
     DEF EntityOK, OnMessage, OnSetup, OnStartInProgress, OnEnrichItemError, OnResponseWrapper,
         OnInternalResponse, OnInternalError, OnRegisterCallback, OnCallback, OnStaleCallback,
         Receive
<1>2. /\ Head(mailbox).kind = "Start" => Head(mailbox).start \in Starts
      /\ Head(mailbox).kind = "ResponseWrapper" =>
           Head(mailbox).body \in Positions /\ Owns(Head(mailbox).body)
  <2>1. 1 \in DOMAIN mailbox /\ Head(mailbox) = mailbox[1]
    BY <1>1, TypeParts, TailAt DEF EntityOK
  <2>2. Head(mailbox).kind = "ResponseWrapper" => Owns(Head(mailbox).body)
    BY <2>1 DEF ProgressInv, BodiesOwned, Holds
  <2> QED BY <1>1, <2>2, MessageParts
<1>3. Head(mailbox).kind \in Outcomes => current \in Starts
  BY <1>1, Working, TypeParts DEF EntityOK, Outcomes
<1>4. CASE OnSetup
  BY <1>1, <1>2, <1>4, InitPipelineProgress, StoppedProgress DEF OnSetup, Receive
<1>5. CASE OnStartInProgress
  BY <1>1, <1>5, TakenProgress DEF OnStartInProgress, httpActors, outside
<1>6. CASE OnEnrichItemError
  <2>1. Head(mailbox).kind \in Outcomes
    BY <1>6 DEF OnEnrichItemError, Receive, Outcomes
  <2>2. CASE Skips
    BY <1>1, <1>3, <2>1, <2>2, InitPipelineProgress DEF Skips
  <2>3. CASE Rejects
    BY <2>3, StoppedProgress DEF Rejects
  <2>4. CASE Fails
    <3>1. Signal("InternalError") \in Command(Positions)
          /\ Signal("InternalError").kind = "InternalError"
      BY Messages DEF Signal
    <3> QED BY <1>1, <2>4, <3>1, TellSelfProgress DEF Fails
  <2> QED BY <1>6, <2>2, <2>3, <2>4 DEF OnEnrichItemError
<1>7. CASE OnResponseWrapper
  <2> DEFINE m == Body("InternalResponse", Head(mailbox).body)
  <2>1. m \in Command(Positions) /\ m.body = Head(mailbox).body /\ Owns(Head(mailbox).body)
    BY <1>2, <1>7, Messages DEF Body, OnResponseWrapper, Receive
  <2>2. TellSelf(m)
    BY <1>7 DEF OnResponseWrapper
  <2> HIDE DEF m
  <2> QED BY <1>1, <2>1, <2>2, TellSelfProgress
<1>8. CASE OnInternalResponse
  <2>1. Head(mailbox).kind \in Outcomes
    BY <1>8 DEF OnInternalResponse, Receive, Outcomes
  <2>2. CASE InitPipeline(current)
    BY <1>1, <1>3, <2>1, <2>2, InitPipelineProgress
  <2>3. CASE Stopped
    BY <2>3, StoppedProgress
  <2>4. CASE TellSelf(Signal("EnrichItemError"))
    <3>1. Signal("EnrichItemError") \in Command(Positions)
          /\ Signal("EnrichItemError").kind = "EnrichItemError"
      BY Messages DEF Signal
    <3> QED BY <1>1, <2>4, <3>1, TellSelfProgress
  <2> QED BY <1>8, <2>2, <2>3, <2>4 DEF OnInternalResponse
<1>9. CASE OnInternalError \/ OnStaleCallback
  BY <1>9, StoppedProgress DEF OnInternalError, OnStaleCallback
<1>10. CASE OnRegisterCallback
  BY <1>1, <1>10, TakenProgress DEF OnRegisterCallback, httpActors, outside, ledger
<1>11. CASE OnCallback
  BY <1>1, <1>11, TakenProgress DEF OnCallback, outside
<1> QED BY <1>4, <1>5, <1>6, <1>7, <1>8, <1>9, <1>10, <1>11 DEF OnMessage

(* The steps of the item in progress.                                       *)
LEMMA OnExecuteProgress ==
  ASSUME TypeInv, ProgressInv, NEW i \in Positions, OnExecute(i)
  PROVE  ProgressInv'
<1>1. /\ current # None /\ ~Quiet(i) /\ inbox[i] # <<>>
      /\ item \in Positions /\ late \subseteq Nat /\ Positions' = Positions
      /\ inbox \in [Positions -> Seq(ItemCommand(Positions))]
      /\ groovy \in [Positions -> {"idle", "script", "validation"}]
  <2>1. ~Quiet(i) /\ inbox[i] # <<>> /\ Positions' = Positions
    BY DEF OnExecute, ItemReceives, Quiet, outside, Positions
  <2> QED BY <2>1, Working, TypeParts, Pipeline DEF ActorsOK, LedgerOK
<1>2. UNCHANGED <<current, item, asked, mailbox, http, items, late>>
  BY DEF OnExecute, entity, outside, ledger
<1>3. Owns(i) /\ i <= item /\ (Punctual(item) => i = item /\ asked)
  BY <1>1, Active
<1>4. \A j : Punctual(j)' = Punctual(j) /\ Owns(j)' = Owns(j)
  BY <1>2 DEF Punctual, Owns
<1> DEFINE call == [kind |-> "Call", item |-> i]
<1>5. call \in HttpCommand(Positions) /\ call.item = i
  BY Messages
<1>6. httpBox' = httpBox \/ httpBox' = Append(httpBox, call)
  BY DEF OnExecute, Call, Validate
<1> HIDE DEF call
<1>7. /\ inbox' = [inbox EXCEPT ![i] = Tail(@)] /\ live' \subseteq live
      /\ \A j \in Positions \ {i} : groovy'[j] = groovy[j]
  BY <1>1 DEF OnExecute, Handled, Validate
<1>8. FreshAhead' /\ QuietBehind' /\ CallsOwned'
  <2>1. \A k \in DOMAIN httpBox' :
          httpBox'[k].item = i \/ \E n \in DOMAIN httpBox : httpBox'[k].item = httpBox[n].item
    BY <1>5, <1>6, CallsAppend
  <2>2. \A j \in Positions \ {i} :
          inbox'[j] = inbox[j] /\ groovy'[j] = groovy[j] /\ http'[j] = http[j]
    BY <1>1, <1>2, <1>7
  <2> QED BY <1>1, <1>2, <1>7, <2>1, <2>2, Local
<1>9. OneThread'
  <2> SUFFICES ASSUME Punctual(item) PROVE InOnePlace' /\ asked'
    BY <1>2, <1>4 DEF OneThread
  <2>1. i = item /\ asked /\ InOnePlace
    BY <1>1, <1>3 DEF ProgressInv, OneThread
  <2>2. Len(inbox[i]) = 1 /\ groovy[i] = "idle" /\ httpBox = <<>> /\ http[i] \in {"none", "stopped"}
    BY <1>1, <2>1 DEF InOnePlace
  <2>3. inbox'[i] = <<>>
    BY <1>1, <1>7, <2>2, LastTaken
  <2>4. httpBox' # <<>> => Len(httpBox') = 1 /\ groovy'[i] = "idle"
    BY <1>1, <1>5, <1>6, <2>2, CallsAppend DEF OnExecute, Validate, Call
  <2>5. InOnePlace'
    BY <1>2, <2>1, <2>2, <2>3, <2>4 DEF InOnePlace
  <2> QED BY <1>2, <2>1, <2>5
<1>10. InboxOwned'
  <2>1. CASE i = item
    <3> DEFINE t == Tail(inbox[i])
    <3>1. \A k \in DOMAIN t : k + 1 \in DOMAIN inbox[i] /\ t[k] = inbox[i][k + 1]
      BY <1>1, TailAt
    <3>2. inbox'[item'] = t
      BY <1>1, <1>2, <1>7, <2>1
    <3> HIDE DEF t
    <3> QED BY <1>1, <1>4, <2>1, <3>1, <3>2 DEF InboxOwned, ProgressInv
  <2>2. CASE i # item
    BY <1>1, <1>2, <1>4, <1>7, <2>2 DEF InboxOwned, ProgressInv
  <2> QED BY <2>1, <2>2
<1>11. BodiesOwned'
  BY <1>2, <1>4 DEF ProgressInv, BodiesOwned, Holds
<1> QED BY <1>8, <1>9, <1>10, <1>11 DEF ProgressInv

LEMMA InboxAppend ==
  ASSUME TypeInv, NEW i \in Positions, NEW m \in ItemCommand(Positions)
  PROVE  /\ \A k \in DOMAIN Append(inbox[i], m) :
              \/ Append(inbox[i], m)[k] = m
              \/ k \in DOMAIN inbox[i] /\ Append(inbox[i], m)[k] = inbox[i][k]
         /\ inbox[i] = <<>> => Len(Append(inbox[i], m)) = 1
<1>1. inbox[i] \in Seq(ItemCommand(Positions))
  BY TypeParts DEF ActorsOK
<1>2. \A k \in 1..(Len(inbox[i]) + 1) : k \in 1..Len(inbox[i]) \/ k = Len(inbox[i]) + 1
  BY <1>1, AppendAt
<1> QED BY <1>1, <1>2, AppendAt

LEMMA RunScriptProgress ==
  ASSUME TypeInv, ProgressInv, NEW i \in Positions, RunScript(i)
  PROVE  ProgressInv'
<1>1. /\ current # None /\ ~Quiet(i) /\ groovy[i] # "idle" /\ Positions' = Positions
      /\ item \in Positions
      /\ inbox \in [Positions -> Seq(ItemCommand(Positions))]
      /\ groovy \in [Positions -> {"idle", "script", "validation"}]
  <2>1. ~Quiet(i) /\ groovy[i] # "idle" /\ Positions' = Positions
    BY DEF RunScript, Quiet, outside, Positions
  <2> QED BY <2>1, Working, TypeParts, Pipeline DEF ActorsOK
<1>2. UNCHANGED <<current, item, asked, mailbox, live, http, httpBox, items, late>>
  BY DEF RunScript, entity, httpActors, outside, ledger
<1>3. Owns(i) /\ i <= item /\ (Punctual(item) => i = item /\ asked)
  BY <1>1, Active
<1>4. \A j : Punctual(j)' = Punctual(j) /\ Owns(j)' = Owns(j)
  BY <1>2 DEF Punctual, Owns
<1>5. /\ groovy' = [groovy EXCEPT ![i] = "idle"]
      /\ \/ inbox' = inbox
         \/ \E m \in ItemCommand(Positions) :
              /\ m.kind \in {"GroovyResponse", "HttpBody"} => m.body = i
              /\ inbox' = [inbox EXCEPT ![i] = Append(@, m)]
  <2>1. /\ {Body("GroovyResponse", i), Signal("GroovyError"), Signal("Valid"), Signal("Invalid")}
             \subseteq ItemCommand(Positions)
        /\ Body("GroovyResponse", i).body = i
        /\ Signal("GroovyError").kind = "GroovyError"
        /\ Signal("Valid").kind = "Valid" /\ Signal("Invalid").kind = "Invalid"
    BY Messages DEF Signal, Body
  <2>2. PICK m \in {Body("GroovyResponse", i), Signal("GroovyError"),
                    Signal("Valid"), Signal("Invalid")} :
          inbox' \in {inbox, [inbox EXCEPT ![i] = Append(@, m)]}
    BY DEF RunScript
  <2>3. m \in ItemCommand(Positions) /\ (m.kind \in {"GroovyResponse", "HttpBody"} => m.body = i)
    BY <2>1, <2>2
  <2> QED BY <2>2, <2>3 DEF RunScript
<1>6. FreshAhead' /\ QuietBehind' /\ CallsOwned'
  <2>1. \A j \in Positions \ {i} :
          inbox'[j] = inbox[j] /\ groovy'[j] = groovy[j] /\ http'[j] = http[j]
    BY <1>1, <1>2, <1>5
  <2> QED BY <1>1, <1>2, <2>1, Local
<1>7. OneThread'
  <2> SUFFICES ASSUME Punctual(item) PROVE InOnePlace' /\ asked'
    BY <1>2, <1>4 DEF OneThread
  <2>1. i = item /\ asked /\ InOnePlace
    BY <1>1, <1>3 DEF ProgressInv, OneThread
  <2>2. inbox[i] = <<>> /\ httpBox = <<>> /\ http[i] \in {"none", "stopped"}
    BY <1>1, <2>1 DEF InOnePlace
  <2>3. inbox'[i] # <<>> => Len(inbox'[i]) = 1
    BY <1>1, <1>5, <2>2, InboxAppend
  <2>4. InOnePlace'
    BY <1>1, <1>2, <1>5, <2>1, <2>2, <2>3 DEF InOnePlace
  <2> QED BY <1>2, <2>1, <2>4
<1>8. InboxOwned'
  <2>1. CASE inbox' = inbox \/ i # item
    BY <1>1, <1>2, <1>4, <1>5, <2>1 DEF InboxOwned, ProgressInv
  <2>2. ASSUME NEW m \in ItemCommand(Positions), i = item,
               m.kind \in {"GroovyResponse", "HttpBody"} => m.body = i,
               inbox' = [inbox EXCEPT ![i] = Append(@, m)]
        PROVE  InboxOwned'
    <3> DEFINE t == Append(inbox[i], m)
    <3>1. \A k \in DOMAIN t : t[k] = m \/ (k \in DOMAIN inbox[i] /\ t[k] = inbox[i][k])
      BY InboxAppend
    <3>2. inbox'[item'] = t
      BY <1>1, <1>2, <2>2
    <3> HIDE DEF t
    <3> QED BY <1>1, <1>3, <1>4, <2>2, <3>1, <3>2 DEF InboxOwned, ProgressInv
  <2> QED BY <1>5, <2>1, <2>2
<1>9. BodiesOwned'
  BY <1>2, <1>4 DEF ProgressInv, BodiesOwned, Holds
<1> QED BY <1>6, <1>7, <1>8, <1>9 DEF ProgressInv

LEMMA ValidatedProgress ==
  ASSUME TypeInv, ProgressInv, NEW i \in Positions, OnGroovyValidatorResponse(i)
  PROVE  ProgressInv'
<1>1. /\ current # None /\ ~Quiet(i) /\ inbox[i] # <<>>
      /\ item \in Positions /\ Positions' = Positions
      /\ inbox \in [Positions -> Seq(ItemCommand(Positions))]
  <2>1. ~Quiet(i) /\ inbox[i] # <<>> /\ Positions' = Positions
    BY DEF OnGroovyValidatorResponse, ItemReceives, Quiet, outside, Positions
  <2> QED BY <2>1, Working, TypeParts, Pipeline DEF ActorsOK
<1>2. UNCHANGED <<current, item, asked, mailbox, live, groovy, http, items, late>>
  BY DEF OnGroovyValidatorResponse, entity, outside, ledger
<1>3. Owns(i) /\ i <= item /\ (Punctual(item) => i = item /\ asked)
  BY <1>1, Active
<1>4. \A j : Punctual(j)' = Punctual(j) /\ Owns(j)' = Owns(j)
  BY <1>2 DEF Punctual, Owns
<1> DEFINE call == [kind |-> "Call", item |-> i]
<1>5. call \in HttpCommand(Positions) /\ call.item = i
  BY Messages
<1>6. httpBox' = Append(httpBox, call) /\ inbox' = [inbox EXCEPT ![i] = Tail(@)]
  BY DEF OnGroovyValidatorResponse, Call, Handled
<1> HIDE DEF call
<1>7. FreshAhead' /\ QuietBehind' /\ CallsOwned'
  <2>1. \A k \in DOMAIN httpBox' :
          httpBox'[k].item = i \/ \E n \in DOMAIN httpBox : httpBox'[k].item = httpBox[n].item
    BY <1>5, <1>6, CallsAppend
  <2>2. \A j \in Positions \ {i} :
          inbox'[j] = inbox[j] /\ groovy'[j] = groovy[j] /\ http'[j] = http[j]
    BY <1>1, <1>2, <1>6
  <2> QED BY <1>1, <1>2, <2>1, <2>2, Local
<1>8. OneThread'
  <2> SUFFICES ASSUME Punctual(item) PROVE InOnePlace' /\ asked'
    BY <1>2, <1>4 DEF OneThread
  <2>1. i = item /\ asked /\ InOnePlace
    BY <1>1, <1>3 DEF ProgressInv, OneThread
  <2>2. Len(inbox[i]) = 1 /\ groovy[i] = "idle" /\ httpBox = <<>> /\ http[i] \in {"none", "stopped"}
    BY <1>1, <2>1 DEF InOnePlace
  <2>3. inbox'[i] = <<>> /\ Len(httpBox') = 1
    BY <1>1, <1>5, <1>6, <2>2, LastTaken, CallsAppend
  <2>4. InOnePlace'
    BY <1>2, <2>1, <2>2, <2>3 DEF InOnePlace
  <2> QED BY <1>2, <2>1, <2>4
<1>9. InboxOwned'
  <2>1. CASE i = item
    <3> DEFINE t == Tail(inbox[i])
    <3>1. \A k \in DOMAIN t : k + 1 \in DOMAIN inbox[i] /\ t[k] = inbox[i][k + 1]
      BY <1>1, TailAt
    <3>2. inbox'[item'] = t
      BY <1>1, <1>2, <1>6, <2>1
    <3> HIDE DEF t
    <3> QED BY <1>1, <1>4, <2>1, <3>1, <3>2 DEF InboxOwned, ProgressInv
  <2>2. CASE i # item
    BY <1>1, <1>2, <1>4, <1>6, <2>2 DEF InboxOwned, ProgressInv
  <2> QED BY <2>1, <2>2
<1>10. BodiesOwned'
  BY <1>2, <1>4 DEF ProgressInv, BodiesOwned, Holds
<1> QED BY <1>7, <1>8, <1>9, <1>10 DEF ProgressInv

(* The item in progress is concluded: nothing is left of it.  A late item   *)
(* answers nobody.                                                          *)
LEMMA ReplyProgress ==
  ASSUME TypeInv, ProgressInv, NEW i \in Positions, i \in live, inbox[i] # <<>>,
         NEW m \in Command(Positions), ReplyAndStop(i, m),
         \/ m.kind = "EnrichItemError"
         \/ /\ Head(inbox[i]).kind \in {"GroovyResponse", "HttpBody"}
            /\ m = Body("ResponseWrapper", Head(inbox[i]).body)
  PROVE  ProgressInv'
<1>1. /\ current # None /\ ~Quiet(i) /\ item \in Positions /\ Positions' = Positions
      /\ inbox \in [Positions -> Seq(ItemCommand(Positions))]
  <2>1. ~Quiet(i) /\ Positions' = Positions
    BY DEF ReplyAndStop, Quiet, outside, Positions
  <2> QED BY <2>1, Working, TypeParts, Pipeline DEF ActorsOK
<1>2. /\ UNCHANGED <<current, item, groovy, http, httpBox, items, late>>
      /\ inbox' = [inbox EXCEPT ![i] = <<>>] /\ live' = live \ {i}
  BY DEF ReplyAndStop, httpActors, outside, ledger
<1>3. Owns(i) /\ i <= item /\ (Punctual(item) => i = item /\ asked)
  BY <1>1, Active
<1>4. \A j : Punctual(j)' = Punctual(j) /\ Owns(j)' = Owns(j)
  BY <1>2 DEF Punctual, Owns
<1>5. FreshAhead' /\ QuietBehind' /\ CallsOwned'
  <2>1. \A j \in Positions \ {i} :
          inbox'[j] = inbox[j] /\ groovy'[j] = groovy[j] /\ http'[j] = http[j]
    BY <1>1, <1>2
  <2> QED BY <1>1, <1>2, <2>1, Local
<1>6. OneThread'
  <2> SUFFICES ASSUME Punctual(item) PROVE InOnePlace' /\ Quiet(item)'
    BY <1>2, <1>4 DEF OneThread
  <2>1. i = item /\ InOnePlace
    BY <1>1, <1>3 DEF ProgressInv, OneThread
  <2>2. groovy[i] = "idle" /\ httpBox = <<>> /\ http[i] \in {"none", "stopped"}
    BY <2>1 DEF InOnePlace
  <2>3. inbox'[i] = <<>> /\ i \notin live'
    BY <1>1, <1>2
  <2> QED BY <1>2, <2>1, <2>2, <2>3 DEF InOnePlace, Quiet
<1>7. InboxOwned'
  <2>1. i = item => inbox'[item'] = <<>>
    BY <1>1, <1>2
  <2>2. i # item => inbox'[item'] = inbox[item]
    BY <1>1, <1>2
  <2> QED BY <1>1, <1>2, <1>4, <2>1, <2>2 DEF InboxOwned, ProgressInv
<1>8. BodiesOwned'
  <2>1. mailbox \in Seq(Command(Positions)) /\ BodiesIn(mailbox)
    BY TypeParts, BodiesNow DEF EntityOK, ProgressInv
  <2>2. CASE asked /\ item = i
    <3>1. 1 \in DOMAIN inbox[i] /\ Head(inbox[i]) = inbox[i][1]
      BY <1>1, TailAt
    <3>2. Head(inbox[i]).kind \in {"GroovyResponse", "HttpBody"} => Owns(Head(inbox[i]).body)
      BY <1>1, <2>2, <3>1 DEF InboxOwned, ProgressInv
    <3>3. m.kind \in {"ResponseWrapper", "InternalResponse"} => Owns(m.body)
      BY <3>2 DEF Body
    <3>4. mailbox' = Append(mailbox, m)
      BY <2>2 DEF ReplyAndStop, Reply
    <3>5. BodiesIn(mailbox')
      BY <2>1, <3>3, <3>4, BodiesAppend
    <3> QED BY <1>2, <3>5, BodiesNext
  <2>3. CASE ~(asked /\ item = i)
    <3>1. UNCHANGED mailbox
      BY <2>3 DEF ReplyAndStop, Reply
    <3> QED BY <1>2, <2>1, <3>1, BodiesNext
  <2> QED BY <2>2, <2>3
<1> QED BY <1>5, <1>6, <1>7, <1>8 DEF ProgressInv

LEMMA ItemProgress ==
  ASSUME TypeInv, ProgressInv, NEW i \in Positions, ItemStep(i)
  PROVE  ProgressInv'
<1>1. CASE OnExecute(i) \/ RunScript(i) \/ OnGroovyValidatorResponse(i)
  BY <1>1, OnExecuteProgress, RunScriptProgress, ValidatedProgress
<1>2. CASE OnGroovyResponse(i) \/ OnHttpResponse(i)
  <2>1. i \in live /\ inbox[i] # <<>>
    BY <1>2 DEF OnGroovyResponse, OnHttpResponse, ItemReceives
  <2>2. PICK m : /\ ReplyAndStop(i, m) /\ m \in Command(Positions)
                 /\ \/ m.kind = "EnrichItemError"
                    \/ /\ Head(inbox[i]).kind \in {"GroovyResponse", "HttpBody"}
                       /\ m = Body("ResponseWrapper", Head(inbox[i]).body)
    <3>1. Signal("EnrichItemError") \in Command(Positions)
          /\ Signal("EnrichItemError").kind = "EnrichItemError"
      BY Messages DEF Signal
    <3>2. ASSUME ItemReceives(i, "GroovyResponse") \/ ItemReceives(i, "HttpBody")
          PROVE  /\ Body("ResponseWrapper", Head(inbox[i]).body) \in Command(Positions)
                 /\ Head(inbox[i]).kind \in {"GroovyResponse", "HttpBody"}
      <4>1. Head(inbox[i]).body \in Positions
        BY <3>2, InboxType, MessageParts DEF ItemReceives
      <4> QED BY <3>2, <4>1, Messages DEF ItemReceives
    <3> QED BY <1>2, <3>1, <3>2 DEF OnGroovyResponse, OnHttpResponse
  <2> QED BY <2>1, <2>2, ReplyProgress
<1> QED BY <1>1, <1>2 DEF ItemStep

(* The timeout of the item in progress.                                     *)
LEMMA AskTimeoutProgress ==
  ASSUME TypeInv, ProgressInv, AskTimeout
  PROVE  ProgressInv'
<1>1. /\ current # None /\ item \in Positions /\ Positions' = Positions
      /\ Positions \subseteq Nat /\ late \subseteq Positions
  BY Working, TypeParts, Pipeline DEF AskTimeout, LedgerOK, outside, Positions
<1>2. /\ UNCHANGED <<current, item, inbox, live, groovy, http, httpBox, items>>
      /\ late' = late \cup {item}
  BY DEF AskTimeout, actors, httpActors, outside
<1>3. \A i : Quiet(i)' = Quiet(i) /\ (Owns(i) => Owns(i)') /\ (Punctual(i)' => Punctual(i))
  BY <1>2, OwnsGrows DEF Quiet, Punctual
<1>4. FreshAhead'
  BY <1>1, <1>2, <1>3 DEF FreshAhead, Fresh, ProgressInv
<1>5. QuietBehind' /\ CallsOwned' /\ InboxOwned'
  BY <1>1, <1>2, <1>3 DEF QuietBehind, CallsOwned, InboxOwned, ProgressInv
<1>6. OneThread'
  <2>1. ~(item > item)
    BY <1>1
  <2> QED BY <1>2, <2>1 DEF OneThread, Punctual
<1>7. BodiesOwned'
  <2>1. Signal("EnrichItemError") \in Command(Positions)
        /\ Signal("EnrichItemError").kind = "EnrichItemError"
    BY Messages DEF Signal
  <2>2. mailbox \in Seq(Command(Positions)) /\ BodiesIn(mailbox)
    BY TypeParts, BodiesNow DEF EntityOK, ProgressInv
  <2>3. mailbox' = Append(mailbox, Signal("EnrichItemError"))
    BY DEF AskTimeout
  <2>4. BodiesIn(mailbox')
    BY <2>1, <2>2, <2>3, BodiesAppend
  <2> QED BY <1>2, <2>4, BodiesNext
<1> QED BY <1>4, <1>5, <1>6, <1>7 DEF ProgressInv

(* The HTTP actors.                                                         *)
LEMMA OnCallProgress ==
  ASSUME TypeInv, ProgressInv, OnCall
  PROVE  ProgressInv'
<1> DEFINE i == Head(httpBox).item
<1>0. httpBox # <<>> /\ Len(httpBox) \in Nat /\ Head(httpBox) \in HttpCommand(Positions)
  BY TypeParts, HeadTailProperties, LenProperties DEF OnCall, HttpOK
<1>1. /\ current # None /\ item \in Positions /\ Positions' = Positions
      /\ i \in Positions /\ ~Quiet(i)
  <2>1. \E n \in DOMAIN httpBox : i = httpBox[n].item
    BY <1>0, CallsTail
  <2>2. ~Quiet(i)
    BY <2>1 DEF Quiet
  <2> QED BY <1>0, <2>2, Working, MessageParts DEF OnCall, outside, Positions
<1>2. /\ UNCHANGED <<current, item, asked, mailbox, inbox, live, groovy, items, late>>
      /\ http' = [http EXCEPT ![i] = "started"] /\ httpBox' = Tail(httpBox)
  BY DEF OnCall, entity, actors, outside, ledger
<1> HIDE DEF i
<1>3. Owns(i) /\ i <= item /\ (Punctual(item) => i = item /\ asked)
  BY <1>1, Active
<1>4. \A j : Punctual(j)' = Punctual(j) /\ Owns(j)' = Owns(j)
  BY <1>2 DEF Punctual, Owns
<1>5. FreshAhead' /\ QuietBehind' /\ CallsOwned'
  <2>1. \A j \in Positions \ {i} :
          inbox'[j] = inbox[j] /\ groovy'[j] = groovy[j] /\ http'[j] = http[j]
    BY <1>1, <1>2, TypeParts DEF HttpOK
  <2>2. \A k \in DOMAIN httpBox' : \E n \in DOMAIN httpBox : httpBox'[k].item = httpBox[n].item
    BY <1>0, <1>2, CallsTail
  <2> QED BY <1>1, <1>2, <2>1, <2>2, Local
<1>6. OneThread'
  <2> SUFFICES ASSUME Punctual(item) PROVE InOnePlace' /\ asked'
    BY <1>2, <1>4 DEF OneThread
  <2>1. asked /\ InOnePlace
    BY <1>1, <1>3 DEF ProgressInv, OneThread
  <2>2. inbox[item] = <<>> /\ groovy[item] = "idle" /\ Len(httpBox) = 1
    BY <1>0, <2>1 DEF InOnePlace
  <2>3. httpBox' = <<>>
    BY <1>0, <1>2, <2>2, CallsTail
  <2> QED BY <1>2, <2>1, <2>2, <2>3 DEF InOnePlace
<1>7. InboxOwned' /\ BodiesOwned'
  BY <1>2, <1>4 DEF ProgressInv, InboxOwned, BodiesOwned, Holds
<1> QED BY <1>5, <1>6, <1>7 DEF ProgressInv

LEMMA OnResponseProgress ==
  ASSUME TypeInv, ProgressInv, OnResponse
  PROVE  ProgressInv'
<1> DEFINE h == Head(httpBox).item
           m == IF Head(httpBox).ok THEN Body("HttpBody", h) ELSE Signal("HttpError")
<1>0. httpBox # <<>> /\ Len(httpBox) \in Nat /\ Head(httpBox) \in HttpCommand(Positions)
  BY TypeParts, HeadTailProperties, LenProperties DEF OnResponse, HttpOK
<1>1. /\ current # None /\ item \in Positions /\ Positions' = Positions
      /\ h \in Positions /\ ~Quiet(h)
  <2>1. \E n \in DOMAIN httpBox : h = httpBox[n].item
    BY <1>0, CallsTail
  <2>2. ~Quiet(h)
    BY <2>1 DEF Quiet
  <2> QED BY <1>0, <2>2, Working, MessageParts DEF OnResponse, outside, Positions
<1>2. /\ UNCHANGED <<current, item, asked, mailbox, live, groovy, http, items, late>>
      /\ httpBox' = Tail(httpBox)
      /\ inbox' = [j \in Positions |-> IF j = adapter /\ j \in live THEN Append(inbox[j], m)
                                       ELSE inbox[j]]
  BY DEF OnResponse, entity, outside, ledger
<1>3. m \in ItemCommand(Positions) /\ (m.kind \in {"GroovyResponse", "HttpBody"} => m.body = h)
  BY <1>1, Messages DEF Signal, Body
<1> HIDE DEF h, m
<1>4. Owns(h) /\ h <= item /\ (Punctual(item) => h = item /\ asked)
  BY <1>1, Active
<1>5. \A j : Punctual(j)' = Punctual(j) /\ Owns(j)' = Owns(j)
  BY <1>2 DEF Punctual, Owns
<1>6. \A k \in DOMAIN httpBox' : \E n \in DOMAIN httpBox : httpBox'[k].item = httpBox[n].item
  BY <1>0, <1>2, CallsTail
<1>7. inbox \in [Positions -> Seq(ItemCommand(Positions))] /\ live \subseteq Positions
  BY TypeParts DEF ActorsOK
<1>8. FreshAhead' /\ QuietBehind' /\ CallsOwned'
  <2>1. CASE adapter \in live
    <3>1. adapter \in Positions /\ ~Quiet(adapter)
      BY <1>7, <2>1 DEF Quiet
    <3>2. \A j \in Positions \ {adapter} :
            inbox'[j] = inbox[j] /\ groovy'[j] = groovy[j] /\ http'[j] = http[j]
      BY <1>2
    <3> QED BY <1>1, <1>2, <1>6, <3>1, <3>2, Local
  <2>2. CASE adapter \notin live
    <3>1. \A j \in Positions \ {h} :
            inbox'[j] = inbox[j] /\ groovy'[j] = groovy[j] /\ http'[j] = http[j]
      BY <1>2, <2>2
    <3> QED BY <1>1, <1>2, <1>6, <3>1, Local
  <2> QED BY <2>1, <2>2
<1>9. OneThread'
  <2> SUFFICES ASSUME Punctual(item) PROVE InOnePlace' /\ asked'
    BY <1>2, <1>5 DEF OneThread
  <2>1. asked /\ InOnePlace
    BY <1>1, <1>4 DEF ProgressInv, OneThread
  <2>2. /\ inbox[item] = <<>> /\ groovy[item] = "idle" /\ Len(httpBox) = 1
        /\ http[item] \in {"none", "stopped"}
    BY <1>0, <2>1 DEF InOnePlace
  <2>3. httpBox' = <<>>
    BY <1>0, <1>2, <2>2, CallsTail
  <2>4. inbox'[item] # <<>> => Len(inbox'[item]) = 1
    BY <1>1, <1>2, <1>3, <2>2, InboxAppend
  <2> QED BY <1>2, <2>1, <2>2, <2>3, <2>4 DEF InOnePlace
<1>10. InboxOwned'
  <2>1. CASE item = adapter /\ item \in live
    <3> DEFINE t == Append(inbox[item], m)
    <3>1. \A k \in DOMAIN t : t[k] = m \/ (k \in DOMAIN inbox[item] /\ t[k] = inbox[item][k])
      BY <1>1, <1>3, InboxAppend
    <3>2. inbox'[item'] = t
      BY <1>1, <1>2, <2>1
    <3> HIDE DEF t
    <3> QED BY <1>1, <1>3, <1>4, <1>5, <3>1, <3>2 DEF InboxOwned, ProgressInv
  <2>2. CASE ~(item = adapter /\ item \in live)
    <3>1. inbox'[item'] = inbox[item]
      BY <1>1, <1>2, <2>2
    <3> QED BY <1>1, <1>5, <3>1 DEF InboxOwned, ProgressInv
  <2> QED BY <2>1, <2>2
<1>11. BodiesOwned'
  BY <1>2, <1>5 DEF ProgressInv, BodiesOwned, Holds
<1> QED BY <1>8, <1>9, <1>10, <1>11 DEF ProgressInv

(* The processor of an item calls its enricher, waits, or answers.          *)
LEMMA ProcessorProgress ==
  ASSUME TypeInv, ProgressInv, NEW i \in Positions,
         http[i] \in {"started", "posted", "awaiting"},
         UNCHANGED <<current, item, asked, actors, items, late>>, BodiesIn(mailbox'),
         \/ (\E v \in {"posted", "awaiting"} : http' = [http EXCEPT ![i] = v]) /\ UNCHANGED httpBox
         \/ \E ok \in BOOLEAN : Conclude(i, ok)
  PROVE  ProgressInv'
<1>1. /\ current # None /\ ~Quiet(i) /\ item \in Positions /\ Positions' = Positions
      /\ http \in [Positions -> {"none", "started", "posted", "awaiting", "stopped"}]
  <2>1. ~Quiet(i) /\ Positions' = Positions
    BY DEF Quiet, Positions
  <2> QED BY <2>1, Working, TypeParts, Pipeline DEF HttpOK
<1>2. UNCHANGED <<current, item, asked, inbox, live, groovy, items, late>>
  BY DEF actors
<1>3. Owns(i) /\ i <= item /\ (Punctual(item) => i = item /\ asked)
  BY <1>1, Active
<1>4. \A j : Punctual(j)' = Punctual(j) /\ Owns(j)' = Owns(j)
  BY <1>2 DEF Punctual, Owns
<1>5. \/ UNCHANGED httpBox
      \/ /\ \E m \in HttpCommand(Positions) : m.item = i /\ httpBox' = Append(httpBox, m)
         /\ http'[i] = "stopped"
  <2>1. ASSUME NEW ok \in BOOLEAN, Conclude(i, ok)
        PROVE  \E m \in HttpCommand(Positions) : m.item = i /\ httpBox' = Append(httpBox, m)
    <3>1. Response(i, ok) \in HttpCommand(Positions) /\ Response(i, ok).item = i
      BY Messages DEF Response
    <3> QED BY <2>1, <3>1 DEF Conclude
  <2> QED BY <1>1, <2>1 DEF Conclude
<1>6. FreshAhead' /\ QuietBehind' /\ CallsOwned'
  <2>1. \A j \in Positions \ {i} :
          inbox'[j] = inbox[j] /\ groovy'[j] = groovy[j] /\ http'[j] = http[j]
    BY <1>1, <1>2 DEF Conclude
  <2>2. \A k \in DOMAIN httpBox' :
          httpBox'[k].item = i \/ \E n \in DOMAIN httpBox : httpBox'[k].item = httpBox[n].item
    BY <1>5, CallsAppend
  <2> QED BY <1>1, <1>2, <2>1, <2>2, Local
<1>7. OneThread'
  <2> SUFFICES ASSUME Punctual(item) PROVE InOnePlace' /\ asked'
    BY <1>2, <1>4 DEF OneThread
  <2>1. i = item /\ asked /\ InOnePlace
    BY <1>1, <1>3 DEF ProgressInv, OneThread
  <2>2. inbox[i] = <<>> /\ groovy[i] = "idle" /\ httpBox = <<>>
    BY <1>1, <2>1 DEF InOnePlace
  <2>3. httpBox' # <<>> => Len(httpBox') = 1 /\ http'[i] = "stopped"
    BY <1>5, <2>2, CallsAppend
  <2> QED BY <1>2, <2>1, <2>2, <2>3 DEF InOnePlace
<1>8. InboxOwned'
  BY <1>2, <1>4 DEF ProgressInv, InboxOwned
<1>9. BodiesOwned'
  BY <1>2, BodiesNext
<1> QED BY <1>6, <1>7, <1>8, <1>9 DEF ProgressInv

LEMMA MailedProgress ==
  ASSUME TypeInv, ProgressInv, NEW m \in Command(Positions),
         m.kind \notin {"ResponseWrapper", "InternalResponse"},
         mailbox' = Append(mailbox, m) \/ UNCHANGED mailbox
  PROVE  BodiesIn(mailbox')
<1>1. mailbox \in Seq(Command(Positions)) /\ BodiesIn(mailbox)
  BY TypeParts, BodiesNow DEF EntityOK, ProgressInv
<1>2. CASE mailbox' = Append(mailbox, m)
  BY <1>1, <1>2, BodiesAppend
<1>3. CASE UNCHANGED mailbox
  BY <1>1, <1>3
<1> QED BY <1>2, <1>3

LEMMA HttpProgress ==
  ASSUME TypeInv, ProgressInv, NEW i \in Positions, HttpStep(i)
  PROVE  ProgressInv'
<1>1. BodiesIn(mailbox)
  BY BodiesNow DEF ProgressInv
<1>2. CASE OnStart(i)
  <2> DEFINE m == [kind |-> "RegisterCallback", nonce |-> <<current, i>>]
  <2>1. current \in Starts
    BY <1>2, Working, TypeParts DEF OnStart, EntityOK
  <2>2. m \in Command(Positions) /\ m.kind = "RegisterCallback"
    BY <2>1, Messages
  <2>3. mailbox' = Append(mailbox, m) \/ UNCHANGED mailbox
    BY <1>2 DEF OnStart
  <2>4. /\ http[i] = "started" /\ UNCHANGED <<current, item, asked, actors, items, late>>
        /\ \/ http' = [http EXCEPT ![i] = "posted"] /\ UNCHANGED httpBox
           \/ Conclude(i, FALSE)
    BY <1>2 DEF OnStart, ledger
  <2> HIDE DEF m
  <2>5. BodiesIn(mailbox')
    BY <2>2, <2>3, MailedProgress
  <2> QED BY <2>4, <2>5, ProcessorProgress
<1>3. CASE OnHttpOutcome(i)
  <2>1. /\ http[i] = "posted" /\ UNCHANGED <<current, item, asked, actors, items, late, mailbox>>
        /\ \/ http' = [http EXCEPT ![i] = "awaiting"] /\ UNCHANGED httpBox
           \/ Conclude(i, TRUE) \/ Conclude(i, FALSE)
    BY <1>3 DEF OnHttpOutcome, entity, outside, ledger
  <2> QED BY <1>1, <2>1, ProcessorProgress
<1>4. CASE OnDelivered(i)
  <2>1. UNCHANGED <<current, item, asked, actors, items, late, mailbox>>
    BY <1>4 DEF OnDelivered, entity, outside, ledger
  <2>2. CASE http[i] = "awaiting" /\ Conclude(i, TRUE)
    BY <1>1, <2>1, <2>2, ProcessorProgress
  <2>3. CASE UNCHANGED <<httpBox, http>>
    BY <1>1, <2>1, <2>3, ProgressFrame
  <2> QED BY <1>4, <2>2, <2>3 DEF OnDelivered
<1> QED BY <1>2, <1>3, <1>4 DEF HttpStep

LEMMA OthersProgress ==
  ASSUME TypeInv, ProgressInv,
         \/ AskTimeout \/ OnCall \/ OnResponse \/ SendStart \/ Crash
         \/ \E i \in Positions : HttpStep(i)
         \/ \E n \in tokens : PostCallback(n)
         \/ UNCHANGED vars
  PROVE  ProgressInv'
<1>1. CASE SendStart
  <2> DEFINE m == [kind |-> "Start", start |-> sent + 1]
  <2>1. sent + 1 \in Starts
    BY <1>1, TypeParts, EnrichmentAssumption DEF OutsideOK, SendStart, Starts
  <2>2. m \in Command(Positions) /\ m.kind = "Start"
    BY <2>1, Messages
  <2>3. mailbox' = Append(mailbox, m)
        /\ UNCHANGED <<current, item, asked, actors, httpBox, http, items, late>>
    BY <1>1 DEF SendStart, httpActors, ledger
  <2> HIDE DEF m
  <2> QED BY <2>2, <2>3, MailedProgress, ProgressFrame
<1>2. CASE \E n \in tokens : PostCallback(n)
  <2>1. PICK n \in tokens : PostCallback(n)
    BY <1>2
  <2> DEFINE m == [kind |-> "Callback", nonce |-> n]
  <2>2. m \in Command(Positions) /\ m.kind = "Callback"
    BY Messages, TypeParts DEF OutsideOK
  <2>3. mailbox' = Append(mailbox, m)
        /\ UNCHANGED <<current, item, asked, actors, httpBox, http, items, late>>
    BY <2>1 DEF PostCallback, httpActors, ledger
  <2> HIDE DEF m
  <2> QED BY <2>2, <2>3, MailedProgress, ProgressFrame
<1>3. CASE Crash
  BY <1>3, StoppedProgress DEF Crash
<1>4. CASE UNCHANGED vars
  BY <1>4, BodiesNow, ProgressFrame
     DEF vars, entity, httpActors, outside, ledger, ProgressInv
<1> QED BY <1>1, <1>2, <1>3, <1>4, AskTimeoutProgress, OnCallProgress, OnResponseProgress,
           HttpProgress

LEMMA InitProgress == Init => ProgressInv
<1> SUFFICES ASSUME Init PROVE ProgressInv
  OBVIOUS
<1>1. TypeInv
  BY InitType
<1>2. Positions \subseteq Nat \ {0} /\ item = 0 /\ current = None
  BY <1>1, TypeParts, Pipeline DEF Init
<1>3. \A i \in Positions : Fresh(i)
  BY DEF Init, Fresh, Quiet, NoItem
<1>4. FreshAhead /\ QuietBehind
  BY <1>2, <1>3 DEF FreshAhead, QuietBehind
<1>5. OneThread /\ CallsOwned /\ InboxOwned /\ BodiesOwned
  BY <1>2 DEF Init, OneThread, CallsOwned, InboxOwned, BodiesOwned, Holds
<1> QED BY <1>4, <1>5 DEF ProgressInv

LEMMA NextProgress == TypeInv /\ OutcomeInv /\ ProgressInv /\ [Next]_vars => ProgressInv'
<1> SUFFICES ASSUME TypeInv, OutcomeInv, ProgressInv, [Next]_vars PROVE ProgressInv'
  OBVIOUS
<1> QED BY MessageProgress, ItemProgress, OthersProgress DEF Next

LEMMA AlwaysProgress == Spec => [](TypeInv /\ OutcomeInv /\ ProgressInv)
<1>1. Init => ProgressInv
  BY InitProgress
<1>2. TypeInv /\ OutcomeInv /\ ProgressInv /\ [Next]_vars => ProgressInv'
  BY NextProgress
<1> QED BY <1>1, <1>2, AlwaysOutcome, PTL DEF Spec

(* A result is about the item in progress, unless some item up to the one   *)
(* it is about timed out.                                                   *)
THEOREM Foreign == Spec => []ForeignIsLate
<1>1. TypeInv /\ OutcomeInv /\ ProgressInv => ForeignIsLate
  <2> SUFFICES ASSUME TypeInv, ProgressInv,
                      NEW k \in Holds({"ResponseWrapper", "InternalResponse"}),
                      mailbox[k].body # item
               PROVE  mailbox[k].body < item /\ \E i \in late : i <= mailbox[k].body
    BY DEF ForeignIsLate
  <2>1. mailbox[k].body < item /\ ~Punctual(mailbox[k].body)
    BY DEF ProgressInv, BodiesOwned, Owns
  <2>2. PICK i \in late : ~(i > mailbox[k].body)
    BY <2>1 DEF Punctual
  <2>3. mailbox[k].body \in Positions
    <3>1. k \in DOMAIN mailbox /\ mailbox[k].kind \in {"ResponseWrapper", "InternalResponse"}
      BY DEF Holds
    <3>2. mailbox[k] \in Command(Positions)
      <4>1. mailbox \in Seq(Command(Positions))
        BY TypeParts DEF EntityOK
      <4> QED BY <3>1, <4>1, LenProperties
    <3> QED BY <3>1, <3>2, MessageParts
  <2>4. i \in Nat /\ mailbox[k].body \in Nat
    BY <2>3, TypeParts, Pipeline DEF LedgerOK
  <2> QED BY <2>1, <2>2, <2>4
<1> QED BY <1>1, AlwaysProgress, PTL

-----------------------------------------------------------------------------
(* One call of the enricher *)

(* How many messages of a set a queue holds. *)
NoneOf(box, M) == \A k \in DOMAIN box : box[k] \notin M

AtMostOne(box, M) == \A j, k \in DOMAIN box : box[j] \in M /\ box[k] \in M => j = k

(* What makes the supervisor of an item call its enricher. *)
Triggers == { m \in ItemCommand(Positions) : m.kind \in {"Execute", "Valid"} }

CallsOf(i) == { m \in HttpCommand(Positions) : m.kind = "Call" /\ m.item = i }

(* An item whose supervisor's mailbox is in, whose script runs g and whose  *)
(* processor is h, is still to be called once, or was called: the cause of  *)
(* a call, the validation and the call are in one place, before the         *)
(* processor starts.                                                        *)
Once(in, g, box, h, T, C) ==
  /\ AtMostOne(in, T) /\ AtMostOne(box, C)
  /\ ~NoneOf(in, T) => g # "validation"
  /\ ~NoneOf(in, T) \/ g = "validation" => NoneOf(box, C)
  /\ ~NoneOf(in, T) \/ g = "validation" \/ ~NoneOf(box, C) => h = "none"

CalledOnce ==
  \A i \in Positions : Once(inbox[i], groovy[i], httpBox, http[i], Triggers, CallsOf(i))

LEMMA MarkTaken ==
  ASSUME NEW S, NEW box \in Seq(S), box # <<>>, NEW M
  PROVE  /\ NoneOf(box, M) => NoneOf(Tail(box), M)
         /\ AtMostOne(box, M) => AtMostOne(Tail(box), M)
         /\ AtMostOne(box, M) /\ Head(box) \in M => NoneOf(Tail(box), M)
         /\ Head(box) \in M => ~NoneOf(box, M)
<1>1. /\ Head(box) = box[1] /\ 1 \in DOMAIN box
      /\ \A k \in DOMAIN Tail(box) : k + 1 \in DOMAIN box /\ Tail(box)[k] = box[k + 1]
  BY TailAt
<1>2. DOMAIN Tail(box) \subseteq Nat \ {0}
  BY TailAt, LenProperties
<1>3. \A j, k \in DOMAIN Tail(box) : j + 1 # 1 /\ (j + 1 = k + 1 => j = k)
  BY <1>2
<1> QED BY <1>1, <1>3 DEF NoneOf, AtMostOne

LEMMA MarkSent ==
  ASSUME NEW S, NEW box \in Seq(S), NEW m \in S, NEW M
  PROVE  /\ m \notin M /\ NoneOf(box, M) => NoneOf(Append(box, m), M)
         /\ m \notin M /\ AtMostOne(box, M) => AtMostOne(Append(box, m), M)
         /\ NoneOf(box, M) => AtMostOne(Append(box, m), M)
<1>1. \A k \in DOMAIN Append(box, m) :
        \/ k \in DOMAIN box /\ Append(box, m)[k] = box[k]
        \/ k = Len(box) + 1 /\ Append(box, m)[k] = m
  <2>1. \A k \in 1..(Len(box) + 1) : k \in 1..Len(box) \/ k = Len(box) + 1
    BY AppendAt
  <2> QED BY <2>1, AppendAt
<1> QED BY <1>1 DEF NoneOf, AtMostOne

LEMMA MarkNothing ==
  ASSUME NEW M PROVE NoneOf(<<>>, M) /\ AtMostOne(<<>>, M)
  BY DEF NoneOf, AtMostOne

LEMMA MarkSingle ==
  ASSUME NEW M, NEW m PROVE AtMostOne(<<m>>, M)
<1>1. DOMAIN <<m>> = {1}
  OBVIOUS
<1> QED BY <1>1 DEF AtMostOne

LEMMA CalledOnceNext ==
  ASSUME UNCHANGED items,
         \A i \in Positions : Once(inbox'[i], groovy'[i], httpBox', http'[i], Triggers, CallsOf(i))
  PROVE  CalledOnce'
<1>1. Positions' = Positions /\ Triggers' = Triggers /\ \A i : CallsOf(i)' = CallsOf(i)
  BY DEF Positions, Triggers, CallsOf
<1> QED BY <1>1 DEF CalledOnce

(* The queues of the run in progress. *)
LEMMA Queues ==
  ASSUME TypeInv
  PROVE  /\ httpBox \in Seq(HttpCommand(Positions))
         /\ inbox \in [Positions -> Seq(ItemCommand(Positions))]
         /\ groovy \in [Positions -> {"idle", "script", "validation"}]
         /\ http \in [Positions -> {"none", "started", "posted", "awaiting", "stopped"}]
         /\ \A i \in Positions : inbox[i] \in Seq(ItemCommand(Positions))
  BY TypeParts DEF HttpOK, ActorsOK

(* A step about item i leaves the others as they were, but for what it      *)
(* takes from the HttpSupervisor or sends it.                               *)
LEMMA OthersOnce ==
  ASSUME TypeInv, CalledOnce, NEW i, NEW j \in Positions, j # i,
         inbox'[j] = inbox[j], groovy'[j] = groovy[j], http'[j] = http[j],
         \/ httpBox' = httpBox
         \/ httpBox # <<>> /\ httpBox' = Tail(httpBox)
         \/ \E m \in HttpCommand(Positions) : m.item = i /\ httpBox' = Append(httpBox, m)
  PROVE  Once(inbox'[j], groovy'[j], httpBox', http'[j], Triggers, CallsOf(j))
<1>1. /\ NoneOf(httpBox, CallsOf(j)) => NoneOf(httpBox', CallsOf(j))
      /\ AtMostOne(httpBox, CallsOf(j)) => AtMostOne(httpBox', CallsOf(j))
  <2>1. CASE httpBox' = httpBox
    BY <2>1
  <2>2. CASE httpBox # <<>> /\ httpBox' = Tail(httpBox)
    BY <2>2, Queues, MarkTaken
  <2>3. ASSUME NEW m \in HttpCommand(Positions), m.item = i, httpBox' = Append(httpBox, m)
        PROVE  <1>1!1 /\ <1>1!2
    <3>1. m \notin CallsOf(j)
      BY <2>3 DEF CallsOf
    <3> QED BY <2>3, <3>1, Queues, MarkSent
  <2> QED BY <2>1, <2>2, <2>3
<1> QED BY <1>1 DEF CalledOnce, Once

(* The end of a run, and a step of the entity alone. *)
LEMMA StoppedOnce ==
  ASSUME TypeInv, Stopped
  PROVE  CalledOnce'
<1>1. \A i \in Positions : /\ inbox'[i] = <<>> /\ groovy'[i] = "idle"
                           /\ http'[i] = "none" /\ httpBox' = <<>>
  BY DEF Stopped, NoItem
<1>2. UNCHANGED items
  BY DEF Stopped
<1>3. \A i \in Positions : Once(inbox'[i], groovy'[i], httpBox', http'[i], Triggers, CallsOf(i))
  BY <1>1, MarkNothing DEF Once
<1> QED BY <1>2, <1>3, CalledOnceNext

LEMMA FrameOnce ==
  ASSUME CalledOnce, UNCHANGED <<items, inbox, groovy, httpBox, http>>
  PROVE  CalledOnce'
  BY CalledOnceNext DEF CalledOnce

(* Nothing is in progress about the item that is executed.                  *)
LEMMA ExecuteOnce ==
  ASSUME TypeInv, CalledOnce, ProgressInv, item < Len(items), Execute(item + 1),
         UNCHANGED <<groovy, httpActors, items>>
  PROVE  CalledOnce'
<1> DEFINE new == item + 1
<1>1. new \in Positions /\ new > item
  BY TypeParts, Pipeline DEF EntityOK
<1>2. Quiet(new) /\ http[new] = "none"
  BY <1>1 DEF ProgressInv, FreshAhead, Fresh
<1>3. UNCHANGED <<httpBox, http>>
  BY DEF httpActors
<1>4. inbox' = [inbox EXCEPT ![new] = <<Signal("Execute")>>]
  BY DEF Execute
<1> HIDE DEF new
<1>5. Once(inbox'[new], groovy'[new], httpBox', http'[new], Triggers, CallsOf(new))
  <2>1. NoneOf(httpBox, CallsOf(new))
    BY <1>2 DEF Quiet, NoneOf, CallsOf
  <2>2. AtMostOne(httpBox, CallsOf(new))
    BY <1>1 DEF CalledOnce, Once
  <2>3. inbox'[new] = <<Signal("Execute")>>
    BY <1>1, <1>4, Queues
  <2>4. AtMostOne(inbox'[new], Triggers)
    BY <2>3, MarkSingle
  <2>5. groovy'[new] = "idle"
    BY <1>2 DEF Quiet
  <2> QED BY <1>2, <1>3, <2>1, <2>2, <2>4, <2>5 DEF Once
<1>6. ASSUME NEW j \in Positions, j # new
      PROVE  Once(inbox'[j], groovy'[j], httpBox', http'[j], Triggers, CallsOf(j))
  BY <1>3, <1>4, <1>6, Queues, OthersOnce
<1> QED BY <1>5, <1>6, CalledOnceNext

(* The supervisor calls the enricher, or has the document validated first.  *)
LEMMA OnExecuteOnce ==
  ASSUME TypeInv, CalledOnce, NEW i \in Positions, OnExecute(i)
  PROVE  CalledOnce'
<1> DEFINE call == [kind |-> "Call", item |-> i]
<1>1. /\ call \in HttpCommand(Positions) /\ call.item = i
      /\ inbox[i] # <<>> /\ Head(inbox[i]).kind = "Execute"
      /\ UNCHANGED <<items, http>>
  BY Messages DEF OnExecute, ItemReceives, outside
<1>2. Head(inbox[i]) \in Triggers
  BY <1>1, Queues, TailAt DEF Triggers
<1>3. inbox' = [inbox EXCEPT ![i] = Tail(@)]
  BY DEF OnExecute, Handled
<1>4. \/ httpBox' = httpBox /\ groovy' = [groovy EXCEPT ![i] = "script"]
      \/ httpBox' = httpBox /\ groovy' = [groovy EXCEPT ![i] = "validation"]
      \/ httpBox' = httpBox /\ groovy' = groovy
      \/ httpBox' = Append(httpBox, call) /\ groovy' = groovy
  BY DEF OnExecute, Validate, Call
<1> HIDE DEF call
<1>5. Once(inbox'[i], groovy'[i], httpBox', http'[i], Triggers, CallsOf(i))
  <2>1. /\ AtMostOne(inbox[i], Triggers) /\ ~NoneOf(inbox[i], Triggers)
        /\ NoneOf(Tail(inbox[i]), Triggers) /\ AtMostOne(Tail(inbox[i]), Triggers)
    BY <1>1, <1>2, Queues, MarkTaken DEF CalledOnce, Once
  <2>2. groovy[i] # "validation" /\ NoneOf(httpBox, CallsOf(i)) /\ http[i] = "none"
        /\ AtMostOne(httpBox, CallsOf(i)) /\ AtMostOne(Append(httpBox, call), CallsOf(i))
    BY <1>1, <2>1, Queues, MarkSent DEF CalledOnce, Once
  <2>3. inbox'[i] = Tail(inbox[i]) /\ groovy'[i] \in {"script", "validation", groovy[i]}
    BY <1>3, <1>4, Queues
  <2>4. CASE httpBox' = httpBox
    BY <1>1, <2>1, <2>2, <2>3, <2>4 DEF Once
  <2>5. CASE httpBox' = Append(httpBox, call) /\ groovy' = groovy
    BY <1>1, <2>1, <2>2, <2>3, <2>5 DEF Once
  <2> QED BY <1>4, <2>4, <2>5
<1>6. ASSUME NEW j \in Positions, j # i
      PROVE  Once(inbox'[j], groovy'[j], httpBox', http'[j], Triggers, CallsOf(j))
  <2>1. inbox'[j] = inbox[j] /\ groovy'[j] = groovy[j] /\ http'[j] = http[j]
    BY <1>1, <1>3, <1>4, <1>6, Queues
  <2> QED BY <1>1, <1>4, <1>6, <2>1, OthersOnce
<1> QED BY <1>1, <1>5, <1>6, CalledOnceNext

(* The validation that allows the call takes the place of the execution.    *)
LEMMA RunScriptOnce ==
  ASSUME TypeInv, CalledOnce, NEW i \in Positions, RunScript(i)
  PROVE  CalledOnce'
<1>1. UNCHANGED <<items, httpBox, http>> /\ groovy' = [groovy EXCEPT ![i] = "idle"]
  BY DEF RunScript, outside, httpActors
<1>2. \/ inbox' = inbox
      \/ \E m \in ItemCommand(Positions) :
           /\ m \in Triggers => groovy[i] = "validation"
           /\ inbox' = [inbox EXCEPT ![i] = Append(@, m)]
  <2>1. /\ {Body("GroovyResponse", i), Signal("GroovyError"), Signal("Valid"), Signal("Invalid")}
             \subseteq ItemCommand(Positions)
        /\ Body("GroovyResponse", i) \notin Triggers /\ Signal("GroovyError") \notin Triggers
    BY Messages DEF Signal, Body, Triggers
  <2>2. PICK m \in {Body("GroovyResponse", i), Signal("GroovyError"),
                    Signal("Valid"), Signal("Invalid")} :
          /\ inbox' \in {inbox, [inbox EXCEPT ![i] = Append(@, m)]}
          /\ m \in Triggers => groovy[i] # "script"
    BY <2>1 DEF RunScript
  <2>3. groovy[i] # "script" => groovy[i] = "validation"
    BY Queues DEF RunScript
  <2>4. m \in ItemCommand(Positions)
    BY <2>1, <2>2
  <2> QED BY <2>2, <2>3, <2>4
<1>3. Once(inbox'[i], groovy'[i], httpBox', http'[i], Triggers, CallsOf(i))
  <2>1. groovy'[i] = "idle" /\ Once(inbox[i], groovy[i], httpBox, http[i], Triggers, CallsOf(i))
    BY <1>1, Queues DEF CalledOnce
  <2>2. CASE inbox' = inbox
    BY <1>1, <2>1, <2>2 DEF Once
  <2>3. ASSUME NEW m \in ItemCommand(Positions), m \in Triggers => groovy[i] = "validation",
               inbox' = [inbox EXCEPT ![i] = Append(@, m)]
        PROVE  Once(inbox'[i], groovy'[i], httpBox', http'[i], Triggers, CallsOf(i))
    <3>1. inbox'[i] = Append(inbox[i], m)
      BY <2>3, Queues
    <3>2. CASE m \in Triggers
      <4>1. AtMostOne(inbox'[i], Triggers)
        BY <2>1, <2>3, <3>1, <3>2, Queues, MarkSent DEF Once
      <4> QED BY <1>1, <2>1, <2>3, <3>2, <4>1 DEF Once
    <3>3. CASE m \notin Triggers
      <4>1. /\ NoneOf(inbox[i], Triggers) => NoneOf(inbox'[i], Triggers)
            /\ AtMostOne(inbox[i], Triggers) => AtMostOne(inbox'[i], Triggers)
        BY <3>1, <3>3, Queues, MarkSent
      <4> QED BY <1>1, <2>1, <4>1 DEF Once
    <3> QED BY <3>2, <3>3
  <2> QED BY <1>2, <2>2, <2>3
<1>4. ASSUME NEW j \in Positions, j # i
      PROVE  Once(inbox'[j], groovy'[j], httpBox', http'[j], Triggers, CallsOf(j))
  <2>1. inbox'[j] = inbox[j] /\ groovy'[j] = groovy[j] /\ http'[j] = http[j]
    BY <1>1, <1>2, <1>4, Queues
  <2> QED BY <1>1, <1>4, <2>1, OthersOnce
<1> QED BY <1>1, <1>3, <1>4, CalledOnceNext

LEMMA ValidatedOnce ==
  ASSUME TypeInv, CalledOnce, NEW i \in Positions, OnGroovyValidatorResponse(i)
  PROVE  CalledOnce'
<1> DEFINE call == [kind |-> "Call", item |-> i]
<1>1. /\ call \in HttpCommand(Positions) /\ call.item = i
      /\ inbox[i] # <<>> /\ Head(inbox[i]).kind = "Valid"
      /\ UNCHANGED <<items, http, groovy>>
      /\ inbox' = [inbox EXCEPT ![i] = Tail(@)] /\ httpBox' = Append(httpBox, call)
  BY Messages DEF OnGroovyValidatorResponse, ItemReceives, outside, Handled, Call
<1>2. Head(inbox[i]) \in Triggers
  BY <1>1, Queues, TailAt DEF Triggers
<1> HIDE DEF call
<1>3. Once(inbox'[i], groovy'[i], httpBox', http'[i], Triggers, CallsOf(i))
  <2>1. /\ AtMostOne(inbox[i], Triggers) /\ ~NoneOf(inbox[i], Triggers)
        /\ NoneOf(Tail(inbox[i]), Triggers) /\ AtMostOne(Tail(inbox[i]), Triggers)
    BY <1>1, <1>2, Queues, MarkTaken DEF CalledOnce, Once
  <2>2. groovy[i] # "validation" /\ NoneOf(httpBox, CallsOf(i)) /\ http[i] = "none"
        /\ AtMostOne(Append(httpBox, call), CallsOf(i))
    BY <1>1, <2>1, Queues, MarkSent DEF CalledOnce, Once
  <2>3. inbox'[i] = Tail(inbox[i])
    BY <1>1, Queues
  <2> QED BY <1>1, <2>1, <2>2, <2>3 DEF Once
<1>4. ASSUME NEW j \in Positions, j # i
      PROVE  Once(inbox'[j], groovy'[j], httpBox', http'[j], Triggers, CallsOf(j))
  <2>1. inbox'[j] = inbox[j] /\ groovy'[j] = groovy[j] /\ http'[j] = http[j]
    BY <1>1, <1>4, Queues
  <2> QED BY <1>1, <1>4, <2>1, OthersOnce
<1> QED BY <1>1, <1>3, <1>4, CalledOnceNext

LEMMA ItemOnce ==
  ASSUME TypeInv, CalledOnce, NEW i \in Positions, ItemStep(i)
  PROVE  CalledOnce'
<1>1. CASE OnGroovyResponse(i) \/ OnHttpResponse(i)
  <2>1. /\ UNCHANGED <<items, groovy, httpBox, http>>
        /\ inbox' = [inbox EXCEPT ![i] = <<>>]
    BY <1>1 DEF OnGroovyResponse, OnHttpResponse, ReplyAndStop, outside, httpActors
  <2>2. Once(inbox'[i], groovy'[i], httpBox', http'[i], Triggers, CallsOf(i))
    <3>1. inbox'[i] = <<>>
      BY <2>1, Queues
    <3> QED BY <2>1, <3>1, MarkNothing DEF CalledOnce, Once
  <2>3. ASSUME NEW j \in Positions, j # i
        PROVE  Once(inbox'[j], groovy'[j], httpBox', http'[j], Triggers, CallsOf(j))
    BY <2>1, <2>3, Queues, OthersOnce
  <2> QED BY <2>1, <2>2, <2>3, CalledOnceNext
<1> QED BY <1>1, OnExecuteOnce, RunScriptOnce, ValidatedOnce DEF ItemStep

(* The call starts a processor; the response of one is not a call.          *)
LEMMA OnCallOnce ==
  ASSUME TypeInv, CalledOnce, OnCall
  PROVE  CalledOnce'
<1>1. PICK i : i = Head(httpBox).item
  OBVIOUS
<1>2. /\ httpBox # <<>> /\ httpBox' = Tail(httpBox) /\ UNCHANGED <<items, inbox, groovy>>
      /\ http' = [http EXCEPT ![i] = "started"]
  BY <1>1 DEF OnCall, outside, actors
<1>3. i \in Positions /\ Head(httpBox) \in CallsOf(i)
  BY <1>1, <1>2, Queues, TailAt, MessageParts DEF OnCall, CallsOf
<1>4. Once(inbox'[i], groovy'[i], httpBox', http'[i], Triggers, CallsOf(i))
  <2>1. /\ ~NoneOf(httpBox, CallsOf(i)) /\ NoneOf(Tail(httpBox), CallsOf(i))
        /\ AtMostOne(Tail(httpBox), CallsOf(i))
    BY <1>2, <1>3, Queues, MarkTaken DEF CalledOnce, Once
  <2> QED BY <1>2, <1>3, <2>1 DEF CalledOnce, Once
<1>5. ASSUME NEW j \in Positions, j # i
      PROVE  Once(inbox'[j], groovy'[j], httpBox', http'[j], Triggers, CallsOf(j))
  <2>1. http'[j] = http[j]
    BY <1>2, <1>5, Queues
  <2> QED BY <1>2, <1>5, <2>1, OthersOnce
<1> QED BY <1>2, <1>4, <1>5, CalledOnceNext

LEMMA OnResponseOnce ==
  ASSUME TypeInv, CalledOnce, OnResponse
  PROVE  CalledOnce'
<1>1. httpBox # <<>> /\ httpBox' = Tail(httpBox) /\ UNCHANGED <<items, groovy, http>>
  BY DEF OnResponse, outside
<1>2. ASSUME NEW j \in Positions
      PROVE  Once(inbox'[j], groovy'[j], httpBox', http'[j], Triggers, CallsOf(j))
  <2>1. /\ NoneOf(httpBox, CallsOf(j)) => NoneOf(httpBox', CallsOf(j))
        /\ AtMostOne(httpBox, CallsOf(j)) => AtMostOne(httpBox', CallsOf(j))
    BY <1>1, Queues, MarkTaken
  <2>2. \/ inbox'[j] = inbox[j]
        \/ \E m \in ItemCommand(Positions) : m \notin Triggers /\ inbox'[j] = Append(inbox[j], m)
    <3>1. Head(httpBox).item \in Positions
      BY <1>1, Queues, TailAt, MessageParts
    <3>2. /\ Body("HttpBody", Head(httpBox).item) \in ItemCommand(Positions) \ Triggers
          /\ Signal("HttpError") \in ItemCommand(Positions) \ Triggers
      BY <3>1, Messages DEF Body, Signal, Triggers
    <3> QED BY <3>2 DEF OnResponse
  <2>3. /\ NoneOf(inbox[j], Triggers) => NoneOf(inbox'[j], Triggers)
        /\ AtMostOne(inbox[j], Triggers) => AtMostOne(inbox'[j], Triggers)
    <3>1. ASSUME NEW m \in ItemCommand(Positions), m \notin Triggers,
                 inbox'[j] = Append(inbox[j], m)
          PROVE  <2>3!1 /\ <2>3!2
      <4>1. inbox[j] \in Seq(ItemCommand(Positions))
        BY Queues
      <4> QED BY <3>1, <4>1, MarkSent
    <3> QED BY <2>2, <3>1
  <2> QED BY <1>1, <2>1, <2>3 DEF CalledOnce, Once
<1> QED BY <1>1, <1>2, CalledOnceNext

(* A processor that was started is not called again.                        *)
LEMMA ProcessorOnce ==
  ASSUME TypeInv, CalledOnce, NEW i \in Positions, UNCHANGED <<items, inbox, groovy>>,
         http[i] # "none", NEW h, http' = [http EXCEPT ![i] = h],
         \/ httpBox' = httpBox
         \/ \E ok \in BOOLEAN : httpBox' = Append(httpBox, Response(i, ok))
  PROVE  CalledOnce'
<1>1. \/ httpBox' = httpBox
      \/ \E m \in HttpCommand(Positions) :
           m.item = i /\ m.kind = "Response" /\ httpBox' = Append(httpBox, m)
  BY Messages DEF Response
<1>2. Once(inbox'[i], groovy'[i], httpBox', http'[i], Triggers, CallsOf(i))
  <2>1. /\ NoneOf(inbox[i], Triggers) /\ groovy[i] # "validation" /\ NoneOf(httpBox, CallsOf(i))
        /\ AtMostOne(inbox[i], Triggers) /\ AtMostOne(httpBox, CallsOf(i))
    BY DEF CalledOnce, Once
  <2>2. NoneOf(httpBox', CallsOf(i)) /\ AtMostOne(httpBox', CallsOf(i))
    <3>1. ASSUME NEW m \in HttpCommand(Positions), m.kind = "Response",
                 httpBox' = Append(httpBox, m)
          PROVE  NoneOf(httpBox', CallsOf(i)) /\ AtMostOne(httpBox', CallsOf(i))
      <4>1. m \notin CallsOf(i)
        BY <3>1 DEF CallsOf
      <4>2. httpBox \in Seq(HttpCommand(Positions))
        BY Queues
      <4> QED BY <2>1, <3>1, <4>1, <4>2, MarkSent
    <3> QED BY <1>1, <2>1, <3>1
  <2> QED BY <2>1, <2>2 DEF Once
<1>3. ASSUME NEW j \in Positions, j # i
      PROVE  Once(inbox'[j], groovy'[j], httpBox', http'[j], Triggers, CallsOf(j))
  <2>1. http'[j] = http[j]
    BY <1>3, Queues
  <2> QED BY <1>1, <1>3, <2>1, OthersOnce
<1> QED BY <1>2, <1>3, CalledOnceNext

(* What a message of the entity does: the run ends, the next item is        *)
(* executed, the message is dropped or followed by an outcome, or it is     *)
(* about a callback.                                                        *)
ItemExecuted ==
  /\ item < Len(items) /\ Execute(item + 1) /\ current' # None
  /\ UNCHANGED <<groovy, httpActors, items, late, handed, tokens, sent>>
  /\ \/ current = None /\ Head(mailbox).kind = "Start" /\ current' = Head(mailbox).start
     \/ current # None /\ current' = current

MessagePassed ==
  /\ \/ mailbox' = Tail(mailbox)
     \/ \E m \in Command(Positions) : m.kind \in Outcomes /\ mailbox' = Append(Tail(mailbox), m)
  /\ Head(mailbox).kind \notin {"RegisterCallback", "Callback"}
  /\ UNCHANGED <<current, item, pending, asked, actors, httpActors, items, late, handed, tokens, sent>>

LEMMA MessageSteps ==
  ASSUME TypeInv, OnMessage
  PROVE  /\ mailbox # <<>> /\ Head(mailbox) \in Command(Positions)
         /\ \/ Stopped /\ UNCHANGED <<tokens, sent>>
            \/ ItemExecuted \/ MessagePassed \/ OnRegisterCallback \/ OnCallback
<1>1. mailbox # <<>> /\ Head(mailbox) \in Command(Positions)
  BY TypeParts, HeadTailProperties
     DEF EntityOK, OnMessage, OnSetup, OnStartInProgress, OnEnrichItemError, OnResponseWrapper,
         OnInternalResponse, OnInternalError, OnRegisterCallback, OnCallback, OnStaleCallback,
         Receive
<1>2. /\ Head(mailbox).kind = "Start" => Head(mailbox).start \in Starts
      /\ Head(mailbox).kind = "ResponseWrapper" => Head(mailbox).body \in Positions
  BY <1>1, MessageParts
<1>3. Head(mailbox).kind \notin {"Start", "Callback"} => current # None
  BY <1>1, Working
<1>4. /\ Signal("EnrichItemError") \in Command(Positions)
      /\ Signal("InternalError") \in Command(Positions)
      /\ Signal("EnrichItemError").kind \in Outcomes /\ Signal("InternalError").kind \in Outcomes
      /\ \A i \in Positions : /\ Body("InternalResponse", i) \in Command(Positions)
                              /\ Body("InternalResponse", i).kind \in Outcomes
  BY Messages DEF Signal, Body, Outcomes
<1>5. ASSUME NEW s, InitPipeline(s), UNCHANGED <<tokens, sent>>, s # None,
             \/ current = None /\ Head(mailbox).kind = "Start" /\ s = Head(mailbox).start
             \/ current # None /\ s = current
      PROVE  Stopped \/ ItemExecuted
  BY <1>5 DEF InitPipeline, ItemExecuted
<1>6. ASSUME NEW m \in Command(Positions), m.kind \in Outcomes, TellSelf(m),
             Head(mailbox).kind \notin {"RegisterCallback", "Callback"}
      PROVE  MessagePassed
  BY <1>6 DEF TellSelf, MessagePassed, outside, ledger
<1>7. CASE OnSetup
  BY <1>1, <1>2, <1>5, <1>7, EnrichmentAssumption DEF OnSetup, Receive
<1>8. CASE OnStartInProgress
  BY <1>1, <1>8 DEF OnStartInProgress, Receive, MessagePassed, outside
<1>9. CASE OnEnrichItemError
  BY <1>1, <1>3, <1>4, <1>5, <1>6, <1>9 DEF OnEnrichItemError, Receive, Skips, Rejects, Fails
<1>10. CASE OnResponseWrapper
  BY <1>1, <1>2, <1>4, <1>6, <1>10 DEF OnResponseWrapper, Receive
<1>11. CASE OnInternalResponse
  BY <1>1, <1>3, <1>4, <1>5, <1>6, <1>11 DEF OnInternalResponse, Receive
<1>12. CASE OnInternalError \/ OnStaleCallback
  BY <1>1, <1>12 DEF OnInternalError, OnStaleCallback
<1> QED BY <1>1, <1>7, <1>8, <1>9, <1>10, <1>11, <1>12 DEF OnMessage

LEMMA OthersOnceAll ==
  ASSUME TypeInv, CalledOnce,
         \/ AskTimeout \/ OnCall \/ OnResponse \/ SendStart \/ Crash
         \/ \E i \in Positions : HttpStep(i)
         \/ \E n \in tokens : PostCallback(n)
         \/ UNCHANGED vars
  PROVE  CalledOnce'
<1>1. CASE \/ AskTimeout \/ SendStart \/ UNCHANGED vars
           \/ \E n \in tokens : PostCallback(n)
  BY <1>1, FrameOnce DEF AskTimeout, SendStart, PostCallback, vars, actors, httpActors, outside
<1>2. CASE Crash
  BY <1>2, StoppedOnce DEF Crash
<1>3. ASSUME NEW i \in Positions, HttpStep(i)
      PROVE  CalledOnce'
  <2>1. UNCHANGED <<items, inbox, groovy>>
    BY <1>3 DEF HttpStep, OnStart, OnHttpOutcome, OnDelivered, actors, outside
  <2>2. \/ UNCHANGED <<httpBox, http>>
        \/ /\ http[i] # "none"
           /\ \E h : http' = [http EXCEPT ![i] = h]
           /\ httpBox' = httpBox \/ \E ok \in BOOLEAN : httpBox' = Append(httpBox, Response(i, ok))
    BY <1>3 DEF HttpStep, OnStart, OnHttpOutcome, OnDelivered, Conclude
  <2>3. CASE UNCHANGED <<httpBox, http>>
    BY <2>1, <2>3, FrameOnce
  <2> QED BY <2>1, <2>2, <2>3, ProcessorOnce
<1> QED BY <1>1, <1>2, <1>3, OnCallOnce, OnResponseOnce

LEMMA InitOnce == Init => CalledOnce
<1> SUFFICES ASSUME Init PROVE CalledOnce
  OBVIOUS
<1>1. \A i \in Positions : /\ inbox[i] = <<>> /\ groovy[i] = "idle" /\ http[i] = "none"
  BY DEF Init, NoItem
<1>2. httpBox = <<>>
  BY DEF Init
<1> QED BY <1>1, <1>2, MarkNothing DEF CalledOnce, Once

LEMMA NextOnce == TypeInv /\ ProgressInv /\ CalledOnce /\ [Next]_vars => CalledOnce'
<1> SUFFICES ASSUME TypeInv, ProgressInv, CalledOnce, [Next]_vars PROVE CalledOnce'
  OBVIOUS
<1>1. CASE OnMessage
  <2>1. CASE ItemExecuted
    BY <2>1, ExecuteOnce DEF ItemExecuted
  <2>2. CASE MessagePassed \/ OnRegisterCallback \/ OnCallback
    BY <2>2, FrameOnce
       DEF MessagePassed, OnRegisterCallback, OnCallback, actors, httpActors, outside
  <2> QED BY <1>1, <2>1, <2>2, StoppedOnce, MessageSteps
<1>2. CASE \/ AskTimeout \/ OnCall \/ OnResponse \/ SendStart \/ Crash
           \/ \E i \in Positions : HttpStep(i)
           \/ \E n \in tokens : PostCallback(n)
           \/ UNCHANGED vars
  BY <1>2, OthersOnceAll
<1>3. CASE \E i \in Positions : ItemStep(i)
  BY <1>3, ItemOnce
<1> QED BY <1>1, <1>2, <1>3 DEF Next

LEMMA AlwaysOnce == Spec => [](TypeInv /\ ProgressInv /\ CalledOnce)
<1>1. Init => TypeInv /\ CalledOnce
  BY InitType, InitOnce
<1>2. TypeInv /\ ProgressInv /\ CalledOnce /\ [Next]_vars => TypeInv' /\ CalledOnce'
  BY NextType, NextOnce
<1> QED BY <1>1, <1>2, AlwaysProgress, PTL DEF Spec

-----------------------------------------------------------------------------
(* The callbacks *)

(* The processor called its enricher. *)
Called(h) == h \notin {"none", "started"}

(* A processor in behavior h that was handed n callbacks: before the        *)
(* response of its enricher it holds the callback or is about to, after it  *)
(* is about to conclude with it.                                            *)
HandedOnce(h, n, coming, held) ==
  /\ n <= 1
  /\ n > 0 => Called(h) /\ (h = "posted" => coming \/ held) /\ (h = "awaiting" => coming)

(* A nonce a processor of run c waits for. *)
Owed(n, c, h, counts) == n[1] = c /\ Called(h[n[2]]) /\ counts[n[2]] = 0

Registers(box) == HoldsIn(box, {"RegisterCallback"})

(* The registrations on their way and the one in place are owed, each once. *)
Armed(box, p, c, h, counts) ==
  /\ \A k \in Registers(box) : Owed(box[k].nonce, c, h, counts) /\ box[k].nonce # p
  /\ \A j, k \in Registers(box) : box[j].nonce = box[k].nonce => j = k
  /\ p # None => Owed(p, c, h, counts)

KeptInv ==
  /\ \A i \in Positions : HandedOnce(http[i], handed[i], i \in delivered, i \in early)
  /\ Armed(mailbox, pending, current, http, handed)

LEMMA KeptNext ==
  ASSUME UNCHANGED items,
         \A i \in Positions : HandedOnce(http'[i], handed'[i], i \in delivered', i \in early'),
         Armed(mailbox', pending', current', http', handed')
  PROVE  KeptInv'
  BY DEF KeptInv, Positions

LEMMA RegistersTyped ==
  ASSUME TypeInv
  PROVE  /\ mailbox \in Seq(Command(Positions))
         /\ \A k \in Registers(mailbox) : mailbox[k].nonce \in Starts \X Positions
         /\ pending # None => pending \in Starts \X Positions
<1>1. mailbox \in Seq(Command(Positions))
  BY TypeParts DEF EntityOK
<1>2. \A k \in DOMAIN mailbox : mailbox[k] \in Command(Positions)
  BY <1>1, LenProperties, ElementOfSeq
<1>3. \A k \in Registers(mailbox) : mailbox[k].nonce \in Starts \X Positions
  BY <1>2, MessageParts DEF Registers, HoldsIn
<1> QED BY <1>1, <1>3, TypeParts DEF EntityOK

(* A message is taken, or one that is no registration comes: no             *)
(* registration is added.                                                   *)
LEMMA ArmedTaken ==
  ASSUME NEW S, NEW box \in Seq(S), box # <<>>, NEW p, NEW c, NEW h, NEW counts,
         Armed(box, p, c, h, counts)
  PROVE  Armed(Tail(box), p, c, h, counts)
<1>1. \A k \in Registers(Tail(box)) :
        k \in Nat /\ k + 1 \in Registers(box) /\ Tail(box)[k] = box[k + 1]
  BY HoldsTail DEF Registers
<1>2. \A j, k \in Registers(Tail(box)) : j + 1 = k + 1 => j = k
  BY <1>1
<1> QED BY <1>1, <1>2 DEF Armed

LEMMA ArmedSent ==
  ASSUME NEW S, NEW box \in Seq(S), NEW m \in S, m.kind # "RegisterCallback",
         NEW p, NEW c, NEW h, NEW counts, Armed(box, p, c, h, counts)
  PROVE  Armed(Append(box, m), p, c, h, counts)
<1>1. \A k \in Registers(Append(box, m)) : k \in Registers(box) /\ Append(box, m)[k] = box[k]
  BY HoldsAppend DEF Registers
<1> QED BY <1>1 DEF Armed

(* The processors go on, and are handed nothing. *)
LEMMA ArmedKept ==
  ASSUME TypeInv, NEW p, NEW c, NEW h, NEW n, NEW g, Armed(mailbox, p, c, h, n),
         p # None => p \in Starts \X Positions,
         \A i \in Positions : Called(h[i]) => Called(g[i])
  PROVE  Armed(mailbox, p, c, g, n)
<1>1. \A x \in Starts \X Positions : Owed(x, c, h, n) => Owed(x, c, g, n)
  BY DEF Owed
<1> QED BY <1>1, RegistersTyped DEF Armed

LEMMA StoppedKept ==
  ASSUME TypeInv, Stopped
  PROVE  KeptInv'
<1>1. UNCHANGED items /\ Positions' = Positions /\ mailbox' = <<>> /\ pending' = None
  BY DEF Stopped, Positions
<1>2. \A i \in Positions : handed'[i] = 0
  BY DEF Stopped, NoItem
<1>3. \A i \in Positions : HandedOnce(http'[i], handed'[i], i \in delivered', i \in early')
  BY <1>2 DEF HandedOnce
<1>4. Armed(mailbox', pending', current', http', handed')
  BY <1>1 DEF Armed, Registers, HoldsIn
<1> QED BY <1>1, <1>3, <1>4, KeptNext

(* Nothing happens to the callbacks. *)
LEMMA FrameKept ==
  ASSUME TypeInv, KeptInv, UNCHANGED <<items, pending, current, http, handed, delivered, early>>,
         \/ mailbox' = mailbox
         \/ mailbox # <<>> /\ mailbox' = Tail(mailbox)
         \/ \E m \in Command(Positions) :
              /\ m.kind # "RegisterCallback"
              /\ \/ mailbox # <<>> /\ mailbox' = Append(Tail(mailbox), m)
                 \/ mailbox' = Append(mailbox, m)
  PROVE  KeptInv'
<1>1. mailbox \in Seq(Command(Positions))
      /\ (mailbox # <<>> => Tail(mailbox) \in Seq(Command(Positions)))
  BY RegistersTyped, TailAt
<1>2. Armed(mailbox', pending', current', http', handed')
  BY <1>1, ArmedTaken, ArmedSent DEF KeptInv
<1> QED BY <1>2, KeptNext DEF KeptInv

(* The next item: the registrations of the run stay, the one in place is    *)
(* forgotten.                                                               *)
LEMMA ExecutedKept ==
  ASSUME TypeInv, KeptInv, mailbox # <<>>, ItemExecuted
  PROVE  KeptInv'
<1>1. /\ mailbox' = Tail(mailbox) /\ pending' = None
      /\ UNCHANGED <<items, http, handed, delivered, early>>
  BY DEF ItemExecuted, Execute, httpActors
<1>2. Armed(mailbox, None, current', http, handed)
  <2>1. CASE current # None /\ current' = current
    <3>1. None \notin Starts \X Positions
      BY TypeParts, Pipeline, EnrichmentAssumption DEF Nonce
    <3> QED BY <2>1, <3>1, RegistersTyped DEF KeptInv, Armed
  <2>2. CASE current = None
    <3>1. Registers(mailbox) = {}
      BY <2>2, TypeParts DEF AtRest, Registers, HoldsIn
    <3> QED BY <3>1 DEF Armed
  <2> QED BY <2>1, <2>2 DEF ItemExecuted
<1>3. Armed(Tail(mailbox), None, current', http, handed)
  BY <1>2, RegistersTyped, ArmedTaken
<1> QED BY <1>1, <1>3, KeptNext DEF KeptInv

(* The registration that is taken is not any of those behind it.            *)
LEMMA RegisteredKept ==
  ASSUME TypeInv, KeptInv, OnRegisterCallback
  PROVE  KeptInv'
<1>1. /\ mailbox # <<>> /\ Head(mailbox).kind = "RegisterCallback"
      /\ mailbox' = Tail(mailbox) /\ pending' = Head(mailbox).nonce
      /\ UNCHANGED <<items, current, http, handed, delivered, early>>
  BY DEF OnRegisterCallback, Receive, httpActors, outside, ledger
<1>2. mailbox \in Seq(Command(Positions)) /\ Head(mailbox) = mailbox[1]
  BY <1>1, RegistersTyped, TailAt
<1>3. /\ 1 \in Registers(mailbox)
      /\ \A k \in Registers(mailbox') :
           k \in Nat \ {0} /\ k + 1 \in Registers(mailbox) /\ mailbox'[k] = mailbox[k + 1]
  <2>1. Head(mailbox).kind \in {"RegisterCallback"}
    BY <1>1
  <2>2. /\ 1 \in Registers(mailbox) <=> Head(mailbox).kind \in {"RegisterCallback"}
        /\ \A k \in Registers(Tail(mailbox)) :
             k \in Nat \ {0} /\ k + 1 \in Registers(mailbox) /\ Tail(mailbox)[k] = mailbox[k + 1]
    BY <1>1, <1>2, HoldsTail DEF Registers
  <2> QED BY <1>1, <2>1, <2>2
<1>4. Armed(mailbox', pending, current, http, handed)
  BY <1>1, <1>2, ArmedTaken DEF KeptInv
<1>5. \A k \in Registers(mailbox') : mailbox'[k].nonce # pending'
  <2>1. \A k \in Registers(mailbox') : k + 1 # 1
    BY <1>3
  <2> QED BY <1>1, <1>2, <1>3, <2>1 DEF KeptInv, Armed
<1>6. Owed(pending', current, http, handed)
  BY <1>1, <1>2, <1>3 DEF KeptInv, Armed
<1>7. Armed(mailbox', pending', current', http', handed')
  BY <1>1, <1>4, <1>5, <1>6 DEF Armed
<1> QED BY <1>1, <1>7, KeptNext DEF KeptInv

(* The callback of the nonce in place is handed over, to a processor that   *)
(* has none: any other is discarded.                                        *)
LEMMA CallbackKept ==
  ASSUME TypeInv, KeptInv, OnCallback
  PROVE  KeptInv'
<1>1. /\ mailbox # <<>> /\ mailbox' = Tail(mailbox)
      /\ UNCHANGED <<items, current, http, early>>
  BY DEF OnCallback, Receive, outside
<1>2. CASE Discard
  BY <1>1, <1>2, FrameKept DEF Discard
<1>3. CASE Accept
  <2>1. PICK p : p = pending
    OBVIOUS
  <2>2. /\ p \in Starts \X Positions /\ p # None
        /\ delivered' = delivered \cup {p[2]} /\ pending' = None
        /\ handed' = [handed EXCEPT ![p[2]] = @ + 1]
    <3>1. Head(mailbox) = mailbox[1] /\ 1 \in DOMAIN mailbox
      BY <1>1, RegistersTyped, TailAt
    <3>2. mailbox[1] \in Command(Positions)
      BY <1>1, RegistersTyped, TailAt
    <3>3. Head(mailbox).nonce \in Starts \X Positions
      BY <3>1, <3>2, MessageParts DEF OnCallback, Receive
    <3>4. None \notin Starts \X Positions
      BY TypeParts, Pipeline, EnrichmentAssumption DEF Nonce
    <3> QED BY <1>3, <2>1, <3>3, <3>4 DEF Accept
  <2>3. p[2] \in Positions /\ Owed(p, current, http, handed)
        /\ handed \in [Positions -> Nat]
    BY <2>1, <2>2, TypeParts DEF KeptInv, Armed, LedgerOK
  <2>4. ASSUME NEW i \in Positions
        PROVE  HandedOnce(http'[i], handed'[i], i \in delivered', i \in early')
    <3>1. CASE i = p[2]
      <4>1. handed'[i] = 1 /\ i \in delivered' /\ Called(http[i])
        BY <2>2, <2>3, <3>1 DEF Owed
      <4> QED BY <1>1, <4>1 DEF HandedOnce
    <3>2. CASE i # p[2]
      <4>1. handed'[i] = handed[i] /\ (i \in delivered' <=> i \in delivered)
        BY <2>2, <2>3, <3>2
      <4>2. HandedOnce(http[i], handed[i], i \in delivered, i \in early)
        BY DEF KeptInv
      <4> QED BY <1>1, <4>1, <4>2 DEF HandedOnce
    <3> QED BY <3>1, <3>2
  <2>5. Armed(mailbox, None, current, http, handed')
    <3>1. ASSUME NEW x \in Starts \X Positions, x # p, Owed(x, current, http, handed)
          PROVE  Owed(x, current, http, handed')
      <4>1. x[2] # p[2]
        BY <2>2, <2>3, <3>1 DEF Owed
      <4> QED BY <2>2, <2>3, <3>1, <4>1 DEF Owed
    <3>2. \A k \in Registers(mailbox) :
            mailbox[k].nonce \in Starts \X Positions /\ mailbox[k].nonce # None
      BY RegistersTyped, TypeParts, Pipeline, EnrichmentAssumption DEF Nonce
    <3> QED BY <2>1, <3>1, <3>2 DEF KeptInv, Armed
  <2>6. Armed(mailbox', pending', current', http', handed')
    BY <1>1, <2>2, <2>5, RegistersTyped, ArmedTaken
  <2> QED BY <1>1, <2>4, <2>6, KeptNext
<1> QED BY <1>2, <1>3 DEF OnCallback

(* A call starts a processor that did not run.                              *)
LEMMA OnCallStarts ==
  ASSUME TypeInv, CalledOnce, OnCall
  PROVE  \E i \in Positions : http[i] = "none" /\ http' = [http EXCEPT ![i] = "started"]
<1>1. PICK i : i = Head(httpBox).item
  OBVIOUS
<1>2. httpBox # <<>> /\ http' = [http EXCEPT ![i] = "started"]
  BY <1>1 DEF OnCall
<1>3. i \in Positions /\ Head(httpBox) \in CallsOf(i)
  BY <1>1, <1>2, Queues, TailAt, MessageParts DEF OnCall, CallsOf
<1>4. http[i] = "none"
  BY <1>2, <1>3, Queues, MarkTaken DEF CalledOnce, Once
<1> QED BY <1>2, <1>3, <1>4

(* A processor is started: nothing of its callback exists.                  *)
LEMMA OnCallKept ==
  ASSUME TypeInv, KeptInv, CalledOnce, OnCall
  PROVE  KeptInv'
<1>1. PICK i \in Positions : http[i] = "none" /\ http' = [http EXCEPT ![i] = "started"]
  BY OnCallStarts
<1>2. UNCHANGED <<items, mailbox, current, pending, handed, delivered, early>>
  BY DEF OnCall, entity, outside, ledger
<1>3. ASSUME NEW j \in Positions
      PROVE  /\ Called(http[j]) => Called(http'[j])
             /\ HandedOnce(http'[j], handed'[j], j \in delivered', j \in early')
  <2>1. HandedOnce(http[j], handed[j], j \in delivered, j \in early) /\ handed[j] \in Nat
    BY TypeParts DEF KeptInv, LedgerOK
  <2>2. CASE j = i
    <3>1. http[j] = "none" /\ http'[j] = "started" /\ handed[j] = 0
      BY <1>1, <1>2, <2>1, <2>2, Queues DEF HandedOnce, Called
    <3> QED BY <1>2, <3>1 DEF HandedOnce, Called
  <2>3. CASE j # i
    <3>1. http'[j] = http[j]
      BY <1>1, <2>3, Queues
    <3> QED BY <1>2, <2>1, <3>1
  <2> QED BY <2>2, <2>3
<1>4. Armed(mailbox, pending, current, http', handed)
  BY <1>3, RegistersTyped, ArmedKept DEF KeptInv
<1> QED BY <1>2, <1>3, <1>4, KeptNext

(* A processor called its enricher: its registration is the first.          *)
LEMMA OnStartKept ==
  ASSUME TypeInv, KeptInv, NEW i \in Positions, OnStart(i)
  PROVE  KeptInv'
<1>1. /\ http[i] = "started" /\ http' \in {[http EXCEPT ![i] = "posted"], [http EXCEPT ![i] = "stopped"]}
      /\ UNCHANGED <<items, current, pending, handed, delivered, early>>
      /\ \/ mailbox' = mailbox
         \/ mailbox' = Append(mailbox, [kind |-> "RegisterCallback", nonce |-> <<current, i>>])
            /\ http'[i] = "posted"
  BY Queues DEF OnStart, Conclude, outside, ledger
<1>2. handed[i] = 0
  <2>1. HandedOnce(http[i], handed[i], i \in delivered, i \in early) /\ handed[i] \in Nat
    BY TypeParts DEF KeptInv, LedgerOK
  <2> QED BY <1>1, <2>1 DEF HandedOnce, Called
<1>3. Called(http'[i])
  BY <1>1, Queues DEF Called
<1>4. ASSUME NEW j \in Positions
      PROVE  /\ Called(http[j]) => Called(http'[j])
             /\ HandedOnce(http'[j], handed'[j], j \in delivered', j \in early')
  <2>1. HandedOnce(http[j], handed[j], j \in delivered, j \in early)
    BY DEF KeptInv
  <2>2. CASE j = i
    BY <1>1, <1>2, <1>3, <2>2 DEF HandedOnce
  <2>3. CASE j # i
    <3>1. http'[j] = http[j]
      BY <1>1, <2>3, Queues
    <3> QED BY <1>1, <2>1, <3>1
  <2> QED BY <2>2, <2>3
<1>5. Armed(mailbox, pending, current, http', handed)
  BY <1>4, RegistersTyped, ArmedKept DEF KeptInv
<1>6. CASE mailbox' = mailbox
  BY <1>1, <1>4, <1>5, <1>6, KeptNext
<1>7. CASE mailbox' = Append(mailbox, [kind |-> "RegisterCallback", nonce |-> <<current, i>>])
  <2> DEFINE n == <<current, i>>
             m == [kind |-> "RegisterCallback", nonce |-> n]
  <2>1. m \in Command(Positions) /\ m.nonce = n /\ n[1] = current /\ n[2] = i /\ n # None
    <3>1. current \in Starts
      BY <1>1, Working, TypeParts DEF EntityOK
    <3>2. n \in Nonce
      BY <3>1, TypeParts, Pipeline DEF Nonce
    <3> QED BY <3>1, <3>2, Messages, EnrichmentAssumption
  <2>2. mailbox' = Append(mailbox, m)
    BY <1>7
  <2> HIDE DEF m, n
  <2>3. /\ Owed(n, current, http', handed)
        /\ \A x \in Starts \X Positions : Owed(x, current, http, handed) => x # n
    BY <1>1, <1>2, <1>3, <2>1 DEF Owed, Called
  <2>4. /\ \A k \in Registers(mailbox') :
             \/ k \in Registers(mailbox) /\ mailbox'[k] = mailbox[k]
             \/ k = Len(mailbox) + 1 /\ mailbox'[k].nonce = n
    BY <2>1, <2>2, RegistersTyped, HoldsAppend DEF Registers
  <2>5. \A k \in Registers(mailbox) : mailbox[k].nonce # n
    BY <2>3, RegistersTyped DEF KeptInv, Armed
  <2>6. pending # n
    BY <2>1, <2>3, RegistersTyped DEF KeptInv, Armed
  <2>7. Armed(mailbox', pending, current, http', handed)
    BY <1>5, <2>3, <2>4, <2>5, <2>6 DEF Armed
  <2> QED BY <1>1, <1>4, <2>7, KeptNext
<1> QED BY <1>1, <1>6, <1>7

(* The response of the enricher: the processor waits for the callback       *)
(* unless it holds it.                                                      *)
LEMMA HttpOutcomeKept ==
  ASSUME TypeInv, KeptInv, NEW i \in Positions, OnHttpOutcome(i) \/ OnDelivered(i)
  PROVE  KeptInv'
<1>1. UNCHANGED <<items, mailbox, current, pending, handed>>
  BY DEF OnHttpOutcome, OnDelivered, entity, outside, ledger
<1>2. /\ HandedOnce(http'[i], handed'[i], i \in delivered', i \in early')
      /\ Called(http'[i])
  <2>1. HandedOnce(http[i], handed[i], i \in delivered, i \in early)
    BY DEF KeptInv
  <2>2. CASE OnHttpOutcome(i)
    <3>1. /\ http[i] = "posted" /\ UNCHANGED <<delivered, early>>
          /\ http'[i] = "stopped" \/ (http'[i] = "awaiting" /\ i \notin early)
      BY <2>2, Queues DEF OnHttpOutcome, Conclude
    <3> QED BY <1>1, <2>1, <3>1 DEF HandedOnce, Called
  <2>3. CASE OnDelivered(i)
    <3>1. \/ http[i] = "posted" /\ http'[i] = "posted" /\ i \in early'
          \/ http[i] \in {"awaiting", "stopped"} /\ http'[i] = "stopped"
      BY <2>3, Queues DEF OnDelivered, KeepEarly, Conclude
    <3> QED BY <1>1, <2>1, <3>1 DEF HandedOnce, Called
  <2> QED BY <2>2, <2>3
<1>3. ASSUME NEW j \in Positions, j # i
      PROVE  /\ http'[j] = http[j]
             /\ HandedOnce(http'[j], handed'[j], j \in delivered', j \in early')
  <2>1. /\ http'[j] = http[j]
        /\ (j \in delivered' <=> j \in delivered) /\ (j \in early' <=> j \in early)
    BY <1>3, Queues DEF OnHttpOutcome, OnDelivered, KeepEarly, Conclude
  <2> QED BY <1>1, <2>1 DEF KeptInv
<1>4. \A j \in Positions : Called(http[j]) => Called(http'[j])
  BY <1>2, <1>3
<1>5. Armed(mailbox, pending, current, http', handed)
  BY <1>4, RegistersTyped, ArmedKept DEF KeptInv
<1> QED BY <1>1, <1>2, <1>3, <1>5, KeptNext

LEMMA ItemKept ==
  ASSUME TypeInv, KeptInv, NEW i \in Positions, ItemStep(i)
  PROVE  KeptInv'
<1>1. CASE OnExecute(i) \/ RunScript(i) \/ OnGroovyValidatorResponse(i)
  BY <1>1, FrameKept
     DEF OnExecute, RunScript, OnGroovyValidatorResponse, entity, httpActors, outside, ledger
<1>2. CASE OnGroovyResponse(i) \/ OnHttpResponse(i)
  <2>1. PICK m : ReplyAndStop(i, m) /\ m \in Command(Positions) /\ m.kind # "RegisterCallback"
    <3>1. Signal("EnrichItemError") \in Command(Positions)
          /\ Signal("EnrichItemError").kind = "EnrichItemError"
      BY Messages DEF Signal
    <3>2. ASSUME ItemReceives(i, "GroovyResponse") \/ ItemReceives(i, "HttpBody")
          PROVE  /\ Body("ResponseWrapper", Head(inbox[i]).body) \in Command(Positions)
                 /\ Body("ResponseWrapper", Head(inbox[i]).body).kind = "ResponseWrapper"
      <4>1. Head(inbox[i]).body \in Positions
        BY <3>2, InboxType, MessageParts DEF ItemReceives
      <4> QED BY <4>1, Messages DEF Body
    <3> QED BY <1>2, <3>1, <3>2 DEF OnGroovyResponse, OnHttpResponse
  <2> QED BY <2>1, FrameKept DEF ReplyAndStop, Reply, httpActors, outside, ledger
<1> QED BY <1>1, <1>2 DEF ItemStep

LEMMA OthersKept ==
  ASSUME TypeInv, KeptInv, CalledOnce,
         \/ AskTimeout \/ OnCall \/ OnResponse \/ SendStart \/ Crash
         \/ \E i \in Positions : HttpStep(i)
         \/ \E n \in tokens : PostCallback(n)
         \/ UNCHANGED vars
  PROVE  KeptInv'
<1>1. CASE AskTimeout
  <2>1. Signal("EnrichItemError") \in Command(Positions)
        /\ Signal("EnrichItemError").kind = "EnrichItemError"
    BY Messages DEF Signal
  <2> QED BY <1>1, <2>1, FrameKept DEF AskTimeout, httpActors, outside
<1>2. CASE OnResponse \/ UNCHANGED vars
  BY <1>2, FrameKept DEF OnResponse, vars, entity, httpActors, outside, ledger
<1>3. CASE SendStart
  <2> DEFINE m == [kind |-> "Start", start |-> sent + 1]
  <2>1. sent + 1 \in Starts
    BY <1>3, TypeParts, EnrichmentAssumption DEF OutsideOK, SendStart, Starts
  <2>2. m \in Command(Positions) /\ m.kind # "RegisterCallback"
    BY <2>1, Messages
  <2>3. mailbox' = Append(mailbox, m)
        /\ UNCHANGED <<items, pending, current, http, handed, delivered, early>>
    BY <1>3 DEF SendStart, httpActors, ledger
  <2> HIDE DEF m
  <2> QED BY <2>2, <2>3, FrameKept
<1>4. CASE Crash
  BY <1>4, StoppedKept DEF Crash
<1>5. ASSUME NEW n \in tokens, PostCallback(n)
      PROVE  KeptInv'
  <2> DEFINE m == [kind |-> "Callback", nonce |-> n]
  <2>1. m \in Command(Positions) /\ m.kind # "RegisterCallback"
    BY Messages, TypeParts DEF OutsideOK
  <2>2. mailbox' = Append(mailbox, m)
        /\ UNCHANGED <<items, pending, current, http, handed, delivered, early>>
    BY <1>5 DEF PostCallback, httpActors, ledger
  <2> HIDE DEF m
  <2> QED BY <2>1, <2>2, FrameKept
<1>6. CASE \E i \in Positions : HttpStep(i)
  BY <1>6, OnStartKept, HttpOutcomeKept DEF HttpStep
<1> QED BY <1>1, <1>2, <1>3, <1>4, <1>5, <1>6, OnCallKept

LEMMA InitKept == Init => KeptInv
<1> SUFFICES ASSUME Init PROVE KeptInv
  OBVIOUS
<1>1. /\ mailbox = <<>> /\ pending = None
      /\ \A i \in Positions : handed[i] = 0
  BY DEF Init, NoItem
<1>2. Registers(mailbox) = {}
  BY <1>1 DEF Registers, HoldsIn
<1> QED BY <1>1, <1>2 DEF KeptInv, HandedOnce, Armed

LEMMA NextKept == TypeInv /\ CalledOnce /\ KeptInv /\ [Next]_vars => KeptInv'
<1> SUFFICES ASSUME TypeInv, CalledOnce, KeptInv, [Next]_vars PROVE KeptInv'
  OBVIOUS
<1>1. CASE OnMessage
  <2>1. mailbox # <<>>
    BY <1>1, MessageSteps
  <2>2. CASE MessagePassed
    <3>1. \A m : m.kind \in Outcomes => m.kind # "RegisterCallback"
      BY DEF Outcomes
    <3> QED BY <2>1, <2>2, <3>1, FrameKept DEF MessagePassed, httpActors
  <2> QED BY <1>1, <2>1, <2>2, MessageSteps, StoppedKept, ExecutedKept, RegisteredKept, CallbackKept
<1>2. CASE \/ AskTimeout \/ OnCall \/ OnResponse \/ SendStart \/ Crash
           \/ \E i \in Positions : HttpStep(i)
           \/ \E n \in tokens : PostCallback(n)
           \/ UNCHANGED vars
  BY <1>2, OthersKept
<1>3. CASE \E i \in Positions : ItemStep(i)
  BY <1>3, ItemKept
<1> QED BY <1>1, <1>2, <1>3 DEF Next

LEMMA AlwaysKept == Spec => [](TypeInv /\ CalledOnce /\ KeptInv)
<1>1. Init => KeptInv
  BY InitKept
<1>2. TypeInv /\ CalledOnce /\ KeptInv /\ [Next]_vars => KeptInv'
  BY NextKept
<1> QED BY <1>1, <1>2, AlwaysOnce, PTL DEF Spec

(* A callback that was accepted reaches the processor that waits for it,    *)
(* once, whether it comes before the response of the enricher or after.     *)
THEOREM Kept == Spec => []AcceptedIsKept
<1>1. TypeInv /\ KeptInv => AcceptedIsKept
  <2> SUFFICES ASSUME TypeInv, KeptInv, NEW i \in Positions
               PROVE  handed[i] <= 1 /\ (http[i] = "awaiting" /\ handed[i] > 0 => i \in delivered)
    BY DEF AcceptedIsKept
  <2> QED BY DEF KeptInv, HandedOnce
<1> QED BY <1>1, AlwaysKept, PTL

-----------------------------------------------------------------------------
(* The tokens *)

StartsOf(s) == { m \in Command(Positions) : m.kind = "Start" /\ m.start = s }

CallbacksOf(n) == { m \in Command(Positions) : m.kind = "Callback" /\ m.nonce = n }

(* A token is of a start that was taken up. *)
Spent(box, given, s) == \A n \in given : n[1] <= s /\ NoneOf(box, StartsOf(n[1]))

(* Only who was given a token calls back with it. *)
Posted(box, given) == \A n \in (Starts \X Positions) \ given : NoneOf(box, CallbacksOf(n))

(* A token is given when the enricher is called. *)
Untold(c, h, given) ==
  c # None => \A i \in Positions : ~Called(h[i]) => <<c, i>> \notin given

TokensInv ==
  Spent(mailbox, tokens, sent) /\ Posted(mailbox, tokens) /\ Untold(current, http, tokens)

LEMMA TokensNext ==
  ASSUME UNCHANGED items, Spent(mailbox', tokens', sent'), Posted(mailbox', tokens'),
         Untold(current', http', tokens')
  PROVE  TokensInv'
<1>1. Positions' = Positions
  BY DEF Positions
<1> QED BY <1>1 DEF TokensInv, Spent, Posted, Untold, StartsOf, CallbacksOf

(* A message is taken; one comes that is neither the start of a token nor   *)
(* a callback without one.                                                  *)
LEMMA TokensTaken ==
  ASSUME TypeInv, mailbox # <<>>, NEW given, NEW s
  PROVE  /\ Tail(mailbox) \in Seq(Command(Positions))
         /\ Spent(mailbox, given, s) => Spent(Tail(mailbox), given, s)
         /\ Posted(mailbox, given) => Posted(Tail(mailbox), given)
<1>1. mailbox \in Seq(Command(Positions)) /\ Tail(mailbox) \in Seq(Command(Positions))
  BY RegistersTyped, TailAt
<1>2. \A M : NoneOf(mailbox, M) => NoneOf(Tail(mailbox), M)
  BY <1>1, MarkTaken
<1> QED BY <1>1, <1>2 DEF Spent, Posted

LEMMA TokensSent ==
  ASSUME NEW box \in Seq(Command(Positions)), NEW m \in Command(Positions), NEW given, NEW s,
         m.kind = "Start" => \A n \in given : m.start # n[1],
         m.kind = "Callback" => m.nonce \in given,
         Spent(box, given, s), Posted(box, given)
  PROVE  Spent(Append(box, m), given, s) /\ Posted(Append(box, m), given)
<1>1. \A M : m \notin M /\ NoneOf(box, M) => NoneOf(Append(box, m), M)
  BY MarkSent
<1>2. /\ \A n \in given : m \notin StartsOf(n[1])
      /\ \A n \in (Starts \X Positions) \ given : m \notin CallbacksOf(n)
  BY DEF StartsOf, CallbacksOf
<1> QED BY <1>1, <1>2 DEF Spent, Posted

LEMMA StoppedTokens ==
  ASSUME TypeInv, TokensInv, Stopped, UNCHANGED <<tokens, sent>>
  PROVE  TokensInv'
<1>1. mailbox' = <<>> /\ current' = None /\ UNCHANGED items
  BY DEF Stopped
<1>2. \A M : NoneOf(<<>>, M)
  BY DEF NoneOf
<1> QED BY <1>1, <1>2, TokensNext DEF TokensInv, Spent, Posted, Untold

LEMMA FrameTokens ==
  ASSUME TypeInv, TokensInv, UNCHANGED <<items, current, tokens, sent>>,
         \A i \in Positions : Called(http[i]) => Called(http'[i]),
         \/ mailbox' = mailbox
         \/ mailbox # <<>> /\ mailbox' = Tail(mailbox)
         \/ \E m \in Command(Positions) :
              /\ m.kind \in Outcomes \cup {"RegisterCallback"}
              /\ \/ mailbox # <<>> /\ mailbox' = Append(Tail(mailbox), m)
                 \/ mailbox' = Append(mailbox, m)
  PROVE  TokensInv'
<1>1. mailbox \in Seq(Command(Positions))
      /\ (mailbox # <<>> => Tail(mailbox) \in Seq(Command(Positions)))
  BY RegistersTyped, TailAt
<1>2. \A m : m.kind \in Outcomes \cup {"RegisterCallback"} => m.kind \notin {"Start", "Callback"}
  BY DEF Outcomes
<1>3. Spent(mailbox', tokens, sent) /\ Posted(mailbox', tokens)
  BY <1>1, <1>2, TokensTaken, TokensSent DEF TokensInv
<1>4. Untold(current', http', tokens')
  BY DEF TokensInv, Untold
<1> QED BY <1>3, <1>4, TokensNext

(* A run that begins has no token yet.                                      *)
LEMMA ExecutedTokens ==
  ASSUME TypeInv, TokensInv, mailbox # <<>>, ItemExecuted
  PROVE  TokensInv'
<1>1. /\ mailbox' = Tail(mailbox)
      /\ UNCHANGED <<items, http, tokens, sent>>
  BY DEF ItemExecuted, Execute, httpActors
<1>2. Spent(mailbox', tokens, sent) /\ Posted(mailbox', tokens)
  BY <1>1, TokensTaken DEF TokensInv
<1>3. Untold(current', http', tokens')
  <2>1. CASE current # None /\ current' = current
    BY <1>1, <2>1 DEF TokensInv, Untold
  <2>2. CASE Head(mailbox).kind = "Start" /\ current' = Head(mailbox).start
    <3>1. Head(mailbox) = mailbox[1] /\ 1 \in DOMAIN mailbox /\ Head(mailbox) \in Command(Positions)
      BY RegistersTyped, TailAt
    <3>2. mailbox[1] \in StartsOf(current')
      BY <2>2, <3>1 DEF StartsOf
    <3>3. \A n \in tokens : n[1] # current'
      BY <3>1, <3>2 DEF TokensInv, Spent, NoneOf
    <3> QED BY <1>1, <3>3 DEF Untold
  <2> QED BY <2>1, <2>2 DEF ItemExecuted
<1> QED BY <1>1, <1>2, <1>3, TokensNext

(* A token of the run in progress is given with the call.                   *)
LEMMA OnStartTokens ==
  ASSUME TypeInv, AnswerInv, TokensInv, NEW i \in Positions, OnStart(i)
  PROVE  TokensInv'
<1>1. /\ http[i] = "started" /\ Called(http'[i]) /\ UNCHANGED <<items, current, sent>>
      /\ \A j \in Positions \ {i} : http'[j] = http[j]
  BY Queues DEF OnStart, Conclude, Called, outside
<1>2. \A j \in Positions : Called(http[j]) => Called(http'[j])
  BY <1>1
<1>3. CASE UNCHANGED <<mailbox, tokens>>
  BY <1>1, <1>2, <1>3, FrameTokens
<1>4. ASSUME mailbox' = Append(mailbox, [kind |-> "RegisterCallback", nonce |-> <<current, i>>]),
             tokens' = tokens \cup {<<current, i>>}
      PROVE  TokensInv'
  <2> DEFINE m == [kind |-> "RegisterCallback", nonce |-> <<current, i>>]
  <2>1. current \in Starts /\ current # None /\ current <= sent
    BY <1>1, Working, TypeParts DEF OnStart, AnswerInv, EntityOK
  <2>2. m \in Command(Positions) /\ m.kind = "RegisterCallback"
    BY <2>1, Messages
  <2>3. mailbox' = Append(mailbox, m)
    BY <1>4
  <2> HIDE DEF m
  <2>4. NoneOf(mailbox, StartsOf(current))
    BY DEF NoneOf, StartsOf, AnswerInv, Holds
  <2>5. \A n \in tokens' : n \in tokens \/ n = <<current, i>>
    BY <1>4
  <2>6. Spent(mailbox, tokens', sent) /\ Posted(mailbox, tokens')
    BY <1>4, <2>1, <2>4, <2>5 DEF TokensInv, Spent, Posted
  <2>7. Spent(mailbox', tokens', sent) /\ Posted(mailbox', tokens')
    BY <2>2, <2>3, <2>6, RegistersTyped, TokensSent
  <2>8. Untold(current', http', tokens')
    BY <1>1, <2>5 DEF TokensInv, Untold
  <2> QED BY <1>1, <2>7, <2>8, TokensNext
<1> QED BY <1>3, <1>4 DEF OnStart

LEMMA OthersTokens ==
  ASSUME TypeInv, AnswerInv, CalledOnce, TokensInv,
         \/ AskTimeout \/ OnCall \/ OnResponse \/ SendStart \/ Crash
         \/ \E i \in Positions : HttpStep(i)
         \/ \E n \in tokens : PostCallback(n)
         \/ UNCHANGED vars
  PROVE  TokensInv'
<1>1. CASE AskTimeout
  <2>1. Signal("EnrichItemError") \in Command(Positions)
        /\ Signal("EnrichItemError").kind \in Outcomes
    BY Messages DEF Signal, Outcomes
  <2> QED BY <1>1, <2>1, FrameTokens DEF AskTimeout, httpActors, outside
<1>2. CASE OnResponse \/ UNCHANGED vars
  BY <1>2, FrameTokens DEF OnResponse, vars, entity, httpActors, outside
<1>3. CASE SendStart
  <2> DEFINE m == [kind |-> "Start", start |-> sent + 1]
  <2>1. sent + 1 \in Starts /\ sent \in Nat
    BY <1>3, TypeParts, EnrichmentAssumption DEF OutsideOK, SendStart, Starts
  <2>2. m \in Command(Positions) /\ m.kind = "Start" /\ m.start = sent + 1
    BY <2>1, Messages
  <2>3. mailbox' = Append(mailbox, m) /\ sent' = sent + 1
        /\ UNCHANGED <<items, current, http, tokens>>
    BY <1>3 DEF SendStart, httpActors
  <2> HIDE DEF m
  <2>4. \A n \in tokens : n[1] \in Nat /\ n[1] <= sent
    BY TypeParts DEF TokensInv, Spent, OutsideOK, Starts
  <2>5. (\A n \in tokens : m.start # n[1]) /\ \A n \in tokens : n[1] <= sent + 1
    BY <2>1, <2>2, <2>4
  <2>6. Spent(mailbox', tokens, sent) /\ Posted(mailbox', tokens)
    BY <2>2, <2>3, <2>5, RegistersTyped, TokensSent DEF TokensInv
  <2>7. Spent(mailbox', tokens', sent')
    BY <2>3, <2>5, <2>6 DEF Spent
  <2> QED BY <2>3, <2>6, <2>7, TokensNext DEF TokensInv
<1>4. CASE Crash
  BY <1>4, StoppedTokens DEF Crash
<1>5. ASSUME NEW n \in tokens, PostCallback(n)
      PROVE  TokensInv'
  <2> DEFINE m == [kind |-> "Callback", nonce |-> n]
  <2>1. m \in Command(Positions) /\ m.kind = "Callback" /\ m.nonce = n
    BY Messages, TypeParts DEF OutsideOK
  <2>2. mailbox' = Append(mailbox, m)
        /\ UNCHANGED <<items, current, http, tokens, sent>>
    BY <1>5 DEF PostCallback, httpActors
  <2> HIDE DEF m
  <2>3. Spent(mailbox', tokens, sent) /\ Posted(mailbox', tokens)
    BY <2>1, <2>2, RegistersTyped, TokensSent DEF TokensInv
  <2> QED BY <2>2, <2>3, TokensNext DEF TokensInv
<1>6. CASE \E i \in Positions : OnHttpOutcome(i) \/ OnDelivered(i)
  <2>1. UNCHANGED <<items, mailbox, current, tokens, sent>>
    BY <1>6 DEF OnHttpOutcome, OnDelivered, entity, outside
  <2>2. \A j \in Positions : Called(http[j]) => Called(http'[j])
    BY <1>6, Queues DEF OnHttpOutcome, OnDelivered, Conclude, Called
  <2> QED BY <2>1, <2>2, FrameTokens
<1>7. CASE OnCall
  <2>1. UNCHANGED <<items, mailbox, current, tokens, sent>>
    BY <1>7 DEF OnCall, entity, outside
  <2>2. Untold(current', http', tokens')
    <3>1. \A j \in Positions : http'[j] = http[j] \/ ~Called(http[j])
      BY <1>7, OnCallStarts, Queues DEF Called
    <3> QED BY <2>1, <3>1 DEF TokensInv, Untold
  <2> QED BY <2>1, <2>2, TokensNext DEF TokensInv
<1> QED BY <1>1, <1>2, <1>3, <1>4, <1>5, <1>6, <1>7, OnStartTokens DEF HttpStep

LEMMA InitTokens == Init => TokensInv
<1> SUFFICES ASSUME Init PROVE TokensInv
  OBVIOUS
<1>1. mailbox = <<>> /\ current = None /\ tokens = {}
  BY DEF Init
<1> QED BY <1>1 DEF TokensInv, Spent, Posted, Untold, NoneOf

LEMMA ItemMails ==
  ASSUME TypeInv, NEW i \in Positions, ItemStep(i)
  PROVE  /\ UNCHANGED <<items, current, item, pending, http, tokens, sent, late, handed>>
         /\ \/ UNCHANGED <<mailbox, asked>>
            \/ asked' = FALSE /\ \E m \in Command(Positions) :
                                   m.kind \in Outcomes /\ mailbox' = Append(mailbox, m)
<1>1. CASE OnExecute(i) \/ RunScript(i) \/ OnGroovyValidatorResponse(i)
  BY <1>1
     DEF OnExecute, RunScript, OnGroovyValidatorResponse, entity, httpActors, outside, ledger
<1>2. CASE OnGroovyResponse(i) \/ OnHttpResponse(i)
  <2>1. PICK m : ReplyAndStop(i, m) /\ m \in Command(Positions) /\ m.kind \in Outcomes
    <3>1. Signal("EnrichItemError") \in Command(Positions)
          /\ Signal("EnrichItemError").kind \in Outcomes
      BY Messages DEF Signal, Outcomes
    <3>2. ASSUME ItemReceives(i, "GroovyResponse") \/ ItemReceives(i, "HttpBody")
          PROVE  /\ Body("ResponseWrapper", Head(inbox[i]).body) \in Command(Positions)
                 /\ Body("ResponseWrapper", Head(inbox[i]).body).kind \in Outcomes
      <4>1. Head(inbox[i]).body \in Positions
        BY <3>2, InboxType, MessageParts DEF ItemReceives
      <4> QED BY <4>1, Messages DEF Body, Outcomes
    <3> QED BY <1>2, <3>1, <3>2 DEF OnGroovyResponse, OnHttpResponse
  <2> QED BY <2>1 DEF ReplyAndStop, Reply, httpActors, outside, ledger
<1> QED BY <1>1, <1>2 DEF ItemStep

LEMMA NextTokens == TypeInv /\ AnswerInv /\ CalledOnce /\ TokensInv /\ [Next]_vars => TokensInv'
<1> SUFFICES ASSUME TypeInv, AnswerInv, CalledOnce, TokensInv, [Next]_vars PROVE TokensInv'
  OBVIOUS
<1>1. CASE OnMessage
  <2>1. mailbox # <<>>
    BY <1>1, MessageSteps
  <2>2. CASE MessagePassed
    BY <2>1, <2>2, FrameTokens DEF MessagePassed, httpActors
  <2>3. CASE OnRegisterCallback \/ OnCallback
    BY <2>1, <2>3, FrameTokens DEF OnRegisterCallback, OnCallback, httpActors, outside
  <2> QED BY <1>1, <2>1, <2>2, <2>3, MessageSteps, StoppedTokens, ExecutedTokens
<1>2. CASE \/ AskTimeout \/ OnCall \/ OnResponse \/ SendStart \/ Crash
           \/ \E i \in Positions : HttpStep(i)
           \/ \E n \in tokens : PostCallback(n)
           \/ UNCHANGED vars
  BY <1>2, OthersTokens
<1>3. CASE \E i \in Positions : ItemStep(i)
  BY <1>3, ItemMails, FrameTokens
<1> QED BY <1>1, <1>2, <1>3 DEF Next

-----------------------------------------------------------------------------
(* The registration of the item in progress *)

Callbacks(box) == HoldsIn(box, {"Callback"})

(* Nonce n is in place and no registration comes after it, or it is the     *)
(* last to come, ahead of the callbacks that carry it.                      *)
Announced(box, p, n) ==
  \/ p = n /\ Registers(box) = {}
  \/ \E r \in Registers(box) :
       /\ box[r].nonce = n
       /\ \A q \in Registers(box) : q <= r
       /\ \A c \in Callbacks(box) : box[c].nonce = n => r < c

Watched == asked /\ <<current, item>> \in tokens /\ handed[item] = 0 /\ late = {}

WatchedInv == Watched => Announced(mailbox, pending, <<current, item>>)

LEMMA AnnouncedTaken ==
  ASSUME NEW S, NEW box \in Seq(S), box # <<>>, Head(box).kind # "RegisterCallback",
         NEW p, NEW n, Announced(box, p, n)
  PROVE  Announced(Tail(box), p, n)
<1>1. /\ 1 \notin Registers(box)
      /\ \A k \in Registers(box) : k \in Nat \ {0} /\ (k # 1 => k - 1 \in Registers(Tail(box)))
      /\ \A k \in Registers(Tail(box)) :
           k \in Nat \ {0} /\ k + 1 \in Registers(box) /\ Tail(box)[k] = box[k + 1]
  <2>1. /\ 1 \in Registers(box) <=> Head(box).kind \in {"RegisterCallback"}
        /\ \A k \in Registers(box) : k \in Nat \ {0} /\ (k # 1 => k - 1 \in Registers(Tail(box)))
        /\ \A k \in Registers(Tail(box)) :
             k \in Nat \ {0} /\ k + 1 \in Registers(box) /\ Tail(box)[k] = box[k + 1]
    BY HoldsTail DEF Registers
  <2> QED BY <2>1
<1>2. \A k \in Callbacks(Tail(box)) :
        k \in Nat \ {0} /\ k + 1 \in Callbacks(box) /\ Tail(box)[k] = box[k + 1]
  BY HoldsTail DEF Callbacks
<1>3. CASE p = n /\ Registers(box) = {}
  BY <1>1, <1>3 DEF Announced
<1>4. ASSUME NEW r \in Registers(box), box[r].nonce = n,
             \A q \in Registers(box) : q <= r,
             \A c \in Callbacks(box) : box[c].nonce = n => r < c
      PROVE  Announced(Tail(box), p, n)
  <2>1. r \in Nat /\ r # 1 /\ r - 1 \in Registers(Tail(box)) /\ Tail(box)[r - 1].nonce = n
    <3>1. r \in Nat /\ r # 1 /\ r - 1 \in Registers(Tail(box)) /\ (r - 1) + 1 = r
      BY <1>1, <1>4
    <3>2. Tail(box)[r - 1] = box[(r - 1) + 1]
      BY <1>1, <3>1
    <3> QED BY <1>4, <3>1, <3>2
  <2>2. \A q \in Registers(Tail(box)) : q <= r - 1
    BY <1>1, <1>4, <2>1
  <2>3. ASSUME NEW c \in Callbacks(Tail(box)), Tail(box)[c].nonce = n
        PROVE  r - 1 < c
    <3>1. c \in Nat /\ c + 1 \in Callbacks(box) /\ box[c + 1].nonce = n
      BY <1>2, <2>3
    <3>2. r < c + 1
      BY <1>4, <3>1
    <3> QED BY <2>1, <3>1, <3>2
  <2> QED BY <2>1, <2>2, <2>3 DEF Announced
<1> QED BY <1>3, <1>4 DEF Announced

LEMMA AnnouncedSent ==
  ASSUME NEW S, NEW box \in Seq(S), NEW m \in S, m.kind # "RegisterCallback",
         NEW p, NEW n, Announced(box, p, n)
  PROVE  Announced(Append(box, m), p, n)
<1>1. /\ \A k \in Registers(box) : k \in 1..Len(box) /\ k \in Registers(Append(box, m))
                                   /\ Append(box, m)[k] = box[k]
      /\ \A k \in Registers(Append(box, m)) : k \in Registers(box)
  BY HoldsAppend DEF Registers
<1>2. /\ Len(box) \in Nat
      /\ \A k \in Callbacks(Append(box, m)) :
           (k \in Callbacks(box) /\ Append(box, m)[k] = box[k]) \/ k = Len(box) + 1
  BY HoldsAppend DEF Callbacks
<1>3. CASE p = n /\ Registers(box) = {}
  BY <1>1, <1>3 DEF Announced
<1>4. ASSUME NEW r \in Registers(box), box[r].nonce = n,
             \A q \in Registers(box) : q <= r,
             \A c \in Callbacks(box) : box[c].nonce = n => r < c
      PROVE  Announced(Append(box, m), p, n)
  <2>1. ASSUME NEW c \in Callbacks(Append(box, m)), Append(box, m)[c].nonce = n
        PROVE  r < c
    <3>1. r \in 1..Len(box) /\ Len(box) \in Nat
      BY <1>1, <1>2
    <3>2. CASE c \in Callbacks(box) /\ Append(box, m)[c] = box[c]
      BY <1>4, <2>1, <3>2
    <3>3. CASE c = Len(box) + 1
      BY <3>1, <3>3
    <3> QED BY <1>2, <2>1, <3>2, <3>3
  <2> QED BY <1>1, <1>4, <2>1 DEF Announced
<1> QED BY <1>3, <1>4 DEF Announced

LEMMA FrameWatched ==
  ASSUME TypeInv, WatchedInv, UNCHANGED <<current, item, pending>>, asked' => asked,
         UNCHANGED tokens, handed' = handed, late \subseteq late',
         \/ mailbox' = mailbox
         \/ mailbox # <<>> /\ mailbox' = Tail(mailbox) /\ Head(mailbox).kind # "RegisterCallback"
         \/ \E m \in Command(Positions) :
              /\ m.kind # "RegisterCallback"
              /\ \/ /\ mailbox # <<>> /\ mailbox' = Append(Tail(mailbox), m)
                    /\ Head(mailbox).kind # "RegisterCallback"
                 \/ mailbox' = Append(mailbox, m)
  PROVE  WatchedInv'
<1>1. Watched' => Watched
  BY DEF Watched
<1>2. mailbox \in Seq(Command(Positions))
      /\ (mailbox # <<>> => Tail(mailbox) \in Seq(Command(Positions)))
  BY RegistersTyped, TailAt
<1>3. PICK n : n = <<current, item>>
  OBVIOUS
<1>4. Announced(mailbox, pending, n) => Announced(mailbox', pending, n)
  BY <1>2, AnnouncedTaken, AnnouncedSent
<1> QED BY <1>1, <1>3, <1>4 DEF WatchedInv

(* The last registration is taken, or another before it.                    *)
LEMMA RegisteredWatched ==
  ASSUME TypeInv, WatchedInv, OnRegisterCallback
  PROVE  WatchedInv'
<1> SUFFICES ASSUME Watched' PROVE Announced(mailbox', pending', <<current, item>>)
  BY DEF WatchedInv, OnRegisterCallback
<1>1. /\ mailbox # <<>> /\ Head(mailbox).kind = "RegisterCallback"
      /\ mailbox' = Tail(mailbox) /\ pending' = Head(mailbox).nonce
      /\ Watched
  BY DEF OnRegisterCallback, Receive, outside, ledger, Watched
<1>2. PICK n : n = <<current, item>>
  OBVIOUS
<1>3. mailbox \in Seq(Command(Positions)) /\ Head(mailbox) = mailbox[1]
  BY <1>1, RegistersTyped, TailAt
<1>4. /\ 1 \in Registers(mailbox) <=> Head(mailbox).kind \in {"RegisterCallback"}
      /\ \A k \in Registers(mailbox) :
           k \in Nat \ {0} /\ (k # 1 => k - 1 \in Registers(Tail(mailbox)))
      /\ \A k \in Registers(Tail(mailbox)) :
           k \in Nat \ {0} /\ k + 1 \in Registers(mailbox) /\ Tail(mailbox)[k] = mailbox[k + 1]
  BY <1>1, <1>3, HoldsTail DEF Registers
<1>5. \A k \in Callbacks(Tail(mailbox)) :
        k \in Nat \ {0} /\ k + 1 \in Callbacks(mailbox) /\ Tail(mailbox)[k] = mailbox[k + 1]
  BY <1>1, <1>3, HoldsTail DEF Callbacks
<1>6. 1 \in Registers(mailbox)
  BY <1>1, <1>4
<1>7. PICK r \in Registers(mailbox) :
        /\ mailbox[r].nonce = n
        /\ \A q \in Registers(mailbox) : q <= r
        /\ \A c \in Callbacks(mailbox) : mailbox[c].nonce = n => r < c
  BY <1>1, <1>2, <1>6 DEF WatchedInv, Announced
<1>8. CASE r = 1
  <2>1. ASSUME NEW k \in Registers(Tail(mailbox))
        PROVE  FALSE
    <3>1. k \in Nat \ {0} /\ k + 1 <= 1
      BY <1>4, <1>7, <1>8
    <3> QED BY <3>1
  <2>2. Registers(mailbox') = {} /\ pending' = n
    BY <1>1, <1>3, <1>7, <1>8, <2>1
  <2> QED BY <1>2, <2>2 DEF Announced
<1>9. CASE r # 1
  <2>1. r \in Nat /\ r - 1 \in Registers(mailbox') /\ mailbox'[r - 1].nonce = n
    <3>1. r \in Nat /\ r - 1 \in Registers(Tail(mailbox)) /\ (r - 1) + 1 = r
      BY <1>4, <1>7, <1>9
    <3>2. Tail(mailbox)[r - 1] = mailbox[(r - 1) + 1]
      BY <1>4, <3>1
    <3> QED BY <1>1, <1>7, <3>1, <3>2
  <2>2. \A q \in Registers(mailbox') : q <= r - 1
    BY <1>1, <1>4, <1>7, <2>1
  <2>3. ASSUME NEW c \in Callbacks(mailbox'), mailbox'[c].nonce = n
        PROVE  r - 1 < c
    <3>1. c \in Nat /\ c + 1 \in Callbacks(mailbox) /\ mailbox[c + 1].nonce = n
      BY <1>1, <1>5, <2>3
    <3>2. r < c + 1
      BY <1>7, <3>1
    <3> QED BY <2>1, <3>1, <3>2
  <2> QED BY <1>2, <2>1, <2>2, <2>3 DEF Announced
<1> QED BY <1>8, <1>9

(* The callback of the item in progress finds its nonce in place.           *)
LEMMA CallbackWatched ==
  ASSUME TypeInv, WatchedInv, OnCallback
  PROVE  WatchedInv'
<1>1. /\ mailbox # <<>> /\ mailbox' = Tail(mailbox) /\ Head(mailbox).kind # "RegisterCallback"
      /\ UNCHANGED <<items, current, item, asked, tokens, late>>
  BY DEF OnCallback, Receive, outside
<1>2. CASE Discard
  BY <1>1, <1>2, FrameWatched DEF Discard
<1>3. CASE Accept
  <2> SUFFICES ASSUME Watched' PROVE Announced(mailbox', pending', <<current, item>>)
    BY <1>1 DEF WatchedInv
  <2>1. PICK p, n : p = pending /\ n = <<current, item>>
    OBVIOUS
  <2>2. /\ handed' = [handed EXCEPT ![p[2]] = @ + 1] /\ handed \in [Positions -> Nat]
        /\ item \in Positions
    BY <1>1, <1>3, <2>1, Working, TypeParts DEF Accept, LedgerOK, OnCallback
  <2>3. handed'[item] = 0
    BY <1>1 DEF Watched
  <2>4. p[2] # item
    BY <2>2, <2>3
  <2>5. handed[item] = 0
    BY <2>2, <2>3, <2>4
  <2>6. Watched /\ p # n
    BY <1>1, <2>1, <2>4, <2>5 DEF Watched
  <2>7. Announced(mailbox, p, n) /\ p # n
    BY <2>1, <2>6 DEF WatchedInv
  <2>8. Announced(mailbox, pending', n)
    BY <2>7 DEF Announced
  <2>9. Announced(mailbox', pending', n)
    BY <1>1, <2>8, RegistersTyped, AnnouncedTaken
  <2> QED BY <2>1, <2>9
<1> QED BY <1>2, <1>3 DEF OnCallback

(* Without a timeout, the processor that calls its enricher is that of the  *)
(* item in progress: nobody has the token its registration is ahead of.     *)
LEMMA OnStartWatched ==
  ASSUME TypeInv, ProgressInv, TokensInv, WatchedInv, NEW i \in Positions, OnStart(i)
  PROVE  WatchedInv'
<1>1. /\ http[i] = "started" /\ current # None /\ item \in Positions
      /\ UNCHANGED <<items, current, item, pending, asked, handed, late>>
  BY Working DEF OnStart, outside, ledger
<1>2. CASE UNCHANGED <<mailbox, tokens>>
  BY <1>1, <1>2, FrameWatched
<1>3. ASSUME mailbox' = Append(mailbox, [kind |-> "RegisterCallback", nonce |-> <<current, i>>]),
             tokens' = tokens \cup {<<current, i>>}
      PROVE  WatchedInv'
  <2> SUFFICES ASSUME Watched' PROVE Announced(mailbox', pending', <<current, item>>)
    BY <1>1 DEF WatchedInv
  <2>1. item = i
    <3>1. Punctual(item) /\ ~Quiet(i)
      BY <1>1 DEF Watched, Punctual, Quiet
    <3> QED BY <1>1, <3>1, Active
  <2>2. <<current, i>> \notin tokens
    BY <1>1 DEF TokensInv, Untold, Called
  <2>3. PICK n : n = <<current, i>>
    OBVIOUS
  <2> DEFINE m == [kind |-> "RegisterCallback", nonce |-> n]
  <2>4. n \in Starts \X Positions
    BY <1>1, <2>3, TypeParts DEF EntityOK
  <2>5. m \in Command(Positions) /\ m.nonce = n /\ m.kind = "RegisterCallback"
    BY <2>4, Messages
  <2>6. mailbox' = Append(mailbox, m) /\ mailbox \in Seq(Command(Positions))
    BY <1>3, <2>3, RegistersTyped
  <2> HIDE DEF m
  <2>7. m.kind \in {"RegisterCallback"} /\ m.kind \notin {"Callback"}
    BY <2>5
  <2>8. /\ Len(mailbox) \in Nat
        /\ \A k \in Registers(mailbox) : k \in 1..Len(mailbox)
        /\ \A k \in Registers(Append(mailbox, m)) :
             k \in Registers(mailbox) \/ (k = Len(mailbox) + 1 /\ m.kind \in {"RegisterCallback"})
        /\ m.kind \in {"RegisterCallback"} => Len(mailbox) + 1 \in Registers(Append(mailbox, m))
        /\ Append(mailbox, m)[Len(mailbox) + 1] = m
    BY <2>5, <2>6, HoldsAppend DEF Registers
  <2>9. \A c \in Callbacks(Append(mailbox, m)) :
          \/ c \in Callbacks(mailbox) /\ Append(mailbox, m)[c] = mailbox[c]
          \/ c = Len(mailbox) + 1 /\ m.kind \in {"Callback"}
    <3>1. /\ \A k \in Callbacks(mailbox) : Append(mailbox, m)[k] = mailbox[k]
          /\ \A k \in Callbacks(Append(mailbox, m)) :
               k \in Callbacks(mailbox) \/ (k = Len(mailbox) + 1 /\ m.kind \in {"Callback"})
      BY <2>5, <2>6, HoldsAppend DEF Callbacks
    <3> QED BY <3>1
  <2>10. \A c \in Callbacks(mailbox) : mailbox[c].nonce # n
    <3>1. NoneOf(mailbox, CallbacksOf(n))
      BY <2>2, <2>3, <2>4 DEF TokensInv, Posted
    <3>2. \A c \in DOMAIN mailbox : mailbox[c] \in Command(Positions)
      BY <2>6, LenProperties, ElementOfSeq
    <3> QED BY <3>1, <3>2 DEF NoneOf, CallbacksOf, Callbacks, HoldsIn
  <2>11. \A q \in Registers(mailbox') : q <= Len(mailbox) + 1
    <3>1. ASSUME NEW q \in 1..Len(mailbox) PROVE q <= Len(mailbox) + 1
      BY <2>8, <3>1
    <3> QED BY <2>6, <2>8, <3>1
  <2>12. Announced(mailbox', pending', n)
    BY <2>5, <2>6, <2>7, <2>8, <2>9, <2>10, <2>11 DEF Announced
  <2> QED BY <2>1, <2>3, <2>12
<1> QED BY <1>2, <1>3 DEF OnStart

(* The next item has no token yet.                                          *)
LEMMA ExecutedWatched ==
  ASSUME TypeInv, ProgressInv, TokensInv', mailbox # <<>>, ItemExecuted
  PROVE  WatchedInv'
<1>1. item + 1 \in Positions /\ item + 1 > item /\ Positions' = Positions
  BY TypeParts, Pipeline DEF EntityOK, ItemExecuted, Positions
<1>2. http[item + 1] = "none"
  BY <1>1 DEF ProgressInv, FreshAhead, Fresh
<1>3. item' = item + 1 /\ http'[item'] = "none" /\ current' # None
  BY <1>2 DEF ItemExecuted, Execute, httpActors
<1>4. <<current', item'>> \notin tokens'
  BY <1>1, <1>3 DEF TokensInv, Untold, Called
<1> QED BY <1>4 DEF WatchedInv, Watched

LEMMA OthersWatched ==
  ASSUME TypeInv, ProgressInv, TokensInv, WatchedInv,
         \/ AskTimeout \/ OnCall \/ OnResponse \/ SendStart \/ Crash
         \/ \E i \in Positions : HttpStep(i)
         \/ \E n \in tokens : PostCallback(n)
         \/ UNCHANGED vars
  PROVE  WatchedInv'
<1>1. CASE AskTimeout \/ Crash
  <2>1. ~asked'
    BY <1>1 DEF AskTimeout, Crash, Stopped
  <2> QED BY <2>1 DEF WatchedInv, Watched
<1>2. CASE OnCall \/ OnResponse \/ UNCHANGED vars
  <2>1. UNCHANGED <<mailbox, current, item, pending, asked, tokens, handed, late>>
    BY <1>2 DEF OnCall, OnResponse, vars, entity, outside, ledger
  <2> QED BY <2>1, FrameWatched
<1>3. CASE SendStart
  <2> DEFINE m == [kind |-> "Start", start |-> sent + 1]
  <2>1. sent + 1 \in Starts
    BY <1>3, TypeParts, EnrichmentAssumption DEF OutsideOK, SendStart, Starts
  <2>2. m \in Command(Positions) /\ m.kind # "RegisterCallback"
    BY <2>1, Messages
  <2>3. mailbox' = Append(mailbox, m)
        /\ UNCHANGED <<current, item, pending, asked, tokens, handed, late>>
    BY <1>3 DEF SendStart, ledger
  <2> HIDE DEF m
  <2> QED BY <2>2, <2>3, FrameWatched
<1>4. ASSUME NEW n \in tokens, PostCallback(n)
      PROVE  WatchedInv'
  <2> DEFINE m == [kind |-> "Callback", nonce |-> n]
  <2>1. m \in Command(Positions) /\ m.kind # "RegisterCallback"
    BY Messages, TypeParts DEF OutsideOK
  <2>2. mailbox' = Append(mailbox, m)
        /\ UNCHANGED <<current, item, pending, asked, tokens, handed, late>>
    BY <1>4 DEF PostCallback, ledger
  <2> HIDE DEF m
  <2> QED BY <2>1, <2>2, FrameWatched
<1>5. CASE \E i \in Positions : OnHttpOutcome(i) \/ OnDelivered(i)
  <2>1. UNCHANGED <<mailbox, current, item, pending, asked, tokens, handed, late>>
    BY <1>5 DEF OnHttpOutcome, OnDelivered, entity, outside, ledger
  <2> QED BY <2>1, FrameWatched
<1> QED BY <1>1, <1>2, <1>3, <1>4, <1>5, OnStartWatched DEF HttpStep

LEMMA NextWatched ==
  TypeInv /\ ProgressInv /\ TokensInv /\ WatchedInv /\ [Next]_vars /\ TokensInv' => WatchedInv'
<1> SUFFICES ASSUME TypeInv, ProgressInv, TokensInv, WatchedInv, [Next]_vars, TokensInv'
             PROVE  WatchedInv'
  OBVIOUS
<1>1. CASE OnMessage
  <2>1. mailbox # <<>>
    BY <1>1, MessageSteps
  <2>2. CASE Stopped
    BY <2>2 DEF Stopped, WatchedInv, Watched
  <2>3. CASE MessagePassed
    <3>1. \A m : m.kind \in Outcomes => m.kind # "RegisterCallback"
      BY DEF Outcomes
    <3> QED BY <2>1, <2>3, <3>1, FrameWatched DEF MessagePassed
  <2> QED BY <1>1, <2>1, <2>2, <2>3, MessageSteps, ExecutedWatched, RegisteredWatched, CallbackWatched
<1>2. CASE \/ AskTimeout \/ OnCall \/ OnResponse \/ SendStart \/ Crash
           \/ \E i \in Positions : HttpStep(i)
           \/ \E n \in tokens : PostCallback(n)
           \/ UNCHANGED vars
  BY <1>2, OthersWatched
<1>3. ASSUME NEW i \in Positions, ItemStep(i)
      PROVE  WatchedInv'
  <2>1. CASE asked' = FALSE
    BY <2>1 DEF WatchedInv, Watched
  <2>2. CASE UNCHANGED <<mailbox, asked>>
    BY <1>3, <2>2, ItemMails, FrameWatched
  <2> QED BY <1>3, <2>1, <2>2, ItemMails
<1> QED BY <1>1, <1>2, <1>3 DEF Next

LEMMA AlwaysWatched == Spec => [](TokensInv /\ WatchedInv)
<1>1. Init => TokensInv /\ WatchedInv
  BY InitTokens DEF Init, WatchedInv, Watched
<1>2. /\ TypeInv /\ AnswerInv /\ ProgressInv /\ CalledOnce /\ TokensInv /\ WatchedInv
      /\ [Next]_vars
      => TokensInv' /\ WatchedInv'
  BY NextTokens, NextWatched
<1> QED BY <1>1, <1>2, AlwaysAnswer, AlwaysOnce, PTL DEF Spec

(* Unless an earlier item timed out, no callback to the item in progress    *)
(* comes before the entity knows its nonce, and none displaces it.          *)
THEOREM Registered == Spec => []AwaitedIsRegistered
<1>1. WatchedInv => AwaitedIsRegistered
  <2> DEFINE n == <<current, item>>
             At(kind) == { k \in Holds({kind}) : mailbox[k].nonce = n }
  <2> SUFFICES ASSUME WatchedInv, Watched
               PROVE  \/ pending = n
                      \/ \E r \in At("RegisterCallback") : \A c \in At("Callback") : r < c
    BY DEF AwaitedIsRegistered, Watched
  <2>1. Announced(mailbox, pending, n)
    BY DEF WatchedInv
  <2>2. /\ At("RegisterCallback") = { k \in Registers(mailbox) : mailbox[k].nonce = n }
        /\ At("Callback") = { k \in Callbacks(mailbox) : mailbox[k].nonce = n }
    BY HoldsAll DEF Registers, Callbacks
  <2> HIDE DEF n, At
  <2> QED BY <2>1, <2>2 DEF Announced
<1> QED BY <1>1, AlwaysWatched, PTL
=============================================================================
