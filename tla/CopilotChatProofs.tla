------------------------- MODULE CopilotChatProofs -------------------------
(***************************************************************************)
(* Theorems about the chat with the assistant, for any number of questions,*)
(* searches and chunks: every variable keeps its type, a chat that is busy *)
(* has a stream to stop, a turn that is being answered is the current one, *)
(* a stopped turn keeps its answer, and in the panel a question is sent    *)
(* with the whole conversation and every end is notified.                  *)
(***************************************************************************)
EXTENDS CopilotChat, SequenceTheorems, TLAPS

-----------------------------------------------------------------------------
(* The inductive invariants *)

One(condition) == IF condition THEN 1 ELSE 0

(* A search is on its way to become a question: it is to be shown, its      *)
(* effects are to run, or it is pending.  So turns are never more than what *)
(* was asked and searched.                                                  *)
CountInv ==
  /\ asks \in 0..MaxAsks /\ searches \in 0..MaxSearches
  /\ hook.turnCounter + One(page.pending # None)
       + One(shown.searchText # ran.searchText) + One(page.searchText # shown.searchText)
       <= asks + searches
  /\ ran # shown => shown.pending = page.pending

(* The turns are in the order they were asked; a turn is over when its      *)
(* stream has nothing more to say, and a stopped one has nothing to say.    *)
TurnsOK(k) ==
  /\ \A i, j \in DOMAIN k.messages : i < j => k.messages[i].id < k.messages[j].id
  /\ \A i \in DOMAIN k.messages :
       /\ k.messages[i].id <= k.turnCounter
       /\ k.messages[i].status # "CHUNK" => k.stream[k.messages[i].id] \in {"ended", "closed"}
  /\ k.inFlight <= k.turnCounter /\ k.inFlight \notin k.cancelled
  /\ \A id \in k.cancelled : id <= k.turnCounter /\ k.stream[id] = "closed"

ChattingOK(k) ==
  k.isChatting =>
    /\ k.inFlight # 0 /\ k.stream[k.inFlight] \in {"asking", "open"}
    /\ \E i \in DOMAIN k.messages : k.messages[i].id = k.inFlight /\ k.messages[i].status = "CHUNK"

TurnInv == TurnsOK(hook) /\ ChattingOK(hook)

(* What is shown is behind the hook: only a question not yet shown is       *)
(* answered while the chat does not look busy, and the panel's shown        *)
(* conversation is the hook's unless a click is to be rendered.             *)
ShownInv ==
  /\ \A i \in DOMAIN shown.messages : shown.messages[i].id <= hook.turnCounter
  /\ hook.isChatting /\ ~shown.isChatting =>
       \A i \in DOMAIN shown.messages : shown.messages[i].id # hook.inFlight
  /\ host = "panel" =>
       /\ page.searchText = None /\ shown.searchText = None /\ ran.searchText = None
       /\ \A i \in DOMAIN shown.messages : shown.messages[i].status = "CHUNK" => shown.isChatting
       /\ flushing # "due" =>
            /\ Ids(hook.messages) = Ids(shown.messages)
            /\ hook.isChatting => shown.isChatting

Notified(id) == \E kind \in {"res", "err"} : <<kind, id>> \in fired

(* In the panel, the last turn the effects saw is notified if it was        *)
(* complete, and every earlier turn is, unless it is the last one shown and *)
(* the effects are still to run.                                            *)
NotifiedInv ==
  host = "panel" =>
    /\ ran.messages # <<>> /\ ran.messages[Len(ran.messages)].status # "CHUNK" =>
         Notified(ran.messages[Len(ran.messages)].id)
    /\ \A i, j \in DOMAIN hook.messages : i < j =>
         \/ Notified(hook.messages[i].id)
         \/ /\ ran # shown /\ shown.messages # <<>>
            /\ shown.messages[Len(shown.messages)].id = hook.messages[i].id
            /\ shown.messages[Len(shown.messages)].status # "CHUNK"

-----------------------------------------------------------------------------
(* Sequences of turns *)

HookType == [messages    : Seq(Turn),
             isChatting  : BOOLEAN,
             inFlight    : TurnIds \cup {0},
             cancelled   : SUBSET TurnIds,
             turnCounter : TurnIds \cup {0},
             stream      : [TurnIds -> {"none", "asking", "open", "ended", "closed"}],
             history     : [TurnIds -> Seq(TurnIds)]]

PageType == [searchText : Queries \cup {None}, pending : Queries \cup {None},
             lastQuery  : Queries \cup {None}]

LEMMA TypeParts ==
  TypeOK <=> /\ host \in {"panel", "page"} /\ hook \in HookType /\ page \in PageType
             /\ shown \in Shown /\ ran \in Shown /\ flushing \in {"no", "due", "rendered"}
             /\ fired \subseteq {"res", "err"} \X TurnIds
  BY DEF TypeOK, HookType, PageType

LEMMA TypePartsNext ==
  ASSUME host' \in {"panel", "page"}, hook' \in HookType, page' \in PageType,
         shown' \in Shown, ran' \in Shown, flushing' \in {"no", "due", "rendered"},
         fired' \subseteq {"res", "err"} \X TurnIds
  PROVE  TypeOK'
  BY DEF TypeOK, HookType, PageType

(* A conversation, turn by turn.                                            *)
LEMMA TurnsAt ==
  ASSUME NEW q \in Seq(Turn)
  PROVE  /\ Len(q) \in Nat /\ DOMAIN q = 1..Len(q) /\ (q = <<>> <=> Len(q) = 0)
         /\ \A i \in DOMAIN q : /\ i \in Nat \ {0} /\ q[i] \in Turn /\ q[i].id \in TurnIds
                                /\ q[i].id \in Nat \ {0}
                                /\ q[i].status \in {"CHUNK", "END", "ERROR"}
                                /\ q[i].answer \in 0..MaxChunks
<1>1. Len(q) \in Nat /\ DOMAIN q = 1..Len(q) /\ \A i \in 1..Len(q) : q[i] \in Turn
  BY LenProperties
<1>2. TurnIds \subseteq Nat \ {0}
  BY CopilotAssumption DEF TurnIds
<1>3. q = <<>> <=> Len(q) = 0
  BY EmptySeq
<1>4. \A i \in DOMAIN q : /\ q[i] \in Turn /\ q[i].id \in TurnIds
                          /\ q[i].status \in {"CHUNK", "END", "ERROR"}
                          /\ q[i].answer \in 0..MaxChunks
  BY <1>1 DEF Turn
<1>5. \A i \in DOMAIN q : i \in Nat \ {0}
  BY <1>1
<1>6. \A id \in TurnIds : id \in Nat \ {0}
  BY <1>2
<1> QED BY <1>1, <1>3, <1>4, <1>5, <1>6

(* A conversation is one if it has its turns in some of their states.       *)
LEMMA TurnsMapped ==
  ASSUME NEW q \in Seq(Turn), NEW new \in [DOMAIN q -> Turn]
  PROVE  new \in Seq(Turn)
  BY TurnsAt, SeqDef

LEMMA IdsAt ==
  ASSUME NEW q \in Seq(Turn)
  PROVE  /\ Ids(q) \in Seq(TurnIds) /\ DOMAIN Ids(q) = DOMAIN q
         /\ \A i \in DOMAIN q : Ids(q)[i] = q[i].id
<1>1. Ids(q) \in [1..Len(q) -> TurnIds] /\ Len(q) \in Nat
  BY TurnsAt DEF Ids
<1> QED BY <1>1, TurnsAt, SeqDef DEF Ids

LEMMA WithStatusAt ==
  ASSUME NEW q \in Seq(Turn), NEW id, NEW status \in {"CHUNK", "END", "ERROR"}
  PROVE  LET with == WithStatus(q, id, status)
         IN  /\ with \in Seq(Turn) /\ DOMAIN with = DOMAIN q
             /\ \A i \in DOMAIN q : /\ with[i].id = q[i].id
                                    /\ q[i].id # id => with[i] = q[i]
                                    /\ q[i].id = id => with[i].status = status
<1> DEFINE f(i) == IF q[i].id = id THEN [q[i] EXCEPT !.status = status] ELSE q[i]
<1>1. ASSUME NEW i \in DOMAIN q
      PROVE  f(i) \in Turn /\ f(i).id = q[i].id /\ (q[i].id = id => f(i).status = status)
  <2>1. q[i] \in Turn
    BY TurnsAt
  <2> DEFINE new == [q[i] EXCEPT !.status = status]
  <2>2. new \in Turn /\ new.id = q[i].id /\ new.status = status
    BY <2>1 DEF Turn
  <2> HIDE DEF new
  <2>3. f(i) = IF q[i].id = id THEN new ELSE q[i]
    BY DEF new
  <2> QED BY <2>1, <2>2, <2>3
<1>2. [i \in DOMAIN q |-> f(i)] \in Seq(Turn)
  <2> HIDE DEF f
  <2>1. [i \in DOMAIN q |-> f(i)] \in [DOMAIN q -> Turn]
    BY <1>1
  <2> QED BY <2>1, TurnsMapped
<1> QED BY <1>1, <1>2 DEF WithStatus

LEMMA AskedTurn ==
  ASSUME NEW q \in Seq(Turn), NEW id \in TurnIds
  PROVE  LET longer == Append(q, [id |-> id, status |-> "CHUNK", answer |-> 0])
         IN  /\ longer \in Seq(Turn) /\ DOMAIN longer = DOMAIN q \cup {Len(q) + 1}
             /\ Len(q) + 1 \notin DOMAIN q /\ Len(longer) = Len(q) + 1
             /\ \A i \in DOMAIN q : longer[i] = q[i] /\ i < Len(q) + 1
             /\ longer[Len(q) + 1] = [id |-> id, status |-> "CHUNK", answer |-> 0]
<1> DEFINE turn == [id |-> id, status |-> "CHUNK", answer |-> 0]
<1>1. turn \in Turn
  BY CopilotAssumption DEF Turn
<1> HIDE DEF turn
<1>2. /\ Append(q, turn) \in Seq(Turn) /\ Len(Append(q, turn)) = Len(q) + 1
      /\ \A i \in 1..Len(q) : Append(q, turn)[i] = q[i]
      /\ Append(q, turn)[Len(q) + 1] = turn
  BY <1>1, AppendProperties
<1>3. DOMAIN Append(q, turn) = 1..(Len(q) + 1) /\ DOMAIN q = 1..Len(q) /\ Len(q) \in Nat
  BY <1>2, LenProperties
<1>4. 1..(Len(q) + 1) = 1..Len(q) \cup {Len(q) + 1} /\ Len(q) + 1 \notin 1..Len(q)
      /\ \A i \in 1..Len(q) : i < Len(q) + 1
  BY <1>3
<1>5. /\ Append(q, turn) \in Seq(Turn) /\ DOMAIN Append(q, turn) = DOMAIN q \cup {Len(q) + 1}
      /\ Len(q) + 1 \notin DOMAIN q /\ Len(Append(q, turn)) = Len(q) + 1
      /\ \A i \in DOMAIN q : Append(q, turn)[i] = q[i] /\ i < Len(q) + 1
      /\ Append(q, turn)[Len(q) + 1] = turn
  BY <1>2, <1>3, <1>4
<1> QED BY <1>5 DEF turn

-----------------------------------------------------------------------------
(* What the hook does to its state *)

LEMMA HookFields ==
  ASSUME NEW k \in HookType
  PROVE  /\ k.messages \in Seq(Turn) /\ k.isChatting \in BOOLEAN
         /\ k.inFlight \in TurnIds \cup {0} /\ k.inFlight \in Nat
         /\ k.cancelled \subseteq TurnIds /\ k.turnCounter \in TurnIds \cup {0}
         /\ k.turnCounter \in Nat
         /\ k.stream \in [TurnIds -> {"none", "asking", "open", "ended", "closed"}]
         /\ k.history \in [TurnIds -> Seq(TurnIds)]
         /\ TurnIds \subseteq Nat \ {0}
<1>1. TurnIds \subseteq Nat \ {0}
  BY CopilotAssumption DEF TurnIds
<1>2. /\ k.messages \in Seq(Turn) /\ k.isChatting \in BOOLEAN
      /\ k.inFlight \in TurnIds \cup {0} /\ k.cancelled \subseteq TurnIds
      /\ k.turnCounter \in TurnIds \cup {0}
      /\ k.stream \in [TurnIds -> {"none", "asking", "open", "ended", "closed"}]
      /\ k.history \in [TurnIds -> Seq(TurnIds)]
  BY DEF HookType
<1>3. \A id \in TurnIds : id \in Nat
  BY <1>1
<1>4. k.inFlight \in Nat /\ k.turnCounter \in Nat
  BY <1>2, <1>3
<1> QED BY <1>1, <1>2, <1>4

LEMMA SentEffect ==
  ASSUME NEW k \in HookType, NEW seen \in Seq(Turn), k.turnCounter + 1 \in TurnIds
  PROVE  LET id == k.turnCounter + 1
             sent == Sent(k, seen)
         IN  /\ sent \in HookType
             /\ sent.turnCounter = id /\ sent.inFlight = id /\ sent.isChatting = TRUE
             /\ sent.cancelled = k.cancelled
             /\ sent.messages = Append(k.messages, [id |-> id, status |-> "CHUNK", answer |-> 0])
             /\ sent.stream[id] = "asking" /\ sent.history[id] = Ids(seen)
             /\ \A other \in TurnIds \ {id} : /\ sent.stream[other] = k.stream[other]
                                              /\ sent.history[other] = k.history[other]
<1> DEFINE id == k.turnCounter + 1
           longer == Append(k.messages, [id |-> id, status |-> "CHUNK", answer |-> 0])
           sent == Sent(k, seen)
<1>1. longer \in Seq(Turn)
  BY HookFields, AskedTurn
<1>2. Ids(seen) \in Seq(TurnIds)
  BY IdsAt
<1>3. /\ sent.turnCounter = id /\ sent.inFlight = id /\ sent.isChatting = TRUE
      /\ sent.cancelled = k.cancelled /\ sent.messages = longer
      /\ sent.stream = [k.stream EXCEPT ![id] = "asking"]
      /\ sent.history = [k.history EXCEPT ![id] = Ids(seen)]
      /\ sent = [messages |-> sent.messages, isChatting |-> sent.isChatting,
                 inFlight |-> sent.inFlight, cancelled |-> sent.cancelled,
                 turnCounter |-> sent.turnCounter, stream |-> sent.stream,
                 history |-> sent.history]
  <2>1. PICK new : new = [id |-> id, status |-> "CHUNK", answer |-> 0]
    OBVIOUS
  <2>2. sent = [k EXCEPT !.turnCounter = id, !.messages = Append(k.messages, new),
                         !.isChatting = TRUE, !.inFlight = id,
                         !.stream[id] = "asking", !.history[id] = Ids(seen)]
    BY <2>1 DEF Sent
  <2> HIDE DEF sent
  <2> QED BY <2>1, <2>2 DEF HookType
<1> HIDE DEF longer, sent
<1>4. /\ sent.stream \in [TurnIds -> {"none", "asking", "open", "ended", "closed"}]
      /\ sent.history \in [TurnIds -> Seq(TurnIds)]
      /\ sent.stream[id] = "asking" /\ sent.history[id] = Ids(seen)
      /\ \A other \in TurnIds \ {id} : /\ sent.stream[other] = k.stream[other]
                                       /\ sent.history[other] = k.history[other]
  BY <1>2, <1>3, HookFields
<1>5. sent \in HookType
  BY <1>1, <1>3, <1>4, HookFields DEF HookType
<1> QED BY <1>3, <1>4, <1>5 DEF longer, sent

LEMMA AbortedEffect ==
  ASSUME NEW k \in HookType
  PROVE  LET aborted == Aborted(k)
         IN  /\ aborted \in HookType
             /\ aborted.turnCounter = k.turnCounter /\ aborted.inFlight = 0
             /\ aborted.isChatting = k.isChatting /\ aborted.messages = k.messages
             /\ aborted.history = k.history
             /\ aborted.cancelled = k.cancelled \cup ({k.inFlight} \ {0})
             /\ k.inFlight # 0 => aborted.stream[k.inFlight] = "closed"
             /\ \A id \in TurnIds \ {k.inFlight} : aborted.stream[id] = k.stream[id]
<1> DEFINE aborted == Aborted(k)
<1>1. CASE k.inFlight = 0
  BY <1>1 DEF Aborted
<1>2. CASE k.inFlight # 0
  <2>1. k.inFlight \in TurnIds
    BY <1>2, HookFields
  <2>2. /\ aborted.turnCounter = k.turnCounter /\ aborted.inFlight = 0
        /\ aborted.isChatting = k.isChatting /\ aborted.messages = k.messages
        /\ aborted.history = k.history /\ aborted.cancelled = k.cancelled \cup {k.inFlight}
        /\ aborted.stream = [k.stream EXCEPT ![k.inFlight] = "closed"]
        /\ aborted = [messages |-> aborted.messages, isChatting |-> aborted.isChatting,
                      inFlight |-> aborted.inFlight, cancelled |-> aborted.cancelled,
                      turnCounter |-> aborted.turnCounter, stream |-> aborted.stream,
                      history |-> aborted.history]
    BY <1>2 DEF Aborted, HookType
  <2> HIDE DEF aborted
  <2>3. /\ aborted.stream \in [TurnIds -> {"none", "asking", "open", "ended", "closed"}]
        /\ aborted.stream[k.inFlight] = "closed"
        /\ \A id \in TurnIds \ {k.inFlight} : aborted.stream[id] = k.stream[id]
    BY <2>1, <2>2, HookFields
  <2>4. aborted \in HookType
    BY <2>1, <2>2, <2>3, HookFields DEF HookType
  <2> QED BY <1>2, <2>2, <2>3, <2>4 DEF aborted
<1> QED BY <1>1, <1>2

LEMMA ResetEffect ==
  ASSUME NEW k \in HookType
  PROVE  LET reset == Reset(k)
         IN  /\ reset \in HookType
             /\ reset.turnCounter = k.turnCounter /\ reset.inFlight = 0
             /\ reset.isChatting = FALSE /\ reset.messages = <<>>
             /\ reset.history = k.history
             /\ reset.cancelled = k.cancelled \cup ({k.inFlight} \ {0})
             /\ k.inFlight # 0 => reset.stream[k.inFlight] = "closed"
             /\ \A id \in TurnIds \ {k.inFlight} : reset.stream[id] = k.stream[id]
<1> DEFINE aborted == Aborted(k)
<1>1. <<>> \in Seq(Turn)
  BY EmptySeq
<1>2. aborted \in HookType
  BY AbortedEffect
<1> HIDE DEF aborted
<1> DEFINE reset == [aborted EXCEPT !.messages = <<>>, !.isChatting = FALSE]
<1>3. /\ reset \in HookType /\ reset.isChatting = FALSE /\ reset.messages = <<>>
      /\ reset.turnCounter = aborted.turnCounter /\ reset.inFlight = aborted.inFlight
      /\ reset.history = aborted.history /\ reset.cancelled = aborted.cancelled
      /\ reset.stream = aborted.stream
  BY <1>1, <1>2 DEF HookType
<1>4. Reset(k) = reset
  BY DEF Reset, aborted
<1> HIDE DEF reset
<1> QED BY <1>3, <1>4, AbortedEffect DEF aborted

LEMMA CancelledEffect ==
  ASSUME NEW k \in HookType
  PROVE  LET cancelled == Cancelled(k)
         IN  /\ cancelled \in HookType
             /\ cancelled.turnCounter = k.turnCounter /\ cancelled.inFlight = 0
             /\ k.inFlight = 0 => cancelled = k
             /\ k.inFlight # 0 => cancelled.isChatting = FALSE
             /\ cancelled.history = k.history
             /\ cancelled.cancelled = k.cancelled \cup ({k.inFlight} \ {0})
             /\ k.inFlight # 0 => cancelled.stream[k.inFlight] = "closed"
             /\ \A id \in TurnIds \ {k.inFlight} : cancelled.stream[id] = k.stream[id]
             /\ DOMAIN cancelled.messages = DOMAIN k.messages
             /\ \A i \in DOMAIN k.messages :
                  /\ cancelled.messages[i].id = k.messages[i].id
                  /\ k.messages[i].id # k.inFlight => cancelled.messages[i] = k.messages[i]
                  /\ k.messages[i].id = k.inFlight => cancelled.messages[i].status = "END"
<1>1. CASE k.inFlight = 0
  <2>1. \A i \in DOMAIN k.messages : k.messages[i].id # 0
    BY HookFields, TurnsAt
  <2> QED BY <1>1, <2>1 DEF Cancelled
<1>2. CASE k.inFlight # 0
  <2> DEFINE aborted == Aborted(k)
             with == WithStatus(k.messages, k.inFlight, "END")
  <2>1. /\ with \in Seq(Turn) /\ DOMAIN with = DOMAIN k.messages
        /\ \A i \in DOMAIN k.messages : /\ with[i].id = k.messages[i].id
                                        /\ k.messages[i].id # k.inFlight => with[i] = k.messages[i]
                                        /\ k.messages[i].id = k.inFlight => with[i].status = "END"
    BY HookFields, WithStatusAt
  <2>2. aborted \in HookType /\ aborted.messages = k.messages
    BY AbortedEffect
  <2>3. Cancelled(k) = [aborted EXCEPT !.messages = WithStatus(@, k.inFlight, "END"),
                                       !.isChatting = FALSE]
    BY <1>2 DEF Cancelled
  <2> HIDE DEF aborted, with
  <2>4. Cancelled(k) = [aborted EXCEPT !.messages = with, !.isChatting = FALSE]
    BY <2>2, <2>3 DEF with, HookType
  <2> DEFINE cancelled == Cancelled(k)
  <2>5. /\ cancelled \in HookType /\ cancelled.isChatting = FALSE /\ cancelled.messages = with
        /\ cancelled.turnCounter = aborted.turnCounter /\ cancelled.inFlight = aborted.inFlight
        /\ cancelled.history = aborted.history /\ cancelled.cancelled = aborted.cancelled
        /\ cancelled.stream = aborted.stream
    BY <2>1, <2>2, <2>4 DEF HookType
  <2> HIDE DEF cancelled
  <2> QED BY <1>2, <2>1, <2>5, AbortedEffect DEF aborted, cancelled
<1> QED BY <1>1, <1>2

(* A message about the answer changes one stream, and its turn: it answers  *)
(* an open one, or ends it, and with the current one the chat is over.      *)
StreamEffect(id) ==
  /\ hook' \in HookType /\ StreamOnly
  /\ hook'.turnCounter = hook.turnCounter /\ hook'.cancelled = hook.cancelled
  /\ hook'.history = hook.history
  /\ hook.stream[id] \in {"asking", "open", "ended"}
  /\ hook'.stream[id] \in {"open", "ended", "closed"}
  /\ hook'.stream[id] = "open" => hook.stream[id] \in {"asking", "open"}
  /\ hook.stream[id] = "ended" => hook'.stream[id] = "closed"
  /\ \A other \in TurnIds \ {id} : hook'.stream[other] = hook.stream[other]
  /\ DOMAIN hook'.messages = DOMAIN hook.messages
  /\ \A i \in DOMAIN hook.messages :
       /\ hook'.messages[i].id = hook.messages[i].id
       /\ hook.messages[i].id # id => hook'.messages[i] = hook.messages[i]
       /\ hook'.messages[i].status = "CHUNK" =>
            \/ hook.messages[i].status = "CHUNK"
            \/ hook.messages[i].id = id /\ hook.stream[id] = "open"
       /\ hook'.messages[i].status # "CHUNK" =>
            \/ hook.messages[i].status # "CHUNK"
            \/ hook.messages[i].id = id /\ hook'.stream[id] \in {"ended", "closed"}
       /\ hook.inFlight = id /\ hook.messages[i].id = id /\ hook'.stream[id] # "open" =>
            hook'.messages[i].status # "CHUNK"
  /\ \/ hook'.inFlight = hook.inFlight /\ hook'.isChatting = hook.isChatting
        /\ (hook.inFlight = id => hook'.stream[id] = "open")
     \/ /\ hook.inFlight = id /\ ~hook'.isChatting /\ hook'.inFlight \in {0, id}
        /\ hook'.stream[id] # "open"

LEMMA OnResponseEffect ==
  ASSUME TypeOK, NEW id \in TurnIds, OnResponse(id)
  PROVE  StreamEffect(id)
<1>1. hook \in HookType /\ hook.stream[id] = "asking"
  BY TypeParts DEF OnResponse
<1>2. hook' = [hook EXCEPT !.stream[id] = "open"]
  BY DEF OnResponse
<1>3. /\ hook' \in HookType
      /\ hook'.turnCounter = hook.turnCounter /\ hook'.cancelled = hook.cancelled
      /\ hook'.history = hook.history /\ hook'.messages = hook.messages
      /\ hook'.inFlight = hook.inFlight /\ hook'.isChatting = hook.isChatting
      /\ hook'.stream = [hook.stream EXCEPT ![id] = "open"]
  BY <1>1, <1>2 DEF HookType
<1>4. hook'.stream[id] = "open" /\ \A other \in TurnIds \ {id} : hook'.stream[other] = hook.stream[other]
  BY <1>1, <1>3, HookFields
<1> QED BY <1>1, <1>3, <1>4 DEF StreamEffect, OnResponse

LEMMA OnChunkEffect ==
  ASSUME TypeOK, NEW id \in TurnIds, OnChunk(id)
  PROVE  StreamEffect(id)
<1>1. hook \in HookType /\ hook.stream[id] = "open"
  BY TypeParts DEF OnChunk
<1>2. PICK i \in DOMAIN hook.messages :
        /\ hook.messages[i].id = id /\ hook.messages[i].answer < MaxChunks
        /\ hook' = [hook EXCEPT !.messages[i].answer = hook.messages[i].answer + 1,
                                !.messages[i].status = "CHUNK"]
  BY DEF OnChunk
<1>3. PICK new : new = [hook.messages[i] EXCEPT !.answer = hook.messages[i].answer + 1,
                                                !.status = "CHUNK"]
  OBVIOUS
<1>4. new \in Turn /\ new.id = id /\ new.status = "CHUNK"
  <2>1. hook.messages[i] \in Turn /\ hook.messages[i].answer + 1 \in 0..MaxChunks
    BY <1>1, <1>2, HookFields, TurnsAt, CopilotAssumption
  <2> QED BY <1>2, <1>3, <2>1 DEF Turn
<1>5. PICK turns : turns = [hook.messages EXCEPT ![i] = new]
  OBVIOUS
<1>6. /\ turns \in Seq(Turn) /\ DOMAIN turns = DOMAIN hook.messages /\ turns[i] = new
      /\ \A j \in DOMAIN hook.messages \ {i} : turns[j] = hook.messages[j]
  <2>1. hook.messages \in [DOMAIN hook.messages -> Turn]
    BY <1>1, HookFields, TurnsAt, LenProperties
  <2>2. turns \in [DOMAIN hook.messages -> Turn] /\ turns[i] = new
        /\ \A j \in DOMAIN hook.messages \ {i} : turns[j] = hook.messages[j]
    BY <1>2, <1>4, <1>5, <2>1
  <2> QED BY <1>1, <2>2, HookFields, TurnsMapped
<1>7. hook' = [hook EXCEPT !.messages = turns]
  <2>1. hook' = [hook EXCEPT !.messages[i] = new]
    BY <1>1, <1>2, <1>3 DEF HookType
  <2>2. [hook EXCEPT !.messages[i] = new] = [hook EXCEPT !.messages = turns]
    BY <1>5
  <2> QED BY <2>1, <2>2
<1>8. /\ hook' \in HookType /\ hook'.messages = turns
      /\ hook'.turnCounter = hook.turnCounter /\ hook'.cancelled = hook.cancelled
      /\ hook'.history = hook.history /\ hook'.stream = hook.stream
      /\ hook'.inFlight = hook.inFlight /\ hook'.isChatting = hook.isChatting
  BY <1>1, <1>6, <1>7 DEF HookType
<1> QED BY <1>1, <1>2, <1>4, <1>6, <1>8 DEF StreamEffect, OnChunk

LEMMA OnLastEventEffect ==
  ASSUME TypeOK, NEW id \in TurnIds, OnLastEvent(id)
  PROVE  StreamEffect(id)
<1>1. hook \in HookType /\ hook.stream[id] = "open"
  BY TypeParts DEF OnLastEvent
<1>2. PICK status \in {"END", "ERROR"} :
        hook' = [hook EXCEPT !.stream[id]  = "ended",
                             !.messages    = WithStatus(hook.messages, id, status),
                             !.isChatting  = hook.isChatting /\ ~Owns(id)]
  BY DEF OnLastEvent
<1>3. PICK turns : turns = WithStatus(hook.messages, id, status)
  OBVIOUS
<1>4. /\ turns \in Seq(Turn) /\ DOMAIN turns = DOMAIN hook.messages
      /\ \A i \in DOMAIN hook.messages :
           /\ turns[i].id = hook.messages[i].id
           /\ hook.messages[i].id # id => turns[i] = hook.messages[i]
           /\ hook.messages[i].id = id => turns[i].status = status
  BY <1>1, <1>3, HookFields, WithStatusAt
<1>5. PICK chatting \in BOOLEAN : chatting = (hook.isChatting /\ ~Owns(id))
  OBVIOUS
<1>6. hook' = [hook EXCEPT !.stream[id] = "ended", !.messages = turns, !.isChatting = chatting]
  BY <1>2, <1>3, <1>5
<1>7. /\ hook' \in HookType /\ hook'.messages = turns /\ hook'.isChatting = chatting
      /\ hook'.turnCounter = hook.turnCounter /\ hook'.cancelled = hook.cancelled
      /\ hook'.history = hook.history /\ hook'.inFlight = hook.inFlight
      /\ hook'.stream = [hook.stream EXCEPT ![id] = "ended"]
  BY <1>1, <1>4, <1>6 DEF HookType
<1>8. hook'.stream[id] = "ended" /\ \A other \in TurnIds \ {id} : hook'.stream[other] = hook.stream[other]
  BY <1>1, <1>7, HookFields
<1>9. \/ hook'.isChatting = hook.isChatting /\ hook.inFlight # id
      \/ ~hook'.isChatting /\ hook.inFlight = id
  BY <1>1, <1>5, <1>7, HookFields DEF Owns
<1> QED BY <1>1, <1>4, <1>7, <1>8, <1>9 DEF StreamEffect, OnLastEvent

(* The stream of a turn that is not the current one is closed silently.     *)
LEMMA ClosedEffect ==
  ASSUME TypeOK, NEW id \in TurnIds, hook.inFlight # id, StreamOnly,
         hook.stream[id] \in {"asking", "open", "ended"},
         hook' = [hook EXCEPT !.stream[id] = "closed"]
  PROVE  StreamEffect(id)
<1>1. hook \in HookType
  BY TypeParts
<1>2. /\ hook' \in HookType /\ hook'.messages = hook.messages
      /\ hook'.isChatting = hook.isChatting
      /\ hook'.turnCounter = hook.turnCounter /\ hook'.cancelled = hook.cancelled
      /\ hook'.history = hook.history /\ hook'.inFlight = hook.inFlight
      /\ hook'.stream = [hook.stream EXCEPT ![id] = "closed"]
  BY <1>1 DEF HookType
<1>3. hook'.stream[id] = "closed" /\ \A other \in TurnIds \ {id} : hook'.stream[other] = hook.stream[other]
  BY <1>1, <1>2, HookFields
<1> QED BY <1>1, <1>2, <1>3 DEF StreamEffect

(* The stream of the current turn is closed, and its turn is complete.      *)
LEMMA FinalizedEffect ==
  ASSUME TypeOK, NEW id \in TurnIds, hook.inFlight = id, StreamOnly,
         hook.stream[id] \in {"asking", "open", "ended"}, NEW turns \in Seq(Turn),
         DOMAIN turns = DOMAIN hook.messages,
         \A i \in DOMAIN hook.messages :
           /\ turns[i].id = hook.messages[i].id
           /\ hook.messages[i].id # id => turns[i] = hook.messages[i]
           /\ hook.messages[i].id = id => turns[i].status # "CHUNK",
         hook' = [hook EXCEPT !.stream[id] = "closed", !.messages = turns,
                              !.isChatting = FALSE, !.inFlight = 0]
  PROVE  StreamEffect(id)
<1>1. hook \in HookType
  BY TypeParts
<1>2. /\ hook' \in HookType /\ hook'.messages = turns /\ hook'.isChatting = FALSE
      /\ hook'.turnCounter = hook.turnCounter /\ hook'.cancelled = hook.cancelled
      /\ hook'.history = hook.history /\ hook'.inFlight = 0
      /\ hook'.stream = [hook.stream EXCEPT ![id] = "closed"]
  BY <1>1 DEF HookType
<1>3. hook'.stream[id] = "closed" /\ \A other \in TurnIds \ {id} : hook'.stream[other] = hook.stream[other]
  BY <1>1, <1>2, HookFields
<1>4. /\ DOMAIN hook'.messages = DOMAIN hook.messages
      /\ \A i \in DOMAIN hook.messages :
           /\ hook'.messages[i].id = hook.messages[i].id
           /\ hook.messages[i].id # id => hook'.messages[i] = hook.messages[i]
           /\ hook.messages[i].id = id => hook'.messages[i].status # "CHUNK"
  BY <1>2
<1>5. hook.inFlight = id /\ ~hook'.isChatting /\ hook'.inFlight \in {0, id} /\ hook'.stream[id] # "open"
  BY <1>2, <1>3
<1> QED BY <1>2, <1>3, <1>4, <1>5 DEF StreamEffect

LEMMA OnCloseEffect ==
  ASSUME TypeOK, NEW id \in TurnIds, OnClose(id)
  PROVE  StreamEffect(id)
<1>1. hook \in HookType /\ hook.stream[id] \in {"asking", "open", "ended"} /\ StreamOnly
  BY TypeParts DEF OnClose
<1>2. CASE hook.inFlight # id
  BY <1>1, <1>2, ClosedEffect DEF OnClose, Owns
<1>3. CASE hook.inFlight = id
  <2> DEFINE end(i) == [hook.messages[i] EXCEPT !.status = "END"]
             f(i) == IF hook.messages[i].id = id /\ hook.messages[i].status = "CHUNK"
                     THEN end(i) ELSE hook.messages[i]
  <2>1. ASSUME NEW i \in DOMAIN hook.messages
        PROVE  /\ f(i) \in Turn /\ f(i).id = hook.messages[i].id
               /\ hook.messages[i].id # id => f(i) = hook.messages[i]
               /\ hook.messages[i].id = id => f(i).status # "CHUNK"
    <3>1. hook.messages[i] \in Turn
      BY <1>1, HookFields, TurnsAt
    <3>2. end(i) \in Turn /\ end(i).id = hook.messages[i].id /\ end(i).status = "END"
      BY <3>1 DEF Turn
    <3> HIDE DEF end
    <3> QED BY <3>1, <3>2
  <2>2. hook' = [hook EXCEPT !.stream[id] = "closed",
                             !.messages   = [i \in DOMAIN hook.messages |-> f(i)],
                             !.isChatting = FALSE, !.inFlight = 0]
    BY <1>3 DEF OnClose, Owns
  <2> HIDE DEF f
  <2>3. PICK turns : turns = [i \in DOMAIN hook.messages |-> f(i)]
    OBVIOUS
  <2>4. turns \in [DOMAIN hook.messages -> Turn] /\ \A i \in DOMAIN hook.messages : turns[i] = f(i)
    BY <2>1, <2>3
  <2>5. turns \in Seq(Turn) /\ DOMAIN turns = DOMAIN hook.messages
    BY <1>1, <2>4, HookFields, TurnsMapped
  <2>6. hook' = [hook EXCEPT !.stream[id] = "closed", !.messages = turns,
                             !.isChatting = FALSE, !.inFlight = 0]
    BY <2>2, <2>3
  <2> QED BY <1>1, <1>3, <2>1, <2>4, <2>5, <2>6, FinalizedEffect
<1> QED BY <1>2, <1>3

LEMMA OnFailureEffect ==
  ASSUME TypeOK, NEW id \in TurnIds, OnFailure(id)
  PROVE  StreamEffect(id)
<1>1. hook \in HookType /\ hook.stream[id] \in {"asking", "open", "ended"} /\ StreamOnly
  BY TypeParts DEF OnFailure
<1>2. CASE hook.inFlight # id
  BY <1>1, <1>2, ClosedEffect DEF OnFailure, Owns
<1>3. CASE hook.inFlight = id
  <2>1. PICK turns : turns = WithStatus(hook.messages, id, "ERROR")
    OBVIOUS
  <2>2. hook' = [hook EXCEPT !.stream[id] = "closed", !.messages = turns,
                             !.isChatting = FALSE, !.inFlight = 0]
    BY <1>3, <2>1 DEF OnFailure, Owns
  <2>3. /\ turns \in Seq(Turn) /\ DOMAIN turns = DOMAIN hook.messages
        /\ \A i \in DOMAIN hook.messages :
             /\ turns[i].id = hook.messages[i].id
             /\ hook.messages[i].id # id => turns[i] = hook.messages[i]
             /\ hook.messages[i].id = id => turns[i].status # "CHUNK"
    BY <1>1, <2>1, HookFields, WithStatusAt
  <2> QED BY <1>1, <1>3, <2>2, <2>3, FinalizedEffect
<1> QED BY <1>2, <1>3

LEMMA StreamStepEffect ==
  ASSUME TypeOK, NEW id \in TurnIds, StreamStep(id)
  PROVE  StreamEffect(id) /\ flushing = "no"
  BY OnResponseEffect, OnChunkEffect, OnLastEventEffect, OnCloseEffect, OnFailureEffect
     DEF StreamStep

-----------------------------------------------------------------------------
(* Types, and how many turns there are *)

LEMMA PageFields ==
  ASSUME TypeOK
  PROVE  /\ page.searchText \in Queries \cup {None} /\ page.pending \in Queries \cup {None}
         /\ page.lastQuery \in Queries \cup {None} /\ page \in PageType
         /\ shown.searchText \in Queries \cup {None} /\ shown.pending \in Queries \cup {None}
         /\ shown.messages \in Seq(Turn) /\ shown.isChatting \in BOOLEAN
         /\ ran.messages \in Seq(Turn) /\ ran.searchText \in Queries \cup {None}
  BY TypeParts DEF PageType, Shown

(* There is room for the turn of a question that may be asked.              *)
LEMMA NextId ==
  ASSUME TypeOK, CountInv
  PROVE  /\ asks < MaxAsks => hook.turnCounter + 1 \in TurnIds
         /\ ran # shown /\ FirstQuestion => hook.turnCounter + 1 \in TurnIds /\ page.pending # None
         /\ hook.turnCounter \in Nat /\ asks \in Nat /\ searches \in Nat
<1>1. hook.turnCounter \in Nat /\ MaxAsks \in Nat /\ MaxSearches \in Nat
  BY TypeParts, HookFields, CopilotAssumption
<1>2. asks \in 0..MaxAsks /\ searches \in 0..MaxSearches
      /\ hook.turnCounter + One(page.pending # None) <= asks + searches
  <2> DEFINE a == One(page.pending # None)
             b == One(shown.searchText # ran.searchText)
             c == One(page.searchText # shown.searchText)
  <2>1. a \in Nat /\ b \in Nat /\ c \in Nat
    BY DEF One
  <2>2. hook.turnCounter + a + b + c <= asks + searches
        /\ asks \in 0..MaxAsks /\ searches \in 0..MaxSearches
    BY DEF CountInv
  <2> HIDE DEF a, b, c
  <2>3. hook.turnCounter + a <= asks + searches
    BY <1>1, <2>1, <2>2
  <2> QED BY <2>2, <2>3 DEF a
<1>3. ASSUME asks < MaxAsks
      PROVE  hook.turnCounter + 1 \in TurnIds
  <2>1. One(page.pending # None) \in Nat
    BY DEF One
  <2> QED BY <1>1, <1>2, <1>3, <2>1 DEF TurnIds
<1>4. ASSUME ran # shown, FirstQuestion
      PROVE  hook.turnCounter + 1 \in TurnIds /\ page.pending # None
  <2>1. page.pending # None
    BY <1>4 DEF FirstQuestion, CountInv
  <2>2. One(page.pending # None) = 1
    BY <2>1 DEF One
  <2> QED BY <1>1, <1>2, <2>1, <2>2 DEF TurnIds
<1> QED BY <1>1, <1>2, <1>3, <1>4

(* The effects of a render, in the hook: a search resets it, then the first *)
(* question is sent.                                                        *)
LEMMA EffectsOfHook ==
  ASSUME TypeOK, CountInv, RunEffects
  PROVE  \E searched \in HookType :
           /\ searched = IF NewSearch THEN Reset(hook) ELSE hook
           /\ searched.turnCounter = hook.turnCounter
           /\ \/ /\ FirstQuestion /\ hook.turnCounter + 1 \in TurnIds
                 /\ hook' = Sent(searched, shown.messages)
              \/ ~FirstQuestion /\ hook' = searched
           /\ hook' \in HookType
<1>1. PICK searched : searched = IF NewSearch THEN Reset(hook) ELSE hook
  OBVIOUS
<1>2. searched \in HookType /\ searched.turnCounter = hook.turnCounter
  BY <1>1, TypeParts, ResetEffect
<1>3. ran # shown
      /\ \/ FirstQuestion /\ hook' = Sent(searched, shown.messages)
         \/ ~FirstQuestion /\ hook' = searched
  BY <1>1 DEF RunEffects
<1>4. FirstQuestion => hook.turnCounter + 1 \in TurnIds
  BY <1>3, NextId
<1>5. hook' \in HookType
  <2>1. CASE FirstQuestion
    <3>1. searched \in HookType /\ searched.turnCounter + 1 \in TurnIds
      BY <1>2, <1>4, <2>1
    <3>2. Sent(searched, shown.messages) \in HookType
      BY <3>1, PageFields, SentEffect
    <3> QED BY <1>3, <2>1, <3>2
  <2> QED BY <1>2, <1>3, <2>1
<1> QED BY <1>1, <1>2, <1>3, <1>4, <1>5

LEMMA EffectsOfPage ==
  ASSUME TypeOK, RunEffects
  PROVE  /\ page' \in PageType /\ page'.searchText = page.searchText
         /\ FirstQuestion => page'.pending = None
         /\ ~FirstQuestion /\ NewSearch => page'.pending = shown.searchText
         /\ ~FirstQuestion /\ ~NewSearch => page' = page
<1>1. PICK searched : searched = SearchedPage
  OBVIOUS
<1>2. /\ searched \in PageType /\ searched.searchText = page.searchText
      /\ NewSearch => searched.pending = shown.searchText
      /\ ~NewSearch => searched = page
  BY <1>1, PageFields DEF SearchedPage, PageType
<1>3. \/ FirstQuestion /\ page' = [searched EXCEPT !.pending = None]
      \/ ~FirstQuestion /\ page' = searched
  BY <1>1 DEF RunEffects
<1> QED BY <1>2, <1>3 DEF PageType

LEMMA AskStep ==
  ASSUME TypeOK, CountInv, Ask
  PROVE  TypeOK' /\ CountInv'
<1>1. /\ hook \in HookType /\ shown.messages \in Seq(Turn) /\ hook.turnCounter + 1 \in TurnIds
      /\ hook' = Sent(hook, shown.messages)
  BY TypeParts, PageFields, NextId DEF Ask
<1>2. hook' \in HookType /\ hook'.turnCounter = hook.turnCounter + 1
  BY <1>1, SentEffect
<1>3. TypeOK'
  BY <1>2, TypeParts, TypePartsNext DEF Ask
<1>4. CountInv'
  <2> DEFINE a == One(page.pending # None)
             b == One(shown.searchText # ran.searchText)
             c == One(page.searchText # shown.searchText)
  <2>1. a \in Nat /\ b \in Nat /\ c \in Nat /\ hook.turnCounter \in Nat /\ MaxAsks \in Nat
    BY NextId, CopilotAssumption DEF One
  <2>2. /\ hook.turnCounter + a + b + c <= asks + searches
        /\ asks \in 0..MaxAsks /\ searches \in 0..MaxSearches /\ MaxSearches \in Nat
        /\ asks' = asks + 1 /\ asks < MaxAsks /\ UNCHANGED <<page, shown, ran, searches>>
    BY CopilotAssumption DEF CountInv, Ask
  <2>3. a' = a /\ b' = b /\ c' = c
    BY <2>2
  <2> HIDE DEF a, b, c
  <2>4. hook'.turnCounter + a' + b' + c' <= asks' + searches' /\ asks' \in 0..MaxAsks
        /\ searches' \in 0..MaxSearches
    BY <1>2, <2>1, <2>2, <2>3
  <2> QED BY <2>2, <2>4 DEF CountInv, a, b, c
<1> QED BY <1>3, <1>4

(* Nothing is asked, and nothing is searched.                               *)
LEMMA CountFrame ==
  ASSUME CountInv, UNCHANGED <<page, shown, ran, asks, searches>>,
         hook'.turnCounter = hook.turnCounter
  PROVE  CountInv'
  BY DEF CountInv

LEMMA StopStep ==
  ASSUME TypeOK, CountInv, Stop \/ StartAgain
  PROVE  TypeOK' /\ CountInv'
<1>1. hook \in HookType /\ hook' \in {Cancelled(hook), Reset(hook)}
  BY TypeParts DEF Stop, StartAgain
<1>2. hook' \in HookType /\ hook'.turnCounter = hook.turnCounter
  BY <1>1, CancelledEffect, ResetEffect
<1>3. TypeOK'
  BY <1>2, TypeParts, TypePartsNext DEF Stop, StartAgain
<1>4. CountInv'
  BY <1>2, CountFrame DEF Stop, StartAgain
<1> QED BY <1>3, <1>4

LEMMA SearchStep ==
  ASSUME TypeOK, CountInv, Search
  PROVE  TypeOK' /\ CountInv'
<1>1. PICK query \in Queries \cup {None} : page' = [page EXCEPT !.searchText = query]
  BY DEF Search
<1>2. page' \in PageType /\ page'.pending = page.pending
  BY <1>1, PageFields DEF PageType
<1>3. TypeOK'
  BY <1>2, TypeParts, TypePartsNext DEF Search
<1>4. CountInv'
  <2> DEFINE a == One(page.pending # None)
             b == One(shown.searchText # ran.searchText)
             c == One(page.searchText # shown.searchText)
  <2>1. /\ a \in Nat /\ b \in Nat /\ c \in {0, 1} /\ c' \in {0, 1}
        /\ hook.turnCounter \in Nat /\ MaxSearches \in Nat
    BY NextId, CopilotAssumption DEF One
  <2>2. /\ hook.turnCounter + a + b + c <= asks + searches
        /\ asks \in 0..MaxAsks /\ searches \in 0..MaxSearches /\ MaxAsks \in Nat
        /\ searches' = searches + 1 /\ searches < MaxSearches /\ UNCHANGED <<hook, shown, ran, asks>>
        /\ (ran # shown => shown.pending = page.pending)
    BY CopilotAssumption DEF CountInv, Search
  <2>3. a' = a /\ b' = b
    BY <1>2, <2>2
  <2> HIDE DEF a, b, c
  <2>4. hook'.turnCounter + a' + b' + c' <= asks' + searches' /\ asks' \in 0..MaxAsks
        /\ searches' \in 0..MaxSearches
    BY <2>1, <2>2, <2>3
  <2> QED BY <1>2, <2>2, <2>4 DEF CountInv, a, b, c
<1> QED BY <1>3, <1>4

LEMMA RenderStep ==
  ASSUME TypeOK, CountInv, Render
  PROVE  TypeOK' /\ CountInv'
<1>1. /\ ran = shown /\ UNCHANGED <<host, hook, page, ran, fired, asks, searches>>
      /\ shown'.searchText = page.searchText /\ shown'.pending = page.pending
      /\ shown'.messages = hook.messages /\ shown'.isChatting = hook.isChatting
  BY DEF Render, Queued
<1>2. shown' \in Shown
  BY TypeParts, PageFields, HookFields DEF Render, Queued, Shown
<1>3. TypeOK'
  BY <1>1, <1>2, TypeParts, TypePartsNext DEF Render
<1>4. CountInv'
  <2> DEFINE a == One(page.pending # None)
             b == One(shown.searchText # ran.searchText)
             c == One(page.searchText # shown.searchText)
  <2>1. a \in Nat /\ c \in Nat /\ hook.turnCounter \in Nat
    BY NextId DEF One
  <2>2. /\ hook.turnCounter + a + b + c <= asks + searches
        /\ asks \in 0..MaxAsks /\ searches \in 0..MaxSearches
    BY DEF CountInv
  <2>3. a' = a /\ b = 0 /\ b' = c /\ c' = 0
    BY <1>1 DEF One
  <2> HIDE DEF a, b, c
  <2>4. hook'.turnCounter + a' + b' + c' <= asks' + searches'
    BY <1>1, <2>1, <2>2, <2>3
  <2> QED BY <1>1, <2>2, <2>4 DEF CountInv, a, b, c
<1> QED BY <1>3, <1>4

LEMMA EffectsStep ==
  ASSUME TypeOK, CountInv, RunEffects
  PROVE  TypeOK' /\ CountInv'
<1>1. PICK searched \in HookType :
        /\ searched.turnCounter = hook.turnCounter
        /\ \/ /\ FirstQuestion /\ hook.turnCounter + 1 \in TurnIds
              /\ hook' = Sent(searched, shown.messages)
           \/ ~FirstQuestion /\ hook' = searched
        /\ hook' \in HookType
  BY EffectsOfHook
<1>2. FirstQuestion => hook'.turnCounter = hook.turnCounter + 1
  <2>1. CASE FirstQuestion
    <3>1. searched.turnCounter + 1 \in TurnIds /\ hook' = Sent(searched, shown.messages)
      BY <1>1, <2>1
    <3>2. hook'.turnCounter = searched.turnCounter + 1
      BY <3>1, PageFields, SentEffect
    <3> QED BY <1>1, <3>2
  <2> QED BY <2>1
<1>3. ~FirstQuestion => hook'.turnCounter = hook.turnCounter
  BY <1>1
<1>4. /\ ran # shown /\ ran' = shown /\ UNCHANGED <<host, shown, asks, searches>>
      /\ fired' = fired \cup Notifications
  BY DEF RunEffects
<1>5. Notifications \subseteq {"res", "err"} \X TurnIds
  <2>1. shown.messages # <<>> => Len(shown.messages) \in DOMAIN shown.messages
    BY PageFields, TurnsAt
  <2> QED BY <2>1, PageFields, TurnsAt DEF Notifications
<1>6. TypeOK'
  BY <1>1, <1>4, <1>5, TypeParts, EffectsOfPage, TypePartsNext DEF RunEffects
<1>7. CountInv'
  <2> DEFINE a == One(page.pending # None)
             b == One(shown.searchText # ran.searchText)
             c == One(page.searchText # shown.searchText)
  <2>1. /\ a \in {0, 1} /\ a' \in {0, 1} /\ b \in {0, 1} /\ b' = 0 /\ c \in Nat /\ c' = c
        /\ hook.turnCounter \in Nat
    BY <1>4, NextId, EffectsOfPage DEF One
  <2>2. /\ hook.turnCounter + a + b + c <= asks + searches
        /\ asks \in 0..MaxAsks /\ searches \in 0..MaxSearches
        /\ MaxAsks \in Nat /\ MaxSearches \in Nat
    BY CopilotAssumption DEF CountInv
  <2>3. FirstQuestion => a = 1 /\ a' = 0
    BY <1>4, NextId, EffectsOfPage DEF One
  <2>4. ~FirstQuestion /\ NewSearch => b = 1
    BY DEF One, NewSearch
  <2>5. ~FirstQuestion /\ ~NewSearch => a' = a
    BY EffectsOfPage
  <2> HIDE DEF a, b, c
  <2>6. hook'.turnCounter + a' + b' + c' <= asks' + searches'
    BY <1>2, <1>3, <1>4, <2>1, <2>2, <2>3, <2>4, <2>5
  <2> QED BY <1>4, <2>2, <2>6 DEF CountInv, a, b, c
<1> QED BY <1>6, <1>7

LEMMA StreamTypeStep ==
  ASSUME TypeOK, CountInv, NEW id \in TurnIds, StreamStep(id)
  PROVE  TypeOK' /\ CountInv'
<1>1. StreamEffect(id)
  BY StreamStepEffect
<1>2. TypeOK'
  BY <1>1, TypeParts, TypePartsNext DEF StreamEffect, StreamOnly
<1>3. CountInv'
  BY <1>1, CountFrame DEF StreamEffect, StreamOnly
<1> QED BY <1>2, <1>3

LEMMA NextType == TypeOK /\ CountInv /\ [Next]_vars => TypeOK' /\ CountInv'
<1> SUFFICES ASSUME TypeOK, CountInv, [Next]_vars PROVE TypeOK' /\ CountInv'
  OBVIOUS
<1>1. CASE UNCHANGED vars
  BY <1>1, TypeParts, TypePartsNext, CountFrame DEF vars
<1> QED BY <1>1, AskStep, StopStep, SearchStep, RenderStep, EffectsStep, StreamTypeStep
        DEF Next, UserStep

LEMMA InitType == Init => TypeOK /\ CountInv
<1> SUFFICES ASSUME Init PROVE TypeOK /\ CountInv
  OBVIOUS
<1>1. <<>> \in Seq(Turn) /\ <<>> \in Seq(TurnIds)
  BY EmptySeq
<1>2. hook \in HookType
  BY <1>1 DEF Init, HookType
<1>3. page \in PageType /\ shown \in Shown
  BY <1>1 DEF Init, PageType, Shown
<1>4. TypeOK
  BY <1>2, <1>3, TypeParts DEF Init
<1>5. hook.turnCounter = 0 /\ page.pending = None /\ shown.searchText = ran.searchText
      /\ page.searchText = shown.searchText /\ ran = shown /\ asks = 0 /\ searches = 0
  BY DEF Init
<1>6. CountInv
  BY <1>5, CopilotAssumption DEF CountInv, One
<1> QED BY <1>4, <1>6

(* Every variable keeps its type; no turn is asked beyond the bounds.       *)
THEOREM Typing == Spec => []TypeOK
<1>1. Spec => [](TypeOK /\ CountInv)
  BY InitType, NextType, PTL DEF Spec
<1> QED BY <1>1, PTL

-----------------------------------------------------------------------------
(* The turns *)

LEMMA SentTurns ==
  ASSUME NEW k \in HookType, NEW seen \in Seq(Turn), k.turnCounter + 1 \in TurnIds, TurnsOK(k)
  PROVE  TurnsOK(Sent(k, seen)) /\ ChattingOK(Sent(k, seen))
<1> DEFINE id == k.turnCounter + 1
<1>1. PICK sent : sent = Sent(k, seen)
  OBVIOUS
<1>2. /\ sent \in HookType
      /\ sent.turnCounter = id /\ sent.inFlight = id /\ sent.isChatting = TRUE
      /\ sent.cancelled = k.cancelled
      /\ sent.messages = Append(k.messages, [id |-> id, status |-> "CHUNK", answer |-> 0])
      /\ sent.stream[id] = "asking"
      /\ \A other \in TurnIds \ {id} : sent.stream[other] = k.stream[other]
  BY <1>1, SentEffect
<1>3. PICK last : last = Len(k.messages) + 1
  OBVIOUS
<1>4. /\ DOMAIN sent.messages = DOMAIN k.messages \cup {last} /\ last \notin DOMAIN k.messages
      /\ \A i \in DOMAIN k.messages : sent.messages[i] = k.messages[i] /\ i < last
      /\ sent.messages[last] = [id |-> id, status |-> "CHUNK", answer |-> 0]
  BY <1>2, <1>3, HookFields, AskedTurn
<1>5. /\ id \in Nat /\ k.turnCounter \in Nat /\ last \in Nat
      /\ \A i \in DOMAIN k.messages : /\ i \in Nat /\ k.messages[i].id \in TurnIds
                                      /\ k.messages[i].id \in Nat
                                      /\ k.messages[i].id <= k.turnCounter
      /\ \A other \in k.cancelled : other \in Nat /\ other \in TurnIds /\ other <= k.turnCounter
  BY <1>3, HookFields, TurnsAt DEF TurnsOK
<1>6. sent.messages[last].id = id /\ sent.messages[last].status = "CHUNK"
  BY <1>4
<1>7. \A other \in Nat : other <= k.turnCounter => other # id /\ other < id /\ other <= id
  BY <1>5
<1>8. \A i, j \in DOMAIN sent.messages : i < j => sent.messages[i].id < sent.messages[j].id
  <2> SUFFICES ASSUME NEW i \in DOMAIN sent.messages, NEW j \in DOMAIN sent.messages, i < j
               PROVE  sent.messages[i].id < sent.messages[j].id
    OBVIOUS
  <2>1. i # last
    BY <1>4, <1>5
  <2> QED BY <1>4, <1>5, <1>6, <1>7, <2>1 DEF TurnsOK
<1>9. ASSUME NEW i \in DOMAIN sent.messages
      PROVE  /\ sent.messages[i].id <= sent.turnCounter
             /\ sent.messages[i].status # "CHUNK" =>
                  sent.stream[sent.messages[i].id] \in {"ended", "closed"}
  <2>1. CASE i = last
    BY <1>2, <1>5, <1>6, <2>1
  <2>2. CASE i # last
    <3>1. i \in DOMAIN k.messages /\ sent.messages[i] = k.messages[i]
      BY <1>4, <2>2
    <3>2. k.messages[i].id \in TurnIds \ {id} /\ k.messages[i].id <= id
      BY <1>5, <1>7, <3>1
    <3>3. sent.stream[k.messages[i].id] = k.stream[k.messages[i].id]
      BY <1>2, <3>2
    <3> QED BY <1>2, <3>1, <3>2, <3>3 DEF TurnsOK
  <2> QED BY <2>1, <2>2
<1>10. /\ sent.inFlight <= sent.turnCounter /\ sent.inFlight \notin sent.cancelled
       /\ \A other \in sent.cancelled : other <= sent.turnCounter /\ sent.stream[other] = "closed"
  BY <1>2, <1>5, <1>7 DEF TurnsOK
<1>11. TurnsOK(sent)
  BY <1>8, <1>9, <1>10 DEF TurnsOK
<1>12. ChattingOK(sent)
  BY <1>2, <1>4, <1>5, <1>6 DEF ChattingOK
<1> QED BY <1>1, <1>11, <1>12

LEMMA ResetTurns ==
  ASSUME NEW k \in HookType, TurnsOK(k)
  PROVE  TurnsOK(Reset(k)) /\ ChattingOK(Reset(k))
<1>1. PICK reset : reset = Reset(k)
  OBVIOUS
<1>2. /\ reset \in HookType
      /\ reset.turnCounter = k.turnCounter /\ reset.inFlight = 0
      /\ reset.isChatting = FALSE /\ reset.messages = <<>>
      /\ reset.cancelled = k.cancelled \cup ({k.inFlight} \ {0})
      /\ k.inFlight # 0 => reset.stream[k.inFlight] = "closed"
      /\ \A id \in TurnIds \ {k.inFlight} : reset.stream[id] = k.stream[id]
  BY <1>1, ResetEffect
<1>3. DOMAIN reset.messages = {}
  BY <1>2
<1>4. reset.inFlight <= reset.turnCounter /\ reset.inFlight \notin reset.cancelled
  BY <1>2, HookFields
<1>5. \A id \in reset.cancelled : id <= reset.turnCounter /\ reset.stream[id] = "closed"
  BY <1>2, HookFields DEF TurnsOK
<1>6. TurnsOK(reset)
  BY <1>3, <1>4, <1>5 DEF TurnsOK
<1> QED BY <1>1, <1>2, <1>6 DEF ChattingOK

LEMMA CancelledTurns ==
  ASSUME NEW k \in HookType, TurnsOK(k), ChattingOK(k)
  PROVE  TurnsOK(Cancelled(k)) /\ ChattingOK(Cancelled(k))
<1>1. PICK cut : cut = Cancelled(k)
  OBVIOUS
<1>2. CASE k.inFlight = 0
  BY <1>2 DEF Cancelled
<1>3. CASE k.inFlight # 0
  <2>1. /\ cut.turnCounter = k.turnCounter /\ cut.inFlight = 0 /\ cut.isChatting = FALSE
        /\ cut.cancelled = k.cancelled \cup {k.inFlight} /\ cut.stream[k.inFlight] = "closed"
        /\ \A id \in TurnIds \ {k.inFlight} : cut.stream[id] = k.stream[id]
        /\ DOMAIN cut.messages = DOMAIN k.messages
        /\ \A i \in DOMAIN k.messages :
             /\ cut.messages[i].id = k.messages[i].id
             /\ k.messages[i].id # k.inFlight => cut.messages[i] = k.messages[i]
    BY <1>1, <1>3, CancelledEffect
  <2>2. \A i \in DOMAIN cut.messages :
          /\ cut.messages[i].id <= cut.turnCounter
          /\ cut.messages[i].status # "CHUNK" =>
               cut.stream[cut.messages[i].id] \in {"ended", "closed"}
    <3>1. \A i \in DOMAIN k.messages : k.messages[i].id \in TurnIds
      BY HookFields, TurnsAt
    <3> QED BY <2>1, <3>1 DEF TurnsOK
  <2>3. /\ cut.inFlight <= cut.turnCounter /\ cut.inFlight \notin cut.cancelled
        /\ \A id \in cut.cancelled : id <= cut.turnCounter /\ cut.stream[id] = "closed"
    BY <1>3, <2>1, HookFields DEF TurnsOK
  <2>4. TurnsOK(cut)
    BY <2>1, <2>2, <2>3 DEF TurnsOK
  <2> QED BY <1>1, <2>1, <2>4 DEF ChattingOK
<1> QED BY <1>2, <1>3

LEMMA StreamTurns ==
  ASSUME TypeOK, TurnInv, NEW id \in TurnIds, StreamEffect(id)
  PROVE  TurnInv'
<1> USE DEF StreamEffect
<1>1. /\ hook \in HookType /\ hook' \in HookType
      /\ \A i \in DOMAIN hook.messages : hook.messages[i].id \in TurnIds
      /\ 0 \notin TurnIds
  BY TypeParts, HookFields, TurnsAt
<1>2. \A i, j \in DOMAIN hook'.messages : i < j => hook'.messages[i].id < hook'.messages[j].id
  BY DEF TurnInv, TurnsOK
<1>3. ASSUME NEW i \in DOMAIN hook'.messages
      PROVE  /\ hook'.messages[i].id <= hook'.turnCounter
             /\ hook'.messages[i].status # "CHUNK" =>
                  hook'.stream[hook'.messages[i].id] \in {"ended", "closed"}
  <2>1. /\ hook'.messages[i].id = hook.messages[i].id /\ hook.messages[i].id \in TurnIds
        /\ hook.messages[i].id <= hook.turnCounter
        /\ hook.messages[i].status # "CHUNK" =>
             hook.stream[hook.messages[i].id] \in {"ended", "closed"}
    BY <1>1 DEF TurnInv, TurnsOK
  <2>2. CASE hook.messages[i].id = id
    BY <2>1, <2>2
  <2>3. CASE hook.messages[i].id # id
    BY <2>1, <2>3
  <2> QED BY <2>2, <2>3
<1>4. /\ hook'.inFlight <= hook'.turnCounter /\ hook'.inFlight \notin hook'.cancelled
  BY <1>1, HookFields DEF TurnInv, TurnsOK
<1>5. \A other \in hook'.cancelled : other <= hook'.turnCounter /\ hook'.stream[other] = "closed"
  <2>1. \A other \in hook.cancelled : /\ other \in TurnIds /\ other <= hook.turnCounter
                                      /\ hook.stream[other] = "closed"
    BY <1>1, HookFields DEF TurnInv, TurnsOK
  <2>2. \A other \in hook.cancelled : other # id /\ hook'.stream[other] = hook.stream[other]
    BY <2>1
  <2> QED BY <2>1, <2>2
<1>6. TurnsOK(hook')
  BY <1>2, <1>3, <1>4, <1>5 DEF TurnsOK
<1>7. ChattingOK(hook')
  <2> SUFFICES ASSUME hook'.isChatting
               PROVE  /\ hook'.inFlight # 0 /\ hook'.stream[hook'.inFlight] \in {"asking", "open"}
                      /\ \E i \in DOMAIN hook'.messages : /\ hook'.messages[i].id = hook'.inFlight
                                                          /\ hook'.messages[i].status = "CHUNK"
    BY DEF ChattingOK
  <2>1. /\ hook'.inFlight = hook.inFlight /\ hook.isChatting
        /\ hook.inFlight = id => hook'.stream[id] = "open"
    OBVIOUS
  <2>2. PICK i \in DOMAIN hook.messages : /\ hook.messages[i].id = hook.inFlight
                                          /\ hook.messages[i].status = "CHUNK"
    BY <2>1 DEF TurnInv, ChattingOK
  <2>3. hook'.messages[i].status = "CHUNK"
    BY <2>1, <2>2
  <2>4. hook.inFlight # 0 /\ hook.stream[hook.inFlight] \in {"asking", "open"} /\ hook.inFlight \in TurnIds
    BY <1>1, <2>1, HookFields DEF TurnInv, ChattingOK
  <2> QED BY <2>1, <2>2, <2>3, <2>4
<1> QED BY <1>6, <1>7 DEF TurnInv

LEMMA EffectsTurns ==
  ASSUME TypeOK, CountInv, TurnInv, RunEffects
  PROVE  TurnInv'
<1>1. PICK searched \in HookType :
        /\ searched = IF NewSearch THEN Reset(hook) ELSE hook
        /\ searched.turnCounter = hook.turnCounter
        /\ \/ /\ FirstQuestion /\ hook.turnCounter + 1 \in TurnIds
              /\ hook' = Sent(searched, shown.messages)
           \/ ~FirstQuestion /\ hook' = searched
  BY EffectsOfHook
<1>2. TurnsOK(searched) /\ ChattingOK(searched)
  BY <1>1, TypeParts, ResetTurns DEF TurnInv
<1>3. CASE hook' = searched
  BY <1>2, <1>3 DEF TurnInv
<1>4. CASE hook.turnCounter + 1 \in TurnIds /\ hook' = Sent(searched, shown.messages)
  <2>1. searched.turnCounter + 1 \in TurnIds
    BY <1>1, <1>4
  <2>2. TurnsOK(Sent(searched, shown.messages)) /\ ChattingOK(Sent(searched, shown.messages))
    BY <1>2, <2>1, PageFields, SentTurns
  <2> QED BY <1>4, <2>2 DEF TurnInv
<1> QED BY <1>1, <1>3, <1>4

LEMMA InitTurns == Init => TurnInv
<1> SUFFICES ASSUME Init PROVE TurnInv
  OBVIOUS
<1>1. /\ DOMAIN hook.messages = {} /\ hook.cancelled = {} /\ hook.isChatting = FALSE
      /\ hook.inFlight = 0 /\ hook.turnCounter = 0
  BY DEF Init
<1> QED BY <1>1 DEF TurnInv, TurnsOK, ChattingOK

LEMMA NextTurns == TypeOK /\ CountInv /\ TurnInv /\ [Next]_vars => TurnInv'
<1> SUFFICES ASSUME TypeOK, CountInv, TurnInv, [Next]_vars PROVE TurnInv'
  OBVIOUS
<1>0. hook \in HookType
  BY TypeParts
<1>1. CASE UNCHANGED hook
  BY <1>1 DEF TurnInv
<1>2. CASE Ask
  <2>1. hook.turnCounter + 1 \in TurnIds /\ hook' = Sent(hook, shown.messages)
    BY <1>2, NextId DEF Ask
  <2>2. TurnsOK(Sent(hook, shown.messages)) /\ ChattingOK(Sent(hook, shown.messages))
    BY <1>0, <2>1, PageFields, SentTurns DEF TurnInv
  <2> QED BY <2>1, <2>2 DEF TurnInv
<1>3. CASE Stop
  <2>1. TurnsOK(Cancelled(hook)) /\ ChattingOK(Cancelled(hook))
    BY <1>0, CancelledTurns DEF TurnInv
  <2> QED BY <1>3, <2>1 DEF TurnInv, Stop
<1>4. CASE StartAgain
  <2>1. TurnsOK(Reset(hook)) /\ ChattingOK(Reset(hook))
    BY <1>0, ResetTurns DEF TurnInv
  <2> QED BY <1>4, <2>1 DEF TurnInv, StartAgain
<1>5. CASE Search \/ Render \/ UNCHANGED vars
  BY <1>1, <1>5 DEF Search, Render, vars
<1> QED BY <1>2, <1>3, <1>4, <1>5, EffectsTurns, StreamTurns, StreamStepEffect DEF Next, UserStep

LEMMA AlwaysTurns == Spec => [](TypeOK /\ CountInv /\ TurnInv)
  BY InitType, NextType, InitTurns, NextTurns, PTL DEF Spec

(* While the chat is busy there is a stream to stop, and its turn is still  *)
(* being answered.                                                          *)
THEOREM Chatting == Spec => []ChattingIsInFlight
<1>1. TurnInv => ChattingIsInFlight
  BY DEF TurnInv, ChattingOK, ChattingIsInFlight, Answering
<1> QED BY <1>1, AlwaysTurns, PTL

-----------------------------------------------------------------------------
(* A stopped turn *)

Keeps(k, new) ==
  \A i \in DOMAIN k.messages :
    k.messages[i].id \in k.cancelled =>
      \A j \in DOMAIN new.messages :
        new.messages[j].id = k.messages[i].id => new.messages[j] = k.messages[i]

(* A turn is found by its id.                                               *)
LEMMA TurnById ==
  ASSUME NEW k \in HookType, TurnsOK(k), NEW i \in DOMAIN k.messages, NEW j \in DOMAIN k.messages,
         k.messages[i].id = k.messages[j].id
  PROVE  i = j
<1>1. i \in Nat /\ j \in Nat /\ k.messages[i].id \in Nat /\ k.messages[j].id \in Nat
  BY HookFields, TurnsAt
<1>2. ~(i < j) /\ ~(j < i)
  BY <1>1 DEF TurnsOK
<1> QED BY <1>1, <1>2

(* A conversation that goes on from k, or from none, with one more turn.    *)
LEMMA SentKeeps ==
  ASSUME NEW k \in HookType, TurnsOK(k), NEW from \in HookType, NEW seen \in Seq(Turn),
         from.messages = k.messages \/ from.messages = <<>>, from.turnCounter = k.turnCounter,
         from.turnCounter + 1 \in TurnIds
  PROVE  Keeps(k, Sent(from, seen))
<1>1. PICK sent, id : sent = Sent(from, seen) /\ id = from.turnCounter + 1
  OBVIOUS
<1>2. /\ sent.messages = Append(from.messages, [id |-> id, status |-> "CHUNK", answer |-> 0])
  BY <1>1, SentEffect
<1>3. \A j \in DOMAIN sent.messages :
        \/ j \in DOMAIN from.messages /\ sent.messages[j] = from.messages[j]
        \/ sent.messages[j].id = id
  BY <1>1, <1>2, HookFields, AskedTurn
<1>4. \A i \in DOMAIN k.messages : k.messages[i].id # id
  <2>1. \A i \in DOMAIN k.messages : k.messages[i].id <= k.turnCounter /\ k.messages[i].id \in Nat
    BY HookFields, TurnsAt DEF TurnsOK
  <2>2. k.turnCounter \in Nat /\ id = k.turnCounter + 1
    BY <1>1, HookFields
  <2> QED BY <2>1, <2>2
<1>5. ASSUME NEW i \in DOMAIN k.messages, NEW j \in DOMAIN sent.messages,
             sent.messages[j].id = k.messages[i].id
      PROVE  sent.messages[j] = k.messages[i]
  <2>1. j \in DOMAIN from.messages /\ sent.messages[j] = from.messages[j]
    BY <1>3, <1>4, <1>5
  <2>2. from.messages = k.messages
    BY <2>1
  <2> QED BY <1>5, <2>1, <2>2, TurnById
<1> QED BY <1>1, <1>5 DEF Keeps

LEMMA NextKeeps == TypeOK /\ CountInv /\ TurnInv /\ [Next]_vars => Keeps(hook, hook')
<1> SUFFICES ASSUME TypeOK, CountInv, TurnInv, [Next]_vars PROVE Keeps(hook, hook')
  OBVIOUS
<1>0. hook \in HookType /\ TurnsOK(hook)
  BY TypeParts DEF TurnInv
<1>1. ASSUME NEW new, new.messages = hook.messages
      PROVE  Keeps(hook, new)
  BY <1>0, <1>1, TurnById DEF Keeps
<1>2. ASSUME NEW new, new.messages = <<>>
      PROVE  Keeps(hook, new)
  BY <1>2 DEF Keeps
<1>3. CASE Ask
  <2>1. hook.turnCounter + 1 \in TurnIds /\ hook' = Sent(hook, shown.messages)
    BY <1>3, NextId DEF Ask
  <2> QED BY <1>0, <2>1, PageFields, SentKeeps
<1>4. CASE Stop
  <2>1. /\ DOMAIN hook'.messages = DOMAIN hook.messages
        /\ \A i \in DOMAIN hook.messages :
             /\ hook'.messages[i].id = hook.messages[i].id
             /\ hook.messages[i].id # hook.inFlight => hook'.messages[i] = hook.messages[i]
    <3>1. PICK cut : cut = Cancelled(hook)
      OBVIOUS
    <3>2. /\ DOMAIN cut.messages = DOMAIN hook.messages
          /\ \A i \in DOMAIN hook.messages :
               /\ cut.messages[i].id = hook.messages[i].id
               /\ hook.messages[i].id # hook.inFlight => cut.messages[i] = hook.messages[i]
      BY <1>0, <3>1, CancelledEffect
    <3>3. hook' = cut
      BY <1>4, <3>1 DEF Stop
    <3> QED BY <3>2, <3>3
  <2>2. hook.inFlight \notin hook.cancelled
    BY <1>0 DEF TurnsOK
  <2> QED BY <1>0, <2>1, <2>2, TurnById DEF Keeps
<1>5. CASE StartAgain
  BY <1>0, <1>2, <1>5, ResetEffect DEF StartAgain
<1>6. CASE Search \/ Render \/ UNCHANGED vars
  BY <1>1, <1>6 DEF Search, Render, vars
<1>7. CASE RunEffects
  <2>1. PICK searched \in HookType :
          /\ searched = IF NewSearch THEN Reset(hook) ELSE hook
          /\ searched.turnCounter = hook.turnCounter
          /\ \/ /\ FirstQuestion /\ hook.turnCounter + 1 \in TurnIds
                /\ hook' = Sent(searched, shown.messages)
             \/ ~FirstQuestion /\ hook' = searched
    BY <1>7, EffectsOfHook
  <2>2. searched.messages = hook.messages \/ searched.messages = <<>>
    BY <1>0, <2>1, ResetEffect
  <2>3. CASE hook' = searched
    BY <1>1, <1>2, <2>2, <2>3
  <2>4. CASE hook.turnCounter + 1 \in TurnIds /\ hook' = Sent(searched, shown.messages)
    <3>1. searched.turnCounter + 1 \in TurnIds
      BY <2>1, <2>4
    <3> QED BY <1>0, <2>1, <2>2, <2>4, <3>1, PageFields, SentKeeps
  <2> QED BY <2>1, <2>3, <2>4
<1>8. ASSUME NEW id \in TurnIds, StreamStep(id)
      PROVE  Keeps(hook, hook')
  <2>1. /\ hook.stream[id] # "closed" /\ DOMAIN hook'.messages = DOMAIN hook.messages
        /\ \A i \in DOMAIN hook.messages :
             /\ hook'.messages[i].id = hook.messages[i].id
             /\ hook.messages[i].id # id => hook'.messages[i] = hook.messages[i]
    BY <1>8, StreamStepEffect DEF StreamEffect
  <2>2. id \notin hook.cancelled
    BY <1>0, <2>1 DEF TurnsOK
  <2> QED BY <1>0, <2>1, <2>2, TurnById DEF Keeps
<1> QED BY <1>3, <1>4, <1>5, <1>6, <1>7, <1>8 DEF Next, UserStep

(* A turn that was stopped keeps the answer it had.                         *)
THEOREM Stopped == Spec => StoppedIsKept
<1>1. TypeOK /\ CountInv /\ TurnInv /\ [Next]_vars =>
        [\A i \in DOMAIN hook.messages :
           hook.messages[i].id \in hook.cancelled =>
             \A j \in DOMAIN hook'.messages :
               hook'.messages[j].id = hook.messages[i].id =>
                 hook'.messages[j] = hook.messages[i]]_vars
  BY NextKeeps DEF Keeps
<1> QED BY <1>1, AlwaysTurns, PTL DEF Spec, StoppedIsKept

-----------------------------------------------------------------------------
(* The turns that are being answered, and what is shown *)

(* A later question did not see the turn.                                   *)
Unseen(k, i) ==
  \E j \in DOMAIN k.messages :
    /\ i < j
    /\ \A n \in DOMAIN k.history[k.messages[j].id] :
         k.history[k.messages[j].id][n] # k.messages[i].id

AnswersOK(k) ==
  \A i \in DOMAIN k.messages :
    k.messages[i].status = "CHUNK" =>
      \/ k.isChatting /\ k.inFlight = k.messages[i].id
      \/ host = "page" /\ Unseen(k, i)

LEMMA AnsweringParts ==
  ASSUME TypeOK
  PROVE  AnswersOK(hook) <=> AnsweringIsCurrent
<1>1. \A i, j : i \in DOMAIN hook.messages =>
        (j \in DOMAIN hook.messages /\ i < j <=> j \in (i + 1)..Len(hook.messages))
  BY TypeParts, HookFields, TurnsAt
<1>2. ASSUME NEW i \in DOMAIN hook.messages
      PROVE  Unseen(hook, i) <=>
               \E j \in (i + 1)..Len(hook.messages) :
                 \A n \in DOMAIN hook.history[hook.messages[j].id] :
                   hook.history[hook.messages[j].id][n] # hook.messages[i].id
  BY <1>1 DEF Unseen
<1> QED BY <1>2 DEF AnswersOK, AnsweringIsCurrent

LEMMA SentAnswers ==
  ASSUME NEW k \in HookType, NEW seen \in Seq(Turn), k.turnCounter + 1 \in TurnIds,
         TurnsOK(k), AnswersOK(k), UNCHANGED host,
         k.isChatting => host = "page" /\ \A i \in DOMAIN seen : seen[i].id # k.inFlight
  PROVE  AnswersOK(Sent(k, seen))
<1>1. PICK sent, id : sent = Sent(k, seen) /\ id = k.turnCounter + 1
  OBVIOUS
<1>2. /\ sent.inFlight = id /\ sent.isChatting = TRUE
      /\ sent.messages = Append(k.messages, [id |-> id, status |-> "CHUNK", answer |-> 0])
      /\ sent.history[id] = Ids(seen)
      /\ \A other \in TurnIds \ {id} : sent.history[other] = k.history[other]
  BY <1>1, SentEffect
<1>3. PICK last : last = Len(k.messages) + 1
  OBVIOUS
<1>4. /\ DOMAIN sent.messages = DOMAIN k.messages \cup {last}
      /\ \A i \in DOMAIN k.messages : sent.messages[i] = k.messages[i] /\ i < last
      /\ sent.messages[last].id = id
  BY <1>1, <1>2, <1>3, HookFields, AskedTurn
<1>5. \A j \in DOMAIN k.messages : sent.history[k.messages[j].id] = k.history[k.messages[j].id]
  <2>1. \A i \in DOMAIN k.messages : k.messages[i].id <= k.turnCounter /\ k.messages[i].id \in Nat
                                     /\ k.messages[i].id \in TurnIds
    BY HookFields, TurnsAt DEF TurnsOK
  <2>2. k.turnCounter \in Nat
    BY HookFields
  <2>3. \A i \in DOMAIN k.messages : k.messages[i].id # id
    BY <1>1, <2>1, <2>2
  <2> QED BY <1>2, <2>1, <2>3
<1>6. ASSUME NEW i \in DOMAIN sent.messages, sent.messages[i].status = "CHUNK"
      PROVE  \/ sent.isChatting /\ sent.inFlight = sent.messages[i].id
             \/ host = "page" /\ Unseen(sent, i)
  <2>1. CASE i = last
    BY <1>2, <1>4, <2>1
  <2>2. CASE i # last
    <3>1. i \in DOMAIN k.messages /\ sent.messages[i] = k.messages[i] /\ i < last
          /\ last \in DOMAIN sent.messages
      BY <1>4, <2>2
    <3>2. CASE k.isChatting /\ k.inFlight = k.messages[i].id
      <4>1. host = "page" /\ \A n \in DOMAIN Ids(seen) : Ids(seen)[n] # k.messages[i].id
        BY <3>2, IdsAt
      <4> QED BY <1>2, <1>4, <3>1, <4>1 DEF Unseen
    <3>3. CASE host = "page" /\ Unseen(k, i)
      <4>1. PICK j \in DOMAIN k.messages :
              /\ i < j
              /\ \A n \in DOMAIN k.history[k.messages[j].id] :
                   k.history[k.messages[j].id][n] # k.messages[i].id
        BY <3>3 DEF Unseen
      <4>2. /\ j \in DOMAIN sent.messages /\ sent.messages[j] = k.messages[j]
            /\ sent.history[k.messages[j].id] = k.history[k.messages[j].id]
        BY <1>4, <1>5
      <4> QED BY <3>1, <3>3, <4>1, <4>2 DEF Unseen
    <3> QED BY <1>6, <3>1, <3>2, <3>3 DEF AnswersOK
  <2> QED BY <2>1, <2>2
<1> QED BY <1>1, <1>6 DEF AnswersOK

LEMMA StreamAnswers ==
  ASSUME TypeOK, TurnInv, AnswersOK(hook), NEW id \in TurnIds, StreamEffect(id)
  PROVE  AnswersOK(hook)'
<1> SUFFICES ASSUME NEW i \in DOMAIN hook.messages, hook'.messages[i].status = "CHUNK"
             PROVE  \/ hook'.isChatting /\ hook'.inFlight = hook'.messages[i].id
                    \/ host = "page" /\ Unseen(hook, i)'
  BY DEF AnswersOK, StreamEffect, StreamOnly
<1>1. hook'.messages[i].id = hook.messages[i].id
  BY DEF StreamEffect
<1>2. hook.messages[i].status = "CHUNK"
  BY DEF StreamEffect, TurnInv, TurnsOK
<1>3. CASE hook.isChatting /\ hook.inFlight = hook.messages[i].id
  BY <1>1, <1>3 DEF StreamEffect
<1>4. CASE host = "page" /\ Unseen(hook, i)
  BY <1>4 DEF StreamEffect, Unseen
<1> QED BY <1>2, <1>3, <1>4 DEF AnswersOK

(* A question may be sent from what is shown: the turn that is being        *)
(* answered, if any, is not there, and the host is the page.                *)
LEMMA AskedUnseen ==
  ASSUME TypeOK, ShownInv, ~shown.isChatting, flushing = "no" \/ host = "page"
  PROVE  hook.isChatting => /\ host = "page"
                            /\ \A i \in DOMAIN shown.messages : shown.messages[i].id # hook.inFlight
  BY TypeParts DEF ShownInv

LEMMA NextAnswers ==
  TypeOK /\ CountInv /\ TurnInv /\ ShownInv /\ AnswersOK(hook) /\ [Next]_vars => AnswersOK(hook)'
<1> SUFFICES ASSUME TypeOK, CountInv, TurnInv, ShownInv, AnswersOK(hook), [Next]_vars
             PROVE  AnswersOK(hook)'
  OBVIOUS
<1>0. hook \in HookType /\ TurnsOK(hook) /\ UNCHANGED host
  BY TypeParts
     DEF TurnInv, Next, UserStep, Ask, Stop, StartAgain, Search, Render, RunEffects, StreamStep,
         OnResponse, OnChunk, OnLastEvent, OnClose, OnFailure, StreamOnly, vars
<1>1. ASSUME UNCHANGED hook
      PROVE  AnswersOK(hook)'
  BY <1>0, <1>1 DEF AnswersOK, Unseen
<1>2. ASSUME NEW new, hook' = new, AnswersOK(new)
      PROVE  AnswersOK(hook)'
  BY <1>0, <1>2 DEF AnswersOK, Unseen
<1>3. CASE UserStep /\ Ask
  <2>1. /\ hook.turnCounter + 1 \in TurnIds /\ hook' = Sent(hook, shown.messages)
        /\ ~shown.isChatting /\ flushing = "no"
    BY <1>3, NextId DEF Ask, UserStep
  <2>2. AnswersOK(Sent(hook, shown.messages))
    BY <1>0, <2>1, PageFields, AskedUnseen, SentAnswers
  <2> QED BY <1>2, <2>1, <2>2
<1>4. CASE Stop
  <2>1. CASE hook.inFlight = 0
    BY <1>1, <1>4, <2>1 DEF Stop, Cancelled
  <2>2. CASE hook.inFlight # 0
    <3>1. PICK cut : cut = Cancelled(hook)
      OBVIOUS
    <3>2. /\ DOMAIN cut.messages = DOMAIN hook.messages
          /\ \A i \in DOMAIN hook.messages :
               /\ hook.messages[i].id # hook.inFlight => cut.messages[i] = hook.messages[i]
               /\ hook.messages[i].id = hook.inFlight => cut.messages[i].status = "END"
      BY <1>0, <3>1, CancelledEffect
    <3>3. host = "panel" /\ hook' = cut
      BY <1>4, <3>1 DEF Stop
    <3>4. \A i \in DOMAIN cut.messages : cut.messages[i].status # "CHUNK"
      BY <3>2, <3>3 DEF AnswersOK
    <3> QED BY <1>2, <3>3, <3>4 DEF AnswersOK
  <2> QED BY <2>1, <2>2
<1>5. CASE StartAgain
  <2>1. hook'.messages = <<>>
    BY <1>0, <1>5, ResetEffect DEF StartAgain
  <2> QED BY <2>1 DEF AnswersOK
<1>6. CASE Search \/ Render \/ UNCHANGED vars
  BY <1>1, <1>6 DEF Search, Render, vars
<1>7. CASE RunEffects
  <2>1. PICK searched \in HookType :
          /\ searched = IF NewSearch THEN Reset(hook) ELSE hook
          /\ searched.turnCounter = hook.turnCounter
          /\ \/ /\ FirstQuestion /\ hook.turnCounter + 1 \in TurnIds
                /\ hook' = Sent(searched, shown.messages)
             \/ ~FirstQuestion /\ hook' = searched
    BY <1>7, EffectsOfHook
  <2>2. \/ searched = hook
        \/ searched.messages = <<>> /\ searched.isChatting = FALSE
    BY <1>0, <2>1, ResetEffect
  <2>3. AnswersOK(searched) /\ TurnsOK(searched)
    BY <1>0, <2>1, <2>2, ResetTurns DEF AnswersOK
  <2>4. CASE hook' = searched
    BY <1>2, <2>3, <2>4
  <2>5. CASE /\ FirstQuestion /\ hook.turnCounter + 1 \in TurnIds
             /\ hook' = Sent(searched, shown.messages)
    <3>1. /\ searched.turnCounter + 1 \in TurnIds
          /\ searched.isChatting => /\ host = "page"
                                    /\ \A i \in DOMAIN shown.messages :
                                         shown.messages[i].id # searched.inFlight
      BY <2>1, <2>2, <2>5 DEF FirstQuestion
    <3>2. AnswersOK(Sent(searched, shown.messages))
      BY <1>0, <2>1, <2>3, <3>1, PageFields, SentAnswers
    <3> QED BY <1>2, <2>5, <3>2
  <2> QED BY <2>1, <2>4, <2>5
<1>8. ASSUME NEW id \in TurnIds, StreamStep(id)
      PROVE  AnswersOK(hook)'
  BY <1>8, StreamStepEffect, StreamAnswers
<1> QED BY <1>3, <1>4, <1>5, <1>6, <1>7, <1>8 DEF Next, UserStep

(* What a message about an answer leaves as it is.                          *)
LEMMA StreamFrame ==
  ASSUME NEW id \in TurnIds, StreamEffect(id)
  PROVE  /\ UNCHANGED <<host, page, shown, ran, flushing, fired, asks, searches>>
         /\ hook'.turnCounter = hook.turnCounter /\ hook'.history = hook.history
         /\ Ids(hook'.messages) = Ids(hook.messages)
         /\ hook'.isChatting = TRUE => hook.isChatting = TRUE /\ hook'.inFlight = hook.inFlight
<1>1. hook'.isChatting \in BOOLEAN
  BY HookFields DEF StreamEffect
<1> QED BY <1>1 DEF StreamEffect, StreamOnly, Ids

(* In the panel the effects change nothing in the hook.                     *)
LEMMA PanelEffects ==
  ASSUME TypeOK, CountInv, ShownInv, RunEffects, host = "panel"
  PROVE  hook' = hook /\ page' = page
<1>1. ~FirstQuestion /\ ~NewSearch
  BY DEF FirstQuestion, NewSearch, ShownInv
<1> QED BY <1>1, EffectsOfPage DEF RunEffects

(* The page's part.                                                         *)
LEMMA ShownFrame ==
  ASSUME TypeOK, ShownInv, host' = "page", shown' = shown,
         hook'.turnCounter \in Nat, hook'.turnCounter >= hook.turnCounter,
         \/ hook'.isChatting = hook.isChatting /\ hook'.inFlight = hook.inFlight
         \/ ~hook'.isChatting
         \/ hook'.inFlight = hook.turnCounter + 1
  PROVE  ShownInv'
<1>1. hook.turnCounter \in Nat
      /\ \A i \in DOMAIN shown.messages : shown.messages[i].id \in Nat
  BY TypeParts, HookFields, PageFields, TurnsAt
<1>2. \A i \in DOMAIN shown'.messages : shown'.messages[i].id <= hook'.turnCounter
  BY <1>1 DEF ShownInv
<1>3. \A i \in DOMAIN shown.messages : shown.messages[i].id # hook.turnCounter + 1
  BY <1>1 DEF ShownInv
<1>4. hook'.isChatting /\ ~shown'.isChatting =>
        \A i \in DOMAIN shown'.messages : shown'.messages[i].id # hook'.inFlight
  BY <1>3 DEF ShownInv
<1> QED BY <1>2, <1>4 DEF ShownInv

LEMMA AskShown ==
  ASSUME TypeOK, CountInv, ShownInv, Ask
  PROVE  ShownInv'
<1>1. hook.turnCounter + 1 \in TurnIds /\ hook' = Sent(hook, shown.messages)
      /\ UNCHANGED <<host, page, shown, ran>> /\ flushing' = "due"
  BY NextId DEF Ask
<1>2. hook'.turnCounter = hook.turnCounter + 1 /\ hook'.inFlight = hook.turnCounter + 1
  BY <1>1, TypeParts, PageFields, SentEffect
<1>3. hook.turnCounter \in Nat
      /\ \A i \in DOMAIN shown.messages : /\ shown.messages[i].id \in Nat
                                          /\ shown.messages[i].id <= hook.turnCounter
  BY TypeParts, HookFields, PageFields, TurnsAt DEF ShownInv
<1>4. \A i \in DOMAIN shown'.messages : /\ shown'.messages[i].id <= hook'.turnCounter
                                        /\ shown'.messages[i].id # hook'.inFlight
  BY <1>1, <1>2, <1>3
<1> QED BY <1>1, <1>4 DEF ShownInv

LEMMA StopShown ==
  ASSUME TypeOK, ShownInv, Stop \/ StartAgain
  PROVE  ShownInv'
<1>1. hook \in HookType /\ UNCHANGED <<host, page, shown, ran>> /\ flushing' = "due"
      /\ (hook' = Cancelled(hook) \/ hook' = Reset(hook))
  BY TypeParts DEF Stop, StartAgain
<1>2. hook'.turnCounter = hook.turnCounter /\ (hook' = hook \/ hook'.isChatting = FALSE)
  <2>1. CASE hook' = Reset(hook)
    BY <1>1, <2>1, ResetEffect
  <2>2. CASE hook' = Cancelled(hook)
    <3>1. PICK cut : cut = Cancelled(hook)
      OBVIOUS
    <3>2. cut.turnCounter = hook.turnCounter /\ (cut = hook \/ cut.isChatting = FALSE)
      BY <1>1, <3>1, CancelledEffect
    <3> QED BY <2>2, <3>1, <3>2
  <2> QED BY <1>1, <2>1, <2>2
<1> QED BY <1>1, <1>2 DEF ShownInv

LEMMA RenderShown ==
  ASSUME TypeOK, TurnInv, ShownInv, AnswersOK(hook), Render
  PROVE  ShownInv'
<1>1. /\ ran = shown /\ UNCHANGED <<host, hook, page, ran, fired, asks, searches>>
      /\ shown'.searchText = page.searchText
      /\ shown'.messages = hook.messages /\ shown'.isChatting = hook.isChatting
  BY DEF Render, Queued
<1>2. \A i \in DOMAIN shown'.messages : shown'.messages[i].id <= hook'.turnCounter
  BY <1>1 DEF TurnInv, TurnsOK
<1>3. host = "panel" => \A i \in DOMAIN hook.messages :
                          hook.messages[i].status = "CHUNK" => hook.isChatting
  BY DEF AnswersOK
<1> QED BY <1>1, <1>2, <1>3 DEF ShownInv

LEMMA EffectsShown ==
  ASSUME TypeOK, CountInv, ShownInv, RunEffects
  PROVE  ShownInv'
<1>1. CASE host = "panel"
  <2>1. hook' = hook /\ page' = page /\ ran' = shown /\ UNCHANGED <<host, shown>>
    BY <1>1, PanelEffects DEF RunEffects
  <2>2. flushing' # "due" => flushing # "due"
    BY DEF RunEffects
  <2> QED BY <2>1, <2>2 DEF ShownInv
<1>2. CASE host = "page"
  <2>1. PICK searched \in HookType :
          /\ searched = IF NewSearch THEN Reset(hook) ELSE hook
          /\ searched.turnCounter = hook.turnCounter
          /\ \/ /\ FirstQuestion /\ hook.turnCounter + 1 \in TurnIds
                /\ hook' = Sent(searched, shown.messages)
             \/ ~FirstQuestion /\ hook' = searched
    BY EffectsOfHook
  <2>2. searched = hook \/ searched.isChatting = FALSE
    BY <2>1, TypeParts, ResetEffect
  <2>3. host' = "page" /\ shown' = shown /\ hook.turnCounter \in Nat
    BY <1>2, TypeParts, HookFields DEF RunEffects
  <2>4. CASE hook' = searched
    BY <2>1, <2>2, <2>3, <2>4, ShownFrame
  <2>5. CASE hook.turnCounter + 1 \in TurnIds /\ hook' = Sent(searched, shown.messages)
    <3>1. searched.turnCounter + 1 \in TurnIds
      BY <2>1, <2>5
    <3>2. hook'.turnCounter = searched.turnCounter + 1 /\ hook'.inFlight = searched.turnCounter + 1
      BY <2>5, <3>1, PageFields, SentEffect
    <3> QED BY <2>1, <2>3, <3>2, ShownFrame
  <2> QED BY <2>1, <2>4, <2>5
<1> QED BY <1>1, <1>2, TypeParts

LEMMA NextShown ==
  TypeOK /\ CountInv /\ TurnInv /\ ShownInv /\ AnswersOK(hook) /\ [Next]_vars => ShownInv'
<1> SUFFICES ASSUME TypeOK, CountInv, TurnInv, ShownInv, AnswersOK(hook), [Next]_vars
             PROVE  ShownInv'
  OBVIOUS
<1>1. CASE Search
  BY <1>1 DEF Search, ShownInv
<1>2. ASSUME NEW id \in TurnIds, StreamStep(id)
      PROVE  ShownInv'
  <2>1. /\ UNCHANGED <<host, page, shown, ran, flushing>>
        /\ hook'.turnCounter = hook.turnCounter
        /\ Ids(hook'.messages) = Ids(hook.messages)
        /\ hook'.isChatting = TRUE => hook.isChatting = TRUE /\ hook'.inFlight = hook.inFlight
    <3>1. StreamEffect(id)
      BY <1>2, StreamStepEffect
    <3> QED BY <3>1, StreamFrame
  <2>2. hook' \in HookType
    BY <1>2, StreamStepEffect DEF StreamEffect
  <2>3. hook'.isChatting \in BOOLEAN
    BY <2>2, HookFields
  <2> QED BY <2>1, <2>3 DEF ShownInv
<1>3. CASE UNCHANGED vars
  BY <1>3 DEF vars, ShownInv
<1> QED BY <1>1, <1>2, <1>3, AskShown, StopShown, RenderShown, EffectsShown DEF Next, UserStep

LEMMA InitShown == Init => ShownInv /\ AnswersOK(hook)
<1> SUFFICES ASSUME Init PROVE ShownInv /\ AnswersOK(hook)
  OBVIOUS
<1>1. /\ hook.messages = <<>> /\ shown.messages = <<>> /\ hook.isChatting = FALSE
      /\ page.searchText = None /\ shown.searchText = None /\ ran = shown
  BY DEF Init
<1> QED BY <1>1 DEF ShownInv, AnswersOK

LEMMA AlwaysShown == Spec => [](TypeOK /\ CountInv /\ TurnInv /\ ShownInv /\ AnswersOK(hook))
  BY InitType, NextType, InitTurns, NextTurns, InitShown, NextShown, NextAnswers, PTL DEF Spec

(* A turn that is being answered is the current one, and the chat is busy   *)
(* with it; on the page, it may also be one that a later question did not   *)
(* see.                                                                     *)
THEOREM AnsweringCurrent == Spec => []AnsweringIsCurrent
<1>1. TypeOK /\ AnswersOK(hook) => AnsweringIsCurrent
  BY AnsweringParts
<1> QED BY <1>1, AlwaysShown, PTL

-----------------------------------------------------------------------------
(* The history of a question *)

(* The ids of the turns before one.                                         *)
Before(k, i) == [n \in 1..(i - 1) |-> k.messages[n].id]

HistoryOK(k) ==
  \A i \in DOMAIN k.messages : k.history[k.messages[i].id] = Before(k, i)

LEMMA BeforeIds ==
  ASSUME NEW k \in HookType
  PROVE  \A i \in DOMAIN k.messages : Ids(SubSeq(k.messages, 1, i - 1)) = Before(k, i)
<1> DEFINE q == k.messages
<1>1. q \in Seq(Turn) /\ Len(q) \in Nat /\ DOMAIN q = 1..Len(q)
  BY HookFields, TurnsAt
<1> HIDE DEF q
<1>2. ASSUME NEW i \in DOMAIN q
      PROVE  Ids(SubSeq(q, 1, i - 1)) = [n \in 1..(i - 1) |-> q[n].id]
  <2>1. i \in Nat /\ i - 1 \in 0..Len(q) /\ 1 \in 1..(Len(q) + 1)
    BY <1>1
  <2>2. SubSeq(q, 1, i - 1) = [n \in 1..(i - 1) |-> q[n]]
    BY <1>1, <2>1
  <2> QED BY <2>2 DEF Ids
<1> QED BY <1>2 DEF Before, q

(* The new turn comes after all those that were seen.                       *)
LEMMA SentHistory ==
  ASSUME NEW k \in HookType, NEW seen \in Seq(Turn), k.turnCounter + 1 \in TurnIds,
         TurnsOK(k), HistoryOK(k), Ids(seen) = Ids(k.messages)
  PROVE  HistoryOK(Sent(k, seen))
<1>1. PICK sent, id : sent = Sent(k, seen) /\ id = k.turnCounter + 1
  OBVIOUS
<1>2. /\ sent.messages = Append(k.messages, [id |-> id, status |-> "CHUNK", answer |-> 0])
      /\ sent.history[id] = Ids(seen)
      /\ \A other \in TurnIds \ {id} : sent.history[other] = k.history[other]
  BY <1>1, SentEffect
<1>3. PICK last : last = Len(k.messages) + 1
  OBVIOUS
<1>4. /\ DOMAIN sent.messages = DOMAIN k.messages \cup {last}
      /\ \A i \in DOMAIN k.messages : sent.messages[i] = k.messages[i] /\ i < last
      /\ sent.messages[last].id = id
  BY <1>1, <1>2, <1>3, HookFields, AskedTurn
<1>5. /\ DOMAIN k.messages = 1..(last - 1) /\ last \in Nat
      /\ \A i \in DOMAIN k.messages : i \in Nat /\ 1..(i - 1) \subseteq DOMAIN k.messages
  BY <1>3, HookFields, TurnsAt
<1>6. \A j \in DOMAIN k.messages : sent.history[k.messages[j].id] = k.history[k.messages[j].id]
  <2>1. \A i \in DOMAIN k.messages : k.messages[i].id <= k.turnCounter /\ k.messages[i].id \in Nat
                                     /\ k.messages[i].id \in TurnIds
    BY HookFields, TurnsAt DEF TurnsOK
  <2>2. k.turnCounter \in Nat
    BY HookFields
  <2>3. \A i \in DOMAIN k.messages : k.messages[i].id # id
    BY <1>1, <2>1, <2>2
  <2> QED BY <1>2, <2>1, <2>3
<1>7. \A i \in DOMAIN k.messages : Before(sent, i) = Before(k, i)
  BY <1>4, <1>5 DEF Before
<1>8. Before(sent, last) = Ids(k.messages)
  BY <1>4, <1>5 DEF Before, Ids
<1>9. ASSUME NEW i \in DOMAIN sent.messages
      PROVE  sent.history[sent.messages[i].id] = Before(sent, i)
  <2>1. CASE i = last
    BY <1>2, <1>4, <1>8, <2>1
  <2>2. CASE i # last
    BY <1>4, <1>6, <1>7, <2>2 DEF HistoryOK
  <2> QED BY <2>1, <2>2
<1> QED BY <1>1, <1>9 DEF HistoryOK

(* The turns are the same, in some of their states.                         *)
LEMMA HistoryFrame ==
  ASSUME NEW k \in HookType, NEW new, HistoryOK(k), new.history = k.history,
         DOMAIN new.messages = DOMAIN k.messages,
         \A i \in DOMAIN k.messages : new.messages[i].id = k.messages[i].id
  PROVE  HistoryOK(new)
<1>1. \A i \in DOMAIN k.messages : 1..(i - 1) \subseteq DOMAIN k.messages
  BY HookFields, TurnsAt
<1>2. \A i \in DOMAIN k.messages : Before(new, i) = Before(k, i)
  BY <1>1 DEF Before
<1> QED BY <1>2 DEF HistoryOK

PanelHistory == host = "panel" => HistoryOK(hook)

LEMMA NextHistory ==
  TypeOK /\ CountInv /\ TurnInv /\ ShownInv /\ PanelHistory /\ [Next]_vars => PanelHistory'
<1> SUFFICES ASSUME TypeOK, CountInv, TurnInv, ShownInv, PanelHistory, [Next]_vars, host' = "panel"
             PROVE  HistoryOK(hook)'
  BY DEF PanelHistory
<1>0. hook \in HookType /\ TurnsOK(hook) /\ host = "panel" /\ HistoryOK(hook)
  BY TypeParts
     DEF TurnInv, Next, UserStep, Ask, Stop, StartAgain, Search, Render, RunEffects, StreamStep,
         OnResponse, OnChunk, OnLastEvent, OnClose, OnFailure, StreamOnly, vars, PanelHistory
<1>1. ASSUME NEW new, hook' = new, HistoryOK(new)
      PROVE  HistoryOK(hook)'
  BY <1>1 DEF HistoryOK, Before
<1>2. CASE UserStep /\ Ask
  <2>1. /\ hook.turnCounter + 1 \in TurnIds /\ hook' = Sent(hook, shown.messages)
        /\ Ids(hook.messages) = Ids(shown.messages)
    BY <1>0, <1>2, NextId DEF Ask, UserStep, ShownInv
  <2>2. HistoryOK(Sent(hook, shown.messages))
    BY <1>0, <2>1, PageFields, SentHistory
  <2> QED BY <1>1, <2>1, <2>2
<1>3. CASE Stop
  <2>1. PICK cut : cut = Cancelled(hook)
    OBVIOUS
  <2>2. /\ cut.history = hook.history /\ DOMAIN cut.messages = DOMAIN hook.messages
        /\ \A i \in DOMAIN hook.messages : cut.messages[i].id = hook.messages[i].id
    BY <1>0, <2>1, CancelledEffect
  <2>3. hook' = cut /\ HistoryOK(cut)
    BY <1>0, <1>3, <2>1, <2>2, HistoryFrame DEF Stop
  <2> QED BY <1>1, <2>3
<1>4. CASE StartAgain
  <2>1. hook'.messages = <<>>
    BY <1>0, <1>4, ResetEffect DEF StartAgain
  <2> QED BY <2>1 DEF HistoryOK
<1>5. CASE Search \/ Render \/ UNCHANGED vars
  BY <1>0, <1>1, <1>5 DEF Search, Render, vars
<1>6. CASE RunEffects
  BY <1>0, <1>1, <1>6, PanelEffects
<1>7. ASSUME NEW id \in TurnIds, StreamStep(id)
      PROVE  HistoryOK(hook)'
  <2>1. PICK new : hook' = new
    OBVIOUS
  <2>2. /\ new.history = hook.history /\ DOMAIN new.messages = DOMAIN hook.messages
        /\ \A i \in DOMAIN hook.messages : new.messages[i].id = hook.messages[i].id
    BY <1>7, <2>1, StreamStepEffect DEF StreamEffect
  <2>3. HistoryOK(new)
    BY <1>0, <2>2, HistoryFrame
  <2> QED BY <1>1, <2>1, <2>3
<1> QED BY <1>2, <1>3, <1>4, <1>5, <1>6, <1>7 DEF Next, UserStep

LEMMA InitHistory == Init => PanelHistory
<1> SUFFICES ASSUME Init PROVE PanelHistory
  OBVIOUS
<1>1. hook.messages = <<>>
  BY DEF Init
<1> QED BY <1>1 DEF PanelHistory, HistoryOK

(* In the panel a question is sent with the conversation before it.         *)
THEOREM History == Spec => []HistoryIsConversation
<1>1. TypeOK /\ PanelHistory => HistoryIsConversation
  <2> SUFFICES ASSUME TypeOK, PanelHistory, host = "panel", NEW i \in DOMAIN hook.messages
               PROVE  hook.history[hook.messages[i].id] = Ids(SubSeq(hook.messages, 1, i - 1))
    BY DEF HistoryIsConversation
  <2> QED BY TypeParts, BeforeIds DEF PanelHistory, HistoryOK
<1>2. Spec => []PanelHistory
  BY AlwaysShown, InitHistory, NextHistory, PTL DEF Spec
<1> QED BY <1>1, <1>2, AlwaysShown, PTL

-----------------------------------------------------------------------------
(* The ends that are notified *)

LastComplete(state) ==
  state.messages # <<>> /\ state.messages[Len(state.messages)].status # "CHUNK"

LastId(state) == state.messages[Len(state.messages)].id

LEMMA NotifiedParts ==
  NotifiedInv <=>
    (host = "panel" =>
       /\ LastComplete(ran) => Notified(LastId(ran))
       /\ \A i, j \in DOMAIN hook.messages : i < j =>
            \/ Notified(hook.messages[i].id)
            \/ ran # shown /\ LastComplete(shown) /\ LastId(shown) = hook.messages[i].id)
  BY DEF NotifiedInv, LastComplete, LastId

(* The effects notify of the last turn that is shown.                       *)
LEMMA LastNotified ==
  ASSUME TypeOK, host = "panel", RunEffects
  PROVE  /\ LastComplete(shown) => Notified(LastId(shown))'
         /\ \A id : Notified(id) => Notified(id)'
<1>1. fired' = fired \cup Notifications
  BY DEF RunEffects
<1>2. ASSUME LastComplete(shown)
      PROVE  \E kind \in {"res", "err"} : <<kind, LastId(shown)>> \in Notifications
  <2>1. Len(shown.messages) \in DOMAIN shown.messages
    BY <1>2, PageFields, TurnsAt DEF LastComplete
  <2>2. shown.messages[Len(shown.messages)].status \in {"END", "ERROR"}
    BY <1>2, <2>1, PageFields, TurnsAt DEF LastComplete
  <2>3. CASE shown.messages[Len(shown.messages)].status = "END"
    BY <1>2, <2>3 DEF LastComplete, LastId, Notifications
  <2>4. CASE shown.messages[Len(shown.messages)].status = "ERROR"
    BY <1>2, <2>4 DEF LastComplete, LastId, Notifications
  <2> QED BY <2>2, <2>3, <2>4
<1>3. LastComplete(shown) => \E kind \in {"res", "err"} : <<kind, LastId(shown)>> \in fired'
  BY <1>1, <1>2
<1>4. shown' = shown
  BY DEF RunEffects
<1>5. LastId(shown)' = LastId(shown)
  BY <1>4 DEF LastId
<1> QED BY <1>1, <1>3, <1>5 DEF Notified

(* The turns are the same, in some of their states; nothing is shown.       *)
LEMMA NotifiedFrame ==
  ASSUME NotifiedInv, UNCHANGED <<host, ran, shown, fired>>,
         DOMAIN hook'.messages = DOMAIN hook.messages,
         \A i \in DOMAIN hook.messages : hook'.messages[i].id = hook.messages[i].id
  PROVE  NotifiedInv'
  BY DEF NotifiedInv, Notified

LEMMA AskNotified ==
  ASSUME TypeOK, CountInv, TurnInv, ShownInv, NotifiedInv, flushing = "no", Ask
  PROVE  NotifiedInv'
<1> SUFFICES ASSUME host = "panel" PROVE NotifiedInv'
  BY DEF Ask, NotifiedInv
<1>1. /\ hook.turnCounter + 1 \in TurnIds /\ hook' = Sent(hook, shown.messages)
      /\ UNCHANGED <<host, ran, shown, fired>> /\ ~shown.isChatting
  BY NextId DEF Ask
<1>2. hook'.messages =
        Append(hook.messages, [id |-> hook.turnCounter + 1, status |-> "CHUNK", answer |-> 0])
  BY <1>1, TypeParts, PageFields, SentEffect
<1>3. PICK last : last = Len(hook.messages)
  OBVIOUS
<1>4. /\ DOMAIN hook'.messages = DOMAIN hook.messages \cup {last + 1}
      /\ \A i \in DOMAIN hook.messages : hook'.messages[i] = hook.messages[i]
      /\ last \in Nat /\ DOMAIN hook.messages = 1..last
  BY <1>1, <1>2, <1>3, TypeParts, HookFields, TurnsAt, AskedTurn
<1>5. Ids(hook.messages) = Ids(shown.messages)
  BY DEF ShownInv
<1>6. ASSUME last # 0
      PROVE  /\ LastComplete(shown) /\ LastId(shown) = hook.messages[last].id
  <2>1. DOMAIN Ids(hook.messages) = 1..last /\ DOMAIN Ids(shown.messages) = 1..Len(shown.messages)
        /\ Len(shown.messages) \in Nat
    BY <1>4, PageFields, TypeParts, HookFields, TurnsAt, IdsAt
  <2>2. Len(shown.messages) = last
    BY <1>4, <1>5, <2>1
  <2>3. last \in DOMAIN shown.messages /\ last \in DOMAIN hook.messages
    BY <1>4, <1>6, <2>1, <2>2, PageFields, TurnsAt
  <2>4. shown.messages[last].id = hook.messages[last].id
    BY <1>5, <2>3 DEF Ids
  <2>5. shown.messages[last].status # "CHUNK"
    BY <1>1, <2>3 DEF ShownInv
  <2> QED BY <1>6, <2>2, <2>4, <2>5, PageFields, TurnsAt DEF LastComplete, LastId
<1>7. ASSUME NEW i \in DOMAIN hook'.messages, NEW j \in DOMAIN hook'.messages, i < j
      PROVE  \/ Notified(hook'.messages[i].id)
             \/ ran # shown /\ LastComplete(shown) /\ LastId(shown) = hook'.messages[i].id
  <2>1. i \in DOMAIN hook.messages /\ hook'.messages[i] = hook.messages[i] /\ last \in DOMAIN hook.messages
        /\ (i = last \/ i < last)
    BY <1>4, <1>7
  <2>2. CASE i < last
    BY <2>1, <2>2, NotifiedParts
  <2>3. CASE i = last
    <3>1. LastComplete(shown) /\ LastId(shown) = hook.messages[last].id
      BY <1>4, <1>6, <2>1
    <3>2. ran = shown => Notified(LastId(shown))
      BY <3>1, NotifiedParts
    <3> QED BY <2>1, <2>3, <3>1, <3>2
  <2> QED BY <2>1, <2>2, <2>3
<1>8. LastComplete(ran) => Notified(LastId(ran))
  BY NotifiedParts
<1> QED BY <1>1, <1>7, <1>8 DEF NotifiedInv, Notified, LastComplete, LastId

LEMMA NextNotified ==
  TypeOK /\ CountInv /\ TurnInv /\ ShownInv /\ NotifiedInv /\ [Next]_vars => NotifiedInv'
<1> SUFFICES ASSUME TypeOK, CountInv, TurnInv, ShownInv, NotifiedInv, [Next]_vars
             PROVE  NotifiedInv'
  OBVIOUS
<1>0. hook \in HookType
  BY TypeParts
<1>1. CASE Search \/ UNCHANGED vars
  BY <1>1, NotifiedFrame DEF Search, vars
<1>2. CASE Stop
  <2>1. PICK cut : cut = Cancelled(hook)
    OBVIOUS
  <2>2. /\ DOMAIN cut.messages = DOMAIN hook.messages
        /\ \A i \in DOMAIN hook.messages : cut.messages[i].id = hook.messages[i].id
    BY <1>0, <2>1, CancelledEffect
  <2>3. hook' = cut /\ UNCHANGED <<host, ran, shown, fired>>
    BY <1>2, <2>1 DEF Stop
  <2> QED BY <2>2, <2>3, NotifiedFrame
<1>3. CASE StartAgain
  <2>1. hook'.messages = <<>> /\ UNCHANGED <<host, ran, shown, fired>>
    BY <1>0, <1>3, ResetEffect DEF StartAgain
  <2> QED BY <2>1 DEF NotifiedInv, Notified
<1>4. CASE Render
  <2>1. ran = shown /\ UNCHANGED <<host, hook, ran, fired>>
    BY <1>4 DEF Render
  <2> QED BY <2>1 DEF NotifiedInv, Notified
<1>5. CASE RunEffects
  <2> SUFFICES ASSUME host = "panel" PROVE NotifiedInv'
    BY <1>5 DEF RunEffects, NotifiedInv
  <2>1. hook' = hook /\ ran' = shown /\ shown' = shown /\ host' = host
    BY <1>5, PanelEffects DEF RunEffects
  <2>2. /\ LastComplete(shown) => Notified(LastId(shown))'
        /\ \A id : Notified(id) => Notified(id)'
    BY <1>5, LastNotified
  <2>3. ASSUME NEW i \in DOMAIN hook.messages, NEW j \in DOMAIN hook.messages, i < j
        PROVE  Notified(hook.messages[i].id)'
    <3>1. CASE Notified(hook.messages[i].id)
      <4>1. hook.messages[i].id = hook'.messages[i].id
        BY <2>1
      <4> QED BY <2>2, <3>1, <4>1 DEF Notified
    <3>2. CASE LastComplete(shown) /\ LastId(shown) = hook.messages[i].id
      BY <2>1, <2>2, <3>2 DEF Notified, LastId
    <3> QED BY <2>3, <3>1, <3>2, NotifiedParts
  <2>4. LastComplete(ran)' => Notified(LastId(ran))'
    BY <2>1, <2>2 DEF LastComplete, LastId, Notified
  <2> QED BY <2>1, <2>3, <2>4 DEF NotifiedInv, LastComplete, LastId
<1>6. ASSUME NEW id \in TurnIds, StreamStep(id)
      PROVE  NotifiedInv'
  BY <1>6, StreamStepEffect, NotifiedFrame DEF StreamEffect, StreamOnly
<1> QED BY <1>1, <1>2, <1>3, <1>4, <1>5, <1>6, AskNotified DEF Next, UserStep

LEMMA InitNotified == Init => NotifiedInv
<1> SUFFICES ASSUME Init PROVE NotifiedInv
  OBVIOUS
<1>1. hook.messages = <<>> /\ ran.messages = <<>>
  BY DEF Init
<1> QED BY <1>1 DEF NotifiedInv

(* Once everything is rendered, the panel's host has been told of the end   *)
(* of each turn of the conversation.                                        *)
THEOREM EndNotified == Spec => []EndIsNotified
<1>1. TypeOK /\ NotifiedInv => EndIsNotified
  <2> SUFFICES ASSUME TypeOK, NotifiedInv, host = "panel", shown = Queued, ran = shown,
                      NEW i \in DOMAIN hook.messages, hook.messages[i].status # "CHUNK"
               PROVE  Notified(hook.messages[i].id)
    BY DEF EndIsNotified, Notified
  <2>1. ran.messages = hook.messages
    BY DEF Queued
  <2>2. DOMAIN hook.messages = 1..Len(hook.messages) /\ Len(hook.messages) \in Nat
        /\ (hook.messages = <<>> <=> Len(hook.messages) = 0)
    BY TypeParts, HookFields, TurnsAt
  <2>3. CASE i < Len(hook.messages)
    <3>1. Len(hook.messages) \in DOMAIN hook.messages
      BY <2>2
    <3> QED BY <2>3, <3>1 DEF NotifiedInv
  <2>4. CASE i = Len(hook.messages)
    BY <2>1, <2>2, <2>4 DEF NotifiedInv
  <2> QED BY <2>2, <2>3, <2>4
<1>2. Spec => []NotifiedInv
  BY AlwaysShown, InitNotified, NextNotified, PTL DEF Spec
<1> QED BY <1>1, <1>2, AlwaysShown, PTL
=============================================================================
