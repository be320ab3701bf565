---------------------------- MODULE CopilotChat ----------------------------
(***************************************************************************)
(* The chat with the assistant in the search frontend: the hook that sends *)
(* a question, reads the stream of its answer and can stop it, in its two  *)
(* hosts: the Copilot panel, and the page that asks the first question by  *)
(* itself after each search.                                               *)
(*                                                                         *)
(* React queues the updates of the state and renders them later; a handler *)
(* and an effect read the state of the render they come from, the updates  *)
(* and the refs are read as they are now.  A click renders at once what it *)
(* queued.  One action is one event of a stream, one click, one search,    *)
(* one render, or the effects of one render.  The stream that is aborted   *)
(* delivers nothing more: its next read is rejected.                       *)
(***************************************************************************)
EXTENDS Naturals, Sequences

CONSTANTS
  Queries,       \* what can be searched
  None,          \* no search
  MaxAsks,       \* bound: questions the user asks
  MaxSearches,   \* bound: changes of the search
  MaxChunks      \* bound: chunks of an answer

ASSUME CopilotAssumption ==
  /\ None \notin Queries
  /\ MaxAsks \in Nat /\ MaxSearches \in Nat /\ MaxChunks \in Nat

VARIABLES
  host,      \* "panel" (Copilot) or "page" (K9Copilot)
  hook,      \* the hook: its state with the queued updates, and its refs
  page,      \* the page: its state with the queued updates, and its ref
  shown,     \* the state the last render showed
  ran,       \* the state shown when the effects last ran
  flushing,  \* a click is being rendered: "no", "due", "rendered"
  fired,     \* firedRef: the turns the host was notified of
  asks, searches

vars == <<host, hook, page, shown, ran, flushing, fired, asks, searches>>

-----------------------------------------------------------------------------
TurnIds == 1..(MaxAsks + MaxSearches)

Turn == [id : TurnIds, status : {"CHUNK", "END", "ERROR"}, answer : 0..MaxChunks]

Shown == [messages : Seq(Turn), isChatting : BOOLEAN,
          searchText : Queries \cup {None}, pending : Queries \cup {None}]

TypeOK ==
  /\ host \in {"panel", "page"}
  /\ hook \in [messages    : Seq(Turn),
               isChatting  : BOOLEAN,
               inFlight    : TurnIds \cup {0},
               cancelled   : SUBSET TurnIds,
               turnCounter : TurnIds \cup {0},
               stream      : [TurnIds -> {"none", "asking", "open", "ended", "closed"}],
               history     : [TurnIds -> Seq(TurnIds)]]
  /\ page \in [searchText : Queries \cup {None}, pending : Queries \cup {None},
               lastQuery  : Queries \cup {None}]
  /\ shown \in Shown /\ ran \in Shown
  /\ flushing \in {"no", "due", "rendered"}
  /\ fired \subseteq {"res", "err"} \X TurnIds

Init ==
  /\ host \in {"panel", "page"}
  /\ hook = [messages |-> <<>>, isChatting |-> FALSE, inFlight |-> 0,
             cancelled |-> {}, turnCounter |-> 0,
             stream |-> [id \in TurnIds |-> "none"],
             history |-> [id \in TurnIds |-> <<>>]]
  /\ page = [searchText |-> None, pending |-> None, lastQuery |-> None]
  /\ shown = [messages |-> <<>>, isChatting |-> FALSE,
              searchText |-> None, pending |-> None]
  /\ ran = shown
  /\ flushing = "no" /\ fired = {}
  /\ asks = 0 /\ searches = 0

-----------------------------------------------------------------------------
(* The hook *)

Ids(messages) == [i \in DOMAIN messages |-> messages[i].id]

(* Turns are found by their id: a turn that is gone is not updated. *)
WithStatus(messages, id, status) ==
  [i \in DOMAIN messages |->
     IF messages[i].id = id THEN [messages[i] EXCEPT !.status = status]
     ELSE messages[i]]

(* A mutant: the new turn is in its own history. *)
SentWithItself(k, seen) ==
  LET id == k.turnCounter + 1
  IN  [k EXCEPT !.turnCounter = id,
                !.messages    = Append(@, [id |-> id, status |-> "CHUNK", answer |-> 0]),
                !.isChatting  = TRUE,
                !.inFlight    = id,
                !.stream[id]  = "asking",
                !.history[id] = Append(Ids(seen), id)]

(* The hook k after send, from a render that showed the messages seen. *)
Sent(k, seen) ==
  LET id == k.turnCounter + 1
  IN  [k EXCEPT !.turnCounter = id,
                !.messages    = Append(@, [id |-> id, status |-> "CHUNK", answer |-> 0]),
                !.isChatting  = TRUE,
                !.inFlight    = id,
                !.stream[id]  = "asking",
                !.history[id] = Ids(seen)]

(* A mutant: the stream that is forgotten goes on. *)
Forgotten(k) ==
  IF k.inFlight = 0 THEN k
  ELSE [k EXCEPT !.inFlight = 0, !.cancelled = @ \cup {k.inFlight}]

Aborted(k) ==
  IF k.inFlight = 0 THEN k
  ELSE [k EXCEPT !.inFlight = 0,
                 !.cancelled = @ \cup {k.inFlight},
                 !.stream[k.inFlight] = "closed"]

(* A mutant: the turn is given a status that turns do not have. *)
CancelledAsStopped(k) ==
  IF k.inFlight = 0 THEN k
  ELSE [Aborted(k) EXCEPT !.messages = WithStatus(@, k.inFlight, "STOPPED"),
                          !.isChatting = FALSE]

Cancelled(k) ==
  IF k.inFlight = 0 THEN k
  ELSE [Aborted(k) EXCEPT !.messages = WithStatus(@, k.inFlight, "END"),
                          !.isChatting = FALSE]

(* A mutant: the reset leaves isChatting to the stream it aborted. *)
ResetStillChatting(k) == [Aborted(k) EXCEPT !.messages = <<>>]

Reset(k) == [Aborted(k) EXCEPT !.messages = <<>>, !.isChatting = FALSE]

(* The events of a stream *)

Owns(id) == hook.inFlight = id

StreamOnly == UNCHANGED <<host, page, shown, ran, flushing, fired, asks, searches>>

OnResponse(id) ==
  /\ hook.stream[id] = "asking"
  /\ hook' = [hook EXCEPT !.stream[id] = "open"]
  /\ StreamOnly

OnChunk(id) ==
  /\ hook.stream[id] = "open"
  /\ \E i \in DOMAIN hook.messages :
       /\ hook.messages[i].id = id /\ hook.messages[i].answer < MaxChunks
       /\ hook' = [hook EXCEPT !.messages[i].answer = @ + 1,
                               !.messages[i].status = "CHUNK"]
  /\ StreamOnly

(* The answer ends with END, GUARDRAIL (and END) or ERROR, and the stream   *)
(* is still to be closed.                                                   *)
OnLastEvent(id) ==
  /\ hook.stream[id] = "open"
  /\ \E status \in {"END", "ERROR"} :
       hook' = [hook EXCEPT !.stream[id]  = "ended",
                            !.messages    = WithStatus(@, id, status),
                            !.isChatting  = @ /\ ~Owns(id)]
  /\ StreamOnly

(* A mutant: only the answers that ended are finalized. *)
OnCloseOfEnded(id) ==
  /\ hook.stream[id] \in {"open", "ended"}
  /\ IF Owns(id) /\ hook.stream[id] = "ended"
     THEN hook' = [hook EXCEPT !.stream[id] = "closed",
                               !.isChatting = FALSE,
                               !.inFlight   = 0]
     ELSE hook' = [hook EXCEPT !.stream[id] = "closed"]
  /\ StreamOnly

(* A mutant: whichever stream is closed, the chat is over. *)
OnCloseOfAny(id) ==
  /\ hook.stream[id] \in {"open", "ended"}
  /\ hook' = [hook EXCEPT !.stream[id] = "closed",
                          !.messages   = [i \in DOMAIN @ |->
                            IF @[i].id = id /\ @[i].status = "CHUNK"
                            THEN [@[i] EXCEPT !.status = "END"] ELSE @[i]],
                          !.isChatting = FALSE,
                          !.inFlight   = 0]
  /\ StreamOnly

(* A stream that is cut without its last event is a complete answer, if it  *)
(* is still the current one.                                                *)
OnClose(id) ==
  /\ hook.stream[id] \in {"open", "ended"}
  /\ \/ /\ Owns(id)
        /\ hook' = [hook EXCEPT !.stream[id] = "closed",
                                !.messages   = [i \in DOMAIN @ |->
                                  IF @[i].id = id /\ @[i].status = "CHUNK"
                                  THEN [@[i] EXCEPT !.status = "END"] ELSE @[i]],
                                !.isChatting = FALSE,
                                !.inFlight   = 0]
     \/ /\ ~Owns(id)
        /\ hook' = [hook EXCEPT !.stream[id] = "closed"]
  /\ StreamOnly

(* The request or a read fails, or the response has no body.  An abort that *)
(* still owns the chat is the unmount's, and what it writes is not seen.    *)
OnFailure(id) ==
  /\ hook.stream[id] \in {"asking", "open", "ended"}
  /\ \/ /\ Owns(id)
        /\ hook' = [hook EXCEPT !.stream[id] = "closed",
                                !.messages   = WithStatus(@, id, "ERROR"),
                                !.isChatting = FALSE,
                                !.inFlight   = 0]
     \/ /\ ~Owns(id)
        /\ hook' = [hook EXCEPT !.stream[id] = "closed"]
  /\ StreamOnly

-----------------------------------------------------------------------------
(* What the user does *)

(* A mutant: a question may follow one that is being answered. *)
AskAnytime ==
  /\ asks < MaxAsks
  /\ asks' = asks + 1
  /\ hook' = Sent(hook, shown.messages)
  /\ flushing' = "due"
  /\ UNCHANGED <<host, page, shown, ran, fired, searches>>

(* In the panel's input, or the page's; not while a render shows a chat. *)
Ask ==
  /\ ~shown.isChatting /\ asks < MaxAsks
  /\ asks' = asks + 1
  /\ hook' = Sent(hook, shown.messages)
  /\ flushing' = "due"
  /\ UNCHANGED <<host, page, shown, ran, fired, searches>>

Stop ==
  /\ host = "panel" /\ shown.isChatting
  /\ hook' = Cancelled(hook)
  /\ flushing' = "due"
  /\ UNCHANGED <<host, page, shown, ran, fired, asks, searches>>

StartAgain ==
  /\ host = "panel" /\ shown.messages # <<>>
  /\ hook' = Reset(hook)
  /\ flushing' = "due"
  /\ UNCHANGED <<host, page, shown, ran, fired, asks, searches>>

Search ==
  /\ host = "page" /\ searches < MaxSearches
  /\ searches' = searches + 1
  /\ \E query \in (Queries \cup {None}) \ {page.searchText} :
       page' = [page EXCEPT !.searchText = query]
  /\ UNCHANGED <<host, hook, shown, ran, flushing, fired, asks>>

-----------------------------------------------------------------------------
(* React *)

Queued == [messages |-> hook.messages, isChatting |-> hook.isChatting,
           searchText |-> page.searchText, pending |-> page.pending]

(* The effects of a render run before the next one. *)
Render ==
  /\ Queued # shown /\ ran = shown
  /\ shown' = Queued
  /\ flushing' = IF flushing = "due" THEN "rendered" ELSE flushing
  /\ UNCHANGED <<host, hook, page, ran, fired, asks, searches>>

(* The panel notifies its host of the last turn, when it is complete. *)
Notifications ==
  LET last == shown.messages[Len(shown.messages)]
  IN  IF host = "panel" /\ shown.messages # <<>>
      THEN CASE last.status = "END"   -> {<<"res", last.id>>}
             [] last.status = "ERROR" -> {<<"err", last.id>>}
             [] OTHER -> {}
      ELSE {}

(* A search that is new starts a conversation. *)
NewSearch ==
  /\ shown.searchText # ran.searchText
  /\ shown.searchText = None \/ shown.searchText # page.lastQuery

SearchedPage ==
  IF NewSearch
  THEN [page EXCEPT !.lastQuery = shown.searchText, !.pending = shown.searchText]
  ELSE page

(* The first question is sent when the render shows no conversation. *)
FirstQuestion ==
  /\ host = "page"
  /\ shown.pending # None /\ shown.messages = <<>> /\ ~shown.isChatting
  /\ \/ shown.pending # ran.pending \/ ran.messages # <<>> \/ ran.isChatting

RunEffects ==
  /\ ran # shown
  /\ ran' = shown
  /\ fired' = fired \cup Notifications
  /\ LET searched == IF NewSearch THEN Reset(hook) ELSE hook
     IN  \/ /\ FirstQuestion
            /\ hook' = Sent(searched, shown.messages)
            /\ page' = [SearchedPage EXCEPT !.pending = None]
         \/ /\ ~FirstQuestion
            /\ hook' = searched
            /\ page' = SearchedPage
  /\ flushing' = IF flushing = "rendered" THEN "no" ELSE flushing
  /\ UNCHANGED <<host, shown, asks, searches>>

-----------------------------------------------------------------------------
StreamStep(id) ==
  /\ flushing = "no"
  /\ OnResponse(id) \/ OnChunk(id) \/ OnLastEvent(id) \/ OnClose(id) \/ OnFailure(id)

UserStep == flushing = "no" /\ (Ask \/ Stop \/ StartAgain \/ Search)

Next == Render \/ RunEffects \/ UserStep \/ \E id \in TurnIds : StreamStep(id)

Spec == Init /\ [][Next]_vars

(* React renders what is queued and runs the effects; the server ends its   *)
(* streams or the network breaks them: nothing in the hook limits how long  *)
(* an answer takes.                                                         *)
FairSpec ==
  /\ Spec
  /\ WF_vars(Render) /\ WF_vars(RunEffects)
  /\ \A id \in TurnIds : WF_vars(StreamStep(id))

-----------------------------------------------------------------------------
(* Properties *)

Answering(id) ==
  \E i \in DOMAIN hook.messages :
    hook.messages[i].id = id /\ hook.messages[i].status = "CHUNK"

(* While the chat is busy there is a stream to stop, and its turn is in the *)
(* conversation, still being answered: the stop button is never left alone. *)
ChattingIsInFlight ==
  hook.isChatting =>
    /\ hook.inFlight # 0
    /\ Answering(hook.inFlight)
    /\ hook.stream[hook.inFlight] \in {"asking", "open"}

(* A turn that shows it is being answered is the current one, and the chat  *)
(* is busy with it: nothing waits for an answer that cannot come.  Except   *)
(* on the page, for a turn that a later question did not see.               *)
AnsweringIsCurrent ==
  \A i \in DOMAIN hook.messages :
    hook.messages[i].status = "CHUNK" =>
      \/ hook.isChatting /\ hook.inFlight = hook.messages[i].id
      \/ /\ host = "page"
         /\ \E j \in (i + 1)..Len(hook.messages) :
              \A n \in DOMAIN hook.history[hook.messages[j].id] :
                hook.history[hook.messages[j].id][n] # hook.messages[i].id

(* In the panel, a question is sent with the conversation before it, whole  *)
(* and in order, whatever was stopped, failed or started again.             *)
HistoryIsConversation ==
  host = "panel" =>
    \A i \in DOMAIN hook.messages :
      hook.history[hook.messages[i].id] = Ids(SubSeq(hook.messages, 1, i - 1))

(* A turn that was stopped keeps the answer it had. *)
StoppedIsKept ==
  [][\A i \in DOMAIN hook.messages :
       hook.messages[i].id \in hook.cancelled =>
         \A j \in DOMAIN hook'.messages :
           hook'.messages[j].id = hook.messages[i].id =>
             hook'.messages[j] = hook.messages[i]]_vars

(* Once everything is rendered, the panel's host has been told of the end   *)
(* of each turn of the conversation, although it is only told of the last   *)
(* turn and renders may be merged.  (It may have been told of a response    *)
(* that turned into an error when its stream broke after the last event.)   *)
EndIsNotified ==
  host = "panel" /\ shown = Queued /\ ran = shown =>
    \A i \in DOMAIN hook.messages :
      hook.messages[i].status # "CHUNK" =>
        \E kind \in {"res", "err"} : <<kind, hook.messages[i].id>> \in fired

(* The chat does not stay busy. *)
ChattingEnds == hook.isChatting ~> ~hook.isChatting
=============================================================================
