--------------------------- MODULE DeliveryLedger ---------------------------
(***************************************************************************)
(* What a queue consumer relies on when it asks the scheduling to ingest a *)
(* delivery: it is answered at most once, with Success only when the work  *)
(* on a document was done.  A Success becomes an acknowledgement, which    *)
(* removes the message from the broker; a Failure, or no answer before the *)
(* ask times out, sends it to the retry queue.                             *)
(***************************************************************************)
EXTENDS Sequences

CONSTANTS
  Deliveries,  \* the deliveries the consumers may ask about
  Documents    \* those that carry a document; the others carry LAST or HALT

VARIABLES
  asked,       \* the deliveries handed to the scheduling
  indexed,     \* the documents whose work was done
  answers      \* what each delivery was answered

vars == <<asked, indexed, answers>>

Init ==
  /\ asked = {}
  /\ indexed = {}
  /\ answers = [d \in Deliveries |-> <<>>]

Unanswered == { d \in asked : answers[d] = <<>> }

Ask(d) ==
  /\ d \in Deliveries \ asked
  /\ asked' = asked \cup {d}
  /\ UNCHANGED <<indexed, answers>>

(* The work may outlive the scheduling's interest in it, never precede it. *)
Work(d) ==
  /\ d \in asked \cap Documents
  /\ indexed' = indexed \cup {d}
  /\ UNCHANGED <<asked, answers>>

Confirm(d) ==
  /\ d \in Unanswered
  /\ d \in Documents => d \in indexed
  /\ answers' = [answers EXCEPT ![d] = <<"Success">>]
  /\ UNCHANGED <<asked, indexed>>

(* One refusal, or the release of everything that is held. *)
Reject(refused) ==
  /\ refused \subseteq Unanswered
  /\ answers' = [d \in Deliveries |->
                   IF d \in refused THEN <<"Failure">> ELSE answers[d]]
  /\ UNCHANGED <<asked, indexed>>

Next ==
  \/ \E d \in Deliveries : Ask(d) \/ Work(d) \/ Confirm(d)
  \/ \E refused \in SUBSET Deliveries : Reject(refused)

Spec == Init /\ [][Next]_vars
=============================================================================
