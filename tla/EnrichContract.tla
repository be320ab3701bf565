--------------------------- MODULE EnrichContract ---------------------------
(***************************************************************************)
(* What the scheduling relies on when it hands a document to the enrich    *)
(* pipeline: one run at a time, every item in its turn, and an answer      *)
(* that the items' policies allow.                                         *)
(***************************************************************************)
EXTENDS Naturals, Sequences

CONSTANTS Pipelines, Starts, None

VARIABLES
  items,    \* the enrich items
  working,  \* the start in progress, or None
  item,     \* the item in progress, 0 when none is
  answers   \* what each start was answered, in order

vars == <<items, working, item, answers>>

Init ==
  /\ items \in Pipelines
  /\ working = None
  /\ item = 0
  /\ answers = [s \in Starts |-> <<>>]

Owed == { s \in Starts : answers[s] = <<>> }

Answer(s, result) ==
  /\ s \in Owed
  /\ answers' = [answers EXCEPT ![s] = <<result>>]

Idle == working' = None /\ item' = 0

(* A document is taken up when no other delivery of it is in progress. *)
TakeUp(s) ==
  /\ working = None /\ s \in Owed /\ items # <<>>
  /\ working' = s /\ item' = 1
  /\ UNCHANGED <<items, answers>>

Refuse(s) ==
  /\ working # None /\ s # working
  /\ Answer(s, "failure")
  /\ UNCHANGED <<items, working, item>>

Advance ==
  /\ working # None /\ item < Len(items)
  /\ item' = item + 1
  /\ UNCHANGED <<items, working, answers>>

(* Every item is concluded, or one that failed rejects the rest. *)
Succeed(s) ==
  /\ \/ working = None /\ items = <<>>
     \/ working = s /\ item = Len(items)
     \/ working = s /\ items[item].onError = "REJECT"
  /\ Answer(s, "success")
  /\ Idle
  /\ UNCHANGED items

Fail ==
  /\ working # None /\ items[item].onError = "FAIL"
  /\ Answer(working, "failure")
  /\ Idle
  /\ UNCHANGED items

Skip ==
  /\ working # None
  /\ Answer(working, "skip")
  /\ Idle
  /\ UNCHANGED items

(* The run ends with the actor, unanswered. *)
Lose ==
  /\ working # None
  /\ Idle
  /\ UNCHANGED <<items, answers>>

Next ==
  \/ \E s \in Starts : TakeUp(s) \/ Refuse(s) \/ Succeed(s)
  \/ Advance \/ Fail \/ Skip \/ Lose

Spec == Init /\ [][Next]_vars
=============================================================================
