-------------------------- MODULE ChunkReplacement --------------------------
(***************************************************************************)
(* What an embedding processor does to the vector index, as the work stage *)
(* and the searches over the index see it: the previous version of a       *)
(* content goes before any chunk of the new one comes, chunks come in      *)
(* order and once, and the processor confirms the content only when all of *)
(* them are there.  A failure may leave the replacement anywhere, and what *)
(* was already asked of the index may still happen after it.               *)
(***************************************************************************)
EXTENDS Naturals, Sequences

CONSTANTS Processors, Previous

VARIABLES
  index,     \* the documents of the content: Previous and chunks <<p, i>>
  streamed,  \* how many chunks the stream of each processor gave
  inserted,  \* the chunks of each processor inserted by batches that succeeded
  outcome    \* open, Complete, or anything else it ended with

vars == <<index, streamed, inserted, outcome>>

Init ==
  /\ index = {Previous}
  /\ streamed = [p \in Processors |-> 0]
  /\ inserted = [p \in Processors |-> <<>>]
  /\ outcome = [p \in Processors |-> "open"]

Stream(p) ==
  /\ outcome[p] = "open"
  /\ streamed' = [streamed EXCEPT ![p] = @ + 1]
  /\ UNCHANGED <<index, inserted, outcome>>

(* A stream without chunks removes nothing. *)
Delete(p) ==
  /\ streamed[p] > 0
  /\ inserted[p] = <<>>
  /\ \E gone \in SUBSET index : index' = index \ gone
  /\ UNCHANGED <<streamed, inserted, outcome>>

(* The batch of chunks that comes next, none of which is there; or what is  *)
(* left of one that failed.                                                 *)
Insert(p) ==
  /\ Previous \notin index
  /\ \E last \in Len(inserted[p]) .. streamed[p] :
       LET batch == (Len(inserted[p]) + 1) .. last IN
       /\ ({p} \X batch) \cap index = {}
       /\ \/ /\ index' = index \cup ({p} \X batch)
             /\ inserted' = [inserted EXCEPT ![p] = [i \in 1 .. last |-> i]]
          \/ /\ \E part \in SUBSET batch : index' = index \cup ({p} \X part)
             /\ UNCHANGED inserted
  /\ UNCHANGED <<streamed, outcome>>

Close(p, how) ==
  /\ outcome[p] = "open"
  /\ how = "Complete" => inserted[p] = [i \in 1 .. streamed[p] |-> i]
  /\ outcome' = [outcome EXCEPT ![p] = how]
  /\ UNCHANGED <<index, streamed, inserted>>

Next ==
  \E p \in Processors :
    \/ Stream(p) \/ Delete(p) \/ Insert(p)
    \/ Close(p, "Complete") \/ Close(p, "Failure") \/ Close(p, "Crashed")

Spec == Init /\ [][Next]_vars
=============================================================================
