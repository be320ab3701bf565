---------------------------- MODULE Provisioning ----------------------------
(***************************************************************************)
(* The life of a tenant: the service that checks the virtual host and      *)
(* asks, the manager actor, one saga actor per request with its            *)
(* provisioners, the event bus consumers that do the work on the database, *)
(* on Keycloak and on Kubernetes, and the deletion, confirmed by a token.  *)
(*                                                                         *)
(* One action is one message handler or one consumer, except that a reply  *)
(* the saga only stores, or counts, is part of the reply: the action is    *)
(* the handling of the last one.  A provisioner forwards the outcome of    *)
(* its bus request, so that an operation is the work the consumer has to   *)
(* do and the reply the saga is sent; the reply may be the timeout of the  *)
(* bus, and then the work comes later.  The adapter the manager registers  *)
(* for the sagas' responses is a single slot, looked up when a response is *)
(* processed.                                                              *)
(***************************************************************************)
EXTENDS Naturals, Sequences, FiniteSets

CONSTANTS
  Requests,      \* the requests to create a tenant
  Names, Hosts,
  Cases,         \* what the requests may ask for, all together, and the bounds:
                 \* the requests and asks that time out, the deletions asked for
  None           \* no request

Status == {"new", "refused", "asking", "waiting", "timedOut", "failure"}

(* "external" stands for both the tenants with OAuth2 settings of their own *)
(* and those that need none; "missing" for a tenant that needs Keycloak     *)
(* where there is none.  A tenant that is not exposed wants no ingress, or   *)
(* there is no cluster to create one in.                                     *)
ASSUME ProvisioningAssumption ==
  /\ \A case \in Cases :
       /\ case.asked \in [Requests -> [name : Names, host : Hosts,
                                       identity : {"keycloak", "external", "missing"},
                                       exposed : BOOLEAN]]
       /\ case.timeouts \in Nat /\ case.deletions \in Nat
  /\ Requests \cap (Status \cup {None}) = {}

VARIABLES
  asked,      \* what each request asks for
  caller,     \* each request: looked up, asked, waiting, or what it got
  box,        \* the mailbox of the manager
  adapter,    \* the request its saga response adapter answers
  saga,       \* the behavior of each saga
  creating,   \* the work the consumers still have to do for each request
  reply,      \* the reply to each operation of a saga
  counter,    \* compensationCounter, as it was set
  erasing,    \* the rollbacks the consumers still have to do
  undo,       \* the rollback of each operation, as the saga sees it
  resources,  \* the schemas, realms and ingresses that exist, by name
  tenants,    \* the rows of the tenant table
  tokens,     \* the deletion tokens: the tenant each was asked for, if it was
              \* given, and the tenant it led to delete
  deletionTokens, \* the token that is valid for each virtual host, or 0
  confirmed,  \* the deletions sent on the bus and not executed
  deleting,   \* the work of each deletion
  timeouts, deletions  \* what is left of the bounds

manager == <<box, adapter>>
forward == <<creating, reply>>
backward == <<erasing, undo>>
stored  == <<resources, tenants>>
deletion == <<tokens, deletionTokens, confirmed, deleting, deletions>>
vars    == <<asked, caller, manager, saga, counter, forward, backward, stored,
             deletion, timeouts>>

-----------------------------------------------------------------------------
Name(r) == asked[r].name
Host(r) == asked[r].host
Identity(r) == asked[r].identity

Operations == {"INGRESS", "REALM", "SCHEMA"}

Jobs == Operations \cup {"ENTITY"}

Message == [kind : {"CreateTenant"}, of : Requests]
             \cup [kind : {"SagaResponse"}, of : Requests, ok : BOOLEAN]

Token == [of : Requests, given : BOOLEAN, target : Requests \cup {None}]

TypeOK ==
  /\ asked \in { case.asked : case \in Cases }
  /\ caller \in [Requests -> Status \cup Requests]
  /\ box \in Seq(Message)
  /\ adapter \in Requests \cup {None}
  /\ saga \in [Requests -> {"none", "naming", "provisioning", "persisting",
                            "compensating", "succeeded", "failed"}]
  /\ creating \in [Requests -> SUBSET Jobs]
  /\ reply \in [Requests -> [Jobs -> {"none", "ok", "error"}]]
  /\ counter \in [Requests -> 0..3]
  /\ erasing \in [Requests -> SUBSET Operations]
  /\ undo \in [Requests -> [Operations -> {"none", "requested", "replied"}]]
  /\ resources \subseteq Operations \X Names
  /\ tenants \subseteq Requests
  /\ tokens \in Seq(Token)
  /\ deletionTokens \in [Hosts -> 0..Len(tokens)]
  /\ confirmed \subseteq DOMAIN tokens
  /\ deleting \subseteq (DOMAIN tokens) \X Jobs
  /\ timeouts \in Nat /\ deletions \in Nat

Init ==
  /\ \E case \in Cases :
       asked = case.asked /\ timeouts = case.timeouts /\ deletions = case.deletions
  /\ caller = [r \in Requests |-> "new"]
  /\ box = <<>> /\ adapter = None
  /\ saga = [r \in Requests |-> "none"]
  /\ creating = [r \in Requests |-> {}]
  /\ reply = [r \in Requests |-> [j \in Jobs |-> "none"]]
  /\ counter = [r \in Requests |-> 0]
  /\ erasing = [r \in Requests |-> {}]
  /\ undo = [r \in Requests |-> [o \in Operations |-> "none"]]
  /\ resources = {} /\ tenants = {}
  /\ tokens = <<>> /\ deletionTokens = [host \in Hosts |-> 0]
  /\ confirmed = {} /\ deleting = {}

TimesOut == timeouts > 0 /\ timeouts' = timeouts - 1

-----------------------------------------------------------------------------
(* The service and the manager *)

(* The virtual host must be free now; the name is not looked up. *)
Create(r) ==
  /\ caller[r] = "new"
  /\ caller' = [caller EXCEPT ![r] =
                  IF \E t \in tenants : Host(t) = Host(r) THEN "refused" ELSE "asking"]
  /\ UNCHANGED <<asked, manager, saga, counter, forward, backward, stored, timeouts,
                 deletion>>

StartCreateTenant(r) ==
  /\ caller[r] = "asking"
  /\ caller' = [caller EXCEPT ![r] = "waiting"]
  /\ box' = Append(box, [kind |-> "CreateTenant", of |-> r])
  /\ UNCHANGED <<asked, adapter, saga, counter, forward, backward, stored,
                 timeouts, deletion>>

AskTimeout(r) ==
  /\ caller[r] = "waiting" /\ TimesOut
  /\ caller' = [caller EXCEPT ![r] = "timedOut"]
  /\ UNCHANGED <<asked, manager, saga, counter, forward, backward, stored,
                 deletion>>

(* The saga answers the manager, whose mailbox then is mailbox, and stops. *)
Tell(r, ok, mailbox) ==
  /\ box' = Append(mailbox, [kind |-> "SagaResponse", of |-> r, ok |-> ok])
  /\ saga' = [saga EXCEPT ![r] = IF ok THEN "succeeded" ELSE "failed"]

(* A saga fails fast when nothing can provide the identity it requires. *)
OnCreateTenant ==
  /\ box # <<>> /\ Head(box).kind = "CreateTenant"
  /\ adapter' = Head(box).of
  /\ \/ /\ Identity(Head(box).of) = "missing"
        /\ Tell(Head(box).of, FALSE, Tail(box))
     \/ /\ Identity(Head(box).of) # "missing"
        /\ box' = Tail(box)
        /\ saga' = [saga EXCEPT ![Head(box).of] = "naming"]
  /\ UNCHANGED <<asked, caller, counter, forward, backward, stored, timeouts,
                 deletion>>

(* A mutant: any response is taken for the tenant's. *)
OnSagaResponseUnread ==
  /\ box # <<>> /\ Head(box).kind = "SagaResponse"
  /\ box' = Tail(box)
  /\ caller' = [caller EXCEPT ![adapter] = IF @ # "waiting" THEN @ ELSE Head(box).of]
  /\ UNCHANGED <<asked, adapter, saga, counter, forward, backward, stored,
                 timeouts, deletion>>

(* A mutant: whoever the tenant is for is answered as well. *)
OnSagaResponseToBoth ==
  /\ box # <<>> /\ Head(box).kind = "SagaResponse"
  /\ box' = Tail(box)
  /\ LET answer == IF Head(box).ok THEN Head(box).of ELSE "failure"
     IN  caller' = [r \in Requests |->
           IF r \in {adapter, Head(box).of} /\ caller[r] = "waiting" THEN answer
           ELSE caller[r]]
  /\ UNCHANGED <<asked, adapter, saga, counter, forward, backward, stored,
                 timeouts, deletion>>

(* A success carries the tenant of its saga; an ask takes one answer. *)
OnSagaResponse ==
  /\ box # <<>> /\ Head(box).kind = "SagaResponse"
  /\ box' = Tail(box)
  /\ caller' = [caller EXCEPT ![adapter] =
                  IF @ # "waiting" THEN @
                  ELSE IF Head(box).ok THEN Head(box).of ELSE "failure"]
  /\ UNCHANGED <<asked, adapter, saga, counter, forward, backward, stored,
                 timeouts, deletion>>

-----------------------------------------------------------------------------
(* The saga *)

Expected(r) == IF Identity(r) = "keycloak" THEN Operations ELSE {"INGRESS", "SCHEMA"}

(* A name that is not valid, or could not be generated, ends the saga. *)
OnNameResolved(r) ==
  /\ saga[r] = "naming"
  /\ \/ /\ saga' = [saga EXCEPT ![r] = "provisioning"]
        /\ creating' = [creating EXCEPT ![r] = Expected(r)]
        /\ UNCHANGED box
     \/ /\ Tell(r, FALSE, box)
        /\ UNCHANGED creating
  /\ UNCHANGED <<asked, caller, adapter, counter, reply, backward, stored,
                 timeouts, deletion>>

Succeeded(r) == { o \in Operations : reply[r][o] = "ok" }
Errors(r)    == { o \in Operations : reply[r][o] = "error" }

(* complementOf: a realm nobody asked for is among what did not fail. *)
ToCompensate(r) == Operations \ Errors(r)

(* A mutant: what is rolled back is the realm that was not provisioned. *)
UndoneUnlessSucceeded(r, operations) ==
  { o \in operations : o = "REALM" => "REALM" \notin Succeeded(r) }

(* A realm that was not provisioned is skipped. *)
Undone(r, operations) ==
  { o \in operations : o = "REALM" => "REALM" \in Succeeded(r) }

(* Mutants: the error waits for the first rollback only; the realm that is  *)
(* skipped is counted; the count is off by one.                             *)
FirstCompensation(operations, undone) == IF undone = {} THEN 0 ELSE 1
CountSkipped(operations, undone) == Cardinality(operations)
CountOneMore(operations, undone) == Cardinality(undone) + 1

Compensations(operations, undone) == Cardinality(undone)

StartCompensations(r, operations) ==
  LET undone == Undone(r, operations)
  IN  \/ /\ operations = {}
         /\ Tell(r, FALSE, box)
         /\ UNCHANGED <<counter, backward>>
      \/ /\ operations # {}
         /\ saga' = [saga EXCEPT ![r] = "compensating"]
         /\ counter' = [counter EXCEPT ![r] = Compensations(operations, undone)]
         /\ erasing' = [erasing EXCEPT ![r] = undone]
         /\ undo' = [undo EXCEPT ![r] = [o \in Operations |->
                       IF o \in undone THEN "requested" ELSE "none"]]
         /\ UNCHANGED box

(* The last reply decides: persist the tenant, or compensate. *)
OnParallelResponse(r) ==
  /\ saga[r] = "provisioning"
  /\ \A o \in Expected(r) : reply[r][o] # "none"
  /\ \/ /\ Errors(r) = {}
        /\ saga' = [saga EXCEPT ![r] = "persisting"]
        /\ creating' = [creating EXCEPT ![r] = @ \cup {"ENTITY"}]
        /\ UNCHANGED <<box, counter, backward>>
     \/ /\ Errors(r) # {}
        /\ StartCompensations(r, ToCompensate(r))
        /\ UNCHANGED creating
  /\ UNCHANGED <<asked, caller, adapter, reply, stored, timeouts, deletion>>

OnTenantResponse(r) ==
  /\ saga[r] = "persisting"
  /\ \/ /\ reply[r]["ENTITY"] = "ok"
        /\ Tell(r, TRUE, box)
        /\ UNCHANGED <<counter, backward>>
     \/ /\ reply[r]["ENTITY"] = "error"
        /\ StartCompensations(r, Operations)
  /\ UNCHANGED <<asked, caller, adapter, forward, stored, timeouts, deletion>>

(* The completion that takes the counter to zero, whatever was answered. *)
OnCompensationComplete(r) ==
  /\ saga[r] = "compensating"
  /\ LET replied == { o \in Operations : undo[r][o] = "replied" }
     IN  replied # {} /\ Cardinality(replied) = counter[r]
  /\ Tell(r, FALSE, box)
  /\ UNCHANGED <<asked, caller, adapter, counter, forward, backward, stored,
                 timeouts, deletion>>

-----------------------------------------------------------------------------
(* The event bus and its consumers *)

Reply(r, j, outcome) ==
  reply' = [reply EXCEPT ![r][j] = IF @ = "none" THEN outcome ELSE @]

(* The schema and the realm must not exist; the ingress is replaced. *)
Conflict(r, o) == o # "INGRESS" /\ <<o, Name(r)>> \in resources

(* The ingress nobody wants: its provisioner replies by itself. *)
Skipped(r) == IF asked[r].exposed THEN {} ELSE {"INGRESS"}

SkipIngress(r) ==
  /\ "INGRESS" \in creating[r] \cap Skipped(r)
  /\ creating' = [creating EXCEPT ![r] = @ \ {"INGRESS"}]
  /\ Reply(r, "INGRESS", "ok")
  /\ UNCHANGED <<asked, caller, manager, saga, counter, backward, stored, timeouts,
                 deletion>>

(* What fails may leave a part behind: the schema is committed before its   *)
(* tables are created.                                                      *)
Provision(r, o) ==
  /\ o \in creating[r] \ Skipped(r)
  /\ creating' = [creating EXCEPT ![r] = @ \ {o}]
  /\ \/ /\ ~Conflict(r, o)
        /\ resources' = resources \cup {<<o, Name(r)>>}
        /\ \E outcome \in {"ok", "error"} : Reply(r, o, outcome)
     \/ /\ Reply(r, o, "error")
        /\ UNCHANGED resources
  /\ UNCHANGED <<asked, caller, manager, saga, counter, backward, tenants,
                 timeouts, deletion>>

(* The names and the virtual hosts of the tenants are unique. *)
Persist(r) ==
  /\ "ENTITY" \in creating[r]
  /\ creating' = [creating EXCEPT ![r] = @ \ {"ENTITY"}]
  /\ \/ /\ \A t \in tenants : Host(t) # Host(r) /\ Name(t) # Name(r)
        /\ tenants' = tenants \cup {r}
        /\ Reply(r, "ENTITY", "ok")
     \/ /\ Reply(r, "ENTITY", "error")
        /\ UNCHANGED tenants
  /\ UNCHANGED <<asked, caller, manager, saga, counter, backward, resources,
                 timeouts, deletion>>

BusTimeout(r, j) ==
  /\ j \in creating[r] \ Skipped(r) /\ reply[r][j] = "none" /\ TimesOut
  /\ Reply(r, j, "error")
  /\ UNCHANGED <<asked, caller, manager, saga, counter, creating, backward,
                 stored, deletion>>

Replied(r, o) ==
  undo' = [undo EXCEPT ![r][o] = IF @ = "requested" THEN "replied" ELSE @]

(* A mutant: an ingress is found by its virtual host. *)
OwnedByHost(r, o) == { <<o, Name(q)>> : q \in { q \in Requests : Host(q) = Host(r) } }

Owned(r, o) == { <<o, Name(r)>> }

(* A deletion that fails is logged, and answered as the others. *)
RollBack(r, o) ==
  /\ o \in erasing[r]
  /\ erasing' = [erasing EXCEPT ![r] = @ \ {o}]
  /\ resources' \in {resources, resources \ Owned(r, o)}
  /\ Replied(r, o)
  /\ UNCHANGED <<asked, caller, manager, saga, counter, forward, tenants,
                 timeouts, deletion>>

RollBackTimeout(r, o) ==
  /\ undo[r][o] = "requested" /\ TimesOut
  /\ Replied(r, o)
  /\ UNCHANGED <<asked, caller, manager, saga, counter, forward, erasing,
                 stored, deletion>>

-----------------------------------------------------------------------------
(* The deletion of a tenant *)

RequestDeletion(t) ==
  /\ t \in tenants /\ deletions > 0
  /\ tokens' = Append(tokens, [of |-> t, given |-> FALSE, target |-> None])
  /\ deletions' = deletions - 1
  /\ UNCHANGED <<asked, caller, manager, saga, counter, forward, backward, stored,
                 deletionTokens, confirmed, deleting, timeouts>>

(* The tenant was looked up: the last token given for a virtual host is the *)
(* one that is valid, whatever became of the tenant.                        *)
GiveToken(n) ==
  /\ ~tokens[n].given
  /\ tokens' = [tokens EXCEPT ![n].given = TRUE]
  /\ deletionTokens' = [deletionTokens EXCEPT ![Host(tokens[n].of)] = n]
  /\ UNCHANGED <<asked, caller, manager, saga, counter, forward, backward, stored,
                 confirmed, deleting, deletions, timeouts>>

(* A mutant: a token that is confirmed stays valid. *)
ConfirmDeletionAgain(n) ==
  /\ deletionTokens[Host(tokens[n].of)] = n
  /\ confirmed' = confirmed \cup {n}
  /\ UNCHANGED <<asked, caller, manager, saga, counter, forward, backward, stored,
                 tokens, deletionTokens, deleting, deletions, timeouts>>

(* Any token takes the valid one away; the valid one deletes whatever       *)
(* tenant the virtual host then has.                                        *)
ConfirmDeletion(n) ==
  LET host == Host(tokens[n].of)
  IN  /\ tokens[n].given /\ deletionTokens[host] # 0
      /\ deletionTokens' = [deletionTokens EXCEPT ![host] = 0]
      /\ confirmed' = IF deletionTokens[host] = n THEN confirmed \cup {n} ELSE confirmed
  /\ UNCHANGED <<asked, caller, manager, saga, counter, forward, backward, stored,
                 tokens, deleting, deletions, timeouts>>

(* Nothing is deleted if there is no tenant, or it cannot be looked up. *)
ExecuteDeletion(n) ==
  /\ n \in confirmed
  /\ confirmed' = confirmed \ {n}
  /\ \/ \E t \in tenants :
          /\ Host(t) = Host(tokens[n].of)
          /\ tokens' = [tokens EXCEPT ![n].target = t]
          /\ deleting' = deleting \cup ({n} \X (Expected(t) \cup {"ENTITY"}))
     \/ UNCHANGED <<tokens, deleting>>
  /\ UNCHANGED <<asked, caller, manager, saga, counter, forward, backward, stored,
                 deletionTokens, deletions, timeouts>>

(* All at once; one that fails does not keep the others from being done. *)
Delete(n, j) ==
  /\ <<n, j>> \in deleting
  /\ deleting' = deleting \ {<<n, j>>}
  /\ \/ /\ j = "ENTITY"
        /\ tenants' = tenants \ {tokens[n].target}
        /\ UNCHANGED resources
     \/ /\ j # "ENTITY"
        /\ resources' = resources \ Owned(tokens[n].target, j)
        /\ UNCHANGED tenants
     \/ UNCHANGED stored
  /\ UNCHANGED <<asked, caller, manager, saga, counter, forward, backward,
                 tokens, deletionTokens, confirmed, deletions, timeouts>>

-----------------------------------------------------------------------------
SagaStep(r) ==
  OnNameResolved(r) \/ OnParallelResponse(r) \/ OnTenantResponse(r)
    \/ OnCompensationComplete(r)

BusStep(r) ==
  \/ Persist(r) \/ SkipIngress(r)
  \/ \E o \in Operations : Provision(r, o) \/ RollBack(r, o) \/ RollBackTimeout(r, o)
  \/ \E j \in Jobs : BusTimeout(r, j)

Next ==
  \/ OnCreateTenant \/ OnSagaResponse
  \/ \E r \in Requests :
       Create(r) \/ StartCreateTenant(r) \/ AskTimeout(r) \/ SagaStep(r) \/ BusStep(r)
         \/ RequestDeletion(r)
  \/ \E n \in DOMAIN tokens :
       GiveToken(n) \/ ConfirmDeletion(n) \/ ExecuteDeletion(n) \/ \E j \in Jobs : Delete(n, j)

Spec == Init /\ [][Next]_vars

(* The dispatcher runs the actors, and the bus answers every request, if    *)
(* only with its timeout; nobody is obliged to ask.                         *)
FairSpec ==
  /\ Spec
  /\ WF_vars(OnCreateTenant) /\ WF_vars(OnSagaResponse)
  /\ \A r \in Requests : WF_vars(SagaStep(r)) /\ WF_vars(BusStep(r))

-----------------------------------------------------------------------------
(* Properties *)

(* A saga reports its failure only when everything that was reported        *)
(* provisioned has been asked to roll back, and has answered.               *)
ErrorIsCompensated ==
  \A r \in Requests :
    saga[r] = "failed" => \A o \in Succeeded(r) : undo[r][o] = "replied"

(* A tenant that is served has everything it was provisioned with, whatever *)
(* the requests that run beside it fail at, and whoever had its virtual     *)
(* host before: no rollback and no deletion but its own takes it away.      *)
(* (Unless another request has the same name, or its own row was written    *)
(* after the bus had given the write up.)                                   *)
Deleted == { tokens[n].target : n \in DOMAIN tokens }

LiveHasResources ==
  \A t \in tenants \ Deleted :
    /\ \A r \in Requests \ {t} : Name(r) # Name(t)
    /\ reply[t]["ENTITY"] = "ok"
    => \A o \in Expected(t) \ Skipped(t) : <<o, Name(t)>> \in resources

(* A caller that is given a tenant is given one that exists, or that was    *)
(* deleted since.                                                           *)
AnswerExists ==
  \A r \in Requests : caller[r] \in Requests => caller[r] \in tenants \cup Deleted

(* A token deletes the tenant it was asked for; another one only if that    *)
(* one was deleted with another token in the meantime, and its virtual host *)
(* was given away.                                                          *)
DeletedWasRequested ==
  \A n \in DOMAIN tokens :
    tokens[n].target \notin {None, tokens[n].of} =>
      \E m \in DOMAIN tokens \ {n} : tokens[m].target = tokens[n].of

(* The answers of sagas that overlap go to the caller that came last, who   *)
(* may be given the tenant of another; no tenant is given to two callers.   *)
GivenToOne ==
  \A r, s \in Requests : caller[r] \in Requests /\ caller[s] = caller[r] => r = s

(* The rollback that waits for nobody: the schema and the ingress failed    *)
(* and no realm was asked for, so that the one operation left to compensate *)
(* is skipped.                                                              *)
Stranded(r) == saga[r] = "compensating" /\ \A o \in Operations : undo[r][o] = "none"

StrandedWithoutRealm ==
  \A r \in Requests :
    Stranded(r) => Identity(r) = "external" /\ Errors(r) = {"INGRESS", "SCHEMA"}

(* A saga that started ends, unless it is stranded. *)
SagaEnds ==
  \A r \in Requests :
    saga[r] = "naming" ~> saga[r] \in {"succeeded", "failed"} \/ Stranded(r)
=============================================================================
