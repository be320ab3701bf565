------------------------- MODULE ProvisioningProofs -------------------------
(***************************************************************************)
(* Theorems about the life of tenants, for any requests, any bounds on     *)
(* timeouts and deletions, and any of the cases: every variable keeps its  *)
(* type, a saga that fails has rolled back what succeeded, a tenant that   *)
(* is served keeps its resources, an answer names a tenant that was        *)
(* created and is given once, and a token deletes the tenant it was asked  *)
(* for.                                                                    *)
(***************************************************************************)
EXTENDS Provisioning, FiniteSetTheorems, SequenceTheorems, TLAPS

-----------------------------------------------------------------------------
(* The inductive invariants *)

Rolled(r) == { o \in Operations : undo[r][o] # "none" }

(* What a saga has asked for and was answered, by where it is.              *)
AskedOK(r) ==
  /\ saga[r] \in {"none", "naming"} =>
       creating[r] = {} /\ \A j \in Jobs : reply[r][j] = "none"
  /\ creating[r] \subseteq Expected(r) \cup {"ENTITY"}
  /\ saga[r] # "provisioning" => \A o \in creating[r] \ {"ENTITY"} : reply[r][o] # "none"
  /\ "ENTITY" \in creating[r] /\ reply[r]["ENTITY"] = "none" => saga[r] = "persisting"
  /\ reply[r]["ENTITY"] = "ok" => saga[r] \in {"persisting", "succeeded"}
  /\ saga[r] \in {"persisting", "succeeded"} => \A o \in Expected(r) : reply[r][o] = "ok"
  /\ saga[r] = "succeeded" => reply[r]["ENTITY"] = "ok"
  /\ saga[r] \notin {"none", "failed"} => Identity(r) # "missing"

(* What it rolls back: nothing before it fails, and then at least           *)
(* everything that was reported provisioned.                                *)
UndoneOK(r) ==
  /\ saga[r] \notin {"compensating", "failed"} => erasing[r] = {} /\ Rolled(r) = {}
  /\ saga[r] = "compensating" =>
       /\ Succeeded(r) \subseteq Rolled(r)
       /\ counter[r] = Cardinality(Rolled(r))
       /\ Rolled(r) = {} => Identity(r) = "external" /\ Errors(r) = {"INGRESS", "SCHEMA"}
  /\ saga[r] = "failed" => \A o \in Succeeded(r) : undo[r][o] = "replied"

SagaInv == \A r \in Requests : AskedOK(r) /\ UndoneOK(r)

Unasked == {"new", "refused", "asking"}

(* A request is in the mailbox of the manager once, before its saga starts  *)
(* or after it ended; its tenant is given away with the answer.             *)
MailInv ==
  /\ \A r \in Requests : caller[r] \in Unasked => saga[r] = "none"
  /\ \A k \in DOMAIN box :
       /\ box[k].kind = "CreateTenant" =>
            saga[box[k].of] = "none" /\ caller[box[k].of] \notin Unasked
       /\ box[k].kind = "SagaResponse" =>
            saga[box[k].of] = IF box[k].ok THEN "succeeded" ELSE "failed"
       /\ \A r \in Requests : caller[r] # box[k].of
  /\ \A j, k \in DOMAIN box : box[j].of = box[k].of => j = k
  /\ \A r \in Requests : caller[r] \in Requests => saga[caller[r]] = "succeeded"
  /\ GivenToOne

(* The tenants, and what they have.                                         *)
StoreInv ==
  /\ \A r \in Requests : reply[r]["ENTITY"] = "ok" => r \in tenants \cup Deleted
  /\ \A s, t \in tenants : Host(s) = Host(t) => s = t
  /\ \A t \in Requests \ Deleted :
       /\ \A r \in Requests \ {t} : Name(r) # Name(t)
       /\ saga[t] \in {"provisioning", "persisting", "succeeded"}
       => \A o \in Operations \ Skipped(t) :
            reply[t][o] = "ok" => <<o, Name(t)>> \in resources

(* A token is given and valid, then confirmed, then executed.               *)
TokenInv ==
  /\ \A n \in DOMAIN tokens : tokens[n].of \in tenants \cup Deleted
  /\ \A h \in Hosts : deletionTokens[h] # 0 =>
       /\ Host(tokens[deletionTokens[h]].of) = h
       /\ tokens[deletionTokens[h]].target = None
       /\ deletionTokens[h] \notin confirmed
  /\ \A n \in confirmed : tokens[n].target = None
  /\ \A n \in DOMAIN tokens : ~tokens[n].given =>
       tokens[n].target = None /\ n \notin confirmed
  /\ \A n \in DOMAIN tokens, j \in Jobs : <<n, j>> \in deleting => tokens[n].target # None
  /\ DeletedWasRequested

-----------------------------------------------------------------------------
(* Types *)

RequestsOK ==
  /\ asked \in { case.asked : case \in Cases }
  /\ timeouts \in Nat /\ deletions \in Nat

ManagerOK ==
  /\ caller \in [Requests -> Status \cup Requests]
  /\ box \in Seq(Message)
  /\ adapter \in Requests \cup {None}

SagasOK ==
  /\ saga \in [Requests -> {"none", "naming", "provisioning", "persisting",
                            "compensating", "succeeded", "failed"}]
  /\ creating \in [Requests -> SUBSET Jobs]
  /\ reply \in [Requests -> [Jobs -> {"none", "ok", "error"}]]
  /\ counter \in [Requests -> 0..3]
  /\ erasing \in [Requests -> SUBSET Operations]
  /\ undo \in [Requests -> [Operations -> {"none", "requested", "replied"}]]

StoredOK == resources \subseteq Operations \X Names /\ tenants \subseteq Requests

TokensOK ==
  /\ tokens \in Seq(Token)
  /\ deletionTokens \in [Hosts -> 0..Len(tokens)]
  /\ confirmed \subseteq DOMAIN tokens
  /\ deleting \subseteq (DOMAIN tokens) \X Jobs

LEMMA TypeParts ==
  TypeOK <=> RequestsOK /\ ManagerOK /\ SagasOK /\ StoredOK /\ TokensOK
  BY DEF TypeOK, RequestsOK, ManagerOK, SagasOK, StoredOK, TokensOK

LEMMA TypePartsNext ==
  ASSUME RequestsOK', ManagerOK', SagasOK', StoredOK', TokensOK'
  PROVE  TypeOK'
  BY DEF TypeOK, RequestsOK, ManagerOK, SagasOK, StoredOK, TokensOK

(* What a step leaves alone keeps its type.                                 *)
LEMMA Frames ==
  ASSUME TypeOK
  PROVE  /\ UNCHANGED <<asked, timeouts, deletions>> => RequestsOK'
         /\ UNCHANGED <<caller, box, adapter>> => ManagerOK'
         /\ UNCHANGED <<saga, counter, creating, reply, erasing, undo>> => SagasOK'
         /\ UNCHANGED <<resources, tenants>> => StoredOK'
         /\ UNCHANGED <<tokens, deletionTokens, confirmed, deleting>> => TokensOK'
<1>1. UNCHANGED <<asked, timeouts, deletions>> => RequestsOK'
  BY TypeParts DEF RequestsOK
<1>2. UNCHANGED <<caller, box, adapter>> => ManagerOK'
  BY TypeParts DEF ManagerOK
<1>3. UNCHANGED <<saga, counter, creating, reply, erasing, undo>> => SagasOK'
  BY TypeParts DEF SagasOK
<1>4. UNCHANGED <<resources, tenants>> => StoredOK'
  BY TypeParts DEF StoredOK
<1>5. UNCHANGED <<tokens, deletionTokens, confirmed, deleting>> => TokensOK'
  BY TypeParts DEF TokensOK
<1> QED BY <1>1, <1>2, <1>3, <1>4, <1>5

(* What a request asks for.                                                 *)
LEMMA Asked ==
  ASSUME TypeOK, NEW r \in Requests
  PROVE  /\ Name(r) \in Names /\ Host(r) \in Hosts
         /\ Identity(r) \in {"keycloak", "external", "missing"}
         /\ Expected(r) \subseteq Operations /\ {"INGRESS", "SCHEMA"} \subseteq Expected(r)
         /\ Identity(r) # "keycloak" <=> "REALM" \notin Expected(r)
<1>1. asked \in [Requests -> [name : Names, host : Hosts,
                              identity : {"keycloak", "external", "missing"},
                              exposed : BOOLEAN]]
  BY TypeParts, ProvisioningAssumption DEF RequestsOK
<1> QED BY <1>1 DEF Name, Host, Identity, Expected, Operations

(* A step that waits for no more time than there is.                        *)
LEMMA TimesOutType ==
  ASSUME TypeOK, TimesOut, UNCHANGED <<asked, deletions>>
  PROVE  RequestsOK'
  BY TypeParts DEF TimesOut, RequestsOK

(* The first message of a queue, and what is left of it.                    *)
LEMMA TailAt ==
  ASSUME NEW S, NEW q \in Seq(S), q # <<>>
  PROVE  /\ Tail(q) \in Seq(S) /\ Head(q) \in S /\ Head(q) = q[1] /\ 1 \in DOMAIN q
         /\ \A k \in DOMAIN Tail(q) : k \in Nat \ {0} /\ k + 1 \in DOMAIN q /\ Tail(q)[k] = q[k + 1]
<1>1. Tail(q) \in Seq(S) /\ Head(q) \in S /\ Len(q) \in Nat \ {0}
      /\ Len(Tail(q)) = Len(q) - 1
      /\ \A k \in 1..Len(Tail(q)) : Tail(q)[k] = q[k + 1]
  BY HeadTailProperties, EmptySeq
<1>2. DOMAIN q = 1..Len(q) /\ DOMAIN Tail(q) = 1..Len(Tail(q))
  BY <1>1, LenProperties
<1>3. Head(q) = q[1]
  OBVIOUS
<1> QED BY <1>1, <1>2, <1>3

LEMMA AppendAt ==
  ASSUME NEW S, NEW q \in Seq(S), NEW m \in S
  PROVE  /\ Append(q, m) \in Seq(S) /\ Len(q) \in Nat /\ DOMAIN q = 1..Len(q)
         /\ Len(Append(q, m)) = Len(q) + 1
         /\ DOMAIN Append(q, m) = DOMAIN q \cup {Len(q) + 1}
         /\ Len(q) + 1 \notin DOMAIN q
         /\ Append(q, m)[Len(q) + 1] = m
         /\ \A k \in DOMAIN q : Append(q, m)[k] = q[k]
<1>1. /\ Append(q, m) \in Seq(S)
      /\ Len(Append(q, m)) = Len(q) + 1
      /\ \A k \in 1..Len(q) : Append(q, m)[k] = q[k]
      /\ Append(q, m)[Len(q) + 1] = m
  BY AppendProperties
<1>2. /\ Len(q) \in Nat /\ DOMAIN q = 1..Len(q)
      /\ DOMAIN Append(q, m) = 1..Len(Append(q, m))
  BY <1>1, LenProperties
<1> QED BY <1>1, <1>2

LEMMA MessageParts ==
  /\ \A r \in Requests : [kind |-> "CreateTenant", of |-> r] \in Message
  /\ \A r \in Requests, ok \in BOOLEAN : [kind |-> "SagaResponse", of |-> r, ok |-> ok] \in Message
  /\ \A m \in Message : /\ m.of \in Requests /\ m.kind \in {"CreateTenant", "SagaResponse"}
                        /\ m.kind = "SagaResponse" => m.ok \in BOOLEAN
<1>1. \A r \in Requests : [kind |-> "CreateTenant", of |-> r] \in Message
  BY DEF Message
<1>2. \A r \in Requests, ok \in BOOLEAN : [kind |-> "SagaResponse", of |-> r, ok |-> ok] \in Message
  BY DEF Message
<1>3. \A m \in Message : /\ m.of \in Requests /\ m.kind \in {"CreateTenant", "SagaResponse"}
                         /\ m.kind = "SagaResponse" => m.ok \in BOOLEAN
  BY DEF Message
<1> QED BY <1>1, <1>2, <1>3

(* There are three operations.                                              *)
LEMMA OperationsCount ==
  ASSUME NEW S \in SUBSET Operations
  PROVE  IsFiniteSet(S) /\ Cardinality(S) \in 0..3
<1>1. IsFiniteSet({}) /\ Cardinality({}) = 0
  BY FS_EmptySet
<1>2. IsFiniteSet({"INGRESS"}) /\ Cardinality({"INGRESS"}) = 1
  BY FS_Singleton
<1>3. IsFiniteSet({"INGRESS", "REALM"}) /\ Cardinality({"INGRESS", "REALM"}) = 2
  <2>1. {"INGRESS", "REALM"} = {"INGRESS"} \cup {"REALM"} /\ "REALM" \notin {"INGRESS"}
    OBVIOUS
  <2> QED BY <1>2, <2>1, FS_AddElement
<1>4. IsFiniteSet(Operations) /\ Cardinality(Operations) = 3
  <2>1. Operations = {"INGRESS", "REALM"} \cup {"SCHEMA"} /\ "SCHEMA" \notin {"INGRESS", "REALM"}
    BY DEF Operations
  <2> QED BY <1>3, <2>1, FS_AddElement
<1>5. IsFiniteSet(S) /\ Cardinality(S) <= 3
  BY <1>4, FS_Subset
<1>6. Cardinality(S) \in Nat
  BY <1>5, FS_CardinalityType
<1> QED BY <1>5, <1>6

(* The service and the manager.                                             *)
LEMMA CreateType ==
  ASSUME TypeOK, NEW r \in Requests, Create(r)
  PROVE  TypeOK'
<1>1. ManagerOK'
  BY TypeParts DEF Create, ManagerOK, Status, manager
<1>2. RequestsOK' /\ SagasOK' /\ StoredOK' /\ TokensOK'
  BY Frames DEF Create, forward, backward, stored, deletion
<1> QED BY <1>1, <1>2, TypePartsNext

LEMMA StartCreateTenantType ==
  ASSUME TypeOK, NEW r \in Requests, StartCreateTenant(r)
  PROVE  TypeOK'
<1>1. box' \in Seq(Message)
  <2>1. Append(box, [kind |-> "CreateTenant", of |-> r]) \in Seq(Message)
    BY TypeParts, MessageParts, AppendAt DEF ManagerOK
  <2> QED BY <2>1, TypeParts DEF StartCreateTenant, ManagerOK
<1>2. ManagerOK'
  BY <1>1, TypeParts DEF StartCreateTenant, ManagerOK, Status
<1>3. RequestsOK' /\ SagasOK' /\ StoredOK' /\ TokensOK'
  BY Frames DEF StartCreateTenant, forward, backward, stored, deletion
<1> QED BY <1>2, <1>3, TypePartsNext

LEMMA AskTimeoutType ==
  ASSUME TypeOK, NEW r \in Requests, AskTimeout(r)
  PROVE  TypeOK'
<1>1. ManagerOK'
  BY TypeParts DEF AskTimeout, ManagerOK, Status, manager
<1>2. RequestsOK' /\ SagasOK' /\ StoredOK' /\ TokensOK'
  BY Frames, TimesOutType DEF AskTimeout, forward, backward, stored, deletion
<1> QED BY <1>1, <1>2, TypePartsNext

LEMMA TellType ==
  ASSUME TypeOK, NEW r \in Requests, NEW ok \in BOOLEAN, NEW mailbox \in Seq(Message),
         Tell(r, ok, mailbox)
  PROVE  /\ box' \in Seq(Message)
         /\ saga' \in [Requests -> {"none", "naming", "provisioning", "persisting",
                                    "compensating", "succeeded", "failed"}]
<1>1. [kind |-> "SagaResponse", of |-> r, ok |-> ok] \in Message
  BY MessageParts
<1>2. Append(mailbox, [kind |-> "SagaResponse", of |-> r, ok |-> ok]) \in Seq(Message)
  BY <1>1, AppendAt
<1> QED BY <1>2, TypeParts DEF Tell, SagasOK

LEMMA HeadBox ==
  ASSUME TypeOK, box # <<>>
  PROVE  /\ Tail(box) \in Seq(Message) /\ Head(box) \in Message /\ Head(box).of \in Requests
         /\ Head(box).kind = "SagaResponse" => Head(box).ok \in BOOLEAN
         /\ Head(box) = box[1] /\ 1 \in DOMAIN box
<1>1. box \in Seq(Message)
  BY TypeParts DEF ManagerOK
<1>2. Tail(box) \in Seq(Message) /\ Head(box) \in Message /\ Head(box) = box[1] /\ 1 \in DOMAIN box
  BY <1>1, TailAt
<1> QED BY <1>2, MessageParts

LEMMA OnCreateTenantType ==
  ASSUME TypeOK, OnCreateTenant
  PROVE  TypeOK'
<1> DEFINE r == Head(box).of
<1>1. box # <<>> /\ r \in Requests /\ Tail(box) \in Seq(Message)
  BY HeadBox DEF OnCreateTenant
<1>2. /\ box' \in Seq(Message) /\ adapter' = r
      /\ saga' \in [Requests -> {"none", "naming", "provisioning", "persisting",
                                 "compensating", "succeeded", "failed"}]
  <2>1. CASE Tell(r, FALSE, Tail(box))
    BY <1>1, <2>1, TellType DEF OnCreateTenant
  <2>2. CASE box' = Tail(box) /\ saga' = [saga EXCEPT ![r] = "naming"]
    BY <1>1, <2>2, TypeParts DEF OnCreateTenant, SagasOK
  <2> QED BY <2>1, <2>2 DEF OnCreateTenant
<1>3. ManagerOK'
  BY <1>1, <1>2, TypeParts DEF OnCreateTenant, ManagerOK
<1>4. SagasOK'
  BY <1>2, TypeParts DEF OnCreateTenant, SagasOK, forward, backward
<1>5. RequestsOK' /\ StoredOK' /\ TokensOK'
  BY Frames DEF OnCreateTenant, stored, deletion
<1> QED BY <1>3, <1>4, <1>5, TypePartsNext

LEMMA OnSagaResponseType ==
  ASSUME TypeOK, OnSagaResponse
  PROVE  TypeOK'
<1>1. Head(box).of \in Requests /\ Tail(box) \in Seq(Message)
  BY HeadBox DEF OnSagaResponse
<1>2. ManagerOK'
  BY <1>1, TypeParts DEF OnSagaResponse, ManagerOK, Status
<1>3. RequestsOK' /\ SagasOK' /\ StoredOK' /\ TokensOK'
  BY Frames DEF OnSagaResponse, forward, backward, stored, deletion
<1> QED BY <1>2, <1>3, TypePartsNext

(* The saga.                                                                *)
LEMMA OnNameResolvedType ==
  ASSUME TypeOK, NEW r \in Requests, OnNameResolved(r)
  PROVE  TypeOK'
<1>1. box \in Seq(Message)
  BY TypeParts DEF ManagerOK
<1>2. /\ box' \in Seq(Message)
      /\ saga' \in [Requests -> {"none", "naming", "provisioning", "persisting",
                                 "compensating", "succeeded", "failed"}]
  <2>1. CASE Tell(r, FALSE, box)
    BY <1>1, <2>1, TellType
  <2>2. CASE saga' = [saga EXCEPT ![r] = "provisioning"] /\ UNCHANGED box
    BY <1>1, <2>2, TypeParts DEF SagasOK
  <2> QED BY <2>1, <2>2 DEF OnNameResolved
<1>3. ManagerOK'
  BY <1>2, TypeParts DEF OnNameResolved, ManagerOK
<1>4. SagasOK'
  <2>1. creating' \in [Requests -> SUBSET Jobs]
    <3>1. Expected(r) \in SUBSET Jobs /\ creating \in [Requests -> SUBSET Jobs]
      BY Asked, TypeParts DEF SagasOK, Jobs
    <3> QED BY <3>1 DEF OnNameResolved
  <2> QED BY <1>2, <2>1, TypeParts DEF OnNameResolved, SagasOK, backward
<1>5. RequestsOK' /\ StoredOK' /\ TokensOK'
  BY Frames DEF OnNameResolved, stored, deletion
<1> QED BY <1>3, <1>4, <1>5, TypePartsNext

LEMMA StartCompensationsType ==
  ASSUME TypeOK, NEW r \in Requests, NEW operations \in SUBSET Operations,
         StartCompensations(r, operations)
  PROVE  /\ box' \in Seq(Message)
         /\ saga' \in [Requests -> {"none", "naming", "provisioning", "persisting",
                                    "compensating", "succeeded", "failed"}]
         /\ counter' \in [Requests -> 0..3]
         /\ erasing' \in [Requests -> SUBSET Operations]
         /\ undo' \in [Requests -> [Operations -> {"none", "requested", "replied"}]]
<1> DEFINE undone == Undone(r, operations)
<1>0. box \in Seq(Message)
  BY TypeParts DEF ManagerOK
<1>1. undone \subseteq Operations /\ Compensations(operations, undone) \in 0..3
  BY OperationsCount DEF Undone, Compensations
<1>2. CASE Tell(r, FALSE, box) /\ UNCHANGED <<counter, backward>>
  BY <1>0, <1>2, TellType, TypeParts DEF SagasOK, backward
<1>3. CASE /\ saga' = [saga EXCEPT ![r] = "compensating"]
           /\ counter' = [counter EXCEPT ![r] = Compensations(operations, undone)]
           /\ erasing' = [erasing EXCEPT ![r] = undone]
           /\ undo' = [undo EXCEPT ![r] = [o \in Operations |->
                         IF o \in undone THEN "requested" ELSE "none"]]
           /\ UNCHANGED box
  <2> HIDE DEF undone
  <2> QED BY <1>0, <1>1, <1>3, TypeParts DEF SagasOK
<1> QED BY <1>2, <1>3 DEF StartCompensations

LEMMA OnParallelResponseType ==
  ASSUME TypeOK, NEW r \in Requests, OnParallelResponse(r)
  PROVE  TypeOK'
<1>1. /\ ManagerOK' /\ SagasOK'
  <2>1. CASE /\ saga' = [saga EXCEPT ![r] = "persisting"]
             /\ creating' = [creating EXCEPT ![r] = @ \cup {"ENTITY"}]
             /\ UNCHANGED <<box, counter, backward>>
    BY <2>1, TypeParts DEF OnParallelResponse, ManagerOK, SagasOK, backward, Jobs
  <2>2. CASE StartCompensations(r, ToCompensate(r)) /\ UNCHANGED creating
    <3>1. ToCompensate(r) \in SUBSET Operations
      BY DEF ToCompensate
    <3> QED BY <2>2, <3>1, StartCompensationsType, TypeParts
            DEF OnParallelResponse, ManagerOK, SagasOK
  <2> QED BY <2>1, <2>2 DEF OnParallelResponse
<1>2. RequestsOK' /\ StoredOK' /\ TokensOK'
  BY Frames DEF OnParallelResponse, stored, deletion
<1> QED BY <1>1, <1>2, TypePartsNext

LEMMA OnTenantResponseType ==
  ASSUME TypeOK, NEW r \in Requests, OnTenantResponse(r)
  PROVE  TypeOK'
<1>1. /\ ManagerOK' /\ SagasOK'
  <2>1. CASE Tell(r, TRUE, box) /\ UNCHANGED <<counter, backward>>
    <3>1. box \in Seq(Message)
      BY TypeParts DEF ManagerOK
    <3> QED BY <2>1, <3>1, TellType, TypeParts
            DEF OnTenantResponse, ManagerOK, SagasOK, forward, backward
  <2>2. CASE StartCompensations(r, Operations)
    BY <2>2, StartCompensationsType, TypeParts DEF OnTenantResponse, ManagerOK, SagasOK, forward
  <2> QED BY <2>1, <2>2 DEF OnTenantResponse
<1>2. RequestsOK' /\ StoredOK' /\ TokensOK'
  BY Frames DEF OnTenantResponse, stored, deletion
<1> QED BY <1>1, <1>2, TypePartsNext

LEMMA OnCompensationCompleteType ==
  ASSUME TypeOK, NEW r \in Requests, OnCompensationComplete(r)
  PROVE  TypeOK'
<1>1. box \in Seq(Message) /\ Tell(r, FALSE, box)
  BY TypeParts DEF OnCompensationComplete, ManagerOK
<1>2. ManagerOK' /\ SagasOK'
  BY <1>1, TellType, TypeParts
     DEF OnCompensationComplete, ManagerOK, SagasOK, forward, backward
<1>3. RequestsOK' /\ StoredOK' /\ TokensOK'
  BY Frames DEF OnCompensationComplete, stored, deletion
<1> QED BY <1>2, <1>3, TypePartsNext

(* The bus.                                                                 *)
LEMMA ReplyType ==
  ASSUME TypeOK, NEW r \in Requests, NEW j \in Jobs, NEW outcome \in {"ok", "error"},
         Reply(r, j, outcome)
  PROVE  reply' \in [Requests -> [Jobs -> {"none", "ok", "error"}]]
  BY TypeParts DEF Reply, SagasOK

LEMMA ProvisionType ==
  ASSUME TypeOK, NEW r \in Requests, NEW o \in Operations, Provision(r, o)
  PROVE  TypeOK'
<1>1. SagasOK'
  <2>1. reply' \in [Requests -> [Jobs -> {"none", "ok", "error"}]]
    BY ReplyType DEF Provision, Jobs
  <2> QED BY <2>1, TypeParts DEF Provision, SagasOK, backward
<1>2. StoredOK'
  BY Asked, TypeParts DEF Provision, StoredOK
<1>3. RequestsOK' /\ ManagerOK' /\ TokensOK'
  BY Frames DEF Provision, manager, deletion
<1> QED BY <1>1, <1>2, <1>3, TypePartsNext

LEMMA SkipIngressType ==
  ASSUME TypeOK, NEW r \in Requests, SkipIngress(r)
  PROVE  TypeOK'
<1>1. SagasOK'
  <2>1. reply' \in [Requests -> [Jobs -> {"none", "ok", "error"}]]
    BY ReplyType DEF SkipIngress, Jobs, Operations
  <2> QED BY <2>1, TypeParts DEF SkipIngress, SagasOK, backward
<1>2. RequestsOK' /\ ManagerOK' /\ StoredOK' /\ TokensOK'
  BY Frames DEF SkipIngress, manager, stored, deletion
<1> QED BY <1>1, <1>2, TypePartsNext

LEMMA PersistType ==
  ASSUME TypeOK, NEW r \in Requests, Persist(r)
  PROVE  TypeOK'
<1>1. SagasOK'
  <2>1. reply' \in [Requests -> [Jobs -> {"none", "ok", "error"}]]
    BY ReplyType DEF Persist, Jobs
  <2> QED BY <2>1, TypeParts DEF Persist, SagasOK, backward
<1>2. StoredOK'
  BY TypeParts DEF Persist, StoredOK
<1>3. RequestsOK' /\ ManagerOK' /\ TokensOK'
  BY Frames DEF Persist, manager, deletion
<1> QED BY <1>1, <1>2, <1>3, TypePartsNext

LEMMA BusTimeoutType ==
  ASSUME TypeOK, NEW r \in Requests, NEW j \in Jobs, BusTimeout(r, j)
  PROVE  TypeOK'
<1>1. SagasOK'
  <2>1. reply' \in [Requests -> [Jobs -> {"none", "ok", "error"}]]
    BY ReplyType DEF BusTimeout
  <2> QED BY <2>1, TypeParts DEF BusTimeout, SagasOK, backward
<1>2. RequestsOK' /\ ManagerOK' /\ StoredOK' /\ TokensOK'
  BY Frames, TimesOutType DEF BusTimeout, manager, stored, deletion
<1> QED BY <1>1, <1>2, TypePartsNext

LEMMA RollBackType ==
  ASSUME TypeOK, NEW r \in Requests, NEW o \in Operations, RollBack(r, o) \/ RollBackTimeout(r, o)
  PROVE  TypeOK'
<1>1. undo' \in [Requests -> [Operations -> {"none", "requested", "replied"}]]
  <2>1. undo \in [Requests -> [Operations -> {"none", "requested", "replied"}]]
    BY TypeParts DEF SagasOK
  <2>2. PICK w \in {"none", "requested", "replied"} : undo' = [undo EXCEPT ![r][o] = w]
    BY <2>1 DEF RollBack, RollBackTimeout, Replied
  <2> QED BY <2>1, <2>2
<1>2. SagasOK'
  BY <1>1, TypeParts DEF RollBack, RollBackTimeout, SagasOK, forward
<1>3. StoredOK'
  BY TypeParts DEF RollBack, RollBackTimeout, StoredOK, stored
<1>4. RequestsOK' /\ ManagerOK' /\ TokensOK'
  BY Frames, TimesOutType DEF RollBack, RollBackTimeout, manager, deletion
<1> QED BY <1>2, <1>3, <1>4, TypePartsNext

(* The deletion.                                                            *)
LEMMA RequestDeletionType ==
  ASSUME TypeOK, NEW t \in Requests, RequestDeletion(t)
  PROVE  TypeOK'
<1> DEFINE m == [of |-> t, given |-> FALSE, target |-> None]
<1>1. tokens \in Seq(Token) /\ m \in Token /\ tokens' = Append(tokens, m)
  BY TypeParts DEF RequestDeletion, TokensOK, Token
<1> HIDE DEF m
<1>2. /\ tokens' \in Seq(Token) /\ Len(tokens) \in Nat /\ Len(tokens') = Len(tokens) + 1
      /\ DOMAIN tokens \subseteq DOMAIN tokens'
  BY <1>1, AppendAt
<1>3. deletionTokens' \in [Hosts -> 0..Len(tokens')]
  <2>1. 0..Len(tokens) \subseteq 0..Len(tokens') /\ UNCHANGED deletionTokens
    BY <1>2 DEF RequestDeletion
  <2> QED BY <2>1, TypeParts DEF TokensOK
<1>4. TokensOK'
  <2>1. UNCHANGED <<confirmed, deleting>>
    BY DEF RequestDeletion
  <2>2. confirmed' \subseteq DOMAIN tokens'
    BY <1>2, <2>1, TypeParts DEF TokensOK
  <2>3. deleting' \subseteq (DOMAIN tokens') \X Jobs
    BY <1>2, <2>1, TypeParts DEF TokensOK
  <2> QED BY <1>2, <1>3, <2>2, <2>3 DEF TokensOK
<1>5. RequestsOK'
  BY TypeParts DEF RequestDeletion, RequestsOK
<1>6. ManagerOK' /\ SagasOK' /\ StoredOK'
  BY Frames DEF RequestDeletion, manager, forward, backward, stored
<1> QED BY <1>4, <1>5, <1>6, TypePartsNext

LEMMA ConfirmDeletionType ==
  ASSUME TypeOK, NEW n \in DOMAIN tokens, ConfirmDeletion(n)
  PROVE  TypeOK'
<1>1. TokensOK'
  <2>1. Len(tokens) \in Nat /\ TokensOK
    BY TypeParts, LenProperties DEF TokensOK
  <2>2. deletionTokens' \in [Hosts -> 0..Len(tokens)]
    <3>1. 0 \in 0..Len(tokens) /\ deletionTokens \in [Hosts -> 0..Len(tokens)]
      BY <2>1 DEF TokensOK
    <3>2. deletionTokens' = [deletionTokens EXCEPT ![Host(tokens[n].of)] = 0]
      BY DEF ConfirmDeletion
    <3> QED BY <3>1, <3>2
  <2>3. confirmed' \subseteq DOMAIN tokens /\ UNCHANGED <<tokens, deleting>>
    BY <2>1 DEF ConfirmDeletion, TokensOK
  <2> QED BY <2>1, <2>2, <2>3 DEF TokensOK
<1>2. RequestsOK' /\ ManagerOK' /\ SagasOK' /\ StoredOK'
  BY Frames DEF ConfirmDeletion, manager, forward, backward, stored
<1> QED BY <1>1, <1>2, TypePartsNext

(* The fields of a token, and a token that was given a target.              *)
LEMMA TokenAt ==
  ASSUME TypeOK, NEW n \in DOMAIN tokens
  PROVE  /\ tokens[n].of \in Requests /\ tokens[n].target \in Requests \cup {None}
         /\ \A t \in Requests :
              LET changed == [tokens EXCEPT ![n].target = t]
              IN  /\ changed \in Seq(Token)
                  /\ DOMAIN changed = DOMAIN tokens /\ Len(changed) = Len(tokens)
                  /\ changed[n].of = tokens[n].of /\ changed[n].target = t
                  /\ changed[n].given = tokens[n].given
                  /\ \A m \in DOMAIN tokens \ {n} : changed[m] = tokens[m]
<1>1. tokens \in Seq(Token) /\ Len(tokens) \in Nat /\ tokens \in [1..Len(tokens) -> Token]
      /\ DOMAIN tokens = 1..Len(tokens)
  BY TypeParts, LenProperties DEF TokensOK
<1>2. tokens[n] \in Token
  BY <1>1
<1>3. tokens[n].of \in Requests /\ tokens[n].target \in Requests \cup {None}
  BY <1>2 DEF Token
<1>4. ASSUME NEW t \in Requests
      PROVE  LET changed == [tokens EXCEPT ![n].target = t]
             IN  /\ changed \in Seq(Token)
                 /\ DOMAIN changed = DOMAIN tokens /\ Len(changed) = Len(tokens)
                 /\ changed[n].of = tokens[n].of /\ changed[n].target = t
                 /\ changed[n].given = tokens[n].given
                 /\ \A m \in DOMAIN tokens \ {n} : changed[m] = tokens[m]
  <2> DEFINE changed == [tokens EXCEPT ![n].target = t]
             new == [tokens[n] EXCEPT !.target = t]
  <2>1. new \in Token /\ new.of = tokens[n].of /\ new.target = t
      /\ new.given = tokens[n].given
    BY <1>2 DEF Token
  <2>2. changed = [tokens EXCEPT ![n] = new]
    OBVIOUS
  <2> HIDE DEF new
  <2>3. /\ changed \in [1..Len(tokens) -> Token] /\ changed[n] = new
        /\ \A m \in DOMAIN tokens \ {n} : changed[m] = tokens[m]
    BY <1>1, <2>1, <2>2
  <2> HIDE DEF changed
  <2>4. changed \in Seq(Token) /\ Len(changed) = Len(tokens)
    BY <1>1, <2>3, LenProperties, SeqDef
  <2>5. DOMAIN changed = DOMAIN tokens
    BY <1>1, <2>3
  <2>6. /\ changed \in Seq(Token)
        /\ DOMAIN changed = DOMAIN tokens /\ Len(changed) = Len(tokens)
        /\ changed[n].of = tokens[n].of /\ changed[n].target = t
        /\ changed[n].given = tokens[n].given
        /\ \A m \in DOMAIN tokens \ {n} : changed[m] = tokens[m]
    BY <2>1, <2>3, <2>4, <2>5
  <2> QED BY <2>6 DEF changed
<1> QED BY <1>3, <1>4

(* A token that is given.                                                   *)
LEMMA GivenAt ==
  ASSUME TypeOK, NEW n \in DOMAIN tokens
  PROVE  LET changed == [tokens EXCEPT ![n].given = TRUE]
         IN  /\ changed \in Seq(Token)
             /\ DOMAIN changed = DOMAIN tokens /\ Len(changed) = Len(tokens)
             /\ changed[n].of = tokens[n].of /\ changed[n].target = tokens[n].target
             /\ changed[n].given
             /\ \A m \in DOMAIN tokens \ {n} : changed[m] = tokens[m]
<1>1. tokens \in Seq(Token) /\ Len(tokens) \in Nat /\ tokens \in [1..Len(tokens) -> Token]
      /\ DOMAIN tokens = 1..Len(tokens)
  BY TypeParts, LenProperties DEF TokensOK
<1>2. tokens[n] \in Token
  BY <1>1
<1> DEFINE changed == [tokens EXCEPT ![n].given = TRUE]
           new == [tokens[n] EXCEPT !.given = TRUE]
<1>3. new \in Token /\ new.of = tokens[n].of /\ new.target = tokens[n].target /\ new.given
  BY <1>2 DEF Token
<1>4. changed = [tokens EXCEPT ![n] = new]
  OBVIOUS
<1> HIDE DEF new
<1>5. /\ changed \in [1..Len(tokens) -> Token] /\ changed[n] = new
      /\ \A m \in DOMAIN tokens \ {n} : changed[m] = tokens[m]
  BY <1>1, <1>3, <1>4
<1> HIDE DEF changed
<1>6. changed \in Seq(Token) /\ Len(changed) = Len(tokens)
  BY <1>1, <1>5, LenProperties, SeqDef
<1>7. DOMAIN changed = DOMAIN tokens
  BY <1>1, <1>5
<1>8. /\ changed \in Seq(Token)
      /\ DOMAIN changed = DOMAIN tokens /\ Len(changed) = Len(tokens)
      /\ changed[n].of = tokens[n].of /\ changed[n].target = tokens[n].target
      /\ changed[n].given
      /\ \A m \in DOMAIN tokens \ {n} : changed[m] = tokens[m]
  BY <1>3, <1>5, <1>6, <1>7
<1> QED BY <1>8 DEF changed

LEMMA GiveTokenType ==
  ASSUME TypeOK, NEW n \in DOMAIN tokens, GiveToken(n)
  PROVE  TypeOK'
<1>1. TokensOK'
  <2>1. TokensOK /\ UNCHANGED <<confirmed, deleting>>
    BY TypeParts DEF GiveToken
  <2>2. tokens' \in Seq(Token) /\ DOMAIN tokens' = DOMAIN tokens /\ Len(tokens') = Len(tokens)
    BY GivenAt DEF GiveToken
  <2>3. n \in 0..Len(tokens) /\ deletionTokens \in [Hosts -> 0..Len(tokens)]
    BY <2>1, LenProperties DEF TokensOK
  <2>4. deletionTokens' = [deletionTokens EXCEPT ![Host(tokens[n].of)] = n]
    BY DEF GiveToken
  <2>5. deletionTokens' \in [Hosts -> 0..Len(tokens)]
    BY <2>3, <2>4
  <2> QED BY <2>1, <2>2, <2>5 DEF TokensOK
<1>2. RequestsOK' /\ ManagerOK' /\ SagasOK' /\ StoredOK'
  BY Frames DEF GiveToken, manager, forward, backward, stored
<1> QED BY <1>1, <1>2, TypePartsNext

LEMMA ExecuteDeletionType ==
  ASSUME TypeOK, NEW n \in DOMAIN tokens, ExecuteDeletion(n)
  PROVE  TypeOK'
<1>1. TokensOK'
  <2>1. TokensOK /\ confirmed' \subseteq DOMAIN tokens /\ UNCHANGED deletionTokens
    BY TypeParts DEF ExecuteDeletion, TokensOK
  <2>2. CASE UNCHANGED <<tokens, deleting>>
    BY <2>1, <2>2 DEF TokensOK
  <2>3. ASSUME NEW t \in tenants,
               tokens' = [tokens EXCEPT ![n].target = t],
               deleting' = deleting \cup ({n} \X (Expected(t) \cup {"ENTITY"}))
        PROVE  TokensOK'
    <3>1. t \in Requests /\ Expected(t) \cup {"ENTITY"} \subseteq Jobs
      BY Asked, TypeParts DEF StoredOK, Jobs
    <3>2. tokens' \in Seq(Token) /\ DOMAIN tokens' = DOMAIN tokens /\ Len(tokens') = Len(tokens)
      BY <2>3, <3>1, TokenAt
    <3>3. deleting' \subseteq (DOMAIN tokens) \X Jobs
      BY <2>1, <2>3, <3>1 DEF TokensOK
    <3> QED BY <2>1, <3>2, <3>3 DEF TokensOK
  <2> QED BY <2>2, <2>3 DEF ExecuteDeletion
<1>2. RequestsOK' /\ ManagerOK' /\ SagasOK' /\ StoredOK'
  BY Frames DEF ExecuteDeletion, manager, forward, backward, stored
<1> QED BY <1>1, <1>2, TypePartsNext

LEMMA DeleteType ==
  ASSUME TypeOK, NEW n \in DOMAIN tokens, NEW j \in Jobs, Delete(n, j)
  PROVE  TypeOK'
<1>1. TokensOK'
  BY TypeParts DEF Delete, TokensOK
<1>2. StoredOK'
  BY TypeParts DEF Delete, StoredOK, stored
<1>3. RequestsOK' /\ ManagerOK' /\ SagasOK'
  BY Frames DEF Delete, manager, forward, backward
<1> QED BY <1>1, <1>2, <1>3, TypePartsNext

LEMMA InitType == Init => TypeOK
<1> SUFFICES ASSUME Init PROVE TypeOK
  OBVIOUS
<1>1. RequestsOK
  BY ProvisioningAssumption DEF Init, RequestsOK
<1>2. ManagerOK
  BY EmptySeq DEF Init, ManagerOK, Status
<1>3. SagasOK
  BY DEF Init, SagasOK
<1>4. StoredOK
  BY DEF Init, StoredOK
<1>5. TokensOK
  <2>1. tokens = <<>> /\ Len(tokens) = 0 /\ tokens \in Seq(Token)
    BY EmptySeq DEF Init
  <2>2. deletionTokens \in [Hosts -> 0..Len(tokens)]
    BY <2>1 DEF Init
  <2> QED BY <2>1, <2>2 DEF Init, TokensOK
<1> QED BY <1>1, <1>2, <1>3, <1>4, <1>5, TypeParts

LEMMA StutterType ==
  ASSUME TypeOK, UNCHANGED vars
  PROVE  TypeOK'
  BY Frames, TypePartsNext DEF vars, manager, forward, backward, stored, deletion

LEMMA NextType == TypeOK /\ [Next]_vars => TypeOK'
<1> SUFFICES ASSUME TypeOK, [Next]_vars PROVE TypeOK'
  OBVIOUS
<1>1. ASSUME NEW r \in Requests,
             Create(r) \/ StartCreateTenant(r) \/ AskTimeout(r) \/ SagaStep(r) \/ BusStep(r)
               \/ RequestDeletion(r)
      PROVE  TypeOK'
  BY <1>1, CreateType, StartCreateTenantType, AskTimeoutType, OnNameResolvedType,
     OnParallelResponseType, OnTenantResponseType, OnCompensationCompleteType, ProvisionType,
     SkipIngressType, PersistType, BusTimeoutType, RollBackType, RequestDeletionType DEF SagaStep, BusStep
<1>2. ASSUME NEW n \in DOMAIN tokens,
             GiveToken(n) \/ ConfirmDeletion(n) \/ ExecuteDeletion(n) \/ \E j \in Jobs : Delete(n, j)
      PROVE  TypeOK'
  BY <1>2, GiveTokenType, ConfirmDeletionType, ExecuteDeletionType, DeleteType
<1> QED BY <1>1, <1>2, StutterType, OnCreateTenantType, OnSagaResponseType DEF Next

(* Every variable keeps its type.                                           *)
THEOREM Typing == Spec => []TypeOK
  BY InitType, NextType, PTL DEF Spec

-----------------------------------------------------------------------------
(* The sagas *)

(* A saga nothing happens to.                                               *)
LEMMA SagaFrame ==
  ASSUME UNCHANGED asked, NEW q \in Requests, AskedOK(q), UndoneOK(q),
         saga'[q] = saga[q], creating'[q] = creating[q], reply'[q] = reply[q],
         counter'[q] = counter[q], erasing'[q] = erasing[q], undo'[q] = undo[q]
  PROVE  AskedOK(q)' /\ UndoneOK(q)'
<1>1. /\ Identity(q)' = Identity(q) /\ Expected(q)' = Expected(q) /\ Rolled(q)' = Rolled(q)
      /\ Succeeded(q)' = Succeeded(q) /\ Errors(q)' = Errors(q)
  BY DEF Identity, Expected, Rolled, Succeeded, Errors
<1>2. AskedOK(q)'
  BY <1>1 DEF AskedOK
<1>3. UndoneOK(q)'
  BY <1>1 DEF UndoneOK
<1> QED BY <1>2, <1>3

(* Something happens to one saga only.                                      *)
LEMMA SagaStepInv ==
  ASSUME SagaInv, NEW r \in Requests, UNCHANGED asked, AskedOK(r)', UndoneOK(r)',
         \A q \in Requests \ {r} :
           /\ saga'[q] = saga[q] /\ creating'[q] = creating[q] /\ reply'[q] = reply[q]
           /\ counter'[q] = counter[q] /\ erasing'[q] = erasing[q] /\ undo'[q] = undo[q]
  PROVE  SagaInv'
<1>1. \A q \in Requests \ {r} : AskedOK(q)' /\ UndoneOK(q)'
  BY SagaFrame DEF SagaInv
<1> QED BY <1>1 DEF SagaInv

LEMMA SagasUnchanged ==
  ASSUME SagaInv, UNCHANGED <<asked, saga, counter, forward, backward>>
  PROVE  SagaInv'
<1>1. \A q \in Requests : AskedOK(q)' /\ UndoneOK(q)'
  BY SagaFrame DEF SagaInv, forward, backward
<1> QED BY <1>1 DEF SagaInv

(* Before it asks for anything.                                             *)
LEMMA NothingAsked ==
  ASSUME NEW r \in Requests, AskedOK(r), saga[r] \in {"none", "naming"}
  PROVE  /\ creating[r] = {} /\ Succeeded(r) = {} /\ Errors(r) = {}
         /\ \A o \in Operations : reply[r][o] = "none"
         /\ reply[r]["ENTITY"] = "none"
  BY DEF AskedOK, Succeeded, Errors, Jobs

(* The saga of a request begins, or fails at once.                          *)
LEMMA OnCreateTenantSaga ==
  ASSUME TypeOK, SagaInv, MailInv, OnCreateTenant
  PROVE  SagaInv'
<1>0. PICK r \in Requests : r = Head(box).of
  BY HeadBox DEF OnCreateTenant
<1>1. saga[r] = "none"
  BY <1>0, HeadBox DEF OnCreateTenant, MailInv
<1>2. /\ UNCHANGED <<asked, creating, reply, counter, erasing, undo>>
      /\ \/ saga' = [saga EXCEPT ![r] = "failed"]
         \/ saga' = [saga EXCEPT ![r] = "naming"] /\ Identity(r) # "missing"
  BY <1>0 DEF OnCreateTenant, Tell, forward, backward
<1>3. saga \in [Requests -> {"none", "naming", "provisioning", "persisting",
                             "compensating", "succeeded", "failed"}]
  BY TypeParts DEF SagasOK
<1>4. saga'[r] \in {"naming", "failed"} /\ (saga'[r] = "naming" => Identity(r) # "missing")
      /\ \A q \in Requests \ {r} : saga'[q] = saga[q]
  BY <1>1, <1>2, <1>3
<1>5. Identity(r)' = Identity(r) /\ Expected(r)' = Expected(r) /\ Rolled(r)' = Rolled(r)
  BY <1>2 DEF Identity, Expected, Rolled
<1>6. AskedOK(r) /\ UndoneOK(r)
  BY <1>1 DEF SagaInv
<1>7. AskedOK(r)'
  BY <1>1, <1>2, <1>4, <1>5, <1>6 DEF AskedOK, Jobs
<1>8. UndoneOK(r)'
  <2>1. Succeeded(r)' = Succeeded(r)
    BY <1>2 DEF Succeeded
  <2>2. Succeeded(r)' = {}
    BY <1>1, <1>6, <2>1, NothingAsked
  <2>3. erasing'[r] = {} /\ Rolled(r)' = {}
    BY <1>1, <1>2, <1>5, <1>6 DEF UndoneOK
  <2> QED BY <1>4, <2>2, <2>3 DEF UndoneOK
<1> QED BY <1>1, <1>2, <1>4, <1>7, <1>8, SagaStepInv

LEMMA OnNameResolvedSaga ==
  ASSUME TypeOK, SagaInv, NEW r \in Requests, OnNameResolved(r)
  PROVE  SagaInv'
<1>1. /\ UNCHANGED <<asked, reply, counter, erasing, undo>> /\ saga[r] = "naming"
      /\ \/ saga' = [saga EXCEPT ![r] = "failed"] /\ UNCHANGED creating
         \/ /\ saga' = [saga EXCEPT ![r] = "provisioning"]
            /\ creating' = [creating EXCEPT ![r] = Expected(r)]
  BY DEF OnNameResolved, Tell, backward
<1>2. SagasOK
  BY TypeParts
<1>3. /\ \A q \in Requests \ {r} : saga'[q] = saga[q] /\ creating'[q] = creating[q]
      /\ \/ saga'[r] = "failed" /\ creating'[r] = creating[r]
         \/ saga'[r] = "provisioning" /\ creating'[r] = Expected(r)
  BY <1>1, <1>2 DEF SagasOK
<1>4. Identity(r)' = Identity(r) /\ Expected(r)' = Expected(r) /\ Rolled(r)' = Rolled(r)
  BY <1>1 DEF Identity, Expected, Rolled
<1>5. AskedOK(r) /\ UndoneOK(r)
  BY DEF SagaInv
<1>6. AskedOK(r)'
  <2>1. "ENTITY" \notin Expected(r)
    BY Asked DEF Operations
  <2> QED BY <1>1, <1>3, <1>4, <1>5, <2>1 DEF AskedOK, Jobs
<1>7. UndoneOK(r)'
  <2>1. Succeeded(r)' = Succeeded(r)
    BY <1>1 DEF Succeeded
  <2>2. Succeeded(r)' = {}
    BY <1>1, <1>5, <2>1, NothingAsked
  <2>3. erasing'[r] = {} /\ Rolled(r)' = {}
    BY <1>1, <1>4, <1>5 DEF UndoneOK
  <2> QED BY <1>3, <2>2, <2>3 DEF UndoneOK
<1> QED BY <1>1, <1>3, <1>6, <1>7, SagaStepInv

(* A saga that gives up asks to roll back everything that was reported      *)
(* provisioned; nothing, only when the realm nobody asked for is all that   *)
(* did not fail.                                                            *)
LEMMA CompensationsBegin ==
  ASSUME TypeOK, SagaInv, NEW r \in Requests, saga[r] \in {"provisioning", "persisting"},
         NEW operations, operations \in {ToCompensate(r), Operations},
         StartCompensations(r, operations), UNCHANGED <<asked, creating, reply>>,
         \A o \in Expected(r) : reply[r][o] # "none",
         ~("ENTITY" \in creating[r] /\ reply[r]["ENTITY"] = "none"), reply[r]["ENTITY"] # "ok"
  PROVE  SagaInv'
<1> DEFINE undone == Undone(r, operations)
<1>1. SagasOK /\ AskedOK(r) /\ UndoneOK(r)
  BY TypeParts DEF SagaInv
<1>2. /\ Identity(r)' = Identity(r) /\ Expected(r)' = Expected(r)
      /\ Succeeded(r)' = Succeeded(r) /\ Errors(r)' = Errors(r)
  BY DEF Identity, Expected, Succeeded, Errors
<1>3. Succeeded(r) \subseteq undone /\ undone \subseteq Operations
  BY DEF Succeeded, Errors, ToCompensate, Undone
<1>4. /\ Identity(r) # "missing"
      /\ Identity(r) # "keycloak" <=> "REALM" \notin Expected(r)
      /\ Identity(r) \in {"keycloak", "external", "missing"}
  BY <1>1, Asked DEF AskedOK
<1>5. undone = {} /\ operations # {} => Identity(r) = "external" /\ Errors(r) = {"INGRESS", "SCHEMA"}
  <2> SUFFICES ASSUME undone = {}, operations # {}
               PROVE  Identity(r) = "external" /\ Errors(r) = {"INGRESS", "SCHEMA"}
    OBVIOUS
  <2>1. operations = {"REALM"} /\ "REALM" \notin Succeeded(r)
    BY DEF Undone, ToCompensate
  <2>2. operations = Operations \ Errors(r) /\ Errors(r) \subseteq Operations
    BY <2>1 DEF ToCompensate, Errors, Operations
  <2>3. Errors(r) = {"INGRESS", "SCHEMA"} /\ "REALM" \notin Errors(r)
    BY <2>1, <2>2 DEF Operations
  <2>4. reply[r]["REALM"] = "none"
    BY <1>1, <2>1, <2>3 DEF Succeeded, Errors, SagasOK, Operations, Jobs
  <2> QED BY <1>4, <2>3, <2>4
<1>6. CASE operations = {} /\ Tell(r, FALSE, box) /\ UNCHANGED <<counter, backward>>
  <2>1. /\ saga'[r] = "failed" /\ UNCHANGED <<counter, erasing, undo>>
        /\ \A q \in Requests \ {r} : saga'[q] = saga[q]
    BY <1>1, <1>6 DEF Tell, SagasOK, backward
  <2>2. Succeeded(r)' = {}
    BY <1>2, <1>3, <1>6 DEF Undone
  <2>3. AskedOK(r)'
    BY <1>1, <1>2, <2>1 DEF AskedOK
  <2>4. UndoneOK(r)'
    BY <2>1, <2>2 DEF UndoneOK
  <2> QED BY <2>1, <2>3, <2>4, SagaStepInv
<1>7. CASE /\ operations # {}
           /\ saga' = [saga EXCEPT ![r] = "compensating"]
           /\ counter' = [counter EXCEPT ![r] = Compensations(operations, undone)]
           /\ erasing' = [erasing EXCEPT ![r] = undone]
           /\ undo' = [undo EXCEPT ![r] = [o \in Operations |->
                         IF o \in undone THEN "requested" ELSE "none"]]
  <2> HIDE DEF undone
  <2>1. /\ saga'[r] = "compensating" /\ counter'[r] = Cardinality(undone)
        /\ \A q \in Requests \ {r} :
             /\ saga'[q] = saga[q] /\ counter'[q] = counter[q]
             /\ erasing'[q] = erasing[q] /\ undo'[q] = undo[q]
    BY <1>1, <1>7 DEF SagasOK, Compensations
  <2>2. \A o \in Operations : undo'[r][o] = IF o \in undone THEN "requested" ELSE "none"
    BY <1>1, <1>7 DEF SagasOK
  <2>3. Rolled(r)' = undone
    BY <1>3, <2>2 DEF Rolled
  <2>4. AskedOK(r)'
    BY <1>1, <1>2, <2>1 DEF AskedOK
  <2>5. UndoneOK(r)'
    BY <1>2, <1>3, <1>5, <1>7, <2>1, <2>3 DEF UndoneOK
  <2> QED BY <2>1, <2>4, <2>5, SagaStepInv
<1> QED BY <1>6, <1>7 DEF StartCompensations

LEMMA OnParallelResponseSaga ==
  ASSUME TypeOK, SagaInv, NEW r \in Requests, OnParallelResponse(r)
  PROVE  SagaInv'
<1>1. /\ saga[r] = "provisioning" /\ UNCHANGED <<asked, reply>>
      /\ \A o \in Expected(r) : reply[r][o] # "none"
  BY DEF OnParallelResponse
<1>2. SagasOK /\ AskedOK(r) /\ UndoneOK(r)
  BY TypeParts DEF SagaInv
<1>3. ~("ENTITY" \in creating[r] /\ reply[r]["ENTITY"] = "none") /\ reply[r]["ENTITY"] # "ok"
  BY <1>1, <1>2 DEF AskedOK
<1>4. CASE StartCompensations(r, ToCompensate(r)) /\ UNCHANGED creating
  BY <1>1, <1>3, <1>4, CompensationsBegin
<1>5. CASE /\ Errors(r) = {} /\ saga' = [saga EXCEPT ![r] = "persisting"]
           /\ creating' = [creating EXCEPT ![r] = @ \cup {"ENTITY"}]
           /\ UNCHANGED <<counter, backward>>
  <2>1. /\ saga'[r] = "persisting" /\ creating'[r] = creating[r] \cup {"ENTITY"}
        /\ UNCHANGED <<counter, erasing, undo>>
        /\ \A q \in Requests \ {r} : saga'[q] = saga[q] /\ creating'[q] = creating[q]
    BY <1>2, <1>5 DEF SagasOK, backward
  <2>2. /\ Identity(r)' = Identity(r) /\ Expected(r)' = Expected(r)
        /\ Rolled(r)' = Rolled(r)
    BY <1>1, <2>1 DEF Identity, Expected, Rolled
  <2>3. \A o \in Expected(r) : o \in Jobs /\ reply[r][o] = "ok"
    BY <1>1, <1>2, <1>5, Asked DEF Errors, SagasOK, Jobs
  <2>4. AskedOK(r)'
    BY <1>1, <1>2, <2>1, <2>2, <2>3 DEF AskedOK
  <2>5. UndoneOK(r)'
    BY <1>1, <1>2, <2>1, <2>2 DEF UndoneOK
  <2> QED BY <1>1, <2>1, <2>4, <2>5, SagaStepInv
<1> QED BY <1>4, <1>5 DEF OnParallelResponse

LEMMA OnTenantResponseSaga ==
  ASSUME TypeOK, SagaInv, NEW r \in Requests, OnTenantResponse(r)
  PROVE  SagaInv'
<1>1. saga[r] = "persisting" /\ UNCHANGED <<asked, creating, reply>>
  BY DEF OnTenantResponse, forward
<1>2. SagasOK /\ AskedOK(r) /\ UndoneOK(r)
  BY TypeParts DEF SagaInv
<1>3. CASE reply[r]["ENTITY"] = "error" /\ StartCompensations(r, Operations)
  <2>1. \A o \in Expected(r) : reply[r][o] # "none"
    BY <1>1, <1>2 DEF AskedOK
  <2> QED BY <1>1, <1>3, <2>1, CompensationsBegin
<1>4. CASE reply[r]["ENTITY"] = "ok" /\ Tell(r, TRUE, box) /\ UNCHANGED <<counter, backward>>
  <2>1. /\ saga'[r] = "succeeded" /\ UNCHANGED <<counter, erasing, undo>>
        /\ \A q \in Requests \ {r} : saga'[q] = saga[q]
    BY <1>2, <1>4 DEF Tell, SagasOK, backward
  <2>2. Identity(r)' = Identity(r) /\ Expected(r)' = Expected(r) /\ Rolled(r)' = Rolled(r)
    BY <1>1, <2>1 DEF Identity, Expected, Rolled
  <2>3. AskedOK(r)'
    BY <1>1, <1>2, <1>4, <2>1, <2>2 DEF AskedOK
  <2>4. UndoneOK(r)'
    BY <1>1, <1>2, <2>1, <2>2 DEF UndoneOK
  <2> QED BY <1>1, <2>1, <2>3, <2>4, SagaStepInv
<1> QED BY <1>3, <1>4 DEF OnTenantResponse

(* The counter reaches zero when every rollback was answered.               *)
LEMMA OnCompensationCompleteSaga ==
  ASSUME TypeOK, SagaInv, NEW r \in Requests, OnCompensationComplete(r)
  PROVE  SagaInv'
<1> DEFINE replied == { o \in Operations : undo[r][o] = "replied" }
<1>1. /\ saga[r] = "compensating" /\ UNCHANGED <<asked, creating, reply, counter, erasing, undo>>
      /\ Cardinality(replied) = counter[r] /\ Tell(r, FALSE, box)
  BY DEF OnCompensationComplete, forward, backward
<1>2. SagasOK /\ AskedOK(r) /\ UndoneOK(r)
  BY TypeParts DEF SagaInv
<1>3. replied = Rolled(r)
  <2>1. replied \subseteq Rolled(r) /\ Rolled(r) \in SUBSET Operations
    BY DEF Rolled
  <2>2. Cardinality(replied) = Cardinality(Rolled(r))
    BY <1>1, <1>2 DEF UndoneOK
  <2> HIDE DEF replied
  <2> QED BY <2>1, <2>2, OperationsCount, FS_Subset
<1>4. saga'[r] = "failed" /\ \A q \in Requests \ {r} : saga'[q] = saga[q]
  BY <1>1, <1>2 DEF Tell, SagasOK
<1>5. /\ Identity(r)' = Identity(r) /\ Expected(r)' = Expected(r)
      /\ Succeeded(r)' = Succeeded(r)
  BY <1>1 DEF Identity, Expected, Succeeded
<1>6. AskedOK(r)'
  BY <1>1, <1>2, <1>4, <1>5 DEF AskedOK
<1>7. UndoneOK(r)'
  <2>1. \A o \in Succeeded(r) : undo[r][o] = "replied"
    BY <1>1, <1>2, <1>3 DEF UndoneOK
  <2> QED BY <1>1, <1>4, <1>5, <2>1 DEF UndoneOK
<1> QED BY <1>1, <1>4, <1>6, <1>7, SagaStepInv

(* An operation is replied to once, while the saga waits for it, and        *)
(* nothing that was replied changes.                                        *)
LEMMA ReplySaga ==
  ASSUME TypeOK, SagaInv, NEW r \in Requests, NEW j \in Jobs, j \in creating[r],
         NEW outcome \in {"ok", "error"}, Reply(r, j, outcome),
         creating' = [creating EXCEPT ![r] = @ \ {j}] \/ (outcome = "error" /\ UNCHANGED creating),
         UNCHANGED <<asked, saga, counter, erasing, undo>>
  PROVE  SagaInv'
<1>1. SagasOK /\ AskedOK(r) /\ UndoneOK(r)
  BY TypeParts DEF SagaInv
<1>2. /\ \A q \in Requests \ {r} : reply'[q] = reply[q] /\ creating'[q] = creating[q]
      /\ creating'[r] \subseteq creating[r]
      /\ \A i \in Jobs : reply'[r][i] = IF i = j /\ reply[r][i] = "none" THEN outcome ELSE reply[r][i]
  BY <1>1 DEF Reply, SagasOK
<1>3. /\ Identity(r)' = Identity(r) /\ Expected(r)' = Expected(r) /\ Rolled(r)' = Rolled(r)
      /\ Expected(r) \subseteq Jobs /\ Operations \subseteq Jobs /\ "ENTITY" \notin Operations
      /\ "ENTITY" \in Jobs /\ Expected(r) \subseteq Operations
  BY Asked DEF Identity, Expected, Rolled, Jobs, Operations
<1>4. saga[r] \notin {"none", "naming"}
  BY <1>1 DEF AskedOK
<1>5. j # "ENTITY" /\ reply[r][j] = "none" => saga[r] = "provisioning"
  BY <1>1 DEF AskedOK
<1>6. j = "ENTITY" /\ reply[r][j] = "none" => saga[r] = "persisting"
  BY <1>1 DEF AskedOK
<1>7. AskedOK(r)'
  <2>1. creating'[r] \subseteq Expected(r) \cup {"ENTITY"}
    BY <1>1, <1>2 DEF AskedOK
  <2>2. saga[r] # "provisioning" => \A o \in creating'[r] \ {"ENTITY"} : reply'[r][o] # "none"
    BY <1>1, <1>2, <1>3, <2>1 DEF AskedOK
  <2>3. "ENTITY" \in creating'[r] /\ reply'[r]["ENTITY"] = "none" => saga[r] = "persisting"
    BY <1>1, <1>2, <1>3 DEF AskedOK
  <2>4. reply'[r]["ENTITY"] = "ok" => saga[r] \in {"persisting", "succeeded"}
    BY <1>1, <1>2, <1>3, <1>6 DEF AskedOK
  <2>5. saga[r] \in {"persisting", "succeeded"} => \A o \in Expected(r) : reply'[r][o] = "ok"
    BY <1>1, <1>2, <1>3 DEF AskedOK
  <2>6. saga[r] = "succeeded" => reply'[r]["ENTITY"] = "ok"
    BY <1>1, <1>2, <1>3 DEF AskedOK
  <2>7. saga[r] \notin {"none", "failed"} => Identity(r) # "missing"
    BY <1>1 DEF AskedOK
  <2> QED BY <1>3, <1>4, <2>1, <2>2, <2>3, <2>4, <2>5, <2>6, <2>7 DEF AskedOK
<1>8. UndoneOK(r)'
  <2>1. saga[r] \in {"compensating", "failed"} =>
          Succeeded(r)' = Succeeded(r) /\ Errors(r)' = Errors(r)
    BY <1>2, <1>3, <1>5, <1>6 DEF Succeeded, Errors
  <2> QED BY <1>1, <1>3, <2>1 DEF UndoneOK
<1> QED BY <1>2, <1>7, <1>8, SagaStepInv

(* A rollback that is answered was asked for.                               *)
LEMMA RepliedSaga ==
  ASSUME TypeOK, SagaInv, NEW r \in Requests, NEW o \in Operations, Replied(r, o),
         \/ o \in erasing[r] /\ erasing' = [erasing EXCEPT ![r] = @ \ {o}]
         \/ UNCHANGED erasing,
         UNCHANGED <<asked, saga, creating, reply, counter>>
  PROVE  SagaInv'
<1>1. SagasOK /\ AskedOK(r) /\ UndoneOK(r)
  BY TypeParts DEF SagaInv
<1>2. /\ \A q \in Requests \ {r} : undo'[q] = undo[q] /\ erasing'[q] = erasing[q]
      /\ erasing'[r] \subseteq erasing[r]
      /\ \A p \in Operations : undo'[r][p] = IF p = o /\ undo[r][p] = "requested" THEN "replied"
                                             ELSE undo[r][p]
  BY <1>1 DEF Replied, SagasOK
<1>3. /\ Identity(r)' = Identity(r) /\ Expected(r)' = Expected(r)
      /\ Succeeded(r)' = Succeeded(r) /\ Errors(r)' = Errors(r)
  BY DEF Identity, Expected, Succeeded, Errors
<1>4. Rolled(r)' = Rolled(r)
  BY <1>2 DEF Rolled
<1>5. AskedOK(r)'
  BY <1>1, <1>3 DEF AskedOK
<1>6. UndoneOK(r)'
  <2>1. (\A p \in Succeeded(r) : undo[r][p] = "replied") =>
          \A p \in Succeeded(r) : undo'[r][p] = "replied"
    BY <1>2 DEF Succeeded
  <2> QED BY <1>1, <1>2, <1>3, <1>4, <2>1 DEF UndoneOK
<1> QED BY <1>2, <1>5, <1>6, SagaStepInv

LEMMA BusSaga ==
  ASSUME TypeOK, SagaInv, NEW r \in Requests, BusStep(r)
  PROVE  SagaInv'
<1>1. ASSUME NEW o \in Operations, Provision(r, o)
      PROVE  SagaInv'
  <2>1. /\ o \in Jobs /\ o \in creating[r] /\ creating' = [creating EXCEPT ![r] = @ \ {o}]
        /\ \E outcome \in {"ok", "error"} : Reply(r, o, outcome)
        /\ UNCHANGED <<asked, saga, counter, erasing, undo>>
    BY <1>1 DEF Provision, Jobs, backward
  <2> QED BY <2>1, ReplySaga
<1>2. CASE Persist(r)
  <2>1. /\ "ENTITY" \in Jobs /\ "ENTITY" \in creating[r]
        /\ creating' = [creating EXCEPT ![r] = @ \ {"ENTITY"}]
        /\ \E outcome \in {"ok", "error"} : Reply(r, "ENTITY", outcome)
        /\ UNCHANGED <<asked, saga, counter, erasing, undo>>
    BY <1>2 DEF Persist, Jobs, backward
  <2> QED BY <2>1, ReplySaga
<1>3. ASSUME NEW j \in Jobs, BusTimeout(r, j)
      PROVE  SagaInv'
  <2>1. /\ j \in creating[r] /\ UNCHANGED creating /\ Reply(r, j, "error")
        /\ UNCHANGED <<asked, saga, counter, erasing, undo>>
    BY <1>3 DEF BusTimeout, backward
  <2> QED BY <2>1, ReplySaga
<1>4. ASSUME NEW o \in Operations, RollBack(r, o) \/ RollBackTimeout(r, o)
      PROVE  SagaInv'
  <2>1. /\ Replied(r, o) /\ UNCHANGED <<asked, saga, creating, reply, counter>>
        /\ \/ o \in erasing[r] /\ erasing' = [erasing EXCEPT ![r] = @ \ {o}]
           \/ UNCHANGED erasing
    BY <1>4 DEF RollBack, RollBackTimeout, forward
  <2> QED BY <2>1, RepliedSaga
<1>5. CASE SkipIngress(r)
  <2>1. /\ "INGRESS" \in Jobs /\ "INGRESS" \in creating[r]
        /\ creating' = [creating EXCEPT ![r] = @ \ {"INGRESS"}]
        /\ Reply(r, "INGRESS", "ok") /\ UNCHANGED <<asked, saga, counter, erasing, undo>>
    BY <1>5 DEF SkipIngress, Jobs, Operations, backward
  <2> QED BY <2>1, ReplySaga
<1> QED BY <1>1, <1>2, <1>3, <1>4, <1>5 DEF BusStep

LEMMA InitSaga == Init => SagaInv
<1> SUFFICES ASSUME Init, NEW r \in Requests PROVE AskedOK(r) /\ UndoneOK(r)
  BY DEF SagaInv
<1>1. /\ saga[r] = "none" /\ creating[r] = {} /\ erasing[r] = {}
      /\ \A j \in Jobs : reply[r][j] = "none"
      /\ \A o \in Operations : undo[r][o] = "none"
  BY DEF Init
<1>2. AskedOK(r)
  BY <1>1 DEF AskedOK, Jobs
<1>3. UndoneOK(r)
  BY <1>1 DEF UndoneOK, Rolled
<1> QED BY <1>2, <1>3

LEMMA NextSaga == TypeOK /\ SagaInv /\ MailInv /\ [Next]_vars => SagaInv'
<1> SUFFICES ASSUME TypeOK, SagaInv, MailInv, [Next]_vars PROVE SagaInv'
  OBVIOUS
<1>1. ASSUME NEW r \in Requests,
             Create(r) \/ StartCreateTenant(r) \/ AskTimeout(r) \/ RequestDeletion(r)
      PROVE  SagaInv'
  BY <1>1, SagasUnchanged DEF Create, StartCreateTenant, AskTimeout, RequestDeletion
<1>2. ASSUME NEW r \in Requests, SagaStep(r) \/ BusStep(r)
      PROVE  SagaInv'
  BY <1>2, OnNameResolvedSaga, OnParallelResponseSaga, OnTenantResponseSaga,
     OnCompensationCompleteSaga, BusSaga DEF SagaStep
<1>3. ASSUME NEW n \in DOMAIN tokens,
             GiveToken(n) \/ ConfirmDeletion(n) \/ ExecuteDeletion(n) \/ \E j \in Jobs : Delete(n, j)
      PROVE  SagaInv'
  BY <1>3, SagasUnchanged DEF GiveToken, ConfirmDeletion, ExecuteDeletion, Delete
<1>4. CASE OnSagaResponse \/ UNCHANGED vars
  BY <1>4, SagasUnchanged DEF OnSagaResponse, vars
<1> QED BY <1>1, <1>2, <1>3, <1>4, OnCreateTenantSaga DEF Next

-----------------------------------------------------------------------------
(* The mailbox of the manager *)

(* What a message about a request says of its saga and of the callers. *)
Fits(m, sagas, callers) ==
  /\ m.kind = "CreateTenant" =>
       sagas[m.of] = "none" /\ callers[m.of] \notin Unasked
  /\ m.kind = "SagaResponse" =>
       sagas[m.of] = IF m.ok THEN "succeeded" ELSE "failed"
  /\ \A r \in Requests : callers[r] # m.of

AllFit(q, sagas, callers) == \A k \in DOMAIN q : Fits(q[k], sagas, callers)

Distinct(q) == \A j, k \in DOMAIN q : q[j].of = q[k].of => j = k

Given(sagas, callers) ==
  /\ \A r \in Requests : callers[r] \in Unasked => sagas[r] = "none"
  /\ \A r \in Requests : callers[r] \in Requests => sagas[callers[r]] = "succeeded"
  /\ \A r, s \in Requests : callers[r] \in Requests /\ callers[s] = callers[r] => r = s

LEMMA MailParts ==
  MailInv <=> AllFit(box, saga, caller) /\ Distinct(box) /\ Given(saga, caller)
<1>1. (\A k \in DOMAIN box :
         /\ box[k].kind = "CreateTenant" =>
              saga[box[k].of] = "none" /\ caller[box[k].of] \notin Unasked
         /\ box[k].kind = "SagaResponse" =>
              saga[box[k].of] = IF box[k].ok THEN "succeeded" ELSE "failed"
         /\ \A r \in Requests : caller[r] # box[k].of) <=> AllFit(box, saga, caller)
  BY DEF AllFit, Fits
<1> QED BY <1>1 DEF MailInv, GivenToOne, Distinct, Given

LEMMA MailPartsNext ==
  ASSUME AllFit(box', saga', caller'), Distinct(box'), Given(saga', caller')
  PROVE  MailInv'
<1>1. \A k \in DOMAIN box' :
         /\ box'[k].kind = "CreateTenant" =>
              saga'[box'[k].of] = "none" /\ caller'[box'[k].of] \notin Unasked
         /\ box'[k].kind = "SagaResponse" =>
              saga'[box'[k].of] = IF box'[k].ok THEN "succeeded" ELSE "failed"
         /\ \A r \in Requests : caller'[r] # box'[k].of
  BY DEF AllFit, Fits
<1> QED BY <1>1 DEF MailInv, GivenToOne, Distinct, Given

(* The first message is taken, one more is posted.                          *)
LEMMA Taken ==
  ASSUME NEW q \in Seq(Message), q # <<>>, Distinct(q)
  PROVE  /\ Tail(q) \in Seq(Message) /\ Distinct(Tail(q))
         /\ \A k \in DOMAIN Tail(q) :
              /\ Tail(q)[k].of # Head(q).of /\ Tail(q)[k] \in Message
              /\ \A sagas, callers : AllFit(q, sagas, callers) => Fits(Tail(q)[k], sagas, callers)
<1> DEFINE t == Tail(q)
<1>1. /\ t \in Seq(Message) /\ Head(q) = q[1] /\ 1 \in DOMAIN q
      /\ \A k \in DOMAIN t : k \in Nat \ {0} /\ k + 1 \in DOMAIN q /\ t[k] = q[k + 1]
  BY TailAt
<1>2. \A k \in DOMAIN t : t[k] \in Message
  BY <1>1, LenProperties
<1> HIDE DEF t
<1>3. Distinct(t)
  BY <1>1 DEF Distinct
<1>4. \A k \in DOMAIN t : t[k].of # Head(q).of
  BY <1>1 DEF Distinct
<1>5. \A k \in DOMAIN t : \A sagas, callers :
        AllFit(q, sagas, callers) => Fits(t[k], sagas, callers)
  BY <1>1 DEF AllFit
<1> QED BY <1>1, <1>2, <1>3, <1>4, <1>5 DEF t

LEMMA Posted ==
  ASSUME NEW q \in Seq(Message), NEW m \in Message, Distinct(q), NEW sagas, NEW callers,
         \A k \in DOMAIN q : q[k].of # m.of /\ Fits(q[k], sagas, callers),
         Fits(m, sagas, callers)
  PROVE  AllFit(Append(q, m), sagas, callers) /\ Distinct(Append(q, m))
<1> DEFINE b == Append(q, m)
<1>1. \A k \in DOMAIN b : \/ b[k] = m /\ k = Len(q) + 1
                          \/ k \in DOMAIN q /\ b[k] = q[k]
  BY AppendAt
<1> HIDE DEF b
<1>2. AllFit(b, sagas, callers)
  BY <1>1 DEF AllFit
<1>3. Distinct(b)
  BY <1>1 DEF Distinct
<1> QED BY <1>2, <1>3 DEF b

LEMMA BoxParts ==
  ASSUME TypeOK
  PROVE  /\ box \in Seq(Message) /\ caller \in [Requests -> Status \cup Requests]
         /\ saga \in [Requests -> {"none", "naming", "provisioning", "persisting",
                                   "compensating", "succeeded", "failed"}]
         /\ \A k \in DOMAIN box : /\ box[k].of \in Requests
                                  /\ box[k].kind \in {"CreateTenant", "SagaResponse"}
         /\ Requests \cap Status = {}
<1>1. /\ box \in Seq(Message) /\ caller \in [Requests -> Status \cup Requests]
      /\ saga \in [Requests -> {"none", "naming", "provisioning", "persisting",
                                "compensating", "succeeded", "failed"}]
  BY TypeParts DEF ManagerOK, SagasOK
<1>2. \A k \in DOMAIN box : box[k] \in Message
  BY <1>1, LenProperties
<1> QED BY <1>1, <1>2, MessageParts, ProvisioningAssumption

(* A request that has no saga, or one that is neither to begin nor ended,   *)
(* has no message and was not given away.                                   *)
LEMMA NoMail ==
  ASSUME TypeOK, MailInv, NEW r \in Requests,
         \/ caller[r] \in Unasked
         \/ saga[r] \notin {"none", "succeeded", "failed"}
  PROVE  /\ \A k \in DOMAIN box : box[k].of # r
         /\ \A s \in Requests : caller[s] # r
         /\ saga[r] \notin {"succeeded", "failed"}
         /\ caller[r] \in Unasked => saga[r] = "none"
<1>1. saga[r] \notin {"succeeded", "failed"} /\ (caller[r] \in Unasked => saga[r] = "none")
  BY DEF MailInv
<1>2. \A k \in DOMAIN box : box[k].of # r
  BY <1>1, BoxParts DEF MailInv
<1> QED BY <1>1, <1>2 DEF MailInv

(* The caller of a request that was not asked for yet moves on.             *)
LEMMA UnaskedMail ==
  ASSUME TypeOK, MailInv, NEW r \in Requests, caller[r] \in Unasked, UNCHANGED saga,
         NEW v \in {"refused", "asking", "waiting"}, caller' = [caller EXCEPT ![r] = v]
  PROVE  /\ AllFit(box, saga', caller') /\ Distinct(box) /\ Given(saga', caller')
         /\ \A k \in DOMAIN box : box[k].of # r
         /\ caller'[r] = v /\ saga'[r] = "none"
         /\ \A s \in Requests : caller'[s] # r
<1>1. /\ \A k \in DOMAIN box : box[k].of # r
      /\ \A s \in Requests : caller[s] # r
      /\ saga[r] = "none"
  BY NoMail
<1>2. AllFit(box, saga, caller) /\ Distinct(box) /\ Given(saga, caller)
  BY MailParts
<1>3. caller'[r] = v /\ v \notin Requests /\ \A s \in Requests \ {r} : caller'[s] = caller[s]
  BY BoxParts DEF Status
<1>4. AllFit(box, saga', caller')
  BY <1>1, <1>2, <1>3, BoxParts DEF AllFit, Fits
<1>5. Given(saga', caller')
  BY <1>1, <1>2, <1>3 DEF Given
<1> QED BY <1>1, <1>2, <1>3, <1>4, <1>5

LEMMA CreateMail ==
  ASSUME TypeOK, MailInv, NEW r \in Requests, Create(r)
  PROVE  MailInv'
<1>1. PICK v \in {"refused", "asking"} : caller' = [caller EXCEPT ![r] = v]
  BY DEF Create
<1>2. caller[r] \in Unasked /\ UNCHANGED <<saga, box>>
  BY DEF Create, Unasked, manager
<1> QED BY <1>1, <1>2, UnaskedMail, MailPartsNext

LEMMA StartCreateTenantMail ==
  ASSUME TypeOK, MailInv, NEW r \in Requests, StartCreateTenant(r)
  PROVE  MailInv'
<1> DEFINE m == [kind |-> "CreateTenant", of |-> r]
<1>1. m \in Message /\ m.kind = "CreateTenant" /\ m.of = r
  BY MessageParts
<1>2. box' = Append(box, m)
  BY DEF StartCreateTenant
<1> HIDE DEF m
<1>3. /\ AllFit(box, saga', caller') /\ Distinct(box) /\ Given(saga', caller')
      /\ \A k \in DOMAIN box : box[k].of # r
      /\ caller'[r] = "waiting" /\ saga'[r] = "none"
      /\ \A s \in Requests : caller'[s] # r
  <2>1. /\ caller[r] \in Unasked /\ UNCHANGED saga
        /\ caller' = [caller EXCEPT ![r] = "waiting"]
    BY DEF StartCreateTenant, Unasked
  <2> QED BY <2>1, UnaskedMail
<1>4. Fits(m, saga', caller')
  BY <1>1, <1>3 DEF Fits, Unasked
<1>5. AllFit(box', saga', caller') /\ Distinct(box')
  BY <1>1, <1>2, <1>3, <1>4, BoxParts, Posted DEF AllFit
<1> QED BY <1>3, <1>5, MailPartsNext

LEMMA AskTimeoutMail ==
  ASSUME TypeOK, MailInv, NEW r \in Requests, AskTimeout(r)
  PROVE  MailInv'
<1>1. caller[r] = "waiting" /\ caller' = [caller EXCEPT ![r] = "timedOut"]
      /\ UNCHANGED <<saga, box>>
  BY DEF AskTimeout, manager
<1>2. /\ caller'[r] = "timedOut" /\ "timedOut" \notin Requests
      /\ \A s \in Requests \ {r} : caller'[s] = caller[s]
  BY <1>1, BoxParts DEF Status
<1>3. AllFit(box, saga, caller) /\ Distinct(box) /\ Given(saga, caller)
  BY MailParts
<1>4. AllFit(box', saga', caller') /\ Given(saga', caller')
  <2>1. AllFit(box, saga, caller')
    BY <1>2, <1>3, BoxParts DEF AllFit, Fits, Unasked
  <2>2. Given(saga, caller')
    BY <1>2, <1>3 DEF Given, Unasked
  <2> QED BY <1>1, <2>1, <2>2
<1> QED BY <1>1, <1>3, <1>4, MailPartsNext

(* A saga that is neither to begin nor ended moves on.                      *)
LEMMA MailFrame ==
  ASSUME TypeOK, MailInv, UNCHANGED <<caller, box>>,
         \/ UNCHANGED saga
         \/ \E r \in Requests, v \in {"provisioning", "persisting", "compensating"} :
              /\ saga[r] \notin {"none", "succeeded", "failed"}
              /\ saga' = [saga EXCEPT ![r] = v]
  PROVE  MailInv'
<1>1. \A q \in Requests : \/ saga'[q] = saga[q]
                          \/ saga[q] \notin {"none", "succeeded", "failed"}
  BY BoxParts
<1>2. AllFit(box, saga, caller) /\ Distinct(box) /\ Given(saga, caller)
  BY MailParts
<1>3. AllFit(box, saga', caller)
  BY <1>1, <1>2, BoxParts DEF AllFit, Fits
<1>4. Given(saga', caller)
  BY <1>1, <1>2 DEF Given
<1> QED BY <1>2, <1>3, <1>4, MailPartsNext

(* A saga ends: its answer is on its way, and nothing else about it.        *)
LEMMA TellMail ==
  ASSUME TypeOK, MailInv, NEW r \in Requests, NEW ok \in BOOLEAN,
         saga[r] \notin {"none", "succeeded", "failed"}, Tell(r, ok, box), UNCHANGED caller
  PROVE  MailInv'
<1> DEFINE m == [kind |-> "SagaResponse", of |-> r, ok |-> ok]
<1>1. m \in Message /\ m.kind = "SagaResponse" /\ m.of = r /\ m.ok = ok
  BY MessageParts
<1>2. box' = Append(box, m)
  BY DEF Tell
<1> HIDE DEF m
<1>3. /\ saga'[r] = IF ok THEN "succeeded" ELSE "failed"
      /\ \A q \in Requests \ {r} : saga'[q] = saga[q]
  BY BoxParts DEF Tell
<1>4. /\ \A k \in DOMAIN box : box[k].of # r
      /\ \A s \in Requests : caller[s] # r
      /\ caller[r] \notin Unasked
  BY NoMail
<1>5. AllFit(box, saga, caller) /\ Distinct(box) /\ Given(saga, caller)
  BY MailParts
<1>6. \A k \in DOMAIN box : Fits(box[k], saga', caller)
  BY <1>3, <1>4, <1>5, BoxParts DEF AllFit, Fits
<1>7. Given(saga', caller)
  BY <1>3, <1>4, <1>5 DEF Given
<1>8. Fits(m, saga', caller)
  BY <1>1, <1>3, <1>4 DEF Fits
<1>9. AllFit(box', saga', caller) /\ Distinct(box')
  BY <1>1, <1>2, <1>4, <1>5, <1>6, <1>8, BoxParts, Posted
<1> QED BY <1>7, <1>9, MailPartsNext

LEMMA OnCreateTenantMail ==
  ASSUME TypeOK, MailInv, OnCreateTenant
  PROVE  MailInv'
<1>1. PICK r \in Requests : r = Head(box).of
  BY HeadBox DEF OnCreateTenant
<1>2. box # <<>> /\ Head(box).kind = "CreateTenant" /\ UNCHANGED caller
  BY DEF OnCreateTenant
<1>3. AllFit(box, saga, caller) /\ Distinct(box) /\ Given(saga, caller)
  BY MailParts
<1>4. /\ saga[r] = "none" /\ caller[r] \notin Unasked
      /\ \A s \in Requests : caller[s] # r
  BY <1>1, <1>2, <1>3, HeadBox DEF AllFit, Fits
<1> DEFINE q == Tail(box)
<1>5. /\ q \in Seq(Message) /\ Distinct(q)
      /\ \A k \in DOMAIN q : q[k].of # r /\ q[k] \in Message /\ Fits(q[k], saga, caller)
  BY <1>1, <1>2, <1>3, BoxParts, Taken
<1>6. Tell(r, FALSE, q) \/ (box' = q /\ saga' = [saga EXCEPT ![r] = "naming"])
  BY <1>1 DEF OnCreateTenant
<1>7. /\ saga'[r] \in {"naming", "failed"}
      /\ \A s \in Requests \ {r} : saga'[s] = saga[s]
  BY <1>6, BoxParts DEF Tell
<1> HIDE DEF q
<1>8. \A k \in DOMAIN q : q[k].of \in Requests /\ Fits(q[k], saga', caller)
  <2>1. \A k \in DOMAIN q : q[k].of \in Requests
    BY <1>5, MessageParts
  <2> QED BY <1>5, <1>7, <2>1 DEF Fits
<1>9. Given(saga', caller')
  BY <1>2, <1>3, <1>4, <1>7 DEF Given
<1>10. CASE box' = q
  BY <1>2, <1>5, <1>8, <1>9, <1>10, MailPartsNext DEF AllFit
<1>11. CASE Tell(r, FALSE, q)
  <2> DEFINE m == [kind |-> "SagaResponse", of |-> r, ok |-> FALSE]
  <2>1. m \in Message /\ m.kind = "SagaResponse" /\ m.of = r /\ m.ok = FALSE
    BY MessageParts
  <2>2. box' = Append(q, m) /\ saga' = [saga EXCEPT ![r] = "failed"]
    BY <1>11 DEF Tell
  <2> HIDE DEF m
  <2>3. saga'[r] = "failed"
    BY <2>2, BoxParts
  <2>4. Fits(m, saga', caller)
    BY <1>4, <2>1, <2>3 DEF Fits
  <2>5. AllFit(box', saga', caller) /\ Distinct(box')
    BY <1>5, <1>8, <2>1, <2>2, <2>4, Posted
  <2> QED BY <1>2, <1>9, <2>5, MailPartsNext
<1> QED BY <1>6, <1>10, <1>11

(* An answer is taken by one caller, and leaves the mailbox.                *)
LEMMA OnSagaResponseMail ==
  ASSUME TypeOK, MailInv, OnSagaResponse
  PROVE  MailInv'
<1>1. PICK r \in Requests : r = Head(box).of
  BY HeadBox DEF OnSagaResponse
<1>2. /\ box # <<>> /\ Head(box).kind = "SagaResponse" /\ UNCHANGED saga
      /\ Head(box).ok \in BOOLEAN
  BY HeadBox DEF OnSagaResponse
<1>3. AllFit(box, saga, caller) /\ Distinct(box) /\ Given(saga, caller)
  BY MailParts
<1>4. /\ saga[r] = IF Head(box).ok THEN "succeeded" ELSE "failed"
      /\ \A s \in Requests : caller[s] # r
  BY <1>1, <1>2, <1>3, HeadBox DEF AllFit, Fits
<1> DEFINE q == Tail(box)
<1>5. /\ q \in Seq(Message) /\ Distinct(q)
      /\ \A k \in DOMAIN q : q[k].of # r /\ q[k] \in Message /\ Fits(q[k], saga, caller)
  BY <1>1, <1>2, <1>3, BoxParts, Taken
<1>6. box' = q
  BY DEF OnSagaResponse
<1> HIDE DEF q
<1>7. \A s \in Requests :
        \/ caller'[s] = caller[s]
        \/ /\ s = adapter /\ caller[s] = "waiting"
           /\ caller'[s] = IF Head(box).ok THEN r ELSE "failure"
  BY <1>1, BoxParts DEF OnSagaResponse
<1>8. "failure" \notin Requests /\ "waiting" \notin Requests /\ r \notin Unasked
  BY BoxParts DEF Status, Unasked
<1>9. AllFit(q, saga, caller')
  <2>1. \A k \in DOMAIN q : q[k].of \in Requests
    BY <1>5, MessageParts
  <2> QED BY <1>5, <1>7, <1>8, <2>1 DEF AllFit, Fits, Unasked
<1>10. Given(saga, caller')
  BY <1>3, <1>4, <1>7, <1>8 DEF Given, Unasked
<1> QED BY <1>2, <1>5, <1>6, <1>9, <1>10, MailPartsNext

LEMMA SagaMail ==
  ASSUME TypeOK, MailInv, NEW r \in Requests, SagaStep(r)
  PROVE  MailInv'
<1>1. ASSUME StartCompensations(r, ToCompensate(r)) \/ StartCompensations(r, Operations),
             saga[r] \in {"provisioning", "persisting"}, UNCHANGED caller
      PROVE  MailInv'
  <2>1. CASE Tell(r, FALSE, box)
    BY <1>1, <2>1, TellMail
  <2>2. CASE saga' = [saga EXCEPT ![r] = "compensating"] /\ UNCHANGED box
    BY <1>1, <2>2, MailFrame
  <2> QED BY <1>1, <2>1, <2>2 DEF StartCompensations
<1>2. CASE OnNameResolved(r)
  BY <1>2, TellMail, MailFrame DEF OnNameResolved
<1>3. CASE OnParallelResponse(r)
  BY <1>1, <1>3, MailFrame DEF OnParallelResponse
<1>4. CASE OnTenantResponse(r)
  BY <1>1, <1>4, TellMail DEF OnTenantResponse
<1>5. CASE OnCompensationComplete(r)
  BY <1>5, TellMail DEF OnCompensationComplete
<1> QED BY <1>2, <1>3, <1>4, <1>5 DEF SagaStep

LEMMA InitMail == Init => MailInv
<1> SUFFICES ASSUME Init PROVE MailInv
  OBVIOUS
<1>1. box = <<>> /\ DOMAIN box = {} /\ \A r \in Requests : saga[r] = "none" /\ caller[r] = "new"
  BY DEF Init
<1>2. "new" \notin Requests
  BY ProvisioningAssumption DEF Status
<1> QED BY <1>1, <1>2, MailParts DEF AllFit, Distinct, Given

LEMMA NextMail == TypeOK /\ MailInv /\ [Next]_vars => MailInv'
<1> SUFFICES ASSUME TypeOK, MailInv, [Next]_vars PROVE MailInv'
  OBVIOUS
<1>1. ASSUME NEW r \in Requests, BusStep(r) \/ RequestDeletion(r)
      PROVE  MailInv'
  BY <1>1, MailFrame
     DEF BusStep, Persist, SkipIngress, Provision, RollBack, RollBackTimeout, BusTimeout,
         RequestDeletion, manager
<1>2. ASSUME NEW n \in DOMAIN tokens,
             GiveToken(n) \/ ConfirmDeletion(n) \/ ExecuteDeletion(n) \/ \E j \in Jobs : Delete(n, j)
      PROVE  MailInv'
  BY <1>2, MailFrame DEF GiveToken, ConfirmDeletion, ExecuteDeletion, Delete, manager
<1>3. CASE UNCHANGED vars
  BY <1>3, MailFrame DEF vars, manager
<1> QED BY <1>1, <1>2, <1>3, CreateMail, StartCreateTenantMail, AskTimeoutMail, SagaMail,
           OnCreateTenantMail, OnSagaResponseMail DEF Next

-----------------------------------------------------------------------------
(* The tenants and what they have *)

Sole(t) == \A r \in Requests \ {t} : Name(r) # Name(t)

Served == {"provisioning", "persisting", "succeeded"}

(* What is known of the variables one by one.                               *)
LEMMA StoreParts ==
  ASSUME TypeOK
  PROVE  /\ \A r \in Requests, j \in Jobs : reply[r][j] \in {"none", "ok", "error"}
         /\ reply \in [Requests -> [Jobs -> {"none", "ok", "error"}]]
         /\ saga \in [Requests -> {"none", "naming", "provisioning", "persisting",
                                   "compensating", "succeeded", "failed"}]
         /\ tenants \subseteq Requests
         /\ "ENTITY" \notin Operations /\ "ENTITY" \in Jobs /\ Operations \subseteq Jobs
         /\ None \notin Requests
<1>1. reply \in [Requests -> [Jobs -> {"none", "ok", "error"}]] /\ tenants \subseteq Requests
      /\ saga \in [Requests -> {"none", "naming", "provisioning", "persisting",
                                "compensating", "succeeded", "failed"}]
  BY TypeParts DEF SagasOK, StoredOK
<1>2. None \notin Requests
  BY ProvisioningAssumption
<1> QED BY <1>1, <1>2 DEF Operations, Jobs

(* The tenants do not change, no more is answered, what they have is kept,  *)
(* and whoever was deleted stays so.                                        *)
LEMMA StoreFrame ==
  ASSUME TypeOK, SagaInv, StoreInv, UNCHANGED <<asked, reply, resources, tenants>>,
         \A t \in Requests : t \in Deleted => t \in Deleted',
         \A t \in Requests : saga'[t] \in Served => saga[t] \in Served \cup {"naming"}
  PROVE  StoreInv'
<1>1. \A r \in Requests : /\ Name(r)' = Name(r) /\ Host(r)' = Host(r)
                          /\ Skipped(r)' = Skipped(r)
  BY DEF Name, Host, Skipped
<1>2. \A r \in Requests : reply'[r]["ENTITY"] = "ok" => r \in tenants' \cup Deleted'
  BY DEF StoreInv
<1>3. \A s, t \in tenants' : Host(s)' = Host(t)' => s = t
  BY <1>1, StoreParts DEF StoreInv
<1>4. ASSUME NEW t \in Requests \ Deleted', \A r \in Requests \ {t} : Name(r)' # Name(t)',
             saga'[t] \in Served, NEW o \in Operations \ Skipped(t)', reply'[t][o] = "ok"
      PROVE  <<o, Name(t)'>> \in resources'
  <2>1. t \in Requests \ Deleted /\ \A r \in Requests \ {t} : Name(r) # Name(t)
    BY <1>1, <1>4
  <2>2. saga[t] # "naming"
    <3>1. AskedOK(t) /\ reply[t][o] # "none"
      BY <1>4 DEF SagaInv
    <3> QED BY <3>1, NothingAsked
  <2>3. saga[t] \in {"provisioning", "persisting", "succeeded"}
    BY <1>4, <2>2 DEF Served
  <2>4. <<o, Name(t)>> \in resources
    BY <1>1, <1>4, <2>1, <2>3 DEF StoreInv
  <2> QED BY <1>1, <2>4
<1> QED BY <1>2, <1>3, <1>4 DEF StoreInv, Served

(* A step of the bus: the sagas do not change.                              *)
LEMMA BusStore ==
  ASSUME TypeOK, StoreInv, UNCHANGED <<asked, saga, tokens>>,
         \A r \in Requests : reply'[r]["ENTITY"] = "ok" =>
           r \in tenants' \cup Deleted \/ reply[r]["ENTITY"] = "ok",
         \A t \in tenants : t \in tenants' \cup Deleted,
         \A s, t \in tenants' : Host(s) = Host(t) => s = t,
         \A t \in Requests \ Deleted, o \in Operations :
           Sole(t) /\ saga[t] \in Served /\ o \notin Skipped(t) /\ reply'[t][o] = "ok" =>
             \/ <<o, Name(t)>> \in resources'
             \/ reply[t][o] = "ok" /\ (<<o, Name(t)>> \in resources => <<o, Name(t)>> \in resources')
  PROVE  StoreInv'
<1>1. /\ Deleted' = Deleted
      /\ \A r : Name(r)' = Name(r) /\ Host(r)' = Host(r) /\ Skipped(r)' = Skipped(r)
  BY DEF Deleted, Name, Host, Skipped
<1>2. \A r \in Requests : reply'[r]["ENTITY"] = "ok" => r \in tenants' \cup Deleted'
  BY <1>1 DEF StoreInv
<1>3. \A s, t \in tenants' : Host(s)' = Host(t)' => s = t
  BY <1>1
<1>4. ASSUME NEW t \in Requests \ Deleted', \A r \in Requests \ {t} : Name(r)' # Name(t)',
             saga'[t] \in Served, NEW o \in Operations \ Skipped(t)', reply'[t][o] = "ok"
      PROVE  <<o, Name(t)'>> \in resources'
  <2>1. t \in Requests \ Deleted /\ Sole(t) /\ saga[t] \in Served
    BY <1>1, <1>4 DEF Sole
  <2>2. reply[t][o] = "ok" => <<o, Name(t)>> \in resources
    BY <1>1, <2>1 DEF StoreInv, Sole, Served
  <2> QED BY <1>1, <1>4, <2>1, <2>2
<1> QED BY <1>2, <1>3, <1>4 DEF StoreInv, Served

(* One reply at most is added.                                              *)
LEMMA ReplyOne ==
  ASSUME TypeOK, NEW r \in Requests, NEW j \in Jobs, NEW outcome \in {"ok", "error"},
         Reply(r, j, outcome)
  PROVE  \A q \in Requests, i \in Jobs :
           \/ reply'[q][i] = reply[q][i]
           \/ q = r /\ i = j /\ reply'[q][i] = outcome
<1>1. PICK w \in {"none", "ok", "error"} :
        /\ w \in {reply[r][j], outcome} /\ reply' = [reply EXCEPT ![r][j] = w]
  BY StoreParts DEF Reply
<1> QED BY <1>1, StoreParts

LEMMA ProvisionStore ==
  ASSUME TypeOK, StoreInv, NEW r \in Requests, NEW p \in Operations, Provision(r, p)
  PROVE  StoreInv'
<1>1. UNCHANGED <<asked, saga, tokens, tenants>>
  BY DEF Provision, deletion
<1>2. PICK outcome \in {"ok", "error"} :
        /\ Reply(r, p, outcome) /\ resources \subseteq resources'
        /\ outcome = "ok" => <<p, Name(r)>> \in resources'
  BY DEF Provision
<1>3. \A q \in Requests, i \in Jobs : \/ reply'[q][i] = reply[q][i]
                                      \/ q = r /\ i = p /\ reply'[q][i] = outcome
  BY <1>2, ReplyOne, StoreParts
<1>4. \A q \in Requests : reply'[q]["ENTITY"] = reply[q]["ENTITY"]
  BY <1>3, StoreParts
<1>5. \A s, t \in tenants' : Host(s) = Host(t) => s = t
  BY <1>1 DEF StoreInv
<1>6. \A t \in Requests, o \in Operations :
        reply'[t][o] = "ok" => <<o, Name(t)>> \in resources' \/ reply[t][o] = "ok"
  BY <1>2, <1>3, StoreParts
<1> QED BY <1>1, <1>2, <1>4, <1>5, <1>6, BusStore

(* The ingress that is skipped is not missed.                               *)
LEMMA SkipIngressStore ==
  ASSUME TypeOK, StoreInv, NEW r \in Requests, SkipIngress(r)
  PROVE  StoreInv'
<1>1. /\ UNCHANGED <<asked, saga, tokens, resources, tenants>>
      /\ Reply(r, "INGRESS", "ok") /\ "INGRESS" \in Skipped(r)
  BY DEF SkipIngress, deletion, stored
<1>2. \A q \in Requests, i \in Jobs : \/ reply'[q][i] = reply[q][i]
                                      \/ q = r /\ i = "INGRESS"
  BY <1>1, ReplyOne DEF Jobs, Operations
<1>3. \A q \in Requests : reply'[q]["ENTITY"] = reply[q]["ENTITY"]
  BY <1>2, StoreParts
<1>4. \A s, t \in tenants' : Host(s) = Host(t) => s = t
  BY <1>1 DEF StoreInv
<1>5. \A t \in Requests, o \in Operations :
        o \notin Skipped(t) => reply'[t][o] = reply[t][o]
  BY <1>1, <1>2, StoreParts
<1> QED BY <1>1, <1>3, <1>4, <1>5, BusStore

(* A row is written for one tenant of each virtual host.                    *)
LEMMA PersistStore ==
  ASSUME TypeOK, StoreInv, NEW r \in Requests, Persist(r)
  PROVE  StoreInv'
<1>1. UNCHANGED <<asked, saga, tokens, resources>>
  BY DEF Persist, deletion
<1>2. PICK outcome \in {"ok", "error"} :
        /\ Reply(r, "ENTITY", outcome)
        /\ \/ /\ tenants' = tenants \cup {r} /\ \A t \in tenants : Host(t) # Host(r)
           \/ tenants' = tenants /\ outcome = "error"
  BY DEF Persist
<1>3. \A q \in Requests, i \in Jobs : \/ reply'[q][i] = reply[q][i]
                                      \/ q = r /\ i = "ENTITY" /\ reply'[q][i] = outcome
  BY <1>2, ReplyOne, StoreParts
<1>4. \A q \in Requests : reply'[q]["ENTITY"] = "ok" => q \in tenants' \/ reply[q]["ENTITY"] = "ok"
  BY <1>2, <1>3, StoreParts
<1>5. \A s, t \in tenants' : Host(s) = Host(t) => s = t
  BY <1>2 DEF StoreInv
<1>6. \A t \in Requests, o \in Operations : reply'[t][o] = reply[t][o]
  BY <1>3, StoreParts
<1> QED BY <1>1, <1>2, <1>4, <1>5, <1>6, BusStore

LEMMA BusTimeoutStore ==
  ASSUME TypeOK, StoreInv, NEW r \in Requests, NEW j \in Jobs, BusTimeout(r, j)
  PROVE  StoreInv'
<1>1. UNCHANGED <<asked, saga, tokens, resources, tenants>> /\ Reply(r, j, "error")
  BY DEF BusTimeout, deletion, stored
<1>2. \A q \in Requests, i \in Jobs : reply'[q][i] = "ok" => reply[q][i] = "ok"
  BY <1>1, ReplyOne
<1>3. \A s, t \in tenants' : Host(s) = Host(t) => s = t
  BY <1>1 DEF StoreInv
<1> QED BY <1>1, <1>2, <1>3, StoreParts, BusStore

(* A roll back takes away what has the name of a saga that gave up.         *)
LEMMA RollBackStore ==
  ASSUME TypeOK, SagaInv, StoreInv, NEW r \in Requests, NEW p \in Operations, RollBack(r, p)
  PROVE  StoreInv'
<1>1. /\ UNCHANGED <<asked, saga, tokens, reply, tenants>> /\ erasing[r] # {}
      /\ resources \ {<<p, Name(r)>>} \subseteq resources'
  BY DEF RollBack, deletion, forward, Owned
<1>2. saga[r] \notin Served
  BY <1>1 DEF SagaInv, UndoneOK, Served
<1>3. \A t \in Requests, o \in Operations : Sole(t) /\ saga[t] \in Served =>
        (<<o, Name(t)>> \in resources => <<o, Name(t)>> \in resources')
  BY <1>1, <1>2 DEF Sole
<1>4. \A s, t \in tenants' : Host(s) = Host(t) => s = t
  BY <1>1 DEF StoreInv
<1> QED BY <1>1, <1>3, <1>4, BusStore

(* A deletion takes away what has the name of the tenant it found.          *)
LEMMA DeleteStore ==
  ASSUME TypeOK, StoreInv, TokenInv, NEW n \in DOMAIN tokens, NEW j \in Jobs, Delete(n, j)
  PROVE  StoreInv'
<1>1. PICK d \in Requests : d = tokens[n].target /\ d \in Deleted
  <2>1. tokens[n].target # None
    BY DEF Delete, TokenInv
  <2> QED BY <2>1, TokenAt DEF Deleted
<1>2. /\ UNCHANGED <<asked, saga, tokens, reply>>
      /\ resources \ {<<j, Name(d)>>} \subseteq resources'
      /\ tenants' \subseteq tenants /\ tenants \ {d} \subseteq tenants'
  BY <1>1 DEF Delete, forward, stored, Owned
<1>3. \A t \in Requests \ Deleted, o \in Operations : Sole(t) =>
        (<<o, Name(t)>> \in resources => <<o, Name(t)>> \in resources')
  BY <1>1, <1>2 DEF Sole
<1>4. \A s, t \in tenants' : Host(s) = Host(t) => s = t
  BY <1>2 DEF StoreInv
<1>5. \A t \in tenants : t \in tenants' \cup Deleted
  BY <1>1, <1>2
<1> QED BY <1>2, <1>3, <1>4, <1>5, BusStore

(* A request to delete adds a token that has led to nothing.                *)
LEMMA RequestedToken ==
  ASSUME TypeOK, NEW t \in Requests, RequestDeletion(t)
  PROVE  \E k : /\ DOMAIN tokens' = DOMAIN tokens \cup {k} /\ k \notin DOMAIN tokens
                /\ k = Len(tokens) + 1 /\ k # 0
                /\ tokens'[k].of = t /\ ~tokens'[k].given /\ tokens'[k].target = None
                /\ \A n \in DOMAIN tokens : tokens'[n] = tokens[n]
<1> DEFINE m == [of |-> t, given |-> FALSE, target |-> None]
<1>1. tokens \in Seq(Token) /\ m \in Token /\ tokens' = Append(tokens, m)
  BY TypeParts DEF RequestDeletion, TokensOK, Token
<1>2. m.of = t /\ ~m.given /\ m.target = None
  OBVIOUS
<1> HIDE DEF m
<1>3. /\ DOMAIN tokens' = DOMAIN tokens \cup {Len(tokens) + 1} /\ Len(tokens) + 1 \notin DOMAIN tokens
      /\ tokens'[Len(tokens) + 1] = m /\ \A n \in DOMAIN tokens : tokens'[n] = tokens[n]
      /\ Len(tokens) \in Nat
  BY <1>1, AppendAt
<1> QED BY <1>2, <1>3

(* A deletion is executed on the tenant the virtual host has, if any.       *)
LEMMA ExecutedToken ==
  ASSUME TypeOK, NEW n \in DOMAIN tokens, ExecuteDeletion(n)
  PROVE  /\ DOMAIN tokens' = DOMAIN tokens
         /\ \A m \in DOMAIN tokens : tokens'[m].of = tokens[m].of
         /\ \A m \in DOMAIN tokens \ {n} : tokens'[m] = tokens[m]
         /\ \/ UNCHANGED <<tokens, deleting>>
            \/ \E t \in tenants : /\ Host(t) = Host(tokens[n].of) /\ tokens'[n].target = t
                                  /\ \A m \in DOMAIN tokens \ {n}, j \in Jobs :
                                       <<m, j>> \in deleting' => <<m, j>> \in deleting
<1>1. CASE UNCHANGED <<tokens, deleting>>
  BY <1>1
<1>2. ASSUME NEW t \in tenants, Host(t) = Host(tokens[n].of),
             tokens' = [tokens EXCEPT ![n].target = t],
             deleting' = deleting \cup ({n} \X (Expected(t) \cup {"ENTITY"}))
      PROVE  /\ DOMAIN tokens' = DOMAIN tokens
             /\ \A m \in DOMAIN tokens : tokens'[m].of = tokens[m].of
             /\ \A m \in DOMAIN tokens \ {n} : tokens'[m] = tokens[m]
             /\ tokens'[n].target = t
             /\ \A m \in DOMAIN tokens \ {n}, j \in Jobs :
                  <<m, j>> \in deleting' => <<m, j>> \in deleting
  <2>1. t \in Requests
    BY StoreParts
  <2>2. \A m \in DOMAIN tokens \ {n}, j \in Jobs :
          <<m, j>> \in deleting' => <<m, j>> \in deleting
    BY <1>2
  <2> QED BY <1>2, <2>1, <2>2, TokenAt
<1> QED BY <1>1, <1>2 DEF ExecuteDeletion

(* Whoever was deleted stays so: a token is executed once.                  *)
LEMMA RequestDeletionDeleted ==
  ASSUME TypeOK, NEW t \in Requests, RequestDeletion(t)
  PROVE  \A d \in Deleted : d \in Deleted'
<1>1. DOMAIN tokens \subseteq DOMAIN tokens' /\ \A n \in DOMAIN tokens : tokens'[n] = tokens[n]
  BY RequestedToken
<1> QED BY <1>1 DEF Deleted

LEMMA GiveTokenDeleted ==
  ASSUME TypeOK, NEW n \in DOMAIN tokens, GiveToken(n)
  PROVE  Deleted' = Deleted
<1>1. /\ DOMAIN tokens' = DOMAIN tokens
      /\ \A m \in DOMAIN tokens : tokens'[m].target = tokens[m].target
  BY GivenAt DEF GiveToken
<1> QED BY <1>1 DEF Deleted

LEMMA ExecuteDeletionDeleted ==
  ASSUME TypeOK, TokenInv, NEW n \in DOMAIN tokens, ExecuteDeletion(n)
  PROVE  \A d \in Requests : d \in Deleted => d \in Deleted'
<1>1. tokens[n].target = None
  BY DEF TokenInv, ExecuteDeletion
<1>2. DOMAIN tokens' = DOMAIN tokens /\ \A m \in DOMAIN tokens \ {n} : tokens'[m] = tokens[m]
  BY ExecutedToken
<1> QED BY <1>1, <1>2, StoreParts DEF Deleted

LEMMA InitStore == Init => StoreInv
<1> SUFFICES ASSUME Init PROVE StoreInv
  OBVIOUS
<1>1. /\ \A r \in Requests : \A j \in Jobs : reply[r][j] = "none"
      /\ tenants = {} /\ \A r \in Requests : saga[r] = "none"
  BY DEF Init
<1> QED BY <1>1 DEF StoreInv, Jobs

LEMMA NextStore == TypeOK /\ SagaInv /\ StoreInv /\ TokenInv /\ [Next]_vars => StoreInv'
<1> SUFFICES ASSUME TypeOK, SagaInv, StoreInv, TokenInv, [Next]_vars PROVE StoreInv'
  OBVIOUS
<1>1. ASSUME UNCHANGED <<asked, reply, resources, tenants, tokens>>,
             \A t \in Requests : saga'[t] \in Served => saga[t] \in Served \cup {"naming"}
      PROVE  StoreInv'
  BY <1>1, StoreFrame DEF Deleted
<1>2. ASSUME NEW r \in Requests, Create(r) \/ StartCreateTenant(r) \/ AskTimeout(r)
      PROVE  StoreInv'
  BY <1>1, <1>2 DEF Create, StartCreateTenant, AskTimeout, forward, stored, deletion
<1>3. ASSUME NEW r \in Requests, SagaStep(r)
      PROVE  StoreInv'
  <2>1. UNCHANGED <<asked, reply, resources, tenants, tokens>>
    BY <1>3 DEF SagaStep, OnNameResolved, OnParallelResponse, OnTenantResponse,
       OnCompensationComplete, forward, stored, deletion
  <2>2. PICK v : /\ saga' = [saga EXCEPT ![r] = v]
                 /\ v \in Served => saga[r] \in Served \cup {"naming"}
    BY <1>3 DEF SagaStep, OnNameResolved, OnParallelResponse, OnTenantResponse,
       OnCompensationComplete, StartCompensations, Tell, Served
  <2>3. \A t \in Requests : saga'[t] \in Served => saga[t] \in Served \cup {"naming"}
    BY <2>2, StoreParts
  <2> QED BY <1>1, <2>1, <2>3
<1>4. CASE OnCreateTenant
  <2>1. UNCHANGED <<asked, reply, resources, tenants, tokens>>
    BY <1>4 DEF OnCreateTenant, forward, stored, deletion
  <2>2. PICK r, v : saga' = [saga EXCEPT ![r] = v] /\ v \in {"naming", "failed"}
    BY <1>4 DEF OnCreateTenant, Tell
  <2>3. \A t \in Requests : saga'[t] \in Served => saga[t] \in Served
    BY <2>2, StoreParts DEF Served
  <2> QED BY <1>1, <2>1, <2>3
<1>5. CASE OnSagaResponse \/ UNCHANGED vars
  BY <1>1, <1>5 DEF OnSagaResponse, vars, forward, stored, deletion
<1>6. ASSUME NEW r \in Requests, BusStep(r)
      PROVE  StoreInv'
  <2>1. ASSUME NEW o \in Operations, RollBackTimeout(r, o)
        PROVE  StoreInv'
    BY <1>1, <2>1 DEF RollBackTimeout, forward, stored, deletion
  <2> QED BY <1>6, <2>1, ProvisionStore, SkipIngressStore, PersistStore, BusTimeoutStore,
            RollBackStore DEF BusStep
<1>7. ASSUME NEW r \in Requests, RequestDeletion(r)
      PROVE  StoreInv'
  <2>1. UNCHANGED <<asked, reply, resources, tenants, saga>>
    BY <1>7 DEF RequestDeletion, forward, stored
  <2> QED BY <1>7, <2>1, RequestDeletionDeleted, StoreFrame
<1>8. ASSUME NEW n \in DOMAIN tokens, ConfirmDeletion(n)
      PROVE  StoreInv'
  BY <1>1, <1>8 DEF ConfirmDeletion, forward, stored
<1>9. ASSUME NEW n \in DOMAIN tokens, ExecuteDeletion(n)
      PROVE  StoreInv'
  <2>1. UNCHANGED <<asked, reply, resources, tenants, saga>>
    BY <1>9 DEF ExecuteDeletion, forward, stored
  <2> QED BY <1>9, <2>1, ExecuteDeletionDeleted, StoreFrame
<1>10. ASSUME NEW n \in DOMAIN tokens, NEW j \in Jobs, Delete(n, j)
       PROVE  StoreInv'
  BY <1>10, DeleteStore
<1>11. ASSUME NEW n \in DOMAIN tokens, GiveToken(n)
       PROVE  StoreInv'
  <2>1. UNCHANGED <<asked, reply, resources, tenants, saga>>
    BY <1>11 DEF GiveToken, forward, stored
  <2> QED BY <1>11, <2>1, GiveTokenDeleted, StoreFrame
<1> QED BY <1>2, <1>3, <1>4, <1>5, <1>6, <1>7, <1>8, <1>9, <1>10, <1>11 DEF Next

-----------------------------------------------------------------------------
(* The tokens *)

(* No token changes; a tenant is no more only if it was deleted.            *)
LEMMA TokenFrame ==
  ASSUME TypeOK, TokenInv, UNCHANGED <<asked, tokens, confirmed, deletionTokens>>,
         deleting' \subseteq deleting, \A t \in tenants : t \in tenants' \cup Deleted
  PROVE  TokenInv'
<1>1. Deleted' = Deleted /\ \A r : Host(r)' = Host(r)
  BY DEF Deleted, Host
<1>2. DeletedWasRequested'
  BY DEF TokenInv, DeletedWasRequested
<1>3. \A n \in DOMAIN tokens' : tokens'[n].of \in tenants' \cup Deleted'
  BY <1>1 DEF TokenInv
<1>4. \A h \in Hosts : deletionTokens'[h] # 0 =>
        /\ Host(tokens[deletionTokens[h]].of)' = h
        /\ tokens'[deletionTokens'[h]].target = None
        /\ deletionTokens'[h] \notin confirmed'
  BY <1>1 DEF TokenInv
<1>5. \A n \in confirmed' : tokens'[n].target = None
  BY DEF TokenInv
<1>6. \A n \in DOMAIN tokens', j \in Jobs : <<n, j>> \in deleting' => tokens'[n].target # None
  BY DEF TokenInv
<1>7. \A n \in DOMAIN tokens' : ~tokens'[n].given =>
        tokens'[n].target = None /\ n \notin confirmed'
  BY DEF TokenInv
<1> QED BY <1>1, <1>2, <1>3, <1>4, <1>5, <1>6, <1>7 DEF TokenInv, Host

LEMMA ValidToken ==
  ASSUME TypeOK, NEW h \in Hosts
  PROVE  /\ deletionTokens[h] # 0 => deletionTokens[h] \in DOMAIN tokens
         /\ deletionTokens \in [Hosts -> Nat] /\ confirmed \subseteq DOMAIN tokens
         /\ deleting \subseteq (DOMAIN tokens) \X Jobs
<1>1. /\ tokens \in Seq(Token) /\ DOMAIN tokens = 1..Len(tokens) /\ Len(tokens) \in Nat
      /\ deletionTokens \in [Hosts -> 0..Len(tokens)]
  BY TypeParts, LenProperties DEF TokensOK
<1>2. deletionTokens[h] \in 0..Len(tokens)
  BY <1>1
<1>3. deletionTokens[h] # 0 => deletionTokens[h] \in DOMAIN tokens
  BY <1>1, <1>2
<1>4. deletionTokens \in [Hosts -> Nat]
  BY <1>1
<1> QED BY <1>3, <1>4, TypeParts DEF TokensOK

LEMMA RequestDeletionToken ==
  ASSUME TypeOK, TokenInv, NEW t \in Requests, RequestDeletion(t)
  PROVE  TokenInv'
<1>1. PICK k : /\ DOMAIN tokens' = DOMAIN tokens \cup {k} /\ k \notin DOMAIN tokens
               /\ k = Len(tokens) + 1 /\ k # 0
               /\ tokens'[k].of = t /\ tokens'[k].target = None
               /\ \A n \in DOMAIN tokens : tokens'[n] = tokens[n]
  BY RequestedToken
<1>2. UNCHANGED <<asked, tenants, confirmed, deleting, deletionTokens>> /\ t \in tenants
  BY DEF RequestDeletion, stored
<1>3. \A n \in DOMAIN tokens' : tokens'[n].of \in tenants' \cup Deleted'
  BY <1>1, <1>2, RequestDeletionDeleted DEF TokenInv
<1>4. \A h \in Hosts : deletionTokens'[h] # 0 =>
        /\ Host(tokens[deletionTokens[h]].of)' = h
        /\ tokens'[deletionTokens'[h]].target = None
        /\ deletionTokens'[h] \notin confirmed'
  BY <1>1, <1>2, ValidToken DEF TokenInv, Host
<1>5. confirmed \subseteq DOMAIN tokens /\ deleting \subseteq (DOMAIN tokens) \X Jobs
  BY TypeParts DEF TokensOK
<1>6. \A n \in confirmed' : tokens'[n].target = None
  BY <1>1, <1>2, <1>5 DEF TokenInv
<1>7. \A n \in DOMAIN tokens', j \in Jobs : <<n, j>> \in deleting' => tokens'[n].target # None
  BY <1>1, <1>2, <1>5 DEF TokenInv
<1>8. DeletedWasRequested'
  BY <1>1 DEF TokenInv, DeletedWasRequested
<1>9. \A n \in DOMAIN tokens' : ~tokens'[n].given =>
        tokens'[n].target = None /\ n \notin confirmed'
  BY <1>1, <1>2, <1>5 DEF TokenInv
<1> QED BY <1>3, <1>4, <1>6, <1>7, <1>8, <1>9 DEF TokenInv

(* The token that is given becomes the valid one of its virtual host.       *)
LEMMA GiveTokenToken ==
  ASSUME TypeOK, TokenInv, NEW n \in DOMAIN tokens, GiveToken(n)
  PROVE  TokenInv'
<1>1. PICK host \in Hosts : host = Host(tokens[n].of)
  BY TokenAt, Asked
<1>2. /\ UNCHANGED <<asked, tenants, confirmed, deleting>> /\ ~tokens[n].given
      /\ deletionTokens' = [deletionTokens EXCEPT ![host] = n]
  BY <1>1 DEF GiveToken, stored
<1>3. /\ DOMAIN tokens' = DOMAIN tokens /\ tokens'[n].given
      /\ \A m \in DOMAIN tokens :
           tokens'[m].of = tokens[m].of /\ tokens'[m].target = tokens[m].target
      /\ \A m \in DOMAIN tokens \ {n} : tokens'[m] = tokens[m]
  BY GivenAt DEF GiveToken
<1>4. Deleted' = Deleted
  BY GiveTokenDeleted
<1>5. \A m \in DOMAIN tokens' : tokens'[m].of \in tenants' \cup Deleted'
  BY <1>2, <1>3, <1>4 DEF TokenInv
<1>6. ASSUME NEW h \in Hosts, deletionTokens'[h] # 0
      PROVE  /\ deletionTokens'[h] \in DOMAIN tokens /\ deletionTokens'[h] \notin confirmed
             /\ Host(tokens[deletionTokens'[h]].of) = h
             /\ tokens[deletionTokens'[h]].target = None
  <2>1. CASE h = host
    <3>1. deletionTokens'[h] = n
      BY <1>2, <2>1, ValidToken
    <3> QED BY <1>1, <1>2, <2>1, <3>1 DEF TokenInv
  <2>2. CASE h # host
    <3>1. deletionTokens'[h] = deletionTokens[h]
      BY <1>2, <2>2, ValidToken
    <3> QED BY <1>6, <3>1, ValidToken DEF TokenInv
  <2> QED BY <2>1, <2>2
<1>7. \A h \in Hosts : deletionTokens'[h] # 0 =>
        /\ Host(tokens[deletionTokens[h]].of)' = h
        /\ tokens'[deletionTokens'[h]].target = None
        /\ deletionTokens'[h] \notin confirmed'
  BY <1>2, <1>3, <1>6 DEF Host
<1>8. confirmed \subseteq DOMAIN tokens
  BY TypeParts DEF TokensOK
<1>9. \A m \in confirmed' : tokens'[m].target = None
  BY <1>2, <1>3, <1>8 DEF TokenInv
<1>10. \A m \in DOMAIN tokens' : ~tokens'[m].given =>
         tokens'[m].target = None /\ m \notin confirmed'
  BY <1>2, <1>3 DEF TokenInv
<1>11. \A m \in DOMAIN tokens', j \in Jobs : <<m, j>> \in deleting' => tokens'[m].target # None
  BY <1>2, <1>3 DEF TokenInv
<1>12. DeletedWasRequested'
  BY <1>3 DEF TokenInv, DeletedWasRequested
<1> QED BY <1>5, <1>7, <1>9, <1>10, <1>11, <1>12 DEF TokenInv

LEMMA ConfirmDeletionToken ==
  ASSUME TypeOK, TokenInv, NEW n \in DOMAIN tokens, ConfirmDeletion(n)
  PROVE  TokenInv'
<1>1. PICK host \in Hosts : host = Host(tokens[n].of)
  BY TokenAt, Asked
<1>2. /\ UNCHANGED <<asked, tenants, tokens, deleting>>
      /\ deletionTokens' = [deletionTokens EXCEPT ![host] = 0]
      /\ confirmed' = IF deletionTokens[host] = n THEN confirmed \cup {n} ELSE confirmed
  BY <1>1 DEF ConfirmDeletion, stored
<1>3. Deleted' = Deleted /\ DeletedWasRequested'
  BY <1>2 DEF Deleted, DeletedWasRequested, TokenInv
<1>4. ASSUME NEW h \in Hosts, deletionTokens'[h] # 0
      PROVE  /\ Host(tokens[deletionTokens[h]].of) = h
             /\ tokens[deletionTokens'[h]].target = None
             /\ deletionTokens'[h] \notin confirmed' /\ deletionTokens'[h] = deletionTokens[h]
  <2>1. h # host /\ deletionTokens'[h] = deletionTokens[h]
    BY <1>2, <1>4, ValidToken
  <2>2. deletionTokens[h] # n
    BY <1>1, <1>4, <2>1 DEF TokenInv
  <2> QED BY <1>2, <1>4, <2>1, <2>2 DEF TokenInv
<1>5. \A h \in Hosts : deletionTokens'[h] # 0 =>
        /\ Host(tokens[deletionTokens[h]].of)' = h
        /\ tokens'[deletionTokens'[h]].target = None
        /\ deletionTokens'[h] \notin confirmed'
  BY <1>2, <1>4 DEF Host
<1>6. \A m \in confirmed' : tokens'[m].target = None
  <2>1. (deletionTokens[host] = n /\ n # 0) => tokens[n].target = None
    BY DEF TokenInv
  <2>2. deletionTokens[host] # 0
    BY <1>1 DEF ConfirmDeletion
  <2> QED BY <1>2, <2>1, <2>2 DEF TokenInv
<1>7. \A m \in DOMAIN tokens' : tokens'[m].of \in tenants' \cup Deleted'
  BY <1>2, <1>3 DEF TokenInv
<1>8. \A m \in DOMAIN tokens', j \in Jobs : <<m, j>> \in deleting' => tokens'[m].target # None
  BY <1>2 DEF TokenInv
<1>9. \A m \in DOMAIN tokens' : ~tokens'[m].given =>
        tokens'[m].target = None /\ m \notin confirmed'
  <2>1. tokens[n].given
    BY DEF ConfirmDeletion
  <2> QED BY <1>2, <2>1 DEF TokenInv
<1> QED BY <1>3, <1>5, <1>6, <1>7, <1>8, <1>9 DEF TokenInv

(* The deletion finds the tenant the token was asked for, or that one was   *)
(* deleted with another token.                                              *)
LEMMA ExecuteDeletionToken ==
  ASSUME TypeOK, StoreInv, TokenInv, NEW n \in DOMAIN tokens, ExecuteDeletion(n)
  PROVE  TokenInv'
<1>1. /\ UNCHANGED <<asked, tenants, deletionTokens>> /\ n \in confirmed
      /\ confirmed' = confirmed \ {n}
  BY DEF ExecuteDeletion, stored
<1>2. tokens[n].target = None
  BY <1>1 DEF TokenInv
<1>3. /\ DOMAIN tokens' = DOMAIN tokens
      /\ \A m \in DOMAIN tokens : tokens'[m].of = tokens[m].of
      /\ \A m \in DOMAIN tokens \ {n} : tokens'[m] = tokens[m]
  BY ExecutedToken
<1>4. \/ UNCHANGED <<tokens, deleting>>
      \/ \E t \in tenants : /\ Host(t) = Host(tokens[n].of) /\ tokens'[n].target = t
                            /\ \A m \in DOMAIN tokens \ {n}, j \in Jobs :
                                 <<m, j>> \in deleting' => <<m, j>> \in deleting
  BY ExecutedToken
<1>5. \A m \in DOMAIN tokens : tokens[m].of \in tenants \cup Deleted /\ tokens[m].of \in Requests
  BY TokenAt DEF TokenInv
<1>6. \A m \in DOMAIN tokens' : tokens'[m].of \in tenants' \cup Deleted'
  BY <1>1, <1>3, <1>5, ExecuteDeletionDeleted
<1>7. ASSUME NEW h \in Hosts, deletionTokens[h] # 0
      PROVE  tokens'[deletionTokens[h]] = tokens[deletionTokens[h]]
  BY <1>1, <1>3, <1>7, ValidToken DEF TokenInv
<1>8. \A h \in Hosts : deletionTokens'[h] # 0 =>
        /\ Host(tokens[deletionTokens[h]].of)' = h
        /\ tokens'[deletionTokens'[h]].target = None
        /\ deletionTokens'[h] \notin confirmed'
  BY <1>1, <1>7 DEF TokenInv, Host
<1>9. \A m \in confirmed' : tokens'[m].target = None
  <2>1. confirmed \subseteq DOMAIN tokens
    BY TypeParts DEF TokensOK
  <2> QED BY <1>1, <1>3, <2>1 DEF TokenInv
<1>10. \A m \in DOMAIN tokens', j \in Jobs : <<m, j>> \in deleting' => tokens'[m].target # None
  BY <1>3, <1>4, StoreParts DEF TokenInv
<1>11. ASSUME NEW m \in DOMAIN tokens', tokens'[m].target \notin {None, tokens'[m].of}
       PROVE  \E l \in DOMAIN tokens' \ {m} : tokens'[l].target = tokens'[m].of
  <2>1. CASE m = n
    <3>1. tokens[n].of \notin tenants
      BY <1>2, <1>3, <1>4, <1>11, <2>1 DEF StoreInv
    <3>2. PICK l \in DOMAIN tokens : tokens[l].target = tokens[n].of
      BY <1>5, <3>1 DEF Deleted
    <3>3. l # n
      BY <1>2, <1>5, <3>2, StoreParts
    <3> QED BY <1>3, <2>1, <3>2, <3>3
  <2>2. CASE m # n
    <3>1. tokens[m].target \notin {None, tokens[m].of}
      BY <1>3, <1>11, <2>2
    <3>2. PICK l \in DOMAIN tokens \ {m} : tokens[l].target = tokens[m].of
      BY <1>3, <3>1 DEF TokenInv, DeletedWasRequested
    <3>3. l # n
      BY <1>2, <1>3, <1>5, <3>2, StoreParts
    <3> QED BY <1>3, <3>2, <3>3
  <2> QED BY <2>1, <2>2
<1>12. DeletedWasRequested'
  BY <1>11 DEF DeletedWasRequested
<1>13. \A m \in DOMAIN tokens' : ~tokens'[m].given =>
         tokens'[m].target = None /\ m \notin confirmed'
  <2>1. tokens[n].given
    BY <1>1 DEF TokenInv
  <2>2. tokens'[n].given \/ UNCHANGED tokens
    BY <2>1, TokenAt, StoreParts DEF ExecuteDeletion
  <2> QED BY <1>1, <1>3, <2>2 DEF TokenInv
<1> QED BY <1>6, <1>8, <1>9, <1>10, <1>12, <1>13 DEF TokenInv

LEMMA InitToken == Init => TokenInv
<1> SUFFICES ASSUME Init PROVE TokenInv
  OBVIOUS
<1>1. /\ DOMAIN tokens = {} /\ confirmed = {} /\ deleting = {}
      /\ \A h \in Hosts : deletionTokens[h] = 0
  BY DEF Init
<1> QED BY <1>1 DEF TokenInv, DeletedWasRequested

LEMMA NextToken == TypeOK /\ StoreInv /\ TokenInv /\ [Next]_vars => TokenInv'
<1> SUFFICES ASSUME TypeOK, StoreInv, TokenInv, [Next]_vars PROVE TokenInv'
  OBVIOUS
<1>1. ASSUME UNCHANGED <<asked, deletion>>, tenants \subseteq tenants'
      PROVE  TokenInv'
  BY <1>1, TokenFrame DEF deletion
<1>2. ASSUME NEW r \in Requests,
             Create(r) \/ StartCreateTenant(r) \/ AskTimeout(r) \/ SagaStep(r) \/ BusStep(r)
      PROVE  TokenInv'
  <2>1. UNCHANGED <<asked, deletion>> /\ tenants \subseteq tenants'
    BY <1>2 DEF Create, StartCreateTenant, AskTimeout, SagaStep, OnNameResolved,
       OnParallelResponse, OnTenantResponse, OnCompensationComplete, BusStep, Persist,
       SkipIngress, Provision, RollBack, RollBackTimeout, BusTimeout, stored
  <2> QED BY <1>1, <2>1
<1>3. CASE OnCreateTenant \/ OnSagaResponse \/ UNCHANGED vars
  BY <1>1, <1>3 DEF OnCreateTenant, OnSagaResponse, vars, stored
<1>4. ASSUME NEW n \in DOMAIN tokens, NEW j \in Jobs, Delete(n, j)
      PROVE  TokenInv'
  <2>1. UNCHANGED <<asked, tokens, confirmed, deletionTokens>> /\ deleting' \subseteq deleting
    BY <1>4 DEF Delete
  <2>2. \A t \in tenants : t \in tenants' \cup Deleted
    BY <1>4 DEF Delete, Deleted, stored
  <2> QED BY <2>1, <2>2, TokenFrame
<1> QED BY <1>2, <1>3, <1>4, RequestDeletionToken, GiveTokenToken, ConfirmDeletionToken,
           ExecuteDeletionToken DEF Next

-----------------------------------------------------------------------------
(* What the life of tenants guarantees *)

LEMMA AlwaysProvisioning ==
  Spec => [](TypeOK /\ SagaInv /\ MailInv /\ StoreInv /\ TokenInv)
  BY InitType, NextType, InitSaga, NextSaga, InitMail, NextMail, InitStore, NextStore,
     InitToken, NextToken, PTL DEF Spec

(* A saga that reports its failure has rolled back, or asked to, all that   *)
(* was reported provisioned, and was answered.                              *)
THEOREM Compensated == Spec => []ErrorIsCompensated
<1>1. SagaInv => ErrorIsCompensated
  BY DEF SagaInv, UndoneOK, ErrorIsCompensated
<1> QED BY <1>1, AlwaysProvisioning, PTL

(* A saga that waits for rollbacks it did not ask for asked for no realm,   *)
(* and the schema and the ingress failed.                                   *)
THEOREM Stranding == Spec => []StrandedWithoutRealm
<1>1. TypeOK /\ SagaInv => StrandedWithoutRealm
  <2> SUFFICES ASSUME TypeOK, SagaInv, NEW r \in Requests, Stranded(r)
               PROVE  Identity(r) = "external" /\ Errors(r) = {"INGRESS", "SCHEMA"}
    BY DEF StrandedWithoutRealm
  <2>1. saga[r] = "compensating" /\ Rolled(r) = {}
    BY DEF Stranded, Rolled
  <2> QED BY <2>1 DEF SagaInv, UndoneOK
<1> QED BY <1>1, AlwaysProvisioning, PTL

(* The tenant a caller is given was created.                                *)
THEOREM Exists == Spec => []AnswerExists
<1>1. SagaInv /\ MailInv /\ StoreInv => AnswerExists
  BY DEF SagaInv, AskedOK, MailInv, StoreInv, AnswerExists
<1> QED BY <1>1, AlwaysProvisioning, PTL

(* No tenant is given to two callers, whoever the answers go to.            *)
THEOREM GivenOnce == Spec => []GivenToOne
<1>1. MailInv => GivenToOne
  BY DEF MailInv
<1> QED BY <1>1, AlwaysProvisioning, PTL

(* A token that deletes another tenant than its own comes after one that    *)
(* deleted its own.                                                         *)
THEOREM Requested == Spec => []DeletedWasRequested
<1>1. TokenInv => DeletedWasRequested
  BY DEF TokenInv
<1> QED BY <1>1, AlwaysProvisioning, PTL

(* A tenant that is served, and has its name for itself, keeps what it was  *)
(* provisioned with.                                                        *)
THEOREM Live == Spec => []LiveHasResources
<1>1. TypeOK /\ SagaInv /\ StoreInv => LiveHasResources
  <2> SUFFICES ASSUME TypeOK, SagaInv, StoreInv, NEW t \in tenants \ Deleted, Sole(t),
                      reply[t]["ENTITY"] = "ok", NEW o \in Expected(t) \ Skipped(t)
               PROVE  <<o, Name(t)>> \in resources
    BY DEF LiveHasResources, Sole
  <2>1. t \in Requests \ Deleted /\ o \in Operations
    BY StoreParts, Asked
  <2>2. saga[t] \in {"persisting", "succeeded"} /\ reply[t][o] = "ok"
    BY <2>1 DEF SagaInv, AskedOK
  <2> QED BY <2>1, <2>2 DEF StoreInv, Sole
<1> QED BY <1>1, AlwaysProvisioning, PTL
=============================================================================
