------------------------- MODULE ServiceSafetyProofs -------------------------
(***************************************************************************)
(* Theorems about ServiceController that say which load balancer a step    *)
(* may create, give up, leave behind or publish.  Each holds as long as    *)
(* the environment spares it certain hazards; the theorem names them.      *)
(***************************************************************************)
EXTENDS ServiceRefinement, ServiceControllerProofs

-----------------------------------------------------------------------------
(* Which load balancer the retry count is about.                           *)

(* A cleanup: the Service has left, is being deleted or wants no load      *)
(* balancer.                                                               *)
CleansUp == w.orphan \/ ~w.obj.wants \/ needsCleanup(w.obj)

(* Program points at which the object at hand tells the current id, and at *)
(* which w.id is that id.                                                  *)
ReadsObject == {"addFinalizer", "ensure", "get", "recDelete"}
HoldsId == {"annCount", "annHash", "get", "recDelete", "update", "recordHash", "poll"}

(* No more syncs are counted than have found this very load balancer not   *)
(* ready.  Between the write of a new id and the reset of the count, at    *)
(* the end of a creation, the count still belongs to the predecessor.      *)
CountedForThis ==
    svc.present /\ svc.id # None /\ w.pc \notin {"annCount", "annHash"} =>
        retries <= seenNotReady[svc.id]

FrameCounted ==
    /\ w.pc \in {"addFinalizer", "ensure", "get"} /\ w.obj.id # None =>
           retries <= seenNotReady[w.obj.id]
    /\ w.pc \in {"get", "recDelete"} => w.id = w.obj.id
    /\ w.pc = "recDelete" => seenNotReady[w.id] > MaxRetries
    /\ w.late /\ w.pc \in {"update", "recordHash", "poll"} =>
           retries < seenNotReady[w.id]
    /\ w.pc \in ReadsObject /\ svc.present => w.obj.id = svc.id
    /\ w.pc \in HoldsId /\ svc.present => w.id = svc.id
    /\ w.pc \in DeletePC => CleansUp

RetryInv == CountedForThis /\ FrameCounted

-----------------------------------------------------------------------------
(* Which creation attempts are unused.                                     *)

(* Attempts after the next one are unused, and so is the next one, unless  *)
(* its creation succeeded and the answer or the write of its id was lost.  *)
NextIsUnused ==
    svc.present => \A k \in Attempts :
        /\ k > Succ(svc) => ~Created(k)
        /\ k = Succ(svc) => ~Created(k) \/ Live(k)

(* The recorded count never falls behind the recorded id.                  *)
CountKeepsUp ==
    svc.present => /\ svc.id = None => svc.count = 0
                   /\ svc.id # None /\ w.pc # "annCount" => svc.id <= svc.count

FrameNumbered ==
    /\ w.pc \in BeforeAnnotation \cup {"exists", "cleanup", "delete"} /\ svc.present =>
           w.obj.id = svc.id /\ w.obj.count = svc.count
    /\ w.pc \in {"get", "recDelete"} => w.id = w.obj.id /\ w.id # None
    /\ w.pc \in {"create", "annId"} => w.id = Succ(w.obj)
    /\ w.pc \in {"create", "annId", "annCount"} => w.count = w.obj.count + 1
    /\ w.pc = "annCount" =>
           svc.id = w.id /\ svc.count = w.obj.count /\ w.id <= w.count
    /\ svc.present => /\ w.pc # "find"
                      /\ w.pc = "cleanup" => w.obj.id # None
                      /\ w.pc = "delete" => w.id = svc.id

ReplayInv == /\ FinalizerHeld /\ NextIsUnused /\ CountKeepsUp /\ FrameNumbered
             /\ NoDeadReplay

-----------------------------------------------------------------------------
(* Which load balancers can be alive.                                      *)

NoneLive == \A k \in Attempts : ~Live(k)

OnlyLive(id) == \A k \in Attempts : Live(k) => k = id

(* Without the finalizer nothing is alive.                                 *)
BareHoldsNothing == ~svc.present \/ ~svc.finalizer => NoneLive

(* What is alive is recorded, or its id is about to be.                    *)
Recorded == IF w.pc = "annId" THEN OnlyLive(w.id) ELSE OnlyLive(svc.id)

(* A Service that is declined never had a load balancer.                   *)
DeclinedHoldsNothing ==
    /\ svc.present /\ shouldSkipService(svc) => NoneLive
    /\ w.pc \in EnsurePC \ {"ensure"} => ~shouldSkipService(svc)
    /\ w.pc \in {"addFinalizer", "ensure"} /\ svc.present =>
           (shouldSkipService(w.obj) <=> shouldSkipService(svc))
    /\ w.pc \in {"exists", "cleanup"} /\ shouldSkipService(w.obj) => NoneLive

FrameAccounts ==
    /\ w.pc \in {"addFinalizer", "ensure", "exists", "cleanup"} => OnlyLive(w.obj.id)
    /\ w.pc \in {"get", "recDelete", "delete"} => OnlyLive(w.id)
    /\ w.pc \in {"create", "find", "removed", "clearStatus"} => NoneLive

OrphanInv == /\ FinalizerHeld /\ BareHoldsNothing /\ Recorded /\ DeclinedHoldsNothing
             /\ FrameAccounts

(* What is about to be published is alive.                                 *)
PublishesLive == w.pc \in {"kamaji", "internalIP", "publish"} => Live(w.id)

-----------------------------------------------------------------------------
(* Steps beside the service worker.                                        *)

(* Such a step moves neither the worker nor its counts, gives up and       *)
(* creates no load balancer, and touches no annotation but the hash.  It   *)
(* may take the Service away when that has no finalizer.                   *)
Beside ==
    /\ UNCHANGED <<w, retries, seenNotReady>>
    /\ \A k \in Attempts : (Live(k)' <=> Live(k)) /\ (Created(k)' <=> Created(k))
    /\ svc'.present => /\ svc.present /\ svc'.id = svc.id /\ svc'.count = svc.count
                       /\ svc'.status = svc.status /\ svc'.finalizer = svc.finalizer
                       /\ "strip" \notin Hazards => svc'.config = svc.config
    /\ ~svc'.present => svc' = svc \/ (svc.present /\ ~svc.finalizer /\ svc' = Absent)

BesideAction == \/ NodeWorker \/ InformerDeliver \/ UserDelete \/ EditPorts
                \/ ToggleConfig \/ Retype \/ ChangeNodes \/ UNCHANGED vars
                \/ \E k \in Attempts : Server(k)

LEMMA ServerKeepsAll ==
    ASSUME lbs \in [Attempts -> LB], NEW k \in Attempts, ServerStep(k)
    PROVE  \A j \in Attempts : (Live(j)' <=> Live(j)) /\ (Created(j)' <=> Created(j))
<1>1. CASE Provisioned(k)
  BY <1>1 DEF Provisioned, Created, Live, LB
<1>2. CASE FipActivated(k)
  BY <1>2 DEF FipActivated, Created, Live, LB
<1>3. CASE Deleted(k)
  BY <1>3 DEF Deleted, Created, Live, LB
<1>4. CASE Purged(k)
  BY <1>4 DEF Purged, Created, Live, LB
<1> QED BY <1>1, <1>2, <1>3, <1>4 DEF ServerStep

LEMMA UpdateKeepsAll ==
    ASSUME lbs \in [Attempts -> LB], NEW k \in Attempts, NEW l \in Listeners,
           Live(k), ApiUpdate(k, l)
    PROVE  \A j \in Attempts : (Live(j)' <=> Live(j)) /\ (Created(j)' <=> Created(j))
BY DEF ApiUpdate, Created, Live, LB

LEMMA NodeBeside == ASSUME Inv, NodeWorker PROVE Beside
<1> USE DEF Inv, TypeOK, Service
<1>1. CASE nodeSyncService \/ NodeFailed \/ NodeGet
  BY <1>1 DEF nodeSyncService, NodeFailed, NodeGet, Beside, Live, Created
<1>2. CASE NodeUpdate
  <2>1. n.obj.id \in Attempts /\ n.want \in Listeners
    BY <1>2 DEF FrameOK, NodeUpdate
  <2>2. \A k \in Attempts : (Live(k)' <=> Live(k)) /\ (Created(k)' <=> Created(k))
    BY <1>2, <2>1, UpdateKeepsAll DEF NodeUpdate, Live, Created
  <2> QED BY <1>2, <2>2 DEF NodeUpdate, Beside
<1>3. CASE NodeRecordHash
  BY <1>3 DEF NodeRecordHash, Beside, Live, Created
<1> QED BY <1>1, <1>2, <1>3 DEF NodeWorker, NodeStep

LEMMA OthersBeside == ASSUME Inv, BesideAction PROVE Beside
<1> USE DEF Inv, TypeOK, Service
<1>1. CASE InformerDeliver \/ ChangeNodes \/ UNCHANGED vars
  BY <1>1 DEF InformerDeliver, ChangeNodes, vars, providerVars, Beside, Live, Created
<1>2. CASE UserDelete
  BY <1>2 DEF UserDelete, Absent, Beside, Live, Created
<1>3. CASE EditPorts
  <2>1. PICK p \in Ports : Edit([svc EXCEPT !.ports = p])
    BY <1>3 DEF EditPorts
  <2> QED BY <2>1 DEF Edit, Beside, Live, Created
<1>4. CASE ToggleConfig
  BY <1>4 DEF ToggleConfig, Edit, Beside, Live, Created
<1>5. CASE Retype
  BY <1>5 DEF Retype, Edit, Beside, Live, Created
<1>6. ASSUME NEW k \in Attempts, Server(k) PROVE Beside
  BY <1>6, ServerKeepsAll DEF Server, Beside
<1> QED BY <1>1, <1>2, <1>3, <1>4, <1>5, <1>6, NodeBeside DEF BesideAction

(* What a sync starts with when the lister is current.                     *)
LEMMA CurrentStart ==
    ASSUME Inv, SyncStart, "lag" \notin Hazards
    PROVE  /\ w.pc = "idle" /\ UNCHANGED <<lbs, svc, retries, seenNotReady>>
           /\ \/ w' = w
              \/ /\ svc.present /\ w'.obj = svc /\ ~w'.late
                 /\ \/ w'.pc = "exists" /\ (~svc.wants \/ needsCleanup(svc))
                    \/ w'.pc = "addFinalizer"
              \/ ~svc.present /\ w'.pc = "cleanup" /\ w'.orphan /\ ~w'.late
<1>1. cached = svc
  BY DEF SyncStart, ListerCurrent, Fault
<1> QED BY <1>1 DEF SyncStart, SyncFrame, WIdle
-----------------------------------------------------------------------------
(* Only a load balancer that was found not ready often enough is replaced. *)

LEMMA RetryTyped ==
    ASSUME Inv
    PROVE  /\ retries \in Nat /\ MaxRetries \in Nat /\ retries <= MaxRetries
           /\ \A k \in Attempts : seenNotReady[k] \in 0..(MaxRetries + 1)
BY Constants DEF Inv, TypeOK

LEMMA BesideRetry ==
    ASSUME RetryInv, Beside
    PROVE  RetryInv'
BY DEF RetryInv, CountedForThis, FrameCounted, CleansUp, needsCleanup, Beside

(* A step to a program point that says nothing about the count.            *)
LEMMA LeavesRetry ==
    ASSUME RetryInv, UNCHANGED <<retries, seenNotReady>>,
           w.pc \notin {"annCount", "annHash"},
           w'.pc \notin ReadsObject \cup HoldsId \cup DeletePC,
           svc'.present => svc.present /\ svc'.id = svc.id
    PROVE  RetryInv'
BY DEF RetryInv, CountedForThis, FrameCounted, ReadsObject, HoldsId

(* The same for a step that clears the count.                              *)
LEMMA ClearsRetry ==
    ASSUME Inv, Inv', retries' = 0,
           w'.pc \notin {"recDelete"} \cup DeletePC, ~w'.late,
           w'.pc \in {"get", "recDelete"} => w'.id = w'.obj.id,
           w'.pc \in ReadsObject /\ svc'.present => w'.obj.id = svc'.id,
           w'.pc \in HoldsId /\ svc'.present => w'.id = svc'.id
    PROVE  RetryInv'
<1>1. \A k \in Attempts : 0 <= seenNotReady'[k]
  BY DEF Inv, TypeOK
<1>2. svc'.id \in Attempts \cup {None} /\ w'.obj.id \in Attempts \cup {None}
  BY DEF Inv, TypeOK, WFrame, Service, LBId
<1> QED BY <1>1, <1>2 DEF RetryInv, CountedForThis, FrameCounted

LEMMA SyncStartRetry ==
    ASSUME RetryInv, Inv, SyncStart, "lag" \notin Hazards
    PROVE  RetryInv'
BY CurrentStart DEF RetryInv, CountedForThis, FrameCounted, CleansUp, ReadsObject, HoldsId,
   DeletePC

LEMMA BeforeGetRetry ==
    ASSUME RetryInv, Inv, addFinalizer \/ ensureLoadBalancer
    PROVE  RetryInv'
<1>1. /\ UNCHANGED <<lbs, retries, seenNotReady>>
      /\ svc'.present => svc.present /\ svc'.id = svc.id
      /\ svc.present => svc'.present
      /\ w.pc \in {"addFinalizer", "ensure"} /\ w'.obj = w.obj /\ w'.late = w.late
      /\ \/ w'.pc \in {"ensure", "failed", "done", "create"}
         \/ w'.pc = "get" /\ w'.id = w.obj.id /\ w.obj.id # None
  BY ZenonT(30) DEF addFinalizer, ensureLoadBalancer, EnsureLoadBalancer, Goto, Inv, TypeOK, WFrame, Service
<1>2. w.late = FALSE
  BY <1>1 DEF Inv, TypeOK, FrameOK, WFrame
<1> QED BY <1>1, <1>2 DEF RetryInv, CountedForThis, FrameCounted, CleansUp, ReadsObject,
           HoldsId, DeletePC

LEMMA EnsureGetRetry ==
    ASSUME RetryInv, Inv, Inv', EnsureGet
    PROVE  RetryInv'
<1> USE RetryTyped
<1>1. /\ w.pc = "get" /\ UNCHANGED <<lbs, svc>> /\ w'.obj = w.obj /\ w'.id = w.id
      /\ w.id \in Attempts /\ w.id = w.obj.id
      /\ w'.pc \in {"failed", "update", "poll", "publish", "recDelete"}
  BY DEF EnsureGet, FoundReady, FoundNotReady, Goto, Inv, TypeOK, FrameOK, WFrame, Validated,
         EnsurePC, RetryInv, FrameCounted
<1>2. /\ svc.present => svc.id = w.id
      /\ retries <= seenNotReady[w.id]
      /\ w.late = FALSE
  BY <1>1, CountsAreAttempts DEF RetryInv, FrameCounted, HoldsId, Inv, TypeOK, FrameOK, WFrame
<1>3. CASE FoundNotReady
  <2>1. \/ seenNotReady[w.id] > MaxRetries /\ seenNotReady' = seenNotReady
        \/ /\ seenNotReady[w.id] <= MaxRetries
           /\ seenNotReady' = [seenNotReady EXCEPT ![w.id] = @ + 1]
    BY <1>1, <1>3 DEF FoundNotReady
  <2>2. \/ seenNotReady'[w.id] > MaxRetries
        \/ seenNotReady'[w.id] = seenNotReady[w.id] + 1
    BY <1>1, <2>1 DEF Inv, TypeOK
  <2>3. \/ /\ UNCHANGED retries /\ w'.pc = "failed"
        \/ /\ UNCHANGED retries /\ w'.pc = "recDelete" /\ retries >= MaxRetries
        \/ /\ UNCHANGED retries /\ w'.pc = "update" /\ retries < MaxRetries
        \/ /\ retries' = retries + 1 /\ w'.pc = "failed" /\ retries < MaxRetries
    BY <1>3 DEF FoundNotReady, incrementRetryCount, Goto, Inv, TypeOK, WFrame
  <2>4. /\ retries' <= seenNotReady'[w.id]
        /\ w'.pc = "recDelete" => seenNotReady'[w.id] > MaxRetries
        /\ w'.pc = "update" => retries' < seenNotReady'[w.id]
    <3>1. seenNotReady[w.id] \in Nat /\ retries \in Nat /\ MaxRetries \in Nat
      BY <1>1
    <3>2. seenNotReady'[w.id] \in Nat
      BY <1>1 DEF Inv, TypeOK
    <3>3. retries' = retries \/ (retries' = retries + 1 /\ retries < MaxRetries)
      BY <2>3
    <3>4. seenNotReady'[w.id] > retries \/ seenNotReady'[w.id] > MaxRetries
      BY <1>2, <2>2, <3>1, <3>2
    <3>5. retries' <= seenNotReady'[w.id]
      BY <3>1, <3>2, <3>3, <3>4
    <3>6. w'.pc = "recDelete" => seenNotReady'[w.id] > MaxRetries
      BY <2>3, <3>1, <3>2, <3>4
    <3>7. w'.pc = "update" => retries' < seenNotReady'[w.id]
      BY <2>3, <3>1, <3>2, <3>4
    <3> QED BY <3>5, <3>6, <3>7
  <2> QED BY <1>1, <1>2, <2>3, <2>4 DEF RetryInv, CountedForThis, FrameCounted, ReadsObject,
             HoldsId, DeletePC
<1>4. CASE ~FoundNotReady
  <2>1. UNCHANGED seenNotReady /\ w'.pc # "recDelete" /\ w'.late = FALSE
    BY <1>2, <1>4 DEF EnsureGet, FoundReady, Goto, Inv, TypeOK, WFrame
  <2>2. retries' = retries \/ retries' = 0
    BY <1>4 DEF EnsureGet, FoundReady, clearRetryCount
  <2>3. retries' <= seenNotReady'[w.id]
    BY <1>1, <1>2, <2>1, <2>2
  <2> QED BY <1>1, <1>2, <2>1, <2>3 DEF RetryInv, CountedForThis, FrameCounted, ReadsObject,
             HoldsId, DeletePC
<1> QED BY <1>3, <1>4

(* From the delete of a stuck load balancer to the end of its replacement. *)
LEMMA CreationRetry ==
    ASSUME RetryInv, Inv, Inv', RecreateDelete \/ CreateRPC \/ AnnotateId \/ AnnotateCount
    PROVE  RetryInv'
<1>0. w.late = FALSE
  BY DEF RecreateDelete, CreateRPC, AnnotateId, AnnotateCount, Inv, TypeOK, FrameOK, WFrame
<1>1. UNCHANGED <<retries, seenNotReady>>
  BY DEF RecreateDelete, CreateRPC, AnnotateId, AnnotateCount
<1>2. CASE RecreateDelete \/ CreateRPC
  <2>1. UNCHANGED svc /\ w'.pc \in {"create", "annId", "failed"} /\ w.pc \in {"recDelete", "create"}
    BY <1>2 DEF RecreateDelete, CreateRPC, Goto, Inv, TypeOK, WFrame
  <2> QED BY <1>1, <2>1, LeavesRetry DEF ReadsObject, HoldsId, DeletePC
<1>3. CASE AnnotateId
  <2>1. /\ w.pc = "annId" /\ w'.id = w.id /\ w'.late = FALSE
        /\ \/ w'.pc = "annCount" /\ svc'.id = w.id
           \/ w'.pc = "failed" /\ svc' = svc
    BY <1>0, <1>3 DEF AnnotateId, Goto, Inv, TypeOK, WFrame, Service
  <2> QED BY <1>1, <2>1 DEF RetryInv, CountedForThis, FrameCounted, ReadsObject, HoldsId, DeletePC
<1>4. CASE AnnotateCount
  <2>1. /\ w.pc = "annCount" /\ w'.pc = "annHash" /\ w'.id = w.id /\ w'.late = FALSE
        /\ svc'.id = svc.id /\ svc'.present = svc.present
    BY <1>0, <1>4 DEF AnnotateCount, Goto, Inv, TypeOK, WFrame, Service
  <2> QED BY <1>1, <2>1 DEF RetryInv, CountedForThis, FrameCounted, ReadsObject, HoldsId, DeletePC
<1> QED BY <1>2, <1>3, <1>4

LEMMA RecordHashRetry ==
    ASSUME RetryInv, Inv, Inv', recordListenerHash
    PROVE  RetryInv'
<1>1. /\ w.pc \in {"annHash", "recordHash"} /\ w'.pc = "poll" /\ w'.id = w.id /\ w'.late = w.late
      /\ svc'.id = svc.id /\ svc'.present = svc.present /\ UNCHANGED seenNotReady
      /\ w.pc = "annHash" => retries' = 0
      /\ w.pc = "recordHash" => retries' = retries
  BY DEF recordListenerHash, clearRetryCount, Goto, Inv, TypeOK, WFrame, Service
<1>2. svc'.present => w'.id = svc'.id
  BY <1>1 DEF RetryInv, FrameCounted, HoldsId
<1>3. CASE w.pc = "annHash"
  <2>1. ~w'.late
    BY <1>1, <1>3 DEF Inv, FrameOK
  <2> QED BY <1>1, <1>2, <1>3, <2>1, ClearsRetry DEF ReadsObject, DeletePC
<1>4. CASE w.pc = "recordHash"
  BY <1>1, <1>2, <1>4 DEF RetryInv, CountedForThis, FrameCounted, ReadsObject, HoldsId, DeletePC
<1> QED BY <1>1, <1>3, <1>4

(* The update of a load balancer that was not ready, and the poll after    *)
(* it, count a sync that has already been seen to find it not ready.       *)
LEMMA LateRetry ==
    ASSUME RetryInv, Inv, Inv', UpdateRPC \/ PollReady \/ PollGivesUp
    PROVE  RetryInv'
<1> USE RetryTyped
<1>1. /\ w.pc \in {"update", "poll"} /\ w.id \in Attempts /\ UNCHANGED <<svc, seenNotReady>>
      /\ w'.id = w.id /\ w'.late = w.late /\ w.late \in BOOLEAN
      /\ \/ w'.pc = "recordHash" /\ retries' = retries
         \/ w'.pc \in {"kamaji", "internalIP", "publish"} /\ retries' \in {0, retries}
         \/ w'.pc = "failed" /\ retries' = IF w.late THEN retries + 1 ELSE retries
  BY DEF UpdateRPC, PollReady, PollGivesUp, Goto, afterPoll, afterKamaji, clearRetryCount,
         incrementRetryCount, Inv, TypeOK, FrameOK, WFrame, Validated, EnsurePC
<1>2. /\ svc.present => w.id = svc.id
      /\ w.late => retries < seenNotReady[w.id]
  BY <1>1 DEF RetryInv, FrameCounted, HoldsId
<1>3. svc.present => retries <= seenNotReady[w.id]
  BY <1>1, <1>2, CountsAreAttempts DEF RetryInv, CountedForThis
<1>4. svc.present => retries' <= seenNotReady[w.id]
  <2>1. seenNotReady[w.id] \in Nat /\ retries \in Nat
    BY <1>1
  <2>2. CASE w.late /\ retries' = retries + 1
    BY <1>2, <2>1, <2>2
  <2>3. CASE retries' \in {0, retries}
    BY <1>3, <2>1, <2>3
  <2> QED BY <1>1, <2>2, <2>3
<1>5. w'.late /\ w'.pc = "recordHash" => retries' < seenNotReady'[w'.id]
  BY <1>1, <1>2
<1>6. CountedForThis'
  BY <1>1, <1>2, <1>4 DEF CountedForThis
<1>7. FrameCounted'
  BY <1>1, <1>2, <1>5 DEF FrameCounted, ReadsObject, HoldsId, DeletePC
<1> QED BY <1>6, <1>7 DEF RetryInv

LEMMA TailRetry ==
    ASSUME RetryInv, Inv, \/ updateKamajiAdvertiseAddress \/ storeInternalIpIfBothMode
                          \/ publishStatus \/ removeFinalizer \/ clearStatus
                          \/ forgetOrphan \/ SyncEnd
    PROVE  RetryInv'
<1>1. /\ UNCHANGED <<retries, seenNotReady>> /\ w.pc \notin {"annCount", "annHash"}
      /\ w'.pc \in {"internalIP", "publish", "done", "failed", "clearStatus", "idle"}
  BY DEF updateKamajiAdvertiseAddress, storeInternalIpIfBothMode, publishStatus,
         removeFinalizer, clearStatus, forgetOrphan, SyncEnd, Goto, afterKamaji, WIdle,
         Inv, TypeOK, WFrame
<1>2. svc'.present => svc.present /\ svc'.id = svc.id
  BY DEF updateKamajiAdvertiseAddress, storeInternalIpIfBothMode, publishStatus,
         removeFinalizer, clearStatus, forgetOrphan, SyncEnd, Absent, Inv, TypeOK, Service
<1> QED BY <1>1, <1>2, LeavesRetry DEF ReadsObject, HoldsId, DeletePC

LEMMA DeleteStepRetry ==
    ASSUME RetryInv, Inv, Inv', DeleteStep
    PROVE  RetryInv'
<1>1. /\ UNCHANGED <<svc, seenNotReady>> /\ retries' \in {0, retries}
      /\ w.pc \in DeletePC /\ w'.pc \in {"failed", "removed", "cleanup", "find", "delete"}
      /\ w'.obj = w.obj /\ w'.orphan = w.orphan /\ w'.late = w.late
  BY DEF DeleteStep, GetLoadBalancer, EnsureLoadBalancerDeleted, findLoadBalancerByName,
         DeleteRPC, Goto, clearRetryCount, DeletePC, Inv, TypeOK, WFrame
<1>2. CleansUp'
  BY <1>1 DEF RetryInv, FrameCounted, CleansUp, needsCleanup
<1>3. svc.id \in Attempts \cup {None}
  BY DEF Inv, TypeOK, Service, LBId
<1>4. CountedForThis'
  BY <1>1, <1>3, RetryTyped DEF RetryInv, CountedForThis, DeletePC
<1>5. FrameCounted'
  BY <1>1, <1>2 DEF FrameCounted, ReadsObject, HoldsId
<1> QED BY <1>4, <1>5 DEF RetryInv
LEMMA CrashRetry ==
    ASSUME Inv, Inv', Crash
    PROVE  RetryInv'
<1>1. retries' = 0 /\ w'.pc = "idle" /\ ~w'.late
  BY DEF Crash, WIdle
<1> QED BY <1>1, ClearsRetry DEF ReadsObject, HoldsId, DeletePC

(* A step of the service worker, of its environment, or beside both.       *)
LEMMA Steps ==
    ASSUME [Next]_vars
    PROVE  \/ SyncStart \/ addFinalizer \/ ensureLoadBalancer \/ publishStatus
           \/ removeFinalizer \/ clearStatus \/ forgetOrphan \/ SyncEnd
           \/ EnsureStep \/ DeleteStep \/ ResetAnnotations \/ Crash \/ BesideAction
BY DEF Next, ServiceWorker, Environment, BesideAction

LEMMA NextRetry ==
    ASSUME RetryInv, Inv, [Next]_vars, "lag" \notin Hazards, "reset" \notin Hazards
    PROVE  RetryInv'
<1>1. Inv'
  BY NextPreserves
<1>2. CASE EnsureStep
  BY <1>1, <1>2, EnsureGetRetry, CreationRetry, RecordHashRetry, LateRetry, TailRetry
     DEF EnsureStep
<1>3. ~ResetAnnotations
  BY DEF ResetAnnotations, Fault
<1> QED BY <1>1, <1>2, <1>3, Steps, SyncStartRetry, BeforeGetRetry, TailRetry,
           DeleteStepRetry, CrashRetry, OthersBeside, BesideRetry

LEMMA InitRetry == ASSUME Init PROVE RetryInv
BY DEF Init, Fresh, Absent, WIdle, RetryInv, CountedForThis, FrameCounted, ReadsObject, HoldsId,
       DeletePC

LEMMA StuckStep ==
    ASSUME RetryInv, Inv, [Next]_vars, "reset" \notin Hazards,
           NEW k \in Attempts, Live(k), ~Live(k)'
    PROVE  seenNotReady[k] > MaxRetries \/ CleansUp
<1>1. /\ lbs \in [Attempts -> LB]
      /\ w.pc \in Validated \cup {"delete"} => w.id \in Attempts
  BY DEF Inv, TypeOK, FrameOK
<1>2. ASSUME NEW j \in Attempts, ApiDelete(j) PROVE j = k
  BY <1>1, <1>2 DEF ApiDelete, Live, Inv, TypeOK, LB
<1>3. CASE RecreateDelete
  <2>1. w.pc = "recDelete" /\ w.id \in Attempts
    BY <1>1, <1>3 DEF RecreateDelete, Validated, EnsurePC
  <2>2. ApiDelete(w.id)
    BY <1>3 DEF RecreateDelete, Live
  <2>3. w.id = k
    BY <1>2, <2>1, <2>2
  <2> QED BY <2>1, <2>3 DEF RetryInv, FrameCounted
<1>4. CASE DeleteStep
  BY <1>4 DEF DeleteStep, GetLoadBalancer, EnsureLoadBalancerDeleted, findLoadBalancerByName,
     DeleteRPC, DeletePC, RetryInv, FrameCounted
<1>5. CASE UpdateRPC
  <2>1. w.id \in Attempts /\ w.want \in Listeners
    BY <1>5 DEF UpdateRPC, Inv, FrameOK, Validated, EnsurePC
  <2> QED BY <1>5, <2>1, UpdateKeeps DEF UpdateRPC, Inv, TypeOK, Live
<1>6. CASE CreateRPC
  BY <1>1, <1>6 DEF CreateRPC, ApiCreate, Live, Validated, EnsurePC, LB
<1>7. CASE EnsureStep /\ ~RecreateDelete /\ ~UpdateRPC /\ ~CreateRPC
  BY <1>7 DEF EnsureStep, AnnotateId, AnnotateCount, recordListenerHash, EnsureGet, PollReady,
     PollGivesUp, updateKamajiAdvertiseAddress, storeInternalIpIfBothMode, Live
<1>8. CASE \/ SyncStart \/ addFinalizer \/ ensureLoadBalancer \/ publishStatus
           \/ removeFinalizer \/ clearStatus \/ forgetOrphan \/ SyncEnd \/ Crash
  BY <1>8 DEF SyncStart, addFinalizer, ensureLoadBalancer, EnsureLoadBalancer, publishStatus,
     removeFinalizer, clearStatus, forgetOrphan, SyncEnd, Crash, Live
<1>9. ~BesideAction
  BY OthersBeside DEF Beside
<1>10. ~ResetAnnotations
  BY DEF ResetAnnotations, Fault
<1> QED BY <1>3, <1>4, <1>5, <1>6, <1>7, <1>8, <1>9, <1>10, Steps

(* A sync that is no cleanup gives up a load balancer only after more than *)
(* maxLoadBalancerRetries syncs found that very one not ready, with        *)
(* crashes, failed and lost calls, failed writes, strips and retypes.  A   *)
(* stale lister would count one load balancer's trouble against another,   *)
(* and the documented remedy deletes one on the user's word               *)
(* (EnsureLoadBalancer, retryCounts).                                      *)
THEOREM OnlyStuckReplaced ==
    ASSUME Hazards \cap {"lag", "reset"} = {}
    PROVE  Spec => OnlyStuckIsReplaced
<1>0. "lag" \notin Hazards /\ "reset" \notin Hazards
  OBVIOUS
<1>1. Init => RetryInv
  BY InitRetry
<1>2. RetryInv /\ Inv /\ [Next]_vars => RetryInv'
  BY <1>0, NextRetry
<1>3. RetryInv /\ Inv /\ [Next]_vars =>
      [\A k \in Attempts : Live(k) /\ ~Live(k)' =>
          \/ seenNotReady[k] > MaxRetries
          \/ w.orphan \/ ~w.obj.wants \/ needsCleanup(w.obj)]_vars
  BY <1>0, StuckStep DEF CleansUp
<1> QED BY <1>1, <1>2, <1>3, InvHolds, PTL DEF Spec, OnlyStuckIsReplaced
-----------------------------------------------------------------------------
(* A creation is never answered with a load balancer that was given up.    *)

LEMMA CountTyped ==
    ASSUME Inv
    PROVE  /\ svc.count \in Nat /\ w.obj.count \in Nat /\ w.count \in Nat
           /\ svc.id \in Attempts \cup {None} /\ w.obj.id \in Attempts \cup {None}
           /\ w.id \in Attempts \cup {None}
           /\ \A k \in Attempts : k \in Nat
           /\ None \notin Attempts
BY CountsAreAttempts DEF Inv, TypeOK, WFrame, Service, LBId

LEMMA BesideReplay ==
    ASSUME ReplayInv, Inv, Beside
    PROVE  ReplayInv'
<1> USE DEF ReplayInv, Beside
<1>1. FinalizerHeld'
  BY DEF FinalizerHeld, Absent
<1>2. NextIsUnused' /\ CountKeepsUp' /\ NoDeadReplay'
  <2>1. NextIsUnused'
    BY DEF NextIsUnused, Succ
  <2>2. CountKeepsUp'
    BY DEF CountKeepsUp
  <2>3. NoDeadReplay'
    BY DEF NoDeadReplay, Inv, FrameOK, Validated, EnsurePC
  <2> QED BY <2>1, <2>2, <2>3
<1>3. FrameNumbered'
  BY <1>1 DEF FrameNumbered, FinalizerHeld, EnsurePC, Succ
<1> QED BY <1>1, <1>2, <1>3

(* A step of the worker, away from a creation, that leaves the recorded    *)
(* id and count alone and gives up at most a recorded load balancer.       *)
LEMMA WorkerReplay ==
    ASSUME ReplayInv, Inv,
           w.pc # "annCount",
           w'.pc \notin BeforeAnnotation \cup {"exists", "cleanup", "find", "delete", "annCount"},
           \A k \in Attempts : Created(k)' => Created(k),
           \A k \in Attempts : svc.present /\ k >= Succ(svc) => (Live(k)' <=> Live(k)),
           svc'.present => svc.present /\ svc'.id = svc.id /\ svc'.count = svc.count,
           w'.pc \in EnsurePC => svc'.present /\ svc'.finalizer
    PROVE  ReplayInv'
<1> USE DEF BeforeAnnotation
<1>1. FinalizerHeld' /\ NoDeadReplay' /\ CountKeepsUp' /\ FrameNumbered'
  BY DEF ReplayInv, FinalizerHeld, NoDeadReplay, CountKeepsUp, FrameNumbered
<1>2. NextIsUnused'
  <2> SUFFICES ASSUME svc'.present, NEW k \in Attempts
               PROVE  /\ k > Succ(svc)' => ~Created(k)'
                      /\ k = Succ(svc)' => ~Created(k)' \/ Live(k)'
    BY DEF NextIsUnused
  <2>1. Succ(svc)' = Succ(svc) /\ Succ(svc) \in Nat /\ k \in Nat
    BY CountTyped DEF Succ
  <2> QED BY <2>1 DEF ReplayInv, NextIsUnused
<1> QED BY <1>1, <1>2 DEF ReplayInv
LEMMA SyncStartReplay ==
    ASSUME ReplayInv, Inv, SyncStart, "lag" \notin Hazards
    PROVE  ReplayInv'
<1>1. NextIsUnused'
  BY CurrentStart DEF ReplayInv, NextIsUnused, Created, Live, Succ
<1> QED BY <1>1, CurrentStart DEF ReplayInv, FinalizerHeld, CountKeepsUp, FrameNumbered,
           NoDeadReplay, BeforeAnnotation, EnsurePC

LEMMA AddFinalizerReplay ==
    ASSUME ReplayInv, Inv, addFinalizer
    PROVE  ReplayInv'
<1>1. /\ w.pc = "addFinalizer" /\ w'.obj = w.obj /\ UNCHANGED lbs
      /\ svc'.present = svc.present /\ svc'.id = svc.id /\ svc'.count = svc.count
      /\ w'.pc = "failed" \/ (w'.pc = "ensure" /\ svc'.present /\ svc'.finalizer)
  BY DEF addFinalizer, Goto, WriteFails, Inv, TypeOK, WFrame, Service, ReplayInv, FinalizerHeld
<1>2. NextIsUnused'
  BY <1>1 DEF ReplayInv, NextIsUnused, Created, Live, Succ
<1> QED BY <1>1, <1>2 DEF ReplayInv, FinalizerHeld, CountKeepsUp, FrameNumbered,
           NoDeadReplay, BeforeAnnotation, EnsurePC

LEMMA EnsureReplay ==
    ASSUME ReplayInv, Inv, ensureLoadBalancer
    PROVE  ReplayInv'
<1>1. /\ w.pc = "ensure" /\ UNCHANGED <<lbs, svc>> /\ w'.obj = w.obj
      /\ svc.present /\ svc.finalizer
      /\ w.obj.id = svc.id /\ w.obj.count = svc.count
  BY DEF ensureLoadBalancer, EnsureLoadBalancer, Goto, ReplayInv, FinalizerHeld,
     FrameNumbered, BeforeAnnotation, EnsurePC, Inv, TypeOK, WFrame
<1>2. \/ w'.pc \in {"done", "failed"}
      \/ w'.pc = "create" /\ w.obj.id = None /\ w'.id = w.obj.count /\ w'.count = 1
      \/ w'.pc = "get" /\ w.obj.id # None /\ w'.id = w.obj.id
  BY DEF ensureLoadBalancer, EnsureLoadBalancer, Goto, firstAttempt, Inv, TypeOK, WFrame
<1>3. NextIsUnused'
  BY <1>1 DEF ReplayInv, NextIsUnused, Created, Live, Succ
<1>4. CountKeepsUp' /\ NoDeadReplay' /\ FinalizerHeld'
  BY <1>1, <1>2 DEF ReplayInv, CountKeepsUp, NoDeadReplay, FinalizerHeld, EnsurePC
<1>5. w.obj.id = None => w.obj.count = 0
  BY <1>1 DEF ReplayInv, CountKeepsUp
<1>6. FrameNumbered'
  BY <1>1, <1>2, <1>5 DEF FrameNumbered, BeforeAnnotation, Succ
<1> QED BY <1>3, <1>4, <1>6 DEF ReplayInv

LEMMA EnsureGetReplay ==
    ASSUME ReplayInv, Inv, EnsureGet
    PROVE  ReplayInv'
<1>1. /\ w.pc = "get" /\ UNCHANGED <<lbs, svc>> /\ w'.obj = w.obj /\ w'.id = w.id
      /\ w'.pc \in {"failed", "update", "poll", "publish", "recDelete"}
  BY DEF EnsureGet, FoundReady, FoundNotReady, Goto, Inv, TypeOK, WFrame
<1>2. NextIsUnused'
  BY <1>1 DEF ReplayInv, NextIsUnused, Created, Live, Succ
<1> QED BY <1>1, <1>2 DEF ReplayInv, FinalizerHeld, CountKeepsUp, FrameNumbered,
           NoDeadReplay, BeforeAnnotation, EnsurePC

(* The load balancer that is given up precedes the next attempt.           *)
LEMMA DeleteUsed ==
    ASSUME ReplayInv, Inv, svc.present, w.pc \in {"recDelete", "delete"}
    PROVE  /\ w.id \in Attempts /\ w.id = svc.id
           /\ Succ(svc) = svc.count + 1 /\ w.id <= svc.count
<1>1. w.id \in Attempts
  BY DEF Inv, FrameOK, Validated, EnsurePC
<1>2. w.id = svc.id
  BY DEF ReplayInv, FrameNumbered, BeforeAnnotation
<1> QED BY <1>1, <1>2, CountTyped DEF ReplayInv, CountKeepsUp, Succ

LEMMA RecreateDeleteReplay ==
    ASSUME ReplayInv, Inv, RecreateDelete
    PROVE  ReplayInv'
<1>1. /\ w.pc = "recDelete" /\ UNCHANGED svc /\ w.id \in Attempts
      /\ ApiDelete(w.id) \/ UNCHANGED lbs
      /\ w'.pc = "create" /\ w'.obj = w.obj
      /\ w'.id = w.obj.count + 1 /\ w'.count = w.obj.count + 1
  BY DEF RecreateDelete, nextAttempt, Inv, TypeOK, FrameOK, WFrame, Validated, EnsurePC
<1>2. /\ svc.present /\ svc.finalizer /\ w.obj.id # None
      /\ w.obj.id = svc.id /\ w.obj.count = svc.count
  BY <1>1 DEF ReplayInv, FinalizerHeld, FrameNumbered, BeforeAnnotation, EnsurePC
<1>3. \A k \in Attempts : /\ Created(k)' => Created(k)
                          /\ k # w.id => (Live(k)' <=> Live(k))
  BY <1>1 DEF ApiDelete, Created, Live, Inv, TypeOK, LB
<1>4. NextIsUnused'
  <2> SUFFICES ASSUME NEW k \in Attempts
               PROVE  /\ k > Succ(svc) => ~Created(k)'
                      /\ k = Succ(svc) => ~Created(k)' \/ Live(k)'
    BY <1>1 DEF NextIsUnused, Succ
  <2>1. k >= Succ(svc) => k # w.id
    BY <1>1, <1>2, DeleteUsed, CountTyped
  <2> QED BY <1>2, <1>3, <2>1, CountTyped DEF ReplayInv, NextIsUnused, Succ
<1>5. CountKeepsUp' /\ NoDeadReplay' /\ FinalizerHeld'
  BY <1>1, <1>2 DEF ReplayInv, CountKeepsUp, NoDeadReplay, FinalizerHeld, EnsurePC
<1>6. FrameNumbered'
  BY <1>1, <1>2 DEF FrameNumbered, BeforeAnnotation, Succ
<1> QED BY <1>4, <1>5, <1>6 DEF ReplayInv

LEMMA CreateReplay ==
    ASSUME ReplayInv, Inv, CreateRPC
    PROVE  ReplayInv'
<1>1. /\ w.pc = "create" /\ UNCHANGED svc /\ w.id \in Attempts
      /\ w'.obj = w.obj /\ w'.id = w.id /\ w'.count = w.count
      /\ \/ w'.pc \in {"annId", "failed"} /\ ApiCreate(w.id, w.want)
         \/ w'.pc = "failed" /\ UNCHANGED lbs
  BY DEF CreateRPC, Goto, Inv, TypeOK, FrameOK, WFrame, Validated, EnsurePC
<1>2. /\ svc.present /\ svc.finalizer /\ w.id = Succ(svc) /\ w.id = Succ(w.obj)
      /\ w.obj.id = svc.id /\ w.obj.count = svc.count
  BY <1>1 DEF ReplayInv, FinalizerHeld, FrameNumbered, BeforeAnnotation, EnsurePC, Succ
<1>3. \A k \in Attempts : k # w.id => lbs'[k] = lbs[k]
  BY <1>1 DEF ApiCreate, Inv, TypeOK
<1>4. ~Created(w.id) \/ Live(w.id)
  BY <1>1, <1>2 DEF ReplayInv, NextIsUnused
<1>5. ApiCreate(w.id, w.want) => Live(w.id)'
  BY <1>1, <1>4 DEF ApiCreate, Created, Live, Inv, TypeOK
<1>6. NextIsUnused'
  <2> SUFFICES ASSUME NEW k \in Attempts
               PROVE  /\ k > Succ(svc) => ~Created(k)'
                      /\ k = Succ(svc) => ~Created(k)' \/ Live(k)'
    BY <1>1 DEF NextIsUnused, Succ
  <2>1. CASE k = w.id
    BY <1>1, <1>2, <1>4, <1>5, <2>1, CountTyped DEF Created, Live
  <2>2. CASE k # w.id
    BY <1>2, <1>3, <2>2 DEF ReplayInv, NextIsUnused, Created
  <2> QED BY <2>1, <2>2
<1>7. CountKeepsUp' /\ FinalizerHeld' /\ NoDeadReplay'
  BY <1>1, <1>2, <1>5 DEF ReplayInv, CountKeepsUp, NoDeadReplay, FinalizerHeld, EnsurePC, Live
<1>8. FrameNumbered'
  BY <1>1, <1>2 DEF ReplayInv, FrameNumbered, BeforeAnnotation, Succ
<1> QED BY <1>6, <1>7, <1>8 DEF ReplayInv

LEMMA AnnotateIdReplay ==
    ASSUME ReplayInv, Inv, AnnotateId
    PROVE  ReplayInv'
<1>1. /\ w.pc = "annId" /\ UNCHANGED lbs /\ w.id \in Attempts
      /\ w'.obj = w.obj /\ w'.id = w.id /\ w'.count = w.count
      /\ svc'.count = svc.count /\ svc'.present = svc.present /\ svc'.finalizer = svc.finalizer
      /\ \/ w'.pc = "annCount" /\ svc'.id = w.id
         \/ w'.pc = "failed" /\ svc'.id = svc.id
  BY DEF AnnotateId, Goto, Inv, TypeOK, FrameOK, WFrame, Service, Validated, EnsurePC
<1>2. /\ svc.present /\ svc.finalizer /\ w.id = Succ(svc) /\ w.count = svc.count + 1
      /\ w.obj.id = svc.id /\ w.obj.count = svc.count
  BY <1>1 DEF ReplayInv, FinalizerHeld, FrameNumbered, BeforeAnnotation, EnsurePC, Succ
<1>3. w.id <= w.count
  BY <1>2, CountTyped DEF Succ
<1>4. CASE w'.pc = "failed"
  <2>1. NextIsUnused'
    BY <1>1, <1>4 DEF ReplayInv, NextIsUnused, Created, Live, Succ
  <2> QED BY <1>1, <1>2, <1>4, <2>1 DEF ReplayInv, CountKeepsUp, FrameNumbered, FinalizerHeld,
             NoDeadReplay, BeforeAnnotation, EnsurePC
<1>5. CASE w'.pc = "annCount" /\ svc'.id = w.id
  <2>1. NextIsUnused'
    <3> SUFFICES ASSUME NEW k \in Attempts
                 PROVE  /\ k > svc.count + 1 => ~Created(k)
                        /\ k = svc.count + 1 => ~Created(k) \/ Live(k)
      BY <1>1, <1>5, CountTyped DEF NextIsUnused, Succ, Created, Live
    <3> QED BY <1>2, CountTyped DEF ReplayInv, NextIsUnused, Succ
  <2>2. CountKeepsUp'
    BY <1>1, <1>5, CountTyped DEF CountKeepsUp
  <2> QED BY <1>1, <1>2, <1>3, <1>5, <2>1, <2>2 DEF ReplayInv, FrameNumbered, FinalizerHeld,
             NoDeadReplay, BeforeAnnotation, EnsurePC
<1> QED BY <1>1, <1>4, <1>5

LEMMA AnnotateCountReplay ==
    ASSUME ReplayInv, Inv, AnnotateCount, "annWrite" \notin Hazards
    PROVE  ReplayInv'
<1>1. w.pc = "annCount" /\ svc.present /\ svc.finalizer
  BY DEF AnnotateCount, ReplayInv, FinalizerHeld, EnsurePC
<1>2. /\ UNCHANGED lbs /\ w.id \in Attempts /\ w'.pc = "annHash"
      /\ svc'.id = svc.id /\ svc'.count = w.count
      /\ svc'.present = svc.present /\ svc'.finalizer = svc.finalizer
  BY ZenonT(30), <1>1 DEF AnnotateCount, WriteFails, Fault, Goto, Inv, TypeOK, FrameOK, WFrame, Service,
              Validated, EnsurePC
<1>3. svc.id = w.id /\ w.count = svc.count + 1 /\ w.id <= w.count
  BY <1>1 DEF ReplayInv, FrameNumbered
<1>4. NextIsUnused'
  <2> SUFFICES ASSUME NEW k \in Attempts, k >= svc.count + 2
               PROVE  ~Created(k)
    BY <1>2, <1>3, CountTyped DEF NextIsUnused, Succ, Created, Live
  <2> QED BY <1>1, <1>2, <1>3, CountTyped DEF ReplayInv, NextIsUnused, Succ
<1>5. CountKeepsUp'
  BY <1>2, <1>3, CountTyped DEF CountKeepsUp
<1> QED BY <1>1, <1>2, <1>4, <1>5 DEF ReplayInv, FrameNumbered, FinalizerHeld, NoDeadReplay,
           BeforeAnnotation, EnsurePC
LEMMA EnsureTailReplay ==
    ASSUME ReplayInv, Inv,
           \/ recordListenerHash \/ PollReady \/ PollGivesUp \/ UpdateRPC
           \/ updateKamajiAdvertiseAddress \/ storeInternalIpIfBothMode
    PROVE  ReplayInv'
<1>1. /\ w.pc \in EnsurePC \ {"annCount"}
      /\ svc'.id = svc.id /\ svc'.count = svc.count
      /\ svc'.present = svc.present /\ svc'.finalizer = svc.finalizer
  BY DEF recordListenerHash, PollReady, PollGivesUp, updateKamajiAdvertiseAddress,
         storeInternalIpIfBothMode, UpdateRPC, EnsurePC, Inv, TypeOK, Service
<1>2. w'.pc \in {"poll", "failed", "kamaji", "internalIP", "publish", "recordHash"}
  BY DEF recordListenerHash, PollReady, PollGivesUp, updateKamajiAdvertiseAddress, UpdateRPC,
         storeInternalIpIfBothMode, Goto, afterPoll, afterKamaji, Inv, TypeOK, WFrame
<1>3. svc.present /\ svc.finalizer
  BY <1>1 DEF ReplayInv, FinalizerHeld
<1>4. \A k \in Attempts : (Live(k)' <=> Live(k)) /\ (Created(k)' <=> Created(k))
  <2>1. CASE UpdateRPC
    <3>1. w.id \in Attempts /\ w.want \in Listeners
      BY <2>1 DEF UpdateRPC, Inv, FrameOK, Validated, EnsurePC
    <3> QED BY <2>1, <3>1, UpdateKeepsAll DEF UpdateRPC, Inv, TypeOK, Live, Created
  <2>2. CASE ~UpdateRPC
    BY <2>2 DEF recordListenerHash, PollReady, PollGivesUp, updateKamajiAdvertiseAddress,
       storeInternalIpIfBothMode, Live, Created
  <2> QED BY <2>1, <2>2
<1> QED BY <1>1, <1>2, <1>3, <1>4, WorkerReplay DEF BeforeAnnotation

LEMMA LookupReplay ==
    ASSUME ReplayInv, Inv,
           GetLoadBalancer \/ EnsureLoadBalancerDeleted \/ findLoadBalancerByName
    PROVE  ReplayInv'
<1>1. UNCHANGED <<lbs, svc>> /\ w'.obj = w.obj
  BY DEF GetLoadBalancer, EnsureLoadBalancerDeleted, findLoadBalancerByName, Goto, Inv,
         TypeOK, WFrame
<1>2. \/ w.pc = "exists" /\ w'.pc = "cleanup" /\ w.obj.id # None
      \/ w.pc = "cleanup" /\ w'.pc = "delete" /\ w'.id = w.obj.id
      \/ w.pc = "cleanup" /\ w'.pc = "find" /\ w.obj.id = None
      \/ w.pc = "find" /\ w'.pc = "delete"
      \/ w.pc \in {"exists", "cleanup", "find"} /\ w'.pc \in {"failed", "removed"}
  BY DEF GetLoadBalancer, EnsureLoadBalancerDeleted, findLoadBalancerByName, Goto, Inv,
         TypeOK, WFrame
<1>3. NextIsUnused'
  BY <1>1 DEF ReplayInv, NextIsUnused, Created, Live, Succ
<1>4. FinalizerHeld' /\ CountKeepsUp' /\ NoDeadReplay'
  BY <1>1, <1>2 DEF ReplayInv, CountKeepsUp, NoDeadReplay, FinalizerHeld, EnsurePC
<1>5. FrameNumbered'
  BY <1>1, <1>2 DEF ReplayInv, FrameNumbered, BeforeAnnotation
<1> QED BY <1>3, <1>4, <1>5 DEF ReplayInv

LEMMA DeleteReplay ==
    ASSUME ReplayInv, Inv, DeleteRPC
    PROVE  ReplayInv'
<1>1. /\ w.pc = "delete" /\ UNCHANGED svc /\ w'.pc \in {"failed", "removed"}
      /\ w.id \in Attempts /\ (ApiDelete(w.id) \/ UNCHANGED lbs)
  BY DEF DeleteRPC, Goto, Inv, TypeOK, FrameOK, WFrame
<1>2. \A k \in Attempts : /\ Created(k)' => Created(k)
                          /\ k # w.id => (Live(k)' <=> Live(k))
  BY <1>1 DEF DeleteRPC, ApiDelete, Created, Live, Inv, TypeOK, FrameOK, LB
<1>3. \A k \in Attempts : svc.present /\ k >= Succ(svc) => k # w.id
  BY <1>1, DeleteUsed, CountTyped
<1> QED BY <1>1, <1>2, <1>3, WorkerReplay DEF BeforeAnnotation, EnsurePC

LEMMA ControllerReplay ==
    ASSUME ReplayInv, Inv,
           publishStatus \/ removeFinalizer \/ clearStatus \/ forgetOrphan \/ SyncEnd
    PROVE  ReplayInv'
<1>1. /\ UNCHANGED lbs /\ w'.pc \in {"done", "failed", "clearStatus", "idle"}
      /\ w.pc # "annCount"
  BY DEF publishStatus, removeFinalizer, clearStatus, forgetOrphan, SyncEnd, Goto,
         WIdle, Inv, TypeOK, WFrame
<1>2. svc'.present => svc.present /\ svc'.id = svc.id /\ svc'.count = svc.count
  BY DEF publishStatus, removeFinalizer, clearStatus, forgetOrphan, SyncEnd, Absent,
         Inv, TypeOK, Service
<1>3. \A k \in Attempts : (Created(k)' <=> Created(k)) /\ (Live(k)' <=> Live(k))
  BY <1>1 DEF Created, Live
<1> QED BY <1>1, <1>2, <1>3, WorkerReplay DEF BeforeAnnotation, EnsurePC

LEMMA NextReplay ==
    ASSUME ReplayInv, Inv, [Next]_vars,
           Hazards \cap {"crash", "annWrite", "lag", "reset"} = {}
    PROVE  ReplayInv'
<1>1. /\ "crash" \notin Hazards /\ "annWrite" \notin Hazards
      /\ "lag" \notin Hazards /\ "reset" \notin Hazards
  OBVIOUS
<1>2. CASE EnsureStep
  BY <1>1, <1>2, CreateReplay, AnnotateIdReplay, AnnotateCountReplay, EnsureGetReplay,
     RecreateDeleteReplay, EnsureTailReplay DEF EnsureStep
<1>3. CASE DeleteStep
  BY <1>3, LookupReplay, DeleteReplay DEF DeleteStep
<1>4. ~ResetAnnotations /\ ~Crash
  BY <1>1 DEF ResetAnnotations, Crash, Fault
<1> QED BY <1>1, <1>2, <1>3, <1>4, Steps, SyncStartReplay, AddFinalizerReplay, EnsureReplay,
           ControllerReplay, OthersBeside, BesideReplay

LEMMA InitReplay == ASSUME Init PROVE ReplayInv
<1>1. \A k \in Attempts : ~Created(k)
  BY DEF Init, LBInit, Created
<1>2. w.pc = "idle" /\ svc.count = 0 /\ svc.id = None
  BY DEF Init, WIdle, Fresh, Absent
<1> QED BY <1>1, <1>2 DEF ReplayInv, NextIsUnused, CountKeepsUp, FrameNumbered, FinalizerHeld,
           NoDeadReplay, BeforeAnnotation, EnsurePC

(* A creation never gets back a load balancer that was given up, with      *)
(* every failure and every loss of the RPCs, failed id writes and patches, *)
(* strips, retypes and overlapping workers.  It takes a create count that  *)
(* falls behind the id for a key to be used again: a crash between the two *)
(* annotations, a failed write of the count, an object out of date, or a   *)
(* user who resets them (createIdempotencyKey).                            *)
THEOREM NoReplayOfDead ==
    ASSUME Hazards \cap {"crash", "annWrite", "lag", "reset"} = {}
    PROVE  Spec => []NoDeadReplay
<1>1. Init => ReplayInv
  BY InitReplay
<1>2. ReplayInv /\ Inv /\ [Next]_vars => ReplayInv'
  BY NextReplay
<1>3. ReplayInv => NoDeadReplay
  BY DEF ReplayInv
<1> QED BY <1>1, <1>2, <1>3, InvHolds, PTL DEF Spec
-----------------------------------------------------------------------------
(* A Service that is gone leaves no load balancer behind.                  *)

LEMMA BesideOrphan ==
    ASSUME OrphanInv, Inv, Beside, "strip" \notin Hazards
    PROVE  OrphanInv'
<1> USE DEF OrphanInv, Beside, NoneLive, OnlyLive
<1>1. FinalizerHeld' /\ BareHoldsNothing'
  BY DEF FinalizerHeld, BareHoldsNothing, Absent
<1>2. w.pc \in EnsurePC => svc'.present
  BY <1>1 DEF FinalizerHeld
<1>3. Recorded'
  BY <1>2 DEF Recorded, BareHoldsNothing, EnsurePC
<1>4. DeclinedHoldsNothing'
  BY <1>2 DEF DeclinedHoldsNothing, shouldSkipService
<1>5. FrameAccounts'
  BY <1>2 DEF FrameAccounts, EnsurePC
<1> QED BY <1>1, <1>3, <1>4, <1>5

(* A step of the worker to a program point of which only the common parts  *)
(* of the invariant speak.                                                 *)
LEMMA WorkerOrphan ==
    ASSUME OrphanInv, Inv, w.pc # "annId",
           w'.pc \in {"idle", "done", "failed", "publish"} \cup EnsurePC,
           w'.pc \notin {"ensure", "get", "recDelete", "create", "annId", "annCount"},
           \A k \in Attempts : Live(k)' => Live(k),
           svc'.present = svc.present, svc'.id = svc.id, svc'.config = svc.config,
           svc'.finalizer = svc.finalizer,
           w'.pc \in EnsurePC => w.pc \in EnsurePC \ {"ensure"}
    PROVE  OrphanInv'
<1> USE DEF OrphanInv, NoneLive, OnlyLive
<1>1. FinalizerHeld' /\ BareHoldsNothing' /\ Recorded'
  BY DEF FinalizerHeld, BareHoldsNothing, Recorded, EnsurePC
<1>2. DeclinedHoldsNothing' /\ FrameAccounts'
  BY DEF DeclinedHoldsNothing, FrameAccounts, shouldSkipService, EnsurePC
<1> QED BY <1>1, <1>2

LEMMA SyncStartOrphan ==
    ASSUME OrphanInv, Inv, SyncStart, "lag" \notin Hazards
    PROVE  OrphanInv'
<1> USE DEF OrphanInv, NoneLive, OnlyLive
<1>0. \A k \in Attempts : Live(k)' <=> Live(k)
  BY CurrentStart DEF Live
<1>1. FinalizerHeld' /\ BareHoldsNothing' /\ Recorded'
  BY <1>0, CurrentStart DEF FinalizerHeld, BareHoldsNothing, Recorded, EnsurePC
<1>2. DeclinedHoldsNothing' /\ FrameAccounts'
  BY <1>0, CurrentStart
     DEF DeclinedHoldsNothing, FrameAccounts, Recorded, BareHoldsNothing, shouldSkipService,
         EnsurePC
<1> QED BY <1>1, <1>2

LEMMA AddFinalizerOrphan ==
    ASSUME OrphanInv, Inv, addFinalizer
    PROVE  OrphanInv'
<1> USE DEF OrphanInv, NoneLive, OnlyLive
<1>1. /\ w.pc = "addFinalizer" /\ w'.obj = w.obj /\ UNCHANGED lbs
      /\ svc'.present = svc.present /\ svc'.id = svc.id /\ svc'.config = svc.config
      /\ \/ w'.pc = "failed" /\ svc'.finalizer = svc.finalizer
         \/ w'.pc = "ensure" /\ svc'.present /\ svc'.finalizer
  BY DEF addFinalizer, Goto, WriteFails, Inv, TypeOK, WFrame, Service, FinalizerHeld
<1>2. FinalizerHeld' /\ BareHoldsNothing' /\ Recorded'
  BY <1>1 DEF FinalizerHeld, BareHoldsNothing, Recorded, EnsurePC, Live
<1>3. DeclinedHoldsNothing' /\ FrameAccounts'
  BY <1>1 DEF DeclinedHoldsNothing, FrameAccounts, shouldSkipService, EnsurePC, Live
<1> QED BY <1>2, <1>3

LEMMA EnsureOrphan ==
    ASSUME OrphanInv, Inv, ensureLoadBalancer
    PROVE  OrphanInv'
<1> USE DEF OrphanInv, NoneLive, OnlyLive
<1>1. /\ w.pc = "ensure" /\ UNCHANGED <<lbs, svc>> /\ w'.obj = w.obj
      /\ \/ w'.pc \in {"done", "failed"}
         \/ w'.pc = "create" /\ w.obj.id = None /\ ~shouldSkipService(w.obj)
         \/ w'.pc = "get" /\ w'.id = w.obj.id /\ ~shouldSkipService(w.obj)
  BY DEF ensureLoadBalancer, EnsureLoadBalancer, Goto, Inv, TypeOK, WFrame
<1>2. FinalizerHeld' /\ BareHoldsNothing' /\ Recorded'
  BY <1>1 DEF FinalizerHeld, BareHoldsNothing, Recorded, EnsurePC, Live
<1>3. DeclinedHoldsNothing'
  BY <1>1 DEF DeclinedHoldsNothing, FinalizerHeld, shouldSkipService, EnsurePC, Live
<1>4. FrameAccounts'
  BY <1>1, CountsAreAttempts DEF FrameAccounts, Live
<1> QED BY <1>2, <1>3, <1>4

LEMMA EnsureGetOrphan ==
    ASSUME OrphanInv, Inv, EnsureGet
    PROVE  OrphanInv'
<1>1. /\ w.pc = "get" /\ UNCHANGED <<lbs, svc>> /\ w'.id = w.id
      /\ w'.pc \in {"failed", "update", "poll", "publish", "recDelete"}
  BY DEF EnsureGet, FoundReady, FoundNotReady, Goto, Inv, TypeOK, WFrame
<1>2. CASE w'.pc = "recDelete"
  BY <1>1, <1>2 DEF OrphanInv, NoneLive, OnlyLive, FinalizerHeld, BareHoldsNothing, Recorded,
     DeclinedHoldsNothing, FrameAccounts, shouldSkipService, EnsurePC, Live
<1>3. CASE w'.pc # "recDelete"
  BY <1>1, <1>3, WorkerOrphan DEF EnsurePC, Live
<1> QED BY <1>2, <1>3

LEMMA RecreateDeleteOrphan ==
    ASSUME OrphanInv, Inv, RecreateDelete, "deleteFail" \notin Hazards
    PROVE  OrphanInv'
<1>1. /\ w.pc = "recDelete" /\ UNCHANGED svc /\ ApiDelete(w.id) /\ w.id \in Attempts
      /\ w'.pc = "create"
  BY DEF RecreateDelete, Fault, Inv, TypeOK, FrameOK, WFrame, Validated, EnsurePC
<1>2. NoneLive'
  BY <1>1, DeleteKeeps DEF OrphanInv, FrameAccounts, NoneLive, OnlyLive, Inv, TypeOK
<1> QED BY <1>1, <1>2 DEF OrphanInv, NoneLive, OnlyLive, FinalizerHeld, BareHoldsNothing,
           Recorded, DeclinedHoldsNothing, FrameAccounts, shouldSkipService, EnsurePC

LEMMA CreateOrphan ==
    ASSUME OrphanInv, Inv, CreateRPC, "createLost" \notin Hazards
    PROVE  OrphanInv'
<1> USE DEF OrphanInv, NoneLive, OnlyLive
<1>1. /\ w.pc = "create" /\ UNCHANGED svc /\ w.id \in Attempts /\ w'.id = w.id
      /\ \/ w'.pc = "annId" /\ ApiCreate(w.id, w.want)
         \/ w'.pc = "failed" /\ UNCHANGED lbs
  BY DEF CreateRPC, Goto, Fault, Inv, TypeOK, FrameOK, WFrame, Validated, EnsurePC
<1>2. CASE w'.pc = "failed" /\ UNCHANGED lbs
  BY <1>1, <1>2, WorkerOrphan DEF EnsurePC, Live
<1>3. CASE w'.pc = "annId" /\ ApiCreate(w.id, w.want)
  <2>1. svc.present /\ svc.finalizer /\ ~shouldSkipService(svc)
    BY <1>1 DEF FinalizerHeld, DeclinedHoldsNothing, EnsurePC
  <2>2. OnlyLive(w.id)'
    BY <1>1, <1>3 DEF ApiCreate, Live, FrameAccounts, Inv, TypeOK
  <2>3. FinalizerHeld' /\ BareHoldsNothing' /\ Recorded'
    BY <1>1, <1>3, <2>1, <2>2 DEF FinalizerHeld, BareHoldsNothing, Recorded
  <2>4. DeclinedHoldsNothing' /\ FrameAccounts'
    BY <1>1, <1>3, <2>1 DEF DeclinedHoldsNothing, FrameAccounts, shouldSkipService
  <2> QED BY <2>3, <2>4
<1> QED BY <1>1, <1>2, <1>3

LEMMA AnnotateIdOrphan ==
    ASSUME OrphanInv, Inv, AnnotateId, "idWrite" \notin Hazards
    PROVE  OrphanInv'
<1> USE DEF OrphanInv, NoneLive, OnlyLive
<1>1. w.pc = "annId" /\ svc.present /\ svc.finalizer /\ ~shouldSkipService(svc)
  BY DEF AnnotateId, FinalizerHeld, DeclinedHoldsNothing, EnsurePC
<1>2. /\ UNCHANGED lbs /\ w'.pc = "annCount" /\ svc'.id = w.id /\ w'.id = w.id
      /\ svc'.present = svc.present /\ svc'.finalizer = svc.finalizer
      /\ svc'.config = svc.config
  BY ZenonT(30), <1>1 DEF AnnotateId, WriteFails, Fault, Goto, Inv, TypeOK, WFrame, Service
<1>3. FinalizerHeld' /\ BareHoldsNothing' /\ Recorded'
  BY <1>1, <1>2 DEF FinalizerHeld, BareHoldsNothing, Recorded, Live
<1>4. DeclinedHoldsNothing' /\ FrameAccounts'
  BY <1>1, <1>2 DEF DeclinedHoldsNothing, FrameAccounts, shouldSkipService
<1> QED BY <1>3, <1>4

LEMMA EnsureTailOrphan ==
    ASSUME OrphanInv, Inv,
           \/ AnnotateCount \/ recordListenerHash \/ PollReady \/ PollGivesUp \/ UpdateRPC
           \/ updateKamajiAdvertiseAddress \/ storeInternalIpIfBothMode
    PROVE  OrphanInv'
<1>1. /\ w.pc \in EnsurePC \ {"ensure", "annId"}
      /\ svc'.id = svc.id /\ svc'.config = svc.config
      /\ svc'.present = svc.present /\ svc'.finalizer = svc.finalizer
  BY DEF AnnotateCount, recordListenerHash, PollReady, PollGivesUp,
         updateKamajiAdvertiseAddress, storeInternalIpIfBothMode, UpdateRPC, EnsurePC, Inv,
         TypeOK, Service
<1>2. w'.pc \in {"annHash", "poll", "failed", "kamaji", "internalIP", "publish", "recordHash"}
  BY DEF AnnotateCount, recordListenerHash, PollReady, PollGivesUp, UpdateRPC,
         updateKamajiAdvertiseAddress, storeInternalIpIfBothMode, Goto, afterPoll,
         afterKamaji, Inv, TypeOK, WFrame
<1>3. \A k \in Attempts : Live(k)' => Live(k)
  <2>1. CASE UpdateRPC
    <3>1. w.id \in Attempts /\ w.want \in Listeners
      BY <2>1 DEF UpdateRPC, Inv, FrameOK, Validated, EnsurePC
    <3> QED BY <2>1, <3>1, UpdateKeepsAll DEF UpdateRPC, Inv, TypeOK, Live
  <2>2. CASE ~UpdateRPC
    BY <2>2 DEF AnnotateCount, recordListenerHash, PollReady, PollGivesUp,
       updateKamajiAdvertiseAddress, storeInternalIpIfBothMode, Live
  <2> QED BY <2>1, <2>2
<1> QED BY <1>1, <1>2, <1>3, WorkerOrphan DEF EnsurePC

LEMMA LookupOrphan ==
    ASSUME OrphanInv, Inv,
           GetLoadBalancer \/ EnsureLoadBalancerDeleted \/ findLoadBalancerByName
    PROVE  OrphanInv'
<1> USE DEF OrphanInv, NoneLive, OnlyLive
<1>1. UNCHANGED <<lbs, svc>> /\ w'.obj = w.obj
  BY DEF GetLoadBalancer, EnsureLoadBalancerDeleted, findLoadBalancerByName, Goto, Inv,
         TypeOK, WFrame
<1>2. \/ /\ w.pc = "exists" /\ w'.pc = "cleanup" /\ w.obj.id # None
      \/ /\ w.pc \in {"exists", "cleanup"} /\ w'.pc = "removed"
         /\ shouldSkipService(w.obj) \/ w.obj.id = None
      \/ w.pc = "cleanup" /\ w'.pc = "delete" /\ w'.id = w.obj.id
      \/ w.pc = "cleanup" /\ w'.pc = "find" /\ w.obj.id = None
      \/ w.pc = "find" /\ w'.pc \in {"delete", "removed"}
      \/ w.pc \in {"exists", "find"} /\ w'.pc = "failed"
  BY DEF GetLoadBalancer, EnsureLoadBalancerDeleted, findLoadBalancerByName, hasNothing, Goto,
         Inv, TypeOK, WFrame
<1>3. FinalizerHeld' /\ BareHoldsNothing' /\ Recorded'
  BY <1>1, <1>2 DEF FinalizerHeld, BareHoldsNothing, Recorded, EnsurePC, Live
<1>4. DeclinedHoldsNothing'
  BY <1>1, <1>2 DEF DeclinedHoldsNothing, shouldSkipService, EnsurePC, Live
<1>5. FrameAccounts'
  BY <1>1, <1>2, CountsAreAttempts DEF FrameAccounts, DeclinedHoldsNothing, Live
<1> QED BY <1>3, <1>4, <1>5

LEMMA DeleteOrphan ==
    ASSUME OrphanInv, Inv, DeleteRPC, "deleteFail" \notin Hazards
    PROVE  OrphanInv'
<1>1. /\ w.pc = "delete" /\ UNCHANGED svc /\ w'.pc \in {"failed", "removed"}
      /\ w.id \in Attempts /\ ApiDelete(w.id)
  BY DEF DeleteRPC, Goto, Fault, Inv, TypeOK, FrameOK, WFrame
<1>2. NoneLive'
  BY <1>1, DeleteKeeps DEF OrphanInv, FrameAccounts, NoneLive, OnlyLive, Inv, TypeOK
<1> QED BY <1>1, <1>2 DEF OrphanInv, NoneLive, OnlyLive, FinalizerHeld, BareHoldsNothing,
           Recorded, DeclinedHoldsNothing, FrameAccounts, EnsurePC

LEMMA ControllerOrphan ==
    ASSUME OrphanInv, Inv,
           publishStatus \/ removeFinalizer \/ clearStatus \/ forgetOrphan \/ SyncEnd
    PROVE  OrphanInv'
<1>1. UNCHANGED lbs
  BY DEF publishStatus, removeFinalizer, clearStatus, forgetOrphan, SyncEnd
<1>2. CASE publishStatus \/ clearStatus \/ forgetOrphan \/ SyncEnd
  <2>1. /\ svc'.present = svc.present /\ svc'.id = svc.id /\ svc'.config = svc.config
        /\ svc'.finalizer = svc.finalizer
    BY <1>2 DEF publishStatus, clearStatus, forgetOrphan, SyncEnd, Inv, TypeOK, Service
  <2>2. w'.pc \in {"done", "failed", "idle"} /\ w.pc # "annId"
    BY <1>2 DEF publishStatus, clearStatus, forgetOrphan, SyncEnd, Goto, WIdle, Inv, TypeOK,
                WFrame
  <2> QED BY <1>1, <2>1, <2>2, WorkerOrphan DEF EnsurePC, Live
<1>3. CASE removeFinalizer
  <2>1. w.pc = "removed" /\ w'.pc \in {"clearStatus", "failed"}
    BY <1>3 DEF removeFinalizer, Goto, Inv, TypeOK, WFrame
  <2>2. NoneLive'
    BY <1>1, <2>1 DEF OrphanInv, FrameAccounts, NoneLive, Live
  <2> QED BY <2>1, <2>2 DEF OrphanInv, NoneLive, OnlyLive, FinalizerHeld, BareHoldsNothing,
             Recorded, DeclinedHoldsNothing, FrameAccounts, EnsurePC
<1> QED BY <1>2, <1>3

(* The documented remedy deletes what it forgets.                          *)
LEMMA ResetOrphan ==
    ASSUME OrphanInv, Inv, ResetAnnotations
    PROVE  OrphanInv'
<1> USE DEF OrphanInv, NoneLive, OnlyLive
<1>1. /\ svc.present /\ svc.id \in Attempts /\ svc.id # None /\ UNCHANGED w
      /\ ApiDelete(svc.id)
  BY DEF ResetAnnotations, HardStop, Inv, TypeOK, Service, LBId
<1>2. /\ svc'.present /\ svc'.finalizer = svc.finalizer /\ svc'.id = None
      /\ svc'.config = svc.config
  BY <1>1 DEF ResetAnnotations, Inv, TypeOK, Service
<1>3. \A k \in Attempts : Live(k)' => Live(k) /\ k # svc.id
  BY <1>1, DeleteKeeps DEF Inv, TypeOK
<1>4. FinalizerHeld' /\ BareHoldsNothing' /\ Recorded'
  BY <1>1, <1>2, <1>3 DEF FinalizerHeld, BareHoldsNothing, Recorded
<1>5. DeclinedHoldsNothing'
  BY <1>1, <1>2, <1>3 DEF DeclinedHoldsNothing, shouldSkipService
<1>6. FrameAccounts'
  BY <1>1, <1>2, <1>3 DEF FrameAccounts
<1> QED BY <1>4, <1>5, <1>6
LEMMA NextOrphan ==
    ASSUME OrphanInv, Inv, [Next]_vars,
           Hazards \cap {"createLost", "idWrite", "deleteFail", "crash", "lag", "strip"} = {}
    PROVE  OrphanInv'
<1>1. /\ "createLost" \notin Hazards /\ "idWrite" \notin Hazards
      /\ "deleteFail" \notin Hazards /\ "crash" \notin Hazards
      /\ "lag" \notin Hazards /\ "strip" \notin Hazards
  OBVIOUS
<1>2. CASE EnsureStep
  BY <1>1, <1>2, CreateOrphan, AnnotateIdOrphan, EnsureGetOrphan, RecreateDeleteOrphan,
     EnsureTailOrphan DEF EnsureStep
<1>3. CASE DeleteStep
  BY <1>1, <1>3, LookupOrphan, DeleteOrphan DEF DeleteStep
<1>4. ~Crash
  BY <1>1 DEF Crash, Fault
<1> QED BY <1>1, <1>2, <1>3, <1>4, Steps, SyncStartOrphan, AddFinalizerOrphan, EnsureOrphan,
           ControllerOrphan, ResetOrphan, OthersBeside, BesideOrphan

LEMMA InitOrphan == ASSUME Init PROVE OrphanInv
<1>1. NoneLive
  BY DEF Init, LBInit, NoneLive, Live
<1>2. w.pc = "idle"
  BY DEF Init, WIdle
<1> QED BY <1>1, <1>2 DEF OrphanInv, NoneLive, OnlyLive, FinalizerHeld, BareHoldsNothing,
           Recorded, DeclinedHoldsNothing, FrameAccounts, EnsurePC

LEMMA OrphanInvHolds ==
    ASSUME Hazards \cap {"createLost", "idWrite", "deleteFail", "crash", "lag", "strip"} = {}
    PROVE  Spec => []OrphanInv
<1>1. Init => OrphanInv
  BY InitOrphan
<1>2. OrphanInv /\ Inv /\ [Next]_vars => OrphanInv'
  BY NextOrphan
<1> QED BY <1>1, <1>2, InvHolds, PTL DEF Spec

(* When the Service is gone none of its load balancers is left, with       *)
(* failing reads, updates and creations, lost updates and deletes, failed  *)
(* annotation writes and patches, retypes, resets and overlapping workers. *)
(* The six hazards that are excluded each leave one: a load balancer whose *)
(* id is not recorded, or a cleanup that does not look at the current one  *)
(* (EnsureLoadBalancerDeleted finds it by the id annotation).              *)
THEOREM NothingOrphaned ==
    ASSUME Hazards \cap {"createLost", "idWrite", "deleteFail", "crash", "lag", "strip"} = {}
    PROVE  Spec => []NoOrphan
<1>1. OrphanInv => NoOrphan
  BY DEF OrphanInv, BareHoldsNothing, NoneLive, NoOrphan
<1> QED BY <1>1, OrphanInvHolds, PTL

(* Nor is one left when the Service stays, wants none any more, and its    *)
(* finalizer is off (syncLoadBalancerIfNeeded, removeFinalizer).           *)
THEOREM NothingOrphanedByRetype ==
    ASSUME Hazards \cap {"createLost", "idWrite", "deleteFail", "crash", "lag", "strip"} = {}
    PROVE  Spec => []NoOrphanAfterRetype
<1>1. OrphanInv => NoOrphanAfterRetype
  BY DEF OrphanInv, BareHoldsNothing, NoneLive, NoOrphanAfterRetype
<1> QED BY <1>1, OrphanInvHolds, PTL
-----------------------------------------------------------------------------
(* The promise to the owner of a Service.                                  *)

LEMMA NextPublishes ==
    ASSUME PublishesLive, Inv, [Next]_vars, "reset" \notin Hazards
    PROVE  PublishesLive'
<1> SUFFICES ASSUME w'.pc \in {"kamaji", "internalIP", "publish"} PROVE Live(w.id)'
  BY DEF PublishesLive
<1>1. CASE BesideAction
  BY <1>1, OthersBeside DEF Beside, PublishesLive, Inv, FrameOK, Validated, EnsurePC
<1>2. CASE EnsureGet
  BY <1>2 DEF EnsureGet, FoundReady, FoundNotReady, Ready, Live, Goto, Inv, TypeOK, WFrame
<1>3. CASE PollReady
  BY <1>3 DEF PollReady, Ready, Live, Goto, Inv, TypeOK, WFrame
<1>4. CASE updateKamajiAdvertiseAddress \/ storeInternalIpIfBothMode
  BY <1>4 DEF updateKamajiAdvertiseAddress, storeInternalIpIfBothMode, PublishesLive, Live,
     Goto, Inv, TypeOK, WFrame
<1>5. CASE \/ SyncStart \/ addFinalizer \/ ensureLoadBalancer \/ publishStatus
           \/ removeFinalizer \/ clearStatus \/ forgetOrphan \/ SyncEnd \/ Crash
  <2>0. CASE SyncStart
    <3>1. w'.pc \in {"idle", "exists", "addFinalizer", "cleanup"}
      BY <2>0 DEF SyncStart, SyncFrame, WIdle
    <3> QED BY <3>1
  <2>1. CASE SyncEnd \/ Crash
    BY <2>1 DEF SyncEnd, Crash, WIdle
  <2>2. CASE addFinalizer \/ ensureLoadBalancer
    BY <2>2 DEF addFinalizer, ensureLoadBalancer, EnsureLoadBalancer, Goto, Inv, TypeOK, WFrame
  <2>3. CASE publishStatus \/ removeFinalizer \/ clearStatus \/ forgetOrphan
    BY <2>3 DEF publishStatus, removeFinalizer, clearStatus, forgetOrphan, Goto, Inv, TypeOK,
                WFrame
  <2> QED BY <1>5, <2>0, <2>1, <2>2, <2>3
<1>6. CASE \/ CreateRPC \/ AnnotateId \/ AnnotateCount \/ recordListenerHash
           \/ RecreateDelete \/ UpdateRPC \/ PollGivesUp \/ DeleteStep
  BY <1>6 DEF CreateRPC, AnnotateId, AnnotateCount, recordListenerHash, RecreateDelete,
     UpdateRPC, PollGivesUp, DeleteStep, GetLoadBalancer, EnsureLoadBalancerDeleted,
     findLoadBalancerByName, DeleteRPC, Goto, Inv, TypeOK, WFrame
<1>7. ~ResetAnnotations
  BY DEF ResetAnnotations, Fault
<1> QED BY <1>1, <1>2, <1>3, <1>4, <1>5, <1>6, <1>7, Steps DEF EnsureStep

(* The row that is held, before and after a step.                          *)
LEMMA HeldNone == ASSUME NoneLive PROVE heldRow = None
BY DEF NoneLive, heldRow

LEMMA HeldNoneThen == ASSUME NoneLive' PROVE heldRow' = None
BY DEF NoneLive, heldRow

LEMMA HeldOne ==
    ASSUME NEW k \in Attempts, Live(k), OnlyLive(k)
    PROVE  heldRow = k
BY DEF OnlyLive, heldRow

LEMMA HeldOneThen ==
    ASSUME NEW k \in Attempts, Live(k)', \A j \in Attempts : Live(j)' => j = k
    PROVE  heldRow' = k
BY DEF heldRow

LEMMA OneIsLive ==
    ASSUME OrphanInv, NEW k \in Attempts, Live(k)
    PROVE  OnlyLive(k)
BY DEF OrphanInv, Recorded, OnlyLive

used == {k \in Attempts : Created(k)}

(* A step that brings no load balancer and gives none up.                  *)
LEMMA SameRows ==
    ASSUME OrphanInv,
           \A k \in Attempts : (Live(k)' <=> Live(k)) /\ (Created(k)' <=> Created(k))
    PROVE  heldRow' = heldRow /\ used' = used
<1>1. used' = used
  BY DEF used
<1>2. CASE \E k \in Attempts : Live(k)
  <2>1. PICK k \in Attempts : Live(k)
    BY <1>2
  <2>2. heldRow = k
    BY <2>1, OneIsLive, HeldOne
  <2>3. heldRow' = k
    BY <2>1, OneIsLive, HeldOneThen DEF OnlyLive
  <2> QED BY <1>1, <2>2, <2>3
<1>3. CASE ~\E k \in Attempts : Live(k)
  <2>1. NoneLive /\ NoneLive'
    BY <1>3 DEF NoneLive
  <2> QED BY <1>1, <2>1, HeldNone, HeldNoneThen
<1> QED BY <1>2, <1>3

LEMMA SameLbs == ASSUME OrphanInv, UNCHANGED lbs PROVE heldRow' = heldRow /\ used' = used
BY SameRows DEF Live, Created

(* A delete releases what is held, or nothing.                             *)
LEMMA DeletePromise ==
    ASSUME OrphanInv, Inv, NEW k \in Attempts, ApiDelete(k), OnlyLive(k),
           svc'.present = svc.present, svc'.status = svc.status
    PROVE  Promise!Release \/ UNCHANGED Promise!promiseVars
<1>1. used' = used
  BY DEF used, ApiDelete, Created, Live, Inv, TypeOK
<1>2. CASE Live(k)
  <2>1. heldRow = k /\ k # None
    BY <1>2, HeldOne, CountsAreAttempts
  <2>2. NoneLive'
    BY DeleteKeeps DEF NoneLive, OnlyLive, Inv, TypeOK
  <2> QED BY <1>1, <2>1, <2>2, HeldNoneThen DEF Promise!Release, used
<1>3. CASE ~Live(k)
  BY <1>3, SameLbs DEF ApiDelete, Promise!promiseVars, used
<1> QED BY <1>2, <1>3

LEMMA BesidePromise ==
    ASSUME OrphanInv, Inv, Inv', Beside
    PROVE  Promise!Gone \/ UNCHANGED Promise!promiseVars
<1>1. heldRow' = heldRow /\ used' = used
  BY SameRows DEF Beside
<1>2. CASE svc'.present \/ svc' = svc
  <2>1. svc'.present = svc.present /\ svc'.status = svc.status
    BY <1>2 DEF Beside, Inv, TypeOK, Service
  <2> QED BY <1>1, <2>1 DEF Promise!promiseVars, used
<1>3. CASE svc.present /\ ~svc.finalizer /\ svc' = Absent
  <2>1. heldRow = None
    BY <1>3, HeldNone DEF OrphanInv, BareHoldsNothing
  <2> QED BY <1>1, <1>3, <2>1 DEF Promise!Gone, Absent, used
<1> QED BY <1>2, <1>3 DEF Beside

LEMMA CreatePromise ==
    ASSUME OrphanInv, Inv, CreateRPC
    PROVE  (\E k \in Attempts : Promise!Acquire(k)) \/ UNCHANGED Promise!promiseVars
<1>1. w.pc = "create" /\ w.id \in Attempts /\ UNCHANGED svc
  BY DEF CreateRPC, Inv, FrameOK, Validated, EnsurePC
<1>2. svc.present /\ NoneLive
  BY <1>1 DEF OrphanInv, FinalizerHeld, FrameAccounts, EnsurePC
<1>3. CASE UNCHANGED lbs
  BY <1>1, <1>3, SameLbs DEF Promise!promiseVars, used
<1>4. CASE lbs' # lbs
  <2>1. ~Created(w.id) /\ lbs' = [lbs EXCEPT ![w.id] = [state |-> "provisioning", fip |-> FALSE,
                                                        cfg |-> w.want]]
    BY <1>4 DEF CreateRPC, ApiCreate, Created
  <2>2. lbs'[w.id].state = "provisioning" /\ \A k \in Attempts : k # w.id => lbs'[k] = lbs[k]
    BY <1>1, <2>1 DEF Inv, TypeOK
  <2>3. heldRow' = w.id
    BY <1>1, <1>2, <2>2, HeldOneThen DEF NoneLive, Live
  <2>4. used' = used \cup {w.id} /\ w.id \notin used
    BY <1>1, <2>1, <2>2 DEF used, Created
  <2>5. heldRow = None
    BY <1>2, HeldNone
  <2>6. Promise!Acquire(w.id)
    BY <1>1, <1>2, <2>3, <2>4, <2>5 DEF Promise!Acquire, used
  <2> QED BY <1>1, <2>6
<1> QED BY <1>3, <1>4

LEMMA StatusPromise ==
    ASSUME OrphanInv, PublishesLive, Inv, publishStatus \/ clearStatus \/ removeFinalizer
    PROVE  \/ Promise!Publish \/ Promise!Withdraw \/ Promise!Gone
           \/ UNCHANGED Promise!promiseVars
<1>1. heldRow' = heldRow /\ used' = used
  BY SameLbs DEF publishStatus, clearStatus, removeFinalizer
<1>2. CASE publishStatus
  <2>1. w.pc = "publish" /\ w.id \in Attempts
    BY <1>2 DEF publishStatus, Inv, FrameOK
  <2>2. heldRow = w.id /\ w.id # None
    BY <2>1, OneIsLive, HeldOne, CountsAreAttempts DEF PublishesLive
  <2>3. \/ svc' = svc
        \/ svc.present /\ svc'.present = svc.present /\ svc'.status = w.id
    BY <1>2 DEF publishStatus, Inv, TypeOK, Service
  <2> QED BY <1>1, <2>2, <2>3 DEF Promise!Publish, Promise!promiseVars, used
<1>3. CASE clearStatus
  <2>1. heldRow = None
    BY <1>3, HeldNone DEF clearStatus, OrphanInv, FrameAccounts
  <2>2. \/ svc' = svc
        \/ svc'.present = svc.present /\ svc'.status = None
    BY <1>3 DEF clearStatus, Inv, TypeOK, Service
  <2> QED BY <1>1, <2>1, <2>2 DEF Promise!Withdraw, Promise!promiseVars, used
<1>4. CASE removeFinalizer
  <2>1. heldRow = None
    BY <1>4, HeldNone DEF removeFinalizer, OrphanInv, FrameAccounts
  <2>2. \/ svc'.present = svc.present /\ svc'.status = svc.status
        \/ svc.present /\ svc' = Absent
    BY <1>4 DEF removeFinalizer, Inv, TypeOK, Service
  <2> QED BY <1>1, <2>1, <2>2 DEF Promise!Gone, Promise!promiseVars, Absent, used
<1> QED BY <1>2, <1>3, <1>4

(* The steps of the worker that the promise does not see.                  *)
LEMMA QuietPromise ==
    ASSUME OrphanInv, Inv,
           \/ SyncStart \/ addFinalizer \/ ensureLoadBalancer \/ forgetOrphan \/ SyncEnd
           \/ AnnotateId \/ AnnotateCount \/ recordListenerHash \/ EnsureGet \/ PollReady
           \/ PollGivesUp \/ updateKamajiAdvertiseAddress \/ storeInternalIpIfBothMode
           \/ GetLoadBalancer \/ EnsureLoadBalancerDeleted \/ findLoadBalancerByName
    PROVE  UNCHANGED Promise!promiseVars
<1>1. UNCHANGED lbs
  BY DEF SyncStart, addFinalizer, ensureLoadBalancer, EnsureLoadBalancer, forgetOrphan, SyncEnd,
     AnnotateId, AnnotateCount, recordListenerHash, EnsureGet, PollReady, PollGivesUp,
     updateKamajiAdvertiseAddress, storeInternalIpIfBothMode, GetLoadBalancer,
     EnsureLoadBalancerDeleted, findLoadBalancerByName
<1>2. svc'.present = svc.present /\ svc'.status = svc.status
  BY DEF SyncStart, addFinalizer, ensureLoadBalancer, EnsureLoadBalancer, forgetOrphan, SyncEnd,
     AnnotateId, AnnotateCount, recordListenerHash, EnsureGet, PollReady, PollGivesUp,
     updateKamajiAdvertiseAddress, storeInternalIpIfBothMode, GetLoadBalancer,
     EnsureLoadBalancerDeleted, findLoadBalancerByName, Inv, TypeOK, Service
<1> QED BY <1>1, <1>2, SameLbs DEF Promise!promiseVars, used

LEMMA UpdatePromise ==
    ASSUME OrphanInv, Inv, UpdateRPC
    PROVE  UNCHANGED Promise!promiseVars
<1>1. w.id \in Attempts /\ w.want \in Listeners /\ UNCHANGED svc
  BY DEF UpdateRPC, Inv, FrameOK, Validated, EnsurePC
<1>2. \A k \in Attempts : (Live(k)' <=> Live(k)) /\ (Created(k)' <=> Created(k))
  BY <1>1, UpdateKeepsAll DEF UpdateRPC, Inv, TypeOK, Live, Created
<1> QED BY <1>1, <1>2, SameRows DEF Promise!promiseVars, used

LEMMA ReleasePromise ==
    ASSUME OrphanInv, Inv, RecreateDelete \/ DeleteRPC, "deleteFail" \notin Hazards
    PROVE  Promise!Release \/ UNCHANGED Promise!promiseVars
<1>1. w.pc \in {"recDelete", "delete"} /\ ApiDelete(w.id) /\ UNCHANGED svc
  BY DEF RecreateDelete, DeleteRPC, Fault
<1>2. w.id \in Attempts /\ OnlyLive(w.id)
  BY <1>1 DEF Inv, FrameOK, Validated, EnsurePC, OrphanInv, FrameAccounts
<1> QED BY <1>1, <1>2, DeletePromise

LEMMA PromiseStep ==
    ASSUME OrphanInv, PublishesLive, Inv, [Next]_vars,
           "reset" \notin Hazards, "crash" \notin Hazards, "deleteFail" \notin Hazards
    PROVE  [Promise!Next]_(Promise!promiseVars)
<1>1. CASE EnsureStep \/ DeleteStep
  BY <1>1, CreatePromise, QuietPromise, UpdatePromise, ReleasePromise
     DEF EnsureStep, DeleteStep, Promise!Next
<1>2. CASE \/ SyncStart \/ addFinalizer \/ ensureLoadBalancer \/ publishStatus
           \/ removeFinalizer \/ clearStatus \/ forgetOrphan \/ SyncEnd
  BY <1>2, QuietPromise, StatusPromise DEF Promise!Next
<1>3. CASE BesideAction
  BY <1>3, OthersBeside, BesidePromise, NextPreserves DEF Promise!Next
<1>4. ~ResetAnnotations /\ ~Crash
  BY DEF ResetAnnotations, Crash, Fault
<1> QED BY <1>1, <1>2, <1>3, <1>4, Steps

LEMMA PromiseInit == ASSUME Init PROVE Promise!Init /\ PublishesLive
<1>1. NoneLive /\ used = {}
  BY DEF Init, LBInit, NoneLive, Live, used, Created
<1>2. svc.present = TRUE /\ svc.status = None /\ w.pc = "idle"
  BY DEF Init, Fresh, Absent, WIdle
<1> QED BY <1>1, <1>2, HeldNone DEF Promise!Init, PublishesLive, used

(* The service controller, the provider and the LoadBalancer API together  *)
(* implement the promise of ServicePromise, for every order of the two     *)
(* workers: one load balancer at a time and each only once, an address is  *)
(* published only while its load balancer is held, and neither the status  *)
(* nor the Service goes before what is held was released.                  *)
THEOREM PromiseKept ==
    ASSUME Hazards \cap {"createLost", "idWrite", "deleteFail", "crash", "lag", "strip",
                         "reset"} = {}
    PROVE  Spec => KeepsPromise
<1>0. /\ Hazards \cap {"createLost", "idWrite", "deleteFail", "crash", "lag", "strip"} = {}
      /\ "reset" \notin Hazards /\ "crash" \notin Hazards /\ "deleteFail" \notin Hazards
  OBVIOUS
<1>1. Init => Promise!Init /\ PublishesLive
  BY PromiseInit
<1>2. PublishesLive /\ Inv /\ [Next]_vars => PublishesLive'
  BY <1>0, NextPublishes
<1>3. OrphanInv /\ PublishesLive /\ Inv /\ [Next]_vars => [Promise!Next]_(Promise!promiseVars)
  BY <1>0, PromiseStep
<1>4. Spec => []OrphanInv
  BY <1>0, OrphanInvHolds
<1> QED BY <1>1, <1>2, <1>3, <1>4, InvHolds, PTL DEF Spec, KeepsPromise, Promise!Spec
=============================================================================
