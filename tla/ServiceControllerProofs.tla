----------------------- MODULE ServiceControllerProofs -----------------------
(***************************************************************************)
(* Theorems about ServiceController, for every value of its constants.     *)
(*                                                                         *)
(* TypeOK is not inductive by itself: a creation attempt has to stay       *)
(* within 0..MaxCreateCount, the retry count within 0..MaxRetries, and a   *)
(* hash is only recorded for a listener list that was validated.  FrameOK  *)
(* says what each program point of the two workers knows about these.      *)
(***************************************************************************)
EXTENDS ServiceController, TLAPS

(* Program points at which EnsureLoadBalancer has validated its listeners. *)
Validated == EnsurePC \ {"ensure"}

FrameOK ==
    /\ w.pc \in Validated => w.want \in Listeners /\ w.id \in Attempts
    /\ w.pc = "create" => w.id \in CreateCount
    /\ w.pc = "recDelete" => w.obj.count < MaxCreateCount
    /\ w.late => w.pc \in {"update", "recordHash", "poll", "kamaji",
                           "internalIP", "publish", "done", "failed"}
    /\ w.late /\ w.pc \in {"update", "recordHash", "poll"} => retries < MaxRetries
    /\ w.pc \in {"delete", "publish"} => w.id \in Attempts
    /\ n.pc \in {"get", "update", "recordHash"} =>
           n.want \in Listeners /\ n.obj.id \in Attempts

Inv == TypeOK /\ FrameOK /\ BoundedCreation

-----------------------------------------------------------------------------
(* The creation attempt that the next CreateLoadBalancer would carry.      *)
Succ(service) == IF service.id = None THEN service.count ELSE service.count + 1

(* Program points between the start of a sync and the write of a new id.   *)
BeforeAnnotation == {"addFinalizer", "ensure", "get", "recDelete", "create", "annId"}

(* While the Service exists, a live load balancer is the one of the id     *)
(* annotation or the one of the next attempt (created, but its id was not  *)
(* recorded).                                                              *)
RecordedOrNext ==
    svc.present =>
        /\ svc.id = None => svc.count = 0
        /\ \A k \in Attempts : Live(k) => k = svc.id \/ k = Succ(svc)

(* The Service cannot go away under EnsureLoadBalancer.                    *)
FinalizerHeld ==
    /\ w.pc = "addFinalizer" /\ w.obj.finalizer => svc.present /\ svc.finalizer
    /\ w.pc \in EnsurePC => svc.present /\ svc.finalizer

(* Until a new id is written, the object at hand has the current id and    *)
(* create count, unless the user has reset them: then it leads to no       *)
(* creation, because its own count is used up.                             *)
ObjectCurrent ==
    w.pc \in BeforeAnnotation /\ svc.present =>
        \/ w.obj.id = svc.id /\ w.obj.count = svc.count
        \/ /\ w.pc \in {"addFinalizer", "ensure", "get"}
           /\ w.obj.id # None /\ createsExhausted(w.obj)

(* Between the delete of a stuck load balancer and the recording of its    *)
(* successor only the successor can be alive.                              *)
OnlySuccessor ==
    /\ w.pc \in {"get", "recDelete"} => w.id = w.obj.id /\ w.id # None
    /\ w.pc \in {"create", "annId"} => w.id = Succ(w.obj)
    /\ w.pc \in {"create", "annId", "annCount"} =>
           /\ w.count = w.obj.count + 1
           /\ \A k \in Attempts : Live(k) => k = w.id
    /\ w.pc = "annCount" => svc.id = w.id /\ svc.count = w.obj.count

OneLiveInv == /\ AtMostOneLive /\ RecordedOrNext /\ FinalizerHeld
              /\ ObjectCurrent /\ OnlySuccessor

-----------------------------------------------------------------------------
(* Constants and values.                                                   *)

LEMMA CountsAreAttempts ==
    /\ CreateCount \subseteq Attempts /\ CreateCount \subseteq Nat
    /\ 0 \in CreateCount /\ 1 \in CreateCount
    /\ Attempts \subseteq Nat /\ None \notin Attempts
<1>1. CreateCount \subseteq Attempts /\ CreateCount \subseteq Nat
  BY Constants DEF CreateCount
<1>2. 0 \in CreateCount /\ 1 \in CreateCount
  BY Constants DEF CreateCount
<1>3. Attempts \subseteq Nat /\ None \notin Attempts
  BY Constants
<1> QED BY <1>1, <1>2, <1>3

LEMMA AbsentIsService == Absent \in Service
<1>1. AnyPort \in Ports
  BY Constants DEF AnyPort
<1> QED
  BY <1>1, CountsAreAttempts DEF Absent, Service, LBId

LEMMA IdleFrames == WIdle \in WFrame /\ NIdle \in NFrame
BY AbsentIsService, CountsAreAttempts
   DEF WIdle, NIdle, WFrame, NFrame, LBId, ControllerPC

LEMMA GotoTyped ==
    ASSUME w \in WFrame, NEW pc \in EnsurePC \cup DeletePC \cup ControllerPC
    PROVE  [w EXCEPT !.pc = pc] \in WFrame
BY DEF WFrame

(* What the server's rows are after a call stays a row.                    *)
LEMMA ApiCreateTyped ==
    ASSUME lbs \in [Attempts -> LB], NEW k \in Attempts, NEW l \in Listeners,
           ApiCreate(k, l)
    PROVE  lbs' \in [Attempts -> LB]
<1> DEFINE row == [state |-> "provisioning", fip |-> FALSE, cfg |-> l]
<1>1. row \in LB
  BY DEF LB, LBState
<1> QED BY <1>1 DEF ApiCreate

LEMMA ApiUpdateTyped ==
    ASSUME lbs \in [Attempts -> LB], NEW k \in Attempts, NEW l \in Listeners,
           ApiUpdate(k, l)
    PROVE  lbs' \in [Attempts -> LB]
BY DEF ApiUpdate, LB, LBState

LEMMA ApiDeleteTyped ==
    ASSUME lbs \in [Attempts -> LB], NEW k \in Attempts, ApiDelete(k)
    PROVE  lbs' \in [Attempts -> LB]
BY DEF ApiDelete, LB, LBState

LEMMA ServerTyped ==
    ASSUME lbs \in [Attempts -> LB], NEW k \in Attempts, ServerStep(k)
    PROVE  lbs' \in [Attempts -> LB]
<1>1. CASE Provisioned(k)
  <2>1. PICK o \in {"ready", "failed"} : lbs' = [lbs EXCEPT ![k].state = o]
    BY <1>1 DEF Provisioned
  <2> QED BY <2>1 DEF LB, LBState
<1>2. CASE FipActivated(k)
  BY <1>2 DEF FipActivated, LB
<1>3. CASE Deleted(k)
  BY <1>3 DEF Deleted, LB, LBState
<1>4. CASE Purged(k)
  BY <1>4 DEF Purged, LB, LBState
<1> QED BY <1>1, <1>2, <1>3, <1>4 DEF ServerStep

(* No call and no step of the server brings a row into being but a         *)
(* creation, and no load balancer comes back to life.                      *)
LEMMA UpdateKeeps ==
    ASSUME lbs \in [Attempts -> LB], NEW k \in Attempts, NEW l \in Listeners,
           Live(k), ApiUpdate(k, l)
    PROVE  \A j \in Attempts : (Created(j)' => Created(j)) /\ (Live(j)' <=> Live(j))
BY DEF ApiUpdate, Created, Live, LB

LEMMA DeleteKeeps ==
    ASSUME lbs \in [Attempts -> LB], NEW k \in Attempts, ApiDelete(k)
    PROVE  /\ \A j \in Attempts : (Created(j)' => Created(j)) /\ (Live(j)' => Live(j))
           /\ ~Live(k)'
<1>1. CASE Live(k)
  <2>1. lbs' = [lbs EXCEPT ![k].state = "deleting"]
    BY <1>1 DEF ApiDelete
  <2> QED BY <1>1, <2>1 DEF Created, Live, LB
<1>2. CASE ~Live(k)
  BY <1>2 DEF ApiDelete, Created, Live
<1> QED BY <1>1, <1>2

LEMMA ServerKeeps ==
    ASSUME lbs \in [Attempts -> LB], NEW k \in Attempts, ServerStep(k)
    PROVE  \A j \in Attempts : (Created(j)' => Created(j)) /\ (Live(j)' => Live(j))
<1>1. CASE Provisioned(k)
  BY <1>1 DEF Provisioned, Created, Live, LB
<1>2. CASE FipActivated(k)
  BY <1>2 DEF FipActivated, Created, Live, LB
<1>3. CASE Deleted(k)
  BY <1>3 DEF Deleted, Created, Live, LB
<1>4. CASE Purged(k)
  BY <1>4 DEF Purged, Created, Live, LB
<1> QED BY <1>1, <1>2, <1>3, <1>4 DEF ServerStep

LEMMA CreatePreserves ==
    ASSUME Inv, CreateRPC, UNCHANGED controllerVars
    PROVE  Inv'
<1> USE CountsAreAttempts DEF Inv
<1>0. w.id \in Attempts /\ w.id \in CreateCount /\ w.want \in Listeners
  BY DEF FrameOK, CreateRPC, Validated, EnsurePC
<1>1. lbs' \in [Attempts -> LB]
  BY <1>0, ApiCreateTyped DEF TypeOK, CreateRPC
<1>2. w' \in WFrame
  BY GotoTyped DEF TypeOK, CreateRPC, Goto, EnsurePC, ControllerPC
<1>3. faults' \in Nat
  BY DEF TypeOK, CreateRPC, Fault, NoFault
<1>4. TypeOK'
  BY <1>1, <1>2, <1>3 DEF TypeOK, CreateRPC, controllerVars
<1>5. FrameOK'
  BY <1>2 DEF TypeOK, FrameOK, CreateRPC, Goto, Validated, EnsurePC, WFrame
<1>6. BoundedCreation'
  BY <1>0 DEF TypeOK, CreateRPC, ApiCreate, BoundedCreation, Created, CreateCount, LB
<1> QED BY <1>4, <1>5, <1>6
LEMMA AnnotateIdPreserves ==
    ASSUME Inv, AnnotateId, UNCHANGED controllerVars
    PROVE  Inv'
<1> USE CountsAreAttempts DEF Inv
<1>0. w.id \in Attempts /\ w.want \in Listeners
  BY DEF FrameOK, AnnotateId, Validated, EnsurePC
<1>1. w' \in WFrame
  BY GotoTyped DEF TypeOK, AnnotateId, Goto, EnsurePC, DeletePC, ControllerPC
<1>2. faults' \in Nat
  BY DEF TypeOK, AnnotateId, WriteFails, Fault, NoFault
<1>3. svc' \in Service
  BY <1>0 DEF TypeOK, AnnotateId, Service, LBId
<1>4. TypeOK'
  BY <1>0, <1>1, <1>2, <1>3 DEF TypeOK, AnnotateId, controllerVars
<1>5. FrameOK'
  BY <1>0, <1>1, <1>2, <1>3 DEF TypeOK, FrameOK, AnnotateId, Goto, Validated, EnsurePC, WFrame
<1>6. BoundedCreation'
  BY DEF AnnotateId, BoundedCreation, Created
<1> QED BY <1>4, <1>5, <1>6

LEMMA AnnotateCountPreserves ==
    ASSUME Inv, AnnotateCount, UNCHANGED controllerVars
    PROVE  Inv'
<1> USE CountsAreAttempts DEF Inv
<1>1. w' \in WFrame
  BY GotoTyped DEF TypeOK, AnnotateCount, Goto, EnsurePC, DeletePC, ControllerPC
<1>2. faults' \in Nat
  BY DEF TypeOK, AnnotateCount, WriteFails, Fault, NoFault
<1>3. svc' \in Service
  BY DEF TypeOK, AnnotateCount, Service, WFrame
<1>4. TypeOK'
  BY <1>1, <1>2, <1>3 DEF TypeOK, AnnotateCount, controllerVars
<1>5. FrameOK'
  BY <1>1, <1>2, <1>3 DEF TypeOK, FrameOK, AnnotateCount, Goto, Validated, EnsurePC, WFrame
<1>6. BoundedCreation'
  BY DEF AnnotateCount, BoundedCreation, Created
<1> QED BY <1>4, <1>5, <1>6

LEMMA RecordHashPreserves ==
    ASSUME Inv, recordListenerHash, UNCHANGED controllerVars
    PROVE  Inv'
<1> USE CountsAreAttempts DEF Inv
<1>0. w.want \in Listeners /\ listenersHashStr(w.want) \in Hash
  BY DEF FrameOK, recordListenerHash, Validated, EnsurePC, Hash
<1>1. w' \in WFrame
  BY GotoTyped DEF TypeOK, recordListenerHash, Goto, EnsurePC, DeletePC, ControllerPC
<1>2. faults' \in Nat
  BY DEF TypeOK, recordListenerHash, WriteFails, Fault, NoFault
<1>3. svc' \in Service
  BY <1>0 DEF TypeOK, recordListenerHash, Service
<1>4. retries' \in 0..MaxRetries
  BY Constants DEF TypeOK, recordListenerHash, clearRetryCount
<1>5. TypeOK'
  BY <1>0, <1>1, <1>2, <1>3, <1>4 DEF TypeOK, recordListenerHash, controllerVars
<1>6. FrameOK'
  BY <1>0, <1>1, <1>2, <1>3, <1>4 DEF TypeOK, FrameOK, recordListenerHash, Goto, Validated, EnsurePC, WFrame, clearRetryCount
<1>7. BoundedCreation'
  BY DEF recordListenerHash, BoundedCreation, Created
<1> QED BY <1>5, <1>6, <1>7

LEMMA PollReadyPreserves ==
    ASSUME Inv, PollReady, UNCHANGED controllerVars
    PROVE  Inv'
<1> USE CountsAreAttempts DEF Inv
<1>1. w' \in WFrame
  BY GotoTyped DEF TypeOK, PollReady, Goto, EnsurePC, ControllerPC, afterPoll, afterKamaji
<1>2. retries' \in 0..MaxRetries
  BY Constants DEF TypeOK, PollReady, clearRetryCount
<1>3. TypeOK'
  BY <1>1, <1>2 DEF TypeOK, PollReady, controllerVars
<1>4. FrameOK'
  BY <1>1, <1>2 DEF TypeOK, FrameOK, PollReady, Goto, Validated, EnsurePC, WFrame, afterPoll, afterKamaji
<1>5. BoundedCreation'
  BY DEF PollReady, BoundedCreation, Created
<1> QED BY <1>3, <1>4, <1>5

LEMMA PollGivesUpPreserves ==
    ASSUME Inv, PollGivesUp, UNCHANGED controllerVars
    PROVE  Inv'
<1> USE CountsAreAttempts DEF Inv
<1>1. w' \in WFrame
  BY GotoTyped DEF TypeOK, PollGivesUp, Goto, EnsurePC, DeletePC, ControllerPC
<1>2. retries' \in 0..MaxRetries
  BY Constants DEF TypeOK, FrameOK, PollGivesUp, incrementRetryCount
<1>3. TypeOK'
  BY <1>1, <1>2 DEF TypeOK, PollGivesUp, controllerVars
<1>4. FrameOK'
  BY <1>1, <1>2 DEF TypeOK, FrameOK, PollGivesUp, Goto, Validated, EnsurePC, WFrame
<1>5. BoundedCreation'
  BY DEF PollGivesUp, BoundedCreation, Created
<1> QED BY <1>3, <1>4, <1>5

LEMMA KamajiPreserves ==
    ASSUME Inv, updateKamajiAdvertiseAddress, UNCHANGED controllerVars
    PROVE  Inv'
<1> USE CountsAreAttempts DEF Inv
<1>1. w' \in WFrame
  BY GotoTyped DEF TypeOK, updateKamajiAdvertiseAddress, Goto, EnsurePC, ControllerPC, afterKamaji
<1>2. faults' \in Nat
  BY DEF TypeOK, updateKamajiAdvertiseAddress, WriteFails, Fault, NoFault
<1>3. advertised' \in LBId
  BY DEF TypeOK, updateKamajiAdvertiseAddress, WFrame
<1>4. TypeOK'
  BY <1>1, <1>2, <1>3 DEF TypeOK, updateKamajiAdvertiseAddress, controllerVars
<1>5. FrameOK'
  BY <1>1, <1>2, <1>3 DEF TypeOK, FrameOK, updateKamajiAdvertiseAddress, Goto, Validated, EnsurePC, WFrame, afterKamaji
<1>6. BoundedCreation'
  BY DEF updateKamajiAdvertiseAddress, BoundedCreation, Created
<1> QED BY <1>4, <1>5, <1>6

LEMMA InternalIPPreserves ==
    ASSUME Inv, storeInternalIpIfBothMode, UNCHANGED controllerVars
    PROVE  Inv'
<1> USE CountsAreAttempts DEF Inv
<1>1. w' \in WFrame
  BY GotoTyped DEF TypeOK, storeInternalIpIfBothMode, Goto, EnsurePC, DeletePC, ControllerPC
<1>2. faults' \in Nat
  BY DEF TypeOK, storeInternalIpIfBothMode, WriteFails, Fault, NoFault
<1>3. svc' \in Service
  BY DEF TypeOK, storeInternalIpIfBothMode, Service, WFrame
<1>4. TypeOK'
  BY <1>1, <1>2, <1>3 DEF TypeOK, storeInternalIpIfBothMode, controllerVars
<1>5. FrameOK'
  BY <1>1, <1>2, <1>3 DEF TypeOK, FrameOK, storeInternalIpIfBothMode, Goto, Validated, EnsurePC, WFrame
<1>6. BoundedCreation'
  BY DEF storeInternalIpIfBothMode, BoundedCreation, Created
<1> QED BY <1>4, <1>5, <1>6

LEMMA RecreateDeletePreserves ==
    ASSUME Inv, RecreateDelete, UNCHANGED controllerVars
    PROVE  Inv'
<1> USE CountsAreAttempts DEF Inv
<1>0. w.id \in Attempts /\ nextAttempt(w.obj) \in CreateCount /\ w.want \in Listeners
  <2>1. w.obj.count \in 0..MaxCreateCount /\ w.obj.count < MaxCreateCount
    BY DEF TypeOK, FrameOK, RecreateDelete, WFrame, Service, CreateCount
  <2>2. nextAttempt(w.obj) \in CreateCount
    BY <2>1, Constants DEF nextAttempt, CreateCount
  <2> QED BY <2>2 DEF FrameOK, RecreateDelete, Validated, EnsurePC
<1>1. w' \in WFrame
  BY <1>0 DEF TypeOK, RecreateDelete, WFrame, EnsurePC, LBId
<1>2. faults' \in Nat
  BY DEF TypeOK, RecreateDelete, WriteFails, Fault, NoFault
<1>3. lbs' \in [Attempts -> LB]
  BY <1>0, ApiDeleteTyped DEF TypeOK, RecreateDelete
<1>4. TypeOK'
  BY <1>0, <1>1, <1>2, <1>3 DEF TypeOK, RecreateDelete, controllerVars
<1>5. FrameOK'
  BY <1>0, <1>1, <1>2, <1>3 DEF TypeOK, FrameOK, RecreateDelete, Goto, Validated, EnsurePC, WFrame
<1>6. BoundedCreation'
  BY <1>0, DeleteKeeps DEF TypeOK, RecreateDelete, BoundedCreation, Created
<1> QED BY <1>4, <1>5, <1>6

LEMMA UpdatePreserves ==
    ASSUME Inv, UpdateRPC, UNCHANGED controllerVars
    PROVE  Inv'
<1> USE CountsAreAttempts DEF Inv
<1>0. w.id \in Attempts /\ w.want \in Listeners
  BY DEF FrameOK, UpdateRPC, Validated, EnsurePC
<1>1. w' \in WFrame
  BY GotoTyped DEF TypeOK, UpdateRPC, Goto, EnsurePC, DeletePC, ControllerPC
<1>2. faults' \in Nat
  BY DEF TypeOK, UpdateRPC, WriteFails, Fault, NoFault
<1>3. retries' \in 0..MaxRetries
  BY Constants DEF TypeOK, FrameOK, UpdateRPC, incrementRetryCount
<1>4. lbs' \in [Attempts -> LB]
  BY <1>0, ApiUpdateTyped DEF TypeOK, UpdateRPC
<1>5. TypeOK'
  BY <1>0, <1>1, <1>2, <1>3, <1>4 DEF TypeOK, UpdateRPC, controllerVars
<1>6. FrameOK'
  BY <1>0, <1>1, <1>2, <1>3, <1>4 DEF TypeOK, FrameOK, UpdateRPC, Goto, Validated, EnsurePC, WFrame, incrementRetryCount
<1>7. BoundedCreation'
  BY <1>0, UpdateKeeps DEF TypeOK, UpdateRPC, BoundedCreation, Created
<1> QED BY <1>5, <1>6, <1>7

LEMMA EnsurePreserves ==
    ASSUME Inv, ensureLoadBalancer
    PROVE  Inv'
<1> USE CountsAreAttempts DEF Inv
<1> DEFINE want == buildListeners(w.obj, nodes)
<1>1. w.obj \in Service /\ w.obj.id \in LBId /\ w.obj.count \in CreateCount /\ ~w.late
  BY DEF TypeOK, FrameOK, WFrame, Service, ensureLoadBalancer, EnsureLoadBalancer
<1>2. /\ w' \in WFrame
      /\ w'.late = FALSE
      /\ \/ w'.pc \in {"done", "failed"}
         \/ w'.pc = "create" /\ w'.want \in Listeners /\ w'.id = w.obj.count
         \/ w'.pc = "get" /\ w'.want \in Listeners /\ w'.id \in Attempts
  <2>1. CASE Goto("done") \/ Goto("failed")
    BY <1>1, <2>1, GotoTyped DEF TypeOK, Goto, ControllerPC, WFrame
  <2>2. CASE w' = [w EXCEPT !.pc = "create", !.want = want,
                            !.id = firstAttempt(w.obj), !.count = 1]
             /\ validateListeners(want)
    BY <1>1, <2>2 DEF TypeOK, WFrame, EnsurePC, LBId, firstAttempt, validateListeners
  <2>3. CASE w' = [w EXCEPT !.pc = "get", !.want = want, !.id = w.obj.id]
             /\ validateListeners(want) /\ w.obj.id # None
    BY <1>1, <2>3 DEF TypeOK, WFrame, EnsurePC, LBId, validateListeners
  <2> QED BY <2>1, <2>2, <2>3 DEF ensureLoadBalancer, EnsureLoadBalancer
<1>3. TypeOK'
  BY <1>2 DEF TypeOK, ensureLoadBalancer, EnsureLoadBalancer
<1>4. FrameOK'
  BY <1>1, <1>2 DEF FrameOK, ensureLoadBalancer, EnsureLoadBalancer, Validated, EnsurePC
<1>5. BoundedCreation'
  BY DEF ensureLoadBalancer, EnsureLoadBalancer, BoundedCreation, Created
<1> QED BY <1>3, <1>4, <1>5

LEMMA EnsureGetPreserves ==
    ASSUME Inv, EnsureGet, UNCHANGED controllerVars
    PROVE  Inv'
<1> USE CountsAreAttempts DEF Inv
<1>0. w.id \in Attempts /\ w.want \in Listeners /\ ~w.late
  BY DEF FrameOK, EnsureGet, Validated, EnsurePC
<1>1. w' \in WFrame
  <2>1. w \in WFrame
    BY DEF TypeOK
  <2>2. [w EXCEPT !.pc = "update", !.late = TRUE] \in WFrame
        /\ [w EXCEPT !.pc = "update", !.late = FALSE] \in WFrame
    BY <2>1 DEF WFrame, EnsurePC
  <2> QED BY <2>1, <2>2, GotoTyped
          DEF EnsureGet, FoundReady, FoundNotReady, Goto, EnsurePC, ControllerPC
<1>2. faults' \in Nat
  BY DEF TypeOK, EnsureGet, Fault, NoFault
<1>3. retries' \in 0..MaxRetries
  BY Constants DEF TypeOK, EnsureGet, FoundReady, FoundNotReady,
                   clearRetryCount, incrementRetryCount
<1>4. seenNotReady' \in [Attempts -> 0..(MaxRetries + 1)]
  <2>1. CASE UNCHANGED seenNotReady
    BY <2>1 DEF TypeOK
  <2>2. CASE seenNotReady[w.id] <= MaxRetries
             /\ seenNotReady' = [seenNotReady EXCEPT ![w.id] = @ + 1]
    <3>1. seenNotReady[w.id] \in 0..(MaxRetries + 1)
      BY <1>0 DEF TypeOK
    <3>2. seenNotReady[w.id] + 1 \in 0..(MaxRetries + 1)
      BY <2>2, <3>1, Constants
    <3> QED BY <1>0, <2>2, <3>2 DEF TypeOK
  <2>3. seenNotReady[w.id] \in 0..(MaxRetries + 1) /\ MaxRetries \in Nat
    <3>1. seenNotReady[w.id] \in 0..(MaxRetries + 1)
      BY <1>0 DEF TypeOK
    <3> QED BY <3>1, Constants
  <2> QED BY <2>1, <2>2, <2>3 DEF EnsureGet, FoundReady, FoundNotReady
<1>5. TypeOK'
  BY <1>1, <1>2, <1>3, <1>4 DEF TypeOK, EnsureGet, controllerVars
<1>6. FrameOK'
  <2>1. /\ w'.want = w.want /\ w'.id = w.id /\ w'.obj = w.obj
        /\ w'.pc \in {"failed", "update", "poll", "publish", "recDelete"}
        /\ w'.late => w'.pc = "update" /\ retries < MaxRetries /\ retries' = retries
        /\ w'.pc = "recDelete" => ~createsExhausted(w.obj)
    BY <1>0 DEF TypeOK, EnsureGet, FoundReady, FoundNotReady, Goto, WFrame
  <2>2. w'.pc = "recDelete" => w.obj.count < MaxCreateCount
    BY <2>1, Constants DEF TypeOK, WFrame, Service, CreateCount, createsExhausted
  <2> QED BY <1>0, <2>1, <2>2 DEF FrameOK, EnsureGet, Validated
<1>7. BoundedCreation'
  BY DEF EnsureGet, BoundedCreation, Created
<1> QED BY <1>5, <1>6, <1>7

LEMMA GetPreserves ==
    ASSUME Inv, GetLoadBalancer, UNCHANGED controllerVars
    PROVE  Inv'
<1> USE CountsAreAttempts DEF Inv
<1>1. w' \in WFrame
  BY SMTT(20), GotoTyped DEF TypeOK, GetLoadBalancer, Goto, EnsurePC, DeletePC, ControllerPC
<1>2. faults' \in Nat
  BY DEF TypeOK, GetLoadBalancer, WriteFails, Fault, NoFault
<1>3. TypeOK'
  BY <1>1, <1>2 DEF TypeOK, GetLoadBalancer, controllerVars
<1>4. FrameOK'
  BY <1>1, <1>2 DEF TypeOK, FrameOK, GetLoadBalancer, Goto, Validated, EnsurePC, WFrame
<1>5. BoundedCreation'
  BY DEF GetLoadBalancer, BoundedCreation, Created
<1> QED BY <1>3, <1>4, <1>5

LEMMA DeletedPreserves ==
    ASSUME Inv, EnsureLoadBalancerDeleted, UNCHANGED controllerVars
    PROVE  Inv'
<1> USE CountsAreAttempts DEF Inv
<1>1. w' \in WFrame
  <2>1. [w EXCEPT !.pc = "delete", !.id = w.obj.id] \in WFrame
    BY DEF TypeOK, WFrame, Service, DeletePC
  <2> QED BY <2>1, GotoTyped DEF TypeOK, EnsureLoadBalancerDeleted, Goto, DeletePC, ControllerPC
<1>2. TypeOK'
  BY <1>1 DEF TypeOK, EnsureLoadBalancerDeleted, controllerVars
<1>3. FrameOK'
  <2>1. w.obj.id \in Attempts \cup {None}
    BY DEF TypeOK, WFrame, Service, LBId
  <2> QED BY ZenonT(30), <1>1, <2>1
          DEF TypeOK, FrameOK, EnsureLoadBalancerDeleted, Goto, Validated, EnsurePC, WFrame
<1>4. BoundedCreation'
  BY DEF EnsureLoadBalancerDeleted, BoundedCreation, Created
<1> QED BY <1>2, <1>3, <1>4

LEMMA FindPreserves ==
    ASSUME Inv, findLoadBalancerByName, UNCHANGED controllerVars
    PROVE  Inv'
<1> USE CountsAreAttempts DEF Inv
<1>1. /\ w' \in WFrame /\ w'.pc \in {"delete", "removed", "failed"} /\ w'.late = w.late
      /\ w'.pc = "delete" => w'.id \in Attempts
      /\ faults' \in Nat /\ retries' \in 0..MaxRetries
  <2>1. CASE \E k \in Attempts : /\ Known(k) /\ NoFault
                                 /\ w' = [w EXCEPT !.pc = "delete", !.id = k]
                                 /\ UNCHANGED retries
    <3>1. PICK k \in Attempts : NoFault /\ w' = [w EXCEPT !.pc = "delete", !.id = k]
      BY <2>1
    <3>2. retries' \in 0..MaxRetries /\ faults' \in Nat
      BY <2>1 DEF TypeOK, NoFault
    <3> QED BY <3>1, <3>2 DEF TypeOK, WFrame, DeletePC, LBId
  <2>2. CASE NoFault /\ clearRetryCount /\ Goto("removed")
    BY <2>2, Constants, GotoTyped
       DEF TypeOK, NoFault, clearRetryCount, Goto, ControllerPC, WFrame
  <2>3. CASE Fault("getFail") /\ clearRetryCount /\ Goto("failed")
    BY <2>3, Constants, GotoTyped
       DEF TypeOK, Fault, clearRetryCount, Goto, ControllerPC, WFrame
  <2> QED BY <2>1, <2>2, <2>3 DEF findLoadBalancerByName
<1>2. TypeOK'
  BY <1>1 DEF TypeOK, findLoadBalancerByName, controllerVars
<1>3. FrameOK'
  BY <1>1 DEF FrameOK, findLoadBalancerByName, Validated, EnsurePC
<1>4. BoundedCreation'
  BY DEF findLoadBalancerByName, BoundedCreation, Created
<1> QED BY <1>2, <1>3, <1>4

LEMMA DeletePreserves ==
    ASSUME Inv, DeleteRPC, UNCHANGED controllerVars
    PROVE  Inv'
<1> USE CountsAreAttempts DEF Inv
<1>0. w.id \in Attempts
  BY DEF FrameOK, DeleteRPC
<1>1. w' \in WFrame
  BY GotoTyped DEF TypeOK, DeleteRPC, Goto, EnsurePC, DeletePC, ControllerPC
<1>2. faults' \in Nat
  BY DEF TypeOK, DeleteRPC, WriteFails, Fault, NoFault
<1>3. retries' \in 0..MaxRetries
  BY Constants DEF TypeOK, DeleteRPC, clearRetryCount
<1>4. lbs' \in [Attempts -> LB]
  BY <1>0, ApiDeleteTyped DEF TypeOK, DeleteRPC
<1>5. TypeOK'
  BY <1>1, <1>2, <1>3, <1>4 DEF TypeOK, DeleteRPC, controllerVars
<1>6. FrameOK'
  BY <1>1, <1>2, <1>3, <1>4 DEF TypeOK, FrameOK, DeleteRPC, Goto, Validated, EnsurePC, WFrame
<1>7. BoundedCreation'
  BY <1>0, DeleteKeeps DEF TypeOK, DeleteRPC, BoundedCreation, Created
<1> QED BY <1>5, <1>6, <1>7

LEMMA NodeGetPreserves ==
    ASSUME Inv, NodeGet, UNCHANGED controllerVars
    PROVE  Inv'
<1> USE CountsAreAttempts DEF Inv
<1>1. faults' \in Nat
  BY DEF TypeOK, NodeGet, WriteFails, Fault, NoFault
<1>2. n' \in NFrame
  BY DEF TypeOK, NodeGet, NFrame
<1>3. TypeOK'
  BY <1>1, <1>2 DEF TypeOK, NodeGet, controllerVars
<1>4. FrameOK'
  BY <1>1, <1>2 DEF TypeOK, FrameOK, NodeGet, Goto, Validated, EnsurePC, WFrame, NFrame
<1>5. BoundedCreation'
  BY DEF NodeGet, BoundedCreation, Created
<1> QED BY <1>3, <1>4, <1>5

LEMMA NodeUpdatePreserves ==
    ASSUME Inv, NodeUpdate, UNCHANGED controllerVars
    PROVE  Inv'
<1> USE CountsAreAttempts DEF Inv
<1>0. n.want \in Listeners /\ n.obj.id \in Attempts
  BY DEF FrameOK, NodeUpdate
<1>1. faults' \in Nat
  BY DEF TypeOK, NodeUpdate, WriteFails, Fault, NoFault
<1>2. lbs' \in [Attempts -> LB]
  BY <1>0, ApiUpdateTyped DEF TypeOK, NodeUpdate
<1>3. n' \in NFrame
  BY DEF TypeOK, NodeUpdate, NFrame
<1>4. TypeOK'
  BY <1>0, <1>1, <1>2, <1>3 DEF TypeOK, NodeUpdate, controllerVars
<1>5. FrameOK'
  BY <1>0, <1>1, <1>2, <1>3 DEF TypeOK, FrameOK, NodeUpdate, Goto, Validated, EnsurePC, WFrame, NFrame
<1>6. BoundedCreation'
  BY <1>0, UpdateKeeps DEF TypeOK, NodeUpdate, BoundedCreation, Created
<1> QED BY <1>4, <1>5, <1>6

LEMMA NodeRecordPreserves ==
    ASSUME Inv, NodeRecordHash, UNCHANGED controllerVars
    PROVE  Inv'
<1> USE CountsAreAttempts DEF Inv
<1>0. listenersHashStr(n.want) \in Hash
  BY DEF FrameOK, NodeRecordHash, Hash
<1>1. faults' \in Nat
  BY DEF TypeOK, NodeRecordHash, WriteFails, Fault, NoFault
<1>2. svc' \in Service
  BY <1>0 DEF TypeOK, NodeRecordHash, Service
<1>3. n' \in NFrame
  BY IdleFrames DEF NodeRecordHash
<1>4. TypeOK'
  BY <1>0, <1>1, <1>2, <1>3 DEF TypeOK, NodeRecordHash, controllerVars
<1>5. FrameOK'
  BY <1>0, <1>1, <1>2, <1>3 DEF TypeOK, FrameOK, NodeRecordHash, Goto, Validated, EnsurePC, WFrame, NIdle
<1>6. BoundedCreation'
  BY DEF NodeRecordHash, BoundedCreation, Created
<1> QED BY <1>4, <1>5, <1>6

-----------------------------------------------------------------------------
(* The service controller and the environment.                             *)

LEMMA SyncStartPreserves ==
    ASSUME Inv, SyncStart
    PROVE  Inv'
<1> USE CountsAreAttempts DEF Inv
<1>1. faults' \in Nat
  BY DEF TypeOK, SyncStart, ListerCurrent, Fault, NoFault
<1>2. scCache' \in Service
  BY AbsentIsService DEF TypeOK, SyncStart
<1>3. w' \in WFrame /\ ~w'.late
      /\ w'.pc \in {"idle", "exists", "addFinalizer", "cleanup"}
  <2>1. ASSUME NEW s \in Service, NEW o \in BOOLEAN,
               NEW pc \in {"exists", "addFinalizer", "cleanup"}
        PROVE  SyncFrame(s, pc, o) \in WFrame /\ ~SyncFrame(s, pc, o).late
               /\ SyncFrame(s, pc, o).pc = pc
    BY IdleFrames DEF SyncFrame, WFrame, WIdle, DeletePC, ControllerPC
  <2>2. CASE UNCHANGED w
    BY <2>2 DEF TypeOK, FrameOK, SyncStart
  <2> QED BY ZenonT(30), <2>1, <2>2 DEF TypeOK, SyncStart
<1>4. TypeOK'
  BY <1>1, <1>2, <1>3 DEF TypeOK, SyncStart
<1>5. FrameOK'
  BY <1>3 DEF FrameOK, SyncStart, Validated, EnsurePC
<1>6. BoundedCreation'
  BY DEF SyncStart, BoundedCreation, Created
<1> QED BY <1>4, <1>5, <1>6

LEMMA AddFinalizerPreserves ==
    ASSUME Inv, addFinalizer
    PROVE  Inv'
<1> USE CountsAreAttempts DEF Inv
<1>1. w' \in WFrame
  BY SMTT(20), GotoTyped DEF TypeOK, addFinalizer, Goto, EnsurePC, DeletePC, ControllerPC
<1>2. faults' \in Nat
  BY DEF TypeOK, addFinalizer, WriteFails, Fault, NoFault
<1>3. svc' \in Service
  BY DEF TypeOK, addFinalizer, Service
<1>4. TypeOK'
  BY <1>1, <1>2, <1>3 DEF TypeOK, addFinalizer, controllerVars
<1>5. FrameOK'
  BY <1>1, <1>2, <1>3 DEF TypeOK, FrameOK, addFinalizer, Goto, Validated, EnsurePC, WFrame
<1>6. BoundedCreation'
  BY DEF addFinalizer, BoundedCreation, Created
<1> QED BY <1>4, <1>5, <1>6

LEMMA PublishPreserves ==
    ASSUME Inv, publishStatus
    PROVE  Inv'
<1> USE CountsAreAttempts DEF Inv
<1>1. w' \in WFrame
  BY SMTT(20), GotoTyped DEF TypeOK, publishStatus, Goto, EnsurePC, DeletePC, ControllerPC
<1>2. faults' \in Nat
  BY DEF TypeOK, publishStatus, WriteFails, Fault, NoFault
<1>3. svc' \in Service
  BY DEF TypeOK, publishStatus, Service, WFrame
<1>4. TypeOK'
  BY <1>1, <1>2, <1>3 DEF TypeOK, publishStatus, controllerVars
<1>5. FrameOK'
  BY <1>1, <1>2, <1>3 DEF TypeOK, FrameOK, publishStatus, Goto, Validated, EnsurePC, WFrame
<1>6. BoundedCreation'
  BY DEF publishStatus, BoundedCreation, Created
<1> QED BY <1>4, <1>5, <1>6

LEMMA RemoveFinalizerPreserves ==
    ASSUME Inv, removeFinalizer
    PROVE  Inv'
<1> USE CountsAreAttempts DEF Inv
<1>1. w' \in WFrame
  BY SMTT(20), GotoTyped DEF TypeOK, removeFinalizer, Goto, EnsurePC, DeletePC, ControllerPC
<1>2. faults' \in Nat
  BY DEF TypeOK, removeFinalizer, WriteFails, Fault, NoFault
<1>3. svc' \in Service
  BY AbsentIsService DEF TypeOK, removeFinalizer, Service
<1>4. TypeOK'
  BY <1>1, <1>2, <1>3 DEF TypeOK, removeFinalizer, controllerVars
<1>5. FrameOK'
  BY <1>1, <1>2, <1>3 DEF TypeOK, FrameOK, removeFinalizer, Goto, Validated, EnsurePC, WFrame
<1>6. BoundedCreation'
  BY DEF removeFinalizer, BoundedCreation, Created
<1> QED BY <1>4, <1>5, <1>6

LEMMA ClearStatusPreserves ==
    ASSUME Inv, clearStatus
    PROVE  Inv'
<1> USE CountsAreAttempts DEF Inv
<1>1. w' \in WFrame
  BY GotoTyped DEF TypeOK, clearStatus, Goto, EnsurePC, DeletePC, ControllerPC
<1>2. faults' \in Nat
  BY DEF TypeOK, clearStatus, WriteFails, Fault, NoFault
<1>3. svc' \in Service
  BY DEF TypeOK, clearStatus, Service, LBId
<1>4. scCache' \in Service
  BY AbsentIsService DEF TypeOK, clearStatus
<1>5. TypeOK'
  BY <1>1, <1>2, <1>3, <1>4 DEF TypeOK, clearStatus
<1>6. FrameOK'
  BY <1>1, <1>2, <1>3, <1>4 DEF TypeOK, FrameOK, clearStatus, Goto, Validated, EnsurePC, WFrame
<1>7. BoundedCreation'
  BY DEF clearStatus, BoundedCreation, Created
<1> QED BY <1>5, <1>6, <1>7

LEMMA ForgetOrphanPreserves ==
    ASSUME Inv, forgetOrphan
    PROVE  Inv'
<1> USE CountsAreAttempts DEF Inv
<1>1. w' \in WFrame
  BY GotoTyped DEF TypeOK, forgetOrphan, Goto, EnsurePC, DeletePC, ControllerPC
<1>2. scCache' \in Service
  BY AbsentIsService DEF TypeOK, forgetOrphan
<1>3. TypeOK'
  BY <1>1, <1>2 DEF TypeOK, forgetOrphan
<1>4. FrameOK'
  BY <1>1, <1>2 DEF TypeOK, FrameOK, forgetOrphan, Goto, Validated, EnsurePC, WFrame
<1>5. BoundedCreation'
  BY DEF forgetOrphan, BoundedCreation, Created
<1> QED BY <1>3, <1>4, <1>5

LEMMA SyncEndPreserves ==
    ASSUME Inv, SyncEnd
    PROVE  Inv'
<1> USE CountsAreAttempts DEF Inv
<1>1. w' \in WFrame
  BY IdleFrames DEF SyncEnd
<1>2. queued' \in BOOLEAN
  BY DEF TypeOK, SyncEnd
<1>3. TypeOK'
  BY <1>1, <1>2 DEF TypeOK, SyncEnd
<1>4. FrameOK'
  BY <1>1, <1>2 DEF TypeOK, FrameOK, SyncEnd, Goto, Validated, EnsurePC, WFrame, WIdle
<1>5. BoundedCreation'
  BY DEF SyncEnd, BoundedCreation, Created
<1> QED BY <1>3, <1>4, <1>5

LEMMA NodeSyncPreserves ==
    ASSUME Inv, nodeSyncService
    PROVE  Inv'
<1> USE CountsAreAttempts DEF Inv
<1>1. /\ n' \in NFrame
      /\ \/ n' = n
         \/ n'.pc = "failed"
         \/ n'.pc = "get" /\ n'.want \in Listeners /\ n'.obj.id \in Attempts
  <2>1. scCache \in Service /\ scCache.id \in LBId
    BY DEF TypeOK, Service
  <2>2. CASE UNCHANGED n
    BY <2>2 DEF TypeOK
  <2>3. CASE UpdateLoadBalancer(scCache)
    <3>1. CASE n' = [NIdle EXCEPT !.pc = "failed", !.obj = scCache]
      BY <2>1, <3>1, IdleFrames DEF NFrame, NIdle
    <3>2. CASE /\ n' = [pc |-> "get", obj |-> scCache, want |-> buildListeners(scCache, nodes)]
               /\ scCache.id # None /\ validateListeners(buildListeners(scCache, nodes))
      BY <2>1, <3>2 DEF NFrame, validateListeners, LBId
    <3> QED BY <2>2, <2>3, <3>1, <3>2 DEF UpdateLoadBalancer
  <2> QED BY <2>2, <2>3 DEF nodeSyncService
<1>2. TypeOK'
  BY <1>1 DEF TypeOK, nodeSyncService
<1>3. FrameOK'
  BY <1>1 DEF FrameOK, nodeSyncService
<1>4. BoundedCreation'
  BY DEF nodeSyncService, BoundedCreation, Created
<1> QED BY <1>2, <1>3, <1>4

LEMMA NodeFailedPreserves ==
    ASSUME Inv, NodeFailed
    PROVE  Inv'
<1> USE CountsAreAttempts DEF Inv
<1>1. n' \in NFrame
  BY IdleFrames DEF NodeFailed
<1>2. queued' \in BOOLEAN
  BY DEF TypeOK, NodeFailed
<1>3. TypeOK'
  BY <1>1, <1>2 DEF TypeOK, NodeFailed
<1>4. FrameOK'
  BY <1>1, <1>2 DEF TypeOK, FrameOK, NodeFailed, Goto, Validated, EnsurePC, WFrame, NIdle
<1>5. BoundedCreation'
  BY DEF NodeFailed, BoundedCreation, Created
<1> QED BY <1>3, <1>4, <1>5

LEMMA InformerPreserves ==
    ASSUME Inv, InformerDeliver
    PROVE  Inv'
<1> USE CountsAreAttempts DEF Inv
<1>1. queued' \in BOOLEAN
  BY DEF TypeOK, InformerDeliver
<1>2. TypeOK'
  BY <1>1 DEF TypeOK, InformerDeliver, providerVars
<1>3. FrameOK'
  BY <1>1 DEF TypeOK, FrameOK, InformerDeliver, Goto, Validated, EnsurePC, WFrame, providerVars
<1>4. BoundedCreation'
  BY DEF InformerDeliver, providerVars, BoundedCreation, Created
<1> QED BY <1>2, <1>3, <1>4

LEMMA UserDeletePreserves ==
    ASSUME Inv, UserDelete
    PROVE  Inv'
<1> USE CountsAreAttempts DEF Inv
<1>1. svc' \in Service
  BY AbsentIsService DEF TypeOK, UserDelete, Service
<1>2. TypeOK'
  BY <1>1 DEF TypeOK, UserDelete, controllerVars
<1>3. FrameOK'
  BY <1>1 DEF TypeOK, FrameOK, UserDelete, Goto, Validated, EnsurePC, WFrame
<1>4. BoundedCreation'
  BY DEF UserDelete, BoundedCreation, Created
<1> QED BY <1>2, <1>3, <1>4

LEMMA EditPreserves ==
    ASSUME Inv, NEW s \in Service, Edit(s)
    PROVE  Inv'
<1> USE CountsAreAttempts DEF Inv
<1>1. edits' \in Nat
  BY DEF TypeOK, Edit
<1>2. TypeOK'
  BY <1>1 DEF TypeOK, Edit
<1>3. FrameOK'
  BY <1>1 DEF TypeOK, FrameOK, Edit, Goto, Validated, EnsurePC, WFrame
<1>4. BoundedCreation'
  BY DEF Edit, BoundedCreation, Created
<1> QED BY <1>2, <1>3, <1>4

LEMMA ChangeNodesPreserves ==
    ASSUME Inv, ChangeNodes
    PROVE  Inv'
<1> USE CountsAreAttempts DEF Inv
<1>1. edits' \in Nat /\ nodes' \in NodesOrNot
  BY DEF TypeOK, ChangeNodes
<1>2. TypeOK'
  BY <1>1 DEF TypeOK, ChangeNodes
<1>3. FrameOK'
  BY <1>1 DEF TypeOK, FrameOK, ChangeNodes, Goto, Validated, EnsurePC, WFrame
<1>4. BoundedCreation'
  BY DEF ChangeNodes, BoundedCreation, Created
<1> QED BY <1>2, <1>3, <1>4

LEMMA ResetPreserves ==
    ASSUME Inv, ResetAnnotations
    PROVE  Inv'
<1> USE CountsAreAttempts DEF Inv
<1>0. svc.id \in Attempts
  BY DEF TypeOK, ResetAnnotations, HardStop, Service, LBId
<1>1. faults' \in Nat
  BY DEF TypeOK, ResetAnnotations, WriteFails, Fault, NoFault
<1>2. svc' \in Service
  BY DEF TypeOK, ResetAnnotations, Service, LBId
<1>3. lbs' \in [Attempts -> LB]
  BY <1>0, ApiDeleteTyped DEF TypeOK, ResetAnnotations
<1>4. TypeOK'
  BY <1>0, <1>1, <1>2, <1>3 DEF TypeOK, ResetAnnotations, controllerVars
<1>5. FrameOK'
  BY <1>0, <1>1, <1>2, <1>3 DEF TypeOK, FrameOK, ResetAnnotations, Goto, Validated, EnsurePC, WFrame
<1>6. BoundedCreation'
  BY <1>0, DeleteKeeps DEF TypeOK, ResetAnnotations, BoundedCreation, Created
<1> QED BY <1>4, <1>5, <1>6

LEMMA CrashPreserves ==
    ASSUME Inv, Crash
    PROVE  Inv'
<1> USE CountsAreAttempts DEF Inv
<1>1. w' \in WFrame
  BY IdleFrames DEF Crash
<1>2. faults' \in Nat
  BY DEF TypeOK, Crash, WriteFails, Fault, NoFault
<1>3. n' \in NFrame /\ scCache' \in Service /\ retries' \in 0..MaxRetries
  BY IdleFrames, AbsentIsService, Constants DEF Crash
<1>4. queued' \in BOOLEAN
  BY DEF TypeOK, Crash, enqueues, needsCleanup, needsUpdate, Service, Absent
<1>5. TypeOK'
  BY <1>1, <1>2, <1>3, <1>4 DEF TypeOK, Crash
<1>6. FrameOK'
  BY <1>1, <1>2, <1>3, <1>4 DEF TypeOK, FrameOK, Crash, Goto, Validated, EnsurePC, WFrame, WIdle, NIdle
<1>7. BoundedCreation'
  BY DEF Crash, BoundedCreation, Created
<1> QED BY <1>5, <1>6, <1>7

LEMMA ServerPreserves ==
    ASSUME Inv, NEW k \in Attempts, Server(k)
    PROVE  Inv'
<1> USE CountsAreAttempts DEF Inv
<1>1. lbs' \in [Attempts -> LB]
  BY ServerTyped DEF TypeOK, Server
<1>2. TypeOK'
  BY <1>1 DEF TypeOK, Server, controllerVars
<1>3. FrameOK'
  BY <1>1 DEF TypeOK, FrameOK, Server, Goto, Validated, EnsurePC, WFrame
<1>4. BoundedCreation'
  BY ServerKeeps DEF TypeOK, Server, BoundedCreation, Created
<1> QED BY <1>2, <1>3, <1>4

LEMMA StutterPreserves == ASSUME Inv, UNCHANGED vars PROVE Inv'
BY DEF Inv, TypeOK, FrameOK, BoundedCreation, Created, vars

-----------------------------------------------------------------------------
LEMMA InitInv == Init => Inv
<1> SUFFICES ASSUME Init PROVE Inv
  OBVIOUS
<1> USE CountsAreAttempts
<1>1. lbs \in [Attempts -> LB] /\ BoundedCreation
  BY DEF Init, LBInit, LB, LBState, BoundedCreation, Created
<1>2. svc \in Service
  <2>1. PICK p \in Ports, c \in {OnlyServiceController, FALSE} : svc = Fresh(p, c)
    BY DEF Init
  <2>2. c \in BOOLEAN
    BY Constants
  <2> QED BY <2>1, <2>2, AbsentIsService DEF Fresh, Service
<1>3. retries \in 0..MaxRetries /\ seenNotReady \in [Attempts -> 0..(MaxRetries + 1)]
  BY Constants DEF Init
<1>4. faults \in Nat /\ edits \in Nat
  BY Bounds DEF Init
<1>5. TypeOK
  <2>1. w \in WFrame /\ n \in NFrame /\ cached \in Service /\ scCache \in Service
    BY IdleFrames, AbsentIsService DEF Init
  <2>2. nodes \in NodesOrNot /\ lastSynced \in NodesOrNot \cup {None}
        /\ advertised \in LBId /\ queued \in BOOLEAN /\ nodeQueued \in BOOLEAN
    BY DEF Init, LBId, NodesOrNot
  <2> QED BY <1>1, <1>2, <1>3, <1>4, <2>1, <2>2 DEF TypeOK
<1>6. FrameOK
  BY DEF Init, FrameOK, WIdle, NIdle, Validated, EnsurePC
<1> QED BY <1>1, <1>5, <1>6 DEF Inv

LEMMA EnsureStepPreserves ==
    ASSUME Inv, EnsureStep, UNCHANGED controllerVars
    PROVE  Inv'
BY CreatePreserves, AnnotateIdPreserves, AnnotateCountPreserves, RecordHashPreserves,
   EnsureGetPreserves, RecreateDeletePreserves, UpdatePreserves, PollReadyPreserves,
   PollGivesUpPreserves, KamajiPreserves, InternalIPPreserves DEF EnsureStep

LEMMA DeleteStepPreserves ==
    ASSUME Inv, DeleteStep, UNCHANGED controllerVars
    PROVE  Inv'
BY GetPreserves, DeletedPreserves, FindPreserves, DeletePreserves DEF DeleteStep

LEMMA EnvironmentPreserves == ASSUME Inv, Environment PROVE Inv'
<1>1. CASE EditPorts
  <2>1. PICK p \in Ports : Edit([svc EXCEPT !.ports = p])
    BY <1>1 DEF EditPorts
  <2>2. [svc EXCEPT !.ports = p] \in Service
    BY DEF Inv, TypeOK, Service
  <2> QED BY <2>1, <2>2, EditPreserves
<1>2. CASE ToggleConfig
  <2>1. [svc EXCEPT !.config = ~@] \in Service
    BY ZenonT(30) DEF Inv, TypeOK, Service
  <2> QED BY <1>2, <2>1, EditPreserves DEF ToggleConfig
<1>3. CASE Retype
  <2>1. [svc EXCEPT !.wants = ~@] \in Service
    BY DEF Inv, TypeOK, Service
  <2> QED BY <1>3, <2>1, EditPreserves DEF Retype
<1> QED BY <1>1, <1>2, <1>3, UserDeletePreserves, ChangeNodesPreserves, ResetPreserves,
           CrashPreserves DEF Environment

LEMMA NextPreserves == ASSUME Inv, [Next]_vars PROVE Inv'
<1>1. CASE ServiceWorker
  BY <1>1, SyncStartPreserves, AddFinalizerPreserves, EnsurePreserves, PublishPreserves,
     RemoveFinalizerPreserves, ClearStatusPreserves, ForgetOrphanPreserves,
     SyncEndPreserves, EnsureStepPreserves, DeleteStepPreserves DEF ServiceWorker
<1>2. CASE NodeWorker
  BY <1>2, NodeSyncPreserves, NodeFailedPreserves, NodeGetPreserves, NodeUpdatePreserves,
     NodeRecordPreserves DEF NodeWorker, NodeStep
<1>3. CASE \E k \in Attempts : Server(k)
  BY <1>3, ServerPreserves
<1> QED BY <1>1, <1>2, <1>3, InformerPreserves, EnvironmentPreserves, StutterPreserves
        DEF Next

(* The inductive invariant holds of every behaviour.                       *)
THEOREM InvHolds == Spec => []Inv
<1>1. Init => Inv
  BY InitInv
<1>2. Inv /\ [Next]_vars => Inv'
  BY NextPreserves
<1> QED BY <1>1, <1>2, PTL DEF Spec

(* Type correctness: the retry count never exceeds maxLoadBalancerRetries, *)
(* the create-count annotation never exceeds maxLoadBalancerCreateCount,   *)
(* and every hash that is recorded is one of validated listeners.          *)
THEOREM TypeCorrect == Spec => []TypeOK
<1>1. Inv => TypeOK
  BY DEF Inv
<1> QED BY <1>1, InvHolds, PTL

(* No load balancer is created beyond attempt maxLoadBalancerCreateCount,  *)
(* for all hazards together: crashes, lost answers, failed writes, stale   *)
(* listers and overlapping workers (EnsureLoadBalancer, create count).     *)
THEOREM CreationIsBounded == Spec => []BoundedCreation
<1>1. Inv => BoundedCreation
  BY DEF Inv
<1> QED BY <1>1, InvHolds, PTL

-----------------------------------------------------------------------------
(* At most one load balancer is alive.                                     *)

(* A step that leaves the service worker where it is.                      *)
LEMMA OtherStep ==
    ASSUME OneLiveInv, UNCHANGED w,
           \A k \in Attempts : Live(k)' => Live(k),
           svc'.present => svc.present /\ svc'.id = svc.id /\ svc'.count = svc.count,
           svc.present /\ svc.finalizer => svc'.present /\ svc'.finalizer
    PROVE  OneLiveInv'
<1> USE DEF OneLiveInv
<1>1. AtMostOneLive'
  BY DEF AtMostOneLive
<1>2. RecordedOrNext'
  BY DEF RecordedOrNext, Succ
<1>3. FinalizerHeld' /\ ObjectCurrent'
  BY DEF FinalizerHeld, ObjectCurrent
<1>4. OnlySuccessor'
  BY DEF OnlySuccessor, FinalizerHeld, EnsurePC, Succ
<1> QED BY <1>1, <1>2, <1>3, <1>4

(* A step that takes the service worker to a point after the annotations.  *)
LEMMA WorkerStep ==
    ASSUME OneLiveInv, w'.pc \notin BeforeAnnotation \cup {"annCount"},
           \A k \in Attempts : Live(k)' => Live(k),
           svc'.present => svc.present /\ svc'.id = svc.id /\ svc'.count = svc.count,
           w'.pc \in EnsurePC => svc'.present /\ svc'.finalizer
    PROVE  OneLiveInv'
<1> USE DEF OneLiveInv, BeforeAnnotation
<1>1. AtMostOneLive'
  BY DEF AtMostOneLive
<1>2. RecordedOrNext'
  BY DEF RecordedOrNext, Succ
<1>3. FinalizerHeld' /\ ObjectCurrent' /\ OnlySuccessor'
  BY DEF FinalizerHeld, ObjectCurrent, OnlySuccessor
<1> QED BY <1>1, <1>2, <1>3

(* The documented remedy comes only when every creation is used up, so it  *)
(* leaves nothing alive and meets no creation under way.                   *)
LEMMA ResetOneLive ==
    ASSUME OneLiveInv, Inv, ResetAnnotations
    PROVE  OneLiveInv'
<1>1. /\ svc.present /\ svc.id \in Attempts /\ svc.id # None /\ svc.count = MaxCreateCount
      /\ MaxCreateCount \in Nat /\ UNCHANGED w /\ ApiDelete(svc.id)
  BY Constants, CountsAreAttempts DEF ResetAnnotations, HardStop, createsExhausted, Inv,
     TypeOK, Service, LBId, CreateCount
<1>2. /\ svc'.present /\ svc'.finalizer = svc.finalizer
      /\ svc'.id = None /\ svc'.count = 0
  BY <1>1 DEF ResetAnnotations, Inv, TypeOK, Service
<1>3. \A k \in Attempts : Live(k)' => Live(k) /\ k # svc.id
  BY <1>1, DeleteKeeps DEF Inv, TypeOK
<1>4. \A k \in Attempts : Live(k) => k <= MaxCreateCount
  BY DEF Inv, BoundedCreation, Created, Live
<1>5. \A k \in Attempts : ~Live(k)'
  BY <1>1, <1>3, <1>4 DEF OneLiveInv, RecordedOrNext, Succ
<1>6. w.pc \notin {"recDelete", "create", "annId", "annCount"}
  <2>1. w.obj.count \in Nat /\ w.count \in Nat /\ w.count <= MaxCreateCount
    BY CountsAreAttempts, Constants DEF Inv, TypeOK, WFrame, Service, CreateCount
  <2>2. w.pc = "recDelete" => w.obj.count < MaxCreateCount
    BY DEF Inv, FrameOK
  <2>3. w.pc \in {"create", "annId", "annCount"} => w.obj.count < MaxCreateCount
    BY <1>1, <2>1 DEF OneLiveInv, OnlySuccessor
  <2>4. w.pc \in {"recDelete", "create", "annId", "annCount"} => w.obj.count = svc.count
    BY <1>1 DEF OneLiveInv, OnlySuccessor, ObjectCurrent, BeforeAnnotation
  <2> QED BY <1>1, <2>1, <2>2, <2>3, <2>4
<1>7. AtMostOneLive' /\ RecordedOrNext'
  BY <1>2, <1>5 DEF AtMostOneLive, RecordedOrNext
<1>8. FinalizerHeld' /\ OnlySuccessor'
  BY <1>1, <1>2, <1>6 DEF OneLiveInv, FinalizerHeld, OnlySuccessor
<1>9. ObjectCurrent'
  <2> SUFFICES ASSUME w.pc \in {"addFinalizer", "ensure", "get"}
               PROVE  w.obj.id # None /\ createsExhausted(w.obj)
    BY <1>1, <1>6 DEF ObjectCurrent, BeforeAnnotation
  <2> QED BY <1>1 DEF OneLiveInv, ObjectCurrent, BeforeAnnotation, createsExhausted
<1> QED BY <1>7, <1>8, <1>9 DEF OneLiveInv

LEMMA EnvironmentOneLive ==
    ASSUME OneLiveInv, Inv, Environment
    PROVE  OneLiveInv'
<1>1. CASE UserDelete
  BY <1>1, OtherStep DEF UserDelete, Inv, TypeOK, Service, Absent, Live
<1>2. ASSUME NEW s \in Service, Edit(s), s.id = svc.id, s.count = svc.count,
             s.present = svc.present, s.finalizer = svc.finalizer
      PROVE  OneLiveInv'
  BY <1>2, OtherStep DEF Edit, Live
<1>3. CASE EditPorts
  <2>1. PICK p \in Ports : Edit([svc EXCEPT !.ports = p])
    BY <1>3 DEF EditPorts
  <2> QED BY <2>1, <1>2 DEF Inv, TypeOK, Service
<1>4. CASE ToggleConfig
  BY <1>4, <1>2 DEF ToggleConfig, Inv, TypeOK, Service
<1>5. CASE Retype
  BY <1>5, <1>2 DEF Retype, Inv, TypeOK, Service
<1>6. CASE ChangeNodes
  BY <1>6, OtherStep DEF ChangeNodes, Live
<1>7. CASE Crash
  BY <1>7, WorkerStep DEF Crash, WIdle, BeforeAnnotation, EnsurePC, Live
<1> QED BY <1>1, <1>3, <1>4, <1>5, <1>6, <1>7, ResetOneLive DEF Environment

LEMMA NodeOneLive ==
    ASSUME OneLiveInv, Inv, NodeWorker
    PROVE  OneLiveInv'
<1>1. CASE nodeSyncService \/ NodeFailed \/ NodeGet
  BY <1>1, OtherStep DEF nodeSyncService, NodeFailed, NodeGet, Live
<1>2. CASE NodeUpdate
  <2>1. n.obj.id \in Attempts /\ n.want \in Listeners
    BY <1>2 DEF Inv, FrameOK, NodeUpdate
  <2>2. \A k \in Attempts : Live(k)' => Live(k)
    BY <1>2, <2>1, UpdateKeeps DEF NodeUpdate, Inv, TypeOK, Live
  <2> QED BY <1>2, <2>2, OtherStep DEF NodeUpdate
<1>3. CASE NodeRecordHash
  BY <1>3, OtherStep DEF NodeRecordHash, Inv, TypeOK, Service, Live
<1> QED BY <1>1, <1>2, <1>3 DEF NodeWorker, NodeStep

(* The steps of a sync up to EnsureLoadBalancer's first call.              *)
LEMMA SyncStartOneLive ==
    ASSUME OneLiveInv, Inv, "lag" \notin Hazards, SyncStart
    PROVE  OneLiveInv'
<1>1. cached = svc
  BY DEF SyncStart, ListerCurrent, Fault
<1>2. CASE w'.pc = "addFinalizer"
  <2>1. w'.obj = svc /\ svc.present
    <3>1. w'.pc # w.pc /\ w'.pc # "cleanup"
      BY <1>2 DEF SyncStart
    <3>2. cached.present /\ \E pc \in {"exists", "addFinalizer"} :
                                w' = SyncFrame(cached, pc, FALSE)
      BY <3>1 DEF SyncStart, SyncFrame, WIdle
    <3> QED BY <1>1, <3>2 DEF SyncFrame, WIdle
  <2>2. UNCHANGED <<lbs, svc>>
    BY DEF SyncStart
  <2>3. AtMostOneLive' /\ RecordedOrNext'
    BY <2>2 DEF OneLiveInv, AtMostOneLive, RecordedOrNext, Live, Succ
  <2>4. FinalizerHeld' /\ ObjectCurrent' /\ OnlySuccessor'
    BY <1>2, <2>1, <2>2 DEF FinalizerHeld, ObjectCurrent, OnlySuccessor, EnsurePC
  <2> QED BY <2>3, <2>4 DEF OneLiveInv
<1>3. CASE w'.pc # "addFinalizer"
  <2>1. w'.pc \in {"idle", "exists", "cleanup"}
    BY <1>3 DEF SyncStart, SyncFrame, WIdle, Inv, TypeOK, WFrame
  <2> QED BY <2>1, WorkerStep DEF SyncStart, BeforeAnnotation, EnsurePC, Live
<1> QED BY <1>2, <1>3

LEMMA AddFinalizerOneLive ==
    ASSUME OneLiveInv, Inv, addFinalizer
    PROVE  OneLiveInv'
<1>1. CASE w'.pc = "ensure"
  <2>1. /\ w'.obj = w.obj /\ UNCHANGED lbs
        /\ svc.present /\ svc'.present /\ svc'.finalizer
        /\ svc'.id = svc.id /\ svc'.count = svc.count
    BY <1>1 DEF addFinalizer, Goto, WriteFails, Inv, TypeOK, WFrame, Service,
                OneLiveInv, FinalizerHeld
  <2>2. w.pc = "addFinalizer"
    BY DEF addFinalizer
  <2> QED BY <1>1, <2>1, <2>2 DEF OneLiveInv, AtMostOneLive, RecordedOrNext,
             FinalizerHeld, ObjectCurrent, OnlySuccessor, BeforeAnnotation, Live, Succ
<1>2. CASE w'.pc # "ensure"
  <2>1. w'.pc = "failed" /\ UNCHANGED <<svc, lbs>>
    BY <1>2 DEF addFinalizer, Goto, Inv, TypeOK, WFrame
  <2> QED BY <2>1, WorkerStep DEF BeforeAnnotation, EnsurePC, Live
<1> QED BY <1>1, <1>2

LEMMA EnsureOneLive ==
    ASSUME OneLiveInv, Inv, ensureLoadBalancer
    PROVE  OneLiveInv'
<1>1. /\ w.pc = "ensure" /\ UNCHANGED <<lbs, svc>> /\ w'.obj = w.obj
      /\ svc.present /\ svc.finalizer /\ svc.count \in Nat
  BY CountsAreAttempts DEF ensureLoadBalancer, EnsureLoadBalancer, Goto, OneLiveInv,
     FinalizerHeld, EnsurePC, Inv, TypeOK, WFrame, Service
<1>2. \/ w.obj.id = svc.id /\ w.obj.count = svc.count
      \/ w.obj.id # None /\ createsExhausted(w.obj)
  BY <1>1 DEF OneLiveInv, ObjectCurrent, BeforeAnnotation
<1>3. \/ w'.pc \in {"done", "failed"}
      \/ w'.pc = "create" /\ w.obj.id = None /\ w'.id = w.obj.count /\ w'.count = 1
      \/ w'.pc = "get" /\ w.obj.id # None /\ w'.id = w.obj.id
  BY DEF ensureLoadBalancer, EnsureLoadBalancer, Goto, firstAttempt, Inv, TypeOK, WFrame
<1>4. CASE w'.pc \in {"done", "failed"}
  BY <1>1, <1>4, WorkerStep DEF BeforeAnnotation, EnsurePC, Live
<1>5. CASE w'.pc = "create" /\ w.obj.id = None /\ w'.id = w.obj.count /\ w'.count = 1
  <2>1. svc.count = 0 /\ Succ(svc) = w'.id /\ Succ(w.obj) = w'.id
    BY <1>1, <1>2, <1>5 DEF OneLiveInv, RecordedOrNext, Succ
  <2>2. \A k \in Attempts : Live(k) => k = w'.id
    BY <1>1, <1>2, <1>5, <2>1, CountsAreAttempts DEF OneLiveInv, RecordedOrNext
  <2> QED BY <1>1, <1>2, <1>5, <2>1, <2>2 DEF OneLiveInv, AtMostOneLive, RecordedOrNext,
             FinalizerHeld, ObjectCurrent, OnlySuccessor, BeforeAnnotation, EnsurePC,
             Live, Succ
<1>6. CASE w'.pc = "get" /\ w.obj.id # None /\ w'.id = w.obj.id
  BY <1>1, <1>2, <1>6 DEF OneLiveInv, AtMostOneLive, RecordedOrNext, FinalizerHeld,
     ObjectCurrent, OnlySuccessor, BeforeAnnotation, EnsurePC, Live, Succ, createsExhausted
<1> QED BY <1>3, <1>4, <1>5, <1>6

(* The recreate path: read, delete, create, annotate.                      *)
LEMMA EnsureGetOneLive ==
    ASSUME OneLiveInv, Inv, EnsureGet
    PROVE  OneLiveInv'
<1>1. /\ w.pc = "get" /\ UNCHANGED <<lbs, svc>> /\ w'.obj = w.obj /\ w'.id = w.id
      /\ w'.pc \in {"failed", "update", "poll", "publish", "recDelete"}
  BY DEF EnsureGet, FoundReady, FoundNotReady, Goto, Inv, TypeOK, WFrame
<1>2. CASE w'.pc = "recDelete"
  <2>1. ~createsExhausted(w.obj)
    BY <1>2 DEF EnsureGet, FoundReady, FoundNotReady, Goto, Inv, TypeOK, WFrame
  <2> QED BY <1>1, <1>2, <2>1 DEF OneLiveInv, AtMostOneLive, RecordedOrNext, FinalizerHeld,
     ObjectCurrent, OnlySuccessor, BeforeAnnotation, EnsurePC, Live, Succ
<1>3. CASE w'.pc # "recDelete"
  BY <1>1, <1>3, WorkerStep
     DEF OneLiveInv, FinalizerHeld, BeforeAnnotation, EnsurePC, Live
<1> QED BY <1>2, <1>3

LEMMA RecreateDeleteOneLive ==
    ASSUME OneLiveInv, Inv, "deleteFail" \notin Hazards, RecreateDelete
    PROVE  OneLiveInv'
<1>1. /\ w.pc = "recDelete" /\ UNCHANGED svc /\ ApiDelete(w.id) /\ w.id \in Attempts
      /\ w'.pc = "create" /\ w'.obj = w.obj
      /\ w'.id = w.obj.count + 1 /\ w'.count = w.obj.count + 1
  BY DEF RecreateDelete, Fault, nextAttempt, Inv, TypeOK, FrameOK, WFrame, Validated, EnsurePC
<1>2. /\ svc.present /\ svc.finalizer /\ w.id = svc.id /\ w.id = w.obj.id /\ w.id # None
      /\ w.obj.count = svc.count
  BY <1>1 DEF OneLiveInv, FinalizerHeld, ObjectCurrent, OnlySuccessor,
              BeforeAnnotation, EnsurePC
<1>3. Succ(svc) = w'.id /\ Succ(w.obj) = w'.id
  BY <1>1, <1>2 DEF Succ
<1>4. \A k \in Attempts : Live(k)' => Live(k) /\ k # w.id
  BY <1>1, DeleteKeeps DEF Inv, TypeOK
<1>5. \A k \in Attempts : Live(k)' => k = w'.id
  BY <1>2, <1>3, <1>4 DEF OneLiveInv, RecordedOrNext
<1>6. AtMostOneLive' /\ RecordedOrNext'
  BY <1>1, <1>3, <1>5 DEF OneLiveInv, AtMostOneLive, RecordedOrNext, Succ
<1>7. FinalizerHeld' /\ ObjectCurrent' /\ OnlySuccessor'
  BY <1>1, <1>2, <1>3, <1>5 DEF FinalizerHeld, ObjectCurrent, OnlySuccessor, Succ
<1> QED BY <1>6, <1>7 DEF OneLiveInv

LEMMA CreateOneLive ==
    ASSUME OneLiveInv, Inv, CreateRPC
    PROVE  OneLiveInv'
<1>1. /\ w.pc = "create" /\ UNCHANGED svc /\ w.id \in Attempts
      /\ w'.obj = w.obj /\ w'.id = w.id /\ w'.count = w.count
      /\ w'.pc \in {"annId", "failed"}
  BY DEF CreateRPC, Goto, Inv, TypeOK, FrameOK, WFrame, Validated, EnsurePC
<1>2. /\ svc.present /\ svc.finalizer /\ w.id = Succ(svc) /\ w.id = Succ(w.obj)
      /\ w.obj.id = svc.id /\ w.obj.count = svc.count
  BY <1>1 DEF OneLiveInv, FinalizerHeld, ObjectCurrent, OnlySuccessor,
              BeforeAnnotation, EnsurePC, Succ
<1>3. \A k \in Attempts : Live(k)' => Live(k) \/ k = w.id
  BY <1>1 DEF CreateRPC, ApiCreate, Live, Inv, TypeOK, LB
<1>4. \A k \in Attempts : Live(k)' => k = w.id
  BY <1>1, <1>3 DEF OneLiveInv, OnlySuccessor
<1>5. AtMostOneLive' /\ RecordedOrNext'
  BY <1>1, <1>2, <1>4 DEF OneLiveInv, AtMostOneLive, RecordedOrNext, Succ
<1>6. FinalizerHeld' /\ ObjectCurrent' /\ OnlySuccessor'
  BY <1>1, <1>2, <1>4 DEF OneLiveInv, FinalizerHeld, ObjectCurrent, OnlySuccessor, Succ
<1> QED BY <1>5, <1>6 DEF OneLiveInv

LEMMA AnnotateIdOneLive ==
    ASSUME OneLiveInv, Inv, AnnotateId
    PROVE  OneLiveInv'
<1>1. CASE w'.pc = "annCount"
  <2>1. /\ w.pc = "annId" /\ UNCHANGED lbs /\ w.id \in Attempts
        /\ w'.obj = w.obj /\ w'.id = w.id /\ w'.count = w.count
        /\ svc'.id = w.id /\ svc'.count = svc.count
        /\ svc'.present = svc.present /\ svc'.finalizer = svc.finalizer
    BY <1>1 DEF AnnotateId, Goto, Inv, TypeOK, FrameOK, WFrame, Service, Validated, EnsurePC
  <2>2. svc.present /\ svc.finalizer /\ w.id # None
    BY <2>1, CountsAreAttempts DEF OneLiveInv, FinalizerHeld, EnsurePC
  <2>3. \A k \in Attempts : Live(k)' => k = w.id
    BY <2>1 DEF OneLiveInv, OnlySuccessor, Live
  <2> QED BY <1>1, <2>1, <2>2, <2>3 DEF OneLiveInv, AtMostOneLive, RecordedOrNext,
             FinalizerHeld, ObjectCurrent, OnlySuccessor, BeforeAnnotation
<1>2. CASE w'.pc # "annCount"
  <2>1. w'.pc = "failed" /\ UNCHANGED <<svc, lbs>>
    BY <1>2 DEF AnnotateId, Goto, Inv, TypeOK, WFrame
  <2> QED BY <2>1, WorkerStep DEF BeforeAnnotation, EnsurePC, Live
<1> QED BY <1>1, <1>2

LEMMA AnnotateCountOneLive ==
    ASSUME OneLiveInv, Inv, AnnotateCount
    PROVE  OneLiveInv'
<1>1. /\ w.pc = "annCount" /\ w'.pc = "annHash" /\ UNCHANGED lbs /\ w.id \in Attempts
      /\ svc'.id = svc.id /\ svc'.present = svc.present /\ svc'.finalizer = svc.finalizer
  BY DEF AnnotateCount, Goto, WriteFails, Inv, TypeOK, FrameOK, WFrame, Service,
         Validated, EnsurePC
<1>2. /\ svc.present /\ svc.finalizer /\ svc.id = w.id /\ w.id # None
      /\ \A k \in Attempts : Live(k)' => k = w.id
  BY <1>1, CountsAreAttempts DEF OneLiveInv, FinalizerHeld, OnlySuccessor, EnsurePC, Live
<1> QED BY <1>1, <1>2 DEF OneLiveInv, AtMostOneLive, RecordedOrNext, FinalizerHeld,
           ObjectCurrent, OnlySuccessor, BeforeAnnotation

(* The steps that create nothing and leave the id and the create count.    *)
LEMMA EnsureTailOneLive ==
    ASSUME OneLiveInv, Inv,
           \/ recordListenerHash \/ PollReady \/ PollGivesUp
           \/ updateKamajiAdvertiseAddress \/ storeInternalIpIfBothMode
    PROVE  OneLiveInv'
<1>1. w.pc \in EnsurePC /\ UNCHANGED lbs
  BY DEF recordListenerHash, PollReady, PollGivesUp, updateKamajiAdvertiseAddress,
         storeInternalIpIfBothMode, EnsurePC
<1>2. /\ svc'.id = svc.id /\ svc'.count = svc.count
      /\ svc'.present = svc.present /\ svc'.finalizer = svc.finalizer
  BY DEF recordListenerHash, PollReady, PollGivesUp, updateKamajiAdvertiseAddress,
         storeInternalIpIfBothMode, Inv, TypeOK, Service
<1>3. w'.pc \in {"poll", "failed", "kamaji", "internalIP", "publish"}
  BY DEF recordListenerHash, PollReady, PollGivesUp, updateKamajiAdvertiseAddress,
         storeInternalIpIfBothMode, Goto, afterPoll, afterKamaji, Inv, TypeOK, WFrame
<1>4. svc.present /\ svc.finalizer
  BY <1>1 DEF OneLiveInv, FinalizerHeld
<1> QED BY <1>1, <1>2, <1>3, <1>4, WorkerStep DEF BeforeAnnotation, Live

LEMMA UpdateOneLive ==
    ASSUME OneLiveInv, Inv, UpdateRPC
    PROVE  OneLiveInv'
<1>1. /\ w.pc = "update" /\ UNCHANGED svc /\ w'.pc \in {"recordHash", "failed"}
      /\ w.id \in Attempts /\ w.want \in Listeners
  BY DEF UpdateRPC, Goto, Inv, TypeOK, FrameOK, WFrame, Validated, EnsurePC
<1>2. \A k \in Attempts : Live(k)' => Live(k)
  BY <1>1, UpdateKeeps DEF UpdateRPC, Inv, TypeOK, Live
<1>3. svc.present /\ svc.finalizer
  BY <1>1 DEF OneLiveInv, FinalizerHeld, EnsurePC
<1> QED BY <1>1, <1>2, <1>3, WorkerStep DEF BeforeAnnotation

LEMMA EnsureStepOneLive ==
    ASSUME OneLiveInv, Inv, "deleteFail" \notin Hazards, EnsureStep
    PROVE  OneLiveInv'
BY CreateOneLive, AnnotateIdOneLive, AnnotateCountOneLive, EnsureGetOneLive,
   RecreateDeleteOneLive, EnsureTailOneLive, UpdateOneLive DEF EnsureStep

LEMMA DeleteStepOneLive ==
    ASSUME OneLiveInv, Inv, DeleteStep
    PROVE  OneLiveInv'
<1>1. UNCHANGED svc /\ w'.pc \in {"failed", "removed", "cleanup", "find", "delete"}
  BY DEF DeleteStep, GetLoadBalancer, EnsureLoadBalancerDeleted, findLoadBalancerByName,
         DeleteRPC, Goto, Inv, TypeOK, WFrame
<1>2. CASE DeleteRPC
  <2>1. w.id \in Attempts
    BY <1>2 DEF DeleteRPC, Inv, FrameOK
  <2>2. \A k \in Attempts : Live(k)' => Live(k)
    BY <1>2, <2>1, DeleteKeeps DEF DeleteRPC, Inv, TypeOK, Live
  <2> QED BY <1>1, <2>2, WorkerStep DEF BeforeAnnotation, EnsurePC
<1>3. CASE ~DeleteRPC
  <2>1. UNCHANGED lbs
    BY <1>3 DEF DeleteStep, GetLoadBalancer, EnsureLoadBalancerDeleted,
                findLoadBalancerByName
  <2> QED BY <1>1, <2>1, WorkerStep DEF BeforeAnnotation, EnsurePC, Live
<1> QED BY <1>2, <1>3

(* The steps of the service controller around the provider's calls.        *)
LEMMA ControllerOneLive ==
    ASSUME OneLiveInv, Inv,
           publishStatus \/ removeFinalizer \/ clearStatus \/ forgetOrphan \/ SyncEnd
    PROVE  OneLiveInv'
<1>1. UNCHANGED lbs /\ w'.pc \in {"done", "failed", "clearStatus", "idle"}
  BY DEF publishStatus, removeFinalizer, clearStatus, forgetOrphan, SyncEnd, Goto,
         WIdle, Inv, TypeOK, WFrame
<1>2. svc'.present => svc.present /\ svc'.id = svc.id /\ svc'.count = svc.count
  BY DEF publishStatus, removeFinalizer, clearStatus, forgetOrphan, SyncEnd, Absent,
         Inv, TypeOK, Service
<1> QED BY <1>1, <1>2, WorkerStep DEF BeforeAnnotation, EnsurePC, Live

LEMMA InitOneLive == ASSUME Init PROVE OneLiveInv
<1>1. \A k \in Attempts : ~Live(k)
  BY DEF Init, LBInit, Live
<1>2. w.pc = "idle" /\ svc.count = 0
  BY DEF Init, WIdle, Fresh, Absent
<1> QED BY <1>1, <1>2 DEF OneLiveInv, AtMostOneLive, RecordedOrNext, FinalizerHeld,
           ObjectCurrent, OnlySuccessor, BeforeAnnotation, EnsurePC

LEMMA NextOneLive ==
    ASSUME OneLiveInv, Inv, [Next]_vars, Hazards \cap {"lag", "deleteFail"} = {}
    PROVE  OneLiveInv'
<1>1. "lag" \notin Hazards /\ "deleteFail" \notin Hazards
  OBVIOUS
<1>2. CASE ServiceWorker
  BY <1>1, <1>2, SyncStartOneLive, AddFinalizerOneLive, EnsureOneLive, EnsureStepOneLive,
     DeleteStepOneLive, ControllerOneLive DEF ServiceWorker
<1>3. CASE \E k \in Attempts : Server(k)
  <2>1. PICK k \in Attempts : Server(k)
    BY <1>3
  <2>2. \A j \in Attempts : Live(j)' => Live(j)
    BY <2>1, ServerKeeps DEF Server, Inv, TypeOK
  <2> QED BY <2>1, <2>2, OtherStep DEF Server
<1>4. CASE InformerDeliver
  BY <1>4, OtherStep DEF InformerDeliver, providerVars, Live
<1>5. CASE UNCHANGED vars
  BY <1>5, OtherStep DEF vars, Live
<1> QED BY <1>1, <1>2, <1>3, <1>4, <1>5, NodeOneLive, EnvironmentOneLive DEF Next

(* A Service never has two live load balancers, with crashes, failed and   *)
(* lost calls, failed writes, retypes, resets and overlapping workers, as  *)
(* long as the lister is current at the start of a sync and the API        *)
(* accepts deletes.  Each of the two breaks it: the recreate path ignores  *)
(* a failed delete, and an out-of-date object carries an old id and count. *)
THEOREM OneLive ==
    ASSUME Hazards \cap {"lag", "deleteFail"} = {}
    PROVE  Spec => []AtMostOneLive
<1>1. Init => OneLiveInv
  BY InitOneLive
<1>2. OneLiveInv /\ Inv /\ [Next]_vars => OneLiveInv'
  BY NextOneLive
<1>3. OneLiveInv => AtMostOneLive
  BY DEF OneLiveInv
<1> QED BY <1>1, <1>2, <1>3, InvHolds, PTL DEF Spec
=============================================================================
