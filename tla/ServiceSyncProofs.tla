-------------------------- MODULE ServiceSyncProofs --------------------------
(***************************************************************************)
(* QuiescentInSync of ServiceController, for every value of the constants. *)
(*                                                                         *)
(* At rest nothing says what the last sync did.  The invariant follows a   *)
(* change from the API server over the lister (cached) to the object of    *)
(* the last sync (scCache), and finds for every difference between two of  *)
(* them, or between the recorded hash and the load balancer, the queue     *)
(* entry, the undelivered event or the program point that will remove it.  *)
(***************************************************************************)
EXTENDS ServiceSafetyProofs

(* Each of these hides a difference for good.                              *)
Hiding == {"createLost", "idWrite", "annWrite", "updateLost", "deleteFail",
           "crash", "lag", "overlap"}

(* A Service that is being deleted has no use for a load balancer.         *)
Alive == svc.present /\ ~svc.deleting

Ensuring == EnsurePC \cup {"addFinalizer", "publish"}
Cleaning == DeletePC \cup {"removed", "clearStatus"}

(* Program points between a change of the load balancer's listeners and    *)
(* the write of their hash.                                                *)
Unrecorded == {"annId", "annCount", "annHash", "recordHash"}

(* Program points at which the load balancer was seen ready.               *)
SeenReady == {"kamaji", "internalIP", "publish"}

-----------------------------------------------------------------------------
(* A worker at a time, on the object of the last sync.                     *)
OneAtATime ==
    /\ w.pc = "idle" \/ n.pc = "idle"
    /\ ~cached.deleting
    /\ w.pc # "idle" => w.obj.present /\ ~w.obj.deleting /\ ~w.orphan
    /\ w.pc \in Ensuring => w.obj = scCache /\ w.obj.wants
    /\ w.pc \in Cleaning => w.obj = scCache /\ ~w.obj.wants
    /\ w.pc = "done" /\ scCache.wants => w.obj = scCache
    /\ n.pc # "idle" => n.obj = scCache
    /\ n.pc \in {"get", "update", "recordHash"} => configChanged(scCache, n.want)

(* A difference between lister and last sync is queued.                    *)
ListerAgrees ==
    cached.present /\ cached.wants /\ ~queued =>
        scCache.wants /\ ~needsUpdate(scCache, cached)

(* A difference between the nodes and those of the last sync is queued, or *)
(* a sync will see them.                                                   *)
NodesAgree ==
    scCache.wants => \/ lastSynced = nodes \/ nodeQueued \/ queued
                     \/ w.pc \in {"addFinalizer", "ensure", "failed"}

(* The object at hand has the current hash and status.                     *)
ObjectKept ==
    /\ w.pc \in BeforeAnnotation \cup {"update"} => svc.hash = w.obj.hash
    /\ w.pc \in Ensuring => svc.status = w.obj.status
    /\ w.pc \in Validated \cup {"publish"} =>
           w.want = buildListeners(w.obj, lastSynced)

(* What is alive is recorded, or its id is about to be.                    *)
OnlyRecorded ==
    /\ IF w.pc = "annId" THEN OnlyLive(w.id) ELSE OnlyLive(svc.id)
    /\ w.pc = "create" => NoneLive

(* The hash is that of the load balancer's listeners, or about to be.      *)
HashHolds ==
    /\ w.pc = "annId" /\ Live(w.id) => lbs[w.id].cfg = w.want
    /\ w.pc \in Unrecorded \ {"annId"} /\ svc.id # None /\ Live(svc.id) =>
           lbs[svc.id].cfg = w.want
    /\ n.pc = "recordHash" /\ svc.id # None /\ Live(svc.id) => lbs[svc.id].cfg = n.want
    /\ w.pc \notin Unrecorded /\ n.pc # "recordHash" /\ svc.id # None /\ Live(svc.id) =>
           svc.hash = listenersHashStr(lbs[svc.id].cfg)

(* A Service whose id was reset is told from a new one by its hash; the    *)
(* key of its first creation is used up.                                   *)
FirstUsed ==
    /\ svc.id # None \/ w.pc \in Unrecorded \/ n.pc = "recordHash" => Created(0)
    /\ \A s \in {svc, scCache} :
           s.id = None /\ s.hash # None => Created(0) /\ ~Live(0)
    /\ w.pc \in Validated \cup {"publish"} /\ w.obj.id = None => w.id = 0

(* A sync that succeeds leaves a load balancer that is ready and has the   *)
(* listeners it asked for.                                                 *)
Succeeding ==
    /\ w.pc \in SeenReady \cup {"poll"} =>
           svc.hash = listenersHashStr(w.want) /\ svc.hash # None
    /\ w.pc \in SeenReady => Ready(w.id)
    /\ w.pc = "done" /\ scCache.wants /\ ~shouldSkipService(scCache) =>
           /\ svc.id # None /\ Ready(svc.id) /\ svc.status = svc.id /\ svc.hash # None
           /\ svc.hash = listenersHashStr(buildListeners(scCache, lastSynced))
           /\ scCache.id = None => scCache.hash = None

(* What is left of that while nothing is queued: a change of the id or the *)
(* hash since then shows in the lister.                                    *)
Resting ==
    w.pc = "idle" /\ ~queued /\ cached.present /\ cached.wants /\ ~shouldSkipService(cached) =>
        /\ svc.id # None =>
              /\ svc.status = svc.id /\ Live(svc.id) /\ svc.hash # None
              /\ cached.id = None => cached.hash = None
        /\ svc.id = None => cached.id # None \/ cached.hash # svc.hash
        /\ n.pc = "idle" /\ svc.id = cached.id /\ svc.hash = cached.hash =>
              svc.hash = listenersHashStr(buildListeners(cached, lastSynced))

Ahead == /\ OneAtATime /\ ListerAgrees /\ NodesAgree /\ ObjectKept /\ OnlyRecorded
         /\ HashHolds /\ FirstUsed /\ Succeeding /\ Resting

SyncInv == Alive => Ahead
-----------------------------------------------------------------------------
(* Values.                                                                 *)

LEMMA HashTells ==
    /\ \A l, m : listenersHashStr(l) = listenersHashStr(m) => l = m
    /\ \A l \in Listeners : listenersHashStr(l) # None
BY NoneIsNoHash DEF listenersHashStr, Hash

LEMMA NotHiding ==
    ASSUME Hazards \cap Hiding = {}
    PROVE  /\ "createLost" \notin Hazards /\ "idWrite" \notin Hazards
           /\ "annWrite" \notin Hazards /\ "updateLost" \notin Hazards
           /\ "deleteFail" \notin Hazards /\ "crash" \notin Hazards
           /\ "lag" \notin Hazards /\ "overlap" \notin Hazards
BY DEF Hiding

LEMMA Ids ==
    ASSUME Inv
    PROVE  /\ 0 \in Attempts /\ None \notin Attempts
           /\ svc.id \in Attempts \cup {None} /\ w.id \in Attempts \cup {None}
           /\ w.obj.id \in Attempts \cup {None}
           /\ w.pc \in Validated \cup {"publish"} => w.id \in Attempts
           /\ w.pc \in Validated => w.want \in Listeners
BY CountsAreAttempts DEF Inv, TypeOK, FrameOK, WFrame, Service, LBId, Validated

(* A step that changes no listeners and no load balancer's life.           *)
KeepsRows ==
    \A k \in Attempts : /\ (Live(k)' <=> Live(k)) /\ (Created(k)' <=> Created(k))
                        /\ lbs'[k].cfg = lbs[k].cfg /\ (Ready(k) => Ready(k)')

LEMMA UnchangedRows == ASSUME UNCHANGED lbs PROVE KeepsRows
BY DEF KeepsRows, Live, Created, Ready

LEMMA ServerRows ==
    ASSUME Inv, NEW k \in Attempts, ServerStep(k)
    PROVE  KeepsRows
<1> USE DEF KeepsRows, Live, Created, Ready, LB, Inv, TypeOK
<1>1. CASE Provisioned(k)
  <2>1. PICK o \in {"ready", "failed"} : lbs' = [lbs EXCEPT ![k].state = o]
    BY <1>1 DEF Provisioned
  <2> QED BY <1>1, <2>1 DEF Provisioned
<1>2. CASE FipActivated(k)
  BY <1>2 DEF FipActivated
<1>3. CASE Deleted(k)
  BY <1>3 DEF Deleted
<1>4. CASE Purged(k)
  BY <1>4 DEF Purged
<1> QED BY <1>1, <1>2, <1>3, <1>4 DEF ServerStep

-----------------------------------------------------------------------------
(* Steps of the service worker between its start and its end.              *)

(* What such a step leaves alone, but for ensureLoadBalancer and           *)
(* clearStatus.                                                            *)
Within ==
    /\ UNCHANGED <<n, nodes, queued, nodeQueued, cached, scCache, lastSynced>>
    /\ w'.obj = w.obj /\ w'.orphan = w.orphan
    /\ w.pc \notin {"idle", "ensure", "done", "failed"}
    /\ w'.pc \notin {"idle", "addFinalizer"}
    /\ w'.pc \in Ensuring => w.pc \in Ensuring
    /\ w'.pc \in Cleaning => w.pc \in Cleaning
    /\ w.pc = "addFinalizer" => w'.pc \in {"ensure", "failed"}

LEMMA WithinAhead ==
    ASSUME Inv, Ahead, Within
    PROVE  /\ OneAtATime' /\ ListerAgrees' /\ NodesAgree' /\ Resting'
           /\ n.pc = "idle" /\ n'.pc = "idle"
<1> USE DEF Within
<1>1. n.pc = "idle" /\ n'.pc = "idle" /\ w.pc \in Ensuring \cup Cleaning
  BY DEF Ahead, OneAtATime, Inv, TypeOK, WFrame, Ensuring, Cleaning, ControllerPC
<1>2. OneAtATime'
  BY <1>1 DEF Ahead, OneAtATime, Ensuring, Cleaning, EnsurePC, DeletePC
<1>3. ListerAgrees' /\ NodesAgree' /\ Resting'
  BY DEF Ahead, ListerAgrees, NodesAgree, Resting, needsUpdate
<1> QED BY <1>1, <1>2, <1>3

(* A step of a cleanup, or one that ends in an error: the rest of the      *)
(* invariant does not speak of where it leads.                             *)
LEMMA AsideAhead ==
    ASSUME Inv, Ahead, Within, w'.pc \in Cleaning \cup {"failed"},
           w.pc \notin Unrecorded,
           svc'.id = svc.id, svc'.hash = svc.hash,
           \A k \in Attempts : /\ (Live(k)' => Live(k)) /\ (Created(k)' <=> Created(k))
                               /\ (Live(k)' => lbs'[k].cfg = lbs[k].cfg)
    PROVE  Ahead'
<1>0. /\ 0 \in Attempts /\ svc.id \in Attempts \cup {None}
      /\ w'.pc \notin Ensuring \cup {"done", "idle"} /\ w'.pc # "publish"
  BY Ids DEF Ensuring, Cleaning, EnsurePC, DeletePC
<1>1. w'.pc \notin BeforeAnnotation \cup {"update"} \cup Validated \cup Unrecorded \cup SeenReady
  BY <1>0 DEF Ensuring, BeforeAnnotation, Validated, EnsurePC, Unrecorded, SeenReady
<1>2. ObjectKept'
  BY <1>0, <1>1 DEF ObjectKept
<1>3. OnlyRecorded'
  BY <1>1 DEF Ahead, OnlyRecorded, OnlyLive, Unrecorded, BeforeAnnotation
<1>4. HashHolds'
  BY <1>0, <1>1, WithinAhead DEF Ahead, HashHolds, Within, Unrecorded
<1>5. FirstUsed'
  BY <1>0, <1>1, WithinAhead DEF Ahead, FirstUsed, Within
<1>6. Succeeding'
  BY <1>0, <1>1 DEF Succeeding, SeenReady, Ensuring, EnsurePC
<1> QED BY <1>2, <1>3, <1>4, <1>5, <1>6, WithinAhead DEF Ahead

LEMMA DeleteRows ==
    ASSUME Inv, NEW k \in Attempts, ApiDelete(k)
    PROVE  /\ \A j \in Attempts : /\ (Live(j)' => Live(j)) /\ (Created(j)' <=> Created(j))
                                  /\ lbs'[j].cfg = lbs[j].cfg
           /\ ~Live(k)'
<1> USE DEF Inv, TypeOK
<1>1. CASE Live(k)
  <2>1. lbs' = [lbs EXCEPT ![k].state = "deleting"]
    BY <1>1 DEF ApiDelete
  <2> QED BY <1>1, <2>1 DEF Created, Live, LB
<1>2. CASE ~Live(k)
  BY <1>2 DEF ApiDelete, Created, Live
<1> QED BY <1>1, <1>2

LEMMA UpdateRows ==
    ASSUME Inv, NEW k \in Attempts, NEW l \in Listeners, Live(k), ApiUpdate(k, l)
    PROVE  /\ \A j \in Attempts : /\ (Live(j)' <=> Live(j)) /\ (Created(j)' <=> Created(j))
                                  /\ j # k => lbs'[j].cfg = lbs[j].cfg
           /\ lbs'[k].cfg = l
BY DEF ApiUpdate, Created, Live, LB, Inv, TypeOK

LEMMA AddFinalizerAhead ==
    ASSUME Inv, Ahead, addFinalizer
    PROVE  Ahead'
<1>1. /\ w.pc = "addFinalizer" /\ w'.pc \in {"ensure", "failed"} /\ w'.obj = w.obj
      /\ w'.orphan = w.orphan /\ UNCHANGED <<n, nodes, controllerVars, lbs>>
      /\ svc'.id = svc.id /\ svc'.hash = svc.hash /\ svc'.status = svc.status
  BY DEF addFinalizer, Goto, Inv, TypeOK, WFrame, Service
<1>2. Within
  BY <1>1 DEF Within, Ensuring, Cleaning, DeletePC, controllerVars
<1>3. KeepsRows
  BY <1>1, UnchangedRows
<1>4. CASE w'.pc = "failed"
  BY <1>1, <1>2, <1>3, <1>4, AsideAhead DEF Unrecorded, KeepsRows
<1>5. CASE w'.pc = "ensure"
  <2> USE Ids, <1>1, <1>2, <1>3, <1>5, WithinAhead DEF KeepsRows, Within
  <2>1. ObjectKept'
    BY DEF Ahead, ObjectKept, BeforeAnnotation, Ensuring, EnsurePC, Validated
  <2>2. OnlyRecorded'
    BY DEF Ahead, OnlyRecorded, OnlyLive
  <2>3. HashHolds'
    BY DEF Ahead, HashHolds, Unrecorded
  <2>4. FirstUsed'
    BY DEF Ahead, FirstUsed, Unrecorded, Validated
  <2>5. Succeeding'
    BY DEF Succeeding, SeenReady
  <2> QED BY <2>1, <2>2, <2>3, <2>4, <2>5 DEF Ahead
<1> QED BY <1>1, <1>4, <1>5

LEMMA EnsureAhead ==
    ASSUME Inv, Alive, OneLiveInv, Ahead, ensureLoadBalancer
    PROVE  Ahead'
<1>1. /\ w.pc = "ensure" /\ w'.obj = w.obj /\ w'.orphan = w.orphan
      /\ UNCHANGED <<n, nodes, queued, nodeQueued, cached, scCache, lbs, svc>>
      /\ lastSynced' = nodes
      /\ \/ w'.pc = "done" /\ shouldSkipService(w.obj)
         \/ w'.pc = "failed"
         \/ w'.pc = "create" /\ w.obj.id = None /\ w'.id = w.obj.count
            /\ w'.want = buildListeners(w.obj, nodes)
         \/ w'.pc = "get" /\ w.obj.id # None /\ w'.want = buildListeners(w.obj, nodes)
  BY DEF ensureLoadBalancer, EnsureLoadBalancer, firstAttempt, Inv, TypeOK, WFrame, Goto
<1>2. n.pc = "idle" /\ w.obj = scCache /\ w.obj.wants
  BY <1>1 DEF Ahead, OneAtATime, Ensuring, EnsurePC
<1>3. KeepsRows
  BY <1>1, UnchangedRows
<1>4. w'.pc = "create" => svc.id = None /\ w'.id = 0
  BY <1>1 DEF OneLiveInv, ObjectCurrent, RecordedOrNext, Alive, BeforeAnnotation
<1> USE Ids, <1>1, <1>2, <1>3
<1>5. OneAtATime' /\ ListerAgrees' /\ NodesAgree' /\ Resting'
  <2>1. OneAtATime'
    BY DEF Ahead, OneAtATime, Ensuring, Cleaning, EnsurePC, DeletePC
  <2>2. ListerAgrees' /\ NodesAgree' /\ Resting'
    BY DEF Ahead, ListerAgrees, NodesAgree, Resting, needsUpdate
  <2> QED BY <2>1, <2>2
<1>6. ObjectKept'
  BY DEF Ahead, ObjectKept, BeforeAnnotation, Ensuring, EnsurePC, Validated, buildListeners
<1>7. OnlyRecorded'
  BY <1>4 DEF Ahead, OnlyRecorded, OnlyLive, NoneLive, KeepsRows
<1>8. HashHolds'
  BY DEF Ahead, HashHolds, Unrecorded, KeepsRows
<1>9. FirstUsed'
  BY <1>4 DEF Ahead, FirstUsed, Unrecorded, Validated, EnsurePC, KeepsRows
<1>10. Succeeding'
  BY DEF Succeeding, SeenReady, shouldSkipService
<1> QED BY <1>5, <1>6, <1>7, <1>8, <1>9, <1>10 DEF Ahead

LEMMA CreateAhead ==
    ASSUME Inv, Alive, OneLiveInv, Ahead, CreateRPC, UNCHANGED controllerVars,
           "createLost" \notin Hazards
    PROVE  Ahead'
<1>1. /\ w.pc = "create" /\ w'.obj = w.obj /\ w'.orphan = w.orphan
      /\ w'.id = w.id /\ w'.want = w.want /\ UNCHANGED <<n, nodes, svc>>
      /\ \/ w'.pc = "annId" /\ ApiCreate(w.id, w.want)
         \/ w'.pc = "failed" /\ UNCHANGED lbs
  BY DEF CreateRPC, Fault, Inv, TypeOK, WFrame, Goto
<1>2. Within
  BY <1>1 DEF Within, Ensuring, Cleaning, EnsurePC, DeletePC, controllerVars
<1>3. CASE w'.pc = "failed" /\ UNCHANGED lbs
  <2>1. KeepsRows
    BY <1>3, UnchangedRows
  <2> QED BY <1>1, <1>2, <1>3, <2>1, AsideAhead DEF Unrecorded, KeepsRows
<1>4. CASE w'.pc = "annId" /\ ApiCreate(w.id, w.want)
  <2>1. w.id \in Attempts /\ NoneLive
    BY <1>1, Ids DEF Ahead, OnlyRecorded, Validated, EnsurePC
  <2>2. /\ \A k \in Attempts : /\ Live(k)' => k = w.id /\ lbs'[k].cfg = w.want
                               /\ Created(k)' <=> Created(k) \/ k = w.id
        /\ Created(w.id) => UNCHANGED lbs
    BY <1>4, <2>1 DEF ApiCreate, Created, Live, NoneLive, Inv, TypeOK
  <2>3. w.obj.id = svc.id
    BY <1>1 DEF OneLiveInv, ObjectCurrent, Alive, BeforeAnnotation
  <2> USE Ids, <1>1, <1>2, <1>4, WithinAhead DEF Within
  <2>4. ObjectKept'
    BY DEF Ahead, ObjectKept, BeforeAnnotation, Ensuring, EnsurePC, Validated
  <2>5. OnlyRecorded' /\ HashHolds'
    BY <2>1, <2>2 DEF OnlyRecorded, OnlyLive, HashHolds, Unrecorded
  <2>6. Created(0)'
    BY <2>2, <2>3 DEF Ahead, FirstUsed, Validated, EnsurePC
  <2>7. ~Live(0) /\ Created(0) => ~Live(0)'
    BY <2>2 DEF Live, Created
  <2>8. FirstUsed'
    BY <2>6, <2>7 DEF Ahead, FirstUsed, Validated, EnsurePC
  <2>9. Succeeding'
    BY DEF Succeeding, SeenReady
  <2> QED BY <2>4, <2>5, <2>8, <2>9 DEF Ahead
<1> QED BY <1>1, <1>3, <1>4
LEMMA AnnotateIdAhead ==
    ASSUME Inv, Alive, Ahead, AnnotateId, UNCHANGED controllerVars,
           "idWrite" \notin Hazards
    PROVE  Ahead'
<1>1. /\ w.pc = "annId" /\ w'.pc = "annCount" /\ w'.obj = w.obj /\ w'.orphan = w.orphan
      /\ w'.id = w.id /\ w'.want = w.want /\ UNCHANGED <<n, nodes, lbs>>
      /\ svc'.id = w.id /\ svc'.hash = svc.hash /\ svc'.status = svc.status
  BY DEF AnnotateId, WriteFails, Fault, Alive, Inv, TypeOK, WFrame, Service, Goto
<1>2. Within
  BY <1>1 DEF Within, Ensuring, Cleaning, EnsurePC, DeletePC, controllerVars
<1>3. w.id \in Attempts
  BY <1>1, Ids DEF Validated, EnsurePC
<1> USE Ids, <1>1, <1>2, <1>3, UnchangedRows, WithinAhead DEF KeepsRows, Within
<1>4. ObjectKept'
  BY DEF Ahead, ObjectKept, BeforeAnnotation, Ensuring, EnsurePC, Validated, buildListeners
<1>5. OnlyRecorded' /\ HashHolds'
  BY DEF Ahead, OnlyRecorded, OnlyLive, HashHolds, Unrecorded
<1>6. FirstUsed'
  BY DEF Ahead, FirstUsed, Unrecorded, Validated, EnsurePC
<1>7. Succeeding'
  BY DEF Succeeding, SeenReady
<1> QED BY <1>4, <1>5, <1>6, <1>7 DEF Ahead

LEMMA AnnotateCountAhead ==
    ASSUME Inv, Alive, Ahead, AnnotateCount, UNCHANGED controllerVars
    PROVE  Ahead'
<1>1. /\ w.pc = "annCount" /\ w'.pc = "annHash" /\ w'.obj = w.obj /\ w'.orphan = w.orphan
      /\ w'.id = w.id /\ w'.want = w.want /\ UNCHANGED <<n, nodes, lbs>>
      /\ svc'.id = svc.id /\ svc'.hash = svc.hash /\ svc'.status = svc.status
  BY DEF AnnotateCount, Inv, TypeOK, WFrame, Service, Goto
<1>2. Within
  BY <1>1 DEF Within, Ensuring, Cleaning, EnsurePC, DeletePC, controllerVars
<1> USE Ids, <1>1, <1>2, UnchangedRows, WithinAhead DEF KeepsRows, Within
<1>3. ObjectKept'
  BY DEF Ahead, ObjectKept, BeforeAnnotation, Ensuring, EnsurePC, Validated, buildListeners
<1>4. OnlyRecorded' /\ HashHolds'
  BY DEF Ahead, OnlyRecorded, OnlyLive, HashHolds, Unrecorded
<1>5. FirstUsed'
  BY DEF Ahead, FirstUsed, Unrecorded, Validated, EnsurePC
<1>6. Succeeding'
  BY DEF Succeeding, SeenReady
<1> QED BY <1>3, <1>4, <1>5, <1>6 DEF Ahead

LEMMA RecordHashAhead ==
    ASSUME Inv, Alive, Ahead, recordListenerHash, UNCHANGED controllerVars,
           "annWrite" \notin Hazards
    PROVE  Ahead'
<1>1. /\ w.pc \in {"annHash", "recordHash"} /\ w'.pc = "poll" /\ w'.obj = w.obj
      /\ w'.orphan = w.orphan
      /\ w'.id = w.id /\ w'.want = w.want /\ UNCHANGED <<n, nodes, lbs>>
      /\ svc'.id = svc.id /\ svc'.hash = listenersHashStr(w.want) /\ svc'.status = svc.status
  BY DEF recordListenerHash, WriteFails, Fault, Alive, Inv, TypeOK, WFrame, Service, Goto
<1>2. Within
  BY <1>1 DEF Within, Ensuring, Cleaning, EnsurePC, DeletePC, controllerVars
<1> USE Ids, <1>1, <1>2, UnchangedRows, WithinAhead DEF KeepsRows, Within
<1>3. ObjectKept'
  BY DEF Ahead, ObjectKept, BeforeAnnotation, Ensuring, EnsurePC, Validated, buildListeners
<1>4. OnlyRecorded' /\ HashHolds'
  BY DEF Ahead, OnlyRecorded, OnlyLive, HashHolds, Unrecorded
<1>5. Created(0) /\ (svc.id = None => ~Live(0))
  BY DEF Ahead, FirstUsed, OnlyRecorded, OnlyLive, Unrecorded
<1>6. FirstUsed'
  BY <1>5 DEF Ahead, FirstUsed, Unrecorded, Validated, EnsurePC
<1>7. Succeeding'
  BY HashTells DEF Succeeding, SeenReady, Validated, EnsurePC
<1> QED BY <1>3, <1>4, <1>6, <1>7 DEF Ahead

LEMMA EnsureGetAhead ==
    ASSUME Inv, Ahead, EnsureGet, UNCHANGED controllerVars
    PROVE  Ahead'
<1>1. /\ w.pc = "get" /\ w'.obj = w.obj /\ w'.orphan = w.orphan
      /\ w'.id = w.id /\ w'.want = w.want /\ UNCHANGED <<n, nodes, lbs, svc>>
      /\ \/ w'.pc \in {"failed", "recDelete", "update"}
         \/ w'.pc \in {"poll", "publish"} /\ Ready(w.id) /\ ~configChanged(w.obj, w.want)
  BY DEF EnsureGet, FoundReady, FoundNotReady, Inv, TypeOK, WFrame, Goto
<1>2. Within
  BY <1>1 DEF Within, Ensuring, Cleaning, EnsurePC, DeletePC, controllerVars
<1>3. CASE w'.pc = "failed"
  BY <1>1, <1>2, <1>3, UnchangedRows, AsideAhead DEF Unrecorded, KeepsRows
<1>4. CASE w'.pc # "failed"
  <2> USE Ids, <1>1, <1>2, <1>4, UnchangedRows, WithinAhead DEF KeepsRows, Within
  <2>1. ObjectKept'
    BY DEF Ahead, ObjectKept, BeforeAnnotation, Ensuring, EnsurePC, Validated, buildListeners
  <2>2. OnlyRecorded' /\ HashHolds'
    BY DEF Ahead, OnlyRecorded, OnlyLive, HashHolds, Unrecorded
  <2>3. FirstUsed'
    BY DEF Ahead, FirstUsed, Unrecorded, Validated, EnsurePC
  <2>4. Succeeding'
    BY HashTells DEF Ahead, ObjectKept, Succeeding, SeenReady, BeforeAnnotation, configChanged,
           Validated, EnsurePC
  <2> QED BY <2>1, <2>2, <2>3, <2>4 DEF Ahead
<1> QED BY <1>3, <1>4

LEMMA RecreateDeleteAhead ==
    ASSUME Inv, Alive, OneLiveInv, Ahead, RecreateDelete, UNCHANGED controllerVars,
           "deleteFail" \notin Hazards
    PROVE  Ahead'
<1>1. /\ w.pc = "recDelete" /\ w'.pc = "create" /\ w'.obj = w.obj /\ w'.orphan = w.orphan
      /\ w'.want = w.want /\ UNCHANGED <<n, nodes, svc>> /\ ApiDelete(w.id)
  BY DEF RecreateDelete, Fault, Inv, TypeOK, WFrame
<1>2. Within
  BY <1>1 DEF Within, Ensuring, Cleaning, EnsurePC, DeletePC, controllerVars
<1>3. w.id = svc.id /\ w.obj.id = svc.id /\ w.id \in Attempts
  BY <1>1, Ids DEF OneLiveInv, ObjectCurrent, OnlySuccessor, Alive, BeforeAnnotation,
                   Validated, EnsurePC
<1>4. NoneLive'
  BY <1>1, <1>3, DeleteRows DEF Ahead, OnlyRecorded, OnlyLive, NoneLive
<1> USE Ids, <1>1, <1>2, <1>3, <1>4, DeleteRows, WithinAhead DEF Within
<1>5. ObjectKept'
  BY DEF Ahead, ObjectKept, BeforeAnnotation, Ensuring, EnsurePC, Validated, buildListeners
<1>6. OnlyRecorded' /\ HashHolds'
  BY DEF OnlyRecorded, OnlyLive, NoneLive, HashHolds, Unrecorded
<1>7. FirstUsed'
  BY DEF Ahead, FirstUsed, Unrecorded, Validated, EnsurePC
<1>8. Succeeding'
  BY DEF Succeeding, SeenReady
<1> QED BY <1>5, <1>6, <1>7, <1>8 DEF Ahead

LEMMA UpdateAhead ==
    ASSUME Inv, Alive, Ahead, UpdateRPC, UNCHANGED controllerVars,
           "updateLost" \notin Hazards
    PROVE  Ahead'
<1>1. /\ w.pc = "update" /\ w'.obj = w.obj /\ w'.orphan = w.orphan
      /\ w'.id = w.id /\ w'.want = w.want /\ UNCHANGED <<n, nodes, svc>>
      /\ \/ w'.pc = "recordHash" /\ Live(w.id) /\ ApiUpdate(w.id, w.want)
         \/ w'.pc = "failed" /\ UNCHANGED lbs
  BY DEF UpdateRPC, Fault, Inv, TypeOK, WFrame, Goto
<1>2. Within
  BY <1>1 DEF Within, Ensuring, Cleaning, EnsurePC, DeletePC, controllerVars
<1>3. CASE w'.pc = "failed" /\ UNCHANGED lbs
  BY <1>1, <1>2, <1>3, UnchangedRows, AsideAhead DEF Unrecorded, KeepsRows
<1>4. CASE w'.pc = "recordHash" /\ Live(w.id) /\ ApiUpdate(w.id, w.want)
  <2>1. w.id = svc.id /\ w.id \in Attempts /\ w.want \in Listeners
    BY <1>1, <1>4, Ids DEF Ahead, OnlyRecorded, OnlyLive, Validated, EnsurePC
  <2> USE Ids, <1>1, <1>2, <1>4, <2>1, UpdateRows, WithinAhead DEF Within
  <2>2. ObjectKept'
    BY DEF Ahead, ObjectKept, BeforeAnnotation, Ensuring, EnsurePC, Validated, buildListeners
  <2>3. OnlyRecorded' /\ HashHolds'
    BY DEF Ahead, OnlyRecorded, OnlyLive, HashHolds, Unrecorded
  <2>4. FirstUsed'
    BY DEF Ahead, FirstUsed, Unrecorded, Validated, EnsurePC
  <2>5. Succeeding'
    BY DEF Succeeding, SeenReady
  <2> QED BY <2>2, <2>3, <2>4, <2>5 DEF Ahead
<1> QED BY <1>1, <1>3, <1>4
(* After a successful poll: nothing but the internal address is written.   *)
LEMMA SeenReadyAhead ==
    ASSUME Inv, Ahead, Within, w.pc \in {"poll", "kamaji", "internalIP"},
           w'.pc \in SeenReady, w'.id = w.id, w'.want = w.want, Ready(w.id),
           svc'.id = svc.id, svc'.hash = svc.hash, svc'.status = svc.status, UNCHANGED lbs
    PROVE  Ahead'
<1> USE Ids, UnchangedRows, WithinAhead DEF KeepsRows, Within
<1>1. ObjectKept'
  BY DEF Ahead, ObjectKept, BeforeAnnotation, Ensuring, EnsurePC, Validated, buildListeners,
         SeenReady
<1>2. OnlyRecorded' /\ HashHolds'
  BY DEF Ahead, OnlyRecorded, OnlyLive, HashHolds, Unrecorded, SeenReady
<1>3. FirstUsed'
  BY DEF Ahead, FirstUsed, Unrecorded, Validated, EnsurePC, SeenReady
<1>4. Succeeding'
  BY DEF Ahead, Succeeding, SeenReady, Ready
<1> QED BY <1>1, <1>2, <1>3, <1>4 DEF Ahead

LEMMA PollAhead ==
    ASSUME Inv, Ahead, PollReady \/ PollGivesUp, UNCHANGED controllerVars
    PROVE  Ahead'
<1>1. /\ w.pc = "poll" /\ w'.obj = w.obj /\ w'.orphan = w.orphan
      /\ w'.id = w.id /\ w'.want = w.want /\ UNCHANGED <<n, nodes, lbs, svc>>
      /\ w'.pc = "failed" \/ (w'.pc \in SeenReady /\ Ready(w.id))
  BY DEF PollReady, PollGivesUp, afterPoll, afterKamaji, SeenReady, Inv, TypeOK, WFrame, Goto
<1>2. Within
  BY <1>1 DEF Within, Ensuring, Cleaning, EnsurePC, DeletePC, controllerVars, SeenReady
<1>3. CASE w'.pc = "failed"
  BY <1>1, <1>2, <1>3, UnchangedRows, AsideAhead DEF Unrecorded, KeepsRows
<1> QED BY <1>1, <1>2, <1>3, SeenReadyAhead

LEMMA KamajiAhead ==
    ASSUME Inv, Ahead, UNCHANGED controllerVars,
           updateKamajiAdvertiseAddress \/ storeInternalIpIfBothMode
    PROVE  Ahead'
<1>1. /\ w.pc \in {"kamaji", "internalIP"} /\ w'.obj = w.obj /\ w'.orphan = w.orphan
      /\ w'.id = w.id /\ w'.want = w.want /\ UNCHANGED <<n, nodes, lbs>>
      /\ w'.pc \in SeenReady
      /\ svc'.id = svc.id /\ svc'.hash = svc.hash /\ svc'.status = svc.status
  <2>1. CASE updateKamajiAdvertiseAddress
    BY <2>1 DEF updateKamajiAdvertiseAddress, afterKamaji, SeenReady, Inv, TypeOK, WFrame, Goto
  <2>2. CASE storeInternalIpIfBothMode
    BY <2>2 DEF storeInternalIpIfBothMode, SeenReady, Inv, TypeOK, WFrame, Service, Goto
  <2> QED BY <2>1, <2>2
<1>2. Within
  BY <1>1 DEF Within, Ensuring, Cleaning, EnsurePC, DeletePC, controllerVars, SeenReady
<1>3. Ready(w.id)
  BY <1>1 DEF Ahead, Succeeding, SeenReady
<1> QED BY <1>1, <1>2, <1>3, SeenReadyAhead

LEMMA PublishAhead ==
    ASSUME Inv, Alive, Ahead, publishStatus
    PROVE  Ahead'
<1>1. /\ w.pc = "publish" /\ w'.obj = w.obj /\ w'.orphan = w.orphan
      /\ w'.id = w.id /\ UNCHANGED <<n, nodes, lbs, controllerVars>>
      /\ svc'.id = svc.id /\ svc'.hash = svc.hash
      /\ \/ w'.pc = "failed"
         \/ w'.pc = "done" /\ (svc'.status = w.id \/ (w.obj.status = w.id /\ svc' = svc))
  BY DEF publishStatus, Alive, Inv, TypeOK, WFrame, Service, Goto
<1>2. Within
  BY <1>1 DEF Within, Ensuring, Cleaning, EnsurePC, DeletePC, controllerVars
<1>3. CASE w'.pc = "failed"
  BY <1>1, <1>2, <1>3, UnchangedRows, AsideAhead DEF Unrecorded, KeepsRows
<1>4. CASE w'.pc = "done"
  <2>1. w.obj = scCache /\ svc'.status = w.id
    BY <1>1, <1>4 DEF Ahead, OneAtATime, ObjectKept, Ensuring
  <2>2. w.id \in Attempts /\ Ready(w.id) /\ Live(w.id) /\ w.id = svc.id
    BY <1>1, Ids DEF Ahead, Succeeding, SeenReady, OnlyRecorded, OnlyLive, Ready, Live
  <2>3. scCache.id = None => scCache.hash = None
    BY <1>1, <2>1, <2>2 DEF Ahead, FirstUsed
  <2> USE Ids, <1>1, <1>2, <1>4, <2>1, <2>2, UnchangedRows, WithinAhead DEF KeepsRows, Within
  <2>4. ObjectKept'
    BY DEF ObjectKept, BeforeAnnotation, Ensuring, EnsurePC, Validated
  <2>5. OnlyRecorded' /\ HashHolds'
    BY DEF Ahead, OnlyRecorded, OnlyLive, HashHolds, Unrecorded
  <2>6. FirstUsed'
    BY DEF Ahead, FirstUsed, Unrecorded, Validated, EnsurePC
  <2>7. Succeeding'
    BY <2>3 DEF Ahead, ObjectKept, Succeeding, SeenReady, buildListeners
  <2> QED BY <2>4, <2>5, <2>6, <2>7 DEF Ahead
<1> QED BY <1>1, <1>3, <1>4

LEMMA DeleteStepAhead ==
    ASSUME Inv, Ahead, DeleteStep, UNCHANGED controllerVars
    PROVE  Ahead'
<1>1. /\ w.pc \in DeletePC /\ w'.obj = w.obj /\ w'.orphan = w.orphan
      /\ UNCHANGED <<n, nodes, svc>> /\ w'.pc \in Cleaning \cup {"failed"}
      /\ UNCHANGED lbs \/ (w.id \in Attempts /\ ApiDelete(w.id))
  <2> USE DEF Cleaning, DeletePC, Inv, TypeOK, WFrame, Goto
  <2>1. CASE GetLoadBalancer
    BY <2>1 DEF GetLoadBalancer
  <2>2. CASE EnsureLoadBalancerDeleted
    BY <2>2 DEF EnsureLoadBalancerDeleted
  <2>3. CASE findLoadBalancerByName
    BY <2>3 DEF findLoadBalancerByName
  <2>4. CASE DeleteRPC
    BY <2>4 DEF DeleteRPC, FrameOK
  <2> QED BY <2>1, <2>2, <2>3, <2>4 DEF DeleteStep
<1>2. Within
  BY <1>1 DEF Within, Ensuring, Cleaning, EnsurePC, DeletePC, controllerVars
<1>3. \A k \in Attempts : /\ (Live(k)' => Live(k)) /\ (Created(k)' <=> Created(k))
                          /\ (Live(k)' => lbs'[k].cfg = lbs[k].cfg)
  BY <1>1, UnchangedRows, DeleteRows DEF KeepsRows
<1> QED BY <1>1, <1>2, <1>3, AsideAhead DEF Unrecorded, DeletePC

LEMMA RemoveFinalizerAhead ==
    ASSUME Inv, Alive, Ahead, removeFinalizer
    PROVE  Ahead'
<1>1. /\ w.pc = "removed" /\ w'.obj = w.obj /\ w'.orphan = w.orphan
      /\ UNCHANGED <<n, nodes, lbs, controllerVars>> /\ w'.pc \in {"clearStatus", "failed"}
      /\ svc'.id = svc.id /\ svc'.hash = svc.hash
  BY DEF removeFinalizer, Alive, Inv, TypeOK, WFrame, Service, Goto
<1>2. Within
  BY <1>1 DEF Within, Ensuring, Cleaning, EnsurePC, DeletePC, controllerVars
<1> QED BY <1>1, <1>2, UnchangedRows, AsideAhead DEF Unrecorded, KeepsRows, Cleaning

LEMMA ClearStatusAhead ==
    ASSUME Inv, Ahead, clearStatus
    PROVE  Ahead'
<1>1. /\ w.pc = "clearStatus" /\ w'.obj = w.obj /\ w'.orphan = w.orphan
      /\ UNCHANGED <<n, nodes, lbs, queued, nodeQueued, cached, lastSynced>>
      /\ svc'.id = svc.id /\ svc'.hash = svc.hash
      /\ \/ w'.pc = "done" /\ scCache' = Absent
         \/ w'.pc = "failed" /\ scCache' = scCache
  BY DEF clearStatus, Inv, TypeOK, WFrame, Service, Goto
<1>2. CASE w'.pc = "failed" /\ scCache' = scCache
  <2>1. Within
    BY <1>1, <1>2 DEF Within, Ensuring, Cleaning, EnsurePC, DeletePC, controllerVars
  <2> QED BY <1>1, <1>2, <2>1, UnchangedRows, AsideAhead DEF Unrecorded, KeepsRows
<1>3. CASE w'.pc = "done" /\ scCache' = Absent
  <2>1. n.pc = "idle" /\ w.obj = scCache /\ ~scCache.wants
    BY <1>1 DEF Ahead, OneAtATime, Cleaning
  <2>2. ~scCache'.wants /\ scCache'.hash = None
    BY <1>3 DEF Absent
  <2> USE Ids, <1>1, <1>3, <2>1, <2>2, UnchangedRows DEF KeepsRows
  <2>3. OneAtATime'
    BY DEF Ahead, OneAtATime, Ensuring, Cleaning, EnsurePC, DeletePC
  <2>4. ListerAgrees' /\ NodesAgree' /\ Resting'
    BY DEF Ahead, ListerAgrees, NodesAgree, Resting
  <2>5. ObjectKept' /\ Succeeding'
    BY DEF ObjectKept, Succeeding, SeenReady, BeforeAnnotation, Ensuring, EnsurePC, Validated
  <2>6. OnlyRecorded' /\ HashHolds'
    BY DEF Ahead, OnlyRecorded, OnlyLive, HashHolds, Unrecorded
  <2>7. FirstUsed'
    BY DEF Ahead, FirstUsed, Unrecorded, Validated, EnsurePC
  <2> QED BY <2>3, <2>4, <2>5, <2>6, <2>7 DEF Ahead
<1> QED BY <1>1, <1>2, <1>3

(* A Service that exists is no orphan.                                     *)
LEMMA NoForgetOrphan == ASSUME Ahead PROVE ~forgetOrphan
BY DEF Ahead, OneAtATime, forgetOrphan

-----------------------------------------------------------------------------
(* Where a sync ends, and where it starts.                                 *)

(* What needsUpdate overlooks is not used.                                 *)
LEMMA SameSpec ==
    ASSUME NEW s, NEW t, s.wants \/ t.wants, ~needsUpdate(s, t)
    PROVE  /\ s.wants = t.wants /\ s.ports = t.ports /\ s.config = t.config
           /\ s.id = t.id /\ s.hash = t.hash
BY DEF needsUpdate

LEMMA SyncEndAhead ==
    ASSUME Inv, Ahead, SyncEnd
    PROVE  Ahead'
<1>1. /\ w.pc \in {"done", "failed"} /\ w'.pc = "idle" /\ (queued' <=> queued \/ w.pc = "failed")
      /\ UNCHANGED <<n, nodes, lbs, svc, nodeQueued, cached, scCache, lastSynced>>
      /\ queued' \in BOOLEAN
  BY DEF SyncEnd, WIdle, Inv, TypeOK
<1>2. n.pc = "idle"
  BY <1>1 DEF Ahead, OneAtATime
<1> USE Ids, <1>1, <1>2, UnchangedRows DEF KeepsRows
<1>3. OneAtATime'
  BY DEF Ahead, OneAtATime, Ensuring, Cleaning, EnsurePC, DeletePC
<1>4. ListerAgrees' /\ NodesAgree'
  BY DEF Ahead, ListerAgrees, NodesAgree, needsUpdate
<1>5. ObjectKept' /\ Succeeding'
  BY DEF ObjectKept, Succeeding, SeenReady, BeforeAnnotation, Ensuring, EnsurePC, Validated
<1>6. OnlyRecorded' /\ HashHolds'
  BY DEF Ahead, OnlyRecorded, OnlyLive, HashHolds, Unrecorded
<1>7. FirstUsed'
  BY DEF Ahead, FirstUsed, Unrecorded, Validated, EnsurePC
<1>8. Resting'
  <2> SUFFICES ASSUME ~queued, w.pc = "done", cached.present, cached.wants,
                      ~shouldSkipService(cached)
               PROVE  Resting'
    BY DEF Resting
  <2>1. /\ scCache.wants /\ scCache.ports = cached.ports /\ scCache.config = cached.config
        /\ scCache.id = cached.id /\ scCache.hash = cached.hash
    BY SameSpec DEF Ahead, ListerAgrees
  <2>2. /\ svc.id # None /\ Ready(svc.id) /\ svc.status = svc.id /\ svc.hash # None
        /\ svc.hash = listenersHashStr(buildListeners(scCache, lastSynced))
        /\ scCache.id = None => scCache.hash = None
    BY <2>1 DEF Ahead, Succeeding, shouldSkipService
  <2> QED BY <2>1, <2>2 DEF Resting, Ready, Live, buildListeners
<1> QED BY <1>3, <1>4, <1>5, <1>6, <1>7, <1>8 DEF Ahead

LEMMA SyncStartAhead ==
    ASSUME Inv, Alive, Ahead, SyncStart, "lag" \notin Hazards, "overlap" \notin Hazards
    PROVE  Ahead'
<1>1. /\ w.pc = "idle" /\ n.pc = "idle" /\ cached = svc /\ ~queued' /\ scCache' = svc
      /\ w'.obj = svc /\ ~w'.orphan /\ (w'.pc = IF svc.wants THEN "addFinalizer" ELSE "exists")
      /\ UNCHANGED <<n, nodes, lbs, svc, nodeQueued, cached, lastSynced>>
  BY DEF SyncStart, Alone, ListerCurrent, Fault, Alive, SyncFrame, WIdle, needsCleanup
<1> USE Ids, <1>1, UnchangedRows DEF KeepsRows, Alive
<1>2. OneAtATime'
  BY DEF OneAtATime, Ensuring, Cleaning, EnsurePC, DeletePC
<1>3. ListerAgrees' /\ NodesAgree' /\ Resting'
  BY DEF ListerAgrees, NodesAgree, Resting, needsUpdate
<1>4. ObjectKept' /\ Succeeding'
  BY DEF ObjectKept, Succeeding, SeenReady, BeforeAnnotation, Ensuring, EnsurePC, Validated
<1>5. OnlyRecorded' /\ HashHolds'
  BY DEF Ahead, OnlyRecorded, OnlyLive, HashHolds, Unrecorded
<1>6. FirstUsed'
  BY DEF Ahead, FirstUsed, Unrecorded, Validated, EnsurePC
<1> QED BY <1>2, <1>3, <1>4, <1>5, <1>6 DEF Ahead
-----------------------------------------------------------------------------
(* Steps beside the service worker.                                        *)

LEMMA InformerAhead ==
    ASSUME Inv, Alive, Ahead, InformerDeliver
    PROVE  Ahead'
<1>1. /\ cached' = svc /\ (queued' <=> queued \/ enqueues(cached, svc))
      /\ UNCHANGED <<n, nodes, lbs, svc, w, nodeQueued, scCache, lastSynced>>
  BY DEF InformerDeliver, providerVars, Inv, TypeOK
<1>2. ASSUME svc.wants, ~queued'
      PROVE  /\ ~queued /\ cached.present /\ ~needsUpdate(cached, svc)
             /\ cached.wants /\ scCache.wants /\ ~needsUpdate(scCache, cached)
  <2>1. ~queued /\ cached.present /\ ~needsUpdate(cached, svc)
    BY <1>1, <1>2 DEF enqueues, Alive
  <2>2. cached.wants
    BY <1>2, <2>1 DEF needsUpdate, Inv, TypeOK, Service
  <2> QED BY <2>1, <2>2 DEF Ahead, ListerAgrees
<1> USE Ids, <1>1, UnchangedRows DEF KeepsRows
<1>3. OneAtATime'
  BY DEF Ahead, OneAtATime, Alive, configChanged
<1>4. ListerAgrees'
  BY <1>2 DEF ListerAgrees, needsUpdate
<1>5. NodesAgree'
  BY DEF Ahead, NodesAgree
<1>6. ObjectKept' /\ Succeeding'
  BY DEF Ahead, ObjectKept, Succeeding, Ready
<1>7. OnlyRecorded' /\ HashHolds'
  BY DEF Ahead, OnlyRecorded, OnlyLive, NoneLive, HashHolds, Live
<1>8. FirstUsed'
  BY DEF Ahead, FirstUsed
<1>9. Resting'
  <2> SUFFICES ASSUME w.pc = "idle", ~queued', svc.wants, ~shouldSkipService(svc)
               PROVE  Resting'
    BY DEF Resting
  <2>1. cached.config = svc.config /\ cached.id = svc.id /\ cached.hash = svc.hash
        /\ cached.ports = svc.ports /\ cached.present /\ cached.wants /\ ~queued
    BY <1>2, SameSpec
  <2> QED BY <2>1 DEF Ahead, Resting, shouldSkipService, buildListeners
<1> QED BY <1>3, <1>4, <1>5, <1>6, <1>7, <1>8, <1>9 DEF Ahead

(* Changes of what the worker does not hold: the Service's specification,  *)
(* the nodes, the progress of the load balancers.                          *)
LEMMA OutsideAhead ==
    ASSUME Inv, Ahead, KeepsRows, UNCHANGED <<w, n, queued, cached, scCache, lastSynced>>,
           svc'.id = svc.id, svc'.hash = svc.hash, svc'.status = svc.status,
           nodeQueued' \/ UNCHANGED <<nodes, nodeQueued>>
    PROVE  Ahead'
<1> USE Ids DEF KeepsRows
<1>1. OneAtATime' /\ ListerAgrees' /\ NodesAgree'
  BY DEF Ahead, OneAtATime, ListerAgrees, NodesAgree, configChanged, needsUpdate
<1>2. ObjectKept' /\ Succeeding'
  <2>1. ObjectKept'
    BY DEF Ahead, ObjectKept
  <2>2. w.pc \in SeenReady => Ready(w.id)'
    BY DEF Ahead, Succeeding, SeenReady, Validated, EnsurePC
  <2> QED BY <2>1, <2>2 DEF Ahead, Succeeding
<1>3. OnlyRecorded' /\ HashHolds'
  <2>1. OnlyRecorded'
    BY DEF Ahead, OnlyRecorded, OnlyLive, NoneLive
  <2>2. w.pc = "annId" => w.id \in Attempts
    BY DEF Validated, EnsurePC
  <2> QED BY <2>1, <2>2 DEF Ahead, HashHolds, Unrecorded
<1>4. FirstUsed'
  BY DEF Ahead, FirstUsed
<1>5. Resting'
  BY DEF Ahead, Resting
<1> QED BY <1>1, <1>2, <1>3, <1>4, <1>5 DEF Ahead

LEMMA EditAhead ==
    ASSUME Inv, Ahead, EditPorts \/ ToggleConfig \/ Retype
    PROVE  Ahead'
<1>1. /\ UNCHANGED <<w, n, queued, cached, scCache, lastSynced, lbs, nodes, nodeQueued>>
      /\ svc'.id = svc.id /\ svc'.hash = svc.hash /\ svc'.status = svc.status
  BY DEF EditPorts, ToggleConfig, Retype, Edit, Inv, TypeOK, Service
<1> QED BY <1>1, UnchangedRows, OutsideAhead

LEMMA ChangeNodesAhead ==
    ASSUME Inv, Ahead, ChangeNodes
    PROVE  Ahead'
<1>1. UNCHANGED <<w, n, queued, cached, scCache, lastSynced, lbs, svc>> /\ nodeQueued'
  BY DEF ChangeNodes
<1> QED BY <1>1, UnchangedRows, OutsideAhead

LEMMA ServerAhead ==
    ASSUME Inv, Ahead, NEW k \in Attempts, Server(k)
    PROVE  Ahead'
BY ServerRows, OutsideAhead DEF Server, controllerVars

LEMMA StutterAhead ==
    ASSUME Inv, Ahead, UNCHANGED vars
    PROVE  Ahead'
BY UnchangedRows, OutsideAhead DEF vars
-----------------------------------------------------------------------------
(* The node worker, on its own as long as the two do not overlap.          *)

LEMMA NodeSyncAhead ==
    ASSUME Inv, Ahead, nodeSyncService, "overlap" \notin Hazards
    PROVE  Ahead'
<1>1. /\ n.pc = "idle" /\ w.pc = "idle"
      /\ UNCHANGED <<lbs, svc, nodes, w, queued, cached, scCache>>
      /\ \/ UNCHANGED <<n, lastSynced>> /\ (~scCache.wants \/ lastSynced = nodes)
         \/ /\ lastSynced' = nodes /\ UNCHANGED n
            /\ \/ hasNothing(scCache)
               \/ ~configChanged(scCache, buildListeners(scCache, nodes))
         \/ /\ lastSynced' = nodes /\ n'.obj = scCache
            /\ n'.pc = "failed" \/ (n'.pc = "get" /\ configChanged(scCache, n'.want))
  <2>1. /\ n.pc = "idle" /\ w.pc = "idle"
        /\ UNCHANGED <<lbs, svc, nodes, w, queued, cached, scCache>>
        /\ \/ UNCHANGED <<n, lastSynced>> /\ (~scCache.wants \/ lastSynced = nodes)
           \/ lastSynced' = nodes /\ UpdateLoadBalancer(scCache)
    BY DEF nodeSyncService, Alone
  <2>2. ASSUME UpdateLoadBalancer(scCache)
        PROVE  \/ /\ UNCHANGED n
                  /\ \/ hasNothing(scCache)
                     \/ ~configChanged(scCache, buildListeners(scCache, nodes))
               \/ /\ n'.obj = scCache
                  /\ n'.pc = "failed" \/ (n'.pc = "get" /\ configChanged(scCache, n'.want))
    <3> DEFINE want == buildListeners(scCache, nodes)
    <3>1. CASE n' = [NIdle EXCEPT !.pc = "failed", !.obj = scCache]
      BY <3>1 DEF NIdle
    <3>2. CASE n' = [pc |-> "get", obj |-> scCache, want |-> want] /\ configChanged(scCache, want)
      BY <3>2
    <3> QED BY <2>2, <3>1, <3>2 DEF UpdateLoadBalancer
  <2> QED BY <2>1, <2>2
<1> USE Ids, <1>1, UnchangedRows DEF KeepsRows
<1>2. OneAtATime' /\ ListerAgrees' /\ NodesAgree'
  BY DEF Ahead, OneAtATime, ListerAgrees, NodesAgree, configChanged, needsUpdate,
         Ensuring, Cleaning, EnsurePC, DeletePC
<1>3. ObjectKept' /\ Succeeding'
  BY DEF ObjectKept, Succeeding, SeenReady, BeforeAnnotation, Ensuring, EnsurePC, Validated
<1>4. OnlyRecorded' /\ HashHolds'
  BY DEF Ahead, OnlyRecorded, OnlyLive, HashHolds, Unrecorded
<1>5. FirstUsed'
  BY DEF Ahead, FirstUsed, Unrecorded, Validated, EnsurePC
<1>6. Resting'
  <2> SUFFICES ASSUME ~queued, cached.present, cached.wants, ~shouldSkipService(cached)
               PROVE  Resting'
    BY DEF Resting
  <2>1. /\ scCache.wants /\ scCache.ports = cached.ports /\ scCache.config = cached.config
        /\ scCache.id = cached.id /\ scCache.hash = cached.hash
    BY SameSpec DEF Ahead, ListerAgrees
  <2>2. ~hasNothing(scCache)
    BY <2>1 DEF hasNothing, shouldSkipService
  <2> QED BY <2>1, <2>2 DEF Ahead, Resting, configChanged, buildListeners
<1> QED BY <1>2, <1>3, <1>4, <1>5, <1>6 DEF Ahead

LEMMA NodeFailedAhead ==
    ASSUME Inv, Ahead, NodeFailed
    PROVE  Ahead'
<1>1. /\ n.pc = "failed" /\ n'.pc = "idle"
      /\ UNCHANGED <<lbs, svc, nodes, w, nodeQueued, cached, scCache, lastSynced>>
      /\ (queued' <=> queued \/ ~(shouldSkipService(n.obj) \/ n.obj.id = None))
  BY DEF NodeFailed, NIdle, Inv, TypeOK
<1>2. w.pc = "idle" /\ n.obj = scCache
  BY <1>1 DEF Ahead, OneAtATime
<1> USE Ids, <1>1, <1>2, UnchangedRows DEF KeepsRows
<1>3. OneAtATime' /\ ListerAgrees' /\ NodesAgree'
  BY DEF Ahead, OneAtATime, ListerAgrees, NodesAgree, needsUpdate,
         Ensuring, Cleaning, EnsurePC, DeletePC
<1>4. ObjectKept' /\ Succeeding'
  BY DEF ObjectKept, Succeeding, SeenReady, BeforeAnnotation, Ensuring, EnsurePC, Validated
<1>5. OnlyRecorded' /\ HashHolds'
  BY DEF Ahead, OnlyRecorded, OnlyLive, HashHolds, Unrecorded
<1>6. FirstUsed'
  BY DEF Ahead, FirstUsed, Unrecorded, Validated, EnsurePC
<1>7. Resting'
  <2> SUFFICES ASSUME ~queued', cached.present, cached.wants, ~shouldSkipService(cached)
               PROVE  Resting'
    BY DEF Resting
  <2>1. scCache.config = cached.config /\ scCache.id = cached.id
    BY SameSpec DEF Ahead, ListerAgrees
  <2>2. cached.id = None
    BY <2>1 DEF shouldSkipService
  <2> QED BY <2>2 DEF Ahead, Resting
<1> QED BY <1>3, <1>4, <1>5, <1>6, <1>7 DEF Ahead

LEMMA NodeUpdateAhead ==
    ASSUME Inv, Ahead, NodeGet \/ NodeUpdate, UNCHANGED controllerVars,
           "updateLost" \notin Hazards
    PROVE  Ahead'
<1>1. /\ n.pc \in {"get", "update"} /\ n'.obj = n.obj /\ n'.want = n.want
      /\ UNCHANGED <<svc, nodes, w, queued, nodeQueued, cached, scCache, lastSynced>>
      /\ \/ n'.pc \in {"update", "failed"} /\ UNCHANGED lbs
         \/ n'.pc = "recordHash" /\ Live(n.obj.id) /\ ApiUpdate(n.obj.id, n.want)
  <2> USE DEF Inv, TypeOK, NFrame, controllerVars
  <2>1. CASE NodeGet
    BY <2>1 DEF NodeGet
  <2>2. CASE NodeUpdate
    BY <2>2 DEF NodeUpdate, Fault
  <2> QED BY <2>1, <2>2
<1>2. /\ w.pc = "idle" /\ n.obj = scCache /\ configChanged(scCache, n.want)
      /\ n.obj.id \in Attempts /\ n.want \in Listeners
  BY <1>1 DEF Ahead, OneAtATime, Inv, FrameOK
<1>3. /\ \A j \in Attempts : (Live(j)' <=> Live(j)) /\ (Created(j)' <=> Created(j))
      /\ \/ n'.pc \in {"update", "failed"} /\ UNCHANGED lbs
         \/ n'.pc = "recordHash" /\ n.obj.id = svc.id /\ lbs'[svc.id].cfg = n.want
  <2>1. CASE n'.pc \in {"update", "failed"} /\ UNCHANGED lbs
    BY <2>1, UnchangedRows DEF KeepsRows
  <2>2. CASE n'.pc = "recordHash" /\ Live(n.obj.id) /\ ApiUpdate(n.obj.id, n.want)
    BY <1>2, <2>2, UpdateRows DEF Ahead, OnlyRecorded, OnlyLive
  <2> QED BY <1>1, <2>1, <2>2
<1> USE Ids, <1>1, <1>2, <1>3
<1>4. OneAtATime' /\ ListerAgrees' /\ NodesAgree'
  BY DEF Ahead, OneAtATime, ListerAgrees, NodesAgree, needsUpdate, configChanged,
         Ensuring, Cleaning, EnsurePC, DeletePC
<1>5. ObjectKept' /\ Succeeding'
  BY DEF ObjectKept, Succeeding, SeenReady, BeforeAnnotation, Ensuring, EnsurePC, Validated
<1>6. OnlyRecorded' /\ HashHolds'
  BY DEF Ahead, OnlyRecorded, OnlyLive, HashHolds, Unrecorded
<1>7. FirstUsed'
  BY DEF Ahead, FirstUsed, Unrecorded, Validated, EnsurePC
<1>8. Resting'
  BY DEF Ahead, Resting
<1> QED BY <1>4, <1>5, <1>6, <1>7, <1>8 DEF Ahead

LEMMA NodeRecordAhead ==
    ASSUME Inv, Alive, Ahead, NodeRecordHash, UNCHANGED controllerVars,
           "annWrite" \notin Hazards
    PROVE  Ahead'
<1>1. /\ n.pc = "recordHash" /\ n'.pc = "idle"
      /\ UNCHANGED <<lbs, nodes, w, queued, nodeQueued, cached, scCache, lastSynced>>
      /\ svc'.id = svc.id /\ svc'.hash = listenersHashStr(n.want) /\ svc'.status = svc.status
  BY DEF NodeRecordHash, WriteFails, Fault, Alive, NIdle, Inv, TypeOK, Service, controllerVars
<1>2. w.pc = "idle" /\ configChanged(scCache, n.want) /\ n.want \in Listeners
  BY <1>1 DEF Ahead, OneAtATime, Inv, FrameOK
<1> USE Ids, <1>1, <1>2, UnchangedRows DEF KeepsRows
<1>3. OneAtATime' /\ ListerAgrees' /\ NodesAgree'
  BY DEF Ahead, OneAtATime, ListerAgrees, NodesAgree, needsUpdate,
         Ensuring, Cleaning, EnsurePC, DeletePC
<1>4. ObjectKept' /\ Succeeding'
  BY DEF ObjectKept, Succeeding, SeenReady, BeforeAnnotation, Ensuring, EnsurePC, Validated
<1>5. OnlyRecorded' /\ HashHolds'
  BY DEF Ahead, OnlyRecorded, OnlyLive, HashHolds, Unrecorded
<1>6. Created(0) /\ (svc.id = None => ~Live(0))
  BY DEF Ahead, FirstUsed, OnlyRecorded, OnlyLive
<1>7. FirstUsed'
  BY <1>6 DEF Ahead, FirstUsed, Unrecorded, Validated, EnsurePC
<1>8. Resting'
  <2> SUFFICES ASSUME ~queued, cached.present, cached.wants, ~shouldSkipService(cached)
               PROVE  Resting'
    BY DEF Resting
  <2>1. svc'.hash # cached.hash /\ svc'.hash # None
    BY SameSpec, HashTells DEF Ahead, ListerAgrees, configChanged
  <2> QED BY <2>1 DEF Ahead, Resting
<1> QED BY <1>3, <1>4, <1>5, <1>7, <1>8 DEF Ahead

-----------------------------------------------------------------------------
(* The documented remedy: no sync is in the middle of a creation, because  *)
(* the attempts are used up, and none has seen the load balancer ready.    *)
LEMMA ResetAhead ==
    ASSUME Inv, Alive, OneLiveInv, Ahead, ResetAnnotations
    PROVE  Ahead'
<1>1. /\ svc.id # None /\ createsExhausted(svc) /\ ~Ready(svc.id) /\ ApiDelete(svc.id)
      /\ svc'.id = None /\ svc'.hash = svc.hash /\ svc'.status = svc.status
      /\ UNCHANGED <<nodes, w, n, queued, nodeQueued, cached, scCache, lastSynced>>
  BY DEF ResetAnnotations, HardStop, Inv, TypeOK, Service, controllerVars
<1>2. w.pc # "annId"
  <2> SUFFICES ASSUME w.pc = "annId" PROVE FALSE
    OBVIOUS
  <2>1. w.obj.count = svc.count /\ w.count = w.obj.count + 1
    BY DEF OneLiveInv, ObjectCurrent, OnlySuccessor, Alive, BeforeAnnotation
  <2>2. w.count \in 0..MaxCreateCount /\ svc.count \in 0..MaxCreateCount
    BY DEF Inv, TypeOK, WFrame, Service, CreateCount
  <2> QED BY <1>1, <2>1, <2>2, Constants DEF createsExhausted
<1>3. svc.id \in Attempts
  BY <1>1, Ids
<1>4. NoneLive' /\ \A k \in Attempts : (Live(k)' => Live(k)) /\ (Created(k)' <=> Created(k))
  BY <1>1, <1>2, <1>3, DeleteRows DEF Ahead, OnlyRecorded, OnlyLive, NoneLive
<1>5. w.pc \notin SeenReady
  BY <1>1, <1>2, Ids DEF Ahead, Succeeding, OnlyRecorded, OnlyLive, SeenReady, Ready, Live,
                         Validated, EnsurePC
<1> USE Ids, <1>1, <1>2, <1>3, <1>4, <1>5
<1>6. OneAtATime' /\ ListerAgrees' /\ NodesAgree'
  BY DEF Ahead, OneAtATime, ListerAgrees, NodesAgree, needsUpdate, configChanged
<1>7. ObjectKept' /\ Succeeding'
  BY DEF Ahead, ObjectKept, Succeeding
<1>8. OnlyRecorded' /\ HashHolds'
  BY DEF OnlyRecorded, OnlyLive, NoneLive, HashHolds
<1>9. FirstUsed'
  BY DEF Ahead, FirstUsed, NoneLive
<1>10. Resting'
  BY DEF Ahead, Resting
<1> QED BY <1>6, <1>7, <1>8, <1>9, <1>10 DEF Ahead
-----------------------------------------------------------------------------
(* All steps together.                                                     *)

LEMMA InitSync == ASSUME Init PROVE SyncInv
<1>1. /\ svc.id = None /\ svc.hash = None /\ w.pc = "idle" /\ n.pc = "idle"
      /\ ~cached.present /\ ~cached.deleting /\ ~scCache.wants /\ scCache.hash = None
  BY DEF Init, Fresh, Absent, WIdle, NIdle
<1>2. NoneLive
  BY DEF Init, LBInit, NoneLive, Live
<1> USE <1>1, <1>2
<1>3. OneAtATime /\ ListerAgrees /\ NodesAgree /\ Resting
  BY DEF OneAtATime, ListerAgrees, NodesAgree, Resting, Ensuring, Cleaning, EnsurePC, DeletePC
<1>4. ObjectKept /\ Succeeding
  BY DEF ObjectKept, Succeeding, SeenReady, BeforeAnnotation, Ensuring, EnsurePC, Validated
<1>5. OnlyRecorded /\ HashHolds /\ FirstUsed
  BY DEF OnlyRecorded, OnlyLive, NoneLive, HashHolds, FirstUsed, Unrecorded, Validated, EnsurePC
<1> QED BY <1>3, <1>4, <1>5 DEF SyncInv, Ahead

LEMMA EnsureStepAhead ==
    ASSUME Inv, Alive, OneLiveInv, Ahead, EnsureStep, UNCHANGED controllerVars,
           Hazards \cap Hiding = {}
    PROVE  Ahead'
BY NotHiding, CreateAhead, AnnotateIdAhead, AnnotateCountAhead, RecordHashAhead,
   EnsureGetAhead, RecreateDeleteAhead, UpdateAhead, PollAhead, KamajiAhead
   DEF EnsureStep

LEMMA ServiceWorkerAhead ==
    ASSUME Inv, Alive, OneLiveInv, Ahead, ServiceWorker, Hazards \cap Hiding = {}
    PROVE  Ahead'
BY NotHiding, SyncStartAhead, AddFinalizerAhead, EnsureAhead, PublishAhead,
   RemoveFinalizerAhead, ClearStatusAhead, NoForgetOrphan, SyncEndAhead,
   EnsureStepAhead, DeleteStepAhead
   DEF ServiceWorker

LEMMA NodeWorkerAhead ==
    ASSUME Inv, Alive, Ahead, NodeWorker, Hazards \cap Hiding = {}
    PROVE  Ahead'
BY NotHiding, NodeSyncAhead, NodeFailedAhead, NodeUpdateAhead, NodeRecordAhead
   DEF NodeWorker, NodeStep

(* No step brings a Service back.                                          *)
LEMMA StaysGone ==
    ASSUME Inv, [Next]_vars, Alive'
    PROVE  Alive
<1> USE DEF Alive, Inv, TypeOK, Service
<1>1. CASE EnsureStep
  <2>1. CASE AnnotateId
    BY <2>1 DEF AnnotateId
  <2>2. CASE AnnotateCount
    BY <2>2 DEF AnnotateCount
  <2>3. CASE recordListenerHash
    BY <2>3 DEF recordListenerHash
  <2>4. CASE storeInternalIpIfBothMode
    BY <2>4 DEF storeInternalIpIfBothMode
  <2> QED BY <1>1, <2>1, <2>2, <2>3, <2>4
          DEF EnsureStep, CreateRPC, EnsureGet, RecreateDelete, UpdateRPC, PollReady,
              PollGivesUp, updateKamajiAdvertiseAddress
<1>2. CASE DeleteStep
  BY <1>2 DEF DeleteStep, GetLoadBalancer, EnsureLoadBalancerDeleted,
              findLoadBalancerByName, DeleteRPC
<1>3. CASE addFinalizer
  BY <1>3 DEF addFinalizer
<1>4. CASE publishStatus
  BY <1>4 DEF publishStatus
<1>5. CASE removeFinalizer
  BY <1>5 DEF removeFinalizer, Absent
<1>6. CASE clearStatus
  BY <1>6 DEF clearStatus
<1>7. CASE SyncStart \/ ensureLoadBalancer \/ forgetOrphan \/ SyncEnd \/ Crash
  BY <1>7 DEF SyncStart, ensureLoadBalancer, EnsureLoadBalancer, forgetOrphan, SyncEnd, Crash
<1>8. CASE ResetAnnotations
  BY <1>8 DEF ResetAnnotations
<1>9. CASE NodeWorker
  <2>1. CASE NodeRecordHash
    BY <2>1 DEF NodeRecordHash
  <2> QED BY <1>9, <2>1 DEF NodeWorker, nodeSyncService, NodeFailed, NodeStep, NodeGet, NodeUpdate
<1>10. CASE InformerDeliver \/ ChangeNodes \/ UNCHANGED vars
  BY <1>10 DEF InformerDeliver, providerVars, ChangeNodes, vars
<1>11. CASE UserDelete \/ EditPorts \/ ToggleConfig \/ Retype
  BY <1>11 DEF UserDelete, EditPorts, ToggleConfig, Retype, Edit
<1>12. CASE \E k \in Attempts : Server(k)
  BY <1>12 DEF Server
<1> QED BY <1>1, <1>2, <1>3, <1>4, <1>5, <1>6, <1>7, <1>8, <1>9, <1>10, <1>11, <1>12, Steps
        DEF BesideAction

LEMMA NextSync ==
    ASSUME Inv, OneLiveInv, SyncInv, [Next]_vars, Hazards \cap Hiding = {}
    PROVE  SyncInv'
<1> SUFFICES ASSUME Alive' PROVE Ahead'
  BY DEF SyncInv
<1>1. Alive /\ Ahead
  BY StaysGone DEF SyncInv
<1>2. ~Crash /\ ~UserDelete
  <2>1. ~Crash
    BY NotHiding DEF Crash, Fault
  <2>2. ASSUME UserDelete PROVE ~Alive'
    BY <2>2 DEF UserDelete, Alive, Absent, Inv, TypeOK, Service
  <2> QED BY <2>1, <2>2
<1>3. CASE Environment
  BY <1>1, <1>2, <1>3, EditAhead, ChangeNodesAhead, ResetAhead DEF Environment
<1> QED BY <1>1, <1>3, ServiceWorkerAhead, NodeWorkerAhead, InformerAhead, ServerAhead,
           StutterAhead
        DEF Next

(* At rest: the lister agrees with the last sync, the last sync saw these  *)
(* nodes, and the hash says that the load balancer has their listeners.    *)
LEMMA RestInSync ==
    ASSUME Inv, SyncInv
    PROVE  QuiescentInSync
<1> SUFFICES ASSUME Quiescent, Provisionable
             PROVE  svc.id # None /\ svc.status = svc.id /\ InSync(svc.id)
  BY DEF QuiescentInSync
<1>1. /\ Ahead /\ cached = svc /\ w.pc = "idle" /\ n.pc = "idle" /\ ~queued /\ ~nodeQueued
      /\ svc.present /\ svc.wants /\ ~shouldSkipService(svc)
  BY DEF SyncInv, Alive, Quiescent, Provisionable
<1>2. lastSynced = nodes
  BY <1>1 DEF Ahead, ListerAgrees, NodesAgree
<1>3. /\ svc.id # None /\ svc.status = svc.id /\ Live(svc.id)
      /\ svc.hash = listenersHashStr(buildListeners(svc, nodes))
  BY <1>1, <1>2 DEF Ahead, Resting
<1>4. svc.hash = listenersHashStr(lbs[svc.id].cfg)
  BY <1>1, <1>3 DEF Ahead, HashHolds, Unrecorded
<1> QED BY <1>3, <1>4, HashTells DEF InSync

(* A Service at rest is served by the load balancer of its id annotation,  *)
(* which is published and carries the listeners of the current ports and   *)
(* nodes, whatever fails or is changed on the way and however often the    *)
(* documented remedy is applied.  The hypothesis is exact: each member of  *)
(* Hiding alone makes a load balancer go out of step unnoticed             *)
(* (recordListenerHash, needsUpdate, lastSyncedNodes).                     *)
THEOREM RestsInSync ==
    ASSUME Hazards \cap Hiding = {}
    PROVE  Spec => []QuiescentInSync
<1>1. Init => Inv /\ OneLiveInv /\ SyncInv
  BY InitInv, InitOneLive, InitSync
<1>2. Inv /\ OneLiveInv /\ SyncInv /\ [Next]_vars => (Inv /\ OneLiveInv /\ SyncInv)'
  BY NextPreserves, NextOneLive, NextSync, NotHiding
<1>3. Inv /\ OneLiveInv /\ SyncInv => QuiescentInSync
  BY RestInSync
<1> QED BY <1>1, <1>2, <1>3, PTL DEF Spec
=============================================================================
