------------------------ MODULE LevelTriggeredProofs ------------------------
(***************************************************************************)
(* Proofs about the level-triggered reconciler, for any number of          *)
(* environments, targets, clusters and revisions.                          *)
(***************************************************************************)
EXTENDS LevelTriggered, WellFoundedInduction, TLAPS

-----------------------------------------------------------------------------
(***************************************************************************)
(* The operators.                                                          *)
(***************************************************************************)

\* A failed target has a status like any other.
LEMMA FailedType ==
    ASSUME NEW cause \in TargetError
    PROVE  Failed(cause) \in TargetStatus
BY DEF Failed, TargetStatus, NoRevision

\* What the reconciler records of an application object is a target status,
\* and it is a ready one only if the object was ready, at the revision
\* recorded, and had one (setTargetStatus).
LEMMA ObserveAppFacts ==
    ASSUME NEW isSynced \in BOOLEAN, NEW obj \in AppState
    PROVE  /\ ObserveApp(isSynced, obj) \in TargetStatus
           /\ ObserveApp(isSynced, obj).ready =>
                 /\ obj.phase = "ready"
                 /\ obj.rev # NoRevision
                 /\ ObserveApp(isSynced, obj).rev = obj.rev
<1>1. /\ Failed("unsynced") \in TargetStatus /\ ~Failed("unsynced").ready
      /\ Failed("app") \in TargetStatus /\ ~Failed("app").ready
      /\ Failed("norevision") \in TargetStatus /\ ~Failed("norevision").ready
  BY DEF Failed, TargetStatus, TargetError, NoRevision
<1>2. obj.phase \in AppPhase /\ obj.rev \in Revision \cup {NoRevision}
  BY DEF AppState
<1>3. CASE ~isSynced \/ obj.phase = "absent"
  BY <1>1, <1>3 DEF ObserveApp
<1>4. CASE isSynced /\ obj.phase # "absent"
  <2>1. ObserveApp(isSynced, obj) = setTargetStatus(obj)
    BY <1>4 DEF ObserveApp
  <2>2. CASE obj.phase = "new"
    <3>1. setTargetStatus(obj) = [ready |-> FALSE, rev |-> NoRevision, error |-> NoError]
      BY <2>2 DEF setTargetStatus
    <3>2. setTargetStatus(obj) \in TargetStatus
      BY <3>1 DEF TargetStatus, TargetError
    <3>3. ~setTargetStatus(obj).ready
      BY <3>1
    <3> QED BY <2>1, <3>2, <3>3
  <2>3. CASE obj.phase = "ready" /\ obj.rev = NoRevision
    <3>1. setTargetStatus(obj) = Failed("norevision")
      BY <2>3 DEF setTargetStatus
    <3> QED BY <1>1, <2>1, <3>1
  <2>4. CASE obj.phase # "new" /\ ~(obj.phase = "ready" /\ obj.rev = NoRevision)
    <3>1. setTargetStatus(obj) =
             [ready |-> obj.phase = "ready", rev |-> obj.rev, error |-> NoError]
      BY <2>4 DEF setTargetStatus
    <3>2. setTargetStatus(obj) \in TargetStatus
      BY <3>1, <1>2 DEF TargetStatus, TargetError
    <3>3. setTargetStatus(obj).ready = (obj.phase = "ready")
      BY <3>1
    <3>4. setTargetStatus(obj).rev = obj.rev
      BY <3>1
    <3> QED BY <2>1, <2>4, <3>2, <3>3, <3>4
  <2> QED BY <2>2, <2>3, <2>4
<1> QED BY <1>3, <1>4

\* A status that reports nothing yet.
LEMMA NoStatusType == NoStatus \in PipelineStatus
BY FailedType DEF NoStatus, PipelineStatus, Unreported, TargetError

\* A merge patch makes a status of statuses.
LEMMA MergePatchType ==
    ASSUME NEW base \in PipelineStatus, NEW new \in PipelineStatus,
           NEW cur \in PipelineStatus
    PROVE  MergePatch(base, new, cur) \in PipelineStatus
BY DEF MergePatch, PipelineStatus

-----------------------------------------------------------------------------
(***************************************************************************)
(* Types.                                                                  *)
(***************************************************************************)

\* The statuses Reconcile is about to write are statuses.
LEMMA StatusType ==
    ASSUME rec \in Reconciliation
    PROVE  /\ StatusRead \in PipelineStatus
           /\ StatusDecided \in PipelineStatus
BY DEF StatusRead, StatusDecided, Reconciliation, PipelineStatus, MustWait

\* The revision found in the first environment is one, or none.
LEMMA LatestRevisionType == LatestRevision \in Revision \cup {NoRevision}
BY DEF LatestRevision, checkAllTargetsHaveSameRevision

\* A patch leaves a Pipeline.
LEMMA PatchType ==
    ASSUME NEW base \in PipelineStatus, NEW new \in PipelineStatus,
           pl \in Pipeline, Patch(base, new)
    PROVE  pl' \in Pipeline
<1>1. pl.status \in PipelineStatus
  BY DEF Pipeline
<1>2. MergePatch(base, new, pl.status) \in PipelineStatus
  BY <1>1, MergePatchType
<1> QED BY <1>2 DEF Patch, Pipeline

\* The environment Reconcile promotes to is one of the Pipeline's, after the
\* first.
LEMMA NextEnvType ==
    ASSUME NEW targets, NEW r
    PROVE  LET k == NextEnv(targets, r)
           IN  k # 0 => /\ k \in Undone(targets, r)
                        /\ \A i \in Undone(targets, r) : k <= i
                        /\ k \in Env
<1> DEFINE k == NextEnv(targets, r)
<1> SUFFICES ASSUME k # 0
             PROVE  /\ k \in Undone(targets, r)
                    /\ \A i \in Undone(targets, r) : k <= i
                    /\ k \in Env
  OBVIOUS
<1> DEFINE U == Undone(targets, r)
           m == CHOOSE j \in U : \A i \in U : j <= i
<1>1. k = m /\ U # {}
  BY DEF NextEnv
<1>2. U \subseteq Env
  BY DEF Undone
<1>3. \E j \in U : \A i \in U : j <= i
  <2>1. U \subseteq Nat
    BY <1>2, PipelineSpecAssumption DEF Env
  <2>2. PICK j \in U : \A i \in U : ~(<<i, j>> \in OpToRel(<, Nat))
    <3> HIDE DEF U
    <3> QED BY <1>1, <2>1, WFMin, NatLessThanWellFounded
  <2>3. \A i \in U : ~(i < j)
    BY <2>1, <2>2 DEF OpToRel
  <2> QED BY <2>1, <2>3
<1> QED BY <1>1, <1>2, <1>3

\* A reconciliation that is over.
LEMMA IdleType == Idle \in Reconciliation /\ Idle.pc = "idle"
BY NoStatusType, LevelTriggeredAssumption DEF Idle, Reconciliation

\* Reconcile promotes only what it has decided not to wait for.  TypeOK needs
\* this to be inductive: it keeps NoRevision from being promoted.
ToldNotToWait == rec.pc = "promote" => ~MustWait

\* Deciding not to wait is not undone before the promotion.
LEMMA ToldNotToWaitStep ==
    ASSUME TypeOK, ToldNotToWait, [Next]_vars
    PROVE  ToldNotToWait'
<1>1. CASE rec' = rec
  BY <1>1 DEF ToldNotToWait, MustWait, LatestRevision
<1>2. CASE rec'.pc # "promote"
  BY <1>2 DEF ToldNotToWait
<1>3. CASE Decide /\ ~MustWait
  <2>1. rec'.status.targets = rec.status.targets
    BY <1>3 DEF Decide, StatusDecided, TypeOK, Reconciliation, PipelineStatus
  <2> QED BY <1>3, <2>1 DEF ToldNotToWait, MustWait, LatestRevision
<1>4. rec' = rec \/ rec'.pc # "promote" \/ (Decide /\ ~MustWait)
  <2>1. CASE StartReconcile
    BY <2>1, IdleType DEF StartReconcile
  <2>2. CASE GetCluster
    BY <2>2 DEF GetCluster, TypeOK, Reconciliation
  <2>3. CASE GetApplication
    BY <2>3 DEF GetApplication, TypeOK, Reconciliation
  <2>4. CASE PatchStatus
    BY <2>4 DEF PatchStatus, TypeOK, Reconciliation
  <2>5. CASE Decide
    BY <2>5, IdleType DEF Decide
  <2>6. CASE PatchNotFound \/ Promote \/ WatchFails \/ ReconcileFails \/ Restart \/ PromotePanics
    BY <2>6, IdleType
       DEF PatchNotFound, Promote, WatchFails, ReconcileFails, Restart, PromotePanics, Restarted
  <2>7. CASE \/ \E c \in Cluster : InformerSync(c)
             \/ \E t \in Target : InformerUpdate(t)
             \/ \E c \in Cluster : SyncEventsLost(c)
             \/ \E t \in Target : UpdateEventLost(t)
             \/ PipelineEvent
             \/ UNCHANGED vars
    BY <2>7 DEF InformerSync, SyncEventsLost, FirstList,
              InformerUpdate, UpdateEventLost, CatchUp,
                            PipelineEvent, vars
  <2>8. CASE World
    BY <2>8 DEF World, ApplyRevision, Rollback, BecomeReady, BecomeUnready, DeleteApp,
                CreateApp, ClusterChange, ClusterEventLost, DeletePipeline,
                Disruption, WorldMoves
  <2> QED BY <2>1, <2>2, <2>3, <2>4, <2>5, <2>6, <2>7, <2>8 DEF Next, Reconcile
<1> QED BY <1>1, <1>2, <1>3, <1>4

\* The types hold at the start.
LEMMA TypeInit == Init => TypeOK
<1> SUFFICES ASSUME Init PROVE TypeOK
  OBVIOUS
<1> USE DEF Init
<1>1. app \in [Target -> AppState]
  <2>1. \A t \in Target : app[t] \in AppState
    BY LevelTriggeredAssumption
  <2> QED BY <2>1
<1>2. view \in [Target -> AppState]
  BY DEF AppState, AppPhase, NoRevision
<1>3. pl \in Pipeline /\ plview \in Pipeline
  BY NoStatusType DEF Pipeline
<1>4. rec \in Reconciliation /\ (rec.pc = "get" => rec.next \in Target)
  BY IdleType
<1>5. proven \subseteq Target \X (Revision \cup {NoRevision})
  BY <1>1 DEF AppState
<1>6. cluster \in [Cluster -> {"absent", "unready", "ready"}]
  OBVIOUS
<1>7. watched \subseteq Cluster /\ synced \subseteq watched /\ deaf \subseteq Cluster
      /\ queued \in BOOLEAN /\ lost \in BOOLEAN
      /\ promotions \subseteq PromotionRecord
  OBVIOUS
<1>8. disruptions \in 0..MaxDisruptions /\ faults \in 0..MaxFaults
  BY LevelTriggeredAssumption
<1> QED BY <1>1, <1>2, <1>3, <1>4, <1>5, <1>6, <1>7, <1>8 DEF TypeOK

\* The steps of Reconcile keep the types.
LEMMA TypeReconcile ==
    ASSUME TypeOK, ToldNotToWait, Reconcile \/ WatchFails \/ ReconcileFails \/ Restart \/ PromotePanics
    PROVE  TypeOK'
<1> USE DEF world, caches
<1>0. /\ rec.status \in PipelineStatus /\ rec.base \in PipelineStatus
      /\ pl.status \in PipelineStatus /\ plview.status \in PipelineStatus
      /\ rec.next \in 1..(NumTargets + 1)
      /\ rec.pc \in {"idle", "read", "get", "decide", "promote"}
  BY DEF TypeOK, Reconciliation, Pipeline
<1>1. CASE StartReconcile
  <2>1. [plview.status EXCEPT !.targets = NoStatus.targets] \in PipelineStatus
    BY <1>0, NoStatusType DEF PipelineStatus
  <2>2. rec' \in Reconciliation /\ rec'.pc # "get"
    <3>1. CASE plview.phase = "live"
      BY <1>0, <1>1, <2>1, <3>1, LevelTriggeredAssumption
         DEF StartReconcile, Reconciliation
    <3>2. CASE plview.phase # "live"
      BY <1>1, <3>2, IdleType DEF StartReconcile
    <3> QED BY <3>1, <3>2
  <2> QED BY <1>1, <2>2 DEF StartReconcile, TypeOK
<1>2. CASE GetCluster
  <2> DEFINE c == ClusterOf[rec.next]
  <2>1. rec.next \in Target /\ c \in Cluster
    BY <1>0, <1>2, LevelTriggeredAssumption DEF GetCluster, Target
  <2>2. CASE cluster[c] = "ready"
    <3>1. rec' = [rec EXCEPT !.pc = "get"] /\ watched' = watched \cup {c}
      BY <1>2, <2>2 DEF GetCluster
    <3>2. rec' \in Reconciliation /\ rec'.next \in Target
      BY <2>1, <3>1 DEF TypeOK, Reconciliation
    <3> QED BY <1>2, <2>1, <3>1, <3>2 DEF GetCluster, TypeOK
  <2>3. CASE cluster[c] # "ready"
    <3>1. /\ rec' = [rec EXCEPT !.next = rec.next + 1,
                                !.status.targets[rec.next] = Failed("cluster")]
          /\ watched' = watched
      BY <1>2, <2>3 DEF GetCluster
    <3>2. Failed("cluster") \in TargetStatus
      BY FailedType DEF TargetError
    <3>3. [rec.status EXCEPT !.targets[rec.next] = Failed("cluster")] \in PipelineStatus
      BY <1>0, <2>1, <3>2 DEF PipelineStatus
    <3>4. rec.next + 1 \in 1..(NumTargets + 1)
      BY <2>1, LevelTriggeredAssumption DEF Target
    <3>5. rec' = [rec EXCEPT !.next = rec.next + 1,
                    !.status = [rec.status EXCEPT !.targets[rec.next] = Failed("cluster")]]
      BY <3>1
    <3>6. rec' \in Reconciliation /\ rec'.pc = rec.pc
      BY <3>3, <3>4, <3>5 DEF TypeOK, Reconciliation
    <3> QED BY <1>2, <3>1, <3>6 DEF GetCluster, TypeOK
  <2> QED BY <2>2, <2>3
<1>3. CASE GetApplication
  <2> DEFINE t == rec.next
             s == ObserveApp(ClusterOf[t] \in synced, view[t])
  <2>1. t \in Target /\ view[t] \in AppState
    BY <1>3 DEF GetApplication, TypeOK
  <2>2. s \in TargetStatus
    <3>1. \A b \in BOOLEAN : \A a \in AppState : ObserveApp(b, a) \in TargetStatus
      BY ObserveAppFacts
    <3>2. (ClusterOf[t] \in synced) \in BOOLEAN
      OBVIOUS
    <3> QED BY <2>1, <3>1, <3>2
  <2> HIDE DEF s
  <2>3. [rec.status EXCEPT !.targets[t] = s] \in PipelineStatus
    BY <1>0, <2>1, <2>2 DEF PipelineStatus
  <2>4. t + 1 \in 1..(NumTargets + 1)
    BY <2>1, LevelTriggeredAssumption DEF Target
  <2>5. rec' = [rec EXCEPT !.pc = "read", !.next = t + 1,
                           !.status = [rec.status EXCEPT !.targets[t] = s]]
    BY <1>3 DEF GetApplication, s
  <2>6. rec' \in Reconciliation /\ rec'.pc # "get"
    BY <2>3, <2>4, <2>5 DEF TypeOK, Reconciliation
  <2> QED BY <1>3, <2>6 DEF GetApplication, TypeOK
<1>4. CASE PatchStatus
  <2>1. StatusRead \in PipelineStatus
    BY StatusType DEF TypeOK
  <2>2. rec' \in Reconciliation /\ rec'.pc # "get"
    BY <1>4, <2>1 DEF PatchStatus, TypeOK, Reconciliation
  <2>3. pl' \in Pipeline
    BY <1>0, <1>4, <2>1, PatchType DEF PatchStatus, TypeOK
  <2> QED BY <1>4, <2>2, <2>3 DEF PatchStatus, TypeOK
<1>5. CASE Decide
  <2>1. StatusDecided \in PipelineStatus
    BY StatusType DEF TypeOK
  <2>2. rec' \in Reconciliation /\ rec'.pc # "get"
    <3>1. CASE MustWait
      BY <1>5, <3>1, IdleType DEF Decide
    <3>2. CASE ~MustWait
      BY <1>5, <2>1, <3>2 DEF Decide, TypeOK, Reconciliation
    <3> QED BY <3>1, <3>2
  <2>3. pl' \in Pipeline
    BY <1>0, <1>5, <2>1, PatchType DEF Decide, TypeOK
  <2> QED BY <1>5, <2>2, <2>3 DEF Decide, TypeOK
<1>6. CASE PatchNotFound
  BY <1>6, IdleType DEF PatchNotFound, TypeOK
<1>7. CASE Promote
  <2> DEFINE k == NextEnv(rec.status.targets, LatestRevision)
  <2>1. promotions' \subseteq PromotionRecord
    <3>1. CASE k = 0
      BY <1>7, <3>1 DEF Promote, TypeOK
    <3>2. CASE k # 0
      <4>1. k \in Env
        BY <3>2, NextEnvType
      <4>2. DefaultPromotion \in Promotions
        BY <1>7, <3>2, PipelineSpecAssumption DEF Promote
      <4>3. LatestRevision \in Revision
        BY <1>7, LatestRevisionType DEF Promote, ToldNotToWait, MustWait
      <4> QED BY <1>7, <3>2, <4>1, <4>2, <4>3 DEF Promote, TypeOK, PromotionRecord
    <3> QED BY <3>1, <3>2
  <2> QED BY <1>7, <2>1, IdleType DEF Promote, TypeOK
<1>8. CASE ReconcileFails
  BY <1>8, IdleType, LevelTriggeredAssumption DEF ReconcileFails, TypeOK
<1>9. CASE WatchFails
  <2>1. ClusterOf[rec.next] \in Cluster
    BY <1>0, <1>9, LevelTriggeredAssumption DEF WatchFails, Target
  <2>2. deaf' \subseteq Cluster /\ faults' \in 0..MaxFaults
    BY <1>9, <2>1, LevelTriggeredAssumption DEF WatchFails, TypeOK
  <2> QED BY <1>9, <2>2, IdleType DEF WatchFails, TypeOK
<1>10. CASE Restart
  BY <1>10, IdleType, LevelTriggeredAssumption DEF Restart, Restarted, TypeOK
<1>11. CASE PromotePanics
  BY <1>11, IdleType DEF PromotePanics, Restarted, TypeOK
<1> QED
  BY <1>1, <1>2, <1>3, <1>4, <1>5, <1>6, <1>7, <1>8, <1>9, <1>10, <1>11 DEF Reconcile

\* What the caches and the world do keeps the types.
LEMMA TypeEnvironment ==
    ASSUME TypeOK,
           \/ \E c \in Cluster : InformerSync(c)
           \/ \E t \in Target : InformerUpdate(t)
           \/ \E c \in Cluster : SyncEventsLost(c)
           \/ \E t \in Target : UpdateEventLost(t)
           \/ PipelineEvent
           \/ World
    PROVE  TypeOK'
<1> USE DEF world, caches
<1>0. ASSUME NEW targets, DropEvent(targets)
      PROVE  faults' \in 0..MaxFaults /\ lost' \in BOOLEAN /\ queued' \in BOOLEAN
  BY <1>0, LevelTriggeredAssumption DEF DropEvent, TypeOK
<1>1. ASSUME NEW c \in Cluster, InformerSync(c) \/ SyncEventsLost(c) PROVE TypeOK'
  <2>1. CASE InformerSync(c)
    BY <2>1 DEF InformerSync, FirstList, Notify, TypeOK
  <2>2. CASE SyncEventsLost(c)
    BY <1>0, <2>2 DEF SyncEventsLost, FirstList, TypeOK
  <2> QED BY <1>1, <2>1, <2>2
<1>2. ASSUME NEW t \in Target, InformerUpdate(t) \/ UpdateEventLost(t) PROVE TypeOK'
  <2>1. CASE InformerUpdate(t)
    BY <2>1 DEF InformerUpdate, CatchUp, Notify, TypeOK
  <2>2. CASE UpdateEventLost(t)
    BY <1>0, <2>2 DEF UpdateEventLost, CatchUp, TypeOK
  <2> QED BY <1>2, <2>1, <2>2
<1>3. CASE PipelineEvent
  BY <1>3 DEF PipelineEvent, TypeOK
<1>4. CASE World
  <2> USE DEF WorldMoves, Disruption
  <2>1. ASSUME NEW t \in Target, NEW r \in Revision, ApplyRevision(t, r) \/ Rollback(t, r)
        PROVE  TypeOK'
    <3>1. app' \in [Target -> AppState]
      BY <2>1 DEF ApplyRevision, Rollback, TypeOK, AppState, AppPhase
    <3>2. disruptions' \in 0..MaxDisruptions
      BY <2>1, LevelTriggeredAssumption DEF ApplyRevision, Rollback, TypeOK
    <3> QED BY <2>1, <3>1, <3>2 DEF ApplyRevision, Rollback, TypeOK
  <2>2. ASSUME NEW t \in Target,
               BecomeReady(t) \/ BecomeUnready(t) \/ DeleteApp(t) \/ CreateApp(t)
        PROVE  TypeOK'
    <3>1. app' \in [Target -> AppState]
      BY <2>2 DEF BecomeReady, BecomeUnready, DeleteApp, CreateApp, TypeOK, AppState, AppPhase
    <3>2. disruptions' \in 0..MaxDisruptions
      BY <2>2, LevelTriggeredAssumption
         DEF BecomeReady, BecomeUnready, DeleteApp, CreateApp, TypeOK
    <3>3. proven' \subseteq Target \X (Revision \cup {NoRevision})
      BY <2>2 DEF BecomeReady, BecomeUnready, DeleteApp, CreateApp, TypeOK, AppState
    <3> QED BY <2>2, <3>1, <3>2, <3>3
            DEF BecomeReady, BecomeUnready, DeleteApp, CreateApp, TypeOK
  <2>3. ASSUME NEW c \in Cluster, NEW s \in {"absent", "unready", "ready"},
               ClusterChange(c, s) \/ ClusterEventLost(c, s)
        PROVE  TypeOK'
    <3>1. disruptions' \in 0..MaxDisruptions
      BY <2>3, LevelTriggeredAssumption DEF ClusterChange, ClusterEventLost, TypeOK
    <3>2. CASE ClusterChange(c, s)
      BY <3>1, <3>2 DEF ClusterChange, TypeOK
    <3>3. CASE ClusterEventLost(c, s)
      BY <3>1, <3>3 DEF ClusterEventLost, TypeOK
    <3> QED BY <2>3, <3>2, <3>3
  <2>4. CASE DeletePipeline
    <3>1. pl' \in Pipeline
      BY <2>4 DEF DeletePipeline, TypeOK, Pipeline
    <3> QED BY <2>4, <3>1, LevelTriggeredAssumption DEF DeletePipeline, TypeOK
  <2> QED BY <1>4, <2>1, <2>2, <2>3, <2>4 DEF World
<1> QED BY <1>1, <1>2, <1>3, <1>4

\* Every variable always has the shape the code gives it; in particular, only
\* revisions are promoted, and only with the promotion of a spec that has one
\* (Reconcile, promoteLatestRevision).
THEOREM TypeCorrect == Spec => []TypeOK
<1> DEFINE Inv == TypeOK /\ ToldNotToWait
<1>1. Init => Inv
  BY TypeInit, IdleType DEF Init, ToldNotToWait
<1>2. Inv /\ [Next]_vars => Inv'
  <2> SUFFICES ASSUME Inv, [Next]_vars PROVE Inv'
    OBVIOUS
  <2>1. CASE UNCHANGED vars
    BY <2>1, ToldNotToWaitStep DEF vars, TypeOK
  <2>2. CASE Next
    BY <2>2, ToldNotToWaitStep, TypeReconcile, TypeEnvironment DEF Next
  <2> QED BY <2>1, <2>2
<1> QED BY <1>1, <1>2, PTL DEF Spec

-----------------------------------------------------------------------------
(***************************************************************************)
(* The gate.  Everything the controller holds or has written about a       *)
(* target being ready goes back to a moment at which the target was ready. *)
(***************************************************************************)

\* every target that status calls ready was ready at its revision
Justified(status, evidence) ==
    \A t \in Target : status.targets[t].ready =>
        /\ status.targets[t].rev # NoRevision
        /\ <<t, status.targets[t].rev>> \in evidence

\* the application objects, and the informers' copies of them
AppsProven ==
    \A t \in Target :
        /\ app[t].phase = "ready" => <<t, app[t].rev>> \in proven
        /\ view[t].phase = "ready" => <<t, view[t].rev>> \in proven

\* the Pipeline, its cached copy, and what Reconcile is working on
StatusesProven ==
    /\ Justified(rec.status, proven)
    /\ Justified(rec.base, proven)
    /\ Justified(pl.status, proven)
    /\ Justified(plview.status, proven)

\* the inductive invariant
GateInv ==
    /\ TypeOK
    /\ ToldNotToWait
    /\ AppsProven
    /\ StatusesProven
    /\ PromotedOnlyProven

\* A status that calls nothing ready needs no evidence.
LEMMA NoStatusJustified == ASSUME NEW evidence PROVE Justified(NoStatus, evidence)
<1>1. \A t \in Target : ~NoStatus.targets[t].ready
  BY DEF NoStatus, Unreported, Failed
<1> QED BY <1>1 DEF Justified

\* Evidence can only be added to.
LEMMA JustifiedMore ==
    ASSUME NEW status, NEW less, NEW more, less \subseteq more, Justified(status, less)
    PROVE  Justified(status, more)
BY DEF Justified

\* Only the targets of a status matter.
LEMMA JustifiedTargets ==
    ASSUME NEW s1, NEW s2, NEW evidence,
           s1.targets = s2.targets, Justified(s1, evidence)
    PROVE  Justified(s2, evidence)
BY DEF Justified

\* A target's status replaced by a justified one.
LEMMA JustifiedUpdate ==
    ASSUME NEW s \in PipelineStatus, NEW evidence, Justified(s, evidence),
           NEW t \in Target, NEW x \in TargetStatus,
           x.ready => x.rev # NoRevision /\ <<t, x.rev>> \in evidence
    PROVE  Justified([s EXCEPT !.targets[t] = x], evidence)
<1> DEFINE n == [s EXCEPT !.targets[t] = x]
<1>1. \A u \in Target : n.targets[u] = IF u = t THEN x ELSE s.targets[u]
  BY DEF PipelineStatus
<1> HIDE DEF n
<1>2. Justified(n, evidence)
  BY <1>1 DEF Justified
<1> QED BY <1>2 DEF n

\* A merge patch takes every target from one of two statuses.
LEMMA MergePatchJustified ==
    ASSUME NEW base, NEW new, NEW cur, NEW evidence,
           Justified(new, evidence), Justified(cur, evidence)
    PROVE  Justified(MergePatch(base, new, cur), evidence)
<1> DEFINE m == MergePatch(base, new, cur)
<1>1. \A t \in Target : m.targets[t] = new.targets[t] \/ m.targets[t] = cur.targets[t]
  BY DEF MergePatch
<1> HIDE DEF m
<1>2. Justified(m, evidence)
  BY <1>1 DEF Justified
<1> QED BY <1>2 DEF m

\* What Promote promotes has been ready in all earlier environments.
LEMMA PromoteGate ==
    ASSUME GateInv, Promote
    PROVE  PromotedOnlyProven'
<1> DEFINE targets == rec.status.targets
           r == LatestRevision
           k == NextEnv(targets, r)
<1>1. CASE k = 0
  BY <1>1 DEF Promote, GateInv, PromotedOnlyProven
<1>2. CASE k # 0
  <2>1. /\ promotions' = promotions \cup
              {[env |-> k, rev |-> r, spec |-> DefaultPromotion]}
        /\ proven' = proven
    BY <1>2 DEF Promote
  <2>2. r # NoRevision /\ checkAllTargetsAreReady(targets, 1)
    BY DEF Promote, GateInv, ToldNotToWait, MustWait
  <2>3. ASSUME NEW t \in Target, EnvOf[t] < k
        PROVE  <<t, r>> \in proven
    <3>1. targets[t].ready /\ targets[t].rev = r
      <4>1. EnvOf[t] \in Env
        BY LevelTriggeredAssumption
      <4>2. CASE EnvOf[t] = 1
        <5>1. t \in EnvTargets(1)
          BY <4>2 DEF EnvTargets
        <5>2. \E q \in Revision : \A u \in EnvTargets(1) : targets[u].rev = q
          BY <2>2 DEF LatestRevision, checkAllTargetsHaveSameRevision
        <5>3. \A u \in EnvTargets(1) : targets[u].rev = r
          BY <2>2, <5>2 DEF LatestRevision, checkAllTargetsHaveSameRevision
        <5> QED BY <2>2, <5>1, <5>3 DEF checkAllTargetsAreReady
      <4>3. CASE EnvOf[t] # 1
        <5>1. EnvOf[t] \notin Undone(targets, r)
          <6>1. k \in Env /\ \A i \in Undone(targets, r) : k <= i
            BY <1>2, NextEnvType
          <6> QED BY <2>3, <4>1, <6>1, PipelineSpecAssumption DEF Env
        <5>2. Done(targets, EnvOf[t], r)
          BY <4>1, <4>3, <5>1, PipelineSpecAssumption DEF Undone, Env
        <5>3. t \in EnvTargets(EnvOf[t])
          BY DEF EnvTargets
        <5> QED BY <5>2, <5>3
                DEF Done, checkAllTargetsRunRevision, checkAllTargetsAreReady
      <4> QED BY <4>2, <4>3
    <3>2. Justified(rec.status, proven)
      BY DEF GateInv, StatusesProven
    <3> QED BY <3>1, <3>2 DEF Justified
  <2> HIDE DEF k, r
  <2>4. ASSUME NEW p \in promotions', NEW t \in Target, EnvOf[t] < p.env
        PROVE  <<t, p.rev>> \in proven'
    <3>1. CASE p \in promotions
      BY <2>1, <2>4, <3>1 DEF GateInv, PromotedOnlyProven
    <3>2. CASE p = [env |-> k, rev |-> r, spec |-> DefaultPromotion]
      BY <2>1, <2>3, <2>4, <3>2
    <3> QED BY <2>1, <3>1, <3>2
  <2> QED BY <2>4 DEF PromotedOnlyProven
<1> QED BY <1>1, <1>2

\* Nothing that was ever ready is forgotten.
LEMMA ProvenGrows ==
    ASSUME [Next]_vars
    PROVE  proven \subseteq proven'
<1>1. CASE World
  BY <1>1 DEF World, ApplyRevision, Rollback, BecomeReady, BecomeUnready, DeleteApp,
              CreateApp, ClusterChange, ClusterEventLost, DeletePipeline
<1>2. CASE Reconcile
  BY <1>2 DEF Reconcile, StartReconcile, GetCluster, GetApplication, PatchStatus,
              Decide, PatchNotFound, Promote
<1>3. CASE \/ WatchFails \/ ReconcileFails \/ Restart \/ PromotePanics \/ PipelineEvent
           \/ \E c \in Cluster : InformerSync(c)
           \/ \E t \in Target : InformerUpdate(t)
           \/ \E c \in Cluster : SyncEventsLost(c)
           \/ \E t \in Target : UpdateEventLost(t)
           \/ UNCHANGED vars
  BY <1>3 DEF WatchFails, ReconcileFails, Restart, PromotePanics, Restarted, PipelineEvent,
              InformerSync, SyncEventsLost, FirstList,
              InformerUpdate, UpdateEventLost, CatchUp, vars
<1> QED BY <1>1, <1>2, <1>3 DEF Next

\* Application objects and the informers' copies: a target that becomes ready
\* is proven at that moment, and a copy is a copy of what it was then.
LEMMA AppsProvenStep ==
    ASSUME GateInv, [Next]_vars
    PROVE  AppsProven'
<1> USE DEF GateInv
<1>1. proven \subseteq proven'
  BY ProvenGrows
<1>2. CASE app' = app /\ view' = view
  BY <1>1, <1>2 DEF AppsProven
<1>3. CASE /\ app' = app
           /\ \A t \in Target : view'[t] = view[t] \/ view'[t] = app[t]
  BY <1>1, <1>3 DEF AppsProven
<1>4. ASSUME NEW t \in Target, view' = view,
             \/ app' = [app EXCEPT ![t].phase = "ready"]
                /\ <<t, app[t].rev>> \in proven'
             \/ \E r \in Revision : app' = [app EXCEPT ![t] =
                                              [phase |-> "progressing", rev |-> r]]
             \/ \E ph \in {"progressing", "absent", "new"} :
                    app' = [app EXCEPT ![t].phase = ph]
      PROVE  AppsProven'
  <2>1. \A u \in Target : u # t => app'[u] = app[u]
    BY <1>4 DEF TypeOK
  <2>2. app'[t].phase = "ready" => <<t, app'[t].rev>> \in proven'
    <3>1. app \in [Target -> AppState] /\ app[t] \in AppState
      BY DEF TypeOK
    <3>2. CASE app' = [app EXCEPT ![t].phase = "ready"] /\ <<t, app[t].rev>> \in proven'
      <4>1. app'[t].rev = app[t].rev
        BY <3>1, <3>2 DEF AppState
      <4> QED BY <3>2, <4>1
    <3>3. CASE \E r \in Revision : app' = [app EXCEPT ![t] =
                                              [phase |-> "progressing", rev |-> r]]
      BY <3>1, <3>3
    <3>4. CASE \E ph \in {"progressing", "absent", "new"} :
                    app' = [app EXCEPT ![t].phase = ph]
      BY <3>1, <3>4 DEF AppState
    <3> QED BY <1>4, <3>2, <3>3, <3>4
  <2> QED BY <1>1, <1>4, <2>1, <2>2 DEF AppsProven
<1>5. CASE World
  <2> USE DEF WorldMoves, Disruption, caches
  <2>1. ASSUME NEW t \in Target, NEW r \in Revision, ApplyRevision(t, r) \/ Rollback(t, r)
        PROVE  AppsProven'
    BY <1>4, <2>1 DEF ApplyRevision, Rollback
  <2>2. ASSUME NEW t \in Target, BecomeReady(t)
        PROVE  AppsProven'
    BY <1>4, <2>2 DEF BecomeReady
  <2>3. ASSUME NEW t \in Target, BecomeUnready(t) \/ DeleteApp(t) \/ CreateApp(t)
        PROVE  AppsProven'
    BY <1>4, <2>3 DEF BecomeUnready, DeleteApp, CreateApp
  <2>4. CASE \/ DeletePipeline
             \/ \E c \in Cluster : \E s \in {"absent", "unready", "ready"} :
                    ClusterChange(c, s) \/ ClusterEventLost(c, s)
    BY <1>2, <2>4 DEF DeletePipeline, ClusterChange, ClusterEventLost
  <2> QED BY <1>5, <2>1, <2>2, <2>3, <2>4 DEF World
<1>6. CASE Reconcile
  BY <1>2, <1>6 DEF Reconcile, StartReconcile, GetCluster, GetApplication, PatchStatus,
                    Decide, PatchNotFound, Promote, world, caches
<1>7. CASE WatchFails \/ ReconcileFails \/ Restart \/ PromotePanics \/ PipelineEvent \/ UNCHANGED vars
  BY <1>2, <1>7 DEF WatchFails, ReconcileFails, Restart, PromotePanics, Restarted, PipelineEvent,
                    world, caches, vars
<1>8. CASE \/ \E c \in Cluster : InformerSync(c)
           \/ \E t \in Target : InformerUpdate(t)
           \/ \E c \in Cluster : SyncEventsLost(c)
           \/ \E t \in Target : UpdateEventLost(t)
  BY <1>3, <1>8 DEF InformerSync, SyncEventsLost, FirstList,
              InformerUpdate, UpdateEventLost, CatchUp, world, TypeOK
<1> QED BY <1>5, <1>6, <1>7, <1>8 DEF Next

\* A patch of a justified status with a justified one.
LEMMA PatchJustified ==
    ASSUME NEW base, NEW new, Patch(base, new), pl \in Pipeline,
           Justified(new, proven), Justified(pl.status, proven)
    PROVE  Justified(pl'.status, proven)
<1>1. CASE pl' = pl
  BY <1>1
<1>2. CASE pl' = [pl EXCEPT !.status = MergePatch(base, new, pl.status)]
  <2>1. pl'.status = MergePatch(base, new, pl.status)
    BY <1>2 DEF Pipeline
  <2> QED BY <2>1, MergePatchJustified
<1> QED BY <1>1, <1>2 DEF Patch

\* Statuses: Reconcile makes them of what the informers hold, and the patches
\* mix them.
LEMMA StatusesProvenStep ==
    ASSUME GateInv, [Next]_vars
    PROVE  StatusesProven'
<1> USE DEF GateInv
<1>0. /\ rec.status \in PipelineStatus /\ plview.status \in PipelineStatus
      /\ Justified(NoStatus, proven)
  BY NoStatusJustified DEF TypeOK, Reconciliation, Pipeline
<1>1. proven \subseteq proven'
  BY ProvenGrows
<1>2. ASSUME /\ Justified(rec'.status, proven)
             /\ Justified(rec'.base, proven)
             /\ Justified(pl'.status, proven)
             /\ Justified(plview'.status, proven)
      PROVE  StatusesProven'
  BY <1>1, <1>2, JustifiedMore DEF StatusesProven
<1>3. Idle.status = NoStatus /\ Idle.base = NoStatus
  BY DEF Idle
<1>4. CASE StartReconcile
  <2>1. Justified(rec'.status, proven) /\ Justified(rec'.base, proven)
    <3>1. CASE plview.phase = "live"
      <4>1. rec'.status.targets = NoStatus.targets /\ rec'.base = plview.status
        BY <1>0, <1>4, <3>1 DEF StartReconcile, PipelineStatus
      <4> QED BY <1>0, <4>1, JustifiedTargets DEF StatusesProven
    <3>2. CASE plview.phase # "live"
      BY <1>0, <1>3, <1>4, <3>2 DEF StartReconcile
    <3> QED BY <3>1, <3>2
  <2> QED BY <1>2, <1>4, <2>1 DEF StartReconcile, StatusesProven
<1>5. CASE GetCluster
  <2> DEFINE t == rec.next
             c == ClusterOf[t]
  <2>1. CASE cluster[c] = "ready"
    <3>1. rec'.status = rec.status /\ rec'.base = rec.base
      BY <1>5, <2>1 DEF GetCluster, TypeOK, Reconciliation
    <3> QED BY <1>2, <1>5, <3>1 DEF GetCluster, StatusesProven
  <2>2. CASE cluster[c] # "ready"
    <3> DEFINE x == Failed("cluster")
    <3>1. /\ rec'.status = [rec.status EXCEPT !.targets[t] = x]
          /\ rec'.base = rec.base
      BY <1>5, <2>2 DEF GetCluster, TypeOK, Reconciliation
    <3>2. t \in Target
      BY <1>5, LevelTriggeredAssumption DEF GetCluster, Target, TypeOK, Reconciliation
    <3>3. x \in TargetStatus
          /\ (x.ready => x.rev # NoRevision /\ <<t, x.rev>> \in proven)
      <4>1. x \in TargetStatus /\ ~x.ready
        BY DEF Failed, TargetStatus, TargetError, NoRevision
      <4> QED BY <4>1
    <3> HIDE DEF x
    <3>4. Justified(rec'.status, proven)
      BY <1>0, <3>1, <3>2, <3>3, JustifiedUpdate DEF StatusesProven
    <3> QED BY <1>2, <1>5, <3>1, <3>4 DEF GetCluster, StatusesProven
  <2> QED BY <2>1, <2>2
<1>6. CASE GetApplication
  <2> DEFINE t == rec.next
             x == ObserveApp(ClusterOf[t] \in synced, view[t])
  <2>1. t \in Target /\ view[t] \in AppState
    BY <1>6 DEF GetApplication, TypeOK
  <2>2. x \in TargetStatus
        /\ (x.ready => x.rev # NoRevision /\ <<t, x.rev>> \in proven)
    <3>1. \A b \in BOOLEAN : \A a \in AppState :
             /\ ObserveApp(b, a) \in TargetStatus
             /\ ObserveApp(b, a).ready =>
                   a.phase = "ready" /\ a.rev # NoRevision /\ ObserveApp(b, a).rev = a.rev
      BY ObserveAppFacts
    <3>2. (ClusterOf[t] \in synced) \in BOOLEAN
      OBVIOUS
    <3>3. x \in TargetStatus
          /\ (x.ready => view[t].phase = "ready" /\ view[t].rev # NoRevision
                         /\ x.rev = view[t].rev)
      BY <2>1, <3>1, <3>2
    <3> QED BY <2>1, <3>3 DEF AppsProven
  <2> HIDE DEF x
  <2>3. rec'.status = [rec.status EXCEPT !.targets[t] = x] /\ rec'.base = rec.base
    BY <1>6 DEF GetApplication, TypeOK, Reconciliation, x
  <2>4. Justified(rec'.status, proven)
    BY <1>0, <2>1, <2>2, <2>3, JustifiedUpdate DEF StatusesProven
  <2> QED BY <1>2, <1>6, <2>3, <2>4 DEF GetApplication, StatusesProven
<1>7. CASE PatchStatus
  <2>1. StatusRead.targets = rec.status.targets
    BY <1>0 DEF StatusRead, PipelineStatus
  <2>2. Justified(StatusRead, proven)
    BY <2>1, JustifiedTargets DEF StatusesProven
  <2>3. rec'.status = StatusRead /\ rec'.base = StatusRead
    BY <1>7 DEF PatchStatus, TypeOK, Reconciliation
  <2>4. Justified(pl'.status, proven)
    BY <1>7, <2>2, PatchJustified DEF PatchStatus, StatusesProven, TypeOK
  <2> QED BY <1>2, <1>7, <2>2, <2>3, <2>4 DEF PatchStatus, StatusesProven
<1>8. CASE Decide
  <2>1. StatusDecided.targets = rec.status.targets
    BY <1>0 DEF StatusDecided, PipelineStatus
  <2>2. Justified(StatusDecided, proven)
    BY <2>1, JustifiedTargets DEF StatusesProven
  <2>3. Justified(pl'.status, proven)
    BY <1>8, <2>2, PatchJustified DEF Decide, StatusesProven, TypeOK
  <2>4. CASE MustWait
    BY <1>0, <1>2, <1>3, <1>8, <2>3, <2>4 DEF Decide, StatusesProven
  <2>5. CASE ~MustWait
    <3>1. rec'.status = StatusDecided /\ rec'.base = StatusDecided
      BY <1>8, <2>5 DEF Decide, TypeOK, Reconciliation
    <3> QED BY <1>2, <1>8, <2>2, <2>3, <3>1 DEF Decide, StatusesProven
  <2> QED BY <2>4, <2>5
<1>9. CASE PatchNotFound \/ Promote \/ WatchFails \/ ReconcileFails
  BY <1>0, <1>2, <1>3, <1>9
     DEF PatchNotFound, Promote, WatchFails, ReconcileFails, StatusesProven
<1>10. CASE Restart \/ PromotePanics
  BY <1>0, <1>2, <1>3, <1>10 DEF Restart, PromotePanics, Restarted, StatusesProven
<1>11. CASE \/ \E c \in Cluster : InformerSync(c)
            \/ \E t \in Target : InformerUpdate(t)
            \/ \E c \in Cluster : SyncEventsLost(c)
            \/ \E t \in Target : UpdateEventLost(t)
            \/ PipelineEvent
            \/ UNCHANGED vars
  BY <1>2, <1>11 DEF InformerSync, SyncEventsLost, FirstList,
              InformerUpdate, UpdateEventLost, CatchUp,
                            PipelineEvent, vars, StatusesProven
<1>12. CASE World
  <2>1. rec' = rec /\ plview' = plview
    BY <1>12 DEF World, ApplyRevision, Rollback, BecomeReady, BecomeUnready, DeleteApp,
                 CreateApp, ClusterChange, ClusterEventLost, DeletePipeline,
                Disruption, WorldMoves
  <2>2. pl'.status = pl.status
    BY <1>12 DEF World, ApplyRevision, Rollback, BecomeReady, BecomeUnready, DeleteApp,
                 CreateApp, ClusterChange, ClusterEventLost, DeletePipeline, TypeOK, Pipeline
  <2> QED BY <1>2, <2>1, <2>2 DEF StatusesProven
<1> QED BY <1>4, <1>5, <1>6, <1>7, <1>8, <1>9, <1>10, <1>11, <1>12 DEF Next, Reconcile

\* Nothing but Promote adds to the promotions.
LEMMA OnlyPromote ==
    ASSUME [Next]_vars
    PROVE  Promote \/ promotions' = promotions
<1>1. CASE World
  BY <1>1 DEF World, ApplyRevision, Rollback, BecomeReady, BecomeUnready, DeleteApp,
              CreateApp, ClusterChange, ClusterEventLost, DeletePipeline,
              Disruption, WorldMoves
<1>2. CASE Reconcile
  BY <1>2 DEF Reconcile, StartReconcile, GetCluster, GetApplication, PatchStatus,
              Decide, PatchNotFound
<1>3. CASE \/ WatchFails \/ ReconcileFails \/ Restart \/ PromotePanics \/ PipelineEvent
           \/ \E c \in Cluster : InformerSync(c)
           \/ \E t \in Target : InformerUpdate(t)
           \/ \E c \in Cluster : SyncEventsLost(c)
           \/ \E t \in Target : UpdateEventLost(t)
           \/ UNCHANGED vars
  BY <1>3 DEF WatchFails, ReconcileFails, Restart, PromotePanics, Restarted, PipelineEvent,
              InformerSync, SyncEventsLost, FirstList,
              InformerUpdate, UpdateEventLost, CatchUp, vars
<1> QED BY <1>1, <1>2, <1>3 DEF Next

\* The gate: a promotion needs every target of the earlier environments to have
\* been ready at that revision; later events take nothing back.
LEMMA PromotedOnlyProvenStep ==
    ASSUME GateInv, [Next]_vars
    PROVE  PromotedOnlyProven'
<1>1. CASE Promote
  BY <1>1, PromoteGate
<1>2. CASE promotions' = promotions
  BY <1>2, ProvenGrows DEF GateInv, PromotedOnlyProven
<1>3. Promote \/ promotions' = promotions
  BY OnlyPromote
<1> QED BY <1>1, <1>2, <1>3

\* The invariant holds at the start: nothing is called ready yet.
LEMMA GateInit == Init => GateInv
<1> SUFFICES ASSUME Init PROVE GateInv
  OBVIOUS
<1>1. TypeOK
  BY TypeInit
<1>2. ToldNotToWait
  BY IdleType DEF Init, ToldNotToWait
<1>3. AppsProven
  BY DEF Init, AppsProven
<1>4. StatusesProven
  <2>1. rec.status = NoStatus /\ rec.base = NoStatus
    BY DEF Init, Idle
  <2>2. pl.status = NoStatus /\ plview.status = NoStatus
    BY DEF Init
  <2> QED BY <2>1, <2>2, NoStatusJustified DEF StatusesProven
<1> QED BY <1>1, <1>2, <1>3, <1>4 DEF GateInv, Init, PromotedOnlyProven

\* The inductive invariant of the gate.
THEOREM GateInvariant == Spec => []GateInv
<1>1. GateInv /\ [Next]_vars => GateInv'
  <2> SUFFICES ASSUME GateInv, [Next]_vars PROVE GateInv'
    OBVIOUS
  <2>1. TypeOK' /\ ToldNotToWait'
    <3>1. CASE UNCHANGED vars
      BY <3>1, ToldNotToWaitStep DEF vars, TypeOK, GateInv
    <3>2. CASE Next
      BY <3>2, ToldNotToWaitStep, TypeReconcile, TypeEnvironment DEF Next, GateInv
    <3> QED BY <3>1, <3>2
  <2> QED BY <2>1, AppsProvenStep, StatusesProvenStep, PromotedOnlyProvenStep DEF GateInv
<1> QED BY <1>1, GateInit, PTL DEF Spec

\* A revision is promoted to an environment only after every target of every
\* earlier environment has been ready at it, for any Pipeline, any number of
\* stale reads, failures, restarts and changes of the world (Reconcile).
THEOREM OnlyProvenPromoted == Spec => []PromotedOnlyProven
BY GateInvariant, PTL DEF GateInv

\* The Pipeline's status calls a target ready only at a revision at which the
\* target has been ready (setTargetStatus, patcher.Patch).
THEOREM OnlyProvenReported == Spec => []StatusOnlyProven
<1>1. GateInv => StatusOnlyProven
  BY DEF GateInv, StatusesProven, Justified, StatusOnlyProven
<1> QED BY <1>1, GateInvariant, PTL

-----------------------------------------------------------------------------
(***************************************************************************)
(* Promotions move forward.  The revision of a target of the first         *)
(* environment only grows on its way from the informer's past to the       *)
(* cluster's present, and promotions lie behind all of it.                 *)
(***************************************************************************)

ForwardInv ==
    \A t \in EnvTargets(1) :
        /\ view[t].rev <= app[t].rev
        /\ rec.status.targets[t].rev <= view[t].rev
        /\ \A p \in promotions : p.rev <= view[t].rev
        /\ \A p \in promotions : \/ rec.status.targets[t].rev = NoRevision
                                 \/ p.rev <= rec.status.targets[t].rev

\* What Reconcile records of an application is its revision, or none.
LEMMA ObserveAppRev ==
    ASSUME NEW isSynced \in BOOLEAN, NEW obj \in AppState
    PROVE  ObserveApp(isSynced, obj).rev \in {NoRevision, obj.rev}
<1>1. \A cause : Failed(cause).rev = NoRevision
  BY DEF Failed
<1>2. CASE ~isSynced \/ obj.phase = "absent"
  BY <1>1, <1>2 DEF ObserveApp
<1>3. CASE isSynced /\ obj.phase # "absent"
  <2>1. ObserveApp(isSynced, obj) = setTargetStatus(obj)
    BY <1>3 DEF ObserveApp
  <2>2. CASE obj.phase = "new"
    BY <2>1, <2>2 DEF setTargetStatus
  <2>3. CASE obj.phase = "ready" /\ obj.rev = NoRevision
    BY <1>1, <2>1, <2>3 DEF setTargetStatus
  <2>4. CASE obj.phase # "new" /\ ~(obj.phase = "ready" /\ obj.rev = NoRevision)
    BY <2>1, <2>4 DEF setTargetStatus
  <2> QED BY <2>2, <2>3, <2>4
<1> QED BY <1>2, <1>3

\* Revisions, and the absence of one, are natural numbers.
LEMMA RevisionNat == Revision \subseteq Nat \ {0} /\ NoRevision = 0
BY PipelineSpecAssumption DEF Revision, NoRevision

\* A status without targets read carries no revisions.
LEMMA NoStatusRev == \A t \in Target : NoStatus.targets[t].rev = NoRevision
BY DEF NoStatus, Unreported, Failed

\* A promotion is of the revision that Reconcile has read from every target of
\* the first environment, of which there is one.
LEMMA PromoteRevision ==
    ASSUME TypeOK, ToldNotToWait, Promote
    PROVE  /\ LatestRevision \in Revision
           /\ EnvTargets(1) # {}
           /\ \A t \in EnvTargets(1) : rec.status.targets[t].rev = LatestRevision
           /\ \A p \in promotions' : p \in promotions \/ p.rev = LatestRevision
<1> DEFINE targets == rec.status.targets
           r == LatestRevision
<1>1. r # NoRevision
  BY DEF Promote, ToldNotToWait, MustWait
<1>2. r \in Revision
  BY <1>1, LatestRevisionType
<1>3. /\ \E q \in Revision : \A u \in EnvTargets(1) : targets[u].rev = q
      /\ EnvTargets(1) # {}
  BY <1>1 DEF LatestRevision, checkAllTargetsHaveSameRevision
<1>4. \A u \in EnvTargets(1) : targets[u].rev = r
  BY <1>1, <1>3 DEF LatestRevision, checkAllTargetsHaveSameRevision
<1>5. \A p \in promotions' : p \in promotions \/ p.rev = r
  <2> HIDE DEF r
  <2>1. \/ promotions' = promotions
        \/ \E k : promotions' = promotions \cup
                     {[env |-> k, rev |-> r, spec |-> DefaultPromotion]}
    BY DEF Promote, r
  <2> QED BY <2>1
<1> QED BY <1>2, <1>3, <1>4, <1>5

\* The invariant is kept by every step, if the first environment is not rolled
\* back.
LEMMA ForwardStep ==
    ASSUME TypeOK, ToldNotToWait, ForwardInv, Rollbacks = FALSE, [Next]_vars
    PROVE  ForwardInv'
<1>0. /\ EnvTargets(1) \subseteq Target
      /\ \A t \in Target : /\ app[t].rev \in Nat /\ view[t].rev \in Nat
                           /\ rec.status.targets[t].rev \in Nat
      /\ \A p \in promotions : p.rev \in Nat
      /\ rec.status \in PipelineStatus
  <2>1. Revision \cup {NoRevision} \subseteq Nat
    BY RevisionNat
  <2>2. \A t \in Target : app[t] \in AppState /\ view[t] \in AppState
    BY DEF TypeOK
  <2>3. rec.status \in PipelineStatus
    BY DEF TypeOK, Reconciliation
  <2>4. \A t \in Target : rec.status.targets[t] \in TargetStatus
    BY <2>3 DEF PipelineStatus
  <2>5. \A p \in promotions : p \in PromotionRecord
    BY DEF TypeOK
  <2> QED BY <2>1, <2>2, <2>3, <2>4, <2>5
          DEF AppState, TargetStatus, PromotionRecord, EnvTargets
<1> DEFINE T == EnvTargets(1)
<1>1. ASSUME app' = app, view' = view, promotions' = promotions,
             \A t \in T : rec'.status.targets[t].rev \in {NoRevision, rec.status.targets[t].rev}
      PROVE  ForwardInv'
  BY <1>0, <1>1, RevisionNat DEF ForwardInv
<1>2. \A t \in T : Idle.status.targets[t].rev = NoRevision
  BY <1>0, NoStatusRev DEF Idle
<1>3. CASE StartReconcile
  <2>1. \A t \in T : rec'.status.targets[t].rev = NoRevision
    <3>1. CASE plview.phase = "live"
      <4>1. rec'.status.targets = NoStatus.targets
        BY <1>3, <3>1 DEF StartReconcile, TypeOK, Pipeline, PipelineStatus
      <4> QED BY <1>0, <4>1, NoStatusRev
    <3>2. CASE plview.phase # "live"
      BY <1>2, <1>3, <3>2 DEF StartReconcile
    <3> QED BY <3>1, <3>2
  <2> QED BY <1>1, <1>3, <2>1 DEF StartReconcile, world, caches
<1>4. CASE GetCluster
  <2> DEFINE u == rec.next
             x == Failed("cluster")
  <2>1. \/ rec'.status = rec.status
        \/ rec'.status = [rec.status EXCEPT !.targets[u] = x]
    BY <1>4 DEF GetCluster, TypeOK, Reconciliation
  <2>2. x.rev = NoRevision
    BY DEF Failed
  <2> HIDE DEF x
  <2>3. \A t \in T : \/ rec'.status.targets[t] = rec.status.targets[t]
                     \/ rec'.status.targets[t] = x
    BY <1>0, <2>1 DEF PipelineStatus
  <2>4. \A t \in T : rec'.status.targets[t].rev \in {NoRevision, rec.status.targets[t].rev}
    BY <2>2, <2>3
  <2> QED BY <1>1, <1>4, <2>4 DEF GetCluster, world
<1>5. CASE GetApplication
  <2> DEFINE u == rec.next
             x == ObserveApp(ClusterOf[u] \in synced, view[u])
  <2>1. u \in Target /\ view[u] \in AppState
    BY <1>5 DEF GetApplication, TypeOK
  <2>2. x.rev \in {NoRevision, view[u].rev}
    <3>1. \A b \in BOOLEAN : \A a \in AppState : ObserveApp(b, a).rev \in {NoRevision, a.rev}
      BY ObserveAppRev
    <3>2. (ClusterOf[u] \in synced) \in BOOLEAN
      OBVIOUS
    <3> QED BY <2>1, <3>1, <3>2
  <2> HIDE DEF x
  <2>3. rec'.status = [rec.status EXCEPT !.targets[u] = x]
    BY <1>5 DEF GetApplication, TypeOK, Reconciliation, x
  <2>4. \A t \in T : rec'.status.targets[t] = IF t = u THEN x ELSE rec.status.targets[t]
    BY <1>0, <2>3 DEF PipelineStatus
  <2>5. app' = app /\ view' = view /\ promotions' = promotions
    BY <1>5 DEF GetApplication, world, caches
  <2> QED BY <1>0, <2>2, <2>4, <2>5, RevisionNat DEF ForwardInv
<1>6. CASE PatchStatus
  <2>1. rec'.status.targets = rec.status.targets
    BY <1>0, <1>6 DEF PatchStatus, StatusRead, TypeOK, Reconciliation, PipelineStatus
  <2> QED BY <1>1, <1>6, <2>1 DEF PatchStatus, world, caches
<1>7. CASE Decide
  <2>1. CASE MustWait
    BY <1>1, <1>2, <1>7, <2>1 DEF Decide, world, caches
  <2>2. CASE ~MustWait
    <3>1. rec'.status.targets = rec.status.targets
      BY <1>0, <1>7, <2>2 DEF Decide, StatusDecided, TypeOK, Reconciliation, PipelineStatus
    <3> QED BY <1>1, <1>7, <3>1 DEF Decide, world, caches
  <2> QED BY <2>1, <2>2
<1>8. CASE Promote
  <2>1. app' = app /\ view' = view /\ rec' = Idle
    BY <1>8 DEF Promote, world, caches
  <2> HIDE DEF T
  <2>2. \A t \in T : \A p \in promotions' : p.rev <= view[t].rev
    BY <1>8, PromoteRevision DEF ForwardInv, T
  <2> QED BY <1>0, <1>2, <2>1, <2>2, RevisionNat DEF ForwardInv, T
<1>9. CASE PatchNotFound \/ WatchFails \/ ReconcileFails \/ Restart \/ PromotePanics
  BY <1>1, <1>2, <1>9
     DEF PatchNotFound, WatchFails, ReconcileFails, Restart, PromotePanics, Restarted, world, caches
<1>10. ASSUME rec' = rec, promotions' = promotions, app' = app,
              \A t \in T : view'[t] = view[t] \/ view'[t] = app[t]
       PROVE  ForwardInv'
  BY <1>0, <1>10 DEF ForwardInv
<1>11. CASE \/ \E c \in Cluster : InformerSync(c)
            \/ \E t \in Target : InformerUpdate(t)
            \/ \E c \in Cluster : SyncEventsLost(c)
            \/ \E t \in Target : UpdateEventLost(t)
            \/ PipelineEvent
            \/ UNCHANGED vars
  BY <1>0, <1>10, <1>11 DEF InformerSync, SyncEventsLost, FirstList,
              InformerUpdate, UpdateEventLost, CatchUp,
                            PipelineEvent, vars, world, caches,
                            TypeOK
<1>12. ASSUME rec' = rec, promotions' = promotions, view' = view,
              \A t \in T : app'[t].rev \in Nat /\ app[t].rev <= app'[t].rev
       PROVE  ForwardInv'
  BY <1>0, <1>12 DEF ForwardInv
<1>13. CASE World
  <2>1. rec' = rec /\ promotions' = promotions /\ view' = view
    BY <1>13 DEF World, ApplyRevision, Rollback, BecomeReady, BecomeUnready, DeleteApp,
                 CreateApp, ClusterChange, ClusterEventLost, DeletePipeline,
                Disruption, WorldMoves, caches
  <2>2. \A t \in T : app'[t].rev \in Nat /\ app[t].rev <= app'[t].rev
    <3>1. ASSUME NEW t \in Target, NEW r \in Revision, ApplyRevision(t, r)
          PROVE  \A u \in T : app'[u].rev \in Nat /\ app[u].rev <= app'[u].rev
      BY <1>0, <3>1, RevisionNat DEF ApplyRevision, TypeOK
    <3>2. ASSUME NEW t \in Target, NEW r \in Revision, Rollback(t, r)
          PROVE  \A u \in T : app'[u].rev \in Nat /\ app[u].rev <= app'[u].rev
      <4>1. t \notin T
        BY <3>2 DEF Rollback, EnvTargets
      <4> QED BY <1>0, <3>2, <4>1 DEF Rollback, TypeOK
    <3>3. ASSUME NEW t \in Target,
                 BecomeReady(t) \/ BecomeUnready(t) \/ DeleteApp(t) \/ CreateApp(t)
          PROVE  \A u \in T : app'[u].rev \in Nat /\ app[u].rev <= app'[u].rev
      <4>1. \E ph \in AppPhase : app' = [app EXCEPT ![t].phase = ph]
        BY <3>3 DEF BecomeReady, BecomeUnready, DeleteApp, CreateApp, AppPhase
      <4>2. \A u \in T : app'[u].rev = app[u].rev
        BY <1>0, <4>1 DEF TypeOK, AppState
      <4> QED BY <1>0, <4>2
    <3>4. CASE \/ DeletePipeline
               \/ \E c \in Cluster : \E s \in {"absent", "unready", "ready"} :
                      ClusterChange(c, s) \/ ClusterEventLost(c, s)
      BY <1>0, <3>4 DEF DeletePipeline, ClusterChange, ClusterEventLost
    <3> QED BY <1>13, <3>1, <3>2, <3>3, <3>4 DEF World
  <2> QED BY <1>12, <2>1, <2>2
<1> QED BY <1>3, <1>4, <1>5, <1>6, <1>7, <1>8, <1>9, <1>11, <1>13 DEF Next, Reconcile

\* The invariant holds at the start: nothing has been read or promoted.
LEMMA ForwardInit == Init => ForwardInv
<1> SUFFICES ASSUME Init PROVE ForwardInv
  OBVIOUS
<1>1. TypeOK
  BY TypeInit
<1>2. \A t \in Target : app[t].rev \in Nat
  <2>1. Revision \cup {NoRevision} \subseteq Nat
    BY RevisionNat
  <2>2. \A t \in Target : app[t] \in AppState
    BY <1>1 DEF TypeOK
  <2> QED BY <2>1, <2>2 DEF AppState
<1>3. \A t \in Target : view[t].rev = 0 /\ rec.status.targets[t].rev = 0
  BY NoStatusRev, RevisionNat DEF Init, Idle
<1> QED BY <1>2, <1>3 DEF ForwardInv, Init, EnvTargets

\* What Promote promotes is not older than anything promoted before.
LEMMA LatestIsNewest ==
    ASSUME GateInv, ForwardInv, Promote, NEW q \in promotions
    PROVE  q.rev \in Nat /\ LatestRevision \in Nat /\ q.rev <= LatestRevision
<1>1. PICK t \in EnvTargets(1) : TRUE
  BY PromoteRevision DEF GateInv
<1>2. LatestRevision \in Revision /\ rec.status.targets[t].rev = LatestRevision
  BY PromoteRevision DEF GateInv
<1>3. q.rev <= LatestRevision
  BY <1>2, RevisionNat DEF ForwardInv
<1>4. q.rev \in Nat
  BY RevisionNat DEF GateInv, TypeOK, PromotionRecord
<1> QED BY <1>2, <1>3, <1>4, RevisionNat

\* As long as the first environment is not rolled back, no revision is
\* promoted after a later one has been (Reconcile).
THEOREM PromotionsForward ==
    ASSUME Rollbacks = FALSE
    PROVE  Spec => PromotionsMoveForward
<1> DEFINE Forward == \A p \in promotions' \ promotions : \A q \in promotions : p.rev >= q.rev
<1>1. GateInv /\ ForwardInv /\ [Next]_vars => ForwardInv'
  BY ForwardStep DEF GateInv
<1>2. GateInv /\ ForwardInv /\ [Next]_vars => [Forward]_vars
  <2> SUFFICES ASSUME GateInv, ForwardInv, Next,
                      NEW p \in promotions' \ promotions, NEW q \in promotions
               PROVE  p.rev >= q.rev
    OBVIOUS
  <2>1. Promote
    BY OnlyPromote
  <2>2. p.rev = LatestRevision
    BY <2>1, PromoteRevision DEF GateInv
  <2> QED BY <2>1, <2>2, LatestIsNewest
<1> QED
  BY <1>1, <1>2, ForwardInit, GateInvariant, PTL DEF Spec, PromotionsMoveForward

=============================================================================
