--------------------------- MODULE LevelTriggered ---------------------------
(***************************************************************************)
(* The level-triggered PipelineReconciler                                  *)
(* (controllers/leveltriggered/controller.go) at work on one Pipeline.     *)
(*                                                                         *)
(* The reconciler never sees the world itself.  It reads the Pipeline from *)
(* the manager's cache (plview), the application object of each target     *)
(* from an informer on the target's cluster (view), and writes the status  *)
(* with merge patches computed against the copy it read.  The cached       *)
(* copies lag behind the API servers (pl, app); the only thing that wakes  *)
(* the reconciler up again is the arrival of an update in one of them.     *)
(* One Reconcile call is a sequence of steps between which all of these    *)
(* move.  The controller runs one worker, so there is one call at a time.  *)
(*                                                                         *)
(* Targets are numbered in the order in which Reconcile visits them.  The  *)
(* AppRef, hence the GVK, is the same for all targets, so that one cache   *)
(* per cluster serves them; CacheLifecycle models how caches come and go.  *)
(***************************************************************************)
EXTENDS PipelineSpec, FiniteSets

CONSTANTS
    NumTargets,   \* number of targets, over all environments
    EnvOf,        \* target -> the environment that lists it
    Cluster,      \* clusters, the management cluster among them
    ClusterOf,    \* target -> its cluster
    Local,        \* the management cluster: targets without a clusterRef
    InitialApps,  \* target -> states its application may be found in at first
    Rollbacks,    \* may the first environment go back to an old revision?
    Deletable,    \* may the user delete the Pipeline?
    Lossy,        \* may events of applications and clusters get lost?
    MaxDisruptions, \* bound on what may go wrong with targets and clusters
    MaxFaults     \* bound on failing calls and controller restarts

Target == 1..NumTargets
EnvTargets(k) == {t \in Target : EnvOf[t] = k}

\* "new" objects have no conditions yet.  rev is .status.lastAppliedRevision,
\* NoRevision when that field is missing.  (For an absent or new object the
\* rev kept here is what its cluster had last applied; nothing reads it.)
AppPhase == {"absent", "new", "progressing", "ready"}
AppState == [phase : AppPhase, rev : Revision \cup {NoRevision}]

ASSUME LevelTriggeredAssumption ==
    /\ NumTargets \in Nat
    /\ EnvOf \in [Target -> Env]
    /\ \A s, t \in Target : s <= t => EnvOf[s] <= EnvOf[t]
    /\ Local \in Cluster
    /\ ClusterOf \in [Target -> Cluster]
    /\ InitialApps \in [Target -> SUBSET AppState]
    /\ Rollbacks \in BOOLEAN
    /\ Deletable \in BOOLEAN
    /\ Lossy \in BOOLEAN
    /\ MaxDisruptions \in Nat
    /\ MaxFaults \in Nat

VARIABLES
    app,        \* the application object of each target, in its cluster
    cluster,    \* the GitopsCluster objects, as the manager's cache has them
    watched,    \* clusters on which an informer has been started
    deaf,       \* clusters whose cache has no event handler, and gets none
    synced,     \* clusters whose informer has synced (HasSynced)
    view,       \* the informers' copies of the application objects
    pl,         \* the Pipeline object, at the API server
    plview,     \* the Pipeline object, in the manager's cache
    queued,     \* is the Pipeline in the controller's workqueue?
    lost,       \* history: has the world changed in the controller's sight,
                \* with nothing queued, since a Reconcile last began?
    rec,        \* the Reconcile call in progress
    promotions, \* history: calls of strategy.Promote that succeeded
    proven,     \* history: <<t, r>> such that target t was ready at r
    disruptions, \* disruptions so far
    faults      \* failures so far

world == <<app, cluster, disruptions>>
caches == <<watched, deaf, synced, view>>
vars == <<app, cluster, watched, deaf, synced, view, pl, plview, queued, lost,
          rec, promotions, proven, disruptions, faults>>

-----------------------------------------------------------------------------
(***************************************************************************)
(* Application objects and what the reconciler records about them.         *)
(***************************************************************************)

\* TargetStatus: .ready, .revision, and .error abstracted to its cause.
NoError == ""
TargetError == {NoError, "cluster", "unsynced", "app", "norevision", "unreported"}
TargetStatus ==
    [ready : BOOLEAN, rev : Revision \cup {NoRevision}, error : TargetError]

Failed(cause) == [ready |-> FALSE, rev |-> NoRevision, error |-> cause]

\* the status of a target before any reconciliation has written one
Unreported == Failed("unreported")

setTargetStatus_IgnoresConditions(obj) ==
    IF obj.phase = "new" THEN [ready |-> FALSE, rev |-> NoRevision, error |-> NoError]
    ELSE [ready |-> TRUE, rev |-> obj.rev, error |-> NoError]

setTargetStatus(obj) ==
    CASE obj.phase = "new" ->
           [ready |-> FALSE, rev |-> NoRevision, error |-> NoError]
      [] obj.phase = "ready" /\ obj.rev = NoRevision -> Failed("norevision")
      [] OTHER ->
           [ready |-> obj.phase = "ready", rev |-> obj.rev, error |-> NoError]

\* What Reconcile records of a target on a ready cluster, given whether the
\* cluster's informer has synced and the application object it holds.
ObserveApp(isSynced, obj) ==
    IF ~isSynced                 THEN Failed("unsynced")
    ELSE IF obj.phase = "absent" THEN Failed("app")
    ELSE setTargetStatus(obj)

\* The flag `unready`: some target could not be read.  A ready object without
\* a revision has an error too, but does not raise the flag.
Unready(targets) ==
    \E t \in Target : targets[t].error \in {"cluster", "unsynced", "app"}

(***************************************************************************)
(* The checks on an environment's status; env is a set of targets.         *)
(***************************************************************************)

checkAnyTargetHasRevision(targets, k, r) ==
    \E t \in EnvTargets(k) : targets[t].rev = r

checkAllTargetsRunRevision(targets, k, r) ==
    \A t \in EnvTargets(k) : targets[t].rev = r

checkAllTargetsHaveSameRevision(targets, k) ==
    IF \E r \in Revision :
          /\ EnvTargets(k) # {}
          /\ \A t \in EnvTargets(k) : targets[t].rev = r
    THEN CHOOSE r \in Revision : \A t \in EnvTargets(k) : targets[t].rev = r
    ELSE NoRevision

checkAllTargetsAreReady_Any(targets, k) ==
    EnvTargets(k) # {} => \E t \in EnvTargets(k) : targets[t].ready

checkAllTargetsAreReady(targets, k) ==
    \A t \in EnvTargets(k) : targets[t].ready

\* The promotion loop over Environments[1:]: environment k is passed over when
\* it is done; the loop stops at the first one that is not.
Done(targets, k, r) ==
    /\ checkAllTargetsRunRevision(targets, k, r)
    /\ checkAllTargetsAreReady(targets, k)

Undone(targets, r) == {k \in Env : k > 1 /\ ~Done(targets, k, r)}

\* The environment Reconcile promotes r to, or 0 if it promotes nothing.
NextEnv(targets, r) ==
    LET k == CHOOSE j \in Undone(targets, r) :
                 \A i \in Undone(targets, r) : j <= i
    IN  IF \/ Undone(targets, r) = {}
           \/ checkAnyTargetHasRevision(targets, k, r)
           \/ GetPromotion(k) = Nil
        THEN 0 ELSE k

-----------------------------------------------------------------------------
(***************************************************************************)
(* The Pipeline object and its patcher.                                    *)
(***************************************************************************)

PipelineStatus ==
    [targets : [Target -> TargetStatus],
     ready   : {"Unknown", "True", "False"},   \* the Ready condition
     pending : BOOLEAN]                        \* is PromotionPending set?

Pipeline == [phase : {"live", "deleting", "gone"}, status : PipelineStatus]

NoStatus ==
    [targets |-> [t \in Target |-> Unreported],
     ready   |-> "Unknown",
     pending |-> FALSE]

\* The merge patch that turns base into new, applied to cur: lists (the
\* conditions, the targets of one environment) are replaced as a whole if
\* they differ between base and new, and otherwise left as they are in cur.
MergePatch(base, new, cur) ==
    LET conditionsDiffer ==
            base.ready # new.ready \/ base.pending # new.pending
        targetsDiffer(k) ==
            \E t \in EnvTargets(k) : base.targets[t] # new.targets[t]
    IN  [targets |-> [t \in Target |-> IF targetsDiffer(EnvOf[t])
                                       THEN new.targets[t]
                                       ELSE cur.targets[t]],
         ready   |-> IF conditionsDiffer THEN new.ready ELSE cur.ready,
         pending |-> IF conditionsDiffer THEN new.pending ELSE cur.pending]

\* Reconcile in progress: its pc, the next target to look at, the pipeline's
\* status in memory, and the status the patcher computes the next patch from.
Reconciliation ==
    [pc     : {"idle", "read", "get", "decide", "promote"},
     next   : 1..(NumTargets + 1),
     status : PipelineStatus,
     base   : PipelineStatus]

Idle == [pc |-> "idle", next |-> 1, status |-> NoStatus, base |-> NoStatus]

Init ==
    /\ app \in {a \in [Target -> UNION {InitialApps[t] : t \in Target}] :
                  \A t \in Target : a[t] \in InitialApps[t]}
    /\ cluster \in [Cluster -> {"absent", "ready"}]
    /\ cluster[Local] = "ready"
    /\ watched = {}
    /\ deaf = {}
    /\ synced = {}
    /\ view = [t \in Target |-> [phase |-> "absent", rev |-> NoRevision]]
    /\ pl = [phase |-> "live", status |-> NoStatus]
    /\ plview = pl
    /\ queued = TRUE
    /\ lost = FALSE
    /\ rec = Idle
    /\ promotions = {}
    /\ proven = {<<t, app[t].rev>> : t \in {u \in Target : app[u].phase = "ready"}}
    /\ disruptions = 0
    /\ faults = 0

-----------------------------------------------------------------------------
(***************************************************************************)
(* Reconcile.                                                              *)
(***************************************************************************)

\* Get the Pipeline; nothing to do if it is not found or being deleted.
StartReconcile ==
    /\ rec.pc = "idle"
    /\ queued
    /\ queued' = FALSE
    /\ lost' = FALSE
    /\ rec' = IF plview.phase = "live"
              THEN [pc     |-> "read",
                    next   |-> 1,
                    status |-> [plview.status EXCEPT !.targets = NoStatus.targets],
                    base   |-> plview.status]
              ELSE Idle
    /\ UNCHANGED <<world, caches, pl, plview, promotions, proven, faults>>

\* A turn of the loop over targets begins: get the cluster, and if it is
\* ready make sure that its applications are watched.  (GetInformer waits for
\* the informer to sync, unless the cache has not been started yet; that the
\* application may be got before or after InformerSync covers both.)
GetCluster ==
    /\ rec.pc = "read"
    /\ rec.next <= NumTargets
    /\ LET c == ClusterOf[rec.next]
       IN  IF cluster[c] = "ready"
           THEN /\ watched' = watched \cup {c}
                /\ rec' = [rec EXCEPT !.pc = "get"]
           ELSE /\ rec' = [rec EXCEPT !.next = rec.next + 1,
                                      !.status.targets[rec.next] = Failed("cluster")]
                /\ UNCHANGED watched
    /\ UNCHANGED <<world, deaf, synced, view, pl, plview, queued, lost,
                   promotions, proven, faults>>

\* GetInformer or AddEventHandler fails in the call that has made the cache
\* and put it in the map.  Later calls find the cache and ask for its informer
\* again, but only the call that made it installs the event handler.
WatchFails ==
    /\ rec.pc = "read"
    /\ rec.next <= NumTargets
    /\ LET c == ClusterOf[rec.next]
       IN  /\ cluster[c] = "ready"
           /\ c \notin watched \cup deaf
           /\ deaf' = deaf \cup {c}
    /\ faults < MaxFaults
    /\ faults' = faults + 1
    /\ rec' = Idle
    /\ queued' = TRUE
    /\ UNCHANGED <<world, watched, synced, view, pl, plview, lost, promotions, proven>>

\* The turn ends: get the application from the cluster's cache, if synced.
GetApplication ==
    /\ rec.pc = "get"
    /\ LET t == rec.next
       IN  rec' = [rec EXCEPT
                     !.pc = "read",
                     !.next = t + 1,
                     !.status.targets[t] = ObserveApp(ClusterOf[t] \in synced, view[t])]
    /\ UNCHANGED <<world, caches, pl, plview, queued, lost, promotions, proven, faults>>

\* patcher.Patch: no call if nothing changed; a status that changes nothing
\* at the server leaves the object, and so its watchers, alone.
Patch(base, new) ==
    \/ base = new /\ pl' = pl
    \/ /\ base # new
       /\ pl.phase # "gone"
       /\ pl' = [pl EXCEPT !.status = MergePatch(base, new, pl.status)]

\* rec.status with the conditions and targets Reconcile writes first
StatusRead ==
    [rec.status EXCEPT
        !.ready = IF Unready(rec.status.targets) THEN "False" ELSE "True"]

PatchStatus ==
    /\ rec.pc = "read"
    /\ rec.next > NumTargets
    /\ Patch(rec.base, StatusRead)
    /\ rec' = [rec EXCEPT !.pc = "decide", !.status = StatusRead, !.base = StatusRead]
    /\ UNCHANGED <<world, caches, plview, queued, lost, promotions, proven, faults>>

LatestRevision == checkAllTargetsHaveSameRevision(rec.status.targets, 1)

MustWait_NoRevisionCheck == ~checkAllTargetsAreReady(rec.status.targets, 1)

MustWait ==
    \/ LatestRevision = NoRevision
    \/ ~checkAllTargetsAreReady(rec.status.targets, 1)

StatusDecided == [rec.status EXCEPT !.pending = MustWait]

\* setPendingCondition and return, or removePendingCondition and go on
Decide ==
    /\ rec.pc = "decide"
    /\ Patch(rec.base, StatusDecided)
    /\ rec' = IF MustWait
              THEN Idle
              ELSE [rec EXCEPT !.pc = "promote",
                               !.status = StatusDecided,
                               !.base = StatusDecided]
    /\ UNCHANGED <<world, caches, plview, queued, lost, promotions, proven, faults>>

\* The patch the current step would send is refused: the object is gone.
PatchNotFound ==
    /\ pl.phase = "gone"
    /\ \/ rec.pc = "read" /\ rec.next > NumTargets /\ rec.base # StatusRead
       \/ rec.pc = "decide" /\ rec.base # StatusDecided
    /\ rec' = Idle
    /\ queued' = TRUE
    /\ UNCHANGED <<world, caches, pl, plview, lost, promotions, proven, faults>>

\* promoteLatestRevision, or nothing to promote.  The strategy is looked up
\* by GetPromotion(env), but called with *spec.promotion.
Promote ==
    /\ rec.pc = "promote"
    /\ LET k == NextEnv(rec.status.targets, LatestRevision)
       IN  \/ k = 0 /\ UNCHANGED promotions
           \/ /\ k # 0
              /\ DefaultPromotion # Nil
              /\ promotions' = promotions \cup
                    {[env |-> k, rev |-> LatestRevision, spec |-> DefaultPromotion]}
    /\ rec' = Idle
    /\ UNCHANGED <<world, caches, pl, plview, queued, lost, proven, faults>>

\* A call made by the current step fails and leaves no trace (one of
\* watchTargetAndGetReader's before the cache is in the map, or after another
\* call made it); the error is returned and controller-runtime puts the
\* request back in the queue.
ReconcileFails ==
    /\ faults < MaxFaults
    /\ \/ rec.pc = "read" /\ (rec.next <= NumTargets \/ rec.base # StatusRead)
       \/ rec.pc = "decide" /\ rec.base # StatusDecided
       \/ rec.pc = "promote" /\ NextEnv(rec.status.targets, LatestRevision) # 0
    /\ rec' = Idle
    /\ queued' = TRUE
    /\ faults' = faults + 1
    /\ UNCHANGED <<world, caches, pl, plview, lost, promotions, proven>>

\* The process starts again: new caches; the initial list of Pipelines
\* queues each of them.
Restarted ==
    /\ rec' = Idle
    /\ watched' = {}
    /\ deaf' = {}
    /\ synced' = {}
    /\ plview' = pl
    /\ queued' = (pl.phase # "gone")
    /\ UNCHANGED <<world, view, pl, lost, promotions, proven>>

Restart ==
    /\ faults < MaxFaults
    /\ faults' = faults + 1
    /\ Restarted

\* *spec.promotion with a nil spec.promotion: the panic ends the process.
PromotePanics ==
    /\ rec.pc = "promote"
    /\ NextEnv(rec.status.targets, LatestRevision) # 0
    /\ DefaultPromotion = Nil
    /\ Restarted
    /\ UNCHANGED faults

-----------------------------------------------------------------------------
(***************************************************************************)
(* Caches and events.                                                      *)
(***************************************************************************)

\* the Pipeline is in the index of those that have one of these targets
pipelinesForApplication(targets) == targets # {} /\ plview.phase # "gone"

Notify_Dropped(c, targets) == UNCHANGED <<queued, lost>>

\* The event handler of cluster c's cache, if it has one, maps an application
\* object to the Pipelines that have it as a target and queues them
\* (enqueuePipelinesForTarget).  The handler runs after the store is updated;
\* a reconciliation between the two would only come in addition to the one
\* that the event causes, and a crash between them queues the Pipeline
\* anyway, so they are one step here.
Notify(c, targets) ==
    LET concerned == pipelinesForApplication(targets)
    IN  /\ queued' = (queued \/ (concerned /\ c \notin deaf))
        /\ lost' = (lost \/ (concerned /\ c \in deaf))

\* The handler drops the event: it cannot look up the Pipelines, or it gets a
\* DeletedFinalStateUnknown (the watch broke, and a new list shows that an
\* object is gone), which is no client.Object.
DropEvent(targets) ==
    /\ Lossy
    /\ faults < MaxFaults
    /\ faults' = faults + 1
    /\ lost' = (lost \/ pipelinesForApplication(targets))
    /\ UNCHANGED queued

\* An informer's first list arrives, with an Add event for what is in it.
FirstList(c) ==
    /\ c \in watched \ synced
    /\ synced' = synced \cup {c}
    /\ view' = [t \in Target |-> IF ClusterOf[t] = c THEN app[t] ELSE view[t]]
    /\ UNCHANGED <<world, watched, deaf, pl, plview, rec, promotions, proven>>

Listed(c) == {t \in Target : ClusterOf[t] = c /\ app[t].phase # "absent"}

InformerSync(c) == FirstList(c) /\ Notify(c, Listed(c)) /\ UNCHANGED faults

SyncEventsLost(c) == FirstList(c) /\ DropEvent(Listed(c))

\* An informer catches up with one application object.
CatchUp(t) ==
    /\ ClusterOf[t] \in synced
    /\ view[t] # app[t]
    /\ view' = [view EXCEPT ![t] = app[t]]
    /\ UNCHANGED <<world, watched, deaf, synced, pl, plview, rec, promotions, proven>>

InformerUpdate(t) == CatchUp(t) /\ Notify(ClusterOf[t], {t}) /\ UNCHANGED faults

UpdateEventLost(t) == CatchUp(t) /\ DropEvent({t})

\* The manager's cache catches up with the Pipeline.
PipelineEvent ==
    /\ plview # pl
    /\ plview' = pl
    /\ queued' = TRUE
    /\ UNCHANGED <<world, caches, pl, lost, rec, promotions, proven, faults>>

-----------------------------------------------------------------------------
(***************************************************************************)
(* The world outside: clusters, users, and the GitOps agents that deploy.  *)
(***************************************************************************)

WorldMoves == UNCHANGED <<caches, plview, rec, promotions, faults>>

Disruption ==
    /\ disruptions < MaxDisruptions
    /\ disruptions' = disruptions + 1
    /\ WorldMoves

\* The agent of t's cluster can apply r: in the first environment anything
\* that was built, in the others what has been promoted to the environment.
Deployable(t, r) ==
    EnvOf[t] = 1 \/ \E p \in promotions : p.env = EnvOf[t] /\ p.rev = r

ApplyRevision(t, r) ==
    /\ WorldMoves
    /\ app[t].phase # "absent"
    /\ r > app[t].rev
    /\ Deployable(t, r)
    /\ app' = [app EXCEPT ![t] = [phase |-> "progressing", rev |-> r]]
    /\ UNCHANGED <<cluster, pl, queued, lost, proven, disruptions>>

\* The agent goes back to a revision: outside the first environment this
\* happens when pull requests are merged in the wrong order.
Rollback(t, r) ==
    /\ Disruption
    /\ app[t].phase # "absent"
    /\ r < app[t].rev
    /\ Rollbacks \/ EnvOf[t] # 1
    /\ Deployable(t, r)
    /\ app' = [app EXCEPT ![t] = [phase |-> "progressing", rev |-> r]]
    /\ UNCHANGED <<cluster, pl, queued, lost, proven>>

BecomeReady(t) ==
    /\ WorldMoves
    /\ app[t].phase \in {"new", "progressing"}
    /\ app' = [app EXCEPT ![t].phase = "ready"]
    /\ proven' = proven \cup {<<t, app[t].rev>>}
    /\ UNCHANGED <<cluster, pl, queued, lost, disruptions>>

BecomeUnready(t) ==
    /\ Disruption
    /\ app[t].phase = "ready"
    /\ app' = [app EXCEPT ![t].phase = "progressing"]
    /\ UNCHANGED <<cluster, pl, queued, lost, proven>>

DeleteApp(t) ==
    /\ Disruption
    /\ app[t].phase # "absent"
    /\ app' = [app EXCEPT ![t].phase = "absent"]
    /\ UNCHANGED <<cluster, pl, queued, lost, proven>>

CreateApp(t) ==
    /\ WorldMoves
    /\ app[t].phase = "absent"
    /\ app' = [app EXCEPT ![t].phase = "new"]
    /\ UNCHANGED <<cluster, pl, queued, lost, proven, disruptions>>

ClusterChange_NotWatched(c, s) ==
    /\ Disruption
    /\ c # Local
    /\ cluster[c] # s
    /\ cluster' = [cluster EXCEPT ![c] = s]
    /\ UNCHANGED <<app, pl, queued, lost, proven>>

\* A GitopsCluster comes, goes, or changes its readiness; the controller
\* watches them and queues the Pipelines that refer to it.
ClusterChange(c, s) ==
    /\ Disruption
    /\ c # Local
    /\ cluster[c] # s
    /\ cluster' = [cluster EXCEPT ![c] = s]
    /\ queued' = (queued \/ plview.phase # "gone")
    /\ UNCHANGED <<app, pl, lost, proven>>

\* The same, but requestsForCluster answers nil because its List failed.
ClusterEventLost(c, s) ==
    /\ Lossy
    /\ Disruption
    /\ c # Local
    /\ cluster[c] # s
    /\ cluster' = [cluster EXCEPT ![c] = s]
    /\ lost' = (lost \/ plview.phase # "gone")
    /\ UNCHANGED <<app, pl, queued, proven>>

\* The user deletes the Pipeline; it lingers if someone put a finalizer on it.
DeletePipeline ==
    /\ Deletable
    /\ Disruption
    /\ \/ pl.phase = "live" /\ pl' \in {[pl EXCEPT !.phase = ph] : ph \in {"deleting", "gone"}}
       \/ pl.phase = "deleting" /\ pl' = [pl EXCEPT !.phase = "gone"]
    /\ UNCHANGED <<app, cluster, queued, lost, proven>>

-----------------------------------------------------------------------------

Reconcile == StartReconcile \/ GetCluster \/ GetApplication
             \/ PatchStatus \/ Decide
             \/ PatchNotFound \/ Promote

World ==
    \/ \E t \in Target : \E r \in Revision : ApplyRevision(t, r)
    \/ \E t \in Target : \E r \in Revision : Rollback(t, r)
    \/ \E t \in Target : BecomeReady(t)
    \/ \E t \in Target : BecomeUnready(t)
    \/ \E t \in Target : DeleteApp(t)
    \/ \E t \in Target : CreateApp(t)
    \/ \E c \in Cluster : \E s \in {"absent", "unready", "ready"} : ClusterChange(c, s)
    \/ \E c \in Cluster : \E s \in {"absent", "unready", "ready"} : ClusterEventLost(c, s)
    \/ DeletePipeline

Next ==
    \/ Reconcile
    \/ WatchFails
    \/ ReconcileFails
    \/ Restart
    \/ PromotePanics
    \/ \E c \in Cluster : InformerSync(c)
    \/ \E t \in Target : InformerUpdate(t)
    \/ \E c \in Cluster : SyncEventsLost(c)
    \/ \E t \in Target : UpdateEventLost(t)
    \/ PipelineEvent
    \/ World

Spec == Init /\ [][Next]_vars

\* The worker keeps running, and watches deliver what happened.
Fairness ==
    /\ WF_vars(Reconcile)
    /\ WF_vars(PromotePanics)
    /\ WF_vars(PipelineEvent)
    /\ \A c \in Cluster : WF_vars(InformerSync(c))
    /\ \A t \in Target : WF_vars(InformerUpdate(t))

FairSpec == Spec /\ Fairness

-----------------------------------------------------------------------------
(***************************************************************************)
(* Properties.                                                             *)
(***************************************************************************)

PromotionRecord == [env : Env, rev : Revision, spec : Promotions]

\* Every variable has the shape the code gives it; the histories hold calls
\* and revisions that can exist.
TypeOK ==
    /\ app \in [Target -> AppState]
    /\ cluster \in [Cluster -> {"absent", "unready", "ready"}]
    /\ watched \subseteq Cluster
    /\ deaf \subseteq Cluster
    /\ synced \subseteq watched
    /\ view \in [Target -> AppState]
    /\ pl \in Pipeline
    /\ plview \in Pipeline
    /\ queued \in BOOLEAN
    /\ lost \in BOOLEAN
    /\ rec \in Reconciliation
    /\ (rec.pc = "get" => rec.next \in Target)
    /\ promotions \subseteq PromotionRecord
    /\ proven \subseteq Target \X (Revision \cup {NoRevision})
    /\ disruptions \in 0..MaxDisruptions
    /\ faults \in 0..MaxFaults

\* A revision is promoted to an environment only if every target of every
\* earlier environment has, at some time, been ready running that revision:
\* the order of Environments is a gate (Reconcile's promotion loop), however
\* stale the caches, and whatever moved while Reconcile was reading.
PromotedOnlyProven ==
    \A p \in promotions : \A t \in Target :
        EnvOf[t] < p.env => <<t, p.rev>> \in proven

\* The Pipeline's status never claims a target to be ready at a revision, or
\* at no revision, that the target was not ready at at some time
\* (setTargetStatus; TargetStatus.Ready in the API).
StatusOnlyProven ==
    \A t \in Target :
        LET s == pl.status.targets[t]
        IN  s.ready => s.rev # NoRevision /\ <<t, s.rev>> \in proven

\* If the first environment never goes back to an older revision then no
\* promotion does: once r has been promoted to any environment, no earlier
\* revision is promoted to any environment again, across stale reads, failed
\* calls and restarts (Reconcile).
PromotionsMoveForward ==
    [][\A p \in promotions' \ promotions : \A q \in promotions : p.rev >= q.rev]_vars

\* What Reconcile would record if it saw the world as it is.
Actual ==
    [t \in Target |-> IF cluster[ClusterOf[t]] = "ready"
                      THEN ObserveApp(TRUE, app[t])
                      ELSE Failed("cluster")]

ActualLatest == checkAllTargetsHaveSameRevision(Actual, 1)

ActualWait == ActualLatest = NoRevision \/ ~checkAllTargetsAreReady(Actual, 1)

StatusAgrees ==
    /\ \A t \in Target :
          LET s == pl.status.targets[t]
          IN  /\ s.ready = Actual[t].ready
              /\ s.rev = Actual[t].rev
              /\ s.error = NoError <=> Actual[t].error = NoError
    /\ pl.status.ready = IF Unready(Actual) THEN "False" ELSE "True"
    /\ pl.status.pending = ActualWait

\* Once the world stops moving, the status of the Pipeline becomes and stays
\* what the targets are: readiness, revision, whether there is an error, and
\* the Ready and PromotionPending conditions.  Nothing requeues the Pipeline
\* periodically, so this rests on every update of a cache queueing it
\* (SetupWithManager), and on patches against a stale copy being repaired.
\* The one exception is news that came without an event and that no later
\* Reconcile has picked up: an event the handler dropped, or an update of a
\* cache that was left without a handler (watchTargetAndGetReader).
StatusConverges == <>[](pl.phase = "live" /\ ~lost => StatusAgrees)

\* Once the world stops moving, the environment that is due for promotion has
\* been promoted to: a failed Promote, a crash or a stale read only delays it
\* (Reconcile), with the same exception.
PromotionDelivered ==
    <>[](LET k == NextEnv(Actual, ActualLatest)
         IN  pl.phase = "live" /\ ~lost /\ ~ActualWait /\ k # 0
             => \E p \in promotions : p.env = k /\ p.rev = ActualLatest)

=============================================================================
