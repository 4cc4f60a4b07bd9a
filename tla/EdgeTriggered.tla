---------------------------- MODULE EdgeTriggered ----------------------------
(***************************************************************************)
(* The edge-triggered reconciler (controllers/pipeline_controller.go and   *)
(* pipeline_indexing.go) for one Pipeline.                                 *)
(*                                                                         *)
(* Reconcile reads the Pipeline and the clusters of its targets from       *)
(* informers' stores, which lag behind the API server and each other.  It  *)
(* writes the status as a patch against a second read of the Pipeline.     *)
(* What brings it to look again is an event of the Pipeline, which its own *)
(* writes cause as well, an event of a cluster, an error it returned, and  *)
(* RequeueAfter.  The question is whether that is enough.                  *)
(***************************************************************************)
EXTENDS Naturals, Sequences

CONSTANTS
    Cluster,    \* GitopsClusters
    NoCluster,
    Specs,      \* what users may write: the clusters of the targets, in order
    Starts,     \* how the clusters may be at first
    MaxChanges  \* bound on what users, clusters and faults do, together

ASSUME EdgeTriggeredAssumption ==
    /\ NoCluster \notin Cluster
    /\ Specs \subseteq Seq(Cluster)
    /\ Starts \subseteq [Cluster -> {"absent", "notready", "ready"}]
    /\ MaxChanges \in Nat

ClusterState == {"absent", "notready", "ready"}

\* The Ready condition.  Its Status is True for the reason
\* ReconciliationSucceeded only; the message names the cluster.
Reason == {"none", "ReconciliationSucceeded", "TargetClusterNotFound",
           "TargetClusterNotReady"}
Condition == [reason : Reason, cluster : Cluster \cup {NoCluster}]
NoCondition == [reason |-> "none", cluster |-> NoCluster]
Succeeded == [reason |-> "ReconciliationSucceeded", cluster |-> NoCluster]
IsTrue(condition) == condition.reason = "ReconciliationSucceeded"

Status == [observed : Nat, ready : Condition]
NoStatus == [observed |-> 0, ready |-> NoCondition]

Pipeline == [phase : {"live", "deleting", "gone"}, gen : Nat,
             refs : Seq(Cluster), status : Status]
NoPipeline == [phase |-> "gone", gen |-> 0, refs |-> <<>>, status |-> NoStatus]

VARIABLES
    pipeline,   \* the Pipeline at the API server
    plog,       \* versions of it that its informer has yet to see
    plview,     \* the version in the informer's store
    cluster,    \* the same of the clusters
    clog, clview,
    notices,    \* changes of their store that the event handler has yet to handle
    queued,     \* the Pipeline is in the controller's queue
    retry,      \* it is to be queued again after an error
    timer,      \* it is to be queued again by RequeueAfter
    rec,        \* the Reconcile under way
    lost,       \* history: an event of a cluster was lost since the start
    changes     \* what users, clusters and faults have done so far

plvars == <<plog, plview>>
clvars == <<cluster, clog, clview, notices>>
vars == <<pipeline, plvars, clvars, queued, retry, timer, rec, lost, changes>>

Idle == [pc |-> "idle", copy |-> NoPipeline, i |-> 1, status |-> NoStatus,
         flips |-> FALSE, base |-> NoStatus]

Init ==
    /\ \E refs \in Specs :
          pipeline = [phase |-> "live", gen |-> 1, refs |-> refs, status |-> NoStatus]
    /\ plog = <<>>
    /\ plview = pipeline
    /\ cluster \in Starts
    /\ clog = [c \in Cluster |-> <<>>]
    /\ clview = cluster
    /\ notices = [c \in Cluster |-> 0]
    /\ queued = TRUE
    /\ retry = FALSE
    /\ timer = FALSE
    /\ rec = Idle
    /\ lost = FALSE
    /\ changes = 0

\* The API server has a new version of the Pipeline, unless nothing changed.
Write(p) ==
    /\ pipeline' = p
    /\ plog' = IF p = pipeline THEN plog ELSE Append(plog, p)

\* Something happens that the controller does not do by itself.
Change == changes < MaxChanges /\ changes' = changes + 1

-----------------------------------------------------------------------------
(***************************************************************************)
(* Reconcile.                                                              *)
(***************************************************************************)

Take_DeletionIgnored ==
    /\ rec.pc = "idle"
    /\ queued
    /\ queued' = FALSE
    /\ rec' = IF plview.phase # "gone" THEN [Idle EXCEPT !.pc = "walk", !.copy = plview] ELSE rec
    /\ UNCHANGED <<pipeline, plvars, clvars, retry, timer, lost, changes>>

\* The Pipeline is read; one that is gone or being deleted is left alone.
Take ==
    /\ rec.pc = "idle"
    /\ queued
    /\ queued' = FALSE
    /\ rec' = IF plview.phase = "live" THEN [Idle EXCEPT !.pc = "walk", !.copy = plview] ELSE rec
    /\ UNCHANGED <<pipeline, plvars, clvars, retry, timer, lost, changes>>

\* What a cluster that is not ready makes of the condition.
Unready(c, state) ==
    [reason  |-> IF state = "absent" THEN "TargetClusterNotFound"
                 ELSE "TargetClusterNotReady",
     cluster |-> c]

\* The new status, to be patched by patchStatus.  If SetStatusCondition finds
\* another Status in the copy, lastTransitionTime changes.
SetStatus(condition) ==
    rec' = [Idle EXCEPT !.pc = "get",
                        !.status = [observed |-> rec.copy.gen, ready |-> condition],
                        !.flips = IsTrue(rec.copy.status.ready) # IsTrue(condition)]

\* One round of the loop over the targets that have a cluster.
CheckCluster ==
    /\ rec.pc = "walk"
    /\ rec.i <= Len(rec.copy.refs)
    /\ LET c == rec.copy.refs[rec.i]
       IN  IF clview[c] = "ready" THEN rec' = [rec EXCEPT !.i = @ + 1]
           ELSE SetStatus(Unready(c, clview[c]))
    /\ UNCHANGED <<pipeline, plvars, clvars, queued, retry, timer, lost, changes>>

AllChecked ==
    /\ rec.pc = "walk"
    /\ rec.i > Len(rec.copy.refs)
    /\ SetStatus(Succeeded)
    /\ UNCHANGED <<pipeline, plvars, clvars, queued, retry, timer, lost, changes>>

\* Reconcile returns an error.
Failed == retry' = TRUE /\ rec' = Idle

\* patchStatus reads the Pipeline again.
GetAgain ==
    /\ rec.pc = "get"
    /\ IF plview.phase = "gone" THEN Failed
       ELSE rec' = [rec EXCEPT !.pc = "patch", !.base = plview.status] /\ UNCHANGED retry
    /\ UNCHANGED <<pipeline, plvars, clvars, queued, timer, lost, changes>>

\* The fields in which status and base differ go to the API server.  The
\* condition differs also if only its lastTransitionTime does.
Patched(stamped) ==
    [observed |-> IF rec.status.observed # rec.base.observed THEN rec.status.observed
                  ELSE pipeline.status.observed,
     ready    |-> IF rec.status.ready # rec.base.ready \/ stamped THEN rec.status.ready
                  ELSE pipeline.status.ready]

Stamps == IF rec.flips THEN BOOLEAN ELSE {FALSE}

PatchStatus_NoRequeueAfter ==
    /\ rec.pc = "patch"
    /\ IF pipeline.phase = "gone"
       THEN Failed /\ UNCHANGED <<pipeline, plog>>
       ELSE /\ \E stamped \in Stamps : Write([pipeline EXCEPT !.status = Patched(stamped)])
            /\ rec' = Idle
            /\ UNCHANGED retry
    /\ UNCHANGED <<plview, clvars, queued, timer, lost, changes>>

\* The patch, and the end of Reconcile.
PatchStatus ==
    /\ rec.pc = "patch"
    /\ IF pipeline.phase = "gone"
       THEN Failed /\ UNCHANGED <<pipeline, plog, timer>>
       ELSE /\ \E stamped \in Stamps : Write([pipeline EXCEPT !.status = Patched(stamped)])
            /\ rec' = Idle
            /\ timer' = (timer \/ ~IsTrue(rec.status.ready))
            /\ UNCHANGED retry
    /\ UNCHANGED <<plview, clvars, queued, lost, changes>>

-----------------------------------------------------------------------------
(***************************************************************************)
(* The controller: SetupWithManager and what controller-runtime makes of   *)
(* it.  The store of the clusters changes before the event handler knows.  *)
(***************************************************************************)

PipelineEvent_GenerationOnly ==
    /\ plog # <<>>
    /\ plview' = Head(plog)
    /\ plog' = Tail(plog)
    /\ queued' = (queued \/ plview'.gen # plview.gen)
    /\ UNCHANGED <<pipeline, clvars, retry, timer, rec, lost, changes>>

\* For(&Pipeline{}): the store changes and the Pipeline is queued, whatever
\* changed of it.  (To queue it later is only to look once more.)
PipelineEvent ==
    /\ plog # <<>>
    /\ plview' = Head(plog)
    /\ plog' = Tail(plog)
    /\ queued' = TRUE
    /\ UNCHANGED <<pipeline, clvars, retry, timer, rec, lost, changes>>

StoreCluster(c) ==
    /\ clog[c] # <<>>
    /\ clview' = [clview EXCEPT ![c] = Head(clog[c])]
    /\ clog' = [clog EXCEPT ![c] = Tail(clog[c])]
    /\ notices' = [notices EXCEPT ![c] = @ + 1]
    /\ UNCHANGED <<pipeline, plvars, cluster, queued, retry, timer, rec, lost, changes>>

\* indexClusterKind, of the Pipeline in the store
Indexed(c) == plview.phase # "gone" /\ \E i \in DOMAIN plview.refs : plview.refs[i] = c

\* requestsForCluster
ClusterEvent(c) ==
    /\ notices[c] > 0
    /\ notices' = [notices EXCEPT ![c] = @ - 1]
    /\ queued' = (queued \/ Indexed(c))
    /\ UNCHANGED <<pipeline, plvars, cluster, clog, clview, retry, timer, rec, lost, changes>>

RetryDue ==
    /\ retry
    /\ retry' = FALSE
    /\ queued' = TRUE
    /\ UNCHANGED <<pipeline, plvars, clvars, timer, rec, lost, changes>>

RequeueDue ==
    /\ timer
    /\ timer' = FALSE
    /\ queued' = TRUE
    /\ UNCHANGED <<pipeline, plvars, clvars, retry, rec, lost, changes>>

-----------------------------------------------------------------------------
(***************************************************************************)
(* What goes wrong.                                                        *)
(***************************************************************************)

ReconcileFails_Swallowed ==
    /\ Change
    /\ rec.pc # "idle"
    /\ rec' = Idle
    /\ UNCHANGED <<pipeline, plvars, clvars, queued, retry, timer, lost>>

\* A read or the patch fails, and Reconcile with it.
ReconcileFails ==
    /\ Change
    /\ rec.pc # "idle"
    /\ Failed
    /\ UNCHANGED <<pipeline, plvars, clvars, queued, timer, lost>>

\* The patch fails for Reconcile only.
PatchAnswerLost ==
    /\ Change
    /\ rec.pc = "patch"
    /\ pipeline.phase # "gone"
    /\ \E stamped \in Stamps : Write([pipeline EXCEPT !.status = Patched(stamped)])
    /\ Failed
    /\ UNCHANGED <<plview, clvars, queued, timer, lost>>

\* requestsForCluster answers nil if List fails.
ListFails(c) ==
    /\ Change
    /\ notices[c] > 0
    /\ notices' = [notices EXCEPT ![c] = @ - 1]
    /\ lost' = TRUE
    /\ UNCHANGED <<pipeline, plvars, cluster, clog, clview, queued, retry, timer, rec>>

\* The stores start with what there is, and every object is an event.
Restart ==
    /\ Change
    /\ plview' = pipeline
    /\ plog' = <<>>
    /\ clview' = cluster
    /\ clog' = [c \in Cluster |-> <<>>]
    /\ notices' = [c \in Cluster |-> 0]
    /\ queued' = (pipeline.phase # "gone")
    /\ retry' = FALSE
    /\ timer' = FALSE
    /\ rec' = Idle
    /\ lost' = FALSE
    /\ UNCHANGED <<pipeline, cluster>>

-----------------------------------------------------------------------------
(***************************************************************************)
(* Users and the clusters.                                                 *)
(***************************************************************************)

Edit(p) ==
    /\ Change
    /\ Write(p)
    /\ UNCHANGED <<plview, clvars, queued, retry, timer, rec, lost>>

ChangeSpec(refs) ==
    /\ pipeline.phase = "live"
    /\ refs # pipeline.refs
    /\ Edit([pipeline EXCEPT !.gen = @ + 1, !.refs = refs])

\* With a finalizer or without one.
Delete(phase) ==
    /\ pipeline.phase # "gone"
    /\ phase # pipeline.phase
    /\ Edit([pipeline EXCEPT !.phase = phase])

Create(refs) ==
    /\ pipeline.phase = "gone"
    /\ Edit([phase |-> "live", gen |-> 1, refs |-> refs, status |-> NoStatus])

ClusterMoves(c, state) ==
    /\ Change
    /\ state # cluster[c]
    /\ cluster' = [cluster EXCEPT ![c] = state]
    /\ clog' = [clog EXCEPT ![c] = Append(@, state)]
    /\ UNCHANGED <<pipeline, plvars, clview, notices, queued, retry, timer, rec, lost>>

-----------------------------------------------------------------------------

Reconcile == Take \/ CheckCluster \/ AllChecked \/ GetAgain \/ PatchStatus

Next ==
    \/ Reconcile
    \/ PipelineEvent \/ RetryDue \/ RequeueDue
    \/ \E c \in Cluster : StoreCluster(c)
    \/ \E c \in Cluster : ClusterEvent(c)
    \/ ReconcileFails \/ PatchAnswerLost \/ Restart
    \/ \E c \in Cluster : ListFails(c)
    \/ \E refs \in Specs : ChangeSpec(refs)
    \/ \E phase \in {"deleting", "gone"} : Delete(phase)
    \/ \E refs \in Specs : Create(refs)
    \/ \E c \in Cluster, state \in ClusterState : ClusterMoves(c, state)

Spec == Init /\ [][Next]_vars

\* Worker, informers, event handlers and timers all go on.  Nothing makes
\* users or clusters do anything, and no call need fail.
Fairness ==
    /\ WF_vars(Reconcile)
    /\ WF_vars(PipelineEvent)
    /\ WF_vars(RetryDue)
    /\ WF_vars(RequeueDue)
    /\ \A c \in Cluster : WF_vars(StoreCluster(c)) /\ WF_vars(ClusterEvent(c))

FairSpec == Spec /\ Fairness

-----------------------------------------------------------------------------
(***************************************************************************)
(* Properties.                                                             *)
(***************************************************************************)

\* Every variable has the shape the code gives it, and only a Pipeline that
\* was not being deleted is ever worked on.
TypeOK ==
    /\ pipeline \in Pipeline
    /\ plog \in Seq(Pipeline)
    /\ plview \in Pipeline
    /\ cluster \in [Cluster -> ClusterState]
    /\ clog \in [Cluster -> Seq(ClusterState)]
    /\ clview \in [Cluster -> ClusterState]
    /\ notices \in [Cluster -> Nat]
    /\ queued \in BOOLEAN /\ retry \in BOOLEAN /\ timer \in BOOLEAN /\ lost \in BOOLEAN
    /\ rec \in [pc : {"idle", "walk", "get", "patch"}, copy : Pipeline, i : Nat \ {0},
                status : Status, flips : BOOLEAN, base : Status]
    /\ rec.pc = "walk" => rec.copy.phase = "live"
    /\ rec.i <= Len(rec.copy.refs) + 1
    /\ changes \in 0..MaxChanges

\* The condition for the clusters in the state they have in view: the first
\* one that is not ready decides.
Verdict(refs, view) ==
    IF \A i \in DOMAIN refs : view[refs[i]] = "ready" THEN Succeeded
    ELSE LET i == CHOOSE i \in DOMAIN refs : /\ view[refs[i]] # "ready"
                                             /\ \A j \in 1..(i - 1) : view[refs[j]] = "ready"
         IN  Unready(refs[i], view[refs[i]])

RightStatus(p, view) == [observed |-> p.gen, ready |-> Verdict(p.refs, view)]

StatusIsRight == pipeline.status = RightStatus(pipeline, cluster)

\* Nothing is under way that would make the controller look at the Pipeline
\* again, but for RequeueAfter.
Quiet ==
    /\ plog = <<>>
    /\ \A c \in Cluster : clog[c] = <<>> /\ notices[c] = 0
    /\ ~queued /\ ~retry
    /\ rec.pc = "idle"

\* Whenever the controller has come to rest the status of a live Pipeline is
\* right, for its current generation and the clusters as they are, without
\* waiting for RequeueAfter.  Reads were stale, a patch may have left a field
\* alone that another had changed, and a patch for a deleted Pipeline may have
\* met its successor; the events always bring it right.  That a cluster's
\* event gets lost (requestsForCluster) is excepted.
QuietIsRight == Quiet /\ pipeline.phase = "live" /\ ~lost => StatusIsRight

\* The status becomes right and stays so once users and clusters leave things
\* alone, unless a cluster's event was lost.
StatusConverges == <>[](pipeline.phase = "live" /\ ~lost => StatusIsRight)

\* Even if events of clusters are lost, a Pipeline whose clusters are all
\* ready is reported ready in the end: as long as it is not, RequeueAfter has
\* Reconcile look again.
RecoveryNoticed ==
    <>[](pipeline.phase = "live" /\ IsTrue(Verdict(pipeline.refs, cluster))
            => StatusIsRight)

=============================================================================
