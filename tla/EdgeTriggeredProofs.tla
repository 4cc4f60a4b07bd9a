------------------------- MODULE EdgeTriggeredProofs -------------------------
(***************************************************************************)
(* Proofs about the edge-triggered reconciler, for any clusters, any specs *)
(* and any number of changes and faults.                                   *)
(***************************************************************************)
EXTENDS EdgeTriggered, WellFoundedInduction, TLAPS

-----------------------------------------------------------------------------
(***************************************************************************)
(* Types.                                                                  *)
(***************************************************************************)

\* A call of Reconcile.
Reconciliation ==
    [pc : {"idle", "walk", "get", "patch"}, copy : Pipeline, i : Nat \ {0},
     status : Status, flips : BOOLEAN, base : Status]

\* Statuses, Pipelines and a Reconcile that hold nothing.
LEMMA IdleType ==
    /\ NoStatus \in Status
    /\ NoPipeline \in Pipeline
    /\ Idle \in Reconciliation
    /\ Idle.pc = "idle"
    /\ Idle.i <= Len(Idle.copy.refs) + 1
<1>1. NoStatus \in Status
  BY DEF NoStatus, NoCondition, Status, Condition, Reason
<1>2. NoPipeline \in Pipeline
  BY <1>1 DEF NoPipeline, Pipeline
<1>3. Idle \in Reconciliation /\ Idle.pc = "idle"
  BY <1>1, <1>2 DEF Idle, Reconciliation
<1>4. Idle.i = 1 /\ Idle.copy.refs = <<>>
  BY DEF Idle, NoPipeline
<1> QED BY <1>1, <1>2, <1>3, <1>4

\* The conditions that Reconcile sets.
LEMMA ConditionType ==
    /\ Succeeded \in Condition
    /\ \A c \in Cluster, state \in ClusterState : Unready(c, state) \in Condition
BY DEF Succeeded, Unready, Condition, Reason

\* A new status is to be patched.
LEMMA SetStatusFacts ==
    ASSUME rec \in Reconciliation, NEW condition \in Condition, SetStatus(condition)
    PROVE  /\ rec' \in Reconciliation
           /\ rec'.pc = "get"
           /\ rec'.status = [observed |-> rec.copy.gen, ready |-> condition]
           /\ rec'.i <= Len(rec'.copy.refs) + 1
<1>1. [observed |-> rec.copy.gen, ready |-> condition] \in Status
  BY DEF Reconciliation, Pipeline, Status
<1>2. /\ rec'.pc = "get" /\ rec'.copy = NoPipeline /\ rec'.i = 1
      /\ rec'.status = [observed |-> rec.copy.gen, ready |-> condition]
      /\ rec'.flips \in BOOLEAN /\ rec'.base = NoStatus
  BY <1>1 DEF SetStatus, Idle
<1>3. rec' = [pc |-> rec'.pc, copy |-> rec'.copy, i |-> rec'.i, status |-> rec'.status,
              flips |-> rec'.flips, base |-> rec'.base]
  BY DEF SetStatus, Idle
<1>4. rec' \in Reconciliation
  BY <1>1, <1>2, <1>3, IdleType DEF Reconciliation
<1>5. Len(rec'.copy.refs) = 0
  BY <1>2 DEF NoPipeline
<1> QED BY <1>2, <1>4, <1>5

\* What a patch makes of the status.
LEMMA PatchedType ==
    ASSUME rec \in Reconciliation, pipeline \in Pipeline, NEW stamped \in BOOLEAN
    PROVE  [pipeline EXCEPT !.status = Patched(stamped)] \in Pipeline
<1>1. Patched(stamped) \in Status
  BY DEF Patched, Reconciliation, Pipeline, Status
<1> QED BY <1>1 DEF Pipeline

\* The API server and the log after a write.
LEMMA WriteType ==
    ASSUME pipeline \in Pipeline, plog \in Seq(Pipeline), NEW p \in Pipeline, Write(p)
    PROVE  pipeline' \in Pipeline /\ plog' \in Seq(Pipeline)
BY DEF Write

\* The types hold at the start.
LEMMA TypeInit == Init => TypeOK
<1> SUFFICES ASSUME Init PROVE TypeOK
  OBVIOUS
<1>1. pipeline \in Pipeline /\ plview \in Pipeline
  <2>1. PICK refs \in Specs :
           pipeline = [phase |-> "live", gen |-> 1, refs |-> refs, status |-> NoStatus]
    BY DEF Init
  <2>2. refs \in Seq(Cluster)
    BY EdgeTriggeredAssumption
  <2> QED BY <2>1, <2>2, IdleType DEF Init, Pipeline
<1>2. cluster \in [Cluster -> ClusterState] /\ clview \in [Cluster -> ClusterState]
  BY EdgeTriggeredAssumption DEF Init, ClusterState
<1>3. /\ rec \in Reconciliation /\ rec.pc = "idle" /\ rec.i <= Len(rec.copy.refs) + 1
  BY IdleType DEF Init
<1>4. /\ plog \in Seq(Pipeline) /\ clog \in [Cluster -> Seq(ClusterState)]
      /\ notices \in [Cluster -> Nat]
  BY DEF Init
<1>5. changes \in 0..MaxChanges
  BY EdgeTriggeredAssumption DEF Init
<1>6. queued \in BOOLEAN /\ retry \in BOOLEAN /\ timer \in BOOLEAN /\ lost \in BOOLEAN
  BY DEF Init
<1> QED BY <1>1, <1>2, <1>3, <1>4, <1>5, <1>6 DEF TypeOK, Reconciliation

\* The types of rec, which most steps leave alone.
RecOK ==
    /\ rec \in Reconciliation
    /\ rec.pc = "walk" => rec.copy.phase = "live"
    /\ rec.i <= Len(rec.copy.refs) + 1

\* The types of the rest.
RestOK ==
    /\ pipeline \in Pipeline
    /\ plog \in Seq(Pipeline)
    /\ plview \in Pipeline
    /\ cluster \in [Cluster -> ClusterState]
    /\ clog \in [Cluster -> Seq(ClusterState)]
    /\ clview \in [Cluster -> ClusterState]
    /\ notices \in [Cluster -> Nat]
    /\ queued \in BOOLEAN /\ retry \in BOOLEAN /\ timer \in BOOLEAN /\ lost \in BOOLEAN
    /\ changes \in 0..MaxChanges

\* The two make up TypeOK, here
LEMMA TypeParts == TypeOK <=> RecOK /\ RestOK
BY DEF TypeOK, RecOK, RestOK, Reconciliation

\* and after a step.
LEMMA TypePartsNext == TypeOK' <=> RecOK' /\ RestOK'
BY DEF TypeOK, RecOK, RestOK, Reconciliation

\* A Reconcile that is over.
LEMMA IdleOK == ASSUME rec' = Idle PROVE RecOK'
BY IdleType DEF RecOK

\* Reconcile keeps the types.
LEMMA TypeReconcile ==
    ASSUME RecOK, RestOK, Reconcile
    PROVE  RecOK' /\ RestOK'
<1> USE DEF RestOK
<1>1. CASE Take
  <2>1. CASE plview.phase = "live"
    <3>1. rec' = [Idle EXCEPT !.pc = "walk", !.copy = plview]
      BY <1>1, <2>1 DEF Take
    <3>2. /\ rec'.pc = "walk" /\ rec'.copy = plview /\ rec'.i = 1
      BY <3>1 DEF Idle
    <3>3. rec' = [pc |-> "walk", copy |-> plview, i |-> 1, status |-> NoStatus,
                  flips |-> FALSE, base |-> NoStatus]
      BY <3>1 DEF Idle
    <3>4. rec' \in Reconciliation
      BY <3>3, IdleType DEF Reconciliation
    <3>5. Len(plview.refs) \in Nat
      BY DEF Pipeline
    <3>6. RecOK'
      BY <2>1, <3>2, <3>4, <3>5 DEF RecOK
    <3> QED BY <1>1, <3>6 DEF Take, plvars, clvars
  <2>2. CASE plview.phase # "live"
    BY <1>1, <2>2 DEF Take, RecOK, plvars, clvars
  <2> QED BY <2>1, <2>2
<1>2. CASE CheckCluster
  <2> DEFINE c == rec.copy.refs[rec.i]
  <2>1. c \in Cluster /\ clview[c] \in ClusterState
    BY <1>2 DEF CheckCluster, RecOK, Reconciliation, Pipeline
  <2>2. CASE rec' = [rec EXCEPT !.i = @ + 1]
    <3>1. /\ rec' \in Reconciliation /\ rec'.pc = rec.pc /\ rec'.copy = rec.copy
          /\ rec'.i = rec.i + 1
      <4>1. rec' = [rec EXCEPT !.i = rec.i + 1] /\ rec \in Reconciliation
        BY <2>2 DEF RecOK
      <4>2. rec.i + 1 \in Nat \ {0}
        BY <4>1 DEF Reconciliation
      <4> QED BY <4>1, <4>2 DEF Reconciliation
    <3>2. rec.i \in Nat /\ Len(rec.copy.refs) \in Nat /\ rec.i <= Len(rec.copy.refs)
      BY <1>2 DEF CheckCluster, RecOK, Reconciliation, Pipeline
    <3>3. RecOK'
      BY <3>1, <3>2 DEF RecOK
    <3> QED BY <1>2, <3>3 DEF CheckCluster, plvars, clvars
  <2>3. CASE SetStatus(Unready(c, clview[c]))
    <3>1. RecOK'
      BY <2>1, <2>3, ConditionType, SetStatusFacts DEF RecOK
    <3> QED BY <1>2, <3>1 DEF CheckCluster, plvars, clvars
  <2> QED BY <1>2, <2>2, <2>3 DEF CheckCluster
<1>3. CASE AllChecked
  <2>1. RecOK'
    BY <1>3, ConditionType, SetStatusFacts DEF AllChecked, RecOK
  <2> QED BY <1>3, <2>1 DEF AllChecked, plvars, clvars
<1>4. CASE GetAgain
  <2>1. CASE Failed
    BY <1>4, <2>1, IdleOK DEF GetAgain, Failed, plvars, clvars
  <2>2. CASE rec' = [rec EXCEPT !.pc = "patch", !.base = plview.status] /\ UNCHANGED retry
    <3>1. plview.status \in Status
      BY DEF Pipeline
    <3>2. /\ rec' \in Reconciliation /\ rec'.pc = "patch" /\ rec'.copy = rec.copy
          /\ rec'.i = rec.i
      BY <2>2, <3>1 DEF RecOK, Reconciliation
    <3>3. RecOK'
      BY <3>2 DEF RecOK
    <3> QED BY <1>4, <2>2, <3>3 DEF GetAgain, plvars, clvars
  <2> QED BY <1>4, <2>1, <2>2 DEF GetAgain
<1>5. CASE PatchStatus
  <2>1. pipeline' \in Pipeline /\ plog' \in Seq(Pipeline)
    <3>1. CASE UNCHANGED <<pipeline, plog>>
      BY <3>1
    <3>2. ASSUME NEW stamped \in Stamps,
                 Write([pipeline EXCEPT !.status = Patched(stamped)])
          PROVE  pipeline' \in Pipeline /\ plog' \in Seq(Pipeline)
      <4>1. stamped \in BOOLEAN
        BY <3>2 DEF Stamps
      <4>2. [pipeline EXCEPT !.status = Patched(stamped)] \in Pipeline
        BY <4>1, PatchedType DEF RecOK
      <4> QED BY <3>2, <4>2, WriteType
    <3> QED BY <1>5, <3>1, <3>2 DEF PatchStatus
  <2>2. RecOK' /\ retry' \in BOOLEAN /\ timer' \in BOOLEAN
    BY <1>5, IdleOK DEF PatchStatus, Failed
  <2> QED BY <1>5, <2>1, <2>2 DEF PatchStatus, clvars
<1> QED BY <1>1, <1>2, <1>3, <1>4, <1>5 DEF Reconcile

\* The controller's events keep the types.
LEMMA TypeEvents ==
    ASSUME RecOK, RestOK,
           \/ PipelineEvent \/ RetryDue \/ RequeueDue
           \/ \E c \in Cluster : StoreCluster(c) \/ ClusterEvent(c)
    PROVE  RecOK' /\ RestOK'
<1> USE DEF RestOK
<1>1. CASE PipelineEvent
  <2>1. plview' \in Pipeline /\ plog' \in Seq(Pipeline)
    BY <1>1 DEF PipelineEvent
  <2> QED BY <1>1, <2>1 DEF PipelineEvent, RecOK, clvars
<1>2. CASE RetryDue \/ RequeueDue
  BY <1>2 DEF RetryDue, RequeueDue, RecOK, plvars, clvars
<1>3. ASSUME NEW c \in Cluster, StoreCluster(c) PROVE RecOK' /\ RestOK'
  <2>1. Head(clog[c]) \in ClusterState /\ Tail(clog[c]) \in Seq(ClusterState)
    BY <1>3 DEF StoreCluster
  <2>2. /\ clview' \in [Cluster -> ClusterState]
        /\ clog' \in [Cluster -> Seq(ClusterState)]
        /\ notices' \in [Cluster -> Nat]
    BY <1>3, <2>1 DEF StoreCluster
  <2> QED BY <1>3, <2>2 DEF StoreCluster, RecOK, plvars
<1>4. ASSUME NEW c \in Cluster, ClusterEvent(c) PROVE RecOK' /\ RestOK'
  <2>1. notices' \in [Cluster -> Nat]
    BY <1>4 DEF ClusterEvent
  <2>2. queued' \in BOOLEAN
    BY <1>4 DEF ClusterEvent, Indexed
  <2> QED BY <1>4, <2>1, <2>2 DEF ClusterEvent, RecOK, plvars
<1> QED BY <1>1, <1>2, <1>3, <1>4

\* What goes wrong, users and clusters keep the types.
LEMMA TypeWorld ==
    ASSUME RecOK, RestOK,
           \/ ReconcileFails \/ PatchAnswerLost \/ Restart
           \/ \E c \in Cluster : ListFails(c)
           \/ \E refs \in Specs : ChangeSpec(refs)
           \/ \E phase \in {"deleting", "gone"} : Delete(phase)
           \/ \E refs \in Specs : Create(refs)
           \/ \E c \in Cluster, state \in ClusterState : ClusterMoves(c, state)
    PROVE  RecOK' /\ RestOK'
<1> USE DEF RestOK
<1>0. Change => changes' \in 0..MaxChanges
  BY EdgeTriggeredAssumption DEF Change
<1>1. CASE ReconcileFails
  BY <1>0, <1>1, IdleOK DEF ReconcileFails, Failed, plvars, clvars
<1>2. CASE PatchAnswerLost
  <2>1. PICK stamped \in Stamps : Write([pipeline EXCEPT !.status = Patched(stamped)])
    BY <1>2 DEF PatchAnswerLost
  <2>2. stamped \in BOOLEAN
    BY <2>1 DEF Stamps
  <2>3. [pipeline EXCEPT !.status = Patched(stamped)] \in Pipeline
    BY <2>2, PatchedType DEF RecOK
  <2>4. pipeline' \in Pipeline /\ plog' \in Seq(Pipeline)
    BY <2>1, <2>3, WriteType
  <2> QED BY <1>0, <1>2, <2>4, IdleOK DEF PatchAnswerLost, Failed, clvars
<1>3. CASE Restart
  <2>1. RecOK'
    BY <1>3, IdleOK DEF Restart
  <2>2. /\ plview' \in Pipeline /\ plog' \in Seq(Pipeline)
        /\ clview' \in [Cluster -> ClusterState]
        /\ clog' \in [Cluster -> Seq(ClusterState)]
        /\ notices' \in [Cluster -> Nat]
    BY <1>3 DEF Restart
  <2>3. /\ queued' \in BOOLEAN /\ retry' \in BOOLEAN /\ timer' \in BOOLEAN
        /\ lost' \in BOOLEAN
    BY <1>3 DEF Restart
  <2> QED BY <1>0, <1>3, <2>1, <2>2, <2>3 DEF Restart
<1>4. ASSUME NEW c \in Cluster, ListFails(c) PROVE RecOK' /\ RestOK'
  <2>1. notices' \in [Cluster -> Nat]
    BY <1>4 DEF ListFails
  <2> QED BY <1>0, <1>4, <2>1 DEF ListFails, RecOK, plvars
<1>5. ASSUME NEW p \in Pipeline, Edit(p) PROVE RecOK' /\ RestOK'
  <2>1. pipeline' \in Pipeline /\ plog' \in Seq(Pipeline)
    BY <1>5, WriteType DEF Edit
  <2> QED BY <1>0, <1>5, <2>1 DEF Edit, RecOK, clvars
<1>6. ASSUME NEW refs \in Specs, ChangeSpec(refs) PROVE RecOK' /\ RestOK'
  <2>1. refs \in Seq(Cluster)
    BY EdgeTriggeredAssumption
  <2>2. [pipeline EXCEPT !.gen = @ + 1, !.refs = refs] \in Pipeline
    <3> DEFINE p == [pipeline EXCEPT !.gen = @ + 1]
    <3>1. p \in Pipeline
      <4>1. pipeline.gen + 1 \in Nat
        BY DEF Pipeline
      <4>2. p = [pipeline EXCEPT !.gen = pipeline.gen + 1]
        OBVIOUS
      <4> HIDE DEF p
      <4> QED BY <4>1, <4>2 DEF Pipeline
    <3> HIDE DEF p
    <3>2. [p EXCEPT !.refs = refs] \in Pipeline
      BY <2>1, <3>1 DEF Pipeline
    <3> QED BY <3>2 DEF p
  <2> QED BY <1>5, <1>6, <2>2 DEF ChangeSpec
<1>7. ASSUME NEW phase \in {"deleting", "gone"}, Delete(phase) PROVE RecOK' /\ RestOK'
  <2>1. [pipeline EXCEPT !.phase = phase] \in Pipeline
    BY DEF Pipeline
  <2> QED BY <1>5, <1>7, <2>1 DEF Delete
<1>8. ASSUME NEW refs \in Specs, Create(refs) PROVE RecOK' /\ RestOK'
  <2>1. refs \in Seq(Cluster)
    BY EdgeTriggeredAssumption
  <2>2. [phase |-> "live", gen |-> 1, refs |-> refs, status |-> NoStatus] \in Pipeline
    BY <2>1, IdleType DEF Pipeline
  <2> QED BY <1>5, <1>8, <2>2 DEF Create
<1>9. ASSUME NEW c \in Cluster, NEW state \in ClusterState, ClusterMoves(c, state)
      PROVE  RecOK' /\ RestOK'
  <2>1. Append(clog[c], state) \in Seq(ClusterState)
    OBVIOUS
  <2>2. /\ cluster' \in [Cluster -> ClusterState]
        /\ clog' \in [Cluster -> Seq(ClusterState)]
    BY <1>9, <2>1 DEF ClusterMoves
  <2> QED BY <1>0, <1>9, <2>2 DEF ClusterMoves, RecOK, plvars
<1> QED BY <1>1, <1>2, <1>3, <1>4, <1>6, <1>7, <1>8, <1>9

\* Every variable keeps the shape the code gives it, and only a Pipeline that
\* was not being deleted when it was read is ever worked on (Reconcile).
THEOREM TypeCorrect == Spec => []TypeOK
<1>1. TypeOK /\ [Next]_vars => TypeOK'
  <2> SUFFICES ASSUME TypeOK, [Next]_vars PROVE TypeOK'
    OBVIOUS
  <2>1. RecOK /\ RestOK
    BY TypeParts
  <2>2. CASE UNCHANGED vars
    BY <2>2 DEF TypeOK, vars, plvars, clvars
  <2>3. CASE Next
    <3>1. RecOK' /\ RestOK'
      BY <2>1, <2>3, TypeReconcile, TypeEvents, TypeWorld DEF Next
    <3> QED BY <3>1, TypePartsNext
  <2> QED BY <2>2, <2>3
<1> QED BY <1>1, TypeInit, PTL DEF Spec

-----------------------------------------------------------------------------
(***************************************************************************)
(* The verdict.                                                            *)
(***************************************************************************)

\* The first cluster that is not ready decides.
LEMMA VerdictFirst ==
    ASSUME NEW refs \in Seq(Cluster), NEW view, NEW i \in DOMAIN refs,
           view[refs[i]] # "ready",
           \A j \in 1..(i - 1) : view[refs[j]] = "ready"
    PROVE  Verdict(refs, view) = Unready(refs[i], view[refs[i]])
<1> DEFINE First(k) == /\ view[refs[k]] # "ready"
                       /\ \A j \in 1..(k - 1) : view[refs[j]] = "ready"
           m == CHOOSE k \in DOMAIN refs : First(k)
<1>1. DOMAIN refs = 1..Len(refs) /\ Len(refs) \in Nat
  OBVIOUS
<1>2. m \in DOMAIN refs /\ First(m)
  <2>1. First(i)
    OBVIOUS
  <2> HIDE DEF First
  <2> QED BY <2>1
<1>3. Verdict(refs, view) = Unready(refs[m], view[refs[m]])
  BY DEF Verdict
<1> HIDE DEF m
<1>4. ~(i < m)
  BY <1>1, <1>2
<1>5. ~(m < i)
  BY <1>1, <1>2
<1>6. m = i
  BY <1>1, <1>2, <1>4, <1>5
<1> QED BY <1>3, <1>6

\* If not all are ready, there is a first that is not.
LEMMA FirstExists ==
    ASSUME NEW refs \in Seq(Cluster), NEW view,
           ~(\A i \in DOMAIN refs : view[refs[i]] = "ready")
    PROVE  \E i \in DOMAIN refs : /\ view[refs[i]] # "ready"
                                  /\ \A j \in 1..(i - 1) : view[refs[j]] = "ready"
<1> DEFINE U == {i \in DOMAIN refs : view[refs[i]] # "ready"}
<1>1. U # {} /\ DOMAIN refs = 1..Len(refs) /\ Len(refs) \in Nat
  OBVIOUS
<1>2. U \subseteq Nat
  BY <1>1
<1>3. PICK i \in U : \A j \in U : ~(<<j, i>> \in OpToRel(<, Nat))
  <2> HIDE DEF U
  <2> QED BY <1>1, <1>2, WFMin, NatLessThanWellFounded
<1>4. \A j \in U : ~(j < i)
  BY <1>2, <1>3 DEF OpToRel
<1>5. \A j \in 1..(i - 1) : view[refs[j]] = "ready"
  BY <1>1, <1>4
<1> QED BY <1>5

\* The verdict depends on the clusters that are referred to only.
LEMMA VerdictLocal ==
    ASSUME NEW refs \in Seq(Cluster), NEW view, NEW other,
           \A i \in DOMAIN refs : other[refs[i]] = view[refs[i]]
    PROVE  Verdict(refs, other) = Verdict(refs, view)
<1>1. CASE \A i \in DOMAIN refs : view[refs[i]] = "ready"
  BY <1>1 DEF Verdict
<1>2. CASE ~(\A i \in DOMAIN refs : view[refs[i]] = "ready")
  <2>1. PICK i \in DOMAIN refs : /\ view[refs[i]] # "ready"
                                 /\ \A j \in 1..(i - 1) : view[refs[j]] = "ready"
    BY <1>2, FirstExists
  <2>2. Verdict(refs, view) = Unready(refs[i], view[refs[i]])
    BY <2>1, VerdictFirst
  <2>3. other[refs[i]] # "ready" /\ other[refs[i]] = view[refs[i]]
    BY <2>1
  <2>4. \A j \in 1..(i - 1) : j \in DOMAIN refs
    OBVIOUS
  <2>5. \A j \in 1..(i - 1) : other[refs[j]] = "ready"
    BY <2>1, <2>4
  <2>6. Verdict(refs, other) = Unready(refs[i], other[refs[i]])
    BY <2>3, <2>5, VerdictFirst
  <2> QED BY <2>2, <2>3, <2>6
<1> QED BY <1>1, <1>2

\* If all are ready, so it is.
LEMMA VerdictAllReady ==
    ASSUME NEW refs, NEW view, \A i \in DOMAIN refs : view[refs[i]] = "ready"
    PROVE  Verdict(refs, view) = Succeeded
BY DEF Verdict

-----------------------------------------------------------------------------
(***************************************************************************)
(* At rest the status is right.                                            *)
(***************************************************************************)

\* The logs lead from what the stores have to what the API server has.
LogsLead ==
    /\ plog = <<>> => plview = pipeline
    /\ plog # <<>> => plog[Len(plog)] = pipeline
    /\ \A c \in Cluster : /\ clog[c] = <<>> => clview[c] = cluster[c]
                          /\ clog[c] # <<>> => clog[c][Len(clog[c])] = cluster[c]

\* Unless the Pipeline is queued, Reconcile has it as the store has it.
CopyCurrent ==
    ~queued =>
        /\ rec.pc # "idle" => plview.phase = "live"
        /\ rec.pc = "walk" => rec.copy = plview
        /\ rec.pc = "patch" => rec.base = plview.status

\* No event is on its way, or lost, that would have the Pipeline looked at once
\* more for what the stores have now.
Unsuspecting ==
    /\ ~queued /\ ~lost
    /\ \A i \in DOMAIN plview.refs : notices[plview.refs[i]] = 0

\* Then Reconcile has found out what holds in the stores, as far as it has got,
\* and has left it at the API server when it is done.
FoundOut ==
    Unsuspecting =>
        /\ rec.pc = "walk" =>
              \A j \in 1..(rec.i - 1) : clview[plview.refs[j]] = "ready"
        /\ rec.pc \in {"get", "patch"} => rec.status = RightStatus(plview, clview)
        /\ rec.pc = "idle" /\ ~retry /\ plog = <<>> /\ pipeline.phase = "live" =>
              pipeline.status = RightStatus(plview, clview)

EdgeInv == LogsLead /\ CopyCurrent /\ FoundOut

\* What is taken from a log leads to the same end.
LEMMA TailLeads ==
    ASSUME NEW S, NEW log \in Seq(S), log # <<>>
    PROVE  /\ Tail(log) = <<>> => Head(log) = log[Len(log)]
           /\ Tail(log) # <<>> => Tail(log)[Len(Tail(log))] = log[Len(log)]
<1>1. Len(log) \in Nat \ {0} /\ Len(Tail(log)) = Len(log) - 1 /\ Head(log) = log[1]
  OBVIOUS
<1>2. Tail(log) \in Seq(S) /\ \A i \in 1..(Len(log) - 1) : Tail(log)[i] = log[i + 1]
  OBVIOUS
<1>3. Tail(log) = <<>> <=> Len(Tail(log)) = 0
  <2>1. \A t \in Seq(S) : t = <<>> <=> Len(t) = 0
    OBVIOUS
  <2> QED BY <1>2, <2>1
<1>4. CASE Len(log) = 1
  BY <1>1, <1>3, <1>4
<1>5. CASE Len(log) # 1
  <2>1. Len(log) - 1 \in 1..(Len(log) - 1) /\ (Len(log) - 1) + 1 = Len(log)
    BY <1>1, <1>5
  <2>2. Tail(log)[Len(log) - 1] = log[Len(log)]
    BY <1>2, <2>1
  <2> QED BY <1>1, <1>3, <1>5, <2>2
<1> QED BY <1>4, <1>5

\* What is put to a log is its end.
LEMMA AppendLeads ==
    ASSUME NEW S, NEW log \in Seq(S), NEW e \in S
    PROVE  /\ Append(log, e) # <<>>
           /\ Append(log, e)[Len(Append(log, e))] = e
OBVIOUS

\* A write extends the log, unless it changes nothing.
LEMMA WriteLeads ==
    ASSUME RestOK, LogsLead, NEW p \in Pipeline, Write(p), plview' = plview
    PROVE  /\ plog' = <<>> => plview' = pipeline' /\ pipeline' = pipeline /\ plog = <<>>
           /\ plog' # <<>> => plog'[Len(plog')] = pipeline'
<1>1. CASE p = pipeline
  BY <1>1 DEF Write, LogsLead
<1>2. CASE p # pipeline
  <2>1. plog \in Seq(Pipeline) /\ plog' = Append(plog, p) /\ pipeline' = p
    BY <1>2 DEF Write, RestOK
  <2> QED BY <2>1, AppendLeads
<1> QED BY <1>1, <1>2

\* A step that writes the Pipeline writes a Pipeline.
LEMMA PatchWrites ==
    ASSUME RecOK, RestOK,
           \E stamped \in Stamps : Write([pipeline EXCEPT !.status = Patched(stamped)])
    PROVE  \E p \in Pipeline : Write(p)
<1>1. PICK stamped \in Stamps : Write([pipeline EXCEPT !.status = Patched(stamped)])
  OBVIOUS
<1>2. stamped \in BOOLEAN
  BY <1>1 DEF Stamps
<1>3. [pipeline EXCEPT !.status = Patched(stamped)] \in Pipeline
  BY <1>2, PatchedType DEF RecOK, RestOK
<1> QED BY <1>1, <1>3

\* The Pipeline is written by patches and by users.
LEMMA Writes ==
    ASSUME RecOK, RestOK, [Next]_vars
    PROVE  \/ pipeline' = pipeline /\ plog' = plog /\ plview' = plview
           \/ PipelineEvent
           \/ Restart
           \/ plview' = plview /\ \E p \in Pipeline : Write(p)
<1>1. CASE PatchStatus
  BY <1>1, PatchWrites DEF PatchStatus
<1>2. CASE PatchAnswerLost
  BY <1>2, PatchWrites DEF PatchAnswerLost
<1>3. ASSUME NEW p, Edit(p) PROVE plview' = plview /\ Write(p)
  BY <1>3 DEF Edit
<1>4. ASSUME NEW refs \in Specs, ChangeSpec(refs) \/ Create(refs)
      PROVE  plview' = plview /\ \E p \in Pipeline : Write(p)
  <2>1. RestOK'
    BY <1>4, TypeWorld
  <2>2. PICK p : Edit(p)
    BY <1>4 DEF ChangeSpec, Create
  <2>3. plview' = plview /\ Write(p)
    BY <1>3, <2>2
  <2>4. p \in Pipeline
    BY <2>1, <2>3 DEF Write, RestOK
  <2> QED BY <2>3, <2>4
<1>5. ASSUME NEW phase \in {"deleting", "gone"}, Delete(phase)
      PROVE  plview' = plview /\ \E p \in Pipeline : Write(p)
  <2>1. RestOK'
    BY <1>5, TypeWorld
  <2>2. PICK p : Edit(p)
    BY <1>5 DEF Delete
  <2>3. plview' = plview /\ Write(p)
    BY <1>3, <2>2
  <2>4. p \in Pipeline
    BY <2>1, <2>3 DEF Write, RestOK
  <2> QED BY <2>3, <2>4
<1> QED BY <1>1, <1>2, <1>4, <1>5
        DEF Next, Reconcile, Take, CheckCluster, AllChecked, GetAgain, RetryDue, RequeueDue,
            StoreCluster, ClusterEvent, ReconcileFails, ListFails, ClusterMoves, plvars, vars

\* The logs go on leading from the stores to the API server.
LEMMA LogsStep ==
    ASSUME RecOK, RestOK, LogsLead, [Next]_vars
    PROVE  LogsLead'
<1>1. (plog = <<>> => plview = pipeline)' /\ (plog # <<>> => plog[Len(plog)] = pipeline)'
  <2>1. CASE pipeline' = pipeline /\ plog' = plog /\ plview' = plview
    BY <2>1 DEF LogsLead
  <2>2. CASE PipelineEvent
    <3>1. /\ plog # <<>> /\ plview' = Head(plog) /\ plog' = Tail(plog)
          /\ pipeline' = pipeline
      BY <2>2 DEF PipelineEvent
    <3> QED BY <3>1, TailLeads DEF LogsLead, RestOK
  <2>3. CASE Restart
    BY <2>3 DEF Restart
  <2>4. CASE plview' = plview /\ \E p \in Pipeline : Write(p)
    BY <2>4, WriteLeads
  <2> QED BY <2>1, <2>2, <2>3, <2>4, Writes
<1>2. ASSUME NEW d \in Cluster
      PROVE  /\ (clog[d] = <<>> => clview[d] = cluster[d])'
             /\ (clog[d] # <<>> => clog[d][Len(clog[d])] = cluster[d])'
  <2>0. clog[d] \in Seq(ClusterState)
    BY DEF RestOK
  <2>1. CASE clog'[d] = clog[d] /\ clview'[d] = clview[d] /\ cluster'[d] = cluster[d]
    BY <2>1 DEF LogsLead
  <2>2. CASE StoreCluster(d)
    <3>1. /\ clog[d] # <<>> /\ clview'[d] = Head(clog[d]) /\ clog'[d] = Tail(clog[d])
          /\ cluster'[d] = cluster[d]
      BY <2>2 DEF StoreCluster, RestOK
    <3> QED BY <2>0, <3>1, TailLeads DEF LogsLead
  <2>3. CASE Restart
    BY <2>3 DEF Restart
  <2>4. ASSUME NEW state \in ClusterState, ClusterMoves(d, state)
        PROVE  /\ (clog[d] = <<>> => clview[d] = cluster[d])'
               /\ (clog[d] # <<>> => clog[d][Len(clog[d])] = cluster[d])'
    <3>1. clog'[d] = Append(clog[d], state) /\ cluster'[d] = state
      BY <2>4 DEF ClusterMoves, RestOK
    <3> QED BY <2>0, <3>1, AppendLeads
  <2>5. \/ clog'[d] = clog[d] /\ clview'[d] = clview[d] /\ cluster'[d] = cluster[d]
        \/ StoreCluster(d)
        \/ Restart
        \/ \E state \in ClusterState : ClusterMoves(d, state)
    <3>1. CASE UNCHANGED <<clog, clview, cluster>>
      BY <3>1
    <3>2. ASSUME NEW c \in Cluster, StoreCluster(c), c # d
          PROVE  clog'[d] = clog[d] /\ clview'[d] = clview[d] /\ cluster'[d] = cluster[d]
      BY <3>2 DEF StoreCluster, RestOK
    <3>3. ASSUME NEW c \in Cluster, NEW state \in ClusterState, ClusterMoves(c, state), c # d
          PROVE  clog'[d] = clog[d] /\ clview'[d] = clview[d] /\ cluster'[d] = cluster[d]
      BY <3>3 DEF ClusterMoves, RestOK
    <3> QED BY <3>1, <3>2, <3>3
            DEF Next, Reconcile, Take, CheckCluster, AllChecked, GetAgain, PatchStatus,
                PipelineEvent, RetryDue, RequeueDue, ClusterEvent, ReconcileFails,
                PatchAnswerLost, ListFails, ChangeSpec, Delete, Create, Edit, clvars, vars
  <2> QED BY <2>1, <2>2, <2>3, <2>4, <2>5
<1> QED BY <1>1, <1>2 DEF LogsLead

\* Reconcile goes on having the Pipeline as the store has it, or the Pipeline is
\* queued.
LEMMA CopyStep ==
    ASSUME RecOK, RestOK, CopyCurrent, [Next]_vars
    PROVE  CopyCurrent'
<1>1. CASE queued' = TRUE
  BY <1>1 DEF CopyCurrent
<1>2. CASE rec' = rec /\ plview' = plview /\ (~queued' => ~queued)
  BY <1>2 DEF CopyCurrent
<1>3. CASE rec'.pc = "idle"
  BY <1>3 DEF CopyCurrent
<1>4. CASE Take
  <2>1. CASE plview.phase = "live"
    <3>1. rec'.pc = "walk" /\ rec'.copy = plview /\ plview' = plview
      BY <1>4, <2>1 DEF Take, Idle, plvars
    <3> QED BY <2>1, <3>1 DEF CopyCurrent
  <2>2. CASE plview.phase # "live"
    BY <1>3, <1>4, <2>2 DEF Take
  <2> QED BY <2>1, <2>2
<1>5. CASE CheckCluster \/ AllChecked
  <2>0. rec.pc = "walk" /\ queued' = queued /\ plview' = plview
    BY <1>5 DEF CheckCluster, AllChecked, plvars
  <2>1. CASE rec'.pc = "get"
    BY <2>0, <2>1 DEF CopyCurrent
  <2>2. CASE rec' = [rec EXCEPT !.i = @ + 1]
    <3>1. rec'.pc = rec.pc /\ rec'.copy = rec.copy
      BY <2>2 DEF RecOK, Reconciliation
    <3> QED BY <2>0, <3>1 DEF CopyCurrent
  <2>3. rec'.pc = "get" \/ rec' = [rec EXCEPT !.i = @ + 1]
    BY <1>5 DEF CheckCluster, AllChecked, SetStatus, Idle
  <2> QED BY <2>1, <2>2, <2>3
<1>6. CASE GetAgain
  <2>1. CASE Failed
    BY <1>3, <2>1, IdleType DEF Failed
  <2>2. CASE rec' = [rec EXCEPT !.pc = "patch", !.base = plview.status]
    <3>1. rec'.pc = "patch" /\ rec'.base = plview.status
      BY <2>2 DEF RecOK, Reconciliation
    <3>2. rec.pc = "get" /\ queued' = queued /\ plview' = plview
      BY <1>6 DEF GetAgain, plvars
    <3> QED BY <3>1, <3>2 DEF CopyCurrent
  <2> QED BY <1>6, <2>1, <2>2 DEF GetAgain
<1>7. CASE PatchStatus \/ ReconcileFails \/ PatchAnswerLost \/ Restart
  <2>1. rec' = Idle
    BY <1>7 DEF PatchStatus, ReconcileFails, PatchAnswerLost, Restart, Failed
  <2> QED BY <1>3, <2>1, IdleType
<1>8. CASE PipelineEvent \/ RetryDue \/ RequeueDue
  BY <1>1, <1>8 DEF PipelineEvent, RetryDue, RequeueDue
<1>9. ASSUME NEW c \in Cluster, ClusterEvent(c) PROVE CopyCurrent'
  <2>1. Indexed(c) \in BOOLEAN /\ queued \in BOOLEAN
    BY DEF Indexed, RestOK
  <2>2. rec' = rec /\ plview' = plview /\ queued' = (queued \/ Indexed(c))
    BY <1>9 DEF ClusterEvent, plvars
  <2> QED BY <1>2, <2>1, <2>2
<1>10. CASE \/ \E c \in Cluster : StoreCluster(c) \/ ListFails(c)
            \/ \E refs \in Specs : ChangeSpec(refs) \/ Create(refs)
            \/ \E phase \in {"deleting", "gone"} : Delete(phase)
            \/ \E c \in Cluster, state \in ClusterState : ClusterMoves(c, state)
            \/ UNCHANGED vars
  <2>1. rec' = rec /\ plview' = plview /\ queued' = queued
    BY <1>10 DEF StoreCluster, ListFails, ChangeSpec, Create, Delete, Edit,
                 ClusterMoves, plvars, vars
  <2> QED BY <1>2, <2>1
<1> QED BY <1>4, <1>5, <1>6, <1>7, <1>8, <1>9, <1>10 DEF Next, Reconcile

\* Reconcile works out the right status (CheckCluster and AllChecked together
\* are the loop over the targets).
LEMMA FoundOutWalk ==
    ASSUME RecOK, RestOK, CopyCurrent, FoundOut, CheckCluster \/ AllChecked
    PROVE  FoundOut'
<1> SUFFICES ASSUME Unsuspecting'
             PROVE  /\ rec'.pc = "walk" =>
                          \A j \in 1..(rec'.i - 1) : clview[plview.refs[j]] = "ready"
                    /\ rec'.pc \in {"get", "patch"} => rec'.status = RightStatus(plview, clview)
                    /\ rec'.pc # "idle"
  BY DEF FoundOut, CheckCluster, AllChecked, plvars, clvars, RightStatus
<1>1. Unsuspecting
  BY DEF Unsuspecting, CheckCluster, AllChecked, plvars, clvars
<1>2. rec.pc = "walk" /\ rec.copy = plview
  BY <1>1 DEF CopyCurrent, Unsuspecting, CheckCluster, AllChecked
<1>3. \A j \in 1..(rec.i - 1) : clview[plview.refs[j]] = "ready"
  BY <1>1, <1>2 DEF FoundOut
<1>4. /\ rec \in Reconciliation /\ rec.i \in Nat \ {0}
      /\ plview.refs \in Seq(Cluster) /\ Len(plview.refs) \in Nat
      /\ DOMAIN plview.refs = 1..Len(plview.refs)
      /\ rec.i <= Len(plview.refs) + 1
  BY <1>2 DEF RecOK, RestOK, Reconciliation, Pipeline
<1> DEFINE c == plview.refs[rec.i]
<1>5. CASE AllChecked
  <2>1. rec.i > Len(plview.refs) /\ SetStatus(Succeeded)
    BY <1>2, <1>5 DEF AllChecked
  <2>2. \A j \in DOMAIN plview.refs : clview[plview.refs[j]] = "ready"
    BY <1>3, <1>4, <2>1
  <2>3. Verdict(plview.refs, clview) = Succeeded
    BY <2>2, VerdictAllReady
  <2>4. rec'.pc = "get" /\ rec'.status = [observed |-> rec.copy.gen, ready |-> Succeeded]
    BY <1>4, <2>1, ConditionType, SetStatusFacts
  <2> QED BY <1>2, <2>3, <2>4 DEF RightStatus
<1>6. CASE CheckCluster /\ clview[c] = "ready"
  <2>1. rec' = [rec EXCEPT !.i = @ + 1]
    BY <1>2, <1>6 DEF CheckCluster
  <2>2. rec'.pc = rec.pc /\ rec'.i = rec.i + 1
    BY <1>4, <2>1 DEF Reconciliation
  <2>3. \A j \in 1..(rec'.i - 1) : clview[plview.refs[j]] = "ready"
    BY <1>3, <1>4, <1>6, <2>2
  <2> QED BY <1>2, <2>2, <2>3
<1>7. CASE CheckCluster /\ clview[c] # "ready"
  <2>1. rec.i \in DOMAIN plview.refs /\ SetStatus(Unready(c, clview[c]))
    BY <1>2, <1>4, <1>7 DEF CheckCluster
  <2>2. Verdict(plview.refs, clview) = Unready(c, clview[c])
    BY <1>3, <1>4, <1>7, <2>1, VerdictFirst
  <2>3. c \in Cluster /\ clview[c] \in ClusterState
    BY <1>4, <2>1 DEF RestOK
  <2>4. Unready(c, clview[c]) \in Condition
    BY <2>3, ConditionType
  <2>5. /\ rec'.pc = "get"
        /\ rec'.status = [observed |-> rec.copy.gen, ready |-> Unready(c, clview[c])]
    BY <1>4, <2>1, <2>4, SetStatusFacts
  <2> QED BY <1>2, <2>2, <2>5 DEF RightStatus
<1> QED BY <1>5, <1>6, <1>7

\* A patch that leaves nothing to be seen has left the status it was to leave:
\* against a current base, the fields it leaves alone are right (patchStatus).
LEMMA FoundOutPatch ==
    ASSUME RecOK, RestOK, LogsLead, CopyCurrent, FoundOut, PatchStatus
    PROVE  FoundOut'
<1> SUFFICES ASSUME Unsuspecting', ~retry', plog' = <<>>, pipeline'.phase = "live"
             PROVE  pipeline'.status = RightStatus(plview, clview)
  <2>1. rec'.pc = "idle"
    BY IdleType DEF PatchStatus, Failed
  <2>2. plview' = plview /\ clview' = clview
    BY DEF PatchStatus, clvars
  <2>3. RightStatus(plview, clview)' = RightStatus(plview, clview)
    BY <2>2 DEF RightStatus
  <2> QED BY <2>1, <2>3 DEF FoundOut
<1>1. Unsuspecting /\ rec.pc = "patch"
  BY DEF Unsuspecting, PatchStatus, clvars
<1>2. rec.base = plview.status /\ rec.status = RightStatus(plview, clview)
  BY <1>1 DEF CopyCurrent, FoundOut, Unsuspecting
<1>3. PICK stamped \in Stamps : Write([pipeline EXCEPT !.status = Patched(stamped)])
  BY DEF PatchStatus, Failed
<1>4. stamped \in BOOLEAN
  BY <1>3 DEF Stamps
<1>5. [pipeline EXCEPT !.status = Patched(stamped)] \in Pipeline
  BY <1>4, PatchedType DEF RecOK, RestOK
<1>6. plview' = plview
  BY DEF PatchStatus
<1>7. plview = pipeline /\ plog = <<>>
  BY <1>3, <1>5, <1>6, WriteLeads
<1>8. pipeline'.status = Patched(stamped)
  BY <1>3 DEF Write, RestOK, Pipeline
<1>9. Patched(stamped) = rec.status
  <2>1. rec.status \in Status /\ rec.base = pipeline.status
    BY <1>2, <1>7 DEF RecOK, Reconciliation
  <2>2. Patched(stamped) = [observed |-> rec.status.observed, ready |-> rec.status.ready]
    BY <2>1 DEF Patched
  <2> QED BY <2>1, <2>2 DEF Status
<1> QED BY <1>2, <1>8, <1>9

\* A change of a cluster that the Pipeline does not refer to is nothing to it.
LEMMA FoundOutStore ==
    ASSUME RecOK, RestOK, CopyCurrent, FoundOut, NEW c \in Cluster, StoreCluster(c)
    PROVE  FoundOut'
<1> SUFFICES ASSUME Unsuspecting' PROVE FoundOut'
  BY DEF FoundOut
<1>0. /\ plview' = plview /\ rec' = rec /\ pipeline' = pipeline /\ plog' = plog
      /\ queued' = queued /\ lost' = lost /\ retry' = retry
  BY DEF StoreCluster, plvars
<1>1. /\ notices'[c] = notices[c] + 1 /\ notices[c] \in Nat
      /\ \A d \in Cluster : d # c => notices'[d] = notices[d] /\ clview'[d] = clview[d]
  BY DEF StoreCluster, RestOK
<1>2. /\ plview.refs \in Seq(Cluster) /\ Len(plview.refs) \in Nat
      /\ DOMAIN plview.refs = 1..Len(plview.refs)
      /\ \A i \in DOMAIN plview.refs : plview.refs[i] \in Cluster
  BY DEF RestOK, Pipeline
<1>3. \A i \in DOMAIN plview.refs : plview.refs[i] # c
  BY <1>0, <1>1 DEF Unsuspecting
<1>4. Unsuspecting
  BY <1>0, <1>1, <1>2, <1>3 DEF Unsuspecting
<1>5. \A i \in DOMAIN plview.refs : clview'[plview.refs[i]] = clview[plview.refs[i]]
  BY <1>1, <1>2, <1>3
<1>6. Verdict(plview.refs, clview') = Verdict(plview.refs, clview)
  BY <1>2, <1>5, VerdictLocal
<1>7. RightStatus(plview, clview)' = RightStatus(plview, clview)
  BY <1>0, <1>6 DEF RightStatus
<1>8. rec.pc = "walk" => \A j \in 1..(rec.i - 1) : clview'[plview.refs[j]] = "ready"
  <2> SUFFICES ASSUME rec.pc = "walk", NEW j \in 1..(rec.i - 1)
               PROVE  clview'[plview.refs[j]] = "ready"
    OBVIOUS
  <2>1. rec.copy = plview
    BY <1>4 DEF CopyCurrent, Unsuspecting
  <2>2. rec.i \in Nat /\ rec.i <= Len(plview.refs) + 1
    BY <2>1 DEF RecOK, Reconciliation
  <2>3. j \in DOMAIN plview.refs
    BY <1>2, <2>2
  <2> QED BY <1>4, <1>5, <2>3 DEF FoundOut
<1> QED BY <1>0, <1>4, <1>7, <1>8 DEF FoundOut

\* The event of a cluster that the Pipeline is not indexed by is nothing to it
\* (requestsForCluster).
LEMMA FoundOutEvent ==
    ASSUME RecOK, RestOK, LogsLead, CopyCurrent, FoundOut, NEW c \in Cluster, ClusterEvent(c)
    PROVE  FoundOut'
<1> SUFFICES ASSUME Unsuspecting' PROVE FoundOut'
  BY DEF FoundOut
<1>0. /\ plview' = plview /\ rec' = rec /\ pipeline' = pipeline /\ plog' = plog
      /\ lost' = lost /\ retry' = retry /\ clview' = clview
  BY DEF ClusterEvent, plvars
<1>1. ~queued /\ ~Indexed(c) /\ ~lost
  <2>1. Indexed(c) \in BOOLEAN /\ queued \in BOOLEAN
    BY DEF Indexed, RestOK
  <2>2. queued' = (queued \/ Indexed(c)) /\ ~queued' /\ ~lost'
    BY DEF ClusterEvent, Unsuspecting
  <2> QED BY <1>0, <2>1, <2>2
<1>2. RightStatus(plview, clview)' = RightStatus(plview, clview)
  BY <1>0 DEF RightStatus
<1>3. CASE plview.phase = "gone"
  <2>1. rec.pc = "idle"
    BY <1>1, <1>3 DEF CopyCurrent
  <2>2. plog = <<>> => pipeline.phase # "live"
    BY <1>3 DEF LogsLead
  <2> QED BY <1>0, <2>1, <2>2 DEF FoundOut
<1>4. CASE plview.phase # "gone"
  <2>1. \A i \in DOMAIN plview.refs : plview.refs[i] # c /\ plview.refs[i] \in Cluster
    BY <1>1, <1>4 DEF Indexed, RestOK, Pipeline
  <2>2. \A d \in Cluster : d # c => notices'[d] = notices[d]
    BY DEF ClusterEvent, RestOK
  <2>3. \A i \in DOMAIN plview.refs : notices[plview.refs[i]] = 0
    BY <1>0, <2>1, <2>2 DEF Unsuspecting
  <2>4. Unsuspecting
    BY <1>1, <2>3 DEF Unsuspecting
  <2> QED BY <1>0, <1>2, <2>4 DEF FoundOut
<1> QED BY <1>3, <1>4

\* Whatever happens, Reconcile has found out what there is to know, or will be
\* called again.
LEMMA FoundOutStep ==
    ASSUME RecOK, RestOK, LogsLead, CopyCurrent, FoundOut, [Next]_vars
    PROVE  FoundOut'
<1>1. CASE Take
  <2>0. plview' = plview /\ pipeline' = pipeline /\ plog' = plog
    BY <1>1 DEF Take, plvars
  <2>1. CASE plview.phase = "live"
    <3>1. rec'.pc = "walk" /\ rec'.i = 1
      BY <1>1, <2>1 DEF Take, Idle
    <3>2. 1..(rec'.i - 1) = {}
      BY <3>1
    <3> QED BY <3>1, <3>2 DEF FoundOut
  <2>2. CASE plview.phase # "live"
    <3>1. rec'.pc = "idle"
      BY <1>1, <2>2 DEF Take
    <3>2. plog' = <<>> => pipeline'.phase # "live"
      BY <2>0, <2>2 DEF LogsLead
    <3> QED BY <3>1, <3>2 DEF FoundOut
  <2> QED BY <2>1, <2>2
<1>2. CASE CheckCluster \/ AllChecked
  BY <1>2, FoundOutWalk
<1>3. CASE GetAgain /\ ~Failed
  <2>1. rec' = [rec EXCEPT !.pc = "patch", !.base = plview.status] /\ rec.pc = "get"
    BY <1>3 DEF GetAgain
  <2>2. rec'.pc = "patch" /\ rec'.status = rec.status
    BY <2>1 DEF RecOK, Reconciliation
  <2>3. Unsuspecting' => Unsuspecting
    BY <1>3 DEF GetAgain, Unsuspecting, plvars, clvars
  <2>4. RightStatus(plview, clview)' = RightStatus(plview, clview)
    BY <1>3 DEF GetAgain, RightStatus, plvars, clvars
  <2> QED BY <2>1, <2>2, <2>3, <2>4 DEF FoundOut
<1>4. CASE Failed
  BY <1>4, IdleType DEF Failed, FoundOut
<1>5. CASE PatchStatus
  BY <1>5, FoundOutPatch
<1>6. CASE queued' = TRUE \/ lost' = TRUE
  BY <1>6 DEF FoundOut, Unsuspecting
<1>7. CASE Restart
  <2>1. rec'.pc = "idle" /\ pipeline' = pipeline /\ queued' = (pipeline.phase # "gone")
    BY <1>7, IdleType DEF Restart
  <2> QED BY <2>1 DEF FoundOut, Unsuspecting
<1>8. CASE \/ \E refs \in Specs : ChangeSpec(refs) \/ Create(refs)
           \/ \E phase \in {"deleting", "gone"} : Delete(phase)
           \/ \E c \in Cluster, state \in ClusterState : ClusterMoves(c, state)
           \/ UNCHANGED vars
  <2>1. /\ plview' = plview /\ rec' = rec /\ retry' = retry /\ queued' = queued
        /\ lost' = lost /\ clview' = clview /\ notices' = notices
    BY <1>8 DEF ChangeSpec, Create, Delete, Edit, ClusterMoves, plvars, clvars, vars
  <2>2. plog' = <<>> => pipeline' = pipeline /\ plog = <<>>
    <3>1. CASE pipeline' = pipeline /\ plog' = plog
      BY <3>1
    <3>2. ASSUME NEW p, Edit(p), RestOK' PROVE plog' = <<>> => pipeline' = pipeline /\ plog = <<>>
      <4>1. Write(p) /\ p \in Pipeline
        BY <3>2 DEF Edit, Write, RestOK
      <4> QED BY <2>1, <4>1, WriteLeads
    <3>3. CASE \/ \E refs \in Specs : ChangeSpec(refs) \/ Create(refs)
               \/ \E phase \in {"deleting", "gone"} : Delete(phase)
      <4>1. RestOK'
        BY <3>3, TypeWorld
      <4> QED BY <3>2, <3>3, <4>1 DEF ChangeSpec, Create, Delete
    <3> QED BY <1>8, <3>1, <3>3 DEF ClusterMoves, plvars, vars
  <2>3. RightStatus(plview, clview)' = RightStatus(plview, clview)
    BY <2>1 DEF RightStatus
  <2>4. Unsuspecting' => Unsuspecting
    BY <2>1 DEF Unsuspecting
  <2> QED BY <2>1, <2>2, <2>3, <2>4 DEF FoundOut
<1>9. CASE \E c \in Cluster : StoreCluster(c) \/ ClusterEvent(c)
  BY <1>9, FoundOutStore, FoundOutEvent
<1> QED BY <1>1, <1>2, <1>3, <1>4, <1>5, <1>6, <1>7, <1>8, <1>9
        DEF Next, Reconcile, PipelineEvent, RetryDue, RequeueDue, ReconcileFails,
            PatchAnswerLost, ListFails

\* The invariant holds at the start.
LEMMA EdgeInit == Init => EdgeInv
BY IdleType DEF Init, EdgeInv, LogsLead, CopyCurrent, FoundOut, Unsuspecting

\* With nothing on its way the stores have what the API server has, and what
\* Reconcile has left there is right.
LEMMA RestIsRight == TypeOK /\ EdgeInv => QuietIsRight
<1> SUFFICES ASSUME TypeOK, EdgeInv, Quiet, pipeline.phase = "live", ~lost
             PROVE  StatusIsRight
  BY DEF QuietIsRight
<1>1. RecOK /\ RestOK
  BY TypeParts
<1>2. plview = pipeline
  BY DEF EdgeInv, LogsLead, Quiet
<1>3. clview = cluster
  BY <1>1 DEF EdgeInv, LogsLead, Quiet, RestOK
<1>4. \A i \in DOMAIN plview.refs : plview.refs[i] \in Cluster
  BY <1>1 DEF RestOK, Pipeline
<1>5. Unsuspecting
  BY <1>4 DEF Unsuspecting, Quiet
<1> QED BY <1>2, <1>3, <1>5 DEF EdgeInv, FoundOut, Quiet, StatusIsRight

\* Whenever the controller has come to rest, the status of a live Pipeline is
\* right, for any order of events, stale reads, lost answers, restarts and
\* edits (Reconcile, patchStatus, SetupWithManager).
THEOREM RestingStatusIsRight == Spec => []QuietIsRight
<1>1. TypeOK /\ EdgeInv /\ [Next]_vars => EdgeInv'
  <2> SUFFICES ASSUME TypeOK, EdgeInv, [Next]_vars PROVE EdgeInv'
    OBVIOUS
  <2>1. RecOK /\ RestOK
    BY TypeParts
  <2> QED BY <2>1, LogsStep, CopyStep, FoundOutStep DEF EdgeInv
<1> QED BY <1>1, EdgeInit, RestIsRight, TypeCorrect, PTL DEF Spec

=============================================================================
