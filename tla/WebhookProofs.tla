---------------------------- MODULE WebhookProofs ----------------------------
(***************************************************************************)
(* Proofs about the webhook handlers, for any number of requests,          *)
(* environments and revisions, and for either reconciler.                  *)
(***************************************************************************)
EXTENDS Webhook, TLAPS

-----------------------------------------------------------------------------
(***************************************************************************)
(* The operators.                                                          *)
(***************************************************************************)

\* What a request asks for.
LEMMA InputType ==
    ASSUME input \in Traffic, NEW q \in Req
    PROVE  /\ input[q] \in Input
           /\ input[q].kind = "approval" => input[q].rev # NoRevision
BY WebhookAssumption

\* The environment a request is about is one of the Pipeline's, or none.
LEMMA TargetEnvType ==
    ASSUME NEW q \in Req, TargetEnv(q) # 0
    PROVE  TargetEnv(q) \in Env
BY PipelineSpecAssumption
   DEF TargetEnv, lookupNextEnvironment, lookupEnvironment, Env

\* A handler goes on only with an environment and a revision, and an approval
\* only with the revision that waits in the copy it was checked against; it
\* never refuses with success (ServeHTTP of both handlers).
LEMMA RefusalFacts ==
    ASSUME input \in Traffic, NEW q \in Req, NEW p \in Pipeline
    PROVE  /\ Refusal(q, p) \in {0, 400, 401, 404, 405, 422, 500}
           /\ Refusal(q, p) = 0 =>
                 /\ TargetEnv(q) \in Env
                 /\ input[q].rev \in Revision
                 /\ input[q].kind = "approval" =>
                       /\ input[q].env = TargetEnv(q)
                       /\ p.status.waiting[TargetEnv(q)] = input[q].rev
<1>1. input[q] \in Input /\ (input[q].kind = "approval" => input[q].rev # NoRevision)
  BY InputType
<1>2. Refusal(q, p) \in {0, 400, 401, 404, 405, 422, 500}
  BY DEF Refusal
<1>3. ASSUME Refusal(q, p) = 0
      PROVE  /\ TargetEnv(q) # 0
             /\ input[q].kind = "promotion" => input[q].rev # NoRevision
             /\ input[q].kind = "approval" =>
                   GetWaitingApproval(p.status, input[q].env) = input[q].rev
  BY <1>3 DEF Refusal
<1>4. ASSUME Refusal(q, p) = 0
      PROVE  /\ TargetEnv(q) \in Env
             /\ input[q].rev \in Revision
  BY <1>1, <1>3, <1>4, TargetEnvType DEF Input
<1>5. ASSUME Refusal(q, p) = 0, input[q].kind = "approval"
      PROVE  /\ input[q].env = TargetEnv(q)
             /\ p.status.waiting[TargetEnv(q)] = input[q].rev
  <2>1. input[q].env = TargetEnv(q) /\ input[q].env \in Env
    BY <1>3, <1>5 DEF TargetEnv, lookupEnvironment
  <2> QED BY <1>1, <1>3, <1>5, <2>1 DEF GetWaitingApproval
<1> QED BY <1>2, <1>4, <1>5

\* Pipelines and statuses that hold nothing.
LEMMA NothingType ==
    /\ Nothing \in Pipeline
    /\ Resting \in [pc : {"idle", "get", "patch"}, new : Status, base : Status]
BY DEF Nothing, Resting, Pipeline, Status, NoEnvironments

\* The API server stores a Pipeline, whatever its version.
LEMMA StoredType ==
    ASSUME NEW p \in Pipeline, pl \in Pipeline
    PROVE  Stored(p) \in Pipeline /\ Stored(p).status = p.status
BY DEF Stored, Pipeline

\* A handler's update is that of its copy, with one environment's waiting
\* revision replaced.
LEMMA WrittenFacts ==
    ASSUME NEW q \in Req, pl \in Pipeline, req \in [Req -> Handler],
           TargetEnv(q) \in Env, NEW r \in Revision \cup {NoRevision}
    PROVE  /\ Written(q, r) \in Pipeline
           /\ Written(q, r).status.ready = req[q].copy.status.ready
           /\ Written(q, r).status.waiting =
                 [req[q].copy.status.waiting EXCEPT ![TargetEnv(q)] = r]
<1> DEFINE old == req[q].copy.status
           waiting == [old.waiting EXCEPT ![TargetEnv(q)] = r]
           new == [old EXCEPT !.waiting[TargetEnv(q)] = r]
<1>1. old \in Status
  BY DEF Handler, Pipeline
<1> HIDE DEF old
<1>2. waiting \in [Env -> Revision \cup {NoRevision, NoEntry}]
  BY <1>1 DEF Status
<1>3. new = [ready |-> old.ready, waiting |-> waiting]
  BY <1>1 DEF Status
<1>4. new \in Status /\ new.waiting = waiting /\ new.ready = old.ready
  BY <1>1, <1>2, <1>3 DEF Status
<1>5. Written(q, r) = [pl EXCEPT !.status = new]
  BY DEF Written, old
<1> QED BY <1>4, <1>5 DEF Pipeline, old

\* Two fields of one record are replaced.
LEMMA TwoUpdates ==
    ASSUME NEW R, NEW H, NEW f \in [R -> H], NEW q \in R, NEW x, NEW y
    PROVE  /\ [f EXCEPT ![q].pc = x, ![q].code = y]
                 = [f EXCEPT ![q] = [f[q] EXCEPT !.pc = x, !.code = y]]
           /\ [f EXCEPT ![q].pc = x, ![q].copy = y]
                 = [f EXCEPT ![q] = [f[q] EXCEPT !.pc = x, !.copy = y]]
OBVIOUS

\* A handler that has moved on, with a response or with a copy of the Pipeline.
Moved(q, pc, code) == [req EXCEPT ![q].pc = pc, ![q].code = code]
MovedWith(q, pc, copy) == [req EXCEPT ![q].pc = pc, ![q].copy = copy]

\* A handler moves on, with a response.
LEMMA HandlerMoves ==
    ASSUME NEW q \in Req, req \in [Req -> Handler],
           NEW pc \in Place,
           NEW code \in StatusCode,
           req' = Moved(q, pc, code)
    PROVE  /\ req' \in [Req -> Handler]
           /\ \A p \in Req : req'[p].try = req[p].try
           /\ \A p \in Req : p # q => req'[p] = req[p]
           /\ req'[q].pc = pc /\ req'[q].copy = req[q].copy /\ req'[q].code = code
<1> DEFINE h == req[q]
           m == [h EXCEPT !.pc = pc]
           new == [h EXCEPT !.pc = pc, !.code = code]
<1>1. h \in Handler
  OBVIOUS
<1>2. req' = [req EXCEPT ![q] = new]
  BY TwoUpdates, Zenon DEF Moved
<1> HIDE DEF h
<1>3. m = [pc |-> pc, copy |-> h.copy, try |-> h.try, code |-> h.code]
  BY <1>1 DEF Handler
<1> HIDE DEF m
<1>4. [m EXCEPT !.code = code]
         = [pc |-> pc, copy |-> h.copy, try |-> h.try, code |-> code]
  BY <1>3
<1>5. new = [pc |-> pc, copy |-> h.copy, try |-> h.try, code |-> code]
  BY <1>4 DEF m
<1>6. /\ new \in Handler /\ new.pc = pc /\ new.try = h.try
      /\ new.copy = h.copy /\ new.code = code
  BY <1>1, <1>5 DEF Handler
<1> HIDE DEF new
<1>7. req' \in [Req -> Handler]
  BY <1>2, <1>6
<1>8. req'[q] = new /\ (\A p \in Req : p # q => req'[p] = req[p])
  BY <1>2
<1> QED BY <1>6, <1>7, <1>8 DEF h

\* A handler answers.
LEMMA HandlerAnswers ==
    ASSUME NEW q \in Req, req \in [Req -> Handler], NEW code \in StatusCode,
           Answer(q, code)
    PROVE  /\ req' \in [Req -> Handler]
           /\ \A p \in Req : req'[p].try = req[p].try
           /\ \A p \in Req : p # q => req'[p] = req[p]
           /\ req'[q].pc = "answered"
           /\ req'[q].copy = req[q].copy
           /\ req'[q].code = code
<1>1. "answered" \in Place
  BY DEF Place
<1>2. req' = Moved(q, "answered", code)
  BY DEF Answer, Moved
<1> QED BY <1>1, <1>2, HandlerMoves

\* A handler moves on, with a copy of the Pipeline.
LEMMA HandlerReads ==
    ASSUME NEW q \in Req, req \in [Req -> Handler],
           NEW pc \in Place,
           NEW copy \in Pipeline,
           req' = MovedWith(q, pc, copy)
    PROVE  /\ req' \in [Req -> Handler]
           /\ \A p \in Req : req'[p].try = req[p].try
           /\ \A p \in Req : p # q => req'[p] = req[p]
           /\ req'[q].pc = pc /\ req'[q].copy = copy /\ req'[q].code = req[q].code
<1> DEFINE h == req[q]
           m == [h EXCEPT !.pc = pc]
           new == [h EXCEPT !.pc = pc, !.copy = copy]
<1>1. h \in Handler
  OBVIOUS
<1>2. req' = [req EXCEPT ![q] = new]
  BY TwoUpdates, Zenon DEF MovedWith
<1> HIDE DEF h
<1>3. m = [pc |-> pc, copy |-> h.copy, try |-> h.try, code |-> h.code]
  BY <1>1 DEF Handler
<1> HIDE DEF m
<1>4. [m EXCEPT !.copy = copy]
         = [pc |-> pc, copy |-> copy, try |-> h.try, code |-> h.code]
  BY <1>3
<1>5. new = [pc |-> pc, copy |-> copy, try |-> h.try, code |-> h.code]
  BY <1>4 DEF m
<1>6. /\ new \in Handler /\ new.pc = pc /\ new.try = h.try
      /\ new.copy = copy /\ new.code = h.code
  BY <1>1, <1>5 DEF Handler
<1> HIDE DEF new
<1>7. req' \in [Req -> Handler]
  BY <1>2, <1>6
<1>8. req'[q] = new /\ (\A p \in Req : p # q => req'[p] = req[p])
  BY <1>2
<1> QED BY <1>6, <1>7, <1>8 DEF h

\* A merge patch makes a status of statuses.
LEMMA MergePatchType ==
    ASSUME NEW base \in Status, NEW new \in Status, NEW cur \in Status
    PROVE  MergePatch(base, new, cur) \in Status
BY DEF MergePatch, Status

-----------------------------------------------------------------------------
(***************************************************************************)
(* Types.                                                                  *)
(***************************************************************************)

\* Receive answers or goes on with what it has checked.
LEMMA ReceiveMoves ==
    ASSUME TypeOK, NEW q \in Req, Receive(q)
    PROVE  /\ req' \in [Req -> Handler]
           /\ \A p \in Req : req'[p].try = req[p].try
           /\ \A p \in Req : p # q => req'[p] = req[p]
           /\ req'[q].copy = req[q].copy
           /\ req'[q].code = Refusal(q, plview)
           /\ req'[q].pc = IF Refusal(q, plview) # 0 THEN "answered"
                           ELSE IF /\ input[q].kind = "promotion"
                                   /\ GetPromotion(TargetEnv(q)) \in Manual
                           THEN "getset" ELSE "promote"
<1> DEFINE code == Refusal(q, plview)
           pc == IF code # 0 THEN "answered"
                 ELSE IF code = 0 /\ input[q].kind = "promotion"
                         /\ GetPromotion(TargetEnv(q)) \in Manual
                 THEN "getset" ELSE "promote"
<1>1. code \in StatusCode
  BY RefusalFacts DEF TypeOK, StatusCode
<1>2. req' = Moved(q, pc, code)
  BY DEF Receive, Moved
<1>3. pc \in Place
  BY DEF Place
<1>4. pc = IF code # 0 THEN "answered"
           ELSE IF input[q].kind = "promotion" /\ GetPromotion(TargetEnv(q)) \in Manual
           THEN "getset" ELSE "promote"
  OBVIOUS
<1> HIDE DEF code, pc
<1>5. /\ req' \in [Req -> Handler]
      /\ \A p \in Req : req'[p].try = req[p].try
      /\ \A p \in Req : p # q => req'[p] = req[p]
      /\ req'[q].pc = pc /\ req'[q].copy = req[q].copy /\ req'[q].code = code
  BY <1>1, <1>2, <1>3, HandlerMoves DEF TypeOK
<1> QED BY <1>4, <1>5 DEF code

\* GetAgain goes on with what the cache has.
LEMMA GetAgainMoves ==
    ASSUME TypeOK, NEW q \in Req, GetAgain(q)
    PROVE  /\ req' \in [Req -> Handler]
           /\ \A p \in Req : req'[p].try = req[p].try
           /\ \A p \in Req : p # q => req'[p] = req[p]
           /\ req'[q].copy = plview
           /\ req'[q].code = req[q].code
           /\ req'[q].pc = IF req[q].pc = "getset" THEN "set" ELSE "reset"
<1> DEFINE pc == IF req[q].pc = "getset" THEN "set" ELSE "reset"
<1>1. req' = MovedWith(q, pc, plview)
  BY DEF GetAgain, MovedWith
<1>2. pc \in Place
  BY DEF Place
<1> HIDE DEF pc
<1>3. /\ req' \in [Req -> Handler]
      /\ \A p \in Req : req'[p].try = req[p].try
      /\ \A p \in Req : p # q => req'[p] = req[p]
      /\ req'[q].pc = pc /\ req'[q].copy = plview /\ req'[q].code = req[q].code
  BY <1>1, <1>2, HandlerReads DEF TypeOK
<1> QED BY <1>3 DEF pc

\* A request past its checks.
Busy(q) == req[q].pc \notin {"new", "answered", "killed"}

\* The types hold at the start.
LEMMA TypeInit == Init => TypeOK
<1> SUFFICES ASSUME Init PROVE TypeOK
  OBVIOUS
<1>1. req \in [Req -> Handler]
  BY NothingType DEF Init, Handler, Place, StatusCode
<1>2. \A q \in Req : req[q].pc = "new" /\ req[q].try < Max1(Retries)
  BY WebhookAssumption DEF Init, Max1
<1> QED BY <1>1, <1>2, NothingType, WebhookAssumption DEF Init, TypeOK

\* The handlers keep the types.
LEMMA TypeHandlers ==
    ASSUME TypeOK, NEW q \in Req, Serve(q) \/ PromoteFails(q) \/ CallFails(q)
    PROVE  TypeOK'
<1> USE DEF TypeOK
<1>0. input' = input /\ TargetEnv(q)' = TargetEnv(q) /\ (\A p \in Req : TargetEnv(p)' = TargetEnv(p))
  BY DEF Serve, Receive, GetAgain, SetWaitingApproval, ResetWaitingApproval, Promote,
         PromoteFails, CallFails, given, TargetEnv
<1>1. CASE Receive(q)
  <2> DEFINE code == Refusal(q, plview)
  <2>1. code \in {0, 400, 401, 404, 405, 422, 500}
    BY RefusalFacts
  <2>2. code = 0 => TargetEnv(q) \in Env /\ input[q].rev \in Revision
    BY RefusalFacts
  <2> HIDE DEF code
  <2>3. /\ req' \in [Req -> Handler]
        /\ \A p \in Req : req'[p].try = req[p].try
        /\ \A p \in Req : p # q => req'[p] = req[p]
        /\ req'[q].pc # "answered" => code = 0
    BY <1>1, ReceiveMoves DEF code
  <2>4. \A p \in Req : Busy(p)' => TargetEnv(p) \in Env /\ input[p].rev \in Revision
    BY <2>2, <2>3 DEF Busy
  <2>5. notified' \subseteq Env \X Revision
    BY <1>1, <2>2 DEF Receive, code
  <2> QED BY <1>0, <1>1, <2>3, <2>4, <2>5 DEF Receive, given, bounds, Busy
<1>2. CASE GetAgain(q)
  <2>1. /\ req' \in [Req -> Handler]
        /\ \A p \in Req : req'[p].try = req[p].try
        /\ \A p \in Req : p # q => req'[p] = req[p]
    BY <1>2, GetAgainMoves
  <2>2. \A p \in Req : Busy(p)' => Busy(p)
    BY <1>2, <2>1 DEF Busy, GetAgain
  <2> QED BY <1>0, <1>2, <2>1, <2>2 DEF GetAgain, given, history, bounds, Busy
<1>3. ASSUME NEW code \in {204, 401, 500}, Answer(q, code)
      PROVE  /\ req' \in [Req -> Handler]
             /\ \A p \in Req : Busy(p)' => Busy(p)
             /\ \A p \in Req : req'[p].try = req[p].try
  BY <1>3, HandlerAnswers DEF StatusCode, Busy
<1>4. CASE SetWaitingApproval(q)
  <2>1. TargetEnv(q) \in Env /\ input[q].rev \in Revision
    BY <1>4 DEF SetWaitingApproval
  <2>2. pl' \in Pipeline
    <3>1. Written(q, input[q].rev) \in Pipeline
      BY <2>1, WrittenFacts
    <3>2. Stored(Written(q, input[q].rev)) \in Pipeline
      BY <3>1, StoredType
    <3> QED BY <1>4, <3>2 DEF SetWaitingApproval
  <2>3. recorded' \subseteq Env \X Revision
    BY <1>4, <2>1 DEF SetWaitingApproval
  <2>4. Answer(q, 204) \/ Answer(q, 500)
    BY <1>4 DEF SetWaitingApproval
  <2> QED BY <1>0, <1>3, <1>4, <2>2, <2>3, <2>4 DEF SetWaitingApproval, given, bounds, Busy
<1>5. CASE ResetWaitingApproval(q)
  <2>1. TargetEnv(q) \in Env
    BY <1>5 DEF ResetWaitingApproval
  <2>2. pl' \in Pipeline
    <3>1. Written(q, NoRevision) \in Pipeline
      BY <2>1, WrittenFacts
    <3>2. Stored(Written(q, NoRevision)) \in Pipeline
      BY <3>1, StoredType
    <3> QED BY <1>5, <3>2 DEF ResetWaitingApproval
  <2>3. Answer(q, 204) \/ Answer(q, 500)
    BY <1>5 DEF ResetWaitingApproval
  <2> QED BY <1>0, <1>3, <1>5, <2>2, <2>3
          DEF ResetWaitingApproval, given, history, bounds, Busy
<1>6. CASE Promote(q)
  <2>1. TargetEnv(q) \in Env /\ input[q].rev \in Revision
    BY <1>6 DEF Promote
  <2>2. promoted' \subseteq Req \X Env \X Revision
    BY <1>6, <2>1 DEF Promote
  <2>3. CASE Answer(q, 204)
    BY <1>0, <1>3, <1>6, <2>2, <2>3 DEF Promote, given, bounds, Busy
  <2>4. CASE req' = [req EXCEPT ![q].pc = "getreset"]
    <3>1. req' \in [Req -> Handler]
      BY <2>4 DEF Handler, Place
    <3>2. \A p \in Req : Busy(p)' => Busy(p)
      BY <1>6, <2>4 DEF Busy, Promote, Handler
    <3>3. \A p \in Req : req'[p].try = req[p].try
      BY <2>4 DEF Handler
    <3> QED BY <1>0, <1>6, <2>2, <3>1, <3>2, <3>3 DEF Promote, given, bounds, Busy
  <2> QED BY <1>6, <2>3, <2>4 DEF Promote
<1>7. CASE PromoteFails(q)
  <2>1. failures' \in 0..MaxFailures
    BY <1>7, WebhookAssumption DEF PromoteFails
  <2>2. CASE Answer(q, 500)
    BY <1>0, <1>3, <1>7, <2>1, <2>2 DEF PromoteFails, given, history, Busy
  <2>3. CASE Exponential(q) /\ req' = [req EXCEPT ![q].try = req[q].try + 1]
    <3>1. req' \in [Req -> Handler]
      BY <2>3 DEF Handler
    <3>2. \A p \in Req : Busy(p)' => Busy(p)
      BY <2>3 DEF Busy, Handler
    <3>3. \A p \in Req : req'[p].try < Max1(Retries)
      BY <2>3, WebhookAssumption DEF Handler, Exponential, Max1
    <3> QED BY <1>0, <1>7, <2>1, <3>1, <3>2, <3>3 DEF PromoteFails, given, history, Busy
  <2> QED BY <1>7, <2>2, <2>3 DEF PromoteFails
<1>8. CASE CallFails(q)
  <2>1. failures' \in 0..MaxFailures
    BY <1>8, WebhookAssumption DEF CallFails
  <2> QED BY <1>0, <1>3, <1>8, <2>1 DEF CallFails, given, history, Busy
<1> QED BY <1>1, <1>2, <1>4, <1>5, <1>6, <1>7, <1>8 DEF Serve

\* The reconciler, the cache and restarts keep the types.
LEMMA TypeOthers ==
    ASSUME TypeOK,
           \/ \E ready \in {"True", "False"} : StartReconcile(ready)
           \/ GetForPatch \/ PatchStatus \/ CacheUpdate \/ Crash \/ UNCHANGED vars
    PROVE  TypeOK'
<1> USE DEF TypeOK
<1>1. ASSUME NEW ready \in {"True", "False"}, StartReconcile(ready) PROVE TypeOK'
  <2>1. rec'.pc \in {"idle", "get", "patch"} /\ rec'.new \in Status /\ rec'.base \in Status
    BY <1>1 DEF StartReconcile, Status, Pipeline, NoRevision
  <2>2. rec' \in [pc : {"idle", "get", "patch"}, new : Status, base : Status]
    BY <1>1, <2>1 DEF StartReconcile
  <2>3. reconciles' \in 0..MaxReconciles
    BY <1>1, WebhookAssumption DEF StartReconcile
  <2> QED BY <1>1, <2>2, <2>3 DEF StartReconcile, given, history, TargetEnv
<1>2. CASE GetForPatch
  <2>1. rec' \in [pc : {"idle", "get", "patch"}, new : Status, base : Status]
    BY <1>2 DEF GetForPatch, Pipeline
  <2> QED BY <1>2, <2>1 DEF GetForPatch, given, history, bounds, TargetEnv
<1>3. CASE PatchStatus
  <2>1. MergePatch(rec.base, rec.new, pl.status) \in Status
    BY MergePatchType DEF Pipeline
  <2>2. pl' \in Pipeline
    BY <1>3, <2>1, StoredType DEF PatchStatus, Pipeline
  <2> QED BY <1>3, <2>2, NothingType DEF PatchStatus, given, history, bounds, TargetEnv
<1>4. CASE CacheUpdate
  BY <1>4 DEF CacheUpdate, given, history, bounds, TargetEnv
<1>5. CASE Crash
  <2>1. \A q \in Req : /\ req'[q] \in Handler
                       /\ req'[q].try = req[q].try
                       /\ req'[q].pc \in {"new", "answered", "killed"}
    BY <1>5 DEF Crash, Handler, Place
  <2>2. req' \in [Req -> Handler]
    BY <1>5, <2>1 DEF Crash
  <2>3. crashes' \in 0..MaxCrashes
    BY <1>5, WebhookAssumption DEF Crash
  <2> QED BY <1>5, <2>1, <2>2, <2>3, NothingType DEF Crash, given, history
<1>6. CASE UNCHANGED vars
  BY <1>6 DEF vars, given, TargetEnv
<1> QED BY <1>1, <1>2, <1>3, <1>4, <1>5, <1>6

\* Every variable keeps the shape the code gives it; a request past its checks
\* is about an environment and a revision, and tries the strategy no more often
\* than retry.Exponential allows, whatever the requests.
THEOREM TypeCorrect == Spec => []TypeOK
<1>1. TypeOK /\ [Next]_vars => TypeOK'
  BY TypeHandlers, TypeOthers DEF Next
<1> QED BY <1>1, TypeInit, PTL DEF Spec

-----------------------------------------------------------------------------
(***************************************************************************)
(* Promotion and approval.  What a handler finds waiting comes from some   *)
(* copy of the status; the invariant follows the copies.                   *)
(***************************************************************************)

\* Every revision that a status holds as waiting is in evidence.
Waiting(status, evidence) ==
    \A k \in Env : status.waiting[k] \in Revision => <<k, status.waiting[k]>> \in evidence

\* Whatever copy of the status is around, the server's, the cache's, one that a
\* handler or a reconciliation holds: what waits there was recorded.
CopiesRecorded ==
    /\ Waiting(pl.status, recorded)
    /\ Waiting(plview.status, recorded)
    /\ Waiting(rec.new, recorded)
    /\ Waiting(rec.base, recorded)
    /\ \A q \in Req : Waiting(req[q].copy.status, recorded)

\* The environment and the revision a request is about.
Asked(q) == <<TargetEnv(q), input[q].rev>>

\* The promotion that a request carries out.
Carried(q) == <<q, TargetEnv(q), input[q].rev>>

\* What a handler relies on where it is: it promotes what may be promoted at
\* once or waits for approval, it sets only for a promotion it has accepted and
\* resets only for an approval it has promoted, and success is only answered at the end.
HandlerKnows(q) ==
    /\ req[q].pc \in {"getset", "set"} =>
          input[q].kind = "promotion" /\ Asked(q) \in notified
    /\ req[q].pc \in {"getreset", "reset"} =>
          input[q].kind = "approval" /\ Carried(q) \in promoted
    /\ req[q].pc = "promote" /\ input[q].kind = "promotion" =>
          Asked(q) \in notified /\ GetPromotion(TargetEnv(q)) \notin Manual
    /\ req[q].pc = "promote" /\ input[q].kind = "approval" =>
          Asked(q) \in recorded /\ input[q].env = TargetEnv(q)
    /\ req[q].pc # "answered" => req[q].code # 204

ApprovalInv ==
    /\ recorded \subseteq notified
    /\ CopiesRecorded
    /\ \A q \in Req : HandlerKnows(q)
    /\ PromotedOnlyNotified
    /\ ManualOnlyApproved
    /\ AcknowledgedNotLost

\* The requests do not change, and what has happened has happened.
LEMMA HistoryGrows ==
    ASSUME [Next]_vars
    PROVE  /\ input' = input
           /\ promoted \subseteq promoted'
           /\ notified \subseteq notified'
           /\ recorded \subseteq recorded'
           /\ \A q \in Req : /\ TargetEnv(q)' = TargetEnv(q) /\ Asked(q)' = Asked(q)
                             /\ Carried(q)' = Carried(q)
<1>1. /\ input' = input /\ promoted \subseteq promoted'
      /\ notified \subseteq notified' /\ recorded \subseteq recorded'
  BY DEF Next, Serve, Receive, GetAgain, SetWaitingApproval, ResetWaitingApproval, Promote,
         PromoteFails, CallFails, StartReconcile, GetForPatch, PatchStatus, CacheUpdate,
         Crash, given, history, vars
<1> QED BY <1>1 DEF TargetEnv, Asked, Carried

\* What waited with less evidence waits with more.
LEMMA WaitingMore ==
    ASSUME NEW status, NEW evidence, Waiting(status, evidence),
           NEW more, evidence \subseteq more
    PROVE  Waiting(status, more)
BY DEF Waiting

\* A merge patch of statuses in which only recorded revisions wait.
LEMMA MergePatchWaiting ==
    ASSUME NEW evidence, NEW base, NEW new, NEW cur,
           Waiting(new, evidence), Waiting(cur, evidence)
    PROVE  Waiting(MergePatch(base, new, cur), evidence)
<1> SUFFICES ASSUME NEW k \in Env,
                    MergePatch(base, new, cur).waiting[k] \in Revision
             PROVE  <<k, MergePatch(base, new, cur).waiting[k]>> \in evidence
  BY DEF Waiting
<1>1. NoEntry \notin Revision
  BY PipelineSpecAssumption DEF NoEntry, Revision
<1>2. MergePatch(base, new, cur).waiting[k] \in {NoEntry, new.waiting[k], cur.waiting[k]}
  BY DEF MergePatch
<1> QED BY <1>1, <1>2 DEF Waiting

\* Nothing waits in a status that holds nothing, or is made afresh.
LEMMA NoneWaiting ==
    ASSUME NEW evidence
    PROVE  /\ Waiting(Nothing.status, evidence)
           /\ \A ready : Waiting([ready   |-> ready,
                                  waiting |-> [k \in Env |-> NoRevision]], evidence)
BY PipelineSpecAssumption DEF Waiting, Nothing, NoEnvironments, NoEntry, NoRevision, Revision

\* A handler's update, based on a copy.
LEMMA WrittenWaiting ==
    ASSUME NEW q \in Req, pl \in Pipeline, req \in [Req -> Handler],
           TargetEnv(q) \in Env, NEW r \in Revision \cup {NoRevision}, NEW evidence,
           Waiting(req[q].copy.status, evidence),
           r \in Revision => <<TargetEnv(q), r>> \in evidence
    PROVE  Waiting(Stored(Written(q, r)).status, evidence)
<1>1. Written(q, r) \in Pipeline
  BY WrittenFacts
<1>2. Stored(Written(q, r)).status = Written(q, r).status
  BY <1>1, StoredType
<1>3. Written(q, r).status.waiting = [req[q].copy.status.waiting EXCEPT ![TargetEnv(q)] = r]
  BY WrittenFacts
<1>4. req[q].copy.status.waiting \in [Env -> Revision \cup {NoRevision, NoEntry}]
  BY DEF Handler, Pipeline, Status
<1>5. ASSUME NEW k \in Env, Written(q, r).status.waiting[k] \in Revision
      PROVE  <<k, Written(q, r).status.waiting[k]>> \in evidence
  <2>1. CASE k = TargetEnv(q)
    BY <1>3, <1>4, <1>5, <2>1
  <2>2. CASE k # TargetEnv(q)
    BY <1>3, <1>4, <1>5, <2>2 DEF Waiting
  <2> QED BY <2>1, <2>2
<1> QED BY <1>2, <1>5 DEF Waiting

\* The copies are as they were, but for those of one handler.
LEMMA CopiesStay ==
    ASSUME [Next]_vars, CopiesRecorded,
           Waiting(pl'.status, recorded'),
           plview' = plview, rec' = rec,
           NEW q \in Req,
           \A p \in Req : p # q => req'[p] = req[p],
           req'[q].copy = req[q].copy \/ req'[q].copy = plview
    PROVE  CopiesRecorded'
<1>1. recorded \subseteq recorded'
  BY HistoryGrows
<1>2. /\ Waiting(plview.status, recorded')
      /\ Waiting(rec.new, recorded')
      /\ Waiting(rec.base, recorded')
      /\ \A p \in Req : Waiting(req[p].copy.status, recorded')
  BY <1>1, WaitingMore DEF CopiesRecorded
<1>3. \A p \in Req : Waiting(req'[p].copy.status, recorded')
  <2> TAKE p \in Req
  <2>1. req'[p].copy = req[p].copy \/ req'[p].copy = plview
    OBVIOUS
  <2> QED BY <1>2, <2>1
<1>4. /\ Waiting(plview'.status, recorded')
      /\ Waiting(rec'.new, recorded')
      /\ Waiting(rec'.base, recorded')
  BY <1>2
<1> QED BY <1>3, <1>4 DEF CopiesRecorded, Waiting

\* What a step of a handler does to the handlers: only its own moves, and its
\* copy stays or is read from the cache.
LEMMA HandlerStep ==
    ASSUME TypeOK, NEW q \in Req, Serve(q) \/ PromoteFails(q) \/ CallFails(q)
    PROVE  /\ \A p \in Req : p # q => req'[p] = req[p]
           /\ req'[q].copy = req[q].copy \/ req'[q].copy = plview
           /\ plview' = plview
           /\ rec' = rec
<1> USE DEF TypeOK
<1>1. plview' = plview /\ rec' = rec
  BY DEF Serve, Receive, GetAgain, SetWaitingApproval, ResetWaitingApproval, Promote,
         PromoteFails, CallFails
<1>2. ASSUME NEW code \in {204, 401, 500}, Answer(q, code)
      PROVE  /\ \A p \in Req : p # q => req'[p] = req[p]
             /\ req'[q].copy = req[q].copy
  BY <1>2, HandlerAnswers DEF StatusCode
<1>3. CASE Receive(q)
  BY <1>1, <1>3, ReceiveMoves
<1>4. CASE GetAgain(q)
  BY <1>1, <1>4, GetAgainMoves
<1>5. CASE SetWaitingApproval(q) \/ ResetWaitingApproval(q) \/ CallFails(q)
  BY <1>1, <1>2, <1>5 DEF SetWaitingApproval, ResetWaitingApproval, CallFails
<1>6. CASE Promote(q) \/ PromoteFails(q)
  <2>1. CASE Answer(q, 204) \/ Answer(q, 500)
    BY <1>1, <1>2, <2>1
  <2>2. CASE req' = [req EXCEPT ![q].pc = "getreset"]
    BY <1>1, <2>2 DEF Handler
  <2>3. CASE req' = [req EXCEPT ![q].try = req[q].try + 1]
    BY <1>1, <2>3 DEF Handler
  <2> QED BY <1>6, <2>1, <2>2, <2>3 DEF Promote, PromoteFails
<1> QED BY <1>3, <1>4, <1>5, <1>6 DEF Serve

\* No step brings in a copy of the status in which a revision waits that was
\* never recorded: not an update of an old copy, and not a merge patch from one
\* old copy to another (setWaitingApproval, resetWaitingApproval, patchStatus).
LEMMA CopiesStep ==
    ASSUME TypeOK, CopiesRecorded, [Next]_vars
    PROVE  CopiesRecorded'
<1>0. recorded \subseteq recorded'
  BY HistoryGrows
<1>1. ASSUME NEW q \in Req, Serve(q) \/ PromoteFails(q) \/ CallFails(q)
      PROVE  CopiesRecorded'
  <2>1. CASE SetWaitingApproval(q) /\ pl' # pl
    <3>1. TargetEnv(q) \in Env /\ input[q].rev \in Revision
      BY <2>1 DEF TypeOK, SetWaitingApproval
    <3>2. /\ pl' = Stored(Written(q, input[q].rev))
          /\ <<TargetEnv(q), input[q].rev>> \in recorded'
      BY <2>1 DEF SetWaitingApproval
    <3>3. Waiting(req[q].copy.status, recorded')
      BY <1>0, WaitingMore DEF CopiesRecorded
    <3>4. Waiting(pl'.status, recorded')
      BY <3>1, <3>2, <3>3, WrittenWaiting DEF TypeOK
    <3> QED BY <1>1, <3>4, CopiesStay, HandlerStep
  <2>2. CASE ResetWaitingApproval(q) /\ pl' # pl
    <3>1. TargetEnv(q) \in Env
      BY <2>2 DEF TypeOK, ResetWaitingApproval
    <3>2. pl' = Stored(Written(q, NoRevision)) /\ NoRevision \notin Revision
      BY <2>2, PipelineSpecAssumption DEF ResetWaitingApproval, NoRevision, Revision
    <3>3. Waiting(req[q].copy.status, recorded')
      BY <1>0, WaitingMore DEF CopiesRecorded
    <3>4. Waiting(pl'.status, recorded')
      BY <3>1, <3>2, <3>3, WrittenWaiting DEF TypeOK
    <3> QED BY <1>1, <3>4, CopiesStay, HandlerStep
  <2>3. CASE pl' = pl
    <3>1. Waiting(pl'.status, recorded')
      BY <1>0, <2>3, WaitingMore DEF CopiesRecorded
    <3> QED BY <1>1, <3>1, CopiesStay, HandlerStep
  <2> QED BY <1>1, <2>1, <2>2, <2>3
          DEF Serve, Receive, GetAgain, SetWaitingApproval, ResetWaitingApproval, Promote,
              PromoteFails, CallFails
<1>2. ASSUME NEW ready \in {"True", "False"}, StartReconcile(ready) PROVE CopiesRecorded'
  <2>1. Waiting(rec'.new, recorded) /\ Waiting(rec'.base, recorded)
    <3>1. rec'.base = plview.status
      BY <1>2 DEF StartReconcile
    <3>2. CASE reconciler = "edge"
      <4>1. rec'.new.waiting = plview.status.waiting
        BY <1>2, <3>2 DEF StartReconcile
      <4> QED BY <3>1, <4>1 DEF CopiesRecorded, Waiting
    <3>3. CASE reconciler # "edge"
      <4>1. rec'.new = [ready |-> ready, waiting |-> [k \in Env |-> NoRevision]]
        BY <1>2, <3>3 DEF StartReconcile
      <4> QED BY <3>1, <4>1, NoneWaiting DEF CopiesRecorded
    <3> QED BY <3>2, <3>3
  <2> QED BY <1>2, <2>1 DEF StartReconcile, history, CopiesRecorded, Waiting
<1>3. CASE GetForPatch
  <2>1. rec'.new = rec.new /\ rec'.base = plview.status
    BY <1>3 DEF GetForPatch, TypeOK
  <2> QED BY <1>3, <2>1 DEF GetForPatch, history, CopiesRecorded, Waiting
<1>4. CASE PatchStatus
  <2>1. MergePatch(rec.base, rec.new, pl.status) \in Status
    BY MergePatchType DEF TypeOK, Pipeline
  <2>2. Waiting(MergePatch(rec.base, rec.new, pl.status), recorded)
    BY MergePatchWaiting DEF CopiesRecorded
  <2>3. pl'.status = MergePatch(rec.base, rec.new, pl.status)
    BY <1>4, <2>1, StoredType DEF PatchStatus, TypeOK, Pipeline
  <2>4. Waiting(rec'.new, recorded) /\ Waiting(rec'.base, recorded)
    BY <1>4, NoneWaiting DEF PatchStatus, Resting
  <2> QED BY <1>4, <2>2, <2>3, <2>4 DEF PatchStatus, history, CopiesRecorded, Waiting
<1>5. CASE CacheUpdate
  BY <1>5 DEF CacheUpdate, history, CopiesRecorded, Waiting
<1>6. CASE Crash
  <2>1. \A q \in Req : req'[q].copy = req[q].copy
    BY <1>6 DEF Crash, TypeOK, Handler
  <2>2. Waiting(rec'.new, recorded) /\ Waiting(rec'.base, recorded)
    BY <1>6, NoneWaiting DEF Crash, Resting
  <2> QED BY <1>6, <2>1, <2>2 DEF Crash, history, CopiesRecorded, Waiting
<1>7. CASE UNCHANGED vars
  BY <1>7 DEF vars, CopiesRecorded, Waiting
<1> QED BY <1>1, <1>2, <1>3, <1>4, <1>5, <1>6, <1>7 DEF Next

\* A handler that does not move knows what it knew.
LEMMA KnowsStays ==
    ASSUME [Next]_vars, NEW p \in Req, HandlerKnows(p), req'[p] = req[p]
    PROVE  HandlerKnows(p)'
BY HistoryGrows DEF HandlerKnows

\* A handler that has answered or was killed, with anything but success, relies
\* on nothing.
LEMMA KnowsAtEnd ==
    ASSUME NEW p \in Req,
           \/ req'[p].pc = "answered"
           \/ req'[p].pc = "killed" /\ req'[p].code # 204
    PROVE  HandlerKnows(p)'
BY DEF HandlerKnows

\* Every handler gets where it is with what it relies on there (ServeHTTP of
\* both handlers).
LEMMA KnowsStep ==
    ASSUME TypeOK, CopiesRecorded, \A p \in Req : HandlerKnows(p), [Next]_vars
    PROVE  \A p \in Req : HandlerKnows(p)'
<1>0. /\ input' = input /\ notified \subseteq notified' /\ recorded \subseteq recorded'
      /\ promoted \subseteq promoted'
      /\ \A p \in Req : /\ TargetEnv(p)' = TargetEnv(p) /\ Asked(p)' = Asked(p)
                        /\ Carried(p)' = Carried(p)
  BY HistoryGrows
<1>1. ASSUME NEW q \in Req, Serve(q) \/ PromoteFails(q) \/ CallFails(q)
      PROVE  HandlerKnows(q)'
  <2>1. CASE Receive(q)
    <3> DEFINE code == Refusal(q, plview)
    <3>1. /\ req'[q].code = code
          /\ req'[q].pc = IF code # 0 THEN "answered"
                          ELSE IF /\ input[q].kind = "promotion"
                                  /\ GetPromotion(TargetEnv(q)) \in Manual
                          THEN "getset" ELSE "promote"
      BY <2>1, ReceiveMoves
    <3>2. code = 0 /\ input[q].kind = "promotion" => Asked(q) \in notified'
      BY <2>1 DEF Receive, Asked
    <3>3. ASSUME code = 0, input[q].kind = "approval"
          PROVE  Asked(q) \in recorded' /\ input[q].env = TargetEnv(q)
      <4>1. /\ TargetEnv(q) \in Env
            /\ input[q].rev \in Revision
            /\ input[q].env = TargetEnv(q)
            /\ plview.status.waiting[TargetEnv(q)] = input[q].rev
        BY <3>3, RefusalFacts DEF TypeOK
      <4> QED BY <1>0, <4>1 DEF CopiesRecorded, Waiting, Asked
    <3> HIDE DEF code
    <3>4. CASE code # 0
      BY <3>1, <3>4, KnowsAtEnd
    <3>5. CASE code = 0
      <4>1. Asked(q)' = Asked(q) /\ TargetEnv(q)' = TargetEnv(q)
        BY <1>0
      <4> QED BY <1>0, <3>1, <3>2, <3>3, <3>5, <4>1 DEF HandlerKnows
    <3> QED BY <3>4, <3>5
  <2>2. CASE GetAgain(q)
    <3>1. /\ req'[q].code = req[q].code
          /\ req'[q].pc = IF req[q].pc = "getset" THEN "set" ELSE "reset"
          /\ req[q].pc \in {"getset", "getreset"}
      BY <2>2, GetAgainMoves DEF GetAgain
    <3> QED BY <1>0, <3>1 DEF HandlerKnows
  <2>3. CASE Answer(q, 204) \/ Answer(q, 401) \/ Answer(q, 500)
    <3>1. req'[q].pc = "answered"
      BY <2>3, HandlerAnswers DEF StatusCode, TypeOK
    <3> QED BY <3>1, KnowsAtEnd
  <2>4. CASE Promote(q) /\ input[q].kind # "promotion"
    <3>1. /\ req'[q].pc = "getreset" /\ req'[q].code = req[q].code
          /\ req[q].pc = "promote"
      BY <2>4 DEF Promote, TypeOK, Handler
    <3>2. input[q].kind = "approval"
      BY <2>4, InputType DEF TypeOK, Input
    <3>3. Carried(q) \in promoted'
      BY <2>4 DEF Promote, Carried
    <3> QED BY <1>0, <3>1, <3>2, <3>3 DEF HandlerKnows
  <2>5. CASE PromoteFails(q) /\ ~Answer(q, 500)
    <3>1. req'[q].pc = req[q].pc /\ req'[q].code = req[q].code
      BY <2>5 DEF PromoteFails, TypeOK, Handler
    <3> QED BY <1>0, <3>1 DEF HandlerKnows
  <2> QED BY <1>1, <2>1, <2>2, <2>3, <2>4, <2>5
          DEF Serve, SetWaitingApproval, ResetWaitingApproval, Promote, PromoteFails, CallFails
<1>2. ASSUME NEW q \in Req, Serve(q) \/ PromoteFails(q) \/ CallFails(q)
      PROVE  \A p \in Req : HandlerKnows(p)'
  <2> TAKE p \in Req
  <2>1. p # q => req'[p] = req[p]
    BY <1>2, HandlerStep
  <2> QED BY <1>1, <1>2, <2>1, KnowsStays
<1>3. CASE req' = req
  BY <1>3, KnowsStays
<1>4. CASE Crash
  <2> TAKE p \in Req
  <2>1. CASE req[p].pc \in {"new", "answered"}
    <3>1. req'[p] = req[p]
      BY <1>4, <2>1 DEF Crash
    <3> QED BY <3>1, KnowsStays
  <2>2. CASE req[p].pc \notin {"new", "answered"}
    <3>1. req'[p].pc = "killed" /\ req'[p].code = req[p].code
      BY <1>4, <2>2 DEF Crash, TypeOK, Handler
    <3> QED BY <2>2, <3>1, KnowsAtEnd DEF HandlerKnows
  <2> QED BY <2>1, <2>2
<1> QED BY <1>2, <1>3, <1>4
        DEF Next, StartReconcile, GetForPatch, PatchStatus, CacheUpdate, vars

\* Only promotion requests that were accepted come to be recorded.
LEMMA RecordedStep ==
    ASSUME TypeOK, recorded \subseteq notified, \A p \in Req : HandlerKnows(p), [Next]_vars
    PROVE  (recorded \subseteq notified)'
<1>1. notified \subseteq notified'
  BY HistoryGrows
<1>2. CASE recorded' = recorded
  BY <1>1, <1>2
<1>3. ASSUME NEW q \in Req, SetWaitingApproval(q) PROVE recorded' \subseteq notified'
  <2>1. Asked(q) \in notified
    BY <1>3 DEF SetWaitingApproval, HandlerKnows
  <2>2. recorded' \subseteq recorded \cup {Asked(q)}
    BY <1>3 DEF SetWaitingApproval, Asked
  <2> QED BY <1>1, <2>1, <2>2
<1> QED BY <1>2, <1>3
        DEF Next, Serve, Receive, GetAgain, ResetWaitingApproval, Promote, PromoteFails,
            CallFails, StartReconcile, GetForPatch, PatchStatus, CacheUpdate, Crash,
            history, vars

\* What is promoted is what a request in Promote asks for.
LEMMA OnlyPromote ==
    ASSUME [Next]_vars
    PROVE  \/ promoted' = promoted
           \/ \E q \in Req : Promote(q)
BY DEF Next, Serve, Receive, GetAgain, SetWaitingApproval, ResetWaitingApproval,
       PromoteFails, CallFails, StartReconcile, GetForPatch, PatchStatus, CacheUpdate,
       Crash, history, vars

\* What a handler that promotes has earned.
LEMMA PromoteFacts ==
    ASSUME TypeOK, ApprovalInv, NEW q \in Req, Promote(q)
    PROVE  /\ promoted' = promoted \cup {<<q, TargetEnv(q), input[q].rev>>}
           /\ TargetEnv(q) \in Env /\ input[q].rev \in Revision
           /\ Asked(q) \in notified
           /\ GetPromotion(TargetEnv(q)) \in Manual =>
                 /\ input[q].kind = "approval"
                 /\ input[q].env = TargetEnv(q)
                 /\ Asked(q) \in recorded
<1>1. /\ promoted' = promoted \cup {<<q, TargetEnv(q), input[q].rev>>}
      /\ req[q].pc = "promote"
  BY DEF Promote
<1>2. TargetEnv(q) \in Env /\ input[q].rev \in Revision
  BY <1>1 DEF TypeOK
<1>3. input[q].kind \in {"promotion", "approval"}
  BY InputType DEF TypeOK, Input
<1>4. HandlerKnows(q) /\ recorded \subseteq notified
  BY DEF ApprovalInv
<1> QED BY <1>1, <1>2, <1>3, <1>4 DEF HandlerKnows

\* Every promotion, and every acknowledgement, is for a reason.
LEMMA OutcomeStep ==
    ASSUME TypeOK, ApprovalInv, [Next]_vars
    PROVE  /\ PromotedOnlyNotified'
           /\ ManualOnlyApproved'
           /\ AcknowledgedNotLost'
<1>0. /\ input' = input /\ promoted \subseteq promoted'
      /\ notified \subseteq notified' /\ recorded \subseteq recorded'
      /\ \A q \in Req : TargetEnv(q)' = TargetEnv(q)
  BY HistoryGrows
<1> USE DEF ApprovalInv
<1>1. PromotedOnlyNotified' /\ ManualOnlyApproved'
  <2>1. CASE promoted' = promoted
    BY <1>0, <2>1 DEF PromotedOnlyNotified, ManualOnlyApproved
  <2>2. ASSUME NEW q \in Req, Promote(q)
        PROVE  PromotedOnlyNotified' /\ ManualOnlyApproved'
    <3> DEFINE new == <<q, TargetEnv(q), input[q].rev>>
    <3>1. /\ promoted' = promoted \cup {new}
          /\ Asked(q) \in notified
          /\ GetPromotion(TargetEnv(q)) \in Manual =>
                /\ input[q].kind = "approval"
                /\ input[q].env = TargetEnv(q)
                /\ Asked(q) \in recorded
      BY <2>2, PromoteFacts
    <3>2. new[1] = q /\ new[2] = TargetEnv(q) /\ new[3] = input[q].rev
      OBVIOUS
    <3>3. Asked(q) = <<new[2], new[3]>>
      BY <3>2 DEF Asked
    <3> HIDE DEF new
    <3>4. PromotedOnlyNotified'
      BY <1>0, <3>1, <3>3 DEF PromotedOnlyNotified
    <3>5. ManualOnlyApproved'
      BY <1>0, <3>1, <3>2, <3>3 DEF ManualOnlyApproved
    <3> QED BY <3>4, <3>5
  <2> QED BY <2>1, <2>2, OnlyPromote
<1>2. AcknowledgedNotLost'
  <2> SUFFICES ASSUME NEW q \in Req,
                      input[q].kind = "promotion", req'[q].pc = "answered",
                      req'[q].code = 204
               PROVE  \/ <<q, TargetEnv(q), input[q].rev>> \in promoted'
                      \/ <<TargetEnv(q), input[q].rev>> \in recorded'
    BY <1>0 DEF AcknowledgedNotLost
  <2>1. CASE req'[q] = req[q]
    BY <1>0, <2>1 DEF AcknowledgedNotLost
  <2>2. CASE Receive(q)
    <3>1. req'[q].code \in {0, 400, 401, 404, 405, 422, 500}
      BY <2>2, ReceiveMoves, RefusalFacts DEF TypeOK
    <3> QED BY <3>1
  <2>3. CASE GetAgain(q)
    BY <2>3, GetAgainMoves
  <2>4. CASE SetWaitingApproval(q)
    <3>1. CASE Answer(q, 500)
      <4>1. req'[q].code = 500
        BY <3>1, HandlerAnswers DEF StatusCode, TypeOK
      <4> QED BY <4>1
    <3> QED BY <2>4, <3>1 DEF SetWaitingApproval
  <2>5. CASE ResetWaitingApproval(q)
    BY <2>5 DEF ResetWaitingApproval, HandlerKnows
  <2>6. CASE Promote(q)
    BY <2>6 DEF Promote
  <2>7. CASE PromoteFails(q) \/ CallFails(q)
    <3>1. CASE Answer(q, 401) \/ Answer(q, 500)
      <4>1. req'[q].code # 204
        BY <3>1, HandlerAnswers DEF StatusCode, TypeOK
      <4> QED BY <4>1
    <3>2. CASE req' = [req EXCEPT ![q].try = req[q].try + 1] /\ req[q].pc = "promote"
      BY <3>2 DEF TypeOK, Handler
    <3> QED BY <2>7, <3>1, <3>2 DEF PromoteFails, CallFails
  <2>8. CASE Crash
    <3>1. req'[q] = req[q]
      BY <2>8 DEF Crash, TypeOK, Handler
    <3> QED BY <2>1, <3>1
  <2>9. \/ req'[q] = req[q]
        \/ Serve(q) \/ PromoteFails(q) \/ CallFails(q)
        \/ Crash
    BY HandlerStep DEF Next, StartReconcile, GetForPatch, PatchStatus, CacheUpdate, vars
  <2> QED BY <2>1, <2>2, <2>3, <2>4, <2>5, <2>6, <2>7, <2>8, <2>9 DEF Serve
<1> QED BY <1>1, <1>2

\* The invariant holds at the start.
LEMMA ApprovalInit == Init => ApprovalInv
<1> SUFFICES ASSUME Init PROVE ApprovalInv
  OBVIOUS
<1>1. CopiesRecorded
  BY NoneWaiting DEF Init, CopiesRecorded, Resting
<1>2. \A q \in Req : HandlerKnows(q)
  BY DEF Init, HandlerKnows
<1>3. PromotedOnlyNotified /\ ManualOnlyApproved /\ AcknowledgedNotLost
  BY DEF Init, PromotedOnlyNotified, ManualOnlyApproved, AcknowledgedNotLost
<1> QED BY <1>1, <1>2, <1>3 DEF Init, ApprovalInv

\* The invariant that the theorems below take their parts from.
THEOREM ApprovalInvariant == Spec => [](TypeOK /\ ApprovalInv)
<1>1. TypeOK /\ ApprovalInv /\ [Next]_vars => ApprovalInv'
  <2> SUFFICES ASSUME TypeOK, ApprovalInv, [Next]_vars PROVE ApprovalInv'
    OBVIOUS
  <2>1. CopiesRecorded'
    BY CopiesStep DEF ApprovalInv
  <2>2. \A q \in Req : HandlerKnows(q)'
    BY KnowsStep DEF ApprovalInv
  <2>3. (recorded \subseteq notified)'
    BY RecordedStep DEF ApprovalInv
  <2>4. PromotedOnlyNotified' /\ ManualOnlyApproved' /\ AcknowledgedNotLost'
    BY OutcomeStep
  <2> QED BY <2>1, <2>2, <2>3, <2>4 DEF ApprovalInv
<1> QED BY <1>1, ApprovalInit, TypeCorrect, PTL DEF Spec

\* Nothing is promoted that no accepted promotion request has named, whatever
\* stale copies of the status are read, patched and written back.
THEOREM OnlyNotifiedPromoted == Spec => []PromotedOnlyNotified
<1>1. ApprovalInv => PromotedOnlyNotified
  BY DEF ApprovalInv
<1> QED BY <1>1, ApprovalInvariant, PTL

\* A manual promotion takes an approval of the very revision and environment,
\* recorded before as waiting (promotion_handler.go, approval_handler.go).
THEOREM OnlyApprovedManual == Spec => []ManualOnlyApproved
<1>1. ApprovalInv => ManualOnlyApproved
  BY DEF ApprovalInv
<1> QED BY <1>1, ApprovalInvariant, PTL

\* A promotion request is answered with success only when its revision has been
\* promoted or recorded, conflicts, failures and crashes notwithstanding.
THEOREM AcknowledgedKept == Spec => []AcknowledgedNotLost
<1>1. ApprovalInv => AcknowledgedNotLost
  BY DEF ApprovalInv
<1> QED BY <1>1, ApprovalInvariant, PTL

\* An approval takes a revision off the status only when its own has been
\* promoted, whatever fails and wherever the process ends (ServeHTTP of the
\* approval handler, resetWaitingApproval).
THEOREM ResetIsLast == Spec => ResetOnlyPromoted
<1>1. TypeOK /\ ApprovalInv /\ [Next]_vars =>
         [\A q \in Req : input[q].kind = "approval" /\ req'[q] # req[q] /\ pl' # pl =>
             <<q, TargetEnv(q), input[q].rev>> \in promoted]_vars
  <2> SUFFICES ASSUME TypeOK, ApprovalInv, [Next]_vars,
                      NEW q \in Req, input[q].kind = "approval", req'[q] # req[q], pl' # pl
               PROVE  Carried(q) \in promoted
    BY DEF Carried
  <2>1. Serve(q) \/ PromoteFails(q) \/ CallFails(q) \/ Crash
    BY HandlerStep DEF Next, StartReconcile, GetForPatch, PatchStatus, CacheUpdate, vars
  <2>2. req[q].pc \in {"set", "reset"}
    BY <2>1 DEF Serve, Receive, GetAgain, SetWaitingApproval, ResetWaitingApproval,
                Promote, PromoteFails, CallFails, Crash
  <2> QED BY <2>2 DEF ApprovalInv, HandlerKnows
<1> QED BY <1>1, ApprovalInvariant, PTL DEF Spec, ResetOnlyPromoted

-----------------------------------------------------------------------------
(***************************************************************************)
(* Versions.  A handler's update is refused unless its copy has the        *)
(* version of the Pipeline at the API server, and then it is that Pipeline.*)
(***************************************************************************)

\* a copy p of the Pipeline s: an older version, or the same
CopyOf(p, s) == p.rv <= s.rv /\ (p.rv = s.rv => p = s)

\* every copy that a handler may come to write back is a version of the Pipeline
Versioned ==
    /\ CopyOf(plview, pl)
    /\ \A q \in Req : CopyOf(req[q].copy, pl)

\* What the API server stores is newer than every copy, or is what it had.
LEMMA StoredNewer ==
    ASSUME pl \in Pipeline, NEW new \in Pipeline, NEW p \in Pipeline, CopyOf(p, pl)
    PROVE  CopyOf(p, Stored(new))
<1>1. CASE new = pl
  BY <1>1 DEF Stored
<1>2. CASE new # pl
  <2>1. Stored(new).rv = pl.rv + 1
    BY <1>2 DEF Stored, Pipeline
  <2>2. p.rv \in Nat /\ pl.rv \in Nat /\ p.rv <= pl.rv
    BY DEF Pipeline, CopyOf
  <2> QED BY <2>1, <2>2 DEF CopyOf
<1> QED BY <1>1, <1>2

\* The Pipeline changes only by being stored again.
LEMMA StoredOrSame ==
    ASSUME TypeOK, [Next]_vars
    PROVE  \/ pl' = pl
           \/ \E new \in Pipeline : pl' = Stored(new)
<1>1. ASSUME NEW q \in Req, SetWaitingApproval(q), pl' # pl
      PROVE  \E new \in Pipeline : pl' = Stored(new)
  <2>1. TargetEnv(q) \in Env /\ input[q].rev \in Revision
    BY <1>1 DEF TypeOK, SetWaitingApproval
  <2>2. Written(q, input[q].rev) \in Pipeline
    BY <2>1, WrittenFacts DEF TypeOK
  <2> QED BY <1>1, <2>2 DEF SetWaitingApproval
<1>2. ASSUME NEW q \in Req, ResetWaitingApproval(q), pl' # pl
      PROVE  \E new \in Pipeline : pl' = Stored(new)
  <2>1. TargetEnv(q) \in Env
    BY <1>2 DEF TypeOK, ResetWaitingApproval
  <2>2. Written(q, NoRevision) \in Pipeline
    BY <2>1, WrittenFacts DEF TypeOK
  <2> QED BY <1>2, <2>2 DEF ResetWaitingApproval
<1>3. CASE PatchStatus
  <2>1. MergePatch(rec.base, rec.new, pl.status) \in Status
    BY MergePatchType DEF TypeOK, Pipeline
  <2>2. [pl EXCEPT !.status = MergePatch(rec.base, rec.new, pl.status)] \in Pipeline
    BY <2>1 DEF TypeOK, Pipeline
  <2> QED BY <1>3, <2>2 DEF PatchStatus
<1> QED BY <1>1, <1>2, <1>3
        DEF Next, Serve, Receive, GetAgain, Promote, PromoteFails, CallFails, StartReconcile,
            GetForPatch, CacheUpdate, Crash, vars

\* Every copy stays a version of the Pipeline.
LEMMA VersionedStep ==
    ASSUME TypeOK, Versioned, [Next]_vars
    PROVE  Versioned'
<1>1. ASSUME NEW p \in Pipeline, CopyOf(p, pl) PROVE CopyOf(p, pl')
  BY <1>1, StoredOrSame, StoredNewer DEF TypeOK
<1>2. /\ CopyOf(plview, pl')
      /\ \A q \in Req : CopyOf(req[q].copy, pl')
  BY <1>1 DEF Versioned, TypeOK, Handler
<1>3. CASE plview' = plview /\ \A q \in Req : req'[q].copy \in {req[q].copy, plview}
  BY <1>2, <1>3 DEF Versioned
<1>4. CASE CacheUpdate \/ Crash
  <2>1. pl' = pl /\ plview' = pl /\ \A q \in Req : req'[q].copy = req[q].copy
    BY <1>4 DEF CacheUpdate, Crash, TypeOK, Handler
  <2>2. pl.rv \in Nat
    BY DEF TypeOK, Pipeline
  <2> QED BY <1>2, <2>1, <2>2 DEF Versioned, CopyOf
<1>5. ASSUME NEW q \in Req, Serve(q) \/ PromoteFails(q) \/ CallFails(q) PROVE Versioned'
  BY <1>3, <1>5, HandlerStep
<1> QED BY <1>3, <1>4, <1>5
        DEF Next, StartReconcile, GetForPatch, PatchStatus, vars

\* What an update of the latest version leaves alone.
LEMMA UpdateKeeps ==
    ASSUME TypeOK, NEW q \in Req, TargetEnv(q) \in Env,
           NEW r \in Revision \cup {NoRevision},
           req[q].copy = pl, pl' = Stored(Written(q, r))
    PROVE  /\ pl'.status.ready = pl.status.ready
           /\ \A k \in Env \ {TargetEnv(q)} : pl'.status.waiting[k] = pl.status.waiting[k]
<1>1. /\ Written(q, r) \in Pipeline
      /\ Written(q, r).status.ready = pl.status.ready
      /\ Written(q, r).status.waiting = [pl.status.waiting EXCEPT ![TargetEnv(q)] = r]
  BY WrittenFacts DEF TypeOK
<1>2. pl'.status = Written(q, r).status
  BY <1>1, StoredType DEF TypeOK
<1>3. pl.status.waiting \in [Env -> Revision \cup {NoRevision, NoEntry}]
  BY DEF TypeOK, Pipeline, Status
<1> QED BY <1>1, <1>2, <1>3

\* An update of a handler never undoes what the reconciler or another handler
\* has written since: it is based on the version at the server, or refused, for
\* any number of requests and environments (setWaitingApproval,
\* resetWaitingApproval).
THEOREM RestIsKept == Spec => UpdatesKeepTheRest
<1>1. Init => Versioned
  BY NothingType DEF Init, Versioned, CopyOf, Pipeline
<1>2. TypeOK /\ Versioned /\ [Next]_vars => Versioned'
  BY VersionedStep
<1>3. TypeOK /\ Versioned /\ [Next]_vars =>
         [\A q \in Req : req'[q] # req[q] =>
             /\ pl'.status.ready = pl.status.ready
             /\ \A k \in Env \ {TargetEnv(q)} :
                   pl'.status.waiting[k] = pl.status.waiting[k]]_vars
  <2> SUFFICES ASSUME TypeOK, Versioned, [Next]_vars,
                      NEW q \in Req, req'[q] # req[q]
               PROVE  /\ pl'.status.ready = pl.status.ready
                      /\ \A k \in Env \ {TargetEnv(q)} :
                            pl'.status.waiting[k] = pl.status.waiting[k]
    OBVIOUS
  <2>1. CASE pl' = pl
    BY <2>1
  <2>2. Serve(q) \/ PromoteFails(q) \/ CallFails(q) \/ Crash
    BY HandlerStep DEF Next, StartReconcile, GetForPatch, PatchStatus, CacheUpdate, vars
  <2>3. ASSUME pl' # pl
        PROVE  \/ /\ SetWaitingApproval(q) /\ req[q].copy.rv = pl.rv
                  /\ pl' = Stored(Written(q, input[q].rev))
               \/ /\ ResetWaitingApproval(q) /\ req[q].copy.rv = pl.rv
                  /\ pl' = Stored(Written(q, NoRevision))
    BY <2>2, <2>3 DEF Serve, Receive, GetAgain, SetWaitingApproval, ResetWaitingApproval,
                      Promote, PromoteFails, CallFails, Crash
  <2>4. req[q].copy.rv = pl.rv => req[q].copy = pl
    BY DEF Versioned, CopyOf
  <2>5. SetWaitingApproval(q) \/ ResetWaitingApproval(q) =>
           TargetEnv(q) \in Env /\ input[q].rev \in Revision
    BY DEF SetWaitingApproval, ResetWaitingApproval, TypeOK
  <2> QED BY <2>1, <2>3, <2>4, <2>5, UpdateKeeps
<1> QED BY <1>1, <1>2, <1>3, TypeCorrect, PTL DEF Spec, UpdatesKeepTheRest

=============================================================================
