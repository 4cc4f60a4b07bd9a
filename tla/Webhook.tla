------------------------------- MODULE Webhook -------------------------------
(***************************************************************************)
(* The promotion server's two endpoints (server/promotion_handler.go,      *)
(* server/approval_handler.go) and a reconciler, at work on one Pipeline.  *)
(*                                                                         *)
(* They meet in the Pipeline's status: a promotion request for an          *)
(* environment whose promotion is manual records the revision as waiting   *)
(* for approval, an approval request promotes that revision and resets the *)
(* record, and the reconciler writes the rest of the status.  All of them  *)
(* read the Pipeline from the manager's cache, which lags.  The handlers   *)
(* write with an update, which is refused unless it is based on the latest *)
(* version; the reconcilers write with a merge patch, which is not.        *)
(***************************************************************************)
EXTENDS PipelineSpec, FiniteSets

CONSTANTS
    Req,         \* requests, each served by a goroutine of its own
    Traffic,     \* what they may ask for, together
    Signed,      \* the promotions in the spec that name a secret
    Retries,     \* retry.Threshold: "promotion-retry-threshold"
    Reconcilers, \* the reconcilers that main may start: "edge" or "level"
    MaxReconciles, \* bound on reconciliations
    MaxFailures, \* bound on failing calls of strategy.Promote and the API
    MaxCrashes   \* bound on restarts of the controller

\* What is wrong with a request, if anything: the method, the path, the
\* Pipeline's name, the signature, the body, the involved object.
Defect == {"none", "method", "path", "pipeline", "signature", "body", "object"}

\* kind, environment (of a promotion: the source), revision and defect.  An
\* environment that the Pipeline does not have is 0.
Input == [kind   : {"promotion", "approval"},
          env    : Env \cup {0},
          rev    : Revision \cup {NoRevision},
          defect : Defect]

ASSUME WebhookAssumption ==
    /\ Traffic \subseteq [Req -> Input]
    /\ \A t \in Traffic : \A q \in Req :
          t[q].kind = "approval" => t[q].rev # NoRevision
    /\ Signed \subseteq Promotions
    /\ Retries \in Nat
    /\ Reconcilers \subseteq {"edge", "level"}
    /\ MaxReconciles \in Nat
    /\ MaxFailures \in Nat
    /\ MaxCrashes \in Nat

VARIABLES
    input,      \* request -> what it asks for
    reconciler, \* the reconciler that main has started
    req,        \* request -> where its handler is
    pl,         \* the Pipeline at the API server
    plview,     \* the Pipeline in the manager's cache
    rec,        \* the reconciliation in progress
    promoted,   \* history: <<request, env, revision>> given to the strategy
    notified,   \* history: <<env, revision>> a promotion request was accepted for
    recorded,   \* history: <<env, revision>> that have been waiting for approval
    reconciles, failures, crashes

given == <<input, reconciler>>
vars == <<given, req, pl, plview, rec, promoted, notified, recorded,
          reconciles, failures, crashes>>

history == <<promoted, notified, recorded>>
bounds == <<reconciles, failures, crashes>>

\* The status: the Ready condition and, per environment, the revision that
\* waits for approval; NoEntry if status.environments lacks the environment.
\* rv is metadata.resourceVersion.
NoEntry == -1
Status == [ready   : {"Unknown", "True", "False"},
           waiting : [Env -> Revision \cup {NoRevision, NoEntry}]]
Pipeline == [rv : Nat, status : Status]

NoEnvironments == [k \in Env |-> NoEntry]

GetWaitingApproval(status, env) ==
    IF env \in Env /\ status.waiting[env] # NoEntry
    THEN status.waiting[env] ELSE NoRevision

\* Where a handler is, the copy of the Pipeline it holds, tries of promote so
\* far, and the response's status code.
Place == {"new", "promote", "getset", "set", "getreset", "reset", "answered", "killed"}
StatusCode == {0, 204, 400, 401, 404, 405, 422, 500}
Handler == [pc : Place, copy : Pipeline, try : Nat, code : StatusCode]

Nothing == [rv |-> 0, status |-> [ready |-> "Unknown", waiting |-> NoEnvironments]]

\* A reconciliation: what it writes, and the copy its patch is based on.
Resting == [pc |-> "idle", new |-> Nothing.status, base |-> Nothing.status]

Init ==
    /\ input \in Traffic
    /\ reconciler \in Reconcilers
    /\ req = [q \in Req |-> [pc |-> "new", copy |-> Nothing, try |-> 0, code |-> 0]]
    /\ pl = Nothing
    /\ plview = pl
    /\ rec = Resting
    /\ promoted = {}
    /\ notified = {}
    /\ recorded = {}
    /\ reconciles = 0
    /\ failures = 0
    /\ crashes = 0

-----------------------------------------------------------------------------
(***************************************************************************)
(* The handlers.                                                           *)
(***************************************************************************)

\* lookupNextEnvironment and lookupEnvironment; 0 if there is none.
lookupNextEnvironment(env) == IF env \in Env /\ env < NumEnvs THEN env + 1 ELSE 0

lookupEnvironment(env) == IF env \in Env THEN env ELSE 0

\* the environment that a request is about to promote to
TargetEnv(q) ==
    IF input[q].kind = "promotion" THEN lookupNextEnvironment(input[q].env)
    ELSE lookupEnvironment(input[q].env)

\* spec.promotion's secret; no check without one
verifyXSignature(q) == DefaultPromotion \in Signed => input[q].defect # "signature"

Refusal_WaitingNotChecked(q, pipeline) ==
    CASE ~verifyXSignature(q)      -> 401
      [] TargetEnv(q) = 0          -> 422
      [] input[q].rev = NoRevision -> 422
      [] GetPromotion(TargetEnv(q)) = Nil -> 500
      [] OTHER -> 0

\* The checks of both handlers, in the order in which they are made, on the
\* Pipeline as read.  The code of the response, or 0 to go on.
Refusal(q, pipeline) ==
    LET i == input[q]
        k == TargetEnv(q)
    IN  CASE i.defect = "method"   -> 405
          [] i.defect = "path"     -> 404
          [] i.defect = "pipeline" -> 404
          [] ~verifyXSignature(q)  -> 401
          [] i.kind = "promotion" /\ i.defect = "body" -> 400
          [] i.kind = "promotion" /\ i.rev = NoRevision -> 422
          [] i.kind = "approval" /\ GetWaitingApproval(pipeline.status, i.env) # i.rev -> 422
          [] k = 0 -> 422
          [] i.kind = "promotion" /\ i.defect = "object" -> 422
          [] GetPromotion(k) = Nil -> 500
          [] OTHER -> 0

Answer(q, code) == req' = [req EXCEPT ![q].pc = "answered", ![q].code = code]

Receive_ManualIgnored(q) ==
    /\ req[q].pc = "new"
    /\ LET code == Refusal(q, plview)
           accepted == code = 0 /\ input[q].kind = "promotion"
       IN  /\ req' = [req EXCEPT ![q].pc = IF code # 0 THEN "answered" ELSE "promote",
                                 ![q].code = code]
           /\ notified' = IF accepted THEN notified \cup {<<TargetEnv(q), input[q].rev>>}
                          ELSE notified
    /\ UNCHANGED <<given, pl, plview, rec, promoted, recorded, bounds>>

\* ServeHTTP up to the promotion: read the Pipeline, make the checks; a manual
\* promotion is recorded, anything else is promoted.
Receive(q) ==
    /\ req[q].pc = "new"
    /\ LET code == Refusal(q, plview)
           k == TargetEnv(q)
           accepted == code = 0 /\ input[q].kind = "promotion"
       IN  /\ req' = [req EXCEPT
                ![q].pc = IF code # 0 THEN "answered"
                          ELSE IF accepted /\ GetPromotion(k) \in Manual THEN "getset"
                          ELSE "promote",
                ![q].code = code]
           /\ notified' = IF accepted THEN notified \cup {<<k, input[q].rev>>}
                          ELSE notified
    /\ UNCHANGED <<given, pl, plview, rec, promoted, recorded, bounds>>

\* setWaitingApproval and resetWaitingApproval get the Pipeline again.
GetAgain(q) ==
    /\ req[q].pc \in {"getset", "getreset"}
    /\ req' = [req EXCEPT ![q].pc = IF req[q].pc = "getset" THEN "set" ELSE "reset",
                          ![q].copy = plview]
    /\ UNCHANGED <<given, pl, plview, rec, history, bounds>>

\* Status().Update of the copy, with the environment's waiting revision set
\* to r: a conflict unless the copy is of the latest version.
Written(q, r) ==
    [pl EXCEPT !.status = [req[q].copy.status EXCEPT !.waiting[TargetEnv(q)] = r]]

Stored(new) == IF new = pl THEN pl ELSE [new EXCEPT !.rv = pl.rv + 1]

SetWaitingApproval_ConflictIgnored(q) ==
    /\ req[q].pc = "set"
    /\ pl' = IF req[q].copy.rv = pl.rv THEN Stored(Written(q, input[q].rev)) ELSE pl
    /\ recorded' = IF req[q].copy.rv = pl.rv
                   THEN recorded \cup {<<TargetEnv(q), input[q].rev>>} ELSE recorded
    /\ Answer(q, 204)
    /\ UNCHANGED <<given, plview, rec, promoted, notified, bounds>>

SetWaitingApproval_Overwrites(q) ==
    /\ req[q].pc = "set"
    /\ pl' = Stored(Written(q, input[q].rev))
    /\ recorded' = recorded \cup {<<TargetEnv(q), input[q].rev>>}
    /\ Answer(q, 204)
    /\ UNCHANGED <<given, plview, rec, promoted, notified, bounds>>

SetWaitingApproval(q) ==
    /\ req[q].pc = "set"
    /\ IF req[q].copy.rv = pl.rv
       THEN /\ pl' = Stored(Written(q, input[q].rev))
            /\ recorded' = recorded \cup {<<TargetEnv(q), input[q].rev>>}
            /\ Answer(q, 204)
       ELSE /\ Answer(q, 500)
            /\ UNCHANGED <<pl, recorded>>
    /\ UNCHANGED <<given, plview, rec, promoted, notified, bounds>>

ResetWaitingApproval(q) ==
    /\ req[q].pc = "reset"
    /\ IF req[q].copy.rv = pl.rv
       THEN /\ pl' = Stored(Written(q, NoRevision))
            /\ Answer(q, 204)
       ELSE /\ Answer(q, 500)
            /\ UNCHANGED pl
    /\ UNCHANGED <<given, plview, rec, history, bounds>>

\* strategy.Promote succeeds.
Promote(q) ==
    /\ req[q].pc = "promote"
    /\ promoted' = promoted \cup {<<q, TargetEnv(q), input[q].rev>>}
    /\ IF input[q].kind = "promotion"
       THEN Answer(q, 204)
       ELSE req' = [req EXCEPT ![q].pc = "getreset"]
    /\ UNCHANGED <<given, pl, plview, rec, notified, recorded, bounds>>

\* retry.Exponential, after the failure of try number req[q].try + 1
Exponential(q) == req[q].try + 1 < Retries

PromoteFails_Unbounded(q) ==
    /\ req[q].pc = "promote"
    /\ failures < MaxFailures
    /\ failures' = failures + 1
    /\ req' = [req EXCEPT ![q].try = req[q].try + 1]
    /\ UNCHANGED <<given, pl, plview, rec, history, reconciles, crashes>>

PromoteFails_ResetAnyway(q) ==
    /\ req[q].pc = "promote"
    /\ failures < MaxFailures
    /\ failures' = failures + 1
    /\ IF input[q].kind = "promotion"
       THEN IF Exponential(q) THEN req' = [req EXCEPT ![q].try = req[q].try + 1]
            ELSE Answer(q, 500)
       ELSE req' = [req EXCEPT ![q].pc = "getreset"]
    /\ UNCHANGED <<given, pl, plview, rec, history, reconciles, crashes>>

\* strategy.Promote fails.  A promotion is tried again, retry.Exponential
\* allowing; an approval is not.
PromoteFails(q) ==
    /\ req[q].pc = "promote"
    /\ failures < MaxFailures
    /\ failures' = failures + 1
    /\ IF input[q].kind = "promotion" /\ Exponential(q)
       THEN req' = [req EXCEPT ![q].try = req[q].try + 1]
       ELSE Answer(q, 500)
    /\ UNCHANGED <<given, pl, plview, rec, history, reconciles, crashes>>

\* Reading or writing the Pipeline fails, for any reason but a conflict, or
\* verifyXSignature cannot read the secret.
CallFails(q) ==
    /\ failures < MaxFailures
    /\ failures' = failures + 1
    /\ \/ /\ \/ req[q].pc = "new" /\ input[q].defect \notin {"method", "path"}
             \/ req[q].pc \in {"getset", "set", "getreset", "reset"}
          /\ Answer(q, 500)
       \/ /\ req[q].pc = "new" /\ input[q].defect \notin {"method", "path", "pipeline"}
          /\ DefaultPromotion \in Signed
          /\ Answer(q, 401)
    /\ UNCHANGED <<given, pl, plview, rec, history, reconciles, crashes>>

-----------------------------------------------------------------------------
(***************************************************************************)
(* The reconcilers.                                                        *)
(***************************************************************************)

\* What a reconciliation that has read the Pipeline is going to write: the
\* edge-triggered one the status it read, the level-triggered one a status
\* made afresh, each with the Ready condition it has arrived at.
StartReconcile(ready) ==
    /\ reconciles < MaxReconciles
    /\ reconciles' = reconciles + 1
    /\ rec.pc = "idle"
    /\ rec' = [pc   |-> IF reconciler = "edge" THEN "get" ELSE "patch",
               new  |-> [ready   |-> ready,
                         waiting |-> IF reconciler = "edge" THEN plview.status.waiting
                                     ELSE [k \in Env |-> NoRevision]],
               base |-> plview.status]
    /\ UNCHANGED <<given, req, pl, plview, history, failures, crashes>>

\* patchStatus of the edge-triggered reconciler gets the Pipeline again, and
\* bases its patch on that.
GetForPatch ==
    /\ rec.pc = "get"
    /\ rec' = [rec EXCEPT !.pc = "patch", !.base = plview.status]
    /\ UNCHANGED <<given, req, pl, plview, history, bounds>>

\* The merge patch from base to new, whatever the version at the server.  If
\* new has no environments at all, the field is null there, and the patch
\* removes those of cur.
MergePatch(base, new, cur) ==
    [ready   |-> IF base.ready = new.ready THEN cur.ready ELSE new.ready,
     waiting |-> [k \in Env |->
        IF base.waiting # new.waiting /\ new.waiting = NoEnvironments THEN NoEntry
        ELSE IF base.waiting[k] = new.waiting[k] THEN cur.waiting[k]
        ELSE new.waiting[k]]]

PatchStatus ==
    /\ rec.pc = "patch"
    /\ pl' = Stored([pl EXCEPT !.status = MergePatch(rec.base, rec.new, pl.status)])
    /\ rec' = Resting
    /\ UNCHANGED <<given, req, plview, history, bounds>>

-----------------------------------------------------------------------------
(***************************************************************************)
(* The rest of the world.                                                  *)
(***************************************************************************)

CacheUpdate ==
    /\ plview # pl
    /\ plview' = pl
    /\ UNCHANGED <<given, req, pl, rec, history, bounds>>

\* The process ends, with the requests it was serving, and starts again.
Crash ==
    /\ crashes < MaxCrashes
    /\ crashes' = crashes + 1
    /\ req' = [q \in Req |-> IF req[q].pc \in {"new", "answered"} THEN req[q]
                             ELSE [req[q] EXCEPT !.pc = "killed"]]
    /\ rec' = Resting
    /\ plview' = pl
    /\ UNCHANGED <<given, pl, history, reconciles, failures>>

Serve(q) ==
    \/ Receive(q)
    \/ GetAgain(q)
    \/ SetWaitingApproval(q)
    \/ ResetWaitingApproval(q)
    \/ Promote(q)

Next ==
    \/ \E q \in Req : Serve(q)
    \/ \E q \in Req : PromoteFails(q)
    \/ \E q \in Req : CallFails(q)
    \/ \E ready \in {"True", "False"} : StartReconcile(ready)
    \/ GetForPatch
    \/ PatchStatus
    \/ CacheUpdate
    \/ Crash

Spec == Init /\ [][Next]_vars

-----------------------------------------------------------------------------
(***************************************************************************)
(* Properties.                                                             *)
(***************************************************************************)

Max1(n) == IF n = 0 THEN 1 ELSE n

\* Every variable has the shape the code gives it.  A request past its checks
\* is about an environment of the Pipeline and a revision, and has not tried
\* the strategy more often than the retry threshold allows (retry.Exponential:
\* the first call is always made).
TypeOK ==
    /\ input \in Traffic
    /\ reconciler \in Reconcilers
    /\ req \in [Req -> Handler]
    /\ \A q \in Req : req[q].pc \notin {"new", "answered", "killed"} =>
          TargetEnv(q) \in Env /\ input[q].rev \in Revision
    /\ \A q \in Req : req[q].try < Max1(Retries)
    /\ pl \in Pipeline
    /\ plview \in Pipeline
    /\ rec \in [pc : {"idle", "get", "patch"}, new : Status, base : Status]
    /\ promoted \subseteq Req \X Env \X Revision
    /\ notified \subseteq Env \X Revision
    /\ recorded \subseteq Env \X Revision
    /\ reconciles \in 0..MaxReconciles
    /\ failures \in 0..MaxFailures
    /\ crashes \in 0..MaxCrashes

\* Nothing is promoted to an environment unless a promotion request for that
\* environment and that revision was accepted before, be it at once or after
\* approval, and whatever copies of the Pipeline the handlers and the
\* reconciler read or write back (ServeHTTP of both handlers).
PromotedOnlyNotified ==
    \A p \in promoted : <<p[2], p[3]>> \in notified

\* A manual promotion takes two requests: one that makes the revision wait,
\* stored in the status, and an approval that names this very revision.
ManualOnlyApproved ==
    \A p \in promoted :
        GetPromotion(p[2]) \in Manual =>
            /\ input[p[1]].kind = "approval"
            /\ input[p[1]].env = p[2]
            /\ input[p[1]].rev = p[3]
            /\ <<p[2], p[3]>> \in recorded

\* A promotion request that was answered with success has not been lost: its
\* revision has been promoted by this request, or has been stored as waiting
\* for approval (setWaitingApproval reports a conflict).
AcknowledgedNotLost ==
    \A q \in Req :
        input[q].kind = "promotion" /\ req[q].pc = "answered" /\ req[q].code = 204 =>
            \/ <<q, TargetEnv(q), input[q].rev>> \in promoted
            \/ <<TargetEnv(q), input[q].rev>> \in recorded

\* Handlers and reconciler share the status, and each handler writes all of it:
\* an update never undoes what others have written since the handler read the
\* Pipeline, the Ready condition or another environment's waiting revision
\* (setWaitingApproval, resetWaitingApproval).
UpdatesKeepTheRest ==
    [][\A q \in Req : req'[q] # req[q] =>
          /\ pl'.status.ready = pl.status.ready
          /\ \A k \in Env \ {TargetEnv(q)} : pl'.status.waiting[k] = pl.status.waiting[k]]_vars

\* "Reseting waiting approval after promotion is done": an approval takes a
\* revision off the status only when its own has been promoted, whatever calls
\* fail and wherever the process ends, so that no approved revision is neither
\* promoted nor waiting any more (ServeHTTP, resetWaitingApproval).  What it
\* takes off is what waits by then, which may be a later revision.
ResetOnlyPromoted ==
    [][\A q \in Req : input[q].kind = "approval" /\ req'[q] # req[q] /\ pl' # pl =>
          <<q, TargetEnv(q), input[q].rev>> \in promoted]_vars

\* The environment's revision "that's currently waiting approval" is the
\* handlers' business: a reconciliation never changes it (patchStatus of the
\* edge-triggered, Reconcile of the level-triggered controller).
ReconcilerKeepsWaiting ==
    [][rec' # rec => \A k \in Env :
          GetWaitingApproval(pl'.status, k) = GetWaitingApproval(pl.status, k)]_vars

=============================================================================
