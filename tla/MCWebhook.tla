------------------------------ MODULE MCWebhook ------------------------------
(***************************************************************************)
(* Small instances of Webhook.                                             *)
(***************************************************************************)
EXTENDS Webhook, TLC

CONSTANTS auto, manual, none, q1, q2, q3

NoOverride == [k \in 1..NumEnvs |-> none]
LastManual == [k \in 1..NumEnvs |-> IF k = NumEnvs THEN manual ELSE none]

Promotion(env, rev, defect) ==
    [kind |-> "promotion", env |-> env, rev |-> rev, defect |-> defect]
Approval(env, rev, defect) ==
    [kind |-> "approval", env |-> env, rev |-> rev, defect |-> defect]

\* promotions to and approvals for the environment k
Good(k) == {Promotion(k - 1, r, "none") : r \in 1..MaxRev}
           \cup {Approval(k, r, "none") : r \in 1..MaxRev}

\* everything that can be wrong with a request: its form, its environment,
\* its revision
Odd == {Promotion(2, 1, d) : d \in Defect \ {"none"}}
       \cup {Approval(3, 1, d) : d \in {"method", "path", "pipeline", "signature"}}
       \cup {Promotion(k, 1, "none") : k \in {0, 3}} \cup {Promotion(2, 0, "none")}
       \cup {Approval(k, 1, "none") : k \in {0, 2}}

\* of three environments, the last is manual: requests for it, one of which
\* may be odd or for the one before
MixedTraffic ==
    LET Usual(i) == i \in Good(3)
    IN  {t \in [Req -> Good(3) \cup Good(2) \cup Odd] :
            \A p, q \in Req : Usual(t[p]) \/ Usual(t[q]) \/ p = q}

\* of two environments, the last is manual: requests for it
ManualTraffic == [Req -> Good(2)]

ReqSymmetry == Permutations(Req)
=============================================================================
