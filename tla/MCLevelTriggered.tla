-------------------------- MODULE MCLevelTriggered --------------------------
(***************************************************************************)
(* Small instances of LevelTriggered.                                      *)
(***************************************************************************)
EXTENDS LevelTriggered

CONSTANTS p1, p2, none, mgmt, leaf

\* dev with two targets, then prod with one
DevDevProd == <<1, 1, 2>>
\* dev and prod with one target each
DevProd == <<1, 2>>

AllLocal == [t \in 1..NumTargets |-> mgmt]
LastRemote == [t \in 1..NumTargets |-> IF t = NumTargets THEN leaf ELSE mgmt]

NoOverride == [k \in 1..NumEnvs |-> none]
OverrideLast == [k \in 1..NumEnvs |-> IF k = NumEnvs THEN p2 ELSE none]

Running == [phase |-> "ready", rev |-> 1]
AllRunning == [t \in 1..NumTargets |-> {Running}]
DevAhead ==
    [t \in 1..NumTargets |->
        {[phase |-> "ready", rev |-> IF EnvOf[t] = 1 THEN 2 ELSE 1]}]

\* Bound of the liveness run: one thing goes wrong, inside or outside; after an
\* application has been deleted, something else may too.  Nothing obliges
\* things to go wrong or the application to come back, so no behaviour is cut
\* off where it must go on.
OneTrouble == disruptions + faults <= 1 \/ \E t \in Target : app[t].phase = "absent"
=============================================================================
