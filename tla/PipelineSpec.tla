---------------------------- MODULE PipelineSpec ----------------------------
(***************************************************************************)
(* The part of a Pipeline's spec that the controllers and the webhook      *)
(* handlers branch on (api/v1alpha1/pipeline_types.go): an ordered list of *)
(* environments and the promotion settings, given for the whole pipeline   *)
(* and optionally overridden per environment.                              *)
(*                                                                         *)
(* An environment is its position in spec.environments, a revision is its  *)
(* position in the order in which revisions are built; 0 is the empty      *)
(* string, "no revision".  The settings do not change during a behaviour.  *)
(***************************************************************************)
EXTENDS Integers

CONSTANTS
    NumEnvs,           \* len(spec.environments)
    MaxRev,            \* bound: revisions 1..MaxRev are ever built
    Promotions,        \* the *Promotion values that appear in the spec
    Manual,            \* those of them whose .Manual is true
    Nil,               \* a nil *Promotion
    DefaultPromotion,  \* spec.promotion
    EnvPromotion       \* spec.environments[k].promotion

Env == 1..NumEnvs
Revision == 1..MaxRev
NoRevision == 0

ASSUME PipelineSpecAssumption ==
    /\ NumEnvs \in Nat \ {0}
    /\ MaxRev \in Nat
    /\ Manual \subseteq Promotions
    /\ Nil \notin Promotions
    /\ DefaultPromotion \in Promotions \cup {Nil}
    /\ EnvPromotion \in [Env -> Promotions \cup {Nil}]

GetPromotion(env) ==
    IF EnvPromotion[env] # Nil THEN EnvPromotion[env] ELSE DefaultPromotion

=============================================================================
