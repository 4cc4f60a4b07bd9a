-------------------------- MODULE MCCacheLifecycle --------------------------
(***************************************************************************)
(* Small instances of CacheLifecycle.                                      *)
(***************************************************************************)
EXTENDS CacheLifecycle, TLC

CONSTANTS k1, p1, p2, w1, w2

\* Pipelines that share a key
Shared == p1 :> k1 @@ p2 :> k1
\* one Pipeline
Only == p1 :> k1
=============================================================================
