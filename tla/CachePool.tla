------------------------------ MODULE CachePool ------------------------------
(***************************************************************************)
(* What the caches and their collector are to the rest of the controller:  *)
(* a pool with at most one cache per key, from which a cache goes only if  *)
(* there was a moment in its own life when no Pipeline used its key.  How  *)
(* workers, mutex, workqueue and collector arrange that is left to         *)
(* CacheLifecycle, which implements this with one worker.                  *)
(*                                                                         *)
(* The moment (Condemn) and the removal (Close) are apart: a Pipeline that *)
(* comes to use the key in between loses the cache.  What the pool rules   *)
(* out is that a later cache goes in its place.                            *)
(***************************************************************************)
EXTENDS Naturals

CONSTANT Key

VARIABLES
    used,       \* keys that some Pipeline uses
    pool,       \* key -> its cache, or none
    issued,     \* number of caches made so far; they are numbered
    condemned   \* caches that are to go

vars == <<used, pool, issued, condemned>>

None == 0

Init ==
    /\ used = {}
    /\ pool = [k \in Key |-> None]
    /\ issued = 0
    /\ condemned = {}

\* Pipelines come and go.
Use ==
    /\ used' \subseteq Key
    /\ UNCHANGED <<pool, issued, condemned>>

Open(k) ==
    /\ pool[k] = None
    /\ issued' = issued + 1
    /\ pool' = [pool EXCEPT ![k] = issued + 1]
    /\ UNCHANGED <<used, condemned>>

Condemn(k) ==
    /\ k \notin used
    /\ pool[k] # None
    /\ condemned' = condemned \cup {pool[k]}
    /\ UNCHANGED <<used, pool, issued>>

Close(k) ==
    /\ pool[k] \in condemned
    /\ pool' = [pool EXCEPT ![k] = None]
    /\ condemned' = condemned \ {pool[k]}
    /\ UNCHANGED <<used, issued>>

Next ==
    \/ Use
    \/ \E k \in Key : Open(k) \/ Condemn(k) \/ Close(k)

Spec == Init /\ [][Next]_vars

=============================================================================
