------------------------ MODULE CacheLifecycleProofs ------------------------
(***************************************************************************)
(* Proofs about the caches' life cycle, for any numbers of keys, Pipelines *)
(* and workers.                                                            *)
(***************************************************************************)
EXTENDS CacheLifecycle, TLAPS

-----------------------------------------------------------------------------
(***************************************************************************)
(* Types.                                                                  *)
(***************************************************************************)

\* A worker between two reconciliations.
LEMMA ParkedType == Parked \in Position /\ Parked.pc = "idle"
BY DEF Parked, Position, NoCache

\* A worker moves on and, if it has got hold of a cache, keeps it; caches may
\* be added meanwhile.
LEMMA MoveType ==
    ASSUME TypeOK, created' \in Nat, created <= created',
           NEW w \in Worker, NEW x \in Position, work' = [work EXCEPT ![w] = x],
           x.pc # "idle" => x.pipe \in Pipe,
           x.pc \in HasCache => x.cache \in 1..created'
    PROVE  /\ work' \in [Worker -> Position]
           /\ \A v \in Worker : work'[v].pc # "idle" => work'[v].pipe \in Pipe
           /\ \A v \in Worker : work'[v].pc \in HasCache => work'[v].cache \in 1..created'
<1>1. \A v \in Worker : work'[v] = IF v = w THEN x ELSE work[v]
  BY DEF TypeOK
<1>2. \A v \in Worker : work[v].pc \in HasCache => work[v].cache \in 1..created'
  BY DEF TypeOK
<1> QED BY <1>1, <1>2 DEF TypeOK

\* Going on in the same call.
LEMMA GotoMoves ==
    ASSUME TypeOK, NEW w \in Worker, work[w].pc # "idle",
           NEW pc \in {"create", "run", "informer", "wait", "handler"}, Goto(w, pc)
    PROVE  LET x == [work[w] EXCEPT !.pc = pc]
           IN  /\ work' = [work EXCEPT ![w] = x]
               /\ x \in Position /\ x.pc = pc
               /\ x.pipe = work[w].pipe /\ x.pipe \in Pipe
               /\ x.cache = work[w].cache
<1>1. work[w] \in Position /\ work[w].pipe \in Pipe
  BY DEF TypeOK
<1> QED BY <1>1 DEF Goto, Position

\* The types hold at the start.
LEMMA TypeInit == Init => TypeOK
<1> SUFFICES ASSUME Init PROVE TypeOK
  OBVIOUS
<1>1. /\ work \in [Worker -> Position]
      /\ \A w \in Worker : work[w].pc = "idle"
  BY ParkedType DEF Init
<1> QED BY <1>1, CacheLifecycleAssumption DEF Init, TypeOK, NoCache, HasCache

\* The steps of the workers keep the types.
LEMMA TypeWorker ==
    ASSUME TypeOK, NEW w \in Worker,
           \/ \E p \in Pipe : StartReconcile(w, p)
           \/ WatchTarget(w)
           \/ WatchFails(w)
    PROVE  TypeOK'
<1> USE DEF users, reqs, store, entries, informers, workqueue, faults
<1>0. /\ work[w] \in Position /\ created \in Nat
      /\ work[w].pc # "idle" => work[w].pipe \in Pipe /\ KeyFor(w) \in Key
      /\ work[w].pc \in HasCache => work[w].cache \in 1..created
  BY CacheLifecycleAssumption DEF TypeOK, KeyFor
<1> DEFINE Placed ==
        /\ work' \in [Worker -> Position]
        /\ \A v \in Worker : work'[v].pc # "idle" => work'[v].pipe \in Pipe
        /\ \A v \in Worker : work'[v].pc \in HasCache => work'[v].cache \in 1..created'
<1>1. ASSUME NEW x \in Position, work' = [work EXCEPT ![w] = x],
             created' = created,
             x.pc # "idle" => x.pipe \in Pipe,
             x.pc \in HasCache => x.cache \in 1..created
      PROVE  Placed
  <2>1. created' \in Nat /\ created <= created'
    BY <1>0, <1>1
  <2>2. x.pc \in HasCache => x.cache \in 1..created'
    BY <1>1
  <2> QED BY <1>1, <2>1, <2>2, MoveType
<1>a. ASSUME NEW pc \in {"create", "run", "informer", "wait", "handler"}, Goto(w, pc),
             work[w].pc # "idle", created' = created,
             pc \in HasCache => work[w].pc \in HasCache
      PROVE  Placed
  <2> DEFINE x == [work[w] EXCEPT !.pc = pc]
  <2>1. /\ work' = [work EXCEPT ![w] = x] /\ x \in Position /\ x.pc = pc
        /\ x.pipe \in Pipe /\ x.cache = work[w].cache
    BY <1>a, GotoMoves
  <2> HIDE DEF x
  <2> QED BY <1>0, <1>1, <1>a, <2>1
<1>2. ASSUME NEW p \in Pipe, StartReconcile(w, p) PROVE TypeOK'
  <2>1. Placed
    <3> DEFINE x == [pc |-> "lookup", pipe |-> p, found |-> FALSE, cache |-> NoCache]
    <3>1. x \in Position /\ x.pipe \in Pipe /\ x.pc = "lookup" /\ "lookup" \notin HasCache
      BY DEF Position, NoCache, HasCache
    <3>2. (work' = [work EXCEPT ![w] = x] \/ work' = work) /\ created' = created
      BY <1>2 DEF StartReconcile
    <3> HIDE DEF x
    <3>3. CASE work' = [work EXCEPT ![w] = x]
      BY <1>1, <3>1, <3>2, <3>3
    <3>4. CASE work' = work
      BY <3>2, <3>4 DEF TypeOK
    <3> QED BY <3>2, <3>3, <3>4
  <2> HIDE DEF Placed
  <2>2. requests' \subseteq Pipe
    BY <1>2 DEF StartReconcile, TypeOK
  <2> QED BY <1>2, <2>1, <2>2 DEF StartReconcile, TypeOK, Placed
<1>3. CASE LookupCache(w)
  <2> DEFINE entry == cachesMap[KeyFor(w)]
             x == [work[w] EXCEPT
                     !.pc = IF entry = NoCache THEN "config" ELSE "informer",
                     !.found = entry # NoCache,
                     !.cache = entry]
  <2>1. work[w].pipe \in Pipe /\ entry \in 0..created /\ created' = created
    BY <1>0, <1>3 DEF LookupCache, TypeOK
  <2>2. x \in Position /\ x.pipe \in Pipe
    <3>1. entry \in Nat
      BY <1>0, <2>1
    <3> QED BY <1>0, <2>1, <3>1 DEF Position
  <2>3. x.pc \in HasCache => x.cache \in 1..created
    <3>1. /\ x.cache = entry
          /\ x.pc = IF entry = NoCache THEN "config" ELSE "informer"
      BY <1>0 DEF Position
    <3> QED BY <1>0, <2>1, <3>1 DEF HasCache, NoCache
  <2>4. work' = [work EXCEPT ![w] = x]
    BY <1>3 DEF LookupCache
  <2>5. Placed
    <3> HIDE DEF x
    <3> QED BY <1>1, <2>1, <2>2, <2>3, <2>4
  <2> QED BY <1>3, <2>5 DEF LookupCache, TypeOK
<1>4. CASE GetConfig(w)
  <2>1. Placed
    BY <1>4, <1>a DEF GetConfig, HasCache
  <2> QED BY <1>4, <2>1 DEF GetConfig, TypeOK
<1>5. CASE LockAndRecheck(w)
  <2> DEFINE entry == cachesMap[KeyFor(w)]
  <2>1. CASE entry = NoCache
    <3>1. Goto(w, "run") /\ cachesMu' = w /\ created' = created
      BY <1>5, <2>1 DEF LockAndRecheck
    <3>2. Placed
      BY <1>5, <1>a, <3>1 DEF LockAndRecheck, HasCache
    <3> QED BY <1>5, <3>1, <3>2 DEF LockAndRecheck, TypeOK
  <2>2. CASE entry # NoCache
    <3> DEFINE x == [work[w] EXCEPT !.pc = "register", !.found = TRUE, !.cache = entry]
    <3>1. work[w].pipe \in Pipe /\ entry \in 1..created
      BY <1>0, <1>5, <2>2 DEF LockAndRecheck, TypeOK, NoCache
    <3>2. x \in Position /\ x.pipe \in Pipe /\ x.cache = entry
      <4>1. entry \in Nat
        BY <1>0, <3>1
      <4> QED BY <1>0, <3>1, <4>1 DEF Position
    <3>3. work' = [work EXCEPT ![w] = x] /\ cachesMu' = cachesMu /\ created' = created
      BY <1>5, <2>2 DEF LockAndRecheck
    <3>4. Placed
      <4> HIDE DEF x, entry
      <4> QED BY <1>1, <3>1, <3>2, <3>3
    <3> QED BY <1>5, <3>3, <3>4 DEF LockAndRecheck, TypeOK
  <2> QED BY <2>1, <2>2
<1>6. CASE RunCache(w)
  <2> DEFINE x == [work[w] EXCEPT !.pc = "register", !.cache = created + 1]
  <2>1. work[w].pipe \in Pipe /\ KeyFor(w) \in Key /\ created + 1 \in Nat
    BY <1>0, <1>6 DEF RunCache
  <2>2. x \in Position /\ x.pipe \in Pipe /\ x.cache = created + 1
    BY <1>0, <2>1 DEF Position
  <2>3. work' = [work EXCEPT ![w] = x] /\ created' = created + 1
    BY <1>6 DEF RunCache
  <2>4. Placed
    <3> HIDE DEF x
    <3>1. created' \in Nat /\ created <= created'
      BY <1>0, <2>3
    <3>2. x.cache \in 1..created'
      BY <1>0, <2>2, <2>3
    <3> QED BY <2>2, <2>3, <3>1, <3>2, MoveType
  <2>5. /\ cachesMap' \in [Key -> 0..created'] /\ running' \subseteq 1..created'
    BY <1>0, <1>6, <2>1, <2>3 DEF RunCache, TypeOK
  <2>6. started' \cup informed' \cup handled' \subseteq 1..created'
    BY <1>0, <1>6, <2>3 DEF RunCache, TypeOK
  <2> QED BY <1>6, <2>1, <2>3, <2>4, <2>5, <2>6 DEF RunCache, TypeOK
<1>7. CASE Register(w)
  <2>1. KeyFor(w) \in Key
    BY <1>0, <1>7 DEF Register
  <2>2. Placed
    BY <1>7, <1>a DEF Register, HasCache
  <2> QED BY <1>7, <2>1, <2>2 DEF Register, Add, TypeOK
<1>8. ASSUME Succeed(w) \/ Fail(w), work[w].pc # "idle", created' = created
      PROVE  Placed /\ reported' \subseteq Pipe /\ requests' \subseteq Pipe
  <2>1. work' = [work EXCEPT ![w] = Parked]
    BY <1>8 DEF Succeed, Fail
  <2>2. Placed
    BY <1>1, <1>8, <2>1, ParkedType DEF HasCache
  <2> QED BY <1>0, <1>8, <2>2 DEF Succeed, Fail, TypeOK
<1>9. CASE GetInformer(w)
  <2>1. work[w].cache \in 1..created
    BY <1>0, <1>9 DEF GetInformer, HasCache
  <2>2. Placed
    <3>1. PICK pc \in {"wait", "handler"} : Goto(w, pc)
      BY <1>9 DEF GetInformer
    <3> QED BY <1>9, <1>a, <3>1 DEF GetInformer, HasCache
  <2>3. informed' \subseteq 1..created /\ informed \subseteq informed'
    BY <1>9, <2>1 DEF GetInformer, TypeOK
  <2> QED BY <1>9, <2>2, <2>3 DEF GetInformer, TypeOK
<1>10. CASE AwaitSync(w)
  <2>1. CASE Goto(w, "handler") /\ UNCHANGED reqs
    <3>1. Placed
      BY <1>10, <1>a, <2>1 DEF AwaitSync, HasCache
    <3> QED BY <1>10, <2>1, <3>1 DEF AwaitSync, TypeOK
  <2>2. CASE Fail(w)
    <3>1. Placed /\ reported' \subseteq Pipe /\ requests' \subseteq Pipe
      BY <1>8, <1>10, <2>2 DEF AwaitSync
    <3> QED BY <1>10, <3>1 DEF AwaitSync, TypeOK
  <2> QED BY <1>10, <2>1, <2>2 DEF AwaitSync
<1>11. CASE InstallHandler(w)
  <2>1. Placed /\ reported' \subseteq Pipe /\ requests' \subseteq Pipe
    BY <1>8, <1>11 DEF InstallHandler
  <2>2. work[w].cache \in 1..created
    BY <1>0, <1>11 DEF InstallHandler, HasCache
  <2>3. handled' \subseteq 1..created
    BY <1>11, <2>2 DEF InstallHandler, TypeOK
  <2> QED BY <1>11, <2>1, <2>3 DEF InstallHandler, TypeOK
<1>12. CASE WatchFails(w)
  <2>1. Placed /\ reported' \subseteq Pipe /\ requests' \subseteq Pipe
    BY <1>8, <1>12 DEF WatchFails
  <2>2. errors' \in 0..MaxErrors
    BY <1>12, CacheLifecycleAssumption DEF WatchFails, TypeOK
  <2> QED BY <1>12, <2>1, <2>2 DEF WatchFails, TypeOK
<1> QED BY <1>2, <1>3, <1>4, <1>5, <1>6, <1>7, <1>9, <1>10, <1>11, <1>12 DEF WatchTarget

\* The steps of the collector, the manager and the users keep the types.
LEMMA TypeOthers ==
    ASSUME TypeOK,
           \/ \E c \in 1..created : StartCache(c)
           \/ \E k \in Key : InformerSync(k)
           \/ \E k \in Key : TakeKey(k)
           \/ \E k \in Key : DelayElapsed(k)
           \/ CheckKey \/ CheckFails \/ RemoveCache \/ ExitLoop
           \/ StartRunner \/ Shutdown
           \/ \E p \in Pipe : CreatePipeline(p) \/ TouchPipeline(p) \/ DeletePipeline(p)
    PROVE  TypeOK'
<1> USE DEF users, reqs, store, entries, informers, workqueue, faults
<1>1. ASSUME NEW k \in Key, TakeKey(k) PROVE TypeOK'
  BY <1>1 DEF TakeKey, TypeOK
<1>2. ASSUME NEW k \in Key, DelayElapsed(k) PROVE TypeOK'
  BY <1>2 DEF DelayElapsed, TypeOK
<1>3. CASE CheckKey
  <2>1. gc.key \in Key
    BY <1>3 DEF CheckKey, KeepUsed, GiveUpUnused, TypeOK
  <2>2. /\ queue' \subseteq Key /\ dirty' \subseteq Key
        /\ processing' \subseteq Key /\ delayed' \subseteq Key
    BY <1>3, <2>1 DEF CheckKey, KeepUsed, GiveUpUnused, FinishKey, TypeOK
  <2>3. /\ gc' \in [pc : {"get", "check", "remove", "exited"}, key : Key \cup {NoKey}]
        /\ (gc'.pc \in {"check", "remove"} => gc'.key \in Key)
    <3>1. CASE KeepUsed
      BY <3>1 DEF KeepUsed
    <3>2. CASE GiveUpUnused
      <4>1. gc' = [pc |-> "remove", key |-> gc.key]
        BY <3>2 DEF GiveUpUnused, TypeOK
      <4> QED BY <2>1, <4>1
    <3> QED BY <1>3, <3>1, <3>2 DEF CheckKey
  <2> QED BY <1>3, <2>2, <2>3 DEF CheckKey, KeepUsed, GiveUpUnused, TypeOK
<1>4. CASE CheckFails
  BY <1>4, CacheLifecycleAssumption DEF CheckFails, TypeOK
<1>5. CASE RemoveCache
  <2>1. cachesMap' \in [Key -> 0..created]
    BY <1>5 DEF RemoveCache, TypeOK, NoCache
  <2> QED BY <1>5, <2>1 DEF RemoveCache, TypeOK
<1>6. CASE ExitLoop
  BY <1>6 DEF ExitLoop, TypeOK
<1>7. CASE StartRunner \/ Shutdown
  BY <1>7 DEF StartRunner, Shutdown, TypeOK
<1>8. ASSUME NEW p \in Pipe, CreatePipeline(p) \/ TouchPipeline(p) \/ DeletePipeline(p)
      PROVE  TypeOK'
  BY <1>8 DEF CreatePipeline, TouchPipeline, DeletePipeline, TypeOK
<1>9. CASE \/ \E c \in 1..created : StartCache(c)
           \/ \E k \in Key : InformerSync(k)
  BY <1>9 DEF StartCache, InformerSync, TypeOK
<1> QED BY <1>1, <1>2, <1>3, <1>4, <1>5, <1>6, <1>7, <1>8, <1>9

\* Every variable always has the shape the code gives it; in particular a
\* worker never goes on to use a cache it does not have
\* (watchTargetAndGetReader).
THEOREM TypeCorrect == Spec => []TypeOK
<1>1. TypeOK /\ [Next]_vars => TypeOK'
  <2> SUFFICES ASSUME TypeOK, [Next]_vars PROVE TypeOK'
    OBVIOUS
  <2>1. CASE UNCHANGED vars
    BY <2>1 DEF vars, TypeOK
  <2>2. CASE Next
    BY <2>2, TypeWorker, TypeOthers DEF Next
  <2> QED BY <2>1, <2>2
<1> QED BY <1>1, TypeInit, PTL DEF Spec

-----------------------------------------------------------------------------
(***************************************************************************)
(* The caches: what is in the map is running and accounted for.            *)
(***************************************************************************)

\* The mutex is held by the worker that is in runner.run, and meanwhile the
\* map has no entry for its key.
MutexGuards ==
    /\ \A w \in Worker : cachesMu = w <=> work[w].pc = "run"
    /\ \A w \in Worker : work[w].pc = "run" => cachesMap[KeyFor(w)] = NoCache

\* Caches are numbered as they are created, and no two keys have the same.
Numbered ==
    /\ \A k \in Key : cachesMap[k] <= created
    /\ \A j, k \in Key : cachesMap[j] = cachesMap[k] => j = k \/ cachesMap[j] = NoCache

\* The key that is being checked is in processing, and every other key there
\* is one whose check has failed.
TakenIsProcessed ==
    /\ gc.pc = "check" => gc.key \in processing
    /\ \A k \in processing \ abandoned : gc.pc = "check" /\ gc.key = k

\* the inductive invariant
CacheInv ==
    /\ TypeOK
    /\ MutexGuards
    /\ Numbered
    /\ TakenIsProcessed
    /\ Accounted
    /\ RunningIffMapped

\* Only a worker that is in runner.run changes the map, or the collector when
\* nobody holds the mutex.
LEMMA MutexStep ==
    ASSUME CacheInv, [Next]_vars
    PROVE  MutexGuards'
<1> USE DEF CacheInv, users, reqs, store, entries, informers, workqueue, faults
<1>0. \A w \in Worker : work[w] \in Position /\ Unlocked # w
  BY CacheLifecycleAssumption DEF TypeOK
<1>1. CASE work' = work /\ cachesMu' = cachesMu /\ cachesMap' = cachesMap
  BY <1>1 DEF MutexGuards, KeyFor
<1>2. ASSUME NEW w \in Worker, NEW x \in Position, work' = [work EXCEPT ![w] = x],
             x.pc # "run", work[w].pc # "run",
             cachesMu' = cachesMu, cachesMap' = cachesMap
      PROVE  MutexGuards'
  <2>1. \A v \in Worker : v # w => work'[v] = work[v]
    BY <1>2 DEF TypeOK
  <2>2. work'[w] = x
    BY <1>2 DEF TypeOK
  <2> QED BY <1>2, <2>1, <2>2 DEF MutexGuards, KeyFor
<1>3. ASSUME NEW w \in Worker, NEW p \in Pipe, StartReconcile(w, p)
      PROVE  MutexGuards'
  <2> DEFINE x == [pc |-> "lookup", pipe |-> p, found |-> FALSE, cache |-> NoCache]
  <2>1. x \in Position /\ x.pc = "lookup"
    BY DEF Position, NoCache
  <2>2. work' = [work EXCEPT ![w] = x] \/ work' = work
    BY <1>3 DEF StartReconcile
  <2>3. work[w].pc # "run" /\ cachesMu' = cachesMu /\ cachesMap' = cachesMap
    BY <1>3 DEF StartReconcile
  <2> HIDE DEF x
  <2> QED BY <1>1, <1>2, <2>1, <2>2, <2>3
<1>4. ASSUME NEW w \in Worker, LookupCache(w)
      PROVE  MutexGuards'
  <2> DEFINE entry == cachesMap[KeyFor(w)]
             x == [work[w] EXCEPT
                     !.pc = IF entry = NoCache THEN "config" ELSE "informer",
                     !.found = entry # NoCache,
                     !.cache = entry]
  <2>1. entry \in Nat
    BY <1>4, CacheLifecycleAssumption DEF LookupCache, TypeOK, KeyFor
  <2>2. x \in Position /\ x.pc # "run"
    BY <1>0, <2>1 DEF Position
  <2>3. work' = [work EXCEPT ![w] = x]
    BY <1>4 DEF LookupCache
  <2>4. work[w].pc # "run" /\ cachesMu' = cachesMu /\ cachesMap' = cachesMap
    BY <1>4 DEF LookupCache
  <2> HIDE DEF x
  <2> QED BY <1>2, <2>2, <2>3, <2>4
<1>5. ASSUME NEW w \in Worker,
             \/ GetConfig(w) \/ Register(w) \/ GetInformer(w)
             \/ AwaitSync(w) /\ Goto(w, "handler")
      PROVE  MutexGuards'
  <2>1. PICK pc \in {"create", "informer", "wait", "handler"} :
                work' = [work EXCEPT ![w].pc = pc]
    BY <1>5 DEF GetConfig, Register, GetInformer, Goto
  <2> DEFINE x == [work[w] EXCEPT !.pc = pc]
  <2>2. x \in Position /\ x.pc # "run"
    BY <1>0 DEF Position
  <2>3. work' = [work EXCEPT ![w] = x]
    BY <2>1
  <2>4. work[w].pc # "run" /\ cachesMu' = cachesMu /\ cachesMap' = cachesMap
    BY <1>5 DEF GetConfig, Register, GetInformer, AwaitSync
  <2> HIDE DEF x
  <2> QED BY <1>2, <2>2, <2>3, <2>4
<1>6. ASSUME NEW w \in Worker, LockAndRecheck(w)
      PROVE  MutexGuards'
  <2> DEFINE entry == cachesMap[KeyFor(w)]
  <2>1. CASE entry = NoCache
    <3>1. /\ cachesMu = Unlocked /\ cachesMu' = w /\ cachesMap' = cachesMap
          /\ work' = [work EXCEPT ![w].pc = "run"]
      BY <1>6, <2>1 DEF LockAndRecheck, Goto
    <3>2. /\ work'[w].pc = "run" /\ work'[w].pipe = work[w].pipe
          /\ \A v \in Worker : v # w => work'[v] = work[v]
      BY <1>0, <3>1 DEF TypeOK, Position
    <3>3. \A v \in Worker : work[v].pc # "run"
      BY <1>0, <3>1 DEF MutexGuards
    <3> QED BY <2>1, <3>1, <3>2, <3>3 DEF MutexGuards, KeyFor
  <2>2. CASE entry # NoCache
    <3> DEFINE x == [work[w] EXCEPT !.pc = "register", !.found = TRUE, !.cache = entry]
    <3>1. entry \in Nat
      BY <1>6, CacheLifecycleAssumption DEF LockAndRecheck, TypeOK, KeyFor
    <3>2. x \in Position /\ x.pc # "run"
      BY <1>0, <3>1 DEF Position
    <3>3. work' = [work EXCEPT ![w] = x] /\ cachesMu' = cachesMu
      BY <1>6, <2>2 DEF LockAndRecheck
    <3>4. work[w].pc # "run" /\ cachesMap' = cachesMap
      BY <1>6 DEF LockAndRecheck
    <3> HIDE DEF x
    <3> QED BY <1>2, <3>2, <3>3, <3>4
  <2> QED BY <2>1, <2>2
<1>7. ASSUME NEW w \in Worker, RunCache(w)
      PROVE  MutexGuards'
  <2>1. \A v \in Worker : work[v].pc = "run" => v = w
    BY <1>7 DEF RunCache, MutexGuards
  <2>2. /\ work'[w].pc = "register"
        /\ \A v \in Worker : v # w => work'[v] = work[v]
    BY <1>0, <1>7 DEF RunCache, TypeOK, Position
  <2>3. \A v \in Worker : work'[v].pc # "run"
    BY <2>1, <2>2
  <2>4. cachesMu' = Unlocked
    BY <1>7 DEF RunCache
  <2> QED BY <1>0, <2>3, <2>4 DEF MutexGuards
<1>8. ASSUME NEW w \in Worker,
             InstallHandler(w) \/ WatchFails(w) \/ (AwaitSync(w) /\ Fail(w))
      PROVE  MutexGuards'
  <2>1. work' = [work EXCEPT ![w] = Parked]
    BY <1>8 DEF InstallHandler, WatchFails, Succeed, Fail
  <2>2. work[w].pc # "run" /\ cachesMu' = cachesMu /\ cachesMap' = cachesMap
    BY <1>8 DEF InstallHandler, WatchFails, AwaitSync
  <2> QED BY <1>2, <2>1, <2>2, ParkedType
<1>9. CASE RemoveCache
  <2>1. work' = work /\ cachesMu' = cachesMu /\ cachesMu = Unlocked
    BY <1>9 DEF RemoveCache
  <2> QED BY <1>0, <2>1 DEF MutexGuards
<1>10. CASE \/ \E c \in 1..created : StartCache(c)
            \/ \E k \in Key : InformerSync(k) \/ TakeKey(k) \/ DelayElapsed(k)
            \/ CheckKey \/ CheckFails \/ ExitLoop \/ StartRunner \/ Shutdown
            \/ \E p \in Pipe : CreatePipeline(p) \/ TouchPipeline(p) \/ DeletePipeline(p)
            \/ UNCHANGED vars
  BY <1>1, <1>10 DEF StartCache, InformerSync, TakeKey, DelayElapsed, CheckKey, KeepUsed, GiveUpUnused, CheckFails,
        ExitLoop, StartRunner, Shutdown, CreatePipeline, TouchPipeline, DeletePipeline, vars
<1> QED BY <1>3, <1>4, <1>5, <1>6, <1>7, <1>8, <1>9, <1>10
        DEF Next, WatchTarget, AwaitSync

\* Only RunCache and RemoveCache change the map before shutdown, and they keep
\* the running caches in step with it.
LEMMA MapStep ==
    ASSUME CacheInv, [Next]_vars
    PROVE  Numbered' /\ RunningIffMapped'
<1> USE DEF CacheInv, users, reqs, store, entries, informers, workqueue, faults
<1>0. cachesMap \in [Key -> Nat] /\ created \in Nat /\ NoCache = 0
  BY DEF TypeOK, NoCache
<1>1. CASE /\ cachesMap' = cachesMap /\ running' = running /\ created' = created
           /\ runner' = "stopped" => runner = "stopped"
           /\ runner = "stopped" => runner' = "stopped"
  BY <1>1 DEF Numbered, RunningIffMapped
<1>2. ASSUME NEW w \in Worker, RunCache(w)
      PROVE  Numbered' /\ RunningIffMapped'
  <2> DEFINE K == KeyFor(w)
             n == created + 1
  <2>1. K \in Key /\ cachesMap[K] = NoCache
    BY <1>2, CacheLifecycleAssumption DEF RunCache, MutexGuards, TypeOK, KeyFor
  <2>2. /\ cachesMap' = [cachesMap EXCEPT ![K] = n] /\ running' = running \cup {n}
        /\ created' = n /\ runner' = runner /\ runner = "started"
    BY <1>2 DEF RunCache
  <2>3. \A k \in Key : cachesMap'[k] = IF k = K THEN n ELSE cachesMap[k]
    BY <1>0, <2>2
  <2>4. n \in Nat /\ n > created
    BY <1>0
  <2> HIDE DEF K, n
  <2>5. Numbered'
    BY <1>0, <2>1, <2>2, <2>3, <2>4 DEF Numbered
  <2>6. running = {cachesMap[k] : k \in Key} \ {NoCache}
    BY <2>2 DEF RunningIffMapped
  <2>7. {cachesMap'[k] : k \in Key} \ {NoCache}
            = ({cachesMap[k] : k \in Key} \ {NoCache}) \cup {n}
    BY <1>0, <2>1, <2>3, <2>4
  <2>8. RunningIffMapped'
    BY <2>2, <2>6, <2>7 DEF RunningIffMapped
  <2> QED BY <2>5, <2>8
<1>3. CASE RemoveCache
  <2> DEFINE K == gc.key
             old == cachesMap[K]
  <2>1. K \in Key
    BY <1>3 DEF RemoveCache, TypeOK
  <2>2. /\ cachesMap' = [cachesMap EXCEPT ![K] = NoCache] /\ running' = running \ {old}
        /\ created' = created /\ runner' = runner
    BY <1>3 DEF RemoveCache
  <2>3. \A k \in Key : cachesMap'[k] = IF k = K THEN NoCache ELSE cachesMap[k]
    BY <1>0, <2>2
  <2> HIDE DEF K
  <2>4. Numbered'
    BY <1>0, <2>1, <2>2, <2>3 DEF Numbered
  <2>5. {cachesMap'[k] : k \in Key} \ {NoCache}
            = ({cachesMap[k] : k \in Key} \ {NoCache}) \ {old}
    <3>1. \A k \in Key : cachesMap[k] = old => k = K \/ old = NoCache
      BY <2>1 DEF Numbered
    <3> HIDE DEF old
    <3>2. cachesMap[K] = old
      BY DEF old
    <3> QED BY <2>1, <2>3, <3>1, <3>2
  <2>6. RunningIffMapped'
    BY <2>2, <2>5 DEF RunningIffMapped
  <2> QED BY <2>4, <2>6
<1>4. CASE Shutdown
  BY <1>4 DEF Shutdown, Numbered, RunningIffMapped
<1>5. ASSUME NEW w \in Worker,
             \/ \E p \in Pipe : StartReconcile(w, p)
             \/ LookupCache(w) \/ GetConfig(w) \/ LockAndRecheck(w)
             \/ Register(w) \/ GetInformer(w) \/ AwaitSync(w)
             \/ InstallHandler(w) \/ WatchFails(w)
      PROVE  Numbered' /\ RunningIffMapped'
  BY <1>1, <1>5 DEF StartReconcile, LookupCache, GetConfig, LockAndRecheck, Register,
                    GetInformer, AwaitSync, InstallHandler, WatchFails
<1>6. CASE \/ \E c \in 1..created : StartCache(c)
           \/ \E k \in Key : InformerSync(k) \/ TakeKey(k) \/ DelayElapsed(k)
           \/ CheckKey \/ CheckFails \/ ExitLoop \/ StartRunner
           \/ \E p \in Pipe : CreatePipeline(p) \/ TouchPipeline(p) \/ DeletePipeline(p)
           \/ UNCHANGED vars
  BY <1>1, <1>6 DEF StartCache, InformerSync, TakeKey, DelayElapsed, CheckKey, KeepUsed, GiveUpUnused, CheckFails,
        ExitLoop, StartRunner, CreatePipeline, TouchPipeline, DeletePipeline, vars
<1> QED BY <1>2, <1>3, <1>4, <1>5, <1>6 DEF Next, WatchTarget

\* The key that is being checked stays in processing until the loop is done
\* with it, or abandons it.
LEMMA TakenStep ==
    ASSUME CacheInv, [Next]_vars
    PROVE  TakenIsProcessed'
<1> USE DEF CacheInv, users, reqs, store, entries, informers, workqueue, faults
<1>1. CASE gc' = gc /\ processing' = processing /\ abandoned' = abandoned
  BY <1>1 DEF TakenIsProcessed
<1>2. ASSUME NEW k \in Key, TakeKey(k) PROVE TakenIsProcessed'
  BY <1>2 DEF TakeKey, TakenIsProcessed
<1>3. CASE KeepUsed \/ GiveUpUnused
  <2>1. processing' = processing \ {gc.key} /\ abandoned' = abandoned
    BY <1>3 DEF KeepUsed, GiveUpUnused, FinishKey
  <2>2. gc'.pc # "check"
    <3>1. CASE KeepUsed
      BY <3>1 DEF KeepUsed
    <3>2. CASE GiveUpUnused
      BY <3>2 DEF GiveUpUnused, TypeOK
    <3> QED BY <1>3, <3>1, <3>2
  <2> QED BY <2>1, <2>2 DEF TakenIsProcessed
<1>4. CASE CheckFails
  BY <1>4 DEF CheckFails, TakenIsProcessed
<1>5. CASE RemoveCache \/ ExitLoop
  <2>1. gc.pc # "check" /\ processing' = processing /\ abandoned' = abandoned
    BY <1>5 DEF RemoveCache, ExitLoop
  <2>2. gc'.pc # "check"
    <3>1. CASE RemoveCache
      BY <3>1 DEF RemoveCache
    <3>2. CASE ExitLoop
      BY <3>2 DEF ExitLoop, TypeOK
    <3> QED BY <1>5, <3>1, <3>2
  <2> QED BY <2>1, <2>2 DEF TakenIsProcessed
<1>6. ASSUME NEW w \in Worker,
             \/ \E p \in Pipe : StartReconcile(w, p)
             \/ WatchTarget(w) \/ WatchFails(w)
      PROVE  TakenIsProcessed'
  BY <1>1, <1>6 DEF StartReconcile, WatchTarget, LookupCache, GetConfig, LockAndRecheck,
        RunCache, Register, Add, GetInformer, AwaitSync, InstallHandler, WatchFails
<1>7. CASE \/ \E c \in 1..created : StartCache(c)
           \/ \E k \in Key : InformerSync(k) \/ DelayElapsed(k)
           \/ StartRunner \/ Shutdown
           \/ \E p \in Pipe : CreatePipeline(p) \/ TouchPipeline(p) \/ DeletePipeline(p)
           \/ UNCHANGED vars
  BY <1>1, <1>7 DEF StartCache, InformerSync, DelayElapsed, StartRunner, Shutdown,
        CreatePipeline, TouchPipeline, DeletePipeline, vars
<1> QED BY <1>2, <1>3, <1>4, <1>5, <1>6, <1>7 DEF Next, CheckKey

\* the part of Accounted that is about key k
Held(k) ==
    \/ k \in queue \cup delayed
    \/ gc.pc \in {"check", "remove"} /\ gc.key = k
    \/ \E w \in Worker : work[w].pc = "register" /\ KeyFor(w) = k

\* The worker hands its key to the collector, and the collector hands it from
\* one place to the next; none of them lets go of the key of a cache.
LEMMA AccountedStep ==
    ASSUME CacheInv, [Next]_vars
    PROVE  Accounted'
<1> USE DEF CacheInv, users, reqs, store, entries, informers, workqueue, faults
<1> SUFFICES ASSUME runner' # "stopped", NEW k \in Key, k \notin abandoned',
                    cachesMap'[k] # NoCache
             PROVE  Held(k)'
  BY DEF Accounted, Held
<1>0. runner # "stopped" /\ k \notin abandoned
  BY DEF Next, StartReconcile, WatchTarget, LookupCache, GetConfig, LockAndRecheck,
         RunCache, Register, GetInformer, AwaitSync, InstallHandler, WatchFails,
         StartCache, InformerSync, TakeKey, DelayElapsed, CheckKey,
         KeepUsed, GiveUpUnused, CheckFails, RemoveCache, ExitLoop, StartRunner, Shutdown,
         CreatePipeline, TouchPipeline, DeletePipeline, vars
<1>1. cachesMap[k] # NoCache => Held(k)
  BY <1>0 DEF Accounted, Held
<1>b. k \in processing => gc.pc = "check" /\ gc.key = k
  BY <1>0 DEF TakenIsProcessed
<1>2. \A w \in Worker : work[w] \in Position
  BY DEF TypeOK
<1>3. ASSUME cachesMap' = cachesMap, gc' = gc,
             queue \subseteq queue', delayed \subseteq delayed',
             \A w \in Worker : work[w].pc = "register" => work'[w] = work[w]
      PROVE  Held(k)'
  BY <1>1, <1>3 DEF Held, KeyFor
<1>4. ASSUME NEW w \in Worker, NEW x, work' = [work EXCEPT ![w] = x],
             work[w].pc # "register",
             cachesMap' = cachesMap, gc' = gc, UNCHANGED workqueue
      PROVE  Held(k)'
  BY <1>3, <1>4 DEF TypeOK
<1>5. ASSUME NEW w \in Worker, NEW p \in Pipe, StartReconcile(w, p) PROVE Held(k)'
  <2>1. work[w].pc = "idle" /\ cachesMap' = cachesMap /\ gc' = gc /\ UNCHANGED workqueue
    BY <1>5 DEF StartReconcile
  <2>2. work' = work \/ \E x : work' = [work EXCEPT ![w] = x]
    BY <1>5 DEF StartReconcile
  <2> QED BY <1>3, <1>4, <2>1, <2>2
<1>6. ASSUME NEW w \in Worker,
             LookupCache(w) \/ GetConfig(w) \/ LockAndRecheck(w)
             \/ GetInformer(w) \/ AwaitSync(w) \/ InstallHandler(w) \/ WatchFails(w)
      PROVE  Held(k)'
  <2>1. /\ work[w].pc # "register" /\ cachesMap' = cachesMap
        /\ gc' = gc /\ UNCHANGED workqueue
    BY <1>6 DEF LookupCache, GetConfig, LockAndRecheck, GetInformer, AwaitSync,
                InstallHandler, WatchFails
  <2>2. \E x : work' = [work EXCEPT ![w] = x]
    BY <1>6 DEF LookupCache, GetConfig, LockAndRecheck, GetInformer, AwaitSync,
                InstallHandler, WatchFails, Goto, Succeed, Fail
  <2> QED BY <1>4, <2>1, <2>2
<1>7. ASSUME NEW w \in Worker, RunCache(w) PROVE Held(k)'
  <2> DEFINE K == KeyFor(w)
  <2>1. /\ work'[w].pc = "register" /\ work'[w].pipe = work[w].pipe
        /\ \A v \in Worker : v # w => work'[v] = work[v]
    BY <1>2, <1>7 DEF RunCache, TypeOK, Position
  <2>2. CASE k = K
    BY <2>1, <2>2 DEF Held, KeyFor
  <2>3. CASE k # K
    <3>1. cachesMap'[k] = cachesMap[k]
      BY <1>7, <2>3 DEF RunCache, TypeOK
    <3>2. work[w].pc = "run" /\ gc' = gc /\ UNCHANGED workqueue
      BY <1>7 DEF RunCache
    <3> QED BY <1>1, <2>1, <3>1, <3>2 DEF Held, KeyFor
  <2> QED BY <2>2, <2>3
<1>8. ASSUME NEW w \in Worker, Register(w) PROVE Held(k)'
  <2>1. \A v \in Worker : v # w => work'[v] = work[v]
    BY <1>8 DEF Register, Goto, TypeOK
  <2>2. /\ cachesMap' = cachesMap /\ gc' = gc
        /\ delayed' = delayed /\ queue \subseteq queue'
    BY <1>8 DEF Register, Add
  <2>3. KeyFor(w) \in queue' \cup processing
    BY <1>0, <1>8 DEF Register, Add
  <2> QED BY <1>1, <1>b, <2>1, <2>2, <2>3 DEF Held, KeyFor
<1>9. ASSUME NEW j \in Key, TakeKey(j) PROVE Held(k)'
  BY <1>1, <1>9 DEF TakeKey, Held, KeyFor
<1>10. ASSUME NEW j \in Key, DelayElapsed(j) PROVE Held(k)'
  BY <1>1, <1>10, <1>b DEF DelayElapsed, Held, KeyFor
<1>11. CASE KeepUsed
  BY <1>0, <1>1, <1>11 DEF KeepUsed, FinishKey, Held, KeyFor
<1>12. CASE GiveUpUnused
  <2>1. gc'.pc = "remove" /\ gc'.key = gc.key
    BY <1>12 DEF GiveUpUnused, TypeOK
  <2> QED BY <1>1, <1>12, <2>1 DEF GiveUpUnused, FinishKey, Held, KeyFor
<1>13. CASE CheckFails
  <2>1. k # gc.key
    BY <1>13 DEF CheckFails
  <2> QED BY <1>1, <1>13, <2>1 DEF CheckFails, Held, KeyFor
<1>14. CASE RemoveCache
  <2>1. k # gc.key /\ cachesMap'[k] = cachesMap[k]
    BY <1>14 DEF RemoveCache, TypeOK
  <2> QED BY <1>1, <1>14, <2>1 DEF RemoveCache, Held, KeyFor
<1>15. CASE ExitLoop \/ Shutdown
  BY <1>0, <1>15 DEF ExitLoop, Shutdown
<1>16. CASE \/ StartRunner
            \/ \E c \in 1..created : StartCache(c)
            \/ \E j \in Key : InformerSync(j)
            \/ \E p \in Pipe : CreatePipeline(p) \/ TouchPipeline(p) \/ DeletePipeline(p)
            \/ UNCHANGED vars
  BY <1>3, <1>16 DEF StartRunner, StartCache, InformerSync, CreatePipeline, TouchPipeline, DeletePipeline, vars
<1> QED BY <1>5, <1>6, <1>7, <1>8, <1>9, <1>10, <1>11, <1>12, <1>13, <1>14, <1>15, <1>16
        DEF Next, WatchTarget, CheckKey

\* The invariant holds at the start: there are no caches.
LEMMA CacheInit == Init => CacheInv
<1> SUFFICES ASSUME Init PROVE CacheInv
  OBVIOUS
<1>1. TypeOK
  BY TypeInit
<1>2. MutexGuards
  BY ParkedType, CacheLifecycleAssumption DEF Init, MutexGuards
<1>3. Numbered /\ RunningIffMapped /\ Accounted /\ TakenIsProcessed
  BY DEF Init, Numbered, RunningIffMapped, Accounted, TakenIsProcessed, NoCache
<1> QED BY <1>1, <1>2, <1>3 DEF CacheInv

\* The inductive invariant of the caches.
THEOREM CacheInvariant == Spec => []CacheInv
<1>1. CacheInv /\ [Next]_vars => CacheInv'
  <2> SUFFICES ASSUME CacheInv, [Next]_vars PROVE CacheInv'
    OBVIOUS
  <2>1. TypeOK'
    <3>1. CASE UNCHANGED vars
      BY <3>1 DEF vars, TypeOK, CacheInv
    <3>2. CASE Next
      BY <3>2, TypeWorker, TypeOthers DEF Next, CacheInv
    <3> QED BY <3>1, <3>2
  <2> QED BY <2>1, MutexStep, MapStep, TakenStep, AccountedStep DEF CacheInv
<1> QED BY <1>1, CacheInit, PTL DEF Spec

\* Before the manager stops, the collector comes to every cache in the map
\* again, or is about to hear of it, except for the keys whose check has failed
\* (gc.register, gc.loop).
THEOREM NoneEscapes == Spec => []Accounted
BY CacheInvariant, PTL DEF CacheInv

\* Exactly the caches in the map are running before the manager stops: none is
\* made twice for a key, left behind, or dead (watchTargetAndGetReader,
\* removeCache).
THEOREM MappedRun == Spec => []RunningIffMapped
BY CacheInvariant, PTL DEF CacheInv

-----------------------------------------------------------------------------
(***************************************************************************)
(* The pool, with one worker.  The key of a cache is then in one place at  *)
(* a time: with the worker, in the queue, delayed, or taken.  So the       *)
(* collector never holds a key that has no cache, and what it removes is   *)
(* what it has checked.                                                    *)
(***************************************************************************)

OneWorker == \A v, w \in Worker : v = w

Registering(k) == \E w \in Worker : work[w].pc = "register" /\ KeyFor(w) = k

Taken(k) == gc.pc \in {"check", "remove"} /\ gc.key = k

\* k is in one place at most, and only if it has a cache
InHand(k) ==
    /\ k \in queue \/ k \in delayed \/ Registering(k) \/ Taken(k)
          => cachesMap[k] # NoCache
    /\ k \in queue => k \notin delayed /\ ~Registering(k) /\ ~Taken(k)
    /\ k \in delayed => ~Registering(k) /\ ~Taken(k)
    /\ Registering(k) => ~Taken(k)

\* A key whose check has failed is out of the collector's reach.
OutOfReach(k) == k \in processing /\ k \notin queue /\ ~Taken(k)

\* the inductive invariant; the worker finds on its second look into the map
\* what it has found on the first
HandInv ==
    /\ \A k \in Key \ abandoned : k \notin dirty /\ InHand(k)
    /\ \A k \in abandoned : OutOfReach(k)
    /\ \A w \in Worker : work[w].pc \in {"config", "create"}
                            => cachesMap[KeyFor(w)] = NoCache

\* A step of the worker that neither comes from Register nor goes there, and
\* leaves the map and the collector alone.
LEMMA HandMove ==
    ASSUME CacheInv, HandInv, NEW w \in Worker, NEW x \in Position,
           work' = [work EXCEPT ![w] = x], work[w].pc # "register", x.pc # "register",
           x.pc \in {"config", "create"} => cachesMap[KeyOf[x.pipe]] = NoCache,
           cachesMap' = cachesMap, gc' = gc, abandoned' = abandoned, UNCHANGED workqueue
    PROVE  HandInv'
<1>1. \A v \in Worker : work'[v] = IF v = w THEN x ELSE work[v]
  BY DEF CacheInv, TypeOK
<1>2. \A k \in Key : Registering(k)' = Registering(k)
  BY <1>1 DEF Registering, KeyFor
<1>3. \A k \in Key : Taken(k)' = Taken(k)
  BY DEF Taken
<1>4. /\ queue' = queue /\ dirty' = dirty /\ processing' = processing
      /\ delayed' = delayed
  BY DEF workqueue
<1>5. \A v \in Worker : work'[v].pc \in {"config", "create"} => cachesMap'[KeyFor(v)'] = NoCache
  BY <1>1 DEF HandInv, KeyFor
<1>6. abandoned \subseteq Key
  BY DEF CacheInv, TypeOK
<1>7. \A k \in Key \ abandoned' : k \notin dirty' /\ InHand(k)'
  BY <1>2, <1>3, <1>4 DEF HandInv, InHand
<1>8. \A k \in abandoned' : OutOfReach(k)'
  BY <1>3, <1>4, <1>6 DEF HandInv, OutOfReach
<1> QED BY <1>5, <1>7, <1>8 DEF HandInv

\* A step that leaves the workers and the map alone: it is enough to look at
\* the collector and its queue.
LEMMA HandKeep ==
    ASSUME CacheInv, HandInv, work' = work, cachesMap' = cachesMap,
           \A k \in Key \ abandoned' : k \notin dirty' /\ InHand(k)',
           \A k \in abandoned' : OutOfReach(k)'
    PROVE  HandInv'
BY DEF HandInv, KeyFor

\* Whoever is being processed and has not been abandoned is being checked.
LEMMA ProcessingTaken ==
    ASSUME CacheInv, NEW k \in Key \ abandoned, k \in processing
    PROVE  Taken(k)
BY DEF CacheInv, TakenIsProcessed, Taken

\* The steps of the worker.
LEMMA HandWorker ==
    ASSUME OneWorker, CacheInv, HandInv, NEW w \in Worker,
           \/ \E p \in Pipe : StartReconcile(w, p)
           \/ WatchTarget(w)
           \/ WatchFails(w)
    PROVE  HandInv'
<1> USE DEF users, reqs, store, entries, informers, faults
<1>0. /\ TypeOK /\ work[w] \in Position
      /\ work[w].pc # "idle" => work[w].pipe \in Pipe /\ KeyFor(w) \in Key
  BY CacheLifecycleAssumption DEF CacheInv, TypeOK, KeyFor
<1>1. ASSUME NEW p \in Pipe, StartReconcile(w, p) PROVE HandInv'
  <2> DEFINE x == [pc |-> "lookup", pipe |-> p, found |-> FALSE, cache |-> NoCache]
  <2>1. x \in Position /\ x.pc = "lookup"
    BY DEF Position, NoCache
  <2>2. work' = [work EXCEPT ![w] = x] \/ work' = work
    BY <1>1 DEF StartReconcile
  <2>3. /\ work[w].pc = "idle" /\ cachesMap' = cachesMap /\ gc' = gc
        /\ abandoned' = abandoned /\ UNCHANGED workqueue
    BY <1>1 DEF StartReconcile
  <2> HIDE DEF x
  <2>4. CASE work' = [work EXCEPT ![w] = x]
    BY <2>1, <2>3, <2>4, HandMove
  <2>5. CASE work' = work
    BY <2>3, <2>5
       DEF HandInv, InHand, OutOfReach, Registering, Taken, KeyFor, workqueue
  <2> QED BY <2>2, <2>4, <2>5
<1>2. CASE LookupCache(w)
  <2> DEFINE entry == cachesMap[KeyFor(w)]
             x == [work[w] EXCEPT
                     !.pc = IF entry = NoCache THEN "config" ELSE "informer",
                     !.found = entry # NoCache,
                     !.cache = entry]
  <2>1. entry \in Nat
    BY <1>0, <1>2 DEF LookupCache, TypeOK
  <2>2. x \in Position /\ x.pipe = work[w].pipe
    BY <1>0, <2>1 DEF Position
  <2>3. x.pc # "register" /\ (x.pc \in {"config", "create"} => entry = NoCache)
    BY <1>0 DEF Position
  <2>4. work' = [work EXCEPT ![w] = x]
    BY <1>2 DEF LookupCache
  <2>5. /\ work[w].pc # "register" /\ cachesMap' = cachesMap /\ gc' = gc
        /\ abandoned' = abandoned /\ UNCHANGED workqueue
    BY <1>2 DEF LookupCache
  <2>6. x.pc \in {"config", "create"} => cachesMap[KeyOf[x.pipe]] = NoCache
    BY <2>2, <2>3 DEF KeyFor
  <2> HIDE DEF x
  <2> QED BY <2>2, <2>3, <2>4, <2>5, <2>6, HandMove
<1>3. ASSUME NEW pc \in {"create", "run", "informer", "wait", "handler"}, Goto(w, pc),
             work[w].pc # "idle", work[w].pc # "register",
             pc = "create" => work[w].pc = "config",
             cachesMap' = cachesMap, gc' = gc, abandoned' = abandoned, UNCHANGED workqueue
      PROVE  HandInv'
  <2> DEFINE x == [work[w] EXCEPT !.pc = pc]
  <2>1. /\ work' = [work EXCEPT ![w] = x] /\ x \in Position /\ x.pc = pc
        /\ x.pipe = work[w].pipe
    BY <1>0, <1>3, GotoMoves
  <2> HIDE DEF x
  <2>2. x.pc \in {"config", "create"} => cachesMap[KeyOf[x.pipe]] = NoCache
    BY <1>3, <2>1 DEF HandInv, KeyFor
  <2> QED BY <1>3, <2>1, <2>2, HandMove
<1>4. CASE GetConfig(w)
  BY <1>3, <1>4 DEF GetConfig
<1>5. CASE LockAndRecheck(w)
  <2>1. cachesMap[KeyFor(w)] = NoCache
    BY <1>5 DEF LockAndRecheck, HandInv
  <2> QED BY <1>3, <1>5, <2>1 DEF LockAndRecheck
<1>6. CASE RunCache(w)
  <2> DEFINE K == KeyFor(w)
             x == [work[w] EXCEPT !.pc = "register", !.cache = created + 1]
  <2>1. K \in Key /\ cachesMap[K] = NoCache /\ created + 1 # NoCache
    BY <1>0, <1>6 DEF RunCache, CacheInv, MutexGuards, TypeOK, NoCache
  <2>2. \A v \in Worker : v = w
    BY DEF OneWorker
  <2>3. work'[w].pc = "register" /\ work'[w].pipe = work[w].pipe /\ work[w].pc = "run"
    BY <1>0, <1>6 DEF RunCache, TypeOK, Position
  <2>4. \A k \in Key : ~Registering(k) /\ (Registering(k)' <=> k = K)
    BY <2>2, <2>3 DEF Registering, KeyFor
  <2>5. \A k \in Key : cachesMap'[k] = IF k = K THEN created + 1 ELSE cachesMap[k]
    BY <1>0, <1>6 DEF RunCache, TypeOK
  <2>6. /\ queue' = queue /\ dirty' = dirty /\ processing' = processing
        /\ delayed' = delayed /\ gc' = gc /\ abandoned' = abandoned
    BY <1>6 DEF RunCache, workqueue
  <2>7. \A k \in Key : Taken(k)' = Taken(k)
    BY <2>6 DEF Taken
  <2> HIDE DEF K
  <2>8. \A k \in Key \ abandoned' : k \notin dirty' /\ InHand(k)'
    BY <2>1, <2>4, <2>5, <2>6, <2>7 DEF HandInv, InHand
  <2>9. \A k \in abandoned' : OutOfReach(k)'
    BY <1>0, <2>6, <2>7 DEF HandInv, OutOfReach, TypeOK
  <2> QED BY <2>2, <2>3, <2>8, <2>9 DEF HandInv
<1>7. CASE Register(w)
  <2> DEFINE K == KeyFor(w)
  <2>1. K \in Key /\ Registering(K)
    BY <1>0, <1>7 DEF Register, Registering
  <2>2. \A v \in Worker : v = w
    BY DEF OneWorker
  <2>3. work'[w].pc = "informer"
    BY <1>0, <1>7 DEF Register, Goto, TypeOK, Position
  <2>4. \A k \in Key : ~Registering(k)'
    BY <2>2, <2>3 DEF Registering
  <2>5. /\ cachesMap' = cachesMap /\ gc' = gc /\ abandoned' = abandoned
        /\ processing' = processing /\ delayed' = delayed
    BY <1>7 DEF Register, Add
  <2>6. \A k \in Key : Taken(k)' = Taken(k)
    BY <2>5 DEF Taken
  <2>7. /\ queue' \in {queue, queue \cup {K}} /\ dirty' \in {dirty, dirty \cup {K}}
        /\ K \in processing => queue' = queue
        /\ K \notin processing => dirty' = dirty
    BY <1>7 DEF Register, Add
  <2> HIDE DEF K
  <2>8. ASSUME NEW k \in Key \ abandoned' PROVE k \notin dirty' /\ InHand(k)'
    <3>1. k \notin dirty /\ InHand(k)
      BY <2>5 DEF HandInv
    <3>2. CASE k = K
      <4>1. K \notin processing
        <5>1. ~Taken(K)
          BY <2>1, <3>1, <3>2 DEF InHand
        <5> QED BY <2>5, <3>2, <5>1, ProcessingTaken
      <4> QED BY <2>1, <2>4, <2>5, <2>6, <2>7, <3>1, <3>2, <4>1 DEF InHand
    <3>3. CASE k # K
      BY <2>4, <2>5, <2>6, <2>7, <3>1, <3>3 DEF InHand
    <3> QED BY <3>2, <3>3
  <2>9. ASSUME NEW k \in abandoned' PROVE OutOfReach(k)'
    <3>1. k \in Key /\ OutOfReach(k)
      BY <1>0, <2>5 DEF HandInv, TypeOK
    <3> QED BY <2>5, <2>6, <2>7, <3>1 DEF OutOfReach
  <2> QED BY <2>2, <2>3, <2>8, <2>9 DEF HandInv
<1>8. CASE GetInformer(w)
  <2>1. PICK pc \in {"wait", "handler"} : Goto(w, pc)
    BY <1>8 DEF GetInformer
  <2> QED BY <1>3, <1>8, <2>1 DEF GetInformer
<1>9. ASSUME Succeed(w) \/ Fail(w), work[w].pc # "register",
             cachesMap' = cachesMap, gc' = gc, abandoned' = abandoned, UNCHANGED workqueue
      PROVE  HandInv'
  <2>1. work' = [work EXCEPT ![w] = Parked]
    BY <1>9 DEF Succeed, Fail
  <2> QED BY <1>9, <2>1, HandMove, ParkedType
<1>10. CASE AwaitSync(w)
  BY <1>3, <1>9, <1>10 DEF AwaitSync
<1>11. CASE InstallHandler(w)
  BY <1>9, <1>11 DEF InstallHandler
<1>12. CASE WatchFails(w)
  BY <1>9, <1>12 DEF WatchFails
<1> QED BY <1>1, <1>2, <1>4, <1>5, <1>6, <1>7, <1>8, <1>10, <1>11, <1>12 DEF WatchTarget

\* The steps of the collector, the caches, the manager and the users.
LEMMA HandOthers ==
    ASSUME CacheInv, HandInv,
           \/ \E c \in 1..created : StartCache(c)
           \/ \E k \in Key : InformerSync(k)
           \/ \E k \in Key : TakeKey(k)
           \/ \E k \in Key : DelayElapsed(k)
           \/ CheckKey \/ CheckFails \/ RemoveCache \/ ExitLoop
           \/ StartRunner \/ Shutdown
           \/ \E p \in Pipe : CreatePipeline(p) \/ TouchPipeline(p) \/ DeletePipeline(p)
           \/ UNCHANGED vars
    PROVE  HandInv'
<1> USE DEF users, reqs, store, entries, informers, faults
<1> DEFINE K == gc.key
<1>0. TypeOK /\ abandoned \subseteq Key
  BY DEF CacheInv, TypeOK
<1>a. ASSUME work' = work PROVE \A k \in Key : Registering(k)' = Registering(k)
  BY <1>a DEF Registering, KeyFor
<1>b. ASSUME gc.pc \in {"check", "remove"}
      PROVE  /\ K \in Key \ abandoned /\ Taken(K) /\ K \notin dirty
             /\ K \notin queue /\ K \notin delayed /\ ~Registering(K)
             /\ \A k \in Key : k # K => ~Taken(k)
  <2>1. K \in Key /\ Taken(K)
    BY <1>0, <1>b DEF TypeOK, Taken
  <2>2. K \notin abandoned
    BY <2>1 DEF HandInv, OutOfReach
  <2>3. K \notin dirty /\ InHand(K)
    BY <2>1, <2>2 DEF HandInv
  <2> QED BY <2>1, <2>2, <2>3 DEF InHand, Taken
<1>1. ASSUME NEW j \in Key, TakeKey(j) PROVE HandInv'
  <2>1. /\ work' = work /\ cachesMap' = cachesMap /\ abandoned' = abandoned
        /\ dirty' = dirty /\ delayed' = delayed /\ queue' = queue \ {j}
        /\ processing' = processing \cup {j} /\ j \in queue
    BY <1>1 DEF TakeKey
  <2>2. \A k \in Key : ~Taken(k) /\ (Taken(k)' <=> k = j)
    BY <1>1 DEF TakeKey, Taken
  <2>3. j \notin abandoned
    BY <2>1 DEF HandInv, OutOfReach
  <2>4. \A k \in Key \ abandoned' : k \notin dirty' /\ InHand(k)'
    BY <1>a, <2>1, <2>2 DEF HandInv, InHand
  <2>5. \A k \in abandoned' : OutOfReach(k)'
    BY <1>0, <2>1, <2>2, <2>3 DEF HandInv, OutOfReach
  <2> QED BY <2>1, <2>4, <2>5, HandKeep
<1>2. ASSUME NEW j \in Key, DelayElapsed(j) PROVE HandInv'
  <2>1. /\ work' = work /\ cachesMap' = cachesMap /\ abandoned' = abandoned
        /\ gc' = gc /\ processing' = processing
        /\ j \in delayed /\ delayed' = delayed \ {j}
    BY <1>2 DEF DelayElapsed
  <2>2. /\ queue' = IF j \in processing THEN queue ELSE queue \cup {j}
        /\ dirty' = IF j \in processing THEN dirty \cup {j} ELSE dirty
    BY <1>2 DEF DelayElapsed
  <2>3. \A k \in Key : Taken(k)' = Taken(k)
    BY <2>1 DEF Taken
  <2>4. ASSUME NEW k \in Key \ abandoned' PROVE k \notin dirty' /\ InHand(k)'
    <3>1. k \notin dirty /\ InHand(k)
      BY <2>1 DEF HandInv
    <3>2. k = j => k \notin processing
      BY <2>1, <3>1, ProcessingTaken DEF InHand
    <3> QED BY <1>a, <2>1, <2>2, <2>3, <3>1, <3>2 DEF InHand
  <2>5. ASSUME NEW k \in abandoned' PROVE OutOfReach(k)'
    <3>1. k \in Key /\ OutOfReach(k)
      BY <1>0, <2>1 DEF HandInv
    <3> QED BY <2>1, <2>2, <2>3, <3>1 DEF OutOfReach
  <2> QED BY <2>1, <2>4, <2>5, HandKeep
<1>3. CASE CheckKey
  <2>1. /\ work' = work /\ cachesMap' = cachesMap /\ abandoned' = abandoned
        /\ gc.pc = "check" /\ processing' = processing \ {K} /\ dirty' = dirty \ {K}
    BY <1>3 DEF CheckKey, KeepUsed, GiveUpUnused, FinishKey
  <2>2. queue' = queue
    BY <1>3, <1>b, <2>1 DEF CheckKey, KeepUsed, GiveUpUnused, FinishKey
  <2>3. \/ delayed' = delayed /\ \A k \in Key : Taken(k)' = Taken(k)
        \/ delayed' \subseteq delayed \cup {K} /\ \A k \in Key : ~Taken(k)'
    <3>1. CASE KeepUsed
      BY <3>1 DEF KeepUsed, FinishKey, Taken
    <3>2. CASE GiveUpUnused
      <4>1. gc' = [pc |-> "remove", key |-> K]
        BY <1>0, <3>2 DEF GiveUpUnused, TypeOK
      <4> QED BY <2>1, <3>2, <4>1 DEF GiveUpUnused, FinishKey, Taken
    <3> QED BY <1>3, <3>1, <3>2 DEF CheckKey
  <2> HIDE DEF K
  <2>4. \A k \in Key \ abandoned' : k \notin dirty' /\ InHand(k)'
    BY <1>a, <1>b, <2>1, <2>2, <2>3 DEF HandInv, InHand
  <2>5. \A k \in abandoned' : OutOfReach(k)'
    BY <1>0, <1>b, <2>1, <2>2, <2>3 DEF HandInv, OutOfReach
  <2> QED BY <2>1, <2>4, <2>5, HandKeep
<1>4. CASE CheckFails
  <2>1. /\ work' = work /\ cachesMap' = cachesMap /\ abandoned' = abandoned \cup {K}
        /\ gc.pc = "check" /\ gc'.pc = "get" /\ queue' = queue /\ dirty' = dirty
        /\ processing' = processing /\ delayed' = delayed
    BY <1>4 DEF CheckFails, workqueue
  <2>2. \A k \in Key : ~Taken(k)'
    BY <2>1 DEF Taken
  <2>3. K \in processing
    BY <2>1 DEF CacheInv, TakenIsProcessed
  <2> HIDE DEF K
  <2>4. \A k \in Key \ abandoned' : k \notin dirty' /\ InHand(k)'
    BY <1>a, <2>1, <2>2 DEF HandInv, InHand
  <2>5. \A k \in abandoned' : OutOfReach(k)'
    BY <1>0, <1>b, <2>1, <2>2, <2>3 DEF HandInv, OutOfReach
  <2> QED BY <2>1, <2>4, <2>5, HandKeep
<1>5. CASE RemoveCache
  <2>1. /\ work' = work /\ abandoned' = abandoned
        /\ gc.pc = "remove" /\ gc'.pc = "get" /\ queue' = queue /\ dirty' = dirty
        /\ processing' = processing /\ delayed' = delayed
    BY <1>5 DEF RemoveCache, workqueue
  <2>2. \A k \in Key : ~Taken(k)'
    BY <2>1 DEF Taken
  <2>3. \A k \in Key : cachesMap'[k] = IF k = K THEN NoCache ELSE cachesMap[k]
    BY <1>0, <1>5 DEF RemoveCache, TypeOK
  <2> HIDE DEF K
  <2>4. \A k \in Key \ abandoned' : k \notin dirty' /\ InHand(k)'
    BY <1>a, <1>b, <2>1, <2>2, <2>3 DEF HandInv, InHand
  <2>5. \A k \in abandoned' : OutOfReach(k)'
    BY <1>0, <2>1, <2>2 DEF HandInv, OutOfReach
  <2>6. \A w \in Worker : work'[w].pc \in {"config", "create"}
                             => cachesMap'[KeyFor(w)'] = NoCache
    <3>1. \A w \in Worker : work[w].pc # "idle" => KeyFor(w) \in Key
      BY <1>0, CacheLifecycleAssumption DEF TypeOK, KeyFor
    <3> QED BY <2>1, <2>3, <3>1 DEF HandInv, KeyFor
  <2> QED BY <2>4, <2>5, <2>6 DEF HandInv
<1>6. CASE ExitLoop \/ Shutdown
  <2>1. /\ work' = work /\ cachesMap' = cachesMap /\ abandoned' = abandoned
        /\ queue' = queue /\ dirty' = dirty /\ processing' = processing
        /\ delayed' \subseteq delayed
    BY <1>6 DEF ExitLoop, Shutdown, workqueue
  <2>2. \A k \in Key : Taken(k)' = Taken(k)
    <3>1. CASE ExitLoop
      <4>1. gc.pc = "get" /\ gc'.pc = "exited"
        BY <1>0, <3>1 DEF ExitLoop, TypeOK
      <4> QED BY <4>1 DEF Taken
    <3>2. CASE Shutdown
      BY <3>2 DEF Shutdown, Taken
    <3> QED BY <1>6, <3>1, <3>2
  <2>4. \A k \in Key \ abandoned' : k \notin dirty' /\ InHand(k)'
    BY <1>a, <2>1, <2>2 DEF HandInv, InHand
  <2>5. \A k \in abandoned' : OutOfReach(k)'
    BY <1>0, <2>1, <2>2 DEF HandInv, OutOfReach
  <2> QED BY <2>1, <2>4, <2>5, HandKeep
<1>7. CASE \/ \E c \in 1..created : StartCache(c)
           \/ \E k \in Key : InformerSync(k)
           \/ StartRunner
           \/ \E p \in Pipe : CreatePipeline(p) \/ TouchPipeline(p) \/ DeletePipeline(p)
           \/ UNCHANGED vars
  <2>1. /\ work' = work /\ cachesMap' = cachesMap /\ abandoned' = abandoned
        /\ gc' = gc /\ UNCHANGED workqueue
    BY <1>7 DEF StartCache, InformerSync, StartRunner, CreatePipeline, TouchPipeline,
                DeletePipeline, vars, workqueue
  <2> QED BY <2>1 DEF HandInv, InHand, OutOfReach, Registering, Taken, KeyFor, workqueue
<1> QED BY <1>1, <1>2, <1>3, <1>4, <1>5, <1>6, <1>7

\* The invariant of the one worker and the collector, at the start and always.
LEMMA HandInvariant == ASSUME OneWorker PROVE Spec => []HandInv
<1>1. Init => HandInv
  BY ParkedType DEF Init, HandInv, InHand, Registering, Taken
<1>2. CacheInv /\ HandInv /\ [Next]_vars => HandInv'
  BY HandWorker, HandOthers DEF Next
<1> QED BY <1>1, <1>2, CacheInvariant, PTL DEF Spec

\* A step of the controller is a step of the pool.
LEMMA PoolStep ==
    ASSUME CacheInv, HandInv, [Next]_vars
    PROVE  [Pool!Next]_(Pool!vars)
<1> USE DEF users, reqs, store, entries, informers, faults
<1> DEFINE K == gc.key
           condemned == IF gc.pc = "remove" THEN {cachesMap[K]} \ {NoCache} ELSE {}
           used == {KeyOf[p] : p \in pipes}
<1>0. TypeOK /\ used' \subseteq Key
  <2>1. TypeOK /\ TypeOK'
    BY TypeWorker, TypeOthers DEF CacheInv, Next, vars, TypeOK
  <2> QED BY <2>1, CacheLifecycleAssumption DEF TypeOK
<1>a. ASSUME cachesMap' = cachesMap, created' = created, condemned' = condemned
      PROVE  Pool!Use
  BY <1>0, <1>a DEF Pool!Use
<1>b. ASSUME gc.pc \in {"check", "remove"} PROVE K \in Key /\ cachesMap[K] # NoCache
  <2>1. K \in Key /\ Taken(K)
    BY <1>0, <1>b DEF TypeOK, Taken
  <2>2. K \notin abandoned
    BY <2>1 DEF HandInv, OutOfReach
  <2> QED BY <2>1, <2>2 DEF HandInv, InHand
<1>1. ASSUME NEW w \in Worker, RunCache(w) PROVE Pool!Next
  <2>1. KeyFor(w) \in Key /\ cachesMap[KeyFor(w)] = NoCache
    BY <1>0, <1>1, CacheLifecycleAssumption DEF RunCache, CacheInv, MutexGuards, TypeOK, KeyFor
  <2>2. condemned' = condemned
    <3>1. CASE gc.pc = "remove"
      <4>1. cachesMap'[K] = cachesMap[K] /\ gc' = gc
        BY <1>0, <1>1, <1>b, <2>1, <3>1 DEF RunCache, TypeOK
      <4> QED BY <4>1
    <3>2. CASE gc.pc # "remove"
      BY <1>1, <3>2 DEF RunCache
    <3> QED BY <3>1, <3>2
  <2>3. Pool!Open(KeyFor(w))
    BY <1>1, <2>1, <2>2 DEF RunCache, Pool!Open, Pool!None, NoCache
  <2> QED BY <2>1, <2>3 DEF Pool!Next
<1>2. CASE GiveUpUnused
  <2>1. K \in Key /\ cachesMap[K] # NoCache /\ K \notin used
    BY <1>2, <1>b DEF GiveUpUnused, Used
  <2>2. gc' = [pc |-> "remove", key |-> K] /\ gc.pc = "check"
    BY <1>0, <1>2 DEF GiveUpUnused, TypeOK
  <2>3. condemned' = condemned \cup {cachesMap[K]}
    BY <1>2, <2>1, <2>2 DEF GiveUpUnused
  <2>4. Pool!Condemn(K)
    BY <1>2, <2>1, <2>3 DEF GiveUpUnused, Pool!Condemn, Pool!None, NoCache
  <2> QED BY <2>1, <2>4 DEF Pool!Next
<1>3. CASE RemoveCache
  <2>1. K \in Key /\ cachesMap[K] # NoCache /\ gc.pc = "remove" /\ gc'.pc = "get"
    BY <1>3, <1>b DEF RemoveCache
  <2>2. condemned = {cachesMap[K]} /\ condemned' = {}
    BY <2>1
  <2>3. condemned' = condemned \ {cachesMap[K]}
    BY <2>2
  <2>4. Pool!Close(K)
    BY <1>3, <2>1, <2>2, <2>3 DEF RemoveCache, Pool!Close, Pool!None, NoCache
  <2> QED BY <2>1, <2>4 DEF Pool!Next
<1>4. ASSUME cachesMap' = cachesMap, created' = created,
             \/ gc' = gc
             \/ gc.pc # "remove" /\ gc'.pc # "remove"
      PROVE  Pool!Next
  BY <1>4, <1>a DEF Pool!Next
<1>5. ASSUME NEW w \in Worker,
             \/ \E p \in Pipe : StartReconcile(w, p)
             \/ LookupCache(w) \/ GetConfig(w) \/ LockAndRecheck(w) \/ Register(w)
             \/ GetInformer(w) \/ AwaitSync(w) \/ InstallHandler(w) \/ WatchFails(w)
      PROVE  Pool!Next
  <2>1. cachesMap' = cachesMap /\ created' = created /\ gc' = gc
    BY <1>5 DEF StartReconcile, LookupCache, GetConfig, LockAndRecheck, Register,
                GetInformer, AwaitSync, InstallHandler, WatchFails
  <2> QED BY <1>4, <2>1
<1>6. CASE \/ \E c \in 1..created : StartCache(c)
           \/ \E k \in Key : InformerSync(k) \/ DelayElapsed(k)
           \/ StartRunner \/ Shutdown
           \/ \E p \in Pipe : CreatePipeline(p) \/ TouchPipeline(p) \/ DeletePipeline(p)
           \/ UNCHANGED vars
  <2>1. cachesMap' = cachesMap /\ created' = created /\ gc' = gc
    BY <1>6 DEF StartCache, InformerSync, DelayElapsed, StartRunner, Shutdown,
                CreatePipeline, TouchPipeline, DeletePipeline, vars
  <2> QED BY <1>4, <2>1
<1>7. CASE (\E k \in Key : TakeKey(k)) \/ KeepUsed \/ CheckFails \/ ExitLoop
  <2>1. /\ cachesMap' = cachesMap /\ created' = created
        /\ gc.pc # "remove" /\ gc'.pc # "remove"
    <3>1. CASE ExitLoop
      BY <1>0, <3>1 DEF ExitLoop, TypeOK
    <3>2. ASSUME NEW k \in Key, TakeKey(k)
          PROVE  cachesMap' = cachesMap /\ created' = created /\ gc.pc = "get" /\ gc'.pc = "check"
      BY <3>2 DEF TakeKey
    <3>3. CASE KeepUsed \/ CheckFails
      BY <3>3 DEF KeepUsed, FinishKey, CheckFails
    <3> QED BY <1>7, <3>1, <3>2, <3>3
  <2> QED BY <1>4, <2>1
<1> QED BY <1>1, <1>2, <1>3, <1>5, <1>6, <1>7 DEF Next, WatchTarget, CheckKey

\* With one worker a cache is removed only if its key was unused at a moment of
\* that cache's own life, and there is at most one for a key at any time
\* (watchTargetAndGetReader, gc.loop, removeCache).
THEOREM PoolImplemented == ASSUME OneWorker PROVE Spec => ImplementsPool
<1>1. Init => Pool!Init
  BY DEF Init, Pool!Init, Pool!None, NoCache
<1>2. CacheInv /\ HandInv /\ [Next]_vars => [Pool!Next]_(Pool!vars)
  BY PoolStep
<1> QED BY <1>1, <1>2, CacheInvariant, HandInvariant, PTL DEF Spec, ImplementsPool, Pool!Spec

=============================================================================
