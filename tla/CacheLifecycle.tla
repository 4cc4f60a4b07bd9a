--------------------------- MODULE CacheLifecycle ---------------------------
(***************************************************************************)
(* The caches through which the level-triggered controller reads and       *)
(* watches applications (controllers/leveltriggered/caching.go) and the    *)
(* runner that hosts them (runner.go): one cache per {cluster, type},      *)
(* created by the first reconciliation that needs it, kept in a map        *)
(* guarded by a mutex, and dismantled by a garbage collector once no       *)
(* Pipeline refers to its key.                                             *)
(*                                                                         *)
(* Three kinds of threads meet here: the workers, each calling             *)
(* watchTargetAndGetReader for the Pipeline it reconciles (the controller  *)
(* is built with one; the code locks as if there were more); the           *)
(* collector's loop; and the runner.  Every Pipeline has one target; more  *)
(* targets repeat the same calls.                                          *)
(*                                                                         *)
(* A cache is named by the order of creation, so that a worker can hold on *)
(* to one that has been dismantled, or replaced, in the meantime.          *)
(*                                                                         *)
(* The caches themselves are controller-runtime's: GetInformer makes the   *)
(* informer if there is none and, once the cache has been started, waits   *)
(* until the informer has synced, for as long as the context lives.        *)
(***************************************************************************)
EXTENDS Naturals, FiniteSets

CONSTANTS
    Key,         \* clusterAndGVK values
    Pipe,        \* Pipelines
    KeyOf,       \* Pipeline -> the key of its target
    Worker,      \* the controller's workers
    NoKey, NoPipe, Unlocked, \* no key, no Pipeline, no worker
    MayDelete,   \* may the user delete Pipelines?
    MayShutdown, \* may the manager be stopped?
    MaxErrors,   \* bound on failures of watchTargetAndGetReader
    MaxListErrors \* bound on failures of isCacheUsed

ASSUME CacheLifecycleAssumption ==
    /\ KeyOf \in [Pipe -> Key]
    /\ NoKey \notin Key
    /\ NoPipe \notin Pipe
    /\ Unlocked \notin Worker
    /\ MayDelete \in BOOLEAN
    /\ MayShutdown \in BOOLEAN
    /\ MaxErrors \in Nat
    /\ MaxListErrors \in Nat

VARIABLES
    pipes,      \* Pipelines that exist, as the manager's cache has them
    born,       \* Pipelines that have been created (each one is, once)
    reported,   \* Pipelines whose status has been written
    requests,   \* the controller's workqueue
    work,       \* worker -> where it is in watchTargetAndGetReader
    cachesMu,   \* the worker that holds the mutex, or Unlocked
    cachesMap,  \* key -> the cache for it, or NoCache
    running,    \* caches given to the runner and not cancelled
    started,    \* caches whose goroutine has called Start
    informed,   \* caches that have an informer
    synced,     \* caches whose informer has synced
    handled,    \* caches on whose informer the event handler is installed
    created,    \* number of caches created so far
    runner,     \* the runner: "new", "started" or "stopped"
    queue,      \* gc.queue: keys ready to be taken
    dirty,      \* keys added again while they are processed
    processing, \* keys taken and not yet Done
    delayed,    \* keys that AddRateLimited will add later
    gc,         \* where the collector's loop is, and the key it has taken
    abandoned,  \* history: keys whose check has failed
    errors,     \* failures so far
    listErrors

vars == <<pipes, born, reported, requests, work, cachesMu, cachesMap, running,
          created, started, informed, synced, handled, runner,
          queue, dirty, processing, delayed, gc, abandoned, errors, listErrors>>

users == <<pipes, born>>
reqs == <<reported, requests>>
entries == <<cachesMu, cachesMap, running, created>>
informers == <<started, informed, synced, handled>>
store == <<entries, informers>>
workqueue == <<queue, dirty, processing, delayed>>
faults == <<abandoned, errors, listErrors>>

NoCache == 0

Used(k) == \E p \in pipes : KeyOf[p] = k

Parked == [pc |-> "idle", pipe |-> NoPipe, found |-> FALSE, cache |-> NoCache]

Init ==
    /\ pipes = {}
    /\ born = {}
    /\ reported = {}
    /\ requests = {}
    /\ work = [w \in Worker |-> Parked]
    /\ cachesMu = Unlocked
    /\ cachesMap = [k \in Key |-> NoCache]
    /\ running = {}
    /\ created = 0
    /\ started = {}
    /\ informed = {}
    /\ synced = {}
    /\ handled = {}
    /\ runner = "new"
    /\ queue = {}
    /\ dirty = {}
    /\ processing = {}
    /\ delayed = {}
    /\ gc = [pc |-> "get", key |-> NoKey]
    /\ abandoned = {}
    /\ errors = 0
    /\ listErrors = 0

-----------------------------------------------------------------------------
(***************************************************************************)
(* The collector's workqueue (k8s.io/client-go/util/workqueue).            *)
(***************************************************************************)

Add(k) ==
    /\ queue' = IF runner = "stopped" \/ k \in processing THEN queue ELSE queue \cup {k}
    /\ dirty' = IF runner # "stopped" /\ k \in processing THEN dirty \cup {k} ELSE dirty
    /\ UNCHANGED <<processing, delayed>>

\* Done(k): k goes back to the queue if it was added in the meantime.
FinishKey(k, later) ==
    /\ processing' = processing \ {k}
    /\ dirty' = dirty \ {k}
    /\ queue' = IF k \in dirty THEN queue \cup {k} ELSE queue
    /\ delayed' = IF later /\ runner # "stopped" THEN delayed \cup {k} ELSE delayed

\* The delay of a key that was added rate-limited has passed.
DelayElapsed(k) ==
    /\ k \in delayed
    /\ runner # "stopped"
    /\ delayed' = delayed \ {k}
    /\ queue' = IF k \in processing THEN queue ELSE queue \cup {k}
    /\ dirty' = IF k \in processing THEN dirty \cup {k} ELSE dirty
    /\ UNCHANGED <<users, reqs, work, store, runner, processing, gc, faults>>

-----------------------------------------------------------------------------
(***************************************************************************)
(* Workers: watchTargetAndGetReader, called for a Pipeline.                *)
(***************************************************************************)

KeyFor(w) == KeyOf[work[w].pipe]

Goto(w, pc) == work' = [work EXCEPT ![w].pc = pc]

\* Reconcile returns.  Without an error: it has written the status, and the
\* first time at least this is an update of the Pipeline, which queues it.
\* With an error: the Pipeline is queued again.
Succeed(w) ==
    /\ work' = [work EXCEPT ![w] = Parked]
    /\ reported' = reported \cup {work[w].pipe}
    /\ requests' = IF work[w].pipe \in reported
                   THEN requests ELSE requests \cup {work[w].pipe}

Fail(w) ==
    /\ work' = [work EXCEPT ![w] = Parked]
    /\ requests' = requests \cup {work[w].pipe}
    /\ UNCHANGED reported

\* A worker takes a Pipeline that no other worker has, and looks it up.
StartReconcile(w, p) ==
    /\ work[w].pc = "idle"
    /\ runner # "stopped"
    /\ p \in requests
    /\ \A v \in Worker : work[v].pipe # p
    /\ requests' = requests \ {p}
    /\ work' = IF p \in pipes
               THEN [work EXCEPT ![w] = [pc |-> "lookup", pipe |-> p,
                                         found |-> FALSE, cache |-> NoCache]]
               ELSE work
    /\ UNCHANGED <<users, reported, store, runner, workqueue, gc, faults>>

LookupCache_RegistersAgain(w) ==
    /\ work[w].pc = "lookup"
    /\ cachesMu = Unlocked
    /\ LET entry == cachesMap[KeyFor(w)]
       IN  work' = [work EXCEPT
                      ![w].pc = IF entry = NoCache THEN "config" ELSE "register",
                      ![w].found = entry # NoCache,
                      ![w].cache = entry]
    /\ UNCHANGED <<users, reqs, store, runner, workqueue, gc, faults>>

\* The first look into the map, under the mutex.
LookupCache(w) ==
    /\ work[w].pc = "lookup"
    /\ cachesMu = Unlocked
    /\ LET entry == cachesMap[KeyFor(w)]
       IN  work' = [work EXCEPT
                      ![w].pc = IF entry = NoCache THEN "config" ELSE "informer",
                      ![w].found = entry # NoCache,
                      ![w].cache = entry]
    /\ UNCHANGED <<users, reqs, store, runner, workqueue, gc, faults>>

\* Get the cluster's kubeconfig; the secret may be missing or malformed.
GetConfig(w) ==
    /\ work[w].pc = "config"
    /\ Goto(w, "create")
    /\ UNCHANGED <<users, reqs, store, runner, workqueue, gc, faults>>

LockAndRecheck_NoRecheck(w) ==
    /\ work[w].pc = "create"
    /\ cachesMu = Unlocked
    /\ cachesMu' = w
    /\ Goto(w, "run")
    /\ UNCHANGED <<users, reqs, cachesMap, running, created, informers,
                   runner, workqueue, gc, faults>>

LockAndRecheck_EntryNotTaken(w) ==
    /\ work[w].pc = "create"
    /\ cachesMu = Unlocked
    /\ IF cachesMap[KeyFor(w)] = NoCache
       THEN /\ cachesMu' = w
            /\ Goto(w, "run")
       ELSE /\ work' = [work EXCEPT ![w].pc = "register", ![w].found = TRUE]
            /\ UNCHANGED cachesMu
    /\ UNCHANGED <<users, reqs, cachesMap, running, created, informers,
                   runner, workqueue, gc, faults>>

\* "having done all that, did we really need it?"  If so cache.New, with the
\* mutex held until the runner has taken the new cache.
LockAndRecheck(w) ==
    /\ work[w].pc = "create"
    /\ cachesMu = Unlocked
    /\ LET entry == cachesMap[KeyFor(w)]
       IN  IF entry = NoCache
           THEN /\ cachesMu' = w
                /\ Goto(w, "run")
           ELSE /\ work' = [work EXCEPT ![w].pc = "register",
                                        ![w].found = TRUE,
                                        ![w].cache = entry]
                /\ UNCHANGED cachesMu
    /\ UNCHANGED <<users, reqs, cachesMap, running, created, informers,
                   runner, workqueue, gc, faults>>

RunCache_StillLocked(w) ==
    /\ work[w].pc = "run"
    /\ runner = "started"
    /\ created' = created + 1
    /\ running' = running \cup {created + 1}
    /\ cachesMap' = [cachesMap EXCEPT ![KeyFor(w)] = created + 1]
    /\ work' = [work EXCEPT ![w].pc = "register", ![w].cache = created + 1]
    /\ UNCHANGED <<users, reqs, cachesMu, informers, runner, workqueue, gc, faults>>

\* runner.run: wait for the runner to be ready, hand it the cache; then enter
\* the cache in the map and release the mutex.
RunCache(w) ==
    /\ work[w].pc = "run"
    /\ runner = "started"
    /\ created' = created + 1
    /\ running' = running \cup {created + 1}
    /\ cachesMap' = [cachesMap EXCEPT ![KeyFor(w)] = created + 1]
    /\ cachesMu' = Unlocked
    /\ work' = [work EXCEPT ![w].pc = "register", ![w].cache = created + 1]
    /\ UNCHANGED <<users, reqs, informers, runner, workqueue, gc, faults>>

Register_OnlyIfFound(w) ==
    /\ work[w].pc = "register"
    /\ IF work[w].found THEN Add(KeyFor(w)) ELSE UNCHANGED workqueue
    /\ Goto(w, "informer")
    /\ UNCHANGED <<users, reqs, store, runner, gc, faults>>

\* cachesGC.register
Register(w) ==
    /\ work[w].pc = "register"
    /\ Add(KeyFor(w))
    /\ Goto(w, "informer")
    /\ UNCHANGED <<users, reqs, store, runner, gc, faults>>

\* GetInformer begins: the informer exists from now on.  If the cache has been
\* started and the informer not synced, the call waits.
GetInformer(w) ==
    /\ work[w].pc = "informer"
    /\ LET c == work[w].cache
       IN  /\ informed' = informed \cup {c}
           /\ Goto(w, IF c \in started \ synced THEN "wait" ELSE "handler")
    /\ UNCHANGED <<users, reqs, entries, started, synced, handled,
                   runner, workqueue, gc, faults>>

\* GetInformer ends, because the informer has synced or the manager is being
\* stopped; there is no other deadline.
AwaitSync(w) ==
    /\ work[w].pc = "wait"
    /\ \/ work[w].cache \in synced /\ Goto(w, "handler") /\ UNCHANGED reqs
       \/ work[w].cache \notin synced /\ runner = "stopped" /\ Fail(w)
    /\ UNCHANGED <<users, store, runner, workqueue, gc, faults>>

InstallHandler_Never(w) ==
    /\ work[w].pc = "handler"
    /\ Succeed(w)
    /\ UNCHANGED <<users, store, runner, workqueue, gc, faults>>

\* Install the event handler if this call made the cache.  If the cache has
\* been cancelled meanwhile, its informer may have stopped and accept none.
InstallHandler(w) ==
    /\ work[w].pc = "handler"
    /\ \/ /\ Succeed(w)
          /\ handled' = IF work[w].found THEN handled ELSE handled \cup {work[w].cache}
       \/ /\ ~work[w].found /\ work[w].cache \notin running
          /\ Fail(w)
          /\ UNCHANGED handled
    /\ UNCHANGED <<users, entries, started, informed, synced,
                   runner, workqueue, gc, faults>>

\* Reading the kubeconfig, creating the cache or getting its informer fails
\* and watchTargetAndGetReader returns the error; what it has entered in the
\* map stays there.
WatchFails(w) ==
    /\ errors < MaxErrors
    /\ errors' = errors + 1
    /\ \/ work[w].pc \in {"config", "informer"}
       \/ /\ work[w].pc = "create"
          /\ cachesMu = Unlocked
          /\ cachesMap[KeyFor(w)] = NoCache
    /\ Fail(w)
    /\ UNCHANGED <<users, store, runner, workqueue, gc, abandoned, listErrors>>

-----------------------------------------------------------------------------
(***************************************************************************)
(* The caches (sigs.k8s.io/controller-runtime/pkg/cache).                  *)
(***************************************************************************)

\* The goroutine of cache c gets to call Start, be the cache cancelled or not.
StartCache(c) ==
    /\ c \in 1..created
    /\ c \notin started
    /\ started' = started \cup {c}
    /\ UNCHANGED <<users, reqs, work, entries, informed, synced, handled,
                   runner, workqueue, gc, faults>>

\* The cluster has answered the list of the informer in k's cache.  A cache
\* that has been cancelled lists nothing any more.
InformerSync(k) ==
    /\ cachesMap[k] \in (started \cap informed \cap running) \ synced
    /\ synced' = synced \cup {cachesMap[k]}
    /\ UNCHANGED <<users, reqs, work, entries, started, informed, handled,
                   runner, workqueue, gc, faults>>

-----------------------------------------------------------------------------
(***************************************************************************)
(* The collector: gc.loop.                                                 *)
(***************************************************************************)

TakeKey(k) ==
    /\ gc.pc = "get"
    /\ k \in queue
    /\ queue' = queue \ {k}
    /\ processing' = processing \cup {k}
    /\ gc' = [pc |-> "check", key |-> k]
    /\ UNCHANGED <<users, reqs, work, store, runner, dirty, delayed, faults>>

KeepUsed_NotRequeued ==
    /\ gc.pc = "check"
    /\ Used(gc.key)
    /\ FinishKey(gc.key, FALSE)
    /\ gc' = [pc |-> "get", key |-> NoKey]
    /\ UNCHANGED <<users, reqs, work, store, runner, faults>>

\* isCacheUsed says true: Done, and AddRateLimited.
KeepUsed ==
    /\ gc.pc = "check"
    /\ Used(gc.key)
    /\ FinishKey(gc.key, TRUE)
    /\ gc' = [pc |-> "get", key |-> NoKey]
    /\ UNCHANGED <<users, reqs, work, store, runner, faults>>

GiveUpUnused_EvenIfUsed ==
    /\ gc.pc = "check"
    /\ FinishKey(gc.key, FALSE)
    /\ gc' = [gc EXCEPT !.pc = "remove"]
    /\ UNCHANGED <<users, reqs, work, store, runner, faults>>

\* isCacheUsed says false: Forget, Done, and on to removeCache.
GiveUpUnused ==
    /\ gc.pc = "check"
    /\ ~Used(gc.key)
    /\ FinishKey(gc.key, FALSE)
    /\ gc' = [gc EXCEPT !.pc = "remove"]
    /\ UNCHANGED <<users, reqs, work, store, runner, faults>>

\* isCacheUsed returns an error, which is logged: neither Done nor requeued.
CheckFails ==
    /\ gc.pc = "check"
    /\ listErrors < MaxListErrors
    /\ listErrors' = listErrors + 1
    /\ abandoned' = abandoned \cup {gc.key}
    /\ gc' = [pc |-> "get", key |-> NoKey]
    /\ UNCHANGED <<users, reqs, work, store, runner, workqueue, errors>>

\* removeCache: cancel the cache and delete it from the map, if it is there.
RemoveCache ==
    /\ gc.pc = "remove"
    /\ cachesMu = Unlocked
    /\ running' = running \ {cachesMap[gc.key]}
    /\ cachesMap' = [cachesMap EXCEPT ![gc.key] = NoCache]
    /\ gc' = [pc |-> "get", key |-> NoKey]
    /\ UNCHANGED <<users, reqs, work, cachesMu, created, informers, runner,
                   workqueue, faults>>

\* queue.Get: shut down, and nothing left to take.
ExitLoop ==
    /\ gc.pc = "get"
    /\ runner = "stopped"
    /\ queue = {}
    /\ gc' = [gc EXCEPT !.pc = "exited"]
    /\ UNCHANGED <<users, reqs, work, store, runner, workqueue, faults>>

-----------------------------------------------------------------------------
(***************************************************************************)
(* The manager and the users.                                              *)
(***************************************************************************)

\* runner.Start
StartRunner ==
    /\ runner = "new"
    /\ runner' = "started"
    /\ UNCHANGED <<users, reqs, work, store, workqueue, gc, faults>>

\* The manager's context is cancelled: the runner returns, the contexts of
\* all caches are cancelled, gc.queue is shut down.
Shutdown ==
    /\ MayShutdown
    /\ runner = "started"
    /\ runner' = "stopped"
    /\ running' = {}
    /\ delayed' = {}
    /\ UNCHANGED <<users, reqs, work, cachesMu, cachesMap, created, informers,
                   queue, dirty, processing, gc, faults>>

CreatePipeline(p) ==
    /\ p \notin born
    /\ born' = born \cup {p}
    /\ pipes' = pipes \cup {p}
    /\ requests' = requests \cup {p}
    /\ UNCHANGED <<reported, work, store, runner, workqueue, gc, faults>>

\* An update of the Pipeline, of its status or of an application queues it.
TouchPipeline(p) ==
    /\ p \in pipes
    /\ requests' = requests \cup {p}
    /\ UNCHANGED <<users, reported, work, store, runner, workqueue, gc, faults>>

DeletePipeline(p) ==
    /\ MayDelete
    /\ p \in pipes
    /\ pipes' = pipes \ {p}
    /\ requests' = requests \cup {p}
    /\ UNCHANGED <<born, reported, work, store, runner, workqueue, gc, faults>>

-----------------------------------------------------------------------------

WatchTarget(w) ==
    \/ LookupCache(w)
    \/ GetConfig(w)
    \/ LockAndRecheck(w)
    \/ RunCache(w)
    \/ Register(w)
    \/ GetInformer(w)
    \/ AwaitSync(w)
    \/ InstallHandler(w)

CheckKey == KeepUsed \/ GiveUpUnused

Next ==
    \/ \E w \in Worker : \E p \in Pipe : StartReconcile(w, p)
    \/ \E w \in Worker : WatchTarget(w)
    \/ \E w \in Worker : WatchFails(w)
    \/ \E c \in 1..created : StartCache(c)
    \/ \E k \in Key : InformerSync(k)
    \/ \E k \in Key : TakeKey(k)
    \/ \E k \in Key : DelayElapsed(k)
    \/ CheckKey
    \/ CheckFails
    \/ RemoveCache
    \/ ExitLoop
    \/ StartRunner
    \/ Shutdown
    \/ \E p \in Pipe : CreatePipeline(p)
    \/ \E p \in Pipe : TouchPipeline(p)
    \/ \E p \in Pipe : DeletePipeline(p)

Spec == Init /\ [][Next]_vars

\* Threads that can go on do, and the mutex starves nobody; gc.queue is a
\* FIFO, and so is the controller's, so that a key or a Pipeline that keeps
\* waiting is taken at last.  A cache in the map gets to run, and its cluster
\* answers in the end.
Fairness ==
    /\ WF_vars(StartRunner)
    /\ \A w \in Worker : SF_vars(WatchTarget(w))
    /\ \A p \in Pipe : SF_vars(\E w \in Worker : StartReconcile(w, p))
    /\ \A k \in Key : WF_vars(StartCache(cachesMap[k]))
    /\ \A k \in Key : WF_vars(InformerSync(k))
    /\ \A k \in Key : SF_vars(TakeKey(k))
    /\ \A k \in Key : WF_vars(DelayElapsed(k))
    /\ WF_vars(CheckKey)
    /\ SF_vars(RemoveCache)
    /\ WF_vars(ExitLoop)

FairSpec == Spec /\ Fairness

-----------------------------------------------------------------------------
(***************************************************************************)
(* Properties.                                                             *)
(***************************************************************************)

Position == [pc : {"idle", "lookup", "config", "create", "run", "register",
                   "informer", "wait", "handler"},
             pipe : Pipe \cup {NoPipe}, found : BOOLEAN, cache : Nat]

\* where in watchTargetAndGetReader a worker has got hold of a cache
HasCache == {"register", "informer", "wait", "handler"}

\* Every variable has the shape the code gives it; a worker that is in
\* watchTargetAndGetReader is there for a Pipeline and, once it is about to
\* use a cache, has one; the collector past queue.Get is there for a key.
TypeOK ==
    /\ pipes \subseteq Pipe
    /\ born \subseteq Pipe
    /\ reported \subseteq Pipe
    /\ requests \subseteq Pipe
    /\ work \in [Worker -> Position]
    /\ \A w \in Worker : work[w].pc # "idle" => work[w].pipe \in Pipe
    /\ \A w \in Worker : work[w].pc \in HasCache => work[w].cache \in 1..created
    /\ cachesMu \in Worker \cup {Unlocked}
    /\ created \in Nat
    /\ cachesMap \in [Key -> 0..created]
    /\ running \subseteq 1..created
    /\ synced \subseteq started \cap informed
    /\ started \cup informed \cup handled \subseteq 1..created
    /\ runner \in {"new", "started", "stopped"}
    /\ queue \subseteq Key
    /\ dirty \subseteq Key
    /\ processing \subseteq Key
    /\ delayed \subseteq Key
    /\ gc \in [pc : {"get", "check", "remove", "exited"}, key : Key \cup {NoKey}]
    /\ (gc.pc \in {"check", "remove"} => gc.key \in Key)
    /\ abandoned \subseteq Key
    /\ errors \in 0..MaxErrors
    /\ listErrors \in 0..MaxListErrors

\* Until shutdown, a cache in the map has its key where the collector will
\* come to it again (waiting, delayed, or being checked or removed), or with
\* the worker that is about to register it.  The one way out is a check that
\* fails (gc.loop): its key stays in processing for good, and the cache, used
\* or not, stays for as long as the process.
Accounted ==
    runner # "stopped" =>
        \A k \in Key \ abandoned : cachesMap[k] # NoCache =>
            \/ k \in queue \cup delayed
            \/ gc.pc \in {"check", "remove"} /\ gc.key = k
            \/ \E w \in Worker : work[w].pc = "register" /\ KeyFor(w) = k

\* A cache runs as long as it is in the map: none is started twice for a key
\* and lost, none is left running when it is removed, and none in the map is
\* dead (LockAndRecheck, removeCache).
RunningIffMapped ==
    runner # "stopped" =>
        running = {cachesMap[k] : k \in Key} \ {NoCache}

\* "Check that when we stop using a {cluster, GVK}, the cache for that is
\* (eventually) dismantled": a key that from some point on no Pipeline uses
\* has, from some point on, no cache (gc.loop), unless its check has failed.
UnusedDismantled ==
    \A k \in Key : <>[](~Used(k) /\ runner # "stopped" /\ k \notin abandoned)
                       => <>[](cachesMap[k] = NoCache)

\* the worker waits for the informer of a cache that has been cancelled
Stuck(w) == work[w].pc = "wait" /\ work[w].cache \notin running \cup synced

\* A call of watchTargetAndGetReader returns, unless the manager stops or the
\* collector cancels the cache before its informer has synced: neither the
\* mutex nor the runner's channel keeps a worker waiting.  (That every cluster
\* answers its list is assumed; a call for one that does not waits as well.)
WatchReturns ==
    \A w \in Worker :
        work[w].pc # "idle" ~> work[w].pc = "idle" \/ runner = "stopped" \/ Stuck(w)

\* "installing watches so that app object updates will trigger reconciliation
\* of the pipelines that use them": once things settle, the cache for a key in
\* use has the event handler on its informer (watchTargetAndGetReader).
UsedCacheHandled ==
    <>[](runner # "stopped" =>
            \A k \in Key : Used(k) /\ cachesMap[k] # NoCache => cachesMap[k] \in handled)

\* "watchTargetAndGetReader ensures that the type (GroupVersionKind) of the
\* target in the cluster given is being watched": once things settle, and unless
\* a Pipeline has been deleted, there is a cache for every key in use.  (After a
\* deletion the collector may remove a cache that another Pipeline has come to
\* use since isCacheUsed looked.)
UsedCacheKept ==
    <>[](runner # "stopped" /\ pipes = born =>
            \A k \in Key : Used(k) => cachesMap[k] # NoCache)

Pool == INSTANCE CachePool WITH
            used      <- {KeyOf[p] : p \in pipes},
            pool      <- cachesMap,
            issued    <- created,
            condemned <- IF gc.pc = "remove" THEN {cachesMap[gc.key]} \ {NoCache} ELSE {}

\* With one worker, which is what the controller runs, a cache is removed only
\* if its key was unused at a moment of that cache's own life: between
\* isCacheUsed and removeCache (gc.loop) a Pipeline may come to use the key and
\* lose the cache, but no new cache takes the place of the one that was checked.
ImplementsPool == Pool!Spec

=============================================================================
