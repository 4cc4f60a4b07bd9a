# A TLA+ model of the pipeline controller

The pipeline controller promotes an application through an ordered list of
environments (`dev`, `staging`, `prod`, ...), each with targets on clusters.
This directory holds TLA+ modules for the parts of it that are hard to test:
what is decided from stale caches, what several goroutines do to one status
object, how per-cluster caches come and go, what concurrent promotions do to a
git repository, and how requests are counted. TLC
checks them on small instances, TLAPS proves all safety properties for all
instances. `PROJECT.json` lists components, runs, mutants, findings, hazards
and theorems, and maps each definition to the lines it models.

## The system

| part | state | operations | meets |
|---|---|---|---|
| level-triggered reconciler (`controllers/leveltriggered/controller.go`) | none of its own; the Pipeline's status | `Reconcile`: read targets, patch status, decide, promote | manager's cache, target caches, strategies, webhook handlers (through the status) |
| target caches, collector, runner (`caching.go`, `runner.go`) | `cachesMap` under `cachesMu`, the collector's workqueue, the runner's channel | `watchTargetAndGetReader`, `gc.loop`, `removeCache`, `runner.run` | workers of the reconciler, informers on other clusters |
| indices (`indexing.go`, `controllers/pipeline_indexing.go`) | indices of the manager's cache | Pipelines by cluster, by target, by cache | event handlers, collector |
| edge-triggered reconciler (`controllers/pipeline_controller.go`) | the Pipeline's status | check clusters, patch status | webhook handlers (through the status) |
| promotion and approval handlers (`server/`) | the revision waiting for approval, in the status | `ServeHTTP` of both | signatures, retry, strategies, reconcilers |
| rate limiter (`pkg/ratelimiter`) | entries per client under a mutex | `Hit`, `cleaner`, `Shutdown` | in front of both handlers |
| retry (`pkg/retry`) | none | `Exponential` | promotion handler |
| strategies and their registry (`server/strategy`) | none of their own; git branches and pull requests, outside | `StrategyRegistry.Get`, `Promote` of pull request and notification | git, git providers; called by the promotion handlers and the level-triggered reconciler |
| git providers (`internal/git`) | a client per call | set up, create, list and update pull requests | GitHub, GitLab, Bitbucket Server |

What is hard about it:

* Everything is read from caches that lag, one object after the other, and the
  decision to promote combines these reads.
* After a successful `Reconcile` nothing requeues the Pipeline. Progress rests
  on each change reaching a watch and the watch reaching the queue.
* Status is written by merge patches against stale copies by the reconcilers
  and by optimistic updates by the handlers, to the same object.
* Caches are created by workers and removed by a collector, with a mutex held
  across a blocking channel send, and with errors possible in between.
* Processes crash between a promotion and the record of it.
* A promotion that failed is tried again whether or not the failed try had an
  effect, and several promotions may work on the same branch and pull request.

What correctness means for each part is stated by the properties below.

## Modules

| module | models |
|---|---|
| `PipelineSpec` | environments, revisions and promotion settings of a Pipeline; `GetPromotion` |
| `LevelTriggered` | the level-triggered reconciler on one Pipeline, with caches, API server and clusters |
| `CacheLifecycle` | target caches, collector, workqueue, runner, workers |
| `CachePool` | abstract: a pool of caches, each of which goes only after its key was unused; implemented by `CacheLifecycle` |
| `Webhook` | both webhook handlers and a reconciler on one Pipeline's status |
| `EdgeTriggered` | the edge-triggered reconciler on one Pipeline, with its informers, queue and timers |
| `GitProviders` | how clients of git providers and their references are made from a URL |
| `PullRequest` | the strategies: concurrent calls of `Promote` against one git repository; extends `GitProviders` |
| `RateLimiter` | the rate limiter in discrete time |
| `LevelTriggeredProofs`, `CacheLifecycleProofs`, `WebhookProofs`, `EdgeTriggeredProofs`, `PullRequestProofs`, `RateLimiterProofs` | theorems about the module each extends |
| `MCLevelTriggered`, `MCCacheLifecycle`, `MCWebhook`, `MCEdgeTriggered`, `MCPullRequest` | constants of the runs (`RateLimiter` needs none) |

Definitions named `X_Y` right before a definition `X` are variants of `X` with
a plausible mistake in it. No specification uses them; they are there to show
that a property notices the mistake (`mutants` in `PROJECT.json`).

### LevelTriggered

`app` and `cluster` are the world, `view` and `plview` what the informers and
the manager's cache have of it, `pl` the Pipeline at the API server, `queued`
the workqueue, `rec` the call of `Reconcile` in progress, with the status it
builds and the base of its next patch. A call is `StartReconcile`, then
`GetCluster` and `GetApplication` per target, `PatchStatus`, `Decide` and
`Promote`; everything else may move between any two of them. `ReconcileFails`
is any call that returns an error, `Restart` the end and start of the process,
`PromotePanics` the nil dereference of `*pipeline.Spec.Promotion`.

The arrival of an update in an informer queues the Pipeline, but for these
places of the code, and `lost` remembers that one of them was passed and no
later `Reconcile` has begun:

* A delete that comes as a tombstone is no `client.Object` (`caching.go:218`),
  and for any event the index may fail to answer (`caching.go:223`): the handler
  drops the event (`UpdateEventLost`, `SyncEventsLost`).
* A cluster's event is dropped when the index cannot be listed
  (`indexing.go:50`, `ClusterEventLost`).
* A cache whose first `GetInformer` failed (`caching.go:211`) has no event handler
  and gets none as long as the process lives (`WatchFails`; `deaf`).

The first two need `Lossy`.

A patch is the merge patch between the copy read and the status built, applied
to whatever the server has by then; lists are replaced as a whole.

Abstracted: revisions are numbers in the order of building, errors are their
causes, condition reasons and messages and `observedGeneration` are left out,
as are the events for users. A target spec that cannot be interpreted
(`targetObject`) does not occur. The Pipeline's spec does not change, and has
at least one environment.
The GitOps agents are external: in the first environment they deploy
anything newer, elsewhere what has been promoted; an agent going back is a
disruption. An informer's update of its store and the call of the event
handler are one step: a reconciliation between them would come in addition to
the one the event causes.

### CacheLifecycle

`work` says where each worker is in `watchTargetAndGetReader`; `cachesMu`,
`cachesMap`, `running`, `handled` are the caches; `queue`, `dirty`,
`processing`, `delayed` are client-go's rate limiting workqueue; `gc` is the
collector's loop. The mutex is held from `LockAndRecheck` to `RunCache`, as in
the code, where `runner.run` blocks. Pipelines have one target each.
That a worker's first success queues its Pipeline again stands for the status
it writes.

A cache is started by its own goroutine (`StartCache`) and its informer is made by
`GetInformer`, which waits until it has synced if the cache has been started
(`AwaitSync`); the context is that of `Reconcile` and has no deadline.
`InformerSync` is the cluster's answer, which a cancelled cache does not get any
more. This much of controller-runtime is external, as are the sets of client-go's
queue. `abandoned` are the keys whose check has failed (`caching.go:380`).

The controller runs one worker. `cache_safety` has two, since the code locks as
if there were more, and its properties hold for any number; the liveness
properties and the refinement are about one.

### CachePool

A cache per key, or none; `Open` makes one, `Condemn` notes that the key of one
is unused, `Close` removes a condemned one. The collector's check and its removal
are two steps, so a Pipeline may come to use the key in between, and the pool
allows that. It does not allow that another cache goes in place of the one that
was condemned. `CacheLifecycle` maps `condemned` to the cache of the key that the
collector is about to remove.

### Webhook

Each request is a goroutine (`req`) that reads from `plview`; an update of the
status is refused unless its copy has the latest `rv`. The reconciler is the
edge-triggered one (reads, reads again, patches to what it read first), the
level-triggered one (patches to a fresh status), as `main` chose at the start.
An environment
without an entry in `status.environments` is told apart from one with an empty
entry, since merge patches tell them apart. Request defects are enumerated in
the order of the checks. The secret that counts is the one of
`spec.promotion`, as in `verifyXSignature`; that it cannot be read is answered like
a wrong signature. Each environment has targets.
A strategy's `Promote` is atomic, or fails; its steps are in `PullRequest`.
201 and 204 are one code.

### EdgeTriggered

`pipeline` and `cluster` are at the API server; `plog` and `clog` are the
versions the informers have yet to see, `plview` and `clview` the ones they
have, so each informer lags on its own. The store of clusters changes before
the event handler runs (`notices`), as in client-go; of the Pipeline both are
one step, since an event that is late only means one more look. `queued`,
`retry` and `timer` are the three ways in which the Pipeline is due again.
`Reconcile` is `Take`, `CheckCluster` per target, `GetAgain` and `PatchStatus`.
A patch has the fields in which the new status and the second copy differ; the
condition also differs if only `lastTransitionTime` does (`Stamps`). Targets
without a cluster are not listed in the spec, as the loop passes over them.

### GitProviders and PullRequest

`GitProviders` follows the repository's domain from the URL to the client and
to the reference of each call, with what the functions in between do to its
scheme; `Reaches` is the library's check that the two agree. `PullRequest` has
calls of `Promote` (`call`), a remote repository (`base`, `heads`) and its pull
requests (`prs`). A branch is its commits, the versions in its manifests at
the tip, and those where it left the base. `Prepare` is one step because only
the clone sees the remote; `Push`, `CreatePullRequest`, `ListPullRequests` and
`UpdatePullRequest` follow. Each may fail, and those that write may fail after
having written (`...AnswerLost`). People merge, with the commits or squashed,
and close, and delete the branch or not. `trouble` remembers what happened to
a try, for the properties to tell what it may be blamed for.

git and the providers are external, and modelled by what the code relies on:
`SwitchBranch` takes up the head branch if the clone has it (the code's
handling of "already up-to-date" and of existing pull requests makes sense only
then), a push must fast-forward, a branch has one open pull request at most,
lists have the latest first. Manifests mark one field per environment.
Namespaces, names and environments are sequences of parts, joined into the
name of a branch. Different ones may join to the same name; nothing is assumed
about that, and `MergesOwnBranch` says what becomes of it.

### RateLimiter

Time is in ticks; the cleaner runs in the tick it is due. `windows` and
`accepted` record which entry let which request through. The hit count stops
at one above the limit, where all further hits are refused alike.

## Runs

Passing runs:

| run | bounds | shows |
|---|---|---|
| `level_gate` | 2 dev targets, 1 prod target, 3 revisions, 1 fault | `PromotedOnlyProven`, `PromotionsMoveForward`, `TypeOK` |
| `level_world` | dev and remote prod, 2 revisions, 1 fault and 1 disruption of any kind, lost events, no default promotion | `StatusOnlyProven`, also across the crash loop |
| `level_live` | dev and remote prod, 2 revisions, 1 fault (a failing call with or without a trace, a restart, a dropped event) or 1 disruption | `StatusConverges`, `PromotionDelivered`, both unless `lost` |
| `cache_safety` | 2 workers, 2 Pipelines on 1 key, 1 error of each kind, shutdown | `Accounted`, `RunningIffMapped`, `TypeOK` |
| `cache_live` | 1 worker, 2 Pipelines on 1 key, deletions, 1 failing check by the collector | `UnusedDismantled`, `WatchReturns`, `UsedCacheHandled`, `UsedCacheKept`, `ImplementsPool` |
| `webhook` | 3 environments (the last manual), 3 requests, one of any kind and defect, 2 revisions, 2 failures, 1 crash, 1 reconciliation of either kind | `PromotedOnlyNotified`, `ManualOnlyApproved`, `AcknowledgedNotLost`, `UpdatesKeepTheRest`, `ResetOnlyPromoted`, and `TypeOK` with the bound on tries |
| `edge_live` | 2 clusters, specs with one or both, 3 changes of any kind | `QuietIsRight`, `StatusConverges`, `RecoveryNoticed`, `TypeOK` |
| `pull_request` | 3 environments in 1 repository, two of which share the name of their branch, 2 versions, 2 calls of 2 tries, 2 faults, 2 merges or closings, 4 good and 9 odd settings | `FailsForCause`, `NothingLost`, `ProposedAsAsked`, `MergesOwnBranch`, `TypeOK` |
| `rate_limiter` | 1 client, limit 2, duration 4, period 3, 13 ticks | `AtMostTwiceLimit`, `EntriesExpire`, `TypeOK` |

The bounds let the cases the properties are about happen: two targets of one
environment at different revisions, three revisions so that an old one can come
back after two newer ones, a fault between any two steps, two workers missing
the same key, a third request between the two that a manual promotion takes,
three entries of a client in a row, a Pipeline that is deleted and created anew
with a third change in between, two promotions that pushed to the same branch
and whose answers were both lost, a merge and another one of the next promotion
from the same branch. One fault or disruption suffices for each
property to be at stake, and mutants confirm that each property can fail under
the bounds of its run. `level_live` keeps to behaviours in which one thing goes
wrong (`OneTrouble`), which may be a lost event: trouble is never obliged to happen, so cutting it off
does not cut off what fairness requires. Requests (`webhook`) and calls
(`pull_request`) are symmetric. Clients do not influence each other in the rate limiter, so
one is enough. Deadlock is not checked: in each model the world may come to
rest, and the system with it (the liveness properties say what holds then).

Runs that TLC refutes, each a finding in `PROJECT.json` with the sentence it
contradicts:

| run | what TLC finds |
|---|---|
| `level_no_default` | a promotion set on the environment only makes the controller panic for ever |
| `cache_no_handler` | a failing `GetInformer` leaves a cache without event handler |
| `webhook_level` | the level-triggered reconciler drops the revision waiting for approval |

### Further disagreements

These follow from the models but have no run of their own. They mark where the
properties above had to be weakened, or are not stated.

* `promoteLatestRevision` (`controller.go:280`) does not look at `Manual`: the
  level-triggered controller promotes to manual environments at once, against
  `pipeline_types.go:72` ("Manual option to allow promotion between to require
  manual approval before proceeding.").
* `promoteLatestRevision` (`controller.go:297`) calls the strategy with the
  Pipeline's promotion even where the environment overrides it.
* `setTargetStatus` leaves `error` empty for a target that is present and not
  ready, against the comment on `TargetStatus.Error`.
* After a failing `isCacheUsed` (`caching.go:380`) the key is neither done nor
  queued again: its cache, used or not, stays as long as the process.
  `Accounted` and `UnusedDismantled` except such a key (`abandoned`).
* `WatchReturns` fails without its exception `Stuck`: if the last Pipeline that uses
  a key is deleted and the collector cancels the cache before its first list,
  the worker that waits for the list in `GetInformer` (`caching.go:211`) waits for
  ever, as the context has no deadline. Apart from that, fairness has each
  cluster answer the first list. One that does not, because it is down or
  forbids the list, keeps the controller's only worker there too, and with it
  every Pipeline.
* With two workers `ImplementsPool` fails: both register the key, the second time
  perhaps after the cache was removed, and the collector, having found a key
  unused that has no cache, removes the one that is made next.
* With a deletion, `UsedCacheKept` would fail without its condition
  `pipes = born`: the collector has found the key unused (`caching.go:379`),
  a new Pipeline is reconciled with the cache, then `removeCache` takes it.
* With `MayShutdown = TRUE` a worker in `runner.run` (`caching.go:191`) when
  the runner returns keeps the mutex; `gc.loop` may wait for it for ever.
* With `Reconcilers = {"edge"}`, `ReconcilerKeepsWaiting` fails as well: between
  its two reads (`pipeline_controller.go:176`) a handler may have written.
* `resetWaitingApproval` (`approval_handler.go:153`) reads the Pipeline again and
  resets whatever waits by then, also a later revision that came to wait during
  the promotion of the approved one, and whose request was answered with
  success. `ResetOnlyPromoted` says when something is reset, not what.
* An approval is checked against a copy from the cache (`approval_handler.go:72`):
  a revision that has been replaced, or approved and promoted, meanwhile is
  promoted (again). `ManualOnlyApproved` says only that it has waited once.
  After a crash between promotion and reset (`approval_handler.go:109`) the same
  approval promotes again as well.
* A retry threshold of n is n tries (`exponential.go:64`), not n retries, and
  the limiter lets up to twice its limit through in an interval that spans two
  entries, against the descriptions of the flags in `main.go`.
* An empty `spec.environments`, which the CRD admits, makes
  `controller.go:213` panic.
* Without `~lost`, `StatusConverges` and `PromotionDelivered` of `LevelTriggered`
  fail: a dropped event (`caching.go:218`, `caching.go:223`, `indexing.go:50`) or one
  that no handler receives (`caching.go:211`) leaves the status as it was, and a due
  promotion undelivered, until something else queues the Pipeline. In a cache
  without handler that is so for every update. The same goes for
  `StatusConverges` of `EdgeTriggered`: a cluster that is lost unnoticed stays
  ready in the status (`pipeline_indexing.go:49`), as a ready Pipeline is not
  requeued.
* The edge-triggered status may for a while have the new `observedGeneration`
  with the condition of the old one (`pipeline_controller.go:180`): the two are
  patched as separate fields.
* `FailsForCause` excepts Bitbucket Server with an open pull request, and
  type `gitlab` at gitlab.com or github.com. In `ListPullRequests` (`bitbucket_server.go:149`) and
  `UpdatePullRequest` the repository is looked up by its path instead of its
  project key, so that an existing pull request is never found. For the two
  hosts the client has the domain with a scheme (`pullrequest/gitprovider.go:108`)
  and the references are without (`utils.go:82`).
* Token and URL are checked after the push (`pullrequest.go:149`).
* Promoting a version again whose pull request was merged fails
  (`pullrequest.go:222`), and each retry of it.
* `existingPR.Source == head` (`pullrequest.go:214`) accepts merged and closed
  pull requests where the provider lists them (GitLab): after a transient error
  of `CreatePullRequest`, `Promote` retitles one of them and reports success.
* If two promotions of one environment overlap, the title may be of the older
  and the content of the newer (`pullrequest.go:225`); `ProposedAsAsked` is
  stated for tries that nobody else interfered with.
* Branch names join namespace, name and environment with dashes
  (`pullrequest.go:94`), so that `a`/`b-c` and `a-b`/`c` share a branch, and a merge
  brings the versions of both; `MergesOwnBranch` allows that for such names only.
* `ParseBitbucketServerURL` (`gitprovider.go:170`) panics for a URL without
  `.git`, as it indexes a nil match before it checks.
* `pullrequest_integration_test.go` sets `Promotion.PullRequest`, which has
  moved to `Promotion.Strategy`; it does not compile.

### Fairness

`LevelTriggered!Fairness` is weak fairness of the worker's steps, of the
manager's cache and of each informer: goroutines that can run do, and watches
deliver. Faults and disruptions are bounded and never obliged to happen; the
world is not obliged to move at all.

`CacheLifecycle!Fairness` is weak fairness of threads that no other can
disable, and strong fairness where a thread needs the mutex (Go's mutex hands
over to a waiter that has starved) or an item of a FIFO queue (other items
pass it only once). A cache in the map gets to run, and its cluster answers the
first list in the end: the second is an assumption about clusters, not about
the code.

`EdgeTriggered!Fairness` is weak fairness of the worker, the informers, the
event handlers, the rate limiting queue and `RequeueAfter`. A failing call is
never obliged to happen and `MaxChanges` bounds them with everything else that
is not the controller's doing, so that behaviours end in a quiet stretch; the
properties speak about that.

`Webhook`, `PullRequest` and `RateLimiter` state safety only.

## Proofs

`LevelTriggeredProofs` assumes `PipelineSpecAssumption` and
`LevelTriggeredAssumption` only: any environments, targets, clusters,
revisions, faults and disruptions.

* `TypeCorrect`: `Spec => []TypeOK`. Not inductive alone: that `Promote` has a
  revision to promote needs `ToldNotToWait` (in "promote", `MustWait` is
  false).
* `OnlyProvenPromoted`, `OnlyProvenReported`: from `GateInvariant`. `GateInv`
  says that evidence accompanies each claim along its way: what is ready in a
  cluster or in an informer's copy has been proven (`AppsProven`), and so is
  each target that is reported ready in any copy of the status, the ones at
  the server, in the cache, in memory and as base of a patch
  (`StatusesProven`, needed because a merge patch mixes three of them).
  Evidence is never withdrawn, so no later change of the world can hurt.
* `PromotionsForward`: if the first environment does not roll back, every
  promotion has at least the revision of all before. `ForwardInv` orders, for
  each target of the first environment, promotions, the status in memory, the
  informer's copy and the cluster.

`CacheLifecycleProofs` assumes `CacheLifecycleAssumption` only: any keys,
Pipelines and workers.

* `TypeCorrect`, and `NoneEscapes` (`Accounted`) and `MappedRun`
  (`RunningIffMapped`) from `CacheInvariant`. `CacheInv` adds that the holder
  of the mutex is the one worker in "run" and its key has no cache
  (`MutexGuards`), that caches are numbered by creation and no two keys share
  one (`Numbered`), and that the key the collector checks is in processing
  (`TakenIsProcessed`). `NoneEscapes` excepts the keys in `abandoned`, of which
  the code does lose sight.
* `PoolImplemented`: with one worker, `Spec => ImplementsPool`. That the collector
  removes what it has checked takes more than the mutex: no key may come to
  the collector that has no cache. `HandInv` says that a key which is queued,
  delayed, being registered or taken has a cache and is so in one way only
  (`InHand`), that an abandoned key never reaches the collector again
  (`OutOfReach`), and that a worker about to create a cache is not mistaken about
  there being none.

`WebhookProofs` assumes `PipelineSpecAssumption` and `WebhookAssumption`: any
environments, revisions, requests, tries, failures and crashes, and either
reconciler.

* `TypeCorrect`: with it, that a request past its checks has an environment and
  a revision, and that the tries of a strategy are bounded.
* `OnlyNotifiedPromoted`, `OnlyApprovedManual`, `AcknowledgedKept`, `ResetIsLast`
  (`ResetOnlyPromoted`): from `ApprovalInvariant`. A handler decides by a copy of the status, and merge
  patches mix copies, so `ApprovalInv` follows them all: what waits in the
  status at the server, in the cache, in a handler or in either side of a
  reconciler's patch has been recorded (`CopiesRecorded`), and what is recorded
  was notified. `HandlerKnows` says what a handler may rely on at each place:
  one about to promote has been told so by an accepted request and the setting
  is not manual, or by an approval of what was recorded; one about to reset has
  promoted. None of these sets shrinks,
  so it does not matter that the status may have moved on since.
* `RestIsKept`: `Spec => UpdatesKeepTheRest`. `Versioned` says that a copy with the
  resource version of the server's object is that object, so an update which is
  not refused was made from what the server has.

`EdgeTriggeredProofs` assumes `EdgeTriggeredAssumption`: any clusters and
specs, any number of changes and faults.

* `TypeCorrect`, and `RestingStatusIsRight` (`QuietIsRight`). The property speaks
  of rest only and is far from inductive. `EdgeInv` says that the logs of the
  informers end in what the server has (`LogsLead`), that unless the Pipeline
  is queued the copy in `Reconcile` is the store's (`CopyCurrent`), and that
  unless some event is queued, on its way or lost, `Reconcile` has found out
  what holds in the stores: of the clusters it has passed, of the status it is
  about to patch, and, when done, of the status at the server (`FoundOut`). A
  change that makes this false makes its premise false at the same time.

`PullRequestProofs` assumes `GitProvidersAssumption` and `PullRequestAssumption`:
any environments, whatever their names, any settings, versions,
calls, tries, faults and reviews.

* `TypeCorrect`.
* `OwnBranchMerged` (`MergesOwnBranch`): from `OwnBranches`, which says of each head
  branch, at the remote and in every clone, that it differs from where it left
  the base only in environments whose branch it is, and by versions that were
  asked for. That names differ is not assumed.
* `FailureHasCause` (`FailsForCause`), `SuccessIsKept` (`NothingLost`) and
  `SuccessIsProposed` (`ProposedAsAsked`): from `InvCorrect`. `PullRequestInv`
  adds that commits are numbered as made (`CommitsMade`), that only the latest
  pull request of a branch can be open (`LatestOpen`), and what each call knows
  (`CallInv`): its clone has the version asked for (`Working`), its push
  fast-forwards unless it was disturbed (`Ahead`), what it pushed is on the
  branch or has come to the base, and the pull request it found is the open one
  (`Progress`). The argument is by rely and guarantee: a step is the call's own
  (`OwnKeeps`), or leaves what the call relies on or tells it of the trouble
  (`Around`, `AroundKeeps`). TLC has checked `PullRequestInv` under the bounds of
  `pull_request` as well. The proof found one exception of `FailsForCause` that
  the settings of the run did not have, type `gitlab` at github.com; they have it
  now.

`RateLimiterProofs` assumes `RateLimiterAssumption`: any clients, limit,
duration and period.

* `TypeCorrect`, and `EntriesDoExpire` (`EntriesExpire`) from `CleanerInv`: the
  ticker is at most a period ahead and never late, and no entry survives a
  tick at which it is older than the duration.
* `TwiceLimitAtMost` (`AtMostTwiceLimit`): `WindowInv` says that requests counted
  in entries that are not neighbours are further apart than the duration
  (`Apart` for the entry there is, `Spread` for pairs). So those of one interval
  are of two neighbouring entries, and numbering them by entry and hit is an
  injection into a set of twice the limit.

Only model-checked: the liveness properties (`StatusConverges` of both
reconcilers, `PromotionDelivered`, `RecoveryNoticed`, `UnusedDismantled`,
`WatchReturns`, `UsedCacheHandled`, `UsedCacheKept`), since the prover does not
reason about fairness. Every invariant, action property and refinement of a
passing run is a theorem (`ImplementsPool` for one worker). No module uses a recursive operator.

## Not modelled

* `internal/git/azure.go` and `jenkins_scm.go`: `gitProviderIsValid` refuses
  `azure-devops` before any client is made, so they cannot be reached. The same
  holds for `GetTreeList`, `DeleteBranch`, `CreateBranch`, `GetUpdatedFiles`
  and the loop of `WriteFilesToBranch`: `Promote` passes no commits.
* Retries inside a call of a provider (`retry.OnError`): a call succeeds or
  fails as a whole.
* HMAC computation, retry delays, server set-up, `getRealIP`, events for users.
* Generated code, mocks, charts.
* A handler that blocks on the unbuffered channel (`caching.go:230`): the
  receiving side is controller-runtime's.

## Plan

Left are the safety arguments inside the liveness properties, as invariants
that say what is still on its way whenever the goal has not been reached:

1. `CacheLifecycle`: a cache that is used and has no event handler has a worker
   about to install it, unless `GetInformer` failed (for `UsedCacheHandled`).
2. `LevelTriggered`: at rest, with no event lost, the status is right and no
   promotion is due (for `StatusConverges` and `PromotionDelivered`), as
   `RestingStatusIsRight` says of `EdgeTriggered`.
