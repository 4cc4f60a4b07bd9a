----------------------------- MODULE PullRequest -----------------------------
(***************************************************************************)
(* The strategies behind strategy.Promote (server/strategy), above all the *)
(* pull request strategy, against one git repository.                      *)
(*                                                                         *)
(* Promote clones the repository, writes the version into the manifests on *)
(* a branch of the environment, pushes the branch, and opens a pull        *)
(* request or, if that fails, finds one from this branch and changes its   *)
(* title.  Several calls of Promote may be under way: requests of the      *)
(* webhook are served concurrently, and a call that failed is retried.     *)
(* Meanwhile people merge and close pull requests.                         *)
(*                                                                         *)
(* The repository and the provider are external; they are modelled by what *)
(* Promote relies on: a clone sees one state of the remote, a push must    *)
(* fast-forward, one branch has at most one open pull request.             *)
(***************************************************************************)
EXTENDS GitProviders, FiniteSetsExt, Sequences, Integers

CONSTANTS
    Subject,    \* what is promoted: an environment of a Pipeline
    Version,    \* versions
    Call,       \* calls of Promote, each with its retries
    Asks,       \* what a call may ask for
    Configs,    \* settings of the promotion that a behaviour may start with
    Retries,    \* tries per call
    MaxFaults,  \* bound on failing calls of git and the provider
    MaxReviews  \* bound on what people do to pull requests

\* What is wrong with the settings: no such Secret, no access to the
\* repository, no token in the Secret, a URL the provider cannot parse.
Defect == {"none", "secret", "access", "token", "url"}

Config == [strategies : SUBSET {"pull-request", "notification"},
           type       : GitProviderType,
           host       : Host,
           defect     : Defect]

\* A subject is the Pipeline's namespace and name and the environment's name.
\* A name is the sequence of its parts between dashes, so that different
\* subjects may join to the same branch name.
ASSUME PullRequestAssumption ==
    /\ \A s \in Subject : \A part \in {s.ns, s.name, s.env} : part \in Seq(STRING)
    /\ Version \subseteq Nat \ {0}
    /\ Asks \subseteq [subject : Subject, version : Version]
    /\ Configs \subseteq Config
    /\ Retries \in Nat
    /\ MaxFaults \in Nat
    /\ MaxReviews \in Nat

VARIABLES
    config,   \* the promotion settings
    ask,      \* call -> what it is to promote
    call,     \* call -> where it is
    base,     \* the base branch at the remote
    heads,    \* the head branches at the remote
    prs,      \* the pull requests, by number
    events,   \* events emitted by the notification strategy
    landed,   \* history: commits whose changes have come to the base branch
    commits,  \* commits made so far; also the next one's identity
    faults, reviews

vars == <<config, ask, call, base, heads, prs, events, landed, commits,
          faults, reviews>>

remote == <<base, heads, prs, landed, commits>>

\* The name of the head branch: "promotion-<namespace>-<name>-<environment>".
headBranch_NoEnvironment(s) == s.ns \o s.name

headBranch(s) == s.ns \o s.name \o s.env

HeadName == {headBranch(s) : s \in Subject}

\* A branch: the commits that are reachable from it, the versions in the
\* manifests at its tip, and those at the commit where it left the base.
NoVersion == 0
Tree == [Subject -> Version \cup {NoVersion}]
Branch == [commits : SUBSET Nat, tree : Tree, fork : Tree]
NoBranch == [commits |-> {}, tree |-> [s \in Subject |-> NoVersion],
             fork |-> [s \in Subject |-> NoVersion]]

PR == [source : HeadName, title : Version, state : {"open", "merged", "closed"}]

\* Where a call is: what it does next, or how it ended.
Place == {"start", "push", "create", "list", "update", "done", "failed"}

\* trouble is history: what has happened to this try since it began, that a
\* call of it failed, that another call pushed to its branch, or that a pull
\* request from its branch was merged or closed.
CallState ==
    [pc : Place, try : Nat, local : Branch, number : Nat,
     trouble : SUBSET {"fault", "push", "merged", "closed"}]

Init ==
    /\ config \in Configs
    /\ ask \in [Call -> Asks]
    /\ call = [c \in Call |-> [pc |-> "start", try |-> 1, local |-> NoBranch,
                               number |-> 0, trouble |-> {}]]
    /\ base = [NoBranch EXCEPT !.commits = {0}]
    /\ heads = [h \in HeadName |-> NoBranch]
    /\ prs = <<>>
    /\ events = {}
    /\ landed = {}
    /\ commits = 1
    /\ faults = 0
    /\ reviews = 0

-----------------------------------------------------------------------------
(***************************************************************************)
(* Promote.                                                                *)
(***************************************************************************)

HeadOf(c) == headBranch(ask[c].subject)
InProgress(c) == call[c].pc \in {"push", "create", "list", "update"}

Goto(c, pc) == call' = [call EXCEPT ![c].pc = pc]

\* The branch of c has been pushed; the others that work on it notice.
Pushed(c, next) ==
    /\ heads' = [heads EXCEPT ![HeadOf(c)] = call[c].local]
    /\ call' = [d \in Call |->
          IF d = c THEN next
          ELSE IF HeadOf(d) = HeadOf(c) THEN [call[d] EXCEPT !.trouble = @ \cup {"push"}]
          ELSE call[d]]

\* StrategyRegistry.Get: the first registered strategy that handles this.
Registry == <<"pull-request", "notification">>
Handles(strategy) == strategy \in config.strategies
NoStrategy == "none"
Get == IF \E i \in DOMAIN Registry : Handles(Registry[i])
       THEN Registry[Min({i \in DOMAIN Registry : Handles(Registry[i])})]
       ELSE NoStrategy

\* Notification.Promote
Notify(c) ==
    /\ call[c].pc = "start"
    /\ Get = "notification"
    /\ events' = events \cup {ask[c]}
    /\ Goto(c, "done")
    /\ UNCHANGED <<config, ask, remote, faults, reviews>>

\* SwitchBranch: the head branch as the clone has it, or a new one.
SwitchBranch(h) ==
    IF heads[h] # NoBranch THEN heads[h] ELSE [base EXCEPT !.fork = base.tree]

\* patchManifests sets the fields marked with the subject.
patchManifests(tree, s, v) == [tree EXCEPT ![s] = v]

\* Promote fails before it clones.
Unusable == \/ ~gitProviderIsValid(config.type)
            \/ config.defect \in {"secret", "access"}

\* The checks, the clone and the work on it, up to the commit, if there is
\* anything to commit.  Of this only the clone sees the remote.
Prepare(c) ==
    /\ call[c].pc = "start"
    /\ Get = "pull-request"
    /\ ~Unusable
    /\ LET branch == SwitchBranch(HeadOf(c))
           tree == patchManifests(branch.tree, ask[c].subject, ask[c].version)
           clean == tree = branch.tree
       IN  /\ call' = [call EXCEPT
                ![c].pc = "push",
                ![c].local = IF clean THEN branch
                             ELSE [branch EXCEPT !.tree = tree,
                                                 !.commits = @ \cup {commits}],
                ![c].trouble = {}]
           /\ commits' = IF clean THEN commits ELSE commits + 1
    /\ UNCHANGED <<config, ask, base, heads, prs, events, landed, faults, reviews>>

\* There is no strategy, or the settings are of no use.
Refuse(c) ==
    /\ call[c].pc = "start"
    /\ Get = NoStrategy \/ (Get = "pull-request" /\ Unusable)
    /\ Goto(c, "failed")
    /\ UNCHANGED <<config, ask, remote, events, faults, reviews>>

FastForwards(c) == heads[HeadOf(c)].commits \subseteq call[c].local.commits
UpToDate(c) == heads[HeadOf(c)].commits = call[c].local.commits

Push_UpToDateFails(c) ==
    /\ call[c].pc = "push"
    /\ IF FastForwards(c) /\ ~UpToDate(c)
       THEN Pushed(c, [call[c] EXCEPT !.pc = "create"])
       ELSE Goto(c, "failed") /\ UNCHANGED heads
    /\ UNCHANGED <<config, ask, base, prs, events, landed, commits, faults, reviews>>

Push_Force(c) ==
    /\ call[c].pc = "push"
    /\ Pushed(c, [call[c] EXCEPT !.pc = "create"])
    /\ UNCHANGED <<config, ask, base, prs, events, landed, commits, faults, reviews>>

\* Push.  That the branch is up to date is no error.
Push(c) ==
    /\ call[c].pc = "push"
    /\ IF FastForwards(c)
       THEN IF UpToDate(c)
            THEN Goto(c, "create") /\ UNCHANGED heads
            ELSE Pushed(c, [call[c] EXCEPT !.pc = "create"])
       ELSE Goto(c, "failed") /\ UNCHANGED heads
    /\ UNCHANGED <<config, ask, base, prs, events, landed, commits, faults, reviews>>

\* createPullRequest fails after the push if there is no token in the Secret,
\* or if the provider's URL cannot be parsed.
NoClient == config.defect \in {"token", "url"}

OpenFrom(h) == {n \in DOMAIN prs : prs[n].source = h /\ prs[n].state = "open"}

\* The provider opens a pull request for a branch that has something to merge.
Opens(c) ==
    /\ Reaches(config.type, config.host, "create")
    /\ OpenFrom(HeadOf(c)) = {}
    /\ heads[HeadOf(c)] # NoBranch
    /\ ~(heads[HeadOf(c)].commits \subseteq base.commits)

Opened(c) ==
    prs' = Append(prs, [source |-> HeadOf(c), title |-> ask[c].version, state |-> "open"])

CreatePullRequest(c) ==
    /\ call[c].pc = "create"
    /\ CASE NoClient ->
              Goto(c, "failed") /\ UNCHANGED prs
         [] ~NoClient /\ Opens(c) ->
              /\ Opened(c)
              /\ call' = [call EXCEPT ![c].pc = "done", ![c].number = Len(prs) + 1]
         [] OTHER ->
              Goto(c, "list") /\ UNCHANGED prs
    /\ UNCHANGED <<config, ask, base, heads, events, landed, commits, faults, reviews>>

Listed == {n \in DOMAIN prs : ListsClosed(config.type) \/ prs[n].state = "open"}

\* The listed pull requests from the call's branch.
Matching(c) == {n \in Listed : prs[n].source = HeadOf(c)}

\* Providers list the latest first.
ListPullRequests(c) ==
    /\ call[c].pc = "list"
    /\ IF Reaches(config.type, config.host, "list") /\ Matching(c) # {}
       THEN call' = [call EXCEPT ![c].pc = "update", ![c].number = Max(Matching(c))]
       ELSE Goto(c, "failed")
    /\ UNCHANGED <<config, ask, remote, events, faults, reviews>>

Retitled(c) == prs' = [prs EXCEPT ![call[c].number].title = ask[c].version]

UpdatePullRequest_TitleKept(c) ==
    /\ call[c].pc = "update"
    /\ Goto(c, IF Reaches(config.type, config.host, "update") THEN "done" ELSE "failed")
    /\ UNCHANGED <<config, ask, remote, events, faults, reviews>>

UpdatePullRequest(c) ==
    /\ call[c].pc = "update"
    /\ IF Reaches(config.type, config.host, "update")
       THEN Retitled(c) /\ Goto(c, "done")
       ELSE Goto(c, "failed") /\ UNCHANGED prs
    /\ UNCHANGED <<config, ask, base, heads, events, landed, commits, faults, reviews>>

Retry_OneMore(c) ==
    /\ call[c].pc = "failed"
    /\ call[c].try <= Retries
    /\ call' = [call EXCEPT ![c].pc = "start", ![c].try = @ + 1]
    /\ UNCHANGED <<config, ask, remote, events, faults, reviews>>

\* retry.Exponential, or the next reconciliation, calls Promote again.
Retry(c) ==
    /\ call[c].pc = "failed"
    /\ call[c].try < Retries
    /\ call' = [call EXCEPT ![c].pc = "start", ![c].try = @ + 1]
    /\ UNCHANGED <<config, ask, remote, events, faults, reviews>>

-----------------------------------------------------------------------------
(***************************************************************************)
(* What goes wrong: a call of git, the provider or the API server fails,   *)
(* with or without having had its effect.  A crash is the same to the call *)
(* it ends.  Only a failing CreatePullRequest is not the end of a try.     *)
(***************************************************************************)

Troubled(c) ==
    call' = [call EXCEPT ![c].pc = IF @ = "create" THEN "list" ELSE "failed",
                         ![c].trouble = @ \cup {"fault"}]

Fault ==
    /\ faults < MaxFaults
    /\ faults' = faults + 1
    /\ UNCHANGED <<config, ask, base, events, landed, commits, reviews>>

CallFails(c) ==
    /\ Fault
    /\ InProgress(c) \/ call[c].pc = "start"
    /\ call[c].pc = "create" => ~NoClient
    /\ Troubled(c)
    /\ UNCHANGED <<heads, prs>>

PushAnswerLost(c) ==
    /\ Fault
    /\ call[c].pc = "push"
    /\ FastForwards(c)
    /\ Pushed(c, [call[c] EXCEPT !.pc = "failed", !.trouble = @ \cup {"fault"}])
    /\ UNCHANGED prs

CreateAnswerLost(c) ==
    /\ Fault
    /\ call[c].pc = "create"
    /\ ~NoClient
    /\ Opens(c)
    /\ Opened(c)
    /\ Troubled(c)
    /\ UNCHANGED heads

UpdateAnswerLost(c) ==
    /\ Fault
    /\ call[c].pc = "update"
    /\ Reaches(config.type, config.host, "update")
    /\ Retitled(c)
    /\ Troubled(c)
    /\ UNCHANGED heads

-----------------------------------------------------------------------------
(***************************************************************************)
(* What people do: merge a pull request, with its commits or as one new    *)
(* commit, or close it, and delete its branch or leave it.                 *)
(***************************************************************************)

Review(n, state) ==
    /\ reviews < MaxReviews
    /\ reviews' = reviews + 1
    /\ prs[n].state = "open"
    /\ prs' = [prs EXCEPT ![n].state = state]
    /\ call' = [c \in Call |->
          IF HeadOf(c) = prs[n].source THEN [call[c] EXCEPT !.trouble = @ \cup {state}]
          ELSE call[c]]
    /\ UNCHANGED <<config, ask, events, faults>>

\* The changes that the branch has made since it left the base.
MergedTree(branch) ==
    [s \in Subject |-> IF branch.tree[s] # branch.fork[s] THEN branch.tree[s]
                       ELSE base.tree[s]]

Merge(n, squash, delete) ==
    LET h == prs[n].source
    IN  /\ Review(n, "merged")
        /\ base' = [base EXCEPT
              !.tree = MergedTree(heads[h]),
              !.commits = @ \cup {commits} \cup IF squash THEN {} ELSE heads[h].commits]
        /\ commits' = commits + 1
        /\ landed' = landed \cup heads[h].commits
        /\ heads' = [heads EXCEPT ![h] =
              IF delete THEN NoBranch
              ELSE IF squash THEN @ ELSE [@ EXCEPT !.fork = heads[h].tree]]

Close(n, delete) ==
    /\ Review(n, "closed")
    /\ heads' = IF delete THEN [heads EXCEPT ![prs[n].source] = NoBranch] ELSE heads
    /\ UNCHANGED <<base, landed, commits>>

-----------------------------------------------------------------------------

Promote(c) ==
    \/ Prepare(c) \/ Notify(c) \/ Refuse(c) \/ Push(c) \/ CreatePullRequest(c)
    \/ ListPullRequests(c) \/ UpdatePullRequest(c)

Next ==
    \/ \E c \in Call : Promote(c)
    \/ \E c \in Call : Retry(c)
    \/ \E c \in Call : CallFails(c)
    \/ \E c \in Call : PushAnswerLost(c)
    \/ \E c \in Call : CreateAnswerLost(c)
    \/ \E c \in Call : UpdateAnswerLost(c)
    \/ \E n \in DOMAIN prs : \E squash, delete \in BOOLEAN : Merge(n, squash, delete)
    \/ \E n \in DOMAIN prs : \E delete \in BOOLEAN : Close(n, delete)

Spec == Init /\ [][Next]_vars

-----------------------------------------------------------------------------
(***************************************************************************)
(* Properties.                                                             *)
(***************************************************************************)

\* Every variable has the shape the code gives it; a call between list and
\* its end has the number of a pull request; no more tries than allowed.
TypeOK ==
    /\ config \in Config
    /\ ask \in [Call -> Asks]
    /\ call \in [Call -> CallState]
    /\ \A c \in Call : /\ call[c].pc = "update" => call[c].number \in DOMAIN prs
                       /\ call[c].try <= Max({1, Retries})
    /\ base \in Branch
    /\ heads \in [HeadName -> Branch]
    /\ prs \in Seq(PR)
    /\ events \subseteq Asks
    /\ landed \subseteq Nat
    /\ commits \in Nat
    /\ faults \in 0..MaxFaults
    /\ reviews \in 0..MaxReviews

\* What the call has pushed is on a branch with an open pull request, if
\* only below what others have pushed on top, or has come to the base.
Kept(c) ==
    \/ /\ OpenFrom(HeadOf(c)) # {}
       /\ call[c].local.commits \subseteq heads[HeadOf(c)].commits
    \/ call[c].local.commits \subseteq landed \cup base.commits

\* The pull request of the call is open, its title names the version, and its
\* branch has the version.
Proposed(c) ==
    LET n == call[c].number
    IN  /\ n \in DOMAIN prs
        /\ prs[n] = [source |-> HeadOf(c), title |-> ask[c].version, state |-> "open"]
        /\ heads[HeadOf(c)].tree[ask[c].subject] = ask[c].version

Succeeds(c) ==
    call[c].pc # "done" /\ call'[c].pc = "done" /\ Get = "pull-request"

\* When Promote answers with success, its change is in an open pull request or
\* merged, whatever other calls push to the same branch meanwhile.  Unless
\* someone closed the pull request, or the provider lists closed ones and
\* CreatePullRequest failed for another reason than an open one.
NothingLost ==
    [][\A c \in Call : Succeeds(c) =>
          \/ Kept(c)'
          \/ "closed" \in call[c].trouble
          \/ ListsClosed(config.type) /\ "fault" \in call[c].trouble]_vars

\* If nobody else touched its branch meanwhile then a successful Promote has
\* left a pull request that proposes its version, in title and content, also
\* when answers were lost and earlier tries left branch and pull request
\* behind; unless the base has the version's commits already.
ProposedAsAsked ==
    [][\A c \in Call :
          /\ Succeeds(c)
          /\ call[c].trouble \subseteq IF ListsClosed(config.type) THEN {} ELSE {"fault"}
          => \/ Proposed(c)'
             \/ call[c].local.commits \subseteq base.commits]_vars

\* A try of Promote that nothing happened to fails only if the settings are
\* wrong or the base has everything that the branch has.  In particular it
\* does not fail over what earlier promotions left.  There are two exceptions
\* in the providers: ListPullRequests of Bitbucket Server does not find the
\* repository, and for the two domains that AddSchemeToDomain leaves alone the
\* client of GitLab has another domain than its references.
FailsForCause ==
    \A c \in Call : call[c].pc = "failed" /\ call[c].trouble = {} =>
        \/ config.defect # "none"
        \/ Get = NoStrategy
        \/ ~gitProviderIsValid(config.type)
        \/ call[c].local.commits \subseteq base.commits
        \/ config.type = "bitbucket-server" /\ OpenFrom(HeadOf(c)) # {}
        \/ config.type = "gitlab" /\ config.host \in {GitHubCom, GitLabCom}

SameName(s, t) == s.ns \o s.name \o s.env = t.ns \o t.name \o t.env

\* Merging a pull request brings the base only versions that were asked for, of
\* environments whose own branch it is from: the branches of environments mix
\* only if namespace, name and environment of both join to the same name, in
\* one repository for all of them (headBranch, patchManifests).
MergesOwnBranch ==
    [][\A s \in Subject : base'.tree[s] # base.tree[s] =>
          /\ \A t \in Subject : base'.tree[t] # base.tree[t] => SameName(s, t)
          /\ \E n \in DOMAIN prs : /\ prs[n].state = "open"
                                   /\ prs'[n].state = "merged"
                                   /\ prs[n].source = headBranch(s)
          /\ \E c \in Call : ask[c] = [subject |-> s, version |-> base'.tree[s]]]_vars

=============================================================================
