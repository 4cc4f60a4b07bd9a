-------------------------- MODULE PullRequestProofs --------------------------
(***************************************************************************)
(* Proofs about the pull request strategy, for any number of environments, *)
(* versions, calls, retries, faults and reviews.                           *)
(***************************************************************************)
EXTENDS PullRequest, SequenceTheorems, WellFoundedInduction, TLAPS

-----------------------------------------------------------------------------
(***************************************************************************)
(* The operators.                                                          *)
(***************************************************************************)

\* Max of a bounded set of numbers that is not empty is in it and bounds it.
LEMMA MaxOf ==
    ASSUME NEW N \in Nat, NEW S, S \subseteq 1..N, S # {}
    PROVE  Max(S) \in S /\ \A m \in S : m <= Max(S)
<1> DEFINE U == {k \in Nat : \A m \in S : m <= k}
<1>1. U \subseteq Nat /\ N \in U
  OBVIOUS
<1>2. PICK k \in U : \A j \in U : ~(<<j, k>> \in OpToRel(<, Nat))
  <2> HIDE DEF U
  <2> QED BY <1>1, WFMin, NatLessThanWellFounded
<1>3. \A j \in U : ~(j < k)
  BY <1>1, <1>2 DEF OpToRel
<1>4. k \in S
  <2> SUFFICES ASSUME k \notin S PROVE FALSE
    OBVIOUS
  <2>1. PICK m \in S : TRUE
    OBVIOUS
  <2>2. k \in Nat /\ m \in 1..N /\ m <= k /\ m # k
    OBVIOUS
  <2>3. k - 1 \in U
    BY <2>2
  <2> QED BY <1>3, <2>2, <2>3
<1>5. k \in S /\ \A m \in S : k >= m
  BY <1>4
<1>6. Max(S) \in S /\ \A m \in S : Max(S) >= m
  BY <1>5 DEF Max
<1> QED BY <1>6

\* One field of an element of a sequence is replaced.
LEMMA SeqUpdate ==
    ASSUME NEW S, NEW s \in Seq(S), NEW n \in DOMAIN s, NEW e \in S
    PROVE  /\ [s EXCEPT ![n] = e] \in Seq(S)
           /\ DOMAIN [s EXCEPT ![n] = e] = DOMAIN s
           /\ Len([s EXCEPT ![n] = e]) = Len(s)
OBVIOUS

\* Fields of one record of a function are replaced.
LEMMA FieldsAt ==
    ASSUME NEW R, NEW H, NEW f \in [R -> H], NEW q \in R, NEW x, NEW y, NEW z
    PROVE  /\ [f EXCEPT ![q].pc = x, ![q].number = y]
                 = [f EXCEPT ![q] = [f[q] EXCEPT !.pc = x, !.number = y]]
           /\ [f EXCEPT ![q].pc = x, ![q].try = y]
                 = [f EXCEPT ![q] = [f[q] EXCEPT !.pc = x, !.try = y]]
           /\ [f EXCEPT ![q].pc = x, ![q].trouble = y]
                 = [f EXCEPT ![q] = [f[q] EXCEPT !.pc = x, !.trouble = y]]
           /\ [f EXCEPT ![q].pc = x, ![q].local = z, ![q].trouble = y]
                 = [f EXCEPT ![q] = [f[q] EXCEPT !.pc = x, !.local = z, !.trouble = y]]
OBVIOUS

\* A call with one or more of its fields replaced.
LEMMA Fields ==
    ASSUME NEW r \in CallState, NEW x, NEW y
    PROVE  /\ [r EXCEPT !.pc = x, !.number = y]
                 = [pc |-> x, try |-> r.try, local |-> r.local, number |-> y,
                    trouble |-> r.trouble]
           /\ [r EXCEPT !.pc = x, !.try = y]
                 = [pc |-> x, try |-> y, local |-> r.local, number |-> r.number,
                    trouble |-> r.trouble]
<1> DEFINE m == [r EXCEPT !.pc = x]
<1>1. m = [pc |-> x, try |-> r.try, local |-> r.local, number |-> r.number,
           trouble |-> r.trouble]
  BY DEF CallState
<1> HIDE DEF m
<1>2. [m EXCEPT !.number = y]
         = [pc |-> x, try |-> r.try, local |-> r.local, number |-> y, trouble |-> r.trouble]
  BY <1>1
<1>3. [m EXCEPT !.try = y]
         = [pc |-> x, try |-> y, local |-> r.local, number |-> r.number, trouble |-> r.trouble]
  BY <1>1
<1> QED BY <1>2, <1>3 DEF m

\* An update of where a call is and of what happened to it, field by field.
LEMMA TroubleField ==
    ASSUME NEW r \in CallState, NEW x, NEW y
    PROVE  [r EXCEPT !.pc = x, !.trouble = y]
              = [pc |-> x, try |-> r.try, local |-> r.local, number |-> r.number,
                 trouble |-> y]
<1> DEFINE m == [r EXCEPT !.pc = x]
<1>1. m = [pc |-> x, try |-> r.try, local |-> r.local, number |-> r.number,
           trouble |-> r.trouble]
  BY DEF CallState
<1> HIDE DEF m
<1>2. [m EXCEPT !.trouble = y]
         = [pc |-> x, try |-> r.try, local |-> r.local, number |-> r.number, trouble |-> y]
  BY <1>1
<1> QED BY <1>2 DEF m

\* The same with the clone's branch (Prepare).
LEMMA LocalFields ==
    ASSUME NEW r \in CallState, NEW x, NEW y, NEW z
    PROVE  [r EXCEPT !.pc = x, !.local = z, !.trouble = y]
              = [pc |-> x, try |-> r.try, local |-> z, number |-> r.number, trouble |-> y]
<1> DEFINE m == [r EXCEPT !.pc = x]
           o == [pc |-> x, try |-> r.try, local |-> z, number |-> r.number,
                 trouble |-> r.trouble]
<1>1. m = [pc |-> x, try |-> r.try, local |-> r.local, number |-> r.number,
           trouble |-> r.trouble]
  BY DEF CallState
<1> HIDE DEF m
<1>2. [m EXCEPT !.local = z] = o
  BY <1>1
<1> HIDE DEF o
<1>3. [m EXCEPT !.local = z, !.trouble = y] = [o EXCEPT !.trouble = y]
  BY <1>2
<1>4. [o EXCEPT !.trouble = y]
         = [pc |-> x, try |-> r.try, local |-> z, number |-> r.number, trouble |-> y]
  BY DEF o
<1> QED BY <1>3, <1>4 DEF m

\* Every environment has a branch name (headBranch).
LEMMA HeadNamed == \A s \in Subject : headBranch(s) \in HeadName
BY DEF HeadName

-----------------------------------------------------------------------------
(***************************************************************************)
(* What the actions do to the calls.                                       *)
(***************************************************************************)

With(pc, try, local, number, trouble) ==
    [pc |-> pc, try |-> try, local |-> local, number |-> number, trouble |-> trouble]

Trouble == SUBSET {"fault", "push", "merged", "closed"}

\* One call moves; the others stay.
Moves(c, pc, try, local, number, trouble) ==
    /\ call' \in [Call -> CallState]
    /\ \A d \in Call : d # c => call'[d] = call[d]
    /\ call'[c] = With(pc, try, local, number, trouble)

\* The fields of a call.
LEMMA CallFields ==
    ASSUME call \in [Call -> CallState], NEW c \in Call
    PROVE  /\ call[c] = With(call[c].pc, call[c].try, call[c].local, call[c].number,
                             call[c].trouble)
           /\ call[c] \in CallState
           /\ call[c].pc \in Place /\ call[c].try \in Nat /\ call[c].local \in Branch
           /\ call[c].number \in Nat /\ call[c].trouble \in Trouble
BY DEF CallState, With, Trouble

\* A call made of its fields, and the fields of it.
LEMMA WithFields ==
    ASSUME NEW pc \in Place, NEW try \in Nat, NEW local \in Branch, NEW number \in Nat,
           NEW trouble \in Trouble
    PROVE  /\ With(pc, try, local, number, trouble) \in CallState
           /\ With(pc, try, local, number, trouble).pc = pc
           /\ With(pc, try, local, number, trouble).try = try
           /\ With(pc, try, local, number, trouble).local = local
           /\ With(pc, try, local, number, trouble).number = number
           /\ With(pc, try, local, number, trouble).trouble = trouble
BY DEF CallState, With, Trouble

\* What it takes to say that one call moves.
LEMMA MovesBy ==
    ASSUME call \in [Call -> CallState], NEW c \in Call,
           NEW pc \in Place, NEW try \in Nat, NEW local \in Branch, NEW number \in Nat,
           NEW trouble \in Trouble,
           call' = [call EXCEPT ![c] = With(pc, try, local, number, trouble)]
    PROVE  Moves(c, pc, try, local, number, trouble)
BY WithFields DEF Moves

\* A call that only goes elsewhere moves.
LEMMA GotoMoves ==
    ASSUME call \in [Call -> CallState], NEW c \in Call, NEW pc \in Place, Goto(c, pc)
    PROVE  Moves(c, pc, call[c].try, call[c].local, call[c].number, call[c].trouble)
<1>1. [call[c] EXCEPT !.pc = pc]
         = With(pc, call[c].try, call[c].local, call[c].number, call[c].trouble)
  BY CallFields DEF With
<1>2. call' = [call EXCEPT ![c] = [call[c] EXCEPT !.pc = pc]]
  BY DEF Goto
<1> QED BY <1>1, <1>2, CallFields, MovesBy

\* So does one that has got the number of a pull request.
LEMMA NumberMoves ==
    ASSUME call \in [Call -> CallState], NEW c \in Call, NEW pc \in Place,
           NEW n \in Nat, call' = [call EXCEPT ![c].pc = pc, ![c].number = n]
    PROVE  Moves(c, pc, call[c].try, call[c].local, n, call[c].trouble)
<1>1. [call[c] EXCEPT !.pc = pc, !.number = n]
         = With(pc, call[c].try, call[c].local, n, call[c].trouble)
  <2>1. call[c] \in CallState
    BY CallFields
  <2> QED BY <2>1, Fields, Zenon DEF With
<1>2. call' = [call EXCEPT ![c] = [call[c] EXCEPT !.pc = pc, !.number = n]]
  BY FieldsAt, Zenon
<1>3. call' = [call EXCEPT ![c] = With(pc, call[c].try, call[c].local, n, call[c].trouble)]
  BY <1>1, <1>2, Zenon
<1> QED BY <1>3, CallFields, MovesBy, Zenon

\* A retry begins anew with one more try on the count.
LEMMA RetryMoves ==
    ASSUME call \in [Call -> CallState], NEW c \in Call, Retry(c)
    PROVE  Moves(c, "start", call[c].try + 1, call[c].local, call[c].number, call[c].trouble)
<1> DEFINE n == call[c].try + 1
<1>0. n \in Nat /\ "start" \in Place
  BY CallFields DEF Place
<1>1. call' = [call EXCEPT ![c].pc = "start", ![c].try = n]
  BY DEF Retry
<1> HIDE DEF n
<1>2. [call[c] EXCEPT !.pc = "start", !.try = n]
         = With("start", n, call[c].local, call[c].number, call[c].trouble)
  <2>1. call[c] \in CallState
    BY CallFields
  <2> QED BY <2>1, Fields, Zenon DEF With
<1>3. call' = [call EXCEPT ![c] = [call[c] EXCEPT !.pc = "start", !.try = n]]
  BY <1>1, FieldsAt, Zenon
<1>4. call' = [call EXCEPT ![c] = With("start", n, call[c].local, call[c].number,
                                       call[c].trouble)]
  BY <1>2, <1>3, Zenon
<1>5. Moves(c, "start", n, call[c].local, call[c].number, call[c].trouble)
  BY <1>0, <1>4, CallFields, MovesBy, Zenon
<1> QED BY <1>5 DEF n

\* A failing call to the outside is remembered; only a failing
\* CreatePullRequest is not the end (CreatePullRequest, ListPullRequests).
LEMMA TroubledMoves ==
    ASSUME call \in [Call -> CallState], NEW c \in Call, Troubled(c)
    PROVE  Moves(c, IF call[c].pc = "create" THEN "list" ELSE "failed",
                 call[c].try, call[c].local, call[c].number, call[c].trouble \cup {"fault"})
<1> DEFINE pc == IF call[c].pc = "create" THEN "list" ELSE "failed"
           t == call[c].trouble \cup {"fault"}
<1>0. pc \in Place /\ t \in Trouble
  BY CallFields DEF Place, Trouble
<1>1. call' = [call EXCEPT ![c].pc = pc, ![c].trouble = t]
  BY DEF Troubled
<1> HIDE DEF pc, t
<1>2. [call[c] EXCEPT !.pc = pc, !.trouble = t]
         = With(pc, call[c].try, call[c].local, call[c].number, t)
  <2>1. call[c] \in CallState
    BY CallFields
  <2> QED BY <2>1, TroubleField, Zenon DEF With
<1>3. call' = [call EXCEPT ![c] = [call[c] EXCEPT !.pc = pc, !.trouble = t]]
  BY <1>1, FieldsAt, Zenon
<1>4. call' = [call EXCEPT ![c] = With(pc, call[c].try, call[c].local, call[c].number, t)]
  BY <1>2, <1>3, Zenon
<1>5. Moves(c, pc, call[c].try, call[c].local, call[c].number, t)
  BY <1>0, <1>4, CallFields, MovesBy, Zenon
<1> QED BY <1>5 DEF pc, t

\* Every call has an environment, with a branch, and a version.
LEMMA AskFields ==
    ASSUME ask \in [Call -> Asks], NEW c \in Call
    PROVE  /\ ask[c] = [subject |-> ask[c].subject, version |-> ask[c].version]
           /\ ask[c].subject \in Subject /\ ask[c].version \in Version
           /\ HeadOf(c) = headBranch(ask[c].subject) /\ HeadOf(c) \in HeadName
<1>1. ask[c] \in [subject : Subject, version : Version]
  BY PullRequestAssumption
<1> QED BY <1>1, HeadNamed DEF HeadOf

\* The pull requests come from head branches.
LEMMA PRFields ==
    ASSUME TypeOK, NEW n \in DOMAIN prs
    PROVE  prs[n] \in PR /\ prs[n].source \in HeadName
<1>1. prs[n] \in PR
  BY DEF TypeOK
<1> QED BY <1>1 DEF PR

\* A branch that is not there.
LEMMA NoBranchType == NoBranch \in Branch
BY DEF NoBranch, Branch, Tree

\* The branch that a clone works on, and what the call has made of it when it
\* comes to the push: nothing, or one commit with the version (Prepare).
LEMMA PrepareMoves ==
    ASSUME TypeOK, NEW c \in Call, Prepare(c)
    PROVE  \E branch, local \in Branch :
              /\ branch = SwitchBranch(HeadOf(c))
              /\ Moves(c, "push", call[c].try, local, call[c].number, {})
              /\ local.fork = branch.fork
              /\ local.tree = patchManifests(branch.tree, ask[c].subject, ask[c].version)
              /\ \/ local = branch /\ commits' = commits
                 \/ local.commits = branch.commits \cup {commits} /\ commits' = commits + 1
<1> DEFINE branch == SwitchBranch(HeadOf(c))
           tree == patchManifests(branch.tree, ask[c].subject, ask[c].version)
           dirty == [branch EXCEPT !.tree = tree, !.commits = @ \cup {commits}]
           local == IF tree = branch.tree THEN branch ELSE dirty
<1>0. /\ HeadOf(c) \in HeadName
      /\ ask[c].subject \in Subject /\ ask[c].version \in Version
      /\ call \in [Call -> CallState] /\ call[c] \in CallState
  BY AskFields, CallFields DEF TypeOK
<1>1. branch \in Branch
  BY <1>0 DEF TypeOK, SwitchBranch, Branch
<1>2. call' = [call EXCEPT ![c].pc = "push", ![c].local = local, ![c].trouble = {}]
  BY DEF Prepare
<1>3. commits' = IF tree = branch.tree THEN commits ELSE commits + 1
  BY DEF Prepare
<1> HIDE DEF branch
<1>4. tree \in Tree
  BY <1>0, <1>1 DEF Branch, Tree, patchManifests
<1> HIDE DEF tree
<1>5. dirty = [commits |-> branch.commits \cup {commits}, tree |-> tree,
               fork |-> branch.fork]
  <2> DEFINE m == [branch EXCEPT !.tree = tree]
  <2>1. m = [commits |-> branch.commits, tree |-> tree, fork |-> branch.fork]
    BY <1>1 DEF Branch
  <2> HIDE DEF m
  <2>2. [m EXCEPT !.commits = branch.commits \cup {commits}]
           = [commits |-> branch.commits \cup {commits}, tree |-> tree, fork |-> branch.fork]
    BY <2>1
  <2> QED BY <2>2 DEF m
<1> HIDE DEF dirty
<1>6. dirty \in Branch /\ dirty.tree = tree /\ dirty.fork = branch.fork
  BY <1>1, <1>4, <1>5 DEF Branch, TypeOK
<1>7. dirty.commits = branch.commits \cup {commits}
  BY <1>5
<1>8. /\ local \in Branch /\ local.fork = branch.fork /\ local.tree = tree
      /\ \/ local = branch /\ commits' = commits
         \/ local.commits = branch.commits \cup {commits} /\ commits' = commits + 1
  BY <1>1, <1>3, <1>6, <1>7
<1> HIDE DEF local
<1>9. call' = [call EXCEPT ![c] = [call[c] EXCEPT !.pc = "push", !.local = local,
                                                  !.trouble = {}]]
  BY <1>0, <1>2, FieldsAt, Zenon
<1>10. [call[c] EXCEPT !.pc = "push", !.local = local, !.trouble = {}]
          = With("push", call[c].try, local, call[c].number, {})
  BY <1>0, LocalFields, Zenon DEF With
<1>11. call' = [call EXCEPT ![c] = With("push", call[c].try, local, call[c].number, {})]
  BY <1>9, <1>10, Zenon
<1>12. "push" \in Place /\ {} \in Trouble
  BY DEF Place, Trouble
<1>13. Moves(c, "push", call[c].try, local, call[c].number, {})
  BY <1>0, <1>8, <1>11, <1>12, CallFields, MovesBy, Zenon
<1> QED BY <1>1, <1>8, <1>13 DEF branch, tree

\* A call is where it was, though something may have happened to it.
Stays(d) ==
    /\ call'[d].pc = call[d].pc
    /\ call'[d].try = call[d].try
    /\ call'[d].local = call[d].local
    /\ call'[d].number = call[d].number
    /\ call[d].trouble \subseteq call'[d].trouble

\* A push changes one branch, and every other call that works on it is told.
LEMMA PushedMoves ==
    ASSUME TypeOK, NEW c \in Call, NEW next \in CallState, Pushed(c, next)
    PROVE  /\ call' \in [Call -> CallState]
           /\ call'[c] = next
           /\ \A d \in Call : d # c =>
                 /\ Stays(d)
                 /\ HeadOf(d) = HeadOf(c) => "push" \in call'[d].trouble
           /\ heads' \in [HeadName -> Branch]
           /\ heads'[HeadOf(c)] = call[c].local
           /\ \A h \in HeadName : h # HeadOf(c) => heads'[h] = heads[h]
<1>1. call \in [Call -> CallState] /\ heads \in [HeadName -> Branch] /\ ask \in [Call -> Asks]
  BY DEF TypeOK
<1>2. call[c].local \in Branch /\ HeadOf(c) \in HeadName
  BY <1>1, CallFields, AskFields
<1>3. ASSUME NEW d \in Call, d # c
      PROVE  /\ call'[d] \in CallState
             /\ Stays(d)
             /\ HeadOf(d) = HeadOf(c) => "push" \in call'[d].trouble
  <2>1. CASE HeadOf(d) = HeadOf(c)
    <3>1. call'[d] = [call[d] EXCEPT !.trouble = call[d].trouble \cup {"push"}]
      BY <1>3, <2>1 DEF Pushed
    <3> QED BY <1>1, <3>1 DEF CallState, Stays
  <2>2. CASE HeadOf(d) # HeadOf(c)
    <3>1. call'[d] = call[d]
      BY <1>3, <2>2 DEF Pushed
    <3> QED BY <1>1, <2>2, <3>1 DEF Stays
  <2> QED BY <2>1, <2>2
<1>4. call'[c] = next
  BY DEF Pushed
<1>5. call' \in [Call -> CallState]
  <2>1. \A d \in Call : call'[d] \in CallState
    BY <1>3, <1>4
  <2>2. call' = [d \in Call |-> call'[d]]
    BY DEF Pushed
  <2> QED BY <2>1, <2>2
<1>6. heads' = [heads EXCEPT ![HeadOf(c)] = call[c].local]
  BY DEF Pushed
<1> QED BY <1>1, <1>2, <1>3, <1>4, <1>5, <1>6

\* A lost answer to a push ends the try.
LEMMA LostPush ==
    ASSUME TypeOK, NEW c \in Call, PushAnswerLost(c)
    PROVE  LET next == With("failed", call[c].try, call[c].local, call[c].number,
                            call[c].trouble \cup {"fault"})
           IN  next \in CallState /\ Pushed(c, next)
<1> DEFINE t == call[c].trouble \cup {"fault"}
<1>1. call[c] \in CallState
  BY DEF TypeOK
<1>2. "failed" \in Place /\ t \in Trouble
  BY <1>1 DEF Place, Trouble, CallState
<1>3. Pushed(c, [call[c] EXCEPT !.pc = "failed", !.trouble = t])
  BY DEF PushAnswerLost
<1> HIDE DEF t
<1>4. [call[c] EXCEPT !.pc = "failed", !.trouble = t]
         = With("failed", call[c].try, call[c].local, call[c].number, t)
  BY <1>1, TroubleField, Zenon DEF With
<1>5. Pushed(c, With("failed", call[c].try, call[c].local, call[c].number, t))
  BY <1>3, <1>4, Zenon
<1>6. With("failed", call[c].try, call[c].local, call[c].number, t) \in CallState
  <2>1. call[c].try \in Nat /\ call[c].local \in Branch /\ call[c].number \in Nat
    BY <1>1 DEF CallState
  <2> QED BY <1>2, <2>1, WithFields
<1> QED BY <1>5, <1>6 DEF t

\* A review changes the state of one pull request, and the calls that work on
\* its branch are told.
LEMMA ReviewMoves ==
    ASSUME TypeOK, NEW n \in DOMAIN prs, NEW state \in {"merged", "closed"},
           Review(n, state)
    PROVE  /\ call' \in [Call -> CallState]
           /\ \A d \in Call : /\ Stays(d)
                              /\ HeadOf(d) = prs[n].source => state \in call'[d].trouble
           /\ prs' \in Seq(PR)
           /\ DOMAIN prs' = DOMAIN prs
           /\ \A m \in DOMAIN prs : prs'[m].source = prs[m].source
           /\ \A m \in DOMAIN prs : m # n => prs'[m] = prs[m]
           /\ prs[n].state = "open" /\ prs'[n].state = state
           /\ prs[n].source \in HeadName
<1>1. call \in [Call -> CallState] /\ prs \in Seq(PR) /\ prs[n] \in PR
  BY DEF TypeOK
<1>2. ASSUME NEW d \in Call
      PROVE  /\ call'[d] \in CallState
             /\ Stays(d)
             /\ HeadOf(d) = prs[n].source => state \in call'[d].trouble
  <2>1. CASE HeadOf(d) = prs[n].source
    <3>1. call'[d] = [call[d] EXCEPT !.trouble = call[d].trouble \cup {state}]
      BY <2>1 DEF Review
    <3> QED BY <1>1, <3>1 DEF CallState, Stays
  <2>2. CASE HeadOf(d) # prs[n].source
    <3>1. call'[d] = call[d]
      BY <2>2 DEF Review
    <3> QED BY <1>1, <2>2, <3>1 DEF Stays
  <2> QED BY <2>1, <2>2
<1>3. call' \in [Call -> CallState]
  <2>1. call' = [d \in Call |-> call'[d]]
    BY DEF Review
  <2> QED BY <1>2, <2>1
<1> DEFINE p == [prs[n] EXCEPT !.state = state]
<1>4. p \in PR /\ p.source = prs[n].source /\ p.state = state /\ prs[n].source \in HeadName
  BY <1>1 DEF PR
<1>5. prs' = [prs EXCEPT ![n] = p] /\ prs[n].state = "open"
  BY DEF Review
<1> HIDE DEF p
<1>6. prs' \in Seq(PR) /\ DOMAIN prs' = DOMAIN prs
  BY <1>1, <1>4, <1>5, SeqUpdate
<1>7. prs'[n] = p /\ \A m \in DOMAIN prs : m # n => prs'[m] = prs[m]
  BY <1>1, <1>5
<1> QED BY <1>2, <1>3, <1>4, <1>5, <1>6, <1>7

\* A new pull request comes behind the others.
LEMMA OpenedFacts ==
    ASSUME TypeOK, NEW c \in Call, Opened(c)
    PROVE  /\ prs' \in Seq(PR)
           /\ Len(prs) + 1 \in DOMAIN prs' /\ DOMAIN prs' = 1..(Len(prs) + 1)
           /\ DOMAIN prs = 1..Len(prs) /\ Len(prs) \in Nat
           /\ \A m \in DOMAIN prs : m \in DOMAIN prs' /\ prs'[m] = prs[m]
           /\ prs'[Len(prs) + 1]
                 = [source |-> HeadOf(c), title |-> ask[c].version, state |-> "open"]
<1> DEFINE p == [source |-> HeadOf(c), title |-> ask[c].version, state |-> "open"]
<1>1. p \in PR
  BY AskFields DEF PR, TypeOK
<1>2. prs' = Append(prs, p) /\ prs \in Seq(PR)
  BY DEF Opened, TypeOK
<1> HIDE DEF p
<1>3. /\ prs' \in Seq(PR) /\ Len(prs) \in Nat
      /\ DOMAIN prs = 1..Len(prs) /\ DOMAIN prs' = 1..(Len(prs) + 1)
      /\ prs'[Len(prs) + 1] = p
      /\ \A m \in 1..Len(prs) : prs'[m] = prs[m]
  BY <1>1, <1>2
<1> QED BY <1>3 DEF p

\* A new title.
LEMMA RetitledFacts ==
    ASSUME TypeOK, NEW c \in Call, call[c].number \in DOMAIN prs, Retitled(c)
    PROVE  /\ prs' \in Seq(PR)
           /\ DOMAIN prs' = DOMAIN prs
           /\ \A m \in DOMAIN prs : /\ prs'[m].source = prs[m].source
                                    /\ prs'[m].state = prs[m].state
           /\ prs'[call[c].number] = [source |-> prs[call[c].number].source,
                                      title  |-> ask[c].version,
                                      state  |-> prs[call[c].number].state]
<1> DEFINE n == call[c].number
           p == [prs[n] EXCEPT !.title = ask[c].version]
<1>1. prs \in Seq(PR) /\ prs[n] \in PR /\ ask[c].version \in Version
  BY AskFields DEF TypeOK
<1>2. p = [source |-> prs[n].source, title |-> ask[c].version, state |-> prs[n].state]
  BY <1>1 DEF PR
<1>3. prs' = [prs EXCEPT ![n] = p]
  BY DEF Retitled
<1> HIDE DEF p, n
<1>4. p \in PR /\ p.source = prs[n].source /\ p.state = prs[n].state
  BY <1>1, <1>2 DEF PR
<1>5. n \in DOMAIN prs
  BY DEF n
<1>6. prs' \in Seq(PR) /\ DOMAIN prs' = DOMAIN prs
  BY <1>1, <1>3, <1>4, <1>5, SeqUpdate
<1>7. prs'[n] = p /\ \A m \in DOMAIN prs : m # n => prs'[m] = prs[m]
  BY <1>1, <1>3, <1>5
<1> QED BY <1>2, <1>4, <1>6, <1>7 DEF n

\* A merge brings the branch's changes and, unless squashed, its commits to the
\* base, and its commits have landed; the branch is gone, or as it was, or has
\* left the base anew.
LEMMA MergeFacts ==
    ASSUME TypeOK, NEW n \in DOMAIN prs, NEW squash \in BOOLEAN, NEW delete \in BOOLEAN,
           Merge(n, squash, delete)
    PROVE  LET h == prs[n].source IN
           /\ Review(n, "merged") /\ h \in HeadName
           /\ base' \in Branch
           /\ base'.tree = MergedTree(heads[h])
           /\ base'.commits \in {base.commits \cup {commits},
                                 base.commits \cup {commits} \cup heads[h].commits}
           /\ commits' = commits + 1
           /\ landed' = landed \cup heads[h].commits
           /\ heads' \in [HeadName -> Branch]
           /\ \A g \in HeadName : g # h => heads'[g] = heads[g]
           /\ \/ heads'[h] = NoBranch
              \/ heads'[h] = heads[h]
              \/ /\ heads'[h].tree = heads[h].tree /\ heads'[h].fork = heads[h].tree
                 /\ heads'[h].commits = heads[h].commits
<1> DEFINE h == prs[n].source
           tree == MergedTree(heads[h])
           cs == base.commits \cup {commits} \cup IF squash THEN {} ELSE heads[h].commits
           m == [base EXCEPT !.tree = tree]
           new == IF delete THEN NoBranch
                  ELSE IF squash THEN heads[h] ELSE [heads[h] EXCEPT !.fork = heads[h].tree]
<1>1. /\ Review(n, "merged") /\ commits' = commits + 1
      /\ landed' = landed \cup heads[h].commits
      /\ base' = [base EXCEPT !.tree = tree, !.commits = cs]
      /\ heads' = [heads EXCEPT ![h] = new]
  BY DEF Merge
<1>2. /\ h \in HeadName /\ heads[h] \in Branch /\ base \in Branch /\ commits \in Nat
      /\ heads \in [HeadName -> Branch]
  BY PRFields DEF TypeOK
<1> HIDE DEF h
<1>3. tree \in Tree
  BY <1>2 DEF MergedTree, Branch, Tree
<1>4. cs \subseteq Nat
  BY <1>2 DEF Branch
<1>5. cs \in {base.commits \cup {commits}, base.commits \cup {commits} \cup heads[h].commits}
  OBVIOUS
<1>6. /\ new \in Branch
      /\ \/ new = NoBranch
         \/ new = heads[h]
         \/ /\ new.tree = heads[h].tree /\ new.fork = heads[h].tree
            /\ new.commits = heads[h].commits
  BY <1>2, NoBranchType DEF Branch
<1> HIDE DEF tree, cs, new
<1>7. m = [commits |-> base.commits, tree |-> tree, fork |-> base.fork]
  BY <1>2 DEF Branch
<1> HIDE DEF m
<1>8. [m EXCEPT !.commits = cs] = [commits |-> cs, tree |-> tree, fork |-> base.fork]
  BY <1>7
<1>9. base' = [commits |-> cs, tree |-> tree, fork |-> base.fork]
  BY <1>1, <1>8 DEF m
<1>10. base' \in Branch /\ base'.tree = tree /\ base'.commits = cs
  BY <1>2, <1>3, <1>4, <1>9 DEF Branch
<1>11. /\ heads' \in [HeadName -> Branch] /\ heads'[h] = new
       /\ \A g \in HeadName : g # h => heads'[g] = heads[g]
  BY <1>1, <1>2, <1>6
<1> QED BY <1>1, <1>2, <1>5, <1>6, <1>10, <1>11 DEF h, tree

\* A closed pull request leaves the base alone, and its own branch or none.
LEMMA CloseFacts ==
    ASSUME TypeOK, NEW n \in DOMAIN prs, NEW delete \in BOOLEAN, Close(n, delete)
    PROVE  LET h == prs[n].source IN
           /\ Review(n, "closed") /\ h \in HeadName
           /\ base' = base /\ landed' = landed /\ commits' = commits
           /\ heads' \in [HeadName -> Branch]
           /\ \A g \in HeadName : g # h => heads'[g] = heads[g]
           /\ heads'[h] = NoBranch \/ heads'[h] = heads[h]
<1>1. prs[n].source \in HeadName /\ heads \in [HeadName -> Branch]
  BY PRFields DEF TypeOK
<1> QED BY <1>1, NoBranchType DEF Close

-----------------------------------------------------------------------------
(***************************************************************************)
(* Type correctness.                                                       *)
(***************************************************************************)

\* What TypeOK says of all but the calls.
RemoteOK ==
    /\ base \in Branch
    /\ heads \in [HeadName -> Branch]
    /\ prs \in Seq(PR)
    /\ events \subseteq Asks
    /\ landed \subseteq Nat
    /\ commits \in Nat
    /\ faults \in 0..MaxFaults
    /\ reviews \in 0..MaxReviews

\* What retry.Exponential makes of the threshold.
LEMMA MostTries ==
    /\ Max({1, Retries}) \in Nat
    /\ 1 <= Max({1, Retries}) /\ Retries <= Max({1, Retries})
<1>1. Retries \in Nat
  BY PullRequestAssumption
<1>2. \E x \in {1, Retries} : \A y \in {1, Retries} : x >= y
  <2>1. CASE Retries >= 1
    BY <1>1, <2>1
  <2>2. CASE ~(Retries >= 1)
    BY <1>1, <2>2
  <2> QED BY <2>1, <2>2
<1>3. Max({1, Retries}) \in {1, Retries} /\ \A y \in {1, Retries} : Max({1, Retries}) >= y
  BY <1>2 DEF Max
<1> QED BY <1>1, <1>3

\* The types hold at the start.
LEMMA TypeInit == Init => TypeOK
<1> SUFFICES ASSUME Init PROVE TypeOK
  OBVIOUS
<1>1. config \in Config /\ ask \in [Call -> Asks]
  BY PullRequestAssumption DEF Init
<1>2. /\ call = [c \in Call |-> With("start", 1, NoBranch, 0, {})]
      /\ With("start", 1, NoBranch, 0, {}) \in CallState
      /\ With("start", 1, NoBranch, 0, {}).pc = "start"
      /\ With("start", 1, NoBranch, 0, {}).try = 1
  <2>1. "start" \in Place /\ 1 \in Nat /\ 0 \in Nat /\ {} \in Trouble
    BY DEF Place, Trouble
  <2>2. call = [c \in Call |-> With("start", 1, NoBranch, 0, {})]
    BY DEF Init, With
  <2> QED BY <2>1, <2>2, NoBranchType, WithFields
<1>3. base \in Branch /\ heads \in [HeadName -> Branch]
  BY NoBranchType DEF Init, Branch
<1>4. call \in [Call -> CallState] /\ \A c \in Call : call[c].pc = "start" /\ call[c].try = 1
  BY <1>2
<1>5. \A c \in Call : /\ call[c].pc = "update" => call[c].number \in DOMAIN prs
                      /\ call[c].try <= Max({1, Retries})
  BY <1>4, MostTries
<1>6. /\ prs \in Seq(PR) /\ events \subseteq Asks /\ landed \subseteq Nat /\ commits \in Nat
      /\ faults \in 0..MaxFaults /\ reviews \in 0..MaxReviews
  BY PullRequestAssumption DEF Init
<1> QED BY <1>1, <1>3, <1>4, <1>5, <1>6 DEF TypeOK

\* One call moves.
LEMMA TypeMoves ==
    ASSUME TypeOK, config' = config, ask' = ask, RemoteOK',
           DOMAIN prs \subseteq DOMAIN prs',
           NEW c \in Call, NEW pc \in Place, NEW try \in Nat, NEW local \in Branch,
           NEW number \in Nat, NEW trouble \in Trouble,
           Moves(c, pc, try, local, number, trouble),
           pc = "update" => number \in DOMAIN prs',
           try <= Max({1, Retries})
    PROVE  TypeOK'
<1>1. call'[c].pc = pc /\ call'[c].try = try /\ call'[c].number = number
  BY WithFields DEF Moves
<1>2. \A d \in Call : /\ call'[d].pc = "update" => call'[d].number \in DOMAIN prs'
                      /\ call'[d].try <= Max({1, Retries})
  BY <1>1 DEF TypeOK, Moves
<1>3. call' \in [Call -> CallState]
  BY DEF Moves
<1>4. config' \in Config /\ ask' \in [Call -> Asks]
  BY DEF TypeOK
<1> QED BY <1>2, <1>3, <1>4 DEF TypeOK, RemoteOK

\* All calls stay but perhaps one, which does not come to the update.
LEMMA TypeStays ==
    ASSUME TypeOK, config' = config, ask' = ask, RemoteOK', DOMAIN prs' = DOMAIN prs,
           call' \in [Call -> CallState],
           \A d \in Call : \/ Stays(d)
                           \/ call'[d].pc # "update" /\ call'[d].try = call[d].try
    PROVE  TypeOK'
<1>1. \A d \in Call : /\ call'[d].pc = "update" => call'[d].number \in DOMAIN prs'
                      /\ call'[d].try <= Max({1, Retries})
  BY DEF TypeOK, Stays
<1>2. config' \in Config /\ ask' \in [Call -> Asks]
  BY DEF TypeOK
<1> QED BY <1>1, <1>2 DEF TypeOK, RemoteOK

\* A call goes somewhere else; all but the remote is as it was.
LEMMA TypeGoto ==
    ASSUME TypeOK, config' = config, ask' = ask, RemoteOK',
           DOMAIN prs \subseteq DOMAIN prs',
           NEW c \in Call, NEW pc \in Place \ {"update"}, Goto(c, pc)
    PROVE  TypeOK'
<1>1. call \in [Call -> CallState] /\ call[c].try <= Max({1, Retries})
  BY DEF TypeOK
<1>2. Moves(c, pc, call[c].try, call[c].local, call[c].number, call[c].trouble)
  BY <1>1, GotoMoves
<1> QED BY <1>1, <1>2, CallFields, TypeMoves

\* A call has a number now.
LEMMA TypeNumber ==
    ASSUME TypeOK, config' = config, ask' = ask, RemoteOK',
           DOMAIN prs \subseteq DOMAIN prs',
           NEW c \in Call, NEW pc \in Place, NEW n \in DOMAIN prs', n \in Nat,
           call' = [call EXCEPT ![c].pc = pc, ![c].number = n]
    PROVE  TypeOK'
<1>1. call \in [Call -> CallState] /\ call[c].try <= Max({1, Retries})
  BY DEF TypeOK
<1>2. Moves(c, pc, call[c].try, call[c].local, n, call[c].trouble)
  BY <1>1, NumberMoves, Zenon
<1> QED BY <1>1, <1>2, CallFields, TypeMoves

\* A failing call ends the try, or goes on to list.
LEMMA TypeTroubled ==
    ASSUME TypeOK, config' = config, ask' = ask, RemoteOK',
           DOMAIN prs \subseteq DOMAIN prs', NEW c \in Call, Troubled(c)
    PROVE  TypeOK'
<1> DEFINE pc == IF call[c].pc = "create" THEN "list" ELSE "failed"
           t == call[c].trouble \cup {"fault"}
<1>1. call \in [Call -> CallState] /\ call[c].try <= Max({1, Retries})
  BY DEF TypeOK
<1>2. Moves(c, pc, call[c].try, call[c].local, call[c].number, t)
  BY <1>1, TroubledMoves
<1>3. pc \in Place /\ t \in Trouble /\ pc # "update"
  BY <1>1, CallFields DEF Place, Trouble
<1> HIDE DEF pc, t
<1> QED BY <1>1, <1>2, <1>3, CallFields, TypeMoves

\* The listed pull request with the highest number.
LEMMA MatchingMax ==
    ASSUME TypeOK, NEW c \in Call, Matching(c) # {}
    PROVE  /\ Max(Matching(c)) \in Matching(c)
           /\ Max(Matching(c)) \in DOMAIN prs /\ Max(Matching(c)) \in Nat
           /\ \A m \in Matching(c) : m <= Max(Matching(c))
<1>1. Matching(c) \subseteq 1..Len(prs) /\ Len(prs) \in Nat /\ DOMAIN prs = 1..Len(prs)
  BY DEF Matching, Listed, TypeOK
<1> QED BY <1>1, MaxOf

\* The calls' own steps.
LEMMA TypePromote ==
    ASSUME TypeOK, NEW c \in Call, Promote(c)
    PROVE  TypeOK'
<1>0. RemoteOK /\ call \in [Call -> CallState]
  BY DEF TypeOK, RemoteOK
<1>1. CASE Prepare(c)
  <2>1. PICK branch, local \in Branch :
           /\ Moves(c, "push", call[c].try, local, call[c].number, {})
           /\ commits' = commits \/ commits' = commits + 1
    BY <1>1, PrepareMoves
  <2>2. RemoteOK' /\ config' = config /\ ask' = ask /\ prs' = prs
    BY <1>0, <1>1, <2>1 DEF RemoteOK, Prepare
  <2>3. call[c].try \in Nat /\ call[c].number \in Nat /\ call[c].try <= Max({1, Retries})
    BY <1>0, CallFields DEF TypeOK
  <2>4. "push" \in Place /\ {} \in Trouble /\ "push" # "update"
    BY DEF Place, Trouble
  <2> QED BY <2>1, <2>2, <2>3, <2>4, TypeMoves
<1>2. CASE Notify(c)
  <2>1. RemoteOK' /\ config' = config /\ ask' = ask /\ prs' = prs /\ Goto(c, "done")
    BY <1>0, <1>2 DEF RemoteOK, Notify, remote, TypeOK
  <2> QED BY <2>1, TypeGoto DEF Place
<1>3. CASE Refuse(c)
  <2>1. RemoteOK' /\ config' = config /\ ask' = ask /\ prs' = prs /\ Goto(c, "failed")
    BY <1>0, <1>3 DEF RemoteOK, Refuse, remote
  <2> QED BY <2>1, TypeGoto DEF Place
<1>4. CASE Push(c)
  <2>0. config' = config /\ ask' = ask /\ prs' = prs
    BY <1>4 DEF Push
  <2>1. CASE \E pc \in {"create", "failed"} : Goto(c, pc) /\ UNCHANGED heads
    <3>1. PICK pc \in {"create", "failed"} : Goto(c, pc) /\ UNCHANGED heads
      BY <2>1
    <3>2. RemoteOK' /\ pc \in Place \ {"update"}
      BY <1>0, <1>4, <3>1 DEF RemoteOK, Push, Place
    <3> QED BY <2>0, <3>1, <3>2, TypeGoto
  <2>2. CASE Pushed(c, [call[c] EXCEPT !.pc = "create"])
    <3> DEFINE next == [call[c] EXCEPT !.pc = "create"]
    <3>1. next \in CallState /\ next.pc = "create" /\ next.try = call[c].try
      BY <1>0 DEF CallState, Place
    <3> HIDE DEF next
    <3>2. /\ call' \in [Call -> CallState] /\ heads' \in [HeadName -> Branch]
          /\ call'[c] = next
          /\ \A d \in Call : d # c => Stays(d)
      BY <2>2, <3>1, PushedMoves DEF next
    <3>3. RemoteOK'
      BY <1>0, <1>4, <3>2 DEF RemoteOK, Push
    <3> QED BY <2>0, <3>1, <3>2, <3>3, TypeStays
  <2> QED BY <1>4, <2>1, <2>2 DEF Push
<1>5. CASE CreatePullRequest(c)
  <2>0. config' = config /\ ask' = ask
    BY <1>5 DEF CreatePullRequest
  <2>1. CASE \E pc \in {"list", "failed"} : Goto(c, pc) /\ UNCHANGED prs
    <3>1. PICK pc \in {"list", "failed"} : Goto(c, pc) /\ UNCHANGED prs
      BY <2>1
    <3>2. RemoteOK' /\ pc \in Place \ {"update"} /\ prs' = prs
      BY <1>0, <1>5, <3>1 DEF RemoteOK, CreatePullRequest, Place
    <3> QED BY <2>0, <3>1, <3>2, TypeGoto
  <2>2. CASE /\ Opened(c)
             /\ call' = [call EXCEPT ![c].pc = "done", ![c].number = Len(prs) + 1]
    <3> DEFINE n == Len(prs) + 1
    <3>1. n \in DOMAIN prs' /\ n \in Nat /\ DOMAIN prs \subseteq DOMAIN prs' /\ prs' \in Seq(PR)
      <4>1. Opened(c)
        BY <2>2, Zenon
      <4>2. /\ prs' \in Seq(PR) /\ Len(prs) \in Nat /\ Len(prs) + 1 \in DOMAIN prs'
            /\ \A m \in DOMAIN prs : m \in DOMAIN prs'
        BY <4>1, OpenedFacts, Zenon
      <4> QED BY <4>2
    <3>2. RemoteOK' /\ "done" \in Place
      BY <1>0, <1>5, <3>1 DEF RemoteOK, CreatePullRequest, Place
    <3>3. call' = [call EXCEPT ![c].pc = "done", ![c].number = n]
      BY <2>2
    <3> HIDE DEF n
    <3> QED BY <2>0, <3>1, <3>2, <3>3, TypeNumber, Zenon
  <2> QED BY <1>5, <2>1, <2>2 DEF CreatePullRequest
<1>6. CASE ListPullRequests(c)
  <2>0. config' = config /\ ask' = ask /\ prs' = prs /\ RemoteOK'
    BY <1>0, <1>6 DEF ListPullRequests, remote, RemoteOK
  <2>1. CASE Goto(c, "failed")
    BY <2>0, <2>1, TypeGoto DEF Place
  <2>2. CASE /\ Matching(c) # {}
             /\ call' = [call EXCEPT ![c].pc = "update", ![c].number = Max(Matching(c))]
    <3> DEFINE n == Max(Matching(c))
    <3>1. Matching(c) # {}
      BY <2>2, Zenon
    <3>3. n \in DOMAIN prs' /\ n \in Nat /\ "update" \in Place /\ DOMAIN prs \subseteq DOMAIN prs'
      BY <2>0, <3>1, MatchingMax DEF Place
    <3>4. call' = [call EXCEPT ![c].pc = "update", ![c].number = n]
      BY <2>2
    <3> HIDE DEF n
    <3> QED BY <2>0, <3>3, <3>4, TypeNumber, Zenon
  <2> QED BY <1>6, <2>1, <2>2 DEF ListPullRequests
<1>7. CASE UpdatePullRequest(c)
  <2>0. config' = config /\ ask' = ask /\ call[c].number \in DOMAIN prs
    BY <1>7 DEF UpdatePullRequest, TypeOK
  <2>1. PICK pc \in {"done", "failed"} : Goto(c, pc)
    BY <1>7 DEF UpdatePullRequest
  <2>2. prs' \in Seq(PR) /\ DOMAIN prs' = DOMAIN prs
    BY <1>0, <1>7, <2>0, RetitledFacts DEF UpdatePullRequest, RemoteOK
  <2>3. RemoteOK' /\ pc \in Place \ {"update"}
    BY <1>0, <1>7, <2>2 DEF RemoteOK, UpdatePullRequest, Place
  <2> QED BY <2>0, <2>1, <2>2, <2>3, TypeGoto
<1> QED BY <1>1, <1>2, <1>3, <1>4, <1>5, <1>6, <1>7 DEF Promote

\* What goes wrong, and what people do.
LEMMA TypeOthers ==
    ASSUME TypeOK,
           \/ \E c \in Call : \/ Retry(c) \/ CallFails(c) \/ PushAnswerLost(c)
                              \/ CreateAnswerLost(c) \/ UpdateAnswerLost(c)
           \/ \E n \in DOMAIN prs : \E squash, delete \in BOOLEAN : Merge(n, squash, delete)
           \/ \E n \in DOMAIN prs : \E delete \in BOOLEAN : Close(n, delete)
           \/ UNCHANGED vars
    PROVE  TypeOK'
<1>0. RemoteOK /\ call \in [Call -> CallState]
  BY DEF TypeOK, RemoteOK
<1>f. ASSUME Fault
      PROVE  /\ faults' \in 0..MaxFaults /\ config' = config /\ ask' = ask
             /\ base' = base /\ events' = events /\ landed' = landed /\ commits' = commits
             /\ reviews' = reviews
  BY <1>f, PullRequestAssumption DEF Fault, TypeOK
<1>r. ASSUME NEW n, NEW state, Review(n, state)
      PROVE  /\ reviews' \in 0..MaxReviews /\ config' = config /\ ask' = ask
             /\ events' = events /\ faults' = faults
  BY <1>r, PullRequestAssumption DEF Review, TypeOK
<1>1. ASSUME NEW c \in Call, Retry(c) PROVE TypeOK'
  <2> DEFINE try == call[c].try + 1
  <2>1. RemoteOK' /\ config' = config /\ ask' = ask /\ prs' = prs
    BY <1>0, <1>1 DEF RemoteOK, Retry, remote
  <2>2. try \in Nat /\ try <= Max({1, Retries})
    <3>1. call[c].try \in Nat /\ call[c].try < Retries /\ Retries \in Nat
      BY <1>0, <1>1, CallFields, PullRequestAssumption DEF Retry
    <3> QED BY <3>1, MostTries
  <2>3. Moves(c, "start", try, call[c].local, call[c].number, call[c].trouble)
    BY <1>0, <1>1, RetryMoves
  <2>4. "start" \in Place /\ "start" # "update"
    BY DEF Place
  <2> HIDE DEF try
  <2> QED BY <1>0, <2>1, <2>2, <2>3, <2>4, CallFields, TypeMoves
<1>2. ASSUME NEW c \in Call, CallFails(c) PROVE TypeOK'
  <2>1. Fault /\ Troubled(c) /\ prs' = prs /\ heads' = heads
    BY <1>2 DEF CallFails
  <2>2. RemoteOK' /\ config' = config /\ ask' = ask
    BY <1>0, <1>f, <2>1 DEF RemoteOK
  <2> QED BY <2>1, <2>2, TypeTroubled
<1>3. ASSUME NEW c \in Call, PushAnswerLost(c) PROVE TypeOK'
  <2> DEFINE t == call[c].trouble \cup {"fault"}
             next == With("failed", call[c].try, call[c].local, call[c].number, t)
  <2>1. Fault /\ prs' = prs
    BY <1>3 DEF PushAnswerLost
  <2>2. next \in CallState /\ Pushed(c, next)
    BY <1>3, LostPush
  <2>3. next.pc = "failed" /\ next.try = call[c].try
    BY DEF With
  <2> HIDE DEF next
  <2>4. /\ call' \in [Call -> CallState] /\ heads' \in [HeadName -> Branch]
        /\ call'[c] = next
        /\ \A d \in Call : d # c => Stays(d)
    BY <2>2, PushedMoves
  <2>5. RemoteOK' /\ config' = config /\ ask' = ask
    BY <1>0, <1>f, <2>1, <2>4 DEF RemoteOK
  <2> QED BY <2>1, <2>3, <2>4, <2>5, TypeStays
<1>4. ASSUME NEW c \in Call, CreateAnswerLost(c) PROVE TypeOK'
  <2>1. Fault /\ Troubled(c) /\ Opened(c) /\ heads' = heads
    BY <1>4 DEF CreateAnswerLost
  <2>2. prs' \in Seq(PR) /\ DOMAIN prs \subseteq DOMAIN prs'
    BY <2>1, OpenedFacts
  <2>3. RemoteOK' /\ config' = config /\ ask' = ask
    BY <1>0, <1>f, <2>1, <2>2 DEF RemoteOK
  <2> QED BY <2>1, <2>2, <2>3, TypeTroubled
<1>5. ASSUME NEW c \in Call, UpdateAnswerLost(c) PROVE TypeOK'
  <2>1. /\ Fault /\ Troubled(c) /\ Retitled(c) /\ heads' = heads
        /\ call[c].number \in DOMAIN prs
    BY <1>5 DEF UpdateAnswerLost, TypeOK
  <2>2. prs' \in Seq(PR) /\ DOMAIN prs' = DOMAIN prs
    BY <2>1, RetitledFacts
  <2>3. RemoteOK' /\ config' = config /\ ask' = ask
    BY <1>0, <1>f, <2>1, <2>2 DEF RemoteOK
  <2> QED BY <2>1, <2>2, <2>3, TypeTroubled
<1>6. ASSUME NEW n \in DOMAIN prs, NEW squash \in BOOLEAN, NEW delete \in BOOLEAN,
             Merge(n, squash, delete)
      PROVE  TypeOK'
  <2>1. /\ Review(n, "merged")
        /\ base' \in Branch /\ heads' \in [HeadName -> Branch]
        /\ commits' = commits + 1
        /\ landed' = landed \cup heads[prs[n].source].commits
        /\ prs[n].source \in HeadName
    BY <1>6, MergeFacts
  <2>2. landed' \subseteq Nat /\ commits' \in Nat
    <3>1. heads[prs[n].source] \in Branch
      BY <1>0, <2>1 DEF RemoteOK
    <3>2. heads[prs[n].source].commits \subseteq Nat
      BY <3>1 DEF Branch
    <3>3. landed \subseteq Nat /\ commits \in Nat
      BY <1>0 DEF RemoteOK
    <3>4. landed' = landed \cup heads[prs[n].source].commits /\ commits' = commits + 1
      BY <2>1
    <3>5. landed' \subseteq Nat
      BY <3>2, <3>3, <3>4, Zenon
    <3> QED BY <3>3, <3>4, <3>5
  <2>3. /\ call' \in [Call -> CallState] /\ prs' \in Seq(PR) /\ DOMAIN prs' = DOMAIN prs
        /\ \A d \in Call : Stays(d)
    BY <2>1, ReviewMoves
  <2>4. RemoteOK' /\ config' = config /\ ask' = ask
    BY <1>0, <1>r, <2>1, <2>2, <2>3 DEF RemoteOK
  <2> QED BY <2>3, <2>4, TypeStays
<1>7. ASSUME NEW n \in DOMAIN prs, NEW delete \in BOOLEAN, Close(n, delete)
      PROVE  TypeOK'
  <2>1. /\ Review(n, "closed")
        /\ base' = base /\ heads' \in [HeadName -> Branch]
        /\ commits' = commits /\ landed' = landed
    BY <1>7, CloseFacts
  <2>2. /\ call' \in [Call -> CallState] /\ prs' \in Seq(PR) /\ DOMAIN prs' = DOMAIN prs
        /\ \A d \in Call : Stays(d)
    BY <2>1, ReviewMoves
  <2>3. RemoteOK' /\ config' = config /\ ask' = ask
    BY <1>0, <1>r, <2>1, <2>2 DEF RemoteOK
  <2> QED BY <2>2, <2>3, TypeStays
<1>8. CASE UNCHANGED vars
  BY <1>8 DEF TypeOK, vars
<1> QED BY <1>1, <1>2, <1>3, <1>4, <1>5, <1>6, <1>7, <1>8

\* Every variable keeps its shape, and a call that updates a pull request has
\* the number of one.
THEOREM TypeCorrect == Spec => []TypeOK
<1>1. ASSUME TypeOK, [Next]_vars PROVE TypeOK'
  BY <1>1, TypePromote, TypeOthers DEF Next
<1> QED BY <1>1, TypeInit, PTL DEF Spec

-----------------------------------------------------------------------------
(***************************************************************************)
(* The inductive invariant.                                                *)
(***************************************************************************)

\* Commits are numbered in the order in which they were made, and the base
\* has one.
CommitsMade ==
    /\ 0 \in base.commits
    /\ base.commits \subseteq 0..(commits - 1)
    /\ \A h \in HeadName : heads[h].commits \subseteq 0..(commits - 1)
    /\ \A c \in Call : call[c].local.commits \subseteq 0..(commits - 1)

\* All that the branch has changed are versions of environments with the branch
\* name h, to ones asked for.
OwnOnly(branch, h) ==
    \A t \in Subject : branch.tree[t] # branch.fork[t] =>
        /\ headBranch(t) = h
        /\ \E c \in Call : ask[c] = [subject |-> t, version |-> branch.tree[t]]

\* A branch, at the remote and in every clone, changes the versions of its own
\* environments only.
OwnBranches ==
    /\ \A h \in HeadName : OwnOnly(heads[h], h)
    /\ \A c \in Call : OwnOnly(call[c].local, HeadOf(c))

\* Of the pull requests from one branch only the latest can be open.
LatestOpen ==
    \A m, n \in DOMAIN prs :
        m < n /\ prs[m].source = prs[n].source => prs[m].state # "open"

\* Nobody has touched the branch since the call cloned the repository.
Undisturbed(c) == call[c].trouble \subseteq {"fault"}

AfterPush(c) == call[c].pc \in {"create", "list", "update"}

\* A call works with usable settings on the version it was asked for.
Working(c) ==
    InProgress(c) => /\ Get = "pull-request"
                     /\ ~Unusable
                     /\ call[c].local.tree[ask[c].subject] = ask[c].version

\* Undisturbed, the clone is ahead of the remote, or the same if it has no
\* commit that the remote has not; then the push makes it the same.
Ahead(c) ==
    Undisturbed(c) =>
        /\ call[c].pc = "push" => /\ FastForwards(c)
                                  /\ UpToDate(c) => heads[HeadOf(c)] = call[c].local
        /\ AfterPush(c) => heads[HeadOf(c)] = call[c].local

\* What was pushed has come to the base or is on the branch still, if only below
\* what others have pushed on top.
OnBranch(c) ==
    \/ call[c].local.commits \subseteq heads[HeadOf(c)].commits
    \/ call[c].local.commits \subseteq landed \cup base.commits

\* Has CreatePullRequest failed because of an open pull request, or because
\* there is nothing to merge?
Refused(c) ==
    \/ OpenFrom(HeadOf(c)) # {}
    \/ call[c].local.commits \subseteq base.commits
    \/ ~Reaches(config.type, config.host, "create")

\* The pull request that the call has found is the open one of its branch.
Found(c) ==
    \/ /\ prs[call[c].number].source = HeadOf(c)
       /\ prs[call[c].number].state = "open"
    \/ call[c].local.commits \subseteq base.commits

\* The provider tells open pull requests from closed ones, or the call has seen
\* no failure that would bring it to a closed one.
Discerns(c) == ListsClosed(config.type) => "fault" \notin call[c].trouble

\* What a call that has pushed knows about its branch and its pull request.
Progress(c) ==
    /\ AfterPush(c) /\ "closed" \notin call[c].trouble => OnBranch(c)
    /\ call[c].pc = "list" => /\ call[c].trouble = {} => Refused(c)
                              /\ {"fault", "closed"} \cap call[c].trouble = {} =>
                                    Kept(c) \/ ~Reaches(config.type, config.host, "create")
    /\ call[c].pc = "update" =>
          /\ Reaches(config.type, config.host, "list")
          /\ Discerns(c) /\ "closed" \notin call[c].trouble => Kept(c)
          /\ Discerns(c) /\ Undisturbed(c) => Found(c)

\* FailsForCause, of one call.
HasCause(c) ==
    call[c].pc = "failed" /\ call[c].trouble = {} =>
        \/ config.defect # "none"
        \/ Get = NoStrategy
        \/ ~gitProviderIsValid(config.type)
        \/ call[c].local.commits \subseteq base.commits
        \/ config.type = "bitbucket-server" /\ OpenFrom(HeadOf(c)) # {}
        \/ config.type = "gitlab" /\ config.host \in {GitHubCom, GitLabCom}

CallInv(c) == Working(c) /\ Ahead(c) /\ Progress(c) /\ HasCause(c)

PullRequestInv ==
    /\ CommitsMade
    /\ OwnBranches
    /\ LatestOpen
    /\ \A c \in Call : CallInv(c)

-----------------------------------------------------------------------------
(***************************************************************************)
(* Branches and pull requests.                                             *)
(***************************************************************************)

SameLocals == \A d \in Call : call'[d].local = call[d].local

\* A push, that must fast-forward.
PushStep(c) ==
    /\ base' = base /\ commits' = commits /\ landed' = landed
    /\ SameLocals
    /\ FastForwards(c)
    /\ heads'[HeadOf(c)] = call[c].local
    /\ \A h \in HeadName : h # HeadOf(c) => heads'[h] = heads[h]

QuietStep ==
    /\ base' = base /\ commits' = commits /\ landed' = landed /\ heads' = heads
    /\ SameLocals

\* What the steps do to the branches, here and at the remote.
LEMMA BranchSteps ==
    ASSUME TypeOK, [Next]_vars
    PROVE  /\ config' = config /\ ask' = ask
           /\ \/ \E c \in Call : Prepare(c)
              \/ \E c \in Call : PushStep(c)
              \/ \E n \in DOMAIN prs : \E squash, delete \in BOOLEAN :
                    Merge(n, squash, delete)
              \/ \E n \in DOMAIN prs : \E delete \in BOOLEAN : Close(n, delete)
              \/ QuietStep
<1>1. config' = config /\ ask' = ask
  BY DEF Next, Promote, Prepare, Notify, Refuse, Push, CreatePullRequest,
         ListPullRequests, UpdatePullRequest, Retry, CallFails, PushAnswerLost,
         CreateAnswerLost, UpdateAnswerLost, Fault, Merge, Close, Review, vars
<1>2. call \in [Call -> CallState]
  BY DEF TypeOK
<1>3. ASSUME NEW c \in Call, NEW pc, NEW try, NEW number, NEW trouble,
             Moves(c, pc, try, call[c].local, number, trouble)
      PROVE  SameLocals
  BY <1>3 DEF Moves, With, SameLocals
<1>4. ASSUME NEW c \in Call, NEW pc \in Place, Goto(c, pc)
      PROVE  SameLocals
  BY <1>2, <1>3, <1>4, GotoMoves
<1>5. ASSUME NEW c \in Call, NEW pc \in Place, NEW n \in Nat,
             call' = [call EXCEPT ![c].pc = pc, ![c].number = n]
      PROVE  SameLocals
  BY <1>2, <1>3, <1>5, NumberMoves, Zenon
<1>6. ASSUME NEW c \in Call, NEW next \in CallState, next.local = call[c].local,
             Pushed(c, next), base' = base, commits' = commits, landed' = landed,
             FastForwards(c)
      PROVE  PushStep(c)
  BY <1>6, PushedMoves DEF PushStep, SameLocals, Stays
<1>7. ASSUME NEW c \in Call, Notify(c) \/ Refuse(c) \/ UpdatePullRequest(c)
      PROVE  QuietStep
  <2>1. PICK pc \in {"done", "failed"} : Goto(c, pc)
    BY <1>7 DEF Notify, Refuse, UpdatePullRequest
  <2>2. SameLocals
    BY <1>4, <2>1 DEF Place
  <2> QED BY <1>7, <2>2 DEF Notify, Refuse, UpdatePullRequest, remote, QuietStep
<1>8. ASSUME NEW c \in Call, Push(c) PROVE PushStep(c) \/ QuietStep
  <2>0. base' = base /\ commits' = commits /\ landed' = landed
    BY <1>8 DEF Push
  <2>1. CASE \E pc \in {"create", "failed"} : Goto(c, pc) /\ UNCHANGED heads
    <3>1. SameLocals
      BY <1>4, <2>1 DEF Place
    <3> QED BY <2>0, <2>1, <3>1 DEF QuietStep
  <2>2. CASE FastForwards(c) /\ Pushed(c, [call[c] EXCEPT !.pc = "create"])
    <3>1. /\ [call[c] EXCEPT !.pc = "create"] \in CallState
          /\ [call[c] EXCEPT !.pc = "create"].local = call[c].local
      BY <1>2 DEF CallState, Place
    <3> QED BY <1>6, <2>0, <2>2, <3>1
  <2> QED BY <1>8, <2>1, <2>2 DEF Push
<1>9. ASSUME NEW c \in Call, CreatePullRequest(c) PROVE QuietStep
  <2>0. base' = base /\ commits' = commits /\ landed' = landed /\ heads' = heads
    BY <1>9 DEF CreatePullRequest
  <2>1. CASE \E pc \in {"list", "failed"} : Goto(c, pc)
    <3>1. SameLocals
      BY <1>4, <2>1 DEF Place
    <3> QED BY <2>0, <3>1 DEF QuietStep
  <2>2. CASE call' = [call EXCEPT ![c].pc = "done", ![c].number = Len(prs) + 1]
    <3> DEFINE n == Len(prs) + 1
    <3>1. n \in Nat /\ "done" \in Place
      BY DEF TypeOK, Place
    <3>2. call' = [call EXCEPT ![c].pc = "done", ![c].number = n]
      BY <2>2
    <3> HIDE DEF n
    <3>3. SameLocals
      BY <1>5, <3>1, <3>2, Zenon
    <3> QED BY <2>0, <3>3 DEF QuietStep
  <2> QED BY <1>9, <2>1, <2>2 DEF CreatePullRequest
<1>10. ASSUME NEW c \in Call, ListPullRequests(c) PROVE QuietStep
  <2>0. base' = base /\ commits' = commits /\ landed' = landed /\ heads' = heads
    BY <1>10 DEF ListPullRequests, remote
  <2>1. CASE Goto(c, "failed")
    <3>1. SameLocals
      BY <1>4, <2>1 DEF Place
    <3> QED BY <2>0, <3>1 DEF QuietStep
  <2>2. CASE /\ Matching(c) # {}
             /\ call' = [call EXCEPT ![c].pc = "update", ![c].number = Max(Matching(c))]
    <3> DEFINE n == Max(Matching(c))
    <3>1. n \in Nat /\ "update" \in Place
      BY <2>2, MatchingMax DEF Place
    <3>2. call' = [call EXCEPT ![c].pc = "update", ![c].number = n]
      BY <2>2
    <3> HIDE DEF n
    <3>3. SameLocals
      BY <1>5, <3>1, <3>2, Zenon
    <3> QED BY <2>0, <3>3 DEF QuietStep
  <2> QED BY <1>10, <2>1, <2>2 DEF ListPullRequests
<1>11. ASSUME NEW c \in Call, Retry(c) PROVE QuietStep
  <2>1. SameLocals
    BY <1>2, <1>3, <1>11, RetryMoves
  <2> QED BY <1>11, <2>1 DEF Retry, remote, QuietStep
<1>12. ASSUME NEW c \in Call, CallFails(c) \/ CreateAnswerLost(c) \/ UpdateAnswerLost(c)
       PROVE  QuietStep
  <2>1. Troubled(c) /\ Fault /\ heads' = heads
    BY <1>12 DEF CallFails, CreateAnswerLost, UpdateAnswerLost
  <2>2. SameLocals
    BY <1>2, <1>3, <2>1, TroubledMoves
  <2> QED BY <2>1, <2>2 DEF Fault, QuietStep
<1>13. ASSUME NEW c \in Call, PushAnswerLost(c) PROVE PushStep(c)
  <2> DEFINE t == call[c].trouble \cup {"fault"}
             next == With("failed", call[c].try, call[c].local, call[c].number, t)
  <2>1. next \in CallState /\ Pushed(c, next)
    BY <1>13, LostPush
  <2>2. next.local = call[c].local
    BY DEF With
  <2>3. base' = base /\ commits' = commits /\ landed' = landed /\ FastForwards(c)
    BY <1>13 DEF PushAnswerLost, Fault
  <2> HIDE DEF next
  <2> QED BY <1>6, <2>1, <2>2, <2>3
<1>14. CASE UNCHANGED vars
  BY <1>14 DEF vars, QuietStep, SameLocals
<1> QED BY <1>1, <1>7, <1>8, <1>9, <1>10, <1>11, <1>12, <1>13, <1>14 DEF Next, Promote

\* Every step keeps the commits numbered.
LEMMA CommitsStep ==
    ASSUME TypeOK, CommitsMade, [Next]_vars
    PROVE  CommitsMade'
<1>0. commits \in Nat /\ base \in Branch /\ \A h \in HeadName : heads[h] \in Branch
  BY DEF TypeOK
<1>1. ASSUME NEW c \in Call, Prepare(c) PROVE CommitsMade'
  <2>1. PICK branch, local \in Branch :
           /\ branch = SwitchBranch(HeadOf(c))
           /\ Moves(c, "push", call[c].try, local, call[c].number, {})
           /\ \/ local = branch /\ commits' = commits
              \/ local.commits = branch.commits \cup {commits} /\ commits' = commits + 1
    BY <1>1, PrepareMoves
  <2>2. base' = base /\ heads' = heads
    BY <1>1 DEF Prepare
  <2>3. branch.commits \subseteq 0..(commits - 1)
    <3>1. HeadOf(c) \in HeadName
      BY AskFields DEF TypeOK
    <3>2. branch = heads[HeadOf(c)] \/ branch.commits = base.commits
      BY <1>0, <2>1 DEF SwitchBranch, Branch
    <3> QED BY <3>1, <3>2 DEF CommitsMade
  <2>4. commits' >= commits /\ commits' \in Nat /\ local.commits \subseteq 0..(commits' - 1)
    BY <1>0, <2>1, <2>3
  <2>5. \A d \in Call : call'[d].local = IF d = c THEN local ELSE call[d].local
    BY <2>1 DEF Moves, With
  <2>6. 0..(commits - 1) \subseteq 0..(commits' - 1)
    BY <1>0, <2>4
  <2> QED BY <2>2, <2>4, <2>5, <2>6 DEF CommitsMade
<1>2. ASSUME NEW c \in Call, PushStep(c) PROVE CommitsMade'
  BY <1>2 DEF PushStep, SameLocals, CommitsMade
<1>3. ASSUME NEW n \in DOMAIN prs, NEW squash \in BOOLEAN, NEW delete \in BOOLEAN,
             Merge(n, squash, delete)
      PROVE  CommitsMade'
  <2> DEFINE h == prs[n].source
  <2>1. /\ Review(n, "merged") /\ h \in HeadName
        /\ base'.commits \in {base.commits \cup {commits},
                              base.commits \cup {commits} \cup heads[h].commits}
        /\ commits' = commits + 1
        /\ \A g \in HeadName : g # h => heads'[g] = heads[g]
        /\ \/ heads'[h] = NoBranch
           \/ heads'[h].commits = heads[h].commits
    BY <1>3, MergeFacts
  <2> HIDE DEF h
  <2>2. 0..(commits - 1) \subseteq 0..(commits' - 1) /\ commits \in 0..(commits' - 1)
    BY <1>0, <2>1
  <2>3. SameLocals
    BY <2>1, ReviewMoves DEF Stays, SameLocals
  <2>4. 0 \in base'.commits /\ base'.commits \subseteq 0..(commits' - 1)
    BY <2>1, <2>2 DEF CommitsMade
  <2>5. \A g \in HeadName : heads'[g].commits \subseteq heads[g].commits
    BY <2>1 DEF NoBranch
  <2>6. \A g \in HeadName : heads'[g].commits \subseteq 0..(commits' - 1)
    BY <2>2, <2>5 DEF CommitsMade
  <2> QED BY <2>2, <2>3, <2>4, <2>6 DEF CommitsMade, SameLocals
<1>4. ASSUME NEW n \in DOMAIN prs, NEW delete \in BOOLEAN, Close(n, delete)
      PROVE  CommitsMade'
  <2> DEFINE h == prs[n].source
  <2>1. /\ Review(n, "closed") /\ h \in HeadName
        /\ base' = base /\ commits' = commits
        /\ \A g \in HeadName : g # h => heads'[g] = heads[g]
        /\ heads'[h] = NoBranch \/ heads'[h] = heads[h]
    BY <1>4, CloseFacts
  <2> HIDE DEF h
  <2>2. SameLocals
    BY <2>1, ReviewMoves DEF Stays, SameLocals
  <2>3. \A g \in HeadName : heads'[g].commits \subseteq heads[g].commits
    BY <2>1 DEF NoBranch
  <2> QED BY <2>1, <2>2, <2>3 DEF CommitsMade, SameLocals
<1>5. CASE QuietStep
  BY <1>5 DEF QuietStep, SameLocals, CommitsMade
<1> QED BY <1>1, <1>2, <1>3, <1>4, <1>5, BranchSteps

\* A branch that has just left the base, or is not there, has changed nothing.
LEMMA UnchangedOwn ==
    ASSUME NEW b, NEW h, \A t \in Subject : b.tree[t] = b.fork[t]
    PROVE  OwnOnly(b, h)
BY DEF OwnOnly

\* Every step keeps the branches apart: Prepare patches the version of its own
\* environment, and a merge brings the base no more than the branch had changed.
LEMMA OwnStep ==
    ASSUME TypeOK, OwnBranches, [Next]_vars
    PROVE  OwnBranches'
<1>0. ask' = ask /\ ask \in [Call -> Asks]
  BY BranchSteps DEF TypeOK
<1>1. \A c \in Call : HeadOf(c)' = HeadOf(c) /\ HeadOf(c) \in HeadName
  BY <1>0, AskFields DEF HeadOf
<1> SUFFICES /\ \A h \in HeadName : OwnOnly(heads'[h], h)
             /\ \A c \in Call : OwnOnly(call'[c].local, HeadOf(c))
  BY <1>0, <1>1 DEF OwnBranches, OwnOnly
<1>3. ASSUME NEW c \in Call, Prepare(c)
      PROVE  /\ \A h \in HeadName : OwnOnly(heads'[h], h)
             /\ \A d \in Call : OwnOnly(call'[d].local, HeadOf(d))
  <2> DEFINE s == ask[c].subject
             v == ask[c].version
             h == HeadOf(c)
  <2>1. PICK branch, local \in Branch :
           /\ branch = SwitchBranch(h)
           /\ Moves(c, "push", call[c].try, local, call[c].number, {})
           /\ local.fork = branch.fork
           /\ local.tree = patchManifests(branch.tree, s, v)
    BY <1>3, PrepareMoves
  <2>2. /\ s \in Subject /\ v \in Version /\ h \in HeadName
        /\ h = headBranch(s)
        /\ ask[c] = [subject |-> s, version |-> v]
    BY <1>0, AskFields
  <2>3. OwnOnly(branch, h)
    <3>1. CASE branch = heads[h]
      BY <2>2, <3>1 DEF OwnBranches
    <3>2. CASE branch = [base EXCEPT !.fork = base.tree]
      <4>1. branch.tree = branch.fork
        BY <3>2 DEF TypeOK, Branch
      <4> QED BY <4>1, UnchangedOwn
    <3> QED BY <2>1, <3>1, <3>2 DEF SwitchBranch
  <2> HIDE DEF s, v, h
  <2>4. local.tree[s] = v /\ \A t \in Subject : t # s => local.tree[t] = branch.tree[t]
    BY <2>1, <2>2 DEF patchManifests, Branch, Tree
  <2>5. OwnOnly(local, h)
    BY <2>1, <2>2, <2>3, <2>4 DEF OwnOnly
  <2>6. \A d \in Call : call'[d].local = IF d = c THEN local ELSE call[d].local
    BY <2>1 DEF Moves, With
  <2>7. heads' = heads
    BY <1>3 DEF Prepare
  <2> QED BY <2>5, <2>6, <2>7 DEF OwnBranches, h
<1>4. ASSUME NEW c \in Call, PushStep(c)
      PROVE  /\ \A h \in HeadName : OwnOnly(heads'[h], h)
             /\ \A d \in Call : OwnOnly(call'[d].local, HeadOf(d))
  <2>1. \A h \in HeadName : heads'[h] = IF h = HeadOf(c) THEN call[c].local ELSE heads[h]
    BY <1>1, <1>4 DEF PushStep
  <2>2. \A h \in HeadName : OwnOnly(heads'[h], h)
    BY <2>1 DEF OwnBranches
  <2> QED BY <1>4, <2>2 DEF PushStep, SameLocals, OwnBranches
<1>5. ASSUME NEW n \in DOMAIN prs, NEW squash \in BOOLEAN, NEW delete \in BOOLEAN,
             Merge(n, squash, delete) \/ Close(n, delete)
      PROVE  /\ \A h \in HeadName : OwnOnly(heads'[h], h)
             /\ \A d \in Call : OwnOnly(call'[d].local, HeadOf(d))
  <2> DEFINE h == prs[n].source
  <2>1. /\ Review(n, "merged") \/ Review(n, "closed")
        /\ \A g \in HeadName : g # h => heads'[g] = heads[g]
        /\ \/ heads'[h] = NoBranch
           \/ heads'[h] = heads[h]
           \/ heads'[h].tree = heads[h].tree /\ heads'[h].fork = heads[h].tree
    BY <1>5, MergeFacts, CloseFacts
  <2> HIDE DEF h
  <2>2. SameLocals
    BY <2>1, ReviewMoves DEF Stays, SameLocals
  <2>3. ASSUME NEW g \in HeadName PROVE OwnOnly(heads'[g], g)
    <3>1. CASE heads'[g] = heads[g]
      BY <3>1 DEF OwnBranches
    <3>2. CASE heads'[g] # heads[g]
      <4>1. heads'[h].tree = heads'[h].fork /\ g = h
        BY <2>1, <3>2 DEF NoBranch
      <4> QED BY <4>1, UnchangedOwn
    <3> QED BY <3>1, <3>2
  <2> QED BY <2>2, <2>3 DEF SameLocals, OwnBranches
<1>6. CASE QuietStep
  BY <1>6 DEF QuietStep, SameLocals, OwnBranches
<1> QED BY <1>3, <1>4, <1>5, <1>6, BranchSteps

\* The pull requests keep their sources and states, and there are no others.
PRsStay ==
    /\ DOMAIN prs' = DOMAIN prs
    /\ \A n \in DOMAIN prs : prs'[n].source = prs[n].source /\ prs'[n].state = prs[n].state

\* What the steps do to the pull requests.
LEMMA PRSteps ==
    ASSUME TypeOK, [Next]_vars
    PROVE  \/ PRsStay
           \/ \E c \in Call : Opened(c) /\ OpenFrom(HeadOf(c)) = {}
           \/ \E n \in DOMAIN prs : Review(n, "merged") \/ Review(n, "closed")
<1>1. CASE prs' = prs
  BY <1>1 DEF PRsStay
<1>2. ASSUME NEW c \in Call, UpdatePullRequest(c) \/ UpdateAnswerLost(c) PROVE PRsStay
  <2>1. CASE Retitled(c)
    <3>1. call[c].number \in DOMAIN prs
      BY <1>2 DEF UpdatePullRequest, UpdateAnswerLost, TypeOK
    <3> QED BY <2>1, <3>1, RetitledFacts DEF PRsStay
  <2>2. CASE prs' = prs
    BY <2>2 DEF PRsStay
  <2> QED BY <1>2, <2>1, <2>2 DEF UpdatePullRequest, UpdateAnswerLost
<1>3. ASSUME NEW c \in Call, CreatePullRequest(c) \/ CreateAnswerLost(c)
      PROVE  prs' = prs \/ (Opened(c) /\ OpenFrom(HeadOf(c)) = {})
  BY <1>3 DEF CreatePullRequest, CreateAnswerLost, Opens
<1>4. ASSUME NEW c \in Call,
             \/ Prepare(c) \/ Notify(c) \/ Refuse(c) \/ Push(c) \/ ListPullRequests(c)
             \/ Retry(c) \/ CallFails(c) \/ PushAnswerLost(c)
      PROVE  prs' = prs
  BY <1>4 DEF Prepare, Notify, Refuse, Push, ListPullRequests, Retry, CallFails,
              PushAnswerLost, remote
<1>5. ASSUME NEW n \in DOMAIN prs, NEW squash \in BOOLEAN, NEW delete \in BOOLEAN,
             Merge(n, squash, delete) \/ Close(n, delete)
      PROVE  Review(n, "merged") \/ Review(n, "closed")
  BY <1>5 DEF Merge, Close
<1>6. CASE UNCHANGED vars
  BY <1>1, <1>6 DEF vars
<1> QED BY <1>1, <1>2, <1>3, <1>4, <1>5, <1>6 DEF Next, Promote

\* A pull request is opened only if its branch has none open, so that the open
\* one stays the latest.
LEMMA LatestStep ==
    ASSUME TypeOK, LatestOpen, [Next]_vars
    PROVE  LatestOpen'
<1>1. CASE PRsStay
  BY <1>1 DEF PRsStay, LatestOpen
<1>2. ASSUME NEW c \in Call, Opened(c), OpenFrom(HeadOf(c)) = {} PROVE LatestOpen'
  <2>1. /\ Len(prs) \in Nat /\ DOMAIN prs = 1..Len(prs) /\ DOMAIN prs' = 1..(Len(prs) + 1)
        /\ \A m \in DOMAIN prs : prs'[m] = prs[m]
        /\ prs'[Len(prs) + 1].source = HeadOf(c)
    <3>0. prs'[Len(prs) + 1]
             = [source |-> HeadOf(c), title |-> ask[c].version, state |-> "open"]
      BY <1>2, OpenedFacts, Zenon
    <3>1. prs'[Len(prs) + 1].source = HeadOf(c)
      BY <3>0
    <3> QED BY <1>2, <3>1, OpenedFacts, Zenon
  <2>2. \A m \in DOMAIN prs : prs[m].source = HeadOf(c) => prs[m].state # "open"
    BY <1>2 DEF OpenFrom
  <2> SUFFICES ASSUME NEW m \in DOMAIN prs', NEW n \in DOMAIN prs', m < n,
                      prs'[m].source = prs'[n].source
               PROVE  prs'[m].state # "open"
    BY DEF LatestOpen
  <2>3. m \in DOMAIN prs
    BY <2>1
  <2>4. CASE n \in DOMAIN prs
    BY <2>1, <2>3, <2>4 DEF LatestOpen
  <2>5. CASE n = Len(prs) + 1
    BY <2>1, <2>2, <2>3, <2>5
  <2> QED BY <2>1, <2>4, <2>5
<1>3. ASSUME NEW n \in DOMAIN prs, NEW state \in {"merged", "closed"}, Review(n, state)
      PROVE  LatestOpen'
  <2>1. /\ DOMAIN prs' = DOMAIN prs
        /\ \A m \in DOMAIN prs : prs'[m].source = prs[m].source
        /\ \A m \in DOMAIN prs : m # n => prs'[m] = prs[m]
        /\ prs'[n].state # "open"
    BY <1>3, ReviewMoves
  <2> QED BY <2>1 DEF LatestOpen
<1> QED BY <1>1, <1>2, <1>3, PRSteps

\* Only a merge changes the versions at the base, and only those of environments
\* with the name of the branch that the pull request is from.
LEMMA MergeOwn ==
    ASSUME TypeOK, OwnBranches, NEW n \in DOMAIN prs, NEW squash \in BOOLEAN,
           NEW delete \in BOOLEAN, Merge(n, squash, delete),
           NEW t \in Subject, base'.tree[t] # base.tree[t]
    PROVE  /\ prs[n].source = headBranch(t)
           /\ \E c \in Call : ask[c] = [subject |-> t, version |-> base'.tree[t]]
<1> DEFINE b == heads[prs[n].source]
<1>1. base'.tree = MergedTree(b) /\ prs[n].source \in HeadName
  BY MergeFacts
<1>2. OwnOnly(b, prs[n].source)
  BY <1>1 DEF OwnBranches
<1> HIDE DEF b
<1>3. b.tree[t] # b.fork[t] /\ base'.tree[t] = b.tree[t]
  BY <1>1 DEF MergedTree
<1> QED BY <1>2, <1>3 DEF OwnOnly

\* Merging brings the base versions that a call asked for, of environments with
\* the branch name that the pull request is from.
LEMMA MergesOwnStep ==
    ASSUME TypeOK, OwnBranches, [Next]_vars,
           NEW s \in Subject, base'.tree[s] # base.tree[s]
    PROVE  /\ \A t \in Subject : base'.tree[t] # base.tree[t] => SameName(s, t)
           /\ \E n \in DOMAIN prs : /\ prs[n].state = "open"
                                    /\ prs'[n].state = "merged"
                                    /\ prs[n].source = headBranch(s)
           /\ \E c \in Call : ask[c] = [subject |-> s, version |-> base'.tree[s]]
<1>1. PICK n \in DOMAIN prs, squash \in BOOLEAN, delete \in BOOLEAN :
         Merge(n, squash, delete)
  BY BranchSteps DEF Prepare, PushStep, QuietStep, Close
<1>2. /\ prs[n].source = headBranch(s)
      /\ \E c \in Call : ask[c] = [subject |-> s, version |-> base'.tree[s]]
  BY <1>1, MergeOwn
<1>3. ASSUME NEW t \in Subject, base'.tree[t] # base.tree[t] PROVE SameName(s, t)
  <2>1. headBranch(s) = headBranch(t)
    BY <1>1, <1>2, <1>3, MergeOwn
  <2> QED BY <2>1 DEF headBranch, SameName
<1>4. prs[n].state = "open" /\ prs'[n].state = "merged"
  BY <1>1, ReviewMoves DEF Merge
<1> QED BY <1>2, <1>3, <1>4

\* At the start no branch has changed anything.
LEMMA OwnInit == Init => OwnBranches
<1> SUFFICES ASSUME Init PROVE OwnBranches
  OBVIOUS
<1>1. \A t \in Subject : NoBranch.tree[t] = NoBranch.fork[t]
  BY DEF NoBranch
<1>2. \A h : OwnOnly(NoBranch, h)
  BY <1>1, UnchangedOwn
<1>3. \A h \in HeadName : heads[h] = NoBranch
  BY DEF Init
<1>4. \A c \in Call : call[c].local = NoBranch
  BY DEF Init
<1> QED BY <1>2, <1>3, <1>4 DEF OwnBranches

\* The promotions of environments with different branch names never mix, in one
\* repository for all of them: each branch, at the remote and in every clone,
\* changes the versions of its own environments only, whatever is pushed, merged
\* and deleted between.  Nothing is assumed about the names.
THEOREM OwnBranchMerged == Spec => MergesOwnBranch
<1>1. ASSUME TypeOK, OwnBranches, [Next]_vars
      PROVE  OwnBranches'
  BY <1>1, OwnStep
<1>2. ASSUME TypeOK, OwnBranches, [Next]_vars
      PROVE  [\A s \in Subject : base'.tree[s] # base.tree[s] =>
                /\ \A t \in Subject : base'.tree[t] # base.tree[t] => SameName(s, t)
                /\ \E n \in DOMAIN prs : /\ prs[n].state = "open"
                                         /\ prs'[n].state = "merged"
                                         /\ prs[n].source = headBranch(s)
                /\ \E c \in Call : ask[c] = [subject |-> s, version |-> base'.tree[s]]]_vars
  BY <1>2, MergesOwnStep
<1> QED BY <1>1, <1>2, OwnInit, TypeCorrect, PTL DEF Spec, MergesOwnBranch

-----------------------------------------------------------------------------
(***************************************************************************)
(* What a call relies on.                                                  *)
(***************************************************************************)

\* Which operations reach the repository (GitProviders).
LEMMA ReachesFacts ==
    ASSUME NEW type, NEW host, gitProviderIsValid(type)
    PROVE  /\ Reaches(type, host, "list") =>
                 Reaches(type, host, "create") /\ Reaches(type, host, "update")
           /\ ~Reaches(type, host, "create") =>
                 type = "gitlab" /\ host \in {GitHubCom, GitLabCom}
           /\ ~Reaches(type, host, "list") =>
                 \/ type = "bitbucket-server"
                 \/ type = "gitlab" /\ host \in {GitHubCom, GitLabCom}
<1> DEFINE d == AddSchemeToDomain(Bare(host))
<1>1. CASE type = "github"
  <2>1. GitProviderClient(type, host)
           = [client |-> d, create |-> GetRepository(host),
              list |-> GetRepository(host), update |-> GetRepository(host)]
    BY <1>1 DEF GitProviderClient, CreateProvider, GitHubProvider, GitHubSetup, WithDomain,
                GitHubCreatePullRequest, decorateCustomDomainByType, ParseURL
  <2>2. GetRepository(host) = [domain |-> d, project |-> "path"]
    BY DEF GetRepository
  <2> HIDE DEF d
  <2>3. \A op \in {"create", "list", "update"} : Reaches(type, host, op)
    BY <1>1, <2>1, <2>2 DEF Reaches, Project
  <2> QED BY <2>3
<1>2. CASE type = "gitlab"
  <2> DEFINE e == AddSchemeToDomain([Bare(host) EXCEPT !.scheme = "https"])
  <2>1. GitProviderClient(type, host)
           = [client |-> e, create |-> GetRepository(host),
              list |-> GetRepository(host), update |-> GetRepository(host)]
    BY <1>2 DEF GitProviderClient, CreateProvider, GitLabProvider, GitLabSetup, WithDomain,
                GitLabCreatePullRequest, decorateCustomDomainByType, ParseURL, Bare
  <2>2. GetRepository(host) = [domain |-> d, project |-> "path"]
    BY DEF GetRepository
  <2>3. host \notin {GitHubCom, GitLabCom} => d = e
    BY DEF AddSchemeToDomain, Bare
  <2> HIDE DEF d, e
  <2>4. \A op \in {"create", "list", "update"} : Reaches(type, host, op) <=> d = e
    BY <1>2, <2>1, <2>2 DEF Reaches, Project
  <2> QED BY <1>2, <2>3, <2>4
<1>3. CASE type = "bitbucket-server"
  <2>1. GitProviderClient(type, host)
           = [client |-> AddSchemeToDomain(d),
              create |-> ParseBitbucketServerURL(host),
              list |-> GetRepository(host), update |-> GetRepository(host)]
    BY <1>3 DEF GitProviderClient, CreateProvider, BitBucketServerProvider,
                BitBucketServerSetup, WithDomain, BitBucketServerCreatePullRequest,
                GetBitbucketRepository, decorateCustomDomainByType, ParseURL,
                ParseBitbucketServerURL
  <2>2. /\ GetRepository(host) = [domain |-> d, project |-> "path"]
        /\ ParseBitbucketServerURL(host) = [domain |-> d, project |-> "key"]
    BY DEF GetRepository, ParseBitbucketServerURL
  <2>3. AddSchemeToDomain(d) = d
    BY DEF AddSchemeToDomain, Bare
  <2> HIDE DEF d
  <2>4. Reaches(type, host, "create") /\ ~Reaches(type, host, "list")
    BY <1>3, <2>1, <2>2, <2>3 DEF Reaches, Project
  <2> QED BY <1>3, <2>4
<1> QED BY <1>1, <1>2, <1>3 DEF gitProviderIsValid

\* The settings decide about the strategy and what is wrong with them.
LEMMA SettingsStay ==
    ASSUME config' = config
    PROVE  Get' = Get /\ Unusable' = Unusable /\ NoClient' = NoClient
BY DEF Get, Handles, Unusable, NoClient

\* What a call can rely on in a step that is not its own: it is told when
\* someone pushes to its branch or a pull request of it is merged or closed;
\* what was on the branch stays there, unless it has landed or the pull request
\* was closed.
Around(d) ==
    LET h == HeadOf(d) IN
    /\ Stays(d)
    /\ base.commits \subseteq base'.commits /\ landed \subseteq landed'
    /\ call'[d].trouble \subseteq {"fault"} =>
          /\ heads'[h] = heads[h]
          /\ \A n \in DOMAIN prs : prs[n].source = h =>
                /\ n \in DOMAIN prs' /\ prs'[n].source = h
                /\ prs'[n].state = prs[n].state
    /\ "closed" \notin call'[d].trouble =>
          \/ heads[h].commits \subseteq landed'
          \/ /\ heads[h].commits \subseteq heads'[h].commits
             /\ OpenFrom(h) # {} =>
                   \E n \in DOMAIN prs' : prs'[n].source = h /\ prs'[n].state = "open"

\* In such a step a call keeps what it knows.
LEMMA AroundKeeps ==
    ASSUME TypeOK, config' = config, ask' = ask, NEW d \in Call, Around(d), CallInv(d)
    PROVE  CallInv(d)'
<1> DEFINE h == HeadOf(d)
<1>0. /\ Stays(d)
      /\ HeadOf(d)' = h
      /\ Get' = Get /\ Unusable' = Unusable
      /\ OpenFrom(h)' = {n \in DOMAIN prs' : prs'[n].source = h /\ prs'[n].state = "open"}
  BY SettingsStay DEF Around, HeadOf, OpenFrom
<1>1. Working(d)'
  BY <1>0 DEF CallInv, Working, InProgress, Stays
<1>2. Ahead(d)'
  <2> SUFFICES ASSUME Undisturbed(d)'
               PROVE  /\ call'[d].pc = "push" =>
                            /\ heads'[h].commits \subseteq call'[d].local.commits
                            /\ heads'[h].commits = call'[d].local.commits =>
                                  heads'[h] = call'[d].local
                      /\ call'[d].pc \in {"create", "list", "update"} =>
                            heads'[h] = call'[d].local
    BY <1>0 DEF Ahead, FastForwards, UpToDate, AfterPush
  <2>1. Undisturbed(d) /\ heads'[h] = heads[h]
    BY <1>0 DEF Undisturbed, Around, Stays
  <2> QED BY <1>0, <2>1 DEF CallInv, Ahead, FastForwards, UpToDate, AfterPush, Stays
<1>3. ASSUME "closed" \notin call'[d].trouble, OnBranch(d)
      PROVE  OnBranch(d)'
  BY <1>0, <1>3 DEF OnBranch, Around, Stays
<1>4. ASSUME "closed" \notin call'[d].trouble, Kept(d)
      PROVE  Kept(d)'
  <2> SUFFICES \/ /\ \E n \in DOMAIN prs' : prs'[n].source = h /\ prs'[n].state = "open"
                  /\ call'[d].local.commits \subseteq heads'[h].commits
               \/ call'[d].local.commits \subseteq landed' \cup base'.commits
    BY <1>0 DEF Kept
  <2>1. CASE call[d].local.commits \subseteq landed \cup base.commits
    BY <1>0, <2>1 DEF Around, Stays
  <2>2. CASE OpenFrom(h) # {} /\ call[d].local.commits \subseteq heads[h].commits
    BY <1>0, <1>4, <2>2 DEF Around, Stays
  <2> QED BY <1>4, <2>1, <2>2 DEF Kept
<1>5. ASSUME call'[d].trouble \subseteq {"fault"}, OpenFrom(h) # {}
      PROVE  OpenFrom(h)' # {}
  <2>1. PICK n \in DOMAIN prs : prs[n].source = h /\ prs[n].state = "open"
    BY <1>5 DEF OpenFrom
  <2>2. n \in DOMAIN prs' /\ prs'[n].source = h /\ prs'[n].state = "open"
    BY <1>5, <2>1 DEF Around
  <2> QED BY <1>0, <2>2
<1>6. ASSUME call[d].local.commits \subseteq base.commits
      PROVE  call'[d].local.commits \subseteq base'.commits
  BY <1>6 DEF Around, Stays
<1>7. Progress(d)'
  <2>1. (AfterPush(d) /\ "closed" \notin call[d].trouble => OnBranch(d))'
    BY <1>0, <1>3 DEF CallInv, Progress, AfterPush, Stays
  <2>2. ASSUME call'[d].pc = "list", call'[d].trouble = {} PROVE Refused(d)'
    <3>1. call[d].trouble = {} /\ call[d].pc = "list"
      BY <1>0, <2>2 DEF Stays
    <3>2. Refused(d)
      BY <3>1 DEF CallInv, Progress
    <3> QED BY <1>0, <1>5, <1>6, <2>2, <3>2 DEF Refused
  <2>3. ASSUME call'[d].pc = "list", {"fault", "closed"} \cap call'[d].trouble = {}
        PROVE  Kept(d)' \/ ~Reaches(config.type, config.host, "create")
    <3>1. {"fault", "closed"} \cap call[d].trouble = {} /\ call[d].pc = "list"
      BY <1>0, <2>3 DEF Stays
    <3>2. Kept(d) \/ ~Reaches(config.type, config.host, "create")
      BY <3>1 DEF CallInv, Progress
    <3> QED BY <1>4, <2>3, <3>2
  <2>4. ASSUME call'[d].pc = "update"
        PROVE  /\ Reaches(config.type, config.host, "list")
               /\ Discerns(d)' /\ "closed" \notin call'[d].trouble => Kept(d)'
               /\ Discerns(d)' /\ Undisturbed(d)' => Found(d)'
    <3>1. call[d].pc = "update" /\ call[d].number \in DOMAIN prs
      BY <1>0, <2>4 DEF Stays, TypeOK
    <3>2. Discerns(d)' => Discerns(d)
      BY <1>0 DEF Discerns, Stays
    <3>3. "closed" \notin call'[d].trouble => "closed" \notin call[d].trouble
      BY <1>0 DEF Stays
    <3>4. ASSUME Discerns(d)', Undisturbed(d)' PROVE Found(d)'
      <4>1. Undisturbed(d)
        BY <1>0, <3>4 DEF Undisturbed, Stays
      <4>2. Found(d)
        BY <3>1, <3>2, <3>4, <4>1 DEF CallInv, Progress
      <4>3. ASSUME prs[call[d].number].source = h, prs[call[d].number].state = "open"
            PROVE  prs'[call'[d].number].source = h /\ prs'[call'[d].number].state = "open"
        BY <1>0, <3>1, <3>4, <4>3 DEF Around, Stays, Undisturbed
      <4> QED BY <1>0, <1>6, <4>2, <4>3 DEF Found
    <3> QED BY <1>4, <3>1, <3>2, <3>3, <3>4 DEF CallInv, Progress
  <2> QED BY <2>1, <2>2, <2>3, <2>4 DEF Progress
<1>8. HasCause(d)'
  <2> SUFFICES ASSUME call'[d].pc = "failed", call'[d].trouble = {}
               PROVE  \/ config.defect # "none"
                      \/ Get = NoStrategy
                      \/ ~gitProviderIsValid(config.type)
                      \/ call'[d].local.commits \subseteq base'.commits
                      \/ config.type = "bitbucket-server" /\ OpenFrom(h)' # {}
                      \/ config.type = "gitlab" /\ config.host \in {GitHubCom, GitLabCom}
    BY <1>0 DEF HasCause
  <2>1. call[d].pc = "failed" /\ call[d].trouble = {}
    BY <1>0 DEF Stays
  <2> QED BY <1>5, <1>6, <2>1 DEF CallInv, HasCause
<1> QED BY <1>1, <1>2, <1>7, <1>8 DEF CallInv

\* A call goes to pc, and nothing else about it changes.
GoesTo(c, pc) ==
    Moves(c, pc, call[c].try, call[c].local, call[c].number, call[c].trouble)

\* The outcomes of a push: nothing new, refused, or pushed.
LEMMA PushMoves ==
    ASSUME TypeOK, NEW c \in Call, Push(c)
    PROVE  \/ FastForwards(c) /\ UpToDate(c) /\ heads' = heads /\ GoesTo(c, "create")
           \/ ~FastForwards(c) /\ heads' = heads /\ GoesTo(c, "failed")
           \/ LET next == With("create", call[c].try, call[c].local, call[c].number,
                               call[c].trouble)
              IN  FastForwards(c) /\ next \in CallState /\ Pushed(c, next)
<1>1. call \in [Call -> CallState] /\ {"create", "failed"} \subseteq Place
  BY DEF TypeOK, Place
<1>2. \A pc \in {"create", "failed"} : Goto(c, pc) => GoesTo(c, pc)
  BY <1>1, GotoMoves DEF GoesTo
<1>3. /\ [call[c] EXCEPT !.pc = "create"]
            = With("create", call[c].try, call[c].local, call[c].number, call[c].trouble)
      /\ With("create", call[c].try, call[c].local, call[c].number, call[c].trouble)
            \in CallState
  BY <1>1 DEF CallState, With
<1> QED BY <1>2, <1>3 DEF Push

\* The outcomes of CreatePullRequest: no client, opened, or look for another.
LEMMA CreateMoves ==
    ASSUME TypeOK, NEW c \in Call, CreatePullRequest(c)
    PROVE  \/ NoClient /\ prs' = prs /\ GoesTo(c, "failed")
           \/ /\ ~NoClient /\ Opens(c) /\ Opened(c)
              /\ Moves(c, "done", call[c].try, call[c].local, Len(prs) + 1, call[c].trouble)
           \/ ~NoClient /\ ~Opens(c) /\ prs' = prs /\ GoesTo(c, "list")
<1> DEFINE n == Len(prs) + 1
<1>1. call \in [Call -> CallState] /\ {"list", "failed", "done"} \subseteq Place /\ n \in Nat
  BY DEF TypeOK, Place
<1>2. \A pc \in {"list", "failed"} : Goto(c, pc) => GoesTo(c, pc)
  BY <1>1, GotoMoves DEF GoesTo
<1>3. call' = [call EXCEPT ![c].pc = "done", ![c].number = n] =>
         Moves(c, "done", call[c].try, call[c].local, n, call[c].trouble)
  <2> HIDE DEF n
  <2>1. "done" \in Place
    BY <1>1
  <2> QED BY <1>1, <2>1, NumberMoves, Zenon
<1>4. \/ NoClient /\ prs' = prs /\ Goto(c, "failed")
      \/ /\ ~NoClient /\ Opens(c) /\ Opened(c)
         /\ call' = [call EXCEPT ![c].pc = "done", ![c].number = n]
      \/ ~NoClient /\ ~Opens(c) /\ prs' = prs /\ Goto(c, "list")
  BY DEF CreatePullRequest
<1> QED BY <1>2, <1>3, <1>4

\* The outcomes of ListPullRequests: the latest that matches, or failure.
LEMMA ListMoves ==
    ASSUME TypeOK, NEW c \in Call, ListPullRequests(c)
    PROVE  \/ /\ Reaches(config.type, config.host, "list") /\ Matching(c) # {}
              /\ Moves(c, "update", call[c].try, call[c].local, Max(Matching(c)),
                       call[c].trouble)
           \/ /\ ~Reaches(config.type, config.host, "list") \/ Matching(c) = {}
              /\ GoesTo(c, "failed")
<1> DEFINE n == Max(Matching(c))
<1>1. call \in [Call -> CallState] /\ {"update", "failed"} \subseteq Place
  BY DEF TypeOK, Place
<1>2. Goto(c, "failed") => GoesTo(c, "failed")
  BY <1>1, GotoMoves DEF GoesTo
<1>3. Matching(c) # {} => n \in Nat
  BY MatchingMax
<1>4. ASSUME Matching(c) # {},
             call' = [call EXCEPT ![c].pc = "update", ![c].number = n]
      PROVE  Moves(c, "update", call[c].try, call[c].local, n, call[c].trouble)
  <2>1. "update" \in Place /\ n \in Nat
    BY <1>1, <1>3, <1>4, Zenon
  <2> HIDE DEF n
  <2> QED BY <1>1, <1>4, <2>1, NumberMoves, Zenon
<1>5. \/ /\ Reaches(config.type, config.host, "list") /\ Matching(c) # {}
         /\ call' = [call EXCEPT ![c].pc = "update", ![c].number = n]
      \/ /\ ~Reaches(config.type, config.host, "list") \/ Matching(c) = {}
         /\ Goto(c, "failed")
  BY DEF ListPullRequests
<1> QED BY <1>2, <1>4, <1>5

\* The outcomes of UpdatePullRequest: retitled, or failure.
LEMMA UpdateMoves ==
    ASSUME TypeOK, NEW c \in Call, UpdatePullRequest(c)
    PROVE  \/ /\ Reaches(config.type, config.host, "update")
              /\ Retitled(c) /\ GoesTo(c, "done")
           \/ /\ ~Reaches(config.type, config.host, "update")
              /\ prs' = prs /\ GoesTo(c, "failed")
<1>1. call \in [Call -> CallState] /\ {"done", "failed"} \subseteq Place
  BY DEF TypeOK, Place
<1>2. \A pc \in {"done", "failed"} : Goto(c, pc) => GoesTo(c, pc)
  BY <1>1, GotoMoves DEF GoesTo
<1> QED BY <1>2 DEF UpdatePullRequest

\* A step of the call itself.
OwnAction(c) ==
    \/ Promote(c) \/ Retry(c) \/ CallFails(c) \/ PushAnswerLost(c)
    \/ CreateAnswerLost(c) \/ UpdateAnswerLost(c)

\* The branches are as they were, and so are the pull requests there were.
LEMMA AroundQuiet ==
    ASSUME ask' = ask, NEW d \in Call, Stays(d), heads' = heads, base' = base,
           landed' = landed, DOMAIN prs \subseteq DOMAIN prs',
           \A n \in DOMAIN prs : /\ prs'[n].source = prs[n].source
                                 /\ prs'[n].state = prs[n].state
    PROVE  Around(d)
<1>1. OpenFrom(HeadOf(d)) # {} =>
         \E n \in DOMAIN prs' : prs'[n].source = HeadOf(d) /\ prs'[n].state = "open"
  BY DEF OpenFrom
<1> QED BY <1>1 DEF Around

\* Pull requests are added and get new titles, and else stay.
LEMMA PRsGrow ==
    ASSUME TypeOK,
           \/ prs' = prs
           \/ \E c \in Call : Opened(c)
           \/ \E c \in Call : call[c].number \in DOMAIN prs /\ Retitled(c)
    PROVE  /\ DOMAIN prs \subseteq DOMAIN prs'
           /\ \A n \in DOMAIN prs : /\ prs'[n].source = prs[n].source
                                    /\ prs'[n].state = prs[n].state
<1>1. CASE prs' = prs
  BY <1>1
<1>2. ASSUME NEW c \in Call, Opened(c)
      PROVE  /\ DOMAIN prs \subseteq DOMAIN prs'
             /\ \A n \in DOMAIN prs : /\ prs'[n].source = prs[n].source
                                      /\ prs'[n].state = prs[n].state
  <2>1. \A m \in DOMAIN prs : m \in DOMAIN prs' /\ prs'[m] = prs[m]
    BY <1>2, OpenedFacts, Zenon
  <2> QED BY <2>1
<1>3. ASSUME NEW c \in Call, call[c].number \in DOMAIN prs, Retitled(c)
      PROVE  /\ DOMAIN prs \subseteq DOMAIN prs'
             /\ \A n \in DOMAIN prs : /\ prs'[n].source = prs[n].source
                                      /\ prs'[n].state = prs[n].state
  BY <1>3, RetitledFacts
<1> QED BY <1>1, <1>2, <1>3

\* The other calls can rely on a push: it fast-forwards, and they are told.
LEMMA AroundPush ==
    ASSUME TypeOK, NEW c \in Call, NEW next \in CallState, Pushed(c, next), FastForwards(c),
           base' = base, landed' = landed, prs' = prs, NEW d \in Call, d # c
    PROVE  Around(d)
<1> DEFINE h == HeadOf(d)
<1>1. /\ Stays(d)
      /\ h = HeadOf(c) => "push" \in call'[d].trouble
      /\ heads'[HeadOf(c)] = call[c].local
      /\ \A g \in HeadName : g # HeadOf(c) => heads'[g] = heads[g]
  BY PushedMoves
<1>2. OpenFrom(h) # {} =>
         \E n \in DOMAIN prs' : prs'[n].source = h /\ prs'[n].state = "open"
  BY DEF OpenFrom
<1>3. h \in HeadName
  BY AskFields DEF TypeOK
<1>4. heads[h].commits \subseteq heads'[h].commits
  BY <1>1, <1>3 DEF FastForwards
<1>5. call'[d].trouble \subseteq {"fault"} => heads'[h] = heads[h]
  BY <1>1, <1>3
<1> QED BY <1>1, <1>2, <1>4, <1>5 DEF Around

\* Another call's step.
LEMMA AroundOwn ==
    ASSUME TypeOK, ask' = ask, NEW c \in Call, OwnAction(c), NEW d \in Call, d # c
    PROVE  Around(d)
<1>0. call \in [Call -> CallState]
  BY DEF TypeOK
<1>1. ASSUME NEW pc, NEW try, NEW local, NEW number, NEW trouble,
             Moves(c, pc, try, local, number, trouble),
             heads' = heads, base' = base, landed' = landed,
             \/ prs' = prs
             \/ Opened(c)
             \/ call[c].number \in DOMAIN prs /\ Retitled(c)
      PROVE  Around(d)
  <2>1. Stays(d)
    BY <1>1 DEF Moves, Stays
  <2>2. /\ DOMAIN prs \subseteq DOMAIN prs'
        /\ \A n \in DOMAIN prs : /\ prs'[n].source = prs[n].source
                                 /\ prs'[n].state = prs[n].state
    BY <1>1, PRsGrow
  <2> QED BY <1>1, <2>1, <2>2, AroundQuiet
<1>2. CASE Prepare(c)
  <2>1. PICK branch, local \in Branch :
           Moves(c, "push", call[c].try, local, call[c].number, {})
    BY <1>2, PrepareMoves
  <2>2. heads' = heads /\ base' = base /\ landed' = landed /\ prs' = prs
    BY <1>2 DEF Prepare
  <2> QED BY <1>1, <2>1, <2>2
<1>3. CASE Notify(c) \/ Refuse(c)
  <2>1. PICK pc \in {"done", "failed"} : Goto(c, pc)
    BY <1>3 DEF Notify, Refuse
  <2>2. Moves(c, pc, call[c].try, call[c].local, call[c].number, call[c].trouble)
    BY <1>0, <2>1, GotoMoves DEF Place
  <2>3. heads' = heads /\ base' = base /\ landed' = landed /\ prs' = prs
    BY <1>3 DEF Notify, Refuse, remote
  <2> QED BY <1>1, <2>2, <2>3
<1>4. CASE Push(c)
  <2>1. base' = base /\ landed' = landed /\ prs' = prs
    BY <1>4 DEF Push
  <2> DEFINE next == With("create", call[c].try, call[c].local, call[c].number,
                          call[c].trouble)
  <2>2. \/ heads' = heads /\ (GoesTo(c, "create") \/ GoesTo(c, "failed"))
        \/ FastForwards(c) /\ next \in CallState /\ Pushed(c, next)
    BY <1>4, PushMoves
  <2> HIDE DEF next
  <2> QED BY <1>1, <2>1, <2>2, AroundPush DEF GoesTo
<1>5. CASE CreatePullRequest(c)
  <2>1. heads' = heads /\ base' = base /\ landed' = landed
    BY <1>5 DEF CreatePullRequest
  <2>2. \/ prs' = prs /\ (GoesTo(c, "failed") \/ GoesTo(c, "list"))
        \/ /\ Opened(c)
           /\ Moves(c, "done", call[c].try, call[c].local, Len(prs) + 1, call[c].trouble)
    BY <1>5, CreateMoves
  <2> QED BY <1>1, <2>1, <2>2 DEF GoesTo
<1>6. CASE ListPullRequests(c)
  <2>1. heads' = heads /\ base' = base /\ landed' = landed /\ prs' = prs
    BY <1>6 DEF ListPullRequests, remote
  <2>2. \/ Moves(c, "update", call[c].try, call[c].local, Max(Matching(c)), call[c].trouble)
        \/ GoesTo(c, "failed")
    BY <1>6, ListMoves
  <2> QED BY <1>1, <2>1, <2>2 DEF GoesTo
<1>7. CASE UpdatePullRequest(c)
  <2>1. heads' = heads /\ base' = base /\ landed' = landed /\ call[c].number \in DOMAIN prs
    BY <1>7 DEF UpdatePullRequest, TypeOK
  <2>2. \/ Retitled(c) /\ GoesTo(c, "done")
        \/ prs' = prs /\ GoesTo(c, "failed")
    BY <1>7, UpdateMoves
  <2> QED BY <1>1, <2>1, <2>2 DEF GoesTo
<1>8. CASE Retry(c)
  <2>1. heads' = heads /\ base' = base /\ landed' = landed /\ prs' = prs
    BY <1>8 DEF Retry, remote
  <2> QED BY <1>0, <1>1, <1>8, <2>1, RetryMoves
<1>9. CASE CallFails(c) \/ CreateAnswerLost(c) \/ UpdateAnswerLost(c)
  <2>1. Troubled(c) /\ heads' = heads /\ base' = base /\ landed' = landed
    BY <1>9 DEF CallFails, CreateAnswerLost, UpdateAnswerLost, Fault
  <2>2. prs' = prs \/ Opened(c) \/ (call[c].number \in DOMAIN prs /\ Retitled(c))
    BY <1>9 DEF CallFails, CreateAnswerLost, UpdateAnswerLost, TypeOK
  <2> QED BY <1>0, <1>1, <2>1, <2>2, TroubledMoves
<1>10. CASE PushAnswerLost(c)
  <2>1. base' = base /\ landed' = landed /\ prs' = prs /\ FastForwards(c)
    BY <1>10 DEF PushAnswerLost, Fault
  <2> QED BY <1>10, <2>1, LostPush, AroundPush
<1> QED BY <1>2, <1>3, <1>4, <1>5, <1>6, <1>7, <1>8, <1>9, <1>10 DEF OwnAction, Promote

\* What people do.
LEMMA AroundReview ==
    ASSUME TypeOK, NEW n \in DOMAIN prs, NEW squash \in BOOLEAN, NEW delete \in BOOLEAN,
           Merge(n, squash, delete) \/ Close(n, delete), NEW d \in Call
    PROVE  Around(d)
<1> DEFINE h == HeadOf(d)
           g == prs[n].source
<1>0. h \in HeadName
  BY AskFields DEF TypeOK
<1>1. PICK state \in {"merged", "closed"} :
         /\ Review(n, state)
         /\ state = "merged" => heads[g].commits \subseteq landed'
         /\ base.commits \subseteq base'.commits /\ landed \subseteq landed'
         /\ \A e \in HeadName : e # g => heads'[e] = heads[e]
  <2>1. CASE Merge(n, squash, delete)
    <3>1. /\ Review(n, "merged")
          /\ base'.commits \in {base.commits \cup {commits},
                                base.commits \cup {commits} \cup heads[g].commits}
          /\ landed' = landed \cup heads[g].commits
          /\ \A e \in HeadName : e # g => heads'[e] = heads[e]
      BY <2>1, MergeFacts
    <3> HIDE DEF g
    <3>2. base.commits \subseteq base'.commits /\ landed \subseteq landed'
      BY <3>1
    <3>3. heads[g].commits \subseteq landed'
      BY <3>1
    <3> QED BY <3>1, <3>2, <3>3
  <2>2. CASE Close(n, delete)
    BY <2>2, CloseFacts
  <2> QED BY <2>1, <2>2
<1>2. /\ Stays(d)
      /\ h = g => state \in call'[d].trouble
      /\ DOMAIN prs' = DOMAIN prs
      /\ \A m \in DOMAIN prs : m # n => prs'[m] = prs[m]
  BY <1>1, ReviewMoves
<1>3. CASE h = g
  BY <1>1, <1>2, <1>3 DEF Around
<1>4. CASE h # g
  <2>1. heads'[h] = heads[h]
    BY <1>0, <1>1, <1>4
  <2>2. \A m \in DOMAIN prs : prs[m].source = h => m \in DOMAIN prs' /\ prs'[m] = prs[m]
    BY <1>2, <1>4
  <2>3. OpenFrom(h) # {} =>
           \E m \in DOMAIN prs' : prs'[m].source = h /\ prs'[m].state = "open"
    BY <2>2 DEF OpenFrom
  <2> QED BY <1>1, <1>2, <2>1, <2>2, <2>3 DEF Around
<1> QED BY <1>3, <1>4

-----------------------------------------------------------------------------
(***************************************************************************)
(* A call's own steps keep what it knows.                                  *)
(***************************************************************************)

\* A call that begins, succeeds or fails after trouble claims nothing.
LEMMA EndKeeps ==
    ASSUME NEW c \in Call,
           \/ call'[c].pc \in {"start", "done"}
           \/ call'[c].pc = "failed" /\ call'[c].trouble # {}
    PROVE  CallInv(c)'
BY DEF CallInv, Working, InProgress, Ahead, AfterPush, Progress, HasCause

\* A call that fails has to have a cause, and no more.
LEMMA FailKeeps ==
    ASSUME NEW c \in Call, call'[c].pc = "failed", HasCause(c)'
    PROVE  CallInv(c)'
BY DEF CallInv, Working, InProgress, Ahead, AfterPush, Progress

\* After the push, while the branches stay.
LEMMA AfterKeeps ==
    ASSUME config' = config, ask' = ask, heads' = heads, base' = base, landed' = landed,
           NEW c \in Call, CallInv(c), AfterPush(c), AfterPush(c)',
           call'[c].local = call[c].local, call[c].trouble \subseteq call'[c].trouble
    PROVE  /\ Working(c)' /\ Ahead(c)'
           /\ "closed" \notin call'[c].trouble => OnBranch(c)'
           /\ call'[c].pc # "failed"
<1>0. HeadOf(c)' = HeadOf(c) /\ Get' = Get /\ Unusable' = Unusable
  BY SettingsStay DEF HeadOf
<1>1. Working(c)'
  BY <1>0 DEF CallInv, Working, InProgress, AfterPush
<1>2. Ahead(c)'
  BY <1>0 DEF CallInv, Ahead, AfterPush, Undisturbed
<1>3. "closed" \notin call'[c].trouble => OnBranch(c)'
  BY <1>0 DEF CallInv, Progress, OnBranch
<1> QED BY <1>1, <1>2, <1>3 DEF AfterPush

\* After the clone and the commit the call is ahead of the branch.
LEMMA PrepareKeeps ==
    ASSUME TypeOK, CommitsMade, config' = config, ask' = ask, NEW c \in Call, Prepare(c)
    PROVE  CallInv(c)'
<1> DEFINE h == HeadOf(c)
<1>1. PICK branch, local \in Branch :
         /\ branch = SwitchBranch(h)
         /\ Moves(c, "push", call[c].try, local, call[c].number, {})
         /\ local.fork = branch.fork
         /\ local.tree = patchManifests(branch.tree, ask[c].subject, ask[c].version)
         /\ \/ local = branch
            \/ local.commits = branch.commits \cup {commits}
  BY PrepareMoves
<1>2. /\ call'[c].pc = "push" /\ call'[c].local = local
      /\ heads' = heads /\ Get = "pull-request" /\ ~Unusable
  <2>1. call'[c].pc = "push" /\ call'[c].local = local
    BY <1>1 DEF Moves, With
  <2>2. heads' = heads /\ Get = "pull-request" /\ ~Unusable
    BY DEF Prepare
  <2> QED BY <2>1, <2>2
<1>3. HeadOf(c)' = h /\ Get' = Get /\ Unusable' = Unusable
  BY SettingsStay DEF HeadOf
<1>4. ask[c].subject \in Subject /\ h \in HeadName
  BY AskFields DEF TypeOK
<1>5. local.tree[ask[c].subject] = ask[c].version
  BY <1>1, <1>4 DEF patchManifests, Branch, Tree
<1>6. /\ heads[h].commits \subseteq local.commits
      /\ heads[h].commits = local.commits => heads[h] = local
  <2>0. heads[h] \in Branch /\ base \in Branch /\ commits \in Nat
    BY <1>4 DEF TypeOK
  <2>1. commits \notin heads[h].commits
    BY <1>4, <2>0 DEF CommitsMade
  <2>2. CASE heads[h] # NoBranch
    <3>1. branch = heads[h]
      BY <1>1, <2>2 DEF SwitchBranch
    <3> QED BY <1>1, <2>1, <3>1
  <2>3. CASE heads[h] = NoBranch
    <3>1. branch.commits = base.commits
      BY <1>1, <2>0, <2>3 DEF SwitchBranch, Branch
    <3>2. 0 \in local.commits
      BY <1>1, <3>1 DEF CommitsMade
    <3>3. heads[h].commits = {}
      BY <2>3 DEF NoBranch
    <3> QED BY <3>2, <3>3
  <2> QED BY <2>2, <2>3
<1> QED BY <1>2, <1>3, <1>5, <1>6
        DEF CallInv, Working, Ahead, AfterPush, FastForwards, UpToDate, Progress, HasCause

\* Promote refuses over its settings only.
LEMMA RefuseKeeps ==
    ASSUME TypeOK, config' = config, NEW c \in Call, Refuse(c)
    PROVE  CallInv(c)'
<1>1. call \in [Call -> CallState] /\ "failed" \in Place
  BY DEF TypeOK, Place
<1>2. Moves(c, "failed", call[c].try, call[c].local, call[c].number, call[c].trouble)
  BY <1>1, GotoMoves DEF Refuse
<1>3. call'[c].pc = "failed"
  BY <1>2 DEF Moves, With
<1>4. config.defect # "none" \/ Get = NoStrategy \/ ~gitProviderIsValid(config.type)
  BY DEF Refuse, Unusable
<1>5. HasCause(c)'
  BY <1>4, SettingsStay DEF HasCause
<1> QED BY <1>3, <1>5, FailKeeps

\* Undisturbed a push does not fail, and leaves the branch as the clone has it.
LEMMA PushKeeps ==
    ASSUME TypeOK, config' = config, ask' = ask, NEW c \in Call, CallInv(c), Push(c)
    PROVE  CallInv(c)'
<1> DEFINE h == HeadOf(c)
           next == With("create", call[c].try, call[c].local, call[c].number,
                        call[c].trouble)
<1>0. /\ HeadOf(c)' = h /\ Get' = Get /\ Unusable' = Unusable
      /\ call[c].pc = "push" /\ InProgress(c)
  BY SettingsStay DEF HeadOf, Push, InProgress
<1>1. CASE /\ call'[c].pc = "create" /\ call'[c].local = call[c].local
           /\ call'[c].trouble = call[c].trouble
           /\ heads'[h].commits = call[c].local.commits
           /\ Undisturbed(c) => heads'[h] = call[c].local
  BY <1>0, <1>1 DEF CallInv, Working, InProgress, Ahead, AfterPush, Undisturbed, Progress,
                    OnBranch, HasCause
<1>2. CASE FastForwards(c) /\ UpToDate(c) /\ heads' = heads /\ GoesTo(c, "create")
  <2>1. /\ call'[c].pc = "create" /\ call'[c].local = call[c].local
        /\ call'[c].trouble = call[c].trouble
    BY <1>2 DEF GoesTo, Moves, With
  <2>2. heads'[h].commits = call[c].local.commits
    BY <1>2 DEF UpToDate
  <2>3. Undisturbed(c) => heads'[h] = call[c].local
    BY <1>0, <1>2 DEF CallInv, Ahead
  <2> QED BY <1>1, <2>1, <2>2, <2>3
<1>3. CASE ~FastForwards(c) /\ GoesTo(c, "failed")
  <2>1. call'[c].pc = "failed" /\ call'[c].trouble = call[c].trouble
    BY <1>3 DEF GoesTo, Moves, With
  <2>2. call[c].trouble # {}
    BY <1>0, <1>3 DEF CallInv, Ahead, Undisturbed
  <2> QED BY <2>1, <2>2, EndKeeps
<1>4. CASE next \in CallState /\ Pushed(c, next)
  <2>1. /\ next.pc = "create" /\ next.local = call[c].local
        /\ next.trouble = call[c].trouble
    BY DEF With
  <2> HIDE DEF next
  <2>2. call'[c] = next /\ heads'[h] = call[c].local
    BY <1>4, PushedMoves
  <2> QED BY <1>1, <2>1, <2>2
<1> QED BY <1>2, <1>3, <1>4, PushMoves

\* CreatePullRequest fails without trouble only over an open pull request,
\* nothing to merge, or a domain that does not match.
LEMMA CreateKeeps ==
    ASSUME TypeOK, config' = config, ask' = ask, NEW c \in Call, CallInv(c),
           CreatePullRequest(c)
    PROVE  CallInv(c)'
<1> DEFINE h == HeadOf(c)
<1>0. /\ HeadOf(c)' = h /\ call[c].pc = "create" /\ AfterPush(c)
      /\ heads' = heads /\ base' = base /\ landed' = landed
  BY DEF HeadOf, CreatePullRequest, AfterPush
<1>1. CASE NoClient /\ GoesTo(c, "failed")
  <2>1. call'[c].pc = "failed"
    BY <1>1 DEF GoesTo, Moves, With
  <2>2. HasCause(c)'
    BY <1>1 DEF NoClient, HasCause
  <2> QED BY <2>1, <2>2, FailKeeps
<1>2. CASE Moves(c, "done", call[c].try, call[c].local, Len(prs) + 1, call[c].trouble)
  <2>1. call'[c].pc = "done"
    BY <1>2 DEF Moves, With
  <2> QED BY <2>1, EndKeeps
<1>3. CASE ~Opens(c) /\ prs' = prs /\ GoesTo(c, "list")
  <2>1. /\ call'[c].pc = "list" /\ call'[c].local = call[c].local
        /\ call'[c].trouble = call[c].trouble
    BY <1>3 DEF GoesTo, Moves, With
  <2>2. /\ Working(c)' /\ Ahead(c)'
        /\ "closed" \notin call'[c].trouble => OnBranch(c)'
    BY <1>0, <2>1, AfterKeeps DEF AfterPush
  <2>3. \/ ~Reaches(config.type, config.host, "create")
        \/ OpenFrom(h) # {}
        \/ heads[h].commits \subseteq base.commits
    BY <1>3 DEF Opens, NoBranch
  <2>4. ASSUME call'[c].trouble = {} PROVE Refused(c)'
    <3>1. heads[h] = call[c].local
      BY <1>0, <2>1, <2>4 DEF CallInv, Ahead, Undisturbed
    <3>2. Refused(c)
      BY <2>3, <3>1 DEF Refused
    <3> QED BY <1>0, <1>3, <2>1, <3>2 DEF Refused, OpenFrom
  <2>5. ASSUME "closed" \notin call'[c].trouble
        PROVE  Kept(c)' \/ ~Reaches(config.type, config.host, "create")
    <3>1. OnBranch(c)
      BY <1>0, <2>1, <2>5 DEF CallInv, Progress
    <3>2. Kept(c) \/ ~Reaches(config.type, config.host, "create")
      BY <2>3, <3>1 DEF OnBranch, Kept
    <3> QED BY <1>0, <1>3, <2>1, <3>2 DEF Kept, OpenFrom
  <2>6. Progress(c)'
    BY <2>1, <2>2, <2>4, <2>5 DEF Progress
  <2> QED BY <2>1, <2>2, <2>6 DEF CallInv, HasCause
<1> QED BY <1>1, <1>2, <1>3, CreateMoves

\* ListPullRequests finds the open pull request, which is the latest.
LEMMA ListKeeps ==
    ASSUME TypeOK, LatestOpen, config' = config, ask' = ask, NEW c \in Call, CallInv(c),
           ListPullRequests(c)
    PROVE  CallInv(c)'
<1> DEFINE h == HeadOf(c)
           n == Max(Matching(c))
<1>0. /\ HeadOf(c)' = h /\ call[c].pc = "list" /\ AfterPush(c) /\ InProgress(c)
      /\ heads' = heads /\ base' = base /\ landed' = landed /\ prs' = prs
  BY DEF HeadOf, ListPullRequests, AfterPush, InProgress, remote
<1>1. gitProviderIsValid(config.type)
  BY <1>0 DEF CallInv, Working, Unusable
<1>2. OpenFrom(h) \subseteq Matching(c)
  BY DEF OpenFrom, Matching, Listed
<1>3. CASE /\ ~Reaches(config.type, config.host, "list") \/ Matching(c) = {}
           /\ GoesTo(c, "failed")
  <2>1. /\ call'[c].pc = "failed" /\ call'[c].local = call[c].local
        /\ call'[c].trouble = call[c].trouble
    BY <1>3 DEF GoesTo, Moves, With
  <2>2. ASSUME call[c].trouble = {}
        PROVE  \/ call[c].local.commits \subseteq base.commits
               \/ config.type = "bitbucket-server" /\ OpenFrom(h) # {}
               \/ config.type = "gitlab" /\ config.host \in {GitHubCom, GitLabCom}
    <3>1. Refused(c)
      BY <1>0, <2>2 DEF CallInv, Progress
    <3>2. CASE ~Reaches(config.type, config.host, "list")
      BY <1>1, <3>1, <3>2, ReachesFacts DEF Refused
    <3>3. CASE Matching(c) = {}
      BY <1>1, <1>2, <3>1, <3>3, ReachesFacts DEF Refused
    <3> QED BY <1>3, <3>2, <3>3
  <2>3. HasCause(c)'
    BY <1>0, <2>1, <2>2 DEF HasCause, OpenFrom
  <2> QED BY <2>1, <2>3, FailKeeps
<1>4. CASE /\ Reaches(config.type, config.host, "list") /\ Matching(c) # {}
           /\ Moves(c, "update", call[c].try, call[c].local, n, call[c].trouble)
  <2>1. /\ call'[c].pc = "update" /\ call'[c].local = call[c].local
        /\ call'[c].trouble = call[c].trouble /\ call'[c].number = n
    BY <1>4 DEF Moves, With
  <2>2. /\ Working(c)' /\ Ahead(c)'
        /\ "closed" \notin call'[c].trouble => OnBranch(c)'
    BY <1>0, <2>1, AfterKeeps DEF AfterPush
  <2>3. Reaches(config.type, config.host, "create")
    BY <1>1, <1>4, ReachesFacts
  <2>4. n \in Matching(c) /\ \A m \in Matching(c) : m <= n
    BY <1>4, MatchingMax
  <2>5. /\ n \in DOMAIN prs /\ n \in Nat /\ prs[n].source = h
        /\ ~ListsClosed(config.type) => prs[n].state = "open"
    BY <1>4, <2>4, MatchingMax DEF Matching, Listed
  <2> HIDE DEF n
  <2>6. ASSUME Discerns(c)', "closed" \notin call'[c].trouble PROVE Kept(c)'
    <3>1. CASE ListsClosed(config.type)
      <4>1. {"fault", "closed"} \cap call[c].trouble = {}
        BY <2>1, <2>6, <3>1 DEF Discerns
      <4>2. Kept(c)
        BY <1>0, <2>3, <4>1 DEF CallInv, Progress
      <4> QED BY <1>0, <2>1, <4>2 DEF Kept, OpenFrom
    <3>2. CASE ~ListsClosed(config.type)
      <4>1. n \in OpenFrom(h)
        BY <2>5, <3>2 DEF OpenFrom
      <4>2. OnBranch(c)
        BY <1>0, <2>1, <2>6 DEF CallInv, Progress
      <4>3. Kept(c)
        BY <4>1, <4>2 DEF Kept, OnBranch
      <4> QED BY <1>0, <2>1, <4>3 DEF Kept, OpenFrom
    <3> QED BY <3>1, <3>2
  <2>7. ASSUME Discerns(c)', Undisturbed(c)' PROVE Found(c)'
    <3> SUFFICES prs[n].state = "open" \/ call[c].local.commits \subseteq base.commits
      BY <1>0, <2>1, <2>5 DEF Found
    <3>1. CASE ListsClosed(config.type)
      <4>1. call[c].trouble = {}
        BY <2>1, <2>7, <3>1 DEF Discerns, Undisturbed
      <4>2. Refused(c)
        BY <1>0, <4>1 DEF CallInv, Progress
      <4>3. CASE OpenFrom(h) # {}
        <5>1. PICK o \in OpenFrom(h) : TRUE
          BY <4>3
        <5>2. /\ o \in Matching(c) /\ o \in DOMAIN prs /\ prs[o].source = h
              /\ prs[o].state = "open"
          BY <1>2, <5>1 DEF OpenFrom
        <5>3. o \in Nat /\ o <= n
          BY <2>4, <5>2 DEF TypeOK
        <5>4. ~(o < n)
          BY <2>5, <5>2 DEF LatestOpen
        <5>5. o = n
          BY <2>5, <5>3, <5>4
        <5> QED BY <5>2, <5>5
      <4> QED BY <2>3, <4>2, <4>3 DEF Refused
    <3>2. CASE ~ListsClosed(config.type)
      BY <2>5, <3>2
    <3> QED BY <3>1, <3>2
  <2>8. Progress(c)'
    BY <1>4, <2>1, <2>2, <2>6, <2>7 DEF Progress
  <2> QED BY <2>1, <2>2, <2>8 DEF CallInv, HasCause
<1> QED BY <1>3, <1>4, ListMoves

\* UpdatePullRequest does not fail once the list has succeeded.
LEMMA UpdateKeeps ==
    ASSUME TypeOK, NEW c \in Call, CallInv(c), UpdatePullRequest(c)
    PROVE  /\ CallInv(c)'
           /\ call'[c].pc = "done" => Retitled(c)
<1>1. call[c].pc = "update" /\ InProgress(c)
  BY DEF UpdatePullRequest, InProgress
<1>2. gitProviderIsValid(config.type) /\ Reaches(config.type, config.host, "list")
  BY <1>1 DEF CallInv, Working, Unusable, Progress
<1>3. Reaches(config.type, config.host, "update")
  BY <1>2, ReachesFacts
<1>4. Retitled(c) /\ GoesTo(c, "done")
  BY <1>3, UpdateMoves
<1>5. call'[c].pc = "done"
  BY <1>4 DEF GoesTo, Moves, With
<1> QED BY <1>4, <1>5, EndKeeps

\* A failing call to the outside excuses what follows.
LEMMA TroubledKeeps ==
    ASSUME TypeOK, config' = config, ask' = ask, heads' = heads, base' = base,
           landed' = landed, NEW c \in Call, CallInv(c), Troubled(c)
    PROVE  CallInv(c)'
<1> DEFINE pc == IF call[c].pc = "create" THEN "list" ELSE "failed"
           t == call[c].trouble \cup {"fault"}
<1>1. Moves(c, pc, call[c].try, call[c].local, call[c].number, t)
  BY TroubledMoves DEF TypeOK
<1>2. /\ call'[c].pc = pc /\ call'[c].local = call[c].local
      /\ call'[c].trouble = call[c].trouble \cup {"fault"}
  BY <1>1 DEF Moves, With
<1>3. CASE call[c].pc = "create"
  <2>1. /\ Working(c)' /\ Ahead(c)'
        /\ "closed" \notin call'[c].trouble => OnBranch(c)'
    BY <1>2, <1>3, AfterKeeps DEF AfterPush
  <2>2. Progress(c)'
    BY <1>2, <1>3, <2>1 DEF Progress
  <2> QED BY <1>2, <1>3, <2>1, <2>2 DEF CallInv, HasCause
<1>4. CASE call[c].pc # "create"
  BY <1>2, <1>4, EndKeeps
<1> QED BY <1>3, <1>4

\* A call's own steps keep what it knows.
LEMMA OwnKeeps ==
    ASSUME TypeOK, CommitsMade, LatestOpen, config' = config, ask' = ask,
           NEW c \in Call, CallInv(c), OwnAction(c)
    PROVE  CallInv(c)'
<1>0. call \in [Call -> CallState]
  BY DEF TypeOK
<1>1. CASE Notify(c)
  <2>1. Moves(c, "done", call[c].try, call[c].local, call[c].number, call[c].trouble)
    BY <1>0, <1>1, GotoMoves DEF Notify, Place
  <2> QED BY <2>1, EndKeeps DEF Moves, With
<1>2. CASE Retry(c)
  <2>1. Moves(c, "start", call[c].try + 1, call[c].local, call[c].number, call[c].trouble)
    BY <1>0, <1>2, RetryMoves
  <2> QED BY <2>1, EndKeeps DEF Moves, With
<1>3. CASE CallFails(c) \/ CreateAnswerLost(c) \/ UpdateAnswerLost(c)
  <2>1. Troubled(c) /\ heads' = heads /\ base' = base /\ landed' = landed
    BY <1>3 DEF CallFails, CreateAnswerLost, UpdateAnswerLost, Fault
  <2> QED BY <2>1, TroubledKeeps
<1>4. CASE PushAnswerLost(c)
  <2> DEFINE t == call[c].trouble \cup {"fault"}
             next == With("failed", call[c].try, call[c].local, call[c].number, t)
  <2>1. next \in CallState /\ Pushed(c, next)
    BY <1>4, LostPush
  <2>2. next.pc = "failed" /\ next.trouble # {}
    BY DEF With
  <2> HIDE DEF next
  <2>3. call'[c] = next
    BY <2>1, PushedMoves
  <2> QED BY <2>2, <2>3, EndKeeps
<1> QED BY <1>1, <1>2, <1>3, <1>4, PrepareKeeps, RefuseKeeps, PushKeeps, CreateKeeps,
           ListKeeps, UpdateKeeps
        DEF OwnAction, Promote

-----------------------------------------------------------------------------
(***************************************************************************)
(* The theorems.                                                           *)
(***************************************************************************)

\* The invariant holds at the start.
LEMMA InvInit == Init => PullRequestInv
<1> SUFFICES ASSUME Init PROVE PullRequestInv
  OBVIOUS
<1>1. TypeOK /\ OwnBranches
  BY TypeInit, OwnInit
<1>2. /\ base.commits = {0} /\ commits = 1
      /\ \A h \in HeadName : heads[h].commits = {}
      /\ \A c \in Call : call[c].local.commits = {}
  BY DEF Init, NoBranch
<1>3. CommitsMade
  BY <1>2 DEF CommitsMade
<1>4. LatestOpen
  BY DEF Init, LatestOpen
<1>5. \A c \in Call : call[c].pc = "start"
  BY DEF Init
<1>6. \A c \in Call : CallInv(c)
  BY <1>5 DEF CallInv, Working, InProgress, Ahead, AfterPush, Progress, HasCause
<1> QED BY <1>1, <1>3, <1>4, <1>6 DEF PullRequestInv

\* A step is the call's own, or the call can rely on it.
LEMMA OwnOrAround ==
    ASSUME TypeOK, [Next]_vars, NEW d \in Call
    PROVE  OwnAction(d) \/ Around(d)
<1>0. ask' = ask
  BY BranchSteps
<1>1. CASE \E c \in Call : OwnAction(c)
  BY <1>0, <1>1, AroundOwn
<1>2. CASE \/ \E n \in DOMAIN prs : \E squash, delete \in BOOLEAN : Merge(n, squash, delete)
           \/ \E n \in DOMAIN prs : \E delete \in BOOLEAN : Close(n, delete)
  BY <1>2, AroundReview
<1>3. CASE UNCHANGED vars
  <2>1. /\ Stays(d) /\ heads' = heads /\ base' = base /\ landed' = landed /\ prs' = prs
    BY <1>3 DEF vars, Stays
  <2> QED BY <1>0, <2>1, AroundQuiet
<1> QED BY <1>1, <1>2, <1>3 DEF Next, OwnAction

\* Every step keeps the invariant: to each call it is its own step or one that
\* the call can rely on.
LEMMA InvStep ==
    ASSUME TypeOK, PullRequestInv, [Next]_vars
    PROVE  PullRequestInv'
<1>1. CommitsMade' /\ OwnBranches' /\ LatestOpen'
  BY CommitsStep, OwnStep, LatestStep DEF PullRequestInv
<1>2. ASSUME NEW d \in Call PROVE CallInv(d)'
  <2>1. config' = config /\ ask' = ask
    BY BranchSteps
  <2>2. CallInv(d) /\ CommitsMade /\ LatestOpen
    BY DEF PullRequestInv
  <2> QED BY <2>1, <2>2, OwnOrAround, OwnKeeps, AroundKeeps
<1> QED BY <1>1, <1>2 DEF PullRequestInv

\* What every call knows of its branch and its pull request holds always, for
\* any number of calls, retries, lost answers, merges and closed pull requests.
THEOREM InvCorrect == Spec => [](TypeOK /\ PullRequestInv)
<1>1. Init => PullRequestInv
  BY InvInit
<1>2. ASSUME TypeOK, PullRequestInv, [Next]_vars PROVE PullRequestInv'
  BY <1>2, InvStep
<1> QED BY <1>1, <1>2, TypeCorrect, PTL DEF Spec

\* A try that nothing happened to fails only because of the settings or
\* because there is nothing to merge, never over what earlier promotions left;
\* but for the two exceptions in the providers.
THEOREM FailureHasCause == Spec => []FailsForCause
<1>1. PullRequestInv => FailsForCause
  BY DEF PullRequestInv, CallInv, HasCause, FailsForCause
<1> QED BY <1>1, InvCorrect, PTL

\* The pull request strategy succeeds when a pull request is opened or has
\* its new title.
LEMMA SuccessMoves ==
    ASSUME TypeOK, PullRequestInv, [Next]_vars, NEW c \in Call, Succeeds(c)
    PROVE  /\ config' = config /\ ask' = ask
           /\ heads' = heads /\ base' = base /\ landed' = landed
           /\ call'[c].local = call[c].local /\ call'[c].trouble = call[c].trouble
           /\ \/ /\ call[c].pc = "create" /\ Opened(c) /\ call'[c].number = Len(prs) + 1
              \/ /\ call[c].pc = "update" /\ Retitled(c)
                 /\ call'[c].number = call[c].number
<1>0. /\ call[c].pc # "done" /\ call'[c].pc = "done" /\ Get = "pull-request"
      /\ call \in [Call -> CallState]
  BY DEF Succeeds, TypeOK
<1>1. config' = config /\ ask' = ask
  BY BranchSteps
<1>2. OwnAction(c)
  BY <1>0, OwnOrAround DEF Around, Stays
<1>m. ASSUME NEW pc, NEW try, NEW local, NEW number, NEW trouble,
             Moves(c, pc, try, local, number, trouble)
      PROVE  pc = "done"
  BY <1>0, <1>m DEF Moves, With
<1>g. ~GoesTo(c, "failed") /\ ~GoesTo(c, "create") /\ ~GoesTo(c, "list")
  BY <1>m DEF GoesTo
<1>3. ~Prepare(c)
  <2>1. ~(\E local \in Branch : Moves(c, "push", call[c].try, local, call[c].number, {}))
    BY <1>m
  <2>2. Prepare(c) => \E local \in Branch :
           Moves(c, "push", call[c].try, local, call[c].number, {})
    BY PrepareMoves, Zenon
  <2> QED BY <2>1, <2>2
<1>4. ~Notify(c)
  BY <1>0 DEF Notify
<1>5. ~Refuse(c)
  <2>1. ~Goto(c, "failed")
    BY <1>0, <1>g, GotoMoves DEF Place, GoesTo
  <2> QED BY <2>1 DEF Refuse
<1>p. ASSUME NEW next \in CallState, Pushed(c, next) PROVE next.pc = "done"
  BY <1>0, <1>p, PushedMoves
<1>6. ~Push(c)
  <2> DEFINE next == With("create", call[c].try, call[c].local, call[c].number,
                          call[c].trouble)
  <2>1. next.pc = "create"
    BY DEF With
  <2>2. Push(c) => next \in CallState /\ Pushed(c, next)
    BY <1>g, PushMoves
  <2> HIDE DEF next
  <2> QED BY <1>p, <2>1, <2>2
<1>7. ~ListPullRequests(c)
  <2>1. ~Moves(c, "update", call[c].try, call[c].local, Max(Matching(c)), call[c].trouble)
    BY <1>m
  <2> QED BY <1>g, <2>1, ListMoves
<1>8. ~Retry(c)
  <2>1. ~Moves(c, "start", call[c].try + 1, call[c].local, call[c].number, call[c].trouble)
    BY <1>m
  <2> QED BY <1>0, <2>1, RetryMoves
<1>9. ~(CallFails(c) \/ CreateAnswerLost(c) \/ UpdateAnswerLost(c))
  <2> DEFINE pc == IF call[c].pc = "create" THEN "list" ELSE "failed"
             t == call[c].trouble \cup {"fault"}
  <2>1. Troubled(c) => Moves(c, pc, call[c].try, call[c].local, call[c].number, t)
    BY <1>0, TroubledMoves
  <2>2. pc # "done"
    OBVIOUS
  <2> HIDE DEF pc, t
  <2>3. ~Troubled(c)
    BY <1>m, <2>1, <2>2
  <2> QED BY <2>3 DEF CallFails, CreateAnswerLost, UpdateAnswerLost
<1>10. ~PushAnswerLost(c)
  <2> DEFINE t == call[c].trouble \cup {"fault"}
             next == With("failed", call[c].try, call[c].local, call[c].number, t)
  <2>1. next.pc = "failed"
    BY DEF With
  <2>2. PushAnswerLost(c) => next \in CallState /\ Pushed(c, next)
    BY LostPush
  <2> HIDE DEF next
  <2> QED BY <1>p, <2>1, <2>2
<1>11. CASE CreatePullRequest(c)
  <2>1. /\ Opened(c)
        /\ Moves(c, "done", call[c].try, call[c].local, Len(prs) + 1, call[c].trouble)
    BY <1>11, <1>g, CreateMoves
  <2>2. /\ call'[c].local = call[c].local /\ call'[c].trouble = call[c].trouble
        /\ call'[c].number = Len(prs) + 1
    BY <2>1 DEF Moves, With
  <2>3. /\ heads' = heads /\ base' = base /\ landed' = landed /\ call[c].pc = "create"
    BY <1>11 DEF CreatePullRequest
  <2> QED BY <1>1, <2>1, <2>2, <2>3
<1>12. CASE UpdatePullRequest(c)
  <2>1. Retitled(c) /\ GoesTo(c, "done")
    BY <1>12, <1>g, UpdateMoves
  <2>2. /\ call'[c].local = call[c].local /\ call'[c].trouble = call[c].trouble
        /\ call'[c].number = call[c].number
    BY <2>1 DEF GoesTo, Moves, With
  <2>3. /\ heads' = heads /\ base' = base /\ landed' = landed /\ call[c].pc = "update"
    BY <1>12 DEF UpdatePullRequest
  <2> QED BY <1>1, <2>1, <2>2, <2>3
<1> QED BY <1>2, <1>3, <1>4, <1>5, <1>6, <1>7, <1>8, <1>9, <1>10, <1>11, <1>12
        DEF OwnAction, Promote

\* The pull requests after a success: one from the call's branch is open, or the
\* ones there were have kept their sources and states.
LEMMA SuccessPRs ==
    ASSUME TypeOK, PullRequestInv, [Next]_vars, NEW c \in Call, Succeeds(c)
    PROVE  LET h == HeadOf(c)
               n == call'[c].number
               new == [source |-> h, title |-> ask[c].version, state |-> "open"]
           IN  \/ /\ call[c].pc = "create"
                  /\ n \in DOMAIN prs' /\ prs'[n] = new
               \/ /\ call[c].pc = "update"
                  /\ n = call[c].number /\ n \in DOMAIN prs /\ PRsStay
                  /\ prs'[n] = [source |-> prs[n].source, title |-> ask[c].version,
                                state |-> prs[n].state]
<1>1. CASE call[c].pc = "create" /\ Opened(c) /\ call'[c].number = Len(prs) + 1
  BY <1>1, OpenedFacts, Zenon
<1>2. CASE call[c].pc = "update" /\ Retitled(c) /\ call'[c].number = call[c].number
  <2>1. call[c].number \in DOMAIN prs
    BY <1>2 DEF TypeOK
  <2> QED BY <1>2, <2>1, RetitledFacts DEF PRsStay
<1> QED BY <1>1, <1>2, SuccessMoves

\* The step in which a call succeeds leaves its change kept.
LEMMA NothingLostStep ==
    ASSUME TypeOK, PullRequestInv, [Next]_vars, NEW c \in Call, Succeeds(c)
    PROVE  \/ Kept(c)'
           \/ "closed" \in call[c].trouble
           \/ ListsClosed(config.type) /\ "fault" \in call[c].trouble
<1> DEFINE h == HeadOf(c)
<1> SUFFICES ASSUME "closed" \notin call[c].trouble,
                    ~(ListsClosed(config.type) /\ "fault" \in call[c].trouble)
             PROVE  Kept(c)'
  OBVIOUS
<1>1. /\ ask' = ask /\ heads' = heads /\ base' = base /\ landed' = landed
      /\ call'[c].local = call[c].local
  BY SuccessMoves
<1>2. HeadOf(c)' = h
  BY <1>1 DEF HeadOf
<1>3. CallInv(c)
  BY DEF PullRequestInv
<1>4. CASE /\ call[c].pc = "create"
           /\ \E n \in DOMAIN prs' : prs'[n] = [source |-> h, title |-> ask[c].version,
                                                state |-> "open"]
  <2>1. OnBranch(c)
    BY <1>3, <1>4 DEF CallInv, Progress, AfterPush
  <2>2. \E n \in DOMAIN prs' : prs'[n].source = h /\ prs'[n].state = "open"
    BY <1>4
  <2> QED BY <1>1, <1>2, <2>1, <2>2 DEF Kept, OnBranch, OpenFrom
<1>5. CASE call[c].pc = "update" /\ PRsStay
  <2>1. Kept(c)
    BY <1>3, <1>5 DEF CallInv, Progress, Discerns
  <2> QED BY <1>1, <1>2, <1>5, <2>1 DEF Kept, OpenFrom, PRsStay
<1> QED BY <1>4, <1>5, SuccessPRs

\* The step in which an undisturbed call succeeds leaves its version proposed.
LEMMA ProposedStep ==
    ASSUME TypeOK, PullRequestInv, [Next]_vars, NEW c \in Call, Succeeds(c),
           call[c].trouble \subseteq IF ListsClosed(config.type) THEN {} ELSE {"fault"}
    PROVE  Proposed(c)' \/ call[c].local.commits \subseteq base.commits
<1> DEFINE h == HeadOf(c)
           n == call'[c].number
           new == [source |-> h, title |-> ask[c].version, state |-> "open"]
<1>0. Undisturbed(c) /\ Discerns(c)
  BY DEF Undisturbed, Discerns
<1>1. ask' = ask /\ heads' = heads /\ call[c].pc \in {"create", "update"}
  BY SuccessMoves
<1>2. HeadOf(c)' = h
  BY <1>1 DEF HeadOf
<1>3. CallInv(c)
  BY DEF PullRequestInv
<1>4. heads[h].tree[ask[c].subject] = ask[c].version
  BY <1>0, <1>1, <1>3 DEF CallInv, Ahead, AfterPush, Working, InProgress
<1>5. ASSUME n \in DOMAIN prs', prs'[n] = new PROVE Proposed(c)'
  BY <1>1, <1>2, <1>4, <1>5 DEF Proposed
<1>6. CASE /\ call[c].pc = "update"
           /\ n = call[c].number /\ n \in DOMAIN prs /\ PRsStay
           /\ prs'[n] = [source |-> prs[n].source, title |-> ask[c].version,
                         state |-> prs[n].state]
  <2>1. Found(c)
    BY <1>0, <1>3, <1>6 DEF CallInv, Progress
  <2>2. CASE prs[n].source = h /\ prs[n].state = "open"
    BY <1>5, <1>6, <2>2 DEF PRsStay
  <2> QED BY <1>6, <2>1, <2>2 DEF Found
<1> QED BY <1>5, <1>6, SuccessPRs

\* When Promote answers with success its change is in an open pull request or
\* has landed, whatever other calls push to the same branch meanwhile, unless
\* someone closed the pull request or the provider offered a closed one.
THEOREM SuccessIsKept == Spec => NothingLost
<1>1. ASSUME TypeOK /\ PullRequestInv, [Next]_vars
      PROVE  [\A c \in Call : Succeeds(c) =>
                \/ Kept(c)'
                \/ "closed" \in call[c].trouble
                \/ ListsClosed(config.type) /\ "fault" \in call[c].trouble]_vars
  BY <1>1, NothingLostStep
<1> QED BY <1>1, InvCorrect, PTL DEF Spec, NothingLost

\* A success that nobody disturbed has left a pull request that proposes its
\* version, in title and content, also after lost answers and retries.
THEOREM SuccessIsProposed == Spec => ProposedAsAsked
<1>1. ASSUME TypeOK /\ PullRequestInv, [Next]_vars
      PROVE  [\A c \in Call :
                /\ Succeeds(c)
                /\ call[c].trouble \subseteq IF ListsClosed(config.type) THEN {} ELSE {"fault"}
                => \/ Proposed(c)'
                   \/ call[c].local.commits \subseteq base.commits]_vars
  BY <1>1, ProposedStep
<1> QED BY <1>1, InvCorrect, PTL DEF Spec, ProposedAsAsked

=============================================================================
