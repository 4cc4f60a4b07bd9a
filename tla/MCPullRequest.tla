---------------------------- MODULE MCPullRequest ----------------------------
(***************************************************************************)
(* Small instances of PullRequest.                                         *)
(***************************************************************************)
EXTENDS PullRequest, TLC

CONSTANTS github, gitlab, onprem, c1, c2

\* two environments of one Pipeline, and one of another that has the same
\* branch name as the first: flux-podinfo-eu-staging
Staging == [ns |-> <<"flux">>, name |-> <<"podinfo">>, env |-> <<"eu", "staging">>]
Prod == [ns |-> <<"flux">>, name |-> <<"podinfo">>, env |-> <<"prod">>]
Twin == [ns |-> <<"flux">>, name |-> <<"podinfo", "eu">>, env |-> <<"staging">>]
ThreeSubjects == {Staging, Prod, Twin}

\* both versions to staging, one to each of the others
FourAsks ==
    {[subject |-> Staging, version |-> 1], [subject |-> Staging, version |-> 2],
     [subject |-> Prod, version |-> 1], [subject |-> Twin, version |-> 1]}

Settings(type, host, defect) ==
    [strategies |-> {"pull-request"}, type |-> type, host |-> host, defect |-> defect]

\* one per provider and way of domains; github.com is among the odd ones, with
\* both strategies
GoodConfigs ==
    {Settings("github", onprem, "none"), Settings("bitbucket-server", onprem, "none"),
     Settings("gitlab", onprem, "none"), Settings("gitlab", gitlab, "none")}

OddConfigs ==
    {Settings("github", github, d) : d \in Defect \ {"none"}}
    \cup {Settings("azure-devops", onprem, "none"), Settings("gitlab", github, "none")}
    \cup {[Settings("github", github, "none") EXCEPT !.strategies = ss] :
             ss \in {{}, {"notification"}, {"notification", "pull-request"}}}

AllConfigs == GoodConfigs \cup OddConfigs

CallSymmetry == Permutations(Call)
=============================================================================
