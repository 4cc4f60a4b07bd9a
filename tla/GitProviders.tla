---------------------------- MODULE GitProviders ----------------------------
(***************************************************************************)
(* How the clients of the git providers (internal/git) are set up and how  *)
(* their calls name the repository.                                        *)
(*                                                                         *)
(* A client is made for one domain.  Each call parses the URL of the       *)
(* repository again into a reference, a domain and a project, and reaches  *)
(* the repository only if the domain is the client's and the project is    *)
(* what the provider calls it.  Domains are passed through several         *)
(* functions that may put a scheme in front of them.                       *)
(***************************************************************************)

CONSTANTS
    Host,       \* hosts that repositories are on
    GitHubCom,  \* "github.com"
    GitLabCom   \* "gitlab.com"

GitProviderType == {"github", "gitlab", "bitbucket-server", "azure-devops"}

ASSUME GitProvidersAssumption ==
    /\ {GitHubCom, GitLabCom} \subseteq Host
    /\ GitHubCom # GitLabCom

\* A domain: a host, and the scheme in front of it if there is one.
Bare(host) == [scheme |-> "", host |-> host]

AddSchemeToDomain(domain) ==
    IF domain.scheme = "" /\ domain.host \notin {GitHubCom, GitLabCom}
    THEN [domain EXCEPT !.scheme = "https"] ELSE domain

decorateCustomDomainByType(type, domain) ==
    IF type = "gitlab" /\ domain.scheme = ""
    THEN [domain EXCEPT !.scheme = "https"] ELSE domain

gitProviderIsValid(type) == type \in {"github", "gitlab", "bitbucket-server"}

(***************************************************************************)
(* References.  A Bitbucket Server repository is at .../scm/<key>/<name>;  *)
(* for the provider its project is the key, not the path.                  *)
(***************************************************************************)

ParseBitbucketServerURL(host) ==
    [domain |-> AddSchemeToDomain(Bare(host)), project |-> "key"]

GetRepository(host) ==
    [domain |-> AddSchemeToDomain(Bare(host)), project |-> "path"]

GetBitbucketRepository(host) == ParseBitbucketServerURL(host)

\* The domain of the URL, as createPullRequest passes it on.
ParseURL(type, host) ==
    IF type = "bitbucket-server" THEN ParseBitbucketServerURL(host).domain
    ELSE Bare(host)

(***************************************************************************)
(* The providers: the domain that Setup makes the client for, and the      *)
(* reference that each operation makes.  CreatePullRequest is called with  *)
(* no commits, so that it writes no files and makes no branch.             *)
(***************************************************************************)

WithDomain(domain) == AddSchemeToDomain(domain)

GitHubSetup(domain) == WithDomain(domain)
GitLabSetup(domain) == WithDomain(domain)
BitBucketServerSetup(domain) == WithDomain(domain)

GitHubCreatePullRequest(host) == GetRepository(host)
GitLabCreatePullRequest(host) == GetRepository(host)
BitBucketServerCreatePullRequest(host) == GetBitbucketRepository(host)

\* with ListPullRequests and UpdatePullRequest
GitHubProvider(domain, host) ==
    [client |-> GitHubSetup(domain),
     create |-> GitHubCreatePullRequest(host),
     list   |-> GetRepository(host),
     update |-> GetRepository(host)]

GitLabProvider(domain, host) ==
    [client |-> GitLabSetup(domain),
     create |-> GitLabCreatePullRequest(host),
     list   |-> GetRepository(host),
     update |-> GetRepository(host)]

BitBucketServerProvider(domain, host) ==
    [client |-> BitBucketServerSetup(domain),
     create |-> BitBucketServerCreatePullRequest(host),
     list   |-> GetRepository(host),
     update |-> GetRepository(host)]

\* ProviderFactory.Create
CreateProvider(type, domain, host) ==
    CASE type = "github" -> GitHubProvider(domain, host)
      [] type = "gitlab" -> GitLabProvider(domain, host)
      [] type = "bitbucket-server" -> BitBucketServerProvider(domain, host)

\* NewGitProviderClientFactory, for the domain of the URL
GitProviderClient(type, host) ==
    CreateProvider(type, decorateCustomDomainByType(type, ParseURL(type, host)), host)

\* The provider's side: the project of the repository, and which domains the
\* client accepts references of.
Project(type) == IF type = "bitbucket-server" THEN "key" ELSE "path"

Reaches(type, host, op) ==
    LET provider == GitProviderClient(type, host)
        ref == provider[op]
    IN  ref.domain = provider.client /\ ref.project = Project(type)

\* Does List answer with closed pull requests, too?  (PullRequest.Merged)
ListsClosed(type) == type = "gitlab"

=============================================================================
