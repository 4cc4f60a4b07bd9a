CONSTANTS
    github = github
    gitlab = gitlab
    onprem = onprem
    c1 = c1
    c2 = c2
    Host = {github, gitlab, onprem}
    GitHubCom = github
    GitLabCom = gitlab
    Subject <- ThreeSubjects
    Version = {1, 2}
    Call = {c1, c2}
    Asks <- FourAsks
    Configs <- AllConfigs
    Retries = 2
    MaxFaults = 2
    MaxReviews = 2
SPECIFICATION Spec
INVARIANTS TypeOK FailsForCause
PROPERTIES NothingLost ProposedAsAsked MergesOwnBranch
SYMMETRY CallSymmetry
CHECK_DEADLOCK FALSE
