SPECIFICATION Spec
CONSTANTS
    MaxOutgoing = 3
    MaxBlob = 1
    MaxTree = 2
    MaxUnique = 4
    MaxAsset = 1
    MaxAssetTree = 1
    AGENT_LANES <- MCLanes
    REASONING_EFFORTS <- MCEfforts
    GENERIC_NAMESPACES <- MCNamespaces
    Trees <- MCTrees
    First <- MCFirst
    TextMerge <- MCTextMerge
    Contents <- MCContents
    Branch <- MCBranch
    MaxCommits = 4
    MaxEdits = 1
    MaxBypasses = 1
INVARIANTS
    PublishedIsClean
    OneEditHidesNothing
    MainIsClean
CHECK_DEADLOCK FALSE
