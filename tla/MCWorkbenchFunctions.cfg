SPECIFICATION FunctionsSpec
CONSTANTS
    Sources <- MCSources
    Formatted <- MCFormatted
    MaxCells = 11
    ParsedDocuments <- MCParsedDocuments
    ParsedSources <- MCParsedSources
    PathKeys <- MCPathKeys
    ReviewTitles = {"review"}
    readBack <- MCreadBack
    apiGroup <- MCapiGroup
    KUBERNETES_VALIDATORS <- MCValidators
    WORKLOADS = {"Pod", "Deployment", "CronJob"}
    SELECTOR_WORKLOADS = {"Deployment"}
    builtInGroups = {"", "apps", "batch"}
    Characters <- MCCharacters
    Nodes <- MCNodes
    Trees <- MCTrees
    Queries <- MCQueries
    TextSamples <- MCTextSamples
    SimpleKeys <- MCSimpleKeys
    lower <- MClower
CHECK_DEADLOCK FALSE
INVARIANTS
    RowsRebuildBothTexts
    AlignmentIsLongest
    FormattingChangeIsVisible
    CountsAgree
    FindingsLocatedInOwnDocument
    FirstOfIdentityAccepted
    TreePathsIdentifyNodes
    RangesSpellSource
