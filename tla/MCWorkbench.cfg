SPECIFICATION WorkbenchSpec
CONSTANTS
    empty = empty  sample = sample  two = two  tidy = tidy  alias = alias
    f1 = f1  f2 = f2  q = q  n1 = n1  n2 = n2  n3 = n3
    Texts = {empty, sample, two, tidy, alias}
    Empty = empty
    SAMPLE_YAML = sample
    formatYaml <- MCformatYaml
    NoText = NoText
    Unreadable = {alias}
    textareaValue <- MCtextareaValue
    Files = {f1, f2}
    Contents <- MCContents
    SampleName = f1
    DefaultName = f2
    MaxReads = 1
    VALIDATION_FILTERS = {"all", "error"}
    NoQuery = NoQuery
    Queries = {NoQuery, q}
    treeMatches <- MCtreeMatches
    NoMatch = NoMatch
    MaxNested = 2
CHECK_DEADLOCK FALSE
INVARIANTS
    
    ReportIsOfEditor
    CleanTextIsStored
    DropHintOnlyDuringDrag
PROPERTIES
    PositionKeptWhileMatching
