SPECIFICATION EditorSpec
CONSTANTS
    empty = empty  sample = sample  typed = typed  crlf = crlf  long = long  neat = neat
    broken = broken  alias = alias  f1 = f1  f2 = f2  f3 = f3
    Texts = {empty, sample, typed, crlf, long, neat, broken, alias}
    Empty = empty
    SAMPLE_YAML = sample
    formatYaml <- MCformatYaml
    NoText = NoText
    Unreadable = {alias}
    textareaValue <- MCtextareaValue
    Files = {f1, f2, f3}
    Contents <- MCContents
    SampleName = SampleName
    DefaultName = DefaultName
    MaxReads = 1
CHECK_DEADLOCK FALSE
PROPERTIES
    FailedReadLeavesEditor
