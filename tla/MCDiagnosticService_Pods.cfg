SPECIFICATION DiagFairSpec
CONSTANTS
    c1 = c1  c2 = c2  n1 = n1  d1 = d1  d2 = d2
    Contexts = {c1, c2}
    Namespaces = {n1}
    NamespacesOf <- MCNamespacesOf
    NoName = NoName
    MaxGeneration = 3
    MaxActivity = 1
    Diagnoses = {d1}
    DiagMaxConcurrent = 1
    MaxUID = 3
    PodErrors = {"forbidden"}
CHECK_DEADLOCK FALSE
INVARIANTS
    ResultIsOfExpectedPod
PROPERTIES
    DiagImplementsScopedReads
    DiagnosesEnd
