SPECIFICATION DiagSpec
CONSTANTS
    c1 = c1  c2 = c2  n1 = n1  d1 = d1  d2 = d2
    Contexts = {c1}
    Namespaces = {n1}
    NamespacesOf <- MCNamespacesOf
    NoName = NoName
    MaxGeneration = 2
    MaxActivity = 1
    Diagnoses = {d1, d2}
    DiagMaxConcurrent = 1
    MaxUID = 1
    PodErrors = {"forbidden"}
CHECK_DEADLOCK FALSE
SYMMETRY DiagnosisSymmetry
INVARIANTS
    DiagSlotsHeldByHandlers
    EveryDiagnosisRecordedOnce
