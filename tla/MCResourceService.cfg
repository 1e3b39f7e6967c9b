\* Two requests competing for one slot.
SPECIFICATION FairSpec
CONSTANTS
    c1 = c1  c2 = c2  n1 = n1  n2 = n2  r1 = r1  r2 = r2
    Contexts = {c1, c2}
    Namespaces = {n1, n2}
    NamespacesOf <- MCNamespacesOf
    NoName = NoName
    MaxGeneration = 2
    MaxActivity = 1
    Requests = {r1, r2}
    MaxConcurrent = 1
    Kinds = {"namespaces", "deployments", "secrets"}
    UpstreamErrors = {"Forbidden"}
CHECK_DEADLOCK FALSE
INVARIANTS
    GenerationIdentifiesScope
    NamespacesOfSelectedContext
    LatestEntriesWithoutGap
    OneEntryPerAdmittedRequest
    SlotsHeldByHandlers
PROPERTIES
    ImplementsScopedReads
    SupersededNeverSucceeds
    CancelledNeverSucceeds
    SupersededWorkEnds
    AdmittedRequestsEnd
