SPECIFICATION TabsFairSpec
CONSTANTS
    c1 = c1  c2 = c2  n1 = n1  n2 = n2  t1 = t1  t2 = t2
    Contexts = {c1}
    Namespaces = {n1}
    NamespacesOf <- MCNamespacesOf
    NoName = NoName
    MaxGeneration = 2
    Tabs = {t1}
    MaxEpoch = 3
CHECK_DEADLOCK FALSE
INVARIANTS
    PageShowsItsScope
PROPERTIES
    BusyEnds
