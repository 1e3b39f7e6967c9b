SPECIFICATION TabsSpec
CONSTANTS
    c1 = c1  c2 = c2  n1 = n1  n2 = n2  t1 = t1  t2 = t2
    Contexts = {c1, c2}
    Namespaces = {n1, n2}
    NamespacesOf <- MCNamespacesOf
    NoName = NoName
    MaxGeneration = 3
    Tabs = {t1, t2}
    MaxEpoch = 1
CHECK_DEADLOCK FALSE
SYMMETRY TabSymmetry
INVARIANTS
    PageShowsItsScope
    NamespaceIsSetInShownContext
