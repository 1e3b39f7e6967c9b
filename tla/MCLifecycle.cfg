SPECIFICATION LifecycleSpec
CONSTANTS
    c1 = c1  n1 = n1  h1 = h1  h2 = h2  h3 = h3
    Contexts = {c1}
    Namespaces = {n1}
    NamespacesOf <- MCNamespacesOf
    NoName = NoName
    MaxGeneration = 2
    Handlers = {h1, h2, h3}
CHECK_DEADLOCK FALSE
INVARIANTS
    ShutdownIsOrderly
PROPERTIES
    SignalEndsProcess
