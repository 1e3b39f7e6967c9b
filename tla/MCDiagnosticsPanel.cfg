SPECIFICATION PanelSpec
CONSTANTS
    p1 = p1  p2 = p2  k1 = k1 
    Pods = {p1, p2}
    Containers = {k1}
    None = None
    MaxMount = 3
    MaxSerial = 4
CHECK_DEADLOCK FALSE
INVARIANTS
    ResultMatchesControls
    LatestRunOwnsPanel
