--------------------------- MODULE DiagnosticsPanel ---------------------------
(***************************************************************************)
(* The diagnostics panel of a browser tab                                  *)
(* (apps/forgeops-console/web/src/plugins/diagnostics.tsx).                *)
(*                                                                         *)
(* Unlike the rest of the tab, the panel can have several fetches under    *)
(* way: cancelling or changing a control gives up the present one, and it  *)
(* settles whenever it likes.  serial and the abort signal decide whether  *)
(* an answer still counts.  The App mounts a new panel, with fresh state,  *)
(* whenever the scope's generation or the selected Pod changes.            *)
(*                                                                         *)
(* onComplete refreshes the App's activity list and touches nothing here.  *)
(***************************************************************************)
EXTENDS Integers, FiniteSets

CONSTANTS
    Pods,         \* selectable Pods: namespace, name and UID
    Containers,
    None,         \* no Pod, no container, no result
    MaxMount,     \* bound on panels shown, and on the scope's generation
    MaxSerial     \* bound on cancellations in one panel

ASSUME PanelAssumption == None \notin Pods /\ None \notin Containers

ASSUME PanelBounds == MaxMount \in Nat \ {0} /\ MaxSerial \in Nat

VARIABLES
    mount,          \* which panel this is; those before it are unmounted
    key,            \* the generation and Pod it was mounted for
    acknowledged,   \* the sensitive-data checkbox
    container,      \* the container select
    previous,       \* the previous-instance checkbox
    serial, pending, busy, result,
    fetches,        \* not yet settled, of this panel and earlier ones
    aborted         \* those whose controller was aborted

controls == <<acknowledged, container, previous>>

panelVars == <<mount, key, controls, serial, pending, busy, result, fetches, aborted>>

Operations == {"logs", "events", "previewLogs", "previewEvents"}

IsLogRequest(op) == op \in {"logs", "previewLogs"}

Queries == [generation : Nat,
            pod        : Pods,
            operation  : Operations,
            container  : Containers \cup {None},
            previous   : BOOLEAN]

FetchIds == (1 .. MaxMount) \X (1 .. MaxSerial)

\* pending is the controller of the latest run or null.
PanelTypeOK ==
    /\ mount \in 1 .. MaxMount
    /\ key \in [generation : 1 .. MaxMount, pod : Pods \cup {None}]
    /\ acknowledged \in BOOLEAN
    /\ container \in Containers \cup {None}
    /\ previous \in BOOLEAN
    /\ serial \in 0 .. MaxSerial
    /\ pending \in {0, serial}
    /\ busy \in BOOLEAN
    /\ result \in Queries \cup {None}
    /\ \A f \in fetches : f.id \in FetchIds /\ f.query \in Queries
    /\ aborted \in SUBSET FetchIds

-----------------------------------------------------------------------------

FreshState ==
    /\ acknowledged' = FALSE
    /\ container' = None
    /\ previous' = FALSE
    /\ serial' = 0
    /\ pending' = 0
    /\ busy' = FALSE
    /\ result' = None

PanelInit ==
    /\ mount = 1
    /\ key = [generation |-> 1, pod |-> None]
    /\ acknowledged = FALSE
    /\ container = None
    /\ previous = FALSE
    /\ serial = 0
    /\ pending = 0
    /\ busy = FALSE
    /\ result = None
    /\ fetches = {}
    /\ aborted = {}

Mounted == key.pod # None

AbortPending == aborted' = aborted \cup (IF pending = 0 THEN {} ELSE {<<mount, pending>>})

\* The App's key changes: the old panel's effect cleans up, the new one is fresh.
Remount(generation, pod) ==
    /\ mount < MaxMount
    /\ generation \in {key.generation, key.generation + 1} \cap (1 .. MaxMount)
    /\ mount' = mount + 1
    /\ key' = [generation |-> generation, pod |-> pod]
    /\ key' # key
    /\ AbortPending
    /\ FreshState
    /\ UNCHANGED fetches

cancel ==
    /\ serial' = serial + 1
    /\ AbortPending
    /\ pending' = 0
    /\ busy' = FALSE
    /\ result' = None

\* The Cancel or Clear button.
Cancel ==
    /\ Mounted /\ serial < MaxSerial
    /\ cancel
    /\ UNCHANGED <<mount, key, controls, fetches>>

SetAcknowledged(value) ==
    /\ Mounted /\ serial < MaxSerial
    /\ cancel
    /\ acknowledged' = value
    /\ UNCHANGED <<mount, key, container, previous, fetches>>

\* Mutant: choosing another container leaves the running request alone.
SetContainerOnly(name) ==
    /\ Mounted
    /\ container' = name
    /\ UNCHANGED <<mount, key, acknowledged, previous, serial, pending, busy, result, fetches, aborted>>

SetContainer(name) ==
    /\ Mounted /\ serial < MaxSerial
    /\ cancel
    /\ container' = name
    /\ UNCHANGED <<mount, key, acknowledged, previous, fetches>>

SetPrevious(value) ==
    /\ Mounted /\ serial < MaxSerial
    /\ cancel
    /\ previous' = value
    /\ UNCHANGED <<mount, key, acknowledged, container, fetches>>

\* The disabled conditions of the four buttons.
Enabled(op) ==
    /\ ~busy
    /\ op \in {"logs", "events"} => acknowledged
    /\ IsLogRequest(op) => container # None

\* run cancels first, then fetches under a controller of its own.
run(op) ==
    /\ Mounted /\ serial < MaxSerial
    /\ Enabled(op)
    /\ serial' = serial + 1
    /\ AbortPending
    /\ pending' = serial'
    /\ busy' = TRUE
    /\ result' = None
    /\ fetches' = fetches \cup
           {[id    |-> <<mount, serial'>>,
             query |-> [generation |-> key.generation,
                        pod        |-> key.pod,
                        operation  |-> op,
                        container  |-> IF IsLogRequest(op) THEN container ELSE None,
                        previous   |-> IsLogRequest(op) /\ previous]]}
    /\ UNCHANGED <<mount, key, controls>>

\* An answer counts for the panel that asked, while its run is the latest.
OfLatestRun(f) == f.id = <<mount, serial>>

\* Mutant: finally does not compare the serial.
SettleAlwaysFinishes(f, ok) ==
    /\ fetches' = fetches \ {f}
    /\ result' = IF ok /\ OfLatestRun(f) /\ f.id \notin aborted THEN f.query ELSE result
    /\ busy' = IF f.id[1] = mount THEN FALSE ELSE busy
    /\ pending' = IF f.id[1] = mount THEN 0 ELSE pending
    /\ UNCHANGED <<mount, key, controls, serial, aborted>>

\* The answer, an error or the abort arrives: then try's last line or catch, and
\* finally.
Settle(f, ok) ==
    /\ fetches' = fetches \ {f}
    /\ result' = IF ok /\ OfLatestRun(f) /\ f.id \notin aborted THEN f.query ELSE result
    /\ busy' = IF OfLatestRun(f) THEN FALSE ELSE busy
    /\ pending' = IF OfLatestRun(f) THEN 0 ELSE pending
    /\ UNCHANGED <<mount, key, controls, serial, aborted>>

SettleSome == \E f \in fetches, ok \in BOOLEAN : Settle(f, ok)

PanelNext ==
    \/ \E generation \in 1 .. MaxMount, pod \in Pods \cup {None} : Remount(generation, pod)
    \/ Cancel
    \/ \E value \in BOOLEAN : SetAcknowledged(value) \/ SetPrevious(value)
    \/ \E name \in Containers \cup {None} : SetContainer(name)
    \/ \E op \in Operations : run(op)
    \/ SettleSome

PanelSpec == PanelInit /\ [][PanelNext]_panelVars

-----------------------------------------------------------------------------

\* What the panel displays was asked under the scope, for the Pod and with the
\* container and instance it displays now, and log text and Events only while
\* the warning is acknowledged: no late answer and no change of a control can
\* set them apart.  Beside it the types.
ResultMatchesControls ==
    /\ PanelTypeOK
    /\ result # None =>
           /\ result.generation = key.generation
           /\ result.pod = key.pod
           /\ IsLogRequest(result.operation) =>
                  result.container = container /\ result.previous = previous
           /\ result.operation \in {"logs", "events"} => acknowledged

\* The panel is busy exactly while its latest run is under way: a cancelled run
\* that settles late neither ends the busy state of its successor nor leaves
\* the buttons disabled.
BusyWhileLatestRuns == busy = (\E f \in fetches : OfLatestRun(f))

\* At most one fetch is not aborted: giving one up, and unmounting, always tell
\* the server, whose two diagnostic slots would otherwise fill up.
OneLiveFetch == Cardinality({f \in fetches : f.id \notin aborted}) <= 1

\* One run at a time, on the page and on the wire: cancelling, changing a control,
\* moving to another Pod or scope and a late answer keep the busy state and the
\* live fetch together.
LatestRunOwnsPanel ==
    /\ BusyWhileLatestRuns
    /\ OneLiveFetch

=============================================================================
