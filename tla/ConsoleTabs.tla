----------------------------- MODULE ConsoleTabs -----------------------------
(***************************************************************************)
(* Browser tabs of the ForgeOps Console (apps/forgeops-console/web/src,    *)
(* App.tsx and api.ts) against the one session they share.                 *)
(*                                                                         *)
(* A tab has at most one fetch of its own under way: begin makes it busy,  *)
(* and every button is disabled until finish.  A reload (unmount) abandons *)
(* the fetch, but the server may still execute it; epoch tells the answers *)
(* of an earlier page load apart, as the closures' id and active do.       *)
(*                                                                         *)
(* The server's side of a fetch is the session's: selections are atomic, a *)
(* read is bound, may publish namespaces and is answered only if its       *)
(* generation is still the session's.  ResourceService has its details.    *)
(***************************************************************************)
EXTENDS Session, FiniteSets

CONSTANTS
    Tabs,
    MaxEpoch    \* bound on page loads of one tab

ASSUME MaxEpochAssumption == MaxEpoch \in Nat \ {0}

VARIABLES
    wire,       \* fetches under way, with how far the server has come
    epoch,      \* page load of each tab
    task,       \* what the tab is doing; idle is busy = false
    shown,      \* the scope the tab displays and sends
    names,      \* namespaces offered in the select
    choice,     \* namespaceChoice
    result,     \* scope of the displayed result, NoScope for none
    selected    \* scope of the record shown in detail, NoScope for none

tabVars == <<epoch, task, shown, names, choice, result, selected>>

consoleVars == <<sessionVars, wire, tabVars>>

Operations == {"bootstrap", "context", "namespace", "namespaces", "read", "activity"}

Fetches == [tab        : Tabs,
            epoch      : 1 .. MaxEpoch,
            op         : Operations,
            name       : Contexts \cup Namespaces \cup {NoName},
            generation : Nat,
            status     : {"sent", "bound", "listed", "ok", "error"},
            scope      : Scopes,              \* the scope the answer carries
            names      : SUBSET Namespaces]   \* the namespaces it carries

TabsTypeOK ==
    /\ SessionTypeOK
    /\ wire \in SUBSET Fetches
    /\ \A t \in Tabs : Cardinality({m \in wire : m.tab = t /\ m.epoch = epoch[t]}) <= 1
    /\ epoch \in [Tabs -> 1 .. MaxEpoch]
    /\ task \in [Tabs -> {"loading", "failed", "idle", "context", "discovery",
                          "namespace", "read", "contextHistory", "readHistory"}]
    /\ shown \in [Tabs -> Scopes]
    /\ names \in [Tabs -> SUBSET Namespaces]
    /\ choice \in [Tabs -> Namespaces \cup {NoName}]
    /\ result \in [Tabs -> Scopes]
    /\ selected \in [Tabs -> Scopes]

Request(t, e, op, name, generation) ==
    [tab |-> t, epoch |-> e, op |-> op, name |-> name, generation |-> generation,
     status |-> "sent", scope |-> NoScope, names |-> {}]

TabsInit ==
    /\ SessionInit
    /\ epoch = [t \in Tabs |-> 1]
    /\ wire = {Request(t, 1, "bootstrap", NoName, 0) : t \in Tabs}
    /\ task = [t \in Tabs |-> "loading"]
    /\ shown = [t \in Tabs |-> NoScope]
    /\ names = [t \in Tabs |-> {}]
    /\ choice = [t \in Tabs |-> NoName]
    /\ result = [t \in Tabs |-> NoScope]
    /\ selected = [t \in Tabs |-> NoScope]

-----------------------------------------------------------------------------
(***************************************************************************)
(* The server.                                                             *)
(***************************************************************************)

Advance(m, new) == wire' = (wire \ {m}) \cup {new}

ServeBootstrap(m) ==
    /\ m.op = "bootstrap" /\ m.status = "sent"
    /\ Advance(m, [m EXCEPT !.status = "ok", !.scope = scope])
    /\ UNCHANGED <<sessionVars, tabVars>>

ServeContext(m) ==
    /\ m.op = "context" /\ m.status = "sent"
    /\ SelectContext(m.name)
    /\ Advance(m, [m EXCEPT !.status = "ok", !.scope = scope'])
    /\ UNCHANGED tabVars

ServeNamespace(m) ==
    /\ m.op = "namespace" /\ m.status = "sent"
    /\ SelectNamespaceAt(m.name, m.generation)
    /\ Advance(m, [m EXCEPT !.status = "ok", !.scope = scope'])
    /\ UNCHANGED tabVars

ServeActivity(m) ==
    /\ m.op = "activity" /\ m.status = "sent"
    /\ Advance(m, [m EXCEPT !.status = "ok"])
    /\ UNCHANGED <<sessionVars, tabVars>>

BindRead(m) ==
    /\ m.op \in {"namespaces", "read"} /\ m.status = "sent"
    /\ MayBind(m.generation)
    /\ Advance(m, [m EXCEPT !.status = "bound", !.scope = scope])
    /\ UNCHANGED <<sessionVars, tabVars>>

\* The answered list may be cut short by the object limit.
PublishList(m) ==
    /\ m.op = "namespaces" /\ m.status = "bound"
    /\ \E list \in SUBSET NamespacesOf[m.scope.context] :
           /\ AllowNamespaces(m.generation, list)
           /\ Advance(m, [m EXCEPT !.status = "listed", !.names = list])
    /\ UNCHANGED tabVars

ConfirmRead(m) ==
    /\ \/ m.op = "namespaces" /\ m.status = "listed"
       \/ m.op = "read" /\ m.status = "bound"
    /\ m.scope.generation = scope.generation
    /\ Advance(m, [m EXCEPT !.status = "ok"])
    /\ UNCHANGED <<sessionVars, tabVars>>

\* The server refuses or fails, or the connection breaks, be it after the
\* server has done its work.
FetchFails(m) ==
    /\ m.status # "error"
    /\ Advance(m, [m EXCEPT !.status = "error"])
    /\ UNCHANGED <<sessionVars, tabVars>>

ServerStep(m) ==
    \/ ServeBootstrap(m)
    \/ ServeContext(m)
    \/ ServeNamespace(m)
    \/ ServeActivity(m)
    \/ BindRead(m)
    \/ PublishList(m)
    \/ ConfirmRead(m)

-----------------------------------------------------------------------------
(***************************************************************************)
(* The tab.                                                                *)
(***************************************************************************)

Doing(t, what) == task' = [task EXCEPT ![t] = what]

Send(t, op, name, generation) ==
    wire' = wire \cup {Request(t, epoch[t], op, name, generation)}

\* Mutant: the old result stays until the new one comes.
beginKeepsResult(t) == UNCHANGED <<result, selected>>

begin(t) ==
    /\ result' = [result EXCEPT ![t] = NoScope]
    /\ selected' = [selected EXCEPT ![t] = NoScope]

activateContext(t, name) ==
    /\ task[t] = "idle"
    /\ begin(t)
    /\ shown' = [shown EXCEPT ![t] = NoScope]
    /\ names' = [names EXCEPT ![t] = {}]
    /\ choice' = [choice EXCEPT ![t] = NoName]
    /\ Doing(t, "context")
    /\ Send(t, "context", name, 0)
    /\ UNCHANGED <<sessionVars, epoch>>

activateNamespace(t) ==
    /\ task[t] = "idle"
    /\ choice[t] # NoName
    /\ begin(t)
    /\ Doing(t, "namespace")
    /\ Send(t, "namespace", choice[t], shown[t].generation)
    /\ UNCHANGED <<sessionVars, epoch, shown, names, choice>>

\* The select is enabled while there is something to select, busy or not.
setNamespaceChoice(t, name) ==
    /\ names[t] # {}
    /\ choice' = [choice EXCEPT ![t] = name]
    /\ UNCHANGED <<sessionVars, wire, epoch, task, shown, names, result, selected>>

\* Whether the kind is namespaced only makes the button's and the server's
\* conditions stronger; kinds are not told apart.
loadResources(t) ==
    /\ task[t] = "idle"
    /\ shown[t].context # NoName
    /\ begin(t)
    /\ Doing(t, "read")
    /\ Send(t, "read", NoName, shown[t].generation)
    /\ UNCHANGED <<sessionVars, epoch, shown, names, choice>>

\* onSelect: a row of the displayed result.
onSelect(t) ==
    /\ task[t] = "idle"
    /\ result[t] # NoScope
    /\ result[t] = shown[t]
    /\ selected' = [selected EXCEPT ![t] = result[t]]
    /\ UNCHANGED <<sessionVars, wire, epoch, task, shown, names, choice, result>>

\* Unmount and mount: the fetch of the old page is on its own from here.
Reload(t) ==
    /\ epoch[t] < MaxEpoch
    /\ epoch' = [epoch EXCEPT ![t] = @ + 1]
    /\ wire' = wire \cup {Request(t, epoch[t] + 1, "bootstrap", NoName, 0)}
    /\ Doing(t, "loading")
    /\ shown' = [shown EXCEPT ![t] = NoScope]
    /\ names' = [names EXCEPT ![t] = {}]
    /\ choice' = [choice EXCEPT ![t] = NoName]
    /\ begin(t)
    /\ UNCHANGED sessionVars

-----------------------------------------------------------------------------
(***************************************************************************)
(* What a tab does with an answer.  The answer of an earlier page load is  *)
(* dropped; a failed one, or one for another scope, ends the task.         *)
(***************************************************************************)

DropLate(m) ==
    /\ m.status \in {"ok", "error"}
    /\ m.epoch # epoch[m.tab]
    /\ wire' = wire \ {m}
    /\ UNCHANGED <<sessionVars, tabVars>>

Arrived(m, what) ==
    /\ m.epoch = epoch[m.tab]
    /\ task[m.tab] = what

\* Reply to m, and what the tab asks next.
Then(m, what, op, generation) ==
    /\ Doing(m.tab, what)
    /\ wire' = (wire \ {m}) \cup {Request(m.tab, m.epoch, op, NoName, generation)}

Finish(m) ==
    /\ Doing(m.tab, IF task[m.tab] = "loading" /\ m.status = "error" THEN "failed" ELSE "idle")
    /\ wire' = wire \ {m}

setScope(m) == shown' = [shown EXCEPT ![m.tab] = m.scope]

GotBootstrap(m) ==
    /\ Arrived(m, "loading") /\ m.status = "ok"
    /\ setScope(m)
    /\ Finish(m)
    /\ UNCHANGED <<sessionVars, epoch, names, choice, result, selected>>

GotContext(m) ==
    /\ Arrived(m, "context") /\ m.status = "ok"
    /\ setScope(m)
    /\ Then(m, "discovery", "namespaces", m.scope.generation)
    /\ UNCHANGED <<sessionVars, epoch, names, choice, result, selected>>

GotNamespaces(m) ==
    /\ Arrived(m, "discovery") /\ m.status = "ok"
    /\ m.scope = shown[m.tab]
    /\ names' = [names EXCEPT ![m.tab] = m.names]
    /\ Then(m, "contextHistory", "activity", 0)
    /\ UNCHANGED <<sessionVars, epoch, shown, choice, result, selected>>

GotNamespace(m) ==
    /\ Arrived(m, "namespace") /\ m.status = "ok"
    /\ setScope(m)
    /\ Finish(m)
    /\ UNCHANGED <<sessionVars, epoch, names, choice, result, selected>>

\* A read by name also selects the record it found.
GotResult(m) ==
    /\ Arrived(m, "read") /\ m.status = "ok"
    /\ m.scope = shown[m.tab]
    /\ result' = [result EXCEPT ![m.tab] = m.scope]
    /\ selected' \in {selected, [selected EXCEPT ![m.tab] = m.scope]}
    /\ Then(m, "readHistory", "activity", 0)
    /\ UNCHANGED <<sessionVars, epoch, shown, names, choice>>

GotHistory(m) ==
    /\ m.epoch = epoch[m.tab] /\ m.status = "ok"
    /\ task[m.tab] \in {"contextHistory", "readHistory"}
    /\ Finish(m)
    /\ UNCHANGED <<sessionVars, epoch, shown, names, choice, result, selected>>

\* Mutant: only a successful answer ends the task.
GotErrorStaysBusy(m) ==
    /\ m.epoch = epoch[m.tab]
    /\ m.status = "error"
    /\ wire' = wire \ {m}
    /\ UNCHANGED <<sessionVars, tabVars>>

\* The catch clauses: a failed read takes the result down, also when only its
\* history could not be fetched; the record shown in detail stays.
GotError(m) ==
    /\ m.epoch = epoch[m.tab]
    /\ \/ m.status = "error"
       \/ m.status = "ok" /\ task[m.tab] \in {"discovery", "read"} /\ m.scope # shown[m.tab]
    /\ result' = IF task[m.tab] \in {"read", "readHistory"}
                 THEN [result EXCEPT ![m.tab] = NoScope]
                 ELSE result
    /\ Finish(m)
    /\ UNCHANGED <<sessionVars, epoch, shown, names, choice, selected>>

Deliver(m) ==
    \/ DropLate(m)
    \/ GotBootstrap(m)
    \/ GotContext(m)
    \/ GotNamespaces(m)
    \/ GotNamespace(m)
    \/ GotResult(m)
    \/ GotHistory(m)
    \/ GotError(m)

-----------------------------------------------------------------------------

UserStep(t) ==
    \/ \E name \in Contexts : activateContext(t, name)
    \/ activateNamespace(t)
    \/ \E name \in names[t] \cup {NoName} : setNamespaceChoice(t, name)
    \/ loadResources(t)
    \/ onSelect(t)
    \/ Reload(t)

TabsNext ==
    \/ \E t \in Tabs : UserStep(t)
    \/ \E m \in wire : ServerStep(m) \/ FetchFails(m) \/ Deliver(m)
    \/ Close /\ UNCHANGED <<wire, tabVars>>

TabsSpec == TabsInit /\ [][TabsNext]_consoleVars

\* Every fetch of a live page ends: the server answers each request (for reads
\* see AdmittedRequestsEnd) or the connection breaks, and the browser then runs
\* the continuation.
TabsFairSpec ==
    /\ TabsSpec
    /\ \A t \in Tabs :
           WF_consoleVars(\E m \in wire : /\ m.tab = t
                                          /\ m.epoch = epoch[t]
                                          /\ ServerStep(m) \/ FetchFails(m) \/ Deliver(m))

-----------------------------------------------------------------------------

\* What a tab displays was read under the scope it displays, whatever the other
\* tabs did to the session meanwhile and whichever fetch failed (begin, the
\* sameScope tests, the catch clauses).
DisplayedDataIsOfDisplayedScope ==
    \A t \in Tabs : /\ result[t] # NoScope => result[t] = shown[t]
                    /\ selected[t] # NoScope => selected[t] = shown[t]

\* A tab offers only namespaces that the context it displays reported: after a
\* failed activation or discovery it offers none.
OfferedNamespacesAreOfShownContext ==
    \A t \in Tabs :
        names[t] # {} => /\ shown[t].context # NoName
                         /\ names[t] \subseteq NamespacesOf[shown[t].context]

\* Everything on the page belongs to the scope in its header: the data, the
\* selection and the namespaces offered.  Beside it the types, and that a tab
\* never waits for two answers at once.
PageShowsItsScope ==
    /\ TabsTypeOK
    /\ DisplayedDataIsOfDisplayedScope
    /\ OfferedNamespacesAreOfShownContext

\* A namespace chosen in a tab is set in the context that tab displays, or not
\* at all, although another tab may have moved the session to a context with a
\* namespace of the same name ("Scope selection checks the generation
\* atomically", apps/forgeops-console/README.md).
NamespaceIsSetInShownContext ==
    \A m \in wire :
        m.op = "namespace" /\ m.status = "ok" /\ m.epoch = epoch[m.tab] =>
            m.scope.context = shown[m.tab].context

\* No tab stays busy for ever.
BusyEnds ==
    \A t \in Tabs : task[t] \notin {"idle", "failed"} ~> task[t] \in {"idle", "failed"}

=============================================================================
