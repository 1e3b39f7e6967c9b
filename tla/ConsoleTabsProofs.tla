-------------------------- MODULE ConsoleTabsProofs --------------------------
(***************************************************************************)
(* Proofs about the browser tabs, for every set of tabs, contexts and      *)
(* namespaces and every bound.                                             *)
(*                                                                         *)
(* The properties speak of what a page displays; what makes them hold is   *)
(* what may be on the wire: at most one fetch of each page load, which is  *)
(* the one the tab's task waits for, and scopes no newer than the          *)
(* session's, of which the newest has the session's context.               *)
(***************************************************************************)
EXTENDS ConsoleTabs, ConsoleLemmas

OpOf == [loading |-> "bootstrap", context |-> "context", discovery |-> "namespaces",
         namespace |-> "namespace", read |-> "read",
         contextHistory |-> "activity", readHistory |-> "activity"]

\* The fetch of the page a tab shows now.
Current(m) == m.epoch = epoch[m.tab]

\* A scope the session has handed out, or none.
HandedOut(s) ==
    /\ s.generation <= scope.generation
    /\ s.generation = scope.generation => s.context = scope.context

\* One fetch for each page load, for what the tab waits for.
OneFetchPerPage ==
    /\ \A m, n \in wire : m.tab = n.tab /\ m.epoch = n.epoch => m = n
    /\ \A m \in wire :
           /\ m.epoch <= epoch[m.tab]
           /\ Current(m) =>
                  /\ task[m.tab] \notin {"idle", "failed"}
                  /\ m.op = OpOf[task[m.tab]]

\* What a fetch carries.
FetchesCarryScopes ==
    \A m \in wire :
        /\ HandedOut(m.scope)
        /\ m.names # {} => /\ m.scope.context # NoName
                           /\ m.names \subseteq NamespacesOf[m.scope.context]
        /\ m.status \in {"sent", "bound"} => m.names = {}
        /\ m.status = "bound" => m.scope.context # NoName
        /\ m.op = "namespaces" /\ m.status = "bound" => m.scope.generation = m.generation
        /\ Current(m) /\ m.op = "namespace" => m.generation = shown[m.tab].generation

\* What a page shows while it waits, and that its scope was handed out.
PagesWaitEmpty ==
    \A t \in Tabs :
        /\ HandedOut(shown[t])
        /\ task[t] \in {"loading", "context", "namespace"} =>
               result[t] = NoScope /\ selected[t] = NoScope
        /\ task[t] \in {"loading", "context"} => names[t] = {}

TabsTyping ==
    /\ SessionTypeOK
    /\ wire \in SUBSET Fetches
    /\ epoch \in [Tabs -> 1 .. MaxEpoch]
    /\ task \in [Tabs -> {"loading", "failed", "idle", "context", "discovery",
                          "namespace", "read", "contextHistory", "readHistory"}]
    /\ shown \in [Tabs -> Scopes]
    /\ names \in [Tabs -> SUBSET Namespaces]
    /\ choice \in [Tabs -> Namespaces \cup {NoName}]
    /\ result \in [Tabs -> Scopes]
    /\ selected \in [Tabs -> Scopes]

TabsInv ==
    /\ TabsTyping
    /\ SessionInv
    /\ OneFetchPerPage
    /\ FetchesCarryScopes
    /\ PagesWaitEmpty
    /\ DisplayedDataIsOfDisplayedScope
    /\ OfferedNamespacesAreOfShownContext
    /\ NamespaceIsSetInShownContext

\* What the wire must satisfy, whatever the pages show.
WireInv == OneFetchPerPage /\ FetchesCarryScopes /\ NamespaceIsSetInShownContext

-----------------------------------------------------------------------------

\* Every page is loading and nothing is selected.
LEMMA TabsInitial == TabsInit => TabsInv
<1> SUFFICES ASSUME TabsInit PROVE TabsInv
  OBVIOUS
<1>1. SessionTypeOK /\ SessionInv
  BY SessionInitial DEF TabsInit
<1>2. NoScope \in Scopes /\ scope = NoScope /\ HandedOut(NoScope)
  BY DEF TabsInit, SessionInit, NoScope, Scopes, HandedOut
<1>3. \A t \in Tabs : Request(t, 1, "bootstrap", NoName, 0) \in Fetches
  BY <1>2, MaxEpochAssumption DEF Request, Fetches, Operations
<1>4. TabsTyping
  BY <1>1, <1>2, <1>3, MaxEpochAssumption DEF TabsInit, TabsTyping
<1>5. OneFetchPerPage
  <2>1. \A m \in wire : m = Request(m.tab, 1, "bootstrap", NoName, 0) /\ m.tab \in Tabs
    BY DEF TabsInit, Request
  <2>2. \A m \in wire : m.epoch = 1 /\ m.op = "bootstrap"
    BY <2>1 DEF Request
  <2> QED  BY <2>1, <2>2 DEF TabsInit, OneFetchPerPage, Current, OpOf
<1>6. FetchesCarryScopes /\ NamespaceIsSetInShownContext
  BY <1>2 DEF TabsInit, FetchesCarryScopes, NamespaceIsSetInShownContext, Request
<1>7. PagesWaitEmpty /\ DisplayedDataIsOfDisplayedScope /\ OfferedNamespacesAreOfShownContext
  BY <1>2 DEF TabsInit, PagesWaitEmpty, DisplayedDataIsOfDisplayedScope,
              OfferedNamespacesAreOfShownContext
<1> QED  BY <1>1, <1>4, <1>5, <1>6, <1>7 DEF TabsInv

\* A scope handed out stays one when the session moves on.
LEMMA HandedOutStays ==
    ASSUME SessionTypeOK, NEW s \in Scopes, HandedOut(s),
           scope' = scope \/ scope'.generation = scope.generation + 1
    PROVE  HandedOut(s)'
BY DEF SessionTypeOK, Scopes, HandedOut

-----------------------------------------------------------------------------

\* A step of the server on fetch m, which becomes n: the pages do not change.
LEMMA AdvanceKeepsInv ==
    ASSUME TabsInv, NEW m \in wire, NEW n \in Fetches,
           Advance(m, n), UNCHANGED tabVars,
           SessionTypeOK', SessionInv',
           scope' = scope \/ scope'.generation = scope.generation + 1,
           n.tab = m.tab, n.epoch = m.epoch, n.op = m.op, n.generation = m.generation,
           HandedOut(n.scope)',
           n.names # {} => /\ n.scope.context # NoName
                           /\ n.names \subseteq NamespacesOf[n.scope.context],
           n.status \in {"sent", "bound"} => n.names = {},
           n.status = "bound" => n.scope.context # NoName,
           n.op = "namespaces" /\ n.status = "bound" => n.scope.generation = n.generation,
           n.op = "namespace" /\ n.status = "ok" /\ Current(n) =>
               n.scope.context = shown[n.tab].context
    PROVE  TabsInv'
<1> USE DEF tabVars
<1>1. wire' = (wire \ {m}) \cup {n}
  BY DEF Advance
<1>2. wire' \in SUBSET Fetches /\ m \in Fetches
  BY <1>1 DEF TabsInv, TabsTyping
<1>3. TabsTyping'
  BY <1>2 DEF TabsInv, TabsTyping
<1>4. OneFetchPerPage'
  BY <1>1 DEF TabsInv, OneFetchPerPage, Current
<1>5. \A s \in Scopes : HandedOut(s) => HandedOut(s)'
  BY HandedOutStays DEF TabsInv, TabsTyping
<1>6. \A k \in wire : k.scope \in Scopes
  BY DEF TabsInv, TabsTyping, Fetches
<1>7. FetchesCarryScopes'
  BY <1>1, <1>5, <1>6 DEF TabsInv, FetchesCarryScopes, Current
<1>8. NamespaceIsSetInShownContext'
  BY <1>1 DEF TabsInv, NamespaceIsSetInShownContext, Current
<1>9. PagesWaitEmpty'
  BY <1>5 DEF TabsInv, TabsTyping, PagesWaitEmpty
<1>10. DisplayedDataIsOfDisplayedScope' /\ OfferedNamespacesAreOfShownContext'
  BY DEF TabsInv, DisplayedDataIsOfDisplayedScope, OfferedNamespacesAreOfShownContext
<1> QED  BY <1>3, <1>4, <1>7, <1>8, <1>9, <1>10 DEF TabsInv

\* The server's steps and a failing connection.  A selection answers with the
\* scope it made; a namespace is set only while the session's generation is the
\* one the page displays, whose context is then the session's.
LEMMA ServerKeepsInv ==
    ASSUME TabsInv, NEW m \in wire, ServerStep(m) \/ FetchFails(m)
    PROVE  TabsInv'
<1>1. m \in Fetches /\ SessionTypeOK /\ SessionInv /\ scope \in Scopes
  BY DEF TabsInv, TabsTyping, SessionTypeOK
<1>2. HandedOut(m.scope) /\ HandedOut(scope)
  BY <1>1 DEF TabsInv, FetchesCarryScopes, HandedOut, Scopes
<1>3. /\ m.names # {} => /\ m.scope.context # NoName
                         /\ m.names \subseteq NamespacesOf[m.scope.context]
      /\ m.status \in {"sent", "bound"} => m.names = {}
      /\ m.status = "bound" => m.scope.context # NoName
      /\ m.op = "namespaces" /\ m.status = "bound" => m.scope.generation = m.generation
      /\ m.op = "namespace" /\ Current(m) => m.generation = shown[m.tab].generation
      /\ m.op = "namespace" /\ m.status = "ok" /\ Current(m) =>
             m.scope.context = shown[m.tab].context
  BY DEF TabsInv, FetchesCarryScopes, NamespaceIsSetInShownContext, Current
<1>4. UNCHANGED sessionVars => SessionTypeOK' /\ SessionInv' /\ scope' = scope
  BY <1>1, SessionRests DEF sessionVars
<1>5. CASE ServeBootstrap(m)
  <2>1. PICK n : n = [m EXCEPT !.status = "ok", !.scope = scope]
    OBVIOUS
  <2>2. /\ n \in Fetches /\ n.scope = scope /\ n.status = "ok" /\ n.names = m.names
        /\ n.tab = m.tab /\ n.epoch = m.epoch /\ n.op = m.op /\ n.generation = m.generation
    BY <1>1, <2>1 DEF Fetches
  <2>3. Advance(m, n) /\ UNCHANGED tabVars /\ UNCHANGED sessionVars /\ m.op = "bootstrap"
        /\ m.status = "sent"
    BY <1>5, <2>1 DEF ServeBootstrap
  <2>4. HandedOut(n.scope)'
    BY <1>1, <1>2, <1>4, <2>2, <2>3, HandedOutStays
  <2> QED  BY <1>3, <1>4, <2>2, <2>3, <2>4, AdvanceKeepsInv
<1>6. CASE ServeContext(m)
  <2>1. PICK n : n = [m EXCEPT !.status = "ok", !.scope = scope']
    OBVIOUS
  <2>2. /\ Advance(m, n) /\ UNCHANGED tabVars /\ m.op = "context" /\ m.status = "sent"
        /\ SelectContext(m.name)
    BY <1>6, <2>1 DEF ServeContext
  <2>3. /\ SessionTypeOK' /\ SessionInv' /\ scope' \in Scopes
        /\ scope'.generation = scope.generation + 1
    BY <1>1, <2>2, SelectContextKeepsSession DEF SessionTypeOK
  <2>4. /\ n \in Fetches /\ n.scope = scope' /\ n.status = "ok" /\ n.names = m.names
        /\ n.tab = m.tab /\ n.epoch = m.epoch /\ n.op = m.op /\ n.generation = m.generation
    BY <1>1, <2>1, <2>3 DEF Fetches
  <2>5. HandedOut(n.scope)'
    BY <2>3, <2>4 DEF HandedOut, Scopes
  <2> QED  BY <1>3, <2>2, <2>3, <2>4, <2>5, AdvanceKeepsInv
<1>7. CASE ServeNamespace(m)
  <2>1. PICK n : n = [m EXCEPT !.status = "ok", !.scope = scope']
    OBVIOUS
  <2>2. /\ Advance(m, n) /\ UNCHANGED tabVars /\ m.op = "namespace" /\ m.status = "sent"
        /\ SelectNamespaceAt(m.name, m.generation)
    BY <1>7, <2>1 DEF ServeNamespace
  <2>3. /\ SessionTypeOK' /\ SessionInv' /\ scope' \in Scopes
        /\ scope'.generation = scope.generation + 1
        /\ scope'.context = scope.context
        /\ scope.generation = m.generation
    BY <1>1, <2>2, SelectNamespaceKeepsSession DEF SessionTypeOK
  <2>4. /\ n \in Fetches /\ n.scope = scope' /\ n.status = "ok" /\ n.names = m.names
        /\ n.tab = m.tab /\ n.epoch = m.epoch /\ n.op = m.op /\ n.generation = m.generation
    BY <1>1, <2>1, <2>3 DEF Fetches
  <2>5. HandedOut(n.scope)'
    BY <2>3, <2>4 DEF HandedOut, Scopes
  <2>6. Current(n) => n.scope.context = shown[n.tab].context
    <3>1. m.tab \in Tabs /\ HandedOut(shown[m.tab])
      BY <1>1 DEF TabsInv, PagesWaitEmpty, Fetches
    <3> QED  BY <1>3, <2>2, <2>3, <2>4, <3>1 DEF HandedOut, Current
  <2> QED  BY <1>3, <2>2, <2>3, <2>4, <2>5, <2>6, AdvanceKeepsInv
<1>8. CASE ServeActivity(m) \/ ConfirmRead(m) \/ FetchFails(m)
  <2>1. PICK s \in {"ok", "error"} :
            Advance(m, [m EXCEPT !.status = s]) /\ UNCHANGED <<sessionVars, tabVars>>
            /\ (m.op = "namespace" => s = "error")
    BY <1>8 DEF ServeActivity, ConfirmRead, FetchFails
  <2>2. PICK n : n = [m EXCEPT !.status = s]
    OBVIOUS
  <2>3. /\ n \in Fetches /\ n.scope = m.scope /\ n.status = s /\ n.names = m.names
        /\ n.tab = m.tab /\ n.epoch = m.epoch /\ n.op = m.op /\ n.generation = m.generation
    BY <1>1, <2>2 DEF Fetches
  <2>4. HandedOut(n.scope)' /\ m.scope \in Scopes
    BY <1>1, <1>2, <1>4, <2>1, <2>3, HandedOutStays DEF Fetches
  <2> QED  BY <1>3, <1>4, <2>1, <2>2, <2>3, <2>4, AdvanceKeepsInv
<1>9. CASE BindRead(m)
  <2>1. PICK n : n = [m EXCEPT !.status = "bound", !.scope = scope]
    OBVIOUS
  <2>2. /\ n \in Fetches /\ n.scope = scope /\ n.status = "bound" /\ n.names = m.names
        /\ n.tab = m.tab /\ n.epoch = m.epoch /\ n.op = m.op /\ n.generation = m.generation
    BY <1>1, <2>1 DEF Fetches
  <2>3. /\ Advance(m, n) /\ UNCHANGED tabVars /\ UNCHANGED sessionVars
        /\ m.op \in {"namespaces", "read"} /\ m.status = "sent"
        /\ m.generation = scope.generation /\ scope.context # NoName
    BY <1>9, <2>1 DEF BindRead, MayBind
  <2>4. HandedOut(n.scope)'
    BY <1>1, <1>2, <1>4, <2>2, <2>3, HandedOutStays
  <2> QED  BY <1>3, <1>4, <2>2, <2>3, <2>4, AdvanceKeepsInv
<1>10. CASE PublishList(m)
  <2>1. PICK list \in SUBSET NamespacesOf[m.scope.context] :
            /\ AllowNamespaces(m.generation, list)
            /\ Advance(m, [m EXCEPT !.status = "listed", !.names = list])
    BY <1>10 DEF PublishList
  <2>2. m.op = "namespaces" /\ m.status = "bound" /\ UNCHANGED tabVars
    BY <1>10 DEF PublishList
  <2>3. m.scope.context \in Contexts /\ list \subseteq Namespaces
    BY <1>1, <1>3, <2>2, NamesAssumption DEF Fetches, Scopes
  <2>4. m.generation = scope.generation /\ m.scope.context = scope.context
    BY <1>2, <1>3, <2>1, <2>2 DEF AllowNamespaces, MayAllowNamespaces, HandedOut
  <2>5. SessionTypeOK' /\ SessionInv' /\ scope' = scope
    BY <1>1, <2>1, <2>4, AllowKeepsSession
  <2>6. PICK n : n = [m EXCEPT !.status = "listed", !.names = list]
    OBVIOUS
  <2>7. /\ n \in Fetches /\ n.scope = m.scope /\ n.status = "listed" /\ n.names = list
        /\ n.tab = m.tab /\ n.epoch = m.epoch /\ n.op = m.op /\ n.generation = m.generation
    BY <1>1, <2>3, <2>6 DEF Fetches
  <2>8. HandedOut(n.scope)'
    BY <1>2, <2>5, <2>7 DEF HandedOut
  <2> QED  BY <1>3, <2>1, <2>2, <2>3, <2>5, <2>6, <2>7, <2>8, NamesAssumption, AdvanceKeepsInv
<1> QED  BY <1>5, <1>6, <1>7, <1>8, <1>9, <1>10 DEF ServerStep

-----------------------------------------------------------------------------

\* A step of page t that takes the fetches in gone off the wire, so that none of
\* the page's stays, and sends those in asked, at most one and what its new task
\* waits for.
PageStep(t, gone, asked) ==
    /\ gone \in SUBSET wire
    /\ asked \in SUBSET Fetches
    /\ wire' = (wire \ gone) \cup asked
    /\ UNCHANGED sessionVars
    /\ epoch' \in [Tabs -> 1 .. MaxEpoch]
    /\ epoch'[t] >= epoch[t]
    /\ \A u \in Tabs \ {t} : epoch'[u] = epoch[u] /\ task'[u] = task[u] /\ shown'[u] = shown[u]
    /\ \A m \in wire \ gone : m.tab = t => m.epoch # epoch'[t]
    /\ \A m, n \in asked : m = n
    /\ \A m \in asked :
           /\ m.tab = t /\ m.epoch = epoch'[t]
           /\ task'[t] \notin {"idle", "failed"} /\ m.op = OpOf[task'[t]]
           /\ m.status = "sent" /\ m.scope = NoScope /\ m.names = {}
           /\ m.op = "namespace" => m.generation = shown'[t].generation

\* Such a step keeps what the wire must satisfy.
LEMMA PageKeepsWire ==
    ASSUME TabsInv, NEW t \in Tabs, NEW gone, NEW asked, PageStep(t, gone, asked)
    PROVE  wire' \in SUBSET Fetches /\ WireInv'
<1> USE DEF PageStep
<1>1. wire \in SUBSET Fetches /\ \A m \in wire : m.tab \in Tabs /\ m.epoch \in Nat
  BY DEF TabsInv, TabsTyping, Fetches
<1>2. epoch \in [Tabs -> Nat] /\ epoch' \in [Tabs -> Nat]
  BY MaxEpochAssumption DEF TabsInv, TabsTyping
<1>3. OneFetchPerPage'
  BY <1>1, <1>2 DEF TabsInv, OneFetchPerPage, Current
<1>4. scope' = scope /\ HandedOut(NoScope)
  BY DEF TabsInv, TabsTyping, SessionTypeOK, SessionInv, Scopes, sessionVars, HandedOut, NoScope
<1>5. FetchesCarryScopes'
  <2> SUFFICES ASSUME NEW m \in wire' PROVE
        /\ HandedOut(m.scope)'
        /\ m.names # {} => /\ m.scope.context # NoName
                           /\ m.names \subseteq NamespacesOf[m.scope.context]
        /\ m.status \in {"sent", "bound"} => m.names = {}
        /\ m.status = "bound" => m.scope.context # NoName
        /\ m.op = "namespaces" /\ m.status = "bound" => m.scope.generation = m.generation
        /\ Current(m)' /\ m.op = "namespace" => m.generation = shown'[m.tab].generation
    BY DEF FetchesCarryScopes
  <2>1. CASE m \in asked
    BY <1>4, <2>1 DEF HandedOut, NoScope
  <2>2. CASE m \in wire \ gone
    BY <1>1, <1>4, <2>2 DEF TabsInv, FetchesCarryScopes, HandedOut, Current
  <2> QED  BY <2>1, <2>2
<1>6. NamespaceIsSetInShownContext'
  <2> SUFFICES ASSUME NEW m \in wire', m.op = "namespace", m.status = "ok",
                      m.epoch = epoch'[m.tab]
               PROVE  m.scope.context = shown'[m.tab].context
    BY DEF NamespaceIsSetInShownContext
  <2>1. m \in wire \ gone /\ m.tab # t
    OBVIOUS
  <2> QED  BY <1>1, <2>1 DEF TabsInv, NamespaceIsSetInShownContext
<1> QED  BY <1>1, <1>3, <1>5, <1>6 DEF WireInv

\* A request is a fetch, not yet served.
LEMMA RequestIsFetch ==
    ASSUME NEW t \in Tabs, NEW e \in 1 .. MaxEpoch, NEW op \in Operations,
           NEW name \in Contexts \cup Namespaces \cup {NoName}, NEW g \in Nat
    PROVE  LET m == Request(t, e, op, name, g)
           IN  /\ m \in Fetches /\ m.tab = t /\ m.epoch = e /\ m.op = op
               /\ m.generation = g /\ m.status = "sent" /\ m.scope = NoScope /\ m.names = {}
BY DEF Request, Fetches, NoScope, Scopes

\* What is left to show of a page's own step.
PageInv ==
    /\ epoch \in [Tabs -> 1 .. MaxEpoch]
    /\ task \in [Tabs -> {"loading", "failed", "idle", "context", "discovery",
                          "namespace", "read", "contextHistory", "readHistory"}]
    /\ shown \in [Tabs -> Scopes]
    /\ names \in [Tabs -> SUBSET Namespaces]
    /\ choice \in [Tabs -> Namespaces \cup {NoName}]
    /\ result \in [Tabs -> Scopes]
    /\ selected \in [Tabs -> Scopes]
    /\ PagesWaitEmpty
    /\ DisplayedDataIsOfDisplayedScope
    /\ OfferedNamespacesAreOfShownContext

\* Wire, pages and session together.
LEMMA PartsMakeInv ==
    ASSUME TabsInv, UNCHANGED sessionVars, wire' \in SUBSET Fetches, WireInv', PageInv'
    PROVE  TabsInv'
BY SessionRests DEF TabsInv, TabsTyping, WireInv, PageInv

\* An idle page asks: nothing of it is on the wire, and it clears what it shows.
LEMMA AskKeepsInv ==
    ASSUME TabsInv, NEW t \in Tabs, task[t] = "idle", UNCHANGED sessionVars, PageInv',
           UNCHANGED epoch, NEW op \in Operations,
           NEW name \in Contexts \cup Namespaces \cup {NoName}, NEW g \in Nat,
           NEW what, Doing(t, what), what \notin {"idle", "failed"}, op = OpOf[what],
           \A u \in Tabs \ {t} : shown'[u] = shown[u],
           op = "namespace" => g = shown'[t].generation,
           Send(t, op, name, g)
    PROVE  TabsInv'
<1>1. PICK m : m = Request(t, epoch[t], op, name, g)
  OBVIOUS
<1>2. epoch[t] \in 1 .. MaxEpoch
  BY DEF TabsInv, TabsTyping
<1>3. /\ m \in Fetches /\ m.tab = t /\ m.epoch = epoch[t] /\ m.op = op
      /\ m.generation = g /\ m.status = "sent" /\ m.scope = NoScope /\ m.names = {}
  BY <1>1, <1>2, RequestIsFetch
<1>4. wire' = (wire \ {}) \cup {m}
  BY <1>1 DEF Send
<1>5. \A n \in wire : n.tab = t => n.epoch # epoch[t]
  BY DEF TabsInv, OneFetchPerPage, Current
<1>6. task'[t] = what /\ \A u \in Tabs \ {t} : task'[u] = task[u]
  BY DEF Doing, TabsInv, TabsTyping
<1>7. epoch' \in [Tabs -> 1 .. MaxEpoch] /\ epoch'[t] >= epoch[t]
  BY <1>2, MaxEpochAssumption DEF TabsInv, TabsTyping
<1>8. wire' \in SUBSET Fetches /\ WireInv'
  <2> DEFINE gone == {}  asked == {m}
  <2>1. gone \in SUBSET wire /\ asked \in SUBSET Fetches /\ wire' = (wire \ gone) \cup asked
    BY <1>3, <1>4
  <2>2. \A n \in wire \ gone : n.tab = t => n.epoch # epoch'[t]
    BY <1>5
  <2>3. \A n \in asked : n = m
    OBVIOUS
  <2> HIDE DEF gone, asked
  <2>4. PageStep(t, gone, asked)
    BY <1>3, <1>6, <1>7, <2>1, <2>2, <2>3 DEF PageStep
  <2> QED  BY <2>4, PageKeepsWire
<1> QED  BY <1>8, PartsMakeInv

\* The user's steps: activateContext, activateNamespace, loadResources ask; the
\* select, a row and a reload do not wait for the page to be idle or do not send.
LEMMA UserKeepsInv ==
    ASSUME TabsInv, NEW t \in Tabs, UserStep(t)
    PROVE  TabsInv'
<1>1. PageInv /\ NoScope \in Scopes /\ HandedOut(NoScope)
  BY DEF TabsInv, TabsTyping, PageInv, NoScope, Scopes, HandedOut, SessionTypeOK, SessionInv
<1>2. ASSUME UNCHANGED sessionVars
      PROVE  scope' = scope /\ \A s : HandedOut(s)' <=> HandedOut(s)
  BY <1>2 DEF sessionVars, HandedOut
<1> USE DEF PageInv, PagesWaitEmpty, DisplayedDataIsOfDisplayedScope,
            OfferedNamespacesAreOfShownContext
<1>3. ASSUME NEW name \in Contexts, activateContext(t, name) PROVE TabsInv'
  <2>1. PageInv'
    BY <1>1, <1>2, <1>3 DEF activateContext, begin, Doing
  <2> HIDE DEF PageInv
  <2> QED  BY <1>1, <1>3, <2>1, AskKeepsInv DEF activateContext, Operations, OpOf, PageInv
<1>4. CASE activateNamespace(t)
  <2>1. PageInv'
    BY <1>1, <1>2, <1>4 DEF activateNamespace, begin, Doing
  <2>2. shown[t].generation \in Nat /\ choice[t] \in Namespaces
    BY <1>1, <1>4 DEF activateNamespace, Scopes
  <2> HIDE DEF PageInv
  <2> QED  BY <1>4, <2>1, <2>2, AskKeepsInv DEF activateNamespace, Operations, OpOf
<1>5. CASE loadResources(t)
  <2>1. PageInv'
    BY <1>1, <1>2, <1>5 DEF loadResources, begin, Doing
  <2>2. shown[t].generation \in Nat
    BY <1>1 DEF Scopes
  <2> HIDE DEF PageInv
  <2> QED  BY <1>5, <2>1, <2>2, AskKeepsInv DEF loadResources, Operations, OpOf
<1>6. ASSUME NEW name \in names[t] \cup {NoName}, setNamespaceChoice(t, name) PROVE TabsInv'
  <2>1. PageInv'
    BY <1>1, <1>2, <1>6 DEF setNamespaceChoice
  <2>2. wire' \in SUBSET Fetches /\ WireInv'
    BY <1>2, <1>6 DEF setNamespaceChoice, TabsInv, TabsTyping, WireInv, OneFetchPerPage,
              FetchesCarryScopes, NamespaceIsSetInShownContext, Current
  <2> HIDE DEF PageInv
  <2> QED  BY <1>6, <2>1, <2>2, PartsMakeInv DEF setNamespaceChoice
<1>7. CASE onSelect(t)
  <2>1. PageInv'
    BY <1>1, <1>2, <1>7 DEF onSelect
  <2>2. wire' \in SUBSET Fetches /\ WireInv'
    BY <1>2, <1>7 DEF onSelect, TabsInv, TabsTyping, WireInv, OneFetchPerPage,
              FetchesCarryScopes, NamespaceIsSetInShownContext, Current
  <2> HIDE DEF PageInv
  <2> QED  BY <1>7, <2>1, <2>2, PartsMakeInv DEF onSelect
<1>8. CASE Reload(t)
  <2>1. epoch[t] \in 1 .. MaxEpoch /\ epoch[t] + 1 \in 1 .. MaxEpoch /\ epoch'[t] = epoch[t] + 1
        /\ epoch' \in [Tabs -> 1 .. MaxEpoch]
    BY <1>1, <1>8, MaxEpochAssumption DEF Reload
  <2>2. PageInv'
    BY <1>1, <1>2, <1>8, <2>1 DEF Reload, begin, Doing
  <2>3. PICK m : m = Request(t, epoch[t] + 1, "bootstrap", NoName, 0)
    OBVIOUS
  <2>4. /\ m \in Fetches /\ m.tab = t /\ m.epoch = epoch[t] + 1 /\ m.op = "bootstrap"
        /\ m.generation = 0 /\ m.status = "sent" /\ m.scope = NoScope /\ m.names = {}
    BY <2>1, <2>3, RequestIsFetch DEF Operations
  <2>5. wire' = (wire \ {}) \cup {m} /\ UNCHANGED sessionVars
    BY <1>8, <2>3 DEF Reload
  <2>6. \A n \in wire : n.tab = t => n.epoch # epoch'[t]
    BY <2>1, MaxEpochAssumption DEF TabsInv, TabsTyping, OneFetchPerPage, Fetches
  <2>7. /\ task'[t] = "loading"
        /\ \A u \in Tabs \ {t} : epoch'[u] = epoch[u] /\ task'[u] = task[u] /\ shown'[u] = shown[u]
    BY <1>1, <1>8 DEF Reload, Doing
  <2>8. wire' \in SUBSET Fetches /\ WireInv'
    <3> HIDE DEF PageInv, PagesWaitEmpty, DisplayedDataIsOfDisplayedScope,
                 OfferedNamespacesAreOfShownContext
    <3> DEFINE gone == {}  asked == {m}
    <3>1. gone \in SUBSET wire /\ asked \in SUBSET Fetches /\ wire' = (wire \ gone) \cup asked
      BY <2>4, <2>5
    <3>2. \A n \in wire \ gone : n.tab = t => n.epoch # epoch'[t]
      BY <2>6
    <3>3. \A n \in asked : n = m
      OBVIOUS
    <3>4. epoch'[t] >= epoch[t] /\ m.epoch = epoch'[t] /\ m.op = OpOf[task'[t]]
      BY <2>1, <2>4, <2>7 DEF OpOf
    <3>5. \A n \in asked :
              /\ n.tab = t /\ n.epoch = epoch'[t]
              /\ task'[t] \notin {"idle", "failed"} /\ n.op = OpOf[task'[t]]
              /\ n.status = "sent" /\ n.scope = NoScope /\ n.names = {}
              /\ n.op = "namespace" => n.generation = shown'[t].generation
      BY <2>4, <2>7, <3>4
    <3> HIDE DEF gone, asked
    <3>6. PageStep(t, gone, asked)
      BY <2>1, <2>5, <2>7, <3>1, <3>2, <3>3, <3>4, <3>5 DEF PageStep
    <3> QED  BY <3>6, PageKeepsWire
  <2> HIDE DEF PageInv
  <2> QED  BY <2>2, <2>5, <2>8, PartsMakeInv
<1> QED  BY <1>3, <1>4, <1>5, <1>6, <1>7, <1>8 DEF UserStep

-----------------------------------------------------------------------------

\* The answer m that page t waits for arrives: it leaves the wire, and the page
\* may ask for something else.
LEMMA ArrivalKeepsWire ==
    ASSUME TabsInv, NEW m \in wire, Current(m), NEW asked \in SUBSET Fetches,
           wire' = (wire \ {m}) \cup asked,
           UNCHANGED <<sessionVars, epoch>>,
           \A u \in Tabs \ {m.tab} : task'[u] = task[u] /\ shown'[u] = shown[u],
           \A a, b \in asked : a = b,
           \A n \in asked :
               /\ n.tab = m.tab /\ n.epoch = m.epoch
               /\ task'[m.tab] \notin {"idle", "failed"} /\ n.op = OpOf[task'[m.tab]]
               /\ n.op # "namespace"
               /\ n.status = "sent" /\ n.scope = NoScope /\ n.names = {}
    PROVE  wire' \in SUBSET Fetches /\ WireInv'
<1>t. PICK t : t = m.tab
  OBVIOUS
<1> DEFINE gone == {m}
<1>1. t \in Tabs /\ gone \in SUBSET wire
  BY <1>t DEF TabsInv, TabsTyping, Fetches
<1>2. epoch' \in [Tabs -> 1 .. MaxEpoch] /\ epoch'[t] >= epoch[t] /\ epoch' = epoch
  BY <1>1, MaxEpochAssumption DEF TabsInv, TabsTyping
<1>3. \A n \in wire \ gone : n.tab = t => n.epoch # epoch'[t]
  BY <1>t, <1>2 DEF TabsInv, OneFetchPerPage, Current
<1>4. \A u \in Tabs \ {t} : epoch'[u] = epoch[u] /\ task'[u] = task[u] /\ shown'[u] = shown[u]
  BY <1>t, <1>2
<1>5. \A n \in asked :
          /\ n.tab = t /\ n.epoch = epoch'[t]
          /\ task'[t] \notin {"idle", "failed"} /\ n.op = OpOf[task'[t]]
          /\ n.status = "sent" /\ n.scope = NoScope /\ n.names = {}
          /\ n.op = "namespace" => n.generation = shown'[t].generation
  BY <1>t, <1>2 DEF Current
<1>6. wire' = (wire \ gone) \cup asked /\ UNCHANGED sessionVars
  OBVIOUS
<1> HIDE DEF gone
<1>7. PageStep(t, gone, asked)
  BY <1>1, <1>2, <1>3, <1>4, <1>5, <1>6 DEF PageStep
<1> QED  BY <1>1, <1>7, PageKeepsWire

\* The page asks for something else.
LEMMA ThenKeepsInv ==
    ASSUME TabsInv, NEW m \in wire, Current(m), NEW what \in DOMAIN OpOf, NEW op,
           NEW g \in Nat, Then(m, what, op, g), op = OpOf[what],
           op \in {"namespaces", "activity"},
           UNCHANGED <<sessionVars, epoch>>,
           \A u \in Tabs \ {m.tab} : shown'[u] = shown[u],
           PageInv'
    PROVE  TabsInv'
<1>1. PICK n : n = Request(m.tab, m.epoch, op, NoName, g)
  OBVIOUS
<1>2. m.tab \in Tabs /\ m.epoch \in 1 .. MaxEpoch
  BY DEF TabsInv, TabsTyping, Fetches
<1>3. /\ n \in Fetches /\ n.tab = m.tab /\ n.epoch = m.epoch /\ n.op = op
      /\ n.status = "sent" /\ n.scope = NoScope /\ n.names = {}
  <2>1. op \in Operations /\ NoName \in Contexts \cup Namespaces \cup {NoName}
    BY DEF Operations
  <2> QED  BY <1>1, <1>2, <2>1, RequestIsFetch
<1>4. task'[m.tab] = what /\ \A u \in Tabs \ {m.tab} : task'[u] = task[u]
  BY <1>2 DEF Then, Doing, TabsInv, TabsTyping
<1>5. what \notin {"idle", "failed"}
  BY DEF OpOf
<1>6. wire' \in SUBSET Fetches /\ WireInv'
  <2> DEFINE asked == {n}
  <2>1. asked \in SUBSET Fetches /\ wire' = (wire \ {m}) \cup asked
    BY <1>1, <1>3 DEF Then
  <2>2. \A a \in asked : a = n
    OBVIOUS
  <2> HIDE DEF asked
  <2> QED  BY <1>3, <1>4, <1>5, <2>1, <2>2, ArrivalKeepsWire
<1> QED  BY <1>6, PartsMakeInv

\* The page is idle again, or gave up loading.
LEMMA FinishKeepsInv ==
    ASSUME TabsInv, NEW m \in wire, Current(m), Finish(m),
           UNCHANGED <<sessionVars, epoch>>,
           \A u \in Tabs \ {m.tab} : shown'[u] = shown[u],
           PageInv'
    PROVE  TabsInv'
<1>1. m.tab \in Tabs /\ \A u \in Tabs \ {m.tab} : task'[u] = task[u]
  BY DEF Finish, Doing, TabsInv, TabsTyping, Fetches
<1>2. wire' \in SUBSET Fetches /\ WireInv'
  <2> DEFINE asked == {}
  <2>1. asked \in SUBSET Fetches /\ wire' = (wire \ {m}) \cup asked /\ \A n \in asked : FALSE
    BY DEF Finish
  <2> HIDE DEF asked
  <2> QED  BY <1>1, <2>1, ArrivalKeepsWire
<1> QED  BY <1>2, PartsMakeInv

\* What a tab does with an answer, late, wrong or failed ones included.
LEMMA DeliverKeepsInv ==
    ASSUME TabsInv, NEW m \in wire, Deliver(m)
    PROVE  TabsInv'
<1>1. PageInv /\ m \in Fetches /\ m.tab \in Tabs /\ m.scope \in Scopes
      /\ m.names \in SUBSET Namespaces
  BY DEF TabsInv, TabsTyping, PageInv, Fetches
<1>2. UNCHANGED sessionVars /\ UNCHANGED epoch
  BY DEF Deliver, DropLate, GotBootstrap, GotContext, GotNamespaces, GotNamespace, GotResult,
         GotHistory, GotError, tabVars
<1>3. \A s : HandedOut(s)' <=> HandedOut(s)
  BY <1>2 DEF sessionVars, HandedOut
<1>4. HandedOut(m.scope) /\ m.scope.generation \in Nat
  BY <1>1 DEF TabsInv, FetchesCarryScopes, Scopes
<1>5. Current(m) => m.op = OpOf[task[m.tab]]
  BY DEF TabsInv, OneFetchPerPage
<1>6. CASE DropLate(m)
  <2>1. wire' = wire \ {m} /\ UNCHANGED tabVars
    BY <1>6 DEF DropLate
  <2>2. PageInv'
    BY <1>1, <1>3, <2>1 DEF tabVars, PageInv, PagesWaitEmpty, DisplayedDataIsOfDisplayedScope,
              OfferedNamespacesAreOfShownContext
  <2>3. wire' \in SUBSET Fetches /\ WireInv'
    BY <1>3, <2>1 DEF tabVars, TabsInv, TabsTyping, WireInv, OneFetchPerPage,
              FetchesCarryScopes, NamespaceIsSetInShownContext, Current
  <2> QED  BY <1>2, <2>2, <2>3, PartsMakeInv
<1>7. CASE GotBootstrap(m)
  <2>1. Current(m) /\ Finish(m) /\ task'[m.tab] = "idle"
    BY <1>1, <1>7 DEF GotBootstrap, Arrived, Finish, Doing, PageInv, Current
  <2>2. PageInv'
    BY <1>1, <1>2, <1>3, <1>4, <1>7, <2>1 DEF GotBootstrap, Arrived, Finish, Doing, setScope, PageInv,
              PagesWaitEmpty, DisplayedDataIsOfDisplayedScope, OfferedNamespacesAreOfShownContext
  <2> QED  BY <1>1, <1>2, <1>7, <2>1, <2>2, FinishKeepsInv DEF GotBootstrap, setScope, PageInv
<1>8. CASE GotContext(m)
  <2>1. Current(m) /\ Then(m, "discovery", "namespaces", m.scope.generation)
    BY <1>8 DEF GotContext, Arrived, Current
  <2>2. PageInv'
    BY <1>1, <1>2, <1>3, <1>4, <1>8 DEF GotContext, Arrived, Then, Doing, setScope, PageInv,
              PagesWaitEmpty, DisplayedDataIsOfDisplayedScope, OfferedNamespacesAreOfShownContext
  <2>3. \A u \in Tabs \ {m.tab} : shown'[u] = shown[u]
    BY <1>1, <1>8 DEF GotContext, setScope, PageInv
  <2> QED  BY <1>2, <1>4, <2>1, <2>2, <2>3, ThenKeepsInv DEF OpOf
<1>9. CASE GotNamespaces(m)
  <2>1. Current(m) /\ Then(m, "contextHistory", "activity", 0) /\ UNCHANGED shown
    BY <1>9 DEF GotNamespaces, Arrived, Current
  <2>2. m.names # {} => /\ m.scope.context # NoName
                        /\ m.names \subseteq NamespacesOf[m.scope.context]
    BY DEF TabsInv, FetchesCarryScopes
  <2>3. PageInv'
    BY <1>1, <1>2, <1>3, <1>9, <2>2 DEF GotNamespaces, Arrived, Then, Doing, PageInv,
              PagesWaitEmpty, DisplayedDataIsOfDisplayedScope, OfferedNamespacesAreOfShownContext
  <2> QED  BY <1>2, <2>1, <2>3, ThenKeepsInv DEF OpOf
<1>10. CASE GotNamespace(m)
  <2>1. Current(m) /\ Finish(m) /\ m.op = "namespace" /\ task'[m.tab] = "idle"
    BY <1>1, <1>5, <1>10 DEF GotNamespace, Arrived, Current, OpOf, Finish, Doing, PageInv
  <2>2. m.scope.context = shown[m.tab].context
    BY <1>10, <2>1 DEF GotNamespace, TabsInv, NamespaceIsSetInShownContext, Current
  <2>3. PageInv'
    BY <1>1, <1>2, <1>3, <1>4, <1>10, <2>1, <2>2 DEF GotNamespace, Arrived, Finish, Doing, setScope,
              PageInv, PagesWaitEmpty, DisplayedDataIsOfDisplayedScope,
              OfferedNamespacesAreOfShownContext
  <2> QED  BY <1>1, <1>2, <1>10, <2>1, <2>3, FinishKeepsInv DEF GotNamespace, setScope, PageInv
<1>11. CASE GotResult(m)
  <2>1. Current(m) /\ Then(m, "readHistory", "activity", 0) /\ UNCHANGED shown
    BY <1>11 DEF GotResult, Arrived, Current
  <2>2. PageInv'
    BY <1>1, <1>2, <1>3, <1>11 DEF GotResult, Arrived, Then, Doing, PageInv,
              PagesWaitEmpty, DisplayedDataIsOfDisplayedScope, OfferedNamespacesAreOfShownContext
  <2> QED  BY <1>2, <2>1, <2>2, ThenKeepsInv DEF OpOf
<1>12. CASE GotHistory(m)
  <2>1. Current(m) /\ Finish(m) /\ UNCHANGED <<shown, names, choice, result, selected>>
    BY <1>12 DEF GotHistory, Current
  <2>2. PageInv'
    BY <1>1, <1>2, <1>3, <1>12, <2>1 DEF Finish, Doing, PageInv,
              PagesWaitEmpty, DisplayedDataIsOfDisplayedScope, OfferedNamespacesAreOfShownContext
  <2> QED  BY <1>2, <2>1, <2>2, FinishKeepsInv
<1>13. CASE GotError(m)
  <2>1. /\ Current(m) /\ Finish(m) /\ UNCHANGED <<shown, names, choice, selected>>
        /\ result' \in {result, [result EXCEPT ![m.tab] = NoScope]}
    BY <1>13 DEF GotError, Current
  <2>2. NoScope \in Scopes
    BY DEF NoScope, Scopes
  <2>3. PageInv'
    BY <1>1, <1>2, <1>3, <2>1, <2>2 DEF Finish, Doing, PageInv,
              PagesWaitEmpty, DisplayedDataIsOfDisplayedScope, OfferedNamespacesAreOfShownContext
  <2> QED  BY <1>2, <2>1, <2>3, FinishKeepsInv
<1> QED  BY <1>6, <1>7, <1>8, <1>9, <1>10, <1>11, <1>12, <1>13 DEF Deliver

-----------------------------------------------------------------------------

\* The session closes: no page notices until its next fetch.
LEMMA CloseKeepsInv ==
    ASSUME TabsInv, Close, UNCHANGED <<wire, tabVars>>
    PROVE  TabsInv'
<1>1. /\ SessionTypeOK' /\ SessionInv'
      /\ scope'.generation = scope.generation + 1
  BY CloseKeepsSession DEF TabsInv, TabsTyping
<1>2. \A s \in Scopes : HandedOut(s) => HandedOut(s)'
  BY <1>1, HandedOutStays DEF TabsInv, TabsTyping
<1>3. (\A m \in wire : m.scope \in Scopes) /\ \A t \in Tabs : shown[t] \in Scopes
  BY DEF TabsInv, TabsTyping, Fetches
<1>4. FetchesCarryScopes' /\ PagesWaitEmpty'
  BY <1>2, <1>3 DEF tabVars, TabsInv, FetchesCarryScopes, PagesWaitEmpty, Current
<1> QED
  BY <1>1, <1>4 DEF tabVars, TabsInv, TabsTyping, OneFetchPerPage, NamespaceIsSetInShownContext,
                    DisplayedDataIsOfDisplayedScope, OfferedNamespacesAreOfShownContext, Current

\* TabsInv is inductive.
LEMMA TabsInvInductive == TabsInv /\ [TabsNext]_consoleVars => TabsInv'
<1> SUFFICES ASSUME TabsInv, [TabsNext]_consoleVars PROVE TabsInv'
  OBVIOUS
<1>1. ASSUME NEW t \in Tabs, UserStep(t) PROVE TabsInv'
  BY <1>1, UserKeepsInv
<1>2. ASSUME NEW m \in wire, ServerStep(m) \/ FetchFails(m) PROVE TabsInv'
  BY <1>2, ServerKeepsInv
<1>3. ASSUME NEW m \in wire, Deliver(m) PROVE TabsInv'
  BY <1>3, DeliverKeepsInv
<1>4. CASE Close /\ UNCHANGED <<wire, tabVars>>
  BY <1>4, CloseKeepsInv
<1>5. CASE UNCHANGED consoleVars
  <2>1. SessionTypeOK' /\ SessionInv' /\ scope' = scope
    BY <1>5, SessionRests DEF consoleVars, sessionVars, TabsInv, TabsTyping
  <2> QED
    BY <1>5, <2>1 DEF consoleVars, tabVars, TabsInv, TabsTyping, OneFetchPerPage,
           FetchesCarryScopes, PagesWaitEmpty, NamespaceIsSetInShownContext, HandedOut,
           DisplayedDataIsOfDisplayedScope, OfferedNamespacesAreOfShownContext, Current
<1> QED  BY <1>1, <1>2, <1>3, <1>4, <1>5 DEF TabsNext

\* The invariant holds whatever the tabs, the server and the network do.
THEOREM TabsInvariant == TabsSpec => []TabsInv
<1>1. TabsInit => TabsInv
  BY TabsInitial
<1> QED  BY <1>1, TabsInvInductive, PTL DEF TabsSpec

\* Everything on a page belongs to the scope in its header, and a page never waits
\* for two answers (begin, finish, the sameScope tests and the catch clauses of
\* App.tsx, with any number of tabs sharing the session).
THEOREM PagesAlwaysShowTheirScope == TabsSpec => []PageShowsItsScope
<1>1. ASSUME TabsInv, NEW t \in Tabs
      PROVE  Cardinality({m \in wire : m.tab = t /\ m.epoch = epoch[t]}) <= 1
  <2> DEFINE own == {m \in wire : m.tab = t /\ m.epoch = epoch[t]}
  <2>1. \A m, n \in own : m = n
    BY <1>1 DEF TabsInv, OneFetchPerPage
  <2> HIDE DEF own
  <2>2. Cardinality(own) <= 1
    BY <2>1, AtMostOne
  <2> QED  BY <2>2 DEF own
<1>2. TabsInv => TabsTypeOK
  BY <1>1 DEF TabsInv, TabsTyping, TabsTypeOK
<1>3. TabsInv => PageShowsItsScope
  BY <1>2 DEF TabsInv, PageShowsItsScope
<1> QED  BY <1>3, TabsInvariant, PTL

\* A namespace is set in the context its tab displays or not at all
\* (SelectNamespaceAt's generation test against the generation the page sent).
THEOREM NamespaceAlwaysSetInShownContext == TabsSpec => []NamespaceIsSetInShownContext
<1>1. TabsInv => NamespaceIsSetInShownContext
  BY DEF TabsInv
<1> QED  BY <1>1, TabsInvariant, PTL

=============================================================================
