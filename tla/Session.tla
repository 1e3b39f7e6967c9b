------------------------------- MODULE Session -------------------------------
(***************************************************************************)
(* The operator session of the ForgeOps Console                            *)
(* (apps/forgeops-console/internal/session/state.go).                      *)
(*                                                                         *)
(* One process-wide State is shared by every browser tab and every request *)
(* handler.  Each method runs under State.mu and is one atomic action.  A  *)
(* method that returns an error leaves the state alone, so its error       *)
(* returns are the negation of the action's guard.                         *)
(*                                                                         *)
(* A context.Context made by advanceLocked is named by the generation it   *)
(* was made for; 0 stands for the nil context of a fresh session.          *)
(***************************************************************************)
EXTENDS Integers

CONSTANTS
    Contexts,       \* context names of the loaded kubeconfig
    Namespaces,     \* namespace names a cluster can report
    NamespacesOf,   \* what each context's cluster can ever report
    NoName,         \* the empty string
    MaxGeneration   \* bound on scope changes; the code's counter is a uint64

ASSUME NamesAssumption ==
    /\ NoName \notin Contexts
    /\ NoName \notin Namespaces
    /\ NamespacesOf \in [Contexts -> SUBSET Namespaces]

ASSUME MaxGenerationAssumption == MaxGeneration \in Nat

VARIABLES
    closed,             \* State.closed
    scope,              \* State.scope: context, namespace, generation
    allowedNamespaces,  \* State.allowedNamespaces
    scopeContext,       \* State.scopeContext, by the generation that made it
    cancelledContexts   \* the scope contexts whose cancel function was called

sessionVars ==
    <<closed, scope, allowedNamespaces, scopeContext, cancelledContexts>>

Scopes == [context : Contexts \cup {NoName},
           namespace : Namespaces \cup {NoName},
           generation : Nat]

\* Scope{}: what a method returns beside an error.
NoScope == [context |-> NoName, namespace |-> NoName, generation |-> 0]

\* Generations a browser can send: those handed out so far, 0 and one it guessed.
Generations == 0 .. MaxGeneration + 1

SessionTypeOK ==
    /\ closed \in BOOLEAN
    /\ scope \in Scopes
    /\ allowedNamespaces \in SUBSET Namespaces
    /\ scopeContext \in Nat
    /\ cancelledContexts \in SUBSET Nat

-----------------------------------------------------------------------------

\* New: no context is selected until the operator selects one.
SessionInit ==
    /\ closed = FALSE
    /\ scope = NoScope
    /\ allowedNamespaces = {}
    /\ scopeContext = 0
    /\ cancelledContexts = {}

\* Mutant: the cancel function is dropped instead of called.
CancelScopeForgotten == UNCHANGED cancelledContexts

\* cancelScope, when there is one to call.
CancelScope == cancelledContexts' = cancelledContexts \cup ({scopeContext} \ {0})

\* Mutant: selecting a namespace keeps the generation.
advanceLockedPerContext(context, namespace) ==
    /\ scope.generation < MaxGeneration
    /\ CancelScope
    /\ LET next == scope.generation + (IF context = scope.context THEN 0 ELSE 1)
       IN  /\ scope' = [context |-> context, namespace |-> namespace, generation |-> next]
           /\ scopeContext' = next

\* The generation advance shared by both selections, with the scope they set.
advanceLocked(context, namespace) ==
    /\ scope.generation < MaxGeneration
    /\ CancelScope
    /\ scope' = [context    |-> context,
                 namespace  |-> namespace,
                 generation |-> scope.generation + 1]
    /\ scopeContext' = scope.generation + 1

SelectContext(name) ==
    /\ ~closed
    /\ name \in Contexts
    /\ advanceLocked(name, NoName)
    /\ allowedNamespaces' = {}
    /\ UNCHANGED closed

\* Mutant: the generation is not compared.
SelectNamespaceAnytime(name, generation) ==
    /\ ~closed
    /\ name \in allowedNamespaces
    /\ advanceLocked(scope.context, name)
    /\ UNCHANGED <<closed, allowedNamespaces>>

\* The generation test and the change happen under one lock.
SelectNamespaceAt(name, generation) ==
    /\ generation # 0
    /\ generation = scope.generation
    /\ ~closed
    /\ name \in allowedNamespaces
    /\ advanceLocked(scope.context, name)
    /\ UNCHANGED <<closed, allowedNamespaces>>

\* Mutant: any discovery of an open session is accepted.
MayAllowNamespacesAnytime(generation) == ~closed /\ scope.context # NoName

\* AllowNamespaces is called by a request handler with the generation the
\* handler is bound to.  It returns ErrStaleScope unless this holds.
MayAllowNamespaces(generation) ==
    /\ ~closed
    /\ generation = scope.generation
    /\ scope.context # NoName

AllowNamespaces(generation, names) ==
    /\ MayAllowNamespaces(generation)
    /\ allowedNamespaces' = names \ {NoName}
    /\ UNCHANGED <<closed, scope, scopeContext, cancelledContexts>>

\* RequestContext returns ErrStaleScope unless this holds; otherwise it hands
\* out the current scope and a context derived from the current scopeContext.
MayBind(generation) ==
    /\ ~closed
    /\ generation # 0
    /\ generation = scope.generation
    /\ scope.context # NoName
    /\ scopeContext # 0

\* Close is idempotent; only its first call changes anything.
Close ==
    /\ ~closed
    /\ closed' = TRUE
    /\ CancelScope
    /\ scope' = [context    |-> NoName,
                 namespace  |-> NoName,
                 generation |-> scope.generation + 1]
    /\ allowedNamespaces' = {}
    /\ UNCHANGED scopeContext

-----------------------------------------------------------------------------

(***************************************************************************)
(* The operator's own steps: the context and namespace handlers of         *)
(* internal/server/server.go call the two selections, and the lifecycle    *)
(* calls Close.                                                            *)
(***************************************************************************)
OperatorNext ==
    \/ \E name \in Contexts : SelectContext(name)
    \/ \E name \in Namespaces, generation \in Generations :
           SelectNamespaceAt(name, generation)
    \/ Close

-----------------------------------------------------------------------------

(***************************************************************************)
(* Properties of the session state that every module using it checks.      *)
(***************************************************************************)

\* Whatever the order of selections and late discoveries, the namespaces the
\* operator may pick, and the one picked, are ones the cluster of the
\* selected context reported: a discovery made in another context never
\* leaks into this one (AllowNamespaces, SelectContext, SelectNamespaceAt).
NamespacesOfSelectedContext ==
    LET reported == IF scope.context = NoName THEN {}
                                              ELSE NamespacesOf[scope.context]
    IN  /\ allowedNamespaces \subseteq reported
        /\ scope.namespace # NoName => scope.namespace \in reported

\* A scope context is cancelled exactly when its generation is no longer the
\* session's: no request of the present scope is cancelled by the session and
\* none of a past scope is left running uncancelled (advanceLocked, Close).
CancelledExactlyWhenSuperseded ==
    /\ cancelledContexts = 1 .. (scope.generation - 1)
    /\ ~closed => scopeContext = scope.generation

=============================================================================
