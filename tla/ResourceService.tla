--------------------------- MODULE ResourceService ---------------------------
(***************************************************************************)
(* The bounded resource reads of the ForgeOps Console                      *)
(* (apps/forgeops-console/internal/resources/service.go), with the session *)
(* they are bound to and the activity they leave behind.                   *)
(*                                                                         *)
(* Every HTTP request runs Service.Execute in its own goroutine.  A        *)
(* request's program counter stops wherever Execute touches something      *)
(* shared: the session lock, the slot channel, the upstream cluster, the   *)
(* request context, the activity lock.                                     *)
(*                                                                         *)
(*   new      not yet received                                             *)
(*   waiting  bound to a scope, in the select for a slot                   *)
(*   client   holds a slot, about to build the client                      *)
(*   calling  in project, upstream lists still to answer                   *)
(*   allow    namespaces listed, about to call AllowNamespaces             *)
(*   check    projected, about to compare the generation                   *)
(*   final    generation compared, about to look at ctx.Err and the size   *)
(*   record   outcome decided, about to be recorded                        *)
(*   release  recorded or panicked, the deferred slot release still to run *)
(*   done     answered                                                     *)
(***************************************************************************)
EXTENDS Session, ActivityLog, FiniteSets

CONSTANTS
    Requests,        \* identities of HTTP requests; each is received at most once
    MaxConcurrent,   \* capacity of Service.requests; 4 in the code
    Kinds,           \* resource names that requests carry
    UpstreamErrors   \* errors a client or a list call returns

ASSUME RequestsAssumption == IsFiniteSet(Requests)

ASSUME MaxConcurrentAssumption == MaxConcurrent \in Nat \ {0}

VARIABLES
    pc,        \* where each request stands in Execute
    query,     \* its resource and operation, once admitted
    bound,     \* the Scope that RequestContext returned to it
    bindCtx,   \* the scope context its watcher goroutine waits on
    ctxErr,    \* ctx.Err()
    calls,     \* upstream lists that have not answered yet
    listed,    \* namespace names the list returned
    outcome,   \* the code of the answer
    slots      \* len(Service.requests)

requestVars ==
    <<pc, query, bound, bindCtx, ctxErr, calls, listed, outcome, slots>>

vars == <<sessionVars, logVars, requestVars>>

-----------------------------------------------------------------------------

\* The lists project makes for each kind of allowedKinds: deployments and
\* replicasets also list Pods, services list Pods and EndpointSlices.
UpstreamCalls ==
    [namespaces |-> 1, nodes |-> 1, pods |-> 1, endpointslices |-> 1,
     deployments |-> 2, replicasets |-> 2, services |-> 3]

allowedKinds == DOMAIN UpstreamCalls

Queries == [resource  : Kinds,
            operation : {"list", "read"},
            name      : {"none", "valid", "invalid"}]

ValidQuery(q) ==
    /\ q.resource \in allowedKinds
    /\ \/ q.operation = "list" /\ q.name = "none"
       \/ q.operation = "read" /\ q.name = "valid"

NeedsNamespace(q) == q.resource \notin {"namespaces", "nodes"}

\* mapError: the code a client sees for an error.
mapError(err) ==
    CASE err \in {"ErrStaleScope", "Canceled"} -> "stale_scope"
      [] err \in {"DeadlineExceeded", "Timeout"} -> "timeout"
      [] err = "Forbidden" -> "forbidden"
      [] err = "Unauthorized" -> "unauthenticated"
      [] err = "NotFound" -> "not_found"
      [] err = "TooLarge" -> "too_large"
      [] OTHER -> "unavailable"

Codes == {"stale_scope", "timeout", "forbidden", "unauthenticated",
          "not_found", "too_large", "unavailable"}

NoQuery == [resource |-> "none", operation |-> "none", name |-> "none"]

Active == {"waiting", "client", "calling", "allow", "check", "final",
           "record", "release"}

HoldingSlot == Active \ {"waiting"}

RequestTypeOK ==
    /\ pc \in [Requests -> Active \cup {"new", "done"}]
    /\ query \in [Requests -> Queries \cup {NoQuery}]
    /\ bound \in [Requests -> Scopes]
    /\ bindCtx \in [Requests -> Nat]
    /\ ctxErr \in [Requests -> {"none", "Canceled", "DeadlineExceeded"}]
    /\ calls \in [Requests -> 0 .. 3]
    /\ listed \in [Requests -> SUBSET Namespaces]
    /\ outcome \in [Requests -> Codes \cup {"none", "ok", "invalid_request",
                                            "namespace_required", "internal_error"}]
    /\ slots \in 0 .. MaxConcurrent

-----------------------------------------------------------------------------

RequestInit ==
    /\ pc = [r \in Requests |-> "new"]
    /\ query = [r \in Requests |-> NoQuery]
    /\ bound = [r \in Requests |-> NoScope]
    /\ bindCtx = [r \in Requests |-> 0]
    /\ ctxErr = [r \in Requests |-> "none"]
    /\ calls = [r \in Requests |-> 0]
    /\ listed = [r \in Requests |-> {}]
    /\ outcome = [r \in Requests |-> "none"]
    /\ slots = 0

Goto(r, label) == pc' = [pc EXCEPT ![r] = label]

\* Execute's early returns: nothing is recorded and no slot is taken.
Refuse(r, code) ==
    /\ Goto(r, "done")
    /\ outcome' = [outcome EXCEPT ![r] = code]
    /\ UNCHANGED <<query, bound, bindCtx, ctxErr, calls, listed, slots>>

RefuseInvalid(r, q) ==
    /\ pc[r] = "new"
    /\ ~ValidQuery(q)
    /\ Refuse(r, "invalid_request")
    /\ UNCHANGED <<sessionVars, logVars>>

RefuseStale(r, q, generation) ==
    /\ pc[r] = "new"
    /\ ValidQuery(q)
    /\ ~MayBind(generation)
    /\ Refuse(r, "stale_scope")
    /\ UNCHANGED <<sessionVars, logVars>>

RefuseWithoutNamespace(r, q, generation) ==
    /\ pc[r] = "new"
    /\ ValidQuery(q)
    /\ MayBind(generation)
    /\ NeedsNamespace(q)
    /\ scope.namespace = NoName
    /\ Refuse(r, "namespace_required")
    /\ UNCHANGED <<sessionVars, logVars>>

\* RequestContext hands out the scope and derives the request context; the
\* five-second timeout starts.
Bind(r, q, generation) ==
    /\ pc[r] = "new"
    /\ ValidQuery(q)
    /\ MayBind(generation)
    /\ NeedsNamespace(q) => scope.namespace # NoName
    /\ Goto(r, "waiting")
    /\ query' = [query EXCEPT ![r] = q]
    /\ bound' = [bound EXCEPT ![r] = scope]
    /\ bindCtx' = [bindCtx EXCEPT ![r] = scopeContext]
    /\ UNCHANGED <<ctxErr, calls, listed, outcome, slots>>
    /\ UNCHANGED <<sessionVars, logVars>>

-----------------------------------------------------------------------------

(***************************************************************************)
(* What ends a request context: the watcher goroutine of RequestContext,   *)
(* the five-second timeout, or a client that disconnects.  The first one   *)
(* decides ctx.Err.                                                        *)
(***************************************************************************)
EndContext(r, err) ==
    /\ pc[r] \in Active
    /\ ctxErr[r] = "none"
    /\ ctxErr' = [ctxErr EXCEPT ![r] = err]
    /\ UNCHANGED <<pc, query, bound, bindCtx, calls, listed, outcome, slots>>
    /\ UNCHANGED <<sessionVars, logVars>>

WatcherCancels(r) ==
    /\ bindCtx[r] \in cancelledContexts
    /\ EndContext(r, "Canceled")

Disconnect(r) == EndContext(r, "Canceled")

DeadlineExpires(r) == EndContext(r, "DeadlineExceeded")

-----------------------------------------------------------------------------

\* select: the slot is taken when the channel has room ...
AcquireSlot(r) ==
    /\ pc[r] = "waiting"
    /\ slots < MaxConcurrent
    /\ slots' = slots + 1
    /\ Goto(r, "client")
    /\ UNCHANGED <<query, bound, bindCtx, ctxErr, calls, listed, outcome>>
    /\ UNCHANGED <<sessionVars, logVars>>

\* Mutant: giving up returns without finishError.
GiveUpSilently(r) ==
    /\ pc[r] = "waiting"
    /\ ctxErr[r] # "none"
    /\ Goto(r, "done")
    /\ outcome' = [outcome EXCEPT ![r] = mapError(ctxErr[r])]
    /\ UNCHANGED <<query, bound, bindCtx, ctxErr, calls, listed, slots>>
    /\ UNCHANGED <<sessionVars, logVars>>

\* ... or the request gives up when its context ends first; it holds no slot.
\* With both ready, select may take either.
GiveUpWaiting(r) ==
    /\ pc[r] = "waiting"
    /\ ctxErr[r] # "none"
    /\ Goto(r, "done")
    /\ outcome' = [outcome EXCEPT ![r] = mapError(ctxErr[r])]
    /\ record("resources.read", bound[r], mapError(ctxErr[r]))
    /\ UNCHANGED <<query, bound, bindCtx, ctxErr, calls, listed, slots>>
    /\ UNCHANGED sessionVars

\* finishError, before its record step.
Fail(r, err) ==
    /\ Goto(r, "record")
    /\ outcome' = [outcome EXCEPT ![r] = mapError(err)]
    /\ calls' = [calls EXCEPT ![r] = 0]
    /\ listed' = [listed EXCEPT ![r] = {}]
    /\ UNCHANGED <<query, bound, bindCtx, ctxErr, slots>>
    /\ UNCHANGED <<sessionVars, logVars>>

\* LiveFactory.ClientFor looks at ctx.Err before it does anything else.
BuildClient(r) ==
    /\ pc[r] = "client"
    /\ ctxErr[r] = "none"
    /\ Goto(r, "calling")
    /\ calls' = [calls EXCEPT ![r] = UpstreamCalls[query[r].resource]]
    /\ UNCHANGED <<query, bound, bindCtx, ctxErr, listed, outcome, slots>>
    /\ UNCHANGED <<sessionVars, logVars>>

\* A client or a list that fails: with ctx.Err once the context has ended, with
\* an error of its own at any time.
UpstreamFails(r, err) ==
    /\ pc[r] \in {"client", "calling"}
    /\ Fail(r, err)

\* Mutant: the list calls are not given the request context.
ListsIgnoreContext(r) ==
    /\ pc[r] = "client"
    /\ ctxErr[r] # "none"
    /\ UpstreamFails(r, ctxErr[r])

UpstreamAborts(r) ==
    /\ ctxErr[r] # "none"
    /\ UpstreamFails(r, ctxErr[r])

\* One list of project answers.  The lists of one request are separate calls:
\* the session can move on between them.  Only a namespace list carries data
\* that the session will use.
ListAnswers(r) ==
    /\ pc[r] = "calling"
    /\ calls' = [calls EXCEPT ![r] = @ - 1]
    /\ IF query[r].resource = "namespaces" /\ query[r].operation = "list"
       THEN /\ \E names \in SUBSET NamespacesOf[bound[r].context] :
                   listed' = [listed EXCEPT ![r] = names]
            /\ Goto(r, "allow")
       ELSE /\ UNCHANGED listed
            /\ Goto(r, IF calls[r] = 1 THEN "check" ELSE "calling")
    /\ UNCHANGED <<query, bound, bindCtx, ctxErr, outcome, slots>>
    /\ UNCHANGED <<sessionVars, logVars>>

\* project publishes a namespace list to the session, or fails as stale.
PublishNamespaces(r) ==
    /\ pc[r] = "allow"
    /\ \/ /\ AllowNamespaces(bound[r].generation, listed[r])
          /\ Goto(r, "check")
          /\ listed' = [listed EXCEPT ![r] = {}]
          /\ UNCHANGED <<query, bound, bindCtx, ctxErr, calls, outcome, slots>>
          /\ UNCHANGED logVars
       \/ /\ ~MayAllowNamespaces(bound[r].generation)
          /\ Fail(r, "ErrStaleScope")

-----------------------------------------------------------------------------

\* Mutant: the generation is not compared after the projection.
CheckNothing(r) ==
    /\ pc[r] = "check"
    /\ \/ query[r].operation = "read" /\ Fail(r, "NotFound")
       \/ /\ Goto(r, "final")
          /\ UNCHANGED <<query, bound, bindCtx, ctxErr, calls, listed, outcome, slots>>
          /\ UNCHANGED <<sessionVars, logVars>>

\* After the projection: the scope must still be the one the request is bound
\* to, and a read must have found its object.
CheckGeneration(r) ==
    /\ pc[r] = "check"
    /\ \/ /\ scope.generation # bound[r].generation
          /\ Fail(r, "ErrStaleScope")
       \/ /\ scope.generation = bound[r].generation
          /\ query[r].operation = "read"
          /\ Fail(r, "NotFound")
       \/ /\ scope.generation = bound[r].generation
          /\ Goto(r, "final")
          /\ UNCHANGED <<query, bound, bindCtx, ctxErr, calls, listed, outcome, slots>>
          /\ UNCHANGED <<sessionVars, logVars>>

\* Mutant: the result is returned without the last look at ctx.Err.
FinalCheckOfSize(r) ==
    /\ pc[r] = "final"
    /\ \/ Fail(r, "TooLarge")
       \/ /\ Goto(r, "record")
          /\ outcome' = [outcome EXCEPT ![r] = "ok"]
          /\ UNCHANGED <<query, bound, bindCtx, ctxErr, calls, listed, slots>>
          /\ UNCHANGED <<sessionVars, logVars>>

\* The last look at ctx.Err, then the size of the encoded result.
FinalCheck(r) ==
    /\ pc[r] = "final"
    /\ \/ /\ ctxErr[r] # "none"
          /\ Fail(r, ctxErr[r])
       \/ /\ ctxErr[r] = "none"
          /\ Fail(r, "TooLarge")
       \/ /\ ctxErr[r] = "none"
          /\ Goto(r, "record")
          /\ outcome' = [outcome EXCEPT ![r] = "ok"]
          /\ UNCHANGED <<query, bound, bindCtx, ctxErr, calls, listed, slots>>
          /\ UNCHANGED <<sessionVars, logVars>>

RecordOutcome(r) ==
    /\ pc[r] = "record"
    /\ record("resources.read", bound[r], outcome[r])
    /\ Goto(r, "release")
    /\ UNCHANGED <<query, bound, bindCtx, ctxErr, calls, listed, outcome, slots>>
    /\ UNCHANGED sessionVars

\* Mutant: the release is not deferred, so a panic skips it.
PanicLeaksSlot(r) ==
    /\ pc[r] \in {"client", "calling", "check"}
    /\ Goto(r, "done")
    /\ outcome' = [outcome EXCEPT ![r] = "internal_error"]
    /\ calls' = [calls EXCEPT ![r] = 0]
    /\ UNCHANGED <<query, bound, bindCtx, ctxErr, listed, slots>>
    /\ UNCHANGED <<sessionVars, logVars>>

\* A panic while the slot is held: Broker.Invoke recovers it after the deferred
\* release, and nothing is recorded.
Panic(r) ==
    /\ pc[r] \in {"client", "calling", "check"}
    /\ Goto(r, "release")
    /\ outcome' = [outcome EXCEPT ![r] = "internal_error"]
    /\ calls' = [calls EXCEPT ![r] = 0]
    /\ UNCHANGED <<query, bound, bindCtx, ctxErr, listed, slots>>
    /\ UNCHANGED <<sessionVars, logVars>>

ReleaseSlot(r) ==
    /\ pc[r] = "release"
    /\ slots' = slots - 1
    /\ Goto(r, "done")
    /\ UNCHANGED <<query, bound, bindCtx, ctxErr, calls, listed, outcome>>
    /\ UNCHANGED <<sessionVars, logVars>>

-----------------------------------------------------------------------------

Receive(r) ==
    \E q \in Queries :
        \/ RefuseInvalid(r, q)
        \/ \E generation \in Generations :
               \/ RefuseStale(r, q, generation)
               \/ RefuseWithoutNamespace(r, q, generation)
               \/ Bind(r, q, generation)

\* Steps the handler's own goroutine takes without waiting for the cluster.
HandlerStep(r) ==
    \/ AcquireSlot(r)
    \/ GiveUpWaiting(r)
    \/ BuildClient(r)
    \/ UpstreamAborts(r)
    \/ PublishNamespaces(r)
    \/ CheckGeneration(r)
    \/ FinalCheck(r)
    \/ RecordOutcome(r)
    \/ ReleaseSlot(r)

\* What the cluster, the network and the code's own faults may do at any time.
Environment(r) ==
    \/ Disconnect(r)
    \/ ListAnswers(r)
    \/ \E err \in UpstreamErrors : UpstreamFails(r, err)
    \/ Panic(r)

RequestNext(r) ==
    \/ Receive(r)
    \/ WatcherCancels(r)
    \/ DeadlineExpires(r)
    \/ HandlerStep(r)
    \/ Environment(r)

Init == SessionInit /\ LogInit /\ RequestInit

Next ==
    \/ OperatorNext /\ UNCHANGED <<logVars, requestVars>>
    \/ \E r \in Requests : RequestNext(r)

\* The Go scheduler runs every runnable goroutine.  Nothing is assumed of the
\* operator, the clients or the cluster.
Fairness ==
    \A r \in Requests : WF_vars(HandlerStep(r)) /\ WF_vars(WatcherCancels(r))

\* Timers fire.
TimersFire == \A r \in Requests : WF_vars(DeadlineExpires(r))

Spec == Init /\ [][Next]_vars

FairSpec == Spec /\ Fairness

-----------------------------------------------------------------------------
(***************************************************************************)
(* Properties.                                                             *)
(***************************************************************************)

\* Every variable keeps its type: in particular the slot counter stays within
\* the channel's capacity.
TypeOK ==
    /\ SessionTypeOK
    /\ sequence \in Nat
    /\ activity \in Seq(Entries(Scopes, Codes \cup {"ok"}))
    /\ RequestTypeOK

\* The slot channel holds one token per handler that is between acquiring and
\* releasing, on every path out of Execute: error, panic, cancellation while
\* waiting.  With the channel's capacity, at most MaxConcurrent handlers are
\* upstream at once and none leaks its slot.
SlotsHeldByHandlers ==
    slots = Cardinality({r \in Requests : pc[r] \in HoldingSlot})

Bound(r) == bound[r] # NoScope

\* A generation stands for one scope: two requests bound under the same
\* generation saw the same context and namespace, and a request whose
\* generation is the session's is bound to exactly the session's scope.  This
\* is what makes comparing generations in Execute as good as comparing scopes.
GenerationIdentifiesScope ==
    \A r \in Requests : Bound(r) =>
        /\ bound[r].generation <= scope.generation
        /\ bound[r].generation = scope.generation => bound[r] = scope
        /\ \A q \in Requests : Bound(q) /\ bound[q].generation = bound[r].generation
                                   => bound[q] = bound[r]

\* The requests that have called record.
Recorded ==
    {r \in Requests : /\ Bound(r)
                      /\ pc[r] \in {"release", "done"}
                      /\ outcome[r] # "internal_error"}

\* A request that was admitted and did not panic leaves one activity entry,
\* never two and never none, under the scope it was bound to and with the
\* code its client was sent; refused and panicking requests leave none.
OneEntryPerAdmittedRequest ==
    /\ sequence = Cardinality(Recorded)
    /\ \A i \in 1 .. Len(activity) :
           \E r \in Recorded : /\ activity[i].scope = bound[r]
                               /\ activity[i].outcome = outcome[r]

BeforeCheck == {"waiting", "client", "calling", "allow", "check"}

\* Once the session has moved past a request's generation, by a selection or by
\* Close, a request that has not yet compared generations never succeeds,
\* whatever happens later.
SupersededNeverSucceeds ==
    \A r \in Requests :
        [](pc[r] \in BeforeCheck /\ bound[r].generation # scope.generation
               => [](outcome[r] # "ok"))

\* A request whose context ended before the last look at ctx.Err never
\* succeeds, although its upstream calls may have answered.
CancelledNeverSucceeds ==
    \A r \in Requests :
        [](pc[r] \in BeforeCheck \cup {"final"} /\ ctxErr[r] # "none"
               => [](outcome[r] # "ok"))

\* After Close no request is bound to a scope any more.
NothingBoundAfterClose == [][closed => bound' = bound]_vars

\* If timers fire, an admitted request is answered, whatever the cluster does:
\* the timeout reaches it in the slot queue and in every upstream call.
AdmittedRequestsEnd ==
    TimersFire => \A r \in Requests : pc[r] = "waiting" ~> pc[r] = "done"

\* A scope change or Close ends the older work by itself, without help from the
\* timeout: the scope context is cancelled, the watcher passes it on, and the
\* handler meets it in the select, in a call or in a check.
SupersededWorkEnds ==
    \A r \in Requests :
        (pc[r] \in Active /\ bound[r].generation # scope.generation)
            ~> pc[r] = "done"

-----------------------------------------------------------------------------

(***************************************************************************)
(* The service implements ScopedReads.  A request is confirmed when it     *)
(* passes the generation comparison and succeeds when "ok" is decided.     *)
(***************************************************************************)
ReadStatus ==
    [r \in Requests |->
        CASE pc[r] = "new" -> "idle"
          [] pc[r] \in BeforeCheck -> "reading"
          [] pc[r] = "final" -> "confirmed"
          [] OTHER -> IF outcome[r] = "ok" THEN "ok" ELSE "failed"]

Promise == INSTANCE ScopedReads WITH
    Reads <- Requests, current <- scope, open <- ~closed,
    status <- ReadStatus, taken <- bound

\* Every behaviour of the service is one ScopedReads allows: scopes change as
\* a whole, and only a read whose scope is in force when it is checked succeeds.
ImplementsScopedReads == Promise!ReadsSpec

=============================================================================
