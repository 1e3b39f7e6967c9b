-------------------------- MODULE DiagnosticService --------------------------
(***************************************************************************)
(* The Pod diagnostics of the ForgeOps Console                             *)
(* (apps/forgeops-console/internal/diagnostics/service.go): bounded logs   *)
(* and Events of one selected Pod, and command previews.                   *)
(*                                                                         *)
(* As in ResourceService each request is a goroutine in Service.Execute.   *)
(* The service differs from the resource service in four ways that matter: *)
(* a full slot channel is an error at once, a deferred function records    *)
(* every bound request after its slot is released and even after a panic,  *)
(* an upstream error is kept until the generation and the context have     *)
(* been looked at, and the Pod may be recreated between the calls.         *)
(*                                                                         *)
(*   new -> slot -> client -> get -> read [-> reget] -> check -> final     *)
(*       -> release -> record -> done                                      *)
(*                                                                         *)
(* The cluster is the part of it a diagnosis sees: the Pod of the selected *)
(* name in each context.  A recreated Pod gets a UID never used before.    *)
(***************************************************************************)
EXTENDS Session, ActivityLog, FiniteSets

CONSTANTS
    Diagnoses,          \* identities of diagnostic HTTP requests
    DiagMaxConcurrent,  \* capacity of Service.slots; 2 in the code
    MaxUID,             \* bound on Pod recreations
    PodErrors           \* codes of the errors the cluster calls return

ASSUME DiagnosesAssumption == IsFiniteSet(Diagnoses)

ASSUME DiagMaxConcurrentAssumption == DiagMaxConcurrent \in Nat \ {0}

ASSUME MaxUIDAssumption == MaxUID \in Nat

VARIABLES
    dpc,         \* where each request stands in Execute
    dquery,      \* its operation and expectedUID, once bound
    dbound,      \* the Scope RequestContext returned
    dbindCtx,    \* the scope context its watcher waits on
    dctxErr,     \* ctx.Err()
    dpod,        \* UID of the Pod the first Get returned
    dseen,       \* UIDs of the Pods whose text or Events the result holds
    derr,        \* code of err, "none" for nil, "ok" once the answer is final
    dslots,      \* len(Service.slots)
    pod,         \* per context, UID of the selected Pod, 0 when there is none
    lastUID      \* the UID given out last

clusterVars == <<pod, lastUID>>

localVars == <<dquery, dbound, dbindCtx, dpod>>

diagVars == <<dpc, localVars, dctxErr, dseen, derr, dslots>>

-----------------------------------------------------------------------------

UIDs == 1 .. MaxUID

\* expectedUID 0 stands for an absent expectedUID.  "other" is any operation,
\* target, Pod or container name that valid rejects.
DiagQueries == [operation   : {"logs", "events", "preview", "other"},
                expectedUID : {0} \cup UIDs]

valid(q) == q.operation # "other"

Capability ==
    [logs |-> "pods.logs.read", events |-> "events.read", preview |-> "command.preview"]

\* mapError, for the errors that carry no code of their own.
DiagMapError(err) ==
    CASE err = "ErrStaleScope" -> "stale_scope"
      [] err = "Canceled" -> "cancelled"
      [] err = "DeadlineExceeded" -> "timeout"

DiagCodes == {"stale_scope", "cancelled", "timeout", "forbidden", "unauthenticated",
              "not_found", "unavailable", "too_large", "busy", "namespace_required",
              "pod_changed", "invalid_container", "invalid_request", "internal_error"}

\* mapError gives the errors of the client, the Get and the reads these codes.
ASSUME PodErrorsAssumption == PodErrors \subseteq DiagCodes

NoDiagQuery == [operation |-> "none", expectedUID |-> 0]

Working == {"client", "get", "read", "reget", "check", "final"}

DiagHolding == Working \cup {"release"}

DiagTypeOK ==
    /\ dpc \in [Diagnoses -> DiagHolding \cup {"new", "slot", "record", "done"}]
    /\ dquery \in [Diagnoses -> DiagQueries \cup {NoDiagQuery}]
    /\ dbound \in [Diagnoses -> Scopes]
    /\ dbindCtx \in [Diagnoses -> Nat]
    /\ dctxErr \in [Diagnoses -> {"none", "Canceled", "DeadlineExceeded"}]
    /\ dpod \in [Diagnoses -> {0} \cup UIDs]
    /\ dseen \in [Diagnoses -> SUBSET UIDs]
    /\ derr \in [Diagnoses -> DiagCodes \cup {"none", "ok"}]
    /\ dslots \in 0 .. DiagMaxConcurrent
    /\ pod \in [Contexts -> {0} \cup UIDs]
    /\ lastUID \in {0} \cup UIDs

DiagInit ==
    /\ dpc = [d \in Diagnoses |-> "new"]
    /\ dquery = [d \in Diagnoses |-> NoDiagQuery]
    /\ dbound = [d \in Diagnoses |-> NoScope]
    /\ dbindCtx = [d \in Diagnoses |-> 0]
    /\ dctxErr = [d \in Diagnoses |-> "none"]
    /\ dpod = [d \in Diagnoses |-> 0]
    /\ dseen = [d \in Diagnoses |-> {}]
    /\ derr = [d \in Diagnoses |-> "none"]
    /\ dslots = 0
    /\ pod = [c \in Contexts |-> 0]
    /\ lastUID = 0

-----------------------------------------------------------------------------

(***************************************************************************)
(* The cluster, outside the Console: a controller deletes and recreates    *)
(* the Pod under the same name.                                            *)
(***************************************************************************)
CreatePod(c) ==
    /\ pod[c] = 0
    /\ lastUID < MaxUID
    /\ lastUID' = lastUID + 1
    /\ pod' = [pod EXCEPT ![c] = lastUID + 1]
    /\ UNCHANGED <<sessionVars, logVars, diagVars>>

DeletePod(c) ==
    /\ pod[c] # 0
    /\ pod' = [pod EXCEPT ![c] = 0]
    /\ UNCHANGED lastUID
    /\ UNCHANGED <<sessionVars, logVars, diagVars>>

PodOf(d) == pod[dbound[d].context]

-----------------------------------------------------------------------------

To(d, label) == dpc' = [dpc EXCEPT ![d] = label]

Err(d, code) == derr' = [derr EXCEPT ![d] = code]

\* Execute's returns before the recorder is deferred.
DiagRefuse(d, q, generation) ==
    /\ dpc[d] = "new"
    /\ \/ ~valid(q) /\ Err(d, "invalid_request")
       \/ valid(q) /\ ~MayBind(generation) /\ Err(d, "stale_scope")
    /\ To(d, "done")
    /\ UNCHANGED <<localVars, dctxErr, dseen, dslots>>
    /\ UNCHANGED <<sessionVars, logVars, clusterVars>>

\* From here on the deferred recorder will run.
DiagBind(d, q, generation) ==
    /\ dpc[d] = "new"
    /\ valid(q)
    /\ MayBind(generation)
    /\ dquery' = [dquery EXCEPT ![d] = q]
    /\ dbound' = [dbound EXCEPT ![d] = scope]
    /\ dbindCtx' = [dbindCtx EXCEPT ![d] = scopeContext]
    /\ IF scope.namespace = NoName
       THEN Err(d, "namespace_required") /\ To(d, "record")
       ELSE To(d, "slot") /\ UNCHANGED derr
    /\ UNCHANGED <<dpod, dctxErr, dseen, dslots>>
    /\ UNCHANGED <<sessionVars, logVars, clusterVars>>

\* Mutant: "busy" is answered before the recorder is deferred.
BusyUnrecorded(d) ==
    /\ dpc[d] = "slot"
    /\ IF dslots < DiagMaxConcurrent
       THEN /\ dslots' = dslots + 1
            /\ To(d, IF dquery[d].operation = "preview" THEN "check" ELSE "client")
            /\ UNCHANGED derr
       ELSE /\ Err(d, "busy")
            /\ To(d, "done")
            /\ UNCHANGED dslots
    /\ UNCHANGED <<localVars, dctxErr, dseen>>
    /\ UNCHANGED <<sessionVars, logVars, clusterVars>>

\* The select has a default: with no room in the channel the answer is "busy".
TrySlot(d) ==
    /\ dpc[d] = "slot"
    /\ IF dslots < DiagMaxConcurrent
       THEN /\ dslots' = dslots + 1
            /\ To(d, IF dquery[d].operation = "preview" THEN "check" ELSE "client")
            /\ \/ UNCHANGED derr
               \/ dquery[d].operation = "preview" /\ Err(d, "invalid_request")
       ELSE /\ Err(d, "busy")
            /\ To(d, "record")
            /\ UNCHANGED dslots
    /\ UNCHANGED <<localVars, dctxErr, dseen>>
    /\ UNCHANGED <<sessionVars, logVars, clusterVars>>

-----------------------------------------------------------------------------

DiagEndContext(d, err) ==
    /\ dpc[d] \in {"slot"} \cup Working
    /\ dctxErr[d] = "none"
    /\ dctxErr' = [dctxErr EXCEPT ![d] = err]
    /\ UNCHANGED <<dpc, localVars, dseen, derr, dslots>>
    /\ UNCHANGED <<sessionVars, logVars, clusterVars>>

DiagWatcherCancels(d) ==
    /\ dbindCtx[d] \in cancelledContexts
    /\ DiagEndContext(d, "Canceled")

DiagDisconnect(d) == DiagEndContext(d, "Canceled")

DiagDeadlineExpires(d) == DiagEndContext(d, "DeadlineExceeded")

-----------------------------------------------------------------------------

\* A step of the upstream work that moves to label with err still nil.
Proceed(d, label) ==
    /\ To(d, label)
    /\ UNCHANGED <<derr, dctxErr, dslots, dquery, dbound, dbindCtx>>
    /\ UNCHANGED <<sessionVars, logVars, clusterVars>>

ClientReady(d) ==
    /\ dpc[d] = "client"
    /\ dctxErr[d] = "none"
    /\ Proceed(d, "get")
    /\ UNCHANGED <<dpod, dseen>>

\* A client, a Get or a read that fails keeps its error for the final checks.
CallFails(d, code) ==
    /\ dpc[d] \in {"client", "get", "read", "reget"}
    /\ Err(d, code)
    /\ To(d, "check")
    /\ UNCHANGED <<localVars, dctxErr, dseen, dslots>>
    /\ UNCHANGED <<sessionVars, logVars, clusterVars>>

\* Mutant: the Get and the reads are not given the request context.
OnlyClientAborts(d) ==
    /\ dpc[d] = "client"
    /\ dctxErr[d] # "none"
    /\ CallFails(d, DiagMapError(dctxErr[d]))

CallAborts(d) ==
    /\ dctxErr[d] # "none"
    /\ CallFails(d, DiagMapError(dctxErr[d]))

\* Get and the log endpoint answer not_found when the Pod is gone, and the log
\* endpoint needs a container of the Pod.
PodIsGone(d) ==
    /\ dpc[d] \in {"get", "reget"} \/ (dpc[d] = "read" /\ dquery[d].operation = "logs")
    /\ PodOf(d) = 0
    /\ CallFails(d, "not_found")

ContainerUnknown(d) ==
    /\ dpc[d] = "read"
    /\ dquery[d].operation = "logs"
    /\ CallFails(d, "invalid_container")

\* Mutant: the slot is released at the end of Execute only.
ReturnEarlyKeepsSlot(d, code) ==
    /\ Err(d, code)
    /\ To(d, "record")
    /\ UNCHANGED <<localVars, dctxErr, dseen, dslots>>
    /\ UNCHANGED <<sessionVars, logVars, clusterVars>>

\* An early return: the generation and the context are not looked at.
ReturnEarly(d, code) ==
    /\ Err(d, code)
    /\ To(d, "release")
    /\ UNCHANGED <<localVars, dctxErr, dseen, dslots>>
    /\ UNCHANGED <<sessionVars, logVars, clusterVars>>

GetPod(d) ==
    /\ dpc[d] = "get"
    /\ PodOf(d) # 0
    /\ IF dquery[d].expectedUID \in {0, PodOf(d)}
       THEN /\ dpod' = [dpod EXCEPT ![d] = PodOf(d)]
            /\ Proceed(d, "read")
            /\ UNCHANGED dseen
       ELSE ReturnEarly(d, "pod_changed")

\* The answer names another Pod or carries no UID.
GetPodMalformed(d) ==
    /\ dpc[d] = "get"
    /\ PodOf(d) # 0
    /\ ReturnEarly(d, "unavailable")

\* Mutant: the UID is only compared before the logs are read.
ReadLogsTrustingName(d) ==
    /\ dpc[d] = "read"
    /\ dquery[d].operation = "logs"
    /\ PodOf(d) # 0
    /\ dctxErr[d] = "none"
    /\ dseen' = [dseen EXCEPT ![d] = {PodOf(d)}]
    /\ Proceed(d, "check")
    /\ UNCHANGED dpod

\* Logs are addressed by Pod name: they are those of whatever Pod now has it.
ReadLogs(d) ==
    /\ dpc[d] = "read"
    /\ dquery[d].operation = "logs"
    /\ PodOf(d) # 0
    /\ dctxErr[d] = "none"
    /\ dseen' = [dseen EXCEPT ![d] = {PodOf(d)}]
    /\ Proceed(d, IF dquery[d].expectedUID # 0 THEN "reget" ELSE "check")
    /\ UNCHANGED dpod

\* Events are listed by UID and filtered by UID again, whatever the list holds.
ReadEvents(d) ==
    /\ dpc[d] = "read"
    /\ dquery[d].operation = "events"
    /\ \E answered \in SUBSET UIDs :
           dseen' = [dseen EXCEPT ![d] = {uid \in answered : uid = dpod[d]}]
    /\ Proceed(d, "check")
    /\ UNCHANGED dpod

\* With an expectedUID the Pod is looked up again after its logs were read.
GetPodAgain(d) ==
    /\ dpc[d] = "reget"
    /\ PodOf(d) # 0
    /\ IF PodOf(d) = dquery[d].expectedUID
       THEN Proceed(d, "check") /\ UNCHANGED <<dpod, dseen>>
       ELSE CallFails(d, "pod_changed")

DiagPanic(d) ==
    /\ dpc[d] \in Working
    /\ ReturnEarly(d, "internal_error")

-----------------------------------------------------------------------------

\* Mutant: only the context is compared, which a change of namespace leaves alone.
DiagCheckContext(d) ==
    /\ dpc[d] = "check"
    /\ IF scope.context # dbound[d].context
       THEN ReturnEarly(d, DiagMapError("ErrStaleScope"))
       ELSE Proceed(d, "final") /\ UNCHANGED <<dpod, dseen>>

DiagCheckGeneration(d) ==
    /\ dpc[d] = "check"
    /\ IF scope.generation # dbound[d].generation
       THEN ReturnEarly(d, DiagMapError("ErrStaleScope"))
       ELSE Proceed(d, "final") /\ UNCHANGED <<dpod, dseen>>

\* ctx.Err first, then the kept error, then the size of the result.
DiagFinalCheck(d) ==
    /\ dpc[d] = "final"
    /\ \/ dctxErr[d] # "none" /\ ReturnEarly(d, DiagMapError(dctxErr[d]))
       \/ dctxErr[d] = "none" /\ derr[d] # "none" /\ ReturnEarly(d, derr[d])
       \/ /\ dctxErr[d] = "none"
          /\ derr[d] = "none"
          /\ \E code \in {"ok", "too_large"} : ReturnEarly(d, code)

DiagRelease(d) ==
    /\ dpc[d] = "release"
    /\ dslots' = dslots - 1
    /\ To(d, "record")
    /\ UNCHANGED <<localVars, dctxErr, dseen, derr>>
    /\ UNCHANGED <<sessionVars, logVars, clusterVars>>

\* The deferred recorder: an error discards the result.
DiagRecord(d) ==
    /\ dpc[d] = "record"
    /\ record(Capability[dquery[d].operation], dbound[d], derr[d])
    /\ dseen' = [dseen EXCEPT ![d] = IF derr[d] = "ok" THEN @ ELSE {}]
    /\ To(d, "done")
    /\ UNCHANGED <<localVars, dctxErr, derr, dslots>>
    /\ UNCHANGED <<sessionVars, clusterVars>>

-----------------------------------------------------------------------------

DiagReceive(d) ==
    \E q \in DiagQueries, generation \in Generations :
        DiagRefuse(d, q, generation) \/ DiagBind(d, q, generation)

DiagHandlerStep(d) ==
    \/ TrySlot(d)
    \/ ClientReady(d)
    \/ CallAborts(d)
    \/ DiagCheckGeneration(d)
    \/ DiagFinalCheck(d)
    \/ DiagRelease(d)
    \/ DiagRecord(d)

DiagEnvironment(d) ==
    \/ DiagDisconnect(d)
    \/ \E code \in PodErrors : CallFails(d, code)
    \/ PodIsGone(d)
    \/ ContainerUnknown(d)
    \/ GetPod(d)
    \/ GetPodMalformed(d)
    \/ ReadLogs(d)
    \/ ReadEvents(d)
    \/ GetPodAgain(d)
    \/ DiagPanic(d)

DiagRequestNext(d) ==
    \/ DiagReceive(d)
    \/ DiagWatcherCancels(d)
    \/ DiagDeadlineExpires(d)
    \/ DiagHandlerStep(d)
    \/ DiagEnvironment(d)

ClusterNext == \E c \in Contexts : CreatePod(c) \/ DeletePod(c)

\* A namespace list of the resource service, seen from here.
Discover ==
    /\ scope.context # NoName
    /\ AllowNamespaces(scope.generation, NamespacesOf[scope.context])

diagSystemVars == <<sessionVars, logVars, diagVars, clusterVars>>

DiagSystemInit == SessionInit /\ LogInit /\ DiagInit

DiagSystemNext ==
    \/ (OperatorNext \/ Discover) /\ UNCHANGED <<logVars, diagVars, clusterVars>>
    \/ ClusterNext
    \/ \E d \in Diagnoses : DiagRequestNext(d)

DiagSpec == DiagSystemInit /\ [][DiagSystemNext]_diagSystemVars

DiagFairSpec ==
    /\ DiagSpec
    /\ \A d \in Diagnoses : /\ WF_diagSystemVars(DiagHandlerStep(d))
                            /\ WF_diagSystemVars(DiagDeadlineExpires(d))

-----------------------------------------------------------------------------

(***************************************************************************)
(* Properties.                                                             *)
(***************************************************************************)

DiagSystemTypeOK ==
    /\ SessionTypeOK
    /\ sequence \in Nat
    /\ activity \in Seq(Entries(Scopes, DiagCodes \cup {"ok"}))
    /\ DiagTypeOK

\* One token per handler between acquiring and the deferred release, on every
\* path, panics and early returns included, and never more than the channel
\* holds; beside it every variable keeps its type.
DiagSlotsHeldByHandlers ==
    /\ DiagSystemTypeOK
    /\ dslots = Cardinality({d \in Diagnoses : dpc[d] \in DiagHolding})

DiagBound(d) == dbound[d] # NoScope

\* Every bound diagnosis, a panicking, busy or namespace-less one too, leaves
\* exactly one entry, and one that panicked is never recorded as "ok".
EveryDiagnosisRecordedOnce ==
    /\ sequence = Cardinality({d \in Diagnoses : DiagBound(d) /\ dpc[d] = "done"})
    /\ \A i \in 1 .. Len(activity) :
           \E d \in Diagnoses : /\ DiagBound(d) /\ dpc[d] = "done"
                                /\ activity[i].scope = dbound[d]
                                /\ activity[i].outcome = derr[d]

\* With an expectedUID a successful answer holds only text or Events of that
\* Pod, although logs are addressed by name and the Pod may have been
\* recreated between any two calls: the second Get closes the gap, because
\* a UID is never used again.  A failed answer holds nothing.
ResultIsOfExpectedPod ==
    \A d \in Diagnoses :
        /\ derr[d] = "ok" /\ dquery[d].expectedUID # 0
               => dseen[d] \subseteq {dquery[d].expectedUID}
        /\ dpc[d] = "done" /\ derr[d] # "ok" => dseen[d] = {}

\* A diagnosis answers under the scope it was bound to or not at all: once that
\* scope is superseded before the generation is compared, it never succeeds.
\* A consequence of DiagImplementsScopedReads, proved of DiagSpec.
SupersededDiagnosisNeverSucceeds ==
    \A d \in Diagnoses :
        [](dpc[d] \in {"slot"} \cup (Working \ {"final"})
               /\ dbound[d].generation # scope.generation
           => [](derr[d] # "ok"))

\* A bound diagnosis is answered and recorded: nothing waits for a slot, and
\* the timeout ends every upstream call.
DiagnosesEnd ==
    \A d \in Diagnoses : DiagBound(d) ~> dpc[d] = "done"

-----------------------------------------------------------------------------

(***************************************************************************)
(* The service implements ScopedReads too.  A diagnosis is confirmed when  *)
(* it passes the generation comparison, whatever its kept error, and       *)
(* succeeds when "ok" is decided.  One that is bound without a namespace   *)
(* is refused and recorded, and takes no scope.                            *)
(***************************************************************************)
DiagStatus ==
    [d \in Diagnoses |->
        CASE dpc[d] = "new" -> "idle"
          [] dpc[d] \in {"slot"} \cup (Working \ {"final"}) -> "reading"
          [] dpc[d] = "final" -> "confirmed"
          [] OTHER -> IF derr[d] = "ok" THEN "ok" ELSE "failed"]

DiagTaken ==
    [d \in Diagnoses |-> IF dbound[d].namespace = NoName THEN NoScope ELSE dbound[d]]

DiagPromise == INSTANCE ScopedReads WITH
    Reads <- Diagnoses, current <- scope, open <- ~closed,
    status <- DiagStatus, taken <- DiagTaken

\* Every behaviour of the diagnostic service is one ScopedReads allows: a diagnosis
\* succeeds only if the whole scope it was bound to, with its namespace, was in
\* force at one moment after its reads, although it keeps an upstream error past
\* the comparison, may panic there, and leaves through a deferred recorder.
DiagImplementsScopedReads == DiagPromise!ReadsSpec

=============================================================================
