--------------------------- MODULE DiagnosticsProofs ---------------------------
(***************************************************************************)
(* Proofs about the Pod diagnostics at both ends: the service, for every   *)
(* set of requests, contexts and Pods and every bound, and the panel in    *)
(* the browser, for every number of runs and mounts.  The two share no     *)
(* state here: an answer of the service may reach the panel at any time    *)
(* or never.                                                               *)
(***************************************************************************)
EXTENDS DiagnosticService, DiagnosticsPanel, ConsoleLemmas

BeforeReads == {"new", "slot", "client", "get", "read"}

\* What a request may hold at each point of Execute.  err stays nil until a call
\* fails or an early return sets it.
ErrorsOf(d) ==
    /\ dpc[d] \in BeforeReads \cup {"reget"} => derr[d] = "none"
    /\ dpc[d] \in {"check", "final"} => derr[d] # "ok"
    /\ dpc[d] \in {"release", "record", "done"} => derr[d] # "none"

\* A request that got past the first checks is bound to a scope of its time.
BindingOf(d) ==
    /\ dpc[d] = "new" => dbound[d] = NoScope
    /\ dpc[d] \in DiagHolding \cup {"slot", "record"} =>
           DiagBound(d) /\ dquery[d] \in DiagQueries /\ valid(dquery[d])
    /\ DiagBound(d) => /\ dbound[d].context \in Contexts
                       /\ dbound[d].generation <= scope.generation

\* What the result may hold.  From the first Get on, an expectedUID is the UID of a
\* Pod that did exist; logs of another Pod were read only after it had gone, and it
\* does not come back.
ResultOf(d) ==
    LET expected == dquery[d].expectedUID
    IN  /\ dpc[d] \in BeforeReads => dseen[d] = {}
        /\ dpod[d] <= lastUID
        /\ dpc[d] \in {"read", "reget"} /\ expected # 0 => dpod[d] = expected
        /\ dpc[d] = "reget" =>
               /\ expected # 0
               /\ dseen[d] \subseteq {expected} \/ PodOf(d) # expected
        /\ \/ dpc[d] \in {"check", "final"} /\ derr[d] = "none"
           \/ derr[d] = "ok"
           => (expected # 0 => dseen[d] \subseteq {expected})
        /\ dpc[d] = "done" /\ derr[d] # "ok" => dseen[d] = {}

RequestInv == \A d \in Diagnoses : ErrorsOf(d) /\ BindingOf(d) /\ ResultOf(d)

\* UIDs are given out in order.
PodsInv == \A c \in Contexts : pod[c] <= lastUID

LogTyping == sequence \in Nat /\ activity \in Seq(Entries(Scopes, DiagCodes \cup {"ok"}))

Holders == {d \in Diagnoses : dpc[d] \in DiagHolding}

SlotsCounted == dslots = Cardinality(Holders)

\* The requests that have been recorded.
Finished == {d \in Diagnoses : DiagBound(d) /\ dpc[d] = "done"}

\* The inductive invariant.
DiagInv ==
    /\ SessionTypeOK /\ SessionInv /\ LogTyping /\ DiagTypeOK
    /\ RequestInv
    /\ PodsInv
    /\ SlotsCounted
    /\ EveryDiagnosisRecordedOnce

-----------------------------------------------------------------------------

\* mapError gives each of the service's own errors a code.
LEMMA DiagMapErrorInCodes ==
    \A err \in {"ErrStaleScope", "Canceled", "DeadlineExceeded"} :
        DiagMapError(err) \in DiagCodes
BY DEF DiagMapError, DiagCodes

\* The requests that hold a slot and those that were recorded can be counted.
LEMMA RequestSetsFinite == IsFiniteSet(Holders) /\ IsFiniteSet(Finished)
BY DiagnosesAssumption, FS_Subset DEF Holders, Finished

\* Nothing has been received.
LEMMA DiagInitial == DiagSystemInit => DiagInv
<1> SUFFICES ASSUME DiagSystemInit PROVE DiagInv
  OBVIOUS
<1> USE DEF DiagSystemInit, LogInit, DiagInit
<1>1. SessionTypeOK /\ SessionInv
  BY SessionInitial
<1>2. NoScope \in Scopes
  BY DEF NoScope, Scopes
<1>3. DiagTypeOK
  BY <1>2, DiagMaxConcurrentAssumption DEF DiagTypeOK, Working, DiagHolding
<1>4. RequestInv
  <2> SUFFICES ASSUME NEW d \in Diagnoses PROVE ErrorsOf(d) /\ BindingOf(d) /\ ResultOf(d)
    BY DEF RequestInv
  <2>1. /\ dpc[d] = "new" /\ derr[d] = "none" /\ dseen[d] = {} /\ dbound[d] = NoScope
        /\ dpod[d] = 0
    OBVIOUS
  <2>2. ErrorsOf(d) /\ BindingOf(d)
    BY <2>1 DEF ErrorsOf, BindingOf, DiagBound, DiagHolding, Working
  <2>3. ResultOf(d)
    BY <2>1 DEF ResultOf
  <2> QED  BY <2>2, <2>3
<1>5. PodsInv
  <2>1. lastUID = 0 /\ \A c \in Contexts : pod[c] = 0
    OBVIOUS
  <2>2. 0 <= 0
    OBVIOUS
  <2> QED  BY <2>1, <2>2, Zenon DEF PodsInv
<1>6. Holders = {} /\ Finished = {}
  BY DEF Holders, Finished, DiagHolding, Working
<1>7. SlotsCounted
  BY <1>6, FS_EmptySet DEF SlotsCounted
<1>8. EveryDiagnosisRecordedOnce
  <2>1. sequence = Cardinality(Finished)
    BY <1>6, FS_EmptySet
  <2>2. Len(activity) = 0
    OBVIOUS
  <2> QED  BY <2>1, <2>2 DEF EveryDiagnosisRecordedOnce, Finished
<1>9. LogTyping
  BY DEF LogTyping
<1> QED  BY <1>1, <1>3, <1>4, <1>5, <1>7, <1>8, <1>9 DEF DiagInv

-----------------------------------------------------------------------------

\* A step of d leaves the other requests, the session and the cluster alone.
Alone(d) ==
    /\ \A e \in Diagnoses \ {d} :
           /\ dpc'[e] = dpc[e] /\ dquery'[e] = dquery[e] /\ dbound'[e] = dbound[e]
           /\ dpod'[e] = dpod[e] /\ dseen'[e] = dseen[e] /\ derr'[e] = derr[e]
    /\ UNCHANGED sessionVars
    /\ UNCHANGED <<scope, pod, lastUID>>

\* Each step of a request is its own.
LEMMA StepAlone ==
    ASSUME DiagTypeOK, NEW d \in Diagnoses, DiagRequestNext(d)
    PROVE  Alone(d)
<1> USE DEF DiagTypeOK, Alone, localVars, clusterVars, sessionVars
<1>a. ASSUME NEW code, CallFails(d, code) PROVE Alone(d)
  BY <1>a DEF CallFails, To, Err
<1>b. ASSUME NEW code, ReturnEarly(d, code) PROVE Alone(d)
  BY <1>b DEF ReturnEarly, To, Err
<1>1. CASE DiagReceive(d)
  BY <1>1 DEF DiagReceive, DiagRefuse, DiagBind, To, Err
<1>2. CASE DiagWatcherCancels(d) \/ DiagDeadlineExpires(d) \/ DiagDisconnect(d)
  BY <1>2 DEF DiagWatcherCancels, DiagDeadlineExpires, DiagDisconnect, DiagEndContext
<1>3. CASE TrySlot(d) \/ ClientReady(d) \/ DiagRelease(d) \/ DiagRecord(d)
  BY <1>3 DEF TrySlot, ClientReady, DiagRelease, DiagRecord, Proceed, To, Err
<1>4. CASE CallAborts(d) \/ PodIsGone(d) \/ ContainerUnknown(d)
           \/ \E code \in PodErrors : CallFails(d, code)
  BY <1>a, <1>4 DEF CallAborts, PodIsGone, ContainerUnknown
<1>5. CASE GetPodMalformed(d) \/ DiagPanic(d) \/ DiagFinalCheck(d)
  BY <1>b, <1>5 DEF GetPodMalformed, DiagPanic, DiagFinalCheck
<1>6. CASE GetPod(d)
  BY <1>b, <1>6 DEF GetPod, Proceed, To
<1>7. CASE ReadLogs(d)
  BY <1>7 DEF ReadLogs, Proceed, To
<1>8. CASE ReadEvents(d)
  BY <1>8 DEF ReadEvents, Proceed, To
<1>9. CASE GetPodAgain(d)
  BY <1>a, <1>9 DEF GetPodAgain, Proceed, To
<1>10. CASE DiagCheckGeneration(d)
  BY <1>b, <1>10 DEF DiagCheckGeneration, Proceed, To
<1> QED
  BY <1>1, <1>2, <1>3, <1>4, <1>5, <1>6, <1>7, <1>8, <1>9, <1>10
     DEF DiagRequestNext, DiagHandlerStep, DiagEnvironment

\* What remains to be shown of a step of d is d's own part.
LEMMA OwnPartSuffices ==
    ASSUME DiagInv, NEW d \in Diagnoses, Alone(d),
           ErrorsOf(d)', BindingOf(d)', ResultOf(d)'
    PROVE  SessionTypeOK' /\ SessionInv' /\ RequestInv' /\ PodsInv'
<1>1. SessionTypeOK' /\ SessionInv'
  BY SessionRests DEF DiagInv, Alone
<1>2. PodsInv'
  BY DEF DiagInv, PodsInv, Alone
<1>3. ASSUME NEW e \in Diagnoses \ {d} PROVE ErrorsOf(e)' /\ BindingOf(e)' /\ ResultOf(e)'
  <2>1. ErrorsOf(e) /\ BindingOf(e) /\ ResultOf(e)
    BY DEF DiagInv, RequestInv
  <2>2. /\ dpc'[e] = dpc[e] /\ dquery'[e] = dquery[e] /\ dbound'[e] = dbound[e]
        /\ dpod'[e] = dpod[e] /\ dseen'[e] = dseen[e] /\ derr'[e] = derr[e]
        /\ UNCHANGED <<scope, pod, lastUID>>
    BY DEF Alone
  <2> QED
    BY <2>1, <2>2 DEF ErrorsOf, BindingOf, ResultOf, DiagBound, PodOf
<1>4. RequestInv'
  BY <1>3 DEF RequestInv
<1> QED  BY <1>1, <1>2, <1>4

\* A step that records nothing and ends no recorded request keeps the log.
LEMMA LogKept ==
    ASSUME DiagInv, NEW d \in Diagnoses, Alone(d), UNCHANGED logVars,
           dpc[d] # "done", dpc'[d] = "done" => ~DiagBound(d)'
    PROVE  LogTyping' /\ EveryDiagnosisRecordedOnce'
<1>1. Finished' = Finished
  BY DEF Finished, DiagBound, Alone
<1>2. \A e \in Finished : dbound'[e] = dbound[e] /\ derr'[e] = derr[e]
  BY DEF Finished, Alone
<1>3. UNCHANGED <<sequence, activity>>
  BY DEF logVars
<1>4. EveryDiagnosisRecordedOnce'
  <2>1. /\ sequence = Cardinality(Finished)
        /\ \A i \in 1 .. Len(activity) :
               \E e \in Finished : activity[i].scope = dbound[e] /\ activity[i].outcome = derr[e]
    BY DEF DiagInv, EveryDiagnosisRecordedOnce, Finished
  <2>2. /\ sequence' = Cardinality(Finished')
        /\ \A i \in 1 .. Len(activity') :
               \E e \in Finished' : activity'[i].scope = dbound'[e] /\ activity'[i].outcome = derr'[e]
    BY <1>1, <1>2, <1>3, <2>1
  <2> QED  BY <2>2 DEF EveryDiagnosisRecordedOnce, Finished
<1> QED  BY <1>3, <1>4 DEF DiagInv, LogTyping

\* A step that takes and returns no slot.
LEMMA SlotsKept ==
    ASSUME DiagInv, NEW d \in Diagnoses, Alone(d), UNCHANGED dslots,
           dpc'[d] \in DiagHolding <=> dpc[d] \in DiagHolding
    PROVE  SlotsCounted'
<1>1. Holders' = Holders
  BY DEF Holders, Alone
<1> QED  BY <1>1 DEF DiagInv, SlotsCounted

\* The steps that only move a request on.
LEMMA QuietStepKeepsInv ==
    ASSUME DiagInv, NEW d \in Diagnoses, Alone(d), UNCHANGED logVars, UNCHANGED dslots,
           dpc[d] # "done", dpc'[d] = "done" => ~DiagBound(d)',
           dpc'[d] \in DiagHolding <=> dpc[d] \in DiagHolding,
           DiagTypeOK', ErrorsOf(d)', BindingOf(d)', ResultOf(d)'
    PROVE  DiagInv'
BY OwnPartSuffices, LogKept, SlotsKept DEF DiagInv

-----------------------------------------------------------------------------

\* An early return keeps its error, and succeeds only from the last check.
LEMMA ReturnEarlyKeepsInv ==
    ASSUME DiagInv, NEW d \in Diagnoses, Alone(d), NEW code \in DiagCodes \cup {"ok"},
           dpc[d] \in Working, ReturnEarly(d, code),
           code = "ok" => dpc[d] = "final" /\ derr[d] = "none"
    PROVE  DiagInv'
<1> USE DEF Working, DiagHolding, BeforeReads, valid
<1>1. DiagTypeOK /\ ErrorsOf(d) /\ BindingOf(d) /\ ResultOf(d)
  BY DEF DiagInv, RequestInv
<1>2. /\ dpc' = [dpc EXCEPT ![d] = "release"] /\ derr' = [derr EXCEPT ![d] = code]
      /\ UNCHANGED <<dquery, dbound, dbindCtx, dpod, dctxErr, dseen, dslots, pod, lastUID, scope>>
      /\ UNCHANGED logVars /\ UNCHANGED dslots
  BY DEF ReturnEarly, To, Err, localVars, clusterVars, sessionVars
<1>3. dpc'[d] = "release" /\ derr'[d] = code
  BY <1>1, <1>2 DEF DiagTypeOK
<1>4. code # "none"
  BY DEF DiagCodes
<1>5. DiagTypeOK'
  BY <1>1, <1>2 DEF DiagTypeOK
<1>6. ErrorsOf(d)' /\ BindingOf(d)'
  BY <1>1, <1>2, <1>3, <1>4 DEF ErrorsOf, BindingOf, DiagBound
<1>7. ResultOf(d)'
  BY <1>1, <1>2, <1>3 DEF ResultOf, PodOf
<1> QED  BY <1>2, <1>3, <1>5, <1>6, <1>7, QuietStepKeepsInv

\* A call that fails keeps its error for the checks.
LEMMA CallFailsKeepsInv ==
    ASSUME DiagInv, NEW d \in Diagnoses, Alone(d), NEW code \in DiagCodes, CallFails(d, code)
    PROVE  DiagInv'
<1> USE DEF Working, DiagHolding, BeforeReads, valid
<1>1. DiagTypeOK /\ ErrorsOf(d) /\ BindingOf(d) /\ ResultOf(d)
  BY DEF DiagInv, RequestInv
<1>2. /\ dpc' = [dpc EXCEPT ![d] = "check"] /\ derr' = [derr EXCEPT ![d] = code]
      /\ UNCHANGED <<dquery, dbound, dbindCtx, dpod, dctxErr, dseen, dslots, pod, lastUID, scope>>
      /\ UNCHANGED logVars /\ UNCHANGED dslots
      /\ dpc[d] \in {"client", "get", "read", "reget"}
  BY DEF CallFails, To, Err, localVars, clusterVars, sessionVars
<1>3. dpc'[d] = "check" /\ derr'[d] = code
  BY <1>1, <1>2 DEF DiagTypeOK
<1>4. code # "none" /\ code # "ok"
  BY DEF DiagCodes
<1>5. DiagTypeOK'
  BY <1>1, <1>2 DEF DiagTypeOK
<1>6. ErrorsOf(d)' /\ BindingOf(d)'
  BY <1>1, <1>2, <1>3, <1>4 DEF ErrorsOf, BindingOf, DiagBound
<1>7. ResultOf(d)'
  BY <1>1, <1>2, <1>3, <1>4 DEF ResultOf, PodOf
<1> QED  BY <1>2, <1>3, <1>5, <1>6, <1>7, QuietStepKeepsInv

\* A request arrives: it is refused unbound, or bound to the scope in force.
LEMMA ReceiveKeepsInv ==
    ASSUME DiagInv, NEW d \in Diagnoses, Alone(d), DiagReceive(d)
    PROVE  DiagInv'
<1> USE DEF Working, DiagHolding, BeforeReads, valid
<1>1. /\ DiagTypeOK /\ ErrorsOf(d) /\ BindingOf(d) /\ ResultOf(d)
      /\ SessionTypeOK /\ SessionInv
  BY DEF DiagInv, RequestInv
<1>2. /\ UNCHANGED <<dpod, dctxErr, dseen, dslots, pod, lastUID, scope>>
      /\ UNCHANGED logVars /\ UNCHANGED dslots /\ dpc[d] = "new"
  BY DEF DiagReceive, DiagRefuse, DiagBind, localVars, clusterVars, sessionVars
<1>3. /\ derr[d] = "none" /\ dseen[d] = {} /\ dbound[d] = NoScope
  BY <1>1, <1>2 DEF ErrorsOf, BindingOf, ResultOf
<1>4. ASSUME NEW q \in DiagQueries, NEW g, DiagRefuse(d, q, g) PROVE DiagInv'
  <2>1. PICK code \in {"invalid_request", "stale_scope"} : derr' = [derr EXCEPT ![d] = code]
    BY <1>4 DEF DiagRefuse, Err
  <2>2. dpc' = [dpc EXCEPT ![d] = "done"] /\ UNCHANGED <<dquery, dbound, dbindCtx>>
    BY <1>4 DEF DiagRefuse, To, localVars
  <2>3. dpc'[d] = "done" /\ derr'[d] = code /\ code \in DiagCodes
    BY <1>1, <2>1, <2>2 DEF DiagTypeOK, DiagCodes
  <2>4. DiagTypeOK'
    BY <1>1, <1>2, <2>1, <2>2, <2>3 DEF DiagTypeOK
  <2>5. ErrorsOf(d)' /\ BindingOf(d)'
    BY <1>1, <1>2, <1>3, <2>2, <2>3 DEF ErrorsOf, BindingOf, DiagBound
  <2>6. ResultOf(d)'
    BY <1>1, <1>2, <1>3, <2>2, <2>3 DEF ResultOf, PodOf
  <2>7. ~DiagBound(d)'
    BY <1>3, <2>2 DEF DiagBound
  <2> QED  BY <1>2, <2>3, <2>4, <2>5, <2>6, <2>7, QuietStepKeepsInv
<1>5. ASSUME NEW q \in DiagQueries, NEW g, DiagBind(d, q, g) PROVE DiagInv'
  <2>1. /\ dquery' = [dquery EXCEPT ![d] = q] /\ dbound' = [dbound EXCEPT ![d] = scope]
        /\ dbindCtx' = [dbindCtx EXCEPT ![d] = scopeContext] /\ valid(q)
        /\ scope.context # NoName
    BY <1>5 DEF DiagBind, MayBind
  <2>2. \/ /\ derr' = [derr EXCEPT ![d] = "namespace_required"]
           /\ dpc' = [dpc EXCEPT ![d] = "record"]
        \/ /\ UNCHANGED derr
           /\ dpc' = [dpc EXCEPT ![d] = "slot"]
    BY <1>5 DEF DiagBind, To, Err
  <2>3. /\ dquery'[d] = q /\ dbound'[d] = scope
        /\ \/ derr'[d] = "namespace_required" /\ dpc'[d] = "record"
           \/ derr'[d] = "none" /\ dpc'[d] = "slot"
    BY <1>1, <1>3, <2>1, <2>2 DEF DiagTypeOK
  <2>4. scope \in Scopes /\ scopeContext \in Nat /\ "namespace_required" \in DiagCodes
        /\ scope.context \in Contexts /\ scope.generation \in Nat /\ scope # NoScope
    BY <1>1, <2>1 DEF SessionTypeOK, Scopes, DiagCodes, NoScope
  <2>5. DiagTypeOK'
    BY <1>1, <1>2, <2>1, <2>2, <2>4 DEF DiagTypeOK
  <2>6. ErrorsOf(d)'
    BY <2>3 DEF ErrorsOf
  <2>7. BindingOf(d)'
    BY <1>2, <2>1, <2>3, <2>4 DEF BindingOf, DiagBound
  <2>8. ResultOf(d)'
    BY <1>1, <1>2, <1>3, <2>3 DEF ResultOf, PodOf
  <2> QED  BY <1>2, <2>3, <2>5, <2>6, <2>7, <2>8, QuietStepKeepsInv
<1> QED  BY <1>4, <1>5 DEF DiagReceive

\* The end of a request context, for whatever reason.
LEMMA ContextEndKeepsInv ==
    ASSUME DiagInv, NEW d \in Diagnoses, Alone(d),
           NEW err \in {"Canceled", "DeadlineExceeded"}, DiagEndContext(d, err)
    PROVE  DiagInv'
<1> USE DEF valid
<1>1. DiagTypeOK /\ ErrorsOf(d) /\ BindingOf(d) /\ ResultOf(d)
  BY DEF DiagInv, RequestInv
<1>2. /\ UNCHANGED <<dpc, derr, dquery, dbound, dbindCtx, dpod, dseen, dslots, pod, lastUID, scope>>
      /\ UNCHANGED logVars /\ UNCHANGED dslots
      /\ dctxErr' = [dctxErr EXCEPT ![d] = err] /\ dpc[d] # "done" /\ dpc'[d] = dpc[d]
  BY DEF DiagEndContext, localVars, clusterVars, sessionVars, Working
<1>3. DiagTypeOK'
  BY <1>1, <1>2 DEF DiagTypeOK
<1>4. ErrorsOf(d)' /\ BindingOf(d)'
  BY <1>1, <1>2 DEF ErrorsOf, BindingOf, DiagBound
<1>5. ResultOf(d)'
  BY <1>1, <1>2 DEF ResultOf, PodOf
<1> QED  BY <1>2, <1>3, <1>4, <1>5, QuietStepKeepsInv

\* The upstream work while err is nil.
LEMMA UpstreamKeepsInv ==
    ASSUME DiagInv, NEW d \in Diagnoses, Alone(d),
           \/ ClientReady(d)
           \/ GetPod(d) /\ dquery[d].expectedUID \in {0, PodOf(d)}
           \/ ReadLogs(d)
           \/ ReadEvents(d)
           \/ GetPodAgain(d) /\ PodOf(d) = dquery[d].expectedUID
           \/ DiagCheckGeneration(d) /\ scope.generation = dbound[d].generation
    PROVE  DiagInv'
<1> USE DEF Working, DiagHolding, BeforeReads, valid
<1>1. /\ DiagTypeOK /\ ErrorsOf(d) /\ BindingOf(d) /\ ResultOf(d) /\ PodsInv
  BY DEF DiagInv, RequestInv
<1>2. /\ UNCHANGED <<derr, dctxErr, dslots, dquery, dbound, dbindCtx, pod, lastUID, scope>>
      /\ UNCHANGED logVars /\ UNCHANGED dslots
      /\ dpc[d] \in Working /\ dpc[d] # "final"
  BY DEF ClientReady, GetPod, ReadLogs, ReadEvents, GetPodAgain, DiagCheckGeneration,
         Proceed, localVars, clusterVars, sessionVars
<1>3. PICK label \in Working :
          /\ dpc' = [dpc EXCEPT ![d] = label]
          /\ label # "client"
          /\ \/ label = "get" /\ dpc[d] = "client"
             \/ label = "read" /\ dpc[d] = "get"
             \/ label = "reget" /\ dpc[d] = "read"
             \/ label \in {"check", "final"}
  BY DEF ClientReady, GetPod, ReadLogs, ReadEvents, GetPodAgain, DiagCheckGeneration, Proceed, To
<1>4. dpc'[d] = label /\ dbound[d].context \in Contexts /\ DiagBound(d)
      /\ derr'[d] = derr[d] /\ PodOf(d) <= lastUID /\ PodOf(d) \in {0} \cup UIDs
  BY <1>1, <1>2, <1>3 DEF DiagTypeOK, BindingOf, PodOf, PodsInv
<1>5. ErrorsOf(d)' /\ BindingOf(d)'
  BY <1>1, <1>2, <1>3, <1>4 DEF ErrorsOf, BindingOf, DiagBound
<1>6. CASE \/ ClientReady(d)
           \/ GetPodAgain(d) /\ PodOf(d) = dquery[d].expectedUID
           \/ DiagCheckGeneration(d) /\ scope.generation = dbound[d].generation
  <2>1. UNCHANGED <<dpod, dseen>> /\ dpc[d] \in {"client", "reget", "check"}
    BY <1>6 DEF ClientReady, GetPodAgain, DiagCheckGeneration
  <2>2. DiagTypeOK'
    BY <1>1, <1>2, <1>3, <2>1 DEF DiagTypeOK
  <2>3. dpc[d] = "client" => label = "get"
    BY <1>3, <1>4, <1>6 DEF ClientReady, GetPodAgain, DiagCheckGeneration, Proceed, To, DiagTypeOK
  <2>4. dpc[d] = "reget" => PodOf(d) = dquery[d].expectedUID /\ label = "check"
    BY <1>1, <1>4, <1>6 DEF ClientReady, GetPodAgain, DiagCheckGeneration, Proceed, To, DiagTypeOK
  <2>5. dpc[d] = "check" => label = "final"
    BY <1>1, <1>4, <1>6 DEF ClientReady, GetPodAgain, DiagCheckGeneration, Proceed, To, DiagTypeOK
  <2>6. ResultOf(d)'
    BY <1>1, <1>2, <1>4, <2>1, <2>3, <2>4, <2>5 DEF ResultOf, ErrorsOf, PodOf
  <2> QED  BY <1>2, <1>4, <1>5, <2>2, <2>6, QuietStepKeepsInv
<1>7. CASE GetPod(d) /\ dquery[d].expectedUID \in {0, PodOf(d)}
  <2>1. /\ dpod' = [dpod EXCEPT ![d] = PodOf(d)] /\ UNCHANGED dseen
        /\ dpc[d] = "get" /\ dpc' = [dpc EXCEPT ![d] = "read"]
    BY <1>7 DEF GetPod, Proceed, To
  <2>2. dpod'[d] = PodOf(d) /\ dpc'[d] = "read"
    BY <1>1, <2>1 DEF DiagTypeOK
  <2>3. DiagTypeOK'
    BY <1>1, <1>2, <1>4, <2>1 DEF DiagTypeOK
  <2>4. ResultOf(d)'
    BY <1>1, <1>2, <1>4, <1>7, <2>1, <2>2 DEF ResultOf, ErrorsOf, PodOf
  <2> QED  BY <1>2, <1>4, <1>5, <2>3, <2>4, QuietStepKeepsInv
<1>8. CASE ReadLogs(d)
  <2>1. /\ dseen' = [dseen EXCEPT ![d] = {PodOf(d)}] /\ UNCHANGED dpod /\ PodOf(d) # 0
        /\ dpc[d] = "read"
        /\ dpc' = [dpc EXCEPT ![d] = IF dquery[d].expectedUID # 0 THEN "reget" ELSE "check"]
    BY <1>8 DEF ReadLogs, Proceed, To
  <2>2. /\ dseen'[d] = {PodOf(d)}
        /\ dpc'[d] = IF dquery[d].expectedUID # 0 THEN "reget" ELSE "check"
    BY <1>1, <2>1 DEF DiagTypeOK
  <2>3. dseen' \in [Diagnoses -> SUBSET UIDs]
    BY <1>1, <1>4, <2>1 DEF DiagTypeOK
  <2>4. DiagTypeOK'
    BY <1>1, <1>2, <1>3, <2>1, <2>3 DEF DiagTypeOK
  <2>5. PodOf(d)' = PodOf(d)
    BY <1>2 DEF PodOf
  <2>6. ResultOf(d)'
    BY <1>1, <1>2, <2>1, <2>2, <2>5 DEF ResultOf, ErrorsOf, PodOf
  <2> QED  BY <1>2, <1>4, <1>5, <2>4, <2>6, QuietStepKeepsInv
<1>9. CASE ReadEvents(d)
  <2>1. PICK answered \in SUBSET UIDs :
            dseen' = [dseen EXCEPT ![d] = {uid \in answered : uid = dpod[d]}]
    BY <1>9 DEF ReadEvents
  <2>2. /\ UNCHANGED dpod /\ dpc[d] = "read" /\ dpc' = [dpc EXCEPT ![d] = "check"]
    BY <1>9 DEF ReadEvents, Proceed, To
  <2>3. /\ dseen'[d] \subseteq {dpod[d]} /\ dpc'[d] = "check"
        /\ dseen' \in [Diagnoses -> SUBSET UIDs]
    BY <1>1, <2>1, <2>2 DEF DiagTypeOK
  <2>4. DiagTypeOK'
    BY <1>1, <1>2, <2>2, <2>3 DEF DiagTypeOK
  <2>5. ResultOf(d)'
    BY <1>1, <1>2, <2>2, <2>3 DEF ResultOf, ErrorsOf, PodOf
  <2> QED  BY <1>2, <1>4, <1>5, <2>4, <2>5, QuietStepKeepsInv
<1> QED  BY <1>6, <1>7, <1>8, <1>9

\* The slot channel: a request takes a token, or is busy and takes none.
LEMMA TrySlotKeepsInv ==
    ASSUME DiagInv, NEW d \in Diagnoses, Alone(d), TrySlot(d)
    PROVE  DiagInv'
<1> USE DEF Working, DiagHolding, BeforeReads, valid
<1>1. DiagTypeOK /\ ErrorsOf(d) /\ BindingOf(d) /\ ResultOf(d) /\ SlotsCounted
  BY DEF DiagInv, RequestInv
<1>2. /\ UNCHANGED <<dquery, dbound, dbindCtx, dpod, dctxErr, dseen, pod, lastUID, scope>>
      /\ UNCHANGED logVars /\ dpc[d] = "slot"
  BY DEF TrySlot, localVars, clusterVars, sessionVars
<1>3. derr[d] = "none" /\ dseen[d] = {}
  BY <1>1, <1>2 DEF ErrorsOf, ResultOf
<1>4. CASE dslots < DiagMaxConcurrent
  <2>1. PICK label \in {"check", "client"} :
            /\ dpc' = [dpc EXCEPT ![d] = label]
            /\ dslots' = dslots + 1
            /\ UNCHANGED derr \/ (label = "check" /\ derr' = [derr EXCEPT ![d] = "invalid_request"])
    BY <1>4 DEF TrySlot, To, Err
  <2>2. /\ dpc'[d] = label
        /\ derr'[d] = "none" \/ (label = "check" /\ derr'[d] = "invalid_request")
        /\ "invalid_request" \in DiagCodes
    BY <1>1, <1>3, <2>1 DEF DiagTypeOK, DiagCodes
  <2>3. DiagTypeOK'
    BY <1>1, <1>2, <1>4, <2>1, <2>2, DiagMaxConcurrentAssumption DEF DiagTypeOK
  <2>4. ErrorsOf(d)' /\ BindingOf(d)'
    BY <1>1, <1>2, <2>2 DEF ErrorsOf, BindingOf, DiagBound
  <2>5. ResultOf(d)'
    BY <1>1, <1>2, <1>3, <2>2 DEF ResultOf
  <2>6. Holders' = Holders \cup {d} /\ d \notin Holders
    BY <1>2, <2>2 DEF Holders, Alone
  <2>7. SlotsCounted'
    BY <1>1, <2>1, <2>6, RequestSetsFinite, FS_AddElement DEF SlotsCounted
  <2> QED  BY <1>2, <2>2, <2>3, <2>4, <2>5, <2>7, OwnPartSuffices, LogKept DEF DiagInv
<1>5. CASE ~(dslots < DiagMaxConcurrent)
  <2>1. /\ derr' = [derr EXCEPT ![d] = "busy"] /\ dpc' = [dpc EXCEPT ![d] = "record"]
        /\ UNCHANGED dslots
    BY <1>5 DEF TrySlot, To, Err
  <2>2. derr'[d] = "busy" /\ dpc'[d] = "record" /\ "busy" \in DiagCodes
    BY <1>1, <2>1 DEF DiagTypeOK, DiagCodes
  <2>3. DiagTypeOK'
    BY <1>1, <1>2, <2>1, <2>2 DEF DiagTypeOK
  <2>4. ErrorsOf(d)' /\ BindingOf(d)'
    BY <1>1, <1>2, <2>2 DEF ErrorsOf, BindingOf, DiagBound
  <2>5. ResultOf(d)'
    BY <1>1, <1>2, <1>3, <2>2 DEF ResultOf
  <2> QED  BY <1>2, <2>1, <2>2, <2>3, <2>4, <2>5, QuietStepKeepsInv
<1> QED  BY <1>4, <1>5

\* The deferred release gives back a token that is there.
LEMMA ReleaseKeepsInv ==
    ASSUME DiagInv, NEW d \in Diagnoses, Alone(d), DiagRelease(d)
    PROVE  DiagInv'
<1> USE DEF Working, DiagHolding, BeforeReads, valid
<1>1. DiagTypeOK /\ ErrorsOf(d) /\ BindingOf(d) /\ ResultOf(d) /\ SlotsCounted
  BY DEF DiagInv, RequestInv
<1>2. /\ UNCHANGED <<dquery, dbound, dbindCtx, dpod, dctxErr, dseen, derr, pod, lastUID, scope>>
      /\ UNCHANGED logVars /\ dpc[d] = "release" /\ dslots' = dslots - 1
      /\ dpc' = [dpc EXCEPT ![d] = "record"]
  BY DEF DiagRelease, To, localVars, clusterVars, sessionVars
<1>3. dpc'[d] = "record"
  BY <1>1, <1>2 DEF DiagTypeOK
<1>4. Holders' = Holders \ {d} /\ d \in Holders
  BY <1>2, <1>3 DEF Holders, Alone
<1>5. /\ Cardinality(Holders') = Cardinality(Holders) - 1
      /\ Cardinality(Holders') \in Nat
  BY <1>4, RequestSetsFinite, FS_RemoveElement, FS_CardinalityType
<1>6. SlotsCounted' /\ dslots' \in 0 .. DiagMaxConcurrent
  BY <1>1, <1>2, <1>5, DiagMaxConcurrentAssumption DEF SlotsCounted, DiagTypeOK
<1>7. DiagTypeOK'
  BY <1>1, <1>2, <1>6 DEF DiagTypeOK
<1>8. ErrorsOf(d)' /\ BindingOf(d)'
  BY <1>1, <1>2, <1>3 DEF ErrorsOf, BindingOf, DiagBound
<1>9. ResultOf(d)'
  BY <1>1, <1>2, <1>3 DEF ResultOf
<1> QED  BY <1>2, <1>3, <1>6, <1>7, <1>8, <1>9, OwnPartSuffices, LogKept DEF DiagInv

\* The deferred recorder: one more entry, that of the request that ends.
LEMMA RecordKeepsInv ==
    ASSUME DiagInv, NEW d \in Diagnoses, Alone(d), DiagRecord(d)
    PROVE  DiagInv'
<1> USE DEF Working, DiagHolding, BeforeReads, valid
<1>1. /\ DiagTypeOK /\ ErrorsOf(d) /\ BindingOf(d) /\ ResultOf(d) /\ LogTyping
  BY DEF DiagInv, RequestInv
<1>2. /\ UNCHANGED <<dquery, dbound, dbindCtx, dpod, dctxErr, derr, dslots, pod, lastUID, scope>>
      /\ UNCHANGED dslots /\ dpc[d] = "record" /\ dpc' = [dpc EXCEPT ![d] = "done"]
      /\ dseen' = [dseen EXCEPT ![d] = IF derr[d] = "ok" THEN @ ELSE {}]
      /\ record(Capability[dquery[d].operation], dbound[d], derr[d])
  BY DEF DiagRecord, To, localVars, clusterVars, sessionVars
<1>3. /\ dpc'[d] = "done" /\ dseen'[d] = IF derr[d] = "ok" THEN dseen[d] ELSE {}
      /\ DiagBound(d) /\ derr[d] \in DiagCodes \cup {"ok"}
  BY <1>1, <1>2 DEF DiagTypeOK, BindingOf, ErrorsOf
<1>4. DiagTypeOK'
  BY <1>1, <1>2 DEF DiagTypeOK
<1>5. ErrorsOf(d)' /\ BindingOf(d)'
  BY <1>1, <1>2, <1>3 DEF ErrorsOf, BindingOf, DiagBound
<1>6. ResultOf(d)'
  BY <1>1, <1>2, <1>3 DEF ResultOf
<1>7. SlotsCounted'
  BY <1>2, <1>3, SlotsKept
\* The log.
<1>8. PICK e : e = [sequence   |-> sequence + 1,
                    capability |-> Capability[dquery[d].operation],
                    scope      |-> dbound[d],
                    outcome    |-> derr[d]]
  OBVIOUS
<1>9. Capability[dquery[d].operation] \in Capabilities
  BY <1>1, <1>2 DEF BindingOf, DiagQueries, Capability, Capabilities
<1>10. e \in Entries(Scopes, DiagCodes \cup {"ok"}) /\ e.scope = dbound[d] /\ e.outcome = derr[d]
  BY <1>1, <1>3, <1>8, <1>9 DEF LogTyping, DiagTypeOK, Entries
<1>11. sequence' = sequence + 1 /\ activity' = LastOf(Append(activity, e), MaxActivity)
  BY <1>2, <1>8 DEF record, Latest, LastOf
<1>12. PICK n : n = LengthAfter(Len(activity), MaxActivity)
  OBVIOUS
<1>13. AppendKeepsLast(Entries(Scopes, DiagCodes \cup {"ok"}), activity, e, MaxActivity, n)
  <2>1. activity \in Seq(Entries(Scopes, DiagCodes \cup {"ok"})) /\ MaxActivity \in Nat \ {0}
    BY <1>1, MaxActivityAssumption DEF LogTyping
  <2> QED  BY <1>10, <1>12, <2>1, LastOfAppend, Zenon
<1>14. LogTyping'
  BY <1>1, <1>11, <1>13 DEF LogTyping, AppendKeepsLast
<1>15. Finished' = Finished \cup {d} /\ d \notin Finished
  BY <1>2, <1>3 DEF Finished, DiagBound, Alone
<1>16. Cardinality(Finished') = Cardinality(Finished) + 1
  BY <1>15, RequestSetsFinite, FS_AddElement
<1>17. /\ sequence = Cardinality(Finished)
       /\ \A i \in 1 .. Len(activity) :
              \E f \in Finished : activity[i].scope = dbound[f] /\ activity[i].outcome = derr[f]
  BY DEF DiagInv, EveryDiagnosisRecordedOnce, Finished
<1>18. ASSUME NEW i \in 1 .. Len(activity')
       PROVE  \E f \in Finished' : activity'[i].scope = dbound'[f] /\ activity'[i].outcome = derr'[f]
  <2>1. Len(activity') = n /\ Len(activity) \in Nat /\ n \in Nat /\ n <= Len(activity) + 1
    BY <1>1, <1>11, <1>12, <1>13, MaxActivityAssumption DEF AppendKeepsLast, LengthAfter, LogTyping
  <2>2. activity'[i] = IF i = n THEN e ELSE activity[Len(activity) + 1 - n + i]
    BY <1>11, <1>13, <1>18, <2>1 DEF AppendKeepsLast
  <2>3. CASE i = n
    BY <1>2, <1>10, <1>15, <2>2, <2>3
  <2>4. CASE i # n
    <3>1. PICK j \in 1 .. Len(activity) : activity'[i] = activity[j]
      BY <1>18, <2>1, <2>2, <2>4
    <3> QED  BY <1>2, <1>15, <1>17, <3>1
  <2> QED  BY <2>3, <2>4
<1>19. EveryDiagnosisRecordedOnce'
  <2>1. sequence' = Cardinality(Finished')
    BY <1>11, <1>16, <1>17
  <2> QED  BY <1>18, <2>1 DEF EveryDiagnosisRecordedOnce, Finished
<1> QED  BY <1>4, <1>5, <1>6, <1>7, <1>14, <1>19, OwnPartSuffices DEF DiagInv

-----------------------------------------------------------------------------

\* Every step of one request.
LEMMA RequestKeepsInv ==
    ASSUME DiagInv, NEW d \in Diagnoses, DiagRequestNext(d)
    PROVE  DiagInv'
<1>0. Alone(d) /\ DiagTypeOK /\ ErrorsOf(d)
  BY StepAlone DEF DiagInv, RequestInv
<1>1. CASE DiagReceive(d)
  BY <1>0, <1>1, ReceiveKeepsInv
<1>2. CASE DiagWatcherCancels(d) \/ DiagDeadlineExpires(d) \/ DiagDisconnect(d)
  BY <1>0, <1>2, ContextEndKeepsInv DEF DiagWatcherCancels, DiagDeadlineExpires, DiagDisconnect
<1>3. CASE TrySlot(d) \/ DiagRelease(d) \/ DiagRecord(d)
  BY <1>0, <1>3, TrySlotKeepsInv, ReleaseKeepsInv, RecordKeepsInv
<1>4. dctxErr[d] # "none" => DiagMapError(dctxErr[d]) \in DiagCodes
  BY <1>0, DiagMapErrorInCodes DEF DiagTypeOK
<1>5. CASE CallAborts(d)
  BY <1>0, <1>4, <1>5, CallFailsKeepsInv DEF CallAborts
<1>6. CASE PodIsGone(d) \/ ContainerUnknown(d) \/ \E code \in PodErrors : CallFails(d, code)
  <2>1. "not_found" \in DiagCodes /\ "invalid_container" \in DiagCodes
    BY DEF DiagCodes
  <2> QED
    BY <1>0, <1>6, <2>1, CallFailsKeepsInv, PodErrorsAssumption DEF PodIsGone, ContainerUnknown
<1>7. /\ "unavailable" \in DiagCodes /\ "pod_changed" \in DiagCodes
      /\ "internal_error" \in DiagCodes /\ "too_large" \in DiagCodes
      /\ DiagMapError("ErrStaleScope") \in DiagCodes
  BY DiagMapErrorInCodes DEF DiagCodes
<1>8. CASE GetPodMalformed(d)
  BY <1>0, <1>7, <1>8, ReturnEarlyKeepsInv DEF GetPodMalformed, Working, DiagCodes
<1>9. CASE DiagPanic(d)
  BY <1>0, <1>7, <1>9, ReturnEarlyKeepsInv DEF DiagPanic, DiagCodes
<1>10. CASE GetPod(d)
  <2>1. CASE dquery[d].expectedUID \in {0, PodOf(d)}
    BY <1>0, <1>10, <2>1, UpstreamKeepsInv
  <2>2. CASE ~(dquery[d].expectedUID \in {0, PodOf(d)})
    BY <1>0, <1>7, <1>10, <2>2, ReturnEarlyKeepsInv DEF GetPod, Working, DiagCodes
  <2> QED  BY <2>1, <2>2
<1>11. CASE ClientReady(d) \/ ReadLogs(d) \/ ReadEvents(d)
  BY <1>0, <1>11, UpstreamKeepsInv
<1>12. CASE GetPodAgain(d)
  <2>1. CASE PodOf(d) = dquery[d].expectedUID
    BY <1>0, <1>12, <2>1, UpstreamKeepsInv
  <2>2. CASE ~(PodOf(d) = dquery[d].expectedUID)
    BY <1>0, <1>7, <1>12, <2>2, CallFailsKeepsInv DEF GetPodAgain
  <2> QED  BY <2>1, <2>2
<1>13. CASE DiagCheckGeneration(d)
  <2>1. CASE scope.generation = dbound[d].generation
    BY <1>0, <1>13, <2>1, UpstreamKeepsInv
  <2>2. CASE ~(scope.generation = dbound[d].generation)
    <3>1. ReturnEarly(d, DiagMapError("ErrStaleScope")) /\ dpc[d] \in Working
      BY <1>13, <2>2 DEF DiagCheckGeneration, Working
    <3>2. DiagMapError("ErrStaleScope") # "ok"
      BY <1>7 DEF DiagCodes
    <3> QED  BY <1>0, <1>7, <3>1, <3>2, ReturnEarlyKeepsInv
  <2> QED  BY <2>1, <2>2
<1>14. CASE DiagFinalCheck(d)
  <2>1. dpc[d] \in Working /\ dpc[d] = "final" /\ derr[d] # "ok"
    BY <1>0, <1>14 DEF DiagFinalCheck, Working, ErrorsOf
  <2>2. PICK code \in DiagCodes \cup {"ok"} :
            ReturnEarly(d, code) /\ (code = "ok" => derr[d] = "none")
    <3>1. CASE dctxErr[d] # "none"
      BY <1>4, <1>14, <3>1 DEF DiagFinalCheck, DiagCodes
    <3>2. CASE dctxErr[d] = "none" /\ derr[d] # "none"
      <4>1. derr[d] \in DiagCodes
        BY <1>0, <2>1, <3>2 DEF DiagTypeOK
      <4> QED  BY <1>14, <2>1, <3>2, <4>1 DEF DiagFinalCheck
    <3>3. CASE dctxErr[d] = "none" /\ derr[d] = "none"
      BY <1>7, <1>14, <3>3 DEF DiagFinalCheck
    <3> QED  BY <3>1, <3>2, <3>3
  <2> QED  BY <1>0, <2>1, <2>2, ReturnEarlyKeepsInv
<1> QED
  BY <1>1, <1>2, <1>3, <1>5, <1>6, <1>8, <1>9, <1>10, <1>11, <1>12, <1>13, <1>14
     DEF DiagRequestNext, DiagHandlerStep, DiagEnvironment

\* A Pod that is created gets a UID nobody has seen; a deleted one is gone for good.
LEMMA ClusterKeepsInv ==
    ASSUME DiagInv, NEW c \in Contexts, CreatePod(c) \/ DeletePod(c)
    PROVE  DiagInv'
<1>1. /\ UNCHANGED sessionVars
      /\ UNCHANGED <<sequence, activity, scope, dpc, dquery, dbound, dbindCtx, dpod>>
      /\ UNCHANGED <<dctxErr, dseen, derr, dslots>>
  BY DEF CreatePod, DeletePod, logVars, diagVars, localVars, sessionVars
<1>2. SessionTypeOK' /\ SessionInv'
  BY <1>1, SessionRests DEF DiagInv
<1>3. LogTyping' /\ SlotsCounted' /\ EveryDiagnosisRecordedOnce'
  BY <1>1 DEF DiagInv, LogTyping, SlotsCounted, Holders, EveryDiagnosisRecordedOnce, DiagBound
<1>4. DiagTypeOK /\ PodsInv
  BY DEF DiagInv
<1>5. PICK uid : /\ pod' = [pod EXCEPT ![c] = uid]
                 /\ uid = 0 \/ uid = lastUID + 1
                 /\ uid \in {0} \cup UIDs /\ uid <= lastUID'
                 /\ lastUID' \in {0} \cup UIDs /\ lastUID <= lastUID'
  BY <1>4, MaxUIDAssumption DEF CreatePod, DeletePod, DiagTypeOK, UIDs
<1>6. DiagTypeOK'
  BY <1>1, <1>4, <1>5 DEF DiagTypeOK
<1>7. lastUID \in Nat /\ lastUID' \in Nat /\ \A k \in Contexts : pod[k] \in Nat
  BY <1>4, <1>5, MaxUIDAssumption DEF DiagTypeOK, UIDs
<1>8. PodsInv'
  BY <1>4, <1>5, <1>7 DEF PodsInv, DiagTypeOK
<1>9. ASSUME NEW d \in Diagnoses PROVE ErrorsOf(d)' /\ BindingOf(d)' /\ ResultOf(d)'
  <2>1. ErrorsOf(d) /\ BindingOf(d) /\ ResultOf(d)
    BY DEF DiagInv, RequestInv
  <2>2. ErrorsOf(d)' /\ BindingOf(d)'
    BY <1>1, <2>1 DEF ErrorsOf, BindingOf, DiagBound
  <2>3. dpod[d] \in Nat /\ dpod[d] <= lastUID
    BY <1>4, <2>1, MaxUIDAssumption DEF DiagTypeOK, UIDs, ResultOf
  <2>4. dpod'[d] <= lastUID'
    BY <1>1, <1>5, <1>7, <2>3
  <2>5. ASSUME dpc[d] = "reget", PodOf(d) # dquery[d].expectedUID
        PROVE  PodOf(d)' # dquery[d].expectedUID
    <3>1. dbound[d].context \in Contexts /\ dquery[d].expectedUID # 0
          /\ dpod[d] = dquery[d].expectedUID
      BY <2>1, <2>5 DEF BindingOf, ResultOf, DiagHolding, Working
    <3>2. PodOf(d)' = PodOf(d) \/ PodOf(d)' = uid
      BY <1>1, <1>4, <1>5, <3>1 DEF PodOf, DiagTypeOK
    <3> QED  BY <1>5, <1>7, <2>3, <2>5, <3>1, <3>2
  <2>6. ResultOf(d)'
    BY <1>1, <2>1, <2>4, <2>5 DEF ResultOf
  <2> QED  BY <2>2, <2>6
<1>10. RequestInv'
  BY <1>9 DEF RequestInv
<1> QED  BY <1>2, <1>3, <1>6, <1>8, <1>10 DEF DiagInv

\* The operator moves the session on, or a namespace list is published.
LEMMA SessionKeepsInv ==
    ASSUME DiagInv, OperatorNext \/ Discover, UNCHANGED <<logVars, diagVars, clusterVars>>
    PROVE  DiagInv' /\ scope.generation <= scope'.generation
<1>1. /\ UNCHANGED <<sequence, activity, dpc, dquery, dbound, dbindCtx, dpod>>
      /\ UNCHANGED <<dctxErr, dseen, derr, dslots, pod, lastUID>>
  BY DEF logVars, diagVars, localVars, clusterVars
<1>2. SessionTypeOK /\ SessionInv /\ scope.generation \in Nat
  BY DEF DiagInv, SessionTypeOK, Scopes
<1>3. SessionTypeOK' /\ SessionInv' /\ scope.generation <= scope'.generation
  <2>1. CASE Discover
    BY <1>2, <2>1, AllowKeepsSession DEF Discover
  <2>2. CASE OperatorNext
    BY <1>2, <2>2, SelectContextKeepsSession, SelectNamespaceKeepsSession, CloseKeepsSession
       DEF OperatorNext
  <2> QED  BY <2>1, <2>2
<1>4. LogTyping' /\ SlotsCounted' /\ EveryDiagnosisRecordedOnce' /\ DiagTypeOK' /\ PodsInv'
  BY <1>1 DEF DiagInv, LogTyping, SlotsCounted, Holders, EveryDiagnosisRecordedOnce, DiagBound,
         DiagTypeOK, PodsInv
<1>5. RequestInv'
  <2> SUFFICES ASSUME NEW d \in Diagnoses PROVE ErrorsOf(d)' /\ BindingOf(d)' /\ ResultOf(d)'
    BY DEF RequestInv
  <2>1. ErrorsOf(d) /\ BindingOf(d) /\ ResultOf(d) /\ dbound[d].generation \in Nat
        /\ scope'.generation \in Nat
    BY <1>3 DEF DiagInv, RequestInv, DiagTypeOK, Scopes, SessionTypeOK
  <2>2. ErrorsOf(d)' /\ ResultOf(d)'
    BY <1>1, <2>1 DEF ErrorsOf, ResultOf, PodOf
  <2>3. BindingOf(d)'
    BY <1>1, <1>2, <1>3, <2>1 DEF BindingOf, DiagBound
  <2> QED  BY <2>2, <2>3
<1> QED  BY <1>3, <1>4, <1>5 DEF DiagInv

\* The invariant is inductive.
LEMMA DiagInvInductive == DiagInv /\ [DiagSystemNext]_diagSystemVars => DiagInv'
<1> SUFFICES ASSUME DiagInv, [DiagSystemNext]_diagSystemVars PROVE DiagInv'
  OBVIOUS
<1>1. CASE (OperatorNext \/ Discover) /\ UNCHANGED <<logVars, diagVars, clusterVars>>
  BY <1>1, SessionKeepsInv
<1>2. CASE ClusterNext
  BY <1>2, ClusterKeepsInv DEF ClusterNext
<1>3. CASE \E d \in Diagnoses : DiagRequestNext(d)
  BY <1>3, RequestKeepsInv
<1>4. CASE UNCHANGED diagSystemVars
  <2>1. /\ UNCHANGED sessionVars /\ UNCHANGED scope
        /\ UNCHANGED <<sequence, activity, dpc, dquery, dbound, dbindCtx, dpod>>
        /\ UNCHANGED <<dctxErr, dseen, derr, dslots, pod, lastUID>>
    BY <1>4 DEF diagSystemVars, logVars, diagVars, localVars, clusterVars, sessionVars
  <2>2. SessionTypeOK' /\ SessionInv'
    BY <2>1, SessionRests DEF DiagInv
  <2>3. LogTyping' /\ SlotsCounted' /\ EveryDiagnosisRecordedOnce' /\ DiagTypeOK' /\ PodsInv'
    BY <2>1 DEF DiagInv, LogTyping, SlotsCounted, Holders, EveryDiagnosisRecordedOnce, DiagBound,
           DiagTypeOK, PodsInv
  <2>4. RequestInv'
    BY <2>1 DEF DiagInv, RequestInv, ErrorsOf, BindingOf, ResultOf, PodOf, DiagBound
  <2> QED  BY <2>2, <2>3, <2>4 DEF DiagInv
<1> QED  BY <1>1, <1>2, <1>3, <1>4 DEF DiagSystemNext

-----------------------------------------------------------------------------

\* Every reachable state of the diagnostics satisfies the inductive invariant.
THEOREM DiagInvariant == DiagSpec => []DiagInv
<1>1. DiagSystemInit => DiagInv
  BY DiagInitial
<1>2. DiagInv /\ [DiagSystemNext]_diagSystemVars => DiagInv'
  BY DiagInvInductive
<1> QED  BY <1>1, <1>2, PTL DEF DiagSpec

\* Each handler between acquiring and releasing holds one token of the channel, on
\* every path, and every variable keeps its type.
THEOREM DiagSlotsAlwaysHeldByHandlers == DiagSpec => []DiagSlotsHeldByHandlers
<1>1. DiagInv => DiagSlotsHeldByHandlers
  BY DEF DiagInv, DiagSlotsHeldByHandlers, DiagSystemTypeOK, LogTyping, SlotsCounted, Holders
<1> QED  BY <1>1, DiagInvariant, PTL

\* Every bound diagnosis, however it ends, leaves exactly one entry.
THEOREM DiagnosesAlwaysRecordedOnce == DiagSpec => []EveryDiagnosisRecordedOnce
<1>1. DiagInv => EveryDiagnosisRecordedOnce
  BY DEF DiagInv
<1> QED  BY <1>1, DiagInvariant, PTL

\* With an expectedUID no answer ever holds text or Events of another Pod, however
\* often the Pod was recreated between the calls.
THEOREM ResultAlwaysOfExpectedPod == DiagSpec => []ResultIsOfExpectedPod
<1>1. DiagInv => ResultIsOfExpectedPod
  <2> SUFFICES ASSUME DiagInv, NEW d \in Diagnoses
               PROVE  /\ derr[d] = "ok" /\ dquery[d].expectedUID # 0
                             => dseen[d] \subseteq {dquery[d].expectedUID}
                      /\ dpc[d] = "done" /\ derr[d] # "ok" => dseen[d] = {}
    BY DEF ResultIsOfExpectedPod
  <2>1. ResultOf(d)
    BY DEF DiagInv, RequestInv
  <2> QED  BY <2>1 DEF ResultOf
<1> QED  BY <1>1, DiagInvariant, PTL

-----------------------------------------------------------------------------

\* A diagnosis that was superseded before its generation comparison.
Superseded(d) ==
    /\ dpc[d] \notin {"new", "final"}
    /\ dbound[d].generation # scope.generation
    /\ dbound[d].generation <= scope.generation
    /\ derr[d] # "ok"

\* Once superseded, always superseded: the generation never comes back, and only the
\* last check, which it does not reach, says "ok".
LEMMA SupersededStep ==
    ASSUME NEW d \in Diagnoses
    PROVE  DiagInv /\ Superseded(d) /\ [DiagSystemNext]_diagSystemVars => Superseded(d)'
<1> SUFFICES ASSUME DiagInv, Superseded(d), [DiagSystemNext]_diagSystemVars PROVE Superseded(d)'
  OBVIOUS
<1>0. DiagTypeOK /\ scope.generation \in Nat /\ dbound[d].generation \in Nat
  BY DEF DiagInv, DiagTypeOK, Scopes, SessionTypeOK
<1>1. CASE UNCHANGED diagSystemVars \/ ClusterNext
  <2>1. UNCHANGED <<dpc, dbound, scope, derr>>
    BY <1>1 DEF diagSystemVars, ClusterNext, CreatePod, DeletePod, diagVars, localVars, sessionVars
  <2> QED  BY <2>1 DEF Superseded
<1>2. CASE (OperatorNext \/ Discover) /\ UNCHANGED <<logVars, diagVars, clusterVars>>
  <2>1. UNCHANGED <<dpc, dbound, derr>>
    BY <1>2 DEF diagVars, localVars
  <2>2. scope.generation <= scope'.generation /\ scope'.generation \in Nat
    BY <1>2, SessionKeepsInv DEF DiagInv, SessionTypeOK, Scopes
  <2> QED  BY <1>0, <2>1, <2>2 DEF Superseded
<1>3. ASSUME NEW e \in Diagnoses \ {d}, DiagRequestNext(e) PROVE Superseded(d)'
  <2>1. dpc'[d] = dpc[d] /\ dbound'[d] = dbound[d] /\ derr'[d] = derr[d] /\ UNCHANGED scope
    BY <1>0, <1>3, StepAlone DEF Alone
  <2> QED  BY <2>1 DEF Superseded
<1>4. CASE DiagRequestNext(d)
  <2>a. Alone(d) /\ UNCHANGED scope
    BY <1>0, <1>4, StepAlone DEF Alone
  <2>b. ASSUME NEW code \in DiagCodes, CallFails(d, code) \/ ReturnEarly(d, code)
        PROVE  Superseded(d)'
    <3>1. /\ UNCHANGED dbound /\ dpc'[d] \in {"check", "release"} /\ derr'[d] = code
      BY <1>0, <2>b DEF CallFails, ReturnEarly, To, Err, localVars, DiagTypeOK
    <3> QED  BY <2>a, <3>1 DEF Superseded, DiagCodes
  <2>c. ASSUME NEW label \in {"get", "read", "reget", "check"}, Proceed(d, label)
        PROVE  Superseded(d)'
    <3>1. /\ UNCHANGED <<dbound, derr>> /\ dpc'[d] = label
      BY <1>0, <2>c DEF Proceed, To, DiagTypeOK
    <3> QED  BY <2>a, <3>1 DEF Superseded
  <2>d. /\ "unavailable" \in DiagCodes /\ "pod_changed" \in DiagCodes
        /\ "internal_error" \in DiagCodes /\ "not_found" \in DiagCodes
        /\ "invalid_container" \in DiagCodes /\ DiagMapError("ErrStaleScope") \in DiagCodes
    BY DiagMapErrorInCodes DEF DiagCodes
  <2>e. dctxErr[d] # "none" => DiagMapError(dctxErr[d]) \in DiagCodes
    BY <1>0, DiagMapErrorInCodes DEF DiagTypeOK
  <2>1. CASE DiagReceive(d)
    BY <2>1 DEF DiagReceive, DiagRefuse, DiagBind, Superseded
  <2>2. CASE DiagWatcherCancels(d) \/ DiagDeadlineExpires(d) \/ DiagDisconnect(d)
    <3>1. UNCHANGED <<dpc, dbound, derr>>
      BY <2>2 DEF DiagWatcherCancels, DiagDeadlineExpires, DiagDisconnect, DiagEndContext, localVars
    <3> QED  BY <2>a, <3>1 DEF Superseded
  <2>3. CASE TrySlot(d) \/ DiagRelease(d) \/ DiagRecord(d)
    <3>1. /\ UNCHANGED dbound /\ dpc'[d] \in {"client", "check", "record", "done"}
          /\ derr'[d] \in {derr[d], "busy", "invalid_request"}
      BY <1>0, <2>3 DEF TrySlot, DiagRelease, DiagRecord, To, Err, localVars, DiagTypeOK
    <3> QED  BY <2>a, <3>1 DEF Superseded
  <2>4. CASE CallAborts(d)
    BY <2>b, <2>e, <2>4 DEF CallAborts
  <2>5. CASE PodIsGone(d) \/ ContainerUnknown(d) \/ GetPodMalformed(d) \/ DiagPanic(d)
             \/ \E code \in PodErrors : CallFails(d, code)
    BY <2>b, <2>d, <2>5, PodErrorsAssumption DEF PodIsGone, ContainerUnknown, GetPodMalformed, DiagPanic
  <2>6. CASE ClientReady(d) \/ GetPod(d) \/ ReadLogs(d) \/ ReadEvents(d) \/ GetPodAgain(d)
    BY <2>b, <2>c, <2>d, <2>6 DEF ClientReady, GetPod, ReadLogs, ReadEvents, GetPodAgain
  <2>7. CASE DiagCheckGeneration(d)
    BY <2>b, <2>d, <2>7 DEF DiagCheckGeneration, Superseded
  <2>8. CASE DiagFinalCheck(d)
    BY <2>8 DEF DiagFinalCheck, Superseded
  <2> QED
    BY <1>4, <2>1, <2>2, <2>3, <2>4, <2>5, <2>6, <2>7, <2>8
       DEF DiagRequestNext, DiagHandlerStep, DiagEnvironment
<1> QED  BY <1>1, <1>2, <1>3, <1>4 DEF DiagSystemNext

\* No diagnosis whose scope was superseded before its generation comparison ever
\* succeeds.
THEOREM SupersededDiagnosesNeverSucceed == DiagSpec => SupersededDiagnosisNeverSucceeds
<1> SUFFICES ASSUME NEW d \in Diagnoses
             PROVE  DiagSpec => [](dpc[d] \in {"slot"} \cup (Working \ {"final"})
                                       /\ dbound[d].generation # scope.generation
                                   => [](derr[d] # "ok"))
  BY DEF SupersededDiagnosisNeverSucceeds
<1>1. DiagInv /\ dpc[d] \in {"slot"} \cup (Working \ {"final"})
          /\ dbound[d].generation # scope.generation => Superseded(d)
  <2> SUFFICES ASSUME DiagInv, dpc[d] \in {"slot"} \cup (Working \ {"final"}),
                      dbound[d].generation # scope.generation
               PROVE  Superseded(d)
    OBVIOUS
  <2>1. ErrorsOf(d) /\ BindingOf(d)
    BY DEF DiagInv, RequestInv
  <2> QED  BY <2>1 DEF ErrorsOf, BindingOf, Superseded, Working, DiagHolding, BeforeReads
<1>2. Superseded(d) => derr[d] # "ok"
  BY DEF Superseded
<1>3. DiagInv /\ Superseded(d) /\ [DiagSystemNext]_diagSystemVars => Superseded(d)'
  BY SupersededStep
<1> QED  BY <1>1, <1>2, <1>3, DiagInvariant, PTL DEF DiagSpec

-----------------------------------------------------------------------------
(***************************************************************************)
(* The service implements ScopedReads.                                     *)
(***************************************************************************)

\* A bound diagnosis of the present generation is bound to the present scope, and one
\* that got as far as the slot has a namespace: what makes the comparison of
\* generations a comparison of scopes.
ScopesInForce ==
    \A d \in Diagnoses :
        /\ DiagBound(d) /\ dbound[d].generation = scope.generation => dbound[d] = scope
        /\ dpc[d] \in {"slot"} \cup DiagHolding => dbound[d].namespace # NoName
        /\ dpc[d] \in {"slot"} \cup DiagHolding \cup {"record"} => DiagBound(d)

Reading == {"slot"} \cup (Working \ {"final"})

\* What a step of a bound diagnosis can be.
Confirms(d) ==
    /\ dpc[d] = "check" /\ dpc'[d] = "final"
    /\ dbound[d].generation = scope.generation

Answers(d) == dpc[d] = "final" /\ dpc'[d] = "release" /\ derr'[d] = "ok"

Fails(d) ==
    /\ dpc[d] \in Reading \cup {"final"}
    /\ dpc'[d] \in {"release", "record"} /\ derr'[d] # "ok"

GoesOn(d) ==
    \/ dpc[d] \in Reading /\ dpc'[d] \in Reading
    \/ /\ dpc[d] \in {"release", "record"} /\ dpc'[d] \in {"record", "done"}
       /\ derr'[d] = derr[d]
    \/ dpc'[d] = dpc[d] /\ derr'[d] = derr[d]

\* A step of a diagnosis that has been received keeps its scope and is of one kind.
LEMMA DiagStepKinds ==
    ASSUME DiagInv, NEW d \in Diagnoses, DiagRequestNext(d), dpc[d] # "new"
    PROVE  UNCHANGED dbound /\ (Confirms(d) \/ Answers(d) \/ Fails(d) \/ GoesOn(d))
<1> DEFINE Goal == UNCHANGED dbound /\ (Confirms(d) \/ Answers(d) \/ Fails(d) \/ GoesOn(d))
<1>0. DiagTypeOK
  BY DEF DiagInv
<1>a. ASSUME NEW code \in DiagCodes, CallFails(d, code) PROVE Goal
  <2>1. /\ UNCHANGED dbound /\ dpc[d] \in {"client", "get", "read", "reget"} /\ dpc'[d] = "check"
    BY <1>0, <1>a DEF CallFails, To, localVars, DiagTypeOK
  <2> QED  BY <2>1 DEF GoesOn, Reading, Working
<1>b. ASSUME NEW code \in DiagCodes \cup {"ok"}, ReturnEarly(d, code), dpc[d] \in Working,
             code = "ok" => dpc[d] = "final"
      PROVE  Goal
  <2>1. UNCHANGED dbound /\ dpc'[d] = "release" /\ derr'[d] = code
    BY <1>0, <1>b DEF ReturnEarly, To, Err, localVars, DiagTypeOK
  <2> QED  BY <1>b, <2>1 DEF Answers, Fails, Reading, Working
<1>c. ASSUME NEW label \in {"get", "read", "reget", "check"}, Proceed(d, label),
             dpc[d] \in {"client", "get", "read", "reget"}
      PROVE  Goal
  <2>1. UNCHANGED dbound /\ dpc'[d] = label
    BY <1>0, <1>c DEF Proceed, To, DiagTypeOK
  <2> QED  BY <1>c, <2>1 DEF GoesOn, Reading, Working
<1>d. /\ "unavailable" \in DiagCodes /\ "pod_changed" \in DiagCodes
      /\ "internal_error" \in DiagCodes /\ "not_found" \in DiagCodes
      /\ "too_large" \in DiagCodes
      /\ "invalid_container" \in DiagCodes /\ DiagMapError("ErrStaleScope") \in DiagCodes
      /\ "ok" \notin DiagCodes
  BY DiagMapErrorInCodes DEF DiagCodes
<1>e. dctxErr[d] # "none" => DiagMapError(dctxErr[d]) \in DiagCodes
  BY <1>0, DiagMapErrorInCodes DEF DiagTypeOK
<1>1. CASE DiagReceive(d)
  BY <1>1 DEF DiagReceive, DiagRefuse, DiagBind
<1>2. CASE DiagWatcherCancels(d) \/ DiagDeadlineExpires(d) \/ DiagDisconnect(d)
  <2>1. UNCHANGED <<dpc, dbound, derr>>
    BY <1>2 DEF DiagWatcherCancels, DiagDeadlineExpires, DiagDisconnect, DiagEndContext, localVars
  <2> QED  BY <2>1 DEF GoesOn
<1>3. CASE TrySlot(d)
  <2>1. /\ UNCHANGED dbound /\ dpc[d] = "slot"
        /\ dpc'[d] \in {"client", "check"} \/ (dpc'[d] = "record" /\ derr'[d] = "busy")
    BY <1>0, <1>3 DEF TrySlot, To, Err, localVars, DiagTypeOK
  <2> QED  BY <2>1 DEF GoesOn, Fails, Reading, Working
<1>4. CASE DiagRelease(d) \/ DiagRecord(d)
  <2>1. /\ UNCHANGED <<dbound, derr>> /\ dpc[d] \in {"release", "record"}
        /\ dpc'[d] \in {"record", "done"}
    BY <1>0, <1>4 DEF DiagRelease, DiagRecord, To, localVars, DiagTypeOK
  <2> QED  BY <2>1 DEF GoesOn
<1>5. CASE CallAborts(d) \/ PodIsGone(d) \/ ContainerUnknown(d)
           \/ \E code \in PodErrors : CallFails(d, code)
  BY <1>a, <1>d, <1>e, <1>5, PodErrorsAssumption DEF CallAborts, PodIsGone, ContainerUnknown
<1>6. CASE GetPodMalformed(d) \/ DiagPanic(d)
  BY <1>b, <1>d, <1>6 DEF GetPodMalformed, DiagPanic, Working
<1>7. CASE ClientReady(d) \/ GetPod(d) \/ ReadLogs(d) \/ ReadEvents(d) \/ GetPodAgain(d)
  BY <1>a, <1>b, <1>c, <1>d, <1>7
     DEF ClientReady, GetPod, ReadLogs, ReadEvents, GetPodAgain, Working
<1>8. CASE DiagCheckGeneration(d)
  <2>1. CASE scope.generation # dbound[d].generation
    BY <1>b, <1>d, <1>8, <2>1 DEF DiagCheckGeneration, Working
  <2>2. CASE scope.generation = dbound[d].generation
    <3>1. UNCHANGED dbound /\ dpc[d] = "check" /\ dpc'[d] = "final"
      BY <1>0, <1>8, <2>2 DEF DiagCheckGeneration, Proceed, To, DiagTypeOK
    <3> QED  BY <2>2, <3>1 DEF Confirms
  <2> QED  BY <2>1, <2>2
<1>9. CASE DiagFinalCheck(d)
  <2>1. ErrorsOf(d) /\ derr[d] \in DiagCodes \cup {"none", "ok"}
    BY <1>0 DEF DiagInv, RequestInv, DiagTypeOK
  <2>2. dpc[d] = "final" /\ derr[d] # "ok"
    BY <1>9, <2>1 DEF DiagFinalCheck, ErrorsOf
  <2> QED  BY <1>b, <1>d, <1>e, <1>9, <2>1, <2>2 DEF DiagFinalCheck, Working
<1> QED
  BY <1>1, <1>2, <1>3, <1>4, <1>5, <1>6, <1>7, <1>8, <1>9
     DEF DiagRequestNext, DiagHandlerStep, DiagEnvironment

\* The first step of a diagnosis refuses it, with or without a scope, or binds it.
LEMMA DiagFirstStep ==
    ASSUME DiagInv, NEW d \in Diagnoses, DiagRequestNext(d), dpc[d] = "new"
    PROVE  \/ /\ UNCHANGED dbound /\ dpc'[d] = "done" /\ derr'[d] # "ok"
           \/ /\ ~closed /\ scope.context # NoName
              /\ dbound' = [dbound EXCEPT ![d] = scope]
              /\ \/ scope.namespace = NoName /\ dpc'[d] = "record" /\ derr'[d] # "ok"
                 \/ scope.namespace # NoName /\ dpc'[d] = "slot"
<1>0. DiagTypeOK
  BY DEF DiagInv
<1>1. DiagReceive(d)
  BY DEF DiagRequestNext, DiagWatcherCancels, DiagDeadlineExpires, DiagDisconnect,
         DiagEndContext, DiagHandlerStep, DiagEnvironment, TrySlot, ClientReady, CallAborts,
         CallFails, DiagCheckGeneration, DiagFinalCheck, DiagRelease, DiagRecord, PodIsGone,
         ContainerUnknown, GetPod, GetPodMalformed, ReadLogs, ReadEvents, GetPodAgain,
         DiagPanic, Working
<1>2. PICK q \in DiagQueries, generation \in Generations :
          DiagRefuse(d, q, generation) \/ DiagBind(d, q, generation)
  BY <1>1 DEF DiagReceive
<1>3. CASE DiagRefuse(d, q, generation)
  BY <1>0, <1>3 DEF DiagRefuse, To, Err, localVars, DiagTypeOK
<1>4. CASE DiagBind(d, q, generation)
  BY <1>0, <1>4 DEF DiagBind, MayBind, To, Err, DiagTypeOK
<1> QED  BY <1>2, <1>3, <1>4

\* ScopesInForce is inductive on top of DiagInv.
LEMMA ScopesInForceStep ==
    DiagInv /\ ScopesInForce /\ [DiagSystemNext]_diagSystemVars => ScopesInForce'
<1> SUFFICES ASSUME DiagInv, ScopesInForce, [DiagSystemNext]_diagSystemVars,
                    NEW e \in Diagnoses
             PROVE  /\ DiagBound(e)' /\ dbound'[e].generation = scope'.generation
                           => dbound'[e] = scope'
                    /\ dpc'[e] \in {"slot"} \cup DiagHolding => dbound'[e].namespace # NoName
                    /\ dpc'[e] \in {"slot"} \cup DiagHolding \cup {"record"} => DiagBound(e)'
  BY DEF ScopesInForce
<1>0. /\ DiagTypeOK /\ scope \in Scopes /\ scope.generation \in Nat
      /\ dbound[e] \in Scopes /\ dbound[e].generation \in Nat
  BY DEF DiagInv, DiagTypeOK, Scopes, SessionTypeOK
<1>i. /\ DiagBound(e) /\ dbound[e].generation = scope.generation => dbound[e] = scope
      /\ dpc[e] \in {"slot"} \cup DiagHolding => dbound[e].namespace # NoName
      /\ dpc[e] \in {"slot"} \cup DiagHolding \cup {"record"} => DiagBound(e)
  BY DEF ScopesInForce
<1>r. ASSUME dpc'[e] = dpc[e], dbound'[e] = dbound[e],
             scope' = scope \/ (scope' \in Scopes /\ scope'.generation > scope.generation)
      PROVE  /\ DiagBound(e)' /\ dbound'[e].generation = scope'.generation
                    => dbound'[e] = scope'
             /\ dpc'[e] \in {"slot"} \cup DiagHolding => dbound'[e].namespace # NoName
             /\ dpc'[e] \in {"slot"} \cup DiagHolding \cup {"record"} => DiagBound(e)'
  <2>1. BindingOf(e)
    BY DEF DiagInv, RequestInv
  <2>2. scope' # scope /\ DiagBound(e) => dbound[e].generation < scope'.generation
    BY <1>0, <1>r, <2>1 DEF BindingOf, Scopes
  <2> QED  BY <1>0, <1>i, <1>r, <2>2 DEF DiagBound
<1>1. CASE UNCHANGED diagSystemVars \/ ClusterNext
  <2>1. UNCHANGED <<dpc, dbound, scope>>
    BY <1>1 DEF diagSystemVars, ClusterNext, CreatePod, DeletePod, diagVars, localVars, sessionVars
  <2> QED  BY <1>r, <2>1
<1>2. CASE (OperatorNext \/ Discover) /\ UNCHANGED <<logVars, diagVars, clusterVars>>
  <2>1. UNCHANGED <<dpc, dbound>>
    BY <1>2 DEF diagVars, localVars
  <2>2. scope' \in Scopes
    BY <1>2, SessionKeepsInv DEF DiagInv, SessionTypeOK
  <2>3. scope' = scope \/ scope'.generation > scope.generation
    BY <1>0, <1>2 DEF OperatorNext, Discover, SelectContext, SelectNamespaceAt, Close,
           advanceLocked, AllowNamespaces
  <2> QED  BY <1>r, <2>1, <2>2, <2>3
<1>3. ASSUME NEW d \in Diagnoses, DiagRequestNext(d)
      PROVE  /\ DiagBound(e)' /\ dbound'[e].generation = scope'.generation
                    => dbound'[e] = scope'
             /\ dpc'[e] \in {"slot"} \cup DiagHolding => dbound'[e].namespace # NoName
             /\ dpc'[e] \in {"slot"} \cup DiagHolding \cup {"record"} => DiagBound(e)'
  <2>1. Alone(d) /\ UNCHANGED scope
    BY <1>0, <1>3, StepAlone DEF Alone
  <2>2. CASE e # d
    BY <1>r, <2>1, <2>2 DEF Alone
  <2>3. CASE e = d /\ dpc[d] # "new"
    <3>1. UNCHANGED dbound /\ (Confirms(d) \/ Answers(d) \/ Fails(d) \/ GoesOn(d))
      BY <1>3, <2>3, DiagStepKinds
    <3>2. /\ dpc'[d] \in {"slot"} \cup DiagHolding => dpc[d] \in {"slot"} \cup DiagHolding
          /\ dpc'[d] = "record" => dpc[d] \in {"slot"} \cup DiagHolding \cup {"record"}
      BY <3>1 DEF Confirms, Answers, Fails, GoesOn, Reading, Working, DiagHolding
    <3>3. UNCHANGED <<dbound, scope>>
      BY <2>1, <3>1
    <3> QED  BY <1>i, <2>3, <3>2, <3>3 DEF DiagBound
  <2>4. CASE e = d /\ dpc[d] = "new"
    <3>1. ~DiagBound(d)
      BY <2>4 DEF DiagInv, RequestInv, BindingOf, DiagBound
    <3>2. CASE UNCHANGED dbound /\ dpc'[d] = "done"
      BY <2>4, <3>1, <3>2 DEF DiagBound, DiagHolding, Working
    <3>3. CASE /\ dbound' = [dbound EXCEPT ![d] = scope] /\ scope.context # NoName
               /\ \/ scope.namespace = NoName /\ dpc'[d] = "record"
                  \/ scope.namespace # NoName /\ dpc'[d] = "slot"
      <4>1. dbound'[d] = scope
        BY <1>0, <3>3 DEF DiagTypeOK
      <4>2. scope # NoScope
        BY <3>3 DEF NoScope
      <4> QED  BY <2>1, <2>4, <3>3, <4>1, <4>2 DEF DiagBound, DiagHolding, Working
    <3> QED  BY <1>3, <2>4, <3>2, <3>3, DiagFirstStep
  <2> QED  BY <2>2, <2>3, <2>4
<1> QED  BY <1>1, <1>2, <1>3 DEF DiagSystemNext

\* A step of one diagnosis changes at most that diagnosis's abstract status and scope.
LEMMA DiagOthersStay ==
    ASSUME DiagInv, NEW d \in Diagnoses, DiagRequestNext(d)
    PROVE  /\ DiagStatus' = [DiagStatus EXCEPT ![d] = DiagStatus'[d]]
           /\ DiagTaken' = [DiagTaken EXCEPT ![d] = DiagTaken'[d]]
<1>1. \A e \in Diagnoses \ {d} :
          dpc'[e] = dpc[e] /\ derr'[e] = derr[e] /\ dbound'[e] = dbound[e]
  BY StepAlone DEF Alone, DiagInv
<1>2. /\ \A e \in Diagnoses \ {d} : DiagStatus'[e] = DiagStatus[e]
      /\ \A e \in Diagnoses \ {d} : DiagTaken'[e] = DiagTaken[e]
  BY <1>1 DEF DiagStatus, DiagTaken
<1>3. /\ DiagStatus' = [e \in Diagnoses |-> DiagStatus'[e]]
      /\ DiagStatus = [e \in Diagnoses |-> DiagStatus[e]]
      /\ DiagTaken' = [e \in Diagnoses |-> DiagTaken'[e]]
      /\ DiagTaken = [e \in Diagnoses |-> DiagTaken[e]]
  BY DEF DiagStatus, DiagTaken
<1>4. ASSUME NEW f, NEW g, f = [e \in Diagnoses |-> f[e]], g = [e \in Diagnoses |-> g[e]],
             \A e \in Diagnoses \ {d} : g[e] = f[e]
      PROVE  g = [f EXCEPT ![d] = g[d]]
  BY <1>4
<1> QED  BY <1>2, <1>3, <1>4

\* Writing back what is there changes nothing.
LEMMA SameStatus ==
    ASSUME DiagInv, NEW d \in Diagnoses, DiagRequestNext(d)
    PROVE  /\ DiagStatus'[d] = DiagStatus[d] => DiagStatus' = DiagStatus
           /\ DiagTaken'[d] = DiagTaken[d] => DiagTaken' = DiagTaken
<1>1. ASSUME NEW f, NEW g, NEW x, f = [e \in Diagnoses |-> f[e]], g = [f EXCEPT ![d] = x],
             x = f[d]
      PROVE  g = f
  BY <1>1
<1>2. /\ DiagStatus = [e \in Diagnoses |-> DiagStatus[e]]
      /\ DiagTaken = [e \in Diagnoses |-> DiagTaken[e]]
  BY DEF DiagStatus, DiagTaken
<1> QED  BY <1>1, <1>2, DiagOthersStay

\* Every step of a diagnosis is a step of ScopedReads or leaves it alone.
LEMMA DiagnosisRefines ==
    ASSUME DiagInv, ScopesInForce, NEW d \in Diagnoses, DiagRequestNext(d)
    PROVE  [DiagPromise!Take(d) \/ DiagPromise!Confirm(d) \/ DiagPromise!Succeed(d)
              \/ DiagPromise!Abandon(d)]_(DiagPromise!readVars)
<1>0. /\ DiagStatus' = [DiagStatus EXCEPT ![d] = DiagStatus'[d]]
      /\ DiagTaken' = [DiagTaken EXCEPT ![d] = DiagTaken'[d]]
  BY DiagOthersStay
<1>1. UNCHANGED <<closed, scope>> /\ DiagTypeOK
  BY StepAlone DEF Alone, sessionVars, DiagInv
<1>2. CASE dpc[d] = "new"
  <2>1. DiagStatus[d] = "idle" /\ DiagTaken[d] = NoScope
    BY <1>2 DEF DiagStatus, DiagTaken, DiagInv, RequestInv, BindingOf, NoScope, Working
  <2>2. CASE UNCHANGED dbound /\ dpc'[d] = "done" /\ derr'[d] # "ok"
    <3>1. DiagStatus'[d] = "failed" /\ DiagTaken'[d] = DiagTaken[d]
      BY <2>2 DEF DiagStatus, DiagTaken, Working
    <3>2. DiagTaken' = DiagTaken
      BY <3>1, SameStatus
    <3> QED  BY <1>0, <1>1, <2>1, <3>1, <3>2 DEF DiagPromise!Abandon, DiagPromise!Become
  <2>3. CASE /\ dbound' = [dbound EXCEPT ![d] = scope]
             /\ scope.namespace = NoName /\ dpc'[d] = "record" /\ derr'[d] # "ok"
    <3>1. dbound'[d] = scope
      BY <1>1, <2>3 DEF DiagTypeOK
    <3>2. DiagStatus'[d] = "failed" /\ DiagTaken'[d] = DiagTaken[d]
      BY <2>1, <2>3, <3>1 DEF DiagStatus, DiagTaken, Working
    <3>3. DiagTaken' = DiagTaken
      BY <3>2, SameStatus
    <3> QED  BY <1>0, <1>1, <2>1, <3>2, <3>3 DEF DiagPromise!Abandon, DiagPromise!Become
  <2>4. CASE /\ dbound' = [dbound EXCEPT ![d] = scope] /\ ~closed /\ scope.context # NoName
             /\ scope.namespace # NoName /\ dpc'[d] = "slot"
    <3>1. dbound'[d] = scope
      BY <1>1, <2>4 DEF DiagTypeOK
    <3>2. DiagStatus'[d] = "reading" /\ DiagTaken'[d] = scope
      BY <2>4, <3>1 DEF DiagStatus, DiagTaken, Working
    <3> QED  BY <1>0, <1>1, <2>1, <2>4, <3>2 DEF DiagPromise!Take, DiagPromise!Become
  <2> QED  BY <1>2, <2>2, <2>3, <2>4, DiagFirstStep
<1>3. CASE dpc[d] # "new"
  <2>1. UNCHANGED dbound /\ (Confirms(d) \/ Answers(d) \/ Fails(d) \/ GoesOn(d))
    BY <1>3, DiagStepKinds
  <2>2. DiagTaken' = DiagTaken
    BY <2>1 DEF DiagTaken
  <2>3. CASE Confirms(d)
    <3>1. DiagStatus[d] = "reading" /\ DiagStatus'[d] = "confirmed"
      BY <2>3 DEF Confirms, DiagStatus, Working
    <3>2. DiagTaken[d] = scope
      BY <2>3 DEF Confirms, ScopesInForce, DiagTaken, DiagHolding, Working
    <3> QED  BY <1>0, <1>1, <2>2, <3>1, <3>2 DEF DiagPromise!Confirm, DiagPromise!Become
  <2>4. CASE Answers(d)
    <3>1. DiagStatus[d] = "confirmed" /\ DiagStatus'[d] = "ok"
      BY <2>4 DEF Answers, DiagStatus, Working
    <3> QED  BY <1>0, <1>1, <2>2, <3>1 DEF DiagPromise!Succeed, DiagPromise!Become
  <2>5. CASE Fails(d)
    <3>1. DiagStatus[d] \in {"reading", "confirmed"} /\ DiagStatus'[d] = "failed"
      BY <2>5 DEF Fails, DiagStatus, Reading, Working
    <3> QED  BY <1>0, <1>1, <2>2, <3>1 DEF DiagPromise!Abandon, DiagPromise!Become
  <2>6. CASE GoesOn(d)
    <3>1. DiagStatus'[d] = DiagStatus[d]
      BY <2>6 DEF GoesOn, DiagStatus, Reading, Working
    <3>2. DiagStatus' = DiagStatus
      BY <3>1, SameStatus
    <3> QED  BY <1>1, <2>2, <3>2 DEF DiagPromise!readVars
  <2> QED  BY <2>1, <2>3, <2>4, <2>5, <2>6
<1> QED  BY <1>2, <1>3

\* Every step of the system is a step of ScopedReads or leaves it alone.
LEMMA DiagStepRefines ==
    DiagInv /\ ScopesInForce /\ [DiagSystemNext]_diagSystemVars
        => [DiagPromise!ReadsNext]_(DiagPromise!readVars)
<1> SUFFICES ASSUME DiagInv, ScopesInForce, [DiagSystemNext]_diagSystemVars
             PROVE  [DiagPromise!ReadsNext]_(DiagPromise!readVars)
  OBVIOUS
<1>1. CASE UNCHANGED diagSystemVars \/ ClusterNext
  <2>1. UNCHANGED <<dpc, dbound, derr, scope, closed>>
    BY <1>1 DEF diagSystemVars, ClusterNext, CreatePod, DeletePod, diagVars, localVars, sessionVars
  <2> QED  BY <2>1 DEF DiagStatus, DiagTaken, DiagPromise!readVars
<1>2. CASE (OperatorNext \/ Discover) /\ UNCHANGED <<logVars, diagVars, clusterVars>>
  <2>1. UNCHANGED <<DiagStatus, DiagTaken>>
    BY <1>2 DEF diagVars, localVars, DiagStatus, DiagTaken
  <2>2. CASE Discover
    BY <2>1, <2>2 DEF Discover, AllowNamespaces, DiagPromise!readVars
  <2>3. ASSUME NEW name \in Contexts, SelectContext(name)
        PROVE  DiagPromise!MoveTo(name, NoName)
    BY <2>1, <2>3 DEF SelectContext, advanceLocked, DiagPromise!MoveTo
  <2>4. ASSUME NEW name \in Namespaces, NEW g \in Generations, SelectNamespaceAt(name, g)
        PROVE  DiagPromise!ChooseNamespace
    <3>1. scope.context # NoName /\ name \in NamespacesOf[scope.context]
      BY <2>4 DEF SelectNamespaceAt, DiagInv, SessionInv
    <3>2. DiagPromise!MoveTo(scope.context, name)
      BY <2>1, <2>4 DEF SelectNamespaceAt, advanceLocked, DiagPromise!MoveTo
    <3> QED  BY <3>1, <3>2 DEF DiagPromise!ChooseNamespace
  <2>5. ASSUME Close PROVE DiagPromise!EndSession
    BY <2>1, <2>5 DEF Close, DiagPromise!EndSession
  <2> QED  BY <1>2, <2>2, <2>3, <2>4, <2>5 DEF OperatorNext, DiagPromise!ReadsNext
<1>3. ASSUME NEW d \in Diagnoses, DiagRequestNext(d)
      PROVE  [DiagPromise!ReadsNext]_(DiagPromise!readVars)
  BY <1>3, DiagnosisRefines DEF DiagPromise!ReadsNext
<1> QED  BY <1>1, <1>2, <1>3 DEF DiagSystemNext

\* The diagnostic service keeps the promise of ScopedReads: a diagnosis succeeds only
\* if the scope it was bound to was in force, namespace and all, after its reads.
THEOREM DiagRefinement == DiagSpec => DiagImplementsScopedReads
<1>1. DiagSystemInit => ScopesInForce /\ DiagPromise!ReadsInit
  <2> SUFFICES ASSUME DiagSystemInit PROVE ScopesInForce /\ DiagPromise!ReadsInit
    OBVIOUS
  <2>1. \A d \in Diagnoses : dpc[d] = "new" /\ dbound[d] = NoScope
    BY DEF DiagSystemInit, DiagInit
  <2>2. ScopesInForce
    BY <2>1 DEF ScopesInForce, DiagBound, DiagHolding, Working
  <2>3. DiagStatus = [d \in Diagnoses |-> "idle"] /\ DiagTaken = [d \in Diagnoses |-> NoScope]
    BY <2>1 DEF DiagStatus, DiagTaken, NoScope, Working
  <2>4. scope = NoScope /\ ~closed
    BY DEF DiagSystemInit, SessionInit
  <2> QED
    BY <2>2, <2>3, <2>4 DEF DiagPromise!ReadsInit, DiagPromise!Nowhere, NoScope
<1> QED
  BY <1>1, ScopesInForceStep, DiagStepRefines, DiagInvariant, PTL
     DEF DiagSpec, DiagImplementsScopedReads, DiagPromise!ReadsSpec

-----------------------------------------------------------------------------
(***************************************************************************)
(* The diagnostics panel, for every set of Pods and                        *)
(* containers and every bound.                                             *)
(*                                                                         *)
(* Neither property is inductive.  Which answer counts is decided by       *)
(* <<mount, serial>>, so the invariant says what that pair means: no fetch *)
(* is from the future, two fetches never share it, the fetch that has it   *)
(* is the one pending, and it asked what the controls say now.             *)
(***************************************************************************)

\* What q asks agrees with what the panel displays.
AsksWhatIsShown(q) ==
    /\ q.generation = key.generation
    /\ q.pod = key.pod
    /\ IsLogRequest(q.operation) => q.container = container /\ q.previous = previous
    /\ q.operation \in {"logs", "events"} => acknowledged

\* Identifiers of fetches, and of aborted fetches, were handed out in this panel
\* or an earlier one, one to each fetch.
IdsAreOfThePast ==
    /\ \A f \in fetches : /\ f \in [id : FetchIds, query : Queries]
                          /\ f.id[1] < mount \/ (f.id[1] = mount /\ f.id[2] <= serial)
    /\ \A f, g \in fetches : f.id = g.id => f = g
    /\ \A i \in aborted : i[1] < mount \/ (i[1] = mount /\ i[2] < serial)
    /\ pending # 0 => <<mount, pending>> \in FetchIds

\* Only the pending fetch is live, the panel is busy for it, and it asks what the
\* panel displays.
OnlyPendingIsLive ==
    /\ busy <=> pending # 0
    /\ pending # 0 => \E f \in fetches : OfLatestRun(f)
    /\ \A f \in fetches : OfLatestRun(f) => pending # 0 /\ AsksWhatIsShown(f.query)
    /\ \A f \in fetches : f.id \notin aborted => OfLatestRun(f)
    /\ result # None => AsksWhatIsShown(result)

PanelInv == PanelTypeOK /\ IdsAreOfThePast /\ OnlyPendingIsLive

-----------------------------------------------------------------------------

\* The panel starts with nothing asked.
LEMMA PanelInitial == PanelInit => PanelInv
<1> SUFFICES ASSUME PanelInit PROVE PanelInv
  OBVIOUS
<1>1. PanelTypeOK
  <2>1. acknowledged \in BOOLEAN /\ previous \in BOOLEAN /\ busy \in BOOLEAN
    BY Zenon DEF PanelInit
  <2>2. mount \in 1 .. MaxMount /\ serial \in 0 .. MaxSerial /\ pending \in {0, serial}
    BY PanelBounds DEF PanelInit
  <2>3. key \in [generation : 1 .. MaxMount, pod : Pods \cup {None}]
    BY PanelBounds DEF PanelInit
  <2>4. /\ container \in Containers \cup {None} /\ result \in Queries \cup {None}
        /\ fetches = {} /\ aborted \in SUBSET FetchIds
    BY Zenon DEF PanelInit
  <2> QED  BY <2>1, <2>2, <2>3, <2>4 DEF PanelTypeOK
<1>2. IdsAreOfThePast
  BY DEF PanelInit, IdsAreOfThePast
<1>3. OnlyPendingIsLive
  BY DEF PanelInit, OnlyPendingIsLive
<1> QED  BY <1>1, <1>2, <1>3 DEF PanelInv

\* cancel, whatever control changes beside it: every fetch is then of the past and
\* aborted.
LEMMA CancelKeepsInv ==
    ASSUME PanelInv, Mounted, serial < MaxSerial, cancel,
           UNCHANGED <<mount, key, fetches>>,
           acknowledged' \in BOOLEAN, container' \in Containers \cup {None},
           previous' \in BOOLEAN
    PROVE  PanelInv'
<1>1. PanelTypeOK'
  <2>1. busy' \in BOOLEAN /\ result' \in Queries \cup {None}
    BY Zenon DEF cancel
  <2>2. serial' \in 0 .. MaxSerial /\ pending' \in {0, serial'}
    BY PanelBounds DEF PanelInv, PanelTypeOK, cancel
  <2>3. aborted' \in SUBSET FetchIds
    BY DEF PanelInv, PanelTypeOK, IdsAreOfThePast, cancel, AbortPending
  <2> QED  BY <2>1, <2>2, <2>3 DEF PanelInv, PanelTypeOK
<1>2. IdsAreOfThePast'
  BY PanelBounds DEF PanelInv, PanelTypeOK, IdsAreOfThePast, cancel, AbortPending, FetchIds
<1>3. OnlyPendingIsLive'
  BY PanelBounds DEF PanelInv, PanelTypeOK, IdsAreOfThePast, OnlyPendingIsLive, cancel,
                     AbortPending, FetchIds, OfLatestRun
<1> QED  BY <1>1, <1>2, <1>3 DEF PanelInv

\* A new panel: the fetches of the one before are of the past and aborted.
LEMMA RemountKeepsInv ==
    ASSUME PanelInv, NEW generation \in 1 .. MaxMount, NEW podShown \in Pods \cup {None},
           Remount(generation, podShown)
    PROVE  PanelInv'
<1>1. PanelTypeOK'
  <2>1. /\ acknowledged' \in BOOLEAN /\ previous' \in BOOLEAN /\ busy' \in BOOLEAN
        /\ container' \in Containers \cup {None} /\ result' \in Queries \cup {None}
    BY Zenon DEF Remount, FreshState
  <2>2. mount' \in 1 .. MaxMount /\ serial' \in 0 .. MaxSerial /\ pending' \in {0, serial'}
    BY PanelBounds DEF PanelInv, PanelTypeOK, Remount, FreshState
  <2>3. key' \in [generation : 1 .. MaxMount, pod : Pods \cup {None}]
    BY DEF Remount
  <2>4. aborted' \in SUBSET FetchIds /\ fetches' = fetches
    BY DEF PanelInv, PanelTypeOK, IdsAreOfThePast, Remount, AbortPending
  <2> QED  BY <2>1, <2>2, <2>3, <2>4 DEF PanelInv, PanelTypeOK
<1>2. IdsAreOfThePast'
  BY PanelBounds DEF PanelInv, PanelTypeOK, IdsAreOfThePast, Remount, FreshState, AbortPending,
                     FetchIds
<1>3. OnlyPendingIsLive'
  BY PanelBounds DEF PanelInv, PanelTypeOK, IdsAreOfThePast, OnlyPendingIsLive, Remount,
                     FreshState, AbortPending, FetchIds, OfLatestRun
<1> QED  BY <1>1, <1>2, <1>3 DEF PanelInv

\* run: its fetch has an identifier no other has, and is the only live one.
LEMMA RunKeepsInv ==
    ASSUME PanelInv, NEW op \in Operations, run(op)
    PROVE  PanelInv'
<1>q. PICK q : q = [generation |-> key.generation,
                    pod        |-> key.pod,
                    operation  |-> op,
                    container  |-> IF IsLogRequest(op) THEN container ELSE None,
                    previous   |-> IsLogRequest(op) /\ previous]
  OBVIOUS
<1>n. PICK new : new = [id |-> <<mount, serial + 1>>, query |-> q]
  OBVIOUS
<1>1. /\ fetches' = fetches \cup {new}
      /\ serial' = serial + 1 /\ pending' = serial + 1 /\ busy' = TRUE /\ result' = None
      /\ UNCHANGED <<mount, key, acknowledged, container, previous>>
      /\ Mounted /\ Enabled(op) /\ serial < MaxSerial /\ AbortPending
  BY <1>q, <1>n DEF run, controls
<1>2. q \in Queries
  BY <1>q, <1>1 DEF PanelInv, PanelTypeOK, Queries, Mounted, IsLogRequest
<1>3. new.id \in FetchIds /\ new \in [id : FetchIds, query : Queries]
  BY <1>n, <1>1, <1>2, PanelBounds DEF PanelInv, PanelTypeOK, FetchIds
<1>4. PanelTypeOK'
  BY <1>1, <1>3, PanelBounds DEF PanelInv, PanelTypeOK, IdsAreOfThePast, AbortPending
<1>5. IdsAreOfThePast'
  BY <1>n, <1>1, <1>3, PanelBounds DEF PanelInv, PanelTypeOK, IdsAreOfThePast, AbortPending, FetchIds
<1>6. AsksWhatIsShown(q)'
  <2>1. /\ q.generation = key.generation /\ q.pod = key.pod /\ q.operation = op
        /\ IsLogRequest(op) => q.container = container /\ q.previous = previous
    <3>1. CASE IsLogRequest(op)
      BY <1>q, <3>1 DEF PanelInv, PanelTypeOK
    <3> QED  BY <1>q, <3>1
  <2>2. op \in {"logs", "events"} => acknowledged
    BY <1>1 DEF Enabled
  <2>3. /\ key' = key /\ container' = container /\ previous' = previous
        /\ acknowledged' = acknowledged
    BY <1>1
  <2> QED  BY <2>1, <2>2, <2>3, Zenon DEF AsksWhatIsShown
<1>7. OnlyPendingIsLive'
  <2>1. OfLatestRun(new)' /\ new \in fetches'
    BY <1>n, <1>1 DEF OfLatestRun
  <2>2. pending' # 0 /\ busy' /\ result' = None
    BY <1>1, PanelBounds DEF PanelInv, PanelTypeOK
  <2>3. \A f \in fetches' : OfLatestRun(f)' => f = new
    BY <1>1, <1>3, PanelBounds DEF PanelInv, PanelTypeOK, IdsAreOfThePast, FetchIds, OfLatestRun
  <2>4. \A f \in fetches' : f.id \notin aborted' => f = new
    BY <1>1 DEF PanelInv, PanelTypeOK, OnlyPendingIsLive, AbortPending, OfLatestRun
  <2> QED  BY <1>n, <1>6, <2>1, <2>2, <2>3, <2>4 DEF OnlyPendingIsLive
<1> QED  BY <1>4, <1>5, <1>7 DEF PanelInv

\* Settling: only the pending fetch's answer is displayed, and only it ends busy.
LEMMA SettleKeepsInv ==
    ASSUME PanelInv, NEW f \in fetches, NEW ok \in BOOLEAN, Settle(f, ok)
    PROVE  PanelInv'
<1>1. UNCHANGED <<mount, key, acknowledged, container, previous, serial, aborted>>
  BY DEF Settle, controls
<1>2. PanelTypeOK'
  BY <1>1 DEF PanelInv, PanelTypeOK, IdsAreOfThePast, Settle
<1>3. IdsAreOfThePast'
  BY <1>1 DEF PanelInv, PanelTypeOK, IdsAreOfThePast, Settle
<1>4. OnlyPendingIsLive'
  BY <1>1 DEF PanelInv, PanelTypeOK, IdsAreOfThePast, OnlyPendingIsLive, Settle, OfLatestRun,
              AsksWhatIsShown, FetchIds
<1> QED  BY <1>2, <1>3, <1>4 DEF PanelInv

\* PanelInv is inductive.
LEMMA PanelInvInductive == PanelInv /\ [PanelNext]_panelVars => PanelInv'
<1> SUFFICES ASSUME PanelInv, [PanelNext]_panelVars PROVE PanelInv'
  OBVIOUS
<1>1. ASSUME NEW generation \in 1 .. MaxMount, NEW podShown \in Pods \cup {None},
             Remount(generation, podShown)
      PROVE  PanelInv'
  BY <1>1, RemountKeepsInv
<1>2. CASE Cancel
  BY <1>2, CancelKeepsInv DEF Cancel, controls, PanelInv, PanelTypeOK
<1>3. ASSUME NEW value \in BOOLEAN, SetAcknowledged(value)
      PROVE  PanelInv'
  BY <1>3, CancelKeepsInv DEF SetAcknowledged, PanelInv, PanelTypeOK
<1>4. ASSUME NEW value \in BOOLEAN, SetPrevious(value)
      PROVE  PanelInv'
  BY <1>4, CancelKeepsInv DEF SetPrevious, PanelInv, PanelTypeOK
<1>5. ASSUME NEW name \in Containers \cup {None}, SetContainer(name)
      PROVE  PanelInv'
  BY <1>5, CancelKeepsInv DEF SetContainer, PanelInv, PanelTypeOK
<1>6. ASSUME NEW op \in Operations, run(op)
      PROVE  PanelInv'
  BY <1>6, RunKeepsInv
<1>7. CASE SettleSome
  BY <1>7, SettleKeepsInv DEF SettleSome
<1>8. CASE UNCHANGED panelVars
  BY <1>8 DEF panelVars, controls, PanelInv, PanelTypeOK, IdsAreOfThePast, OnlyPendingIsLive,
              OfLatestRun, AsksWhatIsShown
<1> QED  BY <1>1, <1>2, <1>3, <1>4, <1>5, <1>6, <1>7, <1>8 DEF PanelNext

\* The invariant holds in every state of the panel.
THEOREM PanelInvariant == PanelSpec => []PanelInv
BY PanelInitial, PanelInvInductive, PTL DEF PanelSpec

-----------------------------------------------------------------------------

\* What the panel displays is what its controls ask for (run's comparison of
\* serial and signal, cancel in every control's handler, the key of the mount).
THEOREM ResultAlwaysMatchesControls == PanelSpec => []ResultMatchesControls
<1>1. PanelInv => ResultMatchesControls
  BY DEF PanelInv, OnlyPendingIsLive, AsksWhatIsShown, ResultMatchesControls
<1> QED  BY <1>1, PanelInvariant, PTL

\* The panel is busy exactly while its latest run is under way and never has a
\* second live fetch (run, cancel and the effect's clean-up).
THEOREM LatestRunAlwaysOwnsPanel == PanelSpec => []LatestRunOwnsPanel
<1>1. ASSUME PanelInv PROVE BusyWhileLatestRuns
  <2>1. busy \in BOOLEAN /\ (busy <=> \E f \in fetches : OfLatestRun(f))
    BY <1>1 DEF PanelInv, PanelTypeOK, OnlyPendingIsLive
  <2> QED  BY <2>1, Zenon DEF BusyWhileLatestRuns
<1>2. ASSUME PanelInv PROVE OneLiveFetch
  <2> DEFINE live == {f \in fetches : f.id \notin aborted}
  <2>1. \A f, g \in live : f = g
    BY <1>2 DEF PanelInv, OnlyPendingIsLive, IdsAreOfThePast, OfLatestRun
  <2>2. live = {} \/ \E f : live = {f}
    BY <2>1
  <2>3. Cardinality(live) \in {0, 1}
    BY <2>2, FS_EmptySet, FS_Singleton
  <2> QED  BY <2>3 DEF OneLiveFetch
<1>3. PanelInv => LatestRunOwnsPanel
  BY <1>1, <1>2 DEF LatestRunOwnsPanel
<1> QED  BY <1>3, PanelInvariant, PTL

=============================================================================
