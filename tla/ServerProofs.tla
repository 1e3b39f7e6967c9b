---------------------------- MODULE ServerProofs ----------------------------
(***************************************************************************)
(* Proofs about the console's server, for every set of contexts,           *)
(* namespaces, requests and handlers and every slot, log and generation    *)
(* bound.                                                                  *)
(*                                                                         *)
(* The resource service: its invariants, the activity record it leaves,    *)
(* superseded and cancelled requests, and that it implements ScopedReads.  *)
(*                                                                         *)
(* The process: a shutdown spans several steps and the accept loop, the    *)
(* handlers and the operator go on between them.  The invariant says, for  *)
(* each place serve can stand at, who still has something to say: which of *)
(* the accept loop and its channel holds the one error, and whether the    *)
(* session is closed; and that a context a handler holds is no newer than  *)
(* the session's, and older once the session is closed.                    *)
(***************************************************************************)
EXTENDS ResourceService, Lifecycle, ConsoleLemmas

-----------------------------------------------------------------------------
(* The resource service.                                                   *)

\* What each request may hold at each point of Execute.
RequestInv ==
    \A r \in Requests :
        /\ pc[r] = "new" => bound[r] = NoScope
        /\ pc[r] \in Active =>
               /\ Bound(r)
               /\ query[r] \in Queries
               /\ query[r].resource \in allowedKinds
        /\ Bound(r) =>
               /\ bound[r].context \in Contexts
               /\ bound[r].generation > 0
               /\ bound[r].generation <= scope.generation
               /\ bound[r].generation = scope.generation => bound[r] = scope
        /\ pc[r] = "calling" => calls[r] > 0
        /\ listed[r] # {} => pc[r] = "allow" /\ listed[r] \subseteq NamespacesOf[bound[r].context]
        /\ pc[r] = "record" => outcome[r] \in Codes \cup {"ok"}
        /\ pc[r] \in BeforeCheck \cup {"new", "final"} => outcome[r] = "none"

\* Requests bound under one generation saw one scope.
AgreementInv ==
    \A r, q \in Requests :
        Bound(r) /\ Bound(q) /\ bound[r].generation = bound[q].generation
            => bound[r] = bound[q]

-----------------------------------------------------------------------------

\* project makes between one and three list calls, whatever the kind.
LEMMA CallsInRange ==
    \A k \in allowedKinds : UpstreamCalls[k] \in 1 .. 3
BY DEF allowedKinds, UpstreamCalls

\* mapError yields one of its own codes for every error, never "ok".
LEMMA MapErrorInCodes ==
    \A err : mapError(err) \in Codes
BY DEF mapError, Codes

\* t is s with e appended, without the oldest entries that exceed the limit.
LatestKept(E, s, e, t) ==
    LET n == IF Len(s) + 1 > MaxActivity THEN MaxActivity ELSE Len(s) + 1
    IN  /\ t \in Seq(E)
        /\ Len(t) = n
        /\ \A i \in 1 .. n : t[i] = IF i = n THEN e ELSE s[Len(s) + 1 - n + i]

\* What the bounded log holds after an append.
LEMMA LatestProperties ==
    ASSUME NEW E, NEW s \in Seq(E), NEW e \in E
    PROVE  LatestKept(E, s, e, Latest(Append(s, e)))
<1>1. PICK n : n = LengthAfter(Len(s), MaxActivity)
  OBVIOUS
<1>2. Latest(Append(s, e)) = LastOf(Append(s, e), MaxActivity)
  BY DEF Latest, LastOf
<1>3. /\ Latest(Append(s, e)) \in Seq(E)
      /\ Len(Latest(Append(s, e))) = n
      /\ \A i \in 1 .. n : Latest(Append(s, e))[i] = IF i = n THEN e ELSE s[Len(s) + 1 - n + i]
  <2>1. MaxActivity \in Nat \ {0}
    BY MaxActivityAssumption
  <2>2. AppendKeepsLast(E, s, e, MaxActivity, n)
    BY <1>1, <2>1, LastOfAppend, Zenon
  <2> QED  BY <1>2, <2>2 DEF AppendKeepsLast
<1> QED  BY <1>1, <1>3 DEF LengthAfter, LatestKept

-----------------------------------------------------------------------------

\* The inductive invariant behind the safety theorems and the refinement.
IInv == TypeOK /\ SessionInv /\ RequestInv /\ SlotsHeldByHandlers

\* The record, as a sequence of entries.
LogTypeOK == sequence \in Nat /\ activity \in Seq(Entries(Scopes, Codes \cup {"ok"}))

\* The requests that hold a slot.
Holders == {r \in Requests : pc[r] \in HoldingSlot}

\* The handlers holding a slot are finitely many, so they can be counted.
LEMMA HoldersFinite == IsFiniteSet(Holders)
BY RequestsAssumption, FS_Subset DEF Holders

\* A fresh process satisfies the invariant.
LEMMA IInvInit == Init => IInv
<1> SUFFICES ASSUME Init PROVE IInv
  OBVIOUS
<1> USE DEF Init, SessionInit, LogInit, RequestInit
<1>1. TypeOK
  <2>1. SessionTypeOK
    BY DEF SessionTypeOK, NoScope, Scopes
  <2>2. RequestTypeOK
    BY MaxConcurrentAssumption DEF RequestTypeOK, NoScope, Scopes, Active
  <2> QED
    BY <2>1, <2>2 DEF TypeOK
<1>2. SessionInv
  BY DEF SessionInv, NoScope
<1>3. RequestInv
  BY DEF RequestInv, NoScope, Bound, Active, BeforeCheck
<1>4. SlotsHeldByHandlers
  <2>1. {r \in Requests : pc[r] \in HoldingSlot} = {}
    BY DEF HoldingSlot, Active
  <2> QED
    BY <2>1, FS_EmptySet DEF SlotsHeldByHandlers
<1> QED
  BY <1>1, <1>2, <1>3, <1>4 DEF IInv

\* Steps that do not touch the session, or the log.
LEMMA SessionFrame ==
    ASSUME IInv, UNCHANGED sessionVars
    PROVE  SessionTypeOK' /\ SessionInv'
BY SessionRests DEF IInv, TypeOK

\* Steps that do not touch the log.
LEMMA LogFrame ==
    ASSUME IInv, UNCHANGED logVars
    PROVE  LogTypeOK'
BY DEF IInv, TypeOK, LogTypeOK, logVars

\* record appends an entry of the right type.
LEMMA LogTyped ==
    ASSUME IInv, NEW r \in Requests, NEW c \in Codes \cup {"ok"},
           record("resources.read", bound[r], c)
    PROVE  LogTypeOK'
<1> DEFINE E == Entries(Scopes, Codes \cup {"ok"})
           e == [sequence |-> sequence + 1, capability |-> "resources.read",
                 scope |-> bound[r], outcome |-> c]
<1>1. sequence \in Nat /\ activity \in Seq(E)
  BY DEF IInv, TypeOK
<1>2. e \in E
  BY DEF IInv, TypeOK, RequestTypeOK, Entries, Capabilities
<1> HIDE DEF E, e
<1>3. Latest(Append(activity, e)) \in Seq(E)
  BY <1>1, <1>2, LatestProperties DEF LatestKept
<1> QED
  BY <1>1, <1>3 DEF record, LogTypeOK, E, e

\* The slots are counted right as long as the request that moves keeps,
\* takes or returns its own.
LEMMA SlotsKept ==
    ASSUME IInv, NEW r \in Requests, NEW l,
           Goto(r, l), UNCHANGED slots,
           (l \in HoldingSlot) <=> (pc[r] \in HoldingSlot)
    PROVE  SlotsHeldByHandlers'
<1>1. Holders' = Holders
  BY DEF Holders, Goto, IInv, TypeOK, RequestTypeOK
<1> QED
  BY <1>1 DEF SlotsHeldByHandlers, IInv, Holders

\* Taking a slot adds the request to the holders.
LEMMA SlotTaken ==
    ASSUME IInv, NEW r \in Requests, AcquireSlot(r)
    PROVE  SlotsHeldByHandlers'
<1>1. Holders' = Holders \cup {r} /\ r \notin Holders
  BY DEF Holders, Goto, AcquireSlot, IInv, TypeOK, RequestTypeOK, HoldingSlot, Active
<1>2. Cardinality(Holders') = Cardinality(Holders) + 1
  BY <1>1, HoldersFinite, FS_AddElement
<1> QED
  BY <1>2 DEF SlotsHeldByHandlers, IInv, Holders, AcquireSlot

\* Returning a slot removes the request from the holders.
LEMMA SlotReturned ==
    ASSUME IInv, NEW r \in Requests, ReleaseSlot(r)
    PROVE  SlotsHeldByHandlers' /\ slots > 0
<1>1. Holders' = Holders \ {r} /\ r \in Holders
  BY DEF Holders, Goto, ReleaseSlot, IInv, TypeOK, RequestTypeOK, HoldingSlot, Active
<1>2. Cardinality(Holders') = Cardinality(Holders) - 1
  BY <1>1, HoldersFinite, FS_RemoveElement
<1>3. Cardinality(Holders) \in Nat /\ Cardinality(Holders') \in Nat
  BY <1>1, HoldersFinite, FS_CardinalityType, FS_RemoveElement
<1> QED
  BY <1>2, <1>3 DEF SlotsHeldByHandlers, IInv, Holders, ReleaseSlot

\* An early return of Execute, before a scope is bound.
LEMMA RefusePreserves ==
    ASSUME IInv, NEW r \in Requests,
           NEW code \in Codes \cup {"invalid_request", "namespace_required"},
           Refuse(r, code), UNCHANGED <<sessionVars, logVars>>, pc[r] = "new"
    PROVE  IInv'
<1>1. SessionTypeOK' /\ SessionInv'
  BY SessionFrame DEF Refuse
<1>2. LogTypeOK'
  BY LogFrame DEF Refuse
<1>3. RequestTypeOK'
  BY DEF IInv, Refuse, Goto, TypeOK, RequestTypeOK, RequestInv, Active, SessionTypeOK
<1>4. RequestInv'
  BY DEF IInv, Refuse, Goto, TypeOK, SessionTypeOK, RequestTypeOK, RequestInv, SessionInv,
         Active, BeforeCheck, Bound, NoScope, sessionVars
<1>5. SlotsHeldByHandlers'
  BY SlotsKept DEF Refuse, HoldingSlot, Active
<1> QED
  BY <1>1, <1>2, <1>3, <1>4, <1>5 DEF IInv, TypeOK, LogTypeOK

\* Binding: the scope handed out is the one in force.
LEMMA BindPreserves ==
    ASSUME IInv, NEW r \in Requests, NEW q \in Queries, NEW g, Bind(r, q, g)
    PROVE  IInv'
<1>1. SessionTypeOK' /\ SessionInv'
  BY SessionFrame DEF Bind
<1>2. LogTypeOK'
  BY LogFrame DEF Bind
<1>3. RequestTypeOK'
  BY DEF IInv, Bind, Goto, ValidQuery, MayBind, TypeOK, RequestTypeOK, RequestInv, Active,
         SessionTypeOK
<1>4. RequestInv'
  BY NamesAssumption DEF IInv, Bind, Goto, ValidQuery, MayBind, Scopes, TypeOK, SessionTypeOK,
         RequestTypeOK, RequestInv, SessionInv, Active, BeforeCheck, Bound, NoScope, sessionVars
<1>5. SlotsHeldByHandlers'
  BY SlotsKept DEF Bind, HoldingSlot, Active
<1> QED
  BY <1>1, <1>2, <1>3, <1>4, <1>5 DEF IInv, TypeOK, LogTypeOK

\* The end of a request context, for whatever reason.
LEMMA EndContextPreserves ==
    ASSUME IInv, NEW r \in Requests, NEW err \in {"Canceled", "DeadlineExceeded"},
           EndContext(r, err)
    PROVE  IInv'
<1>1. SessionTypeOK' /\ SessionInv'
  BY SessionFrame DEF EndContext
<1>2. LogTypeOK'
  BY LogFrame DEF EndContext
<1>3. RequestTypeOK'
  BY DEF IInv, EndContext, TypeOK, RequestTypeOK, RequestInv, Active, SessionTypeOK
<1>4. RequestInv'
  BY DEF IInv, EndContext, TypeOK, SessionTypeOK, RequestTypeOK, RequestInv, SessionInv, Active,
         BeforeCheck, Bound, NoScope, sessionVars
<1>5. SlotsHeldByHandlers'
  BY DEF EndContext, IInv, SlotsHeldByHandlers
<1> QED
  BY <1>1, <1>2, <1>3, <1>4, <1>5 DEF IInv, TypeOK, LogTypeOK

\* Acquiring a slot: the channel had room, so the capacity is kept.
LEMMA AcquireSlotPreserves ==
    ASSUME IInv, NEW r \in Requests, AcquireSlot(r)
    PROVE  IInv'
<1>1. SessionTypeOK' /\ SessionInv'
  BY SessionFrame DEF AcquireSlot
<1>2. LogTypeOK'
  BY LogFrame DEF AcquireSlot
<1>3. RequestTypeOK'
  BY MaxConcurrentAssumption DEF IInv, AcquireSlot, Goto, TypeOK, RequestTypeOK, RequestInv,
         Active, SessionTypeOK
<1>4. RequestInv'
  BY DEF IInv, AcquireSlot, Goto, TypeOK, SessionTypeOK, RequestTypeOK, RequestInv, SessionInv,
         Active, BeforeCheck, Bound, NoScope, sessionVars
<1>5. SlotsHeldByHandlers'
  BY SlotTaken
<1> QED
  BY <1>1, <1>2, <1>3, <1>4, <1>5 DEF IInv, TypeOK, LogTypeOK

\* Building the client sets the number of lists still to answer.
LEMMA BuildClientPreserves ==
    ASSUME IInv, NEW r \in Requests, BuildClient(r)
    PROVE  IInv'
<1>1. SessionTypeOK' /\ SessionInv'
  BY SessionFrame DEF BuildClient
<1>2. LogTypeOK'
  BY LogFrame DEF BuildClient
<1>3. RequestTypeOK'
  BY CallsInRange DEF IInv, BuildClient, Goto, TypeOK, RequestTypeOK, RequestInv, Active,
         SessionTypeOK
<1>4. RequestInv'
  <2>0. query[r].resource \in allowedKinds /\ calls'[r] = UpstreamCalls[query[r].resource]
    BY DEF IInv, BuildClient, TypeOK, RequestTypeOK, RequestInv, Active
  <2>1. calls'[r] > 0
    <3>1. UpstreamCalls[query[r].resource] \in 1 .. 3
      BY <2>0, CallsInRange
    <3> QED
      BY <2>0, <3>1
  <2>2. \A q \in Requests \ {r} : calls'[q] = calls[q] /\ pc'[q] = pc[q]
    BY DEF IInv, BuildClient, Goto, TypeOK, RequestTypeOK
  <2>3. pc'[r] = "calling"
    BY DEF IInv, BuildClient, Goto, TypeOK, RequestTypeOK
  <2>4. UNCHANGED <<query, bound, listed, outcome, scope>>
    BY DEF BuildClient, sessionVars
  <2> QED
    BY <2>1, <2>2, <2>3, <2>4 DEF IInv, BuildClient, RequestInv, Active, BeforeCheck, Bound, NoScope
<1>5. SlotsHeldByHandlers'
  BY SlotsKept DEF BuildClient, HoldingSlot, Active
<1> QED
  BY <1>1, <1>2, <1>3, <1>4, <1>5 DEF IInv, TypeOK, LogTypeOK

\* finishError, from any point at which the slot is held.
LEMMA FailPreserves ==
    ASSUME IInv, NEW r \in Requests, NEW err, Fail(r, err), pc[r] \in HoldingSlot \ {"release"}
    PROVE  IInv'
<1>1. SessionTypeOK' /\ SessionInv'
  BY SessionFrame DEF Fail
<1>2. LogTypeOK'
  BY LogFrame DEF Fail
<1>3. RequestTypeOK'
  BY MapErrorInCodes DEF IInv, Fail, Goto, HoldingSlot, TypeOK, RequestTypeOK, RequestInv,
         Active, SessionTypeOK
<1>4. RequestInv'
  BY MapErrorInCodes DEF IInv, Fail, Goto, HoldingSlot, TypeOK, SessionTypeOK, RequestTypeOK,
         RequestInv, SessionInv, Active, BeforeCheck, Bound, NoScope, sessionVars
<1>5. SlotsHeldByHandlers'
  BY SlotsKept DEF Fail, HoldingSlot, Active
<1> QED
  BY <1>1, <1>2, <1>3, <1>4, <1>5 DEF IInv, TypeOK, LogTypeOK

\* A list that answers; a namespace list stays within the bound context's cluster.
LEMMA ListAnswersPreserves ==
    ASSUME IInv, NEW r \in Requests, ListAnswers(r)
    PROVE  IInv'
<1>0. bound[r].context \in Contexts /\ calls[r] \in 1 .. 3 /\ listed[r] = {}
  <2>1. pc[r] = "calling"
    BY DEF ListAnswers
  <2>2. listed[r] = {}
    BY <2>1 DEF IInv, RequestInv
  <2>3. bound[r].context \in Contexts
    BY <2>1 DEF IInv, RequestInv, Active
  <2>4. calls[r] \in 1 .. 3
    BY <2>1 DEF IInv, TypeOK, RequestTypeOK, RequestInv
  <2> QED
    BY <2>2, <2>3, <2>4
<1>1. SessionTypeOK' /\ SessionInv'
  BY SessionFrame DEF ListAnswers
<1>2. LogTypeOK'
  BY LogFrame DEF ListAnswers
<1>3. RequestTypeOK'
  <2>1. calls' \in [Requests -> 0 .. 3]
    BY <1>0 DEF IInv, ListAnswers, TypeOK, RequestTypeOK
  <2>2. listed' \in [Requests -> SUBSET Namespaces]
    <3>1. NamespacesOf[bound[r].context] \subseteq Namespaces
      BY <1>0, NamesAssumption
    <3>2. listed \in [Requests -> SUBSET Namespaces]
      BY DEF IInv, TypeOK, RequestTypeOK
    <3> QED
      BY <3>1, <3>2 DEF ListAnswers
  <2>3. pc' \in [Requests -> Active \cup {"new", "done"}]
    BY DEF IInv, ListAnswers, Goto, TypeOK, RequestTypeOK, Active
  <2> QED
    BY <2>1, <2>2, <2>3 DEF IInv, ListAnswers, TypeOK, RequestTypeOK
<1>4. RequestInv'
  <2>1. \A q \in Requests \ {r} : calls'[q] = calls[q] /\ pc'[q] = pc[q] /\ listed'[q] = listed[q]
    BY DEF IInv, ListAnswers, Goto, TypeOK, RequestTypeOK
  <2>2. UNCHANGED <<query, bound, outcome, scope>>
    BY DEF ListAnswers, sessionVars
  <2>3. /\ pc'[r] \in {"allow", "check", "calling"}
        /\ pc'[r] = "calling" => calls'[r] > 0
        /\ listed'[r] # {} => pc'[r] = "allow" /\ listed'[r] \subseteq
               NamespacesOf[bound[r].context]
    <3>1. CASE query[r].resource = "namespaces" /\ query[r].operation = "list"
      BY <3>1 DEF IInv, ListAnswers, Goto, TypeOK, RequestTypeOK
    <3>2. CASE ~(query[r].resource = "namespaces" /\ query[r].operation = "list")
      BY <1>0, <3>2 DEF IInv, ListAnswers, Goto, TypeOK, RequestTypeOK
    <3> QED
      BY <3>1, <3>2
  <2> QED
    BY <2>1, <2>2, <2>3 DEF IInv, ListAnswers, RequestInv, Active, BeforeCheck, Bound, NoScope
<1>5. SlotsHeldByHandlers'
  BY SlotsKept DEF ListAnswers, HoldingSlot, Active
<1> QED
  BY <1>1, <1>2, <1>3, <1>4, <1>5 DEF IInv, TypeOK, LogTypeOK

\* A panic keeps the slot until the deferred release.
LEMMA PanicPreserves ==
    ASSUME IInv, NEW r \in Requests, Panic(r)
    PROVE  IInv'
<1>1. SessionTypeOK' /\ SessionInv'
  BY SessionFrame DEF Panic
<1>2. LogTypeOK'
  BY LogFrame DEF Panic
<1>3. RequestTypeOK'
  BY DEF IInv, Panic, Goto, TypeOK, RequestTypeOK, RequestInv, Active, SessionTypeOK
<1>4. RequestInv'
  BY DEF IInv, Panic, Goto, TypeOK, SessionTypeOK, RequestTypeOK, RequestInv, SessionInv,
         Active, BeforeCheck, Bound, NoScope, sessionVars
<1>5. SlotsHeldByHandlers'
  BY SlotsKept DEF Panic, HoldingSlot, Active
<1> QED
  BY <1>1, <1>2, <1>3, <1>4, <1>5 DEF IInv, TypeOK, LogTypeOK

\* The deferred release: there is a token in the channel to take.
LEMMA ReleaseSlotPreserves ==
    ASSUME IInv, NEW r \in Requests, ReleaseSlot(r)
    PROVE  IInv'
<1>1. SessionTypeOK' /\ SessionInv'
  BY SessionFrame DEF ReleaseSlot
<1>2. LogTypeOK'
  BY LogFrame DEF ReleaseSlot
<1>3. RequestTypeOK'
  <2>1. slots' \in 0 .. MaxConcurrent
    BY SlotReturned, MaxConcurrentAssumption DEF IInv, ReleaseSlot, TypeOK, RequestTypeOK
  <2> QED
    BY <2>1 DEF IInv, ReleaseSlot, Goto, TypeOK, RequestTypeOK
<1>4. RequestInv'
  BY DEF IInv, ReleaseSlot, Goto, TypeOK, SessionTypeOK, RequestTypeOK, RequestInv, SessionInv,
         Active, BeforeCheck, Bound, NoScope, sessionVars
<1>5. SlotsHeldByHandlers'
  BY SlotReturned
<1> QED
  BY <1>1, <1>2, <1>3, <1>4, <1>5 DEF IInv, TypeOK, LogTypeOK

\* Publishing namespaces: the generation test makes the bound context the selected one.
LEMMA PublishNamespacesPreserves ==
    ASSUME IInv, NEW r \in Requests, PublishNamespaces(r)
    PROVE  IInv'
<1>1. CASE Fail(r, "ErrStaleScope")
  BY <1>1, FailPreserves DEF PublishNamespaces, HoldingSlot, Active
<1>2. CASE /\ AllowNamespaces(bound[r].generation, listed[r])
           /\ Goto(r, "check")
           /\ listed' = [listed EXCEPT ![r] = {}]
           /\ UNCHANGED <<query, bound, bindCtx, ctxErr, calls, outcome, slots>>
           /\ UNCHANGED logVars
  <2> USE <1>2
  <2>1. SessionTypeOK' /\ SessionInv'
    <3>1. bound[r] = scope
      BY DEF PublishNamespaces, AllowNamespaces, MayAllowNamespaces, IInv, RequestInv, Active
    <3>2. listed[r] \subseteq NamespacesOf[scope.context] /\ listed[r] \subseteq Namespaces
      BY <3>1 DEF IInv, RequestInv, TypeOK, RequestTypeOK
    <3>3. UNCHANGED <<closed, scope, scopeContext, cancelledContexts>> /\ scope.context # NoName
      BY DEF AllowNamespaces, MayAllowNamespaces
    <3>4. allowedNamespaces' = listed[r] \ {NoName}
      BY DEF AllowNamespaces
    <3> QED
      BY <3>2, <3>3, <3>4 DEF IInv, TypeOK, SessionTypeOK, SessionInv
  <2>2. LogTypeOK'
    BY LogFrame
  <2>3. RequestTypeOK'
    BY DEF IInv, TypeOK, RequestTypeOK, Goto, Active
  <2>4. RequestInv'
    <3>1. UNCHANGED scope
      BY DEF AllowNamespaces
    <3> QED
      BY <3>1 DEF IInv, PublishNamespaces, Goto, TypeOK, RequestTypeOK, RequestInv, Active,
             BeforeCheck, Bound, NoScope
  <2>5. SlotsHeldByHandlers'
    BY SlotsKept DEF PublishNamespaces, HoldingSlot, Active
  <2> QED
    BY <2>1, <2>2, <2>3, <2>4, <2>5 DEF IInv, TypeOK, LogTypeOK
<1> QED
  BY <1>1, <1>2 DEF PublishNamespaces

\* The generation comparison, on its failing and its passing branches.
LEMMA CheckGenerationPreserves ==
    ASSUME IInv, NEW r \in Requests, CheckGeneration(r)
    PROVE  IInv'
<1>1. ASSUME NEW err, Fail(r, err) PROVE IInv'
  BY <1>1, FailPreserves DEF CheckGeneration, HoldingSlot, Active
<1>2. CASE /\ Goto(r, "final")
           /\ UNCHANGED <<query, bound, bindCtx, ctxErr, calls, listed, outcome, slots>>
           /\ UNCHANGED <<sessionVars, logVars>>
  <2> USE <1>2
  <2>1. SessionTypeOK' /\ SessionInv' /\ LogTypeOK'
    BY SessionFrame, LogFrame
  <2>2. RequestTypeOK'
    BY DEF IInv, TypeOK, RequestTypeOK, Goto, Active
  <2>3. RequestInv'
    BY DEF IInv, CheckGeneration, Goto, TypeOK, RequestTypeOK, RequestInv, Active, BeforeCheck,
           Bound, NoScope, sessionVars
  <2>4. SlotsHeldByHandlers'
    BY SlotsKept DEF CheckGeneration, HoldingSlot, Active
  <2> QED
    BY <2>1, <2>2, <2>3, <2>4 DEF IInv, TypeOK, LogTypeOK
<1> QED
  BY <1>1, <1>2 DEF CheckGeneration

\* The last look at the context and the size of the result.
LEMMA FinalCheckPreserves ==
    ASSUME IInv, NEW r \in Requests, FinalCheck(r)
    PROVE  IInv'
<1>1. ASSUME NEW err \in {ctxErr[r], "TooLarge"}, Fail(r, err) PROVE IInv'
  BY <1>1, FailPreserves DEF FinalCheck, HoldingSlot, Active
<1>2. CASE /\ Goto(r, "record")
           /\ outcome' = [outcome EXCEPT ![r] = "ok"]
           /\ UNCHANGED <<query, bound, bindCtx, ctxErr, calls, listed, slots>>
           /\ UNCHANGED <<sessionVars, logVars>>
  <2> USE <1>2
  <2>1. SessionTypeOK' /\ SessionInv' /\ LogTypeOK'
    BY SessionFrame, LogFrame
  <2>2. RequestTypeOK'
    BY DEF IInv, TypeOK, RequestTypeOK, Goto, Active
  <2>3. RequestInv'
    BY DEF IInv, FinalCheck, Goto, TypeOK, RequestTypeOK, RequestInv, Active, BeforeCheck,
           Bound, NoScope, sessionVars
  <2>4. SlotsHeldByHandlers'
    BY SlotsKept DEF FinalCheck, HoldingSlot, Active
  <2> QED
    BY <2>1, <2>2, <2>3, <2>4 DEF IInv, TypeOK, LogTypeOK
<1> QED
  BY <1>1, <1>2 DEF FinalCheck

\* A request that gives up in the slot queue is recorded and holds nothing.
LEMMA GiveUpWaitingPreserves ==
    ASSUME IInv, NEW r \in Requests, GiveUpWaiting(r)
    PROVE  IInv'
<1>1. SessionTypeOK' /\ SessionInv'
  BY SessionFrame DEF GiveUpWaiting
<1>2. LogTypeOK'
  BY LogTyped, MapErrorInCodes DEF GiveUpWaiting
<1>3. RequestTypeOK'
  BY MapErrorInCodes DEF IInv, GiveUpWaiting, Goto, TypeOK, RequestTypeOK
<1>4. RequestInv'
  BY DEF IInv, GiveUpWaiting, Goto, TypeOK, RequestTypeOK, RequestInv, Active, BeforeCheck,
         Bound, NoScope, sessionVars
<1>5. SlotsHeldByHandlers'
  BY SlotsKept DEF GiveUpWaiting, HoldingSlot, Active
<1> QED
  BY <1>1, <1>2, <1>3, <1>4, <1>5 DEF IInv, TypeOK, LogTypeOK

\* Recording an outcome decided earlier.
LEMMA RecordOutcomePreserves ==
    ASSUME IInv, NEW r \in Requests, RecordOutcome(r)
    PROVE  IInv'
<1>1. SessionTypeOK' /\ SessionInv'
  BY SessionFrame DEF RecordOutcome
<1>2. LogTypeOK'
  BY LogTyped DEF RecordOutcome, IInv, RequestInv
<1>3. RequestTypeOK'
  BY DEF IInv, RecordOutcome, Goto, TypeOK, RequestTypeOK, Active
<1>4. RequestInv'
  BY DEF IInv, RecordOutcome, Goto, TypeOK, RequestTypeOK, RequestInv, Active, BeforeCheck,
         Bound, NoScope, sessionVars
<1>5. SlotsHeldByHandlers'
  BY SlotsKept DEF RecordOutcome, HoldingSlot, Active
<1> QED
  BY <1>1, <1>2, <1>3, <1>4, <1>5 DEF IInv, TypeOK, LogTypeOK

-----------------------------------------------------------------------------

\* The operator's steps: requests stay where they are, and those bound to the
\* old generation are now behind.
LEMMA OperatorPreserves ==
    ASSUME IInv, OperatorNext, UNCHANGED <<logVars, requestVars>>
    PROVE  IInv'
<1>1. UNCHANGED <<pc, query, bound, bindCtx, ctxErr, calls, listed, outcome, slots>>
  BY DEF requestVars
<1>2. SessionTypeOK' /\ SessionInv' /\ scope'.generation = scope.generation + 1
  BY SelectContextKeepsSession, SelectNamespaceKeepsSession, CloseKeepsSession
     DEF OperatorNext, IInv, TypeOK
<1>3. LogTypeOK' /\ RequestTypeOK' /\ SlotsHeldByHandlers'
  BY <1>1, LogFrame DEF IInv, TypeOK, RequestTypeOK, SlotsHeldByHandlers
<1>4. RequestInv'
  BY <1>1, <1>2 DEF IInv, RequestInv, Bound, TypeOK, RequestTypeOK, SessionTypeOK, Scopes
<1> QED
  BY <1>2, <1>3, <1>4 DEF IInv, TypeOK, LogTypeOK

\* Whatever a request carries when it arrives.
LEMMA ReceivePreserves ==
    ASSUME IInv, NEW r \in Requests, Receive(r)
    PROVE  IInv'
<1> PICK q \in Queries :
        \/ RefuseInvalid(r, q)
        \/ \E g \in Generations :
               RefuseStale(r, q, g) \/ RefuseWithoutNamespace(r, q, g) \/ Bind(r, q, g)
  BY DEF Receive
<1>1. CASE RefuseInvalid(r, q)
  BY <1>1, RefusePreserves DEF RefuseInvalid
<1>2. ASSUME NEW g \in Generations, RefuseStale(r, q, g) PROVE IInv'
  BY <1>2, RefusePreserves DEF RefuseStale, Codes
<1>3. ASSUME NEW g \in Generations, RefuseWithoutNamespace(r, q, g) PROVE IInv'
  BY <1>3, RefusePreserves DEF RefuseWithoutNamespace
<1>4. ASSUME NEW g \in Generations, Bind(r, q, g) PROVE IInv'
  BY <1>4, BindPreserves
<1> QED
  BY <1>1, <1>2, <1>3, <1>4

\* Every step of one request.
LEMMA RequestPreserves ==
    ASSUME IInv, NEW r \in Requests, RequestNext(r)
    PROVE  IInv'
<1>1. CASE Receive(r)
  BY <1>1, ReceivePreserves
<1>2. CASE WatcherCancels(r) \/ DeadlineExpires(r) \/ Disconnect(r)
  BY <1>2, EndContextPreserves DEF WatcherCancels, DeadlineExpires, Disconnect
<1>3. ASSUME NEW err, UpstreamFails(r, err) PROVE IInv'
  BY <1>3, FailPreserves DEF UpstreamFails, HoldingSlot, Active
<1>4. CASE HandlerStep(r)
  <2>1. CASE UpstreamAborts(r)
    BY <1>3, <2>1 DEF UpstreamAborts
  <2> QED
    BY <1>4, <2>1, AcquireSlotPreserves, GiveUpWaitingPreserves, BuildClientPreserves,
       PublishNamespacesPreserves, CheckGenerationPreserves, FinalCheckPreserves,
       RecordOutcomePreserves, ReleaseSlotPreserves DEF HandlerStep
<1>5. CASE Environment(r)
  BY <1>2, <1>3, <1>5, ListAnswersPreserves, PanicPreserves DEF Environment
<1> QED
  BY <1>1, <1>2, <1>4, <1>5 DEF RequestNext

\* The invariant is inductive.
LEMMA IInvStep == IInv /\ [Next]_vars => IInv'
<1> SUFFICES ASSUME IInv, [Next]_vars PROVE IInv'
  OBVIOUS
<1>1. CASE Next
  BY <1>1, OperatorPreserves, RequestPreserves DEF Next
<1>2. CASE UNCHANGED vars
  <2>1. UNCHANGED <<sessionVars, logVars, requestVars>>
    BY <1>2 DEF vars
  <2> QED
    BY <2>1 DEF sessionVars, logVars, requestVars, IInv, TypeOK, SessionTypeOK, RequestTypeOK,
           SessionInv, RequestInv, SlotsHeldByHandlers, Bound
<1> QED
  BY <1>1, <1>2

\* Every reachable state of the service satisfies the inductive invariant.
THEOREM Invariance == Spec => []IInv
BY IInvInit, IInvStep, PTL DEF Spec

-----------------------------------------------------------------------------

\* Whatever requests, selections and failures interleave, every variable keeps
\* its type; the slot counter never leaves 0 .. MaxConcurrent.
THEOREM TypeCorrect == Spec => []TypeOK
<1>1. IInv => TypeOK
  BY DEF IInv
<1> QED
  BY <1>1, Invariance, PTL

\* No path through Execute leaks a slot or returns one twice.
THEOREM SlotsNeverLeak == Spec => []SlotsHeldByHandlers
<1>1. IInv => SlotsHeldByHandlers
  BY DEF IInv
<1> QED
  BY <1>1, Invariance, PTL

\* A discovery of one context's namespaces never reaches another context.
THEOREM NamespacesStayWithTheirContext == Spec => []NamespacesOfSelectedContext
<1>1. IInv => NamespacesOfSelectedContext
  BY DEF IInv, SessionInv, NamespacesOfSelectedContext
<1> QED
  BY <1>1, Invariance, PTL

\* Exactly the superseded scope contexts are cancelled.
THEOREM CancellationFollowsScope == Spec => []CancelledExactlyWhenSuperseded
<1>1. IInv => CancelledExactlyWhenSuperseded
  BY DEF IInv, SessionInv, CancelledExactlyWhenSuperseded
<1> QED
  BY <1>1, Invariance, PTL

-----------------------------------------------------------------------------

\* A step binds at most one request, a new one, to the scope in force of an
\* open session.
Binds(r) ==
    /\ pc[r] = "new"
    /\ ~closed
    /\ scope.context # NoName
    /\ bound' = [bound EXCEPT ![r] = scope]
    /\ UNCHANGED scope

\* Only receiving a request binds one; every other step leaves the bindings.
LEMMA BindingStep ==
    ASSUME [Next]_vars
    PROVE  UNCHANGED bound \/ \E r \in Requests : Binds(r)
<1>1. CASE UNCHANGED vars
  BY <1>1 DEF vars, requestVars
<1>2. CASE OperatorNext /\ UNCHANGED <<logVars, requestVars>>
  BY <1>2 DEF requestVars
<1>3. ASSUME NEW r \in Requests, RequestNext(r)
      PROVE  UNCHANGED bound \/ Binds(r)
  <2>1. CASE Receive(r)
    BY <2>1 DEF Receive, RefuseInvalid, RefuseStale, RefuseWithoutNamespace, Refuse,
           Bind, MayBind, Binds, sessionVars
  <2>2. CASE WatcherCancels(r) \/ DeadlineExpires(r) \/ Disconnect(r)
    BY <2>2 DEF WatcherCancels, DeadlineExpires, Disconnect, EndContext
  <2>3. CASE HandlerStep(r)
    BY <2>3 DEF HandlerStep, AcquireSlot, GiveUpWaiting, BuildClient, UpstreamAborts,
           UpstreamFails, PublishNamespaces, CheckGeneration, FinalCheck, RecordOutcome,
           ReleaseSlot, Fail
  <2>4. CASE ListAnswers(r) \/ Panic(r) \/ \E err \in UpstreamErrors : UpstreamFails(r, err)
    BY <2>4 DEF ListAnswers, Panic, UpstreamFails, Fail
  <2> QED
    BY <1>3, <2>1, <2>2, <2>3, <2>4 DEF RequestNext, Environment
<1> QED
  BY <1>1, <1>2, <1>3 DEF Next

\* No request is admitted once the session is closed.
THEOREM NothingAfterClose == Spec => NothingBoundAfterClose
<1>1. [Next]_vars => [closed => bound' = bound]_vars
  BY BindingStep DEF Binds
<1> QED
  BY <1>1, PTL DEF Spec, NothingBoundAfterClose

\* Agreement is kept because a new binding takes the session's own scope, and
\* the earlier ones of that generation are that scope too.
LEMMA AgreementStep == IInv /\ AgreementInv /\ [Next]_vars => AgreementInv'
<1> SUFFICES ASSUME IInv, AgreementInv, [Next]_vars PROVE AgreementInv'
  OBVIOUS
<1>1. CASE UNCHANGED bound
  BY <1>1 DEF AgreementInv, Bound
<1>2. ASSUME NEW r \in Requests, Binds(r) PROVE AgreementInv'
  <2>1. \A q \in Requests \ {r} : bound'[q] = bound[q]
    BY <1>2 DEF Binds, IInv, TypeOK, RequestTypeOK
  <2>2. bound'[r] = scope
    BY <1>2 DEF Binds, IInv, TypeOK, RequestTypeOK
  <2>3. \A q \in Requests : Bound(q) /\ bound[q].generation = scope.generation
                                => bound[q] = scope
    BY DEF IInv, RequestInv
  <2> QED
    BY <2>1, <2>2, <2>3 DEF AgreementInv, Bound
<1> QED
  BY <1>1, <1>2, BindingStep

\* Comparing generations is as good as comparing scopes.
THEOREM GenerationsIdentifyScopes == Spec => []GenerationIdentifiesScope
<1>1. Init => AgreementInv
  BY DEF Init, RequestInit, AgreementInv, Bound
<1>2. IInv /\ AgreementInv => GenerationIdentifiesScope
  BY DEF IInv, RequestInv, AgreementInv, GenerationIdentifiesScope
<1> QED
  BY <1>1, <1>2, Invariance, AgreementStep, PTL DEF Spec

-----------------------------------------------------------------------------
(***************************************************************************)
(* The activity record: what it holds, and that it matches the requests    *)
(* that were served.                                                       *)
(***************************************************************************)

\* The two run-checked properties of the log, inductive together with IInv.
LogInv == LatestEntriesWithoutGap /\ OneEntryPerAdmittedRequest

\* A step that records does so for one request, which had not recorded yet.
Records(r) ==
    /\ r \notin Recorded
    /\ outcome'[r] \in Codes \cup {"ok"}
    /\ record("resources.read", bound[r], outcome'[r])
    /\ Recorded' = Recorded \cup {r}
    /\ UNCHANGED bound

\* What a step leaves alone for the requests that have recorded.
KeepsRecorded ==
    \A r \in Recorded : bound'[r] = bound[r] /\ outcome'[r] = outcome[r]

\* A refused request was never bound, so it does not count as recorded.
LEMMA RefuseKeepsRecorded ==
    ASSUME IInv, NEW r \in Requests, NEW code, pc[r] = "new", Refuse(r, code)
    PROVE  Recorded' = Recorded /\ KeepsRecorded
<1>1. /\ \A q \in Requests \ {r} : pc'[q] = pc[q] /\ outcome'[q] = outcome[q]
      /\ UNCHANGED bound
      /\ ~Bound(r)
  BY DEF Refuse, Goto, IInv, TypeOK, RequestTypeOK, RequestInv, Bound
<1> QED
  BY <1>1 DEF Recorded, KeepsRecorded, Bound

\* A request that moves among the points before its record step changes
\* neither the set of recorded requests nor what they recorded.
LEMMA MoveKeepsRecorded ==
    ASSUME IInv, NEW r \in Requests,
           pc[r] \notin {"release", "done"},
           pc'[r] \notin {"release", "done"} \/ outcome'[r] = "internal_error",
           \A q \in Requests \ {r} :
               pc'[q] = pc[q] /\ outcome'[q] = outcome[q] /\ bound'[q] = bound[q]
    PROVE  Recorded' = Recorded /\ KeepsRecorded
BY DEF Recorded, KeepsRecorded, Bound

\* Each step records for one request, or leaves the log and those it holds.
LEMMA RecordingStep ==
    ASSUME IInv, [Next]_vars
    PROVE  /\ KeepsRecorded
           /\ \/ UNCHANGED logVars /\ Recorded' = Recorded
              \/ \E r \in Requests : Records(r)
<1> DEFINE Quiet == UNCHANGED logVars /\ Recorded' = Recorded /\ KeepsRecorded
<1>1. CASE UNCHANGED vars \/ UNCHANGED <<logVars, requestVars>>
  BY <1>1 DEF vars, requestVars, logVars, Recorded, KeepsRecorded, Bound
<1>2. ASSUME NEW r \in Requests, Receive(r) PROVE Quiet
  <2>1. ASSUME NEW code, pc[r] = "new", Refuse(r, code), UNCHANGED logVars PROVE Quiet
    BY <2>1, RefuseKeepsRecorded
  <2>2. ASSUME NEW q, NEW g, Bind(r, q, g) PROVE Quiet
    BY <2>2, MoveKeepsRecorded DEF Bind, Goto, IInv, TypeOK, RequestTypeOK
  <2> QED
    BY <1>2, <2>1, <2>2 DEF Receive, RefuseInvalid, RefuseStale, RefuseWithoutNamespace
<1>3. ASSUME NEW r \in Requests, NEW err, EndContext(r, err) PROVE Quiet
  BY <1>3 DEF EndContext, Recorded, KeepsRecorded, Bound
<1>4. ASSUME NEW r \in Requests, NEW err, Fail(r, err), pc[r] \notin {"release", "done"}
      PROVE  Quiet
  BY <1>4, MoveKeepsRecorded DEF Fail, Goto, IInv, TypeOK, RequestTypeOK
<1>5. ASSUME NEW r \in Requests, AcquireSlot(r) \/ BuildClient(r) \/ ListAnswers(r)
      PROVE  Quiet
  BY <1>5, MoveKeepsRecorded DEF AcquireSlot, BuildClient, ListAnswers, Goto, IInv, TypeOK,
         RequestTypeOK
<1>6. ASSUME NEW r \in Requests, Panic(r) PROVE Quiet
  BY <1>6, MoveKeepsRecorded DEF Panic, Goto, IInv, TypeOK, RequestTypeOK
<1>7. ASSUME NEW r \in Requests,
             PublishNamespaces(r) \/ CheckGeneration(r) \/ FinalCheck(r)
      PROVE  Quiet
  <2>1. CASE \E err : Fail(r, err)
    BY <1>4, <1>7, <2>1 DEF PublishNamespaces, CheckGeneration, FinalCheck
  <2>2. CASE ~ \E err : Fail(r, err)
    BY <1>7, <2>2, MoveKeepsRecorded DEF PublishNamespaces, CheckGeneration, FinalCheck, Goto,
           IInv, TypeOK, RequestTypeOK
  <2> QED
    BY <2>1, <2>2
<1>8. ASSUME NEW r \in Requests, ReleaseSlot(r) PROVE Quiet
  BY <1>8 DEF ReleaseSlot, Goto, IInv, TypeOK, RequestTypeOK, Recorded, KeepsRecorded, Bound
<1>9. ASSUME NEW r \in Requests, GiveUpWaiting(r) PROVE Records(r) /\ KeepsRecorded
  <2>1. pc[r] = "waiting" /\ Bound(r) /\ UNCHANGED bound
    BY <1>9 DEF GiveUpWaiting, IInv, RequestInv, Active
  <2>2. pc'[r] = "done" /\ outcome'[r] = mapError(ctxErr[r])
    BY <1>9 DEF GiveUpWaiting, Goto, IInv, TypeOK, RequestTypeOK
  <2>3. outcome'[r] \in Codes
    BY <2>2, MapErrorInCodes
  <2>4. \A q \in Requests \ {r} : pc'[q] = pc[q] /\ outcome'[q] = outcome[q]
    BY <1>9 DEF GiveUpWaiting, Goto, IInv, TypeOK, RequestTypeOK
  <2>5. Recorded' = Recorded \cup {r} /\ r \notin Recorded /\ KeepsRecorded
    BY <2>1, <2>2, <2>3, <2>4 DEF Recorded, KeepsRecorded, Bound, Codes
  <2> QED
    BY <1>9, <2>1, <2>2, <2>3, <2>5 DEF Records, GiveUpWaiting
<1>10. ASSUME NEW r \in Requests, RecordOutcome(r) PROVE Records(r) /\ KeepsRecorded
  <2>1. pc[r] = "record" /\ Bound(r) /\ UNCHANGED <<bound, outcome>>
    BY <1>10 DEF RecordOutcome, IInv, RequestInv, Active
  <2>2. outcome[r] \in Codes \cup {"ok"} /\ pc'[r] = "release"
    BY <1>10 DEF RecordOutcome, Goto, IInv, TypeOK, RequestTypeOK, RequestInv
  <2>3. \A q \in Requests \ {r} : pc'[q] = pc[q]
    BY <1>10 DEF RecordOutcome, Goto, IInv, TypeOK, RequestTypeOK
  <2>4. Recorded' = Recorded \cup {r} /\ r \notin Recorded /\ KeepsRecorded
    BY <2>1, <2>2, <2>3 DEF Recorded, KeepsRecorded, Bound, Codes
  <2> QED
    BY <1>10, <2>1, <2>2, <2>4 DEF Records, RecordOutcome
<1>11. ASSUME NEW r \in Requests, UpstreamAborts(r) \/ \E err : UpstreamFails(r, err)
       PROVE  Quiet
  BY <1>4, <1>11 DEF UpstreamAborts, UpstreamFails
<1>12. ASSUME NEW r \in Requests, RequestNext(r)
       PROVE  Quiet \/ (Records(r) /\ KeepsRecorded)
  <2> HIDE DEF Quiet
  <2>1. CASE Receive(r)
    BY <1>2, <2>1
  <2>2. CASE WatcherCancels(r) \/ DeadlineExpires(r) \/ Disconnect(r)
    BY <1>3, <2>2 DEF WatcherCancels, DeadlineExpires, Disconnect
  <2>3. CASE HandlerStep(r)
    BY <1>5, <1>7, <1>8, <1>9, <1>10, <1>11, <2>3 DEF HandlerStep
  <2>4. CASE ListAnswers(r) \/ Panic(r) \/ \E err \in UpstreamErrors : UpstreamFails(r, err)
    BY <1>5, <1>6, <1>11, <2>4
  <2> QED
    BY <1>12, <2>1, <2>2, <2>3, <2>4 DEF RequestNext, Environment
<1> QED
  BY <1>1, <1>12 DEF Next

\* Recording keeps the log the latest entries, numbered without a gap.
LEMMA RecordKeepsLatest ==
    ASSUME IInv, LatestEntriesWithoutGap, NEW r \in Requests, Records(r)
    PROVE  /\ LatestEntriesWithoutGap'
           /\ \A i \in 1 .. Len(activity') :
                  \/ activity'[i].scope = bound[r] /\ activity'[i].outcome = outcome'[r]
                  \/ \E j \in 1 .. Len(activity) : activity'[i] = activity[j]
<1> DEFINE E == Entries(Scopes, Codes \cup {"ok"})
           e == [sequence |-> sequence + 1, capability |-> "resources.read",
                 scope |-> bound[r], outcome |-> outcome'[r]]
           n == IF Len(activity) + 1 > MaxActivity THEN MaxActivity ELSE Len(activity) + 1
<1>1. sequence \in Nat /\ activity \in Seq(E)
  BY DEF IInv, TypeOK
<1>2. e \in E
  BY DEF Records, IInv, TypeOK, RequestTypeOK, Entries, Capabilities
<1>3. sequence' = sequence + 1 /\ activity' = Latest(Append(activity, e))
  BY DEF Records, record
<1>4. e.sequence = sequence + 1 /\ e.scope = bound[r] /\ e.outcome = outcome'[r]
  OBVIOUS
<1> HIDE DEF E, e
<1>5. /\ Len(activity') = n
      /\ \A i \in 1 .. n :
             activity'[i] = IF i = n THEN e ELSE activity[Len(activity) + 1 - n + i]
  <2>1. PICK t : t = Latest(Append(activity, e))
    OBVIOUS
  <2>2. /\ Len(t) = n
        /\ \A i \in 1 .. n : t[i] = IF i = n THEN e ELSE activity[Len(activity) + 1 - n + i]
    <3>1. LatestKept(E, activity, e, t)
      BY <1>1, <1>2, <2>1, LatestProperties, Zenon
    <3> QED
      BY <3>1, Zenon DEF LatestKept
  <2> QED
    BY <1>3, <2>1, <2>2
<1>6. Len(activity) \in Nat /\ n \in Nat /\ n <= Len(activity) + 1 /\ n >= 1
  BY <1>1, MaxActivityAssumption
<1>7. LatestEntriesWithoutGap'
  <2>1. Len(activity') = IF sequence' < MaxActivity THEN sequence' ELSE MaxActivity
    BY <1>1, <1>3, <1>5, MaxActivityAssumption DEF LatestEntriesWithoutGap
  <2>2. ASSUME NEW i \in 1 .. Len(activity')
        PROVE  activity'[i].sequence = sequence' - Len(activity') + i
    <3>1. CASE i = n
      <4>1. activity'[i] = e /\ Len(activity') = i
        BY <1>5, <1>6, <3>1
      <4> HIDE DEF n
      <4> QED
        BY <1>1, <1>3, <1>4, <2>2, <4>1
    <3>2. CASE i # n
      <4>1. Len(activity) + 1 - n + i \in 1 .. Len(activity)
        BY <1>5, <1>6, <2>2, <3>2
      <4>2. activity'[i] = activity[Len(activity) + 1 - n + i]
        BY <1>5, <2>2, <3>2
      <4>3. activity[Len(activity) + 1 - n + i].sequence
              = sequence - Len(activity) + (Len(activity) + 1 - n + i)
        BY <4>1 DEF LatestEntriesWithoutGap
      <4> HIDE DEF n
      <4> QED
        BY <1>1, <1>3, <1>5, <1>6, <2>2, <4>2, <4>3
    <3> QED
      BY <3>1, <3>2
  <2> QED
    BY <2>1, <2>2 DEF LatestEntriesWithoutGap
<1>8. ASSUME NEW i \in 1 .. Len(activity')
      PROVE  \/ activity'[i].scope = bound[r] /\ activity'[i].outcome = outcome'[r]
             \/ \E j \in 1 .. Len(activity) : activity'[i] = activity[j]
  <2>1. CASE i = n
    BY <1>4, <1>5, <1>6, <2>1
  <2>2. CASE i # n
    <3>1. Len(activity) + 1 - n + i \in 1 .. Len(activity)
      BY <1>5, <1>6, <1>8, <2>2
    <3>2. activity'[i] = activity[Len(activity) + 1 - n + i]
      BY <1>5, <1>8, <2>2
    <3> QED
      BY <3>1, <3>2
  <2> QED
    BY <2>1, <2>2
<1> QED
  BY <1>7, <1>8

\* The recorded requests are finitely many.
LEMMA RecordedFinite == IsFiniteSet(Recorded)
BY RequestsAssumption, FS_Subset DEF Recorded

\* The log invariant is kept by every step.
LEMMA LogInvStep == IInv /\ LogInv /\ [Next]_vars => LogInv'
<1> SUFFICES ASSUME IInv, LogInv, [Next]_vars PROVE LogInv'
  OBVIOUS
<1>1. KeepsRecorded
  BY RecordingStep
<1>2. CASE UNCHANGED logVars /\ Recorded' = Recorded
  BY <1>1, <1>2 DEF LogInv, LatestEntriesWithoutGap, OneEntryPerAdmittedRequest, logVars,
         KeepsRecorded
<1>3. ASSUME NEW r \in Requests, Records(r) PROVE LogInv'
  <2>1. /\ LatestEntriesWithoutGap'
        /\ \A i \in 1 .. Len(activity') :
               \/ activity'[i].scope = bound[r] /\ activity'[i].outcome = outcome'[r]
               \/ \E j \in 1 .. Len(activity) : activity'[i] = activity[j]
    BY <1>3, RecordKeepsLatest DEF LogInv
  <2>2. sequence' = Cardinality(Recorded')
    <3>1. Cardinality(Recorded') = Cardinality(Recorded) + 1
      BY <1>3, RecordedFinite, FS_AddElement DEF Records
    <3> QED
      BY <1>3, <3>1 DEF LogInv, OneEntryPerAdmittedRequest, Records, record
  <2> QED
    BY <1>1, <1>3, <2>1, <2>2 DEF LogInv, OneEntryPerAdmittedRequest, KeepsRecorded, Records
<1> QED
  BY <1>2, <1>3, RecordingStep

-----------------------------------------------------------------------------

\* Every reachable log is consistent with the requests that were served.
THEOREM LogInvariance == Spec => []LogInv
<1>1. Init => LogInv
  <2> SUFFICES ASSUME Init PROVE LogInv
    OBVIOUS
  <2>1. Recorded = {}
    BY DEF Init, RequestInit, Recorded
  <2> QED
    BY <2>1, FS_EmptySet, MaxActivityAssumption DEF Init, LogInit, LogInv,
       LatestEntriesWithoutGap, OneEntryPerAdmittedRequest
<1> QED
  BY <1>1, LogInvStep, Invariance, PTL DEF Spec

\* The bounded log always holds the latest entries, in order, without a gap.
THEOREM LogKeepsLatest == Spec => []LatestEntriesWithoutGap
<1>1. LogInv => LatestEntriesWithoutGap
  BY DEF LogInv
<1> QED
  BY <1>1, LogInvariance, PTL

\* Every admitted request that did not panic is recorded exactly once, with
\* the code its client was sent.
THEOREM EveryAdmittedRequestRecordedOnce == Spec => []OneEntryPerAdmittedRequest
<1>1. LogInv => OneEntryPerAdmittedRequest
  BY DEF LogInv
<1> QED
  BY <1>1, LogInvariance, PTL

-----------------------------------------------------------------------------
(***************************************************************************)
(* Superseded and cancelled requests.                                      *)
(***************************************************************************)

\* What one step can do to a request that has left "new" and is not final: it
\* can become "final" only by the generation comparison, and never "ok".
Passes(r) ==
    /\ pc[r] = "check"
    /\ scope.generation = bound[r].generation
    /\ pc'[r] = "final"
    /\ UNCHANGED outcome

\* The last step to success: the context has not ended.
Succeeds(r) ==
    /\ pc[r] = "final"
    /\ ctxErr[r] = "none"
    /\ pc'[r] = "record"
    /\ outcome' = [outcome EXCEPT ![r] = "ok"]

\* A step that ends a request's work without success.
Fails(r) ==
    /\ pc[r] \in BeforeCheck \cup {"final"}
    /\ pc'[r] \in {"record", "release", "done"}
    /\ outcome'[r] \in Codes \cup {"internal_error"}

\* A step towards the generation comparison, or after the outcome is decided.
Advances(r) ==
    /\ \/ pc[r] \in BeforeCheck /\ pc'[r] \in BeforeCheck
       \/ pc[r] \in {"record", "release"} /\ pc'[r] \in {"release", "done"}
    /\ outcome'[r] = outcome[r]

\* A step that leaves r's program counter and outcome alone.
Rests(r) == pc'[r] = pc[r] /\ outcome'[r] = outcome[r]

\* The steps of one request once it has been received.
LEMMA OwnStep ==
    ASSUME IInv, NEW r \in Requests, RequestNext(r), pc[r] # "new"
    PROVE  /\ Passes(r) \/ Succeeds(r) \/ Fails(r) \/ Advances(r) \/ Rests(r)
           /\ ctxErr[r] # "none" => ctxErr'[r] = ctxErr[r]
           /\ UNCHANGED <<bound, scope>>
<1>0. pc \in [Requests -> Active \cup {"new", "done"}] /\ DOMAIN outcome = Requests
      /\ ctxErr \in [Requests -> {"none", "Canceled", "DeadlineExceeded"}]
  BY DEF IInv, TypeOK, RequestTypeOK
<1>1. ASSUME NEW err, Fail(r, err), pc[r] \in BeforeCheck \cup {"final"}
      PROVE  Fails(r) /\ UNCHANGED <<ctxErr, bound, scope>>
  <2>1. mapError(err) \in Codes
    BY MapErrorInCodes
  <2> QED
    BY <1>0, <1>1, <2>1 DEF Fail, Goto, Fails, sessionVars
<1>2. CASE Receive(r)
  BY <1>2 DEF Receive, RefuseInvalid, RefuseStale, RefuseWithoutNamespace, Bind
<1>3. CASE WatcherCancels(r) \/ DeadlineExpires(r) \/ Disconnect(r)
  BY <1>0, <1>3 DEF WatcherCancels, DeadlineExpires, Disconnect, EndContext, Rests, sessionVars
<1>4. CASE UpstreamAborts(r) \/ \E err \in UpstreamErrors : UpstreamFails(r, err)
  BY <1>1, <1>4 DEF UpstreamAborts, UpstreamFails, BeforeCheck
<1>5. CASE AcquireSlot(r) \/ BuildClient(r) \/ RecordOutcome(r) \/ ReleaseSlot(r)
  BY <1>0, <1>5 DEF AcquireSlot, BuildClient, RecordOutcome, ReleaseSlot, Goto, Advances,
         BeforeCheck, sessionVars
<1>6. CASE GiveUpWaiting(r)
  <2>1. mapError(ctxErr[r]) \in Codes
    BY MapErrorInCodes
  <2> QED
    BY <1>0, <1>6, <2>1 DEF GiveUpWaiting, Goto, Fails, BeforeCheck, sessionVars
<1>7. CASE PublishNamespaces(r)
  BY <1>0, <1>1, <1>7 DEF PublishNamespaces, AllowNamespaces, Goto, Advances,
         BeforeCheck
<1>8. CASE CheckGeneration(r)
  BY <1>0, <1>1, <1>8 DEF CheckGeneration, Goto, Passes, BeforeCheck, sessionVars
<1>9. CASE FinalCheck(r)
  BY <1>0, <1>1, <1>9 DEF FinalCheck, Goto, Succeeds, sessionVars
<1>10. CASE ListAnswers(r)
  BY <1>0, <1>10 DEF ListAnswers, Goto, Advances, BeforeCheck, sessionVars
<1>11. CASE Panic(r)
  BY <1>0, <1>11 DEF Panic, Goto, Fails, BeforeCheck, sessionVars
<1> QED
  BY <1>2, <1>3, <1>4, <1>5, <1>6, <1>7, <1>8, <1>9, <1>10, <1>11
     DEF RequestNext, HandlerStep, Environment

\* A step of one request leaves every other request alone.
LEMMA OthersRest ==
    ASSUME IInv, NEW q \in Requests, RequestNext(q), NEW r \in Requests \ {q}
    PROVE  Rests(r) /\ ctxErr'[r] = ctxErr[r] /\ bound'[r] = bound[r] /\ UNCHANGED scope
<1>0. /\ pc \in [Requests -> Active \cup {"new", "done"}] /\ DOMAIN outcome = Requests
      /\ ctxErr \in [Requests -> {"none", "Canceled", "DeadlineExceeded"}]
      /\ bound \in [Requests -> Scopes]
  BY DEF IInv, TypeOK, RequestTypeOK
<1>1. CASE Receive(q)
  BY <1>0, <1>1 DEF Receive, RefuseInvalid, RefuseStale, RefuseWithoutNamespace, Refuse, Bind,
         Goto, Rests, sessionVars
<1>2. CASE WatcherCancels(q) \/ DeadlineExpires(q) \/ Disconnect(q)
  BY <1>0, <1>2 DEF WatcherCancels, DeadlineExpires, Disconnect, EndContext, Rests, sessionVars
<1>3. CASE UpstreamAborts(q) \/ \E err \in UpstreamErrors : UpstreamFails(q, err)
  BY <1>0, <1>3 DEF UpstreamAborts, UpstreamFails, Fail, Goto, Rests, sessionVars
<1>4. CASE AcquireSlot(q) \/ BuildClient(q) \/ RecordOutcome(q) \/ ReleaseSlot(q)
           \/ ListAnswers(q) \/ Panic(q) \/ GiveUpWaiting(q)
  BY <1>0, <1>4 DEF AcquireSlot, BuildClient, RecordOutcome, ReleaseSlot, ListAnswers, Panic,
         GiveUpWaiting, Goto, Rests, sessionVars
<1>5. CASE PublishNamespaces(q) \/ CheckGeneration(q) \/ FinalCheck(q)
  BY <1>0, <1>5 DEF PublishNamespaces, AllowNamespaces, CheckGeneration, FinalCheck, Fail, Goto,
         Rests, sessionVars
<1> QED
  BY <1>1, <1>2, <1>3, <1>4, <1>5 DEF RequestNext, HandlerStep, Environment

\* The operator's steps only raise the generation.
LEMMA OperatorStep ==
    ASSUME IInv, OperatorNext, UNCHANGED <<logVars, requestVars>>
    PROVE  /\ scope'.generation = scope.generation + 1
           /\ UNCHANGED <<pc, outcome, ctxErr, bound>>
BY DEF OperatorNext, SelectContext, SelectNamespaceAt, Close, advanceLocked, requestVars

-----------------------------------------------------------------------------

\* A request that was superseded before its generation comparison.
Doomed(r) ==
    /\ pc[r] \notin {"new", "final"}
    /\ bound[r].generation # scope.generation
    /\ bound[r].generation <= scope.generation
    /\ outcome[r] # "ok"

\* Once doomed, always doomed: the generation never comes back.
LEMMA DoomedStep ==
    ASSUME NEW r \in Requests
    PROVE  IInv /\ Doomed(r) /\ [Next]_vars => Doomed(r)'
<1> SUFFICES ASSUME IInv, Doomed(r), [Next]_vars PROVE Doomed(r)'
  OBVIOUS
<1>1. CASE UNCHANGED vars
  BY <1>1 DEF vars, requestVars, sessionVars, Doomed
<1>2. CASE OperatorNext /\ UNCHANGED <<logVars, requestVars>>
  <2>1. scope.generation \in Nat /\ bound[r].generation \in Nat
    BY DEF IInv, TypeOK, SessionTypeOK, RequestTypeOK, Scopes
  <2> QED
    BY <1>2, <2>1, OperatorStep DEF Doomed
<1>3. CASE RequestNext(r)
  BY <1>3, OwnStep DEF Doomed, Passes, Succeeds, Fails, Advances, Rests, Codes,
         BeforeCheck
<1>4. ASSUME NEW q \in Requests \ {r}, RequestNext(q) PROVE Doomed(r)'
  BY <1>4, OthersRest DEF Doomed, Rests
<1> QED
  BY <1>1, <1>2, <1>3, <1>4 DEF Next

\* No request that had not compared generations when the session moved on ever
\* succeeds.
THEOREM SupersededRequestsNeverSucceed == Spec => SupersededNeverSucceeds
<1> SUFFICES ASSUME NEW r \in Requests
             PROVE  Spec => [](pc[r] \in BeforeCheck /\ bound[r].generation # scope.generation
                                   => [](outcome[r] # "ok"))
  BY DEF SupersededNeverSucceeds
<1>1. IInv /\ pc[r] \in BeforeCheck /\ bound[r].generation # scope.generation => Doomed(r)
  BY DEF IInv, RequestInv, Doomed, BeforeCheck, Active
<1>2. Doomed(r) => outcome[r] # "ok"
  BY DEF Doomed
<1>3. IInv /\ Doomed(r) /\ [Next]_vars => Doomed(r)'
  BY DoomedStep
<1> QED
  BY <1>1, <1>2, <1>3, Invariance, PTL DEF Spec

\* A request whose context ended before the last look at it.
Ended(r) ==
    /\ pc[r] # "new"
    /\ ctxErr[r] # "none"
    /\ outcome[r] # "ok"

\* A context that has ended stays ended, and the last check sees it.
LEMMA EndedStep ==
    ASSUME NEW r \in Requests
    PROVE  IInv /\ Ended(r) /\ [Next]_vars => Ended(r)'
<1> SUFFICES ASSUME IInv, Ended(r), [Next]_vars PROVE Ended(r)'
  OBVIOUS
<1>1. CASE UNCHANGED vars
  BY <1>1 DEF vars, requestVars, Ended
<1>2. CASE OperatorNext /\ UNCHANGED <<logVars, requestVars>>
  BY <1>2, OperatorStep DEF Ended
<1>3. CASE RequestNext(r)
  BY <1>3, OwnStep DEF Ended, Passes, Succeeds, Fails, Advances, Rests, Codes,
         BeforeCheck
<1>4. ASSUME NEW q \in Requests \ {r}, RequestNext(q) PROVE Ended(r)'
  BY <1>4, OthersRest DEF Ended, Rests
<1> QED
  BY <1>1, <1>2, <1>3, <1>4 DEF Next

\* No request whose context ended before the last look at ctx.Err succeeds.
THEOREM CancelledRequestsNeverSucceed == Spec => CancelledNeverSucceeds
<1> SUFFICES ASSUME NEW r \in Requests
             PROVE  Spec => [](pc[r] \in BeforeCheck \cup {"final"} /\ ctxErr[r] # "none"
                                   => [](outcome[r] # "ok"))
  BY DEF CancelledNeverSucceeds
<1>1. IInv /\ pc[r] \in BeforeCheck \cup {"final"} /\ ctxErr[r] # "none" => Ended(r)
  BY DEF IInv, RequestInv, Ended, BeforeCheck
<1>2. Ended(r) => outcome[r] # "ok"
  BY DEF Ended
<1>3. IInv /\ Ended(r) /\ [Next]_vars => Ended(r)'
  BY EndedStep
<1> QED
  BY <1>1, <1>2, <1>3, Invariance, PTL DEF Spec

-----------------------------------------------------------------------------
(***************************************************************************)
(* The refinement.  Each step maps to the ScopedReads step of its name, or *)
(* to a stutter.                                                           *)
(***************************************************************************)

\* A step of one request changes at most that request's abstract status.
LEMMA StatusOfOthers ==
    ASSUME IInv, NEW r \in Requests, RequestNext(r)
    PROVE  ReadStatus' = [ReadStatus EXCEPT ![r] = ReadStatus'[r]]
<1>1. \A q \in Requests \ {r} : ReadStatus'[q] = ReadStatus[q]
  BY OthersRest DEF Rests, ReadStatus
<1>2. DOMAIN ReadStatus' = Requests /\ DOMAIN ReadStatus = Requests
  BY DEF ReadStatus
<1>3. ReadStatus = [q \in Requests |-> ReadStatus[q]]
      /\ ReadStatus' = [q \in Requests |-> ReadStatus'[q]]
  BY DEF ReadStatus
<1> QED
  BY <1>1, <1>2, <1>3

\* The operator's steps are the scope changes of ScopedReads.
LEMMA OperatorRefines ==
    ASSUME IInv, OperatorNext, UNCHANGED <<logVars, requestVars>>
    PROVE  Promise!ReadsNext
<1>1. UNCHANGED <<bound, ReadStatus>>
  BY DEF requestVars, ReadStatus
<1>2. ASSUME NEW name \in Contexts, SelectContext(name)
      PROVE  Promise!MoveTo(name, NoName)
  BY <1>1, <1>2 DEF SelectContext, advanceLocked, Promise!MoveTo
<1>3. ASSUME NEW name \in Namespaces, NEW g \in Generations, SelectNamespaceAt(name, g)
      PROVE  Promise!ChooseNamespace
  <2>1. scope.context # NoName /\ name \in NamespacesOf[scope.context]
    BY <1>3 DEF SelectNamespaceAt, IInv, SessionInv
  <2>2. Promise!MoveTo(scope.context, name)
    BY <1>1, <1>3 DEF SelectNamespaceAt, advanceLocked, Promise!MoveTo
  <2> QED
    BY <2>1, <2>2 DEF Promise!ChooseNamespace
<1>4. ASSUME Close PROVE Promise!EndSession
  BY <1>1, <1>4 DEF Close, Promise!EndSession
<1> QED
  BY <1>2, <1>3, <1>4 DEF OperatorNext, Promise!ReadsNext

\* The scope is open exactly as the session is, unless the operator acts.
LEMMA RequestsLeaveSessionOpen ==
    ASSUME NEW r \in Requests, RequestNext(r)
    PROVE  UNCHANGED closed
<1>1. CASE Receive(r)
  BY <1>1 DEF Receive, RefuseInvalid, RefuseStale, RefuseWithoutNamespace, Bind, sessionVars
<1>2. CASE WatcherCancels(r) \/ DeadlineExpires(r) \/ Disconnect(r)
  BY <1>2 DEF WatcherCancels, DeadlineExpires, Disconnect, EndContext, sessionVars
<1>3. CASE HandlerStep(r)
  BY <1>3 DEF HandlerStep, AcquireSlot, GiveUpWaiting, BuildClient, UpstreamAborts,
         UpstreamFails, PublishNamespaces, AllowNamespaces, CheckGeneration, FinalCheck,
         RecordOutcome, ReleaseSlot, Fail, sessionVars
<1>4. CASE ListAnswers(r) \/ Panic(r) \/ \E err \in UpstreamErrors : UpstreamFails(r, err)
  BY <1>4 DEF ListAnswers, Panic, UpstreamFails, Fail, sessionVars
<1> QED
  BY <1>1, <1>2, <1>3, <1>4 DEF RequestNext, Environment

\* Receiving a request takes the scope in force, or abandons the read.
LEMMA ReceiveRefines ==
    ASSUME IInv, NEW r \in Requests, Receive(r)
    PROVE  Promise!Take(r) \/ Promise!Abandon(r)
<1>0. ReadStatus' = [ReadStatus EXCEPT ![r] = ReadStatus'[r]]
  BY StatusOfOthers DEF RequestNext
<1>1. UNCHANGED <<closed, scope>>
  BY DEF Receive, RefuseInvalid, RefuseStale, RefuseWithoutNamespace, Bind, sessionVars
<1>2. ReadStatus[r] = "idle"
  <2>1. pc[r] = "new"
    BY DEF Receive, RefuseInvalid, RefuseStale, RefuseWithoutNamespace, Bind
  <2> QED
    BY <2>1 DEF ReadStatus, BeforeCheck
<1>3. ASSUME NEW code \in {"invalid_request", "stale_scope", "namespace_required"},
             Refuse(r, code)
      PROVE  Promise!Abandon(r)
  <2>1. pc'[r] = "done" /\ outcome'[r] = code /\ UNCHANGED bound
    BY <1>3 DEF Refuse, Goto, IInv, TypeOK, RequestTypeOK
  <2>2. ReadStatus'[r] = "failed"
    BY <2>1 DEF ReadStatus, BeforeCheck
  <2> QED
    BY <1>0, <1>1, <1>2, <2>1, <2>2 DEF Promise!Abandon, Promise!Become
<1>4. ASSUME NEW q, NEW g, Bind(r, q, g) PROVE Promise!Take(r)
  <2>1. pc'[r] = "waiting" /\ bound' = [bound EXCEPT ![r] = scope]
        /\ ~closed /\ scope.context # NoName
    BY <1>4 DEF Bind, MayBind, Goto, IInv, TypeOK, RequestTypeOK
  <2>2. ReadStatus'[r] = "reading"
    BY <2>1 DEF ReadStatus, BeforeCheck
  <2> QED
    BY <1>0, <1>1, <1>2, <2>1, <2>2 DEF Promise!Take, Promise!Become
<1> QED
  BY <1>3, <1>4 DEF Receive, RefuseInvalid, RefuseStale, RefuseWithoutNamespace

\* Every other step of a request confirms, succeeds, abandons or stutters.
LEMMA ServiceRefines ==
    ASSUME IInv, NEW r \in Requests, RequestNext(r), pc[r] # "new"
    PROVE  [Promise!Confirm(r) \/ Promise!Succeed(r) \/ Promise!Abandon(r)]_(Promise!readVars)
<1>0. ReadStatus' = [ReadStatus EXCEPT ![r] = ReadStatus'[r]]
  BY StatusOfOthers
<1>1. UNCHANGED <<closed, scope, bound>>
  BY OwnStep, RequestsLeaveSessionOpen
<1>2. CASE Passes(r)
  <2>1. ReadStatus[r] = "reading" /\ ReadStatus'[r] = "confirmed"
    BY <1>2 DEF Passes, ReadStatus, BeforeCheck
  <2>2. bound[r] = scope
    BY <1>2 DEF Passes, IInv, RequestInv, Active
  <2> QED
    BY <1>0, <1>1, <2>1, <2>2 DEF Promise!Confirm, Promise!Become
<1>3. CASE Succeeds(r)
  <2>1. ReadStatus[r] = "confirmed" /\ ReadStatus'[r] = "ok"
    BY <1>3 DEF Succeeds, ReadStatus, BeforeCheck, IInv, TypeOK, RequestTypeOK
  <2> QED
    BY <1>0, <1>1, <2>1 DEF Promise!Succeed, Promise!Become
<1>4. CASE ReadStatus'[r] = ReadStatus[r]
  <2>1. ReadStatus' = ReadStatus
    <3>1. PICK f : f = ReadStatus
      OBVIOUS
    <3>2. f \in [Requests -> {"idle", "reading", "confirmed", "ok", "failed"}]
      BY <3>1 DEF ReadStatus
    <3>3. [f EXCEPT ![r] = f[r]] = f
      BY <3>2
    <3>4. PICK g : g = ReadStatus'
      OBVIOUS
    <3>5. g = [f EXCEPT ![r] = g[r]] /\ g[r] = f[r]
      BY <1>0, <1>4, <3>1, <3>4
    <3> QED
      BY <3>1, <3>3, <3>4, <3>5
  <2> QED
    BY <1>1, <2>1 DEF Promise!readVars
<1>5. CASE Fails(r)
  <2>1. ReadStatus[r] \in {"reading", "confirmed"} /\ ReadStatus'[r] = "failed"
    BY <1>5 DEF Fails, ReadStatus, BeforeCheck, Codes
  <2> QED
    BY <1>0, <1>1, <2>1 DEF Promise!Abandon, Promise!Become
<1>6. CASE Advances(r)
  <2>1. ReadStatus'[r] = ReadStatus[r]
    BY <1>6 DEF Advances, ReadStatus, BeforeCheck
  <2> QED
    BY <1>4, <2>1
<1>7. CASE Rests(r)
  <2>1. ReadStatus'[r] = ReadStatus[r]
    BY <1>7 DEF Rests, ReadStatus
  <2> QED
    BY <1>4, <2>1
<1> QED
  BY <1>2, <1>3, <1>5, <1>6, <1>7, OwnStep

\* Every step of the service is a step of ScopedReads or leaves it alone.
LEMMA StepRefines == IInv /\ [Next]_vars => [Promise!ReadsNext]_(Promise!readVars)
<1> SUFFICES ASSUME IInv, [Next]_vars PROVE [Promise!ReadsNext]_(Promise!readVars)
  OBVIOUS
<1>1. CASE UNCHANGED vars
  BY <1>1 DEF vars, sessionVars, requestVars, ReadStatus, Promise!readVars
<1>2. CASE OperatorNext /\ UNCHANGED <<logVars, requestVars>>
  BY <1>2, OperatorRefines
<1>3. ASSUME NEW r \in Requests, RequestNext(r), pc[r] # "new"
      PROVE  [Promise!ReadsNext]_(Promise!readVars)
  BY <1>3, ServiceRefines DEF Promise!ReadsNext
<1>4. ASSUME NEW r \in Requests, RequestNext(r), pc[r] = "new"
      PROVE  [Promise!ReadsNext]_(Promise!readVars)
  <2>1. Receive(r)
    BY <1>4 DEF RequestNext, HandlerStep, Environment, WatcherCancels, DeadlineExpires,
           Disconnect, EndContext, Active, AcquireSlot, GiveUpWaiting, BuildClient,
           UpstreamAborts, UpstreamFails, PublishNamespaces, CheckGeneration, FinalCheck,
           RecordOutcome, ReleaseSlot, ListAnswers, Panic
  <2> QED
    BY <2>1, ReceiveRefines DEF Promise!ReadsNext
<1> QED
  BY <1>1, <1>2, <1>3, <1>4 DEF Next

\* The service keeps the promise of ScopedReads: the scope changes as a whole,
\* and a read succeeds only if the scope it took was in force when checked.
THEOREM Refinement == Spec => ImplementsScopedReads
<1>1. Init => Promise!ReadsInit
  BY DEF Init, SessionInit, RequestInit, Promise!ReadsInit, Promise!Nowhere, NoScope, ReadStatus,
         BeforeCheck
<1> QED
  BY <1>1, StepRefines, Invariance, PTL DEF Spec, ImplementsScopedReads, Promise!ReadsSpec

-----------------------------------------------------------------------------
(* Starting and stopping the process.                                      *)

\* A handler's context, by the generation it was made for.
ContextsAreOfThePast ==
    \A h \in Handlers : /\ handlerCtx[h] <= scope.generation
                        /\ closed => handlerCtx[h] < scope.generation

\* The accept loop's one error is either still to come or in the channel, and
\* while serve selects it can only be a failure.
OneServeError ==
    /\ main \in {"listening", "leaving", "returned"} => ~accepting /\ done = << >>
    /\ main \in {"serving", "closing"} =>
           \/ accepting /\ done = << >>
           \/ ~accepting /\ done = <<"AcceptError">>
    /\ main \in {"draining", "joining"} =>
           ~accepting /\ done \in {<<"AcceptError">>, <<"ErrServerClosed">>}

\* What serve has done by where it stands.
ShutdownProgress ==
    /\ main \in {"closing", "draining", "joining", "returned"} => closed
    /\ main \in {"listening", "serving", "closing", "draining"} => drainErr = "none"
    /\ main \in {"listening", "serving", "closing", "draining", "joining"} => result = "none"
    /\ main = "joining" /\ drainErr = "none" => Running = {}
    /\ result = "nil" => drainErr = "none" /\ Running = {}

\* The types of the process.
LifecycleTyping ==
    /\ main \in {"listening", "serving", "closing", "draining", "joining", "leaving", "returned"}
    /\ signalled \in BOOLEAN
    /\ accepting \in BOOLEAN
    /\ drainErr \in {"none", "DeadlineExceeded"}
    /\ result \in {"none", "nil", "ListenError", "AcceptError", "DeadlineExceeded"}
    /\ handler \in [Handlers -> {"new", "running", "ended"}]
    /\ handlerCtx \in [Handlers -> Nat]

\* The invariant of serve.
LifecycleInv ==
    /\ SessionTypeOK
    /\ SessionInv
    /\ LifecycleTyping
    /\ ContextsAreOfThePast
    /\ OneServeError
    /\ ShutdownProgress

-----------------------------------------------------------------------------

\* The process starts in net.Listen with a fresh session.
LEMMA LifecycleInitial == LifecycleInit => LifecycleInv
<1> SUFFICES ASSUME LifecycleInit PROVE LifecycleInv
  OBVIOUS
<1>1. SessionTypeOK /\ SessionInv
  BY SessionInitial DEF LifecycleInit
<1>2. signalled \in BOOLEAN /\ accepting \in BOOLEAN /\ ~accepting /\ ~closed
  BY Zenon DEF LifecycleInit, SessionInit
<1>3. LifecycleTyping
  BY <1>2 DEF LifecycleInit, LifecycleTyping
<1>4. ContextsAreOfThePast
  BY <1>2 DEF LifecycleInit, SessionInit, NoScope, ContextsAreOfThePast
<1>5. OneServeError /\ ShutdownProgress
  BY <1>2 DEF LifecycleInit, OneServeError, ShutdownProgress
<1> QED  BY <1>1, <1>3, <1>4, <1>5 DEF LifecycleInv

\* The session's part of the invariant, from what a step does to the session.
LEMMA SessionPart ==
    ASSUME LifecycleInv, UNCHANGED handlerCtx,
           \/ UNCHANGED sessionVars
           \/ Close
           \/ \E name \in Contexts : SelectContext(name)
           \/ AllowNamespaces(scope.generation, NamespacesOf[scope.context])
           \/ \E name \in Namespaces : SelectNamespaceAt(name, scope.generation)
    PROVE  /\ SessionTypeOK' /\ SessionInv' /\ ContextsAreOfThePast'
           /\ closed => closed'
<1>1. SessionTypeOK /\ SessionInv /\ handlerCtx \in [Handlers -> Nat] /\ scope.generation \in Nat
  BY DEF LifecycleInv, LifecycleTyping, SessionTypeOK, Scopes
<1>2. CASE UNCHANGED sessionVars
  BY <1>1, <1>2, SessionRests DEF LifecycleInv, ContextsAreOfThePast, sessionVars
<1>3. CASE Close
  <2>1. SessionTypeOK' /\ SessionInv' /\ scope'.generation = scope.generation + 1 /\ closed'
    BY <1>1, <1>3, CloseKeepsSession DEF Close
  <2> QED  BY <1>1, <2>1 DEF LifecycleInv, ContextsAreOfThePast
<1>4. ASSUME NEW name \in Contexts, SelectContext(name)
      PROVE  /\ SessionTypeOK' /\ SessionInv' /\ ContextsAreOfThePast'
             /\ closed => closed'
  <2>1. SessionTypeOK' /\ SessionInv' /\ scope'.generation = scope.generation + 1
    BY <1>1, <1>4, SelectContextKeepsSession
  <2>2. ~closed /\ ~closed'
    BY <1>4 DEF SelectContext
  <2> QED  BY <1>1, <2>1, <2>2 DEF LifecycleInv, ContextsAreOfThePast
<1>5. CASE AllowNamespaces(scope.generation, NamespacesOf[scope.context])
  <2>1. SessionTypeOK' /\ SessionInv' /\ scope' = scope
    BY <1>1, <1>5, AllowKeepsSession
  <2>2. closed' = closed
    BY <1>5 DEF AllowNamespaces
  <2> QED  BY <1>1, <2>1, <2>2 DEF LifecycleInv, ContextsAreOfThePast
<1>6. ASSUME NEW name \in Namespaces, SelectNamespaceAt(name, scope.generation)
      PROVE  /\ SessionTypeOK' /\ SessionInv' /\ ContextsAreOfThePast'
             /\ closed => closed'
  <2>1. SessionTypeOK' /\ SessionInv' /\ scope'.generation = scope.generation + 1
    BY <1>1, <1>6, SelectNamespaceKeepsSession
  <2>2. ~closed /\ ~closed'
    BY <1>6 DEF SelectNamespaceAt
  <2> QED  BY <1>1, <2>1, <2>2 DEF LifecycleInv, ContextsAreOfThePast
<1> QED  BY <1>2, <1>3, <1>4, <1>5, <1>6

-----------------------------------------------------------------------------

\* The handlers, the accept loop, the signal and the operator.
LEMMA OthersKeepInv ==
    ASSUME LifecycleInv,
           \/ Operate \/ AcceptFails \/ Signal
           \/ \E h \in Handlers : Accept(h) \/ HandlerBinds(h) \/ HandlerEnds(h)
    PROVE  LifecycleInv'
<1> USE DEF LifecycleInv, LifecycleTyping
<1>1. CASE Operate
  <2>1. UNCHANGED <<main, signalled, accepting, done, drainErr, result, handler, handlerCtx>>
    BY <1>1 DEF Operate, lifecycleVars
  <2>2. SessionTypeOK' /\ SessionInv' /\ ContextsAreOfThePast' /\ (closed => closed')
    BY <1>1, <2>1, SessionPart DEF Operate
  <2> QED  BY <2>1, <2>2 DEF OneServeError, ShutdownProgress, Running
<1>2. CASE AcceptFails
  <2>1. UNCHANGED <<main, signalled, drainErr, result, handler, handlerCtx>> /\ UNCHANGED sessionVars
    BY <1>2 DEF AcceptFails, handlerVars
  <2>2. SessionTypeOK' /\ SessionInv' /\ ContextsAreOfThePast' /\ (closed => closed')
    BY <2>1, SessionPart
  <2>3. main \in {"serving", "closing"} /\ done = << >>
    BY <1>2 DEF AcceptFails, OneServeError
  <2>4. done' = <<"AcceptError">>
    BY <1>2, <2>3 DEF AcceptFails
  <2>5. accepting' \in BOOLEAN /\ ~accepting'
    BY <1>2, Zenon DEF AcceptFails
  <2> QED  BY <2>1, <2>2, <2>3, <2>4, <2>5 DEF OneServeError, ShutdownProgress, Running
<1>3. CASE Signal
  <2>1. UNCHANGED <<main, accepting, done, drainErr, result, handler, handlerCtx>> /\ UNCHANGED sessionVars
        /\ signalled' \in BOOLEAN
    BY <1>3 DEF Signal, handlerVars
  <2>2. SessionTypeOK' /\ SessionInv' /\ ContextsAreOfThePast' /\ (closed => closed')
    BY <2>1, SessionPart
  <2> QED  BY <2>1, <2>2 DEF OneServeError, ShutdownProgress, Running
<1>4. ASSUME NEW h \in Handlers, Accept(h) PROVE LifecycleInv'
  <2>1. UNCHANGED <<main, signalled, accepting, done, drainErr, result, handlerCtx>> /\ UNCHANGED sessionVars
        /\ handler' \in [Handlers -> {"new", "running", "ended"}]
    BY <1>4 DEF Accept
  <2>2. SessionTypeOK' /\ SessionInv' /\ ContextsAreOfThePast' /\ (closed => closed')
    BY <2>1, SessionPart
  <2>3. main \in {"serving", "closing"}
    BY <1>4 DEF Accept, OneServeError
  <2> QED  BY <2>1, <2>2, <2>3 DEF OneServeError, ShutdownProgress
<1>5. ASSUME NEW h \in Handlers, HandlerBinds(h) PROVE LifecycleInv'
  <2>1. UNCHANGED <<main, signalled, accepting, done, drainErr, result, handler>> /\ UNCHANGED sessionVars
        /\ handlerCtx' = [handlerCtx EXCEPT ![h] = scopeContext]
        /\ ~closed /\ scopeContext = scope.generation
    BY <1>5 DEF HandlerBinds, MayBind, SessionInv
  <2>2. SessionTypeOK' /\ SessionInv' /\ closed' = closed /\ scope' = scope
    BY <2>1, SessionRests DEF sessionVars
  <2>3. scope.generation \in Nat
    BY DEF SessionTypeOK, Scopes
  <2>4. handlerCtx' \in [Handlers -> Nat] /\ ContextsAreOfThePast'
    BY <2>1, <2>2, <2>3 DEF ContextsAreOfThePast
  <2> QED  BY <2>1, <2>2, <2>4 DEF OneServeError, ShutdownProgress, Running
<1>6. ASSUME NEW h \in Handlers, HandlerEnds(h) PROVE LifecycleInv'
  <2>1. UNCHANGED <<main, signalled, accepting, done, drainErr, result, handlerCtx>> /\ UNCHANGED sessionVars
        /\ handler' \in [Handlers -> {"new", "running", "ended"}]
    BY <1>6 DEF HandlerEnds
  <2>2. SessionTypeOK' /\ SessionInv' /\ ContextsAreOfThePast' /\ (closed => closed')
    BY <2>1, SessionPart
  <2>3. Running' \subseteq Running
    BY <1>6 DEF HandlerEnds, Running
  <2> QED  BY <2>1, <2>2, <2>3 DEF OneServeError, ShutdownProgress
<1> QED  BY <1>1, <1>2, <1>3, <1>4, <1>5, <1>6

\* The steps of serve itself.
LEMMA MainKeepsInv ==
    ASSUME LifecycleInv, MainStep
    PROVE  LifecycleInv'
<1> USE DEF LifecycleInv, LifecycleTyping, Running
<1>1. UNCHANGED <<signalled, handler, handlerCtx>>
  BY DEF MainStep, ListenFails, Listen, ServeEnds, CloseSession, BeginShutdown, Drained,
         DrainTimesOut, Join, Leave, handlerVars
<1>2. UNCHANGED sessionVars \/ Close
  BY DEF MainStep, ListenFails, Listen, ServeEnds, CloseSession, BeginShutdown, Drained,
         DrainTimesOut, Join, Leave
<1>3. SessionTypeOK' /\ SessionInv' /\ ContextsAreOfThePast' /\ (closed => closed')
  BY <1>1, <1>2, SessionPart
<1> USE DEF OneServeError, ShutdownProgress
<1>4. CASE ListenFails
  BY <1>1, <1>3, <1>4 DEF ListenFails, Return
<1>5. CASE Listen
  <2>1. accepting' \in BOOLEAN /\ accepting'
    BY <1>5 DEF Listen
  <2> QED  BY <1>1, <1>3, <1>5, <2>1 DEF Listen
<1>6. CASE ServeEnds
  <2>1. done = <<"AcceptError">> /\ ~accepting
    BY <1>6 DEF ServeEnds
  <2>2. done' = << >> /\ result' = "AcceptError" /\ main' = "leaving"
    BY <1>6, <2>1 DEF ServeEnds, Return
  <2> QED  BY <1>1, <1>3, <1>6, <2>1, <2>2 DEF ServeEnds
<1>7. CASE CloseSession
  <2>1. closed'
    BY <1>7 DEF CloseSession, Close, sessionVars
  <2> QED  BY <1>1, <1>3, <1>7, <2>1 DEF CloseSession
<1>8. CASE BeginShutdown
  <2>1. accepting' \in BOOLEAN /\ ~accepting'
    BY <1>8 DEF BeginShutdown
  <2>2. done' \in {<<"AcceptError">>, <<"ErrServerClosed">>}
    <3>1. CASE accepting
      <4>1. done = << >> /\ done' = Append(done, "ErrServerClosed")
        BY <1>8, <3>1 DEF BeginShutdown
      <4> QED  BY <4>1
    <3>2. CASE ~accepting
      BY <1>8, <3>2 DEF BeginShutdown
    <3> QED  BY <3>1, <3>2
  <2> QED  BY <1>1, <1>3, <1>8, <2>1, <2>2 DEF BeginShutdown
<1>9. CASE Drained
  BY <1>1, <1>3, <1>9 DEF Drained
<1>10. CASE DrainTimesOut
  BY <1>1, <1>3, <1>10 DEF DrainTimesOut
<1>11. CASE Join
  <2>1. done' = << >> /\ main' = "leaving" /\ Head(done) \in {"AcceptError", "ErrServerClosed"}
        /\ UNCHANGED <<accepting, drainErr>> /\ ~accepting
    BY <1>11 DEF Join, Return
  <2>2. /\ result' \in {"nil", "AcceptError", "DeadlineExceeded"}
        /\ result' = "nil" => drainErr = "none"
    BY <1>11, <2>1 DEF Join, Return
  <2> QED  BY <1>1, <1>3, <1>11, <2>1, <2>2 DEF Join
<1>12. CASE Leave
  <2>1. closed'
    BY <1>12 DEF Leave, Close, sessionVars
  <2> QED  BY <1>1, <1>3, <1>12, <2>1 DEF Leave
<1> QED
  BY <1>4, <1>5, <1>6, <1>7, <1>8, <1>9, <1>10, <1>11, <1>12 DEF MainStep

\* LifecycleInv is inductive.
LEMMA LifecycleInvInductive == LifecycleInv /\ [LifecycleNext]_processVars => LifecycleInv'
<1> SUFFICES ASSUME LifecycleInv, [LifecycleNext]_processVars PROVE LifecycleInv'
  OBVIOUS
<1>1. CASE LifecycleNext
  BY <1>1, MainKeepsInv, OthersKeepInv DEF LifecycleNext
<1>2. CASE UNCHANGED processVars
  <2>1. UNCHANGED sessionVars /\ UNCHANGED lifecycleVars
    BY <1>2 DEF processVars
  <2>2. SessionTypeOK' /\ SessionInv' /\ closed' = closed /\ scope' = scope
    BY <2>1, SessionRests DEF LifecycleInv, sessionVars
  <2> QED
    BY <2>1, <2>2 DEF lifecycleVars, LifecycleInv, LifecycleTyping, ContextsAreOfThePast,
                      OneServeError, ShutdownProgress, Running
<1> QED  BY <1>1, <1>2

\* The invariant holds from start to return.
THEOREM LifecycleInvariant == LifecycleSpec => []LifecycleInv
BY LifecycleInitial, LifecycleInvInductive, PTL DEF LifecycleSpec

\* The shutdown is orderly with any number of handlers: bound work is cancelled
\* before it is waited for, nil is returned only after a complete drain, and no
\* return leaves the session open or a handler uncancelled (serve, lifecycle.go).
THEOREM ShutdownAlwaysOrderly == LifecycleSpec => []ShutdownIsOrderly
<1>1. ASSUME LifecycleInv, closed, NEW h \in Handlers
      PROVE  handlerCtx[h] \in cancelledContexts \cup {0}
  <2>1. handlerCtx[h] \in Nat /\ scope.generation \in Nat
    BY <1>1 DEF LifecycleInv, LifecycleTyping, SessionTypeOK, Scopes
  <2> QED  BY <1>1, <2>1 DEF LifecycleInv, ContextsAreOfThePast, SessionInv
<1>2. LifecycleInv => DrainWaitsForCancelledWork /\ ReturnLeavesNothingOpen
  BY <1>1 DEF LifecycleInv, ShutdownProgress, DrainWaitsForCancelledWork,
              ReturnLeavesNothingOpen, Running
<1>3. LifecycleInv => CleanReturnIsDrained
  BY DEF LifecycleInv, LifecycleTyping, OneServeError, ShutdownProgress, CleanReturnIsDrained
<1>4. LifecycleInv => LifecycleTypeOK
  <2>1. LifecycleInv => done \in {<< >>, <<"AcceptError">>, <<"ErrServerClosed">>}
    BY DEF LifecycleInv, LifecycleTyping, OneServeError
  <2>2. \A s \in {<< >>, <<"AcceptError">>, <<"ErrServerClosed">>} :
            s \in Seq({"ErrServerClosed", "AcceptError"}) /\ Len(s) <= 1
    <3>1. \A x \in {"ErrServerClosed", "AcceptError"} :
              <<x>> \in Seq({"ErrServerClosed", "AcceptError"}) /\ Len(<<x>>) <= 1
      OBVIOUS
    <3>2. << >> \in Seq({"ErrServerClosed", "AcceptError"}) /\ Len(<< >>) <= 1
      OBVIOUS
    <3> QED  BY <3>1, <3>2, Zenon
  <2> QED  BY <2>1, <2>2 DEF LifecycleInv, LifecycleTyping, LifecycleTypeOK
<1>5. LifecycleInv => ShutdownIsOrderly
  BY <1>2, <1>3, <1>4 DEF ShutdownIsOrderly
<1> QED  BY <1>5, LifecycleInvariant, PTL

=============================================================================
