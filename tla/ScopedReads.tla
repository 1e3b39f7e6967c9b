----------------------------- MODULE ScopedReads -----------------------------
(***************************************************************************)
(* What the ForgeOps Console core promises an operator, without slots,     *)
(* timeouts, cancellation, locks or logs:                                  *)
(*                                                                         *)
(*   - the scope changes only as a whole, each change gets a new           *)
(*     generation, and a namespace is only ever chosen among those of the  *)
(*     selected context;                                                   *)
(*   - a read takes the scope as it is at one moment; it can succeed only  *)
(*     if, at a later moment, exactly that scope is still the current one; *)
(*   - after the session is closed no read starts and none that has not    *)
(*     reached that moment succeeds.                                       *)
(*                                                                         *)
(* Session with ResourceService, and with DiagnosticService, implement it. *)
(***************************************************************************)
EXTENDS Integers

CONSTANTS Reads, Contexts, Namespaces, NamespacesOf, NoName

VARIABLES
    current,    \* the scope in force
    open,       \* the session accepts work
    status,     \* of each read
    taken       \* the scope each read took

readVars == <<current, open, status, taken>>

Nowhere == [context |-> NoName, namespace |-> NoName, generation |-> 0]

ReadsInit ==
    /\ current = Nowhere
    /\ open = TRUE
    /\ status = [r \in Reads |-> "idle"]
    /\ taken = [r \in Reads |-> Nowhere]

MoveTo(context, namespace) ==
    /\ open
    /\ current' = [context    |-> context,
                   namespace  |-> namespace,
                   generation |-> current.generation + 1]
    /\ UNCHANGED <<open, status, taken>>

ChooseNamespace ==
    /\ current.context # NoName
    /\ \E n \in NamespacesOf[current.context] : MoveTo(current.context, n)

EndSession ==
    /\ open
    /\ open' = FALSE
    /\ current' = [context    |-> NoName,
                   namespace  |-> NoName,
                   generation |-> current.generation + 1]
    /\ UNCHANGED <<status, taken>>

Become(r, s) == status' = [status EXCEPT ![r] = s]

Take(r) ==
    /\ open
    /\ current.context # NoName
    /\ status[r] = "idle"
    /\ Become(r, "reading")
    /\ taken' = [taken EXCEPT ![r] = current]
    /\ UNCHANGED <<current, open>>

\* The moment a read's fate is tied to: its scope is the one in force.
Confirm(r) ==
    /\ status[r] = "reading"
    /\ taken[r] = current
    /\ Become(r, "confirmed")
    /\ UNCHANGED <<current, open, taken>>

Succeed(r) ==
    /\ status[r] = "confirmed"
    /\ Become(r, "ok")
    /\ UNCHANGED <<current, open, taken>>

Abandon(r) ==
    /\ status[r] \in {"idle", "reading", "confirmed"}
    /\ Become(r, "failed")
    /\ UNCHANGED <<current, open, taken>>

ReadsNext ==
    \/ \E c \in Contexts : MoveTo(c, NoName)
    \/ ChooseNamespace
    \/ EndSession
    \/ \E r \in Reads : Take(r) \/ Confirm(r) \/ Succeed(r) \/ Abandon(r)

ReadsSpec == ReadsInit /\ [][ReadsNext]_readVars

=============================================================================
