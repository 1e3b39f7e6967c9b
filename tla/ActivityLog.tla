----------------------------- MODULE ActivityLog -----------------------------
(***************************************************************************)
(* The bounded in-memory activity record of the ForgeOps Console           *)
(* (resources.Service.record and Activity,                                 *)
(* apps/forgeops-console/internal/resources/service.go).  Both the         *)
(* resource service and, through RecordDiagnostic, the diagnostic service  *)
(* append to it.  record runs under Service.mu and is part of the action   *)
(* that calls it.                                                          *)
(***************************************************************************)
EXTENDS Integers, Sequences

CONSTANT MaxActivity    \* entries kept; 100 in the code

ASSUME MaxActivityAssumption == MaxActivity \in Nat \ {0}

VARIABLES
    sequence,   \* Service.sequence, the number of entries ever recorded
    activity    \* Service.activity, the latest MaxActivity of them

logVars == <<sequence, activity>>

Capabilities == {"resources.read", "pods.logs.read", "events.read", "command.preview"}

Entries(scopes, codes) == [sequence   : Nat,
                           capability : Capabilities,
                           scope      : scopes,
                           outcome    : codes]

LogInit ==
    /\ sequence = 0
    /\ activity = << >>

\* Mutant: the reslice keeps the first entries.
Earliest(entries) ==
    IF Len(entries) > MaxActivity THEN SubSeq(entries, 1, MaxActivity) ELSE entries

\* The slice append keeps: the last MaxActivity entries.
Latest(entries) ==
    IF Len(entries) > MaxActivity
    THEN SubSeq(entries, Len(entries) - MaxActivity + 1, Len(entries))
    ELSE entries

record(capability, bound, code) ==
    /\ sequence' = sequence + 1
    /\ activity' = Latest(Append(activity,
                                 [sequence   |-> sequence + 1,
                                  capability |-> capability,
                                  scope      |-> bound,
                                  outcome    |-> code]))

-----------------------------------------------------------------------------

\* The log holds the latest entries, all of them until it is full, numbered
\* without a gap up to the number ever recorded: trimming never drops a new
\* entry, keeps an old one, or reorders them (record's append and reslice).
LatestEntriesWithoutGap ==
    /\ Len(activity) = IF sequence < MaxActivity THEN sequence ELSE MaxActivity
    /\ \A i \in 1 .. Len(activity) :
           activity[i].sequence = sequence - Len(activity) + i

=============================================================================
