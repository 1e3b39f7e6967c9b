------------------------------ MODULE FormatDiff ------------------------------
(***************************************************************************)
(* The line diff of the formatting preview, buildLineDiff                  *)
(* (apps/forge-yaml-workbench/src/format-diff.js).                         *)
(*                                                                         *)
(* A source is the sequence of its lines, each with the terminator that    *)
(* ends it; only the last line may have none, and then it is not empty.    *)
(* The representation is one to one: a lone carriage return before an      *)
(* empty line that ends in a line feed would read as one "crlf".           *)
(*                                                                         *)
(* The alignment is walked one row per step.                               *)
(***************************************************************************)
EXTENDS Integers, Sequences, FiniteSets, SequencesExt

CONSTANTS
    Sources,    \* what the editor can hold
    Formatted,  \* what formatYaml can return
    MaxCells    \* the largest alignment matrix, 1000000 in the code

Terminators == {"lf", "crlf", "cr", "none"}

IsSource(s) ==
    /\ s \in Seq([text : {s[i].text : i \in DOMAIN s}, end : Terminators])
    /\ \A i \in DOMAIN s :
           /\ s[i].end = "none" => i = Len(s) /\ s[i].text # ""
           /\ s[i].end = "cr" /\ i < Len(s) => s[i + 1] # [text |-> "", end |-> "lf"]

\* The formatter ends every line with a line feed.
ASSUME DiffAssumption ==
    /\ \A s \in Sources : IsSource(s)
    /\ \A s \in Formatted : IsSource(s) /\ \A i \in DOMAIN s : s[i].end = "lf"
    /\ MaxCells \in Nat

VARIABLES
    before, after,
    oldIndex, newIndex,
    rows,
    simplified

diffVars == <<before, after, oldIndex, newIndex, rows, simplified>>

-----------------------------------------------------------------------------

\* A trailing terminator begins no further line.
lines(source) == [i \in DOMAIN source |-> source[i].text]

previous == lines(before)
next     == lines(after)

EndsWithNewline(source) == source # <<>> /\ Last(source).end \in {"lf", "crlf"}

newlineChange ==
    IF EndsWithNewline(before) = EndsWithNewline(after) THEN "none"
    ELSE IF EndsWithNewline(after) THEN "added" ELSE "removed"

HasReturn(source) == \E i \in DOMAIN source : source[i].end \in {"crlf", "cr"}

\* Mutant: only the lines are compared.
lineEndingsIgnored == FALSE

lineEndingsChanged == HasReturn(before) # HasReturn(after)

\* A number that is null in the code is 0.
Row(type, beforeNumber, afterNumber, text) ==
    [type |-> type, beforeNumber |-> beforeNumber, afterNumber |-> afterNumber, text |-> text]

\* matrix[<<o, n>>] is the length of the alignment of what follows old line o and
\* new line n.
matrix[cell \in Nat \X Nat] ==
    LET o == cell[1]
        n == cell[2]
        down == matrix[<<o + 1, n>>]
        right == matrix[<<o, n + 1>>]
    IN  IF o >= Len(previous) \/ n >= Len(next) THEN 0
        ELSE IF previous[o + 1] = next[n + 1] THEN matrix[<<o + 1, n + 1>>] + 1
        ELSE IF down > right THEN down ELSE right

\* Mutant: the suffix may reach back into the prefix.
commonSuffixOverlapping(prefix) ==
    CHOOSE s \in 0 .. Len(previous) :
        /\ s <= Len(next)
        /\ \A i \in 0 .. s - 1 : previous[Len(previous) - i] = next[Len(next) - i]
        /\ s < Len(previous) /\ s < Len(next) => previous[Len(previous) - s] # next[Len(next) - s]

\* The second loop of replacementRows: the common lines at the end, beyond the prefix.
commonSuffix(prefix) ==
    CHOOSE s \in 0 .. Len(previous) - prefix :
        /\ s <= Len(next) - prefix
        /\ \A i \in 0 .. s - 1 : previous[Len(previous) - i] = next[Len(next) - i]
        /\ s < Len(previous) - prefix /\ s < Len(next) - prefix =>
               previous[Len(previous) - s] # next[Len(next) - s]

commonPrefix ==
    CHOOSE p \in 0 .. Len(previous) :
        /\ p <= Len(next)
        /\ \A i \in 1 .. p : previous[i] = next[i]
        /\ p < Len(previous) /\ p < Len(next) => previous[p + 1] # next[p + 1]

replacementRows ==
    LET prefix == commonPrefix
        suffix == commonSuffix(prefix)
        oldKept == Len(previous) - suffix
        newKept == Len(next) - suffix
    IN  [i \in 1 .. prefix |-> Row("context", i, i, previous[i])]
        \o [i \in 1 .. oldKept - prefix |-> Row("removed", prefix + i, 0, previous[prefix + i])]
        \o [i \in 1 .. newKept - prefix |-> Row("added", 0, prefix + i, next[prefix + i])]
        \o [i \in 1 .. suffix |-> Row("context", oldKept + i, newKept + i, previous[oldKept + i])]

-----------------------------------------------------------------------------

DiffInit ==
    /\ before \in Sources
    /\ after \in Formatted
    /\ before # after
    /\ oldIndex = 0
    /\ newIndex = 0
    /\ rows = <<>>
    /\ simplified = FALSE

\* No preview has been asked for.
DiffIdle ==
    /\ before = <<>>
    /\ after = <<>>
    /\ oldIndex = 0
    /\ newIndex = 0
    /\ rows = <<>>
    /\ simplified = FALSE

Aligned == Len(previous) * Len(next) <= MaxCells

DiffDone == oldIndex = Len(previous) /\ newIndex = Len(next)

\* Too large to align: everything between the common ends is replaced.
Simplify ==
    /\ ~Aligned
    /\ ~simplified
    /\ rows' = replacementRows
    /\ oldIndex' = Len(previous)
    /\ newIndex' = Len(next)
    /\ simplified' = TRUE
    /\ UNCHANGED <<before, after>>

Matching ==
    /\ oldIndex < Len(previous)
    /\ newIndex < Len(next)
    /\ previous[oldIndex + 1] = next[newIndex + 1]

\* Mutant: the longer alignment is the one left behind.
AddingFirstSwapped ==
    /\ newIndex < Len(next)
    /\ \/ oldIndex = Len(previous)
       \/ matrix[<<oldIndex, newIndex + 1>>] < matrix[<<oldIndex + 1, newIndex>>]

\* The new line is shown before the old one.
AddingFirst ==
    /\ newIndex < Len(next)
    /\ \/ oldIndex = Len(previous)
       \/ matrix[<<oldIndex, newIndex + 1>>] > matrix[<<oldIndex + 1, newIndex>>]

PushContext ==
    /\ Aligned
    /\ Matching
    /\ rows' = Append(rows, Row("context", oldIndex + 1, newIndex + 1, previous[oldIndex + 1]))
    /\ oldIndex' = oldIndex + 1
    /\ newIndex' = newIndex + 1
    /\ UNCHANGED <<before, after, simplified>>

PushAdded ==
    /\ Aligned
    /\ ~Matching
    /\ AddingFirst
    /\ rows' = Append(rows, Row("added", 0, newIndex + 1, next[newIndex + 1]))
    /\ newIndex' = newIndex + 1
    /\ UNCHANGED <<before, after, oldIndex, simplified>>

\* An old line is left here: with none left and new ones remaining, AddingFirst holds.
PushRemoved ==
    /\ Aligned
    /\ ~DiffDone
    /\ ~Matching
    /\ ~AddingFirst
    /\ rows' = Append(rows, Row("removed", oldIndex + 1, 0, previous[oldIndex + 1]))
    /\ oldIndex' = oldIndex + 1
    /\ UNCHANGED <<before, after, newIndex, simplified>>

DiffNext ==
    \/ Simplify
    \/ PushContext
    \/ PushAdded
    \/ PushRemoved

DiffSpec == DiffInit /\ [][DiffNext]_diffVars

-----------------------------------------------------------------------------

\* The rows so far carry the numbers 1 .. index of one side, in order, each with
\* the text of that line.
Rebuilds(side, index, texts) ==
    /\ \A r \in DOMAIN rows : rows[r][side] \in 0 .. index
    /\ \A n \in 1 .. index : \E r \in DOMAIN rows : rows[r][side] = n
    /\ \A r \in DOMAIN rows : rows[r][side] # 0 => rows[r].text = texts[rows[r][side]]
    /\ \A r, s \in DOMAIN rows :
           r < s /\ rows[r][side] # 0 /\ rows[s][side] # 0 => rows[r][side] < rows[s][side]

\* Reading only the rows that have an old number gives the text before line by
\* line, reading only those with a new number the text after: the preview neither
\* loses, repeats nor reorders a line, in the aligned and the simplified form.
RowsRebuildBothTexts ==
    /\ oldIndex <= Len(previous)
    /\ newIndex <= Len(next)
    /\ Rebuilds("beforeNumber", oldIndex, previous)
    /\ Rebuilds("afterNumber", newIndex, next)

\* The sequences of k elements that s has at increasing positions.
Subsequences(s, k) ==
    {[i \in 1 .. k |-> s[at[i]]] :
        at \in {f \in [1 .. k -> DOMAIN s] : \A i, j \in 1 .. k : i < j => f[i] < f[j]}}

contextCount == Cardinality({r \in DOMAIN rows : rows[r].type = "context"})

\* A finished alignment shows as many lines unchanged as any alignment could: the
\* two texts have no longer common subsequence of lines (the greedy choice between
\* an added and a removed line never costs a match).
AlignmentIsLongest ==
    DiffDone /\ ~simplified =>
        Subsequences(previous, contextCount + 1) \cap Subsequences(next, contextCount + 1) = {}

\* A preview is opened only for a text that formatting changes, and then it shows
\* the change: some row is not context, or the summary names the final newline or
\* the line endings.  A change of terminators alone leaves every row unchanged.
FormattingChangeIsVisible ==
    DiffDone /\ before # after =>
        \/ \E r \in DOMAIN rows : rows[r].type # "context"
        \/ newlineChange # "none"
        \/ lineEndingsChanged

=============================================================================
