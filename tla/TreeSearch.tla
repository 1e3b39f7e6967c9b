------------------------------ MODULE TreeSearch ------------------------------
(***************************************************************************)
(* The tree search of the Forge YAML Workbench                             *)
(* (apps/forge-yaml-workbench/src/tree-search.js): buildTreeSearchIndex    *)
(* visits every node of every document, searchTreeIndex selects the nodes  *)
(* that contain the query, and matchingTextRanges cuts a text into the     *)
(* parts to highlight and the parts between them.                          *)
(*                                                                         *)
(* Texts are sequences of characters, because the properties are about     *)
(* the printed form of paths and about positions in texts.  A node is a    *)
(* scalar with its text, or a collection with its entries in the order of  *)
(* Object.entries.  The recursion of visit is a stack of nodes to come.    *)
(***************************************************************************)
EXTENDS Integers, Sequences, FiniteSets, SequencesExt

CONSTANTS
    Characters,   \* what texts are made of
    Nodes,        \* every node of the trees
    Trees,        \* sequences of root nodes, one for each document
    Queries,      \* what can be typed into the search field
    TextSamples,  \* texts to highlight
    SimpleKeys,   \* keys that are printed after a dot
    lower         \* character to its lower case form, which can be longer

ASSUME TextAssumption ==
    /\ {"$", ".", "[", "]", "\"", "\\", "r", "o", "t"} \subseteq Characters
    /\ \A c \in Characters : lower[c] \in Seq(Characters) /\ lower[c] # <<>>
    /\ \A s \in Queries \cup TextSamples : s \in Seq(Characters)

\* The keys of a collection differ; those of an array are its positions, in digits.
\* A simple key is a letter or an underscore followed by letters, underscores and digits.
ASSUME TreeAssumption ==
    /\ \A roots \in Trees : roots \in Seq(Nodes)
    /\ \A node \in Nodes :
           /\ node.scalar \in BOOLEAN /\ node.array \in BOOLEAN
           /\ node.text \in Seq(Characters)
           /\ node.entries \in Seq([key : Seq(Characters), value : Nodes])
           /\ node.scalar => node.entries = <<>>
           /\ \A i, j \in DOMAIN node.entries :
                  i # j => node.entries[i].key # node.entries[j].key
           /\ node.array => \A i \in DOMAIN node.entries :
                  \A n \in DOMAIN node.entries[i].key : node.entries[i].key[n] # "]"
    /\ \A key \in SimpleKeys : \A n \in DOMAIN key : key[n] \notin {".", "["}

VARIABLES
    tree,         \* the documents being indexed
    pending,      \* calls of visit to come
    records,
    text, query,  \* the text being highlighted
    cursor,       \* characters of the text that are in a range
    ranges,
    highlighting  \* the loop of matchingTextRanges has not ended

indexVars == <<tree, pending, records>>
rangeVars == <<text, query, cursor, ranges, highlighting>>
searchVars == <<tree, pending, records, text, query, cursor, ranges, highlighting>>

-----------------------------------------------------------------------------

toLocaleLowerCase(s) == FlattenSeq([i \in DOMAIN s |-> lower[s[i]]])

\* The query without blanks at its ends, in lower case.
normalized(q) ==
    LET inner == {i \in DOMAIN q : q[i] # " "}
    IN  IF inner = {} THEN <<>>
        ELSE toLocaleLowerCase(SubSeq(q, CHOOSE i \in inner : \A j \in inner : i <= j,
                                         CHOOSE i \in inner : \A j \in inner : j <= i))

\* indexOf: the first occurrence of s at or after position from, counted from 0; -1 for none.
indexOf(in, s, from) ==
    LET found == {i \in from .. Len(in) - Len(s) : SubSeq(in, i + 1, i + Len(s)) = s}
    IN  IF found = {} THEN -1 ELSE CHOOSE i \in found : \A j \in found : i <= j

includes(in, s) == indexOf(in, s, 0) # -1

\* Mutant: quotes inside a key are printed as they are.
stringifyUnescaped(key) == <<"\"">> \o key \o <<"\"">>

\* JSON.stringify of a key.
stringify(key) ==
    <<"\"">>
    \o FlattenSeq([i \in DOMAIN key |->
                      IF key[i] \in {"\"", "\\"} THEN <<"\\", key[i]>> ELSE <<key[i]>>])
    \o <<"\"">>

childYamlPath(parentPath, key, parentIsArray) ==
    IF parentIsArray THEN parentPath \o <<"[">> \o key \o <<"]">>
    ELSE IF key \in SimpleKeys THEN parentPath \o <<".">> \o key
    ELSE parentPath \o <<"[">> \o stringify(key) \o <<"]">>

Call(value, name, path, document, ancestorIds) ==
    [value |-> value, name |-> name, path |-> path, document |-> document,
     ancestorIds |-> ancestorIds]

RootCalls(roots) ==
    [i \in DOMAIN roots |-> Call(roots[i], <<"r", "o", "o", "t">>, <<"$">>, i, <<>>)]

SearchInit ==
    \/ /\ tree \in Trees
       /\ pending = RootCalls(tree)
       /\ records = <<>>
       /\ text = <<>> /\ query = <<>> /\ cursor = 0 /\ ranges = <<>> /\ highlighting = FALSE
    \/ /\ tree = <<>> /\ pending = <<>> /\ records = <<>>
       /\ text \in TextSamples
       /\ query \in Queries
       /\ cursor = 0
       /\ ranges = <<>>
       /\ highlighting = TRUE

SearchIdle ==
    /\ tree = <<>> /\ pending = <<>> /\ records = <<>>
    /\ text = <<>> /\ query = <<>> /\ cursor = 0 /\ ranges = <<>> /\ highlighting = FALSE

\* One call of visit; the calls for the entries come next.
Visit ==
    /\ pending # <<>>
    /\ LET call == Head(pending)
           id == <<call.document, call.path>>
           entries == call.value.entries
       IN  /\ records' = Append(records,
                  [id |-> id, name |-> call.name, path |-> call.path, scalar |-> call.value.scalar,
                   valueText |-> call.value.text, ancestorIds |-> call.ancestorIds])
           /\ pending' =
                  [i \in DOMAIN entries |->
                      Call(entries[i].value, entries[i].key,
                           childYamlPath(call.path, entries[i].key, call.value.array),
                           call.document, Append(call.ancestorIds, id))]
                  \o Tail(pending)
    /\ UNCHANGED tree
    /\ UNCHANGED rangeVars

\* The filter of searchTreeIndex; the text of a collection is null and matches nothing.
Matches(record, q) ==
    /\ normalized(q) # <<>>
    /\ \E value \in {record.name, record.path} \cup (IF record.scalar THEN {record.valueText} ELSE {}) :
           includes(toLocaleLowerCase(value), normalized(q))

-----------------------------------------------------------------------------

\* String.slice: positions beyond the end are the end.
slice(s, from, to) == SubSeq(s, from + 1, IF to > Len(s) THEN Len(s) ELSE to)

NextMatch == indexOf(toLocaleLowerCase(text), normalized(query), cursor)

\* A pass of the loop.
PushMatch ==
    /\ highlighting
    /\ normalized(query) # <<>>
    /\ NextMatch # -1
    /\ LET matchAt == NextMatch
           end == matchAt + Len(normalized(query))
       IN  /\ ranges' = ranges
                  \o (IF matchAt > cursor
                      THEN <<[text |-> slice(text, cursor, matchAt), match |-> FALSE]>>
                      ELSE <<>>)
                  \o <<[text |-> slice(text, matchAt, end), match |-> TRUE]>>
           /\ cursor' = end
    /\ UNCHANGED <<text, query, highlighting>>
    /\ UNCHANGED indexVars

\* Mutant: the end of the text is left out unless there is no match.
PushRestOnlyAlone ==
    /\ highlighting
    /\ normalized(query) = <<>> \/ NextMatch = -1
    /\ ranges' = IF ranges = <<>> THEN <<[text |-> text, match |-> FALSE]>> ELSE ranges
    /\ highlighting' = FALSE
    /\ UNCHANGED <<text, query, cursor>>
    /\ UNCHANGED indexVars

\* What follows the last match; the whole text when there is none.
PushRest ==
    /\ highlighting
    /\ normalized(query) = <<>> \/ NextMatch = -1
    /\ ranges' = IF cursor < Len(text) \/ ranges = <<>>
                 THEN Append(ranges, [text |-> slice(text, cursor, Len(text)), match |-> FALSE])
                 ELSE ranges
    /\ highlighting' = FALSE
    /\ UNCHANGED <<text, query, cursor>>
    /\ UNCHANGED indexVars

SearchNext ==
    \/ Visit
    \/ PushMatch
    \/ PushRest

SearchSpec == SearchInit /\ [][SearchNext]_searchVars

-----------------------------------------------------------------------------

\* The printed path of a node is no other node's: whatever keys hold (dots, digits,
\* quotes, brackets), a search result, its highlight and the nodes opened above it
\* are told apart by "document-<n>:<path>".  The ancestors of a record are exactly
\* the collections on the way to it, outermost first.
TreePathsIdentifyNodes ==
    /\ \A r, s \in DOMAIN records : r # s => records[r].id # records[s].id
    /\ \A r \in DOMAIN records :
           LET ancestorIds == records[r].ancestorIds IN
           /\ ancestorIds = <<>> <=> records[r].path = <<"$">>
           /\ \A a \in DOMAIN ancestorIds :
                  \E s \in 1 .. r - 1 :
                      /\ records[s].id = ancestorIds[a]
                      /\ ~records[s].scalar
                      /\ records[s].ancestorIds = SubSeq(ancestorIds, 1, a - 1)

\* A record that only the text s can select.
Bearing(s) == [name |-> s, path |-> s, scalar |-> TRUE, valueText |-> s]

KeepsLength(s) == Len(toLocaleLowerCase(s)) = Len(s)

\* The ranges in order spell the text, even where lower case is longer than the
\* text and the positions of the matches are off.  Where it is not, the marked
\* ranges are the query, nothing else contains it, and a text has a marked range
\* exactly when the search selects a node for it.
RangesSpellSource ==
    ~highlighting =>
        /\ FlattenSeq([i \in DOMAIN ranges |-> ranges[i].text]) = text
        /\ KeepsLength(text) =>
               /\ \A i \in DOMAIN ranges :
                      LET found == toLocaleLowerCase(ranges[i].text) IN
                      IF ranges[i].match THEN found = normalized(query)
                      ELSE normalized(query) # <<>> => ~includes(found, normalized(query))
               /\ (\E i \in DOMAIN ranges : ranges[i].match) <=> Matches(Bearing(text), query)

=============================================================================
