------------------------------- MODULE Workbench -------------------------------
(***************************************************************************)
(* The page of the Forge YAML Workbench around its editor                  *)
(* (apps/forge-yaml-workbench/src/main.js): the tab, validation filter and *)
(* tree search that decide what the results show, the results as last      *)
(* rendered, and files being dragged over the editor.                      *)
(*                                                                         *)
(* Every handler of YamlEditor is composed with the resets and the render  *)
(* that belong to it.  A render whose analysis throws writes nothing, and  *)
(* no handler takes back what it did before: the results and their         *)
(* controls stay those of an earlier text.  The search results of a text   *)
(* are given (TreeSearch models how they are found).  The browser reports  *)
(* a file drag by enter and leave events for the editor and the elements   *)
(* inside it, entering the next before leaving the last.                   *)
(***************************************************************************)
EXTENDS YamlEditor, Sequences, SequencesExt

CONSTANTS
    VALIDATION_FILTERS,
    Queries,     \* what can be typed into the search field, NoQuery included
    NoQuery,     \* the empty field
    treeMatches, \* text, mode and query to the ids of the matching nodes, in order
    NoMatch,     \* treeActiveMatchId is null
    MaxNested    \* bound on the elements a drag has entered and not left

ASSUME WorkbenchAssumption ==
    /\ "all" \in VALIDATION_FILTERS
    /\ NoQuery \in Queries
    /\ MaxNested \in Nat
    /\ \A t \in Texts, m \in Modes, q \in Queries :
           /\ treeMatches[<<t, m, q>>] \in Seq(Range(treeMatches[<<t, m, q>>]))
           /\ NoMatch \notin Range(treeMatches[<<t, m, q>>])
           /\ treeMatches[<<t, m, NoQuery>>] = <<>>
           /\ t \in Unreadable => treeMatches[<<t, m, q>>] = <<>>
           /\ IsInjective(treeMatches[<<t, m, q>>])

Tabs == {"summary", "validation", "tree"}

VARIABLES
    activeTab,
    validationFilter,
    treeSearchQuery,
    treeActiveMatchId,
    rendered,       \* what the results were last made from
    fileDragDepth,
    dropReady,      \* the drop hint is shown
    entered         \* elements the drag has entered and not left; the browser's

viewVars == <<activeTab, validationFilter, treeSearchQuery, treeActiveMatchId, rendered>>
dragVars == <<fileDragDepth, dropReady, entered>>
pageVars == <<activeTab, validationFilter, treeSearchQuery, treeActiveMatchId, rendered,
              fileDragDepth, dropReady, entered>>
workbenchVars == <<editorVars, pageVars>>

-----------------------------------------------------------------------------

\* Mutant: every render goes back to the first match.
ActiveAfterRenderFirst(tab, matches, active) ==
    IF tab = "tree" /\ matches # <<>> THEN matches[1] ELSE active

\* treeView keeps the active match while it is one, and else takes the first.
ActiveAfterRender(tab, matches, active) ==
    IF tab = "tree" /\ matches # <<>> /\ active \notin Range(matches) THEN matches[1] ELSE active

\* render, with the tab, filter and search a handler has set before it.
Render(tab, filter, query, active) ==
    LET shown == ActiveAfterRender(tab, treeMatches[<<text', inspectionMode', query>>], active)
    IN  /\ activeTab' = tab
        /\ validationFilter' = filter
        /\ treeSearchQuery' = query
        /\ treeActiveMatchId' = shown
        /\ rendered' = IF text' \in Unreadable THEN rendered
                       ELSE [text |-> text', mode |-> inspectionMode', tab |-> tab,
                             filter |-> filter, query |-> query, active |-> shown]

RenderAsIs == Render(activeTab, validationFilter, treeSearchQuery, treeActiveMatchId)

RenderReset == Render(activeTab, "all", NoQuery, NoMatch)

WorkbenchInit ==
    /\ EditorInit
    /\ activeTab = "summary"
    /\ validationFilter = "all"
    /\ treeSearchQuery = NoQuery
    /\ treeActiveMatchId = NoMatch
    /\ rendered = [text |-> SAMPLE_YAML, mode |-> "kubernetes", tab |-> "summary",
                   filter |-> "all", query |-> NoQuery, active |-> NoMatch]
    /\ fileDragDepth = 0
    /\ dropReady = FALSE
    /\ entered = 0

\* While the user drags, no other control is used.
Dragging == entered > 0

-----------------------------------------------------------------------------
(* The editor's handlers with what they do to the page.                    *)

EditText(value) ==
    /\ ~Dragging
    /\ Input(value)
    /\ RenderAsIs
    /\ UNCHANGED dragVars

\* Mutant: the results are left to the next change.
ChooseModeUnrendered(mode) ==
    /\ ~Dragging
    /\ SelectMode(mode)
    /\ validationFilter' = "all"
    /\ treeSearchQuery' = NoQuery
    /\ treeActiveMatchId' = NoMatch
    /\ UNCHANGED <<activeTab, rendered>>
    /\ UNCHANGED dragVars

ChooseMode(mode) ==
    /\ ~Dragging
    /\ SelectMode(mode)
    /\ RenderReset
    /\ UNCHANGED dragVars

ReplaceText ==
    /\ ~Dragging
    /\ LoadSample \/ Clear
    /\ RenderReset
    /\ UNCHANGED dragVars

PickFile(file) ==
    /\ ~Dragging
    /\ OpenFile(file, FALSE)
    /\ UNCHANGED pageVars

\* Reading ends whatever the user is doing.
ReadEnds(read) ==
    \/ /\ FileRead(read) \/ FileReadThrows(read)
       /\ RenderReset
       /\ UNCHANGED dragVars
    \/ /\ FileReadFails(read)
       /\ UNCHANGED pageVars

\* The click on Format renders in every case but a blank text.  A text with an alias
\* without its anchor fails twice, in formatYaml and in the render.
FormatClick ==
    /\ ~Dragging
    /\ \/ /\ Format
          /\ RenderAsIs
       \/ /\ ~Modal
          /\ text # Empty
          /\ formatYaml[text] = text
          /\ UNCHANGED editorVars
          /\ RenderAsIs
       \/ /\ ~Modal
          /\ text # Empty
          /\ formatYaml[text] = NoText
          /\ UNCHANGED editorVars
          /\ Render("validation", validationFilter, treeSearchQuery, treeActiveMatchId)
    /\ UNCHANGED dragVars

FormatApply ==
    /\ ~Dragging
    /\ ApplyFormat
    /\ RenderAsIs
    /\ UNCHANGED dragVars

\* Handlers that leave the results alone.
OtherControl ==
    /\ ~Dragging
    /\ CancelFormat \/ Download \/ GenerateReport \/ CloseReport \/ TabKey
    /\ UNCHANGED pageVars

-----------------------------------------------------------------------------
(* The controls of the results: the tabs are always there, the others are  *)
(* part of what was last rendered.                                         *)

ResultsControl ==
    /\ ~Dragging
    /\ ~Modal
    /\ UNCHANGED editorVars
    /\ UNCHANGED dragVars

SelectTab(tab) ==
    /\ ResultsControl
    /\ Render(tab, validationFilter, treeSearchQuery, treeActiveMatchId)

SelectFilter(filter) ==
    /\ ResultsControl
    /\ rendered.tab = "validation"
    /\ Render(activeTab, filter, treeSearchQuery, treeActiveMatchId)

\* Typing into the search field, the field's Escape and its Clear button.
SearchInput(query) ==
    /\ ResultsControl
    /\ rendered.tab = "tree"
    /\ Render(activeTab, validationFilter, query, NoMatch)

\* Next and Previous, also by Enter and Shift+Enter; delta is 1 or -1.  A text whose
\* analysis throws has no matches here and changes nothing.
SearchStep(delta) ==
    LET matches == treeMatches[<<text, inspectionMode, treeSearchQuery>>]
        current == IF treeActiveMatchId \in Range(matches)
                   THEN (CHOOSE i \in DOMAIN matches : matches[i] = treeActiveMatchId) - 1
                   ELSE 0
        following == (current + delta + Len(matches)) % Len(matches)
    IN  /\ ResultsControl
        /\ rendered.tab = "tree"
        /\ matches # <<>>
        /\ Render(activeTab, validationFilter, treeSearchQuery, matches[following + 1])

-----------------------------------------------------------------------------
(* Dragging files.  Nothing here changes the editor until a file is read.  *)

\* Mutant: the hint goes but the depth stays.
clearFileDragKeepsDepth ==
    /\ dropReady' = FALSE
    /\ UNCHANGED fileDragDepth

clearFileDrag ==
    /\ fileDragDepth' = 0
    /\ dropReady' = FALSE

DragEnter ==
    /\ ~Modal
    /\ entered < MaxNested
    /\ entered' = entered + 1
    /\ fileDragDepth' = fileDragDepth + 1
    /\ dropReady' = TRUE
    /\ UNCHANGED editorVars
    /\ UNCHANGED viewVars

DragLeave ==
    /\ entered > 0
    /\ entered' = entered - 1
    /\ fileDragDepth' = IF fileDragDepth > 0 THEN fileDragDepth - 1 ELSE 0
    /\ dropReady' = (dropReady /\ fileDragDepth' > 0)
    /\ UNCHANGED editorVars
    /\ UNCHANGED viewVars

\* A drop of one YAML file whose replacement of the text is approved.
Drop(file) ==
    /\ entered > 0
    /\ entered' = 0
    /\ clearFileDrag
    /\ OpenFile(file, TRUE)
    /\ UNCHANGED viewVars

\* Several files, another file or a refused confirmation.
DropRejected ==
    /\ entered > 0
    /\ entered' = 0
    /\ clearFileDrag
    /\ UNCHANGED editorVars
    /\ UNCHANGED viewVars

\* Escape while the hint is shown, or the window losing the focus: the drag itself
\* goes on.
DragCleared ==
    /\ dropReady
    /\ clearFileDrag
    /\ UNCHANGED entered
    /\ UNCHANGED editorVars
    /\ UNCHANGED viewVars

WorkbenchNext ==
    \/ \E value \in Texts : EditText(value)
    \/ \E mode \in Modes : ChooseMode(mode)
    \/ ReplaceText
    \/ \E file \in Files : PickFile(file)
    \/ \E read \in reads : ReadEnds(read)
    \/ FormatClick
    \/ FormatApply
    \/ OtherControl
    \/ \E tab \in Tabs : SelectTab(tab)
    \/ \E filter \in VALIDATION_FILTERS : SelectFilter(filter)
    \/ \E query \in Queries : SearchInput(query)
    \/ \E delta \in {1, -1} : SearchStep(delta)
    \/ DragEnter
    \/ DragLeave
    \/ \E file \in Files : Drop(file)
    \/ DropRejected
    \/ DragCleared

WorkbenchSpec == WorkbenchInit /\ [][WorkbenchNext]_workbenchVars

-----------------------------------------------------------------------------

\* While the text can be analysed the results on the page are those of the present
\* text, mode, tab, filter and search, after every handler, after a file that was
\* read late and after a text that could not be analysed.  What is shown at any
\* time is the whole results of a text that could be, and a search with matches in
\* it marks one of them.
ViewIsCurrent ==
    /\ text \notin Unreadable =>
           rendered = [text |-> text, mode |-> inspectionMode, tab |-> activeTab,
                       filter |-> validationFilter, query |-> treeSearchQuery,
                       active |-> treeActiveMatchId]
    /\ rendered.text \notin Unreadable
    /\ LET matches == treeMatches[<<rendered.text, rendered.mode, rendered.query>>]
       IN  rendered.tab = "tree" /\ matches # <<>> => rendered.active \in Range(matches)

\* Editing, formatting and changing tabs keep the place in the search: with the
\* query unchanged the active match stays active as long as it is a match of the
\* new text, except when the user steps on.
PositionKeptWhileMatching ==
    [][(/\ treeSearchQuery' = treeSearchQuery
        /\ text' # text \/ activeTab' # activeTab
        /\ treeActiveMatchId \in Range(treeMatches[<<text', inspectionMode', treeSearchQuery'>>]))
       => treeActiveMatchId' = treeActiveMatchId]_workbenchVars

\* The drop hint is shown only while a file is over the editor: no order of
\* entering, leaving, dropping, Escape and window changes leaves it behind.
DropHintOnlyDuringDrag ==
    /\ dropReady => entered > 0
    /\ dropReady = (fileDragDepth > 0)

=============================================================================
