---------------------------- MODULE WorkbenchProofs ----------------------------
(***************************************************************************)
(* Proofs about the page of the Workbench and its editor.                  *)
(*                                                                         *)
(* Every handler of the page is a handler of the editor or leaves the      *)
(* editor alone, so the editor's invariant is proved once, for YamlEditor, *)
(* and holds of the page too.  What the results show and the drag are      *)
(* proved on top of it.                                                    *)
(***************************************************************************)
EXTENDS Workbench, TLAPS

\* Everything that counts as stored from the start stays stored: what a load
\* makes clean is one of these texts.
OriginalsStored == {SAMPLE_YAML, Empty} \cup {Contents[f] : f \in Files} \subseteq stored

\* The inductive invariant of the editor.
EditorInv == ReportIsOfEditor /\ CleanTextIsStored /\ OriginalsStored

\* The search that is active is one that can be typed: treeMatches is given for it.
ViewInv == treeSearchQuery \in Queries /\ ViewIsCurrent

\* The code's depth never exceeds what the browser has entered: it starts again
\* from 0 when the hint is cleared in the middle of a drag.
DragInv ==
    /\ fileDragDepth \in Nat
    /\ entered \in Nat
    /\ fileDragDepth <= entered
    /\ dropReady <=> fileDragDepth > 0
    /\ dropReady \in BOOLEAN

WorkbenchInv == EditorInv /\ ViewInv /\ DragInv

-----------------------------------------------------------------------------
(* The editor.                                                             *)

\* The closed previews are none of the open ones: an open preview holds texts of
\* the editor and NoText is not one.
LEMMA ClosedPreviews ==
    /\ \A r \in [text : Texts, mode : Modes, filename : Names] : r # NoReport
    /\ \A p \in [before : Texts, after : Texts] : p # NoPreview
BY EditorAssumption DEF NoReport, NoPreview

\* The page is opened with the sample, which is stored, and no preview.
LEMMA EditorInitially == EditorInit => EditorInv
<1> SUFFICES ASSUME EditorInit PROVE EditorInv
    OBVIOUS
<1>1. EditorTypeOK
  <2>1. stored \in SUBSET Texts
      BY EditorAssumption DEF EditorInit
  <2>2. escaped \in BOOLEAN /\ (escaped => formatPreview # NoPreview)
      BY Zenon DEF EditorInit
  <2>q. QED
      BY <2>1, <2>2, EditorAssumption DEF EditorInit, EditorTypeOK, Names, Modes
<1>2. ReportIsOfEditor
    BY <1>1 DEF ReportIsOfEditor, EditorInit
<1>3. CleanTextIsStored /\ OriginalsStored
    BY DEF EditorInit, CleanTextIsStored, OriginalsStored
<1>q. QED
    BY <1>2, <1>3 DEF EditorInv

\* loadEditor (main.js) keeps the editor's invariant for any text that is stored:
\* it invalidates the report in the same step, and leaves an open formatting preview.
LEMMA LoadKeepsEditorInv ==
    ASSUME EditorInv, NEW value \in Texts, NEW filename \in Names,
           value \in stored, loadEditor(value, filename),
           reads' \in SUBSET reads, escaped' \in BOOLEAN,
           escaped' => formatPreview # NoPreview
    PROVE  EditorInv'
<1> USE DEF EditorInv, ReportIsOfEditor, CleanTextIsStored, loadEditor, invalidateReportPreview
<1>1. EditorTypeOK'
  <2>1. (escaped \in BOOLEAN /\ (escaped => formatPreview # NoPreview))'
      BY Zenon
  <2>2. reads' \in SUBSET [file : Files, approved : Texts, drop : BOOLEAN]
      BY DEF EditorTypeOK
  <2>3. text' \in Texts
      BY EditorAssumption
  <2>q. QED
      BY <2>1, <2>2, <2>3 DEF EditorTypeOK
<1>2. CleanTextIsStored' /\ OriginalsStored'
    BY DEF OriginalsStored
<1>q. QED
    BY <1>1, <1>2

\* The texts a load can put into the editor, the sample, the empty text and the
\* content of a file, are texts and are stored.
LEMMA LoadableTexts ==
    ASSUME EditorInv
    PROVE  /\ SAMPLE_YAML \in Texts \cap stored
           /\ Empty \in Texts \cap stored
           /\ \A f \in Files : Contents[f] \in Texts \cap stored
BY EditorAssumption DEF EditorInv, OriginalsStored

\* Every handler of the editor keeps its invariant.
LEMMA EditorStep == EditorInv /\ [EditorNext]_editorVars => EditorInv'
<1> SUFFICES ASSUME EditorInv, [EditorNext]_editorVars PROVE EditorInv'
    OBVIOUS
<1>t. EditorTypeOK
    BY DEF EditorInv, ReportIsOfEditor
<1> USE DEF EditorInv, ReportIsOfEditor, CleanTextIsStored
<1>1. ASSUME NEW value \in Texts, Input(value) PROVE EditorInv'
  <2>1. EditorTypeOK'
    <3>1. (escaped \in BOOLEAN /\ (escaped => formatPreview # NoPreview))'
        BY <1>1, <1>t, Zenon DEF EditorTypeOK, Input
    <3>q. QED
        BY <1>1, <1>t, <3>1, EditorAssumption DEF EditorTypeOK, Input, invalidateReportPreview
  <2>q. QED
      BY <1>1, <2>1 DEF Input, invalidateReportPreview, OriginalsStored
<1>2. ASSUME NEW mode \in Modes, SelectMode(mode) PROVE EditorInv'
  <2>1. EditorTypeOK'
    <3>1. (escaped \in BOOLEAN /\ (escaped => formatPreview # NoPreview))'
        BY <1>2, <1>t, Zenon DEF EditorTypeOK, SelectMode
    <3>q. QED
        BY <1>2, <1>t, <3>1 DEF EditorTypeOK, SelectMode, invalidateReportPreview
  <2>q. QED
      BY <1>2, <2>1 DEF SelectMode, invalidateReportPreview, OriginalsStored
<1>3. ASSUME LoadSample \/ Clear PROVE EditorInv'
  <2>1. SampleName \in Names /\ DefaultName \in Names
      BY DEF Names
  <2>2. /\ escaped' \in BOOLEAN /\ (escaped' => formatPreview # NoPreview)
        /\ reads' \in SUBSET reads
    <3>1. escaped' = escaped /\ reads' = reads
        BY <1>3 DEF LoadSample, Clear
    <3>2. escaped' \in BOOLEAN /\ (escaped' => formatPreview # NoPreview)
        BY <1>t, <3>1, Zenon DEF EditorTypeOK
    <3>q. QED
        BY <3>1, <3>2
  <2>3. loadEditor(SAMPLE_YAML, SampleName) \/ loadEditor(Empty, DefaultName)
      BY <1>3 DEF LoadSample, Clear
  <2>4. CASE loadEditor(SAMPLE_YAML, SampleName)
      BY <2>1, <2>2, <2>4, LoadableTexts, LoadKeepsEditorInv
  <2>5. CASE loadEditor(Empty, DefaultName)
      BY <2>1, <2>2, <2>5, LoadableTexts, LoadKeepsEditorInv
  <2>q. QED
      BY <2>3, <2>4, <2>5
<1>4. ASSUME NEW file \in Files, NEW drop \in BOOLEAN, OpenFile(file, drop) PROVE EditorInv'
  <2>1. EditorTypeOK'
    <3>1. (escaped \in BOOLEAN /\ (escaped => formatPreview # NoPreview))'
        BY <1>4, <1>t, Zenon DEF EditorTypeOK, OpenFile
    <3>2. reads' \in SUBSET [file : Files, approved : Texts, drop : BOOLEAN]
        BY <1>4, <1>t DEF EditorTypeOK, OpenFile
    <3>q. QED
        BY <1>4, <1>t, <3>1, <3>2 DEF EditorTypeOK, OpenFile
  <2>q. QED
      BY <1>4, <2>1 DEF OpenFile, OriginalsStored
<1>5. ASSUME NEW read \in reads, FileRead(read) \/ FileReadThrows(read) PROVE EditorInv'
  <2>1. read.file \in Files /\ read.file \in Names
      BY <1>t DEF EditorTypeOK, Names
  <2>2. escaped' \in BOOLEAN /\ (escaped' => formatPreview # NoPreview)
    <3>1. CASE FileRead(read)
        BY <3>1, Zenon DEF FileRead
    <3>2. CASE FileReadThrows(read)
        BY <3>2, <1>t, Zenon DEF FileReadThrows, EditorTypeOK
    <3>q. QED
        BY <1>5, <3>1, <3>2
  <2>3. reads' \in SUBSET reads /\ loadEditor(Contents[read.file], read.file)
      BY <1>5 DEF FileRead, FileReadThrows
  <2>q. QED
      BY <2>1, <2>2, <2>3, LoadableTexts, LoadKeepsEditorInv
<1>6. ASSUME NEW read \in reads, FileReadFails(read) PROVE EditorInv'
  <2>1. EditorTypeOK'
    <3>1. (escaped \in BOOLEAN /\ (escaped => formatPreview # NoPreview))'
        BY <1>6, <1>t, Zenon DEF EditorTypeOK, FileReadFails
    <3>q. QED
        BY <1>6, <1>t, <3>1 DEF EditorTypeOK, FileReadFails
  <2>q. QED
      BY <1>6, <2>1 DEF FileReadFails, OriginalsStored
<1>7. CASE Format
  <2>1. formatYaml[text] \in Texts
      BY <1>7, <1>t, EditorAssumption DEF Format, EditorTypeOK
  <2>2. PICK p \in [before : Texts, after : Texts] : p = [before |-> text, after |-> formatYaml[text]]
      BY <2>1, <1>t DEF EditorTypeOK
  <2>3. formatPreview' = p /\ p # NoPreview
      BY <1>7, <2>2, ClosedPreviews DEF Format
  <2>4. reportPreview = NoReport /\ reportPreview' = NoReport
      BY <1>7 DEF Format, Modal
  <2>5. EditorTypeOK'
    <3>1. (escaped \in BOOLEAN /\ (escaped => formatPreview # NoPreview))'
        BY <1>7, <1>t, <2>3, Zenon DEF EditorTypeOK, Format
    <3>q. QED
        BY <1>7, <1>t, <2>3, <2>4, <3>1 DEF EditorTypeOK, Format
  <2>q. QED
      BY <1>7, <2>4, <2>5 DEF Format, OriginalsStored
<1>8. CASE CancelFormat
  <2>1. EditorTypeOK'
    <3>1. (escaped \in BOOLEAN /\ (escaped => formatPreview # NoPreview))'
        BY <1>8, Zenon DEF CancelFormat
    <3>q. QED
        BY <1>8, <1>t, <3>1 DEF EditorTypeOK, CancelFormat
  <2>q. QED
      BY <1>8, <2>1 DEF CancelFormat, OriginalsStored
<1>9. CASE ApplyFormat
  <2>1. reportPreview' = NoReport /\ textareaValue[formatPreview.after] \in Texts
      BY <1>9, <1>t, EditorAssumption DEF ApplyFormat, EditorTypeOK
  <2>2. EditorTypeOK'
    <3>1. (escaped \in BOOLEAN /\ (escaped => formatPreview # NoPreview))'
        BY <1>9, Zenon DEF ApplyFormat
    <3>q. QED
        BY <1>9, <1>t, <2>1, <3>1 DEF EditorTypeOK, ApplyFormat
  <2>q. QED
      BY <1>9, <2>1, <2>2 DEF ApplyFormat, OriginalsStored
<1>10. CASE Download
  <2>1. EditorTypeOK'
    <3>1. (escaped \in BOOLEAN /\ (escaped => formatPreview # NoPreview))'
        BY <1>10, <1>t, Zenon DEF EditorTypeOK, Download
    <3>q. QED
        BY <1>10, <1>t, <3>1 DEF EditorTypeOK, Download
  <2>q. QED
      BY <1>10, <2>1 DEF Download, OriginalsStored
<1>11. CASE GenerateReport
  <2>1. PICK r \in [text : Texts, mode : Modes, filename : Names] :
            r = [text |-> text, mode |-> inspectionMode, filename |-> currentFilename]
      BY <1>t DEF EditorTypeOK
  <2>2. reportPreview' = r
      BY <1>11, <2>1 DEF GenerateReport
  <2>3. r.text = text /\ r.mode = inspectionMode /\ r.filename = currentFilename
      BY <2>1
  <2>4. formatPreview' = NoPreview
      BY <1>11 DEF GenerateReport, Modal
  <2>5. EditorTypeOK'
    <3>1. (escaped \in BOOLEAN /\ (escaped => formatPreview # NoPreview))'
        BY <1>11, <1>t, Zenon DEF EditorTypeOK, GenerateReport
    <3>q. QED
        BY <1>11, <1>t, <2>2, <2>4, <3>1 DEF EditorTypeOK, GenerateReport
  <2>q. QED
      BY <1>11, <2>2, <2>3, <2>5 DEF GenerateReport, OriginalsStored
<1>12. CASE CloseReport
  <2>1. EditorTypeOK'
    <3>1. (escaped \in BOOLEAN /\ (escaped => formatPreview # NoPreview))'
        BY <1>12, <1>t, Zenon DEF EditorTypeOK, CloseReport
    <3>q. QED
        BY <1>12, <1>t, <3>1 DEF EditorTypeOK, CloseReport
  <2>q. QED
      BY <1>12, <2>1 DEF CloseReport, OriginalsStored
<1>13. CASE TabKey
  <2>1. EditorTypeOK'
    <3>1. (escaped \in BOOLEAN /\ (escaped => formatPreview # NoPreview))'
        BY <1>13, Zenon DEF TabKey
    <3>q. QED
        BY <1>13, <1>t, <3>1 DEF EditorTypeOK, TabKey
  <2>q. QED
      BY <1>13, <2>1 DEF TabKey, OriginalsStored
<1>14. CASE UNCHANGED editorVars
  <2>1. EditorTypeOK'
    <3>1. (escaped \in BOOLEAN /\ (escaped => formatPreview # NoPreview))'
        BY <1>14, <1>t, Zenon DEF EditorTypeOK, editorVars
    <3>q. QED
        BY <1>14, <1>t, <3>1 DEF EditorTypeOK, editorVars
  <2>q. QED
      BY <1>14, <2>1 DEF editorVars, OriginalsStored
<1>q. QED
    BY <1>1, <1>2, <1>3, <1>4, <1>5, <1>6, <1>7, <1>8, <1>9, <1>10, <1>11, <1>12, <1>13, <1>14
    DEF EditorNext

\* The editor by itself keeps its invariant.
THEOREM EditorInvariant == EditorSpec => []EditorInv
<1>q. QED
    BY EditorInitially, EditorStep, PTL DEF EditorSpec

-----------------------------------------------------------------------------
(* The page around the editor.                                             *)

\* Every handler of the page is one handler of the editor with its resets and its
\* render, or leaves the editor alone.
LEMMA PageStepIsEditorStep ==
    [WorkbenchNext]_workbenchVars => [EditorNext]_editorVars
<1> SUFFICES ASSUME [WorkbenchNext]_workbenchVars PROVE [EditorNext]_editorVars
    OBVIOUS
<1>1. CASE \E value \in Texts : EditText(value)
    BY <1>1 DEF EditText, EditorNext
<1>2. CASE \E mode \in Modes : ChooseMode(mode)
    BY <1>2 DEF ChooseMode, EditorNext
<1>3. CASE ReplaceText
    BY <1>3 DEF ReplaceText, EditorNext
<1>4. CASE \E file \in Files : PickFile(file)
    BY <1>4 DEF PickFile, EditorNext
<1>5. CASE \E read \in reads : ReadEnds(read)
    BY <1>5 DEF ReadEnds, EditorNext
<1>6. CASE FormatClick \/ FormatApply
    BY <1>6 DEF FormatClick, FormatApply, EditorNext
<1>7. CASE OtherControl
    BY <1>7 DEF OtherControl, EditorNext
<1>8. CASE \/ \E tab \in Tabs : SelectTab(tab)
           \/ \E filter \in VALIDATION_FILTERS : SelectFilter(filter)
           \/ \E query \in Queries : SearchInput(query)
           \/ \E delta \in {1, -1} : SearchStep(delta)
    BY <1>8, Zenon DEF SelectTab, SelectFilter, SearchInput, SearchStep, ResultsControl
<1>9. CASE DragEnter \/ DragLeave \/ DropRejected \/ DragCleared
    BY <1>9 DEF DragEnter, DragLeave, DropRejected, DragCleared
<1>10. CASE \E file \in Files : Drop(file)
    BY <1>10 DEF Drop, EditorNext
<1>11. CASE UNCHANGED workbenchVars
    BY <1>11 DEF workbenchVars
<1>q. QED
    BY <1>1, <1>2, <1>3, <1>4, <1>5, <1>6, <1>7, <1>8, <1>9, <1>10, <1>11 DEF WorkbenchNext

\* The page does to the editor only what the editor's handlers do: the page
\* implements YamlEditor.
THEOREM PageImplementsEditor == WorkbenchSpec => EditorSpec
<1>1. WorkbenchInit => EditorInit
    BY DEF WorkbenchInit
<1>q. QED
    BY <1>1, PageStepIsEditorStep, PTL DEF WorkbenchSpec, EditorSpec

\* A render makes the results current, whatever it is given, where the text can be
\* analysed: where the active match is none of the matches it takes the first,
\* which is one.  Where the analysis throws, the results stay the whole results of
\* the text they were made from.
LEMMA RenderIsCurrent ==
    ASSUME NEW tab, NEW filter, NEW query \in Queries, NEW active,
           text' \in Texts, inspectionMode' \in Modes, ViewInv,
           Render(tab, filter, query, active)
    PROVE  ViewInv'
<1> DEFINE matches == treeMatches[<<text', inspectionMode', query>>]
           shown   == ActiveAfterRender(tab, matches, active)
<1>1. matches \in Seq(Range(matches))
    BY WorkbenchAssumption
<1>2. ASSUME matches # <<>> PROVE matches[1] \in Range(matches)
  <2> HIDE DEF matches
  <2>q. QED
      BY <1>1, <1>2
<1>3. tab = "tree" /\ matches # <<>> => shown \in Range(matches)
  <2> HIDE DEF matches
  <2>q. QED
      BY <1>2 DEF ActiveAfterRender
<1>4. /\ activeTab' = tab /\ validationFilter' = filter /\ treeSearchQuery' = query
      /\ treeActiveMatchId' = shown
      /\ rendered' = IF text' \in Unreadable THEN rendered
                     ELSE [text |-> text', mode |-> inspectionMode', tab |-> tab,
                           filter |-> filter, query |-> query, active |-> shown]
    BY DEF Render
<1>5. CASE text' \in Unreadable
  <2>1. rendered' = rendered /\ treeSearchQuery' \in Queries
      BY <1>4, <1>5
  <2>q. QED
      BY <1>5, <2>1 DEF ViewInv, ViewIsCurrent
<1>6. CASE text' \notin Unreadable
  <2> HIDE DEF shown
  <2>q. QED
      BY <1>3, <1>4, <1>6 DEF ViewInv, ViewIsCurrent
<1>q. QED
    BY <1>5, <1>6

\* Steps that leave the text, the mode and the results alone keep them current.
LEMMA ViewFrame ==
    ASSUME ViewInv, text' = text, inspectionMode' = inspectionMode, UNCHANGED viewVars
    PROVE  ViewInv'
BY DEF ViewInv, ViewIsCurrent, viewVars

\* After every handler the results are current or those of an earlier text in place
\* of one that cannot be analysed; the handlers that change the text or the mode end
\* in a render.
LEMMA ViewStep ==
    EditorInv /\ EditorInv' /\ ViewInv /\ [WorkbenchNext]_workbenchVars => ViewInv'
<1> SUFFICES ASSUME EditorInv, EditorInv', ViewInv, [WorkbenchNext]_workbenchVars
             PROVE  ViewInv'
    OBVIOUS
<1>t. text' \in Texts /\ inspectionMode' \in Modes
    BY DEF EditorInv, ReportIsOfEditor, EditorTypeOK
<1>u. treeSearchQuery \in Queries /\ NoQuery \in Queries
    BY WorkbenchAssumption DEF ViewInv
<1>r. ASSUME RenderAsIs \/ RenderReset PROVE ViewInv'
    BY <1>r, <1>t, <1>u, RenderIsCurrent DEF RenderAsIs, RenderReset
<1>1. CASE \/ \E value \in Texts : EditText(value)
           \/ \E mode \in Modes : ChooseMode(mode)
           \/ ReplaceText \/ FormatApply
    BY <1>1, <1>r DEF EditText, ChooseMode, ReplaceText, FormatApply
<1>2. CASE \E file \in Files : PickFile(file)
    BY <1>2, ViewFrame DEF PickFile, OpenFile, pageVars, viewVars
<1>3. CASE \E read \in reads : ReadEnds(read)
    BY <1>3, <1>r, ViewFrame DEF ReadEnds, FileReadFails, pageVars, viewVars
<1>4. CASE FormatClick
    BY <1>4, <1>r, <1>t, <1>u, RenderIsCurrent DEF FormatClick
<1>5. CASE OtherControl
  <2>1. text' = text /\ inspectionMode' = inspectionMode
      BY <1>5 DEF OtherControl, CancelFormat, Download, GenerateReport, CloseReport, TabKey
  <2>q. QED
      BY <1>5, <2>1, ViewFrame DEF OtherControl, pageVars, viewVars
<1>6. CASE \E tab \in Tabs : SelectTab(tab)
    BY <1>6, <1>t, <1>u, RenderIsCurrent DEF SelectTab
<1>7. CASE \E filter \in VALIDATION_FILTERS : SelectFilter(filter)
    BY <1>7, <1>t, <1>u, RenderIsCurrent DEF SelectFilter
<1>8. CASE \E query \in Queries : SearchInput(query)
    BY <1>8, <1>t, <1>u, RenderIsCurrent DEF SearchInput
<1>9. ASSUME NEW delta \in {1, -1}, SearchStep(delta) PROVE ViewInv'
  <2>1. PICK active : Render(activeTab, validationFilter, treeSearchQuery, active)
      BY <1>9, Zenon DEF SearchStep
  <2>q. QED
      BY <2>1, <1>t, <1>u, RenderIsCurrent
<1>10. CASE DragEnter \/ DragLeave \/ DropRejected \/ DragCleared
    BY <1>10, ViewFrame DEF DragEnter, DragLeave, DropRejected, DragCleared, editorVars
<1>11. CASE \E file \in Files : Drop(file)
    BY <1>11, ViewFrame DEF Drop, OpenFile
<1>12. CASE UNCHANGED workbenchVars
    BY <1>12, ViewFrame DEF workbenchVars, editorVars, pageVars, viewVars
<1>q. QED
    BY <1>1, <1>2, <1>3, <1>4, <1>5, <1>6, <1>7, <1>8, <1>9, <1>10, <1>11, <1>12
    DEF WorkbenchNext

\* Enter, leave, drop, Escape and losing the focus keep the hint in step with the
\* depth, and the depth within what the browser has entered.
LEMMA DragStep == DragInv /\ [WorkbenchNext]_workbenchVars => DragInv'
<1> SUFFICES ASSUME DragInv, [WorkbenchNext]_workbenchVars PROVE DragInv'
    OBVIOUS
<1>1. CASE DragEnter
  <2>1. (fileDragDepth \in Nat /\ entered \in Nat /\ fileDragDepth <= entered)' /\ fileDragDepth' > 0
      BY <1>1 DEF DragInv, DragEnter
  <2>q. QED
      BY <1>1, <2>1, Zenon DEF DragInv, DragEnter
<1>2. CASE DragLeave
  <2>1. /\ (fileDragDepth \in Nat /\ entered \in Nat /\ fileDragDepth <= entered)'
        /\ fileDragDepth' > 0 => fileDragDepth > 0
      BY <1>2 DEF DragInv, DragLeave
  <2>q. QED
      BY <1>2, <2>1, Zenon DEF DragInv, DragLeave
<1>3. CASE (\E file \in Files : Drop(file)) \/ DropRejected
  <2>1. entered' = 0 /\ fileDragDepth' = 0 /\ dropReady' = FALSE
      BY <1>3, Zenon DEF Drop, DropRejected, clearFileDrag
  <2>2. /\ (fileDragDepth \in Nat /\ entered \in Nat /\ fileDragDepth <= entered)'
        /\ ~(fileDragDepth' > 0)
      BY <2>1
  <2>q. QED
      BY <2>1, <2>2, Zenon DEF DragInv
<1>4. CASE DragCleared
  <2>1. /\ (fileDragDepth \in Nat /\ entered \in Nat /\ fileDragDepth <= entered)'
        /\ ~(fileDragDepth' > 0)
      BY <1>4 DEF DragInv, DragCleared, clearFileDrag
  <2>q. QED
      BY <1>4, <2>1, Zenon DEF DragInv, DragCleared, clearFileDrag
<1>5. CASE UNCHANGED dragVars
    BY <1>5, Zenon DEF DragInv, dragVars
<1>6. \/ DragEnter \/ DragLeave \/ (\E file \in Files : Drop(file)) \/ DropRejected
      \/ DragCleared \/ UNCHANGED dragVars
    BY DEF WorkbenchNext, workbenchVars, pageVars, dragVars, EditText, ChooseMode, ReplaceText,
           PickFile, ReadEnds, FormatClick, FormatApply, OtherControl, SelectTab, SelectFilter,
           SearchInput, SearchStep, ResultsControl
<1>q. QED
    BY <1>1, <1>2, <1>3, <1>4, <1>5, <1>6

\* The page keeps its invariant: the editor's, the results' (current wherever the
\* text can be analysed) and the drag's.
THEOREM WorkbenchInvariant == WorkbenchSpec => []WorkbenchInv
<1>1. WorkbenchInit => WorkbenchInv
  <2> SUFFICES ASSUME WorkbenchInit PROVE WorkbenchInv
      OBVIOUS
  <2>1. EditorInv
      BY EditorInitially DEF WorkbenchInit
  <2>2. ViewInv
      BY EditorAssumption, WorkbenchAssumption
      DEF WorkbenchInit, EditorInit, ViewInv, ViewIsCurrent
  <2>3. fileDragDepth = 0 /\ entered = 0 /\ dropReady = FALSE /\ ~(0 > 0) /\ 0 \in Nat /\ 0 <= 0
      BY DEF WorkbenchInit
  <2>4. DragInv
      BY <2>3, Zenon DEF DragInv
  <2>q. QED
      BY <2>1, <2>2, <2>4 DEF WorkbenchInv
<1>2. WorkbenchInv /\ [WorkbenchNext]_workbenchVars => WorkbenchInv'
    BY PageStepIsEditorStep, EditorStep, ViewStep, DragStep DEF WorkbenchInv
<1>q. QED
    BY <1>1, <1>2, PTL DEF WorkbenchSpec

\* A prepared report is always of the editor's text, mode and file: a file that is
\* read while the report is open closes it in the same step.
THEOREM ReportAlwaysOfEditor == WorkbenchSpec => []ReportIsOfEditor
<1>1. WorkbenchInv => ReportIsOfEditor
    BY DEF WorkbenchInv, EditorInv
<1>q. QED
    BY <1>1, WorkbenchInvariant, PTL

\* What the editor takes for saved is always stored somewhere else: the sample, the
\* content of a file or a download.
THEOREM CleanTextAlwaysStored == WorkbenchSpec => []CleanTextIsStored
<1>1. WorkbenchInv => CleanTextIsStored
    BY DEF WorkbenchInv, EditorInv
<1>q. QED
    BY <1>1, WorkbenchInvariant, PTL

\* Whatever handlers failed before, a text that can be analysed is shown with its
\* own results, in the present mode, tab, filter and search; and results that are
\* left standing for one that cannot are the whole results of an earlier text.
THEOREM ViewAlwaysCurrent == WorkbenchSpec => []ViewIsCurrent
<1>1. WorkbenchInv => ViewIsCurrent
    BY DEF WorkbenchInv, ViewInv
<1>q. QED
    BY <1>1, WorkbenchInvariant, PTL

\* The drop hint is never left behind by a drag, for any depth of nested elements.
THEOREM DropHintAlwaysDuringDrag == WorkbenchSpec => []DropHintOnlyDuringDrag
<1>1. WorkbenchInv => DropHintOnlyDuringDrag
  <2> SUFFICES ASSUME WorkbenchInv PROVE DropHintOnlyDuringDrag
      OBVIOUS
  <2>1. fileDragDepth > 0 => entered > 0
      BY DEF WorkbenchInv, DragInv
  <2>2. (fileDragDepth > 0) \in BOOLEAN
      BY DEF WorkbenchInv, DragInv
  <2>q. QED
      BY <2>1, <2>2, Zenon DEF WorkbenchInv, DragInv, DropHintOnlyDuringDrag
<1>q. QED
    BY <1>1, WorkbenchInvariant, PTL

\* A render keeps an active match that is a match.
LEMMA RenderKeepsPosition ==
    ASSUME NEW tab, NEW filter, NEW query, NEW active,
           active \in Range(treeMatches[<<text', inspectionMode', query>>]),
           Render(tab, filter, query, active)
    PROVE  treeActiveMatchId' = active
BY DEF Render, ActiveAfterRender

\* Editing, formatting and changing tabs keep the place in the search.  A load
\* empties the search field, and the empty search has no matches to keep.
THEOREM PositionAlwaysKept == WorkbenchSpec => PositionKeptWhileMatching
<1> DEFINE Kept == (/\ treeSearchQuery' = treeSearchQuery
                    /\ text' # text \/ activeTab' # activeTab
                    /\ treeActiveMatchId \in
                           Range(treeMatches[<<text', inspectionMode', treeSearchQuery'>>]))
                   => treeActiveMatchId' = treeActiveMatchId
<1>1. WorkbenchInv /\ WorkbenchInv' /\ [WorkbenchNext]_workbenchVars => [Kept]_workbenchVars
  <2> SUFFICES ASSUME WorkbenchInv', [WorkbenchNext]_workbenchVars,
                      treeSearchQuery' = treeSearchQuery,
                      text' # text \/ activeTab' # activeTab,
                      treeActiveMatchId \in
                          Range(treeMatches[<<text', inspectionMode', treeSearchQuery'>>])
               PROVE  treeActiveMatchId' = treeActiveMatchId
      OBVIOUS
  <2>t. text' \in Texts /\ inspectionMode' \in Modes
      BY DEF WorkbenchInv, EditorInv, ReportIsOfEditor, EditorTypeOK
  <2>a. ASSUME NEW tab, NEW filter, Render(tab, filter, treeSearchQuery, treeActiveMatchId)
        PROVE  treeActiveMatchId' = treeActiveMatchId
      BY <2>a, RenderKeepsPosition
  <2>b. ASSUME RenderReset PROVE FALSE
    <3>1. treeSearchQuery' = NoQuery
        BY <2>b DEF RenderReset, Render
    <3>2. treeMatches[<<text', inspectionMode', treeSearchQuery'>>] = <<>>
        BY <3>1, <2>t, WorkbenchAssumption
    <3>q. QED
        BY <3>2 DEF Range
  <2>1. CASE \/ \E value \in Texts : EditText(value)
             \/ FormatApply
      BY <2>1, <2>a DEF EditText, FormatApply, RenderAsIs
  <2>2. CASE \/ \E mode \in Modes : ChooseMode(mode)
             \/ ReplaceText
      BY <2>2, <2>b DEF ChooseMode, ReplaceText
  <2>3. CASE \E read \in reads : ReadEnds(read)
      BY <2>3, <2>b DEF ReadEnds, pageVars
  <2>4. CASE FormatClick
      BY <2>4, <2>a DEF FormatClick, RenderAsIs
  <2>5. CASE (\E file \in Files : PickFile(file)) \/ OtherControl
      BY <2>5 DEF PickFile, OtherControl, pageVars
  <2>6. CASE \E tab \in Tabs : SelectTab(tab)
      BY <2>6, <2>a DEF SelectTab
  <2>7. CASE \E filter \in VALIDATION_FILTERS : SelectFilter(filter)
      BY <2>7, <2>a DEF SelectFilter
  <2>8. CASE \E query \in Queries : SearchInput(query)
      BY <2>8 DEF SearchInput, ResultsControl, editorVars, Render
  <2>9. ASSUME NEW delta \in {1, -1}, SearchStep(delta) PROVE FALSE
    <3>1. UNCHANGED editorVars /\ activeTab' = activeTab
        BY <2>9, Zenon DEF SearchStep, ResultsControl, Render
    <3>q. QED
        BY <3>1 DEF editorVars
  <2>10. CASE \/ DragEnter \/ DragLeave \/ DropRejected \/ DragCleared
              \/ \E file \in Files : Drop(file)
      BY <2>10 DEF DragEnter, DragLeave, DropRejected, DragCleared, Drop, viewVars
  <2>11. CASE UNCHANGED workbenchVars
      BY <2>11 DEF workbenchVars, pageVars
  <2>q. QED
      BY <2>1, <2>2, <2>3, <2>4, <2>5, <2>6, <2>7, <2>8, <2>9, <2>10, <2>11 DEF WorkbenchNext
<1>2. WorkbenchSpec => [][Kept]_workbenchVars
    BY <1>1, WorkbenchInvariant, PTL DEF WorkbenchSpec
<1>q. QED
    BY <1>2 DEF PositionKeptWhileMatching

=============================================================================
