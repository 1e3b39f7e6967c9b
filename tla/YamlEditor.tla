------------------------------ MODULE YamlEditor ------------------------------
(***************************************************************************)
(* The editor of the Forge YAML Workbench                                  *)
(* (apps/forge-yaml-workbench/src/main.js): its text, the snapshot it is   *)
(* compared with to tell unsaved changes, the formatting and report        *)
(* previews, and files that are being read.                                *)
(*                                                                         *)
(* Event handlers run to completion, window.confirm included; only         *)
(* file.text() returns to the event loop, so an open file is asked about   *)
(* in one event and loaded in a later one.  While a preview is open its    *)
(* overlay covers the page and keeps the keyboard, unless a dropped file   *)
(* that has been read moves the focus to the editor.                       *)
(*                                                                         *)
(* Tabs, the validation filter, tree search and drag presentation are in   *)
(* Workbench.                                                              *)
(***************************************************************************)
EXTENDS Integers, FiniteSets

CONSTANTS
    Texts,       \* what a file or the editor can hold
    Empty,       \* the empty text
    SAMPLE_YAML,
    formatYaml,  \* text to formatted text; NoText where it throws
    NoText,
    Unreadable,  \* texts that parse without an error and whose analysis throws in
                 \* toJS: an alias without its anchor, or too many aliases
    textareaValue, \* what the textarea gives back: line endings are all LF
    Files,       \* local files with a .yaml or .yml name
    Contents,    \* what is in each
    SampleName, DefaultName,
    MaxReads     \* bound on files being read at once

ASSUME EditorAssumption ==
    /\ {Empty, SAMPLE_YAML} \subseteq Texts /\ NoText \notin Texts
    /\ formatYaml \in [Texts -> Texts \cup {NoText}]
    /\ Unreadable \subseteq Texts /\ {Empty, SAMPLE_YAML} \cap Unreadable = {}
    /\ textareaValue \in [Texts -> Texts]
    /\ \A t \in {Empty, SAMPLE_YAML} : textareaValue[t] = t
    /\ Contents \in [Files -> Texts]
    /\ MaxReads \in Nat

VARIABLES
    text,           \* editor.value
    cleanSnapshot,
    currentFilename,
    inspectionMode,
    formatPreview,  \* before and after, or NoPreview
    reportPreview,  \* what the report was made from, or NoReport
    escaped,        \* the formatting preview is open and the editor has the focus
    reads,          \* files approved and being read, with the text approved away
    stored          \* texts that exist outside the editor; not a variable of the code

editorVars == <<text, cleanSnapshot, currentFilename, inspectionMode,
                formatPreview, reportPreview, escaped, reads, stored>>

Names == Files \cup {SampleName, DefaultName}

Modes == {"kubernetes", "general"}

NoPreview == [before |-> NoText, after |-> NoText]

NoReport == [text |-> NoText, mode |-> "kubernetes", filename |-> DefaultName]

\* Beside the types: the two previews are never open together.
EditorTypeOK ==
    /\ text \in Texts
    /\ cleanSnapshot \in Texts
    /\ currentFilename \in Names
    /\ inspectionMode \in Modes
    /\ formatPreview \in [before : Texts, after : Texts] \cup {NoPreview}
    /\ reportPreview \in [text : Texts, mode : Modes, filename : Names] \cup {NoReport}
    /\ formatPreview = NoPreview \/ reportPreview = NoReport
    /\ escaped \in BOOLEAN
    /\ escaped => formatPreview # NoPreview
    /\ reads \in SUBSET [file : Files, approved : Texts, drop : BOOLEAN]
    /\ stored \in SUBSET Texts

EditorInit ==
    /\ text = SAMPLE_YAML
    /\ cleanSnapshot = SAMPLE_YAML
    /\ currentFilename = SampleName
    /\ inspectionMode = "kubernetes"
    /\ formatPreview = NoPreview
    /\ reportPreview = NoReport
    /\ escaped = FALSE
    /\ reads = {}
    /\ stored = {SAMPLE_YAML, Empty} \cup {Contents[f] : f \in Files}

-----------------------------------------------------------------------------

Modal == formatPreview # NoPreview \/ reportPreview # NoReport

Dirty == text # cleanSnapshot

invalidateReportPreview == reportPreview' = NoReport

\* Mutant: a loaded file leaves the prepared report open.
loadEditorKeepsReport(value, filename) ==
    /\ text' = textareaValue[value]
    /\ cleanSnapshot' = value
    /\ currentFilename' = filename
    /\ UNCHANGED <<inspectionMode, formatPreview, reportPreview, stored>>

loadEditor(value, filename) ==
    /\ invalidateReportPreview
    /\ text' = textareaValue[value]
    /\ cleanSnapshot' = value
    /\ currentFilename' = filename
    /\ UNCHANGED <<inspectionMode, formatPreview, stored>>

\* Typing or pasting.
Input(value) ==
    /\ ~Modal \/ escaped
    /\ text' = textareaValue[value]
    /\ invalidateReportPreview
    /\ UNCHANGED <<cleanSnapshot, currentFilename, inspectionMode, formatPreview, escaped,
                   reads, stored>>

SelectMode(mode) ==
    /\ ~Modal
    /\ inspectionMode' = mode
    /\ invalidateReportPreview
    /\ UNCHANGED <<text, cleanSnapshot, currentFilename, formatPreview, escaped, reads, stored>>

\* A refused confirmation of unsaved changes leaves everything alone, so the
\* confirming answer is the only one that takes a step.
LoadSample ==
    /\ ~Modal
    /\ loadEditor(SAMPLE_YAML, SampleName)
    /\ UNCHANGED <<escaped, reads>>

Clear ==
    /\ ~Modal
    /\ loadEditor(Empty, DefaultName)
    /\ UNCHANGED <<escaped, reads>>

\* openLocalFile up to its await, by picker or drop: replacementApproved has
\* returned true for the present text.
OpenFile(file, drop) ==
    /\ ~Modal
    /\ Cardinality(reads) < MaxReads
    /\ reads' = reads \cup {[file |-> file, approved |-> text, drop |-> drop]}
    /\ UNCHANGED <<text, cleanSnapshot, currentFilename, inspectionMode,
                   formatPreview, reportPreview, escaped, stored>>

\* ... and from there on; nothing keeps the user from working meanwhile.  A dropped
\* file takes the focus to the editor, also out of a formatting preview.
FileRead(read) ==
    /\ textareaValue[Contents[read.file]] \notin Unreadable
    /\ reads' = reads \ {read}
    /\ loadEditor(Contents[read.file], read.file)
    /\ escaped' = (formatPreview # NoPreview /\ (escaped \/ read.drop))

\* The render of loadEditor throws, after its assignments: the focus is not moved,
\* and the catch announces that the file could not be read.
FileReadThrows(read) ==
    /\ textareaValue[Contents[read.file]] \in Unreadable
    /\ reads' = reads \ {read}
    /\ loadEditor(Contents[read.file], read.file)
    /\ UNCHANGED escaped

\* The same announcement when file.text() is rejected.
FileReadFails(read) ==
    /\ reads' = reads \ {read}
    /\ UNCHANGED <<text, cleanSnapshot, currentFilename, inspectionMode,
                   formatPreview, reportPreview, escaped, stored>>

\* A text that is blank, invalid or already formatted opens no preview.
Format ==
    /\ ~Modal
    /\ text # Empty
    /\ formatYaml[text] \notin {NoText, text}
    /\ formatPreview' = [before |-> text, after |-> formatYaml[text]]
    /\ UNCHANGED <<text, cleanSnapshot, currentFilename, inspectionMode,
                   reportPreview, escaped, reads, stored>>

CancelFormat ==
    /\ formatPreview # NoPreview
    /\ formatPreview' = NoPreview
    /\ escaped' = FALSE
    /\ UNCHANGED <<text, cleanSnapshot, currentFilename, inspectionMode,
                   reportPreview, reads, stored>>

\* Mutant: formatting counts as saving.
ApplyFormatAsClean ==
    /\ formatPreview # NoPreview
    /\ text' = textareaValue[formatPreview.after]
    /\ cleanSnapshot' = formatPreview.after
    /\ formatPreview' = NoPreview
    /\ escaped' = FALSE
    /\ UNCHANGED <<currentFilename, inspectionMode, reportPreview, reads, stored>>

ApplyFormat ==
    /\ formatPreview # NoPreview
    /\ text' = textareaValue[formatPreview.after]
    /\ formatPreview' = NoPreview
    /\ escaped' = FALSE
    /\ UNCHANGED <<cleanSnapshot, currentFilename, inspectionMode, reportPreview, reads, stored>>

Download ==
    /\ ~Modal
    /\ text # Empty
    /\ cleanSnapshot' = text
    /\ stored' = stored \cup {text}
    /\ UNCHANGED <<text, currentFilename, inspectionMode, formatPreview, reportPreview, escaped,
                   reads>>

\* Where the analysis throws nothing has been changed.
GenerateReport ==
    /\ ~Modal
    /\ text \notin Unreadable
    /\ reportPreview' = [text |-> text, mode |-> inspectionMode, filename |-> currentFilename]
    /\ UNCHANGED <<text, cleanSnapshot, currentFilename, inspectionMode,
                   formatPreview, escaped, reads, stored>>

CloseReport ==
    /\ reportPreview # NoReport
    /\ reportPreview' = NoReport
    /\ UNCHANGED <<text, cleanSnapshot, currentFilename, inspectionMode,
                   formatPreview, escaped, reads, stored>>

\* Tab, wherever the focus is, goes to a control of the open preview.
TabKey ==
    /\ escaped
    /\ escaped' = FALSE
    /\ UNCHANGED <<text, cleanSnapshot, currentFilename, inspectionMode,
                   formatPreview, reportPreview, reads, stored>>

EditorNext ==
    \/ \E value \in Texts : Input(value)
    \/ \E mode \in Modes : SelectMode(mode)
    \/ LoadSample
    \/ Clear
    \/ \E file \in Files, drop \in BOOLEAN : OpenFile(file, drop)
    \/ \E read \in reads : FileRead(read) \/ FileReadThrows(read) \/ FileReadFails(read)
    \/ Format
    \/ CancelFormat
    \/ ApplyFormat
    \/ Download
    \/ GenerateReport
    \/ CloseReport
    \/ TabKey

EditorSpec == EditorInit /\ [][EditorNext]_editorVars

-----------------------------------------------------------------------------

\* A prepared report was made from the text, mode and file that are in the
\* editor, although a file may be loaded while the report is open ("changing the
\* YAML, inspection mode, or opened file invalidates a prepared report",
\* apps/forge-yaml-workbench/README.md:132).  Beside it the types, and that the
\* two previews are never open together.
ReportIsOfEditor ==
    /\ EditorTypeOK
    /\ reportPreview # NoReport =>
           /\ reportPreview.text = text
           /\ reportPreview.mode = inspectionMode
           /\ reportPreview.filename = currentFilename

\* A text that counts as saved exists outside the editor, as the sample, a file or a
\* download: the question whether to discard is left out only for such a text.
CleanTextIsStored == cleanSnapshot \in stored

\* A file replaces either a text without unsaved changes or the very text whose
\* loss was confirmed ("Confirm before dropped-file, Open file, or sample
\* replacement discards unsaved changes", README.md:29).
LoadDiscardsOnlyConfirmedChanges ==
    [][\A read \in reads :
           FileRead(read) \/ FileReadThrows(read) => ~Dirty \/ text = read.approved]_editorVars

\* An opening that is announced as failed ("Could not read ... - YAML was not
\* changed", main.js:405) leaves the editor alone ("cancellation, rejection, or read
\* failure preserves YAML and all derived interaction state", README.md:177).
FailedReadLeavesEditor ==
    [][\A read \in reads :
           FileReadThrows(read) \/ FileReadFails(read)
           => UNCHANGED <<text, cleanSnapshot, currentFilename>>]_editorVars

=============================================================================
