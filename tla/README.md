# Verification of The Foundry Initiative

TLA+ modules for the parts of this repository whose correctness depends on the
order in which things happen. They are checked with TLC on small instances;
their safety properties are also proved with TLAPS for every value of the
constants. `PROJECT.json` lists components, runs, mutants, hazards and theorems,
and maps each definition to the source lines it models.

Paths below are relative to the repository. `console` stands for
`apps/forgeops-console`, `workbench` for `apps/forge-yaml-workbench`.

## 1. The system and its parts

The repository is a homelab platform. Most of it is configuration. The
programs are, from the most to the least concurrent:

### ForgeOps Console (Go server, React client)

A read-only view of Kubernetes clusters. One process serves several browser
tabs, all of which share **one** operator session.

| Part | State | Operations |
| --- | --- | --- |
| Session, `internal/session/state.go` | `closed`, `scope` (context, namespace, generation), `allowedNamespaces`, the current scope's `context.Context` and its cancel function | `SelectContext`, `SelectNamespaceAt`, `AllowNamespaces`, `RequestContext`, `Close` |
| Resource service, `internal/resources/service.go` | slot channel (capacity 4), activity log (bounded) | `Execute`, `Activity`, `RecordDiagnostic` |
| Diagnostic service, `internal/diagnostics/service.go` | slot channel (capacity 2) | `Execute` |
| Broker and registry, `internal/broker`, `internal/plugins` | immutable after start-up | `Invoke` (recovers panics) |
| Client factory and loader, `internal/cluster`, `internal/config` | immutable after start-up | `ClientFor`, `Load` |
| HTTP server, `internal/server/server.go` | none | one handler per API path; host, origin and nonce filters |
| Lifecycle, `internal/server/lifecycle.go` | listener, accept-loop goroutine, buffered `done` channel | `listenAndServe`, `serve` |
| Browser application, `web/src/App.tsx`, `api.ts` | displayed scope, namespaces offered, choice, result, selected record, busy, request serial | activate context, activate namespace, load, select, reload |
| Browser diagnostics panel, `web/src/plugins/diagnostics.tsx` | acknowledgement, container, previous, result, busy, `AbortController`, serial | run, cancel, controls, unmount |

How they interact: a tab fetches; the handler calls the broker, the broker a
service; the service binds the request to the session's scope
(`RequestContext`), queues for a slot, calls the cluster without holding a
lock, may publish discovered namespaces back to the session, and compares
generations before it answers. Selecting anything increments the generation
and cancels the former scope's context; a watcher goroutine per request passes
that on. Both services record into the resource service's activity log.
`serve` closes the session before it drains the HTTP server.

Hard here: every handler, watcher, timer, other tab and the shutdown
interleave; the scope is read before the cluster calls and used after them; a
Pod can be recreated between two calls; answers reach a page that has been
reloaded; slots must survive panics, timeouts and cancellation; everything has
to end although a cluster may never answer.

Correct means: a read succeeds only under the scope in force when it was
checked; a namespace is selectable only in the context that reported it; slots
never leak; every admitted request ends and is recorded once; a diagnosis with
an expected UID shows that Pod or nothing; a tab never displays data of another
scope than the one in its banner; after `Close` nothing is bound and the
process ends.

### Forge YAML Workbench (JavaScript, in the browser)

A static page that inspects Kubernetes and other YAML without a server.

| Part | State | Operations |
| --- | --- | --- |
| Editor, `src/main.js` | text, saved snapshot, file name, inspection mode, formatting preview, report preview, file reads under way | typing, open, drop, sample, clear, format and apply, download, report |
| Results, `src/main.js` | tab, validation filter, search query, active match, the rendered results | tabs, filters, search and stepping, `render` |
| Drag presentation, `src/main.js` | drag depth, drop hint | enter, leave, drop, Escape, lost window |
| Analysis, `analyze.js`, `schema-validation.js`, `report.js` | none; a pass over the parsed documents | `analyzeYaml`, `validateKubernetesResource`, `reportFindingCount`, `buildMarkdownReport` |
| Diff and search, `format-diff.js`, `tree-search.js` | none | `buildLineDiff`, `buildTreeSearchIndex`, `searchTreeIndex`, `matchingTextRanges` |

Hard here: a file is read asynchronously after the operator was asked;
previews hold text computed earlier; results on the page are made from seven
variables that every handler changes in part; the analysis that makes them can
throw after the handler has changed the rest; the same number is computed in
three places; documents are counted in two ways; positions found in a converted
text are used in the original.

Correct means: no unsaved text is lost without a confirmation; a preview, a
report and the results are of the text they claim; a finding leads to the
document it is about; the diff and the highlighting lose no text; the numbers
agree.

### ForgeOps command line (Python, `src/forgeops`)

Collects status from `kubectl` and Prometheus (`collect.py`, `runners.py`),
evaluates it (`evaluate.py`), and derives artifacts from artifacts: evidence,
comparison, runbook mapping, incident brief. A sequential process without
stored state. Hard here: partial collection, and artifacts that must belong
together. Correct means: a missing source never evaluates as healthy, and a
brief only cites what its validated inputs contain.

### Loki backup and restore (Python, `scripts/loki-recovery.py`)

Stops the log collector and Loki, streams the volume off the node through a
helper Pod, writes a checksum and metadata, and brings both back; or restores
an archive into an isolated Loki. The state is the cluster's and the backup
directory's. Hard here: each command can fail, with or without its effect, and
the script can be killed. Correct means: an archive that restore accepts was
taken while Loki was stopped, the workloads come back or the run says they did
not, and the isolated Loki serves a complete archive.

### Others

Service Pulse (`apps/service-pulse`: a probe thread and a board), the restaurant API and the portal (demonstration
workloads), repository and release checks (stateless), PowerShell operations
scripts, manifests. `PROJECT.json` gives each a status and a reason.

## 2. Modules

| Module | Models | Uses |
| --- | --- | --- |
| `Session` | the operator session | |
| `ActivityLog` | `record` and its bounded reslice | |
| `ScopedReads` | *abstract*: what a read under a changing scope promises | |
| `ResourceService` | `Execute` of the resource service, request contexts, watchers, slots, the cluster's answers | extends `Session`, `ActivityLog`; implements `ScopedReads` |
| `DiagnosticService` | `Execute` of the diagnostic service, with Pods that come and go | extends `Session`, `ActivityLog`; implements `ScopedReads` |
| `Lifecycle` | `listenAndServe` and `serve`, running handlers | extends `Session` |
| `ConsoleTabs` | tabs sharing the session, fetches in flight, reloads | extends `Session` |
| `DiagnosticsPanel` | the diagnostics panel and its fetches | |
| `YamlEditor` | the workbench editor | |
| `Workbench` | the page around the editor: results, search, dragging | extends `YamlEditor` |
| `FormatDiff` | `buildLineDiff` | |
| `Analysis` | `analyzeYaml`, schema status, the counts of views and report | |
| `TreeSearch` | the tree index, the search and the highlighting | |
| `WorkbenchFunctions` | one call of one of these three | extends them |
| `LokiRecovery` | `backup` and `restore`, the controllers, a script that is killed and run again | |
| `ConsoleLemmas` | *proofs*: what every step of the session and of the log preserves | extends `Session` |
| `ServerProofs` | *proofs*: the resource service, its log, its refinement of `ScopedReads`; the process lifecycle | extends `ResourceService`, `Lifecycle`, `ConsoleLemmas` |
| `DiagnosticsProofs` | *proofs*: the diagnostic service, its refinement of `ScopedReads`; the browser's panel | extends `DiagnosticService`, `DiagnosticsPanel`, `ConsoleLemmas` |
| `ConsoleTabsProofs` | *proofs*: the tabs | extends `ConsoleTabs`, `ConsoleLemmas` |
| `WorkbenchProofs` | *proofs*: the editor and the page around it | extends `Workbench` |
| `WorkbenchFunctionsProofs` | *proofs*: induction, flattened sequences, the line diff, the highlighted ranges, the tree paths | extends `WorkbenchFunctions` |
| `AnalysisProofs` | *proofs*: locations, identities and counts of the analysis | extends `WorkbenchFunctionsProofs` |
| `LokiRecoveryProofs` | *proofs*: backup and restore | extends `LokiRecovery` |
| `MC*` | constants for TLC | |

**Session.** Variables carry the names of the fields of `State`. Each method
holds `State.mu` throughout, so it is one action; its error returns are the
negation of the action's guard. A scope context is named by the generation it
was made for, and `cancelledContexts` is the set whose cancel function has been
called.

**ResourceService.** `pc[r]` is where request `r` stands in `Execute`: refused
or bound, waiting for a slot, building a client, in one of the calls of its
kind, publishing namespaces, at the generation comparison, at the final look
at the context and the size, recording, releasing the slot, done. `ctxErr[r]`
is what the request's context would answer: the watcher (`WatcherCancels`),
the deadline (`DeadlineExpires`) and the client (`Disconnect`) set it, in that
or any other order. A step that the code takes without the session lock is a
separate action, so operators, watchers and other requests act in between.
The cluster answers any call, fails it, or never answers.

**DiagnosticService.** The same shape, with a slot that is tried and not
waited for, an upstream error that is kept until the generation and the context
have been looked at, and the deferred functions in their order: slot release,
then the recorder, which also runs after a panic. Each context has at most one
Pod with the inspected name; its UID is fresh each time it is created. `Discover`
stands for a namespace list answered by the resource service. It implements
`ScopedReads` too, with `dpc` mapped to the status of a read: a diagnosis is
*confirmed* between the generation comparison and the last look at its context
(`DiagPromise`), and one that was refused for want of a namespace has taken no
scope (`DiagTaken`).

**Lifecycle.** `main` is where `serve` stands, from `net.Listen` to the
deferred `Close`. `done` is the buffered channel of the accept goroutine.
`http.Server` is modelled from how `serve` uses it.

**ConsoleTabs.** `wire` holds the fetches under way with the progress the
server has made on each. A tab awaits one fetch at a time, because every
control is disabled while it is busy; a reload abandons the fetch, which the
server may still execute. Each `await` ends an action and each continuation
(`GotContext`, `GotNamespaces`, ..., the `catch` clauses) is an action.

**DiagnosticsPanel.** A fetch carries the serial of the run that started it,
the query and the panel it belongs to. Mounting for another generation or Pod
is `Remount`; aborted fetches still settle, with an answer or with an error.

**YamlEditor.** Texts are model values with a formatting function (the
identity on formatted texts, failing on broken ones). `reads` holds the files
whose `file.text()` has not resolved and, for the property only, the text the
operator agreed to lose. `stored` is the set of texts that exist outside the
editor: file contents, the sample, downloads. `escaped` holds while a
formatting preview is open and the editor has the focus: a dropped file that is
read late focuses the editor under the preview (`main.js:402`), and the Tab key
takes the focus back. `Unreadable` are the texts that parse without an error and
whose analysis throws: `document.toJS({ maxAliasCount: 100 })`
(`analyze.js:416`) does so at an alias without its anchor, such as `a: *b`, and
at too many aliases. A file with such a text is loaded, and then announced as one
that could not be read (`FileReadThrows`); a report of it is not made.
`textareaValue` is what the textarea gives back of a text assigned to it: its
line endings are all LF.

**Workbench.** Each handler is the editor's action conjoined with the resets
it makes and with `Render`, which records what the results were made from and,
on the tree tab, settles the active match as `treeView` does. The analysis is
the first thing `render` does and no caller catches its throw, so at an
unreadable text `rendered` stays as it is while text, mode, tab, filter and
search have been set. The buttons of the results are then those last rendered:
their actions are enabled by `rendered.tab`, not by `activeTab`. The
matches of a text and a query are a constant here; `TreeSearch` models how they
are found. A drag is what the browser reports: `entered` counts the elements
entered and not left, and no other control is used meanwhile; a read can still
end, Escape and a lost window clear the depth while the drag goes on.

**FormatDiff.** A source is a sequence of lines with their terminators, so
that line feeds, carriage returns and a missing final newline are told apart.
`matrix` is a recursive function of the two positions, with the value of the
code's table; the walk
over it is one row per step. Above `MaxCells` the rows are `replacementRows`.

**Analysis.** `TakeDocument` is the body of `parsed.forEach`,
`addBundleFindings` and `attachFindingLocations` are the functions of that name.
The parser is external: a parsed document is the number of its errors and
warnings, the type of its root, the paths of its nodes and the resource it
holds, reduced to identity, selectors, labels, ports and what the validators
say of it. The results of the rules for one container, Pod, role or binding are
given as `review`: they are independent of each other and of the other
documents. A document's `toJS` may throw (`ToJSThrows`), which ends the analysis
without a result. `sections`, `counts` and `visibleSections` are those of
`validationView`; `findingCount` is the sum `render` makes and
`reportFindingCount` the one of `report.js`, each translated from its own code;
`reportEntries` counts what `buildMarkdownReport` lists.

**TreeSearch.** Texts are sequences of characters, because the properties are
about printed paths and about positions. `pending` is the stack of calls of
`visit`. A character's lower case form may be longer than the character.

**LokiRecovery.** `at` is the command the script is about to run; the flags
are the function's own. A failing command takes the script to `finally` (or
ends it) with or without the command's effect. `Killed` also stands for a
Ctrl-C inside `finally`, where only `Exception` is caught. A Pod whose deletion
has begun ("ending") ends, whatever is scaled meanwhile, and the next one starts
after it; Alloy's Deployment may in fact start the next one sooner, which only
makes it ready earlier. `preflight` is one
action: it only reads, and with one script running nothing it reads can become
wrong meanwhile. What the operator does between two runs (`Repair`,
`ClearRestore`) follows the recorded procedure.

## 3. What the runs check

All runs are finite because requests, generations, epochs, UIDs, mounts and
reads are bounded by named constants; once a bound is reached the modelled
system stops, and so deadlock is not an error in them (`CHECK_DEADLOCK FALSE`).

| Run | Instance | Shows |
| --- | --- | --- |
| `resource` | 2 contexts with different namespaces, 2 requests, 1 slot, 3 kinds (one refused), 2 generations, log of 1, with fairness | generations identify scopes; namespaces stay with their context; the log keeps the latest entries without a gap and one per admitted request; slots match handlers; the service implements `ScopedReads`; superseded and cancelled requests never succeed; a scope change alone ends older work; timers end every admitted request |
| `diagnostic_slots` | 2 diagnoses, 1 slot | slots match handlers; each bound diagnosis is recorded once, busy, namespace-less and panicking ones too |
| `diagnostic_pods` | 2 contexts, 1 diagnosis, 3 UIDs, 3 generations, with fairness | a result is of the expected Pod; the service implements `ScopedReads`, so that a superseded diagnosis never succeeds; each bound diagnosis ends |
| `lifecycle` | 3 handlers, 2 generations, with fairness | a clean return means drained; every return leaves the session closed and handlers cancelled; the drain waits only for cancelled work; a signal ends the process |
| `tabs_safety` | 2 tabs, 2 contexts that share a namespace name, 3 generations | no tab displays or offers what is not of the scope it displays; a namespace is set in the displayed context or not at all |
| `tabs_reload` | 1 tab, 3 page loads, with fairness | late answers do not reach a new page; no page stays busy |
| `panel` | 2 Pods, 1 container, 3 mounts, 4 runs | what is displayed matches the controls; busy means the latest run is under way; at most one fetch is not aborted |
| `workbench` | 5 texts (empty, sample, unformatted, formatted, one whose analysis throws), 2 files, 1 read under way, 2 filters, 2 queries, 2 nested elements | the results are of the present state unless its text cannot be analysed, and are so again with the next one that can; an edit or another tab keeps the place in a search; a prepared report is of the editor; a text that counts as saved is stored; the drop hint is shown only during a drag |
| `functions` | texts of up to 4 lines, aligned up to 11 cells; up to 3 documents, 2 modes; trees of 3 levels with odd keys; texts of up to 4 and queries of up to 2 characters | the rows rebuild both texts; an alignment is a longest one; a change is visible; the counts agree; findings lie in their own document; the first resource of an identity is accepted; paths identify nodes; the ranges spell the text |
| `loki_recovery` | 2 backups, any number of restores | a usable archive was taken cold; a run that does not report an incomplete recovery leaves both workloads ready; Alloy stops first and starts last; the isolated Loki serves one complete archive under its policy |
| `editor_discard` | 1 read under way | **violated**, see below |
| `editor_failure` | 1 read under way | **violated**, see below |

Why these bounds are enough to be of interest. Two backups let the second run
into whatever the first, or a restore of it, left behind. In `resource` two
generations are a context and a change that supersedes it while a request bound
to it is anywhere in `Execute`, and one slot makes the requests wait for each
other, which its liveness properties are about. With more slots and generations,
two requests upstream at once among them, its safety properties are theorems
for every number of requests, slots and generations, as are those of the other
console components, of the workbench page and its functions and of the recovery
script in their constants (section 5). The log limit
of 1 is exceeded by the second entry, which shows the trimming; the order inside
a longer log and the absence of gaps in it are the theorem `LogKeepsLatest`. Three UIDs let a Pod be replaced between the first `Get` and the read and again before the second
`Get`. The two contexts of `tabs_safety` report a namespace of the same name,
so that nothing but the generation can tell them apart. In
`workbench` the read under way may end at any moment, may be a drop and may be of
the file whose analysis throws; several reads that end in any order are covered by
the theorems. The files bear the names of the sample and of the cleared editor,
which keeps the state small, and the textarea gives every text back as it is; the
editor's own runs have a file with CR LF line endings and one that does not parse.
The text whose analysis throws cannot be formatted either, as is the case for an
alias without its anchor; a text that fails in only one of the two, such as one
with too many aliases, which the formatter accepts, is covered by the proofs
alone. In
`functions` a text of four lines beside one of three is enough for a prefix and
a suffix to overlap, and three beside three for an alignment to have a choice;
the cell limit lies between them so that both forms of the diff occur; three documents let a duplicate and a skipped
document precede another, and the keys include ones that look like an index, a
path or a quoted key.

Symmetry is used only in runs without liveness. Tabs and diagnoses
are interchangeable in theirs; no property or definition names one of them.

For each property there is a mutant of a mapped definition, a plausible bug of
that code, that makes it fail in the same run.

### Disagreements between the documentation and the code

- `workbench/README.md:29`: "Confirm before dropped-file, Open file, or sample
  replacement discards unsaved changes." `openLocalFile` asks before it awaits
  `file.text()` (`main.js:397`, `400`) and does not look again. In
  `editor_discard` a text typed during the read is replaced and counts as saved.
- `workbench/README.md:177`: "cancellation, rejection, or read failure preserves
  YAML and all derived interaction state". `openLocalFile` loads inside the `try`
  that stands for reading (`main.js:401`); `loadEditor` sets text, file name and
  snapshot and then renders (`main.js:373-376`). In `editor_failure` a file whose
  analysis throws is in the editor and counts as saved, and the announcement is
  "Could not read ... — YAML was not changed" (`main.js:405`).

Two more follow from the same code and have no run of their own.

- `workbench/README.md:120`: "invalid YAML continues to remain unchanged and
  routes to the Validation report". When formatting fails the Validation tab is
  set, "Formatting failed — see Validation" is announced (`main.js:761-762`) and
  `render` is called. For a text with an alias without its anchor `render` throws
  as well, and the page keeps the results of the former text: in `FormatClick`
  `activeTab` becomes "validation" and `rendered` stays.
- `workbench/README.md:115`: "the editor remains unchanged until **Apply
  formatting** is selected". `loadEditor` (`main.js:369`) closes a prepared
  report but not an open formatting preview. A read that was under way when the
  preview opened replaces the text under it (`FileRead`), and Apply then writes
  the formatted former text under the new file's name. The focus may leave the
  preview too: the editor is focused after a dropped file was read
  (`main.js:402`), and until the next Tab key typing changes the editor under the
  open preview, where `workbench/README.md:117` says of the focus that it
  "remains contained". The model has this as `escaped`.

`editor_discard` and the last need a file read that is slower than the operator's
next gesture. The other two have one cause: `toJS` throws although the document
has no errors (`analyze.js:416`), and the only handler that catches it takes it for
a failed read.

### Observations that are not disagreements

- After any edit, mode change or load whose text the analysis throws at, the
  results, the count and the status on the page are those of an earlier text
  (`main.js:612`). `ViewIsCurrent` therefore speaks of the texts that can be
  analysed, and says that the next of these makes the page current again.
- A file with CR LF line endings counts as having unsaved changes as soon as it
  is opened: the snapshot is the file's text (`main.js:375`), the textarea's
  value has LF only. The question before the next load is then asked without
  need.
- The `closed` test in `RequestContext` is protected twice: `Close` also
  advances the generation and clears the context.
- A client's disconnect is answered `stale_scope` by the resource service and
  `cancelled` by the diagnostic service; the client is gone in both cases.
- A helper Pod whose creation took effect but was reported as failed is not
  removed, since `helper_created` is still false (`loki-recovery.py:153`); the
  run ends with that error and not with "Recovery incomplete". The next
  `preflight` refuses to start beside it. `RecoveredOrReported` says that this
  is the only helper that can stay unreported.
- A read may succeed although the scope changed between its generation
  comparison and its answer. `ScopedReads` allows this (the read is
  *confirmed* when it is compared); the tab then rejects the answer unless its
  own displayed scope is that of the answer.

- A path is printed with dots and read back at them (`analyze.js:224`), so a
  finding about a key that contains a dot may lead to a nearby node.
  `FindingsLocatedInOwnDocument` says that it stays in its document, and is exact
  for other keys.
- A resource in namespace `default` and one without a namespace do not count as
  duplicates of each other (`analyze.js:332`).
- Where lower case is longer than the text, highlighted ranges are shifted
  (`tree-search.js:59`); `RangesSpellSource` says that no text is lost.
- With unreadable documents beside readable ones, the tree's status says that
  there is no searchable tree while Next and Previous still work
  (`main.js:537`, `826`).
- A source of comments only formats to the empty text (`analyze.js:454`); the
  preview shows all its lines as removed.
- `FormatDiff` assumes that the formatter returns no carriage return. A lone one
  inside a comment would be kept by the YAML library; the preview would then
  not say that line endings were normalized.

## 4. Fairness

- Resource and diagnostic services: weak fairness of each handler's own steps
  and of each watcher, because the Go scheduler runs runnable goroutines.
  Timers are fair in `DiagFairSpec`; for the resource service that is the
  premise `TimersFire` of `AdmittedRequestsEnd`, so that `SupersededWorkEnds`
  is checked without it: cancellation alone ends the work, the timeout is not
  what saves it. Nothing is assumed of operator, clients or cluster: an answer
  from the cluster is never fair.
- Lifecycle: weak fairness of the main goroutine, whose steps include the end
  of the drain timer. Handlers need not end.
- Tabs: each fetch of a live page settles, because the server answers
  every request (`AdmittedRequestsEnd` shows it for reads)
  or the connection breaks. Nothing is assumed of the user.

## 5. What is proved

Assumptions, each named in the module that declares the constant.

- Names: the empty name is neither a context nor a namespace, and every context
  reports a set of namespaces (`NamesAssumption`); "none" is neither a Pod nor a
  container (`PanelAssumption`); the errors of a Pod call have a code
  (`PodErrorsAssumption`).
- Bounds are natural numbers, positive where the code's constant is
  (`MaxGenerationAssumption`, `MaxActivityAssumption`,
  `MaxConcurrentAssumption`, `DiagMaxConcurrentAssumption`, `MaxUIDAssumption`,
  `MaxEpochAssumption`, `PanelBounds`, `MaxBackupsAssumption`).
- Requests and diagnoses are finitely many, for the counting of slots and
  entries (`RequestsAssumption`, `DiagnosesAssumption`).
- The workbench's constants are what they stand for: formatting gives a text or
  fails, files hold texts, the textarea gives back a text for each, and the sample
  and the empty text as they are, and these two can be analysed
  (`EditorAssumption`); matches are given for every
  text, mode and query, without repetition, none for the empty query and none in
  a text that cannot be analysed (`WorkbenchAssumption`); sources are lines with terminators and formatted ones
  end every line with a line feed (`DiffAssumption`).
- Of its functions: every character has a lower case form, which is not empty
  (`TextAssumption`); the keys of a collection differ, as those of a mapping or
  the positions of an array do, a position has no bracket in it and a key that
  is printed bare no dot and no bracket, as the pattern in `tree-search.js:1`
  has it (`TreeAssumption`); a parsed document counts its errors and warnings, a
  mapping has a root node, and the rules for single objects do not use the title
  of the duplicate finding (`AnalysisAssumption`).

No bound is otherwise used: the theorems hold for any number of requests, slots,
contexts, generations, tabs, page loads, Pods, runs, handlers, texts, files,
nested elements, lines, characters, nodes, documents, findings and backups.

A property that is checked is seldom inductive. Each proof has an invariant
that says what else holds at each point of the code, shown initially, preserved
with one step for each action, and shown to imply the properties.

**`ConsoleLemmas`.** `SessionInv`, kept by each session action:
selectable and selected namespaces are ones the selected context reported, the
current scope context is the generation's, cancelled are exactly the earlier
ones, a closed session has no context. Every component that shares the session
rests on it. Two more lemmas say what a bounded reslice keeps and when a set has
at most one element.

**`ServerProofs`, the resource service.** That a slot is released once needs to know where
each request stands, and that a generation identifies a scope needs to know that
no request holds a generation from the future. `IInv` is `TypeOK`,
`SessionInv`, `SlotsHeldByHandlers` and `RequestInv`: a request is unbound
before it is bound, then bound to a scope with a generation not above the
session's and equal to the session's scope if the generations are equal, with
the outcome decided only where the code decides it. From it follow
`TypeCorrect`, `SlotsNeverLeak`, `NamespacesStayWithTheirContext`,
`CancellationFollowsScope` and `NothingAfterClose`.
`GenerationsIdentifyScopes` also needs that two requests of one generation have
one scope (`AgreementInv`).

`LogInv` relates the sequence number, the length and the sequence number of each
kept entry, which gives `LogKeepsLatest`; `EveryAdmittedRequestRecordedOnce`
counts, since each action leaves the set of requests that have recorded alone or
adds one element and one entry. `SupersededRequestsNeverSucceed` and
`CancelledRequestsNeverSucceed` are of the form "once P then always not ok": for
each a state predicate (`Doomed`, `Ended`) follows from P, is stable under every
action, and excludes success. `Refinement` proves `ImplementsScopedReads`: under
`IInv` every action maps to an action of `ScopedReads` or a stutter.

**`DiagnosticsProofs`, the service.** `DiagInv` says of each diagnosis which error it
can carry (`ErrorsOf`), what it is bound to (`BindingOf`) and what it has read
(`ResultOf`). The last is where `ResultAlwaysOfExpectedPod` comes from: logs of
another Pod can only have been read after the expected one had gone, UIDs are
given out in order (`PodsInv`), so it cannot be back at the second `Get`. Slots
are counted, and recording is counted as for the resource service, with
panicking and refused diagnoses among them. `SupersededDiagnosesNeverSucceed`
again goes through a stable predicate. `DiagRefinement` proves
`DiagImplementsScopedReads`. Most actions are a stutter, by one of three shapes:
the diagnosis goes on reading, fails, or leaves its answer as it is, in each case
with the session at rest. The generation comparison is the step that confirms a
read, and there `BindingOf` is needed: an equal generation means that context and
namespace are equal too, although the code compares the generation alone.

**`ServerProofs`, the process.** `OneServeError`: the accept loop's one error is either
still to come or in the channel, at each point of `serve`, so that no receive
waits for a second one. `ContextsAreOfThePast`: a handler's context is no newer
than the session's and older once it is closed, hence cancelled.
`ShutdownProgress`: what `serve` has done by where it stands. Together
`ShutdownAlwaysOrderly`.

**`ConsoleTabsProofs`.** A page load has at most one fetch under way, for what
the tab waits for (`OneFetchPerPage`); a fetch and a page hold only scopes the
session has handed out, so that an equal generation means an equal context, and
a fetch to set a namespace carries the generation the page still displays
(`FetchesCarryScopes`); a page that waits for a context shows and offers nothing
(`PagesWaitEmpty`). These give `PagesAlwaysShowTheirScope` and
`NamespaceAlwaysSetInShownContext`.

**`DiagnosticsProofs`, the panel.** Identifiers of fetches were handed out in this
panel or an earlier one, one to each (`IdsAreOfThePast`); only the pending fetch
is not aborted, and it asks what the controls say (`OnlyPendingIsLive`). These
give `ResultAlwaysMatchesControls` and `LatestRunAlwaysOwnsPanel`.

**`WorkbenchProofs`.** `PageImplementsEditor`: every handler of the page is a
handler of the editor or leaves it alone, so that the editor's invariant, proved
once for `EditorSpec`, holds of the page. It needs that what a load makes clean
was stored from the start (`OriginalsStored`); `ReportAlwaysOfEditor` and
`CleanTextAlwaysStored` follow; the latter says that what counts as saved is
stored, not that no unsaved text is ever replaced, which `editor_discard`
refutes. `ViewAlwaysCurrent` rests on one lemma about `Render`, whatever the
handler changed before it (`RenderIsCurrent`): it makes the results current, or
the text is unreadable and they stay whole results of an earlier, readable one.
`DropHintAlwaysDuringDrag`
needs that the code's depth never exceeds what the browser has entered
(`DragInv`). `PositionAlwaysKept` is an action property: editing and changing
tabs keep the active match as long as it matches.

**`WorkbenchFunctionsProofs`.** These are claims about what an algorithm computes
for every input, so they need induction over data. The theorems of the library
that take a predicate as a parameter are of no use to the provers; the proofs use
sets instead. `LeastNatural` takes from well-foundedness that a set of naturals
has a least element; by `SetInduction` a set that contains 0 and the successor of
each member is all of them; each induction then defines the set of the lengths,
or positions, at which its claim holds. On these rest the lemmas about
`FlattenSeq`: what it returns for one part more, for a concatenation of parts and
for parts of one element, and how long it is.

*The diff.* `RowsAlwaysRebuildBothTexts` is inductive as it stands once the
rows and indices are typed. `FormattingChangeAlwaysVisible` also needs that rows
which are all context run over equal lines (`ContextRowsAgree`): a preview
without a changed row then has equal lines, and differs in the terminators. For
`AlignmentAlwaysLongest` the matrix is first shown to hold, for any two positions,
the length of the longest common subsequence of the lines from there on: no
common subsequence is longer and one is that long. `AlignInv` then says that the
context rows so far and the
value of the matrix for what is left add up to its value for the whole texts,
which the greedy choice of `AddingFirst` keeps.

*The ranges.* `RangeInv`: the ranges so far spell the text up to the cursor, and
all of it once the loop has ended, also where a match lies beyond the end because
lower case is longer. If lower case keeps the length, a highlighted range is the
query in lower case and the rest does not contain it. The second half needs that
the loop takes the *first* match after the cursor. It gives
`RangesAlwaysSpellSource`.

*The tree.* The pivot is that two different children of a node never print as the
same path, nor as one that continues the other's: a quoted key ends at its first
quote without a backslash before it, an index at its bracket, a bare key before
the next dot or bracket (`Under` and the lemmas on segments). `TreeInv` then says
that no pending call lies below another's path (`Apart`) or has been recorded
(`Unseen`), ids differ (`Told`), and ancestors stand in front of their records
(`Way`). It gives `TreePathsAlwaysIdentifyNodes`.

**`AnalysisProofs`.** `AnalysisInv` goes by the mode and by how far the analysis
has come. In Kubernetes mode (`ResourcesOnly`) each kept document knows which of
the parsed ones it is, and holds its resource (`FromOwn`), in the order of the
source (`InOrder`). Before the findings about several documents are added, none
is about an identity (`Unmarked`); afterwards exactly the documents with an
earlier one of their identity have one, which names the first of these
(`Marked`); at the end every finding and every schema mismatch leads to the
nearest node of its path in its own document (`Located`). In general mode there
are no findings (`GeneralOnly`). `FindingsAlwaysLocated` and
`FirstOfIdentityAlwaysAccepted` follow; the first because places are made from the
document's own index and never from its position in the list. `CountsAlwaysAgree`
compares sums computed along different ways: `Sum` is characterised by its
partial sums (`AddsUp`), the number of items of a level is additive over
concatenation, every item has one of the four levels, and a section's length is
the sum over the documents it was made from.

**`LokiRecoveryProofs`.** The invariant goes by the command the script is about
to run: what the flags say about the workloads and the helper (`ClusterInv`),
which files of the present backup exist and that an archive with its final name
is a cold one (`FilesInv`), what the restored directory holds and which Pods
stand beside it (`RestoreInv`). Each command fails with or without its effect,
and `Killed` is possible at each of them. All four safety properties of the run
are theorems.

Every invariant, action property and refinement that a passing run checks is thus
also a theorem. Only model-checked:

- liveness under fairness, which is beyond the prover: `SupersededWorkEnds`,
  `AdmittedRequestsEnd`, the end of each diagnosis, of the process after a
  signal, and of a busy page;
- the two violated properties, which are false.

## 6. What is not modelled, and why

- Projections of Kubernetes objects to records, text sanitising, previews,
  rendering, HTTP headers and request filters: stateless data conversion.
- Start-up of the console: sequential, before anything is shared.
- The order in which the displayed history is refreshed (`App.tsx:122`):
  nothing promises one. The two lock acquisitions of `bootstrap`
  (`server.go:135`): the client uses only one of the two answers.
- Of the workbench: the feedback after copying a report, which is given after
  an await and may then label another report (`main.js:803`), jumps to a line,
  folding of tree nodes and announcements, all presentation; the rules for a
  single container, Pod, role or binding and the OWASP profile, which are tables
  of independent conditions and texts; the formatter and the parser, which are a
  library's; the schema validators, which are generated, and the one-shot
  scripts that generate them.
- Two Loki recovery scripts at once: outside the procedure the script is for.
- Restaurant API, portal, repository checks, release scripts, manifests.

The rest of what has no module yet is in the plan.

## 7. Plan

Done: `Session`, `ActivityLog`, `ResourceService` and `DiagnosticService` with
their refinements of `ScopedReads`; `Lifecycle`; `ConsoleTabs`;
`DiagnosticsPanel`; `YamlEditor` and `Workbench`; `FormatDiff`, `Analysis` and
`TreeSearch`; `LokiRecovery`; and the proofs of section 5.

Next, in this order:

1. `Console`: resource and diagnostic services over one session and one log.
2. ForgeOps: `Collection` (sources that fail independently, status evaluation,
   exit code), and `EvidencePipeline` (evidence, comparison, mapping, brief as
   validated artifacts, replay), with the abstract claim that a brief cites only
   what its inputs contain.
3. `ServicePulse`: probe thread, bounded samples, freshness, shutdown.
4. The configuration loader's rules and the request filters as operators with
   reference definitions.

## 8. Running

    tlc -workers 2 -config MCResourceService.cfg MCResourceService
    tlapm ServerProofs.tla

and likewise for the other configurations (`x_y.cfg` belongs to module `x`)
and proof modules (`ConsoleLemmas` and every `*Proofs`). The longest run,
`resource`, takes between two and three minutes, `workbench` about as long, the longest proofs, of
`WorkbenchFunctionsProofs` and `AnalysisProofs`, about five.
