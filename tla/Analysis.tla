------------------------------- MODULE Analysis -------------------------------
(***************************************************************************)
(* analyzeYaml of the Forge YAML Workbench                                 *)
(* (apps/forge-yaml-workbench/src/analyze.js), the schema result of each   *)
(* document (schema-validation.js), and what the Validation view, the      *)
(* status line (main.js) and the Markdown report (report.js) make of it.   *)
(*                                                                         *)
(* External: the YAML parser, which gives the parsed documents, and the    *)
(* generated schema validators.  A document is what the analysis asks of   *)
(* it: its errors and warnings, the type of its root, whether toJS throws, *)
(* the paths of its nodes and the resource in it.  A path is a sequence of keys; a position *)
(* in the source is the document and the node found there.  Of the         *)
(* operational rules those that look at identity and selectors are         *)
(* modelled; the results of the rules for one container or Pod are given   *)
(* with the resource.                                                      *)
(***************************************************************************)
EXTENDS Integers, Sequences, FiniteSets, SequencesExt, FiniteSetsExt

CONSTANTS
    ParsedDocuments, \* what the parser makes of a document
    ParsedSources,   \* sequences of parsed documents
    PathKeys,        \* keys on the way to a node
    ReviewTitles,
    readBack,        \* key to the keys pathSegments reads from the key as printed in a path
    WORKLOADS, SELECTOR_WORKLOADS,
    KUBERNETES_VALIDATORS,  \* pairs of an apiVersion and a kind
    apiGroup,        \* apiVersion to group
    builtInGroups

InspectionModes == {"kubernetes", "general"}

FindingLevels == {"error", "warning", "note"}

Unlocated == [document |-> 0, node |-> <<>>]

\* The findings of the rules for one container or Pod.
ReviewFindings ==
    [level : FindingLevels, title : ReviewTitles, path : Seq(PathKeys), line : {Unlocated},
     other : {0}]

\* What the parser gives.  Only a mapping has a resource.
ASSUME AnalysisAssumption ==
    /\ readBack \in [PathKeys -> Seq(PathKeys)]
    /\ {"apiVersion", "kind", "metadata", "name", "spec", "selector", "matchLabels", "ports",
        "targetPort"} \subseteq PathKeys
    /\ "Duplicate resource identity" \notin ReviewTitles
    /\ \A source \in ParsedSources : source \in Seq(ParsedDocuments)
    /\ \A document \in ParsedDocuments :
           /\ document.errors \in Nat /\ document.warnings \in Nat
           /\ document.throws \in BOOLEAN
           /\ document.root = "mapping" =>
                  LET resource == document.resource IN
                  /\ <<>> \in document.nodes
                  /\ \A node \in document.nodes : node \in Seq(PathKeys)
                  /\ resource.review \in Seq(ReviewFindings)
                  /\ resource.mismatches \in Seq(Seq(PathKeys))
                  /\ Len(resource.targetPorts) \in Nat
                  /\ DOMAIN resource.targetPorts = 1 .. Len(resource.targetPorts)
                  /\ \A i \in DOMAIN resource.targetPorts : resource.targetPorts[i].key \in PathKeys

VARIABLES
    mode,
    parsed,          \* what the parser returned
    index,           \* documents taken from it
    documents,
    syntaxErrors, syntaxWarnings, documentErrors,
    step             \* "idle", "documents", "bundle", "locations", "done" or "thrown"

analysisVars == <<mode, parsed, index, documents, syntaxErrors, syntaxWarnings,
                  documentErrors, step>>

-----------------------------------------------------------------------------
(* One document.                                                           *)

finding(level, title, path) ==
    [level |-> level, title |-> title, path |-> path, line |-> Unlocated, other |-> 0]

\* Fields that are empty or missing are "" in the resource.
If(condition, items) == IF condition THEN items ELSE <<>>

\* Labels and selectors are sets of key and value pairs.
selectorMatches(selector, candidateLabels) == selector \subseteq candidateLabels

\* The labels of the Pods a resource describes.
podLabels(resource) ==
    IF resource.kind = "Pod" THEN resource.labels
    ELSE IF resource.kind = "CronJob" THEN resource.jobTemplateLabels
    ELSE IF resource.kind \in WORKLOADS THEN resource.templateLabels
    ELSE {}

findings(resource) ==
    If(resource.apiVersion = "",
       <<finding("error", "Missing apiVersion", <<"apiVersion">>)>>)
    \o If(resource.kind = "",
          <<finding("error", "Missing kind", <<"kind">>)>>)
    \o If(resource.metadataName = "" /\ resource.generateName = "",
          <<finding("error", "Missing metadata.name", <<"metadata", "name">>)>>)
    \o resource.review
    \o If(resource.kind \in SELECTOR_WORKLOADS,
          IF resource.selector = {} /\ ~resource.matchExpressions
          THEN <<finding("error", "Workload has no selector terms", <<"spec", "selector">>)>>
          ELSE If(~selectorMatches(resource.selector, podLabels(resource)),
                  <<finding("error", "Selector does not match Pod template labels",
                            <<"spec", "selector", "matchLabels">>)>>))

SchemaResult(status, errors) == [status |-> status, errors |-> errors]

\* The validators answer with resource.mismatches, the paths their errors name.
validateKubernetesResource(resource) ==
    IF resource.apiVersion = "" \/ resource.kind = ""
    THEN SchemaResult("not-evaluated", <<>>)
    ELSE IF <<resource.apiVersion, resource.kind>> \notin KUBERNETES_VALIDATORS
    THEN LET group == apiGroup[resource.apiVersion]
         IN  IF group # "" /\ group \notin builtInGroups
             THEN SchemaResult("schema-unavailable", <<>>)
             ELSE SchemaResult("unsupported", <<>>)
    ELSE IF resource.mismatches = <<>>
    THEN SchemaResult("valid", <<>>)
    ELSE SchemaResult("invalid",
             [i \in DOMAIN resource.mismatches |->
                 finding("error", "Schema mismatch", resource.mismatches[i])])

FirstOf(a, b, c) == IF a # "" THEN a ELSE IF b # "" THEN b ELSE c

\* The identity a resource is shown with, its findings and its schema result.
summarizeResource(resource, number) ==
    [index      |-> number,
     apiVersion |-> FirstOf(resource.apiVersion, "not set", ""),
     kind       |-> FirstOf(resource.kind, "Unknown", ""),
     name       |-> FirstOf(resource.metadataName, resource.generateName, "unnamed"),
     namespace  |-> IF resource.namespace # "" THEN resource.namespace
                    ELSE IF resource.kind = "Namespace" THEN "cluster-scoped"
                    ELSE "default / unspecified",
     findings   |-> findings(resource),
     schema     |-> validateKubernetesResource(resource),
     raw        |-> resource]

summarizeGeneralDocument(document, number) ==
    [index |-> number, rootType |-> document.root, findings |-> <<>>]

Diagnostics(n, number) ==
    [i \in 1 .. number |-> [document |-> n, line |-> [document |-> n, node |-> <<>>]]]

-----------------------------------------------------------------------------
(* Findings about several documents.                                       *)

Identity(document) ==
    <<document.apiVersion, document.kind, document.namespace, document.name>>

\* Mutant: a generated name counts as a name.
DuplicateOfAny(i) ==
    {c \in 1 .. i - 1 : Identity(documents[c]) = Identity(documents[i])}

\* Earlier documents with the identity of document i; generated names are not compared.
DuplicateOf(i) ==
    {c \in 1 .. i - 1 :
        /\ documents[i].raw.metadataName # ""
        /\ documents[c].raw.metadataName # ""
        /\ Identity(documents[c]) = Identity(documents[i])}

DuplicateFinding(i) ==
    If(DuplicateOf(i) # {},
       <<[finding("error", "Duplicate resource identity", <<"metadata", "name">>)
            EXCEPT !.other = documents[Min(DuplicateOf(i))].index]>>)

IsSelectingService(document) ==
    /\ document.kind = "Service"
    /\ document.raw.serviceType # "ExternalName"
    /\ document.raw.selector # {}

WorkloadsBeside(document) ==
    {w \in Range(documents) : w.kind \in WORKLOADS /\ w.namespace = document.namespace}

\* A Service whose selector or named targetPort fits no workload of its namespace.
ServiceFindings(document) ==
    LET matches == {w \in WorkloadsBeside(document) :
                        selectorMatches(document.raw.selector, podLabels(w.raw))}
        portNames == UNION {w.raw.portNames : w \in matches}
        ports == document.raw.targetPorts
    IN  If(IsSelectingService(document) /\ WorkloadsBeside(document) # {},
           IF matches = {}
           THEN <<finding("warning", "Service selector matches no workload in this file",
                          <<"spec", "selector">>)>>
           ELSE FlattenSeq([i \in DOMAIN ports |->
                   If(ports[i].named /\ ports[i].port \notin portNames,
                      <<finding("warning", "Named targetPort is not exposed by the selected workload",
                                <<"spec", "ports", ports[i].key, "targetPort">>)>>)]))

-----------------------------------------------------------------------------
(* Locations.                                                              *)

\* A key that contains a dot is read back as several.
pathSegments(path) == FlattenSeq([i \in DOMAIN path |-> readBack[path[i]]])

\* The deepest node on the way; every prefix of a node's path is a node's path.
nearestNodeAtPath(document, segments) ==
    SubSeq(segments, 1,
           Max({k \in 0 .. Len(segments) : SubSeq(segments, 1, k) \in document.nodes}))

\* Mutant: documents without a resource are not counted.
LocateByPosition(item, document) ==
    LET position == CHOOSE i \in DOMAIN documents : documents[i] = document
    IN  [item EXCEPT !.line =
            [document |-> position,
             node |-> nearestNodeAtPath(parsed[position], pathSegments(item.path))]]

Locate(item, document) ==
    [item EXCEPT !.line =
        [document |-> document.index,
         node |-> nearestNodeAtPath(parsed[document.index], pathSegments(item.path))]]

LocateAll(items, document) == [i \in DOMAIN items |-> Locate(items[i], document)]

-----------------------------------------------------------------------------

AnalysisInit ==
    /\ mode \in InspectionModes
    /\ parsed \in ParsedSources
    /\ index = 0
    /\ documents = <<>>
    /\ syntaxErrors = <<>>
    /\ syntaxWarnings = <<>>
    /\ documentErrors = <<>>
    /\ step = "documents"

AnalysisIdle ==
    /\ mode = "kubernetes"
    /\ parsed = <<>>
    /\ index = 0
    /\ documents = <<>>
    /\ syntaxErrors = <<>>
    /\ syntaxWarnings = <<>>
    /\ documentErrors = <<>>
    /\ step = "idle"

readable(document) == document.errors = 0 /\ document.root # "null"

\* The body of parsed.forEach.
TakeDocument ==
    /\ step = "documents"
    /\ index < Len(parsed)
    /\ index' = index + 1
    /\ LET document == parsed[index']
           rejected == readable(document) /\ mode = "kubernetes" /\ document.root # "mapping"
       IN  /\ ~(readable(document) /\ document.throws)
           /\ syntaxErrors' = syntaxErrors \o Diagnostics(index', document.errors)
           /\ syntaxWarnings' = syntaxWarnings \o Diagnostics(index', document.warnings)
           /\ documentErrors' = documentErrors \o If(rejected, Diagnostics(index', 1))
           /\ documents' = documents \o
                 If(readable(document) /\ ~rejected,
                    IF mode = "kubernetes"
                    THEN <<summarizeResource(document.resource, index')>>
                    ELSE <<summarizeGeneralDocument(document, index')>>)
    /\ UNCHANGED <<mode, parsed, step>>

\* document.toJS throws at an alias without its anchor or at too many aliases, which
\* are no errors of the document, and analyzeYaml ends without a result.
ToJSThrows ==
    /\ step = "documents"
    /\ index < Len(parsed)
    /\ readable(parsed[index + 1]) /\ parsed[index + 1].throws
    /\ step' = "thrown"
    /\ UNCHANGED <<mode, parsed, index, documents, syntaxErrors, syntaxWarnings, documentErrors>>

DocumentsTaken ==
    /\ step = "documents"
    /\ index = Len(parsed)
    /\ step' = IF mode = "kubernetes" THEN "bundle" ELSE "done"
    /\ UNCHANGED <<mode, parsed, index, documents, syntaxErrors, syntaxWarnings, documentErrors>>

addBundleFindings ==
    /\ step = "bundle"
    /\ documents' = [i \in DOMAIN documents |->
                        [documents[i] EXCEPT !.findings =
                            DuplicateFinding(i) \o @ \o ServiceFindings(documents[i])]]
    /\ step' = "locations"
    /\ UNCHANGED <<mode, parsed, index, syntaxErrors, syntaxWarnings, documentErrors>>

attachFindingLocations ==
    /\ step = "locations"
    /\ documents' = [i \in DOMAIN documents |->
                        [documents[i] EXCEPT !.findings = LocateAll(@, documents[i]),
                                             !.schema.errors = LocateAll(@, documents[i])]]
    /\ step' = "done"
    /\ UNCHANGED <<mode, parsed, index, syntaxErrors, syntaxWarnings, documentErrors>>

AnalysisNext ==
    \/ TakeDocument
    \/ ToJSThrows
    \/ DocumentsTaken
    \/ addBundleFindings
    \/ attachFindingLocations

AnalysisSpec == AnalysisInit /\ [][AnalysisNext]_analysisVars

-----------------------------------------------------------------------------
(* What is made of the result.  An item's level is what the filter reads.  *)

errors == syntaxErrors \o documentErrors

Levels == {"error", "warning", "note", "valid"}

Filters == Levels \cup {"all"}

WithLevel(items, level) == [i \in DOMAIN items |-> level]

LevelsOf(items) == [i \in DOMAIN items |-> items[i].level]

statusLevel ==
    [status \in {"valid", "unsupported", "schema-unavailable", "not-evaluated"} |->
        IF status = "valid" THEN "valid" ELSE IF status = "unsupported" THEN "note" ELSE "warning"]

schemaItems(schema) ==
    IF schema.status = "invalid" THEN LevelsOf(schema.errors) ELSE <<statusLevel[schema.status]>>

\* The levels of the items of each section of the Validation view.
sections ==
    <<WithLevel(syntaxErrors, "error") \o WithLevel(syntaxWarnings, "warning"),
      WithLevel(documentErrors, "error"),
      FlattenSeq([i \in DOMAIN documents |-> LevelsOf(documents[i].findings)]),
      If(mode = "kubernetes",
         FlattenSeq([i \in DOMAIN documents |-> schemaItems(documents[i].schema)]))>>

OfLevel(items, level) ==
    FlattenSeq([i \in DOMAIN items |-> If(items[i] = level, <<level>>)])

counts == [level \in Levels |-> Len(OfLevel(FlattenSeq(sections), level))]

\* The numbers of a sequence added up from the left.
Sum(numbers) ==
    LET upTo[k \in 0 .. Len(numbers)] == IF k = 0 THEN 0 ELSE upTo[k - 1] + numbers[k]
    IN  upTo[Len(numbers)]

total == Sum(<<counts["error"], counts["warning"], counts["note"], counts["valid"]>>)

visibleSections(filter) ==
    [i \in DOMAIN sections |->
        IF filter = "all" THEN sections[i] ELSE OfLevel(sections[i], filter)]

\* The number beside a filter, and in the summary while it is chosen.
visibleCount(filter) == IF filter = "all" THEN total ELSE counts[filter]

OverDocuments(number(_)) == Sum([i \in DOMAIN documents |-> number(documents[i])])

\* Mutant: only mismatches count.
schemaIssuesInvalidOnly(document) == Len(document.schema.errors)

schemaIssues(document) ==
    CASE document.schema.status = "invalid" -> Len(document.schema.errors)
      [] document.schema.status = "valid"   -> 0
      [] OTHER                              -> 1

\* The count in the head of the report.
reportFindingCount ==
    Len(errors) + Len(syntaxWarnings)
    + (IF mode = "kubernetes" THEN OverDocuments(schemaIssues) ELSE 0)
    + OverDocuments(LAMBDA document : Len(document.findings))

\* render has a sum of its own for the tab and the status line.
schemaIssueCount ==
    IF mode = "kubernetes"
    THEN OverDocuments(LAMBDA document :
             IF document.schema.status = "invalid" THEN Len(document.schema.errors)
             ELSE IF document.schema.status = "valid" THEN 0 ELSE 1)
    ELSE 0

findingCount ==
    Len(errors) + Len(syntaxWarnings) + schemaIssueCount
    + OverDocuments(LAMBDA document : Len(document.findings))

invalidSchemaCount ==
    IF mode = "kubernetes"
    THEN OverDocuments(LAMBDA document :
             IF document.schema.status = "invalid" THEN Len(document.schema.errors) ELSE 0)
    ELSE 0

statusClass ==
    IF parsed = <<>> THEN "neutral"
    ELSE IF errors # <<>> \/ invalidSchemaCount > 0 THEN "error"
    ELSE IF findingCount > 0 THEN "warning"
    ELSE "valid"

\* What buildMarkdownReport lists: finding blocks, and schema results that are
\* neither valid nor given by their mismatches.
reportEntries ==
    Len(syntaxErrors) + Len(syntaxWarnings)
    + (IF mode = "kubernetes"
       THEN Len(documentErrors)
            + OverDocuments(LAMBDA document :
                  Len(document.findings) + Len(document.schema.errors)
                  + (IF document.schema.status \in {"valid", "invalid"} THEN 0 ELSE 1))
       ELSE 0)

-----------------------------------------------------------------------------

AllItems(document) == Range(document.findings) \cup Range(document.schema.errors)

\* The count in the status line is the one in the report, the number of results that
\* the Validation view shows other than "valid" and the number of entries the
\* report lists; each filter shows as many as its button says and together they
\* show everything; a "valid" status means nothing was found, an "error" status
\* that an error is listed.
CountsAgree ==
    step = "done" =>
        /\ findingCount = reportFindingCount
        /\ reportFindingCount = total - counts["valid"]
        /\ reportFindingCount = reportEntries
        /\ total = Len(FlattenSeq(sections))
        /\ \A filter \in Filters :
               Len(FlattenSeq(visibleSections(filter))) = visibleCount(filter)
        /\ statusClass = "valid" => \A level \in Levels \ {"valid"} : counts[level] = 0
        /\ statusClass = "error" => counts["error"] > 0

\* A finding and a schema mismatch lead to the document their resource was read
\* from, whatever empty, unreadable or rejected documents precede it, and there to
\* the deepest node on the finding's path; a key that reads back as other keys may
\* lead to another node, of the same document.
FindingsLocatedInOwnDocument ==
    step = "done" /\ mode = "kubernetes" =>
        \A i \in DOMAIN documents : \A item \in AllItems(documents[i]) :
            LET own == parsed[item.line.document]
                plain == \A key \in Range(item.path) : readBack[key] = <<key>>
            IN  /\ own.resource = documents[i].raw
                /\ item.line.document = documents[i].index
                /\ item.line.node \in own.nodes
                /\ plain => /\ IsPrefix(item.line.node, item.path)
                            /\ \A node \in own.nodes :
                                   IsPrefix(node, item.path) => IsPrefix(node, item.line.node)

IsDuplicate(document) ==
    \E item \in Range(document.findings) : item.title = "Duplicate resource identity"

\* Of the resources with one identity the first is accepted and every later one
\* names it; a resource whose name the cluster generates is never a duplicate and
\* never makes one.
FirstOfIdentityAccepted ==
    step = "done" /\ mode = "kubernetes" =>
        LET named == {document \in Range(documents) : document.raw.metadataName # ""}
            duplicates == {document \in Range(documents) : IsDuplicate(document)}
        IN  /\ duplicates \subseteq named
            /\ \A d, e \in named \ duplicates : Identity(d) = Identity(e) => d = e
            /\ \A d \in duplicates : \A item \in Range(d.findings) :
                   item.title = "Duplicate resource identity" =>
                       \E first \in named \ duplicates :
                           /\ first.index = item.other
                           /\ first.index < d.index
                           /\ Identity(first) = Identity(d)

=============================================================================
