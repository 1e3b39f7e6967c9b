--------------------------- MODULE AnalysisProofs ---------------------------
(***************************************************************************)
(* Proofs about the analysis of the Workbench, for every list of parsed    *)
(* documents: that each finding is located in the document it is about, that*)
(* of the documents of one identity the first is accepted and the others   *)
(* are named duplicates of it, and that the counts of the report add up to *)
(* its findings.                                                           *)
(***************************************************************************)
EXTENDS WorkbenchFunctionsProofs

-----------------------------------------------------------------------------
(* The analysis: what the findings of a document are.                      *)

\* The titles of the findings that are not about an identity.
OwnTitles ==
    {"Missing apiVersion", "Missing kind", "Missing metadata.name",
     "Workload has no selector terms", "Selector does not match Pod template labels",
     "Service selector matches no workload in this file",
     "Named targetPort is not exposed by the selected workload", "Schema mismatch"}
    \cup ReviewTitles

\* The places findings lead to.
Places == [document : Nat, node : Seq(PathKeys)]

\* Findings, wherever they lead.
Items ==
    [level : FindingLevels, title : OwnTitles \cup {"Duplicate resource identity"},
     path : Seq(PathKeys), line : Places, other : Nat]

\* A finding that one document, or another one beside it, gives rise to.
OwnItems == {item \in Items : item.title # "Duplicate resource identity"}

\* The documents whose resource is analysed.
Mappings == {document \in ParsedDocuments : document.root = "mapping"}

\* What is analysed of them.
Resources == {document.resource : document \in Mappings}

\* What the assumption says of a resource.
LEMMA ResourceType ==
    ASSUME NEW resource \in Resources
    PROVE  /\ resource.review \in Seq(ReviewFindings)
           /\ resource.mismatches \in Seq(Seq(PathKeys))
           /\ Len(resource.targetPorts) \in Nat
           /\ DOMAIN resource.targetPorts = 1 .. Len(resource.targetPorts)
           /\ \A i \in DOMAIN resource.targetPorts : resource.targetPorts[i].key \in PathKeys
BY AnalysisAssumption, Zenon DEF Resources, Mappings

\* Only the rule about identities gives its title.
LEMMA OwnTitlesDiffer == "Duplicate resource identity" \notin OwnTitles
BY AnalysisAssumption DEF OwnTitles

\* The least of what there is.
LEMMA EmptyAndZero == 0 \in Nat /\ \A S : <<>> \in Seq(S)
OBVIOUS

\* A finding as it is made leads nowhere yet.
LEMMA FindingType ==
    ASSUME NEW level \in FindingLevels, NEW title \in OwnTitles \cup {"Duplicate resource identity"},
           NEW path \in Seq(PathKeys)
    PROVE  /\ finding(level, title, path) \in Items
           /\ finding(level, title, path).title = title
           /\ finding(level, title, path).level = level
           /\ title \in OwnTitles => finding(level, title, path) \in OwnItems
<1>1. <<>> \in Seq(PathKeys) /\ 0 \in Nat
    BY EmptyAndZero, Zenon
<1>2. PICK item, line : item = finding(level, title, path) /\ line = [document |-> 0, node |-> <<>>]
    OBVIOUS
<1>3. item = [level |-> level, title |-> title, path |-> path, line |-> line, other |-> 0]
    BY <1>2, Zenon DEF finding, Unlocated
<1>4. line \in Places
    BY <1>1, <1>2 DEF Places
<1>5. item \in Items /\ item.title = title /\ item.level = level
    BY <1>1, <1>3, <1>4 DEF Items
<1>6. title \in OwnTitles => item \in OwnItems
    BY <1>5, OwnTitlesDiffer, Zenon DEF OwnItems
<1>q. QED
    BY <1>2, <1>5, <1>6, Zenon

\* The paths the rules name.
LEMMA RulePaths ==
    /\ <<"apiVersion">> \in Seq(PathKeys) /\ <<"kind">> \in Seq(PathKeys)
    /\ <<"metadata", "name">> \in Seq(PathKeys) /\ <<"spec", "selector">> \in Seq(PathKeys)
    /\ <<"spec", "selector", "matchLabels">> \in Seq(PathKeys)
    /\ \A key \in PathKeys : <<"spec", "ports", key, "targetPort">> \in Seq(PathKeys)
<1>1. /\ "apiVersion" \in PathKeys /\ "kind" \in PathKeys /\ "metadata" \in PathKeys
      /\ "name" \in PathKeys /\ "spec" \in PathKeys /\ "selector" \in PathKeys
      /\ "matchLabels" \in PathKeys /\ "ports" \in PathKeys /\ "targetPort" \in PathKeys
    BY AnalysisAssumption, Zenon
<1>q. QED
    BY <1>1

\* Levels of findings.
LEMMA LevelMembers == "error" \in FindingLevels /\ "warning" \in FindingLevels
BY Zenon DEF FindingLevels

\* A review's findings are findings of their own document.
LEMMA ReviewType ==
    ASSUME NEW resource \in Resources
    PROVE  resource.review \in Seq(OwnItems)
<1>1. PICK review : review = resource.review
    OBVIOUS
<1>2. review \in Seq(ReviewFindings)
    BY <1>1, ResourceType, Zenon
<1>3. ASSUME NEW item \in ReviewFindings PROVE item \in OwnItems
  <2>1. /\ item.level \in FindingLevels /\ item.title \in ReviewTitles /\ item.path \in Seq(PathKeys)
        /\ item.line = Unlocated /\ item.other = 0
        /\ item = [level |-> item.level, title |-> item.title, path |-> item.path,
                   line |-> item.line, other |-> item.other]
      BY <1>3 DEF ReviewFindings
  <2>2. item.title \in OwnTitles
      BY <2>1, Zenon DEF OwnTitles
  <2>3. item = finding(item.level, item.title, item.path)
      BY <2>1, Zenon DEF finding
  <2>4. finding(item.level, item.title, item.path) \in OwnItems
      BY <2>1, <2>2, FindingType, Zenon
  <2>q. QED
      BY <2>3, <2>4, Zenon
<1>4. PICK S, T : S = ReviewFindings /\ T = OwnItems
    OBVIOUS
<1>5. review \in Seq(S) /\ \A item \in S : item \in T
    BY <1>2, <1>3, <1>4, Zenon
<1>6. review \in Seq(T)
    BY <1>5
<1>q. QED
    BY <1>1, <1>4, <1>6, Zenon

\* The findings of one document.
LEMMA FindingsType ==
    ASSUME NEW resource \in Resources
    PROVE  findings(resource) \in Seq(OwnItems)
<1>1. PICK a, b, c, d, e :
          /\ a = finding("error", "Missing apiVersion", <<"apiVersion">>)
          /\ b = finding("error", "Missing kind", <<"kind">>)
          /\ c = finding("error", "Missing metadata.name", <<"metadata", "name">>)
          /\ d = finding("error", "Workload has no selector terms", <<"spec", "selector">>)
          /\ e = finding("error", "Selector does not match Pod template labels",
                         <<"spec", "selector", "matchLabels">>)
    OBVIOUS
<1>2. a \in OwnItems /\ b \in OwnItems /\ c \in OwnItems /\ d \in OwnItems /\ e \in OwnItems
  <2>1. /\ "Missing apiVersion" \in OwnTitles /\ "Missing kind" \in OwnTitles
        /\ "Missing metadata.name" \in OwnTitles /\ "Workload has no selector terms" \in OwnTitles
        /\ "Selector does not match Pod template labels" \in OwnTitles
      BY Zenon DEF OwnTitles
  <2>2. \A title \in OwnTitles : title \in OwnTitles \cup {"Duplicate resource identity"}
      OBVIOUS
  <2>q. QED
      BY <1>1, <2>1, <2>2, FindingType, LevelMembers, RulePaths, Zenon
<1>3. <<a>> \in Seq(OwnItems) /\ <<b>> \in Seq(OwnItems) /\ <<c>> \in Seq(OwnItems)
      /\ <<d>> \in Seq(OwnItems) /\ <<e>> \in Seq(OwnItems) /\ <<>> \in Seq(OwnItems)
    BY <1>2
<1>4. resource.review \in Seq(OwnItems)
    BY ReviewType
<1>5. PICK f, g, h, last :
          /\ f = If(resource.apiVersion = "", <<a>>) /\ g = If(resource.kind = "", <<b>>)
          /\ h = If(resource.metadataName = "" /\ resource.generateName = "", <<c>>)
          /\ last = If(resource.kind \in SELECTOR_WORKLOADS,
                       IF resource.selector = {} /\ ~resource.matchExpressions THEN <<d>>
                       ELSE If(~selectorMatches(resource.selector, podLabels(resource)), <<e>>))
    OBVIOUS
<1>6. f \in Seq(OwnItems) /\ g \in Seq(OwnItems) /\ h \in Seq(OwnItems)
    BY <1>3, <1>5, Zenon DEF If
<1>7. last \in Seq(OwnItems)
  <2>1. If(~selectorMatches(resource.selector, podLabels(resource)), <<e>>) \in Seq(OwnItems)
      BY <1>3, Zenon DEF If
  <2>2. (IF resource.selector = {} /\ ~resource.matchExpressions THEN <<d>>
         ELSE If(~selectorMatches(resource.selector, podLabels(resource)), <<e>>)) \in Seq(OwnItems)
      BY <1>3, <2>1, Zenon
  <2>q. QED
      BY <1>3, <1>5, <2>2, Zenon DEF If
<1>8. findings(resource) = f \o g \o h \o resource.review \o last
    BY <1>1, <1>5, Zenon DEF findings
<1>9. PICK review : review = resource.review
    OBVIOUS
<1>10. f \o g \o h \o review \o last \in Seq(OwnItems)
  <2>1. review \in Seq(OwnItems)
      BY <1>4, <1>9
  <2>q. QED
      BY <1>6, <1>7, <2>1
<1>q. QED
    BY <1>8, <1>9, <1>10

\* The findings about a Service.
LEMMA ServiceType ==
    ASSUME NEW document, document.raw \in Resources
    PROVE  ServiceFindings(document) \in Seq(OwnItems)
<1> DEFINE matches == {w \in WorkloadsBeside(document) :
                          selectorMatches(document.raw.selector, podLabels(w.raw))}
           portNames == UNION {w.raw.portNames : w \in matches}
           ports == document.raw.targetPorts
           One(i) == finding("warning", "Named targetPort is not exposed by the selected workload",
                             <<"spec", "ports", ports[i].key, "targetPort">>)
           Part(i) == If(ports[i].named /\ ports[i].port \notin portNames, <<One(i)>>)
           none == finding("warning", "Service selector matches no workload in this file",
                           <<"spec", "selector">>)
<1>1. ServiceFindings(document) =
          If(IsSelectingService(document) /\ WorkloadsBeside(document) # {},
             IF matches = {} THEN <<none>> ELSE FlattenSeq([i \in DOMAIN ports |-> Part(i)]))
    BY Zenon DEF ServiceFindings
<1>2. /\ "Named targetPort is not exposed by the selected workload" \in OwnTitles
      /\ "Service selector matches no workload in this file" \in OwnTitles
    BY Zenon DEF OwnTitles
<1>3. \A title \in OwnTitles : title \in OwnTitles \cup {"Duplicate resource identity"}
    OBVIOUS
<1>4. /\ Len(ports) \in Nat /\ DOMAIN ports = 1 .. Len(ports)
      /\ \A i \in DOMAIN ports : ports[i].key \in PathKeys
    BY ResourceType, Zenon
<1>5. none \in OwnItems
    BY <1>2, <1>3, FindingType, LevelMembers, RulePaths, Zenon
<1>6. ASSUME NEW i \in DOMAIN ports PROVE One(i) \in OwnItems
  <2>1. PICK path, title : /\ path = <<"spec", "ports", ports[i].key, "targetPort">>
                           /\ title = "Named targetPort is not exposed by the selected workload"
      OBVIOUS
  <2>2. path \in Seq(PathKeys)
      BY <1>4, <1>6, <2>1, RulePaths, Zenon
  <2>3. finding("warning", title, path) \in OwnItems
    <3>1. title \in OwnTitles
        BY <1>2, <2>1, Zenon
    <3>2. PICK level : level = "warning"
        OBVIOUS
    <3>3. title \in OwnTitles \cup {"Duplicate resource identity"} /\ level \in FindingLevels
        BY <1>3, <3>1, <3>2, LevelMembers, Zenon
    <3>4. finding(level, title, path) \in OwnItems
        BY <2>2, <3>1, <3>3, FindingType, Zenon
    <3>q. QED
        BY <3>2, <3>4, Zenon
  <2>q. QED
      BY <2>1, <2>3, Zenon
<1>7. \A x \in OwnItems : <<x>> \in Seq(OwnItems)
  <2> SUFFICES ASSUME NEW S, NEW x \in S PROVE <<x>> \in Seq(S)
      OBVIOUS
  <2>q. QED
      OBVIOUS
<1>8. \A i \in DOMAIN ports : Part(i) \in Seq(OwnItems)
  <2> HIDE DEF One, portNames
  <2>q. QED
      BY <1>6, <1>7, EmptyAndZero, Zenon DEF If
<1> HIDE DEF One, Part, none, portNames, matches, ports
<1>9. FlattenSeq([i \in DOMAIN ports |-> Part(i)]) \in Seq(OwnItems)
  <2>1. PICK parts : parts = [i \in DOMAIN ports |-> Part(i)]
      OBVIOUS
  <2>2. parts = [i \in 1 .. Len(ports) |-> Part(i)] /\ \A i \in 1 .. Len(ports) : Part(i) \in Seq(OwnItems)
      BY <1>4, <1>8, <2>1, Zenon
  <2>3. Len(ports) \in Nat
      BY <1>4
  <2>4. parts \in Seq(Seq(OwnItems))
    <3>1. PICK T : T = Seq(OwnItems)
        OBVIOUS
    <3>2. parts = [i \in 1 .. Len(ports) |-> Part(i)] /\ \A i \in 1 .. Len(ports) : Part(i) \in T
        BY <2>2, <3>1, Zenon
    <3>3. parts \in Seq(T)
        BY <2>3, <3>2
    <3>q. QED
        BY <3>1, <3>3, Zenon
  <2>q. QED
      BY <2>1, <2>4, FlattenType, Zenon
<1>q. QED
    BY <1>1, <1>5, <1>7, <1>9, EmptyAndZero, Zenon DEF If

\* A mismatch is an error.
Mismatches == {item \in Items : item.level = "error"}

\* The result of a schema; only an invalid document has mismatches.
SchemaFits(schema) ==
    /\ schema.status \in {"valid", "invalid", "unsupported", "schema-unavailable", "not-evaluated"}
    /\ schema.errors \in Seq(Mismatches)
    /\ schema.status # "invalid" => schema.errors = <<>>
    /\ schema = [status |-> schema.status, errors |-> schema.errors]

\* A schema result as it is made.
LEMMA SchemaResultFits ==
    ASSUME NEW status \in {"valid", "invalid", "unsupported", "schema-unavailable", "not-evaluated"},
           NEW items \in Seq(Mismatches), status # "invalid" => items = <<>>
    PROVE  SchemaFits(SchemaResult(status, items))
<1>1. PICK schema : schema = SchemaResult(status, items)
    OBVIOUS
<1>2. schema = [status |-> status, errors |-> items]
    BY <1>1, Zenon DEF SchemaResult
<1>3. schema.status = status /\ schema.errors = items
    BY <1>2
<1>q. QED
    BY <1>1, <1>2, <1>3, Zenon DEF SchemaFits

\* What the validators answer.
LEMMA ValidationFits ==
    ASSUME NEW resource \in Resources
    PROVE  SchemaFits(validateKubernetesResource(resource))
<1>1. <<>> \in Seq(Mismatches)
    BY EmptyAndZero, Zenon
<1>2. /\ SchemaFits(SchemaResult("not-evaluated", <<>>))
      /\ SchemaFits(SchemaResult("schema-unavailable", <<>>))
      /\ SchemaFits(SchemaResult("unsupported", <<>>))
      /\ SchemaFits(SchemaResult("valid", <<>>))
    BY <1>1, SchemaResultFits, Zenon
<1> DEFINE paths == resource.mismatches
           One(i) == finding("error", "Schema mismatch", paths[i])
<1>3. paths \in Seq(Seq(PathKeys))
    BY ResourceType, Zenon
<1>4. Len(paths) \in Nat /\ DOMAIN paths = 1 .. Len(paths) /\ \A i \in DOMAIN paths : paths[i] \in Seq(PathKeys)
  <2>1. PICK T, p : T = Seq(PathKeys) /\ p = paths
      OBVIOUS
  <2>2. p \in Seq(T)
      BY <1>3, <2>1, Zenon
  <2>3. Len(p) \in Nat /\ DOMAIN p = 1 .. Len(p) /\ \A i \in DOMAIN p : p[i] \in T
      BY <2>2
  <2>q. QED
      BY <2>1, <2>3, Zenon
<1>5. ASSUME NEW i \in DOMAIN paths PROVE One(i) \in Mismatches
  <2>1. "Schema mismatch" \in OwnTitles
      BY Zenon DEF OwnTitles
  <2>2. \A title \in OwnTitles : title \in OwnTitles \cup {"Duplicate resource identity"}
      OBVIOUS
  <2>3. One(i) \in Items /\ One(i).level = "error"
      BY <1>4, <1>5, <2>1, <2>2, FindingType, LevelMembers, Zenon
  <2>q. QED
      BY <2>3, Zenon DEF Mismatches
<1>6. [i \in DOMAIN paths |-> One(i)] \in Seq(Mismatches)
  <2> HIDE DEF One, paths
  <2>1. PICK all, n : all = [i \in DOMAIN paths |-> One(i)] /\ n = Len(paths)
      OBVIOUS
  <2>2. n \in Nat /\ all = [i \in 1 .. n |-> One(i)] /\ \A i \in 1 .. n : One(i) \in Mismatches
      BY <1>4, <1>5, <2>1, Zenon
  <2>3. all \in Seq(Mismatches)
      BY <2>2
  <2>q. QED
      BY <2>1, <2>3
<1>7. SchemaFits(SchemaResult("invalid", [i \in DOMAIN paths |-> One(i)]))
  <2> HIDE DEF One, paths
  <2>q. QED
      BY <1>6, SchemaResultFits, Zenon
<1>q. QED
    BY <1>2, <1>7, Zenon DEF validateKubernetesResource

-----------------------------------------------------------------------------
(* The analysis: the documents taken.                                      *)

\* What a resource can be shown with.
Words ==
    {resource.apiVersion : resource \in Resources} \cup {resource.kind : resource \in Resources}
    \cup {resource.metadataName : resource \in Resources}
    \cup {resource.generateName : resource \in Resources}
    \cup {resource.namespace : resource \in Resources}
    \cup {"not set", "Unknown", "unnamed", "cluster-scoped", "default / unspecified"}

\* The results of the schema check.
Schemas == {schema \in [status : {"valid", "invalid", "unsupported", "schema-unavailable", "not-evaluated"},
                        errors : Seq(Mismatches)] : SchemaFits(schema)}

\* The documents of the kubernetes mode.
ResourceDocuments ==
    [index : Nat, apiVersion : Words, kind : Words, name : Words, namespace : Words,
     findings : Seq(Items), schema : Schemas, raw : Resources]

\* The documents of the general mode.
GeneralDocuments ==
    [index : Nat, rootType : {document.root : document \in ParsedDocuments}, findings : {<<>>}]

\* A resource's document as it is taken.
LEMMA SummaryType ==
    ASSUME NEW resource \in Resources, NEW number \in Nat
    PROVE  /\ summarizeResource(resource, number) \in ResourceDocuments
           /\ summarizeResource(resource, number).index = number
           /\ summarizeResource(resource, number).raw = resource
           /\ summarizeResource(resource, number).findings \in Seq(OwnItems)
<1>1. PICK a, k, n, s, f, v :
          /\ a = FirstOf(resource.apiVersion, "not set", "")
          /\ k = FirstOf(resource.kind, "Unknown", "")
          /\ n = FirstOf(resource.metadataName, resource.generateName, "unnamed")
          /\ s = (IF resource.namespace # "" THEN resource.namespace
                  ELSE IF resource.kind = "Namespace" THEN "cluster-scoped"
                  ELSE "default / unspecified")
          /\ f = findings(resource) /\ v = validateKubernetesResource(resource)
    OBVIOUS
<1>2. "not set" # ""
    OBVIOUS
<1>3. a \in Words /\ k \in Words
    BY <1>1, <1>2, ZenonT(30) DEF FirstOf, Words
<1>4. n \in Words
    BY <1>1, ZenonT(30) DEF FirstOf, Words
<1>5. s \in Words
    BY <1>1, ZenonT(30) DEF Words
<1>6. f \in Seq(OwnItems)
    BY <1>1, FindingsType, Zenon
<1>7. f \in Seq(Items)
  <2>1. \A x \in OwnItems : x \in Items
      BY Zenon DEF OwnItems
  <2>q. QED
      BY <1>6, <2>1
<1>8. v \in Schemas
  <2>1. SchemaFits(v)
      BY <1>1, ValidationFits, Zenon
  <2>2. v.status \in {"valid", "invalid", "unsupported", "schema-unavailable", "not-evaluated"}
        /\ v.errors \in Seq(Mismatches) /\ v = [status |-> v.status, errors |-> v.errors]
      BY <2>1, Zenon DEF SchemaFits
  <2>3. v \in [status : {"valid", "invalid", "unsupported", "schema-unavailable", "not-evaluated"},
               errors : Seq(Mismatches)]
      BY <2>2
  <2>q. QED
      BY <2>1, <2>3, Zenon DEF Schemas
<1>9. PICK d : d = summarizeResource(resource, number)
    OBVIOUS
<1>10. d = [index |-> number, apiVersion |-> a, kind |-> k, name |-> n, namespace |-> s,
            findings |-> f, schema |-> v, raw |-> resource]
    BY <1>1, <1>9, Zenon DEF summarizeResource
<1>11. d \in ResourceDocuments
    BY <1>3, <1>4, <1>5, <1>7, <1>8, <1>10 DEF ResourceDocuments
<1>12. d.index = number /\ d.raw = resource /\ d.findings = f
    BY <1>10
<1>q. QED
    BY <1>6, <1>9, <1>11, <1>12, Zenon

-----------------------------------------------------------------------------
(* The analysis: the nodes findings lead to.                               *)

\* What nearestNodeAtPath finds on a path: a node, and on a path whose keys are
\* read back as they are, the deepest one.
LeadsTo(document, path, node) ==
    /\ node \in document.nodes
    /\ (\A key \in Range(path) : readBack[key] = <<key>>) =>
           /\ IsPrefix(node, path)
           /\ \A other \in document.nodes : IsPrefix(other, path) => IsPrefix(other, node)

\* A path whose keys are read back as they are is read back as it is.
LEMMA ReadBack ==
    ASSUME NEW path \in Seq(PathKeys)
    PROVE  /\ pathSegments(path) \in Seq(PathKeys)
           /\ (\A key \in Range(path) : readBack[key] = <<key>>) => pathSegments(path) = path
<1>1. PICK parts : parts = [i \in DOMAIN path |-> readBack[path[i]]]
    OBVIOUS
<1>2. Len(path) \in Nat /\ DOMAIN path = 1 .. Len(path) /\ \A i \in 1 .. Len(path) : path[i] \in PathKeys
    OBVIOUS
<1>3. \A i \in 1 .. Len(path) : readBack[path[i]] \in Seq(PathKeys)
    BY <1>2, AnalysisAssumption
<1>4. /\ parts \in Seq(Seq(PathKeys)) /\ Len(parts) = Len(path)
      /\ \A i \in 1 .. Len(path) : parts[i] = readBack[path[i]]
  <2>1. PICK T : T = Seq(PathKeys)
      OBVIOUS
  <2>2. parts = [i \in 1 .. Len(path) |-> readBack[path[i]]] /\ \A i \in 1 .. Len(path) : readBack[path[i]] \in T
      BY <1>1, <1>2, <1>3, <2>1, Zenon
  <2>3. /\ parts \in Seq(T) /\ Len(parts) = Len(path)
        /\ \A i \in 1 .. Len(path) : parts[i] = readBack[path[i]]
      BY <1>2, <2>2
  <2>q. QED
      BY <2>1, <2>3, Zenon
<1>5. pathSegments(path) = FlattenSeq(parts)
    BY <1>1, Zenon DEF pathSegments
<1>6. FlattenSeq(parts) \in Seq(PathKeys)
    BY <1>4, FlattenType, Zenon
<1>7. ASSUME \A key \in Range(path) : readBack[key] = <<key>> PROVE FlattenSeq(parts) = path
  <2>1. \A i \in 1 .. Len(path) : parts[i] = <<path[i]>>
    <3>1. \A i \in 1 .. Len(path) : path[i] \in Range(path)
        BY <1>2, Zenon DEF Range
    <3>q. QED
        BY <1>4, <1>7, <3>1, Zenon
  <2>2. \A x : Len(<<x>>) = 1 /\ <<x>>[1] = x
      OBVIOUS
  <2>3. \A i \in 1 .. Len(path) : Len(parts[i]) = 1 /\ parts[i][1] = path[i]
      BY <2>1, <2>2, Zenon
  <2>4. FlattenSeq(parts) = [i \in 1 .. Len(parts) |-> parts[i][1]]
    <3>1. \A i \in 1 .. Len(parts) : Len(parts[i]) = 1
        BY <1>4, <2>3, Zenon
    <3>q. QED
        BY <1>4, <3>1, FlattenSingles, Zenon
  <2>5. [i \in 1 .. Len(parts) |-> parts[i][1]] = [i \in 1 .. Len(path) |-> path[i]]
      BY <1>4, <2>3, Zenon
  <2>6. path = [i \in 1 .. Len(path) |-> path[i]]
      BY <1>2
  <2>q. QED
      BY <2>4, <2>5, <2>6, Zenon
<1>q. QED
    BY <1>5, <1>6, <1>7, Zenon

\* How far a path leads.
LEMMA PrefixParts ==
    ASSUME NEW S, NEW path \in Seq(S), NEW k \in 0 .. Len(path), NEW node, node = SubSeq(path, 1, k)
    PROVE  /\ node \in Seq(S) /\ Len(node) = k /\ IsPrefix(node, path)
           /\ \A other \in Seq(S) :
                  IsPrefix(other, path) =>
                      /\ other = SubSeq(path, 1, Len(other)) /\ Len(other) \in 0 .. Len(path)
                      /\ Len(other) <= k => IsPrefix(other, node)
<1>1. Len(path) \in Nat /\ k \in Nat /\ k <= Len(path)
    OBVIOUS
<1>2. node \in Seq(S) /\ Len(node) = k /\ \A i \in 1 .. k : node[i] = path[i]
    BY <1>1
<1>3. \A s \in Seq(S) : SubSeq(s, 1, Len(s)) = s /\ Len(s) \in Nat
    OBVIOUS
<1>4. IsPrefix(node, path)
    BY <1>1, <1>2, <1>3, Zenon DEF IsPrefix
<1>5. ASSUME NEW other \in Seq(S), IsPrefix(other, path)
      PROVE  /\ other = SubSeq(path, 1, Len(other)) /\ Len(other) \in 0 .. Len(path)
             /\ Len(other) <= k => IsPrefix(other, node)
  <2>1. other = SubSeq(path, 1, Len(other)) /\ Len(other) <= Len(path) /\ Len(other) \in Nat
      BY <1>3, <1>5, Zenon DEF IsPrefix
  <2>2. PICK m : m = Len(other)
      OBVIOUS
  <2>3. m \in Nat /\ m <= Len(path) /\ m \in 0 .. Len(path)
      BY <1>1, <2>1, <2>2
  <2>4. ASSUME m <= k PROVE SubSeq(node, 1, m) = SubSeq(path, 1, m)
    <3>1. PICK a, b : a = SubSeq(node, 1, m) /\ b = SubSeq(path, 1, m)
        OBVIOUS
    <3>2. a \in Seq(S) /\ Len(a) = m /\ \A i \in 1 .. m : a[i] = node[i]
        BY <1>1, <1>2, <2>3, <2>4, <3>1
    <3>3. b \in Seq(S) /\ Len(b) = m /\ \A i \in 1 .. m : b[i] = path[i]
        BY <1>1, <2>3, <3>1
    <3>4. \A i \in 1 .. m : i \in 1 .. k
        BY <1>1, <2>3, <2>4
    <3>5. \A i \in 1 .. Len(a) : a[i] = b[i]
        BY <1>2, <3>2, <3>3, <3>4
    <3>6. a = b
        BY <3>2, <3>3, <3>5, SeqEqual
    <3>q. QED
        BY <3>1, <3>6
  <2>5. Len(other) <= k => IsPrefix(other, node)
      BY <1>2, <1>3, <2>1, <2>2, <2>4, Zenon DEF IsPrefix
  <2>q. QED
      BY <2>1, <2>2, <2>3, <2>5, Zenon
<1>q. QED
    BY <1>2, <1>4, <1>5, Zenon

\* A finding leads to the deepest node on its way.
LEMMA Nearest ==
    ASSUME NEW document \in Mappings, NEW path \in Seq(PathKeys)
    PROVE  /\ nearestNodeAtPath(document, pathSegments(path)) \in Seq(PathKeys)
           /\ LeadsTo(document, path, nearestNodeAtPath(document, pathSegments(path)))
<1>1. PICK segs : segs = pathSegments(path)
    OBVIOUS
<1>2. /\ segs \in Seq(PathKeys)
      /\ (\A key \in Range(path) : readBack[key] = <<key>>) => segs = path
    BY <1>1, ReadBack, Zenon
<1>3. <<>> \in document.nodes /\ \A node \in document.nodes : node \in Seq(PathKeys)
    BY AnalysisAssumption, Zenon DEF Mappings
<1> DEFINE Deep == {k \in 0 .. Len(segs) : SubSeq(segs, 1, k) \in document.nodes}
<1>4. Len(segs) \in Nat /\ SubSeq(segs, 1, 0) = <<>> /\ 0 \in 0 .. Len(segs)
    BY <1>2
<1>5. 0 \in Deep
    BY <1>3, <1>4, Zenon
<1>6. Deep \in SUBSET (0 .. Len(segs))
    OBVIOUS
<1>7. PICK top \in Deep : \A y \in Deep : y <= top
  <2> HIDE DEF Deep
  <2>q. QED
      BY <1>4, <1>5, <1>6, GreatestPosition
<1>8. PICK k : k = Max(Deep)
    OBVIOUS
<1>9. k \in Deep /\ \A y \in Deep : k >= y
  <2> HIDE DEF Deep
  <2>1. \A y \in Deep : top >= y
    <3>1. \A y \in Deep : y \in Int /\ top \in Int
        BY <1>4, <1>6
    <3>q. QED
        BY <1>7, <3>1
  <2>q. QED
      BY <1>7, <1>8, <2>1, Zenon DEF Max
<1>10. PICK node : node = SubSeq(segs, 1, k)
    OBVIOUS
<1>11. nearestNodeAtPath(document, pathSegments(path)) = node
    BY <1>1, <1>8, <1>10, Zenon DEF nearestNodeAtPath
<1>12. k \in 0 .. Len(segs) /\ node \in document.nodes
    BY <1>9, <1>10
<1>13. ASSUME NEW m \in 0 .. Len(segs), SubSeq(segs, 1, m) \in document.nodes PROVE m <= k
  <2>1. m \in Deep
      BY <1>13
  <2> HIDE DEF Deep
  <2>2. k >= m /\ k \in Int /\ m \in Int
      BY <1>4, <1>9, <1>12, <2>1
  <2>q. QED
      BY <2>2
<1> HIDE DEF Deep
<1>14. /\ node \in Seq(PathKeys) /\ IsPrefix(node, segs)
       /\ \A other \in Seq(PathKeys) :
              IsPrefix(other, segs) =>
                  /\ other = SubSeq(segs, 1, Len(other)) /\ Len(other) \in 0 .. Len(segs)
                  /\ Len(other) <= k => IsPrefix(other, node)
  <2>1. segs \in Seq(PathKeys) /\ k \in 0 .. Len(segs) /\ node = SubSeq(segs, 1, k)
      BY <1>2, <1>10, <1>12, Zenon
  <2>2. /\ SubSeq(segs, 1, k) \in Seq(PathKeys) /\ IsPrefix(SubSeq(segs, 1, k), segs)
        /\ \A other \in Seq(PathKeys) :
              IsPrefix(other, segs) =>
                  /\ other = SubSeq(segs, 1, Len(other)) /\ Len(other) \in 0 .. Len(segs)
                  /\ Len(other) <= k => IsPrefix(other, SubSeq(segs, 1, k))
      BY <2>1, PrefixParts, Zenon
  <2>q. QED
      BY <2>1, <2>2, Zenon
<1>15. ASSUME NEW other \in document.nodes, IsPrefix(other, segs) PROVE IsPrefix(other, node)
    BY <1>3, <1>13, <1>14, <1>15, Zenon
<1>16. LeadsTo(document, path, node)
    BY <1>2, <1>12, <1>14, <1>15, Zenon DEF LeadsTo
<1>q. QED
    BY <1>11, <1>14, <1>16, Zenon

-----------------------------------------------------------------------------
(* The analysis: its invariant.                                            *)

\* What the parser, or a document that is no mapping, gives rise to.
Notices == [document : Nat, line : Places]

\* The types of the variables both modes use.
AnalysisTypes ==
    /\ mode \in InspectionModes
    /\ parsed \in Seq(ParsedDocuments)
    /\ index \in 0 .. Len(parsed)
    /\ step \in {"documents", "bundle", "locations", "done", "thrown"}
    /\ syntaxErrors \in Seq(Notices) /\ syntaxWarnings \in Seq(Notices)
    /\ documentErrors \in Seq(Notices)

\* A document of the general mode has no findings and none is rejected.
GeneralOnly ==
    /\ documents \in Seq(GeneralDocuments)
    /\ documentErrors = <<>>
    /\ step \in {"documents", "done", "thrown"}

\* A document knows which of the parsed ones it is.
FromOwn(document) ==
    /\ document.index \in 1 .. index
    /\ parsed[document.index] \in Mappings
    /\ parsed[document.index].resource = document.raw

\* The documents are in the order of the source.
InOrder == \A i, j \in DOMAIN documents : i < j => documents[i].index < documents[j].index

\* Before the findings about several documents, none is about an identity.
Unmarked == \A i \in DOMAIN documents : documents[i].findings \in Seq(OwnItems)

\* The finding that marks a duplicate.
AboutIdentity(item) == item.title = "Duplicate resource identity"

\* A document is marked when an earlier one has its identity, with the first of these.
MarkedBy(document, earlier) ==
    /\ (\E item \in Range(document.findings) : AboutIdentity(item)) <=> earlier # {}
    /\ \A item \in Range(document.findings) :
           AboutIdentity(item) => item.other = documents[Min(earlier)].index

\* Every duplicate is marked, and nothing else.
Marked == \A i \in DOMAIN documents : MarkedBy(documents[i], DuplicateOf(i))

\* Where a path leads in the document it is about.
Place(document, path) ==
    [document |-> document.index,
     node |-> nearestNodeAtPath(parsed[document.index], pathSegments(path))]

\* Every finding leads into its own document.
Located ==
    \A i \in DOMAIN documents : \A item \in AllItems(documents[i]) :
        item \in Items /\ item.line = Place(documents[i], item.path)

\* The documents of the kubernetes mode, by how far the analysis has come.
ResourcesOnly ==
    /\ documents \in Seq(ResourceDocuments)
    /\ \A i \in DOMAIN documents : FromOwn(documents[i])
    /\ InOrder
    /\ step \in {"documents", "bundle"} => Unmarked
    /\ step \in {"locations", "done"} => Marked
    /\ step = "done" => Located

\* The invariant of analyzeYaml.
AnalysisInv ==
    /\ AnalysisTypes
    /\ mode = "general" => GeneralOnly
    /\ mode = "kubernetes" => ResourcesOnly

\* A notice of the parser or of the analysis names its document.
LEMMA DiagnosticsType ==
    ASSUME NEW n \in Nat, NEW k \in Nat
    PROVE  Diagnostics(n, k) \in Seq(Notices)
<1>1. PICK one : one = [document |-> n, line |-> [document |-> n, node |-> <<>>]]
    OBVIOUS
<1>2. one \in Notices
    BY <1>1 DEF Notices, Places
<1>3. [i \in 1 .. k |-> one] \in Seq(Notices)
    BY <1>2
<1>q. QED
    BY <1>1, <1>3, Zenon DEF Diagnostics

\* The analysis begins with its invariant.
LEMMA AnalysisStarts == AnalysisInit => AnalysisInv
<1> SUFFICES ASSUME AnalysisInit PROVE AnalysisInv
    OBVIOUS
<1>1. /\ mode \in InspectionModes /\ parsed \in ParsedSources /\ index = 0 /\ documents = <<>>
      /\ syntaxErrors = <<>> /\ syntaxWarnings = <<>> /\ documentErrors = <<>> /\ step = "documents"
    BY Zenon DEF AnalysisInit
<1>2. parsed \in Seq(ParsedDocuments)
    BY <1>1, AnalysisAssumption, Zenon
<1>3. Len(parsed) \in Nat /\ 0 \in 0 .. Len(parsed)
    BY <1>2
<1>4. AnalysisTypes
    BY <1>1, <1>2, <1>3, EmptyAndZero, Zenon DEF AnalysisTypes
<1>5. GeneralOnly
    BY <1>1, EmptyAndZero, Zenon DEF GeneralOnly
<1>6. DOMAIN documents = {}
    BY <1>1
<1>7. /\ \A i \in DOMAIN documents : FromOwn(documents[i])
      /\ InOrder /\ Unmarked
    BY <1>6, Zenon DEF InOrder, Unmarked
<1>8. step \notin {"locations", "done"} /\ step # "done"
    BY <1>1
<1>9. ResourcesOnly
    BY <1>1, <1>7, <1>8, EmptyAndZero, Zenon DEF ResourcesOnly
<1>q. QED
    BY <1>4, <1>5, <1>9, Zenon DEF AnalysisInv

\* What taking a document leaves, and what it may add.
LEMMA TakeTypes ==
    ASSUME AnalysisTypes, TakeDocument
    PROVE  /\ AnalysisTypes' /\ index' = index + 1 /\ index \in Nat
           /\ step = "documents" /\ step' = step /\ mode' = mode /\ parsed' = parsed
           /\ index' \in 1 .. Len(parsed) /\ parsed[index'] \in ParsedDocuments
           /\ mode = "general" => documentErrors' = documentErrors
<1>1. /\ mode \in InspectionModes /\ parsed \in Seq(ParsedDocuments) /\ index \in 0 .. Len(parsed)
      /\ syntaxErrors \in Seq(Notices) /\ syntaxWarnings \in Seq(Notices)
      /\ documentErrors \in Seq(Notices)
    BY Zenon DEF AnalysisTypes
<1>2. /\ step = "documents" /\ index < Len(parsed) /\ index' = index + 1
      /\ mode' = mode /\ parsed' = parsed /\ step' = step
    BY Zenon DEF TakeDocument
<1>3. index \in Nat /\ index' \in Nat /\ index' \in 1 .. Len(parsed) /\ index' \in 0 .. Len(parsed')
      /\ parsed[index'] \in ParsedDocuments
    BY <1>1, <1>2
<1>4. PICK document : document = parsed[index']
    OBVIOUS
<1>5. document.errors \in Nat /\ document.warnings \in Nat
    BY <1>3, <1>4, AnalysisAssumption, Zenon
<1> DEFINE rejected == readable(document) /\ mode = "kubernetes" /\ document.root # "mapping"
<1>6. /\ syntaxErrors' = syntaxErrors \o Diagnostics(index', document.errors)
      /\ syntaxWarnings' = syntaxWarnings \o Diagnostics(index', document.warnings)
      /\ documentErrors' = documentErrors \o If(rejected, Diagnostics(index', 1))
    BY <1>4, Zenon DEF TakeDocument
<1>7. PICK a, b, c : /\ a = Diagnostics(index', document.errors)
                     /\ b = Diagnostics(index', document.warnings)
                     /\ c = If(rejected, Diagnostics(index', 1))
    OBVIOUS
<1>8. 1 \in Nat
    OBVIOUS
<1>9. a \in Seq(Notices) /\ b \in Seq(Notices) /\ c \in Seq(Notices)
    BY <1>3, <1>5, <1>7, <1>8, DiagnosticsType, EmptyAndZero, Zenon DEF If
<1>10. /\ syntaxErrors' \in Seq(Notices) /\ syntaxWarnings' \in Seq(Notices)
       /\ documentErrors' \in Seq(Notices)
  <2>1. /\ syntaxErrors' = syntaxErrors \o a /\ syntaxWarnings' = syntaxWarnings \o b
        /\ documentErrors' = documentErrors \o c
      BY <1>6, <1>7, Zenon
  <2>q. QED
      BY <1>1, <1>9, <2>1
<1>11. step' \in {"documents", "bundle", "locations", "done", "thrown"}
    BY <1>2
<1>12. AnalysisTypes'
    BY <1>1, <1>2, <1>3, <1>10, <1>11, Zenon DEF AnalysisTypes
<1>13. ASSUME mode = "general" PROVE documentErrors' = documentErrors
  <2>1. ~rejected
      BY <1>13
  <2>2. c = <<>>
      BY <1>7, <2>1, Zenon DEF If
  <2>3. documentErrors' = documentErrors \o <<>>
      BY <1>6, <1>7, <2>2, Zenon
  <2>q. QED
      BY <1>1, <2>3
<1>q. QED
    BY <1>2, <1>3, <1>12, <1>13, Zenon

\* A document without errors and with a root is a document of the general mode.
LEMMA TakeGeneral ==
    ASSUME AnalysisTypes, TakeDocument, mode = "general", GeneralOnly
    PROVE  GeneralOnly'
<1>1. /\ index' \in Nat /\ parsed[index'] \in ParsedDocuments /\ documentErrors' = documentErrors
      /\ step' = step
  <2>1. index' = index + 1 /\ index \in Nat
      BY TakeTypes, Zenon
  <2>q. QED
      BY <2>1, TakeTypes
<1>2. PICK document : document = parsed[index']
    OBVIOUS
<1>3. PICK new : new = summarizeGeneralDocument(document, index')
    OBVIOUS
<1>4. documents' = documents \/ documents' = documents \o <<new>>
  <2> DEFINE rejected == readable(document) /\ mode = "kubernetes" /\ document.root # "mapping"
  <2>1. mode # "kubernetes"
      OBVIOUS
  <2>2. documents' = documents \o If(readable(document) /\ ~rejected,
            IF mode = "kubernetes" THEN <<summarizeResource(document.resource, index')>> ELSE <<new>>)
      BY <1>2, <1>3, Zenon DEF TakeDocument
  <2>3. documents' = documents \o <<>> \/ documents' = documents \o <<new>>
      BY <2>1, <2>2, Zenon DEF If
  <2>4. documents \in Seq(GeneralDocuments)
      BY Zenon DEF GeneralOnly
  <2>5. documents \o <<>> = documents
      BY <2>4
  <2>q. QED
      BY <2>3, <2>5, Zenon
<1>5. new \in GeneralDocuments
  <2>1. new = [index |-> index', rootType |-> document.root, findings |-> <<>>]
      BY <1>3, Zenon DEF summarizeGeneralDocument
  <2>2. PICK root, roots : root = document.root /\ roots = {d.root : d \in ParsedDocuments}
      OBVIOUS
  <2>3. root \in roots
      BY <1>1, <1>2, <2>2, Zenon
  <2>4. new \in [index : Nat, rootType : roots, findings : {<<>>}]
      BY <1>1, <2>1, <2>2, <2>3
  <2>q. QED
      BY <2>2, <2>4, Zenon DEF GeneralDocuments
<1>6. documents \in Seq(GeneralDocuments)
    BY Zenon DEF GeneralOnly
<1>7. documents' \in Seq(GeneralDocuments)
  <2>1. documents \o <<new>> \in Seq(GeneralDocuments)
      BY <1>5, <1>6
  <2>q. QED
      BY <1>4, <1>6, <2>1, Zenon
<1>q. QED
    BY <1>1, <1>7, Zenon DEF GeneralOnly

\* A mapping without errors is taken, after the earlier ones.
LEMMA TakeResource ==
    ASSUME AnalysisTypes, TakeDocument, mode = "kubernetes", ResourcesOnly
    PROVE  ResourcesOnly'
<1>1. /\ index' = index + 1 /\ index \in Nat /\ parsed[index'] \in ParsedDocuments
      /\ step = "documents" /\ step' = step /\ parsed' = parsed
    BY TakeTypes, Zenon
<1>2. PICK document, new : document = parsed[index'] /\ new = summarizeResource(document.resource, index')
    OBVIOUS
<1>3. /\ documents \in Seq(ResourceDocuments) /\ InOrder /\ Unmarked
      /\ \A i \in DOMAIN documents : FromOwn(documents[i])
    BY <1>1, Zenon DEF ResourcesOnly
<1>4. documents' = documents \/ (document \in Mappings /\ documents' = documents \o <<new>>)
  <2> DEFINE rejected == readable(document) /\ mode = "kubernetes" /\ document.root # "mapping"
  <2>1. documents' = documents \o If(readable(document) /\ ~rejected,
            IF mode = "kubernetes" THEN <<new>> ELSE <<summarizeGeneralDocument(document, index')>>)
      BY <1>2, Zenon DEF TakeDocument
  <2>2. documents' = documents \o <<>> \/ (document \in Mappings /\ documents' = documents \o <<new>>)
    <3>1. CASE readable(document) /\ ~rejected
      <4>1. document \in Mappings
          BY <1>1, <1>2, <3>1, Zenon DEF Mappings
      <4>2. documents' = documents \o <<new>>
          BY <2>1, <3>1, Zenon DEF If
      <4>q. QED
          BY <4>1, <4>2, Zenon
    <3>2. CASE ~(readable(document) /\ ~rejected)
      <4> HIDE DEF rejected
      <4>1. documents' = documents \o <<>>
          BY <2>1, <3>2, Zenon DEF If
      <4>q. QED
          BY <4>1, Zenon
    <3>q. QED
        BY <3>1, <3>2, Zenon
  <2>3. documents \o <<>> = documents
      BY <1>3
  <2>q. QED
      BY <2>2, <2>3, Zenon
<1>5. step' \notin {"locations", "done"} /\ step' # "done"
    BY <1>1
<1>6. \A i \in DOMAIN documents : /\ documents[i].index \in 1 .. index' /\ parsed[documents[i].index] \in Mappings
                                  /\ parsed[documents[i].index].resource = documents[i].raw
                                  /\ documents[i].index \in 1 .. index
  <2>1. \A k \in 1 .. index : k \in 1 .. index'
      BY <1>1
  <2>q. QED
      BY <1>3, <2>1, Zenon DEF FromOwn
<1>7. CASE documents' = documents
  <2>1. \A i \in DOMAIN documents' : FromOwn(documents[i])'
      BY <1>1, <1>6, <1>7, Zenon DEF FromOwn
  <2>2. InOrder' /\ Unmarked'
      BY <1>3, <1>7, Zenon DEF InOrder, Unmarked
  <2>q. QED
      BY <1>3, <1>5, <1>7, <2>1, <2>2, Zenon DEF ResourcesOnly
<1>8. CASE document \in Mappings /\ documents' = documents \o <<new>>
  <2>1. document.resource \in Resources /\ index' \in Nat
    <3>1. index' \in Nat
        BY <1>1
    <3>q. QED
        BY <1>8, <3>1, Zenon DEF Resources
  <2>2. /\ new \in ResourceDocuments /\ new.index = index' /\ new.raw = document.resource
        /\ new.findings \in Seq(OwnItems)
      BY <1>2, <2>1, SummaryType, Zenon
  <2>3. PICK n : n = Len(documents)
      OBVIOUS
  <2>4. /\ n \in Nat /\ DOMAIN documents = 1 .. n
        /\ documents' \in Seq(ResourceDocuments) /\ DOMAIN documents' = 1 .. n + 1
        /\ \A i \in 1 .. n : documents'[i] = documents[i]
        /\ documents'[n + 1] = new
      BY <1>3, <1>8, <2>2, <2>3
  <2>5. \A i \in 1 .. n + 1 : i \in 1 .. n \/ i = n + 1
      BY <2>4
  <2>6. FromOwn(new)'
    <3>1. index' \in 1 .. index'
        BY <1>1
    <3>q. QED
        BY <1>1, <1>2, <1>8, <2>2, <3>1, Zenon DEF FromOwn
  <2>7. \A i \in 1 .. n : FromOwn(documents[i])'
      BY <1>1, <1>6, <2>4, Zenon DEF FromOwn
  <2>8. \A i \in DOMAIN documents' : FromOwn(documents[i])'
      BY <2>4, <2>5, <2>6, <2>7, Zenon
  <2>9. InOrder'
    <3>1. ASSUME NEW i \in 1 .. n + 1, NEW j \in 1 .. n + 1, i < j
          PROVE  documents'[i].index < documents'[j].index
      <4>1. CASE j = n + 1
        <5>1. i \in 1 .. n
            BY <2>4, <3>1, <4>1
        <5>2. documents'[i] = documents[i] /\ documents[i].index \in 1 .. index
            BY <1>6, <2>4, <5>1, Zenon
        <5>3. documents'[j].index = index + 1
            BY <1>1, <2>2, <2>4, <4>1, Zenon
        <5>4. PICK k : k = documents'[i].index
            OBVIOUS
        <5>5. k \in 1 .. index
            BY <5>2, <5>4
        <5>6. k < index + 1
            BY <1>1, <5>5
        <5>q. QED
            BY <5>3, <5>4, <5>6, Zenon
      <4>2. CASE j \in 1 .. n
        <5>1. i \in 1 .. n
            BY <2>4, <3>1, <4>2
        <5>q. QED
            BY <1>3, <2>4, <3>1, <4>2, <5>1, Zenon DEF InOrder
      <4>q. QED
          BY <2>5, <4>1, <4>2, Zenon
    <3>q. QED
        BY <2>4, <3>1, Zenon DEF InOrder
  <2>10. Unmarked'
      BY <1>3, <2>2, <2>4, <2>5, Zenon DEF Unmarked
  <2>q. QED
      BY <1>5, <2>4, <2>8, <2>9, <2>10, Zenon DEF ResourcesOnly
<1>q. QED
    BY <1>4, <1>7, <1>8, Zenon

-----------------------------------------------------------------------------
(* The analysis: findings about several documents.                         *)

\* What a document keeps when it is given its findings or their locations.
SameResource(a, b) ==
    /\ a.index = b.index /\ a.raw = b.raw
    /\ a.apiVersion = b.apiVersion /\ a.kind = b.kind
    /\ a.name = b.name /\ a.namespace = b.namespace

\* A step changes nothing of the documents but their findings.
SameDocuments ==
    /\ documents \in Seq(ResourceDocuments)
    /\ documents' \in Seq(ResourceDocuments)
    /\ DOMAIN documents' = DOMAIN documents
    /\ \A i \in DOMAIN documents : SameResource(documents'[i], documents[i])

\* Positions of earlier documents are positions.
LEMMA EarlierPositions ==
    ASSUME NEW s, NEW S, s \in Seq(S), NEW i \in DOMAIN s
    PROVE  i \in Nat /\ \A c \in 1 .. i - 1 : c \in DOMAIN s /\ c \in Nat /\ c < i
OBVIOUS

\* The documents that are duplicates stay so.
LEMMA SameDuplicates ==
    ASSUME SameDocuments, NEW i \in DOMAIN documents
    PROVE  DuplicateOf(i)' = DuplicateOf(i)
<1>1. /\ documents \in Seq(ResourceDocuments)
      /\ \A k \in DOMAIN documents : SameResource(documents'[k], documents[k])
    BY Zenon DEF SameDocuments
<1>2. \A c \in 1 .. i - 1 : c \in DOMAIN documents
    BY <1>1, EarlierPositions, Zenon
<1>3. \A k \in DOMAIN documents : /\ Identity(documents'[k]) = Identity(documents[k])
                                  /\ documents'[k].raw.metadataName = documents[k].raw.metadataName
    BY <1>1, Zenon DEF SameResource, Identity
<1>4. ASSUME NEW c \in 1 .. i - 1
      PROVE  (/\ documents'[i].raw.metadataName # "" /\ documents'[c].raw.metadataName # ""
              /\ Identity(documents'[c]) = Identity(documents'[i])) <=>
             (/\ documents[i].raw.metadataName # "" /\ documents[c].raw.metadataName # ""
              /\ Identity(documents[c]) = Identity(documents[i]))
    BY <1>2, <1>3, <1>4, Zenon
<1>5. DuplicateOf(i)' = {c \in 1 .. i - 1 :
          /\ documents'[i].raw.metadataName # "" /\ documents'[c].raw.metadataName # ""
          /\ Identity(documents'[c]) = Identity(documents'[i])}
    BY Zenon DEF DuplicateOf, Identity
<1>6. DuplicateOf(i) = {c \in 1 .. i - 1 :
          /\ documents[i].raw.metadataName # "" /\ documents[c].raw.metadataName # ""
          /\ Identity(documents[c]) = Identity(documents[i])}
    BY Zenon DEF DuplicateOf
<1>q. QED
    BY <1>4, <1>5, <1>6, Zenon

\* What a duplicate's earlier documents are.
LEMMA DuplicateParts ==
    ASSUME documents \in Seq(ResourceDocuments), NEW i \in DOMAIN documents,
           NEW c \in DuplicateOf(i)
    PROVE  /\ c \in Nat /\ c < i /\ c \in DOMAIN documents /\ i \in Nat
           /\ documents[i].raw.metadataName # "" /\ documents[c].raw.metadataName # ""
           /\ Identity(documents[c]) = Identity(documents[i])
<1>1. c \in 1 .. i - 1 /\ documents[i].raw.metadataName # "" /\ documents[c].raw.metadataName # ""
      /\ Identity(documents[c]) = Identity(documents[i])
    BY Zenon DEF DuplicateOf
<1>2. i \in Nat /\ \A d \in 1 .. i - 1 : d \in DOMAIN documents /\ d \in Nat /\ d < i
    BY EarlierPositions, Zenon
<1>q. QED
    BY <1>1, <1>2, Zenon

\* The first of these.
LEMMA FirstDuplicate ==
    ASSUME documents \in Seq(ResourceDocuments), NEW i \in DOMAIN documents, DuplicateOf(i) # {}
    PROVE  /\ Min(DuplicateOf(i)) \in DuplicateOf(i)
           /\ \A c \in DuplicateOf(i) : Min(DuplicateOf(i)) <= c
<1>1. \A c \in DuplicateOf(i) : c \in Nat
    BY DuplicateParts, Zenon
<1>2. PICK D : D = DuplicateOf(i)
    OBVIOUS
<1>3. D \in SUBSET Nat /\ D # {}
    BY <1>1, <1>2, Zenon
<1>4. PICK m \in D : \A c \in D : m <= c
    BY <1>3, LeastNatural
<1>5. Min(D) \in D /\ \A c \in D : Min(D) <= c
    BY <1>4, Zenon DEF Min
<1>q. QED
    BY <1>2, <1>5, Zenon

\* A document with other findings.
LEMMA WithFindings ==
    ASSUME NEW d \in ResourceDocuments, NEW f \in Seq(Items), NEW r, r = [d EXCEPT !.findings = f]
    PROVE  r \in ResourceDocuments /\ r.findings = f /\ SameResource(r, d) /\ r.schema = d.schema
<1>1. /\ d.index \in Nat /\ d.apiVersion \in Words /\ d.kind \in Words /\ d.name \in Words
      /\ d.namespace \in Words /\ d.schema \in Schemas /\ d.raw \in Resources
      /\ r = [index |-> d.index, apiVersion |-> d.apiVersion, kind |-> d.kind, name |-> d.name,
              namespace |-> d.namespace, findings |-> f, schema |-> d.schema, raw |-> d.raw]
    BY DEF ResourceDocuments
<1>2. r \in ResourceDocuments
    BY <1>1 DEF ResourceDocuments
<1>3. /\ r.findings = f /\ r.index = d.index /\ r.apiVersion = d.apiVersion /\ r.kind = d.kind
      /\ r.name = d.name /\ r.namespace = d.namespace /\ r.schema = d.schema /\ r.raw = d.raw
    BY <1>1
<1>q. QED
    BY <1>2, <1>3, Zenon DEF SameResource

\* A finding that is an error.
LEMMA FindingTypeError ==
    ASSUME NEW title \in OwnTitles \cup {"Duplicate resource identity"}, NEW path \in Seq(PathKeys)
    PROVE  finding("error", title, path) \in Items /\ finding("error", title, path).title = title
<1>1. PICK level : level = "error"
    OBVIOUS
<1>2. level \in FindingLevels
    BY <1>1, LevelMembers, Zenon
<1>3. finding(level, title, path) \in Items /\ finding(level, title, path).title = title
    BY <1>2, FindingType, ZenonT(40)
<1>q. QED
    BY <1>1, <1>3

\* The finding about an identity.
LEMMA DuplicateType ==
    ASSUME documents \in Seq(ResourceDocuments), NEW i \in DOMAIN documents
    PROVE  /\ DuplicateFinding(i) \in Seq(Items)
           /\ DuplicateOf(i) = {} => DuplicateFinding(i) = <<>>
           /\ DuplicateOf(i) # {} => \E item \in Items :
                  /\ DuplicateFinding(i) = <<item>> /\ AboutIdentity(item)
                  /\ item.other = documents[Min(DuplicateOf(i))].index
<1>1. CASE DuplicateOf(i) = {}
  <2>1. DuplicateFinding(i) = <<>>
      BY <1>1, Zenon DEF DuplicateFinding, If
  <2>q. QED
      BY <1>1, <2>1, EmptyAndZero, Zenon
<1>2. CASE DuplicateOf(i) # {}
  <2>1. PICK n, title, path, base : /\ n = documents[Min(DuplicateOf(i))].index
                                    /\ title = "Duplicate resource identity" /\ path = <<"metadata", "name">>
                                    /\ base = finding("error", title, path)
      OBVIOUS
  <2>2. n \in Nat
    <3>1. Min(DuplicateOf(i)) \in DOMAIN documents
        BY <1>2, FirstDuplicate, DuplicateParts, Zenon
    <3>2. documents[Min(DuplicateOf(i))] \in ResourceDocuments
        BY <3>1
    <3>3. \A d \in ResourceDocuments : d.index \in Nat
        BY DEF ResourceDocuments
    <3>q. QED
        BY <2>1, <3>2, <3>3, Zenon
  <2>3. base \in Items /\ base.title = title
    <3>1. title \in OwnTitles \cup {"Duplicate resource identity"}
        BY <2>1
    <3>2. path \in Seq(PathKeys)
        BY <2>1, RulePaths, Zenon
    <3>q. QED
        BY <2>1, <3>1, <3>2, FindingTypeError, Zenon
  <2>4. PICK item : item = [base EXCEPT !.other = n]
      OBVIOUS
  <2>5. item \in Items /\ item.title = base.title /\ item.other = n
      BY <2>2, <2>3, <2>4 DEF Items
  <2>6. DuplicateFinding(i) = <<item>>
      BY <1>2, <2>1, <2>4, Zenon DEF DuplicateFinding, If
  <2>7. <<item>> \in Seq(Items)
    <3> SUFFICES ASSUME NEW S, item \in S PROVE <<item>> \in Seq(S)
        BY <2>5
    <3>q. QED
        OBVIOUS
  <2>q. QED
      BY <1>2, <2>1, <2>3, <2>5, <2>6, <2>7, Zenon DEF AboutIdentity
<1>q. QED
    BY <1>1, <1>2, Zenon

\* Findings of its own document behind others.
LEMMA BehindOthers ==
    ASSUME NEW S, NEW O \in SUBSET S, NEW a \in Seq(S), NEW b \in Seq(O), NEW c \in Seq(O),
           NEW v, v = a \o b \o c
    PROVE  /\ v \in Seq(S)
           /\ \A j \in DOMAIN v : v[j] \in O \/ (j \in DOMAIN a /\ v[j] = a[j])
           /\ \A j \in DOMAIN a : j \in DOMAIN v /\ v[j] = a[j]
<1>1. b \in Seq(S) /\ c \in Seq(S)
    OBVIOUS
<1>2. PICK w : w = b \o c
    OBVIOUS
<1>3. w \in Seq(O) /\ w \in Seq(S)
    BY <1>1, <1>2
<1>4. v = a \o w
    BY <1>1, <1>2, SMTT(40)
<1>5. /\ v \in Seq(S) /\ Len(a) \in Nat /\ Len(w) \in Nat
      /\ DOMAIN v = 1 .. Len(a) + Len(w) /\ DOMAIN a = 1 .. Len(a) /\ DOMAIN w = 1 .. Len(w)
      /\ \A j \in 1 .. Len(a) : v[j] = a[j]
      /\ \A j \in 1 .. Len(w) : v[Len(a) + j] = w[j] /\ w[j] \in O
    BY <1>3, <1>4
<1>6. ASSUME NEW j \in DOMAIN v, j \notin DOMAIN a PROVE v[j] \in O
  <2>1. j - Len(a) \in 1 .. Len(w) /\ Len(a) + (j - Len(a)) = j
      BY <1>5, <1>6
  <2>q. QED
      BY <1>5, <2>1, Zenon
<1>7. \A j \in DOMAIN a : j \in DOMAIN v
    BY <1>5
<1>q. QED
    BY <1>5, <1>6, <1>7, Zenon

\* The findings about several documents: a document is marked as a duplicate once, when it is one.
LEMMA BundleStep ==
    ASSUME AnalysisTypes, ResourcesOnly, addBundleFindings
    PROVE  SameDocuments /\ Marked'
<1>1. /\ documents \in Seq(ResourceDocuments) /\ \A i \in DOMAIN documents : FromOwn(documents[i])
      /\ Unmarked
  <2>1. step = "bundle"
      BY Zenon DEF addBundleFindings
  <2>2. step \in {"documents", "bundle"}
      BY <2>1
  <2>q. QED
      BY <2>2, Zenon DEF ResourcesOnly
<1>2. documents' = [i \in DOMAIN documents |->
                        [documents[i] EXCEPT !.findings =
                            DuplicateFinding(i) \o documents[i].findings \o ServiceFindings(documents[i])]]
    BY Zenon DEF addBundleFindings
<1>3. \A i \in DOMAIN documents : documents[i] \in ResourceDocuments
    BY <1>1
<1>4. OwnItems \in SUBSET Items /\ \A item \in OwnItems : ~AboutIdentity(item)
    BY Zenon DEF OwnItems, AboutIdentity
<1>5. ASSUME NEW i \in DOMAIN documents
      PROVE  /\ documents'[i] \in ResourceDocuments
             /\ SameResource(documents'[i], documents[i])
             /\ \A item \in Range(documents'[i].findings) :
                    AboutIdentity(item) => item.other = documents[Min(DuplicateOf(i))].index
             /\ (\E item \in Range(documents'[i].findings) : AboutIdentity(item)) <=> DuplicateOf(i) # {}
  <2>1. PICK d, a, b, c, v, r :
            /\ d = documents[i] /\ a = DuplicateFinding(i) /\ b = documents[i].findings
            /\ c = ServiceFindings(documents[i]) /\ v = a \o b \o c
            /\ r = [d EXCEPT !.findings = v]
      OBVIOUS
  <2>2. documents'[i] = r
      BY <1>2, <1>5, <2>1, Zenon
  <2>3. d \in ResourceDocuments /\ b \in Seq(OwnItems) /\ a \in Seq(Items)
      BY <1>1, <1>3, <1>5, <2>1, DuplicateType, Zenon DEF Unmarked
  <2>4. c \in Seq(OwnItems)
    <3>1. d.raw \in Resources
      <4>1. \A x \in ResourceDocuments : x.raw \in Resources
          BY DEF ResourceDocuments
      <4>q. QED
          BY <2>3, <4>1, Zenon
    <3>q. QED
        BY <2>1, <3>1, ServiceType, Zenon
  <2>5. /\ v \in Seq(Items)
        /\ \A j \in DOMAIN v : v[j] \in OwnItems \/ (j \in DOMAIN a /\ v[j] = a[j])
        /\ \A j \in DOMAIN a : j \in DOMAIN v /\ v[j] = a[j]
    <3>1. PICK S, O : S = Items /\ O = OwnItems
        OBVIOUS
    <3>2. O \in SUBSET S /\ a \in Seq(S) /\ b \in Seq(O) /\ c \in Seq(O) /\ v = a \o b \o c
        BY <1>4, <2>1, <2>3, <2>4, <3>1, Zenon
    <3>3. /\ v \in Seq(S)
          /\ \A j \in DOMAIN v : v[j] \in O \/ (j \in DOMAIN a /\ v[j] = a[j])
          /\ \A j \in DOMAIN a : j \in DOMAIN v /\ v[j] = a[j]
        BY <3>2, BehindOthers
    <3>q. QED
        BY <3>1, <3>3, Zenon
  <2>6. r \in ResourceDocuments /\ r.findings = v /\ SameResource(r, d)
    <3>1. PICK S : S = Seq(Items)
        OBVIOUS
    <3>2. v \in Seq(Items) /\ d \in ResourceDocuments /\ r = [d EXCEPT !.findings = v]
        BY <2>1, <2>3, <2>5, Zenon
    <3>q. QED
        BY <3>2, WithFindings
  <2>7. ASSUME NEW item \in Range(v), AboutIdentity(item)
        PROVE  item.other = documents[Min(DuplicateOf(i))].index /\ DuplicateOf(i) # {}
    <3>1. PICK j \in DOMAIN v : item = v[j]
        BY <2>7, Zenon DEF Range
    <3>2. j \in DOMAIN a /\ item = a[j]
        BY <1>4, <2>5, <2>7, <3>1, Zenon
    <3>3. DuplicateOf(i) # {}
      <4>1. SUFFICES ASSUME DuplicateOf(i) = {} PROVE FALSE
          OBVIOUS
      <4>2. a = <<>>
          BY <1>1, <2>1, <4>1, DuplicateType, Zenon
      <4>3. DOMAIN a = {}
          BY <4>2
      <4>q. QED
          BY <3>2, <4>3, Zenon
    <3>4. PICK one \in Items : a = <<one>> /\ one.other = documents[Min(DuplicateOf(i))].index
        BY <1>1, <2>1, <3>3, DuplicateType, Zenon
    <3>5. a[j] = one
        BY <3>2, <3>4
    <3>q. QED
        BY <3>2, <3>3, <3>4, <3>5, Zenon
  <2>8. ASSUME DuplicateOf(i) # {} PROVE \E item \in Range(v) : AboutIdentity(item)
    <3>1. PICK one \in Items : a = <<one>> /\ AboutIdentity(one)
        BY <1>1, <2>1, <2>8, DuplicateType, Zenon
    <3>2. 1 \in DOMAIN a /\ a[1] = one
        BY <3>1
    <3>3. 1 \in DOMAIN v /\ v[1] = one
        BY <2>5, <3>2, Zenon
    <3>q. QED
        BY <3>1, <3>3, Zenon DEF Range
  <2>q. QED
      BY <2>1, <2>2, <2>6, <2>7, <2>8, Zenon
<1>6. DOMAIN documents' = DOMAIN documents
    BY <1>2, Zenon
<1>7. documents' \in Seq(ResourceDocuments)
  <2>1. PICK n : n = Len(documents)
      OBVIOUS
  <2>2. n \in Nat /\ DOMAIN documents = 1 .. n
      BY <1>1, <2>1
  <2>3. PICK F, R, new :
            /\ R = ResourceDocuments /\ new = documents'
            /\ F = [i \in DOMAIN documents |->
                       [documents[i] EXCEPT !.findings =
                           DuplicateFinding(i) \o documents[i].findings \o ServiceFindings(documents[i])]]
      OBVIOUS
  <2>4. new = F /\ DOMAIN F = 1 .. n /\ F = [i \in 1 .. n |-> F[i]] /\ \A i \in 1 .. n : F[i] \in R
      BY <1>2, <1>5, <2>2, <2>3, Zenon
  <2>5. new \in Seq(R)
      BY <2>2, <2>4
  <2>q. QED
      BY <2>3, <2>5, Zenon
<1>8. SameDocuments
    BY <1>1, <1>5, <1>6, <1>7, Zenon DEF SameDocuments
<1>9. ASSUME NEW i \in DOMAIN documents PROVE MarkedBy(documents[i], DuplicateOf(i))'
  <2>1. DuplicateOf(i)' = DuplicateOf(i)
      BY <1>8, SameDuplicates, Zenon
  <2>2. DuplicateOf(i) # {} =>
            documents'[Min(DuplicateOf(i))].index = documents[Min(DuplicateOf(i))].index
    <3>1. ASSUME DuplicateOf(i) # {} PROVE Min(DuplicateOf(i)) \in DOMAIN documents
        BY <1>1, <3>1, FirstDuplicate, DuplicateParts, Zenon
    <3>q. QED
        BY <1>5, <3>1, Zenon DEF SameResource
  <2>3. \A item \in Range(documents'[i].findings) :
            AboutIdentity(item) => DuplicateOf(i) # {}
      BY <1>5, Zenon
  <2>4. \A item \in Range(documents'[i].findings) :
            AboutIdentity(item) => item.other = documents'[Min(DuplicateOf(i)')].index
      BY <1>5, <2>1, <2>2, <2>3, Zenon
  <2>q. QED
      BY <1>5, <2>1, <2>4, Zenon DEF MarkedBy, AboutIdentity, Range, Min
<1>10. Marked'
    BY <1>6, <1>9, Zenon DEF Marked
<1>q. QED
    BY <1>8, <1>10

-----------------------------------------------------------------------------
(* The analysis: locations.                                                *)

\* A finding with its location is what it was.
SameFinding(a, b) ==
    a.level = b.level /\ a.title = b.title /\ a.path = b.path /\ a.other = b.other

\* Findings are located one by one.
LEMMA LocateAllParts ==
    ASSUME NEW d, d.index \in Nat, parsed[d.index] \in Mappings, NEW items \in Seq(Items)
    PROVE  /\ LocateAll(items, d) \in Seq(Items)
           /\ DOMAIN LocateAll(items, d) = DOMAIN items
           /\ Len(LocateAll(items, d)) = Len(items)
           /\ \A j \in DOMAIN items : /\ SameFinding(LocateAll(items, d)[j], items[j])
                                      /\ LocateAll(items, d)[j].line = Place(d, items[j].path)
<1>1. ASSUME NEW item \in Items
      PROVE  /\ Locate(item, d) \in Items /\ SameFinding(Locate(item, d), item)
             /\ Locate(item, d).line = Place(d, item.path)
  <2>1. PICK place, new : place = Place(d, item.path) /\ new = [item EXCEPT !.line = place]
      OBVIOUS
  <2>2. item.path \in Seq(PathKeys)
      BY <1>1 DEF Items
  <2>3. PICK node : node = nearestNodeAtPath(parsed[d.index], pathSegments(item.path))
      OBVIOUS
  <2>4. node \in Seq(PathKeys)
      BY <2>2, <2>3, Nearest, Zenon
  <2>5. place = [document |-> d.index, node |-> node]
      BY <2>1, <2>3, Zenon DEF Place
  <2>6. place \in Places
      BY <2>4, <2>5 DEF Places
  <2>7. /\ new \in Items /\ new.line = place /\ new.level = item.level /\ new.title = item.title
        /\ new.path = item.path /\ new.other = item.other
      BY <1>1, <2>1, <2>6 DEF Items
  <2>8. new = Locate(item, d)
      BY <2>1, Zenon DEF Locate, Place
  <2>q. QED
      BY <2>1, <2>7, <2>8, Zenon DEF SameFinding
<1>2. PICK n : n = Len(items)
    OBVIOUS
<1>3. n \in Nat /\ DOMAIN items = 1 .. n /\ \A j \in 1 .. n : items[j] \in Items
    BY <1>2
<1>4. PICK all : all = LocateAll(items, d)
    OBVIOUS
<1>5. all = [j \in 1 .. n |-> Locate(items[j], d)]
    BY <1>3, <1>4, Zenon DEF LocateAll
<1>6. \A j \in 1 .. n : Locate(items[j], d) \in Items
    BY <1>1, <1>3, Zenon
<1>7. all \in Seq(Items) /\ DOMAIN all = 1 .. n /\ Len(all) = n /\ \A j \in 1 .. n : all[j] = Locate(items[j], d)
    BY <1>3, <1>5, <1>6
<1>q. QED
    BY <1>1, <1>2, <1>3, <1>4, <1>7, Zenon

\* A mismatch stays an error when it is located.
LEMMA LocatedMismatches ==
    ASSUME NEW a \in Seq(Items), NEW b \in Seq(Mismatches), DOMAIN a = DOMAIN b,
           \A j \in DOMAIN b : a[j].level = b[j].level
    PROVE  a \in Seq(Mismatches)
<1>1. PICK n : n = Len(a)
    OBVIOUS
<1>2. n \in Nat /\ DOMAIN a = 1 .. n /\ \A j \in 1 .. n : a[j] \in Items
    BY <1>1
<1>3. \A j \in DOMAIN b : b[j] \in Mismatches
    OBVIOUS
<1>4. \A j \in 1 .. n : a[j] \in Mismatches
    BY <1>2, <1>3, Zenon DEF Mismatches
<1>5. a = [j \in 1 .. n |-> a[j]]
    BY <1>1, <1>2
<1>q. QED
    BY <1>2, <1>4, <1>5

\* The locations: every finding and every mismatch gets its own, and keeps what it says.
LEMMA LocateStep ==
    ASSUME AnalysisTypes, ResourcesOnly, attachFindingLocations
    PROVE  SameDocuments /\ Marked' /\ Located'
<1>1. /\ documents \in Seq(ResourceDocuments) /\ \A i \in DOMAIN documents : FromOwn(documents[i])
      /\ Marked /\ parsed' = parsed
  <2>1. step = "locations" /\ parsed' = parsed
      BY Zenon DEF attachFindingLocations
  <2>2. step \in {"locations", "done"}
      BY <2>1
  <2>q. QED
      BY <2>1, <2>2, Zenon DEF ResourcesOnly
<1> DEFINE New(i) == [documents[i] EXCEPT !.findings = LocateAll(@, documents[i]),
                                          !.schema.errors = LocateAll(@, documents[i])]
<1>2. documents' = [i \in DOMAIN documents |-> New(i)]
    BY Zenon DEF attachFindingLocations
<1>3. \A i \in DOMAIN documents : documents[i] \in ResourceDocuments
    BY <1>1
<1>4. ASSUME NEW i \in DOMAIN documents
      PROVE  /\ documents'[i] \in ResourceDocuments
             /\ SameResource(documents'[i], documents[i])
             /\ DOMAIN documents'[i].findings = DOMAIN documents[i].findings
             /\ \A j \in DOMAIN documents[i].findings :
                    SameFinding(documents'[i].findings[j], documents[i].findings[j])
             /\ \A item \in AllItems(documents'[i]) :
                    item \in Items /\ item.line = Place(documents[i], item.path)
  <2>1. PICK d, r : d = documents[i] /\ r = New(i)
      OBVIOUS
  <2>2. documents'[i] = r
      BY <1>2, <1>4, <2>1, Zenon
  <2>3. d \in ResourceDocuments /\ FromOwn(d)
      BY <1>1, <1>3, <1>4, <2>1, Zenon
  <2>4. PICK schema : schema = d.schema
      OBVIOUS
  <2>5. /\ d.index \in Nat /\ d.apiVersion \in Words /\ d.kind \in Words /\ d.name \in Words
        /\ d.namespace \in Words /\ d.findings \in Seq(Items) /\ schema \in Schemas /\ d.raw \in Resources
      BY <2>3, <2>4 DEF ResourceDocuments
  <2>6. parsed[d.index] \in Mappings
      BY <2>3, Zenon DEF FromOwn
  <2>7. /\ SchemaFits(schema) /\ schema.errors \in Seq(Mismatches)
        /\ schema.status \in {"valid", "invalid", "unsupported", "schema-unavailable", "not-evaluated"}
        /\ schema.status # "invalid" => schema.errors = <<>>
        /\ schema = [status |-> schema.status, errors |-> schema.errors]
    <3>1. SchemaFits(schema)
        BY <2>5, Zenon DEF Schemas
    <3>q. QED
        BY <3>1, Zenon DEF SchemaFits
  <2>8. schema.errors \in Seq(Items)
    <3>1. PICK S, M, e : S = Items /\ M = Mismatches /\ e = schema.errors
        OBVIOUS
    <3>2. e \in Seq(M) /\ \A x \in M : x \in S
        BY <2>7, <3>1, Zenon DEF Mismatches
    <3>3. e \in Seq(S)
        BY <3>2
    <3>q. QED
        BY <3>1, <3>3, Zenon
  <2>9. PICK f, g : f = LocateAll(d.findings, d) /\ g = LocateAll(schema.errors, d)
      OBVIOUS
  <2>10. /\ f \in Seq(Items) /\ DOMAIN f = DOMAIN d.findings
         /\ \A j \in DOMAIN d.findings : /\ SameFinding(f[j], d.findings[j])
                                         /\ f[j].line = Place(d, d.findings[j].path)
      BY <2>5, <2>6, <2>9, LocateAllParts, Zenon
  <2>11. /\ g \in Seq(Items) /\ DOMAIN g = DOMAIN schema.errors /\ Len(g) = Len(schema.errors)
         /\ \A j \in DOMAIN schema.errors : /\ SameFinding(g[j], schema.errors[j])
                                            /\ g[j].line = Place(d, schema.errors[j].path)
      BY <2>5, <2>6, <2>8, <2>9, LocateAllParts, Zenon
  <2>12. g \in Seq(Mismatches)
    <3>1. \A j \in DOMAIN schema.errors : g[j].level = schema.errors[j].level
        BY <2>11, Zenon DEF SameFinding
    <3>q. QED
        BY <2>7, <2>11, <3>1, LocatedMismatches, Zenon
  <2>13. PICK located : located = [status |-> schema.status, errors |-> g]
      OBVIOUS
  <2>14. located = [schema EXCEPT !.errors = g]
      BY <2>7, <2>13
  <2>15. located \in Schemas
    <3>1. located.status = schema.status /\ located.errors = g
        BY <2>13
    <3>2. schema.status # "invalid" => g = <<>>
      <4>1. ASSUME schema.errors = <<>> PROVE g = <<>>
        <5>1. Len(g) = 0
            BY <2>11, <4>1
        <5>q. QED
            BY <2>11, <5>1
      <4>q. QED
          BY <2>7, <4>1, Zenon
    <3>3. SchemaFits(located)
        BY <2>7, <2>12, <2>13, <3>1, <3>2, Zenon DEF SchemaFits
    <3>4. located \in [status : {"valid", "invalid", "unsupported", "schema-unavailable", "not-evaluated"},
                       errors : Seq(Mismatches)]
        BY <2>7, <2>12, <2>13
    <3>q. QED
        BY <3>3, <3>4, Zenon DEF Schemas
  <2>16. r = [index |-> d.index, apiVersion |-> d.apiVersion, kind |-> d.kind, name |-> d.name,
              namespace |-> d.namespace, findings |-> f, schema |-> located, raw |-> d.raw]
    <3>1. r = [d EXCEPT !.findings = LocateAll(@, d), !.schema.errors = LocateAll(@, d)]
        BY <2>1, Zenon
    <3>2. r = [d EXCEPT !.findings = f, !.schema = located]
        BY <2>3, <2>4, <2>9, <2>14, <3>1 DEF ResourceDocuments
    <3>q. QED
        BY <2>3, <3>2 DEF ResourceDocuments
  <2>17. /\ r.index = d.index /\ r.apiVersion = d.apiVersion /\ r.kind = d.kind /\ r.name = d.name
         /\ r.namespace = d.namespace /\ r.findings = f /\ r.schema = located /\ r.raw = d.raw
      BY <2>16
  <2>18. r \in ResourceDocuments
      BY <2>5, <2>10, <2>15, <2>16 DEF ResourceDocuments
  <2>19. SameResource(r, d)
      BY <2>17, Zenon DEF SameResource
  <2>20. ASSUME NEW item \in AllItems(r) PROVE item \in Items /\ item.line = Place(d, item.path)
    <3>1. r.schema.errors = g
        BY <2>13, <2>17
    <3>2. CASE item \in Range(f)
      <4>1. PICK j \in DOMAIN f : item = f[j]
          BY <3>2, Zenon DEF Range
      <4>2. item \in Items
          BY <2>10, <4>1
      <4>q. QED
          BY <2>10, <4>1, <4>2, Zenon DEF SameFinding
    <3>3. CASE item \in Range(g)
      <4>1. PICK j \in DOMAIN g : item = g[j]
          BY <3>3, Zenon DEF Range
      <4>2. item \in Items
          BY <2>11, <4>1
      <4>q. QED
          BY <2>11, <4>1, <4>2, Zenon DEF SameFinding
    <3>q. QED
        BY <2>17, <2>20, <3>1, <3>2, <3>3, Zenon DEF AllItems
  <2>q. QED
      BY <2>1, <2>2, <2>10, <2>17, <2>18, <2>19, <2>20, Zenon
<1>5. DOMAIN documents' = DOMAIN documents
    BY <1>2, Zenon
<1>6. documents' \in Seq(ResourceDocuments)
  <2>1. PICK n, R, new : n = Len(documents) /\ R = ResourceDocuments /\ new = documents'
      OBVIOUS
  <2>2. n \in Nat /\ DOMAIN documents = 1 .. n
      BY <1>1, <2>1
  <2> HIDE DEF New
  <2>3. new = [i \in 1 .. n |-> New(i)] /\ \A i \in 1 .. n : New(i) \in R
      BY <1>2, <1>4, <2>1, <2>2, Zenon
  <2>4. new \in Seq(R)
      BY <2>2, <2>3
  <2>q. QED
      BY <2>1, <2>4, Zenon
<1> HIDE DEF New
<1>7. SameDocuments
    BY <1>1, <1>4, <1>5, <1>6, Zenon DEF SameDocuments
<1>8. ASSUME NEW i \in DOMAIN documents PROVE MarkedBy(documents[i], DuplicateOf(i))'
  <2>1. DuplicateOf(i)' = DuplicateOf(i)
      BY <1>7, SameDuplicates, Zenon
  <2>2. MarkedBy(documents[i], DuplicateOf(i))
      BY <1>1, <1>8, Zenon DEF Marked
  <2>3. DuplicateOf(i) # {} =>
            documents'[Min(DuplicateOf(i))].index = documents[Min(DuplicateOf(i))].index
    <3>1. ASSUME DuplicateOf(i) # {} PROVE Min(DuplicateOf(i)) \in DOMAIN documents
        BY <1>1, <3>1, FirstDuplicate, DuplicateParts, Zenon
    <3>q. QED
        BY <1>4, <3>1, Zenon DEF SameResource
  <2>4. PICK a, b : a = documents'[i].findings /\ b = documents[i].findings
      OBVIOUS
  <2>5. DOMAIN a = DOMAIN b /\ \A j \in DOMAIN b : a[j].title = b[j].title /\ a[j].other = b[j].other
      BY <1>4, <1>8, <2>4, Zenon DEF SameFinding
  <2>6. /\ (\E item \in Range(a) : AboutIdentity(item)) <=> (\E item \in Range(b) : AboutIdentity(item))
        /\ \A item \in Range(a) : AboutIdentity(item) =>
               \E old \in Range(b) : AboutIdentity(old) /\ old.other = item.other
      BY <2>5, ZenonT(30) DEF Range, AboutIdentity
  <2>7. /\ (\E item \in Range(b) : AboutIdentity(item)) <=> DuplicateOf(i) # {}
        /\ \A item \in Range(b) :
               AboutIdentity(item) => item.other = documents[Min(DuplicateOf(i))].index
      BY <2>2, <2>4, Zenon DEF MarkedBy
  <2>8. \A item \in Range(a) : AboutIdentity(item) => item.other = documents'[Min(DuplicateOf(i)')].index
      BY <2>1, <2>3, <2>6, <2>7, Zenon
  <2>9. (\E item \in Range(a) : AboutIdentity(item)) <=> DuplicateOf(i)' # {}
      BY <2>1, <2>6, <2>7, Zenon
  <2>q. QED
      BY <2>4, <2>8, <2>9, Zenon DEF MarkedBy, AboutIdentity, Range, Min
<1>9. Marked'
    BY <1>5, <1>8, Zenon DEF Marked
<1>10. ASSUME NEW i \in DOMAIN documents', NEW item \in AllItems(documents'[i])
       PROVE  item \in Items /\ item.line = Place(documents[i], item.path)'
  <2>1. item \in Items /\ item.line = Place(documents[i], item.path)
      BY <1>4, <1>5, <1>10, Zenon
  <2>2. documents'[i].index = documents[i].index
      BY <1>4, <1>5, <1>10, Zenon DEF SameResource
  <2>q. QED
      BY <1>1, <2>1, <2>2, Zenon DEF Place
<1>11. Located'
    BY <1>10, Zenon DEF Located, AllItems, Range
<1>q. QED
    BY <1>7, <1>9, <1>11

\* The documents keep their place in the source.
LEMMA SamePlaces ==
    ASSUME SameDocuments, \A i \in DOMAIN documents : FromOwn(documents[i]), InOrder,
           parsed' = parsed, index' = index
    PROVE  (\A i \in DOMAIN documents' : FromOwn(documents[i])') /\ InOrder'
<1>1. /\ DOMAIN documents' = DOMAIN documents
      /\ \A i \in DOMAIN documents : /\ documents'[i].index = documents[i].index
                                     /\ documents'[i].raw = documents[i].raw
    BY Zenon DEF SameDocuments, SameResource
<1>2. \A i \in DOMAIN documents' : FromOwn(documents[i])'
    BY <1>1, Zenon DEF FromOwn
<1>3. InOrder'
    BY <1>1, Zenon DEF InOrder
<1>q. QED
    BY <1>2, <1>3, Zenon

\* What a step after the documents leaves alone.
LEMMA LaterTypes ==
    ASSUME AnalysisTypes, ToJSThrows \/ DocumentsTaken \/ addBundleFindings \/ attachFindingLocations
    PROVE  AnalysisTypes' /\ mode' = mode /\ parsed' = parsed /\ index' = index
<1>1. /\ mode' = mode /\ parsed' = parsed /\ index' = index /\ syntaxErrors' = syntaxErrors
      /\ syntaxWarnings' = syntaxWarnings /\ documentErrors' = documentErrors
      /\ step' \in {"thrown", "bundle", "locations", "done"}
    BY DEF ToJSThrows, DocumentsTaken, addBundleFindings, attachFindingLocations
<1>2. step' \in {"documents", "bundle", "locations", "done", "thrown"}
    BY <1>1
<1>q. QED
    BY <1>1, <1>2, Zenon DEF AnalysisTypes

\* AnalysisInv is inductive.
LEMMA AnalysisStep == AnalysisInv /\ [AnalysisNext]_analysisVars => AnalysisInv'
<1> SUFFICES ASSUME AnalysisInv, [AnalysisNext]_analysisVars PROVE AnalysisInv'
    OBVIOUS
<1>1. AnalysisTypes /\ (mode = "general" => GeneralOnly) /\ (mode = "kubernetes" => ResourcesOnly)
    BY Zenon DEF AnalysisInv
<1>2. mode = "kubernetes" \/ mode = "general"
    BY <1>1 DEF AnalysisTypes, InspectionModes
<1>3. "kubernetes" # "general"
    OBVIOUS
<1>4. CASE TakeDocument
    BY <1>1, <1>4, TakeTypes, TakeGeneral, TakeResource, Zenon DEF AnalysisInv
<1>5. CASE ToJSThrows \/ DocumentsTaken
  <2>1. /\ AnalysisTypes' /\ mode' = mode /\ parsed' = parsed /\ index' = index
        /\ documents' = documents /\ documentErrors' = documentErrors /\ step = "documents"
        /\ step' = "thrown" \/ step' = IF mode = "kubernetes" THEN "bundle" ELSE "done"
      BY <1>1, <1>5, LaterTypes, Zenon DEF ToJSThrows, DocumentsTaken
  <2>2. CASE mode = "general"
    <3>1. step' \in {"documents", "done", "thrown"}
        BY <2>1, <2>2
    <3>2. GeneralOnly'
        BY <1>1, <2>1, <2>2, <3>1, Zenon DEF GeneralOnly
    <3>q. QED
        BY <1>3, <2>1, <2>2, <3>2, Zenon DEF AnalysisInv
  <2>3. CASE mode = "kubernetes"
    <3>1. step' \notin {"locations", "done"} /\ step' # "done" /\ step \in {"documents", "bundle"}
        BY <2>1, <2>3
    <3>2. /\ documents \in Seq(ResourceDocuments) /\ \A i \in DOMAIN documents : FromOwn(documents[i])
          /\ InOrder /\ Unmarked
        BY <1>1, <2>3, <3>1, Zenon DEF ResourcesOnly
    <3>3. \A i \in DOMAIN documents' : FromOwn(documents[i])'
        BY <2>1, <3>2, Zenon DEF FromOwn
    <3>4. InOrder' /\ Unmarked'
        BY <2>1, <3>2, Zenon DEF InOrder, Unmarked
    <3>5. ResourcesOnly'
        BY <2>1, <3>1, <3>2, <3>3, <3>4, Zenon DEF ResourcesOnly
    <3>q. QED
        BY <1>3, <2>1, <2>3, <3>5, Zenon DEF AnalysisInv
  <2>q. QED
      BY <1>2, <2>2, <2>3, Zenon
<1>6. ASSUME addBundleFindings \/ attachFindingLocations PROVE mode = "kubernetes"
  <2>1. step = "bundle" \/ step = "locations"
      BY <1>6, Zenon DEF addBundleFindings, attachFindingLocations
  <2>2. step \notin {"documents", "done", "thrown"}
      BY <2>1
  <2>q. QED
      BY <1>1, <1>2, <2>2, Zenon DEF GeneralOnly
<1>7. CASE addBundleFindings
  <2>1. AnalysisTypes' /\ mode' = mode /\ parsed' = parsed /\ index' = index
      BY <1>1, <1>7, LaterTypes, Zenon
  <2>2. ResourcesOnly /\ mode = "kubernetes"
      BY <1>1, <1>6, <1>7, Zenon
  <2>3. SameDocuments /\ Marked'
      BY <1>1, <1>7, <2>2, BundleStep, Zenon
  <2>4. (\A i \in DOMAIN documents' : FromOwn(documents[i])') /\ InOrder'
      BY <2>1, <2>2, <2>3, SamePlaces, Zenon DEF ResourcesOnly
  <2>5. step' = "locations"
      BY <1>7, Zenon DEF addBundleFindings
  <2>6. step' \notin {"documents", "bundle"} /\ step' # "done"
      BY <2>5
  <2>7. documents' \in Seq(ResourceDocuments)
      BY <2>3, Zenon DEF SameDocuments
  <2>8. ResourcesOnly'
      BY <2>3, <2>4, <2>6, <2>7, Zenon DEF ResourcesOnly
  <2>q. QED
      BY <1>3, <2>1, <2>2, <2>8, Zenon DEF AnalysisInv
<1>8. CASE attachFindingLocations
  <2>1. AnalysisTypes' /\ mode' = mode /\ parsed' = parsed /\ index' = index
      BY <1>1, <1>8, LaterTypes, Zenon
  <2>2. ResourcesOnly /\ mode = "kubernetes"
      BY <1>1, <1>6, <1>8, Zenon
  <2>3. SameDocuments /\ Marked' /\ Located'
      BY <1>1, <1>8, <2>2, LocateStep, Zenon
  <2>4. (\A i \in DOMAIN documents' : FromOwn(documents[i])') /\ InOrder'
      BY <2>1, <2>2, <2>3, SamePlaces, Zenon DEF ResourcesOnly
  <2>5. step' = "done"
      BY <1>8, Zenon DEF attachFindingLocations
  <2>6. step' \notin {"documents", "bundle"}
      BY <2>5
  <2>7. documents' \in Seq(ResourceDocuments)
      BY <2>3, Zenon DEF SameDocuments
  <2>8. ResourcesOnly'
      BY <2>3, <2>4, <2>6, <2>7, Zenon DEF ResourcesOnly
  <2>q. QED
      BY <1>3, <2>1, <2>2, <2>8, Zenon DEF AnalysisInv
<1>9. CASE UNCHANGED analysisVars
  <2>1. /\ mode' = mode /\ parsed' = parsed /\ index' = index /\ documents' = documents
        /\ syntaxErrors' = syntaxErrors /\ syntaxWarnings' = syntaxWarnings
        /\ documentErrors' = documentErrors /\ step' = step
      BY <1>9 DEF analysisVars
  <2>2. AnalysisTypes' = AnalysisTypes /\ GeneralOnly' = GeneralOnly
      BY <2>1, Zenon DEF AnalysisTypes, GeneralOnly
  <2>3. ResourcesOnly' = ResourcesOnly
    <3>1. \A i : FromOwn(documents[i])' = FromOwn(documents[i])
        BY <2>1, Zenon DEF FromOwn
    <3>2. InOrder' = InOrder /\ Unmarked' = Unmarked
        BY <2>1, Zenon DEF InOrder, Unmarked
    <3>3. \A i : DuplicateOf(i)' = DuplicateOf(i)
        BY <2>1, Zenon DEF DuplicateOf, Identity
    <3>4. \A i : MarkedBy(documents[i], DuplicateOf(i))' = MarkedBy(documents[i], DuplicateOf(i))
        BY <2>1, <3>3, Zenon DEF MarkedBy
    <3>5. Marked' = Marked
        BY <2>1, <3>4, Zenon DEF Marked
    <3>6. Located' = Located
        BY <2>1, Zenon DEF Located, Place
    <3>q. QED
        BY <2>1, <3>1, <3>2, <3>5, <3>6, Zenon DEF ResourcesOnly
  <2>q. QED
      BY <1>1, <2>1, <2>2, <2>3, Zenon DEF AnalysisInv
<1>q. QED
    BY <1>4, <1>5, <1>7, <1>8, <1>9, Zenon DEF AnalysisNext

\* The invariant of analyzeYaml holds.
THEOREM AnalysisInvariant == AnalysisSpec => []AnalysisInv
BY AnalysisStarts, AnalysisStep, PTL DEF AnalysisSpec

\* FindingsLocatedInOwnDocument: a finding and a mismatch lead to the deepest node on
\* their path, in the document their resource was read from.
THEOREM FindingsAlwaysLocated == AnalysisSpec => []FindingsLocatedInOwnDocument
<1>1. AnalysisInv => FindingsLocatedInOwnDocument
  <2> SUFFICES ASSUME AnalysisInv, step = "done", mode = "kubernetes",
                      NEW i \in DOMAIN documents, NEW item \in AllItems(documents[i])
               PROVE  LET own == parsed[item.line.document]
                          plain == \A key \in Range(item.path) : readBack[key] = <<key>>
                      IN  /\ own.resource = documents[i].raw
                          /\ item.line.document = documents[i].index
                          /\ item.line.node \in own.nodes
                          /\ plain => /\ IsPrefix(item.line.node, item.path)
                                      /\ \A node \in own.nodes :
                                             IsPrefix(node, item.path) => IsPrefix(node, item.line.node)
      BY Zenon DEF FindingsLocatedInOwnDocument
  <2>1. ResourcesOnly
      BY Zenon DEF AnalysisInv
  <2>2. FromOwn(documents[i]) /\ item \in Items /\ item.line = Place(documents[i], item.path)
      BY <2>1, Zenon DEF ResourcesOnly, Located
  <2>3. item.path \in Seq(PathKeys)
      BY <2>2 DEF Items
  <2>4. PICK n, node, line : /\ n = documents[i].index /\ line = item.line
                             /\ node = nearestNodeAtPath(parsed[n], pathSegments(item.path))
      OBVIOUS
  <2>5. line = [document |-> n, node |-> node]
      BY <2>2, <2>4, Zenon DEF Place
  <2>6. line.document = n /\ line.node = node
      BY <2>5
  <2>7. parsed[n] \in Mappings /\ parsed[n].resource = documents[i].raw
      BY <2>2, <2>4, Zenon DEF FromOwn
  <2>8. LeadsTo(parsed[n], item.path, node)
      BY <2>3, <2>4, <2>7, Nearest, Zenon
  <2>q. QED
      BY <2>4, <2>6, <2>7, <2>8, Zenon DEF LeadsTo
<1>q. QED
    BY <1>1, AnalysisInvariant, PTL

\* Positions are in order.
LEMMA Positions ==
    ASSUME NEW S, NEW s \in Seq(S), NEW i \in DOMAIN s, NEW j \in DOMAIN s
    PROVE  /\ i \in Nat /\ j \in Nat
           /\ i < j => i \in 1 .. j - 1
           /\ i = j \/ i < j \/ j < i
OBVIOUS

\* Of earlier documents with one identity the first has none before it.
LEMMA FirstHasNone ==
    ASSUME documents \in Seq(ResourceDocuments), NEW i \in DOMAIN documents, DuplicateOf(i) # {}
    PROVE  DuplicateOf(Min(DuplicateOf(i))) = {}
<1>1. PICK m : m = Min(DuplicateOf(i))
    OBVIOUS
<1>2. m \in DuplicateOf(i) /\ \A c \in DuplicateOf(i) : m <= c
    BY <1>1, FirstDuplicate, Zenon
<1>3. /\ m \in Nat /\ m < i /\ m \in DOMAIN documents /\ i \in Nat /\ documents[i].raw.metadataName # ""
      /\ Identity(documents[m]) = Identity(documents[i])
    BY <1>2, DuplicateParts, Zenon
<1>4. SUFFICES ASSUME NEW c \in DuplicateOf(m) PROVE FALSE
    BY <1>1, Zenon
<1>5. /\ c \in Nat /\ c < m /\ documents[c].raw.metadataName # "" /\ c \in DOMAIN documents
      /\ Identity(documents[c]) = Identity(documents[m])
    BY <1>3, <1>4, DuplicateParts, Zenon
<1>6. c \in 1 .. i - 1
  <2>1. c < i
    <3>1. c \in Nat /\ m \in Nat /\ i \in Nat /\ c < m /\ m < i
        BY <1>3, <1>5, Zenon
    <3>q. QED
        BY <3>1
  <2>2. c \in DOMAIN documents
      BY <1>5, Zenon
  <2>q. QED
      BY <2>1, <2>2, Positions, Zenon
<1>7. c \in DuplicateOf(i)
    BY <1>3, <1>5, <1>6, Zenon DEF DuplicateOf
<1>8. m <= c /\ c < m /\ m \in Nat /\ c \in Nat
    BY <1>2, <1>3, <1>5, <1>7, Zenon
<1>q. QED
    BY <1>8

\* FirstOfIdentityAccepted: of the resources with one identity the first is accepted and
\* the later ones name it; a resource with a generated name is no duplicate.
THEOREM FirstOfIdentityAlwaysAccepted == AnalysisSpec => []FirstOfIdentityAccepted
<1>1. AnalysisInv => FirstOfIdentityAccepted
  <2> SUFFICES ASSUME AnalysisInv, step = "done", mode = "kubernetes" PROVE FirstOfIdentityAccepted
      BY Zenon DEF FirstOfIdentityAccepted
  <2>1. documents \in Seq(ResourceDocuments) /\ InOrder /\ Marked
    <3>1. step \in {"locations", "done"}
        OBVIOUS
    <3>q. QED
        BY <3>1, Zenon DEF AnalysisInv, ResourcesOnly
  <2> DEFINE named == {document \in Range(documents) : document.raw.metadataName # ""}
             duplicates == {document \in Range(documents) : IsDuplicate(document)}
  <2>2. \A i \in DOMAIN documents :
            /\ IsDuplicate(documents[i]) <=> DuplicateOf(i) # {}
            /\ \A item \in Range(documents[i].findings) :
                   item.title = "Duplicate resource identity" =>
                       item.other = documents[Min(DuplicateOf(i))].index
      BY <2>1, Zenon DEF Marked, MarkedBy, IsDuplicate, AboutIdentity
  <2>3. \A d \in Range(documents) : \E i \in DOMAIN documents : d = documents[i]
      BY Zenon DEF Range
  <2>4. \A i \in DOMAIN documents : documents[i] \in Range(documents)
      BY Zenon DEF Range
  <2>5. duplicates \subseteq named
    <3>1. ASSUME NEW d \in duplicates PROVE d.raw.metadataName # ""
      <4>1. PICK i \in DOMAIN documents : d = documents[i]
          BY <2>3, <3>1, Zenon
      <4>2. PICK c : c \in DuplicateOf(i)
          BY <2>2, <3>1, <4>1, Zenon
      <4>q. QED
          BY <2>1, <4>1, <4>2, DuplicateParts, Zenon
    <3>q. QED
        BY <3>1, Zenon
  <2>6. ASSUME NEW i \in DOMAIN documents, NEW j \in DOMAIN documents, i < j,
               documents[i].raw.metadataName # "", documents[j].raw.metadataName # "",
               Identity(documents[i]) = Identity(documents[j])
        PROVE  IsDuplicate(documents[j])
    <3>1. i \in 1 .. j - 1
        BY <2>1, <2>6, Positions, Zenon
    <3>2. i \in DuplicateOf(j)
        BY <2>6, <3>1, Zenon DEF DuplicateOf
    <3>q. QED
        BY <2>2, <2>6, <3>2, Zenon
  <2>7. ASSUME NEW d \in named \ duplicates, NEW e \in named \ duplicates, Identity(d) = Identity(e)
        PROVE  d = e
    <3>1. PICK i \in DOMAIN documents : d = documents[i]
        BY <2>3, <2>7, Zenon
    <3>2. PICK j \in DOMAIN documents : e = documents[j]
        BY <2>3, <2>7, Zenon
    <3>3. ~(i < j) /\ ~(j < i)
        BY <2>6, <2>7, <3>1, <3>2, Zenon
    <3>4. i = j
        BY <2>1, <3>3, Positions, Zenon
    <3>q. QED
        BY <3>1, <3>2, <3>4, Zenon
  <2>8. ASSUME NEW d \in duplicates, NEW item \in Range(d.findings),
               item.title = "Duplicate resource identity"
        PROVE  \E first \in named \ duplicates :
                   first.index = item.other /\ first.index < d.index /\ Identity(first) = Identity(d)
    <3>1. PICK i \in DOMAIN documents : d = documents[i]
        BY <2>3, <2>8, Zenon
    <3>2. PICK m : m = Min(DuplicateOf(i))
        OBVIOUS
    <3>3. DuplicateOf(i) # {} /\ item.other = documents[m].index
        BY <2>2, <2>8, <3>1, <3>2, Zenon
    <3>4. m \in DuplicateOf(i) /\ DuplicateOf(m) = {}
        BY <2>1, <3>2, <3>3, FirstDuplicate, FirstHasNone, Zenon
    <3>5. /\ m < i /\ m \in DOMAIN documents /\ documents[m].raw.metadataName # ""
          /\ Identity(documents[m]) = Identity(documents[i])
        BY <2>1, <3>4, DuplicateParts, Zenon
    <3>6. documents[m] \in named \ duplicates
        BY <2>2, <2>4, <3>4, <3>5, Zenon
    <3>7. documents[m].index < documents[i].index
        BY <2>1, <3>5, Zenon DEF InOrder
    <3>q. QED
        BY <3>1, <3>3, <3>5, <3>6, <3>7, Zenon
  <2> HIDE DEF named, duplicates
  <2>9. /\ duplicates \subseteq named
        /\ \A d, e \in named \ duplicates : Identity(d) = Identity(e) => d = e
        /\ \A d \in duplicates : \A item \in Range(d.findings) :
               item.title = "Duplicate resource identity" =>
                   \E first \in named \ duplicates :
                       first.index = item.other /\ first.index < d.index /\ Identity(first) = Identity(d)
      BY <2>5, <2>7, <2>8, Zenon
  <2>q. QED
      BY <2>9, Zenon DEF FirstOfIdentityAccepted, named, duplicates
<1>q. QED
    BY <1>1, AnalysisInvariant, PTL

-----------------------------------------------------------------------------
(* The analysis: sums.                                                     *)

\* What has been added up after k numbers.
AddsUp(numbers, g) ==
    /\ g[0] = 0
    /\ \A k \in 1 .. Len(numbers) : g[k] = g[k - 1] + numbers[k]

\* A sum is known by its partial sums.
LEMMA SumBy ==
    ASSUME NEW numbers, Len(numbers) \in Nat, NEW g, AddsUp(numbers, g)
    PROVE  Sum(numbers) = g[Len(numbers)]
<1> DEFINE n == Len(numbers)
           Body(h) == [k \in 0 .. n |-> IF k = 0 THEN 0 ELSE h[k - 1] + numbers[k]]
           upTo == CHOOSE h : h = Body(h)
<1>1. Sum(numbers) = upTo[n]
    BY Zenon DEF Sum
<1>2. PICK h : h = [k \in 0 .. n |-> g[k]]
    OBVIOUS
<1>3. /\ g[0] = 0
      /\ \A k \in 1 .. n : g[k] = g[k - 1] + numbers[k]
    BY Zenon DEF AddsUp
<1>4. n \in Nat /\ \A k \in 0 .. n : k = 0 \/ (k \in 1 .. n /\ k - 1 \in 0 .. n /\ k # 0)
    OBVIOUS
<1> HIDE DEF n
<1>5. \A k \in 0 .. n : h[k] = IF k = 0 THEN 0 ELSE h[k - 1] + numbers[k]
    BY <1>2, <1>3, <1>4, Zenon
<1>6. h = Body(h)
  <2>1. h = [k \in 0 .. n |-> h[k]]
      BY <1>2, Zenon
  <2>q. QED
      BY <1>5, <2>1, Zenon
<1> HIDE DEF Body
<1>7. upTo = Body(upTo)
    BY <1>6, Zenon
<1> HIDE DEF upTo
<1>8. \A k \in 0 .. n : upTo[k] = IF k = 0 THEN 0 ELSE upTo[k - 1] + numbers[k]
    BY <1>7, Zenon DEF Body
<1> DEFINE T == {k \in Nat : k <= n => upTo[k] = g[k]}
<1>9. 0 \in T
  <2>1. 0 \in 0 .. n /\ 0 \in Nat
      BY <1>4
  <2>q. QED
      BY <1>3, <1>8, <2>1, Zenon
<1>10. ASSUME NEW k \in T PROVE k + 1 \in T
  <2>1. k \in Nat /\ k + 1 \in Nat /\ (k + 1) - 1 = k /\ k + 1 # 0
      BY <1>10
  <2>2. ASSUME k + 1 <= n PROVE upTo[k + 1] = g[k + 1]
    <3>1. k <= n /\ k + 1 \in 0 .. n /\ k + 1 \in 1 .. n
        BY <1>4, <2>1, <2>2
    <3>2. upTo[k] = g[k]
        BY <1>10, <3>1, Zenon
    <3>3. upTo[k + 1] = upTo[k] + numbers[k + 1]
        BY <1>8, <2>1, <3>1, Zenon
    <3>4. g[k + 1] = g[k] + numbers[k + 1]
        BY <1>3, <2>1, <3>1, Zenon
    <3>q. QED
        BY <3>2, <3>3, <3>4, Zenon
  <2>q. QED
      BY <2>1, <2>2, Zenon
<1>11. T = Nat
  <2>1. T \in SUBSET Nat
      OBVIOUS
  <2> HIDE DEF T
  <2>q. QED
      BY <1>9, <1>10, <2>1, SetInduction, Zenon
<1>12. n \in T /\ n <= n
    BY <1>4, <1>11
<1>13. upTo[n] = g[n]
    BY <1>12, Zenon
<1>q. QED
    BY <1>1, <1>13, Zenon DEF n

\* The partial results of a concatenation.
LEMMA FlattenNext ==
    ASSUME NEW S, NEW parts \in Seq(Seq(S)), NEW k \in 1 .. Len(parts)
    PROVE  /\ FlattenSeq(SubSeq(parts, 1, k)) = FlattenSeq(SubSeq(parts, 1, k - 1)) \o parts[k]
           /\ FlattenSeq(SubSeq(parts, 1, k - 1)) \in Seq(S) /\ parts[k] \in Seq(S)
           /\ FlattenSeq(SubSeq(parts, 1, k)) \in Seq(S)
<1>1. PICK P, a, b, x : P = Seq(S) /\ a = SubSeq(parts, 1, k) /\ b = SubSeq(parts, 1, k - 1) /\ x = parts[k]
    OBVIOUS
<1>2. parts \in Seq(P)
    BY <1>1
<1>3. /\ a \in Seq(P) /\ Len(a) = k /\ b \in Seq(P) /\ Len(b) = k - 1 /\ x \in P /\ k \in Nat
      /\ \A i \in 1 .. k : a[i] = parts[i]
      /\ \A i \in 1 .. k - 1 : b[i] = parts[i]
    BY <1>1, <1>2
<1>4. PICK c : c = Append(b, x)
    OBVIOUS
<1>5. c \in Seq(P) /\ Len(c) = k /\ (\A i \in 1 .. k - 1 : c[i] = b[i]) /\ c[k] = x
    BY <1>3, <1>4
<1>6. \A i \in 1 .. Len(a) : a[i] = c[i]
  <2>1. \A i \in 1 .. k : i \in 1 .. k - 1 \/ i = k
      BY <1>3
  <2>2. \A i \in 1 .. k - 1 : a[i] = c[i]
    <3>1. \A i \in 1 .. k - 1 : i \in 1 .. k
        BY <1>3
    <3>q. QED
        BY <1>3, <1>5, <3>1, Zenon
  <2>3. a[k] = c[k]
    <3>1. k \in 1 .. k
        BY <1>3
    <3>q. QED
        BY <1>1, <1>3, <1>5, <3>1, Zenon
  <2>q. QED
      BY <1>3, <2>1, <2>2, <2>3, Zenon
<1>7. a = c
    BY <1>3, <1>5, <1>6, SeqEqual
<1>8. b \in Seq(Seq(S)) /\ x \in Seq(S) /\ a \in Seq(Seq(S))
    BY <1>1, <1>3, Zenon
<1>9. FlattenSeq(c) = FlattenSeq(b) \o x
    BY <1>4, <1>8, FlattenAppend, Zenon
<1>10. FlattenSeq(b) \in Seq(S) /\ FlattenSeq(a) \in Seq(S)
    BY <1>8, FlattenType, Zenon
<1>q. QED
    BY <1>1, <1>7, <1>8, <1>9, <1>10, Zenon

\* Before and after all of them.
LEMMA FlattenEnds ==
    ASSUME NEW S, NEW parts \in Seq(Seq(S))
    PROVE  /\ FlattenSeq(SubSeq(parts, 1, 0)) = <<>> /\ SubSeq(parts, 1, Len(parts)) = parts
           /\ Len(parts) \in Nat /\ FlattenSeq(parts) \in Seq(S)
<1>1. SubSeq(parts, 1, 0) = <<>> /\ SubSeq(parts, 1, Len(parts)) = parts /\ Len(parts) \in Nat
    OBVIOUS
<1>2. FlattenSeq(parts) \in Seq(S)
    BY FlattenType, Zenon
<1>q. QED
    BY <1>1, <1>2, FlattenEmpty, Zenon

\* The lengths of the parts of a concatenation add up to its length.
LEMMA SumOfLengths ==
    ASSUME NEW S, NEW parts \in Seq(Seq(S)), NEW numbers, Len(numbers) = Len(parts),
           \A i \in 1 .. Len(parts) : numbers[i] = Len(parts[i])
    PROVE  Sum(numbers) = Len(FlattenSeq(parts))
<1>1. PICK n, g : /\ n = Len(parts)
                  /\ g = [k \in 0 .. Len(parts) |-> Len(FlattenSeq(SubSeq(parts, 1, k)))]
    OBVIOUS
<1>2. /\ FlattenSeq(SubSeq(parts, 1, 0)) = <<>> /\ SubSeq(parts, 1, n) = parts /\ n \in Nat
    BY <1>1, FlattenEnds, Zenon
<1>3. 0 \in 0 .. n /\ n \in 0 .. n /\ \A k \in 1 .. n : k \in 0 .. n /\ k - 1 \in 0 .. n
    BY <1>2
<1>4. \A k \in 0 .. n : g[k] = Len(FlattenSeq(SubSeq(parts, 1, k)))
    BY <1>1, Zenon
<1>5. Len(<<>>) = 0
    OBVIOUS
<1>6. \A a, b \in Seq(S) : Len(a \o b) = Len(a) + Len(b)
    OBVIOUS
<1>7. ASSUME NEW k \in 1 .. n PROVE g[k] = g[k - 1] + numbers[k]
  <2>1. PICK u, v : u = FlattenSeq(SubSeq(parts, 1, k - 1)) /\ v = FlattenSeq(SubSeq(parts, 1, k))
      OBVIOUS
  <2>2. v = u \o parts[k] /\ u \in Seq(S) /\ parts[k] \in Seq(S)
      BY <1>1, <1>7, <2>1, FlattenNext, Zenon
  <2>3. Len(v) = Len(u) + Len(parts[k])
      BY <1>6, <2>2, Zenon
  <2>4. g[k] = Len(v) /\ g[k - 1] = Len(u) /\ numbers[k] = Len(parts[k])
      BY <1>1, <1>3, <1>4, <1>7, <2>1, Zenon
  <2>q. QED
      BY <2>3, <2>4, Zenon
<1>8. AddsUp(numbers, g)
    BY <1>1, <1>2, <1>3, <1>4, <1>5, <1>7, Zenon DEF AddsUp
<1>9. Len(numbers) = n /\ Len(numbers) \in Nat
    BY <1>1, <1>2, Zenon
<1>10. Sum(numbers) = g[n]
    BY <1>8, <1>9, SumBy, Zenon
<1>q. QED
    BY <1>2, <1>3, <1>4, <1>10, Zenon

\* Numbers that are added up have partial sums, and their sum is a number.
LEMMA SumType ==
    ASSUME NEW numbers \in Seq(Nat)
    PROVE  Sum(numbers) \in Nat /\ \E g \in [0 .. Len(numbers) -> Nat] : AddsUp(numbers, g)
<1>1. PICK n, parts : /\ n = Len(numbers)
                      /\ parts = [i \in 1 .. Len(numbers) |-> [j \in 1 .. numbers[i] |-> 0]]
    OBVIOUS
<1>2. n \in Nat /\ \A i \in 1 .. n : numbers[i] \in Nat
    BY <1>1
<1>3. \A m \in Nat : [j \in 1 .. m |-> 0] \in Seq(Nat) /\ Len([j \in 1 .. m |-> 0]) = m
    OBVIOUS
<1>4. parts = [i \in 1 .. n |-> parts[i]] /\ \A i \in 1 .. n : parts[i] \in Seq(Nat) /\ Len(parts[i]) = numbers[i]
    BY <1>1, <1>2, <1>3, Zenon
<1>5. parts \in Seq(Seq(Nat)) /\ Len(parts) = n
  <2>1. PICK S : S = Seq(Nat)
      OBVIOUS
  <2>2. parts = [i \in 1 .. n |-> parts[i]] /\ \A i \in 1 .. n : parts[i] \in S
      BY <1>4, <2>1, Zenon
  <2>3. parts \in Seq(S) /\ Len(parts) = n
      BY <1>2, <2>2
  <2>q. QED
      BY <2>1, <2>3, Zenon
<1>6. PICK g : g = [k \in 0 .. n |-> Len(FlattenSeq(SubSeq(parts, 1, k)))]
    OBVIOUS
<1>7. /\ FlattenSeq(SubSeq(parts, 1, 0)) = <<>> /\ SubSeq(parts, 1, n) = parts
      /\ FlattenSeq(parts) \in Seq(Nat)
    BY <1>5, FlattenEnds, Zenon
<1>8. 0 \in 0 .. n /\ n \in 0 .. n /\ \A k \in 1 .. n : k \in 0 .. n /\ k - 1 \in 0 .. n
    BY <1>2
<1>9. \A k \in 0 .. n : g[k] = Len(FlattenSeq(SubSeq(parts, 1, k)))
    BY <1>6, Zenon
<1>10. \A a, b \in Seq(Nat) : Len(a \o b) = Len(a) + Len(b) /\ Len(a) \in Nat
    OBVIOUS
<1>11. Len(<<>>) = 0
    OBVIOUS
<1>12. ASSUME NEW k \in 1 .. n PROVE g[k] = g[k - 1] + numbers[k] /\ g[k] \in Nat
  <2>1. PICK u, v : u = FlattenSeq(SubSeq(parts, 1, k - 1)) /\ v = FlattenSeq(SubSeq(parts, 1, k))
      OBVIOUS
  <2>2. v = u \o parts[k] /\ u \in Seq(Nat) /\ parts[k] \in Seq(Nat) /\ v \in Seq(Nat)
      BY <1>5, <1>12, <2>1, FlattenNext, Zenon
  <2>3. Len(v) = Len(u) + Len(parts[k]) /\ Len(v) \in Nat
      BY <1>10, <2>2, Zenon
  <2>4. g[k] = Len(v) /\ g[k - 1] = Len(u) /\ numbers[k] = Len(parts[k])
      BY <1>4, <1>8, <1>9, <1>12, <2>1, Zenon
  <2>q. QED
      BY <2>3, <2>4, Zenon
<1>13. g[0] = 0 /\ 0 \in Nat
    BY <1>7, <1>8, <1>9, <1>11, EmptyAndZero, Zenon
<1>14. AddsUp(numbers, g)
    BY <1>1, <1>12, <1>13, Zenon DEF AddsUp
<1>15. g \in [0 .. n -> Nat]
  <2>1. \A k \in 0 .. n : k = 0 \/ k \in 1 .. n
      BY <1>2
  <2>2. \A k \in 0 .. n : g[k] \in Nat
      BY <1>12, <1>13, <2>1, Zenon
  <2>q. QED
      BY <1>6, <2>2, Zenon
<1>16. Sum(numbers) = g[n]
    BY <1>1, <1>2, <1>14, SumBy, Zenon
<1>17. Sum(numbers) \in Nat
    BY <1>8, <1>15, <1>16, Zenon
<1>q. QED
    BY <1>1, <1>14, <1>15, <1>17, Zenon

\* Sums of sums.
LEMMA SumOfSums ==
    ASSUME NEW a \in Seq(Nat), NEW b \in Seq(Nat), NEW c, Len(b) = Len(a), Len(c) = Len(a),
           \A i \in 1 .. Len(a) : c[i] = a[i] + b[i]
    PROVE  Sum(c) = Sum(a) + Sum(b)
<1>1. PICK n : n = Len(a)
    OBVIOUS
<1>2. n \in Nat /\ Len(b) = n /\ Len(c) = n /\ \A i \in 1 .. n : a[i] \in Nat /\ b[i] \in Nat /\ c[i] = a[i] + b[i]
    BY <1>1
<1>3. PICK g \in [0 .. n -> Nat] : AddsUp(a, g)
    BY <1>1, SumType, Zenon
<1>4. PICK h \in [0 .. n -> Nat] : AddsUp(b, h)
    BY <1>2, SumType, Zenon
<1>5. PICK f : f = [k \in 0 .. n |-> g[k] + h[k]]
    OBVIOUS
<1>6. /\ g[0] = 0 /\ \A k \in 1 .. n : g[k] = g[k - 1] + a[k]
      /\ h[0] = 0 /\ \A k \in 1 .. n : h[k] = h[k - 1] + b[k]
    BY <1>1, <1>2, <1>3, <1>4, Zenon DEF AddsUp
<1>7. f[0] = 0
    BY <1>2, <1>5, <1>6
<1>8. ASSUME NEW k \in 1 .. n PROVE f[k] = f[k - 1] + c[k]
  <2>1. k \in 0 .. n /\ k - 1 \in 0 .. n
      BY <1>2, <1>8
  <2>2. f[k] = g[k] + h[k] /\ f[k - 1] = g[k - 1] + h[k - 1]
      BY <1>5, <2>1, Zenon
  <2>3. g[k - 1] \in Nat /\ h[k - 1] \in Nat
      BY <1>3, <1>4, <2>1
  <2>4. g[k] = g[k - 1] + a[k] /\ h[k] = h[k - 1] + b[k] /\ c[k] = a[k] + b[k] /\ a[k] \in Nat /\ b[k] \in Nat
      BY <1>2, <1>6, <1>8, Zenon
  <2>5. \A t, u, v, w \in Nat : (t + v) + (u + w) = (t + u) + (v + w)
      OBVIOUS
  <2>6. (g[k - 1] + a[k]) + (h[k - 1] + b[k]) = (g[k - 1] + h[k - 1]) + (a[k] + b[k])
      BY <2>3, <2>4, <2>5, ZenonT(40)
  <2>q. QED
      BY <2>2, <2>4, <2>6, Zenon
<1>9. AddsUp(c, f)
    BY <1>2, <1>7, <1>8, Zenon DEF AddsUp
<1>10. n \in 0 .. n
    BY <1>2
<1>11. Sum(c) = f[n] /\ Sum(a) = g[n] /\ Sum(b) = h[n]
    BY <1>1, <1>2, <1>3, <1>4, <1>9, SumBy, Zenon
<1>q. QED
    BY <1>5, <1>10, <1>11, Zenon

-----------------------------------------------------------------------------
(* The analysis: items of a level.                                         *)

\* The item, if it has the level.
OneOf(item, level) == If(item = level, <<level>>)

\* What the item adds to the count of the level.
Unit(item, level) == IF item = level THEN 1 ELSE 0

\* The parts OfLevel concatenates.
Picked(items, level) == [i \in DOMAIN items |-> OneOf(items[i], level)]

\* How many items have the level.
Count(items, level) == Len(OfLevel(items, level))

\* What OfLevel concatenates.
LEMMA PickedParts ==
    ASSUME NEW S, NEW items \in Seq(S), NEW level
    PROVE  /\ Picked(items, level) \in Seq(Seq({level})) /\ Len(Picked(items, level)) = Len(items)
           /\ \A i \in 1 .. Len(items) : Picked(items, level)[i] = OneOf(items[i], level)
           /\ OfLevel(items, level) = FlattenSeq(Picked(items, level))
           /\ OfLevel(items, level) \in Seq({level}) /\ Count(items, level) \in Nat
<1>1. PICK n, parts, P : n = Len(items) /\ parts = Picked(items, level) /\ P = Seq({level})
    OBVIOUS
<1>2. n \in Nat /\ DOMAIN items = 1 .. n
    BY <1>1
<1>3. <<>> \in P /\ <<level>> \in P
    BY <1>1
<1>4. /\ parts = [i \in 1 .. n |-> OneOf(items[i], level)]
      /\ \A i \in 1 .. n : OneOf(items[i], level) \in P
    BY <1>1, <1>2, <1>3, Zenon DEF Picked, OneOf, If
<1>5. parts = [i \in 1 .. n |-> parts[i]] /\ \A i \in 1 .. n : parts[i] \in P
    BY <1>4, Zenon
<1>6. parts \in Seq(P) /\ Len(parts) = n
    BY <1>2, <1>5
<1>7. parts \in Seq(Seq({level}))
    BY <1>1, <1>6, Zenon
<1>8. OfLevel(items, level) = FlattenSeq(parts)
    BY <1>1, Zenon DEF OfLevel, Picked, OneOf
<1>9. FlattenSeq(parts) \in Seq({level})
    BY <1>7, FlattenType, Zenon
<1>10. \A t \in Seq({level}) : Len(t) \in Nat
    OBVIOUS
<1>q. QED
    BY <1>1, <1>4, <1>6, <1>7, <1>8, <1>9, <1>10, Zenon DEF Count

\* The items of a level, part by part.
LEMMA OfLevelConcat ==
    ASSUME NEW S, NEW a \in Seq(S), NEW b \in Seq(S), NEW level
    PROVE  /\ OfLevel(a \o b, level) = OfLevel(a, level) \o OfLevel(b, level)
           /\ Count(a \o b, level) = Count(a, level) + Count(b, level)
<1>1. PICK c, p, q, r, m, n : /\ c = a \o b /\ m = Len(a) /\ n = Len(b)
                              /\ p = Picked(a, level) /\ q = Picked(b, level) /\ r = Picked(c, level)
    OBVIOUS
<1>2. /\ c \in Seq(S) /\ Len(c) = m + n /\ m \in Nat /\ n \in Nat
      /\ \A i \in 1 .. m : c[i] = a[i]
      /\ \A i \in 1 .. n : c[m + i] = b[i]
    BY <1>1
<1>3. /\ p \in Seq(Seq({level})) /\ Len(p) = m /\ \A i \in 1 .. m : p[i] = OneOf(a[i], level)
      /\ OfLevel(a, level) = FlattenSeq(p)
    BY <1>1, PickedParts, Zenon
<1>4. /\ q \in Seq(Seq({level})) /\ Len(q) = n /\ \A i \in 1 .. n : q[i] = OneOf(b[i], level)
      /\ OfLevel(b, level) = FlattenSeq(q)
    BY <1>1, PickedParts, Zenon
<1>5. /\ r \in Seq(Seq({level})) /\ Len(r) = m + n
      /\ \A i \in 1 .. m + n : r[i] = OneOf(c[i], level)
      /\ OfLevel(c, level) = FlattenSeq(r)
  <2>1. /\ r \in Seq(Seq({level})) /\ Len(r) = Len(c)
        /\ \A i \in 1 .. Len(c) : r[i] = OneOf(c[i], level)
        /\ OfLevel(c, level) = FlattenSeq(r)
    <3>1. c \in Seq(S)
        BY <1>2
    <3>q. QED
        BY <1>1, <3>1, PickedParts, Zenon
  <2>2. Len(c) = m + n
      BY <1>2
  <2>q. QED
      BY <2>1, <2>2, Zenon
<1>6. PICK w, P : w = p \o q /\ P = Seq({level})
    OBVIOUS
<1>7. p \in Seq(P) /\ q \in Seq(P) /\ r \in Seq(P)
    BY <1>3, <1>4, <1>5, <1>6, Zenon
<1>8. /\ w \in Seq(P) /\ Len(w) = m + n
      /\ \A i \in 1 .. m : w[i] = p[i]
      /\ \A i \in 1 .. n : w[m + i] = q[i]
  <2>1. w = p \o q /\ Len(p) = m /\ Len(q) = n
      BY <1>3, <1>4, <1>6, Zenon
  <2>2. p \in Seq(P) /\ q \in Seq(P)
      BY <1>7
  <2>q. QED
    <3>1. /\ w \in Seq(P) /\ Len(w) = Len(p) + Len(q)
          /\ \A i \in 1 .. Len(p) : w[i] = p[i]
          /\ \A i \in 1 .. Len(q) : w[Len(p) + i] = q[i]
      <4>1. w = p \o q
          BY <2>1
      <4>q. QED
          BY <2>2, <4>1, ConcatParts
    <3>q. QED
        BY <2>1, <3>1, Zenon
<1>9. \A i \in 1 .. m : i \in 1 .. m + n
    BY <1>2
<1>10. \A i \in 1 .. m : w[i] = r[i]
  <2> SUFFICES ASSUME NEW i \in 1 .. m PROVE w[i] = r[i]
      BY Zenon
  <2>1. w[i] = OneOf(a[i], level) /\ c[i] = a[i]
      BY <1>2, <1>3, <1>8, Zenon
  <2>2. r[i] = OneOf(c[i], level)
      BY <1>5, <1>9, Zenon
  <2>q. QED
      BY <2>1, <2>2, Zenon
<1>11. \A i \in 1 .. n : m + i \in 1 .. m + n
    BY <1>2
<1>12. \A i \in 1 .. n : w[m + i] = r[m + i]
  <2> SUFFICES ASSUME NEW i \in 1 .. n PROVE w[m + i] = r[m + i]
      BY Zenon
  <2>1. w[m + i] = OneOf(b[i], level) /\ c[m + i] = b[i]
      BY <1>2, <1>4, <1>8, Zenon
  <2>2. r[m + i] = OneOf(c[m + i], level)
      BY <1>5, <1>11, Zenon
  <2>q. QED
      BY <2>1, <2>2, Zenon
<1>13. \A i \in 1 .. m + n : i \in 1 .. m \/ (i - m \in 1 .. n /\ m + (i - m) = i)
    BY <1>2
<1>14. \A i \in 1 .. m + n : w[i] = r[i]
    BY <1>10, <1>12, <1>13, Zenon
<1>15. w = r
  <2>1. \A i \in 1 .. Len(w) : w[i] = r[i]
      BY <1>8, <1>14, Zenon
  <2>2. Len(w) = Len(r)
      BY <1>5, <1>8, Zenon
  <2>q. QED
      BY <1>7, <1>8, <2>1, <2>2, SeqEqual, Zenon
<1>16. FlattenSeq(w) = FlattenSeq(p) \o FlattenSeq(q)
    BY <1>3, <1>4, <1>6, FlattenConcat, Zenon
<1>17. FlattenSeq(p) \in Seq({level}) /\ FlattenSeq(q) \in Seq({level})
    BY <1>3, <1>4, FlattenType, Zenon
<1>18. \A s, t \in Seq({level}) : Len(s \o t) = Len(s) + Len(t)
    OBVIOUS
<1>q. QED
  <2>1. OfLevel(a \o b, level) = OfLevel(a, level) \o OfLevel(b, level)
      BY <1>1, <1>3, <1>4, <1>5, <1>15, <1>16, Zenon
  <2>2. OfLevel(a, level) \in Seq({level}) /\ OfLevel(b, level) \in Seq({level})
      BY <1>3, <1>4, <1>17, Zenon
  <2>3. Len(OfLevel(a, level) \o OfLevel(b, level)) = Len(OfLevel(a, level)) + Len(OfLevel(b, level))
      BY <1>18, <2>2, Zenon
  <2>q. QED
      BY <2>1, <2>3, Zenon DEF Count

\* So the numbers of items add up.
LEMMA CountConcat ==
    ASSUME NEW S, NEW a \in Seq(S), NEW b \in Seq(S), NEW level
    PROVE  Count(a \o b, level) = Count(a, level) + Count(b, level)
BY OfLevelConcat

\* No item and one item.
LEMMA CountOne ==
    ASSUME NEW x, NEW level
    PROVE  /\ Count(<<>>, level) = 0
           /\ Count(<<x>>, level) = Unit(x, level)
<1>1. Count(<<>>, level) = 0
  <2>1. <<>> \in Seq({level})
      OBVIOUS
  <2>2. Picked(<<>>, level) \in Seq(Seq({level})) /\ Len(Picked(<<>>, level)) = Len(<<>>)
        /\ OfLevel(<<>>, level) = FlattenSeq(Picked(<<>>, level))
      BY <2>1, PickedParts, Zenon
  <2>3. PICK P, p : P = Seq({level}) /\ p = Picked(<<>>, level)
      OBVIOUS
  <2>4. p \in Seq(P) /\ Len(p) = Len(<<>>)
      BY <2>2, <2>3, Zenon
  <2>5. p = <<>> /\ Len(<<>>) = 0
      BY <2>4
  <2>q. QED
      BY <2>2, <2>3, <2>5, FlattenEmpty, Zenon DEF Count
<1>2. Count(<<x>>, level) = Unit(x, level)
  <2>1. PICK P, p, one, part : /\ P = Seq({level}) /\ p = Picked(<<x>>, level) /\ one = <<x>>
                               /\ part = OneOf(x, level)
      OBVIOUS
  <2>2. one \in Seq({x}) /\ Len(one) = 1 /\ one[1] = x /\ 1 \in 1 .. 1
      BY <2>1
  <2>3. /\ p \in Seq(P) /\ Len(p) = 1 /\ p[1] = part /\ OfLevel(one, level) = FlattenSeq(p)
      BY <2>1, <2>2, PickedParts, Zenon
  <2>4. <<>> \in P /\ part \in P
    <3>1. <<>> \in P /\ <<level>> \in P
        BY <2>1
    <3>q. QED
        BY <2>1, <3>1, Zenon DEF OneOf, If
  <2>5. p = Append(<<>>, part)
      BY <2>3
  <2>6. <<>> \in Seq(Seq({level})) /\ part \in Seq({level})
      BY <2>1, <2>4, EmptyAndZero, Zenon
  <2>7. FlattenSeq(p) = FlattenSeq(<<>>) \o part
      BY <2>5, <2>6, FlattenAppend, Zenon
  <2>8. <<>> \o part = part
      BY <2>6
  <2>9. OfLevel(one, level) = part
      BY <2>3, <2>7, <2>8, FlattenEmpty, Zenon
  <2>10. Len(<<>>) = 0 /\ Len(<<level>>) = 1
      OBVIOUS
  <2>11. Len(part) = Unit(x, level)
    <3>1. CASE x = level
      <4>1. part = <<level>> /\ Unit(x, level) = 1
          BY <2>1, <3>1 DEF OneOf, Unit, If
      <4>q. QED
          BY <2>10, <4>1, Zenon
    <3>2. CASE x # level
      <4>1. part = <<>> /\ Unit(x, level) = 0
          BY <2>1, <3>2 DEF OneOf, Unit, If
      <4>q. QED
          BY <2>10, <4>1, Zenon
    <3>q. QED
        BY <3>1, <3>2, Zenon
  <2>q. QED
      BY <2>1, <2>9, <2>11, Zenon DEF Count
<1>q. QED
    BY <1>1, <1>2, Zenon

\* An item more.
LEMMA CountMore ==
    ASSUME NEW S, NEW s \in Seq(S), NEW x \in S, NEW level
    PROVE  Count(Append(s, x), level) = Count(s, level) + Unit(x, level)
<1>1. <<x>> \in Seq(S) /\ Append(s, x) = s \o <<x>>
    OBVIOUS
<1>2. Count(s \o <<x>>, level) = Count(s, level) + Count(<<x>>, level)
    BY <1>1, CountConcat
<1>3. Count(<<x>>, level) = Unit(x, level)
    BY CountOne
<1>q. QED
    BY <1>1, <1>2, <1>3

\* No item of a level, and every item of it.
LEMMA CountAllOrNone ==
    ASSUME NEW level
    PROVE  /\ \A S : level \notin S => \A s \in Seq(S) : Count(s, level) = 0
           /\ \A s \in Seq({level}) : Count(s, level) = Len(s)
<1>1. ASSUME NEW S, level \notin S PROVE \A s \in Seq(S) : Count(s, level) = 0
  <2> DEFINE T == {s \in Seq(S) : Count(s, level) = 0}
  <2>1. <<>> \in T
      BY CountOne, EmptyAndZero, Zenon
  <2>2. ASSUME NEW s \in T, NEW x \in S PROVE Append(s, x) \in T
    <3>1. x # level
        BY <1>1, <2>2
    <3>2. s \in Seq(S) /\ Append(s, x) \in Seq(S)
        BY <2>2
    <3>3. Count(Append(s, x), level) = Count(s, level) + Unit(x, level) /\ Count(s, level) = 0
        BY <2>2, <3>2, CountMore
    <3>4. 0 + 0 = 0 /\ Unit(x, level) = 0
        BY <3>1 DEF Unit
    <3>q. QED
        BY <3>2, <3>3, <3>4, Zenon
  <2>3. T = Seq(S)
    <3>1. T \in SUBSET Seq(S)
        OBVIOUS
    <3> HIDE DEF T
    <3>q. QED
        BY <2>1, <2>2, <3>1, SeqInduction, Zenon
  <2>q. QED
      BY <2>3, Zenon
<1>2. \A s \in Seq({level}) : Count(s, level) = Len(s)
  <2> DEFINE T == {s \in Seq({level}) : Count(s, level) = Len(s)}
  <2>1. <<>> \in T
    <3>1. Len(<<>>) = 0
        OBVIOUS
    <3>q. QED
        BY <3>1, CountOne, EmptyAndZero, Zenon
  <2>2. ASSUME NEW s \in T, NEW x \in {level} PROVE Append(s, x) \in T
    <3>1. x = level
        BY <2>2
    <3>2. s \in Seq({level}) /\ Append(s, x) \in Seq({level}) /\ Len(Append(s, x)) = Len(s) + 1
        BY <2>2
    <3>3. Count(Append(s, x), level) = Count(s, level) + Unit(x, level) /\ Count(s, level) = Len(s)
        BY <2>2, <3>2, CountMore
    <3>4. Unit(x, level) = 1
        BY <3>1 DEF Unit
    <3>q. QED
        BY <3>2, <3>3, <3>4, Zenon
  <2>3. T = Seq({level})
    <3>1. T \in SUBSET Seq({level})
        OBVIOUS
    <3> HIDE DEF T
    <3>q. QED
        BY <2>1, <2>2, <3>1, SeqInduction, Zenon
  <2>q. QED
      BY <2>3, Zenon
<1>q. QED
    BY <1>1, <1>2, Zenon

\* The counts of the four levels together.
FourCounts(s) == Count(s, "error") + Count(s, "warning") + Count(s, "note") + Count(s, "valid")

\* Every item has one of the four levels.
LEMMA CountsOfAll ==
    ASSUME NEW s \in Seq(Levels)
    PROVE  Len(s) = FourCounts(s)
<1> DEFINE T == {t \in Seq(Levels) : Len(t) = FourCounts(t)}
<1>1. <<>> \in T
  <2>1. Len(<<>>) = 0 /\ 0 + 0 + 0 + 0 = 0
      OBVIOUS
  <2>q. QED
      BY <2>1, CountOne, EmptyAndZero, Zenon DEF FourCounts
<1>2. ASSUME NEW t \in T, NEW x \in Levels PROVE Append(t, x) \in T
  <2>1. t \in Seq(Levels) /\ Append(t, x) \in Seq(Levels) /\ Len(Append(t, x)) = Len(t) + 1
      BY <1>2
  <2>2. PICK e, w, n, v : /\ e = Count(t, "error") /\ w = Count(t, "warning")
                          /\ n = Count(t, "note") /\ v = Count(t, "valid")
      OBVIOUS
  <2>3. e \in Nat /\ w \in Nat /\ n \in Nat /\ v \in Nat
      BY <2>1, <2>2, PickedParts, Zenon
  <2>4. Len(t) = e + w + n + v
      BY <1>2, <2>2, Zenon DEF FourCounts
  <2>5. /\ Count(Append(t, x), "error") = e + Unit(x, "error")
        /\ Count(Append(t, x), "warning") = w + Unit(x, "warning")
        /\ Count(Append(t, x), "note") = n + Unit(x, "note")
        /\ Count(Append(t, x), "valid") = v + Unit(x, "valid")
      BY <2>1, <2>2, CountMore
  <2>6. (e + Unit(x, "error")) + (w + Unit(x, "warning"))
        + (n + Unit(x, "note")) + (v + Unit(x, "valid")) = (e + w + n + v) + 1
    <3>1. x = "error" \/ x = "warning" \/ x = "note" \/ x = "valid"
        BY <1>2 DEF Levels
    <3>q. QED
        BY <2>3, <3>1 DEF Unit
  <2>7. FourCounts(Append(t, x)) = Len(Append(t, x))
      BY <2>1, <2>4, <2>5, <2>6, Zenon DEF FourCounts
  <2>q. QED
      BY <2>1, <2>7, Zenon
<1>3. T = Seq(Levels)
  <2>1. T \in SUBSET Seq(Levels)
      OBVIOUS
  <2> HIDE DEF T
  <2>q. QED
      BY <1>1, <1>2, <2>1, SeqInduction, Zenon
<1>q. QED
    BY <1>3, Zenon

\* What has been found of a level after k parts, and what of other levels.
LEMMA SumOfCounts ==
    ASSUME NEW S, NEW parts \in Seq(Seq(S)), NEW level, NEW numbers, Len(numbers) = Len(parts),
           \A i \in 1 .. Len(parts) : numbers[i] = Count(parts[i], level)
    PROVE  Sum(numbers) = Count(FlattenSeq(parts), level)
<1>1. PICK n, g : /\ n = Len(parts)
                  /\ g = [k \in 0 .. Len(parts) |-> Count(FlattenSeq(SubSeq(parts, 1, k)), level)]
    OBVIOUS
<1>2. /\ FlattenSeq(SubSeq(parts, 1, 0)) = <<>> /\ SubSeq(parts, 1, n) = parts /\ n \in Nat
    BY <1>1, FlattenEnds, Zenon
<1>3. 0 \in 0 .. n /\ n \in 0 .. n /\ \A k \in 1 .. n : k \in 0 .. n /\ k - 1 \in 0 .. n
    BY <1>2
<1>4. \A k \in 0 .. n : g[k] = Count(FlattenSeq(SubSeq(parts, 1, k)), level)
    BY <1>1, Zenon
<1>5. ASSUME NEW k \in 1 .. n PROVE g[k] = g[k - 1] + numbers[k]
  <2>1. PICK u, v : u = FlattenSeq(SubSeq(parts, 1, k - 1)) /\ v = FlattenSeq(SubSeq(parts, 1, k))
      OBVIOUS
  <2>2. v = u \o parts[k] /\ u \in Seq(S) /\ parts[k] \in Seq(S)
      BY <1>1, <1>5, <2>1, FlattenNext, Zenon
  <2>3. Count(u \o parts[k], level) = Count(u, level) + Count(parts[k], level)
      BY <2>2, CountConcat
  <2>4. g[k] = Count(u \o parts[k], level) /\ g[k - 1] = Count(u, level) /\ numbers[k] = Count(parts[k], level)
      BY <1>1, <1>3, <1>4, <1>5, <2>1, <2>2, Zenon
  <2>q. QED
      BY <2>3, <2>4, Zenon
<1>6. AddsUp(numbers, g)
    BY <1>1, <1>2, <1>3, <1>4, <1>5, CountOne, Zenon DEF AddsUp
<1>7. Len(numbers) = n /\ Len(numbers) \in Nat
    BY <1>1, <1>2, Zenon
<1>8. Sum(numbers) = g[n]
    BY <1>6, <1>7, SumBy, Zenon
<1>q. QED
    BY <1>2, <1>3, <1>4, <1>8, Zenon

-----------------------------------------------------------------------------
(* The analysis: the numbers shown.                                        *)

\* The lengths that are left beside a level add up, too.
LEMMA SumOfRest ==
    ASSUME NEW S, NEW parts \in Seq(Seq(S)), NEW level, NEW numbers \in Seq(Nat),
           Len(numbers) = Len(parts),
           \A i \in 1 .. Len(parts) : Len(parts[i]) = Count(parts[i], level) + numbers[i]
    PROVE  Len(FlattenSeq(parts)) = Count(FlattenSeq(parts), level) + Sum(numbers)
<1>1. PICK n, lengths, found : /\ n = Len(parts)
                               /\ lengths = [i \in 1 .. n |-> Len(parts[i])]
                               /\ found = [i \in 1 .. n |-> Count(parts[i], level)]
    OBVIOUS
<1>2. n \in Nat /\ \A i \in 1 .. n : parts[i] \in Seq(S)
  <2>1. PICK P : P = Seq(S)
      OBVIOUS
  <2>2. parts \in Seq(P)
      BY <2>1
  <2>3. n \in Nat /\ \A i \in 1 .. n : parts[i] \in P
      BY <1>1, <2>2
  <2>q. QED
      BY <2>1, <2>3, Zenon
<1>3. \A i \in 1 .. n : Count(parts[i], level) \in Nat
    BY <1>2, PickedParts, Zenon
<1>4. found \in Seq(Nat) /\ Len(found) = n /\ \A i \in 1 .. n : found[i] = Count(parts[i], level)
    BY <1>1, <1>2, <1>3
<1>5. \A s \in Seq(S) : Len(s) \in Nat
    OBVIOUS
<1>6. \A i \in 1 .. n : Len(parts[i]) \in Nat
    BY <1>2, <1>5, Zenon
<1>7. lengths \in Seq(Nat) /\ Len(lengths) = n /\ \A i \in 1 .. n : lengths[i] = Len(parts[i])
    BY <1>1, <1>2, <1>6
<1>8. \A i \in 1 .. n : lengths[i] = found[i] + numbers[i]
    BY <1>1, <1>4, <1>7, Zenon
<1>9. Len(numbers) = n
    BY <1>1
<1>10. Sum(lengths) = Sum(found) + Sum(numbers)
  <2>1. Len(numbers) = Len(found) /\ Len(lengths) = Len(found) /\ \A i \in 1 .. Len(found) : lengths[i] = found[i] + numbers[i]
      BY <1>4, <1>7, <1>8, <1>9, Zenon
  <2>q. QED
      BY <1>4, <2>1, SumOfSums, Zenon
<1>11. Sum(lengths) = Len(FlattenSeq(parts))
    BY <1>1, <1>7, SumOfLengths, Zenon
<1>12. Sum(found) = Count(FlattenSeq(parts), level)
    BY <1>1, <1>4, SumOfCounts, Zenon
<1>q. QED
    BY <1>10, <1>11, <1>12, Zenon

\* Four parts.
LEMMA FlattenFour ==
    ASSUME NEW S, NEW a \in Seq(S), NEW b \in Seq(S), NEW c \in Seq(S), NEW d \in Seq(S),
           NEW t, t = <<a, b, c, d>>, NEW w, w = ((a \o b) \o c) \o d
    PROVE  FlattenSeq(t) = w
<1>1. PICK P : P = Seq(S)
    OBVIOUS
<1>2. a \in P /\ b \in P /\ c \in P /\ d \in P
    BY <1>1
<1>3. /\ <<>> \in Seq(P) /\ <<a>> \in Seq(P) /\ <<a, b>> \in Seq(P) /\ <<a, b, c>> \in Seq(P)
      /\ <<a>> = Append(<<>>, a) /\ <<a, b>> = Append(<<a>>, b)
      /\ <<a, b, c>> = Append(<<a, b>>, c) /\ <<a, b, c, d>> = Append(<<a, b, c>>, d)
    BY <1>2
<1>4. /\ FlattenSeq(Append(<<>>, a)) = FlattenSeq(<<>>) \o a
      /\ FlattenSeq(Append(<<a>>, b)) = FlattenSeq(<<a>>) \o b
      /\ FlattenSeq(Append(<<a, b>>, c)) = FlattenSeq(<<a, b>>) \o c
      /\ FlattenSeq(Append(<<a, b, c>>, d)) = FlattenSeq(<<a, b, c>>) \o d
    BY <1>1, <1>3, FlattenAppend, Zenon
<1>5. <<>> \o a = a
    OBVIOUS
<1>q. QED
    BY <1>3, <1>4, <1>5, FlattenEmpty, Zenon

\* As many levels as items.
LEMMA LevelsOfParts ==
    ASSUME NEW items \in Seq(Items)
    PROVE  /\ LevelsOf(items) \in Seq(FindingLevels) /\ Len(LevelsOf(items)) = Len(items)
           /\ Len(items) \in Nat
           /\ items \in Seq(Mismatches) => LevelsOf(items) \in Seq({"error"})
<1>1. PICK n, all : n = Len(items) /\ all = LevelsOf(items)
    OBVIOUS
<1>2. n \in Nat /\ DOMAIN items = 1 .. n /\ \A i \in 1 .. n : items[i] \in Items
    BY <1>1
<1>3. \A item \in Items : item.level \in FindingLevels
    BY DEF Items
<1>4. all = [i \in 1 .. n |-> items[i].level] /\ \A i \in 1 .. n : items[i].level \in FindingLevels
    BY <1>1, <1>2, <1>3, Zenon DEF LevelsOf
<1>5. all = [i \in 1 .. n |-> all[i]] /\ \A i \in 1 .. n : all[i] \in FindingLevels
    BY <1>4, Zenon
<1>6. all \in Seq(FindingLevels) /\ Len(all) = n
    BY <1>2, <1>5
<1>7. ASSUME items \in Seq(Mismatches) PROVE all \in Seq({"error"})
  <2>1. \A i \in 1 .. n : items[i] \in Mismatches
      BY <1>1, <1>7
  <2>2. \A i \in 1 .. n : all[i] \in {"error"}
      BY <1>4, <2>1, Zenon DEF Mismatches
  <2>3. PICK E : E = {"error"}
      OBVIOUS
  <2>4. \A i \in 1 .. n : all[i] \in E
      BY <2>2, <2>3, Zenon
  <2>5. all \in Seq(E)
      BY <1>2, <1>5, <2>4
  <2>q. QED
      BY <2>3, <2>5, Zenon
<1>q. QED
    BY <1>1, <1>2, <1>6, <1>7, Zenon

\* As many as there are, with one level.
LEMMA WithLevelParts ==
    ASSUME NEW S, NEW items \in Seq(S), NEW level
    PROVE  /\ WithLevel(items, level) \in Seq({level}) /\ Len(WithLevel(items, level)) = Len(items)
           /\ Len(items) \in Nat
<1>1. PICK n, all, E : n = Len(items) /\ all = WithLevel(items, level) /\ E = {level}
    OBVIOUS
<1>2. n \in Nat /\ DOMAIN items = 1 .. n
    BY <1>1
<1>3. all = [i \in 1 .. n |-> level] /\ level \in E
    BY <1>1, <1>2, Zenon DEF WithLevel
<1>4. all \in Seq(E) /\ Len(all) = n
    BY <1>2, <1>3
<1>q. QED
    BY <1>1, <1>2, <1>4, Zenon

\* A sequence of levels of one kind is one of levels.
LEMMA LevelsInclude ==
    /\ \A s \in Seq({"error"}) : s \in Seq(Levels)
    /\ \A s \in Seq({"warning"}) : s \in Seq(Levels)
    /\ \A s \in Seq(FindingLevels) : s \in Seq(Levels)
<1>1. /\ {"error"} \in SUBSET Levels /\ {"warning"} \in SUBSET Levels /\ FindingLevels \in SUBSET Levels
    BY DEF Levels, FindingLevels
<1>2. \A S, T : S \in SUBSET T => \A s \in Seq(S) : s \in Seq(T)
    OBVIOUS
<1>q. QED
    BY <1>1, <1>2, Zenon

\* What a schema result shows: mismatches, which are errors, or its status.
SchemaShown(schema) ==
    /\ schemaItems(schema) \in Seq(Levels)
    /\ Count(schemaItems(schema), "error") = (IF schema.status = "invalid" THEN Len(schema.errors) ELSE 0)
    /\ Len(schemaItems(schema)) =
           Count(schemaItems(schema), "valid")
           + (IF schema.status = "invalid" THEN Len(schema.errors) ELSE IF schema.status = "valid" THEN 0 ELSE 1)

\* A schema result is shown by its mismatches or by its status.
LEMMA SchemaLevels ==
    ASSUME NEW schema \in Schemas
    PROVE  SchemaShown(schema)
<1>1. PICK status, mismatches, shown : /\ status = schema.status /\ mismatches = schema.errors
                                       /\ shown = schemaItems(schema)
    OBVIOUS
<1>2. /\ status \in {"valid", "invalid", "unsupported", "schema-unavailable", "not-evaluated"}
      /\ mismatches \in Seq(Mismatches)
    BY <1>1, Zenon DEF Schemas, SchemaFits
<1>3. CASE status = "invalid"
  <2>1. mismatches \in Seq(Items)
    <3>1. \A x \in Mismatches : x \in Items
        BY Zenon DEF Mismatches
    <3>q. QED
        BY <1>2, <3>1
  <2>2. shown = LevelsOf(mismatches)
      BY <1>1, <1>3, Zenon DEF schemaItems
  <2>3. shown \in Seq({"error"}) /\ Len(shown) = Len(mismatches) /\ Len(mismatches) \in Nat
      BY <1>2, <2>1, <2>2, LevelsOfParts, Zenon
  <2>4. "valid" \notin {"error"}
      OBVIOUS
  <2>5. Count(shown, "error") = Len(shown) /\ Count(shown, "valid") = 0
      BY <2>3, <2>4, CountAllOrNone, Zenon
  <2>6. Len(shown) = 0 + Len(mismatches)
      BY <2>3
  <2>7. shown \in Seq(Levels)
      BY <2>3, LevelsInclude, Zenon
  <2>q. QED
      BY <1>1, <1>3, <2>3, <2>5, <2>6, <2>7, Zenon DEF SchemaShown
<1>4. CASE status # "invalid"
  <2>1. PICK level : level = statusLevel[status]
      OBVIOUS
  <2>2. shown = <<level>>
      BY <1>1, <1>4, <2>1, Zenon DEF schemaItems
  <2>3. status \in {"valid", "unsupported", "schema-unavailable", "not-evaluated"}
      BY <1>2, <1>4
  <2>4. /\ level \in Levels /\ level # "error"
        /\ level = "valid" <=> status = "valid"
      BY <2>1, <2>3 DEF statusLevel, Levels
  <2>5. Len(<<level>>) = 1 /\ <<level>> \in Seq(Levels)
      BY <2>4
  <2>6. Count(shown, "error") = Unit(level, "error") /\ Count(shown, "valid") = Unit(level, "valid")
      BY <2>2, CountOne
  <2>7. Unit(level, "error") = 0
      BY <2>4 DEF Unit
  <2>8. Len(shown) = Unit(level, "valid") + (IF status = "valid" THEN 0 ELSE 1)
      BY <2>2, <2>4, <2>5 DEF Unit
  <2>9. Len(shown) = Count(shown, "valid") + (IF status = "valid" THEN 0 ELSE 1)
      BY <2>6, <2>8
  <2>q. QED
      BY <1>1, <1>4, <2>2, <2>5, <2>6, <2>7, <2>9, Zenon DEF SchemaShown
<1>q. QED
    BY <1>3, <1>4, Zenon

\* Nothing added up.
LEMMA SumOfZeros ==
    ASSUME NEW numbers \in Seq(Nat), \A i \in 1 .. Len(numbers) : numbers[i] = 0
    PROVE  Sum(numbers) = 0
<1>1. PICK g : g = [k \in 0 .. Len(numbers) |-> 0]
    OBVIOUS
<1>2. Len(numbers) \in Nat
    OBVIOUS
<1>3. g[0] = 0 /\ g[Len(numbers)] = 0 /\ \A k \in 1 .. Len(numbers) : g[k] = g[k - 1] + numbers[k]
    BY <1>1, <1>2
<1>4. AddsUp(numbers, g)
    BY <1>3, Zenon DEF AddsUp
<1>q. QED
    BY <1>2, <1>3, <1>4, SumBy, Zenon

\* A number for each of n documents.
LEMMA NumbersType ==
    ASSUME NEW n \in Nat, NEW numbers, numbers = [i \in 1 .. n |-> numbers[i]],
           \A i \in 1 .. n : numbers[i] \in Nat
    PROVE  numbers \in Seq(Nat) /\ Len(numbers) = n
OBVIOUS

\* A sequence for each of n documents.
LEMMA PartsType ==
    ASSUME NEW n \in Nat, NEW S, NEW parts, parts = [i \in 1 .. n |-> parts[i]],
           \A i \in 1 .. n : parts[i] \in Seq(S)
    PROVE  parts \in Seq(Seq(S)) /\ Len(parts) = n
<1>1. PICK P : P = Seq(S)
    OBVIOUS
<1>2. \A i \in 1 .. n : parts[i] \in P
    BY <1>1
<1>3. parts \in Seq(P) /\ Len(parts) = n
    BY <1>2
<1>q. QED
    BY <1>1, <1>3, Zenon

\* The levels of each document's findings.
FindingLevelParts == [i \in DOMAIN documents |-> LevelsOf(documents[i].findings)]

\* The number of each document's findings.
FindingNumbers == [i \in DOMAIN documents |-> Len(documents[i].findings)]

\* The section of the findings has as many items as there are findings.
LEMMA FindingTotals ==
    ASSUME NEW S, documents \in Seq(S), \A i \in DOMAIN documents : documents[i].findings \in Seq(Items)
    PROVE  /\ FlattenSeq(FindingLevelParts) \in Seq(FindingLevels)
           /\ Len(FlattenSeq(FindingLevelParts)) = Sum(FindingNumbers)
           /\ FindingNumbers \in Seq(Nat) /\ Len(FindingNumbers) = Len(documents)
<1>1. PICK n, parts, numbers : n = Len(documents) /\ parts = FindingLevelParts /\ numbers = FindingNumbers
    OBVIOUS
<1>2. n \in Nat /\ DOMAIN documents = 1 .. n
    BY <1>1
<1>3. /\ parts = [i \in 1 .. n |-> LevelsOf(documents[i].findings)]
      /\ numbers = [i \in 1 .. n |-> Len(documents[i].findings)]
    BY <1>1, <1>2, Zenon DEF FindingLevelParts, FindingNumbers
<1>4. \A i \in 1 .. n : /\ parts[i] \in Seq(FindingLevels) /\ numbers[i] = Len(parts[i])
                        /\ numbers[i] \in Nat
  <2> SUFFICES ASSUME NEW i \in 1 .. n
               PROVE parts[i] \in Seq(FindingLevels) /\ numbers[i] = Len(parts[i]) /\ numbers[i] \in Nat
      BY Zenon
  <2>1. documents[i].findings \in Seq(Items)
      BY <1>2, Zenon
  <2>2. parts[i] = LevelsOf(documents[i].findings) /\ numbers[i] = Len(documents[i].findings)
      BY <1>3, Zenon
  <2>q. QED
      BY <2>1, <2>2, LevelsOfParts, Zenon
<1>5. parts = [i \in 1 .. n |-> parts[i]] /\ numbers = [i \in 1 .. n |-> numbers[i]]
    BY <1>3, Zenon
<1>6. parts \in Seq(Seq(FindingLevels)) /\ Len(parts) = n
    BY <1>2, <1>4, <1>5, PartsType, Zenon
<1>7. numbers \in Seq(Nat) /\ Len(numbers) = n
    BY <1>2, <1>4, <1>5, NumbersType, Zenon
<1>8. Sum(numbers) = Len(FlattenSeq(parts))
    BY <1>4, <1>6, <1>7, SumOfLengths, Zenon
<1>9. FlattenSeq(parts) \in Seq(FindingLevels)
    BY <1>6, FlattenType, Zenon
<1>q. QED
    BY <1>1, <1>7, <1>8, <1>9, Zenon

\* The levels of each document's schema items.
SchemaLevelParts == [i \in DOMAIN documents |-> schemaItems(documents[i].schema)]

\* The schema issues of each document.
IssueNumbers == [i \in DOMAIN documents |-> schemaIssues(documents[i])]

\* The mismatches of each document that has any.
InvalidNumbers ==
    [i \in DOMAIN documents |->
        IF documents[i].schema.status = "invalid" THEN Len(documents[i].schema.errors) ELSE 0]

\* The entries the report makes of each document.
EntryNumbers ==
    [i \in DOMAIN documents |->
        Len(documents[i].findings) + Len(documents[i].schema.errors)
        + (IF documents[i].schema.status \in {"valid", "invalid"} THEN 0 ELSE 1)]

\* The issues of one document.
LEMMA IssuesOfOne ==
    ASSUME NEW document \in ResourceDocuments
    PROVE  /\ schemaIssues(document) = (IF document.schema.status = "invalid" THEN Len(document.schema.errors)
                                        ELSE IF document.schema.status = "valid" THEN 0 ELSE 1)
           /\ schemaIssues(document) \in Nat
           /\ schemaIssues(document) = Len(document.schema.errors)
                  + (IF document.schema.status \in {"valid", "invalid"} THEN 0 ELSE 1)
           /\ Len(document.schema.errors) \in Nat
           /\ SchemaShown(document.schema)
<1>1. PICK schema, status, mismatches : /\ schema = document.schema /\ status = schema.status
                                        /\ mismatches = schema.errors
    OBVIOUS
<1>2. schema \in Schemas
    BY <1>1 DEF ResourceDocuments
<1>4. mismatches \in Seq(Mismatches)
    BY <1>1, <1>2, Zenon DEF Schemas, SchemaFits
<1>5. status # "invalid" => mismatches = <<>>
    BY <1>1, <1>2, Zenon DEF Schemas, SchemaFits
<1>6. Len(mismatches) \in Nat
    BY <1>4
<1>7. schemaIssues(document) = (IF status = "invalid" THEN Len(mismatches) ELSE IF status = "valid" THEN 0 ELSE 1)
  <2>1. schemaIssues(document) = CASE status = "invalid" -> Len(mismatches)
                                   [] status = "valid" -> 0
                                   [] OTHER -> 1
      BY <1>1, Zenon DEF schemaIssues
  <2>q. QED
      BY <2>1
<1>8. schemaIssues(document) \in Nat
    BY <1>6, <1>7
<1>9. (IF status = "invalid" THEN Len(mismatches) ELSE IF status = "valid" THEN 0 ELSE 1)
      = Len(mismatches) + (IF status \in {"valid", "invalid"} THEN 0 ELSE 1)
  <2>1. CASE status = "invalid"
      BY <1>6, <2>1
  <2>2. CASE status # "invalid"
    <3>1. Len(mismatches) = 0
        BY <1>5, <2>2
    <3>q. QED
        BY <2>2, <3>1
  <2>q. QED
      BY <2>1, <2>2
<1>10. SchemaShown(schema)
    BY <1>2, SchemaLevels, Zenon
<1>q. QED
    BY <1>1, <1>6, <1>7, <1>8, <1>9, <1>10, Zenon

\* The section of the schema results: what is not "valid" is counted, mismatches are
\* errors, and the report lists as much.
LEMMA SchemaTotals ==
    ASSUME documents \in Seq(ResourceDocuments)
    PROVE  /\ FlattenSeq(SchemaLevelParts) \in Seq(Levels)
           /\ Len(FlattenSeq(SchemaLevelParts)) =
                  Count(FlattenSeq(SchemaLevelParts), "valid") + Sum(IssueNumbers)
           /\ Count(FlattenSeq(SchemaLevelParts), "error") = Sum(InvalidNumbers)
           /\ Sum(EntryNumbers) = Sum(FindingNumbers) + Sum(IssueNumbers)
           /\ Sum(IssueNumbers) \in Nat
<1>1. PICK n, parts, issues, invalid, entries, found :
          /\ n = Len(documents) /\ parts = SchemaLevelParts /\ issues = IssueNumbers
          /\ invalid = InvalidNumbers /\ entries = EntryNumbers /\ found = FindingNumbers
    OBVIOUS
<1>2. n \in Nat /\ DOMAIN documents = 1 .. n /\ \A i \in 1 .. n : documents[i] \in ResourceDocuments
    BY <1>1
<1>3. /\ parts = [i \in 1 .. n |-> parts[i]] /\ issues = [i \in 1 .. n |-> issues[i]]
      /\ invalid = [i \in 1 .. n |-> invalid[i]] /\ entries = [i \in 1 .. n |-> entries[i]]
  <2>1. parts = [i \in 1 .. n |-> schemaItems(documents[i].schema)]
      BY <1>1, <1>2, Zenon DEF SchemaLevelParts
  <2>2. issues = [i \in 1 .. n |-> schemaIssues(documents[i])]
      BY <1>1, <1>2, Zenon DEF IssueNumbers
  <2>3. invalid = [i \in 1 .. n |->
            IF documents[i].schema.status = "invalid" THEN Len(documents[i].schema.errors) ELSE 0]
      BY <1>1, <1>2, Zenon DEF InvalidNumbers
  <2>4. entries = [i \in 1 .. n |->
            Len(documents[i].findings) + Len(documents[i].schema.errors)
            + (IF documents[i].schema.status \in {"valid", "invalid"} THEN 0 ELSE 1)]
      BY <1>1, <1>2, Zenon DEF EntryNumbers
  <2>q. QED
      BY <2>1, <2>2, <2>3, <2>4, Zenon
<1>4. /\ found \in Seq(Nat) /\ Len(found) = n
  <2>1. \A d \in ResourceDocuments : d.findings \in Seq(Items)
      BY DEF ResourceDocuments
  <2>2. \A i \in DOMAIN documents : documents[i].findings \in Seq(Items)
      BY <1>2, <2>1, Zenon
  <2>q. QED
      BY <1>1, <2>2, FindingTotals, Zenon
<1>5. ASSUME NEW i \in 1 .. n
      PROVE  /\ parts[i] \in Seq(Levels) /\ issues[i] \in Nat
             /\ Len(parts[i]) = Count(parts[i], "valid") + issues[i]
             /\ invalid[i] = Count(parts[i], "error")
             /\ entries[i] = found[i] + issues[i]
  <2>1. PICK document : document = documents[i]
      OBVIOUS
  <2>2. i \in DOMAIN documents /\ document \in ResourceDocuments
      BY <1>2, <1>5, <2>1, Zenon
  <2>3. /\ parts[i] = schemaItems(document.schema) /\ issues[i] = schemaIssues(document)
        /\ invalid[i] = (IF document.schema.status = "invalid" THEN Len(document.schema.errors) ELSE 0)
        /\ entries[i] = Len(document.findings) + Len(document.schema.errors)
                        + (IF document.schema.status \in {"valid", "invalid"} THEN 0 ELSE 1)
        /\ found[i] = Len(document.findings)
      BY <1>1, <2>1, <2>2, Zenon DEF SchemaLevelParts, IssueNumbers, InvalidNumbers, EntryNumbers, FindingNumbers
  <2>4. /\ schemaIssues(document) \in Nat /\ Len(document.schema.errors) \in Nat
        /\ SchemaShown(document.schema)
        /\ schemaIssues(document) = (IF document.schema.status = "invalid" THEN Len(document.schema.errors)
                                     ELSE IF document.schema.status = "valid" THEN 0 ELSE 1)
        /\ schemaIssues(document) = Len(document.schema.errors)
               + (IF document.schema.status \in {"valid", "invalid"} THEN 0 ELSE 1)
      BY <2>2, IssuesOfOne, Zenon
  <2>5. parts[i] \in Seq(Levels) /\ invalid[i] = Count(parts[i], "error")
      BY <2>3, <2>4, Zenon DEF SchemaShown
  <2>6. Len(parts[i]) = Count(parts[i], "valid") + issues[i]
      BY <2>3, <2>4, Zenon DEF SchemaShown
  <2>7. entries[i] = found[i] + issues[i]
    <3>1. PICK e, u : /\ e = Len(document.schema.errors)
                      /\ u = (IF document.schema.status \in {"valid", "invalid"} THEN 0 ELSE 1)
        OBVIOUS
    <3>2. found[i] \in Nat
        BY <1>4, <1>5
    <3>3. u \in Nat
        BY <3>1
    <3>4. e \in Nat /\ entries[i] = found[i] + e + u /\ issues[i] = e + u
        BY <2>3, <2>4, <3>1, Zenon
    <3>q. QED
        BY <3>2, <3>3, <3>4
  <2>q. QED
      BY <2>3, <2>4, <2>5, <2>6, <2>7, Zenon
<1>6. parts \in Seq(Seq(Levels)) /\ Len(parts) = n
    BY <1>2, <1>3, <1>5, PartsType, Zenon
<1>7. issues \in Seq(Nat) /\ Len(issues) = n
    BY <1>2, <1>3, <1>5, NumbersType, Zenon
<1>8. FlattenSeq(parts) \in Seq(Levels)
    BY <1>6, FlattenType, Zenon
<1>9. Len(FlattenSeq(parts)) = Count(FlattenSeq(parts), "valid") + Sum(issues)
  <2>1. \A i \in 1 .. Len(parts) : Len(parts[i]) = Count(parts[i], "valid") + issues[i]
      BY <1>5, <1>6, Zenon
  <2>2. Len(issues) = Len(parts)
      BY <1>6, <1>7, Zenon
  <2>q. QED
      BY <1>6, <1>7, <2>1, <2>2, SumOfRest, Zenon
<1>10. Len(invalid) = n /\ Len(entries) = n
    BY <1>2, <1>3
<1>11. Sum(invalid) = Count(FlattenSeq(parts), "error")
  <2>1. \A i \in 1 .. Len(parts) : invalid[i] = Count(parts[i], "error")
      BY <1>5, <1>6, Zenon
  <2>2. Len(invalid) = Len(parts)
      BY <1>6, <1>10, Zenon
  <2>q. QED
      BY <1>6, <2>1, <2>2, SumOfCounts, Zenon
<1>12. Sum(entries) = Sum(found) + Sum(issues)
  <2>1. Len(issues) = Len(found) /\ Len(entries) = Len(found) /\ \A i \in 1 .. Len(found) : entries[i] = found[i] + issues[i]
      BY <1>4, <1>5, <1>7, <1>10, Zenon
  <2>q. QED
      BY <1>4, <1>7, <2>1, SumOfSums, Zenon
<1>13. Sum(issues) \in Nat
    BY <1>7, SumType, Zenon
<1>q. QED
    BY <1>1, <1>8, <1>9, <1>11, <1>12, <1>13, Zenon

\* The schema issues of all documents.
Issues == IF mode = "kubernetes" THEN Sum(IssueNumbers) ELSE 0

\* What the four sections hold: syntax notices, rejected documents, findings, schema results.
Tallied(syntax, rejected, found, schemas) ==
    /\ syntax \in Seq(Levels) /\ rejected \in Seq(Levels)
    /\ found \in Seq(Levels) /\ schemas \in Seq(Levels)
    /\ Len(syntax) = Len(syntaxErrors) + Len(syntaxWarnings)
    /\ Count(syntax, "valid") = 0 /\ Count(syntax, "error") = Len(syntaxErrors)
    /\ Len(rejected) = Len(documentErrors)
    /\ Count(rejected, "valid") = 0 /\ Count(rejected, "error") = Len(documentErrors)
    /\ Len(found) = Sum(FindingNumbers) /\ Count(found, "valid") = 0
    /\ Len(schemas) = Count(schemas, "valid") + Issues
    /\ Count(schemas, "error") = invalidSchemaCount
    /\ Issues \in Nat

\* The sections of the Validation view.
LEMMA SectionsTallied ==
    ASSUME AnalysisInv
    PROVE  \E syntax, rejected, found, schemas :
               /\ Tallied(syntax, rejected, found, schemas)
               /\ sections = <<syntax, rejected, found, schemas>>
<1>1. PICK a, b, c, d :
          /\ a = WithLevel(syntaxErrors, "error") \o WithLevel(syntaxWarnings, "warning")
          /\ b = WithLevel(documentErrors, "error")
          /\ c = FlattenSeq(FindingLevelParts)
          /\ d = If(mode = "kubernetes", FlattenSeq(SchemaLevelParts))
    OBVIOUS
<1>2. sections = <<a, b, c, d>>
    BY <1>1, Zenon DEF sections, FindingLevelParts, SchemaLevelParts
<1>3. /\ syntaxErrors \in Seq(Notices) /\ syntaxWarnings \in Seq(Notices)
      /\ documentErrors \in Seq(Notices)
    BY Zenon DEF AnalysisInv, AnalysisTypes
<1>4. "valid" \notin {"error"} /\ "valid" \notin {"warning"} /\ "error" \notin {"warning"}
      /\ "valid" \notin FindingLevels
    BY DEF FindingLevels
<1>5. /\ a \in Seq(Levels) /\ Len(a) = Len(syntaxErrors) + Len(syntaxWarnings)
      /\ Count(a, "valid") = 0 /\ Count(a, "error") = Len(syntaxErrors)
  <2>1. PICK p, q : p = WithLevel(syntaxErrors, "error") /\ q = WithLevel(syntaxWarnings, "warning")
      OBVIOUS
  <2>2. /\ p \in Seq({"error"}) /\ Len(p) = Len(syntaxErrors) /\ Len(syntaxErrors) \in Nat
        /\ q \in Seq({"warning"}) /\ Len(q) = Len(syntaxWarnings) /\ Len(syntaxWarnings) \in Nat
      BY <1>3, <2>1, WithLevelParts, Zenon
  <2>3. p \in Seq(Levels) /\ q \in Seq(Levels)
      BY <2>2, LevelsInclude, Zenon
  <2>4. a = p \o q
      BY <1>1, <2>1, Zenon
  <2>5. /\ Count(p, "error") = Len(p) /\ Count(p, "valid") = 0
        /\ Count(q, "error") = 0 /\ Count(q, "valid") = 0
      BY <1>4, <2>2, CountAllOrNone, Zenon
  <2>6. /\ Count(p \o q, "error") = Count(p, "error") + Count(q, "error")
        /\ Count(p \o q, "valid") = Count(p, "valid") + Count(q, "valid")
      BY <2>3, CountConcat
  <2>7. p \o q \in Seq(Levels) /\ Len(p \o q) = Len(p) + Len(q)
      BY <2>3
  <2>8. PICK m, n : m = Len(syntaxErrors) /\ n = Len(syntaxWarnings)
      OBVIOUS
  <2>9. m \in Nat /\ m + 0 = m /\ 0 + 0 = 0
      BY <2>2, <2>8
  <2>q. QED
      BY <2>2, <2>4, <2>5, <2>6, <2>7, <2>8, <2>9, Zenon
<1>6. /\ b \in Seq(Levels) /\ Len(b) = Len(documentErrors)
      /\ Count(b, "valid") = 0 /\ Count(b, "error") = Len(documentErrors)
  <2>1. b \in Seq({"error"}) /\ Len(b) = Len(documentErrors)
      BY <1>1, <1>3, WithLevelParts, Zenon
  <2>q. QED
      BY <1>4, <2>1, LevelsInclude, CountAllOrNone, Zenon
<1>7. mode = "kubernetes" \/ mode = "general"
    BY DEF AnalysisInv, AnalysisTypes, InspectionModes
<1>8. /\ mode = "kubernetes" => documents \in Seq(ResourceDocuments)
      /\ mode = "general" => documents \in Seq(GeneralDocuments)
    BY Zenon DEF AnalysisInv, ResourcesOnly, GeneralOnly
<1>9. /\ c \in Seq(FindingLevels) /\ Len(c) = Sum(FindingNumbers)
  <2>1. CASE mode = "kubernetes"
    <3>1. \A x \in ResourceDocuments : x.findings \in Seq(Items)
        BY DEF ResourceDocuments
    <3>2. documents \in Seq(ResourceDocuments)
        BY <1>8, <2>1, Zenon
    <3>3. \A i \in DOMAIN documents : documents[i] \in ResourceDocuments
        BY <3>2
    <3>4. \A i \in DOMAIN documents : documents[i].findings \in Seq(Items)
        BY <3>1, <3>3, Zenon
    <3>q. QED
        BY <1>1, <3>2, <3>4, FindingTotals, Zenon
  <2>2. CASE mode = "general"
    <3>1. \A x \in GeneralDocuments : x.findings = <<>>
        BY DEF GeneralDocuments
    <3>2. documents \in Seq(GeneralDocuments)
        BY <1>8, <2>2, Zenon
    <3>3. \A i \in DOMAIN documents : documents[i] \in GeneralDocuments
        BY <3>2
    <3>4. \A i \in DOMAIN documents : documents[i].findings \in Seq(Items)
        BY <3>1, <3>3, EmptyAndZero, Zenon
    <3>q. QED
        BY <1>1, <3>2, <3>4, FindingTotals, Zenon
  <2>q. QED
      BY <1>7, <2>1, <2>2, Zenon
<1>10. c \in Seq(Levels) /\ Count(c, "valid") = 0
    BY <1>4, <1>9, LevelsInclude, CountAllOrNone, Zenon
<1>11. /\ d \in Seq(Levels) /\ Len(d) = Count(d, "valid") + Issues
       /\ Count(d, "error") = invalidSchemaCount /\ Issues \in Nat
  <2>1. CASE mode = "kubernetes"
    <3>1. d = FlattenSeq(SchemaLevelParts) /\ Issues = Sum(IssueNumbers)
        BY <1>1, <2>1, Zenon DEF If, Issues
    <3>2. invalidSchemaCount = Sum(InvalidNumbers)
        BY <2>1, Zenon DEF invalidSchemaCount, OverDocuments, InvalidNumbers
    <3>3. documents \in Seq(ResourceDocuments)
        BY <1>8, <2>1, Zenon
    <3>q. QED
        BY <3>1, <3>2, <3>3, SchemaTotals, Zenon
  <2>2. CASE mode = "general"
    <3>1. mode # "kubernetes"
        BY <2>2
    <3>2. d = <<>> /\ Issues = 0 /\ invalidSchemaCount = 0
        BY <1>1, <3>1, Zenon DEF If, Issues, invalidSchemaCount
    <3>3. Count(<<>>, "valid") = 0 /\ Count(<<>>, "error") = 0
        BY CountOne, Zenon
    <3>4. Len(<<>>) = 0 + 0
        OBVIOUS
    <3>q. QED
        BY <3>2, <3>3, <3>4, EmptyAndZero, Zenon
  <2>q. QED
      BY <1>7, <2>1, <2>2, Zenon
<1>12. Tallied(a, b, c, d)
    BY <1>5, <1>6, <1>9, <1>10, <1>11, Zenon DEF Tallied
<1>q. QED
    BY <1>2, <1>12, Zenon

\* What the report lists is what is counted.
LEMMA EntriesCounted ==
    ASSUME AnalysisInv
    PROVE  reportEntries = Len(errors) + Len(syntaxWarnings) + Issues + Sum(FindingNumbers)
<1>1. /\ syntaxErrors \in Seq(Notices) /\ syntaxWarnings \in Seq(Notices)
      /\ documentErrors \in Seq(Notices)
    BY Zenon DEF AnalysisInv, AnalysisTypes
<1>2. PICK e, w, r : e = Len(syntaxErrors) /\ w = Len(syntaxWarnings) /\ r = Len(documentErrors)
    OBVIOUS
<1>3. e \in Nat /\ w \in Nat /\ r \in Nat
    BY <1>1, <1>2
<1>4. Len(errors) = e + r
  <2>1. Len(syntaxErrors \o documentErrors) = e + r
      BY <1>1, <1>2
  <2>q. QED
      BY <2>1, Zenon DEF errors
<1>5. mode = "kubernetes" \/ mode = "general"
    BY DEF AnalysisInv, AnalysisTypes, InspectionModes
<1>6. CASE mode = "kubernetes"
  <2>1. documents \in Seq(ResourceDocuments)
      BY <1>6, Zenon DEF AnalysisInv, ResourcesOnly
  <2>2. PICK f, s : f = Sum(FindingNumbers) /\ s = Sum(IssueNumbers)
      OBVIOUS
  <2>3. Sum(EntryNumbers) = f + s /\ s \in Nat
      BY <2>1, <2>2, SchemaTotals, Zenon
  <2>4. f \in Nat
    <3>1. \A x \in ResourceDocuments : x.findings \in Seq(Items)
        BY DEF ResourceDocuments
    <3>2. \A i \in DOMAIN documents : documents[i] \in ResourceDocuments
        BY <2>1
    <3>3. \A i \in DOMAIN documents : documents[i].findings \in Seq(Items)
        BY <3>1, <3>2, Zenon
    <3>4. FindingNumbers \in Seq(Nat)
        BY <2>1, <3>3, FindingTotals, Zenon
    <3>q. QED
        BY <2>2, <3>4, SumType, Zenon
  <2>5. reportEntries = Len(syntaxErrors) + Len(syntaxWarnings) + (Len(documentErrors) + Sum(EntryNumbers))
      BY <1>6, Zenon DEF reportEntries, OverDocuments, EntryNumbers
  <2>6. Issues = s
      BY <1>6, <2>2, Zenon DEF Issues
  <2>7. e + w + (r + (f + s)) = (e + r) + w + s + f
      BY <1>3, <2>3, <2>4
  <2>q. QED
      BY <1>2, <1>4, <2>2, <2>3, <2>5, <2>6, <2>7, Zenon
<1>7. CASE mode = "general"
  <2>1. documents \in Seq(GeneralDocuments) /\ documentErrors = <<>>
      BY <1>7, Zenon DEF AnalysisInv, GeneralOnly
  <2>2. mode # "kubernetes"
      BY <1>7
  <2>3. r = 0
      BY <1>2, <2>1
  <2>4. reportEntries = Len(syntaxErrors) + Len(syntaxWarnings) + 0 /\ Issues = 0
      BY <2>2, Zenon DEF reportEntries, Issues
  <2>5. Sum(FindingNumbers) = 0
    <3>1. \A x \in GeneralDocuments : x.findings = <<>>
        BY DEF GeneralDocuments
    <3>2. \A i \in DOMAIN documents : documents[i] \in GeneralDocuments
        BY <2>1
    <3>3. \A i \in DOMAIN documents : documents[i].findings \in Seq(Items)
        BY <3>1, <3>2, EmptyAndZero, Zenon
    <3>4. FindingNumbers \in Seq(Nat) /\ Len(FindingNumbers) = Len(documents)
        BY <2>1, <3>3, FindingTotals, Zenon
    <3>5. DOMAIN documents = 1 .. Len(documents)
        BY <2>1
    <3>6. Len(<<>>) = 0
        OBVIOUS
    <3>7. \A i \in 1 .. Len(FindingNumbers) : FindingNumbers[i] = 0
        BY <3>1, <3>2, <3>4, <3>5, <3>6, Zenon DEF FindingNumbers
    <3>q. QED
        BY <3>4, <3>7, SumOfZeros, Zenon
  <2>6. e + w + 0 = (e + r) + w + 0 + 0
      BY <1>3, <2>3
  <2>q. QED
      BY <1>2, <1>4, <2>4, <2>5, <2>6, Zenon
<1>q. QED
    BY <1>5, <1>6, <1>7, Zenon

\* Four numbers added up.
LEMMA SumOfFour ==
    ASSUME NEW a \in Nat, NEW b \in Nat, NEW c \in Nat, NEW d \in Nat
    PROVE  Sum(<<a, b, c, d>>) = a + b + c + d
<1>1. PICK numbers, g : /\ numbers = <<a, b, c, d>>
                        /\ g = [k \in 0 .. 4 |-> IF k = 0 THEN 0 ELSE IF k = 1 THEN a ELSE IF k = 2 THEN a + b
                                                 ELSE IF k = 3 THEN a + b + c ELSE a + b + c + d]
    OBVIOUS
<1>2. /\ Len(numbers) = 4 /\ numbers[1] = a /\ numbers[2] = b /\ numbers[3] = c /\ numbers[4] = d
    BY <1>1
<1>3. g[0] = 0 /\ g[1] = a /\ g[2] = a + b /\ g[3] = a + b + c /\ g[4] = a + b + c + d
    BY <1>1
<1>4. \A k \in 1 .. 4 : k = 1 \/ k = 2 \/ k = 3 \/ k = 4
    OBVIOUS
<1>5. /\ g[1] = g[1 - 1] + numbers[1] /\ g[2] = g[2 - 1] + numbers[2]
      /\ g[3] = g[3 - 1] + numbers[3] /\ g[4] = g[4 - 1] + numbers[4]
    BY <1>2, <1>3
<1>6. AddsUp(numbers, g)
    BY <1>2, <1>3, <1>4, <1>5, Zenon DEF AddsUp
<1>7. Len(numbers) \in Nat
    BY <1>2
<1>q. QED
    BY <1>1, <1>2, <1>3, <1>6, <1>7, SumBy, Zenon

\* The length of four parts.
LEMMA LengthOfFour ==
    ASSUME NEW S, NEW a \in Seq(S), NEW b \in Seq(S), NEW c \in Seq(S), NEW d \in Seq(S),
           NEW t, t = <<a, b, c, d>>
    PROVE  Len(FlattenSeq(t)) = Len(a) + Len(b) + Len(c) + Len(d)
<1>1. PICK w : w = ((a \o b) \o c) \o d
    OBVIOUS
<1>2. FlattenSeq(t) = w
    BY <1>1, FlattenFour
<1>3. Len(w) = Len(a) + Len(b) + Len(c) + Len(d)
    BY <1>1
<1>q. QED
    BY <1>2, <1>3

\* The items of a level over four parts.
LEMMA CountOfFour ==
    ASSUME NEW S, NEW a \in Seq(S), NEW b \in Seq(S), NEW c \in Seq(S), NEW d \in Seq(S), NEW level
    PROVE  /\ FlattenSeq(<<a, b, c, d>>) \in Seq(S)
           /\ Len(FlattenSeq(<<a, b, c, d>>)) = Len(a) + Len(b) + Len(c) + Len(d)
           /\ Count(FlattenSeq(<<a, b, c, d>>), level) =
                  Count(a, level) + Count(b, level) + Count(c, level) + Count(d, level)
<1>1. FlattenSeq(<<a, b, c, d>>) = ((a \o b) \o c) \o d
  <2>1. PICK t, w : t = <<a, b, c, d>> /\ w = ((a \o b) \o c) \o d
      OBVIOUS
  <2>2. FlattenSeq(t) = w
      BY <2>1, FlattenFour
  <2>q. QED
      BY <2>1, <2>2, Zenon
<1>2. /\ a \o b \in Seq(S) /\ (a \o b) \o c \in Seq(S) /\ ((a \o b) \o c) \o d \in Seq(S)
      /\ Len(((a \o b) \o c) \o d) = Len(a) + Len(b) + Len(c) + Len(d)
    OBVIOUS
<1>3. PICK u, v : u = a \o b /\ v = u \o c
    OBVIOUS
<1>4. u \in Seq(S) /\ v \in Seq(S) /\ ((a \o b) \o c) \o d = v \o d
    BY <1>2, <1>3, Zenon
<1>5. Count(u, level) = Count(a, level) + Count(b, level)
    BY <1>3, CountConcat
<1>6. Count(v, level) = Count(u, level) + Count(c, level)
  <2>1. u \in Seq(S) /\ v = u \o c
      BY <1>3, <1>4
  <2>q. QED
      BY <2>1, CountConcat
<1>7. Count(v \o d, level) = Count(v, level) + Count(d, level)
    BY <1>4, CountConcat
<1>q. QED
    BY <1>1, <1>2, <1>4, <1>5, <1>6, <1>7, Zenon

\* A filter's sections have as many items as the filter's count.
LEMMA FilterShows ==
    ASSUME NEW a \in Seq(Levels), NEW b \in Seq(Levels), NEW c \in Seq(Levels), NEW d \in Seq(Levels),
           sections = <<a, b, c, d>>, NEW level \in Levels
    PROVE  Len(FlattenSeq(visibleSections(level))) = Count(FlattenSeq(sections), level)
<1>1. PICK p, q, r, s : /\ p = OfLevel(a, level) /\ q = OfLevel(b, level)
                        /\ r = OfLevel(c, level) /\ s = OfLevel(d, level)
    OBVIOUS
<1>2. p \in Seq({level}) /\ q \in Seq({level}) /\ r \in Seq({level}) /\ s \in Seq({level})
    BY <1>1, PickedParts, Zenon
<1>3. level # "all"
    BY DEF Levels
<1>4. visibleSections(level) = <<p, q, r, s>>
  <2>1. visibleSections(level) = [i \in DOMAIN sections |-> OfLevel(sections[i], level)]
      BY <1>3, Zenon DEF visibleSections
  <2>2. /\ DOMAIN sections = 1 .. 4 /\ sections[1] = a /\ sections[2] = b /\ sections[3] = c /\ sections[4] = d
      OBVIOUS
  <2>3. PICK shown : shown = [i \in 1 .. 4 |-> OfLevel(sections[i], level)]
      OBVIOUS
  <2>4. 1 \in 1 .. 4 /\ 2 \in 1 .. 4 /\ 3 \in 1 .. 4 /\ 4 \in 1 .. 4
      OBVIOUS
  <2>5. shown[1] = p /\ shown[2] = q /\ shown[3] = r /\ shown[4] = s /\ shown = [i \in 1 .. 4 |-> shown[i]]
      BY <1>1, <2>2, <2>3, <2>4, Zenon
  <2>6. shown = <<p, q, r, s>>
      BY <2>5
  <2>q. QED
      BY <2>1, <2>2, <2>3, <2>6, Zenon
<1>5. Len(FlattenSeq(<<p, q, r, s>>)) = Len(p) + Len(q) + Len(r) + Len(s)
  <2>1. PICK T, t : T = {level} /\ t = <<p, q, r, s>>
      OBVIOUS
  <2>2. p \in Seq(T) /\ q \in Seq(T) /\ r \in Seq(T) /\ s \in Seq(T)
      BY <1>2, <2>1, Zenon
  <2>3. Len(FlattenSeq(t)) = Len(p) + Len(q) + Len(r) + Len(s)
      BY <2>1, <2>2, LengthOfFour
  <2>q. QED
      BY <2>1, <2>3, Zenon
<1>6. Count(FlattenSeq(<<a, b, c, d>>), level) = Count(a, level) + Count(b, level) + Count(c, level) + Count(d, level)
    BY CountOfFour
<1>q. QED
    BY <1>1, <1>4, <1>5, <1>6, Zenon DEF Count

\* CountsAgree: what is counted in the status line and in the report is what is shown and
\* listed, and each filter shows as many items as its button says.
THEOREM CountsAlwaysAgree == AnalysisSpec => []CountsAgree
<1>1. AnalysisInv => CountsAgree
  <2> SUFFICES ASSUME AnalysisInv, step = "done" PROVE CountsAgree
      BY Zenon DEF CountsAgree
  <2>1. PICK a, b, c, d : Tallied(a, b, c, d) /\ sections = <<a, b, c, d>>
      BY SectionsTallied, Zenon
  <2>2. a \in Seq(Levels) /\ b \in Seq(Levels) /\ c \in Seq(Levels) /\ d \in Seq(Levels)
      BY <2>1, Zenon DEF Tallied
  <2>3. PICK all : all = FlattenSeq(sections)
      OBVIOUS
  <2>4. /\ all \in Seq(Levels) /\ Len(all) = Len(a) + Len(b) + Len(c) + Len(d)
        /\ Count(all, "valid") = Count(a, "valid") + Count(b, "valid") + Count(c, "valid") + Count(d, "valid")
        /\ Count(all, "error") = Count(a, "error") + Count(b, "error") + Count(c, "error") + Count(d, "error")
    <3>1. all = FlattenSeq(<<a, b, c, d>>)
        BY <2>1, <2>3, Zenon
    <3>q. QED
        BY <2>2, <3>1, CountOfFour
  <2>5. \A level \in Levels : counts[level] = Count(all, level) /\ Count(all, level) \in Nat
      BY <2>3, <2>4, PickedParts, Zenon DEF counts, Count
  <2>6. PICK e, w, n, v : /\ e = Count(all, "error") /\ w = Count(all, "warning")
                          /\ n = Count(all, "note") /\ v = Count(all, "valid")
      OBVIOUS
  <2>7. "error" \in Levels /\ "warning" \in Levels /\ "note" \in Levels /\ "valid" \in Levels
      BY Zenon DEF Levels
  <2>8. /\ counts["error"] = e /\ counts["warning"] = w /\ counts["note"] = n /\ counts["valid"] = v
        /\ e \in Nat /\ w \in Nat /\ n \in Nat /\ v \in Nat
      BY <2>5, <2>6, <2>7, Zenon
  <2>9. total = e + w + n + v
    <3>1. total = Sum(<<e, w, n, v>>)
        BY <2>8, Zenon DEF total
    <3>q. QED
        BY <2>8, <3>1, SumOfFour
  <2>10. total = Len(all)
      BY <2>4, <2>6, <2>9, CountsOfAll, Zenon DEF FourCounts
  <2>11. PICK se, sw, de, f, s, dv, ce :
             /\ se = Len(syntaxErrors) /\ sw = Len(syntaxWarnings) /\ de = Len(documentErrors)
             /\ f = Sum(FindingNumbers) /\ s = Issues /\ dv = Count(d, "valid") /\ ce = Count(c, "error")
      OBVIOUS
  <2>12. se \in Nat /\ sw \in Nat /\ de \in Nat
    <3>1. /\ syntaxErrors \in Seq(Notices) /\ syntaxWarnings \in Seq(Notices)
          /\ documentErrors \in Seq(Notices)
        BY Zenon DEF AnalysisInv, AnalysisTypes
    <3>q. QED
        BY <2>11, <3>1
  <2>13. dv \in Nat /\ ce \in Nat /\ Count(d, "error") \in Nat
      BY <2>2, <2>11, PickedParts, Zenon
  <2>14. /\ Len(a) = se + sw /\ Count(a, "valid") = 0 /\ Count(a, "error") = se
         /\ Len(b) = de /\ Count(b, "valid") = 0 /\ Count(b, "error") = de
         /\ Len(c) = f /\ Count(c, "valid") = 0
         /\ Len(d) = dv + s /\ Count(d, "error") = invalidSchemaCount /\ s \in Nat
      BY <2>1, <2>11, Zenon DEF Tallied
  <2>15. f \in Nat
    <3>1. \A x \in Seq(Levels) : Len(x) \in Nat
        OBVIOUS
    <3>q. QED
        BY <2>2, <2>14, <3>1, Zenon
  <2>16. Len(all) = (se + sw) + de + f + (dv + s) /\ v = 0 + 0 + 0 + dv
         /\ e = se + de + ce + invalidSchemaCount
      BY <2>4, <2>6, <2>11, <2>14, Zenon
  <2>17. Len(errors) = se + de /\ (errors # <<>> => se + de # 0)
    <3>1. /\ syntaxErrors \in Seq(Notices) /\ documentErrors \in Seq(Notices)
        BY Zenon DEF AnalysisInv, AnalysisTypes
    <3>2. PICK both : both = syntaxErrors \o documentErrors
        OBVIOUS
    <3>3. Len(both) = se + de /\ (both # <<>> => Len(both) # 0)
        BY <2>11, <3>1, <3>2
    <3>q. QED
        BY <3>2, <3>3, Zenon DEF errors
  <2>18. reportFindingCount = (se + de) + sw + s + f
    <3>1. OverDocuments(schemaIssues) = Sum(IssueNumbers)
        BY Zenon DEF OverDocuments, IssueNumbers
    <3>2. OverDocuments(LAMBDA document : Len(document.findings)) = f
        BY <2>11, Zenon DEF OverDocuments, FindingNumbers
    <3>3. s = IF mode = "kubernetes" THEN OverDocuments(schemaIssues) ELSE 0
        BY <2>11, <3>1, Zenon DEF Issues
    <3>q. QED
        BY <2>11, <2>17, <3>2, <3>3, Zenon DEF reportFindingCount
  <2>19. reportFindingCount = total - counts["valid"] /\ reportFindingCount \in Nat
    <3>1. (se + de) + sw + s + f = ((se + sw) + de + f + (dv + s)) - (0 + 0 + 0 + dv)
          /\ (se + de) + sw + s + f \in Nat
        BY <2>12, <2>13, <2>14, <2>15
    <3>q. QED
        BY <2>8, <2>10, <2>16, <2>18, <3>1, Zenon
  <2>20. reportFindingCount = reportEntries
      BY <2>11, <2>17, <2>18, EntriesCounted, Zenon
  <2>f. findingCount = reportFindingCount
    <3>1. PICK issues, sums : /\ issues = [i \in DOMAIN documents |-> schemaIssues(documents[i])]
                              /\ sums = [i \in DOMAIN documents |->
                                             IF documents[i].schema.status = "invalid"
                                             THEN Len(documents[i].schema.errors)
                                             ELSE IF documents[i].schema.status = "valid" THEN 0 ELSE 1]
        OBVIOUS
    <3>2. ASSUME mode = "kubernetes" PROVE issues = sums
      <4>1. \A i \in DOMAIN documents : documents[i] \in ResourceDocuments
        <5>1. documents \in Seq(ResourceDocuments)
            BY <3>2, Zenon DEF AnalysisInv, ResourcesOnly
        <5>q. QED
            BY <5>1
      <4>q. QED
          BY <3>1, <4>1, IssuesOfOne, Zenon
    <3>3. schemaIssueCount = IF mode = "kubernetes" THEN Sum(sums) ELSE 0
        BY <3>1, Zenon DEF schemaIssueCount, OverDocuments
    <3>4. (IF mode = "kubernetes" THEN OverDocuments(schemaIssues) ELSE 0)
          = IF mode = "kubernetes" THEN Sum(issues) ELSE 0
        BY <3>1, Zenon DEF OverDocuments
    <3>5. schemaIssueCount = IF mode = "kubernetes" THEN OverDocuments(schemaIssues) ELSE 0
        BY <3>2, <3>3, <3>4, Zenon
    <3>q. QED
        BY <3>5, Zenon DEF findingCount, reportFindingCount
  <2>21. ASSUME NEW filter \in Filters
         PROVE  Len(FlattenSeq(visibleSections(filter))) = visibleCount(filter)
    <3>1. CASE filter = "all"
      <4>1. visibleSections(filter) = [i \in DOMAIN sections |-> sections[i]]
          BY <3>1, Zenon DEF visibleSections
      <4>2. [i \in DOMAIN sections |-> sections[i]] = sections
          BY <2>1
      <4>q. QED
          BY <2>3, <2>10, <3>1, <4>1, <4>2, Zenon DEF visibleCount
    <3>2. CASE filter \in Levels
      <4>1. filter # "all"
          BY <3>2 DEF Levels
      <4>2. Len(FlattenSeq(visibleSections(filter))) = Count(FlattenSeq(sections), filter)
          BY <2>1, <2>2, <3>2, FilterShows, Zenon
      <4>q. QED
          BY <2>3, <2>5, <3>2, <4>1, <4>2, Zenon DEF visibleCount
    <3>q. QED
        BY <2>21, <3>1, <3>2, Zenon DEF Filters
  <2>22. ASSUME statusClass = "valid", NEW level \in Levels \ {"valid"} PROVE counts[level] = 0
    <3>1. ~(reportFindingCount > 0)
      <4>1. ~(findingCount > 0)
          BY <2>22 DEF statusClass
      <4>q. QED
          BY <2>f, <4>1
    <3>2. reportFindingCount = (e + w + n + v) - v
        BY <2>8, <2>9, <2>19, Zenon
    <3>3. e = 0 /\ w = 0 /\ n = 0
      <4>1. PICK k : k = reportFindingCount
          OBVIOUS
      <4>2. ~(k > 0) /\ k \in Nat /\ k = (e + w + n + v) - v
          BY <2>19, <3>1, <3>2, <4>1, Zenon
      <4>q. QED
          BY <2>8, <4>2
    <3>4. level = "error" \/ level = "warning" \/ level = "note"
        BY <2>22 DEF Levels
    <3>q. QED
        BY <2>8, <3>3, <3>4, Zenon
  <2>23. ASSUME statusClass = "error" PROVE counts["error"] > 0
    <3>1. errors # <<>> \/ invalidSchemaCount > 0
        BY <2>23 DEF statusClass
    <3>2. PICK i : i = invalidSchemaCount
        OBVIOUS
    <3>3. i \in Nat /\ e = se + de + ce + i /\ (se + de # 0 \/ i > 0)
        BY <2>13, <2>14, <2>16, <2>17, <3>1, <3>2, Zenon
    <3>4. e > 0
        BY <2>12, <2>13, <3>3
    <3>q. QED
        BY <2>8, <3>4, Zenon
  <2>q. QED
      BY <2>3, <2>10, <2>f, <2>19, <2>20, <2>21, <2>22, <2>23, Zenon DEF CountsAgree
<1>q. QED
    BY <1>1, AnalysisInvariant, PTL

=============================================================================
