------------------------- MODULE MCWorkbenchFunctions -------------------------
(***************************************************************************)
(* Diff: texts of up to four lines over three, and up to two lines with    *)
(* every kind of terminator.  Analysis: up to three documents, of four     *)
(* without a resource and eleven with one.  Search: mappings with two      *)
(* entries, nested once more, whose keys print alike when they are not     *)
(* quoted, and texts with a character that is longer in lower case.        *)
(***************************************************************************)
EXTENDS WorkbenchFunctions

SourcesOver(texts, ends, n) ==
    {s \in UNION {[1 .. k -> [text : texts, end : ends]] : k \in 0 .. n} : IsSource(s)}

MCFormatted == SourcesOver({"x", "y", "z"}, {"lf"}, 3) \cup SourcesOver({"x", "y"}, {"lf"}, 4)

MCSources == MCFormatted \cup SourcesOver({"", "x"}, Terminators, 2)

-----------------------------------------------------------------------------

web == {<<"app", "web">>}

Blank ==
    [apiVersion |-> "v1", kind |-> "Pod", metadataName |-> "", generateName |-> "",
     namespace |-> "", labels |-> {}, templateLabels |-> {}, jobTemplateLabels |-> {},
     selector |-> {}, matchExpressions |-> FALSE, serviceType |-> "", targetPorts |-> <<>>,
     portNames |-> {}, review |-> <<>>, mismatches |-> <<>>]

Web(apiVersion, kind) ==
    [Blank EXCEPT !.apiVersion = apiVersion, !.kind = kind, !.metadataName = "web"]

Resources ==
    {[Web("v1", "Service") EXCEPT !.selector = web,
         !.targetPorts = <<[named |-> TRUE, port |-> "http", key |-> "[0]"]>>],
     [Web("v1", "Service") EXCEPT !.selector = web, !.serviceType = "ExternalName"],
     [Web("apps/v1", "Deployment") EXCEPT !.selector = web, !.templateLabels = web,
         !.portNames = {"http"}, !.mismatches = <<<<"spec", "replicas">>>>],
     [Web("apps/v1", "Deployment") EXCEPT !.namespace = "prod", !.selector = web],
     [Web("batch/v1", "CronJob") EXCEPT !.jobTemplateLabels = web],
     [Web("v1", "Pod") EXCEPT !.labels = web,
         !.review = <<finding("note", "review", <<"spec", "containers", "[0]", "image">>)>>],
     [Blank EXCEPT !.generateName = "web"],
     [Blank EXCEPT !.kind = ""],
     Web("example.com/v1", "Widget"),
     Web("v1", "Event"),
     [Web("v1", "ConfigMap") EXCEPT
         !.mismatches = <<<<"data", "0">>, <<"metadata", "labels", "app.io">>>>]}

\* The nodes a resource's document has.
NodesOf(r) ==
    LET present ==
            {<<TRUE, <<"spec">>>>,
             <<r.apiVersion # "", <<"apiVersion">>>>,
             <<r.kind # "", <<"kind">>>>,
             <<r.metadataName # "", <<"metadata", "name">>>>,
             <<r.kind = "ConfigMap", <<"metadata", "labels", "app">>>>,
             <<r.kind = "ConfigMap", <<"metadata", "labels", "app.io">>>>,
             <<r.kind = "ConfigMap", <<"data", "0">>>>,
             <<r.kind = "Service" /\ r.selector # {}, <<"spec", "selector", "app">>>>,
             <<r.kind = "Deployment", <<"spec", "selector", "matchLabels", "app">>>>,
             <<r.targetPorts # <<>>, <<"spec", "ports", "[0]", "targetPort">>>>,
             <<r.review # <<>>, <<"spec", "containers", "[0]">>>>}
    IN  UNION {Prefixes(p[2]) : p \in {p \in present : p[1]}}

Document(root, resource) ==
    [errors |-> 0, warnings |-> 0, root |-> root, throws |-> FALSE, nodes |-> NodesOf(resource),
     resource |-> resource]

MCParsedDocuments ==
    {Document("mapping", resource) : resource \in Resources}
    \cup {Document("null", Blank), Document("sequence", Blank),
          [Document("scalar", Blank) EXCEPT !.warnings = 1],
          [Document("mapping", Blank) EXCEPT !.errors = 2],
          [Document("mapping", Blank) EXCEPT !.throws = TRUE]}

MCParsedSources == UNION {[1 .. n -> MCParsedDocuments] : n \in 1 .. 3}

MCPathKeys ==
    {"apiVersion", "kind", "metadata", "name", "labels", "spec", "selector", "matchLabels",
     "ports", "targetPort", "replicas", "containers", "image", "data", "[0]", "0", "app.io", "app", "io"}

MCreadBack ==
    [key \in MCPathKeys |-> CASE key = "app.io" -> <<"app", "io">>
                            [] key = "0"      -> <<"[0]">>
                            [] OTHER          -> <<key>>]

MCapiGroup ==
    [version \in {"v1", "apps/v1", "batch/v1", "example.com/v1"} |->
        CASE version = "v1"       -> ""
          [] version = "apps/v1"  -> "apps"
          [] version = "batch/v1" -> "batch"
          [] OTHER                -> "example.com"]

MCValidators ==
    {<<"v1", "Pod">>, <<"v1", "Service">>, <<"v1", "ConfigMap">>,
     <<"apps/v1", "Deployment">>, <<"batch/v1", "CronJob">>}

-----------------------------------------------------------------------------

Scalar == [scalar |-> TRUE, array |-> FALSE, text |-> <<"A">>, entries |-> <<>>]

Collection(array, entries) ==
    [scalar |-> FALSE, array |-> array, text |-> <<>>, entries |-> entries]

Entry(key, value) == [key |-> key, value |-> value]

TreeKeys == {<<"a">>, <<"b">>, <<"0">>, <<"a", ".", "b">>, <<"0", "\"", "]", "[", "\"", "0">>}

Inner ==
    {Scalar}
    \cup {Collection(FALSE, <<Entry(key, Scalar)>>) : key \in TreeKeys}
    \cup {Collection(TRUE, <<Entry(<<"0">>, value)>>) :
              value \in {Scalar, Collection(FALSE, <<Entry(<<"a">>, Scalar)>>)}}

Outer ==
    {Collection(FALSE, <<Entry(p[1], p[2]), Entry(p[3], p[4])>>) :
        p \in {p \in TreeKeys \X Inner \X TreeKeys \X Inner : p[1] # p[3]}}

MCNodes == Inner \cup Outer

MCTrees == {<<root>> : root \in Outer} \cup {<<first, second>> : first, second \in Inner}

Words(n) == UNION {[1 .. k -> {"a", "A", "I", " "}] : k \in 0 .. n}

MCTextSamples == Words(4)

MCQueries == Words(2)

MCSimpleKeys == {<<"a">>, <<"b">>}

MCCharacters ==
    {"a", "b", "r", "o", "t", "i", "dot", "A", "I", "0", " ", "$", ".", "[", "]", "\"", "\\"}

\* "I" stands for the dotted capital I, two characters in lower case.
MClower ==
    [c \in MCCharacters |->
        CASE c = "A" -> <<"a">>
          [] c = "I" -> <<"i", "dot">>
          [] OTHER   -> <<c>>]

=============================================================================
