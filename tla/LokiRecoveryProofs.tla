-------------------------- MODULE LokiRecoveryProofs --------------------------
(***************************************************************************)
(* Proofs about backup and restore, for any number of runs, failures,      *)
(* kills and repairs.                                                      *)
(*                                                                         *)
(* The script keeps its place in no variable, but where it stands says     *)
(* what it has done: the invariant gives, for each command, what the       *)
(* cluster, the files of the present backup and the restore are like just  *)
(* before it runs.                                                         *)
(***************************************************************************)
EXTENDS LokiRecovery, TLAPS

Up(w) == replicas[w] = 1 /\ pods[w] = "ready"

Down(w) == replicas[w] = 0 /\ pods[w] = "absent"

WithHelper == {"wait_helper", "open_partial", "stream", "validate", "rename",
               "write_sha", "write_json", "delete_helper"}

\* The workloads and the helper, by where the script stands.  Only a failure that
\* is reported can leave a workload behind, and only a helper whose creation
\* failed can stay without one.
ClusterInv ==
    /\ at \in {"stop_alloy"} \cup InRestore => Up("loki") /\ Up("alloy") /\ ~helper
    /\ at \in InTry => ~failures
    /\ at \in {"stop_alloy", "wait_alloy"} => ~attemptedLoki
    /\ at \in {"stop_alloy", "wait_alloy", "stop_loki", "wait_loki", "create_helper"} =>
           ~helper /\ ~helperCreated
    /\ at = "wait_alloy" => replicas["alloy"] = 0 /\ Up("loki")
    /\ at = "stop_loki" => Down("alloy") /\ Up("loki") /\ attemptedLoki
    /\ at = "wait_loki" => Down("alloy") /\ replicas["loki"] = 0 /\ attemptedLoki
    /\ at = "create_helper" => Down("alloy") /\ Down("loki") /\ attemptedLoki
    /\ at \in WithHelper => Down("alloy") /\ Down("loki") /\ attemptedLoki /\ helperCreated
    /\ at \in InFinally \ {"delete_helper"} /\ helper =>
           failures \/ (error /\ ~helperCreated)
    /\ at = "loki_up" => Down("alloy")
    /\ at = "loki_ready" => Down("alloy") /\ replicas["loki"] = 1
    /\ at \in {"alloy_up", "alloy_ready", "report"} => failures \/ Up("loki")
    /\ at = "alloy_ready" => replicas["alloy"] = 1
    /\ at = "report" => failures \/ Up("alloy")
    /\ RecoveredOrReported
    /\ AlloyStopsFirstStartsLast

\* The files of the present backup by where the script stands, and what all have
\* in common: an archive that got its name is a cold one.
FilesInv ==
    /\ \A b \in Stamps : /\ b > stamp => files[b] = NoFiles
                         /\ files[b].sha # "none" => files[b].archive = "archive"
                         /\ files[b].json # "none" => files[b].sha = "whole"
                         /\ files[b].archive = "archive" => files[b].cold
    /\ at \in InTry => stamp \in Stamps /\ files[stamp].json = "none"
    /\ at \in InTry \ {"write_json"} => files[stamp].sha = "none"
    /\ at \in {"stream", "validate", "rename"} => files[stamp].cold
    /\ at \in {"write_sha", "write_json"} => files[stamp].archive = "archive"
    /\ at = "write_json" => files[stamp].sha = "whole"

\* The restored directory holds one whole, cold archive.
Served == directory.state = "extracted" /\ directory.whole /\ directory.cold

\* The restore by where the script stands; its archive cannot change meanwhile.
RestoreInv ==
    /\ at \in InRestore => /\ source \in Stamps
                           /\ files[source].cold /\ files[source].whole
    /\ at \in InRestore \ {"wait_validation"} => ~validationPod
    /\ at = "mkdir" => ~extractPod
    /\ at \in {"wait_extract", "extract"} => extractCreated
    /\ at = "delete_extract" => error \/ (extractCreated /\ Served)
    /\ at \in {"mkdir", "create_extract", "wait_extract", "extract"} => ~error
    /\ at \in {"create_policy", "create_validation", "wait_validation"} => Served /\ ~extractPod
    /\ at \in {"create_validation", "wait_validation"} => policy
    /\ ValidationServesArchive

RecoveryTyping ==
    /\ at \in {"idle"} \cup InTry \cup InFinally \cup InRestore
    /\ result \in {"none", "ok", "stopped", "incomplete", "killed"}
    /\ replicas \in [Workloads -> {0, 1}]
    /\ pods \in [Workloads -> {"absent", "starting", "ready", "ending"}]
    /\ helper \in BOOLEAN /\ attemptedLoki \in BOOLEAN /\ helperCreated \in BOOLEAN
    /\ error \in BOOLEAN /\ failures \in BOOLEAN
    /\ extractPod \in BOOLEAN /\ extractCreated \in BOOLEAN
    /\ policy \in BOOLEAN /\ validationPod \in BOOLEAN
    /\ stamp \in 0 .. MaxBackups
    /\ files \in [Stamps -> Files]
    /\ source \in Stamps \cup {0}
    /\ directory \in Directories

RecoveryInv == RecoveryTyping /\ ClusterInv /\ FilesInv /\ RestoreInv

-----------------------------------------------------------------------------

\* Both workloads run and nothing was ever backed up or restored.
LEMMA RecoveryInitial == RecoveryInit => RecoveryInv
<1> SUFFICES ASSUME RecoveryInit PROVE RecoveryInv
  OBVIOUS
<1>1. /\ ~helper /\ ~attemptedLoki /\ ~helperCreated /\ ~error /\ ~failures
      /\ ~extractPod /\ ~extractCreated /\ ~policy /\ ~validationPod
      /\ helper \in BOOLEAN /\ attemptedLoki \in BOOLEAN /\ helperCreated \in BOOLEAN
      /\ error \in BOOLEAN /\ failures \in BOOLEAN
      /\ extractPod \in BOOLEAN /\ extractCreated \in BOOLEAN
      /\ policy \in BOOLEAN /\ validationPod \in BOOLEAN
  BY Zenon DEF RecoveryInit
<1>2. NoFiles \in Files /\ Directory("absent") \in Directories
  BY DEF NoFiles, Files, Sidecar, Directory, Directories
<1>3. RecoveryTyping
  BY <1>1, <1>2, MaxBackupsAssumption DEF RecoveryInit, RecoveryTyping, Stamps
<1>4. ClusterInv
  BY <1>1 DEF RecoveryInit, ClusterInv, InTry, InFinally, InRestore, WithHelper, Workloads,
              RecoveredOrReported, AlloyStopsFirstStartsLast
<1>5. FilesInv
  BY DEF RecoveryInit, FilesInv, NoFiles, InTry
<1>6. RestoreInv
  BY <1>1 DEF RecoveryInit, RestoreInv, InRestore, ValidationServesArchive
<1> QED  BY <1>3, <1>4, <1>5, <1>6 DEF RecoveryInv

\* The cluster's own steps: a ready Pod goes only when it is not wanted, and comes
\* only when it is.
LEMMA PodsKeepInv ==
    ASSUME RecoveryInv, NEW w \in Workloads, PodStops(w) \/ PodEnds(w) \/ PodStarts(w) \/ PodReady(w)
    PROVE  RecoveryInv'
<1>1. /\ UNCHANGED <<at, result, replicas, helper, attemptedLoki, helperCreated, error, failures>>
      /\ UNCHANGED <<stamp, files, source, directory, extractPod, extractCreated, policy, validationPod>>
  BY DEF PodStops, PodEnds, PodStarts, PodReady, flagVars, fileVars, restoreVars
<1>2. pods' \in [Workloads -> {"absent", "starting", "ready", "ending"}]
  BY DEF PodStops, PodEnds, PodStarts, PodReady, RecoveryInv, RecoveryTyping
<1>3. RecoveryTyping' /\ FilesInv' /\ RestoreInv'
  BY <1>1, <1>2 DEF RecoveryInv, RecoveryTyping, FilesInv, RestoreInv, Served,
                    ValidationServesArchive
<1>4. \A v \in Workloads : (Up(v) => Up(v)') /\ (Down(v) => Down(v)')
  BY <1>1 DEF PodStops, PodEnds, PodStarts, PodReady, Up, Down, RecoveryInv, RecoveryTyping
<1>5. "loki" \in Workloads /\ "alloy" \in Workloads
  BY DEF Workloads
<1>6. RecoveredOrReported'
  BY <1>1, <1>4 DEF RecoveryInv, ClusterInv, RecoveredOrReported, Up
<1>7. AlloyStopsFirstStartsLast'
  BY <1>1, <1>4, <1>5 DEF RecoveryInv, ClusterInv, AlloyStopsFirstStartsLast, Down
<1>8. ClusterInv'
  BY <1>1, <1>4, <1>5, <1>6, <1>7 DEF RecoveryInv, ClusterInv
<1> QED  BY <1>3, <1>8 DEF RecoveryInv

\* A step that leaves the restore alone and does not lead into one.
LEMMA RestoreRests ==
    ASSUME RecoveryInv, UNCHANGED restoreVars, at' \notin InRestore
    PROVE  RestoreInv'
BY DEF RecoveryInv, RestoreInv, restoreVars, InRestore, ValidationServesArchive

\* A step that leaves the files alone and leads out of try, or stays outside.
LEMMA FilesRest ==
    ASSUME RecoveryInv, UNCHANGED fileVars, at' \notin InTry
    PROVE  FilesInv'
BY DEF RecoveryInv, FilesInv, fileVars, InTry

\* The two workloads' replica counts after a scale command.
LEMMA ScaledValues ==
    ASSUME RecoveryTyping, NEW w \in Workloads, NEW n \in {0, 1}
    PROVE  /\ Scaled(w, n) \in [Workloads -> {0, 1}]
           /\ Scaled(w, n)[w] = n
           /\ \A v \in Workloads \ {w} : Scaled(w, n)[v] = replicas[v]
BY DEF RecoveryTyping, Scaled

\* An exception in try: finally begins with the part the flags ask for, and what
\* the flags say about the cluster is true.
LEMMA RaiseKeepsCluster ==
    ASSUME RecoveryInv, at \in InTry, Raise,
           helperCreated => Down("alloy")' /\ Down("loki")' /\ attemptedLoki,
           attemptedLoki => Down("alloy")',
           ~attemptedLoki => Up("loki")',
           helper' \in BOOLEAN, replicas' \in [Workloads -> {0, 1}]
    PROVE  ClusterInv' /\ at' \in {"delete_helper", "loki_up", "alloy_up"}
<1>1. at' \in {"delete_helper", "loki_up", "alloy_up"}
  BY DEF Raise, RecoveryBegins
<1>2. error' /\ failures' = failures /\ ~failures
      /\ attemptedLoki' = attemptedLoki /\ helperCreated' = helperCreated
  BY DEF Raise, RecoveryInv, ClusterInv
<1>3. AlloyStopsFirstStartsLast'
  BY DEF AlloyStopsFirstStartsLast, Down, Up
<1>4. RecoveredOrReported'
  BY <1>1 DEF RecoveredOrReported
<1>5. CASE helperCreated
  <2>1. at' = "delete_helper"
    BY <1>5 DEF Raise, RecoveryBegins
  <2> QED
    BY <1>2, <1>3, <1>4, <1>5, <2>1 DEF ClusterInv, InTry, InFinally, InRestore, WithHelper
<1>6. CASE ~helperCreated /\ attemptedLoki
  <2>1. at' = "loki_up"
    BY <1>6 DEF Raise, RecoveryBegins
  <2> QED
    BY <1>2, <1>3, <1>4, <1>6, <2>1 DEF ClusterInv, InTry, InFinally, InRestore, WithHelper
<1>7. CASE ~helperCreated /\ ~attemptedLoki
  <2>1. at' = "alloy_up"
    BY <1>7 DEF Raise, RecoveryBegins
  <2> QED
    BY <1>2, <1>3, <1>4, <1>7, <2>1 DEF ClusterInv, InTry, InFinally, InRestore, WithHelper
<1> QED  BY <1>1, <1>5, <1>6, <1>7

\* Raising keeps the types and the restore, whatever it does to files and cluster.
LEMMA RaiseKeepsInv ==
    ASSUME RecoveryInv, at \in InTry, Raise, UNCHANGED restoreVars, UNCHANGED pods,
           helperCreated => Down("alloy")' /\ Down("loki")' /\ attemptedLoki,
           attemptedLoki => Down("alloy")',
           ~attemptedLoki => Up("loki")',
           helper' \in BOOLEAN, replicas' \in [Workloads -> {0, 1}],
           UNCHANGED stamp, files' \in [Stamps -> Files],
           \A b \in Stamps : /\ b > stamp => files'[b] = NoFiles
                             /\ files'[b].sha # "none" => files'[b].archive = "archive"
                             /\ files'[b].json # "none" => files'[b].sha = "whole"
                             /\ files'[b].archive = "archive" => files'[b].cold
    PROVE  RecoveryInv'
<1>1. ClusterInv' /\ at' \in {"delete_helper", "loki_up", "alloy_up"}
  BY RaiseKeepsCluster
<1>2. error' \in BOOLEAN /\ UNCHANGED <<result, attemptedLoki, helperCreated, failures>>
  BY Zenon DEF Raise
<1>3. RecoveryTyping'
  BY <1>1, <1>2 DEF RecoveryInv, RecoveryTyping, restoreVars, InFinally
<1>4. FilesInv'
  BY <1>1 DEF FilesInv, InTry
<1>5. RestoreInv'
  BY <1>1, RestoreRests DEF InRestore
<1> QED  BY <1>1, <1>3, <1>4, <1>5 DEF RecoveryInv

\* The same when the files are not touched.
LEMMA RaiseKeepsInvAndFiles ==
    ASSUME RecoveryInv, at \in InTry, Raise, UNCHANGED restoreVars, UNCHANGED pods,
           helperCreated => Down("alloy")' /\ Down("loki")' /\ attemptedLoki,
           attemptedLoki => Down("alloy")',
           ~attemptedLoki => Up("loki")',
           helper' \in BOOLEAN, replicas' \in [Workloads -> {0, 1}],
           UNCHANGED fileVars
    PROVE  RecoveryInv'
<1>1. /\ UNCHANGED stamp /\ files' \in [Stamps -> Files]
      /\ \A b \in Stamps : /\ b > stamp => files'[b] = NoFiles
                           /\ files'[b].sha # "none" => files'[b].archive = "archive"
                           /\ files'[b].json # "none" => files'[b].sha = "whole"
                           /\ files'[b].archive = "archive" => files'[b].cold
  BY DEF fileVars, RecoveryInv, RecoveryTyping, FilesInv
<1> QED  BY <1>1, RaiseKeepsInv

-----------------------------------------------------------------------------

\* A backup begins with everything up.
LEMMA StartBackupKeepsInv ==
    ASSUME RecoveryInv, StartBackup
    PROVE  RecoveryInv'
<1>1. /\ at' = "stop_alloy" /\ result' = "none" /\ stamp' = stamp + 1
      /\ UNCHANGED <<replicas, pods, helper, files, source, directory>>
      /\ UNCHANGED <<extractPod, extractCreated, policy, validationPod>>
      /\ UNCHANGED restoreVars
  BY DEF StartBackup, clusterVars, restoreVars
<1>2. /\ ~attemptedLoki' /\ ~helperCreated' /\ ~error' /\ ~failures'
      /\ attemptedLoki' \in BOOLEAN /\ helperCreated' \in BOOLEAN
      /\ error' \in BOOLEAN /\ failures' \in BOOLEAN
  BY Zenon DEF StartBackup
<1>3. Up("loki") /\ Up("alloy") /\ ~helper
  BY DEF StartBackup, preflight, Workloads, Up
<1>4. stamp' \in 0 .. MaxBackups /\ stamp' \in Stamps /\ stamp' > stamp
  BY MaxBackupsAssumption DEF StartBackup, RecoveryInv, RecoveryTyping, Stamps
<1>5. RecoveryTyping'
  BY <1>1, <1>2, <1>4 DEF RecoveryInv, RecoveryTyping, InTry
<1>6. ClusterInv'
  BY <1>1, <1>2, <1>3 DEF ClusterInv, Up, InTry, InFinally, InRestore, WithHelper,
           RecoveredOrReported, AlloyStopsFirstStartsLast
<1>7. FilesInv'
  BY <1>1, <1>4 DEF RecoveryInv, RecoveryTyping, FilesInv, NoFiles, InTry, Stamps
<1>8. RestoreInv'
  BY <1>1, RestoreRests DEF InRestore
<1> QED  BY <1>5, <1>6, <1>7, <1>8 DEF RecoveryInv

\* Alloy, then Loki: the commands that stop them and wait for their Pods to go.
LEMMA StoppingKeepsInv ==
    ASSUME RecoveryInv, StopAlloy \/ WaitAlloy \/ StopLoki \/ WaitLoki
    PROVE  RecoveryInv'
<1> USE DEF InTry, InFinally, InRestore, WithHelper
<1>1. /\ UNCHANGED <<pods, helper, stamp, files>> /\ UNCHANGED restoreVars
      /\ UNCHANGED fileVars /\ at \in InTry
      /\ UNCHANGED <<source, directory, extractPod, extractCreated, policy, validationPod>>
  BY DEF StopAlloy, WaitAlloy, StopLoki, WaitLoki, clusterVars, fileVars, restoreVars
<1>2. RecoveryTyping /\ helper' \in BOOLEAN /\ "loki" \in Workloads /\ "alloy" \in Workloads
  BY <1>1 DEF RecoveryInv, RecoveryTyping, Workloads
<1>3. replicas' \in {replicas, Scaled("alloy", 0), Scaled("loki", 0)}
      /\ replicas' \in [Workloads -> {0, 1}]
  BY <1>2, ScaledValues DEF StopAlloy, WaitAlloy, StopLoki, WaitLoki, clusterVars, RecoveryTyping
<1>4. CASE Raise
  <2>1. ~helperCreated
    BY <1>1 DEF StopAlloy, WaitAlloy, StopLoki, WaitLoki, RecoveryInv, ClusterInv
  <2>2. attemptedLoki => Down("alloy")'
    BY <1>1, <1>2, <1>3, ScaledValues DEF StopAlloy, WaitAlloy, StopLoki, WaitLoki,
           RecoveryInv, ClusterInv, Down, RecoveryTyping
  <2>3. ~attemptedLoki => Up("loki")'
    BY <1>1, <1>2, ScaledValues DEF StopAlloy, WaitAlloy, StopLoki, WaitLoki, clusterVars,
           RecoveryInv, ClusterInv, Up
  <2> QED  BY <1>1, <1>2, <1>3, <1>4, <2>1, <2>2, <2>3, RaiseKeepsInvAndFiles
<1>5. CASE ~Raise
  <2>1. at' \in {"wait_alloy", "stop_loki", "wait_loki", "create_helper"}
    BY <1>5 DEF StopAlloy, WaitAlloy, StopLoki, WaitLoki, Proceed
  <2>2. attemptedLoki' \in BOOLEAN /\ UNCHANGED <<result, helperCreated, error, failures>>
    BY <1>2, <1>5 DEF StopAlloy, WaitAlloy, StopLoki, WaitLoki, Proceed, flagVars, RecoveryTyping
  <2>3. RecoveryTyping'
    BY <1>1, <1>2, <1>3, <2>1, <2>2 DEF RecoveryTyping
  <2>4. RestoreInv'
    BY <1>1, <2>1, RestoreRests
  <2>5. FilesInv'
    BY <1>1, <2>1 DEF StopAlloy, WaitAlloy, StopLoki, WaitLoki, RecoveryInv, FilesInv
  <2>6. ClusterInv'
    <3>1. RecoveredOrReported'
      BY <2>1 DEF RecoveredOrReported
    <3>2. CASE StopAlloy
      <4>1. /\ replicas' = Scaled("alloy", 0) /\ at' = "wait_alloy"
            /\ UNCHANGED attemptedLoki
        BY <1>5, <3>2 DEF StopAlloy, Proceed, flagVars
      <4>2. replicas'["alloy"] = 0 /\ replicas'["loki"] = replicas["loki"]
        BY <1>2, <4>1, ScaledValues
      <4>3. Up("loki")' /\ ~failures' /\ ~helper' /\ ~helperCreated' /\ ~attemptedLoki'
        BY <1>1, <2>2, <3>2, <4>1, <4>2 DEF StopAlloy, RecoveryInv, ClusterInv, Up
      <4>4. AlloyStopsFirstStartsLast'
        BY <4>3 DEF AlloyStopsFirstStartsLast, Up
      <4> QED  BY <3>1, <4>1, <4>2, <4>3, <4>4 DEF ClusterInv
    <3>3. CASE WaitAlloy
      <4>1. /\ UNCHANGED replicas /\ at' = "stop_loki" /\ attemptedLoki' /\ pods["alloy"] = "absent"
        BY <1>5, <3>3 DEF WaitAlloy, clusterVars
      <4>2. /\ Down("alloy")' /\ Up("loki")' /\ ~failures' /\ ~helper' /\ ~helperCreated'
        BY <1>1, <2>2, <3>3, <4>1 DEF WaitAlloy, RecoveryInv, ClusterInv, Up, Down
      <4>3. AlloyStopsFirstStartsLast'
        BY <4>2 DEF AlloyStopsFirstStartsLast, Up
      <4> QED  BY <3>1, <4>1, <4>2, <4>3 DEF ClusterInv
    <3>4. CASE StopLoki
      <4>1. /\ replicas' = Scaled("loki", 0) /\ at' = "wait_loki"
            /\ UNCHANGED attemptedLoki
        BY <1>5, <3>4 DEF StopLoki, Proceed, flagVars
      <4>2. replicas'["loki"] = 0 /\ replicas'["alloy"] = replicas["alloy"]
        BY <1>2, <4>1, ScaledValues
      <4>3. Down("alloy")' /\ ~failures' /\ ~helper' /\ ~helperCreated' /\ attemptedLoki'
        BY <1>1, <2>2, <3>4, <4>1, <4>2 DEF StopLoki, RecoveryInv, ClusterInv, Down
      <4>4. AlloyStopsFirstStartsLast'
        BY <4>3 DEF AlloyStopsFirstStartsLast, Down
      <4> QED  BY <3>1, <4>1, <4>2, <4>3, <4>4 DEF ClusterInv
    <3>5. CASE WaitLoki
      <4>1. /\ UNCHANGED replicas /\ at' = "create_helper" /\ pods["loki"] = "absent"
            /\ UNCHANGED attemptedLoki
        BY <1>5, <3>5 DEF WaitLoki, Proceed, flagVars, clusterVars
      <4>2. /\ Down("alloy")' /\ Down("loki")' /\ ~failures' /\ ~helper' /\ ~helperCreated'
            /\ attemptedLoki'
        BY <1>1, <2>2, <3>5, <4>1 DEF WaitLoki, RecoveryInv, ClusterInv, Down
      <4>3. AlloyStopsFirstStartsLast'
        BY <4>2 DEF AlloyStopsFirstStartsLast, Down
      <4> QED  BY <3>1, <4>1, <4>2, <4>3 DEF ClusterInv
    <3> QED  BY <3>2, <3>3, <3>4, <3>5
  <2> QED  BY <2>3, <2>4, <2>5, <2>6 DEF RecoveryInv
<1> QED  BY <1>4, <1>5

\* The helper Pod, created while neither workload has one.
LEMMA CreateHelperKeepsInv ==
    ASSUME RecoveryInv, CreateHelper
    PROVE  RecoveryInv'
<1> USE DEF InTry, InFinally, InRestore, WithHelper
<1>1. /\ UNCHANGED <<pods, replicas, stamp, files>> /\ UNCHANGED restoreVars
      /\ UNCHANGED fileVars /\ at = "create_helper"
      /\ UNCHANGED <<source, directory, extractPod, extractCreated, policy, validationPod>>
  BY DEF CreateHelper, fileVars, restoreVars
<1>2. RecoveryTyping /\ helper' \in BOOLEAN /\ replicas' \in [Workloads -> {0, 1}]
  BY <1>1 DEF CreateHelper, RecoveryInv, RecoveryTyping
<1>3. Down("alloy")' /\ Down("loki")' /\ attemptedLoki /\ ~failures /\ ~helperCreated
  BY <1>1 DEF RecoveryInv, ClusterInv, Down
<1>4. CASE Raise
  BY <1>1, <1>2, <1>3, <1>4, RaiseKeepsInvAndFiles
<1>5. CASE ~Raise
  <2>1. at' = "wait_helper" /\ helperCreated' /\ UNCHANGED <<result, attemptedLoki, error, failures>>
    BY <1>5 DEF CreateHelper
  <2>2. helperCreated' \in BOOLEAN
    BY <1>5, Zenon DEF CreateHelper
  <2>3. RecoveryTyping'
    BY <1>1, <1>2, <2>1, <2>2 DEF RecoveryTyping
  <2>4. RestoreInv'
    BY <1>1, <2>1, RestoreRests
  <2>5. FilesInv'
    BY <1>1, <2>1 DEF RecoveryInv, FilesInv
  <2>6. RecoveredOrReported' /\ AlloyStopsFirstStartsLast'
    BY <1>3, <2>1 DEF RecoveredOrReported, AlloyStopsFirstStartsLast, Down
  <2>7. ClusterInv'
    BY <1>3, <2>1, <2>6 DEF ClusterInv
  <2> QED  BY <2>3, <2>4, <2>5, <2>7 DEF RecoveryInv
<1> QED  BY <1>4, <1>5

\* From the helper to the sidecars: the cluster rests with both workloads down, so
\* what is streamed is cold; the files follow one another.
LEMMA ArchivingKeepsInv ==
    ASSUME RecoveryInv,
           WaitHelper \/ OpenPartial \/ Stream \/ Validate \/ Rename \/ WriteSha \/ WriteJson
    PROVE  RecoveryInv'
<1> USE DEF InTry, InFinally, InRestore, WithHelper
<1>a. at \in {"wait_helper", "open_partial", "stream", "validate", "rename", "write_sha", "write_json"}
  BY DEF WaitHelper, OpenPartial, Stream, Validate, Rename, WriteSha, WriteJson
<1>1. /\ UNCHANGED <<pods, replicas, helper, stamp>> /\ UNCHANGED restoreVars
      /\ UNCHANGED <<source, directory, extractPod, extractCreated, policy, validationPod>>
  BY DEF WaitHelper, OpenPartial, Stream, Validate, Rename, WriteSha, WriteJson,
         clusterVars, fileVars, restoreVars
<1>2. /\ RecoveryTyping /\ helper' \in BOOLEAN /\ replicas' \in [Workloads -> {0, 1}]
      /\ stamp \in Stamps /\ files[stamp] \in Files
  BY <1>a, <1>1 DEF RecoveryInv, RecoveryTyping, FilesInv
<1>3. /\ Down("alloy") /\ Down("loki") /\ Down("alloy")' /\ Down("loki")'
      /\ attemptedLoki /\ ~failures /\ helperCreated
  BY <1>a, <1>1 DEF RecoveryInv, ClusterInv, Down
<1>4. (pods["loki"] = "absent") = TRUE
  BY <1>3 DEF Down
\* What the step leaves of the present backup, whether it raises or not.
<1>5. PICK f : /\ f \in Files /\ files' = [files EXCEPT ![stamp] = f]
               /\ f.sha # "none" => f.archive = "archive"
               /\ f.json # "none" => f.sha = "whole"
               /\ f.archive = "archive" => f.cold
               /\ Raise \/ /\ UNCHANGED <<result, attemptedLoki, helperCreated, error, failures>>
                           /\ \/ /\ at' \in {"open_partial", "stream"} /\ f.json = "none" /\ f.sha = "none"
                                 /\ at' = "stream" => f.cold
                              \/ /\ at' \in {"validate", "rename"} /\ f.json = "none" /\ f.sha = "none"
                                 /\ f.cold
                              \/ /\ at' = "write_sha" /\ f.json = "none" /\ f.sha = "none"
                                 /\ f.archive = "archive"
                              \/ /\ at' = "write_json" /\ f.json = "none" /\ f.sha = "whole"
                                 /\ f.archive = "archive"
                              \/ at' = "delete_helper"
  <2>1. /\ files[stamp].sha # "none" => files[stamp].archive = "archive"
        /\ files[stamp].json # "none" => files[stamp].sha = "whole"
        /\ files[stamp].archive = "archive" => files[stamp].cold
        /\ files[stamp].json = "none"
        /\ at # "write_json" => files[stamp].sha = "none"
        /\ at \in {"stream", "validate", "rename"} => files[stamp].cold
        /\ at \in {"write_sha", "write_json"} => files[stamp].archive = "archive"
        /\ at = "write_json" => files[stamp].sha = "whole"
    BY <1>a, <1>2 DEF RecoveryInv, FilesInv
  <2>2. files = [files EXCEPT ![stamp] = files[stamp]]
    BY <1>2 DEF RecoveryTyping
  <2>3. CASE WaitHelper \/ Validate
    <3>1. /\ UNCHANGED files /\ at \in {"wait_helper", "validate"}
          /\ Raise \/ (UNCHANGED <<result, attemptedLoki, helperCreated, error, failures>>
                       /\ at' = IF at = "wait_helper" THEN "open_partial" ELSE "rename")
      BY <2>3 DEF WaitHelper, Validate, fileVars, Proceed, flagVars
    <3>2. CASE Raise
      BY <1>2, <2>1, <2>2, <3>1, <3>2
    <3>3. CASE at = "wait_helper" /\ ~Raise
      BY <1>2, <2>1, <2>2, <3>1, <3>3
    <3>4. CASE at = "validate" /\ ~Raise
      BY <1>2, <2>1, <2>2, <3>1, <3>4
    <3> QED  BY <3>1, <3>2, <3>3, <3>4
  <2>4. CASE OpenPartial
    <3>1. CASE files' = files /\ Raise
      BY <1>2, <2>1, <2>2, <3>1
    <3>2. CASE ~(files' = files /\ Raise)
      <4>1. PICK f : f = [files[stamp] EXCEPT !.archive = "partial", !.cold = TRUE]
        OBVIOUS
      <4>2. files' = [files EXCEPT ![stamp] = f]
        BY <1>2, <1>4, <2>4, <3>2, <4>1 DEF OpenPartial, RecoveryTyping, Files
      <4>3. f \in Files /\ f.archive = "partial" /\ f.cold /\ f.json = files[stamp].json
            /\ f.sha = files[stamp].sha
        BY <1>2, <4>1 DEF Files
      <4>4. at = "open_partial" /\ at' = "stream"
            /\ UNCHANGED <<result, attemptedLoki, helperCreated, error, failures>>
        BY <2>4, <3>2 DEF OpenPartial, Proceed, flagVars
      <4> QED  BY <2>1, <4>2, <4>3, <4>4
    <3> QED  BY <3>1, <3>2
  <2>5. CASE Stream
    <3>1. PICK whole \in BOOLEAN :
              /\ files' = [files EXCEPT ![stamp].whole = whole,
                                        ![stamp].cold = @ /\ pods["loki"] = "absent"]
              /\ Proceed("validate") \/ Raise
      BY <2>5 DEF Stream
    <3>2. PICK f : f = [files[stamp] EXCEPT !.whole = whole,
                                            !.cold = @ /\ pods["loki"] = "absent"]
      OBVIOUS
    <3>3. files' = [files EXCEPT ![stamp] = f]
      BY <1>2, <3>1, <3>2 DEF RecoveryTyping, Files
    <3>4. at = "stream" /\ files[stamp].cold
      BY <2>1, <2>5 DEF Stream
    <3>5. f \in Files /\ f.cold /\ f.json = files[stamp].json /\ f.sha = files[stamp].sha
          /\ f.archive = files[stamp].archive
      BY <1>2, <1>4, <3>2, <3>4 DEF Files
    <3> QED  BY <2>1, <3>1, <3>3, <3>4, <3>5 DEF Proceed, flagVars
  <2>6. CASE Rename
    <3>1. CASE files' = files /\ Raise
      BY <1>2, <2>1, <2>2, <3>1
    <3>2. CASE ~(files' = files /\ Raise)
      <4>1. PICK f : f = [files[stamp] EXCEPT !.archive = "archive"]
        OBVIOUS
      <4>2. files' = [files EXCEPT ![stamp] = f]
        BY <1>2, <2>6, <3>2, <4>1 DEF Rename, RecoveryTyping, Files
      <4>3. f \in Files /\ f.archive = "archive" /\ f.json = files[stamp].json
            /\ f.sha = files[stamp].sha /\ f.cold = files[stamp].cold
        BY <1>2, <4>1 DEF Files
      <4>4. at = "rename" /\ at' = "write_sha"
            /\ UNCHANGED <<result, attemptedLoki, helperCreated, error, failures>>
        BY <2>6, <3>2 DEF Rename, Proceed, flagVars
      <4> QED  BY <2>1, <4>2, <4>3, <4>4
    <3> QED  BY <3>1, <3>2
  <2>7. CASE WriteSha
    <3>1. PICK written \in Sidecar :
              /\ files' = [files EXCEPT ![stamp].sha = written]
              /\ Raise \/ (written = "whole" /\ Proceed("write_json"))
      BY <2>7 DEF WriteSha, Sidecar
    <3>2. PICK f : f = [files[stamp] EXCEPT !.sha = written]
      OBVIOUS
    <3>3. files' = [files EXCEPT ![stamp] = f]
      BY <1>2, <3>1, <3>2 DEF RecoveryTyping, Files
    <3>4. f \in Files /\ f.archive = files[stamp].archive /\ f.json = files[stamp].json
          /\ f.sha = written /\ f.cold = files[stamp].cold
      BY <1>2, <3>2 DEF Files
    <3>5. at = "write_sha"
      BY <2>7 DEF WriteSha
    <3> QED  BY <2>1, <3>1, <3>3, <3>4, <3>5 DEF Proceed, flagVars
  <2>8. CASE WriteJson
    <3>1. PICK written \in Sidecar :
              /\ files' = [files EXCEPT ![stamp].json = written]
              /\ Raise \/ (written = "whole" /\ Proceed(RecoveryBegins))
      BY <2>8 DEF WriteJson, Sidecar
    <3>2. PICK f : f = [files[stamp] EXCEPT !.json = written]
      OBVIOUS
    <3>3. files' = [files EXCEPT ![stamp] = f]
      BY <1>2, <3>1, <3>2 DEF RecoveryTyping, Files
    <3>4. f \in Files /\ f.archive = files[stamp].archive /\ f.json = written
          /\ f.sha = files[stamp].sha /\ f.cold = files[stamp].cold
      BY <1>2, <3>2 DEF Files
    <3>5. at = "write_json" /\ RecoveryBegins = "delete_helper"
      BY <1>3, <2>8 DEF WriteJson, RecoveryBegins
    <3> QED  BY <2>1, <3>1, <3>3, <3>4, <3>5 DEF Proceed, flagVars
  <2> QED  BY <2>3, <2>4, <2>5, <2>6, <2>7, <2>8
<1>6. /\ files' \in [Stamps -> Files] /\ files'[stamp] = f
      /\ \A b \in Stamps : /\ b > stamp => files'[b] = NoFiles
                           /\ files'[b].sha # "none" => files'[b].archive = "archive"
                           /\ files'[b].json # "none" => files'[b].sha = "whole"
                           /\ files'[b].archive = "archive" => files'[b].cold
  <2>1. files' \in [Stamps -> Files] /\ files'[stamp] = f
        /\ \A b \in Stamps \ {stamp} : files'[b] = files[b]
    BY <1>2, <1>5 DEF RecoveryTyping
  <2>2. ~(stamp > stamp)
    BY <1>2, MaxBackupsAssumption DEF RecoveryTyping
  <2> QED  BY <1>5, <2>1, <2>2 DEF RecoveryInv, FilesInv
<1>7. CASE Raise
  BY <1>a, <1>1, <1>2, <1>3, <1>6, <1>7, RaiseKeepsInv
<1>8. CASE ~Raise
  <2>1. /\ UNCHANGED <<result, attemptedLoki, helperCreated, error, failures>>
        /\ at' \in {"open_partial", "stream", "validate", "rename", "write_sha", "write_json",
                    "delete_helper"}
    BY <1>5, <1>8
  <2>2. RecoveryTyping'
    BY <1>1, <1>2, <1>6, <2>1 DEF RecoveryTyping
  <2>3. RestoreInv'
    BY <1>1, <2>1, RestoreRests
  <2>4. FilesInv'
    BY <1>1, <1>2, <1>5, <1>6, <1>8 DEF FilesInv
  <2>5. RecoveredOrReported' /\ AlloyStopsFirstStartsLast'
    BY <1>3, <2>1 DEF RecoveredOrReported, AlloyStopsFirstStartsLast, Down
  <2>6. ClusterInv'
    BY <1>3, <2>1, <2>5 DEF ClusterInv
  <2> QED  BY <2>2, <2>3, <2>4, <2>6 DEF RecoveryInv
<1> QED  BY <1>7, <1>8

\* finally: each part is tried, and one that fails is remembered.
LEMMA RecoveringKeepsInv ==
    ASSUME RecoveryInv, DeleteHelper \/ LokiUp \/ LokiReady \/ AlloyUp \/ AlloyReady
    PROVE  RecoveryInv'
<1> USE DEF InTry, InFinally, InRestore, WithHelper
<1>1. /\ UNCHANGED pods /\ UNCHANGED fileVars /\ UNCHANGED restoreVars
      /\ UNCHANGED <<stamp, files, source, directory, extractPod, extractCreated, policy, validationPod>>
      /\ at' \in {"loki_up", "loki_ready", "alloy_up", "alloy_ready", "report"}
      /\ UNCHANGED <<result, attemptedLoki, helperCreated, error>>
  BY DEF DeleteHelper, LokiUp, LokiReady, AlloyUp, AlloyReady, Proceed, Failed,
         clusterVars, fileVars, restoreVars, flagVars
<1>2. RecoveryTyping /\ "loki" \in Workloads /\ "alloy" \in Workloads
  BY DEF RecoveryInv, Workloads
<1>3. (failures' = TRUE) \/ (failures' = failures)
  BY DEF DeleteHelper, LokiUp, LokiReady, AlloyUp, AlloyReady, Proceed, Failed, flagVars
<1>4. failures' \in BOOLEAN
  BY <1>2, <1>3, Zenon DEF RecoveryTyping
<1>5. failures => failures'
  BY <1>3
<1>6. helper' \in BOOLEAN
  <2>1. (helper' = FALSE) \/ (helper' = helper)
    BY DEF DeleteHelper, LokiUp, LokiReady, AlloyUp, AlloyReady, clusterVars
  <2> QED  BY <1>2, <2>1, Zenon DEF RecoveryTyping
<1>7. replicas' \in [Workloads -> {0, 1}]
  <2>1. \/ replicas' = replicas
        \/ \E w \in Workloads, k \in {0, 1} : replicas' = Scaled(w, k)
    BY <1>2 DEF DeleteHelper, LokiUp, LokiReady, AlloyUp, AlloyReady, clusterVars
  <2>2. replicas \in [Workloads -> {0, 1}]
    BY <1>2 DEF RecoveryTyping
  <2> QED
    BY <1>2, <2>1, <2>2, ScaledValues
<1>8. RecoveryTyping'
  BY <1>1, <1>2, <1>4, <1>6, <1>7 DEF RecoveryTyping
<1>9. FilesInv' /\ RestoreInv'
  BY <1>1, FilesRest, RestoreRests
<1>10. RecoveredOrReported'
  BY <1>1 DEF RecoveredOrReported
<1>11. CASE DeleteHelper
  <2>1. at = "delete_helper" /\ at' = "loki_up" /\ UNCHANGED replicas
    BY <1>11 DEF DeleteHelper, Proceed, Failed
  <2>2. helper' => failures'
    BY <1>11 DEF DeleteHelper, Proceed, Failed
  <2>3. Down("alloy")'
    BY <1>1, <2>1 DEF RecoveryInv, ClusterInv, Down
  <2>4. AlloyStopsFirstStartsLast'
    BY <2>3 DEF AlloyStopsFirstStartsLast, Down
  <2>5. ClusterInv'
    BY <1>10, <2>1, <2>2, <2>3, <2>4 DEF ClusterInv
  <2> QED  BY <1>8, <1>9, <2>5 DEF RecoveryInv
<1>12. UNCHANGED helper \/ DeleteHelper
  BY DEF DeleteHelper, LokiUp, LokiReady, AlloyUp, AlloyReady, clusterVars
<1>13. ASSUME ~DeleteHelper, helper' PROVE failures' \/ (error' /\ ~helperCreated')
  BY <1>1, <1>5, <1>12, <1>13 DEF LokiUp, LokiReady, AlloyUp, AlloyReady, RecoveryInv, ClusterInv
<1>14. CASE LokiUp
  <2>1. at = "loki_up" /\ Down("alloy") /\ ~DeleteHelper
    BY <1>14 DEF LokiUp, DeleteHelper, RecoveryInv, ClusterInv
  <2>2. replicas'["alloy"] = replicas["alloy"]
    BY <1>2, <1>14, ScaledValues DEF LokiUp
  <2>3. Down("alloy")'
    BY <1>1, <2>1, <2>2 DEF Down
  <2>4. \/ at' = "loki_ready" /\ replicas'["loki"] = 1
        \/ at' = "alloy_up" /\ failures'
    BY <1>2, <1>14, ScaledValues DEF LokiUp, Proceed, Failed
  <2>5. AlloyStopsFirstStartsLast'
    BY <2>3 DEF AlloyStopsFirstStartsLast, Down
  <2>6. ClusterInv'
    BY <1>10, <1>13, <2>1, <2>3, <2>4, <2>5 DEF ClusterInv
  <2> QED  BY <1>8, <1>9, <2>6 DEF RecoveryInv
<1>15. CASE LokiReady
  <2>1. /\ at = "loki_ready" /\ Down("alloy") /\ ~DeleteHelper /\ replicas["loki"] = 1
        /\ at' = "alloy_up" /\ UNCHANGED replicas
    BY <1>15 DEF LokiReady, DeleteHelper, RecoveryInv, ClusterInv, clusterVars, Proceed, Failed
  <2>2. failures' \/ Up("loki")'
    BY <1>1, <1>15, <2>1 DEF LokiReady, Up, Failed
  <2>3. AlloyStopsFirstStartsLast'
    BY <2>1 DEF AlloyStopsFirstStartsLast
  <2>4. ClusterInv'
    BY <1>10, <1>13, <2>1, <2>2, <2>3 DEF ClusterInv
  <2> QED  BY <1>8, <1>9, <2>4 DEF RecoveryInv
<1>16. CASE AlloyUp
  <2>1. at = "alloy_up" /\ (failures \/ Up("loki")) /\ ~DeleteHelper
    BY <1>16 DEF AlloyUp, DeleteHelper, RecoveryInv, ClusterInv
  <2>2. replicas'["loki"] = replicas["loki"]
    BY <1>2, <1>16, ScaledValues DEF AlloyUp
  <2>3. failures' \/ Up("loki")'
    BY <1>1, <1>5, <2>1, <2>2 DEF Up
  <2>4. \/ at' = "alloy_ready" /\ replicas'["alloy"] = 1
        \/ at' = "report" /\ failures'
    BY <1>2, <1>16, ScaledValues DEF AlloyUp, Proceed, Failed
  <2>5. AlloyStopsFirstStartsLast'
    BY <2>3 DEF AlloyStopsFirstStartsLast, Up
  <2>6. ClusterInv'
    BY <1>10, <1>13, <2>1, <2>3, <2>4, <2>5 DEF ClusterInv
  <2> QED  BY <1>8, <1>9, <2>6 DEF RecoveryInv
<1>17. CASE AlloyReady
  <2>1. /\ at = "alloy_ready" /\ (failures \/ Up("loki")) /\ ~DeleteHelper
        /\ replicas["alloy"] = 1 /\ UNCHANGED replicas /\ at' = "report"
    BY <1>17 DEF AlloyReady, DeleteHelper, RecoveryInv, ClusterInv, clusterVars, Proceed, Failed
  <2>2. failures' \/ Up("loki")'
    BY <1>1, <1>5, <2>1 DEF Up
  <2>3. failures' \/ Up("alloy")'
    BY <1>1, <1>17, <2>1 DEF AlloyReady, Up, Failed
  <2>4. AlloyStopsFirstStartsLast'
    BY <2>2 DEF AlloyStopsFirstStartsLast, Up
  <2>5. ClusterInv'
    BY <1>10, <1>13, <2>1, <2>2, <2>3, <2>4 DEF ClusterInv
  <2> QED  BY <1>8, <1>9, <2>5 DEF RecoveryInv
<1> QED  BY <1>11, <1>14, <1>15, <1>16, <1>17

\* The report tells the failures apart, and a killed script reports nothing.
LEMMA EndingKeepsInv ==
    ASSUME RecoveryInv, Report \/ Killed
    PROVE  RecoveryInv'
<1> USE DEF InTry, InFinally, InRestore, WithHelper
<1>1. /\ UNCHANGED <<replicas, pods, helper>> /\ UNCHANGED fileVars /\ UNCHANGED restoreVars
      /\ UNCHANGED <<stamp, files, source, directory, extractPod, extractCreated, policy, validationPod>>
      /\ at' = "idle" /\ result' \in {"none", "ok", "stopped", "incomplete", "killed"}
      /\ UNCHANGED <<attemptedLoki, helperCreated, error, failures>>
  BY DEF Report, Killed, End, clusterVars, flagVars, fileVars, restoreVars
<1>2. RecoveryTyping'
  BY <1>1 DEF RecoveryInv, RecoveryTyping
<1>3. FilesInv' /\ RestoreInv'
  BY <1>1, FilesRest, RestoreRests
<1>4. AlloyStopsFirstStartsLast'
  BY <1>1 DEF RecoveryInv, ClusterInv, AlloyStopsFirstStartsLast
<1>5. RecoveredOrReported'
  <2>1. CASE Killed
    BY <2>1 DEF Killed, End, RecoveredOrReported
  <2>2. CASE Report /\ failures
    BY <2>2 DEF Report, End, RecoveredOrReported
  <2>3. CASE Report /\ ~failures
    <3>1. Up("loki") /\ Up("alloy") /\ (helper => error /\ ~helperCreated)
      BY <2>3 DEF Report, RecoveryInv, ClusterInv
    <3>2. error => result' = "stopped"
      BY <2>3 DEF Report, End
    <3> QED  BY <1>1, <3>1, <3>2 DEF RecoveredOrReported, Up, Workloads
  <2> QED  BY <2>1, <2>2, <2>3
<1>6. ClusterInv'
  BY <1>1, <1>4, <1>5 DEF ClusterInv
<1> QED  BY <1>2, <1>3, <1>6 DEF RecoveryInv

\* What happens between two runs.
LEMMA BetweenRunsKeepsInv ==
    ASSUME RecoveryInv, Repair \/ ClearRestore \/ \E b \in Stamps : Damage(b)
    PROVE  RecoveryInv'
<1> USE DEF InTry, InFinally, InRestore, WithHelper
<1>1. /\ at = "idle" /\ at' = "idle" /\ UNCHANGED pods
      /\ UNCHANGED <<result, stamp, source, attemptedLoki, helperCreated, error, failures, extractCreated>>
  BY DEF Repair, ClearRestore, Damage, clusterVars, flagVars, fileVars, restoreVars
<1>2. RecoveryTyping
  BY DEF RecoveryInv
<1>3. CASE Repair
  <2>1. /\ replicas' = [w \in Workloads |-> 1] /\ UNCHANGED fileVars /\ UNCHANGED restoreVars
        /\ UNCHANGED <<files, directory, extractPod, policy, validationPod>>
    BY <1>3 DEF Repair, fileVars, restoreVars
  <2>2. helper' \in BOOLEAN /\ ~helper'
    BY <1>3, Zenon DEF Repair
  <2>3. RecoveryTyping'
    BY <1>1, <1>2, <2>1, <2>2 DEF RecoveryTyping
  <2>4. FilesInv' /\ RestoreInv'
    BY <1>1, <2>1, FilesRest, RestoreRests
  <2>5. AlloyStopsFirstStartsLast'
    BY <2>1 DEF AlloyStopsFirstStartsLast, Workloads
  <2>6. RecoveredOrReported'
    BY <1>1, <2>1, <2>2 DEF RecoveryInv, ClusterInv, RecoveredOrReported
  <2>7. ClusterInv'
    BY <1>1, <2>5, <2>6 DEF ClusterInv
  <2> QED  BY <2>3, <2>4, <2>7 DEF RecoveryInv
<1>4. CASE ~Repair
  <2>1. UNCHANGED <<replicas, helper>>
    BY <1>4 DEF ClearRestore, Damage, clusterVars
  <2>2. ClusterInv'
    BY <1>1, <2>1 DEF RecoveryInv, ClusterInv, RecoveredOrReported, AlloyStopsFirstStartsLast
  <2>3. CASE ClearRestore
    <3>1. /\ ~extractPod' /\ ~validationPod' /\ ~policy'
          /\ extractPod' \in BOOLEAN /\ validationPod' \in BOOLEAN /\ policy' \in BOOLEAN
      BY <2>3, Zenon DEF ClearRestore
    <3>2. UNCHANGED files /\ UNCHANGED fileVars
      BY <2>3 DEF ClearRestore, fileVars
    <3>3. directory' \in Directories
      BY <2>3 DEF ClearRestore, Directory, Directories
    <3>4. RecoveryTyping'
      BY <1>1, <1>2, <2>1, <3>1, <3>2, <3>3 DEF RecoveryTyping
    <3>5. RestoreInv'
      BY <1>1, <3>1 DEF RestoreInv, ValidationServesArchive
    <3>6. FilesInv'
      BY <1>1, <3>2, FilesRest
    <3> QED  BY <2>2, <3>4, <3>5, <3>6 DEF RecoveryInv
  <2>4. ASSUME NEW b \in Stamps, Damage(b) PROVE RecoveryInv'
    <3>1. UNCHANGED restoreVars
          /\ UNCHANGED <<directory, extractPod, policy, validationPod>>
      BY <2>4 DEF Damage, restoreVars
    <3>2. PICK f : f = [files[b] EXCEPT !.whole = FALSE]
      OBVIOUS
    <3>3. files' = [files EXCEPT ![b] = f]
      BY <1>2, <2>4, <3>2 DEF Damage, RecoveryTyping, Files
    <3>4. f \in Files /\ f.archive = files[b].archive /\ f.json = files[b].json
          /\ f.sha = files[b].sha /\ f.cold = files[b].cold
      BY <1>2, <3>2 DEF RecoveryTyping, Files
    <3>5. files' \in [Stamps -> Files] /\ files'[b] = f
          /\ \A c \in Stamps \ {b} : files'[c] = files[c]
      BY <1>2, <3>3, <3>4 DEF RecoveryTyping
    <3>6. files[b] # NoFiles
      BY <2>4 DEF Damage, NoFiles
    <3>7. FilesInv'
      BY <1>1, <3>4, <3>5, <3>6 DEF RecoveryInv, FilesInv
    <3>8. RecoveryTyping'
      BY <1>1, <1>2, <2>1, <3>1, <3>5 DEF RecoveryTyping
    <3>9. RestoreInv'
      BY <1>1, <3>1, RestoreRests
    <3> QED  BY <2>2, <3>7, <3>8, <3>9 DEF RecoveryInv
  <2> QED  BY <1>4, <2>3, <2>4
<1> QED  BY <1>3, <1>4

-----------------------------------------------------------------------------

\* A restore begins with everything up, with an archive that restore accepts, and
\* with nothing left of an earlier one.
LEMMA StartRestoreKeepsInv ==
    ASSUME RecoveryInv, NEW b \in Stamps, StartRestore(b)
    PROVE  RecoveryInv'
<1> USE DEF InTry, InFinally, InRestore, WithHelper
<1>1. /\ at' = "mkdir" /\ result' = "none" /\ source' = b
      /\ UNCHANGED <<replicas, pods, helper, stamp, files, directory>>
      /\ UNCHANGED <<extractPod, policy, validationPod>> /\ UNCHANGED fileVars
      /\ ~extractPod /\ ~validationPod
  BY DEF StartRestore, clusterVars, fileVars
<1>2. /\ ~attemptedLoki' /\ ~helperCreated' /\ ~error' /\ ~failures' /\ ~extractCreated'
      /\ attemptedLoki' \in BOOLEAN /\ helperCreated' \in BOOLEAN
      /\ error' \in BOOLEAN /\ failures' \in BOOLEAN /\ extractCreated' \in BOOLEAN
  BY Zenon DEF StartRestore
<1>3. Up("loki") /\ Up("alloy") /\ ~helper
  BY DEF StartRestore, preflight, Workloads, Up
<1>4. files[b].cold /\ files[b].whole
  BY DEF StartRestore, Usable, RecoveryInv, FilesInv
<1>5. RecoveryTyping'
  BY <1>1, <1>2 DEF RecoveryInv, RecoveryTyping
<1>6. ClusterInv'
  BY <1>1, <1>2, <1>3 DEF ClusterInv, Up, RecoveredOrReported, AlloyStopsFirstStartsLast
<1>7. FilesInv'
  BY <1>1, FilesRest
<1>8. RestoreInv'
  BY <1>1, <1>2, <1>4 DEF RestoreInv, ValidationServesArchive
<1> QED  BY <1>5, <1>6, <1>7, <1>8 DEF RecoveryInv

\* The steps of restore after its checks.
Restoring ==
    \/ MakeDirectory
    \/ CreateExtract
    \/ WaitExtract
    \/ Extract
    \/ DeleteExtract
    \/ CreatePolicy
    \/ CreateValidation
    \/ WaitValidation

\* The way from one command of restore to the next, or out of it.
RestoreWay ==
    \/ at' = "idle"
    \/ at = "mkdir" /\ at' = "create_extract"
    \/ at = "create_extract" /\ at' \in {"wait_extract", "delete_extract"}
    \/ at = "wait_extract" /\ at' \in {"extract", "delete_extract"}
    \/ at = "extract" /\ at' = "delete_extract"
    \/ at = "delete_extract" /\ at' = "create_policy"
    \/ at = "create_policy" /\ at' = "create_validation"
    \/ at = "create_validation" /\ at' = "wait_validation"

\* What restore never touches: the workloads, the files and its archive.
LEMMA RestoringFrame ==
    ASSUME RecoveryInv, Restoring
    PROVE  /\ at \in InRestore /\ RestoreWay /\ at' \in {"idle"} \cup InRestore
           /\ UNCHANGED <<replicas, pods, helper, stamp, files, source>>
           /\ UNCHANGED <<attemptedLoki, helperCreated, failures>>
           /\ result' \in {result, "ok", "stopped"}
           /\ error' = TRUE \/ error' = error
<1> USE DEF InRestore, RestoreWay, Proceed, Stop, End, RaiseInRestore,
            clusterVars, fileVars, flagVars, restoreVars
<1>1. CASE MakeDirectory
  BY <1>1 DEF MakeDirectory
<1>2. CASE CreateExtract
  BY <1>2 DEF CreateExtract
<1>3. CASE WaitExtract
  BY <1>3 DEF WaitExtract
<1>4. CASE Extract
  BY <1>4 DEF Extract
<1>5. CASE DeleteExtract
  BY <1>5 DEF DeleteExtract
<1>6. CASE CreatePolicy
  BY <1>6 DEF CreatePolicy
<1>7. CASE CreateValidation
  BY <1>7 DEF CreateValidation
<1>8. CASE WaitValidation
  BY <1>8 DEF WaitValidation
<1> QED  BY <1>1, <1>2, <1>3, <1>4, <1>5, <1>6, <1>7, <1>8 DEF Restoring

\* Types, workloads and files rest while a restore runs; what remains is the
\* restore itself.
LEMMA RestoringKeepsRest ==
    ASSUME RecoveryInv, Restoring, directory' \in Directories,
           extractPod' \in BOOLEAN, extractCreated' \in BOOLEAN,
           policy' \in BOOLEAN, validationPod' \in BOOLEAN,
           RestoreInv'
    PROVE  RecoveryInv'
<1> USE DEF InTry, InFinally, InRestore, WithHelper
<1>1. /\ at \in InRestore /\ at' \in {"idle"} \cup InRestore
      /\ UNCHANGED <<replicas, pods, helper, stamp, files, source>>
      /\ UNCHANGED <<attemptedLoki, helperCreated, failures>>
      /\ result' \in {result, "ok", "stopped"}
      /\ error' = TRUE \/ error' = error
  BY RestoringFrame
<1>2. error' \in BOOLEAN
  BY <1>1, Zenon DEF RecoveryInv, RecoveryTyping
<1>3. RecoveryTyping'
  BY <1>1, <1>2 DEF RecoveryInv, RecoveryTyping
<1>4. FilesInv'
  BY <1>1, FilesRest DEF fileVars
<1>5. Up("loki") /\ Up("alloy") /\ ~helper
  BY <1>1 DEF RecoveryInv, ClusterInv
<1>6. RecoveredOrReported' /\ AlloyStopsFirstStartsLast'
  BY <1>1, <1>5 DEF RecoveredOrReported, AlloyStopsFirstStartsLast, Up, Workloads
<1>7. ClusterInv'
  BY <1>1, <1>5, <1>6 DEF ClusterInv, Up
<1> QED  BY <1>3, <1>4, <1>7 DEF RecoveryInv

\* Each command of restore: the directory is served only when it was extracted to
\* the end from the archive that was checked, and only behind the policy.
LEMMA RestoringKeepsInv ==
    ASSUME RecoveryInv, Restoring
    PROVE  RecoveryInv'
<1> USE DEF InRestore
<1>1. /\ at \in InRestore /\ RestoreWay /\ at' \in {"idle"} \cup InRestore
      /\ UNCHANGED <<files, source>>
  BY RestoringFrame
<1>2. RecoveryTyping /\ RestoreInv
  BY DEF RecoveryInv
<1>3. source \in Stamps /\ files[source].cold /\ files[source].whole
  BY <1>1, <1>2 DEF RestoreInv
<1>4. /\ Directory("empty") \in Directories /\ Directory("torn") \in Directories
      /\ Extracted(source) \in Directories
      /\ Extracted(source).state = "extracted"
      /\ Extracted(source).cold /\ Extracted(source).whole
  BY <1>2, <1>3 DEF Directory, Directories, Extracted, RecoveryTyping, Files
<1>5. CASE MakeDirectory
  <2>1. /\ UNCHANGED <<extractPod, extractCreated, policy, validationPod>>
        /\ at = "mkdir" /\ at' \in {"idle", "create_extract"}
        /\ directory' \in Directories /\ UNCHANGED error
    BY <1>2, <1>4, <1>5 DEF MakeDirectory, Proceed, Stop, End, flagVars, RecoveryTyping
  <2>2. RestoreInv'
    BY <1>1, <1>2, <2>1 DEF RestoreInv, ValidationServesArchive
  <2> QED  BY <1>2, <1>5, <2>1, <2>2, RestoringKeepsRest DEF Restoring, RecoveryTyping
<1>6. CASE CreateExtract
  <2>1. /\ UNCHANGED <<directory, policy, validationPod>> /\ at = "create_extract"
        /\ \/ at' = "wait_extract" /\ extractCreated' = TRUE /\ UNCHANGED error
           \/ at' = "delete_extract" /\ UNCHANGED extractCreated /\ error' = TRUE
    BY <1>6 DEF CreateExtract, Proceed, RaiseInRestore, flagVars
  <2>2. extractPod' \in BOOLEAN
    <3>1. (extractPod' = TRUE) \/ (extractPod' \in BOOLEAN)
      BY <1>6 DEF CreateExtract
    <3> QED  BY <3>1, Zenon
  <2>3. extractCreated' \in BOOLEAN
    BY <1>2, <2>1, Zenon DEF RecoveryTyping
  <2>4. RestoreInv'
    BY <1>1, <1>2, <2>1 DEF RestoreInv, ValidationServesArchive
  <2> QED  BY <1>2, <1>6, <2>1, <2>2, <2>3, <2>4, RestoringKeepsRest DEF Restoring, RecoveryTyping
<1>7. CASE WaitExtract
  <2>1. /\ UNCHANGED <<directory, extractPod, extractCreated, policy, validationPod>>
        /\ at = "wait_extract"
        /\ \/ at' = "extract" /\ UNCHANGED error
           \/ at' = "delete_extract" /\ error' = TRUE
    BY <1>7 DEF WaitExtract, Proceed, RaiseInRestore, flagVars, restoreVars
  <2>2. RestoreInv'
    BY <1>1, <1>2, <2>1 DEF RestoreInv, ValidationServesArchive
  <2> QED  BY <1>2, <1>7, <2>1, <2>2, RestoringKeepsRest DEF Restoring, RecoveryTyping
<1>8. CASE Extract
  <2>1. /\ UNCHANGED <<extractPod, extractCreated, policy, validationPod>>
        /\ at = "extract" /\ at' = "delete_extract" /\ directory' \in Directories
        /\ directory' = Extracted(source) \/ error' = TRUE
    BY <1>2, <1>4, <1>8 DEF Extract, Proceed, RaiseInRestore, flagVars, RecoveryTyping
  <2>2. RestoreInv'
    BY <1>1, <1>2, <1>4, <2>1 DEF RestoreInv, Served, ValidationServesArchive
  <2> QED  BY <1>2, <1>8, <2>1, <2>2, RestoringKeepsRest DEF Restoring, RecoveryTyping
<1>9. CASE DeleteExtract
  <2>1. /\ UNCHANGED <<directory, extractCreated, policy, validationPod>>
        /\ at = "delete_extract" /\ at' \in {"idle", "create_policy"}
    BY <1>9 DEF DeleteExtract, Proceed, Stop, End
  <2>2. at' = "create_policy" => /\ ~error
                                 /\ extractCreated => ~extractPod'
    BY <1>9 DEF DeleteExtract, Proceed, Stop, End
  <2>3. extractPod' \in BOOLEAN
    <3>1. (extractPod' = FALSE) \/ (extractPod' = extractPod) \/ (extractPod' \in BOOLEAN)
      BY <1>9 DEF DeleteExtract
    <3> QED  BY <1>2, <3>1, Zenon DEF RecoveryTyping
  <2>4. ~validationPod
    BY <1>2, <2>1 DEF RestoreInv
  <2>5. RestoreInv'
    BY <1>1, <1>2, <2>1, <2>2, <2>4 DEF RestoreInv, Served, ValidationServesArchive
  <2> QED  BY <1>2, <1>9, <2>1, <2>3, <2>5, RestoringKeepsRest DEF Restoring, RecoveryTyping
<1>10. CASE CreatePolicy
  <2>1. /\ UNCHANGED <<directory, extractPod, extractCreated, validationPod>>
        /\ at = "create_policy" /\ at' \in {"idle", "create_validation"}
        /\ policy' = TRUE \/ (policy' = policy /\ at' = "idle")
    BY <1>10 DEF CreatePolicy, Proceed, Stop, End
  <2>2. policy' \in BOOLEAN
    BY <1>2, <2>1, Zenon DEF RecoveryTyping
  <2>3. RestoreInv'
    BY <1>1, <1>2, <2>1 DEF RestoreInv, Served, ValidationServesArchive
  <2> QED  BY <1>2, <1>10, <2>1, <2>2, <2>3, RestoringKeepsRest DEF Restoring, RecoveryTyping
<1>11. CASE CreateValidation
  <2>1. /\ UNCHANGED <<directory, extractPod, extractCreated, policy>>
        /\ at = "create_validation" /\ at' \in {"idle", "wait_validation"}
    BY <1>11 DEF CreateValidation, Proceed, Stop, End
  <2>2. validationPod' \in BOOLEAN
    <3>1. (validationPod' = TRUE) \/ (validationPod' \in BOOLEAN)
      BY <1>11 DEF CreateValidation
    <3> QED  BY <3>1, Zenon
  <2>3. RestoreInv'
    BY <1>1, <1>2, <2>1 DEF RestoreInv, Served, ValidationServesArchive
  <2> QED  BY <1>2, <1>11, <2>1, <2>2, <2>3, RestoringKeepsRest DEF Restoring, RecoveryTyping
<1>12. CASE WaitValidation
  <2>1. /\ UNCHANGED <<directory, extractPod, extractCreated, policy, validationPod>>
        /\ at' = "idle"
    BY <1>12 DEF WaitValidation, Stop, End, restoreVars
  <2>2. RestoreInv'
    BY <1>1, <1>2, <2>1 DEF RestoreInv, ValidationServesArchive
  <2> QED  BY <1>2, <1>12, <2>1, <2>2, RestoringKeepsRest DEF Restoring, RecoveryTyping
<1> QED  BY <1>5, <1>6, <1>7, <1>8, <1>9, <1>10, <1>11, <1>12 DEF Restoring

-----------------------------------------------------------------------------

\* Every step of the script, of the cluster and of the operator keeps the invariant.
LEMMA RecoveryInvInductive == RecoveryInv /\ [RecoveryNext]_recoveryVars => RecoveryInv'
<1> SUFFICES ASSUME RecoveryInv, [RecoveryNext]_recoveryVars PROVE RecoveryInv'
  OBVIOUS
<1>1. CASE BackupStep
  BY <1>1, StartBackupKeepsInv, StoppingKeepsInv, CreateHelperKeepsInv, ArchivingKeepsInv,
     RecoveringKeepsInv, EndingKeepsInv DEF BackupStep
<1>2. CASE RestoreStep
  BY <1>2, StartRestoreKeepsInv, RestoringKeepsInv DEF RestoreStep, Restoring
<1>3. CASE Killed
  BY <1>3, EndingKeepsInv
<1>4. CASE \E w \in Workloads : PodStops(w) \/ PodEnds(w) \/ PodStarts(w) \/ PodReady(w)
  BY <1>4, PodsKeepInv
<1>5. CASE Repair \/ ClearRestore \/ \E b \in Stamps : Damage(b)
  BY <1>5, BetweenRunsKeepsInv
<1>6. CASE UNCHANGED recoveryVars
  <2>1. /\ UNCHANGED <<at, result, replicas, pods, helper, attemptedLoki, helperCreated, error, failures>>
        /\ UNCHANGED <<stamp, files, source, directory, extractPod, extractCreated, policy, validationPod>>
    BY <1>6 DEF recoveryVars, clusterVars, flagVars, fileVars, restoreVars
  <2> QED
    BY <2>1 DEF RecoveryInv, RecoveryTyping, ClusterInv, FilesInv, RestoreInv, Served, Up, Down,
           RecoveredOrReported, AlloyStopsFirstStartsLast, ValidationServesArchive
<1> QED  BY <1>1, <1>2, <1>3, <1>4, <1>5, <1>6 DEF RecoveryNext

\* Where the script stands always says truly what it has done to the cluster, the
\* files and the restore.
THEOREM RecoveryInvariant == RecoverySpec => []RecoveryInv
<1>1. RecoveryInit => RecoveryInv
  BY RecoveryInitial
<1>2. RecoveryInv /\ [RecoveryNext]_recoveryVars => RecoveryInv'
  BY RecoveryInvInductive
<1> QED  BY <1>1, <1>2, PTL DEF RecoverySpec

\* Every archive that restore accepts was streamed while no Loki Pod existed, for
\* any number of backups and whatever failed or was killed before; and the files of
\* a backup appear in their order.
THEOREM UsableArchiveAlwaysCold == RecoverySpec => []UsableArchiveIsCold
<1>1. RecoveryInv => UsableArchiveIsCold
  <2> SUFFICES ASSUME RecoveryInv PROVE UsableArchiveIsCold
    OBVIOUS
  <2>1. {helper, attemptedLoki, helperCreated, error, failures,
         extractPod, extractCreated, policy, validationPod} \subseteq BOOLEAN
    BY Zenon DEF RecoveryInv, RecoveryTyping
  <2>2. RecoveryTypeOK
    BY <2>1 DEF RecoveryInv, RecoveryTyping, FilesInv, RecoveryTypeOK
  <2> QED  BY <2>2 DEF RecoveryInv, FilesInv, Usable, UsableArchiveIsCold
<1> QED  BY <1>1, RecoveryInvariant, PTL

\* Whichever command fails, a run that does not report an incomplete recovery ends
\* with both workloads up and without its helper.
THEOREM AlwaysRecoveredOrReported == RecoverySpec => []RecoveredOrReported
<1>1. RecoveryInv => RecoveredOrReported
  BY DEF RecoveryInv, ClusterInv
<1> QED  BY <1>1, RecoveryInvariant, PTL

\* Alloy never runs while Loki is scaled down, unless Loki's recovery failed.
THEOREM AlloyAlwaysStopsFirst == RecoverySpec => []AlloyStopsFirstStartsLast
<1>1. RecoveryInv => AlloyStopsFirstStartsLast
  BY DEF RecoveryInv, ClusterInv
<1> QED  BY <1>1, RecoveryInvariant, PTL

\* No failed, torn or killed restore ever leads to a validation Pod that serves
\* anything but one whole cold archive behind the deny policy.
THEOREM ValidationAlwaysServesArchive == RecoverySpec => []ValidationServesArchive
<1>1. RecoveryInv => ValidationServesArchive
  BY DEF RecoveryInv, RestoreInv
<1> QED  BY <1>1, RecoveryInvariant, PTL

=============================================================================
