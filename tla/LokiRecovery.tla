---------------------------- MODULE LokiRecovery ----------------------------
(***************************************************************************)
(* Cold backup and isolated restore of Loki (scripts/loki-recovery.py).    *)
(*                                                                         *)
(* The script is one process that runs commands against the cluster, the   *)
(* head node and the backup directory; `at' is the command it is about to  *)
(* run.  A command that fails may have had its effect all the same.  The   *)
(* script may be killed between any two commands and be run again.         *)
(*                                                                         *)
(* The cluster's controllers follow the replica counts at their own pace.  *)
(* One script runs at a time, and without --execute it changes nothing.    *)
(***************************************************************************)
EXTENDS Integers

CONSTANTS MaxBackups   \* bound on backups that get as far as stopping Alloy

ASSUME MaxBackupsAssumption == MaxBackups \in Nat \ {0}

Workloads == {"loki", "alloy"}

Stamps == 1 .. MaxBackups

VARIABLES
    at,             \* where the script stands; idle when it does not run
    result,         \* how the latest run ended
    replicas,       \* spec.replicas of each workload
    pods,           \* the Pod of each workload
    helper,         \* Pod loki-backup exists
    attemptedLoki,  \* attempted_loki
    helperCreated,  \* helper_created
    error,          \* primary_error is set, or restore's exception is under way
    failures,       \* failures is not empty
    stamp,          \* the latest backup
    files,          \* what the destination holds of each backup
    source,         \* the archive being restored
    directory,      \* RESTORE_PATH: state, and what the archive in it was like
    extractPod,     \* Pod loki-restore-extract exists
    extractCreated, \* extract_created
    policy,         \* NetworkPolicy loki-restore-deny exists
    validationPod   \* Pod loki-restore-validation exists

clusterVars == <<replicas, pods, helper>>
flagVars == <<attemptedLoki, helperCreated, error, failures>>
fileVars == <<stamp, files>>
restoreVars == <<source, directory, extractPod, extractCreated, policy, validationPod>>
recoveryVars == <<at, result, clusterVars, flagVars, fileVars, restoreVars>>

InTry == {"stop_alloy", "wait_alloy", "stop_loki", "wait_loki", "create_helper",
          "wait_helper", "open_partial", "stream", "validate", "rename",
          "write_sha", "write_json"}

InFinally == {"delete_helper", "loki_up", "loki_ready", "alloy_up", "alloy_ready", "report"}

InRestore == {"mkdir", "create_extract", "wait_extract", "extract", "delete_extract",
              "create_policy", "create_validation", "wait_validation"}

\* A truncated sidecar does not parse.
Sidecar == {"none", "torn", "whole"}

Files == [archive : {"none", "partial", "archive"},
          cold    : BOOLEAN,     \* no Loki Pod existed while it was streamed
          whole   : BOOLEAN,     \* nothing is missing and no byte has changed
          sha     : Sidecar,
          json    : Sidecar]

NoFiles == [archive |-> "none", cold |-> FALSE, whole |-> FALSE,
            sha |-> "none", json |-> "none"]

Directories == [state : {"absent", "empty", "torn", "extracted"},
                cold  : BOOLEAN,
                whole : BOOLEAN]

Directory(state) == [state |-> state, cold |-> FALSE, whole |-> FALSE]

\* Beside the types: there is no checksum before the archive has its name, and
\* no metadata before the checksum.
RecoveryTypeOK ==
    /\ at \in {"idle"} \cup InTry \cup InFinally \cup InRestore
    /\ result \in {"none", "ok", "stopped", "incomplete", "killed"}
    /\ replicas \in [Workloads -> {0, 1}]
    /\ pods \in [Workloads -> {"absent", "starting", "ready", "ending"}]
    /\ {helper, attemptedLoki, helperCreated, error, failures,
        extractPod, extractCreated, policy, validationPod} \subseteq BOOLEAN
    /\ stamp \in 0 .. MaxBackups
    /\ files \in [Stamps -> Files]
    /\ \A b \in Stamps : /\ files[b].sha # "none" => files[b].archive = "archive"
                         /\ files[b].json # "none" => files[b].sha = "whole"
    /\ source \in Stamps \cup {0}
    /\ directory \in Directories

RecoveryInit ==
    /\ at = "idle" /\ result = "none"
    /\ replicas = [w \in Workloads |-> 1]
    /\ pods = [w \in Workloads |-> "ready"]
    /\ helper = FALSE
    /\ attemptedLoki = FALSE /\ helperCreated = FALSE
    /\ error = FALSE /\ failures = FALSE
    /\ stamp = 0
    /\ files = [b \in Stamps |-> NoFiles]
    /\ source = 0
    /\ directory = Directory("absent")
    /\ extractPod = FALSE /\ extractCreated = FALSE
    /\ policy = FALSE /\ validationPod = FALSE

-----------------------------------------------------------------------------
(***************************************************************************)
(* The cluster.                                                            *)
(***************************************************************************)

\* The deletion of a Pod cannot be taken back: scaled up again, the workload gets
\* another Pod, here after the old one is gone; Alloy's Deployment may be quicker.
PodStops(w) ==
    /\ replicas[w] = 0 /\ pods[w] \in {"starting", "ready"}
    /\ pods' = [pods EXCEPT ![w] = "ending"]
    /\ UNCHANGED <<at, result, replicas, helper, flagVars, fileVars, restoreVars>>

PodEnds(w) ==
    /\ pods[w] = "ending"
    /\ pods' = [pods EXCEPT ![w] = "absent"]
    /\ UNCHANGED <<at, result, replicas, helper, flagVars, fileVars, restoreVars>>

PodStarts(w) ==
    /\ replicas[w] = 1 /\ pods[w] = "absent"
    /\ pods' = [pods EXCEPT ![w] = "starting"]
    /\ UNCHANGED <<at, result, replicas, helper, flagVars, fileVars, restoreVars>>

PodReady(w) ==
    /\ replicas[w] = 1 /\ pods[w] = "starting"
    /\ pods' = [pods EXCEPT ![w] = "ready"]
    /\ UNCHANGED <<at, result, replicas, helper, flagVars, fileVars, restoreVars>>

-----------------------------------------------------------------------------
(***************************************************************************)
(* backup.                                                                 *)
(***************************************************************************)

\* preflight reads the cluster and changes nothing; a refusal ends the script.
preflight ==
    /\ \A w \in Workloads : replicas[w] = 1 /\ pods[w] = "ready"
    /\ ~helper

StartBackup ==
    /\ at = "idle"
    /\ preflight
    /\ stamp < MaxBackups
    /\ stamp' = stamp + 1
    /\ at' = "stop_alloy"
    /\ result' = "none"
    /\ attemptedLoki' = FALSE /\ helperCreated' = FALSE
    /\ error' = FALSE /\ failures' = FALSE
    /\ UNCHANGED <<clusterVars, files, restoreVars>>

\* Mutant: the recovery brings Alloy back first.
RecoveryBeginsWithAlloy ==
    IF helperCreated THEN "delete_helper" ELSE "alloy_up"

\* Where finally begins, by the flags.
RecoveryBegins ==
    IF helperCreated THEN "delete_helper"
    ELSE IF attemptedLoki THEN "loki_up" ELSE "alloy_up"

\* An exception of any kind, Ctrl-C included, inside try.
Raise ==
    /\ at' = RecoveryBegins
    /\ error' = TRUE
    /\ UNCHANGED <<result, attemptedLoki, helperCreated, failures>>

Proceed(next) ==
    /\ at' = next
    /\ UNCHANGED <<result, flagVars>>

Scaled(w, n) == [replicas EXCEPT ![w] = n]

StopAlloy ==
    /\ at = "stop_alloy"
    /\ \/ replicas' = Scaled("alloy", 0) /\ Proceed("wait_alloy")
       \/ replicas' \in {replicas, Scaled("alloy", 0)} /\ Raise
    /\ UNCHANGED <<pods, helper, fileVars, restoreVars>>

WaitAlloy ==
    /\ at = "wait_alloy"
    /\ \/ /\ pods["alloy"] = "absent"
          /\ at' = "stop_loki"
          /\ attemptedLoki' = TRUE
          /\ UNCHANGED <<result, helperCreated, error, failures>>
       \/ Raise
    /\ UNCHANGED <<clusterVars, fileVars, restoreVars>>

StopLoki ==
    /\ at = "stop_loki"
    /\ \/ replicas' = Scaled("loki", 0) /\ Proceed("wait_loki")
       \/ replicas' \in {replicas, Scaled("loki", 0)} /\ Raise
    /\ UNCHANGED <<pods, helper, fileVars, restoreVars>>

\* Mutant: the rollout of zero replicas is taken for the end of the Pod.
WaitLokiNot ==
    /\ at = "wait_loki"
    /\ Proceed("create_helper")
    /\ UNCHANGED <<clusterVars, fileVars, restoreVars>>

WaitLoki ==
    /\ at = "wait_loki"
    /\ (pods["loki"] = "absent" /\ Proceed("create_helper")) \/ Raise
    /\ UNCHANGED <<clusterVars, fileVars, restoreVars>>

CreateHelper ==
    /\ at = "create_helper"
    /\ \/ /\ ~helper /\ helper' = TRUE
          /\ at' = "wait_helper"
          /\ helperCreated' = TRUE
          /\ UNCHANGED <<result, attemptedLoki, error, failures>>
       \/ helper' \in {helper, TRUE} /\ Raise
    /\ UNCHANGED <<replicas, pods, fileVars, restoreVars>>

\* Ready, and on forge-head.
WaitHelper ==
    /\ at = "wait_helper"
    /\ Proceed("open_partial") \/ Raise
    /\ UNCHANGED <<clusterVars, fileVars, restoreVars>>

OpenPartial ==
    /\ at = "open_partial"
    /\ \/ /\ files' = [files EXCEPT ![stamp].archive = "partial",
                                    ![stamp].cold = (pods["loki"] = "absent")]
          /\ Proceed("stream")
       \/ files' = files /\ Raise
    /\ UNCHANGED <<clusterVars, stamp, restoreVars>>

\* The stream may end early with an error, or without one.
Stream ==
    /\ at = "stream"
    /\ \E whole \in BOOLEAN :
           /\ files' = [files EXCEPT ![stamp].whole = whole,
                                    ![stamp].cold = @ /\ pods["loki"] = "absent"]
           /\ Proceed("validate") \/ Raise
    /\ UNCHANGED <<clusterVars, stamp, restoreVars>>

\* tarfile reads to the end and fails on a truncated archive.
Validate ==
    /\ at = "validate"
    /\ (files[stamp].whole /\ Proceed("rename")) \/ Raise
    /\ UNCHANGED <<clusterVars, fileVars, restoreVars>>

Rename ==
    /\ at = "rename"
    /\ \/ files' = [files EXCEPT ![stamp].archive = "archive"] /\ Proceed("write_sha")
       \/ files' = files /\ Raise
    /\ UNCHANGED <<clusterVars, stamp, restoreVars>>

WriteSha ==
    /\ at = "write_sha"
    /\ \/ files' = [files EXCEPT ![stamp].sha = "whole"] /\ Proceed("write_json")
       \/ \E written \in Sidecar : files' = [files EXCEPT ![stamp].sha = written] /\ Raise
    /\ UNCHANGED <<clusterVars, stamp, restoreVars>>

WriteJson ==
    /\ at = "write_json"
    /\ \/ files' = [files EXCEPT ![stamp].json = "whole"] /\ Proceed(RecoveryBegins)
       \/ \E written \in Sidecar : files' = [files EXCEPT ![stamp].json = written] /\ Raise
    /\ UNCHANGED <<clusterVars, stamp, restoreVars>>

-----------------------------------------------------------------------------
(***************************************************************************)
(* finally: each part is tried, whatever happened to the one before.       *)
(***************************************************************************)

Failed(next) ==
    /\ at' = next
    /\ failures' = TRUE
    /\ UNCHANGED <<result, attemptedLoki, helperCreated, error>>

DeleteHelper ==
    /\ at = "delete_helper"
    /\ \/ helper' = FALSE /\ Proceed("loki_up")
       \/ helper' \in {helper, FALSE} /\ Failed("loki_up")
    /\ UNCHANGED <<replicas, pods, fileVars, restoreVars>>

LokiUp ==
    /\ at = "loki_up"
    /\ \/ replicas' = Scaled("loki", 1) /\ Proceed("loki_ready")
       \/ replicas' \in {replicas, Scaled("loki", 1)} /\ Failed("alloy_up")
    /\ UNCHANGED <<pods, helper, fileVars, restoreVars>>

LokiReady ==
    /\ at = "loki_ready"
    /\ (pods["loki"] = "ready" /\ Proceed("alloy_up")) \/ Failed("alloy_up")
    /\ UNCHANGED <<clusterVars, fileVars, restoreVars>>

AlloyUp ==
    /\ at = "alloy_up"
    /\ \/ replicas' = Scaled("alloy", 1) /\ Proceed("alloy_ready")
       \/ replicas' \in {replicas, Scaled("alloy", 1)} /\ Failed("report")
    /\ UNCHANGED <<pods, helper, fileVars, restoreVars>>

\* Mutant: the Deployment is scaled but not waited for.
AlloyReadyNot ==
    /\ at = "alloy_ready"
    /\ Proceed("report")
    /\ UNCHANGED <<clusterVars, fileVars, restoreVars>>

AlloyReady ==
    /\ at = "alloy_ready"
    /\ (pods["alloy"] = "ready" /\ Proceed("report")) \/ Failed("report")
    /\ UNCHANGED <<clusterVars, fileVars, restoreVars>>

End(how) ==
    /\ at' = "idle"
    /\ result' = how

Report ==
    /\ at = "report"
    /\ End(IF failures THEN "incomplete" ELSE IF error THEN "stopped" ELSE "ok")
    /\ UNCHANGED <<clusterVars, flagVars, fileVars, restoreVars>>

\* The process is killed, its terminal closed, or Ctrl-C reaches it in finally,
\* where only Exception is caught.
Killed ==
    /\ at # "idle"
    /\ End("killed")
    /\ UNCHANGED <<clusterVars, flagVars, fileVars, restoreVars>>

-----------------------------------------------------------------------------
(***************************************************************************)
(* restore.                                                                *)
(***************************************************************************)

\* Archive, checksum and metadata are there and agree.
Usable(b) ==
    /\ files[b].archive = "archive"
    /\ files[b].sha = "whole" /\ files[b].whole
    /\ files[b].json = "whole"

StartRestore(b) ==
    /\ at = "idle"
    /\ Usable(b)
    /\ preflight
    /\ directory.state = "absent" /\ ~extractPod /\ ~validationPod
    /\ source' = b
    /\ at' = "mkdir"
    /\ result' = "none"
    /\ extractCreated' = FALSE
    /\ attemptedLoki' = FALSE /\ helperCreated' = FALSE
    /\ error' = FALSE /\ failures' = FALSE
    /\ UNCHANGED <<clusterVars, fileVars, directory, extractPod, policy, validationPod>>

Stop == End("stopped") /\ UNCHANGED flagVars

MakeDirectory ==
    /\ at = "mkdir"
    /\ \/ directory' = Directory("empty") /\ Proceed("create_extract")
       \/ directory' \in {directory, Directory("empty")} /\ Stop
    /\ UNCHANGED <<clusterVars, fileVars, source, extractPod, extractCreated,
                   policy, validationPod>>

\* An exception inside restore's try.
RaiseInRestore ==
    /\ at' = "delete_extract"
    /\ error' = TRUE
    /\ UNCHANGED <<result, attemptedLoki, helperCreated, failures>>

CreateExtract ==
    /\ at = "create_extract"
    /\ \/ extractPod' = TRUE /\ extractCreated' = TRUE /\ Proceed("wait_extract")
       \/ extractPod' \in BOOLEAN /\ UNCHANGED extractCreated /\ RaiseInRestore
    /\ UNCHANGED <<clusterVars, fileVars, source, directory, policy, validationPod>>

WaitExtract ==
    /\ at = "wait_extract"
    /\ Proceed("extract") \/ RaiseInRestore
    /\ UNCHANGED <<clusterVars, fileVars, restoreVars>>

Extracted(b) == [state |-> "extracted", cold |-> files[b].cold, whole |-> files[b].whole]

Extract ==
    /\ at = "extract"
    /\ \/ directory' = Extracted(source) /\ Proceed("delete_extract")
       \/ directory' \in {directory, Directory("torn"), Extracted(source)} /\ RaiseInRestore
    /\ UNCHANGED <<clusterVars, fileVars, source, extractPod, extractCreated,
                   policy, validationPod>>

\* Mutant: an exception ends with the finally block.
DeleteExtractForgets ==
    /\ at = "delete_extract"
    /\ extractPod' = IF extractCreated THEN FALSE ELSE extractPod
    /\ Proceed("create_policy")
    /\ UNCHANGED <<clusterVars, fileVars, source, directory, extractCreated,
                   policy, validationPod>>

\* restore's finally; the exception goes on after it, or a new one replaces it.
DeleteExtract ==
    /\ at = "delete_extract"
    /\ \/ /\ extractPod' = IF extractCreated THEN FALSE ELSE extractPod
          /\ IF error THEN Stop ELSE Proceed("create_policy")
       \/ extractCreated /\ extractPod' \in BOOLEAN /\ Stop
    /\ UNCHANGED <<clusterVars, fileVars, source, directory, extractCreated,
                   policy, validationPod>>

\* A policy that is there already makes the command fail.
CreatePolicy ==
    /\ at = "create_policy"
    /\ \/ ~policy /\ policy' = TRUE /\ Proceed("create_validation")
       \/ policy' \in {policy, TRUE} /\ Stop
    /\ UNCHANGED <<clusterVars, fileVars, source, directory, extractPod, extractCreated,
                   validationPod>>

CreateValidation ==
    /\ at = "create_validation"
    /\ \/ validationPod' = TRUE /\ Proceed("wait_validation")
       \/ validationPod' \in BOOLEAN /\ Stop
    /\ UNCHANGED <<clusterVars, fileVars, source, directory, extractPod, extractCreated,
                   policy>>

WaitValidation ==
    /\ at = "wait_validation"
    /\ (End("ok") /\ UNCHANGED flagVars) \/ Stop
    /\ UNCHANGED <<clusterVars, fileVars, restoreVars>>

-----------------------------------------------------------------------------
(***************************************************************************)
(* Between two runs: the operator repairs the workloads and removes a left *)
(* helper, or clears a reviewed restore in the recorded order (Pods,       *)
(* policy, directory), and a stored archive gets damaged.                  *)
(***************************************************************************)

Repair ==
    /\ at = "idle" /\ result # "none"
    /\ replicas' = [w \in Workloads |-> 1]
    /\ helper' = FALSE
    /\ UNCHANGED <<at, result, pods, flagVars, fileVars, restoreVars>>

ClearRestore ==
    /\ at = "idle" /\ directory.state # "absent"
    /\ extractPod' = FALSE /\ validationPod' = FALSE /\ policy' = FALSE
    /\ directory' = Directory("absent")
    /\ UNCHANGED <<at, result, clusterVars, flagVars, fileVars, source, extractCreated>>

Damage(b) ==
    /\ at = "idle" /\ files[b].archive = "archive" /\ files[b].whole
    /\ files' = [files EXCEPT ![b].whole = FALSE]
    /\ UNCHANGED <<at, result, clusterVars, flagVars, stamp, restoreVars>>

BackupStep ==
    \/ StartBackup
    \/ StopAlloy
    \/ WaitAlloy
    \/ StopLoki
    \/ WaitLoki
    \/ CreateHelper
    \/ WaitHelper
    \/ OpenPartial
    \/ Stream
    \/ Validate
    \/ Rename
    \/ WriteSha
    \/ WriteJson
    \/ DeleteHelper
    \/ LokiUp
    \/ LokiReady
    \/ AlloyUp
    \/ AlloyReady
    \/ Report

RestoreStep ==
    \/ \E b \in Stamps : StartRestore(b)
    \/ MakeDirectory
    \/ CreateExtract
    \/ WaitExtract
    \/ Extract
    \/ DeleteExtract
    \/ CreatePolicy
    \/ CreateValidation
    \/ WaitValidation

RecoveryNext ==
    \/ BackupStep
    \/ RestoreStep
    \/ Killed
    \/ \E w \in Workloads : PodStops(w) \/ PodEnds(w) \/ PodStarts(w) \/ PodReady(w)
    \/ Repair
    \/ ClearRestore
    \/ \E b \in Stamps : Damage(b)

RecoverySpec == RecoveryInit /\ [][RecoveryNext]_recoveryVars

-----------------------------------------------------------------------------

\* An archive that restore accepts was streamed from beginning to end while no
\* Loki Pod existed, also after runs that were killed or failed half-way
\* ("stops Alloy first and Loki second, waits for both Pods to exit",
\* docs/milestones/loki-recovery-candidate.md:29-30).  Beside it the types, and that
\* the files of a backup appear in the order archive, checksum, description.
UsableArchiveIsCold ==
    /\ RecoveryTypeOK
    /\ \A b \in Stamps : Usable(b) => files[b].cold

\* A run that ends without reporting an incomplete recovery leaves both workloads
\* scaled up and ready and no helper behind, whichever command failed; the one
\* helper that may stay is one whose creation was reported as failed.
RecoveredOrReported ==
    at = "idle" /\ result \in {"ok", "stopped"} =>
        /\ \A w \in Workloads : replicas[w] = 1 /\ pods[w] = "ready"
        /\ helper => result = "stopped" /\ ~helperCreated

\* Alloy never runs into a stopped Loki: it is stopped first and started last,
\* unless Loki's own recovery failed, which is reported.
AlloyStopsFirstStartsLast ==
    replicas["loki"] = 0 =>
        failures \/ (replicas["alloy"] = 0 /\ pods["alloy"] = "absent")

\* The isolated Loki serves one complete, undamaged archive and nothing else, is
\* never started without its deny policy, and never beside the Pod that
\* extracts: a failed, torn or killed restore does not lead to one.
ValidationServesArchive ==
    validationPod =>
        /\ directory.state = "extracted" /\ directory.whole /\ directory.cold
        /\ policy
        /\ ~extractPod

=============================================================================
