------------------------------ MODULE Imports ------------------------------
(***************************************************************************)
(* Imports of packages (backend/internal/app/profiles.go, jobs.go).        *)
(*                                                                         *)
(* An upload is stored in the jobs directory and a job imports it: it      *)
(* validates the package in a subprocess, keeps the result, and installs   *)
(* an immutable version.  The job runner is JobRunner's; here a job is its *)
(* status and how far runImport got, and a restart interrupts it at any    *)
(* step.  All the packages claim one version, so that two contents of it   *)
(* can meet; different versions share nothing.  Every hour a sweep removes *)
(* the files of a day ago that no open job needs, by the list of jobs it   *)
(* read before.                                                            *)
(***************************************************************************)
EXTENDS Naturals, FiniteSets

CONSTANTS Uploads,      \* calls of SubmitImport, each with a file of its own
          Contents,     \* what is uploaded
          Rejected,     \* contents whose report is not OK
          NotInstalled, \* no content: no package has the version
          MaxNodeRestarts \* bound: restarts of the node

ASSUME ImportsAssumption ==
  Rejected \subseteq Contents /\ NotInstalled \notin Contents /\ MaxNodeRestarts \in Nat

VARIABLES
  submitting,         \* the call of SubmitImport: new, written or done
  content,      \* content[u]: what was uploaded
  uploads,      \* uploads with a file in the jobs directory
  results,      \* uploads with a validation kept beside it
  import,       \* import[u]: the status of the job, its step and checkpoint
  due,          \* jobs that ended and whose files are to be removed
  sweeping,     \* sweepJobFiles has listed the jobs and removes files
  kept,         \* the jobs it listed, and
  oldUploads,   \* the uploads and
  oldResults,   \* the validations that were more than a day old then
  package,      \* the content installed as the version
  packageFiles, \* contents in the packages directory
  nodeRestarts

sweepVars == <<sweeping, kept, oldUploads, oldResults>>
fileVars == <<uploads, results, packageFiles, sweepVars>>
importVars == <<submitting, content, fileVars, import, due, package, nodeRestarts>>

NoImport == [status |-> "none", at |-> "none", validated |-> FALSE, canceled |-> FALSE]
OpenImports == {u \in Uploads : import[u].status \in {"queued", "running", "interrupted"}}

ImportsInit ==
  /\ submitting = [u \in Uploads |-> "new"]
  /\ content = [u \in Uploads |-> NotInstalled]
  /\ uploads = {} /\ results = {} /\ packageFiles = {}
  /\ import = [u \in Uploads |-> NoImport]
  /\ due = {} /\ package = NotInstalled /\ nodeRestarts = 0
  /\ sweeping = FALSE /\ kept = {} /\ oldUploads = {} /\ oldResults = {}

-----------------------------------------------------------------------------
(* Requests.                                                                *)

\* SubmitImport writes the upload to a file of its own ...
SubmitImport(u, x) ==
  /\ submitting[u] = "new"
  /\ submitting' = [submitting EXCEPT ![u] = "written"]
  /\ content' = [content EXCEPT ![u] = x]
  /\ uploads' = uploads \cup {u}
  /\ UNCHANGED <<results, packageFiles, sweepVars, import, due, package, nodeRestarts>>

\* ... and submits the job.  It joins the open job of its content, resuming
\* it; that, or a refusal of the queue, makes its own file superfluous.
SubmitJob(u) ==
  LET same == {v \in OpenImports : content[v] = content[u]} IN
  /\ submitting[u] = "written"
  /\ submitting' = [submitting EXCEPT ![u] = "done"]
  /\ \/ /\ same = {}
        /\ import' = [import EXCEPT ![u].status = "queued"]
        /\ UNCHANGED uploads
     \/ /\ same = {}
        /\ uploads' = uploads \ {u}
        /\ UNCHANGED import
     \/ /\ same # {}
        /\ import' = [v \in Uploads |->
             IF v \in same /\ import[v].status = "interrupted"
             THEN [import[v] EXCEPT !.status = "queued"] ELSE import[v]]
        /\ uploads' = uploads \ {u}
  /\ UNCHANGED <<content, results, packageFiles, sweepVars, due, package, nodeRestarts>>

ResumeJob(u) ==
  /\ import[u].status = "interrupted"
  /\ import' = [import EXCEPT ![u].status = "queued"]
  /\ UNCHANGED <<submitting, content, fileVars, due, package, nodeRestarts>>

\* A running job has its context canceled; another one ends.
CancelJob(u) ==
  /\ u \in OpenImports /\ ~import[u].canceled
  /\ IF import[u].status = "running"
     THEN import' = [import EXCEPT ![u].canceled = TRUE] /\ UNCHANGED due
     ELSE import' = [import EXCEPT ![u].status = "canceled"] /\ due' = due \cup {u}
  /\ UNCHANGED <<submitting, content, fileVars, package, nodeRestarts>>

-----------------------------------------------------------------------------
(* The job.                                                                 *)

StartImport(u) ==
  /\ import[u].status = "queued"
  /\ import' = [import EXCEPT ![u].status = "running", ![u].at = "read"]
  /\ UNCHANGED <<submitting, content, fileVars, due, package, nodeRestarts>>

GoOn(u, from, to) ==
  /\ import[u].status = "running" /\ import[u].at = from
  /\ import' = [import EXCEPT ![u].at = to]
  /\ UNCHANGED <<submitting, content, due, nodeRestarts>>

\* The handler returns, and the files are removed afterwards.
EndImport(u, from, status) ==
  /\ import[u].status = "running" /\ import[u].at = from
  /\ import' = [import EXCEPT ![u].at = "none",
       ![u].status = IF status = "failed" /\ import[u].canceled THEN "canceled" ELSE status]
  /\ due' = due \cup {u}
  /\ UNCHANGED <<submitting, content, nodeRestarts>>

\* runImport reads the upload, and the validation when the checkpoint says
\* it was kept.  The upload is there, as ImportFilesKept says.
runImport(u) ==
  /\ u \in uploads
  /\ GoOn(u, "read", IF import[u].validated /\ u \in results THEN "lookup" ELSE "inspect")
  /\ UNCHANGED <<fileVars, package>>

\* The subprocess validates, or it fails, times out or is canceled.
inspect(u) ==
  /\ GoOn(u, "inspect", "result") \/ EndImport(u, "inspect", "failed")
  /\ UNCHANGED <<fileVars, package>>

KeepResult(u) ==
  /\ GoOn(u, "result", "save")
  /\ results' = results \cup {u} /\ oldResults' = oldResults \ {u}
  /\ UNCHANGED <<uploads, packageFiles, oldUploads, sweeping, kept, package>>

SaveCheckpoint(u) ==
  /\ import[u].status = "running" /\ import[u].at = "save"
  /\ import' = [import EXCEPT ![u].at = "lookup", ![u].validated = TRUE]
  /\ UNCHANGED <<submitting, content, fileVars, due, package, nodeRestarts>>

\* The installed content of the version, if any.
GetPackageByKey == package

\* installPackage: a rejected package, or the version with other content,
\* fails; the same content installed before is a success.
installPackage(u) ==
  /\ \/ /\ content[u] \notin Rejected /\ GetPackageByKey = NotInstalled
        /\ GoOn(u, "lookup", "file")
     \/ /\ content[u] \notin Rejected /\ GetPackageByKey = content[u]
        /\ EndImport(u, "lookup", "completed")
     \/ /\ \/ content[u] \in Rejected
           \/ GetPackageByKey \notin {NotInstalled, content[u]}
           \/ import[u].canceled
        /\ EndImport(u, "lookup", "failed")
  /\ UNCHANGED <<fileVars, package>>

WritePackage(u) ==
  /\ GoOn(u, "file", "tx")
  /\ packageFiles' = packageFiles \cup {content[u]}
  /\ UNCHANGED <<uploads, results, sweepVars, package>>

\* The transaction inserts the package and its profile; the UNIQUE index of
\* the versions refuses the second one.
InsertPackage(u) ==
  /\ \/ /\ package = NotInstalled
        /\ package' = content[u]
        /\ GoOn(u, "tx", "installed")
     \/ /\ package # NotInstalled \/ import[u].canceled
        /\ EndImport(u, "tx", "failed")
        /\ UNCHANGED package
  /\ UNCHANGED fileVars

\* The profile is read back for the answer, which a cancel still stops.
GetProfile(u) ==
  /\ \/ EndImport(u, "installed", "completed")
     \/ import[u].canceled /\ EndImport(u, "installed", "failed")
  /\ UNCHANGED <<fileVars, package>>

\* A bug: the files are named after the content.
removeImportFilesOfContent(u) ==
  /\ u \in due
  /\ due' = due \ {u}
  /\ uploads' = {v \in uploads : content[v] # content[u]}
  /\ results' = {v \in results : content[v] # content[u]}
  /\ UNCHANGED <<submitting, content, import, package, packageFiles, sweepVars, nodeRestarts>>

\* removeImportFiles, after the job has ended.
removeImportFiles(u) ==
  /\ u \in due
  /\ due' = due \ {u}
  /\ uploads' = uploads \ {u} /\ results' = results \ {u}
  /\ UNCHANGED <<submitting, content, import, package, packageFiles, sweepVars, nodeRestarts>>

-----------------------------------------------------------------------------
(* The hourly sweep.                                                        *)

\* A bug: an interrupted job is taken for one that is over.
RunningImports == {u \in Uploads : import[u].status \in {"queued", "running"}}

\* The imports runner.List calls active.
ActiveImports == OpenImports

\* sweepJobFiles lists the active imports, whose files it keeps.  Any file may
\* be more than a day old by then, but that of a SubmitImport under way, as
\* no request takes a day ...
sweepJobFiles ==
  /\ ~sweeping
  /\ sweeping' = TRUE /\ kept' = ActiveImports
  /\ oldUploads' = {u \in uploads : submitting[u] # "written"}
  /\ oldResults' = results
  /\ UNCHANGED <<submitting, content, uploads, results, packageFiles, import, due, package, nodeRestarts>>

\* ... and then removes, one by one, the others that are that old, while
\* jobs begin and end.
sweepFile(u) ==
  /\ sweeping /\ u \notin kept
  /\ \/ u \in uploads \cap oldUploads /\ uploads' = uploads \ {u} /\ UNCHANGED results
     \/ u \in results \cap oldResults /\ results' = results \ {u} /\ UNCHANGED uploads
  /\ UNCHANGED <<submitting, content, packageFiles, sweepVars, import, due, package, nodeRestarts>>

SweepOver == sweeping' = FALSE /\ kept' = {} /\ oldUploads' = {} /\ oldResults' = {}

sweepEnd ==
  /\ sweeping /\ SweepOver
  /\ UNCHANGED <<submitting, content, uploads, results, packageFiles, import, due, package, nodeRestarts>>

\* The node stops at any step and starts again: Recover interrupts what was
\* running, and removals that were due are forgotten.
RestartImports ==
  /\ nodeRestarts < MaxNodeRestarts
  /\ nodeRestarts' = nodeRestarts + 1
  /\ import' = [u \in Uploads |->
       IF import[u].status = "running"
       THEN [import[u] EXCEPT !.status = "interrupted", !.at = "none", !.canceled = FALSE]
       ELSE import[u]]
  /\ due' = {}
  /\ submitting' = [u \in Uploads |-> IF submitting[u] = "written" THEN "done" ELSE submitting[u]]
  /\ SweepOver
  /\ UNCHANGED <<content, uploads, results, packageFiles, package>>

ImportsNext ==
  \/ \E u \in Uploads :
       \/ (\E x \in Contents : SubmitImport(u, x)) \/ SubmitJob(u) \/ ResumeJob(u) \/ CancelJob(u)
       \/ StartImport(u) \/ runImport(u) \/ inspect(u) \/ KeepResult(u) \/ SaveCheckpoint(u)
       \/ installPackage(u) \/ WritePackage(u) \/ InsertPackage(u) \/ GetProfile(u)
       \/ removeImportFiles(u) \/ sweepFile(u)
  \/ sweepJobFiles \/ sweepEnd \/ RestartImports

ImportsSpec == ImportsInit /\ [][ImportsNext]_importVars

-----------------------------------------------------------------------------
(* Properties.                                                              *)

\* SubmitImport: "the cleanup of a finished import never removes a new upload
\* of the same content", and neither does the sweep, however old its list of
\* jobs is: an import that can still run or be resumed has its upload, and
\* its validation once the checkpoint says so; and an installed package has
\* its file, wherever the node stopped.
ImportFilesKept ==
  /\ OpenImports \subseteq uploads
  /\ \A u \in OpenImports : import[u].validated => u \in results
  /\ package # NotInstalled => package \in packageFiles
=============================================================================
