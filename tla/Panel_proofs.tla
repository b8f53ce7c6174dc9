---------------------------- MODULE Panel_proofs ----------------------------
(***************************************************************************)
(* Theorems about the parts of the panel's service, for any requests,      *)
(* credentials and uploads and any bounds.                                 *)
(***************************************************************************)
EXTENDS MCPanel, FiniteSetTheorems, SequenceTheorems, TLAPS

-----------------------------------------------------------------------------
(* HashLimiter *)

\* Where hashLimiter.do can be.
HashTyped == stage \in [Hashers -> {"out", "busy", "wait", "hashing"}]

HashInv == HashTyped /\ HashesBounded

Count(where) == Cardinality(Inside(where))

\* The requests at some places are finitely many, and fewer than those at more.
LEMMA CountSubset ==
  ASSUME NEW where, NEW wider, where \subseteq wider
  PROVE  /\ IsFiniteSet(Inside(where)) /\ Count(where) \in Nat
         /\ Count(where) <= Count(wider)
<1>1. Inside(wider) \subseteq Hashers /\ Inside(where) \subseteq Inside(wider)
  BY DEF Inside
<1>2. IsFiniteSet(Inside(wider)) BY <1>1, HashAssumption, FS_Subset DEF HashAssumption
<1> QED BY <1>1, <1>2, FS_Subset, FS_CardinalityType DEF Count

\* One request that moves changes the count at some places by what it means.
LEMMA CountMoves ==
  ASSUME HashTyped, NEW h \in Hashers, NEW to, NEW where, stage' = [stage EXCEPT ![h] = to]
  PROVE  Count(where)' = Count(where) - (IF stage[h] \in where THEN 1 ELSE 0)
                                      + (IF to \in where THEN 1 ELSE 0)
<1> DEFINE S == Inside(where)
<1>1. IsFiniteSet(S) /\ Cardinality(S) \in Nat BY CountSubset DEF Count
<1>2. h \in S <=> stage[h] \in where BY DEF Inside
<1>3. CASE to \in where
  <2>1. S' = S \cup {h} BY <1>3 DEF Inside, HashTyped
  <2>2. Cardinality(S \cup {h}) = IF h \in S THEN Cardinality(S) ELSE Cardinality(S) + 1
    BY <1>1, FS_AddElement
  <2>3. Count(where)' = Cardinality(S \cup {h}) BY <2>1 DEF Count
  <2> HIDE DEF S
  <2>4. Count(where) = Cardinality(S) BY DEF S, Count
  <2> QED BY <1>1, <1>2, <1>3, <2>2, <2>3, <2>4
<1>4. CASE to \notin where
  <2>1. S' = S \ {h} BY <1>4 DEF Inside, HashTyped
  <2>2. Cardinality(S \ {h}) = IF h \in S THEN Cardinality(S) - 1 ELSE Cardinality(S)
    BY <1>1, FS_RemoveElement
  <2>3. Count(where)' = Cardinality(S \ {h}) BY <2>1 DEF Count
  <2> HIDE DEF S
  <2>4. Count(where) = Cardinality(S) BY DEF S, Count
  <2> QED BY <1>1, <1>2, <1>4, <2>2, <2>3, <2>4
<1> QED BY <1>3, <1>4

\* Every step of a request keeps the counters exact and the bounds.
LEMMA HashInvStep ==
  ASSUME HashInv, NEW h \in Hashers, HashEnter(h) \/ HashStep(h)
  PROVE  HashInv'
<1> DEFINE hashing == Count({"hashing"})
           within  == Count({"wait", "hashing"})
           counted == Count({"wait", "hashing", "busy"})
<1>1. /\ hashing \in Nat /\ within \in Nat /\ counted \in Nat /\ within <= counted
      /\ slots = hashing /\ pending = counted
      /\ hashing <= maxConcurrentHashes /\ within <= maxPendingHashes
      /\ maxConcurrentHashes \in Nat /\ maxPendingHashes \in Nat
  BY CountSubset, HashAssumption DEF HashAssumption, HashInv, HashesBounded, Count
<1>2. ASSUME NEW to \in {"out", "busy", "wait", "hashing"}, stage' = [stage EXCEPT ![h] = to]
      PROVE  /\ hashing' = hashing - (IF stage[h] \in {"hashing"} THEN 1 ELSE 0)
                                   + (IF to \in {"hashing"} THEN 1 ELSE 0)
             /\ within' = within - (IF stage[h] \in {"wait", "hashing"} THEN 1 ELSE 0)
                                 + (IF to \in {"wait", "hashing"} THEN 1 ELSE 0)
             /\ counted' = counted - (IF stage[h] \in {"wait", "hashing", "busy"} THEN 1 ELSE 0)
                                   + (IF to \in {"wait", "hashing", "busy"} THEN 1 ELSE 0)
             /\ HashTyped'
  <2>1. HashTyped /\ HashTyped' BY <1>2 DEF HashInv, HashTyped
  <2>2. hashing' = hashing - (IF stage[h] \in {"hashing"} THEN 1 ELSE 0)
                           + (IF to \in {"hashing"} THEN 1 ELSE 0)
    BY <1>2, <2>1, CountMoves
  <2>3. within' = within - (IF stage[h] \in {"wait", "hashing"} THEN 1 ELSE 0)
                         + (IF to \in {"wait", "hashing"} THEN 1 ELSE 0)
    BY <1>2, <2>1, CountMoves
  <2>4. counted' = counted - (IF stage[h] \in {"wait", "hashing", "busy"} THEN 1 ELSE 0)
                           + (IF to \in {"wait", "hashing", "busy"} THEN 1 ELSE 0)
    BY <1>2, <2>1, CountMoves
  <2> QED BY <2>1, <2>2, <2>3, <2>4
<1>3. SUFFICES /\ hashing' <= maxConcurrentHashes /\ within' <= maxPendingHashes
               /\ slots' = hashing' /\ pending' = counted' /\ HashTyped'
  BY DEF HashInv, HashesBounded, Count, Inside
<1> HIDE DEF hashing, within, counted
<1>4. CASE HashEnter(h)
  <2>1. CASE pending + 1 > maxPendingHashes BY <1>1, <1>2, <1>4, <2>1 DEF HashEnter
  <2>2. CASE ~(pending + 1 > maxPendingHashes) BY <1>1, <1>2, <1>4, <2>2 DEF HashEnter
  <2> QED BY <2>1, <2>2
<1>5. CASE HashBusy(h) BY <1>1, <1>2, <1>5 DEF HashBusy
<1>6. CASE HashSlot(h) BY <1>1, <1>2, <1>6 DEF HashSlot
<1>7. CASE HashTimeout(h) BY <1>1, <1>2, <1>7 DEF HashTimeout
<1>8. CASE HashEnd(h) BY <1>1, <1>2, <1>8 DEF HashEnd
<1> QED BY <1>4, <1>5, <1>6, <1>7, <1>8 DEF HashStep

\* hashLimiter.do: whatever way requests leave, at most maxConcurrentHashes
\* hash at once, at most maxPendingHashes are let in, and the counters are
\* exactly the requests that hold them.
THEOREM HashesBoundedAlways == HashSpec => []HashesBounded
<1>1. HashInit => HashInv
  <2> SUFFICES ASSUME HashInit PROVE HashInv OBVIOUS
  <2>1. \A where : "out" \notin where => Inside(where) = {} BY DEF HashInit, Inside
  <2>2. Inside({"hashing"}) = {} /\ Inside({"wait", "hashing"}) = {}
        /\ Inside({"wait", "hashing", "busy"}) = {}
    BY <2>1
  <2> QED BY <2>2, FS_EmptySet, HashAssumption
          DEF HashInit, HashInv, HashTyped, HashesBounded, HashAssumption
<1>2. HashInv /\ [HashNext]_hashVars => HashInv'
  <2> SUFFICES ASSUME HashInv, [HashNext]_hashVars PROVE HashInv' OBVIOUS
  <2>1. CASE HashNext BY <2>1, HashInvStep DEF HashNext
  <2>2. CASE UNCHANGED hashVars
    BY <2>2 DEF hashVars, HashInv, HashTyped, HashesBounded, Inside
  <2> QED BY <2>1, <2>2
<1> QED BY <1>1, <1>2, PTL DEF HashSpec, HashInv

-----------------------------------------------------------------------------
(* Imports *)

ImportStatus == {"none", "queued", "running", "interrupted", "completed", "failed", "canceled"}

ImportPlace ==
  {"none", "read", "inspect", "result", "save", "lookup", "file", "tx", "installed"}

ImportType ==
  [status : ImportStatus, at : ImportPlace, validated : BOOLEAN, canceled : BOOLEAN]

ImportsTyped ==
  /\ submitting \in [Uploads -> {"new", "written", "done"}]
  /\ content \in [Uploads -> Contents \cup {NotInstalled}]
  /\ import \in [Uploads -> ImportType]

\* An upload that has no job yet has only its file, and the files of a job
\* are due only once it ended.
UploadsKept ==
  /\ \A u \in Uploads : submitting[u] \in {"new", "written"} => import[u] = NoImport
  /\ \A u \in Uploads : submitting[u] = "written" => u \in uploads
  /\ due \subseteq Uploads
  /\ \A u \in due : import[u].status \in {"completed", "failed", "canceled"}
  /\ \A u \in Uploads : import[u].status \in {"queued", "running", "interrupted"} => u \in uploads

\* What is about to be inserted was written.
PackagesKept ==
  /\ \A u \in Uploads : import[u].at = "tx" => content[u] \in packageFiles
  /\ package # NotInstalled => package \in packageFiles

Started == {"queued", "running", "interrupted"}
Ended == {"completed", "failed", "canceled"}

\* A job the sweep did not list and that can run has no file old enough.
SweepSafe ==
  /\ \A u \in Uploads : u \in uploads => submitting[u] # "new"
  /\ \A u \in Uploads :
       u \in results \/ u \in oldUploads \/ u \in oldResults => submitting[u] = "done"
  /\ sweeping => \A u \in Uploads :
       import[u].status \in Started /\ u \notin kept => u \notin oldUploads /\ u \notin oldResults

\* What a checkpoint says was kept is there.
ResultsKept ==
  /\ \A u \in Uploads : import[u].at # "none" => import[u].status = "running"
  /\ \A u \in Uploads :
       import[u].at = "save" \/ (import[u].status \in Started /\ import[u].validated) => u \in results

ImportsInv == ImportsTyped /\ UploadsKept /\ PackagesKept /\ SweepSafe /\ ResultsKept

\* One job that was started moves: its files are due only with its end, and
\* what it is about to insert, or inserted, is written.
LEMMA OneImportMoves ==
  ASSUME ImportsInv, NEW u \in Uploads, import[u].status \in Started,
         NEW to \in ImportType, import' = [import EXCEPT ![u] = to],
         to.status \in Started \cup Ended,
         due' = due \/ (due' = due \cup {u} /\ to.status \in Ended),
         to.at = "tx" => content[u] \in packageFiles',
         packageFiles \subseteq packageFiles',
         package' # package => package' \in packageFiles',
         to.at # "none" => to.status = "running",
         to.at = "save" \/ (to.status \in Started /\ to.validated) => u \in results',
         results \subseteq results', results' \subseteq results \cup {u}, oldResults' \subseteq oldResults,
         UNCHANGED <<submitting, content, uploads, oldUploads, sweeping, kept>>
  PROVE  ImportsInv'
<1>1. ImportsTyped' BY DEF ImportsInv, ImportsTyped
<1>2. import'[u] = to /\ \A v \in Uploads : v # u => import'[v] = import[v]
  BY DEF ImportsInv, ImportsTyped
<1>3. submitting[u] \notin {"new", "written"} /\ u \notin due /\ u \in uploads
  BY DEF ImportsInv, UploadsKept, Started, NoImport
<1>4. UploadsKept'
  <2>1. \A v \in Uploads : submitting'[v] \in {"new", "written"} => import'[v] = NoImport
    BY <1>2, <1>3 DEF ImportsInv, UploadsKept
  <2>2. \A v \in due' : import'[v].status \in Ended
    <3> SUFFICES ASSUME NEW v \in due' PROVE import'[v].status \in Ended OBVIOUS
    <3>1. CASE v \in due
      <4>1. v \in Uploads /\ v # u /\ import[v].status \in Ended
        BY <1>3, <3>1 DEF ImportsInv, UploadsKept, Ended
      <4> QED BY <1>2, <4>1
    <3>2. CASE v \notin due
      <4>1. v = u /\ to.status \in Ended BY <3>2
      <4> QED BY <1>2, <4>1
    <3> QED BY <3>1, <3>2
  <2> QED BY <1>2, <1>3, <2>1, <2>2 DEF ImportsInv, UploadsKept, Ended
<1>5. PackagesKept' BY <1>2 DEF ImportsInv, PackagesKept
<1>6. SweepSafe'
  <2>1. submitting[u] = "done" BY <1>3 DEF ImportsInv, ImportsTyped
  <2>2. \A v \in Uploads : v \in uploads' => submitting'[v] # "new" BY DEF ImportsInv, SweepSafe
  <2>3. \A v \in Uploads :
          v \in results' \/ v \in oldUploads' \/ v \in oldResults' => submitting'[v] = "done"
    BY <2>1 DEF ImportsInv, SweepSafe
  <2>4. sweeping' => \A v \in Uploads :
          import'[v].status \in Started /\ v \notin kept' => v \notin oldUploads' /\ v \notin oldResults'
    BY <1>2 DEF ImportsInv, SweepSafe
  <2> QED BY <2>2, <2>3, <2>4 DEF SweepSafe
<1>7. ResultsKept' BY <1>2 DEF ImportsInv, ResultsKept
<1> QED BY <1>1, <1>4, <1>5, <1>6, <1>7 DEF ImportsInv

\* The steps of the job, which start it, take it on or end it.
LEMMA ImportsJob ==
  ASSUME ImportsInv, NEW u \in Uploads,
         \/ StartImport(u) \/ runImport(u) \/ inspect(u) \/ KeepResult(u) \/ SaveCheckpoint(u)
         \/ installPackage(u) \/ WritePackage(u) \/ InsertPackage(u) \/ GetProfile(u)
  PROVE  ImportsInv'
<1> DEFINE was == import[u]
<1>1. /\ was \in ImportType /\ import = [import EXCEPT ![u] = was]
      /\ was.at = "tx" => content[u] \in packageFiles
      /\ was.at = "save" \/ (was.status \in Started /\ was.validated) => u \in results
  BY DEF ImportsInv, ImportsTyped, PackagesKept, ResultsKept
<1>2. ASSUME NEW from \in ImportPlace, NEW to \in ImportPlace, GoOn(u, from, to),
             to = "tx" => content[u] \in packageFiles', packageFiles \subseteq packageFiles',
             package' # package => package' \in packageFiles',
             to = "save" => u \in results', results \subseteq results', results' \subseteq results \cup {u},
             oldResults' \subseteq oldResults, UNCHANGED <<uploads, oldUploads, sweeping, kept>>
      PROVE  ImportsInv'
  <2> DEFINE next == [was EXCEPT !.at = to]
  <2>1. /\ next \in ImportType /\ next.at = to /\ next.status = "running" /\ was.status = "running"
        /\ next.validated = was.validated
    BY <1>1, <1>2 DEF GoOn, ImportType
  <2>2. import' = [import EXCEPT ![u] = next] BY <1>2 DEF GoOn
  <2> HIDE DEF next
  <2>3. next.at = "save" \/ (next.status \in Started /\ next.validated) => u \in results'
    BY <1>1, <1>2, <2>1 DEF Started
  <2> QED BY <1>2, <2>1, <2>2, <2>3, OneImportMoves DEF GoOn, Started
<1>3. ASSUME NEW from \in ImportPlace, NEW status \in {"completed", "failed"},
             EndImport(u, from, status),
             UNCHANGED <<fileVars, package>>
      PROVE  ImportsInv'
  <2> DEFINE next == [was EXCEPT !.at = "none",
                   !.status = IF status = "failed" /\ was.canceled THEN "canceled" ELSE status]
  <2>1. next \in ImportType /\ next.at = "none" /\ next.status \in Ended
    BY <1>1, <1>3 DEF EndImport, ImportType, ImportStatus, ImportPlace, Ended
  <2>2. import' = [import EXCEPT ![u] = next] BY <1>3 DEF EndImport
  <2>3. was.status \in Started BY <1>3 DEF EndImport, Started
  <2> HIDE DEF next
  <2> QED BY <1>3, <2>1, <2>2, <2>3, OneImportMoves DEF EndImport, fileVars, sweepVars, Started, Ended
<1>4. CASE StartImport(u)
  <2> DEFINE next == [was EXCEPT !.status = "running", !.at = "read"]
  <2>1. /\ next \in ImportType /\ next.at = "read" /\ next.status = "running"
        /\ next.validated = was.validated
    BY <1>1 DEF ImportType, ImportStatus, ImportPlace
  <2>2. import' = [import EXCEPT ![u] = next] BY <1>4 DEF StartImport
  <2>3. was.status \in Started BY <1>4 DEF StartImport, Started
  <2> HIDE DEF next
  <2> QED BY <1>1, <1>4, <2>1, <2>2, <2>3, OneImportMoves DEF StartImport, fileVars, sweepVars, Started
<1>5. CASE SaveCheckpoint(u)
  <2> DEFINE next == [was EXCEPT !.at = "lookup", !.validated = TRUE]
  <2>1. next \in ImportType /\ next.at = "lookup" /\ next.status = "running" /\ was.at = "save"
    BY <1>1, <1>5 DEF ImportType, ImportPlace, SaveCheckpoint
  <2>2. import' = [import EXCEPT ![u] = next] BY <1>5 DEF SaveCheckpoint
  <2>3. was.status \in Started BY <1>5 DEF SaveCheckpoint, Started
  <2> HIDE DEF next
  <2> QED BY <1>1, <1>5, <2>1, <2>2, <2>3, OneImportMoves DEF SaveCheckpoint, fileVars, sweepVars, Started
<1>6. CASE runImport(u)
  <2>1. PICK to \in {"lookup", "inspect"} : GoOn(u, "read", to) BY <1>6 DEF runImport
  <2> QED BY <1>2, <1>6, <2>1 DEF runImport, fileVars, sweepVars, ImportPlace
<1>7. CASE inspect(u) BY <1>2, <1>3, <1>7 DEF inspect, fileVars, sweepVars, ImportPlace
<1>8. CASE KeepResult(u) BY <1>2, <1>8 DEF KeepResult, ImportPlace
<1>9. CASE installPackage(u) BY <1>2, <1>3, <1>9 DEF installPackage, fileVars, sweepVars, ImportPlace
<1>10. CASE WritePackage(u) BY <1>2, <1>10 DEF WritePackage, sweepVars, ImportPlace, GoOn
<1>11. CASE InsertPackage(u)
  <2>1. import[u].at = "tx" BY <1>11 DEF InsertPackage, GoOn, EndImport
  <2>2. content[u] \in packageFiles BY <1>1, <2>1
  <2> QED BY <1>2, <1>3, <1>11, <2>2 DEF InsertPackage, fileVars, sweepVars, ImportPlace
<1>12. CASE GetProfile(u) BY <1>3, <1>12 DEF GetProfile, fileVars, sweepVars, ImportPlace
<1> QED BY <1>4, <1>5, <1>6, <1>7, <1>8, <1>9, <1>10, <1>11, <1>12

\* Requests: the file of an upload is there when its job is queued, and goes
\* only with an upload that gets no job.
LEMMA ImportsRequest ==
  ASSUME ImportsInv, NEW u \in Uploads,
         \/ (\E x \in Contents : SubmitImport(u, x)) \/ SubmitJob(u) \/ ResumeJob(u) \/ CancelJob(u)
         \/ removeImportFiles(u) \/ sweepFile(u)
  PROVE  ImportsInv'
<1> DEFINE was == import[u]
<1>1. /\ was \in ImportType /\ (was.at = "tx" => content[u] \in packageFiles)
      /\ was.at # "none" => was.status = "running"
      /\ was.at = "save" \/ (was.status \in Started /\ was.validated) => u \in results
  BY DEF ImportsInv, ImportsTyped, PackagesKept, ResultsKept
<1>2. ASSUME NEW x \in Contents, SubmitImport(u, x) PROVE ImportsInv'
  <2>1. import[u] = NoImport /\ submitting[u] = "new"
    BY <1>2 DEF SubmitImport, ImportsInv, UploadsKept
  <2>2. ImportsTyped' BY <1>2 DEF SubmitImport, ImportsInv, ImportsTyped
  <2>3. UploadsKept'
    BY <1>2, <2>1 DEF SubmitImport, ImportsInv, ImportsTyped, UploadsKept
  <2>4. PackagesKept'
    <3>1. \A v \in Uploads : v # u => content'[v] = content[v]
      BY <1>2 DEF SubmitImport, ImportsInv, ImportsTyped
    <3>2. import[u].at # "tx" BY <2>1 DEF NoImport
    <3> QED BY <1>2, <3>1, <3>2 DEF SubmitImport, ImportsInv, PackagesKept
  <2>5. SweepSafe'
    <3>1. /\ submitting'[u] = "written" /\ \A v \in Uploads : v # u => submitting'[v] = submitting[v]
          /\ uploads' = uploads \cup {u} /\ UNCHANGED <<results, sweepVars, import>>
      BY <1>2 DEF SubmitImport, ImportsInv, ImportsTyped
    <3> QED BY <2>1, <3>1 DEF ImportsInv, SweepSafe, sweepVars
  <2>6. ResultsKept' BY <1>2 DEF SubmitImport, ImportsInv, ResultsKept
  <2> QED BY <2>2, <2>3, <2>4, <2>5, <2>6 DEF ImportsInv
<1>3. CASE SubmitJob(u)
  <2> DEFINE same == {v \in OpenImports : content[v] = content[u]}
  <2>1. was = NoImport /\ u \in uploads /\ u \notin due
    BY <1>3 DEF SubmitJob, ImportsInv, UploadsKept, NoImport
  <2>2. \A v \in Uploads : submitting'[v] = IF v = u THEN "done" ELSE submitting[v]
    BY <1>3 DEF SubmitJob, ImportsInv, ImportsTyped
  <2>3. submitting' \in [Uploads -> {"new", "written", "done"}]
    BY <1>3 DEF SubmitJob, ImportsInv, ImportsTyped
  <2>4. UNCHANGED <<content, packageFiles, due, package>> BY <1>3 DEF SubmitJob
  <2>8. /\ submitting[u] = "written" /\ UNCHANGED <<results, oldUploads, oldResults, sweeping, kept>>
        /\ u \notin results /\ u \notin oldUploads /\ u \notin oldResults
    BY <1>3 DEF SubmitJob, sweepVars, ImportsInv, SweepSafe
  <2>9. ASSUME \A v \in Uploads : v # u /\ import'[v].status \in Started => import[v].status \in Started,
               uploads' \subseteq uploads
        PROVE  SweepSafe'
    <3>1. \A v \in Uploads : v \in uploads' => submitting'[v] # "new"
      BY <2>2, <2>9 DEF ImportsInv, SweepSafe
    <3>2. \A v \in Uploads :
            v \in results' \/ v \in oldUploads' \/ v \in oldResults' => submitting'[v] = "done"
      BY <2>2, <2>8 DEF ImportsInv, SweepSafe
    <3>3. sweeping' => \A v \in Uploads :
            import'[v].status \in Started /\ v \notin kept' => v \notin oldUploads' /\ v \notin oldResults'
      BY <2>8, <2>9 DEF ImportsInv, SweepSafe
    <3> QED BY <3>1, <3>2, <3>3 DEF SweepSafe
  <2>5. CASE import' = [import EXCEPT ![u].status = "queued"] /\ UNCHANGED uploads
    <3> DEFINE next == [was EXCEPT !.status = "queued"]
    <3>1. next \in ImportType /\ next.at = was.at /\ next.validated = was.validated
      BY <1>1 DEF ImportType, ImportStatus
    <3>2. import' \in [Uploads -> ImportType] /\ import'[u] = next
          /\ \A v \in Uploads : v # u => import'[v] = import[v]
      BY <2>5, <3>1 DEF ImportsInv, ImportsTyped
    <3> HIDE DEF next
    <3>3. ImportsTyped' BY <2>3, <2>4, <3>2 DEF ImportsInv, ImportsTyped
    <3>4. UploadsKept' BY <2>1, <2>2, <2>4, <2>5, <3>2 DEF ImportsInv, UploadsKept
    <3>5. PackagesKept' BY <1>1, <2>4, <3>1, <3>2 DEF ImportsInv, PackagesKept
    <3>6. SweepSafe' BY <2>5, <2>9, <3>2
    <3>7. ResultsKept'
      <4>1. next.at = "none" /\ next.validated = FALSE BY <2>1, <3>1 DEF NoImport
      <4> QED BY <2>8, <3>2, <4>1 DEF ImportsInv, ResultsKept
    <3> QED BY <3>3, <3>4, <3>5, <3>6, <3>7 DEF ImportsInv
  <2>6. CASE uploads' = uploads \ {u} /\ UNCHANGED import
    <3>1. ImportsTyped' BY <2>3, <2>4, <2>6 DEF ImportsInv, ImportsTyped
    <3>2. UploadsKept' BY <2>1, <2>2, <2>4, <2>6 DEF ImportsInv, UploadsKept, NoImport
    <3>3. PackagesKept' BY <2>4, <2>6 DEF ImportsInv, PackagesKept
    <3>4. SweepSafe' BY <2>6, <2>9
    <3>5. ResultsKept' BY <2>6, <2>8 DEF ImportsInv, ResultsKept
    <3> QED BY <3>1, <3>2, <3>3, <3>4, <3>5 DEF ImportsInv
  <2>7. CASE /\ import' = [v \in Uploads |->
                  IF v \in same /\ import[v].status = "interrupted"
                  THEN [import[v] EXCEPT !.status = "queued"] ELSE import[v]]
             /\ uploads' = uploads \ {u}
    <3>1. \A v \in Uploads :
            /\ import'[v] \in ImportType /\ import'[v].at = import[v].at
            /\ import'[v].validated = import[v].validated
            /\ \/ import'[v] = import[v]
               \/ import[v].status = "interrupted" /\ import'[v].status = "queued"
      <4> SUFFICES ASSUME NEW v \in Uploads
                   PROVE  /\ import'[v] \in ImportType /\ import'[v].at = import[v].at
                          /\ import'[v].validated = import[v].validated
                          /\ \/ import'[v] = import[v]
                             \/ import[v].status = "interrupted" /\ import'[v].status = "queued"
        OBVIOUS
      <4>1. import[v] \in ImportType BY DEF ImportsInv, ImportsTyped
      <4>2. \/ import'[v] = import[v]
            \/ import[v].status = "interrupted" /\ import'[v] = [import[v] EXCEPT !.status = "queued"]
        BY <2>7
      <4> QED BY <4>1, <4>2 DEF ImportType, ImportStatus
    <3>2. import' \in [Uploads -> ImportType] BY <2>7, <3>1
    <3>3. ImportsTyped' BY <2>3, <2>4, <3>2 DEF ImportsInv, ImportsTyped
    <3>4. UploadsKept'
      <4>1. import'[u] = NoImport BY <2>1, <3>1 DEF NoImport
      <4>2. \A v \in Uploads : submitting'[v] \in {"new", "written"} => import'[v] = NoImport
        BY <2>2, <3>1, <4>1 DEF ImportsInv, UploadsKept, NoImport
      <4>3. \A v \in due : import'[v].status \in {"completed", "failed", "canceled"}
        BY <3>1 DEF ImportsInv, UploadsKept
      <4>4. \A v \in Uploads : import'[v].status \in {"queued", "running", "interrupted"} => v \in uploads'
        BY <2>7, <3>1, <4>1 DEF ImportsInv, UploadsKept, NoImport
      <4>5. \A v \in Uploads : submitting'[v] = "written" => v \in uploads'
        BY <2>2, <2>7 DEF ImportsInv, UploadsKept
      <4> QED BY <2>4, <4>2, <4>3, <4>4, <4>5 DEF ImportsInv, UploadsKept
    <3>5. PackagesKept' BY <2>4, <3>1 DEF ImportsInv, PackagesKept
    <3>6. SweepSafe' BY <2>7, <2>9, <3>1 DEF Started
    <3>7. ResultsKept'
      <4>1. \A v \in Uploads : import[v].status = "interrupted" => import[v].at = "none"
        BY DEF ImportsInv, ResultsKept
      <4>2. \A v \in Uploads : import'[v].status \in Started => import[v].status \in Started
        BY <3>1 DEF Started
      <4> QED BY <2>8, <3>1, <4>1, <4>2 DEF ImportsInv, ResultsKept
    <3> QED BY <3>3, <3>4, <3>5, <3>6, <3>7 DEF ImportsInv
  <2> QED BY <1>3, <2>5, <2>6, <2>7 DEF SubmitJob
<1>4. CASE ResumeJob(u)
  <2> DEFINE next == [was EXCEPT !.status = "queued"]
  <2>1. /\ next \in ImportType /\ next.at = was.at /\ next.status = "queued"
        /\ next.validated = was.validated
    BY <1>1 DEF ImportType, ImportStatus
  <2>2. import' = [import EXCEPT ![u] = next] BY <1>4 DEF ResumeJob
  <2>3. was.status = "interrupted" BY <1>4 DEF ResumeJob
  <2> HIDE DEF next
  <2> QED BY <1>1, <1>4, <2>1, <2>2, <2>3, OneImportMoves DEF ResumeJob, fileVars, sweepVars, Started
<1>5. CASE CancelJob(u)
  <2>1. was.status \in Started BY <1>5 DEF CancelJob, OpenImports, Started
  <2>2. CASE was.status = "running"
    <3> DEFINE next == [was EXCEPT !.canceled = TRUE]
    <3>1. /\ next \in ImportType /\ next.at = was.at /\ next.status = "running"
          /\ next.validated = was.validated
      BY <1>1, <2>2 DEF ImportType
    <3>2. import' = [import EXCEPT ![u] = next] BY <1>5, <2>2 DEF CancelJob
    <3> HIDE DEF next
    <3> QED BY <1>1, <1>5, <2>1, <2>2, <3>1, <3>2, OneImportMoves DEF CancelJob, fileVars, sweepVars, Started
  <2>3. CASE was.status # "running"
    <3> DEFINE next == [was EXCEPT !.status = "canceled"]
    <3>1. next \in ImportType /\ next.at = was.at /\ next.status = "canceled"
      BY <1>1 DEF ImportType, ImportStatus
    <3>2. import' = [import EXCEPT ![u] = next] BY <1>5, <2>3 DEF CancelJob
    <3> HIDE DEF next
    <3> QED BY <1>1, <1>5, <2>1, <2>3, <3>1, <3>2, OneImportMoves DEF CancelJob, fileVars, sweepVars, Started, Ended
  <2> QED BY <2>2, <2>3
<1>6. CASE removeImportFiles(u)
  <2>1. u \in due /\ was.status \in Ended BY <1>6 DEF removeImportFiles, ImportsInv, UploadsKept, Ended
  <2>2. submitting[u] \notin {"new", "written"}
    BY <2>1 DEF ImportsInv, UploadsKept, NoImport, Ended
  <2>3. UploadsKept' BY <1>6, <2>1, <2>2 DEF removeImportFiles, ImportsInv, UploadsKept, Ended
  <2>4. ImportsTyped' /\ PackagesKept'
    BY <1>6 DEF removeImportFiles, ImportsInv, ImportsTyped, PackagesKept
  <2>5. SweepSafe' BY <1>6 DEF removeImportFiles, sweepVars, ImportsInv, SweepSafe
  <2>6. ResultsKept'
    <3>1. was.status \notin Started /\ was.at = "none" BY <1>1, <2>1 DEF Started, Ended
    <3> QED BY <1>6, <3>1 DEF removeImportFiles, ImportsInv, ResultsKept
  <2> QED BY <2>3, <2>4, <2>5, <2>6 DEF ImportsInv
<1>7. CASE sweepFile(u)
  <2>1. /\ sweeping /\ u \notin kept /\ (u \in oldUploads \/ u \in oldResults)
        /\ uploads' \subseteq uploads /\ uploads \subseteq uploads' \cup {u}
        /\ results' \subseteq results /\ results \subseteq results' \cup {u}
        /\ UNCHANGED <<submitting, content, packageFiles, sweepVars, import, due, package>>
    BY <1>7 DEF sweepFile
  <2>2. submitting[u] = "done" /\ was.status \notin Started
    BY <2>1 DEF ImportsInv, SweepSafe
  <2>3. was.at = "none" BY <1>1, <2>2 DEF Started
  <2>4. ImportsTyped' /\ PackagesKept' BY <2>1 DEF ImportsInv, ImportsTyped, PackagesKept
  <2>5. UploadsKept' BY <2>1, <2>2 DEF ImportsInv, UploadsKept, Started
  <2>6. SweepSafe' BY <2>1 DEF sweepVars, ImportsInv, SweepSafe
  <2>7. ResultsKept' BY <2>1, <2>2, <2>3 DEF ImportsInv, ResultsKept
  <2> QED BY <2>4, <2>5, <2>6, <2>7 DEF ImportsInv
<1> QED BY <1>2, <1>3, <1>4, <1>5, <1>6, <1>7

\* The sweep begins with all the jobs that can run listed, and a submission
\* under way has no old file; it ends with nothing left to remove.
LEMMA ImportsSweep ==
  ASSUME ImportsInv, sweepJobFiles \/ sweepEnd PROVE ImportsInv'
<1>1. UNCHANGED <<submitting, content, uploads, results, packageFiles, import, due, package>>
  BY DEF sweepJobFiles, sweepEnd
<1>2. ImportsTyped' /\ UploadsKept' /\ PackagesKept' /\ ResultsKept'
  BY <1>1 DEF ImportsInv, ImportsTyped, UploadsKept, PackagesKept, ResultsKept
<1>3. SweepSafe'
  <2>1. CASE sweepEnd BY <1>1, <2>1 DEF sweepEnd, SweepOver, ImportsInv, SweepSafe
  <2>2. CASE sweepJobFiles
    <3>1. \A v \in Uploads : import'[v].status \in Started => v \in kept'
      BY <1>1, <2>2 DEF sweepJobFiles, ActiveImports, OpenImports, Started
    <3>2. \A v \in Uploads : v \in oldUploads' \/ v \in oldResults' => submitting'[v] = "done"
      BY <1>1, <2>2 DEF sweepJobFiles, ImportsInv, ImportsTyped, SweepSafe
    <3> QED BY <1>1, <3>1, <3>2 DEF ImportsInv, SweepSafe
  <2> QED BY <2>1, <2>2
<1> QED BY <1>2, <1>3 DEF ImportsInv

\* A restart interrupts the running jobs, which keep their files.
LEMMA ImportsRestart ==
  ASSUME ImportsInv, RestartImports PROVE ImportsInv'
<1>0. /\ import' = [u \in Uploads |->
              IF import[u].status = "running"
              THEN [import[u] EXCEPT !.status = "interrupted", !.at = "none", !.canceled = FALSE]
              ELSE import[u]]
      /\ submitting' = [u \in Uploads |-> IF submitting[u] = "written" THEN "done" ELSE submitting[u]]
  BY Zenon DEF RestartImports
<1>1. \A u \in Uploads :
        /\ import'[u] \in ImportType /\ import'[u].validated = import[u].validated
        /\ \/ import'[u] = import[u]
           \/ import[u].status = "running" /\ import'[u].status = "interrupted" /\ import'[u].at = "none"
  <2> SUFFICES ASSUME NEW u \in Uploads
               PROVE  /\ import'[u] \in ImportType /\ import'[u].validated = import[u].validated
                      /\ \/ import'[u] = import[u]
                         \/ /\ import[u].status = "running" /\ import'[u].status = "interrupted"
                            /\ import'[u].at = "none"
    OBVIOUS
  <2>1. import[u] \in ImportType BY DEF ImportsInv, ImportsTyped
  <2>2. \/ import'[u] = import[u]
        \/ /\ import[u].status = "running"
           /\ import'[u] = [import[u] EXCEPT !.status = "interrupted", !.at = "none", !.canceled = FALSE]
    BY <1>0
  <2> QED BY <2>1, <2>2 DEF ImportType, ImportStatus, ImportPlace
<1>2. import' \in [Uploads -> ImportType] BY <1>0, <1>1
<1>3. /\ submitting' \in [Uploads -> {"new", "written", "done"}]
      /\ \A u \in Uploads : submitting'[u] \in {"new", "written"} => submitting[u] = "new" /\ submitting'[u] = "new"
  BY <1>0 DEF ImportsInv, ImportsTyped
<1>4. UNCHANGED <<content, uploads, results, packageFiles, package>> /\ due' = {} /\ SweepOver
  BY Zenon DEF RestartImports, SweepOver
<1>5. ImportsTyped' BY <1>2, <1>3, <1>4 DEF ImportsInv, ImportsTyped
<1>6. UploadsKept'
  BY <1>1, <1>3, <1>4 DEF ImportsInv, UploadsKept, NoImport
<1>7. PackagesKept' BY <1>1, <1>4 DEF ImportsInv, PackagesKept
<1>8. SweepSafe'
  <2>1. \A u \in Uploads : submitting[u] = "done" => submitting'[u] = "done"
    BY <1>0 DEF ImportsInv, ImportsTyped
  <2> QED BY <1>3, <1>4, <2>1 DEF ImportsInv, SweepSafe, SweepOver
<1>9. ResultsKept' BY <1>1, <1>4 DEF ImportsInv, ResultsKept, Started
<1> QED BY <1>5, <1>6, <1>7, <1>8, <1>9 DEF ImportsInv

\* SubmitImport, removeImportFiles, sweepJobFiles and installPackage: an
\* import that can still run or be resumed has its upload and the validation
\* its checkpoint promises, and an installed package has its file, wherever
\* the node stopped and however old the list of the sweep is.
THEOREM ImportFilesKeptAlways == ImportsSpec => []ImportFilesKept
<1>1. ImportsInit => ImportsInv
  <2> SUFFICES ASSUME ImportsInit PROVE ImportsInv OBVIOUS
  <2>1. NoImport \in ImportType BY DEF NoImport, ImportType, ImportStatus, ImportPlace
  <2>2. ImportsTyped BY <2>1 DEF ImportsInit, ImportsTyped
  <2>3. UploadsKept BY DEF ImportsInit, UploadsKept, NoImport
  <2>4. PackagesKept BY DEF ImportsInit, PackagesKept, NoImport
  <2>5. SweepSafe BY DEF ImportsInit, SweepSafe
  <2>6. ResultsKept BY DEF ImportsInit, ResultsKept, NoImport, Started
  <2> QED BY <2>2, <2>3, <2>4, <2>5, <2>6 DEF ImportsInv
<1>2. ImportsInv /\ [ImportsNext]_importVars => ImportsInv'
  <2> SUFFICES ASSUME ImportsInv, [ImportsNext]_importVars PROVE ImportsInv' OBVIOUS
  <2>1. CASE UNCHANGED importVars
    BY <2>1 DEF importVars, fileVars, sweepVars, ImportsInv, ImportsTyped, UploadsKept, PackagesKept,
                SweepSafe, ResultsKept
  <2> QED BY <2>1, ImportsRequest, ImportsJob, ImportsSweep, ImportsRestart DEF ImportsNext
<1>3. ImportsInv => ImportFilesKept
  BY DEF ImportsInv, UploadsKept, PackagesKept, ResultsKept, ImportFilesKept, OpenImports, Started
<1> QED BY <1>1, <1>2, <1>3, PTL DEF ImportsSpec
-----------------------------------------------------------------------------
(* LiveUpdates *)

\* A connection is a record with the fields of Closed.
ConnShape ==
  /\ conn = [c \in Clients |-> conn[c]]
  /\ \A c \in Clients : DOMAIN conn[c] = {"at", "cred", "sub", "left", "send", "gone"}

LiveInv == ConnShape /\ RevokedIsCut

\* What is pushed leaves a connection where it was, and gone closed.
LEMMA PushKeeps ==
  ASSUME NEW k, DOMAIN k = {"at", "cred", "sub", "left", "send", "gone"}, NEW ms
  PROVE  LET p == pushAll(k, ms) IN
         DOMAIN p = DOMAIN k /\ p.at = k.at /\ p.cred = k.cred /\ (k.gone => p.gone)
BY DEF pushAll

\* If every connection keeps its place, its credential and a closed gone, or
\* is not open, or is opened with a valid credential, the invariant holds.
LEMMA ConnectionsKept ==
  ASSUME LiveInv, conn' = [c \in Clients |-> conn'[c]],
         valid \cup revoking \subseteq valid' \cup revoking',
         \A c \in Clients :
           /\ DOMAIN conn'[c] = DOMAIN Closed
           /\ \/ /\ conn'[c].at = conn[c].at /\ conn'[c].cred = conn[c].cred
                 /\ conn[c].gone => conn'[c].gone
              \/ conn'[c].at # "open"
              \/ conn'[c].at = "open" /\ conn'[c].cred \in valid
  PROVE  LiveInv'
<1>1. ConnShape' BY DEF ConnShape, Closed
<1>2. RevokedIsCut' BY DEF LiveInv, RevokedIsCut
<1> QED BY <1>1, <1>2 DEF LiveInv

\* The same for a step of one connection.
LEMMA OneConnection ==
  ASSUME LiveInv, NEW c \in Clients, NEW k, conn' = [conn EXCEPT ![c] = k],
         DOMAIN k = DOMAIN Closed, UNCHANGED credVars,
         \/ k.at = conn[c].at /\ k.cred = conn[c].cred /\ (conn[c].gone => k.gone)
         \/ k.at # "open"
         \/ k.at = "open" /\ k.cred \in valid
  PROVE  LiveInv'
<1>1. conn'[c] = k /\ \A d \in Clients : d # c => conn'[d] = conn[d]
  BY DEF LiveInv, ConnShape
<1>2. conn' = [d \in Clients |-> conn'[d]] BY DEF LiveInv, ConnShape
<1>3. \A d \in Clients : DOMAIN conn[d] = DOMAIN Closed BY DEF LiveInv, ConnShape, Closed
<1> QED BY <1>1, <1>2, <1>3, ConnectionsKept DEF credVars

\* handleRevokeToken, handleLogout and serveWS: once a revocation returned,
\* no connection that was opened with the credential goes on, however its
\* request and the revocation interleaved.
THEOREM RevokedIsCutAlways == LiveSpec => []RevokedIsCut
<1>1. LiveInit => LiveInv
  BY DEF LiveInit, LiveInv, ConnShape, RevokedIsCut, Closed
<1>2. LiveInv /\ [LiveNext]_liveVars => LiveInv'
  <2> SUFFICES ASSUME LiveInv, [LiveNext]_liveVars PROVE LiveInv' OBVIOUS
  <2>0. /\ conn = [c \in Clients |-> conn[c]]
        /\ \A c \in Clients : DOMAIN conn[c] = {"at", "cred", "sub", "left", "send", "gone"}
        /\ DOMAIN Closed = {"at", "cred", "sub", "left", "send", "gone"}
    BY DEF LiveInv, ConnShape, Closed
  <2>1. CASE Publish
    <3>1. \A c \in Clients : \E m : conn'[c] = push(conn[c], m) \/ conn'[c] = conn[c]
      BY <2>1 DEF Publish
    <3>2. \A c \in Clients : /\ DOMAIN conn'[c] = DOMAIN Closed
                             /\ conn'[c].at = conn[c].at /\ conn'[c].cred = conn[c].cred
                             /\ conn[c].gone => conn'[c].gone
      <4> SUFFICES ASSUME NEW c \in Clients
                   PROVE  /\ DOMAIN conn'[c] = DOMAIN Closed
                          /\ conn'[c].at = conn[c].at /\ conn'[c].cred = conn[c].cred
                          /\ conn[c].gone => conn'[c].gone
        OBVIOUS
      <4>1. CASE conn'[c] = conn[c] BY <2>0, <4>1
      <4>2. ASSUME NEW m, conn'[c] = pushAll(conn[c], <<m>>)
            PROVE  /\ DOMAIN conn'[c] = DOMAIN Closed
                   /\ conn'[c].at = conn[c].at /\ conn'[c].cred = conn[c].cred
                   /\ conn[c].gone => conn'[c].gone
        BY <2>0, <4>2, PushKeeps
      <4> QED BY <3>1, <4>1, <4>2 DEF push
    <3>3. conn' = [c \in Clients |-> conn'[c]] BY <2>1 DEF Publish
    <3> QED BY <2>1, <3>2, <3>3, ConnectionsKept DEF Publish, credVars
  <2>2. CASE Forget BY <2>2 DEF Forget, connVars, credVars, LiveInv, ConnShape, RevokedIsCut
  <2>3. CASE Restart
    <3>1. \A c \in Clients : conn'[c] = Closed BY <2>3 DEF Restart
    <3>2. conn' = [c \in Clients |-> conn'[c]] BY <2>3 DEF Restart
    <3> QED BY <2>0, <3>1, <3>2 DEF LiveInv, ConnShape, RevokedIsCut, Closed
  <2>4. CASE handleRevokeToken
    BY <2>4 DEF handleRevokeToken, connVars, LiveInv, ConnShape, RevokedIsCut
  <2>5. CASE disconnect
    <3>1. PICK k \in revoking :
            /\ revoking' = revoking \ {k}
            /\ conn' = [c \in Clients |-> IF conn[c].at \in {"added", "open"} /\ conn[c].cred = k
                                          THEN [conn[c] EXCEPT !.gone = TRUE] ELSE conn[c]]
      BY <2>5 DEF disconnect
    <3>2. \A c \in Clients :
            /\ DOMAIN conn'[c] = DOMAIN conn[c]
            /\ conn'[c].at = conn[c].at /\ conn'[c].cred = conn[c].cred
            /\ conn[c].gone => conn'[c].gone
            /\ conn[c].at = "open" /\ conn[c].cred = k => conn'[c].gone
      BY <2>0, <3>1
    <3>3. conn' = [c \in Clients |-> conn'[c]] BY <3>1
    <3>4. RevokedIsCut' BY <2>5, <3>1, <3>2 DEF disconnect, LiveInv, RevokedIsCut
    <3> QED BY <2>0, <3>2, <3>3, <3>4 DEF LiveInv, ConnShape
  <2>6. ASSUME NEW c \in Clients,
               ServerStep(c) \/ authenticate(c) \/ subscribe(c) \/ unsubscribe(c)
               \/ close(c) \/ handle(c) \/ load(c)
        PROVE  LiveInv'
    <3> DEFINE k == conn[c]
    <3>1. CASE hubAdd(c)
      <4> DEFINE next == [k EXCEPT !.at = "added"]
      <4>1. conn' = [conn EXCEPT ![c] = next] BY <3>1 DEF hubAdd
      <4>2. DOMAIN next = DOMAIN Closed /\ next.at # "open" BY <2>0
      <4> HIDE DEF next
      <4> QED BY <3>1, <4>1, <4>2, OneConnection DEF hubAdd
    <3>2. CASE stillValid(c)
      <4> DEFINE next == IF k.cred \in valid THEN [k EXCEPT !.at = "open"] ELSE Closed
      <4>1. conn' = [conn EXCEPT ![c] = next] BY <3>2 DEF stillValid
      <4>2. /\ DOMAIN next = DOMAIN Closed
            /\ next.at # "open" \/ (next.at = "open" /\ next.cred \in valid)
        BY <2>0 DEF Closed
      <4> HIDE DEF next
      <4> QED BY <3>2, <4>1, <4>2, OneConnection DEF stillValid
    <3>3. CASE close(c) \/ ping(c)
      <4>1. conn' = [conn EXCEPT ![c] = Closed] /\ UNCHANGED credVars BY <3>3 DEF close, ping
      <4>2. Closed.at # "open" BY DEF Closed
      <4> QED BY <4>1, <4>2, OneConnection
    <3>4. CASE authenticate(c)
      <4>1. PICK x \in valid :
              conn' = [conn EXCEPT ![c] = [Closed EXCEPT !.at = "authenticated", !.cred = x]]
        BY <3>4, Zenon DEF authenticate
      <4> DEFINE next == [Closed EXCEPT !.at = "authenticated", !.cred = x]
      <4>2. DOMAIN next = DOMAIN Closed /\ next.at # "open" BY DEF Closed
      <4> HIDE DEF next
      <4> QED BY <3>4, <4>1, <4>2, OneConnection DEF authenticate, next
    <3>5. CASE subscribe(c)
      <4> DEFINE sub == [k EXCEPT !.sub = TRUE]
      <4>1. PICK ms : conn' = [conn EXCEPT ![c] = pushAll(sub, ms)] BY <3>5 DEF subscribe
      <4>2. DOMAIN sub = DOMAIN Closed /\ sub.at = k.at /\ sub.cred = k.cred /\ sub.gone = k.gone
        BY <2>0
      <4> HIDE DEF sub
      <4>3. LET p == pushAll(sub, ms) IN
            /\ DOMAIN p = DOMAIN Closed
            /\ p.at = k.at /\ p.cred = k.cred /\ (k.gone => p.gone)
        BY <2>0, <4>2, PushKeeps
      <4> QED BY <3>5, <4>1, <4>3, OneConnection DEF subscribe
    <3>6. CASE unsubscribe(c)
      <4> DEFINE next == [k EXCEPT !.sub = FALSE, !.left = TRUE]
      <4>1. conn' = [conn EXCEPT ![c] = next] BY <3>6 DEF unsubscribe
      <4>2. DOMAIN next = DOMAIN Closed /\ next.at = k.at /\ next.cred = k.cred /\ next.gone = k.gone
        BY <2>0
      <4> HIDE DEF next
      <4> QED BY <3>6, <4>1, <4>2, OneConnection DEF unsubscribe
    <3>7. CASE handle(c)
      <4> DEFINE next == [k EXCEPT !.send = Tail(k.send)]
      <4>1. conn' = [conn EXCEPT ![c] = next] BY <3>7 DEF handle
      <4>2. DOMAIN next = DOMAIN Closed /\ next.at = k.at /\ next.cred = k.cred /\ next.gone = k.gone
        BY <2>0
      <4> HIDE DEF next
      <4>3. UNCHANGED credVars BY <3>7 DEF handle
      <4> QED BY <4>1, <4>2, <4>3, OneConnection
    <3>8. CASE load(c) BY <3>8 DEF load, connVars, credVars, LiveInv, ConnShape, RevokedIsCut
    <3> QED BY <2>6, <3>1, <3>2, <3>3, <3>4, <3>5, <3>6, <3>7, <3>8 DEF ServerStep
  <2>7. CASE UNCHANGED liveVars
    BY <2>7 DEF liveVars, connVars, credVars, LiveInv, ConnShape, RevokedIsCut
  <2> QED BY <2>1, <2>2, <2>3, <2>4, <2>5, <2>6, <2>7 DEF LiveNext
<1> QED BY <1>1, <1>2, PTL DEF LiveSpec, LiveInv

-----------------------------------------------------------------------------
(* LiveUpdates: nothing is missed *)

Messages == [type : {"data", "subscribed", "resync"}, seq : Nat, n : Nat]

\* The buffer holds the last publications, numbered without a gap up to seq.
HubInv ==
  /\ seq \in Nat /\ published \in Nat /\ seq <= published
  /\ buf \in Seq(Messages)
  /\ Len(buf) = IF seq < BufferSize THEN seq ELSE BufferSize
  /\ \A i \in 1 .. Len(buf) : /\ buf[i].type = "data"
                             /\ buf[i].seq = seq - Len(buf) + i
                             /\ buf[i].n = published - Len(buf) + i

\* Messages are in the order of the topic: a publication follows what is
\* before it without a gap, and is the one of its number.
Ordered(q, s, o) ==
  /\ \A i \in 1 .. Len(q) : /\ q[i].seq <= s
                            /\ q[i].type = "data" => q[i].n = q[i].seq + o /\ q[i].seq >= 1
  /\ \A i \in 1 .. Len(q) - 1 : q[i + 1].type = "data" => q[i + 1].seq = q[i].seq + 1

QueueTyped(k) ==
  /\ k.send \in Seq(Messages) /\ k.sub \in BOOLEAN /\ k.gone \in BOOLEAN
  /\ (k.at # "open" \/ (~k.sub /\ ~k.left)) => k.send = << >>
  /\ k.sub => k.at = "open"

\* The queue of a subscribed connection ends with the latest message.
InOrder(k, s, pub) ==
  /\ Ordered(k.send, s, pub - s)
  /\ k.sub /\ ~k.gone /\ k.send # << >> => k.send[Len(k.send)].seq = s

\* What comes before a message: all of it was learnt by other means when the
\* message makes the browser fetch nothing.
Before(m) == IF m.type = "data" THEN m.seq - 1 ELSE m.seq
Relies(m, l) == m.type = "data" \/ (m.type = "subscribed" /\ l = Unknown)

\* All that comes from f on before the first message queued is in h.
HasBefore(q, f, l, o, h) ==
  q # << >> /\ Relies(q[1], l) => f + 1 .. Before(q[1]) + o \subseteq h

\* A browser that joined at f and whose sequence is this one has all up to
\* the seq it remembers, and all up to the message that comes next.
Follows(k, l, h, f, s, pub) ==
  /\ l # Unknown => l <= s /\ f + 1 .. l + (pub - s) \subseteq h
  /\ HasBefore(k.send, f, l, pub - s, h)
  /\ k.sub /\ ~k.gone /\ k.send = << >> => f + 1 .. pub \subseteq h

ViewsTyped ==
  /\ last = [c \in Clients |-> last[c]] /\ have = [c \in Clients |-> have[c]]
  /\ joined = [c \in Clients |-> joined[c]] /\ crossed = [c \in Clients |-> crossed[c]]

Served(k, l, h, f, x, s, pub, o) ==
  /\ QueueTyped(k) /\ l \in Nat \cup {Unknown} /\ f \in 0 .. pub
  /\ ~o => InOrder(k, s, pub) /\ (~x => Follows(k, l, h, f, s, pub))

ClientInv(c) == Served(conn[c], last[c], have[c], joined[c], crossed[c], seq, published, over)

MissedInv == ConnShape /\ ViewsTyped /\ HubInv /\ \A c \in Clients : ClientInv(c)

\* What is pushed comes behind what is queued, all of it unless the queue is
\* full, which closes gone.
LEMMA PushQueues ==
  ASSUME NEW k, DOMAIN k = {"at", "cred", "sub", "left", "send", "gone"},
         k.send \in Seq(Messages), k.gone \in BOOLEAN, NEW ms \in Seq(Messages),
         NEW p, p = pushAll(k, ms)
  PROVE  /\ DOMAIN p = DOMAIN k /\ p.at = k.at /\ p.sub = k.sub /\ p.left = k.left
         /\ p.gone \in BOOLEAN /\ (k.gone => p.gone)
         /\ p.send \in Seq(Messages) /\ Len(p.send) <= Len(k.send) + Len(ms)
         /\ \A i \in 1 .. Len(p.send) :
              p.send[i] = IF i <= Len(k.send) THEN k.send[i] ELSE ms[i - Len(k.send)]
         /\ ~p.gone => Len(p.send) = Len(k.send) + Len(ms)
         /\ ms # << >> /\ k.send = << >> /\ ~k.gone => p.send # << >>
         /\ k.gone => p.send = k.send
         /\ k.send # << >> => p.send # << >>
<1>1. PICK all : all = k.send \o ms OBVIOUS
<1>2. /\ all \in Seq(Messages) /\ Len(all) = Len(k.send) + Len(ms)
      /\ \A i \in 1 .. Len(all) : all[i] = IF i <= Len(k.send) THEN k.send[i] ELSE ms[i - Len(k.send)]
  BY <1>1, ConcatProperties
<1>3. WsQueue \in Nat \ {0} BY HubAssumption DEF HubAssumption
<1>4. /\ DOMAIN p = DOMAIN k /\ p.at = k.at /\ p.sub = k.sub /\ p.left = k.left
      /\ p.gone \in BOOLEAN /\ (k.gone => p.gone)
      /\ \/ k.gone /\ p.send = k.send
         \/ ~k.gone /\ Len(all) <= WsQueue /\ p.send = all
         \/ ~k.gone /\ ~(Len(all) <= WsQueue) /\ p.gone /\ p.send = SubSeq(all, 1, WsQueue)
  <2>1. CASE k.gone BY <2>1 DEF pushAll
  <2>2. CASE ~k.gone /\ Len(all) <= WsQueue
    <3>1. p = [k EXCEPT !.send = all] BY <1>1, <2>2 DEF pushAll
    <3> QED BY <2>2, <3>1
  <2>3. CASE ~k.gone /\ ~(Len(all) <= WsQueue)
    <3>1. p = [k EXCEPT !.send = SubSeq(all, 1, WsQueue), !.gone = TRUE] BY <1>1, <2>3 DEF pushAll
    <3> QED BY <2>3, <3>1
  <2> QED BY <2>1, <2>2, <2>3
<1>5. /\ p.send \in Seq(Messages) /\ Len(p.send) <= Len(all) /\ (~p.gone => Len(p.send) = Len(all))
      /\ \A i \in 1 .. Len(p.send) : p.send[i] = all[i]
  <2>1. CASE k.gone /\ p.send = k.send BY <1>2, <1>4, <2>1
  <2>2. CASE p.send = all BY <1>2, <2>2
  <2>3. CASE ~(Len(all) <= WsQueue) /\ p.gone /\ p.send = SubSeq(all, 1, WsQueue)
    <3>1. /\ SubSeq(all, 1, WsQueue) \in Seq(Messages) /\ Len(SubSeq(all, 1, WsQueue)) = WsQueue
          /\ \A i \in 1 .. WsQueue : SubSeq(all, 1, WsQueue)[i] = all[i]
      BY <1>2, <1>3, <2>3
    <3> QED BY <1>2, <1>3, <2>3, <3>1
  <2> QED BY <1>4, <2>1, <2>2, <2>3
<1>6. ms # << >> \/ k.send # << >> => Len(all) # 0 BY <1>2
<1>7. (ms # << >> /\ ~k.gone) \/ k.send # << >> => p.send # << >> BY <1>2, <1>3, <1>4, <1>5, <1>6
<1> QED BY <1>1, <1>2, <1>4, <1>5, <1>7

\* A part of an ordered queue from its first message, and one followed by
\* the messages that come next, are ordered.
LEMMA QueuedInOrder ==
  ASSUME NEW q \in Seq(Messages), NEW ms \in Seq(Messages), NEW s \in Nat, NEW o \in Int,
         Ordered(q, s, o), Ordered(ms, s, o),
         q # << >> /\ ms # << >> => (ms[1].type = "data" => ms[1].seq = q[Len(q)].seq + 1),
         NEW p \in Seq(Messages), Len(p) <= Len(q) + Len(ms),
         \A i \in 1 .. Len(p) : p[i] = IF i <= Len(q) THEN q[i] ELSE ms[i - Len(q)]
  PROVE  Ordered(p, s, o)
<1>0. Len(q) \in Nat /\ Len(ms) \in Nat /\ Len(p) \in Nat OBVIOUS
<1>1. \A i \in 1 .. Len(p) : /\ i <= Len(q) => i \in 1 .. Len(q) /\ p[i] = q[i]
                             /\ i > Len(q) => i - Len(q) \in 1 .. Len(ms) /\ p[i] = ms[i - Len(q)]
  BY <1>0
<1>2. \A i \in 1 .. Len(p) : p[i].seq <= s /\ (p[i].type = "data" => p[i].n = p[i].seq + o /\ p[i].seq >= 1)
  <2> SUFFICES ASSUME NEW i \in 1 .. Len(p)
               PROVE  p[i].seq <= s /\ (p[i].type = "data" => p[i].n = p[i].seq + o /\ p[i].seq >= 1)
    OBVIOUS
  <2>1. CASE i <= Len(q) BY <1>1, <2>1 DEF Ordered
  <2>2. CASE i > Len(q) BY <1>1, <2>2 DEF Ordered
  <2> QED BY <1>0, <2>1, <2>2
<1>3. ASSUME NEW i \in 1 .. Len(p) - 1, p[i + 1].type = "data" PROVE p[i + 1].seq = p[i].seq + 1
  <2>0. i \in 1 .. Len(p) /\ i + 1 \in 1 .. Len(p) BY <1>0
  <2>1. CASE i + 1 <= Len(q)
    <3>1. p[i] = q[i] /\ p[i + 1] = q[i + 1] /\ i \in 1 .. Len(q) - 1 BY <1>0, <1>1, <2>0, <2>1
    <3> QED BY <1>3, <3>1 DEF Ordered
  <2>2. CASE i = Len(q)
    <3>1. p[i] = q[i] BY <1>1, <2>0, <2>2
    <3>2. i + 1 > Len(q) /\ i + 1 - Len(q) = 1 BY <1>0, <2>2
    <3>3. p[i + 1] = ms[1] /\ 1 \in 1 .. Len(ms) BY <1>1, <2>0, <3>2
    <3>4. q # << >> /\ ms # << >> BY <2>0, <2>2, <3>3
    <3> QED BY <1>3, <2>2, <3>1, <3>3, <3>4
  <2>3. CASE i > Len(q)
    <3>1. PICK j \in Int : j = i - Len(q) BY <1>0
    <3>2. i + 1 > Len(q) /\ i + 1 - Len(q) = j + 1 BY <1>0, <2>3, <3>1
    <3>3. p[i] = ms[j] /\ j \in 1 .. Len(ms) BY <1>1, <2>0, <2>3, <3>1
    <3>4. p[i + 1] = ms[j + 1] /\ j + 1 \in 1 .. Len(ms) BY <1>1, <2>0, <3>2
    <3>5. j \in 1 .. Len(ms) - 1 BY <1>0, <3>3, <3>4
    <3> QED BY <1>3, <3>3, <3>4, <3>5 DEF Ordered
  <2> QED BY <1>0, <2>0, <2>1, <2>2, <2>3
<1> QED BY <1>2, <1>3 DEF Ordered

\* Publish and Forget keep the buffer to the last publications.
LEMMA HubSteps == ASSUME HubInv, Publish \/ Forget \/ Restart PROVE HubInv'
<1>0. BufferSize \in Nat \ {0} /\ Unknown \notin Nat BY HubAssumption DEF HubAssumption
<1> USE <1>0
<1>h. /\ seq \in Nat /\ published \in Nat /\ seq <= published /\ buf \in Seq(Messages)
      /\ Len(buf) = IF seq < BufferSize THEN seq ELSE BufferSize
  BY DEF HubInv
<1>1. CASE Forget \/ Restart
  <2>1. seq' = 0 /\ buf' = << >> /\ published' = published BY <1>1 DEF Forget, Restart
  <2>2. buf' \in Seq(Messages) /\ Len(buf') = 0 BY <2>1
  <2> QED BY <1>h, <2>1, <2>2 DEF HubInv
<1>2. CASE Publish
  <2>1. PICK m : m = [type |-> "data", seq |-> seq + 1, n |-> published + 1] OBVIOUS
  <2>2. /\ seq' = seq + 1 /\ published' = published + 1 /\ buf' = KeepLast(Append(buf, m))
    BY <1>2, <2>1 DEF Publish
  <2>3. m \in Messages BY <1>h, <2>1 DEF Messages
  <2>4. PICK all : all = Append(buf, m) OBVIOUS
  <2>5. /\ all \in Seq(Messages) /\ Len(all) = Len(buf) + 1 /\ all[Len(buf) + 1] = m
        /\ \A i \in 1 .. Len(buf) : all[i] = buf[i]
    BY <1>h, <2>3, <2>4
  <2>6. \A i \in 1 .. Len(all) : /\ all[i].type = "data" /\ all[i].seq = seq - Len(buf) + i
                               /\ all[i].n = published - Len(buf) + i
    <3>1. ASSUME NEW i \in 1 .. Len(buf)
          PROVE  /\ all[i].type = "data" /\ all[i].seq = seq - Len(buf) + i
                 /\ all[i].n = published - Len(buf) + i
      BY <2>5 DEF HubInv
    <3>2. /\ m.type = "data" /\ m.seq = seq - Len(buf) + (Len(buf) + 1)
          /\ m.n = published - Len(buf) + (Len(buf) + 1)
      BY <1>h, <2>1
    <3>3. \A i \in 1 .. Len(all) : i \in 1 .. Len(buf) \/ i = Len(buf) + 1 BY <1>h, <2>5
    <3> QED BY <2>5, <3>1, <3>2, <3>3
  <2>7. CASE Len(all) <= BufferSize
    <3>1. Len(all) - Len(all) + 1 = 1 BY <2>5
    <3>2. buf' = SubSeq(all, 1, Len(all)) BY <2>2, <2>4, <2>5, <2>7, <3>1 DEF KeepLast
    <3>3. buf' = all BY <2>5, <3>2, SubSeqFull
    <3>4. Len(buf) = seq BY <1>h, <2>5, <2>7
    <3>5. buf' \in Seq(Messages) /\ Len(buf') = seq' /\ seq' <= BufferSize
      BY <1>h, <2>2, <2>5, <2>7, <3>3, <3>4
    <3>6. \A i \in 1 .. Len(buf') : /\ buf'[i].type = "data" /\ buf'[i].seq = seq' - Len(buf') + i
                                    /\ buf'[i].n = published' - Len(buf') + i
      <4> SUFFICES ASSUME NEW i \in 1 .. Len(buf')
                   PROVE  /\ buf'[i].type = "data" /\ buf'[i].seq = seq' - Len(buf') + i
                          /\ buf'[i].n = published' - Len(buf') + i
        OBVIOUS
      <4>1. /\ buf'[i].type = "data" /\ buf'[i].seq = seq - Len(buf) + i /\ buf'[i].n = published - Len(buf) + i
        BY <2>6, <3>3
      <4>2. seq' - Len(buf') = seq - Len(buf) /\ published' - Len(buf') = published - Len(buf)
        <5>1. Len(buf') = seq + 1 /\ seq \in Nat /\ published \in Nat BY <1>h, <2>5, <3>3, <3>4
        <5> QED BY <2>2, <3>4, <5>1
      <4> QED BY <4>1, <4>2
    <3>7. seq' \in Nat /\ published' \in Nat /\ seq' <= published' BY <1>h, <2>2
    <3>8. Len(buf') = IF seq' < BufferSize THEN seq' ELSE BufferSize BY <3>5, <3>7
    <3> QED BY <3>5, <3>6, <3>7, <3>8 DEF HubInv
  <2>8. CASE Len(all) > BufferSize
    <3>1. Len(buf) = BufferSize /\ Len(all) = BufferSize + 1 BY <1>h, <2>5, <2>8
    <3>2. Len(all) - BufferSize + 1 = 2 BY <3>1
    <3>3. buf' = SubSeq(all, 2, Len(all)) BY <2>2, <2>4, <2>8, <3>2 DEF KeepLast
    <3>4. buf' \in Seq(Messages) /\ Len(buf') = BufferSize /\ \A i \in 1 .. BufferSize : buf'[i] = all[i + 1]
      <4>1. \A i \in 2 .. Len(all) : all[i] \in Messages BY <2>5
      <4> QED BY <2>5, <3>1, <3>3, <4>1, SubSeqProperties
    <3>5. \A i \in 1 .. BufferSize : i + 1 \in 1 .. Len(all) BY <3>1
    <3>6. seq >= BufferSize BY <1>h, <3>1
    <3>7. \A i \in 1 .. BufferSize : /\ buf'[i].type = "data" /\ buf'[i].seq = seq' - Len(buf') + i
                                     /\ buf'[i].n = published' - Len(buf') + i
      <4> SUFFICES ASSUME NEW i \in 1 .. BufferSize
                   PROVE  /\ buf'[i].type = "data" /\ buf'[i].seq = seq' - Len(buf') + i
                          /\ buf'[i].n = published' - Len(buf') + i
        OBVIOUS
      <4>1. buf'[i] = all[i + 1] /\ i + 1 \in 1 .. Len(all) BY <3>4, <3>5
      <4>2. /\ all[i + 1].type = "data" /\ all[i + 1].seq = seq - Len(buf) + (i + 1)
            /\ all[i + 1].n = published - Len(buf) + (i + 1)
        BY <2>6, <4>1
      <4> QED BY <1>h, <2>2, <3>1, <3>4, <4>1, <4>2
    <3> QED BY <1>h, <2>2, <3>4, <3>6, <3>7 DEF HubInv
  <2> QED BY <1>h, <2>5, <2>7, <2>8
<1> QED BY <1>1, <1>2

\* What a client receives first is in order and ends with the latest; when it
\* begins with a publication, that is the one after the seq it remembers.
LEMMA FirstInOrder ==
  ASSUME HubInv, NEW since \in Nat \cup {Unknown}, NEW ms, ms = FirstMessages(since)
  PROVE  /\ ms \in Seq(Messages) /\ ms # << >>
         /\ Ordered(ms, seq, published - seq)
         /\ ms[Len(ms)].seq = seq
         /\ ms[1].type = "data" => since \in Nat /\ ms[1].seq = since + 1
<1>0. BufferSize \in Nat \ {0} /\ Unknown \notin Nat BY HubAssumption DEF HubAssumption
<1> USE <1>0
<1>1. ASSUME NEW t \in {"subscribed", "resync"}, ms = << Status(t) >>
      PROVE  /\ ms \in Seq(Messages) /\ ms # << >>
             /\ Ordered(ms, seq, published - seq)
             /\ ms[Len(ms)].seq = seq /\ ms[1].type # "data"
  <2>1. PICK m : m = Status(t) OBVIOUS
  <2>2. m \in Messages /\ m.type = t /\ m.seq = seq BY <2>1 DEF Status, Messages, HubInv
  <2>3. ms = << m >> BY <1>1, <2>1
  <2>4. ms \in Seq(Messages) /\ Len(ms) = 1 /\ ms[1] = m BY <2>2, <2>3
  <2>5. seq <= seq BY DEF HubInv
  <2>6. Ordered(ms, seq, published - seq) BY <1>1, <2>2, <2>4, <2>5 DEF Ordered
  <2> QED BY <1>1, <2>2, <2>4, <2>6
<1>2. CASE since = Unknown \/ (since # Unknown /\ since >= seq)
  <2>1. ms = << Status("subscribed") >> BY <1>2 DEF FirstMessages
  <2> QED BY <1>1, <2>1
<1>3. CASE since \in Nat /\ since < seq /\ buf # << >> /\ buf[1].seq <= since + 1
  <2>1. ms = Newer(since) BY <1>3 DEF FirstMessages, HubInv
  <2>2. /\ Len(buf) \in Nat \ {0} /\ buf[1].seq = seq - Len(buf) + 1
    <3>1. buf \in Seq(Messages) /\ buf # << >> BY <1>3 DEF HubInv
    <3>2. Len(buf) \in Nat \ {0} BY <3>1
    <3>3. 1 \in 1 .. Len(buf) BY <3>2
    <3> QED BY <3>2, <3>3 DEF HubInv
  <2>3. PICK f : f = since + 2 - buf[1].seq OBVIOUS
  <2>4. f \in 1 .. Len(buf) /\ seq - Len(buf) + f = since + 1 BY <1>3, <2>2, <2>3 DEF HubInv
  <2>5. ms = SubSeq(buf, f, Len(buf)) BY <2>1, <2>3 DEF Newer
  <2>6. /\ ms \in Seq(Messages) /\ Len(ms) = Len(buf) - f + 1
        /\ \A i \in 1 .. Len(ms) : ms[i] = buf[f + i - 1]
    <3>0. buf \in Seq(Messages) BY DEF HubInv
    <3>1. \A i \in f .. Len(buf) : buf[i] \in Messages BY <2>2, <2>4, <3>0
    <3> QED BY <2>2, <2>4, <2>5, <3>1, SubSeqProperties
  <2>7. ASSUME NEW i \in 1 .. Len(ms)
        PROVE ms[i].type = "data" /\ ms[i].seq = since + i /\ ms[i].n = since + i + (published - seq)
    <3>1. f + i - 1 \in 1 .. Len(buf) BY <2>4, <2>6
    <3>2. ms[i].type = "data" /\ ms[i].seq = seq - Len(buf) + (f + i - 1) /\ ms[i].n = published - Len(buf) + (f + i - 1)
      BY <2>6, <3>1 DEF HubInv
    <3> QED BY <2>2, <2>4, <3>1, <3>2 DEF HubInv
  <2>8. Len(ms) \in Nat \ {0} /\ since + Len(ms) = seq BY <2>2, <2>4, <2>6 DEF HubInv
  <2>9. Ordered(ms, seq, published - seq)
    <3>1. \A i \in 1 .. Len(ms) - 1 : i \in 1 .. Len(ms) /\ i + 1 \in 1 .. Len(ms) BY <2>8
    <3>2. \A i \in 1 .. Len(ms) - 1 : ms[i + 1].seq = ms[i].seq + 1 BY <2>7, <2>8, <3>1, <1>3
    <3>3. \A i \in 1 .. Len(ms) : ms[i].seq <= seq
      <4>1. \A i \in 1 .. Len(ms) : since + i <= since + Len(ms) BY <1>3, <2>8
      <4> QED BY <2>7, <2>8, <4>1
    <3>4. \A i \in 1 .. Len(ms) : ms[i].seq >= 1 BY <1>3, <2>7, <2>8
    <3>5. \A i \in 1 .. Len(ms) : ms[i].n = ms[i].seq + (published - seq) BY <2>7
    <3> QED BY <3>2, <3>3, <3>4, <3>5 DEF Ordered
  <2> QED BY <1>3, <2>6, <2>7, <2>8, <2>9
<1>4. CASE since \in Nat /\ since < seq /\ ~(buf # << >> /\ buf[1].seq <= since + 1)
  <2>1. ms = << Status("resync") >> BY <1>4 DEF FirstMessages, HubInv
  <2> QED BY <1>1, <2>1
<1> QED BY <1>2, <1>3, <1>4 DEF HubInv

\* Later numbers of the topic leave what was in order in order.
LEMMA OrderedLater ==
  ASSUME NEW q \in Seq(Messages), NEW s \in Nat, NEW o \in Int, Ordered(q, s, o)
  PROVE  Ordered(q, s + 1, o)
<1>1. \A i \in 1 .. Len(q) : q[i].seq \in Nat
  <2>1. \A m \in Messages : m.seq \in Nat BY DEF Messages
  <2> QED BY <2>1
<1>2. \A i \in 1 .. Len(q) : q[i].seq <= s + 1 BY <1>1 DEF Ordered
<1> QED BY <1>2 DEF Ordered

\* What is pushed to a subscribed client comes next: h has all before it.
ComesNext(k, ms, s, f, l, o, h) ==
  /\ DOMAIN k = {"at", "cred", "sub", "left", "send", "gone"} /\ QueueTyped(k) /\ k.sub
  /\ s \in Nat /\ o \in Nat /\ Ordered(k.send, s, o)
  /\ ms \in Seq(Messages) /\ ms # << >> /\ Ordered(ms, s, o) /\ ms[Len(ms)].seq = s
  /\ k.send # << >> /\ ~k.gone /\ ms[1].type = "data" => ms[1].seq = k.send[Len(k.send)].seq + 1
  /\ HasBefore(k.send, f, l, o, h) /\ (k.send = << >> /\ ~k.gone => HasBefore(ms, f, l, o, h))

\* It leaves the queue in order and the browser with all that comes before
\* the first one queued.
LEMMA PushServed ==
  ASSUME NEW k, NEW ms, NEW s, NEW f, NEW l, NEW o, NEW h, ComesNext(k, ms, s, f, l, o, h),
         NEW p, p = pushAll(k, ms)
  PROVE  /\ QueueTyped(p) /\ Ordered(p.send, s, o)
         /\ ~p.gone => p.send # << >> /\ p.send[Len(p.send)].seq = s
         /\ HasBefore(p.send, f, l, o, h)
<1>0. /\ DOMAIN k = {"at", "cred", "sub", "left", "send", "gone"} /\ QueueTyped(k) /\ k.sub
      /\ s \in Nat /\ o \in Nat /\ Ordered(k.send, s, o)
      /\ ms \in Seq(Messages) /\ ms # << >> /\ Ordered(ms, s, o) /\ ms[Len(ms)].seq = s
      /\ k.send # << >> /\ ~k.gone /\ ms[1].type = "data" => ms[1].seq = k.send[Len(k.send)].seq + 1
      /\ HasBefore(k.send, f, l, o, h) /\ (k.send = << >> /\ ~k.gone => HasBefore(ms, f, l, o, h))
  BY DEF ComesNext
<1>1. k.send \in Seq(Messages) /\ k.gone \in BOOLEAN /\ k.at = "open" BY <1>0 DEF QueueTyped
<1>2. /\ p.at = k.at /\ p.sub = k.sub /\ p.gone \in BOOLEAN
      /\ p.send \in Seq(Messages) /\ Len(p.send) <= Len(k.send) + Len(ms)
      /\ \A i \in 1 .. Len(p.send) :
           p.send[i] = IF i <= Len(k.send) THEN k.send[i] ELSE ms[i - Len(k.send)]
      /\ ~p.gone => Len(p.send) = Len(k.send) + Len(ms)
      /\ k.gone => p.send = k.send
  <2>1. k.send \in Seq(Messages) /\ k.gone \in BOOLEAN BY <1>1
  <2>2. DOMAIN k = {"at", "cred", "sub", "left", "send", "gone"} BY <1>0
  <2>3. ms \in Seq(Messages) /\ p = pushAll(k, ms) BY <1>0
  <2> QED BY ONLY <2>1, <2>2, <2>3, PushQueues
<1>3. Len(k.send) \in Nat /\ Len(ms) \in Nat \ {0} BY <1>0, <1>1
<1>4. QueueTyped(p) BY <1>0, <1>1, <1>2 DEF QueueTyped
<1>5. Ordered(p.send, s, o)
  <2>1. CASE k.gone BY <1>0, <1>2, <2>1
  <2>2. CASE ~k.gone
    <3>1. k.send # << >> => (ms[1].type = "data" => ms[1].seq = k.send[Len(k.send)].seq + 1) BY <1>0, <2>2
    <3>2. PICK q : q = k.send OBVIOUS
    <3>3. PICK r : r = p.send OBVIOUS
    <3>4. o \in Int BY <1>0
    <3>5. q # << >> /\ ms # << >> => (ms[1].type = "data" => ms[1].seq = q[Len(q)].seq + 1)
      BY <1>0, <3>1, <3>2
    <3>6. /\ r \in Seq(Messages) /\ q \in Seq(Messages) /\ Ordered(q, s, o)
          /\ Len(r) <= Len(q) + Len(ms)
          /\ \A i \in 1 .. Len(r) : r[i] = IF i <= Len(q) THEN q[i] ELSE ms[i - Len(q)]
      BY <1>0, <1>1, <1>2, <3>2, <3>3
    <3>7. Ordered(r, s, o) BY ONLY <1>0, <3>4, <3>5, <3>6, QueuedInOrder
    <3> QED BY <3>3, <3>7
  <2> QED BY <1>1, <2>1, <2>2
<1>6. ~p.gone => p.send # << >> /\ p.send[Len(p.send)].seq = s
  <2> SUFFICES ASSUME ~p.gone PROVE p.send # << >> /\ p.send[Len(p.send)].seq = s OBVIOUS
  <2>1. Len(p.send) = Len(k.send) + Len(ms) BY <1>2
  <2>2. Len(p.send) \in 1 .. Len(p.send) /\ ~(Len(p.send) <= Len(k.send)) BY <1>3, <2>1
  <2>3. p.send[Len(p.send)] = ms[Len(p.send) - Len(k.send)] BY <1>2, <2>2
  <2>4. Len(p.send) - Len(k.send) = Len(ms) BY <1>3, <2>1
  <2>5. p.send # << >> BY <1>3, <2>1
  <2> QED BY <1>0, <2>3, <2>4, <2>5
<1>7. ASSUME p.send # << >> PROVE HasBefore(p.send, f, l, o, h)
  <2>1. 1 \in 1 .. Len(p.send) BY <1>2, <1>7
  <2>2. CASE k.send # << >>
    <3>1. 1 <= Len(k.send) BY <1>1, <2>2
    <3>2. p.send[1] = k.send[1] BY <1>2, <2>1, <3>1
    <3> QED BY <1>0, <2>2, <3>2 DEF HasBefore
  <2>3. CASE k.send = << >>
    <3>1. ~k.gone /\ Len(k.send) = 0 BY <1>2, <1>7, <2>3
    <3>2. ~(1 <= Len(k.send)) /\ 1 - Len(k.send) = 1 BY <3>1
    <3>3. p.send[1] = ms[1] BY <1>2, <2>1, <3>2
    <3> QED BY <1>0, <2>3, <3>1, <3>3 DEF HasBefore
  <2> QED BY <2>2, <2>3
<1>8. HasBefore(p.send, f, l, o, h) BY <1>7 DEF HasBefore
<1> QED BY <1>4, <1>5, <1>6, <1>8

\* Publish, for a subscribed client: the publication follows what is queued.
LEMMA PublishedServed ==
  ASSUME NEW k, DOMAIN k = {"at", "cred", "sub", "left", "send", "gone"},
         NEW l, NEW h, NEW f, NEW x, NEW s \in Nat, NEW pub \in Nat, s <= pub,
         Served(k, l, h, f, x, s, pub, FALSE),
         NEW m, m = [type |-> "data", seq |-> s + 1, n |-> pub + 1],
         NEW p, \/ ~k.sub /\ p = k
                \/ k.sub /\ p = push(k, m)
  PROVE  Served(p, l, h, f, x, s + 1, pub + 1, FALSE)
<1>0. Unknown \notin Nat BY HubAssumption DEF HubAssumption
<1>1. PICK o : o = pub - s OBVIOUS
<1>2. o \in Nat /\ (pub + 1) - (s + 1) = o BY <1>1
<1>3. /\ QueueTyped(k) /\ l \in Nat \cup {Unknown} /\ InOrder(k, s, pub) /\ f \in 0 .. pub
      /\ k.send \in Seq(Messages) /\ Ordered(k.send, s, o) /\ k.sub \in BOOLEAN
  BY <1>1 DEF Served, QueueTyped, InOrder
<1>4. f \in 0 .. pub + 1 BY <1>3
<1>5. Ordered(k.send, s + 1, o) BY <1>2, <1>3, OrderedLater
<1>6. ~x => /\ l # Unknown => l <= s + 1 /\ f + 1 .. l + o \subseteq h
            /\ HasBefore(k.send, f, l, o, h)
            /\ k.sub /\ ~k.gone /\ k.send = << >> => f + 1 .. pub \subseteq h
  <2> SUFFICES ASSUME ~x
               PROVE  /\ l # Unknown => l <= s + 1 /\ f + 1 .. l + o \subseteq h
                      /\ HasBefore(k.send, f, l, o, h)
                      /\ k.sub /\ ~k.gone /\ k.send = << >> => f + 1 .. pub \subseteq h
    OBVIOUS
  <2>1. Follows(k, l, h, f, s, pub) BY DEF Served
  <2> QED BY <1>0, <1>1, <1>3, <2>1 DEF Follows
<1>7. CASE ~k.sub
  <2>1. p = k BY <1>7
  <2>2. InOrder(p, s + 1, pub + 1) BY <1>2, <1>5, <1>7, <2>1 DEF InOrder
  <2>3. ~x => Follows(p, l, h, f, s + 1, pub + 1) BY <1>2, <1>6, <1>7, <2>1 DEF Follows
  <2> QED BY <1>3, <1>4, <2>1, <2>2, <2>3 DEF Served
<1>8. CASE k.sub
  <2>1. PICK ms : ms = << m >> OBVIOUS
  <2>2. m \in Messages /\ m.type = "data" /\ m.seq = s + 1 /\ m.n = pub + 1 BY DEF Messages
  <2>3. ms \in Seq(Messages) /\ Len(ms) = 1 /\ ms[1] = m /\ ms # << >> BY <2>1, <2>2
  <2>4. p = pushAll(k, ms) BY <1>8, <2>1 DEF push
  <2>5. ms[Len(ms)].seq = s + 1 BY <2>2, <2>3
  <2>6. Ordered(ms, s + 1, o) BY <1>1, <1>2, <2>2, <2>3 DEF Ordered
  <2>7. k.send # << >> /\ ~k.gone => ms[1].seq = k.send[Len(k.send)].seq + 1
    BY <1>3, <1>8, <2>2, <2>3 DEF InOrder
  <2>8. Before(ms[1]) + o = pub BY <1>1, <2>2, <2>3 DEF Before
  <2>9. /\ QueueTyped(p) /\ Ordered(p.send, s + 1, o)
        /\ ~p.gone => p.send # << >> /\ p.send[Len(p.send)].seq = s + 1
    <3>1. HasBefore(k.send, f, l, o, Int) /\ HasBefore(ms, f, l, o, Int) BY DEF HasBefore
    <3>2. s + 1 \in Nat OBVIOUS
    <3>3. ComesNext(k, ms, s + 1, f, l, o, Int)
      BY <1>2, <1>3, <1>5, <1>8, <2>3, <2>5, <2>6, <2>7, <3>1, <3>2 DEF ComesNext
    <3> QED BY ONLY <2>4, <3>3, PushServed
  <2>10. InOrder(p, s + 1, pub + 1) BY <1>2, <2>9 DEF InOrder
  <2>11. ~x => Follows(p, l, h, f, s + 1, pub + 1)
    <3> SUFFICES ASSUME ~x PROVE Follows(p, l, h, f, s + 1, pub + 1) OBVIOUS
    <3>1. HasBefore(k.send, f, l, o, h)
      BY <1>6
    <3>2. k.send = << >> /\ ~k.gone => HasBefore(ms, f, l, o, h) BY <1>6, <1>8, <2>8 DEF HasBefore
    <3>3. s + 1 \in Nat OBVIOUS
    <3>4. ComesNext(k, ms, s + 1, f, l, o, h)
      BY <1>2, <1>3, <1>5, <1>8, <2>3, <2>5, <2>6, <2>7, <3>1, <3>2, <3>3 DEF ComesNext
    <3>5. HasBefore(p.send, f, l, o, h) BY ONLY <2>4, <3>4, PushServed
    <3> QED BY <1>2, <1>6, <2>9, <3>5 DEF Follows
  <2> QED BY <1>3, <1>4, <2>9, <2>10, <2>11 DEF Served
<1> QED BY <1>3, <1>7, <1>8

\* Subscribe: what the client receives first comes behind what is queued.
LEMMA SubscribedServed ==
  ASSUME HubInv, NEW k, DOMAIN k = {"at", "cred", "sub", "left", "send", "gone"},
         k.at = "open", ~k.sub,
         NEW l, NEW h, NEW j, NEW x, NEW o, Served(k, l, h, j, x, seq, published, o),
         NEW t, t = [k EXCEPT !.sub = TRUE],
         NEW since, since = IF k.left THEN Unknown ELSE l,
         NEW p, p = pushAll(t, FirstMessages(since)),
         NEW f, f = IF since = Unknown THEN published ELSE j
  PROVE  Served(p, l, h, f, x, seq, published, o)
<1>0. Unknown \notin Nat BY HubAssumption DEF HubAssumption
<1>1. PICK d : d = published - seq OBVIOUS
<1>2. seq \in Nat /\ published \in Nat /\ d \in Nat /\ seq + d = published BY <1>1 DEF HubInv
<1>3. /\ QueueTyped(k) /\ l \in Nat \cup {Unknown} /\ j \in 0 .. published
      /\ f \in 0 .. published /\ j <= f
  BY <1>2 DEF Served
<1>4. /\ DOMAIN t = {"at", "cred", "sub", "left", "send", "gone"} /\ t.at = "open" /\ t.sub
      /\ t.send = k.send /\ t.gone = k.gone /\ t.left = k.left /\ t.sub \in BOOLEAN
  OBVIOUS
<1>5. QueueTyped(t) BY <1>3, <1>4 DEF QueueTyped
<1>6. ~k.left => k.send = << >> BY <1>3 DEF QueueTyped
<1>7. since \in Nat \cup {Unknown} BY <1>3
<1>8. PICK ms : ms = FirstMessages(since) OBVIOUS
<1>9. /\ ms \in Seq(Messages) /\ ms # << >> /\ Ordered(ms, seq, d) /\ ms[Len(ms)].seq = seq
      /\ ms[1].type = "data" => since \in Nat /\ ms[1].seq = since + 1
  BY <1>1, <1>7, <1>8, FirstInOrder
<1>10. p = pushAll(t, ms) BY <1>8
<1>11. ms[1].type = "data" => ~k.left /\ k.send = << >> /\ l \in Nat /\ ms[1].seq = l + 1
  BY <1>0, <1>6, <1>9
<1>12. t.send # << >> /\ ~t.gone /\ ms[1].type = "data" => ms[1].seq = t.send[Len(t.send)].seq + 1
  BY <1>4, <1>11
<1>13. CASE o
  <2>1. t.send \in Seq(Messages) /\ t.gone \in BOOLEAN BY <1>5 DEF QueueTyped
  <2>2. p.at = t.at /\ p.sub = t.sub /\ p.gone \in BOOLEAN /\ p.send \in Seq(Messages)
    BY ONLY <1>4, <1>9, <1>10, <2>1, PushQueues
  <2>3. QueueTyped(p) BY <1>4, <2>2 DEF QueueTyped
  <2> QED BY <1>3, <1>13, <2>3 DEF Served
<1>14. CASE ~o
  <2>1. InOrder(k, seq, published) BY <1>14 DEF Served
  <2>2. Ordered(t.send, seq, d) BY <1>1, <1>4, <2>1 DEF InOrder
  <2>3. ASSUME NEW g,
               HasBefore(t.send, f, l, d, g),
               t.send = << >> /\ ~t.gone => HasBefore(ms, f, l, d, g)
        PROVE  /\ QueueTyped(p) /\ Ordered(p.send, seq, d)
               /\ ~p.gone => p.send # << >> /\ p.send[Len(p.send)].seq = seq
               /\ HasBefore(p.send, f, l, d, g)
    <3>1. ComesNext(t, ms, seq, f, l, d, g) BY <1>2, <1>4, <1>5, <1>9, <1>12, <2>2, <2>3 DEF ComesNext
    <3> QED BY ONLY <1>10, <3>1, PushServed
  <2>4. HasBefore(t.send, f, l, d, Int) /\ HasBefore(ms, f, l, d, Int) BY DEF HasBefore
  <2>5. /\ QueueTyped(p) /\ Ordered(p.send, seq, d)
        /\ ~p.gone => p.send # << >> /\ p.send[Len(p.send)].seq = seq
    BY <2>3, <2>4
  <2>6. InOrder(p, seq, published) BY <1>1, <2>5 DEF InOrder
  <2>7. ASSUME ~x PROVE Follows(p, l, h, f, seq, published)
    <3>1. Follows(k, l, h, j, seq, published) BY <1>14, <2>7 DEF Served
    <3>2. \A i : f + 1 .. i \subseteq j + 1 .. i BY <1>2, <1>3
    <3>3. /\ l # Unknown => l <= seq /\ f + 1 .. l + d \subseteq h
          /\ HasBefore(t.send, f, l, d, h)
      <4>1. /\ l # Unknown => l <= seq /\ j + 1 .. l + d \subseteq h
            /\ HasBefore(t.send, j, l, d, h)
        BY <1>1, <1>4, <3>1 DEF Follows
      <4>2. f + 1 .. l + d \subseteq j + 1 .. l + d BY <3>2
      <4>3. f + 1 .. Before(t.send[1]) + d \subseteq j + 1 .. Before(t.send[1]) + d BY <3>2
      <4> QED BY <4>1, <4>2, <4>3 DEF HasBefore
    <3>4. HasBefore(ms, f, l, d, h)
      <4> SUFFICES ASSUME Relies(ms[1], l) PROVE f + 1 .. Before(ms[1]) + d \subseteq h
        BY DEF HasBefore
      <4>1. CASE ms[1].type = "data"
        <5>1. l \in Nat /\ ms[1].seq = l + 1 BY <1>11, <4>1
        <5>2. Before(ms[1]) + d = l + d BY <1>2, <4>1, <5>1 DEF Before
        <5> QED BY <1>0, <3>3, <5>1, <5>2
      <4>2. CASE ms[1].type # "data"
        <5>1. l = Unknown /\ f = published BY <4>2 DEF Relies
        <5>2. 1 \in 1 .. Len(ms) /\ ms[1] \in Messages BY <1>9
        <5>3. ms[1].seq <= seq /\ ms[1].seq \in Nat BY <1>9, <5>2 DEF Ordered, Messages
        <5>4. Before(ms[1]) + d <= published BY <1>2, <4>2, <5>3 DEF Before
        <5> QED BY <1>2, <4>2, <5>1, <5>3, <5>4 DEF Before
      <4> QED BY <4>1, <4>2
    <3>5. HasBefore(p.send, f, l, d, h) BY <2>3, <3>3, <3>4
    <3> QED BY <1>1, <2>5, <3>3, <3>5 DEF Follows
  <2> QED BY <1>3, <2>5, <2>6, <2>7 DEF Served
<1> QED BY <1>13, <1>14

\* The message makes the browser fetch the data again.
Reloads(m, l) == m.type = "resync" \/ (m.type = "subscribed" /\ l # Unknown /\ l # m.seq)

Learnt(m, l, h, pub) ==
  IF Reloads(m, l) THEN 0 .. pub ELSE IF m.type = "data" THEN h \cup {m.n} ELSE h

\* A browser takes message m from connection k, which leaves it p, and has g.
Handles(k, m, p, l, h, g, x, y, pub) ==
  /\ k.at = "open" /\ k.send # << >> /\ m = Head(k.send)
  /\ g = Learnt(m, l, h, pub) /\ (~y => ~x \/ Reloads(m, l))
  /\ p.at = k.at /\ p.sub = k.sub /\ p.gone = k.gone /\ p.left = k.left /\ p.send = Tail(k.send)

\* LiveClient.handle: the browser takes the first message of its queue.
LEMMA HandledServed ==
  ASSUME NEW k, NEW l, NEW h, NEW f, NEW x, NEW s, NEW pub, NEW o, Served(k, l, h, f, x, s, pub, o),
         s \in Nat, pub \in Nat, s <= pub,
         NEW m, NEW p, NEW g, NEW y, Handles(k, m, p, l, h, g, x, y, pub)
  PROVE  Served(p, m.seq, g, f, y, s, pub, o)
<1>0. Unknown \notin Nat BY HubAssumption DEF HubAssumption
<1>h. /\ k.at = "open" /\ k.send # << >> /\ m = Head(k.send)
      /\ g = Learnt(m, l, h, pub) /\ (~y => ~x \/ Reloads(m, l))
      /\ p.at = k.at /\ p.sub = k.sub /\ p.gone = k.gone /\ p.left = k.left /\ p.send = Tail(k.send)
  BY DEF Handles
<1> USE <1>h
<1>1. PICK d : d = pub - s OBVIOUS
<1>2. d \in Nat /\ s + d = pub BY <1>1
<1>3. k.send \in Seq(Messages) /\ QueueTyped(k) /\ f \in 0 .. pub BY DEF Served, QueueTyped
<1>4. PICK q : q = k.send OBVIOUS
<1>5. q \in Seq(Messages) /\ Len(q) \in Nat \ {0} /\ m = q[1] /\ 1 \in 1 .. Len(q) BY <1>3, <1>4
<1>6. m \in Messages BY <1>5
<1>7. m.seq \in Nat /\ m.n \in Nat /\ m.type \in {"data", "subscribed", "resync"} BY <1>6 DEF Messages
<1>8. PICK e : e = Tail(q) OBVIOUS
<1>9. e \in Seq(Messages) /\ Len(e) = Len(q) - 1 /\ \A i \in 1 .. Len(e) : e[i] = q[i + 1]
  BY <1>5, <1>8
<1>10. p.at = "open" /\ p.sub = k.sub /\ p.gone = k.gone /\ p.left = k.left /\ p.send = e
  BY <1>4, <1>8
<1>11. QueueTyped(p)
  <2>1. k.sub \in BOOLEAN /\ k.gone \in BOOLEAN /\ (~k.sub /\ ~k.left => k.send = << >>)
    BY <1>3 DEF QueueTyped
  <2> QED BY <1>9, <1>10, <2>1 DEF QueueTyped
<1>12. CASE o BY <1>3, <1>7, <1>11, <1>12 DEF Served
<1>13. CASE ~o
  <2>1. InOrder(k, s, pub) BY <1>13 DEF Served
  <2>2. /\ Ordered(q, s, d)
        /\ k.sub /\ ~k.gone => q[Len(q)].seq = s
    BY <1>1, <1>4, <2>1 DEF InOrder
  <2>3. m.seq <= s /\ (m.type = "data" => m.n = m.seq + d /\ m.seq >= 1) BY <1>5, <2>2 DEF Ordered
  <2>4. \A i \in 1 .. Len(e) : i + 1 \in 1 .. Len(q) BY <1>5, <1>9
  <2>5. Ordered(e, s, d)
    <3>1. \A i \in 1 .. Len(e) : /\ e[i].seq <= s
                                 /\ e[i].type = "data" => e[i].n = e[i].seq + d /\ e[i].seq >= 1
      BY <1>9, <2>2, <2>4 DEF Ordered
    <3>2. ASSUME NEW i \in 1 .. Len(e) - 1, e[i + 1].type = "data" PROVE e[i + 1].seq = e[i].seq + 1
      <4>1. i \in 1 .. Len(e) /\ i + 1 \in 1 .. Len(e) /\ i + 1 \in 1 .. Len(q) - 1 BY <1>5, <1>9
      <4>2. e[i] = q[i + 1] /\ e[i + 1] = q[(i + 1) + 1] BY <1>9, <4>1
      <4> QED BY <2>2, <3>2, <4>1, <4>2 DEF Ordered
    <3> QED BY <3>1, <3>2 DEF Ordered
  <2>6. k.sub /\ ~k.gone /\ e # << >> => e[Len(e)].seq = s
    <3> SUFFICES ASSUME k.sub, ~k.gone, e # << >> PROVE e[Len(e)].seq = s OBVIOUS
    <3>1. Len(e) \in 1 .. Len(e) /\ Len(e) + 1 = Len(q) BY <1>5, <1>9
    <3>2. e[Len(e)] = q[Len(q)] BY <1>9, <3>1
    <3> QED BY <2>2, <3>2
  <2>7. InOrder(p, s, pub) BY <1>1, <1>10, <2>5, <2>6 DEF InOrder
  <2>8. ASSUME ~y PROVE Follows(p, m.seq, g, f, s, pub)
    <3>1. f + 1 .. m.seq + d \subseteq g
      <4>1. CASE Reloads(m, l)
        <5>1. PICK a \in Nat : a = m.seq BY <1>7
        <5>2. a <= s BY <2>3, <5>1
        <5>3. f + 1 .. a + d \subseteq 0 .. pub
          BY ONLY <1>2, <1>3, <5>2, a \in Nat, s \in Nat, pub \in Nat
        <5> QED BY <4>1, <5>1, <5>3 DEF Learnt
      <4>2. CASE ~Reloads(m, l)
        <5>1. Follows(k, l, h, f, s, pub) BY <1>13, <2>8, <4>2 DEF Served
        <5>2. CASE m.type = "data"
          <6>1. f + 1 .. m.seq - 1 + d \subseteq h
            BY <1>1, <1>4, <1>5, <5>1, <5>2 DEF Follows, HasBefore, Relies, Before
          <6>2. g = h \cup {m.seq + d} BY <2>3, <4>2, <5>2 DEF Learnt
          <6>3. PICK a \in Nat : a = m.seq BY <1>7
          <6>4. \A i \in f + 1 .. a + d : i \in f + 1 .. a - 1 + d \/ i = a + d
            BY ONLY <1>2, <1>3, a \in Nat, s \in Nat
          <6> QED BY <6>1, <6>2, <6>3, <6>4
        <5>3. CASE m.type = "subscribed" /\ l = Unknown
          <6>1. f + 1 .. m.seq + d \subseteq h
            BY <1>1, <1>4, <1>5, <5>1, <5>3 DEF Follows, HasBefore, Relies, Before
          <6>2. g = h BY <4>2, <5>3 DEF Learnt
          <6> QED BY <6>1, <6>2
        <5>4. CASE m.type # "data" /\ ~(m.type = "subscribed" /\ l = Unknown)
          <6>1. l = m.seq /\ g = h BY <1>7, <4>2, <5>4 DEF Reloads, Learnt
          <6> QED BY <1>0, <1>1, <1>7, <5>1, <6>1 DEF Follows
        <5> QED BY <5>2, <5>3, <5>4
      <4> QED BY <4>1, <4>2
    <3>2. HasBefore(e, f, m.seq, d, g)
      <4> SUFFICES ASSUME e # << >>, Relies(e[1], m.seq)
                   PROVE  f + 1 .. Before(e[1]) + d \subseteq g
        BY DEF HasBefore
      <4>1. 1 \in 1 .. Len(e) /\ 1 \in 1 .. Len(q) - 1 BY <1>5, <1>9
      <4>2. e[1] = q[1 + 1] BY <1>9, <4>1
      <4>3. e[1].type = "data" BY <1>0, <1>7 DEF Relies
      <4>4. e[1].seq = m.seq + 1 BY <1>5, <2>2, <4>1, <4>2, <4>3 DEF Ordered
      <4>5. Before(e[1]) + d = m.seq + d BY <1>2, <1>7, <4>3, <4>4 DEF Before
      <4> QED BY <3>1, <4>5
    <3>3. k.sub /\ ~k.gone /\ e = << >> => f + 1 .. pub \subseteq g
      <4> SUFFICES ASSUME k.sub, ~k.gone, e = << >> PROVE f + 1 .. pub \subseteq g OBVIOUS
      <4>1. Len(q) = 1 BY <1>5, <1>9
      <4>2. m.seq = s BY <1>5, <2>2, <4>1
      <4> QED BY <1>2, <3>1, <4>2
    <3> QED BY <1>1, <1>10, <2>3, <3>1, <3>2, <3>3 DEF Follows
  <2> QED BY <1>3, <1>7, <1>11, <2>7, <2>8 DEF Served
<1> QED BY <1>12, <1>13

\* All that is queued was published: it comes no later than what is out.
LEMMA QueuedIsOut ==
  ASSUME NEW k, QueueTyped(k), NEW s \in Nat, NEW pub \in Nat, s <= pub, InOrder(k, s, pub),
         k.send # << >>
  PROVE  Before(k.send[1]) \in Int /\ Before(k.send[1]) + (pub - s) <= pub
<1>1. PICK m : m = k.send[1] OBVIOUS
<1>2. k.send \in Seq(Messages) /\ 1 \in 1 .. Len(k.send) BY DEF QueueTyped
<1>3. m \in Messages BY <1>1, <1>2
<1>4. m.seq \in Nat BY <1>3 DEF Messages
<1>5. m.seq <= s BY <1>1, <1>2 DEF InOrder, Ordered
<1>6. Before(m) \in Int /\ Before(m) <= s BY <1>4, <1>5 DEF Before
<1> QED BY <1>1, <1>6

\* A page that fetches its data has all that is out.
LEMMA LoadedServed ==
  ASSUME NEW k, NEW l, NEW h, NEW f, NEW x, NEW s \in Nat, NEW pub \in Nat, s <= pub, NEW o,
         Served(k, l, h, f, x, s, pub, o)
  PROVE  Served(k, l, 0 .. pub, f, x, s, pub, o)
<1>0. Unknown \notin Nat BY HubAssumption DEF HubAssumption
<1>1. QueueTyped(k) /\ l \in Nat \cup {Unknown} /\ f \in 0 .. pub BY DEF Served
<1>2. ASSUME ~o, ~x PROVE Follows(k, l, 0 .. pub, f, s, pub)
  <2>1. InOrder(k, s, pub) /\ Follows(k, l, h, f, s, pub) BY <1>2 DEF Served
  <2>2. \A i \in Int : i <= pub => f + 1 .. i \subseteq 0 .. pub BY <1>1
  <2>3. l # Unknown => l <= s /\ l + (pub - s) \in Int /\ l + (pub - s) <= pub
    BY <1>1, <2>1 DEF Follows
  <2>4. HasBefore(k.send, f, l, pub - s, 0 .. pub)
    <3> SUFFICES ASSUME k.send # << >> PROVE f + 1 .. Before(k.send[1]) + (pub - s) \subseteq 0 .. pub
      BY DEF HasBefore
    <3>1. Before(k.send[1]) \in Int /\ Before(k.send[1]) + (pub - s) <= pub
      BY <1>1, <2>1, QueuedIsOut
    <3>2. Before(k.send[1]) + (pub - s) \in Int BY <3>1
    <3> QED BY <2>2, <3>1, <3>2
  <2> QED BY <2>2, <2>3, <2>4 DEF Follows
<1> QED BY <1>1, <1>2 DEF Served

\* A page that leaves the topic relies on nothing published before.
LEMMA LeftServed ==
  ASSUME NEW k, NEW l, NEW h, NEW f, NEW x, NEW s \in Nat, NEW pub \in Nat, s <= pub, NEW o,
         Served(k, l, h, f, x, s, pub, o), k.at = "open",
         NEW p, p.at = k.at, p.send = k.send, p.gone = k.gone, p.sub = FALSE, p.left = TRUE
  PROVE  Served(p, Unknown, h, pub, FALSE, s, pub, o)
<1>1. p.at = k.at /\ p.send = k.send /\ p.gone = k.gone /\ p.sub = FALSE /\ p.left = TRUE OBVIOUS
<1>2. QueueTyped(k) BY DEF Served
<1>3. QueueTyped(p) BY <1>1, <1>2 DEF QueueTyped
<1>4. ASSUME ~o PROVE InOrder(p, s, pub) /\ Follows(p, Unknown, h, pub, s, pub)
  <2>1. InOrder(k, s, pub) BY <1>4 DEF Served
  <2>2. InOrder(p, s, pub) BY <1>1, <2>1 DEF InOrder
  <2>3. HasBefore(p.send, pub, Unknown, pub - s, h)
    <3> SUFFICES ASSUME p.send # << >> PROVE pub + 1 .. Before(p.send[1]) + (pub - s) \subseteq h
      BY DEF HasBefore
    <3>1. Before(p.send[1]) \in Int /\ Before(p.send[1]) + (pub - s) <= pub
      BY <1>3, <2>2, QueuedIsOut
    <3> QED BY <3>1
  <2> QED BY <1>1, <2>2, <2>3 DEF Follows
<1> QED BY <1>3, <1>4 DEF Served

\* A connection that is closed, or not yet open, has nothing queued.
LEMMA IdleServed ==
  ASSUME NEW k, NEW l, NEW h, NEW f, NEW x, NEW s, NEW pub, NEW o, Served(k, l, h, f, x, s, pub, o),
         NEW p, p.sub = FALSE, p.send = << >>, p.gone \in BOOLEAN
  PROVE  Served(p, l, h, f, x, s, pub, o)
<1>1. p.send \in Seq(Messages) /\ Len(p.send) = 0 BY DEF Messages
<1>2. QueueTyped(p) BY <1>1 DEF QueueTyped
<1>3. Ordered(p.send, s, pub - s) BY <1>1 DEF Ordered
<1>4. InOrder(p, s, pub) BY <1>3 DEF InOrder
<1>5. Follows(k, l, h, f, s, pub) => Follows(p, l, h, f, s, pub) BY DEF Follows, HasBefore
<1> QED BY <1>2, <1>4, <1>5 DEF Served

\* A client that is to go is promised no more.
LEMMA GoneServed ==
  ASSUME NEW k, NEW l, NEW h, NEW f, NEW x, NEW s, NEW pub, NEW o, Served(k, l, h, f, x, s, pub, o),
         NEW p, p = [k EXCEPT !.gone = TRUE],
         DOMAIN k = {"at", "cred", "sub", "left", "send", "gone"}
  PROVE  Served(p, l, h, f, x, s, pub, o)
<1>1. p.at = k.at /\ p.sub = k.sub /\ p.left = k.left /\ p.send = k.send /\ p.gone OBVIOUS
<1>2. QueueTyped(k) => QueueTyped(p) BY <1>1 DEF QueueTyped
<1>3. InOrder(k, s, pub) => InOrder(p, s, pub) BY <1>1 DEF InOrder
<1>4. Follows(k, l, h, f, s, pub) => Follows(p, l, h, f, s, pub) BY <1>1 DEF Follows
<1> QED BY <1>2, <1>3, <1>4 DEF Served

\* A client for which nothing changed.
LEMMA Unchanged ==
  ASSUME NEW c \in Clients, ClientInv(c), UNCHANGED <<conn[c], last[c], have[c], joined[c], crossed[c]>>,
         UNCHANGED <<seq, published, over>>
  PROVE  ClientInv(c)'
BY DEF ClientInv

\* A step of one client: its connection and what its browser knows.
LEMMA ViewServed ==
  ASSUME MissedInv, UNCHANGED hubVars, NEW c \in Clients, NEW k, NEW l, NEW h, NEW f, NEW x,
         conn' = [conn EXCEPT ![c] = k], last' = [last EXCEPT ![c] = l],
         have' = [have EXCEPT ![c] = h], joined' = [joined EXCEPT ![c] = f],
         crossed' = [crossed EXCEPT ![c] = x],
         DOMAIN k = DOMAIN conn[c], Served(k, l, h, f, x, seq, published, over)
  PROVE  MissedInv'
<1>1. /\ \A d \in Clients : DOMAIN conn[d] = {"at", "cred", "sub", "left", "send", "gone"}
      /\ conn = [d \in Clients |-> conn[d]] /\ last = [d \in Clients |-> last[d]]
      /\ have = [d \in Clients |-> have[d]] /\ joined = [d \in Clients |-> joined[d]]
      /\ crossed = [d \in Clients |-> crossed[d]]
  BY DEF MissedInv, ConnShape, ViewsTyped
<1>2. conn'[c] = k /\ \A d \in Clients : d # c => conn'[d] = conn[d] BY <1>1
<1>3. conn' = [d \in Clients |-> conn'[d]] BY <1>1
<1>4. last'[c] = l /\ \A d \in Clients : d # c => last'[d] = last[d] BY <1>1
<1>5. have'[c] = h /\ \A d \in Clients : d # c => have'[d] = have[d] BY <1>1
<1>6. /\ crossed'[c] = x /\ \A d \in Clients : d # c => crossed'[d] = crossed[d]
      /\ joined'[c] = f /\ \A d \in Clients : d # c => joined'[d] = joined[d]
  BY <1>1
<1>7. ConnShape' BY <1>1, <1>2, <1>3 DEF ConnShape
<1>8. HubInv' BY DEF MissedInv, HubInv, hubVars
<1>9. ViewsTyped'
  <2>1. last' = [d \in Clients |-> last'[d]] BY <1>1
  <2>2. have' = [d \in Clients |-> have'[d]] BY <1>1
  <2>3. crossed' = [d \in Clients |-> crossed'[d]] BY <1>1
  <2>4. joined' = [d \in Clients |-> joined'[d]] BY <1>1
  <2> QED BY <2>1, <2>2, <2>3, <2>4 DEF ViewsTyped
<1>10. ASSUME NEW d \in Clients PROVE ClientInv(d)'
  <2>1. CASE d = c BY <1>2, <1>4, <1>5, <1>6, <2>1 DEF ClientInv, hubVars
  <2>2. CASE d # c BY <1>2, <1>4, <1>5, <1>6, <2>2, Unchanged DEF MissedInv, hubVars
  <2> QED BY <2>1, <2>2
<1> QED BY <1>7, <1>8, <1>9, <1>10 DEF MissedInv

\* The same when the browser learns nothing.
LEMMA OneServed ==
  ASSUME MissedInv, UNCHANGED <<hubVars, viewVars>>, NEW c \in Clients, NEW k,
         conn' = [conn EXCEPT ![c] = k], DOMAIN k = DOMAIN Closed,
         Served(k, last[c], have[c], joined[c], crossed[c], seq, published, over)
  PROVE  MissedInv'
<1>1. /\ DOMAIN k = DOMAIN conn[c] /\ last = [d \in Clients |-> last[d]]
      /\ have = [d \in Clients |-> have[d]] /\ joined = [d \in Clients |-> joined[d]]
      /\ crossed = [d \in Clients |-> crossed[d]]
  BY DEF MissedInv, ConnShape, ViewsTyped, Closed
<1>2. /\ last' = [last EXCEPT ![c] = last[c]] /\ have' = [have EXCEPT ![c] = have[c]]
      /\ joined' = [joined EXCEPT ![c] = joined[c]] /\ crossed' = [crossed EXCEPT ![c] = crossed[c]]
  BY <1>1 DEF viewVars
<1> QED BY <1>1, <1>2, ViewServed

\* Hub.subscribe and LiveClient.handle: a browser that has read all it was
\* sent misses no publication since it joined the topic, however its
\* connection broke and whatever the buffer still covered.
THEOREM NothingMissedAlways == LiveSpec => []NothingMissed
<1>0. Unknown \notin Nat /\ BufferSize \in Nat \ {0} BY HubAssumption DEF HubAssumption
<1>1. LiveInit => MissedInv
  <2> SUFFICES ASSUME LiveInit PROVE MissedInv OBVIOUS
  <2>1. /\ seq = 0 /\ published = 0 /\ over = FALSE /\ buf = << >>
        /\ conn = [c \in Clients |-> Closed] /\ last = [c \in Clients |-> Unknown]
        /\ have = [c \in Clients |-> {}] /\ joined = [c \in Clients |-> 0]
        /\ crossed = [c \in Clients |-> FALSE]
    BY DEF LiveInit
  <2>2. ConnShape /\ ViewsTyped BY <2>1 DEF ConnShape, ViewsTyped, Closed
  <2>3. buf \in Seq(Messages) /\ Len(buf) = 0 BY <2>1
  <2>4. HubInv BY <1>0, <2>1, <2>3 DEF HubInv
  <2>5. ASSUME NEW c \in Clients PROVE ClientInv(c)
    <3>1. Closed.send = << >> /\ Closed.sub = FALSE /\ Closed.left = FALSE /\ Closed.gone = FALSE
          /\ Closed.at = "closed"
      BY DEF Closed
    <3>2. Closed.send \in Seq(Messages) /\ Len(Closed.send) = 0 BY <3>1
    <3>3. QueueTyped(Closed) BY <3>1, <3>2 DEF QueueTyped
    <3>4. Ordered(Closed.send, 0, 0 - 0) BY <3>2 DEF Ordered
    <3>5. InOrder(Closed, 0, 0) BY <3>1, <3>4 DEF InOrder
    <3>6. Follows(Closed, Unknown, {}, 0, 0, 0) BY <3>1 DEF Follows, HasBefore
    <3>7. Served(Closed, Unknown, {}, 0, FALSE, 0, 0, FALSE) BY <3>3, <3>5, <3>6 DEF Served
    <3> QED BY <2>1, <3>7 DEF ClientInv
  <2> QED BY <2>2, <2>4, <2>5 DEF MissedInv
<1>2. MissedInv /\ [LiveNext]_liveVars => MissedInv'
  <2> SUFFICES ASSUME MissedInv, [LiveNext]_liveVars PROVE MissedInv' OBVIOUS
  <2>0. /\ \A c \in Clients : DOMAIN conn[c] = {"at", "cred", "sub", "left", "send", "gone"}
        /\ conn = [c \in Clients |-> conn[c]] /\ DOMAIN Closed = {"at", "cred", "sub", "left", "send", "gone"}
        /\ Closed.send = << >> /\ Closed.sub = FALSE /\ Closed.gone = FALSE
    BY DEF MissedInv, ConnShape, Closed
  <2>h. /\ HubInv /\ ViewsTyped /\ seq \in Nat /\ published \in Nat /\ seq <= published
        /\ \A c \in Clients : ClientInv(c)
    BY DEF MissedInv, HubInv
  <2>c. \A c \in Clients : Served(conn[c], last[c], have[c], joined[c], crossed[c], seq, published, over)
    BY <2>h DEF ClientInv
  <2>1. CASE Publish
    <3>1. PICK m : m = [type |-> "data", seq |-> seq + 1, n |-> published + 1] OBVIOUS
    <3>2. /\ conn' = [c \in Clients |-> IF conn[c].sub THEN push(conn[c], m) ELSE conn[c]]
          /\ seq' = seq + 1 /\ published' = published + 1 /\ over = FALSE /\ over' = FALSE
          /\ last' = last /\ have' = have /\ joined' = joined /\ crossed' = crossed
      BY <2>1, <3>1 DEF Publish, viewVars
    <3>3. HubInv' BY <2>1, <2>h, HubSteps
    <3>4. ViewsTyped' BY <2>h, <3>2 DEF ViewsTyped
    <3>5. ASSUME NEW c \in Clients
          PROVE  DOMAIN conn'[c] = {"at", "cred", "sub", "left", "send", "gone"}
      <4>1. PICK k : k = conn[c] OBVIOUS
      <4>2. DOMAIN k = {"at", "cred", "sub", "left", "send", "gone"} BY <2>0, <4>1
      <4>3. DOMAIN pushAll(k, << m >>) = DOMAIN k BY <4>2, PushKeeps
      <4>4. conn'[c] = pushAll(k, << m >>) \/ conn'[c] = k BY <3>2, <4>1 DEF push
      <4> QED BY <4>2, <4>3, <4>4
    <3>6. ConnShape' BY <3>2, <3>5 DEF ConnShape
    <3>7. ASSUME NEW c \in Clients PROVE ClientInv(c)'
      <4>1. PICK k : k = conn[c] OBVIOUS
      <4>2. PICK p : p = IF k.sub THEN push(k, m) ELSE k OBVIOUS
      <4>3. conn'[c] = p BY <3>2, <4>1, <4>2
      <4>4. Served(k, last[c], have[c], joined[c], crossed[c], seq, published, FALSE) BY <2>c, <3>2, <4>1
      <4>5. Served(p, last[c], have[c], joined[c], crossed[c], seq + 1, published + 1, FALSE)
        BY <2>0, <2>h, <3>1, <4>1, <4>2, <4>4, PublishedServed
      <4> QED BY <3>2, <4>3, <4>5 DEF ClientInv
    <3> QED BY <3>3, <3>4, <3>6, <3>7 DEF MissedInv
  <2>2. CASE Forget
    <3>1. /\ over' = TRUE /\ seq' = 0 /\ published' = published /\ conn' = conn
          /\ last' = last /\ have' = have /\ joined' = joined /\ crossed' = crossed
      BY <2>2 DEF Forget, connVars, viewVars
    <3>2. HubInv' BY <2>2, <2>h, HubSteps
    <3>3. ConnShape' /\ ViewsTyped' BY <2>h, <3>1 DEF MissedInv, ConnShape, ViewsTyped
    <3>4. \A c \in Clients : ClientInv(c)' BY <2>c, <3>1 DEF ClientInv, Served
    <3> QED BY <3>2, <3>3, <3>4 DEF MissedInv
  <2>3. CASE Restart
    <3>1. /\ over' = over /\ seq' = 0 /\ published' = published /\ conn' = [c \in Clients |-> Closed]
          /\ last' = last /\ have' = have /\ joined' = joined
          /\ crossed' = [c \in Clients |-> crossed[c] \/ last[c] # Unknown]
      BY <2>3 DEF Restart
    <3>2. HubInv' BY <2>3, <2>h, HubSteps
    <3>3. ConnShape' BY <2>0, <3>1 DEF ConnShape
    <3>4. ViewsTyped' BY <2>h, <3>1 DEF ViewsTyped
    <3>5. ASSUME NEW c \in Clients PROVE ClientInv(c)'
      <4>1. Served(conn[c], last[c], have[c], joined[c], crossed[c], seq, published, over) BY <2>c
      <4>2. Served(Closed, last[c], have[c], joined[c], crossed[c], seq, published, over)
        BY ONLY <2>0, <4>1, IdleServed
      <4>3. QueueTyped(Closed) /\ last[c] \in Nat \cup {Unknown} /\ joined[c] \in 0 .. published
        BY <4>2 DEF Served
      <4>4. Len(Closed.send) = 0 BY <2>0
      <4>5. InOrder(Closed, 0, published) BY <2>0, <4>4 DEF InOrder, Ordered
      <4>7. ~(crossed[c] \/ last[c] # Unknown) => Follows(Closed, last[c], have[c], joined[c], 0, published)
        BY <2>0 DEF Follows, HasBefore
      <4>8. Served(Closed, last[c], have[c], joined[c], crossed[c] \/ last[c] # Unknown, 0, published, over)
        BY <4>3, <4>5, <4>7 DEF Served
      <4>9. conn'[c] = Closed /\ crossed'[c] = (crossed[c] \/ last[c] # Unknown) BY <3>1
      <4> QED BY <3>1, <4>8, <4>9 DEF ClientInv
    <3> QED BY <3>2, <3>3, <3>4, <3>5 DEF MissedInv
  <2>4. CASE handleRevokeToken \/ UNCHANGED liveVars
    <3>1. UNCHANGED <<hubVars, connVars, viewVars>> BY <2>4 DEF handleRevokeToken, liveVars
    <3>2. HubInv' /\ ConnShape' /\ ViewsTyped'
      BY <2>h, <3>1 DEF MissedInv, HubInv, ConnShape, ViewsTyped, hubVars, connVars, viewVars
    <3>3. \A c \in Clients : ClientInv(c)' BY <2>h, <3>1 DEF ClientInv, hubVars, connVars, viewVars
    <3> QED BY <3>2, <3>3 DEF MissedInv
  <2>5. CASE disconnect
    <3>1. PICK cred : conn' = [c \in Clients |-> IF conn[c].at \in {"added", "open"} /\ conn[c].cred = cred
                                                THEN [conn[c] EXCEPT !.gone = TRUE] ELSE conn[c]]
      BY <2>5 DEF disconnect
    <3>2. UNCHANGED <<hubVars, viewVars>> BY <2>5 DEF disconnect
    <3>3. ASSUME NEW c \in Clients
          PROVE  conn'[c] = conn[c] \/ conn'[c] = [conn[c] EXCEPT !.gone = TRUE]
      BY <3>1
    <3>4. ConnShape' BY <2>0, <3>1, <3>3 DEF ConnShape
    <3>5. HubInv' /\ ViewsTyped' BY <2>h, <3>2 DEF HubInv, ViewsTyped, hubVars, viewVars
    <3>6. ASSUME NEW c \in Clients PROVE ClientInv(c)'
      <4>1. PICK k, p : k = conn[c] /\ p = [k EXCEPT !.gone = TRUE] OBVIOUS
      <4>2. Served(k, last[c], have[c], joined[c], crossed[c], seq, published, over) BY <2>c, <4>1
      <4>3. Served(p, last[c], have[c], joined[c], crossed[c], seq, published, over)
        BY <2>0, <4>1, <4>2, GoneServed
      <4> QED BY <3>2, <3>3, <4>1, <4>2, <4>3 DEF ClientInv, hubVars, viewVars
    <3> QED BY <3>4, <3>5, <3>6 DEF MissedInv
  <2>6. ASSUME NEW c \in Clients, authenticate(c) \/ hubAdd(c) \/ stillValid(c) \/ close(c) \/ ping(c)
        PROVE  MissedInv'
    <3>1. PICK k : /\ conn' = [conn EXCEPT ![c] = k] /\ DOMAIN k = DOMAIN Closed
                   /\ \/ k.sub = FALSE /\ k.send = << >> /\ k.gone = FALSE
                      \/ /\ k.sub = conn[c].sub /\ k.send = conn[c].send /\ k.gone = conn[c].gone
                         /\ conn[c].at # "open"
      <4>1. CASE authenticate(c)
        <5>1. PICK j \in valid :
                conn' = [conn EXCEPT ![c] = [Closed EXCEPT !.at = "authenticated", !.cred = j]]
          BY <4>1, Zenon DEF authenticate
        <5>2. PICK k : k = [Closed EXCEPT !.at = "authenticated", !.cred = j] OBVIOUS
        <5>3. DOMAIN k = DOMAIN Closed /\ k.sub = FALSE /\ k.send = << >> /\ k.gone = FALSE
          BY <2>0, <5>2
        <5> QED BY <5>1, <5>2, <5>3
      <4>2. CASE hubAdd(c)
        <5>1. PICK k : k = [conn[c] EXCEPT !.at = "added"] OBVIOUS
        <5>2. conn' = [conn EXCEPT ![c] = k] /\ conn[c].at # "open" BY <4>2, <5>1 DEF hubAdd
        <5>3. DOMAIN k = DOMAIN Closed /\ k.sub = conn[c].sub /\ k.send = conn[c].send /\ k.gone = conn[c].gone
          BY <2>0, <5>1
        <5> QED BY <5>2, <5>3
      <4>3. CASE stillValid(c)
        <5>1. PICK k : k = [conn[c] EXCEPT !.at = "open"] OBVIOUS
        <5>2. (conn' = [conn EXCEPT ![c] = k] \/ conn' = [conn EXCEPT ![c] = Closed]) /\ conn[c].at # "open"
          BY <4>3, <5>1 DEF stillValid
        <5>3. DOMAIN k = DOMAIN Closed /\ k.sub = conn[c].sub /\ k.send = conn[c].send /\ k.gone = conn[c].gone
          BY <2>0, <5>1
        <5> QED BY <2>0, <5>2, <5>3
      <4>4. CASE close(c) \/ ping(c)
        <5>1. conn' = [conn EXCEPT ![c] = Closed] BY <4>4 DEF close, ping
        <5> QED BY <2>0, <5>1
      <4> QED BY <2>6, <4>1, <4>2, <4>3, <4>4
    <3>2. UNCHANGED <<hubVars, viewVars>>
      <4>1. CASE authenticate(c) BY <4>1 DEF authenticate
      <4>2. CASE hubAdd(c) BY <4>2 DEF hubAdd
      <4>3. CASE stillValid(c) BY <4>3 DEF stillValid
      <4>4. CASE close(c) BY <4>4 DEF close
      <4>5. CASE ping(c) BY <4>5 DEF ping
      <4> QED BY <2>6, <4>1, <4>2, <4>3, <4>4, <4>5
    <3>3. Served(conn[c], last[c], have[c], joined[c], crossed[c], seq, published, over) BY <2>c
    <3>4. QueueTyped(conn[c]) BY <3>3 DEF Served
    <3>5. k.sub = FALSE /\ k.send = << >> /\ k.gone \in BOOLEAN BY <3>1, <3>4 DEF QueueTyped
    <3>6. Served(k, last[c], have[c], joined[c], crossed[c], seq, published, over)
      BY ONLY <3>3, <3>5, IdleServed
    <3> QED BY <3>1, <3>2, <3>6, OneServed
  <2>7. ASSUME NEW c \in Clients, subscribe(c) PROVE MissedInv'
    <3>1. PICK k : k = conn[c] OBVIOUS
    <3>2. PICK since : since = IF k.left THEN Unknown ELSE last[c] OBVIOUS
    <3>3. PICK t : t = [k EXCEPT !.sub = TRUE] OBVIOUS
    <3>4. PICK p : p = pushAll(t, FirstMessages(since)) OBVIOUS
    <3>5. conn' = [conn EXCEPT ![c] = p] BY <2>7, <3>1, <3>2, <3>3, <3>4 DEF subscribe
    <3>6. k.at = "open" /\ ~k.sub /\ UNCHANGED <<hubVars, last, have, crossed>>
      BY <2>7, <3>1 DEF subscribe
    <3>7. Served(k, last[c], have[c], joined[c], crossed[c], seq, published, over) BY <2>c, <3>1
    <3>a. PICK f : f = IF since = Unknown THEN published ELSE joined[c] OBVIOUS
    <3>8. Served(p, last[c], have[c], f, crossed[c], seq, published, over)
      <4>1. PICK l, h, j, x, o :
              l = last[c] /\ h = have[c] /\ j = joined[c] /\ x = crossed[c] /\ o = over
        OBVIOUS
      <4>2. HubInv BY <2>h
      <4>3. DOMAIN k = {"at", "cred", "sub", "left", "send", "gone"} BY <2>0, <3>1
      <4>4. k.at = "open" /\ ~k.sub BY <3>6
      <4>5. Served(k, l, h, j, x, seq, published, o) BY <3>7, <4>1
      <4>6. since = IF k.left THEN Unknown ELSE l BY <3>2, <4>1
      <4>7. f = IF since = Unknown THEN published ELSE j BY <3>a, <4>1
      <4>8. Served(p, l, h, f, x, seq, published, o)
        BY ONLY <3>3, <3>4, <4>2, <4>3, <4>4, <4>5, <4>6, <4>7, SubscribedServed
      <4> QED BY <4>1, <4>8
    <3>9. DOMAIN t = DOMAIN Closed BY <2>0, <3>1, <3>3
    <3>10. DOMAIN p = DOMAIN k BY <2>0, <3>1, <3>4, <3>9, PushKeeps
    <3>11. /\ last' = [last EXCEPT ![c] = last[c]] /\ have' = [have EXCEPT ![c] = have[c]]
           /\ crossed' = [crossed EXCEPT ![c] = crossed[c]]
      BY <2>h, <3>6 DEF ViewsTyped
    <3>12. joined' = [joined EXCEPT ![c] = f]
      <4>1. joined' = IF since = Unknown THEN [joined EXCEPT ![c] = published] ELSE joined
        BY <2>7, <3>1, <3>2 DEF subscribe
      <4>2. joined = [joined EXCEPT ![c] = joined[c]] BY <2>h DEF ViewsTyped
      <4> QED BY <3>a, <4>1, <4>2
    <3>13. MissedInv /\ UNCHANGED hubVars /\ DOMAIN p = DOMAIN conn[c] BY <3>1, <3>6, <3>10
    <3> QED BY ONLY <3>5, <3>8, <3>11, <3>12, <3>13, c \in Clients, ViewServed
  <2>8. ASSUME NEW c \in Clients, unsubscribe(c) \/ handle(c) \/ load(c) PROVE MissedInv'
    <3>1. PICK k : k = conn[c] OBVIOUS
    <3>2. PICK p, l, h, f, x :
            /\ conn' = [conn EXCEPT ![c] = p] /\ last' = [last EXCEPT ![c] = l]
            /\ have' = [have EXCEPT ![c] = h] /\ joined' = [joined EXCEPT ![c] = f]
            /\ crossed' = [crossed EXCEPT ![c] = x]
            /\ UNCHANGED hubVars /\ DOMAIN p = DOMAIN k
            /\ Served(p, l, h, f, x, seq, published, over)
      <4>1. CASE unsubscribe(c)
        <5>1. PICK p : p = [k EXCEPT !.sub = FALSE, !.left = TRUE] OBVIOUS
        <5>2. /\ conn' = [conn EXCEPT ![c] = p] /\ last' = [last EXCEPT ![c] = Unknown]
              /\ joined' = [joined EXCEPT ![c] = published] /\ crossed' = [crossed EXCEPT ![c] = FALSE]
              /\ UNCHANGED <<hubVars, have>> /\ k.at = "open"
          BY <3>1, <4>1, <5>1 DEF unsubscribe
        <5>3. have' = [have EXCEPT ![c] = have[c]] BY <2>h, <5>2 DEF ViewsTyped
        <5>4. Served(k, last[c], have[c], joined[c], crossed[c], seq, published, over) BY <2>c, <3>1
        <5>5. DOMAIN p = DOMAIN k BY <2>0, <3>1, <5>1
        <5>6. Served(p, Unknown, have[c], published, FALSE, seq, published, over)
          <6>1. PICK l, h, f, x, s, pub, o :
                  /\ l = last[c] /\ h = have[c] /\ f = joined[c] /\ x = crossed[c]
                  /\ s = seq /\ pub = published /\ o = over
            OBVIOUS
          <6>2. Served(k, l, h, f, x, s, pub, o) BY <5>4, <6>1
          <6>3. DOMAIN k = {"at", "cred", "sub", "left", "send", "gone"} BY <2>0, <3>1
          <6>4. s \in Nat /\ pub \in Nat /\ s <= pub /\ k.at = "open" BY <2>h, <5>2, <6>1
          <6>5. p.at = k.at /\ p.send = k.send /\ p.gone = k.gone /\ p.sub = FALSE /\ p.left = TRUE
            BY <5>1, <6>3
          <6>7. Served(p, Unknown, h, pub, FALSE, s, pub, o)
            BY ONLY <6>2, <6>4, <6>5, LeftServed
          <6> QED BY <6>1, <6>7
        <5> QED BY <5>2, <5>3, <5>5, <5>6
      <4>2. CASE handle(c)
        <5>1. PICK m : m = Head(k.send) OBVIOUS
        <5>3. PICK g : g = Learnt(m, last[c], have[c], published) OBVIOUS
        <5>4. PICK p : p = [k EXCEPT !.send = Tail(@)] OBVIOUS
        <5>5. /\ k.at = "open" /\ k.send # << >> /\ last' = [last EXCEPT ![c] = m.seq]
              /\ UNCHANGED <<hubVars, joined>>
          BY <3>1, <4>2, <5>1 DEF handle
        <5>2. joined' = [joined EXCEPT ![c] = joined[c]] BY <2>h, <5>5 DEF ViewsTyped
        <5>6. conn' = [conn EXCEPT ![c] = p] BY <3>1, <4>2, <5>4 DEF handle
        <5>7. have' = [have EXCEPT ![c] = g] BY <3>1, <4>2, <5>1, <5>3 DEF handle, Reloads, Learnt
        <5>8. PICK y : y = (crossed[c] /\ ~Reloads(m, last[c])) OBVIOUS
        <5>9. crossed' = [crossed EXCEPT ![c] = y] BY <3>1, <4>2, <5>1, <5>8 DEF handle, Reloads
        <5>10. Served(k, last[c], have[c], joined[c], crossed[c], seq, published, over) BY <2>c, <3>1
        <5>11. Served(p, m.seq, g, joined[c], y, seq, published, over)
          <6>1. PICK l, h, f, x, s, pub, o :
                  /\ l = last[c] /\ h = have[c] /\ f = joined[c] /\ x = crossed[c]
                  /\ s = seq /\ pub = published /\ o = over
            OBVIOUS
          <6>2. ~y => ~x \/ Reloads(m, l) BY <5>8, <6>1
          <6>4. g = Learnt(m, l, h, pub) BY <5>3, <6>1
          <6>5. Served(k, l, h, f, x, s, pub, o) BY <5>10, <6>1
          <6>6. DOMAIN k = {"at", "cred", "sub", "left", "send", "gone"} BY <2>0, <3>1
          <6>7. s \in Nat /\ pub \in Nat /\ s <= pub BY <2>h, <6>1
          <6>8. k.at = "open" /\ k.send # << >> BY <5>5
          <6>a. p.at = k.at /\ p.sub = k.sub /\ p.gone = k.gone /\ p.left = k.left /\ p.send = Tail(k.send)
            BY <5>4, <6>6
          <6>9. Served(p, m.seq, g, f, y, s, pub, o)
            <7>1. Handles(k, m, p, l, h, g, x, y, pub)
              BY <5>1, <6>2, <6>4, <6>8, <6>a DEF Handles
            <7> QED BY ONLY <6>5, <6>7, <7>1, HandledServed
          <6> QED BY <6>1, <6>9
        <5>12. DOMAIN p = DOMAIN k BY <2>0, <3>1, <5>4
        <5> QED BY <5>2, <5>5, <5>6, <5>7, <5>9, <5>11, <5>12
      <4>3. CASE load(c)
        <5>1. /\ have' = [have EXCEPT ![c] = 0 .. published]
              /\ UNCHANGED <<hubVars, connVars, last, joined, crossed>>
          BY <4>3 DEF load
        <5>2. /\ conn' = [conn EXCEPT ![c] = k] /\ last' = [last EXCEPT ![c] = last[c]]
              /\ joined' = [joined EXCEPT ![c] = joined[c]] /\ crossed' = [crossed EXCEPT ![c] = crossed[c]]
          BY <2>0, <2>h, <3>1, <5>1 DEF ViewsTyped, connVars
        <5>3. Served(k, last[c], have[c], joined[c], crossed[c], seq, published, over) BY <2>c, <3>1
        <5>4. Served(k, last[c], 0 .. published, joined[c], crossed[c], seq, published, over)
          BY <2>h, <5>3, LoadedServed
        <5> QED BY <5>1, <5>2, <5>4
      <4> QED BY <2>8, <4>1, <4>2, <4>3
    <3> QED BY <2>0, <3>1, <3>2, ViewServed
  <2> QED BY <2>1, <2>2, <2>3, <2>4, <2>5, <2>6, <2>7, <2>8 DEF LiveNext, ServerStep
<1>3. MissedInv => NothingMissed
  <2> SUFFICES ASSUME MissedInv, NEW c \in Clients, ~crossed[c], conn[c].sub, ~conn[c].gone,
                      conn[c].send = << >>, ~over
               PROVE  joined[c] + 1 .. published \subseteq have[c]
    BY DEF NothingMissed, UpToDate, CaughtUp
  <2> QED BY DEF MissedInv, ClientInv, Served, Follows
<1> QED BY <1>1, <1>2, <1>3, PTL DEF LiveSpec

-----------------------------------------------------------------------------
(* Credentials *)

\* The numbers of credentials only grow, so that a row that was removed is
\* never issued again, and no statement but an INSERT adds a row.
CredentialsInv == issued \in Nat

\* Logout, RevokeToken and DeleteExpiredSessions: a credential that was
\* removed never comes back, whatever requests had read it before.
THEOREM RemovedStaysRemovedAlways == CredentialsSpec => RemovedStaysRemoved
<1>1. CredentialsInit => CredentialsInv BY DEF CredentialsInit, CredentialsInv
<1>2. ASSUME CredentialsInv, [CredentialsNext]_credentialVars
      PROVE  /\ CredentialsInv'
             /\ \A i \in 1 .. issued : i \notin DOMAIN rows => i \notin DOMAIN rows'
  <2> USE DEF CredentialsInv
  <2>1. CASE newSession BY <1>2, <2>1 DEF newSession, CreateSession, Insert
  <2>2. CASE CreateToken BY <1>2, <2>2 DEF CreateToken, CreateAPIToken, Insert
  <2>3. CASE \/ Logout \/ applyRetention \/ CredentialsTick \/ UNCHANGED credentialVars
             \/ \E v \in Visitors : Authenticate(v) \/ AuthenticateToken(v) \/ RevokeToken(v) \/ RevokeDelete(v)
    <3>1. DOMAIN rows' \subseteq DOMAIN rows /\ UNCHANGED issued
      BY <2>3 DEF Logout, applyRetention, CredentialsTick, credentialVars, Authenticate,
                  AuthenticateToken, RevokeToken, RevokeDelete, DeleteSession, DeleteAPIToken,
                  DeleteExpiredSessions, Delete, Restrict
    <3> QED BY <1>2, <3>1
  <2>4. CASE \E v \in Visitors : AuthenticateExtend(v) \/ AuthenticateTouch(v)
    <3>1. DOMAIN rows' = DOMAIN rows /\ UNCHANGED issued
      BY <2>4 DEF AuthenticateExtend, AuthenticateTouch, ExtendSession, TouchAPIToken, Update
    <3> QED BY <1>2, <3>1
  <2> QED BY <1>2, <2>1, <2>2, <2>3, <2>4 DEF CredentialsNext
<1>3. CredentialsInv /\ [CredentialsNext]_credentialVars =>
        CredentialsInv' /\ [\A i \in 1 .. issued : i \notin DOMAIN rows => i \notin DOMAIN rows']_credentialVars
  BY <1>2
<1> QED BY <1>1, <1>3, PTL DEF CredentialsSpec, RemovedStaysRemoved

-----------------------------------------------------------------------------
(* Accounts *)

CallType ==
  [at : {"idle", "required", "code", "hash", "create", "verdict", "clear", "session"},
   kind : {"setup", "login", None}, key : {None} \cup (Usernames \X Addrs),
   good : BOOLEAN, code : Nat \cup {None}]

SetupsThrough(c) == call[c].kind = "setup" /\ call[c].at \in {"clear", "session"}

\* A request that created the administrator is the only one that did, and
\* the only user is the one it created.
AccountsInv ==
  /\ call \in [Callers -> CallType]
  /\ setupCode \in Nat \cup {None} /\ codeFile \in Nat \cup {None} /\ codes \in Nat
  /\ users \in {{}, {Admin}}
  /\ \A c \in Callers : call[c].at = "verdict" => call[c].kind # "setup"
  /\ \A c \in Callers : SetupsThrough(c) => users = {Admin}
  /\ \A c, d \in Callers : SetupsThrough(c) /\ SetupsThrough(d) => c = d

\* A step of one request that makes no administrator.
LEMMA OneCallMoves ==
  ASSUME AccountsInv, NEW c \in Callers, NEW to \in CallType, call' = [call EXCEPT ![c] = to],
         to.at = "verdict" => to.kind # "setup",
         to.kind = "setup" /\ to.at \in {"clear", "session"} => SetupsThrough(c),
         UNCHANGED users,
         setupCode' \in Nat \cup {None}, codeFile' \in Nat \cup {None}, codes' \in Nat
  PROVE  AccountsInv'
<1>1. /\ call' \in [Callers -> CallType] /\ call'[c] = to
      /\ \A d \in Callers : d # c => call'[d] = call[d]
  BY DEF AccountsInv
<1>2. \A d \in Callers : SetupsThrough(d)' => SetupsThrough(d)
  BY <1>1 DEF SetupsThrough
<1> QED BY <1>1, <1>2 DEF AccountsInv

\* Setup and CreateUser: two wizards that both passed the first check, with
\* whatever code, make one administrator between them, and one goes on.
THEOREM OneAdministratorAlways == AccountsSpec => []OneAdministrator
<1>0. Idle \in CallType /\ Idle.at = "idle" BY DEF Idle, CallType
<1>1. AccountsInit => AccountsInv
  <2> SUFFICES ASSUME AccountsInit PROVE AccountsInv OBVIOUS
  <2>1. \A c \in Callers : call[c] = Idle BY DEF AccountsInit
  <2>2. \A c \in Callers : call[c].at = "idle" BY <1>0, <2>1
  <2>3. call \in [Callers -> CallType] BY <1>0 DEF AccountsInit
  <2> QED BY <2>2, <2>3 DEF AccountsInit, AccountsInv, SetupsThrough
<1>2. AccountsInv /\ [AccountsNext]_accountVars => AccountsInv'
  <2> SUFFICES ASSUME AccountsInv, [AccountsNext]_accountVars PROVE AccountsInv' OBVIOUS
  <2>0. /\ setupCode \in Nat \cup {None} /\ codeFile \in Nat \cup {None} /\ codes \in Nat
        /\ \A c \in Callers : call[c] \in CallType
    BY DEF AccountsInv
  <2>1. ASSUME NEW c \in Callers, AccountsStep(c) PROVE AccountsInv'
    <3>1. CASE End(c) /\ UNCHANGED setupVars
      BY <1>0, <2>0, <3>1, OneCallMoves DEF End, setupVars
    <3>2. ASSUME NEW to \in {"code", "hash", "create", "verdict", "session"}, Move(c, to),
                 UNCHANGED users,
                 setupCode' \in Nat \cup {None}, codeFile' \in Nat \cup {None}, codes' \in Nat,
                 to = "verdict" => call[c].kind # "setup",
                 to = "session" => call[c].kind # "setup" \/ call[c].at = "clear"
          PROVE  AccountsInv'
      <4> DEFINE next == [call[c] EXCEPT !.at = to]
      <4>1. next \in CallType /\ next.at = to /\ next.kind = call[c].kind
        BY <2>0 DEF CallType
      <4>2. call' = [call EXCEPT ![c] = next] BY <3>2 DEF Move
      <4> HIDE DEF next
      <4> QED BY <3>2, <4>1, <4>2, OneCallMoves DEF SetupsThrough
    <3>3. ASSUME NEW r \in CallType, Begin(c, r), r.at \notin {"verdict", "clear", "session"}
          PROVE  AccountsInv'
      BY <2>0, <3>3, OneCallMoves DEF Begin, setupVars
    <3>4. CASE Setup(c)
      <4>1. PICK a \in Addrs, given \in {setupCode, None} :
              \/ Begin(c, Idle)
              \/ Begin(c, [at |-> "required", kind |-> "setup", key |-> <<Admin, a>>,
                           good |-> TRUE, code |-> given])
        BY <3>4 DEF Setup
      <4> DEFINE r == [at |-> "required", kind |-> "setup", key |-> <<Admin, a>>,
                       good |-> TRUE, code |-> given]
      <4>2. r \in CallType /\ r.at = "required" BY <2>0, AccountsAssumption DEF CallType, AccountsAssumption
      <4> QED BY <1>0, <3>3, <4>1, <4>2
    <3>5. CASE Login(c)
      <4>1. PICK u \in Usernames, a \in Addrs, good \in BOOLEAN :
              \/ Begin(c, Idle)
              \/ Begin(c, [at |-> "hash", kind |-> "login", key |-> <<u, a>>,
                           good |-> good, code |-> None])
        BY <3>5 DEF Login
      <4> DEFINE r == [at |-> "hash", kind |-> "login", key |-> <<u, a>>,
                       good |-> good, code |-> None]
      <4>2. r \in CallType /\ r.at = "hash" BY DEF CallType
      <4> QED BY <1>0, <3>3, <4>1, <4>2
    <3>6. CASE SetupRequired(c)
      <4>1. Move(c, "code") \/ End(c) BY <3>6 DEF SetupRequired
      <4> QED BY <2>0, <3>1, <3>2, <3>6, <4>1 DEF SetupRequired, setupVars
    <3>7. CASE SetupCode(c)
      <4>1. ReadCode \in Nat BY <2>0 DEF ReadCode
      <4>2. setupCode' \in Nat \cup {None} /\ codeFile' \in Nat \cup {None} /\ codes' \in Nat
        BY <2>0, <3>7, <4>1 DEF SetupCode
      <4>3. CASE Move(c, "hash") BY <3>2, <3>7, <4>2, <4>3 DEF SetupCode
      <4>4. CASE End(c)
        BY <1>0, <3>7, <4>2, <4>4, OneCallMoves DEF SetupCode, End
      <4> QED BY <3>7, <4>3, <4>4 DEF SetupCode
    <3>8. CASE HashDone(c)
      <4>1. CASE call[c].kind = "setup"
        BY <2>0, <3>2, <3>8, <4>1 DEF HashDone, setupVars
      <4>2. CASE call[c].kind # "setup"
        BY <2>0, <3>2, <3>8, <4>2 DEF HashDone, setupVars
      <4> QED BY <4>1, <4>2
    <3>9. CASE HashRefused(c) BY <3>1, <3>9 DEF HashRefused
    <3>10. CASE CreateUser(c)
      <4>1. CASE CountUsers = 0
        <5>1. users = {}
          <6>1. Cardinality({Admin}) = 1 BY FS_Singleton
          <6> QED BY <4>1, <6>1 DEF CountUsers, AccountsInv
        <5>2. \A d \in Callers : ~SetupsThrough(d) BY <5>1 DEF AccountsInv
        <5> DEFINE next == [call[c] EXCEPT !.at = "clear"]
        <5>3. next \in CallType /\ next.at = "clear" BY <2>0 DEF CallType
        <5>4. call' = [call EXCEPT ![c] = next] /\ users' = {Admin} BY <3>10, <4>1 DEF CreateUser, Move
        <5> HIDE DEF next
        <5>5. /\ call' \in [Callers -> CallType] /\ call'[c] = next
              /\ \A d \in Callers : d # c => call'[d] = call[d]
          BY <5>3, <5>4 DEF AccountsInv
        <5>6. \A d \in Callers : SetupsThrough(d)' => d = c BY <5>2, <5>5 DEF SetupsThrough
        <5> QED BY <3>10, <5>3, <5>4, <5>5, <5>6 DEF CreateUser, AccountsInv
      <4>2. CASE CountUsers # 0
        BY <3>1, <3>10, <4>2 DEF CreateUser, setupVars
      <4> QED BY <4>1, <4>2
    <3>11. CASE ClearCode(c) BY <2>0, <3>2, <3>11 DEF ClearCode
    <3>12. CASE LoginFailed(c) BY <3>1, <3>12 DEF LoginFailed
    <3>13. CASE LoginSucceeded(c)
      <4>1. call[c].kind # "setup" BY <3>13 DEF LoginSucceeded, AccountsInv
      <4> QED BY <2>0, <3>2, <3>13, <4>1 DEF LoginSucceeded, setupVars
    <3>14. CASE OpenSession(c) BY <3>1, <3>14 DEF OpenSession
    <3> QED BY <2>1, <3>4, <3>5, <3>6, <3>7, <3>8, <3>9, <3>10, <3>11, <3>12, <3>13, <3>14
            DEF AccountsStep
  <2>2. CASE AccountsTick
    BY <2>2 DEF AccountsTick, setupVars, AccountsInv, SetupsThrough
  <2>3. CASE announceSetup
    <3>1. \A c \in Callers : call'[c] = Idle BY <2>3 DEF announceSetup
    <3>2. \A c \in Callers : call'[c].at = "idle" BY <1>0, <3>1
    <3>3. call' \in [Callers -> CallType] BY <1>0, <2>3 DEF announceSetup
    <3>4. setupCode' \in Nat \cup {None} /\ codeFile' \in Nat \cup {None} /\ codes' \in Nat
      BY <2>0, <2>3 DEF announceSetup
    <3> QED BY <2>3, <3>2, <3>3, <3>4 DEF announceSetup, AccountsInv, SetupsThrough
  <2>4. CASE UNCHANGED accountVars
    BY <2>4 DEF accountVars, setupVars, AccountsInv, SetupsThrough
  <2> QED BY <2>1, <2>2, <2>3, <2>4 DEF AccountsNext
<1>3. AccountsInv => OneAdministrator
  <2> SUFFICES ASSUME AccountsInv PROVE OneAdministrator OBVIOUS
  <2> DEFINE through == At({"clear", "session"}) \cap {c \in Callers : call[c].kind = "setup"}
  <2>1. \A c, d \in through : c = d BY DEF AccountsInv, SetupsThrough, At
  <2>2. Cardinality({}) = 0 BY FS_EmptySet
  <2>3. \A x : Cardinality({x}) = 1 BY FS_Singleton
  <2>4. Cardinality(through) \in {0, 1}
    <3>1. PICK c : through \in {{}, {c}}
      <4>1. CASE through = {} BY <4>1
      <4>2. CASE through # {} BY <2>1, <4>2
      <4> QED BY <4>1, <4>2
    <3> HIDE DEF through
    <3> QED BY <2>2, <2>3, <3>1
  <2>5. Cardinality(users) \in {0, 1} BY <2>2, <2>3 DEF AccountsInv
  <2> QED BY <2>4, <2>5 DEF OneAdministrator
<1> QED BY <1>1, <1>2, <1>3, PTL DEF AccountsSpec
\* maxGuardEntries: however full the guard is, an entry that is locked makes
\* room for another only when every entry it keeps is locked as well.
THEOREM LockSurvivesFloodAlways == AccountsSpec => LockSurvivesFlood
<1> DEFINE Kept ==
      \A k \in DOMAIN entries :
        now < entries[k].until /\ k \notin DOMAIN entries' =>
          \/ boots' # boots
          \/ \E c \in Callers : call[c].at = "verdict" /\ call[c].key = k /\ call[c].good
          \/ \A l \in DOMAIN entries \cap DOMAIN entries' : now < entries[l].until
<1>1. AccountsInit => boots \in Nat BY DEF AccountsInit
<1>2. boots \in Nat /\ [AccountsNext]_accountVars => (boots \in Nat)' /\ [Kept]_accountVars
  <2> SUFFICES ASSUME boots \in Nat, [AccountsNext]_accountVars
               PROVE  (boots \in Nat)' /\ [Kept]_accountVars
    OBVIOUS
  <2>1. ASSUME NEW c \in Callers, AccountsStep(c) PROVE UNCHANGED boots /\ Kept
    <3>1. CASE LoginFailed(c)
      <4>1. PICK key : key = call[c].key OBVIOUS
      <4>2. PICK gone \in IF key \notin DOMAIN entries /\ Cardinality(DOMAIN entries) >= maxGuardEntries
                          THEN evictEntries ELSE {{}} :
              DOMAIN entries' = (DOMAIN entries \ gone) \cup {key}
        BY <3>1, <4>1 DEF LoginFailed, fail, Restrict
      <4>3. CASE gone = {} BY <3>1, <4>2, <4>3 DEF LoginFailed, clockVars
      <4>4. CASE key \notin DOMAIN entries /\ gone \in evictEntries
        <5>1. \A k \in gone, l \in DOMAIN entries \ gone :
                now < entries[k].until => now < entries[l].until
          BY <4>4 DEF evictEntries
        <5>2. \A l \in DOMAIN entries \cap DOMAIN entries' : l \in DOMAIN entries \ gone
          BY <4>2, <4>4
        <5> QED BY <3>1, <4>2, <5>1, <5>2 DEF LoginFailed, clockVars
      <4> QED BY <4>2, <4>3, <4>4
    <3>2. CASE LoginSucceeded(c)
      <4>1. DOMAIN entries' = DOMAIN entries \ {call[c].key}
        BY <3>2 DEF LoginSucceeded, success, Restrict
      <4> QED BY <3>2, <4>1 DEF LoginSucceeded, clockVars
    <3>3. CASE UNCHANGED <<entries, boots>> BY <3>3
    <3> QED BY <2>1, <3>1, <3>2, <3>3
            DEF AccountsStep, Setup, SetupRequired, SetupCode, Login, HashDone, HashRefused, CreateUser,
                ClearCode, OpenSession, Begin, guardVars, clockVars
  <2>2. CASE AccountsTick BY <2>2 DEF AccountsTick, guardVars
  <2>3. CASE announceSetup BY <2>3 DEF announceSetup
  <2>4. CASE UNCHANGED accountVars BY <2>4 DEF accountVars, clockVars
  <2> QED BY <2>1, <2>2, <2>3, <2>4 DEF AccountsNext
<1> QED BY <1>1, <1>2, PTL DEF AccountsSpec, LockSurvivesFlood
-----------------------------------------------------------------------------
(* Paging *)

\* A row with more rows before it is an older one.
LEMMA RanksDiffer ==
  ASSUME NEW S \in SUBSET Nat, IsFiniteSet(S)
  PROVE  /\ \A id \in S : Cardinality(Above(S, id)) \in 0 .. Cardinality(S) - 1
         /\ \A a, b \in S : a < b => Cardinality(Above(S, b)) < Cardinality(Above(S, a))
<1>1. \A id \in S : /\ Above(S, id) \in SUBSET S /\ IsFiniteSet(Above(S, id))
                    /\ Cardinality(Above(S, id)) \in Nat
                    /\ Cardinality(Above(S, id)) <= Cardinality(S)
                    /\ Cardinality(S) = Cardinality(Above(S, id)) => S = Above(S, id)
  <2>1. \A id \in S : Above(S, id) \in SUBSET S BY DEF Above
  <2> QED BY <2>1, FS_Subset, FS_CardinalityType
<1>2. \A id \in S : id \notin Above(S, id) BY DEF Above
<1>3. \A id \in S : Cardinality(Above(S, id)) # Cardinality(S) BY <1>1, <1>2
<1>4. Cardinality(S) \in Nat BY FS_CardinalityType
<1>5. ASSUME NEW a \in S, NEW b \in S, a < b
      PROVE  Cardinality(Above(S, b)) < Cardinality(Above(S, a))
  <2>0. a \in Nat /\ b \in Nat /\ \A x \in S : x \in Nat OBVIOUS
  <2>1. Above(S, b) \in SUBSET Above(S, a)
    <3> SUFFICES ASSUME NEW x \in S, x > b PROVE x > a BY DEF Above
    <3> QED BY <1>5, <2>0
  <2>2. b \in Above(S, a) /\ b \notin Above(S, b) BY <1>5 DEF Above
  <2>3. /\ Cardinality(Above(S, b)) <= Cardinality(Above(S, a))
        /\ Cardinality(Above(S, a)) = Cardinality(Above(S, b)) => Above(S, a) = Above(S, b)
    BY <1>1, <2>1, FS_Subset
  <2> QED BY <1>1, <2>2, <2>3
<1> QED BY <1>1, <1>3, <1>4, <1>5

\* Every place of the order is taken.
LEMMA RanksTaken ==
  ASSUME NEW S \in SUBSET Nat, IsFiniteSet(S), NEW i \in 1 .. Cardinality(S)
  PROVE  \E id \in S : Cardinality(Above(S, id)) = i - 1
<1> DEFINE f == [id \in S |-> Cardinality(Above(S, id)) + 1]
           n == Cardinality(S)
<1>1. n \in Nat BY FS_CardinalityType
<1>2. f \in [S -> 1 .. n] BY <1>1, RanksDiffer
<1>3. \A a, b \in S : f[a] = f[b] => a = b
  <2> SUFFICES ASSUME NEW a \in S, NEW b \in S, a < b PROVE f[a] # f[b] BY <1>2
  <2>1. Cardinality(Above(S, b)) < Cardinality(Above(S, a)) BY RanksDiffer
  <2>2. Cardinality(Above(S, b)) \in Int /\ Cardinality(Above(S, a)) \in Int BY RanksDiffer, <1>1
  <2> QED BY <2>1, <2>2
<1>4. f \in Injection(S, 1 .. n) BY <1>2, <1>3 DEF Injection, IsInjective
<1>5. IsFiniteSet(1 .. n) /\ Cardinality(1 .. n) = n
  <2>1. IsFiniteSet(1 .. n) /\ Cardinality(1 .. n) = IF 1 > n THEN 0 ELSE n - 1 + 1
    <3>1. 1 \in Int /\ n \in Int BY <1>1
    <3> HIDE DEF n
    <3> QED BY <3>1, FS_Interval
  <2> QED BY <1>1, <2>1
<1>6. f \in Surjection(S, 1 .. n) BY <1>4, <1>5, FS_Injection
<1>7. PICK id \in S : f[id] = i BY <1>6 DEF Surjection
<1>8. Cardinality(Above(S, id)) \in Int /\ Cardinality(Above(S, id)) + 1 = i BY <1>1, <1>7, RanksDiffer
<1> QED BY <1>8

\* The newest rows of B, newest first: none is left out that is as new as one
\* of them, and none at all when they are fewer than asked for.
NewestFirst(page, B, limit) ==
  /\ page \in Seq(B) /\ Len(page) <= limit
  /\ \A i, j \in 1 .. Len(page) : i < j => page[i] > page[j]
  /\ \A i \in 1 .. Len(page), id \in B : id >= page[i] => \E j \in 1 .. i : page[j] = id
  /\ Len(page) < limit => \A id \in B : \E j \in 1 .. Len(page) : page[j] = id

Below(at) == {id \in table : at = 0 \/ id < at}

\* A page holds the newest rows below the cursor, newest first, as many as
\* fit.
LEMMA RowsNewestFirst ==
  ASSUME NEW at, table \in SUBSET Nat, IsFiniteSet(table), NEW limit \in Nat \ {0}
  PROVE  NewestFirst(Rows(at, limit), Below(at), limit)
<1>0. PICK B, page : B = Below(at) /\ page = Rows(at, limit) OBVIOUS
<1>1. B \in SUBSET Nat /\ IsFiniteSet(B) /\ Cardinality(B) \in Nat
  <2>1. B \in SUBSET table BY <1>0 DEF Below
  <2> QED BY <2>1, FS_Subset, FS_CardinalityType
<1>2. PICK n : n = Cardinality(B) OBVIOUS
<1>3. PICK size : size = IF n < limit THEN n ELSE limit OBVIOUS
<1>4. size \in Nat /\ size <= n /\ size <= limit /\ n \in Nat /\ (size < limit => size = n)
  BY <1>1, <1>2, <1>3
<1>5. page = [i \in 1 .. size |-> CHOOSE id \in B : Cardinality(Above(B, id)) = i - 1]
  BY <1>0, <1>2, <1>3 DEF Rows, Below
<1>6. \A i \in 1 .. size : page[i] \in B /\ Cardinality(Above(B, page[i])) = i - 1
  <2> SUFFICES ASSUME NEW i \in 1 .. size
               PROVE  page[i] \in B /\ Cardinality(Above(B, page[i])) = i - 1
    OBVIOUS
  <2>0. i \in 1 .. Cardinality(B) BY <1>2, <1>4
  <2>1. \E id \in B : Cardinality(Above(B, id)) = i - 1 BY ONLY <1>1, <2>0, RanksTaken
  <2>2. page[i] = CHOOSE id \in B : Cardinality(Above(B, id)) = i - 1 BY <1>5
  <2> QED BY <2>1, <2>2
<1>7. page \in Seq(B) /\ Len(page) = size
  <2>1. page \in [1 .. size -> B] BY <1>5, <1>6
  <2> QED BY <1>4, <2>1
<1>8. /\ \A id \in B : id \in Nat /\ Cardinality(Above(B, id)) \in 0 .. n - 1
      /\ \A a, b \in B : a < b => Cardinality(Above(B, b)) < Cardinality(Above(B, a))
  BY <1>1, <1>2, RanksDiffer
<1>9. ASSUME NEW i \in 1 .. size, NEW j \in 1 .. size, i < j PROVE page[i] > page[j]
  <2>1. /\ page[i] \in Nat /\ page[j] \in Nat /\ page[i] \in B /\ page[j] \in B
        /\ Cardinality(Above(B, page[i])) = i - 1 /\ Cardinality(Above(B, page[j])) = j - 1
    BY <1>6, <1>8
  <2>2. page[i] # page[j] BY <1>9, <2>1
  <2>3. ~(page[i] < page[j]) BY <1>8, <1>9, <2>1
  <2> QED BY <2>1, <2>2, <2>3
<1>10. ASSUME NEW id \in B, Cardinality(Above(B, id)) + 1 <= size
       PROVE  page[Cardinality(Above(B, id)) + 1] = id
  <2>1. PICK j : j = Cardinality(Above(B, id)) + 1 OBVIOUS
  <2>2. j \in 1 .. size /\ Cardinality(Above(B, id)) = j - 1 BY <1>4, <1>8, <1>10, <2>1
  <2>3. page[j] \in B /\ Cardinality(Above(B, page[j])) = j - 1 BY <1>6, <2>2
  <2>4. ~(page[j] < id) /\ ~(id < page[j])
    <3>1. page[j] < id => j - 1 < j - 1 BY <1>8, <2>2, <2>3
    <3>2. id < page[j] => j - 1 < j - 1 BY <1>8, <2>2, <2>3
    <3> QED BY <1>4, <2>2, <3>1, <3>2
  <2>5. page[j] \in Nat /\ id \in Nat BY <1>8, <2>3
  <2> QED BY <2>1, <2>4, <2>5
<1>11. ASSUME NEW i \in 1 .. size, NEW id \in B, id >= page[i] PROVE \E j \in 1 .. i : page[j] = id
  <2>1. page[i] \in B /\ page[i] \in Nat /\ id \in Nat /\ Cardinality(Above(B, page[i])) = i - 1
    BY <1>6, <1>8
  <2>2. PICK r : r = Cardinality(Above(B, id)) OBVIOUS
  <2>3. r \in Nat /\ r <= i - 1
    <3>1. CASE id = page[i] BY <1>8, <2>1, <2>2, <3>1
    <3>2. CASE id > page[i]
      <4>1. page[i] < id BY <2>1, <3>2
      <4> QED BY <1>8, <2>1, <2>2, <4>1
    <3> QED BY <1>11, <2>1, <3>1, <3>2
  <2>4. r + 1 \in 1 .. i /\ r + 1 <= size BY <1>4, <2>3
  <2> QED BY <1>10, <2>2, <2>4
<1>12. ASSUME size < limit, NEW id \in B PROVE \E j \in 1 .. size : page[j] = id
  <2>1. PICK r : r = Cardinality(Above(B, id)) OBVIOUS
  <2>2. r + 1 \in 1 .. size BY <1>4, <1>8, <1>12, <2>1
  <2> QED BY <1>10, <2>1, <2>2
<1> QED BY <1>0, <1>4, <1>7, <1>9, <1>11, <1>12 DEF NewestFirst

\* Between two pages the reader has every row that stayed, down to its
\* cursor, and what it has is newest first.
PagingInv ==
  /\ drawn \in Nat /\ writing \subseteq 1 .. drawn /\ table \subseteq 1 .. drawn
  /\ reading \in BOOLEAN /\ stable \subseteq table
  /\ got \in Seq(Nat \ {0})
  /\ \A i, j \in 1 .. Len(got) : i < j => got[i] > got[j]
  /\ cursor = IF reading THEN got[Len(got)] ELSE 0
  /\ reading => got # << >> /\ \A id \in stable : id >= cursor => id \in ToSet(got)
  /\ ~reading => stable \subseteq ToSet(got)

\* ListAudit, ListEvents and the job list: the pages of one reading hold
\* every row that stayed in the table from its start to its end, and no row
\* twice, whatever was inserted and deleted between them.
THEOREM PagesCompleteAlways == PagingSpec => []PagesComplete
<1>1. PagingInit => PagingInv
  <2> SUFFICES ASSUME PagingInit PROVE PagingInv OBVIOUS
  <2>1. /\ drawn = 0 /\ writing = {} /\ table = {} /\ cursor = 0 /\ got = << >>
        /\ reading = FALSE /\ stable = {}
    BY DEF PagingInit
  <2>2. Len(got) = 0 /\ got \in Seq(Nat \ {0}) BY <2>1
  <2>3. \A i, j \in 1 .. Len(got) : i < j => got[i] > got[j] BY <2>2
  <2>4. writing \subseteq 1 .. drawn /\ table \subseteq 1 .. drawn BY <2>1
  <2>5. cursor = IF reading THEN got[Len(got)] ELSE 0 BY <2>1
  <2>6. reading \in BOOLEAN /\ ~reading /\ drawn \in Nat BY <2>1
  <2>7. stable \subseteq table /\ stable \subseteq ToSet(got) BY <2>1
  <2> QED BY <2>2, <2>3, <2>4, <2>5, <2>6, <2>7 DEF PagingInv
<1>2. PagingInv /\ [PagingNext]_pagingVars => PagingInv'
  <2> SUFFICES ASSUME PagingInv, [PagingNext]_pagingVars PROVE PagingInv' OBVIOUS
  <2>h. /\ drawn \in Nat /\ writing \subseteq 1 .. drawn /\ table \subseteq 1 .. drawn
        /\ reading \in BOOLEAN /\ stable \subseteq table /\ got \in Seq(Nat \ {0})
        /\ \A i, j \in 1 .. Len(got) : i < j => got[i] > got[j]
        /\ cursor = IF reading THEN got[Len(got)] ELSE 0
        /\ reading => got # << >> /\ \A id \in stable : id >= cursor => id \in ToSet(got)
        /\ ~reading => stable \subseteq ToSet(got)
    BY DEF PagingInv
  <2>1. CASE Draw
    <3>1. drawn' = drawn + 1 /\ writing' = writing \cup {drawn + 1}
          /\ UNCHANGED <<table, cursor, got, reading, stable>>
      BY <2>1 DEF Draw
    <3>2. 1 .. drawn \subseteq 1 .. drawn' /\ drawn + 1 \in 1 .. drawn' /\ drawn' \in Nat BY <2>h, <3>1
    <3>3. writing' \subseteq 1 .. drawn' /\ table' \subseteq 1 .. drawn' BY <2>h, <3>1, <3>2
    <3> QED BY <2>h, <3>1, <3>2, <3>3 DEF PagingInv
  <2>2. CASE InsertAudit BY <2>2, <2>h DEF InsertAudit, PagingInv
  <2>3. CASE DeleteAuditBefore
    <3>1. table' \subseteq table /\ stable' \subseteq stable /\ stable' \subseteq table'
          /\ UNCHANGED <<drawn, writing, cursor, got, reading>>
      BY <2>3 DEF DeleteAuditBefore
    <3> QED BY <2>h, <3>1 DEF PagingInv
  <2>4. CASE ListAudit
    <3>0. Limit \in Nat \ {0} BY PagingAssumption DEF PagingAssumption
    <3>1. PICK found : found = Rows(cursor, Limit + 1) OBVIOUS
    <3>2. PICK page : page = IF Len(found) > Limit THEN SubSeq(found, 1, Limit) ELSE found OBVIOUS
    <3>3. PICK base : base = IF reading THEN got ELSE << >> OBVIOUS
    <3>4. /\ reading' = (Len(found) > Limit)
          /\ cursor' = IF Len(found) > Limit THEN page[Limit] ELSE 0
          /\ got' = base \o page /\ stable' = IF reading THEN stable ELSE table
          /\ UNCHANGED <<drawn, writing, table>>
      BY <2>4, <3>1, <3>2, <3>3 DEF ListAudit
    <3>5. PICK B : B = {id \in table : cursor = 0 \/ id < cursor} OBVIOUS
    <3>6. /\ found \in Seq(B) /\ Len(found) <= Limit + 1
          /\ \A i, j \in 1 .. Len(found) : i < j => found[i] > found[j]
          /\ \A i \in 1 .. Len(found), id \in B : id >= found[i] => \E j \in 1 .. i : found[j] = id
          /\ Len(found) < Limit + 1 => \A id \in B : \E j \in 1 .. Len(found) : found[j] = id
      <4>0. drawn \in Int BY <2>h
      <4>1. IsFiniteSet(1 .. drawn) BY <4>0, FS_Interval
      <4>2. table \in SUBSET (1 .. drawn) BY <2>h
      <4>3. IsFiniteSet(table) BY <4>1, <4>2, FS_Subset
      <4>4. table \in SUBSET Nat BY <4>0, <4>2
      <4>5. Limit + 1 \in Nat \ {0} BY <3>0
      <4>6. NewestFirst(found, B, Limit + 1) BY <3>1, <3>5, <4>3, <4>4, <4>5, RowsNewestFirst DEF Below
      <4> QED BY <4>6 DEF NewestFirst
    <3>7. B \subseteq Nat \ {0}
      <4>1. \A id \in table : id \in Nat \ {0} BY <2>h
      <4> QED BY <3>5, <4>1
    <3>8. /\ page \in Seq(B) /\ \A i \in 1 .. Len(page) : page[i] = found[i]
          /\ Len(page) = IF Len(found) > Limit THEN Limit ELSE Len(found)
      <4>1. CASE Len(found) > Limit
        <5>1. \A i \in 1 .. Limit : found[i] \in B BY <3>0, <3>6, <4>1
        <5> QED BY <3>0, <3>2, <3>6, <4>1, <5>1, SubSeqProperties
      <4>2. CASE ~(Len(found) > Limit) BY <3>2, <3>6, <4>2
      <4> QED BY <4>1, <4>2
    <3>9. Len(found) \in Nat /\ Len(page) \in Nat /\ Len(page) <= Len(found) BY <3>0, <3>6, <3>8
    <3>10. base \in Seq(Nat \ {0}) /\ Len(base) \in Nat BY <2>h, <3>3
    <3>11. page \in Seq(Nat \ {0})
      <4>0. \A i \in 1 .. Len(page) : page[i] \in B BY <3>8
      <4>1. \A i \in 1 .. Len(page) : page[i] \in Nat \ {0} BY <3>7, <4>0
      <4>2. page \in [1 .. Len(page) -> Nat \ {0}] BY <3>8, <4>1
      <4> QED BY <3>9, <4>2
    <3>12. /\ got' \in Seq(Nat \ {0}) /\ Len(got') = Len(base) + Len(page)
           /\ \A i \in 1 .. Len(got') : got'[i] = IF i <= Len(base) THEN base[i] ELSE page[i - Len(base)]
      BY <3>4, <3>10, <3>11, ConcatProperties
    <3>13. /\ \A i \in 1 .. Len(base) : i \in 1 .. Len(got') /\ got'[i] = base[i]
           /\ \A i \in 1 .. Len(page) : Len(base) + i \in 1 .. Len(got') /\ got'[Len(base) + i] = page[i]
      <4>1. \A i \in 1 .. Len(page) : ~(Len(base) + i <= Len(base)) /\ Len(base) + i - Len(base) = i
        BY <3>9, <3>10
      <4>2. \A i \in 1 .. Len(base) : i \in 1 .. Len(got') /\ i <= Len(base) BY <3>9, <3>10, <3>12
      <4>3. \A i \in 1 .. Len(page) : Len(base) + i \in 1 .. Len(got') BY <3>9, <3>10, <3>12
      <4>4. \A i \in 1 .. Len(base) : got'[i] = base[i] BY <3>12, <4>2
      <4>5. \A i \in 1 .. Len(page) : got'[Len(base) + i] = page[i] BY <3>12, <4>1, <4>3
      <4> QED BY <4>2, <4>3, <4>4, <4>5
    <3>14. \A id : (\E i \in 1 .. Len(base) : base[i] = id) \/ (\E i \in 1 .. Len(page) : page[i] = id)
                   => id \in ToSet(got')
      <4>1. DOMAIN got' = 1 .. Len(got') BY <3>12
      <4>2. ToSet(got') = {got'[i] : i \in 1 .. Len(got')} BY <4>1 DEF ToSet
      <4> QED BY <3>13, <4>2
    <3>15. ASSUME NEW i \in 1 .. Len(got'), NEW j \in 1 .. Len(got'), i < j PROVE got'[i] > got'[j]
      <4>0. i \in 1 .. Len(base) + Len(page) /\ j \in 1 .. Len(base) + Len(page) BY <3>12
      <4>1. CASE j <= Len(base)
        <5>1. base = got /\ i \in 1 .. Len(got) /\ j \in 1 .. Len(got) BY <3>3, <3>10, <3>15, <4>1
        <5>2. got'[i] = got[i] /\ got'[j] = got[j] BY <3>13, <5>1
        <5> QED BY <2>h, <3>15, <5>1, <5>2
      <4>2. CASE i > Len(base)
        <5>0. i - Len(base) \in Int /\ j - Len(base) \in Int BY <3>10, <4>0
        <5>1. PICK a \in Int, b \in Int : a = i - Len(base) /\ b = j - Len(base) BY <5>0, Zenon
        <5>2. a \in 1 .. Len(page) /\ b \in 1 .. Len(page) /\ a < b
          BY ONLY <3>9, <3>10, <3>15, <4>0, <4>2, <5>1, a \in Int, b \in Int
        <5>3. got'[i] = page[a] /\ got'[j] = page[b]
          BY <3>9, <3>10, <3>12, <3>15, <4>2, <5>1
        <5>4. a \in 1 .. Len(found) /\ b \in 1 .. Len(found) BY <3>9, <5>2
        <5>5. found[a] > found[b] BY <3>6, <5>2, <5>4
        <5> QED BY <3>8, <5>2, <5>3, <5>5
      <4>3. CASE i <= Len(base) /\ j > Len(base)
        <5>1. base = got /\ reading /\ i \in 1 .. Len(got) BY <2>h, <3>3, <4>3
        <5>0. j - Len(base) \in Int BY <3>10, <4>0
        <5>2. PICK b \in Int : b = j - Len(base) BY <5>0, Zenon
        <5>3. b \in 1 .. Len(page) /\ got'[j] = page[b] BY <3>9, <3>10, <3>12, <3>15, <4>3, <5>2
        <5>4. page[b] \in B BY <3>8, <5>3
        <5>5. cursor = got[Len(got)] /\ Len(got) \in 1 .. Len(got) /\ cursor \in Nat \ {0}
          BY <2>h, <5>1
        <5>6. page[b] < cursor /\ page[b] \in Nat BY <3>5, <3>7, <5>4, <5>5
        <5>7. got[i] >= cursor /\ got[i] \in Nat
          <6>1. CASE i = Len(got) BY <5>1, <5>5, <6>1
          <6>2. CASE i < Len(got)
            <7>1. got[i] > got[Len(got)] BY <2>h, <5>1, <5>5, <6>2
            <7>2. got[i] \in Nat BY <2>h, <5>1
            <7> QED BY <5>5, <7>1, <7>2
          <6> QED BY <2>h, <5>1, <6>1, <6>2
        <5>8. got'[i] = got[i] BY <3>13, <5>1
        <5>9. PICK x, y, z \in Nat : x = got[i] /\ y = cursor /\ z = page[b]
          BY <5>5, <5>6, <5>7
        <5>10. x >= y /\ z < y BY <5>6, <5>7, <5>9
        <5>11. x > z BY <5>10
        <5> QED BY <5>3, <5>8, <5>9, <5>11
      <4> QED BY <3>9, <3>10, <3>12, <4>1, <4>2, <4>3
    <3>16. \A id \in stable' : id \in table /\ id \in Nat
      BY <2>h, <3>4
    <3>17. \A id \in stable' \ B : id \in ToSet(got')
      <4> SUFFICES ASSUME NEW id \in stable', id \notin B PROVE id \in ToSet(got') OBVIOUS
      <4>1. cursor # 0 /\ ~(id < cursor) BY <3>5, <3>16
      <4>2. reading /\ cursor \in Nat BY <2>h, <4>1
      <4>3. id \in stable /\ id >= cursor BY <3>4, <3>16, <4>1, <4>2
      <4>4. id \in ToSet(got) BY <2>h, <4>2, <4>3
      <4>5. PICK i \in 1 .. Len(got) : got[i] = id BY <2>h, <4>4 DEF ToSet
      <4> QED BY <3>3, <3>14, <4>2, <4>5
    <3>18. CASE Len(found) > Limit
      <4>1. Len(page) = Limit /\ Limit \in 1 .. Len(page) /\ Limit \in 1 .. Len(found)
        BY <3>0, <3>8, <3>9, <3>18
      <4>2. cursor' = page[Limit] /\ page[Limit] = found[Limit] BY <3>4, <3>8, <3>18, <4>1
      <4>3. got'[Len(got')] = page[Limit] BY <3>12, <3>13, <4>1
      <4>4. got' # << >> BY <3>0, <3>10, <3>12, <4>1
      <4>5. ASSUME NEW id \in stable', id >= cursor' PROVE id \in ToSet(got')
        <5>1. CASE id \notin B BY <3>17, <5>1
        <5>2. CASE id \in B
          <6>1. PICK j \in 1 .. Limit : found[j] = id BY <3>6, <4>1, <4>2, <4>5, <5>2
          <6>2. j \in 1 .. Len(page) /\ page[j] = id BY <3>8, <4>1, <6>1
          <6> QED BY <3>14, <6>2
        <5> QED BY <5>1, <5>2
      <4>6. stable' \subseteq table' BY <3>4, <3>16
      <4>7. reading' = TRUE BY <3>0, <3>4, <3>9, <3>18
      <4> QED BY <2>h, <3>4, <3>12, <3>15, <4>2, <4>3, <4>4, <4>5, <4>6, <4>7 DEF PagingInv
    <3>19. CASE ~(Len(found) > Limit)
      <4>1. Len(page) = Len(found) /\ Len(found) < Limit + 1 BY <3>0, <3>8, <3>9, <3>19
      <4>2. ASSUME NEW id \in stable' PROVE id \in ToSet(got')
        <5>1. CASE id \notin B BY <3>17, <5>1
        <5>2. CASE id \in B
          <6>1. PICK j \in 1 .. Len(found) : found[j] = id BY <3>6, <4>1, <5>2
          <6>2. j \in 1 .. Len(page) /\ page[j] = id BY <3>8, <4>1, <6>1
          <6> QED BY <3>14, <6>2
        <5> QED BY <5>1, <5>2
      <4>3. stable' \subseteq table' BY <3>4, <3>16
      <4>4. reading' = FALSE /\ cursor' = 0
        <5>1. (Len(found) > Limit) = FALSE BY <3>0, <3>9, <3>19
        <5>2. reading' = (Len(found) > Limit) /\ cursor' = IF Len(found) > Limit THEN page[Limit] ELSE 0
          BY <3>4
        <5>3. cursor' = 0 BY ONLY <5>2, <3>19
        <5>4. reading' = FALSE BY ONLY <5>1, <5>2
        <5> QED BY <5>3, <5>4
      <4> QED BY <2>h, <3>4, <3>12, <3>15, <4>2, <4>3, <4>4 DEF PagingInv
    <3> QED BY <3>18, <3>19
  <2>5. CASE UNCHANGED pagingVars BY <2>5 DEF pagingVars, PagingInv
  <2> QED BY <2>1, <2>2, <2>3, <2>4, <2>5 DEF PagingNext
<1>3. PagingInv => PagesComplete
  <2> SUFFICES ASSUME PagingInv PROVE PagesComplete OBVIOUS
  <2>1. got \in Seq(Nat \ {0}) /\ \A i, j \in 1 .. Len(got) : i < j => got[i] > got[j]
    BY DEF PagingInv
  <2>2. ASSUME NEW i \in 1 .. Len(got), NEW j \in 1 .. Len(got), got[i] = got[j] PROVE i = j
    <3>1. PICK x \in Nat : x = got[i] /\ x = got[j] BY <2>1, <2>2
    <3>2. ~(i < j) /\ ~(j < i)
      <4>1. i < j => x > x BY <2>1, <3>1
      <4>2. j < i => x > x BY <2>1, <3>1
      <4> QED BY <4>1, <4>2
    <3> QED BY <2>1, <3>2
  <2>3. DOMAIN got = 1 .. Len(got) BY <2>1
  <2> QED BY <2>2, <2>3 DEF PagingInv, PagesComplete, IsInjective
<1> QED BY <1>1, <1>2, <1>3, PTL DEF PagingSpec
=============================================================================
