--------------------------- MODULE JobRunner_proofs ---------------------------
(***************************************************************************)
(* Theorems about the job runner, for any number of jobs, keys, waiters    *)
(* and restarts and for any limits of the queue and of the slots.          *)
(***************************************************************************)
EXTENDS JobRunner, FiniteSetTheorems, TLAPS

-----------------------------------------------------------------------------
(* The inductive invariant *)

Statuses == {"none"} \cup Open \cup Final

\* What is stored of a job, and what the runner keeps of its execution.
RunnerTyped ==
  /\ status \in [Jobs -> Statuses]
  /\ key \in [Jobs -> Keys \cup {NoKey}]
  /\ checkpoint \in [Jobs -> Nat]
  /\ next \in Nat
  /\ exec \in [Jobs -> {"none", "run", "asking", "answered", "unanswered", "returned"}]
  /\ cause \in [Jobs -> {"none", "canceled", "shutdown"}]
  /\ question \in [Jobs -> Nat] /\ answer \in [Jobs -> Nat] /\ got \in [Jobs -> Nat]
  /\ outcome \in [Jobs -> {"none", "ok", "error", "stop"}]
  /\ node \in {"down", "recovering", "up", "stopping"}

\* A job ID that was not given out has no row.
RowsAreOld == \A j \in Jobs : j >= next => status[j] = "none"

\* No handler runs before Recover is done; afterwards the table and the
\* running map agree.
MemoryMatches ==
  /\ TableMatchesMemory
  /\ node \in {"down", "recovering"} => \A j \in Jobs : exec[j] = "none"

\* The buffered answer is to the last question.
AnswersFit ==
  /\ \A j \in Jobs : answer[j] \in {0, question[j]}
  /\ AnswerFitsQuestion

RunnerInv == RunnerTyped /\ RowsAreOld /\ MemoryMatches /\ AnswersFit /\ OneOpenJobPerKey

-----------------------------------------------------------------------------
(* Steps *)

\* What the calls that only touch memory leave as it was.
InMemory == UNCHANGED <<status, key, checkpoint, next>>

\* A handler at work has a row that says so, and nothing else has.
LEMMA AtWork ==
  ASSUME RunnerInv, NEW j \in Jobs
  PROVE  /\ exec[j] # "none" => status[j] \in {"running", "waiting"} /\ node \in {"up", "stopping"}
         /\ node \in {"up", "stopping"} /\ exec[j] = "none" => status[j] \notin {"running", "waiting"}
BY DEF RunnerInv, MemoryMatches, TableMatchesMemory, RunnerTyped

\* The row of one job changes and its key stays: when a closed job does not
\* become open, the open jobs of a key stay one.
LEMMA OneRow ==
  ASSUME RunnerInv, NEW j \in Jobs, NEW st \in Statuses, UpdateJob(j, st), UNCHANGED <<key, next>>,
         st \in Open => status[j] \in Open, status[j] # "none"
  PROVE  RowsAreOld' /\ OneOpenJobPerKey' /\ status' \in [Jobs -> Statuses]
BY DEF RunnerInv, RunnerTyped, UpdateJob, RowsAreOld, OneOpenJobPerKey

\* A step that leaves the rows alone keeps what is said of rows alone.
LEMMA SameRows ==
  ASSUME RunnerInv, UNCHANGED <<status, key, next>>
  PROVE  RowsAreOld' /\ OneOpenJobPerKey'
BY DEF RunnerInv, RowsAreOld, OneOpenJobPerKey

\* The execution of one job ends.
LEMMA Dropped ==
  ASSUME RunnerInv, NEW j \in Jobs, DropExecution(j)
  PROVE  /\ exec' \in [Jobs -> {"none", "run", "asking", "answered", "unanswered", "returned"}]
         /\ cause' \in [Jobs -> {"none", "canceled", "shutdown"}]
         /\ question' \in [Jobs -> Nat] /\ answer' \in [Jobs -> Nat] /\ got' \in [Jobs -> Nat]
         /\ outcome' \in [Jobs -> {"none", "ok", "error", "stop"}]
         /\ AnswersFit'
<1>1. /\ exec' \in [Jobs -> {"none", "run", "asking", "answered", "unanswered", "returned"}]
      /\ cause' \in [Jobs -> {"none", "canceled", "shutdown"}]
      /\ question' \in [Jobs -> Nat] /\ answer' \in [Jobs -> Nat] /\ got' \in [Jobs -> Nat]
      /\ outcome' \in [Jobs -> {"none", "ok", "error", "stop"}]
  BY DEF RunnerInv, RunnerTyped, DropExecution
<1>2. AnswersFit'
  BY DEF RunnerInv, RunnerTyped, DropExecution, AnswersFit, AnswerFitsQuestion
<1> QED BY <1>1, <1>2

\* Submit looks for an open job of the key in the step that inserts.
LEMMA SubmitStep == ASSUME RunnerInv, NEW k \in Keys \cup {NoKey}, Submit(k) PROVE RunnerInv'
<1>1. CASE \E j \in GetOpenJobByKey(k) :
             status[j] = "interrupted" /\ requeueLocked(j) /\ UNCHANGED <<key, next>>
  <2>1. PICK j \in Jobs : status[j] = "interrupted" /\ UpdateJob(j, "queued") /\ UNCHANGED <<key, next>>
    BY <1>1 DEF GetOpenJobByKey, requeueLocked
  <2>2. RowsAreOld' /\ OneOpenJobPerKey' /\ status' \in [Jobs -> Statuses]
    BY <2>1, OneRow DEF Statuses, Open, Busy
  <2>3. UNCHANGED <<checkpoint, execVars, node>> BY DEF Submit
  <2>4. MemoryMatches'
    BY <2>1, <2>3 DEF RunnerInv, RunnerTyped, UpdateJob, MemoryMatches, TableMatchesMemory, execVars
  <2>5. AnswersFit' /\ RunnerTyped'
    BY <2>1, <2>2, <2>3 DEF RunnerInv, RunnerTyped, AnswersFit, AnswerFitsQuestion, execVars
  <2> QED BY <2>2, <2>4, <2>5 DEF RunnerInv
<1>2. CASE GetOpenJobByKey(k) = {} /\ CountQueuedJobs < MaxQueued /\ next <= LastJob /\ InsertJob(k)
  <2>1. UNCHANGED <<checkpoint, execVars, node>> BY DEF Submit
  <2>2. /\ status' \in [Jobs -> Statuses] /\ key' \in [Jobs -> Keys \cup {NoKey}] /\ next' \in Nat
        /\ next' = next + 1
        /\ \A j \in Jobs : status'[j] = (IF j = next THEN "queued" ELSE status[j])
        /\ \A j \in Jobs : key'[j] = (IF j = next THEN k ELSE key[j])
    <3>1. /\ status \in [Jobs -> Statuses] /\ key \in [Jobs -> Keys \cup {NoKey}] /\ next \in Nat
          /\ "queued" \in Statuses
      BY DEF RunnerInv, RunnerTyped, Statuses, Open, Busy
    <3>2. /\ status' = [status EXCEPT ![next] = "queued"] /\ key' = [key EXCEPT ![next] = k]
          /\ next' = next + 1
      BY <1>2 DEF InsertJob
    <3>3. status' \in [Jobs -> Statuses] /\ \A j \in Jobs : status'[j] = (IF j = next THEN "queued" ELSE status[j])
      BY <3>1, <3>2
    <3>4. key' \in [Jobs -> Keys \cup {NoKey}] /\ \A j \in Jobs : key'[j] = (IF j = next THEN k ELSE key[j])
      BY <3>1, <3>2
    <3> QED BY <3>1, <3>2, <3>3, <3>4
  <2>3. \A j \in Jobs : k # NoKey /\ key[j] = k => status[j] \notin Open
    BY <1>2 DEF GetOpenJobByKey
  <2>4. OneOpenJobPerKey' BY <2>2, <2>3 DEF RunnerInv, OneOpenJobPerKey
  <2>5. RowsAreOld' BY <2>2 DEF RunnerInv, RunnerTyped, RowsAreOld, Jobs
  <2>6. MemoryMatches'
    <3>1. next \in Jobs => status[next] = "none" BY DEF RunnerInv, RunnerTyped, RowsAreOld
    <3> QED BY <2>1, <2>2, <3>1 DEF RunnerInv, MemoryMatches, TableMatchesMemory, execVars
  <2>7. AnswersFit' /\ RunnerTyped'
    BY <2>1, <2>2 DEF RunnerInv, RunnerTyped, AnswersFit, AnswerFitsQuestion, execVars
  <2> QED BY <2>4, <2>5, <2>6, <2>7 DEF RunnerInv
<1> QED BY <1>1, <1>2 DEF Submit

\* Resume queues an interrupted job, which was open before.
LEMMA ResumeStep == ASSUME RunnerInv, NEW j \in Jobs, Resume(j) PROVE RunnerInv'
<1>1. UpdateJob(j, "queued") /\ status[j] = "interrupted" /\ UNCHANGED <<key, next, checkpoint, execVars, node>>
  BY DEF Resume, requeueLocked
<1>2. RowsAreOld' /\ OneOpenJobPerKey' /\ status' \in [Jobs -> Statuses]
  BY <1>1, OneRow DEF Statuses, Open, Busy
<1>3. MemoryMatches'
  BY <1>1 DEF RunnerInv, RunnerTyped, UpdateJob, MemoryMatches, TableMatchesMemory, execVars
<1>4. AnswersFit' /\ RunnerTyped'
  BY <1>1, <1>2 DEF RunnerInv, RunnerTyped, AnswersFit, AnswerFitsQuestion, execVars
<1> QED BY <1>2, <1>3, <1>4 DEF RunnerInv

\* Cancel, and what Prune does of it.
LEMMA CancelStep ==
  ASSUME RunnerInv, NEW j \in Jobs, CancelJob(j),
         UNCHANGED <<key, checkpoint, next, exec, question, answer, got, outcome, node>>
  PROVE  RunnerInv'
<1>1. AnswersFit' BY DEF RunnerInv, AnswersFit, AnswerFitsQuestion
<1>2. CASE CancelContext({j}, "canceled") /\ UNCHANGED status
  <2>1. RowsAreOld' /\ OneOpenJobPerKey' BY <1>2, SameRows
  <2>2. MemoryMatches' BY <1>2 DEF RunnerInv, MemoryMatches, TableMatchesMemory
  <2>3. RunnerTyped' BY <1>2 DEF RunnerInv, RunnerTyped, CancelContext
  <2> QED BY <1>1, <2>1, <2>2, <2>3 DEF RunnerInv
<1>3. CASE exec[j] = "none" /\ status[j] \in {"queued", "interrupted"} /\ EndNow(j)
  <2>1. UpdateJob(j, "canceled") /\ UNCHANGED cause BY <1>3 DEF EndNow
  <2>2. RowsAreOld' /\ OneOpenJobPerKey' /\ status' \in [Jobs -> Statuses]
    BY <1>3, <2>1, OneRow DEF Statuses, Open, Busy, Final
  <2>3. MemoryMatches'
    BY <1>3, <2>1 DEF RunnerInv, RunnerTyped, UpdateJob, MemoryMatches, TableMatchesMemory
  <2>4. RunnerTyped' BY <2>1, <2>2 DEF RunnerInv, RunnerTyped
  <2> QED BY <1>1, <2>2, <2>3, <2>4 DEF RunnerInv
<1> QED BY <1>2, <1>3 DEF CancelJob

\* Answer buffers an answer to the question that is asked now.
LEMMA AnswerStep == ASSUME RunnerInv, NEW j \in Jobs, Answer(j) PROVE RunnerInv'
<1>1. RowsAreOld' /\ OneOpenJobPerKey' BY SameRows DEF Answer, tableVars
<1>2. MemoryMatches' BY DEF Answer, tableVars, RunnerInv, MemoryMatches, TableMatchesMemory
<1>3. RunnerTyped' BY DEF Answer, tableVars, RunnerInv, RunnerTyped
<1>4. AnswersFit' BY DEF Answer, RunnerInv, RunnerTyped, AnswersFit, AnswerFitsQuestion
<1> QED BY <1>1, <1>2, <1>3, <1>4 DEF RunnerInv

\* A queued job starts with its execution, or fails when no handler knows its
\* type.
LEMMA DispatchStep ==
  ASSUME RunnerInv, NEW j \in Jobs, Dispatch(j) \/ DispatchUnknown(j)
  PROVE  RunnerInv'
<1>1. status[j] = "queued" /\ node = "up" /\ UNCHANGED <<key, next, checkpoint, node>>
  BY DEF Dispatch, DispatchUnknown, ListJobsByStatus
<1>2. AnswersFit'
  BY DEF Dispatch, DispatchUnknown, RunnerInv, RunnerTyped, AnswersFit, AnswerFitsQuestion, execVars
<1>3. CASE Dispatch(j)
  <2>1. UpdateJob(j, "running") /\ exec' = [exec EXCEPT ![j] = "run"]
    BY <1>3 DEF Dispatch
  <2>2. RowsAreOld' /\ OneOpenJobPerKey' /\ status' \in [Jobs -> Statuses]
    BY <1>1, <2>1, OneRow DEF Statuses, Open, Busy
  <2>3. MemoryMatches'
    BY <1>1, <2>1 DEF RunnerInv, RunnerTyped, UpdateJob, MemoryMatches, TableMatchesMemory
  <2>4. RunnerTyped' BY <1>1, <1>3, <2>1, <2>2 DEF Dispatch, RunnerInv, RunnerTyped
  <2> QED BY <1>2, <2>2, <2>3, <2>4 DEF RunnerInv
<1>4. CASE DispatchUnknown(j)
  <2>1. UpdateJob(j, "failed") /\ UNCHANGED execVars BY <1>4 DEF DispatchUnknown
  <2>2. RowsAreOld' /\ OneOpenJobPerKey' /\ status' \in [Jobs -> Statuses]
    BY <1>1, <2>1, OneRow DEF Statuses, Open, Busy, Final
  <2>3. MemoryMatches'
    BY <1>1, <2>1 DEF RunnerInv, RunnerTyped, UpdateJob, MemoryMatches, TableMatchesMemory, execVars
  <2>4. RunnerTyped' BY <1>1, <2>1, <2>2 DEF RunnerInv, RunnerTyped, execVars
  <2> QED BY <1>2, <2>2, <2>3, <2>4 DEF RunnerInv
<1> QED BY <1>3, <1>4

\* Save writes the checkpoint of a handler at work.
LEMMA SaveStep == ASSUME RunnerInv, NEW j \in Jobs, Save(j) PROVE RunnerInv'
<1>1. RowsAreOld' /\ OneOpenJobPerKey' BY SameRows DEF Save
<1>2. MemoryMatches' BY DEF Save, execVars, RunnerInv, MemoryMatches, TableMatchesMemory
<1>3. RunnerTyped'
  <2>1. checkpoint' \in [Jobs -> Nat] BY DEF Save, RunnerInv, RunnerTyped
  <2>2. UNCHANGED <<status, key, next, execVars, node>> BY DEF Save
  <2> QED BY <2>1, <2>2 DEF execVars, RunnerInv, RunnerTyped
<1>4. AnswersFit' BY DEF Save, execVars, RunnerInv, AnswersFit, AnswerFitsQuestion
<1> QED BY <1>1, <1>2, <1>3, <1>4 DEF RunnerInv

\* A handler asks: a left-over answer is dropped, so that the next one is to
\* this question.
LEMMA AskStep == ASSUME RunnerInv, NEW j \in Jobs, Ask(j) PROVE RunnerInv'
<1>1. UpdateJob(j, "waiting") /\ status[j] \in {"running", "waiting"} /\ node \in {"up", "stopping"}
      /\ exec' = [exec EXCEPT ![j] = "asking"] /\ UNCHANGED <<key, next, checkpoint, node>>
  BY AtWork DEF Ask
<1>2. RowsAreOld' /\ OneOpenJobPerKey' /\ status' \in [Jobs -> Statuses]
  BY <1>1, OneRow DEF Statuses, Open, Busy
<1>3. MemoryMatches'
  BY <1>1 DEF RunnerInv, RunnerTyped, UpdateJob, MemoryMatches, TableMatchesMemory
<1>4. RunnerTyped'
  <2>1. question' \in [Jobs -> Nat] /\ answer' \in [Jobs -> Nat] BY DEF Ask, RunnerInv, RunnerTyped
  <2>2. UNCHANGED <<cause, got, outcome>> BY DEF Ask
  <2> QED BY <1>1, <1>2, <2>1, <2>2 DEF RunnerInv, RunnerTyped
<1>5. AnswersFit' BY DEF Ask, RunnerInv, RunnerTyped, AnswersFit, AnswerFitsQuestion
<1> QED BY <1>2, <1>3, <1>4, <1>5 DEF RunnerInv

\* What goes on outside the lock changes no row: the handler stays at work.
LEMMA OutsideStep ==
  ASSUME RunnerInv, NEW j \in Jobs, AskSelect(j) \/ HandlerReturn(j)
  PROVE  RunnerInv'
<1>1. RowsAreOld' /\ OneOpenJobPerKey' BY SameRows DEF AskSelect, HandlerReturn, tableVars
<1>2. PICK e \in {"answered", "unanswered", "returned"} : exec' = [exec EXCEPT ![j] = e]
  BY DEF AskSelect, HandlerReturn
<1>3. exec[j] # "none" /\ UNCHANGED <<status, node>> BY DEF AskSelect, HandlerReturn, tableVars
<1>4. MemoryMatches'
  BY <1>2, <1>3 DEF RunnerInv, RunnerTyped, MemoryMatches, TableMatchesMemory
<1>5. RunnerTyped'
  <2>1. /\ answer' \in [Jobs -> Nat] /\ got' \in [Jobs -> Nat]
        /\ outcome' \in [Jobs -> {"none", "ok", "error", "stop"}]
    BY DEF AskSelect, HandlerReturn, RunnerInv, RunnerTyped
  <2>2. UNCHANGED <<tableVars, cause, question, node>> BY DEF AskSelect, HandlerReturn
  <2> QED BY <1>2, <2>1, <2>2 DEF RunnerInv, RunnerTyped, tableVars
<1>6. AnswersFit'
  <2>1. CASE AskSelect(j)
    BY <2>1 DEF AskSelect, RunnerInv, RunnerTyped, AnswersFit, AnswerFitsQuestion
  <2>2. CASE HandlerReturn(j)
    BY <2>2 DEF HandlerReturn, RunnerInv, RunnerTyped, AnswersFit, AnswerFitsQuestion
  <2> QED BY <2>1, <2>2
<1> QED BY <1>1, <1>4, <1>5, <1>6 DEF RunnerInv

\* Ask goes on, answered or not, with its row set to running.
LEMMA AskResumeStep == ASSUME RunnerInv, NEW j \in Jobs, AskResume(j) PROVE RunnerInv'
<1>1. UpdateJob(j, "running") /\ status[j] \in {"running", "waiting"} /\ node \in {"up", "stopping"}
      /\ UNCHANGED <<key, next, checkpoint, node, cause, question, answer>>
  BY AtWork DEF AskResume
<1>2. PICK e \in {"run", "returned"} : exec' = [exec EXCEPT ![j] = e] BY DEF AskResume
<1>3. RowsAreOld' /\ OneOpenJobPerKey' /\ status' \in [Jobs -> Statuses]
  BY <1>1, OneRow DEF Statuses, Open, Busy
<1>4. MemoryMatches'
  BY <1>1, <1>2 DEF RunnerInv, RunnerTyped, UpdateJob, MemoryMatches, TableMatchesMemory
<1>5. RunnerTyped' BY <1>1, <1>2, <1>3 DEF AskResume, RunnerInv, RunnerTyped
<1>6. AnswersFit' BY <1>1, <1>2 DEF AskResume, RunnerInv, RunnerTyped, AnswersFit, AnswerFitsQuestion
<1> QED BY <1>3, <1>4, <1>5, <1>6 DEF RunnerInv

\* The end of a job is never a status of a job at work.
LEMMA EndStatusType ==
  ASSUME NEW j \in Jobs
  PROVE  EndStatus(j) \in {"completed", "interrupted", "canceled", "failed"}
BY DEF EndStatus

\* finish stores the outcome and drops the execution in one step.
LEMMA FinishStep == ASSUME RunnerInv, NEW j \in Jobs, Finish(j) PROVE RunnerInv'
<1>1. UpdateJob(j, EndStatus(j)) /\ status[j] \in {"running", "waiting"}
      /\ UNCHANGED <<key, next, checkpoint, node>> /\ DropExecution(j)
  BY AtWork DEF Finish
<1> DEFINE st == EndStatus(j)
<1>2. st \in {"completed", "interrupted", "canceled", "failed"} BY EndStatusType
<1> HIDE DEF st
<1>3. UpdateJob(j, st) BY <1>1 DEF st
<1>4. RowsAreOld' /\ OneOpenJobPerKey' /\ status' \in [Jobs -> Statuses]
  BY <1>1, <1>2, <1>3, OneRow DEF Statuses, Open, Busy, Final
<1>5. MemoryMatches'
  BY <1>1, <1>2, <1>3
  DEF RunnerInv, RunnerTyped, UpdateJob, DropExecution, MemoryMatches, TableMatchesMemory
<1>6. RunnerTyped' /\ AnswersFit' BY <1>1, <1>4, Dropped DEF RunnerInv, RunnerTyped
<1> QED BY <1>4, <1>5, <1>6 DEF RunnerInv

\* Prune deletes the rows of finished jobs only.
LEMMA PruneDeleteStep == ASSUME RunnerInv, NEW j \in Jobs, PruneDelete(j) PROVE RunnerInv'
<1>1. DeleteJob(j) /\ status[j] \in Final /\ UNCHANGED <<next, execVars, node>>
  BY DEF PruneDelete, ListFinishedJobsBefore
<1>2. /\ status' = [status EXCEPT ![j] = "none"] /\ key' = [key EXCEPT ![j] = NoKey]
      /\ checkpoint' = [checkpoint EXCEPT ![j] = 0]
  BY <1>1 DEF DeleteJob
<1>3. RunnerTyped' BY <1>1, <1>2 DEF RunnerInv, RunnerTyped, Statuses, execVars
<1>4. RowsAreOld' BY <1>1, <1>2 DEF RunnerInv, RunnerTyped, RowsAreOld
<1>5. OneOpenJobPerKey'
  BY <1>1, <1>2 DEF RunnerInv, RunnerTyped, OneOpenJobPerKey, Open, Busy
<1>6. MemoryMatches'
  BY <1>1, <1>2 DEF RunnerInv, RunnerTyped, MemoryMatches, TableMatchesMemory, execVars, Final
<1>7. AnswersFit' BY <1>1 DEF RunnerInv, AnswersFit, AnswerFitsQuestion, execVars
<1> QED BY <1>3, <1>4, <1>5, <1>6, <1>7 DEF RunnerInv

\* The node: a restart forgets the executions, and Recover names the rows
\* they have left.
LEMMA NodeStep ==
  ASSUME RunnerInv, Boot \/ Recover \/ Shutdown \/ Stop \/ Crash
  PROVE  RunnerInv'
<1>1. CASE Boot
  BY <1>1 DEF Boot, tableVars, execVars, RunnerInv, RunnerTyped, RowsAreOld, MemoryMatches,
              TableMatchesMemory, AnswersFit, AnswerFitsQuestion, OneOpenJobPerKey
<1>2. CASE Recover
  <2>1. /\ status' = [j \in Jobs |->
              IF status[j] \in {"running", "waiting"} THEN "interrupted" ELSE status[j]]
        /\ node = "recovering" /\ node' = "up" /\ UNCHANGED <<key, checkpoint, next, execVars>>
    BY <1>2 DEF Recover
  <2>2. RunnerTyped' BY <2>1 DEF RunnerInv, RunnerTyped, Statuses, Open, execVars
  <2>3. RowsAreOld' BY <2>1 DEF RunnerInv, RowsAreOld
  <2>4. \A j \in Jobs : status'[j] \in Open => status[j] \in Open BY <2>1 DEF Open, Busy
  <2>5. OneOpenJobPerKey' BY <2>1, <2>4 DEF RunnerInv, OneOpenJobPerKey
  <2>6. MemoryMatches' BY <2>1 DEF RunnerInv, MemoryMatches, TableMatchesMemory, execVars
  <2>7. AnswersFit' BY <2>1 DEF RunnerInv, AnswersFit, AnswerFitsQuestion, execVars
  <2> QED BY <2>2, <2>3, <2>5, <2>6, <2>7 DEF RunnerInv
<1>3. CASE Shutdown
  <2>1. /\ node = "up" /\ node' = "stopping" /\ CancelContext(Jobs, "shutdown")
        /\ UNCHANGED <<tableVars, exec, question, answer, got, outcome>>
    BY <1>3 DEF Shutdown
  <2>2. RunnerTyped' BY <2>1 DEF RunnerInv, RunnerTyped, CancelContext, tableVars
  <2>3. RowsAreOld' /\ OneOpenJobPerKey' BY <2>1, SameRows DEF tableVars
  <2>4. MemoryMatches' BY <2>1 DEF RunnerInv, MemoryMatches, TableMatchesMemory, tableVars
  <2>5. AnswersFit' BY <2>1 DEF RunnerInv, AnswersFit, AnswerFitsQuestion
  <2> QED BY <2>2, <2>3, <2>4, <2>5 DEF RunnerInv
<1>4. CASE ForgetMemory
  <2>1. RowsAreOld' /\ OneOpenJobPerKey' BY <1>4, SameRows DEF ForgetMemory, tableVars
  <2>2. RunnerTyped' BY <1>4 DEF ForgetMemory, RunnerInv, RunnerTyped, tableVars
  <2>3. MemoryMatches' BY <1>4 DEF ForgetMemory, MemoryMatches, TableMatchesMemory
  <2>4. AnswersFit' BY <1>4 DEF ForgetMemory, AnswersFit, AnswerFitsQuestion
  <2> QED BY <2>1, <2>2, <2>3, <2>4 DEF RunnerInv
<1> QED BY <1>1, <1>2, <1>3, <1>4 DEF Stop, Crash

\* Waiters, cleanups and the list of Prune are beside the rows and executions.
LEMMA BesideStep ==
  ASSUME RunnerInv, UNCHANGED <<tableVars, execVars, node>>
  PROVE  RunnerInv'
BY DEF tableVars, execVars, RunnerInv, RunnerTyped, RowsAreOld, MemoryMatches,
       TableMatchesMemory, AnswersFit, AnswerFitsQuestion, OneOpenJobPerKey

\* Every step of the job runner keeps the invariant.
LEMMA RunnerInvStep == RunnerInv /\ [Next]_vars => RunnerInv'
<1> SUFFICES ASSUME RunnerInv, [Next]_vars PROVE RunnerInv' OBVIOUS
<1>1. ASSUME NEW j \in Jobs,
             \/ Resume(j) \/ Cancel(j) \/ Answer(j) \/ Dispatch(j) \/ DispatchUnknown(j)
             \/ Save(j) \/ Handler(j) \/ Cleanup(j) \/ PruneCancel(j) \/ PruneDelete(j)
      PROVE  RunnerInv'
  <2>1. CASE Cancel(j) BY <2>1, CancelStep DEF Cancel
  <2>2. CASE PruneCancel(j)
    <3>1. CASE CancelJob(j) BY <2>2, <3>1, CancelStep DEF PruneCancel
    <3>2. CASE UNCHANGED <<status, cause, cleanup, waiter>>
      BY <2>2, <3>2, BesideStep DEF PruneCancel, tableVars, execVars
    <3> QED BY <2>2, <3>1, <3>2 DEF PruneCancel
  <2>3. CASE Cleanup(j) BY <2>3, BesideStep DEF Cleanup
  <2> QED BY <1>1, <2>1, <2>2, <2>3, ResumeStep, AnswerStep, DispatchStep, SaveStep, AskStep,
             OutsideStep, AskResumeStep, FinishStep, PruneDeleteStep DEF Handler
<1>2. ASSUME NEW w \in Waiters, WaitGet(w) \/ WaitWake(w) \/ \E j \in Jobs : WaitRegister(w, j)
      PROVE  RunnerInv'
  BY <1>2, BesideStep DEF WaitGet, WaitWake, WaitRegister
<1>3. CASE PruneList BY <1>3, BesideStep DEF PruneList
<1>4. CASE UNCHANGED vars BY <1>4, BesideStep DEF vars
<1> QED BY <1>1, <1>2, <1>3, <1>4, SubmitStep, NodeStep DEF Next

\* The job runner starts with rows of unknown types at most.
LEMMA RunnerInvInit == Init => RunnerInv
<1> SUFFICES ASSUME Init PROVE RunnerInv OBVIOUS
<1>1. PICK n \in 0 .. MaxJobs : Unknown = 1 .. n BY RunnerAssumption DEF RunnerAssumption
<1>2. n \in Nat /\ Cardinality(Unknown) = n
  BY <1>1, RunnerAssumption, FS_Interval DEF RunnerAssumption
<1>3. PICK stored \in SUBSET Unknown : status = [j \in Jobs |-> IF j \in stored THEN "queued" ELSE "none"]
  BY DEF Init
<1>4. RunnerTyped BY <1>2, <1>3 DEF Init, RunnerTyped, Statuses, Open, Busy
<1>5. RowsAreOld
  <2> SUFFICES ASSUME NEW j \in Jobs, j >= next PROVE status[j] = "none" BY DEF RowsAreOld
  <2>1. next = n + 1 /\ j \in Int BY <1>2 DEF Init, Jobs
  <2>2. j \notin stored BY <1>1, <1>2, <1>3, <2>1
  <2> QED BY <1>3, <2>2
<1>6. OneOpenJobPerKey BY DEF Init, OneOpenJobPerKey
<1>7. MemoryMatches BY DEF Init, MemoryMatches, TableMatchesMemory
<1>8. AnswersFit BY DEF Init, AnswersFit, AnswerFitsQuestion
<1> QED BY <1>4, <1>5, <1>6, <1>7, <1>8 DEF RunnerInv

\* Runner.Submit, Recover, finishLocked and the rest: the inductive invariant
\* of the runner, which the theorems below read.
THEOREM RunnerInvAlways == Spec => []RunnerInv
BY RunnerInvInit, RunnerInvStep, PTL DEF Spec

\* Spec.Key: jobs with the same key share one open job, through any order of
\* submits, restarts, resumes and cancels.
THEOREM OneOpenJobPerKeyAlways == Spec => []OneOpenJobPerKey
<1>1. RunnerInv => OneOpenJobPerKey BY DEF RunnerInv
<1> QED BY <1>1, RunnerInvAlways, PTL

\* Recover, dispatch and finishLocked: once Recover is done, a job is stored
\* as running or waiting exactly while its handler is at work.
THEOREM TableMatchesMemoryAlways == Spec => []TableMatchesMemory
<1>1. RunnerInv => TableMatchesMemory BY DEF RunnerInv, MemoryMatches
<1> QED BY <1>1, RunnerInvAlways, PTL

\* Ask and Answer: the answer an Ask goes on with was given to the question
\* it asked, however late the answer came.
THEOREM AnswerFitsQuestionAlways == Spec => []AnswerFitsQuestion
<1>1. RunnerInv => AnswerFitsQuestion BY DEF RunnerInv, AnswersFit
<1> QED BY <1>1, RunnerInvAlways, PTL

\* UpdateJob and DeleteJob: a final status is left only by Prune's delete, and
\* the checkpoint of a job that exists is never lost, through shutdowns,
\* crashes and resumes.
THEOREM HistoryIsKeptAlways == Spec => HistoryIsKept
<1> DEFINE Kept(j) == /\ status[j] \in Final => status'[j] \in {status[j], "none"}
                      /\ status'[j] # "none" => checkpoint'[j] >= checkpoint[j]
<1>1. ASSUME RunnerInv, [Next]_vars, NEW i \in Jobs PROVE Kept(i)
  <2>0. /\ checkpoint[i] \in Nat /\ status \in [Jobs -> Statuses] /\ checkpoint \in [Jobs -> Nat]
        /\ status[i] \in Final => exec[i] = "none"
    BY <1>1, AtWork DEF RunnerInv, RunnerTyped, Final
  <2>1. CASE UNCHANGED <<status, checkpoint>> BY <2>0, <2>1
  <2>2. ASSUME NEW j \in Jobs, NEW st, UpdateJob(j, st), UNCHANGED checkpoint, status[j] \notin Final
        PROVE  Kept(i)
    BY <2>0, <2>2 DEF UpdateJob
  <2>3. ASSUME NEW k \in Keys \cup {NoKey}, Submit(k) PROVE Kept(i)
    <3>1. CASE \E j \in GetOpenJobByKey(k) : status[j] = "interrupted" /\ requeueLocked(j)
      BY <2>2, <2>3, <3>1 DEF Submit, GetOpenJobByKey, requeueLocked, Final
    <3>2. CASE InsertJob(k)
      <4>1. i = next => status[i] = "none" BY <1>1 DEF RunnerInv, RunnerTyped, RowsAreOld, Jobs
      <4>2. status' = [status EXCEPT ![next] = "queued"] /\ UNCHANGED checkpoint
        BY <2>3, <3>2 DEF InsertJob, Submit
      <4> QED BY <2>0, <4>1, <4>2 DEF Final
    <3> QED BY <2>3, <3>1, <3>2 DEF Submit
  <2>4. ASSUME NEW j \in Jobs,
               \/ Resume(j) \/ Cancel(j) \/ Answer(j) \/ Dispatch(j) \/ DispatchUnknown(j)
               \/ Save(j) \/ Handler(j) \/ Cleanup(j) \/ PruneCancel(j) \/ PruneDelete(j)
        PROVE  Kept(i)
    <3>1. CASE Resume(j) BY <2>2, <3>1 DEF Resume, requeueLocked, Final
    <3>2. CASE CancelJob(j) /\ UNCHANGED checkpoint
      BY <2>1, <2>2, <3>2 DEF CancelJob, EndNow, Final
    <3>3. CASE Dispatch(j) \/ DispatchUnknown(j)
      <4>1. status[j] \notin Final BY <3>3 DEF Dispatch, DispatchUnknown, ListJobsByStatus, Final
      <4> QED BY <2>2, <3>3, <4>1 DEF Dispatch, DispatchUnknown
    <3>4. CASE Save(j)
      <4>1. UNCHANGED status /\ checkpoint' = [checkpoint EXCEPT ![j] = @ + 1] BY <3>4 DEF Save
      <4> QED BY <2>0, <4>1
    <3>5. CASE Ask(j) \/ AskResume(j) \/ Finish(j)
      <4>1. status[j] \notin Final BY <1>1, <3>5, AtWork DEF Ask, AskResume, Finish, Final
      <4> QED BY <2>2, <3>5, <4>1 DEF Ask, AskResume, Finish
    <3>6. CASE PruneDelete(j)
      <4>1. status' = [status EXCEPT ![j] = "none"] /\ checkpoint' = [checkpoint EXCEPT ![j] = 0]
        BY <3>6 DEF PruneDelete, DeleteJob
      <4> QED BY <2>0, <4>1
    <3>7. CASE Answer(j) \/ AskSelect(j) \/ HandlerReturn(j) \/ Cleanup(j)
      BY <2>1, <3>7 DEF Answer, AskSelect, HandlerReturn, Cleanup, tableVars
    <3>8. CASE PruneCancel(j) BY <2>1, <3>2, <3>8 DEF PruneCancel
    <3> QED BY <2>4, <3>1, <3>2, <3>3, <3>4, <3>5, <3>6, <3>7, <3>8 DEF Handler, Cancel
  <2>5. CASE Recover
    <3>1. status'[i] = (IF status[i] \in {"running", "waiting"} THEN "interrupted" ELSE status[i])
      BY <2>5 DEF Recover
    <3> QED BY <2>0, <2>5, <3>1 DEF Recover, Final
  <2>6. CASE \/ PruneList \/ Boot \/ Shutdown \/ Stop \/ Crash
             \/ \E w \in Waiters : WaitGet(w) \/ WaitWake(w) \/ \E j \in Jobs : WaitRegister(w, j)
    BY <2>1, <2>6 DEF PruneList, Boot, Shutdown, Stop, Crash, ForgetMemory, WaitGet, WaitWake,
                      WaitRegister, tableVars
  <2> QED BY <1>1, <2>1, <2>3, <2>4, <2>5, <2>6 DEF Next, vars, tableVars
<1>2. RunnerInv /\ [Next]_vars => [\A j \in Jobs : Kept(j)]_vars BY <1>1
<1> QED BY <1>2, RunnerInvAlways, PTL DEF Spec, HistoryIsKept
=============================================================================
