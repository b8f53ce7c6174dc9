------------------------------ MODULE JobRunner ------------------------------
(***************************************************************************)
(* The background job runner (backend/internal/worker).                    *)
(*                                                                         *)
(* The jobs table survives restarts; the running map, the answer channels  *)
(* and the waiters do not.  Every method of Runner is one critical section *)
(* under Runner.mu and one action here.  A handler runs outside the lock,  *)
(* so its calls (Save, Ask, its return) interleave with Submit, Cancel,    *)
(* Resume, Answer, Wait, Prune and the dispatcher.                         *)
(***************************************************************************)
EXTENDS Integers, FiniteSets

CONSTANTS
  MaxJobs,       \* bound: jobs ever submitted
  Keys,          \* dedupe keys
  Unknown,       \* jobs of the store whose type no handler is registered for
  Askers,        \* jobs of a kind that asks questions
  Savers,        \* jobs of a kind that saves checkpoints
  Waiters,       \* goroutines that call Wait
  NoKey, NoJob,  \* absent values
  MaxRunning,    \* Config.MaxRunning
  MaxQueued,     \* worker.MaxQueued
  MaxQuestions,  \* bound: questions one job asks
  MaxSteps,      \* bound: checkpoints one job saves
  MaxStops       \* bound: shutdowns and crashes

Jobs == 1 .. MaxJobs

ASSUME RunnerAssumption ==
  /\ MaxJobs \in Nat /\ MaxRunning \in Nat /\ MaxQueued \in Nat
  /\ MaxQuestions \in Nat /\ MaxSteps \in Nat /\ MaxStops \in Nat
  /\ \E n \in 0 .. MaxJobs : Unknown = 1 .. n
  /\ Askers \cup Savers \subseteq Jobs
  /\ NoKey \notin Keys
  /\ NoJob \notin Jobs

VARIABLES
  \* the jobs table
  status,      \* "none" before the job is submitted and after it is deleted
  key,         \* dedupe_key
  checkpoint,  \* checkpoint_json, as the number of steps it stands for
  next,        \* the next job ID (ULIDs grow)
  \* memory of the runner
  exec,        \* where the job's handler is; "none" when not in Runner.running
  cause,       \* why the handler's context was cancelled
  question,    \* number of the last question the handler asked
  answer,      \* execution.answer: the question the buffered answer was for
  got,         \* what the last Ask went on with: a question's answer or "default"
  outcome,     \* what the handler returned
  cleanup,     \* Kind.Cleanup: "none", "done", or pending: "due" in execute
               \* itself, "detached" in a goroutine of Cancel
  stale,       \* interrupted jobs Prune listed and has not handled yet
  waiter,      \* each Wait call: its job, where it is and its channel
  node,        \* phase of Run
  stops        \* shutdowns and crashes so far

tableVars == <<status, key, checkpoint, next>>
execVars  == <<exec, cause, question, answer, got, outcome>>
vars == <<tableVars, execVars, cleanup, stale, waiter, node, stops>>

-----------------------------------------------------------------------------
(* Types *)

Final == {"completed", "failed", "canceled"}
Busy  == {"queued", "running", "waiting"}
Open  == Busy \cup {"interrupted"}

NoWait == [job |-> NoJob, at |-> "idle", closed |-> FALSE]

-----------------------------------------------------------------------------
(* Helpers *)

\* The statements on the jobs table.
ListJobsByStatus(st) == {j \in Jobs : status[j] = st}
CountQueuedJobs == Cardinality(ListJobsByStatus("queued"))
GetOpenJobByKey(k) == {j \in Jobs : k # NoKey /\ key[j] = k /\ status[j] \in Open}
ListFinishedJobsBefore == {j \in Jobs : status[j] \in Final /\ cleanup[j] \notin {"due", "detached"}}
UpdateJob(j, st) == status' = [status EXCEPT ![j] = st]

InsertJob(k) ==
  /\ status' = [status EXCEPT ![next] = "queued"]
  /\ key' = [key EXCEPT ![next] = k]
  /\ next' = next + 1

\* The row is deleted, with its history.
DeleteJob(j) ==
  /\ status' = [status EXCEPT ![j] = "none"]
  /\ key' = [key EXCEPT ![j] = NoKey]
  /\ checkpoint' = [checkpoint EXCEPT ![j] = 0]

\* Get: a job as it stands in memory, or its row; the runner saves every
\* change of a status under the lock, so the two agree on it.
Get(j) == status[j]

\* A bound: a stored job of an unknown type takes the place of another one.
LastJob == MaxJobs - Cardinality({j \in Unknown : status[j] # "none"})

\* A job waiting for an answer holds no slot.
Occupied == {j \in Jobs : exec[j] # "none" /\ status[j] # "waiting"}

\* finishLocked closes the channels of those who wait for the job.
WakeWaiters(j) ==
  waiter' = [w \in Waiters |->
               IF waiter[w].job = j THEN [waiter[w] EXCEPT !.closed = TRUE] ELSE waiter[w]]

\* The runner's process exists, so its methods can be called.  The API is
\* served while Run recovers.
Callable == node # "down"

\* The first cancel of a context decides its cause, and execute reads it as
\* soon as the handler returns.
CancelContext(js, why) ==
  cause' = [j \in Jobs |->
              IF j \in js /\ exec[j] \notin {"none", "returned"} /\ cause[j] = "none"
                THEN why ELSE cause[j]]

\* Cancel of a job that is queued or interrupted: it ends at once.
EndNow(j) ==
  /\ UpdateJob(j, "canceled")
  /\ cleanup' = IF j \in Unknown THEN cleanup ELSE [cleanup EXCEPT ![j] = "detached"]
  /\ WakeWaiters(j)
  /\ UNCHANGED cause

-----------------------------------------------------------------------------
(* Submit, Resume, Cancel, Answer *)

\* Mutant of Submit: an interrupted job of the key is not seen as open.
SubmitAgain(k) ==
  /\ Callable
  /\ {j \in GetOpenJobByKey(k) : status[j] \in Busy} = {}
  /\ CountQueuedJobs < MaxQueued
  /\ next <= LastJob
  /\ InsertJob(k)
  /\ UNCHANGED <<checkpoint, execVars, cleanup, stale, waiter, node, stops>>

requeueLocked(j) == UpdateJob(j, "queued")

\* Submit: join the open job of the key, resuming it if it was interrupted,
\* or insert a job unless the queue is full.
Submit(k) ==
  /\ Callable
  /\ \/ \E j \in GetOpenJobByKey(k) :
          status[j] = "interrupted" /\ requeueLocked(j) /\ UNCHANGED <<key, next>>
     \/ /\ GetOpenJobByKey(k) = {}
        /\ CountQueuedJobs < MaxQueued
        /\ next <= LastJob
        /\ InsertJob(k)
  /\ UNCHANGED <<checkpoint, execVars, cleanup, stale, waiter, node, stops>>

\* Resume: back in the queue.
Resume(j) ==
  /\ Callable
  /\ status[j] = "interrupted"
  /\ j \notin Unknown
  /\ requeueLocked(j)
  /\ UNCHANGED <<key, checkpoint, next, execVars, cleanup, stale, waiter, node, stops>>

\* Cancel under the lock: a running job has its context cancelled, a queued
\* or interrupted one ends.
CancelJob(j) ==
  \/ /\ exec[j] # "none"
     /\ CancelContext({j}, "canceled")
     /\ UNCHANGED <<status, cleanup, waiter>>
  \/ /\ exec[j] = "none"
     /\ status[j] \in {"queued", "interrupted"}
     /\ EndNow(j)

Cancel(j) ==
  /\ Callable
  /\ CancelJob(j)
  /\ UNCHANGED <<key, checkpoint, next, exec, question, answer, got, outcome, stale, node, stops>>

\* Answer: accepted while the job is waiting and the channel is empty.
Answer(j) ==
  /\ Callable
  /\ exec[j] # "none"
  /\ status[j] = "waiting"
  /\ answer[j] = 0
  /\ answer' = [answer EXCEPT ![j] = question[j]]
  /\ UNCHANGED <<tableVars, exec, cause, question, got, outcome, cleanup, stale, waiter, node,
                 stops>>

-----------------------------------------------------------------------------
(* The dispatcher *)

\* dispatch starts the oldest queued job while a slot is free.
Dispatch(j) ==
  /\ node = "up"
  /\ j \in ListJobsByStatus("queued") \ Unknown
  /\ \A i \in ListJobsByStatus("queued") : i >= j
  /\ Cardinality(Occupied) < MaxRunning
  /\ UpdateJob(j, "running")
  /\ exec' = [exec EXCEPT ![j] = "run"]
  /\ UNCHANGED <<key, checkpoint, next, cause, question, answer, got, outcome, cleanup, stale,
                 waiter, node, stops>>

\* A job whose type is unknown fails; nobody is woken and nothing cleaned.
DispatchUnknown(j) ==
  /\ node = "up"
  /\ j \in ListJobsByStatus("queued") \cap Unknown
  /\ \A i \in ListJobsByStatus("queued") : i >= j
  /\ Cardinality(Occupied) < MaxRunning
  /\ UpdateJob(j, "failed")
  /\ UNCHANGED <<key, checkpoint, next, execVars, cleanup, stale, waiter, node, stops>>

-----------------------------------------------------------------------------
(* A handler and its Run *)

\* Run.Save: a further step is done and its checkpoint stored.  Step and
\* Progress store the same row with no new checkpoint.
Save(j) ==
  /\ exec[j] = "run"
  /\ j \in Savers /\ checkpoint[j] < MaxSteps
  /\ checkpoint' = [checkpoint EXCEPT ![j] = @ + 1]
  /\ UNCHANGED <<status, key, next, execVars, cleanup, stale, waiter, node, stops>>

\* Mutant of Ask: an answer left over from an earlier question counts.
AskKeepsAnswer(j) ==
  /\ exec[j] = "run"
  /\ j \in Askers /\ question[j] < MaxQuestions
  /\ question' = [question EXCEPT ![j] = @ + 1]
  /\ UpdateJob(j, "waiting")
  /\ exec' = [exec EXCEPT ![j] = "asking"]
  /\ UNCHANGED <<key, checkpoint, next, cause, answer, got, outcome, cleanup, stale, waiter,
                 node, stops>>

\* Ask: drop a left-over answer, become waiting, free the slot.
Ask(j) ==
  /\ exec[j] = "run"
  /\ j \in Askers /\ question[j] < MaxQuestions
  /\ question' = [question EXCEPT ![j] = @ + 1]
  /\ answer' = [answer EXCEPT ![j] = 0]
  /\ UpdateJob(j, "waiting")
  /\ exec' = [exec EXCEPT ![j] = "asking"]
  /\ UNCHANGED <<key, checkpoint, next, cause, got, outcome, cleanup, stale, waiter, node, stops>>

\* Ask's select, outside the lock: an answer; the timeout, with or without
\* a default; or the context's end, which makes the handler return.
AskSelect(j) ==
  /\ exec[j] = "asking"
  /\ \/ /\ answer[j] # 0
        /\ got' = [got EXCEPT ![j] = answer[j]]
        /\ answer' = [answer EXCEPT ![j] = 0]
        /\ exec' = [exec EXCEPT ![j] = "answered"]
        /\ UNCHANGED outcome
     \/ /\ \E e \in {"answered", "unanswered"} : exec' = [exec EXCEPT ![j] = e]
        /\ got' = [got EXCEPT ![j] = 0]
        /\ UNCHANGED <<answer, outcome>>
     \/ /\ cause[j] # "none"
        /\ exec' = [exec EXCEPT ![j] = "returned"]
        /\ outcome' = [outcome EXCEPT ![j] = "error"]
        /\ UNCHANGED <<got, answer>>
  /\ UNCHANGED <<tableVars, cause, question, cleanup, stale, waiter, node, stops>>

\* The rest of Ask: running again; without an answer and a default the
\* handler returns ErrUnanswered.
AskResume(j) ==
  /\ exec[j] \in {"answered", "unanswered"}
  /\ UpdateJob(j, "running")
  /\ IF exec[j] = "answered"
       THEN /\ exec' = [exec EXCEPT ![j] = "run"]
            /\ UNCHANGED outcome
       ELSE /\ exec' = [exec EXCEPT ![j] = "returned"]
            /\ outcome' = [outcome EXCEPT ![j] = "stop"]
  /\ got' = [got EXCEPT ![j] = 0]
  /\ UNCHANGED <<key, checkpoint, next, cause, question, answer, cleanup, stale, waiter, node,
                 stops>>

\* The handler returns a result, an error (a panic is one) or ErrStopped.
HandlerReturn(j) ==
  /\ exec[j] = "run"
  /\ exec' = [exec EXCEPT ![j] = "returned"]
  /\ \E o \in {"ok", "error", "stop"} : outcome' = [outcome EXCEPT ![j] = o]
  /\ UNCHANGED <<tableVars, cause, question, answer, got, cleanup, stale, waiter, node, stops>>

\* How execute names the end of a job.
EndStatus(j) ==
  IF outcome[j] = "ok" THEN "completed"
  ELSE IF cause[j] = "shutdown" THEN "interrupted"
  ELSE IF cause[j] = "canceled" \/ outcome[j] = "stop" THEN "canceled"
  ELSE "failed"

\* The execution leaves Runner.running and is gone.
DropExecution(j) ==
  /\ exec' = [exec EXCEPT ![j] = "none"]
  /\ cause' = [cause EXCEPT ![j] = "none"]
  /\ question' = [question EXCEPT ![j] = 0]
  /\ answer' = [answer EXCEPT ![j] = 0]
  /\ got' = [got EXCEPT ![j] = 0]
  /\ outcome' = [outcome EXCEPT ![j] = "none"]

\* Mutant of Finish: the execution stays in the running map.
FinishStaysRunning(j) ==
  /\ exec[j] = "returned"
  /\ UpdateJob(j, EndStatus(j))
  /\ cleanup' = IF EndStatus(j) \in Final THEN [cleanup EXCEPT ![j] = "due"] ELSE cleanup
  /\ WakeWaiters(j)
  /\ UNCHANGED <<key, checkpoint, next, execVars, stale, node, stops>>

\* Mutant of Finish: only a job that completed or failed wakes its waiters.
FinishQuietly(j) ==
  /\ exec[j] = "returned"
  /\ UpdateJob(j, EndStatus(j))
  /\ DropExecution(j)
  /\ cleanup' = IF EndStatus(j) \in Final THEN [cleanup EXCEPT ![j] = "due"] ELSE cleanup
  /\ IF EndStatus(j) \in {"completed", "failed"} THEN WakeWaiters(j) ELSE UNCHANGED waiter
  /\ UNCHANGED <<key, checkpoint, next, stale, node, stops>>

\* Mutant of Finish: the checkpoint is dropped with the question.
FinishDropsCheckpoint(j) ==
  /\ exec[j] = "returned"
  /\ UpdateJob(j, EndStatus(j))
  /\ DropExecution(j)
  /\ checkpoint' = [checkpoint EXCEPT ![j] = 0]
  /\ cleanup' = IF EndStatus(j) \in Final THEN [cleanup EXCEPT ![j] = "due"] ELSE cleanup
  /\ WakeWaiters(j)
  /\ UNCHANGED <<key, next, stale, node, stops>>

\* execute after the handler: store the end, leave the running map, wake the
\* waiters; a final job is cleaned up afterwards.
Finish(j) ==
  /\ exec[j] = "returned"
  /\ UpdateJob(j, EndStatus(j))
  /\ DropExecution(j)
  /\ cleanup' = IF EndStatus(j) \in Final THEN [cleanup EXCEPT ![j] = "due"] ELSE cleanup
  /\ WakeWaiters(j)
  /\ UNCHANGED <<key, checkpoint, next, stale, node, stops>>

\* Kind.Cleanup, outside the lock.
Cleanup(j) ==
  /\ cleanup[j] \in {"due", "detached"}
  /\ cleanup' = [cleanup EXCEPT ![j] = "done"]
  /\ UNCHANGED <<tableVars, execVars, stale, waiter, node, stops>>

-----------------------------------------------------------------------------
(* Wait *)

\* Wait registers its channel first (its callers wait for a job they have just
\* submitted, so its type is known)...
WaitRegister(w, j) ==
  /\ Callable
  /\ j < next /\ j \notin Unknown
  /\ waiter[w].at = "idle"
  /\ waiter' = [waiter EXCEPT ![w] = [job |-> j, at |-> "registered", closed |-> FALSE]]
  /\ UNCHANGED <<tableVars, execVars, cleanup, stale, node, stops>>

\* ...then reads the job, and blocks while it is busy.
WaitGet(w) ==
  /\ waiter[w].at = "registered"
  /\ waiter' = [waiter EXCEPT ![w] =
       IF Get(waiter[w].job) \in Busy THEN [waiter[w] EXCEPT !.at = "blocked"] ELSE NoWait]
  /\ UNCHANGED <<tableVars, execVars, cleanup, stale, node, stops>>

\* The channel is closed.
WaitWake(w) ==
  /\ waiter[w].at = "blocked"
  /\ waiter[w].closed
  /\ waiter' = [waiter EXCEPT ![w] = NoWait]
  /\ UNCHANGED <<tableVars, execVars, cleanup, stale, node, stops>>

-----------------------------------------------------------------------------
(* Prune *)

\* Prune lists the interrupted jobs; those old enough are to be canceled.
PruneList ==
  /\ node = "up"
  /\ stale = {}
  /\ \E old \in SUBSET ListJobsByStatus("interrupted") \ {{}} : stale' = old
  /\ UNCHANGED <<tableVars, execVars, cleanup, waiter, node, stops>>

\* Prune cancels one of them, whatever became of it meanwhile.
PruneCancel(j) ==
  /\ j \in stale
  /\ stale' = stale \ {j}
  /\ IF exec[j] # "none" \/ status[j] \in {"queued", "interrupted"}
       THEN CancelJob(j) ELSE UNCHANGED <<status, cause, cleanup, waiter>>
  /\ UNCHANGED <<key, checkpoint, next, exec, question, answer, got, outcome, node, stops>>

\* Prune deletes a job that ended long ago (JobRetention is 30 days, so its
\* cleanup is over).
PruneDelete(j) ==
  /\ node = "up"
  /\ j \in ListFinishedJobsBefore
  /\ DeleteJob(j)
  /\ cleanup' = [cleanup EXCEPT ![j] = "none"]
  /\ UNCHANGED <<next, execVars, stale, waiter, node, stops>>

-----------------------------------------------------------------------------
(* The node *)

\* Mutant of Recover: only the jobs that were running are interrupted.
RecoverRunning ==
  /\ node = "recovering"
  /\ status' = [j \in Jobs |-> IF status[j] = "running" THEN "interrupted" ELSE status[j]]
  /\ node' = "up"
  /\ UNCHANGED <<key, checkpoint, next, execVars, cleanup, stale, waiter, stops>>

\* The process starts.
Boot ==
  /\ node = "down"
  /\ node' = "recovering"
  /\ UNCHANGED <<tableVars, execVars, cleanup, stale, waiter, stops>>

\* Recover: what was running or waiting is interrupted.
Recover ==
  /\ node = "recovering"
  /\ status' = [j \in Jobs |->
                  IF status[j] \in {"running", "waiting"} THEN "interrupted" ELSE status[j]]
  /\ node' = "up"
  /\ UNCHANGED <<key, checkpoint, next, execVars, cleanup, stale, waiter, stops>>

\* Run after ctx is done: every execution is cancelled with errShutdown.
Shutdown ==
  /\ node = "up"
  /\ stops < MaxStops
  /\ stops' = stops + 1
  /\ node' = "stopping"
  /\ CancelContext(Jobs, "shutdown")
  /\ UNCHANGED <<tableVars, exec, question, answer, got, outcome, cleanup, stale, waiter>>

\* The process ends; memory and pending cleanups are lost.
ForgetMemory ==
  /\ node' = "down"
  /\ exec' = [j \in Jobs |-> "none"]
  /\ cause' = [j \in Jobs |-> "none"]
  /\ question' = [j \in Jobs |-> 0]
  /\ answer' = [j \in Jobs |-> 0]
  /\ got' = [j \in Jobs |-> 0]
  /\ outcome' = [j \in Jobs |-> "none"]
  /\ cleanup' = [j \in Jobs |-> IF cleanup[j] = "done" THEN "done" ELSE "none"]
  /\ stale' = {}
  /\ waiter' = [w \in Waiters |-> NoWait]
  /\ UNCHANGED tableVars

\* wg.Wait returned, execute's own cleanups included, and the process exits.
Stop ==
  /\ node = "stopping"
  /\ \A j \in Jobs : exec[j] = "none" /\ cleanup[j] # "due"
  /\ ForgetMemory
  /\ UNCHANGED stops

Crash ==
  /\ node # "down"
  /\ stops < MaxStops
  /\ stops' = stops + 1
  /\ ForgetMemory

-----------------------------------------------------------------------------
(* Specification *)

\* A node started on a store that may hold a queued job of an unknown type.
Init ==
  /\ \E stored \in SUBSET Unknown :
       status = [j \in Jobs |-> IF j \in stored THEN "queued" ELSE "none"]
  /\ key = [j \in Jobs |-> NoKey]
  /\ checkpoint = [j \in Jobs |-> 0]
  /\ next = Cardinality(Unknown) + 1
  /\ exec = [j \in Jobs |-> "none"]
  /\ cause = [j \in Jobs |-> "none"]
  /\ question = [j \in Jobs |-> 0]
  /\ answer = [j \in Jobs |-> 0]
  /\ got = [j \in Jobs |-> 0]
  /\ outcome = [j \in Jobs |-> "none"]
  /\ cleanup = [j \in Jobs |-> "none"]
  /\ stale = {}
  /\ waiter = [w \in Waiters |-> NoWait]
  /\ node = "down"
  /\ stops = 0

Handler(j) == Ask(j) \/ AskSelect(j) \/ AskResume(j) \/ HandlerReturn(j) \/ Finish(j)

Next ==
  \/ \E k \in Keys \cup {NoKey} : Submit(k)
  \/ \E j \in Jobs :
       \/ Resume(j) \/ Cancel(j) \/ Answer(j) \/ Dispatch(j) \/ DispatchUnknown(j)
       \/ Save(j) \/ Handler(j) \/ Cleanup(j) \/ PruneCancel(j) \/ PruneDelete(j)
  \/ \E w \in Waiters : WaitGet(w) \/ WaitWake(w) \/ \E j \in Jobs : WaitRegister(w, j)
  \/ PruneList \/ Boot \/ Recover \/ Shutdown \/ Stop \/ Crash

Spec == Init /\ [][Next]_vars

\* Handlers end (their steps have timeouts and questions expire), the
\* dispatcher's ticker ticks, and goroutines run.
Fairness ==
  /\ \A j \in Jobs \ Unknown :
       WF_vars(AskSelect(j) \/ AskResume(j) \/ HandlerReturn(j) \/ Finish(j))
  /\ WF_vars(\E j \in Jobs : Dispatch(j) \/ DispatchUnknown(j))
  /\ WF_vars(\E j \in Jobs : Cleanup(j))
  /\ \A w \in Waiters : WF_vars(WaitGet(w) \/ WaitWake(w))
  /\ WF_vars(Boot \/ Recover \/ Stop)

FairSpec == Spec /\ Fairness

-----------------------------------------------------------------------------
(* Properties *)

\* Spec.Key: "jobs with the same Key share one open job", through any order of
\* submits, restarts, resumes and cancels.
OneOpenJobPerKey ==
  \A i, j \in Jobs :
    (i # j /\ key[i] = key[j] /\ key[i] # NoKey) => ~(status[i] \in Open /\ status[j] \in Open)

\* Once Recover is done the table and the running map agree: a job is stored
\* as running or waiting exactly while its handler is at work, so no row is
\* left that neither ends nor can be resumed.
TableMatchesMemory ==
  node \in {"up", "stopping"} =>
    \A j \in Jobs : exec[j] # "none" <=> status[j] \in {"running", "waiting"}

\* "An answer left over from an earlier question does not count": the answer
\* an Ask goes on with was given to the question it asked.
AnswerFitsQuestion ==
  \A j \in Jobs : exec[j] = "answered" => got[j] \in {0, question[j]}

\* A final status is never left, except by Prune's delete; the checkpoint of
\* a job that exists is never lost, so that an interrupted job goes on where
\* it was.
HistoryIsKept ==
  [][\A j \in Jobs :
       /\ status[j] \in Final => status'[j] \in {status[j], "none"}
       /\ status'[j] # "none" => checkpoint'[j] >= checkpoint[j]]_vars

\* Once Recover is done, a Wait returns: no wake-up is lost between the lookup
\* of the job and the channel, and a canceled or interrupted job wakes its
\* waiters too.
WaitReturnsOnceRecovered ==
  \A w \in Waiters :
    (waiter[w].at = "registered" /\ node \in {"up", "stopping"}) ~> waiter[w].at = "idle"

\* A queued job leaves the queue unless the node stops: no end of a job, no
\* open question and no cancel loses a slot.
QueueMoves ==
  \A j \in Jobs : (status[j] = "queued" /\ node = "up") ~> (status[j] # "queued" \/ node # "up")
=============================================================================
