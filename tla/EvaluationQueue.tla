-------------------------- MODULE EvaluationQueue --------------------------
(***************************************************************************)
(* The evaluation tasks of one agent: a queue with a single slot, claimed  *)
(* by any replica, and an executor that replays the cases of its task one  *)
(* after the other in a loop detached from any request.                    *)
(*                                                                         *)
(* Admissions, claims, cancels and deletes run under the SCM mutation lock *)
(* and are single steps. The executor writes the task's status without     *)
(* looking at it, and its reads and writes are steps of their own. Whether *)
(* the agent has an SCM workspace, with a durable lease per task, and      *)
(* whether the database is SQLite, with a single process, is chosen        *)
(* initially, as is the length limit of the queue.                         *)
(***************************************************************************)
EXTENDS Integers, FiniteSets

CONSTANTS
    Inst,       \* instance ids of the replicas
    NumTasks,   \* bound: tasks created
    NumCases,   \* cases of the evaluation set
    Sites,      \* installations to consider: SCM or not, SQLite or not, and the value
                \* of EVALUATION_MAX_QUEUE_LENGTH (50 in the code)
    MaxFaults,  \* bound: crashes, shutdowns, and exceptions in an executor, a request or a
                \* promotion; a recovery may throw once per start
    None        \* SQL NULL

ASSUME ConstantsOK ==
    /\ Inst # {} /\ None \notin Inst \cup (1 .. NumTasks)
    /\ NumTasks \in Nat /\ NumCases \in Nat \ {0} /\ Sites \subseteq [scm : BOOLEAN, sqlite : BOOLEAN, limit : Nat]
    /\ MaxFaults \in Nat

Tasks == 1 .. NumTasks
Cases == 1 .. NumCases

VARIABLES
    site,    \* [scm, sqlite, limit]: what is being run
    task,    \* evaluation_tasks.status
    cancel,  \* evaluation_tasks.cancelRequestedAt is set
    result,  \* evaluation_results.status, by task and case: a case that completed,
             \* failed or was cancelled is settled
    lease,   \* scm_workload_leases of the tasks
    ex,      \* who works on a task: its executor, or the request that settles it
    nudge,   \* scheduleNextEvaluation calls that have not claimed yet
    phase,   \* the process: up, draining, fenced, down
    boot,    \* how often the instance id has been booted
    recov,   \* startup recovery: the tasks it still has to fail, and the one whose
             \* result rows come next
    faults,  \* exceptions, crashes and shutdowns so far
    \* History, for the properties only.
    lost,    \* a promotion or a recovery failed and was only logged
    scar     \* what happened to a task that the code does not repair: startup recovery
             \* took it for one of the process before, a fenced process broke its loop
             \* off, or the last settlement of its cases threw

procs == <<phase, boot>>
marks == <<lost, scar>>
vars == <<site, task, cancel, result, lease, ex, nudge, phase, boot, recov, faults, lost, scar>>

NoLease  == [phase |-> "none", owner |-> None, boot |-> 0]
Reserved == [phase |-> "reserved", owner |-> None, boot |-> 0]
Idle     == [pc |-> "none", at |-> None, case |-> 1, leased |-> FALSE]
NoRecovery == [on |-> FALSE, listed |-> FALSE, todo |-> {}, cur |-> None]

Terminal == {"completed", "failed", "cancelled"}
Running  == {t \in Tasks : task[t] = "running"}
Queued   == {t \in Tasks : task[t] = "queued"}
Exists(t) == task[t] \notin {"none", "deleted"}
Unfinished(t) == {c \in Cases : result[t][c] \in {"pending", "running"}}

Up(i) == phase[i] # "down"
\* Requests are answered and the sweeper ticks: both begin before startup recovery runs.
Serving(i) == phase[i] = "up"

hasLostHeartbeatOwnership(i) == phase[i] = "fenced"

Mistaken == {t \in Tasks : "mistaken" \in scar[t]}

Scar(T, what) == scar' = [t \in Tasks |-> IF t \in T THEN scar[t] \cup {what} ELSE scar[t]]

\* The executor or request that works on task t is in step pc.
At(t, pc) == ex[t].pc = pc
Goto(t, pc) == ex' = [ex EXCEPT ![t].pc = pc]

\* UPDATE evaluation_tasks SET status WHERE id = t
SetStatus(t, st) == task' = [task EXCEPT ![t] = IF Exists(t) THEN st ELSE @]

\* The result rows after the unfinished ones of task t are settled.
Settled(t) == [result EXCEPT ![t] = [c \in Cases |-> "settled"]]

Fault == faults < MaxFaults /\ faults' = faults + 1

-----------------------------------------------------------------------------
(* Requests.                                                               *)

\* The executor starts in the process that claimed the task.
Start(t, i) == ex' = [ex EXCEPT ![t] = [Idle EXCEPT !.pc = "start", !.at = i]]

\* Mutant: off by one.
QueueFull_OffByOne == Cardinality(Queued) > site.limit

QueueFull == Cardinality(Queued) >= site.limit

\* POST evaluation-tasks: one section counts the running tasks, inserts the task with
\* its result rows and reserves its lease.
Create(i) ==
    /\ Serving(i)
    /\ \E t \in Tasks :
        /\ task[t] = "none" /\ \A u \in 1 .. t - 1 : task[u] # "none"
        /\ \/ /\ Running = {}
              /\ task' = [task EXCEPT ![t] = "running"]
              /\ Start(t, i)
           \/ /\ Running # {} /\ ~QueueFull
              /\ task' = [task EXCEPT ![t] = "queued"]
              /\ UNCHANGED ex
        /\ lease' = [lease EXCEPT ![t] = IF site.scm THEN Reserved ELSE NoLease]
    /\ UNCHANGED <<site, cancel, result, nudge, procs, recov, faults, marks>>

\* releaseReservedScmWorkloadInMutation
ReleaseReserved(t) ==
    lease' = [lease EXCEPT ![t] = IF @.phase = "reserved" THEN NoLease ELSE @]

\* POST cancel of a queued task: no loop will see the flag, so the request settles.
CancelQueued(i, t) ==
    /\ Serving(i) /\ task[t] = "queued"
    /\ SetStatus(t, "cancelled")
    /\ cancel' = [cancel EXCEPT ![t] = TRUE]
    /\ ReleaseReserved(t)
    /\ ex' = [ex EXCEPT ![t] = [Idle EXCEPT !.pc = "request", !.at = i]]
    /\ UNCHANGED <<site, result, nudge, procs, recov, faults, marks>>

\* Mutant: the request writes the terminal status under the executor.
CancelRunning_Status(i, t) ==
    /\ Serving(i) /\ task[t] = "running" /\ ~cancel[t]
    /\ cancel' = [cancel EXCEPT ![t] = TRUE]
    /\ SetStatus(t, "cancelled")
    /\ UNCHANGED <<site, result, lease, ex, nudge, procs, recov, faults, marks>>

\* POST cancel of a running task sets the mark that its executor reads.
CancelRunning(i, t) ==
    /\ Serving(i) /\ task[t] = "running" /\ ~cancel[t]
    /\ cancel' = [cancel EXCEPT ![t] = TRUE]
    /\ UNCHANGED <<site, task, result, lease, ex, nudge, procs, recov, faults, marks>>

\* Mutant: the request leaves the cases of the queued task as they are.
SettleRequest_None(t) ==
    /\ At(t, "request")
    /\ ex' = [ex EXCEPT ![t] = Idle]
    /\ nudge' = [nudge EXCEPT ![ex[t].at] = TRUE]
    /\ UNCHANGED <<site, task, cancel, result, lease, procs, recov, faults, marks>>

\* The rest of the request: settleUnfinishedResults and the promotion.
SettleRequest(t) ==
    /\ At(t, "request")
    /\ result' = Settled(t)
    /\ ex' = [ex EXCEPT ![t] = Idle]
    /\ nudge' = [nudge EXCEPT ![ex[t].at] = TRUE]
    /\ UNCHANGED <<site, task, cancel, lease, procs, recov, faults, marks>>

\* The settlement throws: the client gets an error and the queue is not told.
RequestThrows(t) ==
    /\ At(t, "request")
    /\ Fault
    /\ ex' = [ex EXCEPT ![t] = Idle]
    /\ Scar({t}, "threw")
    /\ UNCHANGED <<site, task, cancel, result, lease, nudge, procs, recov, lost>>

\* DELETE is refused while the task runs; its result rows go with it.
Delete(i, t) ==
    /\ Serving(i) /\ Exists(t) /\ task[t] # "running"
    /\ task' = [task EXCEPT ![t] = "deleted"]
    /\ cancel' = [cancel EXCEPT ![t] = FALSE]
    /\ result' = Settled(t)
    /\ ReleaseReserved(t)
    /\ nudge' = [nudge EXCEPT ![i] = @ \/ task[t] = "queued"]
    /\ UNCHANGED <<site, ex, procs, recov, faults, marks>>

-----------------------------------------------------------------------------
(* Promotion.                                                              *)

\* Mutant: the claim does not count the running tasks.
scheduleNextEvaluation_NoCount(i) ==
    /\ Up(i) /\ nudge[i]
    /\ nudge' = [nudge EXCEPT ![i] = FALSE]
    /\ \/ /\ phase[i] = "up"
          /\ \E t \in Queued :
                /\ \A u \in Queued : t <= u
                /\ task' = [task EXCEPT ![t] = "running"]
                /\ Start(t, i)
       \/ /\ phase[i] # "up" \/ Queued = {}
          /\ UNCHANGED <<task, ex>>
    /\ UNCHANGED <<site, cancel, result, lease, procs, recov, faults, marks>>

\* claimQueuedTasks and runEvaluationTask. Paused during a shutdown.
scheduleNextEvaluation(i) ==
    /\ Up(i) /\ nudge[i]
    /\ nudge' = [nudge EXCEPT ![i] = FALSE]
    /\ \/ /\ phase[i] = "up" /\ Running = {}
          /\ \E t \in Queued :
                /\ \A u \in Queued : t <= u
                /\ task' = [task EXCEPT ![t] = "running"]
                /\ Start(t, i)
       \/ /\ phase[i] # "up" \/ Running # {} \/ Queued = {}
          /\ UNCHANGED <<task, ex>>
    /\ UNCHANGED <<site, cancel, result, lease, procs, recov, faults, marks>>

\* The claim throws; the error is logged and the call returns.
PromotionFails(i) ==
    /\ Up(i) /\ nudge[i]
    /\ Fault
    /\ nudge' = [nudge EXCEPT ![i] = FALSE]
    /\ lost' = TRUE
    /\ UNCHANGED <<site, task, cancel, result, lease, ex, procs, recov, scar>>

-----------------------------------------------------------------------------
(* executeTask.                                                            *)

\* Looks for the lease and activates it. The activation throws in a fenced process.
Activate(t) ==
    /\ At(t, "start")
    /\ LET i == ex[t].at
           refused == hasLostHeartbeatOwnership(i)
       IN
        /\ lease' = [lease EXCEPT ![t] =
                        IF @.phase = "reserved" /\ ~refused
                        THEN [phase |-> "active", owner |-> i, boot |-> boot[i]] ELSE @]
        /\ ex' = [ex EXCEPT ![t].pc = IF lease[t].phase # "none" /\ refused THEN "failing" ELSE "check",
                            ![t].leased = lease[t].phase # "none"]
    /\ UNCHANGED <<site, task, cancel, result, nudge, procs, recov, faults, marks>>

\* A task that was deleted, or cancelled before its start, is not replayed.
Check(t) ==
    /\ At(t, "check")
    /\ \/ ~Exists(t) /\ Goto(t, "release") /\ UNCHANGED task
       \/ Exists(t) /\ cancel[t] /\ SetStatus(t, "cancelled") /\ Goto(t, "settle")
       \/ Exists(t) /\ ~cancel[t] /\ Goto(t, "begin") /\ UNCHANGED task
    /\ UNCHANGED <<site, cancel, result, lease, nudge, procs, recov, faults, marks>>

\* The workspace is ready; the status is written whatever it is.
Begin(t) ==
    /\ At(t, "begin")
    /\ SetStatus(t, "running")
    /\ Goto(t, "loop")
    /\ UNCHANGED <<site, cancel, result, lease, nudge, procs, recov, faults, marks>>

shouldStopTask(t) == hasLostHeartbeatOwnership(ex[t].at) \/ ~Exists(t) \/ cancel[t]

SetResult(t, st) ==
    result' = [result EXCEPT ![t][ex[t].case] = IF Exists(t) THEN st ELSE @]

\* The next case, or the end of the loop.
Loop(t) ==
    /\ At(t, "loop")
    /\ \/ /\ ex[t].case \in Cases /\ ~shouldStopTask(t)
          /\ SetResult(t, "running")
          /\ Goto(t, "case")
          /\ UNCHANGED scar
       \/ /\ ex[t].case \notin Cases \/ shouldStopTask(t)
          /\ Goto(t, "ended")
          /\ Scar({u \in {t} : hasLostHeartbeatOwnership(ex[u].at)}, "fenced")
          /\ UNCHANGED result
    /\ UNCHANGED <<site, task, cancel, lease, nudge, procs, recov, faults, lost>>

\* replayCase asks once more before its first turn.
BeginCase(t) ==
    /\ At(t, "case")
    /\ \/ ~shouldStopTask(t) /\ Goto(t, "cli") /\ UNCHANGED result
       \/ /\ shouldStopTask(t)
          /\ SetResult(t, "settled")
          /\ ex' = [ex EXCEPT ![t].pc = "loop", ![t].case = @ + 1]
    /\ UNCHANGED <<site, task, cancel, lease, nudge, procs, recov, faults, marks>>

\* The last turn's CLI process has exited. A failing case does not end the task.
EndCase(t) ==
    /\ At(t, "cli")
    /\ SetResult(t, "settled")
    /\ ex' = [ex EXCEPT ![t].pc = "loop", ![t].case = @ + 1]
    /\ UNCHANGED <<site, task, cancel, lease, nudge, procs, recov, faults, marks>>

\* Reads the row and the cancel mark, before the terminal write.
ReadOutcome(t) ==
    /\ At(t, "ended")
    /\ Goto(t, IF ~Exists(t) THEN "release" ELSE IF cancel[t] THEN "cancelling" ELSE "completing")
    /\ UNCHANGED <<site, task, cancel, result, lease, nudge, procs, recov, faults, marks>>

\* The catch block writes the failure, over a terminal status too when it was the
\* settlement or the summary that threw.
WriteOutcome(t) ==
    /\ \/ At(t, "completing") /\ SetStatus(t, "completed") /\ Goto(t, "summary")
       \/ At(t, "cancelling") /\ SetStatus(t, "cancelled") /\ Goto(t, "settle")
       \/ ex[t].pc \in {"failing", "overruling"} /\ SetStatus(t, "failed") /\ Goto(t, "settlefailed")
    /\ UNCHANGED <<site, cancel, result, lease, nudge, procs, recov, faults, marks>>

\* In the try block, where the summary follows, and in the catch block.
settleUnfinishedResults(t) ==
    /\ \/ At(t, "settle") /\ Goto(t, "summary")
       \/ At(t, "settlefailed") /\ Goto(t, "release")
    /\ result' = Settled(t)
    /\ UNCHANGED <<site, task, cancel, lease, nudge, procs, recov, faults, marks>>

refreshTaskSummary(t) ==
    /\ At(t, "summary")
    /\ Goto(t, "release")
    /\ UNCHANGED <<site, task, cancel, result, lease, nudge, procs, recov, faults, marks>>

Attempting == {"start", "check", "begin", "loop", "case", "ended", "cancelling", "completing"}
Concluding == {"settle", "summary"}

\* Anything in the try block may throw: a statement, the agent's configuration, the
\* workspace, an activation against a sync. The catch block writes the failure, and
\* only the finally block runs when that write throws as well, or the settlement
\* after it.
Throw(t) ==
    /\ Fault
    /\ \/ /\ ex[t].pc \in Attempting
          /\ \E pc \in {"failing", "release"} :
                ex' = [ex EXCEPT ![t].pc = pc,
                                 ![t].leased = @ \/ (ex[t].pc = "start" /\ lease[t].phase # "none")]
          /\ UNCHANGED scar
       \/ /\ ex[t].pc \in Concluding
          /\ Goto(t, "overruling")
          /\ UNCHANGED scar
       \/ /\ ex[t].pc \in Concluding \cup {"settlefailed"}
          /\ Goto(t, "release")
          /\ Scar({t}, "threw")
    /\ UNCHANGED <<site, task, cancel, result, lease, nudge, procs, recov, lost>>

\* Mutant: the queue is not told of the free slot.
Release_NoNudge(t) ==
    /\ At(t, "release")
    /\ lease' = [lease EXCEPT ![t] = IF ex[t].leased THEN NoLease ELSE @]
    /\ ex' = [ex EXCEPT ![t] = Idle]
    /\ UNCHANGED <<site, task, cancel, result, nudge, procs, recov, faults, marks>>

\* The finally block: workspace cleanup (WorkspaceRemoval), the lease, the queue.
Release(t) ==
    /\ At(t, "release")
    /\ lease' = [lease EXCEPT ![t] = IF ex[t].leased THEN NoLease ELSE @]
    /\ ex' = [ex EXCEPT ![t] = Idle]
    /\ nudge' = [nudge EXCEPT ![ex[t].at] = TRUE]
    /\ UNCHANGED <<site, task, cancel, result, procs, recov, faults, marks>>

-----------------------------------------------------------------------------
(* Reaper and sweep.                                                       *)

isLeaseOwnerDead(l) == l.owner \in Inst /\ (~Up(l.owner) \/ l.boot < boot[l.owner])

\* registerScmEvaluationWorkload: from the start to the release.
isWorkloadLocallyActive(i, t) == ex[t].at = i /\ ex[t].pc \notin {"none", "request", "dead"}

\* Mutant: the reaper fails the task and leaves its result rows.
claimEvaluationForReap_TaskOnly(t) ==
    /\ SetStatus(t, "failed")
    /\ UNCHANGED result

\* One section: the status by CAS, and the result rows.
claimEvaluationForReap(t) ==
    /\ SetStatus(t, "failed")
    /\ result' = Settled(t)

Reap(i, t) ==
    /\ Serving(i) /\ ~isWorkloadLocallyActive(i, t)
    /\ lease[t].phase = "active" /\ isLeaseOwnerDead(lease[t])
    /\ task[t] \in {"running", "queued"}
    /\ claimEvaluationForReap(t)
    /\ ex' = [ex EXCEPT ![t] = IF At(t, "dead") THEN Idle ELSE @]
    /\ UNCHANGED <<site, cancel, lease, nudge, procs, recov, faults, marks>>

\* sweepOrphanedScmWorkloadLeases, which also tells the queue.
Sweep(i, t) ==
    /\ Serving(i) /\ ~isWorkloadLocallyActive(i, t)
    /\ \/ lease[t].phase = "reserved"
       \/ lease[t].phase = "active" /\ (lease[t].owner = i \/ isLeaseOwnerDead(lease[t]))
    /\ task[t] \in Terminal \cup {"deleted"}
    /\ lease' = [lease EXCEPT ![t] = NoLease]
    /\ nudge' = [nudge EXCEPT ![i] = TRUE]
    /\ UNCHANGED <<site, task, cancel, result, ex, procs, recov, faults, marks>>

-----------------------------------------------------------------------------
(* Processes.                                                              *)

\* Whoever was at a task is gone: its executor, a request, or the startup recovery
\* between its two writes.
Down(i) ==
    /\ phase' = [phase EXCEPT ![i] = "down"]
    /\ nudge' = [nudge EXCEPT ![i] = FALSE]
    /\ recov' = [recov EXCEPT ![i] = NoRecovery]
    /\ ex' = [t \in Tasks |-> IF ex[t].at = i \/ recov[i].cur = t
                             THEN [Idle EXCEPT !.pc = "dead"] ELSE ex[t]]

Crash(i) ==
    /\ Up(i) /\ Fault
    /\ Down(i)
    /\ UNCHANGED <<site, task, cancel, result, lease, boot, marks>>

\* SIGTERM, or the fail-stop of a fenced process: promotions pause at once.
gracefulShutdown(i) ==
    /\ phase[i] = "up" /\ Fault
    /\ \E ph \in {"draining", "fenced"} :
        /\ ph = "fenced" => ~site.sqlite
        /\ phase' = [phase EXCEPT ![i] = ph]
    /\ UNCHANGED <<site, task, cancel, result, lease, ex, nudge, boot, recov, marks>>

\* drainActiveEvaluationTasks has returned.
Exit(i) ==
    /\ phase[i] \in {"draining", "fenced"} /\ \A t \in Tasks : ex[t].at # i
    /\ Down(i)
    /\ UNCHANGED <<site, task, cancel, result, lease, boot, faults, marks>>

\* One process at a time on SQLite.
Boot(i) ==
    /\ ~Up(i)
    /\ site.sqlite => \A j \in Inst : ~Up(j)
    /\ phase' = [phase EXCEPT ![i] = "up"]
    /\ boot' = [boot EXCEPT ![i] = @ + 1]
    /\ recov' = [recov EXCEPT ![i] = [NoRecovery EXCEPT !.on = TRUE]]
    /\ UNCHANGED <<site, task, cancel, result, lease, ex, nudge, faults, marks>>

\* recoverEvaluationsOnStartup: SQLite lists the running tasks, those of this process
\* included that a request started before.
RecoverList(i) ==
    /\ Up(i) /\ recov[i].on /\ ~recov[i].listed
    /\ recov' = [recov EXCEPT ![i].listed = TRUE,
                              ![i].todo = IF site.sqlite THEN Running ELSE {}]
    /\ Scar({t \in recov'[i].todo : isWorkloadLocallyActive(i, t)}, "mistaken")
    /\ UNCHANGED <<site, task, cancel, result, lease, ex, nudge, procs, faults, lost>>

\* failTask: the status without a predicate, and then the result rows.
RecoverTask(i, t) ==
    /\ Up(i) /\ recov[i].cur = None /\ t \in recov[i].todo
    /\ SetStatus(t, "failed")
    /\ recov' = [recov EXCEPT ![i].todo = @ \ {t}, ![i].cur = t]
    /\ UNCHANGED <<site, cancel, result, lease, ex, nudge, procs, faults, marks>>

\* The recovered task's executor died with the process before this one.
RecoverResults(i) ==
    /\ Up(i) /\ recov[i].cur # None
    /\ LET t == recov[i].cur IN
        /\ result' = Settled(t)
        /\ lease' = [lease EXCEPT ![t] = NoLease]
        /\ ex' = [ex EXCEPT ![t] = IF At(t, "dead") THEN Idle ELSE @]
    /\ recov' = [recov EXCEPT ![i].cur = None]
    /\ UNCHANGED <<site, task, cancel, nudge, procs, faults, marks>>

\* Mutant: the queue of a restarted process is not promoted.
RecoverQueue_None(i) ==
    /\ Up(i) /\ recov[i].listed /\ recov[i].todo = {} /\ recov[i].cur = None
    /\ recov' = [recov EXCEPT ![i] = NoRecovery]
    /\ UNCHANGED <<site, task, cancel, result, lease, ex, nudge, procs, faults, marks>>

\* The queued tasks go through the scheduler.
RecoverQueue(i) ==
    /\ Up(i) /\ recov[i].listed /\ recov[i].todo = {} /\ recov[i].cur = None
    /\ recov' = [recov EXCEPT ![i] = NoRecovery]
    /\ nudge' = [nudge EXCEPT ![i] = @ \/ Queued # {}]
    /\ UNCHANGED <<site, task, cancel, result, lease, ex, procs, faults, marks>>

\* A statement of the recovery throws, which ends it: the error is logged.
RecoverThrows(i) ==
    /\ Up(i) /\ recov[i].on
    /\ recov' = [recov EXCEPT ![i] = NoRecovery]
    /\ lost' = TRUE
    /\ Scar({recov[i].cur} \cap Tasks, "threw")
    /\ UNCHANGED <<site, task, cancel, result, lease, ex, nudge, procs, faults>>

-----------------------------------------------------------------------------
\* On SQLite there is one process.
Init ==
    /\ site \in Sites
    /\ task = [t \in Tasks |-> "none"]
    /\ cancel = [t \in Tasks |-> FALSE]
    /\ result = [t \in Tasks |-> [c \in Cases |-> "pending"]]
    /\ lease = [t \in Tasks |-> NoLease]
    /\ ex = [t \in Tasks |-> Idle]
    /\ nudge = [i \in Inst |-> FALSE]
    /\ phase = [i \in Inst |-> IF site.sqlite /\ i # (CHOOSE j \in Inst : TRUE) THEN "down" ELSE "up"]
    /\ boot = [i \in Inst |-> 0]
    /\ recov = [i \in Inst |-> NoRecovery]
    /\ faults = 0
    /\ lost = FALSE /\ scar = [t \in Tasks |-> {}]

\* The detached loop of a task, and the request that settles a queued one.
Work(t) ==
    \/ Activate(t) \/ Check(t) \/ Begin(t) \/ Loop(t) \/ BeginCase(t) \/ EndCase(t)
    \/ ReadOutcome(t) \/ WriteOutcome(t) \/ settleUnfinishedResults(t)
    \/ refreshTaskSummary(t) \/ Release(t) \/ SettleRequest(t)

Recover(i) ==
    RecoverList(i) \/ (\E t \in Tasks : RecoverTask(i, t)) \/ RecoverResults(i) \/ RecoverQueue(i)

Next ==
    \/ \E i \in Inst :
        \/ Create(i)
        \/ \E t \in Tasks : CancelQueued(i, t) \/ CancelRunning(i, t) \/ Delete(i, t)
        \/ scheduleNextEvaluation(i) \/ PromotionFails(i)
        \/ \E t \in Tasks : Reap(i, t) \/ Sweep(i, t)
        \/ Crash(i) \/ gracefulShutdown(i) \/ Exit(i) \/ Boot(i)
        \/ Recover(i) \/ RecoverThrows(i)
    \/ \E t \in Tasks : Work(t) \/ Throw(t) \/ RequestThrows(t)

Spec == Init /\ [][Next]_vars

\* What a process does of itself, besides the loops.
Serve(i) ==
    \/ scheduleNextEvaluation(i) \/ Recover(i) \/ Exit(i)
    \/ \E t \in Tasks : Reap(i, t) \/ Sweep(i, t)

\* The loops run on, a CLI process has a hard timeout, sweeps are on a timer and the
\* container runtime starts a process again. Clients owe nothing.
ServerFairness ==
    /\ \A t \in Tasks : WF_vars(Work(t))
    /\ \A i \in Inst : WF_vars(Serve(i))

Fairness == ServerFairness /\ \A i \in Inst : WF_vars(Boot(i))

FairSpec == Spec /\ Fairness

\* A replica that left a rolling deployment does not come back.
RollingSpec == Spec /\ ServerFairness

-----------------------------------------------------------------------------
(* Properties.                                                             *)

Pcs == Attempting \cup Concluding \cup {"none", "request", "cli", "failing", "overruling",
                                        "settlefailed", "release", "dead"}

\* The shape of the state, with the bound of the queue (EVALUATION_MAX_QUEUE_LENGTH).
TypeOK ==
    /\ site \in Sites
    /\ task \in [Tasks -> {"none", "queued", "running", "deleted"} \cup Terminal]
    /\ cancel \in [Tasks -> BOOLEAN]
    /\ result \in [Tasks -> [Cases -> {"pending", "running", "settled"}]]
    /\ lease \in [Tasks -> [phase : {"none", "reserved", "active"},
                            owner : Inst \cup {None}, boot : Nat]]
    /\ ex \in [Tasks -> [pc : Pcs, at : Inst \cup {None}, case : 1 .. NumCases + 1,
                         leased : BOOLEAN]]
    /\ nudge \in [Inst -> BOOLEAN]
    /\ phase \in [Inst -> {"up", "draining", "fenced", "down"}]
    /\ boot \in [Inst -> Nat]
    /\ recov \in [Inst -> [on : BOOLEAN, listed : BOOLEAN, todo : SUBSET Tasks,
                         cur : Tasks \cup {None}]]
    /\ faults \in 0 .. MaxFaults
    /\ lost \in BOOLEAN /\ scar \in [Tasks -> SUBSET {"mistaken", "fenced", "threw"}]
    /\ Cardinality(Queued) <= site.limit

\* The tasks that replay their cases.
Replaying == {t \in Tasks : ex[t].pc \in {"begin", "loop", "case", "cli"}}

Slot == INSTANCE SlotPool WITH Members <- Tasks, Size <- 1, held <- Replaying \ Mistaken

\* "Evaluation runs strictly one task at a time per Agent" (evaluation-queue-db.ts:22):
\* over all replicas, crashes and restarts a task replays only while no other does.
\* A task that startup recovery failed under its executor does not count.
OneTaskPerAgent == Slot!Spec

EverySlot == INSTANCE SlotPool WITH Members <- Tasks, Size <- 1, held <- Replaying

\* The same of every task, which a recovery after the first request breaks.
EveryTaskAlone == EverySlot!Spec

\* A terminal status is final: neither the unconditional writes of a late executor nor
\* a reaper, a recovery or a request overwrites it with another one. But an executor
\* whose settlement or summary threw turns its own outcome into a failure, and a
\* recovery may fail a task under its executor.
TerminalIsFinal ==
    [][\A t \in Tasks \ Mistaken : task[t] \in Terminal
        => \/ task'[t] \in {task[t], "deleted"}
           \/ At(t, "overruling") /\ task'[t] = "failed"]_vars

\* The same without the exceptions.
TerminalIsAlwaysFinal ==
    [][\A t \in Tasks : task[t] \in Terminal => task'[t] \in {task[t], "deleted"}]_vars

\* Task t is terminal and has cases that nobody is about to settle; who was may have
\* died.
LeftOpen(t) ==
    /\ task[t] \in Terminal /\ Unfinished(t) # {}
    /\ ex[t].pc \notin {"request", "settle", "overruling", "settlefailed", "dead"}
    /\ \A i \in Inst : recov[i].cur # t

\* The case rows of a terminal task are settled, but for the three things the code does
\* not repair.
CasesSettle == \A t \in Tasks : LeftOpen(t) => scar[t] # {}

\* "Every terminal path of a task must call this" (routes/evaluation.ts:328): which a
\* settlement that throws breaks,
CasesAlwaysSettle == \A t \in Tasks : ~LeftOpen(t)

\* and where none does, a fenced process.
CasesSettleUnlessThrown == \A t \in Tasks : LeftOpen(t) => "threw" \in scar[t]

\* A task that holds the slot and has nobody who will settle it: its process died
\* before it activated a lease, or failed to write the failure.
Stranded ==
    \E t \in Tasks : task[t] = "running" /\ ex[t].pc \in {"none", "dead"} /\ lease[t].phase # "active"

\* A queued task is started, cancelled or deleted in the end, through crashes,
\* shutdowns and exceptions, unless a task is stranded in the slot or a promotion
\* failed and was only logged.
QueueDrains == \A t \in Tasks : task[t] = "queued" ~> (task[t] # "queued" \/ Stranded \/ lost)

\* What docs/agent/postgresql.md says: "a surviving replica automatically fails
\* workloads abandoned by a stopped instance".
AbandonedFail ==
    \A t \in Tasks : (task[t] = "running" /\ ex[t].pc = "dead") ~> (task[t] # "running")
=============================================================================
