------------------------------ MODULE RunQueue ------------------------------
(***************************************************************************)
(* The run queue of one agent, shared by every replica of the API server.  *)
(*                                                                         *)
(* A run is admitted, queued, promoted, executed, cancelled, retried and   *)
(* recovered through four pieces of state that no single lock covers:      *)
(*   - the row of the run in the database (status, owner);                 *)
(*   - its durable SCM workload lease in the database (reserved, active);  *)
(*   - the execution lease in the memory of one replica;                   *)
(*   - the executor itself, an async function with a CLI child process.    *)
(* An action is one database transaction together with the synchronous     *)
(* code around it; what the code does after its next await is a later      *)
(* action.                                                                 *)
(***************************************************************************)
EXTENDS Integers, FiniteSets

CONSTANTS
    Inst,           \* replicas, named by their processInstanceId
    Clients,        \* HTTP requests that can be in flight at the same time
    NumRuns,        \* runs of the agent; run n is created before run n+1
    MaxTurns,       \* bound: executions one run row can host
    MaxConcurrency, \* agents.maxConcurrency
    MaxQueue,       \* MAX_QUEUE_LENGTH
    MaxBoots,       \* bound: restarts of each replica, which keep its instance id
    Scm,            \* agents.workspaceType = 'scm' (a temp agent takes no lease)
    Sqlite,         \* one process on SQLite, else replicas on PostgreSQL
    Ops,            \* the operations the workload uses, a subset of AllOps
    None            \* SQL NULL

\* "listed" lets a client execute a pending run it found in the list of runs while
\* the request that created the run is still being admitted.
AllOps == {"submit", "create", "cancel", "retry", "turn", "execute", "listed", "delete",
           "crash", "dbfault"}

ASSUME ConstantsOK ==
    /\ NumRuns \in Nat /\ MaxTurns \in Nat
    /\ MaxConcurrency \in Nat \ {0} /\ MaxQueue \in Nat /\ MaxBoots \in Nat
    /\ Scm \in BOOLEAN /\ Sqlite \in BOOLEAN
    /\ Ops \subseteq AllOps
    /\ None \notin Inst
    /\ Sqlite => \A i, j \in Inst : i = j

VARIABLES
    run,      \* runs table: status, owner, whether updatedAt predates the
              \* owner's latest boot, whether result holds a chatId
    lease,    \* scm_workload_leases table: at most one row per run
    step,     \* run_steps table: the step of each turn of each run
    req,      \* HTTP requests between their first write and queue admission
    ex,       \* executors: where each turn of each run is
    turns,    \* executions each run row has hosted
    mem,      \* leasesByRunId of each replica
    settling, \* settlingRunIds of each replica: durable releases in flight
    reap,     \* a reaper's candidate between its liveness read and its CAS
    up,       \* the replica's process is running
    beating,  \* its instance_heartbeats row is fresh
    boots,    \* restarts of each replica so far
    recov     \* recoverOnStartup of the SQLite process: the list it works through,
              \* and the runs that are older than the process

rows == <<run, lease, step>>
vars == <<run, lease, step, req, ex, turns, mem, settling, reap, up, beating, boots, recov>>

Runs  == 1 .. NumRuns
Turns == 1 .. MaxTurns

Terminal == {"completed", "failed", "cancelled"}
Statuses == {"absent", "pending", "queued", "running", "deleted"} \cup Terminal

\* "admitted": the route handler prepares the turn. "ready": executeChatRun
\* prepares it. "executing": POST /runs/:id/execute before its activation. "cli":
\* the child process. "cleanup": the row is settled, the workspace is not.
Pcs == {"none", "admitted", "ready", "executing", "cli", "cleanup"}

NoLease == [phase |-> "none", owner |-> None, old |-> FALSE]
NoReq   == [kind |-> "none", at |-> None, run |-> 0, prior |-> "absent"]
NoReap  == [kind |-> "none", run |-> 0, owner |-> None]
Idle    == [pc |-> "none", at |-> None, back |-> "none"]
NoRecovery == [phase |-> "off", todo |-> {}, before |-> {}]

-----------------------------------------------------------------------------
(* Views of the state that the code computes.                              *)

Exists(r) == run[r].st \notin {"absent", "deleted"}

\* Mutant: the durable leases of other replicas are not counted.
Occupied_LocalView(i) == {r \in Runs : run[r].st = "running"} \cup mem[i]

\* The running rows, the execution leases of this process and the active durable
\* leases of rows that still exist, by run id.
Occupied(i) ==
    {r \in Runs : run[r].st = "running"}
    \cup mem[i]
    \cup {r \in Runs : lease[r].phase = "active" /\ Exists(r)}

countOccupiedRunSlots(i) == Cardinality(Occupied(i))

\* Mutant: off by one.
HasFreeSlot_OffByOne(i) == countOccupiedRunSlots(i) <= MaxConcurrency

HasFreeSlot(i) == countOccupiedRunSlots(i) < MaxConcurrency

Queued == {r \in Runs : run[r].st = "queued"}

getOldestQueuedRun(r) == r \in Queued /\ \A q \in Queued : r <= q

\* Mutant: the heartbeat is not consulted.
isInstanceOwnerDead_Always(owner, old) == TRUE

\* Mutant: only a reboot proves a death.
isInstanceOwnerDead_BootOnly(owner, old) == old

\* A stopped heartbeat, or a boot after the mark was written.
isInstanceOwnerDead(owner, old) == ~beating[owner] \/ old

isLeaseOwnerDead(l) == l.owner = None \/ isInstanceOwnerDead(l.owner, l.old)

\* Mutant: the durable release in flight is forgotten.
isRunExecutionSettling_LeaseOnly(i, r) == r \in mem[i]

isRunExecutionSettling(i, r) == r \in mem[i] \cup settling[i]

-----------------------------------------------------------------------------
(* Row writes.                                                             *)

\* Every UPDATE of a run sets updatedAt, so its mark is no longer old.
Row(st, owner, chat) == [st |-> st, owner |-> owner, old |-> FALSE, chat |-> chat]

\* completed stores result.chatId, failed replaces the result by an error, and
\* the other statuses leave the result alone.
Settle(r, st) ==
    run' = [run EXCEPT ![r] = Row(st, @.owner, st = "completed" \/ (st # "failed" /\ @.chat))]

\* A claim for execution stamps the owner.
Claimed(i, chat) == Row("running", i, chat)

\* withScmWorkloadAdmission keeps a reservation the run already has.
reserved(l) == IF l.phase = "none" THEN [NoLease EXCEPT !.phase = "reserved"] ELSE l

\* activateScmWorkloadInMutation throws for a lease active on another instance;
\* without a lease only a temp agent goes on.
CanActivate(i, l) ==
    IF l.phase = "none" THEN ~Scm ELSE (l.phase = "active" => l.owner = i)

\* Mutant: activation writes a phase the schema does not have.
activated_WrongPhase(i, l) ==
    IF l.phase = "reserved" THEN [phase |-> "running", owner |-> i, old |-> FALSE] ELSE l

\* A lease already active on this instance is left as it stands.
activated(i, l) ==
    IF l.phase = "reserved" THEN [phase |-> "active", owner |-> i, old |-> FALSE] ELSE l

\* completeExecutionLease: drop the entry and start the durable release.
completeExecutionLease(i, r) ==
    /\ mem' = [mem EXCEPT ![i] = @ \ {r}]
    /\ settling' = [settling EXCEPT ![i] = IF r \in mem[i] THEN @ \cup {r} ELSE @]

CanHost(r) == turns[r] < MaxTurns

\* The transaction has committed: reserveExecutionLease, and the executor starts.
StartTurn(i, r, pc, back) ==
    /\ mem' = [mem EXCEPT ![i] = @ \cup {r}]
    /\ ex' = [ex EXCEPT ![r][turns[r] + 1] = [pc |-> pc, at |-> i, back |-> back]]
    /\ turns' = [turns EXCEPT ![r] = @ + 1]

Move(r, t, pc) == ex' = [ex EXCEPT ![r][t].pc = pc]
Stop(r, t) == ex' = [ex EXCEPT ![r][t] = Idle]
At(i, r, t, pc) == up[i] /\ ex[r][t].pc = pc /\ ex[r][t].at = i

SetStep(r, t, s) == step' = [step EXCEPT ![r][t] = s]

\* Mutant: the step of a cancelled run is left as it is.
cancelLateStep_Skipped(r, t) == UNCHANGED step

\* The step of a run that was cancelled before the step was inserted.
cancelLateStep(r, t) == SetStep(r, t, "closed")

\* UPDATE run_steps ... WHERE runId = r AND status = 'running'
CloseSteps(r) ==
    step' = [step EXCEPT ![r] = [t \in Turns |-> IF @[t] = "running" THEN "closed" ELSE @[t]]]

-----------------------------------------------------------------------------
Init ==
    /\ run = [r \in Runs |-> Row("absent", None, FALSE)]
    /\ lease = [r \in Runs |-> NoLease]
    /\ step = [r \in Runs |-> [t \in Turns |-> "none"]]
    /\ req = [c \in Clients |-> NoReq]
    /\ ex = [r \in Runs |-> [t \in Turns |-> Idle]]
    /\ turns = [r \in Runs |-> 0]
    /\ mem = [i \in Inst |-> {}]
    /\ settling = [i \in Inst |-> {}]
    /\ reap = [i \in Inst |-> NoReap]
    /\ up = [i \in Inst |-> TRUE]
    /\ beating = [i \in Inst |-> TRUE]
    /\ boots = [i \in Inst |-> 0]
    /\ recov = NoRecovery

fleet == <<reap, up, beating, boots, recov>>

-----------------------------------------------------------------------------
(* Requests and queue admission.                                           *)

Request(c, i, r, kind, prior) ==
    /\ up[i] /\ req[c] = NoReq
    /\ req' = [req EXCEPT ![c] = [kind |-> kind, at |-> i, run |-> r, prior |-> prior]]

\* Rows are created in index order.
NextRow(r) == run[r].st = "absent" /\ \A q \in Runs : q < r => run[q].st # "absent"

\* POST /runs: a pending row that waits for its POST /runs/:id/execute.
Create(r) ==
    /\ "create" \in Ops /\ NextRow(r)
    /\ run' = [run EXCEPT ![r] = Row("pending", None, FALSE)]
    /\ UNCHANGED <<lease, step, req, ex, turns, mem, settling, fleet>>

\* The other routes and triggers insert the row as pending and go on to admission.
Submit(c, i, r) ==
    /\ "submit" \in Ops /\ CanHost(r) /\ NextRow(r)
    /\ Request(c, i, r, "new", "deleted")
    /\ run' = [run EXCEPT ![r] = Row("pending", None, FALSE)]
    /\ UNCHANGED <<lease, step, ex, turns, mem, settling, fleet>>

\* The CAS of claimRunForRetry and the guard in front of it.
CanRetry(i, r) == run[r].st = "failed" /\ ~isRunExecutionSettling(i, r)

\* POST /runs/:id/rerun of a failed run: claimRunForRetry.
Retry(c, i, r) ==
    /\ "retry" \in Ops /\ CanHost(r)
    /\ CanRetry(i, r)
    /\ Request(c, i, r, "retry", "failed")
    /\ run' = [run EXCEPT ![r] = Row("pending", None, FALSE)]
    /\ UNCHANGED <<lease, step, ex, turns, mem, settling, fleet>>

\* POST /agents/:id/chat with the chatId of an earlier turn: the row is reused
\* if its turn is over, and its status is left alone until admission.
FollowUp(c, i, r) ==
    /\ "turn" \in Ops /\ CanHost(r)
    /\ run[r].chat /\ run[r].st \in Terminal
    /\ Request(c, i, r, "turn", run[r].st)
    /\ run' = [run EXCEPT ![r].old = FALSE]
    /\ UNCHANGED <<lease, step, ex, turns, mem, settling, fleet>>

\* tryAcquireSlot of request c, with the handler's reaction to a refusal.
Admit(c) ==
    LET q == req[c]  i == q.at  r == q.run
        full == ~HasFreeSlot(i)
        l == IF Scm THEN reserved(lease[r]) ELSE lease[r]
    IN
    /\ q.kind # "none" /\ up[i]
    /\ req' = [req EXCEPT ![c] = NoReq]
    /\ \/ /\ ~full /\ CanActivate(i, l) /\ Exists(r) /\ CanHost(r)
          /\ run' = [run EXCEPT ![r] = Claimed(i, @.chat)]
          /\ lease' = [lease EXCEPT ![r] = activated(i, l)]
          /\ \/ q.kind # "turn" /\ StartTurn(i, r, "ready", "none")
             \/ q.kind # "retry" /\ StartTurn(i, r, "admitted", q.prior)
       \/ \* the transaction throws: a retry is restored, other rows stay
          /\ ~full /\ ~CanActivate(i, l) /\ Exists(r)
          /\ IF q.kind = "retry" THEN Settle(r, "failed") ELSE UNCHANGED run
          /\ UNCHANGED <<lease, ex, turns, mem>>
       \/ /\ full /\ Cardinality(Queued) < MaxQueue /\ Exists(r)
          /\ run' = [run EXCEPT ![r] = Row("queued", None, @.chat)]
          /\ lease' = [lease EXCEPT ![r] = l]
          /\ UNCHANGED <<ex, turns, mem>>
       \/ \* queue_full: a new row is deleted, a retried or reused one restored
          /\ full /\ Cardinality(Queued) >= MaxQueue /\ Exists(r)
          /\ Settle(r, q.prior)
          /\ UNCHANGED <<lease, ex, turns, mem>>
       \/ \* the row was deleted meanwhile, or its bound of turns is spent
          /\ ~Exists(r) \/ (~full /\ ~CanHost(r))
          /\ UNCHANGED <<run, lease, ex, turns, mem>>
    /\ UNCHANGED <<step, settling, fleet>>

\* One iteration of promoteQueuedRunsLocked: the oldest queued run, if a slot is
\* free and its lease can be activated (otherwise the transaction throws).
Promote(i, r) ==
    /\ up[i] /\ CanHost(r)
    /\ getOldestQueuedRun(r)
    /\ HasFreeSlot(i)
    /\ CanActivate(i, lease[r])
    /\ run' = [run EXCEPT ![r] = Claimed(i, @.chat)]
    /\ lease' = [lease EXCEPT ![r] = activated(i, @)]
    /\ StartTurn(i, r, "ready", "none")
    /\ UNCHANGED <<step, req, settling, fleet>>

-----------------------------------------------------------------------------
(* Execution of one turn.                                                  *)

\* Mutant: a run that was settled meanwhile keeps its execution lease.
SkipExecution_Leak(i, r) == UNCHANGED <<mem, settling>>

\* "Skipping execution for a non-running run"
SkipExecution(i, r) == completeExecutionLease(i, r)

\* executeChatRun: the guarded transaction opens the step and the CLI starts, or
\* the run was settled meanwhile and the lease is completed.
Prepare(i, r, t) ==
    /\ At(i, r, t, "ready")
    /\ \/ /\ run[r].st = "running"
          /\ run' = [run EXCEPT ![r].old = FALSE]
          /\ SetStep(r, t, "running") /\ Move(r, t, "cli")
          /\ UNCHANGED <<mem, settling>>
       \/ /\ run[r].st # "running"
          /\ Stop(r, t) /\ SkipExecution(i, r)
          /\ UNCHANGED <<run, step>>
    /\ UNCHANGED <<lease, req, turns, fleet>>

\* failRunBeforeLifecycle (failed) and cancelStaleGitTriggerRun (cancelled).
PrepareFail(i, r, t, outcome) ==
    /\ At(i, r, t, "ready") /\ outcome \in {"failed", "cancelled"}
    /\ IF run[r].st = "running"
       THEN run' = [run EXCEPT ![r] = Row(outcome, @.owner, FALSE)]
       ELSE UNCHANGED run
    /\ Stop(r, t) /\ completeExecutionLease(i, r)
    /\ UNCHANGED <<lease, step, req, turns, fleet>>

\* persistRunTurn of a route handler: the step is inserted whatever the status.
Persist(i, r, t) ==
    /\ At(i, r, t, "admitted") /\ Exists(r)
    /\ SetStep(r, t, "running") /\ Move(r, t, "cli")
    /\ UNCHANGED <<run, lease, req, turns, mem, settling, fleet>>

\* recoverRunStartup: fail the steps, settle the row, complete the lease.
StartupFail(i, r, t) ==
    /\ At(i, r, t, "admitted")
    /\ CloseSteps(r)
    /\ IF Exists(r) THEN Settle(r, ex[r][t].back) ELSE UNCHANGED run
    /\ Stop(r, t) /\ completeExecutionLease(i, r)
    /\ UNCHANGED <<lease, req, turns, fleet>>

\* finishRunSuccess and finishRunFailure up to the workspace cleanup. The
\* terminal transition is owned, recovered (the step was closed by somebody
\* else) or lost; a lost one goes by the status it finds.
Finish(i, r, t, outcome) ==
    /\ At(i, r, t, "cli") /\ outcome \in {"completed", "failed"}
    /\ \/ /\ run[r].st = "running"
          /\ Settle(r, IF step[r][t] = "running" THEN outcome ELSE "failed")
          /\ SetStep(r, t, "closed") /\ Move(r, t, "cleanup")
          /\ UNCHANGED <<mem, settling>>
       \/ /\ run[r].st = "cancelled"
          /\ cancelLateStep(r, t) /\ Move(r, t, "cleanup")
          /\ UNCHANGED <<run, mem, settling>>
       \/ /\ run[r].st = "deleted"
          /\ Stop(r, t) /\ completeExecutionLease(i, r)
          /\ UNCHANGED <<run, step>>
       \/ /\ run[r].st \in {"pending", "queued", "completed", "failed"}
          /\ Stop(r, t)
          /\ UNCHANGED <<run, step, mem, settling>>
    /\ UNCHANGED <<lease, req, turns, fleet>>

\* Both terminal transactions fail: the row stays running, the lease is completed.
FinishDbFault(i, r, t) ==
    /\ "dbfault" \in Ops /\ At(i, r, t, "cli") /\ run[r].st = "running"
    /\ Move(r, t, "cleanup")
    /\ UNCHANGED <<rows, req, turns, mem, settling, fleet>>

\* cleanupFinishedExecution
Complete(i, r, t) ==
    /\ At(i, r, t, "cleanup")
    /\ Stop(r, t) /\ completeExecutionLease(i, r)
    /\ UNCHANGED <<rows, req, turns, fleet>>

\* retryScmWorkloadReleaseUntilSuccess: a lease active on another instance makes
\* releaseScmWorkload throw, so the release stays in flight.
Release(i, r) ==
    /\ up[i] /\ r \in settling[i]
    /\ lease[r].phase = "active" => lease[r].owner = i
    /\ lease' = [lease EXCEPT ![r] = NoLease]
    /\ settling' = [settling EXCEPT ![i] = @ \ {r}]
    /\ UNCHANGED <<run, step, req, ex, turns, mem, fleet>>

-----------------------------------------------------------------------------
(* Operations on runs.                                                     *)

LatestStep(r, t) == step[r][t] # "none" /\ \A u \in Turns : u > t => step[r][u] = "none"

\* claimRunCancellation, then the latest step of a running run. A queued run also
\* gives its reservation back.
Cancel(r) ==
    /\ "cancel" \in Ops
    /\ \/ /\ run[r].st = "queued"
          /\ lease' = [lease EXCEPT ![r] = IF @.phase = "reserved" THEN NoLease ELSE @]
          /\ UNCHANGED step
       \/ /\ run[r].st = "running"
          /\ step' = [step EXCEPT ![r] = [t \in Turns |->
                          IF LatestStep(r, t) THEN "closed" ELSE @[t]]]
          /\ UNCHANGED lease
    /\ Settle(r, "cancelled")
    /\ UNCHANGED <<req, ex, turns, mem, settling, fleet>>

\* Mutant: the status is not part of the UPDATE's condition.
CanExecute_AnyStatus(r) == run[r].st \in {"pending", "queued", "running"}

CanExecute(r) == run[r].st \in {"pending", "queued"}

\* POST /runs/:id/execute: capacity, status CAS and step in one transaction.
Execute(i, r) ==
    /\ "execute" \in Ops /\ up[i] /\ CanHost(r)
    /\ CanExecute(r)
    /\ "listed" \in Ops \/ \A c \in Clients : req[c].run # r
    /\ HasFreeSlot(i)
    /\ run' = [run EXCEPT ![r] = Row("running", @.owner, @.chat)]
    /\ lease' = [lease EXCEPT ![r] = IF Scm THEN reserved(@) ELSE @]
    /\ SetStep(r, turns[r] + 1, "running")
    /\ StartTurn(i, r, "executing", "none")
    /\ UNCHANGED <<req, settling, fleet>>

\* activateScmWorkload of that handler, a transaction of its own.
ActivateExecuted(i, r, t) ==
    /\ At(i, r, t, "executing") /\ (Scm => CanActivate(i, lease[r]))
    /\ lease' = [lease EXCEPT ![r] = activated(i, @)]
    /\ Move(r, t, "cli")
    /\ UNCHANGED <<run, step, req, turns, mem, settling, fleet>>

\* ... which failed: finishRunError, with no workspace to clean up yet.
ActivateFail(i, r, t) ==
    /\ At(i, r, t, "executing") /\ Scm /\ ~CanActivate(i, lease[r])
    /\ Stop(r, t)
    /\ \/ /\ run[r].st = "running" /\ Settle(r, "failed")
          /\ SetStep(r, t, "closed") /\ completeExecutionLease(i, r)
       \/ /\ run[r].st = "cancelled" /\ UNCHANGED run
          /\ cancelLateStep(r, t) /\ completeExecutionLease(i, r)
       \/ /\ run[r].st \notin {"running", "cancelled"}
          /\ UNCHANGED <<run, step, mem, settling>>
    /\ UNCHANGED <<lease, req, turns, fleet>>

\* Data retention deletes terminal rows and, by cascade, their steps.
Delete(r) ==
    /\ "delete" \in Ops /\ run[r].st \in Terminal
    /\ Settle(r, "deleted")
    /\ step' = [step EXCEPT ![r] = [t \in Turns |-> "none"]]
    /\ UNCHANGED <<lease, req, ex, turns, mem, settling, fleet>>

-----------------------------------------------------------------------------
(* Crashes, restarts and recovery.                                         *)

others == <<run, lease, step, req, ex, turns, mem, settling>>

\* The process dies: its executors, requests and memory go with it.
Crash(i) ==
    /\ "crash" \in Ops /\ up[i]
    /\ boots[i] < MaxBoots \/ \E j \in Inst \ {i} : up[j]
    /\ up' = [up EXCEPT ![i] = FALSE]
    /\ ex' = [r \in Runs |-> [t \in Turns |-> IF ex[r][t].at = i THEN Idle ELSE ex[r][t]]]
    /\ req' = [c \in Clients |-> IF req[c].at = i THEN NoReq ELSE req[c]]
    /\ mem' = [mem EXCEPT ![i] = {}]
    /\ settling' = [settling EXCEPT ![i] = {}]
    /\ reap' = [reap EXCEPT ![i] = NoReap]
    /\ recov' = NoRecovery
    /\ UNCHANGED <<rows, turns, beating, boots>>

\* No beat for INSTANCE_DEAD_AFTER_MS. A live process fences itself before that
\* (module InstanceHeartbeat), so only a stopped one expires.
Expire(i) ==
    /\ ~up[i] /\ beating[i]
    /\ beating' = [beating EXCEPT ![i] = FALSE]
    /\ UNCHANGED <<others, reap, up, boots, recov>>

\* A restart under the same instance id: a new startedAt makes every earlier
\* mark of this id old. On SQLite startup recovery follows.
Boot(i) ==
    /\ ~up[i] /\ boots[i] < MaxBoots
    /\ up' = [up EXCEPT ![i] = TRUE]
    /\ beating' = [beating EXCEPT ![i] = TRUE]
    /\ boots' = [boots EXCEPT ![i] = @ + 1]
    /\ run' = [r \in Runs |-> [run[r] EXCEPT !.old = @ \/ run[r].owner = i]]
    /\ lease' = [r \in Runs |-> [lease[r] EXCEPT !.old = @ \/ lease[r].owner = i]]
    /\ recov' = IF Sqlite
                THEN [phase |-> "scan", todo |-> {}, before |-> {r \in Runs : run[r].st # "absent"}]
                ELSE NoRecovery
    /\ UNCHANGED <<step, req, ex, turns, mem, settling, reap>>

\* Mutant: recovery overlooks the interrupted rows.
InterruptedRuns_None == {}

InterruptedRuns == {r \in Runs : run[r].st = "running"}

\* recoverOnStartup reads the running rows once the port is already open.
RecoverScan ==
    /\ recov.phase = "scan"
    /\ recov' = [recov EXCEPT !.phase = "runs", !.todo = InterruptedRuns]
    /\ UNCHANGED <<others, reap, up, beating, boots>>

\* One run of that list: requeueForResume (a status CAS) and onRunRequeued, or
\* applyFailure (no CAS) and onRunFailed. Both hooks delete the durable lease.
RecoverRun(r) ==
    /\ recov.phase = "runs" /\ r \in recov.todo
    /\ recov' = [recov EXCEPT !.todo = @ \ {r}]
    /\ \/ /\ run[r].st = "running"
          /\ run' = [run EXCEPT ![r] = Row("queued", None, FALSE)]
          /\ CloseSteps(r)
       \/ /\ run[r].st # "running"
          /\ UNCHANGED <<run, step>>
       \/ /\ IF Exists(r) THEN Settle(r, "failed") ELSE UNCHANGED run
          /\ CloseSteps(r)
    /\ lease' = [lease EXCEPT ![r] = NoLease]
    /\ UNCHANGED <<req, ex, turns, mem, settling, reap, up, beating, boots>>

\* The running rows are done: getOrphanedPendingRuns reads the pending rows whose
\* createdAt is old enough, then come the queued rows that a Feishu event replay
\* will rebuild. How old a row is and where it came from is left open.
RecoverScanStale ==
    /\ recov.todo = {}
    /\ \/ /\ recov.phase = "runs"
          /\ \E S \in SUBSET {r \in recov.before : run[r].st = "pending"} :
                recov' = [recov EXCEPT !.phase = "pending", !.todo = S]
       \/ /\ recov.phase = "pending"
          /\ \E S \in SUBSET Queued : recov' = [recov EXCEPT !.phase = "queued", !.todo = S]
       \/ /\ recov.phase = "queued"
          /\ recov' = NoRecovery
    /\ UNCHANGED <<others, reap, up, beating, boots>>

\* applyFailure of a row of those two lists, whatever became of it meanwhile.
RecoverStale(r) ==
    /\ recov.phase \in {"pending", "queued"} /\ r \in recov.todo
    /\ recov' = [recov EXCEPT !.todo = @ \ {r}]
    /\ IF Exists(r) THEN Settle(r, "failed") ELSE UNCHANGED run
    /\ CloseSteps(r)
    /\ lease' = [lease EXCEPT ![r] = NoLease]
    /\ UNCHANGED <<req, ex, turns, mem, settling, reap, up, beating, boots>>

\* sweepStaleLeases: an execution lease whose row is gone.
SweepMem(i, r) ==
    /\ up[i] /\ r \in mem[i] /\ run[r].st = "deleted"
    /\ completeExecutionLease(i, r)
    /\ UNCHANGED <<rows, req, ex, turns, fleet>>

\* Mutant: local activity is not checked.
Reclaimable_NoLocalCheck(j, r) ==
    lease[r].phase = "active" => lease[r].owner = j \/ isLeaseOwnerDead(lease[r])

\* Mutant: a dead peer's lease is never reclaimed.
Reclaimable_OwnOnly(j, r) ==
    (lease[r].phase = "active" => lease[r].owner = j) /\ r \notin mem[j]

\* Not active on a live peer and not in use here.
Reclaimable(j, r) ==
    /\ lease[r].phase = "active" => lease[r].owner = j \/ isLeaseOwnerDead(lease[r])
    /\ r \notin mem[j]

\* Mutant: only a running workload keeps its lease.
isWorkloadTerminal_NotRunning(r) == run[r].st # "running"

isWorkloadTerminal(r) == run[r].st \in Terminal \cup {"deleted"}

\* sweepOrphanedScmWorkloadLeases: the lease of a settled run.
SweepLease(j, r) ==
    /\ up[j] /\ lease[r].phase # "none" /\ Reclaimable(j, r)
    /\ isWorkloadTerminal(r)
    /\ lease' = [lease EXCEPT ![r] = NoLease]
    /\ UNCHANGED <<run, step, req, ex, turns, mem, settling, fleet>>

\* The last liveness read of failScmWorkloadsOfDeadInstances (kind "scm") and of
\* reapOrphanedRuns (kind "orphan") for one candidate.
ReapPick(j, r) ==
    /\ up[j] /\ reap[j] = NoReap /\ r \notin mem[j]
    /\ \/ /\ lease[r].phase = "active" /\ isLeaseOwnerDead(lease[r])
          /\ ~isWorkloadTerminal(r)
          /\ reap' = [reap EXCEPT ![j] = [kind |-> "scm", run |-> r, owner |-> lease[r].owner]]
       \/ /\ run[r].st = "running" /\ run[r].owner # None
          /\ isInstanceOwnerDead(run[r].owner, run[r].old)
          /\ reap' = [reap EXCEPT ![j] = [kind |-> "orphan", run |-> r, owner |-> run[r].owner]]
    /\ UNCHANGED <<others, up, beating, boots, recov>>

\* Mutant: the owner fence is missing.
Reapable_NoFence(p) == run[p.run].st \in {"running", "pending", "queued"}

\* claimReapableRun would take the run: the status CAS and the owner fence.
Reapable(p) ==
    \/ /\ p.kind = "scm"
       /\ run[p.run].st \in {"running", "pending", "queued"}
       /\ run[p.run].owner \in {None, p.owner}
    \/ /\ p.kind = "orphan"
       /\ run[p.run].st = "running" /\ run[p.run].owner = p.owner

\* The CAS: the run fails, or (orphan pass only) is requeued to resume.
ReapResolve(j) ==
    /\ up[j] /\ reap[j] # NoReap
    /\ reap' = [reap EXCEPT ![j] = NoReap]
    /\ \/ /\ Reapable(reap[j])
          /\ Settle(reap[j].run, "failed") /\ CloseSteps(reap[j].run)
       \/ /\ Reapable(reap[j]) /\ reap[j].kind = "orphan"
          /\ run' = [run EXCEPT ![reap[j].run] = Row("queued", None, FALSE)]
          /\ CloseSteps(reap[j].run)
       \/ /\ ~Reapable(reap[j])
          /\ UNCHANGED <<run, step>>
    /\ UNCHANGED <<lease, req, ex, turns, mem, settling, up, beating, boots, recov>>

-----------------------------------------------------------------------------
Executor(i, r, t) ==
    \/ Prepare(i, r, t) \/ Persist(i, r, t) \/ ActivateExecuted(i, r, t)
    \/ ActivateFail(i, r, t) \/ Complete(i, r, t) \/ StartupFail(i, r, t) \/ FinishDbFault(i, r, t)
    \/ \E outcome \in Terminal : PrepareFail(i, r, t, outcome) \/ Finish(i, r, t, outcome)

Sweeper(j) ==
    \/ ReapResolve(j)
    \/ \E r \in Runs : SweepMem(j, r) \/ SweepLease(j, r) \/ ReapPick(j, r)

Client(c) ==
    \/ Admit(c)
    \/ \E i \in Inst, r \in Runs : Submit(c, i, r) \/ Retry(c, i, r) \/ FollowUp(c, i, r)

Next ==
    \/ \E c \in Clients : Client(c)
    \/ \E i \in Inst, r \in Runs : Promote(i, r) \/ Release(i, r) \/ Execute(i, r)
    \/ \E i \in Inst, r \in Runs, t \in Turns : Executor(i, r, t)
    \/ \E r \in Runs : Create(r) \/ Cancel(r) \/ Delete(r) \/ RecoverRun(r) \/ RecoverStale(r)
    \/ \E i \in Inst : Sweeper(i) \/ Crash(i) \/ Expire(i) \/ Boot(i)
    \/ RecoverScan \/ RecoverScanStale

Spec == Init /\ [][Next]_vars

\* Each await of the code resumes, CLI processes end (the worker timeout kills
\* them), the sweeper's timer fires and promotes queued work, a silent heartbeat
\* expires and a stopped replica is restarted while the bound allows.
Fairness ==
    /\ \A c \in Clients : WF_vars(Admit(c))
    /\ \A i \in Inst, r \in Runs, t \in Turns : WF_vars(Executor(i, r, t))
    /\ \A i \in Inst, r \in Runs :
         /\ WF_vars(Promote(i, r)) /\ WF_vars(Release(i, r))
         /\ WF_vars(SweepMem(i, r)) /\ WF_vars(SweepLease(i, r))
         /\ SF_vars(ReapPick(i, r))
    /\ \A i \in Inst : WF_vars(ReapResolve(i)) /\ WF_vars(Expire(i)) /\ WF_vars(Boot(i))
    /\ WF_vars(RecoverScan) /\ WF_vars(RecoverScanStale)
    /\ \A r \in Runs : WF_vars(RecoverRun(r)) /\ WF_vars(RecoverStale(r))

FairSpec == Spec /\ Fairness

-----------------------------------------------------------------------------
(* Properties.                                                             *)

\* Every variable keeps its type.
TypeOK ==
    /\ run \in [Runs -> [st : Statuses, owner : Inst \cup {None}, old : BOOLEAN, chat : BOOLEAN]]
    /\ lease \in [Runs -> [phase : {"none", "reserved", "active"},
                           owner : Inst \cup {None}, old : BOOLEAN]]
    /\ step \in [Runs -> [Turns -> {"none", "running", "closed"}]]
    /\ req \in [Clients -> [kind : {"none", "new", "retry", "turn"}, at : Inst \cup {None},
                            run : 0 .. NumRuns, prior : Statuses]]
    /\ ex \in [Runs -> [Turns -> [pc : Pcs, at : Inst \cup {None}, back : Statuses \cup {"none"}]]]
    /\ turns \in [Runs -> 0 .. MaxTurns]
    /\ mem \in [Inst -> SUBSET Runs] /\ settling \in [Inst -> SUBSET Runs]
    /\ reap \in [Inst -> [kind : {"none", "scm", "orphan"}, run : 0 .. NumRuns,
                          owner : Inst \cup {None}]]
    /\ up \in [Inst -> BOOLEAN] /\ beating \in [Inst -> BOOLEAN]
    /\ boots \in [Inst -> 0 .. MaxBoots]
    /\ recov \in [phase : {"off", "scan", "runs", "pending", "queued"}, todo : SUBSET Runs,
                  before : SUBSET Runs]

\* A CLI process, or its workspace cleanup, is there for this run.
InWorkspace(r) == \E t \in Turns : ex[r][t].pc \in {"cli", "cleanup"}

\* The slots of the agent as every replica sees them in the database.
Slots == {r \in Runs : run[r].st = "running" \/ (lease[r].phase = "active" /\ Exists(r))}

\* The queue implements a pool of maxConcurrency slots: whatever the replicas,
\* clients, reapers and crashes do, a slot is taken only while one is free.
Pool == INSTANCE SlotPool WITH Members <- Runs, Size <- MaxConcurrency, held <- Slots
ImplementsSlotPool == Pool!Spec

\* maxConcurrency bounds the CLI processes of the agent over all replicas, not
\* only the rows in status 'running' (countOccupiedRunSlots, task-queue-db.ts).
Capacity == Scm => Cardinality({r \in Runs : InWorkspace(r)}) <= MaxConcurrency

\* Whoever works in an SCM checkout holds the run's active durable lease, from
\* preparation until its cleanup is over (releaseScmWorkload: "only after process
\* exit and workspace cleanup").
CheckoutGuarded ==
    \A r \in Runs, t \in Turns :
        Scm /\ ex[r][t].pc \in {"admitted", "ready", "cli", "cleanup"} =>
            lease[r].phase = "active" /\ lease[r].owner = ex[r][t].at

\* The replica has not restarted: no other process ever had its instance id.
FirstLife(i) == boots[i] = 0

\* One conversation row never hosts two CLI processes (routes/agents.ts 2475).
OneTurnPerRun ==
    \A r \in Runs, t, u \in Turns :
        ex[r][t].pc = "cli" /\ ex[r][u].pc = "cli" => t = u

\* Also when replicas restart and reapers requeue what they left: two CLI processes
\* of one row are never both of replicas in their first life.
OneTurnPerFirstLife ==
    \A r \in Runs, t, u \in Turns :
        /\ ex[r][t].pc = "cli" /\ FirstLife(ex[r][t].at)
        /\ ex[r][u].pc = "cli" /\ FirstLife(ex[r][u].at)
        => t = u

\* An execution lease in memory has an executor that will complete it; without
\* one it consumes a slot for the life of the process (stale-lease-sweeper.ts).
NoLeakedLease ==
    \A i \in Inst, r \in Runs :
        r \in mem[i] /\ run[r].st # "deleted" =>
            \E t \in Turns : ex[r][t].pc # "none" /\ ex[r][t].at = i

\* A queued run of an SCM agent has a lease row: promoteQueuedRun throws without
\* one, and the run then blocks the head of the queue.
QueuedKeepsReservation ==
    \A r \in Runs : Scm /\ run[r].st = "queued" => lease[r].phase # "none"

\* A reaper never settles or requeues a run whose executor is alive on a beating
\* replica (scm-lease-sweeper.ts: "A beating peer is never touched"), however old
\* the read is that it acts on and whichever other replicas restart. A replica that
\* has itself restarted may own the run under the id the reaper read before.
ReapSparesLiveOwner ==
    [][\A j \in Inst : ReapResolve(j) /\ Reapable(reap[j]) =>
          \A t \in Turns : ex[reap[j].run][t].pc \in {"ready", "cli"} =>
              ~FirstLife(ex[reap[j].run][t].at)]_vars

\* The same without the exception: the fence compares ids (schema.pg.ts 1505: an id
\* is reused by the next process), and bug_reused_id shows that it does not hold.
ReapSparesEveryOwner ==
    [][\A j \in Inst : ReapResolve(j) /\ Reapable(reap[j]) =>
          \A t \in Turns : ex[reap[j].run][t].pc \notin {"ready", "cli"}]_vars

\* Startup recovery leaves the runs of the new process alone (index.ts: it "does
\* not change how a fresh request is served").
RecoverySparesFreshRuns ==
    [][\A r \in Runs : RecoverRun(r) \/ RecoverStale(r) =>
          \A t \in Turns : ex[r][t].pc = "none"]_vars

\* A step is left 'running' only under a running row or by an executor that will
\* still close it (requeueForResume: leaving it "would strand it forever").
StepsSettle ==
    \A r \in Runs, t \in Turns :
        step[r][t] = "running" => run[r].st = "running" \/ ex[r][t].pc # "none"

\* Queued work is eventually promoted, cancelled or settled.
QueueDrains == \A r \in Runs : (run[r].st = "queued") ~> (run[r].st # "queued")

\* A run left 'running' by a crashed replica is eventually executed again or settled.
Orphaned(r) ==
    run[r].st = "running" /\ \A t \in Turns : ex[r][t].pc = "none"
OrphansSettle == \A r \in Runs : Orphaned(r) ~> ~Orphaned(r)
=============================================================================
