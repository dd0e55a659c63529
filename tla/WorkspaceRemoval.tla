-------------------------- MODULE WorkspaceRemoval --------------------------
(***************************************************************************)
(* One Git worktree of an SCM source, the runs that name it and everybody  *)
(* who may remove it: the run's own ephemeral cleanup, manual and TTL      *)
(* deletes, and the reconciler of every replica (PostgreSQL).              *)
(*                                                                         *)
(* Two durable marks arbitrate: a workload lease says that a run may use   *)
(* the directory, a removal reservation says that somebody is about to     *)
(* delete it. Both are written under the SCM mutation lock, whose sections *)
(* are the atomic steps here; the filesystem work happens outside it,      *)
(* under a mutex that only its own process sees. The worktree claim of     *)
(* resolveWorkDir is a plain transaction, so its reads and its write are   *)
(* two steps.                                                              *)
(***************************************************************************)
EXTENDS Integers, FiniteSets

CONSTANTS
    Inst,        \* replicas, named by processInstanceId
    Runs,        \* runs whose worktreeConfig names the worktree
    Deleters,    \* requests to delete the worktree: manual, or a TTL pass
    Tokens,      \* attempt tokens (random UUIDs)
    MaxAttempts, \* inline attempts of a run's own cleanup (6 in the code)
    MaxFaults,   \* bound: failing filesystem operations and writes, and crashes
    PerAgent,    \* the worktree is an Agent's persistent one, which no run names
    None         \* SQL NULL

ASSUME ConstantsOK ==
    /\ MaxAttempts \in Nat \ {0} /\ PerAgent \in BOOLEAN
    /\ MaxFaults \in Nat
    /\ None \notin Inst \cup Tokens
    /\ Inst \cap Runs = {} /\ Inst \cap Deleters = {} /\ Runs \cap Deleters = {}

VARIABLES
    run,     \* runs table: status and whether workDir is the worktree; the replica
             \* that executes the run and how far it is
    lease,   \* scm_workload_leases: owner of the run's active lease, and its boot
    resv,    \* scm_workspace_removals: the row of the worktree, if any
    rm,      \* removers: own cleanup of a run, a delete request, a reconciler
    mutex,   \* each process's lock on the worktree path
    pend,    \* pendingReservationReleases and pendingReservationHandoffs
    tree,    \* the worktree is on disk
    up,      \* the process runs
    boot,    \* how often the instance id has been booted
    fails    \* faults so far (filesystem, writes, crashes), and whether one of them
             \* was of a write that the code does not try again

marks == <<lease, resv>>
procs == <<up, boot>>
vars == <<run, lease, resv, rm, mutex, pend, tree, up, boot, fails>>

Removers == Runs \cup Deleters \cup Inst

NoRow   == [owner |-> None, boot |-> 0, token |-> None]
NoLease == [owner |-> None, boot |-> 0]
NoRm    == [pc |-> "idle", at |-> None, token |-> None, tries |-> 0]
NewRun  == [st |-> "absent", dir |-> FALSE, at |-> None, pc |-> "new"]

InFlight(r) == run[r].st = "running"
Leased(r)   == lease[r].owner # None
Reserved    == resv.token # None

\* A mark's owner is dead when its heartbeat stopped or the id booted after the mark
\* was written. InstanceHeartbeat shows that such a process touches no checkout.
isInstanceOwnerDead(mark) ==
    mark.owner \in Inst /\ (~up[mark.owner] \/ mark.boot < boot[mark.owner])

Used == {resv.token} \cup {rm[x].token : x \in Removers}
                     \cup UNION {{pend[i].release, pend[i].handoff} : i \in Inst}

\* A UUID that nobody remembers is as good as a new one.
NewToken == CHOOSE t \in Tokens : t \notin Used

-----------------------------------------------------------------------------
(* The decision every remover runs, and the reservation row.               *)

\* Mutant: a leased run that has not chosen its directory does not block.
findWorkspaceRemovalBlocker_NullDir(own) ==
    \E r \in Runs \ own : run[r].dir /\ (InFlight(r) \/ Leased(r))

\* A run in flight that recorded the worktree, or a leased run that recorded it or
\* has recorded nothing yet; the own workload of a cleanup is left out.
findWorkspaceRemovalBlocker(own) ==
    \E r \in Runs \ own : Leased(r) \/ (run[r].dir /\ InFlight(r))

Occupied(r) == \E q \in Runs \ {r} : run[q].dir /\ InFlight(q)

\* Mutant: the row is deleted by its id alone.
releaseRow_ById(token) == NoRow

\* The row after a release by exact attempt token.
releaseRow(token) == IF resv.token = token THEN NoRow ELSE resv

\* Mutant: the row is disowned by its id alone.
handOffRow_ById(token) == [resv EXCEPT !.owner = None]

\* The row after a handoff by exact attempt token.
handOffRow(token) == IF resv.token = token THEN [resv EXCEPT !.owner = None] ELSE resv

Fail(kind) ==
    /\ fails.n < MaxFaults
    /\ fails' = [n |-> fails.n + 1, own |-> fails.own \/ kind = "own"]

\* A remover that is through; a reconciler goes on with its next tick.
Ended(x) == [NoRm EXCEPT !.pc = IF x \in Inst THEN "idle" ELSE "over"]

-----------------------------------------------------------------------------
(* Runs.                                                                   *)

\* admitRun refuses a run whose named worktree is being removed. The queue in
\* front of the activation is RunQueue's.
Admit(r, i) ==
    /\ up[i] /\ run[r].pc = "new"
    /\ PerAgent \/ ~Reserved
    /\ run' = [run EXCEPT ![r] = [st |-> "running", dir |-> FALSE, at |-> i, pc |-> "admitted"]]
    /\ lease' = [lease EXCEPT ![r] = [owner |-> i, boot |-> boot[i]]]
    /\ UNCHANGED <<resv, rm, mutex, pend, tree, procs, fails>>

\* resolveWorkDir checks a named worktree for occupants and a removal, and the run
\* fails when it finds one; an Agent's own worktree is resolved without the checks.
Resolve(r) ==
    /\ run[r].pc = "admitted"
    /\ run' = [run EXCEPT ![r] =
                 IF PerAgent THEN [@ EXCEPT !.pc = "claimed"]
                 ELSE IF Reserved \/ Occupied(r)
                 THEN [@ EXCEPT !.st = "terminal", !.pc = "leaving"]
                 ELSE [@ EXCEPT !.pc = "checked"]]
    /\ UNCHANGED <<marks, rm, mutex, pend, tree, procs, fails>>

\* The write that claims the worktree, runs.workDir.
ClaimDir(r) ==
    /\ run[r].pc = "checked"
    /\ run' = [run EXCEPT ![r].dir = TRUE, ![r].pc = "claimed"]
    /\ UNCHANGED <<marks, rm, mutex, pend, tree, procs, fails>>

CreateStart(r) ==
    /\ run[r].pc = "claimed" /\ mutex[run[r].at] = None
    /\ mutex' = [mutex EXCEPT ![run[r].at] = r]
    /\ run' = [run EXCEPT ![r].pc = "creating"]
    /\ UNCHANGED <<marks, rm, pend, tree, procs, fails>>

\* Created or reused; an Agent's worktree is recorded only now.
CreateDone(r) ==
    /\ run[r].pc = "creating"
    /\ tree' = TRUE
    /\ mutex' = [mutex EXCEPT ![run[r].at] = None]
    /\ run' = [run EXCEPT ![r].pc = "cli", ![r].dir = TRUE]
    /\ UNCHANGED <<marks, rm, pend, procs, fails>>

\* A failed creation rolls the claim back and fails the run.
CreateFail(r) ==
    /\ run[r].pc = "creating"
    /\ Fail("fs")
    /\ run' = [run EXCEPT ![r].st = "terminal", ![r].dir = FALSE, ![r].pc = "leaving"]
    /\ mutex' = [mutex EXCEPT ![run[r].at] = None]
    /\ UNCHANGED <<marks, rm, pend, tree, procs>>

\* The CLI exits and the row is settled; only an ephemeral worktree is cleaned up.
Finish(r) ==
    /\ run[r].pc = "cli"
    /\ run' = [run EXCEPT ![r].st = "terminal", ![r].pc = IF PerAgent THEN "leaving" ELSE "ended"]
    /\ UNCHANGED <<marks, rm, mutex, pend, tree, procs, fails>>

\* cleanupWorktreeIfEphemeral leaves a worktree alone that another run uses.
SkipCleanup(r) ==
    /\ run[r].pc = "ended" /\ Occupied(r)
    /\ run' = [run EXCEPT ![r].pc = "leaving"]
    /\ UNCHANGED <<marks, rm, mutex, pend, tree, procs, fails>>

\* Release of the durable lease, after the cleanup.
Leave(r) ==
    /\ run[r].pc = "leaving"
    /\ lease' = [lease EXCEPT ![r] = NoLease]
    /\ run' = [run EXCEPT ![r].pc = "done", ![r].at = None]
    /\ UNCHANGED <<resv, rm, mutex, pend, tree, procs, fails>>

-----------------------------------------------------------------------------
(* Guarded removal.                                                        *)

\* The row names the process i and a new token. The answer of the database may be
\* lost after the commit: then nobody knows of the attempt.
TakeRow(x, i, pc) ==
    /\ Tokens \ Used # {}
    /\ resv' = [owner |-> i, boot |-> boot[i], token |-> NewToken]
    /\ \/ /\ rm' = [rm EXCEPT ![x] = [pc |-> pc, at |-> i, token |-> NewToken, tries |-> 0]]
          /\ UNCHANGED fails
       \/ /\ rm' = [rm EXCEPT ![x] = IF x \in Runs THEN NoRm ELSE Ended(x)]
          /\ Fail("own")
    /\ UNCHANGED <<lease, mutex, pend, tree, procs>>

\* Manual DELETE and TTL cleanup. A refused one changes nothing.
Delete(d, i) ==
    /\ up[i] /\ rm[d].pc = "idle"
    /\ ~findWorkspaceRemovalBlocker({}) /\ ~Reserved
    /\ TakeRow(d, i, "reserved")
    /\ UNCHANGED run

\* validateOwnedCleanup, the blocker without the own run, and the unique row.
MayClean(r) ==
    /\ lease[r].owner = run[r].at
    /\ ~findWorkspaceRemovalBlocker({r})
    /\ ~Reserved

OwnReserve(r) ==
    /\ run[r].pc = "ended" /\ ~Occupied(r)
    /\ MayClean(r)
    /\ TakeRow(r, run[r].at, "reserved")
    /\ run' = [run EXCEPT ![r].pc = IF rm'[r].pc = "reserved" THEN "cleaning" ELSE @]

\* Refused until the attempts are spent: no mark of this run guards the worktree,
\* so the error propagates and both leases are kept.
OwnGiveUp(r) ==
    /\ run[r].pc = "ended" /\ ~Occupied(r)
    /\ ~MayClean(r)
    /\ run' = [run EXCEPT ![r].pc = "held"]
    /\ UNCHANGED <<marks, rm, mutex, pend, tree, procs, fails>>

\* The worktree's mutex. The reconciler has decided already and removes at once.
Lock(x) ==
    /\ rm[x].pc \in {"reserved", "cleared"} /\ mutex[rm[x].at] = None
    /\ mutex' = [mutex EXCEPT ![rm[x].at] = x]
    /\ rm' = [rm EXCEPT ![x].pc = IF @ = "cleared" THEN "removing" ELSE "locked"]
    /\ UNCHANGED <<run, marks, pend, tree, procs, fails>>

\* Mutant: a run's own cleanup is tried without end.
AfterFailure_NoBudget(x, blocked) ==
    /\ mutex' = [mutex EXCEPT ![rm[x].at] = None]
    /\ rm' = [rm EXCEPT ![x] = IF x \in Runs
                               THEN [@ EXCEPT !.pc = "reserved", !.tries = rm[x].tries + 1]
                               ELSE [@ EXCEPT !.pc = IF blocked THEN "releasing" ELSE "disowning"]]

\* A failed attempt: a run's own cleanup tries again or is exhausted and hands the
\* reservation off; any other remover hands it off, or releases it when blocked.
AfterFailure(x, blocked) ==
    /\ mutex' = [mutex EXCEPT ![rm[x].at] = None]
    /\ rm' = [rm EXCEPT ![x] = IF x \in Runs /\ @.tries + 1 < MaxAttempts
                               THEN [@ EXCEPT !.pc = "reserved", !.tries = rm[x].tries + 1]
                               ELSE [@ EXCEPT !.pc = IF x \notin Runs /\ blocked
                                                     THEN "releasing" ELSE "disowning"]]

\* beforeRemove, inside the mutex.
Recheck(x) ==
    /\ rm[x].pc = "locked"
    /\ \/ /\ ~findWorkspaceRemovalBlocker(Runs \cap {x})
          /\ x \in Runs => lease[x].owner = rm[x].at
          /\ rm' = [rm EXCEPT ![x].pc = "removing"]
          /\ UNCHANGED mutex
       \/ /\ \/ findWorkspaceRemovalBlocker(Runs \cap {x})
             \/ x \in Runs /\ lease[x].owner # rm[x].at
          /\ AfterFailure(x, TRUE)
    /\ UNCHANGED <<run, marks, pend, tree, procs, fails>>

\* removeGitWorkspaceUnlocked; a worktree that is gone already is not an error.
RemoveDone(x) ==
    /\ rm[x].pc = "removing"
    /\ tree' = FALSE
    /\ mutex' = [mutex EXCEPT ![rm[x].at] = None]
    /\ rm' = [rm EXCEPT ![x].pc = "releasing"]
    /\ UNCHANGED <<run, marks, pend, procs, fails>>

RemoveFail(x) ==
    /\ rm[x].pc = "removing"
    /\ Fail("fs")
    /\ AfterFailure(x, FALSE)
    /\ UNCHANGED <<run, marks, pend, tree, procs>>

\* The remover returns, and the run of an owned cleanup gives up its lease next.
Return(x) ==
    /\ rm' = [rm EXCEPT ![x] = Ended(x)]
    /\ run' = [r \in Runs |-> IF r = x THEN [run[r] EXCEPT !.pc = "leaving"] ELSE run[r]]
    /\ UNCHANGED <<lease, mutex, tree, procs>>

Release(x) ==
    /\ rm[x].pc = "releasing"
    /\ resv' = releaseRow(rm[x].token)
    /\ Return(x)
    /\ UNCHANGED <<pend, fails>>

\* A failing write has been committed or not. The release is queued for a retry; a
\* reconciler hands the row back instead.
ReleaseFail(x) ==
    /\ rm[x].pc = "releasing"
    /\ Fail("db")
    /\ resv' \in {resv, releaseRow(rm[x].token)}
    /\ IF x \in Inst
       THEN /\ rm' = [rm EXCEPT ![x].pc = "disowning"]
            /\ UNCHANGED <<run, lease, mutex, pend, tree, procs>>
       ELSE /\ pend' = [pend EXCEPT ![rm[x].at].release = rm[x].token]
            /\ Return(x)

Disown(x) ==
    /\ rm[x].pc = "disowning"
    /\ resv' = handOffRow(rm[x].token)
    /\ Return(x)
    /\ UNCHANGED <<pend, fails>>

\* Mutant: the handoff that failed is forgotten.
DisownFail_Forget(x) ==
    /\ rm[x].pc = "disowning" /\ x \notin Inst
    /\ Fail("db")
    /\ Return(x)
    /\ UNCHANGED <<resv, pend>>

DisownFail(x) ==
    /\ rm[x].pc = "disowning" /\ x \notin Inst
    /\ Fail("db")
    /\ resv' \in {resv, handOffRow(rm[x].token)}
    /\ pend' = [pend EXCEPT ![rm[x].at].handoff = rm[x].token]
    /\ Return(x)

\* retryPendingWorkspaceRemovalReleases, on every sweep.
RetryRelease(i) ==
    /\ pend[i].release # None
    /\ resv' = releaseRow(pend[i].release)
    /\ pend' = [pend EXCEPT ![i].release = None]
    /\ UNCHANGED <<run, lease, rm, mutex, tree, procs, fails>>

RetryHandoff(i) ==
    /\ pend[i].handoff # None
    /\ resv' = handOffRow(pend[i].handoff)
    /\ pend' = [pend EXCEPT ![i].handoff = None]
    /\ UNCHANGED <<run, lease, rm, mutex, tree, procs, fails>>

-----------------------------------------------------------------------------
(* Reconciler.                                                             *)

\* Nobody works on the row: it was handed off, or its owner is dead.
Abandoned == Reserved /\ (resv.owner = None \/ isInstanceOwnerDead(resv))

ListCandidate(i) ==
    /\ up[i] /\ rm[i].pc = "idle"
    /\ Abandoned
    /\ rm' = [rm EXCEPT ![i] = [pc |-> "listed", at |-> i, token |-> resv.token, tries |-> 0]]
    /\ UNCHANGED <<run, marks, mutex, pend, tree, procs, fails>>

\* Mutant: the claim trusts the verdict of the listing.
Adoptable_Stale(i) == Reserved

\* The claim compares the listed token and judges the owner again.
Adoptable(i) == resv.token = rm[i].token /\ Abandoned

Adopt(i) ==
    /\ rm[i].pc = "listed"
    /\ \/ Adoptable(i) /\ TakeRow(i, i, "adopted")
       \/ /\ ~Adoptable(i)
          /\ rm' = [rm EXCEPT ![i] = NoRm]
          /\ UNCHANGED <<marks, mutex, pend, tree, procs, fails>>
    /\ UNCHANGED run

\* findBlocker under the lock: an occupied worktree makes the reservation obsolete.
Decide(i) ==
    /\ rm[i].pc = "adopted"
    /\ \/ /\ rm' = [rm EXCEPT ![i].pc =
                    IF findWorkspaceRemovalBlocker({}) THEN "releasing" ELSE "cleared"]
          /\ UNCHANGED fails
       \/ rm' = [rm EXCEPT ![i].pc = "disowning"] /\ Fail("db")
    /\ UNCHANGED <<run, marks, mutex, pend, tree, procs>>

\* The reconciler's own handoff fails and is only logged. It belongs to the outage
\* that failed the removal, so it is not counted; at most one write is lost for good.
ReconcilerDisownFail(i) ==
    /\ rm[i].pc = "disowning"
    /\ ~fails.own
    /\ fails' = [fails EXCEPT !.own = TRUE]
    /\ resv' \in {resv, handOffRow(rm[i].token)}
    /\ Return(i)
    /\ UNCHANGED pend

-----------------------------------------------------------------------------
(* Crashes and the sweep of what they leave.                               *)

Crash(i) ==
    /\ up[i]
    /\ Fail("crash")
    /\ up' = [up EXCEPT ![i] = FALSE]
    /\ run' = [r \in Runs |-> IF run[r].at = i THEN [run[r] EXCEPT !.pc = "dead", !.at = None]
                              ELSE run[r]]
    /\ rm' = [x \in Removers |-> IF rm[x].at = i THEN Ended(x) ELSE rm[x]]
    /\ mutex' = [mutex EXCEPT ![i] = None]
    /\ pend' = [pend EXCEPT ![i] = [release |-> None, handoff |-> None]]
    /\ UNCHANGED <<marks, tree, boot>>

\* A restart under the same instance id.
Boot(i) ==
    /\ ~up[i]
    /\ up' = [up EXCEPT ![i] = TRUE]
    /\ boot' = [boot EXCEPT ![i] = @ + 1]
    /\ UNCHANGED <<run, marks, rm, mutex, pend, tree, fails>>

isWorkloadLocallyActive(i, r) == run[r].at = i

\* failScmWorkloadsOfDeadInstances.
ReapRun(i, r) ==
    /\ up[i] /\ InFlight(r) /\ ~isWorkloadLocallyActive(i, r)
    /\ Leased(r) /\ isInstanceOwnerDead(lease[r])
    /\ run' = [run EXCEPT ![r].st = "terminal"]
    /\ UNCHANGED <<marks, rm, mutex, pend, tree, procs, fails>>

\* Its own leases, and those of dead owners.
Sweepable(i, r) == Leased(r) /\ (lease[r].owner = i \/ isInstanceOwnerDead(lease[r]))

\* sweepOrphanedScmWorkloadLeases: an ephemeral worktree of another owner gets an
\* unowned reservation before its lease goes.
SweepLease(i, r) ==
    /\ up[i] /\ run[r].st = "terminal" /\ ~isWorkloadLocallyActive(i, r)
    /\ Sweepable(i, r)
    /\ lease' = [lease EXCEPT ![r] = NoLease]
    /\ \/ /\ lease[r].owner # i /\ ~PerAgent /\ ~Reserved
          /\ Tokens \ Used # {}
          /\ resv' = [NoRow EXCEPT !.token = NewToken]
       \/ /\ lease[r].owner = i \/ PerAgent \/ Reserved
          /\ UNCHANGED resv
    /\ UNCHANGED <<run, rm, mutex, pend, tree, procs, fails>>

-----------------------------------------------------------------------------
Init ==
    /\ run = [r \in Runs |-> NewRun]
    /\ lease = [r \in Runs |-> NoLease]
    /\ resv = NoRow
    /\ rm = [x \in Removers |-> NoRm]
    /\ mutex = [i \in Inst |-> None]
    /\ pend = [i \in Inst |-> [release |-> None, handoff |-> None]]
    /\ tree = FALSE
    /\ up = [i \in Inst |-> TRUE]
    /\ boot = [i \in Inst |-> 0]
    /\ fails = [n |-> 0, own |-> FALSE]

\* The steps of a run's executor, of a remover and of a replica's periodic sweep.
RunStep(r) ==
    \/ Resolve(r) \/ ClaimDir(r) \/ CreateStart(r) \/ CreateDone(r) \/ Finish(r)
    \/ SkipCleanup(r) \/ OwnReserve(r) \/ OwnGiveUp(r) \/ Leave(r)

RemoverStep(x) == Lock(x) \/ Recheck(x) \/ RemoveDone(x) \/ Release(x) \/ Disown(x)

ReconcilerStep(i) == ListCandidate(i) \/ Adopt(i) \/ Decide(i)

Retry(i) == RetryRelease(i) \/ RetryHandoff(i)

Sweep(i, r) == ReapRun(i, r) \/ SweepLease(i, r)

Next ==
    \/ \E r \in Runs : RunStep(r) \/ CreateFail(r)
    \/ \E r \in Runs, i \in Inst : Admit(r, i) \/ Sweep(i, r)
    \/ \E d \in Deleters, i \in Inst : Delete(d, i)
    \/ \E x \in Removers : RemoverStep(x) \/ RemoveFail(x) \/ ReleaseFail(x) \/ DisownFail(x)
    \/ \E i \in Inst : ReconcilerStep(i) \/ ReconcilerDisownFail(i) \/ Retry(i)
                      \/ Crash(i) \/ Boot(i)

Spec == Init /\ [][Next]_vars

\* Executors and removers run to their end (the CLI has a hard timeout), and every
\* process repeats its sweep and its reconciliation on a timer. The container runtime
\* starts a crashed process again. Nobody has to admit a run or delete the worktree.
Fairness ==
    /\ \A r \in Runs : WF_vars(RunStep(r))
    /\ \A x \in Removers : WF_vars(RemoverStep(x))
    /\ \A i \in Inst : WF_vars(ReconcilerStep(i)) /\ WF_vars(Retry(i)) /\ WF_vars(Boot(i))
    /\ \A i \in Inst, r \in Runs : WF_vars(Sweep(i, r))

FairSpec == Spec /\ Fairness

-----------------------------------------------------------------------------
Pcs == {"idle", "listed", "adopted", "cleared", "reserved", "locked", "removing",
        "releasing", "disowning", "over"}

\* The shape of the tables and of the processes' memory, with the attempt budget of
\* a run's own cleanup (retryWorkspaceCleanup).
TypeOK ==
    /\ run \in [Runs -> [st : {"absent", "running", "terminal"}, dir : BOOLEAN,
                         at : Inst \cup {None},
                         pc : {"new", "admitted", "checked", "claimed", "creating", "cli",
                               "ended", "cleaning", "held", "leaving", "done", "dead"}]]
    /\ lease \in [Runs -> [owner : Inst \cup {None}, boot : Nat]]
    /\ resv \in [owner : Inst \cup {None}, boot : Nat, token : Tokens \cup {None}]
    /\ rm \in [Removers -> [pc : Pcs, at : Inst \cup {None}, token : Tokens \cup {None},
                            tries : 0 .. MaxAttempts - 1]]
    /\ mutex \in [Inst -> Removers \cup {None}]
    /\ pend \in [Inst -> [release : Tokens \cup {None}, handoff : Tokens \cup {None}]]
    /\ tree \in BOOLEAN
    /\ up \in [Inst -> BOOLEAN]
    /\ boot \in [Inst -> Nat]
    /\ fails \in [n : 0..MaxFaults, own : BOOLEAN]

Active == {"reserved", "locked", "adopted", "cleared", "removing", "releasing", "disowning"}

\* The reservation row of a remover at work names it: no stale token, no release and
\* no handoff of an earlier attempt takes the row from the attempt that runs
\* (scm-workspace-removal.ts: "the independent attempt token fences current-version
\* ABA replacement").
HeldByAttempt ==
    \A x \in Removers :
        rm[x].pc \in {"reserved", "locked", "adopted", "cleared", "removing"} =>
            resv = [owner |-> rm[x].at, boot |-> boot[rm[x].at], token |-> rm[x].token]

Using    == {r \in Runs : run[r].pc \in {"creating", "cli"}}
Removing == {x \in Removers : rm[x].pc = "removing"}

Directory == INSTANCE DirectoryLock
    WITH Users <- Runs, Writers <- Removers, using <- Using, writing <- Removing

\* No remover, on any replica, deletes the worktree while a run creates it or works
\* in it, no two removers delete it at once, and no run enters it during a removal.
ExclusiveRemoval == Directory!Spec

\* No process works on the row and none will: it names a live one that forgot it.
Unattended ==
    /\ Reserved /\ ~Abandoned
    /\ \A x \in Removers : rm[x].pc \in Active => rm[x].token # resv.token
    /\ \A i \in Inst : resv.token \notin {pend[i].release, pend[i].handoff}

\* Every reservation is resolved, through failing removals, failing writes and the
\* crash of its owner, so the worktree can be used again. The exception is a write
\* that the code does not try again: a claim whose answer was lost, or the
\* reconciler's own handoff.
ReservationResolved == Reserved ~> (~Reserved \/ (fails.own /\ Unattended))

\* What the reconciler's comment says: "every unsuccessful exit must make it
\* adoptable again" (scm-workspace-removal-reconciler.ts:271).
AlwaysAdoptable == Reserved ~> ~Reserved

\* What cleanupWorkspaceOrHandOff says of its normal return, after which the lease is
\* released: "the worktree is either gone or provably guarded by a durable mark"
\* (workspace-cleanup-retry.ts:91).
CleanupGuards ==
    [][\A r \in Runs : Leave(r) /\ rm[r].pc = "over" /\ tree
                        => Reserved \/ \E q \in Runs \ {r} : Leased(q)]_vars

\* What the sweep says of its reservation, "the worktree is never unprotected"
\* (scm-lease-sweeper.ts:111): a sweep leaves no worktree that nothing guards.
SweepGuards ==
    [][\A i \in Inst, r \in Runs : SweepLease(i, r) /\ tree /\ run[r].dir
                        => Reserved' \/ \E q \in Runs : Leased(q)']_vars
=============================================================================
