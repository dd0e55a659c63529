------------------------------ MODULE ScmSync ------------------------------
(***************************************************************************)
(* One SCM source: its row, its shared checkout, the syncs and CodeGraph   *)
(* jobs that write and read the checkout, the workloads of an Agent that   *)
(* may sit in it, and the PATCH and DELETE that move it or take it away.   *)
(*                                                                         *)
(* The status columns of the row are the claims every replica sees, and a  *)
(* set in memory, busyCheckouts, is the lock among the jobs of a process.  *)
(* Sections under the SCM mutation lock and single statements are the      *)
(* atomic steps. Status 'error' is written as idle: no condition in the    *)
(* code tells them apart.                                                  *)
(***************************************************************************)
EXTENDS Integers, FiniteSets

CONSTANTS
    Inst,      \* replicas
    Works,     \* workloads of the Agent that is bound to the source
    Sites,     \* installations: Git or Perforce, SQLite or not, CodeGraph or not, and
               \* what the Agent does, runs or evaluations
    MaxPaths,  \* bound: values the localPath takes
    MaxFaults, \* bound: failing writes and filesystem operations, crashes and fail-stops
    None

ASSUME ConstantsOK ==
    /\ Inst # {}
    /\ Sites \subseteq [git : BOOLEAN, sqlite : BOOLEAN, codegraph : BOOLEAN,
                        kind : {"run", "evaluation"}]
    /\ MaxPaths \in Nat \ {0} /\ MaxFaults \in Nat
    /\ None \notin Inst \cup (Inst \X {"timer", "request"})

Paths == 1 .. MaxPaths

\* A process has a timer for the source and serves requests.
Jobs == Inst \X {"timer", "request"}

VARIABLES
    site,    \* [git, sqlite, codegraph, kind]
    src,     \* scm_sources: syncStatus, codegraphStatus, localPath,
             \* initialSyncCompletedAt, deletionRequestedAt or deleted
    bound,   \* agents.scmSourceId names the source
    work,    \* workloads: their lease, runs.workDir and where they are
    job,     \* syncs and CodeGraph jobs of every process
    busy,    \* busyCheckouts of every process: the job that holds the checkout
    recl,    \* deletions in progress: the storage, then the row
    phase,   \* the process: up, fenced, down
    recov,   \* startup: look at the row, reset it, resume a deletion
    seen,    \* the localPaths the row has had during the life of a process: what a
             \* PATCH that is in flight there may have read
    fails,   \* failing operations: those the code recovers from, and the others
    stops,   \* crashes and fail-stops so far
    \* History, for the properties only.
    stamp,   \* the path whose sync set initialSyncCompletedAt
    parted   \* the row and its stamp were parted by a PATCH that judged an old row, or
             \* by a job whose claim startup had taken away

vars == <<site, src, bound, work, job, busy, recl, phase, recov, seen, fails, stops, stamp, parted>>
procs == <<phase, recov, seen, stops>>
marks == <<stamp, parted>>

\* job.void is history too: startup took the claim for one of the process before, or
\* the claim was taken while there was such a job.
NoJob  == [pc |-> "idle", pre |-> FALSE, path |-> 1, ok |-> FALSE, void |-> FALSE]
NoWork == [pc |-> "idle", at |-> None, dir |-> FALSE]

\* Job j has claimed syncStatus, or codegraphStatus, and will give it back.
HoldsSync(j) ==
    \/ job[j].pc \in {"claimed", "rollback", "refused", "working", "terminal", "reset",
                      "indexing", "unclaim"}
    \/ job[j].pc = "section" /\ job[j].pre
HoldsIndex(j) == job[j].pc \in {"indexclaimed", "reindexing"}
Claims(j) == HoldsSync(j) \/ HoldsIndex(j)

Mistaken == \E j \in Jobs : job[j].void

\* The port opens before startup has looked at the row.
Serving(i) == phase[i] = "up"

\* What every claim, a PATCH of the path and a DELETE require of the row.
Free == src.state = "live" /\ src.sync = "idle" /\ src.index = "idle"

faults == stops + fails.retried + fails.own

Fail(kind) ==
    /\ faults < MaxFaults
    /\ fails' = [fails EXCEPT ![kind] = @ + 1]

\* Job j goes on in step pc.
Goto(j, pc) == job' = [job EXCEPT ![j].pc = pc]

\* ... with a claim on the row.
Claim(j, pc) == job' = [job EXCEPT ![j].pc = pc, ![j].void = Mistaken]

\* The job is over and the checkout is free for the next one.
Done(j) ==
    /\ job' = [job EXCEPT ![j] = NoJob]
    /\ busy' = [busy EXCEPT ![j[1]] = None]

-----------------------------------------------------------------------------
(* Workloads. Their queue is RunQueue's, their lease ends in RunQueue and  *)
(* EvaluationQueue; here they enter and leave the checkout.                *)

\* Leases: a queued workload has reserved one, the others are active.
Leased == {w \in Works : work[w].pc # "idle"}
Active == {w \in Leased : work[w].pc # "queued"}

\* Mutant: only a recorded shared path counts.
workloadOccupiesSharedCheckout_Recorded(w) == site.kind = "evaluation" /\ ~site.git

\* A run that recorded no worktree, or an evaluation on Perforce.
workloadOccupiesSharedCheckout(w) == IF site.kind = "run" THEN ~work[w].dir ELSE ~site.git

findSharedCheckoutScmWorkload == \E w \in Active : workloadOccupiesSharedCheckout(w)

\* withScmWorkloadAdmission; a further turn of a run comes with its workDir.
Admit(w) ==
    /\ bound /\ work[w].pc = "idle"
    /\ work' = [work EXCEPT ![w].pc = "queued"]
    /\ UNCHANGED <<site, src, bound, job, busy, recl, procs, fails, marks>>

\* Mutant: the sync claim is not looked at.
SyncClaim_Unseen(w) == FALSE

\* A workload of the shared checkout loses against a committed claim.
SyncClaim(w) == src.sync = "syncing" /\ workloadOccupiesSharedCheckout(w)

\* activateScmWorkloadInMutation; a refused workload gives its reservation back.
Activate(w, i) ==
    /\ phase[i] = "up" /\ work[w].pc = "queued"
    /\ work' = [work EXCEPT ![w] = IF SyncClaim(w) THEN [@ EXCEPT !.pc = "idle"]
                                   ELSE [@ EXCEPT !.pc = "resolving", !.at = i]]
    /\ UNCHANGED <<site, src, bound, job, busy, recl, procs, fails, marks>>

\* resolveWorkDir: a worktree on Git, recorded for a run, and the shared checkout on
\* Perforce. A run whose worktree is unavailable degrades to the shared checkout and
\* keeps the workDir of its last turn; an evaluation fails instead.
Resolve(w) ==
    /\ work[w].pc = "resolving"
    /\ \/ site.git /\ work' = [work EXCEPT ![w].pc = "tree", ![w].dir = site.kind = "run"]
       \/ ~site.git /\ work' = [work EXCEPT ![w].pc = "shared"]
       \/ site.git /\ site.kind = "run" /\ work' = [work EXCEPT ![w].pc = "shared"]
       \/ site.git /\ site.kind = "evaluation" /\ work' = [work EXCEPT ![w].pc = "ended", ![w].at = None]
    /\ UNCHANGED <<site, src, bound, job, busy, recl, procs, fails, marks>>

\* The CLI exits, then the lease is released.
Finish(w) ==
    /\ work[w].pc \in {"tree", "shared"}
    /\ work' = [work EXCEPT ![w].pc = "ended", ![w].at = None]
    /\ UNCHANGED <<site, src, bound, job, busy, recl, procs, fails, marks>>

\* By its owner, or by the sweep for an owner that died.
Release(w) ==
    /\ work[w].pc = "ended"
    /\ work' = [work EXCEPT ![w].pc = "idle"]
    /\ UNCHANGED <<site, src, bound, job, busy, recl, procs, fails, marks>>

-----------------------------------------------------------------------------
(* The Agent's binding, PATCH and DELETE of the source. Their look at      *)
(* busyCheckouts comes before the section; a job that takes the lock in    *)
(* between either claims the row, which the section sees, or waits for the *)
(* section, so the two are one step here.                                  *)

\* mutateAgentBinding: a new binding needs a ready source, and an old one stays while
\* the Agent has work.
Bind ==
    /\ ~bound /\ src.state = "live" /\ src.ready
    /\ bound' = TRUE
    /\ UNCHANGED <<site, src, work, job, busy, recl, procs, fails, marks>>

Unbind ==
    /\ bound /\ Leased = {}
    /\ bound' = FALSE
    /\ UNCHANGED <<site, src, work, job, busy, recl, procs, fails, marks>>

\* The row now has path p, for whoever reads it from here on.
Repoint(p) == seen' = [i \in Inst |-> IF phase[i] = "down" THEN {} ELSE seen[i] \cup {p}]

\* Mutant: the update does not look at the claims.
PatchResets_NoClaim(i, p) ==
    /\ busy[i] = None /\ src.state = "live" /\ Leased = {}
    /\ src' = [src EXCEPT !.path = p, !.ready = FALSE, !.sync = "idle"]
    /\ Repoint(p) /\ stamp' = None /\ parted' = FALSE

\* A new localPath or config: the row is to be synced again.
PatchResets(i, p) ==
    /\ busy[i] = None /\ Free /\ Leased = {}
    /\ src' = [src EXCEPT !.path = p, !.ready = FALSE, !.sync = "idle"]
    /\ Repoint(p) /\ stamp' = None /\ parted' = FALSE

\* The same values as in the row: they are written, and no claim is looked at. Nor are
\* the workloads when it is the config that was sent.
PatchKeeps(p) ==
    /\ src.state = "live"
    /\ src' = [src EXCEPT !.path = p]
    /\ Repoint(p) /\ parted' = (parted \/ p # src.path)
    /\ UNCHANGED stamp

\* PATCH of the place, localPath or config, to p. Whether it changes is judged from the
\* row as it was when the request began.
Patch(i) ==
    /\ \E was \in seen[i], p \in Paths : IF p # was THEN PatchResets(i, p) ELSE PatchKeeps(p)
    /\ UNCHANGED <<site, bound, work, job, busy, recl, phase, recov, fails, stops>>

\* DELETE, first phase, or again when an earlier one did not get through.
Delete(i) ==
    /\ Serving(i) /\ busy[i] = None /\ recl[i] = "none"
    /\ ~bound /\ Leased = {}
    /\ Free \/ src.state = "deleting"
    /\ src' = [src EXCEPT !.state = "deleting"]
    /\ recl' = [recl EXCEPT ![i] = "isolate"]
    /\ UNCHANGED <<site, bound, work, job, busy, procs, fails, marks>>

\* isolateManagedScmStorage moves the storage and commit removes it; a move that fails,
\* or a peer source in the way, keeps the reservation for a later attempt.
Isolate(i) ==
    /\ recl[i] = "isolate"
    /\ \/ recl' = [recl EXCEPT ![i] = "finalize"] /\ UNCHANGED fails
       \/ recl' = [recl EXCEPT ![i] = "none"] /\ Fail("retried")
    /\ UNCHANGED <<site, src, bound, work, job, busy, procs, marks>>

Finalize(i) ==
    /\ recl[i] = "finalize"
    /\ src' = [src EXCEPT !.state = "deleted"]
    /\ recl' = [recl EXCEPT ![i] = "none"]
    /\ UNCHANGED <<site, bound, work, job, busy, procs, fails, marks>>

-----------------------------------------------------------------------------
(* Syncs.                                                                  *)

\* The recurring timer, and the initial checkout after a create, update or restart:
\* the lock in memory first, then the section. Startup arms it last.
Tick(i) ==
    LET j == <<i, "timer">> IN
    /\ phase[i] = "up" /\ recov[i] = "none"
    /\ job[j].pc = "idle" /\ busy[i] = None
    /\ busy' = [busy EXCEPT ![i] = j]
    /\ Goto(j, "section")
    /\ UNCHANGED <<site, src, bound, work, recl, procs, fails, marks>>

\* POST sync claims the row and then takes the lock in memory.
ManualClaim(i) ==
    LET j == <<i, "request">> IN
    /\ Serving(i) /\ job[j].pc = "idle" /\ Free
    /\ src' = [src EXCEPT !.sync = "syncing"]
    /\ Claim(j, "claimed")
    /\ UNCHANGED <<site, bound, work, busy, recl, procs, fails, marks>>

\* A fenced process goes home with the claim and the lock.
ManualCheckout(i) ==
    LET j == <<i, "request">> IN
    /\ job[j].pc = "claimed"
    /\ \/ busy[i] # None /\ Goto(j, "rollback") /\ UNCHANGED busy
       \/ /\ busy[i] = None
          /\ busy' = [busy EXCEPT ![i] = j]
          /\ job' = [job EXCEPT ![j] = IF phase[i] = "fenced" THEN NoJob
                                       ELSE [@ EXCEPT !.pc = "section", !.pre = TRUE]]
    /\ UNCHANGED <<site, src, bound, work, recl, procs, fails, marks>>

Rollback(j) ==
    /\ job[j].pc \in {"rollback", "refused"}
    /\ src' = [src EXCEPT !.sync = "idle"]
    /\ job' = [job EXCEPT ![j] = NoJob]
    /\ UNCHANGED <<site, bound, work, busy, recl, procs, fails, marks>>

\* The job holds the claim, or takes it in this section.
MayClaim(j) == job[j].pre \/ Free

\* One section under the SCM lock: the claim, the configuration and the occupancy. An
\* occupied checkout defers the sync.
Section(j) ==
    /\ job[j].pc = "section"
    /\ \/ /\ ~MayClaim(j)
          /\ Done(j)
          /\ UNCHANGED src
       \/ /\ MayClaim(j) /\ src.state = "live" /\ findSharedCheckoutScmWorkload
          /\ src' = [src EXCEPT !.sync = "idle"]
          /\ Done(j)
       \/ /\ MayClaim(j) /\ src.state = "live" /\ ~findSharedCheckoutScmWorkload
          /\ src' = [src EXCEPT !.sync = "syncing"]
          /\ job' = [job EXCEPT ![j].pc = "working", ![j].path = src.path, ![j].void = Mistaken]
          /\ UNCHANGED busy
    /\ UNCHANGED <<site, bound, work, recl, procs, fails, marks>>

\* A path that overlaps the reclaim root, or a deletion, is refused with the claim held.
Refuse(j) ==
    /\ job[j].pc = "section" /\ MayClaim(j)
    /\ IF src.state = "live" THEN Fail("retried") ELSE UNCHANGED fails
    /\ src' = [src EXCEPT !.sync = "syncing"]
    /\ busy' = [busy EXCEPT ![j[1]] = None]
    /\ Claim(j, "refused")
    /\ UNCHANGED <<site, bound, work, recl, procs, marks>>

\* executeP4Sync or executeGitSync returns, also when it is aborted.
SyncEnds(j) ==
    /\ job[j].pc = "working"
    /\ \E ok \in BOOLEAN : job' = [job EXCEPT ![j].pc = "terminal", ![j].ok = ok]
    /\ UNCHANGED <<site, src, bound, work, busy, recl, procs, fails, marks>>

handsOffToCodegraph(j) == job[j].ok /\ site.codegraph

\* History: what a terminal write of success is about.
Stamped(j) ==
    /\ stamp' = IF job[j].ok THEN job[j].path ELSE stamp
    /\ parted' = IF job[j].ok THEN job[j].path # src.path /\ (parted \/ job[j].void) ELSE parted

\* Mutant: the lock in memory is not given back after a sync.
Terminal_KeepsCheckout(j) ==
    /\ job[j].pc = "terminal"
    /\ src' = [src EXCEPT !.ready = @ \/ job[j].ok,
                          !.sync = IF handsOffToCodegraph(j) THEN "syncing" ELSE "idle",
                          !.index = IF handsOffToCodegraph(j) THEN "indexing" ELSE @]
    /\ job' = [job EXCEPT ![j] = IF handsOffToCodegraph(j) THEN [@ EXCEPT !.pc = "indexing"] ELSE NoJob]
    /\ Stamped(j)
    /\ UNCHANGED <<site, bound, work, busy, recl, procs, fails>>

\* The terminal write. The claim is kept when CodeGraph follows.
Terminal(j) ==
    /\ job[j].pc = "terminal"
    /\ src' = [src EXCEPT !.ready = @ \/ job[j].ok,
                          !.sync = IF handsOffToCodegraph(j) THEN "syncing" ELSE "idle",
                          !.index = IF handsOffToCodegraph(j) THEN "indexing" ELSE @]
    /\ \/ handsOffToCodegraph(j) /\ Goto(j, "indexing") /\ UNCHANGED busy
       \/ ~handsOffToCodegraph(j) /\ Done(j)
    /\ Stamped(j)
    /\ UNCHANGED <<site, bound, work, recl, procs, fails>>

\* The terminal write fails, and a second one resets the status.
TerminalFails(j) ==
    /\ job[j].pc = "terminal"
    /\ Fail("retried")
    /\ Goto(j, "reset")
    /\ UNCHANGED <<site, src, bound, work, busy, recl, procs, marks>>

\* Mutant: the second write is forgotten.
Reset_None(j) ==
    /\ job[j].pc = "reset"
    /\ Done(j)
    /\ UNCHANGED <<site, src, bound, work, recl, procs, fails, marks>>

Reset(j) ==
    /\ job[j].pc = "reset"
    /\ src' = [src EXCEPT !.sync = "idle"]
    /\ Done(j)
    /\ UNCHANGED <<site, bound, work, recl, procs, fails, marks>>

\* runCodegraphIndex writes its status; the sync's claim goes last.
IndexEnds(j) ==
    /\ job[j].pc \in {"indexing", "reindexing"}
    /\ src' = [src EXCEPT !.index = "idle"]
    /\ \/ job[j].pc = "indexing" /\ Goto(j, "unclaim") /\ UNCHANGED busy
       \/ job[j].pc = "reindexing" /\ Done(j)
    /\ UNCHANGED <<site, bound, work, recl, procs, fails, marks>>

Unclaim(j) ==
    /\ job[j].pc = "unclaim"
    /\ src' = [src EXCEPT !.sync = "idle"]
    /\ Done(j)
    /\ UNCHANGED <<site, bound, work, recl, procs, fails, marks>>

\* Writes that are not tried again: the section of a claimed row, the reset, the
\* status of an index, the end of the claim after it, a claim that is given back.
Abandon(j) ==
    /\ Fail("own")
    /\ \/ job[j].pc \in {"section", "reset", "reindexing", "unclaim"} /\ Done(j)
       \/ /\ job[j].pc \in {"rollback", "refused"}
          /\ job' = [job EXCEPT ![j] = NoJob] /\ UNCHANGED busy
       \/ job[j].pc = "indexing" /\ Goto(j, "unclaim") /\ UNCHANGED busy
    /\ UNCHANGED <<site, src, bound, work, recl, procs, marks>>

\* POST reindex
ReindexClaim(i) ==
    LET j == <<i, "request">> IN
    /\ Serving(i) /\ site.codegraph /\ job[j].pc = "idle"
    /\ busy[i] = None /\ Free
    /\ src' = [src EXCEPT !.index = "indexing"]
    /\ Claim(j, "indexclaimed")
    /\ UNCHANGED <<site, bound, work, busy, recl, procs, fails, marks>>

\* Without the lock in memory the claim is given back; a fenced process does not index.
ReindexCheckout(i) ==
    LET j == <<i, "request">> IN
    /\ job[j].pc = "indexclaimed"
    /\ \/ /\ busy[i] # None \/ phase[i] = "fenced"
          /\ src' = [src EXCEPT !.index = "idle"]
          /\ job' = [job EXCEPT ![j] = NoJob]
          /\ UNCHANGED busy
       \/ /\ busy[i] = None /\ phase[i] # "fenced"
          /\ busy' = [busy EXCEPT ![i] = j]
          /\ Goto(j, "reindexing")
          /\ UNCHANGED src
    /\ UNCHANGED <<site, bound, work, recl, procs, fails, marks>>

-----------------------------------------------------------------------------
(* Processes.                                                              *)

Stop == faults < MaxFaults /\ stops' = stops + 1

Down(i) ==
    /\ phase' = [phase EXCEPT ![i] = "down"]
    /\ recov' = [recov EXCEPT ![i] = "none"]
    /\ seen' = [seen EXCEPT ![i] = {}]
    /\ busy' = [busy EXCEPT ![i] = None]
    /\ job' = [j \in Jobs |-> IF j[1] = i THEN NoJob ELSE job[j]]
    /\ recl' = [recl EXCEPT ![i] = "none"]
    /\ work' = [w \in Works |-> IF work[w].at = i
                                THEN [work[w] EXCEPT !.pc = "ended", !.at = None] ELSE work[w]]
    /\ UNCHANGED <<site, src, bound, fails, marks>>

Crash(i) == phase[i] = "up" /\ Stop /\ Down(i)

\* A process that lost its heartbeat takes no new work and exits.
Fence(i) ==
    /\ phase[i] = "up" /\ ~site.sqlite /\ Stop
    /\ phase' = [phase EXCEPT ![i] = "fenced"]
    /\ UNCHANGED <<site, src, bound, work, job, busy, recl, recov, seen, fails, marks>>

\* At the latest after the hard timeout of the shutdown, whatever is still running.
Exit(i) == phase[i] = "fenced" /\ Down(i) /\ UNCHANGED stops

\* One process at a time on SQLite.
Boot(i) ==
    /\ phase[i] = "down"
    /\ site.sqlite => \A k \in Inst : phase[k] = "down"
    /\ phase' = [phase EXCEPT ![i] = "up"]
    /\ recov' = [recov EXCEPT ![i] = "list"]
    /\ seen' = [seen EXCEPT ![i] = {src.path}]
    /\ UNCHANGED <<site, src, bound, work, job, busy, recl, fails, stops, marks>>

\* initAutoSyncSchedulers: on SQLite a claim belongs to the process before.
RecoverList(i) ==
    /\ recov[i] = "list"
    /\ recov' = [recov EXCEPT ![i] = IF site.sqlite /\ ~(src.sync = "idle" /\ src.index = "idle")
                                     THEN "reset" ELSE "resume"]
    /\ UNCHANGED <<site, src, bound, work, job, busy, recl, phase, seen, fails, stops, marks>>

\* Mutant: the status of an interrupted index stays.
RecoverReset_SyncOnly(i) ==
    /\ recov[i] = "reset"
    /\ src' = [src EXCEPT !.sync = "idle"]
    /\ job' = [j \in Jobs |-> [job[j] EXCEPT !.void = @ \/ Claims(j)]]
    /\ recov' = [recov EXCEPT ![i] = "resume"]
    /\ UNCHANGED <<site, bound, work, busy, recl, phase, seen, fails, stops, marks>>

\* The claims of this process go with them: a request may have come first.
RecoverReset(i) ==
    /\ recov[i] = "reset"
    /\ src' = [src EXCEPT !.sync = "idle", !.index = "idle"]
    /\ job' = [j \in Jobs |-> [job[j] EXCEPT !.void = @ \/ Claims(j)]]
    /\ recov' = [recov EXCEPT ![i] = "resume"]
    /\ UNCHANGED <<site, bound, work, busy, recl, phase, seen, fails, stops, marks>>

\* A deletion that a crash interrupted goes on, on every replica that starts.
RecoverDeletion(i) ==
    /\ recov[i] = "resume"
    /\ recov' = [recov EXCEPT ![i] = "none"]
    /\ recl' = [recl EXCEPT ![i] = IF src.state = "deleting" THEN "isolate" ELSE @]
    /\ UNCHANGED <<site, src, bound, work, job, busy, phase, seen, fails, stops, marks>>

-----------------------------------------------------------------------------
Init ==
    /\ site \in Sites
    /\ src = [sync |-> "idle", index |-> "idle", path |-> 1, ready |-> FALSE, state |-> "live"]
    /\ bound = FALSE
    /\ work = [w \in Works |-> NoWork]
    /\ job = [j \in Jobs |-> NoJob]
    /\ busy = [i \in Inst |-> None]
    /\ recl = [i \in Inst |-> "none"]
    /\ phase = [i \in Inst |-> IF site.sqlite /\ i # (CHOOSE k \in Inst : TRUE) THEN "down" ELSE "up"]
    /\ recov = [i \in Inst |-> "none"]
    /\ seen = [i \in Inst |-> IF phase[i] = "up" THEN {1} ELSE {}]
    /\ fails = [retried |-> 0, own |-> 0] /\ stops = 0
    /\ stamp = None /\ parted = FALSE

WorkStep(w) == (\E i \in Inst : Activate(w, i)) \/ Resolve(w) \/ Finish(w) \/ Release(w)

JobStep(j) ==
    \/ Section(j) \/ SyncEnds(j) \/ Terminal(j) \/ Reset(j) \/ IndexEnds(j) \/ Unclaim(j)
    \/ Rollback(j)

RequestStep(i) == ManualCheckout(i) \/ ReindexCheckout(i)

Recover(i) == RecoverList(i) \/ RecoverReset(i) \/ RecoverDeletion(i)

Reclaim(i) == Isolate(i) \/ Finalize(i)

Next ==
    \/ \E w \in Works : Admit(w) \/ WorkStep(w)
    \/ Bind \/ Unbind
    \/ \E i \in Inst :
        \/ Patch(i) \/ Delete(i) \/ Tick(i) \/ ManualClaim(i) \/ ReindexClaim(i)
        \/ RequestStep(i) \/ Reclaim(i) \/ Recover(i)
        \/ Crash(i) \/ Fence(i) \/ Exit(i) \/ Boot(i)
    \/ \E j \in Jobs : JobStep(j) \/ Refuse(j) \/ TerminalFails(j) \/ Abandon(j)

Spec == Init /\ [][Next]_vars

\* Jobs run on (syncs and index runs have timeouts), workloads end, startup goes
\* through and the container runtime starts a process again. Timers and clients owe
\* nothing.
Fairness ==
    /\ \A w \in Works : WF_vars(WorkStep(w))
    /\ \A j \in Jobs : WF_vars(JobStep(j))
    /\ \A i \in Inst : /\ WF_vars(RequestStep(i)) /\ WF_vars(Reclaim(i))
                       /\ WF_vars(Recover(i)) /\ WF_vars(Exit(i)) /\ WF_vars(Boot(i))

FairSpec == Spec /\ Fairness

-----------------------------------------------------------------------------
(* Properties.                                                             *)

Holding == {"section", "working", "terminal", "reset", "indexing", "reindexing", "unclaim"}

\* The shape of the state, and the lock in memory (tryAcquireCheckout,
\* releaseCheckout): a process that is up holds it for a job that is running.
TypeOK ==
    /\ site \in Sites
    /\ src \in [sync : {"idle", "syncing"}, index : {"idle", "indexing"}, path : Paths,
                ready : BOOLEAN, state : {"live", "deleting", "deleted"}]
    /\ bound \in BOOLEAN
    /\ work \in [Works -> [pc : {"idle", "queued", "resolving", "tree", "shared", "ended"},
                           at : Inst \cup {None}, dir : BOOLEAN]]
    /\ job \in [Jobs -> [pc : Holding \cup {"idle", "claimed", "rollback", "refused", "indexclaimed"},
                         pre : BOOLEAN, path : Paths, ok : BOOLEAN, void : BOOLEAN]]
    /\ busy \in [Inst -> Jobs \cup {None}]
    /\ \A i \in Inst : phase[i] = "up" => busy[i] = None \/ job[busy[i]].pc \in Holding
    /\ recl \in [Inst -> {"none", "isolate", "finalize"}]
    /\ phase \in [Inst -> {"up", "fenced", "down"}]
    /\ recov \in [Inst -> {"none", "list", "reset", "resume"}]
    /\ seen \in [Inst -> SUBSET Paths]
    /\ fails \in [retried : Nat, own : Nat] /\ stops \in 0 .. MaxFaults
    /\ stamp \in Paths \cup {None} /\ parted \in BOOLEAN

\* Whoever is in the checkout by right: not a run that kept the workDir of its last turn
\* and degraded to the checkout, which nobody can see there, and not a job whose claim
\* startup took away.
InShared == {w \in Works : work[w].pc = "shared" /\ ~work[w].dir}
Indexing == {j \in Jobs : job[j].pc \in {"indexing", "reindexing"} /\ ~job[j].void}
Writing  == {j \in Jobs : job[j].pc = "working" /\ ~job[j].void}
            \cup (IF \E i \in Inst : recl[i] # "none" THEN {"reclaim"} ELSE {})

Checkout == INSTANCE DirectoryLock
    WITH Users <- Works \cup Jobs, Writers <- Jobs \cup {"reclaim"},
         using <- InShared \cup Indexing, writing <- Writing

\* The shared checkout has one writer and no user, or no writer: no sync rewrites it
\* under an agent's CLI or an index run, nothing enters it during a sync, and a
\* deletion takes the storage away from nobody, on any replica.
CheckoutExclusive == Checkout!Spec

EveryCheckout == INSTANCE DirectoryLock
    WITH Users <- Works \cup Jobs, Writers <- Jobs \cup {"reclaim"},
         using <- {w \in Works : work[w].pc = "shared"}
                  \cup {j \in Jobs : job[j].pc \in {"indexing", "reindexing"}},
         writing <- Writing \cup {j \in Jobs : job[j].pc = "working"}

\* The same of everybody in the checkout, which a degraded turn and the reset at startup
\* break.
EveryoneExclusive == EveryCheckout!Spec

\* initialSyncCompletedAt is about the path the row has now, unless a PATCH that judged
\* an old row, or a job without its claim, has parted them: no terminal write of a
\* sync stamps a path that was patched in meanwhile (p4-sync.ts: "the worker would then
\* run against a stale checkout while the terminal write stamps initialSyncCompletedAt
\* onto the new configuration").
StampIsCurrent == src.ready /\ ~parted => stamp = src.path

\* The same without the exception: "the authoritative guard is the ne('syncing')
\* predicate on the UPDATE below, which closes the read-to-write TOCTOU".
StampIsAlwaysCurrent == src.ready => stamp = src.path

\* A claim without a job that will give it back.
Unattended ==
    \A j \in Jobs : job[j].pc = "idle" \/ (job[j].pc = "section" /\ ~job[j].pre)

\* A stop on PostgreSQL leaves the claims of the process in the row, and so does a
\* failing write that is not tried again: recovery is the operator's.
Stranded == Unattended /\ (fails.own > 0 \/ (~site.sqlite /\ stops > 0))

\* Every claim on the row is given back, through failing syncs, a failing terminal
\* write, and on SQLite through a restart.
ClaimReleased == ~Free /\ src.state = "live" ~> src.state # "live" \/ Free \/ Stranded

\* What p4-sync.ts says of a status that the caller acquired: "any early return on the
\* pre-acquired path must still write a terminal status".
PreAcquiredSettles ==
    [][\A j \in Jobs : /\ job[j].pc = "claimed" \/ (job[j].pre /\ job[j].pc = "section")
                       /\ job'[j].pc = "idle" /\ phase'[j[1]] # "down"
                       => src'.sync = "idle"]_vars
=============================================================================
