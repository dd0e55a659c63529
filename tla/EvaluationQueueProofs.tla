------------------------ MODULE EvaluationQueueProofs ------------------------
(***************************************************************************)
(* Proofs about EvaluationQueue, for any number of replicas, tasks, cases, *)
(* exceptions and stops: one task replays at a time, a terminal status is  *)
(* final, and the cases of a terminal task are settled, but for what the   *)
(* properties except.                                                      *)
(*                                                                         *)
(* The executor writes the status of its task without a look at it. What   *)
(* makes that safe is that the task is running for as long as its executor *)
(* is before the terminal write: nobody else touches a running task whose  *)
(* executor lives, since the reaper asks for a dead owner of the lease.    *)
(* Startup recovery does, when a request came before it; the task is then  *)
(* a mistaken one, about which the invariant says next to nothing, and     *)
(* what remains to be shown is that it does not disturb the others.        *)
(***************************************************************************)
EXTENDS EvaluationQueue, FiniteSetTheorems, TLAPS

LeaseType == [phase : {"none", "reserved", "active"}, owner : Inst \cup {None}, boot : Nat]
ExType    == [pc : Pcs, at : Inst \cup {None}, case : 1 .. NumCases + 1, leased : BOOLEAN]
RecovType == [on : BOOLEAN, listed : BOOLEAN, todo : SUBSET Tasks, cur : Tasks \cup {None}]
TaskType  == {"none", "queued", "running", "deleted"} \cup Terminal
CaseType  == {"pending", "running", "settled"}
ScarType  == SUBSET {"mistaken", "fenced", "threw"}
PhaseType == {"up", "draining", "fenced", "down"}

\* The loop is at a case of the set, and who works on a task is in a process.
InCase(t) == ex[t].pc \in {"case", "cli"} => ex[t].case \in Cases
InProcess(t) == ex[t].pc \in {"none", "dead"} <=> ex[t].at = None
CaseInv == \A t \in Tasks : InCase(t) /\ InProcess(t)

BaseInv == TypeOK /\ CaseInv

\* Executors and requests are in a process that is up, and one that is down does
\* nothing.
ProcessInv ==
    /\ \A t \in Tasks : ex[t].at # None => Up(ex[t].at)
    /\ site.sqlite => \A i, j \in Inst : Up(i) /\ Up(j) => i = j
    /\ \A i \in Inst : ~Up(i) => ~nudge[i] /\ recov[i] = NoRecovery

\* From its start to the terminal write an executor has a running task.
Executing(t) == ex[t].pc \in Attempting \cup {"cli", "failing"}

\* One task runs, its executor's lease cannot be taken for a dead one's, and recovery
\* works on tasks whose executor is gone. A mistaken task, which is none of these, was
\* started once and will not be started again.
TaskInv ==
    /\ \A t \in Tasks \ Mistaken : Executing(t) => task[t] = "running"
    /\ \A t, u \in Running \ Mistaken : t = u
    /\ \A t \in Tasks : task[t] \in {"none", "queued"} \/ At(t, "start") => lease[t].phase # "active"
    /\ \A t \in Tasks : lease[t].phase = "active" /\ ex[t].pc \notin {"none", "dead", "request"}
                          => lease[t].owner = ex[t].at /\ lease[t].boot = boot[ex[t].at]
    /\ \A i \in Inst : \A t \in Tasks \ Mistaken : t \in recov[i].todo \/ t = recov[i].cur =>
          ex[t].pc \in {"none", "dead"} /\ task[t] \in {"running", "failed", "deleted"}
    /\ \A t \in Tasks : At(t, "request") => task[t] \in {"cancelled", "deleted"}
    /\ \A t \in Mistaken : task[t] \notin {"none", "queued"} /\ ~At(t, "request")

\* The loop settles one case after the other, and the executor completes a task only
\* when it has come to the end.
SettleOf(t) ==
    /\ ex[t].pc \in {"start", "check", "begin", "loop", "case", "cli"}
          => \A c \in Cases : c < ex[t].case => result[t][c] = "settled"
    /\ At(t, "ended") => cancel[t] \/ Unfinished(t) = {}
    /\ At(t, "completing") => Unfinished(t) = {}
    /\ ~LeftOpen(t)

SettleInv == \A t \in Tasks : scar[t] = {} => SettleOf(t)

IInv == BaseInv /\ ProcessInv /\ TaskInv
\* TypeOK with its record types named.
LEMMA Types ==
  TypeOK <=> /\ site \in Sites
             /\ task \in [Tasks -> TaskType]
             /\ cancel \in [Tasks -> BOOLEAN]
             /\ result \in [Tasks -> [Cases -> CaseType]]
             /\ lease \in [Tasks -> LeaseType]
             /\ ex \in [Tasks -> ExType]
             /\ nudge \in [Inst -> BOOLEAN]
             /\ phase \in [Inst -> PhaseType]
             /\ boot \in [Inst -> Nat]
             /\ recov \in [Inst -> RecovType]
             /\ faults \in 0 .. MaxFaults /\ lost \in BOOLEAN
             /\ scar \in [Tasks -> ScarType]
             /\ Cardinality(Queued) <= site.limit
  BY DEF TypeOK, TaskType, CaseType, LeaseType, ExType, RecovType, ScarType, PhaseType

\* What a task, a case, a lease and an executor begin with.
LEMMA Fresh ==
  /\ Idle \in ExType /\ Idle.pc = "none" /\ Idle.at = None /\ Idle.case = 1
  /\ NoLease \in LeaseType /\ NoLease.phase = "none"
  /\ Reserved \in LeaseType /\ Reserved.phase = "reserved"
  /\ NoRecovery \in RecovType /\ NoRecovery.on = FALSE /\ NoRecovery.cur = None /\ NoRecovery.todo = {}
  /\ None \notin Tasks /\ None \notin Inst /\ NumCases \in Nat
  BY ConstantsOK DEF Idle, NoLease, Reserved, NoRecovery, ExType, LeaseType, RecovType, Pcs, Attempting, Concluding, Tasks

\* A queue that loses tasks keeps its bound, and one that is not full may get one more.
LEMMA QueueBound ==
  ASSUME TypeOK, NEW t, UNCHANGED site,
         Queued' \subseteq Queued \/ (Queued' \subseteq Queued \cup {t} /\ ~QueueFull)
  PROVE  Cardinality(Queued') <= site'.limit
  <1>1. IsFiniteSet(Queued)
    <2>1. IsFiniteSet(Tasks) /\ Queued \subseteq Tasks
      BY ConstantsOK, FS_Interval DEF Tasks, Queued
    <2> QED
      BY <2>1, FS_Subset
  <1>2. site.limit \in Nat /\ Cardinality(Queued) \in Nat /\ Cardinality(Queued) <= site.limit
    BY <1>1, FS_CardinalityType, ConstantsOK DEF TypeOK
  <1>3. CASE Queued' \subseteq Queued
    <2>1. IsFiniteSet(Queued') /\ Cardinality(Queued') <= Cardinality(Queued)
      BY <1>1, <1>3, FS_Subset
    <2> QED
      BY <1>2, <2>1, FS_CardinalityType
  <1>4. CASE Queued' \subseteq Queued \cup {t} /\ ~QueueFull
    <2>1. IsFiniteSet(Queued \cup {t}) /\ Cardinality(Queued \cup {t}) <= Cardinality(Queued) + 1
      <3>1. /\ IsFiniteSet(Queued \cup {t})
            /\ Cardinality(Queued \cup {t}) = IF t \in Queued THEN Cardinality(Queued) ELSE Cardinality(Queued) + 1
        BY <1>1, FS_AddElement
      <3> QED
        BY <1>2, <3>1
    <2>2. IsFiniteSet(Queued') /\ Cardinality(Queued') <= Cardinality(Queued \cup {t})
      BY <1>4, <2>1, FS_Subset
    <2>3. Cardinality(Queued') \in Nat /\ Cardinality(Queued \cup {t}) \in Nat
      BY <2>1, <2>2, FS_CardinalityType
    <2>4. Cardinality(Queued) < site.limit
      BY <1>2, <1>4 DEF QueueFull
    <2> QED
      BY <1>2, <2>1, <2>2, <2>3, <2>4
  <1> QED
    BY <1>3, <1>4

-----------------------------------------------------------------------------
(* Steps that are about one task, or none.                                 *)

\* A process in which work may begin.
Ready(i) == i \in Inst /\ Up(i)

\* Only the rows and the executor of task t change, if t is a task, and it is not
\* mistaken for another.
Frame(t) ==
    /\ UNCHANGED <<site, phase, boot, recov>>
    /\ task' \in [Tasks -> TaskType] /\ cancel' \in [Tasks -> BOOLEAN]
    /\ result' \in [Tasks -> [Cases -> CaseType]]
    /\ lease' \in [Tasks -> LeaseType] /\ ex' \in [Tasks -> ExType]
    /\ nudge' \in [Inst -> BOOLEAN] /\ faults' \in 0 .. MaxFaults /\ lost' \in BOOLEAN
    /\ scar' \in [Tasks -> ScarType] /\ Mistaken' = Mistaken
    /\ \A u \in Tasks : scar[u] \subseteq scar'[u]
    /\ \A u \in Tasks \ {t} : /\ task'[u] = task[u] /\ cancel'[u] = cancel[u] /\ result'[u] = result[u]
                              /\ lease'[u] = lease[u] /\ ex'[u] = ex[u] /\ scar'[u] = scar[u]

\* The queue takes task t only while it is not full, a loop goes to a case, and who
\* works on it is in a process.
BaseLocal(t) ==
    /\ task'[t] = "queued" => task[t] = "queued" \/ ~QueueFull
    /\ InCase(t)' /\ InProcess(t)'

\* What the step makes of task t: who may begin to work on it and when it may run, what
\* becomes of its lease, and that what has come to its end stays there.
TaskLocal(t) ==
    /\ ex'[t].at \in {None, ex[t].at} \/ Ready(ex'[t].at)
    /\ t \notin Mistaken /\ Executing(t)' => task'[t] = "running"
    /\ task'[t] = "running" => task[t] = "running" \/ Running = {} \/ t \in Mistaken
    /\ task'[t] \in {"none", "queued"} \/ At(t, "start")' => lease'[t].phase # "active"
    /\ lease'[t].phase = "active" /\ ex'[t].pc \notin {"none", "dead", "request"}
          => lease'[t].owner = ex'[t].at /\ lease'[t].boot = boot[ex'[t].at]
    /\ ex[t].pc \in {"none", "dead"} /\ task[t] \in {"running", "failed", "deleted"}
          => ex'[t].pc \in {"none", "dead"} /\ task'[t] \in {"running", "failed", "deleted"}
    /\ At(t, "request")' => task'[t] \in {"cancelled", "deleted"}
    /\ task[t] \notin {"none", "queued"}
          => task'[t] \notin {"none", "queued"} /\ (At(t, "request")' => At(t, "request"))
    /\ task[t] \in Terminal /\ t \notin Mistaken
          => task'[t] \in {task[t], "deleted"} \/ (At(t, "overruling") /\ task'[t] = "failed")

\* A process is told of the queue by its own work, or when it serves.
NudgeLocal(t) ==
    \A i \in Inst : nudge'[i] => nudge[i] \/ Ready(i) \/ (t \in Tasks /\ ex[t].at = i)

\* A step of this kind.
LocalStep(t) ==
    /\ Frame(t) /\ NudgeLocal(t)
    /\ t \in Tasks => TaskLocal(t)

LEMMA FrameBase ==
  ASSUME BaseInv, NEW t, Frame(t), t \in Tasks => BaseLocal(t)
  PROVE  BaseInv'
  <1>0. TypeOK /\ CaseInv
    BY DEF BaseInv
  <1>1. Queued' \subseteq Queued \/ (Queued' \subseteq Queued \cup {t} /\ ~QueueFull)
    BY DEF Queued, Frame, BaseLocal
  <1>2. Cardinality(Queued') <= site'.limit
    BY <1>0, <1>1, QueueBound DEF Frame
  <1>3. TypeOK'
    BY <1>0, <1>2, Types DEF TypeOK, Frame, TaskType, CaseType, LeaseType, ExType, RecovType, ScarType, PhaseType
  <1>4. CaseInv'
    BY <1>0 DEF CaseInv, InCase, InProcess, Frame, BaseLocal
  <1> QED
    BY <1>3, <1>4 DEF BaseInv

LEMMA FrameTask ==
  ASSUME BaseInv, ProcessInv, TaskInv, NEW t, LocalStep(t)
  PROVE  ProcessInv' /\ TaskInv'
  <1>0. Frame(t) /\ NudgeLocal(t) /\ (t \in Tasks => TaskLocal(t))
    BY DEF LocalStep
  <1>1. UNCHANGED <<site, phase, boot, recov>> /\ \A i \in Inst : Up(i)' <=> Up(i)
    BY <1>0 DEF Frame, Up
  <1>2. \A u \in Tasks \ {t} : task'[u] = task[u] /\ lease'[u] = lease[u] /\ ex'[u] = ex[u]
    BY <1>0 DEF Frame
  <1>3. t \in Tasks => ex'[t].at \in {None, ex[t].at} \/ Ready(ex'[t].at)
    BY <1>0 DEF TaskLocal
  <1>4. ProcessInv'
    <2>2. \A u \in Tasks : ex'[u].at # None => phase'[ex'[u].at] # "down"
      BY <1>1, <1>2, <1>3 DEF ProcessInv, Ready, Up
    <2>3. \A i \in Inst : ~Up(i) => ~nudge'[i]
      BY <1>0, Fresh DEF ProcessInv, NudgeLocal, Ready, Up
    <2> QED
      BY <1>1, <2>2, <2>3 DEF ProcessInv, Up
  <1>5. TaskInv'
    <2>0. Mistaken' = Mistaken /\ Mistaken \subseteq Tasks
      BY <1>0 DEF Frame, Mistaken
    <2>1. \A u \in Tasks \ Mistaken : Executing(u)' => task'[u] = "running"
      BY <1>0, <1>2 DEF TaskInv, TaskLocal, Executing
    <2>2. \A u, v \in Running' \ Mistaken : u = v
      <3>1. Running' \ Mistaken \subseteq Running \ Mistaken \/ (Running' \subseteq {t} /\ Running = {})
        BY <1>0, <1>2 DEF Running, TaskLocal
      <3> QED
        BY <3>1 DEF TaskInv
    <2>3. \A u \in Tasks : task'[u] \in {"none", "queued"} \/ At(u, "start")' => lease'[u].phase # "active"
      BY <1>0, <1>2 DEF TaskInv, TaskLocal, At
    <2>4. \A u \in Tasks : lease'[u].phase = "active" /\ ex'[u].pc \notin {"none", "dead", "request"}
                             => lease'[u].owner = ex'[u].at /\ lease'[u].boot = boot'[ex'[u].at]
      BY <1>0, <1>1, <1>2 DEF TaskInv, TaskLocal
    <2>5. ASSUME NEW i \in Inst, NEW u \in Tasks \ Mistaken, u \in recov[i].todo \/ u = recov[i].cur
          PROVE  ex'[u].pc \in {"none", "dead"} /\ task'[u] \in {"running", "failed", "deleted"}
      BY <1>0, <1>2, <2>5 DEF TaskInv, TaskLocal
    <2>6. \A u \in Tasks : At(u, "request")' => task'[u] \in {"cancelled", "deleted"}
      BY <1>0, <1>2 DEF TaskInv, TaskLocal, At
    <2>7. \A u \in Mistaken : task'[u] \notin {"none", "queued"} /\ ~At(u, "request")'
      BY <1>0, <1>2, <2>0 DEF TaskInv, TaskLocal, At
    <2> QED
      BY <1>1, <2>0, <2>1, <2>2, <2>3, <2>4, <2>5, <2>6, <2>7 DEF TaskInv
  <1> QED
    BY <1>4, <1>5

\* The cases of task t after the step.
SettleLocal(t) == scar'[t] = {} => SettleOf(t)'

LEMMA FrameSettle ==
  ASSUME SettleInv, NEW t, Frame(t), t \in Tasks => SettleLocal(t)
  PROVE  SettleInv'
  <1>1. UNCHANGED recov /\ \A u \in Tasks \ {t} : /\ task'[u] = task[u] /\ cancel'[u] = cancel[u]
                                                  /\ result'[u] = result[u] /\ ex'[u] = ex[u]
                                                  /\ Unfinished(u)' = Unfinished(u) /\ scar'[u] = scar[u]
    BY DEF Frame, Unfinished
  <1>2. ASSUME NEW u \in Tasks \ {t} PROVE SettleLocal(u)
    <2>1. scar[u] = {} => SettleOf(u)
      BY DEF SettleInv
    <2>2. LeftOpen(u)' <=> LeftOpen(u)
      BY <1>1 DEF LeftOpen
    <2> QED
      BY <1>1, <2>1, <2>2 DEF SettleOf, SettleLocal, At
  <1> QED
    BY <1>2 DEF SettleInv, SettleLocal

\* What becomes of the tasks that are scarred.
LEMMA Scars ==
  ASSUME TypeOK, NEW T, NEW what \in {"mistaken", "fenced", "threw"}, Scar(T, what)
  PROVE  /\ scar' \in [Tasks -> ScarType]
         /\ \A u \in Tasks : scar'[u] = IF u \in T THEN scar[u] \cup {what} ELSE scar[u]
         /\ \A u \in Tasks : scar[u] \subseteq scar'[u]
         /\ what # "mistaken" => Mistaken' = Mistaken
  <1>0. scar \in [Tasks -> ScarType]
    BY Types
  <1>1. \A u \in Tasks : scar'[u] = IF u \in T THEN scar[u] \cup {what} ELSE scar[u]
    BY DEF Scar
  <1>2. \A u \in Tasks : scar[u] \cup {what} \in ScarType
    BY <1>0 DEF ScarType
  <1>3. scar' \in [Tasks -> ScarType]
    BY <1>0, <1>2 DEF Scar
  <1>4. what # "mistaken" => Mistaken' = Mistaken
    BY <1>1 DEF Mistaken
  <1> QED
    BY <1>1, <1>3, <1>4

LEMMA ScarsOne ==
  ASSUME TypeOK, NEW t \in Tasks, Scar({t}, "threw")
  PROVE  /\ scar' \in [Tasks -> ScarType] /\ Mistaken' = Mistaken /\ scar'[t] # {}
         /\ \A u \in Tasks : scar[u] \subseteq scar'[u]
         /\ \A u \in Tasks \ {t} : scar'[u] = scar[u]
  <1> DEFINE T == {t}
  <1>1. Scar(T, "threw") /\ "threw" # "mistaken" /\ \A u : u \in T <=> u = t
    OBVIOUS
  <1> HIDE DEF T
  <1>2. /\ scar' \in [Tasks -> ScarType] /\ Mistaken' = Mistaken
        /\ \A u \in Tasks : scar[u] \subseteq scar'[u]
        /\ \A u \in Tasks : scar'[u] = IF u \in T THEN scar[u] \cup {"threw"} ELSE scar[u]
    BY <1>1, Scars, Zenon
  <1> QED
    BY <1>1, <1>2

\* A fault is counted.
LEMMA Faults ==
  ASSUME TypeOK, Fault
  PROVE  faults' \in 0 .. MaxFaults
  BY Types, ConstantsOK DEF Fault

\* The executor of task t goes on in step pc.
LEMMA Goes ==
  ASSUME TypeOK, NEW t \in Tasks, NEW pc \in Pcs, Goto(t, pc)
  PROVE  /\ ex' \in [Tasks -> ExType] /\ \A u \in Tasks \ {t} : ex'[u] = ex[u]
         /\ ex'[t].pc = pc /\ ex'[t].at = ex[t].at /\ ex'[t].case = ex[t].case
  <1>0. ex \in [Tasks -> ExType]
    BY Types
  <1>1. ex' = [ex EXCEPT ![t] = [ex[t] EXCEPT !.pc = pc]]
    BY <1>0 DEF Goto
  <1>2. [ex[t] EXCEPT !.pc = pc] \in ExType
    BY <1>0 DEF ExType
  <1>3. ex' \in [Tasks -> ExType] /\ ex'[t] = [ex[t] EXCEPT !.pc = pc] /\ \A u \in Tasks \ {t} : ex'[u] = ex[u]
    BY <1>0, <1>1, <1>2
  <1> QED
    BY <1>0, <1>3 DEF ExType

\* A status is written to a row that is there.
LEMMA Writes ==
  ASSUME TypeOK, NEW t \in Tasks, NEW st \in TaskType, SetStatus(t, st)
  PROVE  /\ task' \in [Tasks -> TaskType] /\ \A u \in Tasks \ {t} : task'[u] = task[u]
         /\ task'[t] = IF Exists(t) THEN st ELSE task[t]
  BY Types DEF SetStatus

\* The rows of task t are settled.
LEMMA Settles ==
  ASSUME TypeOK, NEW t \in Tasks, result' = Settled(t)
  PROVE  /\ result' \in [Tasks -> [Cases -> CaseType]] /\ \A u \in Tasks \ {t} : result'[u] = result[u]
         /\ \A c \in Cases : result'[t][c] = "settled"
         /\ Unfinished(t)' = {}
  <1>1. /\ result' \in [Tasks -> [Cases -> CaseType]] /\ \A u \in Tasks \ {t} : result'[u] = result[u]
        /\ \A c \in Cases : result'[t][c] = "settled"
    BY Types DEF Settled, CaseType
  <1> QED
    BY <1>1 DEF Unfinished

\* The row of the case the loop is at.
LEMMA WritesCase ==
  ASSUME TypeOK, NEW t \in Tasks, NEW st \in CaseType, ex[t].case \in Cases, SetResult(t, st)
  PROVE  /\ result' \in [Tasks -> [Cases -> CaseType]] /\ \A u \in Tasks \ {t} : result'[u] = result[u]
         /\ \A c \in Cases : result'[t][c] = IF c = ex[t].case /\ Exists(t) THEN st ELSE result[t][c]
  <1>0. result \in [Tasks -> [Cases -> CaseType]]
    BY Types
  <1> DEFINE c0 == ex[t].case
             row == [result[t] EXCEPT ![c0] = IF Exists(t) THEN st ELSE result[t][c0]]
  <1>1. result' = [result EXCEPT ![t] = row]
    BY <1>0 DEF SetResult
  <1>2. row \in [Cases -> CaseType]
    BY <1>0
  <1>3. result'[t] = row /\ \A u \in Tasks \ {t} : result'[u] = result[u]
    BY <1>0, <1>1
  <1> QED
    BY <1>0, <1>1, <1>2, <1>3

\* The loop leaves the case it is at.
LEMMA NextCase ==
  ASSUME TypeOK, NEW t \in Tasks, ex[t].case \in Cases, ex' = [ex EXCEPT ![t].pc = "loop", ![t].case = @ + 1]
  PROVE  /\ ex' \in [Tasks -> ExType] /\ \A u \in Tasks \ {t} : ex'[u] = ex[u]
         /\ ex'[t].pc = "loop" /\ ex'[t].at = ex[t].at /\ ex'[t].case = ex[t].case + 1
  <1>0. ex \in [Tasks -> ExType]
    BY Types
  <1>1. ex' = [ex EXCEPT ![t] = [ex[t] EXCEPT !.pc = "loop", !.case = ex[t].case + 1]]
    BY <1>0
  <1>2. ex[t].case + 1 \in 1 .. NumCases + 1
    BY Fresh DEF Cases
  <1>3. [ex[t] EXCEPT !.pc = "loop", !.case = ex[t].case + 1] \in ExType
    BY <1>0, <1>2 DEF ExType, Pcs, Attempting, Concluding
  <1>4. /\ ex' \in [Tasks -> ExType] /\ \A u \in Tasks \ {t} : ex'[u] = ex[u]
        /\ ex'[t] = [ex[t] EXCEPT !.pc = "loop", !.case = ex[t].case + 1]
    BY <1>0, <1>1, <1>3
  <1> QED
    BY <1>0, <1>4 DEF ExType

\* ... and goes away.
LEMMA GoesAway ==
  ASSUME TypeOK, NEW t \in Tasks, ex' = [ex EXCEPT ![t] = Idle]
  PROVE  /\ ex' \in [Tasks -> ExType] /\ \A u \in Tasks \ {t} : ex'[u] = ex[u]
         /\ ex'[t].pc = "none" /\ ex'[t].at = None /\ ex'[t].case = 1
  <1>1. ex' \in [Tasks -> ExType] /\ ex'[t] = Idle /\ \A u \in Tasks \ {t} : ex'[u] = ex[u]
    BY Types, Fresh
  <1> QED
    BY <1>1, Fresh

\* The process of task t is told of the queue.
LEMMA Nudged ==
  ASSUME TypeOK, NEW i, nudge' = [nudge EXCEPT ![i] = TRUE]
  PROVE  nudge' \in [Inst -> BOOLEAN] /\ \A k \in Inst \ {i} : nudge'[k] = nudge[k]
  BY Types

-----------------------------------------------------------------------------
(* The steps of an executor.                                               *)

LEMMA ActivateDoes ==
  ASSUME TypeOK, NEW t \in Tasks, ex[t].at \in Inst, Activate(t)
  PROVE  /\ Frame(t) /\ UNCHANGED <<task, cancel, result, nudge>>
         /\ ex'[t].pc \in {"failing", "check"} /\ ex'[t].at = ex[t].at /\ ex'[t].case = ex[t].case
         /\ \/ lease'[t] = lease[t]
            \/ lease'[t] = [phase |-> "active", owner |-> ex[t].at, boot |-> boot[ex[t].at]]
  <1>0. ex \in [Tasks -> ExType] /\ lease \in [Tasks -> LeaseType] /\ boot \in [Inst -> Nat]
    BY Types
  <1> DEFINE pc == IF lease[t].phase # "none" /\ hasLostHeartbeatOwnership(ex[t].at) THEN "failing" ELSE "check"
             l == IF lease[t].phase = "reserved" /\ ~hasLostHeartbeatOwnership(ex[t].at)
                  THEN [phase |-> "active", owner |-> ex[t].at, boot |-> boot[ex[t].at]] ELSE lease[t]
             q == [ex[t] EXCEPT !.pc = pc, !.leased = (lease[t].phase # "none")]
  <1>1. ex' = [ex EXCEPT ![t] = q]
    BY <1>0 DEF Activate
  <1>2. lease' = [lease EXCEPT ![t] = l]
    BY <1>0 DEF Activate
  <1>3. l \in LeaseType
    BY <1>0 DEF LeaseType
  <1>4. q \in ExType /\ q.pc = pc /\ q.at = ex[t].at /\ q.case = ex[t].case
    BY <1>0 DEF ExType, Pcs, Attempting, Concluding
  <1>5. /\ lease' \in [Tasks -> LeaseType] /\ lease'[t] = l /\ \A u \in Tasks \ {t} : lease'[u] = lease[u]
    BY <1>0, <1>2, <1>3
  <1>6. /\ ex' \in [Tasks -> ExType] /\ ex'[t] = q /\ \A u \in Tasks \ {t} : ex'[u] = ex[u]
    BY <1>0, <1>1, <1>4
  <1>7. Frame(t) /\ UNCHANGED <<task, cancel, result, nudge>>
    BY <1>5, <1>6, Types DEF Frame, Activate, procs, marks, Mistaken
  <1> QED
    BY <1>4, <1>5, <1>6, <1>7

LEMMA CheckDoes ==
  ASSUME TypeOK, NEW t \in Tasks, Check(t)
  PROVE  /\ Frame(t) /\ UNCHANGED <<cancel, result, lease, nudge>>
         /\ ex'[t].at = ex[t].at /\ ex'[t].case = ex[t].case
         /\ \/ ~Exists(t) /\ ex'[t].pc = "release" /\ task'[t] = task[t]
            \/ Exists(t) /\ ex'[t].pc = "settle" /\ task'[t] = "cancelled"
            \/ Exists(t) /\ ex'[t].pc = "begin" /\ task'[t] = task[t]
  <1>1. \/ ~Exists(t) /\ Goto(t, "release") /\ UNCHANGED task
        \/ Exists(t) /\ SetStatus(t, "cancelled") /\ Goto(t, "settle")
        \/ Exists(t) /\ Goto(t, "begin") /\ UNCHANGED task
    BY DEF Check
  <1>2. /\ ex' \in [Tasks -> ExType] /\ \A u \in Tasks \ {t} : ex'[u] = ex[u]
        /\ ex'[t].at = ex[t].at /\ ex'[t].case = ex[t].case
    BY <1>1, Goes DEF Pcs, Attempting, Concluding
  <1>3. task' \in [Tasks -> TaskType] /\ \A u \in Tasks \ {t} : task'[u] = task[u]
    BY <1>1, Writes, Types DEF TaskType, Terminal
  <1>4. Frame(t) /\ UNCHANGED <<cancel, result, lease, nudge>>
    BY <1>2, <1>3, Types DEF Frame, Check, procs, marks, Mistaken
  <1>5. \/ ~Exists(t) /\ ex'[t].pc = "release" /\ task'[t] = task[t]
        \/ Exists(t) /\ ex'[t].pc = "settle" /\ task'[t] = "cancelled"
        \/ Exists(t) /\ ex'[t].pc = "begin" /\ task'[t] = task[t]
    BY <1>1, Goes, Writes DEF Pcs, Attempting, Concluding, TaskType, Terminal
  <1> QED
    BY <1>2, <1>4, <1>5

LEMMA BeginDoes ==
  ASSUME TypeOK, NEW t \in Tasks, Begin(t)
  PROVE  /\ Frame(t) /\ UNCHANGED <<cancel, result, lease, nudge>>
         /\ ex'[t].pc = "loop" /\ ex'[t].at = ex[t].at /\ ex'[t].case = ex[t].case
         /\ task'[t] = IF Exists(t) THEN "running" ELSE task[t]
  <1>1. /\ ex' \in [Tasks -> ExType] /\ \A u \in Tasks \ {t} : ex'[u] = ex[u]
        /\ ex'[t].pc = "loop" /\ ex'[t].at = ex[t].at /\ ex'[t].case = ex[t].case
    BY Goes DEF Begin, Pcs, Attempting, Concluding
  <1>2. /\ task' \in [Tasks -> TaskType] /\ \A u \in Tasks \ {t} : task'[u] = task[u]
        /\ task'[t] = IF Exists(t) THEN "running" ELSE task[t]
    BY Writes DEF Begin, TaskType
  <1> QED
    BY <1>1, <1>2, Types DEF Frame, Begin, procs, marks, Mistaken

LEMMA LoopDoes ==
  ASSUME TypeOK, NEW t \in Tasks, Loop(t)
  PROVE  /\ Frame(t) /\ UNCHANGED <<task, cancel, lease, nudge>>
         /\ ex'[t].at = ex[t].at /\ ex'[t].case = ex[t].case
         /\ \/ /\ ex[t].case \in Cases /\ ex'[t].pc = "case"
               /\ \A c \in Cases : c # ex[t].case => result'[t][c] = result[t][c]
            \/ /\ ex[t].case \notin Cases \/ shouldStopTask(t)
               /\ ex'[t].pc = "ended" /\ result' = result
               /\ hasLostHeartbeatOwnership(ex[t].at) => scar'[t] # {}
  <1> DEFINE T == {u \in {t} : hasLostHeartbeatOwnership(ex[u].at)}
  <1>1. \/ ex[t].case \in Cases /\ SetResult(t, "running") /\ Goto(t, "case") /\ UNCHANGED scar
        \/ /\ ex[t].case \notin Cases \/ shouldStopTask(t)
           /\ Goto(t, "ended") /\ UNCHANGED result /\ Scar(T, "fenced")
    BY DEF Loop
  <1>2. /\ ex' \in [Tasks -> ExType] /\ \A u \in Tasks \ {t} : ex'[u] = ex[u]
        /\ ex'[t].at = ex[t].at /\ ex'[t].case = ex[t].case
    BY <1>1, Goes DEF Pcs, Attempting, Concluding
  <1>3. result' \in [Tasks -> [Cases -> CaseType]] /\ \A u \in Tasks \ {t} : result'[u] = result[u]
    BY <1>1, WritesCase, Types DEF CaseType
  <1>4. Frame(t) /\ UNCHANGED <<task, cancel, lease, nudge>>
    <2>1. CASE UNCHANGED scar
      BY <1>2, <1>3, <2>1, Types DEF Frame, Loop, procs, Mistaken
    <2>2. CASE Scar(T, "fenced")
      <3>0. \A u \in T : u = t
        OBVIOUS
      <3> HIDE DEF T
      <3>1. /\ scar' \in [Tasks -> ScarType] /\ Mistaken' = Mistaken
            /\ \A u \in Tasks : scar[u] \subseteq scar'[u]
            /\ \A u \in Tasks : scar'[u] = IF u \in T THEN scar[u] \cup {"fenced"} ELSE scar[u]
        BY <2>2, Scars, Zenon
      <3> QED
        BY <1>2, <1>3, <3>0, <3>1, Types DEF Frame, Loop, procs
    <2> QED
      BY <1>1, <2>1, <2>2
  <1>5. CASE ex[t].case \in Cases /\ SetResult(t, "running") /\ Goto(t, "case")
    BY <1>2, <1>4, <1>5, Goes, WritesCase DEF Pcs, Attempting, Concluding, CaseType
  <1>6. CASE /\ ex[t].case \notin Cases \/ shouldStopTask(t)
             /\ Goto(t, "ended") /\ UNCHANGED result /\ Scar(T, "fenced")
    <2>1. hasLostHeartbeatOwnership(ex[t].at) => scar'[t] # {}
      <3>1. hasLostHeartbeatOwnership(ex[t].at) => t \in T
        OBVIOUS
      <3> HIDE DEF T
      <3>2. \A u \in Tasks : scar'[u] = IF u \in T THEN scar[u] \cup {"fenced"} ELSE scar[u]
        BY <1>6, Scars, Zenon
      <3> QED
        BY <3>1, <3>2
    <2>2. ex'[t].pc = "ended"
      BY <1>6, Goes DEF Pcs, Attempting
    <2> QED
      BY <1>2, <1>4, <1>6, <2>1, <2>2
  <1> QED
    BY <1>1, <1>5, <1>6

LEMMA CaseDoes ==
  ASSUME TypeOK, NEW t \in Tasks, ex[t].case \in Cases, BeginCase(t) \/ EndCase(t)
  PROVE  /\ Frame(t) /\ UNCHANGED <<task, cancel, lease, nudge>>
         /\ ex'[t].at = ex[t].at
         /\ \/ ex'[t].pc = "cli" /\ ex'[t].case = ex[t].case /\ result' = result
            \/ /\ ex'[t].pc = "loop" /\ ex'[t].case = ex[t].case + 1
               /\ \A c \in Cases : result'[t][c] = IF c = ex[t].case /\ Exists(t) THEN "settled" ELSE result[t][c]
  <1>1. \/ Goto(t, "cli") /\ UNCHANGED result
        \/ SetResult(t, "settled") /\ ex' = [ex EXCEPT ![t].pc = "loop", ![t].case = @ + 1]
    BY DEF BeginCase, EndCase
  <1>2. /\ ex' \in [Tasks -> ExType] /\ (\A u \in Tasks \ {t} : ex'[u] = ex[u]) /\ ex'[t].at = ex[t].at
    <2>1. CASE Goto(t, "cli")
      BY <2>1, Goes DEF Pcs, Attempting, Concluding
    <2>2. CASE ex' = [ex EXCEPT ![t].pc = "loop", ![t].case = @ + 1]
      BY <2>2, NextCase
    <2> QED
      BY <1>1, <2>1, <2>2
  <1>3. result' \in [Tasks -> [Cases -> CaseType]] /\ \A u \in Tasks \ {t} : result'[u] = result[u]
    BY <1>1, WritesCase, Types DEF CaseType
  <1>4. Frame(t) /\ UNCHANGED <<task, cancel, lease, nudge>>
    BY <1>2, <1>3, Types DEF Frame, BeginCase, EndCase, procs, marks, Mistaken
  <1>5. CASE Goto(t, "cli") /\ UNCHANGED result
    BY <1>2, <1>4, <1>5, Goes DEF Pcs, Attempting, Concluding
  <1>6. CASE SetResult(t, "settled") /\ ex' = [ex EXCEPT ![t].pc = "loop", ![t].case = @ + 1]
    <2>1. ex'[t].pc = "loop" /\ ex'[t].case = ex[t].case + 1
      BY <1>6, NextCase
    <2>2. \A c \in Cases : result'[t][c] = IF c = ex[t].case /\ Exists(t) THEN "settled" ELSE result[t][c]
      BY <1>6, WritesCase DEF CaseType
    <2> QED
      BY <1>2, <1>4, <2>1, <2>2
  <1> QED
    BY <1>1, <1>5, <1>6
LEMMA OutcomeDoes ==
  ASSUME TypeOK, NEW t \in Tasks, ReadOutcome(t) \/ WriteOutcome(t)
  PROVE  /\ Frame(t) /\ UNCHANGED <<cancel, result, lease, nudge>>
         /\ ex'[t].at = ex[t].at /\ ex'[t].case = ex[t].case
         /\ \/ At(t, "ended") /\ ~Exists(t) /\ ex'[t].pc = "release" /\ task' = task
            \/ At(t, "ended") /\ Exists(t) /\ cancel[t] /\ ex'[t].pc = "cancelling" /\ task' = task
            \/ At(t, "ended") /\ Exists(t) /\ ~cancel[t] /\ ex'[t].pc = "completing" /\ task' = task
            \/ /\ At(t, "completing") /\ ex'[t].pc = "summary"
               /\ task'[t] = IF Exists(t) THEN "completed" ELSE task[t]
            \/ /\ At(t, "cancelling") /\ ex'[t].pc = "settle"
               /\ task'[t] = IF Exists(t) THEN "cancelled" ELSE task[t]
            \/ /\ ex[t].pc \in {"failing", "overruling"} /\ ex'[t].pc = "settlefailed"
               /\ task'[t] = IF Exists(t) THEN "failed" ELSE task[t]
  <1>1. CASE ReadOutcome(t)
    <2>1. \/ At(t, "ended") /\ ~Exists(t) /\ Goto(t, "release") /\ task' = task
          \/ At(t, "ended") /\ Exists(t) /\ cancel[t] /\ Goto(t, "cancelling") /\ task' = task
          \/ At(t, "ended") /\ Exists(t) /\ ~cancel[t] /\ Goto(t, "completing") /\ task' = task
      BY <1>1 DEF ReadOutcome
    <2>2. /\ ex' \in [Tasks -> ExType] /\ \A u \in Tasks \ {t} : ex'[u] = ex[u]
          /\ ex'[t].at = ex[t].at /\ ex'[t].case = ex[t].case
      BY <2>1, Goes DEF Pcs, Attempting, Concluding
    <2>3. Frame(t) /\ UNCHANGED <<cancel, result, lease, nudge>>
      BY <1>1, <2>2, Types DEF Frame, ReadOutcome, procs, marks, Mistaken
    <2> QED
      BY <2>1, <2>2, <2>3, Goes DEF Pcs, Attempting, Concluding
  <1>2. CASE WriteOutcome(t)
    <2>1. \/ At(t, "completing") /\ SetStatus(t, "completed") /\ Goto(t, "summary")
          \/ At(t, "cancelling") /\ SetStatus(t, "cancelled") /\ Goto(t, "settle")
          \/ ex[t].pc \in {"failing", "overruling"} /\ SetStatus(t, "failed") /\ Goto(t, "settlefailed")
      BY <1>2 DEF WriteOutcome
    <2>2. /\ ex' \in [Tasks -> ExType] /\ \A u \in Tasks \ {t} : ex'[u] = ex[u]
          /\ ex'[t].at = ex[t].at /\ ex'[t].case = ex[t].case
      BY <2>1, Goes DEF Pcs, Attempting, Concluding
    <2>3. task' \in [Tasks -> TaskType] /\ \A u \in Tasks \ {t} : task'[u] = task[u]
      BY <2>1, Writes DEF TaskType, Terminal
    <2>4. Frame(t) /\ UNCHANGED <<cancel, result, lease, nudge>>
      BY <1>2, <2>2, <2>3, Types DEF Frame, WriteOutcome, procs, marks, Mistaken
    <2>5. \/ /\ At(t, "completing") /\ ex'[t].pc = "summary"
             /\ task'[t] = IF Exists(t) THEN "completed" ELSE task[t]
          \/ /\ At(t, "cancelling") /\ ex'[t].pc = "settle"
             /\ task'[t] = IF Exists(t) THEN "cancelled" ELSE task[t]
          \/ /\ ex[t].pc \in {"failing", "overruling"} /\ ex'[t].pc = "settlefailed"
             /\ task'[t] = IF Exists(t) THEN "failed" ELSE task[t]
      BY <2>1, Goes, Writes DEF Pcs, Attempting, Concluding, TaskType, Terminal
    <2> QED
      BY <2>2, <2>4, <2>5
  <1> QED
    BY <1>1, <1>2

LEMMA SettleDoes ==
  ASSUME TypeOK, NEW t \in Tasks, settleUnfinishedResults(t)
  PROVE  /\ Frame(t) /\ UNCHANGED <<task, cancel, lease, nudge>>
         /\ ex'[t].pc \in {"summary", "release"} /\ ex'[t].at = ex[t].at
         /\ Unfinished(t)' = {}
  <1>1. /\ ex' \in [Tasks -> ExType] /\ \A u \in Tasks \ {t} : ex'[u] = ex[u]
        /\ ex'[t].pc \in {"summary", "release"} /\ ex'[t].at = ex[t].at
    BY Goes DEF settleUnfinishedResults, Pcs, Attempting, Concluding
  <1>2. /\ result' \in [Tasks -> [Cases -> CaseType]] /\ \A u \in Tasks \ {t} : result'[u] = result[u]
        /\ Unfinished(t)' = {}
    BY Settles DEF settleUnfinishedResults
  <1> QED
    BY <1>1, <1>2, Types DEF Frame, settleUnfinishedResults, procs, marks, Mistaken

LEMMA RefreshDoes ==
  ASSUME TypeOK, NEW t \in Tasks, refreshTaskSummary(t)
  PROVE  /\ Frame(t) /\ UNCHANGED <<task, cancel, result, lease, nudge>>
         /\ ex'[t].pc = "release" /\ ex'[t].at = ex[t].at
  <1>1. /\ ex' \in [Tasks -> ExType] /\ \A u \in Tasks \ {t} : ex'[u] = ex[u]
        /\ ex'[t].pc = "release" /\ ex'[t].at = ex[t].at
    BY Goes DEF refreshTaskSummary, Pcs
  <1> QED
    BY <1>1, Types DEF Frame, refreshTaskSummary, procs, marks, Mistaken

LEMMA ThrowDoes ==
  ASSUME TypeOK, NEW t \in Tasks, Throw(t)
  PROVE  /\ Frame(t) /\ UNCHANGED <<task, cancel, result, lease, nudge>>
         /\ ex'[t].at = ex[t].at
         /\ \/ ex[t].pc \in Attempting /\ ex'[t].pc \in {"failing", "release"}
            \/ ex[t].pc \in Concluding /\ ex'[t].pc = "overruling"
            \/ /\ ex[t].pc \in Concluding \cup {"settlefailed"}
               /\ ex'[t].pc = "release" /\ scar'[t] # {}
  <1>0. ex \in [Tasks -> ExType] /\ faults' \in 0 .. MaxFaults
    BY Types, Faults DEF Throw
  <1>1. UNCHANGED <<site, task, cancel, result, lease, nudge, phase, boot, recov, lost>>
    BY DEF Throw, procs
  <1>2. CASE /\ ex[t].pc \in Attempting
             /\ \E pc \in {"failing", "release"} :
                   ex' = [ex EXCEPT ![t].pc = pc,
                                    ![t].leased = @ \/ (ex[t].pc = "start" /\ lease[t].phase # "none")]
             /\ UNCHANGED scar
    <2>1. PICK pc \in {"failing", "release"} :
            ex' = [ex EXCEPT ![t].pc = pc,
                             ![t].leased = @ \/ (ex[t].pc = "start" /\ lease[t].phase # "none")]
      BY <1>2
    <2> DEFINE l == ex[t].leased \/ (ex[t].pc = "start" /\ lease[t].phase # "none")
               q == [ex[t] EXCEPT !.pc = pc, !.leased = l]
    <2>2. ex' = [ex EXCEPT ![t] = q]
      BY <1>0, <2>1
    <2>3. q \in ExType /\ q.pc = pc /\ q.at = ex[t].at
      BY <1>0 DEF ExType, Pcs
    <2>4. /\ ex' \in [Tasks -> ExType] /\ ex'[t] = q /\ \A u \in Tasks \ {t} : ex'[u] = ex[u]
      BY <1>0, <2>2, <2>3
    <2>5. Frame(t)
      BY <1>0, <1>1, <1>2, <2>4, Types DEF Frame, Mistaken
    <2> QED
      BY <1>1, <1>2, <2>3, <2>4, <2>5
  <1>3. CASE ex[t].pc \in Concluding /\ Goto(t, "overruling") /\ UNCHANGED scar
    <2>1. /\ ex' \in [Tasks -> ExType] /\ \A u \in Tasks \ {t} : ex'[u] = ex[u]
          /\ ex'[t].pc = "overruling" /\ ex'[t].at = ex[t].at
      BY <1>3, Goes DEF Pcs
    <2>2. Frame(t)
      BY <1>0, <1>1, <1>3, <2>1, Types DEF Frame, Mistaken
    <2> QED
      BY <1>1, <1>3, <2>1, <2>2
  <1>4. CASE ex[t].pc \in Concluding \cup {"settlefailed"} /\ Goto(t, "release") /\ Scar({t}, "threw")
    <2>1. /\ ex' \in [Tasks -> ExType] /\ \A u \in Tasks \ {t} : ex'[u] = ex[u]
          /\ ex'[t].pc = "release" /\ ex'[t].at = ex[t].at
      BY <1>4, Goes DEF Pcs
    <2>2. /\ scar' \in [Tasks -> ScarType] /\ Mistaken' = Mistaken /\ scar'[t] # {}
          /\ \A u \in Tasks : scar[u] \subseteq scar'[u]
          /\ \A u \in Tasks \ {t} : scar'[u] = scar[u]
      BY <1>4, ScarsOne
    <2>3. Frame(t)
      BY <1>0, <1>1, <2>1, <2>2, Types DEF Frame
    <2> QED
      BY <1>1, <1>4, <2>1, <2>2, <2>3
  <1> QED
    BY <1>2, <1>3, <1>4 DEF Throw

LEMMA ReleaseDoes ==
  ASSUME TypeOK, NEW t \in Tasks, Release(t)
  PROVE  /\ Frame(t) /\ UNCHANGED <<task, cancel, result>>
         /\ ex'[t].pc = "none" /\ ex'[t].at = None
         /\ lease'[t].phase = "active" => lease[t].phase = "active"
         /\ \A i \in Inst : nudge'[i] => nudge[i] \/ i = ex[t].at
  <1>1. /\ ex' \in [Tasks -> ExType] /\ \A u \in Tasks \ {t} : ex'[u] = ex[u]
        /\ ex'[t].pc = "none" /\ ex'[t].at = None
    BY GoesAway DEF Release
  <1>2. /\ lease' \in [Tasks -> LeaseType] /\ \A u \in Tasks \ {t} : lease'[u] = lease[u]
        /\ lease'[t].phase = "active" => lease[t].phase = "active"
    BY Types, Fresh DEF Release
  <1>3. nudge' \in [Inst -> BOOLEAN] /\ \A i \in Inst : nudge'[i] => nudge[i] \/ i = ex[t].at
    BY Nudged DEF Release
  <1> QED
    BY <1>1, <1>2, <1>3, Types DEF Frame, Release, procs, marks, Mistaken

LEMMA RequestDoes ==
  ASSUME TypeOK, NEW t \in Tasks, SettleRequest(t)
  PROVE  /\ Frame(t) /\ UNCHANGED <<task, cancel, lease>>
         /\ ex'[t].pc = "none" /\ ex'[t].at = None
         /\ Unfinished(t)' = {}
         /\ \A i \in Inst : nudge'[i] => nudge[i] \/ i = ex[t].at
  <1>1. /\ ex' \in [Tasks -> ExType] /\ \A u \in Tasks \ {t} : ex'[u] = ex[u]
        /\ ex'[t].pc = "none" /\ ex'[t].at = None
    BY GoesAway DEF SettleRequest
  <1>2. /\ result' \in [Tasks -> [Cases -> CaseType]] /\ \A u \in Tasks \ {t} : result'[u] = result[u]
        /\ Unfinished(t)' = {}
    BY Settles DEF SettleRequest
  <1>3. nudge' \in [Inst -> BOOLEAN] /\ \A i \in Inst : nudge'[i] => nudge[i] \/ i = ex[t].at
    BY Nudged DEF SettleRequest
  <1> QED
    BY <1>1, <1>2, <1>3, Types DEF Frame, SettleRequest, procs, marks, Mistaken

LEMMA RequestThrowsDoes ==
  ASSUME TypeOK, NEW t \in Tasks, RequestThrows(t)
  PROVE  /\ Frame(t) /\ UNCHANGED <<task, cancel, result, lease, nudge>>
         /\ ex'[t].pc = "none" /\ ex'[t].at = None /\ scar'[t] # {}
  <1>1. /\ ex' \in [Tasks -> ExType] /\ \A u \in Tasks \ {t} : ex'[u] = ex[u]
        /\ ex'[t].pc = "none" /\ ex'[t].at = None
    BY GoesAway DEF RequestThrows
  <1>2. /\ scar' \in [Tasks -> ScarType] /\ Mistaken' = Mistaken /\ scar'[t] # {}
        /\ \A u \in Tasks : scar[u] \subseteq scar'[u]
        /\ \A u \in Tasks \ {t} : scar'[u] = scar[u]
    BY ScarsOne DEF RequestThrows
  <1>3. faults' \in 0 .. MaxFaults
    BY Faults DEF RequestThrows
  <1> QED
    BY <1>1, <1>2, <1>3, Types DEF Frame, RequestThrows, procs

WorkAct(t) == Work(t) \/ Throw(t) \/ RequestThrows(t)

\* Whoever takes such a step is there.
LEMMA Working ==
  ASSUME NEW t \in Tasks, WorkAct(t), InProcess(t)
  PROVE  ex[t].pc \notin {"none", "dead"} /\ ex[t].at # None
  <1>1. ex[t].pc \notin {"none", "dead"}
    BY DEF WorkAct, Work, Activate, Check, Begin, Loop, BeginCase, EndCase, ReadOutcome, WriteOutcome,
           settleUnfinishedResults, refreshTaskSummary, Release, SettleRequest, RequestThrows, Throw,
           Attempting, Concluding, At
  <1> QED
    BY <1>1 DEF InProcess

LEMMA WorkFrame ==
  ASSUME BaseInv, NEW t \in Tasks, WorkAct(t)
  PROVE  Frame(t) /\ BaseLocal(t)
  <1>0. TypeOK /\ ex[t] \in ExType /\ InProcess(t)
    BY Types DEF BaseInv, CaseInv
  <1>a. ex[t].pc \notin {"none", "dead"} /\ ex[t].at # None
    BY <1>0, Working
  <1> USE <1>a DEF BaseLocal, InCase, InProcess
  <1>1. CASE Activate(t)
    <2>1. ex[t].at \in Inst
      BY <1>0, <1>1 DEF Activate, At, ExType
    <2> QED
      BY <1>0, <1>1, <2>1, ActivateDoes
  <1>2. CASE Check(t) \/ Begin(t)
    BY <1>0, <1>2, CheckDoes, BeginDoes
  <1>3. CASE Loop(t)
    BY <1>0, <1>3, LoopDoes
  <1>4. CASE BeginCase(t) \/ EndCase(t)
    <2>1. ex[t].case \in Cases
      BY <1>4 DEF BaseInv, CaseInv, BeginCase, EndCase, At
    <2> QED
      BY <1>0, <1>4, <2>1, CaseDoes
  <1>5. CASE ReadOutcome(t) \/ WriteOutcome(t)
    BY <1>0, <1>5, OutcomeDoes DEF Terminal
  <1>6. CASE settleUnfinishedResults(t) \/ refreshTaskSummary(t) \/ Throw(t)
    BY <1>0, <1>6, SettleDoes, RefreshDoes, ThrowDoes
  <1>7. CASE Release(t) \/ SettleRequest(t) \/ RequestThrows(t)
    BY <1>0, <1>7, ReleaseDoes, RequestDoes, RequestThrowsDoes
  <1> QED
    BY <1>1, <1>2, <1>3, <1>4, <1>5, <1>6, <1>7 DEF WorkAct, Work
\* An executor writes the status of a running task, keeps its lease in its own name and
\* tells its own process of the queue.
LEMMA WorkTask ==
  ASSUME BaseInv, TaskInv, NEW t \in Tasks, WorkAct(t)
  PROVE  TaskLocal(t) /\ NudgeLocal(t)
  <1>0. /\ TypeOK /\ ex[t] \in ExType /\ lease[t] \in LeaseType /\ InProcess(t)
        /\ ex[t].pc \notin {"none", "dead"} /\ ex[t].at # None
    BY Types, Working DEF BaseInv, CaseInv
  <1>1. /\ t \notin Mistaken /\ Executing(t) => task[t] = "running"
        /\ task[t] \in {"none", "queued"} \/ At(t, "start") => lease[t].phase # "active"
        /\ lease[t].phase = "active" /\ ex[t].pc # "request"
              => lease[t].owner = ex[t].at /\ lease[t].boot = boot[ex[t].at]
        /\ At(t, "request") => task[t] \in {"cancelled", "deleted"}
        /\ t \in Mistaken => task[t] \notin {"none", "queued"}
    BY <1>0 DEF TaskInv
  <1>2. Exists(t) <=> task[t] \notin {"none", "deleted"}
    BY DEF Exists
  <1> USE <1>0 DEF TaskLocal, NudgeLocal, Executing, At
  <1>3. CASE Activate(t)
    <2>1. ex[t].pc = "start" /\ ex[t].at \in Inst
      BY <1>3 DEF Activate, ExType
    <2>2. /\ task' = task /\ nudge' = nudge /\ boot' = boot
          /\ ex'[t].pc \in {"failing", "check"} /\ ex'[t].at = ex[t].at
          /\ \/ lease'[t] = lease[t]
             \/ lease'[t] = [phase |-> "active", owner |-> ex[t].at, boot |-> boot[ex[t].at]]
      BY <1>3, <2>1, ActivateDoes DEF Frame
    <2>3. t \notin Mistaken => task[t] = "running"
      BY <1>1, <2>1 DEF Attempting
    <2>4. lease'[t].phase = "active" => lease'[t].owner = ex[t].at /\ lease'[t].boot = boot[ex[t].at]
      BY <1>1, <2>1, <2>2
    <2> QED
      BY <1>1, <2>1, <2>2, <2>3, <2>4 DEF Attempting, Terminal
  <1>4. CASE Check(t)
    <2>1. ex[t].pc = "check"
      BY <1>4 DEF Check
    <2> QED
      BY <1>1, <1>2, <1>4, <2>1, CheckDoes DEF Attempting, Terminal
  <1>5. CASE Begin(t)
    <2>1. ex[t].pc = "begin"
      BY <1>5 DEF Begin
    <2> QED
      BY <1>1, <1>2, <1>5, <2>1, BeginDoes DEF Attempting, Terminal
  <1>6. CASE Loop(t)
    <2>1. ex[t].pc = "loop"
      BY <1>6 DEF Loop
    <2> QED
      BY <1>1, <1>6, <2>1, LoopDoes DEF Attempting, Terminal
  <1>7. CASE BeginCase(t) \/ EndCase(t)
    <2>1. ex[t].pc \in {"case", "cli"} /\ ex[t].case \in Cases
      BY <1>7 DEF BaseInv, CaseInv, InCase, BeginCase, EndCase
    <2> QED
      BY <1>1, <1>7, <2>1, CaseDoes DEF Attempting, Terminal
  <1>8. CASE ReadOutcome(t) \/ WriteOutcome(t)
    <2>1. ex[t].pc \in {"ended", "completing", "cancelling", "failing", "overruling"}
      BY <1>8 DEF ReadOutcome, WriteOutcome
    <2> QED
      BY <1>1, <1>2, <1>8, <2>1, OutcomeDoes DEF Attempting, Terminal
  <1>9. CASE settleUnfinishedResults(t) \/ refreshTaskSummary(t)
    <2>1. ex[t].pc \in {"settle", "settlefailed", "summary"}
      BY <1>9 DEF settleUnfinishedResults, refreshTaskSummary
    <2> QED
      BY <1>1, <1>9, <2>1, SettleDoes, RefreshDoes DEF Attempting, Terminal
  <1>10. CASE Throw(t)
    <2>1. ex[t].pc \in Attempting \cup Concluding \cup {"settlefailed"}
      BY <1>10 DEF Throw
    <2>2. ex[t].pc # "request"
      BY <2>1 DEF Attempting, Concluding
    <2>3. task' = task /\ lease' = lease /\ nudge' = nudge /\ ex'[t].at = ex[t].at
      BY <1>10, ThrowDoes
    <2>4. /\ ex'[t].pc \in {"failing", "release", "overruling"}
          /\ ex'[t].pc = "failing" => ex[t].pc \in Attempting
      BY <1>10, ThrowDoes
    <2> QED
      BY <1>1, <2>2, <2>3, <2>4 DEF Attempting, Terminal
  <1>11. CASE Release(t)
    BY <1>1, <1>11, ReleaseDoes DEF Attempting, Terminal
  <1>12. CASE SettleRequest(t) \/ RequestThrows(t)
    BY <1>1, <1>12, RequestDoes, RequestThrowsDoes DEF Attempting, Terminal
  <1> QED
    BY <1>3, <1>4, <1>5, <1>6, <1>7, <1>8, <1>9, <1>10, <1>11, <1>12 DEF WorkAct, Work

\* An executor that leaves the loop early has seen a cancel, or is in a fenced process.
LEMMA WorkSettle ==
  ASSUME BaseInv, TaskInv, SettleInv, NEW t \in Tasks, WorkAct(t)
  PROVE  SettleLocal(t)
  <1>s. SUFFICES ASSUME scar'[t] = {} PROVE SettleOf(t)'
    BY DEF SettleLocal
  <1>0. /\ TypeOK /\ ex[t] \in ExType /\ InProcess(t)
        /\ ex[t].pc \notin {"none", "dead"} /\ ex[t].at # None
    BY Types, Working DEF BaseInv, CaseInv
  <1>f. scar[t] = {} /\ t \notin Mistaken /\ recov' = recov
    BY <1>s, WorkFrame DEF Frame, Mistaken
  <1> DEFINE Excused == {"request", "settle", "overruling", "settlefailed", "dead"}
             Open == /\ task[t] \in Terminal /\ Unfinished(t) # {} /\ ex[t].pc \notin Excused
                     /\ \A i \in Inst : recov[i].cur # t
             OpenNext == /\ task'[t] \in Terminal /\ Unfinished(t)' # {} /\ ex'[t].pc \notin Excused
                         /\ \A i \in Inst : recov[i].cur # t
  <1>g. (LeftOpen(t) <=> Open) /\ (LeftOpen(t)' <=> OpenNext)
    BY <1>f DEF LeftOpen
  <1>1. /\ ex[t].pc \in {"start", "check", "begin", "loop", "case", "cli"}
              => \A c \in Cases : c < ex[t].case => result[t][c] = "settled"
        /\ ex[t].pc = "ended" => cancel[t] \/ Unfinished(t) = {}
        /\ ex[t].pc = "completing" => Unfinished(t) = {}
        /\ ~Open
    BY <1>f, <1>g DEF SettleInv, SettleOf, At
  <1>2. /\ Executing(t) => task[t] = "running"
        /\ Executing(t) => Exists(t)
    BY <1>f DEF TaskInv, Exists
  <1>u. result'[t] = result[t] => Unfinished(t)' = Unfinished(t)
    BY DEF Unfinished
  <1>h. SUFFICES /\ ex'[t].pc \in {"start", "check", "begin", "loop", "case", "cli"}
                       => \A c \in Cases : c < ex'[t].case => result'[t][c] = "settled"
                 /\ ex'[t].pc = "ended" => cancel'[t] \/ Unfinished(t)' = {}
                 /\ ex'[t].pc = "completing" => Unfinished(t)' = {}
                 /\ ~OpenNext
    BY <1>g DEF SettleOf, At
  <1> USE <1>0 DEF Executing, At
  <1>3. CASE Activate(t)
    <2>1. ex[t].pc = "start" /\ ex[t].at \in Inst
      BY <1>3 DEF Activate, ExType
    <2> QED
      BY <1>1, <1>2, <1>3, <2>1, ActivateDoes DEF Attempting, Terminal
  <1>4. CASE Check(t) \/ Begin(t)
    <2>1. ex[t].pc \in {"check", "begin"} /\ task[t] = "running" /\ Exists(t)
      BY <1>2, <1>4 DEF Check, Begin, Attempting
    <2> QED
      BY <1>1, <1>4, <1>u, <2>1, CheckDoes, BeginDoes DEF Terminal
  <1>5. CASE Loop(t)
    <2>1. ex[t].pc = "loop" /\ task[t] = "running" /\ Exists(t)
      BY <1>2, <1>5 DEF Loop, Attempting
    <2>2. /\ task' = task /\ cancel' = cancel /\ ex'[t].case = ex[t].case
          /\ \/ /\ ex[t].case \in Cases /\ ex'[t].pc = "case"
                /\ \A c \in Cases : c # ex[t].case => result'[t][c] = result[t][c]
             \/ /\ ex[t].case \notin Cases \/ shouldStopTask(t)
                /\ ex'[t].pc = "ended" /\ result' = result /\ ~hasLostHeartbeatOwnership(ex[t].at)
      BY <1>5, <1>s, LoopDoes
    <2>3. CASE ex'[t].pc = "case"
      <3>1. \A c \in Cases : c < ex[t].case => c # ex[t].case
        BY DEF Cases, ExType
      <3> QED
        BY <1>1, <2>1, <2>2, <2>3, <3>1 DEF Terminal
    <2>4. CASE ex'[t].pc = "ended"
      <3>1. cancel[t] \/ ex[t].case \notin Cases
        BY <2>1, <2>2, <2>4 DEF shouldStopTask
      <3>2. ex[t].case \notin Cases => \A c \in Cases : c < ex[t].case
        BY Fresh DEF Cases, ExType
      <3>3. cancel'[t] \/ Unfinished(t)' = {}
        BY <1>1, <2>1, <2>2, <2>4, <3>1, <3>2 DEF Unfinished
      <3> QED
        BY <2>1, <2>2, <2>4, <3>3 DEF Terminal
    <2> QED
      BY <2>2, <2>3, <2>4
  <1>6. CASE BeginCase(t) \/ EndCase(t)
    <2>1. ex[t].pc \in {"case", "cli"} /\ ex[t].case \in Cases /\ task[t] = "running" /\ Exists(t)
      BY <1>2, <1>6 DEF BaseInv, CaseInv, InCase, BeginCase, EndCase, Attempting
    <2>2. /\ task' = task
          /\ \/ ex'[t].pc = "cli" /\ ex'[t].case = ex[t].case /\ result' = result
             \/ /\ ex'[t].pc = "loop" /\ ex'[t].case = ex[t].case + 1
                /\ \A c \in Cases : result'[t][c] = IF c = ex[t].case THEN "settled" ELSE result[t][c]
      BY <1>6, <2>1, CaseDoes
    <2>3. \A c \in Cases : c < ex[t].case + 1 => c < ex[t].case \/ c = ex[t].case
      BY <2>1 DEF Cases
    <2> QED
      BY <1>1, <2>1, <2>2, <2>3 DEF Terminal
  <1>7. CASE ReadOutcome(t) \/ WriteOutcome(t)
    <2>1. ex[t].pc \in {"ended", "completing", "cancelling", "failing", "overruling"}
      BY <1>7 DEF ReadOutcome, WriteOutcome
    <2>2. CASE ex[t].pc = "overruling"
      <3>1. ex'[t].pc = "settlefailed"
        BY <1>7, <2>2, OutcomeDoes
      <3> QED
        BY <3>1
    <2>3. CASE ex[t].pc # "overruling"
      <3>1. task[t] = "running" /\ Exists(t)
        BY <1>2, <2>1, <2>3 DEF Attempting
      <3> QED
        BY <1>1, <1>7, <1>u, <2>1, <2>3, <3>1, OutcomeDoes DEF Terminal
    <2> QED
      BY <2>2, <2>3
  <1>8. CASE settleUnfinishedResults(t) \/ SettleRequest(t)
    BY <1>8, SettleDoes, RequestDoes
  <1>9. CASE Throw(t)
    <2>1. CASE ex[t].pc \in Attempting /\ ex'[t].pc \in {"failing", "release"}
      <3>1. task[t] = "running" /\ task' = task
        BY <1>2, <1>9, <2>1, ThrowDoes
      <3> QED
        BY <2>1, <3>1 DEF Terminal
    <2>2. CASE ex'[t].pc = "overruling"
      BY <2>2
    <2> QED
      BY <1>9, <1>s, <2>1, <2>2, ThrowDoes
  <1>11. CASE refreshTaskSummary(t)
    <2>1. ex[t].pc = "summary"
      BY <1>11 DEF refreshTaskSummary
    <2>2. ex'[t].pc = "release" /\ task' = task /\ result' = result
      BY <1>11, RefreshDoes
    <2> QED
      BY <1>1, <1>u, <2>1, <2>2
  <1>12. CASE RequestThrows(t)
    BY <1>12, <1>s, RequestThrowsDoes
  <1>10. CASE Release(t)
    <2>1. ex[t].pc = "release"
      BY <1>10 DEF Release
    <2>2. ex'[t].pc = "none" /\ task' = task /\ result' = result
      BY <1>10, ReleaseDoes
    <2> QED
      BY <1>1, <1>u, <2>1, <2>2
  <1> QED
    BY <1>3, <1>4, <1>5, <1>6, <1>7, <1>8, <1>9, <1>10, <1>11, <1>12 DEF WorkAct, Work
-----------------------------------------------------------------------------
(* Requests, promotion, reaper and sweep.                                  *)

\* The executor of task t starts in process i.
LEMMA Starts ==
  ASSUME TypeOK, NEW t \in Tasks, NEW i \in Inst, NEW pc \in {"start", "request"},
         ex' = [ex EXCEPT ![t] = [Idle EXCEPT !.pc = pc, !.at = i]]
  PROVE  /\ ex' \in [Tasks -> ExType] /\ \A u \in Tasks \ {t} : ex'[u] = ex[u]
         /\ ex'[t].pc = pc /\ ex'[t].at = i /\ ex'[t].case = 1
  <1>1. /\ [Idle EXCEPT !.pc = pc, !.at = i] \in ExType
        /\ [Idle EXCEPT !.pc = pc, !.at = i].pc = pc
        /\ [Idle EXCEPT !.pc = pc, !.at = i].at = i
        /\ [Idle EXCEPT !.pc = pc, !.at = i].case = 1
    BY Fresh DEF Idle, ExType, Pcs, Attempting, Concluding
  <1>2. /\ ex' \in [Tasks -> ExType] /\ \A u \in Tasks \ {t} : ex'[u] = ex[u]
        /\ ex'[t] = [Idle EXCEPT !.pc = pc, !.at = i]
    BY <1>1, Types
  <1> QED
    BY <1>1, <1>2

\* A reservation goes with the task; an active lease stays.
LEMMA GivesBack ==
  ASSUME TypeOK, NEW t \in Tasks, ReleaseReserved(t)
  PROVE  /\ lease' \in [Tasks -> LeaseType] /\ \A u \in Tasks \ {t} : lease'[u] = lease[u]
         /\ lease'[t] = lease[t] \/ lease'[t].phase = "none"
  BY Types, Fresh DEF ReleaseReserved

\* A process that serves is up.
LEMMA ServingIsReady ==
  ASSUME NEW i \in Inst, Serving(i)
  PROVE  Ready(i)
  BY DEF Serving, Ready, Up

LEMMA CreateFrame ==
  ASSUME BaseInv, NEW i \in Inst, Create(i)
  PROVE  \E t \in Tasks :
            /\ Frame(t) /\ BaseLocal(t)
            /\ nudge' = nudge /\ cancel' = cancel /\ result' = result
            /\ task[t] = "none" /\ lease'[t].phase # "active"
            /\ \/ Running = {} /\ task'[t] = "running" /\ ex'[t].pc = "start" /\ ex'[t].at = i /\ ex'[t].case = 1
               \/ task'[t] = "queued" /\ ex'[t] = ex[t]
  <1>0. TypeOK /\ CaseInv
    BY DEF BaseInv
  <1>1. PICK t \in Tasks :
          /\ task[t] = "none"
          /\ \/ /\ Running = {} /\ task' = [task EXCEPT ![t] = "running"] /\ Start(t, i)
             \/ /\ ~QueueFull /\ task' = [task EXCEPT ![t] = "queued"] /\ UNCHANGED ex
          /\ lease' = [lease EXCEPT ![t] = IF site.scm THEN Reserved ELSE NoLease]
    BY DEF Create
  <1>2. /\ task' \in [Tasks -> TaskType] /\ \A u \in Tasks \ {t} : task'[u] = task[u]
        /\ task'[t] \in {"running", "queued"}
        /\ task'[t] = "running" => Running = {} /\ Start(t, i)
        /\ task'[t] = "queued" => ~QueueFull /\ UNCHANGED ex
    BY <1>0, <1>1, Types DEF TaskType
  <1>3. /\ lease' \in [Tasks -> LeaseType] /\ \A u \in Tasks \ {t} : lease'[u] = lease[u]
        /\ lease'[t].phase # "active"
    BY <1>0, <1>1, Types, Fresh
  <1>4. Start(t, i) => /\ ex' \in [Tasks -> ExType] /\ \A u \in Tasks \ {t} : ex'[u] = ex[u]
                       /\ ex'[t].pc = "start" /\ ex'[t].at = i /\ ex'[t].case = 1
    BY <1>0, Starts DEF Start, Pcs, Attempting, Concluding
  <1>5. ex' \in [Tasks -> ExType] /\ \A u \in Tasks \ {t} : ex'[u] = ex[u]
    BY <1>0, <1>2, <1>4, Types
  <1>6. Frame(t) /\ nudge' = nudge /\ cancel' = cancel /\ result' = result
    BY <1>0, <1>2, <1>3, <1>5, Types DEF Frame, Create, procs, marks, Mistaken
  <1>7. BaseLocal(t)
    <2>1. CASE Start(t, i)
      BY <1>2, <1>4, <2>1, Fresh DEF BaseLocal, InCase, InProcess
    <2>2. CASE UNCHANGED ex
      BY <1>0, <1>2, <2>2 DEF BaseLocal, CaseInv, InCase, InProcess
    <2> QED
      BY <1>1, <2>1, <2>2
  <1> QED
    BY <1>1, <1>2, <1>3, <1>4, <1>6, <1>7

LEMMA CreateTask ==
  ASSUME BaseInv, ProcessInv, TaskInv, NEW i \in Inst, Create(i)
  PROVE  \E t \in Tasks : LocalStep(t) /\ (SettleInv => SettleLocal(t))
  <1>1. PICK t \in Tasks :
            /\ Frame(t)
            /\ nudge' = nudge /\ cancel' = cancel /\ result' = result
            /\ task[t] = "none" /\ lease'[t].phase # "active"
            /\ \/ Running = {} /\ task'[t] = "running" /\ ex'[t].pc = "start" /\ ex'[t].at = i /\ ex'[t].case = 1
               \/ task'[t] = "queued" /\ ex'[t] = ex[t]
    BY CreateFrame
  <1>2. Ready(i)
    BY ServingIsReady DEF Create
  <1>3. ~Executing(t) /\ t \notin Mistaken /\ ~At(t, "request")
    BY <1>1 DEF TaskInv
  <1>4. TaskLocal(t) /\ NudgeLocal(t)
    BY <1>1, <1>2, <1>3 DEF TaskLocal, NudgeLocal, Terminal, Executing, At
  <1>5. SettleLocal(t)
    <2>1. ex'[t].pc = "start" => \A c \in Cases : ~(c < ex'[t].case)
      BY <1>1, <1>3 DEF Executing, Attempting, Cases
    <2>2. ~LeftOpen(t)'
      BY <1>1 DEF LeftOpen, Terminal
    <2> QED
      BY <1>1, <1>3, <2>1, <2>2 DEF SettleOf, SettleLocal, Executing, Attempting, At
  <1> QED
    BY <1>1, <1>4, <1>5 DEF LocalStep

\* A cancel of a queued task, a cancel of a running one, a delete.
LEMMA CancelFrame ==
  ASSUME BaseInv, NEW i \in Inst, NEW t \in Tasks,
         CancelQueued(i, t) \/ CancelRunning(i, t) \/ Delete(i, t)
  PROVE  /\ Frame(t) /\ BaseLocal(t)
         /\ \A k \in Inst : nudge'[k] => nudge[k] \/ k = i
         /\ lease'[t] = lease[t] \/ lease'[t].phase = "none"
         /\ \/ /\ task[t] = "queued" /\ task'[t] = "cancelled"
               /\ ex'[t].pc = "request" /\ ex'[t].at = i
            \/ /\ task[t] = "running" /\ task'[t] = "running" /\ ex'[t] = ex[t]
               /\ cancel'[t] /\ result' = result
            \/ /\ task[t] # "running" /\ task'[t] = "deleted" /\ ex'[t] = ex[t]
               /\ \A c \in Cases : result'[t][c] = "settled"
  <1>0. TypeOK /\ CaseInv /\ InCase(t) /\ InProcess(t)
    BY DEF BaseInv, CaseInv
  <1>1. CASE CancelQueued(i, t)
    <2>1. /\ task' \in [Tasks -> TaskType] /\ \A u \in Tasks \ {t} : task'[u] = task[u]
          /\ task[t] = "queued" /\ task'[t] = "cancelled"
      BY <1>0, <1>1, Writes DEF CancelQueued, TaskType, Terminal, Exists
    <2>2. /\ ex' \in [Tasks -> ExType] /\ \A u \in Tasks \ {t} : ex'[u] = ex[u]
          /\ ex'[t].pc = "request" /\ ex'[t].at = i
      <3>1. ex' = [ex EXCEPT ![t] = [Idle EXCEPT !.pc = "request", !.at = i]] /\ "request" \in Pcs
        BY <1>1 DEF CancelQueued, Pcs
      <3> QED
        BY <1>0, <3>1, Starts
    <2>3. /\ lease' \in [Tasks -> LeaseType] /\ \A u \in Tasks \ {t} : lease'[u] = lease[u]
          /\ lease'[t] = lease[t] \/ lease'[t].phase = "none"
      BY <1>0, <1>1, GivesBack DEF CancelQueued
    <2>4. cancel' \in [Tasks -> BOOLEAN] /\ \A u \in Tasks \ {t} : cancel'[u] = cancel[u]
      BY <1>0, <1>1, Types DEF CancelQueued
    <2>5. Frame(t) /\ nudge' = nudge
      BY <1>0, <1>1, <2>1, <2>2, <2>3, <2>4, Types DEF Frame, CancelQueued, procs, marks, Mistaken
    <2>6. BaseLocal(t)
      BY <2>1, <2>2, Fresh DEF BaseLocal, InCase, InProcess
    <2> QED
      BY <2>1, <2>2, <2>3, <2>5, <2>6
  <1>2. CASE CancelRunning(i, t)
    <2>1. cancel' \in [Tasks -> BOOLEAN] /\ cancel'[t] /\ \A u \in Tasks \ {t} : cancel'[u] = cancel[u]
      BY <1>0, <1>2, Types DEF CancelRunning
    <2>2. Frame(t) /\ nudge' = nudge /\ ex' = ex /\ task' = task /\ lease' = lease /\ result' = result
      BY <1>0, <1>2, <2>1, Types DEF Frame, CancelRunning, procs, marks, Mistaken
    <2>3. BaseLocal(t)
      BY <1>0, <2>2 DEF BaseLocal, InCase, InProcess
    <2> QED
      BY <1>2, <2>1, <2>2, <2>3 DEF CancelRunning
  <1>3. CASE Delete(i, t)
    <2>1. /\ task' \in [Tasks -> TaskType] /\ \A u \in Tasks \ {t} : task'[u] = task[u]
          /\ task[t] # "running" /\ task'[t] = "deleted"
      BY <1>0, <1>3, Types DEF Delete, TaskType
    <2>2. cancel' \in [Tasks -> BOOLEAN] /\ \A u \in Tasks \ {t} : cancel'[u] = cancel[u]
      BY <1>0, <1>3, Types DEF Delete
    <2>3. /\ lease' \in [Tasks -> LeaseType] /\ \A u \in Tasks \ {t} : lease'[u] = lease[u]
          /\ lease'[t] = lease[t] \/ lease'[t].phase = "none"
      BY <1>0, <1>3, GivesBack DEF Delete
    <2>4. /\ result' \in [Tasks -> [Cases -> CaseType]] /\ \A u \in Tasks \ {t} : result'[u] = result[u]
          /\ \A c \in Cases : result'[t][c] = "settled"
      BY <1>0, <1>3, Settles DEF Delete
    <2>5. /\ nudge' \in [Inst -> BOOLEAN] /\ \A k \in Inst : nudge'[k] => nudge[k] \/ k = i
      BY <1>0, <1>3, Types DEF Delete
    <2>6. Frame(t) /\ ex' = ex
      BY <1>0, <1>3, <2>1, <2>2, <2>3, <2>4, <2>5, Types DEF Frame, Delete, procs, marks, Mistaken
    <2>7. BaseLocal(t)
      BY <1>0, <2>1, <2>6 DEF BaseLocal, InCase, InProcess
    <2> QED
      BY <2>1, <2>3, <2>4, <2>5, <2>6, <2>7
  <1> QED
    BY <1>1, <1>2, <1>3

LEMMA CancelTask ==
  ASSUME BaseInv, ProcessInv, TaskInv, NEW i \in Inst, NEW t \in Tasks,
         CancelQueued(i, t) \/ CancelRunning(i, t) \/ Delete(i, t)
  PROVE  LocalStep(t) /\ (SettleInv => SettleLocal(t))
  <1>0. Ready(i)
    BY ServingIsReady DEF CancelQueued, CancelRunning, Delete
  <1>1. /\ t \notin Mistaken /\ Executing(t) => task[t] = "running"
        /\ task[t] \in {"none", "queued"} \/ At(t, "start") => lease[t].phase # "active"
        /\ lease[t].phase = "active" /\ ex[t].pc \notin {"none", "dead", "request"}
              => lease[t].owner = ex[t].at /\ lease[t].boot = boot[ex[t].at]
        /\ At(t, "request") => task[t] \in {"cancelled", "deleted"}
    BY DEF TaskInv
  <1>2. /\ Frame(t) /\ \A k \in Inst : nudge'[k] => nudge[k] \/ k = i
        /\ lease'[t] = lease[t] \/ lease'[t].phase = "none"
    BY CancelFrame
  <1>3. NudgeLocal(t)
    BY <1>0, <1>2 DEF NudgeLocal
  <1>4. CASE task[t] = "queued" /\ task'[t] = "cancelled" /\ ex'[t].pc = "request" /\ ex'[t].at = i
    <2>1. TaskLocal(t)
      BY <1>0, <1>1, <1>2, <1>4 DEF TaskLocal, Terminal, Executing, Attempting, At
    <2>2. SettleLocal(t)
      BY <1>4 DEF SettleLocal, SettleOf, LeftOpen, At
    <2> QED
      BY <1>2, <1>3, <2>1, <2>2 DEF LocalStep
  <1>5. CASE /\ task[t] = "running" /\ task'[t] = "running" /\ ex'[t] = ex[t]
             /\ cancel'[t] /\ result' = result
    <2>0. lease'[t].phase = "active" => lease'[t] = lease[t]
      BY <1>2
    <2>1. TaskLocal(t)
      BY <1>1, <1>5, <2>0 DEF TaskLocal, Terminal, Executing, At
    <2>2. SettleInv => SettleLocal(t)
      <3>1. SUFFICES ASSUME SettleInv, scar'[t] = {} PROVE SettleOf(t)'
        BY DEF SettleLocal
      <3>2. SettleOf(t)
        BY <1>2, <3>1 DEF Frame, SettleInv
      <3>3. ~LeftOpen(t)' /\ Unfinished(t)' = Unfinished(t)
        BY <1>5 DEF LeftOpen, Terminal, Unfinished
      <3> QED
        BY <1>5, <3>2, <3>3 DEF SettleOf, At
    <2> QED
      BY <1>2, <1>3, <2>1, <2>2 DEF LocalStep
  <1>6. CASE /\ task[t] # "running" /\ task'[t] = "deleted" /\ ex'[t] = ex[t]
             /\ \A c \in Cases : result'[t][c] = "settled"
    <2>1. TaskLocal(t)
      <3>1. lease'[t].phase = "active" => lease'[t] = lease[t]
        BY <1>2
      <3>2. t \in Mistaken \/ (~Executing(t) /\ ~Executing(t)')
        BY <1>1, <1>6 DEF Executing
      <3> QED
        BY <1>1, <1>6, <3>1, <3>2 DEF TaskLocal, Terminal, Executing, Attempting, At
    <2>2. Unfinished(t)' = {}
      BY <1>6 DEF Unfinished
    <2>3. SettleLocal(t)
      BY <1>6, <2>2 DEF SettleLocal, SettleOf, LeftOpen
    <2> QED
      BY <1>2, <1>3, <2>1, <2>3 DEF LocalStep
  <1> QED
    BY <1>4, <1>5, <1>6, CancelFrame
\* A promotion starts the executor of a queued task, or does nothing.
LEMMA PromoteFrame ==
  ASSUME BaseInv, NEW i \in Inst, scheduleNextEvaluation(i) \/ PromotionFails(i)
  PROVE  \E t \in Tasks \cup {None} :
            /\ Frame(t) /\ (t \in Tasks => BaseLocal(t))
            /\ lease' = lease /\ cancel' = cancel /\ result' = result
            /\ \A k \in Inst : nudge'[k] => nudge[k]
            /\ t \in Tasks => /\ Running = {} /\ task[t] = "queued" /\ task'[t] = "running"
                              /\ ex'[t].pc = "start" /\ ex'[t].at = i /\ ex'[t].case = 1
  <1>0. TypeOK /\ CaseInv
    BY DEF BaseInv
  <1>1. /\ nudge' \in [Inst -> BOOLEAN] /\ \A k \in Inst : nudge'[k] => nudge[k]
        /\ faults' \in 0 .. MaxFaults /\ lost' \in BOOLEAN /\ scar' = scar
    <2>1. nudge' = [nudge EXCEPT ![i] = FALSE]
      BY DEF scheduleNextEvaluation, PromotionFails
    <2>2. (UNCHANGED <<faults, lost>> \/ (Fault /\ lost' = TRUE)) /\ scar' = scar
      BY DEF scheduleNextEvaluation, PromotionFails, marks
    <2>3. nudge' \in [Inst -> BOOLEAN] /\ \A k \in Inst : nudge'[k] => nudge[k]
      BY <1>0, <2>1, Types
    <2>4. faults \in 0 .. MaxFaults /\ lost \in BOOLEAN
      BY <1>0, Types
    <2>5. lost' \in BOOLEAN
      BY <2>2, <2>4
    <2>6. faults' \in 0 .. MaxFaults
      BY <1>0, <2>2, <2>4, Faults
    <2> QED
      BY <2>2, <2>3, <2>5, <2>6
  <1>2. lease' = lease /\ cancel' = cancel /\ result' = result /\ UNCHANGED <<site, phase, boot, recov>>
    BY DEF scheduleNextEvaluation, PromotionFails, procs
  <1>3. CASE UNCHANGED <<task, ex>>
    <2>1. Frame(None)
      BY <1>0, <1>1, <1>2, <1>3, Types DEF Frame, Mistaken
    <2> QED
      BY <1>1, <1>2, <2>1, Fresh
  <1>4. CASE ~UNCHANGED <<task, ex>>
    <2>1. PICK t \in Queued : Running = {} /\ task' = [task EXCEPT ![t] = "running"] /\ Start(t, i)
      BY <1>4 DEF scheduleNextEvaluation, PromotionFails
    <2>2. t \in Tasks /\ task[t] = "queued"
      BY DEF Queued
    <2>3. /\ ex' \in [Tasks -> ExType] /\ \A u \in Tasks \ {t} : ex'[u] = ex[u]
          /\ ex'[t].pc = "start" /\ ex'[t].at = i /\ ex'[t].case = 1
      BY <1>0, <2>1, <2>2, Starts DEF Start
    <2>4. /\ task' \in [Tasks -> TaskType] /\ \A u \in Tasks \ {t} : task'[u] = task[u]
          /\ task'[t] = "running"
      BY <1>0, <2>1, <2>2, Types DEF TaskType
    <2>5. Frame(t)
      BY <1>0, <1>1, <1>2, <2>3, <2>4, Types DEF Frame, Mistaken
    <2>6. BaseLocal(t)
      BY <2>3, <2>4, Fresh DEF BaseLocal, InCase, InProcess
    <2> QED
      BY <1>1, <1>2, <2>1, <2>2, <2>3, <2>4, <2>5, <2>6
  <1> QED
    BY <1>3, <1>4

LEMMA PromoteTask ==
  ASSUME BaseInv, ProcessInv, TaskInv, NEW i \in Inst, scheduleNextEvaluation(i) \/ PromotionFails(i)
  PROVE  \E t \in Tasks \cup {None} : LocalStep(t) /\ (SettleInv /\ t \in Tasks => SettleLocal(t))
  <1>1. PICK t \in Tasks \cup {None} :
            /\ Frame(t)
            /\ lease' = lease /\ cancel' = cancel /\ result' = result
            /\ \A k \in Inst : nudge'[k] => nudge[k]
            /\ t \in Tasks => /\ Running = {} /\ task[t] = "queued" /\ task'[t] = "running"
                              /\ ex'[t].pc = "start" /\ ex'[t].at = i /\ ex'[t].case = 1
    BY PromoteFrame
  <1>2. Ready(i)
    BY DEF scheduleNextEvaluation, PromotionFails, ProcessInv, Ready
  <1>3. t \in Tasks => TaskLocal(t)
    BY <1>1, <1>2 DEF TaskLocal, TaskInv, Terminal, Executing, Attempting, At
  <1>4. NudgeLocal(t)
    BY <1>1 DEF NudgeLocal
  <1>5. t \in Tasks => SettleLocal(t)
    BY <1>1 DEF SettleLocal, SettleOf, LeftOpen, Cases, Terminal, At
  <1> QED
    BY <1>1, <1>3, <1>4, <1>5 DEF LocalStep

\* The reaper fails a task, and the sweep takes the lease of one that has ended.
LEMMA ReapFrame ==
  ASSUME BaseInv, NEW i \in Inst, NEW t \in Tasks, Reap(i, t) \/ Sweep(i, t)
  PROVE  /\ Frame(t) /\ BaseLocal(t) /\ cancel' = cancel
         /\ \A k \in Inst : nudge'[k] => nudge[k] \/ k = i
         /\ \/ /\ Reap(i, t) /\ task'[t] = "failed" /\ lease' = lease
               /\ ex'[t] = ex[t] \/ (ex[t].pc = "dead" /\ ex'[t].pc = "none" /\ ex'[t].at = None)
               /\ \A c \in Cases : result'[t][c] = "settled"
            \/ /\ Sweep(i, t) /\ task' = task /\ ex' = ex /\ result' = result
               /\ lease'[t].phase = "none"
  <1>0. TypeOK /\ InCase(t) /\ InProcess(t)
    BY DEF BaseInv, CaseInv
  <1>1. CASE Reap(i, t)
    <2>1. /\ task' \in [Tasks -> TaskType] /\ \A u \in Tasks \ {t} : task'[u] = task[u]
          /\ task'[t] = "failed"
      <3>1. SetStatus(t, "failed") /\ Exists(t) /\ "failed" \in TaskType
        BY <1>1 DEF Reap, claimEvaluationForReap, Exists, TaskType, Terminal
      <3> QED
        BY <1>0, <3>1, Writes
    <2>2. /\ ex' \in [Tasks -> ExType] /\ \A u \in Tasks \ {t} : ex'[u] = ex[u]
          /\ ex'[t] = ex[t] \/ (ex[t].pc = "dead" /\ ex'[t].pc = "none" /\ ex'[t].at = None)
      BY <1>0, <1>1, Types, Fresh DEF Reap, At
    <2>3. /\ result' \in [Tasks -> [Cases -> CaseType]] /\ \A u \in Tasks \ {t} : result'[u] = result[u]
          /\ \A c \in Cases : result'[t][c] = "settled"
      BY <1>0, <1>1, Settles DEF Reap, claimEvaluationForReap
    <2>4. Frame(t) /\ cancel' = cancel /\ nudge' = nudge /\ lease' = lease
      BY <1>0, <1>1, <2>1, <2>2, <2>3, Types DEF Frame, Reap, procs, marks, Mistaken
    <2>5. BaseLocal(t)
      BY <1>0, <2>1, <2>2 DEF BaseLocal, InCase, InProcess
    <2> QED
      BY <1>1, <2>1, <2>2, <2>3, <2>4, <2>5
  <1>2. CASE Sweep(i, t)
    <2>1. /\ lease' \in [Tasks -> LeaseType] /\ \A u \in Tasks \ {t} : lease'[u] = lease[u]
          /\ lease'[t].phase = "none"
      BY <1>0, <1>2, Types, Fresh DEF Sweep
    <2>2. nudge' \in [Inst -> BOOLEAN] /\ \A k \in Inst : nudge'[k] => nudge[k] \/ k = i
      BY <1>0, <1>2, Nudged DEF Sweep
    <2>3. Frame(t) /\ task' = task /\ ex' = ex /\ result' = result /\ cancel' = cancel
      BY <1>0, <1>2, <2>1, <2>2, Types DEF Frame, Sweep, procs, marks, Mistaken
    <2>4. BaseLocal(t)
      BY <1>0, <2>3 DEF BaseLocal, InCase, InProcess
    <2> QED
      BY <1>2, <2>1, <2>2, <2>3, <2>4
  <1> QED
    BY <1>1, <1>2

\* The owner of an active lease that the reaper finds dead is not the executor.
LEMMA ReapTask ==
  ASSUME BaseInv, ProcessInv, TaskInv, NEW i \in Inst, NEW t \in Tasks, Reap(i, t) \/ Sweep(i, t)
  PROVE  LocalStep(t) /\ (SettleInv => SettleLocal(t))
  <1>0. /\ Ready(i) /\ Frame(t) /\ cancel' = cancel
        /\ \A k \in Inst : nudge'[k] => nudge[k] \/ k = i
    BY ServingIsReady, ReapFrame DEF Reap, Sweep
  <1>1. NudgeLocal(t)
    BY <1>0 DEF NudgeLocal
  <1>2. CASE /\ Reap(i, t) /\ task'[t] = "failed" /\ lease' = lease
             /\ ex'[t] = ex[t] \/ (ex[t].pc = "dead" /\ ex'[t].pc = "none" /\ ex'[t].at = None)
             /\ \A c \in Cases : result'[t][c] = "settled"
    <2>1. task[t] \in {"running", "queued"} /\ lease[t].phase = "active" /\ isLeaseOwnerDead(lease[t])
      BY <1>2 DEF Reap
    <2>2. ex[t].pc \in {"none", "dead", "request"}
      <3>1. SUFFICES ASSUME ex[t].pc \notin {"none", "dead", "request"} PROVE FALSE
        OBVIOUS
      <3>2. lease[t].owner = ex[t].at /\ lease[t].boot = boot[ex[t].at]
        BY <2>1, <3>1 DEF TaskInv
      <3>3. ex[t].at \in Inst /\ Up(ex[t].at) /\ boot[ex[t].at] \in Nat
        BY <3>1, Types DEF BaseInv, CaseInv, InProcess, ExType, ProcessInv
      <3> QED
        BY <2>1, <3>2, <3>3 DEF isLeaseOwnerDead
    <2>3. ex'[t].pc \in {"none", "dead", "request"} /\ ex'[t].at \in {None, ex[t].at}
      BY <1>2, <2>2
    <2>4. ~Executing(t)' /\ ~At(t, "start")'
      BY <2>3 DEF Executing, Attempting, At
    <2>5. TaskLocal(t)
      BY <1>2, <2>1, <2>2, <2>3, <2>4 DEF TaskLocal, TaskInv, Terminal, At
    <2>6. Unfinished(t)' = {}
      BY <1>2 DEF Unfinished
    <2>7. SettleLocal(t)
      BY <1>2, <2>6 DEF SettleLocal, SettleOf, LeftOpen, At
    <2> QED
      BY <1>0, <1>1, <2>5, <2>7 DEF LocalStep
  <1>3. CASE /\ Sweep(i, t) /\ task' = task /\ ex' = ex /\ result' = result
             /\ lease'[t].phase = "none"
    <2>1. TaskLocal(t)
      BY <1>3 DEF TaskLocal, TaskInv, Terminal, Executing, At
    <2>2. Unfinished(t)' = Unfinished(t)
      BY <1>3 DEF Unfinished
    <2>3. SettleInv => SettleLocal(t)
      BY <1>0, <1>3, <2>2 DEF Frame, SettleInv, SettleLocal, SettleOf, LeftOpen, At
    <2> QED
      BY <1>0, <1>1, <2>1, <2>3 DEF LocalStep
  <1> QED
    BY <1>2, <1>3, ReapFrame
-----------------------------------------------------------------------------
(* Steps of a process: its stop, its start and its recovery.               *)

\* Well-typed, and nobody comes to the queue.
ProcessFrame ==
    /\ UNCHANGED <<site, cancel>>
    /\ task' \in [Tasks -> TaskType] /\ result' \in [Tasks -> [Cases -> CaseType]]
    /\ lease' \in [Tasks -> LeaseType] /\ ex' \in [Tasks -> ExType]
    /\ nudge' \in [Inst -> BOOLEAN] /\ phase' \in [Inst -> PhaseType]
    /\ boot' \in [Inst -> Nat] /\ recov' \in [Inst -> RecovType]
    /\ faults' \in 0 .. MaxFaults /\ lost' \in BOOLEAN /\ scar' \in [Tasks -> ScarType]
    /\ \A u \in Tasks : scar[u] \subseteq scar'[u]
    /\ \A u \in Tasks : task'[u] = "queued" => task[u] = "queued"
    /\ \A u \in Tasks : ex'[u] = ex[u] \/ (ex'[u].pc \in {"none", "dead"} /\ ex'[u].at = None)

LEMMA ProcessBase ==
  ASSUME BaseInv, ProcessFrame
  PROVE  BaseInv'
  <1>0. TypeOK /\ CaseInv
    BY DEF BaseInv
  <1>1. Queued' \subseteq Queued
    BY DEF Queued, ProcessFrame
  <1>2. Cardinality(Queued') <= site'.limit
    BY <1>0, <1>1, QueueBound DEF ProcessFrame
  <1>3. TypeOK'
    BY <1>0, <1>2, Types DEF TypeOK, ProcessFrame, TaskType, CaseType, LeaseType, ExType, RecovType, ScarType, PhaseType
  <1>4. CaseInv'
    BY <1>0 DEF CaseInv, InCase, InProcess, ProcessFrame
  <1> QED
    BY <1>3, <1>4 DEF BaseInv

\* A process that goes down takes with it what was in it.
LEMMA DownDoes ==
  ASSUME TypeOK, NEW i \in Inst, Crash(i) \/ Exit(i)
  PROVE  /\ ProcessFrame /\ UNCHANGED <<task, result, lease, boot, scar>>
         /\ phase'[i] = "down" /\ ~nudge'[i] /\ recov'[i] = NoRecovery
         /\ \A j \in Inst \ {i} : phase'[j] = phase[j] /\ nudge'[j] = nudge[j] /\ recov'[j] = recov[j]
         /\ \A t \in Tasks : \/ ex'[t] = ex[t] /\ ex[t].at # i /\ recov[i].cur # t
                             \/ ex'[t].pc = "dead" /\ ex'[t].at = None
  <1>0. Down(i) /\ UNCHANGED <<site, task, cancel, result, lease, boot, lost, scar>>
    BY DEF Crash, Exit, marks
  <1>1. faults' \in 0 .. MaxFaults
    BY Types, Faults DEF Crash, Exit
  <1>2. /\ phase' \in [Inst -> PhaseType] /\ phase'[i] = "down"
        /\ nudge' \in [Inst -> BOOLEAN] /\ ~nudge'[i]
        /\ recov' \in [Inst -> RecovType] /\ recov'[i] = NoRecovery
        /\ \A j \in Inst \ {i} : phase'[j] = phase[j] /\ nudge'[j] = nudge[j] /\ recov'[j] = recov[j]
    BY <1>0, Types, Fresh DEF Down, PhaseType
  <1> DEFINE dead == [Idle EXCEPT !.pc = "dead"]
  <1>3. dead \in ExType /\ dead.pc = "dead" /\ dead.at = None
    BY Fresh DEF Idle, ExType, Pcs
  <1>4. ex \in [Tasks -> ExType] /\ ex' = [t \in Tasks |-> IF ex[t].at = i \/ recov[i].cur = t THEN dead ELSE ex[t]]
    BY <1>0, Types DEF Down
  <1> HIDE DEF dead
  <1>5. /\ ex' \in [Tasks -> ExType]
        /\ \A t \in Tasks : \/ ex'[t] = ex[t] /\ ex[t].at # i /\ recov[i].cur # t
                            \/ ex'[t].pc = "dead" /\ ex'[t].at = None
    BY <1>3, <1>4
  <1> QED
    BY <1>0, <1>1, <1>2, <1>5, Types DEF ProcessFrame

LEMMA ShutdownDoes ==
  ASSUME TypeOK, NEW i \in Inst, gracefulShutdown(i)
  PROVE  /\ ProcessFrame /\ UNCHANGED <<task, result, lease, ex, nudge, boot, recov, scar>>
         /\ \A j \in Inst : Up(j)' <=> Up(j)
  <1>1. faults' \in 0 .. MaxFaults
    BY Faults DEF gracefulShutdown
  <1>2. phase' \in [Inst -> PhaseType] /\ \A j \in Inst : Up(j)' <=> Up(j)
    <2>1. PICK ph \in {"draining", "fenced"} : phase' = [phase EXCEPT ![i] = ph]
      BY DEF gracefulShutdown
    <2> QED
      BY <2>1, Types DEF gracefulShutdown, Up, PhaseType
  <1> QED
    BY <1>1, <1>2, Types DEF ProcessFrame, gracefulShutdown, marks

LEMMA BootDoes ==
  ASSUME TypeOK, NEW i \in Inst, Boot(i)
  PROVE  /\ ProcessFrame /\ UNCHANGED <<task, result, lease, ex, nudge, scar>>
         /\ phase'[i] = "up" /\ recov'[i].todo = {} /\ recov'[i].cur = None
         /\ \A j \in Inst \ {i} : phase'[j] = phase[j] /\ boot'[j] = boot[j] /\ recov'[j] = recov[j]
  <1>1. /\ phase' \in [Inst -> PhaseType] /\ phase'[i] = "up"
        /\ \A j \in Inst \ {i} : phase'[j] = phase[j]
    BY Types DEF Boot, PhaseType
  <1>2. boot' \in [Inst -> Nat] /\ \A j \in Inst \ {i} : boot'[j] = boot[j]
    BY Types DEF Boot
  <1> DEFINE new == [NoRecovery EXCEPT !.on = TRUE]
  <1>3. new \in RecovType /\ new.todo = {} /\ new.cur = None
    BY Fresh DEF NoRecovery, RecovType
  <1>4. recov \in [Inst -> RecovType] /\ recov' = [recov EXCEPT ![i] = new]
    BY Types DEF Boot
  <1> HIDE DEF new
  <1>5. /\ recov' \in [Inst -> RecovType] /\ recov'[i] = new
        /\ \A j \in Inst \ {i} : recov'[j] = recov[j]
    BY <1>3, <1>4
  <1> QED
    BY <1>1, <1>2, <1>3, <1>5, Types DEF ProcessFrame, Boot, marks

LEMMA ListDoes ==
  ASSUME TypeOK, NEW i \in Inst, RecoverList(i)
  PROVE  /\ ProcessFrame /\ UNCHANGED <<task, result, lease, ex, nudge, phase, boot>>
         /\ recov'[i].listed /\ recov'[i].cur = recov[i].cur
         /\ recov'[i].todo = IF site.sqlite THEN Running ELSE {}
         /\ \A j \in Inst \ {i} : recov'[j] = recov[j]
         /\ \A t \in Tasks : t \in Mistaken' <=>
               t \in Mistaken \/ (t \in recov'[i].todo /\ isWorkloadLocallyActive(i, t))
  <1> DEFINE list == IF site.sqlite THEN Running ELSE {}
             new == [recov[i] EXCEPT !.listed = TRUE, !.todo = list]
  <1>0. recov \in [Inst -> RecovType]
    BY Types
  <1>1. list \subseteq Tasks
    BY DEF Running
  <1>2. recov' = [recov EXCEPT ![i] = new]
    BY <1>0 DEF RecoverList
  <1> HIDE DEF list
  <1>3. new \in RecovType /\ new.listed /\ new.cur = recov[i].cur /\ new.todo = list
    BY <1>0, <1>1 DEF RecovType
  <1> HIDE DEF new
  <1>4. recov' \in [Inst -> RecovType] /\ recov'[i] = new /\ \A j \in Inst \ {i} : recov'[j] = recov[j]
    BY <1>0, <1>2, <1>3
  <1>5. recov'[i].todo = IF site.sqlite THEN Running ELSE {}
    BY <1>3, <1>4 DEF list
  <1> DEFINE T == {t \in recov'[i].todo : isWorkloadLocallyActive(i, t)}
  <1>6. Scar(T, "mistaken")
    BY DEF RecoverList
  <1>7. /\ scar' \in [Tasks -> ScarType] /\ \A u \in Tasks : scar[u] \subseteq scar'[u]
        /\ \A u \in Tasks : scar'[u] = IF u \in T THEN scar[u] \cup {"mistaken"} ELSE scar[u]
    BY <1>6, Scars
  <1>8. \A t \in Tasks : t \in Mistaken' <=>
               t \in Mistaken \/ (t \in recov'[i].todo /\ isWorkloadLocallyActive(i, t))
    BY <1>7 DEF Mistaken
  <1> QED
    BY <1>3, <1>4, <1>5, <1>7, <1>8, Types DEF ProcessFrame, RecoverList, procs

LEMMA FailDoes ==
  ASSUME TypeOK, NEW i \in Inst, NEW t \in Tasks, RecoverTask(i, t)
  PROVE  /\ ProcessFrame /\ UNCHANGED <<result, lease, ex, nudge, phase, boot, scar>>
         /\ task'[t] = IF Exists(t) THEN "failed" ELSE task[t]
         /\ \A u \in Tasks \ {t} : task'[u] = task[u]
         /\ recov[i].cur = None /\ t \in recov[i].todo
         /\ recov'[i].listed = recov[i].listed /\ recov'[i].on = recov[i].on
         /\ recov'[i].cur = t /\ recov'[i].todo = recov[i].todo \ {t}
         /\ \A j \in Inst \ {i} : recov'[j] = recov[j]
  <1> DEFINE new == [recov[i] EXCEPT !.todo = recov[i].todo \ {t}, !.cur = t]
  <1>0. recov \in [Inst -> RecovType]
    BY Types
  <1>1. recov' = [recov EXCEPT ![i] = new]
    BY <1>0 DEF RecoverTask
  <1>2. /\ new \in RecovType /\ new.todo = recov[i].todo \ {t} /\ new.cur = t
        /\ new.listed = recov[i].listed /\ new.on = recov[i].on
    BY <1>0 DEF RecovType
  <1> HIDE DEF new
  <1>3. recov' \in [Inst -> RecovType] /\ recov'[i] = new /\ \A j \in Inst \ {i} : recov'[j] = recov[j]
    BY <1>0, <1>1, <1>2
  <1>4. /\ task' \in [Tasks -> TaskType] /\ \A u \in Tasks \ {t} : task'[u] = task[u]
        /\ task'[t] = IF Exists(t) THEN "failed" ELSE task[t]
    BY Writes DEF RecoverTask, TaskType, Terminal
  <1> QED
    BY <1>2, <1>3, <1>4, Types DEF ProcessFrame, RecoverTask, procs, marks

LEMMA ResultsDoes ==
  ASSUME TypeOK, NEW i \in Inst, RecoverResults(i)
  PROVE  /\ ProcessFrame /\ UNCHANGED <<task, nudge, phase, boot, scar>>
         /\ recov'[i].cur = None /\ recov'[i].todo = recov[i].todo
         /\ recov'[i].listed = recov[i].listed /\ recov'[i].on = recov[i].on
         /\ \A j \in Inst \ {i} : recov'[j] = recov[j]
         /\ \E t \in Tasks :
              /\ t = recov[i].cur
              /\ \A c \in Cases : result'[t][c] = "settled"
              /\ \A u \in Tasks \ {t} : result'[u] = result[u] /\ ex'[u] = ex[u]
              /\ ex'[t] = ex[t] \/ (ex[t].pc = "dead" /\ ex'[t].pc = "none" /\ ex'[t].at = None)
              /\ \A u \in Tasks : lease'[u] = lease[u] \/ lease'[u].phase = "none"
  <1> DEFINE new == [recov[i] EXCEPT !.cur = None]
  <1>0. recov \in [Inst -> RecovType]
    BY Types
  <1>1. PICK t \in Tasks : t = recov[i].cur
    BY <1>0 DEF RecoverResults, RecovType
  <1>2. recov' = [recov EXCEPT ![i] = new]
    BY <1>0 DEF RecoverResults
  <1>3. /\ new \in RecovType /\ new.todo = recov[i].todo /\ new.cur = None
        /\ new.listed = recov[i].listed /\ new.on = recov[i].on
    BY <1>0 DEF RecovType
  <1> HIDE DEF new
  <1>4. recov' \in [Inst -> RecovType] /\ recov'[i] = new /\ \A j \in Inst \ {i} : recov'[j] = recov[j]
    BY <1>0, <1>2, <1>3
  <1>5. /\ result' = Settled(t) /\ lease' = [lease EXCEPT ![t] = NoLease]
        /\ ex' = [ex EXCEPT ![t] = IF At(t, "dead") THEN Idle ELSE ex[t]]
    BY <1>1 DEF RecoverResults
  <1>6. /\ result' \in [Tasks -> [Cases -> CaseType]]
        /\ \A c \in Cases : result'[t][c] = "settled"
        /\ \A u \in Tasks \ {t} : result'[u] = result[u]
    BY <1>5, Settles
  <1>7. lease' \in [Tasks -> LeaseType] /\ \A u \in Tasks : lease'[u] = lease[u] \/ lease'[u].phase = "none"
    BY <1>5, Types, Fresh
  <1>8. /\ ex' \in [Tasks -> ExType] /\ \A u \in Tasks \ {t} : ex'[u] = ex[u]
        /\ ex'[t] = ex[t] \/ (ex[t].pc = "dead" /\ ex'[t].pc = "none" /\ ex'[t].at = None)
    BY <1>5, Types, Fresh DEF At
  <1>9. UNCHANGED <<site, cancel, faults, lost, task, nudge, phase, boot, scar>>
    BY DEF RecoverResults, procs, marks
  <1>10. ProcessFrame
    BY <1>4, <1>6, <1>7, <1>8, <1>9, Types DEF ProcessFrame
  <1> QED
    BY <1>1, <1>3, <1>4, <1>6, <1>7, <1>8, <1>9, <1>10

LEMMA QueueDoes ==
  ASSUME TypeOK, NEW i \in Inst, RecoverQueue(i)
  PROVE  /\ ProcessFrame /\ UNCHANGED <<task, result, lease, ex, phase, boot, scar>>
         /\ Up(i) /\ recov[i].cur = None /\ recov'[i] = NoRecovery
         /\ \A j \in Inst \ {i} : recov'[j] = recov[j] /\ nudge'[j] = nudge[j]
  <1>1. recov' \in [Inst -> RecovType] /\ recov'[i] = NoRecovery /\ \A j \in Inst \ {i} : recov'[j] = recov[j]
    BY Types, Fresh DEF RecoverQueue
  <1>2. nudge' \in [Inst -> BOOLEAN] /\ \A j \in Inst \ {i} : nudge'[j] = nudge[j]
    <2>1. nudge \in [Inst -> BOOLEAN]
      BY Types
    <2>2. nudge' = [nudge EXCEPT ![i] = nudge[i] \/ Queued # {}]
      BY DEF RecoverQueue
    <2> QED
      BY <2>1, <2>2
  <1> QED
    BY <1>1, <1>2, Types DEF ProcessFrame, RecoverQueue, procs, marks

LEMMA RecoverThrowsDoes ==
  ASSUME TypeOK, NEW i \in Inst, RecoverThrows(i)
  PROVE  /\ ProcessFrame /\ UNCHANGED <<task, result, lease, ex, nudge, phase, boot>>
         /\ Up(i) /\ recov'[i] = NoRecovery /\ Mistaken' = Mistaken
         /\ \A j \in Inst \ {i} : recov'[j] = recov[j]
         /\ \A t \in Tasks : t = recov[i].cur => scar'[t] # {}
  <1>1. recov' \in [Inst -> RecovType] /\ recov'[i] = NoRecovery /\ \A j \in Inst \ {i} : recov'[j] = recov[j]
    BY Types, Fresh DEF RecoverThrows
  <1>2. /\ scar' \in [Tasks -> ScarType] /\ Mistaken' = Mistaken
        /\ \A u \in Tasks : scar[u] \subseteq scar'[u]
        /\ \A t \in Tasks : t = recov[i].cur => scar'[t] # {}
    <2> DEFINE T == {recov[i].cur} \cap Tasks
    <2>1. Scar(T, "threw") /\ \A t \in Tasks : t = recov[i].cur => t \in T
      BY DEF RecoverThrows
    <2> HIDE DEF T
    <2>2. /\ scar' \in [Tasks -> ScarType] /\ Mistaken' = Mistaken
          /\ \A u \in Tasks : scar[u] \subseteq scar'[u]
          /\ \A u \in Tasks : scar'[u] = IF u \in T THEN scar[u] \cup {"threw"} ELSE scar[u]
      BY <2>1, Scars, Zenon
    <2> QED
      BY <2>1, <2>2
  <1>3. lost' \in BOOLEAN
    BY DEF RecoverThrows
  <1> QED
    BY <1>1, <1>2, <1>3, Types DEF ProcessFrame, RecoverThrows, procs

-----------------------------------------------------------------------------
ProcessAct(i) == Crash(i) \/ gracefulShutdown(i) \/ Exit(i) \/ Boot(i) \/ Recover(i) \/ RecoverThrows(i)

\* A step of a process gives no task an executor, and settles only what is running or
\* has failed.
LEMMA ProcessKeepsBase ==
  ASSUME BaseInv, NEW i \in Inst, ProcessAct(i)
  PROVE  ProcessFrame
  BY DownDoes, ShutdownDoes, BootDoes, ListDoes, FailDoes, ResultsDoes, QueueDoes, RecoverThrowsDoes
  DEF BaseInv, ProcessAct, Recover

\* What is said of a process and of a task holds through the stops, the starts and the
\* recoveries.
LEMMA ProcessKeepsTask ==
  ASSUME BaseInv, ProcessInv, TaskInv, NEW i \in Inst, ProcessAct(i)
  PROVE  /\ ProcessInv' /\ TaskInv'
         /\ \A t \in Tasks \ Mistaken : task[t] \in Terminal => task'[t] = task[t]
  <1>0. TypeOK /\ CaseInv /\ Up(i)' = (phase'[i] # "down")
    BY DEF BaseInv, Up
  <1>m. UNCHANGED scar => Mistaken' = Mistaken
    BY DEF Mistaken
  <1>1. CASE Crash(i) \/ Exit(i)
    <2>1. /\ UNCHANGED <<site, task, result, lease, boot, scar>>
          /\ phase'[i] = "down" /\ ~nudge'[i] /\ recov'[i] = NoRecovery
          /\ \A j \in Inst \ {i} : phase'[j] = phase[j] /\ nudge'[j] = nudge[j] /\ recov'[j] = recov[j]
          /\ \A t \in Tasks : \/ ex'[t] = ex[t] /\ ex[t].at # i /\ recov[i].cur # t
                              \/ ex'[t].pc = "dead" /\ ex'[t].at = None
      BY <1>0, <1>1, DownDoes DEF ProcessFrame
    <2>2. ProcessInv'
      <3>0. \A t \in Tasks : ex[t].at \in Inst \cup {None}
        BY <1>0, Types DEF ExType
      <3>1. \A t \in Tasks : ex'[t].at # None => phase'[ex'[t].at] # "down"
        BY <2>1, <3>0 DEF ProcessInv, Up
      <3>2. site'.sqlite => \A j, k \in Inst : phase'[j] # "down" /\ phase'[k] # "down" => j = k
        BY <2>1 DEF ProcessInv, Up
      <3>3. \A j \in Inst : phase'[j] = "down" => ~nudge'[j] /\ recov'[j] = NoRecovery
        BY <2>1 DEF ProcessInv, Up
      <3> QED
        BY <3>1, <3>2, <3>3 DEF ProcessInv, Up
    <2>3. TaskInv'
      <3>0. Mistaken' = Mistaken
        BY <1>m, <2>1
      <3>1. Running' = Running /\ \A t \in Tasks : Executing(t)' => ex'[t] = ex[t]
        BY <2>1 DEF Running, Executing, Attempting
      <3>2. \A t \in Tasks : At(t, "start")' => ex'[t] = ex[t]
        BY <2>1 DEF At
      <3>3. \A j \in Inst : \A t \in Tasks \ Mistaken : t \in recov'[j].todo \/ t = recov'[j].cur =>
               ex'[t].pc \in {"none", "dead"} /\ task'[t] \in {"running", "failed", "deleted"}
        BY <2>1, Fresh DEF TaskInv
      <3>4. /\ \A t \in Tasks : At(t, "request")' => task'[t] \in {"cancelled", "deleted"}
            /\ \A t \in Mistaken : task'[t] \notin {"none", "queued"} /\ ~At(t, "request")'
        BY <2>1 DEF TaskInv, At, Mistaken
      <3>5. \A t \in Tasks : lease'[t].phase = "active" /\ ex'[t].pc \notin {"none", "dead", "request"}
                               => lease'[t].owner = ex'[t].at /\ lease'[t].boot = boot'[ex'[t].at]
        BY <2>1 DEF TaskInv
      <3>6. \A t \in Tasks \ Mistaken : Executing(t)' => task'[t] = "running"
        BY <2>1, <3>1 DEF TaskInv, Executing
      <3>7. \A t \in Tasks : task'[t] \in {"none", "queued"} \/ At(t, "start")' => lease'[t].phase # "active"
        BY <2>1, <3>2 DEF TaskInv, At
      <3>8. \A t, u \in Running' \ Mistaken : t = u
        BY <3>1 DEF TaskInv
      <3> QED
        BY <3>0, <3>3, <3>4, <3>5, <3>6, <3>7, <3>8 DEF TaskInv
    <2> QED
      BY <2>1, <2>2, <2>3
  <1>2. CASE gracefulShutdown(i)
    <2>1. /\ UNCHANGED <<site, task, result, lease, ex, nudge, boot, recov, scar>>
          /\ \A j \in Inst : Up(j)' <=> Up(j)
      BY <1>0, <1>2, ShutdownDoes DEF ProcessFrame
    <2>2. \A t \in Tasks : ex[t].at \in Inst \cup {None}
      BY <1>0, Types DEF ExType
    <2>3. ProcessInv'
      BY <2>1, <2>2 DEF ProcessInv, Up
    <2>4. TaskInv'
      BY <1>m, <2>1 DEF TaskInv, Executing, Running, At
    <2> QED
      BY <2>1, <2>3, <2>4
  <1>3. CASE Boot(i)
    <2>1. /\ UNCHANGED <<site, task, result, lease, ex, nudge, scar>>
          /\ phase'[i] = "up" /\ recov'[i].todo = {} /\ recov'[i].cur = None
          /\ \A j \in Inst \ {i} : phase'[j] = phase[j] /\ boot'[j] = boot[j] /\ recov'[j] = recov[j]
      BY <1>0, <1>3, BootDoes DEF ProcessFrame
    <2>2. /\ ~nudge[i] /\ \A t \in Tasks : ex[t].at \in (Inst \ {i}) \cup {None}
          /\ site.sqlite => \A j \in Inst : ~Up(j)
      <3>1. ~Up(i) /\ (site.sqlite => \A j \in Inst : ~Up(j))
        BY <1>3 DEF Boot
      <3>2. \A t \in Tasks : ex[t].at \in Inst \cup {None} /\ ex[t].at # i
        BY <1>0, <3>1, Types, Fresh DEF ExType, ProcessInv
      <3> QED
        BY <3>1, <3>2 DEF ProcessInv
    <2>3. ProcessInv'
      <3>1. \A t \in Tasks : ex'[t].at # None => phase'[ex'[t].at] # "down"
        BY <2>1, <2>2 DEF ProcessInv, Up
      <3>2. site'.sqlite => \A j, k \in Inst : phase'[j] # "down" /\ phase'[k] # "down" => j = k
        BY <2>1, <2>2 DEF Up
      <3>3. \A j \in Inst : phase'[j] = "down" => ~nudge'[j] /\ recov'[j] = NoRecovery
        BY <2>1 DEF ProcessInv, Up
      <3> QED
        BY <3>1, <3>2, <3>3 DEF ProcessInv, Up
    <2>4. TaskInv'
      <3>1. \A t \in Tasks : ex[t].at # None => boot'[ex[t].at] = boot[ex[t].at]
        BY <2>1, <2>2
      <3>2. \A t \in Tasks : ex[t].pc \notin {"none", "dead", "request"} => ex[t].at # None
        BY <1>0 DEF CaseInv, InProcess
      <3> QED
        BY <1>m, <2>1, <3>1, <3>2, Fresh DEF TaskInv, Executing, Running, At
    <2> QED
      BY <2>1, <2>3, <2>4
  <1>4. CASE RecoverList(i)
    <2>1. /\ UNCHANGED <<site, task, result, lease, ex, nudge, phase, boot>>
          /\ recov'[i].cur = recov[i].cur
          /\ recov'[i].todo = IF site.sqlite THEN Running ELSE {}
          /\ \A j \in Inst \ {i} : recov'[j] = recov[j]
          /\ \A t \in Tasks : t \in Mistaken' <=>
                t \in Mistaken \/ (t \in recov'[i].todo /\ isWorkloadLocallyActive(i, t))
      BY <1>0, <1>4, ListDoes DEF ProcessFrame
    <2>2. Up(i) /\ Mistaken' \subseteq Tasks
      BY <1>4 DEF RecoverList, Mistaken
    <2>3. ASSUME NEW t \in Tasks \ Mistaken', t \in recov'[i].todo
          PROVE  ex[t].pc \in {"none", "dead"} /\ task[t] = "running"
      <3>1. site.sqlite /\ task[t] = "running" /\ ~isWorkloadLocallyActive(i, t)
        BY <2>1, <2>3 DEF Running
      <3>2. ex[t].at = None \/ ex[t].at = i
        BY <1>0, <2>2, <3>1, Types DEF ProcessInv, ExType
      <3>3. ~At(t, "request")
        BY <3>1 DEF TaskInv
      <3> QED
        BY <1>0, <3>1, <3>2, <3>3 DEF CaseInv, InProcess, isWorkloadLocallyActive, At
    <2>4. ProcessInv'
      BY <2>1, <2>2 DEF ProcessInv, Up
    <2>5. \A j \in Inst : \A t \in Tasks \ Mistaken' : t \in recov'[j].todo \/ t = recov'[j].cur =>
             ex'[t].pc \in {"none", "dead"} /\ task'[t] \in {"running", "failed", "deleted"}
      BY <2>1, <2>3 DEF TaskInv
    <2>6. \A t \in Mistaken' : task'[t] \notin {"none", "queued"} /\ ~At(t, "request")'
      BY <2>1, <2>2 DEF TaskInv, At, isWorkloadLocallyActive, Running
    <2>7. TaskInv'
      BY <2>1, <2>5, <2>6 DEF TaskInv, Executing, Running, At
    <2> QED
      BY <2>1, <2>4, <2>7
  <1>5. ASSUME NEW t \in Tasks, RecoverTask(i, t)
        PROVE  /\ ProcessInv' /\ TaskInv'
               /\ \A u \in Tasks \ Mistaken : task[u] \in Terminal => task'[u] = task[u]
    <2>1. /\ UNCHANGED <<site, result, lease, ex, nudge, phase, boot, scar>>
          /\ task'[t] = IF Exists(t) THEN "failed" ELSE task[t]
          /\ \A u \in Tasks \ {t} : task'[u] = task[u]
          /\ recov[i].cur = None /\ t \in recov[i].todo
          /\ recov'[i].listed = recov[i].listed /\ recov'[i].on = recov[i].on
          /\ recov'[i].cur = t /\ recov'[i].todo = recov[i].todo \ {t}
          /\ \A j \in Inst \ {i} : recov'[j] = recov[j]
      BY <1>0, <1>5, FailDoes DEF ProcessFrame
    <2>2. /\ Up(i) /\ Mistaken' = Mistaken
          /\ t \notin Mistaken => ex[t].pc \in {"none", "dead"} /\ task[t] \in {"running", "failed", "deleted"}
      BY <1>5, <1>m, <2>1 DEF RecoverTask, TaskInv
    <2>3. /\ t \notin Mistaken => task'[t] \in {"failed", "deleted"} /\ (task[t] = "failed" => task'[t] = "failed")
          /\ task'[t] # "running" /\ (task[t] \notin {"none", "queued"} => task'[t] \notin {"none", "queued"})
          /\ task'[t] = "none" => task[t] = "none"
          /\ task'[t] # "queued"
      BY <2>1, <2>2 DEF Exists
    <2>4. ProcessInv'
      BY <2>1, <2>2 DEF ProcessInv, Up
    <2>5. \A j \in Inst : \A u \in Tasks \ Mistaken : u \in recov'[j].todo \/ u = recov'[j].cur =>
             ex'[u].pc \in {"none", "dead"} /\ task'[u] \in {"running", "failed", "deleted"}
      BY <2>1, <2>2, <2>3 DEF TaskInv
    <2>6. /\ \A u \in Tasks : At(u, "request")' => task'[u] \in {"cancelled", "deleted"}
          /\ \A u \in Mistaken : task'[u] \notin {"none", "queued"} /\ ~At(u, "request")'
      BY <2>1, <2>2, <2>3 DEF TaskInv, At, Mistaken
    <2>7. \A u \in Tasks \ Mistaken : Executing(u)' => task'[u] = "running"
      BY <2>1, <2>2 DEF TaskInv, Executing, Attempting
    <2>8. Running' \subseteq Running
      BY <2>1, <2>3 DEF Running
    <2>9. \A u \in Tasks : task'[u] \in {"none", "queued"} \/ At(u, "start")' => lease'[u].phase # "active"
      BY <2>1, <2>2, <2>3 DEF TaskInv, At
    <2>10. \A u \in Tasks : lease'[u].phase = "active" /\ ex'[u].pc \notin {"none", "dead", "request"}
                             => lease'[u].owner = ex'[u].at /\ lease'[u].boot = boot'[ex'[u].at]
      BY <2>1 DEF TaskInv
    <2>11. TaskInv'
      BY <2>2, <2>5, <2>6, <2>7, <2>8, <2>9, <2>10 DEF TaskInv
    <2> QED
      BY <2>1, <2>2, <2>3, <2>4, <2>11 DEF Terminal
  <1>6. CASE RecoverResults(i)
    <2>1. PICK t \in Tasks :
              /\ UNCHANGED <<site, task, nudge, phase, boot, scar>>
              /\ recov'[i].cur = None /\ recov'[i].todo = recov[i].todo
              /\ \A j \in Inst \ {i} : recov'[j] = recov[j]
              /\ t = recov[i].cur
              /\ \A u \in Tasks \ {t} : ex'[u] = ex[u]
              /\ ex'[t] = ex[t] \/ (ex[t].pc = "dead" /\ ex'[t].pc = "none" /\ ex'[t].at = None)
              /\ \A u \in Tasks : lease'[u] = lease[u] \/ lease'[u].phase = "none"
      BY <1>0, <1>6, ResultsDoes DEF ProcessFrame
    <2>2. Up(i) /\ Mistaken' = Mistaken
      BY <1>6, <1>m, <2>1 DEF RecoverResults
    <2>3. /\ \A u \in Tasks : ex'[u] = ex[u] \/ (ex'[u].pc = "none" /\ ex'[u].at = None)
          /\ \A u \in Tasks : ex[u].pc \in {"none", "dead"} => ex'[u].pc \in {"none", "dead"}
      BY <2>1
    <2>4. ProcessInv'
      <3>1. \A u \in Tasks : ex'[u].at # None => phase'[ex'[u].at] # "down"
        BY <2>1, <2>3 DEF ProcessInv, Up
      <3> QED
        BY <2>1, <2>2, <3>1 DEF ProcessInv, Up
    <2>5. \A j \in Inst : \A u \in Tasks \ Mistaken : u \in recov'[j].todo \/ u = recov'[j].cur =>
             ex'[u].pc \in {"none", "dead"} /\ task'[u] \in {"running", "failed", "deleted"}
      BY <2>1, <2>3, Fresh DEF TaskInv
    <2>6. /\ \A u \in Tasks : At(u, "request")' => task'[u] \in {"cancelled", "deleted"}
          /\ \A u \in Mistaken : task'[u] \notin {"none", "queued"} /\ ~At(u, "request")'
      BY <2>1, <2>3 DEF TaskInv, At, Mistaken
    <2>7. \A u \in Tasks \ Mistaken : Executing(u)' => task'[u] = "running"
      BY <2>1, <2>3 DEF TaskInv, Executing, Attempting
    <2>8. \A u \in Tasks : task'[u] \in {"none", "queued"} \/ At(u, "start")' => lease'[u].phase # "active"
      BY <2>1, <2>3 DEF TaskInv, At
    <2>9. \A u \in Tasks : lease'[u].phase = "active" /\ ex'[u].pc \notin {"none", "dead", "request"}
                             => lease'[u].owner = ex'[u].at /\ lease'[u].boot = boot'[ex'[u].at]
      BY <2>1, <2>3 DEF TaskInv
    <2>10. TaskInv'
      BY <2>1, <2>2, <2>5, <2>6, <2>7, <2>8, <2>9 DEF TaskInv, Running
    <2> QED
      BY <2>1, <2>4, <2>10
  <1>7. CASE RecoverQueue(i) \/ RecoverThrows(i)
    <2>1. /\ UNCHANGED <<site, task, result, lease, ex, phase, boot>> /\ Mistaken' = Mistaken
          /\ Up(i) /\ recov'[i] = NoRecovery
          /\ \A j \in Inst \ {i} : recov'[j] = recov[j] /\ nudge'[j] = nudge[j]
      BY <1>0, <1>7, <1>m, QueueDoes, RecoverThrowsDoes DEF ProcessFrame
    <2>2. ProcessInv'
      BY <2>1, Fresh DEF ProcessInv, Up
    <2>3. TaskInv'
      BY <2>1, Fresh DEF TaskInv, Executing, Running, At
    <2> QED
      BY <2>1, <2>2, <2>3
  <1> QED
    BY <1>1, <1>2, <1>3, <1>4, <1>5, <1>6, <1>7 DEF ProcessAct, Recover

\* A stop leaves the mark of the dead where it took away who was to settle, and a
\* recovery settles what it has failed.
LEMMA ProcessKeepsSettle ==
  ASSUME BaseInv, ProcessInv, TaskInv, SettleInv, NEW i \in Inst, ProcessAct(i)
  PROVE  SettleInv'
  <1>0. TypeOK /\ cancel' = cancel /\ \A t \in Tasks : scar[t] \subseteq scar'[t]
    BY ProcessKeepsBase DEF BaseInv, ProcessFrame
  <1> DEFINE InLoop == {"start", "check", "begin", "loop", "case", "cli"}
             Excused(t) == \/ ex[t].pc \in {"request", "settle", "overruling", "settlefailed", "dead"}
                           \/ \E j \in Inst : recov[j].cur = t
  <1>2. SUFFICES ASSUME NEW t \in Tasks, scar'[t] = {}
                 PROVE  /\ ex'[t].pc \in InLoop => \A c \in Cases : c < ex'[t].case => result'[t][c] = "settled"
                        /\ At(t, "ended")' => cancel'[t] \/ Unfinished(t)' = {}
                        /\ At(t, "completing")' => Unfinished(t)' = {}
                        /\ task'[t] \in Terminal /\ Unfinished(t)' # {} => Excused(t)'
    BY DEF SettleInv, SettleOf, LeftOpen
  <1>1. /\ ex[t].pc \in InLoop => \A c \in Cases : c < ex[t].case => result[t][c] = "settled"
        /\ At(t, "ended") => cancel[t] \/ Unfinished(t) = {}
        /\ At(t, "completing") => Unfinished(t) = {}
        /\ task[t] \in Terminal /\ Unfinished(t) # {} => Excused(t)
    <2>1. scar[t] = {}
      BY <1>0, <1>2
    <2> QED
      BY <2>1 DEF SettleInv, SettleOf, LeftOpen
  <1>3. result'[t] = result[t] => Unfinished(t)' = Unfinished(t)
    BY DEF Unfinished
  <1>4. CASE /\ task'[t] = task[t] /\ result'[t] = result[t]
             /\ \/ ex'[t] = ex[t] /\ (Excused(t) => Excused(t)')
                \/ ex'[t].pc = "dead"
    BY <1>0, <1>1, <1>3, <1>4 DEF At
  <1>5. CASE Crash(i) \/ Exit(i)
    <2>1. /\ UNCHANGED <<task, result>>
          /\ \A j \in Inst \ {i} : recov'[j] = recov[j]
          /\ \/ ex'[t] = ex[t] /\ ex[t].at # i /\ recov[i].cur # t
             \/ ex'[t].pc = "dead" /\ ex'[t].at = None
      BY <1>0, <1>5, DownDoes DEF ProcessFrame
    <2>2. ex'[t].pc # "dead" /\ Excused(t) => Excused(t)'
      BY <2>1
    <2> QED
      BY <1>4, <2>1, <2>2
  <1>6. CASE gracefulShutdown(i) \/ Boot(i) \/ RecoverList(i) \/ RecoverQueue(i)
    <2>1. UNCHANGED <<task, result, ex>>
      BY <1>0, <1>6, ShutdownDoes, BootDoes, ListDoes, QueueDoes DEF ProcessFrame
    <2>2. \A j \in Inst : recov'[j].cur = recov[j].cur
      <3>1. CASE gracefulShutdown(i)
        BY <1>0, <3>1, ShutdownDoes
      <3>2. CASE Boot(i)
        <4>1. recov[i].cur = None
          BY <3>2, Fresh DEF Boot, ProcessInv
        <4> QED
          BY <1>0, <3>2, <4>1, BootDoes
      <3>3. CASE RecoverList(i)
        BY <1>0, <3>3, ListDoes
      <3>4. CASE RecoverQueue(i)
        BY <1>0, <3>4, QueueDoes, Fresh
      <3> QED
        BY <1>6, <3>1, <3>2, <3>3, <3>4
    <2>3. Excused(t) => Excused(t)'
      BY <2>1, <2>2
    <2> QED
      BY <1>4, <2>1, <2>3
  <1>7. CASE \E u \in Tasks : RecoverTask(i, u)
    <2>1. PICK u \in Tasks : RecoverTask(i, u)
      BY <1>7
    <2>2. /\ UNCHANGED <<result, ex>> /\ recov[i].cur = None /\ recov'[i].cur = u
          /\ \A v \in Tasks \ {u} : task'[v] = task[v]
          /\ \A j \in Inst \ {i} : recov'[j] = recov[j]
      BY <1>0, <2>1, FailDoes
    <2>3. CASE t = u
      <3>1. Excused(t)'
        BY <2>2, <2>3
      <3> QED
        BY <1>0, <1>1, <1>3, <2>2, <3>1 DEF At
    <2>4. CASE t # u
      <3>1. Excused(t) => Excused(t)'
        BY <2>2, Fresh
      <3> QED
        BY <1>4, <2>2, <2>4, <3>1
    <2> QED
      BY <2>3, <2>4
  <1>8. CASE RecoverResults(i)
    <2>1. PICK u \in Tasks :
              /\ UNCHANGED task
              /\ \A j \in Inst \ {i} : recov'[j] = recov[j]
              /\ u = recov[i].cur
              /\ \A c \in Cases : result'[u][c] = "settled"
              /\ \A v \in Tasks \ {u} : result'[v] = result[v] /\ ex'[v] = ex[v]
      BY <1>0, <1>8, ResultsDoes
    <2>2. CASE t = u
      <3>1. Unfinished(t)' = {}
        BY <2>1, <2>2 DEF Unfinished
      <3> QED
        BY <2>1, <2>2, <3>1
    <2>3. CASE t # u
      <3>1. Excused(t) => Excused(t)'
        BY <2>1, <2>3
      <3> QED
        BY <1>4, <2>1, <2>3, <3>1
    <2> QED
      BY <2>2, <2>3
  <1>9. CASE RecoverThrows(i)
    <2>1. /\ UNCHANGED <<task, result, ex>> /\ t # recov[i].cur
          /\ \A j \in Inst \ {i} : recov'[j] = recov[j]
      BY <1>0, <1>2, <1>9, RecoverThrowsDoes
    <2>2. Excused(t) => Excused(t)'
      BY <2>1
    <2> QED
      BY <1>4, <2>1, <2>2
  <1> QED
    BY <1>5, <1>6, <1>7, <1>8, <1>9 DEF ProcessAct, Recover

-----------------------------------------------------------------------------
(* All steps.                                                              *)

\* A step is about one task or none, or a step of a process.
LEMMA NextCases ==
  ASSUME Next
  PROVE  \/ \E i \in Inst : \/ Create(i) \/ scheduleNextEvaluation(i) \/ PromotionFails(i) \/ ProcessAct(i)
                            \/ \E t \in Tasks : \/ CancelQueued(i, t) \/ CancelRunning(i, t) \/ Delete(i, t)
                                                \/ Reap(i, t) \/ Sweep(i, t)
         \/ \E t \in Tasks : WorkAct(t)
  BY DEF Next, ProcessAct, WorkAct

LEMMA BaseStep ==
  ASSUME BaseInv, [Next]_vars
  PROVE  BaseInv'
  <1>1. CASE UNCHANGED vars
    BY <1>1 DEF BaseInv, TypeOK, CaseInv, InCase, InProcess, Queued, vars
  <1>2. ASSUME NEW i \in Inst, Create(i) PROVE BaseInv'
    BY <1>2, CreateFrame, FrameBase
  <1>3. ASSUME NEW i \in Inst, scheduleNextEvaluation(i) \/ PromotionFails(i) PROVE BaseInv'
    BY <1>3, PromoteFrame, FrameBase
  <1>4. ASSUME NEW i \in Inst, NEW t \in Tasks, CancelQueued(i, t) \/ CancelRunning(i, t) \/ Delete(i, t)
        PROVE  BaseInv'
    BY <1>4, CancelFrame, FrameBase
  <1>5. ASSUME NEW i \in Inst, NEW t \in Tasks, Reap(i, t) \/ Sweep(i, t) PROVE BaseInv'
    BY <1>5, ReapFrame, FrameBase
  <1>6. ASSUME NEW i \in Inst, ProcessAct(i) PROVE BaseInv'
    BY <1>6, ProcessKeepsBase, ProcessBase
  <1>7. ASSUME NEW t \in Tasks, WorkAct(t) PROVE BaseInv'
    BY <1>7, WorkFrame, FrameBase
  <1> QED
    BY <1>1, <1>2, <1>3, <1>4, <1>5, <1>6, <1>7, NextCases

\* A step is local or a process's.
LEMMA StepCases ==
  ASSUME BaseInv, ProcessInv, TaskInv, [Next]_vars
  PROVE  \/ UNCHANGED vars
         \/ \E i \in Inst : ProcessAct(i)
         \/ \E t \in Tasks \cup {None} :
               LocalStep(t) /\ (SettleInv /\ t \in Tasks => SettleLocal(t))
  <1> DEFINE Local == \E t \in Tasks \cup {None} :
                         LocalStep(t) /\ (SettleInv /\ t \in Tasks => SettleLocal(t))
  <1>1. ASSUME NEW i \in Inst, Create(i) PROVE Local
    BY <1>1, CreateTask
  <1>2. ASSUME NEW i \in Inst, scheduleNextEvaluation(i) \/ PromotionFails(i) PROVE Local
    BY <1>2, PromoteTask
  <1>3. ASSUME NEW i \in Inst, NEW t \in Tasks, CancelQueued(i, t) \/ CancelRunning(i, t) \/ Delete(i, t)
        PROVE  Local
    BY <1>3, CancelTask
  <1>4. ASSUME NEW i \in Inst, NEW t \in Tasks, Reap(i, t) \/ Sweep(i, t) PROVE Local
    BY <1>4, ReapTask
  <1>5. ASSUME NEW t \in Tasks, WorkAct(t) PROVE Local
    <2>1. LocalStep(t)
      BY <1>5, WorkFrame, WorkTask DEF LocalStep
    <2>2. SettleInv => SettleLocal(t)
      BY <1>5, WorkSettle
    <2> QED
      BY <2>1, <2>2
  <1> HIDE DEF Local
  <1>6. CASE UNCHANGED vars
    BY <1>6
  <1>7. CASE Next
    <2>1. Local \/ \E i \in Inst : ProcessAct(i)
      BY <1>1, <1>2, <1>3, <1>4, <1>5, <1>7, NextCases
    <2> QED
      BY <2>1 DEF Local
  <1> QED
    BY <1>6, <1>7

LEMMA TaskStep ==
  ASSUME IInv, [Next]_vars
  PROVE  IInv'
  <1>0. BaseInv /\ ProcessInv /\ TaskInv /\ BaseInv'
    BY BaseStep DEF IInv
  <1>1. CASE UNCHANGED vars
    BY <1>0, <1>1 DEF IInv, ProcessInv, TaskInv, Up, Executing, Running, Mistaken, At, vars
  <1>2. CASE \E i \in Inst : ProcessAct(i)
    BY <1>0, <1>2, ProcessKeepsTask DEF IInv
  <1>3. CASE \E t \in Tasks \cup {None} : LocalStep(t)
    BY <1>0, <1>3, FrameTask DEF IInv
  <1> QED
    BY <1>0, <1>1, <1>2, <1>3, StepCases

LEMMA SettleStep ==
  ASSUME IInv, SettleInv, [Next]_vars
  PROVE  SettleInv'
  <1>0. BaseInv /\ ProcessInv /\ TaskInv
    BY DEF IInv
  <1>1. CASE UNCHANGED vars
    BY <1>1 DEF SettleInv, SettleOf, LeftOpen, Unfinished, At, vars
  <1>2. CASE \E i \in Inst : ProcessAct(i)
    BY <1>0, <1>2, ProcessKeepsSettle
  <1>3. CASE \E t \in Tasks \cup {None} : LocalStep(t) /\ (SettleInv /\ t \in Tasks => SettleLocal(t))
    BY <1>3, FrameSettle DEF LocalStep
  <1> QED
    BY <1>0, <1>1, <1>2, <1>3, StepCases

LEMMA Initially ==
  ASSUME Init
  PROVE  IInv /\ SettleInv
  <1>1. TypeOK
    <2>1. Queued = {}
      BY DEF Init, Queued
    <2>2. Cardinality(Queued) = 0 /\ site.limit \in Nat
      BY <2>1, FS_EmptySet, ConstantsOK DEF Init
    <2>3. /\ task \in [Tasks -> TaskType] /\ cancel \in [Tasks -> BOOLEAN]
          /\ result \in [Tasks -> [Cases -> CaseType]]
          /\ nudge \in [Inst -> BOOLEAN] /\ phase \in [Inst -> PhaseType]
          /\ boot \in [Inst -> Nat]
      BY DEF Init, TaskType, CaseType, PhaseType
    <2>4. /\ lease \in [Tasks -> LeaseType] /\ ex \in [Tasks -> ExType]
          /\ recov \in [Inst -> RecovType]
      BY Fresh DEF Init
    <2>5. faults \in 0 .. MaxFaults
      BY ConstantsOK DEF Init
    <2>6. site \in Sites /\ lost \in BOOLEAN /\ scar \in [Tasks -> ScarType]
      BY DEF Init, ScarType
    <2>7. Cardinality(Queued) <= site.limit
      BY <2>2
    <2> QED
      BY <2>3, <2>4, <2>5, <2>6, <2>7, Types
  <1>2. \A t \in Tasks : task[t] = "none" /\ lease[t].phase = "none" /\ ex[t].pc = "none" /\ ex[t].at = None
    BY Fresh DEF Init
  <1>3. \A i \in Inst : ~nudge[i] /\ recov[i] = NoRecovery
    BY DEF Init
  <1>4. CaseInv
    BY <1>2 DEF CaseInv, InCase, InProcess
  <1>5. ProcessInv
    <2>1. site.sqlite => \A i, j \in Inst : Up(i) /\ Up(j) => i = j
      BY DEF Init, Up
    <2> QED
      BY <1>2, <1>3, <2>1, Fresh DEF ProcessInv
  <1>6. TaskInv
    <2>1. Mistaken = {}
      BY DEF Init, Mistaken
    <2> QED
      BY <1>2, <1>3, <2>1, Fresh DEF TaskInv, Executing, Attempting, Running, At
  <1>7. SettleInv
    BY <1>2 DEF SettleInv, SettleOf, LeftOpen, Terminal, At
  <1> QED
    BY <1>1, <1>4, <1>5, <1>6, <1>7 DEF IInv, BaseInv

\* A step leaves a terminal status, removes the task, or is an executor's whose
\* settlement threw.
LEMMA TerminalStep ==
  ASSUME IInv, [Next]_vars
  PROVE  [\A t \in Tasks \ Mistaken : task[t] \in Terminal
            => \/ task'[t] \in {task[t], "deleted"}
               \/ At(t, "overruling") /\ task'[t] = "failed"]_vars
  <1>0. BaseInv /\ ProcessInv /\ TaskInv
    BY DEF IInv
  <1>1. CASE UNCHANGED vars
    BY <1>1
  <1>2. CASE \E i \in Inst : ProcessAct(i)
    BY <1>0, <1>2, ProcessKeepsTask
  <1>3. CASE \E t \in Tasks \cup {None} : LocalStep(t)
    <2>1. PICK t \in Tasks \cup {None} : LocalStep(t)
      BY <1>3
    <2> QED
      BY <2>1 DEF LocalStep, Frame, TaskLocal
  <1> QED
    BY <1>0, <1>1, <1>2, <1>3, StepCases

-----------------------------------------------------------------------------
(* The slot.                                                               *)

\* The pool's own copy of Cardinality is the one of FiniteSets.
LEMMA SlotCardinality == \A S : Slot!Cardinality(S) = Cardinality(S)
  BY DEF Cardinality, Slot!Cardinality

Held == Replaying \ Mistaken

\* A task that replays is the one that runs.
LEMMA HeldIsRunning ==
  TaskInv => \A t, u \in Held : t \in Running /\ t = u
  BY DEF TaskInv, Held, Replaying, Running, Executing, Attempting

LEMMA HeldIsRunningNext ==
  TaskInv' => \A t, u \in Held' : t \in Running' /\ t = u
  BY DEF TaskInv, Held, Replaying, Running, Executing, Attempting

\* A step takes the slot for a task only when no task replays, or gives it back.
LEMMA SlotStep ==
  ASSUME IInv, [Next]_vars
  PROVE  [Slot!Next]_Held
  <1>0. BaseInv /\ ProcessInv /\ TaskInv /\ TaskInv'
    BY TaskStep DEF IInv
  <1>1. \A t, u \in Held : t = u
    BY <1>0, HeldIsRunning
  <1>2. \A t, u \in Held' : t = u
    BY <1>0, HeldIsRunningNext
  <1>3. Held \subseteq Tasks /\ Held' \subseteq Tasks
    BY DEF Held, Replaying
  <1>4. Held' \subseteq Held \/ Held = {}
    <2>1. CASE UNCHANGED vars
      BY <2>1 DEF vars, Held, Replaying, Mistaken
    <2>2. CASE \E i \in Inst : ProcessAct(i)
      <3>1. /\ \A u \in Tasks : ex'[u] = ex[u] \/ ex'[u].pc \in {"none", "dead"}
            /\ \A u \in Tasks : scar[u] \subseteq scar'[u]
        BY <1>0, <2>2, ProcessKeepsBase DEF ProcessFrame
      <3> QED
        BY <3>1 DEF Held, Replaying, Mistaken
    <2>3. CASE \E t \in Tasks \cup {None} : LocalStep(t)
      <3>1. PICK t \in Tasks \cup {None} : LocalStep(t)
        BY <2>3
      <3>2. \A u \in Tasks \ {t} : u \in Held' <=> u \in Held
        BY <3>1 DEF LocalStep, Frame, Held, Replaying
      <3> QED
        BY <1>2, <1>3, <3>2
    <2> QED
      BY <1>0, <2>1, <2>2, <2>3, StepCases
  <1>5. CASE Held' = Held
    BY <1>5
  <1>6. CASE Held' # Held /\ Held = {}
    <2>1. PICK t \in Tasks : Held' = {t}
      BY <1>2, <1>3, <1>6
    <2>2. Slot!Cardinality(Replaying \ Mistaken) < 1
      BY <1>6, SlotCardinality, FS_EmptySet DEF Held
    <2>3. Held' = Held \cup {t} /\ t \in Tasks \ Held
      BY <1>6, <2>1
    <2> QED
      BY <2>2, <2>3 DEF Slot!Next, Slot!Take, Held
  <1>7. CASE Held' # Held /\ Held # {}
    <2>1. PICK t \in Tasks : Held = {t}
      BY <1>1, <1>3, <1>7
    <2>2. Held' = Held \ {t} /\ t \in Held
      BY <1>4, <1>7, <2>1
    <2> QED
      BY <2>2 DEF Slot!Next, Slot!Return, Held
  <1> QED
    BY <1>5, <1>6, <1>7

-----------------------------------------------------------------------------
\* The shape of the state is kept by every handler, executor step, stop and recovery,
\* and POST evaluation-tasks never lets the queue grow past
\* EVALUATION_MAX_QUEUE_LENGTH.
THEOREM EvaluationTypeCorrect == Spec => []TypeOK
  <1>1. Init => BaseInv
    BY Initially DEF IInv
  <1>2. BaseInv /\ [Next]_vars => BaseInv'
    BY BaseStep
  <1>3. BaseInv => TypeOK
    BY DEF BaseInv
  <1> QED
    BY <1>1, <1>2, <1>3, PTL DEF Spec

\* The invariant of processes, executors and leases.
LEMMA Inductive == Spec => []IInv
  <1>1. Init => IInv
    BY Initially
  <1>2. IInv /\ [Next]_vars => IInv'
    BY TaskStep
  <1> QED
    BY <1>1, <1>2, PTL DEF Spec

\* Neither the status writes of a late executor, which look at nothing, nor the reaper,
\* startup recovery or a request overwrites a terminal status. The exceptions are an
\* executor's own failure after its terminal write, and a task that a recovery which
\* came after the first request failed under its executor.
THEOREM TerminalStatusIsFinal == Spec => TerminalIsFinal
  <1>1. IInv /\ [Next]_vars =>
         [\A t \in Tasks \ Mistaken : task[t] \in Terminal
            => \/ task'[t] \in {task[t], "deleted"}
               \/ At(t, "overruling") /\ task'[t] = "failed"]_vars
    BY TerminalStep
  <1> QED
    BY <1>1, Inductive, PTL DEF Spec, TerminalIsFinal

\* The queue implements a pool with one slot: over all replicas, crashes, restarts and
\* recoveries a task begins to replay its cases only while no other task does, of those
\* that no recovery has mistaken for one of the process before.
THEOREM OneTaskReplays == Spec => OneTaskPerAgent
  <1>1. Init => Slot!Init
    BY Fresh DEF Init, Slot!Init, Replaying
  <1>2. IInv /\ [Next]_vars => [Slot!Next]_(Replaying \ Mistaken)
    BY SlotStep DEF Held
  <1> QED
    BY <1>1, <1>2, Inductive, PTL DEF Spec, OneTaskPerAgent, Slot!Spec

\* The result rows of a task whose status is terminal are settled, or the executor,
\* request or recovery that settles them is at it or has died. The exceptions are a
\* settlement that threw, a loop that a fenced process broke off and a task that a
\* recovery failed under its executor.
THEOREM CasesAreSettled == Spec => []CasesSettle
  <1>1. Init => SettleInv
    BY Initially
  <1>2. IInv /\ SettleInv /\ [Next]_vars => SettleInv'
    BY SettleStep
  <1>3. SettleInv => CasesSettle
    BY DEF SettleInv, SettleOf, CasesSettle
  <1> QED
    BY <1>1, <1>2, <1>3, Inductive, PTL DEF Spec

=============================================================================
