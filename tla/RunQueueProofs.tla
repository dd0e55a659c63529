--------------------------- MODULE RunQueueProofs ---------------------------
(***************************************************************************)
(* Theorems about the run queue, for every number of replicas, clients,    *)
(* runs and turns.                                                         *)
(***************************************************************************)
EXTENDS RunQueue, FiniteSetTheorems, TLAPS

\* What a refused or failed turn puts back: the settled status it found, or nothing.
Restorable == Terminal \cup {"deleted"}

\* A request names a replica and a run, and a request or a turn in preparation
\* restores a status that holds no slot.
ReqGrounded(q) == q.kind # "none" => q.at \in Inst /\ q.run \in Runs /\ q.prior \in Restorable
Grounded ==
    /\ \A c \in Clients : ReqGrounded(req[c])
    /\ \A r \in Runs, t \in Turns : ex[r][t].pc = "admitted" => ex[r][t].back \in Restorable

TypeInv == TypeOK /\ Grounded

\* The write of a whole row keeps the type of the table.
LEMMA RowType ==
    ASSUME NEW st \in Statuses, NEW o \in Inst \cup {None}, NEW c \in BOOLEAN
    PROVE  Row(st, o, c) \in [st : Statuses, owner : Inst \cup {None}, old : BOOLEAN, chat : BOOLEAN]
BY DEF Row

\* A terminal or requeueing UPDATE (Settle) writes a well-typed row.
LEMMA SettleType ==
    ASSUME TypeOK, NEW r, NEW st \in Statuses, Settle(r, st)
    PROVE  run' \in [Runs -> [st : Statuses, owner : Inst \cup {None}, old : BOOLEAN, chat : BOOLEAN]]
<1>0. SUFFICES ASSUME r \in Runs PROVE run' \in [Runs -> [st : Statuses, owner : Inst \cup {None},
                                                       old : BOOLEAN, chat : BOOLEAN]]
  BY DEF Settle, TypeOK
<1>1. run[r].owner \in Inst \cup {None} /\ run[r].chat \in BOOLEAN
  BY <1>0 DEF TypeOK
<1>2. (st = "completed" \/ (st # "failed" /\ run[r].chat)) \in BOOLEAN
  BY <1>1
<1>3. Row(st, run[r].owner, st = "completed" \/ (st # "failed" /\ run[r].chat))
        \in [st : Statuses, owner : Inst \cup {None}, old : BOOLEAN, chat : BOOLEAN]
  BY <1>1, <1>2, RowType
<1> QED BY <1>3 DEF Settle, TypeOK

\* An empty database and idle replicas are well typed.
THEOREM TypeInit == Init => TypeInv
<1> SUFFICES ASSUME Init PROVE TypeInv OBVIOUS
<1> QED
  BY ConstantsOK DEF Init, TypeInv, TypeOK, Grounded, Row, NoLease, NoReq, NoReap, Idle, NoRecovery, Statuses,
     ReqGrounded, Terminal, Pcs, Runs, Turns

\* The types alone, named for use in steps.
RunType   == [st : Statuses, owner : Inst \cup {None}, old : BOOLEAN, chat : BOOLEAN]
LeaseType == [phase : {"none", "reserved", "active"}, owner : Inst \cup {None}, old : BOOLEAN]

\* What admission and activation write to scm_workload_leases is a lease row.
LEMMA LeaseWrites ==
    ASSUME NEW i \in Inst, NEW l \in LeaseType
    PROVE  /\ NoLease \in LeaseType
           /\ reserved(l) \in LeaseType
           /\ activated(i, l) \in LeaseType
BY DEF LeaseType, NoLease, reserved, activated

\* completeExecutionLease only ever shrinks the registry and marks a release.
LEMMA CompleteType ==
    ASSUME TypeOK, NEW i \in Inst, NEW r \in Runs, completeExecutionLease(i, r)
    PROVE  mem' \in [Inst -> SUBSET Runs] /\ settling' \in [Inst -> SUBSET Runs]
BY DEF TypeOK, completeExecutionLease

\* reserveExecutionLease of a new turn keeps the executors and the leases typed.
LEMMA StartTurnType ==
    ASSUME TypeInv, NEW i \in Inst, NEW r \in Runs, CanHost(r),
           NEW pc \in {"admitted", "ready", "executing"}, NEW back \in Statuses \cup {"none"},
           pc = "admitted" => back \in Restorable,
           StartTurn(i, r, pc, back)
    PROVE  /\ mem' \in [Inst -> SUBSET Runs]
           /\ ex' \in [Runs -> [Turns -> [pc : Pcs, at : Inst \cup {None}, back : Statuses \cup {"none"}]]]
           /\ turns' \in [Runs -> 0 .. MaxTurns]
           /\ turns[r] + 1 \in Turns
           /\ \A q \in Runs, t \in Turns : ex'[q][t].pc = "admitted" => ex'[q][t].back \in Restorable
<1>1. turns[r] \in 0 .. MaxTurns /\ turns[r] < MaxTurns /\ turns[r] + 1 \in Turns
  BY ConstantsOK DEF TypeInv, TypeOK, CanHost, Turns
<1>2. mem' \in [Inst -> SUBSET Runs] /\ turns' \in [Runs -> 0 .. MaxTurns]
  BY <1>1, ConstantsOK DEF TypeInv, TypeOK, StartTurn
<1>3. [pc |-> pc, at |-> i, back |-> back]
        \in [pc : Pcs, at : Inst \cup {None}, back : Statuses \cup {"none"}]
  BY DEF Pcs
<1> QED BY <1>1, <1>2, <1>3 DEF TypeInv, TypeOK, Grounded, StartTurn

ReqType == [kind : {"none", "new", "retry", "turn"}, at : Inst \cup {None}, run : 0 .. NumRuns,
            prior : Statuses]
ExType  == [pc : Pcs, at : Inst \cup {None}, back : Statuses \cup {"none"}]

RecovType == [phase : {"off", "scan", "runs", "pending", "queued"}, todo : SUBSET Runs,
              before : SUBSET Runs]

\* Queue admission keeps the types.
LEMMA AdmitType == ASSUME TypeInv, NEW c \in Clients, Admit(c) PROVE TypeInv'
<1> DEFINE i == req[c].at  r == req[c].run
           l == IF Scm THEN reserved(lease[r]) ELSE lease[r]
<1>1. /\ i \in Inst /\ r \in Runs /\ lease[r] \in LeaseType
      /\ req[c].prior \in Restorable /\ req[c].prior \in Statuses
  BY DEF Admit, TypeInv, TypeOK, Grounded, ReqGrounded, LeaseType
<1>2. l \in LeaseType /\ activated(i, l) \in LeaseType
  BY <1>1, LeaseWrites
<1>3. req' \in [Clients -> ReqType]
      /\ \A d \in Clients : ReqGrounded(req'[d])
  BY ConstantsOK DEF Admit, TypeInv, TypeOK, Grounded, ReqGrounded, NoReq, Statuses, ReqType
<1>4. run' \in [Runs -> RunType]
  <2>1. CASE run' = [run EXCEPT ![r] = Claimed(i, @.chat)]
    BY <1>1, <2>1 DEF TypeInv, TypeOK, RunType, Claimed, Row, Statuses
  <2>2. CASE run' = [run EXCEPT ![r] = Row("queued", None, @.chat)]
    BY <1>1, <2>2 DEF TypeInv, TypeOK, RunType, Row, Statuses
  <2>3. CASE Settle(r, req[c].prior)
    BY <1>1, <2>3, SettleType DEF TypeInv, RunType
  <2>4. CASE Settle(r, "failed")
    BY <1>1, <2>4, SettleType DEF TypeInv, RunType, Statuses, Terminal
  <2>5. CASE UNCHANGED run
    BY <2>5 DEF TypeInv, TypeOK, RunType
  <2> QED BY <2>1, <2>2, <2>3, <2>4, <2>5 DEF Admit
<1>5. lease' \in [Runs -> LeaseType]
  <2>1. lease' = [lease EXCEPT ![r] = activated(i, l)] \/ lease' = [lease EXCEPT ![r] = l] \/ lease' = lease
    BY DEF Admit
  <2>2. lease \in [Runs -> LeaseType]
    BY DEF TypeInv, TypeOK, LeaseType
  <2>3. ASSUME NEW x \in LeaseType, lease' = [lease EXCEPT ![r] = x] PROVE lease' \in [Runs -> LeaseType]
    BY <2>2, <2>3
  <2> QED BY <1>2, <2>1, <2>2, <2>3
<1>6. /\ mem' \in [Inst -> SUBSET Runs]
      /\ ex' \in [Runs -> [Turns -> ExType]]
      /\ turns' \in [Runs -> 0 .. MaxTurns]
      /\ \A q \in Runs, t \in Turns : ex'[q][t].pc = "admitted" => ex'[q][t].back \in Restorable
  <2>1. CASE CanHost(r) /\ StartTurn(i, r, "ready", "none")
    BY <1>1, <2>1, StartTurnType DEF ExType
  <2>2. CASE CanHost(r) /\ StartTurn(i, r, "admitted", req[c].prior)
    BY <1>1, <2>2, StartTurnType DEF ExType
  <2>3. CASE UNCHANGED <<ex, turns, mem>>
    BY <2>3 DEF TypeInv, TypeOK, Grounded, ExType
  <2> QED BY <2>1, <2>2, <2>3 DEF Admit
<1> QED
  BY <1>3, <1>4, <1>5, <1>6 DEF Admit, fleet, TypeInv, TypeOK, Grounded, RunType, LeaseType, ReqType, ExType

\* The terminal outcomes are statuses.
LEMMA TerminalIsStatus == Terminal \subseteq Statuses
BY DEF Statuses

ExOK   == /\ ex \in [Runs -> [Turns -> ExType]]
          /\ \A r \in Runs, t \in Turns : ex[r][t].pc = "admitted" => ex[r][t].back \in Restorable
StepOK == step \in [Runs -> [Turns -> {"none", "running", "closed"}]]
MemOK  == mem \in [Inst -> SUBSET Runs] /\ settling \in [Inst -> SUBSET Runs]

\* Where an executor goes next, and the step rows it writes.
LEMMA ExStepType ==
    ASSUME TypeInv, NEW r \in Runs, NEW t \in Turns
    PROVE  /\ ExOK /\ StepOK /\ MemOK
           /\ \A pc \in Pcs \ {"admitted"} : Move(r, t, pc) => ExOK'
           /\ Stop(r, t) => ExOK'
           /\ \A s \in {"none", "running", "closed"} : SetStep(r, t, s) => StepOK'
           /\ CloseSteps(r) => StepOK'
<1>1. ExOK /\ StepOK /\ MemOK
  BY DEF TypeInv, TypeOK, Grounded, ExOK, StepOK, MemOK, ExType
<1>2. ASSUME NEW pc \in Pcs \ {"admitted"}, Move(r, t, pc) PROVE ExOK'
  <2>0. ex[r][t] \in ExType
    BY <1>1 DEF ExOK
  <2>1. [ex[r][t] EXCEPT !.pc = pc] \in ExType /\ [ex[r][t] EXCEPT !.pc = pc].pc = pc
    BY <2>0 DEF ExType
  <2>2. ex' = [ex EXCEPT ![r] = [ex[r] EXCEPT ![t] = [ex[r][t] EXCEPT !.pc = pc]]]
    BY <1>1, <1>2 DEF Move, ExOK
  <2> QED BY <1>1, <2>1, <2>2 DEF ExOK
<1>3. ASSUME Stop(r, t) PROVE ExOK'
  <2>1. Idle \in ExType /\ Idle.pc # "admitted"
    BY DEF Idle, ExType, Pcs
  <2>2. ex' = [ex EXCEPT ![r] = [ex[r] EXCEPT ![t] = Idle]]
    BY <1>3 DEF Stop
  <2> QED BY <1>1, <2>1, <2>2 DEF ExOK
<1>4. ASSUME NEW s \in {"none", "running", "closed"}, SetStep(r, t, s) PROVE StepOK'
  BY <1>1, <1>4 DEF SetStep, StepOK
<1>5. ASSUME CloseSteps(r) PROVE StepOK'
  BY <1>1, <1>5 DEF CloseSteps, StepOK
<1> QED BY <1>1, <1>2, <1>3, <1>4, <1>5

\* The steps of a whole run, closed or deleted.
LEMMA StepWrites ==
    ASSUME TypeInv, NEW r
    PROVE  /\ CloseSteps(r) => StepOK'
           /\ Cancel(r) => StepOK'
           /\ Delete(r) => StepOK'
<1> DEFINE Legal == [Turns -> {"none", "running", "closed"}]
<1>1. step \in [Runs -> Legal]
  BY DEF TypeInv, TypeOK
<1>2. ASSUME NEW new, r \in Runs => new \in Legal, step' = [step EXCEPT ![r] = new] PROVE StepOK'
  BY <1>1, <1>2 DEF StepOK
<1>3. r \in Runs => [t \in Turns |-> IF step[r][t] = "running" THEN "closed" ELSE step[r][t]] \in Legal
  BY <1>1
<1>4. r \in Runs => [t \in Turns |-> IF LatestStep(r, t) THEN "closed" ELSE step[r][t]] \in Legal
  BY <1>1
<1>5. [t \in Turns |-> "none"] \in Legal
  OBVIOUS
<1>6. UNCHANGED step => StepOK'
  BY <1>1 DEF StepOK
<1> QED BY <1>2, <1>3, <1>4, <1>5, <1>6 DEF CloseSteps, Cancel, Delete

\* What the steps of this module have to show, variable by variable.
LEMMA TypeInvParts ==
    ASSUME run' \in [Runs -> RunType], lease' \in [Runs -> LeaseType], StepOK', ExOK', MemOK',
           TypeInv, UNCHANGED <<req, turns, reap, up, beating, boots, recov>>
    PROVE  TypeInv'
BY DEF TypeInv, TypeOK, Grounded, RunType, LeaseType, ExType, ExOK, StepOK, MemOK

\* An executor's own steps keep the types.
LEMMA ExecutorType ==
    ASSUME TypeInv, NEW i \in Inst, NEW r \in Runs, NEW t \in Turns, Executor(i, r, t)
    PROVE  TypeInv'
<1> DEFINE RunOK == run \in [Runs -> RunType]
           LeaseOK == lease \in [Runs -> LeaseType]
<1>0. RunOK /\ LeaseOK /\ MemOK /\ ExOK /\ StepOK
  BY ExStepType DEF TypeInv, TypeOK, RunType, LeaseType
<1>a. ASSUME NEW o \in Statuses, Settle(r, o) PROVE RunOK'
  BY <1>a, SettleType DEF TypeInv, RunType
<1>b. completeExecutionLease(i, r) => MemOK'
  BY CompleteType DEF TypeInv, MemOK
<1>c. UNCHANGED step => StepOK'
  BY <1>0 DEF StepOK
<1>d. UNCHANGED <<mem, settling>> => MemOK'
  BY <1>0 DEF MemOK
<1>e. {"none", "ready", "executing", "cli", "cleanup"} \subseteq Pcs \ {"admitted"}
  BY DEF Pcs
<1>1. CASE Prepare(i, r, t)
  <2>1. RunOK'
    BY <1>0, <1>1 DEF Prepare, RunType
  <2>2. ExOK' /\ StepOK' /\ MemOK'
    BY <1>1, <1>b, <1>c, <1>d, <1>e, ExStepType DEF Prepare, SkipExecution
  <2> QED BY <1>0, <1>1, <2>1, <2>2, TypeInvParts DEF Prepare, fleet
<1>2. ASSUME NEW o \in Terminal, PrepareFail(i, r, t, o) PROVE TypeInv'
  <2>1. RunOK'
    <3>1. Row(o, run[r].owner, FALSE) \in RunType
      BY <1>0, TerminalIsStatus, RowType DEF RunType
    <3> QED BY <1>0, <1>2, <3>1 DEF PrepareFail
  <2>2. ExOK' /\ StepOK' /\ MemOK'
    BY <1>2, <1>b, <1>c, <1>d, ExStepType DEF PrepareFail
  <2> QED BY <1>0, <1>2, <2>1, <2>2, TypeInvParts DEF PrepareFail, fleet
<1>3. CASE Persist(i, r, t)
  <2>1. ExOK' /\ StepOK' /\ MemOK'
    BY <1>3, <1>d, <1>e, ExStepType DEF Persist
  <2> QED BY <1>0, <1>3, <2>1, TypeInvParts DEF Persist, fleet
<1>4. CASE StartupFail(i, r, t)
  <2>1. RunOK'
    BY <1>0, <1>4, <1>a DEF StartupFail, At, ExOK, Restorable, Statuses
  <2>2. ExOK' /\ StepOK' /\ MemOK'
    BY <1>4, <1>b, ExStepType DEF StartupFail
  <2> QED BY <1>0, <1>4, <2>1, <2>2, TypeInvParts DEF StartupFail, fleet
<1>5. ASSUME NEW o \in Terminal, Finish(i, r, t, o) PROVE TypeInv'
  <2>1. RunOK'
    <3>1. Settle(r, o) \/ Settle(r, "failed") \/ UNCHANGED run
      BY <1>5 DEF Finish
    <3> QED BY <1>0, <3>1, <1>a, TerminalIsStatus DEF Terminal
  <2>2. ExOK' /\ StepOK' /\ MemOK'
    BY <1>5, <1>b, <1>c, <1>d, <1>e, ExStepType DEF Finish, cancelLateStep
  <2> QED BY <1>0, <1>5, <2>1, <2>2, TypeInvParts DEF Finish, fleet
<1>6. CASE FinishDbFault(i, r, t)
  <2>1. ExOK' /\ StepOK' /\ MemOK'
    BY <1>6, <1>c, <1>d, <1>e, ExStepType DEF FinishDbFault, rows
  <2> QED BY <1>0, <1>6, <2>1, TypeInvParts DEF FinishDbFault, rows, fleet
<1>7. CASE Complete(i, r, t)
  <2>1. ExOK' /\ StepOK' /\ MemOK'
    BY <1>7, <1>b, <1>c, ExStepType DEF Complete, rows
  <2> QED BY <1>0, <1>7, <2>1, TypeInvParts DEF Complete, rows, fleet
<1>8. CASE ActivateExecuted(i, r, t)
  <2>1. LeaseOK'
    BY <1>0, <1>8, LeaseWrites DEF ActivateExecuted
  <2>2. ExOK' /\ StepOK' /\ MemOK'
    BY <1>8, <1>c, <1>d, <1>e, ExStepType DEF ActivateExecuted
  <2> QED BY <1>0, <1>8, <2>1, <2>2, TypeInvParts DEF ActivateExecuted, fleet
<1>9. CASE ActivateFail(i, r, t)
  <2>1. RunOK'
    BY <1>0, <1>9, <1>a, TerminalIsStatus DEF ActivateFail, Terminal
  <2>2. ExOK' /\ StepOK' /\ MemOK'
    BY <1>9, <1>b, <1>c, <1>d, ExStepType DEF ActivateFail, cancelLateStep
  <2> QED BY <1>0, <1>9, <2>1, <2>2, TypeInvParts DEF ActivateFail, fleet
<1> QED BY <1>1, <1>2, <1>3, <1>4, <1>5, <1>6, <1>7, <1>8, <1>9 DEF Executor

\* No step leaves the types or loses track of what a request or a turn refers to.
THEOREM TypeNext == TypeInv /\ [Next]_vars => TypeInv'
<1> SUFFICES ASSUME TypeInv, [Next]_vars PROVE TypeInv'
  OBVIOUS
<1> DEFINE RunOK == run \in [Runs -> RunType]
           LeaseOK == lease \in [Runs -> LeaseType]
           ReqOK == /\ req \in [Clients -> ReqType]
                    /\ \A c \in Clients : ReqGrounded(req[c])
<1>0. RunOK /\ LeaseOK /\ MemOK /\ ExOK /\ StepOK /\ ReqOK
  BY DEF TypeInv, TypeOK, Grounded, RunType, LeaseType, MemOK, ExOK, ExType, StepOK, ReqType
<1>p. Row("pending", None, FALSE) \in RunType /\ Row("queued", None, FALSE) \in RunType
  BY RowType DEF Statuses, RunType
<1>n. NoLease \in LeaseType
  BY DEF NoLease, LeaseType
<1>s. UNCHANGED <<ex, step, mem, settling>> => ExOK' /\ StepOK' /\ MemOK'
  BY <1>0 DEF ExOK, StepOK, MemOK
<1>q. ASSUME NEW c \in Clients, NEW i \in Inst, NEW r \in Runs, NEW kind \in {"new", "retry", "turn"},
             NEW prior \in Restorable, Request(c, i, r, kind, prior)
      PROVE  ReqOK'
  <2>1. [kind |-> kind, at |-> i, run |-> r, prior |-> prior] \in ReqType
    BY ConstantsOK DEF ReqType, Runs, Restorable, Statuses
  <2> QED BY <1>0, <1>q, <2>1 DEF Request, ReqGrounded
<1>1. ASSUME NEW c \in Clients, Client(c) PROVE TypeInv'
  <2>1. ASSUME NEW i \in Inst, NEW r \in Runs, Submit(c, i, r) \/ Retry(c, i, r) \/ FollowUp(c, i, r)
        PROVE  TypeInv'
    <3>1. RunOK'
      BY <1>0, <1>p, <2>1, ZenonT(60) DEF Submit, Retry, FollowUp, RunType
    <3>2. run[r].st \in Statuses
      BY <1>0 DEF RunType
    <3>3. ReqOK'
      BY <1>q, <2>1, <3>2 DEF Submit, Retry, FollowUp, Restorable, Terminal
    <3> QED BY <2>1, <3>1, <3>3
            DEF Submit, Retry, FollowUp, fleet, TypeInv, TypeOK, Grounded, RunType, ReqType
  <2> QED BY <1>1, <2>1, AdmitType DEF Client
<1>2. ASSUME NEW i \in Inst, NEW r \in Runs, Promote(i, r) PROVE TypeInv'
  <2>1. RunOK' /\ LeaseOK'
    BY <1>0, <1>2, LeaseWrites, RowType DEF Promote, Claimed, RunType, Statuses
  <2>2. /\ mem' \in [Inst -> SUBSET Runs] /\ turns' \in [Runs -> 0 .. MaxTurns] /\ ExOK'
    BY <1>2, StartTurnType DEF Promote, ExOK, ExType
  <2> QED BY <1>2, <2>1, <2>2
          DEF Promote, fleet, TypeInv, TypeOK, Grounded, RunType, LeaseType, ExOK, ExType
<1>3. ASSUME NEW i \in Inst, NEW r \in Runs, Release(i, r) PROVE TypeInv'
  <2>1. LeaseOK' /\ MemOK'
    BY <1>0, <1>3, LeaseWrites DEF Release, MemOK
  <2> QED BY <1>0, <1>3, <1>s, <2>1, TypeInvParts DEF Release, fleet, ExOK, StepOK
<1>4. ASSUME NEW i \in Inst, NEW r \in Runs, Execute(i, r) PROVE TypeInv'
  <2>1. RunOK' /\ LeaseOK'
    BY <1>0, <1>4, LeaseWrites, RowType DEF Execute, RunType, Statuses
  <2>2. /\ mem' \in [Inst -> SUBSET Runs] /\ turns' \in [Runs -> 0 .. MaxTurns] /\ ExOK'
        /\ turns[r] + 1 \in Turns
    BY <1>4, StartTurnType DEF Execute, ExOK, ExType
  <2>3. StepOK'
    BY <1>4, <2>2, ExStepType DEF Execute
  <2> QED BY <1>4, <2>1, <2>2, <2>3
          DEF Execute, fleet, TypeInv, TypeOK, Grounded, RunType, LeaseType, ExOK, ExType, StepOK
<1>5. ASSUME NEW r \in Runs, Create(r) \/ Cancel(r) \/ Delete(r) PROVE TypeInv'
  <2>1. RunOK'
    BY <1>0, <1>5, <1>p, SettleType DEF Create, Cancel, Delete, RunType, TypeInv, Statuses, Terminal
  <2>2. LeaseOK'
    BY <1>0, <1>5, <1>n DEF Create, Cancel, Delete
  <2>3. StepOK'
    BY <1>0, <1>5, StepWrites DEF Create, StepOK
  <2> QED BY <1>0, <1>5, <2>1, <2>2, <2>3, TypeInvParts DEF Create, Cancel, Delete, fleet, ExOK, MemOK
<1>6. ASSUME NEW r \in Runs, RecoverRun(r) \/ RecoverStale(r) PROVE TypeInv'
  <2>1. RunOK'
    BY <1>0, <1>6, <1>p, SettleType DEF RecoverRun, RecoverStale, RunType, TypeInv, Statuses, Terminal
  <2>2. LeaseOK'
    BY <1>0, <1>6, <1>n DEF RecoverRun, RecoverStale
  <2>3. StepOK'
    BY <1>0, <1>6, StepWrites DEF RecoverRun, RecoverStale, StepOK
  <2>4. recov' \in RecovType
    <3>1. recov \in RecovType
      BY DEF TypeInv, TypeOK, RecovType
    <3>2. recov' = [recov EXCEPT !.todo = recov.todo \ {r}]
      BY <1>6 DEF RecoverRun, RecoverStale
    <3> QED BY <3>1, <3>2 DEF RecovType
  <2> QED BY <1>6, <2>1, <2>2, <2>3, <2>4
          DEF RecoverRun, RecoverStale, TypeInv, TypeOK, Grounded, RunType, LeaseType, StepOK, RecovType
<1>7. ASSUME NEW j \in Inst, Sweeper(j) PROVE TypeInv'
  <2>1. CASE ReapResolve(j)
    <3>1. RunOK'
      <4>1. Settle(reap[j].run, "failed") => RunOK'
        BY SettleType DEF RunType, TypeInv, Statuses, Terminal
      <4>2. run' = [run EXCEPT ![reap[j].run] = Row("queued", None, FALSE)] => RunOK'
        BY <1>0, <1>p
      <4> QED BY <1>0, <2>1, <4>1, <4>2 DEF ReapResolve
    <3>2. StepOK'
      BY <1>0, <2>1, StepWrites DEF ReapResolve, StepOK
    <3> QED BY <2>1, <3>1, <3>2, ConstantsOK
            DEF ReapResolve, TypeInv, TypeOK, Grounded, RunType, StepOK, NoReap
  <2>2. ASSUME NEW r \in Runs, SweepMem(j, r) PROVE TypeInv'
    BY <1>0, <2>2, CompleteType, TypeInvParts DEF SweepMem, rows, fleet, MemOK, ExOK, StepOK, TypeInv
  <2>3. ASSUME NEW r \in Runs, SweepLease(j, r) PROVE TypeInv'
    BY <1>0, <2>3, LeaseWrites, TypeInvParts DEF SweepLease, fleet, MemOK, ExOK, StepOK
  <2>4. ASSUME NEW r \in Runs, ReapPick(j, r) PROVE TypeInv'
    <3>1. reap' \in [Inst -> [kind : {"none", "scm", "orphan"}, run : 0 .. NumRuns,
                              owner : Inst \cup {None}]]
      <4>1. r \in 0 .. NumRuns /\ lease[r].owner \in Inst \cup {None} /\ run[r].owner \in Inst \cup {None}
        BY <1>0, ConstantsOK DEF Runs, LeaseType, RunType
      <4>2. reap \in [Inst -> [kind : {"none", "scm", "orphan"}, run : 0 .. NumRuns,
                               owner : Inst \cup {None}]]
        BY DEF TypeInv, TypeOK
      <4> QED BY <2>4, <4>1, <4>2 DEF ReapPick
    <3> QED BY <2>4, <3>1 DEF ReapPick, others, TypeInv, TypeOK, Grounded
  <2> QED BY <1>7, <2>1, <2>2, <2>3, <2>4 DEF Sweeper
<1>8. ASSUME NEW i \in Inst, Crash(i) PROVE TypeInv'
  <2>1. ExOK'
    BY <1>0, <1>8 DEF Crash, ExOK, ExType, Idle, Pcs
  <2>2. ReqOK'
    BY <1>0, <1>8, ConstantsOK DEF Crash, ReqType, ReqGrounded, NoReq, Statuses
  <2> QED BY <1>8, <2>1, <2>2, ConstantsOK
          DEF Crash, rows, TypeInv, TypeOK, Grounded, ExOK, ExType, ReqType, NoReap, NoRecovery
<1>9. ASSUME NEW i \in Inst, Boot(i) PROVE TypeInv'
  <2>1. RunOK' /\ LeaseOK'
    BY <1>0, <1>9, ZenonT(60) DEF Boot, RunType, LeaseType
  <2>2. boots' \in [Inst -> 0 .. MaxBoots]
    BY <1>9, ConstantsOK DEF Boot, TypeInv, TypeOK
  <2>3. recov' \in RecovType
    BY <1>9 DEF Boot, TypeInv, TypeOK, RecovType, NoRecovery
  <2> QED BY <1>9, <2>1, <2>2, <2>3 DEF Boot, TypeInv, TypeOK, Grounded, RunType, LeaseType, RecovType
<1>10. ASSUME NEW i \in Inst, Expire(i) PROVE TypeInv'
  BY <1>10 DEF Expire, others, TypeInv, TypeOK, Grounded
<1>11. CASE RecoverScan \/ RecoverScanStale
  <2>1. recov' \in RecovType
    <3>1. recov \in RecovType
      BY DEF TypeInv, TypeOK, RecovType
    <3>2. ASSUME NEW p \in {"runs", "pending", "queued"}, NEW S \in SUBSET Runs,
                 recov' = [recov EXCEPT !.phase = p, !.todo = S]
          PROVE  recov' \in RecovType
      BY <3>1, <3>2 DEF RecovType
    <3>3. NoRecovery \in RecovType
      BY DEF NoRecovery, RecovType
    <3>4. InterruptedRuns \subseteq Runs /\ Queued \subseteq Runs
      BY DEF InterruptedRuns, Queued
    <3>5. {r \in recov.before : run[r].st = "pending"} \subseteq Runs
      BY <3>1 DEF RecovType
    <3> QED BY <1>11, <3>2, <3>3, <3>4, <3>5 DEF RecoverScan, RecoverScanStale
  <2> QED BY <1>11, <2>1 DEF RecoverScan, RecoverScanStale, others, TypeInv, TypeOK, Grounded, RecovType
<1>12. CASE UNCHANGED vars
  BY <1>12 DEF vars, TypeInv, TypeOK, Grounded
<1> QED
  BY <1>1, <1>2, <1>3, <1>4, <1>5, <1>6, <1>7, <1>8, <1>9, <1>10, <1>11, <1>12, ExecutorType DEF Next

\* Every reachable state has the types TypeOK gives: whatever the replicas, the
\* clients, the sweepers and the crashes do.
THEOREM TypeCorrect == Spec => []TypeOK
<1>1. TypeInv => TypeOK
  BY DEF TypeInv
<1> QED BY <1>1, TypeInit, TypeNext, PTL DEF Spec

-----------------------------------------------------------------------------
(* What the writes leave behind, run by run and turn by turn.               *)

Live(r, t) == ex[r][t].pc # "none"

\* What the row writes leave behind.
LEMMA RowWrites ==
    ASSUME TypeOK, NEW r \in Runs
    PROVE  /\ \A st : Settle(r, st) => run'[r].st = st /\ \A q \in Runs \ {r} : run'[q] = run[q]
           /\ \A x : run' = [run EXCEPT ![r] = x] =>
                 run'[r] = x /\ \A q \in Runs \ {r} : run'[q] = run[q]
           /\ run' = [run EXCEPT ![r].old = FALSE] => \A q \in Runs : run'[q].st = run[q].st
           /\ \A l : lease' = [lease EXCEPT ![r] = l] =>
                 lease'[r] = l /\ \A q \in Runs \ {r} : lease'[q] = lease[q]
           /\ UNCHANGED run => \A q \in Runs : run'[q] = run[q]
           /\ UNCHANGED lease => \A q \in Runs : lease'[q] = lease[q]
<1>1. run \in [Runs -> RunType] /\ lease \in [Runs -> LeaseType]
  BY DEF TypeOK, RunType, LeaseType
<1>2. run' = [run EXCEPT ![r].old = FALSE] => \A q \in Runs : run'[q].st = run[q].st
  BY <1>1 DEF RunType
<1> QED BY <1>1, <1>2 DEF Settle, Row

\* Where the executors are after a turn moves, stops or starts.
LEMMA ExWrites ==
    ASSUME TypeInv, NEW r \in Runs, NEW t \in Turns
    PROVE  /\ \A pc : Move(r, t, pc) =>
                 /\ ex'[r][t].pc = pc /\ ex'[r][t].at = ex[r][t].at /\ ex'[r][t].back = ex[r][t].back
                 /\ \A u \in Turns \ {t} : ex'[r][u] = ex[r][u]
                 /\ \A q \in Runs \ {r} : ex'[q] = ex[q]
           /\ Stop(r, t) =>
                 /\ ex'[r][t] = Idle
                 /\ \A u \in Turns \ {t} : ex'[r][u] = ex[r][u]
                 /\ \A q \in Runs \ {r} : ex'[q] = ex[q]
           /\ \A i \in Inst : \A pc, back : StartTurn(i, r, pc, back) /\ t = turns[r] + 1 =>
                 /\ ex'[r][t] = [pc |-> pc, at |-> i, back |-> back]
                 /\ \A u \in Turns \ {t} : ex'[r][u] = ex[r][u]
                 /\ \A q \in Runs \ {r} : ex'[q] = ex[q] /\ turns'[q] = turns[q]
                 /\ turns'[r] = t
                 /\ r \in mem'[i]
                 /\ \A j \in Inst : \A q \in Runs : q # r \/ j # i => (q \in mem'[j] <=> q \in mem[j])
<1>1. ex \in [Runs -> [Turns -> ExType]] /\ turns \in [Runs -> 0 .. MaxTurns] /\ mem \in [Inst -> SUBSET Runs]
  BY DEF TypeInv, TypeOK, ExType
<1>2. ASSUME NEW pc, Move(r, t, pc)
      PROVE  /\ ex'[r][t].pc = pc /\ ex'[r][t].at = ex[r][t].at /\ ex'[r][t].back = ex[r][t].back
             /\ \A u \in Turns \ {t} : ex'[r][u] = ex[r][u]
             /\ \A q \in Runs \ {r} : ex'[q] = ex[q]
  <2>1. ex[r][t] \in ExType
    BY <1>1
  <2>2. ex' = [ex EXCEPT ![r] = [ex[r] EXCEPT ![t] = [ex[r][t] EXCEPT !.pc = pc]]]
    BY <1>1, <1>2 DEF Move
  <2> QED BY <1>1, <2>1, <2>2 DEF ExType
<1>3. ASSUME NEW e, NEW u \in Turns, ex' = [ex EXCEPT ![r] = [ex[r] EXCEPT ![u] = e]]
      PROVE  /\ ex'[r][u] = e
             /\ \A v \in Turns \ {u} : ex'[r][v] = ex[r][v]
             /\ \A q \in Runs \ {r} : ex'[q] = ex[q]
  BY <1>1, <1>3
<1>4. ASSUME Stop(r, t)
      PROVE  ex'[r][t] = Idle /\ (\A u \in Turns \ {t} : ex'[r][u] = ex[r][u])
             /\ \A q \in Runs \ {r} : ex'[q] = ex[q]
  BY <1>3, <1>4 DEF Stop
<1>5. ASSUME NEW i \in Inst, NEW pc, NEW back, StartTurn(i, r, pc, back), t = turns[r] + 1
      PROVE  /\ ex'[r][t] = [pc |-> pc, at |-> i, back |-> back]
             /\ \A u \in Turns \ {t} : ex'[r][u] = ex[r][u]
             /\ \A q \in Runs \ {r} : ex'[q] = ex[q] /\ turns'[q] = turns[q]
             /\ turns'[r] = t
             /\ r \in mem'[i]
             /\ \A j \in Inst : \A q \in Runs : q # r \/ j # i => (q \in mem'[j] <=> q \in mem[j])
  <2>1. ex' = [ex EXCEPT ![r] = [ex[r] EXCEPT ![t] = [pc |-> pc, at |-> i, back |-> back]]]
    BY <1>5 DEF StartTurn
  <2>2. turns'[r] = t /\ \A q \in Runs \ {r} : turns'[q] = turns[q]
    BY <1>1, <1>5 DEF StartTurn
  <2>3. r \in mem'[i] /\ \A j \in Inst : \A q \in Runs : q # r \/ j # i => (q \in mem'[j] <=> q \in mem[j])
    BY <1>1, <1>5 DEF StartTurn
  <2>4. /\ ex'[r][t] = [pc |-> pc, at |-> i, back |-> back]
        /\ \A u \in Turns \ {t} : ex'[r][u] = ex[r][u]
        /\ \A q \in Runs \ {r} : ex'[q] = ex[q]
    BY <1>3, <2>1
  <2> QED BY <2>2, <2>3, <2>4
<1> QED BY <1>2, <1>4, <1>5

\* The registry after completeExecutionLease.
LEMMA CompleteWrites ==
    ASSUME TypeInv, NEW i \in Inst, NEW r \in Runs, completeExecutionLease(i, r)
    PROVE  /\ r \notin mem'[i]
           /\ \A j \in Inst \ {i} : mem'[j] = mem[j] /\ settling'[j] = settling[j]
           /\ \A q \in Runs \ {r} : (q \in mem'[i] <=> q \in mem[i]) /\ (q \in settling'[i] <=> q \in settling[i])
           /\ r \in settling'[i] => r \in mem[i] \cup settling[i]
BY DEF completeExecutionLease, TypeInv, TypeOK

\* The step rows after a write to one step, or to all open steps of a run.
LEMMA StepSets ==
    ASSUME TypeInv, NEW r \in Runs
    PROVE  /\ \A t \in Turns : \A s : SetStep(r, t, s) =>
                 /\ step'[r][t] = s
                 /\ \A u \in Turns \ {t} : step'[r][u] = step[r][u]
                 /\ \A q \in Runs \ {r} : step'[q] = step[q]
           /\ CloseSteps(r) =>
                 /\ \A u \in Turns : step'[r][u] = IF step[r][u] = "running" THEN "closed" ELSE step[r][u]
                 /\ \A q \in Runs \ {r} : step'[q] = step[q]
<1>1. step \in [Runs -> [Turns -> {"none", "running", "closed"}]]
  BY DEF TypeInv, TypeOK
<1> QED BY <1>1 DEF SetStep, CloseSteps

-----------------------------------------------------------------------------
(* Turns and steps, for the workload of the routes without follow-up turns: *)
(* rows are submitted, executed, retried on any replica, cancelled and      *)
(* deleted by retention, and terminal transactions fail. Every replica      *)
(* stays up.                                                                *)

RouteWorkload == Ops \cap {"crash", "turn", "listed"} = {}

\* The turn has not settled its row yet.
Busy(r, t) == ex[r][t].pc \in {"admitted", "ready", "executing", "cli"}

\* A busy turn is the latest of its run, and the row is its own: nobody moves it
\* except to cancel it, and retention after that.
TurnLatest(r) ==
    \A t \in Turns :
        /\ Busy(r, t) => t = turns[r] /\ run[r].st \in {"running", "cancelled", "deleted"}
        /\ ex[r][t].pc = "admitted" => ex[r][t].back = "deleted"
        /\ t > turns[r] => ~Live(r, t) /\ step[r][t] = "none"

\* An open step is that of the latest turn, which will close it, or its row is
\* still running; a turn in preparation has not opened its step.
StepOwned(r) ==
    \A t \in Turns :
        /\ step[r][t] = "running" =>
              /\ t = turns[r] /\ run[r].st # "deleted"
              /\ ex[r][t].pc \in {"executing", "cli"} \/ run[r].st = "running"
        /\ ex[r][t].pc \in {"admitted", "ready"} => step[r][t] # "running"

\* An execution lease has an executor, or its row is gone and the sweeper takes it.
MemBacked(r) ==
    \A i \in Inst : r \in mem[i] =>
        run[r].st = "deleted" \/ \E t \in Turns : Live(r, t) /\ ex[r][t].at = i

\* No owner of this run or of its lease counts as dead.
RowMarked(r) ==
    /\ run[r].old = FALSE /\ lease[r].old = FALSE
    /\ lease[r].phase = "active" => lease[r].owner # None

RunSettles(r) == TurnLatest(r) /\ StepOwned(r) /\ MemBacked(r) /\ RowMarked(r)

\* A request waits on a pending row that no other request waits on.
ReqWaits(c) ==
    req[c].kind # "none" =>
        /\ \/ req[c].kind = "new" /\ req[c].prior = "deleted"
           \/ req[c].kind = "retry" /\ req[c].prior = "failed"
        /\ run[req[c].run].st = "pending"
        /\ \A d \in Clients : req[d].kind # "none" /\ req[d].run = req[c].run => d = c

FleetUp == recov = NoRecovery /\ \A i \in Inst : up[i] /\ beating[i] /\ reap[i] = NoReap

TurnInv ==
    /\ \A r \in Runs : RunSettles(r)
    /\ \A c \in Clients : ReqWaits(c)
    /\ FleetUp

\* The step writes nothing of the other runs.
Apart(r) ==
    \A q \in Runs \ {r} :
        /\ run'[q] = run[q] /\ lease'[q] = lease[q] /\ step'[q] = step[q]
        /\ ex'[q] = ex[q] /\ turns'[q] = turns[q]
        /\ \A i \in Inst : q \in mem'[i] <=> q \in mem[i]

\* What is known of a run is kept by a step that does not write it.
LEMMA ApartSettles ==
    ASSUME TurnInv, NEW r \in Runs, Apart(r), RunSettles(r)'
    PROVE  \A q \in Runs : RunSettles(q)'
<1> SUFFICES ASSUME NEW q \in Runs \ {r} PROVE RunSettles(q)'
  OBVIOUS
<1>1. RunSettles(q)
  BY DEF TurnInv
<1>2. /\ run'[q] = run[q] /\ lease'[q] = lease[q] /\ step'[q] = step[q]
      /\ ex'[q] = ex[q] /\ turns'[q] = turns[q]
      /\ \A i \in Inst : q \in mem'[i] <=> q \in mem[i]
  BY DEF Apart
<1>3. TurnLatest(q)'
  BY <1>1, <1>2 DEF RunSettles, TurnLatest, Busy, Live
<1>4. StepOwned(q)'
  BY <1>1, <1>2 DEF RunSettles, StepOwned
<1>5. MemBacked(q)' /\ RowMarked(q)'
  BY <1>1, <1>2 DEF RunSettles, MemBacked, RowMarked, Live
<1> QED BY <1>3, <1>4, <1>5 DEF RunSettles

\* A step of one run that no request waits on, or that leaves it pending.
LEMMA TurnStep ==
    ASSUME TypeInv, TurnInv, NEW r \in Runs, Apart(r), UNCHANGED <<req, reap, up, beating, recov>>,
           run[r].st = "pending" => run'[r].st = "pending" \/ \A c \in Clients : req[c].run # r,
           RunSettles(r)'
    PROVE  TurnInv'
<1>1. \A q \in Runs : RunSettles(q)'
  BY ApartSettles
<1>2. ASSUME NEW c \in Clients, req[c].kind # "none" PROVE ReqWaits(c)'
  <2>1. ReqWaits(c) /\ req[c].run \in Runs
    BY <1>2 DEF TurnInv, TypeInv, Grounded, ReqGrounded
  <2>2. run[req[c].run].st = "pending"
    BY <1>2, <2>1 DEF ReqWaits
  <2>3. run'[req[c].run].st = "pending"
    BY <2>1, <2>2 DEF Apart
  <2> QED BY <2>1, <2>3 DEF ReqWaits
<1>3. \A c \in Clients : ReqWaits(c)'
  BY <1>2 DEF ReqWaits
<1> QED BY <1>1, <1>3 DEF TurnInv, FleetUp

\* Row r is rewritten, and a deleted row stays deleted.
RowWritten(r) ==
    /\ run'[r].old = FALSE
    /\ run[r].st = "deleted" => run'[r].st = "deleted"
    /\ \A q \in Runs \ {r} : run'[q] = run[q]

\* No step is left open on a settled row, and none but turn t's is inserted.
StepsSettled(r, t) ==
    /\ \A u \in Turns : step'[r][u] = "running" => step[r][u] = "running" /\ run'[r].st = "running"
    /\ \A u \in Turns : step[r][u] = "none" /\ u # t => step'[r][u] = "none"
    /\ \A q \in Runs \ {r} : step'[q] = step[q]

\* Execution leases of r may go, the others stay.
MemDropped(r) ==
    \A j \in Inst :
        /\ r \in mem'[j] => r \in mem[j]
        /\ \A q \in Runs \ {r} : q \in mem'[j] <=> q \in mem[j]

\* A busy turn settles its row, or finds it settled: no turn is busy any more.
LEMMA TurnSettles ==
    ASSUME TypeInv, TurnInv, NEW i \in Inst, NEW r \in Runs, NEW t \in Turns,
           Busy(r, t), ex[r][t].at = i,
           Stop(r, t) \/ Move(r, t, "cleanup"),
           Stop(r, t) => r \notin mem'[i] \/ run'[r].st = "deleted",
           RowWritten(r), StepsSettled(r, t), MemDropped(r),
           UNCHANGED <<lease, turns, req, reap, up, beating, recov>>
    PROVE  TurnInv'
<1>1. RunSettles(r)
  BY DEF TurnInv
<1>2. /\ \A u \in Turns \ {t} : ex'[r][u] = ex[r][u]
      /\ \A q \in Runs \ {r} : ex'[q] = ex[q]
      /\ ex'[r][t] = Idle \/ (ex'[r][t].pc = "cleanup" /\ ex'[r][t].at = i)
      /\ Move(r, t, "cleanup") => ex'[r][t].pc = "cleanup" /\ ex'[r][t].at = i
  BY ExWrites
<1>3. t = turns[r] /\ run[r].st # "pending" /\ \A u \in Turns \ {t} : ~Busy(r, u)
  BY <1>1 DEF RunSettles, TurnLatest
<1>4. \A u \in Turns : ~Busy(r, u)' /\ ex'[r][u].pc # "admitted"
  BY <1>2, <1>3 DEF Busy, Idle
<1>5. TurnLatest(r)'
  <2>1. turns[r] \in Nat /\ t \in Nat
    BY ConstantsOK DEF TypeInv, TypeOK, Turns
  <2>2. ASSUME NEW u \in Turns, u > turns[r] PROVE ~Live(r, u)' /\ step'[r][u] = "none"
    <3>1. u # t /\ ~Live(r, u) /\ step[r][u] = "none"
      BY <1>1, <1>3, <2>1, <2>2 DEF RunSettles, TurnLatest, Turns
    <3> QED BY <1>2, <3>1 DEF Live, StepsSettled
  <2> QED BY <1>4, <2>2 DEF TurnLatest
<1>6. StepOwned(r)'
  BY <1>1, <1>4 DEF RunSettles, StepOwned, Busy, StepsSettled
<1>7. MemBacked(r)'
  <2> SUFFICES ASSUME NEW j \in Inst, r \in mem'[j], run'[r].st # "deleted"
               PROVE  \E u \in Turns : Live(r, u)' /\ ex'[r][u].at = j
    BY DEF MemBacked
  <2>1. PICK u \in Turns : Live(r, u) /\ ex[r][u].at = j
    BY <1>1 DEF RunSettles, MemBacked, MemDropped, RowWritten
  <2>2. CASE u # t
    BY <1>2, <2>1, <2>2 DEF Live
  <2>3. CASE u = t
    <3>1. Move(r, t, "cleanup")
      BY <2>1, <2>3
    <3> QED BY <1>2, <2>1, <2>3, <3>1 DEF Live
  <2> QED BY <2>2, <2>3
<1>8. RowMarked(r)'
  BY <1>1 DEF RunSettles, RowMarked, RowWritten
<1>9. Apart(r)
  BY <1>2 DEF Apart, RowWritten, StepsSettled, MemDropped
<1> QED BY <1>3, <1>5, <1>6, <1>7, <1>8, <1>9, TurnStep DEF RunSettles

\* A busy turn goes on to its CLI process.
LEMMA TurnGoesOn ==
    ASSUME TypeInv, TurnInv, NEW i \in Inst, NEW r \in Runs, NEW t \in Turns,
           Busy(r, t), ex[r][t].at = i, Move(r, t, "cli"),
           run'[r].st = run[r].st, run'[r].old = FALSE,
           \/ SetStep(r, t, "running") /\ run[r].st # "deleted"
           \/ UNCHANGED step,
           lease'[r].old = FALSE, lease'[r].phase = "active" => lease'[r].owner # None,
           \A q \in Runs \ {r} : run'[q] = run[q] /\ lease'[q] = lease[q],
           UNCHANGED <<turns, mem, req, reap, up, beating, recov>>
    PROVE  TurnInv'
<1>1. RunSettles(r)
  BY DEF TurnInv
<1>2. /\ ex'[r][t].pc = "cli" /\ ex'[r][t].at = i
      /\ \A u \in Turns \ {t} : ex'[r][u] = ex[r][u]
      /\ \A q \in Runs \ {r} : ex'[q] = ex[q]
  BY ExWrites
<1>3. /\ step'[r][t] = step[r][t] \/ (step'[r][t] = "running" /\ run[r].st # "deleted")
      /\ \A u \in Turns \ {t} : step'[r][u] = step[r][u]
      /\ \A q \in Runs \ {r} : step'[q] = step[q]
  BY StepSets
<1>4. t = turns[r] /\ turns'[r] = turns[r] /\ run[r].st \in {"running", "cancelled", "deleted"}
      /\ turns[r] \in Nat
  BY <1>1, ConstantsOK DEF RunSettles, TurnLatest, TypeInv, TypeOK, Turns
<1>5. TurnLatest(r)'
  <2>1. ASSUME NEW u \in Turns, u > turns[r] PROVE ~Live(r, u)' /\ step'[r][u] = "none"
    <3>1. u # t /\ ~Live(r, u) /\ step[r][u] = "none"
      BY <1>1, <1>4, <2>1 DEF RunSettles, TurnLatest, Turns
    <3> QED BY <1>2, <1>3, <3>1 DEF Live
  <2>2. \A u \in Turns : Busy(r, u)' => u = t
    BY <1>1, <1>2, <1>4 DEF RunSettles, TurnLatest, Busy
  <2>3. \A u \in Turns : ex'[r][u].pc # "admitted"
    BY <1>2, <2>2 DEF Busy
  <2> QED BY <1>4, <2>1, <2>2, <2>3 DEF TurnLatest
<1>6. StepOwned(r)'
  <2>1. ASSUME NEW u \in Turns \ {t} PROVE step'[r][u] # "running" /\ ex'[r][u].pc \notin {"admitted", "ready"}
    <3>1. step[r][u] # "running" /\ ~Busy(r, u)
      BY <1>1, <1>4 DEF RunSettles, StepOwned, TurnLatest
    <3> QED BY <1>2, <1>3, <3>1 DEF Busy
  <2>2. step'[r][t] = "running" => run[r].st # "deleted"
    BY <1>1, <1>3 DEF RunSettles, StepOwned
  <2> QED BY <1>2, <1>4, <2>1, <2>2 DEF StepOwned
<1>7. MemBacked(r)'
  <2> SUFFICES ASSUME NEW j \in Inst, r \in mem[j], run[r].st # "deleted"
               PROVE  \E u \in Turns : Live(r, u)' /\ ex'[r][u].at = j
    BY DEF MemBacked
  <2>1. PICK u \in Turns : Live(r, u) /\ ex[r][u].at = j
    BY <1>1 DEF RunSettles, MemBacked
  <2> QED BY <1>2, <2>1 DEF Live
<1>8. RowMarked(r)'
  BY DEF RowMarked
<1>9. Apart(r)
  BY <1>2, <1>3 DEF Apart
<1> QED BY <1>4, <1>5, <1>6, <1>7, <1>8, <1>9, TurnStep DEF RunSettles

\* An executor's step, whatever happened to its row meanwhile.
LEMMA ExecutorTurn ==
    ASSUME TypeInv, TurnInv, NEW i \in Inst, NEW r \in Runs, NEW t \in Turns, Executor(i, r, t)
    PROVE  TurnInv'
<1>0. /\ TypeOK /\ run \in [Runs -> RunType] /\ lease \in [Runs -> LeaseType] /\ mem \in [Inst -> SUBSET Runs]
      /\ UNCHANGED <<req, turns, reap, up, beating, recov>>
  BY DEF TypeInv, TypeOK, RunType, LeaseType, Executor, Prepare, PrepareFail, Persist, StartupFail, Finish,
         FinishDbFault, Complete, ActivateExecuted, ActivateFail, fleet
<1>1. RunSettles(r) /\ ex[r][t].at = i
  BY DEF TurnInv, At, Executor, Prepare, PrepareFail, Persist, StartupFail, Finish, FinishDbFault, Complete,
         ActivateExecuted, ActivateFail
<1>2. /\ run[r].old = FALSE /\ lease[r].old = FALSE /\ (lease[r].phase = "active" => lease[r].owner # None)
      /\ Busy(r, t) => /\ run[r].st \in {"running", "cancelled", "deleted"}
                       /\ \A u \in Turns \ {t} : step[r][u] # "running"
      /\ run[r].st = "deleted" => \A u \in Turns : step[r][u] # "running"
      /\ ex[r][t].pc \in {"admitted", "ready"} => step[r][t] # "running"
      /\ ex[r][t].pc = "admitted" => ex[r][t].back = "deleted"
  BY <1>1 DEF RunSettles, RowMarked, TurnLatest, StepOwned
<1>s. ASSUME NEW st, Settle(r, st), run[r].st # "deleted" \/ st = "deleted"
      PROVE  run'[r].st = st /\ RowWritten(r)
  <2>1. run'[r].st = st /\ run'[r].old = FALSE /\ \A q \in Runs \ {r} : run'[q] = run[q]
    BY <1>0, <1>s DEF Settle, Row
  <2> QED BY <1>s, <2>1 DEF RowWritten
<1>w. UNCHANGED run => RowWritten(r)
  BY <1>2 DEF RowWritten
<1>u. UNCHANGED run => run'[r].st = run[r].st /\ run'[r].old = FALSE /\ \A q \in Runs \ {r} : run'[q] = run[q]
  BY <1>2
<1>l. UNCHANGED lease => /\ lease'[r].old = FALSE /\ (lease'[r].phase = "active" => lease'[r].owner # None)
                         /\ \A q \in Runs \ {r} : lease'[q] = lease[q]
  BY <1>2
<1>m. UNCHANGED mem => MemDropped(r)
  BY DEF MemDropped
<1>c. completeExecutionLease(i, r) => r \notin mem'[i] /\ MemDropped(r)
  BY <1>0 DEF completeExecutionLease, MemDropped
<1>t. UNCHANGED step /\ (run'[r].st = "running" \/ \A u \in Turns : step[r][u] # "running") => StepsSettled(r, t)
  BY DEF StepsSettled
<1>x. Move(r, t, "cleanup") => ~Stop(r, t)
  <2>1. Move(r, t, "cleanup") => ex'[r][t].pc = "cleanup"
    BY ExWrites
  <2>2. Stop(r, t) => ex'[r][t] = Idle
    BY ExWrites
  <2> QED BY <2>1, <2>2 DEF Idle
<1>d. SetStep(r, t, "closed") /\ Busy(r, t) => StepsSettled(r, t)
  BY <1>2, StepSets DEF StepsSettled
<1>3. CASE Prepare(i, r, t)
  <2>1. Busy(r, t) /\ UNCHANGED lease /\ \A u \in Turns : step[r][u] # "running"
    BY <1>2, <1>3 DEF Prepare, At, Busy
  <2>2. CASE run[r].st = "running" /\ run' = [run EXCEPT ![r].old = FALSE]
             /\ SetStep(r, t, "running") /\ Move(r, t, "cli") /\ UNCHANGED mem
    <3>1. run'[r].st = run[r].st /\ run'[r].old = FALSE /\ \A q \in Runs \ {r} : run'[q] = run[q]
      BY <1>0, <2>2 DEF RunType
    <3> QED BY <1>0, <1>1, <1>2, <1>l, <2>1, <2>2, <3>1, TurnGoesOn
  <2>3. CASE Stop(r, t) /\ completeExecutionLease(i, r) /\ UNCHANGED <<run, step>>
    BY <1>0, <1>1, <1>c, <1>t, <1>w, <2>1, <2>3, TurnSettles
  <2> QED BY <1>3, <2>2, <2>3 DEF Prepare, SkipExecution
<1>4. ASSUME NEW o, PrepareFail(i, r, t, o) PROVE TurnInv'
  <2>1. /\ Busy(r, t) /\ UNCHANGED <<lease, step>> /\ \A u \in Turns : step[r][u] # "running"
        /\ Stop(r, t) /\ completeExecutionLease(i, r)
    BY <1>2, <1>4 DEF PrepareFail, At, Busy
  <2>2. RowWritten(r)
    <3>1. CASE run' = [run EXCEPT ![r] = Row(o, @.owner, FALSE)] /\ run[r].st = "running"
      BY <1>0, <3>1 DEF Row, RowWritten
    <3>2. CASE UNCHANGED run
      BY <1>w, <3>2
    <3> QED BY <1>4, <3>1, <3>2 DEF PrepareFail
  <2> QED BY <1>0, <1>1, <1>c, <1>t, <2>1, <2>2, TurnSettles
<1>5. CASE Persist(i, r, t)
  <2>1. /\ Busy(r, t) /\ Move(r, t, "cli") /\ SetStep(r, t, "running") /\ run[r].st # "deleted"
        /\ UNCHANGED <<run, lease, mem>>
    BY <1>5 DEF Persist, At, Busy, Exists
  <2> QED BY <1>0, <1>1, <1>l, <1>u, <2>1, TurnGoesOn
<1>6. CASE StartupFail(i, r, t)
  <2>1. /\ Busy(r, t) /\ Stop(r, t) /\ completeExecutionLease(i, r) /\ CloseSteps(r) /\ UNCHANGED lease
        /\ ex[r][t].back = "deleted"
    BY <1>2, <1>6 DEF StartupFail, At, Busy
  <2>2. StepsSettled(r, t)
    BY <2>1, StepSets DEF StepsSettled
  <2>3. RowWritten(r)
    BY <1>6, <1>s, <1>w, <2>1 DEF StartupFail
  <2> QED BY <1>0, <1>1, <1>c, <2>1, <2>2, <2>3, TurnSettles
<1>7. ASSUME NEW o, Finish(i, r, t, o) PROVE TurnInv'
  <2>1. Busy(r, t) /\ UNCHANGED lease
    BY <1>7 DEF Finish, At, Busy
  <2>2. CASE run[r].st = "running" /\ Settle(r, IF step[r][t] = "running" THEN o ELSE "failed")
             /\ SetStep(r, t, "closed") /\ Move(r, t, "cleanup") /\ UNCHANGED mem
    <3>1. RowWritten(r)
      BY <1>s, <2>2
    <3> QED BY <1>0, <1>1, <1>d, <1>m, <1>x, <2>1, <2>2, <3>1, TurnSettles
  <2>3. CASE /\ run[r].st = "cancelled" /\ SetStep(r, t, "closed")
             /\ Move(r, t, "cleanup") /\ UNCHANGED <<run, mem>>
    BY <1>0, <1>1, <1>d, <1>m, <1>w, <1>x, <2>1, <2>3, TurnSettles
  <2>4. CASE run[r].st = "deleted" /\ Stop(r, t) /\ completeExecutionLease(i, r) /\ UNCHANGED <<run, step>>
    <3>1. \A u \in Turns : step[r][u] # "running"
      BY <1>2, <2>4
    <3> QED BY <1>0, <1>1, <1>c, <1>t, <1>w, <2>1, <2>4, <3>1, TurnSettles
  <2> QED BY <1>2, <1>7, <2>1, <2>2, <2>3, <2>4 DEF Finish, cancelLateStep
<1>8. CASE FinishDbFault(i, r, t)
  <2>1. /\ Busy(r, t) /\ Move(r, t, "cleanup") /\ run[r].st = "running" /\ UNCHANGED <<run, lease, step, mem>>
    BY <1>8 DEF FinishDbFault, At, Busy, rows
  <2> QED BY <1>0, <1>1, <1>m, <1>t, <1>u, <1>w, <1>x, <2>1, TurnSettles
<1>9. CASE ActivateExecuted(i, r, t)
  <2>1. Busy(r, t) /\ Move(r, t, "cli") /\ UNCHANGED <<run, step, mem>>
        /\ lease' = [lease EXCEPT ![r] = activated(i, lease[r])]
    BY <1>9 DEF ActivateExecuted, At, Busy
  <2>2. lease'[r] = activated(i, lease[r]) /\ \A q \in Runs \ {r} : lease'[q] = lease[q]
    BY <1>0, <2>1
  <2>3. lease'[r].old = FALSE /\ (lease'[r].phase = "active" => lease'[r].owner # None)
    BY <1>2, <2>2, ConstantsOK DEF activated
  <2> QED BY <1>0, <1>1, <1>u, <2>1, <2>2, <2>3, TurnGoesOn
<1>10. CASE ActivateFail(i, r, t)
  <2>1. Busy(r, t) /\ Stop(r, t) /\ UNCHANGED lease
    BY <1>10 DEF ActivateFail, At, Busy
  <2>2. CASE /\ run[r].st = "running" /\ Settle(r, "failed")
             /\ SetStep(r, t, "closed") /\ completeExecutionLease(i, r)
    <3>1. RowWritten(r)
      BY <1>s, <2>2
    <3> QED BY <1>0, <1>1, <1>c, <1>d, <2>1, <2>2, <3>1, TurnSettles
  <2>3. CASE UNCHANGED run /\ SetStep(r, t, "closed") /\ completeExecutionLease(i, r)
    BY <1>0, <1>1, <1>c, <1>d, <1>w, <2>1, <2>3, TurnSettles
  <2>4. CASE run[r].st \notin {"running", "cancelled"} /\ UNCHANGED <<run, step, mem>>
    <3>1. run[r].st = "deleted" /\ \A u \in Turns : step[r][u] # "running"
      BY <1>2, <2>1, <2>4
    <3> QED BY <1>0, <1>1, <1>m, <1>t, <1>u, <1>w, <2>1, <2>4, <3>1, TurnSettles
  <2> QED BY <1>10, <2>2, <2>3, <2>4 DEF ActivateFail, cancelLateStep
<1>11. CASE Complete(i, r, t)
  <2>1. /\ ex[r][t].pc = "cleanup" /\ Stop(r, t) /\ completeExecutionLease(i, r)
        /\ UNCHANGED <<run, lease, step>>
    BY <1>11 DEF Complete, At, rows
  <2>2. /\ ex'[r][t] = Idle
        /\ \A u \in Turns \ {t} : ex'[r][u] = ex[r][u]
        /\ \A q \in Runs \ {r} : ex'[q] = ex[q]
    BY <2>1, ExWrites
  <2>3. TurnLatest(r)'
    BY <1>0, <1>1, <2>1, <2>2 DEF RunSettles, TurnLatest, Busy, Live, Idle
  <2>4. StepOwned(r)'
    BY <1>0, <1>1, <2>1, <2>2 DEF RunSettles, StepOwned, Idle
  <2>5. MemBacked(r)'
    BY <1>1, <1>c, <2>1, <2>2 DEF RunSettles, MemBacked, MemDropped, Live
  <2>6. RowMarked(r)'
    BY <1>1, <2>1 DEF RunSettles, RowMarked
  <2>7. Apart(r)
    BY <1>0, <1>c, <2>1, <2>2 DEF Apart, MemDropped
  <2> QED BY <1>0, <2>1, <2>3, <2>4, <2>5, <2>6, <2>7, TurnStep DEF RunSettles
<1> QED BY <1>3, <1>4, <1>5, <1>6, <1>7, <1>8, <1>9, <1>10, <1>11 DEF Executor

\* A pending or queued row has no busy turn and no open step.
LEMMA WaitingRow ==
    ASSUME TurnInv, NEW r \in Runs, run[r].st \notin {"running", "cancelled", "deleted"}
    PROVE  /\ \A t \in Turns : ~Busy(r, t) /\ step[r][t] # "running"
           /\ RunSettles(r)
<1>1. RunSettles(r)
  BY DEF TurnInv
<1> QED BY <1>1 DEF RunSettles, TurnLatest, StepOwned, Busy

\* The row and the lease of run r are written, with fresh marks.
Remarked(r) ==
    /\ run'[r].old = FALSE /\ lease'[r].old = FALSE
    /\ lease'[r].phase = "active" => lease'[r].owner # None
    /\ \A q \in Runs \ {r} : run'[q] = run[q] /\ lease'[q] = lease[q]

\* /execute opens the step of the turn it starts, the others do not.
Opens(r, pc) ==
    \/ UNCHANGED step /\ pc # "executing"
    \/ SetStep(r, turns[r] + 1, "running") /\ pc = "executing"

\* A waiting run is claimed and a turn started; /execute opens the step with it.
LEMMA TurnBegins ==
    ASSUME TypeInv, TurnInv, NEW i \in Inst, NEW r \in Runs, NEW pc \in {"admitted", "ready", "executing"},
           NEW back, run[r].st \in {"pending", "queued"}, CanHost(r),
           pc = "admitted" => back = "deleted",
           StartTurn(i, r, pc, back), Opens(r, pc), run'[r].st = "running", Remarked(r)
    PROVE  Apart(r) /\ RunSettles(r)'
<1>1. RunSettles(r) /\ \A u \in Turns : ~Busy(r, u) /\ step[r][u] # "running"
  BY WaitingRow
<1>2. PICK t \in Turns : t = turns[r] + 1
  <2>1. turns[r] \in 0 .. MaxTurns /\ turns[r] < MaxTurns
    BY DEF TypeInv, TypeOK, CanHost
  <2> QED BY <2>1, ConstantsOK DEF Turns
<1>n. turns[r] \in Nat /\ t \in Nat /\ t > turns[r]
  <2>1. turns[r] \in 0 .. MaxTurns
    BY DEF TypeInv, TypeOK
  <2> QED BY <1>2, <2>1, ConstantsOK
<1>3. /\ ex'[r][t] = [pc |-> pc, at |-> i, back |-> back]
      /\ \A u \in Turns \ {t} : ex'[r][u] = ex[r][u]
      /\ \A q \in Runs \ {r} : ex'[q] = ex[q] /\ turns'[q] = turns[q]
      /\ turns'[r] = t
      /\ r \in mem'[i]
      /\ \A j \in Inst : \A q \in Runs : q # r \/ j # i => (q \in mem'[j] <=> q \in mem[j])
  BY <1>2, ExWrites
<1>4. /\ step'[r][t] = IF pc = "executing" THEN "running" ELSE step[r][t]
      /\ \A u \in Turns \ {t} : step'[r][u] = step[r][u]
      /\ \A q \in Runs \ {r} : step'[q] = step[q]
  <2>1. CASE UNCHANGED step /\ pc # "executing"
    BY <2>1
  <2>2. CASE SetStep(r, t, "running") /\ pc = "executing"
    BY <2>2, StepSets
  <2> QED BY <1>2, <2>1, <2>2 DEF Opens
<1>5. TurnLatest(r)'
  <2>1. \A u \in Turns : Busy(r, u)' => u = t
    BY <1>1, <1>3 DEF Busy
  <2>2. \A u \in Turns : ex'[r][u].pc = "admitted" => ex'[r][u].back = "deleted"
    <3>1. ex'[r][t].pc = "admitted" => ex'[r][t].back = "deleted"
      BY <1>3
    <3> QED BY <2>1, <3>1 DEF Busy
  <2>3. ASSUME NEW u \in Turns, u > t PROVE ~Live(r, u)' /\ step'[r][u] = "none"
    <3>1. u # t /\ u > turns[r]
      BY <1>n, <2>3 DEF Turns
    <3>2. ~Live(r, u) /\ step[r][u] = "none"
      BY <1>1, <3>1 DEF RunSettles, TurnLatest
    <3> QED BY <1>3, <1>4, <3>1, <3>2 DEF Live
  <2> QED BY <1>3, <2>1, <2>2, <2>3 DEF TurnLatest
<1>6. StepOwned(r)'
  <2>1. ASSUME NEW u \in Turns, step'[r][u] = "running" PROVE u = t /\ pc = "executing"
    BY <1>1, <1>4, <2>1
  <2>2. ASSUME NEW u \in Turns, ex'[r][u].pc \in {"admitted", "ready"} PROVE step'[r][u] # "running"
    <3>1. u = t
      BY <1>1, <1>3, <2>2 DEF Busy
    <3> QED BY <1>3, <2>1, <2>2, <3>1
  <2> QED BY <1>3, <2>1, <2>2 DEF StepOwned
<1>7. MemBacked(r)'
  <2> SUFFICES ASSUME NEW j \in Inst, r \in mem'[j] PROVE \E u \in Turns : Live(r, u)' /\ ex'[r][u].at = j
    BY DEF MemBacked
  <2>1. CASE j = i
    BY <1>3, <2>1 DEF Live
  <2>2. CASE j # i
    <3>1. PICK u \in Turns : Live(r, u) /\ ex[r][u].at = j
      BY <1>1, <1>3, <2>2 DEF RunSettles, MemBacked
    <3>2. u # t
      BY <1>1, <1>n, <3>1 DEF RunSettles, TurnLatest
    <3> QED BY <1>3, <3>1, <3>2 DEF Live
  <2> QED BY <2>1, <2>2
<1>8. RowMarked(r)'
  BY DEF RowMarked, Remarked
<1>9. Apart(r)
  BY <1>3, <1>4 DEF Apart, Remarked
<1> QED BY <1>5, <1>6, <1>7, <1>8, <1>9 DEF RunSettles

\* A row without a busy turn and an open step changes its status, or its lease.
LEMMA RowChanges ==
    ASSUME TypeInv, TurnInv, NEW r \in Runs,
           run[r].st \notin {"running", "cancelled", "deleted"},
           Remarked(r), UNCHANGED <<step, ex, turns, mem>>
    PROVE  Apart(r) /\ RunSettles(r)'
<1>1. RunSettles(r) /\ \A u \in Turns : ~Busy(r, u) /\ step[r][u] # "running"
  BY WaitingRow
<1>2. TurnLatest(r)'
  BY <1>1 DEF RunSettles, TurnLatest, Busy, Live
<1>3. StepOwned(r)'
  BY <1>1 DEF StepOwned, Busy
<1>4. MemBacked(r)'
  BY <1>1 DEF RunSettles, MemBacked, Live
<1>5. RowMarked(r)' /\ Apart(r)
  BY DEF RowMarked, Apart, Remarked
<1> QED BY <1>2, <1>3, <1>4, <1>5 DEF RunSettles

\* The marks of a lease after a reservation and an activation.
LEMMA LeaseMarks ==
    ASSUME NEW i \in Inst, NEW l \in LeaseType, l.old = FALSE, l.phase = "active" => l.owner # None
    PROVE  /\ reserved(l).old = FALSE /\ (reserved(l).phase = "active" => reserved(l).owner # None)
           /\ activated(i, l).old = FALSE /\ (activated(i, l).phase = "active" => activated(i, l).owner # None)
BY ConstantsOK DEF reserved, activated, NoLease, LeaseType

\* Queue admission, promotion and /execute.
LEMMA AdmissionTurn ==
    ASSUME RouteWorkload, TypeInv, TurnInv,
           \/ \E c \in Clients : Admit(c)
           \/ \E i \in Inst, r \in Runs : Promote(i, r) \/ Execute(i, r)
    PROVE  TurnInv'
<1>0. run \in [Runs -> RunType] /\ lease \in [Runs -> LeaseType]
  BY DEF TypeInv, TypeOK, RunType, LeaseType
<1>1. ASSUME NEW r \in Runs
      PROVE  /\ lease[r] \in LeaseType /\ lease[r].old = FALSE /\ run[r].old = FALSE
             /\ lease[r].phase = "active" => lease[r].owner # None
  BY <1>0 DEF TurnInv, RunSettles, RowMarked
<1>2. ASSUME NEW i \in Inst, NEW r \in Runs, Promote(i, r) PROVE TurnInv'
  <2>1. /\ run[r].st = "queued" /\ CanHost(r) /\ StartTurn(i, r, "ready", "none")
        /\ UNCHANGED <<step, req, reap, up, beating, recov>>
    BY <1>2 DEF Promote, getOldestQueuedRun, Queued, fleet
  <2>2. run'[r].st = "running" /\ run'[r].old = FALSE /\ \A q \in Runs \ {r} : run'[q] = run[q]
    BY <1>0, <1>2 DEF Promote, Claimed, Row
  <2>3. lease'[r] = activated(i, lease[r]) /\ \A q \in Runs \ {r} : lease'[q] = lease[q]
    BY <1>0, <1>2 DEF Promote
  <2>4. lease'[r].old = FALSE /\ (lease'[r].phase = "active" => lease'[r].owner # None)
    BY <1>1, <2>3, LeaseMarks
  <2>5. Remarked(r) /\ Opens(r, "ready")
    BY <2>1, <2>2, <2>3, <2>4 DEF Remarked, Opens
  <2>6. Apart(r) /\ RunSettles(r)'
    BY <2>1, <2>2, <2>5, TurnBegins
  <2> QED BY <2>1, <2>6, TurnStep
<1>3. ASSUME NEW i \in Inst, NEW r \in Runs, Execute(i, r) PROVE TurnInv'
  <2>1. /\ run[r].st \in {"pending", "queued"} /\ CanHost(r) /\ StartTurn(i, r, "executing", "none")
        /\ SetStep(r, turns[r] + 1, "running")
        /\ \A c \in Clients : req[c].run # r
        /\ UNCHANGED <<req, reap, up, beating, recov>>
    BY <1>3 DEF Execute, CanExecute, RouteWorkload, fleet
  <2>2. run'[r].st = "running" /\ run'[r].old = FALSE /\ \A q \in Runs \ {r} : run'[q] = run[q]
    BY <1>0, <1>3 DEF Execute, Row
  <2>3. lease'[r] = (IF Scm THEN reserved(lease[r]) ELSE lease[r]) /\ \A q \in Runs \ {r} : lease'[q] = lease[q]
    BY <1>0, <1>3 DEF Execute
  <2>4. lease'[r].old = FALSE /\ (lease'[r].phase = "active" => lease'[r].owner # None)
    <3>1. /\ reserved(lease[r]).old = FALSE
          /\ reserved(lease[r]).phase = "active" => reserved(lease[r]).owner # None
      BY <1>1, LeaseMarks
    <3> QED BY <1>1, <2>3, <3>1
  <2>5. Remarked(r) /\ Opens(r, "executing")
    BY <2>1, <2>2, <2>3, <2>4 DEF Remarked, Opens
  <2>6. Apart(r) /\ RunSettles(r)'
    BY <2>1, <2>2, <2>5, TurnBegins
  <2> QED BY <2>1, <2>6, TurnStep
<1>4. ASSUME NEW c \in Clients, Admit(c) PROVE TurnInv'
  <2>0. PICK i \in Inst, r \in Runs : i = req[c].at /\ r = req[c].run
    BY <1>4 DEF Admit, TypeInv, Grounded, ReqGrounded
  <2> DEFINE l == IF Scm THEN reserved(lease[r]) ELSE lease[r]
  <2>1. /\ req[c].kind # "none" /\ run[r].st = "pending"
        /\ \/ req[c].kind = "new" /\ req[c].prior = "deleted"
           \/ req[c].kind = "retry" /\ req[c].prior = "failed"
        /\ req' = [req EXCEPT ![c] = NoReq]
        /\ UNCHANGED <<step, reap, up, beating, recov>>
    BY <1>4, <2>0 DEF Admit, fleet, TurnInv, ReqWaits
  <2>2. l \in LeaseType /\ l.old = FALSE /\ (l.phase = "active" => l.owner # None)
    <3>1. /\ reserved(lease[r]) \in LeaseType /\ reserved(lease[r]).old = FALSE
          /\ reserved(lease[r]).phase = "active" => reserved(lease[r]).owner # None
      BY <1>1, LeaseMarks, LeaseWrites
    <3> QED BY <1>1, <3>1
  <2>3. Apart(r) /\ RunSettles(r)'
    <3>1. CASE /\ CanHost(r)
               /\ run' = [run EXCEPT ![r] = Claimed(i, @.chat)]
               /\ lease' = [lease EXCEPT ![r] = activated(i, l)]
               /\ \/ StartTurn(i, r, "ready", "none")
                  \/ req[c].kind # "retry" /\ StartTurn(i, r, "admitted", req[c].prior)
      <4>1. run'[r].st = "running" /\ run'[r].old = FALSE /\ \A q \in Runs \ {r} : run'[q] = run[q]
        BY <1>0, <3>1 DEF Claimed, Row
      <4>2. lease'[r] = activated(i, l) /\ \A q \in Runs \ {r} : lease'[q] = lease[q]
        BY <1>0, <3>1
      <4>3. lease'[r].old = FALSE /\ (lease'[r].phase = "active" => lease'[r].owner # None)
        BY <2>2, <4>2, LeaseMarks
      <4>m. Remarked(r) /\ Opens(r, "ready") /\ Opens(r, "admitted")
        BY <2>1, <4>1, <4>2, <4>3 DEF Remarked, Opens
      <4>4. CASE StartTurn(i, r, "ready", "none")
        BY <2>1, <3>1, <4>1, <4>m, <4>4, TurnBegins
      <4>5. CASE StartTurn(i, r, "admitted", "deleted")
        BY <2>1, <3>1, <4>1, <4>m, <4>5, TurnBegins
      <4> QED BY <2>1, <3>1, <4>4, <4>5
    <3>2. CASE /\ UNCHANGED <<ex, turns, mem>>
               /\ \/ UNCHANGED <<run, lease>>
                  \/ /\ run' = [run EXCEPT ![r] = Row("queued", None, @.chat)]
                     /\ lease' = [lease EXCEPT ![r] = l]
                  \/ Settle(r, req[c].prior) /\ UNCHANGED lease
                  \/ Settle(r, "failed") /\ UNCHANGED lease
      <4>1. run'[r].old = FALSE /\ \A q \in Runs \ {r} : run'[q] = run[q]
        <5>1. CASE UNCHANGED run
          BY <1>1, <5>1
        <5>2. ASSUME NEW st, Settle(r, st) PROVE run'[r].old = FALSE /\ \A q \in Runs \ {r} : run'[q] = run[q]
          BY <1>0, <5>2 DEF Settle, Row
        <5>3. CASE run' = [run EXCEPT ![r] = Row("queued", None, @.chat)]
          BY <1>0, <5>3 DEF Row
        <5> QED BY <3>2, <5>1, <5>2, <5>3
      <4>2. (lease'[r] = lease[r] \/ lease'[r] = l) /\ \A q \in Runs \ {r} : lease'[q] = lease[q]
        BY <1>0, <3>2
      <4>3. lease'[r].old = FALSE /\ (lease'[r].phase = "active" => lease'[r].owner # None)
        BY <1>1, <2>2, <4>2
      <4>4. Remarked(r)
        BY <4>1, <4>2, <4>3 DEF Remarked
      <4> QED BY <2>1, <3>2, <4>4, RowChanges
    <3> QED BY <1>4, <2>0, <3>1, <3>2 DEF Admit
  <2>4. \A q \in Runs : RunSettles(q)'
    BY <2>3, ApartSettles
  <2>5. \A d \in Clients : ReqWaits(d)'
    <3>1. /\ \A d \in Clients : ReqWaits(d) /\ (req[d].kind # "none" => req[d].run \in Runs)
          /\ req'[c].kind = "none" /\ \A d \in Clients \ {c} : req'[d] = req[d]
      BY <2>1 DEF TurnInv, TypeInv, TypeOK, Grounded, ReqGrounded, NoReq
    <3>2. ASSUME NEW d \in Clients \ {c}, req[d].kind # "none" PROVE ReqWaits(d)'
      <4>1. req[d].run # r /\ req[d].run \in Runs /\ ReqWaits(d)
        BY <2>0, <2>1, <3>1, <3>2 DEF ReqWaits
      <4>2. run'[req[d].run] = run[req[d].run]
        BY <2>3, <4>1 DEF Apart
      <4> QED BY <3>1, <4>1, <4>2 DEF ReqWaits
    <3>3. ASSUME NEW d \in Clients, req'[d].kind = "none" PROVE ReqWaits(d)'
      BY <3>3 DEF ReqWaits
    <3> QED BY <3>1, <3>2, <3>3
  <2> QED BY <2>1, <2>4, <2>5 DEF TurnInv, FleetUp
<1> QED BY <1>2, <1>3, <1>4

\* A row is inserted, or a failed one claimed for a retry.
LEMMA PendingTurn ==
    ASSUME TypeInv, TurnInv, NEW r \in Runs, run[r].st \in {"absent", "failed"},
           run' = [run EXCEPT ![r] = Row("pending", None, FALSE)],
           UNCHANGED <<lease, step, ex, turns, mem, reap, up, beating, recov>>,
           \/ UNCHANGED req
           \/ \E c \in Clients, i \in Inst : \/ Request(c, i, r, "new", "deleted")
                                             \/ Request(c, i, r, "retry", "failed")
    PROVE  TurnInv'
<1>1. run'[r].st = "pending" /\ run'[r].old = FALSE /\ \A q \in Runs \ {r} : run'[q] = run[q]
  BY DEF TypeInv, TypeOK, Row
<1>2. lease[r].old = FALSE /\ (lease[r].phase = "active" => lease[r].owner # None)
  BY DEF TurnInv, RunSettles, RowMarked
<1>3. Apart(r) /\ RunSettles(r)'
  BY <1>1, <1>2, RowChanges DEF Remarked
<1>4. \A q \in Runs : RunSettles(q)'
  BY <1>3, ApartSettles
<1>5. \A c \in Clients : ReqWaits(c) /\ (req[c].kind # "none" => req[c].run \in Runs /\ req[c].run # r)
  BY DEF TurnInv, ReqWaits, TypeInv, Grounded, ReqGrounded
<1>6. \A c \in Clients : req[c].kind # "none" => run'[req[c].run] = run[req[c].run]
  BY <1>1, <1>5
<1>7. CASE UNCHANGED req
  <2>1. ASSUME NEW d \in Clients, req[d].kind # "none" PROVE ReqWaits(d)'
    <3>1. run'[req[d].run] = run[req[d].run] /\ ReqWaits(d)
      BY <1>5, <1>6, <2>1
    <3> QED BY <1>7, <3>1 DEF ReqWaits
  <2>2. \A d \in Clients : ReqWaits(d)'
    BY <1>7, <2>1 DEF ReqWaits
  <2> QED BY <1>4, <2>2 DEF TurnInv, FleetUp
<1>8. ASSUME NEW c \in Clients, NEW i \in Inst,
             Request(c, i, r, "new", "deleted") \/ Request(c, i, r, "retry", "failed")
      PROVE  TurnInv'
  <2>1. /\ req'[c].run = r
        /\ \/ req'[c].kind = "new" /\ req'[c].prior = "deleted"
           \/ req'[c].kind = "retry" /\ req'[c].prior = "failed"
        /\ \A d \in Clients \ {c} : req'[d] = req[d]
    BY <1>8 DEF Request, TypeInv, TypeOK
  <2>2. ReqWaits(c)'
    BY <1>1, <1>5, <2>1, ZenonT(60) DEF ReqWaits
  <2>3. ASSUME NEW d \in Clients \ {c}, req[d].kind # "none" PROVE ReqWaits(d)'
    <3>1. run'[req[d].run] = run[req[d].run] /\ ReqWaits(d) /\ req[d].run # r
      BY <1>5, <1>6, <2>3
    <3> QED BY <2>1, <2>3, <3>1 DEF ReqWaits
  <2>4. ASSUME NEW d \in Clients \ {c}, req[d].kind = "none" PROVE ReqWaits(d)'
    BY <2>1, <2>4 DEF ReqWaits
  <2>5. \A d \in Clients : ReqWaits(d)'
    BY <2>2, <2>3, <2>4
  <2> QED BY <1>4, <2>5 DEF TurnInv, FleetUp
<1> QED BY <1>7, <1>8

\* A cancellation closes the only step that can be open.
LEMMA CancelTurn == ASSUME TypeInv, TurnInv, NEW r \in Runs, Cancel(r) PROVE TurnInv'
<1>0. /\ run \in [Runs -> RunType] /\ lease \in [Runs -> LeaseType]
      /\ step \in [Runs -> [Turns -> {"none", "running", "closed"}]]
      /\ turns[r] \in Nat
  BY ConstantsOK DEF TypeInv, TypeOK, RunType, LeaseType
<1>1. /\ run[r].st \in {"queued", "running"} /\ Settle(r, "cancelled") /\ RunSettles(r)
      /\ UNCHANGED <<req, ex, turns, mem, reap, up, beating, recov>>
  BY DEF Cancel, fleet, TurnInv
<1>2. run'[r].st = "cancelled" /\ run'[r].old = FALSE /\ \A q \in Runs \ {r} : run'[q] = run[q]
  BY <1>0, <1>1 DEF Settle, Row
<1>3. (lease'[r] = lease[r] \/ lease'[r] = NoLease) /\ \A q \in Runs \ {r} : lease'[q] = lease[q]
  BY <1>0 DEF Cancel
<1>4. Remarked(r)
  BY <1>1, <1>2, <1>3 DEF Remarked, RunSettles, RowMarked, NoLease
<1>5. CASE run[r].st = "queued"
  <2>1. UNCHANGED step
    BY <1>5 DEF Cancel
  <2> QED BY <1>1, <1>2, <1>4, <1>5, <2>1, RowChanges, TurnStep
<1>6. CASE run[r].st = "running"
  <2>1. /\ \A u \in Turns : step'[r][u] = IF LatestStep(r, u) THEN "closed" ELSE step[r][u]
        /\ \A q \in Runs \ {r} : step'[q] = step[q]
    BY <1>0, <1>6 DEF Cancel
  <2>2. \A u \in Turns : step'[r][u] # "running"
    <3> SUFFICES ASSUME NEW u \in Turns, step[r][u] = "running" PROVE LatestStep(r, u)
      BY <2>1
    <3>1. u = turns[r] /\ \A v \in Turns : v > turns[r] => step[r][v] = "none"
      BY <1>1 DEF RunSettles, StepOwned, TurnLatest
    <3> QED BY <3>1 DEF LatestStep
  <2>3. \A u \in Turns : step[r][u] = "none" => step'[r][u] = "none"
    BY <2>1 DEF LatestStep
  <2>4. TurnLatest(r)'
    BY <1>1, <1>2, <2>3 DEF RunSettles, TurnLatest, Busy, Live
  <2>5. StepOwned(r)'
    BY <2>2 DEF StepOwned
  <2>6. MemBacked(r)'
    BY <1>1, <1>6 DEF RunSettles, MemBacked, Live
  <2>7. RowMarked(r)' /\ Apart(r)
    BY <1>1, <1>4, <2>1 DEF RowMarked, Apart, Remarked
  <2> QED BY <1>1, <1>6, <2>4, <2>5, <2>6, <2>7, TurnStep DEF RunSettles
<1> QED BY <1>1, <1>5, <1>6

\* Retention deletes a settled row and its steps.
LEMMA DeleteTurn == ASSUME TypeInv, TurnInv, NEW r \in Runs, Delete(r) PROVE TurnInv'
<1>0. /\ run \in [Runs -> RunType]
      /\ step \in [Runs -> [Turns -> {"none", "running", "closed"}]]
  BY DEF TypeInv, TypeOK, RunType
<1>1. /\ run[r].st \in Terminal /\ Settle(r, "deleted") /\ RunSettles(r)
      /\ step' = [step EXCEPT ![r] = [t \in Turns |-> "none"]]
      /\ UNCHANGED <<lease, req, ex, turns, mem, reap, up, beating, recov>>
  BY DEF Delete, fleet, TurnInv
<1>2. run'[r].st = "deleted" /\ run'[r].old = FALSE /\ \A q \in Runs \ {r} : run'[q] = run[q]
  BY <1>0, <1>1 DEF Settle, Row
<1>3. (\A u \in Turns : step'[r][u] = "none") /\ \A q \in Runs \ {r} : step'[q] = step[q]
  BY <1>0, <1>1
<1>4. TurnLatest(r)'
  BY <1>1, <1>2, <1>3 DEF RunSettles, TurnLatest, Busy, Live
<1>5. StepOwned(r)' /\ MemBacked(r)'
  BY <1>2, <1>3 DEF StepOwned, MemBacked
<1>6. RowMarked(r)' /\ Apart(r)
  BY <1>1, <1>2, <1>3 DEF RunSettles, RowMarked, Apart
<1> QED BY <1>1, <1>4, <1>5, <1>6, TurnStep DEF RunSettles, Terminal

\* A durable lease is released or swept, or the execution lease of a deleted row is.
LEMMA LeaseGoes ==
    ASSUME TypeInv, TurnInv, NEW r \in Runs,
           \/ UNCHANGED mem /\ lease' = [lease EXCEPT ![r] = NoLease]
           \/ run[r].st = "deleted" /\ UNCHANGED lease /\ \E i \in Inst : completeExecutionLease(i, r),
           UNCHANGED <<run, step, req, ex, turns, reap, up, beating, recov>>
    PROVE  TurnInv'
<1>1. RunSettles(r)
  BY DEF TurnInv
<1>2. (lease'[r] = lease[r] \/ lease'[r] = NoLease) /\ \A q \in Runs \ {r} : lease'[q] = lease[q]
  BY DEF TypeInv, TypeOK
<1>3. \A j \in Inst : /\ run[r].st # "deleted" => (r \in mem'[j] <=> r \in mem[j])
                      /\ \A q \in Runs \ {r} : q \in mem'[j] <=> q \in mem[j]
  <2>1. CASE UNCHANGED mem
    BY <2>1
  <2>2. ASSUME NEW i \in Inst, completeExecutionLease(i, r), run[r].st = "deleted"
        PROVE  \A j \in Inst : \A q \in Runs \ {r} : q \in mem'[j] <=> q \in mem[j]
    BY <2>2, CompleteWrites
  <2> QED BY <2>1, <2>2
<1>4. TurnLatest(r)' /\ StepOwned(r)'
  BY <1>1 DEF RunSettles, TurnLatest, StepOwned, Busy, Live
<1>5. MemBacked(r)'
  BY <1>1, <1>3 DEF RunSettles, MemBacked, Live
<1>6. RowMarked(r)' /\ Apart(r)
  BY <1>1, <1>2, <1>3 DEF RunSettles, RowMarked, Apart, NoLease
<1> QED BY <1>4, <1>5, <1>6, TurnStep DEF RunSettles

\* Every step of the workload keeps the invariant.
LEMMA TurnNext ==
    ASSUME RouteWorkload, TypeInv, TurnInv, [Next]_vars
    PROVE  TurnInv'
<1>1. ASSUME NEW c \in Clients, Client(c) PROVE TurnInv'
  <2>1. ASSUME NEW i \in Inst, NEW r \in Runs, Submit(c, i, r) \/ Retry(c, i, r) PROVE TurnInv'
    <3>1. /\ run[r].st \in {"absent", "failed"} /\ run' = [run EXCEPT ![r] = Row("pending", None, FALSE)]
          /\ UNCHANGED <<lease, step, ex, turns, mem, reap, up, beating, recov>>
          /\ Request(c, i, r, "new", "deleted") \/ Request(c, i, r, "retry", "failed")
      BY <2>1 DEF Submit, Retry, CanRetry, NextRow, fleet
    <3> QED BY <3>1, PendingTurn
  <2>2. ~ \E i \in Inst, r \in Runs : FollowUp(c, i, r)
    BY DEF FollowUp, RouteWorkload
  <2> QED BY <1>1, <2>1, <2>2, AdmissionTurn DEF Client
<1>2. ASSUME NEW r \in Runs, Create(r) PROVE TurnInv'
  <2>1. /\ run[r].st = "absent" /\ run' = [run EXCEPT ![r] = Row("pending", None, FALSE)]
        /\ UNCHANGED <<lease, step, ex, turns, mem, reap, up, beating, recov, req>>
    BY <1>2 DEF Create, NextRow, fleet
  <2> QED BY <2>1, PendingTurn
<1>3. ASSUME NEW i \in Inst, NEW r \in Runs, Release(i, r) \/ SweepMem(i, r) \/ SweepLease(i, r) PROVE TurnInv'
  <2>1. /\ UNCHANGED <<run, step, req, ex, turns, reap, up, beating, recov>>
        /\ \/ UNCHANGED mem /\ lease' = [lease EXCEPT ![r] = NoLease]
           \/ run[r].st = "deleted" /\ UNCHANGED lease /\ completeExecutionLease(i, r)
    BY <1>3 DEF Release, SweepMem, SweepLease, rows, fleet
  <2> QED BY <2>1, LeaseGoes
<1>4. ASSUME NEW i \in Inst PROVE ~Crash(i) /\ ~Expire(i) /\ ~Boot(i) /\ ~ReapResolve(i)
  BY DEF RouteWorkload, Crash, Expire, Boot, ReapResolve, TurnInv, FleetUp
<1>5. ASSUME NEW j \in Inst, NEW r \in Runs PROVE ~ReapPick(j, r)
  <2>1. /\ run[r].old = FALSE /\ lease[r].old = FALSE
        /\ run[r].owner \in Inst \cup {None} /\ lease[r].owner \in Inst \cup {None}
        /\ lease[r].phase = "active" => lease[r].owner # None
    BY DEF TurnInv, RunSettles, RowMarked, TypeInv, TypeOK
  <2>2. \A i \in Inst : beating[i]
    BY DEF TurnInv, FleetUp
  <2> QED BY <2>1, <2>2, ConstantsOK DEF ReapPick, isLeaseOwnerDead, isInstanceOwnerDead
<1>6. ~RecoverScan /\ ~RecoverScanStale /\ \A r \in Runs : ~RecoverRun(r) /\ ~RecoverStale(r)
  BY DEF RecoverScan, RecoverScanStale, RecoverRun, RecoverStale, TurnInv, FleetUp, NoRecovery
<1>7. CASE UNCHANGED vars
  <2>1. UNCHANGED <<run, lease, step, req, ex, turns, mem, reap, up, beating, recov>>
    BY <1>7 DEF vars
  <2>2. \A q \in Runs : RunSettles(q)'
    BY <2>1 DEF TurnInv, RunSettles, TurnLatest, StepOwned, MemBacked, RowMarked, Busy, Live
  <2> QED BY <2>1, <2>2 DEF TurnInv, ReqWaits, FleetUp
<1> QED
  BY <1>1, <1>2, <1>3, <1>4, <1>5, <1>6, <1>7, AdmissionTurn, ExecutorTurn, CancelTurn, DeleteTurn
  DEF Next, Sweeper

\* An empty database and idle replicas satisfy it.
LEMMA TurnInit == Init => TurnInv
<1> SUFFICES ASSUME Init PROVE TurnInv
  OBVIOUS
<1>1. \A r \in Runs : RunSettles(r)
  BY DEF Init, RunSettles, TurnLatest, StepOwned, MemBacked, RowMarked, Busy, Live, Idle, Row, NoLease
<1> QED BY <1>1 DEF Init, TurnInv, ReqWaits, FleetUp, NoReq

\* A run row never hosts two CLI processes, although requests, promotions and
\* POST /runs/:id/execute race for it on every replica and a run that failed may be
\* retried elsewhere while its last turn is still cleaning up.
THEOREM RunsHostOneTurn ==
    ASSUME RouteWorkload
    PROVE  Spec => []OneTurnPerRun
<1>1. Init => TypeInv /\ TurnInv
  BY TypeInit, TurnInit
<1>2. TypeInv /\ TurnInv /\ [Next]_vars => TypeInv' /\ TurnInv'
  BY TypeNext, TurnNext
<1>3. TurnInv => OneTurnPerRun
  <2>1. TurnInv => \A r \in Runs, t \in Turns : ex[r][t].pc = "cli" => t = turns[r]
    BY DEF TurnInv, RunSettles, TurnLatest, Busy
  <2> QED BY <2>1 DEF OneTurnPerRun
<1> QED BY <1>1, <1>2, <1>3, PTL DEF Spec

\* No step of a settled run stays open: its executor will close it, or it is closed.
THEOREM StepsAreSettled ==
    ASSUME RouteWorkload
    PROVE  Spec => []StepsSettle
<1>1. Init => TypeInv /\ TurnInv
  BY TypeInit, TurnInit
<1>2. TypeInv /\ TurnInv /\ [Next]_vars => TypeInv' /\ TurnInv'
  BY TypeNext, TurnNext
<1>3. TurnInv => StepsSettle
  BY DEF TurnInv, RunSettles, StepOwned, StepsSettle
<1> QED BY <1>1, <1>2, <1>3, PTL DEF Spec

\* Every execution lease in the memory of a replica belongs to one of its executors,
\* or to a deleted row, whose lease the stale-lease sweeper completes.
THEOREM LeasesAreNotLeaked ==
    ASSUME RouteWorkload
    PROVE  Spec => []NoLeakedLease
<1>1. Init => TypeInv /\ TurnInv
  BY TypeInit, TurnInit
<1>2. TypeInv /\ TurnInv /\ [Next]_vars => TypeInv' /\ TurnInv'
  BY TypeNext, TurnNext
<1>3. TurnInv => NoLeakedLease
  BY DEF TurnInv, RunSettles, MemBacked, Live, NoLeakedLease
<1> QED BY <1>1, <1>2, <1>3, PTL DEF Spec
=============================================================================
