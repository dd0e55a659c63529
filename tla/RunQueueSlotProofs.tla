------------------------- MODULE RunQueueSlotProofs -------------------------
(***************************************************************************)
(* Slots and workspaces of the run queue, for every number of replicas,    *)
(* clients, runs and turns.                                                *)
(*                                                                         *)
(* The queue implements the slot pool as long as nothing goes through      *)
(* POST /runs/:id/execute: that handler activates the durable lease in a   *)
(* transaction of its own, after the capacity check. For the workload of   *)
(* the triggers, without restarts, every workspace is guarded by a lease,  *)
(* so that the pool bounds the CLI processes. With restarts a reaper never *)
(* touches an executor on a replica that has not restarted itself.         *)
(***************************************************************************)
EXTENDS RunQueueProofs

\* A row that was never inserted has no lease, and nobody is between the capacity
\* check of /execute and its activation.
SlotInv ==
    /\ \A r \in Runs : run[r].st = "absent" => lease[r].phase = "none"
    /\ \A r \in Runs, t \in Turns : ex[r][t].pc # "executing"

HoldsSlot(r) == run[r].st = "running" \/ (lease[r].phase = "active" /\ Exists(r))

\* Only run r's row and lease are written.
OnlyRun(r) ==
    \A q \in Runs \ {r} : run'[q].st = run[q].st /\ lease'[q].phase = lease[q].phase

\* There are finitely many runs.
LEMMA RunsFinite == IsFiniteSet(Runs)
<1>1. 1 \in Int /\ NumRuns \in Int
  BY ConstantsOK
<1>2. IsFiniteSet(1 .. NumRuns)
  BY <1>1, FS_Interval
<1> QED BY <1>2 DEF Runs

\* The slots held are finitely many.
LEMMA SlotsFinite == IsFiniteSet(Slots) /\ Cardinality(Slots) \in Nat
<1>1. Slots \subseteq Runs
  BY DEF Slots
<1>2. IsFiniteSet(Slots)
  BY <1>1, RunsFinite, FS_Subset
<1> QED BY <1>2, FS_CardinalityType

\* A replica counts at least the slots that every replica sees.
LEMMA FreeSlot ==
    ASSUME TypeOK, NEW i \in Inst, HasFreeSlot(i)
    PROVE  Cardinality(Slots) < MaxConcurrency
<1>1. IsFiniteSet(Runs)
  BY RunsFinite
<1>2. Occupied(i) \subseteq Runs
  BY DEF Occupied, TypeOK
<1>3. IsFiniteSet(Occupied(i))
  BY <1>1, <1>2, FS_Subset
<1>4. Slots \subseteq Occupied(i)
  BY DEF Slots, Occupied
<1>5. Cardinality(Slots) <= Cardinality(Occupied(i))
      /\ Cardinality(Slots) \in Nat /\ Cardinality(Occupied(i)) \in Nat
  BY <1>3, <1>4, FS_Subset, FS_CardinalityType
<1> QED BY <1>5, ConstantsOK DEF HasFreeSlot, countOccupiedRunSlots

\* The pool's own copy of Cardinality is the one of FiniteSets.
LEMMA PoolCardinality == \A S : Pool!Cardinality(S) = Cardinality(S)
BY DEF Cardinality, Pool!Cardinality

\* A step that writes one run, and lets it enter the pool only while some replica
\* sees a free slot, is a step of the pool.
LEMMA OneRunStep ==
    ASSUME TypeOK, NEW r \in Runs, OnlyRun(r),
           HoldsSlot(r)' => HoldsSlot(r) \/ \E i \in Inst : HasFreeSlot(i)
    PROVE  [Pool!Next]_Slots
<1>0. Slots = {q \in Runs : HoldsSlot(q)} /\ Slots' = {q \in Runs : HoldsSlot(q)'}
  BY DEF Slots, HoldsSlot
<1>1. \A q \in Runs \ {r} : HoldsSlot(q)' <=> HoldsSlot(q)
  BY DEF OnlyRun, HoldsSlot, Exists
<1>2. CASE HoldsSlot(r)' <=> HoldsSlot(r)
  BY <1>0, <1>1, <1>2
<1>3. CASE HoldsSlot(r) /\ ~HoldsSlot(r)'
  <2>1. r \in Slots /\ Slots' = Slots \ {r}
    BY <1>0, <1>1, <1>3
  <2> QED BY <2>1 DEF Pool!Next, Pool!Return
<1>4. CASE ~HoldsSlot(r) /\ HoldsSlot(r)'
  <2>1. r \in Runs \ Slots /\ Slots' = Slots \cup {r}
    BY <1>0, <1>1, <1>4
  <2>2. Cardinality(Slots) < MaxConcurrency
    BY <1>4, FreeSlot
  <2> QED BY <2>1, <2>2, PoolCardinality DEF Pool!Next, Pool!Take
<1> QED BY <1>2, <1>3, <1>4

\* Statuses and lease phases decide the slots: without a write to them nothing moves.
LEMMA SameRows ==
    ASSUME TypeOK, \A q \in Runs : run'[q].st = run[q].st /\ lease'[q].phase = lease[q].phase
    PROVE  UNCHANGED Slots
BY DEF Slots, Exists

\* The row and the lease of run r after a step that gives it no slot it had not.
Quiet(r) ==
    /\ run'[r].st = "running" => run[r].st = "running"
    /\ lease'[r].phase = "active" => lease[r].phase = "active"
    /\ run[r].st \in {"absent", "deleted"} =>
          run'[r].st \in {"absent", "deleted"} \/ lease'[r].phase = "none"

\* A step that puts no run into status running and activates no lease takes no slot.
LEMMA QuietStep ==
    ASSUME TypeOK, NEW r \in Runs, OnlyRun(r), Quiet(r)
    PROVE  [Pool!Next]_Slots
BY OneRunStep DEF Quiet, HoldsSlot, Exists

\* Only run r is written, it does not become absent again, and its lease is none
\* if it is absent.
LEMMA SlotInvStep ==
    ASSUME SlotInv, NEW r \in Runs, OnlyRun(r),
           run'[r].st = "absent" => lease'[r].phase = "none",
           \A q \in Runs, t \in Turns : ex'[q][t].pc # "executing"
    PROVE  SlotInv'
BY DEF SlotInv, OnlyRun

\* Executors that start or move to another place than "executing".
LEMMA NotExecuting ==
    ASSUME TypeInv, SlotInv, NEW r \in Runs, NEW t \in Turns, NEW pc \in Pcs \ {"executing"}
    PROVE  /\ Move(r, t, pc) => \A q \in Runs, u \in Turns : ex'[q][u].pc # "executing"
           /\ Stop(r, t) => \A q \in Runs, u \in Turns : ex'[q][u].pc # "executing"
           /\ \A i, back : CanHost(r) /\ StartTurn(i, r, pc, back) =>
                 \A q \in Runs, u \in Turns : ex'[q][u].pc # "executing"
<1>1. ex \in [Runs -> [Turns -> ExType]]
  BY DEF TypeInv, TypeOK, ExType
<1>2. ASSUME Move(r, t, pc) PROVE \A q \in Runs, u \in Turns : ex'[q][u].pc # "executing"
  <2>1. ex[r][t] \in ExType
    BY <1>1
  <2>2. [ex[r][t] EXCEPT !.pc = pc].pc = pc
    BY <2>1 DEF ExType
  <2>3. ex' = [ex EXCEPT ![r] = [ex[r] EXCEPT ![t] = [ex[r][t] EXCEPT !.pc = pc]]]
    BY <1>1, <1>2 DEF Move
  <2> QED BY <1>1, <2>2, <2>3 DEF SlotInv
<1>3. ASSUME NEW e, e.pc # "executing", NEW u \in Turns,
             ex' = [ex EXCEPT ![r] = [ex[r] EXCEPT ![u] = e]]
      PROVE  \A q \in Runs, v \in Turns : ex'[q][v].pc # "executing"
  BY <1>1, <1>3 DEF SlotInv
<1>4. Stop(r, t) => \A q \in Runs, u \in Turns : ex'[q][u].pc # "executing"
  BY <1>3 DEF Stop, Idle
<1>5. ASSUME NEW i, NEW back, CanHost(r), StartTurn(i, r, pc, back)
      PROVE  \A q \in Runs, u \in Turns : ex'[q][u].pc # "executing"
  <2>1. turns[r] + 1 \in Turns
    BY <1>5, ConstantsOK DEF TypeInv, TypeOK, CanHost, Turns
  <2> QED BY <1>3, <1>5, <2>1 DEF StartTurn
<1> QED BY <1>2, <1>4, <1>5

\* The goal for one action.
Safe == SlotInv' /\ [Pool!Next]_Slots

\* Queue admission takes a slot only if the replica that decides sees one free.
LEMMA AdmitSlot == ASSUME TypeInv, SlotInv, NEW c \in Clients, Admit(c) PROVE Safe
<1> DEFINE i == req[c].at  r == req[c].run
<1>1. i \in Inst /\ r \in Runs /\ req[c].prior \in Restorable
  BY DEF Admit, TypeInv, Grounded, ReqGrounded
<1>2. OnlyRun(r)
  <2>1. \E x : run' = [run EXCEPT ![r] = x]
    <3>1. UNCHANGED run => run' = [run EXCEPT ![r] = run[r]]
      BY DEF TypeInv, TypeOK
    <3> QED BY <3>1 DEF Admit, Settle
  <2>2. \E x : lease' = [lease EXCEPT ![r] = x]
    <3>1. UNCHANGED lease => lease' = [lease EXCEPT ![r] = lease[r]]
      BY DEF TypeInv, TypeOK
    <3> QED BY <3>1 DEF Admit
  <2> QED BY <1>1, <2>1, <2>2, RowWrites DEF OnlyRun, TypeInv
<1>3. ~UNCHANGED ex
        => /\ CanHost(r)
           /\ \E pc \in {"ready", "admitted"} : \E b : StartTurn(i, r, pc, b)
  BY DEF Admit
<1>4. \A q \in Runs, t \in Turns : ex'[q][t].pc # "executing"
  <2>1. CASE UNCHANGED ex
    BY <2>1 DEF SlotInv
  <2>2. CASE ~UNCHANGED ex
    <3>1. 1 \in Turns
      BY <1>1, <1>3, <2>2, ConstantsOK DEF CanHost, Turns, TypeInv, TypeOK
    <3> QED BY <1>1, <1>3, <2>2, <3>1, NotExecuting DEF Pcs
  <2> QED BY <2>1, <2>2
<1>5. run'[r].st = "absent" => lease'[r].phase = "none"
  <2>1. CASE \E o, ch : run' = [run EXCEPT ![r] = Row("running", o, ch)]
                       \/ run' = [run EXCEPT ![r] = Row("queued", o, ch)]
    BY <1>1, <2>1, RowWrites DEF Row, TypeInv
  <2>2. CASE Settle(r, "failed") \/ Settle(r, req[c].prior)
    BY <1>1, <2>2, RowWrites DEF TypeInv, Restorable, Terminal
  <2>3. CASE UNCHANGED <<run, lease>>
    BY <1>1, <2>3 DEF SlotInv
  <2> QED BY <2>1, <2>2, <2>3 DEF Admit, Claimed
<1>6. HasFreeSlot(i) \/ Quiet(r)
  <2>1. CASE ~HasFreeSlot(i) /\ Exists(r) /\ run' = [run EXCEPT ![r] = Row("queued", None, @.chat)]
             /\ lease' = [lease EXCEPT ![r] = IF Scm THEN reserved(lease[r]) ELSE lease[r]]
    <3>0. run'[r] = Row("queued", None, run[r].chat)
      BY <1>1, <2>1 DEF TypeInv, TypeOK
    <3>1. run'[r].st = "queued" /\ lease'[r] = IF Scm THEN reserved(lease[r]) ELSE lease[r]
      BY <1>1, <2>1, <3>0 DEF TypeInv, TypeOK, Row
    <3>2. lease'[r].phase = "active" => lease[r].phase = "active"
      BY <3>1 DEF reserved, NoLease
    <3> QED BY <2>1, <3>1, <3>2 DEF Quiet, Exists
  <2>2. CASE Exists(r) /\ Settle(r, req[c].prior) /\ UNCHANGED lease
    BY <1>1, <2>2, RowWrites DEF TypeInv, Quiet, Exists, Restorable, Terminal
  <2>3. CASE UNCHANGED <<run, lease>>
    BY <1>1, <2>3 DEF Quiet
  <2> QED BY <2>1, <2>2, <2>3 DEF Admit
<1>7. SlotInv'
  BY <1>1, <1>2, <1>4, <1>5, SlotInvStep
<1>8. [Pool!Next]_Slots
  BY <1>1, <1>2, <1>6, OneRunStep, QuietStep DEF TypeInv
<1> QED BY <1>7, <1>8 DEF Safe

\* An executor never takes a slot: it has one until its lease is released.
LEMMA ExecutorSlot ==
    ASSUME TypeInv, SlotInv, NEW i \in Inst, NEW r \in Runs, NEW t \in Turns, Executor(i, r, t)
    PROVE  Safe
<1>0. TypeOK /\ UNCHANGED lease
  BY DEF TypeInv, Executor, Prepare, PrepareFail, Persist, StartupFail, Finish, FinishDbFault, Complete,
         ActivateExecuted, ActivateFail, At, SlotInv, rows
<1>1. OnlyRun(r) /\ Quiet(r) /\ (run'[r].st = "absent" => run[r].st = "absent")
  <2>1. CASE Prepare(i, r, t)
    BY <1>0, <2>1, RowWrites DEF Prepare, OnlyRun, Quiet
  <2>2. ASSUME NEW o \in Terminal, PrepareFail(i, r, t, o)
        PROVE  OnlyRun(r) /\ Quiet(r) /\ (run'[r].st = "absent" => run[r].st = "absent")
    BY <1>0, <2>2, RowWrites DEF PrepareFail, Row, OnlyRun, Quiet
  <2>3. CASE StartupFail(i, r, t)
    <3>1. ex[r][t].back \in Restorable
      BY <2>3 DEF StartupFail, At, TypeInv, Grounded
    <3> QED BY <1>0, <2>3, <3>1, RowWrites DEF StartupFail, OnlyRun, Quiet, Exists, Restorable, Terminal
  <2>4. ASSUME NEW o \in Terminal, Finish(i, r, t, o)
        PROVE  OnlyRun(r) /\ Quiet(r) /\ (run'[r].st = "absent" => run[r].st = "absent")
    BY <1>0, <2>4, RowWrites DEF Finish, OnlyRun, Quiet
  <2>5. CASE UNCHANGED run
    BY <1>0, <2>5 DEF OnlyRun, Quiet
  <2>6. ~ActivateFail(i, r, t)
    BY DEF ActivateFail, At, SlotInv
  <2> QED BY <2>1, <2>2, <2>3, <2>4, <2>5, <2>6
          DEF Executor, Persist, FinishDbFault, Complete, ActivateExecuted, rows
<1>2. Stop(r, t) \/ Move(r, t, "cli") \/ Move(r, t, "cleanup")
  BY DEF Executor, Prepare, PrepareFail, Persist, StartupFail, Finish, FinishDbFault, Complete,
         ActivateExecuted, ActivateFail
<1>3. \A q \in Runs, u \in Turns : ex'[q][u].pc # "executing"
  BY <1>2, NotExecuting DEF Pcs
<1>4. SlotInv'
  BY <1>0, <1>1, <1>3, SlotInvStep DEF SlotInv
<1> QED BY <1>0, <1>1, <1>4, QuietStep DEF Safe

\* Every step keeps SlotInv and is a step of the pool.
LEMMA SlotNext ==
    ASSUME "execute" \notin Ops, TypeInv, SlotInv, [Next]_vars
    PROVE  Safe
<1>0. TypeOK
  BY DEF TypeInv
<1>t. run \in [Runs -> RunType] /\ lease \in [Runs -> LeaseType]
  BY <1>0 DEF TypeOK, RunType, LeaseType
<1>1. ASSUME NEW r \in Runs, OnlyRun(r), Quiet(r), UNCHANGED ex,
             run'[r].st = "absent" => lease'[r].phase = "none"
      PROVE  Safe
  BY <1>0, <1>1, QuietStep, SlotInvStep DEF Safe, SlotInv
<1>2. ASSUME \A q \in Runs : run'[q].st = run[q].st /\ lease'[q].phase = lease[q].phase,
             \A q \in Runs, t \in Turns : ex'[q][t].pc = ex[q][t].pc \/ ex'[q][t].pc = "none"
      PROVE  Safe
  BY <1>0, <1>2, SameRows DEF Safe, SlotInv
<1>3. ASSUME NEW c \in Clients, Client(c) PROVE Safe
  <2>1. ASSUME NEW i \in Inst, NEW r \in Runs, Submit(c, i, r) PROVE Safe
    <3>1. OnlyRun(r) /\ run'[r].st = "pending" /\ lease' = lease /\ lease[r].phase = "none"
      BY <1>t, <2>1 DEF Submit, NextRow, OnlyRun, Row, SlotInv
    <3> QED BY <1>1, <2>1, <3>1 DEF Submit, Quiet
  <2>2. ASSUME NEW i \in Inst, NEW r \in Runs, Retry(c, i, r) PROVE Safe
    <3>1. OnlyRun(r) /\ run'[r].st = "pending" /\ run[r].st = "failed" /\ lease' = lease
      BY <1>t, <2>2 DEF Retry, CanRetry, OnlyRun, Row
    <3> QED BY <1>1, <2>2, <3>1 DEF Retry, Quiet
  <2>3. ASSUME NEW i \in Inst, NEW r \in Runs, FollowUp(c, i, r) PROVE Safe
    BY <1>0, <1>2, <2>3, RowWrites DEF FollowUp
  <2> QED BY <1>3, <2>1, <2>2, <2>3, AdmitSlot DEF Client
<1>4. ASSUME NEW i \in Inst, NEW r \in Runs, Promote(i, r) PROVE Safe
  <2>1. run'[r].st = "running" /\ OnlyRun(r)
    BY <1>t, <1>4 DEF Promote, Claimed, Row, OnlyRun
  <2>2. 1 \in Turns
    BY <1>0, <1>4, ConstantsOK DEF Promote, CanHost, Turns, TypeOK
  <2>3. \A q \in Runs, t \in Turns : ex'[q][t].pc # "executing"
    BY <1>4, <2>2, NotExecuting DEF Promote, Pcs
  <2>4. [Pool!Next]_Slots
    BY <1>0, <1>4, <2>1, OneRunStep DEF Promote
  <2> QED BY <2>1, <2>3, <2>4, SlotInvStep DEF Safe
<1>5. ASSUME NEW i \in Inst, NEW r \in Runs, Release(i, r) PROVE Safe
  BY <1>t, <1>1, <1>5 DEF Release, OnlyRun, Quiet, NoLease
<1>6. ASSUME NEW r \in Runs, Create(r) PROVE Safe
  <2>1. OnlyRun(r) /\ run'[r].st = "pending" /\ lease' = lease /\ lease[r].phase = "none"
    BY <1>t, <1>6 DEF Create, NextRow, OnlyRun, Row, SlotInv
  <2> QED BY <1>1, <1>6, <2>1 DEF Create, Quiet
<1>7. ASSUME NEW r \in Runs, Cancel(r) PROVE Safe
  <2>1. run'[r].st = "cancelled" /\ run[r].st \in {"queued", "running"}
        /\ \A q \in Runs \ {r} : run'[q] = run[q]
    BY <1>0, <1>7, RowWrites DEF Cancel
  <2>2. (lease'[r].phase = "active" => lease[r].phase = "active")
        /\ \A q \in Runs \ {r} : lease'[q] = lease[q]
    BY <1>0, <1>7, RowWrites DEF Cancel, NoLease
  <2> QED BY <1>1, <1>7, <2>1, <2>2 DEF Cancel, OnlyRun, Quiet
<1>8. ASSUME NEW r \in Runs, Delete(r) PROVE Safe
  BY <1>0, <1>1, <1>8, RowWrites DEF Delete, OnlyRun, Quiet
<1>9. ASSUME NEW r \in Runs, RecoverRun(r) \/ RecoverStale(r) PROVE Safe
  <2>1. lease'[r].phase = "none" /\ \A q \in Runs \ {r} : lease'[q] = lease[q]
    <3>1. lease' = [lease EXCEPT ![r] = NoLease]
      BY <1>9 DEF RecoverRun, RecoverStale
    <3> QED BY <1>t, <3>1 DEF NoLease
  <2>2. (run'[r].st \in {"queued", "failed"} \/ run' = run) /\ \A q \in Runs \ {r} : run'[q] = run[q]
    <3>1. CASE Settle(r, "failed")
      BY <1>0, <3>1, RowWrites
    <3> QED BY <1>t, <1>9, <3>1 DEF RecoverRun, RecoverStale, Row
  <2> QED BY <1>1, <1>9, <2>1, <2>2 DEF RecoverRun, RecoverStale, OnlyRun, Quiet
<1>10. ASSUME NEW j \in Inst, Sweeper(j) PROVE Safe
  <2>1. ASSUME ReapResolve(j) PROVE Safe
    <3>1. CASE UNCHANGED run
      BY <1>2, <2>1, <3>1 DEF ReapResolve
    <3>2. CASE reap[j].run \in Runs /\ ~UNCHANGED run
      <4> DEFINE r == reap[j].run
      <4>1. run[r].st \in {"running", "pending", "queued"}
        BY <2>1, <3>2 DEF ReapResolve, Reapable
      <4>2. run'[r].st \in {"queued", "failed"} /\ \A q \in Runs \ {r} : run'[q] = run[q]
        <5>1. CASE Settle(r, "failed")
          BY <1>0, <3>2, <5>1, RowWrites
        <5> QED BY <1>t, <2>1, <3>2, <5>1 DEF ReapResolve, Row
      <4> QED BY <1>1, <2>1, <3>2, <4>1, <4>2 DEF ReapResolve, OnlyRun, Quiet
    <3>3. CASE reap[j].run \notin Runs
      <4>1. \A x : [run EXCEPT ![reap[j].run] = x] = run
        BY <1>t, <3>3
      <4> QED BY <2>1, <3>1, <4>1 DEF ReapResolve, Settle
    <3> QED BY <3>1, <3>2, <3>3
  <2>2. ASSUME NEW r \in Runs, SweepMem(j, r) \/ ReapPick(j, r) PROVE Safe
    BY <1>2, <2>2 DEF SweepMem, ReapPick, rows, others
  <2>3. ASSUME NEW r \in Runs, SweepLease(j, r) PROVE Safe
    BY <1>t, <1>1, <2>3 DEF SweepLease, OnlyRun, Quiet, NoLease
  <2> QED BY <1>10, <2>1, <2>2, <2>3 DEF Sweeper
<1>11. ASSUME NEW i \in Inst, Crash(i) PROVE Safe
  BY <1>2, <1>11 DEF Crash, rows, Idle
<1>12. ASSUME NEW i \in Inst, Boot(i) PROVE Safe
  <2>1. \A q \in Runs : run'[q].st = run[q].st /\ lease'[q].phase = lease[q].phase
    BY <1>0, <1>12 DEF Boot, TypeOK
  <2> QED BY <1>2, <1>12, <2>1 DEF Boot
<1>13. ASSUME NEW i \in Inst, Expire(i) PROVE Safe
  BY <1>2, <1>13 DEF Expire, others
<1>14. RecoverScan \/ RecoverScanStale \/ UNCHANGED vars => Safe
  BY <1>2 DEF RecoverScan, RecoverScanStale, others, vars
<1>15. ~ \E i \in Inst, r \in Runs : Execute(i, r)
  BY DEF Execute
<1> QED
  BY <1>3, <1>4, <1>5, <1>6, <1>7, <1>8, <1>9, <1>10, <1>11, <1>12, <1>13, <1>14, <1>15, ExecutorSlot
  DEF Next

\* Before the first request no slot is held.
LEMMA SlotInit == Init => SlotInv /\ Pool!Init
BY DEF Init, SlotInv, Row, NoLease, Idle, Pool!Init, Slots, Exists

\* Without POST /runs/:id/execute the queue implements the slot pool: however
\* admissions, promotions, retries, follow-up turns, cancellations, reapers,
\* crashes and restarts interleave over the replicas, a run enters the agent's
\* slots only while fewer than maxConcurrency are taken.
THEOREM QueueImplementsSlotPool ==
    ASSUME "execute" \notin Ops
    PROVE  Spec => ImplementsSlotPool
<1>1. Init => TypeInv /\ SlotInv /\ Pool!Init
  BY TypeInit, SlotInit
<1>2. TypeInv /\ SlotInv /\ [Next]_vars => TypeInv' /\ SlotInv' /\ [Pool!Next]_Slots
  BY TypeNext, SlotNext DEF Safe
<1> QED BY <1>1, <1>2, PTL DEF Spec, ImplementsSlotPool, Pool!Spec

-----------------------------------------------------------------------------
(* The workspaces, for the workload of the triggers: rows are submitted and *)
(* cancelled, replicas crash and do not come back under the same instance   *)
(* id, and reapers and sweepers clean up after them. Retention deletes rows *)
(* of agents that take no SCM lease.                                        *)

\* A live turn is the latest of its run and runs on a replica that is up. The row
\* is running and owned by that replica, or was settled: by a cancellation at any
\* time, by the turn itself once it is cleaning up, or by retention.
TurnOwned(r) ==
    \A t \in Turns : Live(r, t) =>
        /\ t = turns[r]
        /\ ex[r][t].pc \in {"admitted", "ready", "cli", "cleanup"}
        /\ ex[r][t].pc = "admitted" => ex[r][t].back = "deleted"
        /\ ex[r][t].at \in Inst /\ up[ex[r][t].at]
        /\ \/ run[r].st = "running" /\ run[r].owner = ex[r][t].at /\ ex[r][t].pc # "cleanup"
           \/ run[r].st = "cancelled"
           \/ run[r].st \in Terminal /\ ex[r][t].pc = "cleanup"
           \/ run[r].st = "deleted" /\ ~Scm

\* In an SCM agent it is registered in its replica and holds the durable lease.
TurnLeased(r) ==
    \A t \in Turns : Scm /\ Live(r, t) =>
        /\ r \in mem[ex[r][t].at]
        /\ lease[r].phase = "active" /\ lease[r].owner = ex[r][t].at

\* An execution lease has its executor.
LeaseBacked(r) ==
    \A i \in Inst : r \in mem[i] => \E t \in Turns : Live(r, t) /\ ex[r][t].at = i

\* A durable release is in flight only for a settled run whose turn is over.
ReleaseLate(r) ==
    \A i \in Inst : r \in settling[i] =>
        /\ run[r].st \in Restorable
        /\ Scm => \A t \in Turns : ~Live(r, t)

\* The lease row that goes with a status, and no mark of an earlier boot.
RowReserved(r) ==
    /\ run[r].st \in {"absent", "pending"} => lease[r].phase = "none"
    /\ Scm /\ run[r].st \in {"queued", "running"} => lease[r].phase # "none"
    /\ run[r].old = FALSE /\ lease[r].old = FALSE
    /\ lease[r].phase = "active" => lease[r].owner # None

RunOwned(r) == TurnOwned(r) /\ TurnLeased(r) /\ LeaseBacked(r) /\ ReleaseLate(r) /\ RowReserved(r)

\* A request is the one that inserted its row, which waits for it.
ReqFresh(c) ==
    req[c].kind # "none" =>
        /\ req[c].kind = "new" /\ req[c].prior = "deleted"
        /\ run[req[c].run].st = "pending"
        /\ \A d \in Clients : req[d].kind # "none" /\ req[d].run = req[c].run => d = c

RequestsFresh == \A c \in Clients : ReqFresh(c)

\* A reaper's candidate was owned by a replica that is dead for good.
ReapDead(j) ==
    reap[j] # NoReap =>
        /\ reap[j].run \in Runs /\ reap[j].owner \in Inst
        /\ ~beating[reap[j].owner]
        /\ run[reap[j].run].st \notin {"absent", "pending"}

FleetAlive == recov = NoRecovery /\ \A i \in Inst : up[i] => beating[i]

OwnInv ==
    /\ \A r \in Runs : RunOwned(r)
    /\ \A c \in Clients : ReqFresh(c)
    /\ \A j \in Inst : ReapDead(j)
    /\ FleetAlive

\* The step writes nothing of the other runs.
Others(r) ==
    \A q \in Runs \ {r} :
        /\ run'[q] = run[q] /\ lease'[q] = lease[q] /\ ex'[q] = ex[q] /\ turns'[q] = turns[q]
        /\ \A i \in Inst : (q \in mem'[i] <=> q \in mem[i]) /\ (q \in settling'[i] <=> q \in settling[i])

\* What is known of a run is kept by a step that does not write it.
LEMMA OthersOwned ==
    ASSUME OwnInv, NEW r \in Runs, Others(r), UNCHANGED up
    PROVE  \A q \in Runs \ {r} : RunOwned(q)'
<1> SUFFICES ASSUME NEW q \in Runs \ {r} PROVE RunOwned(q)'
  OBVIOUS
<1>1. RunOwned(q)
  BY DEF OwnInv
<1>2. /\ run'[q] = run[q] /\ lease'[q] = lease[q] /\ ex'[q] = ex[q] /\ turns'[q] = turns[q] /\ up' = up
      /\ \A i \in Inst : (q \in mem'[i] <=> q \in mem[i]) /\ (q \in settling'[i] <=> q \in settling[i])
  BY DEF Others
<1>3. TurnOwned(q)'
  BY <1>1, <1>2 DEF RunOwned, TurnOwned, Live
<1>4. TurnLeased(q)'
  BY <1>1, <1>2 DEF RunOwned, TurnOwned, TurnLeased, Live
<1>5. LeaseBacked(q)' /\ ReleaseLate(q)' /\ RowReserved(q)'
  BY <1>1, <1>2 DEF RunOwned, LeaseBacked, ReleaseLate, RowReserved, Live
<1> QED BY <1>3, <1>4, <1>5 DEF RunOwned

\* A step of one run that was past its admission and stays past it.
LEMMA OwnStep ==
    ASSUME TypeInv, OwnInv, NEW r \in Runs, Others(r), UNCHANGED <<req, reap, up, beating, recov>>,
           \/ run'[r].st = run[r].st
           \/ run[r].st \notin {"absent", "pending"} /\ run'[r].st \notin {"absent", "pending"},
           RunOwned(r)'
    PROVE  OwnInv'
<1>1. \A q \in Runs : RunOwned(q)'
  BY OthersOwned
<1>2. \A q \in Runs : \/ run'[q].st = run[q].st
                      \/ run[q].st \notin {"absent", "pending"} /\ run'[q].st \notin {"absent", "pending"}
  BY DEF Others
<1>3. \A c \in Clients : ReqFresh(c)'
  <2> SUFFICES ASSUME NEW c \in Clients PROVE ReqFresh(c)'
    OBVIOUS
  <2>1. ReqFresh(c) /\ (req[c].kind # "none" => req[c].run \in Runs)
    BY DEF OwnInv, TypeInv, Grounded, ReqGrounded
  <2> QED BY <1>2, <2>1 DEF ReqFresh
<1>4. \A j \in Inst : ReapDead(j)'
  BY <1>2 DEF OwnInv, ReapDead
<1> QED BY <1>1, <1>3, <1>4 DEF OwnInv, FleetAlive


\* The workload these theorems are about.
TriggerWorkload ==
    /\ Ops \subseteq {"submit", "create", "cancel", "crash", "delete"}
    /\ "delete" \in Ops => ~Scm
    /\ MaxBoots = 0

\* A turn ends on a settled row and completes its execution lease.
LEMMA TurnEnds ==
    ASSUME TypeInv, OwnInv, NEW i \in Inst, NEW r \in Runs, NEW t \in Turns,
           Live(r, t), ex[r][t].at = i, Stop(r, t), completeExecutionLease(i, r),
           run'[r].st \in Restorable, run'[r].old = FALSE,
           run[r].st \in {"running"} \cup Restorable,
           \A q \in Runs \ {r} : run'[q] = run[q],
           UNCHANGED <<lease, turns, req, reap, up, beating, recov>>
    PROVE  OwnInv'
<1>1. RunOwned(r) /\ r \in Runs
  BY DEF OwnInv
<1>2. /\ ex'[r][t] = Idle
      /\ \A u \in Turns \ {t} : ex'[r][u] = ex[r][u]
      /\ \A q \in Runs \ {r} : ex'[q] = ex[q]
  BY ExWrites
<1>3. \A u \in Turns : ~Live(r, u)'
  <2>1. \A u \in Turns \ {t} : ~Live(r, u)
    BY <1>1 DEF RunOwned, TurnOwned
  <2> QED BY <1>2, <2>1 DEF Live, Idle
<1>4. /\ r \notin mem'[i]
      /\ \A j \in Inst \ {i} : mem'[j] = mem[j] /\ settling'[j] = settling[j]
      /\ \A q \in Runs \ {r} : (q \in mem'[i] <=> q \in mem[i]) /\ (q \in settling'[i] <=> q \in settling[i])
  BY CompleteWrites
<1>5. \A j \in Inst : r \notin mem'[j]
  BY <1>1, <1>4 DEF RunOwned, LeaseBacked, TurnOwned
<1>6. Others(r)
  BY <1>2, <1>4 DEF Others
<1>7. RowReserved(r)'
  BY <1>1 DEF RunOwned, RowReserved, Restorable, Terminal
<1>8. RunOwned(r)'
  BY <1>3, <1>5, <1>7 DEF RunOwned, TurnOwned, TurnLeased, LeaseBacked, ReleaseLate
<1> QED BY <1>6, <1>8, OwnStep DEF Restorable, Terminal

\* A turn moves on and keeps its leases.
LEMMA TurnMoves ==
    ASSUME TypeInv, OwnInv, NEW i \in Inst, NEW r \in Runs, NEW t \in Turns, NEW pc \in {"cli", "cleanup"},
           Live(r, t), ex[r][t].at = i, ex[r][t].pc # "cleanup", Move(r, t, pc),
           run[r].st \in {"running"} \cup Restorable,
           \/ /\ run'[r].st = run[r].st /\ run'[r].owner = run[r].owner
              /\ pc = "cleanup" => run[r].st = "cancelled"
           \/ run[r].st = "running" /\ run'[r].st \in Terminal /\ pc = "cleanup",
           run'[r].old = FALSE,
           \A q \in Runs \ {r} : run'[q] = run[q],
           UNCHANGED <<lease, turns, mem, settling, req, reap, up, beating, recov>>
    PROVE  OwnInv'
<1>1. RunOwned(r)
  BY DEF OwnInv
<1>2. /\ ex'[r][t].pc = pc /\ ex'[r][t].at = i /\ ex'[r][t].back = ex[r][t].back
      /\ \A u \in Turns \ {t} : ex'[r][u] = ex[r][u]
      /\ \A q \in Runs \ {r} : ex'[q] = ex[q]
  BY ExWrites
<1>3. \A u \in Turns : Live(r, u)' <=> u = t
  <2>1. \A u \in Turns \ {t} : ~Live(r, u)
    BY <1>1 DEF RunOwned, TurnOwned
  <2> QED BY <1>2, <2>1 DEF Live
<1>4. Others(r)
  BY <1>2 DEF Others
<1>5. TurnOwned(r)'
  <2>1. /\ t = turns'[r] /\ ex'[r][t].pc \in {"admitted", "ready", "cli", "cleanup"}
        /\ ex'[r][t].pc # "admitted" /\ ex'[r][t].at \in Inst /\ up'[ex'[r][t].at]
    BY <1>1, <1>2 DEF RunOwned, TurnOwned
  <2>2. \/ run'[r].st = "running" /\ run'[r].owner = ex'[r][t].at /\ ex'[r][t].pc # "cleanup"
        \/ run'[r].st = "cancelled"
        \/ run'[r].st \in Terminal /\ ex'[r][t].pc = "cleanup"
        \/ run'[r].st = "deleted" /\ ~Scm
    BY <1>1, <1>2 DEF RunOwned, TurnOwned
  <2> QED BY <1>3, <2>1, <2>2 DEF TurnOwned
<1>6. TurnLeased(r)'
  BY <1>1, <1>2, <1>3 DEF RunOwned, TurnLeased
<1>7. LeaseBacked(r)'
  <2>1. \A j \in Inst : r \in mem[j] => j = i
    BY <1>1 DEF RunOwned, LeaseBacked, TurnOwned
  <2> QED BY <1>2, <1>3, <2>1 DEF LeaseBacked
<1>8. ReleaseLate(r)'
  BY <1>1, <1>2, <1>3 DEF RunOwned, ReleaseLate, TurnOwned, Restorable
<1>9. RowReserved(r)'
  BY <1>1 DEF RunOwned, RowReserved, Restorable, Terminal
<1>10. RunOwned(r)'
  BY <1>5, <1>6, <1>7, <1>8, <1>9 DEF RunOwned
<1> QED BY <1>4, <1>10, OwnStep DEF Restorable, Terminal

\* What an executor that takes a step finds: its row is running or settled.
LEMMA ExecutorFinds ==
    ASSUME TypeInv, OwnInv, NEW i \in Inst, NEW r \in Runs, NEW t \in Turns, Live(r, t), ex[r][t].at = i
    PROVE  /\ run[r].st \in {"running"} \cup Restorable
           /\ ex[r][t].pc # "executing" /\ (ex[r][t].pc = "admitted" => ex[r][t].back = "deleted")
           /\ ex[r][t].pc # "cleanup" => run[r].st \in {"running", "cancelled", "deleted"}
           /\ ex[r][t].pc = "cleanup" => run[r].st \in Restorable
           /\ run[r].old = FALSE
<1>1. RunOwned(r)
  BY DEF OwnInv
<1> QED BY <1>1 DEF RunOwned, TurnOwned, RowReserved, Restorable, Terminal

\* An executor's step keeps its run owned, whatever happened to the row meanwhile.
LEMMA ExecutorOwn ==
    ASSUME TriggerWorkload, TypeInv, OwnInv, NEW i \in Inst, NEW r \in Runs, NEW t \in Turns,
           Executor(i, r, t)
    PROVE  OwnInv'
<1>0. /\ TypeOK /\ run \in [Runs -> RunType]
      /\ UNCHANGED <<req, turns, reap, up, beating, recov>>
  BY DEF TypeInv, TypeOK, RunType, Executor, Prepare, PrepareFail, Persist, StartupFail, Finish, FinishDbFault,
         Complete, ActivateExecuted, ActivateFail, fleet
<1>1. Live(r, t) /\ ex[r][t].at = i
  BY DEF Live, At, Executor, Prepare, PrepareFail, Persist, StartupFail, Finish, FinishDbFault, Complete,
         ActivateExecuted, ActivateFail
<1>2. /\ run[r].st \in {"running"} \cup Restorable
      /\ ex[r][t].pc # "executing" /\ (ex[r][t].pc = "admitted" => ex[r][t].back = "deleted")
      /\ ex[r][t].pc # "cleanup" => run[r].st \in {"running", "cancelled", "deleted"}
      /\ ex[r][t].pc = "cleanup" => run[r].st \in Restorable
      /\ run[r].old = FALSE
  BY <1>1, ExecutorFinds
<1>s. ASSUME NEW st, Settle(r, st)
      PROVE  run'[r].st = st /\ run'[r].old = FALSE /\ run'[r].owner = run[r].owner
             /\ \A q \in Runs \ {r} : run'[q] = run[q]
  BY <1>0, <1>s DEF Settle, Row
<1>u. UNCHANGED run => run'[r].st = run[r].st /\ run'[r].owner = run[r].owner /\ run'[r].old = FALSE
                       /\ \A q \in Runs \ {r} : run'[q] = run[q]
  BY <1>2
<1>3. CASE Prepare(i, r, t)
  <2>1. ex[r][t].pc = "ready" /\ UNCHANGED lease
    BY <1>3 DEF Prepare, At
  <2>2. CASE run[r].st = "running" /\ run' = [run EXCEPT ![r].old = FALSE]
             /\ Move(r, t, "cli") /\ UNCHANGED <<mem, settling>>
    <3>1. run'[r].st = run[r].st /\ run'[r].owner = run[r].owner /\ run'[r].old = FALSE
          /\ \A q \in Runs \ {r} : run'[q] = run[q]
      BY <1>0, <2>2 DEF RunType
    <3> QED BY <1>0, <1>1, <1>2, <2>1, <2>2, <3>1, TurnMoves
  <2>3. CASE run[r].st # "running" /\ Stop(r, t) /\ completeExecutionLease(i, r) /\ UNCHANGED run
    BY <1>0, <1>1, <1>2, <1>u, <2>1, <2>3, TurnEnds
  <2> QED BY <1>3, <2>2, <2>3 DEF Prepare, SkipExecution
<1>4. ASSUME NEW o, PrepareFail(i, r, t, o) PROVE OwnInv'
  <2>1. Stop(r, t) /\ completeExecutionLease(i, r) /\ UNCHANGED lease
    BY <1>4 DEF PrepareFail
  <2>2. run'[r].st \in Restorable /\ run'[r].old = FALSE /\ \A q \in Runs \ {r} : run'[q] = run[q]
    <3>1. CASE run' = [run EXCEPT ![r] = Row(o, @.owner, FALSE)] /\ o \in {"failed", "cancelled"}
      BY <1>0, <3>1 DEF Row, Restorable, Terminal
    <3>2. CASE run[r].st # "running" /\ UNCHANGED run
      BY <1>2, <1>u, <3>2
    <3> QED BY <1>4, <3>1, <3>2 DEF PrepareFail
  <2> QED BY <1>0, <1>1, <1>2, <2>1, <2>2, TurnEnds
<1>5. CASE Persist(i, r, t)
  <2>1. Move(r, t, "cli") /\ ex[r][t].pc = "admitted" /\ UNCHANGED <<run, lease, mem, settling>>
    BY <1>5 DEF Persist, At
  <2> QED BY <1>0, <1>1, <1>2, <1>u, <2>1, TurnMoves
<1>6. CASE StartupFail(i, r, t)
  <2>1. Stop(r, t) /\ completeExecutionLease(i, r) /\ UNCHANGED lease /\ ex[r][t].back = "deleted"
    BY <1>2, <1>6 DEF StartupFail, At
  <2>2. run'[r].st \in Restorable /\ run'[r].old = FALSE /\ \A q \in Runs \ {r} : run'[q] = run[q]
    BY <1>2, <1>6, <1>s, <1>u, <2>1 DEF StartupFail, Exists, Restorable
  <2> QED BY <1>0, <1>1, <1>2, <2>1, <2>2, TurnEnds
<1>7. ASSUME NEW o, Finish(i, r, t, o) PROVE OwnInv'
  <2>1. ex[r][t].pc = "cli" /\ UNCHANGED lease /\ o \in Terminal
    BY <1>7 DEF Finish, At, Terminal
  <2>2. CASE run[r].st = "running" /\ Settle(r, IF step[r][t] = "running" THEN o ELSE "failed")
             /\ Move(r, t, "cleanup") /\ UNCHANGED <<mem, settling>>
    <3>1. run'[r].st \in Terminal /\ run'[r].old = FALSE /\ \A q \in Runs \ {r} : run'[q] = run[q]
      BY <1>s, <2>1, <2>2 DEF Terminal
    <3> QED BY <1>0, <1>1, <1>2, <2>1, <2>2, <3>1, TurnMoves
  <2>3. CASE run[r].st = "cancelled" /\ Move(r, t, "cleanup") /\ UNCHANGED <<run, mem, settling>>
    BY <1>0, <1>1, <1>2, <1>u, <2>1, <2>3, TurnMoves
  <2>4. CASE run[r].st = "deleted" /\ Stop(r, t) /\ completeExecutionLease(i, r) /\ UNCHANGED run
    BY <1>0, <1>1, <1>2, <1>u, <2>1, <2>4, TurnEnds DEF Restorable
  <2> QED BY <1>2, <1>7, <2>1, <2>2, <2>3, <2>4 DEF Finish
<1>8. CASE Complete(i, r, t)
  <2>1. Stop(r, t) /\ completeExecutionLease(i, r) /\ ex[r][t].pc = "cleanup" /\ UNCHANGED <<run, lease>>
    BY <1>8 DEF Complete, At, rows
  <2> QED BY <1>0, <1>1, <1>2, <1>u, <2>1, TurnEnds
<1>9. ~ActivateExecuted(i, r, t) /\ ~ActivateFail(i, r, t) /\ ~FinishDbFault(i, r, t)
  BY <1>2 DEF ActivateExecuted, ActivateFail, FinishDbFault, At, TriggerWorkload
<1> QED BY <1>3, <1>4, <1>5, <1>6, <1>7, <1>8, <1>9 DEF Executor

\* Run r is claimed by replica i and its durable lease, if any, activated there.
ClaimedBy(i, r) ==
    /\ run'[r].st = "running" /\ run'[r].owner = i /\ run'[r].old = FALSE
    /\ \A q \in Runs \ {r} : run'[q] = run[q] /\ lease'[q] = lease[q]
    /\ Scm => lease'[r].phase = "active" /\ lease'[r].owner = i
    /\ lease'[r].phase = "active" => lease'[r].owner = i
    /\ lease'[r].old = FALSE

\* What the transaction of a claim leaves behind.
LEMMA ClaimWrites ==
    ASSUME TypeInv, NEW i \in Inst, NEW r \in Runs, NEW l \in LeaseType, CanActivate(i, l),
           l.old = FALSE, Scm => l.phase # "none",
           run' = [run EXCEPT ![r] = Claimed(i, @.chat)],
           lease' = [lease EXCEPT ![r] = activated(i, l)]
    PROVE  ClaimedBy(i, r)
<1>2. /\ run'[r].st = "running" /\ run'[r].owner = i /\ run'[r].old = FALSE
      /\ \A q \in Runs \ {r} : run'[q] = run[q]
  BY DEF TypeInv, TypeOK, Claimed, Row
<1>3. lease'[r] = activated(i, l) /\ \A q \in Runs \ {r} : lease'[q] = lease[q]
  BY DEF TypeInv, TypeOK
<1>4. /\ Scm => lease'[r].phase = "active" /\ lease'[r].owner = i
      /\ lease'[r].phase = "active" => lease'[r].owner = i
      /\ lease'[r].old = FALSE
  BY <1>3 DEF activated, CanActivate, LeaseType
<1> QED BY <1>2, <1>3, <1>4 DEF ClaimedBy

\* A run without a live turn is claimed and a turn started on the claiming replica.
LEMMA TurnStarts ==
    ASSUME TypeInv, OwnInv, NEW i \in Inst, NEW r \in Runs, NEW pc \in {"admitted", "ready"}, NEW back,
           run[r].st \in {"pending", "queued"}, up[i], CanHost(r),
           pc = "admitted" => back = "deleted",
           ClaimedBy(i, r), StartTurn(i, r, pc, back), UNCHANGED <<up, settling>>
    PROVE  Others(r) /\ RunOwned(r)' /\ run'[r].st = "running"
<1>1. RunOwned(r)
  BY DEF OwnInv
<1>2. /\ run'[r].st = "running" /\ run'[r].owner = i /\ run'[r].old = FALSE
      /\ \A q \in Runs \ {r} : run'[q] = run[q] /\ lease'[q] = lease[q]
  BY DEF ClaimedBy
<1>4. /\ Scm => lease'[r].phase = "active" /\ lease'[r].owner = i
      /\ lease'[r].phase = "active" => lease'[r].owner = i
      /\ lease'[r].old = FALSE
  BY DEF ClaimedBy
<1>5. PICK t \in Turns : t = turns[r] + 1
  BY ConstantsOK DEF TypeInv, TypeOK, CanHost, Turns
<1>6. /\ ex'[r][t] = [pc |-> pc, at |-> i, back |-> back]
      /\ \A u \in Turns \ {t} : ex'[r][u] = ex[r][u]
      /\ \A q \in Runs \ {r} : ex'[q] = ex[q] /\ turns'[q] = turns[q]
      /\ turns'[r] = t
      /\ r \in mem'[i]
      /\ \A j \in Inst : \A q \in Runs : q # r \/ j # i => (q \in mem'[j] <=> q \in mem[j])
  BY <1>5, ExWrites
<1>7. \A u \in Turns : ~Live(r, u)
  BY <1>1 DEF RunOwned, TurnOwned, Terminal
<1>8. \A u \in Turns : Live(r, u)' <=> u = t
  <2>1. Live(r, t)'
    BY <1>6 DEF Live
  <2>2. \A u \in Turns \ {t} : ~Live(r, u)'
    BY <1>6, <1>7 DEF Live
  <2> QED BY <1>5, <2>1, <2>2
<1>9. Others(r)
  BY <1>2, <1>6 DEF Others
<1>10. TurnOwned(r)'
  BY <1>2, <1>6, <1>8 DEF TurnOwned
<1>11. TurnLeased(r)'
  BY <1>4, <1>6, <1>8 DEF TurnLeased
<1>12. LeaseBacked(r)'
  <2>1. \A j \in Inst : r \in mem'[j] => j = i
    BY <1>1, <1>6, <1>7 DEF RunOwned, LeaseBacked
  <2> QED BY <1>5, <1>6, <1>8, <2>1 DEF LeaseBacked
<1>13. ReleaseLate(r)'
  BY <1>1 DEF RunOwned, ReleaseLate, Restorable, Terminal
<1>14. RowReserved(r)'
  BY <1>2, <1>4, ConstantsOK DEF RowReserved
<1> QED BY <1>2, <1>9, <1>10, <1>11, <1>12, <1>13, <1>14 DEF RunOwned

\* The oldest queued run is promoted.
LEMMA PromoteOwn ==
    ASSUME TypeInv, OwnInv, NEW i \in Inst, NEW r \in Runs, Promote(i, r)
    PROVE  OwnInv'
<1>1. run[r].st = "queued" /\ RunOwned(r) /\ lease[r] \in LeaseType
  BY DEF Promote, getOldestQueuedRun, Queued, OwnInv, TypeInv, TypeOK, LeaseType
<1>2. lease[r].old = FALSE /\ (Scm => lease[r].phase # "none")
  BY <1>1 DEF RunOwned, RowReserved
<1>3. /\ up[i] /\ CanHost(r) /\ CanActivate(i, lease[r])
      /\ run' = [run EXCEPT ![r] = Claimed(i, @.chat)]
      /\ lease' = [lease EXCEPT ![r] = activated(i, lease[r])]
      /\ StartTurn(i, r, "ready", "none") /\ UNCHANGED <<up, settling>>
  BY DEF Promote, fleet
<1>c. ClaimedBy(i, r)
  BY <1>1, <1>2, <1>3, ClaimWrites
<1>4. Others(r) /\ RunOwned(r)' /\ run'[r].st = "running"
  BY <1>1, <1>3, <1>c, TurnStarts
<1> QED BY <1>1, <1>4, OwnStep DEF Promote, fleet

\* The row that a request waits on, and what the other requests wait on.
LEMMA AnsweredRequest ==
    ASSUME TypeInv, RequestsFresh, NEW c \in Clients, req[c].kind # "none",
           req' = [req EXCEPT ![c] = NoReq], \A q \in Runs \ {req[c].run} : run'[q] = run[q]
    PROVE  \A d \in Clients : ReqFresh(d)'
<1> DEFINE r == req[c].run
<1>1. /\ \A d \in Clients : ReqFresh(d) /\ (req[d].kind # "none" => req[d].run \in Runs)
      /\ r \in Runs
  BY DEF RequestsFresh, TypeInv, Grounded, ReqGrounded
<1>2. /\ req'[c].kind = "none"
      /\ \A d \in Clients \ {c} : req'[d] = req[d] /\ (req[d].kind # "none" => req[d].run # r)
  BY <1>1 DEF TypeInv, TypeOK, NoReq, ReqFresh
<1> QED BY <1>1, <1>2 DEF ReqFresh

\* Queue admission: the row starts, queues or is deleted.
LEMMA AdmitOwn == ASSUME TypeInv, OwnInv, NEW c \in Clients, Admit(c) PROVE OwnInv'
<1>0. PICK i \in Inst, r \in Runs : i = req[c].at /\ r = req[c].run
  BY DEF Admit, TypeInv, Grounded, ReqGrounded
<1> DEFINE l == IF Scm THEN reserved(lease[r]) ELSE lease[r]
<1>1. /\ req[c].kind = "new" /\ req[c].prior = "deleted" /\ run[r].st = "pending"
      /\ RunOwned(r) /\ up[i]
      /\ req' = [req EXCEPT ![c] = NoReq]
      /\ UNCHANGED <<settling, reap, up, beating, recov>>
      /\ run \in [Runs -> RunType] /\ lease \in [Runs -> LeaseType] /\ lease[r] \in LeaseType
  BY <1>0 DEF Admit, fleet, OwnInv, ReqFresh, TypeInv, TypeOK, RunType, LeaseType
<1>2. lease[r].phase = "none" /\ lease[r].old = FALSE /\ \A t \in Turns : ~Live(r, t)
  BY <1>1 DEF RunOwned, RowReserved, TurnOwned, Terminal
<1>3. l \in LeaseType /\ l.old = FALSE /\ l.phase # "active" /\ (Scm => l.phase = "reserved")
  <2>1. l \in LeaseType
    BY <1>1, LeaseWrites
  <2> QED BY <1>2, <2>1 DEF reserved, NoLease
<1>4. CanActivate(i, l)
  BY <1>3 DEF CanActivate
<1>5. Others(r) /\ RunOwned(r)' /\ run'[r].st # "absent" /\ (run'[r].st = "pending" => UNCHANGED run)
  <2>1. CASE /\ CanHost(r)
             /\ run' = [run EXCEPT ![r] = Claimed(i, @.chat)]
             /\ lease' = [lease EXCEPT ![r] = activated(i, l)]
             /\ \/ StartTurn(i, r, "ready", "none")
                \/ StartTurn(i, r, "admitted", "deleted")
    <3>1. UNCHANGED <<up, settling>>
      BY <1>1
    <3>c. ClaimedBy(i, r)
      BY <1>3, <1>4, <2>1, ClaimWrites
    <3>2. CASE StartTurn(i, r, "ready", "none")
      BY <1>1, <2>1, <3>1, <3>2, <3>c, TurnStarts
    <3>3. CASE StartTurn(i, r, "admitted", "deleted")
      BY <1>1, <2>1, <3>1, <3>3, <3>c, TurnStarts
    <3> QED BY <2>1, <3>2, <3>3
  <2>2. CASE /\ UNCHANGED <<ex, turns, mem>>
             /\ \/ UNCHANGED <<run, lease>>
                \/ /\ run' = [run EXCEPT ![r] = Row("queued", None, @.chat)]
                   /\ lease' = [lease EXCEPT ![r] = l]
                \/ Settle(r, "deleted") /\ UNCHANGED lease
    <3>1. /\ run'[r].st \in {"pending", "queued", "deleted"} /\ run'[r].old = FALSE
          /\ run'[r].st = "pending" => UNCHANGED run
          /\ \A q \in Runs \ {r} : run'[q] = run[q]
      <4>1. run[r].old = FALSE
        BY <1>1 DEF RunOwned, RowReserved
      <4> QED BY <1>1, <2>2, <4>1 DEF Settle, Row
    <3>2. /\ lease'[r].old = FALSE /\ lease'[r].phase # "active"
          /\ run'[r].st = "pending" => lease'[r].phase = "none"
          /\ Scm /\ run'[r].st = "queued" => lease'[r].phase # "none"
          /\ \A q \in Runs \ {r} : lease'[q] = lease[q]
      <4>1. CASE UNCHANGED lease /\ (UNCHANGED run \/ Settle(r, "deleted"))
        BY <1>1, <1>2, <4>1 DEF Settle, Row
      <4>2. CASE run' = [run EXCEPT ![r] = Row("queued", None, @.chat)] /\ lease' = [lease EXCEPT ![r] = l]
        BY <1>1, <1>3, <4>2 DEF Row
      <4> QED BY <2>2, <4>1, <4>2
    <3>3. Others(r)
      BY <1>1, <2>2, <3>1, <3>2 DEF Others
    <3>4. TurnOwned(r)' /\ TurnLeased(r)' /\ LeaseBacked(r)' /\ RowReserved(r)'
      BY <1>1, <1>2, <2>2, <3>1, <3>2
      DEF RunOwned, TurnOwned, TurnLeased, LeaseBacked, RowReserved, Live
    <3>5. ReleaseLate(r)'
      BY <1>1 DEF RunOwned, ReleaseLate, Restorable, Terminal
    <3> QED BY <3>1, <3>3, <3>4, <3>5 DEF RunOwned
  <2> QED BY <1>0, <1>1, <1>4, <2>1, <2>2 DEF Admit
<1>6. \A q \in Runs : RunOwned(q)'
  BY <1>1, <1>5, OthersOwned
<1>7. \A d \in Clients : ReqFresh(d)'
  <2>1. RequestsFresh /\ \A q \in Runs \ {req[c].run} : run'[q] = run[q]
    BY <1>0, <1>5 DEF OwnInv, Others, RequestsFresh
  <2> QED BY <1>1, <2>1, AnsweredRequest
<1>8. \A j \in Inst : ReapDead(j)'
  BY <1>1, <1>5 DEF OwnInv, ReapDead, Others
<1> QED BY <1>1, <1>6, <1>7, <1>8 DEF OwnInv, FleetAlive

\* The requests after a new row, with the request that inserts it or without one.
LEMMA RequestInserts ==
    ASSUME TypeInv, RequestsFresh, NEW r \in Runs, run[r].st = "absent",
           run' = [run EXCEPT ![r] = Row("pending", None, FALSE)],
           \/ UNCHANGED req
           \/ \E c \in Clients, i \in Inst : Request(c, i, r, "new", "deleted")
    PROVE  \A c \in Clients : ReqFresh(c)'
<1>0. run'[r].st = "pending" /\ \A q \in Runs \ {r} : run'[q] = run[q]
  BY DEF TypeInv, TypeOK, Row
<1>1. \A c \in Clients : ReqFresh(c) /\ (req[c].kind # "none" => req[c].run \in Runs /\ req[c].run # r)
  BY DEF RequestsFresh, ReqFresh, TypeInv, Grounded, ReqGrounded
<1>u. \A c \in Clients : req[c].kind # "none" => run'[req[c].run] = run[req[c].run]
  BY <1>0, <1>1
<1>2. CASE UNCHANGED req
  <2> SUFFICES ASSUME NEW d \in Clients, req[d].kind # "none" PROVE ReqFresh(d)'
    BY <1>2 DEF ReqFresh
  <2>1. run'[req[d].run] = run[req[d].run] /\ ReqFresh(d)
    BY <1>1, <1>u
  <2> QED BY <1>2, <2>1 DEF ReqFresh
<1>3. ASSUME NEW c \in Clients, NEW i \in Inst, Request(c, i, r, "new", "deleted")
      PROVE  \A d \in Clients : ReqFresh(d)'
  <2>1. /\ req'[c].kind = "new" /\ req'[c].run = r /\ req'[c].prior = "deleted"
        /\ \A d \in Clients \ {c} : req'[d] = req[d]
    BY <1>3 DEF Request, TypeInv, TypeOK
  <2>2. ReqFresh(c)'
    BY <1>0, <1>1, <2>1, ZenonT(60) DEF ReqFresh
  <2>3. ASSUME NEW d \in Clients \ {c}, req[d].kind # "none" PROVE ReqFresh(d)'
    <3>1. run'[req[d].run] = run[req[d].run] /\ ReqFresh(d) /\ req[d].run # r
      BY <1>1, <1>u, <2>3
    <3> QED BY <2>1, <2>3, <3>1 DEF ReqFresh
  <2>4. ASSUME NEW d \in Clients \ {c}, req[d].kind = "none" PROVE ReqFresh(d)'
    BY <2>1, <2>4 DEF ReqFresh
  <2> QED BY <2>2, <2>3, <2>4
<1> QED BY <1>2, <1>3

\* A new row, with the request that inserts it or without one.
LEMMA InsertOwn ==
    ASSUME TypeInv, OwnInv, NEW r \in Runs, run[r].st = "absent",
           run' = [run EXCEPT ![r] = Row("pending", None, FALSE)],
           UNCHANGED <<lease, ex, turns, mem, settling, reap, up, beating, recov>>,
           \/ UNCHANGED req
           \/ \E c \in Clients, i \in Inst : Request(c, i, r, "new", "deleted")
    PROVE  OwnInv'
<1>1. RunOwned(r)
  BY DEF OwnInv
<1>2. run'[r].st = "pending" /\ run'[r].old = FALSE /\ \A q \in Runs \ {r} : run'[q] = run[q]
  BY DEF TypeInv, TypeOK, Row
<1>3. Others(r)
  BY <1>2 DEF Others
<1>4. RunOwned(r)'
  <2>1. \A t \in Turns : ~Live(r, t)
    BY <1>1 DEF RunOwned, TurnOwned, Terminal
  <2>2. \A i \in Inst : r \notin settling[i]
    BY <1>1 DEF RunOwned, ReleaseLate, Restorable, Terminal
  <2> QED BY <1>1, <1>2, <2>1, <2>2
          DEF RunOwned, TurnOwned, TurnLeased, LeaseBacked, ReleaseLate, RowReserved, Live
<1>5. \A q \in Runs : RunOwned(q)'
  BY <1>3, <1>4, OthersOwned
<1>6. \A c \in Clients : ReqFresh(c)'
  BY RequestInserts DEF OwnInv, RequestsFresh
<1>7. \A j \in Inst : ReapDead(j)'
  BY <1>2 DEF OwnInv, ReapDead
<1> QED BY <1>5, <1>6, <1>7 DEF OwnInv, FleetAlive

\* Cancellation and retention settle a row under its executor.
LEMMA SettleOwn ==
    ASSUME TriggerWorkload, TypeInv, OwnInv, NEW r \in Runs, Cancel(r) \/ Delete(r)
    PROVE  OwnInv'
<1>1. RunOwned(r) /\ run \in [Runs -> RunType] /\ lease \in [Runs -> LeaseType] /\ TypeOK
  BY DEF OwnInv, TypeInv, TypeOK, RunType, LeaseType
<1>2. UNCHANGED <<ex, turns, mem, settling, req, reap, up, beating, recov>>
  BY DEF Cancel, Delete, fleet
<1>3. /\ \/ run'[r].st = "cancelled" /\ run[r].st \in {"queued", "running"}
         \/ run'[r].st = "deleted" /\ run[r].st \in Terminal /\ ~Scm
      /\ run'[r].old = FALSE
      /\ \A q \in Runs \ {r} : run'[q] = run[q]
  <2>1. ASSUME NEW st, Settle(r, st)
        PROVE  run'[r].st = st /\ run'[r].old = FALSE /\ \A q \in Runs \ {r} : run'[q] = run[q]
    BY <1>1, <2>1 DEF Settle, Row
  <2>2. CASE Cancel(r)
    BY <2>1, <2>2 DEF Cancel
  <2>3. CASE Delete(r)
    BY <2>1, <2>3 DEF Delete, TriggerWorkload
  <2> QED BY <2>2, <2>3
<1>4. /\ lease'[r] = lease[r] \/ (lease'[r] = NoLease /\ run[r].st = "queued")
      /\ \A q \in Runs \ {r} : lease'[q] = lease[q]
  BY <1>1 DEF Cancel, Delete
<1>5. Others(r)
  BY <1>2, <1>3, <1>4 DEF Others
<1>6. TurnOwned(r)'
  BY <1>1, <1>2, <1>3 DEF RunOwned, TurnOwned, Live, Terminal
<1>7. TurnLeased(r)'
  <2>1. run[r].st = "queued" => \A t \in Turns : ~Live(r, t)
    BY <1>1 DEF RunOwned, TurnOwned, Terminal
  <2> QED BY <1>1, <1>2, <1>4, <2>1 DEF RunOwned, TurnLeased, Live
<1>8. LeaseBacked(r)'
  BY <1>1, <1>2 DEF RunOwned, LeaseBacked, Live
<1>9. ReleaseLate(r)'
  BY <1>1, <1>2, <1>3 DEF RunOwned, ReleaseLate, Live, Restorable, Terminal
<1>10. RowReserved(r)'
  BY <1>1, <1>3, <1>4 DEF RunOwned, RowReserved, NoLease
<1>11. RunOwned(r)'
  BY <1>6, <1>7, <1>8, <1>9, <1>10 DEF RunOwned
<1> QED BY <1>2, <1>3, <1>5, <1>11, OwnStep DEF Terminal

\* The lease of a settled run goes: its turn is over, or the agent takes no lease.
LEMMA ReleaseOwn ==
    ASSUME TypeInv, OwnInv, NEW r \in Runs, run[r].st \in Restorable, Scm => \A t \in Turns : ~Live(r, t),
           lease' = [lease EXCEPT ![r] = NoLease],
           \A j \in Inst : /\ settling'[j] \in SUBSET settling[j]
                           /\ \A q \in Runs \ {r} : q \in settling[j] => q \in settling'[j],
           UNCHANGED <<run, ex, turns, mem, req, reap, up, beating, recov>>
    PROVE  OwnInv'
<1>1. RunOwned(r)
  BY DEF OwnInv
<1>2. lease'[r] = NoLease /\ \A q \in Runs \ {r} : lease'[q] = lease[q]
  BY DEF TypeInv, TypeOK
<1>3. Others(r)
  BY <1>2 DEF Others
<1>4. RowReserved(r)'
  BY <1>1, <1>2 DEF RunOwned, RowReserved, NoLease, Restorable, Terminal
<1>5. TurnOwned(r)' /\ LeaseBacked(r)'
  BY <1>1 DEF RunOwned, TurnOwned, LeaseBacked, Live
<1>6. TurnLeased(r)' /\ ReleaseLate(r)'
  BY <1>1 DEF RunOwned, TurnLeased, ReleaseLate, Live
<1>7. RunOwned(r)'
  BY <1>4, <1>5, <1>6 DEF RunOwned
<1> QED BY <1>3, <1>7, OwnStep

\* A crash takes the replica's turns, requests and memory; the rows keep their owner
\* and the leases theirs.
LEMMA CrashOwn == ASSUME TypeInv, OwnInv, NEW i \in Inst, Crash(i) PROVE OwnInv'
<1>1. /\ \A r \in Runs, t \in Turns : ex'[r][t] = IF ex[r][t].at = i THEN Idle ELSE ex[r][t]
      /\ \A c \in Clients : req'[c] = IF req[c].at = i THEN NoReq ELSE req[c]
      /\ mem'[i] = {} /\ settling'[i] = {} /\ reap'[i] = NoReap /\ up'[i] = FALSE
      /\ \A j \in Inst \ {i} : mem'[j] = mem[j] /\ settling'[j] = settling[j] /\ reap'[j] = reap[j]
                               /\ up'[j] = up[j]
      /\ run' = run /\ lease' = lease /\ turns' = turns /\ beating' = beating /\ recov' = NoRecovery
  BY DEF Crash, rows, TypeInv, TypeOK
<1>2. ASSUME NEW r \in Runs PROVE RunOwned(r)'
  <2>1. RunOwned(r)
    BY DEF OwnInv
  <2>2. ASSUME NEW t \in Turns PROVE Live(r, t)' <=> Live(r, t) /\ ex[r][t].at # i
    BY <1>1 DEF Live, Idle
  <2>3. ASSUME NEW t \in Turns, Live(r, t)'
        PROVE  ex'[r][t] = ex[r][t] /\ ex[r][t].at \in Inst \ {i} /\ Live(r, t)
    BY <1>1, <2>1, <2>2, <2>3 DEF RunOwned, TurnOwned
  <2>4. TurnOwned(r)'
    BY <1>1, <2>1, <2>3 DEF RunOwned, TurnOwned
  <2>5. TurnLeased(r)'
    BY <1>1, <2>1, <2>3 DEF RunOwned, TurnLeased
  <2>6. LeaseBacked(r)'
    <3> SUFFICES ASSUME NEW j \in Inst, r \in mem'[j] PROVE \E t \in Turns : Live(r, t)' /\ ex'[r][t].at = j
      BY DEF LeaseBacked
    <3>1. j # i /\ r \in mem[j]
      BY <1>1
    <3>2. PICK t \in Turns : Live(r, t) /\ ex[r][t].at = j
      BY <2>1, <3>1 DEF RunOwned, LeaseBacked
    <3> QED BY <1>1, <2>2, <3>1, <3>2
  <2>7. ReleaseLate(r)'
    BY <1>1, <2>1, <2>2 DEF RunOwned, ReleaseLate
  <2>8. RowReserved(r)'
    BY <1>1, <2>1 DEF RunOwned, RowReserved
  <2> QED BY <2>4, <2>5, <2>6, <2>7, <2>8 DEF RunOwned
<1>3. ASSUME NEW c \in Clients PROVE ReqFresh(c)'
  <2>1. \A d \in Clients : req'[d].kind # "none" => req'[d] = req[d]
    BY <1>1 DEF NoReq
  <2>2. ReqFresh(c)
    BY DEF OwnInv
  <2> QED BY <1>1, <2>1, <2>2 DEF ReqFresh
<1>4. ASSUME NEW j \in Inst PROVE ReapDead(j)'
  BY <1>1 DEF OwnInv, ReapDead
<1>5. FleetAlive'
  BY <1>1 DEF OwnInv, FleetAlive
<1> QED BY <1>2, <1>3, <1>4, <1>5 DEF OwnInv

\* The heartbeat of a stopped replica expires.
LEMMA ExpireOwn == ASSUME TypeInv, OwnInv, NEW i \in Inst, Expire(i) PROVE OwnInv'
<1>1. /\ UNCHANGED <<run, lease, req, ex, turns, mem, settling, reap, up, recov>>
      /\ \A j \in Inst : beating'[j] = (beating[j] /\ j # i) /\ up[i] = FALSE
  <2>1. up[i] \in BOOLEAN /\ beating \in [Inst -> BOOLEAN]
    BY DEF TypeInv, TypeOK
  <2> QED BY <2>1 DEF Expire, others
<1>2. \A r \in Runs : RunOwned(r)'
  BY <1>1 DEF OwnInv, RunOwned, TurnOwned, TurnLeased, LeaseBacked, ReleaseLate, RowReserved, Live
<1>3. \A c \in Clients : ReqFresh(c)'
  BY <1>1 DEF OwnInv, ReqFresh
<1>4. \A j \in Inst : ReapDead(j)'
  BY <1>1 DEF OwnInv, ReapDead
<1>5. FleetAlive'
  BY <1>1 DEF OwnInv, FleetAlive
<1> QED BY <1>2, <1>3, <1>4, <1>5 DEF OwnInv

\* A candidate that a reaper may still claim has no live turn: its owner stopped
\* beating, and a replica that stopped beating is down.
LEMMA ReapableIsDead ==
    ASSUME TypeInv, OwnInv, NEW j \in Inst, reap[j] # NoReap, Reapable(reap[j])
    PROVE  /\ reap[j].run \in Runs
           /\ run[reap[j].run].st \in {"running", "queued"}
           /\ \A t \in Turns : ~Live(reap[j].run, t)
<1>1. PICK r \in Runs, o \in Inst : r = reap[j].run /\ o = reap[j].owner /\ ~beating[o]
                                    /\ run[r].st \notin {"absent", "pending"}
  BY DEF OwnInv, ReapDead
<1>2. run[r].st \in {"running", "queued"} /\ run[r].owner \in {None, o}
  BY <1>1 DEF Reapable
<1>3. ~up[o]
  BY <1>1 DEF OwnInv, FleetAlive
<1>4. \A t \in Turns : ~Live(r, t)
  <2>1. RunOwned(r)
    BY DEF OwnInv
  <2> QED BY <1>2, <1>3, <2>1, ConstantsOK DEF RunOwned, TurnOwned, Terminal
<1> QED BY <1>1, <1>2, <1>4

\* Reapers and sweepers.
LEMMA SweeperOwn == ASSUME TriggerWorkload, TypeInv, OwnInv, NEW j \in Inst, Sweeper(j) PROVE OwnInv'
<1>0. run \in [Runs -> RunType] /\ lease \in [Runs -> LeaseType]
  BY DEF TypeInv, TypeOK, RunType, LeaseType
<1>1. CASE ReapResolve(j)
  <2>0. PICK r : r = reap[j].run
    OBVIOUS
  <2>1. UNCHANGED <<lease, ex, turns, mem, settling, req, up, beating, recov>>
        /\ reap'[j] = NoReap /\ \A k \in Inst \ {j} : reap'[k] = reap[k]
    BY <1>1 DEF ReapResolve, TypeInv, TypeOK
  <2>2. CASE UNCHANGED run
    <3>1. \A q \in Runs : RunOwned(q)'
      BY <2>1, <2>2 DEF OwnInv, RunOwned, TurnOwned, TurnLeased, LeaseBacked, ReleaseLate, RowReserved, Live
    <3>2. \A c \in Clients : ReqFresh(c)'
      BY <2>1, <2>2 DEF OwnInv, ReqFresh
    <3>3. \A k \in Inst : ReapDead(k)'
      BY <2>1, <2>2 DEF OwnInv, ReapDead
    <3> QED BY <2>1, <3>1, <3>2, <3>3 DEF OwnInv, FleetAlive
  <2>3. CASE ~UNCHANGED run
    <3>1. Reapable(reap[j]) /\ reap[j] # NoReap
      BY <1>1, <2>3 DEF ReapResolve
    <3>2. r \in Runs /\ run[r].st \in {"running", "queued"} /\ \A t \in Turns : ~Live(r, t)
      BY <2>0, <3>1, ReapableIsDead
    <3>3. /\ run'[r].st \in {"failed", "queued"} /\ run'[r].old = FALSE
          /\ \A q \in Runs \ {r} : run'[q] = run[q]
      <4>1. Settle(r, "failed") \/ run' = [run EXCEPT ![r] = Row("queued", None, FALSE)]
        BY <1>1, <2>0, <2>3 DEF ReapResolve
      <4> QED BY <1>0, <3>2, <4>1 DEF Settle, Row
    <3>4. Others(r)
      BY <2>1, <3>3 DEF Others
    <3>5. RunOwned(r)'
      <4>1. RunOwned(r)
        BY <3>2 DEF OwnInv
      <4>2. TurnOwned(r)' /\ TurnLeased(r)' /\ LeaseBacked(r)'
        BY <2>1, <3>2, <4>1 DEF RunOwned, TurnOwned, TurnLeased, LeaseBacked, Live
      <4>3. ReleaseLate(r)'
        BY <2>1, <3>2, <4>1 DEF RunOwned, ReleaseLate, Restorable, Terminal
      <4>4. RowReserved(r)'
        BY <2>1, <3>2, <3>3, <4>1 DEF RunOwned, RowReserved
      <4> QED BY <4>2, <4>3, <4>4 DEF RunOwned
    <3>6. \A q \in Runs : RunOwned(q)'
      BY <2>1, <3>2, <3>4, <3>5, OthersOwned
    <3>7. ASSUME NEW c \in Clients PROVE ReqFresh(c)'
      <4>1. ReqFresh(c) /\ (req[c].kind # "none" => req[c].run \in Runs)
        BY DEF OwnInv, TypeInv, Grounded, ReqGrounded
      <4>2. req[c].kind # "none" => run'[req[c].run] = run[req[c].run]
        BY <3>2, <3>3, <4>1 DEF ReqFresh
      <4> QED BY <2>1, <4>1, <4>2 DEF ReqFresh
    <3>8. ASSUME NEW k \in Inst PROVE ReapDead(k)'
      BY <2>1, <3>2, <3>3 DEF OwnInv, ReapDead
    <3> QED BY <2>1, <3>6, <3>7, <3>8 DEF OwnInv, FleetAlive
  <2> QED BY <2>2, <2>3
<1>2. ASSUME NEW r \in Runs, SweepMem(j, r) PROVE OwnInv'
  <2>1. /\ UNCHANGED <<run, lease, ex, turns, req, reap, up, beating, recov>>
        /\ run[r].st = "deleted" /\ completeExecutionLease(j, r) /\ RunOwned(r)
    BY <1>2 DEF SweepMem, rows, fleet, OwnInv
  <2>2. /\ r \notin mem'[j]
        /\ \A k \in Inst \ {j} : mem'[k] = mem[k] /\ settling'[k] = settling[k]
        /\ \A q \in Runs \ {r} : (q \in mem'[j] <=> q \in mem[j]) /\ (q \in settling'[j] <=> q \in settling[j])
    BY <2>1, CompleteWrites
  <2>3. Others(r)
    BY <2>1, <2>2 DEF Others
  <2>4. Scm => \A t \in Turns : ~Live(r, t)
    BY <2>1 DEF RunOwned, TurnOwned, Terminal
  <2>5. TurnOwned(r)' /\ TurnLeased(r)' /\ RowReserved(r)'
    BY <2>1, <2>4 DEF RunOwned, TurnOwned, TurnLeased, RowReserved, Live
  <2>6. LeaseBacked(r)'
    BY <2>1, <2>2 DEF RunOwned, LeaseBacked, Live
  <2>7. ReleaseLate(r)'
    BY <2>1, <2>4 DEF ReleaseLate, Live, Restorable
  <2> QED BY <2>1, <2>3, <2>5, <2>6, <2>7, OwnStep DEF RunOwned
<1>3. ASSUME NEW r \in Runs, SweepLease(j, r) PROVE OwnInv'
  <2>1. /\ UNCHANGED <<run, ex, turns, mem, settling, req, reap, up, beating, recov>>
        /\ lease' = [lease EXCEPT ![r] = NoLease] /\ up[j] /\ r \notin mem[j] /\ RunOwned(r)
        /\ run[r].st \in Restorable
        /\ lease[r].phase = "active" => lease[r].owner = j \/ isLeaseOwnerDead(lease[r])
    BY <1>3 DEF SweepLease, fleet, OwnInv, isWorkloadTerminal, Reclaimable, Restorable
  <2>2. Scm => \A t \in Turns : ~Live(r, t)
    <3> SUFFICES ASSUME Scm, NEW t \in Turns, Live(r, t) PROVE FALSE
      OBVIOUS
    <3>1. /\ ex[r][t].at \in Inst /\ up[ex[r][t].at] /\ r \in mem[ex[r][t].at]
          /\ lease[r].phase = "active" /\ lease[r].owner = ex[r][t].at /\ lease[r].old = FALSE
      BY <2>1 DEF RunOwned, TurnOwned, TurnLeased, RowReserved
    <3>2. ~beating[ex[r][t].at]
      BY <2>1, <3>1, ConstantsOK DEF isLeaseOwnerDead, isInstanceOwnerDead
    <3> QED BY <3>1, <3>2 DEF OwnInv, FleetAlive
  <2> QED BY <2>1, <2>2, ReleaseOwn
<1>4. ASSUME NEW r \in Runs, ReapPick(j, r) PROVE OwnInv'
  <2>1. UNCHANGED <<run, lease, ex, turns, mem, settling, req, up, beating, recov>> /\ RunOwned(r)
    BY <1>4 DEF ReapPick, others, OwnInv
  <2>2. ReapDead(j)'
    <3>1. lease[r].owner \in Inst \cup {None} /\ run[r].owner \in Inst \cup {None}
      BY <1>0, <1>4 DEF RunType, LeaseType, ReapPick, TypeInv, TypeOK
    <3>2. CASE lease[r].phase = "active" /\ isLeaseOwnerDead(lease[r]) /\ ~isWorkloadTerminal(r)
               /\ reap'[j] = [kind |-> "scm", run |-> r, owner |-> lease[r].owner]
      <4>1. lease[r].owner \in Inst /\ lease[r].old = FALSE /\ run[r].st \notin {"absent", "pending"}
        BY <2>1, <3>1, <3>2 DEF RunOwned, RowReserved
      <4>2. ~beating[lease[r].owner]
        BY <3>2, <4>1, ConstantsOK DEF isLeaseOwnerDead, isInstanceOwnerDead
      <4> QED BY <2>1, <3>2, <4>1, <4>2 DEF ReapDead
    <3>3. CASE run[r].st = "running" /\ run[r].owner # None /\ isInstanceOwnerDead(run[r].owner, run[r].old)
               /\ reap'[j] = [kind |-> "orphan", run |-> r, owner |-> run[r].owner]
      <4>1. run[r].owner \in Inst /\ run[r].old = FALSE
        BY <2>1, <3>1, <3>3 DEF RunOwned, RowReserved
      <4>2. ~beating[run[r].owner]
        BY <3>3, <4>1 DEF isInstanceOwnerDead
      <4> QED BY <2>1, <3>3, <4>1, <4>2 DEF ReapDead
    <3> QED BY <1>4, <3>2, <3>3 DEF ReapPick, TypeInv, TypeOK
  <2>3. \A k \in Inst \ {j} : reap'[k] = reap[k]
    BY <1>4 DEF ReapPick, TypeInv, TypeOK
  <2>4. \A k \in Inst : ReapDead(k)'
    BY <2>1, <2>2, <2>3 DEF OwnInv, ReapDead
  <2>5. \A q \in Runs : RunOwned(q)'
    BY <2>1 DEF OwnInv, RunOwned, TurnOwned, TurnLeased, LeaseBacked, ReleaseLate, RowReserved, Live
  <2> QED BY <2>1, <2>4, <2>5 DEF OwnInv, ReqFresh, FleetAlive
<1> QED BY <1>1, <1>2, <1>3, <1>4 DEF Sweeper

\* Every step of the workload keeps the invariant.
LEMMA OwnNext ==
    ASSUME TriggerWorkload, TypeInv, OwnInv, [Next]_vars
    PROVE  OwnInv'
<1>1. ASSUME NEW c \in Clients, Client(c) PROVE OwnInv'
  <2>1. ASSUME NEW i \in Inst, NEW r \in Runs, Submit(c, i, r) PROVE OwnInv'
    <3>1. /\ run[r].st = "absent" /\ run' = [run EXCEPT ![r] = Row("pending", None, FALSE)]
          /\ UNCHANGED <<lease, ex, turns, mem, settling, reap, up, beating, recov>>
          /\ Request(c, i, r, "new", "deleted")
      BY <2>1 DEF Submit, NextRow, fleet
    <3> QED BY <3>1, InsertOwn
  <2>2. ~ \E i \in Inst, r \in Runs : Retry(c, i, r) \/ FollowUp(c, i, r)
    BY DEF Retry, FollowUp, TriggerWorkload
  <2> QED BY <1>1, <2>1, <2>2, AdmitOwn DEF Client
<1>2. ASSUME NEW i \in Inst, NEW r \in Runs, Release(i, r) PROVE OwnInv'
  <2>1. /\ lease' = [lease EXCEPT ![r] = NoLease] /\ settling' = [settling EXCEPT ![i] = @ \ {r}]
        /\ UNCHANGED <<run, ex, turns, mem, req, reap, up, beating, recov>>
        /\ r \in settling[i] /\ RunOwned(r)
    BY <1>2 DEF Release, fleet, OwnInv
  <2>2. \A j \in Inst : /\ settling'[j] \in SUBSET settling[j]
                        /\ \A q \in Runs \ {r} : q \in settling[j] => q \in settling'[j]
    BY <2>1 DEF TypeInv, TypeOK
  <2>3. run[r].st \in Restorable /\ (Scm => \A t \in Turns : ~Live(r, t))
    BY <2>1 DEF RunOwned, ReleaseLate
  <2> QED BY <2>1, <2>2, <2>3, ReleaseOwn
<1>3. ASSUME NEW r \in Runs, Create(r) PROVE OwnInv'
  <2>1. /\ run[r].st = "absent" /\ run' = [run EXCEPT ![r] = Row("pending", None, FALSE)]
        /\ UNCHANGED <<lease, ex, turns, mem, settling, reap, up, beating, recov, req>>
    BY <1>3 DEF Create, NextRow, fleet
  <2> QED BY <2>1, InsertOwn
<1>4. /\ ~RecoverScan /\ ~RecoverScanStale
      /\ \A r \in Runs : ~RecoverRun(r) /\ ~RecoverStale(r)
      /\ \A i \in Inst, r \in Runs : ~Execute(i, r)
      /\ \A i \in Inst : ~Boot(i)
  <2>1. recov.phase = "off"
    BY DEF OwnInv, FleetAlive, NoRecovery
  <2>2. \A i \in Inst : ~(boots[i] < MaxBoots)
    BY DEF TypeInv, TypeOK, TriggerWorkload
  <2> QED
    BY <2>1, <2>2 DEF RecoverScan, RecoverScanStale, RecoverRun, RecoverStale, Execute, Boot, TriggerWorkload
<1>5. CASE UNCHANGED vars
  <2>1. UNCHANGED <<run, lease, req, ex, turns, mem, settling, reap, up, beating, recov>>
    BY <1>5 DEF vars
  <2>2. \A q \in Runs : RunOwned(q)'
    BY <2>1 DEF OwnInv, RunOwned, TurnOwned, TurnLeased, LeaseBacked, ReleaseLate, RowReserved, Live
  <2> QED BY <2>1, <2>2 DEF OwnInv, ReqFresh, ReapDead, FleetAlive
<1> QED
  BY <1>1, <1>2, <1>3, <1>4, <1>5, PromoteOwn, ExecutorOwn, SettleOwn, SweeperOwn, CrashOwn, ExpireOwn
  DEF Next

\* An empty database and idle replicas satisfy it.
LEMMA OwnInit == Init => OwnInv
<1> SUFFICES ASSUME Init PROVE OwnInv
  OBVIOUS
<1>1. \A r \in Runs : RunOwned(r)
  BY ConstantsOK
  DEF Init, RunOwned, TurnOwned, TurnLeased, LeaseBacked, ReleaseLate, RowReserved, Live, Idle, Row, NoLease
<1> QED BY <1>1 DEF Init, OwnInv, ReqFresh, ReapDead, FleetAlive, NoReq

\* The workspace of an SCM run is never in use without the run's active durable
\* lease on the replica that uses it, whoever cancels, reaps, sweeps or crashes.
THEOREM CheckoutIsGuarded ==
    ASSUME TriggerWorkload
    PROVE  Spec => []CheckoutGuarded
<1>1. Init => TypeInv /\ OwnInv
  BY TypeInit, OwnInit
<1>2. TypeInv /\ OwnInv /\ [Next]_vars => TypeInv' /\ OwnInv'
  BY TypeNext, OwnNext
<1>3. OwnInv => CheckoutGuarded
  BY DEF OwnInv, RunOwned, TurnLeased, Live, CheckoutGuarded
<1> QED BY <1>1, <1>2, <1>3, PTL DEF Spec

\* A queued run of an SCM agent always has the lease row its promotion needs, also
\* after a reaper requeued it.
THEOREM QueuedRunsKeepReservation ==
    ASSUME TriggerWorkload
    PROVE  Spec => []QueuedKeepsReservation
<1>1. Init => TypeInv /\ OwnInv
  BY TypeInit, OwnInit
<1>2. TypeInv /\ OwnInv /\ [Next]_vars => TypeInv' /\ OwnInv'
  BY TypeNext, OwnNext
<1>3. OwnInv => QueuedKeepsReservation
  BY DEF OwnInv, RunOwned, RowReserved, QueuedKeepsReservation
<1> QED BY <1>1, <1>2, <1>3, PTL DEF Spec

-----------------------------------------------------------------------------
(* Restarts. A replica comes back under its instance id, which the rows of  *)
(* its earlier life still name. What the reapers promise then is about the  *)
(* replicas in their first life, whatever the others do.                    *)

First(i) == up[i] /\ FirstLife(i)
AnyFirst == \E i \in Inst : First(i)

\* An executor runs in a process that is up.
TurnUp == \A r \in Runs, t \in Turns : Live(r, t) => ex[r][t].at \in Inst /\ up[ex[r][t].at]

\* A turn of a first life is the latest of its run; the row is running and owned by
\* that replica, or settled.
FirstTurn(r) ==
    \A t \in Turns : Live(r, t) /\ First(ex[r][t].at) =>
        /\ t = turns[r]
        /\ \/ run[r].st = "running" /\ run[r].owner = ex[r][t].at
           \/ run[r].st \in Restorable

\* A row that waits for its admission has no lease and no turn, and no old mark
\* names a replica in its first life.
FirstMark(r) ==
    /\ run[r].st \in {"absent", "pending"} => lease[r].phase = "none" /\ \A t \in Turns : ~Live(r, t)
    /\ \A i \in Inst : First(i) => (run[r].old => run[r].owner # i) /\ (lease[r].old => lease[r].owner # i)

\* A reaper's candidate never belonged to a replica in its first life.
ReapPast(j) ==
    reap[j] # NoReap =>
        /\ reap[j].run \in Runs
        /\ \A i \in Inst : First(i) => reap[j].owner # i
        /\ run[reap[j].run].st \notin {"absent", "pending"}

FirstBody ==
    /\ recov = NoRecovery
    /\ \A i \in Inst : First(i) => beating[i]
    /\ \A r \in Runs : FirstTurn(r) /\ FirstMark(r)
    /\ \A c \in Clients : ReqFresh(c)
    /\ \A j \in Inst : ReapPast(j)

FirstInv == TurnUp /\ (AnyFirst => FirstBody)

\* Runs are submitted, created, cancelled and deleted, terminal transactions fail,
\* and replicas crash and restart.
RestartWorkload == Ops \subseteq {"submit", "create", "cancel", "crash", "delete", "dbfault"}

\* A first life ends with the process and never comes back.
LEMMA FirstShrinks ==
    ASSUME TypeInv, [Next]_vars
    PROVE  \A i \in Inst : First(i)' => First(i)
<1>0. up \in [Inst -> BOOLEAN] /\ boots \in [Inst -> 0 .. MaxBoots]
  BY DEF TypeInv, TypeOK
<1>1. CASE UNCHANGED <<up, boots>>
  BY <1>1 DEF First, FirstLife
<1>2. ASSUME NEW j \in Inst, Crash(j) PROVE \A i \in Inst : First(i)' => First(i)
  BY <1>0, <1>2 DEF Crash, First, FirstLife
<1>3. ASSUME NEW j \in Inst, Boot(j) PROVE \A i \in Inst : First(i)' => First(i)
  <2>1. boots'[j] # 0 /\ \A i \in Inst \ {j} : up'[i] = up[i] /\ boots'[i] = boots[i]
    BY <1>0, <1>3, ConstantsOK DEF Boot
  <2> QED BY <2>1 DEF First, FirstLife
<1>4. ASSUME NEW c \in Clients, Client(c) PROVE UNCHANGED <<up, boots>>
  BY <1>4 DEF Client, Admit, Submit, Retry, FollowUp, fleet
<1>5. ASSUME NEW i \in Inst, NEW r \in Runs, Promote(i, r) \/ Release(i, r) \/ Execute(i, r)
      PROVE  UNCHANGED <<up, boots>>
  BY <1>5 DEF Promote, Release, Execute, fleet
<1>6. ASSUME NEW i \in Inst, NEW r \in Runs, NEW t \in Turns, Executor(i, r, t) PROVE UNCHANGED <<up, boots>>
  BY <1>6 DEF Executor, Prepare, PrepareFail, Persist, StartupFail, Finish, FinishDbFault, Complete,
              ActivateExecuted, ActivateFail, fleet
<1>7. ASSUME NEW r \in Runs, Create(r) \/ Cancel(r) \/ Delete(r) \/ RecoverRun(r) \/ RecoverStale(r)
      PROVE  UNCHANGED <<up, boots>>
  BY <1>7 DEF Create, Cancel, Delete, RecoverRun, RecoverStale, fleet
<1>8. ASSUME NEW i \in Inst, Sweeper(i) \/ Expire(i) PROVE UNCHANGED <<up, boots>>
  BY <1>8 DEF Sweeper, ReapResolve, SweepMem, SweepLease, ReapPick, Expire, fleet
<1>9. CASE RecoverScan \/ RecoverScanStale
  BY <1>1, <1>9 DEF RecoverScan, RecoverScanStale
<1>10. CASE UNCHANGED vars
  BY <1>1, <1>10 DEF vars
<1> QED BY <1>1, <1>2, <1>3, <1>4, <1>5, <1>6, <1>7, <1>8, <1>9, <1>10 DEF Next

\* The step starts no turn of run r; the row keeps its status and its owner, is
\* settled, or has no turn of a first life; and no mark grows old.
RunKept(r) ==
    /\ \A t \in Turns : Live(r, t)' => Live(r, t) /\ ex'[r][t].at = ex[r][t].at
    /\ turns'[r] = turns[r]
    /\ \/ run'[r].st = run[r].st /\ run'[r].owner = run[r].owner
       \/ run'[r].st \in Restorable
       \/ \A t \in Turns : Live(r, t) => ~First(ex[r][t].at)
    /\ run'[r].old => run[r].old /\ run'[r].owner = run[r].owner
    /\ lease'[r].old => lease[r].old /\ lease'[r].owner = lease[r].owner
    /\ run'[r].st \in {"absent", "pending"} => lease'[r].phase = "none" /\ run[r].st \in {"absent", "pending"}

\* What is known of a run survives such a step.
LEMMA RunKeeps ==
    ASSUME TurnUp, NEW r \in Runs, FirstTurn(r), FirstMark(r), RunKept(r),
           \A i \in Inst : First(i)' => First(i)
    PROVE  FirstTurn(r)' /\ FirstMark(r)'
<1>1. FirstMark(r)'
  BY DEF FirstMark, RunKept
<1>2. ASSUME NEW t \in Turns, Live(r, t)', First(ex[r][t].at)'
      PROVE  t = turns'[r] /\ ((run'[r].st = "running" /\ run'[r].owner = ex'[r][t].at) \/ run'[r].st \in Restorable)
  <2>1. Live(r, t) /\ ex'[r][t].at = ex[r][t].at /\ ex[r][t].at \in Inst
    BY <1>2 DEF RunKept, TurnUp
  <2>2. First(ex[r][t].at)
    BY <1>2, <2>1 DEF First, FirstLife
  <2>3. t = turns[r] /\ ((run[r].st = "running" /\ run[r].owner = ex[r][t].at) \/ run[r].st \in Restorable)
    BY <2>1, <2>2 DEF FirstTurn
  <2> QED BY <2>1, <2>2, <2>3 DEF RunKept
<1> QED BY <1>1, <1>2 DEF FirstTurn

\* Run r is written, the others are not.
OnlyWrites(r) ==
    \A q \in Runs \ {r} : run'[q] = run[q] /\ lease'[q] = lease[q] /\ ex'[q] = ex[q] /\ turns'[q] = turns[q]

\* A step of one run that was past its admission and stays past it.
LEMMA FirstStep ==
    ASSUME TypeInv, FirstInv, NEW r \in Runs, OnlyWrites(r),
           UNCHANGED <<req, reap, up, beating, boots, recov>>,
           \A t \in Turns : Live(r, t)' => ex'[r][t].at \in Inst /\ up[ex'[r][t].at],
           \/ run'[r].st = run[r].st
           \/ run[r].st \notin {"absent", "pending"} /\ run'[r].st \notin {"absent", "pending"},
           AnyFirst => FirstTurn(r)' /\ FirstMark(r)'
    PROVE  FirstInv'
<1>1. \A i \in Inst : First(i)' <=> First(i)
  BY DEF First, FirstLife
<1>2. TurnUp'
  BY DEF FirstInv, TurnUp, OnlyWrites, Live
<1> SUFFICES ASSUME AnyFirst' PROVE FirstBody'
  BY <1>2 DEF FirstInv
<1>3. AnyFirst /\ FirstBody
  BY <1>1 DEF FirstInv, AnyFirst
<1>4. ASSUME NEW q \in Runs \ {r} PROVE FirstTurn(q)' /\ FirstMark(q)'
  <2>1. FirstTurn(q) /\ FirstMark(q) /\ TurnUp
    BY <1>3 DEF FirstBody, FirstInv
  <2>2. RunKept(q)
    BY <2>1 DEF RunKept, OnlyWrites, FirstMark, Live
  <2> QED BY <1>1, <2>1, <2>2, RunKeeps
<1>5. \A q \in Runs : \/ run'[q].st = run[q].st
                      \/ run[q].st \notin {"absent", "pending"} /\ run'[q].st \notin {"absent", "pending"}
  BY DEF OnlyWrites
<1>6. ASSUME NEW c \in Clients PROVE ReqFresh(c)'
  <2>1. ReqFresh(c) /\ (req[c].kind # "none" => req[c].run \in Runs)
    BY <1>3 DEF FirstBody, TypeInv, Grounded, ReqGrounded
  <2> QED BY <1>5, <2>1 DEF ReqFresh
<1>7. ASSUME NEW j \in Inst PROVE ReapPast(j)'
  BY <1>1, <1>3, <1>5 DEF FirstBody, ReapPast
<1>8. \A i \in Inst : First(i)' => beating'[i]
  BY <1>1, <1>3 DEF FirstBody
<1> QED BY <1>3, <1>4, <1>6, <1>7, <1>8 DEF FirstBody

\* The same for a run that starts no turn.
LEMMA FirstKept ==
    ASSUME TypeInv, FirstInv, NEW r \in Runs, OnlyWrites(r),
           UNCHANGED <<req, reap, up, beating, boots, recov>>,
           \/ run'[r].st = run[r].st
           \/ run[r].st \notin {"absent", "pending"} /\ run'[r].st \notin {"absent", "pending"},
           AnyFirst /\ FirstTurn(r) /\ FirstMark(r) => RunKept(r),
           \A t \in Turns : Live(r, t)' => Live(r, t) /\ ex'[r][t].at = ex[r][t].at
    PROVE  FirstInv'
<1>1. \A i \in Inst : First(i)' => First(i)
  BY DEF First, FirstLife
<1>2. TurnUp /\ (AnyFirst => FirstTurn(r) /\ FirstMark(r))
  BY DEF FirstInv, FirstBody
<1>3. AnyFirst => FirstTurn(r)' /\ FirstMark(r)'
  BY <1>1, <1>2, RunKeeps
<1>4. \A t \in Turns : Live(r, t)' => ex'[r][t].at \in Inst /\ up[ex'[r][t].at]
  BY <1>2 DEF TurnUp
<1> QED BY <1>3, <1>4, FirstStep

\* What an executor's step writes: its own turn, and the row only to settle it or to
\* renew its mark.
LEMMA ExecutorWrites ==
    ASSUME TypeInv, NEW i \in Inst, NEW r \in Runs, NEW t \in Turns, Executor(i, r, t)
    PROVE  /\ OnlyWrites(r) /\ UNCHANGED <<req, reap, up, beating, boots, recov, turns>>
           /\ \A u \in Turns : Live(r, u)' => Live(r, u) /\ ex'[r][u].at = ex[r][u].at
           /\ \/ run'[r].st = run[r].st /\ run'[r].owner = run[r].owner /\ (run'[r].old => run[r].old)
              \/ /\ run[r].st \notin {"absent", "deleted"} /\ run'[r].st \in Restorable /\ run'[r].old = FALSE
           /\ lease'[r] = lease[r] \/ (up[i] /\ lease'[r] = activated(i, lease[r]))
<1>0. /\ TypeOK /\ run \in [Runs -> RunType] /\ lease \in [Runs -> LeaseType]
      /\ UNCHANGED <<req, turns, reap, up, beating, boots, recov>>
  BY DEF TypeInv, TypeOK, RunType, LeaseType, Executor, Prepare, PrepareFail, Persist, StartupFail, Finish,
         FinishDbFault, Complete, ActivateExecuted, ActivateFail, fleet
<1>1. Live(r, t)
  BY DEF Live, At, Executor, Prepare, PrepareFail, Persist, StartupFail, Finish, FinishDbFault, Complete,
         ActivateExecuted, ActivateFail
<1>2. Stop(r, t) \/ \E pc \in Pcs : Move(r, t, pc)
  BY DEF Executor, Prepare, PrepareFail, Persist, StartupFail, Finish, FinishDbFault, Complete,
         ActivateExecuted, ActivateFail, Pcs
<1>3. /\ \A u \in Turns : Live(r, u)' => Live(r, u) /\ ex'[r][u].at = ex[r][u].at
      /\ \A q \in Runs \ {r} : ex'[q] = ex[q]
  BY <1>1, <1>2, ExWrites DEF Live, Idle
<1>4. \/ UNCHANGED lease
      \/ up[i] /\ lease' = [lease EXCEPT ![r] = activated(i, lease[r])]
  BY DEF Executor, Prepare, PrepareFail, Persist, StartupFail, Finish, FinishDbFault, Complete,
         ActivateExecuted, ActivateFail, At, rows
<1>5. \/ UNCHANGED run
      \/ run' = [run EXCEPT ![r].old = FALSE]
      \/ \E o \in Restorable : Exists(r) /\ Settle(r, o)
      \/ \E o \in Terminal : Exists(r) /\ run' = [run EXCEPT ![r] = Row(o, @.owner, FALSE)]
  <2>1. ex[r][t].pc = "admitted" => ex[r][t].back \in Restorable
    BY DEF TypeInv, Grounded
  <2>2. CASE Prepare(i, r, t) \/ Persist(i, r, t) \/ ActivateExecuted(i, r, t) \/ Complete(i, r, t)
             \/ FinishDbFault(i, r, t)
    BY <2>2 DEF Prepare, Persist, ActivateExecuted, Complete, FinishDbFault, rows
  <2>3. CASE StartupFail(i, r, t)
    BY <2>1, <2>3 DEF StartupFail, At
  <2>4. CASE ActivateFail(i, r, t)
    BY <2>4 DEF ActivateFail, Restorable, Terminal, Exists
  <2>5. ASSUME NEW o \in Terminal, PrepareFail(i, r, t, o)
        PROVE  UNCHANGED run \/ (Exists(r) /\ run' = [run EXCEPT ![r] = Row(o, @.owner, FALSE)])
    BY <2>5 DEF PrepareFail, Exists
  <2>6. ASSUME NEW o \in Terminal, Finish(i, r, t, o)
        PROVE  UNCHANGED run \/ \E p \in Restorable : Exists(r) /\ Settle(r, p)
    BY <2>6 DEF Finish, Exists, Restorable, Terminal
  <2> QED BY <2>2, <2>3, <2>4, <2>5, <2>6 DEF Executor
<1>6. /\ \A q \in Runs \ {r} : run'[q] = run[q] /\ lease'[q] = lease[q]
      /\ \/ run'[r].st = run[r].st /\ run'[r].owner = run[r].owner /\ (run'[r].old => run[r].old)
         \/ Exists(r) /\ run'[r].st \in Restorable /\ run'[r].old = FALSE
      /\ lease'[r] = lease[r] \/ (up[i] /\ lease'[r] = activated(i, lease[r]))
  <2>1. CASE UNCHANGED run
    BY <1>0, <1>4, <2>1
  <2>2. CASE run' = [run EXCEPT ![r].old = FALSE]
    BY <1>0, <1>4, <2>2 DEF RunType
  <2>3. ASSUME NEW o \in Restorable, Exists(r), Settle(r, o)
        PROVE  run'[r].st = o /\ run'[r].old = FALSE /\ \A q \in Runs \ {r} : run'[q] = run[q]
    BY <1>0, <2>3 DEF Settle, Row
  <2>4. ASSUME NEW o \in Terminal, Exists(r), run' = [run EXCEPT ![r] = Row(o, @.owner, FALSE)]
        PROVE  run'[r].st = o /\ run'[r].old = FALSE /\ \A q \in Runs \ {r} : run'[q] = run[q]
    BY <1>0, <2>4 DEF Row
  <2>5. (lease'[r] = lease[r] \/ (up[i] /\ lease'[r] = activated(i, lease[r])))
        /\ \A q \in Runs \ {r} : lease'[q] = lease[q]
    BY <1>0, <1>4
  <2> QED BY <1>5, <2>1, <2>2, <2>3, <2>4, <2>5 DEF Restorable
<1> QED BY <1>0, <1>3, <1>6 DEF OnlyWrites, Exists

LEMMA ExecutorFirst ==
    ASSUME TypeInv, FirstInv, NEW i \in Inst, NEW r \in Runs, NEW t \in Turns, Executor(i, r, t)
    PROVE  FirstInv'
<1>1. /\ OnlyWrites(r) /\ UNCHANGED <<req, reap, up, beating, boots, recov, turns>>
      /\ \A u \in Turns : Live(r, u)' => Live(r, u) /\ ex'[r][u].at = ex[r][u].at
      /\ \/ run'[r].st = run[r].st /\ run'[r].owner = run[r].owner /\ (run'[r].old => run[r].old)
         \/ /\ run[r].st \notin {"absent", "deleted"} /\ run'[r].st \in Restorable /\ run'[r].old = FALSE
      /\ lease'[r] = lease[r] \/ (up[i] /\ lease'[r] = activated(i, lease[r]))
  BY ExecutorWrites
<1>2. Live(r, t)
  BY DEF Live, At, Executor, Prepare, PrepareFail, Persist, StartupFail, Finish, FinishDbFault, Complete,
         ActivateExecuted, ActivateFail
<1>3. (lease'[r].old => lease[r].old /\ lease'[r].owner = lease[r].owner)
      /\ (lease[r].phase = "none" => lease'[r].phase = "none")
  BY <1>1 DEF activated
<1>4. AnyFirst => run[r].st \notin {"absent", "pending"}
  BY <1>2 DEF FirstInv, FirstBody, FirstMark
<1>5. CASE AnyFirst
  <2>1. RunKept(r)
    BY <1>1, <1>3, <1>4, <1>5 DEF RunKept, Restorable, Terminal
  <2>2. \/ run'[r].st = run[r].st
        \/ run[r].st \notin {"absent", "pending"} /\ run'[r].st \notin {"absent", "pending"}
    BY <1>1, <1>4, <1>5 DEF Restorable, Terminal
  <2> QED BY <1>1, <2>1, <2>2, FirstKept
<1>6. CASE ~AnyFirst
  <2>1. ~AnyFirst' /\ TurnUp
    BY <1>1, <1>6 DEF AnyFirst, First, FirstLife, FirstInv
  <2>2. TurnUp'
    BY <1>1, <2>1 DEF TurnUp, OnlyWrites, Live
  <2> QED BY <2>1, <2>2 DEF FirstInv
<1> QED BY <1>5, <1>6

\* Run r gets a new turn on replica i, which claims the row; the row had no turn of a
\* first life.
LEMMA FirstClaims ==
    ASSUME TypeInv, TurnUp, NEW i \in Inst, NEW r \in Runs, CanHost(r), up[i], UNCHANGED <<up, boots>>,
           NEW pc \in {"admitted", "ready"}, NEW back, StartTurn(i, r, pc, back),
           run[r].st \in {"pending", "queued"}, FirstTurn(r), FirstMark(r),
           run' = [run EXCEPT ![r] = Claimed(i, @.chat)],
           lease'[r].old => lease[r].old /\ lease'[r].owner = lease[r].owner
    PROVE  FirstTurn(r)' /\ FirstMark(r)'
<1>1. \A j \in Inst : First(j)' <=> First(j)
  BY DEF First, FirstLife
<1>2. run \in [Runs -> RunType] /\ turns[r] + 1 \in Turns
  BY ConstantsOK DEF TypeInv, TypeOK, RunType, CanHost, Turns
<1>3. run'[r].st = "running" /\ run'[r].owner = i /\ run'[r].old = FALSE
  BY <1>2 DEF Claimed, Row
<1>4. \A t \in Turns : Live(r, t) => ~First(ex[r][t].at)
  BY DEF FirstTurn, Restorable, Terminal
<1>5. /\ turns'[r] = turns[r] + 1
      /\ ex'[r][turns[r] + 1] = [pc |-> pc, at |-> i, back |-> back]
      /\ \A u \in Turns \ {turns[r] + 1} : ex'[r][u] = ex[r][u]
  BY <1>2, ExWrites
<1>6. ASSUME NEW t \in Turns, Live(r, t)', First(ex[r][t].at)' PROVE t = turns'[r] /\ ex'[r][t].at = i
  <2>1. SUFFICES ASSUME t # turns[r] + 1 PROVE FALSE
    BY <1>5
  <2>2. ex'[r][t] = ex[r][t] /\ Live(r, t) /\ ex[r][t].at \in Inst
    BY <1>5, <1>6, <2>1 DEF Live, TurnUp
  <2> QED BY <1>1, <1>4, <1>6, <2>2 DEF First, FirstLife
<1>7. FirstTurn(r)'
  BY <1>3, <1>6 DEF FirstTurn
<1>8. FirstMark(r)'
  BY <1>1, <1>3 DEF FirstMark
<1> QED BY <1>7, <1>8

\* The lease after a reservation and an activation has no older mark than before.
LEMMA LeaseKeepsMark ==
    ASSUME NEW i, NEW l
    PROVE  /\ reserved(l).old => l.old /\ reserved(l).owner = l.owner
           /\ activated(i, l).old => l.old /\ activated(i, l).owner = l.owner
           /\ activated(i, reserved(l)).old => l.old /\ activated(i, reserved(l)).owner = l.owner
BY DEF reserved, activated, NoLease

LEMMA PromoteFirst ==
    ASSUME TypeInv, FirstInv, NEW i \in Inst, NEW r \in Runs, Promote(i, r) PROVE FirstInv'
<1>1. /\ UNCHANGED <<req, reap, up, beating, boots, recov>> /\ up[i] /\ CanHost(r)
      /\ run[r].st = "queued" /\ run' = [run EXCEPT ![r] = Claimed(i, @.chat)]
      /\ lease' = [lease EXCEPT ![r] = activated(i, @)] /\ StartTurn(i, r, "ready", "none")
  BY DEF Promote, fleet, getOldestQueuedRun, Queued
<1>2. TypeOK /\ turns[r] + 1 \in Turns /\ TurnUp
  BY <1>1, ConstantsOK DEF TypeInv, TypeOK, CanHost, Turns, FirstInv
<1>3. /\ run'[r] = Claimed(i, run[r].chat) /\ \A q \in Runs \ {r} : run'[q] = run[q]
      /\ lease'[r] = activated(i, lease[r]) /\ \A q \in Runs \ {r} : lease'[q] = lease[q]
  <2>1. run \in [Runs -> RunType] /\ lease \in [Runs -> LeaseType]
    BY <1>2 DEF TypeOK, RunType, LeaseType
  <2> QED BY <1>1, <2>1
<1>4. /\ ex'[r][turns[r] + 1] = [pc |-> "ready", at |-> i, back |-> "none"]
      /\ \A u \in Turns \ {turns[r] + 1} : ex'[r][u] = ex[r][u]
      /\ \A q \in Runs \ {r} : ex'[q] = ex[q] /\ turns'[q] = turns[q]
  BY <1>1, <1>2, ExWrites
<1>5. OnlyWrites(r)
  BY <1>3, <1>4 DEF OnlyWrites
<1>6. \A t \in Turns : Live(r, t)' => ex'[r][t].at \in Inst /\ up[ex'[r][t].at]
  BY <1>1, <1>2, <1>4 DEF Live, TurnUp
<1>7. AnyFirst => FirstTurn(r)' /\ FirstMark(r)'
  <2> SUFFICES ASSUME AnyFirst PROVE FirstTurn(r)' /\ FirstMark(r)'
    OBVIOUS
  <2>1. FirstTurn(r) /\ FirstMark(r)
    BY DEF FirstInv, FirstBody
  <2>2. lease'[r].old => lease[r].old /\ lease'[r].owner = lease[r].owner
    BY <1>3, LeaseKeepsMark
  <2> QED BY <1>1, <1>2, <2>1, <2>2, FirstClaims
<1>8. run'[r].st = "running"
  BY <1>3 DEF Claimed, Row
<1> QED BY <1>1, <1>5, <1>6, <1>7, <1>8, FirstStep

\* The parts of the invariant after a step that keeps the fleet, given the runs and
\* the requests.
LEMMA FirstParts ==
    ASSUME FirstBody, UNCHANGED <<reap, up, beating, boots, recov>>,
           \A r \in Runs : FirstTurn(r)' /\ FirstMark(r)', RequestsFresh',
           \A q \in Runs : run'[q].st \in {"absent", "pending"} => run[q].st \in {"absent", "pending"}
    PROVE  FirstBody'
<1>1. \A i \in Inst : First(i)' <=> First(i)
  BY DEF First, FirstLife
<1>2. \A j \in Inst : ReapPast(j)'
  BY <1>1 DEF FirstBody, ReapPast
<1> QED BY <1>1, <1>2 DEF FirstBody, RequestsFresh

\* The runs that a step does not write.
LEMMA FirstOthers ==
    ASSUME TurnUp, FirstBody, NEW r \in Runs, OnlyWrites(r), UNCHANGED <<up, boots>>
    PROVE  \A q \in Runs \ {r} : FirstTurn(q)' /\ FirstMark(q)'
<1> SUFFICES ASSUME NEW q \in Runs \ {r} PROVE FirstTurn(q)' /\ FirstMark(q)'
  OBVIOUS
<1>1. FirstTurn(q) /\ FirstMark(q)
  BY DEF FirstBody
<1>2. RunKept(q)
  BY <1>1 DEF RunKept, OnlyWrites, FirstMark, Live
<1>3. \A i \in Inst : First(i)' => First(i)
  BY DEF First, FirstLife
<1> QED BY <1>1, <1>2, <1>3, RunKeeps

\* Queue admission: the row starts, queues, stays or is settled.
LEMMA AdmitFirst == ASSUME TypeInv, FirstInv, NEW c \in Clients, Admit(c) PROVE FirstInv'
<1>0. PICK i \in Inst, r \in Runs : i = req[c].at /\ r = req[c].run
  BY DEF Admit, TypeInv, Grounded, ReqGrounded
<1> DEFINE l == IF Scm THEN reserved(lease[r]) ELSE lease[r]
<1>1. /\ up[i] /\ req[c].kind # "none" /\ req[c].prior \in Restorable /\ req[c].prior \in Statuses
      /\ req' = [req EXCEPT ![c] = NoReq]
      /\ UNCHANGED <<reap, up, beating, boots, recov>>
      /\ run \in [Runs -> RunType] /\ lease \in [Runs -> LeaseType] /\ TypeOK /\ TurnUp
  BY <1>0 DEF Admit, fleet, TypeInv, TypeOK, Grounded, ReqGrounded, RunType, LeaseType, FirstInv
<1> DEFINE Starts == /\ CanHost(r)
                     /\ run' = [run EXCEPT ![r] = Claimed(i, @.chat)]
                     /\ lease' = [lease EXCEPT ![r] = activated(i, l)]
                     /\ \E pc \in {"admitted", "ready"}, back \in Statuses \cup {"none"} : StartTurn(i, r, pc, back)
           Waits  == /\ UNCHANGED <<ex, turns>>
                     /\ \/ UNCHANGED <<run, lease>>
                        \/ /\ run' = [run EXCEPT ![r] = Row("queued", None, @.chat)]
                           /\ lease' = [lease EXCEPT ![r] = l]
                        \/ (\E st \in Restorable : Settle(r, st)) /\ UNCHANGED lease
<1>2. Starts \/ Waits
  BY <1>0, <1>1 DEF Admit, Restorable, Terminal
<1>3. OnlyWrites(r) /\ \A t \in Turns : Live(r, t)' => ex'[r][t].at \in Inst /\ up[ex'[r][t].at]
  <2>1. CASE Starts
    <3>1. PICK pc \in {"admitted", "ready"}, back \in Statuses \cup {"none"} : StartTurn(i, r, pc, back)
      BY <2>1
    <3>2. turns[r] + 1 \in Turns
      BY <1>1, <2>1, ConstantsOK DEF TypeOK, CanHost, Turns
    <3>3. /\ ex'[r][turns[r] + 1] = [pc |-> pc, at |-> i, back |-> back]
          /\ \A u \in Turns \ {turns[r] + 1} : ex'[r][u] = ex[r][u]
          /\ \A q \in Runs \ {r} : ex'[q] = ex[q] /\ turns'[q] = turns[q]
      BY <3>1, <3>2, ExWrites
    <3>4. \A q \in Runs \ {r} : run'[q] = run[q] /\ lease'[q] = lease[q]
      BY <1>1, <2>1
    <3> QED BY <1>1, <3>3, <3>4 DEF OnlyWrites, TurnUp, Live
  <2>2. CASE Waits
    <3>1. \A q \in Runs \ {r} : run'[q] = run[q] /\ lease'[q] = lease[q]
      BY <1>1, <2>2 DEF Settle
    <3> QED BY <1>1, <2>2, <3>1 DEF OnlyWrites, TurnUp, Live
  <2> QED BY <1>2, <2>1, <2>2
<1>4. TurnUp'
  BY <1>1, <1>3 DEF TurnUp, OnlyWrites, Live
<1> SUFFICES ASSUME AnyFirst' PROVE FirstBody'
  BY <1>4 DEF FirstInv
<1>5. FirstBody
  BY <1>1 DEF FirstInv, AnyFirst, First, FirstLife
<1>6. run[r].st = "pending" /\ FirstTurn(r) /\ FirstMark(r) /\ RequestsFresh
  BY <1>0, <1>1, <1>5 DEF FirstBody, ReqFresh, RequestsFresh
<1>7. l.old => lease[r].old /\ l.owner = lease[r].owner
  BY LeaseKeepsMark
<1>8. FirstTurn(r)' /\ FirstMark(r)' /\ (run'[r].st \in {"absent", "pending"} => run'[r].st = run[r].st)
  <2>1. CASE Starts
    <3>1. PICK pc \in {"admitted", "ready"}, back \in Statuses \cup {"none"} : StartTurn(i, r, pc, back)
      BY <2>1
    <3>2. lease'[r] = activated(i, l) /\ run'[r].st = "running"
      BY <1>1, <2>1 DEF Claimed, Row
    <3>3. activated(i, l).old => l.old /\ activated(i, l).owner = l.owner
      BY LeaseKeepsMark
    <3>4. lease'[r].old => lease[r].old /\ lease'[r].owner = lease[r].owner
      BY <1>7, <3>2, <3>3
    <3>5. UNCHANGED <<up, boots>>
      BY <1>1
    <3> QED BY <1>1, <1>6, <2>1, <3>1, <3>2, <3>4, <3>5, FirstClaims
  <2>2. CASE Waits
    <3>1. /\ \/ run'[r] = run[r] /\ lease'[r] = lease[r]
             \/ run'[r].st \in {"queued"} \cup Restorable /\ run'[r].old = FALSE
          /\ lease'[r] = lease[r] \/ lease'[r] = l
      BY <1>1, <2>2 DEF Settle, Row
    <3>2. \A t \in Turns : ~Live(r, t)
      BY <1>6 DEF FirstMark
    <3>3. RunKept(r)
      BY <1>6, <1>7, <2>2, <3>1, <3>2 DEF RunKept, Live, FirstMark, Restorable, Terminal
    <3>4. \A j \in Inst : First(j)' => First(j)
      BY <1>1 DEF First, FirstLife
    <3> QED BY <1>1, <1>6, <3>1, <3>3, <3>4, RunKeeps DEF Restorable, Terminal
  <2> QED BY <1>2, <2>1, <2>2
<1>9. \A q \in Runs : FirstTurn(q)' /\ FirstMark(q)'
  BY <1>1, <1>3, <1>5, <1>8, FirstOthers
<1>10. RequestsFresh'
  <2>1. \A q \in Runs \ {req[c].run} : run'[q] = run[q]
    BY <1>0, <1>3 DEF OnlyWrites
  <2> QED BY <1>1, <1>6, <2>1, AnsweredRequest DEF RequestsFresh
<1>11. \A q \in Runs : run'[q].st \in {"absent", "pending"} => run[q].st \in {"absent", "pending"}
  BY <1>3, <1>8 DEF OnlyWrites
<1> QED BY <1>1, <1>5, <1>9, <1>10, <1>11, FirstParts

\* A new row, with the request that inserts it or without one.
LEMMA InsertFirst ==
    ASSUME TypeInv, FirstInv, NEW r \in Runs, run[r].st = "absent",
           run' = [run EXCEPT ![r] = Row("pending", None, FALSE)],
           UNCHANGED <<lease, ex, turns, reap, up, beating, boots, recov>>,
           \/ UNCHANGED req
           \/ \E c \in Clients, i \in Inst : Request(c, i, r, "new", "deleted")
    PROVE  FirstInv'
<1>1. TurnUp'
  BY DEF FirstInv, TurnUp, Live
<1> SUFFICES ASSUME AnyFirst' PROVE FirstBody'
  BY <1>1 DEF FirstInv
<1>2. FirstBody /\ TurnUp
  BY DEF FirstInv, AnyFirst, First, FirstLife
<1>3. FirstTurn(r) /\ FirstMark(r) /\ RequestsFresh
  BY <1>2 DEF FirstBody, RequestsFresh
<1>4. run'[r].st = "pending" /\ run'[r].old = FALSE /\ \A q \in Runs \ {r} : run'[q] = run[q]
  BY DEF TypeInv, TypeOK, Row
<1>5. OnlyWrites(r)
  BY <1>4 DEF OnlyWrites
<1>6. RunKept(r)
  BY <1>3, <1>4 DEF RunKept, FirstMark, Live
<1>7. \A j \in Inst : First(j)' => First(j)
  BY DEF First, FirstLife
<1>8. FirstTurn(r)' /\ FirstMark(r)'
  BY <1>2, <1>3, <1>6, <1>7, RunKeeps
<1>9. RequestsFresh'
  BY <1>3, RequestInserts DEF RequestsFresh
<1>10. \A q \in Runs : FirstTurn(q)' /\ FirstMark(q)'
  BY <1>2, <1>5, <1>8, FirstOthers
<1>11. \A q \in Runs : run'[q].st \in {"absent", "pending"} => run[q].st \in {"absent", "pending"}
  BY <1>4
<1> QED BY <1>2, <1>9, <1>10, <1>11, FirstParts

\* Cancellation and retention settle a row; releases and sweeps take leases away.
LEMMA SettleFirst ==
    ASSUME TypeInv, FirstInv, NEW r \in Runs,
           \/ Cancel(r) \/ Delete(r)
           \/ \E i \in Inst : Release(i, r) \/ SweepMem(i, r) \/ SweepLease(i, r)
    PROVE  FirstInv'
<1>1. /\ UNCHANGED <<ex, turns, req, reap, up, beating, boots, recov>>
      /\ \/ UNCHANGED run
         \/ run[r].st \in {"queued", "running"} \cup Terminal /\ \E st \in {"cancelled", "deleted"} : Settle(r, st)
      /\ \/ UNCHANGED lease
         \/ lease' = [lease EXCEPT ![r] = NoLease]
         \/ lease' = [lease EXCEPT ![r] = IF @.phase = "reserved" THEN NoLease ELSE @]
  BY DEF Cancel, Delete, Release, SweepMem, SweepLease, fleet, rows
<1>2. /\ \A q \in Runs \ {r} : run'[q] = run[q] /\ lease'[q] = lease[q]
      /\ \/ run'[r] = run[r]
         \/ run[r].st \notin {"absent", "pending"} /\ run'[r].st \in Restorable /\ run'[r].old = FALSE
      /\ lease'[r] = lease[r] \/ lease'[r] = NoLease
  <2>1. run \in [Runs -> RunType] /\ lease \in [Runs -> LeaseType]
    BY DEF TypeInv, TypeOK, RunType, LeaseType
  <2>2. (lease'[r] = lease[r] \/ lease'[r] = NoLease) /\ \A q \in Runs \ {r} : lease'[q] = lease[q]
    BY <1>1, <2>1
  <2>3. /\ \A q \in Runs \ {r} : run'[q] = run[q]
        /\ \/ run'[r] = run[r]
           \/ run[r].st \notin {"absent", "pending"} /\ run'[r].st \in Restorable /\ run'[r].old = FALSE
    BY <1>1, <2>1 DEF Settle, Row, Restorable, Terminal
  <2> QED BY <2>2, <2>3
<1>3. OnlyWrites(r)
  BY <1>1, <1>2 DEF OnlyWrites
<1>4. AnyFirst /\ FirstTurn(r) /\ FirstMark(r) => RunKept(r)
  BY <1>1, <1>2 DEF RunKept, FirstMark, NoLease, Live, Restorable, Terminal
<1>5. \A t \in Turns : Live(r, t)' => Live(r, t) /\ ex'[r][t].at = ex[r][t].at
  BY <1>1 DEF Live
<1>6. \/ run'[r].st = run[r].st
      \/ run[r].st \notin {"absent", "pending"} /\ run'[r].st \notin {"absent", "pending"}
  BY <1>2 DEF Restorable, Terminal
<1> QED BY <1>1, <1>3, <1>4, <1>5, <1>6, FirstKept

\* A dead owner is never a replica in its first life: that one beats, and its marks
\* are not old.
LEMMA PickFirst ==
    ASSUME TypeInv, FirstInv, NEW j \in Inst, NEW r \in Runs, ReapPick(j, r)
    PROVE  FirstInv'
<1>1. UNCHANGED <<run, lease, req, ex, turns, up, beating, boots, recov>>
  BY DEF ReapPick, others
<1>2. \A i \in Inst : First(i)' <=> First(i)
  BY <1>1 DEF First, FirstLife
<1>3. TurnUp'
  BY <1>1 DEF FirstInv, TurnUp, Live
<1> SUFFICES ASSUME AnyFirst' PROVE FirstBody'
  BY <1>3 DEF FirstInv
<1>4. FirstBody /\ TurnUp
  BY <1>2 DEF FirstInv, AnyFirst
<1>5. FirstMark(r) /\ \A i \in Inst : First(i) => beating[i]
  BY <1>4 DEF FirstBody
<1>6. \A k \in Inst \ {j} : reap'[k] = reap[k]
  BY DEF ReapPick, TypeInv, TypeOK
<1>7. ReapPast(j)'
  <2>1. CASE /\ lease[r].phase = "active" /\ isLeaseOwnerDead(lease[r])
             /\ reap'[j] = [kind |-> "scm", run |-> r, owner |-> lease[r].owner]
    <3>1. run[r].st \notin {"absent", "pending"}
      BY <1>5, <2>1 DEF FirstMark
    <3>2. \A i \in Inst : First(i) => lease[r].owner # i
      BY <1>5, <2>1, ConstantsOK DEF FirstMark, isLeaseOwnerDead, isInstanceOwnerDead
    <3> QED BY <1>1, <1>2, <2>1, <3>1, <3>2 DEF ReapPast
  <2>2. CASE /\ run[r].st = "running" /\ isInstanceOwnerDead(run[r].owner, run[r].old)
             /\ reap'[j] = [kind |-> "orphan", run |-> r, owner |-> run[r].owner]
    <3>1. \A i \in Inst : First(i) => run[r].owner # i
      BY <1>5, <2>2 DEF FirstMark, isInstanceOwnerDead
    <3> QED BY <1>1, <1>2, <2>2, <3>1 DEF ReapPast
  <2> QED BY <2>1, <2>2 DEF ReapPick, TypeInv, TypeOK
<1>8. ASSUME NEW k \in Inst \ {j} PROVE ReapPast(k)'
  <2>1. ReapPast(k)
    BY <1>4 DEF FirstBody
  <2> QED BY <1>1, <1>2, <1>6, <2>1 DEF ReapPast
<1>9. ASSUME NEW q \in Runs PROVE FirstTurn(q)' /\ FirstMark(q)'
  <2>1. FirstTurn(q) /\ FirstMark(q)
    BY <1>4 DEF FirstBody
  <2>2. RunKept(q)
    BY <1>1, <2>1 DEF RunKept, FirstMark, Live
  <2> QED BY <1>2, <1>4, <2>1, <2>2, RunKeeps
<1>10. \A c \in Clients : ReqFresh(c)'
  BY <1>1, <1>4 DEF FirstBody, ReqFresh
<1> QED BY <1>1, <1>2, <1>4, <1>7, <1>8, <1>9, <1>10 DEF FirstBody

\* A candidate that a reaper may still claim has no turn on a replica in its first life.
LEMMA ReapableIsPast ==
    ASSUME TypeInv, TurnUp, FirstBody, NEW j \in Inst, reap[j] # NoReap, Reapable(reap[j])
    PROVE  /\ reap[j].run \in Runs
           /\ run[reap[j].run].st \in {"running", "queued"}
           /\ \A t \in Turns : Live(reap[j].run, t) => ~First(ex[reap[j].run][t].at)
<1>1. PICK r \in Runs : r = reap[j].run /\ run[r].st \notin {"absent", "pending"}
                        /\ \A i \in Inst : First(i) => reap[j].owner # i
  BY DEF FirstBody, ReapPast
<1>2. run[r].st \in {"running", "queued"} /\ run[r].owner \in {None, reap[j].owner}
  BY <1>1 DEF Reapable
<1>3. ASSUME NEW t \in Turns, Live(r, t), First(ex[r][t].at) PROVE FALSE
  <2>1. ex[r][t].at \in Inst /\ ex[r][t].at # None
    BY <1>3, ConstantsOK DEF TurnUp
  <2>2. FirstTurn(r)
    BY DEF FirstBody
  <2>3. run[r].owner = ex[r][t].at
    BY <1>2, <1>3, <2>2 DEF FirstTurn, Restorable, Terminal
  <2> QED BY <1>1, <1>2, <1>3, <2>1, <2>3
<1> QED BY <1>1, <1>2, <1>3

\* The reaper's CAS.
LEMMA ResolveFirst == ASSUME TypeInv, FirstInv, NEW j \in Inst, ReapResolve(j) PROVE FirstInv'
<1>1. /\ UNCHANGED <<lease, req, ex, turns, up, beating, boots, recov>>
      /\ reap'[j] = NoReap /\ \A k \in Inst \ {j} : reap'[k] = reap[k]
  BY DEF ReapResolve, TypeInv, TypeOK
<1>2. \A i \in Inst : First(i)' <=> First(i)
  BY <1>1 DEF First, FirstLife
<1>3. TurnUp'
  BY <1>1 DEF FirstInv, TurnUp, Live
<1> SUFFICES ASSUME AnyFirst' PROVE FirstBody'
  BY <1>3 DEF FirstInv
<1>4. FirstBody /\ TurnUp
  BY <1>2 DEF FirstInv, AnyFirst
<1>5. \A q \in Runs : \/ run'[q] = run[q]
                      \/ /\ run[q].st \in {"running", "queued"} /\ run'[q].st \in {"failed", "queued"}
                         /\ run'[q].old = FALSE
                         /\ \A t \in Turns : Live(q, t) => ~First(ex[q][t].at)
  <2>1. CASE UNCHANGED run
    BY <2>1
  <2>2. CASE ~UNCHANGED run
    <3>1. Reapable(reap[j]) /\ reap[j] # NoReap
      BY <2>2 DEF ReapResolve
    <3>2. PICK r \in Runs : /\ r = reap[j].run /\ run[r].st \in {"running", "queued"}
                            /\ \A t \in Turns : Live(r, t) => ~First(ex[r][t].at)
      BY <1>4, <3>1, ReapableIsPast
    <3>3. Settle(r, "failed") \/ run' = [run EXCEPT ![r] = Row("queued", None, FALSE)]
      BY <2>2, <3>2 DEF ReapResolve
    <3>4. run'[r].st \in {"failed", "queued"} /\ run'[r].old = FALSE /\ \A q \in Runs \ {r} : run'[q] = run[q]
      <4>1. run \in [Runs -> RunType]
        BY DEF TypeInv, TypeOK, RunType
      <4> QED BY <3>3, <4>1 DEF Settle, Row
    <3> QED BY <3>2, <3>4
  <2> QED BY <2>1, <2>2
<1>6. ASSUME NEW q \in Runs PROVE FirstTurn(q)' /\ FirstMark(q)'
  <2>1. FirstTurn(q) /\ FirstMark(q)
    BY <1>4 DEF FirstBody
  <2>2. RunKept(q)
    BY <1>1, <1>5, <2>1 DEF RunKept, FirstMark, Live
  <2> QED BY <1>2, <1>4, <2>1, <2>2, RunKeeps
<1>7. ASSUME NEW c \in Clients PROVE ReqFresh(c)'
  <2>1. ReqFresh(c) /\ (req[c].kind # "none" => req[c].run \in Runs)
    BY <1>4 DEF FirstBody, TypeInv, Grounded, ReqGrounded
  <2>2. req[c].kind # "none" => run'[req[c].run] = run[req[c].run]
    BY <1>5, <2>1 DEF ReqFresh
  <2> QED BY <1>1, <2>1, <2>2 DEF ReqFresh
<1>8. ASSUME NEW k \in Inst PROVE ReapPast(k)'
  <2>1. ReapPast(k)
    BY <1>4 DEF FirstBody
  <2>2. CASE k = j
    BY <1>1, <2>2 DEF ReapPast
  <2>3. CASE k # j
    BY <1>1, <1>2, <1>5, <2>1, <2>3 DEF ReapPast
  <2> QED BY <2>2, <2>3
<1> QED BY <1>1, <1>2, <1>4, <1>6, <1>7, <1>8 DEF FirstBody

\* A crash ends the replica's life, and its turns, requests and candidates with it.
LEMMA CrashFirst == ASSUME TypeInv, FirstInv, NEW i \in Inst, Crash(i) PROVE FirstInv'
<1>1. /\ \A r \in Runs, t \in Turns : ex'[r][t] = IF ex[r][t].at = i THEN Idle ELSE ex[r][t]
      /\ \A c \in Clients : req'[c] = IF req[c].at = i THEN NoReq ELSE req[c]
      /\ reap'[i] = NoReap /\ up'[i] = FALSE
      /\ \A j \in Inst \ {i} : reap'[j] = reap[j] /\ up'[j] = up[j]
      /\ UNCHANGED <<run, lease, turns, beating, boots>> /\ recov' = NoRecovery
  BY DEF Crash, rows, TypeInv, TypeOK
<1>2. \A j \in Inst : First(j)' => First(j)
  BY <1>1 DEF First, FirstLife
<1>3. \A r \in Runs, t \in Turns : Live(r, t)' => Live(r, t) /\ ex'[r][t] = ex[r][t] /\ ex[r][t].at # i
  BY <1>1 DEF Live, Idle
<1>4. TurnUp'
  BY <1>1, <1>3 DEF FirstInv, TurnUp
<1> SUFFICES ASSUME AnyFirst' PROVE FirstBody'
  BY <1>4 DEF FirstInv
<1>5. FirstBody /\ TurnUp
  BY <1>2 DEF FirstInv, AnyFirst
<1>6. ASSUME NEW r \in Runs PROVE FirstTurn(r)' /\ FirstMark(r)'
  <2>1. FirstTurn(r) /\ FirstMark(r)
    BY <1>5 DEF FirstBody
  <2>2. RunKept(r)
    BY <1>1, <1>3, <2>1 DEF RunKept, FirstMark
  <2> QED BY <1>2, <1>5, <2>1, <2>2, RunKeeps
<1>7. ASSUME NEW c \in Clients PROVE ReqFresh(c)'
  <2>1. \A d \in Clients : req'[d].kind # "none" => req'[d] = req[d]
    BY <1>1 DEF NoReq
  <2>2. ReqFresh(c)
    BY <1>5 DEF FirstBody
  <2> QED BY <1>1, <2>1, <2>2 DEF ReqFresh
<1>8. ASSUME NEW j \in Inst PROVE ReapPast(j)'
  <2>1. ReapPast(j)
    BY <1>5 DEF FirstBody
  <2> QED BY <1>1, <1>2, <2>1 DEF ReapPast
<1> QED BY <1>1, <1>2, <1>5, <1>6, <1>7, <1>8 DEF FirstBody

\* Expiry and restart: only a replica that is down stops beating, and the marks that
\* a restart makes old are those of its own id.
LEMMA ReturnFirst == ASSUME TypeInv, FirstInv, NEW i \in Inst, Expire(i) \/ Boot(i) PROVE FirstInv'
<1>1. /\ UNCHANGED <<req, ex, turns, reap>> /\ ~up[i]
      /\ \A j \in Inst : up[j] => up'[j]
      /\ \A j \in Inst \ {i} : beating'[j] = beating[j]
  BY DEF Expire, Boot, others, TypeInv, TypeOK
<1>2. \A j \in Inst : First(j)' => First(j) /\ j # i
  <2>1. CASE Expire(i)
    BY <1>1, <2>1 DEF Expire, others, First, FirstLife
  <2>2. CASE Boot(i)
    <3>1. boots'[i] # 0 /\ \A j \in Inst \ {i} : up'[j] = up[j] /\ boots'[j] = boots[j]
      BY <2>2, ConstantsOK DEF Boot, TypeInv, TypeOK
    <3> QED BY <3>1 DEF First, FirstLife
  <2> QED BY <2>1, <2>2
<1>3. TurnUp'
  BY <1>1 DEF FirstInv, TurnUp, Live
<1> SUFFICES ASSUME AnyFirst' PROVE FirstBody'
  BY <1>3 DEF FirstInv
<1>4. FirstBody /\ TurnUp /\ ~Sqlite
  <2>1. PICK j \in Inst : First(j)' /\ First(j) /\ j # i
    BY <1>2 DEF AnyFirst
  <2> QED BY <2>1, ConstantsOK DEF FirstInv, AnyFirst
<1>5. recov' = NoRecovery
  BY <1>4 DEF Expire, Boot, FirstBody
<1>6. \A r \in Runs : /\ run'[r].st = run[r].st /\ run'[r].owner = run[r].owner
                      /\ run'[r].old => run[r].old \/ run[r].owner = i
                      /\ lease'[r].phase = lease[r].phase /\ lease'[r].owner = lease[r].owner
                      /\ lease'[r].old => lease[r].old \/ lease[r].owner = i
  <2>1. run \in [Runs -> RunType] /\ lease \in [Runs -> LeaseType]
    BY DEF TypeInv, TypeOK, RunType, LeaseType
  <2>2. CASE Expire(i)
    BY <2>2 DEF Expire, others
  <2>3. CASE Boot(i)
    BY <2>1, <2>3 DEF Boot, RunType, LeaseType
  <2> QED BY <2>2, <2>3
<1>7. ASSUME NEW r \in Runs PROVE FirstTurn(r)' /\ FirstMark(r)'
  <2>1. FirstTurn(r) /\ FirstMark(r)
    BY <1>4 DEF FirstBody
  <2>2. FirstMark(r)'
    BY <1>1, <1>2, <1>6, <2>1 DEF FirstMark, Live
  <2>3. ASSUME NEW t \in Turns, Live(r, t)', First(ex[r][t].at)' PROVE First(ex[r][t].at) /\ Live(r, t)
    BY <1>1, <1>2, <1>4, <2>3 DEF Live, TurnUp, First, FirstLife
  <2>4. FirstTurn(r)'
    BY <1>1, <1>6, <2>1, <2>3 DEF FirstTurn
  <2> QED BY <2>2, <2>4
<1>8. ASSUME NEW c \in Clients PROVE ReqFresh(c)'
  <2>1. ReqFresh(c) /\ (req[c].kind # "none" => req[c].run \in Runs)
    BY <1>4 DEF FirstBody, TypeInv, Grounded, ReqGrounded
  <2> QED BY <1>1, <1>6, <2>1 DEF ReqFresh
<1>9. ASSUME NEW j \in Inst PROVE ReapPast(j)'
  <2>1. ReapPast(j)
    BY <1>4 DEF FirstBody
  <2> QED BY <1>1, <1>2, <1>6, <2>1 DEF ReapPast
<1>10. \A j \in Inst : First(j)' => beating'[j]
  BY <1>1, <1>2, <1>4 DEF FirstBody
<1> QED BY <1>5, <1>7, <1>8, <1>9, <1>10 DEF FirstBody

\* Startup recovery runs in a process that has restarted, on SQLite, where there is no other.
LEMMA RecoverFirst ==
    ASSUME TypeInv, FirstInv,
           RecoverScan \/ RecoverScanStale \/ \E r \in Runs : RecoverRun(r) \/ RecoverStale(r)
    PROVE  FirstInv'
<1>1. recov.phase # "off" /\ UNCHANGED <<ex, up, boots>>
  BY DEF RecoverScan, RecoverScanStale, RecoverRun, RecoverStale, others
<1>2. ~AnyFirst /\ TurnUp
  BY <1>1 DEF FirstInv, FirstBody, NoRecovery
<1>3. ~AnyFirst' /\ TurnUp'
  BY <1>1, <1>2 DEF AnyFirst, First, FirstLife, TurnUp, Live
<1> QED BY <1>3 DEF FirstInv

\* Every step of the workload keeps the invariant.
LEMMA FirstNext == ASSUME RestartWorkload, TypeInv, FirstInv, [Next]_vars PROVE FirstInv'
<1>1. ASSUME NEW c \in Clients, Client(c) PROVE FirstInv'
  <2>1. ASSUME NEW i \in Inst, NEW r \in Runs, Submit(c, i, r) PROVE FirstInv'
    <3>1. /\ run[r].st = "absent" /\ run' = [run EXCEPT ![r] = Row("pending", None, FALSE)]
          /\ UNCHANGED <<lease, ex, turns, reap, up, beating, boots, recov>>
          /\ Request(c, i, r, "new", "deleted")
      BY <2>1 DEF Submit, NextRow, fleet
    <3> QED BY <3>1, InsertFirst
  <2>2. ~ \E i \in Inst, r \in Runs : Retry(c, i, r) \/ FollowUp(c, i, r)
    BY DEF Retry, FollowUp, RestartWorkload
  <2> QED BY <1>1, <2>1, <2>2, AdmitFirst DEF Client
<1>2. ASSUME NEW r \in Runs, Create(r) PROVE FirstInv'
  <2>1. /\ run[r].st = "absent" /\ run' = [run EXCEPT ![r] = Row("pending", None, FALSE)]
        /\ UNCHANGED <<lease, ex, turns, reap, up, beating, boots, recov, req>>
    BY <1>2 DEF Create, NextRow, fleet
  <2> QED BY <2>1, InsertFirst
<1>3. \A i \in Inst, r \in Runs : ~Execute(i, r)
  BY DEF Execute, RestartWorkload
<1>4. ASSUME NEW j \in Inst, Sweeper(j) PROVE FirstInv'
  BY <1>4, ResolveFirst, PickFirst, SettleFirst DEF Sweeper
<1>5. CASE UNCHANGED vars
  <2>1. UNCHANGED <<run, lease, req, ex, turns, reap, up, beating, boots, recov>>
    BY <1>5 DEF vars
  <2>2. TurnUp' /\ (AnyFirst' => AnyFirst) /\ \A i \in Inst : First(i)' <=> First(i)
    BY <2>1 DEF FirstInv, TurnUp, Live, AnyFirst, First, FirstLife
  <2>3. ASSUME FirstBody PROVE FirstBody'
    <3>1. \A r \in Runs : FirstTurn(r)' /\ FirstMark(r)'
      BY <2>1, <2>3 DEF FirstBody, FirstTurn, FirstMark, Live, First, FirstLife
    <3>2. RequestsFresh'
      BY <2>1, <2>3 DEF FirstBody, ReqFresh, RequestsFresh
    <3> QED BY <2>1, <2>3, <3>1, <3>2, FirstParts
  <2> QED BY <2>2, <2>3 DEF FirstInv
<1> QED
  BY <1>1, <1>2, <1>3, <1>4, <1>5, PromoteFirst, ExecutorFirst, SettleFirst, CrashFirst, ReturnFirst, RecoverFirst
  DEF Next

\* An empty database and idle replicas satisfy it.
LEMMA FirstInit == Init => FirstInv
<1> SUFFICES ASSUME Init PROVE FirstInv
  OBVIOUS
<1>1. \A r \in Runs : FirstTurn(r) /\ FirstMark(r)
  BY DEF Init, FirstTurn, FirstMark, Live, Idle, Row, NoLease
<1> QED BY <1>1 DEF Init, FirstInv, FirstBody, TurnUp, ReqFresh, ReapPast, NoReq, Live, Idle

\* A reaper's candidate is a run.
ReapNamed == \A j \in Inst : reap[j] # NoReap => reap[j].run \in Runs

LEMMA ReapNamedNext == ASSUME TypeInv, ReapNamed, [Next]_vars PROVE ReapNamed'
<1>0. CASE UNCHANGED reap
  BY <1>0 DEF ReapNamed
<1>1. ASSUME NEW c \in Clients, Client(c) PROVE UNCHANGED reap
  BY <1>1 DEF Client, Admit, Submit, Retry, FollowUp, fleet
<1>2. ASSUME NEW i \in Inst, NEW r \in Runs, Promote(i, r) \/ Release(i, r) \/ Execute(i, r) PROVE UNCHANGED reap
  BY <1>2 DEF Promote, Release, Execute, fleet
<1>3. ASSUME NEW i \in Inst, NEW r \in Runs, NEW t \in Turns, Executor(i, r, t) PROVE UNCHANGED reap
  BY <1>3 DEF Executor, Prepare, PrepareFail, Persist, StartupFail, Finish, FinishDbFault, Complete,
              ActivateExecuted, ActivateFail, fleet
<1>4. ASSUME NEW r \in Runs, Create(r) \/ Cancel(r) \/ Delete(r) \/ RecoverRun(r) \/ RecoverStale(r)
      PROVE  UNCHANGED reap
  BY <1>4 DEF Create, Cancel, Delete, RecoverRun, RecoverStale, fleet
<1>5. ASSUME NEW i \in Inst, Expire(i) \/ Boot(i) PROVE UNCHANGED reap
  BY <1>5 DEF Expire, Boot
<1>6. ASSUME NEW i \in Inst, Crash(i) \/ Sweeper(i) PROVE ReapNamed'
  <2>0. reap \in [Inst -> [kind : {"none", "scm", "orphan"}, run : 0 .. NumRuns, owner : Inst \cup {None}]]
    BY DEF TypeInv, TypeOK
  <2>1. CASE Crash(i) \/ ReapResolve(i)
    BY <2>0, <2>1 DEF Crash, ReapResolve, ReapNamed
  <2>2. ASSUME NEW r \in Runs, SweepMem(i, r) \/ SweepLease(i, r) PROVE ReapNamed'
    BY <1>0, <2>2 DEF SweepMem, SweepLease, fleet
  <2>3. ASSUME NEW r \in Runs, ReapPick(i, r) PROVE ReapNamed'
    <3>1. reap'[i].run = r /\ \A j \in Inst \ {i} : reap'[j] = reap[j]
      BY <2>0, <2>3 DEF ReapPick
    <3> QED BY <3>1 DEF ReapNamed
  <2> QED BY <1>6, <2>1, <2>2, <2>3 DEF Sweeper
<1>7. CASE RecoverScan \/ RecoverScanStale \/ UNCHANGED vars
  BY <1>0, <1>7 DEF RecoverScan, RecoverScanStale, vars
<1> QED BY <1>0, <1>1, <1>2, <1>3, <1>4, <1>5, <1>6, <1>7 DEF Next

\* A reaper settles or requeues no run that executes on a replica in its first life,
\* however late its CAS comes and however often the other replicas restart.
THEOREM ReapersSpareLiveOwners ==
    ASSUME RestartWorkload
    PROVE  Spec => ReapSparesLiveOwner
<1>1. Init => TypeInv /\ FirstInv /\ ReapNamed
  BY TypeInit, FirstInit DEF Init, ReapNamed
<1>2. TypeInv /\ FirstInv /\ ReapNamed /\ [Next]_vars => TypeInv' /\ FirstInv' /\ ReapNamed'
  BY TypeNext, FirstNext, ReapNamedNext
<1>3. TypeInv /\ FirstInv /\ ReapNamed /\ [Next]_vars =>
        [\A j \in Inst : ReapResolve(j) /\ Reapable(reap[j]) =>
            \A t \in Turns : ex[reap[j].run][t].pc \in {"ready", "cli"} =>
                ~FirstLife(ex[reap[j].run][t].at)]_vars
  <2> SUFFICES ASSUME TypeInv, FirstInv, ReapNamed, NEW j \in Inst, ReapResolve(j), Reapable(reap[j]),
                      NEW t \in Turns, ex[reap[j].run][t].pc \in {"ready", "cli"}, FirstLife(ex[reap[j].run][t].at)
               PROVE  FALSE
    OBVIOUS
  <2>1. reap[j] # NoReap /\ TurnUp /\ Live(reap[j].run, t) /\ reap[j].run \in Runs
    BY DEF ReapResolve, FirstInv, Live, ReapNamed
  <2>2. First(ex[reap[j].run][t].at) /\ AnyFirst
    BY <2>1 DEF TurnUp, First, AnyFirst
  <2>3. FirstBody
    BY <2>2 DEF FirstInv
  <2> QED BY <2>1, <2>2, <2>3, ReapableIsPast
<1> QED BY <1>1, <1>2, <1>3, PTL DEF Spec, ReapSparesLiveOwner

\* One row, one CLI process on the replicas in their first life, also when replicas
\* crash, come back and have their runs requeued.
THEOREM RequeuedRunsHostOneTurn ==
    ASSUME RestartWorkload
    PROVE  Spec => []OneTurnPerFirstLife
<1>1. Init => TypeInv /\ FirstInv
  BY TypeInit, FirstInit
<1>2. TypeInv /\ FirstInv /\ [Next]_vars => TypeInv' /\ FirstInv'
  BY TypeNext, FirstNext
<1>3. FirstInv => OneTurnPerFirstLife
  <2> SUFFICES ASSUME FirstInv, NEW r \in Runs, NEW t \in Turns, ex[r][t].pc = "cli", FirstLife(ex[r][t].at)
               PROVE  t = turns[r]
    BY DEF OneTurnPerFirstLife
  <2>1. Live(r, t) /\ First(ex[r][t].at) /\ ex[r][t].at \in Inst
    BY DEF FirstInv, TurnUp, Live, First
  <2>2. FirstTurn(r)
    BY <2>1 DEF FirstInv, FirstBody, AnyFirst
  <2> QED BY <2>1, <2>2 DEF FirstTurn
<1> QED BY <1>1, <1>2, <1>3, PTL DEF Spec

\* The pool holds at most maxConcurrency runs.
SlotsBounded == Cardinality(Slots) <= MaxConcurrency

\* A step of the pool adds a run only while there is room.
LEMMA PoolBounded ==
    ASSUME TypeOK, SlotsBounded, [Pool!Next]_Slots
    PROVE  SlotsBounded'
<1>1. IsFiniteSet(Slots) /\ Cardinality(Slots) \in Nat
  BY SlotsFinite
<1>2. ASSUME NEW m \in Runs, Pool!Take(m) PROVE SlotsBounded'
  <2>1. Slots' = Slots \cup {m} /\ Cardinality(Slots) < MaxConcurrency
    BY <1>2, PoolCardinality DEF Pool!Take
  <2>2. Cardinality(Slots') <= Cardinality(Slots) + 1 /\ Cardinality(Slots') \in Nat
    BY <1>1, <2>1, FS_AddElement, FS_CardinalityType
  <2> QED BY <1>1, <2>1, <2>2, ConstantsOK DEF SlotsBounded
<1>3. ASSUME NEW m \in Runs, Pool!Return(m) PROVE SlotsBounded'
  <2>1. Slots' \subseteq Slots
    BY <1>3 DEF Pool!Return
  <2>2. Cardinality(Slots') <= Cardinality(Slots) /\ Cardinality(Slots') \in Nat
    BY <1>1, <2>1, FS_Subset, FS_CardinalityType
  <2> QED BY <1>1, <2>2, ConstantsOK DEF SlotsBounded
<1>4. CASE UNCHANGED Slots
  BY <1>4 DEF SlotsBounded
<1> QED BY <1>2, <1>3, <1>4 DEF Pool!Next

\* Never more than maxConcurrency CLI processes of an SCM agent over all replicas:
\* each holds a slot of the pool from its start to the end of its cleanup.
THEOREM CapacityHolds ==
    ASSUME TriggerWorkload
    PROVE  Spec => []Capacity
<1>0. "execute" \notin Ops
  BY DEF TriggerWorkload
<1>1. Init => TypeInv /\ OwnInv /\ SlotInv /\ SlotsBounded
  <2>1. Init => Slots = {}
    BY DEF Init, Slots, Row, NoLease
  <2> QED BY <2>1, TypeInit, OwnInit, SlotInit, FS_EmptySet, ConstantsOK DEF SlotsBounded
<1>2. TypeInv /\ OwnInv /\ SlotInv /\ SlotsBounded /\ [Next]_vars
        => TypeInv' /\ OwnInv' /\ SlotInv' /\ SlotsBounded'
  BY <1>0, TypeNext, OwnNext, SlotNext, PoolBounded DEF Safe, TypeInv
<1>3. TypeInv /\ OwnInv /\ SlotsBounded => Capacity
  <2> SUFFICES ASSUME TypeInv, OwnInv, SlotsBounded, Scm
               PROVE  Cardinality({r \in Runs : InWorkspace(r)}) <= MaxConcurrency
    BY DEF Capacity
  <2>1. ASSUME NEW r \in Runs, InWorkspace(r) PROVE r \in Slots
    <3>1. PICK t \in Turns : Live(r, t)
      BY <2>1 DEF InWorkspace, Live
    <3>2. RunOwned(r)
      BY DEF OwnInv
    <3> QED BY <3>1, <3>2 DEF RunOwned, TurnOwned, TurnLeased, Slots, Exists, Terminal
  <2>2. IsFiniteSet(Slots)
    BY SlotsFinite
  <2>3. {r \in Runs : InWorkspace(r)} \subseteq Slots
    BY <2>1
  <2>4. /\ Cardinality({r \in Runs : InWorkspace(r)}) <= Cardinality(Slots)
        /\ Cardinality({r \in Runs : InWorkspace(r)}) \in Nat /\ Cardinality(Slots) \in Nat
    BY <2>2, <2>3, FS_Subset, FS_CardinalityType
  <2> QED BY <2>4, ConstantsOK DEF SlotsBounded
<1> QED BY <1>1, <1>2, <1>3, PTL DEF Spec
=============================================================================
