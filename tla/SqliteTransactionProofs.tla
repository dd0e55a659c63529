----------------------- MODULE SqliteTransactionProofs -----------------------
(***************************************************************************)
(* Proofs about SqliteTransaction, for any number of transactions, writers *)
(* and statements.                                                         *)
(*                                                                         *)
(* Neither property is inductive: that an owner commits all of its         *)
(* statements needs to know that they are all in the log of its own        *)
(* transaction, and that in turn that nobody else can be between the lock  *)
(* and its release. IInv says both.                                        *)
(***************************************************************************)
EXTENDS SqliteTransaction, TLAPS

\* The one call between the grant and the release of the lock is its holder.
LockInv == \A t \in Tasks : pc[t] = "body" => HoldsLock(t)

\* A transaction is open exactly while its owner is in its callback.
OpenInv ==
    /\ open # None => pc[open] = "body"
    /\ \A t \in Transactions : pc[t] = "body" => open = t
    /\ open = None => log = {}

\* Which calls count as owners, and which have executed nothing yet.
OwnerInv ==
    \A t \in Tasks :
        /\ pc[t] \in {"idle", "waiting"} => count[t] = 0 /\ t \notin owner
        /\ pc[t] = "joined" => t \in Transactions /\ t \notin owner
        /\ pc[t] = "body" => t \in owner

\* Only executed statements are anywhere.
ExecutedInv ==
    \A t \in Tasks, k \in 1 .. Statements : <<t, k>> \in log \cup disk => k <= count[t]

\* The executed statements of an owner are in its log, then on disk or nowhere.
TransactionInv ==
    \A t \in owner \cap Transactions :
        /\ pc[t] \in {"body", "done", "failed"}
        /\ pc[t] = "done" => count[t] = Statements
        /\ \A k \in 1 .. count[t] :
              /\ pc[t] = "body" => <<t, k>> \in log /\ <<t, k>> \notin disk
              /\ pc[t] = "done" => <<t, k>> \in disk
              /\ pc[t] = "failed" => <<t, k>> \notin disk \cup log

\* Those of a writer that holds the lock or is done are on disk.
WriterInv ==
    \A t \in Writers :
        /\ pc[t] = "done" => count[t] = Statements
        /\ pc[t] \in {"body", "done"} => \A k \in 1 .. count[t] : <<t, k>> \in disk

IInv ==
    TypeOK /\ LockInv /\ OpenInv /\ OwnerInv /\ ExecutedInv /\ TransactionInv /\ WriterInv

-----------------------------------------------------------------------------
\* Nothing has been executed before the first call (Init).
LEMMA InitIInv == Init => IInv
  <1> SUFFICES ASSUME Init PROVE IInv
    OBVIOUS
  <1>1. TypeOK
    BY TasksOK DEF Init, TypeOK, Pcs, Tasks
  <1>2. LockInv /\ OpenInv /\ OwnerInv /\ ExecutedInv /\ TransactionInv /\ WriterInv
    BY TasksOK DEF Init, LockInv, OpenInv, OwnerInv, ExecutedInv, TransactionInv, WriterInv, Tasks
  <1> QED
    BY <1>1, <1>2 DEF IInv

\* Stuttering changes nothing.
LEMMA StutterIInv == IInv /\ UNCHANGED vars => IInv'
  BY DEF vars, IInv, TypeOK, LockInv, HoldsLock, OpenInv, OwnerInv, ExecutedInv, TransactionInv,
         WriterInv

\* The keyed lock excludes: while one call is past it, nobody else is, and a writer
\* past it sees no transaction open.
LEMMA Exclusion ==
  ASSUME IInv, NEW t \in Tasks, HoldsLock(t)
  PROVE  /\ \A u \in Tasks : pc[u] = "body" => u = t
         /\ pc[t] # "body" => open = None
         /\ t \in Writers => open = None
  <1>1. \A u \in Tasks : pc[u] = "body" => u = t
    BY DEF IInv, LockInv, HoldsLock
  <1>2. open # None => open \in Transactions /\ pc[open] = "body"
    BY DEF IInv, OpenInv, TypeOK
  <1> QED
    BY <1>1, <1>2, TasksOK DEF Tasks

\* An arrival: withTransaction joins or queues.
LEMMA TransactionArrives ==
  ASSUME IInv, NEW t \in Tasks, withTransaction(t)
  PROVE  IInv'
  <1> USE DEF withTransaction, Goto, Enqueue
  <1>1. TypeOK'
    <2>1. queue \in Seq(Tasks) /\ (queue' = queue \/ queue' = Append(queue, t))
      BY DEF IInv, TypeOK
    <2>2. queue' \in Seq(Tasks)
      BY <2>1
    <2>3. pc' \in [Tasks -> Pcs]
      BY DEF IInv, TypeOK, Pcs
    <2> QED
      BY <2>2, <2>3 DEF IInv, TypeOK
  <1>2. LockInv'
    BY SMTT(30) DEF IInv, TypeOK, LockInv, HoldsLock
  <1>3. OpenInv' /\ OwnerInv'
    BY TasksOK DEF IInv, TypeOK, OpenInv, OwnerInv, Tasks
  <1>4. ExecutedInv' /\ TransactionInv' /\ WriterInv'
    BY DEF IInv, TypeOK, OwnerInv, ExecutedInv, TransactionInv, WriterInv, Tasks
  <1> QED
    BY <1>1, <1>2, <1>3, <1>4 DEF IInv

\* An arrival: runExclusive queues.
LEMMA WriterArrives ==
  ASSUME IInv, NEW t \in Tasks, runExclusive(t)
  PROVE  IInv'
  <1> USE DEF runExclusive, Goto, Enqueue
  <1>1. TypeOK'
    BY DEF IInv, TypeOK, Pcs
  <1>2. LockInv'
    BY DEF IInv, TypeOK, LockInv, HoldsLock
  <1>3. OpenInv' /\ OwnerInv'
    BY TasksOK DEF IInv, TypeOK, OpenInv, OwnerInv, Tasks
  <1>4. ExecutedInv' /\ TransactionInv' /\ WriterInv'
    BY DEF IInv, TypeOK, OwnerInv, ExecutedInv, TransactionInv, WriterInv, Tasks
  <1> QED
    BY <1>1, <1>2, <1>3, <1>4 DEF IInv

\* The lock is granted (the callback of withKeyedLock starts).
LEMMA EnterKeeps ==
  ASSUME IInv, NEW t \in Tasks, Enter(t)
  PROVE  IInv'
  <1> USE DEF Enter, Goto
  <1>0. /\ open = None
        /\ \A u \in Tasks : pc[u] # "body"
    BY Exclusion
  <1>1. TypeOK'
    BY DEF IInv, TypeOK, Pcs, Tasks
  <1>2. LockInv'
    BY <1>0 DEF IInv, TypeOK, LockInv, HoldsLock
  <1>3. OpenInv' /\ OwnerInv'
    BY <1>0, TasksOK DEF IInv, TypeOK, OpenInv, OwnerInv, Tasks
  <1>4. ExecutedInv' /\ TransactionInv' /\ WriterInv'
    BY <1>0 DEF IInv, TypeOK, OwnerInv, ExecutedInv, TransactionInv, WriterInv, Tasks
  <1> QED
    BY <1>1, <1>2, <1>3, <1>4 DEF IInv

\* A statement goes to the open transaction or to the disk (point 1 of the
\* atomicity argument: one connection).
LEMMA ExecuteKeeps ==
  ASSUME IInv, NEW t \in Tasks, Execute(t)
  PROVE  IInv'
  <1> USE DEF Execute
  <1>0. /\ t \in Transactions /\ pc[t] = "body" => open # None
        /\ t \in Writers => pc[t] = "body" /\ open = None
    <2>1. pc[t] = "body" /\ t \in Transactions => open = t /\ t # None
      BY TasksOK DEF IInv, OpenInv, Tasks
    <2>2. t \in Writers => pc[t] = "body"
      BY TasksOK DEF IInv, OwnerInv, Tasks
    <2>3. pc[t] = "body" => HoldsLock(t)
      BY DEF IInv, LockInv
    <2> QED
      BY <2>1, <2>2, <2>3, Exclusion
  <1>1. TypeOK'
    BY TasksOK DEF IInv, TypeOK, Pcs
  <1>2. LockInv' /\ OpenInv'
    BY DEF IInv, TypeOK, LockInv, HoldsLock, OpenInv
  <1>3. OwnerInv'
    BY DEF IInv, TypeOK, OwnerInv
  <1>4. ExecutedInv'
    BY TasksOK DEF IInv, TypeOK, ExecutedInv
  <1>5. TransactionInv'
    BY <1>0, TasksOK DEF IInv, TypeOK, OwnerInv, ExecutedInv, TransactionInv, Tasks
  <1>6. WriterInv'
    BY <1>0, TasksOK DEF IInv, TypeOK, WriterInv, Tasks
  <1> QED
    BY <1>1, <1>2, <1>3, <1>4, <1>5, <1>6 DEF IInv

\* COMMIT moves the whole log to the disk and releases the lock.
LEMMA CommitKeeps ==
  ASSUME IInv, NEW t \in Tasks, Commit(t)
  PROVE  IInv'
  <1> USE DEF Commit, Goto
  <1>0. HoldsLock(t) /\ open = t /\ \A u \in Tasks : pc[u] = "body" => u = t
    BY Exclusion DEF IInv, LockInv, OpenInv
  <1>1. TypeOK'
    BY <1>0 DEF IInv, TypeOK, Pcs, HoldsLock
  <1>2. LockInv' /\ OpenInv' /\ OwnerInv'
    BY <1>0, TasksOK DEF IInv, TypeOK, LockInv, OpenInv, OwnerInv, Tasks
  <1>3. ExecutedInv' /\ TransactionInv' /\ WriterInv'
    BY <1>0, TasksOK DEF IInv, TypeOK, ExecutedInv, TransactionInv, WriterInv, Tasks
  <1> QED
    BY <1>1, <1>2, <1>3 DEF IInv

\* ROLLBACK drops the log and releases the lock (point 5).
LEMMA RollbackKeeps ==
  ASSUME IInv, NEW t \in Tasks, Rollback(t)
  PROVE  IInv'
  <1> USE DEF Rollback, Goto
  <1>0. HoldsLock(t) /\ open = t /\ \A u \in Tasks : pc[u] = "body" => u = t
    BY Exclusion DEF IInv, LockInv, OpenInv
  <1>1. TypeOK'
    BY <1>0 DEF IInv, TypeOK, Pcs, HoldsLock
  <1>2. LockInv' /\ OpenInv' /\ OwnerInv'
    BY <1>0, TasksOK DEF IInv, TypeOK, LockInv, OpenInv, OwnerInv, Tasks
  <1>3. ExecutedInv' /\ TransactionInv' /\ WriterInv'
    BY <1>0, TasksOK DEF IInv, TypeOK, ExecutedInv, TransactionInv, WriterInv, Tasks
  <1> QED
    BY <1>1, <1>2, <1>3 DEF IInv

\* A writer returns or throws and releases the lock.
LEMMA WriterReturnKeeps ==
  ASSUME IInv, NEW t \in Tasks, WriterReturns(t)
  PROVE  IInv'
  <1> USE DEF WriterReturns, Goto
  <1>0. HoldsLock(t) /\ open = None /\ \A u \in Tasks : pc[u] = "body" => u = t
    BY Exclusion DEF IInv, LockInv
  <1>1. TypeOK'
    BY <1>0 DEF IInv, TypeOK, Pcs, HoldsLock
  <1>2. LockInv' /\ OpenInv' /\ OwnerInv'
    BY <1>0, TasksOK DEF IInv, TypeOK, LockInv, OpenInv, OwnerInv, Tasks
  <1>3. ExecutedInv' /\ TransactionInv' /\ WriterInv'
    BY <1>0, TasksOK DEF IInv, TypeOK, ExecutedInv, TransactionInv, WriterInv, Tasks
  <1> QED
    BY <1>1, <1>2, <1>3 DEF IInv

\* A joined call returns or throws without touching the boundary.
LEMMA JoinedReturnKeeps ==
  ASSUME IInv, NEW t \in Tasks, JoinedReturns(t)
  PROVE  IInv'
  <1> USE DEF JoinedReturns, Goto
  <1>1. TypeOK'
    BY DEF IInv, TypeOK, Pcs
  <1>2. LockInv' /\ OpenInv' /\ OwnerInv'
    BY TasksOK DEF IInv, TypeOK, LockInv, HoldsLock, OpenInv, OwnerInv, Tasks
  <1>3. ExecutedInv' /\ TransactionInv' /\ WriterInv'
    BY TasksOK DEF IInv, TypeOK, OwnerInv, ExecutedInv, TransactionInv, WriterInv, Tasks
  <1> QED
    BY <1>1, <1>2, <1>3 DEF IInv

\* The strengthened invariant is inductive.
LEMMA Inductive == Spec => []IInv
  <1>1. IInv /\ [Next]_vars => IInv'
    BY StutterIInv, TransactionArrives, WriterArrives, EnterKeeps, ExecuteKeeps, CommitKeeps,
       RollbackKeeps, WriterReturnKeeps, JoinedReturnKeeps DEF Next, Step
  <1> QED
    BY InitIInv, <1>1, PTL DEF Spec

\* No call executes more statements than its callback has, what is logged or on disk
\* are statements of calls, and only a call of withTransaction opens a transaction,
\* whoever joins it or waits in runExclusive.
THEOREM TransactionTypeCorrect == Spec => []TypeOK
  BY Inductive, PTL DEF IInv

\* A transaction that issued its own BEGIN is on disk as a whole or not at all, for
\* any number of callers that join it (withTransaction, "Rollback is exact").
THEOREM TransactionsAtomic == Spec => []OwnersAtomic
  <1>1. IInv => OwnersAtomic
    <2> SUFFICES ASSUME IInv, NEW t \in owner \cap Transactions
                 PROVE  /\ pc[t] = "done" => Statement(t) \subseteq disk
                        /\ pc[t] # "done" => Statement(t) \cap disk = {}
      BY DEF OwnersAtomic
    <2>1. pc[t] = "done" => \A k \in 1 .. Statements : <<t, k>> \in disk
      BY DEF IInv, TransactionInv
    <2>2. pc[t] # "done" => \A k \in 1 .. count[t] : <<t, k>> \notin disk
      BY DEF IInv, TransactionInv
    <2>3. \A k \in 1 .. Statements : <<t, k>> \in disk => k \in 1 .. count[t]
      BY TasksOK DEF IInv, TypeOK, ExecutedInv, Tasks
    <2>4. pc[t] # "done" => \A k \in 1 .. Statements : <<t, k>> \notin disk
      BY <2>2, <2>3
    <2> QED
      BY <2>1, <2>4 DEF Statement
  <1> QED
    BY Inductive, <1>1, PTL

\* What a caller of runExclusive reported as written is on disk, for any number of
\* transactions that roll back around it.
THEOREM BareWritesSurvive == Spec => []ExclusiveWritesSurvive
  <1>1. IInv => ExclusiveWritesSurvive
    BY TasksOK DEF IInv, WriterInv, ExclusiveWritesSurvive, Statement
  <1> QED
    BY Inductive, <1>1, PTL
=============================================================================
