-------------------------- MODULE SqliteTransaction --------------------------
(***************************************************************************)
(* withTransaction and runExclusive on the one SQLite connection of the    *)
(* process. A callback yields to the event loop at each of its statements, *)
(* so calls of other async contexts arrive while a transaction is open.    *)
(*                                                                         *)
(* A call nested in the callback of its own context (transactionDepth) is  *)
(* part of that callback's statements here.                                *)
(***************************************************************************)
EXTENDS Integers, Sequences

CONSTANTS
    Transactions, \* async contexts that call withTransaction
    Writers,      \* async contexts that call runExclusive
    Statements,   \* statements each of them issues
    None

Tasks == Transactions \cup Writers

ASSUME TasksOK ==
    /\ Transactions \cap Writers = {} /\ None \notin Tasks
    /\ Statements \in Nat

VARIABLES
    pc,    \* where each call is
    queue, \* the keyed lock: its holder, then the waiters in order
    open,  \* who issued the BEGIN of sqlite.inTransaction, or None
    log,   \* statements executed since that BEGIN
    disk,  \* committed statements
    count, \* statements each call has executed
    owner  \* the calls that issued a BEGIN of their own, or hold the lock alone

vars == <<pc, queue, open, log, disk, count, owner>>

Pcs == {"idle", "waiting", "body", "joined", "done", "failed"}

Statement(t) == {t} \X (1 .. Statements)

Init ==
    /\ pc = [t \in Tasks |-> "idle"]
    /\ queue = <<>>
    /\ open = None
    /\ log = {} /\ disk = {}
    /\ count = [t \in Tasks |-> 0]
    /\ owner = {}

Goto(t, place) == pc' = [pc EXCEPT ![t] = place]

\* Mutant: the chain is not followed.
Enqueue_Front(t) == queue' = <<t>> \o queue

\* withKeyedLock: behind whoever came before.
Enqueue(t) == queue' = Append(queue, t)

HoldsLock(t) == queue # <<>> /\ Head(queue) = t

-----------------------------------------------------------------------------
\* withTransaction: the open transaction is joined, else the lock is taken.
withTransaction(t) ==
    /\ t \in Transactions /\ pc[t] = "idle"
    /\ \/ open # None /\ Goto(t, "joined") /\ UNCHANGED queue
       \/ open = None /\ Goto(t, "waiting") /\ Enqueue(t)
    /\ UNCHANGED <<open, log, disk, count, owner>>

\* Mutant: a bare write, which does not wait.
runExclusive_Bare(t) ==
    /\ t \in Writers /\ pc[t] = "idle"
    /\ Goto(t, "joined")
    /\ UNCHANGED <<queue, open, log, disk, count, owner>>

\* runExclusive: always behind the lock.
runExclusive(t) ==
    /\ t \in Writers /\ pc[t] = "idle"
    /\ Goto(t, "waiting") /\ Enqueue(t)
    /\ UNCHANGED <<open, log, disk, count, owner>>

\* Mutant: a bare write issues a BEGIN too.
Enter_Begins(t) ==
    /\ pc[t] = "waiting" /\ HoldsLock(t)
    /\ Goto(t, "body")
    /\ open' = t
    /\ owner' = owner \cup {t}
    /\ UNCHANGED <<queue, log, disk, count>>

\* The lock is granted: BEGIN for a transaction, the bare write for a writer.
Enter(t) ==
    /\ pc[t] = "waiting" /\ HoldsLock(t)
    /\ Goto(t, "body")
    /\ open' = IF t \in Transactions THEN t ELSE open
    /\ owner' = owner \cup {t}
    /\ UNCHANGED <<queue, log, disk, count>>

\* One statement on the connection: in the open transaction, whosever it is, or
\* committed at once.
Execute(t) ==
    /\ pc[t] \in {"body", "joined"} /\ count[t] < Statements
    /\ count' = [count EXCEPT ![t] = @ + 1]
    /\ IF open # None
       THEN log' = log \cup {<<t, count[t] + 1>>} /\ UNCHANGED disk
       ELSE disk' = disk \cup {<<t, count[t] + 1>>} /\ UNCHANGED log
    /\ UNCHANGED <<pc, queue, open, owner>>

\* COMMIT, and the lock goes to the next in the chain.
Commit(t) ==
    /\ t \in Transactions /\ pc[t] = "body" /\ count[t] = Statements
    /\ disk' = disk \cup log /\ log' = {} /\ open' = None
    /\ Goto(t, "done") /\ queue' = Tail(queue)
    /\ UNCHANGED <<count, owner>>

\* Mutant: the COMMIT is in a finally block.
Rollback_Commits(t) ==
    /\ t \in Transactions /\ pc[t] = "body"
    /\ disk' = disk \cup log /\ log' = {} /\ open' = None
    /\ Goto(t, "failed") /\ queue' = Tail(queue)
    /\ UNCHANGED <<count, owner>>

\* The callback throws: ROLLBACK, and the error is passed on.
Rollback(t) ==
    /\ t \in Transactions /\ pc[t] = "body"
    /\ log' = {} /\ open' = None
    /\ Goto(t, "failed") /\ queue' = Tail(queue)
    /\ UNCHANGED <<disk, count, owner>>

\* A writer's statements are through, or the next of them throws.
WriterReturns(t) ==
    /\ t \in Writers /\ pc[t] = "body"
    /\ \/ count[t] = Statements /\ Goto(t, "done")
       \/ count[t] < Statements /\ Goto(t, "failed")
    /\ queue' = Tail(queue)
    /\ UNCHANGED <<open, log, disk, count, owner>>

\* A joined callback returns or throws. It neither commits nor rolls back.
JoinedReturns(t) ==
    /\ pc[t] = "joined"
    /\ \/ count[t] = Statements /\ Goto(t, "done")
       \/ Goto(t, "failed")
    /\ UNCHANGED <<queue, open, log, disk, count, owner>>

Step(t) ==
    \/ Enter(t) \/ Execute(t) \/ Commit(t) \/ Rollback(t) \/ WriterReturns(t) \/ JoinedReturns(t)

Next == \E t \in Tasks : withTransaction(t) \/ runExclusive(t) \/ Step(t)

Spec == Init /\ [][Next]_vars

\* The event loop resumes every callback.
FairSpec == Spec /\ \A t \in Tasks : WF_vars(Step(t))

-----------------------------------------------------------------------------
(* Properties.                                                             *)

\* Every variable keeps its type.
TypeOK ==
    /\ pc \in [Tasks -> Pcs] /\ queue \in Seq(Tasks)
    /\ open \in Transactions \cup {None}
    /\ log \subseteq Tasks \X (1 .. Statements) /\ disk \subseteq Tasks \X (1 .. Statements)
    /\ count \in [Tasks -> 0 .. Statements]
    /\ owner \subseteq Tasks

\* A transaction that issued its own BEGIN is on disk as a whole once it returned,
\* and not at all once it threw ("Rollback is exact", transaction.ts), however many
\* strangers joined it.
OwnersAtomic ==
    \A t \in owner \cap Transactions :
        /\ pc[t] = "done" => Statement(t) \subseteq disk
        /\ pc[t] # "done" => Statement(t) \cap disk = {}

\* A write of runExclusive that reported success survives every rollback of a
\* stranger ("waits for an open transaction instead of joining it").
ExclusiveWritesSurvive ==
    \A t \in Writers : pc[t] = "done" => Statement(t) \subseteq disk

\* No transaction loses what it reported as done to the rollback of another one
\* ("a concurrent caller waits for this one to commit").
NoLostTransaction ==
    \A t \in Transactions : pc[t] = "done" => Statement(t) \subseteq disk \cup log

\* Nobody waits for ever on the lock, whatever joins and throws.
CallsReturn == \A t \in Tasks : pc[t] = "waiting" ~> pc[t] \in {"done", "failed"}
=============================================================================
