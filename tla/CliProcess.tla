----------------------------- MODULE CliProcess -----------------------------
(***************************************************************************)
(* CliProcessRunner of engine/cli-process-runner.ts: the one map of live   *)
(* agent CLIs of an API process, and how a CLI and everything it forked is *)
(* brought to an end. A call of run() spawns a child, and then events of   *)
(* the child (error, close, bad output), the execution timeout, the force  *)
(* kill timer, the abort signal of the lease, cancelAndWait and shutdown   *)
(* meet in any order. Each callback runs to its end: one action each.      *)
(*                                                                         *)
(* The operating system is external: a child may fork one descendant, any  *)
(* process may exit at any moment, and only one that was killed has to.    *)
(* SIGTERM may be ignored, so it changes no state. Timers are not ordered  *)
(* by their delays, which allows more than the code does. Which reason a   *)
(* call reports is left out.                                               *)
(***************************************************************************)
EXTENDS Naturals, FiniteSets

CONSTANTS
    Calls,      \* calls of run(), each made at most once
    Tasks,      \* task ids; a model fallback calls run() again with the same id
    Sites,      \* [platform, kids, tasks]: what a CLI may fork, the task ids in use
    None

\* A descendant holds the output pipes of the CLI or not; one that left the
\* process group and still holds them is out of the runner's reach.
Kids == {"piped", "quiet", "escaped"}

ASSUME SitesOK ==
    /\ Sites \subseteq [platform : {"posix", "win32"}, kids : SUBSET Kids, tasks : SUBSET Tasks]
    /\ None \notin Calls

VARIABLES
    call,       \* ActiveProcess and the locals of run(), per call
    os,         \* the processes behind a call and whether 'close' was emitted
    active,     \* activeProcesses: the call a task id stands for, or None
    aborted,    \* task ids whose lease or worker deadline was aborted
    waiter,     \* a caller of cancelAndWait or shutdown and what it waits for
    site

vars == <<call, os, active, aborted, waiter, site>>

\* ended: terminationReason is set; pend: pendingCloseResult; attempt: the latest
\* terminationAttempt, 0 if settled; flights: the ones in flight.
Idle == [st |-> "idle", task |-> None, ended |-> FALSE, timer |-> FALSE, killed |-> FALSE,
         attempt |-> 0, flights |-> {}, pend |-> FALSE, cleanups |-> 0]

NoChild == [leader |-> "none", kid |-> "none", doomed |-> {}, closed |-> FALSE]

Posix == site.platform = "posix"

-----------------------------------------------------------------------------
(* The processes of a call. *)

\* The living processes that a signal to the child's group reaches.
Group(c) ==
    { p \in {"leader", "kid"} :
        IF p = "leader" THEN os[c].leader = "alive" ELSE os[c].kid \in {"piped", "quiet"} }

\* The output pipes are open.
Piped(c) == os[c].leader \in {"alive", "unborn"} \/ os[c].kid \in {"piped", "escaped"}

Fork(c) ==
    /\ os[c].leader = "alive" /\ os[c].doomed = {} /\ os[c].kid = "none"
    /\ \E k \in site.kids : os' = [os EXCEPT ![c].kid = k]
    /\ UNCHANGED <<call, active, aborted, waiter, site>>

Exit(c) ==
    /\ \/ os[c].leader = "alive" /\ os' = [os EXCEPT ![c].leader = "gone"]
       \/ os[c].kid \in Kids /\ os' = [os EXCEPT ![c].kid = "gone"]
    /\ UNCHANGED <<call, active, aborted, waiter, site>>

\* What was killed dies.
Die(c) ==
    /\ os' = [os EXCEPT ![c].leader = IF "leader" \in os[c].doomed THEN "gone" ELSE @,
                        ![c].kid = IF "kid" \in os[c].doomed THEN "gone" ELSE @]
    /\ os' # os
    /\ UNCHANGED <<call, active, aborted, waiter, site>>

\* The probe of a process group; there is none on Windows.
isProcessGroupAlive_Never(c) == FALSE

isProcessGroupAlive(c) == Posix /\ Group(c) # {}

-----------------------------------------------------------------------------
(* The shared steps. *)

\* finalize: once per call, it clears the timers and runs the cleanup callback.
\* The fields nobody reads afterwards are cleared too.
Returned(k) ==
    [k EXCEPT !.st = "done", !.timer = FALSE, !.cleanups = @ + 1,
              !.killed = FALSE, !.attempt = 0, !.pend = FALSE]

Finalized_Again(k) == Returned(k)

Finalized(k) == IF k.st = "done" THEN k ELSE Returned(k)

\* finalize takes only its own call out of the map.
Untracked(c) == [t \in Tasks |-> IF active[t] = c THEN None ELSE active[t]]

\* Call c goes on as k, or returns.
Goes(c, k) == call' = [call EXCEPT ![c] = k] /\ UNCHANGED active

Settle(c, k) == call' = [call EXCEPT ![c] = Finalized(k)] /\ active' = Untracked(c)

\* startTerminationAttempt: on Windows taskkill is awaited.
Attempt(k, n) ==
    IF Posix THEN k ELSE [k EXCEPT !.attempt = n, !.flights = @ \cup {n}]

\* terminate: SIGTERM is sent and the timer armed once.
terminate(c) ==
    LET k == [call[c] EXCEPT !.ended = TRUE]
    IN  IF k.timer \/ k.killed THEN k ELSE [Attempt(k, 1) EXCEPT !.timer = TRUE]

\* terminate of the calls that a set of task ids stands for.
Terminate(tasks) ==
    call' = [c \in Calls |-> IF \E t \in tasks : active[t] = c THEN terminate(c) ELSE call[c]]

-----------------------------------------------------------------------------
(* run() and the callbacks of a call. *)

\* A call that never gets a child returns at once.
Refused(c, t) ==
    /\ call' = [call EXCEPT ![c] = [Returned(@) EXCEPT !.task = t]]
    /\ UNCHANGED <<os, active>>

\* spawn returns a child, or one that could not be started and will emit 'error'.
Spawned(c, t) ==
    /\ call' = [call EXCEPT ![c].st = "active", ![c].task = t]
    /\ active' = [active EXCEPT ![t] = c]
    /\ \E leader \in {"alive", "unborn"} : os' = [os EXCEPT ![c].leader = leader]

\* A task id that is running, an aborted lease and a spawn that throws refuse.
Run(c, t) ==
    /\ call[c].st = "idle"
    /\ \/ Refused(c, t)
       \/ active[t] = None /\ t \notin aborted /\ Spawned(c, t)
    /\ UNCHANGED <<aborted, waiter, site>>

\* The execution timeout; finalize clears it.
Timeout(c) ==
    /\ call[c].st = "active"
    /\ Terminate({call[c].task})
    /\ UNCHANGED <<os, active, aborted, waiter, site>>

\* Decoding output threw: the call is terminated, and returns when the CLI exits.
failOnDecodeError_Finalizes(c) ==
    /\ call[c].st = "active" /\ os[c].leader # "unborn" /\ Piped(c)
    /\ Settle(c, terminate(c))
    /\ UNCHANGED <<os, aborted, waiter, site>>

failOnDecodeError(c) ==
    /\ call[c].st = "active" /\ os[c].leader # "unborn" /\ Piped(c)
    /\ Goes(c, terminate(c))
    /\ UNCHANGED <<os, aborted, waiter, site>>

\* 'error': the child could not be started.
Error(c) ==
    LET k == call[c]
    IN  /\ os[c].leader = "unborn"
        /\ os' = [os EXCEPT ![c].leader = "gone"]
        /\ IF k.ended /\ k.attempt # 0 THEN Goes(c, [k EXCEPT !.pend = TRUE])
                                      ELSE Settle(c, k)
        /\ UNCHANGED <<aborted, waiter, site>>

\* 'close': the child has exited and nobody holds its pipes. After a terminate
\* the result waits for the attempt in flight, and for the group.
Close(c) ==
    LET k == call[c]
    IN  /\ os[c].leader = "gone" /\ ~Piped(c) /\ ~os[c].closed
        /\ os' = [os EXCEPT ![c].closed = TRUE]
        /\ IF k.ended /\ (k.attempt # 0 \/ (~k.killed /\ isProcessGroupAlive(c)))
           THEN Goes(c, [k EXCEPT !.pend = TRUE])
           ELSE Settle(c, k)
        /\ UNCHANGED <<aborted, waiter, site>>

\* The force kill timer. On POSIX SIGKILL reaches the group at once, and nothing
\* holds a waiting result any longer.
ForceKill_KeepsPending(c) ==
    LET k == [call[c] EXCEPT !.timer = FALSE, !.killed = TRUE]
    IN  /\ call[c].timer
        /\ os' = IF Posix THEN [os EXCEPT ![c].doomed = @ \cup Group(c)] ELSE os
        /\ Goes(c, Attempt(k, 2))
        /\ UNCHANGED <<aborted, waiter, site>>

ForceKill(c) ==
    LET k == [call[c] EXCEPT !.timer = FALSE, !.killed = TRUE]
    IN  /\ call[c].timer
        /\ os' = IF Posix THEN [os EXCEPT ![c].doomed = @ \cup Group(c)] ELSE os
        /\ IF k.pend /\ Attempt(k, 2).attempt = 0 THEN Settle(c, k) ELSE Goes(c, Attempt(k, 2))
        /\ UNCHANGED <<aborted, waiter, site>>

\* taskkill /T /F reaches the tree as long as its root lives.
TaskKill(c) ==
    /\ call[c].flights # {} /\ os[c].leader = "alive"
    /\ os' = [os EXCEPT ![c].doomed = @ \cup Group(c)]
    /\ os' # os
    /\ UNCHANGED <<call, active, aborted, waiter, site>>

\* A taskkill settles. One that failed, or took too long, falls back to the child
\* alone. Only the latest attempt releases a result that waits.
AttemptEnds(c, n) ==
    LET k == [call[c] EXCEPT !.flights = @ \ {n}]
    IN  /\ n \in call[c].flights
        /\ os' = [os EXCEPT ![c].doomed = @ \cup (Group(c) \cap {"leader"})]
        /\ \/ k.attempt # n /\ Goes(c, k)
           \/ k.attempt = n /\ ~k.pend /\ Goes(c, [k EXCEPT !.attempt = 0])
           \/ k.attempt = n /\ k.pend /\ Settle(c, k)
        /\ UNCHANGED <<aborted, waiter, site>>

-----------------------------------------------------------------------------
(* The callers that end a CLI. *)

\* The lease is cancelled or the worker's deadline passes; run() looks at the
\* signal before it spawns and listens to it afterwards.
Abort(t) ==
    /\ t \notin aborted
    /\ aborted' = aborted \cup {t}
    /\ Terminate({t})
    /\ UNCHANGED <<os, active, waiter, site>>

cancel(t) ==
    /\ active[t] # None
    /\ Terminate({t})
    /\ UNCHANGED <<os, active, aborted, waiter, site>>

\* cancelAndWait of each task, in one synchronous sweep.
CancelAndWait(tasks) ==
    /\ waiter.st = "idle"
    /\ waiter' = [st |-> "waiting", calls |-> { active[t] : t \in tasks } \ {None}]
    /\ Terminate(tasks)
    /\ UNCHANGED <<os, active, aborted, site>>

cancelAndWait(t) == CancelAndWait({t})

shutdown == CancelAndWait(Tasks)

\* Every completion has been resolved.
Waited_Signalled == \A c \in waiter.calls : call[c].ended

Waited == \A c \in waiter.calls : call[c].st = "done"

WaiterReturns ==
    /\ waiter.st = "waiting" /\ Waited
    /\ waiter' = [waiter EXCEPT !.st = "returned"]
    /\ UNCHANGED <<call, os, active, aborted, site>>

-----------------------------------------------------------------------------
Init ==
    /\ call = [c \in Calls |-> Idle]
    /\ os = [c \in Calls |-> NoChild]
    /\ active = [t \in Tasks |-> None]
    /\ aborted = {}
    /\ waiter = [st |-> "idle", calls |-> {}]
    /\ site \in Sites

System(c) == Fork(c) \/ Exit(c) \/ Die(c) \/ TaskKill(c)

Callback(c) ==
    \/ Timeout(c) \/ failOnDecodeError(c) \/ Error(c) \/ Close(c) \/ ForceKill(c)
    \/ \E n \in {1, 2} : AttemptEnds(c, n)

Next ==
    \/ \E c \in Calls : System(c) \/ Callback(c) \/ \E t \in site.tasks : Run(c, t)
    \/ \E t \in site.tasks : Abort(t) \/ cancel(t) \/ cancelAndWait(t)
    \/ shutdown \/ WaiterReturns

Spec == Init /\ [][Next]_vars

\* Timers fire, a killed process dies, the events of a child are delivered and
\* taskkill returns or is timed out. Nothing is assumed of the agent CLI.
Fairness ==
    /\ \A c \in Calls :
        /\ WF_vars(Timeout(c)) /\ WF_vars(ForceKill(c)) /\ WF_vars(Die(c))
        /\ WF_vars(Error(c)) /\ WF_vars(Close(c))
        /\ \A n \in {1, 2} : WF_vars(AttemptEnds(c, n))
    /\ WF_vars(WaiterReturns)

FairSpec == Spec /\ Fairness

-----------------------------------------------------------------------------
\* Types. The cleanup callback of a call runs at most once, whichever of close,
\* error, the force kill timer and taskkill comes to finalize it.
TypeOK ==
    /\ call \in [Calls -> [st : {"idle", "active", "done"}, task : Tasks \cup {None},
                           ended : BOOLEAN, timer : BOOLEAN, killed : BOOLEAN,
                           attempt : 0..2, flights : SUBSET {1, 2}, pend : BOOLEAN,
                           cleanups : 0..1]]
    /\ os \in [Calls -> [leader : {"none", "unborn", "alive", "gone"},
                         kid : Kids \cup {"none", "gone"},
                         doomed : SUBSET {"leader", "kid"}, closed : BOOLEAN]]
    /\ active \in [Tasks -> Calls \cup {None}]
    /\ aborted \subseteq Tasks
    /\ waiter \in [st : {"idle", "waiting", "returned"}, calls : SUBSET Calls]
    /\ site \in Sites

\* What the runner can still reach of a call and has not killed: the group on
\* POSIX, the CLI itself on Windows, where a failed taskkill spares the rest.
Survivors(c) ==
    (IF Posix THEN Group(c) ELSE Group(c) \cap {"leader"}) \ os[c].doomed

\* A CLI that runs and has not been killed is the one its task id stands for, so
\* a cancel or a shutdown finds it: no callback returns a call whose CLI goes on.
LiveIsTracked ==
    \A c \in Calls : "leader" \in Survivors(c) => active[call[c].task] = c

\* A call that was terminated returns only when nothing of its process group is
\* left to kill: the slot and the checkout given back then are really free.
TerminatedTreeIsGone ==
    \A c \in Calls : call[c].st = "done" /\ call[c].ended => Survivors(c) = {}

\* When cancelAndWait or shutdown returns, no process of the calls that were live
\* when it was called survives.
WaitersReap ==
    waiter.st = "returned" => \A c \in waiter.calls : Survivors(c) = {}

\* Every call of run() returns, however the CLI behaves and whatever a kill can reach of
\* its descendants.
RunsSettle == \A c \in Calls : call[c].st = "active" ~> call[c].st = "done"
=============================================================================
