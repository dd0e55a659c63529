-------------------------- MODULE CliProcessProofs --------------------------
(***************************************************************************)
(* Proofs about CliProcess, for any number of calls and task ids and every *)
(* platform: a live CLI is tracked, a terminated call returns only when    *)
(* its process group is gone, and so does whoever waited for it.           *)
(*                                                                         *)
(* None of the three is inductive. That a returned call has no live CLI    *)
(* needs to know that a result waits (pend) only for a CLI that has        *)
(* exited, and that a force kill on POSIX leaves nothing that could fork.  *)
(***************************************************************************)
EXTENDS CliProcess, TLAPS

\* A task id stands for a call exactly while that call is active.
Tracked(c) ==
    /\ call[c].st = "active" => call[c].task \in Tasks
    /\ \A t \in Tasks : active[t] = c <=> call[c].st = "active" /\ call[c].task = t

\* What run() and finalize leave of a call that is not active.
Settled(c) ==
    /\ call[c].st = "idle" => call[c] = Idle /\ os[c].leader = "none" /\ ~os[c].closed
    /\ call[c].timer \/ call[c].pend \/ call[c].attempt # 0 => call[c].st = "active"
    /\ call[c].cleanups = IF call[c].st = "done" THEN 1 ELSE 0

\* A call is active as long as its CLI lives; a result that waits, or was
\* returned, is one of a CLI that exited.
Child(c) ==
    /\ call[c].st = "active" => os[c].leader # "none"
    /\ os[c].leader \in {"unborn", "alive"} => call[c].st = "active"
    /\ call[c].pend => os[c].leader = "gone"
    /\ os[c].leader \in {"none", "unborn"} => os[c].kid = "none"
    /\ os[c].closed => os[c].leader = "gone" /\ os[c].kid \notin {"piped", "escaped"}
    /\ (call[c].st = "done" \/ call[c].pend) /\ ~os[c].closed => os[c].kid = "none"
    /\ "leader" \in os[c].doomed => os[c].leader \in {"alive", "gone"}
    /\ "kid" \in os[c].doomed => os[c].kid \in {"piped", "quiet", "gone"}

\* On POSIX nothing is awaited, and a force kill and a return after a termination
\* leave no member of the group that is not killed.
Reaped(c) ==
    Posix => /\ call[c].attempt = 0 /\ call[c].flights = {}
             /\ call[c].killed \/ (call[c].st = "done" /\ call[c].ended)
                  => Group(c) \subseteq os[c].doomed

CallInv(c) == Tracked(c) /\ Settled(c) /\ Child(c) /\ Reaped(c)

\* Whoever waits has terminated the calls it waits for.
WaitInv ==
    \A c \in waiter.calls : /\ call[c].st # "idle" /\ call[c].ended
                            /\ waiter.st = "returned" => call[c].st = "done"

IInv == TypeOK /\ (\A c \in Calls : CallInv(c)) /\ WaitInv

-----------------------------------------------------------------------------
\* The record types, so that a step need not expand TypeOK.
CallType == [st : {"idle", "active", "done"}, task : Tasks \cup {None},
             ended : BOOLEAN, timer : BOOLEAN, killed : BOOLEAN,
             attempt : 0..2, flights : SUBSET {1, 2}, pend : BOOLEAN, cleanups : 0..1]

OsType == [leader : {"none", "unborn", "alive", "gone"}, kid : Kids \cup {"none", "gone"},
           doomed : SUBSET {"leader", "kid"}, closed : BOOLEAN]

\* No call and no child exists before the first run() (Init).
LEMMA InitIInv == Init => IInv
  <1> SUFFICES ASSUME Init PROVE IInv
    OBVIOUS
  <1>1. Idle \in CallType /\ NoChild \in OsType
    BY DEF Idle, NoChild, CallType, OsType, Kids
  <1>2. TypeOK
    BY <1>1 DEF Init, TypeOK, CallType, OsType
  <1>3. ASSUME NEW c \in Calls PROVE CallInv(c)
    <2>1. call[c] = Idle /\ os[c] = NoChild /\ \A t \in Tasks : active[t] # c
      BY SitesOK DEF Init
    <2>2. Tracked(c) /\ Settled(c) /\ Child(c)
      BY <2>1 DEF Tracked, Settled, Child, Idle, NoChild
    <2>3. Reaped(c)
      BY <2>1 DEF Reaped, Group, Idle, NoChild
    <2> QED
      BY <2>2, <2>3 DEF CallInv
  <1>4. WaitInv
    BY DEF Init, WaitInv
  <1> QED
    BY <1>2, <1>3, <1>4 DEF IInv

\* The invariant of a call that a step does not touch.
LEMMA Frame ==
  ASSUME NEW d \in Calls, CallInv(d), call'[d] = call[d], os'[d] = os[d], site' = site,
         \A t \in Tasks : active'[t] = d <=> active[t] = d
  PROVE  CallInv(d)'
  <1>1. Tracked(d)'
    BY DEF CallInv, Tracked
  <1>2. Settled(d)' /\ Child(d)'
    BY DEF CallInv, Settled, Child
  <1>3. Group(d)' = Group(d) /\ (Posix' <=> Posix)
    BY DEF Group, Posix
  <1>4. Reaped(d)'
    BY <1>3 DEF CallInv, Reaped
  <1> QED
    BY <1>1, <1>2, <1>4 DEF CallInv

\* A step of the operating system: only the processes of one call change.
LEMMA SystemStep ==
  ASSUME IInv, NEW c \in Calls, UNCHANGED <<call, active, aborted, waiter, site>>,
         NEW o \in OsType, os' = [os EXCEPT ![c] = o], (Child(c) /\ Reaped(c))',
         call[c].st = "idle" => o.leader = "none" /\ ~o.closed
  PROVE  IInv'
  <1>1. TypeOK'
    BY DEF IInv, TypeOK, OsType
  <1>2. os'[c] = o /\ \A d \in Calls \ {c} : os'[d] = os[d]
    BY DEF IInv, TypeOK
  <1>3. CallInv(c)'
    <2>1. Tracked(c)' /\ Settled(c)'
      BY <1>2 DEF IInv, CallInv, Tracked, Settled
    <2> QED
      BY <2>1 DEF CallInv
  <1>4. ASSUME NEW d \in Calls, d # c PROVE CallInv(d)'
    BY <1>2, <1>4, Frame DEF IInv
  <1>5. WaitInv'
    BY DEF IInv, WaitInv
  <1> QED
    BY <1>1, <1>3, <1>4, <1>5 DEF IInv

\* Forks, exits and deaths (System).
LEMMA SystemIInv ==
  ASSUME IInv, NEW c \in Calls, System(c)
  PROVE  IInv'
  <1> DEFINE o == os'[c]
  <1>1. os[c] \in OsType /\ CallInv(c) /\ os \in [Calls -> OsType]
    BY DEF IInv, TypeOK, OsType
  <1>2. call[c].st = "idle" => os[c].leader = "none" /\ ~os[c].closed /\ os[c].kid = "none"
    BY <1>1 DEF CallInv, Settled, Child
  <1>3. CASE Fork(c)
    <2>1. PICK k \in site.kids : os' = [os EXCEPT ![c].kid = k]
      BY <1>3 DEF Fork
    <2>2. k \in Kids
      BY SitesOK DEF IInv, TypeOK
    <2>3. o = [os[c] EXCEPT !.kid = k] /\ o \in OsType /\ os' = [os EXCEPT ![c] = o]
      BY <1>1, <2>1, <2>2 DEF OsType
    <2>4. call[c].st = "active" /\ os[c].leader = "alive" /\ os[c].doomed = {}
      BY <1>1, <1>3 DEF Fork, CallInv, Child
    <2>5. Child(c)'
      BY <1>1, <1>3, <2>2, <2>3, <2>4 DEF Fork, CallInv, Child, OsType, Kids
    <2>6. Reaped(c)'
      BY <1>1, <1>3, <2>4 DEF Fork, CallInv, Reaped, Group, Posix
    <2> QED
      BY <1>3, <2>3, <2>4, <2>5, <2>6, SystemStep DEF Fork
  <1>4. CASE Exit(c)
    <2>1. /\ o \in OsType /\ os' = [os EXCEPT ![c] = o]
          /\ o.doomed = os[c].doomed /\ o.closed = os[c].closed
          /\ \/ os[c].leader = "alive" /\ o.leader = "gone" /\ o.kid = os[c].kid
             \/ os[c].kid \in Kids /\ o.kid = "gone" /\ o.leader = os[c].leader
      BY <1>1, <1>4 DEF Exit, OsType
    <2>2. Child(c)'
      BY <1>1, <1>4, <2>1 DEF Exit, CallInv, Child, OsType, Kids
    <2>3. Reaped(c)'
      BY <1>1, <1>4, <2>1 DEF Exit, CallInv, Reaped, Group, Posix
    <2>4. call[c].st # "idle"
      BY <1>2, <2>1 DEF Kids
    <2> QED
      BY <1>4, <2>1, <2>2, <2>3, <2>4, SystemStep DEF Exit
  <1>5. CASE Die(c)
    <2>1. /\ o \in OsType /\ os' = [os EXCEPT ![c] = o]
          /\ o.doomed = os[c].doomed /\ o.closed = os[c].closed
          /\ o.leader = IF "leader" \in os[c].doomed THEN "gone" ELSE os[c].leader
          /\ o.kid = IF "kid" \in os[c].doomed THEN "gone" ELSE os[c].kid
      BY <1>1, <1>5 DEF Die, OsType
    <2>2. Child(c)'
      BY <1>1, <1>5, <2>1 DEF Die, CallInv, Child, OsType, Kids
    <2>3. Reaped(c)'
      BY <1>1, <1>5, <2>1 DEF Die, CallInv, Reaped, Group, Posix
    <2>4. call[c].st = "idle" => o.leader = "none" /\ ~o.closed
      BY <1>1, <1>2, <2>1 DEF CallInv, Child
    <2> QED
      BY <1>5, <2>1, <2>2, <2>3, <2>4, SystemStep DEF Die
  <1>6. CASE TaskKill(c)
    <2>1. /\ o \in OsType /\ os' = [os EXCEPT ![c] = o]
          /\ o.doomed = os[c].doomed \cup Group(c) /\ o.closed = os[c].closed
          /\ o.leader = os[c].leader /\ o.kid = os[c].kid
      BY <1>1, <1>6 DEF TaskKill, OsType, Group
    <2>2. Child(c)'
      BY <1>1, <1>6, <2>1 DEF TaskKill, CallInv, Child, OsType, Group
    <2>3. Reaped(c)'
      BY <1>1, <1>6, <2>1 DEF TaskKill, CallInv, Reaped, Group, Posix
    <2>4. call[c].st # "idle"
      BY <1>2, <1>6 DEF TaskKill
    <2> QED
      BY <1>6, <2>1, <2>2, <2>3, <2>4, SystemStep DEF TaskKill
  <1> QED
    BY <1>3, <1>4, <1>5, <1>6 DEF System

-----------------------------------------------------------------------------
\* A step of one call's callback: the call and its processes change, and at most
\* this call leaves the map.
LEMMA CallStep ==
  ASSUME IInv, NEW c \in Calls, UNCHANGED <<aborted, waiter, site>>,
         NEW k \in CallType, call' = [call EXCEPT ![c] = k],
         NEW o \in OsType, os' = [os EXCEPT ![c] = o],
         active' \in [Tasks -> Calls \cup {None}],
         \A d \in Calls \ {c}, t \in Tasks : active'[t] = d <=> active[t] = d,
         CallInv(c)',
         call[c].st # "idle" => k.st # "idle", call[c].ended => k.ended,
         call[c].st = "done" => k.st = "done"
  PROVE  IInv'
  <1>1. TypeOK'
    BY DEF IInv, TypeOK, OsType, CallType
  <1>2. /\ call'[c] = k /\ os'[c] = o
        /\ \A d \in Calls \ {c} : call'[d] = call[d] /\ os'[d] = os[d]
    BY DEF IInv, TypeOK
  <1>3. ASSUME NEW d \in Calls, d # c PROVE CallInv(d)'
    BY <1>2, <1>3, Frame DEF IInv
  <1>4. WaitInv'
    <2> SUFFICES ASSUME NEW d \in waiter.calls
                 PROVE  /\ call'[d].st # "idle" /\ call'[d].ended
                        /\ waiter.st = "returned" => call'[d].st = "done"
      BY DEF WaitInv
    <2>1. d \in Calls
      BY DEF IInv, TypeOK
    <2> QED
      BY <1>2, <2>1 DEF IInv, WaitInv
  <1> QED
    BY <1>1, <1>3, <1>4 DEF IInv

\* What terminate changes of an active call: it is marked as ended, its timer is
\* armed, and on Windows the first attempt starts.
LEMMA TerminateCall ==
  ASSUME IInv, NEW c \in Calls, call[c].st = "active"
  PROVE  /\ terminate(c) \in CallType
         /\ terminate(c).st = "active" /\ terminate(c).task = call[c].task
         /\ terminate(c).ended /\ terminate(c).killed = call[c].killed
         /\ terminate(c).pend = call[c].pend /\ terminate(c).cleanups = call[c].cleanups
         /\ Posix => terminate(c).attempt = 0 /\ terminate(c).flights = {}
  <1> DEFINE k == [call[c] EXCEPT !.ended = TRUE]
  <1>1. call[c] \in CallType /\ CallInv(c)
    BY DEF IInv, TypeOK, CallType
  <1>2. /\ k \in CallType /\ k.st = "active" /\ k.task = call[c].task /\ k.ended
        /\ k.killed = call[c].killed /\ k.pend = call[c].pend /\ k.cleanups = call[c].cleanups
        /\ k.attempt = call[c].attempt /\ k.flights = call[c].flights
    BY <1>1 DEF CallType
  <1>3. Posix => k.attempt = 0 /\ k.flights = {}
    BY <1>1, <1>2 DEF CallInv, Reaped
  <1>4. CASE k.timer \/ k.killed
    <2>1. terminate(c) = k
      BY <1>4 DEF terminate
    <2> QED
      BY <2>1, <1>2, <1>3
  <1>5. CASE ~(k.timer \/ k.killed) /\ Posix
    <2>1. terminate(c) = [k EXCEPT !.timer = TRUE]
      BY <1>5 DEF terminate, Attempt
    <2> QED
      BY <2>1, <1>2, <1>3 DEF CallType
  <1>6. CASE ~(k.timer \/ k.killed) /\ ~Posix
    <2> DEFINE j == [k EXCEPT !.attempt = 1, !.flights = @ \cup {1}]
    <2>1. terminate(c) = [j EXCEPT !.timer = TRUE]
      BY <1>6 DEF terminate, Attempt
    <2> HIDE DEF k
    <2>2. /\ j \in CallType /\ j.st = k.st /\ j.task = k.task /\ j.ended = k.ended
          /\ j.killed = k.killed /\ j.pend = k.pend /\ j.cleanups = k.cleanups
      <3>1. k.flights \cup {1} \in SUBSET {1, 2} /\ 1 \in 0..2
        BY <1>2 DEF CallType
      <3> QED
        BY <3>1, <1>2 DEF CallType
    <2> HIDE DEF j
    <2> QED
      BY <2>1, <2>2, <1>2, <1>6 DEF CallType
  <1> QED
    BY <1>4, <1>5, <1>6

\* A terminated call keeps its part of the invariant.
LEMMA TerminateKeeps ==
  ASSUME IInv, NEW c \in Calls, call[c].st = "active", call'[c] = terminate(c),
         os'[c] = os[c], UNCHANGED <<active, site>>
  PROVE  CallInv(c)'
  <1>1. CallInv(c)
    BY DEF IInv
  <1> HIDE DEF IInv
  <1>2. Tracked(c)' /\ Settled(c)'
    BY <1>1, TerminateCall DEF CallInv, Tracked, Settled
  <1>3. Child(c)'
    BY <1>1, TerminateCall DEF CallInv, Child
  <1>4. Group(c)' = Group(c) /\ (Posix' <=> Posix)
    BY DEF Group, Posix
  <1>5. Reaped(c)'
    BY <1>1, <1>4, TerminateCall DEF CallInv, Reaped
  <1> QED
    BY <1>2, <1>3, <1>5 DEF CallInv

\* terminate of the calls that some task ids stand for (Terminate): the other calls
\* are left alone, and those have ended.
LEMMA TerminateStep ==
  ASSUME IInv, NEW tasks \in SUBSET Tasks, Terminate(tasks), UNCHANGED <<os, active, site>>
  PROVE  /\ call' \in [Calls -> CallType] /\ \A c \in Calls : CallInv(c)'
         /\ \A c \in Calls : call'[c].st = call[c].st /\ (call[c].ended => call'[c].ended)
         /\ \A t \in tasks : active[t] # None => call'[active[t]].ended
  <1>1. call \in [Calls -> CallType]
    BY DEF IInv, TypeOK, CallType
  <1>2. ASSUME NEW c \in Calls, \E t \in tasks : active[t] = c
        PROVE  /\ call'[c] \in CallType /\ CallInv(c)' /\ call'[c].st = call[c].st
               /\ call'[c].ended
    <2>1. call'[c] = terminate(c)
      BY <1>2 DEF Terminate
    <2>2. call[c].st = "active"
      BY <1>2 DEF IInv, CallInv, Tracked
    <2>3. os'[c] = os[c]
      OBVIOUS
    <2> QED
      BY <2>1, <2>2, <2>3, TerminateCall, TerminateKeeps
  <1>3. ASSUME NEW c \in Calls, ~\E t \in tasks : active[t] = c
        PROVE  call'[c] = call[c] /\ CallInv(c)'
    <2>1. call'[c] = call[c]
      BY <1>3 DEF Terminate
    <2>2. CallInv(c)
      BY DEF IInv
    <2> QED
      BY <2>1, <2>2, Frame
  <1>4. \A c \in Calls : call'[c] \in CallType
    BY <1>1, <1>2, <1>3
  <1>5. call' \in [Calls -> CallType]
    BY <1>4 DEF Terminate
  <1>6. \A t \in tasks : active[t] # None => call'[active[t]].ended
    BY <1>2 DEF IInv, TypeOK
  <1> QED
    BY <1>1, <1>2, <1>3, <1>5, <1>6

\* The execution timeout, an abort and cancel (Timeout, Abort, cancel).
LEMMA TerminateIInv ==
  ASSUME IInv, NEW tasks \in SUBSET Tasks, Terminate(tasks),
         aborted' \subseteq Tasks, UNCHANGED <<os, active, waiter, site>>
  PROVE  IInv'
  <1>1. TypeOK'
    BY TerminateStep DEF IInv, TypeOK, CallType
  <1>2. WaitInv'
    <2>1. waiter.calls \subseteq Calls
      BY DEF IInv, TypeOK
    <2> QED
      BY <2>1, TerminateStep DEF IInv, WaitInv
  <1> QED
    BY <1>1, <1>2, TerminateStep DEF IInv

\* cancelAndWait and shutdown: whom they wait for has ended.
LEMMA CancelAndWaitIInv ==
  ASSUME IInv, NEW tasks \in SUBSET Tasks, CancelAndWait(tasks)
  PROVE  IInv'
  <1>1. Terminate(tasks) /\ UNCHANGED <<os, active, aborted, site>>
    BY DEF CancelAndWait
  <1>2. /\ waiter' = [st |-> "waiting", calls |-> { active[t] : t \in tasks } \ {None}]
        /\ \A c \in waiter'.calls : c \in Calls /\ \E t \in tasks : active[t] = c /\ c # None
    BY DEF CancelAndWait, IInv, TypeOK
  <1>3. TypeOK'
    BY <1>1, <1>2, TerminateStep DEF IInv, TypeOK, CallType
  <1>4. WaitInv'
    <2> SUFFICES ASSUME NEW c \in waiter'.calls
                 PROVE  call'[c].st # "idle" /\ call'[c].ended /\ waiter'.st # "returned"
      BY DEF WaitInv
    <2>1. PICK t \in tasks : active[t] = c /\ c # None /\ c \in Calls
      BY <1>2
    <2>2. call[c].st = "active"
      BY <2>1 DEF IInv, CallInv, Tracked
    <2> QED
      BY <1>1, <1>2, <2>1, <2>2, TerminateStep
  <1> QED
    BY <1>1, <1>3, <1>4, TerminateStep DEF IInv

\* The return of a waiter (WaiterReturns).
LEMMA WaiterIInv == ASSUME IInv, WaiterReturns PROVE IInv'
  <1>1. TypeOK'
    BY DEF IInv, TypeOK, WaiterReturns
  <1>2. waiter'.calls = waiter.calls
    BY DEF IInv, TypeOK, WaiterReturns
  <1>3. WaitInv'
    BY <1>2 DEF IInv, WaitInv, WaiterReturns, Waited
  <1>4. ASSUME NEW c \in Calls PROVE CallInv(c)'
    BY Frame DEF IInv, WaiterReturns
  <1> QED
    BY <1>1, <1>3, <1>4 DEF IInv

\* What finalize does to the map: an active call leaves it, and no other does.
LEMMA UntrackedMap ==
  ASSUME IInv, NEW c \in Calls
  PROVE  /\ Untracked(c) \in [Tasks -> Calls \cup {None}]
         /\ \A t \in Tasks : Untracked(c)[t] # c
         /\ \A d \in Calls \ {c}, t \in Tasks : Untracked(c)[t] = d <=> active[t] = d
  BY SitesOK DEF IInv, TypeOK, Untracked

\* What finalize makes of a call that is active, and of its invariant.
LEMMA Returns ==
  ASSUME NEW k \in CallType, k.st = "active", k.cleanups = 0
  PROVE  /\ Finalized(k) \in CallType /\ Finalized(k).st = "done"
         /\ Finalized(k).task = k.task /\ Finalized(k).ended = k.ended
         /\ ~Finalized(k).timer /\ ~Finalized(k).killed /\ ~Finalized(k).pend
         /\ Finalized(k).attempt = 0 /\ Finalized(k).flights = k.flights
         /\ Finalized(k).cleanups = 1
  <1>1. Finalized(k) = Returned(k)
    BY DEF Finalized
  <1>2. k.cleanups + 1 = 1 /\ 1 \in 0..1 /\ 0 \in 0..2
    OBVIOUS
  <1>3. Returned(k) \in CallType
    BY <1>2 DEF Returned, CallType
  <1>4. /\ Returned(k).st = "done" /\ Returned(k).task = k.task /\ Returned(k).ended = k.ended
        /\ Returned(k).timer = FALSE /\ Returned(k).killed = FALSE /\ Returned(k).pend = FALSE
        /\ Returned(k).attempt = 0 /\ Returned(k).flights = k.flights
    BY DEF Returned, CallType
  <1>5. Returned(k).cleanups = 1
    BY <1>2 DEF Returned, CallType
  <1> QED
    BY <1>1, <1>3, <1>4, <1>5

\* A call returns: its CLI has exited, and what is left of its group was killed if
\* the call was terminated.
LEMMA SettleIInv ==
  ASSUME IInv, NEW c \in Calls, UNCHANGED <<aborted, waiter, site>>,
         call[c].st = "active", NEW k \in CallType, k.st = "active", k.cleanups = 0,
         k.ended = call[c].ended, Settle(c, k),
         NEW o \in OsType, os' = [os EXCEPT ![c] = o], o.leader = "gone",
         IF o.closed THEN o.kid \notin {"piped", "escaped"} ELSE o.kid = "none",
         "kid" \in o.doomed => o.kid \in {"piped", "quiet", "gone"},
         Posix => k.flights = {} /\ (k.ended => Group(c)' \subseteq o.doomed)
  PROVE  IInv'
  <1> DEFINE f == Finalized(k)
  <1>1. f \in CallType /\ call' = [call EXCEPT ![c] = f] /\ active' = Untracked(c)
    BY Returns DEF Settle
  <1>2. call'[c] = f /\ os'[c] = o
    BY <1>1 DEF IInv, TypeOK
  <1>3. /\ f.st = "done" /\ f.ended = k.ended /\ ~f.timer /\ ~f.killed /\ ~f.pend
        /\ f.attempt = 0 /\ f.flights = k.flights /\ f.cleanups = 1
    BY Returns
  <1> HIDE DEF f
  <1>4. Tracked(c)' /\ Settled(c)'
    BY <1>1, <1>2, <1>3, UntrackedMap DEF Tracked, Settled
  <1>5. Child(c)'
    BY <1>2, <1>3 DEF Child
  <1>6. Reaped(c)'
    BY <1>2, <1>3 DEF Reaped, Posix
  <1>7. CallInv(c)'
    BY <1>4, <1>5, <1>6 DEF CallInv
  <1>8. /\ active' \in [Tasks -> Calls \cup {None}]
        /\ \A d \in Calls \ {c}, t \in Tasks : active'[t] = d <=> active[t] = d
    BY <1>1, UntrackedMap
  <1>9. f.st # "idle" /\ f.st = "done" /\ (call[c].ended => f.ended)
    BY <1>3
  <1> QED
    BY <1>1, <1>7, <1>8, <1>9, CallStep

\* A call goes on: its place in the map is kept.
LEMMA GoesIInv ==
  ASSUME IInv, NEW c \in Calls, UNCHANGED <<aborted, waiter, site>>,
         call[c].st # "idle", NEW k \in CallType, k.st = call[c].st, k.task = call[c].task,
         k.ended = call[c].ended, k.cleanups = call[c].cleanups, Goes(c, k),
         k.timer \/ k.pend \/ k.attempt # 0 => k.st = "active",
         NEW o \in OsType, os' = [os EXCEPT ![c] = o], (Child(c) /\ Reaped(c))'
  PROVE  IInv'
  <1>1. call' = [call EXCEPT ![c] = k] /\ active' = active
    BY DEF Goes
  <1>2. call'[c] = k /\ os'[c] = o
    BY <1>1 DEF IInv, TypeOK
  <1>3. Tracked(c)' /\ Settled(c)'
    BY <1>1, <1>2 DEF IInv, CallInv, Tracked, Settled
  <1>4. CallInv(c)' /\ active' \in [Tasks -> Calls \cup {None}]
    BY <1>1, <1>3 DEF CallInv, IInv, TypeOK
  <1> QED
    BY <1>1, <1>4, CallStep

\* 'error' of a child that could not be started (Error).
LEMMA ErrorIInv ==
  ASSUME IInv, NEW c \in Calls, Error(c)
  PROVE  IInv'
  <1> DEFINE o == os'[c]
  <1>1. /\ call[c] \in CallType /\ CallInv(c) /\ os \in [Calls -> OsType]
        /\ call \in [Calls -> CallType] /\ os[c].leader = "unborn"
    BY DEF IInv, TypeOK, OsType, CallType, Error
  <1>2. /\ o \in OsType /\ os' = [os EXCEPT ![c] = o] /\ o.leader = "gone"
        /\ o.kid = os[c].kid /\ o.doomed = os[c].doomed /\ o.closed = os[c].closed
    BY <1>1 DEF Error, OsType
  <1>3. /\ call[c].st = "active" /\ o.kid = "none" /\ ~o.closed /\ "kid" \notin o.doomed
        /\ call[c].cleanups = 0
    BY <1>1, <1>2 DEF CallInv, Child, Settled
  <1>4. Group(c)' = {}
    BY <1>2, <1>3 DEF Group
  <1>5. CASE Settle(c, call[c])
    BY <1>1, <1>2, <1>3, <1>4, <1>5, SettleIInv DEF Error, CallInv, Reaped
  <1>6. CASE Goes(c, [call[c] EXCEPT !.pend = TRUE])
    <2> DEFINE k == [call[c] EXCEPT !.pend = TRUE]
    <2>1. /\ k \in CallType /\ k.st = "active" /\ k.task = call[c].task /\ k.ended = call[c].ended
          /\ k.cleanups = call[c].cleanups /\ k.attempt = call[c].attempt
          /\ k.flights = call[c].flights /\ call'[c] = k
      BY <1>1, <1>3, <1>6 DEF CallType, Goes
    <2> HIDE DEF k
    <2>2. Child(c)'
      BY <1>2, <1>3, <2>1 DEF Child
    <2>3. Reaped(c)'
      BY <1>1, <1>4, <2>1 DEF Reaped, CallInv, Error, Posix
    <2> QED
      BY <1>2, <1>3, <1>6, <2>1, <2>2, <2>3, GoesIInv DEF Error, k
  <1> QED
    BY <1>5, <1>6 DEF Error

\* 'close': the result is returned or waits (Close).
LEMMA CloseIInv ==
  ASSUME IInv, NEW c \in Calls, Close(c)
  PROVE  IInv'
  <1> DEFINE o == os'[c]
  <1>1. /\ call[c] \in CallType /\ CallInv(c) /\ os \in [Calls -> OsType]
        /\ call \in [Calls -> CallType] /\ os[c].leader = "gone" /\ ~os[c].closed
        /\ os[c].kid \notin {"piped", "escaped"} /\ UNCHANGED <<aborted, waiter, site>>
    BY DEF IInv, TypeOK, OsType, CallType, Close, Piped
  <1>2. /\ o \in OsType /\ os' = [os EXCEPT ![c] = o] /\ o.leader = "gone"
        /\ o.kid = os[c].kid /\ o.doomed = os[c].doomed /\ o.closed
    BY <1>1 DEF Close, OsType
  <1>3. Group(c)' = Group(c) /\ ("kid" \in o.doomed => o.kid \in {"piped", "quiet", "gone"})
    BY <1>1, <1>2 DEF Group, CallInv, Child
  <1>4. call[c].st # "idle"
    BY <1>1 DEF CallInv, Settled
  <1>5. CASE call[c].st = "done"
    <2>1. Group(c) = {} /\ call[c].attempt = 0
      BY <1>1, <1>5 DEF Group, CallInv, Child, Settled
    <2>2. Settle(c, call[c])
      BY <2>1 DEF Close, isProcessGroupAlive
    <2>3. call' = [call EXCEPT ![c] = call[c]] /\ active' = Untracked(c)
      BY <1>5, <2>2 DEF Settle, Finalized
    <2>4. call' = call /\ active' = active
      <3>1. \A t \in Tasks : active[t] # c
        BY <1>1, <1>5 DEF CallInv, Tracked
      <3>2. active \in [Tasks -> Calls \cup {None}]
        BY DEF IInv, TypeOK
      <3> QED
        BY <1>1, <2>3, <3>1, <3>2 DEF Untracked
    <2>5. Child(c)'
      BY <1>1, <1>2, <1>3, <2>4 DEF CallInv, Child
    <2>6. Reaped(c)'
      BY <1>1, <1>2, <1>3, <2>4 DEF CallInv, Reaped, Posix
    <2> QED
      BY <1>1, <1>2, <1>4, <2>4, <2>5, <2>6, SystemStep
  <1>6. CASE call[c].st = "active" /\ Settle(c, call[c])
              /\ ~(call[c].ended /\ (call[c].attempt # 0
                                     \/ (~call[c].killed /\ isProcessGroupAlive(c))))
    <2>1. Posix => call[c].flights = {} /\ (call[c].ended => Group(c) \subseteq o.doomed)
      BY <1>1, <1>2, <1>6 DEF CallInv, Reaped, isProcessGroupAlive
    <2>2. call[c].cleanups = 0
      BY <1>1, <1>6 DEF CallInv, Settled
    <2>3. IF o.closed THEN o.kid \notin {"piped", "escaped"} ELSE o.kid = "none"
      BY <1>1, <1>2
    <2> QED
      BY <1>1, <1>2, <1>3, <1>6, <2>1, <2>2, <2>3, SettleIInv
  <1>7. CASE call[c].st = "active" /\ Goes(c, [call[c] EXCEPT !.pend = TRUE])
    <2> DEFINE k == [call[c] EXCEPT !.pend = TRUE]
    <2>1. /\ k \in CallType /\ k.st = "active" /\ k.task = call[c].task /\ k.ended = call[c].ended
          /\ k.cleanups = call[c].cleanups /\ k.attempt = call[c].attempt
          /\ k.flights = call[c].flights /\ k.killed = call[c].killed /\ call'[c] = k
          /\ Goes(c, k)
      BY <1>1, <1>7 DEF CallType, Goes
    <2> HIDE DEF k
    <2>2. Child(c)'
      BY <1>1, <1>2, <1>3, <2>1 DEF Child
    <2>3. Reaped(c)'
      BY <1>1, <1>2, <1>3, <2>1 DEF Reaped, CallInv, Posix
    <2> QED
      BY <1>1, <1>2, <1>4, <1>7, <2>1, <2>2, <2>3, GoesIInv
  <1>8. call[c].st \in {"active", "done"}
    BY <1>1, <1>4 DEF CallType
  <1> QED
    BY <1>5, <1>6, <1>7, <1>8 DEF Close

\* The force kill timer (ForceKill).
LEMMA ForceKillIInv ==
  ASSUME IInv, NEW c \in Calls, ForceKill(c)
  PROVE  IInv'
  <1> DEFINE o == os'[c]
             k == [call[c] EXCEPT !.timer = FALSE, !.killed = TRUE]
  <1>1. /\ call[c] \in CallType /\ CallInv(c) /\ os \in [Calls -> OsType] /\ os[c] \in OsType
        /\ call \in [Calls -> CallType] /\ call[c].timer
        /\ UNCHANGED <<aborted, waiter, site>>
    BY DEF IInv, TypeOK, OsType, CallType, ForceKill
  <1>2. call[c].st = "active" /\ call[c].cleanups = 0
    BY <1>1 DEF CallInv, Settled
  <1>3. /\ o \in OsType /\ os' = [os EXCEPT ![c] = o] /\ o.leader = os[c].leader
        /\ o.kid = os[c].kid /\ o.closed = os[c].closed
        /\ o.doomed = os[c].doomed \cup (IF Posix THEN Group(c) ELSE {})
    <2>1. Group(c) \in SUBSET {"leader", "kid"}
      BY DEF Group
    <2>2. CASE Posix
      BY <1>1, <2>1, <2>2 DEF ForceKill, OsType
    <2>3. CASE ~Posix
      BY <1>1, <2>3 DEF ForceKill, OsType
    <2> QED
      BY <2>2, <2>3
  <1>4. /\ k \in CallType /\ k.st = "active" /\ k.task = call[c].task /\ k.ended = call[c].ended
        /\ k.cleanups = 0 /\ k.attempt = call[c].attempt /\ k.flights = call[c].flights
        /\ k.pend = call[c].pend
    BY <1>1, <1>2 DEF CallType
  <1> HIDE DEF o, k
  <1>5. Group(c)' = Group(c) /\ (Posix => Group(c)' \subseteq o.doomed)
    BY <1>3 DEF Group, o
  <1>6. "kid" \in o.doomed => o.kid \in {"piped", "quiet", "gone"}
    BY <1>1, <1>3 DEF CallInv, Child, Group
  <1>7. "leader" \in o.doomed => o.leader \in {"alive", "gone"}
    BY <1>1, <1>3 DEF CallInv, Child, Group
  <1>8. CASE k.pend /\ Attempt(k, 2).attempt = 0 /\ Settle(c, k)
    <2>1. Posix
      <3>1. ASSUME ~Posix PROVE Attempt(k, 2).attempt = 2
        BY <1>4, <3>1 DEF Attempt, CallType
      <3> QED
        BY <1>8, <3>1
    <2>2. o.leader = "gone" /\ k.flights = {}
      BY <1>1, <1>3, <1>4, <1>8, <2>1 DEF CallInv, Child, Reaped
    <2>3. IF o.closed THEN o.kid \notin {"piped", "escaped"} ELSE o.kid = "none"
      BY <1>1, <1>3, <1>4, <1>8 DEF CallInv, Child
    <2> QED
      BY <1>1, <1>2, <1>3, <1>4, <1>5, <1>6, <1>8, <2>2, <2>3, SettleIInv
  <1>9. CASE Goes(c, Attempt(k, 2))
    <2> DEFINE j == Attempt(k, 2)
    <2>1. /\ j \in CallType /\ j.st = "active" /\ j.task = call[c].task
          /\ j.ended = call[c].ended /\ j.cleanups = 0 /\ j.pend = call[c].pend
          /\ Posix => j.attempt = 0 /\ j.flights = {}
      <3>1. CASE Posix
        <4>1. j = k
          BY <3>1 DEF Attempt
        <4>2. k.attempt = 0 /\ k.flights = {}
          BY <1>1, <1>4, <3>1 DEF CallInv, Reaped
        <4> QED
          BY <1>4, <4>1, <4>2
      <3>2. CASE ~Posix
        <4>1. k.flights \cup {2} \in SUBSET {1, 2} /\ 2 \in 0..2
          BY <1>4 DEF CallType
        <4> QED
          BY <1>4, <3>2, <4>1 DEF Attempt, CallType
      <3> QED
        BY <3>1, <3>2
    <2>2. call'[c] = j /\ Goes(c, j)
      BY <1>1, <1>9 DEF Goes
    <2> HIDE DEF j
    <2>3. Child(c)'
      BY <1>1, <1>2, <1>3, <1>6, <1>7, <2>1, <2>2 DEF Child, CallInv, o
    <2>4. Reaped(c)'
      BY <1>1, <1>5, <2>1, <2>2 DEF Reaped, Posix, o
    <2> QED
      BY <1>1, <1>2, <1>3, <2>1, <2>2, <2>3, <2>4, GoesIInv
  <1> QED
    BY <1>8, <1>9 DEF ForceKill, k

\* A taskkill settles (AttemptEnds).
LEMMA AttemptIInv ==
  ASSUME IInv, NEW c \in Calls, NEW n \in {1, 2}, AttemptEnds(c, n)
  PROVE  IInv'
  <1> DEFINE o == os'[c]
             k == [call[c] EXCEPT !.flights = @ \ {n}]
  <1>1. /\ call[c] \in CallType /\ CallInv(c) /\ os \in [Calls -> OsType] /\ os[c] \in OsType
        /\ call \in [Calls -> CallType] /\ n \in call[c].flights
        /\ UNCHANGED <<aborted, waiter, site>>
    BY DEF IInv, TypeOK, OsType, CallType, AttemptEnds
  <1>2. ~Posix
    BY <1>1 DEF CallInv, Reaped
  <1>3. call[c].st # "idle"
    BY <1>1 DEF CallInv, Settled, Idle
  <1>4. /\ o \in OsType /\ os' = [os EXCEPT ![c] = o] /\ o.leader = os[c].leader
        /\ o.kid = os[c].kid /\ o.closed = os[c].closed
        /\ o.doomed = os[c].doomed \cup (Group(c) \cap {"leader"})
    <2>1. Group(c) \cap {"leader"} \in SUBSET {"leader", "kid"}
      OBVIOUS
    <2> QED
      BY <1>1, <2>1 DEF AttemptEnds, OsType
  <1>5. /\ k \in CallType /\ k.st = call[c].st /\ k.task = call[c].task
        /\ k.ended = call[c].ended /\ k.cleanups = call[c].cleanups
        /\ k.attempt = call[c].attempt /\ k.pend = call[c].pend /\ k.timer = call[c].timer
    <2>1. call[c].flights \ {n} \in SUBSET {1, 2}
      BY <1>1 DEF CallType
    <2> QED
      BY <1>1, <2>1 DEF CallType
  <1> HIDE DEF o, k
  <1>6. /\ "kid" \in o.doomed => o.kid \in {"piped", "quiet", "gone"}
        /\ "leader" \in o.doomed => o.leader \in {"alive", "gone"}
    BY <1>1, <1>4 DEF CallInv, Child, Group
  <1>7. Reaped(c)'
    BY <1>1, <1>2 DEF Reaped, Posix
  <1>8. CASE Goes(c, k)
    <2>1. call'[c] = k
      BY <1>1, <1>8 DEF Goes
    <2>2. Child(c)'
      BY <1>1, <1>4, <1>5, <1>6, <2>1 DEF Child, CallInv, o
    <2>3. k.timer \/ k.pend \/ k.attempt # 0 => k.st = "active"
      BY <1>1, <1>5 DEF CallInv, Settled
    <2> QED
      BY <1>1, <1>3, <1>4, <1>5, <1>7, <1>8, <2>2, <2>3, GoesIInv
  <1>9. CASE Goes(c, [k EXCEPT !.attempt = 0])
    <2> DEFINE j == [k EXCEPT !.attempt = 0]
    <2>1. /\ j \in CallType /\ j.st = k.st /\ j.task = k.task /\ j.ended = k.ended
          /\ j.cleanups = k.cleanups /\ j.attempt = 0 /\ j.pend = k.pend /\ j.timer = k.timer
      <3>1. 0 \in 0..2
        OBVIOUS
      <3> QED
        BY <1>5, <3>1 DEF CallType
    <2>2. call'[c] = j /\ Goes(c, j)
      BY <1>1, <1>9 DEF Goes
    <2> HIDE DEF j
    <2>3. Child(c)'
      BY <1>1, <1>4, <1>5, <1>6, <2>1, <2>2 DEF Child, CallInv, o
    <2>4. j.timer \/ j.pend \/ j.attempt # 0 => j.st = "active"
      BY <1>1, <1>5, <2>1 DEF CallInv, Settled
    <2> QED
      BY <1>1, <1>3, <1>4, <1>5, <1>7, <2>1, <2>2, <2>3, <2>4, GoesIInv
  <1>10. CASE k.pend /\ Settle(c, k)
    <2>1. call[c].st = "active" /\ k.st = "active" /\ k.cleanups = 0
      BY <1>1, <1>5, <1>10 DEF CallInv, Settled
    <2>2. o.leader = "gone"
      BY <1>1, <1>4, <1>5, <1>10 DEF CallInv, Child
    <2>3. IF o.closed THEN o.kid \notin {"piped", "escaped"} ELSE o.kid = "none"
      BY <1>1, <1>4, <1>5, <1>10 DEF CallInv, Child
    <2> QED
      BY <1>1, <1>2, <1>4, <1>5, <1>6, <1>10, <2>1, <2>2, <2>3, SettleIInv
  <1> QED
    BY <1>8, <1>9, <1>10 DEF AttemptEnds, k

\* A call of run() is refused, or gets a child and its place in the map (Run).
LEMMA RunIInv ==
  ASSUME IInv, NEW c \in Calls, NEW t \in Tasks, Run(c, t)
  PROVE  IInv'
  <1>1. /\ call[c] = Idle /\ CallInv(c) /\ os \in [Calls -> OsType] /\ os[c] \in OsType
        /\ call \in [Calls -> CallType] /\ os[c].leader = "none" /\ ~os[c].closed
        /\ os[c].kid = "none" /\ UNCHANGED <<aborted, waiter, site>>
        /\ active \in [Tasks -> Calls \cup {None}] /\ \A u \in Tasks : active[u] # c
    BY DEF IInv, TypeOK, OsType, CallType, Run, CallInv, Settled, Child, Tracked
  <1>2. CASE Refused(c, t)
    <2> DEFINE j == Returned(Idle)
               k == [j EXCEPT !.task = t]
    <2>1. /\ j \in CallType /\ j.st = "done" /\ ~j.ended /\ ~j.timer /\ ~j.killed /\ ~j.pend
          /\ j.attempt = 0 /\ j.flights = {} /\ j.cleanups = 1
      <3>1. Idle \in CallType /\ Idle.cleanups = 0 /\ Idle.flights = {} /\ ~Idle.ended
        BY DEF Idle, CallType
      <3>2. Idle.cleanups + 1 = 1 /\ 1 \in 0..1 /\ 0 \in 0..2
        BY <3>1
      <3>3. Returned(Idle) \in CallType
        BY <3>1, <3>2 DEF Returned, CallType
      <3>4. /\ j.st = "done" /\ j.ended = Idle.ended /\ j.timer = FALSE /\ j.killed = FALSE
            /\ j.pend = FALSE /\ j.attempt = 0 /\ j.flights = Idle.flights
        BY <3>1 DEF Returned, CallType
      <3>5. j.cleanups = 1
        BY <3>1, <3>2 DEF Returned, CallType
      <3> QED
        BY <3>1, <3>3, <3>4, <3>5
    <2> HIDE DEF j
    <2>2. /\ k \in CallType /\ k.st = "done" /\ ~k.ended /\ ~k.timer /\ ~k.killed /\ ~k.pend
          /\ k.attempt = 0 /\ k.flights = {} /\ k.cleanups = 1
      BY <2>1 DEF CallType
    <2>3. call' = [call EXCEPT ![c] = k] /\ os' = os /\ active' = active
      BY <1>1, <1>2 DEF Refused, j
    <2> HIDE DEF k
    <2>4. call'[c] = k /\ os' = [os EXCEPT ![c] = os[c]]
      BY <1>1, <2>3
    <2>5. Tracked(c)' /\ Settled(c)'
      BY <1>1, <2>2, <2>3, <2>4 DEF Tracked, Settled
    <2>6. Child(c)'
      BY <1>1, <2>2, <2>3, <2>4 DEF Child, CallInv
    <2>7. Reaped(c)'
      BY <2>2, <2>4 DEF Reaped
    <2>8. CallInv(c)'
      BY <2>5, <2>6, <2>7 DEF CallInv
    <2>9. k.st = "done" /\ ~call[c].ended
      BY <1>1, <2>2 DEF Idle
    <2> QED
      BY <1>1, <2>2, <2>3, <2>4, <2>8, <2>9, CallStep
  <1>3. CASE active[t] = None /\ Spawned(c, t)
    <2> DEFINE o == os'[c]
               k == [Idle EXCEPT !.st = "active", !.task = t]
    <2>1. /\ k.st = "active" /\ k.task = t /\ ~k.ended /\ ~k.timer /\ ~k.killed /\ ~k.pend
          /\ k.attempt = 0 /\ k.flights = {} /\ k.cleanups = 0
      BY DEF Idle
    <2>2. k \in CallType
      <3>1. Idle \in CallType
        BY DEF Idle, CallType
      <3> QED
        BY <3>1 DEF CallType
    <2>3. call' = [call EXCEPT ![c] = k] /\ active' = [active EXCEPT ![t] = c]
      BY <1>1, <1>3 DEF Spawned
    <2> HIDE DEF k
    <2>4. /\ o \in OsType /\ os' = [os EXCEPT ![c] = o] /\ o.leader \in {"alive", "unborn"}
          /\ o.kid = "none" /\ ~o.closed /\ o.doomed = os[c].doomed
      BY <1>1, <1>3 DEF Spawned, OsType
    <2>5. call'[c] = k
      BY <1>1, <2>3
    <2>6. /\ active' \in [Tasks -> Calls \cup {None}]
          /\ \A d \in Calls \ {c}, u \in Tasks : active'[u] = d <=> active[u] = d
          /\ \A u \in Tasks : active'[u] = c <=> u = t
      BY <1>1, <1>3, <2>3, SitesOK
    <2>7. Tracked(c)' /\ Settled(c)'
      BY <2>1, <2>5, <2>6 DEF Tracked, Settled
    <2>8. os[c].doomed = {}
      BY <1>1 DEF CallInv, Child, OsType
    <2>9. Child(c)'
      BY <2>1, <2>4, <2>5, <2>8 DEF Child
    <2>10. Reaped(c)'
      BY <2>1, <2>5 DEF Reaped
    <2>11. CallInv(c)'
      BY <2>7, <2>9, <2>10 DEF CallInv
    <2>12. k.st = "active" /\ ~call[c].ended /\ call[c].st = "idle"
      BY <1>1, <2>1 DEF Idle
    <2> QED
      BY <1>1, <2>2, <2>3, <2>4, <2>6, <2>11, <2>12, CallStep
  <1> QED
    BY <1>2, <1>3 DEF Run

\* Bad output ends the call as terminate does (failOnDecodeError).
LEMMA DecodeIInv ==
  ASSUME IInv, NEW c \in Calls, failOnDecodeError(c)
  PROVE  IInv'
  <1>1. /\ call[c].st = "active" /\ call' = [call EXCEPT ![c] = terminate(c)]
        /\ UNCHANGED <<os, active, aborted, waiter, site>>
    BY DEF failOnDecodeError, Goes
  <1>2. call'[c] = terminate(c)
    BY <1>1 DEF IInv, TypeOK
  <1>3. CallInv(c)' /\ terminate(c) \in CallType /\ terminate(c).st = "active"
        /\ terminate(c).ended
    BY <1>1, <1>2, TerminateKeeps, TerminateCall
  <1>4. /\ os[c] \in OsType /\ os' = [os EXCEPT ![c] = os[c]]
        /\ active' \in [Tasks -> Calls \cup {None}]
    BY <1>1 DEF IInv, TypeOK, OsType
  <1> QED
    BY <1>1, <1>3, <1>4, CallStep

-----------------------------------------------------------------------------
\* Every step keeps the invariant (Next).
LEMMA NextIInv == ASSUME IInv, [Next]_vars PROVE IInv'
  <1>1. site.tasks \subseteq Tasks
    BY SitesOK DEF IInv, TypeOK
  <1>2. ASSUME NEW c \in Calls, System(c) PROVE IInv'
    BY <1>2, SystemIInv
  <1>3. ASSUME NEW c \in Calls, Callback(c) PROVE IInv'
    <2>1. CASE Timeout(c)
      <3>1. {call[c].task} \in SUBSET Tasks
        BY <2>1 DEF Timeout, IInv, CallInv, Tracked
      <3>2. aborted' \subseteq Tasks
        BY <2>1 DEF Timeout, IInv, TypeOK
      <3> QED
        BY <2>1, <3>1, <3>2, TerminateIInv DEF Timeout
    <2> QED
      BY <1>3, <2>1, DecodeIInv, ErrorIInv, CloseIInv, ForceKillIInv, AttemptIInv DEF Callback
  <1>4. ASSUME NEW c \in Calls, NEW t \in site.tasks, Run(c, t) PROVE IInv'
    BY <1>1, <1>4, RunIInv
  <1>5. ASSUME NEW t \in site.tasks, Abort(t) \/ cancel(t) \/ cancelAndWait(t) PROVE IInv'
    <2>1. {t} \in SUBSET Tasks
      BY <1>1
    <2>2. CASE Abort(t)
      <3>1. aborted' \subseteq Tasks
        BY <2>1, <2>2 DEF Abort, IInv, TypeOK
      <3> QED
        BY <2>1, <2>2, <3>1, TerminateIInv DEF Abort
    <2>3. CASE cancel(t)
      <3>1. aborted' \subseteq Tasks
        BY <2>3 DEF cancel, IInv, TypeOK
      <3> QED
        BY <2>1, <2>3, <3>1, TerminateIInv DEF cancel
    <2>4. CASE cancelAndWait(t)
      BY <2>1, <2>4, CancelAndWaitIInv DEF cancelAndWait
    <2> QED
      BY <1>5, <2>2, <2>3, <2>4
  <1>6. CASE shutdown
    BY <1>6, CancelAndWaitIInv DEF shutdown
  <1>7. CASE UNCHANGED vars
    <2>1. \A c \in Calls : CallInv(c)'
      BY <1>7, Frame DEF IInv, vars
    <2> QED
      BY <1>7, <2>1 DEF IInv, TypeOK, WaitInv, vars
  <1> QED
    BY <1>2, <1>3, <1>4, <1>5, <1>6, <1>7, WaiterIInv DEF Next

\* The invariant holds throughout.
LEMMA Invariance == Spec => []IInv
  BY InitIInv, NextIInv, PTL DEF Spec

\* Every call keeps its type, and its cleanup callback runs at most once (finalize),
\* for any number of calls, callbacks and callers that end them.
THEOREM CallsTypeCorrect == Spec => []TypeOK
  <1>1. IInv => TypeOK
    BY DEF IInv
  <1> QED
    BY <1>1, Invariance, PTL

\* A CLI that runs and has not been killed is the one its task id stands for
\* (activeProcesses): a cancel or a shutdown finds every live CLI.
THEOREM LiveCliIsTracked == Spec => []LiveIsTracked
  <1>1. IInv => LiveIsTracked
    BY DEF IInv, CallInv, Tracked, Child, LiveIsTracked, Survivors, Group
  <1> QED
    BY <1>1, Invariance, PTL

\* A call that was terminated returns only when nothing of its process group is left
\* to kill (handleClose, the force kill timer, startTerminationAttempt).
THEOREM TerminatedCallsReap == Spec => []TerminatedTreeIsGone
  <1>1. IInv => TerminatedTreeIsGone
    BY DEF IInv, CallInv, Child, Reaped, TerminatedTreeIsGone, Survivors, Group
  <1> QED
    BY <1>1, Invariance, PTL

\* When cancelAndWait or shutdown returns, no process of the calls it ended survives.
THEOREM WaitersReapCorrect == Spec => []WaitersReap
  <1>1. IInv => WaitersReap
    <2>1. IInv => TerminatedTreeIsGone
      BY DEF IInv, CallInv, Child, Reaped, TerminatedTreeIsGone, Survivors, Group
    <2> QED
      BY <2>1 DEF IInv, TypeOK, WaitInv, WaitersReap, TerminatedTreeIsGone
  <1> QED
    BY <1>1, Invariance, PTL
=============================================================================
