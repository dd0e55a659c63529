----------------------- MODULE InstanceHeartbeatProofs -----------------------
(***************************************************************************)
(* A replica that its peers take for dead holds no checkout, for every     *)
(* choice of the times that respects the budget.                           *)
(*                                                                         *)
(* The argument is a chain of deadlines. The row is never older than       *)
(* lastSuccessAt by more than the boot write took; the timer looks at the  *)
(* deadline no later than Interval after it was last found in the future;  *)
(* from then on the forceExit timer bounds the life of the process.        *)
(***************************************************************************)
EXTENDS InstanceHeartbeat, TLAPS

\* While the process lives the row backs lastSuccessAt, and so will the write in
\* flight.
RowBacksCredit ==
    phase \in {"serving", "stopping", "drained"} =>
        /\ row # NoRow /\ row >= last - BootLatency
        /\ last <= now
        /\ sent # Idle => sent >= last /\ sent <= now
        /\ sent # Idle /\ landed => row = sent

\* Before the port opens there is only the boot write.
BootWrite ==
    phase = "booting" =>
        /\ ~busy /\ ~late /\ ~lost /\ last = 0 /\ now <= BootLatency /\ sent = 0
        /\ landed => row = 0
        /\ ~landed => row = NoRow

\* The timer of a serving process has not missed the fail-stop deadline.
TimerWatches ==
    phase = "serving" =>
        /\ ~lost
        /\ now <= nextBeat + Lag
        /\ nextBeat <= last + FenceAfter + Interval

\* The hard timeout of a closing process was armed in time.
DeadlineArmed ==
    phase \in {"stopping", "drained"} =>
        /\ now <= exitBy + Lag
        /\ exitBy <= last + FenceAfter + Interval + Lag + HardTimeout

\* Checkouts are held only before the drains end, except by the admissions that
\* were in flight when the shutdown began.
BusyEarly ==
    /\ busy => phase \in {"serving", "stopping"}
    /\ late => phase \in Closing

HeartbeatInv ==
    TypeOK /\ RowBacksCredit /\ BootWrite /\ TimerWatches /\ DeadlineArmed /\ BusyEarly

USE TimesOK DEF NoRow, Idle, Phases, Closing, Running

-----------------------------------------------------------------------------
\* TypeOK in two parts, the flags and the times, for a prover each.
Flags == landed \in BOOLEAN /\ lost \in BOOLEAN /\ busy \in BOOLEAN /\ late \in BOOLEAN
Times ==
    /\ now \in Nat /\ phase \in Phases
    /\ row \in Int /\ sent \in Int /\ last \in Nat
    /\ row >= NoRow /\ sent >= Idle
    /\ nextBeat \in Nat /\ exitBy \in Nat

\* The parts make up the type invariant.
LEMMA TypeParts == TypeOK <=> Flags /\ Times
BY DEF TypeOK, Flags, Times

\* A booting replica has no row and its boot write in flight.
LEMMA InitTypes == Init => Flags /\ Times
<1>1. Init => Flags
  BY Zenon DEF Init, Flags
<1>2. Init => Times
  BY DEF Init, Times
<1> QED
  BY <1>1, <1>2

\* The flags of the replica stay flags: each step sets them or leaves them alone.
LEMMA FlagsStep == ASSUME Flags, [Next]_vars PROVE Flags'
<1> USE DEF Flags, beats, work
<1>1. CASE startInstanceHeartbeat \/ Beat
  BY <1>1, Zenon DEF startInstanceHeartbeat, Beat, Fence, gracefulShutdown, beatInstanceHeartbeat
<1>2. CASE Land \/ WriteReturns \/ WriteFails \/ hasLostHeartbeatOwnership
  BY <1>2, Zenon DEF Land, WriteReturns, WriteFails, hasLostHeartbeatOwnership, Fence,
                     gracefulShutdown
<1>3. CASE Activate \/ Finish \/ Signal \/ runGracefulShutdownSequence
  BY <1>3, Zenon DEF Activate, Finish, Signal, gracefulShutdown, runGracefulShutdownSequence
<1>4. CASE releaseInstanceHeartbeat \/ Exit \/ pruneDeadInstanceHeartbeats \/ Tick
  BY <1>4, Zenon DEF releaseInstanceHeartbeat, Exit, pruneDeadInstanceHeartbeats, Tick
<1>5. CASE UNCHANGED vars
  BY <1>5, Zenon DEF vars
<1> QED
  BY <1>1, <1>2, <1>3, <1>4, <1>5 DEF Next

\* The clock readings and deadlines stay times: a credit is never taken from a
\* flight that is over.
LEMMA TimesStep == ASSUME Times, [Next]_vars PROVE Times'
<1> USE DEF Times, beats, work
<1>1. CASE startInstanceHeartbeat
  BY <1>1 DEF startInstanceHeartbeat, beatInstanceHeartbeat
<1>2. CASE Beat
  BY <1>2 DEF Beat, Fence, gracefulShutdown, beatInstanceHeartbeat
<1>3. CASE Land
  BY <1>3 DEF Land
<1>4. CASE WriteReturns
  BY <1>4 DEF WriteReturns, Fence, gracefulShutdown, credit
<1>5. CASE WriteFails
  BY <1>5 DEF WriteFails
<1>6. CASE hasLostHeartbeatOwnership
  BY <1>6 DEF hasLostHeartbeatOwnership, Fence, gracefulShutdown
<1>7. CASE Activate \/ Finish \/ Tick
  BY <1>7 DEF Activate, Finish, Tick
<1>8. CASE Signal
  BY <1>8 DEF Signal, gracefulShutdown
<1>9. CASE runGracefulShutdownSequence \/ releaseInstanceHeartbeat \/ Exit
  BY <1>9 DEF runGracefulShutdownSequence, releaseInstanceHeartbeat, Exit
<1>10. CASE pruneDeadInstanceHeartbeats
  BY <1>10 DEF pruneDeadInstanceHeartbeats
<1>11. CASE UNCHANGED vars
  BY <1>11 DEF vars
<1> QED
  BY <1>1, <1>2, <1>3, <1>4, <1>5, <1>6, <1>7, <1>8, <1>9, <1>10, <1>11 DEF Next

\* Every variable keeps its type.
THEOREM HeartbeatTypeCorrect == Spec => []TypeOK
<1>2. Flags /\ Times /\ [Next]_vars => (Flags /\ Times)'
  BY FlagsStep, TimesStep
<1> QED
  BY <1>2, InitTypes, TypeParts, PTL DEF Spec

-----------------------------------------------------------------------------
\* The age of the row of a live process, as a peer with a fast clock sees it, is
\* within the budget, so nobody takes the process for dead or prunes its row.
LEMMA LiveRowIsFresh ==
    ASSUME Budget, HeartbeatInv, phase \in {"serving", "stopping", "drained"}
    PROVE  row # NoRow /\ now + Skew - row <= DeadAfter
<1>1. now <= last + FenceAfter + Interval + Lag + HardTimeout + Lag
  BY DEF HeartbeatInv, TimerWatches, DeadlineArmed, TypeOK
<1>2. row # NoRow /\ row >= last - BootLatency
  BY DEF HeartbeatInv, RowBacksCredit
<1> QED
  BY <1>1, <1>2 DEF HeartbeatInv, TypeOK, Budget

\* Starting the shutdown, from a fence or a signal, arms the hard timeout before
\* the time it is needed.
LEMMA ShutdownInTime ==
    ASSUME HeartbeatInv, gracefulShutdown, phase # "booting",
           UNCHANGED <<now, row, last, busy, late>>,
           sent' = Idle \/ UNCHANGED sent, UNCHANGED landed
    PROVE  /\ RowBacksCredit' /\ BootWrite' /\ DeadlineArmed' /\ BusyEarly'
           /\ phase' # "serving"
<1> USE DEF HeartbeatInv, TypeOK, gracefulShutdown
<1>1. phase' # "serving" /\ phase' # "booting"
  OBVIOUS
<1>2. RowBacksCredit'
  BY DEF RowBacksCredit
<1>3. DeadlineArmed'
  BY DEF DeadlineArmed, TimerWatches
<1>4. BusyEarly'
  BY DEF BusyEarly
<1> QED
  BY <1>1, <1>2, <1>3, <1>4 DEF BootWrite

\* Peers never take a replica for dead, by the age of its row or its absence, while
\* a workload that it admitted before its shutdown holds a checkout, if the times
\* respect the budget. One that slipped in during the shutdown holds a checkout under
\* a dead row only after the replica has deleted that row itself.
THEOREM DeadReplicaOwnsNoCheckout ==
    ASSUME Budget
    PROVE  Spec => []DeadOwnsNoCheckout
<1>1. Init => TypeOK /\ RowBacksCredit /\ BootWrite /\ TimerWatches /\ DeadlineArmed /\ BusyEarly
  <2> SUFFICES ASSUME Init PROVE RowBacksCredit /\ BootWrite /\ TimerWatches /\ DeadlineArmed /\ BusyEarly
    BY InitTypes, TypeParts
  <2>1. ~landed /\ ~lost /\ ~busy /\ ~late /\ phase = "booting"
    BY Zenon DEF Init
  <2>2. now = 0 /\ last = 0 /\ sent = 0 /\ row = NoRow
    BY Zenon DEF Init
  <2> QED
    BY <2>1, <2>2 DEF RowBacksCredit, BootWrite, TimerWatches, DeadlineArmed, BusyEarly
<1>2. HeartbeatInv /\ TypeOK' /\ [Next]_vars => HeartbeatInv'
  <2> SUFFICES ASSUME HeartbeatInv, TypeOK', [Next]_vars
               PROVE  /\ RowBacksCredit' /\ BootWrite' /\ TimerWatches' /\ DeadlineArmed'
                      /\ BusyEarly'
    BY DEF HeartbeatInv
  <2> USE DEF HeartbeatInv, TypeOK, beats, work
  <2>1. CASE startInstanceHeartbeat
    BY <2>1 DEF startInstanceHeartbeat, beatInstanceHeartbeat, RowBacksCredit, BootWrite,
                TimerWatches, DeadlineArmed, BusyEarly
  <2>2. CASE Beat
    <3>1. CASE Expired
      <4>1. Fence /\ UNCHANGED <<now, row, last, busy, late, sent, landed>> /\ phase # "booting"
        BY <2>2, <3>1 DEF Beat
      <4> QED
        BY <4>1, ShutdownInTime DEF Fence, TimerWatches
    <3>2. CASE ~Expired
      <4>1. ~lost /\ now - last <= FenceAfter
        BY <3>2 DEF Expired
      <4>2. /\ phase # "booting" /\ nextBeat' = now + Interval
            /\ UNCHANGED <<now, phase, row, last, lost, exitBy, busy, late>>
            /\ (sent' = now /\ ~landed') \/ UNCHANGED <<sent, landed>>
        BY <2>2, <3>2, Zenon DEF Beat, beatInstanceHeartbeat, Running, Closing
      <4>3. RowBacksCredit'
        BY <4>2 DEF RowBacksCredit
      <4>4. TimerWatches'
        BY <4>1, <4>2 DEF TimerWatches
      <4> QED
        BY <4>2, <4>3, <4>4 DEF BootWrite, DeadlineArmed, BusyEarly
    <3> QED
      BY <3>1, <3>2
  <2>3. CASE Land
    BY <2>3 DEF Land, RowBacksCredit, BootWrite, TimerWatches, DeadlineArmed, BusyEarly
  <2>4. CASE WriteReturns
    <3>1. CASE Expired
      <4>1. Fence /\ sent' = Idle /\ UNCHANGED <<now, row, last, busy, late, landed>> /\ phase # "booting"
        BY <2>4, <3>1 DEF WriteReturns
      <4> QED
        BY <4>1, ShutdownInTime DEF Fence, TimerWatches
    <3>2. CASE ~Expired
      <4>1. /\ phase # "booting" /\ sent # Idle /\ landed /\ sent' = Idle /\ last' = sent
            /\ UNCHANGED <<now, phase, row, lost, nextBeat, exitBy, busy, late>>
        BY <2>4, <3>2, Zenon DEF WriteReturns, credit, Running, Closing
      <4>2. RowBacksCredit'
        BY <4>1 DEF RowBacksCredit
      <4>3. TimerWatches' /\ DeadlineArmed'
        BY <4>1 DEF RowBacksCredit, TimerWatches, DeadlineArmed
      <4> QED
        BY <4>1, <4>2, <4>3 DEF BootWrite, BusyEarly
    <3> QED
      BY <3>1, <3>2
  <2>5. CASE WriteFails
    BY <2>5 DEF WriteFails, RowBacksCredit, BootWrite, TimerWatches, DeadlineArmed, BusyEarly
  <2>6. CASE hasLostHeartbeatOwnership
    <3>1. Fence /\ UNCHANGED <<now, row, last, busy, late, sent, landed>> /\ phase # "booting"
      BY <2>6 DEF hasLostHeartbeatOwnership
    <3> QED
      BY <3>1, ShutdownInTime DEF Fence, TimerWatches
  <2>7. CASE Activate \/ Finish
    BY <2>7 DEF Activate, Finish, RowBacksCredit, BootWrite, TimerWatches, DeadlineArmed,
                BusyEarly
  <2>8. CASE Signal
    <3>1. gracefulShutdown /\ UNCHANGED <<now, row, last, busy, late, sent, landed>>
          /\ phase # "booting"
      BY <2>8 DEF Signal
    <3> QED
      BY <3>1, ShutdownInTime DEF TimerWatches
  <2>9. CASE runGracefulShutdownSequence
    BY <2>9 DEF runGracefulShutdownSequence, Drained, RowBacksCredit, BootWrite, TimerWatches,
                DeadlineArmed, BusyEarly
  <2>10. CASE releaseInstanceHeartbeat \/ Exit
    BY <2>10 DEF releaseInstanceHeartbeat, Exit, RowBacksCredit, BootWrite, TimerWatches,
                 DeadlineArmed, BusyEarly
  <2>11. CASE pruneDeadInstanceHeartbeats
    <3>1. phase \notin {"serving", "stopping", "drained"}
      BY <2>11, LiveRowIsFresh DEF pruneDeadInstanceHeartbeats, Budget
    <3>2. phase # "booting"
      BY <2>11 DEF pruneDeadInstanceHeartbeats, Budget, BootWrite
    <3> QED
      BY <2>11, <3>1, <3>2 DEF pruneDeadInstanceHeartbeats, RowBacksCredit, BootWrite,
                               TimerWatches, DeadlineArmed, BusyEarly
  <2>12. CASE Tick
    BY <2>12 DEF Tick, RowBacksCredit, BootWrite, TimerWatches, DeadlineArmed, BusyEarly
  <2>13. CASE UNCHANGED vars
    BY <2>13 DEF vars, RowBacksCredit, BootWrite, TimerWatches, DeadlineArmed, BusyEarly
  <2> QED
    BY <2>1, <2>2, <2>3, <2>4, <2>5, <2>6, <2>7, <2>8, <2>9, <2>10, <2>11, <2>12, <2>13 DEF Next
<1>3. HeartbeatInv => DeadOwnsNoCheckout
  BY LiveRowIsFresh DEF HeartbeatInv, TypeOK, BusyEarly, DeadOwnsNoCheckout, PeerSaysDead
<1> QED
  BY <1>1, <1>2, <1>3, HeartbeatTypeCorrect, PTL DEF Spec, HeartbeatInv
=============================================================================
