-------------------------- MODULE InstanceHeartbeat --------------------------
(***************************************************************************)
(* One life of one replica: its heartbeat row, the fail-stop deadline and  *)
(* the shutdown sequence, against the clock. Peers reclaim the checkouts   *)
(* of a replica whose row is gone or too old, so the replica has to be out *)
(* of its checkouts by then.                                               *)
(*                                                                         *)
(* Time is counted in ticks. A timer fires when it is due, at most Lag     *)
(* ticks late; database writes take any time and may fail.                 *)
(***************************************************************************)
EXTENDS Integers

CONSTANTS
    Interval,      \* INSTANCE_HEARTBEAT_INTERVAL_MS
    FenceAfter,    \* INSTANCE_SELF_FENCE_AFTER_MS
    DeadAfter,     \* INSTANCE_DEAD_AFTER_MS
    PruneAfter,    \* PRUNE_AFTER_MS
    HardTimeout,   \* SHUTDOWN_HARD_TIMEOUT_MS
    Lag,           \* how late the event loop runs a timer that is due
    Skew,          \* how far the clock of a peer is ahead
    BootLatency,   \* how long the awaited boot heartbeat takes
    MaxTime        \* bound: when the clock stops outside a shutdown

ASSUME TimesOK ==
    /\ Interval \in Nat /\ FenceAfter \in Nat /\ DeadAfter \in Nat /\ PruneAfter \in Nat
    /\ HardTimeout \in Nat /\ Lag \in Nat /\ Skew \in Nat /\ BootLatency \in Nat
    /\ MaxTime \in Nat

\* The budget of fail-stop-timing.test.ts with the terms that test leaves out.
Budget ==
    /\ FenceAfter + Interval + HardTimeout + Lag + Lag + Skew + BootLatency <= DeadAfter
    /\ DeadAfter <= PruneAfter

VARIABLES
    now,      \* the clock
    phase,    \* of the process
    row,      \* heartbeatAt of the row in instance_heartbeats, or NoRow
    sent,     \* heartbeatAt of the upsert in flight, or Idle
    landed,   \* the database has executed that upsert
    last,     \* lastSuccessAt
    lost,     \* lostOwnership
    nextBeat, \* when the interval timer is due
    exitBy,   \* when the forceExit timer of gracefulShutdown is due
    busy,     \* a workload admitted before the shutdown holds a checkout
    late      \* so does one that was between promotionsPaused and its activation
              \* when the shutdown began

vars == <<now, phase, row, sent, landed, last, lost, nextBeat, exitBy, busy, late>>
beats == <<row, sent, landed, last>>
work == <<busy, late>>

NoRow == -1
Idle  == -1

\* "stopping": producers stopped, CLI processes and leases being drained.
\* "drained": the rest of the sequence. "released": the row is deleted.
Phases == {"booting", "serving", "stopping", "drained", "released", "stopped"}
Closing == {"stopping", "drained", "released"}
Running == {"serving"} \cup Closing

\* index.ts awaits the first beat before it opens the port.
Init ==
    /\ now = 0 /\ phase = "booting"
    /\ row = NoRow /\ sent = 0 /\ landed = FALSE /\ last = 0
    /\ lost = FALSE /\ nextBeat = 0 /\ exitBy = 0
    /\ busy = FALSE /\ late = FALSE

-----------------------------------------------------------------------------
\* The test of fenceIfExpired.
Expired == lost \/ now - last > FenceAfter

gracefulShutdown ==
    /\ phase' = IF phase = "serving" THEN "stopping" ELSE phase
    /\ exitBy' = IF phase = "serving" THEN now + HardTimeout ELSE exitBy

\* fenceIfExpired when it returns true: onOwnershipLost starts the shutdown.
Fence == lost' = TRUE /\ gracefulShutdown

\* The upsert of beatInstanceHeartbeat stamps the instant it is issued.
beatInstanceHeartbeat == sent' = now /\ landed' = FALSE

\* The boot write returned: seed lastSuccessAt, beat at once, start the timer.
startInstanceHeartbeat ==
    /\ phase = "booting" /\ landed
    /\ phase' = "serving"
    /\ last' = now
    /\ beatInstanceHeartbeat
    /\ nextBeat' = now + Interval
    /\ UNCHANGED <<now, row, lost, exitBy, work>>

\* Mutant: a write in flight hides the deadline.
Beat_FlightFirst ==
    /\ phase \in Running \ {"released"} /\ now >= nextBeat
    /\ nextBeat' = now + Interval
    /\ \/ sent # Idle /\ UNCHANGED <<sent, landed, lost, phase, exitBy>>
       \/ sent = Idle /\ Expired /\ Fence /\ UNCHANGED <<sent, landed>>
       \/ sent = Idle /\ ~Expired /\ beatInstanceHeartbeat /\ UNCHANGED <<lost, phase, exitBy>>
    /\ UNCHANGED <<now, row, last, work>>

\* The interval timer: the deadline first, then one write at a time.
Beat ==
    /\ phase \in Running \ {"released"} /\ now >= nextBeat
    /\ nextBeat' = now + Interval
    /\ \/ Expired /\ Fence /\ UNCHANGED <<sent, landed>>
       \/ ~Expired /\ sent # Idle /\ UNCHANGED <<sent, landed, lost, phase, exitBy>>
       \/ ~Expired /\ sent = Idle /\ beatInstanceHeartbeat /\ UNCHANGED <<lost, phase, exitBy>>
    /\ UNCHANGED <<now, row, last, work>>

\* The database executes the upsert, maybe after the process is gone.
Land ==
    /\ sent # Idle /\ ~landed
    /\ row' = sent /\ landed' = TRUE
    /\ UNCHANGED <<now, phase, sent, last, lost, nextBeat, exitBy, work>>

\* Mutant: the flight is cleared before it is credited.
credit_AfterReset == Idle

\* The start of the write, not its return.
credit == sent

\* The write returned in time, or too late to count.
WriteReturns ==
    /\ phase \in Running /\ sent # Idle /\ landed
    /\ sent' = Idle
    /\ \/ Expired /\ Fence /\ UNCHANGED last
       \/ ~Expired /\ last' = credit /\ UNCHANGED <<lost, phase, exitBy>>
    /\ UNCHANGED <<now, row, landed, nextBeat, work>>

\* The write failed, before or after it took effect; the next tick retries. A
\* failed boot write ends the process.
WriteFails ==
    /\ phase \in Running \cup {"booting"} /\ sent # Idle
    /\ sent' = Idle
    /\ phase' = IF phase = "booting" THEN "stopped" ELSE phase
    /\ UNCHANGED <<now, row, landed, last, lost, nextBeat, exitBy, work>>

\* hasLostHeartbeatOwnership of an activation, a sweep, a sync or a removal.
hasLostHeartbeatOwnership ==
    /\ phase \in Running /\ Expired /\ ~lost
    /\ Fence
    /\ UNCHANGED <<now, beats, nextBeat, work>>

\* activateScmWorkload, which asserts the ownership. An admission that had passed
\* promotionsPaused gets here although the shutdown has begun.
Activate ==
    /\ phase \in Running /\ ~Expired
    /\ busy' = (busy \/ phase = "serving")
    /\ late' = (late \/ phase \in Closing)
    /\ UNCHANGED <<now, phase, beats, lost, nextBeat, exitBy>>

\* The last workload of either kind is out of its checkout.
Finish ==
    /\ phase \in Running
    /\ \/ busy /\ busy' = FALSE /\ UNCHANGED late
       \/ late /\ late' = FALSE /\ UNCHANGED busy
    /\ UNCHANGED <<now, phase, beats, lost, nextBeat, exitBy>>

-----------------------------------------------------------------------------
(* Shutdown.                                                               *)

Signal ==
    /\ phase = "serving" /\ gracefulShutdown
    /\ UNCHANGED <<now, beats, lost, nextBeat, work>>

\* shutdownEngines and the drains have nothing left to wait for: they end the
\* processes and leases that are there when they look.
Drained == phase = "stopping" /\ ~busy

runGracefulShutdownSequence ==
    /\ Drained
    /\ phase' = "drained"
    /\ UNCHANGED <<now, beats, lost, nextBeat, exitBy, work>>

\* releaseInstanceHeartbeat: stop the timer and delete the row, which may fail.
releaseInstanceHeartbeat ==
    /\ phase = "drained"
    /\ phase' = "released"
    /\ row' \in {row, NoRow}
    /\ UNCHANGED <<now, sent, landed, last, lost, nextBeat, exitBy, work>>

\* The process ends and its container with it. A signal from outside can do that
\* at any time.
Exit ==
    /\ phase # "stopped"
    /\ phase' = "stopped" /\ busy' = FALSE /\ late' = FALSE
    /\ UNCHANGED <<now, beats, lost, nextBeat, exitBy>>

\* Mutant: the deadline is dropped, the exit waits for the drains.
deadlinePassed_Never == FALSE

deadlinePassed == phase \in Closing /\ now >= exitBy

forceExit == deadlinePassed /\ Exit

\* A peer prunes a row that is only a tombstone.
pruneDeadInstanceHeartbeats ==
    /\ row # NoRow /\ now + Skew - row > PruneAfter
    /\ row' = NoRow
    /\ UNCHANGED <<now, phase, sent, landed, last, lost, nextBeat, exitBy, work>>

\* Time passes, but not past a timer that has to fire.
Tick ==
    /\ now < MaxTime \/ phase \in Closing
    /\ phase = "booting" => now < BootLatency
    /\ phase \in Running \ {"released"} => now < nextBeat + Lag
    /\ phase \in Closing => now < exitBy + Lag
    /\ now' = now + 1
    /\ UNCHANGED <<phase, beats, lost, nextBeat, exitBy, work>>

Next ==
    \/ startInstanceHeartbeat \/ Beat \/ Land \/ WriteReturns \/ WriteFails
    \/ hasLostHeartbeatOwnership \/ Activate \/ Finish
    \/ Signal \/ runGracefulShutdownSequence \/ releaseInstanceHeartbeat
    \/ Exit \/ pruneDeadInstanceHeartbeats \/ Tick

Spec == Init /\ [][Next]_vars

\* Time goes on and due timers fire; nothing is assumed of writes and drains.
FairSpec == Spec /\ WF_vars(Tick) /\ WF_vars(Beat) /\ WF_vars(forceExit)

-----------------------------------------------------------------------------
(* Properties.                                                             *)

\* Every variable keeps its type.
TypeOK ==
    /\ now \in Nat /\ phase \in Phases
    /\ row \in Int /\ sent \in Int /\ last \in Nat
    /\ row >= NoRow /\ sent >= Idle
    /\ landed \in BOOLEAN /\ lost \in BOOLEAN /\ busy \in BOOLEAN /\ late \in BOOLEAN
    /\ nextBeat \in Nat /\ exitBy \in Nat

\* isInstanceOwnerDead as a peer computes it from the row.
PeerSaysDead == row = NoRow \/ now + Skew - row > DeadAfter

\* "an expired owner must have stopped every CLI before another replica is allowed
\* to reuse its checkout" (INSTANCE_SELF_FENCE_AFTER_MS). What was admitted before
\* the shutdown never runs under a dead row; what slipped in during it may, but only
\* once the replica has itself deleted its row.
DeadOwnsNoCheckout == PeerSaysDead => ~busy /\ (late => phase = "released")

\* The sentence to the letter, which the admissions in flight break.
DeadOwnsNothing == PeerSaysDead => ~busy /\ ~late

\* A fenced process ends, however long its drains hang (gracefulShutdown: the
\* deadline "must keep the event loop alive until it fires").
FencedExits == lost ~> (phase = "stopped")
=============================================================================
