----------------------- MODULE WorkspaceRemovalProofs -----------------------
(***************************************************************************)
(* Proofs about WorkspaceRemoval, for any number of replicas, runs, delete *)
(* requests, crashes and failing writes: the reservation row names the     *)
(* attempt that acts on it, and a worktree is removed only while nobody    *)
(* uses it.                                                                *)
(*                                                                         *)
(* The first needs that nobody else remembers the token of an attempt at   *)
(* work, the second that a run that has been admitted keeps its lease      *)
(* until it leaves, and that none is admitted while the row exists.        *)
(***************************************************************************)
EXTENDS WorkspaceRemoval, TLAPS

Held == {"reserved", "locked", "adopted", "cleared", "removing"}

\* A remover between its first and its last step, and a run that is executed.
Busy(x)   == rm[x].pc \notin {"idle", "over"}
Serves(r) == run[r].pc \notin {"new", "done", "dead"}

\* An executed run is on a live replica and holds a lease of this life.
RunInv ==
    \A r \in Runs : Serves(r) =>
        /\ run[r].at \in Inst /\ up[run[r].at]
        /\ lease[r].owner = run[r].at /\ lease[r].boot = boot[run[r].at]

\* A remover at work is on a live replica and has a token; a run's own cleanup is
\* where the run is, and a reconciler is its replica's.
RmInv ==
    \A x \in Removers : Busy(x) =>
        /\ rm[x].at \in Inst /\ up[rm[x].at] /\ rm[x].token \in Tokens
        /\ x \in Runs => run[x].pc = "cleaning" /\ run[x].at = rm[x].at
        /\ x \in Inst => rm[x].at = x

\* The row names the attempt, and nobody else remembers its token.
HeldInv ==
    \A x \in Removers : rm[x].pc \in Held =>
        /\ resv.owner = rm[x].at /\ resv.boot = boot[rm[x].at] /\ resv.token = rm[x].token
        /\ \A y \in Removers \ {x} : rm[y].token # rm[x].token
        /\ \A i \in Inst : rm[x].token \notin {pend[i].release, pend[i].handoff}

\* From its decision to its end a removal meets no lease but its own.
ClearInv ==
    ~PerAgent => \A x \in Removers, r \in Runs :
        rm[x].pc \in {"cleared", "removing"} /\ r # x => ~Leased(r)

IInv == TypeOK /\ RunInv /\ RmInv /\ HeldInv /\ ClearInv

-----------------------------------------------------------------------------
RunType == [st : {"absent", "running", "terminal"}, dir : BOOLEAN, at : Inst \cup {None},
            pc : {"new", "admitted", "checked", "claimed", "creating", "cli",
                  "ended", "cleaning", "held", "leaving", "done", "dead"}]

RmType == [pc : Pcs, at : Inst \cup {None}, token : Tokens \cup {None},
           tries : 0 .. MaxAttempts - 1]

\* TypeOK with its record types named.
LEMMA Types ==
  TypeOK <=> /\ run \in [Runs -> RunType]
             /\ lease \in [Runs -> [owner : Inst \cup {None}, boot : Nat]]
             /\ resv \in [owner : Inst \cup {None}, boot : Nat, token : Tokens \cup {None}]
             /\ rm \in [Removers -> RmType]
             /\ mutex \in [Inst -> Removers \cup {None}]
             /\ pend \in [Inst -> [release : Tokens \cup {None}, handoff : Tokens \cup {None}]]
             /\ tree \in BOOLEAN
             /\ up \in [Inst -> BOOLEAN]
             /\ boot \in [Inst -> Nat]
             /\ fails \in [n : 0..MaxFaults, own : BOOLEAN]
  BY DEF TypeOK, RunType, RmType

\* The attempts of a cleanup start at 0.
LEMMA NoTries == 0 \in 0 .. MaxAttempts - 1
  BY ConstantsOK

\* A remover that is through.
LEMMA EndedFields ==
  ASSUME NEW x \in Removers
  PROVE  /\ Ended(x) \in RmType /\ Ended(x).pc \in {"idle", "over"}
         /\ Ended(x).at = None /\ Ended(x).token = None
         /\ NoRm \in RmType /\ NoRm.pc = "idle" /\ NoRm.at = None /\ NoRm.token = None
  BY NoTries DEF Ended, NoRm, RmType, Pcs

\* Nobody remembers a new token.
LEMMA TokenIsNew ==
  ASSUME Tokens \ Used # {}
  PROVE  /\ NewToken \in Tokens /\ NewToken # resv.token
         /\ \A x \in Removers : NewToken # rm[x].token
         /\ \A i \in Inst : NewToken \notin {pend[i].release, pend[i].handoff}
  <1>1. \E t \in Tokens : t \notin Used
    OBVIOUS
  <1>2. NewToken \in Tokens /\ NewToken \notin Used
    BY <1>1 DEF NewToken
  <1> QED
    BY <1>2 DEF Used

\* A row with an attempt at work is not abandoned.
LEMMA AttemptIsAlive ==
  ASSUME IInv, NEW x \in Removers, rm[x].pc \in Held
  PROVE  Reserved /\ ~Abandoned
  <1>1. /\ rm[x].at \in Inst /\ up[rm[x].at] /\ rm[x].token \in Tokens
        /\ resv.owner = rm[x].at /\ resv.boot = boot[rm[x].at] /\ resv.token = rm[x].token
    BY DEF IInv, RmInv, HeldInv, Busy, Held
  <1>2. boot[rm[x].at] \in Nat
    BY <1>1, Types DEF IInv
  <1> QED
    BY <1>1, <1>2, ConstantsOK DEF Reserved, Abandoned, isInstanceOwnerDead

\* Releases and handoffs by a token that an attempt at work does not have leave its
\* row alone.
LEMMA OtherTokens ==
  ASSUME NEW t, NEW x \in Removers, resv.token = rm[x].token, rm[x].token # t
  PROVE  releaseRow(t) = resv /\ handOffRow(t) = resv
  BY DEF releaseRow, handOffRow

\* The rows a release and a handoff leave.
LEMMA RowTypes ==
  ASSUME TypeOK, NEW t
  PROVE  /\ releaseRow(t) \in [owner : Inst \cup {None}, boot : Nat, token : Tokens \cup {None}]
         /\ handOffRow(t) \in [owner : Inst \cup {None}, boot : Nat, token : Tokens \cup {None}]
  BY Types DEF releaseRow, handOffRow, NoRow

\* A counted fault.
LEMMA FailType ==
  ASSUME TypeOK, NEW kind \in {"fs", "db", "own", "crash"}, Fail(kind)
  PROVE  fails' \in [n : 0..MaxFaults, own : BOOLEAN]
  BY Types, ConstantsOK DEF Fail

\* The tables before anything happened (Init).
LEMMA InitIInv == Init => IInv
  <1> SUFFICES ASSUME Init PROVE IInv
    OBVIOUS
  <1>1. TypeOK
    <2>1. NewRun \in RunType
      BY DEF NewRun, RunType
    <2>2. NoRm \in RmType
      BY NoTries DEF NoRm, RmType, Pcs
    <2>3. run \in [Runs -> RunType] /\ rm \in [Removers -> RmType]
      BY <2>1, <2>2 DEF Init
    <2>4. /\ lease \in [Runs -> [owner : Inst \cup {None}, boot : Nat]]
          /\ resv \in [owner : Inst \cup {None}, boot : Nat, token : Tokens \cup {None}]
      BY DEF Init, NoLease, NoRow
    <2>5. /\ mutex \in [Inst -> Removers \cup {None}]
          /\ pend \in [Inst -> [release : Tokens \cup {None}, handoff : Tokens \cup {None}]]
      BY DEF Init
    <2>6. tree \in BOOLEAN /\ up \in [Inst -> BOOLEAN] /\ boot \in [Inst -> Nat]
      BY DEF Init
    <2>7. fails \in [n : 0..MaxFaults, own : BOOLEAN]
      BY ConstantsOK DEF Init
    <2> QED
      BY <2>3, <2>4, <2>5, <2>6, <2>7, Types
  <1>2. RunInv
    BY DEF Init, RunInv, Serves, NewRun
  <1>3. RmInv /\ HeldInv /\ ClearInv
    BY DEF Init, RmInv, HeldInv, ClearInv, Busy, Held, NoRm
  <1> QED
    BY <1>1, <1>2, <1>3 DEF IInv

-----------------------------------------------------------------------------
(* Steps of a run.                                                         *)

\* A run goes on, or is settled, with its lease.
LEMMA RunGoesOn ==
  ASSUME IInv, NEW r \in Runs, NEW q \in RunType, run' = [run EXCEPT ![r] = q],
         q.at = run[r].at, q.pc \notin {"new", "done", "dead"} => Serves(r),
         run[r].pc = "cleaning" => q.pc = "cleaning",
         mutex' \in [Inst -> Removers \cup {None}], tree' \in BOOLEAN,
         fails' \in [n : 0..MaxFaults, own : BOOLEAN],
         UNCHANGED <<lease, resv, rm, pend, up, boot>>
  PROVE  IInv'
  <1>1. TypeOK'
    BY Types DEF IInv, TypeOK, RunType, RmType
  <1>2. run'[r] = q /\ \A d \in Runs \ {r} : run'[d] = run[d]
    BY Types DEF IInv
  <1>3. RunInv'
    BY <1>2 DEF IInv, RunInv, Serves
  <1>4. RmInv'
    BY <1>2 DEF IInv, RmInv, Busy
  <1>5. HeldInv' /\ ClearInv'
    BY DEF IInv, HeldInv, ClearInv, Leased
  <1> QED
    BY <1>1, <1>3, <1>4, <1>5 DEF IInv

\* resolveWorkDir, the creation of the worktree, the CLI and the reaper.
LEMMA RunStepIInv ==
  ASSUME IInv, NEW r \in Runs,
         \/ Resolve(r) \/ ClaimDir(r) \/ CreateStart(r) \/ CreateDone(r) \/ CreateFail(r)
         \/ Finish(r) \/ SkipCleanup(r) \/ OwnGiveUp(r) \/ \E i \in Inst : ReapRun(i, r)
  PROVE  IInv'
  <1> DEFINE q == run'[r]
  <1>1. /\ run \in [Runs -> RunType] /\ run[r] \in RunType
        /\ mutex \in [Inst -> Removers \cup {None}] /\ tree \in BOOLEAN
        /\ fails \in [n : 0..MaxFaults, own : BOOLEAN] /\ r \in Removers
    BY Types DEF IInv, Removers
  <1>2. UNCHANGED <<lease, resv, rm, pend, up, boot>>
    BY DEF Resolve, ClaimDir, CreateStart, CreateDone, CreateFail, Finish, SkipCleanup, OwnGiveUp,
           ReapRun, marks, procs
  <1>3. /\ mutex' \in [Inst -> Removers \cup {None}] /\ tree' \in BOOLEAN
        /\ fails' \in [n : 0..MaxFaults, own : BOOLEAN]
    <2>1. /\ \/ mutex' = mutex
             \/ mutex' = [mutex EXCEPT ![run[r].at] = r]
             \/ mutex' = [mutex EXCEPT ![run[r].at] = None]
          /\ tree' = tree \/ tree' = TRUE
          /\ Fail("fs") \/ fails' = fails
      BY DEF Resolve, ClaimDir, CreateStart, CreateDone, CreateFail, Finish, SkipCleanup,
             OwnGiveUp, ReapRun
    <2>2. mutex' \in [Inst -> Removers \cup {None}] /\ tree' \in BOOLEAN
      BY <1>1, <2>1
    <2> QED
      BY <1>1, <2>1, <2>2, FailType DEF IInv
  <1>4. /\ q \in RunType /\ run' = [run EXCEPT ![r] = q] /\ q.at = run[r].at
        /\ \/ q.pc = run[r].pc
           \/ /\ q.pc \in {"claimed", "checked", "creating", "cli", "ended", "held", "leaving"}
              /\ run[r].pc \in {"admitted", "checked", "claimed", "creating", "cli", "ended"}
    <2>1. CASE Resolve(r)
      BY <1>1, <2>1 DEF Resolve, RunType
    <2>2. CASE ClaimDir(r) \/ CreateStart(r) \/ CreateDone(r) \/ CreateFail(r)
      BY <1>1, <2>2 DEF ClaimDir, CreateStart, CreateDone, CreateFail, RunType
    <2>3. CASE Finish(r) \/ SkipCleanup(r) \/ OwnGiveUp(r)
      BY <1>1, <2>3 DEF Finish, SkipCleanup, OwnGiveUp, RunType
    <2>4. CASE \E i \in Inst : ReapRun(i, r)
      BY <1>1, <2>4 DEF ReapRun, RunType
    <2> QED
      BY <2>1, <2>2, <2>3, <2>4
  <1>5. /\ q.pc \notin {"new", "done", "dead"} => Serves(r)
        /\ run[r].pc = "cleaning" => q.pc = "cleaning"
    BY <1>4 DEF Serves
  <1> HIDE DEF q
  <1> QED
    BY <1>2, <1>3, <1>4, <1>5, RunGoesOn

\* A run is admitted with its lease, on a live replica (Admit).
LEMMA AdmitIInv ==
  ASSUME IInv, NEW r \in Runs, NEW i \in Inst, Admit(r, i)
  PROVE  IInv'
  <1>1. /\ run' = [run EXCEPT ![r] = [st |-> "running", dir |-> FALSE, at |-> i, pc |-> "admitted"]]
        /\ lease' = [lease EXCEPT ![r] = [owner |-> i, boot |-> boot[i]]]
        /\ UNCHANGED <<resv, rm, mutex, pend, tree, up, boot, fails>>
        /\ run[r].pc = "new" /\ up[i] /\ (PerAgent \/ ~Reserved)
    BY DEF Admit, procs
  <1>2. TypeOK'
    <2>1. [st |-> "running", dir |-> FALSE, at |-> i, pc |-> "admitted"] \in RunType
      BY DEF RunType
    <2>2. [owner |-> i, boot |-> boot[i]] \in [owner : Inst \cup {None}, boot : Nat]
      BY Types DEF IInv
    <2> QED
      BY <1>1, <2>1, <2>2, Types DEF IInv, TypeOK, RunType, RmType
  <1>3. /\ run'[r] = [st |-> "running", dir |-> FALSE, at |-> i, pc |-> "admitted"]
        /\ lease'[r] = [owner |-> i, boot |-> boot[i]]
        /\ \A d \in Runs \ {r} : run'[d] = run[d] /\ lease'[d] = lease[d]
    BY <1>1, Types DEF IInv
  <1>4. RunInv'
    BY <1>1, <1>3 DEF IInv, RunInv, Serves
  <1>5. RmInv' /\ HeldInv'
    BY <1>1, <1>3 DEF IInv, RmInv, HeldInv, Busy
  <1>6. ClearInv'
    <2> SUFFICES ASSUME ~PerAgent, NEW x \in Removers, rm[x].pc \in {"cleared", "removing"}
                 PROVE  FALSE
      BY <1>1 DEF ClearInv
    <2> QED
      BY <1>1, AttemptIsAlive DEF Held
  <1> QED
    BY <1>2, <1>4, <1>5, <1>6 DEF IInv

\* A lease goes: that of a run that leaves, or of one whose process is gone. The row
\* may be written if there is none.
LEMMA LeaseGoes ==
  ASSUME IInv, NEW r \in Runs, lease' = [lease EXCEPT ![r] = NoLease],
         NEW q \in RunType, run' = [run EXCEPT ![r] = q],
         q.pc \in {"new", "done", "dead"}, run[r].pc # "cleaning",
         resv' = resv \/ (~Reserved /\ resv' \in [owner : Inst \cup {None}, boot : Nat,
                                                  token : Tokens \cup {None}]),
         UNCHANGED <<rm, mutex, pend, tree, up, boot, fails>>
  PROVE  IInv'
  <1>1. NoLease \in [owner : Inst \cup {None}, boot : Nat] /\ NoLease.owner = None
    BY DEF NoLease
  <1>2. TypeOK'
    BY <1>1, Types DEF IInv, TypeOK, RunType, RmType
  <1>3. /\ run'[r] = q /\ lease'[r] = NoLease
        /\ \A d \in Runs \ {r} : run'[d] = run[d] /\ lease'[d] = lease[d]
    BY Types DEF IInv
  <1>4. RunInv'
    BY <1>3 DEF IInv, RunInv, Serves
  <1>5. RmInv'
    BY <1>3 DEF IInv, RmInv, Busy
  <1>6. HeldInv'
    BY AttemptIsAlive DEF IInv, HeldInv
  <1>7. ClearInv'
    BY <1>1, <1>3 DEF IInv, ClearInv, Leased
  <1> QED
    BY <1>2, <1>4, <1>5, <1>6, <1>7 DEF IInv

\* The end of a run (Leave).
LEMMA LeaveIInv ==
  ASSUME IInv, NEW r \in Runs, Leave(r)
  PROVE  IInv'
  <1> DEFINE q == [run[r] EXCEPT !.pc = "done", !.at = None]
  <1>1. run[r] \in RunType
    BY Types DEF IInv
  <1>2. q \in RunType /\ q.pc = "done"
    BY <1>1 DEF RunType
  <1>3. run' = [run EXCEPT ![r] = q] /\ run[r].pc # "cleaning"
        /\ lease' = [lease EXCEPT ![r] = NoLease]
        /\ UNCHANGED <<resv, rm, mutex, pend, tree, up, boot, fails>>
    BY Types DEF Leave, procs, IInv
  <1> HIDE DEF q
  <1> QED
    BY <1>2, <1>3, LeaseGoes

\* The sweep of a lease that nobody serves (SweepLease).
LEMMA SweepIInv ==
  ASSUME IInv, NEW r \in Runs, NEW i \in Inst, SweepLease(i, r)
  PROVE  IInv'
  <1>1. ~Serves(r)
    <2> SUFFICES ASSUME Serves(r) PROVE FALSE
      OBVIOUS
    <2>1. /\ run[r].at \in Inst /\ up[run[r].at] /\ run[r].at # i
          /\ lease[r].owner = run[r].at /\ lease[r].boot = boot[run[r].at]
      BY DEF IInv, RunInv, SweepLease, isWorkloadLocallyActive
    <2>2. boot[run[r].at] \in Nat
      BY <2>1, Types DEF IInv
    <2> QED
      BY <2>1, <2>2 DEF SweepLease, Sweepable, isInstanceOwnerDead
  <1>2. run[r] \in RunType /\ run' = [run EXCEPT ![r] = run[r]]
    BY Types DEF IInv, SweepLease
  <1>3. run[r].pc \in {"new", "done", "dead"}
    BY <1>1 DEF Serves
  <1>4. resv' = resv \/ (~Reserved /\ resv' \in [owner : Inst \cup {None}, boot : Nat,
                                                 token : Tokens \cup {None}])
    <2>1. CASE ~Reserved /\ Tokens \ Used # {} /\ resv' = [NoRow EXCEPT !.token = NewToken]
      BY <2>1, TokenIsNew DEF NoRow
    <2> QED
      BY <2>1 DEF SweepLease
  <1>5. lease' = [lease EXCEPT ![r] = NoLease] /\ UNCHANGED <<rm, mutex, pend, tree, up, boot, fails>>
    BY DEF SweepLease, procs
  <1> QED
    BY <1>2, <1>3, <1>4, <1>5, LeaseGoes

-----------------------------------------------------------------------------
(* Steps of a remover.                                                     *)

\* A remover goes on with its attempt.
LEMMA RemoverGoesOn ==
  ASSUME IInv, NEW x \in Removers, NEW m \in RmType, rm' = [rm EXCEPT ![x] = m],
         Busy(x), m.at = rm[x].at, m.token = rm[x].token,
         m.pc \in Held => rm[x].pc \in Held,
         m.pc \in {"cleared", "removing"} /\ ~PerAgent => \A r \in Runs \ {x} : ~Leased(r),
         mutex' \in [Inst -> Removers \cup {None}], tree' \in BOOLEAN,
         fails' \in [n : 0..MaxFaults, own : BOOLEAN],
         UNCHANGED <<run, lease, resv, pend, up, boot>>
  PROVE  IInv'
  <1>1. TypeOK'
    BY Types DEF IInv, TypeOK, RunType, RmType
  <1>2. rm'[x] = m /\ \A y \in Removers \ {x} : rm'[y] = rm[y]
    BY Types DEF IInv
  <1>3. RunInv'
    BY DEF IInv, RunInv, Serves
  <1>4. RmInv'
    BY <1>2 DEF IInv, RmInv, Busy
  <1>5. HeldInv'
    BY <1>2 DEF IInv, HeldInv
  <1>6. ClearInv'
    BY <1>2 DEF IInv, ClearInv, Leased
  <1> QED
    BY <1>1, <1>3, <1>4, <1>5, <1>6 DEF IInv

\* What a failed attempt becomes (AfterFailure).
LEMMA FailedFields ==
  ASSUME TypeOK, NEW x \in Removers, NEW b \in BOOLEAN, AfterFailure(x, b)
  PROVE  /\ rm'[x] \in RmType /\ rm' = [rm EXCEPT ![x] = rm'[x]] /\ rm'[x].at = rm[x].at
         /\ rm'[x].token = rm[x].token /\ rm'[x].pc \in {"reserved", "releasing", "disowning"}
  <1>0. rm \in [Removers -> RmType] /\ rm[x] \in RmType
    BY Types
  <1>1. CASE x \in Runs /\ rm[x].tries + 1 < MaxAttempts
    <2>1. rm' = [rm EXCEPT ![x] = [rm[x] EXCEPT !.pc = "reserved", !.tries = rm[x].tries + 1]]
      BY <1>0, <1>1 DEF AfterFailure
    <2>2. rm[x].tries + 1 \in 0 .. MaxAttempts - 1
      BY <1>0, <1>1, ConstantsOK DEF RmType
    <2> QED
      BY <1>0, <2>1, <2>2 DEF RmType, Pcs
  <1>2. CASE ~(x \in Runs /\ rm[x].tries + 1 < MaxAttempts)
    <2>1. CASE x \notin Runs /\ b
      <3>1. rm' = [rm EXCEPT ![x] = [rm[x] EXCEPT !.pc = "releasing"]]
        BY <1>0, <1>2, <2>1 DEF AfterFailure
      <3> QED
        BY <1>0, <3>1 DEF RmType, Pcs
    <2>2. CASE ~(x \notin Runs /\ b)
      <3>1. rm' = [rm EXCEPT ![x] = [rm[x] EXCEPT !.pc = "disowning"]]
        BY <1>0, <1>2, <2>2 DEF AfterFailure
      <3> QED
        BY <1>0, <3>1 DEF RmType, Pcs
    <2> QED
      BY <2>1, <2>2
  <1> QED
    BY <1>1, <1>2

\* A failed attempt keeps its token, whatever it does next.
LEMMA FailedAttempt ==
  ASSUME IInv, NEW x \in Removers, rm[x].pc \in {"locked", "removing"},
         NEW b \in BOOLEAN, AfterFailure(x, b),
         fails' \in [n : 0..MaxFaults, own : BOOLEAN],
         UNCHANGED <<run, lease, resv, pend, up, boot, tree>>
  PROVE  IInv'
  <1> DEFINE m == rm'[x]
  <1>1. tree \in BOOLEAN /\ mutex \in [Inst -> Removers \cup {None}]
    BY Types DEF IInv
  <1>2. /\ m \in RmType /\ rm' = [rm EXCEPT ![x] = m] /\ m.at = rm[x].at
        /\ m.token = rm[x].token /\ m.pc \in {"reserved", "releasing", "disowning"}
    BY FailedFields DEF IInv
  <1>3. mutex' \in [Inst -> Removers \cup {None}]
    BY <1>1 DEF AfterFailure
  <1>4. Busy(x) /\ rm[x].pc \in Held
    BY DEF Busy, Held
  <1> HIDE DEF m
  <1> QED
    BY <1>1, <1>2, <1>3, <1>4, RemoverGoesOn

\* The mutex, the check inside it and the removal (Lock, Recheck, RemoveDone,
\* RemoveFail), and the reconciler's check (Decide).
LEMMA RemovalIInv ==
  ASSUME IInv, NEW x \in Removers,
         \/ Lock(x) \/ Recheck(x) \/ RemoveDone(x) \/ RemoveFail(x)
         \/ (x \in Inst /\ Decide(x))
  PROVE  IInv'
  <1> DEFINE m == rm'[x]
  <1>1. /\ rm \in [Removers -> RmType] /\ rm[x] \in RmType /\ tree \in BOOLEAN
        /\ mutex \in [Inst -> Removers \cup {None}]
        /\ fails \in [n : 0..MaxFaults, own : BOOLEAN]
    BY Types DEF IInv
  <1>2. CASE Lock(x)
    <2>1. /\ m \in RmType /\ rm' = [rm EXCEPT ![x] = m] /\ m.at = rm[x].at
          /\ m.token = rm[x].token /\ rm[x].pc \in {"reserved", "cleared"}
          /\ m.pc = IF rm[x].pc = "cleared" THEN "removing" ELSE "locked"
      BY <1>1, <1>2 DEF Lock, RmType, Pcs
    <2>2. mutex' \in [Inst -> Removers \cup {None}]
      BY <1>1, <1>2 DEF Lock
    <2>3. UNCHANGED <<run, lease, resv, pend, tree, up, boot, fails>>
      BY <1>2 DEF Lock, marks, procs
    <2> HIDE DEF m
    <2>4. m.pc \in {"cleared", "removing"} /\ ~PerAgent => \A r \in Runs \ {x} : ~Leased(r)
      BY <2>1 DEF IInv, ClearInv
    <2>5. Busy(x) /\ rm[x].pc \in Held
      BY <2>1 DEF Busy, Held
    <2> QED
      BY <1>1, <2>1, <2>2, <2>3, <2>4, <2>5, RemoverGoesOn
  <1>3. CASE Recheck(x)
    <2>1. rm[x].pc = "locked" /\ UNCHANGED <<run, lease, resv, pend, tree, up, boot, fails>>
      BY <1>3 DEF Recheck, marks, procs
    <2>2. CASE AfterFailure(x, TRUE)
      BY <1>1, <2>1, <2>2, FailedAttempt
    <2>3. CASE /\ ~findWorkspaceRemovalBlocker(Runs \cap {x})
               /\ rm' = [rm EXCEPT ![x].pc = "removing"] /\ mutex' = mutex
      <3>1. /\ m \in RmType /\ rm' = [rm EXCEPT ![x] = m] /\ m.at = rm[x].at
            /\ m.token = rm[x].token
        BY <1>1, <2>3 DEF RmType, Pcs
      <3>2. \A r \in Runs \ {x} : ~Leased(r)
        BY <2>3 DEF findWorkspaceRemovalBlocker
      <3>3. Busy(x) /\ rm[x].pc \in Held
        BY <2>1 DEF Busy, Held
      <3> HIDE DEF m
      <3> QED
        BY <1>1, <2>1, <2>3, <3>1, <3>2, <3>3, RemoverGoesOn
    <2> QED
      BY <1>3, <2>2, <2>3 DEF Recheck
  <1>4. CASE RemoveDone(x)
    <2>1. /\ m \in RmType /\ rm' = [rm EXCEPT ![x] = m] /\ m.at = rm[x].at
          /\ m.token = rm[x].token /\ rm[x].pc = "removing" /\ m.pc = "releasing"
      BY <1>1, <1>4 DEF RemoveDone, RmType, Pcs
    <2>2. mutex' \in [Inst -> Removers \cup {None}] /\ tree' \in BOOLEAN
      BY <1>1, <1>4 DEF RemoveDone
    <2>3. UNCHANGED <<run, lease, resv, pend, up, boot, fails>>
      BY <1>4 DEF RemoveDone, marks, procs
    <2>4. Busy(x) /\ rm[x].pc \in Held /\ m.pc \notin {"cleared", "removing"}
      BY <2>1 DEF Busy, Held
    <2> HIDE DEF m
    <2> QED
      BY <1>1, <2>1, <2>2, <2>3, <2>4, RemoverGoesOn
  <1>5. CASE RemoveFail(x)
    <2>1. fails' \in [n : 0..MaxFaults, own : BOOLEAN]
      BY <1>5, FailType DEF RemoveFail, IInv
    <2>2. rm[x].pc = "removing" /\ AfterFailure(x, FALSE)
          /\ UNCHANGED <<run, lease, resv, pend, tree, up, boot>>
      BY <1>5 DEF RemoveFail, marks, procs
    <2> QED
      BY <2>1, <2>2, FailedAttempt
  <1>6. CASE x \in Inst /\ Decide(x)
    <2>1. /\ m \in RmType /\ rm' = [rm EXCEPT ![x] = m] /\ m.at = rm[x].at
          /\ m.token = rm[x].token /\ rm[x].pc = "adopted"
          /\ m.pc \in {"releasing", "cleared", "disowning"}
          /\ m.pc = "cleared" => ~findWorkspaceRemovalBlocker({})
      BY <1>1, <1>6 DEF Decide, RmType, Pcs
    <2>2. fails' \in [n : 0..MaxFaults, own : BOOLEAN]
      BY <1>1, <1>6, FailType DEF Decide, IInv
    <2>3. UNCHANGED <<run, lease, resv, mutex, pend, tree, up, boot>>
      BY <1>6 DEF Decide, marks, procs
    <2>4. Busy(x) /\ rm[x].pc \in Held
      BY <2>1 DEF Busy, Held
    <2>5. m.pc \in {"cleared", "removing"} => \A r \in Runs \ {x} : ~Leased(r)
      BY <2>1 DEF findWorkspaceRemovalBlocker
    <2> HIDE DEF m
    <2> QED
      BY <1>1, <2>1, <2>2, <2>3, <2>4, <2>5, RemoverGoesOn
  <1> QED
    BY <1>2, <1>3, <1>4, <1>5, <1>6

\* A reconciler picks a row that nobody works on (ListCandidate), or finds that it is
\* not what it listed (Adopt).
LEMMA ListIInv ==
  ASSUME IInv, NEW i \in Inst,
         \/ ListCandidate(i)
         \/ /\ rm' = [rm EXCEPT ![i] = NoRm]
            /\ UNCHANGED <<run, lease, resv, mutex, pend, tree, up, boot, fails>>
  PROVE  IInv'
  <1> DEFINE m == rm'[i]
  <1>1. i \in Removers /\ i \notin Runs
    BY ConstantsOK DEF Removers
  <1>2. /\ rm \in [Removers -> RmType]
        /\ resv \in [owner : Inst \cup {None}, boot : Nat, token : Tokens \cup {None}]
    BY Types DEF IInv
  <1>3. /\ m \in RmType /\ rm' = [rm EXCEPT ![i] = m]
        /\ \/ m.pc = "idle" /\ m.token = None
           \/ /\ m.pc = "listed" /\ m.at = i /\ up[i] /\ m.token = resv.token
              /\ Reserved /\ Abandoned
    <2>1. CASE ListCandidate(i)
      BY <1>1, <1>2, <2>1, NoTries DEF ListCandidate, Abandoned, RmType, Pcs
    <2>2. CASE rm' = [rm EXCEPT ![i] = NoRm]
      BY <1>1, <1>2, <2>2, EndedFields
    <2> QED
      BY <2>1, <2>2
  <1>4. UNCHANGED <<run, lease, resv, mutex, pend, tree, up, boot, fails>>
    BY DEF ListCandidate, marks, procs
  <1> HIDE DEF m
  <1>5. TypeOK'
    BY <1>1, <1>3, <1>4, Types DEF IInv, TypeOK, RunType, RmType
  <1>6. rm'[i] = m /\ \A y \in Removers \ {i} : rm'[y] = rm[y]
    BY <1>1, <1>2, <1>3
  <1>7. RunInv'
    BY <1>4 DEF IInv, RunInv, Serves
  <1>8. RmInv'
    <2>1. m.pc = "listed" => m.token \in Tokens
      BY <1>2, <1>3 DEF Reserved
    <2> QED
      BY <1>1, <1>3, <1>4, <1>6, <2>1 DEF IInv, RmInv, Busy
  <1>9. HeldInv'
    <2> SUFFICES ASSUME NEW x \in Removers, rm'[x].pc \in Held
                 PROVE  /\ resv.owner = rm'[x].at /\ resv.boot = boot[rm'[x].at]
                        /\ resv.token = rm'[x].token
                        /\ \A y \in Removers \ {x} : rm'[y].token # rm'[x].token
                        /\ \A j \in Inst : rm'[x].token \notin {pend[j].release, pend[j].handoff}
      BY <1>4 DEF HeldInv
    <2>1. x # i /\ rm'[x] = rm[x]
      BY <1>3, <1>6 DEF Held
    <2>2. m.pc = "idle" /\ m.token = None
      BY <1>3, <2>1, AttemptIsAlive
    <2>3. rm[x].token # None
      BY <2>1, ConstantsOK DEF IInv, RmInv, Busy, Held
    <2> QED
      BY <1>6, <2>1, <2>2, <2>3 DEF IInv, HeldInv
  <1>10. ClearInv'
    BY <1>3, <1>4, <1>6 DEF IInv, ClearInv, Leased
  <1> QED
    BY <1>5, <1>7, <1>8, <1>9, <1>10 DEF IInv

\* A remover takes the row, or its claim is committed and the answer lost (TakeRow).
LEMMA TakeRowIInv ==
  ASSUME IInv, NEW x \in Removers, NEW i \in Inst, up[i], x \in Inst => x = i,
         NEW p \in {"reserved", "adopted"}, TakeRow(x, i, p),
         \A y \in Removers : rm[y].pc \notin Held,
         run' \in [Runs -> RunType],
         \A r \in Runs : /\ run'[r].at = run[r].at
                         /\ r # x => run'[r].pc = run[r].pc
                         /\ r = x => /\ Serves(r) /\ run[r].at = i
                                     /\ run'[r].pc = IF rm'[x].pc = p THEN "cleaning" ELSE "ended"
  PROVE  IInv'
  <1> DEFINE m == rm'[x]
  <1>1. /\ Tokens \ Used # {} /\ resv' = [owner |-> i, boot |-> boot[i], token |-> NewToken]
        /\ UNCHANGED <<lease, mutex, pend, tree, up, boot>>
    BY DEF TakeRow, procs
  <1>2. /\ rm \in [Removers -> RmType] /\ boot[i] \in Nat
        /\ fails \in [n : 0..MaxFaults, own : BOOLEAN]
    BY Types DEF IInv
  <1>3. /\ m \in RmType /\ rm' = [rm EXCEPT ![x] = m]
        /\ \/ m.pc = p /\ m.at = i /\ m.token = NewToken
           \/ m.pc \in {"idle", "over"} /\ m.token = None
        /\ fails' \in [n : 0..MaxFaults, own : BOOLEAN]
    <2>1. CASE /\ rm' = [rm EXCEPT ![x] = [pc |-> p, at |-> i, token |-> NewToken, tries |-> 0]]
               /\ UNCHANGED fails
      BY <1>1, <1>2, <2>1, NoTries, TokenIsNew DEF RmType, Pcs
    <2>2. CASE /\ rm' = [rm EXCEPT ![x] = IF x \in Runs THEN NoRm ELSE Ended(x)]
               /\ Fail("own")
      <3>1. fails' \in [n : 0..MaxFaults, own : BOOLEAN]
        BY <2>2, FailType DEF IInv
      <3> QED
        BY <1>2, <2>2, <3>1, EndedFields
    <2> QED
      BY <2>1, <2>2 DEF TakeRow
  <1> HIDE DEF m
  <1>4. rm'[x] = m /\ \A y \in Removers \ {x} : rm'[y] = rm[y]
    BY <1>2, <1>3
  <1>5. TypeOK'
    <2>1. resv' \in [owner : Inst \cup {None}, boot : Nat, token : Tokens \cup {None}]
      BY <1>1, <1>2, TokenIsNew
    <2>2. rm' \in [Removers -> RmType]
      BY <1>2, <1>3
    <2> QED
      BY <1>1, <1>3, <2>1, <2>2, Types DEF IInv, TypeOK, RunType, RmType
  <1>6. RunInv'
    BY <1>1 DEF IInv, RunInv, Serves
  <1>7. RmInv'
    <2> SUFFICES ASSUME NEW y \in Removers, rm'[y].pc \notin {"idle", "over"}
                 PROVE  /\ rm'[y].at \in Inst /\ up[rm'[y].at] /\ rm'[y].token \in Tokens
                        /\ y \in Runs => run'[y].pc = "cleaning" /\ run'[y].at = rm'[y].at
                        /\ y \in Inst => rm'[y].at = y
      BY <1>1 DEF RmInv, Busy
    <2>1. CASE y = x
      BY <1>1, <1>3, <1>4, <2>1, TokenIsNew
    <2>2. CASE y # x
      BY <1>4, <2>2 DEF IInv, RmInv, Busy
    <2> QED
      BY <2>1, <2>2
  <1>8. HeldInv'
    <2> SUFFICES ASSUME NEW y \in Removers, rm'[y].pc \in Held
                 PROVE  /\ resv'.owner = rm'[y].at /\ resv'.boot = boot[rm'[y].at]
                        /\ resv'.token = rm'[y].token
                        /\ \A z \in Removers \ {y} : rm'[z].token # rm'[y].token
                        /\ \A j \in Inst : rm'[y].token \notin {pend[j].release, pend[j].handoff}
      BY <1>1 DEF HeldInv
    <2>1. y = x /\ m.at = i /\ m.token = NewToken
      BY <1>3, <1>4 DEF Held
    <2> QED
      BY <1>1, <1>4, <2>1, TokenIsNew
  <1>9. ClearInv'
    BY <1>3, <1>4 DEF ClearInv, Held
  <1> QED
    BY <1>5, <1>6, <1>7, <1>8, <1>9 DEF IInv

\* Manual deletes, a run's own cleanup and the adoption by a reconciler.
LEMMA ClaimIInv ==
  ASSUME IInv,
         \/ \E d \in Deleters, i \in Inst : Delete(d, i)
         \/ \E r \in Runs : OwnReserve(r)
         \/ \E i \in Inst : Adopt(i)
  PROVE  IInv'
  <1>1. run \in [Runs -> RunType]
    BY Types DEF IInv
  <1>2. ASSUME ~Reserved \/ Abandoned PROVE \A y \in Removers : rm[y].pc \notin Held
    BY <1>2, AttemptIsAlive
  <1>3. ASSUME NEW d \in Deleters, NEW i \in Inst, Delete(d, i) PROVE IInv'
    <2>1. d \in Removers /\ d \notin Runs \cup Inst /\ up[i] /\ ~Reserved /\ run' = run
          /\ TakeRow(d, i, "reserved")
      BY <1>3, ConstantsOK DEF Delete, Removers
    <2> QED
      BY <1>1, <1>2, <2>1, TakeRowIInv
  <1>4. ASSUME NEW r \in Runs, OwnReserve(r) PROVE IInv'
    <2>1. /\ r \in Removers /\ r \notin Inst /\ ~Reserved
          /\ TakeRow(r, run[r].at, "reserved") /\ run[r].pc = "ended" /\ Serves(r)
      BY <1>4, ConstantsOK DEF OwnReserve, MayClean, Removers, Serves
    <2>2. run[r].at \in Inst /\ up[run[r].at]
      BY <2>1 DEF IInv, RunInv
    <2>3. run' = [run EXCEPT ![r].pc = IF rm'[r].pc = "reserved" THEN "cleaning" ELSE "ended"]
      BY <1>1, <1>4, <2>1 DEF OwnReserve, RunType
    <2>4. run' \in [Runs -> RunType]
      BY <1>1, <2>3 DEF RunType
    <2>5. \A q \in Runs : /\ run'[q].at = run[q].at
                          /\ q # r => run'[q].pc = run[q].pc
                          /\ q = r => run'[q].pc = IF rm'[r].pc = "reserved" THEN "cleaning" ELSE "ended"
      BY <1>1, <2>3 DEF RunType
    <2> QED
      BY <1>2, <2>1, <2>2, <2>4, <2>5, TakeRowIInv
  <1>5. ASSUME NEW i \in Inst, Adopt(i) PROVE IInv'
    <2>1. i \in Removers /\ i \notin Runs /\ run' = run /\ rm[i].pc = "listed"
      BY <1>5, ConstantsOK DEF Adopt, Removers
    <2>2. CASE Adoptable(i) /\ TakeRow(i, i, "adopted")
      <3>1. up[i]
        BY <2>1, <2>2 DEF IInv, RmInv, Busy
      <3> QED
        BY <1>1, <1>2, <2>1, <2>2, <3>1, TakeRowIInv DEF Adoptable
    <2>3. CASE rm' = [rm EXCEPT ![i] = NoRm]
               /\ UNCHANGED <<lease, resv, mutex, pend, tree, up, boot, fails>>
      BY <2>1, <2>3, ListIInv
    <2> QED
      BY <1>5, <2>2, <2>3 DEF Adopt, marks, procs
  <1> QED
    BY <1>3, <1>4, <1>5

\* A remover returns: the row is released, handed off or left, and at most its own
\* token is kept for a retry (Return).
LEMMA ReturnIInv ==
  ASSUME IInv, NEW x \in Removers, rm[x].pc \in {"releasing", "disowning"}, Return(x),
         resv' \in {resv, releaseRow(rm[x].token), handOffRow(rm[x].token)},
         pend' \in [Inst -> [release : Tokens \cup {None}, handoff : Tokens \cup {None}]],
         \A i \in Inst : /\ pend'[i].release \in {pend[i].release, rm[x].token}
                         /\ pend'[i].handoff \in {pend[i].handoff, rm[x].token},
         fails' \in [n : 0..MaxFaults, own : BOOLEAN]
  PROVE  IInv'
  <1>1. /\ rm' = [rm EXCEPT ![x] = Ended(x)]
        /\ run' = [r \in Runs |-> IF r = x THEN [run[r] EXCEPT !.pc = "leaving"] ELSE run[r]]
        /\ UNCHANGED <<lease, mutex, tree, up, boot>>
    BY DEF Return, procs
  <1>2. rm \in [Removers -> RmType] /\ run \in [Runs -> RunType]
    BY Types DEF IInv
  <1>3. rm'[x] = Ended(x) /\ \A y \in Removers \ {x} : rm'[y] = rm[y]
    BY <1>1, <1>2
  <1>4. \A r \in Runs : /\ run'[r] \in RunType /\ run'[r].at = run[r].at
                        /\ r # x => run'[r] = run[r]
                        /\ r = x => run'[r].pc = "leaving" /\ run[r].pc = "cleaning"
    <2>1. ASSUME NEW r \in Runs, r = x PROVE run[r].pc = "cleaning"
      BY <2>1 DEF IInv, RmInv, Busy
    <2> QED
      BY <1>1, <1>2, <2>1, ZenonT(60) DEF RunType
  <1>5. TypeOK'
    <2>1. rm' \in [Removers -> RmType] /\ run' \in [Runs -> RunType]
      BY <1>1, <1>2, <1>4, EndedFields
    <2>2. resv' \in [owner : Inst \cup {None}, boot : Nat, token : Tokens \cup {None}]
      BY RowTypes, Types DEF IInv
    <2> QED
      BY <1>1, <2>1, <2>2, Types DEF IInv, TypeOK, RunType, RmType
  <1>6. RunInv'
    BY <1>1, <1>4 DEF IInv, RunInv, Serves
  <1>7. RmInv'
    BY <1>1, <1>3, <1>4, EndedFields DEF IInv, RmInv, Busy
  <1>8. HeldInv'
    <2> SUFFICES ASSUME NEW y \in Removers, rm'[y].pc \in Held
                 PROVE  /\ resv'.owner = rm'[y].at /\ resv'.boot = boot[rm'[y].at]
                        /\ resv'.token = rm'[y].token
                        /\ \A z \in Removers \ {y} : rm'[z].token # rm'[y].token
                        /\ \A j \in Inst : rm'[y].token \notin {pend'[j].release, pend'[j].handoff}
      BY <1>1 DEF HeldInv
    <2>1. y # x /\ rm'[y] = rm[y]
      BY <1>3, EndedFields DEF Held
    <2>2. /\ resv.owner = rm[y].at /\ resv.boot = boot[rm[y].at] /\ resv.token = rm[y].token
          /\ \A z \in Removers \ {y} : rm[z].token # rm[y].token
          /\ \A j \in Inst : rm[y].token \notin {pend[j].release, pend[j].handoff}
      BY <2>1 DEF IInv, HeldInv
    <2>3. resv' = resv
      BY <2>1, <2>2, OtherTokens
    <2>4. rm[y].token # None
      BY <2>1, ConstantsOK DEF IInv, RmInv, Busy, Held
    <2> QED
      BY <1>3, <2>1, <2>2, <2>3, <2>4, EndedFields
  <1>9. ClearInv'
    BY <1>1, <1>3, EndedFields DEF IInv, ClearInv, Leased
  <1> QED
    BY <1>5, <1>6, <1>7, <1>8, <1>9 DEF IInv

\* Release and handoff, with their failures.
LEMMA SettleIInv ==
  ASSUME IInv, NEW x \in Removers,
         \/ Release(x) \/ ReleaseFail(x) \/ Disown(x) \/ DisownFail(x)
         \/ (x \in Inst /\ ReconcilerDisownFail(x))
  PROVE  IInv'
  <1> DEFINE t == rm[x].token
  <1>1. /\ pend \in [Inst -> [release : Tokens \cup {None}, handoff : Tokens \cup {None}]]
        /\ fails \in [n : 0..MaxFaults, own : BOOLEAN]
        /\ rm \in [Removers -> RmType] /\ rm[x] \in RmType
    BY Types DEF IInv
  <1>2. rm[x].pc \in {"releasing", "disowning"}
    BY DEF Release, ReleaseFail, Disown, DisownFail, ReconcilerDisownFail
  <1>3. rm[x].at \in Inst /\ t \in Tokens
    BY <1>2 DEF IInv, RmInv, Busy
  <1>4. fails' \in [n : 0..MaxFaults, own : BOOLEAN]
    <2>1. fails' = fails \/ Fail("db") \/ fails' = [fails EXCEPT !.own = TRUE]
      BY DEF Release, ReleaseFail, Disown, DisownFail, ReconcilerDisownFail
    <2> QED
      BY <1>1, <2>1, FailType DEF IInv
  <1>5. resv' \in {resv, releaseRow(t), handOffRow(t)}
    BY DEF Release, ReleaseFail, Disown, DisownFail, ReconcilerDisownFail
  <1>6. CASE Return(x)
    <2>1. \/ pend' = pend
          \/ pend' = [pend EXCEPT ![rm[x].at].release = t]
          \/ pend' = [pend EXCEPT ![rm[x].at].handoff = t]
      BY DEF Release, ReleaseFail, Disown, DisownFail, ReconcilerDisownFail
    <2>2. pend' \in [Inst -> [release : Tokens \cup {None}, handoff : Tokens \cup {None}]]
      BY <1>1, <1>3, <2>1
    <2>3. \A i \in Inst : /\ pend'[i].release \in {pend[i].release, t}
                          /\ pend'[i].handoff \in {pend[i].handoff, t}
      BY <1>1, <1>3, <2>1
    <2> QED
      BY <1>2, <1>4, <1>5, <1>6, <2>2, <2>3, ReturnIInv
  <1>7. CASE ReleaseFail(x) /\ x \in Inst
    <2> DEFINE m == [rm[x] EXCEPT !.pc = "disowning"]
    <2>1. /\ m \in RmType /\ m.pc = "disowning" /\ m.at = rm[x].at /\ m.token = t
          /\ rm' = [rm EXCEPT ![x] = m]
      BY <1>1, <1>7 DEF ReleaseFail, RmType, Pcs
    <2>2. UNCHANGED <<run, lease, mutex, pend, tree, up, boot>>
      BY <1>7 DEF ReleaseFail, procs
    <2> HIDE DEF m
    <2>3. rm'[x] = m /\ \A y \in Removers \ {x} : rm'[y] = rm[y]
      BY <1>1, <2>1
    <2>4. TypeOK'
      <3>1. resv' \in [owner : Inst \cup {None}, boot : Nat, token : Tokens \cup {None}]
        BY <1>5, RowTypes, Types DEF IInv
      <3>2. rm' \in [Removers -> RmType]
        BY <1>1, <2>1
      <3> QED
        BY <1>4, <2>2, <3>1, <3>2, Types DEF IInv, TypeOK, RunType, RmType
    <2>5. RunInv'
      BY <2>2 DEF IInv, RunInv, Serves
    <2>6. RmInv'
      BY <1>2, <2>1, <2>2, <2>3 DEF IInv, RmInv, Busy
    <2>7. HeldInv'
      <3> SUFFICES ASSUME NEW y \in Removers, rm'[y].pc \in Held
                   PROVE  /\ resv'.owner = rm'[y].at /\ resv'.boot = boot[rm'[y].at]
                          /\ resv'.token = rm'[y].token
                          /\ \A z \in Removers \ {y} : rm'[z].token # rm'[y].token
                          /\ \A j \in Inst : rm'[y].token \notin {pend[j].release, pend[j].handoff}
        BY <2>2 DEF HeldInv
      <3>1. y # x /\ rm'[y] = rm[y]
        BY <2>1, <2>3 DEF Held
      <3>2. /\ resv.owner = rm[y].at /\ resv.boot = boot[rm[y].at] /\ resv.token = rm[y].token
            /\ \A z \in Removers \ {y} : rm[z].token # rm[y].token
            /\ \A j \in Inst : rm[y].token \notin {pend[j].release, pend[j].handoff}
        BY <3>1 DEF IInv, HeldInv
      <3>3. resv' = resv
        BY <1>5, <3>1, <3>2, OtherTokens
      <3> QED
        BY <2>1, <2>3, <3>1, <3>2, <3>3
    <2>8. ClearInv'
      BY <2>1, <2>2, <2>3 DEF IInv, ClearInv, Leased
    <2> QED
      BY <2>4, <2>5, <2>6, <2>7, <2>8 DEF IInv
  <1> QED
    BY <1>6, <1>7 DEF Release, ReleaseFail, Disown, DisownFail, ReconcilerDisownFail

\* The retries of a sweep (RetryRelease, RetryHandoff): a token that was kept is not
\* that of an attempt at work.
LEMMA RetryIInv ==
  ASSUME IInv, NEW i \in Inst, Retry(i)
  PROVE  IInv'
  <1>1. /\ pend \in [Inst -> [release : Tokens \cup {None}, handoff : Tokens \cup {None}]]
        /\ UNCHANGED <<run, lease, rm, mutex, tree, up, boot, fails>>
    BY Types DEF IInv, Retry, RetryRelease, RetryHandoff, procs
  <1>2. PICK t \in {pend[i].release, pend[i].handoff} : resv' \in {releaseRow(t), handOffRow(t)}
    BY DEF Retry, RetryRelease, RetryHandoff
  <1>3. /\ pend' \in [Inst -> [release : Tokens \cup {None}, handoff : Tokens \cup {None}]]
        /\ \A j \in Inst : /\ pend'[j].release \in {pend[j].release, None}
                           /\ pend'[j].handoff \in {pend[j].handoff, None}
    BY <1>1 DEF Retry, RetryRelease, RetryHandoff
  <1>4. TypeOK'
    <2>1. resv' \in [owner : Inst \cup {None}, boot : Nat, token : Tokens \cup {None}]
      BY <1>2, RowTypes DEF IInv
    <2> QED
      BY <1>1, <1>3, <2>1, Types DEF IInv, TypeOK, RunType, RmType
  <1>5. RunInv' /\ RmInv'
    BY <1>1 DEF IInv, RunInv, RmInv, Serves, Busy
  <1>6. HeldInv'
    <2> SUFFICES ASSUME NEW y \in Removers, rm[y].pc \in Held
                 PROVE  /\ resv' = resv
                        /\ \A j \in Inst : rm[y].token \notin {pend'[j].release, pend'[j].handoff}
      BY <1>1 DEF IInv, HeldInv
    <2>1. /\ resv.token = rm[y].token
          /\ \A j \in Inst : rm[y].token \notin {pend[j].release, pend[j].handoff}
      BY DEF IInv, HeldInv
    <2>2. rm[y].token # None
      BY ConstantsOK DEF IInv, RmInv, Busy, Held
    <2>3. resv' = resv
      BY <1>2, <2>1, OtherTokens
    <2> QED
      BY <1>3, <2>1, <2>2, <2>3
  <1>7. ClearInv'
    BY <1>1 DEF IInv, ClearInv, Leased
  <1> QED
    BY <1>4, <1>5, <1>6, <1>7 DEF IInv

\* A crash ends the runs and the removers of its process (Crash).
LEMMA CrashIInv ==
  ASSUME IInv, NEW i \in Inst, Crash(i)
  PROVE  IInv'
  <1>1. /\ up' = [up EXCEPT ![i] = FALSE] /\ UNCHANGED <<lease, resv, tree, boot>>
        /\ run' = [r \in Runs |-> IF run[r].at = i THEN [run[r] EXCEPT !.pc = "dead", !.at = None]
                                  ELSE run[r]]
        /\ rm' = [x \in Removers |-> IF rm[x].at = i THEN Ended(x) ELSE rm[x]]
        /\ mutex' = [mutex EXCEPT ![i] = None]
        /\ pend' = [pend EXCEPT ![i] = [release |-> None, handoff |-> None]]
    BY DEF Crash, marks
  <1>2. /\ run \in [Runs -> RunType] /\ rm \in [Removers -> RmType] /\ up \in [Inst -> BOOLEAN]
        /\ mutex \in [Inst -> Removers \cup {None}]
        /\ pend \in [Inst -> [release : Tokens \cup {None}, handoff : Tokens \cup {None}]]
    BY Types DEF IInv
  <1>3. TypeOK'
    <2>1. run' \in [Runs -> RunType]
      BY <1>1, <1>2, ZenonT(60) DEF RunType
    <2>2. rm' \in [Removers -> RmType]
      BY <1>1, <1>2, EndedFields
    <2>3. /\ mutex' \in [Inst -> Removers \cup {None}] /\ up' \in [Inst -> BOOLEAN]
          /\ pend' \in [Inst -> [release : Tokens \cup {None}, handoff : Tokens \cup {None}]]
      BY <1>1, <1>2
    <2>4. fails' \in [n : 0..MaxFaults, own : BOOLEAN]
      BY FailType DEF Crash, IInv
    <2> QED
      BY <1>1, <2>1, <2>2, <2>3, <2>4, Types DEF IInv, TypeOK, RunType, RmType
  <1>4. \A r \in Runs : IF run[r].at = i THEN run'[r].pc = "dead" ELSE run'[r] = run[r]
    BY <1>1, <1>2 DEF RunType
  <1>5. \A x \in Removers : IF rm[x].at = i THEN rm'[x] = Ended(x) ELSE rm'[x] = rm[x]
    BY <1>1
  <1>6. RunInv'
    BY <1>1, <1>2, <1>4 DEF IInv, RunInv, Serves
  <1>7. RmInv'
    BY <1>1, <1>2, <1>4, <1>5, EndedFields DEF IInv, RmInv, Busy
  <1>8. HeldInv'
    <2> SUFFICES ASSUME NEW y \in Removers, rm'[y].pc \in Held
                 PROVE  /\ resv.owner = rm'[y].at /\ resv.boot = boot[rm'[y].at]
                        /\ resv.token = rm'[y].token
                        /\ \A z \in Removers \ {y} : rm'[z].token # rm'[y].token
                        /\ \A j \in Inst : rm'[y].token \notin {pend'[j].release, pend'[j].handoff}
      BY <1>1 DEF HeldInv
    <2>1. rm'[y] = rm[y]
      BY <1>5, EndedFields DEF Held
    <2>2. rm[y].token # None
      BY <2>1, ConstantsOK DEF IInv, RmInv, Busy, Held
    <2>3. \A z \in Removers \ {y} : rm'[z].token # rm[y].token
      BY <1>5, <2>1, <2>2, EndedFields DEF IInv, HeldInv
    <2>4. \A j \in Inst : rm[y].token \notin {pend'[j].release, pend'[j].handoff}
      BY <1>1, <1>2, <2>1, <2>2 DEF IInv, HeldInv
    <2> QED
      BY <2>1, <2>3, <2>4 DEF IInv, HeldInv
  <1>9. ClearInv'
    BY <1>1, <1>5, EndedFields DEF IInv, ClearInv, Leased
  <1> QED
    BY <1>3, <1>6, <1>7, <1>8, <1>9 DEF IInv

\* A restart under the same id: no mark of a live attempt or run is of that id (Boot).
LEMMA BootIInv ==
  ASSUME IInv, NEW i \in Inst, Boot(i)
  PROVE  IInv'
  <1>1. /\ ~up[i] /\ up' = [up EXCEPT ![i] = TRUE] /\ boot' = [boot EXCEPT ![i] = boot[i] + 1]
        /\ UNCHANGED <<run, lease, resv, rm, mutex, pend, tree, fails>>
    BY DEF Boot, marks
  <1>2. up \in [Inst -> BOOLEAN] /\ boot \in [Inst -> Nat]
    BY Types DEF IInv
  <1>3. TypeOK'
    BY <1>1, <1>2, Types DEF IInv, TypeOK, RunType, RmType
  <1>4. \A j \in Inst : up[j] => up'[j] /\ boot'[j] = boot[j]
    BY <1>1, <1>2
  <1>5. RunInv'
    BY <1>1, <1>4 DEF IInv, RunInv, Serves
  <1>6. RmInv'
    BY <1>1, <1>4 DEF IInv, RmInv, Busy
  <1>7. HeldInv'
    <2>1. \A x \in Removers : rm[x].pc \in Held => rm[x].at \in Inst /\ up[rm[x].at]
      BY DEF IInv, RmInv, Busy, Held
    <2> QED
      BY <1>1, <1>4, <2>1 DEF IInv, HeldInv
  <1>8. ClearInv'
    BY <1>1 DEF IInv, ClearInv, Leased
  <1> QED
    BY <1>3, <1>5, <1>6, <1>7, <1>8 DEF IInv

-----------------------------------------------------------------------------
\* Every step keeps the invariant (Next).
LEMMA NextIInv == ASSUME IInv, [Next]_vars PROVE IInv'
  <1>1. ASSUME NEW r \in Runs, RunStep(r) \/ CreateFail(r) PROVE IInv'
    BY <1>1, RunStepIInv, ClaimIInv, LeaveIInv DEF RunStep
  <1>2. ASSUME NEW r \in Runs, NEW i \in Inst, Admit(r, i) \/ Sweep(i, r) PROVE IInv'
    BY <1>2, AdmitIInv, RunStepIInv, SweepIInv DEF Sweep
  <1>3. ASSUME NEW d \in Deleters, NEW i \in Inst, Delete(d, i) PROVE IInv'
    BY <1>3, ClaimIInv
  <1>4. ASSUME NEW x \in Removers,
               RemoverStep(x) \/ RemoveFail(x) \/ ReleaseFail(x) \/ DisownFail(x)
        PROVE  IInv'
    BY <1>4, RemovalIInv, SettleIInv DEF RemoverStep
  <1>5. ASSUME NEW i \in Inst,
               ReconcilerStep(i) \/ ReconcilerDisownFail(i) \/ Retry(i) \/ Crash(i) \/ Boot(i)
        PROVE  IInv'
    <2>1. i \in Removers
      BY DEF Removers
    <2> QED
      BY <1>5, <2>1, ListIInv, ClaimIInv, RemovalIInv, SettleIInv, RetryIInv, CrashIInv, BootIInv
         DEF ReconcilerStep
  <1>6. CASE UNCHANGED vars
    BY <1>6 DEF vars, IInv, TypeOK, RunInv, RmInv, HeldInv, ClearInv, Serves, Busy, Leased
  <1> QED
    BY <1>1, <1>2, <1>3, <1>4, <1>5, <1>6 DEF Next

\* The invariant holds throughout.
LEMMA Invariance == Spec => []IInv
  BY InitIInv, NextIInv, PTL DEF Spec

\* The tables and the processes' memory keep their types, and a run's own cleanup
\* stays within its attempts (retryWorkspaceCleanup).
THEOREM RemovalTypeCorrect == Spec => []TypeOK
  <1>1. IInv => TypeOK
    BY DEF IInv
  <1> QED
    BY <1>1, Invariance, PTL

\* The reservation row of a remover at work names it: no stale token, release or
\* handoff takes it away (handOffWorkspaceRemoval, the release and the adoption by token), for
\* any number of replicas, removers, crashes and failing writes.
THEOREM RowNamesAttempt == Spec => []HeldByAttempt
  <1>1. IInv => HeldByAttempt
    <2> SUFFICES ASSUME IInv, NEW x \in Removers, rm[x].pc \in Held
                 PROVE  resv = [owner |-> rm[x].at, boot |-> boot[rm[x].at], token |-> rm[x].token]
      BY DEF HeldByAttempt, Held
    <2>1. resv \in [owner : Inst \cup {None}, boot : Nat, token : Tokens \cup {None}]
      BY Types DEF IInv
    <2>2. resv.owner = rm[x].at /\ resv.boot = boot[rm[x].at] /\ resv.token = rm[x].token
      BY DEF IInv, HeldInv
    <2> QED
      BY <2>1, <2>2
  <1> QED
    BY <1>1, Invariance, PTL

-----------------------------------------------------------------------------
(* The worktree is a directory with users and one writer.                  *)

\* While a removal is under way, or its check has just passed, no run is in the
\* worktree.
LEMMA NobodyInside ==
  ASSUME IInv, NEW x \in Removers, Busy(x), \A r \in Runs \ {x} : ~Leased(r)
  PROVE  Using = {} /\ \A r \in Runs : run[r].pc # "claimed"
  <1> SUFFICES ASSUME NEW r \in Runs, run[r].pc \in {"claimed", "creating", "cli"} PROVE FALSE
    BY DEF Using
  <1>1. r # x
    BY DEF IInv, RmInv
  <1>2. lease[r].owner \in Inst
    BY DEF IInv, RunInv, Serves
  <1> QED
    BY <1>1, <1>2, ConstantsOK DEF Leased

\* There is one attempt at work at most.
LEMMA OneAttempt ==
  ASSUME IInv, NEW x \in Removers, NEW y \in Removers, rm[x].pc \in Held, rm[y].pc \in Held
  PROVE  x = y
  BY DEF IInv, HeldInv

\* A run enters the worktree (CreateStart).
LEMMA CreateStartEnters ==
  ASSUME IInv, ~PerAgent, NEW r \in Runs, CreateStart(r)
  PROVE  Directory!Next
  <1>1. run \in [Runs -> RunType] /\ run[r].pc = "claimed" /\ rm' = rm
    BY Types DEF IInv, CreateStart
  <1>2. run'[r].pc = "creating" /\ \A q \in Runs \ {r} : run'[q] = run[q]
    BY <1>1 DEF CreateStart, RunType
  <1>3. Using' = Using \cup {r} /\ r \notin Using /\ Removing' = Removing
    BY <1>1, <1>2 DEF Using, Removing
  <1>4. Removing = {}
    <2> SUFFICES ASSUME NEW x \in Removers, rm[x].pc = "removing" PROVE FALSE
      BY DEF Removing
    <2>1. Busy(x) /\ \A q \in Runs \ {x} : ~Leased(q)
      BY DEF Busy, IInv, ClearInv
    <2> QED
      BY <1>1, <2>1, NobodyInside
  <1>5. Directory!Enter(r)
    BY <1>3, <1>4 DEF Directory!Enter
  <1> QED
    BY <1>5 DEF Directory!Next

\* A removal begins (Lock of a reconciler, Recheck of the others).
LEMMA RemovalWrites ==
  ASSUME IInv, NEW x \in Removers, rm[x].pc \in {"locked", "cleared"},
         \A r \in Runs \ {x} : ~Leased(r),
         rm' = [rm EXCEPT ![x].pc = "removing"], run' = run
  PROVE  Directory!Next
  <1>1. rm \in [Removers -> RmType]
    BY Types DEF IInv
  <1>2. rm'[x].pc = "removing" /\ \A y \in Removers \ {x} : rm'[y] = rm[y]
    BY <1>1 DEF RmType
  <1>3. Using = {} /\ Using' = Using
    BY NobodyInside DEF Busy, Using
  <1>4. Removing = {}
    BY OneAttempt DEF Removing, Held
  <1>5. Removing' = {x}
    BY <1>2, <1>4 DEF Removing
  <1>6. Directory!Write(x)
    BY <1>3, <1>4, <1>5 DEF Directory!Write
  <1> QED
    BY <1>6 DEF Directory!Next

\* Every other step lets nobody in.
LEMMA NobodyEnters ==
  ASSUME \A r \in Runs : run'[r].pc \in {"creating", "cli"} => run[r].pc \in {"creating", "cli"},
         \A x \in Removers : rm'[x].pc = "removing" => rm[x].pc = "removing"
  PROVE  Directory!Next
  <1>1. Using' \subseteq Using /\ Removing' \subseteq Removing
    BY DEF Using, Removing
  <1> QED
    BY <1>1 DEF Directory!Next, Directory!Leave

\* Every step of the removal protocol is one of a directory with users and a writer.
LEMMA DirectoryStep ==
  ASSUME IInv, ~PerAgent, [Next]_vars
  PROVE  [Directory!Next]_<<Using, Removing>>
  <1>1. run \in [Runs -> RunType] /\ rm \in [Removers -> RmType]
    BY Types DEF IInv
  <1>2. ASSUME NEW r \in Runs, RunStep(r) \/ CreateFail(r) PROVE Directory!Next
    <2>1. CASE CreateStart(r)
      BY <2>1, CreateStartEnters
    <2>2. CASE \/ Resolve(r) \/ ClaimDir(r) \/ CreateDone(r) \/ Finish(r) \/ SkipCleanup(r)
               \/ OwnGiveUp(r) \/ Leave(r) \/ CreateFail(r)
      <3>1. rm' = rm
        BY <2>2 DEF Resolve, ClaimDir, CreateDone, Finish, SkipCleanup, OwnGiveUp, Leave, CreateFail
      <3>2. /\ run'[r].pc \in {"creating", "cli"} => run[r].pc \in {"creating", "cli"}
            /\ \A q \in Runs \ {r} : run'[q] = run[q]
        <4>1. CASE Resolve(r)
          BY <1>1, <4>1 DEF Resolve, RunType
        <4>2. CASE ClaimDir(r)
          BY <1>1, <4>2 DEF ClaimDir, RunType
        <4>3. CASE CreateDone(r) \/ CreateFail(r)
          BY <1>1, <4>3 DEF CreateDone, CreateFail, RunType
        <4>4. CASE Finish(r) \/ SkipCleanup(r)
          BY <1>1, <4>4 DEF Finish, SkipCleanup, RunType
        <4>5. CASE OwnGiveUp(r) \/ Leave(r)
          BY <1>1, <4>5 DEF OwnGiveUp, Leave, RunType
        <4> QED
          BY <2>2, <4>1, <4>2, <4>3, <4>4, <4>5
      <3> QED
        BY <3>1, <3>2, NobodyEnters
    <2>3. CASE OwnReserve(r)
      <3>1. /\ run'[r].pc \in {"cleaning", "ended"} /\ \A q \in Runs \ {r} : run'[q] = run[q]
        BY <1>1, <2>3 DEF OwnReserve, RunType
      <3>2. \A x \in Removers : rm'[x].pc = "removing" => rm[x].pc = "removing"
        BY <1>1, <2>3, EndedFields DEF OwnReserve, TakeRow
      <3> QED
        BY <3>1, <3>2, NobodyEnters
    <2> QED
      BY <1>2, <2>1, <2>2, <2>3 DEF RunStep
  <1>3. ASSUME NEW r \in Runs, NEW i \in Inst, Admit(r, i) \/ Sweep(i, r) PROVE Directory!Next
    <2>1. rm' = rm
      BY <1>3 DEF Admit, Sweep, ReapRun, SweepLease
    <2>2. \A q \in Runs : run'[q].pc \in {"creating", "cli"} => run[q].pc \in {"creating", "cli"}
      BY <1>1, <1>3 DEF Admit, Sweep, ReapRun, SweepLease, RunType
    <2> QED
      BY <2>1, <2>2, NobodyEnters
  <1>4. ASSUME NEW d \in Deleters, NEW i \in Inst, Delete(d, i) PROVE Directory!Next
    <2>1. run' = run /\ \A x \in Removers : rm'[x].pc = "removing" => rm[x].pc = "removing"
      BY <1>1, <1>4, EndedFields DEF Delete, TakeRow, Removers
    <2> QED
      BY <2>1, NobodyEnters
  <1>5. ASSUME NEW x \in Removers,
               RemoverStep(x) \/ RemoveFail(x) \/ ReleaseFail(x) \/ DisownFail(x)
        PROVE  Directory!Next
    <2>1. CASE Lock(x)
      <3>1. CASE rm[x].pc = "cleared"
        <4>1. \A r \in Runs \ {x} : ~Leased(r)
          BY <3>1 DEF IInv, ClearInv
        <4>2. rm' = [rm EXCEPT ![x].pc = "removing"] /\ run' = run
          BY <1>1, <2>1, <3>1 DEF Lock
        <4> QED
          BY <3>1, <4>1, <4>2, RemovalWrites
      <3>2. CASE rm[x].pc # "cleared"
        <4>1. run' = run /\ \A y \in Removers : rm'[y].pc = "removing" => rm[y].pc = "removing"
          BY <1>1, <2>1, <3>2 DEF Lock, RmType
        <4> QED
          BY <4>1, NobodyEnters
      <3> QED
        BY <3>1, <3>2
    <2>2. ASSUME NEW b \in BOOLEAN, AfterFailure(x, b), run' = run PROVE Directory!Next
      <3>1. /\ rm'[x].pc \in {"reserved", "releasing", "disowning"}
            /\ rm' = [rm EXCEPT ![x] = rm'[x]]
        BY <2>2, FailedFields DEF IInv
      <3>2. \A y \in Removers \ {x} : rm'[y] = rm[y]
        BY <1>1, <3>1
      <3> QED
        BY <2>2, <3>1, <3>2, NobodyEnters
    <2>3. CASE Recheck(x)
      <3>1. CASE /\ ~findWorkspaceRemovalBlocker(Runs \cap {x})
                 /\ rm' = [rm EXCEPT ![x].pc = "removing"]
        <4>1. \A r \in Runs \ {x} : ~Leased(r)
          BY <3>1 DEF findWorkspaceRemovalBlocker
        <4> QED
          BY <2>3, <3>1, <4>1, RemovalWrites DEF Recheck
      <3>2. CASE AfterFailure(x, TRUE)
        BY <2>2, <2>3, <3>2 DEF Recheck
      <3> QED
        BY <2>3, <3>1, <3>2 DEF Recheck
    <2>4. CASE RemoveFail(x)
      BY <2>2, <2>4 DEF RemoveFail
    <2>5. CASE RemoveDone(x)
      <3>1. run' = run /\ \A y \in Removers : rm'[y].pc = "removing" => rm[y].pc = "removing"
        BY <1>1, <2>5 DEF RemoveDone, RmType
      <3> QED
        BY <3>1, NobodyEnters
    <2>6. CASE Release(x) \/ Disown(x) \/ ReleaseFail(x) \/ DisownFail(x)
      <3>1. \A y \in Removers : rm'[y].pc = "removing" => rm[y].pc = "removing"
        BY <1>1, <2>6, EndedFields DEF Release, Disown, ReleaseFail, DisownFail, Return, RmType
      <3>2. \A q \in Runs : run'[q].pc \in {"creating", "cli"} => run[q].pc \in {"creating", "cli"}
        BY <1>1, <2>6 DEF Release, Disown, ReleaseFail, DisownFail, Return, RunType
      <3> QED
        BY <3>1, <3>2, NobodyEnters
    <2> QED
      BY <1>5, <2>1, <2>3, <2>4, <2>5, <2>6 DEF RemoverStep
  <1>6. ASSUME NEW i \in Inst,
               ReconcilerStep(i) \/ ReconcilerDisownFail(i) \/ Retry(i) \/ Crash(i) \/ Boot(i)
        PROVE  Directory!Next
    <2>1. i \in Removers
      BY DEF Removers
    <2>2. CASE ReconcilerStep(i)
      <3>1. run' = run
        BY <2>2 DEF ReconcilerStep, ListCandidate, Adopt, Decide
      <3>2. \A y \in Removers : rm'[y].pc = "removing" => rm[y].pc = "removing"
        <4>1. CASE ListCandidate(i) \/ Decide(i)
          BY <1>1, <2>1, <4>1 DEF ListCandidate, Decide, RmType
        <4>2. CASE Adopt(i)
          BY <1>1, <2>1, <4>2, EndedFields DEF Adopt, TakeRow
        <4> QED
          BY <2>2, <4>1, <4>2 DEF ReconcilerStep
      <3> QED
        BY <3>1, <3>2, NobodyEnters
    <2>3. CASE ReconcilerDisownFail(i)
      <3>1. \A y \in Removers : rm'[y].pc = "removing" => rm[y].pc = "removing"
        BY <1>1, <2>1, <2>3, EndedFields DEF ReconcilerDisownFail, Return
      <3>2. \A q \in Runs : run'[q].pc \in {"creating", "cli"} => run[q].pc \in {"creating", "cli"}
        BY <1>1, <2>3 DEF ReconcilerDisownFail, Return, RunType
      <3> QED
        BY <3>1, <3>2, NobodyEnters
    <2>4. CASE Retry(i) \/ Boot(i)
      <3>1. run' = run /\ rm' = rm
        BY <2>4 DEF Retry, RetryRelease, RetryHandoff, Boot
      <3> QED
        BY <3>1, NobodyEnters
    <2>5. CASE Crash(i)
      <3>1. \A y \in Removers : rm'[y].pc = "removing" => rm[y].pc = "removing"
        BY <2>5, EndedFields DEF Crash
      <3>2. \A q \in Runs : run'[q].pc \in {"creating", "cli"} => run[q].pc \in {"creating", "cli"}
        BY <1>1, <2>5, ZenonT(60) DEF Crash, RunType
      <3> QED
        BY <3>1, <3>2, NobodyEnters
    <2> QED
      BY <1>6, <2>2, <2>3, <2>4, <2>5
  <1>7. CASE UNCHANGED vars
    BY <1>7 DEF vars, Using, Removing
  <1> QED
    BY <1>2, <1>3, <1>4, <1>5, <1>6, <1>7 DEF Next

\* No remover, on any replica, deletes a named worktree while a run creates it or works
\* in it, no two delete it at once, and no run enters it during a removal (the checks of
\* resolveWorkDir, admitRun and beforeRemove), for any number of replicas, runs, delete
\* requests, crashes and failing writes.
THEOREM RemovalIsExclusive ==
    ASSUME ~PerAgent
    PROVE  Spec => ExclusiveRemoval
  <1>1. Init => IInv /\ Directory!Init
    BY InitIInv DEF Init, NewRun, NoRm, Directory!Init, Using, Removing
  <1>2. IInv /\ [Next]_vars => IInv' /\ [Directory!Next]_<<Using, Removing>>
    BY NextIInv, DirectoryStep
  <1> QED
    BY <1>1, <1>2, PTL DEF Spec, ExclusiveRemoval, Directory!Spec
=============================================================================
