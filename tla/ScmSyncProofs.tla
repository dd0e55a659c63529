---------------------------- MODULE ScmSyncProofs ----------------------------
(***************************************************************************)
(* Proofs about ScmSync, for any number of replicas, workloads, paths,     *)
(* failing writes and stops: the shared checkout has one writer and no     *)
(* user or no writer, and the stamp of an initial sync is about the path   *)
(* the row has.                                                            *)
(*                                                                         *)
(* Both rest on the status columns of the row: at most one job holds a     *)
(* claim by right, and as long as it does the row says so, so that no      *)
(* other claim, no PATCH of a new place and no DELETE gets through. A job  *)
(* whose claim startup took away is void, and so is every claim taken      *)
(* while there is one, so that the damage ends with the last of them.      *)
(***************************************************************************)
EXTENDS ScmSync, TLAPS

SrcType  == [sync : {"idle", "syncing"}, index : {"idle", "indexing"}, path : Paths,
             ready : BOOLEAN, state : {"live", "deleting", "deleted"}]
WorkType == [pc : {"idle", "queued", "resolving", "tree", "shared", "ended"},
             at : Inst \cup {None}, dir : BOOLEAN]
JobType  == [pc : Holding \cup {"idle", "claimed", "rollback", "refused", "indexclaimed"},
             pre : BOOLEAN, path : Paths, ok : BOOLEAN, void : BOOLEAN]

FailType == [retried : Nat, own : Nat]

\* Nothing happens in a process that is down; a process locks its checkout for its own
\* jobs, and a workload that is in a process is being prepared or runs.
Quiet(i) == busy[i] = None /\ recl[i] = "none" /\ \A j \in Jobs : j[1] = i => job[j].pc = "idle"
InProcess(w) == work[w].at # None => work[w].pc \in {"resolving", "tree", "shared"}
LifeInv ==
    /\ \A i \in Inst : phase[i] = "down" => Quiet(i)
    /\ \A i \in Inst : recov[i] # "none" => phase[i] # "down"
    /\ \A i \in Inst : recov[i] = "reset" => site.sqlite
    /\ \A i \in Inst : busy[i] # None => busy[i][1] = i
    /\ site.sqlite => \A i, k \in Inst : phase[i] # "down" /\ phase[k] # "down" => i = k
    /\ \A w \in Works : InProcess(w)

\* A source that is going has no Agent and no work.
DeleteInv ==
    /\ src.state # "live" => ~bound /\ Leased = {}
    /\ \A i \in Inst : recl[i] # "none" => src.state # "live"

\* A claim that nobody has taken away.
Rightful(j) == Claims(j) /\ ~job[j].void

\* A rightful claim is in the row, there is no other claim beside it, and none on a row
\* that is going.
ClaimInv ==
    /\ \A j \in Jobs : HoldsSync(j) /\ ~job[j].void => src.sync = "syncing"
    /\ \A j \in Jobs : HoldsIndex(j) /\ ~job[j].void => src.index = "indexing"
    /\ \A j, k \in Jobs : Rightful(j) /\ Claims(k) => j = k
    /\ \A j \in Jobs : Rightful(j) => src.state = "live"
    /\ \A j \in Jobs : job[j].pc = "idle" => ~job[j].pre
    /\ \A j \in Jobs : job[j].void => Claims(j)

\* A rightful sync writes the path the row has, unless a PATCH has parted them.
StampInv ==
    /\ StampIsCurrent
    /\ \A j \in Jobs : job[j].pc \in {"working", "terminal"} /\ ~job[j].void =>
                          job[j].path = src.path \/ parted

\* Whoever is in the shared checkout by right can be seen there, and a sync sees nobody.
WorkInv ==
    /\ \A w \in Works : work[w].pc = "shared" /\ ~work[w].dir => workloadOccupiesSharedCheckout(w)
    /\ ~site.git => \A w \in Works : ~work[w].dir
    /\ \A j \in Jobs : job[j].pc = "working" /\ ~job[j].void => ~findSharedCheckoutScmWorkload

BaseInv == TypeOK /\ LifeInv /\ DeleteInv
RowInv  == BaseInv /\ ClaimInv /\ StampInv
IInv    == RowInv /\ WorkInv

\* TypeOK with its record types named.
LEMMA Types ==
  TypeOK <=> /\ site \in Sites
             /\ src \in SrcType
             /\ bound \in BOOLEAN
             /\ work \in [Works -> WorkType]
             /\ job \in [Jobs -> JobType]
             /\ busy \in [Inst -> Jobs \cup {None}]
             /\ \A i \in Inst : phase[i] = "up" => busy[i] = None \/ job[busy[i]].pc \in Holding
             /\ recl \in [Inst -> {"none", "isolate", "finalize"}]
             /\ phase \in [Inst -> {"up", "fenced", "down"}]
             /\ recov \in [Inst -> {"none", "list", "reset", "resume"}]
             /\ seen \in [Inst -> SUBSET Paths]
             /\ fails \in FailType /\ stops \in 0 .. MaxFaults
             /\ stamp \in Paths \cup {None} /\ parted \in BOOLEAN
  BY DEF TypeOK, SrcType, WorkType, JobType, FailType

\* An idle job and a workload that has not begun.
LEMMA Fresh == NoJob \in JobType /\ NoJob.pc = "idle" /\ ~NoJob.void /\ NoWork \in WorkType /\ NoWork.pc = "idle"
  BY ConstantsOK DEF NoJob, NoWork, JobType, WorkType, Paths

\* A job belongs to a process.
LEMMA JobOwner ==
  /\ \A j \in Jobs : j[1] \in Inst /\ j # None
  /\ \A i \in Inst : <<i, "timer">> \in Jobs /\ <<i, "request">> \in Jobs
  BY ConstantsOK DEF Jobs

\* A counted failure.
LEMMA FailCounts ==
  ASSUME TypeOK, NEW kind \in {"retried", "own"}, Fail(kind)
  PROVE  fails' \in FailType
  BY Types DEF Fail, FailType

-----------------------------------------------------------------------------
(* Steps of a job.                                                         *)

JobAct(j) ==
    \/ \E i \in Inst : j = <<i, "timer">> /\ Tick(i)
    \/ \E i \in Inst : j = <<i, "request">> /\ (ManualClaim(i) \/ ReindexClaim(i) \/ RequestStep(i))
    \/ JobStep(j) \/ Refuse(j) \/ TerminalFails(j) \/ Abandon(j)

\* What a step of job j leaves alone, whatever it is.
Alone(j) ==
    /\ UNCHANGED <<site, bound, work, recl, phase, recov, seen, stops>>
    /\ job' \in [Jobs -> JobType] /\ \A k \in Jobs \ {j} : job'[k] = job[k]
    /\ src' \in SrcType /\ src'.state = src.state /\ src'.path = src.path
    /\ stamp' \in Paths \cup {None} /\ parted' \in BOOLEAN
    /\ fails' \in FailType

\* ... and what it does to the lock.
Locks(j) ==
    /\ busy' \in [Inst -> Jobs \cup {None}] /\ \A i \in Inst \ {j[1]} : busy'[i] = busy[i]
    /\ busy'[j[1]] \in {None, j, busy[j[1]]}
    /\ phase[j[1]] = "up" => busy'[j[1]] = None \/ job'[busy'[j[1]]].pc \in Holding

Awake(i) == phase[i] # "down"

\* Every step of a job is of that kind.
LEMMA JobAlone ==
  ASSUME TypeOK, LifeInv, NEW j \in Jobs, JobAct(j)
  PROVE  Alone(j) /\ Locks(j) /\ Awake(j[1])
  <1> DEFINE i == j[1]
  <1>0. /\ job \in [Jobs -> JobType] /\ job[j] \in JobType /\ src \in SrcType
        /\ busy \in [Inst -> Jobs \cup {None}] /\ fails \in FailType
        /\ stamp \in Paths \cup {None} /\ parted \in BOOLEAN
        /\ i \in Inst /\ phase[i] \in {"up", "fenced", "down"}
        /\ phase[i] = "up" => busy[i] = None \/ job[busy[i]].pc \in Holding
    BY Types, JobOwner
  <1>1. UNCHANGED <<site, bound, work, recl, phase, recov, seen, stops>>
    BY DEF JobAct, Tick, ManualClaim, ReindexClaim, RequestStep, ManualCheckout, ReindexCheckout, JobStep,
           Section, SyncEnds, Terminal, Reset, IndexEnds, Unclaim, Rollback, Refuse, TerminalFails,
           Abandon, procs
  <1>2. Awake(i)
    <2>1. CASE job[j].pc # "idle"
      BY <1>0, <2>1 DEF LifeInv, Quiet, Awake
    <2>2. CASE job[j].pc = "idle"
      <3>1. \/ \E k \in Inst : j = <<k, "timer">> /\ Tick(k)
            \/ \E k \in Inst : j = <<k, "request">> /\ (ManualClaim(k) \/ ReindexClaim(k))
        BY <2>2 DEF JobAct, RequestStep, ManualCheckout, ReindexCheckout, JobStep, Section, SyncEnds,
                    Terminal, Reset, IndexEnds, Unclaim, Rollback, Refuse, TerminalFails, Abandon
      <3>2. PICK k \in Inst : j[1] = k /\ (Tick(k) \/ ManualClaim(k) \/ ReindexClaim(k))
        BY <3>1
      <3>3. Awake(k)
        BY <3>2 DEF Tick, ManualClaim, ReindexClaim, Serving, Awake
      <3> QED
        BY <3>2, <3>3
    <2> QED
      BY <2>1, <2>2
  <1>3. stamp' \in Paths \cup {None} /\ parted' \in BOOLEAN
    <2>1. UNCHANGED <<stamp, parted>> \/ Stamped(j)
      BY DEF JobAct, Tick, ManualClaim, ReindexClaim, RequestStep, ManualCheckout, ReindexCheckout, JobStep,
             Section, SyncEnds, Terminal, Reset, IndexEnds, Unclaim, Rollback, Refuse, TerminalFails, Abandon,
             marks
    <2>2. Stamped(j) => parted' \in BOOLEAN
      BY <1>0, Zenon DEF Stamped
    <2>3. Stamped(j) => stamp' \in Paths \cup {None}
      BY <1>0 DEF Stamped, JobType
    <2> QED
      BY <1>0, <2>1, <2>2, <2>3
  <1>4. fails' \in FailType
    <2>1. UNCHANGED fails \/ Fail("retried") \/ Fail("own")
      BY DEF JobAct, Tick, ManualClaim, ReindexClaim, RequestStep, ManualCheckout, ReindexCheckout, JobStep,
             Section, SyncEnds, Terminal, Reset, IndexEnds, Unclaim, Rollback, Refuse, TerminalFails, Abandon
    <2> QED
      BY <1>0, <2>1, FailCounts
  <1>5. src' \in SrcType /\ src'.state = src.state /\ src'.path = src.path
    <2>1. CASE UNCHANGED src
      BY <1>0, <2>1
    <2>2. CASE Terminal(j)
      BY <1>0, <2>2 DEF Terminal, SrcType, JobType
    <2>3. CASE \E st \in {"idle", "syncing"} : src' = [src EXCEPT !.sync = st]
      BY <1>0, <2>3 DEF SrcType
    <2>4. CASE \E st \in {"idle", "indexing"} : src' = [src EXCEPT !.index = st]
      BY <1>0, <2>4 DEF SrcType
    <2> QED
      BY <2>1, <2>2, <2>3, <2>4
      DEF JobAct, Tick, ManualClaim, ReindexClaim, RequestStep, ManualCheckout, ReindexCheckout, JobStep,
          Section, SyncEnds, Reset, IndexEnds, Unclaim, Rollback, Refuse, TerminalFails, Abandon
  <1>6. job' \in [Jobs -> JobType] /\ \A k \in Jobs \ {j} : job'[k] = job[k]
    <2>1. CASE \E q \in JobType : job' = [job EXCEPT ![j] = q]
      BY <1>0, <2>1
    <2>2. ASSUME NEW pc \in Holding \cup {"idle", "claimed", "rollback", "refused", "indexclaimed"},
                 Goto(j, pc)
          PROVE  \E q \in JobType : job' = [job EXCEPT ![j] = q]
      <3>1. [job[j] EXCEPT !.pc = pc] \in JobType
        BY <1>0 DEF JobType
      <3>2. job' = [job EXCEPT ![j] = [job[j] EXCEPT !.pc = pc]]
        BY <1>0, <2>2 DEF Goto
      <3> QED
        BY <3>1, <3>2
    <2>3. Done(j) => \E q \in JobType : job' = [job EXCEPT ![j] = q]
      BY Fresh DEF Done
    <2>m. Mistaken \in BOOLEAN
      BY DEF Mistaken
    <2>c. ASSUME NEW pc \in Holding \cup {"idle", "claimed", "rollback", "refused", "indexclaimed"},
                 Claim(j, pc)
          PROVE  \E q \in JobType : job' = [job EXCEPT ![j] = q]
      <3>1. [job[j] EXCEPT !.pc = pc, !.void = Mistaken] \in JobType
        BY <1>0, <2>m DEF JobType
      <3>2. job' = [job EXCEPT ![j] = [job[j] EXCEPT !.pc = pc, !.void = Mistaken]]
        BY <1>0, <2>c DEF Claim
      <3> QED
        BY <3>1, <3>2
    <2>4. ASSUME NEW k \in Inst, j = <<k, "timer">>, Tick(k) PROVE Goto(j, "section")
      BY <2>4 DEF Tick
    <2>5. ASSUME NEW k \in Inst, j = <<k, "request">>, ManualClaim(k) \/ ReindexClaim(k)
          PROVE  Claim(j, "claimed") \/ Claim(j, "indexclaimed")
      BY <2>5 DEF ManualClaim, ReindexClaim
    <2>6. ASSUME NEW k \in Inst, j = <<k, "request">>, RequestStep(k)
          PROVE  \E q \in JobType : job' = [job EXCEPT ![j] = q]
      <3>1. [job[j] EXCEPT !.pc = "section", !.pre = TRUE] \in JobType
        BY <1>0 DEF JobType, Holding
      <3>2. \/ Goto(j, "rollback") \/ Goto(j, "reindexing")
            \/ job' = [job EXCEPT ![j] = NoJob]
            \/ job' = [job EXCEPT ![j] = [job[j] EXCEPT !.pc = "section", !.pre = TRUE]]
        <4>1. CASE ManualCheckout(k)
          BY <1>0, <2>6, <4>1 DEF ManualCheckout
        <4>2. CASE ReindexCheckout(k)
          BY <2>6, <4>2 DEF ReindexCheckout
        <4> QED
          BY <2>6, <4>1, <4>2 DEF RequestStep
      <3> QED
        BY <2>2, <3>1, <3>2, Fresh DEF Holding
    <2>7. CASE Section(j)
      <3>1. [job[j] EXCEPT !.pc = "working", !.path = src.path, !.void = Mistaken] \in JobType
        BY <1>0, <2>m DEF JobType, SrcType, Holding
      <3>2. \/ Done(j)
            \/ job' = [job EXCEPT ![j] = [job[j] EXCEPT !.pc = "working", !.path = src.path,
                                                       !.void = Mistaken]]
        BY <1>0, <2>7 DEF Section
      <3> QED
        BY <2>1, <2>3, <3>1, <3>2
    <2>8. CASE SyncEnds(j)
      <3>1. PICK ok \in BOOLEAN : job' = [job EXCEPT ![j].pc = "terminal", ![j].ok = ok]
        BY <2>8 DEF SyncEnds
      <3>2. [job[j] EXCEPT !.pc = "terminal", !.ok = ok] \in JobType
        BY <1>0 DEF JobType, Holding
      <3>3. job' = [job EXCEPT ![j] = [job[j] EXCEPT !.pc = "terminal", !.ok = ok]]
        BY <1>0, <3>1
      <3> QED
        BY <2>1, <3>2, <3>3
    <2>9. CASE Terminal(j) \/ Reset(j) \/ IndexEnds(j) \/ Unclaim(j) \/ Rollback(j) \/ Refuse(j)
               \/ TerminalFails(j) \/ Abandon(j)
      <3>1. \/ Done(j) \/ job' = [job EXCEPT ![j] = NoJob]
            \/ Goto(j, "indexing") \/ Goto(j, "unclaim") \/ Claim(j, "refused") \/ Goto(j, "reset")
        BY <2>9 DEF Terminal, Reset, IndexEnds, Unclaim, Rollback, Refuse, TerminalFails, Abandon
      <3> QED
        BY <2>1, <2>2, <2>3, <2>c, <3>1, Fresh DEF Holding
    <2> QED
      BY <2>1, <2>2, <2>c, <2>4, <2>5, <2>6, <2>7, <2>8, <2>9 DEF JobAct, JobStep, Holding
  <1>7. Locks(j)
    <2>1. CASE busy' = [busy EXCEPT ![i] = None]
      BY <1>0, <2>1 DEF Locks
    <2>2. CASE busy' = [busy EXCEPT ![i] = j] /\ (phase[i] = "up" => job'[j].pc \in Holding)
      BY <1>0, <2>2, JobOwner DEF Locks
    <2>3. CASE busy' = busy /\ (job[j].pc \in Holding => job'[j].pc \in Holding)
      BY <1>0, <1>6, <2>3 DEF Locks
    <2>4. ASSUME NEW k \in Inst, j = <<k, "timer">>, Tick(k) PROVE Locks(j)
      <3>1. i = k /\ job'[j].pc = "section"
        BY <1>0, <2>4 DEF Tick, Goto, JobType
      <3> QED
        BY <2>2, <2>4, <3>1 DEF Tick, Holding
    <2>5. ASSUME NEW k \in Inst, j = <<k, "request">>, ManualClaim(k) \/ ReindexClaim(k) PROVE Locks(j)
      BY <2>3, <2>5 DEF ManualClaim, ReindexClaim, Holding
    <2>6. ASSUME NEW k \in Inst, j = <<k, "request">>, ManualCheckout(k) PROVE Locks(j)
      <3>1. i = k
        BY <2>6
      <3>2. CASE busy[k] # None
        BY <2>3, <2>6, <3>2 DEF ManualCheckout, Holding
      <3>3. CASE busy[k] = None
        <4>1. busy' = [busy EXCEPT ![i] = j] /\ (phase[i] # "fenced" => job'[j].pc = "section")
          <5>1. busy' = [busy EXCEPT ![i] = j]
            BY <2>6, <3>1, <3>3 DEF ManualCheckout
          <5>2. phase[i] # "fenced" => job' = [job EXCEPT ![j] = [job[j] EXCEPT !.pc = "section", !.pre = TRUE]]
            BY <2>6, <3>1, <3>3 DEF ManualCheckout
          <5> QED
            BY <1>0, <5>1, <5>2 DEF JobType
        <4> QED
          BY <2>2, <4>1 DEF Holding
      <3> QED
        BY <3>2, <3>3
    <2>7. ASSUME NEW k \in Inst, j = <<k, "request">>, ReindexCheckout(k) PROVE Locks(j)
      <3>1. i = k
        BY <2>7
      <3>2. CASE busy' = busy
        BY <2>3, <2>7, <3>2 DEF ReindexCheckout, Holding
      <3>3. CASE busy' # busy
        <4>1. busy' = [busy EXCEPT ![i] = j] /\ job'[j].pc = "reindexing"
          BY <1>0, <2>7, <3>1, <3>3 DEF ReindexCheckout, Goto, JobType
        <4> QED
          BY <2>2, <4>1 DEF Holding
      <3> QED
        BY <3>2, <3>3
    <2>8. CASE JobStep(j) \/ Refuse(j) \/ TerminalFails(j) \/ Abandon(j)
      <3>1. CASE Done(j) \/ Refuse(j)
        BY <2>1, <3>1 DEF Done, Refuse
      <3>2. CASE Rollback(j) \/ (Abandon(j) /\ job[j].pc \in {"rollback", "refused"})
        BY <2>3, <3>2 DEF Rollback, Abandon, Holding
      <3>3. CASE /\ ~Done(j) /\ ~Refuse(j) /\ ~Rollback(j)
                 /\ ~(Abandon(j) /\ job[j].pc \in {"rollback", "refused"})
        <4>1. busy' = busy
          BY <2>8, <3>3 DEF JobStep, Section, SyncEnds, Terminal, Reset, IndexEnds, Unclaim, TerminalFails,
                           Abandon
        <4>2. job'[j].pc \in {"working", "terminal", "indexing", "unclaim", "reset"}
          BY <1>0, <2>8, <3>3 DEF JobStep, Section, SyncEnds, Terminal, Reset, IndexEnds, Unclaim,
                                  TerminalFails, Abandon, Goto, JobType
        <4> QED
          BY <2>3, <4>1, <4>2 DEF Holding
      <3> QED
        BY <3>1, <3>2, <3>3
    <2> QED
      BY <2>4, <2>5, <2>6, <2>7, <2>8 DEF JobAct, RequestStep
  <1> QED
    BY <1>1, <1>2, <1>3, <1>4, <1>5, <1>6, <1>7 DEF Alone

\* A step of a job keeps types, locks and the state of processes.
LEMMA JobBase ==
  ASSUME BaseInv, NEW j \in Jobs, Alone(j), Locks(j), Awake(j[1])
  PROVE  BaseInv'
  <1>0. /\ TypeOK /\ LifeInv /\ DeleteInv
        /\ busy \in [Inst -> Jobs \cup {None}] /\ j[1] \in Inst /\ job \in [Jobs -> JobType]
    BY Types, JobOwner DEF BaseInv
  <1>1. \A i \in Inst : busy'[i] # None => busy'[i][1] = i
    BY <1>0 DEF Locks, LifeInv
  <1>2. \A i \in Inst : phase[i] = "up" => busy'[i] = None \/ job'[busy'[i]].pc \in Holding
    <2>1. SUFFICES ASSUME NEW i \in Inst, i # j[1], phase[i] = "up"
                   PROVE  busy'[i] = None \/ job'[busy'[i]].pc \in Holding
      BY DEF Locks
    <2>2. busy'[i] = busy[i] /\ busy[i] \in Jobs \cup {None}
      BY <1>0, <2>1 DEF Locks
    <2>3. busy[i] # None => busy[i] # j /\ job'[busy[i]] = job[busy[i]]
      BY <1>0, <2>1, <2>2 DEF LifeInv, Alone
    <2> QED
      BY <1>0, <2>1, <2>2, <2>3, Types
  <1>3. TypeOK'
    BY <1>0, <1>2, Types DEF Alone, Locks, TypeOK, SrcType, WorkType, JobType, FailType
  <1>4. LifeInv'
    <2>1. ASSUME NEW i \in Inst, phase'[i] = "down"
          PROVE  Quiet(i)'
      <3>1. i # j[1] /\ Quiet(i)
        BY <1>0, <2>1 DEF Alone, Awake, LifeInv
      <3>2. busy'[i] = busy[i] /\ recl'[i] = recl[i] /\ \A k \in Jobs : k[1] = i => job'[k] = job[k]
        BY <1>0, <3>1 DEF Alone, Locks
      <3> QED
        BY <3>1, <3>2 DEF Quiet
    <2> QED
      BY <1>0, <1>1, <2>1 DEF LifeInv, InProcess, Alone
  <1>5. DeleteInv'
    BY <1>0 DEF DeleteInv, Leased, Alone
  <1> QED
    BY <1>3, <1>4, <1>5 DEF BaseInv

\* A job that begins to hold a claim found the row free, and one that holds it by right
\* keeps it in the row. A new claim is void while there are void ones.
ClaimStep(j) ==
    /\ Claims(j) \/ Free \/ (~Claims(j)' /\ src' = src)
    /\ HoldsSync(j)' /\ ~job'[j].void => src'.sync = "syncing"
    /\ HoldsIndex(j)' /\ ~job'[j].void => src'.index = "indexing"
    /\ job'[j].pc = "idle" => ~job'[j].pre
    /\ job'[j].void => Claims(j)'
    /\ Claims(j)' => (job'[j].void <=> Mistaken)

\* A free row has no rightful claim.
LEMMA FreeRow ==
  ASSUME ClaimInv, Free
  PROVE  \A j \in Jobs : ~Rightful(j)
  BY DEF ClaimInv, Free, Claims, Rightful

\* Beside a claim, the others are of its kind.
LEMMA ClaimKind ==
  ASSUME ClaimInv, NEW j \in Jobs, Claims(j)
  PROVE  job[j].void <=> Mistaken
  BY DEF ClaimInv, Mistaken, Rightful

\* One claim at a time.
LEMMA JobClaims ==
  ASSUME ClaimInv, NEW j \in Jobs, Alone(j), ClaimStep(j)
  PROVE  ClaimInv'
  <1>1. \A k \in Jobs \ {j} : /\ HoldsSync(k)' <=> HoldsSync(k)
                              /\ HoldsIndex(k)' <=> HoldsIndex(k)
                              /\ Claims(k)' <=> Claims(k)
                              /\ Rightful(k)' <=> Rightful(k)
                              /\ job'[k] = job[k]
    BY DEF Alone, HoldsSync, HoldsIndex, Claims, Rightful
  <1>2. CASE \A k \in Jobs \ {j} : ~Rightful(k)
    <2>1. Rightful(j)' => src'.state = "live" /\ \A k \in Jobs \ {j} : ~Claims(k)
      <3>1. SUFFICES ASSUME Rightful(j)' PROVE src'.state = "live" /\ \A k \in Jobs \ {j} : ~Claims(k)
        OBVIOUS
      <3>2. ~Mistaken
        BY <3>1 DEF ClaimStep, Rightful
      <3>3. \A k \in Jobs \ {j} : ~Claims(k)
        BY <1>2, <3>2 DEF Mistaken, Rightful
      <3>4. Rightful(j) \/ Free
        BY <3>1, <3>2 DEF ClaimStep, Rightful, Mistaken
      <3> QED
        BY <3>3, <3>4 DEF ClaimInv, Free, Alone
    <2>2. \A k \in Jobs : Rightful(k)' => k = j
      BY <1>1, <1>2
    <2>3. \A k \in Jobs : (HoldsSync(k)' \/ HoldsIndex(k)') /\ ~job'[k].void => k = j
      BY <2>2 DEF Rightful, Claims
    <2> QED
      BY <1>1, <2>1, <2>2, <2>3 DEF ClaimInv, ClaimStep
  <1>3. CASE ~Claims(j)' /\ src' = src
    BY <1>1, <1>3 DEF ClaimInv, ClaimStep, Claims, Rightful
  <1> QED
    BY <1>2, <1>3, FreeRow DEF ClaimStep, ClaimInv

\* What a job that goes on, or ends, looks like.
LEMMA JobFields ==
  ASSUME TypeOK, NEW j \in Jobs
  PROVE  /\ \A pc : Goto(j, pc) => /\ job'[j].pc = pc /\ job'[j].pre = job[j].pre
                                   /\ job'[j].path = job[j].path /\ job'[j].ok = job[j].ok
                                   /\ job'[j].void = job[j].void
         /\ \A pc : Claim(j, pc) => job'[j].pc = pc /\ job'[j].pre = job[j].pre /\ job'[j].void = Mistaken
         /\ Done(j) \/ job' = [job EXCEPT ![j] = NoJob] => job'[j] = NoJob
  BY Types DEF Goto, Claim, Done, JobType

\* Ways to take a step that ClaimStep allows: the job ends, or goes on with its claim,
\* or takes one on a free row.
LEMMA ClaimWays ==
  ASSUME TypeOK, ClaimInv, NEW j \in Jobs
  PROVE  /\ job'[j] = NoJob /\ (Claims(j) \/ src' = src) => ClaimStep(j)
         /\ Claims(j) /\ job'[j].void = job[j].void /\ job'[j].pc # "idle" /\ Claims(j)'
              /\ (HoldsSync(j)' => src'.sync = "syncing" \/ (HoldsSync(j) /\ src'.sync = src.sync))
              /\ (HoldsIndex(j)' => src'.index = "indexing" \/ (HoldsIndex(j) /\ src'.index = src.index))
            => ClaimStep(j)
         /\ (Claims(j) \/ Free) /\ job'[j].void = Mistaken /\ job'[j].pc # "idle" /\ Claims(j)'
              /\ (HoldsSync(j)' => src'.sync = "syncing") /\ (HoldsIndex(j)' => src'.index = "indexing")
            => ClaimStep(j)
  <1>n. NoJob.pc = "idle" /\ ~NoJob.pre /\ ~NoJob.void
    BY DEF NoJob
  <1>1. ASSUME job'[j] = NoJob, Claims(j) \/ src' = src PROVE ClaimStep(j)
    BY <1>n, <1>1 DEF ClaimStep, Claims, HoldsSync, HoldsIndex
  <1>2. ASSUME Claims(j), job'[j].void = job[j].void, job'[j].pc # "idle", Claims(j)',
               HoldsSync(j)' => src'.sync = "syncing" \/ (HoldsSync(j) /\ src'.sync = src.sync),
               HoldsIndex(j)' => src'.index = "indexing" \/ (HoldsIndex(j) /\ src'.index = src.index)
        PROVE  ClaimStep(j)
    BY <1>2, ClaimKind DEF ClaimStep, ClaimInv
  <1>3. ASSUME Claims(j) \/ Free, job'[j].void = Mistaken, job'[j].pc # "idle", Claims(j)',
               HoldsSync(j)' => src'.sync = "syncing", HoldsIndex(j)' => src'.index = "indexing"
        PROVE  ClaimStep(j)
    BY <1>3 DEF ClaimStep
  <1> QED
    BY <1>1, <1>2, <1>3

\* The requests of a client and the timer claim a free row or nothing.
LEMMA RequestClaims ==
  ASSUME TypeOK, ClaimInv, NEW i \in Inst, NEW j \in Jobs,
         \/ j = <<i, "timer">> /\ Tick(i)
         \/ j = <<i, "request">> /\ (ManualClaim(i) \/ ReindexClaim(i) \/ RequestStep(i))
  PROVE  ClaimStep(j)
  <1>0. job[j] \in JobType /\ src \in SrcType /\ job \in [Jobs -> JobType]
    BY Types
  <1>1. CASE j = <<i, "timer">> /\ Tick(i)
    <2>1. /\ job[j].pc = "idle" /\ job'[j].pc = "section" /\ job'[j].pre = job[j].pre /\ src' = src
          /\ job'[j].void = job[j].void
      BY <1>1, JobFields DEF Tick
    <2> QED
      BY <2>1 DEF ClaimStep, Claims, HoldsSync, HoldsIndex, ClaimInv
  <1>2. CASE j = <<i, "request">> /\ ManualClaim(i)
    <2>1. Free /\ job'[j].pc = "claimed" /\ job'[j].void = Mistaken /\ src'.sync = "syncing"
      BY <1>0, <1>2, JobFields DEF ManualClaim, SrcType
    <2> QED
      BY <2>1, ClaimWays DEF Claims, HoldsSync, HoldsIndex
  <1>3. CASE j = <<i, "request">> /\ ReindexClaim(i)
    <2>1. Free /\ job'[j].pc = "indexclaimed" /\ job'[j].void = Mistaken /\ src'.index = "indexing"
      BY <1>0, <1>3, JobFields DEF ReindexClaim, SrcType
    <2> QED
      BY <2>1, ClaimWays DEF Claims, HoldsSync, HoldsIndex
  <1>4. CASE j = <<i, "request">> /\ ManualCheckout(i)
    <2>1. job[j].pc = "claimed" /\ src' = src
      BY <1>4 DEF ManualCheckout
    <2>2. \/ job'[j] = NoJob
          \/ job'[j].pc = "rollback" /\ job'[j].void = job[j].void
          \/ job'[j].pc = "section" /\ job'[j].pre /\ job'[j].void = job[j].void
      <3>1. \/ Goto(j, "rollback") \/ job' = [job EXCEPT ![j] = NoJob]
            \/ job' = [job EXCEPT ![j] = [job[j] EXCEPT !.pc = "section", !.pre = TRUE]]
        BY <1>4 DEF ManualCheckout
      <3>2. job' = [job EXCEPT ![j] = [job[j] EXCEPT !.pc = "section", !.pre = TRUE]]
              => job'[j].pc = "section" /\ job'[j].pre /\ job'[j].void = job[j].void
        BY <1>0 DEF JobType
      <3> QED
        BY <3>1, <3>2, JobFields
    <2> QED
      BY <2>1, <2>2, ClaimWays DEF Claims, HoldsSync, HoldsIndex
  <1>5. CASE j = <<i, "request">> /\ ReindexCheckout(i)
    <2>1. CASE src' = src
      <3>1. /\ job[j].pc = "indexclaimed"
            /\ job'[j] = NoJob \/ (job'[j].pc = "reindexing" /\ job'[j].void = job[j].void)
        BY <1>5, JobFields DEF ReindexCheckout
      <3> QED
        BY <2>1, <3>1, ClaimWays DEF Claims, HoldsSync, HoldsIndex
    <2>2. CASE src' # src
      <3>1. job[j].pc = "indexclaimed" /\ job'[j] = NoJob
        BY <1>5, <2>2, JobFields DEF ReindexCheckout
      <3> QED
        BY <3>1, ClaimWays DEF Claims, HoldsSync, HoldsIndex
    <2> QED
      BY <2>1, <2>2
  <1> QED
    BY <1>1, <1>2, <1>3, <1>4, <1>5 DEF RequestStep

\* So do the sections and the writes of a job.
LEMMA WriteClaims ==
  ASSUME TypeOK, ClaimInv, NEW j \in Jobs,
         JobStep(j) \/ Refuse(j) \/ TerminalFails(j) \/ Abandon(j)
  PROVE  ClaimStep(j)
  <1> USE DEF Claims, HoldsSync, HoldsIndex
  <1>0. job[j] \in JobType /\ src \in SrcType /\ job \in [Jobs -> JobType]
    BY Types
  <1>1. CASE Section(j)
    <2>1. CASE ~MayClaim(j)
      <3>1. job'[j] = NoJob /\ src' = src
        BY <1>1, <2>1, JobFields DEF Section
      <3> QED
        BY <3>1, ClaimWays
    <2>2. CASE MayClaim(j) /\ findSharedCheckoutScmWorkload
      <3>1. job'[j] = NoJob /\ (Claims(j) \/ Free)
        BY <1>1, <2>2, JobFields DEF Section, MayClaim
      <3>2. NoJob.pc = "idle" /\ ~NoJob.pre /\ ~NoJob.void
        BY DEF NoJob
      <3> QED
        BY <3>1, <3>2 DEF ClaimStep
    <2>3. CASE MayClaim(j) /\ ~findSharedCheckoutScmWorkload
      <3>1. job'[j].pc = "working" /\ job'[j].void = Mistaken /\ src'.sync = "syncing"
        BY <1>0, <1>1, <2>3 DEF Section, JobType, SrcType
      <3>2. Claims(j) \/ Free
        BY <1>1, <2>3 DEF Section, MayClaim
      <3> QED
        BY <3>1, <3>2, ClaimWays
    <2> QED
      BY <2>1, <2>2, <2>3
  <1>2. CASE SyncEnds(j)
    <2>1. /\ job[j].pc = "working" /\ job'[j].pc = "terminal" /\ src' = src
          /\ job'[j].void = job[j].void
      BY <1>0, <1>2 DEF SyncEnds, JobType
    <2> QED
      BY <2>1, ClaimWays
  <1>3. CASE Terminal(j)
    <2>1. CASE handsOffToCodegraph(j)
      <3>1. /\ job[j].pc = "terminal" /\ job'[j].pc = "indexing" /\ job'[j].void = job[j].void
            /\ src'.sync = "syncing"
        BY <1>0, <1>3, <2>1, JobFields DEF Terminal, SrcType
      <3> QED
        BY <3>1, ClaimWays
    <2>2. CASE ~handsOffToCodegraph(j)
      <3>1. job[j].pc = "terminal" /\ job'[j] = NoJob
        BY <1>3, <2>2, JobFields DEF Terminal
      <3> QED
        BY <3>1, ClaimWays
    <2> QED
      BY <2>1, <2>2
  <1>4. CASE Reset(j) \/ Unclaim(j) \/ Rollback(j)
    <2>1. job'[j] = NoJob /\ Claims(j)
      BY <1>4, JobFields DEF Reset, Unclaim, Rollback
    <2> QED
      BY <2>1, ClaimWays
  <1>5. CASE IndexEnds(j)
    <2>1. CASE job[j].pc = "indexing"
      <3>1. job'[j].pc = "unclaim" /\ job'[j].void = job[j].void /\ src'.sync = src.sync
        BY <1>0, <1>5, <2>1, JobFields DEF IndexEnds, SrcType
      <3> QED
        BY <2>1, <3>1, ClaimWays
    <2>2. CASE job[j].pc = "reindexing"
      <3>1. job'[j] = NoJob
        BY <1>5, <2>2, JobFields DEF IndexEnds
      <3> QED
        BY <2>2, <3>1, ClaimWays
    <2> QED
      BY <1>5, <2>1, <2>2 DEF IndexEnds
  <1>6. CASE Refuse(j)
    <2>1. job'[j].pc = "refused" /\ job'[j].void = Mistaken /\ src'.sync = "syncing"
      BY <1>0, <1>6, JobFields DEF Refuse, SrcType
    <2>2. Claims(j) \/ Free
      BY <1>6 DEF Refuse, MayClaim
    <2> QED
      BY <2>1, <2>2, ClaimWays
  <1>7. CASE TerminalFails(j)
    <2>1. /\ job[j].pc = "terminal" /\ job'[j].pc = "reset" /\ src' = src
          /\ job'[j].void = job[j].void
      BY <1>7, JobFields DEF TerminalFails
    <2> QED
      BY <2>1, ClaimWays
  <1>8. CASE Abandon(j)
    <2>1. /\ src' = src
          /\ \/ job'[j] = NoJob
             \/ job[j].pc = "indexing" /\ job'[j].pc = "unclaim" /\ job'[j].void = job[j].void
      BY <1>8, JobFields DEF Abandon
    <2> QED
      BY <2>1, ClaimWays
  <1> QED
    BY <1>1, <1>2, <1>3, <1>4, <1>5, <1>6, <1>7, <1>8 DEF JobStep

\* A sync begins with the path of the row where nobody is in the checkout, and the stamp
\* is about the path of the job that writes it.
SyncStep(j) ==
    /\ job'[j].pc = "working" =>
          /\ job[j].pc = "section" /\ MayClaim(j) /\ src.state = "live" /\ ~findSharedCheckoutScmWorkload
          /\ job'[j].path = src.path
    /\ job'[j].pc = "terminal" =>
          job[j].pc = "working" /\ job'[j].path = job[j].path /\ job'[j].void = job[j].void
    /\ \/ src'.ready = src.ready /\ UNCHANGED <<stamp, parted>>
       \/ job[j].pc = "terminal" /\ Stamped(j) /\ src'.ready = (src.ready \/ job[j].ok)

LEMMA JobSyncs ==
  ASSUME TypeOK, NEW j \in Jobs, JobAct(j)
  PROVE  SyncStep(j)
  <1>0. job[j] \in JobType /\ src \in SrcType /\ job \in [Jobs -> JobType]
    BY Types
  <1>1. \/ src'.ready = src.ready /\ UNCHANGED <<stamp, parted>>
        \/ job[j].pc = "terminal" /\ Stamped(j) /\ src'.ready = (src.ready \/ job[j].ok)
    <2>1. CASE Terminal(j)
      BY <1>0, <2>1 DEF Terminal, SrcType, JobType
    <2>2. CASE ~Terminal(j)
      <3>1. /\ UNCHANGED <<stamp, parted>>
            /\ \/ UNCHANGED src \/ \E st : src' = [src EXCEPT !.sync = st]
               \/ \E st : src' = [src EXCEPT !.index = st]
        BY <2>2
        DEF JobAct, Tick, ManualClaim, ReindexClaim, RequestStep, ManualCheckout, ReindexCheckout, JobStep,
            Section, SyncEnds, Reset, IndexEnds, Unclaim, Rollback, Refuse, TerminalFails, Abandon, marks
      <3> QED
        BY <1>0, <3>1 DEF SrcType
    <2> QED
      BY <2>1, <2>2
  <1>2. CASE Section(j)
    <2>1. CASE Done(j)
      BY <1>1, <2>1, JobFields DEF SyncStep, NoJob
    <2>2. CASE ~Done(j)
      <3>1. /\ job[j].pc = "section" /\ MayClaim(j) /\ src.state = "live" /\ ~findSharedCheckoutScmWorkload
            /\ job' = [job EXCEPT ![j].pc = "working", ![j].path = src.path, ![j].void = Mistaken]
        BY <1>2, <2>2 DEF Section
      <3>2. job'[j].pc = "working" /\ job'[j].path = src.path
        BY <1>0, <3>1 DEF JobType
      <3> QED
        BY <1>1, <3>1, <3>2 DEF SyncStep
    <2> QED
      BY <2>1, <2>2
  <1>3. CASE SyncEnds(j)
    <2>1. PICK ok \in BOOLEAN : job' = [job EXCEPT ![j].pc = "terminal", ![j].ok = ok]
      BY <1>3 DEF SyncEnds
    <2>2. /\ job'[j].pc = "terminal" /\ job[j].pc = "working"
          /\ job'[j].path = job[j].path /\ job'[j].void = job[j].void
      BY <1>0, <1>3, <2>1 DEF JobType, SyncEnds
    <2> QED
      BY <1>1, <2>2 DEF SyncStep
  <1>4. CASE ~Section(j) /\ ~SyncEnds(j)
    <2>1. \/ Done(j) \/ job' = [job EXCEPT ![j] = NoJob]
          \/ \E pc \in {"section", "claimed", "indexclaimed", "rollback", "reindexing", "indexing", "unclaim",
                        "refused", "reset"} : Goto(j, pc) \/ Claim(j, pc)
          \/ job' = [job EXCEPT ![j] = [job[j] EXCEPT !.pc = "section", !.pre = TRUE]]
      <3>1. ASSUME NEW i \in Inst, j = <<i, "timer">>, Tick(i) PROVE Goto(j, "section")
        BY <3>1 DEF Tick
      <3>2. ASSUME NEW i \in Inst, j = <<i, "request">>, ManualClaim(i) \/ ReindexClaim(i)
            PROVE  Claim(j, "claimed") \/ Claim(j, "indexclaimed")
        BY <3>2 DEF ManualClaim, ReindexClaim
      <3>3. ASSUME NEW i \in Inst, j = <<i, "request">>, ManualCheckout(i)
            PROVE  \/ Goto(j, "rollback") \/ job' = [job EXCEPT ![j] = NoJob]
                   \/ job' = [job EXCEPT ![j] = [job[j] EXCEPT !.pc = "section", !.pre = TRUE]]
        BY <3>3 DEF ManualCheckout
      <3>4. ASSUME NEW i \in Inst, j = <<i, "request">>, ReindexCheckout(i)
            PROVE  Goto(j, "reindexing") \/ job' = [job EXCEPT ![j] = NoJob]
        BY <3>4 DEF ReindexCheckout
      <3>5. CASE JobStep(j) \/ Refuse(j) \/ TerminalFails(j) \/ Abandon(j)
        BY <1>4, <3>5 DEF JobStep, Terminal, Reset, IndexEnds, Unclaim, Rollback, Refuse, TerminalFails, Abandon
      <3> QED
        BY <3>1, <3>2, <3>3, <3>4, <3>5 DEF JobAct, RequestStep
    <2>2. job'[j].pc \notin {"working", "terminal"}
      <3>1. job' = [job EXCEPT ![j] = [job[j] EXCEPT !.pc = "section", !.pre = TRUE]]
              => job'[j].pc = "section"
        BY <1>0 DEF JobType
      <3> QED
        BY <2>1, <3>1, JobFields DEF NoJob
    <2> QED
      BY <1>1, <2>2 DEF SyncStep
  <1> QED
    BY <1>2, <1>3, <1>4

\* The stamp stays about the path of the row.
LEMMA JobStamps ==
  ASSUME ClaimInv, StampInv, NEW j \in Jobs, Alone(j), SyncStep(j)
  PROVE  StampInv'
  <1>0. \A k \in Jobs : job[k].pc \in {"working", "terminal"} => Claims(k)
    BY DEF Claims, HoldsSync
  <1>1. CASE src'.ready = src.ready /\ UNCHANGED <<stamp, parted>>
    BY <1>1 DEF StampInv, StampIsCurrent, Alone, SyncStep
  <1>2. CASE job[j].pc = "terminal" /\ Stamped(j) /\ src'.ready = (src.ready \/ job[j].ok)
    <2>1. \A k \in Jobs \ {j} : job'[k].pc \in {"working", "terminal"} => job'[k].void
      BY <1>0, <1>2 DEF Alone, ClaimInv, Rightful
    <2>2. job'[j].pc \notin {"working", "terminal"}
      BY <1>2 DEF SyncStep
    <2>3. StampIsCurrent'
      <3>1. CASE job[j].ok
        <4>1. stamp' = job[j].path /\ (parted' <=> job[j].path # src.path /\ (parted \/ job[j].void))
          BY <1>2, <3>1, Zenon DEF Stamped
        <4>2. job[j].void \/ job[j].path = src.path \/ parted
          BY <1>2 DEF StampInv
        <4> QED
          BY <4>1, <4>2 DEF StampIsCurrent, Alone
      <3>2. CASE ~job[j].ok
        BY <1>2, <3>2 DEF Stamped, StampInv, StampIsCurrent, Alone
      <3> QED
        BY <3>1, <3>2
    <2> QED
      BY <2>1, <2>2, <2>3 DEF StampInv
  <1> QED
    BY <1>1, <1>2 DEF SyncStep

-----------------------------------------------------------------------------
(* The other steps.                                                        *)

\* What a step of workload w leaves alone.
WorkAlone(w) ==
    /\ UNCHANGED <<site, src, bound, job, busy, recl, phase, recov, seen, fails, stops, stamp, parted>>
    /\ work' \in [Works -> WorkType] /\ \A v \in Works \ {w} : work'[v] = work[v]
    /\ work[w].pc = "idle" => bound
    /\ InProcess(w)'

\* Where a workload goes.
LEMMA WorkMoves ==
  ASSUME TypeOK, NEW w \in Works, InProcess(w), Admit(w) \/ WorkStep(w)
  PROVE  WorkAlone(w)
  <1>0. work \in [Works -> WorkType] /\ work[w] \in WorkType /\ site \in Sites
    BY Types
  <1>1. UNCHANGED <<site, src, bound, job, busy, recl, phase, recov, seen, fails, stops, stamp, parted>>
    BY DEF Admit, WorkStep, Activate, Resolve, Finish, Release, procs, marks
  <1>2. work[w].pc = "idle" => bound
    BY DEF Admit, WorkStep, Activate, Resolve, Finish, Release
  <1>3. CASE \E q \in WorkType : /\ work' = [work EXCEPT ![w] = q]
                                 /\ q.at # None => q.pc \in {"resolving", "tree", "shared"}
    BY <1>0, <1>1, <1>2, <1>3 DEF WorkAlone, InProcess
  <1>4. CASE Admit(w) \/ Finish(w) \/ Release(w)
    <2>1. /\ [work[w] EXCEPT !.pc = "queued"] \in WorkType
          /\ [work[w] EXCEPT !.pc = "ended", !.at = None] \in WorkType
          /\ [work[w] EXCEPT !.pc = "idle"] \in WorkType
          /\ \A pc : [work[w] EXCEPT !.pc = pc].at = work[w].at
          /\ [work[w] EXCEPT !.pc = "ended", !.at = None].at = None
      BY <1>0 DEF WorkType
    <2>a. Admit(w) \/ Release(w) => work[w].at = None
      BY DEF Admit, Release, InProcess
    <2>2. \/ Admit(w) /\ work' = [work EXCEPT ![w] = [work[w] EXCEPT !.pc = "queued"]]
          \/ work' = [work EXCEPT ![w] = [work[w] EXCEPT !.pc = "ended", !.at = None]]
          \/ Release(w) /\ work' = [work EXCEPT ![w] = [work[w] EXCEPT !.pc = "idle"]]
      BY <1>0, <1>4 DEF Admit, Finish, Release
    <2> QED
      BY <1>3, <2>1, <2>2, <2>a
  <1>5. ASSUME NEW i \in Inst, Activate(w, i)
        PROVE  WorkAlone(w)
    <2>1. /\ [work[w] EXCEPT !.pc = "idle"] \in WorkType
          /\ [work[w] EXCEPT !.pc = "resolving", !.at = i] \in WorkType
          /\ [work[w] EXCEPT !.pc = "idle"].at = work[w].at
          /\ [work[w] EXCEPT !.pc = "resolving", !.at = i].pc = "resolving"
      BY <1>0 DEF WorkType
    <2>a. work[w].at = None
      BY <1>5 DEF Activate, InProcess
    <2>2. \/ work' = [work EXCEPT ![w] = [work[w] EXCEPT !.pc = "idle"]]
          \/ work' = [work EXCEPT ![w] = [work[w] EXCEPT !.pc = "resolving", !.at = i]]
      BY <1>5 DEF Activate
    <2> QED
      BY <1>3, <2>1, <2>2, <2>a
  <1>6. CASE Resolve(w)
    <2>1. /\ \A d \in BOOLEAN : [work[w] EXCEPT !.pc = "tree", !.dir = d] \in WorkType
          /\ \A d : [work[w] EXCEPT !.pc = "tree", !.dir = d].pc = "tree"
          /\ [work[w] EXCEPT !.pc = "shared"] \in WorkType
          /\ [work[w] EXCEPT !.pc = "shared"].pc = "shared"
          /\ [work[w] EXCEPT !.pc = "ended", !.at = None] \in WorkType
          /\ [work[w] EXCEPT !.pc = "ended", !.at = None].at = None
      BY <1>0 DEF WorkType
    <2>2. \/ work' = [work EXCEPT ![w] = [work[w] EXCEPT !.pc = "tree", !.dir = (site.kind = "run")]]
          \/ work' = [work EXCEPT ![w] = [work[w] EXCEPT !.pc = "shared"]]
          \/ work' = [work EXCEPT ![w] = [work[w] EXCEPT !.pc = "ended", !.at = None]]
      BY <1>0, <1>6 DEF Resolve
    <2> QED
      BY <1>3, <2>1, <2>2
  <1> QED
    BY <1>4, <1>5, <1>6 DEF WorkStep

\* A workload is admitted only for an Agent that is bound to the source.
LEMMA WorkBase ==
  ASSUME BaseInv, NEW w \in Works, WorkAlone(w)
  PROVE  BaseInv'
  <1>1. TypeOK'
    BY Types DEF BaseInv, WorkAlone, TypeOK, WorkType
  <1>2. LifeInv'
    BY DEF BaseInv, LifeInv, Quiet, InProcess, WorkAlone
  <1>3. DeleteInv'
    BY DEF BaseInv, DeleteInv, Leased, WorkAlone
  <1> QED
    BY <1>1, <1>2, <1>3 DEF BaseInv

\* PATCH, DELETE, the binding and the end of a deletion.
RouteStep ==
    \/ Bind \/ Unbind
    \/ \E i \in Inst : Patch(i) \/ Delete(i) \/ Reclaim(i)

LEMMA RouteBase ==
  ASSUME BaseInv, RouteStep
  PROVE  BaseInv'
  <1>0. /\ TypeOK /\ LifeInv /\ DeleteInv /\ src \in SrcType /\ fails \in FailType
        /\ recl \in [Inst -> {"none", "isolate", "finalize"}]
        /\ phase \in [Inst -> {"up", "fenced", "down"}] /\ seen \in [Inst -> SUBSET Paths]
        /\ stamp \in Paths \cup {None} /\ parted \in BOOLEAN
    BY Types DEF BaseInv
  <1>1. /\ UNCHANGED <<site, work, job, busy, phase, recov, stops>>
        /\ UNCHANGED <<seen, stamp, parted>> \/ \E i \in Inst : Patch(i)
    BY DEF RouteStep, Bind, Unbind, Patch, Delete, Reclaim, Isolate, Finalize, procs, marks
  <1>2. ASSUME src' \in SrcType, bound' \in BOOLEAN, recl' \in [Inst -> {"none", "isolate", "finalize"}],
               fails' \in FailType, DeleteInv', seen' \in [Inst -> SUBSET Paths],
               stamp' \in Paths \cup {None}, parted' \in BOOLEAN,
               \A i \in Inst : recl'[i] # "none" => recl[i] # "none" \/ Serving(i)
        PROVE  BaseInv'
    <2>1. TypeOK'
      BY <1>0, <1>1, <1>2 DEF TypeOK, SrcType, FailType
    <2>2. LifeInv'
      <3>1. ASSUME NEW i \in Inst, phase'[i] = "down" PROVE Quiet(i)'
        <4>1. Quiet(i) /\ ~Serving(i)
          BY <1>0, <1>1, <3>1 DEF LifeInv, Serving
        <4> QED
          BY <1>1, <1>2, <4>1 DEF Quiet
      <3> QED
        BY <1>0, <1>1, <3>1 DEF LifeInv, InProcess
    <2> QED
      BY <1>2, <2>1, <2>2 DEF BaseInv
  <1>3. CASE Bind \/ Unbind
    <2>1. DeleteInv' /\ bound' \in BOOLEAN
      BY <1>0, <1>3 DEF Bind, Unbind, DeleteInv, Leased
    <2> QED
      BY <1>0, <1>2, <1>3, <2>1 DEF Bind, Unbind, procs, marks
  <1>4. ASSUME NEW i \in Inst, Patch(i) PROVE BaseInv'
    <2>0. PICK p \in Paths : PatchResets(i, p) \/ PatchKeeps(p)
      BY <1>4 DEF Patch
    <2>1. src' \in SrcType /\ src'.state = src.state
      BY <1>0, <2>0 DEF PatchResets, PatchKeeps, SrcType
    <2>2. DeleteInv'
      BY <1>0, <1>4, <2>1 DEF Patch, DeleteInv, Leased
    <2>3. seen' \in [Inst -> SUBSET Paths]
      <3>1. seen' = [k \in Inst |-> IF phase[k] = "down" THEN {} ELSE seen[k] \cup {p}]
        BY <2>0 DEF PatchResets, PatchKeeps, Repoint
      <3>2. \A k \in Inst : (IF phase[k] = "down" THEN {} ELSE seen[k] \cup {p}) \in SUBSET Paths
        BY <1>0
      <3> QED
        BY <3>1, <3>2
    <2>4. parted' \in BOOLEAN
      BY <1>0, <2>0, Zenon DEF PatchResets, PatchKeeps
    <2>5. stamp' \in Paths \cup {None}
      BY <1>0, <2>0 DEF PatchResets, PatchKeeps
    <2>6. UNCHANGED <<bound, recl, fails>>
      BY <1>4 DEF Patch
    <2>7. bound' \in BOOLEAN
      BY <1>0, <2>6, Types
    <2> QED
      BY <1>0, <1>2, <2>1, <2>2, <2>3, <2>4, <2>5, <2>6, <2>7
  <1>5. ASSUME NEW i \in Inst, Delete(i) PROVE BaseInv'
    <2>1. src' \in SrcType /\ src'.state = "deleting"
      BY <1>0, <1>5 DEF Delete, SrcType
    <2>2. recl' = [recl EXCEPT ![i] = "isolate"] /\ Serving(i)
      BY <1>5 DEF Delete
    <2>3. DeleteInv'
      BY <1>0, <1>5, <2>1 DEF Delete, DeleteInv, Leased
    <2> QED
      BY <1>0, <1>2, <1>5, <2>1, <2>2, <2>3, Types DEF Delete, procs, marks
  <1>6. ASSUME NEW i \in Inst, Isolate(i) PROVE BaseInv'
    <2>1. fails' \in FailType
      BY <1>0, <1>6, FailCounts DEF Isolate
    <2>2. /\ recl' \in [Inst -> {"none", "isolate", "finalize"}]
          /\ \A k \in Inst : recl'[k] # "none" => recl[k] # "none"
      BY <1>0, <1>6 DEF Isolate
    <2>3. DeleteInv'
      BY <1>0, <1>6, <2>2 DEF Isolate, DeleteInv, Leased
    <2> QED
      BY <1>0, <1>2, <1>6, <2>1, <2>2, <2>3, Types DEF Isolate, procs, marks
  <1>7. ASSUME NEW i \in Inst, Finalize(i) PROVE BaseInv'
    <2>1. src' \in SrcType /\ src'.state = "deleted" /\ src.state # "live"
      BY <1>0, <1>7 DEF Finalize, SrcType, DeleteInv
    <2>2. /\ recl' \in [Inst -> {"none", "isolate", "finalize"}]
          /\ \A k \in Inst : recl'[k] # "none" => recl[k] # "none"
      BY <1>0, <1>7 DEF Finalize
    <2>3. DeleteInv'
      BY <1>0, <1>7, <2>1, <2>2 DEF Finalize, DeleteInv, Leased
    <2> QED
      BY <1>0, <1>2, <1>7, <2>1, <2>2, <2>3, Types DEF Finalize, procs, marks
  <1> QED
    BY <1>3, <1>4, <1>5, <1>6, <1>7 DEF RouteStep, Reclaim

ProcessStep(i) == Recover(i) \/ Crash(i) \/ Fence(i) \/ Exit(i) \/ Boot(i)

\* The end of a process ends what it did and nothing else.
LEMMA DownAlone ==
  ASSUME TypeOK, NEW i \in Inst, Down(i)
  PROVE  /\ phase' = [phase EXCEPT ![i] = "down"] /\ recov' = [recov EXCEPT ![i] = "none"]
         /\ busy' = [busy EXCEPT ![i] = None] /\ recl' = [recl EXCEPT ![i] = "none"]
         /\ seen' = [seen EXCEPT ![i] = {}]
         /\ UNCHANGED <<site, src, bound, fails, stamp, parted>>
         /\ job' \in [Jobs -> JobType]
         /\ \A j \in Jobs : IF j[1] = i THEN job'[j] = NoJob ELSE job'[j] = job[j]
         /\ work' \in [Works -> WorkType]
         /\ \A w \in Works : /\ work'[w].dir = work[w].dir
                             /\ work'[w].pc = work[w].pc \/ (work'[w].pc = "ended" /\ work[w].at = i)
                             /\ work'[w].at = None \/ work'[w] = work[w]
  <1>0. job \in [Jobs -> JobType] /\ work \in [Works -> WorkType]
    BY Types
  <1>1. job' \in [Jobs -> JobType] /\ \A j \in Jobs : IF j[1] = i THEN job'[j] = NoJob ELSE job'[j] = job[j]
    BY <1>0, Fresh DEF Down
  <1>2. ASSUME NEW w \in Works
        PROVE  /\ work'[w] \in WorkType /\ work'[w].dir = work[w].dir
               /\ work'[w].pc = work[w].pc \/ (work'[w].pc = "ended" /\ work[w].at = i)
               /\ work'[w].at = None \/ work'[w] = work[w]
    <2>1. work'[w] = IF work[w].at = i THEN [work[w] EXCEPT !.pc = "ended", !.at = None] ELSE work[w]
      BY DEF Down
    <2> QED
      BY <1>0, <2>1 DEF WorkType
  <1>3. work' \in [Works -> WorkType]
    <2>1. work' = [w \in Works |-> IF work[w].at = i THEN [work[w] EXCEPT !.pc = "ended", !.at = None]
                                                    ELSE work[w]]
      BY DEF Down
    <2>2. ASSUME NEW w \in Works
          PROVE  (IF work[w].at = i THEN [work[w] EXCEPT !.pc = "ended", !.at = None] ELSE work[w]) \in WorkType
      BY <1>0, <2>2 DEF WorkType
    <2> QED
      BY <2>1, <2>2
  <1> QED
    BY <1>1, <1>2, <1>3 DEF Down, marks

\* The end of a process.
LEMMA DownBase ==
  ASSUME BaseInv, NEW i \in Inst, Down(i), stops' \in 0 .. MaxFaults
  PROVE  BaseInv'
  <1>0. /\ TypeOK /\ LifeInv /\ DeleteInv
        /\ busy \in [Inst -> Jobs \cup {None}] /\ recl \in [Inst -> {"none", "isolate", "finalize"}]
        /\ phase \in [Inst -> {"up", "fenced", "down"}]
        /\ recov \in [Inst -> {"none", "list", "reset", "resume"}]
    BY Types DEF BaseInv
  <1>1. /\ phase' = [phase EXCEPT ![i] = "down"] /\ recov' = [recov EXCEPT ![i] = "none"]
        /\ busy' = [busy EXCEPT ![i] = None] /\ recl' = [recl EXCEPT ![i] = "none"]
        /\ seen' = [seen EXCEPT ![i] = {}]
        /\ UNCHANGED <<site, src, bound, fails, stamp, parted>>
        /\ \A j \in Jobs : IF j[1] = i THEN job'[j] = NoJob ELSE job'[j] = job[j]
    BY <1>0, DownAlone
  <1>2. \A k \in Inst \ {i} : /\ phase'[k] = phase[k] /\ recov'[k] = recov[k] /\ busy'[k] = busy[k]
                              /\ recl'[k] = recl[k]
    BY <1>0, <1>1
  <1>3. phase'[i] = "down" /\ recov'[i] = "none" /\ busy'[i] = None /\ recl'[i] = "none"
    BY <1>0, <1>1
  <1>4. TypeOK'
    <2>1. ASSUME NEW k \in Inst, phase'[k] = "up" PROVE busy'[k] = None \/ job'[busy'[k]].pc \in Holding
      <3>1. k # i /\ phase[k] = "up" /\ busy'[k] = busy[k]
        BY <1>2, <1>3, <2>1
      <3>2. busy[k] # None => busy[k] \in Jobs /\ busy[k][1] = k
        BY <1>0 DEF LifeInv
      <3> QED
        BY <1>0, <1>1, <3>1, <3>2, Types
    <2>2. job' \in [Jobs -> JobType] /\ work' \in [Works -> WorkType]
      BY <1>0, DownAlone
    <2>3. seen' \in [Inst -> SUBSET Paths]
      BY <1>0, <1>1, Types
    <2> QED
      BY <1>0, <1>1, <2>1, <2>2, <2>3, Types DEF TypeOK, JobType, WorkType
  <1>5. LifeInv'
    <2>1. ASSUME NEW k \in Inst, phase'[k] = "down" PROVE Quiet(k)'
      <3>1. CASE k = i
        BY <1>1, <1>3, <3>1, Fresh DEF Quiet
      <3>2. CASE k # i
        <4>1. Quiet(k)
          BY <1>0, <1>2, <2>1, <3>2 DEF LifeInv
        <4> QED
          BY <1>1, <1>2, <3>2, <4>1 DEF Quiet
      <3> QED
        BY <3>1, <3>2
    <2>2. \A w \in Works : InProcess(w)'
      BY <1>0, DownAlone DEF LifeInv, InProcess
    <2>3. \A k \in Inst : /\ recov'[k] # "none" => phase'[k] # "down"
                          /\ recov'[k] = "reset" => site.sqlite
                          /\ busy'[k] # None => busy'[k][1] = k
                          /\ phase'[k] # "down" => k # i /\ phase[k] # "down"
      BY <1>0, <1>2, <1>3 DEF LifeInv
    <2> QED
      BY <1>0, <1>1, <2>1, <2>2, <2>3 DEF LifeInv
  <1>6. DeleteInv'
    <2>1. Leased = {} => Leased' = {}
      BY <1>0, DownAlone, ConstantsOK DEF Leased, LifeInv, InProcess
    <2> QED
      BY <1>0, <1>1, <1>2, <1>3, <2>1 DEF DeleteInv
  <1> QED
    BY <1>4, <1>5, <1>6 DEF BaseInv

\* The reset at startup takes the claims of every job, and leaves the jobs running.
LEMMA VoidAlone ==
  ASSUME job \in [Jobs -> JobType], NEW i \in Inst, RecoverReset(i)
  PROVE  /\ job' \in [Jobs -> JobType]
         /\ \A j \in Jobs : /\ job'[j].pc = job[j].pc /\ job'[j].pre = job[j].pre
                            /\ job'[j].path = job[j].path /\ job'[j].ok = job[j].ok
                            /\ job'[j].void <=> job[j].void \/ Claims(j)
  <1>1. job' = [j \in Jobs |-> [job[j] EXCEPT !.void = job[j].void \/ Claims(j)]]
    BY DEF RecoverReset
  <1>2. \A j \in Jobs : (job[j].void \/ Claims(j)) \in BOOLEAN
    BY Zenon
  <1>3. \A j \in Jobs : [job[j] EXCEPT !.void = job[j].void \/ Claims(j)] \in JobType
    BY <1>2 DEF JobType
  <1> QED
    BY <1>1, <1>2, <1>3 DEF JobType

\* Startup, fences and stops.
LEMMA ProcessBase ==
  ASSUME BaseInv, NEW i \in Inst, ProcessStep(i)
  PROVE  BaseInv'
  <1>0. /\ TypeOK /\ LifeInv /\ DeleteInv /\ src \in SrcType /\ stops \in 0 .. MaxFaults
        /\ recl \in [Inst -> {"none", "isolate", "finalize"}]
        /\ phase \in [Inst -> {"up", "fenced", "down"}]
        /\ recov \in [Inst -> {"none", "list", "reset", "resume"}]
        /\ seen \in [Inst -> SUBSET Paths] /\ fails \in FailType /\ job \in [Jobs -> JobType]
    BY Types DEF BaseInv
  <1>s. Stop => stops' \in 0 .. MaxFaults
    BY <1>0, ConstantsOK DEF Stop, faults, FailType
  <1>1. CASE Crash(i) \/ Exit(i)
    BY <1>0, <1>s, <1>1, DownBase DEF Crash, Exit
  <1>2. CASE Fence(i)
    <2>1. phase[i] = "up" /\ phase'[i] = "fenced" /\ \A k \in Inst \ {i} : phase'[k] = phase[k]
      BY <1>0, <1>2 DEF Fence
    <2>2. TypeOK'
      BY <1>0, <1>s, <1>2, <2>1, Types DEF Fence, TypeOK, marks
    <2>3. LifeInv'
      <3>1. UNCHANGED <<site, src, work, job, busy, recl, recov>>
        BY <1>2 DEF Fence
      <3>2. ASSUME NEW k \in Inst, phase'[k] = "down" PROVE Quiet(k)'
        <4>1. Quiet(k)
          BY <1>0, <2>1, <3>1, <3>2 DEF LifeInv
        <4> QED
          BY <3>1, <4>1 DEF Quiet
      <3> QED
        BY <1>0, <2>1, <3>1, <3>2 DEF LifeInv, InProcess
    <2>4. DeleteInv'
      BY <1>0, <1>2 DEF Fence, DeleteInv, Leased
    <2> QED
      BY <2>2, <2>3, <2>4 DEF BaseInv
  <1>3. CASE Boot(i)
    <2>0. /\ UNCHANGED <<site, src, bound, work, job, busy, recl, fails, stops, stamp, parted>>
          /\ seen' \in [Inst -> SUBSET Paths]
      BY <1>0, <1>3 DEF Boot, marks, SrcType
    <2>1. /\ phase[i] = "down" /\ phase'[i] = "up" /\ recov'[i] = "list"
          /\ \A k \in Inst \ {i} : phase'[k] = phase[k] /\ recov'[k] = recov[k]
          /\ site.sqlite => \A k \in Inst : phase[k] = "down"
      BY <1>0, <1>3 DEF Boot
    <2>2. Quiet(i)
      BY <1>0, <2>1 DEF LifeInv
    <2>3. TypeOK'
      BY <1>0, <1>3, <2>0, <2>1, <2>2, Types DEF Boot, TypeOK, Quiet
    <2>4. LifeInv'
      <3>1. ASSUME NEW k \in Inst, phase'[k] = "down" PROVE Quiet(k)'
        <4>1. Quiet(k)
          BY <1>0, <2>1, <2>2, <3>1 DEF LifeInv
        <4> QED
          BY <2>0, <4>1 DEF Quiet
      <3> QED
        BY <1>0, <2>0, <2>1, <3>1 DEF LifeInv, InProcess
    <2>5. DeleteInv'
      BY <1>0, <2>0 DEF DeleteInv, Leased
    <2> QED
      BY <2>3, <2>4, <2>5 DEF BaseInv
  <1>4. CASE RecoverList(i) \/ RecoverReset(i) \/ RecoverDeletion(i)
    <2>0. UNCHANGED <<site, bound, work, busy, phase, seen, fails, stops, stamp, parted>>
      BY <1>4 DEF RecoverList, RecoverReset, RecoverDeletion, marks
    <2>j. job' \in [Jobs -> JobType] /\ \A k \in Jobs : job'[k].pc = job[k].pc
      BY <1>0, <1>4, VoidAlone DEF RecoverList, RecoverReset, RecoverDeletion
    <2>1. /\ recov[i] # "none" /\ \A k \in Inst \ {i} : recov'[k] = recov[k]
          /\ recov' \in [Inst -> {"none", "list", "reset", "resume"}]
          /\ recov'[i] = "reset" => site.sqlite
      BY <1>0, <1>4 DEF RecoverList, RecoverReset, RecoverDeletion
    <2>2. /\ src' \in SrcType /\ src'.state = src.state
      BY <1>0, <1>4 DEF RecoverList, RecoverReset, RecoverDeletion, SrcType
    <2>3. /\ recl' \in [Inst -> {"none", "isolate", "finalize"}]
          /\ \A k \in Inst : recl'[k] = recl[k] \/ (k = i /\ src.state = "deleting")
      BY <1>0, <1>4 DEF RecoverList, RecoverReset, RecoverDeletion
    <2>4. TypeOK'
      <3>1. \A k \in Inst : phase'[k] = "up" => busy'[k] = None \/ job'[busy'[k]].pc \in Holding
        <4>1. \A k \in Inst : busy[k] \in Jobs \cup {None}
          BY <1>0, Types
        <4> QED
          BY <1>0, <2>0, <2>j, <4>1, Types
      <3> QED
        BY <1>0, <2>0, <2>j, <2>1, <2>2, <2>3, <3>1, Types DEF TypeOK, SrcType, JobType
    <2>5. LifeInv'
      <3>1. ASSUME NEW k \in Inst, phase'[k] = "down" PROVE Quiet(k)'
        <4>2. phase[i] # "down"
          BY <1>0, <2>1 DEF LifeInv
        <4>3. Quiet(k) /\ recl'[k] = recl[k]
          BY <1>0, <2>0, <2>3, <3>1, <4>2 DEF LifeInv
        <4> QED
          BY <2>0, <2>j, <4>3 DEF Quiet
      <3> QED
        BY <1>0, <2>0, <2>1, <3>1 DEF LifeInv, InProcess
    <2>6. DeleteInv'
      BY <1>0, <2>0, <2>2, <2>3 DEF DeleteInv, Leased
    <2> QED
      BY <2>4, <2>5, <2>6 DEF BaseInv
  <1> QED
    BY <1>1, <1>2, <1>3, <1>4 DEF ProcessStep, Recover
-----------------------------------------------------------------------------
(* Every step, and the types.                                              *)

\* The steps of Next by who takes them.
LEMMA NextSteps ==
  ASSUME Next
  PROVE  \/ \E j \in Jobs : JobAct(j)
         \/ \E w \in Works : Admit(w) \/ WorkStep(w)
         \/ RouteStep
         \/ \E i \in Inst : ProcessStep(i)
  <1>1. ASSUME NEW i \in Inst, Tick(i) PROVE \E j \in Jobs : JobAct(j)
    <2>1. JobAct(<<i, "timer">>)
      BY <1>1 DEF JobAct
    <2> QED
      BY <2>1, JobOwner
  <1>2. ASSUME NEW i \in Inst, ManualClaim(i) \/ ReindexClaim(i) \/ RequestStep(i)
        PROVE  \E j \in Jobs : JobAct(j)
    <2>1. JobAct(<<i, "request">>)
      BY <1>2 DEF JobAct
    <2> QED
      BY <2>1, JobOwner
  <1>3. ASSUME NEW j \in Jobs, JobStep(j) \/ Refuse(j) \/ TerminalFails(j) \/ Abandon(j)
        PROVE  JobAct(j)
    BY <1>3 DEF JobAct
  <1> QED
    BY <1>1, <1>2, <1>3 DEF Next, RouteStep, ProcessStep

\* The state a new installation starts in.
LEMMA InitInv == Init => IInv
  <1> SUFFICES ASSUME Init PROVE IInv
    OBVIOUS
  <1>0. /\ \A j \in Jobs : job[j] = NoJob
        /\ \A w \in Works : work[w] = NoWork
        /\ \A i \in Inst : busy[i] = None /\ recl[i] = "none" /\ recov[i] = "none"
    BY DEF Init
  <1>1. src \in SrcType /\ src.state = "live" /\ ~src.ready /\ 1 \in Paths
    BY ConstantsOK DEF Init, SrcType, Paths
  <1>2. TypeOK
    <2>1. work \in [Works -> WorkType] /\ job \in [Jobs -> JobType]
      BY Fresh DEF Init
    <2>2. fails \in FailType /\ stops \in 0 .. MaxFaults
      BY ConstantsOK DEF Init, FailType
    <2>3. stamp \in Paths \cup {None} /\ parted \in BOOLEAN
      BY DEF Init
    <2>4. seen \in [Inst -> SUBSET Paths]
      <3>1. seen = [i \in Inst |-> IF phase[i] = "up" THEN {1} ELSE {}]
        BY DEF Init
      <3>2. \A i \in Inst : (IF phase[i] = "up" THEN {1} ELSE {}) \in SUBSET Paths
        BY <1>1
      <3> QED
        BY <3>1, <3>2
    <2> QED
      BY <1>0, <1>1, <2>1, <2>2, <2>3, <2>4, Types DEF Init
  <1>3. LifeInv
    <2>1. \A i \in Inst : Quiet(i)
      BY <1>0, Fresh DEF Quiet
    <2>2. \A w \in Works : InProcess(w)
      BY <1>0 DEF InProcess, NoWork
    <2>3. site.sqlite => \A i, k \in Inst : phase[i] # "down" /\ phase[k] # "down" => i = k
      BY DEF Init
    <2> QED
      BY <1>0, <2>1, <2>2, <2>3 DEF LifeInv
  <1>4. DeleteInv
    BY <1>0, <1>1 DEF DeleteInv
  <1>5. \A j \in Jobs : job[j].pc = "idle" /\ ~job[j].pre /\ ~job[j].void
    BY <1>0 DEF NoJob
  <1>6. ClaimInv /\ StampInv
    BY <1>1, <1>5 DEF ClaimInv, StampInv, StampIsCurrent, Claims, HoldsSync, HoldsIndex, Rightful
  <1>7. WorkInv
    BY <1>0, <1>5 DEF WorkInv, NoWork
  <1> QED
    BY <1>2, <1>3, <1>4, <1>6, <1>7 DEF IInv, RowInv, BaseInv

LEMMA BaseStep ==
  ASSUME BaseInv, [Next]_vars
  PROVE  BaseInv'
  <1>1. ASSUME NEW j \in Jobs, JobAct(j) PROVE BaseInv'
    BY <1>1, JobAlone, JobBase DEF BaseInv
  <1>2. ASSUME NEW w \in Works, Admit(w) \/ WorkStep(w) PROVE BaseInv'
    <2>1. TypeOK /\ InProcess(w)
      BY DEF BaseInv, LifeInv
    <2> QED
      BY <1>2, <2>1, WorkMoves, WorkBase
  <1>3. CASE UNCHANGED vars
    <2>1. TypeOK'
      BY <1>3 DEF vars, BaseInv, TypeOK
    <2> QED
      BY <1>3, <2>1 DEF vars, BaseInv, LifeInv, DeleteInv, Quiet, InProcess, Leased
  <1> QED
    BY <1>1, <1>2, <1>3, RouteBase, ProcessBase, NextSteps

\* The state has its shape, and a process that is up holds the lock in memory for a job
\* that is running (busyCheckouts, tryAcquireCheckout and releaseCheckout in
\* p4-sync.ts): no path through a sync, a reindex, a failing write, a refusal
\* or a restart leaves a checkout locked for nobody.
THEOREM SyncTypeCorrect == Spec => []TypeOK
  <1>1. Init => BaseInv
    BY InitInv DEF IInv, RowInv
  <1>2. BaseInv /\ [Next]_vars => BaseInv'
    BY BaseStep
  <1>3. BaseInv => TypeOK
    BY DEF BaseInv
  <1> QED
    BY <1>1, <1>2, <1>3, PTL DEF Spec

-----------------------------------------------------------------------------
(* The claims and the stamp.                                               *)

\* Where no job holds a claim by right the row may be rewritten.
LEMMA Unclaimed ==
  ASSUME ClaimInv, \A j \in Jobs : ~Rightful(j), UNCHANGED job, StampIsCurrent'
  PROVE  ClaimInv' /\ StampInv'
  <1>1. \A j \in Jobs : /\ ~Rightful(j)' /\ Claims(j)' = Claims(j)
                        /\ HoldsSync(j) \/ HoldsIndex(j) => job[j].void
                        /\ HoldsSync(j)' = HoldsSync(j) /\ HoldsIndex(j)' = HoldsIndex(j)
    BY DEF Claims, HoldsSync, HoldsIndex, Rightful
  <1>2. ClaimInv'
    BY <1>1 DEF ClaimInv
  <1>3. \A j \in Jobs : job'[j].pc \in {"working", "terminal"} => job'[j].void
    BY DEF Rightful, Claims, HoldsSync
  <1> QED
    BY <1>2, <1>3 DEF StampInv

\* Steps that are not a job's.
LEMMA OtherRow ==
  ASSUME RowInv,
         \/ \E w \in Works : WorkAlone(w)
         \/ RouteStep
         \/ \E i \in Inst : ProcessStep(i)
  PROVE  ClaimInv' /\ StampInv'
  <1>0. /\ TypeOK /\ LifeInv /\ DeleteInv /\ ClaimInv /\ StampInv /\ src \in SrcType
        /\ job \in [Jobs -> JobType]
    BY Types DEF RowInv, BaseInv
  <1>1. CASE UNCHANGED <<src, job, stamp, parted>>
    <2>1. ClaimInv'
      BY <1>0, <1>1 DEF ClaimInv, Claims, HoldsSync, HoldsIndex, Rightful
    <2>2. StampInv'
      BY <1>0, <1>1 DEF StampInv, StampIsCurrent
    <2> QED
      BY <2>1, <2>2
  <1>2. ASSUME NEW i \in Inst, Patch(i) PROVE ClaimInv' /\ StampInv'
    <2>0. PICK p \in Paths : PatchResets(i, p) \/ PatchKeeps(p)
      BY <1>2 DEF Patch
    <2>j. UNCHANGED job
      BY <1>2 DEF Patch
    <2>1. CASE PatchResets(i, p)
      <3>1. ~src'.ready /\ Free
        BY <1>0, <2>1 DEF PatchResets, SrcType
      <3> QED
        BY <1>0, <2>j, <3>1, FreeRow, Unclaimed DEF StampIsCurrent
    <2>2. CASE PatchKeeps(p)
      <3>1. /\ src'.sync = src.sync /\ src'.index = src.index /\ src'.state = src.state
            /\ src'.ready = src.ready /\ src'.path = p
        BY <1>0, <2>2 DEF PatchKeeps, SrcType
      <3>2. stamp' = stamp /\ (parted' <=> parted \/ p # src.path)
        BY <2>2, Zenon DEF PatchKeeps
      <3>3. ClaimInv'
        BY <1>0, <2>j, <3>1 DEF ClaimInv, Claims, HoldsSync, HoldsIndex, Rightful
      <3>4. StampInv'
        BY <1>0, <2>j, <3>1, <3>2 DEF StampInv, StampIsCurrent
      <3> QED
        BY <3>3, <3>4
    <2> QED
      BY <2>0, <2>1, <2>2
  <1>3. ASSUME NEW i \in Inst, Delete(i) \/ Finalize(i) PROVE ClaimInv' /\ StampInv'
    <2>1. \A j \in Jobs : ~Rightful(j)
      <3>1. Free \/ src.state # "live"
        BY <1>0, <1>3 DEF Delete, Finalize, DeleteInv
      <3> QED
        BY <1>0, <3>1, FreeRow DEF ClaimInv
    <2>2. src'.ready = src.ready /\ src'.path = src.path /\ UNCHANGED <<job, stamp, parted>>
      BY <1>0, <1>3 DEF Delete, Finalize, SrcType, marks
    <2>3. StampIsCurrent'
      BY <1>0, <2>2 DEF StampInv, StampIsCurrent
    <2> QED
      BY <1>0, <2>1, <2>2, <2>3, Unclaimed
  <1>4. ASSUME NEW i \in Inst, RecoverReset(i) PROVE ClaimInv' /\ StampInv'
    <2>1. \A j \in Jobs : /\ job'[j].pc = job[j].pc /\ job'[j].pre = job[j].pre
                          /\ job'[j].path = job[j].path
                          /\ job'[j].void <=> job[j].void \/ Claims(j)
      BY <1>0, <1>4, VoidAlone
    <2>2. \A j \in Jobs : /\ Claims(j)' <=> Claims(j)
                          /\ HoldsSync(j)' \/ HoldsIndex(j)' => Claims(j)
      BY <2>1 DEF Claims, HoldsSync, HoldsIndex
    <2>3. src'.ready = src.ready /\ src'.path = src.path /\ UNCHANGED <<stamp, parted>>
      BY <1>0, <1>4 DEF RecoverReset, SrcType, marks
    <2>4. ClaimInv'
      BY <1>0, <2>1, <2>2 DEF ClaimInv, Rightful
    <2>5. StampInv'
      BY <1>0, <2>1, <2>3 DEF StampInv, StampIsCurrent
    <2> QED
      BY <2>4, <2>5
  <1>5. ASSUME NEW i \in Inst, Down(i) PROVE ClaimInv' /\ StampInv'
    <2>1. /\ UNCHANGED <<src, stamp, parted>>
          /\ \A j \in Jobs : job'[j] = NoJob \/ job'[j] = job[j]
      BY <1>0, <1>5, DownAlone
    <2>2. \A j \in Jobs : /\ HoldsSync(j)' => HoldsSync(j) /\ job'[j] = job[j]
                          /\ HoldsIndex(j)' => HoldsIndex(j) /\ job'[j] = job[j]
                          /\ job'[j].pc = "idle" => ~job'[j].pre
                          /\ job'[j].void => job'[j] = job[j]
      BY <1>0, <2>1 DEF HoldsSync, HoldsIndex, NoJob, ClaimInv
    <2>3. ClaimInv'
      BY <1>0, <2>1, <2>2 DEF ClaimInv, Claims, Rightful, HoldsSync, HoldsIndex
    <2>4. \A j \in Jobs : job'[j].pc \in {"working", "terminal"} => job'[j] = job[j]
      BY <2>1 DEF NoJob
    <2>5. StampInv'
      BY <1>0, <2>1, <2>4 DEF StampInv, StampIsCurrent
    <2> QED
      BY <2>3, <2>5
  <1> QED
    BY <1>1, <1>2, <1>3, <1>4, <1>5
    DEF WorkAlone, RouteStep, Bind, Unbind, Reclaim, Isolate, ProcessStep, Recover, RecoverList,
        RecoverDeletion, Crash, Exit, Fence, Boot, marks

LEMMA RowStep ==
  ASSUME RowInv, [Next]_vars
  PROVE  RowInv'
  <1>0. BaseInv /\ TypeOK /\ LifeInv /\ ClaimInv /\ StampInv
    BY DEF RowInv, BaseInv
  <1>1. BaseInv'
    BY <1>0, BaseStep
  <1>2. ASSUME NEW j \in Jobs, JobAct(j) PROVE ClaimInv' /\ StampInv'
    <2>1. Alone(j)
      BY <1>0, <1>2, JobAlone
    <2>2. ClaimStep(j)
      BY <1>0, <1>2, RequestClaims, WriteClaims DEF JobAct
    <2>3. SyncStep(j)
      BY <1>0, <1>2, JobSyncs
    <2> QED
      BY <1>0, <2>1, <2>2, <2>3, JobClaims, JobStamps
  <1>3. ASSUME NEW w \in Works, Admit(w) \/ WorkStep(w) PROVE ClaimInv' /\ StampInv'
    <2>1. InProcess(w)
      BY <1>0 DEF LifeInv
    <2> QED
      BY <1>0, <1>3, <2>1, WorkMoves, OtherRow
  <1>4. CASE UNCHANGED vars
    <2>1. UNCHANGED <<src, job, stamp, parted>>
      BY <1>4 DEF vars
    <2>2. ClaimInv'
      BY <1>0, <2>1 DEF ClaimInv, Claims, HoldsSync, HoldsIndex, Rightful
    <2>3. StampInv'
      BY <1>0, <2>1 DEF StampInv, StampIsCurrent
    <2> QED
      BY <1>1, <2>2, <2>3 DEF RowInv
  <1> QED
    BY <1>1, <1>2, <1>3, <1>4, OtherRow, NextSteps DEF RowInv

\* The terminal write of a sync stamps initialSyncCompletedAt only onto the localPath it
\* has synced, however PATCH, DELETE, syncs, restarts and failing writes of any number
\* of replicas interleave, but for the two ways to part them that the history records:
\* a PATCH that judged an old row, and a job whose claim startup took away.
THEOREM StampsAreCurrent == Spec => []StampIsCurrent
  <1>1. Init => RowInv
    BY InitInv DEF IInv
  <1>2. RowInv /\ [Next]_vars => RowInv'
    BY RowStep
  <1>3. RowInv => StampIsCurrent
    BY DEF RowInv, StampInv
  <1> QED
    BY <1>1, <1>2, <1>3, PTL DEF Spec
-----------------------------------------------------------------------------
(* The shared checkout.                                                    *)

\* A workload that comes into view in the shared checkout, does so where the row has no
\* claim of a sync.
WorkSeen(w) ==
    /\ work'[w].pc = "shared" /\ ~work'[w].dir => workloadOccupiesSharedCheckout(w)'
    /\ ~site.git => work'[w].dir = work[w].dir
    /\ w \in Active' /\ workloadOccupiesSharedCheckout(w)' =>
          src.sync = "idle" \/ (w \in Active /\ workloadOccupiesSharedCheckout(w))

LEMMA WorkSeenStep ==
  ASSUME TypeOK, WorkInv, NEW w \in Works, Admit(w) \/ WorkStep(w)
  PROVE  WorkSeen(w)
  <1>0. /\ work \in [Works -> WorkType] /\ work[w] \in WorkType /\ src.sync \in {"idle", "syncing"}
        /\ site.kind \in {"run", "evaluation"} /\ site.git \in BOOLEAN
    BY Types, ConstantsOK DEF SrcType
  <1>1. UNCHANGED site
    BY DEF Admit, WorkStep, Activate, Resolve, Finish, Release
  <1>2. CASE Admit(w)
    <2>1. work'[w].pc = "queued" /\ work'[w].dir = work[w].dir
      BY <1>0, <1>2 DEF Admit, WorkType
    <2> QED
      BY <2>1 DEF WorkSeen, Active, Leased
  <1>3. ASSUME NEW i \in Inst, Activate(w, i) PROVE WorkSeen(w)
    <2>1. CASE SyncClaim(w)
      <3>1. work' = [work EXCEPT ![w] = [work[w] EXCEPT !.pc = "idle"]]
        BY <1>3, <2>1 DEF Activate
      <3>2. work'[w].pc = "idle" /\ work'[w].dir = work[w].dir
        BY <1>0, <3>1 DEF WorkType
      <3> QED
        BY <3>2 DEF WorkSeen, Active, Leased
    <2>2. CASE ~SyncClaim(w)
      <3>1. work' = [work EXCEPT ![w] = [work[w] EXCEPT !.pc = "resolving", !.at = i]]
        BY <1>3, <2>2 DEF Activate
      <3>2. work'[w].pc = "resolving" /\ work'[w].dir = work[w].dir
        BY <1>0, <3>1 DEF WorkType
      <3>3. workloadOccupiesSharedCheckout(w)' => workloadOccupiesSharedCheckout(w)
        BY <1>1, <3>2 DEF workloadOccupiesSharedCheckout
      <3> QED
        BY <1>0, <2>2, <3>2, <3>3 DEF WorkSeen, SyncClaim
    <2> QED
      BY <2>1, <2>2
  <1>4. CASE Resolve(w)
    <2>1. work[w].pc = "resolving" /\ w \in Active
      BY <1>4 DEF Resolve, Active, Leased
    <2>2. CASE site.git /\ work' = [work EXCEPT ![w].pc = "tree", ![w].dir = site.kind = "run"]
      <3>1. work'[w].pc = "tree" /\ work'[w].dir = (site.kind = "run")
        BY <1>0, <2>2 DEF WorkType
      <3>2. ~workloadOccupiesSharedCheckout(w)'
        BY <1>0, <1>1, <2>2, <3>1 DEF workloadOccupiesSharedCheckout
      <3> QED
        BY <2>2, <3>1, <3>2 DEF WorkSeen
    <2>3. CASE /\ ~site.git \/ site.kind = "run"
               /\ work' = [work EXCEPT ![w].pc = "shared"]
      <3>1. work'[w].dir = work[w].dir
        BY <1>0, <2>3 DEF WorkType
      <3>2. workloadOccupiesSharedCheckout(w)' <=> workloadOccupiesSharedCheckout(w)
        BY <1>1, <3>1 DEF workloadOccupiesSharedCheckout
      <3>3. ~work[w].dir => workloadOccupiesSharedCheckout(w)
        BY <1>0, <2>3 DEF workloadOccupiesSharedCheckout
      <3> QED
        BY <2>1, <3>1, <3>2, <3>3 DEF WorkSeen
    <2>4. CASE work' = [work EXCEPT ![w].pc = "ended", ![w].at = None]
      <3>1. work'[w].pc = "ended" /\ work'[w].dir = work[w].dir
        BY <1>0, <2>4 DEF WorkType
      <3>2. workloadOccupiesSharedCheckout(w)' => workloadOccupiesSharedCheckout(w)
        BY <1>1, <3>1 DEF workloadOccupiesSharedCheckout
      <3> QED
        BY <2>1, <3>1, <3>2 DEF WorkSeen
    <2> QED
      BY <1>4, <2>2, <2>3, <2>4 DEF Resolve
  <1>5. CASE Finish(w) \/ Release(w)
    <2>1. w \in Active /\ work'[w].pc \in {"ended", "idle"} /\ work'[w].dir = work[w].dir
      BY <1>0, <1>5 DEF Finish, Release, Active, Leased, WorkType
    <2>2. workloadOccupiesSharedCheckout(w)' => workloadOccupiesSharedCheckout(w)
      BY <1>1, <2>1 DEF workloadOccupiesSharedCheckout
    <2> QED
      BY <2>1, <2>2 DEF WorkSeen
  <1> QED
    BY <1>2, <1>3, <1>4, <1>5 DEF WorkStep

LEMMA WorkInvStep ==
  ASSUME IInv, [Next]_vars
  PROVE  WorkInv'
  <1>0. TypeOK /\ LifeInv /\ ClaimInv /\ WorkInv /\ job \in [Jobs -> JobType]
    BY Types DEF IInv, RowInv, BaseInv
  <1>1. ASSUME UNCHANGED <<site, work>>,
               \A j \in Jobs : job'[j].pc = "working" /\ ~job'[j].void => ~findSharedCheckoutScmWorkload
        PROVE  WorkInv'
    <2>1. findSharedCheckoutScmWorkload' <=> findSharedCheckoutScmWorkload
      BY <1>1 DEF findSharedCheckoutScmWorkload, Active, Leased, workloadOccupiesSharedCheckout
    <2>2. \A w \in Works : workloadOccupiesSharedCheckout(w)' <=> workloadOccupiesSharedCheckout(w)
      BY <1>1 DEF workloadOccupiesSharedCheckout
    <2> QED
      BY <1>0, <1>1, <2>1, <2>2 DEF WorkInv
  <1>2. ASSUME NEW j \in Jobs, JobAct(j) PROVE WorkInv'
    <2>1. UNCHANGED <<site, work>> /\ \A k \in Jobs \ {j} : job'[k] = job[k]
      BY <1>0, <1>2, JobAlone DEF Alone
    <2>2. job'[j].pc = "working" => ~findSharedCheckoutScmWorkload
      BY <1>0, <1>2, JobSyncs DEF SyncStep
    <2> QED
      BY <1>0, <1>1, <2>1, <2>2 DEF WorkInv
  <1>3. ASSUME NEW w \in Works, Admit(w) \/ WorkStep(w) PROVE WorkInv'
    <2>1. WorkAlone(w)
      BY <1>0, <1>3, WorkMoves DEF LifeInv
    <2>2. WorkSeen(w)
      BY <1>0, <1>3, WorkSeenStep
    <2>3. ASSUME NEW v \in Works, v # w
          PROVE  /\ work'[v] = work[v]
                 /\ v \in Active' <=> v \in Active
                 /\ workloadOccupiesSharedCheckout(v)' <=> workloadOccupiesSharedCheckout(v)
      BY <2>1, <2>3 DEF WorkAlone, Active, Leased, workloadOccupiesSharedCheckout
    <2>4. \A j \in Jobs : job'[j].pc = "working" /\ ~job'[j].void => ~findSharedCheckoutScmWorkload'
      <3>1. SUFFICES ASSUME NEW j \in Jobs, job[j].pc = "working", ~job[j].void
                     PROVE  ~findSharedCheckoutScmWorkload'
        BY <2>1 DEF WorkAlone
      <3>2. src.sync = "syncing" /\ ~findSharedCheckoutScmWorkload
        BY <1>0, <3>1 DEF ClaimInv, HoldsSync, WorkInv
      <3>3. ~(w \in Active' /\ workloadOccupiesSharedCheckout(w)')
        BY <2>2, <3>2 DEF WorkSeen, findSharedCheckoutScmWorkload
      <3>4. \A v \in Active' : v \in Works
        BY DEF Active, Leased
      <3> QED
        BY <2>3, <3>2, <3>3, <3>4 DEF findSharedCheckoutScmWorkload
    <2>5. ~site.git => \A v \in Works : ~work'[v].dir
      BY <1>0, <2>2, <2>3 DEF WorkInv, WorkSeen
    <2>6. \A v \in Works : work'[v].pc = "shared" /\ ~work'[v].dir => workloadOccupiesSharedCheckout(v)'
      BY <1>0, <2>2, <2>3 DEF WorkInv, WorkSeen
    <2> QED
      BY <2>1, <2>4, <2>5, <2>6 DEF WorkInv, WorkAlone
  <1>4. ASSUME NEW i \in Inst, Down(i) PROVE WorkInv'
    <2>1. /\ UNCHANGED site
          /\ \A j \in Jobs : job'[j].pc = "working" => job'[j] = job[j]
      BY <1>0, <1>4, DownAlone, Fresh
    <2>2. \A w \in Works : /\ work'[w].dir = work[w].dir
                           /\ work'[w].pc = work[w].pc \/ (work'[w].pc = "ended" /\ work[w].at = i)
      BY <1>0, <1>4, DownAlone
    <2>3. \A w \in Works : /\ workloadOccupiesSharedCheckout(w)' <=> workloadOccupiesSharedCheckout(w)
                           /\ work'[w].pc = "shared" => work[w].pc = "shared"
                           /\ w \in Active' => w \in Active
      BY <1>0, <2>1, <2>2, ConstantsOK DEF workloadOccupiesSharedCheckout, Active, Leased, LifeInv, InProcess
    <2>4. findSharedCheckoutScmWorkload' => findSharedCheckoutScmWorkload
      <3>1. \A v \in Active' : v \in Works
        BY DEF Active, Leased
      <3> QED
        BY <2>3, <3>1 DEF findSharedCheckoutScmWorkload
    <2> QED
      BY <1>0, <2>1, <2>2, <2>3, <2>4 DEF WorkInv
  <1>5. CASE UNCHANGED <<site, work, job>>
    BY <1>0, <1>1, <1>5 DEF WorkInv
  <1>6. CASE RouteStep \/ UNCHANGED vars
    BY <1>5, <1>6 DEF RouteStep, Bind, Unbind, Patch, Delete, Reclaim, Isolate, Finalize, vars
  <1>8. ASSUME NEW i \in Inst, RecoverReset(i) PROVE WorkInv'
    <2>1. \A j \in Jobs : job'[j].pc = job[j].pc /\ (~job'[j].void => ~job[j].void)
      BY <1>0, <1>8, VoidAlone
    <2>2. UNCHANGED <<site, work>>
      BY <1>8 DEF RecoverReset
    <2> QED
      BY <1>0, <1>1, <2>1, <2>2 DEF WorkInv
  <1>7. ASSUME NEW i \in Inst, ProcessStep(i) PROVE WorkInv'
    BY <1>4, <1>5, <1>7, <1>8 DEF ProcessStep, Recover, RecoverList, RecoverDeletion, Crash, Exit, Fence, Boot
  <1> QED
    BY <1>2, <1>3, <1>6, <1>7, NextSteps

\* Job j writes the checkout by right.
Writes(j) == job[j].pc = "working" /\ ~job[j].void

\* A sync that is writing has the checkout for itself, and so has a deletion.
Excluded ==
    /\ Writing = {} \/ InShared \cup Indexing = {}
    /\ \A j \in Jobs : Writes(j) => Writing = {j} /\ \A k \in Jobs \ {j} : ~Writes(k)
    /\ (\E i \in Inst : recl[i] # "none") => \A j \in Jobs : ~Writes(j)

LEMMA Exclusive == IInv => Excluded
  <1> SUFFICES ASSUME IInv PROVE Excluded
    OBVIOUS
  <1>0. TypeOK /\ DeleteInv /\ ClaimInv /\ WorkInv
    BY DEF IInv, RowInv, BaseInv
  <1>1. (\E i \in Inst : recl[i] # "none") => Leased = {} /\ \A j \in Jobs : ~Rightful(j)
    BY <1>0 DEF DeleteInv, ClaimInv
  <1>2. \A j \in Jobs : Writes(j) \/ j \in Indexing => Rightful(j)
    BY DEF Writes, Indexing, Rightful, Claims, HoldsSync, HoldsIndex
  <1>3. ASSUME NEW j \in Jobs, Writes(j)
        PROVE  /\ Writing = {j} /\ InShared \cup Indexing = {}
               /\ \A k \in Jobs \ {j} : ~Writes(k)
    <2>1. Rightful(j) /\ \A k \in Jobs : Writes(k) \/ k \in Indexing => k = j
      BY <1>0, <1>2, <1>3 DEF ClaimInv, Rightful
    <2>2. ~\E i \in Inst : recl[i] # "none"
      BY <1>1, <2>1
    <2>3. Writing = {j}
      BY <1>3, <2>1, <2>2 DEF Writing, Writes
    <2>4. Indexing = {}
      BY <1>3, <2>1 DEF Indexing, Writes
    <2>5. InShared = {}
      BY <1>0, <1>3 DEF InShared, WorkInv, findSharedCheckoutScmWorkload, Active, Leased, Writes
    <2> QED
      BY <2>1, <2>3, <2>4, <2>5
  <1>4. (\E i \in Inst : recl[i] # "none") => InShared \cup Indexing = {}
    <2>1. Leased = {} => InShared = {}
      BY DEF InShared, Leased
    <2>2. (\A j \in Jobs : ~Rightful(j)) => Indexing = {}
      BY <1>2 DEF Indexing
    <2> QED
      BY <1>1, <2>1, <2>2
  <1>5. Writing = {} \/ (\E i \in Inst : recl[i] # "none") \/ \E j \in Jobs : Writes(j)
    BY DEF Writing, Writes
  <1> QED
    BY <1>1, <1>2, <1>3, <1>4, <1>5 DEF Excluded

LEMMA ExclusiveNext == IInv' => Excluded'
  BY Exclusive, PTL

\* Syncs and index runs enter the checkout as the promise says.
LEMMA JobCheckout ==
  ASSUME IInv, IInv', NEW j \in Jobs, JobAct(j)
  PROVE  Checkout!Next
  <1>0. TypeOK /\ LifeInv
    BY DEF IInv, RowInv, BaseInv
  <1>1. /\ UNCHANGED <<work, recl>> /\ \A k \in Jobs \ {j} : job'[k] = job[k]
    BY <1>0, JobAlone DEF Alone
  <1>2. InShared' = InShared
    BY <1>1 DEF InShared
  <1>3. CASE Writes(j)' /\ ~Writes(j)
    <2>1. /\ Writing' = {j} /\ InShared' \cup Indexing' = {}
          /\ \A k \in Jobs \ {j} : ~Writes(k)'
          /\ ~\E i \in Inst : recl'[i] # "none"
      BY <1>3, ExclusiveNext DEF Excluded
    <2>2. Indexing = {}
      <3>1. job[j].pc \in {"section", "working"}
        BY <1>0, <1>3, JobSyncs DEF SyncStep, Writes
      <3> QED
        BY <1>1, <2>1, <3>1 DEF Indexing
    <2>3. Writing = {}
      BY <1>1, <1>3, <2>1 DEF Writing, Writes
    <2>4. Checkout!Write(j)
      BY <1>2, <2>1, <2>2, <2>3 DEF Checkout!Write
    <2> QED
      BY <2>4 DEF Checkout!Next
  <1>4. CASE j \in Indexing' \ Indexing
    <2>1. ~Writes(j) /\ ~Writes(j)'
      <3>1. job[j].pc = "working" => SyncEnds(j)
        BY DEF JobAct, Tick, ManualClaim, ReindexClaim, RequestStep, ManualCheckout, ReindexCheckout, JobStep,
               Section, Terminal, Reset, IndexEnds, Unclaim, Rollback, Refuse, TerminalFails, Abandon
      <3>2. SyncEnds(j) => job'[j].pc = "terminal"
        BY <1>0, Types DEF SyncEnds, JobType
      <3> QED
        BY <1>4, <3>1, <3>2 DEF Indexing, Writes
    <2>2. Writing' = Writing
      BY <1>1, <2>1 DEF Writing, Writes
    <2>3. Indexing' = Indexing \cup {j}
      BY <1>1, <1>4 DEF Indexing
    <2>4. Writing' = {}
      BY <1>4, ExclusiveNext DEF Excluded
    <2>5. CASE j \in InShared
      BY <1>2, <2>2, <2>3, <2>5 DEF Checkout!Next, Checkout!Leave
    <2>6. CASE j \notin InShared
      <3>1. Checkout!Enter(j)
        BY <1>2, <1>4, <2>2, <2>3, <2>4, <2>6 DEF Checkout!Enter
      <3> QED
        BY <3>1 DEF Checkout!Next
    <2> QED
      BY <2>5, <2>6
  <1>5. CASE ~(Writes(j)' /\ ~Writes(j)) /\ j \notin Indexing' \ Indexing
    <2>1. Indexing' \subseteq Indexing
      BY <1>1, <1>5 DEF Indexing
    <2>2. Writing' \subseteq Writing
      BY <1>1, <1>5 DEF Writing, Writes
    <2> QED
      BY <1>2, <2>1, <2>2 DEF Checkout!Next, Checkout!Leave
  <1> QED
    BY <1>3, <1>4, <1>5

\* So do workloads.
LEMMA WorkCheckout ==
  ASSUME IInv, IInv', NEW w \in Works, WorkAlone(w)
  PROVE  Checkout!Next
  <1>1. Indexing' = Indexing /\ Writing' = Writing
    BY DEF WorkAlone, Indexing, Writing
  <1>2. InShared' \subseteq InShared \cup {w} /\ InShared \subseteq InShared' \cup {w}
    BY DEF WorkAlone, InShared
  <1>3. CASE w \notin InShared' \ (InShared \cup Indexing)
    BY <1>1, <1>2, <1>3 DEF Checkout!Next, Checkout!Leave
  <1>4. CASE w \in InShared' \ (InShared \cup Indexing)
    <2>1. Writing = {}
      BY <1>1, <1>4, ExclusiveNext DEF Excluded
    <2>2. Checkout!Enter(w)
      BY <1>1, <1>2, <1>4, <2>1 DEF Checkout!Enter
    <2> QED
      BY <2>2 DEF Checkout!Next
  <1> QED
    BY <1>3, <1>4

\* A deletion begins where nobody is.
LEMMA ReclaimCheckout ==
  ASSUME IInv, IInv', UNCHANGED <<work, job>>
  PROVE  Checkout!Next
  <1>1. InShared' = InShared /\ Indexing' = Indexing
    BY DEF InShared, Indexing
  <1>2. Writing' \subseteq Writing \cup {"reclaim"} /\ Writing \subseteq Writing' \cup {"reclaim"}
    BY DEF Writing
  <1>3. CASE "reclaim" \notin Writing' \ Writing
    BY <1>1, <1>2, <1>3 DEF Checkout!Next, Checkout!Leave
  <1>4. CASE "reclaim" \in Writing' \ Writing
    <2>1. (\E i \in Inst : recl'[i] # "none") /\ ~\E i \in Inst : recl[i] # "none"
      BY <1>4 DEF Writing
    <2>2. \A j \in Jobs : ~Writes(j)
      BY <2>1, ExclusiveNext DEF Excluded, Writes
    <2>3. Writing' = {"reclaim"} /\ Writing = {}
      BY <2>1, <2>2 DEF Writing, Writes
    <2>4. InShared' \cup Indexing' = {}
      BY <1>4, ExclusiveNext DEF Excluded
    <2>5. Checkout!Write("reclaim")
      BY <1>1, <2>3, <2>4 DEF Checkout!Write
    <2> QED
      BY <2>5 DEF Checkout!Next
  <1> QED
    BY <1>3, <1>4

\* A crash ends uses and writes.
LEMMA DownCheckout ==
  ASSUME TypeOK, NEW i \in Inst, Down(i)
  PROVE  Checkout!Next
  <1>0. recl \in [Inst -> {"none", "isolate", "finalize"}]
    BY Types
  <1>1. InShared' \subseteq InShared
    BY DownAlone DEF InShared
  <1>2. \A j \in Jobs : job'[j] = job[j] \/ job'[j].pc = "idle"
    BY DownAlone, Fresh
  <1>3. Indexing' \subseteq Indexing
    BY <1>2 DEF Indexing
  <1>4. (\E k \in Inst : recl'[k] # "none") => \E k \in Inst : recl[k] # "none"
    BY <1>0, DownAlone
  <1>5. Writing' \subseteq Writing
    BY <1>2, <1>4 DEF Writing
  <1> QED
    BY <1>1, <1>3, <1>5 DEF Checkout!Next, Checkout!Leave

\* The reset at startup only takes jobs out of it.
LEMMA ResetCheckout ==
  ASSUME TypeOK, NEW i \in Inst, RecoverReset(i)
  PROVE  Checkout!Next
  <1>1. UNCHANGED <<work, recl>>
    BY DEF RecoverReset
  <1>2. \A j \in Jobs : job'[j].pc = job[j].pc /\ (~job'[j].void => ~job[j].void)
    BY VoidAlone, Types
  <1>3. InShared' = InShared /\ Indexing' \subseteq Indexing
    BY <1>1, <1>2 DEF InShared, Indexing
  <1>4. Writing' \subseteq Writing
    BY <1>1, <1>2 DEF Writing
  <1> QED
    BY <1>3, <1>4 DEF Checkout!Next, Checkout!Leave

\* Whoever is in the shared checkout by right keeps the promise of DirectoryLock, on any
\* number of replicas: the claims of withScmMutation sections and the occupancy they
\* look at leave no order of requests, syncs, index runs, activations, deletions,
\* failures, crashes and startups in which one writes where another works. Not there
\* by right are a run that kept the workDir of its last turn and degraded to the
\* checkout, and a job whose claim the reset at startup took away.
THEOREM CheckoutIsExclusive == Spec => CheckoutExclusive
  <1>1. Init => IInv
    BY InitInv
  <1>2. IInv /\ [Next]_vars => IInv'
    BY RowStep, WorkInvStep DEF IInv
  <1>3. Init => Checkout!Init
    <2> SUFFICES ASSUME Init PROVE Checkout!Init
      OBVIOUS
    <2>1. \A j \in Jobs : job[j].pc = "idle"
      BY DEF Init, NoJob
    <2>2. \A w \in Works : work[w].pc = "idle"
      BY DEF Init, NoWork
    <2>3. \A i \in Inst : recl[i] = "none"
      BY DEF Init
    <2> QED
      BY <2>1, <2>2, <2>3 DEF Checkout!Init, InShared, Indexing, Writing
  <1>4. IInv /\ IInv' /\ [Next]_vars => [Checkout!Next]_<<InShared \cup Indexing, Writing>>
    <2> SUFFICES ASSUME IInv, IInv', [Next]_vars
                 PROVE  [Checkout!Next]_<<InShared \cup Indexing, Writing>>
      OBVIOUS
    <2>0. TypeOK /\ LifeInv
      BY DEF IInv, RowInv, BaseInv
    <2>1. ASSUME NEW j \in Jobs, JobAct(j) PROVE Checkout!Next
      BY <2>1, JobCheckout
    <2>2. ASSUME NEW w \in Works, Admit(w) \/ WorkStep(w) PROVE Checkout!Next
      BY <2>0, <2>2, WorkMoves, WorkCheckout DEF LifeInv
    <2>3. CASE RouteStep
      <3>1. UNCHANGED <<work, job>>
        BY <2>3 DEF RouteStep, Bind, Unbind, Patch, Delete, Reclaim, Isolate, Finalize
      <3> QED
        BY <3>1, ReclaimCheckout
    <2>4. ASSUME NEW i \in Inst, ProcessStep(i) PROVE Checkout!Next
      <3>1. Down(i) \/ RecoverReset(i) \/ UNCHANGED <<work, job>>
        BY <2>4 DEF ProcessStep, Recover, RecoverList, RecoverDeletion, Crash, Exit, Fence, Boot
      <3> QED
        BY <2>0, <3>1, ReclaimCheckout, DownCheckout, ResetCheckout
    <2>5. CASE UNCHANGED vars
      <3>1. UNCHANGED <<work, job, recl>>
        BY <2>5 DEF vars
      <3> QED
        BY <3>1, ReclaimCheckout
    <2> QED
      BY <2>1, <2>2, <2>3, <2>4, <2>5, NextSteps
  <1> QED
    BY <1>1, <1>2, <1>3, <1>4, PTL DEF Spec, CheckoutExclusive, Checkout!Spec
=============================================================================
