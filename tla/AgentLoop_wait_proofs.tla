----------------------- MODULE AgentLoop_wait_proofs -----------------------
(***************************************************************************)
(* Further proofs about AgentLoop: no run is orphaned, no parked parent is *)
(* beyond waking, no wait is lost by the sweeper, nothing said is lost.    *)
(* The properties quantify over waits and deliveries, but what they need   *)
(* of a step is how it moves one run, one wait and one worker; those moves *)
(* are established first, once, by going through the actions.              *)
(***************************************************************************)
EXTENDS AgentLoop_proofs

Busy(v) == worker[v].phase # "idle"

-----------------------------------------------------------------------------
(***************************************************************************)
(* Families.  A run is never a member of a wait of its own, so settling it *)
(* does not resume it.                                                     *)
(***************************************************************************)

MembersAreChildren == \A w \in WaitIds : members[w] \subseteq ChildrenOf(w[1])
NotOwnParent == \A c \in Children : parent[c] # c
NotOwnMember == MembersAreChildren /\ NotOwnParent

LEMMA SettleRuns ==
  ASSUME TypeInv, NotOwnMember, NEW r \in Runs, NEW s, NEW hist, NEW q,
         Settle(r, s, hist, q)
  PROVE  /\ runState'[r] = s
         /\ \A x \in Runs : x # r =>
              \/ runState'[x] = runState[x]
              \/ ~Terminal(runState[x]) /\ runState'[x] = "running"
<1> DEFINE live == {w \in ClosedBy(r) : MayResume(w)}
<1>0. TypeOK
  BY DEF TypeInv
<1>1. runState' = ResumedState(live, [runState EXCEPT ![r] = s])
  BY DEF Settle
<1>2. ASSUME NEW w \in live
      PROVE  w[1] # r
  <2>1. w \in WaitIds /\ r \in members[w]
    BY <1>2 DEF ClosedBy
  <2>2. r \in Children /\ parent[r] = w[1]
    BY <2>1 DEF NotOwnMember, MembersAreChildren, ChildrenOf
  <2> QED
    BY <2>2 DEF NotOwnMember, NotOwnParent
<1>3. runState'[r] = s
  BY <1>0, <1>1, <1>2 DEF ResumedState, TypeOK
<1> QED
  BY <1>0, <1>3, SettleOthers

-----------------------------------------------------------------------------
(***************************************************************************)
(* How a step moves a run                                                  *)
(***************************************************************************)

Stays(x)   == runState'[x] = runState[x] /\ steps'[x] = steps[x]
Begins(x)  == runState[x] = "none" /\ runState'[x] = "pending" /\ steps'[x] = steps[x]
Goes(x)    == ~Terminal(runState[x]) /\ runState'[x] = "running" /\ steps'[x] = steps[x]
Answered(x) == /\ runState[x] \in {"awaiting", "completed"} /\ runState'[x] = "running"
               /\ steps'[x] = steps[x] /\ MaxSteps - 1 \notin steps[x]
Ends(x)    == runState'[x] \in {"failed", "cancelled"} /\ steps'[x] = steps[x]
Commits(v, x) ==
  /\ Busy(v) /\ worker[v].run = x
  /\ runState[x] = "running"
  /\ worker[v].idx \notin steps[x]
  /\ steps'[x] = steps[x] \cup {worker[v].idx}
  /\ \/ runState'[x] = "completed"
     \/ worker[v].idx + 1 < MaxSteps /\ runState'[x] \in {"running", "awaiting"}

RunMoves(x) == \/ Stays(x) \/ Begins(x) \/ Goes(x) \/ Answered(x) \/ Ends(x)
               \/ \E v \in Workers : Commits(v, x)

LEMMA SettleMoves ==
  ASSUME TypeInv, NotOwnMember, NEW r \in Runs, NEW s \in {"failed", "cancelled"},
         NEW hist, NEW q, Settle(r, s, hist, q), UNCHANGED steps, NEW x \in Runs
  PROVE  RunMoves(x)
BY SettleRuns DEF RunMoves, Stays, Goes, Ends

LEMMA ApiMoves ==
  ASSUME LoopInv, API, NEW x \in Runs
  PROVE  RunMoves(x)
<1>0. runState \in [Runs -> RunStates] /\ Roots \subseteq Runs
  BY DEF LoopInv, TypeInv, TypeOK, Runs
<1>1. ASSUME NEW r \in Roots, StartRun(r)
      PROVE  RunMoves(x)
  BY <1>0, <1>1 DEF StartRun, RunMoves, Stays, Begins
<1>2. ASSUME NEW r \in Runs, AnswerRun(r)
      PROVE  RunMoves(x)
  <2>1. MaxSteps - 1 \notin steps[r]
    <3>1. /\ NextIndex(steps[r]) \in 0 .. MaxSteps
          /\ steps[r] = 0 .. NextIndex(steps[r]) - 1
      BY NextIndexIs DEF LoopInv, TypeInv, TypeOK, NoHoles
    <3>2. NextIndex(steps[r]) < MaxSteps
      BY <1>2 DEF AnswerRun
    <3> QED
      BY <3>1, <3>2, LoopAssumption
  <2> QED
    BY <1>0, <1>2, <2>1 DEF AnswerRun, RunMoves, Stays, Answered
<1>3. ASSUME NEW r \in Runs, CancelRun(r)
      PROVE  RunMoves(x)
  <2>1. UNCHANGED steps
    BY <1>3 DEF CancelRun
  <2>2. UNCHANGED runState \/ runState' = [runState EXCEPT ![r] = "cancelled"]
    BY <1>3 DEF CancelRun
  <2> QED
    BY <1>0, <2>1, <2>2 DEF RunMoves, Stays, Ends
<1> QED
  BY <1>1, <1>2, <1>3 DEF API

LEMMA DeliverMoves ==
  ASSUME TypeInv, NotOwnMember, NEW v \in Workers, Deliver(v), NEW x \in Runs
  PROVE  RunMoves(x)
<1>0. runState \in [Runs -> RunStates]
  BY DEF TypeInv, TypeOK
<1>1. ASSUME NEW r \in Runs, NEW i \in Steps, ClaimStale(v, r, i)
      PROVE  RunMoves(x)
  BY <1>1 DEF ClaimStale, RunMoves, Stays, runVars
<1>2. ASSUME NEW r \in Runs, NEW i \in Steps, ClaimCancelled(v, r, i)
      PROVE  RunMoves(x)
  BY <1>2, SettleMoves DEF ClaimCancelled
<1>3. ASSUME NEW r \in Runs, NEW i \in Steps, Claim(v, r, i)
      PROVE  RunMoves(x)
  BY <1>0, <1>3 DEF Claim, Claimable, Terminal, RunMoves, Stays, Goes
<1> QED
  BY <1>1, <1>2, <1>3 DEF Deliver

LEMMA ExecuteMoves ==
  ASSUME TypeInv, NotOwnMember, NEW v \in Workers, Execute(v) \/ WorkerFault(v),
         NEW x \in Runs
  PROVE  RunMoves(x)
<1>0. runState \in [Runs -> RunStates] /\ Children \subseteq Runs
  BY DEF TypeInv, TypeOK, Runs
<1>1. CASE UNCHANGED <<runState, steps>>
  BY <1>1 DEF RunMoves, Stays
<1>2. ASSUME NEW c \in Children, SpawnCreate(v, c)
      PROVE  RunMoves(x)
  BY <1>0, <1>2 DEF SpawnCreate, RunMoves, Stays, Begins
<1>3. CASE FailRun(v) \/ StreamCancelled(v)
  <2>1. worker[v].run \in Runs /\ UNCHANGED steps
    BY <1>3 DEF FailRun, StreamCancelled, TypeInv, WorkerOK
  <2>2. \/ UNCHANGED runState
        \/ Settle(worker[v].run, "failed", history, queue)
        \/ Settle(worker[v].run, "cancelled", history, queue)
    BY <1>3 DEF FailRun, StreamCancelled
  <2> QED
    BY <1>1, <2>1, <2>2, SettleMoves
<1> QED
  BY <1>1, <1>2, <1>3
     DEF Execute, WorkerFault, StartStream, Compact, SpawnLookup, SpawnDenied,
         SpawnAdopt, SpawnFails, Retry, Redeliver, runVars

LEMMA CommitMoves ==
  ASSUME TypeInv, NotOwnMember, NEW v \in Workers, Commit(v), NEW x \in Runs
  PROVE  RunMoves(x)
<1> DEFINE r == worker[v].run
           i == worker[v].idx
<1>0. runState \in [Runs -> RunStates] /\ steps \in [Runs -> SUBSET Steps]
  BY DEF TypeInv, TypeOK
<1>r. Busy(v) /\ r \in Runs
  <2>1. worker[v].phase # "idle"
    BY DEF Commit, CommitStale, CommitCancelled, CommitContinue, CommitQuestion,
           CommitComplete, CommitWaitConflict, CommitWaitClosed, CommitWaitPark,
           WaitCommit
  <2> QED
    BY <2>1 DEF TypeInv, WorkerOK, Busy
<1>s. steps' = CommittedSteps(v) =>
        \A y \in Runs : steps'[y] = IF y = r THEN steps[r] \cup {i} ELSE steps[y]
  BY <1>0, <1>r DEF CommittedSteps
<1>1. CASE UNCHANGED <<runState, steps>>
  BY <1>1 DEF RunMoves, Stays
<1>2. CASE CommitCancelled(v)
  BY <1>2, <1>r, SettleMoves DEF CommitCancelled
<1>3. ASSUME steps' = CommittedSteps(v), Committable(r, i), i + 1 < MaxSteps,
             UNCHANGED runState \/ runState' = [runState EXCEPT ![r] = "awaiting"]
      PROVE  RunMoves(x)
  <2>1. CASE x = r
    BY <1>0, <1>3, <1>r, <1>s, <2>1 DEF Committable, RunMoves, Commits
  <2>2. CASE x # r
    BY <1>0, <1>3, <1>r, <1>s, <2>2 DEF RunMoves, Stays
  <2> QED
    BY <2>1, <2>2
<1>4. CASE CommitComplete(v)
  <2>1. steps' = CommittedSteps(v) /\ Committable(r, i)
          /\ Settle(r, "completed", CommittedHistory(v), queue)
    BY <1>4 DEF CommitComplete
  <2>2. /\ runState'[r] = "completed"
        /\ x # r => \/ runState'[x] = runState[x]
                    \/ ~Terminal(runState[x]) /\ runState'[x] = "running"
    BY <1>r, <2>1, SettleRuns
  <2>3. CASE x = r
    BY <1>r, <1>s, <2>1, <2>2, <2>3 DEF Committable, RunMoves, Commits
  <2>4. CASE x # r
    BY <1>s, <2>1, <2>2, <2>4 DEF RunMoves, Stays, Goes
  <2> QED
    BY <2>3, <2>4
<1> QED
  BY <1>1, <1>2, <1>3, <1>4
     DEF Commit, CommitStale, CommitContinue, CommitQuestion, CommitWaitConflict,
         CommitWaitClosed, CommitWaitPark, WaitCommit, runVars

LEMMA SweepMoves ==
  ASSUME TypeInv, NEW x \in Runs,
         (\E w \in WaitIds : DeadlinePasses(w)) \/ Sweep \/ SweepFault
  PROVE  RunMoves(x)
<1>1. CASE UNCHANGED <<runState, steps>>
  BY <1>1 DEF RunMoves, Stays
<1>2. ASSUME NEW w \in WaitIds, SweepResolve(w)
      PROVE  RunMoves(x)
  <2>1. UNCHANGED steps /\ runState' = ResumedState({u \in {w} : MayResume(u)}, runState)
    BY <1>2 DEF SweepResolve
  <2>2. CASE w[1] = x /\ MayResume(w)
    BY <2>1, <2>2 DEF ResumedState, MayResume, RunMoves, Goes
  <2>3. CASE ~(w[1] = x /\ MayResume(w))
    <3>1. ~\E y \in {u \in {w} : MayResume(u)} : y[1] = x
      BY <2>3, Zenon
    <3>2. runState'[x] = runState[x]
      BY <2>1, <3>1, Zenon DEF ResumedState
    <3> QED
      BY <2>1, <3>2 DEF RunMoves, Stays
  <2> QED
    BY <2>2, <2>3
<1> QED
  BY <1>1, <1>2
     DEF DeadlinePasses, Sweep, SweepFault, SweepClaim, SweepDone, SweepError,
         SweepCrash, runVars

LEMMA EveryRunMoves ==
  ASSUME LoopInv, NotOwnMember, [Next]_vars, NEW x \in Runs
  PROVE  RunMoves(x)
<1>1. CASE UNCHANGED vars
  BY <1>1 DEF vars, runVars, RunMoves, Stays
<1>2. TypeInv
  BY DEF LoopInv
<1> QED
  BY <1>1, <1>2, ApiMoves, DeliverMoves, ExecuteMoves, CommitMoves, SweepMoves
     DEF Next, Work

-----------------------------------------------------------------------------
(***************************************************************************)
(* How a step moves a worker: what a worker executes after it, it executed *)
(* before, or it has just claimed.                                         *)
(***************************************************************************)

Keeps(u) == /\ Busy(u)
            /\ worker'[u].run = worker[u].run /\ worker'[u].idx = worker[u].idx
            /\ worker'[u].env = worker[u].env \/ Compact(u)
            /\ worker'[u].stale = worker[u].stale \/ Redeliver(u)
Claims(u) == /\ worker'[u].run \in Runs /\ worker'[u].idx \in Steps
             /\ Claim(u, worker'[u].run, worker'[u].idx)
             /\ worker'[u].env = history[worker'[u].run]
             /\ worker'[u].stale = FALSE
WorkerMoves(u) == worker'[u].phase = "idle" \/ Keeps(u) \/ Claims(u)

LEMMA IdleOrKept ==
  ASSUME TypeInv, NEW v \in Workers, NEW u \in Workers
  PROVE  /\ Release(v) => WorkerMoves(u)
         /\ (Busy(v) /\ BackToStream(v)) => WorkerMoves(u)
         /\ UNCHANGED worker => WorkerMoves(u)
<1>0. worker \in [Workers -> WorkerType]
  BY DEF TypeInv, TypeOK, WorkerType, Phases
<1>1. ASSUME Release(v)
      PROVE  WorkerMoves(u)
  <2>1. worker'[u] = worker[u] \/ worker'[u].phase = "idle"
    BY <1>0, <1>1 DEF Release, IdleWorker
  <2> QED
    BY <2>1 DEF WorkerMoves, Keeps, Busy
<1>2. ASSUME Busy(v), BackToStream(v)
      PROVE  WorkerMoves(u)
  <2>1. \/ worker'[u] = worker[u]
        \/ /\ u = v /\ worker'[u].run = worker[u].run /\ worker'[u].idx = worker[u].idx
           /\ worker'[u].env = worker[u].env /\ worker'[u].stale = worker[u].stale
    BY <1>0, <1>2 DEF BackToStream, WorkerType
  <2> QED
    BY <1>2, <2>1 DEF WorkerMoves, Keeps, Busy
<1>3. ASSUME UNCHANGED worker
      PROVE  WorkerMoves(u)
  BY <1>3 DEF WorkerMoves, Keeps, Busy
<1> QED
  BY <1>1, <1>2, <1>3

LEMMA EveryWorkerMoves ==
  ASSUME TypeInv, [Next]_vars, NEW u \in Workers
  PROVE  WorkerMoves(u)
<1>0. worker \in [Workers -> WorkerType]
  BY DEF TypeInv, TypeOK, WorkerType, Phases
<1>1. CASE UNCHANGED worker
  BY <1>1, IdleOrKept
<1>2. ASSUME NEW v \in Workers, Deliver(v)
      PROVE  WorkerMoves(u)
  <2>1. ASSUME NEW r \in Runs, NEW i \in Steps, Claim(v, r, i)
        PROVE  WorkerMoves(u)
    <3> DEFINE new == [phase |-> "prepare", run |-> r, idx |-> i,
                       env |-> history[r], stale |-> FALSE, call |-> NoCall]
    <3>1. /\ worker' = [worker EXCEPT ![v] = new] /\ new.run = r /\ new.idx = i
          /\ new.env = history[r] /\ new.stale = FALSE
      BY <2>1 DEF Claim
    <3> HIDE DEF new
    <3>2. worker'[u] = IF u = v THEN new ELSE worker[u]
      BY <1>0, <3>1
    <3>3. CASE u = v
      BY <2>1, <3>1, <3>2, <3>3 DEF WorkerMoves, Claims
    <3>4. CASE u # v
      BY <3>2, <3>4 DEF WorkerMoves, Keeps, Busy
    <3> QED
      BY <3>3, <3>4
  <2> QED
    BY <1>1, <1>2, <2>1 DEF Deliver, ClaimStale, ClaimCancelled
<1>3. ASSUME NEW v \in Workers, Execute(v) \/ WorkerFault(v)
      PROVE  WorkerMoves(u)
  <2>1. CASE StartStream(v)
    BY <1>0, <2>1 DEF StartStream, WorkerType, WorkerMoves, Keeps, Busy
  <2>2. CASE Compact(v)
    <3>1. /\ worker'[u].run = worker[u].run /\ worker'[u].idx = worker[u].idx
          /\ worker'[u].stale = worker[u].stale
          /\ u = v \/ worker'[u] = worker[u]
      BY <1>0, <2>2 DEF Compact, WorkerType
    <3>2. worker[v].phase = "prepare"
      BY <2>2 DEF Compact
    <3> QED
      BY <2>2, <3>1, <3>2 DEF WorkerMoves, Keeps, Busy
  <2>3. ASSUME NEW k \in Calls, SpawnLookup(v, k)
        PROVE  WorkerMoves(u)
    BY <1>0, <2>3 DEF SpawnLookup, WorkerType, WorkerMoves, Keeps, Busy
  <2>4. CASE Redeliver(v)
    <3>1. /\ worker'[u].run = worker[u].run /\ worker'[u].idx = worker[u].idx
          /\ worker'[u].env = worker[u].env
          /\ u = v \/ worker'[u] = worker[u]
      BY <1>0, <2>4 DEF Redeliver, WorkerType
    <3>2. worker[v].phase # "idle"
      BY <2>4 DEF Redeliver
    <3> QED
      BY <2>4, <3>1, <3>2 DEF WorkerMoves, Keeps, Busy
  <2>5. CASE SpawnDenied(v) \/ SpawnAdopt(v) \/ SpawnFails(v)
    BY <2>5, IdleOrKept DEF SpawnDenied, SpawnAdopt, SpawnFails, Busy
  <2>6. ASSUME NEW c \in Children, SpawnCreate(v, c)
        PROVE  WorkerMoves(u)
    BY <2>6, IdleOrKept DEF SpawnCreate, Busy
  <2>7. CASE FailRun(v) \/ StreamCancelled(v) \/ Retry(v)
    BY <2>7, IdleOrKept DEF FailRun, StreamCancelled, Retry
  <2> QED
    BY <1>3, <2>1, <2>2, <2>3, <2>4, <2>5, <2>6, <2>7 DEF Execute, WorkerFault
<1>4. ASSUME NEW v \in Workers, Commit(v)
      PROVE  WorkerMoves(u)
  <2>1. Release(v)
    BY <1>4 DEF Commit, CommitStale, CommitCancelled, CommitContinue, CommitQuestion,
         CommitComplete, CommitWaitConflict, CommitWaitClosed, CommitWaitPark
  <2> QED
    BY <2>1, IdleOrKept
<1>5. CASE API \/ (\E w \in WaitIds : DeadlinePasses(w)) \/ Sweep \/ SweepFault
  <2>1. UNCHANGED worker
    BY <1>5 DEF API, StartRun, AnswerRun, CancelRun, DeadlinePasses, Sweep, SweepFault,
         SweepClaim, SweepResolve, SweepDone, SweepError, SweepCrash
  <2> QED
    BY <1>1, <2>1
<1> QED
  BY <1>1, <1>2, <1>3, <1>4, <1>5 DEF Next, Work, vars

-----------------------------------------------------------------------------
(***************************************************************************)
(* What a run's state says of the rest: a run that does not exist has no   *)
(* step, job in hand or parent; one that has made the last step is over.   *)
(***************************************************************************)

NoneIsEmpty == \A r \in Runs : runState[r] = "none" => steps[r] = {} /\ parent[r] = NoRun
BusyStarted == \A v \in Workers : Busy(v) =>
                 runState[worker[v].run] \notin {"none", "pending"}
LastStepEnds == \A r \in Runs : MaxSteps - 1 \in steps[r] => Terminal(runState[r])
FamilyInv == NotOwnMember /\ NoneIsEmpty /\ BusyStarted /\ LastStepEnds

LEMMA NoneStaysEmpty ==
  ASSUME LoopInv, FamilyInv, [Next]_vars
  PROVE  NoneIsEmpty'
<1> SUFFICES ASSUME NEW r \in Runs, runState'[r] = "none"
             PROVE  steps'[r] = {} /\ parent'[r] = NoRun
  BY DEF NoneIsEmpty
<1>1. RunMoves(r)
  BY EveryRunMoves DEF FamilyInv
<1>2. runState[r] = "none" /\ steps'[r] = steps[r]
  BY <1>1 DEF RunMoves, Stays, Begins, Goes, Answered, Ends, Commits
<1>3. steps[r] = {} /\ parent[r] = NoRun
  BY <1>2 DEF FamilyInv, NoneIsEmpty
<1>4. parent'[r] = parent[r]
  <2>1. CASE ~\E v \in Workers, c \in Children : SpawnCreate(v, c)
    BY <2>1, OnlySpawnCreates
  <2>2. ASSUME NEW v \in Workers, NEW c \in Children, SpawnCreate(v, c)
        PROVE  parent'[r] = parent[r]
    <3>1. r # c
      <4>1. c \in Runs /\ runState' = [runState EXCEPT ![c] = "pending"]
        BY <2>2 DEF SpawnCreate, Runs
      <4> QED
        BY <4>1 DEF LoopInv, TypeInv, TypeOK
    <3> QED
      BY <2>2, <3>1 DEF SpawnCreate, LoopInv, TypeInv, TypeOK
  <2> QED
    BY <2>1, <2>2
<1> QED
  BY <1>2, <1>3, <1>4

LEMMA BusyStaysStarted ==
  ASSUME LoopInv, FamilyInv, [Next]_vars
  PROVE  BusyStarted'
<1> SUFFICES ASSUME NEW u \in Workers, worker'[u].phase # "idle"
             PROVE  runState'[worker'[u].run] \notin {"none", "pending"}
  BY DEF BusyStarted, Busy
<1>0. TypeInv /\ NotOwnMember
  BY DEF LoopInv, FamilyInv
<1>1. Keeps(u) \/ Claims(u)
  BY <1>0, EveryWorkerMoves DEF WorkerMoves
<1>2. CASE Keeps(u)
  <2> DEFINE r == worker[u].run
  <2>1. r \in Runs /\ worker'[u].run = r /\ runState[r] \notin {"none", "pending"}
    BY <1>0, <1>2 DEF Keeps, Busy, TypeInv, WorkerOK, FamilyInv, BusyStarted
  <2>2. RunMoves(r)
    BY <1>0, <2>1, EveryRunMoves
  <2> QED
    BY <2>1, <2>2 DEF RunMoves, Stays, Begins, Goes, Answered, Ends, Commits
<1>3. CASE Claims(u)
  BY <1>0, <1>3 DEF Claims, Claim, TypeInv, TypeOK
<1> QED
  BY <1>1, <1>2, <1>3

LEMMA LastStepStillEnds ==
  ASSUME LoopInv, FamilyInv, [Next]_vars
  PROVE  LastStepEnds'
<1> SUFFICES ASSUME NEW r \in Runs, MaxSteps - 1 \in steps'[r]
             PROVE  Terminal(runState'[r])
  BY DEF LastStepEnds, Terminal
<1>1. RunMoves(r)
  BY EveryRunMoves DEF FamilyInv
<1>2. MaxSteps - 1 \in steps[r] => Terminal(runState[r])
  BY DEF FamilyInv, LastStepEnds
<1>3. ASSUME NEW v \in Workers, Commits(v, r)
      PROVE  Terminal(runState'[r])
  <2>1. worker[v].idx \in Int /\ MaxSteps \in Int
    BY LoopAssumption DEF LoopInv, TypeInv, TypeOK, Steps
  <2> QED
    BY <1>2, <1>3, <2>1 DEF Commits, Terminal
<1> QED
  BY <1>1, <1>2, <1>3 DEF RunMoves, Stays, Begins, Goes, Answered, Ends, Terminal

\* Members are drawn from the children the parent has, and a child is spawned
\* by a run that exists already.
LEMMA FamiliesStay ==
  ASSUME LoopInv, FamilyInv, [Next]_vars
  PROVE  NotOwnMember'
<1>0. /\ parent \in [Runs -> Runs \cup {NoRun}] /\ members \in [WaitIds -> SUBSET Runs]
      /\ runState \in [Runs -> RunStates]
      /\ \A w \in WaitIds : w[1] \in Runs
      /\ Children \subseteq Runs /\ NoRun \notin Runs
  BY LoopAssumption DEF LoopInv, TypeInv, TypeOK, WaitIds, Runs
<1>1. MembersAreChildren /\ NotOwnParent /\ NoneIsEmpty /\ BusyStarted
  BY DEF FamilyInv, NotOwnMember
<1>2. ASSUME NEW v \in Workers, NEW c \in Children, SpawnCreate(v, c)
      PROVE  NotOwnMember'
  <2> DEFINE r == worker[v].run
  <2>1. /\ UNCHANGED members /\ parent' = [parent EXCEPT ![c] = r]
        /\ runState[c] = "none" /\ Busy(v)
    BY <1>2 DEF SpawnCreate, waitVars, Busy
  <2>2. r # c /\ parent[c] = NoRun
    BY <1>0, <1>1, <2>1 DEF BusyStarted, NoneIsEmpty
  <2>3. \A d \in Children : parent'[d] = IF d = c THEN r ELSE parent[d]
    BY <1>0, <2>1
  <2>4. NotOwnParent'
    BY <1>1, <2>2, <2>3 DEF NotOwnParent
  <2>5. MembersAreChildren'
    <3> SUFFICES ASSUME NEW w \in WaitIds, NEW m \in members[w]
                 PROVE  m \in Children /\ parent'[m] = w[1]
      BY <2>1 DEF MembersAreChildren, ChildrenOf
    <3>1. m \in Children /\ parent[m] = w[1]
      BY <1>1 DEF MembersAreChildren, ChildrenOf
    <3>2. m # c
      BY <1>0, <2>2, <3>1
    <3> QED
      BY <2>3, <3>1, <3>2
  <2> QED
    BY <2>4, <2>5 DEF NotOwnMember
<1>3. CASE ~\E v \in Workers, c \in Children : SpawnCreate(v, c)
  <2>1. UNCHANGED parent
    BY <1>3, OnlySpawnCreates
  <2>2. ASSUME UNCHANGED members
        PROVE  NotOwnMember'
    BY <1>1, <2>1, <2>2 DEF NotOwnMember, MembersAreChildren, NotOwnParent, ChildrenOf
  <2>3. ASSUME NEW v \in Workers, NEW M \in SUBSET ChildrenOf(worker[v].run),
               CommitWaitClosed(v, M) \/ CommitWaitPark(v, M)
        PROVE  NotOwnMember'
    <3> DEFINE r == worker[v].run
               u == <<r, worker[v].idx>>
    <3>1. members' = [members EXCEPT ![u] = M]
      BY <2>3 DEF CommitWaitClosed, CommitWaitPark
    <3>2. \A w \in WaitIds : members'[w] = members[w] \/ (w = u /\ members'[w] = M)
      BY <1>0, <3>1
    <3>3. \A w \in WaitIds : members'[w] \subseteq ChildrenOf(w[1])
      BY <1>1, <3>2 DEF MembersAreChildren
    <3> QED
      BY <1>1, <2>1, <3>3 DEF NotOwnMember, MembersAreChildren, NotOwnParent, ChildrenOf
  <2>4. \/ UNCHANGED members
        \/ \E v \in Workers : \E M \in SUBSET ChildrenOf(worker[v].run) :
             CommitWaitClosed(v, M) \/ CommitWaitPark(v, M)
    <3> USE DEF waitVars
    <3>1. CASE UNCHANGED vars
      BY <3>1 DEF vars
    <3>2. CASE API
      BY <3>2 DEF API, StartRun, AnswerRun, CancelRun
    <3>3. ASSUME NEW v \in Workers, Deliver(v)
          PROVE  UNCHANGED members
      BY <3>3 DEF Deliver, ClaimStale, ClaimCancelled, Claim
    <3>4. ASSUME NEW v \in Workers, Execute(v) \/ WorkerFault(v)
          PROVE  UNCHANGED members
      BY <3>4 DEF Execute, WorkerFault, StartStream, Compact, SpawnLookup, SpawnDenied,
              SpawnAdopt, SpawnCreate, SpawnFails, FailRun, StreamCancelled, Retry,
              Redeliver
    <3>5. ASSUME NEW v \in Workers, Commit(v)
          PROVE  \/ UNCHANGED members
                 \/ \E M \in SUBSET ChildrenOf(worker[v].run) :
                      CommitWaitClosed(v, M) \/ CommitWaitPark(v, M)
      BY <3>5 DEF Commit, CommitStale, CommitCancelled, CommitContinue, CommitQuestion,
              CommitComplete, CommitWaitConflict
    <3>6. CASE (\E w \in WaitIds : DeadlinePasses(w)) \/ Sweep \/ SweepFault
      BY <3>6 DEF DeadlinePasses, Sweep, SweepFault, SweepClaim, SweepResolve, SweepDone,
              SweepError, SweepCrash
    <3> QED
      BY <3>1, <3>2, <3>3, <3>4, <3>5, <3>6 DEF Next, Work
  <2> QED
    BY <2>2, <2>3, <2>4
<1> QED
  BY <1>2, <1>3

LEMMA FamilyInvHolds == Spec => []FamilyInv
<1>1. Init => FamilyInv
  <2> SUFFICES ASSUME Init
               PROVE  FamilyInv
    OBVIOUS
  <2>1. /\ \A r \in Runs : runState[r] = "none" /\ steps[r] = {} /\ parent[r] = NoRun
        /\ \A w \in WaitIds : members[w] = {}
        /\ \A v \in Workers : worker[v].phase = "idle"
    BY DEF Init, IdleWorker
  <2> QED
    BY <2>1, LoopAssumption
       DEF FamilyInv, NotOwnMember, MembersAreChildren, NotOwnParent, NoneIsEmpty,
           BusyStarted, Busy, LastStepEnds, Runs
<1>2. LoopInv /\ FamilyInv /\ [Next]_vars => FamilyInv'
  BY NoneStaysEmpty, BusyStaysStarted, LastStepStillEnds, FamiliesStay DEF FamilyInv
<1> QED
  BY <1>1, <1>2, LoopInvHolds, PTL DEF Spec

-----------------------------------------------------------------------------
(***************************************************************************)
(* No orphaned run.  The invariant of the families is all that             *)
(* NoOrphanRun needs to be inductive: each step that consumes the delivery *)
(* of an active run leaves another one, or ends or parks the run.          *)
(***************************************************************************)

HasDelivery(r) == \E i \in Steps \ steps[r] :
                    queue[r][i] > 0 \/ \E v \in Workers : Carries(v, r, i)

\* No delivery of run x for a step not committed yet goes away.
JobsStay(x) == \A j \in Steps \ steps[x] : queue[x][j] > 0 => queue'[x][j] > 0
HandsStay(x) == \A v \in Workers, j \in Steps \ steps[x] :
                  Carries(v, x, j) => Carries(v, x, j)' \/ queue'[x][j] > 0

LEMMA DeliveryStays ==
  ASSUME NEW x \in Runs, HasDelivery(x), steps'[x] = steps[x], JobsStay(x), HandsStay(x)
  PROVE  HasDelivery(x)'
BY DEF HasDelivery, JobsStay, HandsStay

LEMMA NewDelivery ==
  ASSUME NEW x \in Runs, NEW i \in Steps \ steps'[x], queue'[x][i] > 0
  PROVE  HasDelivery(x)'
BY DEF HasDelivery

LEMMA HandsStayWhen ==
  ASSUME TypeInv, NEW v \in Workers, NEW x \in Runs
  PROVE  /\ UNCHANGED worker => HandsStay(x)
         /\ Release(v) /\ x # worker[v].run => HandsStay(x)
         /\ Release(v) /\ worker[v].idx \in steps[x] => HandsStay(x)
         /\ Release(v) /\ worker[v].stale => HandsStay(x)
         /\ Busy(v) /\ BackToStream(v) => HandsStay(x)
<1>0. worker \in [Workers -> WorkerType]
  BY DEF TypeInv, TypeOK, WorkerType, Phases
<1>1. UNCHANGED worker => HandsStay(x)
  BY DEF HandsStay, Carries
<1>2. Release(v) => \A u \in Workers : u # v => worker'[u] = worker[u]
  BY <1>0 DEF Release
<1>3. Release(v) /\ (x # worker[v].run \/ worker[v].idx \in steps[x] \/ worker[v].stale)
        => HandsStay(x)
  BY <1>2 DEF HandsStay, Carries
<1>4. ASSUME Busy(v), BackToStream(v)
      PROVE  HandsStay(x)
  <2>1. \A u \in Workers :
          \/ worker'[u] = worker[u]
          \/ /\ worker'[u].phase = "stream" /\ worker'[u].run = worker[u].run
             /\ worker'[u].idx = worker[u].idx /\ worker'[u].stale = worker[u].stale
    BY <1>0, <1>4 DEF BackToStream, WorkerType
  <2> QED
    BY <2>1 DEF HandsStay, Carries
<1> QED
  BY <1>1, <1>3, <1>4

LEMMA EnqueuedStays ==
  ASSUME TypeInv, NEW r \in Runs, NEW i, queue' = Enqueued(queue, r, i)
  PROVE  /\ \A x \in Runs : JobsStay(x)
         /\ i \in Steps => queue'[r][i] > 0
<1>1. queue \in QueueType /\ \A x \in Runs, j \in Steps : queue[x][j] \in Nat
  BY DEF TypeInv, TypeOK, QueueType
<1>2. \A x \in Runs, j \in Steps :
        queue'[x][j] = IF x = r /\ j = i THEN queue[x][j] + 1 ELSE queue[x][j]
  BY <1>1, QueueTyped
<1> QED
  BY <1>1, <1>2 DEF JobsStay

\* The step after the committed ones, for a run that is not over.
LEMMA NextIsFree ==
  ASSUME LoopInv, FamilyInv, NEW x \in Runs, ~Terminal(runState[x])
  PROVE  NextIndex(steps[x]) \in Steps \ steps[x]
<1> DEFINE n == NextIndex(steps[x])
<1>1. n \in 0 .. MaxSteps /\ steps[x] = 0 .. n - 1
  BY NextIndexIs DEF LoopInv, TypeInv, TypeOK, NoHoles
<1>2. MaxSteps - 1 \notin steps[x]
  BY DEF FamilyInv, LastStepEnds
<1> QED
  BY <1>1, <1>2, LoopAssumption DEF Steps

\* A step that is not committed yet is the next one.
LEMMA CommittedPrefix ==
  ASSUME LoopInv, NEW v \in Workers, Busy(v), worker[v].idx \notin steps[worker[v].run]
  PROVE  /\ steps[worker[v].run] \cup {worker[v].idx} = 0 .. worker[v].idx
         /\ NextIndex(steps[worker[v].run] \cup {worker[v].idx}) = worker[v].idx + 1
         /\ steps[worker[v].run] = 0 .. worker[v].idx - 1
<1> DEFINE r == worker[v].run
           i == worker[v].idx
<1>0. r \in Runs /\ i \in Steps /\ i \in Nat
  BY LoopAssumption DEF LoopInv, TypeInv, TypeOK, WorkerOK, Busy, Steps
<1>1. /\ i \notin steps[r] /\ 0 .. i - 1 \subseteq steps[r] /\ NoHole(steps[r])
      /\ steps[r] \in SUBSET Steps
  BY <1>0 DEF LoopInv, TypeInv, TypeOK, NoHoles, Busy
<1>2. \A j \in steps[r] : j \in Nat /\ j < i
  <2> SUFFICES ASSUME NEW j \in steps[r]
               PROVE  j \in Nat /\ j < i
    OBVIOUS
  <2>1. j \in Nat
    BY <1>1, LoopAssumption DEF Steps
  <2>2. ~(i \in 0 .. j - 1) /\ i # j
    BY <1>1 DEF NoHole
  <2> QED
    BY <1>0, <2>1, <2>2
<1>p. steps[r] = 0 .. i - 1
  <2>1. steps[r] \subseteq 0 .. i - 1
    BY <1>0, <1>2
  <2> QED
    BY <1>1, <2>1
<1>3. steps[r] \cup {i} = 0 .. i
  BY <1>0, <1>p
<1>4. NoHole(0 .. i) /\ 0 .. i \in SUBSET Steps
  BY <1>0, LoopAssumption DEF NoHole, Steps
<1>5. NextIndex(0 .. i) \in 0 .. MaxSteps /\ 0 .. i = 0 .. NextIndex(0 .. i) - 1
  BY <1>4, NextIndexIs
<1>6. NextIndex(0 .. i) = i + 1
  <2> DEFINE n == NextIndex(0 .. i)
  <2>1. n \in Int /\ i \in 0 .. n - 1 /\ i + 1 \notin 0 .. n - 1
    BY <1>0, <1>5, LoopAssumption
  <2> HIDE DEF n
  <2>2. n = i + 1
    BY <1>0, <2>1
  <2> QED
    BY <2>2 DEF n
<1> QED
  BY <1>3, <1>6, <1>p

LEMMA ResumedJobs ==
  ASSUME NEW q \in QueueType, NEW W, NEW x \in Runs
  PROVE  /\ \A j \in Steps : ResumedQueue(W, q)[x][j] >= q[x][j]
         /\ (\E w \in W : w[1] = x) =>
              \A j \in Steps : j = NextIndex(steps[x]) => ResumedQueue(W, q)[x][j] > 0
<1> DEFINE g == [q[x] EXCEPT ![NextIndex(steps[x])] = @ + 1]
<1>1. q[x] \in [Steps -> Nat]
  BY DEF QueueType
<1>2. \A j \in Steps : /\ q[x][j] \in Nat
                       /\ g[j] = IF j = NextIndex(steps[x]) THEN q[x][j] + 1 ELSE q[x][j]
  BY <1>1, Bumped
<1>3. ResumedQueue(W, q)[x] = IF \E w \in W : w[1] = x THEN g ELSE q[x]
  BY DEF ResumedQueue
<1> HIDE DEF g
<1> QED
  BY <1>2, <1>3

\* Settling a run delivers every run it resumes and takes no other's delivery.
LEMMA SettleDelivers ==
  ASSUME LoopInv, FamilyInv, NEW r \in Runs, NEW s, NEW hist, NEW q \in QueueType,
         Settle(r, s, hist, q), NEW x \in Runs, x # r, q[x] = queue[x],
         steps'[x] = steps[x], HandsStay(x), Claimable(x) => HasDelivery(x),
         Claimable(x)'
  PROVE  HasDelivery(x)'
<1> DEFINE live == {w \in ClosedBy(r) : MayResume(w)}
<1>1. /\ queue' = ResumedQueue(live, q)
      /\ runState' = ResumedState(live, [runState EXCEPT ![r] = s])
  BY DEF Settle
<1>2. CASE \E w \in live : w[1] = x
  <2>1. ~Terminal(runState[x])
    BY <1>2 DEF MayResume
  <2>2. NextIndex(steps[x]) \in Steps \ steps[x]
    BY <2>1, NextIsFree
  <2>3. queue'[x][NextIndex(steps[x])] > 0
    BY <1>1, <1>2, <2>2, ResumedJobs
  <2> QED
    BY <2>2, <2>3, NewDelivery
<1>3. CASE ~\E w \in live : w[1] = x
  <2>1. runState'[x] = runState[x]
    BY <1>1, <1>3 DEF ResumedState, LoopInv, TypeInv, TypeOK
  <2>2. HasDelivery(x)
    BY <2>1 DEF Claimable
  <2>3. \A j \in Steps : queue'[x][j] >= queue[x][j] /\ queue[x][j] \in Nat
                         /\ queue'[x][j] \in Nat
    <3>1. queue' \in QueueType /\ queue \in QueueType
      BY <1>1, ResumedQueueTyped DEF LoopInv, TypeInv, TypeOK, QueueType
    <3>2. \A j \in Steps : queue[x][j] \in Nat /\ queue'[x][j] \in Nat
      BY <3>1 DEF QueueType
    <3>3. \A j \in Steps : queue'[x][j] >= queue[x][j]
      BY <1>1, ResumedJobs
    <3> QED
      BY <3>2, <3>3
  <2>4. JobsStay(x)
    BY <2>3 DEF JobsStay
  <2> QED
    BY <2>2, <2>4, DeliveryStays
<1> QED
  BY <1>2, <1>3

Delivered(x) == Claimable(x) => HasDelivery(x)

LEMMA ApiDelivers ==
  ASSUME LoopInv, FamilyInv, API, NEW x \in Runs, Delivered(x), Claimable(x)'
  PROVE  HasDelivery(x)'
<1>0. TypeInv /\ runState \in [Runs -> RunStates] /\ Roots \subseteq Runs
  BY DEF LoopInv, TypeInv, TypeOK, Runs
<1>1. ASSUME NEW r \in Roots, StartRun(r)
      PROVE  HasDelivery(x)'
  <2>1. /\ runState[r] = "none" /\ queue' = Enqueued(queue, r, 0)
        /\ UNCHANGED <<steps, worker>> /\ runState' = [runState EXCEPT ![r] = "pending"]
    BY <1>1 DEF StartRun
  <2>2. JobsStay(x) /\ queue'[r][0] > 0 /\ steps[r] = {}
    BY <1>0, <2>1, EnqueuedStays, ZeroStep DEF FamilyInv, NoneIsEmpty
  <2>3. CASE x = r
    BY <2>1, <2>2, <2>3, ZeroStep, NewDelivery
  <2>4. CASE x # r
    <3>1. Claimable(x)
      BY <1>0, <2>1, <2>4 DEF Claimable
    <3> QED
      BY <1>0, <2>1, <2>2, <3>1, DeliveryStays DEF Delivered, HandsStay, Carries
  <2> QED
    BY <2>3, <2>4
<1>2. ASSUME NEW r \in Runs, AnswerRun(r)
      PROVE  HasDelivery(x)'
  <2> DEFINE n == NextIndex(steps[r])
  <2>1. /\ n < MaxSteps /\ queue' = Enqueued(queue, r, n)
        /\ UNCHANGED <<steps, worker>> /\ runState' = [runState EXCEPT ![r] = "running"]
    BY <1>2 DEF AnswerRun
  <2>2. n \in Steps \ steps[r]
    <3>1. n \in 0 .. MaxSteps /\ steps[r] = 0 .. n - 1
      BY NextIndexIs DEF LoopInv, TypeInv, TypeOK, NoHoles
    <3> QED
      BY <2>1, <3>1, LoopAssumption DEF Steps
  <2>3. JobsStay(x) /\ queue'[r][n] > 0
    BY <1>0, <2>1, <2>2, EnqueuedStays
  <2>4. CASE x = r
    BY <2>1, <2>2, <2>3, <2>4, NewDelivery
  <2>5. CASE x # r
    <3>1. Claimable(x)
      BY <1>0, <2>1, <2>5 DEF Claimable
    <3> QED
      BY <1>0, <2>1, <2>3, <3>1, DeliveryStays DEF Delivered, HandsStay, Carries
  <2> QED
    BY <2>4, <2>5
<1>3. ASSUME NEW r \in Runs, CancelRun(r)
      PROVE  HasDelivery(x)'
  <2>1. /\ UNCHANGED <<steps, worker, queue>>
        /\ UNCHANGED runState \/ runState' = [runState EXCEPT ![r] = "cancelled"]
    BY <1>3 DEF CancelRun
  <2>2. Claimable(x)
    BY <1>0, <2>1 DEF Claimable
  <2> QED
    BY <2>1, <2>2, DeliveryStays DEF Delivered, HandsStay, Carries, JobsStay
<1> QED
  BY <1>1, <1>2, <1>3 DEF API

LEMMA DeliverDelivers ==
  ASSUME LoopInv, FamilyInv, NEW v \in Workers, Deliver(v), NEW x \in Runs,
         Delivered(x), Claimable(x)'
  PROVE  HasDelivery(x)'
<1>0. /\ TypeInv /\ runState \in [Runs -> RunStates] /\ queue \in QueueType
      /\ worker \in [Workers -> WorkerType]
  BY DEF LoopInv, TypeInv, TypeOK, QueueType, WorkerType, Phases
<1>q. ASSUME NEW r \in Runs, NEW i \in Steps
      PROVE  \A y \in Runs, j \in Steps : (y # r \/ j # i) =>
               Dequeued(queue, r, i)[y][j] = queue[y][j]
  <2>1. queue[r] \in [Steps -> Nat] /\ \A y \in Runs : queue[y] \in [Steps -> Nat]
    BY <1>0 DEF QueueType
  <2> QED
    BY <1>0, <2>1 DEF QueueType, Dequeued
<1>1. ASSUME NEW r \in Runs, NEW i \in Steps, ClaimStale(v, r, i)
      PROVE  HasDelivery(x)'
  <2>1. /\ ~Claimable(r) \/ i \in steps[r]
        /\ queue' = Dequeued(queue, r, i) /\ UNCHANGED <<runState, steps, worker>>
    BY <1>1 DEF ClaimStale, runVars
  <2>2. Claimable(x)
    BY <2>1 DEF Claimable
  <2>3. JobsStay(x)
    BY <1>q, <2>1, <2>2 DEF JobsStay
  <2> QED
    BY <2>1, <2>2, <2>3, DeliveryStays DEF Delivered, HandsStay, Carries
<1>2. ASSUME NEW r \in Runs, NEW i \in Steps, ClaimCancelled(v, r, i)
      PROVE  HasDelivery(x)'
  <2>1. /\ Settle(r, "cancelled", history, Dequeued(queue, r, i))
        /\ UNCHANGED <<steps, worker>> /\ queue[r][i] > 0
    BY <1>2 DEF ClaimCancelled
  <2>2. x # r
    BY <1>0, <2>1, SettleRuns DEF Claimable, FamilyInv
  <2>3. Dequeued(queue, r, i) \in QueueType /\ Dequeued(queue, r, i)[x] = queue[x]
    BY <1>0, <2>1, <2>2, QueueShrinks DEF Dequeued, QueueType
  <2>4. HandsStay(x)
    BY <1>0, <2>1, HandsStayWhen
  <2> QED
    BY <2>1, <2>2, <2>3, <2>4, SettleDelivers DEF Delivered
<1>3. ASSUME NEW r \in Runs, NEW i \in Steps, Claim(v, r, i)
      PROVE  HasDelivery(x)'
  <2> DEFINE new == [phase |-> "prepare", run |-> r, idx |-> i,
                     env |-> history[r], stale |-> FALSE, call |-> NoCall]
  <2>1. /\ worker' = [worker EXCEPT ![v] = new] /\ worker[v].phase = "idle"
        /\ new.run = r /\ new.idx = i /\ new.stale = FALSE /\ new.phase = "prepare"
        /\ queue' = Dequeued(queue, r, i) /\ UNCHANGED steps /\ i \notin steps[r]
        /\ runState' = [runState EXCEPT ![r] = "running"]
    BY <1>3 DEF Claim
  <2> HIDE DEF new
  <2>2. worker'[v] = new /\ \A u \in Workers : u # v => worker'[u] = worker[u]
    BY <1>0, <2>1
  <2>3. CASE x = r
    <3>1. Carries(v, r, i)'
      BY <2>1, <2>2 DEF Carries
    <3> QED
      BY <2>1, <2>3, <3>1 DEF HasDelivery
  <2>4. CASE x # r
    <3>1. Claimable(x)
      BY <1>0, <2>1, <2>4 DEF Claimable
    <3>2. JobsStay(x) /\ HandsStay(x)
      BY <1>q, <2>1, <2>2, <2>4 DEF JobsStay, HandsStay, Carries
    <3> QED
      BY <2>1, <3>1, <3>2, DeliveryStays DEF Delivered
  <2> QED
    BY <2>3, <2>4
<1> QED
  BY <1>1, <1>2, <1>3 DEF Deliver

\* A delivery that fails is delivered again, unless that has happened already.
LEMMA RequeueDelivers ==
  ASSUME LoopInv, NEW v \in Workers, Busy(v), Release(v), UNCHANGED <<runState, steps>>,
         queue' = IF worker[v].stale THEN queue
                  ELSE Enqueued(queue, worker[v].run, worker[v].idx),
         NEW x \in Runs, Delivered(x), Claimable(x)'
  PROVE  HasDelivery(x)'
<1>0. TypeInv /\ worker[v].run \in Runs /\ worker[v].idx \in Steps
  BY DEF LoopInv, TypeInv, TypeOK, WorkerOK, Busy
<1>1. HasDelivery(x)
  BY DEF Delivered, Claimable
<1>2. CASE worker[v].stale
  BY <1>0, <1>1, <1>2, HandsStayWhen, DeliveryStays DEF JobsStay
<1>3. CASE ~worker[v].stale
  <2>1. JobsStay(x) /\ queue'[worker[v].run][worker[v].idx] > 0
    BY <1>0, <1>3, EnqueuedStays
  <2>2. HandsStay(x)
    <3>1. \A u \in Workers : u # v => worker'[u] = worker[u]
      BY DEF Release, LoopInv, TypeInv, TypeOK
    <3> QED
      BY <2>1, <3>1 DEF HandsStay, Carries
  <2> QED
    BY <1>1, <2>1, <2>2, DeliveryStays
<1> QED
  BY <1>2, <1>3

LEMMA ExecuteDelivers ==
  ASSUME LoopInv, FamilyInv, NEW v \in Workers, Execute(v) \/ WorkerFault(v),
         NEW x \in Runs, Delivered(x), Claimable(x)'
  PROVE  HasDelivery(x)'
<1>0. /\ TypeInv /\ NotOwnMember /\ runState \in [Runs -> RunStates]
      /\ worker \in [Workers -> WorkerType] /\ queue \in QueueType /\ Children \subseteq Runs
  BY DEF LoopInv, TypeInv, TypeOK, WorkerType, Phases, QueueType, Runs, FamilyInv
<1>w. ASSUME UNCHANGED <<runState, steps, queue>>, HandsStay(x)
      PROVE  HasDelivery(x)'
  BY <1>w, DeliveryStays DEF Delivered, Claimable, JobsStay
<1>h. ASSUME Busy(v), UNCHANGED <<runState, steps, queue>>,
             \A u \in Workers :
               \/ worker'[u] = worker[u]
               \/ /\ worker'[u].phase # "idle" /\ worker'[u].run = worker[u].run
                  /\ worker'[u].idx = worker[u].idx /\ worker'[u].stale = worker[u].stale
      PROVE  HasDelivery(x)'
  BY <1>w, <1>h DEF HandsStay, Carries
<1>1. CASE StartStream(v)
  BY <1>0, <1>h, <1>1 DEF StartStream, WorkerType, Busy, runVars
<1>2. CASE Compact(v)
  <2>1. /\ worker[v].phase = "prepare" /\ UNCHANGED <<runState, steps, queue>>
        /\ \E e : worker' = [worker EXCEPT ![v].phase = "stream", ![v].env = e]
    BY <1>2 DEF Compact
  <2> QED
    BY <1>0, <1>h, <2>1 DEF WorkerType, Busy
<1>3. ASSUME NEW k \in Calls, SpawnLookup(v, k)
      PROVE  HasDelivery(x)'
  BY <1>0, <1>h, <1>3 DEF SpawnLookup, WorkerType, Busy, runVars
<1>4. CASE SpawnDenied(v) \/ SpawnAdopt(v) \/ SpawnFails(v)
  <2>1. Busy(v) /\ BackToStream(v) /\ UNCHANGED <<runState, steps, queue>>
    BY <1>4 DEF SpawnDenied, SpawnAdopt, SpawnFails, Busy, runVars
  <2> QED
    BY <1>0, <1>w, <2>1, HandsStayWhen
<1>5. ASSUME NEW c \in Children, SpawnCreate(v, c)
      PROVE  HasDelivery(x)'
  <2>1. /\ runState[c] = "none" /\ queue' = Enqueued(queue, c, 0) /\ UNCHANGED steps
        /\ runState' = [runState EXCEPT ![c] = "pending"] /\ Busy(v) /\ BackToStream(v)
    BY <1>5 DEF SpawnCreate, Busy
  <2>2. JobsStay(x) /\ queue'[c][0] > 0 /\ steps[c] = {} /\ HandsStay(x)
    BY <1>0, <2>1, EnqueuedStays, HandsStayWhen, ZeroStep DEF FamilyInv, NoneIsEmpty
  <2>3. CASE x = c
    BY <2>1, <2>2, <2>3, ZeroStep, NewDelivery
  <2>4. CASE x # c
    <3>1. Claimable(x)
      BY <1>0, <2>1, <2>4 DEF Claimable
    <3> QED
      BY <2>1, <2>2, <3>1, DeliveryStays DEF Delivered
  <2> QED
    BY <2>3, <2>4
<1>6. CASE FailRun(v) \/ StreamCancelled(v)
  <2> DEFINE r == worker[v].run
  <2>1. r \in Runs /\ Release(v) /\ UNCHANGED steps
    BY <1>0, <1>6 DEF FailRun, StreamCancelled, TypeInv, WorkerOK
  <2>2. ASSUME NEW s \in {"failed", "cancelled"}, Settle(r, s, history, queue)
        PROVE  HasDelivery(x)'
    <3>1. x # r
      BY <1>0, <2>1, <2>2, SettleRuns DEF Claimable
    <3>2. HandsStay(x)
      BY <1>0, <2>1, <3>1, HandsStayWhen
    <3> QED
      BY <1>0, <2>1, <2>2, <3>1, <3>2, SettleDelivers DEF Delivered
  <2>3. ASSUME Terminal(runState[r]), UNCHANGED <<runState, queue>>
        PROVE  HasDelivery(x)'
    <3>1. x # r
      BY <2>3 DEF Claimable, Terminal
    <3> QED
      BY <1>0, <1>w, <2>1, <2>3, <3>1, HandsStayWhen
  <2> QED
    BY <1>6, <2>2, <2>3 DEF FailRun, StreamCancelled
<1>7. CASE Retry(v)
  BY <1>7, RequeueDelivers DEF Retry, Busy, runVars
<1>8. CASE Redeliver(v)
  <2>1. /\ worker[v].run \in Runs /\ worker[v].idx \in Steps
        /\ queue' = Enqueued(queue, worker[v].run, worker[v].idx)
        /\ UNCHANGED <<runState, steps>>
        /\ \A u \in Workers : u # v => worker'[u] = worker[u]
    BY <1>0, <1>8 DEF Redeliver, runVars, TypeInv, WorkerOK, WorkerType
  <2>2. JobsStay(x) /\ queue'[worker[v].run][worker[v].idx] > 0
    BY <1>0, <2>1, EnqueuedStays
  <2>3. HandsStay(x)
    BY <2>1, <2>2 DEF HandsStay, Carries
  <2> QED
    BY <2>1, <2>2, <2>3, DeliveryStays DEF Delivered, Claimable
<1> QED
  BY <1>1, <1>2, <1>3, <1>4, <1>5, <1>6, <1>7, <1>8 DEF Execute, WorkerFault

LEMMA CommitDelivers ==
  ASSUME LoopInv, FamilyInv, NEW v \in Workers, Commit(v), NEW x \in Runs,
         Delivered(x), Claimable(x)'
  PROVE  HasDelivery(x)'
<1> DEFINE r == worker[v].run
           i == worker[v].idx
<1>0. /\ TypeInv /\ NotOwnMember /\ NoHoles /\ runState \in [Runs -> RunStates]
      /\ queue \in QueueType /\ steps \in [Runs -> SUBSET Steps]
  BY DEF LoopInv, TypeInv, TypeOK, QueueType, FamilyInv
<1>b. Busy(v) /\ Release(v)
  BY DEF Commit, CommitStale, CommitCancelled, CommitContinue, CommitQuestion,
         CommitComplete, CommitWaitConflict, CommitWaitClosed, CommitWaitPark,
         WaitCommit, Busy
<1>r. r \in Runs /\ i \in Steps /\ i \in Nat
  BY <1>0, <1>b, LoopAssumption DEF TypeInv, TypeOK, WorkerOK, Busy, Steps
<1>h. x # r => HandsStay(x)
  BY <1>0, <1>b, HandsStayWhen
<1>s. steps' = CommittedSteps(v) =>
        \A y \in Runs : steps'[y] = IF y = r THEN steps[r] \cup {i} ELSE steps[y]
  BY <1>0, <1>r DEF CommittedSteps
\* A commit of r, with what it enqueues for r.
<1>c. ASSUME steps' = CommittedSteps(v), x # r, JobsStay(x),
             UNCHANGED runState \/ runState' = [runState EXCEPT ![r] = "awaiting"]
      PROVE  HasDelivery(x)'
  <2>1. Claimable(x)
    BY <1>0, <1>c DEF Claimable
  <2> QED
    BY <1>c, <1>h, <1>s, <2>1, DeliveryStays DEF Delivered
<1>n. Committable(r, i) => NextIndex(steps[r] \cup {i}) = i + 1
                           /\ steps[r] \cup {i} = 0 .. i
  BY <1>b, CommittedPrefix DEF Committable
<1>g. ASSUME steps' = CommittedSteps(v), Committable(r, i), i + 1 < MaxSteps,
             queue' = Enqueued(queue, r, i + 1), UNCHANGED runState
      PROVE  HasDelivery(x)'
  <2>1. JobsStay(x) /\ i + 1 \in Steps /\ queue'[r][i + 1] > 0
    <3>1. i + 1 \in Steps
      BY <1>g, <1>r, LoopAssumption DEF Steps
    <3> QED
      BY <1>0, <1>g, <1>r, <3>1, EnqueuedStays
  <2>2. i + 1 \notin steps'[r]
    BY <1>g, <1>n, <1>r, <1>s
  <2>3. CASE x = r
    BY <2>1, <2>2, <2>3, NewDelivery
  <2>4. CASE x # r
    BY <1>c, <1>g, <2>1, <2>4
  <2> QED
    BY <2>3, <2>4
<1>1. CASE CommitStale(v)
  <2>1. /\ runState[r] # "running" \/ i \in steps[r]
        /\ UNCHANGED <<runState, steps, queue>>
    BY <1>1 DEF CommitStale, runVars
  <2>2. runState[r] # "pending"
    BY <1>b DEF FamilyInv, BusyStarted
  <2>3. Claimable(x) /\ (x = r => i \in steps[r])
    BY <2>1, <2>2 DEF Claimable
  <2>4. HandsStay(x)
    BY <1>0, <1>b, <1>h, <2>3, HandsStayWhen
  <2> QED
    BY <2>1, <2>3, <2>4, DeliveryStays DEF Delivered, JobsStay
<1>2. CASE CommitCancelled(v)
  <2>1. Settle(r, "cancelled", history, queue) /\ UNCHANGED steps
    BY <1>2 DEF CommitCancelled
  <2>2. x # r
    BY <1>0, <1>r, <2>1, SettleRuns DEF Claimable
  <2> QED
    BY <1>0, <1>h, <1>r, <2>1, <2>2, SettleDelivers DEF Delivered
<1>3. CASE CommitContinue(v)
  BY <1>3, <1>g DEF CommitContinue
<1>4. ASSUME steps' = CommittedSteps(v), UNCHANGED queue,
             runState' = [runState EXCEPT ![r] = "awaiting"]
      PROVE  HasDelivery(x)'
  <2>1. x # r
    BY <1>0, <1>4, <1>r DEF Claimable
  <2> QED
    BY <1>4, <1>c, <2>1 DEF JobsStay
<1>5. CASE CommitComplete(v)
  <2>1. Settle(r, "completed", CommittedHistory(v), queue) /\ steps' = CommittedSteps(v)
    BY <1>5 DEF CommitComplete
  <2>2. x # r
    BY <1>0, <1>r, <2>1, SettleRuns DEF Claimable
  <2>3. steps'[x] = steps[x]
    BY <1>s, <2>1, <2>2
  <2> QED
    BY <1>0, <1>h, <1>r, <2>1, <2>2, <2>3, SettleDelivers DEF Delivered
<1>6. ASSUME NEW M, CommitWaitConflict(v, M)
      PROVE  HasDelivery(x)'
  BY <1>6, <1>b, RequeueDelivers DEF CommitWaitConflict, runVars
<1>7. ASSUME NEW M, CommitWaitClosed(v, M)
      PROVE  HasDelivery(x)'
  <2>1. /\ steps' = CommittedSteps(v) /\ Committable(r, i) /\ i + 1 < MaxSteps
        /\ queue' = Enqueued(queue, r, NextIndex(steps[r] \cup {i})) /\ UNCHANGED runState
    BY <1>7 DEF CommitWaitClosed, WaitCommit
  <2> QED
    BY <1>g, <1>n, <2>1
<1> QED
  BY <1>1, <1>2, <1>3, <1>4, <1>5, <1>6, <1>7 DEF Commit, CommitQuestion, CommitWaitPark

LEMMA SweepDelivers ==
  ASSUME LoopInv, FamilyInv, NEW x \in Runs, Delivered(x), Claimable(x)',
         (\E w \in WaitIds : DeadlinePasses(w)) \/ Sweep \/ SweepFault
  PROVE  HasDelivery(x)'
<1>0. TypeInv /\ queue \in QueueType
  BY DEF LoopInv, TypeInv, TypeOK, QueueType
<1>1. CASE UNCHANGED <<runState, steps, queue, worker>>
  BY <1>1, DeliveryStays DEF Delivered, Claimable, JobsStay, HandsStay, Carries
<1>2. ASSUME NEW w \in WaitIds, SweepResolve(w)
      PROVE  HasDelivery(x)'
  <2> DEFINE live == {u \in {w} : MayResume(u)}
  <2>1. /\ UNCHANGED <<steps, worker>> /\ runState' = ResumedState(live, runState)
        /\ queue' = ResumedQueue(live, queue)
    BY <1>2 DEF SweepResolve
  <2>2. CASE \E u \in live : u[1] = x
    <3>1. ~Terminal(runState[x])
      BY <2>2 DEF MayResume
    <3>2. NextIndex(steps[x]) \in Steps \ steps[x]
      BY <3>1, NextIsFree
    <3>3. queue'[x][NextIndex(steps[x])] > 0
      BY <1>0, <2>1, <2>2, <3>2, ResumedJobs
    <3> QED
      BY <2>1, <3>2, <3>3, NewDelivery
  <2>3. CASE ~\E u \in live : u[1] = x
    <3>1. runState'[x] = runState[x] /\ queue'[x] = queue[x]
      BY <2>1, <2>3, Zenon DEF ResumedState, ResumedQueue
    <3> QED
      BY <2>1, <3>1, DeliveryStays DEF Delivered, Claimable, JobsStay, HandsStay, Carries
  <2> QED
    BY <2>2, <2>3
<1> QED
  BY <1>1, <1>2
     DEF DeadlinePasses, Sweep, SweepFault, SweepClaim, SweepDone, SweepError,
         SweepCrash, runVars

\* A run that should be advancing always has a delivery of a step it has not
\* committed, queued or in the hands of a worker that answers for it: with any
\* number of workers, failures and duplicates no acknowledgement drops the last.
THEOREM NoOrphanRunHolds == Spec => []NoOrphanRun
<1> DEFINE Inv == \A x \in Runs : Delivered(x)
<1>1. Init => Inv
  BY DEF Init, Delivered, Claimable
<1>2. LoopInv /\ FamilyInv /\ Inv /\ [Next]_vars => Inv'
  <2> SUFFICES ASSUME LoopInv, FamilyInv, Inv, [Next]_vars, NEW x \in Runs, Claimable(x)'
               PROVE  HasDelivery(x)'
    BY DEF Delivered
  <2>1. Delivered(x)
    OBVIOUS
  <2>2. CASE UNCHANGED vars
    BY <2>1, <2>2 DEF vars, runVars, Delivered, Claimable, HasDelivery, Carries
  <2> QED
    BY <2>1, <2>2, ApiDelivers, DeliverDelivers, ExecuteDelivers, CommitDelivers,
       SweepDelivers DEF Next, Work
<1>3. Inv => NoOrphanRun
  BY DEF Delivered, HasDelivery, NoOrphanRun
<1> QED
  BY <1>1, <1>2, <1>3, LoopInvHolds, FamilyInvHolds, PTL DEF Spec

-----------------------------------------------------------------------------
(***************************************************************************)
(* Open waits have somebody to wait for.  A settled run closes the waits   *)
(* whose last pending member it was, in the same transaction.              *)
(***************************************************************************)

Alive(m) == ~Terminal(runState[m]) \/ runState[m] = "cancelled"
Awaited(w) == \E m \in members[w] : Alive(m)

LEMMA AwaitedStays ==
  ASSUME NEW w \in WaitIds, waitState[w] = "open" => Awaited(w),
         waitState'[w] = "open" => waitState[w] = "open",
         members'[w] = members[w], \A m \in members[w] : Alive(m) => Alive(m)',
         waitState'[w] = "open"
  PROVE  Awaited(w)'
BY DEF Awaited

LEMMA SettleAwaited ==
  ASSUME LoopInv, FamilyInv, NEW r \in Runs, NEW s \in RunStates, NEW hist, NEW q,
         Settle(r, s, hist, q), UNCHANGED members, NEW w \in WaitIds,
         waitState[w] = "open" => Awaited(w), waitState'[w] = "open"
  PROVE  Awaited(w)'
<1>0. TypeInv /\ NotOwnMember /\ members[w] \in SUBSET Runs
  BY DEF LoopInv, FamilyInv, TypeInv, TypeOK
<1>1. waitState[w] = "open" /\ w \notin ClosedBy(r)
  BY DEF Settle, AbandonWaits
<1>2. /\ runState'[r] = s
      /\ \A x \in Runs : x # r => \/ runState'[x] = runState[x]
                                  \/ ~Terminal(runState[x]) /\ runState'[x] = "running"
  BY <1>0, SettleRuns
<1>3. \A m \in members[w] : m # r /\ Alive(m) => Alive(m)'
  BY <1>0, <1>2 DEF Alive, Terminal
<1>4. \E m \in members[w] : m # r /\ Alive(m)
  BY <1>1 DEF ClosedBy, Awaited, Alive
<1> QED
  BY <1>3, <1>4 DEF Awaited

LEMMA AwaitedStep ==
  ASSUME LoopInv, FamilyInv, Next, NEW w \in WaitIds,
         waitState[w] = "open" => Awaited(w), waitState'[w] = "open"
  PROVE  Awaited(w)'
<1>0. /\ TypeInv /\ NotOwnMember /\ runState \in [Runs -> RunStates]
      /\ members \in [WaitIds -> SUBSET Runs] /\ Roots \subseteq Runs /\ Children \subseteq Runs
      /\ waitState \in [WaitIds -> WaitStates]
  BY DEF LoopInv, FamilyInv, TypeInv, TypeOK, Runs
<1>a. ASSUME UNCHANGED members, waitState[w] = "open",
             \A m \in Runs : Alive(m) => Alive(m)'
      PROVE  Awaited(w)'
  BY <1>0, <1>a, AwaitedStays
<1>b. \A s \in {"pending", "running", "awaiting", "cancelled"}, r \in Runs :
        runState' = [runState EXCEPT ![r] = s] => \A m \in Runs : Alive(m) => Alive(m)'
  BY <1>0 DEF Alive, Terminal
<1>c. UNCHANGED runState => \A m \in Runs : Alive(m) => Alive(m)'
  BY DEF Alive
<1>q. ASSUME UNCHANGED <<runState, waitVars>>
      PROVE  Awaited(w)'
  BY <1>a, <1>c, <1>q DEF waitVars
<1>1. CASE API
  <2>1. ASSUME NEW r \in Runs, CancelRun(r)
        PROVE  Awaited(w)'
    <3>1. CASE runState[r] = "awaiting"
      <4>1. /\ runState' = [runState EXCEPT ![r] = "cancelled"] /\ UNCHANGED members
            /\ waitState' = AbandonWaits(r, waitState)
        BY <2>1, <3>1 DEF CancelRun
      <4>2. waitState[w] = "open"
        BY <4>1 DEF AbandonWaits
      <4> QED
        BY <1>a, <1>b, <4>1, <4>2
    <3>2. CASE runState[r] # "awaiting"
      BY <1>a, <1>c, <2>1, <3>2 DEF CancelRun
    <3> QED
      BY <3>1, <3>2
  <2>2. ASSUME NEW r \in Runs, StartRun(r) \/ AnswerRun(r)
        PROVE  Awaited(w)'
    <3>1. \E s \in {"pending", "running"} : runState' = [runState EXCEPT ![r] = s]
      BY <2>2 DEF StartRun, AnswerRun
    <3>2. UNCHANGED <<members, waitState>>
      BY <2>2 DEF StartRun, AnswerRun, waitVars
    <3> QED
      BY <1>a, <1>b, <3>1, <3>2
  <2> QED
    BY <1>0, <1>1, <2>1, <2>2 DEF API
<1>2. ASSUME NEW v \in Workers, Deliver(v)
      PROVE  Awaited(w)'
  <2>1. ASSUME NEW r \in Runs, NEW i \in Steps, ClaimStale(v, r, i)
        PROVE  Awaited(w)'
    BY <1>q, <2>1 DEF ClaimStale, runVars
  <2>2. ASSUME NEW r \in Runs, NEW i \in Steps, ClaimCancelled(v, r, i)
        PROVE  Awaited(w)'
    BY <2>2, SettleAwaited DEF ClaimCancelled, RunStates
  <2>3. ASSUME NEW r \in Runs, NEW i \in Steps, Claim(v, r, i)
        PROVE  Awaited(w)'
    BY <1>a, <1>b, <2>3 DEF Claim, waitVars
  <2> QED
    BY <1>2, <2>1, <2>2, <2>3 DEF Deliver
<1>3. ASSUME NEW v \in Workers, Execute(v) \/ WorkerFault(v)
      PROVE  Awaited(w)'
  <2>1. ASSUME NEW c \in Children, SpawnCreate(v, c)
        PROVE  Awaited(w)'
    BY <1>0, <1>a, <1>b, <2>1 DEF SpawnCreate, waitVars
  <2>2. CASE FailRun(v) \/ StreamCancelled(v)
    <3>1. worker[v].run \in Runs /\ UNCHANGED members
      BY <1>0, <2>2 DEF FailRun, StreamCancelled, TypeInv, WorkerOK
    <3>2. \/ UNCHANGED <<runState, waitState, resumed>>
          \/ \E s \in RunStates : Settle(worker[v].run, s, history, queue)
      BY <2>2 DEF FailRun, StreamCancelled, RunStates
    <3> QED
      BY <1>q, <3>1, <3>2, SettleAwaited DEF waitVars
  <2> QED
    BY <1>3, <1>q, <2>1, <2>2
       DEF Execute, WorkerFault, StartStream, Compact, SpawnLookup, SpawnDenied,
           SpawnAdopt, SpawnFails, Retry, Redeliver, runVars
<1>4. ASSUME NEW v \in Workers, Commit(v)
      PROVE  Awaited(w)'
  <2> DEFINE r == worker[v].run
             u == <<r, worker[v].idx>>
  <2>r. r \in Runs
    <3>1. worker[v].phase # "idle"
      BY <1>4 DEF Commit, CommitStale, CommitCancelled, CommitContinue, CommitQuestion,
           CommitComplete, CommitWaitConflict, CommitWaitClosed, CommitWaitPark,
           WaitCommit
    <3> QED
      BY <1>0, <3>1 DEF TypeInv, WorkerOK
  <2>1. CASE CommitStale(v) \/ CommitContinue(v)
    BY <1>q, <2>1 DEF CommitStale, CommitContinue, runVars
  <2>2. CASE CommitQuestion(v)
    BY <1>a, <1>b, <2>2, <2>r DEF CommitQuestion, waitVars
  <2>3. CASE CommitCancelled(v) \/ CommitComplete(v)
    <3>1. UNCHANGED members /\ \E s \in RunStates : \E h : Settle(r, s, h, queue)
      BY <2>3 DEF CommitCancelled, CommitComplete, RunStates
    <3> QED
      BY <2>r, <3>1, SettleAwaited
  <2>4. ASSUME NEW M, CommitWaitConflict(v, M)
        PROVE  Awaited(w)'
    BY <1>q, <2>4 DEF CommitWaitConflict, runVars
  <2>5. ASSUME NEW M, CommitWaitClosed(v, M)
        PROVE  Awaited(w)'
    <3>1. /\ waitState' = [waitState EXCEPT ![u] = "resolved"]
          /\ members' = [members EXCEPT ![u] = M] /\ UNCHANGED runState
      BY <2>5 DEF CommitWaitClosed
    <3>2. w # u /\ waitState[w] = "open" /\ members'[w] = members[w]
      BY <1>0, <3>1
    <3> QED
      BY <1>0, <1>c, <3>1, <3>2, AwaitedStays
  <2>6. ASSUME NEW M \in SUBSET ChildrenOf(r), CommitWaitPark(v, M)
        PROVE  Awaited(w)'
    <3>1. /\ waitState' = [waitState EXCEPT ![u] = "open"] /\ OpenWaits(r) = {}
          /\ members' = [members EXCEPT ![u] = M]
          /\ runState' = [runState EXCEPT ![r] = "awaiting"]
      BY <2>6 DEF CommitWaitPark
    <3>2. \A m \in Runs : Alive(m) => Alive(m)'
      BY <1>b, <2>r, <3>1
    <3>3. CASE w = u
      <4>1. PICK m \in M : ~Terminal(runState[m])
        BY <2>6 DEF CommitWaitPark
      <4>2. m \in Runs /\ Alive(m)
        BY <1>0, <4>1 DEF ChildrenOf, Alive
      <4>3. members'[w] = M
        BY <1>0, <3>1, <3>3
      <4> QED
        BY <3>2, <4>1, <4>2, <4>3 DEF Awaited
    <3>4. CASE w # u
      <4>1. waitState[w] = "open" /\ members'[w] = members[w]
        BY <1>0, <3>1, <3>4
      <4> QED
        BY <1>0, <3>2, <4>1, AwaitedStays
    <3> QED
      BY <3>3, <3>4
  <2> QED
    BY <1>4, <2>1, <2>2, <2>3, <2>4, <2>5, <2>6 DEF Commit
<1>5. CASE (\E u \in WaitIds : DeadlinePasses(u)) \/ Sweep \/ SweepFault
  <2>1. UNCHANGED members
    BY <1>5 DEF DeadlinePasses, Sweep, SweepFault, SweepClaim, SweepResolve, SweepDone,
         SweepError, SweepCrash, waitVars
  <2>2. waitState[w] = "open"
    <3>1. CASE UNCHANGED waitState
      BY <3>1
    <3>2. ASSUME NEW job, NEW sk, SweepClaim(job, sk)
          PROVE  waitState[w] = "open"
      <4>1. PICK C : waitState' = [x \in WaitIds |-> IF x \in C THEN "timed_out"
                                                     ELSE waitState[x]]
        BY <3>2 DEF SweepClaim
      <4> QED
        BY <4>1
    <3> QED
      BY <1>5, <3>1, <3>2 DEF DeadlinePasses, Sweep, SweepFault, SweepResolve, SweepDone,
         SweepError, SweepCrash, waitVars
  <2>3. \A m \in Runs : Alive(m) => Alive(m)'
    <3>1. CASE UNCHANGED runState
      BY <1>c, <3>1
    <3>2. ASSUME NEW u \in WaitIds, SweepResolve(u)
          PROVE  \A m \in Runs : Alive(m) => Alive(m)'
      <4>1. PICK L : runState' = ResumedState(L, runState)
        BY <3>2 DEF SweepResolve
      <4> QED
        BY <4>1 DEF ResumedState, Alive, Terminal
    <3> QED
      BY <1>5, <3>1, <3>2 DEF DeadlinePasses, Sweep, SweepFault, SweepClaim, SweepDone,
         SweepError, SweepCrash, runVars
  <2> QED
    BY <1>a, <2>1, <2>2, <2>3
<1> QED
  BY <1>1, <1>2, <1>3, <1>4, <1>5 DEF Next, Work

\* An open wait has a member still pending, or one that was cancelled, for any
\* number of children finishing in any order: no child that completes or fails
\* leaves its parent's wait open behind it.
THEOREM OpenWaitStillPendingHolds == Spec => []OpenWaitStillPending
<1> DEFINE Inv == \A w \in WaitIds : waitState[w] = "open" => Awaited(w)
<1>1. Init => Inv
  BY DEF Init
<1>2. LoopInv /\ FamilyInv /\ Inv /\ [Next]_vars => Inv'
  <2> SUFFICES ASSUME LoopInv, FamilyInv, Inv, [Next]_vars, NEW w \in WaitIds,
                      waitState'[w] = "open"
               PROVE  Awaited(w)'
    OBVIOUS
  <2>1. waitState[w] = "open" => Awaited(w)
    OBVIOUS
  <2>2. CASE UNCHANGED vars
    BY <2>1, <2>2 DEF vars, runVars, waitVars, Awaited, Alive
  <2> QED
    BY <2>1, <2>2, AwaitedStep
<1>3. Inv => OpenWaitStillPending
  BY DEF Awaited, Alive, OpenWaitStillPending
<1> QED
  BY <1>1, <1>2, <1>3, LoopInvHolds, FamilyInvHolds, PTL DEF Spec

-----------------------------------------------------------------------------
(***************************************************************************)
(* How a step moves a wait: the transaction that spends the resumption of  *)
(* a wait leaves its parent in a state other than awaiting.                *)
(***************************************************************************)

Woken(w)       == w \in resumed \/ runState'[w[1]] # "awaiting"
WaitStays(w)   == waitState'[w] = waitState[w] /\ (w \in resumed' <=> w \in resumed)
WaitCloses(w)  == /\ waitState[w] = "open" /\ waitState'[w] \in {"resolved", "abandoned"}
                  /\ Woken(w)
WaitTimesOut(w) == /\ waitState[w] = "open" /\ waitState'[w] = "timed_out"
                   /\ w \in resumed' => w \in resumed
                   /\ w \in sweeper'.claimed
WaitResolves(w) == /\ w \in sweeper.claimed /\ waitState'[w] = waitState[w]
                   /\ w \in resumed' /\ Woken(w)
WaitIsMade(v, w) ==
  /\ w[1] \in Runs /\ Commits(v, w[1]) /\ worker[v].idx = w[2]
  /\ \/ waitState'[w] = "open" /\ w \in sweepJobs' /\ (w \in resumed' => w \in resumed)
     \/ waitState'[w] = "resolved" /\ runState'[w[1]] # "awaiting"

WaitMoves(w) == \/ WaitStays(w) \/ WaitCloses(w) \/ WaitTimesOut(w) \/ WaitResolves(w)
                \/ \E v \in Workers : WaitIsMade(v, w)

LEMMA SettleWaits ==
  ASSUME TypeInv, NotOwnMember, NEW r \in Runs, NEW s, s # "awaiting", NEW hist, NEW q,
         Settle(r, s, hist, q), NEW w \in WaitIds
  PROVE  WaitMoves(w)
<1> DEFINE live == {u \in ClosedBy(r) : MayResume(u)}
<1>0. w[1] \in Runs
  BY DEF WaitIds
<1>1. /\ runState' = ResumedState(live, [runState EXCEPT ![r] = s])
      /\ waitState' = AbandonWaits(r, [u \in WaitIds |->
                         IF u \in ClosedBy(r) THEN "resolved" ELSE waitState[u]])
      /\ resumed' = resumed \cup ClosedBy(r) \cup OpenWaits(r)
  BY DEF Settle
<1>2. /\ runState'[r] = s
      /\ \A x \in Runs : x # r => \/ runState'[x] = runState[x]
                                  \/ ~Terminal(runState[x]) /\ runState'[x] = "running"
  BY SettleRuns
<1>3. CASE w \in OpenWaits(r)
  <2>1. waitState[w] = "open" /\ w[1] = r /\ waitState'[w] = "abandoned"
    BY <1>1, <1>3 DEF OpenWaits, AbandonWaits
  <2> QED
    BY <1>2, <2>1 DEF WaitMoves, WaitCloses, Woken
<1>4. CASE w \in ClosedBy(r) /\ w \notin OpenWaits(r)
  <2>1. waitState[w] = "open" /\ waitState'[w] = "resolved" /\ w[1] # r
    BY <1>1, <1>4 DEF AbandonWaits, ClosedBy, OpenWaits
  <2>2. CASE MayResume(w)
    <3>1. runState'[w[1]] = "running"
      BY <1>0, <1>1, <1>4, <2>2 DEF ResumedState
    <3> QED
      BY <2>1, <3>1 DEF WaitMoves, WaitCloses, Woken
  <2>3. CASE ~MayResume(w)
    <3>1. w \in resumed \/ Terminal(runState[w[1]])
      BY <2>3 DEF MayResume
    <3>2. Woken(w)
      BY <1>0, <1>2, <2>1, <3>1 DEF Woken, Terminal
    <3> QED
      BY <2>1, <3>2 DEF WaitMoves, WaitCloses
  <2> QED
    BY <2>2, <2>3
<1>5. CASE w \notin ClosedBy(r) /\ w \notin OpenWaits(r)
  BY <1>1, <1>5 DEF AbandonWaits, WaitMoves, WaitStays
<1> QED
  BY <1>3, <1>4, <1>5

LEMMA CommitWaits ==
  ASSUME LoopInv, FamilyInv, NEW v \in Workers, Commit(v), NEW w \in WaitIds
  PROVE  WaitMoves(w)
<1> DEFINE r == worker[v].run
           i == worker[v].idx
           u == <<r, i>>
<1>0. /\ TypeInv /\ NotOwnMember /\ runState \in [Runs -> RunStates]
      /\ waitState \in [WaitIds -> WaitStates] /\ steps \in [Runs -> SUBSET Steps]
  BY DEF LoopInv, FamilyInv, TypeInv, TypeOK
<1>r. Busy(v) /\ r \in Runs
  <2>1. worker[v].phase # "idle"
    BY DEF Commit, CommitStale, CommitCancelled, CommitContinue, CommitQuestion,
           CommitComplete, CommitWaitConflict, CommitWaitClosed, CommitWaitPark,
           WaitCommit
  <2> QED
    BY <1>0, <2>1 DEF TypeInv, WorkerOK, Busy
<1>q. ASSUME UNCHANGED <<waitState, resumed>>
      PROVE  WaitMoves(w)
  BY <1>q DEF WaitMoves, WaitStays
<1>s. steps' = CommittedSteps(v) => steps'[r] = steps[r] \cup {i}
  BY <1>0, <1>r DEF CommittedSteps
<1>1. CASE CommitStale(v) \/ CommitContinue(v) \/ CommitQuestion(v)
           \/ \E M : CommitWaitConflict(v, M)
  BY <1>1, <1>q DEF CommitStale, CommitContinue, CommitQuestion, CommitWaitConflict,
       waitVars
<1>2. CASE CommitCancelled(v) \/ CommitComplete(v)
  <2>1. \E s, h : s # "awaiting" /\ Settle(r, s, h, queue)
    BY <1>2 DEF CommitCancelled, CommitComplete
  <2> QED
    BY <1>0, <1>r, <2>1, SettleWaits
<1>3. ASSUME NEW M, CommitWaitClosed(v, M)
      PROVE  WaitMoves(w)
  <2>1. /\ waitState' = [waitState EXCEPT ![u] = "resolved"] /\ resumed' = resumed \cup {u}
        /\ UNCHANGED runState /\ steps' = CommittedSteps(v) /\ Committable(r, i)
        /\ i + 1 < MaxSteps
    BY <1>3 DEF CommitWaitClosed, WaitCommit
  <2>2. CASE w = u
    <3>1. waitState'[w] = "resolved" /\ w[1] = r /\ w[2] = i
      BY <1>0, <2>1, <2>2
    <3>2. runState'[r] # "awaiting" /\ Commits(v, r)
      BY <1>r, <1>s, <2>1 DEF Committable, Commits
    <3> QED
      BY <1>r, <3>1, <3>2 DEF WaitMoves, WaitIsMade
  <2>3. CASE w # u
    BY <1>0, <2>1, <2>3 DEF WaitMoves, WaitStays
  <2> QED
    BY <2>2, <2>3
<1>4. ASSUME NEW M, CommitWaitPark(v, M)
      PROVE  WaitMoves(w)
  <2>1. /\ waitState' = [waitState EXCEPT ![u] = "open"] /\ UNCHANGED resumed
        /\ runState' = [runState EXCEPT ![r] = "awaiting"] /\ steps' = CommittedSteps(v)
        /\ Committable(r, i) /\ i + 1 < MaxSteps /\ sweepJobs' = sweepJobs \cup {u}
    BY <1>4 DEF CommitWaitPark, WaitCommit, Armed
  <2>2. CASE w = u
    <3>1. waitState'[w] = "open" /\ w[1] = r /\ w[2] = i /\ w \in sweepJobs'
      BY <1>0, <2>1, <2>2
    <3>2. Commits(v, r)
      BY <1>0, <1>r, <1>s, <2>1 DEF Committable, Commits
    <3> QED
      BY <1>r, <2>1, <3>1, <3>2 DEF WaitMoves, WaitIsMade
  <2>3. CASE w # u
    BY <1>0, <2>1, <2>3 DEF WaitMoves, WaitStays
  <2> QED
    BY <2>2, <2>3
<1> QED
  BY <1>1, <1>2, <1>3, <1>4 DEF Commit

LEMMA SweepWaits ==
  ASSUME LoopInv, NEW w \in WaitIds,
         (\E u \in WaitIds : DeadlinePasses(u)) \/ Sweep \/ SweepFault
  PROVE  WaitMoves(w)
<1>1. CASE UNCHANGED <<waitState, resumed>>
  BY <1>1 DEF WaitMoves, WaitStays
<1>2. ASSUME NEW job, NEW sk, SweepClaim(job, sk)
      PROVE  WaitMoves(w)
  <2>1. PICK C \in SUBSET ({u \in due : waitState[u] = "open"} \ sk) :
          /\ waitState' = [x \in WaitIds |-> IF x \in C THEN "timed_out" ELSE waitState[x]]
          /\ sweeper'.claimed = C
    BY <1>2 DEF SweepClaim
  <2>2. UNCHANGED resumed
    BY <1>2 DEF SweepClaim
  <2> QED
    BY <2>1, <2>2 DEF WaitMoves, WaitStays, WaitTimesOut
<1>3. ASSUME NEW u \in WaitIds, SweepResolve(u)
      PROVE  WaitMoves(w)
  <2> DEFINE live == {x \in {u} : MayResume(x)}
  <2>1. /\ u \in sweeper.claimed /\ resumed' = resumed \cup {u} /\ UNCHANGED waitState
        /\ runState' = ResumedState(live, runState)
    BY <1>3 DEF SweepResolve
  <2>2. CASE w # u
    BY <2>1, <2>2 DEF WaitMoves, WaitStays
  <2>3. CASE w = u
    <3>0. w[1] \in Runs
      BY DEF WaitIds
    <3>1. CASE MayResume(u)
      <4>1. runState'[w[1]] = "running"
        BY <2>1, <2>3, <3>0, <3>1 DEF ResumedState
      <4> QED
        BY <2>1, <2>3, <4>1 DEF WaitMoves, WaitResolves, Woken
    <3>2. CASE ~MayResume(u)
      <4>1. w \in resumed \/ Terminal(runState[w[1]])
        BY <2>3, <3>2 DEF MayResume
      <4>2. runState'[w[1]] = runState[w[1]]
        <5>1. live = {}
          BY <3>2
        <5> QED
          BY <2>1, <3>0, <5>1 DEF ResumedState
      <4> QED
        BY <2>1, <2>3, <4>1, <4>2 DEF WaitMoves, WaitResolves, Woken, Terminal
    <3> QED
      BY <3>1, <3>2
  <2> QED
    BY <2>2, <2>3
<1> QED
  BY <1>1, <1>2, <1>3
     DEF DeadlinePasses, Sweep, SweepFault, SweepDone, SweepError, SweepCrash, waitVars

LEMMA EveryWaitMoves ==
  ASSUME LoopInv, FamilyInv, [Next]_vars, NEW w \in WaitIds
  PROVE  WaitMoves(w)
<1>0. TypeInv /\ NotOwnMember
  BY DEF LoopInv, FamilyInv
<1>q. ASSUME UNCHANGED <<waitState, resumed>>
      PROVE  WaitMoves(w)
  BY <1>q DEF WaitMoves, WaitStays
<1>1. CASE API
  <2>1. ASSUME NEW r \in Runs, CancelRun(r), runState[r] = "awaiting"
        PROVE  WaitMoves(w)
    <3>1. /\ runState' = [runState EXCEPT ![r] = "cancelled"]
          /\ waitState' = AbandonWaits(r, waitState) /\ resumed' = resumed \cup OpenWaits(r)
      BY <2>1 DEF CancelRun
    <3>2. CASE w \in OpenWaits(r)
      <4>1. waitState[w] = "open" /\ w[1] = r /\ waitState'[w] = "abandoned"
        BY <3>1, <3>2 DEF OpenWaits, AbandonWaits
      <4>2. runState'[r] = "cancelled"
        BY <3>1 DEF LoopInv, TypeInv, TypeOK
      <4> QED
        BY <4>1, <4>2 DEF WaitMoves, WaitCloses, Woken
    <3>3. CASE w \notin OpenWaits(r)
      BY <3>1, <3>3 DEF AbandonWaits, WaitMoves, WaitStays
    <3> QED
      BY <3>2, <3>3
  <2> QED
    BY <1>1, <1>q, <2>1 DEF API, StartRun, AnswerRun, CancelRun, waitVars
<1>2. ASSUME NEW v \in Workers, Deliver(v)
      PROVE  WaitMoves(w)
  <2>1. ASSUME NEW r \in Runs, NEW i \in Steps, ClaimCancelled(v, r, i)
        PROVE  WaitMoves(w)
    BY <1>0, <2>1, SettleWaits DEF ClaimCancelled
  <2> QED
    BY <1>2, <1>q, <2>1 DEF Deliver, ClaimStale, Claim, waitVars
<1>3. ASSUME NEW v \in Workers, Execute(v) \/ WorkerFault(v)
      PROVE  WaitMoves(w)
  <2>1. CASE FailRun(v) \/ StreamCancelled(v)
    <3>1. worker[v].run \in Runs
      BY <1>0, <2>1 DEF FailRun, StreamCancelled, TypeInv, WorkerOK
    <3>2. \/ UNCHANGED <<waitState, resumed>>
          \/ \E s : s # "awaiting" /\ Settle(worker[v].run, s, history, queue)
      BY <2>1 DEF FailRun, StreamCancelled
    <3> QED
      BY <1>0, <1>q, <3>1, <3>2, SettleWaits
  <2> QED
    BY <1>3, <1>q, <2>1
       DEF Execute, WorkerFault, StartStream, Compact, SpawnLookup, SpawnDenied,
           SpawnAdopt, SpawnCreate, SpawnFails, Retry, Redeliver, waitVars
<1>4. CASE UNCHANGED vars
  BY <1>4, <1>q DEF vars, waitVars
<1> QED
  BY <1>1, <1>2, <1>3, <1>4, CommitWaits, SweepWaits DEF Next, Work

-----------------------------------------------------------------------------
(***************************************************************************)
(* Parked runs.  The id of a wait is the step that installs it, so before  *)
(* that step is committed nothing of the wait exists, and the wait of the  *)
(* last step of a parked run has not been spent.                           *)
(***************************************************************************)

Untouched(w) == /\ waitState[w] = "none" /\ w \notin resumed
                /\ w \notin sweeper.claimed /\ w \notin sweepJobs /\ sweeper.job # w
WaitAfterStep == \A w \in WaitIds : w[2] \notin steps[w[1]] => Untouched(w)

\* Outside the sweeper only the transaction that parks a run arms a sweep.
LEMMA SweepOrNot ==
  ASSUME [Next]_vars
  PROVE  \/ UNCHANGED sweepVars
         \/ \E v \in Workers : \E M : CommitWaitPark(v, M)
         \/ \E u \in WaitIds : DeadlinePasses(u)
         \/ Sweep
         \/ SweepFault
<1>1. CASE API
  BY <1>1 DEF API, StartRun, AnswerRun, CancelRun
<1>2. ASSUME NEW v \in Workers, Deliver(v) \/ Execute(v) \/ WorkerFault(v)
      PROVE  UNCHANGED sweepVars
  BY <1>2 DEF Deliver, ClaimStale, ClaimCancelled, Claim, Execute, WorkerFault,
       StartStream, Compact, SpawnLookup, SpawnDenied, SpawnAdopt, SpawnCreate,
       SpawnFails, FailRun, StreamCancelled, Retry, Redeliver
<1>3. ASSUME NEW v \in Workers, Commit(v)
      PROVE  UNCHANGED sweepVars \/ \E M : CommitWaitPark(v, M)
  BY <1>3 DEF Commit, CommitStale, CommitCancelled, CommitContinue, CommitQuestion,
       CommitComplete, CommitWaitConflict, CommitWaitClosed
<1>4. CASE UNCHANGED vars
  BY <1>4 DEF vars
<1> QED
  BY <1>1, <1>2, <1>3, <1>4 DEF Next, Work

LEMMA SweepUntouched ==
  ASSUME LoopInv, [Next]_vars, NEW w \in WaitIds, w[2] \notin steps'[w[1]], Untouched(w)
  PROVE  w \notin sweeper'.claimed /\ w \notin sweepJobs' /\ sweeper'.job # w
<1>0. w # Rearm
  BY LoopAssumption DEF WaitIds, Rearm
<1>1. CASE UNCHANGED sweepVars
  BY <1>1 DEF sweepVars, Untouched
<1>2. ASSUME NEW v \in Workers, NEW M, CommitWaitPark(v, M)
      PROVE  w \notin sweeper'.claimed /\ w \notin sweepJobs' /\ sweeper'.job # w
  <2> DEFINE r == worker[v].run
             u == <<r, worker[v].idx>>
  <2>1. /\ sweepJobs' = sweepJobs \cup {u} /\ UNCHANGED sweeper
        /\ steps' = CommittedSteps(v) /\ worker[v].phase = "stream"
    BY <1>2 DEF CommitWaitPark, WaitCommit, Armed
  <2>2. r \in Runs /\ worker[v].idx \in steps'[r]
    BY <2>1 DEF LoopInv, TypeInv, TypeOK, WorkerOK, CommittedSteps
  <2>3. w # u
    BY <2>2
  <2> QED
    BY <2>1, <2>3 DEF Untouched
<1>3. ASSUME NEW u \in WaitIds, DeadlinePasses(u)
      PROVE  UNCHANGED <<sweeper, sweepJobs>>
  BY <1>3 DEF DeadlinePasses
<1>4. ASSUME NEW job \in sweepJobs, NEW sk, SweepClaim(job, sk)
      PROVE  w \notin sweeper'.claimed /\ w \notin sweepJobs' /\ sweeper'.job # w
  <2>1. PICK C \in SUBSET ({u \in due : waitState[u] = "open"} \ sk) :
          sweeper' = [phase |-> "sweep", claimed |-> C,
                      full |-> Cardinality(C) = Batch, job |-> job]
    BY <1>4 DEF SweepClaim
  <2>2. sweeper'.claimed = C /\ sweeper'.job = job
    BY <2>1
  <2>3. sweepJobs' = sweepJobs \ {job}
    BY <1>4 DEF SweepClaim
  <2> QED
    BY <2>2, <2>3 DEF Untouched
<1>5. ASSUME NEW u \in WaitIds, SweepResolve(u)
      PROVE  w \notin sweeper'.claimed /\ w \notin sweepJobs' /\ sweeper'.job # w
  <2>1. /\ sweeper' = [sweeper EXCEPT !.claimed = @ \ {u}] /\ UNCHANGED sweepJobs
    BY <1>5 DEF SweepResolve
  <2>2. sweeper'.claimed \subseteq sweeper.claimed /\ sweeper'.job = sweeper.job
    BY <2>1 DEF LoopInv, TypeInv, TypeOK
  <2> QED
    BY <2>1, <2>2 DEF Untouched
<1>6. CASE SweepDone \/ SweepFault
  <2>1. /\ sweeper' = IdleSweeper
        /\ sweepJobs' \subseteq sweepJobs \cup {Rearm, sweeper.job}
    BY <1>6 DEF SweepDone, SweepFault, SweepError, SweepCrash
  <2> QED
    BY <1>0, <2>1 DEF Untouched, IdleSweeper
<1>7. CASE \E u \in WaitIds : DeadlinePasses(u)
  BY <1>3, <1>7 DEF Untouched
<1> QED
  BY <1>1, <1>2, <1>4, <1>5, <1>6, <1>7, SweepOrNot DEF Sweep

LEMMA StepsOnlyGrow ==
  ASSUME LoopInv, FamilyInv, [Next]_vars, NEW r \in Runs
  PROVE  steps[r] \subseteq steps'[r]
<1>1. RunMoves(r)
  BY EveryRunMoves DEF FamilyInv
<1> QED
  BY <1>1 DEF RunMoves, Stays, Begins, Goes, Answered, Ends, Commits

LEMMA WaitAfterStepHolds == Spec => []WaitAfterStep
<1>1. Init => WaitAfterStep
  <2> SUFFICES ASSUME Init, NEW w \in WaitIds
               PROVE  Untouched(w)
    BY DEF WaitAfterStep
  <2>1. w # Rearm
    BY LoopAssumption DEF WaitIds, Rearm
  <2> QED
    BY <2>1 DEF Init, Untouched, IdleSweeper
<1>2. LoopInv /\ FamilyInv /\ WaitAfterStep /\ [Next]_vars => WaitAfterStep'
  <2> SUFFICES ASSUME LoopInv, FamilyInv, WaitAfterStep, [Next]_vars,
                      NEW w \in WaitIds, w[2] \notin steps'[w[1]]
               PROVE  Untouched(w)'
    BY DEF WaitAfterStep
  <2>1. w[2] \notin steps[w[1]]
    BY StepsOnlyGrow DEF WaitIds
  <2>2. Untouched(w)
    BY <2>1 DEF WaitAfterStep
  <2>3. WaitMoves(w)
    BY EveryWaitMoves
  <2>4. ~\E v \in Workers : WaitIsMade(v, w)
    BY DEF WaitIsMade, Commits
  <2>5. waitState'[w] = "none" /\ w \notin resumed'
    BY <2>2, <2>3, <2>4
       DEF Untouched, WaitMoves, WaitStays, WaitCloses, WaitTimesOut, WaitResolves
  <2> QED
    BY <2>2, <2>5, SweepUntouched DEF Untouched
<1> QED
  BY <1>1, <1>2, LoopInvHolds, FamilyInvHolds, PTL DEF Spec

\* A parked run has committed a step, and the wait of its last step, if that
\* step installed one, is not spent.
ParkedFresh == \A r \in Runs : runState[r] = "awaiting" =>
                 steps[r] # {} /\ LastWait(r) \notin resumed

LEMMA ParkedStaysFresh ==
  ASSUME LoopInv, FamilyInv, WaitAfterStep, ParkedFresh, [Next]_vars,
         NEW r \in Runs, runState'[r] = "awaiting"
  PROVE  steps'[r] # {} /\ LastWait(r)' \notin resumed'
<1>1. RunMoves(r)
  BY EveryRunMoves DEF FamilyInv
<1>2. Stays(r) \/ \E v \in Workers : Commits(v, r)
  BY <1>1 DEF RunMoves, Begins, Goes, Answered, Ends
<1>3. CASE Stays(r)
  <2> DEFINE n == NextIndex(steps[r])
             w == <<r, n - 1>>
  <2>1. runState[r] = "awaiting" /\ steps'[r] = steps[r] /\ steps[r] # {}
        /\ w \notin resumed
    BY <1>3 DEF Stays, ParkedFresh, LastWait
  <2>2. n \in 0 .. MaxSteps /\ steps[r] = 0 .. n - 1
    BY NextIndexIs DEF LoopInv, TypeInv, TypeOK, NoHoles
  <2>3. n - 1 \in Steps /\ n - 1 \in steps[r]
    <3> HIDE DEF n
    <3>1. n # 0
      BY <2>1, <2>2
    <3> QED
      BY <2>2, <3>1, LoopAssumption DEF Steps
  <2>4. w \in WaitIds /\ w[1] = r /\ w[2] = n - 1 /\ LastWait(r)' = w
    BY <2>1, <2>3 DEF WaitIds, LastWait
  <2> HIDE DEF n, w
  <2>5. WaitMoves(w)
    BY <2>4, EveryWaitMoves
  <2>6. ~\E v \in Workers : WaitIsMade(v, w)
    BY <2>3, <2>4 DEF WaitIsMade, Commits
  <2>7. w \notin resumed'
    BY <2>1, <2>4, <2>5, <2>6, <1>3
       DEF WaitMoves, WaitStays, WaitCloses, WaitTimesOut, WaitResolves, Woken
  <2> QED
    BY <2>1, <2>4, <2>7
<1>4. ASSUME NEW v \in Workers, Commits(v, r)
      PROVE  steps'[r] # {} /\ LastWait(r)' \notin resumed'
  <2> DEFINE i == worker[v].idx
             w == <<r, i>>
  <2>1. /\ Busy(v) /\ worker[v].run = r /\ i \notin steps[r]
        /\ steps'[r] = steps[r] \cup {i}
    BY <1>4 DEF Commits
  <2>2. NextIndex(steps'[r]) = i + 1 /\ i \in Nat /\ i \in Steps
    <3>1. i \in Nat /\ i \in Steps
      BY LoopAssumption DEF LoopInv, TypeInv, TypeOK, Steps
    <3> QED
      BY <2>1, <3>1, CommittedPrefix
  <2>3. w \in WaitIds /\ w[1] = r /\ w[2] = i /\ LastWait(r)' = w
    BY <2>2 DEF WaitIds, LastWait
  <2>4. Untouched(w)
    BY <2>1, <2>3 DEF WaitAfterStep
  <2> HIDE DEF w
  <2>5. WaitMoves(w)
    BY <2>3, EveryWaitMoves
  <2>6. w \notin resumed'
    BY <2>3, <2>4, <2>5
       DEF WaitMoves, WaitStays, WaitCloses, WaitTimesOut, WaitResolves, WaitIsMade,
           Untouched
  <2> QED
    BY <2>1, <2>3, <2>6
<1> QED
  BY <1>2, <1>3, <1>4

\* A run parked on children can still be woken by whoever closes its wait: the
\* one resumption a wait has is never spent while its parent is parked on it.
THEOREM ParkedIsResumableHolds == Spec => []ParkedIsResumable
<1>1. Init => ParkedFresh
  BY DEF Init, ParkedFresh
<1>2. LoopInv /\ FamilyInv /\ WaitAfterStep /\ ParkedFresh /\ [Next]_vars => ParkedFresh'
  BY ParkedStaysFresh DEF ParkedFresh
<1>3. ParkedFresh => ParkedIsResumable
  BY DEF ParkedFresh, ParkedIsResumable
<1> QED
  BY <1>1, <1>2, <1>3, LoopInvHolds, FamilyInvHolds, WaitAfterStepHolds, PTL DEF Spec

-----------------------------------------------------------------------------
(***************************************************************************)
(* The sweeper.  A sweep that does not fill its batch leaves no due wait   *)
(* open, so the waits still open then have their own timeout job ahead;    *)
(* one that fills it re-arms, and until then it is a re-armed sweep or the *)
(* wait's own.  A sweep that skips locked rows breaks this.                *)
(***************************************************************************)

DueOrArmed == \A w \in WaitIds : waitState[w] = "open" /\ w \notin due => w \in sweepJobs
Ahead(w) == \/ w \in sweepJobs
            \/ Rearm \in sweepJobs
            \/ /\ sweeper.phase = "sweep" /\ sweeper.full
               /\ sweeper.job = w \/ sweeper.job = Rearm
SweepAhead == \A w \in WaitIds : waitState[w] = "open" => Ahead(w)

LEMMA StillOpen ==
  ASSUME LoopInv, FamilyInv, [Next]_vars, NEW w \in WaitIds, waitState'[w] = "open"
  PROVE  waitState[w] = "open" \/ w \in sweepJobs'
<1>1. WaitMoves(w)
  BY EveryWaitMoves
<1> QED
  BY <1>1 DEF WaitMoves, WaitStays, WaitCloses, WaitTimesOut, WaitResolves, WaitIsMade

LEMMA SweepStaysAhead ==
  ASSUME "skip" \notin SweepHazards, LoopInv, FamilyInv, DueOrArmed, SweepAhead,
         [Next]_vars, NEW w \in WaitIds, waitState'[w] = "open"
  PROVE  Ahead(w)' /\ (w \notin due' => w \in sweepJobs')
<1>0. w # Rearm
  BY LoopAssumption DEF WaitIds, Rearm
<1>1. CASE w \in sweepJobs'
  BY <1>1 DEF Ahead
<1>2. CASE waitState[w] = "open"
  <2>0. Ahead(w) /\ (w \notin due => w \in sweepJobs)
    BY <1>2 DEF DueOrArmed, SweepAhead
  <2>1. CASE UNCHANGED sweepVars
    BY <2>0, <2>1 DEF sweepVars, Ahead
  <2>2. ASSUME NEW v \in Workers, NEW M, CommitWaitPark(v, M)
        PROVE  Ahead(w)' /\ (w \notin due' => w \in sweepJobs')
    <3>1. sweepJobs \subseteq sweepJobs' /\ UNCHANGED <<due, sweeper>>
      BY <2>2 DEF CommitWaitPark, Armed
    <3> QED
      BY <2>0, <3>1 DEF Ahead
  <2>3. ASSUME NEW u \in WaitIds, DeadlinePasses(u)
        PROVE  Ahead(w)' /\ (w \notin due' => w \in sweepJobs')
    BY <2>0, <2>3 DEF DeadlinePasses, Ahead
  <2>4. ASSUME NEW job \in sweepJobs, NEW sk, SweepClaim(job, sk)
        PROVE  Ahead(w)' /\ (w \notin due' => w \in sweepJobs')
    <3> DEFINE open == {u \in due : waitState[u] = "open"}
    <3>1. sk = {} /\ sweeper.phase = "idle" /\ (job = Rearm \/ job \in due)
      BY <2>4 DEF SweepClaim
    <3>2. /\ sweepJobs' = sweepJobs \ {job} /\ UNCHANGED due
      BY <2>4 DEF SweepClaim
    <3>3. PICK C \in SUBSET (open \ sk) :
            /\ Cardinality(C) = Batch \/ C = open \ sk
            /\ waitState' = [u \in WaitIds |-> IF u \in C THEN "timed_out" ELSE waitState[u]]
            /\ sweeper' = [phase |-> "sweep", claimed |-> C,
                           full |-> Cardinality(C) = Batch, job |-> job]
      BY <2>4 DEF SweepClaim
    <3>4. w \notin C /\ sweeper'.phase = "sweep" /\ sweeper'.job = job
          /\ (sweeper'.full <=> Cardinality(C) = Batch)
      BY <3>3
    <3>5. w \in sweepJobs \/ Rearm \in sweepJobs
      BY <2>0, <3>1 DEF Ahead
    <3>6. w \notin due => w \in sweepJobs'
      BY <1>0, <2>0, <3>1, <3>2
    <3>7. Ahead(w)'
      <4>1. CASE Cardinality(C) = Batch
        BY <3>2, <3>4, <3>5, <4>1 DEF Ahead
      <4>2. CASE C = open \ sk
        <5>1. w \notin due
          BY <1>2, <3>1, <3>4, <4>2
        <5> QED
          BY <3>6, <5>1 DEF Ahead
      <4> QED
        BY <3>3, <4>1, <4>2
    <3> QED
      BY <3>2, <3>6, <3>7
  <2>5. ASSUME NEW u \in WaitIds, SweepResolve(u)
        PROVE  Ahead(w)' /\ (w \notin due' => w \in sweepJobs')
    <3>1. /\ sweeper' = [sweeper EXCEPT !.claimed = @ \ {u}] /\ UNCHANGED <<sweepJobs, due>>
      BY <2>5 DEF SweepResolve
    <3>2. /\ sweeper'.phase = sweeper.phase /\ sweeper'.job = sweeper.job
          /\ sweeper'.full = sweeper.full
      BY <3>1 DEF LoopInv, TypeInv, TypeOK
    <3> QED
      BY <2>0, <3>1, <3>2 DEF Ahead
  <2>6. CASE SweepDone \/ SweepFault
    <3>1. UNCHANGED due /\ sweepJobs \subseteq sweepJobs'
      BY <2>6 DEF SweepDone, SweepFault, SweepError, SweepCrash
    <3>2. sweeper.full => Rearm \in sweepJobs' \/ sweeper.job \in sweepJobs'
      BY <2>6 DEF SweepDone, SweepFault, SweepError, SweepCrash
    <3> QED
      BY <2>0, <3>1, <3>2 DEF Ahead
  <2> QED
    BY <2>1, <2>2, <2>3, <2>4, <2>5, <2>6, SweepOrNot DEF Sweep
<1> QED
  BY <1>1, <1>2, StillOpen

\* Unless sweeps skip rows that are locked, every open wait has a sweep ahead
\* of it that finds it, with any number of waits due at once, of sweeps that
\* fill their batch and of sweeps that fail or die on the way.
THEOREM OpenWaitIsTimedHolds == "skip" \notin SweepHazards => (Spec => []OpenWaitIsTimed)
<1> SUFFICES ASSUME "skip" \notin SweepHazards
             PROVE  Spec => []OpenWaitIsTimed
  OBVIOUS
<1> DEFINE Inv == DueOrArmed /\ SweepAhead
<1>1. Init => Inv
  BY DEF Init, DueOrArmed, SweepAhead
<1>2. LoopInv /\ FamilyInv /\ Inv /\ [Next]_vars => Inv'
  BY SweepStaysAhead DEF DueOrArmed, SweepAhead
<1>3. Inv => OpenWaitIsTimed
  BY DEF SweepAhead, Ahead, OpenWaitIsTimed
<1> QED
  BY <1>1, <1>2, <1>3, LoopInvHolds, FamilyInvHolds, PTL DEF Spec

\* What is claimed is on the list of the sweep in progress, until resolved.
IdleClaimsNothing == sweeper.phase = "idle" => sweeper.claimed = {}
ClaimedInv == IdleClaimsNothing /\ ClaimedWaitIsTracked

LEMMA ClaimedStays ==
  ASSUME SweepHazards = {}, LoopInv, FamilyInv, ClaimedInv, [Next]_vars
  PROVE  ClaimedInv'
<1>m. ASSUME NEW w \in WaitIds, waitState'[w] = "timed_out", w \notin resumed'
      PROVE  w \in sweeper.claimed \/ w \in sweeper'.claimed
  <2>1. WaitMoves(w)
    BY EveryWaitMoves
  <2> QED
    BY <1>m, <2>1
       DEF WaitMoves, WaitStays, WaitCloses, WaitTimesOut, WaitResolves, WaitIsMade,
           ClaimedInv, ClaimedWaitIsTracked
<1>1. CASE UNCHANGED sweeper
  BY <1>1, <1>m DEF ClaimedInv, IdleClaimsNothing, ClaimedWaitIsTracked
<1>2. ASSUME NEW job, NEW sk, SweepClaim(job, sk)
      PROVE  ClaimedInv'
  <2>1. sweeper.phase = "idle" /\ sweeper'.phase = "sweep"
    BY <1>2 DEF SweepClaim
  <2>2. sweeper.claimed = {}
    BY <2>1 DEF ClaimedInv, IdleClaimsNothing
  <2> QED
    BY <1>m, <2>1, <2>2 DEF ClaimedInv, IdleClaimsNothing, ClaimedWaitIsTracked
<1>3. ASSUME NEW u \in WaitIds, SweepResolve(u)
      PROVE  ClaimedInv'
  <2>1. /\ sweeper.phase = "sweep" /\ resumed' = resumed \cup {u}
        /\ sweeper' = [sweeper EXCEPT !.claimed = @ \ {u}]
    BY <1>3 DEF SweepResolve
  <2>2. sweeper'.phase = "sweep" /\ sweeper'.claimed = sweeper.claimed \ {u}
    BY <2>1 DEF LoopInv, TypeInv, TypeOK
  <2> QED
    BY <1>m, <2>1, <2>2 DEF ClaimedInv, IdleClaimsNothing, ClaimedWaitIsTracked
<1>4. CASE SweepDone
  <2>1. sweeper.claimed = {} /\ sweeper' = IdleSweeper
    BY <1>4 DEF SweepDone
  <2> QED
    BY <1>m, <2>1 DEF ClaimedInv, IdleClaimsNothing, ClaimedWaitIsTracked, IdleSweeper
<1>5. ~SweepFault
  BY DEF SweepFault, SweepError, SweepCrash
<1>6. ASSUME NEW v \in Workers, NEW M, CommitWaitPark(v, M)
      PROVE  UNCHANGED sweeper
  BY <1>6 DEF CommitWaitPark
<1>7. ASSUME NEW u \in WaitIds, DeadlinePasses(u)
      PROVE  UNCHANGED sweeper
  BY <1>7 DEF DeadlinePasses
<1> QED
  BY <1>1, <1>2, <1>3, <1>4, <1>5, <1>6, <1>7, SweepOrNot DEF Sweep, sweepVars

\* With a sweeper that meets no mishap, no wait falls out of its sight, before
\* its claim or after it.
THEOREM WaitIsSweptHolds == SweepHazards = {} => (Spec => []WaitIsSwept)
<1> SUFFICES ASSUME SweepHazards = {}
             PROVE  Spec => []WaitIsSwept
  OBVIOUS
<1>1. Spec => []OpenWaitIsTimed
  BY OpenWaitIsTimedHolds
<1>2. Init => ClaimedInv
  BY DEF Init, ClaimedInv, IdleClaimsNothing, ClaimedWaitIsTracked, IdleSweeper
<1>3. LoopInv /\ FamilyInv /\ ClaimedInv /\ [Next]_vars => ClaimedInv'
  BY ClaimedStays
<1>4. ClaimedInv /\ OpenWaitIsTimed => WaitIsSwept
  BY DEF ClaimedInv, WaitIsSwept
<1> QED
  BY <1>1, <1>2, <1>3, <1>4, LoopInvHolds, FamilyInvHolds, PTL DEF Spec

-----------------------------------------------------------------------------
(***************************************************************************)
(* The conversation.  A commit overwrites the history with the copy of the *)
(* claim, so the copy has to be complete whenever the commit is accepted:  *)
(* while the claimed step is not committed, the run neither parks nor      *)
(* completes, so nobody answers it, and no other step of it is committed.  *)
(***************************************************************************)

Talk(h) == {e \in h : \E i \in Steps : e = UserMsg(i) \/ e = StepMsg(i)}

HistoryMoves(x) ==
  \/ Talk(history'[x]) = Talk(history[x])
  \/ history[x] \subseteq history'[x] /\ runState[x] \in {"awaiting", "completed"}
  \/ \E v \in Workers : Commits(v, x) /\ worker[v].env \subseteq history'[x]

LEMMA ResumedTalk ==
  ASSUME NEW W, NEW hist, NEW x \in Runs
  PROVE  /\ hist[x] \subseteq ResumedHistory(W, hist)[x]
         /\ Talk(ResumedHistory(W, hist)[x]) = Talk(hist[x])
<1>1. ResumedHistory(W, hist)[x] = hist[x] \cup {WaitMsg(w[2]) : w \in {u \in W : u[1] = x}}
  BY DEF ResumedHistory
<1>2. \A w, i : WaitMsg(w) # UserMsg(i) /\ WaitMsg(w) # StepMsg(i)
  BY DEF WaitMsg, UserMsg, StepMsg
<1> QED
  BY <1>1, <1>2 DEF Talk

LEMMA CommitTalk ==
  ASSUME LoopInv, FamilyInv, NEW v \in Workers, Commit(v), NEW x \in Runs
  PROVE  HistoryMoves(x)
<1> DEFINE r == worker[v].run
           i == worker[v].idx
<1>0. /\ TypeInv /\ NotOwnMember /\ runState \in [Runs -> RunStates]
      /\ history \in [Runs -> SUBSET Entries] /\ steps \in [Runs -> SUBSET Steps]
  BY DEF LoopInv, FamilyInv, TypeInv, TypeOK
<1>r. Busy(v) /\ r \in Runs
  <2>1. worker[v].phase # "idle"
    BY DEF Commit, CommitStale, CommitCancelled, CommitContinue, CommitQuestion,
           CommitComplete, CommitWaitConflict, CommitWaitClosed, CommitWaitPark,
           WaitCommit
  <2> QED
    BY <1>0, <2>1 DEF TypeInv, WorkerOK, Busy
<1>h. \A y \in Runs : CommittedHistory(v)[y] = IF y = r THEN worker[v].env \cup {StepMsg(i)}
                                                ELSE history[y]
  BY <1>0 DEF CommittedHistory
<1>s. steps' = CommittedSteps(v) => steps'[r] = steps[r] \cup {i}
  BY <1>0, <1>r DEF CommittedSteps
<1>c. ASSUME steps' = CommittedSteps(v), Committable(r, i),
             \/ i + 1 < MaxSteps /\ runState'[r] \in {"running", "awaiting"}
             \/ runState'[r] = "completed"
      PROVE  Commits(v, r)
  BY <1>c, <1>r, <1>s DEF Committable, Commits
<1>1. CASE UNCHANGED history
  BY <1>1 DEF HistoryMoves
<1>2. CASE CommitCancelled(v)
  BY <1>2, ResumedTalk DEF CommitCancelled, Settle, HistoryMoves
<1>3. ASSUME steps' = CommittedSteps(v), Committable(r, i), i + 1 < MaxSteps,
             history'[x] = CommittedHistory(v)[x]
               \/ (x = r /\ CommittedHistory(v)[x] \subseteq history'[x]),
             UNCHANGED runState \/ runState' = [runState EXCEPT ![r] = "awaiting"]
      PROVE  HistoryMoves(x)
  <2>1. CASE x = r
    <3>1. Commits(v, r)
      BY <1>0, <1>3, <1>c, <1>r DEF Committable
    <3> QED
      BY <1>3, <1>h, <2>1, <3>1 DEF HistoryMoves
  <2>2. CASE x # r
    BY <1>3, <1>h, <2>2 DEF HistoryMoves
  <2> QED
    BY <2>1, <2>2
<1>4. CASE CommitContinue(v) \/ CommitQuestion(v)
  <2>1. /\ steps' = CommittedSteps(v) /\ Committable(r, i) /\ i + 1 < MaxSteps
        /\ history' = CommittedHistory(v)
        /\ UNCHANGED runState \/ runState' = [runState EXCEPT ![r] = "awaiting"]
    BY <1>4 DEF CommitContinue, CommitQuestion
  <2> QED
    BY <1>3, <2>1
<1>5. CASE CommitComplete(v)
  <2>1. /\ steps' = CommittedSteps(v) /\ Committable(r, i)
        /\ Settle(r, "completed", CommittedHistory(v), queue)
    BY <1>5 DEF CommitComplete
  <2>2. \E W : history' = ResumedHistory(W, CommittedHistory(v))
    BY <2>1 DEF Settle
  <2>3. /\ CommittedHistory(v)[x] \subseteq history'[x]
        /\ Talk(history'[x]) = Talk(CommittedHistory(v)[x])
    BY <2>2, ResumedTalk
  <2>4. CASE x = r
    <3>1. runState'[r] = "completed"
      BY <1>0, <1>r, <2>1, SettleRuns
    <3>2. Commits(v, r)
      BY <1>c, <2>1, <3>1
    <3> QED
      BY <1>h, <2>3, <2>4, <3>2 DEF HistoryMoves
  <2>5. CASE x # r
    BY <1>h, <2>3, <2>5 DEF HistoryMoves
  <2> QED
    BY <2>4, <2>5
<1>6. ASSUME NEW M, CommitWaitClosed(v, M)
      PROVE  HistoryMoves(x)
  <2>1. /\ steps' = CommittedSteps(v) /\ Committable(r, i) /\ i + 1 < MaxSteps
        /\ history' = [CommittedHistory(v) EXCEPT ![r] = @ \cup {WaitMsg(<<r, i>>[2])}]
        /\ UNCHANGED runState
    BY <1>6 DEF CommitWaitClosed, WaitCommit
  <2>2. CommittedHistory(v) \in [Runs -> SUBSET (Entries \cup {StepMsg(i)})]
    BY <1>0 DEF CommittedHistory, TypeInv, TypeOK
  <2>3. \/ history'[x] = CommittedHistory(v)[x]
        \/ x = r /\ CommittedHistory(v)[x] \subseteq history'[x]
    BY <2>1, <2>2
  <2> QED
    BY <1>3, <2>1, <2>3
<1>7. ASSUME NEW M, CommitWaitPark(v, M)
      PROVE  HistoryMoves(x)
  <2>1. /\ steps' = CommittedSteps(v) /\ Committable(r, i) /\ i + 1 < MaxSteps
        /\ history' = CommittedHistory(v)
        /\ runState' = [runState EXCEPT ![r] = "awaiting"]
    BY <1>7 DEF CommitWaitPark, WaitCommit
  <2> QED
    BY <1>3, <2>1
<1> QED
  BY <1>1, <1>2, <1>4, <1>5, <1>6, <1>7 DEF Commit, CommitStale, CommitWaitConflict, runVars

LEMMA EveryHistoryMoves ==
  ASSUME ~LongHistory, LoopInv, FamilyInv, [Next]_vars, NEW x \in Runs
  PROVE  HistoryMoves(x)
<1>0. TypeInv /\ history \in [Runs -> SUBSET Entries]
  BY DEF LoopInv, TypeInv, TypeOK
<1>1. CASE UNCHANGED history
  BY <1>1 DEF HistoryMoves
<1>2. ASSUME NEW W, history' = ResumedHistory(W, history)
      PROVE  HistoryMoves(x)
  BY <1>2, ResumedTalk DEF HistoryMoves
<1>3. CASE API
  <2>1. ASSUME NEW r \in Runs, AnswerRun(r)
        PROVE  HistoryMoves(x)
    BY <1>0, <2>1 DEF AnswerRun, HistoryMoves
  <2> QED
    BY <1>1, <1>3, <2>1 DEF API, StartRun, CancelRun
<1>4. ASSUME NEW v \in Workers, Deliver(v)
      PROVE  HistoryMoves(x)
  BY <1>1, <1>2, <1>4 DEF Deliver, ClaimStale, ClaimCancelled, Claim, Settle, runVars
<1>5. ASSUME NEW v \in Workers, Execute(v) \/ WorkerFault(v)
      PROVE  HistoryMoves(x)
  <2>1. UNCHANGED history \/ \E W : history' = ResumedHistory(W, history)
    BY <1>5 DEF Execute, WorkerFault, StartStream, Compact, SpawnLookup, SpawnDenied,
         SpawnAdopt, SpawnCreate, SpawnFails, FailRun, StreamCancelled, Settle, Retry,
         Redeliver, runVars
  <2> QED
    BY <1>1, <1>2, <2>1
<1>6. CASE (\E u \in WaitIds : DeadlinePasses(u)) \/ Sweep \/ SweepFault
  <2>1. UNCHANGED history \/ \E W : history' = ResumedHistory(W, history)
    BY <1>6 DEF DeadlinePasses, Sweep, SweepFault, SweepClaim, SweepResolve, SweepDone,
         SweepError, SweepCrash, runVars
  <2> QED
    BY <1>1, <1>2, <2>1
<1>7. CASE UNCHANGED vars
  BY <1>1, <1>7 DEF vars, runVars
<1> QED
  BY <1>3, <1>4, <1>5, <1>6, <1>7, CommitTalk DEF Next, Work

EnvFresh ==
  \A v \in Workers : Busy(v) /\ worker[v].idx \notin steps[worker[v].run] =>
    /\ runState[worker[v].run] \in {"running", "failed", "cancelled"}
    /\ Talk(history[worker[v].run]) \subseteq worker[v].env

LEMMA EnvStaysFresh ==
  ASSUME ~LongHistory, LoopInv, FamilyInv, EnvFresh, [Next]_vars
  PROVE  EnvFresh'
<1> SUFFICES ASSUME NEW u \in Workers, worker'[u].phase # "idle",
                    worker'[u].idx \notin steps'[worker'[u].run]
             PROVE  /\ runState'[worker'[u].run] \in {"running", "failed", "cancelled"}
                    /\ Talk(history'[worker'[u].run]) \subseteq worker'[u].env
  BY DEF EnvFresh, Busy
<1>0. TypeInv /\ NotOwnMember
  BY DEF LoopInv, FamilyInv
<1>1. Keeps(u) \/ Claims(u)
  BY <1>0, EveryWorkerMoves DEF WorkerMoves
<1>2. CASE Keeps(u)
  <2> DEFINE r == worker[u].run
  <2>1. /\ Busy(u) /\ worker'[u].run = r /\ worker'[u].idx = worker[u].idx
        /\ worker'[u].env = worker[u].env /\ r \in Runs
    BY <1>0, <1>2 DEF Keeps, Compact, TypeInv, WorkerOK, Busy
  <2>2. worker[u].idx \notin steps[r]
    BY <2>1, StepsOnlyGrow
  <2>3. /\ runState[r] \in {"running", "failed", "cancelled"}
        /\ Talk(history[r]) \subseteq worker[u].env
    BY <2>1, <2>2 DEF EnvFresh
  <2>4. ASSUME NEW v \in Workers, Commits(v, r)
        PROVE  FALSE
    <3>1. /\ Busy(v) /\ worker[v].run = r /\ worker[v].idx \notin steps[r]
          /\ worker[v].idx \in steps'[r]
      BY <2>4 DEF Commits
    <3>2. steps[r] = 0 .. worker[v].idx - 1 /\ steps[r] = 0 .. worker[u].idx - 1
      BY <2>1, <2>2, <3>1, CommittedPrefix
    <3>3. worker[v].idx \in Nat /\ worker[u].idx \in Nat
      BY <1>0, LoopAssumption DEF TypeInv, TypeOK, Steps
    <3>4. worker[u].idx = worker[v].idx
      <4>1. \A a, b \in Nat : 0 .. a - 1 = 0 .. b - 1 => a = b
        <5> SUFFICES ASSUME NEW a \in Nat, NEW b \in Nat, a < b
                     PROVE  0 .. a - 1 # 0 .. b - 1
          OBVIOUS
        <5>1. a \in 0 .. b - 1 /\ a \notin 0 .. a - 1
          OBVIOUS
        <5> QED
          BY <5>1
      <4> QED
        BY <3>2, <3>3, <4>1
    <3> QED
      BY <2>1, <3>1, <3>4
  <2>5. RunMoves(r) /\ HistoryMoves(r)
    BY <1>0, <2>1, EveryRunMoves, EveryHistoryMoves
  <2>6. runState'[r] \in {"running", "failed", "cancelled"}
    BY <2>3, <2>4, <2>5 DEF RunMoves, Stays, Begins, Goes, Answered, Ends
  <2>7. Talk(history'[r]) \subseteq worker[u].env
    BY <2>3, <2>4, <2>5 DEF HistoryMoves
  <2> QED
    BY <2>1, <2>6, <2>7
<1>3. CASE Claims(u)
  <2>1. /\ worker'[u].env = history[worker'[u].run] /\ UNCHANGED history
        /\ runState'[worker'[u].run] = "running"
    BY <1>0, <1>3 DEF Claims, Claim, TypeInv, TypeOK
  <2> QED
    BY <2>1 DEF Talk
<1> QED
  BY <1>1, <1>2, <1>3

\* Unless histories grow long enough to be compacted, nothing a user answered
\* and nothing a committed step said is ever overwritten, with any number of
\* deliveries of the same step that each hold a copy of the history.
THEOREM ConversationKeptHolds == ~LongHistory => (Spec => ConversationKept)
<1> SUFFICES ASSUME ~LongHistory
             PROVE  Spec => ConversationKept
  OBVIOUS
<1>1. Init => EnvFresh
  BY DEF Init, EnvFresh, Busy, IdleWorker
<1>2. LoopInv /\ FamilyInv /\ EnvFresh /\ [Next]_vars => EnvFresh'
  BY EnvStaysFresh
<1>3. LoopInv /\ FamilyInv /\ EnvFresh /\ [Next]_vars =>
        [\A r \in Runs, i \in Steps :
           {UserMsg(i), StepMsg(i)} \cap history[r] \subseteq history'[r]]_vars
  <2> SUFFICES ASSUME LoopInv, FamilyInv, EnvFresh, [Next]_vars, NEW r \in Runs
               PROVE  Talk(history[r]) \subseteq history'[r]
    BY DEF Talk
  <2>1. HistoryMoves(r)
    BY EveryHistoryMoves
  <2>2. ASSUME NEW v \in Workers, Commits(v, r), worker[v].env \subseteq history'[r]
        PROVE  Talk(history[r]) \subseteq history'[r]
    BY <2>2 DEF Commits, EnvFresh
  <2> QED
    BY <2>1, <2>2 DEF HistoryMoves, Talk
<1> QED
  BY <1>1, <1>2, <1>3, LoopInvHolds, FamilyInvHolds, PTL DEF Spec, ConversationKept
=============================================================================
