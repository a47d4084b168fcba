-------------------------- MODULE AgentLoop_proofs --------------------------
(***************************************************************************)
(* Proofs about AgentLoop, for any number of runs, workers, tool calls,    *)
(* steps, failures and answers, and with every mishap of the sweeper.      *)
(***************************************************************************)
EXTENDS AgentLoop, FiniteSetTheorems, TLAPS

-----------------------------------------------------------------------------
(***************************************************************************)
(* Type correctness.  A worker's run and call are only meaningful while it *)
(* executes something, so the type of the denied set needs WorkerOK.       *)
(***************************************************************************)

Phases     == {"idle", "prepare", "stream", "spawn"}
WorkerType == [phase : Phases, run : Runs \cup {NoRun}, idx : Steps,
               env : SUBSET Entries, stale : BOOLEAN, call : Calls \cup {NoCall}]
QueueType  == [Runs -> [Steps -> Nat]]

WorkerOK == \A v \in Workers :
              /\ worker[v].phase # "idle" => worker[v].run \in Runs
              /\ worker[v].phase = "spawn" => worker[v].call \in Calls

LEMMA ZeroStep == 0 \in Steps
BY LoopAssumption DEF Steps

\* Adding one at a place of a function to naturals.
LEMMA Bumped ==
  ASSUME NEW S, NEW f \in [S -> Nat], NEW n
  PROVE  /\ [f EXCEPT ![n] = @ + 1] \in [S -> Nat]
         /\ \A j \in S : [f EXCEPT ![n] = @ + 1][j] = IF j = n THEN f[j] + 1 ELSE f[j]
<1> DEFINE g == [f EXCEPT ![n] = @ + 1]
<1>1. g = [j \in S |-> IF j = n THEN f[j] + 1 ELSE f[j]]
  OBVIOUS
<1>2. \A j \in S : g[j] = IF j = n THEN f[j] + 1 ELSE f[j]
  BY <1>1
<1>3. \A j \in S : f[j] \in Nat /\ f[j] + 1 \in Nat
  OBVIOUS
<1> QED
  BY <1>1, <1>2, <1>3

LEMMA QueueTyped ==
  ASSUME NEW q \in QueueType, NEW r \in Runs, NEW i
  PROVE  /\ Enqueued(q, r, i) \in QueueType
         /\ \A x \in Runs, j \in Steps :
              Enqueued(q, r, i)[x][j] = IF x = r /\ j = i THEN q[x][j] + 1
                                                          ELSE q[x][j]
<1>1. q[r] \in [Steps -> Nat]
  BY DEF QueueType
<1>2. Enqueued(q, r, i) = [q EXCEPT ![r] = [q[r] EXCEPT ![i] = @ + 1]]
  BY DEF Enqueued
<1> DEFINE g == [q[r] EXCEPT ![i] = @ + 1]
<1>3. /\ g \in [Steps -> Nat]
      /\ \A j \in Steps : g[j] = IF j = i THEN q[r][j] + 1 ELSE q[r][j]
  BY <1>1, Bumped
<1> HIDE DEF g
<1>4. /\ Enqueued(q, r, i) \in QueueType
      /\ \A x \in Runs : Enqueued(q, r, i)[x] = IF x = r THEN g ELSE q[x]
  BY <1>2, <1>3 DEF QueueType, g
<1> QED
  BY <1>3, <1>4

LEMMA QueueShrinks ==
  ASSUME NEW q \in QueueType, NEW r \in Runs, NEW i \in Steps, q[r][i] > 0
  PROVE  /\ Dequeued(q, r, i) \in QueueType
         /\ \A x \in Runs, j \in Steps : Dequeued(q, r, i)[x][j] <= q[x][j]
<1>1. q[r] \in [Steps -> Nat]
  BY DEF QueueType
<1> DEFINE g == [q[r] EXCEPT ![i] = @ - 1]
<1>2. Dequeued(q, r, i) = [q EXCEPT ![r] = g]
  BY DEF Dequeued
<1>3. g \in [Steps -> Nat] /\ \A j \in Steps : g[j] <= q[r][j]
  BY <1>1
<1> HIDE DEF g
<1>4. /\ Dequeued(q, r, i) \in QueueType
      /\ \A x \in Runs : Dequeued(q, r, i)[x] = IF x = r THEN g ELSE q[x]
  BY <1>2, <1>3 DEF QueueType
<1>5. \A x \in Runs, j \in Steps : q[x][j] \in Nat
  BY DEF QueueType
<1> QED
  BY <1>3, <1>4, <1>5

LEMMA ResumedQueueTyped ==
  ASSUME NEW q \in QueueType, NEW W
  PROVE  /\ ResumedQueue(W, q) \in QueueType
         /\ \A x \in Runs, j \in Steps :
              \/ ResumedQueue(W, q)[x][j] = q[x][j]
              \/ j = NextIndex(steps[x])
<1> DEFINE g(x) == [q[x] EXCEPT ![NextIndex(steps[x])] = @ + 1]
<1>1. ASSUME NEW x \in Runs
      PROVE  /\ g(x) \in [Steps -> Nat]
             /\ \A j \in Steps : g(x)[j] = q[x][j] \/ j = NextIndex(steps[x])
  <2>1. q[x] \in [Steps -> Nat]
    BY DEF QueueType
  <2> QED
    BY <2>1, Bumped
<1>2. ResumedQueue(W, q) =
        [x \in Runs |-> IF \E w \in W : w[1] = x THEN g(x) ELSE q[x]]
  BY DEF ResumedQueue
<1> HIDE DEF g
<1> QED
  BY <1>1, <1>2 DEF QueueType

LEMMA WorkerTyped ==
  ASSUME NEW f \in [Workers -> WorkerType], NEW v \in Workers,
         NEW p \in Phases, NEW e \in SUBSET Entries, NEW k \in Calls \cup {NoCall}
  PROVE  /\ [f EXCEPT ![v].phase = p] \in [Workers -> WorkerType]
         /\ [f EXCEPT ![v].phase = p, ![v].env = e] \in [Workers -> WorkerType]
         /\ [f EXCEPT ![v].phase = p, ![v].call = k] \in [Workers -> WorkerType]
         /\ [f EXCEPT ![v].stale = TRUE] \in [Workers -> WorkerType]
<1>1. [f EXCEPT ![v].phase = p] \in [Workers -> WorkerType]
  BY DEF WorkerType
<1>2. [f EXCEPT ![v].phase = p, ![v].env = e] \in [Workers -> WorkerType]
  BY DEF WorkerType
<1>3. [f EXCEPT ![v].phase = p, ![v].call = k] \in [Workers -> WorkerType]
  BY DEF WorkerType
<1>4. [f EXCEPT ![v].stale = TRUE] \in [Workers -> WorkerType]
  BY DEF WorkerType
<1> QED
  BY <1>1, <1>2, <1>3, <1>4

LEMMA SettleTyped ==
  ASSUME TypeOK, NEW r \in Runs, NEW s \in RunStates,
         NEW hist \in [Runs -> SUBSET Entries], NEW q \in QueueType,
         Settle(r, s, hist, q)
  PROVE  /\ runState' \in [Runs -> RunStates]
         /\ waitState' \in [WaitIds -> WaitStates]
         /\ resumed' \in SUBSET WaitIds
         /\ history' \in [Runs -> SUBSET Entries]
         /\ queue' \in QueueType
<1> DEFINE closed == ClosedBy(r)
           live == {w \in closed : MayResume(w)}
<1>0. live \subseteq WaitIds
  BY DEF ClosedBy
<1>1. runState' \in [Runs -> RunStates]
  BY DEF Settle, ResumedState, RunStates, TypeOK
<1>2. waitState' \in [WaitIds -> WaitStates]
  BY DEF Settle, AbandonWaits, WaitStates, TypeOK
<1>3. resumed' \in SUBSET WaitIds
  BY DEF Settle, ClosedBy, OpenWaits, TypeOK
<1>4. history' \in [Runs -> SUBSET Entries]
  <2>1. history' = ResumedHistory(live, hist)
    BY DEF Settle
  <2>2. \A w \in WaitIds : WaitMsg(w[2]) \in Entries
    BY DEF WaitIds, WaitMsg, Entries
  <2> QED
    BY <1>0, <2>1, <2>2 DEF ResumedHistory
<1>5. queue' \in QueueType
  BY ResumedQueueTyped DEF Settle
<1> QED
  BY <1>1, <1>2, <1>3, <1>4, <1>5

-----------------------------------------------------------------------------
(***************************************************************************)
(* Step indices.  A set of steps with no hole is 0 .. n-1 for n its size,  *)
(* and NextIndex finds that n.                                             *)
(***************************************************************************)

NoHole(S) == \A i \in S : 0 .. i - 1 \subseteq S

LEMMA NoHoleInterval ==
  ASSUME NEW S \in SUBSET Steps, NoHole(S)
  PROVE  \E n \in 0 .. MaxSteps : S = 0 .. n - 1
<1>1. IsFiniteSet(Steps) /\ Cardinality(Steps) = MaxSteps
  BY FS_Interval, LoopAssumption DEF Steps
<1>2. IsFiniteSet(S) /\ Cardinality(S) \in Nat /\ Cardinality(S) <= MaxSteps
  BY <1>1, FS_Subset, FS_CardinalityType
<1> DEFINE n == Cardinality(S)
           I == 0 .. n - 1
<1>3. IsFiniteSet(I) /\ Cardinality(I) = n
  BY <1>2, FS_Interval
<1>4. S \subseteq I
  <2> SUFFICES ASSUME NEW i \in S
               PROVE  i \in I
    OBVIOUS
  <2>1. i \in Nat
    BY LoopAssumption DEF Steps
  <2>2. 0 .. i \subseteq S
    <3> SUFFICES ASSUME NEW j \in 0 .. i, j # i
                 PROVE  j \in S
      OBVIOUS
    <3>1. j \in 0 .. i - 1
      BY <2>1
    <3> QED
      BY <3>1 DEF NoHole
  <2>3. Cardinality(0 .. i) = i + 1
    BY <2>1, FS_Interval
  <2>4. i + 1 <= n
    <3>1. (0 .. i) \in SUBSET S
      BY <2>2
    <3>2. Cardinality(0 .. i) <= Cardinality(S)
      BY <1>2, <3>1, FS_Subset
    <3> QED
      BY <2>3, <3>2
  <2> QED
    BY <1>2, <2>1, <2>4
<1>5. S = I
  BY <1>2, <1>3, <1>4, FS_Subset
<1> QED
  BY <1>2, <1>5

LEMMA NextIndexIs ==
  ASSUME NEW S \in SUBSET Steps, NoHole(S)
  PROVE  NextIndex(S) \in 0 .. MaxSteps /\ S = 0 .. NextIndex(S) - 1
<1>1. PICK n \in 0 .. MaxSteps : S = 0 .. n - 1
  BY NoHoleInterval
<1>2. n \in Nat /\ (\A i \in S : i < n) /\ (n = 0 \/ n - 1 \in S)
  BY <1>1, LoopAssumption
<1>3. \A m \in 0 .. MaxSteps :
        ((\A i \in S : i < m) /\ (m = 0 \/ m - 1 \in S)) => m = n
  BY <1>1, LoopAssumption
<1>4. NextIndex(S) = n
  BY <1>1, <1>2, <1>3 DEF NextIndex
<1> QED
  BY <1>1, <1>4

-----------------------------------------------------------------------------
(***************************************************************************)
(* Type correctness of the actions                                         *)
(***************************************************************************)

\* A released, or advanced, worker keeps WorkerOK.
LEMMA WorkerSteps ==
  ASSUME TypeOK, WorkerOK, NEW v \in Workers
  PROVE  /\ Release(v) => worker' \in [Workers -> WorkerType] /\ WorkerOK'
         /\ (worker[v].phase # "idle" /\ BackToStream(v))
              => worker' \in [Workers -> WorkerType] /\ WorkerOK'
         /\ UNCHANGED worker => worker' \in [Workers -> WorkerType] /\ WorkerOK'
<1>0. worker \in [Workers -> WorkerType]
  BY DEF TypeOK, WorkerType, Phases
<1>1. ASSUME Release(v)
      PROVE  worker' \in [Workers -> WorkerType] /\ WorkerOK'
  <2>1. IdleWorker \in WorkerType
    BY ZeroStep DEF IdleWorker, WorkerType, Phases
  <2>2. worker' \in [Workers -> WorkerType]
    BY <1>0, <1>1, <2>1 DEF Release
  <2>3. \A u \in Workers : worker'[u] = worker[u] \/ worker'[u].phase = "idle"
    BY <1>0, <1>1 DEF Release, IdleWorker
  <2> QED
    BY <2>2, <2>3 DEF WorkerOK
<1>2. ASSUME worker[v].phase # "idle", BackToStream(v)
      PROVE  worker' \in [Workers -> WorkerType] /\ WorkerOK'
  <2>1. worker' \in [Workers -> WorkerType]
    BY <1>0, <1>2, WorkerTyped DEF BackToStream, Phases
  <2>2. \A u \in Workers : \/ worker'[u] = worker[u]
                           \/ worker'[u].phase = "stream" /\ worker'[u].run = worker[u].run
                              /\ u = v
    BY <1>0, <1>2 DEF BackToStream, WorkerType
  <2> QED
    BY <1>2, <2>1, <2>2 DEF WorkerOK
<1>3. ASSUME UNCHANGED worker
      PROVE  worker' \in [Workers -> WorkerType] /\ WorkerOK'
  BY <1>0, <1>3 DEF WorkerOK
<1> QED
  BY <1>1, <1>2, <1>3

\* Every state of the loop is well typed, and a busy worker has a run.
TypeInv == TypeOK /\ WorkerOK


LEMMA SettleStep ==
  ASSUME TypeInv, NEW r \in Runs, NEW s \in RunStates,
         NEW hist \in [Runs -> SUBSET Entries], NEW q \in QueueType,
         Settle(r, s, hist, q), worker' \in [Workers -> WorkerType], WorkerOK',
         steps' \in [Runs -> SUBSET Steps],
         UNCHANGED <<cancelReq, parent, spawnAt, members, sweepVars, denied, boundVars>>
  PROVE  TypeInv'
<1>1. /\ runState' \in [Runs -> RunStates] /\ waitState' \in [WaitIds -> WaitStates]
      /\ resumed' \in SUBSET WaitIds /\ history' \in [Runs -> SUBSET Entries]
      /\ queue' \in QueueType
  BY SettleTyped DEF TypeInv
<1> QED
  BY <1>1 DEF TypeInv, TypeOK, WorkerType, Phases, QueueType, sweepVars, boundVars

LEMMA TypeApi ==
  ASSUME TypeInv, \A r \in Runs : NoHole(steps[r]), API
  PROVE  TypeInv'
<1> USE LoopAssumption, ZeroStep DEF runVars, waitVars, sweepVars, boundVars
<1>0. TypeOK /\ WorkerOK /\ queue \in QueueType
  BY DEF TypeInv, TypeOK, QueueType
<1>1. ASSUME NEW r \in Roots, StartRun(r)
      PROVE  TypeInv'
  <2>1. r \in Runs /\ queue' \in QueueType /\ runState' \in [Runs -> RunStates]
    BY <1>0, <1>1, QueueTyped DEF StartRun, Runs, RunStates, TypeOK
  <2> QED
    BY <1>0, <1>1, <2>1 DEF StartRun, TypeInv, TypeOK, WorkerOK, QueueType
<1>2. ASSUME NEW r \in Runs, AnswerRun(r)
      PROVE  TypeInv'
  <2>1. /\ queue' \in QueueType /\ runState' \in [Runs -> RunStates]
        /\ answers' \in 0 .. MaxAnswers
    BY <1>0, <1>2, QueueTyped DEF AnswerRun, RunStates, TypeOK
  <2>2. NextIndex(steps[r]) \in Steps
    <3>1. NextIndex(steps[r]) \in 0 .. MaxSteps
      BY <1>0, NextIndexIs DEF TypeOK
    <3> QED
      BY <1>2, <3>1 DEF AnswerRun, Steps
  <2>3. history' \in [Runs -> SUBSET Entries]
    BY <1>0, <1>2, <2>2 DEF AnswerRun, UserMsg, Entries, TypeOK
  <2> QED
    BY <1>0, <1>2, <2>1, <2>3 DEF AnswerRun, TypeInv, TypeOK, WorkerOK, QueueType
<1>3. ASSUME NEW r \in Runs, CancelRun(r)
      PROVE  TypeInv'
  <2>1. cancelReq' \in [Runs -> BOOLEAN]
    BY <1>0, <1>3, Zenon DEF CancelRun, TypeOK
  <2>2. /\ runState' \in [Runs -> RunStates] /\ waitState' \in [WaitIds -> WaitStates]
        /\ resumed' \in SUBSET WaitIds
    <3>1. CASE runState[r] = "awaiting"
      <4>1. /\ runState' = [runState EXCEPT ![r] = "cancelled"]
            /\ waitState' = [w \in WaitIds |-> IF w \in OpenWaits(r) THEN "abandoned"
                                               ELSE waitState[w]]
            /\ resumed' = resumed \cup OpenWaits(r)
        BY <1>3, <3>1 DEF CancelRun, AbandonWaits
      <4> QED
        BY <1>0, <4>1 DEF TypeOK, RunStates, WaitStates, OpenWaits
    <3>2. CASE runState[r] # "awaiting"
      <4>1. UNCHANGED <<runState, waitState, resumed>>
        BY <1>3, <3>2 DEF CancelRun
      <4> QED
        BY <1>0, <4>1 DEF TypeOK
    <3> QED
      BY <3>1, <3>2
  <2>3. UNCHANGED <<parent, spawnAt, steps, history, members, queue, worker,
                    sweepVars, denied, boundVars>>
    BY <1>3 DEF CancelRun
  <2> QED
    BY <1>0, <2>1, <2>2, <2>3 DEF TypeInv, TypeOK, WorkerOK
<1> QED
  BY <1>1, <1>2, <1>3 DEF API

LEMMA TypeDeliver ==
  ASSUME TypeInv, NEW v \in Workers, Deliver(v)
  PROVE  TypeInv'
<1> USE DEF runVars, waitVars, sweepVars, boundVars
<1>0. TypeOK /\ WorkerOK /\ queue \in QueueType /\ worker \in [Workers -> WorkerType]
  BY DEF TypeInv, TypeOK, QueueType, WorkerType, Phases
<1>1. ASSUME NEW r \in Runs, NEW i \in Steps, ClaimStale(v, r, i)
      PROVE  TypeInv'
  <2>1. queue' \in QueueType
    BY <1>0, <1>1, QueueShrinks DEF ClaimStale
  <2> QED
    BY <1>0, <1>1, <2>1 DEF ClaimStale, TypeInv, TypeOK, WorkerOK, QueueType
<1>2. ASSUME NEW r \in Runs, NEW i \in Steps, ClaimCancelled(v, r, i)
      PROVE  TypeInv'
  <2>1. /\ Dequeued(queue, r, i) \in QueueType /\ "cancelled" \in RunStates
        /\ history \in [Runs -> SUBSET Entries] /\ steps' \in [Runs -> SUBSET Steps]
    BY <1>0, <1>2, QueueShrinks DEF ClaimCancelled, RunStates, TypeOK
  <2>2. worker' \in [Workers -> WorkerType] /\ WorkerOK'
    BY <1>0, <1>2, WorkerSteps DEF ClaimCancelled
  <2> QED
    BY <1>2, <2>1, <2>2, SettleStep DEF ClaimCancelled
<1>3. ASSUME NEW r \in Runs, NEW i \in Steps, Claim(v, r, i)
      PROVE  TypeInv'
  <2>1. queue' \in QueueType /\ runState' \in [Runs -> RunStates]
    BY <1>0, <1>3, QueueShrinks DEF Claim, RunStates, TypeOK
  <2> DEFINE new == [phase |-> "prepare", run |-> r, idx |-> i,
                     env |-> history[r], stale |-> FALSE, call |-> NoCall]
  <2>2. new \in WorkerType
    BY <1>0 DEF WorkerType, Phases, TypeOK
  <2>3. /\ worker' = [worker EXCEPT ![v] = new] /\ new.phase = "prepare" /\ new.run = r
    BY <1>3 DEF Claim
  <2> HIDE DEF new
  <2>4. worker' \in [Workers -> WorkerType] /\ WorkerOK'
    BY <1>0, <2>2, <2>3 DEF WorkerOK
  <2> QED
    BY <1>0, <1>3, <2>1, <2>4
       DEF Claim, TypeInv, TypeOK, QueueType, WorkerType, Phases
<1> QED
  BY <1>1, <1>2, <1>3 DEF Deliver

LEMMA TypeExecute ==
  ASSUME TypeInv, NEW v \in Workers, Execute(v)
  PROVE  TypeInv'
<1> USE DEF runVars, waitVars, sweepVars, boundVars
<1>0. TypeOK /\ WorkerOK /\ queue \in QueueType /\ worker \in [Workers -> WorkerType]
  BY DEF TypeInv, TypeOK, QueueType, WorkerType, Phases
<1>w. ASSUME worker' \in [Workers -> WorkerType], WorkerOK',
             UNCHANGED <<runVars, waitVars, queue, sweepVars, boundVars>>,
             denied' \in SUBSET (Runs \X Steps \X Calls)
      PROVE  TypeInv'
  BY <1>0, <1>w DEF TypeInv, TypeOK, WorkerType, Phases
<1>1. CASE StartStream(v)
  <2>1. worker' \in [Workers -> WorkerType]
    BY <1>0, <1>1, WorkerTyped DEF StartStream, Phases
  <2>2. \A u \in Workers : \/ worker'[u] = worker[u]
                           \/ worker'[u].phase = "stream" /\ worker'[u].run = worker[u].run
                              /\ u = v
    BY <1>0, <1>1 DEF StartStream, WorkerType
  <2>3. WorkerOK'
    BY <1>0, <1>1, <2>2 DEF WorkerOK, StartStream
  <2> QED
    BY <1>0, <1>1, <1>w, <2>1, <2>3 DEF StartStream, TypeOK
<1>2. CASE Compact(v)
  <2> DEFINE env == worker[v].env \cup {Compacted}
  <2>1. env \in SUBSET Entries
    BY <1>0 DEF WorkerType, Entries
  <2>2. /\ worker[v].phase = "prepare" /\ worker[v].run \in Runs
        /\ history' = [history EXCEPT ![worker[v].run] = env]
        /\ worker' = [worker EXCEPT ![v].phase = "stream", ![v].env = env]
    BY <1>0, <1>2 DEF Compact, WorkerOK
  <2> HIDE DEF env
  <2>3. worker' \in [Workers -> WorkerType]
    BY <1>0, <2>1, <2>2, WorkerTyped DEF Phases
  <2>4. \A u \in Workers : \/ worker'[u] = worker[u]
                           \/ worker'[u].phase = "stream" /\ worker'[u].run = worker[u].run
                              /\ u = v
    BY <1>0, <2>2 DEF WorkerType
  <2>5. WorkerOK'
    BY <1>0, <2>2, <2>4 DEF WorkerOK
  <2>6. history' \in [Runs -> SUBSET Entries]
    BY <1>0, <2>1, <2>2 DEF TypeOK
  <2> QED
    BY <1>0, <1>2, <2>3, <2>5, <2>6 DEF Compact, TypeInv, TypeOK, WorkerType, Phases
<1>3. ASSUME NEW k \in Calls, SpawnLookup(v, k)
      PROVE  TypeInv'
  <2>1. worker' \in [Workers -> WorkerType]
    BY <1>0, <1>3, WorkerTyped DEF SpawnLookup, Phases
  <2>2. \A u \in Workers : \/ worker'[u] = worker[u]
                           \/ worker'[u].call = k /\ worker'[u].run = worker[u].run
                              /\ u = v
    BY <1>0, <1>3 DEF SpawnLookup, WorkerType
  <2>3. WorkerOK'
    BY <1>0, <1>3, <2>2 DEF WorkerOK, SpawnLookup
  <2> QED
    BY <1>0, <1>3, <1>w, <2>1, <2>3 DEF SpawnLookup, TypeOK
<1>4. CASE SpawnDenied(v)
  <2>1. worker' \in [Workers -> WorkerType] /\ WorkerOK'
    BY <1>0, <1>4, WorkerSteps DEF SpawnDenied
  <2>2. worker[v].run \in Runs /\ worker[v].idx \in Steps /\ worker[v].call \in Calls
    BY <1>0, <1>4 DEF SpawnDenied, WorkerOK, WorkerType
  <2>3. denied' \in SUBSET (Runs \X Steps \X Calls)
    BY <1>0, <1>4, <2>2 DEF SpawnDenied, TypeOK
  <2> QED
    BY <1>4, <1>w, <2>1, <2>3 DEF SpawnDenied
<1>5. CASE SpawnAdopt(v)
  <2>1. worker' \in [Workers -> WorkerType] /\ WorkerOK'
    BY <1>0, <1>5, WorkerSteps DEF SpawnAdopt
  <2> QED
    BY <1>0, <1>5, <1>w, <2>1 DEF SpawnAdopt, TypeOK
<1>6. ASSUME NEW c \in Children, SpawnCreate(v, c)
      PROVE  TypeInv'
  <2>1. worker' \in [Workers -> WorkerType] /\ WorkerOK'
    BY <1>0, <1>6, WorkerSteps DEF SpawnCreate
  <2>2. c \in Runs /\ worker[v].run \in Runs /\ worker[v].idx \in Steps
        /\ worker[v].call \in Calls
    BY <1>0, <1>6 DEF SpawnCreate, WorkerOK, WorkerType, Runs
  <2>3. /\ runState' \in [Runs -> RunStates]
        /\ parent' \in [Runs -> Runs \cup {NoRun}]
        /\ spawnAt' \in [Runs -> Steps \X (Calls \cup {NoCall})]
    BY <1>0, <1>6, <2>2 DEF SpawnCreate, TypeOK, RunStates
  <2>4. queue' \in QueueType
    BY <1>0, <1>6, <2>2, QueueTyped DEF SpawnCreate
  <2> QED
    BY <1>0, <1>6, <2>1, <2>3, <2>4
       DEF SpawnCreate, TypeInv, TypeOK, WorkerType, Phases, QueueType
<1>7. CASE FailRun(v)
  <2>1. worker' \in [Workers -> WorkerType] /\ WorkerOK' /\ worker[v].run \in Runs
    BY <1>0, <1>7, WorkerSteps DEF FailRun, WorkerOK
  <2>2. CASE Terminal(runState[worker[v].run])
    BY <1>0, <1>7, <1>w, <2>1, <2>2 DEF FailRun, TypeOK
  <2>3. CASE ~Terminal(runState[worker[v].run])
    <3>1. Settle(worker[v].run, "failed", history, queue)
      BY <1>7, <2>3 DEF FailRun
    <3>2. /\ "failed" \in RunStates /\ history \in [Runs -> SUBSET Entries]
          /\ steps' \in [Runs -> SUBSET Steps]
      BY <1>0, <1>7 DEF FailRun, RunStates, TypeOK
    <3> QED
      BY <1>0, <1>7, <2>1, <3>1, <3>2, SettleStep DEF FailRun
  <2> QED
    BY <2>2, <2>3
<1>8. CASE StreamCancelled(v)
  <2>1. worker' \in [Workers -> WorkerType] /\ WorkerOK' /\ worker[v].run \in Runs
    BY <1>0, <1>8, WorkerSteps DEF StreamCancelled, WorkerOK
  <2>2. /\ "cancelled" \in RunStates /\ history \in [Runs -> SUBSET Entries]
        /\ steps' \in [Runs -> SUBSET Steps]
    BY <1>0, <1>8 DEF StreamCancelled, RunStates, TypeOK
  <2> QED
    BY <1>0, <1>8, <2>1, <2>2, SettleStep DEF StreamCancelled
<1> QED
  BY <1>1, <1>2, <1>3, <1>4, <1>5, <1>6, <1>7, <1>8 DEF Execute

\* What a committing worker writes.
LEMMA CommitTyped ==
  ASSUME TypeInv, NEW v \in Workers, worker[v].phase # "idle"
  PROVE  /\ worker[v].run \in Runs /\ worker[v].idx \in Steps
         /\ CommittedSteps(v) \in [Runs -> SUBSET Steps]
         /\ CommittedHistory(v) \in [Runs -> SUBSET Entries]
         /\ <<worker[v].run, worker[v].idx>> \in WaitIds
         /\ WaitMsg(worker[v].idx) \in Entries
<1>1. worker[v].run \in Runs /\ worker[v].idx \in Steps /\ worker[v].env \in SUBSET Entries
  BY DEF TypeInv, TypeOK, WorkerOK
<1> QED
  BY <1>1 DEF TypeInv, TypeOK, CommittedSteps, CommittedHistory, StepMsg, WaitMsg,
              Entries, WaitIds

LEMMA TypeCommit ==
  ASSUME TypeInv, NEW v \in Workers, Commit(v)
  PROVE  TypeInv'
<1> USE DEF runVars, waitVars, sweepVars, boundVars
<1>0. TypeOK /\ WorkerOK /\ queue \in QueueType /\ worker \in [Workers -> WorkerType]
  BY DEF TypeInv, TypeOK, QueueType, WorkerType, Phases
<1>w. Release(v) => worker' \in [Workers -> WorkerType] /\ WorkerOK'
  BY <1>0, WorkerSteps
<1>1. CASE CommitStale(v)
  <2>1. worker' \in [Workers -> WorkerType] /\ WorkerOK'
    BY <1>1, <1>w DEF CommitStale
  <2> QED
    BY <1>0, <1>1, <2>1 DEF CommitStale, TypeInv, TypeOK, WorkerType, Phases
<1>2. CASE CommitCancelled(v)
  <2>1. worker' \in [Workers -> WorkerType] /\ WorkerOK' /\ worker[v].run \in Runs
    BY <1>2, <1>w, CommitTyped DEF CommitCancelled
  <2>2. /\ "cancelled" \in RunStates /\ history \in [Runs -> SUBSET Entries]
        /\ steps' \in [Runs -> SUBSET Steps]
    BY <1>0, <1>2 DEF CommitCancelled, RunStates, TypeOK
  <2> QED
    BY <1>0, <1>2, <2>1, <2>2, SettleStep DEF CommitCancelled
<1>3. CASE CommitContinue(v)
  <2>1. /\ worker' \in [Workers -> WorkerType] /\ WorkerOK'
        /\ steps' \in [Runs -> SUBSET Steps] /\ history' \in [Runs -> SUBSET Entries]
        /\ queue' \in QueueType
    BY <1>0, <1>3, <1>w, CommitTyped, QueueTyped DEF CommitContinue
  <2> QED
    BY <1>0, <1>3, <2>1
       DEF CommitContinue, TypeInv, TypeOK, WorkerType, Phases, QueueType
<1>4. CASE CommitQuestion(v)
  <2>1. /\ worker' \in [Workers -> WorkerType] /\ WorkerOK'
        /\ steps' \in [Runs -> SUBSET Steps] /\ history' \in [Runs -> SUBSET Entries]
    BY <1>4, <1>w, CommitTyped DEF CommitQuestion
  <2>2. runState' \in [Runs -> RunStates]
    BY <1>0, <1>4 DEF CommitQuestion, TypeOK, RunStates
  <2> QED
    BY <1>0, <1>4, <2>1, <2>2 DEF CommitQuestion, TypeInv, TypeOK, WorkerType, Phases
<1>5. CASE CommitComplete(v)
  <2>1. /\ worker' \in [Workers -> WorkerType] /\ WorkerOK' /\ worker[v].run \in Runs
        /\ steps' \in [Runs -> SUBSET Steps]
        /\ CommittedHistory(v) \in [Runs -> SUBSET Entries] /\ "completed" \in RunStates
    BY <1>5, <1>w, CommitTyped DEF CommitComplete, RunStates
  <2> QED
    BY <1>0, <1>5, <2>1, SettleStep DEF CommitComplete
<1>6. ASSUME NEW M \in SUBSET ChildrenOf(worker[v].run),
             \/ CommitWaitConflict(v, M)
             \/ CommitWaitClosed(v, M)
             \/ CommitWaitPark(v, M)
      PROVE  TypeInv'
  <2> DEFINE r == worker[v].run
             w == <<worker[v].run, worker[v].idx>>
  <2>0. worker[v].phase # "idle" /\ worker' \in [Workers -> WorkerType] /\ WorkerOK'
    BY <1>6, <1>w
       DEF CommitWaitConflict, CommitWaitClosed, CommitWaitPark, WaitCommit
  <2>1. /\ r \in Runs /\ w \in WaitIds /\ WaitMsg(w[2]) \in Entries
        /\ CommittedSteps(v) \in [Runs -> SUBSET Steps]
        /\ CommittedHistory(v) \in [Runs -> SUBSET Entries]
    BY <2>0, CommitTyped
  <2>2. M \in SUBSET Runs
    BY DEF ChildrenOf, Runs
  <2>3. CASE CommitWaitConflict(v, M)
    <3>1. queue' \in QueueType
      BY <1>0, <2>1, <2>3, QueueTyped DEF CommitWaitConflict
    <3> QED
      BY <1>0, <2>0, <2>3, <3>1
         DEF CommitWaitConflict, TypeInv, TypeOK, WorkerType, Phases, QueueType
  <2>4. CASE CommitWaitClosed(v, M)
    <3>1. queue' \in QueueType
      BY <1>0, <2>1, <2>4, QueueTyped DEF CommitWaitClosed
    <3>2. /\ steps' \in [Runs -> SUBSET Steps]
          /\ waitState' \in [WaitIds -> WaitStates]
          /\ members' \in [WaitIds -> SUBSET Runs]
          /\ resumed' \in SUBSET WaitIds
      BY <1>0, <2>1, <2>2, <2>4 DEF CommitWaitClosed, TypeOK, WaitStates
    <3>3. history' \in [Runs -> SUBSET Entries]
      BY <2>1, <2>4 DEF CommitWaitClosed
    <3> QED
      BY <1>0, <2>0, <2>4, <3>1, <3>2, <3>3
         DEF CommitWaitClosed, TypeInv, TypeOK, WorkerType, Phases, QueueType
  <2>5. CASE CommitWaitPark(v, M)
    <3>1. /\ steps' \in [Runs -> SUBSET Steps] /\ history' \in [Runs -> SUBSET Entries]
          /\ runState' \in [Runs -> RunStates]
          /\ waitState' \in [WaitIds -> WaitStates]
          /\ members' \in [WaitIds -> SUBSET Runs]
          /\ sweepJobs' \in SUBSET (WaitIds \cup {Rearm})
      BY <1>0, <2>1, <2>2, <2>5
         DEF CommitWaitPark, TypeOK, WaitStates, RunStates, Armed
    <3> QED
      BY <1>0, <2>0, <2>5, <3>1
         DEF CommitWaitPark, TypeInv, TypeOK, WorkerType, Phases
  <2> QED
    BY <1>6, <2>3, <2>4, <2>5
<1> QED
  BY <1>1, <1>2, <1>3, <1>4, <1>5, <1>6 DEF Commit

LEMMA TypeFault ==
  ASSUME TypeInv, NEW v \in Workers, WorkerFault(v)
  PROVE  TypeInv'
<1> USE LoopAssumption DEF runVars, waitVars, sweepVars, boundVars
<1>0. TypeOK /\ WorkerOK /\ queue \in QueueType /\ worker \in [Workers -> WorkerType]
  BY DEF TypeInv, TypeOK, QueueType, WorkerType, Phases
<1>w. ASSUME worker' \in [Workers -> WorkerType], WorkerOK', queue' \in QueueType,
             faults' \in 0 .. MaxFaults,
             UNCHANGED <<runVars, waitVars, sweepVars, denied, answers>>
      PROVE  TypeInv'
  BY <1>0, <1>w DEF TypeInv, TypeOK, WorkerType, Phases, QueueType
<1>1. CASE Retry(v)
  <2>1. worker' \in [Workers -> WorkerType] /\ WorkerOK' /\ worker[v].run \in Runs
    BY <1>0, <1>1, WorkerSteps DEF Retry, WorkerOK
  <2>2. queue' \in QueueType /\ faults' \in 0 .. MaxFaults
    BY <1>0, <1>1, <2>1, QueueTyped DEF Retry, TypeOK
  <2> QED
    BY <1>1, <1>w, <2>1, <2>2 DEF Retry
<1>2. CASE Redeliver(v)
  <2>1. worker[v].run \in Runs /\ worker' \in [Workers -> WorkerType]
    BY <1>0, <1>2, WorkerTyped DEF Redeliver, WorkerOK, Phases, WorkerType
  <2>2. \A u \in Workers : /\ worker'[u].phase = worker[u].phase
                           /\ worker'[u].run = worker[u].run
                           /\ worker'[u].call = worker[u].call
    BY <1>0, <1>2 DEF Redeliver, WorkerType
  <2>3. WorkerOK'
    BY <1>0, <2>2 DEF WorkerOK
  <2>4. queue' \in QueueType /\ faults' \in 0 .. MaxFaults
    BY <1>0, <1>2, <2>1, QueueTyped DEF Redeliver, TypeOK
  <2> QED
    BY <1>2, <1>w, <2>1, <2>3, <2>4 DEF Redeliver
<1>3. CASE SpawnFails(v)
  <2>1. worker' \in [Workers -> WorkerType] /\ WorkerOK'
    BY <1>0, <1>3, WorkerSteps DEF SpawnFails
  <2>2. queue' \in QueueType /\ faults' \in 0 .. MaxFaults
    BY <1>0, <1>3 DEF SpawnFails, TypeOK
  <2> QED
    BY <1>3, <1>w, <2>1, <2>2 DEF SpawnFails
<1> QED
  BY <1>1, <1>2, <1>3 DEF WorkerFault

LEMMA TypeSweep ==
  ASSUME TypeInv,
         (\E w \in WaitIds : DeadlinePasses(w)) \/ Sweep \/ SweepFault
  PROVE  TypeInv'
<1> USE DEF runVars, waitVars, sweepVars, boundVars
<1> DEFINE SweepType == [phase : {"idle", "sweep"}, claimed : SUBSET WaitIds,
                         full : BOOLEAN, job : WaitIds \cup {Rearm}]
<1>0. TypeOK /\ WorkerOK /\ queue \in QueueType /\ sweeper \in SweepType
  BY DEF TypeInv, TypeOK, QueueType
<1>i. IdleSweeper \in SweepType
  BY DEF IdleSweeper
<1> HIDE DEF SweepType
<1>w. ASSUME sweeper' \in SweepType, due' \in SUBSET WaitIds,
             sweepJobs' \in SUBSET (WaitIds \cup {Rearm}),
             waitState' \in [WaitIds -> WaitStates],
             UNCHANGED <<runVars, members, resumed, queue, worker, denied, boundVars>>
      PROVE  TypeInv'
  BY <1>0, <1>w DEF TypeInv, TypeOK, WorkerOK, SweepType
<1>1. ASSUME NEW w \in WaitIds, DeadlinePasses(w)
      PROVE  TypeInv'
  BY <1>0, <1>1, <1>w DEF DeadlinePasses, TypeOK
<1>2. ASSUME NEW job \in sweepJobs, NEW skipped \in SUBSET due, SweepClaim(job, skipped)
      PROVE  TypeInv'
  <2>1. PICK C \in SUBSET ({w \in due : waitState[w] = "open"} \ skipped) :
          /\ waitState' = [w \in WaitIds |-> IF w \in C THEN "timed_out"
                                             ELSE waitState[w]]
          /\ sweeper' = [phase |-> "sweep", claimed |-> C,
                         full |-> Cardinality(C) = Batch, job |-> job]
    BY <1>2 DEF SweepClaim
  <2>2. C \in SUBSET WaitIds /\ job \in WaitIds \cup {Rearm}
    BY <1>0, <2>1 DEF TypeOK
  <2>3. sweeper' \in SweepType
    <3>1. (Cardinality(C) = Batch) \in BOOLEAN
      OBVIOUS
    <3> QED
      BY <2>1, <2>2, <3>1, Zenon DEF SweepType
  <2>4. waitState' \in [WaitIds -> WaitStates]
    BY <1>0, <2>1 DEF TypeOK, WaitStates
  <2>5. sweepJobs' \in SUBSET (WaitIds \cup {Rearm}) /\ due' \in SUBSET WaitIds
    BY <1>0, <1>2 DEF SweepClaim, TypeOK
  <2> QED
    BY <1>2, <1>w, <2>3, <2>4, <2>5 DEF SweepClaim
<1>3. ASSUME NEW w \in WaitIds, SweepResolve(w)
      PROVE  TypeInv'
  <2> DEFINE live == {u \in {w} : MayResume(u)}
  <2>1. queue' \in QueueType
    BY <1>0, <1>3, ResumedQueueTyped DEF SweepResolve
  <2>2. runState' \in [Runs -> RunStates]
    BY <1>0, <1>3 DEF SweepResolve, ResumedState, TypeOK, RunStates
  <2>3. history' \in [Runs -> SUBSET Entries]
    <3>1. history' = ResumedHistory(live, history)
      BY <1>3 DEF SweepResolve
    <3>2. WaitMsg(w[2]) \in Entries
      BY DEF WaitIds, WaitMsg, Entries
    <3> QED
      BY <1>0, <3>1, <3>2 DEF ResumedHistory, TypeOK
  <2>4. sweeper' \in SweepType
    BY <1>0, <1>3 DEF SweepResolve, SweepType
  <2>5. resumed' \in SUBSET WaitIds
    BY <1>0, <1>3 DEF SweepResolve, TypeOK
  <2> QED
    BY <1>0, <1>3, <2>1, <2>2, <2>3, <2>4, <2>5
       DEF SweepResolve, TypeInv, TypeOK, WorkerOK, SweepType, QueueType
<1>4. CASE SweepDone \/ SweepError \/ SweepCrash
  <2>1. sweeper.job \in WaitIds \cup {Rearm}
    BY <1>0 DEF SweepType
  <2>2. sweeper' \in SweepType /\ sweepJobs' \in SUBSET (WaitIds \cup {Rearm})
    BY <1>0, <1>4, <1>i, <2>1 DEF SweepDone, SweepError, SweepCrash, TypeOK
  <2> QED
    BY <1>0, <1>4, <1>w, <2>2 DEF SweepDone, SweepError, SweepCrash, TypeOK
<1> QED
  BY <1>1, <1>2, <1>3, <1>4 DEF Sweep, SweepFault

LEMMA TypeInvStep ==
  ASSUME TypeInv, \A r \in Runs : NoHole(steps[r]), [Next]_vars
  PROVE  TypeInv'
<1>1. CASE UNCHANGED vars
  BY <1>1 DEF vars, runVars, waitVars, sweepVars, boundVars, TypeInv, TypeOK, WorkerOK
<1> QED
  BY <1>1, TypeApi, TypeDeliver, TypeExecute, TypeCommit, TypeFault, TypeSweep
     DEF Next, Work

LEMMA TypeInvInit ==
  ASSUME Init
  PROVE  TypeInv
<1> USE ZeroStep, LoopAssumption
<1>1. cancelReq \in [Runs -> BOOLEAN]
  BY Zenon DEF Init
<1>2. worker \in [Workers -> WorkerType] /\ WorkerOK
  BY DEF Init, IdleWorker, WorkerType, Phases, WorkerOK
<1>3. sweeper \in [phase : {"idle", "sweep"}, claimed : SUBSET WaitIds,
                   full : BOOLEAN, job : WaitIds \cup {Rearm}]
  BY DEF Init, IdleSweeper
<1>4. /\ runState \in [Runs -> RunStates] /\ parent \in [Runs -> Runs \cup {NoRun}]
      /\ spawnAt \in [Runs -> Steps \X (Calls \cup {NoCall})]
      /\ steps \in [Runs -> SUBSET Steps] /\ history \in [Runs -> SUBSET Entries]
      /\ waitState \in [WaitIds -> WaitStates] /\ members \in [WaitIds -> SUBSET Runs]
      /\ queue \in [Runs -> [Steps -> Nat]]
  BY DEF Init, RunStates, WaitStates
<1> QED
  BY <1>1, <1>2, <1>3, <1>4 DEF Init, TypeInv, TypeOK, WorkerType, Phases

-----------------------------------------------------------------------------
(***************************************************************************)
(* No step is skipped.  The inductive invariant says it of everything that *)
(* can still commit a step: the steps before a queued or executing job are *)
(* committed.                                                              *)
(***************************************************************************)

NoHoles ==
  /\ \A r \in Runs : NoHole(steps[r])
  /\ \A r \in Runs, i \in Steps : queue[r][i] > 0 => 0 .. i - 1 \subseteq steps[r]
  /\ \A v \in Workers : worker[v].phase # "idle" =>
       0 .. worker[v].idx - 1 \subseteq steps[worker[v].run]

\* Steps are only added, and each new job is for a step whose predecessors are
\* there.
Grows ==
  /\ \A r \in Runs : steps[r] \subseteq steps'[r] /\ NoHole(steps'[r])
  /\ \A r \in Runs, i \in Steps : queue'[r][i] > 0 =>
       queue[r][i] > 0 \/ 0 .. i - 1 \subseteq steps'[r]
  /\ \A v \in Workers : worker'[v].phase # "idle" =>
       \/ /\ worker[v].phase # "idle"
          /\ worker'[v].run = worker[v].run /\ worker'[v].idx = worker[v].idx
       \/ 0 .. worker'[v].idx - 1 \subseteq steps'[worker'[v].run]

LEMMA NoHolesKept ==
  ASSUME TypeInv, TypeInv', NoHoles, Grows
  PROVE  NoHoles'
<1>1. \A v \in Workers : worker[v].phase # "idle" => worker[v].run \in Runs
  BY DEF TypeInv, WorkerOK
<1> QED
  BY <1>1 DEF NoHoles, Grows, NoHole

StepsGrow == \A r \in Runs : steps[r] \subseteq steps'[r] /\ NoHole(steps'[r])

\* The jobs of queue q are jobs of the queue, or for the next step.
JobsGrow(q) == \A x \in Runs, j \in Steps :
                 q[x][j] > 0 => queue[x][j] > 0 \/ 0 .. j - 1 \subseteq steps[x]

SameJobs == \A v \in Workers : worker'[v].phase # "idle" =>
              /\ worker[v].phase # "idle"
              /\ worker'[v].run = worker[v].run /\ worker'[v].idx = worker[v].idx

LEMMA GrowsFrom ==
  ASSUME StepsGrow, JobsGrow(queue'), SameJobs
  PROVE  Grows
BY DEF StepsGrow, JobsGrow, SameJobs, Grows

LEMMA StepsSame ==
  ASSUME NoHoles, UNCHANGED steps
  PROVE  StepsGrow
BY DEF NoHoles, StepsGrow

LEMMA StepsCommitted ==
  ASSUME TypeInv, NoHoles, NEW v \in Workers, worker[v].phase # "idle",
         steps' = CommittedSteps(v)
  PROVE  /\ StepsGrow
         /\ 0 .. worker[v].idx \subseteq steps'[worker[v].run]
         /\ steps'[worker[v].run] = steps[worker[v].run] \cup {worker[v].idx}
<1> DEFINE r == worker[v].run
           i == worker[v].idx
<1>1. /\ r \in Runs /\ i \in Nat /\ i \in Steps /\ steps \in [Runs -> SUBSET Steps]
  BY LoopAssumption DEF TypeInv, TypeOK, WorkerOK, Steps
<1>2. 0 .. i - 1 \subseteq steps[r] /\ \A x \in Runs : NoHole(steps[x])
  BY DEF NoHoles
<1>3. \A x \in Runs : steps'[x] = IF x = r THEN steps[r] \cup {i} ELSE steps[x]
  BY <1>1 DEF CommittedSteps
<1>4. 0 .. i \subseteq steps'[r]
  BY <1>1, <1>2, <1>3
<1>5. NoHole(steps'[r])
  <2>1. \A j \in steps[r] : 0 .. j - 1 \subseteq steps[r]
    BY <1>1, <1>2 DEF NoHole
  <2> QED
    BY <1>1, <1>2, <1>3, <2>1 DEF NoHole
<1> QED
  BY <1>1, <1>2, <1>3, <1>4, <1>5 DEF StepsGrow

LEMMA WorkerSame ==
  ASSUME TypeInv, NEW v \in Workers
  PROVE  /\ Release(v) => SameJobs
         /\ (worker[v].phase # "idle" /\ BackToStream(v)) => SameJobs
         /\ UNCHANGED worker => SameJobs
<1>0. worker \in [Workers -> WorkerType]
  BY DEF TypeInv, TypeOK, WorkerType, Phases
<1>1. ASSUME Release(v)
      PROVE  SameJobs
  <2>1. \A u \in Workers : worker'[u] = worker[u] \/ worker'[u].phase = "idle"
    BY <1>0, <1>1 DEF Release, IdleWorker
  <2> QED
    BY <2>1 DEF SameJobs
<1>2. ASSUME worker[v].phase # "idle", BackToStream(v)
      PROVE  SameJobs
  <2>1. \A u \in Workers : \/ worker'[u] = worker[u]
                           \/ u = v /\ worker'[u].run = worker[u].run
                                    /\ worker'[u].idx = worker[u].idx
    BY <1>0, <1>2 DEF BackToStream, WorkerType
  <2> QED
    BY <1>2, <2>1 DEF SameJobs
<1>3. ASSUME UNCHANGED worker
      PROVE  SameJobs
  BY <1>3 DEF SameJobs
<1> QED
  BY <1>1, <1>2, <1>3

LEMMA ZeroJob == ASSUME NEW S
                 PROVE  0 .. 0 - 1 \subseteq S
OBVIOUS

\* The three ways the queue grows: a first step, a resumption, a settled run.
LEMMA EnqueuedGrows ==
  ASSUME TypeInv, NEW r \in Runs, NEW i, i \in Steps => 0 .. i - 1 \subseteq steps[r]
  PROVE  JobsGrow(Enqueued(queue, r, i))
<1>1. queue \in QueueType
  BY DEF TypeInv, TypeOK, QueueType
<1>2. \A x \in Runs, j \in Steps : queue[x][j] \in Nat /\
        Enqueued(queue, r, i)[x][j] = IF x = r /\ j = i THEN queue[x][j] + 1
                                                        ELSE queue[x][j]
  BY <1>1, QueueTyped DEF QueueType
<1> QED
  BY <1>2 DEF JobsGrow

LEMMA ResumedGrows ==
  ASSUME TypeInv, NoHoles, NEW q \in QueueType, JobsGrow(q), NEW W
  PROVE  JobsGrow(ResumedQueue(W, q))
<1> SUFFICES ASSUME NEW x \in Runs, NEW j \in Steps, ResumedQueue(W, q)[x][j] > 0
             PROVE  queue[x][j] > 0 \/ 0 .. j - 1 \subseteq steps[x]
  BY DEF JobsGrow
<1>1. steps[x] \in SUBSET Steps /\ NoHole(steps[x])
  BY DEF TypeInv, TypeOK, NoHoles
<1>2. steps[x] = 0 .. NextIndex(steps[x]) - 1
  BY <1>1, NextIndexIs
<1>3. ResumedQueue(W, q)[x][j] = q[x][j] \/ j = NextIndex(steps[x])
  BY ResumedQueueTyped
<1> QED
  BY <1>2, <1>3 DEF JobsGrow

LEMMA SettleGrows ==
  ASSUME TypeInv, NoHoles, NEW r, NEW s, NEW hist, NEW q \in QueueType, JobsGrow(q),
         Settle(r, s, hist, q)
  PROVE  JobsGrow(queue')
BY ResumedGrows DEF Settle

LEMMA JobsSame ==
  ASSUME UNCHANGED queue
  PROVE  JobsGrow(queue')
BY DEF JobsGrow

LEMMA JobsTaken ==
  ASSUME TypeInv, NEW r \in Runs, NEW i \in Steps, queue[r][i] > 0
  PROVE  Dequeued(queue, r, i) \in QueueType /\ JobsGrow(Dequeued(queue, r, i))
<1>1. queue \in QueueType
  BY DEF TypeInv, TypeOK, QueueType
<1>2. \A x \in Runs, j \in Steps : queue[x][j] \in Nat
        /\ Dequeued(queue, r, i)[x][j] \in Nat
        /\ Dequeued(queue, r, i)[x][j] <= queue[x][j]
  BY <1>1, QueueShrinks DEF QueueType
<1> QED
  BY <1>1, <1>2, QueueShrinks DEF JobsGrow

\* A commit enqueues a step after the one it commits.
LEMMA CommitGrows ==
  ASSUME TypeInv, NoHoles, NEW v \in Workers, worker[v].phase # "idle",
         steps' = CommittedSteps(v), Release(v), NEW n,
         n \in Steps => 0 .. n - 1 \subseteq steps'[worker[v].run],
         queue' = Enqueued(queue, worker[v].run, n)
  PROVE  Grows
<1>1. queue \in QueueType /\ worker[v].run \in Runs
  BY DEF TypeInv, TypeOK, QueueType, WorkerOK
<1>2. \A x \in Runs, j \in Steps : queue[x][j] \in Nat /\
        queue'[x][j] = IF x = worker[v].run /\ j = n THEN queue[x][j] + 1
                                                     ELSE queue[x][j]
  BY <1>1, QueueTyped DEF QueueType
<1>3. StepsGrow /\ SameJobs
  BY StepsCommitted, WorkerSame
<1> QED
  BY <1>2, <1>3 DEF Grows, StepsGrow, SameJobs

LEMMA ApiGrows ==
  ASSUME TypeInv, NoHoles, API
  PROVE  Grows
<1>1. ASSUME NEW r \in Roots, StartRun(r)
      PROVE  JobsGrow(queue') /\ UNCHANGED <<steps, worker>>
  BY <1>1, EnqueuedGrows, ZeroJob DEF StartRun, Runs
<1>2. ASSUME NEW r \in Runs, AnswerRun(r)
      PROVE  JobsGrow(queue') /\ UNCHANGED <<steps, worker>>
  <2>1. steps[r] = 0 .. NextIndex(steps[r]) - 1
    BY NextIndexIs DEF TypeInv, TypeOK, NoHoles
  <2> QED
    BY <1>2, <2>1, EnqueuedGrows DEF AnswerRun
<1>3. ASSUME NEW r \in Runs, CancelRun(r)
      PROVE  JobsGrow(queue') /\ UNCHANGED <<steps, worker>>
  BY <1>3, JobsSame DEF CancelRun
<1>4. JobsGrow(queue') /\ UNCHANGED <<steps, worker>>
  BY <1>1, <1>2, <1>3 DEF API
<1>5. SameJobs
  BY <1>4 DEF SameJobs
<1> QED
  BY <1>4, <1>5, StepsSame, GrowsFrom

LEMMA DeliverGrows ==
  ASSUME TypeInv, NoHoles, NEW v \in Workers, Deliver(v)
  PROVE  Grows
<1> USE DEF runVars
<1>1. PICK r \in Runs, i \in Steps :
        ClaimStale(v, r, i) \/ ClaimCancelled(v, r, i) \/ Claim(v, r, i)
  BY DEF Deliver
<1>2. queue[r][i] > 0 /\ UNCHANGED steps
  BY <1>1 DEF ClaimStale, ClaimCancelled, Claim
<1>3. StepsGrow
  BY <1>2, StepsSame
<1>4. /\ Dequeued(queue, r, i) \in QueueType /\ JobsGrow(Dequeued(queue, r, i))
  BY <1>2, JobsTaken
<1>5. JobsGrow(queue')
  BY <1>1, <1>4, SettleGrows DEF ClaimStale, ClaimCancelled, Claim
<1>6. CASE ClaimStale(v, r, i) \/ ClaimCancelled(v, r, i)
  BY <1>3, <1>5, <1>6, GrowsFrom, WorkerSame DEF ClaimStale, ClaimCancelled
<1>7. CASE Claim(v, r, i)
  <2>1. worker \in [Workers -> WorkerType]
    BY DEF TypeInv, TypeOK, WorkerType, Phases
  <2>2. \A u \in Workers : \/ worker'[u] = worker[u]
                           \/ worker'[u].run = r /\ worker'[u].idx = i
    <3> DEFINE new == [phase |-> "prepare", run |-> r, idx |-> i,
                       env |-> history[r], stale |-> FALSE, call |-> NoCall]
    <3>1. worker' = [worker EXCEPT ![v] = new] /\ new.run = r /\ new.idx = i
      BY <1>7 DEF Claim
    <3> HIDE DEF new
    <3>2. worker'[v] = new /\ \A u \in Workers : u # v => worker'[u] = worker[u]
      BY <2>1, <3>1
    <3> QED
      BY <3>1, <3>2
  <2>3. 0 .. i - 1 \subseteq steps[r]
    BY <1>2 DEF NoHoles
  <2> QED
    BY <1>2, <1>3, <1>5, <2>2, <2>3 DEF Grows, StepsGrow, JobsGrow
<1> QED
  BY <1>1, <1>6, <1>7

LEMMA ExecuteGrows ==
  ASSUME TypeInv, NoHoles, NEW v \in Workers, Execute(v) \/ WorkerFault(v)
  PROVE  Grows
<1> USE DEF runVars
<1>0. worker \in [Workers -> WorkerType] /\ queue \in QueueType
  BY DEF TypeInv, TypeOK, WorkerType, Phases, QueueType
<1>w. ASSUME worker[v].phase # "idle",
             \A u \in Workers : \/ worker'[u] = worker[u]
                                \/ /\ u = v /\ worker'[u].run = worker[u].run
                                   /\ worker'[u].idx = worker[u].idx
      PROVE  SameJobs
  BY <1>w DEF SameJobs
<1>q. worker[v].phase # "idle" =>
        JobsGrow(Enqueued(queue, worker[v].run, worker[v].idx))
  BY EnqueuedGrows DEF TypeInv, WorkerOK, NoHoles
<1>1. UNCHANGED steps
  BY DEF Execute, WorkerFault, StartStream, Compact, SpawnLookup, SpawnDenied,
         SpawnAdopt, SpawnCreate, FailRun, StreamCancelled, Retry, Redeliver,
         SpawnFails
<1>2. SameJobs
  <2>1. CASE StartStream(v)
    BY <1>0, <1>w, <2>1 DEF StartStream, WorkerType
  <2>2. CASE Compact(v)
    BY <1>0, <1>w, <2>2 DEF Compact, WorkerType
  <2>3. ASSUME NEW k \in Calls, SpawnLookup(v, k)
        PROVE  SameJobs
    BY <1>0, <1>w, <2>3 DEF SpawnLookup, WorkerType
  <2>4. CASE Redeliver(v)
    BY <1>0, <1>w, <2>4 DEF Redeliver, WorkerType
  <2>5. CASE SpawnDenied(v) \/ SpawnAdopt(v) \/ SpawnFails(v)
    BY <2>5, WorkerSame DEF SpawnDenied, SpawnAdopt, SpawnFails
  <2>6. ASSUME NEW c \in Children, SpawnCreate(v, c)
        PROVE  SameJobs
    BY <2>6, WorkerSame DEF SpawnCreate
  <2>7. CASE FailRun(v) \/ StreamCancelled(v) \/ Retry(v)
    BY <2>7, WorkerSame DEF FailRun, StreamCancelled, Retry
  <2> QED
    BY <2>1, <2>2, <2>3, <2>4, <2>5, <2>6, <2>7 DEF Execute, WorkerFault
<1>3. JobsGrow(queue')
  <2>1. CASE UNCHANGED queue
    BY <2>1, JobsSame
  <2>2. ASSUME NEW c \in Children, SpawnCreate(v, c)
        PROVE  JobsGrow(queue')
    BY <2>2, EnqueuedGrows, ZeroJob DEF SpawnCreate, Runs
  <2>3. CASE FailRun(v) \/ StreamCancelled(v)
    <3>1. JobsGrow(queue)
      BY DEF JobsGrow
    <3>2. UNCHANGED queue \/ \E s : Settle(worker[v].run, s, history, queue)
      BY <2>3 DEF FailRun, StreamCancelled
    <3> QED
      BY <1>0, <2>1, <3>1, <3>2, SettleGrows
  <2>4. CASE Retry(v) \/ Redeliver(v)
    BY <1>q, <2>1, <2>4 DEF Retry, Redeliver
  <2> QED
    BY <2>1, <2>2, <2>3, <2>4
       DEF Execute, WorkerFault, StartStream, Compact, SpawnLookup, SpawnDenied,
           SpawnAdopt, SpawnFails
<1> QED
  BY <1>1, <1>2, <1>3, StepsSame, GrowsFrom

LEMMA CommitsGrow ==
  ASSUME TypeInv, NoHoles, NEW v \in Workers, Commit(v)
  PROVE  Grows
<1> USE DEF runVars
<1> DEFINE r == worker[v].run
           i == worker[v].idx
<1>0. queue \in QueueType /\ JobsGrow(queue)
  BY DEF TypeInv, TypeOK, QueueType, JobsGrow
<1>r. worker[v].phase # "idle" /\ Release(v)
  BY DEF Commit, CommitStale, CommitCancelled, CommitContinue, CommitQuestion,
         CommitComplete, CommitWaitConflict, CommitWaitClosed, CommitWaitPark,
         WaitCommit
<1>i. r \in Runs /\ i \in Nat /\ steps[r] \in SUBSET Steps
  BY <1>r, LoopAssumption DEF TypeInv, TypeOK, WorkerOK, Steps
<1>j. SameJobs
  BY <1>r, WorkerSame
<1>1. CASE CommitStale(v)
  BY <1>1, <1>j, JobsSame, StepsSame, GrowsFrom DEF CommitStale
<1>2. CASE CommitCancelled(v)
  BY <1>0, <1>2, <1>j, SettleGrows, StepsSame, GrowsFrom DEF CommitCancelled
<1>3. CASE CommitContinue(v)
  <2>1. steps' = CommittedSteps(v) /\ queue' = Enqueued(queue, r, i + 1)
    BY <1>3 DEF CommitContinue
  <2>2. 0 .. (i + 1) - 1 \subseteq steps'[r]
    BY <1>i, <1>r, <2>1, StepsCommitted
  <2> QED
    BY <1>r, <2>1, <2>2, CommitGrows
<1>4. CASE CommitQuestion(v)
  BY <1>4, <1>j, <1>r, JobsSame, StepsCommitted, GrowsFrom DEF CommitQuestion
<1>5. CASE CommitComplete(v)
  BY <1>0, <1>5, <1>j, <1>r, SettleGrows, StepsCommitted, GrowsFrom DEF CommitComplete
<1>6. ASSUME NEW M, CommitWaitConflict(v, M)
      PROVE  Grows
  <2>1. JobsGrow(Enqueued(queue, r, i))
    BY <1>i, <1>r, EnqueuedGrows DEF NoHoles
  <2>2. JobsGrow(queue') /\ UNCHANGED steps
    BY <1>0, <1>6, <2>1 DEF CommitWaitConflict
  <2> QED
    BY <1>j, <2>2, StepsSame, GrowsFrom
<1>7. ASSUME NEW M, CommitWaitClosed(v, M)
      PROVE  Grows
  <2>1. /\ steps' = CommittedSteps(v)
        /\ queue' = Enqueued(queue, r, NextIndex(steps[r] \cup {i}))
    BY <1>7 DEF CommitWaitClosed
  <2>2. steps'[r] = steps[r] \cup {i} /\ NoHole(steps'[r])
    BY <1>i, <1>r, <2>1, StepsCommitted DEF StepsGrow
  <2>3. steps[r] \cup {i} \in SUBSET Steps
    BY <1>i DEF TypeInv, TypeOK
  <2>4. steps'[r] = 0 .. NextIndex(steps[r] \cup {i}) - 1
    BY <2>2, <2>3, NextIndexIs
  <2> QED
    BY <1>r, <2>1, <2>4, CommitGrows
<1>8. ASSUME NEW M, CommitWaitPark(v, M)
      PROVE  Grows
  BY <1>8, <1>j, <1>r, JobsSame, StepsCommitted, GrowsFrom DEF CommitWaitPark
<1> QED
  BY <1>1, <1>2, <1>3, <1>4, <1>5, <1>6, <1>7, <1>8 DEF Commit

LEMMA SweepGrows ==
  ASSUME TypeInv, NoHoles,
         (\E w \in WaitIds : DeadlinePasses(w)) \/ Sweep \/ SweepFault
  PROVE  Grows
<1> USE DEF runVars
<1>0. queue \in QueueType /\ JobsGrow(queue)
  BY DEF TypeInv, TypeOK, QueueType, JobsGrow
<1>1. UNCHANGED <<steps, worker>>
  BY DEF DeadlinePasses, Sweep, SweepFault, SweepClaim, SweepResolve, SweepDone,
         SweepError, SweepCrash
<1>2. JobsGrow(queue')
  <2>1. CASE UNCHANGED queue
    BY <2>1, JobsSame
  <2>2. ASSUME NEW w \in WaitIds, SweepResolve(w)
        PROVE  JobsGrow(queue')
    BY <1>0, <2>2, ResumedGrows DEF SweepResolve
  <2> QED
    BY <2>1, <2>2
       DEF DeadlinePasses, Sweep, SweepFault, SweepClaim, SweepDone, SweepError,
           SweepCrash
<1>3. SameJobs
  BY <1>1 DEF SameJobs
<1> QED
  BY <1>1, <1>2, <1>3, StepsSame, GrowsFrom

LoopInv == TypeInv /\ NoHoles

LEMMA LoopInvHolds == Spec => []LoopInv
<1>1. Init => LoopInv
  <2> SUFFICES ASSUME Init
               PROVE  LoopInv
    OBVIOUS
  <2>1. /\ \A r \in Runs : steps[r] = {} /\ \A i \in Steps : queue[r][i] = 0
        /\ \A v \in Workers : worker[v].phase = "idle"
    BY DEF Init, IdleWorker
  <2> QED
    BY <2>1, TypeInvInit DEF LoopInv, NoHoles, NoHole
<1>2. LoopInv /\ [Next]_vars => LoopInv'
  <2> SUFFICES ASSUME LoopInv, [Next]_vars
               PROVE  LoopInv'
    OBVIOUS
  <2>1. TypeInv /\ NoHoles
    BY DEF LoopInv
  <2>2. TypeInv'
    BY <2>1, TypeInvStep DEF NoHoles
  <2>3. CASE UNCHANGED vars
    BY <2>1, <2>2, <2>3 DEF LoopInv, NoHoles, vars, runVars
  <2>4. CASE Next
    <3>1. Grows
      BY <2>1, <2>4, ApiGrows, DeliverGrows, ExecuteGrows, CommitsGrow, SweepGrows
         DEF Next, Work
    <3> QED
      BY <2>1, <2>2, <3>1, NoHolesKept DEF LoopInv
  <2> QED
    BY <2>3, <2>4
<1> QED
  BY <1>1, <1>2, PTL DEF Spec

\* Every state of the loop is well typed: in particular no acknowledgement is
\* ever counted twice.
THEOREM TypeCorrect == Spec => []TypeOK
BY LoopInvHolds, PTL DEF LoopInv, TypeInv

\* The committed steps of every run are 0, ..., n-1, for any number of
\* redeliveries, resumptions, answers and sweeps.
THEOREM StepsContiguousHolds == Spec => []StepsContiguous
<1>1. LoopInv => StepsContiguous
  BY NoHoleInterval DEF LoopInv, TypeInv, TypeOK, NoHoles, StepsContiguous
<1> QED
  BY <1>1, LoopInvHolds, PTL

-----------------------------------------------------------------------------
(***************************************************************************)
(* Cancellation.  Every transaction re-reads what it relies on under the   *)
(* row lock, so these need no more than the types.                         *)
(***************************************************************************)

CancelKept(x) ==
  /\ runState[x] = "cancelled" => runState'[x] = "cancelled"
  /\ cancelReq[x] =>
       /\ steps'[x] = steps[x]
       /\ runState'[x] \in {"awaiting", "completed"} => runState'[x] = runState[x]

\* Settling one run leaves the others alone, or resumes them if not terminal.
LEMMA SettleOthers ==
  ASSUME TypeOK, NEW r \in Runs, NEW s, NEW hist, NEW q, Settle(r, s, hist, q),
         NEW x \in Runs
  PROVE  \/ x = r /\ runState'[x] = s
         \/ x # r /\ runState'[x] = runState[x]
         \/ ~Terminal(runState[x]) /\ runState'[x] = "running"
<1> DEFINE live == {w \in ClosedBy(r) : MayResume(w)}
<1>1. runState' = ResumedState(live, [runState EXCEPT ![r] = s])
  BY DEF Settle
<1>2. CASE \E w \in live : w[1] = x
  <2>1. ~Terminal(runState[x])
    BY <1>2 DEF MayResume
  <2> QED
    BY <1>1, <1>2, <2>1 DEF ResumedState
<1>3. CASE ~\E w \in live : w[1] = x
  <2>1. runState'[x] = [runState EXCEPT ![r] = s][x]
    BY <1>1, <1>3 DEF ResumedState
  <2> QED
    BY <2>1 DEF TypeOK
<1> QED
  BY <1>2, <1>3

\* A run that is settled as cancelled, or was not terminal, keeps its cancel.
LEMMA SettleCancel ==
  ASSUME TypeOK, NEW r \in Runs, NEW s, NEW hist, NEW q, Settle(r, s, hist, q),
         UNCHANGED steps, s \in {"cancelled", "failed"},
         s = "cancelled" \/ ~Terminal(runState[r]), NEW x \in Runs
  PROVE  CancelKept(x)
BY SettleOthers DEF CancelKept, Terminal

LEMMA CancelApi ==
  ASSUME TypeInv, API, NEW x \in Runs
  PROVE  CancelKept(x)
<1>0. runState \in [Runs -> RunStates] /\ Roots \subseteq Runs
  BY DEF TypeInv, TypeOK, Runs
<1>1. ASSUME NEW r \in Roots, StartRun(r)
      PROVE  CancelKept(x)
  BY <1>0, <1>1 DEF StartRun, CancelKept
<1>2. ASSUME NEW r \in Runs, AnswerRun(r)
      PROVE  CancelKept(x)
  BY <1>0, <1>2 DEF AnswerRun, CancelKept
<1>3. ASSUME NEW r \in Runs, CancelRun(r)
      PROVE  CancelKept(x)
  <2>1. UNCHANGED steps /\ ~Terminal(runState[r])
    BY <1>3 DEF CancelRun
  <2>2. UNCHANGED runState \/ runState' = [runState EXCEPT ![r] = "cancelled"]
    BY <1>3 DEF CancelRun
  <2> QED
    BY <1>0, <2>1, <2>2 DEF CancelKept
<1> QED
  BY <1>1, <1>2, <1>3 DEF API

LEMMA CancelDeliver ==
  ASSUME TypeInv, NEW v \in Workers, Deliver(v), NEW x \in Runs
  PROVE  CancelKept(x)
<1>0. TypeOK /\ runState \in [Runs -> RunStates]
  BY DEF TypeInv, TypeOK
<1>1. ASSUME NEW r \in Runs, NEW i \in Steps, ClaimStale(v, r, i)
      PROVE  CancelKept(x)
  BY <1>1 DEF ClaimStale, CancelKept, runVars
<1>2. ASSUME NEW r \in Runs, NEW i \in Steps, ClaimCancelled(v, r, i)
      PROVE  CancelKept(x)
  BY <1>0, <1>2, SettleCancel DEF ClaimCancelled
<1>3. ASSUME NEW r \in Runs, NEW i \in Steps, Claim(v, r, i)
      PROVE  CancelKept(x)
  BY <1>0, <1>3 DEF Claim, Claimable, CancelKept
<1> QED
  BY <1>1, <1>2, <1>3 DEF Deliver

LEMMA CancelExecute ==
  ASSUME TypeInv, NEW v \in Workers, Execute(v) \/ WorkerFault(v), NEW x \in Runs
  PROVE  CancelKept(x)
<1>0. TypeOK /\ runState \in [Runs -> RunStates] /\ Children \subseteq Runs
  BY DEF TypeInv, TypeOK, Runs
<1>1. CASE UNCHANGED <<runState, steps>>
  BY <1>1 DEF CancelKept
<1>2. ASSUME NEW c \in Children, SpawnCreate(v, c)
      PROVE  CancelKept(x)
  BY <1>0, <1>2 DEF SpawnCreate, CancelKept
<1>3. CASE FailRun(v)
  <2>1. worker[v].run \in Runs /\ UNCHANGED steps
    BY <1>3 DEF FailRun, TypeInv, WorkerOK
  <2>2. CASE Terminal(runState[worker[v].run])
    BY <1>1, <1>3, <2>1, <2>2 DEF FailRun
  <2>3. CASE ~Terminal(runState[worker[v].run])
    BY <1>0, <1>3, <2>1, <2>3, SettleCancel DEF FailRun
  <2> QED
    BY <2>2, <2>3
<1>4. CASE StreamCancelled(v)
  <2>1. worker[v].run \in Runs /\ UNCHANGED steps
    BY <1>4 DEF StreamCancelled, TypeInv, WorkerOK
  <2> QED
    BY <1>0, <1>4, <2>1, SettleCancel DEF StreamCancelled
<1> QED
  BY <1>1, <1>2, <1>3, <1>4
     DEF Execute, WorkerFault, StartStream, Compact, SpawnLookup, SpawnDenied,
         SpawnAdopt, SpawnFails, Retry, Redeliver, runVars

LEMMA CancelCommit ==
  ASSUME TypeInv, NEW v \in Workers, Commit(v), NEW x \in Runs
  PROVE  CancelKept(x)
<1> DEFINE r == worker[v].run
<1>0. TypeOK /\ runState \in [Runs -> RunStates] /\ steps \in [Runs -> SUBSET Steps]
  BY DEF TypeInv, TypeOK
<1>r. r \in Runs
  <2>1. worker[v].phase # "idle"
    BY DEF Commit, CommitStale, CommitCancelled, CommitContinue, CommitQuestion,
           CommitComplete, CommitWaitConflict, CommitWaitClosed, CommitWaitPark,
           WaitCommit
  <2> QED
    BY <2>1 DEF TypeInv, WorkerOK
<1>s. steps' = CommittedSteps(v) => \A y \in Runs : y # r => steps'[y] = steps[y]
  BY <1>0 DEF CommittedSteps
<1>1. CASE UNCHANGED <<runState, steps>>
  BY <1>1 DEF CancelKept
<1>2. CASE CommitCancelled(v)
  BY <1>0, <1>2, <1>r, SettleCancel DEF CommitCancelled
<1>3. CASE CommitContinue(v) \/ CommitQuestion(v)
  <2>1. steps' = CommittedSteps(v) /\ Committable(r, worker[v].idx)
    BY <1>3 DEF CommitContinue, CommitQuestion
  <2>2. UNCHANGED runState \/ runState' = [runState EXCEPT ![r] = "awaiting"]
    BY <1>3 DEF CommitContinue, CommitQuestion
  <2> QED
    BY <1>0, <1>r, <1>s, <2>1, <2>2 DEF Committable, CancelKept
<1>4. CASE CommitComplete(v)
  <2>1. steps' = CommittedSteps(v) /\ Committable(r, worker[v].idx)
          /\ Settle(r, "completed", CommittedHistory(v), queue)
    BY <1>4 DEF CommitComplete
  <2>2. \/ x = r /\ runState'[x] = "completed"
        \/ x # r /\ runState'[x] = runState[x]
        \/ ~Terminal(runState[x]) /\ runState'[x] = "running"
    BY <1>0, <1>r, <2>1, SettleOthers
  <2> QED
    BY <1>r, <1>s, <2>1, <2>2 DEF Committable, CancelKept, Terminal
<1>5. ASSUME NEW M, CommitWaitClosed(v, M) \/ CommitWaitPark(v, M)
      PROVE  CancelKept(x)
  <2>1. steps' = CommittedSteps(v) /\ Committable(r, worker[v].idx)
    BY <1>5 DEF CommitWaitClosed, CommitWaitPark, WaitCommit
  <2>2. UNCHANGED runState \/ runState' = [runState EXCEPT ![r] = "awaiting"]
    BY <1>5 DEF CommitWaitClosed, CommitWaitPark
  <2> QED
    BY <1>0, <1>r, <1>s, <2>1, <2>2 DEF Committable, CancelKept
<1> QED
  BY <1>1, <1>2, <1>3, <1>4, <1>5
     DEF Commit, CommitStale, CommitWaitConflict, runVars

LEMMA CancelSweep ==
  ASSUME TypeInv, NEW x \in Runs,
         (\E w \in WaitIds : DeadlinePasses(w)) \/ Sweep \/ SweepFault
  PROVE  CancelKept(x)
<1>1. CASE UNCHANGED <<runState, steps>>
  BY <1>1 DEF CancelKept
<1>2. ASSUME NEW w \in WaitIds, SweepResolve(w)
      PROVE  CancelKept(x)
  <2>1. UNCHANGED steps /\ runState' = ResumedState({u \in {w} : MayResume(u)}, runState)
    BY <1>2 DEF SweepResolve
  <2>2. \/ runState'[x] = runState[x]
        \/ ~Terminal(runState[x]) /\ runState'[x] = "running"
    <3>1. CASE w[1] = x /\ MayResume(w)
      BY <2>1, <3>1 DEF ResumedState, MayResume
    <3>2. CASE ~(w[1] = x /\ MayResume(w))
      <4>1. ~\E y \in {u \in {w} : MayResume(u)} : y[1] = x
        BY <3>2, Zenon
      <4> QED
        BY <2>1, <4>1, Zenon DEF ResumedState
    <3> QED
      BY <3>1, <3>2
  <2> QED
    BY <2>1, <2>2 DEF CancelKept, Terminal
<1> QED
  BY <1>1, <1>2
     DEF DeadlinePasses, Sweep, SweepFault, SweepClaim, SweepDone, SweepError,
         SweepCrash, runVars

LEMMA CancelStep ==
  ASSUME LoopInv, [Next]_vars, NEW x \in Runs
  PROVE  CancelKept(x)
<1>1. CASE UNCHANGED vars
  BY <1>1 DEF vars, runVars, CancelKept
<1>2. TypeInv
  BY DEF LoopInv
<1> QED
  BY <1>1, <1>2, CancelApi, CancelDeliver, CancelExecute, CancelCommit, CancelSweep
     DEF Next, Work

\* A cancelled run stays cancelled: no child, sweep, answer or delivery that
\* comes late brings it back.
THEOREM CancelledIsFinalHolds == Spec => CancelledIsFinal
<1>1. LoopInv /\ [Next]_vars =>
        [\A r \in Runs : runState[r] = "cancelled" => runState'[r] = "cancelled"]_vars
  BY CancelStep DEF CancelKept
<1> QED
  BY <1>1, LoopInvHolds, PTL DEF Spec, CancelledIsFinal

\* Once cancellation is requested, no step of the run commits and it neither
\* parks nor completes.
THEOREM CancelStopsRunHolds == Spec => CancelStopsRun
<1>1. LoopInv /\ [Next]_vars =>
        [\A r \in Runs : cancelReq[r] =>
           /\ steps'[r] = steps[r]
           /\ runState'[r] \in {"awaiting", "completed"} => runState'[r] = runState[r]]_vars
  BY CancelStep DEF CancelKept
<1> QED
  BY <1>1, LoopInvHolds, PTL DEF Spec, CancelStopsRun

\* A cancel is effective from its request on, and for good.
THEOREM CancelHoldsAlways == Spec => CancelHolds
BY CancelStopsRunHolds, CancelledIsFinalHolds DEF CancelHolds

-----------------------------------------------------------------------------
(***************************************************************************)
(* Spawning.  Only SpawnCreate makes children, and it looks at the parent's *)
(* children in the transaction that adds one.                              *)
(***************************************************************************)

LEMMA OnlySpawnCreates ==
  ASSUME [Next]_vars, ~\E v \in Workers, c \in Children : SpawnCreate(v, c)
  PROVE  UNCHANGED <<parent, spawnAt>>
<1> USE DEF runVars
<1>1. CASE UNCHANGED vars
  BY <1>1 DEF vars
<1>2. CASE API
  BY <1>2 DEF API, StartRun, AnswerRun, CancelRun
<1>3. ASSUME NEW v \in Workers, Deliver(v)
      PROVE  UNCHANGED <<parent, spawnAt>>
  BY <1>3 DEF Deliver, ClaimStale, ClaimCancelled, Claim
<1>4. ASSUME NEW v \in Workers, Execute(v) \/ WorkerFault(v)
      PROVE  UNCHANGED <<parent, spawnAt>>
  BY <1>4 DEF Execute, WorkerFault, StartStream, Compact, SpawnLookup, SpawnDenied,
              SpawnAdopt, SpawnFails, FailRun, StreamCancelled, Retry, Redeliver
<1>5. ASSUME NEW v \in Workers, Commit(v)
      PROVE  UNCHANGED <<parent, spawnAt>>
  BY <1>5 DEF Commit, CommitStale, CommitCancelled, CommitContinue, CommitQuestion,
              CommitComplete, CommitWaitConflict, CommitWaitClosed, CommitWaitPark
<1>6. CASE (\E w \in WaitIds : DeadlinePasses(w)) \/ Sweep \/ SweepFault
  BY <1>6 DEF DeadlinePasses, Sweep, SweepFault, SweepClaim, SweepResolve, SweepDone,
              SweepError, SweepCrash
<1> QED
  BY <1>1, <1>2, <1>3, <1>4, <1>5, <1>6 DEF Next, Work

LEMMA Created ==
  ASSUME TypeInv, NEW v \in Workers, NEW c \in Children, SpawnCreate(v, c)
  PROVE  /\ worker[v].run \in Runs /\ ~AtChildCap(worker[v].run)
         /\ SpawnedBy(worker[v].run, worker[v].idx, worker[v].call) = {}
         /\ parent'[c] = worker[v].run
         /\ spawnAt'[c] = <<worker[v].idx, worker[v].call>>
         /\ \A d \in Children : d # c => parent'[d] = parent[d] /\ spawnAt'[d] = spawnAt[d]
<1>1. Children \subseteq Runs /\ c \in Runs
  BY DEF Runs
<1>2. worker[v].run \in Runs
  BY DEF SpawnCreate, TypeInv, WorkerOK
<1>3. parent' = [parent EXCEPT ![c] = worker[v].run]
        /\ spawnAt' = [spawnAt EXCEPT ![c] = <<worker[v].idx, worker[v].call>>]
  BY DEF SpawnCreate
<1>4. parent \in [Runs -> Runs \cup {NoRun}]
        /\ spawnAt \in [Runs -> Steps \X (Calls \cup {NoCall})]
  BY DEF TypeInv, TypeOK
<1>5. ~AtChildCap(worker[v].run)
        /\ SpawnedBy(worker[v].run, worker[v].idx, worker[v].call) = {}
  BY DEF SpawnCreate
<1> QED
  BY <1>1, <1>2, <1>3, <1>4, <1>5

\* A spawn call creates one child, however often its step is delivered and
\* however many workers execute it at once.
THEOREM SpawnOnceHolds == Spec => []SpawnOnce
<1>1. Init => SpawnOnce
  BY DEF Init, SpawnOnce, Runs
<1>2. LoopInv /\ SpawnOnce /\ [Next]_vars => SpawnOnce'
  <2> SUFFICES ASSUME LoopInv, SpawnOnce, [Next]_vars
               PROVE  SpawnOnce'
    OBVIOUS
  <2>1. ASSUME NEW v \in Workers, NEW c \in Children, SpawnCreate(v, c)
        PROVE  SpawnOnce'
    <3>1. /\ SpawnedBy(worker[v].run, worker[v].idx, worker[v].call) = {}
          /\ parent'[c] = worker[v].run
          /\ spawnAt'[c] = <<worker[v].idx, worker[v].call>>
          /\ \A d \in Children :
               d # c => parent'[d] = parent[d] /\ spawnAt'[d] = spawnAt[d]
      BY <2>1, Created DEF LoopInv
    <3>2. \A d \in Children :
            d # c => ~(parent'[d] = parent'[c] /\ spawnAt'[d] = spawnAt'[c])
      BY <3>1 DEF SpawnedBy, ChildrenOf
    <3> QED
      BY <3>1, <3>2 DEF SpawnOnce
  <2>2. CASE UNCHANGED <<parent, spawnAt>>
    BY <2>2 DEF SpawnOnce
  <2> QED
    BY <2>1, <2>2, OnlySpawnCreates
<1> QED
  BY <1>1, <1>2, LoopInvHolds, PTL DEF Spec

\* A run's children are finitely many and within the cap.
CapInv == \A r \in Runs : /\ IsFiniteSet(ChildrenOf(r))
                          /\ Cardinality(ChildrenOf(r)) <= MaxChildren

\* Concurrent deliveries of a step never exceed the parent's child cap.
THEOREM ChildCapHolds == Spec => []ChildCap
<1>1. Init => CapInv
  <2> SUFFICES ASSUME Init, NEW r \in Runs
               PROVE  IsFiniteSet(ChildrenOf(r)) /\ Cardinality(ChildrenOf(r)) <= MaxChildren
    BY DEF CapInv
  <2>1. ChildrenOf(r) = {}
    BY LoopAssumption DEF Init, ChildrenOf, Runs
  <2> QED
    BY <2>1, FS_EmptySet, LoopAssumption
<1>2. LoopInv /\ CapInv /\ [Next]_vars => CapInv'
  <2> SUFFICES ASSUME LoopInv, CapInv, [Next]_vars, NEW r \in Runs
               PROVE  /\ IsFiniteSet(ChildrenOf(r)')
                      /\ Cardinality(ChildrenOf(r)') <= MaxChildren
    BY DEF CapInv
  <2>0. /\ IsFiniteSet(ChildrenOf(r)) /\ Cardinality(ChildrenOf(r)) <= MaxChildren
        /\ Cardinality(ChildrenOf(r)) \in Nat
    BY FS_CardinalityType DEF CapInv
  <2>1. ASSUME NEW v \in Workers, NEW c \in Children, SpawnCreate(v, c)
        PROVE  /\ IsFiniteSet(ChildrenOf(r)')
               /\ Cardinality(ChildrenOf(r)') <= MaxChildren
    <3>1. /\ ~AtChildCap(worker[v].run) /\ parent'[c] = worker[v].run
          /\ \A d \in Children : d # c => parent'[d] = parent[d]
      BY <2>1, Created DEF LoopInv
    <3>2. CASE r = worker[v].run
      <4>1. ChildrenOf(r)' \in SUBSET (ChildrenOf(r) \cup {c})
        BY <3>1 DEF ChildrenOf
      <4>2. /\ IsFiniteSet(ChildrenOf(r) \cup {c})
            /\ Cardinality(ChildrenOf(r) \cup {c}) <= Cardinality(ChildrenOf(r)) + 1
            /\ Cardinality(ChildrenOf(r) \cup {c}) \in Nat
        <5>1. /\ IsFiniteSet(ChildrenOf(r) \cup {c})
              /\ Cardinality(ChildrenOf(r) \cup {c}) =
                   IF c \in ChildrenOf(r) THEN Cardinality(ChildrenOf(r))
                                          ELSE Cardinality(ChildrenOf(r)) + 1
          BY <2>0, FS_AddElement
        <5> QED
          BY <2>0, <5>1
      <4>3. Cardinality(ChildrenOf(r)) < MaxChildren
        BY <2>0, <3>1, <3>2, LoopAssumption DEF AtChildCap
      <4>4. /\ IsFiniteSet(ChildrenOf(r)')
            /\ Cardinality(ChildrenOf(r)') <= Cardinality(ChildrenOf(r) \cup {c})
            /\ Cardinality(ChildrenOf(r)') \in Nat
        <5>1. /\ IsFiniteSet(ChildrenOf(r)')
              /\ Cardinality(ChildrenOf(r)') <= Cardinality(ChildrenOf(r) \cup {c})
          BY <4>1, <4>2, FS_Subset
        <5> QED
          BY <5>1, FS_CardinalityType
      <4> QED
        BY <2>0, <4>2, <4>3, <4>4, LoopAssumption
    <3>3. CASE r # worker[v].run
      <4>1. ChildrenOf(r)' \in SUBSET ChildrenOf(r)
        BY <3>1, <3>3 DEF ChildrenOf
      <4>2. /\ IsFiniteSet(ChildrenOf(r)')
            /\ Cardinality(ChildrenOf(r)') <= Cardinality(ChildrenOf(r))
            /\ Cardinality(ChildrenOf(r)') \in Nat
        BY <2>0, <4>1, FS_Subset, FS_CardinalityType
      <4> QED
        BY <2>0, <4>2, LoopAssumption
    <3> QED
      BY <3>2, <3>3
  <2>2. CASE UNCHANGED <<parent, spawnAt>>
    <3>1. ChildrenOf(r)' = ChildrenOf(r)
      BY <2>2 DEF ChildrenOf
    <3> QED
      BY <2>0, <3>1
  <2> QED
    BY <2>1, <2>2, OnlySpawnCreates
<1>3. CapInv => ChildCap
  BY DEF CapInv, ChildCap
<1> QED
  BY <1>1, <1>2, <1>3, LoopInvHolds, PTL DEF Spec
=============================================================================
