------------------------------ MODULE AgentLoop ------------------------------
(***************************************************************************)
(* The durable agent loop of ultracore: agent runs, the at-least-once step *)
(* jobs that advance them, spawned children, the waits that park a parent  *)
(* until its children finish, the deadline sweeper, and the two API calls  *)
(* that touch a run from outside (AnswerRun, CancelRun).                   *)
(*                                                                         *)
(* Sources: loop/step.go, loop/spawn.go, loop/waits.go,                    *)
(* loop/waittimeout.go, http/agent_handler.go, postgres/run.go and the     *)
(* wait store of postgres/multiplayer.go.                                  *)
(*                                                                         *)
(* One database transaction is one action.  The transactions below hold    *)
(* the row lock of the run they change (GetForUpdate) and the session row  *)
(* from their first event append to their commit, and inserting a wait     *)
(* member takes a key-share lock on the child's row, so two of them that   *)
(* touch the same run or wait are serialised by the database.  What is not *)
(* serialised, and is therefore separate actions here: a claim and the     *)
(* commit that follows it after a model call, the unlocked spawn lookup    *)
(* and the spawn transaction, the sweeper's claim of due waits and the     *)
(* transactions that resolve them, and everything two deliveries do.       *)
(***************************************************************************)
EXTENDS Integers, FiniteSets

CONSTANTS
  Roots,        \* ids of runs created by the API (StartRun)
  Children,     \* ids of runs created by spawn_agent / run_agent_cohort
  NoRun,        \* parent of a root; run of an idle worker
  Workers,      \* queue worker slots executing StepJobs
  Calls,        \* tool-call ids a model may use for a spawn within one step
  NoCall,       \* call of a worker that is not inside a spawn
  MaxSteps,     \* bound: steps per run
  MaxChildren,  \* RunPolicy.MaxChildren, the same for every run
  Batch,        \* WaitSweeper.Batch
  MaxAnswers,   \* bound: AnswerRun calls
  MaxFaults,    \* bound: worker failures, redeliveries and spawn errors
  LongHistory,  \* whether a history may exceed the compaction threshold
  SweepHazards  \* subset of {"crash", "error", "skip"}: sweeper mishaps

Runs    == Roots \cup Children
Steps   == 0 .. MaxSteps - 1
WaitIds == Runs \X Steps           \* deterministicWaitID(parent, step)
Rearm   == <<NoRun, 0>>            \* the sweep job rearm() schedules

ASSUME LoopAssumption ==
  /\ NoRun \notin Runs
  /\ NoCall \notin Calls
  /\ Roots \cap Children = {}
  /\ MaxSteps \in Nat \ {0}
  /\ MaxChildren \in Nat
  /\ Batch \in Nat \ {0}
  /\ MaxAnswers \in Nat
  /\ MaxFaults \in Nat
  /\ LongHistory \in BOOLEAN
  /\ SweepHazards \subseteq {"crash", "error", "skip"}

RunStates  == {"none", "pending", "running", "awaiting",
               "completed", "failed", "cancelled"}
WaitStates == {"none", "open", "resolved", "timed_out", "abandoned"}

(***************************************************************************)
(* What a run's history envelope holds, as far as losing or keeping an     *)
(* entry is concerned: the messages of a committed step, the result of the *)
(* wait that step installed, a user's answer, the compaction marker.       *)
(***************************************************************************)
StepMsg(i) == <<"step", i>>
WaitMsg(i) == <<"wait", i>>
UserMsg(i) == <<"user", i>>
Compacted  == <<"compacted", 0>>
Entries    == ({"step", "wait", "user"} \X Steps) \cup {Compacted}

VARIABLES
  runState,   \* agent_runs.state
  cancelReq,  \* agent_runs.cancel_requested_at is set
  parent,     \* agent_runs.parent_run_id
  spawnAt,    \* step and call of agent_runs.spawn_key
  steps,      \* agent_run_steps: the committed step indices of each run
  history,    \* agent_runs.history
  waitState,  \* run_waits.state
  members,    \* run_wait_members
  resumed,    \* run_waits.resumed_at is set
  queue,      \* number of StepJobs waiting for delivery, per run and index
  worker,     \* what each worker slot is executing
  due,        \* waits whose deadline has passed
  sweepJobs,  \* WaitTimeoutJobs in the queue: one per parked wait, or Rearm
  sweeper,    \* the sweep being executed
  denied,     \* spawn keys answered with a PermissionDenied event
  answers,    \* number of AnswerRun calls so far
  faults      \* number of failures so far

runVars   == <<runState, cancelReq, parent, spawnAt, steps, history>>
waitVars  == <<waitState, members, resumed>>
sweepVars == <<due, sweepJobs, sweeper>>
boundVars == <<answers, faults>>
vars == <<runVars, waitVars, queue, worker, sweepVars, denied, boundVars>>

IdleWorker  == [phase |-> "idle", run |-> NoRun, idx |-> 0, env |-> {},
                stale |-> FALSE, call |-> NoCall]
IdleSweeper == [phase |-> "idle", claimed |-> {}, full |-> FALSE, job |-> Rearm]

TypeOK ==
  /\ runState \in [Runs -> RunStates]
  /\ cancelReq \in [Runs -> BOOLEAN]
  /\ parent \in [Runs -> Runs \cup {NoRun}]
  /\ spawnAt \in [Runs -> Steps \X (Calls \cup {NoCall})]
  /\ steps \in [Runs -> SUBSET Steps]
  /\ history \in [Runs -> SUBSET Entries]
  /\ waitState \in [WaitIds -> WaitStates]
  /\ members \in [WaitIds -> SUBSET Runs]
  /\ resumed \in SUBSET WaitIds
  /\ queue \in [Runs -> [Steps -> Nat]]
  /\ worker \in [Workers -> [phase : {"idle", "prepare", "stream", "spawn"},
                             run : Runs \cup {NoRun}, idx : Steps,
                             env : SUBSET Entries, stale : BOOLEAN,
                             call : Calls \cup {NoCall}]]
  /\ due \in SUBSET WaitIds
  /\ sweepJobs \in SUBSET (WaitIds \cup {Rearm})
  /\ sweeper \in [phase : {"idle", "sweep"}, claimed : SUBSET WaitIds,
                  full : BOOLEAN, job : WaitIds \cup {Rearm}]
  /\ denied \in SUBSET (Runs \X Steps \X Calls)
  /\ answers \in 0 .. MaxAnswers
  /\ faults \in 0 .. MaxFaults

Init ==
  /\ runState = [r \in Runs |-> "none"]
  /\ cancelReq = [r \in Runs |-> FALSE]
  /\ parent = [r \in Runs |-> NoRun]
  /\ spawnAt = [r \in Runs |-> <<0, NoCall>>]
  /\ steps = [r \in Runs |-> {}]
  /\ history = [r \in Runs |-> {}]
  /\ waitState = [w \in WaitIds |-> "none"]
  /\ members = [w \in WaitIds |-> {}]
  /\ resumed = {}
  /\ queue = [r \in Runs |-> [i \in Steps |-> 0]]
  /\ worker = [v \in Workers |-> IdleWorker]
  /\ due = {}
  /\ sweepJobs = {}
  /\ sweeper = IdleSweeper
  /\ denied = {}
  /\ answers = 0
  /\ faults = 0

-----------------------------------------------------------------------------
(***************************************************************************)
(* Helpers                                                                 *)
(***************************************************************************)

\* RunState.Terminal
Terminal(s) == s \in {"completed", "failed", "cancelled"}

\* The index after the highest committed one, recomputed by every resumption.
NextIndex(S) == CHOOSE n \in 0 .. MaxSteps :
                  /\ \A i \in S : i < n
                  /\ n = 0 \/ n - 1 \in S

Enqueued(q, r, i) == [q EXCEPT ![r][i] = @ + 1]
Dequeued(q, r, i) == [q EXCEPT ![r][i] = @ - 1]

ChildrenOf(r)   == {c \in Children : parent[c] = r}
\* Fault variant: the lookup uses another step's key.
SpawnedByOtherKey(r, i, k) == {c \in ChildrenOf(r) : spawnAt[c] = <<i + 1, k>>}
SpawnedBy(r, i, k) == {c \in ChildrenOf(r) : spawnAt[c] = <<i, k>>}
OpenWaits(r)    == {w \in WaitIds : w[1] = r /\ waitState[w] = "open"}

\* Fault variant: members are evaluated before the run's own state is written.
ClosedByTooEarly(r) ==
  {w \in WaitIds : /\ waitState[w] = "open"
                   /\ r \in members[w]
                   /\ \A m \in members[w] : Terminal(runState[m])}

(***************************************************************************)
(* tryCloseWait, called for every open wait the run r is a member of, in   *)
(* the transaction that makes r terminal: the wait closes when no other    *)
(* member is still pending.                                                *)
(***************************************************************************)
ClosedBy(r) ==
  {w \in WaitIds : /\ waitState[w] = "open"
                   /\ r \in members[w]
                   /\ \A m \in members[w] \ {r} : Terminal(runState[m])}

\* Fault variants: no terminal check; only a running parent counts.
MayResumeTerminal(w) == w \notin resumed
MayResumeRunning(w) == w \notin resumed /\ runState[w[1]] = "running"

\* resumeParent: MarkResumed gates it, and a terminal parent stays as it is.
MayResume(w) == w \notin resumed /\ ~Terminal(runState[w[1]])

ResumedState(W, st) ==
  [x \in Runs |-> IF \E w \in W : w[1] = x THEN "running" ELSE st[x]]
ResumedHistory(W, hist) ==
  [x \in Runs |-> hist[x] \cup {WaitMsg(w[2]) : w \in {u \in W : u[1] = x}}]
\* Fault variant: the parent is resumed without a job.
ResumedQueueNoJob(W, q) == q
ResumedQueue(W, q) ==
  [x \in Runs |-> IF \E w \in W : w[1] = x
                  THEN [q[x] EXCEPT ![NextIndex(steps[x])] = @ + 1]
                  ELSE q[x]]

\* abandonParentWaits: the waits r holds open are given up; what becomes of the
\* other waits is in ws.
AbandonWaits(r, ws) ==
  [w \in WaitIds |-> IF w \in OpenWaits(r) THEN "abandoned" ELSE ws[w]]

(***************************************************************************)
(* A run reaches the terminal state s: settleTerminalRun abandons the      *)
(* waits it holds and resolves the waits it is a member of.  hist and q    *)
(* are the history and queue as the same transaction has them so far.      *)
(***************************************************************************)
Settle(r, s, hist, q) ==
  LET closed == ClosedBy(r)
      live   == {w \in closed : MayResume(w)}
  IN  /\ runState' = ResumedState(live, [runState EXCEPT ![r] = s])
      /\ waitState' = AbandonWaits(r, [w \in WaitIds |->
                         IF w \in closed THEN "resolved" ELSE waitState[w]])
      /\ resumed' = resumed \cup closed \cup OpenWaits(r)
      /\ history' = ResumedHistory(live, hist)
      /\ queue' = ResumedQueue(live, q)

Release(v) == worker' = [worker EXCEPT ![v] = IdleWorker]

-----------------------------------------------------------------------------
(***************************************************************************)
(* API: StartRun, AnswerRun, CancelRun                                     *)
(***************************************************************************)

\* The run row, the RunStarted event and the first step job commit together.
StartRun(r) ==
  /\ runState[r] = "none"
  /\ runState' = [runState EXCEPT ![r] = "pending"]
  /\ queue' = Enqueued(queue, r, 0)
  /\ UNCHANGED <<cancelReq, parent, spawnAt, steps, history, waitVars, worker,
                 sweepVars, denied, boundVars>>

\* Accepted from awaiting and from completed; open waits are not looked at.
AnswerRun(r) ==
  LET next == NextIndex(steps[r])
  IN  /\ answers < MaxAnswers
      /\ runState[r] \in {"awaiting", "completed"}
      /\ next < MaxSteps
      /\ history' = [history EXCEPT ![r] = @ \cup {UserMsg(next)}]
      /\ runState' = [runState EXCEPT ![r] = "running"]
      /\ queue' = Enqueued(queue, r, next)
      /\ answers' = answers + 1
      /\ UNCHANGED <<cancelReq, parent, spawnAt, steps, waitVars, worker,
                     sweepVars, denied, faults>>

\* A run that is not awaiting only gets the flag; its worker finalises it.
CancelRun(r) ==
  /\ runState[r] # "none"
  /\ ~Terminal(runState[r])
  /\ cancelReq' = [cancelReq EXCEPT ![r] = TRUE]
  /\ IF runState[r] = "awaiting"
     THEN /\ runState' = [runState EXCEPT ![r] = "cancelled"]
          /\ waitState' = AbandonWaits(r, waitState)
          /\ resumed' = resumed \cup OpenWaits(r)
     ELSE UNCHANGED <<runState, waitState, resumed>>
  /\ UNCHANGED <<parent, spawnAt, steps, history, members, queue, worker,
                 sweepVars, denied, boundVars>>

-----------------------------------------------------------------------------
(***************************************************************************)
(* StepWorker.Work, phase 1: the claim transaction                         *)
(***************************************************************************)

Claimable(r) == runState[r] \in {"pending", "running"}

\* Redelivered or superseded: acknowledged without effect.
ClaimStale(v, r, i) ==
  /\ worker[v].phase = "idle"
  /\ queue[r][i] > 0
  /\ ~Claimable(r) \/ (~cancelReq[r] /\ i \in steps[r])
  /\ queue' = Dequeued(queue, r, i)
  /\ UNCHANGED <<runVars, waitVars, worker, sweepVars, denied, boundVars>>

\* A cancel requested while the job was queued is executed by the claim.
ClaimCancelled(v, r, i) ==
  /\ worker[v].phase = "idle"
  /\ queue[r][i] > 0
  /\ Claimable(r)
  /\ cancelReq[r]
  /\ Settle(r, "cancelled", history, Dequeued(queue, r, i))
  /\ UNCHANGED <<cancelReq, parent, spawnAt, steps, members, worker,
                 sweepVars, denied, boundVars>>

\* The worker keeps the history it read here until it commits.
Claim(v, r, i) ==
  /\ worker[v].phase = "idle"
  /\ queue[r][i] > 0
  /\ Claimable(r)
  /\ ~cancelReq[r]
  /\ i \notin steps[r]
  /\ runState' = [runState EXCEPT ![r] = "running"]
  /\ queue' = Dequeued(queue, r, i)
  /\ worker' = [worker EXCEPT ![v] =
                  [phase |-> "prepare", run |-> r, idx |-> i,
                   env |-> history[r], stale |-> FALSE, call |-> NoCall]]
  /\ UNCHANGED <<cancelReq, parent, spawnAt, steps, history, waitVars,
                 sweepVars, denied, boundVars>>

-----------------------------------------------------------------------------
(***************************************************************************)
(* Phase 2: model execution, outside any transaction                       *)
(***************************************************************************)

\* The envelope is short or already compacted: go on to the model call.
StartStream(v) ==
  /\ worker[v].phase = "prepare"
  /\ worker' = [worker EXCEPT ![v].phase = "stream"]
  /\ UNCHANGED <<runVars, waitVars, queue, sweepVars, denied, boundVars>>

\* A long envelope is marked compacted and written back, with no lock and no
\* look at what became of the run since the claim.
Compact(v) ==
  LET env == worker[v].env \cup {Compacted}
  IN  /\ worker[v].phase = "prepare"
      /\ LongHistory
      /\ Compacted \notin worker[v].env
      /\ history' = [history EXCEPT ![worker[v].run] = env]
      /\ worker' = [worker EXCEPT ![v].phase = "stream", ![v].env = env]
      /\ UNCHANGED <<runState, cancelReq, parent, spawnAt, steps, waitVars,
                     queue, sweepVars, denied, boundVars>>

\* spawnChild's unlocked fast path: a child of this key is adopted (nothing
\* changes); otherwise the spawn transaction follows.
SpawnLookup(v, k) ==
  /\ worker[v].phase = "stream"
  /\ <<worker[v].run, worker[v].idx, k>> \notin denied
  /\ SpawnedBy(worker[v].run, worker[v].idx, k) = {}
  /\ \E c \in Children : runState[c] = "none"
  /\ worker' = [worker EXCEPT ![v].phase = "spawn", ![v].call = k]
  /\ UNCHANGED <<runVars, waitVars, queue, sweepVars, denied, boundVars>>

BackToStream(v) ==
  worker' = [worker EXCEPT ![v].phase = "stream", ![v].call = NoCall]

\* Fault variant: off by one.
AtChildCapLoose(r) == Cardinality(ChildrenOf(r)) > MaxChildren
AtChildCap(r) == Cardinality(ChildrenOf(r)) >= MaxChildren

\* The cap is checked first, then the key is looked up again under the lock.
SpawnDenied(v) ==
  /\ worker[v].phase = "spawn"
  /\ AtChildCap(worker[v].run)
  /\ denied' = denied \cup {<<worker[v].run, worker[v].idx, worker[v].call>>}
  /\ BackToStream(v)
  /\ UNCHANGED <<runVars, waitVars, queue, sweepVars, boundVars>>

SpawnAdopt(v) ==
  /\ worker[v].phase = "spawn"
  /\ ~AtChildCap(worker[v].run)
  /\ SpawnedBy(worker[v].run, worker[v].idx, worker[v].call) # {}
  /\ BackToStream(v)
  /\ UNCHANGED <<runVars, waitVars, queue, sweepVars, denied, boundVars>>

\* The child row and its first step job commit together.
SpawnCreate(v, c) ==
  /\ worker[v].phase = "spawn"
  /\ ~AtChildCap(worker[v].run)
  /\ SpawnedBy(worker[v].run, worker[v].idx, worker[v].call) = {}
  /\ runState[c] = "none"
  /\ runState' = [runState EXCEPT ![c] = "pending"]
  /\ parent' = [parent EXCEPT ![c] = worker[v].run]
  /\ spawnAt' = [spawnAt EXCEPT ![c] = <<worker[v].idx, worker[v].call>>]
  /\ queue' = Enqueued(queue, c, 0)
  /\ BackToStream(v)
  /\ UNCHANGED <<cancelReq, steps, history, waitVars, sweepVars, denied,
                 boundVars>>

\* "spawn failed" is reported to the model.  Running out of ids in the model's
\* finite pool is treated the same way.
SpawnFails(v) ==
  /\ worker[v].phase = "spawn"
  /\ \/ /\ faults < MaxFaults
        /\ faults' = faults + 1
     \/ /\ \A c \in Children : runState[c] # "none"
        /\ UNCHANGED faults
  /\ BackToStream(v)
  /\ UNCHANGED <<runVars, waitVars, queue, sweepVars, denied, answers>>

\* Fault variant: a failed delivery is acknowledged.
RetryDrops(v) ==
  /\ worker[v].phase # "idle"
  /\ faults < MaxFaults
  /\ faults' = faults + 1
  /\ Release(v)
  /\ UNCHANGED <<runVars, waitVars, queue, sweepVars, denied, answers>>

(***************************************************************************)
(* The delivery fails (crash, job timeout, infrastructure error): the job  *)
(* is delivered again, unless the queue already did so.                    *)
(***************************************************************************)
Retry(v) ==
  /\ worker[v].phase # "idle"
  /\ faults < MaxFaults
  /\ faults' = faults + 1
  /\ queue' = IF worker[v].stale
              THEN queue
              ELSE Enqueued(queue, worker[v].run, worker[v].idx)
  /\ Release(v)
  /\ UNCHANGED <<runVars, waitVars, sweepVars, denied, answers>>

\* The queue rescues the job of a worker that is merely slow: from now on two
\* deliveries of the step are under way.
Redeliver(v) ==
  /\ worker[v].phase # "idle"
  /\ ~worker[v].stale
  /\ faults < MaxFaults
  /\ faults' = faults + 1
  /\ queue' = Enqueued(queue, worker[v].run, worker[v].idx)
  /\ worker' = [worker EXCEPT ![v].stale = TRUE]
  /\ UNCHANGED <<runVars, waitVars, sweepVars, denied, answers>>

\* failRun: only an already terminal run is left alone.
FailRun(v) ==
  /\ worker[v].phase \in {"prepare", "stream"}
  /\ IF Terminal(runState[worker[v].run])
     THEN UNCHANGED <<runState, history, waitState, resumed, queue>>
     ELSE Settle(worker[v].run, "failed", history, queue)
  /\ Release(v)
  /\ UNCHANGED <<cancelReq, parent, spawnAt, steps, members, sweepVars,
                 denied, boundVars>>

\* pollCancel saw the flag and aborted the stream; handleStreamError then
\* marks the run cancelled without reading its state.
StreamCancelled(v) ==
  /\ worker[v].phase = "stream"
  /\ cancelReq[worker[v].run]
  /\ Settle(worker[v].run, "cancelled", history, queue)
  /\ Release(v)
  /\ UNCHANGED <<cancelReq, parent, spawnAt, steps, members, sweepVars,
                 denied, boundVars>>

-----------------------------------------------------------------------------
(***************************************************************************)
(* Phase 3: commitOutcome, one transaction                                 *)
(***************************************************************************)

\* Fault variant: the duplicate step goes unnoticed.
CommittableTwice(r, i) == runState[r] = "running" /\ ~cancelReq[r]

Committable(r, i) == /\ runState[r] = "running"
                     /\ ~cancelReq[r]
                     /\ i \notin steps[r]

\* The envelope replaces the stored history; it was read at the claim.
CommittedHistory(v) ==
  [history EXCEPT ![worker[v].run] =
     worker[v].env \cup {StepMsg(worker[v].idx)}]
\* Fault variant: one-based audit rows.
CommittedStepsOneBased(v) ==
  [steps EXCEPT ![worker[v].run] = @ \cup {worker[v].idx + 1}]
CommittedSteps(v) ==
  [steps EXCEPT ![worker[v].run] = @ \cup {worker[v].idx}]

CommitStale(v) ==
  LET r == worker[v].run
  IN  /\ worker[v].phase = "stream"
      /\ \/ runState[r] # "running"
         \/ ~cancelReq[r] /\ worker[v].idx \in steps[r]
      /\ Release(v)
      /\ UNCHANGED <<runVars, waitVars, queue, sweepVars, denied, boundVars>>

CommitCancelled(v) ==
  LET r == worker[v].run
  IN  /\ worker[v].phase = "stream"
      /\ runState[r] = "running"
      /\ cancelReq[r]
      /\ Settle(r, "cancelled", history, queue)
      /\ Release(v)
      /\ UNCHANGED <<cancelReq, parent, spawnAt, steps, members, sweepVars,
                     denied, boundVars>>

\* Tool calls were made: the next step is enqueued in the same commit.
CommitContinue(v) ==
  LET r == worker[v].run
      i == worker[v].idx
  IN  /\ worker[v].phase = "stream"
      /\ Committable(r, i)
      /\ i + 1 < MaxSteps
      /\ steps' = CommittedSteps(v)
      /\ history' = CommittedHistory(v)
      /\ queue' = Enqueued(queue, r, i + 1)
      /\ Release(v)
      /\ UNCHANGED <<runState, cancelReq, parent, spawnAt, waitVars,
                     sweepVars, denied, boundVars>>

\* ask_user: parked with no job; AnswerRun resumes.
CommitQuestion(v) ==
  LET r == worker[v].run
      i == worker[v].idx
  IN  /\ worker[v].phase = "stream"
      /\ Committable(r, i)
      /\ i + 1 < MaxSteps
      /\ steps' = CommittedSteps(v)
      /\ history' = CommittedHistory(v)
      /\ runState' = [runState EXCEPT ![r] = "awaiting"]
      /\ Release(v)
      /\ UNCHANGED <<cancelReq, parent, spawnAt, waitVars, queue, sweepVars,
                     denied, boundVars>>

CommitComplete(v) ==
  LET r == worker[v].run
      i == worker[v].idx
  IN  /\ worker[v].phase = "stream"
      /\ Committable(r, i)
      /\ steps' = CommittedSteps(v)
      /\ Settle(r, "completed", CommittedHistory(v), queue)
      /\ Release(v)
      /\ UNCHANGED <<cancelReq, parent, spawnAt, members, sweepVars, denied,
                     boundVars>>

-----------------------------------------------------------------------------
(***************************************************************************)
(* commitOutcome with a wait: createWait.  M is the set of children named  *)
(* by wait_for_agents or launched by run_agent_cohort.                     *)
(***************************************************************************)

WaitCommit(v, M) ==
  /\ worker[v].phase = "stream"
  /\ Committable(worker[v].run, worker[v].idx)
  /\ M # {}

\* A second wait while one is open violates the partial unique index: the
\* insert is dropped, Create reports an error, the commit rolls back and the
\* job is delivered again.
CommitWaitConflict(v, M) ==
  /\ WaitCommit(v, M)
  /\ OpenWaits(worker[v].run) # {}
  /\ queue' = IF worker[v].stale
              THEN queue
              ELSE Enqueued(queue, worker[v].run, worker[v].idx)
  /\ Release(v)
  /\ UNCHANGED <<runVars, waitVars, sweepVars, denied, boundVars>>

\* Every member is already terminal: the wait closes at once and the parent
\* goes on without parking.
CommitWaitClosed(v, M) ==
  LET r == worker[v].run
      w == <<r, worker[v].idx>>
  IN  /\ WaitCommit(v, M)
      /\ OpenWaits(r) = {}
      /\ worker[v].idx + 1 < MaxSteps
      /\ \A m \in M : Terminal(runState[m])
      /\ steps' = CommittedSteps(v)
      /\ waitState' = [waitState EXCEPT ![w] = "resolved"]
      /\ members' = [members EXCEPT ![w] = M]
      /\ resumed' = resumed \cup {w}
      /\ history' = [CommittedHistory(v) EXCEPT ![r] = @ \cup {WaitMsg(w[2])}]
      /\ queue' = Enqueued(queue, r, NextIndex(steps[r] \cup {w[2]}))
      /\ Release(v)
      /\ UNCHANGED <<runState, cancelReq, parent, spawnAt, sweepVars, denied,
                     boundVars>>

\* The timeout job is enqueued in the transaction that creates the wait.
\* Fault variant: it is not.
Unarmed(w) == sweepJobs
Armed(w) == sweepJobs \cup {w}

\* Some member is pending: the parent parks, with its deadline armed.
CommitWaitPark(v, M) ==
  LET r == worker[v].run
      w == <<r, worker[v].idx>>
  IN  /\ WaitCommit(v, M)
      /\ OpenWaits(r) = {}
      /\ worker[v].idx + 1 < MaxSteps
      /\ \E m \in M : ~Terminal(runState[m])
      /\ steps' = CommittedSteps(v)
      /\ history' = CommittedHistory(v)
      /\ waitState' = [waitState EXCEPT ![w] = "open"]
      /\ members' = [members EXCEPT ![w] = M]
      /\ sweepJobs' = Armed(w)
      /\ runState' = [runState EXCEPT ![r] = "awaiting"]
      /\ Release(v)
      /\ UNCHANGED <<cancelReq, parent, spawnAt, resumed, queue, due, sweeper,
                     denied, boundVars>>

-----------------------------------------------------------------------------
(***************************************************************************)
(* WaitSweeper                                                             *)
(***************************************************************************)

DeadlinePasses(w) ==
  /\ w \in sweepJobs
  /\ w \notin due
  /\ due' = due \cup {w}
  /\ UNCHANGED <<runVars, waitVars, queue, worker, sweepJobs, sweeper, denied,
                 boundVars>>

\* A transaction that makes a member terminal locks the wait row, also when it
\* then leaves the wait open or rolls back.
RowLockable(w) == \E v \in Workers : /\ worker[v].phase \in {"prepare", "stream"}
                                     /\ worker[v].run \in members[w]

\* ClaimDue: up to Batch due waits leave the open state, in one statement that
\* skips rows other transactions have locked.
SweepClaim(job, skipped) ==
  LET claimable == {w \in due : waitState[w] = "open"} \ skipped
  IN  /\ sweeper.phase = "idle"
      /\ job \in sweepJobs
      /\ job = Rearm \/ job \in due
      /\ \A w \in skipped : "skip" \in SweepHazards /\ RowLockable(w)
      /\ \E C \in SUBSET claimable :
           /\ \/ Cardinality(C) = Batch
              \/ Cardinality(C) < Batch /\ C = claimable
           /\ waitState' = [w \in WaitIds |-> IF w \in C THEN "timed_out"
                                              ELSE waitState[w]]
           /\ sweeper' = [phase |-> "sweep", claimed |-> C,
                          full |-> Cardinality(C) = Batch, job |-> job]
      /\ sweepJobs' = sweepJobs \ {job}
      /\ UNCHANGED <<runVars, members, resumed, queue, worker, due, denied,
                     boundVars>>

\* tryCloseWait for a claimed wait: its result is recorded and the parent is
\* resumed, whether or not members are still pending.
SweepResolve(w) ==
  LET live == {u \in {w} : MayResume(u)}
  IN  /\ sweeper.phase = "sweep"
      /\ w \in sweeper.claimed
      /\ resumed' = resumed \cup {w}
      /\ runState' = ResumedState(live, runState)
      /\ history' = ResumedHistory(live, history)
      /\ queue' = ResumedQueue(live, queue)
      /\ sweeper' = [sweeper EXCEPT !.claimed = @ \ {w}]
      /\ UNCHANGED <<cancelReq, parent, spawnAt, steps, waitState, members,
                     worker, due, sweepJobs, denied, boundVars>>

\* Fault variant: a full batch is not followed up.
SweepDoneNoRearm ==
  /\ sweeper.phase = "sweep"
  /\ sweeper.claimed = {}
  /\ sweeper' = IdleSweeper
  /\ UNCHANGED <<runVars, waitVars, queue, worker, due, sweepJobs, denied,
                 boundVars>>

\* A full batch schedules another sweep.
SweepDone ==
  /\ sweeper.phase = "sweep"
  /\ sweeper.claimed = {}
  /\ sweepJobs' = IF sweeper.full THEN sweepJobs \cup {Rearm} ELSE sweepJobs
  /\ sweeper' = IdleSweeper
  /\ UNCHANGED <<runVars, waitVars, queue, worker, due, denied, boundVars>>

\* A resolution failed: rearm, and drop what is left of the batch.
SweepError ==
  /\ sweeper.phase = "sweep"
  /\ sweeper.claimed # {}
  /\ "error" \in SweepHazards
  /\ sweepJobs' = sweepJobs \cup {Rearm}
  /\ sweeper' = IdleSweeper
  /\ UNCHANGED <<runVars, waitVars, queue, worker, due, denied, boundVars>>

\* The process dies between two statements of the sweep; the job is delivered
\* again.
SweepCrash ==
  /\ sweeper.phase = "sweep"
  /\ "crash" \in SweepHazards
  /\ sweepJobs' = sweepJobs \cup {sweeper.job}
  /\ sweeper' = IdleSweeper
  /\ UNCHANGED <<runVars, waitVars, queue, worker, due, denied, boundVars>>

-----------------------------------------------------------------------------

API == \/ \E r \in Roots : StartRun(r)
       \/ \E r \in Runs : AnswerRun(r)
       \/ \E r \in Runs : CancelRun(r)

Deliver(v) == \E r \in Runs, i \in Steps : \/ ClaimStale(v, r, i)
                                           \/ ClaimCancelled(v, r, i)
                                           \/ Claim(v, r, i)

Execute(v) == \/ StartStream(v)
              \/ Compact(v)
              \/ \E k \in Calls : SpawnLookup(v, k)
              \/ SpawnDenied(v)
              \/ SpawnAdopt(v)
              \/ \E c \in Children : SpawnCreate(v, c)
              \/ FailRun(v)
              \/ StreamCancelled(v)

Commit(v) == \/ CommitStale(v)
             \/ CommitCancelled(v)
             \/ CommitContinue(v)
             \/ CommitQuestion(v)
             \/ CommitComplete(v)
             \/ \E M \in SUBSET ChildrenOf(worker[v].run) :
                  \/ CommitWaitConflict(v, M)
                  \/ CommitWaitClosed(v, M)
                  \/ CommitWaitPark(v, M)

WorkerFault(v) == Retry(v) \/ Redeliver(v) \/ SpawnFails(v)

Work(v) == Deliver(v) \/ Execute(v) \/ Commit(v)

Sweep == \/ \E job \in sweepJobs, skipped \in SUBSET due : SweepClaim(job, skipped)
         \/ \E w \in WaitIds : SweepResolve(w)
         \/ SweepDone

SweepFault == SweepError \/ SweepCrash

Next == \/ API
        \/ \E v \in Workers : Work(v) \/ WorkerFault(v)
        \/ \E w \in WaitIds : DeadlinePasses(w)
        \/ Sweep
        \/ SweepFault

Spec == Init /\ [][Next]_vars

(***************************************************************************)
(* The queue keeps delivering jobs, a model call ends (at the latest by    *)
(* the job timeout), scheduled jobs become due and sweeps run.  Users and  *)
(* failures owe nothing.                                                   *)
(***************************************************************************)
Fairness == /\ \A v \in Workers : WF_vars(Work(v))
            /\ \A w \in WaitIds : WF_vars(DeadlinePasses(w))
            /\ WF_vars(Sweep)

FairSpec == Spec /\ Fairness

-----------------------------------------------------------------------------
(***************************************************************************)
(* Invariants                                                              *)
(***************************************************************************)

\* The committed steps of a run are 0, 1, ..., n-1: no index is skipped and
\* none is executed out of order, whatever is redelivered, duplicated or
\* resumed (agent_run_steps and the indices computed by resumeParent,
\* AnswerRun and commitOutcome).
StepsContiguous ==
  \A r \in Runs : \E n \in 0 .. MaxSteps : steps[r] = 0 .. n - 1

\* A run that should be advancing always has a delivery, queued or in the
\* hands of a worker that will acknowledge it, for a step not yet committed:
\* every transaction that leaves a run pending or running commits its next
\* job with it, and no acknowledgement drops the last one.
Carries(v, r, i) == /\ worker[v].phase # "idle"
                    /\ worker[v].run = r
                    /\ worker[v].idx = i
                    /\ ~worker[v].stale
NoOrphanRun ==
  \A r \in Runs : Claimable(r) =>
    \E i \in Steps \ steps[r] :
      queue[r][i] > 0 \/ \E v \in Workers : Carries(v, r, i)

\* A run parked on children has not had the resumption of that wait spent:
\* whoever closes the wait can still wake it (resumeParent, MarkResumed).
LastWait(r) == <<r, NextIndex(steps[r]) - 1>>
ParkedIsResumable ==
  \A r \in Runs :
    (runState[r] = "awaiting" /\ waitState[LastWait(r)] # "none")
      => LastWait(r) \notin resumed

\* A child that completes or fails never leaves its parent's wait open behind
\* it: an open wait has a member still pending, or one that was cancelled
\* (resolveChildWaits; CancelRun does not call it).
OpenWaitStillPending ==
  \A w \in WaitIds : waitState[w] = "open" =>
    \E m \in members[w] : ~Terminal(runState[m]) \/ runState[m] = "cancelled"

\* The same without the exception for cancellation, as settleTerminalRun and
\* resolveChildWaits document it.
OpenWaitHasPendingMember ==
  \A w \in WaitIds : waitState[w] = "open" =>
    \E m \in members[w] : ~Terminal(runState[m])

\* Every open wait has a sweep that will find it: its own timeout job, a
\* re-armed one, or a running sweep that will re-arm (createWait, Sweep).
OpenWaitIsTimed ==
  \A w \in WaitIds : waitState[w] = "open" =>
    \/ w \in sweepJobs
    \/ Rearm \in sweepJobs
    \/ sweeper.phase = "sweep" /\ (sweeper.full \/ sweeper.job = w)

\* A wait that ClaimDue timed out and that has not resumed its parent is on
\* the list of a sweep in progress (Sweep).
ClaimedWaitIsTracked ==
  \A w \in WaitIds : (waitState[w] = "timed_out" /\ w \notin resumed)
    => w \in sweeper.claimed

\* No wait falls out of the sweeper's sight, before its claim or after it: one
\* sweep finds it and resolves it (createWait, Sweep).
WaitIsSwept == OpenWaitIsTimed /\ ClaimedWaitIsTracked

\* One spawn tool call creates one child, however often its step is delivered
\* (spawnChild).
SpawnOnce ==
  \A c, d \in Children :
    (parent[c] # NoRun /\ parent[c] = parent[d] /\ spawnAt[c] = spawnAt[d])
      => c = d

\* No run has more children than its policy allows, with any number of
\* concurrent deliveries of its step (spawnChild's count under the lock).
ChildCap == \A r \in Runs : Cardinality(ChildrenOf(r)) <= MaxChildren

(***************************************************************************)
(* Action properties                                                       *)
(***************************************************************************)

\* A cancelled run never leaves that state: no late child, sweep, answer or
\* delivery resumes it (resumeParent, commitOutcome, failRun, AnswerRun).
CancelledIsFinal ==
  [][\A r \in Runs : runState[r] = "cancelled" => runState'[r] = "cancelled"]_vars

\* Once a cancel is requested no further step of the run commits, and the run
\* neither parks nor completes (claim and commitOutcome read the flag under
\* the row lock).
CancelStopsRun ==
  [][\A r \in Runs : cancelReq[r] =>
       /\ steps'[r] = steps[r]
       /\ runState'[r] \in {"awaiting", "completed"} => runState'[r] = runState[r]]_vars

\* A cancel is effective from its request on and for good, whatever deliveries,
\* children and sweeps are still under way.
CancelHolds == CancelStopsRun /\ CancelledIsFinal

\* What a user answered, and what a committed step said, stays in the history
\* although every commit overwrites it with the copy read at the claim.
ConversationKept ==
  [][\A r \in Runs, i \in Steps :
       {UserMsg(i), StepMsg(i)} \cap history[r] \subseteq history'[r]]_vars

(***************************************************************************)
(* Liveness                                                                *)
(***************************************************************************)

\* A wait resumes its parent, or is given up with it, whether its children
\* finish or not.
WaitEnds == \A w \in WaitIds : waitState[w] = "open" ~> w \in resumed

\* A requested cancel ends the run.
CancelEnds == \A r \in Runs : cancelReq[r] ~> Terminal(runState[r])

\* A run that is pending or running parks or ends.
ActiveRunSettles ==
  \A r \in Runs : Claimable(r) ~> (runState[r] = "awaiting" \/ Terminal(runState[r]))

\* No active run is lost and no cancel is forgotten.
RunsSettle == ActiveRunSettles /\ CancelEnds
=============================================================================
