------------------------------ MODULE SessionTx ------------------------------
(***************************************************************************)
(* The transactions of one session, statement by statement: session        *)
(* memory and labels (http/session_handler.go, loop/memorytools.go,        *)
(* postgres/multiplayer.go), and the commits of a parent run that starts   *)
(* to wait for its child and of that child when it ends (loop/step.go,     *)
(* loop/waits.go).  AgentLoop takes such a commit as one step; here a      *)
(* statement sees what others have committed (READ COMMITTED), waits for   *)
(* the locks they hold, and may be the victim of a deadlock.               *)
(***************************************************************************)
EXTENDS Integers, Sequences, FiniteSets

CONSTANTS
    Txs,            \* transactions
    Keys,           \* memory keys clients and agents write
    MaxMemoryKeys,  \* cap of a session's memory
    MaxAborts       \* bound on crashes and lost connections

\* Rows of memory are none of the other rows and locks below.
ASSUME SessionAssumption ==
    /\ MaxMemoryKeys \in Nat \ {0} /\ MaxAborts \in Nat
    /\ Keys \cap {"labels", "parent", "child", "wait", "memory", "session"} = {}

CostKey == "system.cost.latest"
Absent == "absent"
Values == {"small", "big"}

(* Rows.  A row that was written stays locked until the transaction ends;  *)
(* "memory" is the session's advisory lock, "session" its row, which every *)
(* appended event updates.                                                 *)
Rows == Keys \cup {CostKey, "labels", "parent", "child", "wait"}
Locks == Rows \cup {"memory", "session"}

VARIABLES
    db,         \* committed rows
    log,        \* committed events of memory and labels, by sequence number
    tx,         \* the transactions
    aborts      \* crashes so far
sessionVars == <<db, log, tx, aborts>>

Idle == [kind |-> "none", pc |-> "idle", key |-> CostKey, val |-> "small",
         locks |-> {}, writes |-> <<>>, events |-> <<>>]

Held(p, l) == \E q \in Txs \ {p} : l \in tx[q].locks
View(p, row) == IF row \in DOMAIN tx[p].writes THEN tx[p].writes[row] ELSE db[row]
Terminal(st) == st \in {"completed", "failed", "cancelled"}

\* One statement of p: where it goes on, what it locks, writes and appends.
Write(w, row, v) == [r \in DOMAIN w \cup {row} |-> IF r = row THEN v ELSE w[r]]
Go(p, pc, t) == tx' = [tx EXCEPT ![p] = [t EXCEPT !.pc = pc]] /\ UNCHANGED <<db, log, aborts>>
At(p, pc) == tx[p].pc = pc
Locked(t, l) == [t EXCEPT !.locks = @ \cup {l}]
Put(t, row, v) == [t EXCEPT !.writes = Write(@, row, v), !.locks = @ \cup {row}]
Said(t, e) == [t EXCEPT !.events = Append(@, e), !.locks = @ \cup {"session"}]
End(p) == tx' = [tx EXCEPT ![p] = [Idle EXCEPT !.pc = "end"]] /\ UNCHANGED <<db, log>>

----------------------------------------------------------------------------
(* Memory and labels.                                                      *)

Begin(p, kind, pc, key, val) ==
    /\ At(p, "idle")
    /\ Go(p, pc, [Idle EXCEPT !.kind = kind, !.key = key, !.val = val])

SetMemory(p) == \E k \in Keys, v \in Values : Begin(p, "set", "lock", k, v)
DeleteMemory(p) == \E k \in Keys : Begin(p, "delete", "lock", k, "small")
UpdateSessionLabels(p) == \E v \in Values : Begin(p, "labels", "labels", "labels", v)

LockNot(p) ==  \* mutant
    At(p, "lock") /\ Go(p, IF tx[p].kind = "delete" THEN "remove" ELSE "count", tx[p])
Lock(p) ==
    /\ At(p, "lock") /\ ~Held(p, "memory")
    /\ Go(p, IF tx[p].kind = "delete" THEN "remove" ELSE "count", Locked(tx[p], "memory"))

\* memoryStore.Set counts the keys; one more than the cap is refused.  Cost
\* accounting ignores the refusal, and its transaction goes on.
Present(p) == {k \in Keys \cup {CostKey} : View(p, k) # Absent}
Count(p) ==
    /\ At(p, "count")
    /\ IF tx[p].key \in Present(p) \/ Cardinality(Present(p)) < MaxMemoryKeys
       THEN Go(p, "write", tx[p])
       ELSE IF tx[p].kind = "set" THEN End(p) /\ UNCHANGED aborts
       ELSE Go(p, "step", tx[p])

Upsert(p) ==
    /\ At(p, "write") /\ ~Held(p, tx[p].key)
    /\ Go(p, "event", Put(tx[p], tx[p].key, tx[p].val))

RemoveKey(p) ==
    /\ At(p, "remove") /\ ~Held(p, tx[p].key)
    /\ IF View(p, tx[p].key) = Absent THEN End(p) /\ UNCHANGED aborts
       ELSE Go(p, "event", Put(tx[p], tx[p].key, Absent))

UpdateLabels(p) ==
    /\ At(p, "labels") /\ ~Held(p, "session")
    /\ Go(p, "event", Locked(Put(tx[p], "labels", tx[p].val), "session"))

\* A value over 1024 bytes is left out of its event.
Inline(v) == IF v = "big" THEN "elsewhere" ELSE v
MemoryEvent(t) ==
    [row |-> t.key, val |-> IF t.kind = "labels" THEN t.val ELSE Inline(t.writes[t.key])]

\* Events.Append: the session's row is updated for the sequence number.
AppendMemoryEvent(p) ==
    /\ At(p, "event") /\ ~Held(p, "session")
    /\ IF tx[p].kind \in {"wait", "finish"}  \* HookFired
       THEN Go(p, "step", Locked(tx[p], "session"))
       ELSE Go(p, "commit", Said(tx[p], MemoryEvent(tx[p])))

----------------------------------------------------------------------------
(* Commits of runs.  The parent's step waits for its child; the child's    *)
(* step completes it; or the child fails; or a client cancels the parent.  *)

CommitOutcome(p) ==
    \/ Begin(p, "wait", "run", CostKey, "small")
    \/ Begin(p, "finish", "run", CostKey, "small")
FailRun(p) == Begin(p, "fail", "run", CostKey, "small")
CancelRun(p) == Begin(p, "cancel", "run", CostKey, "small")

RunOf(kind) == IF kind \in {"wait", "cancel"} THEN "parent" ELSE "child"

\* Runs.GetForUpdate, and what the state read under the lock allows.
GetForUpdate(p) ==
    LET run == RunOf(tx[p].kind)
        st == View(p, run)
    IN  /\ At(p, "run") /\ ~Held(p, run)
        /\ CASE tx[p].kind \in {"wait", "finish"} /\ st = "running" ->
                    Go(p, "lock", Locked(tx[p], run))
             [] tx[p].kind = "fail" /\ ~Terminal(st) ->
                    Go(p, "settle", Put(tx[p], run, "failed"))
             [] tx[p].kind = "cancel" /\ st = "awaiting" ->
                    Go(p, "abandon", Put(tx[p], run, "cancelled"))
             [] OTHER -> End(p) /\ UNCHANGED aborts

\* StepFinished is appended, then the step is classified.
StepEvent(p) ==
    /\ At(p, "step") /\ ~Held(p, "session")
    /\ IF tx[p].kind = "wait" THEN Go(p, "create", Locked(tx[p], "session"))
       ELSE Go(p, "settle", Locked(Put(tx[p], "child", "completed"), "session"))

\* createWait, with the evaluation of its member in the same transaction.
CreateWait(p) ==
    /\ At(p, "create") /\ ~Held(p, "wait")
    /\ IF View(p, "wait") # Absent THEN Go(p, "evaluate", tx[p])
       ELSE Go(p, "evaluate", Put(tx[p], "wait", "open"))

Evaluate(p) ==
    /\ At(p, "evaluate")
    /\ IF Terminal(View(p, "child"))
       THEN Go(p, "commit", Put(tx[p], "wait", "resolved"))
       ELSE Go(p, "commit", Put(tx[p], "parent", "awaiting"))

SettleTerminalRunFirst(p) ==  \* mutant
    /\ At(p, "settle")
    /\ IF View(p, "wait") = "open" THEN Go(p, "close", tx[p]) ELSE Go(p, "commit", tx[p])
\* The terminal event, then ListOpenForChild: what others have committed.
SettleTerminalRun(p) ==
    /\ At(p, "settle") /\ ~Held(p, "session")
    /\ IF View(p, "wait") = "open"
       THEN Go(p, "close", Locked(tx[p], "session"))
       ELSE Go(p, "commit", Locked(tx[p], "session"))

TryCloseWait(p) ==
    /\ At(p, "close") /\ ~Held(p, "wait")
    /\ IF View(p, "wait") = "open"
       THEN Go(p, "resume", Put(tx[p], "wait", "resolved"))
       ELSE Go(p, "commit", Locked(tx[p], "wait"))

ResumeParent(p) ==
    /\ At(p, "resume") /\ ~Held(p, "parent")
    /\ IF Terminal(View(p, "parent")) THEN Go(p, "commit", Locked(tx[p], "parent"))
       ELSE Go(p, "commit", Put(tx[p], "parent", "running"))

AbandonWaits(p) ==
    /\ At(p, "abandon") /\ ~Held(p, "wait")
    /\ Go(p, "cancelled", IF View(p, "wait") = "open" THEN Put(tx[p], "wait", "abandoned")
                          ELSE tx[p])

CancelledEvent(p) ==
    /\ At(p, "cancelled") /\ ~Held(p, "session")
    /\ Go(p, "commit", Locked(tx[p], "session"))

----------------------------------------------------------------------------
(* Store.Tx.                                                               *)

Commit(p) ==
    /\ At(p, "commit")
    /\ db' = [r \in Rows |-> View(p, r)]
    /\ log' = log \o tx[p].events
    /\ tx' = [tx EXCEPT ![p] = [Idle EXCEPT !.pc = "end"]]
    /\ UNCHANGED aborts

\* A step's job is delivered again; a client sees the error.
Rollback(p) ==
    /\ tx' = [tx EXCEPT ![p] =
                IF tx[p].kind \in {"wait", "finish", "fail"}
                THEN [Idle EXCEPT !.kind = tx[p].kind, !.pc = "run"]
                ELSE [Idle EXCEPT !.pc = "end"]]
    /\ UNCHANGED <<db, log>>

InFlight(p) == tx[p].pc \notin {"idle", "end"}
Abort(p) == InFlight(p) /\ aborts < MaxAborts /\ aborts' = aborts + 1 /\ Rollback(p)

\* The database ends a cycle of waits by aborting one of them (external).
Wants(p) ==
    CASE At(p, "lock") -> "memory"
      [] At(p, "run") -> RunOf(tx[p].kind)
      [] At(p, "write") \/ At(p, "remove") -> tx[p].key
      [] tx[p].pc \in {"labels", "event", "step", "settle", "cancelled"} -> "session"
      [] tx[p].pc \in {"create", "close", "abandon"} -> "wait"
      [] At(p, "resume") -> "parent"
      [] OTHER -> "none"
WaitsFor(p, q) == p # q /\ Wants(p) \in tx[q].locks
Deadlocked(p) ==
    \E q \in Txs : WaitsFor(p, q) /\ (WaitsFor(q, p) \/ \E r \in Txs : WaitsFor(q, r) /\ WaitsFor(r, p))
DeadlockVictim(p) == InFlight(p) /\ Deadlocked(p) /\ Rollback(p) /\ UNCHANGED aborts

----------------------------------------------------------------------------
SessionInit ==
    /\ db = [r \in Rows |-> IF r \in {"parent", "child"} THEN "running"
                            ELSE IF r = "labels" THEN "small" ELSE Absent]
    /\ log = <<>>
    /\ tx = [p \in Txs |-> Idle]
    /\ aborts = 0

Arrives(p) ==
    \/ SetMemory(p) \/ DeleteMemory(p) \/ UpdateSessionLabels(p)
    \/ CommitOutcome(p) \/ FailRun(p) \/ CancelRun(p)

Statement(p) ==
    \/ Lock(p) \/ Count(p) \/ Upsert(p) \/ RemoveKey(p) \/ UpdateLabels(p) \/ AppendMemoryEvent(p)
    \/ GetForUpdate(p) \/ StepEvent(p) \/ CreateWait(p) \/ Evaluate(p) \/ SettleTerminalRun(p)
    \/ TryCloseWait(p) \/ ResumeParent(p) \/ AbandonWaits(p) \/ CancelledEvent(p) \/ Commit(p)
    \/ DeadlockVictim(p)

SessionNext == \E p \in Txs : Arrives(p) \/ Statement(p) \/ Abort(p)

\* The database grants a lock to whoever waits longest, so a lock that is
\* free again and again is not missed for ever.
SessionFairness == \A p \in Txs : SF_sessionVars(Statement(p))
SessionSpec == SessionInit /\ [][SessionNext]_sessionVars /\ SessionFairness

----------------------------------------------------------------------------
(* Properties.                                                             *)

(* Types of the committed rows, of the log and of the transactions.        *)
SessionTypeOK ==
    /\ \A k \in Keys \cup {CostKey} : db[k] \in Values \cup {Absent}
    /\ db["labels"] \in Values
    /\ db["parent"] \in {"running", "awaiting", "cancelled"}
    /\ db["child"] \in {"running", "completed", "failed"}
    /\ db["wait"] \in {Absent, "open", "resolved", "abandoned"}
    /\ \A n \in DOMAIN log : log[n].row \in Keys \cup {"labels"}
    /\ \A p \in Txs : tx[p].locks \subseteq Locks /\ DOMAIN tx[p].writes \subseteq Rows
    /\ aborts \in 0 .. MaxAborts

(* The cap (memoryStore.Set): however writers overlap, a session never has *)
(* more keys in memory than MaxMemoryKeys.                                 *)
MemoryCapped == Cardinality({k \in Keys \cup {CostKey} : db[k] # Absent}) <= MaxMemoryKeys

(* Replay (SetMemory, DeleteMemory, UpdateSessionLabels): the last event   *)
(* about a key, or about the labels, tells their committed value, or that  *)
(* it is too large to be told; a key nobody spoke of was never set.  The   *)
(* key that cost accounting overwrites in silence is excepted.             *)
LogTellsState ==
    \A r \in (Keys \ {CostKey}) \cup {"labels"} :
        LET about == {n \in DOMAIN log : log[n].row = r}
        IN  IF about = {} THEN db[r] = (IF r = "labels" THEN "small" ELSE Absent)
            ELSE LET last == log[CHOOSE n \in about : \A m \in about : m <= n]
                 IN  last.val = (IF r = "labels" THEN db[r] ELSE Inline(db[r]))

(* However transactions overlap and abort, a session's memory and labels   *)
(* stay within their bound and its log tells what they are.                *)
SessionKept == SessionTypeOK /\ MemoryCapped /\ LogTellsState

(* Fan-in (createWait, settleTerminalRun): a parent that began to wait     *)
(* while its child ended is not left waiting; when nothing is in flight,   *)
(* an open wait has a child that is still to end.                          *)
ParentIsWoken ==
    (\A p \in Txs : ~InFlight(p)) => ~(db["wait"] = "open" /\ Terminal(db["child"]))

(* Lock order (Store.Tx): the transactions do wait for one another in      *)
(* cycles, and still each of them ends.                                    *)
EveryTxEnds == \A p \in Txs : [](InFlight(p) => <>~InFlight(p))
=============================================================================
