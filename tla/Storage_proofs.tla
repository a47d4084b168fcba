--------------------------- MODULE Storage_proofs ---------------------------
(***************************************************************************)
(* Proofs about the transactions of a session and about the job queue.     *)
(***************************************************************************)
EXTENDS SessionTx, JobQueue, FiniteSetTheorems, TLAPS

-----------------------------------------------------------------------------
(***************************************************************************)
(* SessionTx, for any transactions and memory keys.                        *)
(***************************************************************************)

-----------------------------------------------------------------------------
(***************************************************************************)
(* What a transaction is at each of its statements: a predicate of its     *)
(* record and of the committed rows, so that a step is judged by the       *)
(* record it leaves.                                                       *)
(***************************************************************************)

MemKeys == Keys \cup {CostKey}
RowVals == Values \cup {Absent, "running", "awaiting", "cancelled", "completed", "failed",
                        "open", "resolved", "abandoned"}
WriteSets == UNION {[D -> RowVals] : D \in SUBSET Rows}
Events == [row : Keys \cup {"labels"}, val : Values \cup {Absent, "elsewhere"}]
TxKinds == {"none", "set", "delete", "labels", "wait", "finish", "fail", "cancel"}
TxPcs == {"idle", "end", "lock", "count", "write", "remove", "labels", "event", "commit", "run",
          "step", "create", "evaluate", "settle", "close", "resume", "abandon", "cancelled"}
TxRecords == [kind : TxKinds, pc : TxPcs, key : MemKeys \cup {"labels"}, val : Values,
              locks : SUBSET Locks, writes : WriteSets, events : Seq(Events)]

Shape(t) ==
    /\ t.kind = "none" => t.pc \in {"idle", "end"}
    /\ t.kind = "set" => t.key \in Keys /\ t.pc \in {"lock", "count", "write", "event", "commit"}
    /\ t.kind = "delete" => t.key \in Keys /\ t.pc \in {"lock", "remove", "event", "commit"}
    /\ t.kind = "labels" => t.key = "labels" /\ t.pc \in {"labels", "event", "commit"}
    /\ t.kind \in {"wait", "finish", "fail", "cancel"} => t.key = CostKey /\ t.val = "small"
    /\ t.kind = "wait" => t.pc \in {"run", "lock", "count", "write", "event", "step", "create",
                                    "evaluate", "commit"}
    /\ t.kind = "finish" => t.pc \in {"run", "lock", "count", "write", "event", "step", "settle",
                                      "close", "resume", "commit"}
    /\ t.kind = "fail" => t.pc \in {"run", "settle", "close", "resume", "commit"}
    /\ t.kind = "cancel" => t.pc \in {"run", "abandon", "cancelled", "commit"}

\* The locks a transaction has by the time it gets to a statement, and how far
\* one is that has locked a wait or the labels.
LocksFit(t) ==
    /\ DOMAIN t.writes \subseteq t.locks
    /\ t.kind = "none" => t.locks = {}
    /\ t.kind \in {"set", "delete", "wait", "finish"} /\ t.pc \notin {"lock", "run"}
         => "memory" \in t.locks
    /\ \/ t.kind = "labels" /\ t.pc \in {"event", "commit"}
       \/ t.kind \in {"set", "delete", "cancel"} /\ t.pc = "commit"
       \/ t.kind = "wait" /\ t.pc \in {"create", "evaluate", "commit"}
       \/ t.kind = "finish" /\ t.pc \in {"settle", "close", "resume", "commit"}
       \/ t.kind = "fail" /\ t.pc \in {"close", "resume", "commit"}
       => "session" \in t.locks
    /\ t.kind \in {"wait", "finish", "fail", "cancel"} /\ t.pc # "run" => RunOf(t.kind) \in t.locks
    /\ "wait" \in t.locks => \/ t.kind = "wait" /\ t.pc \in {"evaluate", "commit"}
                             \/ t.kind \in {"finish", "fail"} /\ t.pc \in {"resume", "commit"}
                             \/ t.kind = "cancel" /\ t.pc \in {"cancelled", "commit"}
    /\ "labels" \in t.locks => t.kind = "labels" /\ t.pc \in {"event", "commit"}

\* What memory and labels it has written, and the event it has appended.
MemoryFits(t) ==
    /\ t.pc \in {"idle", "end", "lock", "count", "write", "remove", "labels", "run"}
         => DOMAIN t.writes = {}
    /\ t.kind \in {"set", "delete", "labels"} /\ t.pc \in {"event", "commit"} =>
         /\ DOMAIN t.writes = {t.key}
         /\ t.writes[t.key] = IF t.kind = "delete" THEN Absent ELSE t.val
    /\ t.kind \in {"wait", "finish"} =>
         /\ DOMAIN t.writes \subseteq {CostKey, "parent", "child", "wait"}
         /\ CostKey \in DOMAIN t.writes => t.writes[CostKey] = "small"
    /\ t.kind = "fail" => DOMAIN t.writes \subseteq {"parent", "child", "wait"}
    /\ t.kind = "cancel" => DOMAIN t.writes \subseteq {"parent", "wait"}
    /\ IF t.kind \in {"set", "delete", "labels"} /\ t.pc = "commit"
       THEN t.events = <<MemoryEvent(t)>> ELSE t.events = <<>>

\* A write that passed the count finds room.
Present0 == {k \in MemKeys : db[k] # Absent}
RoomKept(t) ==
    /\ t.kind \in {"set", "wait", "finish"}
    /\ t.pc = "write" \/ t.key \in DOMAIN t.writes
    => t.key \in Present0 \/ Cardinality(Present0) < MaxMemoryKeys

\* A parent's step that waits for the child.
WaitFits(t) ==
    t.kind = "wait" /\ t.pc # "run" =>
        /\ db["parent"] = "running"
        /\ "child" \notin DOMAIN t.writes
        /\ t.pc \notin {"evaluate", "commit"} => DOMAIN t.writes \subseteq {CostKey}
        /\ t.pc = "evaluate" =>
             /\ "parent" \notin DOMAIN t.writes
             /\ IF "wait" \in DOMAIN t.writes THEN t.writes["wait"] = "open"
                ELSE db["wait"] = "resolved"
        /\ t.pc = "commit" =>
             /\ "wait" \in DOMAIN t.writes
             /\ \/ /\ t.writes["wait"] = "resolved" /\ "parent" \notin DOMAIN t.writes
                   /\ Terminal(db["child"])
                \/ /\ t.writes["wait"] = "open" /\ "parent" \in DOMAIN t.writes
                   /\ t.writes["parent"] = "awaiting" /\ ~Terminal(db["child"])

\* The end of the child.
EndFits(t) ==
    t.kind \in {"finish", "fail"} /\ t.pc # "run" =>
        /\ db["child"] = "running"
        /\ t.pc \in {"settle", "close", "resume", "commit"} =>
             "child" \in DOMAIN t.writes /\ t.writes["child"] \in {"completed", "failed"}
        /\ t.pc \in {"lock", "count", "write", "event", "step"} => DOMAIN t.writes \subseteq {CostKey}
        /\ t.pc \in {"settle", "close"} => DOMAIN t.writes \subseteq {CostKey, "child"}
        /\ t.pc = "resume" => /\ "wait" \in DOMAIN t.writes /\ "parent" \notin DOMAIN t.writes
                              /\ t.writes["wait"] = "resolved" /\ db["wait"] = "open"
        /\ t.pc = "commit" =>
             IF "wait" \in DOMAIN t.writes
             THEN /\ "parent" \in DOMAIN t.writes
                  /\ t.writes["wait"] = "resolved" /\ db["wait"] = "open"
                  /\ t.writes["parent"] = "running"
             ELSE "parent" \notin DOMAIN t.writes /\ db["wait"] # "open"

\* The end of the parent.
CancelFits(t) ==
    t.kind = "cancel" /\ t.pc # "run" =>
        /\ db["parent"] = "awaiting"
        /\ "parent" \in DOMAIN t.writes /\ t.writes["parent"] = "cancelled"
        /\ t.pc = "abandon" => "wait" \notin DOMAIN t.writes
        /\ t.pc # "abandon" => "wait" \in DOMAIN t.writes /\ t.writes["wait"] = "abandoned"

TxOK(t) ==
    /\ t \in TxRecords /\ Shape(t) /\ LocksFit(t) /\ MemoryFits(t) /\ RoomKept(t)
    /\ WaitFits(t) /\ EndFits(t) /\ CancelFits(t)

-----------------------------------------------------------------------------
(***************************************************************************)
(* The committed rows, and the locks.                                      *)
(***************************************************************************)

RowsFit ==
    /\ db \in [Rows -> RowVals]
    /\ \A k \in MemKeys : db[k] \in Values \cup {Absent}
    /\ db["labels"] \in Values
    /\ db["parent"] \in {"running", "awaiting", "cancelled"}
    /\ db["child"] \in {"running", "completed", "failed"}
    /\ db["wait"] \in {Absent, "open", "resolved", "abandoned"}

\* A wait is open exactly while its parent is parked, and not once its child
\* has ended; it is resolved only by then.
WaitAndRuns ==
    /\ db["wait"] = "open" <=> db["parent"] = "awaiting"
    /\ db["wait"] = "open" => ~Terminal(db["child"])
    /\ db["wait"] = "resolved" => Terminal(db["child"])
    /\ db["wait"] = "abandoned" => db["parent"] = "cancelled"

RoomInv == IsFiniteSet(Present0) /\ Cardinality(Present0) <= MaxMemoryKeys

Exclusive == \A p, q \in Txs : p # q => tx[p].locks \cap tx[q].locks = {}

SessionTypes ==
    /\ log \in Seq(Events)
    /\ DOMAIN tx = Txs /\ tx = [p \in Txs |-> tx[p]]
    /\ aborts \in 0 .. MaxAborts

SessionInv ==
    /\ RowsFit /\ WaitAndRuns /\ RoomInv /\ SessionTypes /\ Exclusive
    /\ \A p \in Txs : TxOK(tx[p])

-----------------------------------------------------------------------------
(***************************************************************************)
(* The records statements make of one another.                             *)
(***************************************************************************)

LEMMA NoWrites == DOMAIN <<>> = {} /\ <<>> \in WriteSets
<1>1. <<>> \in [{} -> RowVals]
  OBVIOUS
<1> QED
  BY <1>1 DEF WriteSets

LEMMA WriteType ==
  ASSUME NEW w \in WriteSets, NEW row \in Rows, NEW v \in RowVals
  PROVE  Write(w, row, v) \in WriteSets
<1>1. PICK D \in SUBSET Rows : w \in [D -> RowVals]
  BY DEF WriteSets
<1>2. Write(w, row, v) \in [D \cup {row} -> RowVals]
  BY <1>1 DEF Write
<1> QED
  BY <1>2 DEF WriteSets

LEMMA BlankFields ==
  ASSUME NEW k \in TxKinds, NEW pc \in TxPcs, NEW key \in MemKeys \cup {"labels"}, NEW v \in Values,
         NEW w \in WriteSets, DOMAIN w = {}, NEW es \in Seq(Events), NEW u,
         u = [kind |-> k, pc |-> pc, key |-> key, val |-> v, locks |-> {}, writes |-> w, events |-> es]
  PROVE  /\ u \in TxRecords /\ u.kind = k /\ u.pc = pc /\ u.key = key /\ u.val = v
         /\ u.locks = {} /\ DOMAIN u.writes = {} /\ u.events = es
BY DEF TxRecords

\* A transaction that has just begun, was rolled back or is over.
Blank(u, k, pc, key, v) ==
    /\ u \in TxRecords /\ u.kind = k /\ u.pc = pc /\ u.key = key /\ u.val = v
    /\ u.locks = {} /\ DOMAIN u.writes = {} /\ u.events = <<>>

LEMMA IdleBlank == Blank(Idle, "none", "idle", CostKey, "small")
<1> DEFINE w == <<>>
           es == <<>>
<1>1. w \in WriteSets /\ DOMAIN w = {} /\ es \in Seq(Events)
  BY NoWrites
<1>2. Idle = [kind |-> "none", pc |-> "idle", key |-> CostKey, val |-> "small", locks |-> {},
              writes |-> w, events |-> es]
  BY DEF Idle
<1>3. es = <<>>
  OBVIOUS
<1>4. "none" \in TxKinds /\ "idle" \in TxPcs /\ CostKey \in MemKeys \cup {"labels"}
      /\ "small" \in Values
  BY DEF TxKinds, TxPcs, MemKeys, Values
<1> HIDE DEF w, es
<1> QED
  <2>1. /\ Idle \in TxRecords /\ Idle.kind = "none" /\ Idle.pc = "idle" /\ Idle.key = CostKey
        /\ Idle.val = "small" /\ Idle.locks = {} /\ DOMAIN Idle.writes = {} /\ Idle.events = es
    BY <1>1, <1>2, <1>4, BlankFields
  <2> QED
    BY <1>3, <2>1 DEF Blank

LEMMA IdleFields ==
  ASSUME NEW t, Blank(t, "none", "idle", CostKey, "small"), NEW pc \in TxPcs
  PROVE  /\ Blank([t EXCEPT !.pc = pc], "none", pc, CostKey, "small")
         /\ \A k \in TxKinds :
              /\ Blank([t EXCEPT !.kind = k, !.pc = pc], k, pc, CostKey, "small")
              /\ \A key \in MemKeys \cup {"labels"}, v \in Values :
                   Blank([[t EXCEPT !.kind = k, !.key = key, !.val = v] EXCEPT !.pc = pc],
                         k, pc, key, v)
<1>0. t \in TxRecords
  BY DEF Blank
<1>1. Blank([t EXCEPT !.pc = pc], "none", pc, CostKey, "small")
  BY <1>0 DEF Blank, TxRecords
<1>2. ASSUME NEW k \in TxKinds
      PROVE  Blank([t EXCEPT !.kind = k, !.pc = pc], k, pc, CostKey, "small")
  BY <1>0 DEF Blank, TxRecords
<1>3. ASSUME NEW k \in TxKinds, NEW key \in MemKeys \cup {"labels"}, NEW v \in Values
      PROVE  Blank([[t EXCEPT !.kind = k, !.key = key, !.val = v] EXCEPT !.pc = pc], k, pc, key, v)
  BY <1>0 DEF Blank, TxRecords
<1> QED
  BY <1>1, <1>2, <1>3

LEMMA BlankOK ==
  ASSUME NEW u, NEW k \in TxKinds, NEW pc, NEW key, NEW v, Blank(u, k, pc, key, v),
         \/ k = "none" /\ pc \in {"idle", "end"}
         \/ k \in {"set", "delete"} /\ key \in Keys /\ pc = "lock"
         \/ k = "labels" /\ pc = "labels" /\ key = "labels"
         \/ k \in {"wait", "finish", "fail", "cancel"} /\ pc = "run" /\ key = CostKey /\ v = "small"
  PROVE  TxOK(u)
BY DEF Blank, TxOK, Shape, LocksFit, MemoryFits, RoomKept, WaitFits, EndFits, CancelFits

\* The record u that follows t: at statement pc, with the locks L besides.
Follows(u, t, pc, L) ==
    /\ u \in TxRecords /\ u.kind = t.kind /\ u.pc = pc /\ u.key = t.key /\ u.val = t.val
    /\ u.locks = t.locks \cup L
Kept(u, t) == u.writes = t.writes /\ u.events = t.events
Wrote(u, t, row, v) ==
    /\ DOMAIN u.writes = DOMAIN t.writes \cup {row} /\ u.writes[row] = v
    /\ \A r \in DOMAIN t.writes : r # row => u.writes[r] = t.writes[r]
    /\ u.events = t.events

LEMMA PcFields ==
  ASSUME NEW t \in TxRecords, NEW pc \in TxPcs
  PROVE  Follows([t EXCEPT !.pc = pc], t, pc, {}) /\ Kept([t EXCEPT !.pc = pc], t)
BY DEF TxRecords, Follows, Kept

LEMMA LockedFields ==
  ASSUME NEW t \in TxRecords, NEW l \in Locks
  PROVE  Follows(Locked(t, l), t, t.pc, {l}) /\ Kept(Locked(t, l), t)
BY DEF TxRecords, Locked, Follows, Kept

LEMMA PutFields ==
  ASSUME NEW t \in TxRecords, NEW row \in Rows, NEW v \in RowVals
  PROVE  Follows(Put(t, row, v), t, t.pc, {row}) /\ Wrote(Put(t, row, v), t, row, v)
<1>1. Write(t.writes, row, v) \in WriteSets /\ row \in Locks
  BY WriteType DEF TxRecords, Locks
<1>2. /\ Follows(Put(t, row, v), t, t.pc, {row})
      /\ Put(t, row, v).writes = Write(t.writes, row, v)
      /\ Put(t, row, v).events = t.events
  BY <1>1 DEF TxRecords, Put, Follows
<1> QED
  BY <1>2 DEF Write, Wrote

LEMMA SaidFields ==
  ASSUME NEW t \in TxRecords, NEW e \in Events
  PROVE  /\ Follows(Said(t, e), t, t.pc, {"session"}) /\ Said(t, e).writes = t.writes
         /\ Said(t, e).events = Append(t.events, e)
<1>1. t.events \in Seq(Events)
  BY DEF TxRecords
<1>2. Append(t.events, e) \in Seq(Events) /\ "session" \in Locks
  BY <1>1 DEF Locks
<1> QED
  BY <1>2 DEF TxRecords, Said, Follows

LEMMA RowNames ==
  /\ MemKeys \subseteq Rows /\ "labels" \in Rows /\ "parent" \in Rows /\ "child" \in Rows
  /\ "wait" \in Rows /\ Rows \subseteq Locks /\ "memory" \in Locks /\ "session" \in Locks
  /\ MemKeys \cap {"labels", "parent", "child", "wait", "memory", "session"} = {}
  /\ "memory" \notin Rows /\ "session" \notin Rows
  /\ Values \subseteq RowVals /\ Absent \in RowVals
BY SessionAssumption DEF MemKeys, Rows, Locks, CostKey, RowVals

-----------------------------------------------------------------------------
(***************************************************************************)
(* A statement changes its own transaction's record only.                  *)
(***************************************************************************)

LEMMA MoveOK ==
  ASSUME SessionInv, NEW p \in Txs, NEW t, tx' = [tx EXCEPT ![p] = t],
         db' = db, log' = log, aborts' \in 0 .. MaxAborts, TxOK(t),
         \A q \in Txs : q # p => (t.locks \ tx[p].locks) \cap tx[q].locks = {}
  PROVE  SessionInv'
<1>1. /\ \A q \in Txs : q # p => tx'[q] = tx[q]
      /\ tx'[p] = t /\ DOMAIN tx' = Txs /\ tx' = [q \in Txs |-> tx'[q]]
  BY DEF SessionInv, SessionTypes
<1>2. Exclusive'
  BY <1>1 DEF SessionInv, Exclusive
<1>3. (RowsFit /\ WaitAndRuns /\ RoomInv /\ SessionTypes)'
  BY <1>1 DEF SessionInv, RowsFit, WaitAndRuns, RoomInv, SessionTypes, Present0
<1>4. ASSUME NEW q \in Txs
      PROVE  TxOK(tx[q])'
  <2>1. TxOK(tx'[q])
    BY <1>1 DEF SessionInv
  <2> QED
    BY <2>1 DEF TxOK, Shape, LocksFit, MemoryFits, RoomKept, Present0, WaitFits, EndFits, CancelFits
<1> QED
  BY <1>2, <1>3, <1>4 DEF SessionInv

Becomes(p, u) == tx' = [tx EXCEPT ![p] = u] /\ db' = db /\ log' = log /\ aborts' = aborts

LEMMA BecomesOK ==
  ASSUME SessionInv, NEW p \in Txs, NEW u, Becomes(p, u), TxOK(u),
         \A q \in Txs : q # p => (u.locks \ tx[p].locks) \cap tx[q].locks = {}
  PROVE  SessionInv'
BY MoveOK DEF Becomes, SessionInv, SessionTypes

LEMMA GoBecomes ==
  ASSUME NEW p, NEW pc \in TxPcs, NEW t \in TxRecords, Go(p, pc, t)
  PROVE  \E u : Becomes(p, u) /\ Follows(u, t, pc, {}) /\ Kept(u, t)
<1> DEFINE u == [t EXCEPT !.pc = pc]
<1>1. Becomes(p, u)
  BY DEF Go, Becomes
<1>2. Follows(u, t, pc, {}) /\ Kept(u, t)
  BY PcFields
<1> HIDE DEF u
<1> QED
  BY <1>1, <1>2

LEMMA GoSame ==
  ASSUME NEW p, NEW pc \in TxPcs, tx[p] \in TxRecords, Go(p, pc, tx[p])
  PROVE  \E u : Becomes(p, u) /\ Follows(u, tx[p], pc, {}) /\ Kept(u, tx[p])
BY GoBecomes

LEMMA GoLocked ==
  ASSUME NEW p, NEW pc \in TxPcs, NEW l \in Locks, tx[p] \in TxRecords, Go(p, pc, Locked(tx[p], l))
  PROVE  \E u : Becomes(p, u) /\ Follows(u, tx[p], pc, {l}) /\ Kept(u, tx[p])
<1> DEFINE t == Locked(tx[p], l)
<1>1. Follows(t, tx[p], tx[p].pc, {l}) /\ Kept(t, tx[p]) /\ Go(p, pc, t)
  BY LockedFields
<1> HIDE DEF t
<1>2. PICK u : Becomes(p, u) /\ Follows(u, t, pc, {}) /\ Kept(u, t)
  BY <1>1, GoBecomes DEF Follows
<1> QED
  BY <1>1, <1>2 DEF Follows, Kept

LEMMA GoPut ==
  ASSUME NEW p, NEW pc \in TxPcs, NEW row \in Rows, NEW v \in RowVals, tx[p] \in TxRecords,
         Go(p, pc, Put(tx[p], row, v))
  PROVE  \E u : Becomes(p, u) /\ Follows(u, tx[p], pc, {row}) /\ Wrote(u, tx[p], row, v)
<1> DEFINE t == Put(tx[p], row, v)
<1>1. Follows(t, tx[p], tx[p].pc, {row}) /\ Wrote(t, tx[p], row, v) /\ Go(p, pc, t)
  BY PutFields
<1> HIDE DEF t
<1>2. PICK u : Becomes(p, u) /\ Follows(u, t, pc, {}) /\ Kept(u, t)
  BY <1>1, GoBecomes DEF Follows
<1> QED
  BY <1>1, <1>2 DEF Follows, Kept, Wrote

LEMMA GoPutLocked ==
  ASSUME NEW p, NEW pc \in TxPcs, NEW row \in Rows, NEW v \in RowVals, NEW l \in Locks,
         tx[p] \in TxRecords, Go(p, pc, Locked(Put(tx[p], row, v), l))
  PROVE  \E u : Becomes(p, u) /\ Follows(u, tx[p], pc, {row, l}) /\ Wrote(u, tx[p], row, v)
<1> DEFINE t == Put(tx[p], row, v)
           s == Locked(t, l)
<1>1. Follows(t, tx[p], tx[p].pc, {row}) /\ Wrote(t, tx[p], row, v) /\ Go(p, pc, s)
  BY PutFields
<1> HIDE DEF t
<1>2. Follows(s, t, t.pc, {l}) /\ Kept(s, t)
  BY <1>1, LockedFields DEF Follows
<1> HIDE DEF s
<1>3. PICK u : Becomes(p, u) /\ Follows(u, s, pc, {}) /\ Kept(u, s)
  BY <1>1, <1>2, GoBecomes DEF Follows
<1> QED
  BY <1>1, <1>2, <1>3 DEF Follows, Kept, Wrote

LEMMA GoSaid ==
  ASSUME NEW p, NEW pc \in TxPcs, NEW e \in Events, tx[p] \in TxRecords, Go(p, pc, Said(tx[p], e))
  PROVE  \E u : /\ Becomes(p, u) /\ Follows(u, tx[p], pc, {"session"}) /\ u.writes = tx[p].writes
                /\ u.events = Append(tx[p].events, e)
<1> DEFINE t == Said(tx[p], e)
<1>1. /\ Follows(t, tx[p], tx[p].pc, {"session"}) /\ t.writes = tx[p].writes
      /\ t.events = Append(tx[p].events, e) /\ Go(p, pc, t)
  BY SaidFields
<1> HIDE DEF t
<1>2. PICK u : Becomes(p, u) /\ Follows(u, t, pc, {}) /\ Kept(u, t)
  BY <1>1, GoBecomes DEF Follows
<1> QED
  BY <1>1, <1>2 DEF Follows, Kept

LEMMA BlankMoveOK ==
  ASSUME SessionInv, NEW p \in Txs, NEW u, NEW k, NEW pc, NEW key, NEW v, Blank(u, k, pc, key, v),
         TxOK(u), tx' = [tx EXCEPT ![p] = u], db' = db, log' = log, aborts' \in 0 .. MaxAborts
  PROVE  SessionInv'
<1>1. \A q \in Txs : q # p => (u.locks \ tx[p].locks) \cap tx[q].locks = {}
  BY DEF Blank
<1> QED
  BY <1>1, MoveOK

LEMMA OverOK == TxOK([Idle EXCEPT !.pc = "end"])
                /\ Blank([Idle EXCEPT !.pc = "end"], "none", "end", CostKey, "small")
<1> DEFINE u == [Idle EXCEPT !.pc = "end"]
<1>2. "none" \in TxKinds /\ "end" \in TxPcs /\ CostKey \in MemKeys \cup {"labels"}
      /\ "small" \in Values
  BY DEF TxKinds, TxPcs, MemKeys, Values
<1>3. Blank(u, "none", "end", CostKey, "small")
  BY <1>2, IdleFields, IdleBlank, Zenon
<1> HIDE DEF u
<1>4. TxOK(u)
  BY <1>2, <1>3, BlankOK
<1> QED
  BY <1>3, <1>4 DEF u

LEMMA EndOK ==
  ASSUME SessionInv, NEW p \in Txs, End(p), aborts' = aborts
  PROVE  SessionInv'
BY OverOK, BlankMoveOK DEF End, SessionInv, SessionTypes

LEMMA RollbackOK ==
  ASSUME SessionInv, NEW p \in Txs, Rollback(p), aborts' \in 0 .. MaxAborts
  PROVE  SessionInv'
<1>1. CASE tx[p].kind \in {"wait", "finish", "fail"}
  <2> DEFINE u == [Idle EXCEPT !.kind = tx[p].kind, !.pc = "run"]
  <2>2. tx[p].kind \in TxKinds /\ "run" \in TxPcs /\ CostKey \in MemKeys \cup {"labels"}
        /\ "small" \in Values
    BY <1>1 DEF TxKinds, TxPcs, MemKeys, Values
  <2>3. tx' = [tx EXCEPT ![p] = u] /\ db' = db /\ log' = log
    BY <1>1 DEF Rollback
  <2>4. Blank(u, tx[p].kind, "run", CostKey, "small")
    BY <2>2, IdleFields, IdleBlank, Zenon
  <2> HIDE DEF u
  <2>5. TxOK(u)
    BY <1>1, <2>2, <2>4, BlankOK
  <2> QED
    BY <2>3, <2>4, <2>5, BlankMoveOK
<1>2. CASE tx[p].kind \notin {"wait", "finish", "fail"}
  <2>1. tx' = [tx EXCEPT ![p] = [Idle EXCEPT !.pc = "end"]] /\ db' = db /\ log' = log
    BY <1>2 DEF Rollback
  <2> QED
    BY <2>1, OverOK, BlankMoveOK
<1> QED
  BY <1>1, <1>2

LEMMA BeginOK ==
  ASSUME SessionInv, NEW p \in Txs, NEW kind \in TxKinds, NEW pc \in TxPcs,
         NEW key \in MemKeys \cup {"labels"}, NEW val \in Values, Begin(p, kind, pc, key, val),
         \/ kind \in {"set", "delete"} /\ key \in Keys /\ pc = "lock"
         \/ kind = "labels" /\ pc = "labels" /\ key = "labels"
         \/ kind \in {"wait", "finish", "fail", "cancel"} /\ pc = "run" /\ key = CostKey /\ val = "small"
  PROVE  SessionInv'
<1> DEFINE u == [[Idle EXCEPT !.kind = kind, !.key = key, !.val = val] EXCEPT !.pc = pc]
<1>2. tx' = [tx EXCEPT ![p] = u] /\ db' = db /\ log' = log /\ aborts' \in 0 .. MaxAborts
  BY DEF Begin, Go, SessionInv, SessionTypes
<1>3. Blank(u, kind, pc, key, val)
  BY IdleFields, IdleBlank, Zenon
<1> HIDE DEF u
<1>4. TxOK(u)
  BY <1>3, BlankOK
<1> QED
  BY <1>2, <1>3, <1>4, BlankMoveOK

LEMMA ArrivesOK ==
  ASSUME SessionInv, NEW p \in Txs, Arrives(p)
  PROVE  SessionInv'
<1>0. /\ CostKey \in MemKeys \cup {"labels"} /\ "labels" \in MemKeys \cup {"labels"}
      /\ \A k \in Keys : k \in MemKeys \cup {"labels"}
      /\ "small" \in Values /\ "lock" \in TxPcs /\ "labels" \in TxPcs /\ "run" \in TxPcs
  BY DEF MemKeys, Values, TxPcs
<1>1. CASE SetMemory(p)
  BY <1>0, <1>1, BeginOK DEF SetMemory, TxKinds
<1>2. CASE DeleteMemory(p)
  BY <1>0, <1>2, BeginOK DEF DeleteMemory, TxKinds
<1>3. CASE UpdateSessionLabels(p)
  BY <1>0, <1>3, BeginOK DEF UpdateSessionLabels, TxKinds
<1>4. CASE CommitOutcome(p)
  BY <1>0, <1>4, BeginOK DEF CommitOutcome, TxKinds
<1>5. CASE FailRun(p)
  BY <1>0, <1>5, BeginOK DEF FailRun, TxKinds
<1>6. CASE CancelRun(p)
  BY <1>0, <1>6, BeginOK DEF CancelRun, TxKinds
<1> QED
  BY <1>1, <1>2, <1>3, <1>4, <1>5, <1>6 DEF Arrives

-----------------------------------------------------------------------------
(***************************************************************************)
(* The statements, one by one.                                             *)
(***************************************************************************)

\* What a statement of p may start from.
LEMMA Here ==
  ASSUME SessionInv, NEW p \in Txs
  PROVE  TxOK(tx[p]) /\ tx[p] \in TxRecords /\ tx[p] = tx[p]
         /\ \A l : ~Held(p, l) => \A q \in Txs : q # p => l \notin tx[q].locks
BY DEF SessionInv, TxOK, Held

LEMMA LockOK ==
  ASSUME SessionInv, NEW p \in Txs, Lock(p)
  PROVE  SessionInv'
<1> DEFINE t == tx[p]
           pc == IF t.kind = "delete" THEN "remove" ELSE "count"
<1>0. t.pc = "lock" /\ TxOK(t) /\ t \in TxRecords /\ ~Held(p, "memory")
  BY Here DEF Lock, At
<1>1. PICK u : Becomes(p, u) /\ Follows(u, t, pc, {"memory"}) /\ Kept(u, t)
  BY <1>0, RowNames, GoLocked DEF Lock, TxPcs
<1>2. TxOK(u)
  BY <1>0, <1>1
  DEF Follows, Kept, TxOK, Shape, LocksFit, MemoryFits, RoomKept, WaitFits, EndFits, CancelFits
<1> QED
  BY <1>0, <1>1, <1>2, BecomesOK, Here DEF Follows

LEMMA CountOK ==
  ASSUME SessionInv, NEW p \in Txs, Count(p)
  PROVE  SessionInv'
<1> DEFINE t == tx[p]
<1>0. t.pc = "count" /\ DOMAIN t.writes = {} /\ TxOK(t) /\ t \in TxRecords
  BY Here DEF Count, At, TxOK, MemoryFits
<1>1. Present(p) = Present0
  BY <1>0 DEF Present, Present0, View, MemKeys
<1>2. ASSUME NEW pc \in {"write", "step"}, Go(p, pc, t),
             pc = "write" => t.key \in Present0 \/ Cardinality(Present0) < MaxMemoryKeys,
             pc = "step" => t.kind # "set"
      PROVE  SessionInv'
  <2>1. PICK u : Becomes(p, u) /\ Follows(u, t, pc, {}) /\ Kept(u, t)
    BY <1>0, <1>2, GoSame DEF TxPcs
  <2>2. TxOK(u)
    BY <1>0, <1>2, <2>1
    DEF Follows, Kept, TxOK, Shape, LocksFit, MemoryFits, RoomKept, WaitFits, EndFits, CancelFits
  <2> QED
    BY <2>1, <2>2, BecomesOK DEF Follows
<1> QED
  BY <1>1, <1>2, EndOK DEF Count

LEMMA UpsertOK ==
  ASSUME SessionInv, NEW p \in Txs, Upsert(p)
  PROVE  SessionInv'
<1> DEFINE t == tx[p]
<1>0. t.pc = "write" /\ DOMAIN t.writes = {} /\ TxOK(t) /\ t \in TxRecords /\ ~Held(p, t.key)
      /\ t.key \in MemKeys /\ t.val \in Values /\ t.kind \in {"set", "wait", "finish"}
  BY Here DEF Upsert, At, TxOK, Shape, MemoryFits, MemKeys, TxRecords, TxKinds
<1>1. PICK u : Becomes(p, u) /\ Follows(u, t, "event", {t.key}) /\ Wrote(u, t, t.key, t.val)
  BY <1>0, RowNames, GoPut DEF Upsert, TxPcs
<1>2. TxOK(u)
  BY <1>0, <1>1, RowNames
  DEF Follows, Wrote, TxOK, Shape, LocksFit, MemoryFits, RoomKept, WaitFits, EndFits, CancelFits
<1> QED
  BY <1>0, <1>1, <1>2, BecomesOK, Here DEF Follows

LEMMA RemoveOK ==
  ASSUME SessionInv, NEW p \in Txs, RemoveKey(p)
  PROVE  SessionInv'
<1> DEFINE t == tx[p]
<1>0. t.pc = "remove" /\ DOMAIN t.writes = {} /\ TxOK(t) /\ t \in TxRecords
      /\ t.key \in MemKeys /\ t.kind = "delete" /\ ~Held(p, t.key)
  BY Here DEF RemoveKey, At, TxOK, Shape, MemoryFits, TxRecords, TxKinds, MemKeys
<1>1. CASE Go(p, "event", Put(t, t.key, Absent))
  <2>1. PICK u : Becomes(p, u) /\ Follows(u, t, "event", {t.key}) /\ Wrote(u, t, t.key, Absent)
    BY <1>0, <1>1, RowNames, GoPut DEF TxPcs
  <2>2. TxOK(u)
    BY <1>0, <2>1, RowNames
    DEF Follows, Wrote, TxOK, Shape, LocksFit, MemoryFits, RoomKept, WaitFits, EndFits, CancelFits
  <2> QED
    BY <1>0, <2>1, <2>2, BecomesOK, Here DEF Follows
<1> QED
  BY <1>1, EndOK DEF RemoveKey

LEMMA LabelsOK ==
  ASSUME SessionInv, NEW p \in Txs, UpdateLabels(p)
  PROVE  SessionInv'
<1> DEFINE t == tx[p]
<1>0. t.pc = "labels" /\ DOMAIN t.writes = {} /\ TxOK(t) /\ t \in TxRecords
      /\ t.key = "labels" /\ t.kind = "labels" /\ ~Held(p, "session") /\ t.val \in Values
  BY Here DEF UpdateLabels, At, TxOK, Shape, MemoryFits, TxRecords, TxKinds
<1>1. PICK u : Becomes(p, u) /\ Follows(u, t, "event", {"labels", "session"})
               /\ Wrote(u, t, "labels", t.val)
  BY <1>0, RowNames, GoPutLocked DEF UpdateLabels, TxPcs
<1>2. TxOK(u)
  BY <1>0, <1>1, RowNames
  DEF Follows, Wrote, TxOK, Shape, LocksFit, MemoryFits, RoomKept, WaitFits, EndFits, CancelFits
<1>3. \A q \in Txs : q # p => "labels" \notin tx[q].locks
  BY <1>0, Here DEF SessionInv, TxOK, LocksFit
<1> QED
  BY <1>0, <1>1, <1>2, <1>3, BecomesOK, Here DEF Follows

LEMMA EventOK ==
  ASSUME SessionInv, NEW p \in Txs, AppendMemoryEvent(p)
  PROVE  SessionInv'
<1> DEFINE t == tx[p]
<1>0. t.pc = "event" /\ TxOK(t) /\ t \in TxRecords /\ ~Held(p, "session")
      /\ t.kind \in {"set", "delete", "labels", "wait", "finish"}
  BY Here DEF AppendMemoryEvent, At, TxOK, Shape, TxRecords, TxKinds
<1>1. CASE t.kind \in {"wait", "finish"}
  <2>1. PICK u : Becomes(p, u) /\ Follows(u, t, "step", {"session"}) /\ Kept(u, t)
    BY <1>0, <1>1, RowNames, GoLocked DEF AppendMemoryEvent, TxPcs
  <2>2. TxOK(u)
    BY <1>0, <1>1, <2>1, RowNames
    DEF Follows, Kept, TxOK, Shape, LocksFit, MemoryFits, RoomKept, WaitFits, EndFits, CancelFits
  <2> QED
    BY <1>0, <2>1, <2>2, BecomesOK, Here DEF Follows
<1>2. CASE t.kind \in {"set", "delete", "labels"}
  <2>0. MemoryEvent(t) \in Events /\ t.events = <<>>
    BY <1>0, <1>2 DEF MemoryEvent, Events, Inline, Values, TxOK, Shape, MemoryFits, TxRecords, Absent
  <2>1. PICK u : /\ Becomes(p, u) /\ Follows(u, t, "commit", {"session"})
                 /\ u.writes = t.writes /\ u.events = Append(t.events, MemoryEvent(t))
    BY <1>0, <1>2, <2>0, GoSaid DEF AppendMemoryEvent, TxPcs
  <2>2. u.events = <<MemoryEvent(u)>>
    BY <2>0, <2>1 DEF MemoryEvent, Follows
  <2>3. TxOK(u)
    BY <1>0, <1>2, <2>1, <2>2, RowNames
    DEF Follows, TxOK, Shape, LocksFit, MemoryFits, RoomKept, WaitFits, EndFits, CancelFits
  <2> QED
    BY <1>0, <2>1, <2>3, BecomesOK, Here DEF Follows
<1> QED
  BY <1>0, <1>1, <1>2

LEMMA GetForUpdateOK ==
  ASSUME SessionInv, NEW p \in Txs, GetForUpdate(p)
  PROVE  SessionInv'
<1> DEFINE t == tx[p]
           run == RunOf(t.kind)
<1>0. t.pc = "run" /\ TxOK(t) /\ t \in TxRecords /\ ~Held(p, run) /\ DOMAIN t.writes = {}
      /\ t.kind \in {"wait", "finish", "fail", "cancel"}
  BY Here DEF GetForUpdate, At, TxOK, Shape, MemoryFits, TxRecords, TxKinds
<1>1. View(p, run) = db[run] /\ run \in Rows /\ run \in Locks
      /\ (t.kind \in {"wait", "cancel"} => run = "parent")
      /\ (t.kind \in {"finish", "fail"} => run = "child")
  BY <1>0, RowNames DEF View, RunOf
<1>2. CASE t.kind \in {"wait", "finish"} /\ db[run] = "running" /\ Go(p, "lock", Locked(t, run))
  <2>1. PICK u : Becomes(p, u) /\ Follows(u, t, "lock", {run}) /\ Kept(u, t)
    BY <1>0, <1>1, <1>2, GoLocked DEF TxPcs
  <2>2. TxOK(u)
    BY <1>0, <1>1, <1>2, <2>1, RowNames
    DEF Follows, Kept, TxOK, Shape, LocksFit, MemoryFits, RoomKept, WaitFits, EndFits, CancelFits, RunOf
  <2> QED
    BY <1>0, <2>1, <2>2, BecomesOK, Here DEF Follows
<1>3. CASE t.kind = "fail" /\ ~Terminal(db[run]) /\ Go(p, "settle", Put(t, run, "failed"))
  <2>0. db["child"] = "running" /\ run = "child"
    BY <1>1, <1>3 DEF SessionInv, RowsFit, Terminal
  <2>1. PICK u : Becomes(p, u) /\ Follows(u, t, "settle", {"child"}) /\ Wrote(u, t, "child", "failed")
    BY <1>0, <1>3, <2>0, RowNames, GoPut DEF TxPcs, RowVals
  <2>2. TxOK(u)
    BY <1>0, <1>3, <2>0, <2>1, RowNames
    DEF Follows, Wrote, TxOK, Shape, LocksFit, MemoryFits, RoomKept, WaitFits, EndFits, CancelFits, RunOf
  <2> QED
    BY <1>0, <2>0, <2>1, <2>2, BecomesOK, Here DEF Follows
<1>4. CASE t.kind = "cancel" /\ db[run] = "awaiting" /\ Go(p, "abandon", Put(t, run, "cancelled"))
  <2>0. run = "parent" /\ db["parent"] = "awaiting"
    BY <1>1, <1>4
  <2>1. PICK u : Becomes(p, u) /\ Follows(u, t, "abandon", {"parent"})
                 /\ Wrote(u, t, "parent", "cancelled")
    BY <1>0, <1>4, <2>0, RowNames, GoPut DEF TxPcs, RowVals
  <2>2. TxOK(u)
    BY <1>0, <1>4, <2>0, <2>1, RowNames
    DEF Follows, Wrote, TxOK, Shape, LocksFit, MemoryFits, RoomKept, WaitFits, EndFits, CancelFits, RunOf
  <2> QED
    BY <1>0, <2>0, <2>1, <2>2, BecomesOK, Here DEF Follows
<1>5. CASE End(p) /\ aborts' = aborts
  BY <1>5, EndOK
<1> QED
  BY <1>0, <1>1, <1>2, <1>3, <1>4, <1>5 DEF GetForUpdate

LEMMA StepEventOK ==
  ASSUME SessionInv, NEW p \in Txs, StepEvent(p)
  PROVE  SessionInv'
<1> DEFINE t == tx[p]
<1>0. t.pc = "step" /\ TxOK(t) /\ t \in TxRecords /\ ~Held(p, "session")
      /\ t.kind \in {"wait", "finish"}
  BY Here DEF StepEvent, At, TxOK, Shape, TxRecords, TxKinds
<1>1. CASE t.kind = "wait"
  <2>1. PICK u : Becomes(p, u) /\ Follows(u, t, "create", {"session"}) /\ Kept(u, t)
    BY <1>0, <1>1, RowNames, GoLocked DEF StepEvent, TxPcs
  <2>2. TxOK(u)
    BY <1>0, <1>1, <2>1
    DEF Follows, Kept, TxOK, Shape, LocksFit, MemoryFits, RoomKept, WaitFits, EndFits, CancelFits
  <2> QED
    BY <1>0, <2>1, <2>2, BecomesOK, Here DEF Follows
<1>2. CASE t.kind = "finish"
  <2>1. PICK u : Becomes(p, u) /\ Follows(u, t, "settle", {"child", "session"})
                 /\ Wrote(u, t, "child", "completed")
    BY <1>0, <1>2, RowNames, GoPutLocked DEF StepEvent, TxPcs, RowVals
  <2>2. TxOK(u)
    BY <1>0, <1>2, <2>1, RowNames
    DEF Follows, Wrote, TxOK, Shape, LocksFit, MemoryFits, RoomKept, WaitFits, EndFits, CancelFits, MemKeys
  <2>3. "child" \in t.locks
    BY <1>0, <1>2 DEF TxOK, LocksFit, RunOf
  <2> QED
    BY <1>0, <2>1, <2>2, <2>3, BecomesOK, Here DEF Follows
<1> QED
  BY <1>0, <1>1, <1>2

LEMMA CreateWaitOK ==
  ASSUME SessionInv, NEW p \in Txs, CreateWait(p)
  PROVE  SessionInv'
<1> DEFINE t == tx[p]
<1>0. t.pc = "create" /\ TxOK(t) /\ t \in TxRecords /\ ~Held(p, "wait") /\ t.kind = "wait"
      /\ "wait" \notin DOMAIN t.writes
  BY Here, RowNames DEF CreateWait, At, TxOK, Shape, TxRecords, TxKinds, WaitFits, MemKeys
<1>1. View(p, "wait") = db["wait"] /\ db["parent"] = "running"
  BY <1>0 DEF View, TxOK, WaitFits
<1>2. CASE db["wait"] # Absent /\ Go(p, "evaluate", t)
  <2>0. db["wait"] = "resolved"
    BY <1>1, <1>2 DEF SessionInv, RowsFit, WaitAndRuns
  <2>1. PICK u : Becomes(p, u) /\ Follows(u, t, "evaluate", {}) /\ Kept(u, t)
    BY <1>0, <1>2, GoSame DEF TxPcs
  <2>2. TxOK(u)
    BY <1>0, <1>1, <2>0, <2>1, RowNames
    DEF Follows, Kept, TxOK, Shape, LocksFit, MemoryFits, RoomKept, WaitFits, EndFits, CancelFits, MemKeys
  <2> QED
    BY <1>0, <2>1, <2>2, BecomesOK, Here DEF Follows
<1>3. CASE Go(p, "evaluate", Put(t, "wait", "open"))
  <2>1. PICK u : Becomes(p, u) /\ Follows(u, t, "evaluate", {"wait"}) /\ Wrote(u, t, "wait", "open")
    BY <1>0, <1>3, RowNames, GoPut DEF TxPcs, RowVals
  <2>2. TxOK(u)
    BY <1>0, <1>1, <2>1, RowNames
    DEF Follows, Wrote, TxOK, Shape, LocksFit, MemoryFits, RoomKept, WaitFits, EndFits, CancelFits, MemKeys
  <2> QED
    BY <1>0, <2>1, <2>2, BecomesOK, Here DEF Follows
<1> QED
  BY <1>1, <1>2, <1>3 DEF CreateWait

\* A wait that is resolved already is in nobody's hands: who could have locked
\* it holds the parent too, or ends a child that is running still.
LEMMA EvaluateOK ==
  ASSUME SessionInv, NEW p \in Txs, Evaluate(p)
  PROVE  SessionInv'
<1> DEFINE t == tx[p]
<1>0. t.pc = "evaluate" /\ TxOK(t) /\ t \in TxRecords /\ t.kind = "wait"
      /\ "child" \notin DOMAIN t.writes /\ "parent" \in t.locks /\ "session" \in t.locks
  BY Here DEF Evaluate, At, TxOK, Shape, TxRecords, TxKinds, WaitFits, LocksFit, RunOf
<1>1. View(p, "child") = db["child"] /\ db["parent"] = "running"
  BY <1>0 DEF View, TxOK, WaitFits
<1>2. ASSUME NEW q \in Txs, q # p
      PROVE  "wait" \notin tx[q].locks
  <2>1. CASE "wait" \in t.locks
    BY <1>2, <2>1 DEF SessionInv, Exclusive
  <2>2. CASE "wait" \notin t.locks
    <3>1. Terminal(db["child"])
      BY <1>0, <2>2 DEF SessionInv, WaitAndRuns, TxOK, WaitFits, LocksFit
    <3>2. "parent" \notin tx[q].locks
      BY <1>0, <1>2 DEF SessionInv, Exclusive
    <3>3. TxOK(tx[q])
      BY DEF SessionInv
    <3> QED
      BY <3>1, <3>2, <3>3 DEF TxOK, LocksFit, EndFits, RunOf, Terminal
  <2> QED
    BY <2>1, <2>2
<1>3. CASE Terminal(db["child"]) /\ Go(p, "commit", Put(t, "wait", "resolved"))
  <2>1. PICK u : Becomes(p, u) /\ Follows(u, t, "commit", {"wait"}) /\ Wrote(u, t, "wait", "resolved")
    BY <1>0, <1>3, RowNames, GoPut DEF TxPcs, RowVals
  <2>2. TxOK(u)
    BY <1>0, <1>1, <1>3, <2>1, RowNames
    DEF Follows, Wrote, TxOK, Shape, LocksFit, MemoryFits, RoomKept, WaitFits, EndFits, CancelFits, MemKeys
  <2> QED
    BY <1>2, <2>1, <2>2, BecomesOK DEF Follows
<1>4. CASE ~Terminal(db["child"]) /\ Go(p, "commit", Put(t, "parent", "awaiting"))
  <2>0. "wait" \in DOMAIN t.writes /\ t.writes["wait"] = "open"
    BY <1>0, <1>4 DEF SessionInv, WaitAndRuns, TxOK, WaitFits
  <2>1. PICK u : Becomes(p, u) /\ Follows(u, t, "commit", {"parent"})
                 /\ Wrote(u, t, "parent", "awaiting")
    BY <1>0, <1>4, RowNames, GoPut DEF TxPcs, RowVals
  <2>2. TxOK(u)
    BY <1>0, <1>1, <1>4, <2>0, <2>1, RowNames
    DEF Follows, Wrote, TxOK, Shape, LocksFit, MemoryFits, RoomKept, WaitFits, EndFits, CancelFits, MemKeys
  <2> QED
    BY <1>0, <2>1, <2>2, BecomesOK DEF Follows
<1> QED
  BY <1>1, <1>3, <1>4 DEF Evaluate

LEMMA SettleOK ==
  ASSUME SessionInv, NEW p \in Txs, SettleTerminalRun(p)
  PROVE  SessionInv'
<1> DEFINE t == tx[p]
<1>0. t.pc = "settle" /\ TxOK(t) /\ t \in TxRecords /\ ~Held(p, "session")
      /\ t.kind \in {"finish", "fail"} /\ "wait" \notin DOMAIN t.writes
      /\ "parent" \notin DOMAIN t.writes
  BY Here, RowNames DEF SettleTerminalRun, At, TxOK, Shape, TxRecords, TxKinds, EndFits, MemKeys
<1>1. PICK pc \in {"close", "commit"} : /\ Go(p, pc, Locked(t, "session"))
                                        /\ pc = "commit" => db["wait"] # "open"
  BY <1>0 DEF SettleTerminalRun, View
<1>2. PICK u : Becomes(p, u) /\ Follows(u, t, pc, {"session"}) /\ Kept(u, t)
  BY <1>0, <1>1, RowNames, GoLocked DEF TxPcs
<1>3. TxOK(u)
  BY <1>0, <1>1, <1>2, RowNames
  DEF Follows, Kept, TxOK, Shape, LocksFit, MemoryFits, RoomKept, WaitFits, EndFits, CancelFits
<1> QED
  BY <1>0, <1>2, <1>3, BecomesOK, Here DEF Follows

LEMMA CloseOK ==
  ASSUME SessionInv, NEW p \in Txs, TryCloseWait(p)
  PROVE  SessionInv'
<1> DEFINE t == tx[p]
<1>0. t.pc = "close" /\ TxOK(t) /\ t \in TxRecords /\ ~Held(p, "wait")
      /\ t.kind \in {"finish", "fail"} /\ "wait" \notin DOMAIN t.writes
      /\ "parent" \notin DOMAIN t.writes
  BY Here, RowNames DEF TryCloseWait, At, TxOK, Shape, TxRecords, TxKinds, EndFits, MemKeys
<1>1. View(p, "wait") = db["wait"]
  BY <1>0 DEF View
<1>2. CASE db["wait"] = "open" /\ Go(p, "resume", Put(t, "wait", "resolved"))
  <2>1. PICK u : Becomes(p, u) /\ Follows(u, t, "resume", {"wait"}) /\ Wrote(u, t, "wait", "resolved")
    BY <1>0, <1>2, RowNames, GoPut DEF TxPcs, RowVals
  <2>2. TxOK(u)
    BY <1>0, <1>2, <2>1, RowNames
    DEF Follows, Wrote, TxOK, Shape, LocksFit, MemoryFits, RoomKept, WaitFits, EndFits, CancelFits, MemKeys
  <2> QED
    BY <1>0, <2>1, <2>2, BecomesOK, Here DEF Follows
<1>3. CASE db["wait"] # "open" /\ Go(p, "commit", Locked(t, "wait"))
  <2>1. PICK u : Becomes(p, u) /\ Follows(u, t, "commit", {"wait"}) /\ Kept(u, t)
    BY <1>0, <1>3, RowNames, GoLocked DEF TxPcs
  <2>2. TxOK(u)
    BY <1>0, <1>3, <2>1, RowNames
    DEF Follows, Kept, TxOK, Shape, LocksFit, MemoryFits, RoomKept, WaitFits, EndFits, CancelFits
  <2> QED
    BY <1>0, <2>1, <2>2, BecomesOK, Here DEF Follows
<1> QED
  BY <1>1, <1>2, <1>3 DEF TryCloseWait

LEMMA ResumeOK ==
  ASSUME SessionInv, NEW p \in Txs, ResumeParent(p)
  PROVE  SessionInv'
<1> DEFINE t == tx[p]
<1>0. t.pc = "resume" /\ TxOK(t) /\ t \in TxRecords /\ ~Held(p, "parent")
      /\ t.kind \in {"finish", "fail"} /\ "parent" \notin DOMAIN t.writes /\ db["wait"] = "open"
  BY Here DEF ResumeParent, At, TxOK, Shape, TxRecords, TxKinds, EndFits
<1>1. View(p, "parent") = "awaiting"
  BY <1>0 DEF View, SessionInv, WaitAndRuns
<1>2. Go(p, "commit", Put(t, "parent", "running"))
  BY <1>1 DEF ResumeParent, Terminal
<1>3. PICK u : Becomes(p, u) /\ Follows(u, t, "commit", {"parent"}) /\ Wrote(u, t, "parent", "running")
  BY <1>0, <1>2, RowNames, GoPut DEF TxPcs, RowVals
<1>4. TxOK(u)
  BY <1>0, <1>3, RowNames
  DEF Follows, Wrote, TxOK, Shape, LocksFit, MemoryFits, RoomKept, WaitFits, EndFits, CancelFits, MemKeys
<1> QED
  BY <1>0, <1>3, <1>4, BecomesOK, Here DEF Follows

LEMMA AbandonOK ==
  ASSUME SessionInv, NEW p \in Txs, AbandonWaits(p)
  PROVE  SessionInv'
<1> DEFINE t == tx[p]
<1>0. t.pc = "abandon" /\ TxOK(t) /\ t \in TxRecords /\ ~Held(p, "wait")
      /\ t.kind = "cancel" /\ "wait" \notin DOMAIN t.writes /\ db["parent"] = "awaiting"
  BY Here DEF AbandonWaits, At, TxOK, Shape, TxRecords, TxKinds, CancelFits
<1>1. View(p, "wait") = "open"
  BY <1>0 DEF View, SessionInv, WaitAndRuns
<1>2. Go(p, "cancelled", Put(t, "wait", "abandoned"))
  BY <1>1 DEF AbandonWaits
<1>3. PICK u : Becomes(p, u) /\ Follows(u, t, "cancelled", {"wait"})
               /\ Wrote(u, t, "wait", "abandoned")
  BY <1>0, <1>2, RowNames, GoPut DEF TxPcs, RowVals
<1>4. TxOK(u)
  BY <1>0, <1>3, RowNames
  DEF Follows, Wrote, TxOK, Shape, LocksFit, MemoryFits, RoomKept, WaitFits, EndFits, CancelFits
<1> QED
  BY <1>0, <1>3, <1>4, BecomesOK, Here DEF Follows

LEMMA CancelledOK ==
  ASSUME SessionInv, NEW p \in Txs, CancelledEvent(p)
  PROVE  SessionInv'
<1> DEFINE t == tx[p]
<1>0. t.pc = "cancelled" /\ TxOK(t) /\ t \in TxRecords /\ ~Held(p, "session") /\ t.kind = "cancel"
  BY Here DEF CancelledEvent, At, TxOK, Shape, TxRecords, TxKinds
<1>1. PICK u : Becomes(p, u) /\ Follows(u, t, "commit", {"session"}) /\ Kept(u, t)
  BY <1>0, RowNames, GoLocked DEF CancelledEvent, TxPcs
<1>2. TxOK(u)
  BY <1>0, <1>1, RowNames
  DEF Follows, Kept, TxOK, Shape, LocksFit, MemoryFits, RoomKept, WaitFits, EndFits, CancelFits
<1> QED
  BY <1>0, <1>1, <1>2, BecomesOK, Here DEF Follows

-----------------------------------------------------------------------------
(***************************************************************************)
(* Commit.  The rows a transaction has written become the rows of all.     *)
(***************************************************************************)

LEMMA CommitRows ==
  ASSUME SessionInv, NEW p \in Txs, Commit(p)
  PROVE  /\ TxOK(tx[p]) /\ tx[p].pc = "commit"
         /\ tx[p].kind \in {"set", "delete", "labels", "wait", "finish", "fail", "cancel"}
         /\ DOMAIN tx[p].writes \subseteq Rows
         /\ \A r \in Rows : db'[r] = IF r \in DOMAIN tx[p].writes THEN tx[p].writes[r] ELSE db[r]
         /\ \A r \in DOMAIN tx[p].writes : tx[p].writes[r] \in RowVals
<1>1. TxOK(tx[p]) /\ tx[p].pc = "commit" /\ tx[p].writes \in WriteSets
  BY Here DEF Commit, At, TxRecords
<1>2. PICK D \in SUBSET Rows : tx[p].writes \in [D -> RowVals]
  BY <1>1 DEF WriteSets
<1>3. tx[p].kind \in {"set", "delete", "labels", "wait", "finish", "fail", "cancel"}
  BY <1>1 DEF TxOK, Shape, TxRecords, TxKinds
<1> QED
  BY <1>1, <1>2, <1>3 DEF Commit, View

\* The rows of runs and waits, and who can have moved them.
LEMMA CommitMoves ==
  ASSUME SessionInv, NEW p \in Txs, Commit(p)
  PROVE  /\ \A q \in Txs : q # p => \A r \in tx[q].locks \cap Rows : db'[r] = db[r]
         /\ \/ db'["child"] = db["child"]
            \/ tx[p].kind \in {"finish", "fail"} /\ "session" \in tx[p].locks /\ "child" \in tx[p].locks
               /\ db["child"] = "running" /\ db'["child"] \in {"completed", "failed"}
         /\ \/ db'["wait"] = db["wait"]
            \/ tx[p].kind = "wait" /\ "session" \in tx[p].locks /\ "parent" \in tx[p].locks
            \/ db["wait"] = "open" /\ db'["wait"] \in {"resolved", "abandoned"}
         /\ "memory" \notin tx[p].locks => \A k \in MemKeys : db'[k] = db[k]
<1>0. /\ TxOK(tx[p]) /\ tx[p].pc = "commit"
      /\ tx[p].kind \in {"set", "delete", "labels", "wait", "finish", "fail", "cancel"}
      /\ DOMAIN tx[p].writes \subseteq Rows
      /\ \A r \in Rows : db'[r] = IF r \in DOMAIN tx[p].writes THEN tx[p].writes[r] ELSE db[r]
  BY CommitRows
<1>1. \A q \in Txs : q # p => \A r \in tx[q].locks \cap Rows : db'[r] = db[r]
  BY <1>0 DEF SessionInv, Exclusive, TxOK, LocksFit
<1>2. \/ db'["child"] = db["child"]
      \/ tx[p].kind \in {"finish", "fail"} /\ "session" \in tx[p].locks /\ "child" \in tx[p].locks
         /\ db["child"] = "running" /\ db'["child"] \in {"completed", "failed"}
  BY <1>0, RowNames DEF TxOK, LocksFit, MemoryFits, WaitFits, EndFits, CancelFits, Shape, RunOf, MemKeys
<1>3. \/ db'["wait"] = db["wait"]
      \/ tx[p].kind = "wait" /\ "session" \in tx[p].locks /\ "parent" \in tx[p].locks
      \/ db["wait"] = "open" /\ db'["wait"] \in {"resolved", "abandoned"}
  <2>1. tx[p].kind = "cancel" => db["wait"] = "open"
    BY <1>0 DEF TxOK, CancelFits, SessionInv, WaitAndRuns
  <2> QED
    BY <1>0, <2>1, RowNames DEF TxOK, LocksFit, MemoryFits, WaitFits, EndFits, CancelFits, Shape, RunOf, MemKeys
<1>4. ASSUME "memory" \notin tx[p].locks, NEW k \in MemKeys
      PROVE  db'[k] = db[k]
  BY <1>0, <1>4, RowNames DEF TxOK, LocksFit, MemoryFits, Shape
<1> QED
  BY <1>1, <1>2, <1>3, <1>4

LEMMA CommitWaits ==
  ASSUME SessionInv, NEW p \in Txs, Commit(p)
  PROVE  RowsFit' /\ WaitAndRuns'
<1> DEFINE t == tx[p]
<1>0. /\ TxOK(t) /\ t.pc = "commit"
      /\ t.kind \in {"set", "delete", "labels", "wait", "finish", "fail", "cancel"}
      /\ DOMAIN t.writes \subseteq Rows
      /\ \A r \in Rows : db'[r] = IF r \in DOMAIN t.writes THEN t.writes[r] ELSE db[r]
      /\ \A r \in DOMAIN t.writes : t.writes[r] \in RowVals
  BY CommitRows
<1>1. db' \in [Rows -> RowVals]
  <2>1. db' = [r \in Rows |-> View(p, r)]
    BY DEF Commit
  <2>2. \A r \in Rows : db'[r] \in RowVals
    BY <1>0 DEF SessionInv, RowsFit
  <2> QED
    BY <2>1, <2>2
<1>2. CASE t.kind \in {"set", "delete", "labels"}
  <2>1. /\ \A k \in MemKeys : db'[k] = db[k] \/ db'[k] \in Values \cup {Absent}
        /\ db'["labels"] = db["labels"] \/ db'["labels"] \in Values
        /\ db'["parent"] = db["parent"] /\ db'["child"] = db["child"] /\ db'["wait"] = db["wait"]
    BY <1>0, <1>2, RowNames DEF TxOK, MemoryFits, Shape, TxRecords, MemKeys
  <2> QED
    BY <1>1, <2>1 DEF SessionInv, RowsFit, WaitAndRuns
<1>3. CASE t.kind \in {"wait", "finish", "fail", "cancel"}
  <2>1. /\ \A k \in MemKeys : db'[k] = db[k] \/ db'[k] \in Values
        /\ db'["labels"] = db["labels"]
    BY <1>0, <1>3, RowNames DEF TxOK, MemoryFits, Shape, MemKeys, Values
  <2>2. CASE t.kind = "wait"
    BY <1>0, <1>1, <2>1, <2>2, RowNames DEF SessionInv, RowsFit, WaitAndRuns, TxOK, WaitFits, Terminal
  <2>3. CASE t.kind \in {"finish", "fail"}
    BY <1>0, <1>1, <2>1, <2>3, RowNames DEF SessionInv, RowsFit, WaitAndRuns, TxOK, EndFits, Terminal
  <2>4. CASE t.kind = "cancel"
    <3>1. "child" \notin DOMAIN t.writes
      BY <1>0, <2>4, RowNames DEF TxOK, MemoryFits
    <3> QED
      BY <1>0, <1>1, <2>1, <2>4, <3>1, RowNames
      DEF SessionInv, RowsFit, WaitAndRuns, TxOK, CancelFits, Terminal
  <2> QED
    BY <1>3, <2>2, <2>3, <2>4
<1> QED
  BY <1>0, <1>2, <1>3

\* One memory key at most is new, and there was room for it.
LEMMA CommitRoom ==
  ASSUME SessionInv, NEW p \in Txs, Commit(p)
  PROVE  RoomInv'
<1> DEFINE t == tx[p]
<1>0. /\ TxOK(t) /\ t.pc = "commit"
      /\ t.kind \in {"set", "delete", "labels", "wait", "finish", "fail", "cancel"}
      /\ DOMAIN t.writes \subseteq Rows
      /\ \A r \in Rows : db'[r] = IF r \in DOMAIN t.writes THEN t.writes[r] ELSE db[r]
  BY CommitRows
<1>1. IsFiniteSet(Present0) /\ Cardinality(Present0) <= MaxMemoryKeys /\ Cardinality(Present0) \in Nat
  BY FS_CardinalityType DEF SessionInv, RoomInv
<1>2. CASE Present0' \subseteq Present0
  <2>1. IsFiniteSet(Present0') /\ Cardinality(Present0') <= Cardinality(Present0)
    BY <1>1, <1>2, FS_Subset
  <2>2. Cardinality(Present0') \in Nat
    BY <2>1, FS_CardinalityType
  <2> QED
    BY <1>1, <2>1, <2>2, SessionAssumption DEF RoomInv
<1>3. CASE ~(Present0' \subseteq Present0)
  <2>1. PICK k \in MemKeys : k \in Present0' /\ k \notin Present0
    BY <1>3 DEF Present0
  <2>2. k \in DOMAIN t.writes /\ t.writes[k] # Absent
    BY <1>0, <2>1, RowNames DEF Present0
  <2>3. k = t.key /\ t.kind \in {"set", "wait", "finish"}
        /\ DOMAIN t.writes \cap MemKeys = {k}
    BY <1>0, <2>2, RowNames DEF TxOK, MemoryFits, Shape, MemKeys
  <2>4. Cardinality(Present0) < MaxMemoryKeys
    BY <1>0, <2>1, <2>2, <2>3 DEF TxOK, RoomKept
  <2>5. Present0' \subseteq Present0 \cup {k}
    BY <1>0, <2>3, RowNames DEF Present0
  <2>6. IsFiniteSet(Present0 \cup {k}) /\ Cardinality(Present0 \cup {k}) = Cardinality(Present0) + 1
    BY <1>1, <2>1, FS_AddElement
  <2>7. IsFiniteSet(Present0') /\ Cardinality(Present0') <= Cardinality(Present0) + 1
    BY <2>5, <2>6, FS_Subset
  <2>8. Cardinality(Present0') \in Nat
    BY <2>7, FS_CardinalityType
  <2> QED
    BY <1>1, <2>4, <2>7, <2>8, SessionAssumption DEF RoomInv
<1> QED
  BY <1>2, <1>3

\* What another transaction has read under its locks is still so.
LEMMA CommitOthers ==
  ASSUME SessionInv, NEW p \in Txs, Commit(p), NEW q \in Txs, q # p
  PROVE  TxOK(tx[q])'
<1> DEFINE t == tx[q]
<1>0. TxOK(t) /\ tx'[q] = t
  BY DEF SessionInv, SessionTypes, Commit
<1>1. /\ \A r \in t.locks \cap Rows : db'[r] = db[r]
      /\ \/ db'["child"] = db["child"]
         \/ tx[p].kind \in {"finish", "fail"} /\ "session" \in tx[p].locks /\ "child" \in tx[p].locks
            /\ db["child"] = "running" /\ db'["child"] \in {"completed", "failed"}
      /\ \/ db'["wait"] = db["wait"]
         \/ tx[p].kind = "wait" /\ "session" \in tx[p].locks /\ "parent" \in tx[p].locks
         \/ db["wait"] = "open" /\ db'["wait"] \in {"resolved", "abandoned"}
      /\ "memory" \notin tx[p].locks => \A k \in MemKeys : db'[k] = db[k]
  BY CommitMoves
<1>2. \A l : l \in t.locks => l \notin tx[p].locks
  BY DEF SessionInv, Exclusive
<1>3. DOMAIN t.writes \subseteq t.locks
  BY <1>0 DEF TxOK, LocksFit
<1>4. (t \in TxRecords /\ Shape(t) /\ LocksFit(t) /\ MemoryFits(t))
      /\ (tx[q] \in TxRecords /\ Shape(tx[q]) /\ LocksFit(tx[q]) /\ MemoryFits(tx[q]))'
  BY <1>0 DEF TxOK, Shape, LocksFit, MemoryFits
<1>5. RoomKept(tx[q])'
  <2>1. SUFFICES ASSUME t.kind \in {"set", "wait", "finish"},
                        t.pc = "write" \/ t.key \in DOMAIN t.writes
                 PROVE  (t.key \in Present0 \/ Cardinality(Present0) < MaxMemoryKeys)'
    BY <1>0 DEF RoomKept
  <2>2. "memory" \in t.locks
    BY <1>0, <2>1, <1>4 DEF LocksFit, MemoryFits
  <2>3. Present0' = Present0
    BY <1>1, <1>2, <2>2 DEF Present0
  <2>4. t.key \in Present0 \/ Cardinality(Present0) < MaxMemoryKeys
    BY <1>0, <2>1 DEF TxOK, RoomKept
  <2> QED
    BY <1>0, <2>3, <2>4
<1>6. WaitFits(tx[q])'
  <2>1. SUFFICES ASSUME t.kind = "wait", t.pc # "run"
                 PROVE  WaitFits(tx[q])'
    BY <1>0 DEF WaitFits
  <2>2. "parent" \in t.locks /\ (t.pc = "commit" => "session" \in t.locks)
    BY <2>1, <1>4 DEF LocksFit, RunOf
  <2>3. db'["parent"] = db["parent"]
    BY <1>1, <2>2, RowNames
  <2>4. "wait" \notin t.locks /\ db["wait"] = "resolved" => db'["wait"] = "resolved"
    BY <1>1, <1>2, <2>2
  <2>5. t.pc = "commit" => (Terminal(db["child"]) <=> Terminal(db'["child"]))
    BY <1>1, <1>2, <2>2 DEF Terminal
  <2>6. WaitFits(t)
    BY <1>0 DEF TxOK
  <2>7. "wait" \in DOMAIN t.writes \/ db["wait"] = "resolved" => "wait" \in DOMAIN t.writes \/ db'["wait"] = "resolved"
    BY <1>1, <1>2, <2>2, <2>4, RowNames
  <2> QED
    BY <1>0, <2>1, <2>3, <2>5, <2>6, <2>7 DEF WaitFits
<1>7. EndFits(tx[q])'
  <2>1. SUFFICES ASSUME t.kind \in {"finish", "fail"}, t.pc # "run"
                 PROVE  EndFits(tx[q])'
    BY <1>0 DEF EndFits
  <2>2. "child" \in t.locks /\ (t.pc = "commit" => "session" \in t.locks)
    BY <2>1, <1>4 DEF LocksFit, RunOf
  <2>3. db'["child"] = db["child"]
    BY <1>1, <2>2, RowNames
  <2>4. "wait" \in DOMAIN t.writes => db'["wait"] = db["wait"]
    BY <1>1, <1>3, RowNames
  <2>5. t.pc = "commit" /\ db["wait"] # "open" => db'["wait"] # "open"
    BY <1>1, <1>2, <2>2
  <2>6. EndFits(t)
    BY <1>0 DEF TxOK
  <2> QED
    BY <1>0, <2>1, <2>3, <2>4, <2>5, <2>6 DEF EndFits
<1>8. CancelFits(tx[q])'
  <2>1. SUFFICES ASSUME t.kind = "cancel", t.pc # "run"
                 PROVE  CancelFits(tx[q])'
    BY <1>0 DEF CancelFits
  <2>2. "parent" \in t.locks
    BY <2>1, <1>4 DEF LocksFit, RunOf
  <2>3. db'["parent"] = db["parent"]
    BY <1>1, <2>2, RowNames
  <2> QED
    BY <1>0, <2>1, <2>3 DEF TxOK, CancelFits
<1> QED
  BY <1>4, <1>5, <1>6, <1>7, <1>8 DEF TxOK

LEMMA CommitOK ==
  ASSUME SessionInv, NEW p \in Txs, Commit(p)
  PROVE  SessionInv'
<1>1. tx' = [tx EXCEPT ![p] = [Idle EXCEPT !.pc = "end"]] /\ aborts' = aborts
  BY DEF Commit
<1>2. PICK u : tx' = [tx EXCEPT ![p] = u] /\ TxOK(u) /\ Blank(u, "none", "end", CostKey, "small")
  BY <1>1, OverOK
<1>3. /\ \A q \in Txs : q # p => tx'[q] = tx[q]
      /\ tx'[p] = u /\ DOMAIN tx' = Txs /\ tx' = [q \in Txs |-> tx'[q]]
  BY <1>2 DEF SessionInv, SessionTypes
<1>4. Exclusive'
  BY <1>2, <1>3 DEF SessionInv, Exclusive, Blank
<1>5. log' \in Seq(Events)
  BY Here DEF Commit, SessionInv, SessionTypes, TxRecords
<1>6. TxOK(tx[p])'
  BY <1>2, <1>3 DEF Blank, TxOK, Shape, LocksFit, MemoryFits, RoomKept, WaitFits, EndFits, CancelFits
<1> QED
  BY <1>1, <1>3, <1>4, <1>5, <1>6, CommitWaits, CommitRoom, CommitOthers DEF SessionInv, SessionTypes

LEMMA SessionInvStep ==
  ASSUME SessionInv, [SessionNext]_sessionVars
  PROVE  SessionInv'
<1>1. ASSUME NEW p \in Txs, Arrives(p)
      PROVE  SessionInv'
  BY <1>1, ArrivesOK
<1>2. ASSUME NEW p \in Txs, Statement(p)
      PROVE  SessionInv'
  <2>1. CASE DeadlockVictim(p)
    BY <2>1, RollbackOK DEF DeadlockVictim, SessionInv, SessionTypes
  <2> QED
    BY <1>2, <2>1, LockOK, CountOK, UpsertOK, RemoveOK, LabelsOK, EventOK, GetForUpdateOK, StepEventOK,
       CreateWaitOK, EvaluateOK, SettleOK, CloseOK, ResumeOK, AbandonOK, CancelledOK, CommitOK
    DEF Statement
<1>3. ASSUME NEW p \in Txs, Abort(p)
      PROVE  SessionInv'
  BY <1>3, RollbackOK, SessionAssumption DEF Abort, SessionInv, SessionTypes
<1>4. CASE UNCHANGED sessionVars
  <2>1. db' = db /\ log' = log /\ tx' = tx /\ aborts' = aborts
    BY <1>4 DEF sessionVars
  <2> QED
    BY <2>1 DEF SessionInv, RowsFit, WaitAndRuns, RoomInv, SessionTypes, Exclusive, TxOK, Shape, LocksFit,
       MemoryFits, RoomKept, Present0, WaitFits, EndFits, CancelFits
<1> QED
  BY <1>1, <1>2, <1>3, <1>4 DEF SessionNext

LEMMA SessionInvStart == SessionInit => SessionInv
<1> SUFFICES ASSUME SessionInit PROVE SessionInv
  OBVIOUS
<1>1. RowsFit /\ WaitAndRuns
  BY RowNames DEF SessionInit, RowsFit, WaitAndRuns, RowVals, Absent, Terminal, Values, MemKeys
<1>2. Present0 = {}
  BY RowNames DEF SessionInit, Present0
<1>3. RoomInv
  BY <1>2, FS_EmptySet, SessionAssumption DEF RoomInv
<1>4. log \in Seq(Events)
  BY DEF SessionInit
<1>5. \A p \in Txs : tx[p] = Idle
  BY DEF SessionInit
<1>6. DOMAIN tx = Txs /\ tx = [p \in Txs |-> tx[p]] /\ aborts \in 0 .. MaxAborts
  BY SessionAssumption DEF SessionInit
<1>7. TxOK(Idle)
  BY IdleBlank, BlankOK DEF TxKinds
<1>8. Exclusive
  BY <1>5, IdleBlank DEF Exclusive, Blank
<1> QED
  BY <1>1, <1>3, <1>4, <1>5, <1>6, <1>7, <1>8 DEF SessionInv, SessionTypes

LEMMA SessionInvHolds == SessionSpec => []SessionInv
<1>1. SessionInv /\ [SessionNext]_sessionVars => SessionInv'
  BY SessionInvStep
<1> QED
  BY <1>1, SessionInvStart, PTL DEF SessionSpec

\* Fan-in: no interleaving of a parent's step that begins to wait, the child's
\* end, a cancel, crashes and deadlock victims leaves an open wait behind a
\* child that has ended; not even while transactions are under way.
THEOREM ParentIsWokenHolds == SessionSpec => []ParentIsWoken
<1>1. SessionInv => ParentIsWoken
  BY DEF SessionInv, WaitAndRuns, ParentIsWoken
<1> QED
  BY <1>1, SessionInvHolds, PTL

-----------------------------------------------------------------------------
(***************************************************************************)
(* The log.  Only a commit changes it, and a commit that changes a key or  *)
(* the labels appends the event that says so.                              *)
(***************************************************************************)

Spoken == (Keys \ {CostKey}) \cup {"labels"}
About(r) == {n \in DOMAIN log : log[n].row = r}

\* That a session's log tells of row r, with the last event about it named.
Told(r) ==
    \/ About(r) = {} /\ db[r] = (IF r = "labels" THEN "small" ELSE Absent)
    \/ \E n \in About(r) :
          /\ \A m \in About(r) : m <= n
          /\ log[n].val = (IF r = "labels" THEN db[r] ELSE Inline(db[r]))
AllTold == \A r \in Spoken : Told(r)

LEMMA ToldIsTold ==
  ASSUME log \in Seq(Events), AllTold
  PROVE  LogTellsState
<1> SUFFICES ASSUME NEW r \in Spoken
             PROVE  IF About(r) = {} THEN db[r] = (IF r = "labels" THEN "small" ELSE Absent)
                    ELSE log[CHOOSE n \in About(r) : \A m \in About(r) : m <= n].val
                           = (IF r = "labels" THEN db[r] ELSE Inline(db[r]))
  BY Zenon DEF LogTellsState, Spoken, About
<1>1. CASE About(r) = {}
  BY <1>1 DEF AllTold, Told
<1>2. CASE About(r) # {}
  <2> DEFINE last == CHOOSE n \in About(r) : \A m \in About(r) : m <= n
  <2>1. PICK n \in About(r) : /\ \A m \in About(r) : m <= n
                             /\ log[n].val = (IF r = "labels" THEN db[r] ELSE Inline(db[r]))
    BY <1>2 DEF AllTold, Told
  <2>2. last \in About(r) /\ \A m \in About(r) : m <= last
    BY <2>1
  <2>3. About(r) \subseteq Nat
    BY DEF About
  <2>4. last = n
    <3> HIDE DEF last
    <3> QED
      BY <2>1, <2>2, <2>3
  <2> QED
    BY <1>2, <2>1, <2>4
<1> QED
  BY <1>1, <1>2

LEMMA OnlyCommitTells ==
  ASSUME [SessionNext]_sessionVars
  PROVE  (db' = db /\ log' = log) \/ \E p \in Txs : Commit(p)
<1>1. ASSUME NEW p \in Txs, Arrives(p)
      PROVE  db' = db /\ log' = log
  BY <1>1 DEF Arrives, SetMemory, DeleteMemory, UpdateSessionLabels, CommitOutcome, FailRun, CancelRun,
     Begin, Go
<1>2. ASSUME NEW p \in Txs, Statement(p), ~Commit(p)
      PROVE  db' = db /\ log' = log
  <2>1. CASE GetForUpdate(p)
    BY <2>1, Zenon DEF GetForUpdate, Go, End
  <2> QED
    BY <1>2, <2>1 DEF Statement, Lock, Count, Upsert, RemoveKey, UpdateLabels, AppendMemoryEvent,
       StepEvent, CreateWait, Evaluate, SettleTerminalRun, TryCloseWait, ResumeParent, AbandonWaits,
       CancelledEvent, DeadlockVictim, Rollback, Go, End
<1>3. ASSUME NEW p \in Txs, Abort(p)
      PROVE  db' = db /\ log' = log
  BY <1>3 DEF Abort, Rollback
<1>4. CASE UNCHANGED sessionVars
  BY <1>4 DEF sessionVars
<1> QED
  BY <1>1, <1>2, <1>3, <1>4 DEF SessionNext

LEMMA CommitTells ==
  ASSUME SessionInv, NEW p \in Txs, Commit(p), AllTold, NEW r \in Spoken
  PROVE  Told(r)'
<1> DEFINE t == tx[p]
<1>0. /\ TxOK(t) /\ t.pc = "commit"
      /\ t.kind \in {"set", "delete", "labels", "wait", "finish", "fail", "cancel"}
      /\ DOMAIN t.writes \subseteq Rows
      /\ \A x \in Rows : db'[x] = IF x \in DOMAIN t.writes THEN t.writes[x] ELSE db[x]
  BY CommitRows
<1>1. r \in Rows /\ r # CostKey /\ r \notin {"parent", "child", "wait"}
  BY RowNames DEF Spoken, MemKeys, CostKey
<1>2. log \in Seq(Events) /\ log' = log \o t.events
  BY DEF SessionInv, SessionTypes, Commit
<1>3. CASE r \notin DOMAIN t.writes /\ About(r)' = About(r)
           /\ \A n \in About(r) : log'[n] = log[n]
  <2>1. db'[r] = db[r]
    BY <1>0, <1>1, <1>3
  <2>2. Told(r)
    BY DEF AllTold
  <2> QED
    BY <1>3, <2>1, <2>2 DEF Told
<1>4. CASE t.kind \in {"wait", "finish", "fail", "cancel"}
  <2>1. r \notin DOMAIN t.writes /\ t.events = <<>>
    BY <1>0, <1>1, <1>4 DEF TxOK, MemoryFits
  <2>2. log' = log
    BY <1>2, <2>1
  <2> QED
    BY <1>3, <2>1, <2>2 DEF About
<1>5. CASE t.kind \in {"set", "delete", "labels"}
  <2> DEFINE e == MemoryEvent(t)
             n == Len(log) + 1
  <2>0. /\ t.events = <<e>> /\ DOMAIN t.writes = {t.key}
        /\ t.writes[t.key] = (IF t.kind = "delete" THEN Absent ELSE t.val)
    BY <1>0, <1>5 DEF TxOK, MemoryFits
  <2>1. /\ e.row = t.key
        /\ e.val = (IF t.kind = "labels" THEN t.val ELSE Inline(t.writes[t.key]))
    BY DEF MemoryEvent
  <2>2. (t.key = "labels") <=> (t.kind = "labels")
    BY <1>0, <1>5, SessionAssumption DEF TxOK, Shape
  <2>e. e \in Events
    BY <1>0, <1>5, <2>0 DEF MemoryEvent, Events, Inline, Values, TxOK, Shape, MemoryFits, TxRecords, Absent
  <2> HIDE DEF e
  <2>3. /\ Len(log) \in Nat /\ DOMAIN log = 1 .. Len(log) /\ DOMAIN log' = 1 .. n
        /\ log'[n] = e /\ \A i \in 1 .. Len(log) : log'[i] = log[i]
    BY <1>2, <2>0, <2>1, <2>e
  <2>4. CASE r # t.key
    <3>1. About(r)' = About(r)
      BY <2>0, <2>1, <2>3, <2>4 DEF About
    <3> QED
      BY <1>3, <2>0, <2>1, <2>3, <2>4, <3>1 DEF About
  <2>5. CASE r = t.key
    <3>1. n \in About(r)' /\ \A m \in About(r)' : m <= n /\ m \in Nat
      BY <2>0, <2>1, <2>3, <2>5 DEF About
    <3>3. db'[r] = t.writes[t.key]
      BY <1>0, <1>1, <2>0, <2>1, <2>5
    <3> QED
      BY <2>0, <2>1, <2>2, <2>3, <2>5, <3>1, <3>3 DEF Told
  <2> QED
    BY <2>4, <2>5
<1> QED
  BY <1>0, <1>4, <1>5

\* However transactions of a session overlap, wait for one another, crash and
\* are rolled back: its memory is within its cap, and the last event about a
\* key or about the labels tells their value.
THEOREM SessionKeptHolds == SessionSpec => []SessionKept
<1>1. SessionInit => AllTold
  <2> SUFFICES ASSUME SessionInit, NEW r \in Spoken PROVE Told(r)
    BY DEF AllTold
  <2>1. DOMAIN log = {} /\ r \in Rows /\ r \notin {"parent", "child"}
    BY RowNames DEF SessionInit, Spoken, MemKeys
  <2> QED
    BY <2>1 DEF Told, About, SessionInit
<1>2. SessionInv /\ AllTold /\ [SessionNext]_sessionVars => AllTold'
  <2> SUFFICES ASSUME SessionInv, AllTold, [SessionNext]_sessionVars
               PROVE  AllTold'
    OBVIOUS
  <2>1. CASE db' = db /\ log' = log
    BY <2>1 DEF AllTold, Told, About
  <2>2. ASSUME NEW p \in Txs, Commit(p)
        PROVE  AllTold'
    <3>1. ASSUME NEW r \in Spoken
          PROVE  Told(r)'
      BY <2>2, <3>1, CommitTells
    <3> QED
      BY <3>1 DEF AllTold
  <2> QED
    BY <2>1, <2>2, OnlyCommitTells
<1>3. SessionInv /\ AllTold => SessionKept
  <2> SUFFICES ASSUME SessionInv, AllTold PROVE SessionTypeOK /\ MemoryCapped
    BY ToldIsTold DEF SessionKept, SessionInv, SessionTypes
  <2>1. MemoryCapped
    BY DEF SessionInv, RoomInv, Present0, MemKeys, MemoryCapped
  <2>2. \A n \in DOMAIN log : log[n].row \in Keys \cup {"labels"}
    <3>1. log \in Seq(Events)
      BY DEF SessionInv, SessionTypes
    <3>2. \A n \in DOMAIN log : log[n] \in Events
      BY <3>1
    <3> QED
      BY <3>2 DEF Events
  <2>3. ASSUME NEW p \in Txs
        PROVE  tx[p].locks \subseteq Locks /\ DOMAIN tx[p].writes \subseteq Rows
    <3>1. tx[p].locks \subseteq Locks /\ tx[p].writes \in WriteSets
      BY Here DEF TxRecords
    <3> QED
      BY <3>1 DEF WriteSets
  <2> QED
    BY <2>1, <2>2, <2>3 DEF SessionTypeOK, SessionInv, RowsFit, SessionTypes, MemKeys
<1> QED
  BY <1>1, <1>2, <1>3, SessionInvHolds, PTL DEF SessionSpec

-----------------------------------------------------------------------------
(***************************************************************************)
(* JobQueue, for every set of jobs and processes, every number of attempts *)
(* and every number of crashes, and for both backends.                     *)
(***************************************************************************)

RowStates == {"none", "open", "gone", "ready", "running", "done"}
JobRow  == [st : RowStates, att : Nat, max : Nat, due : BOOLEAN, cancel : BOOLEAN]
ProcRow == [pc : {"down", "idle", "claimed", "worked"}, job : Nat, ok : BOOLEAN,
            stopping : BOOLEAN]

(***************************************************************************)
(* Full types: QueueTypeOK speaks of the fields the run's faults could     *)
(* spoil, the proofs need every one.                                       *)
(***************************************************************************)
RowTypes ==
    /\ backend \in {"inproc", "river"}
    /\ job \in [Jobs -> JobRow]
    /\ proc \in [Procs -> ProcRow]
    /\ worked \subseteq Jobs
    /\ jobFaults \in 0 .. MaxFaults

(***************************************************************************)
(* The rows.  A job that is not committed has used nothing; one that waits *)
(* has an attempt left; only River marks a row while it is worked.         *)
(***************************************************************************)
Uncommitted(j) == job[j].st \in {"none", "open", "gone"}
RowInv ==
    \A j \in Jobs :
        /\ Uncommitted(j) => /\ job[j].att = 0 /\ job[j].max = MaxAttempts
                             /\ ~job[j].cancel /\ j \notin worked
        /\ job[j].att <= job[j].max
        /\ job[j].st = "ready" => job[j].att < job[j].max
        /\ job[j].st = "running" => backend = "river"

(***************************************************************************)
(* The hands.  The row of a job in hand says so in River's queue, and      *)
(* waits in inproc's, whose claim is the row's lock alone.  A handler that *)
(* returned without an error has been counted.                             *)
(***************************************************************************)
Busy(p) == proc[p].pc \in {"claimed", "worked"}
HandInv ==
    \A p \in Procs :
        /\ Busy(p) => /\ proc[p].job \in Jobs
                      /\ job[proc[p].job].st = IF backend = "inproc" THEN "ready" ELSE "running"
        /\ proc[p].pc = "worked" /\ proc[p].ok => proc[p].job \in worked

OneHand == \A p, q \in Procs : Busy(p) /\ Busy(q) /\ proc[p].job = proc[q].job => p = q

QueueInv == RowTypes /\ RowInv /\ HandInv /\ OneHand

-----------------------------------------------------------------------------
(* Steps that change one row and no process.                               *)

RowFits(r, j) ==
    /\ r.st \in {"none", "open", "gone"} =>
         r.att = 0 /\ r.max = MaxAttempts /\ ~r.cancel /\ j \notin worked
    /\ r.att <= r.max
    /\ r.st = "ready" => r.att < r.max
    /\ r.st = "running" => backend = "river"

LEMMA RowStep ==
  ASSUME QueueInv, NEW j \in Jobs, NEW r \in JobRow,
         job' = [job EXCEPT ![j] = r], backend' = backend, proc' = proc,
         worked' = worked \/ worked' = worked \ {j},
         jobFaults' \in 0 .. MaxFaults,
         RowFits(r, j),
         \A p \in Procs : InHand(p, j) => r.st = job[j].st /\ worked' = worked
  PROVE  QueueInv'
<1> USE DEF QueueInv
<1>1. RowTypes'
  BY DEF RowTypes
<1>2. \A x \in Jobs : x # j => job'[x] = job[x]
  BY DEF RowTypes
<1>3. job'[j] = r
  BY DEF RowTypes
<1>4. RowInv'
  <2> SUFFICES ASSUME NEW x \in Jobs
               PROVE  /\ Uncommitted(x)' => /\ job'[x].att = 0 /\ job'[x].max = MaxAttempts
                                            /\ ~job'[x].cancel /\ x \notin worked'
                      /\ job'[x].att <= job'[x].max
                      /\ job'[x].st = "ready" => job'[x].att < job'[x].max
                      /\ job'[x].st = "running" => backend' = "river"
    BY DEF RowInv
  <2>1. CASE x # j
    BY <1>2, <2>1 DEF RowInv, Uncommitted
  <2>2. CASE x = j
    BY <1>3, <2>2 DEF RowFits, Uncommitted
  <2> QED
    BY <2>1, <2>2
<1>5. HandInv'
  <2> SUFFICES ASSUME NEW p \in Procs
               PROVE  /\ Busy(p) =>
                           /\ proc[p].job \in Jobs
                           /\ job'[proc[p].job].st =
                                IF backend = "inproc" THEN "ready" ELSE "running"
                      /\ proc[p].pc = "worked" /\ proc[p].ok => proc[p].job \in worked'
    BY DEF HandInv, Busy
  <2>1. CASE InHand(p, j)
    BY <1>3, <2>1 DEF HandInv, InHand, Busy
  <2>2. CASE ~InHand(p, j)
    BY <1>2, <2>2 DEF HandInv, InHand, Busy
  <2> QED
    BY <2>1, <2>2
<1>6. OneHand'
  BY DEF OneHand, Busy
<1> QED
  BY <1>1, <1>4, <1>5, <1>6

(* Steps that change one process, and the row of its job at most.          *)

LEMMA FreedStep ==
  ASSUME QueueInv, NEW p \in Procs, NEW s \in ProcRow,
         proc' = [proc EXCEPT ![p] = s], s.pc \in {"down", "idle"},
         backend' = backend, worked' = worked, jobFaults' \in 0 .. MaxFaults,
         \/ job' = job
         \/ /\ Busy(p)
            /\ \E r \in JobRow : /\ job' = [job EXCEPT ![proc[p].job] = r]
                                 /\ RowFits(r, proc[p].job)
  PROVE  QueueInv'
<1> USE DEF QueueInv
<1>0. /\ \A q \in Procs : q # p => proc'[q] = proc[q]
      /\ proc'[p] = s
  BY DEF RowTypes
<1>1. RowTypes' /\ RowInv' /\ \A q \in Procs : q # p /\ Busy(q) => job'[proc[q].job] = job[proc[q].job]
  <2>1. CASE job' = job
    BY <2>1 DEF RowTypes, RowInv, Uncommitted
  <2>2. ASSUME Busy(p), NEW r \in JobRow, job' = [job EXCEPT ![proc[p].job] = r],
               RowFits(r, proc[p].job)
        PROVE  RowTypes' /\ RowInv'
                 /\ \A q \in Procs : q # p /\ Busy(q) => job'[proc[q].job] = job[proc[q].job]
    <3> DEFINE j == proc[p].job
    <3>1. j \in Jobs
      BY <2>2 DEF HandInv
    <3>2. RowTypes'
      BY <2>2, <3>1 DEF RowTypes
    <3>3. /\ \A x \in Jobs : x # j => job'[x] = job[x]
          /\ job'[j] = r
      BY <2>2, <3>1 DEF RowTypes
    <3>4. RowInv'
      <4> SUFFICES ASSUME NEW x \in Jobs
                   PROVE  /\ Uncommitted(x)' => /\ job'[x].att = 0 /\ job'[x].max = MaxAttempts
                                                /\ ~job'[x].cancel /\ x \notin worked'
                          /\ job'[x].att <= job'[x].max
                          /\ job'[x].st = "ready" => job'[x].att < job'[x].max
                          /\ job'[x].st = "running" => backend' = "river"
        BY DEF RowInv
      <4>1. CASE x # j
        BY <3>3, <4>1 DEF RowInv, Uncommitted
      <4>2. CASE x = j
        BY <2>2, <3>3, <4>2 DEF RowFits, Uncommitted
      <4> QED
        BY <4>1, <4>2
    <3>5. ASSUME NEW q \in Procs, q # p, Busy(q)
          PROVE  job'[proc[q].job] = job[proc[q].job]
      <4>1. proc[q].job # j /\ proc[q].job \in Jobs
        BY <2>2, <3>5 DEF OneHand, HandInv
      <4> QED
        BY <3>3, <4>1
    <3> QED
      BY <3>2, <3>4, <3>5
  <2> QED
    BY <2>1, <2>2
<1>2. HandInv'
  <2> SUFFICES ASSUME NEW q \in Procs
               PROVE  /\ Busy(q)' =>
                           /\ proc'[q].job \in Jobs
                           /\ job'[proc'[q].job].st =
                                IF backend = "inproc" THEN "ready" ELSE "running"
                      /\ proc'[q].pc = "worked" /\ proc'[q].ok => proc'[q].job \in worked
    BY DEF HandInv, Busy
  <2>1. CASE q = p
    BY <1>0, <2>1 DEF Busy
  <2>2. CASE q # p
    BY <1>0, <1>1, <2>2 DEF Busy, HandInv
  <2> QED
    BY <2>1, <2>2
<1>3. OneHand'
  BY <1>0 DEF OneHand, Busy
<1> QED
  BY <1>1, <1>2, <1>3

\* An attempt's outcome settles the job or leaves it an attempt.
LEMMA OutcomeFits ==
  ASSUME QueueInv, NEW j \in Jobs, ~Uncommitted(j), NEW ok \in BOOLEAN,
         NEW att \in Nat, att <= job[j].max
  PROVE  /\ Outcome(j, ok, att) \in JobRow
         /\ RowFits(Outcome(j, ok, att), j)
<1>0. job[j] \in JobRow
  BY DEF QueueInv, RowTypes
<1>1. CASE ok \/ job[j].cancel \/ att >= job[j].max
  <2>1. Outcome(j, ok, att) = [job[j] EXCEPT !.st = "done", !.att = att]
    BY <1>1 DEF Outcome
  <2> QED
    BY <1>0, <2>1 DEF JobRow, RowFits, RowStates
<1>2. CASE ~(ok \/ job[j].cancel \/ att >= job[j].max)
  <2>1. Outcome(j, ok, att) = [job[j] EXCEPT !.st = "ready", !.att = att, !.due = FALSE]
    BY <1>2 DEF Outcome
  <2>2. att < job[j].max
    BY <1>0, <1>2 DEF JobRow
  <2> QED
    BY <1>0, <2>1, <2>2 DEF JobRow, RowFits, RowStates
<1> QED
  BY <1>1, <1>2

LEMMA FaultCounted ==
  ASSUME QueueInv, Fault
  PROVE  jobFaults' \in 0 .. MaxFaults
BY JobAssumption DEF QueueInv, RowTypes, Fault

\* Producers, the clock, the rescuer and the operator.
LEMMA RowActions ==
  ASSUME QueueInv, NEW j \in Jobs, Produce(j) \/ Maintain(j) \/ JobCancel(j) \/ JobRetry(j)
  PROVE  QueueInv'
<1>0. /\ job[j] \in JobRow /\ job \in [Jobs -> JobRow] /\ jobFaults \in 0 .. MaxFaults
      /\ NoJob \in JobRow
  BY JobAssumption DEF QueueInv, RowTypes, NoJob, JobRow, RowStates
<1>1. \A p \in Procs : InHand(p, j) => job[j].st \in {"ready", "running"}
  BY DEF QueueInv, HandInv, InHand, Busy
<1>2. CASE EnqueueTx(j)
  <2>1. PICK due \in BOOLEAN : job' = [job EXCEPT ![j] = [NoJob EXCEPT !.st = "open", !.due = due]]
    BY <1>2 DEF EnqueueTx
  <2> DEFINE r == [NoJob EXCEPT !.st = "open", !.due = due]
  <2>2. r \in JobRow /\ r.att = 0 /\ r.max = MaxAttempts /\ ~r.cancel /\ r.st = "open"
    BY <1>0 DEF NoJob, JobRow, RowStates
  <2>3. j \notin worked /\ job[j].st = "none" /\ UNCHANGED <<backend, proc, worked, jobFaults>>
    BY <1>2 DEF EnqueueTx, QueueInv, RowInv, Uncommitted
  <2>4. RowFits(r, j)
    BY <2>2, <2>3, JobAssumption DEF RowFits
  <2> HIDE DEF r
  <2> QED
    BY <1>0, <1>1, <2>1, <2>2, <2>3, <2>4, RowStep DEF r
<1>3. CASE CommitEnqueue(j)
  <2> DEFINE r == [job[j] EXCEPT !.st = "ready"]
  <2>1. /\ job[j].st = "open" /\ job' = [job EXCEPT ![j] = r]
        /\ UNCHANGED <<backend, proc, worked, jobFaults>>
    BY <1>0, <1>3 DEF CommitEnqueue
  <2>2. r \in JobRow /\ r.att = 0 /\ r.max = MaxAttempts /\ r.st = "ready"
    BY <1>0, <2>1 DEF QueueInv, RowInv, Uncommitted, JobRow, RowStates
  <2>3. RowFits(r, j)
    BY <2>2, JobAssumption DEF RowFits
  <2> HIDE DEF r
  <2> QED
    BY <1>0, <1>1, <2>1, <2>2, <2>3, RowStep
<1>4. CASE RollbackEnqueue(j)
  <2> DEFINE r == [NoJob EXCEPT !.st = "gone"]
  <2>1. /\ job[j].st = "open" /\ job' = [job EXCEPT ![j] = r]
        /\ UNCHANGED <<backend, proc, worked, jobFaults>>
    BY <1>4 DEF RollbackEnqueue
  <2>2. r \in JobRow /\ r.att = 0 /\ r.max = MaxAttempts /\ ~r.cancel /\ r.st = "gone"
    BY <1>0 DEF NoJob, JobRow, RowStates
  <2>3. RowFits(r, j)
    BY <2>1, <2>2, JobAssumption DEF RowFits, QueueInv, RowInv, Uncommitted
  <2> HIDE DEF r
  <2> QED
    BY <1>0, <1>1, <2>1, <2>2, <2>3, RowStep
<1>5. CASE Clock(j)
  <2> DEFINE r == [job[j] EXCEPT !.due = TRUE]
  <2>1. /\ job[j].st = "ready" /\ job' = [job EXCEPT ![j] = r]
        /\ UNCHANGED <<backend, proc, worked, jobFaults>>
    BY <1>0, <1>5 DEF Clock
  <2>2. r \in JobRow /\ r.att = job[j].att /\ r.max = job[j].max /\ r.st = "ready"
    BY <1>0, <2>1 DEF JobRow, RowStates
  <2>3. RowFits(r, j)
    BY <2>1, <2>2 DEF RowFits, QueueInv, RowInv
  <2> HIDE DEF r
  <2> QED
    BY <1>0, <1>1, <2>1, <2>2, <2>3, RowStep
<1>6. CASE Rescue(j)
  <2> DEFINE r == Outcome(j, FALSE, job[j].att)
  <2>1. /\ job[j].st = "running" /\ job' = [job EXCEPT ![j] = r]
        /\ \A p \in Procs : ~InHand(p, j)
        /\ UNCHANGED <<backend, proc, worked, jobFaults>>
    BY <1>6 DEF Rescue, Abandoned
  <2>2. job[j].att \in Nat /\ job[j].att <= job[j].max /\ ~Uncommitted(j)
    BY <1>0, <2>1 DEF QueueInv, RowInv, JobRow, Uncommitted
  <2>3. r \in JobRow /\ RowFits(r, j)
    BY <2>2, OutcomeFits
  <2> HIDE DEF r
  <2> QED
    BY <1>0, <2>1, <2>3, RowStep
<1>7. CASE JobCancel(j)
  <2>0. /\ backend = "river" /\ job[j].st \in {"ready", "running"} /\ Fault
        /\ UNCHANGED <<backend, proc, worked>>
    BY <1>7 DEF JobCancel
  <2>1. CASE job[j].st = "ready"
    <3> DEFINE r == [job[j] EXCEPT !.st = "done", !.cancel = TRUE]
    <3>1. job' = [job EXCEPT ![j] = r]
      BY <1>0, <1>7, <2>1 DEF JobCancel
    <3>2. r \in JobRow /\ r.att = job[j].att /\ r.max = job[j].max /\ r.st = "done"
      BY <1>0 DEF JobRow, RowStates
    <3>3. RowFits(r, j)
      BY <3>2 DEF RowFits, QueueInv, RowInv
    <3>4. \A p \in Procs : ~InHand(p, j)
      BY <2>0, <2>1 DEF QueueInv, HandInv, InHand, Busy
    <3> HIDE DEF r
    <3> QED
      BY <2>0, <3>1, <3>2, <3>3, <3>4, FaultCounted, RowStep
  <2>2. CASE job[j].st = "running"
    <3> DEFINE r == [job[j] EXCEPT !.cancel = TRUE]
    <3>1. job' = [job EXCEPT ![j] = r]
      BY <1>0, <1>7, <2>2 DEF JobCancel
    <3>2. r \in JobRow /\ r.att = job[j].att /\ r.max = job[j].max /\ r.st = job[j].st
      BY <1>0 DEF JobRow, RowStates
    <3>3. RowFits(r, j)
      BY <2>0, <2>2, <3>2 DEF RowFits, QueueInv, RowInv
    <3> HIDE DEF r
    <3> QED
      BY <2>0, <3>1, <3>2, <3>3, FaultCounted, RowStep
  <2> QED
    BY <2>0, <2>1, <2>2
<1>8. CASE JobRetry(j)
  <2> DEFINE m == IF job[j].att >= job[j].max THEN job[j].att + 1 ELSE job[j].max
             r == [job[j] EXCEPT !.st = "ready", !.due = TRUE, !.cancel = FALSE, !.max = m]
  <2>1. /\ backend = "river" /\ job[j].st \in {"ready", "done"} /\ Fault
        /\ job' = [job EXCEPT ![j] = r]
        /\ worked' = worked \ {j} /\ UNCHANGED <<backend, proc>>
    BY <1>0, <1>8 DEF JobRetry
  <2>2. m \in Nat /\ job[j].att < m
    BY <1>0 DEF JobRow
  <2>3. r \in JobRow /\ r.att = job[j].att /\ r.max = m /\ r.st = "ready"
    <3> HIDE DEF m
    <3> QED
      BY <1>0, <2>2 DEF JobRow, RowStates
  <2>4. RowFits(r, j)
    <3> HIDE DEF m, r
    <3>1. job[j].att \in Nat
      BY <1>0 DEF JobRow
    <3> QED
      BY <2>2, <2>3, <3>1 DEF RowFits
  <2>5. \A p \in Procs : ~InHand(p, j)
    BY <2>1 DEF QueueInv, HandInv, InHand, Busy
  <2> HIDE DEF r
  <2> QED
    BY <2>1, <2>3, <2>4, <2>5, FaultCounted, RowStep
<1> QED
  BY <1>2, <1>3, <1>4, <1>5, <1>6, <1>7, <1>8 DEF Produce, Maintain

\* A worker that lets go of its job, or has none.
LEMMA FreeingActions ==
  ASSUME QueueInv, NEW p \in Procs,
         \/ Start(p) \/ Finish(p) \/ RiverFinish(p) \/ Exit(p)
         \/ FinishFails(p) \/ Crash(p)
  PROVE  QueueInv'
<1>0. /\ proc[p] \in ProcRow /\ proc \in [Procs -> ProcRow] /\ jobFaults \in 0 .. MaxFaults
      /\ job \in [Jobs -> JobRow]
  BY DEF QueueInv, RowTypes
<1> DEFINE s == [Down EXCEPT !.pc = "idle", !.stopping = proc[p].stopping]
<1>1. Down \in ProcRow /\ Down.pc = "down" /\ s \in ProcRow /\ s.pc = "idle"
  BY <1>0 DEF Down, ProcRow
<1>2. Drop(p) = [proc EXCEPT ![p] = s]
  BY DEF Drop
<1> HIDE DEF s
<1>3. CASE Start(p)
  <2> DEFINE u == [proc[p] EXCEPT !.pc = "idle"]
  <2>1. u \in ProcRow /\ u.pc = "idle"
    BY <1>0 DEF ProcRow
  <2>2. proc' = [proc EXCEPT ![p] = u] /\ UNCHANGED <<backend, job, worked, jobFaults>>
    BY <1>0, <1>3 DEF Start
  <2> HIDE DEF u
  <2> QED
    BY <1>0, <2>1, <2>2, FreedStep
<1>4. CASE Exit(p)
  BY <1>0, <1>1, <1>4, FreedStep DEF Exit
<1>5. CASE Crash(p)
  BY <1>0, <1>1, <1>5, FreedStep, FaultCounted DEF Crash
<1>6. CASE FinishFails(p)
  BY <1>0, <1>1, <1>2, <1>6, FreedStep, FaultCounted DEF FinishFails
<1>7. CASE Finish(p) \/ RiverFinish(p)
  <2>1. /\ proc[p].pc = "worked" /\ Busy(p) /\ proc[p].ok \in BOOLEAN
        /\ proc' = [proc EXCEPT ![p] = s] /\ UNCHANGED <<backend, worked, jobFaults>>
    BY <1>0, <1>2, <1>7 DEF Finish, RiverFinish, Busy, ProcRow
  <2> DEFINE j == proc[p].job
  <2>2. /\ j \in Jobs /\ ~Uncommitted(j) /\ job[j] \in JobRow
        /\ job[j].st = IF backend = "inproc" THEN "ready" ELSE "running"
    BY <1>0, <2>1 DEF QueueInv, HandInv, Uncommitted
  <2>3. job[j].att \in Nat /\ job[j].max \in Nat /\ job[j].att <= job[j].max
    BY <2>2 DEF JobRow, QueueInv, RowInv
  <2>4. CASE Finish(p) /\ proc[p].stopping
    <3>1. job' = job
      BY <2>4 DEF Finish
    <3> QED
      BY <1>0, <1>1, <2>1, <3>1, FreedStep
  <2>5. CASE Finish(p) /\ ~proc[p].stopping
    <3>1. job' = [job EXCEPT ![j] = Outcome(j, proc[p].ok, job[j].att + 1)]
      BY <2>5 DEF Finish
    <3>2. job[j].att + 1 <= job[j].max
      BY <2>2, <2>3, <2>5 DEF QueueInv, RowInv, Finish
    <3>3. /\ Outcome(j, proc[p].ok, job[j].att + 1) \in JobRow
          /\ RowFits(Outcome(j, proc[p].ok, job[j].att + 1), j)
      BY <2>1, <2>2, <2>3, <3>2, OutcomeFits
    <3> QED
      BY <1>0, <1>1, <2>1, <3>1, <3>3, FreedStep
  <2>6. CASE RiverFinish(p)
    <3>1. job' = [job EXCEPT ![j] = Outcome(j, proc[p].ok, job[j].att)]
      BY <2>6 DEF RiverFinish
    <3>2. /\ Outcome(j, proc[p].ok, job[j].att) \in JobRow
          /\ RowFits(Outcome(j, proc[p].ok, job[j].att), j)
      BY <2>1, <2>2, <2>3, OutcomeFits
    <3> QED
      BY <1>0, <1>1, <2>1, <3>1, <3>2, FreedStep
  <2> QED
    BY <1>7, <2>4, <2>5, <2>6
<1> QED
  BY <1>3, <1>4, <1>5, <1>6, <1>7

\* A worker that takes a job, or has returned from it.
LEMMA HoldingActions ==
  ASSUME QueueInv, NEW p \in Procs, Claim(p) \/ Handle(p) \/ Stop(p)
  PROVE  QueueInv'
<1> USE DEF QueueInv
<1>0. /\ proc[p] \in ProcRow /\ proc \in [Procs -> ProcRow] /\ jobFaults \in 0 .. MaxFaults
      /\ job \in [Jobs -> JobRow] /\ worked \subseteq Jobs /\ backend \in {"inproc", "river"}
  BY DEF RowTypes
<1>1. CASE Stop(p)
  <2>1. /\ proc' = [proc EXCEPT ![p] = [proc[p] EXCEPT !.stopping = TRUE]]
        /\ UNCHANGED <<backend, job, worked>>
    BY <1>0, <1>1 DEF Stop
  <2>2. [proc[p] EXCEPT !.stopping = TRUE] \in ProcRow
    BY <1>0 DEF ProcRow
  <2>3. RowTypes'
    BY <1>0, <1>1, <2>1, <2>2, FaultCounted DEF RowTypes, Stop
  <2>4. \A q \in Procs : /\ proc'[q].pc = proc[q].pc /\ proc'[q].job = proc[q].job
                         /\ proc'[q].ok = proc[q].ok
    BY <1>0, <2>1 DEF ProcRow
  <2>5. RowInv' /\ HandInv' /\ OneHand'
    BY <2>1, <2>4 DEF RowInv, HandInv, OneHand, Busy, Uncommitted
  <2> QED
    BY <2>3, <2>5
<1>2. CASE Handle(p)
  <2>1. PICK ok \in BOOLEAN :
          /\ proc' = [proc EXCEPT ![p].pc = "worked", ![p].ok = ok]
          /\ worked' = IF ok THEN worked \cup {proc[p].job} ELSE worked
    BY <1>2 DEF Handle
  <2>2. /\ proc[p].pc = "claimed" /\ UNCHANGED <<backend, job, jobFaults>>
        /\ proc[p].job \in Jobs /\ ~Uncommitted(proc[p].job)
    BY <1>2 DEF Handle, HandInv, Busy, Uncommitted
  <2> DEFINE u == [proc[p] EXCEPT !.pc = "worked", !.ok = ok]
  <2>3. proc' = [proc EXCEPT ![p] = u] /\ u \in ProcRow /\ u.pc = "worked" /\ u.ok = ok
          /\ u.job = proc[p].job
    BY <1>0, <2>1 DEF ProcRow
  <2> HIDE DEF u
  <2>4. worked \subseteq worked' /\ worked' \subseteq Jobs
          /\ (ok => proc[p].job \in worked')
          /\ \A x \in Jobs : x \in worked' => x \in worked \/ x = proc[p].job
    BY <1>0, <2>1, <2>2
  <2>5. RowTypes'
    BY <1>0, <2>2, <2>3, <2>4 DEF RowTypes
  <2>6. proc'[p] = u /\ \A q \in Procs : q # p => proc'[q] = proc[q]
    BY <1>0, <2>3
  <2>7. RowInv'
    <3> SUFFICES ASSUME NEW x \in Jobs, Uncommitted(x)
                 PROVE  x \notin worked'
      BY <2>2 DEF RowInv, Uncommitted
    <3> QED
      BY <2>2, <2>4 DEF RowInv
  <2>8. HandInv'
    <3> SUFFICES ASSUME NEW q \in Procs
                 PROVE  /\ Busy(q)' =>
                             /\ proc'[q].job \in Jobs
                             /\ job[proc'[q].job].st =
                                  IF backend = "inproc" THEN "ready" ELSE "running"
                        /\ proc'[q].pc = "worked" /\ proc'[q].ok => proc'[q].job \in worked'
      BY <2>2 DEF HandInv
    <3>1. CASE q = p
      BY <2>2, <2>3, <2>4, <2>6, <3>1 DEF HandInv, Busy
    <3>2. CASE q # p
      BY <2>4, <2>6, <3>2 DEF HandInv, Busy
    <3> QED
      BY <3>1, <3>2
  <2>9. OneHand'
    BY <2>2, <2>3, <2>6 DEF OneHand, Busy
  <2> QED
    BY <2>5, <2>7, <2>8, <2>9
<1>3. CASE Claim(p)
  <2>1. PICK j \in Jobs :
          /\ Ready(j)
          /\ proc' = [proc EXCEPT ![p].pc = "claimed", ![p].job = j]
          /\ job' = IF backend = "inproc" THEN job
                    ELSE [job EXCEPT ![j].st = "running", ![j].att = @ + 1]
    BY <1>3 DEF Claim
  <2>2. /\ proc[p].pc = "idle" /\ UNCHANGED <<backend, worked, jobFaults>>
        /\ job[j].st = "ready" /\ job[j] \in JobRow /\ j \in Nat
    BY <1>0, <1>3, <2>1, JobAssumption DEF Claim, Ready
  <2> DEFINE u == [proc[p] EXCEPT !.pc = "claimed", !.job = j]
  <2>3. proc' = [proc EXCEPT ![p] = u] /\ u \in ProcRow /\ u.pc = "claimed" /\ u.job = j
    BY <1>0, <2>1, <2>2 DEF ProcRow
  <2> HIDE DEF u
  <2>4. proc'[p] = u /\ \A q \in Procs : q # p => proc'[q] = proc[q]
    BY <1>0, <2>3
  <2>5. \A q \in Procs : ~(Busy(q) /\ proc[q].job = j)
    <3>1. CASE backend = "inproc"
      BY <2>1, <3>1 DEF Ready, SkipLocked, InHand, Busy
    <3>2. CASE backend = "river"
      BY <2>2, <3>2 DEF HandInv
    <3> QED
      BY <1>0, <3>1, <3>2
  <2> DEFINE r == [job[j] EXCEPT !.st = "running", !.att = @ + 1]
  <2>6. /\ job[j].att \in Nat /\ job[j].max \in Nat /\ job[j].att < job[j].max
    BY <2>2 DEF RowInv, JobRow
  <2>7. r \in JobRow /\ r.st = "running" /\ r.att = job[j].att + 1 /\ r.max = job[j].max
    <3>1. ASSUME NEW a \in Nat
          PROVE  [job[j] EXCEPT !.st = "running", !.att = a] \in JobRow
      BY <2>2 DEF JobRow, RowStates
    <3>2. job[j].att + 1 \in Nat
      BY <2>6
    <3>3. r \in JobRow
      BY <3>1, <3>2, Zenon
    <3> QED
      BY <2>2, <3>3 DEF JobRow
  <2>8. backend # "inproc" => job' = [job EXCEPT ![j] = r]
    BY <1>0, <2>1
  <2> HIDE DEF r
  <2>9. /\ \A x \in Jobs : x # j => job'[x] = job[x]
        /\ backend = "inproc" => job' = job
        /\ backend = "river" => job'[j] = r
        /\ job' \in [Jobs -> JobRow]
    <3>1. CASE backend = "inproc"
      BY <1>0, <2>1, <3>1
    <3>2. CASE backend = "river"
      <4>1. job' = [job EXCEPT ![j] = r]
        BY <2>8, <3>2
      <4> QED
        BY <1>0, <2>7, <3>2, <4>1
    <3> QED
      BY <1>0, <3>1, <3>2
  <2>10. RowTypes'
    BY <1>0, <2>2, <2>3, <2>9 DEF RowTypes
  <2>11. RowInv'
    <3> SUFFICES ASSUME NEW x \in Jobs
                 PROVE  /\ Uncommitted(x)' => /\ job'[x].att = 0 /\ job'[x].max = MaxAttempts
                                              /\ ~job'[x].cancel /\ x \notin worked'
                        /\ job'[x].att <= job'[x].max
                        /\ job'[x].st = "ready" => job'[x].att < job'[x].max
                        /\ job'[x].st = "running" => backend' = "river"
      BY DEF RowInv
    <3>1. CASE job'[x] = job[x]
      BY <2>2, <3>1 DEF RowInv, Uncommitted
    <3>2. CASE x = j /\ backend = "river"
      BY <2>2, <2>6, <2>7, <2>9, <3>2 DEF Uncommitted
    <3> QED
      BY <1>0, <2>9, <3>1, <3>2
  <2>12. HandInv'
    <3> SUFFICES ASSUME NEW q \in Procs
                 PROVE  /\ Busy(q)' =>
                             /\ proc'[q].job \in Jobs
                             /\ job'[proc'[q].job].st =
                                  IF backend = "inproc" THEN "ready" ELSE "running"
                        /\ proc'[q].pc = "worked" /\ proc'[q].ok => proc'[q].job \in worked
      BY <2>2 DEF HandInv
    <3>1. CASE q = p
      <4>1. job'[j].st = IF backend = "inproc" THEN "ready" ELSE "running"
        BY <1>0, <2>2, <2>7, <2>9
      <4> QED
        BY <2>3, <2>4, <3>1, <4>1
    <3>2. CASE q # p
      <4>1. proc'[q] = proc[q] /\ (Busy(q)' <=> Busy(q))
        BY <2>4, <3>2 DEF Busy
      <4>2. Busy(q) => job'[proc[q].job] = job[proc[q].job]
        BY <2>5, <2>9 DEF HandInv
      <4> QED
        BY <4>1, <4>2 DEF HandInv
    <3> QED
      BY <3>1, <3>2
  <2>13. OneHand'
    BY <2>2, <2>3, <2>4, <2>5 DEF OneHand, Busy
  <2> QED
    BY <2>10, <2>11, <2>12, <2>13
<1> QED
  BY <1>1, <1>2, <1>3

LEMMA QueueInvHolds == QueueSpec => []QueueInv
<1>1. QueueInit => QueueInv
  BY JobAssumption DEF QueueInit, QueueInv, RowTypes, RowInv, HandInv, OneHand, Busy,
     Uncommitted, NoJob, Down, JobRow, ProcRow, RowStates
<1>2. QueueInv /\ [QueueNext]_queueVars => QueueInv'
  <2> SUFFICES ASSUME QueueInv, [QueueNext]_queueVars
               PROVE  QueueInv'
    OBVIOUS
  <2>1. ASSUME NEW p \in Procs, Process(p) \/ FinishFails(p) \/ Stop(p) \/ Crash(p)
        PROVE  QueueInv'
    BY <2>1, FreeingActions, HoldingActions DEF Process
  <2>2. CASE UNCHANGED queueVars
    BY <2>2 DEF queueVars, QueueInv, RowTypes, RowInv, HandInv, OneHand, Busy, Uncommitted
  <2> QED
    BY <2>1, <2>2, RowActions DEF QueueNext
<1> QED
  BY <1>1, <1>2, PTL DEF QueueSpec

\* A job in hand was committed and is in one pair of hands only, and no job is
\* attempted more often than allowed, in either backend, whatever crashes.
THEOREM JobInOneHandHolds == QueueSpec => []JobInOneHand
<1>1. QueueInv => JobInOneHand
  <2> SUFFICES ASSUME QueueInv
               PROVE  JobInOneHand
    OBVIOUS
  <2>1. \A j \in Jobs : /\ job[j].st \in RowStates
                        /\ job[j].att \in 0 .. job[j].max
    BY DEF QueueInv, RowTypes, RowInv, JobRow
  <2>2. \A p \in Procs : proc[p].pc \in {"down", "idle", "claimed", "worked"}
    BY DEF QueueInv, RowTypes, ProcRow
  <2>3. QueueTypeOK
    BY <2>1, <2>2 DEF QueueTypeOK, QueueInv, RowTypes, RowStates
  <2>4. WorkedIsCommitted
    BY DEF WorkedIsCommitted, InHand, QueueInv, HandInv, Busy
  <2>5. OneWorkerPerJob
    BY DEF OneWorkerPerJob, InHand, QueueInv, OneHand, Busy
  <2> QED
    BY <2>3, <2>4, <2>5 DEF JobInOneHand
<1> QED
  BY <1>1, QueueInvHolds, PTL

-----------------------------------------------------------------------------
(***************************************************************************)
(* Refinement.  The mapping reads a row: its phase from the state, whether *)
(* its attempts are spent from the counters, whether an operator withdrew  *)
(* it from the mark.  A settling step needs QueueInv: the job of a handler *)
(* that returned without an error is among the worked ones.                *)
(***************************************************************************)

PhaseOf(r) == CASE r.st \in {"none", "open", "gone"} -> "absent"
                [] r.st \in {"ready", "running"} -> "waiting"
                [] OTHER -> "settled"
Phases  == [j \in Jobs |-> CASE job[j].st \in {"none", "open", "gone"} -> "absent"
                             [] job[j].st \in {"ready", "running"} -> "waiting"
                             [] OTHER -> "settled"]
Spent   == {j \in Jobs : job[j].att >= job[j].max}
Revoked == {j \in Jobs : job[j].cancel}

LEMMA PhaseOfRow ==
  ASSUME NEW r \in JobRow
  PROVE  /\ r.st \in {"none", "open", "gone"} => PhaseOf(r) = "absent"
         /\ r.st \in {"ready", "running"} => PhaseOf(r) = "waiting"
         /\ r.st = "done" => PhaseOf(r) = "settled"
BY DEF PhaseOf, JobRow, RowStates

\* A step that rewrites one row, seen through the mapping.
LEMMA MappedRow ==
  ASSUME RowTypes, NEW j \in Jobs, NEW r \in JobRow, job' = [job EXCEPT ![j] = r]
  PROVE  /\ Phases' = [Phases EXCEPT ![j] = PhaseOf(r)]
         /\ Phases[j] = PhaseOf(job[j])
         /\ r.att >= r.max => Spent' = Spent \cup {j}
         /\ ~(r.att >= r.max) => Spent' = Spent \ {j}
         /\ r.cancel => Revoked' = Revoked \cup {j}
         /\ ~r.cancel => Revoked' = Revoked \ {j}
         /\ j \in Spent <=> job[j].att >= job[j].max
         /\ j \in Revoked <=> job[j].cancel
<1>1. job'[j] = r /\ \A x \in Jobs : x # j => job'[x] = job[x]
  BY DEF RowTypes
<1>2. \A x \in Jobs : Phases[x] = PhaseOf(job[x]) /\ Phases'[x] = PhaseOf(job'[x])
  BY DEF Phases, PhaseOf
<1>3. Phases' = [Phases EXCEPT ![j] = PhaseOf(r)]
  <2>1. \A x \in Jobs : Phases'[x] = IF x = j THEN PhaseOf(r) ELSE Phases[x]
    BY <1>1, <1>2
  <2>2. Phases' = [x \in Jobs |-> Phases'[x]] /\ Phases = [x \in Jobs |-> Phases[x]]
    BY DEF Phases
  <2> HIDE DEF Phases
  <2> QED
    BY <2>1, <2>2
<1>4. (r.att >= r.max => Spent' = Spent \cup {j}) /\ (~(r.att >= r.max) => Spent' = Spent \ {j})
  BY <1>1 DEF Spent
<1>5. (r.cancel => Revoked' = Revoked \cup {j}) /\ (~r.cancel => Revoked' = Revoked \ {j})
  BY <1>1 DEF Revoked
<1>6. (j \in Spent <=> job[j].att >= job[j].max) /\ (j \in Revoked <=> job[j].cancel)
  BY DEF Spent, Revoked
<1> QED
  BY <1>2, <1>3, <1>4, <1>5, <1>6

MappedVars == <<Phases, worked, Spent, Revoked>>

\* A row that keeps its phase, its mark and its attempts does not show.
LEMMA MappedStutter ==
  ASSUME RowTypes, NEW j \in Jobs, NEW r \in JobRow, job' = [job EXCEPT ![j] = r],
         PhaseOf(r) = PhaseOf(job[j]), r.cancel = job[j].cancel,
         r.att >= r.max <=> job[j].att >= job[j].max
  PROVE  Phases' = Phases /\ Spent' = Spent /\ Revoked' = Revoked
<1>1. Phases' = [Phases EXCEPT ![j] = Phases[j]]
  BY MappedRow
<1>2. Phases' = Phases
  BY <1>1 DEF Phases
<1>3. /\ Spent' = IF r.att >= r.max THEN Spent \cup {j} ELSE Spent \ {j}
      /\ r.att >= r.max <=> j \in Spent
  BY MappedRow
<1>4. /\ r.cancel => Revoked' = Revoked \cup {j}
      /\ ~r.cancel => Revoked' = Revoked \ {j}
      /\ r.cancel <=> j \in Revoked
  BY MappedRow, Zenon
<1>5. Spent' = Spent
  BY <1>3
<1>6. Revoked' = Revoked
  BY <1>4
<1> QED
  BY <1>2, <1>5, <1>6

\* The outcome of an attempt settles the job or does not show.
LEMMA MappedOutcome ==
  ASSUME QueueInv, NEW j \in Jobs, NEW ok \in BOOLEAN, NEW att \in Nat,
         att <= job[j].max, job[j].att <= att, job[j].st \in {"ready", "running"},
         ok => j \in worked,
         job' = [job EXCEPT ![j] = Outcome(j, ok, att)], worked' = worked
  PROVE  [Delivery!Next]_MappedVars
<1> DEFINE r == Outcome(j, ok, att)
<1>0. job[j] \in JobRow /\ RowTypes /\ r \in JobRow /\ job' = [job EXCEPT ![j] = r]
  BY OutcomeFits DEF QueueInv, RowTypes, Uncommitted
<1> HIDE DEF r
<1>3. /\ Phases' = [Phases EXCEPT ![j] = PhaseOf(r)]
      /\ Phases[j] = PhaseOf(job[j])
      /\ r.att >= r.max => Spent' = Spent \cup {j}
      /\ ~(r.att >= r.max) => Spent' = Spent \ {j}
      /\ r.cancel => Revoked' = Revoked \cup {j}
      /\ ~r.cancel => Revoked' = Revoked \ {j}
      /\ j \in Spent <=> job[j].att >= job[j].max
      /\ j \in Revoked <=> job[j].cancel
  BY <1>0, MappedRow
<1>1. CASE ok \/ job[j].cancel \/ att >= job[j].max
  <2>1. r = [job[j] EXCEPT !.st = "done", !.att = att]
    BY <1>1 DEF Outcome, r
  <2>2. r.st = "done" /\ r.att = att /\ r.max = job[j].max /\ r.cancel = job[j].cancel
    BY <1>0, <2>1 DEF JobRow
  <2>3. Phases' = [Phases EXCEPT ![j] = "settled"] /\ Phases[j] = "waiting"
    BY <1>0, <2>2, <1>3, PhaseOfRow
  <2>4. Revoked' = Revoked
    BY <1>0, <2>2, <1>3
  <2>5. Spent' \in {Spent, Spent \cup {j}}
    <3>1. CASE att >= job[j].max
      BY <1>0, <2>2, <3>1, <1>3
    <3>2. CASE ~(att >= job[j].max)
      <4>0. ~(job[j].att >= job[j].max)
        BY <1>0, <3>2 DEF JobRow
      <4>1. Spent' = Spent \ {j} /\ j \notin Spent
        BY <1>0, <2>2, <3>2, <4>0, <1>3
      <4> QED
        BY <4>1
    <3> QED
      BY <3>1, <3>2
  <2>6. j \in worked \cup Spent' \cup Revoked
    <3>1. CASE att >= job[j].max
      BY <1>0, <2>2, <3>1, <1>3
    <3>2. CASE job[j].cancel
      BY <1>0, <3>2, <1>3
    <3> QED
      BY <1>1, <3>1, <3>2
  <2> QED
    BY <2>3, <2>4, <2>5, <2>6 DEF Delivery!Next, Delivery!Settle, Phases, Spent, Revoked
<1>2. CASE ~(ok \/ job[j].cancel \/ att >= job[j].max)
  <2>1. r = [job[j] EXCEPT !.st = "ready", !.att = att, !.due = FALSE]
    BY <1>2 DEF Outcome, r
  <2>2. r.st = "ready" /\ r.att = att /\ r.max = job[j].max /\ r.cancel = job[j].cancel
    BY <1>0, <2>1 DEF JobRow
  <2>3. PhaseOf(r) = PhaseOf(job[j])
    BY <1>0, <2>2, PhaseOfRow
  <2>4. r.att >= r.max <=> job[j].att >= job[j].max
    BY <1>0, <1>2, <2>2 DEF JobRow
  <2> QED
    BY <1>0, <2>2, <2>3, <2>4, MappedStutter DEF MappedVars
<1> QED
  BY <1>1, <1>2

\* Producers, the clock, the rescuer and the operator, seen through the mapping.
LEMMA MappedRowActions ==
  ASSUME QueueInv, NEW j \in Jobs, Produce(j) \/ Maintain(j) \/ JobCancel(j) \/ JobRetry(j)
  PROVE  [Delivery!Next]_MappedVars
<1>0. /\ job[j] \in JobRow /\ job \in [Jobs -> JobRow] /\ RowTypes /\ RowInv
      /\ NoJob \in JobRow
  BY JobAssumption DEF QueueInv, RowTypes, NoJob, JobRow, RowStates
<1>1. /\ job[j].att \in Nat /\ job[j].max \in Nat /\ job[j].cancel \in BOOLEAN
      /\ job[j].att <= job[j].max
  BY <1>0 DEF JobRow, RowInv
<1>2. CASE EnqueueTx(j) \/ RollbackEnqueue(j)
  <2>1. job[j].st \in {"none", "open"} /\ worked' = worked
    BY <1>2 DEF EnqueueTx, RollbackEnqueue
  <2>2. PICK r \in JobRow :
          /\ job' = [job EXCEPT ![j] = r] /\ r.att = 0 /\ r.max = MaxAttempts
          /\ r.cancel = FALSE /\ r.st \in {"open", "gone"}
    <3>1. CASE EnqueueTx(j)
      <4>1. PICK due \in BOOLEAN :
              job' = [job EXCEPT ![j] = [NoJob EXCEPT !.st = "open", !.due = due]]
        BY <3>1 DEF EnqueueTx
      <4> DEFINE n == [NoJob EXCEPT !.st = "open", !.due = due]
      <4>2. n \in JobRow /\ n.att = 0 /\ n.max = MaxAttempts /\ n.cancel = FALSE /\ n.st = "open"
        BY <1>0 DEF NoJob, JobRow, RowStates
      <4> HIDE DEF n
      <4> QED
        BY <4>1, <4>2 DEF n
    <3>2. CASE RollbackEnqueue(j)
      <4> DEFINE n == [NoJob EXCEPT !.st = "gone"]
      <4>1. job' = [job EXCEPT ![j] = n]
        BY <3>2 DEF RollbackEnqueue
      <4>2. n \in JobRow /\ n.att = 0 /\ n.max = MaxAttempts /\ n.cancel = FALSE /\ n.st = "gone"
        BY <1>0 DEF NoJob, JobRow, RowStates
      <4> HIDE DEF n
      <4> QED
        BY <4>1, <4>2
    <3> QED
      BY <1>2, <3>1, <3>2
  <2>3. job[j].att = 0 /\ job[j].max = MaxAttempts /\ job[j].cancel = FALSE
    BY <1>0, <1>1, <2>1 DEF RowInv, Uncommitted
  <2>4. PhaseOf(r) = PhaseOf(job[j])
    BY <1>0, <2>1, <2>2, PhaseOfRow
  <2>5. Phases' = Phases /\ Spent' = Spent /\ Revoked' = Revoked
    BY <1>0, <2>2, <2>3, <2>4, MappedStutter
  <2> QED
    BY <2>1, <2>5 DEF MappedVars
<1>3. CASE CommitEnqueue(j)
  <2> DEFINE r == [job[j] EXCEPT !.st = "ready"]
  <2>1. /\ job[j].st = "open" /\ job' = [job EXCEPT ![j] = r] /\ worked' = worked
    BY <1>0, <1>3 DEF CommitEnqueue
  <2>2. r \in JobRow /\ r.att = job[j].att /\ r.max = job[j].max /\ r.st = "ready"
          /\ r.cancel = job[j].cancel
    BY <1>0 DEF JobRow, RowStates
  <2> HIDE DEF r
  <2>3. Phases' = [Phases EXCEPT ![j] = "waiting"] /\ Phases[j] = "absent"
    <3>1. PhaseOf(r) = "waiting" /\ PhaseOf(job[j]) = "absent"
      BY <1>0, <2>1, <2>2, PhaseOfRow
    <3> QED
      BY <1>0, <2>1, <2>2, <3>1, MappedRow
  <2>4. j \notin Spent /\ ~(r.att >= r.max) /\ Spent' = Spent \ {j}
    <3>1. ~(job[j].att >= job[j].max)
      BY <1>0, <2>1, JobAssumption DEF RowInv, Uncommitted
    <3> QED
      BY <1>0, <2>1, <2>2, <3>1, MappedRow
  <2>5. ~job[j].cancel
    BY <1>0, <2>1 DEF RowInv, Uncommitted
  <2>6. j \notin Revoked /\ Revoked' = Revoked \ {j}
    BY <1>0, <2>1, <2>2, <2>5, MappedRow
  <2>7. Spent' = Spent /\ Revoked' = Revoked
    BY <2>4, <2>6
  <2> QED
    BY <2>1, <2>3, <2>7 DEF Delivery!Next, Delivery!Submit, Phases, Spent, Revoked
<1>4. CASE Clock(j)
  <2> DEFINE r == [job[j] EXCEPT !.due = TRUE]
  <2>1. /\ job' = [job EXCEPT ![j] = r] /\ worked' = worked
    BY <1>0, <1>4 DEF Clock
  <2>2. r \in JobRow /\ r.att = job[j].att /\ r.max = job[j].max /\ r.st = job[j].st
          /\ r.cancel = job[j].cancel
    BY <1>0 DEF JobRow, RowStates
  <2> HIDE DEF r
  <2>3. PhaseOf(r) = PhaseOf(job[j])
    BY <2>2 DEF PhaseOf
  <2> QED
    BY <1>0, <2>1, <2>2, <2>3, MappedStutter DEF MappedVars
<1>5. CASE Rescue(j)
  <2>1. /\ job[j].st = "running" /\ worked' = worked
        /\ job' = [job EXCEPT ![j] = Outcome(j, FALSE, job[j].att)]
    BY <1>5 DEF Rescue, Abandoned
  <2>2. FALSE \in BOOLEAN /\ job[j].att <= job[j].att /\ job[j].st \in {"ready", "running"}
    BY <1>1, <2>1
  <2> QED
    BY <1>1, <2>1, <2>2, MappedOutcome
<1>6. CASE JobCancel(j)
  <2>0. job[j].st \in {"ready", "running"} /\ worked' = worked
    BY <1>6 DEF JobCancel
  <2>1. \E st \in {job[j].st, "done"} :
          job' = [job EXCEPT ![j] = [job[j] EXCEPT !.st = st, !.cancel = TRUE]]
    <3>1. CASE job[j].st = "ready"
      BY <1>0, <1>6, <3>1 DEF JobCancel
    <3>2. CASE job[j].st = "running"
      <4>1. [job[j] EXCEPT !.cancel = TRUE] = [job[j] EXCEPT !.st = job[j].st, !.cancel = TRUE]
        BY <1>0 DEF JobRow
      <4>2. job' = [job EXCEPT ![j] = [job[j] EXCEPT !.cancel = TRUE]]
        BY <1>0, <1>6, <3>2 DEF JobCancel
      <4> QED
        BY <4>1, <4>2
    <3> QED
      BY <2>0, <3>1, <3>2
  <2>2. PICK st \in {job[j].st, "done"} :
          job' = [job EXCEPT ![j] = [job[j] EXCEPT !.st = st, !.cancel = TRUE]]
    BY <2>1
  <2> DEFINE r == [job[j] EXCEPT !.st = st, !.cancel = TRUE]
  <2>3. r \in JobRow /\ r.att = job[j].att /\ r.max = job[j].max /\ r.st = st /\ r.cancel
    BY <1>0 DEF JobRow, RowStates
  <2>4. job' = [job EXCEPT ![j] = r]
    BY <2>2
  <2> HIDE DEF r
  <2>5. Revoked' = Revoked \cup {j} /\ Phases[j] = "waiting"
    BY <1>0, <2>0, <2>3, <2>4, MappedRow, PhaseOfRow
  <2>6. Spent' = Spent
    <3>1. /\ Spent' = IF r.att >= r.max THEN Spent \cup {j} ELSE Spent \ {j}
          /\ r.att >= r.max <=> j \in Spent
      BY <1>0, <2>3, <2>4, MappedRow
    <3> QED
      BY <3>1
  <2>7. Phases' \in {Phases, [Phases EXCEPT ![j] = "settled"]}
    <3>1. Phases' = [Phases EXCEPT ![j] = PhaseOf(r)]
      BY <1>0, <2>3, <2>4, MappedRow
    <3>2. CASE st = "done"
      <4>1. PhaseOf(r) = "settled"
        BY <2>3, <3>2, PhaseOfRow
      <4> QED
        BY <3>1, <4>1
    <3>3. CASE st = job[j].st
      <4>1. PhaseOf(r) = Phases[j]
        BY <2>0, <2>3, <2>5, <3>3, PhaseOfRow
      <4> QED
        BY <3>1, <4>1 DEF Phases
    <3> QED
      BY <3>2, <3>3
  <2> QED
    BY <2>0, <2>5, <2>6, <2>7 DEF Delivery!Next, Delivery!Revoke, Phases, Spent, Revoked
<1>7. CASE JobRetry(j)
  <2> DEFINE m == IF job[j].att >= job[j].max THEN job[j].att + 1 ELSE job[j].max
             r == [job[j] EXCEPT !.st = "ready", !.due = TRUE, !.cancel = FALSE, !.max = m]
  <2>1. /\ job[j].st \in {"ready", "done"}
        /\ job' = [job EXCEPT ![j] = r]
        /\ worked' = worked \ {j}
    BY <1>0, <1>7 DEF JobRetry
  <2>2. m \in Nat /\ ~(job[j].att >= m)
    BY <1>1
  <2>3. r \in JobRow /\ r.att = job[j].att /\ r.max = m /\ r.st = "ready" /\ ~r.cancel
    <3> HIDE DEF m
    <3> QED
      BY <1>0, <2>2 DEF JobRow, RowStates
  <2> HIDE DEF m, r
  <2>4. Spent' = Spent \ {j} /\ Revoked' = Revoked \ {j}
    BY <1>0, <2>1, <2>2, <2>3, MappedRow
  <2>5. Phases' = [Phases EXCEPT ![j] = "waiting"] /\ Phases[j] \in {"waiting", "settled"}
    <3>1. PhaseOf(r) = "waiting" /\ PhaseOf(job[j]) \in {"waiting", "settled"}
      BY <1>0, <2>1, <2>3, PhaseOfRow
    <3>2. Phases' = [Phases EXCEPT ![j] = PhaseOf(r)] /\ Phases[j] = PhaseOf(job[j])
      BY <1>0, <2>1, <2>3, MappedRow
    <3> QED
      BY <3>1, <3>2
  <2> QED
    BY <2>1, <2>4, <2>5 DEF Delivery!Next, Delivery!Reopen, Phases, Spent, Revoked
<1> QED
  BY <1>2, <1>3, <1>4, <1>5, <1>6, <1>7 DEF Produce, Maintain

\* The workers, seen through the mapping.
LEMMA MappedProcActions ==
  ASSUME QueueInv, NEW p \in Procs, Process(p) \/ FinishFails(p) \/ Stop(p) \/ Crash(p)
  PROVE  [Delivery!Next]_MappedVars
<1>0. /\ proc[p] \in ProcRow /\ job \in [Jobs -> JobRow] /\ RowTypes /\ RowInv
      /\ backend \in {"inproc", "river"}
  BY DEF QueueInv, RowTypes
<1>1. ASSUME job' = job, worked' = worked
      PROVE  [Delivery!Next]_MappedVars
  BY <1>1 DEF MappedVars, Phases, Spent, Revoked
<1>2. CASE Start(p) \/ Exit(p) \/ FinishFails(p) \/ Stop(p) \/ Crash(p)
  BY <1>1, <1>2 DEF Start, Exit, FinishFails, Stop, Crash
<1>3. CASE Claim(p)
  <2>1. PICK j \in Jobs :
          /\ Ready(j)
          /\ job' = IF backend = "inproc" THEN job
                    ELSE [job EXCEPT ![j].st = "running", ![j].att = @ + 1]
    BY <1>3 DEF Claim
  <2>2. /\ worked' = worked /\ job[j].st = "ready" /\ job[j] \in JobRow
        /\ job[j].att \in Nat /\ job[j].max \in Nat /\ job[j].att < job[j].max
    BY <1>0, <1>3, <2>1 DEF Claim, Ready, RowInv, JobRow
  <2>3. CASE backend = "inproc"
    BY <1>1, <2>1, <2>2, <2>3
  <2>4. CASE backend = "river"
    <3> DEFINE r == [job[j] EXCEPT !.st = "running", !.att = job[j].att + 1]
    <3>0. job[j].att + 1 \in Nat
      BY <2>2
    <3>1. job' = [job EXCEPT ![j] = r]
      BY <1>0, <2>1, <2>4
    <3>2. ASSUME NEW a \in Nat
          PROVE  [job[j] EXCEPT !.st = "running", !.att = a] \in JobRow
      BY <2>2 DEF JobRow, RowStates
    <3>3. r \in JobRow
      BY <3>0, <3>2, Zenon
    <3>4. /\ r.st = "running" /\ r.max = job[j].max /\ r.cancel = job[j].cancel
      BY <2>2 DEF JobRow
    <3> HIDE DEF r
    <3>5. PhaseOf(r) = PhaseOf(job[j]) /\ Phases[j] = "waiting"
      BY <1>0, <2>2, <3>1, <3>3, <3>4, PhaseOfRow, MappedRow
    <3>6. CASE ~(r.att >= r.max)
      <4>1. r.att >= r.max <=> job[j].att >= job[j].max
        BY <2>2, <3>6
      <4> QED
        BY <1>0, <2>2, <3>1, <3>3, <3>4, <3>5, <4>1, MappedStutter DEF MappedVars
    <3>7. CASE r.att >= r.max
      <4>1. Spent' = Spent \cup {j} /\ Phases' = [Phases EXCEPT ![j] = Phases[j]]
        BY <1>0, <3>1, <3>3, <3>5, <3>7, MappedRow
      <4>2. Phases' = Phases
        BY <4>1 DEF Phases
      <4>3. Revoked' = Revoked
        <5>1. /\ r.cancel => Revoked' = Revoked \cup {j}
              /\ ~r.cancel => Revoked' = Revoked \ {j}
              /\ r.cancel <=> j \in Revoked
          BY <1>0, <3>1, <3>3, <3>4, MappedRow, Zenon
        <5> QED
          BY <5>1
      <4> QED
        BY <2>2, <3>5, <4>1, <4>2, <4>3 DEF Delivery!Next, Delivery!Spend, Phases, Spent, Revoked
    <3> QED
      BY <3>6, <3>7
  <2> QED
    BY <1>0, <2>3, <2>4
<1>4. CASE Handle(p)
  <2>1. /\ job' = job /\ proc[p].pc = "claimed"
        /\ worked' = worked \/ worked' = worked \cup {proc[p].job}
    BY <1>4 DEF Handle
  <2>2. proc[p].job \in Jobs /\ job[proc[p].job].st \in {"ready", "running"}
    BY <2>1 DEF QueueInv, HandInv, Busy
  <2>3. Phases[proc[p].job] = "waiting"
    BY <2>2 DEF Phases
  <2>4. Phases' = Phases /\ Spent' = Spent /\ Revoked' = Revoked
    BY <2>1 DEF Phases, Spent, Revoked
  <2>5. CASE worked' = worked \cup {proc[p].job}
    BY <2>2, <2>3, <2>4, <2>5 DEF Delivery!Next, Delivery!Work, Phases, Spent, Revoked
  <2> QED
    BY <1>1, <2>1, <2>5
<1>5. CASE Finish(p) \/ RiverFinish(p)
  <2>1. /\ proc[p].pc = "worked" /\ proc[p].ok \in BOOLEAN /\ worked' = worked
    BY <1>0, <1>5 DEF Finish, RiverFinish, ProcRow
  <2>7. PICK j \in Jobs : j = proc[p].job
    BY <2>1 DEF QueueInv, HandInv, Busy
  <2>2. /\ job[j] \in JobRow /\ (proc[p].ok => j \in worked)
        /\ job[j].st = IF backend = "inproc" THEN "ready" ELSE "running"
    BY <1>0, <2>1, <2>7 DEF QueueInv, HandInv, Busy
  <2>8. PICK ok \in BOOLEAN : ok = proc[p].ok
    BY <2>1
  <2>3. job[j].att \in Nat /\ job[j].max \in Nat /\ job[j].att <= job[j].max
    BY <1>0, <2>2 DEF JobRow, RowInv
  <2>4. CASE Finish(p) /\ proc[p].stopping
    BY <1>1, <2>1, <2>4 DEF Finish
  <2>5. CASE Finish(p) /\ ~proc[p].stopping
    <3>1. job' = [job EXCEPT ![j] = Outcome(j, ok, job[j].att + 1)]
      BY <2>5, <2>7, <2>8 DEF Finish
    <3>2. job[j].att < job[j].max /\ job[j].st = "ready"
      BY <1>0, <2>2, <2>5 DEF RowInv, Finish
    <3>3. /\ job[j].att + 1 \in Nat /\ job[j].att + 1 <= job[j].max
          /\ job[j].att <= job[j].att + 1 /\ ~(job[j].att >= job[j].max)
      BY <2>3, <3>2
    <3> QED
      BY <2>1, <2>2, <2>8, <3>1, <3>2, <3>3, MappedOutcome
  <2>6. CASE RiverFinish(p)
    <3>1. job' = [job EXCEPT ![j] = Outcome(j, ok, job[j].att)]
      BY <2>6, <2>7, <2>8 DEF RiverFinish
    <3>2. job[j].st \in {"ready", "running"} /\ job[j].att <= job[j].att
      BY <2>2, <2>3
    <3> QED
      BY <2>1, <2>2, <2>3, <2>8, <3>1, <3>2, MappedOutcome
  <2> QED
    BY <1>5, <2>4, <2>5, <2>6
<1> QED
  BY <1>2, <1>3, <1>4, <1>5 DEF Process

\* Either backend delivers at least once: a committed job stays until a worker
\* has worked it, its attempts are spent or an operator has withdrawn it.
THEOREM DeliveryImplemented == QueueSpec => ImplementsDelivery
<1>1. QueueInit => Delivery!Init
  <2> SUFFICES ASSUME QueueInit
               PROVE  Delivery!Init
    OBVIOUS
  <2>1. job = [j \in Jobs |-> NoJob] /\ worked = {}
    BY DEF QueueInit
  <2>2. \A j \in Jobs : /\ job[j].st = "none" /\ job[j].cancel = FALSE
                        /\ ~(job[j].att >= job[j].max)
    BY <2>1, JobAssumption DEF NoJob
  <2>3. Phases = [j \in Jobs |-> "absent"]
    BY <2>2 DEF Phases
  <2>4. Spent = {} /\ Revoked = {}
    BY <2>2 DEF Spent, Revoked
  <2> QED
    BY <2>1, <2>3, <2>4 DEF Delivery!Init, Phases, Spent, Revoked
<1>2. QueueInv /\ [QueueNext]_queueVars => [Delivery!Next]_MappedVars
  <2> SUFFICES ASSUME QueueInv, [QueueNext]_queueVars
               PROVE  [Delivery!Next]_MappedVars
    OBVIOUS
  <2>1. CASE UNCHANGED queueVars
    BY <2>1 DEF queueVars, MappedVars, Phases, Spent, Revoked
  <2> QED
    BY <2>1, MappedRowActions, MappedProcActions DEF QueueNext
<1>3. QueueInv /\ [QueueNext]_queueVars => [Delivery!Next]_(Delivery!deliveryVars)
  BY <1>2 DEF MappedVars, Delivery!deliveryVars, Phases, Spent, Revoked
<1> QED
  BY <1>1, <1>3, QueueInvHolds, PTL DEF QueueSpec, ImplementsDelivery, Delivery!Spec
=============================================================================
