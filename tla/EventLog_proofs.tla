--------------------------- MODULE EventLog_proofs ---------------------------
(***************************************************************************)
(* Proofs about EventLog, for every number of writers, subscribers, events *)
(* and failures and every buffer size.                                     *)
(***************************************************************************)
EXTENDS EventLog, SequenceTheorems, FiniteSetTheorems, TLAPS

\* q lists the numbers b+1, b+2, ... in order.
Contiguous(q, b) == \A i \in 1 .. Len(q) : q[i] = b + i

LEMMA ContiguousAppend ==
  ASSUME NEW q \in Seq(Seqs), NEW b \in Nat, NEW n \in Seqs,
         Contiguous(q, b), n = b + Len(q) + 1
  PROVE  Append(q, n) \in Seq(Seqs) /\ Contiguous(Append(q, n), b)
BY AppendProperties DEF Contiguous

LEMMA ContiguousTail ==
  ASSUME NEW q \in Seq(Seqs), NEW b \in Nat, Contiguous(q, b), q # <<>>
  PROVE  /\ Head(q) \in Seqs
         /\ Head(q) = b + 1
         /\ Tail(q) \in Seq(Seqs)
         /\ Len(Tail(q)) = Len(q) - 1
         /\ Contiguous(Tail(q), b + 1)
<1>1. /\ Head(q) = q[1] /\ Head(q) \in Seqs
      /\ Tail(q) \in Seq(Seqs) /\ Len(q) \in Nat /\ Len(q) > 0
      /\ Len(Tail(q)) = Len(q) - 1
      /\ \A i \in 1 .. Len(Tail(q)) : Tail(q)[i] = q[i + 1]
  BY HeadTailProperties, EmptySeq, LenProperties
<1> QED
  BY <1>1 DEF Contiguous

LEMMA ContiguousPrefix ==
  ASSUME NEW q \in Seq(Seqs), NEW b \in Nat, Contiguous(q, b),
         NEW n \in 0 .. Len(q)
  PROVE  /\ SubSeq(q, 1, n) \in Seq(Seqs)
         /\ Len(SubSeq(q, 1, n)) = n
         /\ Contiguous(SubSeq(q, 1, n), b)
<1>1. Len(q) \in Nat /\ \A i \in 1 .. Len(q) : q[i] \in Seqs
  BY LenProperties, ElementOfSeq
<1>2. /\ SubSeq(q, 1, n) \in Seq(Seqs)
      /\ Len(SubSeq(q, 1, n)) = n
      /\ \A i \in 1 .. n : SubSeq(q, 1, n)[i] = q[i]
  BY <1>1, SubSeqProperties
<1> QED
  BY <1>1, <1>2 DEF Contiguous

-----------------------------------------------------------------------------
(***************************************************************************)
(* Type correctness                                                        *)
(***************************************************************************)

BusType == [phase : {"off", "drain", "send", "empty", "idle"},
            next : Nat, batch : SUBSET Seqs]

LEMMA BusTyped ==
  ASSUME NEW f \in [Subs -> BusType], NEW s \in Subs,
         NEW x \in {"off", "drain", "send", "empty", "idle"}, NEW B \in SUBSET Seqs
  PROVE  /\ [f EXCEPT ![s].phase = x] \in [Subs -> BusType]
         /\ [f EXCEPT ![s].phase = x, ![s].batch = B] \in [Subs -> BusType]
BY DEF BusType

\* Every state of the log, its subscriptions and its clients is well typed.
THEOREM TypeCorrect == Spec => []TypeOK
<1>1. Init => TypeOK
  <2> SUFFICES ASSUME Init
               PROVE  TypeOK
    OBVIOUS
  <2>1. <<>> \in Seq(Seqs)
    BY EmptySeq
  <2>2. notified \in BOOLEAN /\ wake \in [Subs -> BOOLEAN] /\ open \in [Subs -> BOOLEAN]
    BY Zenon DEF Init
  <2>3. bus \in [Subs -> [phase : {"off", "drain", "send", "empty", "idle"},
                         next : Nat, batch : SUBSET Seqs]]
    BY DEF Init, BusOff
  <2>4. /\ lastSeq \in 0 .. MaxSeq
        /\ rows \in SUBSET (Seqs \X Writers)
        /\ txSeq \in [Writers -> 0 .. MaxSeq]
        /\ txRows \in [Writers -> SUBSET Seqs]
        /\ fromSeq \in [Subs -> 0 .. MaxFrom]
        /\ faults \in 0 .. MaxFaults
        /\ cuts \in 0 .. MaxCuts
    BY LogAssumption DEF Init
  <2>5. /\ pipe \in [Subs -> Seq(Seqs)]
        /\ wire \in [Subs -> Seq(Seqs)]
        /\ received \in [Subs -> Seq(Seqs)]
        /\ sending \in [Subs -> Seqs \cup {None}]
        /\ keyEnd \in [Subs -> (0 .. MaxSeq) \cup {Live}]
    BY <2>1 DEF Init
  <2> QED
    BY <2>2, <2>3, <2>4, <2>5 DEF TypeOK
<1>2. TypeOK /\ [Next]_vars => TypeOK'
  <2> SUFFICES ASSUME TypeOK, [Next]_vars
               PROVE  TypeOK'
    OBVIOUS
  <2> USE LogAssumption DEF TypeOK, Seqs, logVars, busVars, streamVars, clientVars
  <2>1. ASSUME NEW w \in Writers, AppendEvent(w)
        PROVE  TypeOK'
    <3>1. Bumped(w) \in 1 .. MaxSeq
      BY <2>1 DEF AppendEvent, Bumped
    <3> QED
      BY <2>1, <3>1 DEF AppendEvent
  <2>2. ASSUME NEW w \in Writers, CommitTx(w)
        PROVE  TypeOK'
    BY <2>2 DEF CommitTx, EndTx
  <2>3. ASSUME NEW w \in Writers, RollbackTx(w)
        PROVE  TypeOK'
    BY <2>3 DEF RollbackTx, EndTx
  <2>4. CASE Dispatch
    <3>1. /\ notified' \in BOOLEAN
          /\ wake' \in [Subs -> BOOLEAN]
          /\ UNCHANGED <<logVars, bus, pipe, streamVars, clientVars, keyEnd,
                         faults, cuts>>
      BY <2>4, Zenon DEF Dispatch
    <3> QED
      BY <3>1
  <2>5. CASE HintLost
    <3>1. /\ notified' \in BOOLEAN
          /\ faults < MaxFaults
          /\ faults' = faults + 1
          /\ UNCHANGED <<logVars, busVars, streamVars, clientVars, keyEnd, cuts>>
      BY <2>5, Zenon DEF HintLost
    <3> QED
      BY <3>1
  <2>6. ASSUME NEW s \in Subs, ReadBatch(s)
        PROVE  TypeOK'
    <3>1. PICK B \in SUBSET Unseen(bus[s].next) :
            bus' = [bus EXCEPT ![s].phase = IF B = {} THEN "empty" ELSE "send",
                               ![s].batch = B]
      BY <2>6 DEF ReadBatch
    <3>2. B \in SUBSET Seqs
      BY DEF Unseen
    <3>3. bus \in [Subs -> BusType]
      BY DEF BusType
    <3>4. bus' \in [Subs -> BusType]
      BY <3>1, <3>2, <3>3, BusTyped
    <3> QED
      BY <2>6, <3>4 DEF ReadBatch, BusType
  <2>7. ASSUME NEW s \in Subs, PushEvent(s)
        PROVE  TypeOK'
    <3>1. PICK n \in bus[s].batch :
            /\ pipe' = [pipe EXCEPT ![s] = Append(@, n)]
            /\ bus' = [bus EXCEPT ![s] =
                         [phase |-> IF bus[s].batch = {n} THEN "drain" ELSE "send",
                          next |-> n, batch |-> bus[s].batch \ {n}]]
      BY <2>7 DEF PushEvent
    <3>2. n \in Seqs /\ n \in Nat
      OBVIOUS
    <3>3. Append(pipe[s], n) \in Seq(Seqs)
      BY <3>2, AppendProperties
    <3> QED
      BY <2>7, <3>1, <3>2, <3>3 DEF PushEvent
  <2>8. ASSUME NEW s \in Subs, BeginWait(s) \/ WakeUp(s) \/ Poll(s) \/ ReadFails(s)
        PROVE  TypeOK'
    <3>1. /\ wake' = wake \/ wake' = [wake EXCEPT ![s] = FALSE]
          /\ \/ bus' = [bus EXCEPT ![s].phase = "drain"]
             \/ bus' = [bus EXCEPT ![s].phase = "empty"]
             \/ bus' = [bus EXCEPT ![s].phase = "idle"]
          /\ faults' = faults \/ (faults < MaxFaults /\ faults' = faults + 1)
          /\ UNCHANGED <<logVars, notified, pipe, streamVars, clientVars, keyEnd, cuts>>
      <4>1. CASE BeginWait(s)
        BY <4>1 DEF BeginWait
      <4>2. CASE WakeUp(s)
        BY <4>2 DEF WakeUp
      <4>3. CASE Poll(s)
        BY <4>3 DEF Poll
      <4>4. CASE ReadFails(s)
        BY <4>4 DEF ReadFails
      <4> QED
        BY <2>8, <4>1, <4>2, <4>3, <4>4
    <3>2. faults' \in 0 .. MaxFaults
      BY <3>1
    <3>3. bus' \in [Subs -> BusType]
      <4>1. ASSUME NEW x \in {"drain", "empty", "idle"},
                   bus' = [bus EXCEPT ![s].phase = x]
            PROVE  bus' \in [Subs -> BusType]
        <5>1. bus \in [Subs -> BusType]
          BY DEF BusType
        <5>2. [bus[s] EXCEPT !.phase = x] \in BusType
          BY <5>1 DEF BusType
        <5> QED
          BY <4>1, <5>1, <5>2
      <4> QED
        BY <3>1, <4>1
    <3> QED
      BY <3>1, <3>2, <3>3 DEF BusType
  <2>9. ASSUME NEW s \in Subs, HandlerTake(s)
        PROVE  TypeOK'
    <3>1. Head(pipe[s]) \in Seqs /\ Tail(pipe[s]) \in Seq(Seqs)
      BY <2>9, HeadTailProperties DEF HandlerTake
    <3> QED
      BY <2>9, <3>1 DEF HandlerTake
  <2>10. ASSUME NEW s \in Subs, HandlerSend(s)
         PROVE  TypeOK'
    <3>1. Append(wire[s], sending[s]) \in Seq(Seqs)
      BY <2>10, AppendProperties DEF HandlerSend, None
    <3> QED
      BY <2>10, <3>1 DEF HandlerSend
  <2>11. ASSUME NEW s \in Subs, HandlerRevoked(s)
         PROVE  TypeOK'
    BY <2>11 DEF HandlerRevoked, ServerStops, BusOff
  <2>12. ASSUME NEW s \in Subs, StreamCut(s)
         PROVE  TypeOK'
    <3>1. PICK n \in 0 .. Len(wire[s]) :
            wire' = [wire EXCEPT ![s] = SubSeq(@, 1, n)]
      BY <2>12 DEF StreamCut
    <3>2. Len(wire[s]) \in Nat /\ \A i \in 1 .. Len(wire[s]) : wire[s][i] \in Seqs
      BY LenProperties, ElementOfSeq
    <3>3. SubSeq(wire[s], 1, n) \in Seq(Seqs)
      BY <3>2, SubSeqProperties
    <3> QED
      BY <2>12, <3>1, <3>3 DEF StreamCut, ServerStops, BusOff
  <2>13. ASSUME NEW s \in Subs, Revoke(s)
         PROVE  TypeOK'
    BY <2>13 DEF Revoke
  <2>14. ASSUME NEW s \in Subs, OpenStream(s)
         PROVE  TypeOK'
    <3>1. LastSeq(s) \in Nat
      BY EmptySeq, LenProperties, ElementOfSeq DEF LastSeq
    <3> QED
      BY <2>14, <3>1 DEF OpenStream
  <2>15. ASSUME NEW s \in Subs, Receive(s)
         PROVE  TypeOK'
    <3>1. Head(wire[s]) \in Seqs /\ Tail(wire[s]) \in Seq(Seqs)
      BY <2>15, HeadTailProperties DEF Receive
    <3>2. Append(received[s], Head(wire[s])) \in Seq(Seqs)
      BY <3>1, AppendProperties
    <3> QED
      BY <2>15, <3>1, <3>2 DEF Receive
  <2>16. ASSUME NEW s \in Subs, StreamEnds(s)
         PROVE  TypeOK'
    BY <2>16 DEF StreamEnds
  <2>17. CASE UNCHANGED vars
    BY <2>17 DEF vars
  <2> QED
    BY <2>1, <2>2, <2>3, <2>4, <2>5, <2>6, <2>7, <2>8, <2>9, <2>10, <2>11,
       <2>12, <2>13, <2>14, <2>15, <2>16, <2>17 DEF Next, Bus, Handler, Client
<1> QED
  BY <1>1, <1>2, PTL DEF Spec

-----------------------------------------------------------------------------
(***************************************************************************)
(* The log has no gaps.  Gapless is not inductive by itself: a commit      *)
(* keeps it because the open transaction holds the numbers that follow     *)
(* last_seq, and it is the only one that is open.                          *)
(***************************************************************************)

OneTx == \A u, w \in Writers : InTx(u) /\ InTx(w) => u = w

TxFollows == \A w \in Writers : InTx(w) =>
               /\ txSeq[w] > lastSeq
               /\ \A n \in Seqs : n \in txRows[w] <=> (lastSeq < n /\ n <= txSeq[w])

LogInv == OneTx /\ TxFollows /\ Gapless

LEMMA LogInvHolds == Spec => []LogInv
<1>1. Init => LogInv
  BY LogAssumption DEF Init, LogInv, OneTx, TxFollows, Gapless, InTx, Seqs
<1>2. TypeOK /\ LogInv /\ [Next]_vars => LogInv'
  <2> SUFFICES ASSUME TypeOK, LogInv, [Next]_vars
               PROVE  LogInv'
    OBVIOUS
  <2>0. /\ lastSeq \in 0 .. MaxSeq
        /\ rows \in SUBSET (Seqs \X Writers)
        /\ txSeq \in [Writers -> 0 .. MaxSeq]
        /\ txRows \in [Writers -> SUBSET Seqs]
    BY DEF TypeOK
  <2>1. ASSUME NEW w \in Writers, AppendEvent(w)
        PROVE  LogInv'
    <3>1. /\ RowFree(w) /\ Bumped(w) <= MaxSeq
          /\ txSeq' = [txSeq EXCEPT ![w] = Bumped(w)]
          /\ txRows' = [txRows EXCEPT ![w] = @ \cup {Bumped(w)}]
          /\ lastSeq' = lastSeq /\ rows' = rows
      BY <2>1 DEF AppendEvent
    <3>2. Bumped(w) \in Seqs /\ Bumped(w) > lastSeq
      BY <2>0, <3>1, LogAssumption DEF LogInv, TxFollows, Bumped, Seqs
    <3>3. OneTx'
      BY <2>0, <3>1 DEF OneTx, InTx, RowFree
    <3>4. TxFollows'
      <4> SUFFICES ASSUME NEW u \in Writers, InTx(u)'
                   PROVE  /\ txSeq'[u] > lastSeq
                          /\ \A n \in Seqs : n \in txRows'[u]
                                <=> (lastSeq < n /\ n <= txSeq'[u])
        BY <3>1 DEF TxFollows
      <4>1. u = w
        BY <2>0, <3>1 DEF RowFree, InTx
      <4>2. txSeq'[w] = Bumped(w) /\ txRows'[w] = txRows[w] \cup {Bumped(w)}
        BY <2>0, <3>1
      <4>3. CASE InTx(w)
        <5>1. Bumped(w) = txSeq[w] + 1
          BY <4>3 DEF Bumped
        <5>2. /\ txSeq[w] > lastSeq
              /\ \A n \in Seqs : n \in txRows[w] <=> (lastSeq < n /\ n <= txSeq[w])
          BY <4>3 DEF LogInv, TxFollows
        <5> QED
          BY <2>0, <3>2, <4>1, <4>2, <5>1, <5>2, LogAssumption DEF Seqs
      <4>4. CASE ~InTx(w)
        <5>1. Bumped(w) = lastSeq + 1 /\ txRows[w] = {}
          BY <4>4 DEF Bumped, InTx
        <5> QED
          BY <2>0, <3>2, <4>1, <4>2, <5>1, LogAssumption DEF Seqs
      <4> QED
        BY <4>3, <4>4
    <3>5. Gapless'
      BY <3>1 DEF LogInv, Gapless
    <3> QED
      BY <3>3, <3>4, <3>5 DEF LogInv
  <2>2. ASSUME NEW w \in Writers, CommitTx(w)
        PROVE  LogInv'
    <3>1. /\ InTx(w) /\ lastSeq' = txSeq[w]
          /\ rows' = rows \cup (txRows[w] \X {w})
          /\ txRows' = [txRows EXCEPT ![w] = {}]
      BY <2>2 DEF CommitTx, EndTx
    <3>2. \A u \in Writers : ~InTx(u)'
      BY <2>0, <3>1 DEF LogInv, OneTx, InTx
    <3>3. /\ txSeq[w] > lastSeq
          /\ \A n \in Seqs : n \in txRows[w] <=> (lastSeq < n /\ n <= txSeq[w])
      BY <3>1 DEF LogInv, TxFollows
    <3>4. ASSUME NEW n \in Seqs
          PROVE  (\E u \in Writers : <<n, u>> \in rows') <=> n <= lastSeq'
      <4>1. (\E u \in Writers : <<n, u>> \in rows) <=> n <= lastSeq
        BY DEF LogInv, Gapless
      <4>2. (\E u \in Writers : <<n, u>> \in rows')
              <=> (\E u \in Writers : <<n, u>> \in rows) \/ n \in txRows[w]
        BY <2>0, <3>1
      <4>3. n \in txRows[w] <=> (lastSeq < n /\ n <= txSeq[w])
        BY <3>3
      <4>4. n \in Int /\ lastSeq \in Int /\ txSeq[w] \in Int /\ txSeq[w] > lastSeq
        BY <2>0, <3>3, LogAssumption DEF Seqs
      <4>5. n <= txSeq[w] <=> n <= lastSeq \/ (lastSeq < n /\ n <= txSeq[w])
        BY <4>4
      <4>6. lastSeq' = txSeq[w]
        BY <3>1
      <4> QED
        BY <4>1, <4>2, <4>3, <4>5, <4>6, Zenon
    <3>5. ASSUME NEW r \in rows', NEW q \in rows', r[1] = q[1]
          PROVE  r = q
      <4>1. ASSUME NEW x \in rows
            PROVE  x[1] \in Seqs /\ x[1] <= lastSeq /\ x[1] \notin txRows[w]
        <5>1. x = <<x[1], x[2]>> /\ x[1] \in Seqs /\ x[2] \in Writers
          BY <2>0
        <5>2. x[1] <= lastSeq
          BY <5>1 DEF LogInv, Gapless
        <5> QED
          BY <2>0, <3>3, <5>1, <5>2 DEF Seqs
      <4>2. ASSUME NEW x \in rows', x \notin rows
            PROVE  x[1] \in txRows[w] /\ x = <<x[1], w>>
        BY <3>1, <4>2
      <4> QED
        BY <3>5, <4>1, <4>2 DEF LogInv, Gapless
    <3> QED
      BY <3>2, <3>4, <3>5 DEF LogInv, OneTx, TxFollows, Gapless
  <2>3. ASSUME NEW w \in Writers, RollbackTx(w)
        PROVE  LogInv'
    <3>1. /\ txSeq' = [txSeq EXCEPT ![w] = 0]
          /\ txRows' = [txRows EXCEPT ![w] = {}]
          /\ lastSeq' = lastSeq /\ rows' = rows
      BY <2>3 DEF RollbackTx, EndTx
    <3>2. \A u \in Writers : InTx(u)' =>
            u # w /\ InTx(u) /\ txSeq'[u] = txSeq[u] /\ txRows'[u] = txRows[u]
      BY <2>0, <3>1 DEF InTx
    <3>3. OneTx' /\ TxFollows'
      BY <3>1, <3>2 DEF LogInv, OneTx, TxFollows
    <3>4. Gapless'
      BY <3>1 DEF LogInv, Gapless
    <3> QED
      BY <3>3, <3>4 DEF LogInv
  <2>4. ASSUME UNCHANGED logVars
        PROVE  LogInv'
    BY <2>4 DEF logVars, LogInv, OneTx, TxFollows, Gapless, InTx
  <2>5. CASE Dispatch \/ HintLost \/ UNCHANGED vars
    BY <2>4, <2>5 DEF Dispatch, HintLost, vars
  <2>6. ASSUME NEW s \in Subs, Bus(s) \/ ReadFails(s)
        PROVE  LogInv'
    BY <2>4, <2>6 DEF Bus, ReadBatch, PushEvent, BeginWait, WakeUp, Poll, ReadFails
  <2>7. ASSUME NEW s \in Subs, Handler(s) \/ StreamCut(s) \/ Revoke(s)
        PROVE  LogInv'
    BY <2>4, <2>7 DEF Handler, HandlerTake, HandlerSend, HandlerRevoked, StreamCut,
                      Revoke
  <2>8. ASSUME NEW s \in Subs, Client(s)
        PROVE  LogInv'
    BY <2>4, <2>8 DEF Client, OpenStream, Receive, StreamEnds
  <2> QED
    BY <2>1, <2>2, <2>3, <2>5, <2>6, <2>7, <2>8 DEF Next
<1> QED
  BY <1>1, <1>2, TypeCorrect, PTL DEF Spec

\* The committed events are numbered 1, ..., last_seq, each number once.
THEOREM GaplessHolds == Spec => []Gapless
BY LogInvHolds, PTL DEF LogInv

-----------------------------------------------------------------------------
(***************************************************************************)
(* Delivery.  What a client has received, what is on the wire, the event   *)
(* in the handler's hands, the bus channel and the batch being sent are    *)
(* consecutive pieces of the log: each continues where the one before it   *)
(* ends.  A broken stream discards all pieces but the first two, and the   *)
(* client starts again where those end.                                    *)
(***************************************************************************)

Got(s)   == fromSeq[s] + Len(received[s])
Sent(s)  == Got(s) + Len(wire[s])
Taken(s) == IF sending[s] = None THEN Sent(s) ELSE Sent(s) + 1

Committed(q) == \A i \in 1 .. Len(q) : q[i] <= lastSeq

ClientPart(s) ==
  /\ Contiguous(received[s], fromSeq[s])
  /\ Contiguous(wire[s], Got(s))
  /\ Committed(received[s])
  /\ Committed(wire[s])

ServerPart(s) ==
  /\ sending[s] # None => sending[s] = Sent(s) + 1 /\ sending[s] <= lastSeq
  /\ Contiguous(pipe[s], Taken(s))
  /\ Committed(pipe[s])
  /\ bus[s].phase = "off" => sending[s] = None /\ pipe[s] = <<>>
  /\ bus[s].phase # "off" => bus[s].next = Taken(s) + Len(pipe[s])
  /\ ~open[s] => bus[s].phase = "off"

BatchPart(s) ==
  bus[s].phase = "send" =>
    \A n \in bus[s].batch :
      /\ bus[s].next < n
      /\ n <= lastSeq
      /\ \A m \in Seqs : bus[s].next < m /\ m < n => m \in bus[s].batch

Chain(s) == ClientPart(s) /\ ServerPart(s) /\ BatchPart(s)

DeliveryInv == \A s \in Subs : Chain(s)

\* An event committed elsewhere, or another subscription, disturbs nothing.
LEMMA ChainFrame ==
  ASSUME TypeOK, NEW x \in Subs, Chain(x),
         bus'[x] = bus[x], pipe'[x] = pipe[x], sending'[x] = sending[x],
         wire'[x] = wire[x], open'[x] = open[x], received'[x] = received[x],
         fromSeq' = fromSeq, lastSeq' \in Int, lastSeq' >= lastSeq
  PROVE  Chain(x)'
<1>0. lastSeq \in Int /\ fromSeq[x] \in Nat
  BY LogAssumption DEF TypeOK
<1>1. /\ pipe[x] \in Seq(Seqs) /\ wire[x] \in Seq(Seqs) /\ received[x] \in Seq(Seqs)
      /\ sending[x] \in Seqs \cup {None} /\ bus[x].batch \in SUBSET Seqs
  BY DEF TypeOK
<1>2. \A q \in Seq(Seqs) : Committed(q) => Committed(q)'
  <2> SUFFICES ASSUME NEW q \in Seq(Seqs), Committed(q), NEW i \in 1 .. Len(q)
               PROVE  q[i] <= lastSeq'
    BY DEF Committed
  <2>1. q[i] \in Int /\ q[i] <= lastSeq
    <3>1. q[i] \in Seqs
      BY ElementOfSeq
    <3>2. q[i] <= lastSeq
      BY DEF Committed
    <3> QED
      BY <3>1, <3>2, LogAssumption DEF Seqs
  <2> QED
    BY <1>0, <2>1
<1>3. ClientPart(x)'
  BY <1>1, <1>2 DEF Chain, ClientPart, Got, Contiguous, Committed
<1>4. ServerPart(x)'
  <2>1. Got(x)' = Got(x) /\ Sent(x)' = Sent(x) /\ Taken(x)' = Taken(x)
    BY DEF Got, Sent, Taken
  <2>2. sending[x] # None => sending[x] \in Int
    BY <1>1, LogAssumption DEF Seqs
  <2>3. sending'[x] # None => sending'[x] = Sent(x)' + 1 /\ sending'[x] <= lastSeq'
    BY <1>0, <2>1, <2>2 DEF Chain, ServerPart
  <2>4. Contiguous(pipe'[x], Taken(x)') /\ Committed(pipe[x])'
    BY <1>1, <1>2, <2>1 DEF Chain, ServerPart
  <2>5. /\ bus'[x].phase = "off" => sending'[x] = None /\ pipe'[x] = <<>>
        /\ bus'[x].phase # "off" => bus'[x].next = Taken(x)' + Len(pipe'[x])
    BY <2>1 DEF Chain, ServerPart
  <2>6. ~open'[x] => bus'[x].phase = "off"
    BY DEF Chain, ServerPart
  <2> QED
    BY <2>3, <2>4, <2>5, <2>6 DEF ServerPart, Committed, Contiguous
<1>5. BatchPart(x)'
  BY <1>0, <1>1, LogAssumption DEF Chain, BatchPart, Seqs
<1> QED
  BY <1>3, <1>4, <1>5 DEF Chain

LEMMA ChainTypes ==
  ASSUME TypeOK, NEW s \in Subs
  PROVE  /\ pipe[s] \in Seq(Seqs) /\ wire[s] \in Seq(Seqs)
         /\ received[s] \in Seq(Seqs)
         /\ Len(pipe[s]) \in Nat /\ Len(wire[s]) \in Nat /\ Len(received[s]) \in Nat
         /\ Got(s) \in Nat /\ Sent(s) \in Nat /\ Taken(s) \in Nat
         /\ lastSeq \in Nat /\ fromSeq[s] \in Nat
         /\ sending[s] \in Seqs \cup {None} /\ bus[s] \in BusType
<1>1. /\ pipe[s] \in Seq(Seqs) /\ wire[s] \in Seq(Seqs) /\ received[s] \in Seq(Seqs)
      /\ lastSeq \in Nat /\ fromSeq[s] \in Nat
      /\ sending[s] \in Seqs \cup {None} /\ bus[s] \in BusType
  BY LogAssumption DEF TypeOK, BusType
<1>2. Len(pipe[s]) \in Nat /\ Len(wire[s]) \in Nat /\ Len(received[s]) \in Nat
  BY <1>1, LenProperties
<1>3. Got(s) \in Nat
  BY <1>1, <1>2 DEF Got
<1>4. Sent(s) \in Nat
  BY <1>2, <1>3 DEF Sent
<1>5. Taken(s) \in Nat
  BY <1>4 DEF Taken
<1> QED
  BY <1>1, <1>2, <1>3, <1>4, <1>5

\* The bus: reading a batch, sending it, waiting.
LEMMA ChainBus ==
  ASSUME TypeOK, TypeOK', Gapless, NEW s \in Subs, Chain(s), Bus(s) \/ ReadFails(s)
  PROVE  Chain(s)'
<1> USE ChainTypes
<1>0. bus \in [Subs -> BusType]
  BY DEF TypeOK, BusType
<1>1. CASE ReadBatch(s)
  <2>1. PICK B \in SUBSET Unseen(bus[s].next) :
          /\ IsRange(B, bus[s].next)
          /\ bus' = [bus EXCEPT ![s].phase = IF B = {} THEN "empty" ELSE "send",
                                ![s].batch = B]
    BY <1>1 DEF ReadBatch
  <2>2. /\ bus[s].phase = "drain"
        /\ UNCHANGED <<lastSeq, pipe, sending, wire, open, fromSeq, received>>
    BY <1>1 DEF ReadBatch, logVars, streamVars, clientVars
  <2>3. /\ bus'[s].next = bus[s].next /\ bus'[s].batch = B
        /\ bus'[s].phase \in {"empty", "send"}
    BY <1>0, <2>1 DEF BusType
  <2>4. ClientPart(s)'
    BY <2>2 DEF Chain, ClientPart, Got, Committed, Contiguous
  <2>5. ServerPart(s)'
    BY <2>2, <2>3 DEF Chain, ServerPart, Taken, Sent, Got, Committed, Contiguous
  <2>6. ASSUME NEW n \in B
        PROVE  /\ bus[s].next < n /\ n <= lastSeq
               /\ \A m \in Seqs : bus[s].next < m /\ m < n => m \in B
    <3>1. n \in Seqs /\ n > bus[s].next /\ n <= lastSeq
      BY <2>6 DEF Unseen, Gapless
    <3>2. bus[s].next \in Nat
      BY DEF BusType
    <3>3. ASSUME NEW m \in Seqs, bus[s].next < m, m < n
          PROVE  m \in B
      <4>1. m <= lastSeq
        BY <3>1, <3>3, LogAssumption DEF Seqs
      <4>2. m \in Unseen(bus[s].next)
        BY <3>2, <3>3, <4>1 DEF Unseen, Gapless, Seqs
      <4> QED
        BY <2>1, <3>3, <4>2 DEF IsRange
    <3> QED
      BY <3>1, <3>2, <3>3, LogAssumption DEF Seqs
  <2>7. BatchPart(s)'
    BY <2>2, <2>3, <2>6 DEF BatchPart
  <2> QED
    BY <2>4, <2>5, <2>7 DEF Chain
<1>2. CASE PushEvent(s)
  <2>1. PICK n \in bus[s].batch :
          /\ \A m \in bus[s].batch : n <= m
          /\ pipe' = [pipe EXCEPT ![s] = Append(@, n)]
          /\ bus' = [bus EXCEPT ![s] =
                       [phase |-> IF bus[s].batch = {n} THEN "drain" ELSE "send",
                        next |-> n, batch |-> bus[s].batch \ {n}]]
    BY <1>2 DEF PushEvent
  <2>2. /\ bus[s].phase = "send"
        /\ UNCHANGED <<lastSeq, sending, wire, open, fromSeq, received>>
    BY <1>2 DEF PushEvent, logVars, streamVars, clientVars
  <2>3. /\ bus'[s].next = n /\ bus'[s].batch = bus[s].batch \ {n}
        /\ bus'[s].phase \in {"drain", "send"}
        /\ pipe'[s] = Append(pipe[s], n)
    BY <1>0, <2>1 DEF TypeOK
  <2>4. /\ n \in Seqs /\ bus[s].batch \subseteq Seqs /\ bus[s].next \in Nat
        /\ bus[s].next = Taken(s) + Len(pipe[s])
        /\ bus[s].next < n /\ n <= lastSeq
    BY <2>2 DEF Chain, ServerPart, BatchPart, BusType
  <2>5. n = bus[s].next + 1
    <3> HIDE ChainTypes
    <3>0. n \in Nat /\ n <= MaxSeq
      BY <2>4, LogAssumption DEF Seqs
    <3>1. CASE bus[s].next + 1 < n
      <4>1. bus[s].next + 1 \in Seqs
        BY <2>4, <3>0, <3>1, LogAssumption DEF Seqs
      <4>2. bus[s].next + 1 \in bus[s].batch
        BY <2>2, <2>4, <3>1, <4>1 DEF Chain, BatchPart
      <4> QED
        BY <2>1, <2>4, <3>1, <4>1, <4>2, LogAssumption DEF Seqs
    <3> QED
      BY <2>4, <3>0, <3>1
  <2>6. ClientPart(s)'
    BY <2>2 DEF Chain, ClientPart, Got, Committed, Contiguous
  <2>7. /\ Contiguous(pipe'[s], Taken(s))
        /\ Len(pipe'[s]) = Len(pipe[s]) + 1
        /\ Committed(pipe[s])'
    <3>1. Contiguous(pipe[s], Taken(s)) /\ Committed(pipe[s])
      BY DEF Chain, ServerPart
    <3>2. Contiguous(pipe'[s], Taken(s))
      BY <2>3, <2>4, <2>5, <3>1, ContiguousAppend
    <3> QED
      BY <2>2, <2>3, <2>4, <3>1, <3>2, AppendProperties DEF Committed
  <2>8. Taken(s)' = Taken(s)
    BY <2>2 DEF Taken, Sent, Got
  <2>9. ServerPart(s)'
    <3>1. sending'[s] # None => sending'[s] = Sent(s)' + 1 /\ sending'[s] <= lastSeq'
      BY <2>2 DEF Chain, ServerPart, Sent, Got
    <3>2. bus'[s].next = Taken(s)' + Len(pipe'[s])
      BY <2>3, <2>4, <2>5, <2>7, <2>8
    <3>3. open'[s]
      BY <2>2 DEF Chain, ServerPart
    <3> QED
      BY <2>3, <2>7, <2>8, <3>1, <3>2, <3>3 DEF ServerPart, Contiguous, Committed
  <2>10. BatchPart(s)'
    <3> SUFFICES ASSUME NEW k \in bus[s].batch, k # n
                 PROVE  /\ n < k /\ k <= lastSeq
                        /\ \A m \in Seqs : n < m /\ m < k => m \in bus[s].batch \ {n}
      BY <2>2, <2>3 DEF BatchPart
    <3>1. k \in Seqs /\ n <= k /\ k <= lastSeq
      BY <2>1, <2>2, <2>4 DEF Chain, BatchPart
    <3>2. \A m \in Seqs : bus[s].next < m /\ m < k => m \in bus[s].batch
      BY <2>2 DEF Chain, BatchPart
    <3> QED
      BY <2>4, <2>5, <3>1, <3>2, LogAssumption DEF Seqs
  <2> QED
    BY <2>6, <2>9, <2>10 DEF Chain
<1>3. ASSUME bus[s].phase \in {"drain", "empty", "idle"},
             NEW ph \in {"drain", "empty", "idle"},
             bus' = [bus EXCEPT ![s].phase = ph],
             UNCHANGED <<lastSeq, pipe, sending, wire, open, fromSeq, received>>
      PROVE  Chain(s)'
  <2>1. bus'[s].next = bus[s].next /\ bus'[s].phase = ph
    BY <1>0, <1>3 DEF BusType
  <2>2. ClientPart(s)'
    BY <1>3 DEF Chain, ClientPart, Got, Committed, Contiguous
  <2>3. ServerPart(s)'
    BY <1>3, <2>1 DEF Chain, ServerPart, Taken, Sent, Got, Committed, Contiguous
  <2>4. BatchPart(s)'
    BY <2>1 DEF BatchPart
  <2> QED
    BY <2>2, <2>3, <2>4 DEF Chain
<1>4. CASE BeginWait(s)
  BY <1>3, <1>4 DEF BeginWait, logVars, streamVars, clientVars
<1>5. CASE WakeUp(s)
  BY <1>3, <1>5 DEF WakeUp, logVars, streamVars, clientVars
<1>6. CASE Poll(s)
  BY <1>3, <1>6 DEF Poll, logVars, streamVars, clientVars
<1>7. CASE ReadFails(s)
  BY <1>3, <1>7 DEF ReadFails, logVars, streamVars, clientVars
<1> QED
  BY <1>1, <1>2, <1>4, <1>5, <1>6, <1>7 DEF Bus

\* The handler: taking an event, sending it, stopping; and a broken stream.
LEMMA ChainHandler ==
  ASSUME TypeOK, NEW s \in Subs, Chain(s), Handler(s) \/ StreamCut(s)
  PROVE  Chain(s)'
<1> USE ChainTypes
<1>1. CASE HandlerTake(s)
  <2>1. /\ pipe[s] # <<>> /\ sending[s] = None
        /\ sending'[s] = Head(pipe[s]) /\ pipe'[s] = Tail(pipe[s])
        /\ UNCHANGED <<lastSeq, bus, wire, open, fromSeq, received>>
    BY <1>1 DEF HandlerTake, logVars, clientVars, TypeOK
  <2>2. /\ Contiguous(pipe[s], Taken(s)) /\ Committed(pipe[s])
        /\ bus[s].phase # "off" /\ bus[s].next = Taken(s) + Len(pipe[s])
        /\ Taken(s) = Sent(s)
    BY <2>1 DEF Chain, ServerPart, Taken
  <2>3. /\ Head(pipe[s]) \in Seqs /\ Head(pipe[s]) = Taken(s) + 1
        /\ Len(Tail(pipe[s])) = Len(pipe[s]) - 1
        /\ Contiguous(Tail(pipe[s]), Taken(s) + 1)
    BY <2>1, <2>2, ContiguousTail
  <2>4. Head(pipe[s]) = pipe[s][1] /\ Len(pipe[s]) > 0
    BY <2>1, EmptySeq
  <2>5. Head(pipe[s]) <= lastSeq /\ Committed(Tail(pipe[s]))
    <3>1. \A i \in 1 .. Len(Tail(pipe[s])) : Tail(pipe[s])[i] = pipe[s][i + 1]
      BY <2>1, HeadTailProperties
    <3> QED
      BY <2>2, <2>3, <2>4, <3>1 DEF Committed
  <2>6. ClientPart(s)'
    BY <2>1 DEF Chain, ClientPart, Got, Committed, Contiguous
  <2>7. Sent(s)' = Sent(s) /\ Taken(s)' = Sent(s) + 1
    BY <2>1, <2>3, LogAssumption DEF Taken, Sent, Got, Seqs, None
  <2>8. ServerPart(s)'
    <3>1. /\ sending'[s] = Sent(s)' + 1 /\ sending'[s] <= lastSeq'
          /\ Contiguous(pipe'[s], Taken(s)')
          /\ bus'[s].next = Taken(s)' + Len(pipe'[s])
          /\ bus'[s].phase # "off"
      BY <2>1, <2>2, <2>3, <2>5, <2>7
    <3>2. Committed(pipe[s])'
      BY <2>1, <2>5 DEF Committed
    <3>3. ~open'[s] => bus'[s].phase = "off"
      BY <2>1 DEF Chain, ServerPart
    <3> QED
      BY <3>1, <3>2, <3>3 DEF ServerPart, Contiguous, Committed
  <2>9. BatchPart(s)'
    BY <2>1 DEF Chain, BatchPart
  <2> QED
    BY <2>6, <2>8, <2>9 DEF Chain
<1>2. CASE HandlerSend(s)
  <2>1. /\ sending[s] # None /\ wire'[s] = Append(wire[s], sending[s])
        /\ sending'[s] = None
        /\ UNCHANGED <<lastSeq, bus, pipe, open, fromSeq, received>>
    BY <1>2 DEF HandlerSend, logVars, busVars, clientVars, TypeOK
  <2>2. /\ sending[s] \in Seqs /\ sending[s] = Sent(s) + 1
        /\ sending[s] <= lastSeq /\ Taken(s) = Sent(s) + 1
    BY <2>1 DEF Chain, ServerPart, Taken
  <2>3. /\ Contiguous(wire'[s], Got(s)) /\ Len(wire'[s]) = Len(wire[s]) + 1
        /\ Committed(wire'[s])
    <3>1. Contiguous(wire[s], Got(s)) /\ Committed(wire[s])
      BY DEF Chain, ClientPart
    <3>2. sending[s] = Got(s) + Len(wire[s]) + 1
      BY <2>2 DEF Sent
    <3>3. Contiguous(wire'[s], Got(s))
      BY <2>1, <2>2, <3>1, <3>2, ContiguousAppend
    <3> QED
      BY <2>1, <2>2, <3>1, <3>3, AppendProperties DEF Committed
  <2>4. Got(s)' = Got(s) /\ Sent(s)' = Sent(s) + 1 /\ Taken(s)' = Taken(s)
    <3>1. Got(s)' = Got(s)
      BY <2>1 DEF Got
    <3>2. Sent(s)' = Sent(s) + 1
      BY <2>3, <3>1 DEF Sent
    <3>3. Taken(s)' = Sent(s)'
      BY <2>1 DEF Taken
    <3> QED
      BY <2>2, <3>1, <3>2, <3>3
  <2>5. ClientPart(s)'
    BY <2>1, <2>3, <2>4 DEF Chain, ClientPart, Committed, Contiguous
  <2>6. ServerPart(s)'
    BY <2>1, <2>4 DEF Chain, ServerPart, Committed, Contiguous
  <2>7. BatchPart(s)'
    BY <2>1 DEF Chain, BatchPart
  <2> QED
    BY <2>5, <2>6, <2>7 DEF Chain
<1>3. ASSUME ServerStops(s), NEW n \in 0 .. Len(wire[s]),
             wire'[s] = SubSeq(wire[s], 1, n) \/ wire'[s] = wire[s],
             UNCHANGED <<lastSeq, open, fromSeq, received>>
      PROVE  Chain(s)'
  <2>1. /\ bus'[s].phase = "off" /\ sending'[s] = None /\ pipe'[s] = <<>>
    BY <1>3 DEF ServerStops, BusOff, TypeOK
  <2>2. /\ Contiguous(wire[s], Got(s)) /\ Committed(wire[s])
        /\ Contiguous(received[s], fromSeq[s]) /\ Committed(received[s])
    BY DEF Chain, ClientPart
  <2>3. Contiguous(wire'[s], Got(s)) /\ Committed(wire'[s])
    <3>1. CASE wire'[s] = SubSeq(wire[s], 1, n)
      <4>1. /\ Len(wire'[s]) = n /\ Contiguous(wire'[s], Got(s))
        BY <2>2, <3>1, ContiguousPrefix
      <4>2. \A i \in 1 .. n : wire'[s][i] = wire[s][i]
        BY <2>2, <4>1 DEF Contiguous
      <4>3. \A i \in 1 .. n : wire[s][i] <= lastSeq
        BY <2>2 DEF Committed
      <4>4. Committed(wire'[s])
        BY <4>1, <4>2, <4>3 DEF Committed
      <4> QED
        BY <4>1, <4>4
    <3> QED
      BY <1>3, <2>2, <3>1
  <2>4. ClientPart(s)'
    BY <1>3, <2>2, <2>3 DEF ClientPart, Got, Committed, Contiguous
  <2>5. ServerPart(s)'
    BY <2>1, EmptySeq DEF ServerPart, Committed, Contiguous
  <2>6. BatchPart(s)'
    BY <2>1 DEF BatchPart
  <2> QED
    BY <2>4, <2>5, <2>6 DEF Chain
<1>4. CASE HandlerRevoked(s)
  <2>1. ServerStops(s) /\ wire'[s] = wire[s] /\ 0 \in 0 .. Len(wire[s])
          /\ UNCHANGED <<lastSeq, open, fromSeq, received>>
    BY <1>4 DEF HandlerRevoked, logVars, clientVars
  <2> QED
    BY <1>3, <2>1
<1>5. CASE StreamCut(s)
  <2>1. PICK n \in 0 .. Len(wire[s]) : wire' = [wire EXCEPT ![s] = SubSeq(@, 1, n)]
    BY <1>5 DEF StreamCut
  <2>2. wire'[s] = SubSeq(wire[s], 1, n)
    BY <2>1 DEF TypeOK
  <2>3. ServerStops(s) /\ UNCHANGED <<lastSeq, open, fromSeq, received>>
    BY <1>5 DEF StreamCut, logVars, clientVars
  <2> QED
    BY <1>3, <2>2, <2>3
<1> QED
  BY <1>1, <1>2, <1>4, <1>5 DEF Handler

\* The client: opening a stream, receiving, noticing its end.
LEMMA ChainClient ==
  ASSUME TypeOK, NEW s \in Subs, Chain(s), Client(s)
  PROVE  Chain(s)'
<1> USE ChainTypes
<1>1. CASE OpenStream(s)
  <2>1. /\ ~open[s] /\ wire'[s] = <<>>
        /\ bus'[s] = [phase |-> "drain", next |-> LastSeq(s), batch |-> {}]
        /\ open'[s]
        /\ UNCHANGED <<lastSeq, pipe, sending, fromSeq, received>>
    BY <1>1 DEF OpenStream, logVars, clientVars, TypeOK
  <2>2. sending[s] = None /\ pipe[s] = <<>> /\ Contiguous(received[s], fromSeq[s])
    BY <2>1 DEF Chain, ServerPart, ClientPart
  <2>3. LastSeq(s) = Got(s)
    <3>1. CASE received[s] = <<>>
      BY <3>1, EmptySeq DEF LastSeq, Got
    <3>2. CASE received[s] # <<>>
      <4>1. Len(received[s]) \in 1 .. Len(received[s])
        BY <3>2, EmptySeq
      <4>2. received[s][Len(received[s])] = Got(s)
        BY <2>2, <4>1 DEF Contiguous, Got
      <4> QED
        BY <3>2, <4>2 DEF LastSeq
    <3> QED
      BY <3>1, <3>2
  <2>4. Len(wire'[s]) = 0 /\ Len(pipe[s]) = 0
    BY <2>1, <2>2, EmptySeq
  <2>5. Got(s)' = Got(s) /\ Sent(s)' = Got(s) /\ Taken(s)' = Got(s)
    BY <2>1, <2>2, <2>4 DEF Got, Sent, Taken
  <2>6. ClientPart(s)'
    BY <2>1, <2>4 DEF Chain, ClientPart, Got, Committed, Contiguous
  <2>7. ServerPart(s)'
    BY <2>1, <2>2, <2>3, <2>4, <2>5 DEF ServerPart, Committed, Contiguous
  <2>8. BatchPart(s)'
    BY <2>1 DEF BatchPart
  <2> QED
    BY <2>6, <2>7, <2>8 DEF Chain
<1>2. CASE Receive(s)
  <2>1. /\ wire[s] # <<>> /\ wire'[s] = Tail(wire[s])
        /\ received'[s] = Append(received[s], Head(wire[s]))
        /\ UNCHANGED <<lastSeq, bus, pipe, sending, open, fromSeq>>
    BY <1>2 DEF Receive, logVars, busVars, TypeOK
  <2>2. /\ Contiguous(wire[s], Got(s)) /\ Committed(wire[s])
        /\ Contiguous(received[s], fromSeq[s]) /\ Committed(received[s])
    BY DEF Chain, ClientPart
  <2>3. /\ Head(wire[s]) \in Seqs /\ Head(wire[s]) = Got(s) + 1
        /\ Len(Tail(wire[s])) = Len(wire[s]) - 1
        /\ Contiguous(Tail(wire[s]), Got(s) + 1)
    BY <2>1, <2>2, ContiguousTail
  <2>4. Head(wire[s]) <= lastSeq /\ Committed(Tail(wire[s]))
    <3>1. \A i \in 1 .. Len(Tail(wire[s])) : Tail(wire[s])[i] = wire[s][i + 1]
      BY <2>1, HeadTailProperties
    <3>2. Head(wire[s]) = wire[s][1] /\ Len(wire[s]) > 0
      BY <2>1, EmptySeq
    <3> QED
      BY <2>2, <2>3, <3>1, <3>2 DEF Committed
  <2>5. /\ Contiguous(received'[s], fromSeq[s])
        /\ Len(received'[s]) = Len(received[s]) + 1
        /\ Committed(received'[s])
    <3>1. Contiguous(received'[s], fromSeq[s])
      BY <2>1, <2>2, <2>3, ContiguousAppend DEF Got
    <3> QED
      BY <2>1, <2>2, <2>3, <2>4, <3>1, AppendProperties DEF Committed
  <2>6. Got(s)' = Got(s) + 1 /\ Sent(s)' = Sent(s) /\ Taken(s)' = Taken(s)
    <3>1. Got(s)' = Got(s) + 1
      <4>1. fromSeq'[s] \in Nat /\ fromSeq'[s] = fromSeq[s]
        BY <2>1
      <4>2. Len(received'[s]) = Len(received[s]) + 1 /\ Len(received[s]) \in Nat
        BY <2>5
      <4> HIDE ChainTypes
      <4> QED
        BY <4>1, <4>2 DEF Got
    <3>2. Len(wire'[s]) = Len(wire[s]) - 1
      BY <2>1, <2>3
    <3>3. Sent(s)' = Sent(s)
      BY <3>1, <3>2 DEF Sent
    <3> QED
      BY <2>1, <3>1, <3>3 DEF Taken
  <2>7. ClientPart(s)'
    BY <2>1, <2>3, <2>4, <2>5, <2>6 DEF ClientPart, Committed, Contiguous
  <2>8. ServerPart(s)'
    BY <2>1, <2>6 DEF Chain, ServerPart, Committed, Contiguous
  <2>9. BatchPart(s)'
    BY <2>1 DEF Chain, BatchPart
  <2> QED
    BY <2>7, <2>8, <2>9 DEF Chain
<1>3. CASE StreamEnds(s)
  <2>1. /\ bus[s].phase = "off"
        /\ UNCHANGED <<lastSeq, bus, pipe, sending, wire, fromSeq, received>>
    BY <1>3 DEF StreamEnds, logVars, busVars, clientVars
  <2>2. ClientPart(s)'
    BY <2>1 DEF Chain, ClientPart, Got, Committed, Contiguous
  <2>3. ServerPart(s)'
    BY <2>1 DEF Chain, ServerPart, Taken, Sent, Got, Committed, Contiguous
  <2>4. BatchPart(s)'
    BY <2>1 DEF BatchPart
  <2> QED
    BY <2>2, <2>3, <2>4 DEF Chain
<1> QED
  BY <1>1, <1>2, <1>3 DEF Client

SubStep(s) == \/ Bus(s) \/ ReadFails(s)
              \/ Handler(s) \/ StreamCut(s) \/ Revoke(s)
              \/ Client(s)

SubFrame(x) ==
  /\ bus'[x] = bus[x]
  /\ pipe'[x] = pipe[x]
  /\ sending'[x] = sending[x]
  /\ wire'[x] = wire[x]
  /\ open'[x] = open[x]
  /\ received'[x] = received[x]

\* A step of one subscription leaves the others, and the log, alone.
LEMMA Elsewhere ==
  ASSUME TypeOK, NEW s \in Subs, NEW x \in Subs, x # s, SubStep(s)
  PROVE  SubFrame(x)
<1> USE DEF TypeOK, SubFrame, logVars, busVars, streamVars, clientVars
<1>1. CASE Bus(s) \/ ReadFails(s)
  <2>0. bus \in [Subs -> BusType]
    BY DEF BusType
  <2>1. bus'[x] = bus[x]
    <3>1. CASE ReadBatch(s)
      BY <2>0, <3>1 DEF ReadBatch
    <3>2. CASE PushEvent(s)
      BY <2>0, <3>2 DEF PushEvent
    <3>3. CASE BeginWait(s) \/ WakeUp(s) \/ Poll(s) \/ ReadFails(s)
      BY <2>0, <3>3 DEF BeginWait, WakeUp, Poll, ReadFails
    <3> QED
      BY <1>1, <3>1, <3>2, <3>3 DEF Bus
  <2>2. pipe'[x] = pipe[x] /\ UNCHANGED <<streamVars, clientVars>>
    BY <1>1 DEF Bus, ReadBatch, PushEvent, BeginWait, WakeUp, Poll, ReadFails
  <2> QED
    BY <2>1, <2>2
<1>2. CASE Handler(s)
  BY <1>2 DEF Handler, HandlerTake, HandlerSend, HandlerRevoked, ServerStops
<1>3. CASE StreamCut(s)
  BY <1>3 DEF StreamCut, ServerStops
<1>4. CASE Revoke(s)
  BY <1>4 DEF Revoke
<1>5. CASE Client(s)
  BY <1>5 DEF Client, OpenStream, Receive, StreamEnds
<1> QED
  BY <1>1, <1>2, <1>3, <1>4, <1>5 DEF SubStep

LEMMA LogUntouched ==
  ASSUME NEW s \in Subs, SubStep(s)
  PROVE  lastSeq' = lastSeq /\ fromSeq' = fromSeq
BY DEF SubStep, Bus, ReadBatch, PushEvent, BeginWait, WakeUp, Poll, ReadFails,
       Handler, HandlerTake, HandlerSend, HandlerRevoked, StreamCut, Revoke,
       Client, OpenStream, Receive, StreamEnds, logVars, clientVars

LEMMA DeliveryInvHolds == Spec => []DeliveryInv
<1>1. Init => DeliveryInv
  <2> SUFFICES ASSUME Init, NEW s \in Subs
               PROVE  Chain(s)
    BY DEF DeliveryInv
  <2>1. /\ received[s] = <<>> /\ wire[s] = <<>> /\ pipe[s] = <<>>
        /\ sending[s] = None /\ bus[s] = BusOff
    BY DEF Init
  <2> QED
    BY <2>1, EmptySeq
       DEF Chain, ClientPart, ServerPart, BatchPart, Contiguous, Committed, BusOff
<1>2. TypeOK /\ TypeOK' /\ LogInv /\ DeliveryInv /\ [Next]_vars => DeliveryInv'
  <2> SUFFICES ASSUME TypeOK, TypeOK', LogInv, DeliveryInv, [Next]_vars, NEW x \in Subs
               PROVE  Chain(x)'
    BY DEF DeliveryInv
  <2>0. Chain(x) /\ lastSeq \in Int /\ lastSeq' \in Int
    BY LogAssumption DEF DeliveryInv, TypeOK
  <2>1. ASSUME NEW w \in Writers, AppendEvent(w) \/ CommitTx(w) \/ RollbackTx(w)
        PROVE  Chain(x)'
    <3>1. lastSeq' >= lastSeq
      BY <2>0, <2>1 DEF AppendEvent, CommitTx, RollbackTx, LogInv, TxFollows, TypeOK
    <3>2. SubFrame(x) /\ fromSeq' = fromSeq
      BY <2>1 DEF AppendEvent, CommitTx, RollbackTx, SubFrame, busVars, streamVars,
                  clientVars
    <3> QED
      BY <2>0, <3>1, <3>2, ChainFrame DEF SubFrame
  <2>2. CASE Dispatch \/ HintLost \/ UNCHANGED vars
    <3>1. SubFrame(x) /\ fromSeq' = fromSeq /\ lastSeq' = lastSeq
      BY <2>2 DEF Dispatch, HintLost, vars, SubFrame, busVars, streamVars, logVars,
                  clientVars
    <3> QED
      BY <2>0, <3>1, ChainFrame DEF SubFrame
  <2>3. ASSUME NEW s \in Subs, SubStep(s)
        PROVE  Chain(x)'
    <3>1. CASE x # s
      BY <2>0, <2>3, <3>1, Elsewhere, LogUntouched, ChainFrame DEF SubFrame
    <3>2. CASE x = s /\ Revoke(s)
      <4>1. SubFrame(x) /\ fromSeq' = fromSeq /\ lastSeq' = lastSeq
        BY <3>2 DEF Revoke, SubFrame, busVars, streamVars, logVars, clientVars
      <4> QED
        BY <2>0, <4>1, ChainFrame DEF SubFrame
    <3>3. CASE x = s /\ (Bus(s) \/ ReadFails(s))
      BY <2>0, <3>3, ChainBus DEF LogInv
    <3>4. CASE x = s /\ (Handler(s) \/ StreamCut(s))
      BY <2>0, <3>4, ChainHandler
    <3>5. CASE x = s /\ Client(s)
      BY <2>0, <3>5, ChainClient
    <3> QED
      BY <2>3, <3>1, <3>2, <3>3, <3>4, <3>5 DEF SubStep
  <2> QED
    BY <2>1, <2>2, <2>3 DEF Next, SubStep
<1> QED
  BY <1>1, <1>2, TypeCorrect, LogInvHolds, PTL DEF Spec

\* A client is handed exactly the committed events after FromSeq, in order and
\* each once, whatever is lost, cut or retried on the way to it.
THEOREM ReceivedInOrderHolds == Spec => []ReceivedInOrder
<1>1. DeliveryInv => ReceivedInOrder
  BY DEF DeliveryInv, Chain, ClientPart, Contiguous, Committed, ReceivedInOrder
<1> QED
  BY <1>1, DeliveryInvHolds, PTL

\* The log, the bus, the handler and the client together implement EventStream:
\* a commit publishes, a received event is the next one, and no other step shows.
THEOREM StreamImplemented == Spec => ImplementsStream
<1>1. Init => Abstract!Init
  BY LogAssumption DEF Init, Abstract!Init
<1>2. /\ TypeOK /\ TypeOK' /\ LogInv /\ DeliveryInv /\ [Next]_vars
      => [Abstract!Next]_<<lastSeq, fromSeq, received>>
  <2> SUFFICES ASSUME TypeOK, TypeOK', LogInv, DeliveryInv, [Next]_vars
               PROVE  [Abstract!Next]_<<lastSeq, fromSeq, received>>
    OBVIOUS
  <2>1. ASSUME NEW w \in Writers, CommitTx(w)
        PROVE  Abstract!Publish
    <3>1. lastSeq' = txSeq[w] /\ UNCHANGED <<fromSeq, received>> /\ InTx(w)
      BY <2>1 DEF CommitTx, clientVars
    <3> QED
      BY <3>1, LogAssumption DEF LogInv, TxFollows, Abstract!Publish, TypeOK
  <2>2. ASSUME NEW s \in Subs, Receive(s)
        PROVE  Abstract!Deliver(s)
    <3>1. /\ wire[s] # <<>> /\ UNCHANGED <<lastSeq, fromSeq>>
          /\ received' = [received EXCEPT ![s] = Append(@, Head(wire[s]))]
      BY <2>2 DEF Receive, logVars
    <3>2. /\ wire[s] \in Seq(Seqs) /\ Len(wire[s]) \in Nat /\ Got(s) \in Nat
          /\ Contiguous(wire[s], Got(s)) /\ Committed(wire[s])
      BY ChainTypes DEF DeliveryInv, Chain, ClientPart
    <3>3. Head(wire[s]) = Got(s) + 1 /\ Head(wire[s]) = wire[s][1] /\ Len(wire[s]) > 0
      BY <3>1, <3>2, ContiguousTail, EmptySeq
    <3>4. Got(s) + 1 <= lastSeq
      BY <3>2, <3>3 DEF Committed
    <3>5. Abstract!NextFor(s) = Got(s) + 1
      BY DEF Abstract!NextFor, Got
    <3> QED
      BY <3>1, <3>3, <3>4, <3>5 DEF Abstract!Deliver
  <2>3. ASSUME NEW w \in Writers, AppendEvent(w) \/ RollbackTx(w)
        PROVE  UNCHANGED <<lastSeq, fromSeq, received>>
    BY <2>3 DEF AppendEvent, RollbackTx, clientVars
  <2>4. CASE Dispatch \/ HintLost \/ UNCHANGED vars
    BY <2>4 DEF Dispatch, HintLost, vars, logVars, clientVars
  <2>5. ASSUME NEW s \in Subs, SubStep(s), ~Receive(s)
        PROVE  UNCHANGED <<lastSeq, fromSeq, received>>
    BY <2>5 DEF SubStep, Bus, ReadBatch, PushEvent, BeginWait, WakeUp, Poll,
       ReadFails, Handler, HandlerTake, HandlerSend, HandlerRevoked, StreamCut,
       Revoke, Client, OpenStream, StreamEnds, logVars, clientVars
  <2> QED
    BY <2>1, <2>2, <2>3, <2>4, <2>5 DEF Next, SubStep, Abstract!Next
<1> QED
  BY <1>1, <1>2, TypeCorrect, LogInvHolds, DeliveryInvHolds, PTL
     DEF Spec, ImplementsStream, Abstract!Spec

-----------------------------------------------------------------------------
(***************************************************************************)
(* Revocation.  Taken(s) counts how far the handler has passed events on,  *)
(* whether they are in its hands, on the wire or received.  The key is     *)
(* read before an event is taken and the event is sent afterwards, so what *)
(* has to be bounded is Taken and not only what was received: once the key *)
(* is revoked Taken never grows, and at the revocation it was at most      *)
(* last_seq unless the subscription had passed nothing at all.             *)
(***************************************************************************)

PassedOn(s) == keyEnd[s] # Live => Taken(s) <= keyEnd[s] \/ Taken(s) = fromSeq[s]

LEMMA TakenTypesNext ==
  ASSUME TypeOK', NEW s \in Subs
  PROVE  /\ Len(wire'[s]) \in Nat /\ Len(received'[s]) \in Nat /\ fromSeq'[s] \in Nat
         /\ Got(s)' \in Nat /\ Sent(s)' \in Nat /\ Taken(s)' \in Nat
<1>1. /\ wire'[s] \in Seq(Seqs) /\ received'[s] \in Seq(Seqs) /\ fromSeq'[s] \in Nat
  BY LogAssumption DEF TypeOK
<1>2. Len(wire'[s]) \in Nat /\ Len(received'[s]) \in Nat
  BY <1>1, LenProperties
<1>3. Got(s)' \in Nat
  BY <1>1, <1>2 DEF Got
<1>4. Sent(s)' \in Nat
  BY <1>2, <1>3 DEF Sent
<1>5. Taken(s)' \in Nat
  BY <1>4 DEF Taken
<1> QED
  BY <1>1, <1>2, <1>3, <1>4, <1>5

\* What has been passed on is committed.
LEMMA TakenCommitted ==
  ASSUME TypeOK, NEW s \in Subs, Chain(s)
  PROVE  /\ Taken(s) <= lastSeq \/ Taken(s) = fromSeq[s]
         /\ fromSeq[s] <= Got(s) /\ Got(s) <= Sent(s) /\ Sent(s) <= Taken(s)
<1> USE ChainTypes
<1>1. fromSeq[s] <= Got(s) /\ Got(s) <= Sent(s) /\ Sent(s) <= Taken(s)
  <2>1. fromSeq[s] <= Got(s)
    BY DEF Got
  <2>2. Got(s) <= Sent(s)
    BY DEF Sent
  <2>3. Sent(s) <= Taken(s)
    BY DEF Taken
  <2> QED
    BY <2>1, <2>2, <2>3
<1>2. CASE sending[s] # None
  BY <1>1, <1>2 DEF Chain, ServerPart, Taken
<1>3. CASE sending[s] = None /\ Len(wire[s]) > 0
  <2>1. Len(wire[s]) \in 1 .. Len(wire[s])
    BY <1>3
  <2>2. wire[s][Len(wire[s])] = Got(s) + Len(wire[s])
    BY <2>1 DEF Chain, ClientPart, Contiguous
  <2>3. wire[s][Len(wire[s])] <= lastSeq
    BY <2>1 DEF Chain, ClientPart, Committed
  <2> QED
    BY <1>1, <1>3, <2>2, <2>3 DEF Taken, Sent
<1>4. CASE sending[s] = None /\ Len(wire[s]) = 0 /\ Len(received[s]) > 0
  <2>1. Len(received[s]) \in 1 .. Len(received[s])
    BY <1>4
  <2>2. received[s][Len(received[s])] = fromSeq[s] + Len(received[s])
    BY <2>1 DEF Chain, ClientPart, Contiguous
  <2>3. received[s][Len(received[s])] <= lastSeq
    BY <2>1 DEF Chain, ClientPart, Committed
  <2>4. Taken(s) = Got(s)
    BY <1>4 DEF Taken, Sent
  <2> QED
    BY <1>1, <2>2, <2>3, <2>4 DEF Got
<1>5. CASE sending[s] = None /\ Len(wire[s]) = 0 /\ Len(received[s]) = 0
  BY <1>1, <1>5 DEF Taken, Sent, Got
<1> QED
  BY <1>1, <1>2, <1>3, <1>4, <1>5

\* Only taking an event from the bus passes one on.
LEMMA TakenMoves ==
  ASSUME TypeOK, TypeOK', NEW s \in Subs, Chain(s), SubStep(s),
         ~HandlerTake(s), ~OpenStream(s)
  PROVE  Taken(s)' <= Taken(s) /\ fromSeq'[s] <= Taken(s)'
<1> USE ChainTypes, TakenTypesNext
<1>0. fromSeq[s] <= Got(s) /\ Got(s) <= Sent(s) /\ Sent(s) <= Taken(s)
  BY TakenCommitted
<1>1. CASE Bus(s) \/ ReadFails(s) \/ Revoke(s) \/ StreamEnds(s)
  <2>1. UNCHANGED <<sending, wire, received, fromSeq>>
    BY <1>1 DEF Bus, ReadBatch, PushEvent, BeginWait, WakeUp, Poll, ReadFails,
                Revoke, StreamEnds, streamVars, clientVars
  <2>2. Taken(s)' = Taken(s)
    BY <2>1 DEF Taken, Sent, Got
  <2> QED
    BY <1>0, <2>1, <2>2
<1>2. CASE HandlerSend(s)
  <2>1. /\ sending[s] # None /\ wire'[s] = Append(wire[s], sending[s])
        /\ sending'[s] = None
        /\ UNCHANGED <<fromSeq, received>>
    BY <1>2 DEF HandlerSend, clientVars, TypeOK
  <2>2. Len(wire'[s]) = Len(wire[s]) + 1
    BY <2>1, AppendProperties
  <2>3. Taken(s) = Sent(s) + 1 /\ Taken(s)' = Sent(s)' /\ Got(s)' = Got(s)
    BY <2>1 DEF Taken, Got
  <2>4. Sent(s)' = Sent(s) + 1
    BY <2>2, <2>3 DEF Sent
  <2> QED
    BY <1>0, <2>1, <2>3, <2>4
<1>3. CASE HandlerRevoked(s) \/ StreamCut(s)
  <2>1. ServerStops(s) /\ UNCHANGED <<fromSeq, received>>
    BY <1>3 DEF HandlerRevoked, StreamCut, clientVars
  <2>2. Len(wire'[s]) <= Len(wire[s])
    <3>1. CASE HandlerRevoked(s)
      BY <3>1 DEF HandlerRevoked
    <3>2. CASE StreamCut(s)
      <4>1. PICK n \in 0 .. Len(wire[s]) : wire' = [wire EXCEPT ![s] = SubSeq(@, 1, n)]
        BY <3>2 DEF StreamCut
      <4>2. wire'[s] = SubSeq(wire[s], 1, n)
        BY <4>1 DEF TypeOK
      <4>3. Len(SubSeq(wire[s], 1, n)) = n
        BY ContiguousPrefix DEF Chain, ClientPart
      <4> QED
        BY <4>2, <4>3
    <3> QED
      BY <1>3, <3>1, <3>2
  <2>3. sending'[s] = None
    BY <2>1 DEF ServerStops, TypeOK
  <2>4. Got(s)' = Got(s)
    BY <2>1 DEF Got
  <2>5. Taken(s)' = Sent(s)' /\ Sent(s)' = Got(s)' + Len(wire'[s])
    BY <2>3 DEF Taken, Sent
  <2>6. Sent(s)' <= Sent(s) /\ Got(s) <= Sent(s)'
    <3>1. /\ Sent(s) = Got(s) + Len(wire[s]) /\ Sent(s)' = Got(s) + Len(wire'[s])
          /\ Got(s) \in Nat /\ Len(wire[s]) \in Nat /\ Len(wire'[s]) \in Nat
      BY <2>4, <2>5 DEF Sent
    <3> HIDE ChainTypes, TakenTypesNext
    <3> QED
      BY <2>2, <3>1
  <2>7. fromSeq'[s] = fromSeq[s]
    BY <2>1
  <2>8. /\ fromSeq[s] \in Nat /\ Got(s) \in Nat /\ Sent(s) \in Nat /\ Taken(s) \in Nat
        /\ Taken(s)' \in Nat /\ Sent(s)' \in Nat
    OBVIOUS
  <2> HIDE ChainTypes, TakenTypesNext
  <2> QED
    BY <1>0, <2>5, <2>6, <2>7, <2>8
<1>4. CASE Receive(s)
  <2>1. /\ wire[s] # <<>> /\ wire'[s] = Tail(wire[s])
        /\ received'[s] = Append(received[s], Head(wire[s]))
        /\ UNCHANGED <<sending, fromSeq>>
    BY <1>4 DEF Receive, TypeOK
  <2>2. Len(wire'[s]) = Len(wire[s]) - 1 /\ Head(wire[s]) \in Seqs
    BY <2>1, ContiguousTail DEF Chain, ClientPart
  <2>3. Len(received'[s]) = Len(received[s]) + 1
    BY <2>1, <2>2, AppendProperties
  <2>4. Got(s)' = Got(s) + 1
    <3>1. fromSeq'[s] = fromSeq[s] /\ fromSeq[s] \in Nat /\ Len(received[s]) \in Nat
      BY <2>1
    <3> HIDE ChainTypes, TakenTypesNext
    <3> QED
      BY <2>3, <3>1 DEF Got
  <2>5. Sent(s)' = Sent(s)
    <3>1. Got(s) \in Nat /\ Len(wire[s]) \in Nat
      OBVIOUS
    <3> HIDE ChainTypes, TakenTypesNext
    <3> QED
      BY <2>2, <2>4, <3>1 DEF Sent
  <2>6. Taken(s)' = Taken(s)
    BY <2>1, <2>5 DEF Taken
  <2>7. fromSeq'[s] = fromSeq[s]
    BY <2>1
  <2>8. /\ fromSeq[s] \in Nat /\ Got(s) \in Nat /\ Sent(s) \in Nat /\ Taken(s) \in Nat
        /\ Taken(s)' \in Nat /\ Sent(s)' \in Nat
    OBVIOUS
  <2> HIDE ChainTypes, TakenTypesNext
  <2> QED
    BY <1>0, <2>6, <2>7, <2>8
<1> QED
  BY <1>1, <1>2, <1>3, <1>4 DEF SubStep, Handler, Client

\* A revocation is final and is dated by the log.
LEMMA KeyMoves ==
  ASSUME TypeOK, NEW x \in Subs, [Next]_vars
  PROVE  \/ keyEnd'[x] = keyEnd[x]
         \/ Revoke(x) /\ keyEnd[x] = Live /\ keyEnd'[x] = lastSeq
<1>1. ASSUME NEW s \in Subs, Revoke(s)
      PROVE  \/ keyEnd'[x] = keyEnd[x]
             \/ Revoke(x) /\ keyEnd[x] = Live /\ keyEnd'[x] = lastSeq
  BY <1>1 DEF Revoke, TypeOK
<1>2. ASSUME NEW w \in Writers, AppendEvent(w) \/ CommitTx(w) \/ RollbackTx(w)
      PROVE  keyEnd' = keyEnd
  BY <1>2 DEF AppendEvent, CommitTx, RollbackTx
<1>3. CASE Dispatch \/ HintLost \/ UNCHANGED vars
  BY <1>3 DEF Dispatch, HintLost, vars
<1>4. ASSUME NEW s \in Subs, SubStep(s), ~Revoke(s)
      PROVE  keyEnd' = keyEnd
  BY <1>4 DEF SubStep, Bus, ReadBatch, PushEvent, BeginWait, WakeUp, Poll,
     ReadFails, Handler, HandlerTake, HandlerSend, HandlerRevoked, StreamCut,
     Client, OpenStream, Receive, StreamEnds
<1> QED
  BY <1>1, <1>2, <1>3, <1>4 DEF Next, SubStep

LEMMA PassedOnHolds == Spec => []\A s \in Subs : PassedOn(s)
<1> DEFINE Inv == \A s \in Subs : PassedOn(s)
<1>1. Init => Inv
  BY DEF Init, PassedOn
<1>2. /\ TypeOK /\ TypeOK' /\ DeliveryInv /\ Inv /\ [Next]_vars
      => Inv'
  <2> SUFFICES ASSUME TypeOK, TypeOK', DeliveryInv, Inv, [Next]_vars, NEW x \in Subs,
                      keyEnd'[x] # Live
               PROVE  Taken(x)' <= keyEnd'[x] \/ Taken(x)' = fromSeq'[x]
    BY DEF PassedOn
  <2>0. /\ PassedOn(x) /\ Chain(x)
        /\ Taken(x) \in Nat /\ Taken(x)' \in Nat /\ lastSeq \in Nat
        /\ fromSeq[x] \in Nat
        /\ keyEnd'[x] \in Nat
    <3>1. keyEnd'[x] \in Nat
      BY LogAssumption DEF TypeOK
    <3> QED
      BY <3>1, ChainTypes, TakenTypesNext DEF DeliveryInv
  <2>1. ASSUME SubFrame(x), fromSeq' = fromSeq, keyEnd'[x] = keyEnd[x]
        PROVE  Taken(x)' <= keyEnd'[x] \/ Taken(x)' = fromSeq'[x]
    <3>1. Taken(x)' = Taken(x)
      BY <2>1 DEF Taken, Sent, Got, SubFrame
    <3> QED
      BY <2>0, <2>1, <3>1 DEF PassedOn
  <2>2. CASE Revoke(x) /\ keyEnd'[x] = lastSeq
    <3>1. UNCHANGED <<sending, wire, received, fromSeq>>
      BY <2>2 DEF Revoke, streamVars, clientVars
    <3>2. Taken(x)' = Taken(x)
      BY <3>1 DEF Taken, Sent, Got
    <3> QED
      BY <2>0, <2>2, <3>1, <3>2, TakenCommitted
  <2>3. CASE keyEnd'[x] = keyEnd[x]
    <3>1. ASSUME NEW w \in Writers, AppendEvent(w) \/ CommitTx(w) \/ RollbackTx(w)
          PROVE  SubFrame(x) /\ fromSeq' = fromSeq
      BY <3>1 DEF AppendEvent, CommitTx, RollbackTx, SubFrame, busVars, streamVars,
                  clientVars
    <3>2. CASE Dispatch \/ HintLost \/ UNCHANGED vars
      <4>1. SubFrame(x) /\ fromSeq' = fromSeq
        BY <3>2 DEF Dispatch, HintLost, vars, SubFrame, busVars, streamVars, clientVars
      <4> QED
        BY <2>1, <2>3, <4>1
    <3>3. ASSUME NEW s \in Subs, SubStep(s), x # s
          PROVE  SubFrame(x) /\ fromSeq' = fromSeq
      BY <3>3, Elsewhere, LogUntouched
    <3>4. CASE SubStep(x)
      <4>1. ~HandlerTake(x) /\ ~OpenStream(x)
        BY <2>3 DEF HandlerTake, MaySend, OpenStream
      <4>2. Taken(x)' <= Taken(x) /\ fromSeq'[x] <= Taken(x)' /\ fromSeq' = fromSeq
        BY <2>0, <3>4, <4>1, TakenMoves, LogUntouched
      <4>3. Taken(x) <= keyEnd[x] \/ Taken(x) = fromSeq[x]
        BY <2>0, <2>3 DEF PassedOn
      <4> QED
        BY <2>0, <2>3, <4>2, <4>3
    <3> QED
      BY <2>1, <2>3, <3>1, <3>2, <3>3, <3>4 DEF Next, SubStep
  <2> QED
    BY <2>2, <2>3, KeyMoves
<1> QED
  BY <1>1, <1>2, TypeCorrect, DeliveryInvHolds, PTL DEF Spec

\* No event committed after a key was revoked is delivered under it, although
\* the handler checks the key before it takes an event and sends it later.
THEOREM RevokedSeesNothingNewHolds == Spec => []RevokedSeesNothingNew
<1>1. TypeOK /\ DeliveryInv /\ (\A s \in Subs : PassedOn(s)) => RevokedSeesNothingNew
  <2> SUFFICES ASSUME TypeOK, DeliveryInv, NEW s \in Subs, PassedOn(s),
                      keyEnd[s] # Live, NEW i \in 1 .. Len(received[s])
               PROVE  received[s][i] <= keyEnd[s]
    BY DEF RevokedSeesNothingNew
  <2>1. /\ Chain(s) /\ keyEnd[s] \in Nat
        /\ Len(received[s]) \in Nat /\ fromSeq[s] \in Nat /\ Taken(s) \in Nat
        /\ Got(s) \in Nat /\ Sent(s) \in Nat
    <3>1. keyEnd[s] \in Nat
      BY LogAssumption DEF TypeOK
    <3> QED
      BY <3>1, ChainTypes DEF DeliveryInv
  <2>2. received[s][i] = fromSeq[s] + i
    BY <2>1 DEF Chain, ClientPart, Contiguous
  <2>3. fromSeq[s] + i <= Got(s)
    BY <2>1 DEF Got
  <2>4. Got(s) <= Taken(s)
    BY <2>1, TakenCommitted
  <2>5. Taken(s) <= keyEnd[s] \/ Taken(s) = fromSeq[s]
    BY DEF PassedOn
  <2> QED
    BY <2>1, <2>2, <2>3, <2>4, <2>5
<1> QED
  BY <1>1, TypeCorrect, DeliveryInvHolds, PassedOnHolds, PTL

-----------------------------------------------------------------------------
(***************************************************************************)
(* Wakeups.  NoLostWakeup is inductive as it stands: an empty read leaves  *)
(* nothing unseen, a commit sends a notification, and the listener hands   *)
(* it to every subscription whose goroutine runs, waiting or not.          *)
(***************************************************************************)

Waits(s)  == bus[s].phase \in {"empty", "idle"} /\ Unseen(bus[s].next) # {}
Hinted(s) == wake[s] \/ notified

\* What a step does to a subscription that has been left waiting.
LEMMA WaitingMoves ==
  ASSUME TypeOK, NEW x \in Subs, [Next]_vars, faults' = 0, Waits(x)'
  PROVE  /\ faults = 0
         /\ \/ Waits(x) /\ wake'[x] = wake[x] /\ notified' = notified
            \/ notified' = TRUE
            \/ Dispatch /\ bus'[x] = bus[x]
<1>0. bus \in [Subs -> BusType] /\ faults \in Nat
  BY LogAssumption DEF TypeOK, BusType
<1>1. ASSUME NEW w \in Writers, AppendEvent(w) \/ RollbackTx(w)
      PROVE  /\ faults = 0
             /\ Waits(x) /\ wake'[x] = wake[x] /\ notified' = notified
  BY <1>1 DEF AppendEvent, RollbackTx, Waits, Unseen, busVars
<1>2. ASSUME NEW w \in Writers, CommitTx(w)
      PROVE  faults = 0 /\ notified' = TRUE
  BY <1>2 DEF CommitTx
<1>3. CASE Dispatch
  BY <1>3 DEF Dispatch
<1>4. CASE HintLost
  BY <1>0, <1>4 DEF HintLost
<1>5. CASE UNCHANGED vars
  BY <1>5 DEF vars, logVars, busVars, Waits, Unseen
<1>6. ASSUME NEW s \in Subs, ReadFails(s)
      PROVE  FALSE
  BY <1>0, <1>6 DEF ReadFails
<1>7. ASSUME NEW s \in Subs, SubStep(s), ~ReadFails(s)
      PROVE  faults = 0 /\ notified' = notified /\ rows' = rows
  BY <1>7 DEF SubStep, Bus, ReadBatch, PushEvent, BeginWait, WakeUp, Poll,
     Handler, HandlerTake, HandlerSend, HandlerRevoked, StreamCut, Revoke,
     Client, OpenStream, Receive, StreamEnds, logVars
<1>8. ASSUME NEW s \in Subs, SubStep(s), ~ReadFails(s)
      PROVE  Waits(x) /\ wake'[x] = wake[x]
  <2>1. CASE x # s
    <3>1. bus'[x] = bus[x] /\ rows' = rows
      BY <1>7, <1>8, <2>1, Elsewhere DEF SubFrame
    <3>2. wake'[x] = wake[x]
      BY <1>8, <2>1 DEF SubStep, Bus, ReadBatch, PushEvent, BeginWait, WakeUp, Poll,
         Handler, HandlerTake, HandlerSend, HandlerRevoked, StreamCut, Revoke,
         Client, OpenStream, Receive, StreamEnds, ServerStops, busVars, TypeOK
    <3> QED
      BY <3>1, <3>2 DEF Waits, Unseen
  <2>2. CASE x = s /\ ReadBatch(s)
    <3>1. PICK B \in SUBSET Unseen(bus[s].next) :
            /\ IsRange(B, bus[s].next)
            /\ bus' = [bus EXCEPT ![s].phase = IF B = {} THEN "empty" ELSE "send",
                                  ![s].batch = B]
      BY <2>2 DEF ReadBatch
    <3>2. /\ bus'[s].phase = IF B = {} THEN "empty" ELSE "send"
          /\ bus'[s].next = bus[s].next
      BY <1>0, <3>1 DEF BusType
    <3>3. B = {}
      BY <2>2, <3>2 DEF Waits
    <3>4. Cardinality(B) = 0
      BY <3>3, FS_EmptySet
    <3>5. Unseen(bus[s].next) = {}
      BY <3>1, <3>3, <3>4, LogAssumption DEF IsRange
    <3>6. Unseen(bus[s].next)' = Unseen(bus[s].next)
      BY <1>7, <1>8, <3>2 DEF Unseen
    <3> QED
      BY <2>2, <3>5, <3>6 DEF Waits
  <2>3. CASE x = s /\ BeginWait(s)
    <3>1. bus'[s].next = bus[s].next
      BY <1>0, <2>3 DEF BeginWait, BusType
    <3> QED
      BY <1>7, <1>8, <2>3, <3>1 DEF BeginWait, Waits, Unseen
  <2>4. CASE x = s /\ (PushEvent(s) \/ WakeUp(s) \/ Poll(s))
    <3>1. bus'[s].phase \in {"drain", "send"}
      <4>1. CASE PushEvent(s)
        BY <1>0, <4>1 DEF PushEvent
      <4>2. CASE WakeUp(s) \/ Poll(s)
        BY <1>0, <4>2 DEF WakeUp, Poll, BusType
      <4> QED
        BY <2>4, <4>1, <4>2
    <3> QED
      BY <2>4, <3>1 DEF Waits
  <2>5. CASE x = s /\ (HandlerRevoked(s) \/ StreamCut(s) \/ OpenStream(s))
    <3>1. bus'[s].phase \in {"off", "drain"}
      BY <1>0, <2>5 DEF HandlerRevoked, StreamCut, OpenStream, ServerStops, BusOff
    <3> QED
      BY <2>5, <3>1 DEF Waits
  <2>6. CASE x = s /\ (\/ HandlerTake(s) \/ HandlerSend(s) \/ Revoke(s)
                       \/ Receive(s) \/ StreamEnds(s))
    <3>1. bus' = bus /\ wake' = wake
      BY <2>6 DEF HandlerTake, HandlerSend, Revoke, Receive, StreamEnds, busVars
    <3> QED
      BY <1>7, <1>8, <3>1 DEF Waits, Unseen
  <2> QED
    BY <1>8, <2>1, <2>2, <2>3, <2>4, <2>5, <2>6 DEF SubStep, Bus, Handler, Client
<1> QED
  BY <1>1, <1>2, <1>3, <1>4, <1>5, <1>6, <1>7, <1>8 DEF Next, SubStep, Dispatch

\* While no notification is lost and no read fails, a subscription that waits
\* with an event unread has a wakeup in its channel or on its way.
THEOREM NoLostWakeupHolds == Spec => []NoLostWakeup
<1>0. NoLostWakeup <=> (faults = 0 => \A s \in Subs : Waits(s) => Hinted(s))
  BY Zenon DEF NoLostWakeup, Waits, Hinted
<1>1. Init => NoLostWakeup
  BY DEF Init, NoLostWakeup, BusOff
<1>2. TypeOK /\ NoLostWakeup /\ [Next]_vars => NoLostWakeup'
  <2> SUFFICES ASSUME TypeOK, NoLostWakeup, [Next]_vars, faults' = 0, NEW x \in Subs,
                      Waits(x)'
               PROVE  Hinted(x)'
    BY Zenon DEF NoLostWakeup, Waits, Hinted
  <2>1. CASE Waits(x) /\ wake'[x] = wake[x] /\ notified' = notified
    <3>1. Hinted(x)
      BY <1>0, <2>1, WaitingMoves
    <3> QED
      BY <2>1, <3>1, Zenon DEF Hinted
  <2>2. CASE notified' = TRUE
    BY <2>2, Zenon DEF Hinted
  <2>3. CASE Dispatch /\ bus'[x] = bus[x]
    <3>1. Registered(x)
      BY <2>3 DEF Registered, Waits
    <3>2. wake'[x] = (wake[x] \/ Registered(x))
      BY <2>3, Zenon DEF Dispatch
    <3> QED
      BY <3>1, <3>2, Zenon DEF Hinted
  <2> QED
    BY <2>1, <2>2, <2>3, WaitingMoves
<1> QED
  BY <1>1, <1>2, TypeCorrect, PTL DEF Spec
=============================================================================
