------------------------------ MODULE EventLog ------------------------------
(***************************************************************************)
(* One session's event log and its subscribers: transactions that append   *)
(* events (postgres/session.go), the bus that turns commits into wakeups   *)
(* and reads forward for each subscription (postgres/eventbus.go), the     *)
(* streaming handler that re-authenticates at every delivery               *)
(* (http/session_handler.go), and the client that reconnects from the last *)
(* seq it saw (sdk/events.go).                                             *)
(*                                                                         *)
(* The bump of sessions.last_seq locks the session row until the           *)
(* transaction ends, so a transaction is the unit of appending; everything *)
(* from a commit to the subscriber's hands is concurrent and may fail.     *)
(***************************************************************************)
EXTENDS Integers, Sequences, FiniteSets

CONSTANTS
  Writers,    \* transactions that append events, one at a time each
  Subs,       \* SDK subscriptions, with reconnect enabled
  MaxSeq,     \* bound: events of the session
  MaxFrom,    \* bound: SubscribeOptions.FromSeq
  Limit,      \* rows per Range call
  PipeCap,    \* capacity of the bus channel
  WireCap,    \* bound: messages in flight between handler and client
  MaxFaults,  \* bound: lost notifications and failed reads
  MaxCuts     \* bound: broken streams

ASSUME LogAssumption ==
  /\ MaxSeq \in Nat
  /\ MaxFrom \in Nat
  /\ Limit \in Nat \ {0}
  /\ PipeCap \in Nat \ {0}
  /\ WireCap \in Nat \ {0}
  /\ MaxFaults \in Nat
  /\ MaxCuts \in Nat

Seqs == 1 .. MaxSeq
None == 0    \* no event in the handler's hands
Live == -1   \* the key has not been revoked

VARIABLES
  lastSeq,   \* sessions.last_seq, as committed
  rows,      \* session_events: committed seqs and who wrote them
  txSeq,     \* last_seq as an open transaction sees it
  txRows,    \* the events an open transaction has inserted
  notified,  \* a notification is on its way to the listener
  wake,      \* the one-slot wake channel of each subscription
  bus,       \* the bus goroutine serving each subscription
  pipe,      \* its buffered channel
  sending,   \* the event the handler has authenticated and not yet sent
  wire,      \* what the client has yet to receive
  open,      \* whether the client holds a stream
  fromSeq,   \* SubscribeOptions.FromSeq
  received,  \* what the client has been handed, in order
  keyEnd,    \* last_seq when the subscriber's key was revoked, or Live
  faults, cuts

logVars    == <<lastSeq, rows, txSeq, txRows>>
busVars    == <<wake, bus, pipe>>
streamVars == <<sending, wire, open>>
clientVars == <<fromSeq, received>>
vars == <<logVars, notified, busVars, streamVars, clientVars, keyEnd, faults,
          cuts>>

BusOff == [phase |-> "off", next |-> 0, batch |-> {}]

TypeOK ==
  /\ lastSeq \in 0 .. MaxSeq
  /\ rows \in SUBSET (Seqs \X Writers)
  /\ txSeq \in [Writers -> 0 .. MaxSeq]
  /\ txRows \in [Writers -> SUBSET Seqs]
  /\ notified \in BOOLEAN
  /\ wake \in [Subs -> BOOLEAN]
  /\ bus \in [Subs -> [phase : {"off", "drain", "send", "empty", "idle"},
                       next : Nat, batch : SUBSET Seqs]]
  /\ pipe \in [Subs -> Seq(Seqs)]
  /\ sending \in [Subs -> Seqs \cup {None}]
  /\ wire \in [Subs -> Seq(Seqs)]
  /\ open \in [Subs -> BOOLEAN]
  /\ fromSeq \in [Subs -> 0 .. MaxFrom]
  /\ received \in [Subs -> Seq(Seqs)]
  /\ keyEnd \in [Subs -> (0 .. MaxSeq) \cup {Live}]
  /\ faults \in 0 .. MaxFaults
  /\ cuts \in 0 .. MaxCuts

Init ==
  /\ lastSeq = 0
  /\ rows = {}
  /\ txSeq = [w \in Writers |-> 0]
  /\ txRows = [w \in Writers |-> {}]
  /\ notified = FALSE
  /\ wake = [s \in Subs |-> FALSE]
  /\ bus = [s \in Subs |-> BusOff]
  /\ pipe = [s \in Subs |-> <<>>]
  /\ sending = [s \in Subs |-> None]
  /\ wire = [s \in Subs |-> <<>>]
  /\ open = [s \in Subs |-> FALSE]
  /\ fromSeq \in [Subs -> 0 .. MaxFrom]
  /\ received = [s \in Subs |-> <<>>]
  /\ keyEnd = [s \in Subs |-> Live]
  /\ faults = 0
  /\ cuts = 0

-----------------------------------------------------------------------------
(***************************************************************************)
(* Appending                                                               *)
(***************************************************************************)

InTx(w) == txRows[w] # {}

\* Fault variant: the bump does not wait for the row.
RowFreeAlways(w) == TRUE
\* The row lock taken by the first bump lasts until the transaction ends.
RowFree(w) == \A u \in Writers \ {w} : ~InTx(u)

\* UPDATE sessions SET last_seq = last_seq + 1 ... RETURNING last_seq
Bumped(w) == (IF InTx(w) THEN txSeq[w] ELSE lastSeq) + 1

AppendEvent(w) ==
  /\ RowFree(w)
  /\ Bumped(w) <= MaxSeq
  /\ txSeq' = [txSeq EXCEPT ![w] = Bumped(w)]
  /\ txRows' = [txRows EXCEPT ![w] = @ \cup {Bumped(w)}]
  /\ UNCHANGED <<lastSeq, rows, notified, busVars, streamVars, clientVars,
                 keyEnd, faults, cuts>>

EndTx(w) == /\ txSeq' = [txSeq EXCEPT ![w] = 0]
            /\ txRows' = [txRows EXCEPT ![w] = {}]

\* pg_notify takes effect with the commit.
CommitTx(w) ==
  /\ InTx(w)
  /\ lastSeq' = txSeq[w]
  /\ rows' = rows \cup (txRows[w] \X {w})
  /\ notified' = TRUE
  /\ EndTx(w)
  /\ UNCHANGED <<busVars, streamVars, clientVars, keyEnd, faults, cuts>>

RollbackTx(w) ==
  /\ InTx(w)
  /\ EndTx(w)
  /\ UNCHANGED <<lastSeq, rows, notified, busVars, streamVars, clientVars,
                 keyEnd, faults, cuts>>

-----------------------------------------------------------------------------
(***************************************************************************)
(* The bus                                                                 *)
(***************************************************************************)

\* Fault variant: a waiter is registered once its first drain is over.
RegisteredLate(s) == bus[s].phase = "idle"
\* addWaiter before the goroutine starts, removeWaiter when it ends.
Registered(s) == bus[s].phase # "off"

\* listenOnce hands a notification to every registered subscription; a full
\* wake channel already holds a wakeup.
Dispatch ==
  /\ notified
  /\ notified' = FALSE
  /\ wake' = [s \in Subs |-> wake[s] \/ Registered(s)]
  /\ UNCHANGED <<logVars, bus, pipe, streamVars, clientVars, keyEnd, faults,
                 cuts>>

\* The listening connection is down when the notification is sent.
HintLost ==
  /\ notified
  /\ faults < MaxFaults
  /\ faults' = faults + 1
  /\ notified' = FALSE
  /\ UNCHANGED <<logVars, busVars, streamVars, clientVars, keyEnd, cuts>>

\* Fault variant: >= instead of >.
UnseenInclusive(from) ==
  {n \in Seqs : n >= from /\ \E w \in Writers : <<n, w>> \in rows}
Unseen(from) == {n \in Seqs : n > from /\ \E w \in Writers : <<n, w>> \in rows}

\* The rows a Range call may return: the first Limit of what is unseen.
IsRange(B, from) ==
  /\ \A n \in B : \A m \in Unseen(from) : m < n => m \in B
  /\ \/ Cardinality(B) = Limit
     \/ Cardinality(B) < Limit /\ B = Unseen(from)

\* The inner loop reads until nothing is left, and only then waits.
ReadBatch(s) ==
  /\ bus[s].phase = "drain"
  /\ \E B \in SUBSET Unseen(bus[s].next) :
       /\ IsRange(B, bus[s].next)
       /\ bus' = [bus EXCEPT ![s].phase = IF B = {} THEN "empty" ELSE "send",
                             ![s].batch = B]
  /\ UNCHANGED <<logVars, notified, wake, pipe, streamVars, clientVars, keyEnd,
                 faults, cuts>>

\* The empty result has come back and the goroutine enters its select.
BeginWait(s) ==
  /\ bus[s].phase = "empty"
  /\ bus' = [bus EXCEPT ![s].phase = "idle"]
  /\ UNCHANGED <<logVars, notified, wake, pipe, streamVars, clientVars, keyEnd,
                 faults, cuts>>

\* A failed read ends the drain like an empty one.
ReadFails(s) ==
  /\ bus[s].phase = "drain"
  /\ faults < MaxFaults
  /\ faults' = faults + 1
  /\ bus' = [bus EXCEPT ![s].phase = "empty"]
  /\ UNCHANGED <<logVars, notified, wake, pipe, streamVars, clientVars, keyEnd,
                 cuts>>

\* One event of the batch, in ascending order; a full channel blocks.
PushEvent(s) ==
  /\ bus[s].phase = "send"
  /\ Len(pipe[s]) < PipeCap
  /\ \E n \in bus[s].batch :
       /\ \A m \in bus[s].batch : n <= m
       /\ pipe' = [pipe EXCEPT ![s] = Append(@, n)]
       /\ bus' = [bus EXCEPT ![s] =
                    [phase |-> IF bus[s].batch = {n} THEN "drain" ELSE "send",
                     next |-> n, batch |-> bus[s].batch \ {n}]]
  /\ UNCHANGED <<logVars, notified, wake, streamVars, clientVars, keyEnd,
                 faults, cuts>>

WakeUp(s) ==
  /\ bus[s].phase = "idle"
  /\ wake[s]
  /\ wake' = [wake EXCEPT ![s] = FALSE]
  /\ bus' = [bus EXCEPT ![s].phase = "drain"]
  /\ UNCHANGED <<logVars, notified, pipe, streamVars, clientVars, keyEnd,
                 faults, cuts>>

\* Fault variant: the ticker only fires for a subscription that has a wakeup.
PollHinted(s) ==
  /\ bus[s].phase = "idle"
  /\ wake[s]
  /\ bus' = [bus EXCEPT ![s].phase = "drain"]
  /\ UNCHANGED <<logVars, notified, wake, pipe, streamVars, clientVars, keyEnd,
                 faults, cuts>>
Poll(s) ==
  /\ bus[s].phase = "idle"
  /\ bus' = [bus EXCEPT ![s].phase = "drain"]
  /\ UNCHANGED <<logVars, notified, wake, pipe, streamVars, clientVars, keyEnd,
                 faults, cuts>>

-----------------------------------------------------------------------------
(***************************************************************************)
(* The streaming handler                                                   *)
(***************************************************************************)

\* An event is authenticated after it is taken from the bus.
\* Fault variant: it is not.
MaySendAlways(s) == TRUE
MaySend(s) == keyEnd[s] = Live

HandlerTake(s) ==
  /\ pipe[s] # <<>>
  /\ sending[s] = None
  /\ MaySend(s)
  /\ sending' = [sending EXCEPT ![s] = Head(pipe[s])]
  /\ pipe' = [pipe EXCEPT ![s] = Tail(@)]
  /\ UNCHANGED <<logVars, notified, wake, bus, wire, open, clientVars, keyEnd,
                 faults, cuts>>

HandlerSend(s) ==
  /\ sending[s] # None
  /\ Len(wire[s]) < WireCap
  /\ wire' = [wire EXCEPT ![s] = Append(@, sending[s])]
  /\ sending' = [sending EXCEPT ![s] = None]
  /\ UNCHANGED <<logVars, notified, busVars, open, clientVars, keyEnd, faults,
                 cuts>>

\* The handler returns: its context ends the bus goroutine with it.
ServerStops(s) ==
  /\ bus' = [bus EXCEPT ![s] = BusOff]
  /\ wake' = [wake EXCEPT ![s] = FALSE]
  /\ pipe' = [pipe EXCEPT ![s] = <<>>]
  /\ sending' = [sending EXCEPT ![s] = None]

\* At the next event, or at the next tick of an idle stream.
HandlerRevoked(s) ==
  /\ bus[s].phase # "off"
  /\ sending[s] = None
  /\ keyEnd[s] # Live
  /\ ServerStops(s)
  /\ UNCHANGED <<logVars, notified, wire, open, clientVars, keyEnd, faults, cuts>>

\* The stream breaks: some of what was in flight still arrives.
StreamCut(s) ==
  /\ bus[s].phase # "off"
  /\ cuts < MaxCuts
  /\ cuts' = cuts + 1
  /\ ServerStops(s)
  /\ \E n \in 0 .. Len(wire[s]) : wire' = [wire EXCEPT ![s] = SubSeq(@, 1, n)]
  /\ UNCHANGED <<logVars, notified, open, clientVars, keyEnd, faults>>

\* An admin revokes the key.
Revoke(s) ==
  /\ keyEnd[s] = Live
  /\ keyEnd' = [keyEnd EXCEPT ![s] = lastSeq]
  /\ UNCHANGED <<logVars, notified, busVars, streamVars, clientVars, faults, cuts>>

-----------------------------------------------------------------------------
(***************************************************************************)
(* The client                                                              *)
(***************************************************************************)

\* Fault variant: a reconnect starts where the subscription once started.
LastSeqStuck(s) == fromSeq[s]
\* Subscription.lastSeq
LastSeq(s) == IF received[s] = <<>> THEN fromSeq[s]
              ELSE received[s][Len(received[s])]

\* Subscription.open, Subscribe and EventBus.Subscribe: the waiter is
\* registered before the first read.  With a revoked key the attempt is
\* answered with an error and changes nothing.
OpenStream(s) ==
  /\ ~open[s]
  /\ keyEnd[s] = Live
  /\ open' = [open EXCEPT ![s] = TRUE]
  /\ wire' = [wire EXCEPT ![s] = <<>>]
  /\ bus' = [bus EXCEPT ![s] = [phase |-> "drain", next |-> LastSeq(s),
                                batch |-> {}]]
  /\ UNCHANGED <<logVars, notified, wake, pipe, sending, clientVars, keyEnd,
                 faults, cuts>>

Receive(s) ==
  /\ open[s]
  /\ wire[s] # <<>>
  /\ received' = [received EXCEPT ![s] = Append(@, Head(wire[s]))]
  /\ wire' = [wire EXCEPT ![s] = Tail(@)]
  /\ UNCHANGED <<logVars, notified, busVars, sending, open, fromSeq, keyEnd,
                 faults, cuts>>

\* Everything that arrived has been read and the stream reports its end.
StreamEnds(s) ==
  /\ open[s]
  /\ bus[s].phase = "off"
  /\ wire[s] = <<>>
  /\ open' = [open EXCEPT ![s] = FALSE]
  /\ UNCHANGED <<logVars, notified, busVars, sending, wire, clientVars, keyEnd,
                 faults, cuts>>

-----------------------------------------------------------------------------

Bus(s)     == \/ ReadBatch(s) \/ PushEvent(s) \/ BeginWait(s)
              \/ WakeUp(s) \/ Poll(s)
Handler(s) == HandlerTake(s) \/ HandlerSend(s) \/ HandlerRevoked(s)
Client(s)  == OpenStream(s) \/ Receive(s) \/ StreamEnds(s)

Next ==
  \/ \E w \in Writers : AppendEvent(w) \/ CommitTx(w) \/ RollbackTx(w)
  \/ Dispatch
  \/ HintLost
  \/ \E s \in Subs : \/ Bus(s) \/ ReadFails(s)
                     \/ Handler(s) \/ StreamCut(s) \/ Revoke(s)
                     \/ Client(s)

Spec == Init /\ [][Next]_vars

(***************************************************************************)
(* The goroutines and the client keep running, and the ticker of each      *)
(* subscription keeps firing.  Nothing is assumed of notifications.        *)
(***************************************************************************)
Fairness == \A s \in Subs : /\ WF_vars(Bus(s))
                            /\ WF_vars(Handler(s))
                            /\ WF_vars(Client(s))

FairSpec == Spec /\ Fairness

-----------------------------------------------------------------------------
(***************************************************************************)
(* Properties                                                              *)
(***************************************************************************)

\* The committed events of a session are numbered 1, ..., last_seq with no gap
\* and no number given twice, although any number of transactions append,
\* several events each, and some roll back (eventStore.Append).
Gapless ==
  /\ \A n \in Seqs : (\E w \in Writers : <<n, w>> \in rows) <=> n <= lastSeq
  /\ \A r, q \in rows : r[1] = q[1] => r = q

\* A subscriber has been handed exactly the events after FromSeq, in order,
\* each once and only after its commit, across reconnects and failed reads
\* (EventBus.Subscribe, Subscription.Next).
ReceivedInOrder ==
  \A s \in Subs : \A i \in 1 .. Len(received[s]) :
    /\ received[s][i] = fromSeq[s] + i
    /\ received[s][i] <= lastSeq

\* While the listener is up and reads succeed, a subscription never waits for
\* its poll tick with an unread event: a wakeup is in its channel or on its
\* way (addWaiter before the first read, one-slot wake channel).
NoLostWakeup ==
  faults = 0 =>
    \A s \in Subs :
      (bus[s].phase \in {"empty", "idle"} /\ Unseen(bus[s].next) # {})
        => wake[s] \/ notified

\* An event committed after a key was revoked is never delivered under it
\* (eventHandler.Subscribe authenticates again at each delivery).
RevokedSeesNothingNew ==
  \A s \in Subs : keyEnd[s] # Live =>
    \A i \in 1 .. Len(received[s]) : received[s][i] <= keyEnd[s]

\* Every committed event a subscriber asked for reaches it, whatever is lost
\* on the way, unless its key is revoked (the poll fallback).
EventDelivered ==
  \A s \in Subs, n \in Seqs :
    (n <= lastSeq /\ n > fromSeq[s])
      ~> (keyEnd[s] # Live \/ \E i \in 1 .. Len(received[s]) : received[s][i] = n)

\* A revoked key's stream ends although no event arrives on it (the recheck
\* tick of eventHandler.Subscribe).
RevokedStreamEnds == \A s \in Subs : keyEnd[s] # Live ~> [](~open[s])

\* A stream brings what it was opened for as long as its key is live, and ends
\* when it is not.
StreamsServed == EventDelivered /\ RevokedStreamEnds

Abstract == INSTANCE EventStream
              WITH log <- lastSeq, from <- fromSeq, got <- received

\* The log and its delivery implement the ordered, gapless stream of
\* EventStream.
ImplementsStream == Abstract!Spec
=============================================================================
