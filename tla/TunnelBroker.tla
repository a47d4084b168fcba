---------------------------- MODULE TunnelBroker ----------------------------
(***************************************************************************)
(* The broker that lets the platform reach an agent behind a firewall      *)
(* (provider/tunnel/broker.go): the agent dials out and keeps connections  *)
(* offered, the broker files them in a pool, and a request of the platform *)
(* takes one or parks until one is offered.                                *)
(*                                                                         *)
(* One agent's pool, its dialer's goroutines and the dial attempts of the  *)
(* platform's HTTP transport.  A dial attempt is made once; connections    *)
(* are used again when nothing on the platform refers to them.             *)
(***************************************************************************)
EXTENDS Naturals, Sequences

CONSTANTS Conns,    \* connections
          Takes,    \* dial attempts of the transport
          Keepers,  \* the dialer's goroutines, AgentDialer.Connections many
          NoConn

ASSUME BrokerConstants == NoConn \notin Conns

VARIABLES link,     \* per connection, how far it is
          keeper,   \* per goroutine, what it does and the connection it offers
          pool,     \* agentPool.conns
          issued,   \* agentPool.issued
          waiters,  \* agentPool.waiters, the channels of parked attempts
          chan,     \* per attempt, what its channel holds
          take      \* per attempt, how far it is and the connection it has

brokerVars == <<link, keeper, pool, issued, waiters, chan, take>>

\* A connection is dialed by the agent, accepted by the broker and filed in
\* the pool; an end of it, or the network, closes it.
Links == {"free", "dialed", "accepted", "filed", "closed"}
KeeperSteps == {"dial", "await", "pause"}
TakeSteps == {"new", "parked", "received", "has", "gone"}

BrokerInit ==
    /\ link = [c \in Conns |-> "free"]
    /\ keeper = [k \in Keepers |-> [pc |-> "dial", conn |-> NoConn]]
    /\ pool = <<>>
    /\ issued = {}
    /\ waiters = <<>>
    /\ chan = [t \in Takes |-> NoConn]
    /\ take = [t \in Takes |-> [pc |-> "new", conn |-> NoConn]]

-----------------------------------------------------------------------------
(***************************************************************************)
(* The agent's side                                                        *)
(***************************************************************************)

\* AgentDialer.offer: dial out and send the registration.
Dial(k, c) ==
    /\ keeper[k].pc = "dial"
    /\ link[c] = "free"
    /\ link' = [link EXCEPT ![c] = "dialed"]
    /\ keeper' = [keeper EXCEPT ![k] = [pc |-> "await", conn |-> c]]
    /\ UNCHANGED <<pool, issued, waiters, chan, take>>

\* The broker's answer: served by a goroutine of the HTTP server's own, so that
\* maintain goes straight on to its pause; or refused, and a backoff.
Answered(k) ==
    /\ keeper[k].pc = "await"
    /\ link[keeper[k].conn] # "dialed"
    /\ keeper' = [keeper EXCEPT ![k] = [pc |-> "pause", conn |-> NoConn]]
    /\ UNCHANGED <<link, pool, issued, waiters, chan, take>>

\* maintain: the pause is over, a replacement is offered.
Redial(k) ==
    /\ keeper[k].pc = "pause"
    /\ keeper' = [keeper EXCEPT ![k].pc = "dial"]
    /\ UNCHANGED <<link, pool, issued, waiters, chan, take>>

\* A connection ends: the agent's server closes an idle one, the machine
\* sleeps, or the transport drops an idle one.  Nobody tells the pool.
ConnEnds(c) ==
    /\ link[c] \in {"accepted", "filed"}
    /\ link' = [link EXCEPT ![c] = "closed"]
    /\ UNCHANGED <<keeper, pool, issued, waiters, chan, take>>

-----------------------------------------------------------------------------
(***************************************************************************)
(* The broker's side                                                       *)
(***************************************************************************)

\* Broker.accept: authenticate and answer, or close.
Accept(c) ==
    /\ link[c] = "dialed"
    /\ link' = [link EXCEPT ![c] = "accepted"]
    /\ UNCHANGED <<keeper, pool, issued, waiters, chan, take>>

RefuseConn(c) ==
    /\ link[c] = "dialed"
    /\ link' = [link EXCEPT ![c] = "closed"]
    /\ UNCHANGED <<keeper, pool, issued, waiters, chan, take>>

\* The places on the platform that refer to a connection.
InPool(c) == \E i \in 1 .. Len(pool) : pool[i] = c
InChan(c) == {t \in Takes : chan[t] = c}
InHand(c) == {t \in Takes : take[t].pc = "received" /\ take[t].conn = c}

\* The waiters whose channel has room: a send that would block is skipped.
Ready(ws) == {i \in 1 .. Len(ws) : chan[ws[i]] = NoConn}
FirstReady(ws) == CHOOSE i \in Ready(ws) : \A j \in Ready(ws) : i <= j

\* Mutant: the connection is filed besides being handed over.
OfferTwice(c) ==
    /\ link[c] = "accepted"
    /\ link' = [link EXCEPT ![c] = "filed"]
    /\ pool' = Append(pool, c)
    /\ IF Ready(waiters) # {}
       THEN /\ chan' = [chan EXCEPT ![waiters[FirstReady(waiters)]] = c]
            /\ waiters' = SubSeq(waiters, FirstReady(waiters) + 1, Len(waiters))
       ELSE UNCHANGED <<waiters, chan>>
    /\ UNCHANGED <<keeper, issued, take>>

\* agentPool.offer: the first waiter with room gets the connection, those
\* before it are dropped; without one it goes to the pool.
Offer(c) ==
    /\ link[c] = "accepted"
    /\ link' = [link EXCEPT ![c] = "filed"]
    /\ IF Ready(waiters) # {}
       THEN /\ chan' = [chan EXCEPT ![waiters[FirstReady(waiters)]] = c]
            /\ waiters' = SubSeq(waiters, FirstReady(waiters) + 1, Len(waiters))
            /\ UNCHANGED pool
       ELSE /\ pool' = Append(pool, c)
            /\ waiters' = <<>>
            /\ UNCHANGED chan
    /\ UNCHANGED <<keeper, issued, take>>

\* agentPool.take: the oldest connection, or park.
TakeOne(t) ==
    /\ take[t].pc = "new"
    /\ IF pool # <<>>
       THEN /\ issued' = issued \cup {Head(pool)}
            /\ pool' = Tail(pool)
            /\ take' = [take EXCEPT ![t] = [pc |-> "has", conn |-> Head(pool)]]
            /\ UNCHANGED waiters
       ELSE /\ waiters' = Append(waiters, t)
            /\ take' = [take EXCEPT ![t].pc = "parked"]
            /\ UNCHANGED <<pool, issued>>
    /\ UNCHANGED <<link, keeper, chan>>

\* The parked attempt receives, and files what it received under the lock.
Receive(t) ==
    /\ take[t].pc = "parked"
    /\ chan[t] # NoConn
    /\ take' = [take EXCEPT ![t] = [pc |-> "received", conn |-> chan[t]]]
    /\ chan' = [chan EXCEPT ![t] = NoConn]
    /\ UNCHANGED <<link, keeper, pool, issued, waiters>>

Record(t) ==
    /\ take[t].pc = "received"
    /\ issued' = issued \cup {take[t].conn}
    /\ take' = [take EXCEPT ![t].pc = "has"]
    /\ UNCHANGED <<link, keeper, pool, waiters, chan>>

\* The wait is over or the request is cancelled.  The channel stays among the
\* waiters, and what it holds or is yet to get is lost.
GiveUp(t) ==
    /\ take[t].pc = "parked"
    /\ take' = [take EXCEPT ![t].pc = "gone"]
    /\ UNCHANGED <<link, keeper, pool, issued, waiters, chan>>

\* The transport is done with the connection of an attempt.
Finish(t) ==
    /\ take[t].pc = "has"
    /\ link[take[t].conn] = "closed"
    /\ take' = [take EXCEPT ![t] = [pc |-> "gone", conn |-> NoConn]]
    /\ UNCHANGED <<link, keeper, pool, issued, waiters, chan>>

\* Broker.Disconnect: what is pooled and what is issued is closed; the closers
\* drop what the transport keeps idle, which is issued too.
Disconnect ==
    /\ link' = [c \in Conns |-> IF InPool(c) \/ c \in issued THEN "closed" ELSE link[c]]
    /\ pool' = <<>>
    /\ issued' = {}
    /\ UNCHANGED <<keeper, waiters, chan, take>>

\* A closed connection nothing refers to any more can stand for a new one.
Referred(c) ==
    \/ InPool(c) \/ InChan(c) # {} \/ InHand(c) # {} \/ c \in issued
    \/ \E k \in Keepers : keeper[k].conn = c
    \/ \E t \in Takes : take[t].pc = "has" /\ take[t].conn = c

Recycle(c) ==
    /\ link[c] = "closed" /\ ~Referred(c)
    /\ link' = [link EXCEPT ![c] = "free"]
    /\ UNCHANGED <<keeper, pool, issued, waiters, chan, take>>

-----------------------------------------------------------------------------
AgentDialer(k) == (\E c \in Conns : Dial(k, c)) \/ Answered(k) \/ Redial(k)
Transport(t) == TakeOne(t) \/ Receive(t) \/ Record(t) \/ GiveUp(t) \/ Finish(t)

BrokerNext ==
    \/ \E k \in Keepers : AgentDialer(k)
    \/ \E c \in Conns : Accept(c) \/ RefuseConn(c) \/ Offer(c) \/ ConnEnds(c) \/ Recycle(c)
    \/ \E t \in Takes : Transport(t)
    \/ Disconnect

BrokerSpec == BrokerInit /\ [][BrokerNext]_brokerVars

-----------------------------------------------------------------------------
(***************************************************************************)
(* Properties                                                              *)
(***************************************************************************)

\* Every variable has its type.
BrokerTypeOK ==
    /\ link \in [Conns -> Links]
    /\ keeper \in [Keepers -> [pc : KeeperSteps, conn : Conns \cup {NoConn}]]
    /\ pool \in Seq(Conns)
    /\ issued \subseteq Conns
    /\ waiters \in Seq(Takes)
    /\ chan \in [Takes -> Conns \cup {NoConn}]
    /\ take \in [Takes -> [pc : TakeSteps, conn : Conns \cup {NoConn}]]

\* The connection an attempt was sent or already has.
IsWith(t, c) == chan[t] = c \/ (take[t].pc \in {"received", "has"} /\ take[t].conn = c)

\* A connection is in one place: it waits once in the pool, or it is with one
\* attempt, in its channel or in its hands; no two attempts of the transport
\* ever get the same connection, and none in the pool counts as issued.
OneHolder ==
    \A c \in Conns :
        /\ \A i, j \in 1 .. Len(pool) : pool[i] = c /\ pool[j] = c => i = j
        /\ \A t, u \in Takes : IsWith(t, c) /\ IsWith(u, c) => t = u
        /\ \A t \in Takes : chan[t] = c => take[t].pc \notin {"received", "has"}
        /\ InPool(c) => c \notin issued /\ \A t \in Takes : ~IsWith(t, c)

\* No request is forgotten: one that is parked with nothing in its channel is
\* on the list the next offer looks at.
ParkedIsListed ==
    \A t \in Takes :
        take[t].pc = "parked" /\ chan[t] = NoConn
            => \E i \in 1 .. Len(waiters) : waiters[i] = t

\* No request is parked while a connection lies unused in the pool.
NoIdleWhileParked == pool # <<>> => waiters = <<>>

\* Connections and parked requests are accounted for: none is held twice, none
\* waits where nobody looks, and the two never wait for each other.
ConnsAccounted == BrokerTypeOK /\ OneHolder /\ ParkedIsListed /\ NoIdleWhileParked
=============================================================================
