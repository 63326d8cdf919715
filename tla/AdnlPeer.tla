------------------------------- MODULE AdnlPeer -------------------------------
(***************************************************************************)
(* Two nodes that talk over ADNL (adnl-peer.cpp): each has one peer pair   *)
(* for the other.  Packets are numbered, a window of numbers filters       *)
(* duplicates; they are signed, or go through a channel once both nodes    *)
(* have exchanged the keys of one.  The network loses, delays, reorders    *)
(* and repeats packets.  A node that restarts has a later start time and   *)
(* another channel key, and has forgotten the rest.                        *)
(*                                                                         *)
(* A start time stands for the incarnation and for its channel key.  A     *)
(* pair is                                                                 *)
(*   reinit          the start time of the peer as far as it is known      *)
(*   inited, ready   channel_inited_, channel_ready_                       *)
(*   peer, date      the key of the peer in the channel, and its date      *)
(*   in, mask        the window: the greatest number received, and how far *)
(*                   below it the other received ones are                  *)
(*   out, ack        the last number sent, and the last confirmed          *)
(*   todo            register and unregister calls to the peer table that  *)
(*                   it has not run yet                                    *)
(***************************************************************************)
EXTENDS Integers, Sequences, FiniteSets

CONSTANTS
    Node,           \* the two nodes
    Window,         \* received_packet: 64
    MaxStart,       \* bound: start times of a node
    MaxSeqno,       \* bound: packets of a pair between reinits
    MaxPackets      \* bound: packets in all

ASSUME AdnlAssumption ==
    /\ \E x \in Node, y \in Node : x # y /\ Node = {x, y}
    /\ Window \in Nat \ {0} /\ MaxSeqno \in Nat /\ MaxPackets \in Nat
    /\ MaxStart \in [Node -> Nat \ {0}]

VARIABLES
    up,             \* FALSE after a failed CHECK
    start,          \* adnl_start_time
    pair,           \* the peer pair
    channels,       \* channels_ of the peer table, by the key of the peer
    mailbox,        \* channel packets between the table and the pair
    prepared,       \* packets between send_messages_in and send_packet_continue
    net,            \* packets that were sent
    delivered,      \* packets delivered since the start
    again           \* history: packets delivered twice to one incarnation

vars == <<up, start, pair, channels, mailbox, prepared, net, delivered, again>>

Other(n) == CHOOSE m \in Node : m # n

NewPair ==
    [reinit |-> 0, inited |-> FALSE, ready |-> FALSE, peer |-> 0, date |-> 0,
     in |-> 0, mask |-> {}, out |-> 0, ack |-> 0, todo |-> << >>]

Init ==
    /\ up = [n \in Node |-> TRUE]
    /\ start = [n \in Node |-> 1]
    /\ pair = [n \in Node |-> NewPair]
    /\ channels = [n \in Node |-> {}]
    /\ mailbox = [n \in Node |-> {}]
    /\ prepared = [n \in Node |-> {}]
    /\ net = {}
    /\ delivered = [n \in Node |-> {}]
    /\ again = {}

(***************************************************************************)
(* The window.                                                             *)
(***************************************************************************)
(* Mutant: a number below the window passes as new.                         *)
ReceivedInMask(p, s) == s <= p.in /\ p.in - s \in p.mask

ReceivedPacket(p, s) ==
    \/ s + Window <= p.in
    \/ s <= p.in /\ p.in - s \in p.mask

AddReceivedPacket(p, s) ==
    IF s <= p.in THEN [p EXCEPT !.mask = @ \cup {p.in - s}]
    ELSE [p EXCEPT !.in = s,
                   !.mask = {i \in 1..Window - 1 : i - (s - p.in) \in p.mask} \cup {0}]

(***************************************************************************)
(* The channel.                                                            *)
(***************************************************************************)
(* Mutant: the channel of the old incarnation stays in the table.           *)
ReinitKeepsChannel(p, date) ==
    IF p.reinit = 0 \/ p.reinit >= date
      THEN [p EXCEPT !.reinit = IF p.reinit = 0 THEN date ELSE @]
      ELSE [NewPair EXCEPT !.reinit = date, !.peer = p.peer, !.date = p.date, !.todo = p.todo]

(* Mutant: the number last confirmed survives.                              *)
ReinitKeepsAck(p, date) ==
    IF p.reinit = 0 \/ p.reinit >= date
      THEN [p EXCEPT !.reinit = IF p.reinit = 0 THEN date ELSE @]
      ELSE [NewPair EXCEPT !.reinit = date, !.peer = p.peer, !.date = p.date, !.ack = p.ack,
                           !.todo = IF p.inited THEN Append(p.todo, [op |-> "unregister", key |-> p.peer])
                                    ELSE p.todo]

(* The keys of the last channel stay.                                       *)
Reinit(p, date) ==
    IF p.reinit = 0 \/ p.reinit >= date
      THEN [p EXCEPT !.reinit = IF p.reinit = 0 THEN date ELSE @]
      ELSE [NewPair EXCEPT !.reinit = date, !.peer = p.peer, !.date = p.date,
                           !.todo = IF p.inited THEN Append(p.todo, [op |-> "unregister", key |-> p.peer])
                                    ELSE p.todo]

KeepsChannel(p, key, date) == p.inited /\ (p.peer = key \/ date <= p.date)

CreateFails(p, key, date) == ~p.inited /\ p.ready

(* Mutant: the new channel counts as ready before the peer has its key.     *)
CreateReady(p, key, date) ==
    IF KeepsChannel(p, key, date) THEN p
    ELSE [p EXCEPT !.peer = key, !.date = date, !.inited = TRUE, !.ready = TRUE,
                   !.todo = (IF p.inited THEN Append(@, [op |-> "unregister", key |-> p.peer]) ELSE @)
                              \o <<[op |-> "register", key |-> key]>>]

CreateChannel(p, key, date) ==
    IF KeepsChannel(p, key, date) THEN p
    ELSE [p EXCEPT !.peer = key, !.date = date, !.inited = TRUE, !.ready = FALSE,
                   !.todo = (IF p.inited THEN Append(@, [op |-> "unregister", key |-> p.peer]) ELSE @)
                              \o <<[op |-> "register", key |-> key]>>]

ConfirmChannel(p, own, m) ==
    LET c == CreateChannel(p, m.key, m.key)
    IN  IF m.peer_key # own THEN p
        ELSE IF c.peer = m.key THEN [c EXCEPT !.ready = TRUE] ELSE c

(* The message about the channel at the head of a packet.  A reinit message *)
(* is sent by nobody; it would do what Discover does.                       *)
ProcessMessage(p, own, m) ==
    CASE m.type = "create" -> CreateChannel(p, m.key, m.key)
      [] m.type = "confirm" -> ConfirmChannel(p, own, m)
      [] OTHER -> p

MessageFails(p, own, m) ==
    \/ m.type = "create" /\ CreateFails(p, m.key, m.key)
    \/ m.type = "confirm" /\ m.peer_key = own /\ CreateFails(p, m.key, m.key)

(***************************************************************************)
(* Sending.  A packet is prepared by the pair, handed to the local id for  *)
(* addresses and a signature, and comes back to be encrypted.              *)
(***************************************************************************)
ChannelMessage(n, p) ==
    IF ~p.inited THEN [type |-> "create", key |-> start[n]]
    ELSE IF ~p.ready THEN [type |-> "confirm", key |-> start[n], peer_key |-> p.peer]
    ELSE [type |-> "none"]

(* from_key tells the incarnation that sent it; no field of the packet does. *)
Packet(n, p) ==
    [to |-> Other(n), from_key |-> start[n], channel |-> p.ready, to_key |-> 0,
     seqno |-> p.out + 1, confirm |-> p.in, msg |-> ChannelMessage(n, p),
     reinit |-> IF p.ready THEN 0 ELSE start[n],
     dst_reinit |-> IF p.ready THEN 0 ELSE p.reinit]

SendMessages(n, p) ==
    /\ p.out < MaxSeqno
    /\ Cardinality(net \cup UNION {prepared[m] : m \in Node}) < MaxPackets
    /\ pair' = [pair EXCEPT ![n] = [p EXCEPT !.out = @ + 1]]
    /\ prepared' = [prepared EXCEPT ![n] = @ \cup {Packet(n, p)}]

Send(n) ==
    /\ up[n]
    /\ SendMessages(n, pair[n])
    /\ UNCHANGED <<up, start, channels, mailbox, net, delivered, again>>

(* A failed CHECK ends the process.                                         *)
Abort(n) == up' = [up EXCEPT ![n] = FALSE]

(* Whether the channel is still there is looked up again; the channel       *)
(* encrypts with the keys it has now.                                       *)
SendContinue(n) == \E k \in prepared[n] :
    /\ up[n]
    /\ prepared' = [prepared EXCEPT ![n] = @ \ {k}]
    /\ \/ /\ ~k.channel
          /\ net' = net \cup {k}
          /\ UNCHANGED up
       \/ /\ k.channel /\ pair[n].ready /\ pair[n].inited
          /\ net' = net \cup {[k EXCEPT !.to_key = pair[n].peer]}
          /\ UNCHANGED up
       \/ /\ k.channel /\ pair[n].ready /\ ~pair[n].inited
          /\ Abort(n)
          /\ UNCHANGED net
       \/ /\ k.channel /\ ~pair[n].ready
          /\ UNCHANGED <<up, net>>
    /\ UNCHANGED <<start, pair, channels, mailbox, delivered, again>>

(***************************************************************************)
(* Receiving.                                                              *)
(***************************************************************************)
(* Mutant: a packet of an earlier incarnation of the peer passes.           *)
AnyIncarnation(p, k) == FALSE

FromOldPeer(p, k) == k.reinit > 0 /\ k.reinit < p.reinit

ForOldUs(n, k) == k.dst_reinit > 0 /\ k.dst_reinit < start[n]

Accepted(p, k) == [AddReceivedPacket(p, k.seqno) EXCEPT !.ack = IF k.confirm > @ THEN k.confirm ELSE @]

Keep(n, p) == pair' = [pair EXCEPT ![n] = p] /\ UNCHANGED <<up, prepared, delivered, again>>

(* receive_packet_checked after the dates.                                  *)
ReceiveNumbered(n, p, k) ==
    \/ /\ ReceivedPacket(p, k.seqno) \/ k.confirm > p.out
       /\ Keep(n, p)
    \/ /\ ~ReceivedPacket(p, k.seqno) /\ k.confirm <= p.out
       /\ MessageFails(p, start[n], k.msg)
       /\ Abort(n)
       /\ UNCHANGED <<pair, prepared, delivered, again>>
    \/ /\ ~ReceivedPacket(p, k.seqno) /\ k.confirm <= p.out
       /\ ~MessageFails(p, start[n], k.msg)
       /\ pair' = [pair EXCEPT ![n] = ProcessMessage(Accepted(p, k), start[n], k.msg)]
       /\ delivered' = [delivered EXCEPT ![n] = @ \cup {k}]
       /\ again' = IF k \in delivered[n] THEN again \cup {k} ELSE again
       /\ UNCHANGED <<up, prepared>>

(* receive_packet_checked with the dates of a signed packet.  The address   *)
(* list in it has the start time of its sender and adds nothing here.  The  *)
(* answer to a packet for an earlier incarnation of this node is sent now,  *)
(* or postponed when there is no connection.                                *)
ReceiveSigned(n) == \E k \in net :
    LET fresh == k.dst_reinit <= start[n]
        q == IF fresh /\ k.reinit > pair[n].reinit THEN Reinit(pair[n], k.reinit) ELSE pair[n]
        current == fresh /\ ~FromOldPeer(q, k)
    IN  /\ up[n] /\ k.to = n /\ ~k.channel
        /\ \/ ~current /\ Keep(n, q)
           \/ current /\ ForOldUs(n, k) /\ Keep(n, q)
           \/ /\ current /\ ForOldUs(n, k)
              /\ SendMessages(n, q)
              /\ UNCHANGED <<up, delivered, again>>
           \/ current /\ ~ForOldUs(n, k) /\ ReceiveNumbered(n, q, k)
        /\ UNCHANGED <<start, channels, mailbox, net>>

(* The peer table looks the channel up and hands the packet on.  The        *)
(* channel is named by the keys of both sides.                              *)
TableReceive(n) == \E k \in net :
    /\ up[n] /\ k.to = n /\ k.channel
    /\ k.to_key = start[n] /\ k.from_key \in channels[n]
    /\ mailbox' = [mailbox EXCEPT ![n] = @ \cup {k}]
    /\ UNCHANGED <<up, start, pair, channels, prepared, net, delivered, again>>

(* The id of the last channel outlives a reinit.  A packet of a channel has *)
(* no dates, so that the checks of dates let it pass.                       *)
ReceiveFromChannel(n) == \E k \in mailbox[n] :
    /\ up[n]
    /\ mailbox' = [mailbox EXCEPT ![n] = @ \ {k}]
    /\ \/ /\ k.from_key # pair[n].peer
          /\ UNCHANGED <<up, pair, prepared, delivered, again>>
       \/ /\ k.from_key = pair[n].peer
          /\ ReceiveNumbered(n, [pair[n] EXCEPT !.ready = TRUE], k)
    /\ UNCHANGED <<start, channels, net>>

(* The peer table runs the next call of the pair: CHECK(success) and        *)
(* CHECK(erased == 1).                                                      *)
TableFails(c, r) == (r.op = "register") = (r.key \in c)

TableAfter(c, r) == IF r.op = "register" THEN c \cup {r.key} ELSE c \ {r.key}

TableCall(n) ==
    /\ up[n] /\ pair[n].todo # << >>
    /\ LET r == Head(pair[n].todo)
       IN  /\ up' = [up EXCEPT ![n] = ~TableFails(channels[n], r)]
           /\ channels' = [channels EXCEPT ![n] = TableAfter(@, r)]
           /\ pair' = [pair EXCEPT ![n].todo = Tail(@)]
    /\ UNCHANGED <<start, mailbox, prepared, net, delivered, again>>

(* The DHT knows an address list of the peer, of this start or of an        *)
(* earlier one.                                                             *)
Discover(n) == \E date \in 1..start[Other(n)] :
    /\ up[n] /\ date > pair[n].reinit
    /\ pair' = [pair EXCEPT ![n] = Reinit(@, date)]
    /\ UNCHANGED <<up, start, channels, mailbox, prepared, net, delivered, again>>

Restart(n) ==
    /\ start[n] < MaxStart[n]
    /\ start' = [start EXCEPT ![n] = @ + 1]
    /\ up' = [up EXCEPT ![n] = TRUE]
    /\ pair' = [pair EXCEPT ![n] = NewPair]
    /\ channels' = [channels EXCEPT ![n] = {}]
    /\ mailbox' = [mailbox EXCEPT ![n] = {}]
    /\ prepared' = [prepared EXCEPT ![n] = {}]
    /\ delivered' = [delivered EXCEPT ![n] = {}]
    /\ UNCHANGED <<net, again>>

Next == \E n \in Node :
    \/ Send(n)
    \/ SendContinue(n)
    \/ ReceiveSigned(n)
    \/ TableReceive(n)
    \/ ReceiveFromChannel(n)
    \/ TableCall(n)
    \/ Discover(n)
    \/ Restart(n)

Spec == Init /\ [][Next]_vars

(***************************************************************************)
(* Properties.                                                             *)
(***************************************************************************)
(* The types; the window never has more bits than recv_seqno_mask_, and     *)
(* nothing is confirmed that was not sent (confirm_seqno against            *)
(* out_seqno_).                                                             *)
TypeOK ==
    /\ up \in [Node -> BOOLEAN]
    /\ \A n \in Node :
         /\ start[n] \in 1..MaxStart[n]
         /\ channels[n] \subseteq 1..MaxStart[Other(n)]
         /\ pair[n].reinit \in 0..start[Other(n)]
         /\ pair[n].inited \in BOOLEAN /\ pair[n].ready \in BOOLEAN
         /\ pair[n].mask \subseteq 0..Window - 1
         /\ pair[n].in \in 0..MaxSeqno
         /\ pair[n].out \in 0..MaxSeqno
         /\ pair[n].ack \in 0..pair[n].out
    /\ again \subseteq net /\ \A n \in Node : delivered[n] \subseteq net

(* However the network repeats and reorders packets, and whenever nodes     *)
(* restart, an incarnation of a node delivers a signed packet at most once  *)
(* (received_packet, reinit).                                               *)
SignedOnce == \A k \in again : k.channel

(* A channel that a node may send through can be read by its peer: the peer *)
(* has created it with the same two keys (createChannel, confirmChannel).   *)
ReadyReadable == \A n \in Node :
    LET o == Other(n)
    IN  (up[n] /\ up[o] /\ pair[n].ready /\ pair[n].inited /\ pair[n].peer = start[o])
          => pair[o].inited /\ pair[o].peer = start[n]

(* The table and the calls on their way to it are about the channel the     *)
(* pair has and no other, and no call fails its CHECK (register_channel,    *)
(* unregister_channel).                                                     *)
TableAgrees == \A n \in Node :
    LET todo == pair[n].todo
        Table[i \in 0..Len(todo)] ==
            IF i = 0 THEN channels[n] ELSE TableAfter(Table[i - 1], todo[i])
    IN  /\ \A i \in 1..Len(todo) : ~TableFails(Table[i - 1], todo[i])
        /\ Table[Len(todo)] = IF pair[n].inited THEN {pair[n].peer} ELSE {}

(* Signed packets of an incarnation of the peer are never delivered after   *)
(* those of a later one, nor to an incarnation of this node that the packet *)
(* was not meant for (reinit_date, dst_reinit_date).                        *)
IncarnationsInOrder ==
    [][\A n \in Node : \A k \in delivered'[n] \ delivered[n] :
         ~k.channel => /\ k.dst_reinit \in {0, start[n]}
                       /\ \A j \in delivered[n] : j.from_key <= k.from_key]_vars

(* No CHECK fails: CHECK(!channel_ready_) in create_channel, CHECK(!empty()) *)
(* when a packet is handed to channel_, and those of the peer table.        *)
ChecksHold == \A n \in Node : up[n]
=============================================================================
