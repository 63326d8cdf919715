------------------------------ MODULE AdnlProofs ------------------------------
(***************************************************************************)
(* The window of AdnlPeer for every width; that a signed packet is         *)
(* delivered at most once to an incarnation of a node, and in the order of *)
(* the incarnations that sent them; and that a channel in use can be read. *)
(***************************************************************************)
EXTENDS AdnlPeer, TLAPS

(* A pair has the fields of AdnlPeerPairImpl, a window and a date.          *)
IsPair(p) ==
    /\ p = [reinit |-> p.reinit, inited |-> p.inited, ready |-> p.ready, peer |-> p.peer,
            date |-> p.date, in |-> p.in, mask |-> p.mask, out |-> p.out, ack |-> p.ack,
            todo |-> p.todo]
    /\ p.reinit \in Nat /\ p.in \in Nat /\ p.out \in Nat
    /\ p.mask \subseteq 0..Window - 1

(* add_received_packet: the number is received from then on, and so is      *)
(* every number that was.                                                   *)
LEMMA WindowKeeps ==
    ASSUME NEW p, IsPair(p), NEW s \in Nat, NEW t \in Nat, ~ReceivedPacket(p, s)
    PROVE  /\ ReceivedPacket(AddReceivedPacket(p, s), s)
           /\ ReceivedPacket(p, t) => ReceivedPacket(AddReceivedPacket(p, s), t)
<1> DEFINE q == AddReceivedPacket(p, s)
<1>1. CASE s <= p.in
  <2>1. q.in = p.in /\ q.mask = p.mask \cup {p.in - s}
    BY <1>1 DEF AddReceivedPacket, IsPair
  <2>2. QED BY <1>1, <2>1, AdnlAssumption DEF ReceivedPacket, IsPair
<1>2. CASE ~(s <= p.in)
  <2>1. q.in = s /\ q.mask = {i \in 1..Window - 1 : i - (s - p.in) \in p.mask} \cup {0}
    BY <1>2 DEF AddReceivedPacket, IsPair
  <2>2. ReceivedPacket(q, s)
    BY <2>1 DEF ReceivedPacket
  <2>3. ASSUME t <= p.in, p.in - t \in p.mask, ~(t + Window <= s)
        PROVE  s - t \in q.mask
    <3>1. s - t \in 1..Window - 1
      BY <1>2, <2>3, AdnlAssumption DEF IsPair
    <3>2. (s - t) - (s - p.in) = p.in - t
      BY DEF IsPair
    <3>3. QED BY <2>1, <2>3, <3>1, <3>2
  <2>4. QED BY <1>2, <2>1, <2>2, <2>3, AdnlAssumption DEF ReceivedPacket, IsPair
<1>3. QED BY <1>1, <1>2

(* ... and no other number that the window still holds is taken for         *)
(* received.                                                                *)
LEMMA WindowExact ==
    ASSUME NEW p, IsPair(p), NEW s \in Nat, NEW t \in Nat, ~ReceivedPacket(p, s),
           t # s, ~ReceivedPacket(p, t), t + Window > AddReceivedPacket(p, s).in
    PROVE  ~ReceivedPacket(AddReceivedPacket(p, s), t)
<1> DEFINE q == AddReceivedPacket(p, s)
<1>1. CASE s <= p.in
  <2>1. q.in = p.in /\ q.mask = p.mask \cup {p.in - s}
    BY <1>1 DEF AddReceivedPacket, IsPair
  <2>2. QED BY <1>1, <2>1, AdnlAssumption DEF ReceivedPacket, IsPair
<1>2. CASE ~(s <= p.in)
  <2>1. q.in = s /\ q.mask = {i \in 1..Window - 1 : i - (s - p.in) \in p.mask} \cup {0}
    BY <1>2 DEF AddReceivedPacket, IsPair
  <2>2. t <= s => s - t \notin q.mask
    <3>1. (s - t) - (s - p.in) = p.in - t /\ s - t # 0
      BY DEF IsPair
    <3>2. p.in - t \in p.mask => t <= p.in
      BY AdnlAssumption DEF IsPair
    <3>3. p.in - t \notin p.mask
      BY <3>2 DEF ReceivedPacket
    <3>4. QED BY <2>1, <3>1, <3>3
  <2>3. QED BY <2>1, <2>2, AdnlAssumption DEF ReceivedPacket, IsPair
<1>3. QED BY <1>1, <1>2

(* The window keeps its width.                                              *)
LEMMA WindowType ==
    ASSUME NEW p, IsPair(p), NEW s \in Nat, ~ReceivedPacket(p, s)
    PROVE  /\ IsPair(AddReceivedPacket(p, s))
           /\ AddReceivedPacket(p, s).reinit = p.reinit
<1> DEFINE q == AddReceivedPacket(p, s)
<1>1. CASE s <= p.in
  <2>1. p.in - s \in 0..Window - 1
    BY <1>1, AdnlAssumption DEF ReceivedPacket, IsPair
  <2>2. q = [p EXCEPT !.mask = @ \cup {p.in - s}]
    BY <1>1 DEF AddReceivedPacket
  <2>3. QED BY <2>1, <2>2 DEF IsPair
<1>2. CASE ~(s <= p.in)
  <2> DEFINE mm == {i \in 1..Window - 1 : i - (s - p.in) \in p.mask} \cup {0}
  <2>1. mm \subseteq 0..Window - 1
    BY AdnlAssumption
  <2>2. q = [p EXCEPT !.in = s, !.mask = mm]
    BY <1>2 DEF AddReceivedPacket
  <2> HIDE DEF mm
  <2>3. QED BY <2>1, <2>2, Zenon DEF IsPair
<1>3. QED BY <1>1, <1>2

(***************************************************************************)
(* The invariant.  A delivered packet either is of an earlier incarnation  *)
(* of the peer than the pair knows of, and then its date is too old, or it *)
(* is in the window.                                                       *)
(***************************************************************************)
IsPacket(k) ==
    /\ k = [to |-> k.to, from_key |-> k.from_key, channel |-> k.channel, to_key |-> k.to_key,
            seqno |-> k.seqno, confirm |-> k.confirm, msg |-> k.msg,
            reinit |-> k.reinit, dst_reinit |-> k.dst_reinit]
    /\ k.seqno \in Nat
    /\ k.reinit \in Nat
    /\ ~k.channel => k.reinit > 0

Seen(p, k) ==
    k.channel \/ /\ IsPacket(k)
                 /\ k.reinit <= p.reinit
                 /\ k.reinit = p.reinit => ReceivedPacket(p, k.seqno)

IInv ==
    /\ start \in [Node -> Nat \ {0}]
    /\ pair = [n \in Node |-> pair[n]] /\ \A n \in Node : IsPair(pair[n])
    /\ \A k \in net : IsPacket(k)
    /\ prepared = [n \in Node |-> prepared[n]] /\ \A n \in Node : \A k \in prepared[n] : IsPacket(k)
    /\ mailbox = [n \in Node |-> mailbox[n]] /\ \A n \in Node : \A k \in mailbox[n] : IsPacket(k) /\ k.channel
    /\ delivered = [n \in Node |-> delivered[n]] /\ \A n \in Node : \A k \in delivered[n] : Seen(pair[n], k)
    /\ SignedOnce

(* Two pairs with the same date and window have seen the same packets.      *)
SameWindow(p, q) == q.reinit = p.reinit /\ q.in = p.in /\ q.mask = p.mask

LEMMA SeenSame ==
    ASSUME NEW p, NEW q, SameWindow(p, q), NEW k, Seen(p, k)
    PROVE  Seen(q, k)
BY DEF Seen, SameWindow, ReceivedPacket

(* reinit clears the window only for a later date.                          *)
LEMMA ReinitSeen ==
    ASSUME NEW p, IsPair(p), NEW date \in Nat
    PROVE  /\ IsPair(Reinit(p, date))
           /\ \A k : Seen(p, k) => Seen(Reinit(p, date), k)
           /\ date > p.reinit => Reinit(p, date).reinit = date
<1> DEFINE q == Reinit(p, date)
<1>1. CASE p.reinit = 0 \/ p.reinit >= date
  <2>1. q = [p EXCEPT !.reinit = IF p.reinit = 0 THEN date ELSE p.reinit]
    BY <1>1 DEF Reinit
  <2>2. /\ IsPair(q)
        /\ q.in = p.in /\ q.mask = p.mask
        /\ q.reinit = IF p.reinit = 0 THEN date ELSE p.reinit
    BY <2>1 DEF IsPair
  <2>3. QED BY <1>1, <2>2 DEF Seen, ReceivedPacket, IsPacket, IsPair
<1>2. CASE ~(p.reinit = 0 \/ p.reinit >= date)
  <2> DEFINE calls == IF p.inited THEN Append(p.todo, [op |-> "unregister", key |-> p.peer])
                      ELSE p.todo
  <2>1. q = [NewPair EXCEPT !.reinit = date, !.peer = p.peer, !.date = p.date, !.todo = calls]
    BY <1>2 DEF Reinit
  <2> HIDE DEF calls
  <2>2. IsPair(q) /\ q.reinit = date
    <3>1. q = [reinit |-> date, inited |-> FALSE, ready |-> FALSE, peer |-> p.peer,
               date |-> p.date, in |-> 0, mask |-> {}, out |-> 0, ack |-> 0, todo |-> calls]
      BY <2>1, Zenon DEF NewPair
    <3> HIDE DEF q
    <3>2. QED BY <3>1 DEF IsPair
  <2>3. QED BY <1>2, <2>2 DEF Seen, IsPacket, IsPair
<1>3. QED BY <1>1, <1>2

(* create_channel and confirm_channel leave the window alone.               *)
LEMMA CreateWindow ==
    ASSUME NEW p, IsPair(p), NEW key, NEW date
    PROVE  LET q == CreateChannel(p, key, date) IN IsPair(q) /\ SameWindow(p, q)
<1> DEFINE calls == (IF p.inited THEN Append(p.todo, [op |-> "unregister", key |-> p.peer])
                     ELSE p.todo) \o <<[op |-> "register", key |-> key]>>
<1>1. CreateChannel(p, key, date) =
        IF KeepsChannel(p, key, date) THEN p
        ELSE [p EXCEPT !.peer = key, !.date = date, !.inited = TRUE, !.ready = FALSE, !.todo = calls]
  BY DEF CreateChannel
<1> HIDE DEF calls
<1>2. QED BY <1>1, Zenon DEF IsPair, SameWindow

LEMMA MessageWindow ==
    ASSUME NEW p, IsPair(p), NEW own, NEW m
    PROVE  LET q == ProcessMessage(p, own, m) IN IsPair(q) /\ SameWindow(p, q)
<1> DEFINE c == CreateChannel(p, m.key, m.key)
<1>1. IsPair(c) /\ SameWindow(p, c)
  BY CreateWindow
<1>2. LET q == ConfirmChannel(p, own, m) IN IsPair(q) /\ SameWindow(p, q)
  <2>1. ConfirmChannel(p, own, m) =
          IF m.peer_key # own THEN p ELSE IF c.peer = m.key THEN [c EXCEPT !.ready = TRUE] ELSE c
    BY DEF ConfirmChannel
  <2> HIDE DEF c
  <2>2. QED BY <1>1, <2>1, Zenon DEF IsPair, SameWindow
<1>3. SameWindow(p, p)
  BY DEF SameWindow
<1>4. CASE m.type = "create"
  BY <1>1, <1>4 DEF ProcessMessage
<1>5. CASE m.type = "confirm"
  BY <1>2, <1>5 DEF ProcessMessage
<1>6. CASE m.type # "create" /\ m.type # "confirm"
  BY <1>3, <1>6 DEF ProcessMessage
<1>7. QED BY <1>4, <1>5, <1>6

(* So do the fields that have nothing to do with the window.                *)
LEMMA FieldWindow ==
    ASSUME NEW p, IsPair(p), NEW x
    PROVE  /\ IsPair([p EXCEPT !.ready = x]) /\ SameWindow(p, [p EXCEPT !.ready = x])
           /\ IsPair([p EXCEPT !.todo = x]) /\ SameWindow(p, [p EXCEPT !.todo = x])
BY DEF IsPair, SameWindow

(***************************************************************************)
(* The steps.                                                              *)
(***************************************************************************)
LEMMA InitIInv == Init => IInv
<1> SUFFICES ASSUME Init PROVE IInv
  OBVIOUS
<1>1. \A n \in Node : IsPair(pair[n])
  BY DEF Init, IsPair, NewPair
<1>2. QED BY <1>1 DEF Init, IInv, SignedOnce

(* A packet that is prepared is well formed.                                *)
LEMMA SendIInv ==
    ASSUME IInv, NEW n \in Node, NEW p, IsPair(p),
           \A k \in delivered[n] : Seen(p, k), SendMessages(n, p),
           UNCHANGED <<up, start, channels, mailbox, net, delivered, again>>
    PROVE  IInv'
<1> DEFINE q == [p EXCEPT !.out = @ + 1]
<1>1. IsPair(q) /\ SameWindow(p, q)
  BY DEF IsPair, SameWindow
<1>2. IsPacket(Packet(n, p))
  <2>1. p.out + 1 \in Nat /\ start[n] \in Nat /\ start[n] > 0
    BY DEF IsPair, IInv
  <2>2. QED BY <2>1 DEF Packet, IsPacket
<1>3. \A k \in delivered[n] : Seen(q, k)
  BY <1>1, SeenSame
<1>4. pair' = [pair EXCEPT ![n] = q] /\ prepared' = [prepared EXCEPT ![n] = @ \cup {Packet(n, p)}]
  BY DEF SendMessages
<1> HIDE DEF q
<1>5. /\ pair' = [m \in Node |-> pair'[m]] /\ \A m \in Node : IsPair(pair'[m])
      /\ \A m \in Node : \A k \in delivered[m] : Seen(pair'[m], k)
  BY <1>1, <1>3, <1>4 DEF IInv
<1>6. prepared' = [m \in Node |-> prepared'[m]] /\ \A m \in Node : \A k \in prepared'[m] : IsPacket(k)
  BY <1>2, <1>4, Zenon DEF IInv
<1>7. QED BY <1>5, <1>6 DEF IInv, SignedOnce

(* A pair that has seen what the old one had may replace it.                *)
LEMMA PairIInv ==
    ASSUME IInv, NEW n \in Node, NEW p, IsPair(p),
           \A k \in delivered[n] : Seen(p, k), pair' = [pair EXCEPT ![n] = p],
           UNCHANGED <<start, net, prepared, delivered, again>>,
           mailbox' = [m \in Node |-> mailbox'[m]],
           \A m \in Node : mailbox'[m] \subseteq mailbox[m]
    PROVE  IInv'
<1>1. /\ pair' = [m \in Node |-> pair'[m]] /\ \A m \in Node : IsPair(pair'[m])
      /\ \A m \in Node : \A k \in delivered[m] : Seen(pair'[m], k)
  BY DEF IInv
<1>2. \A m \in Node : \A k \in mailbox'[m] : IsPacket(k) /\ k.channel
  BY DEF IInv
<1>3. QED BY <1>1, <1>2 DEF IInv, SignedOnce

(* A packet that passes the window was not delivered, or came through a     *)
(* channel.                                                                 *)
LEMMA NumberedIInv ==
    ASSUME IInv, NEW n \in Node, NEW p, IsPair(p), NEW k, IsPacket(k),
           \A j \in delivered[n] : Seen(p, j),
           k.channel \/ k.reinit = p.reinit,
           ReceiveNumbered(n, p, k), UNCHANGED <<start, net>>,
           mailbox' = [m \in Node |-> mailbox'[m]],
           \A m \in Node : mailbox'[m] \subseteq mailbox[m]
    PROVE  IInv'
<1>1. CASE Keep(n, p)
  BY <1>1, PairIInv, Zenon DEF Keep
<1>2. CASE UNCHANGED <<pair, prepared, delivered, again>>
  <2>1. \A m \in Node : \A j \in mailbox'[m] : IsPacket(j) /\ j.channel
    BY DEF IInv
  <2>2. QED BY <1>2, <2>1 DEF IInv, SignedOnce
<1>3. CASE /\ ~ReceivedPacket(p, k.seqno)
           /\ pair' = [pair EXCEPT ![n] = ProcessMessage(Accepted(p, k), start[n], k.msg)]
           /\ delivered' = [delivered EXCEPT ![n] = @ \cup {k}]
           /\ again' = IF k \in delivered[n] THEN again \cup {k} ELSE again
           /\ UNCHANGED <<up, prepared>>
  <2> DEFINE w == AddReceivedPacket(p, k.seqno)
             v == Accepted(p, k)
             q == ProcessMessage(v, start[n], k.msg)
  <2>1. k.seqno \in Nat
    BY DEF IsPacket
  <2>2. IsPair(w) /\ w.reinit = p.reinit
    BY <1>3, <2>1, WindowType
  <2>3. IsPair(v) /\ SameWindow(w, v)
    BY <2>2 DEF Accepted, IsPair, SameWindow
  <2>4. IsPair(q) /\ SameWindow(v, q)
    BY <2>3, MessageWindow
  <2>5. SameWindow(w, q)
    BY <2>3, <2>4 DEF SameWindow
  <2>6. \A j \in delivered[n] : Seen(w, j)
    <3> SUFFICES ASSUME NEW j \in delivered[n], ~j.channel PROVE Seen(w, j)
      BY DEF Seen
    <3>1. IsPacket(j) /\ j.reinit <= p.reinit /\ (j.reinit = p.reinit => ReceivedPacket(p, j.seqno))
      BY DEF Seen
    <3>2. j.reinit = p.reinit => ReceivedPacket(w, j.seqno)
      BY <1>3, <2>1, <3>1, WindowKeeps DEF IsPacket
    <3>3. QED BY <2>2, <3>1, <3>2 DEF Seen
  <2>7. Seen(w, k)
    <3>1. ReceivedPacket(w, k.seqno)
      BY <1>3, <2>1, WindowKeeps
    <3>2. k.channel \/ k.reinit <= w.reinit
      BY <2>2 DEF IsPacket, IsPair
    <3>3. QED BY <3>1, <3>2 DEF Seen
  <2>8. \A j \in delivered[n] \cup {k} : Seen(q, j)
    BY <2>5, <2>6, <2>7, SeenSame
  <2>9. k \in delivered[n] => k.channel
    BY <1>3 DEF Seen
  <2> HIDE DEF q
  <2>10. pair' = [pair EXCEPT ![n] = q]
    BY <1>3 DEF q
  <2>11. /\ pair' = [m \in Node |-> pair'[m]] /\ \A m \in Node : IsPair(pair'[m])
         /\ delivered' = [m \in Node |-> delivered'[m]]
         /\ \A m \in Node : \A j \in delivered'[m] : Seen(pair'[m], j)
    BY <1>3, <2>4, <2>8, <2>10, Zenon DEF IInv
  <2>12. SignedOnce'
    BY <1>3, <2>9 DEF IInv, SignedOnce
  <2>13. \A m \in Node : \A j \in mailbox'[m] : IsPacket(j) /\ j.channel
    BY DEF IInv
  <2>14. QED BY <1>3, <2>11, <2>12, <2>13 DEF IInv
<1>4. QED BY <1>1, <1>2, <1>3 DEF ReceiveNumbered

(* A date that is not older than what the pair knows is what the pair knows *)
(* then.                                                                    *)
LEMMA SignedIInv ==
    ASSUME IInv, NEW n \in Node, ReceiveSigned(n)
    PROVE  IInv'
<1> PICK k \in net :
      LET fresh == k.dst_reinit <= start[n]
          q == IF fresh /\ k.reinit > pair[n].reinit THEN Reinit(pair[n], k.reinit) ELSE pair[n]
          current == fresh /\ ~FromOldPeer(q, k)
      IN  /\ up[n] /\ k.to = n /\ ~k.channel
          /\ \/ ~current /\ Keep(n, q)
             \/ current /\ ForOldUs(n, k) /\ Keep(n, q)
             \/ /\ current /\ ForOldUs(n, k)
                /\ SendMessages(n, q)
                /\ UNCHANGED <<up, delivered, again>>
             \/ current /\ ~ForOldUs(n, k) /\ ReceiveNumbered(n, q, k)
          /\ UNCHANGED <<start, channels, mailbox, net>>
  BY DEF ReceiveSigned
<1> DEFINE fresh == k.dst_reinit <= start[n]
           q == IF fresh /\ k.reinit > pair[n].reinit THEN Reinit(pair[n], k.reinit) ELSE pair[n]
           current == fresh /\ ~FromOldPeer(q, k)
<1>1. IsPacket(k) /\ k.reinit \in Nat /\ k.reinit > 0 /\ ~k.channel
  BY DEF IInv, IsPacket
<1>2. IsPair(pair[n]) /\ \A j \in delivered[n] : Seen(pair[n], j)
  BY DEF IInv
<1>3. /\ IsPair(q) /\ \A j \in delivered[n] : Seen(q, j)
      /\ fresh => k.reinit <= q.reinit
  <2>1. CASE fresh /\ k.reinit > pair[n].reinit
    BY <1>1, <1>2, <2>1, ReinitSeen
  <2>2. CASE ~(fresh /\ k.reinit > pair[n].reinit)
    BY <1>1, <1>2, <2>2 DEF IsPair
  <2>3. QED BY <2>1, <2>2
<1>4. current => k.reinit = q.reinit
  BY <1>1, <1>3 DEF FromOldPeer, IsPair
<1> HIDE DEF q, current, fresh
<1>5. /\ mailbox' = [m \in Node |-> mailbox'[m]] /\ \A m \in Node : mailbox'[m] \subseteq mailbox[m]
      /\ UNCHANGED <<start, channels, mailbox, net>>
  BY DEF IInv
<1>6. CASE Keep(n, q)
  BY <1>3, <1>5, <1>6, PairIInv, Zenon DEF Keep
<1>7. CASE SendMessages(n, q) /\ UNCHANGED <<up, delivered, again>>
  BY <1>3, <1>5, <1>7, SendIInv
<1>8. CASE current /\ ReceiveNumbered(n, q, k)
  BY <1>1, <1>3, <1>4, <1>5, <1>8, NumberedIInv
<1>9. QED BY <1>6, <1>7, <1>8 DEF q, current, fresh

LEMMA ChannelIInv ==
    ASSUME IInv, NEW n \in Node, ReceiveFromChannel(n)
    PROVE  IInv'
<1> PICK k \in mailbox[n] :
      /\ mailbox' = [mailbox EXCEPT ![n] = @ \ {k}]
      /\ \/ UNCHANGED <<up, pair, prepared, delivered, again>>
         \/ ReceiveNumbered(n, [pair[n] EXCEPT !.ready = TRUE], k)
      /\ UNCHANGED <<start, channels, net>>
  BY Zenon DEF ReceiveFromChannel
<1> DEFINE p == [pair[n] EXCEPT !.ready = TRUE]
<1>1. IsPair(pair[n]) /\ \A j \in delivered[n] : Seen(pair[n], j)
  BY DEF IInv
<1>2. IsPair(p) /\ SameWindow(pair[n], p)
  BY <1>1, FieldWindow, Zenon
<1>3. \A j \in delivered[n] : Seen(p, j)
  BY <1>1, <1>2, SeenSame
<1>4. mailbox' = [m \in Node |-> mailbox'[m]] /\ \A m \in Node : mailbox'[m] \subseteq mailbox[m]
  BY Zenon DEF IInv
<1>5. IsPacket(k) /\ k.channel
  BY DEF IInv
<1> HIDE DEF p
<1>6. CASE UNCHANGED <<up, pair, prepared, delivered, again>>
  <2>1. \A m \in Node : \A j \in mailbox'[m] : IsPacket(j) /\ j.channel
    BY <1>4 DEF IInv
  <2>2. QED BY <1>4, <1>6, <2>1 DEF IInv, SignedOnce
<1>7. CASE ReceiveNumbered(n, p, k)
  BY <1>2, <1>3, <1>4, <1>5, <1>7, NumberedIInv, Zenon
<1>8. QED BY <1>6, <1>7 DEF p

LEMMA StepIInv == IInv /\ [Next]_vars => IInv'
<1> SUFFICES ASSUME IInv, [Next]_vars PROVE IInv'
  OBVIOUS
<1>1. CASE UNCHANGED vars
  BY <1>1 DEF vars, IInv, SignedOnce
<1>2. ASSUME NEW n \in Node, Send(n) PROVE IInv'
  <2>1. IsPair(pair[n]) /\ \A k \in delivered[n] : Seen(pair[n], k)
    BY DEF IInv
  <2>2. QED BY <1>2, <2>1, SendIInv DEF Send
<1>3. ASSUME NEW n \in Node, SendContinue(n) PROVE IInv'
  <2>1. PICK k \in prepared[n] :
          /\ prepared' = [prepared EXCEPT ![n] = @ \ {k}]
          /\ \/ net' = net \cup {k}
             \/ k.channel /\ net' = net \cup {[k EXCEPT !.to_key = pair[n].peer]}
             \/ net' = net
          /\ UNCHANGED <<start, pair, channels, mailbox, delivered, again>>
    BY <1>3, Zenon DEF SendContinue
  <2>2. IsPacket(k)
    BY DEF IInv
  <2>3. k.channel => IsPacket([k EXCEPT !.to_key = pair[n].peer])
    BY <2>2 DEF IsPacket
  <2>4. \A j \in net' : IsPacket(j)
    BY <2>1, <2>2, <2>3 DEF IInv
  <2>5. prepared' = [m \in Node |-> prepared'[m]] /\ \A m \in Node : \A j \in prepared'[m] : IsPacket(j)
    BY <2>1, Zenon DEF IInv
  <2>6. QED BY <2>1, <2>4, <2>5 DEF IInv, SignedOnce
<1>4. ASSUME NEW n \in Node, TableReceive(n) PROVE IInv'
  <2>1. PICK k \in net : k.channel /\ mailbox' = [mailbox EXCEPT ![n] = @ \cup {k}]
    BY <1>4, Zenon DEF TableReceive
  <2>2. /\ mailbox' = [m \in Node |-> mailbox'[m]]
        /\ \A m \in Node : \A j \in mailbox'[m] : IsPacket(j) /\ j.channel
    BY <2>1, Zenon DEF IInv
  <2>3. QED BY <1>4, <2>2 DEF TableReceive, IInv, SignedOnce
<1>5. ASSUME NEW n \in Node, TableCall(n) PROVE IInv'
  <2> DEFINE p == [pair[n] EXCEPT !.todo = Tail(pair[n].todo)]
  <2>1. IsPair(pair[n]) /\ \A k \in delivered[n] : Seen(pair[n], k)
    BY DEF IInv
  <2>2. IsPair(p) /\ SameWindow(pair[n], p)
    BY <2>1, FieldWindow, Zenon
  <2>3. \A k \in delivered[n] : Seen(p, k)
    BY <2>1, <2>2, SeenSame
  <2>4. pair' = [pair EXCEPT ![n] = p] /\ UNCHANGED <<start, net, prepared, delivered, again, mailbox>>
    BY <1>5 DEF TableCall
  <2> HIDE DEF p
  <2>5. mailbox' = [m \in Node |-> mailbox'[m]] /\ \A m \in Node : mailbox'[m] \subseteq mailbox[m]
    BY <2>4 DEF IInv
  <2>6. QED BY <2>2, <2>3, <2>4, <2>5, PairIInv, Zenon
<1>6. ASSUME NEW n \in Node, Discover(n) PROVE IInv'
  <2>1. PICK date \in 1..start[Other(n)] : pair' = [pair EXCEPT ![n] = Reinit(pair[n], date)]
    BY <1>6, Zenon DEF Discover
  <2>2. IsPair(pair[n]) /\ \A k \in delivered[n] : Seen(pair[n], k)
    BY DEF IInv
  <2>3. date \in Nat
    OBVIOUS
  <2>4. IsPair(Reinit(pair[n], date)) /\ \A k \in delivered[n] : Seen(Reinit(pair[n], date), k)
    BY <2>2, <2>3, ReinitSeen
  <2>5. UNCHANGED <<start, net, prepared, delivered, again, mailbox>>
    BY <1>6 DEF Discover
  <2>6. mailbox' = [m \in Node |-> mailbox'[m]] /\ \A m \in Node : mailbox'[m] \subseteq mailbox[m]
    BY <2>5 DEF IInv
  <2>7. QED BY <2>1, <2>4, <2>5, <2>6, PairIInv, Zenon
<1>7. ASSUME NEW n \in Node, Restart(n) PROVE IInv'
  <2>1. IsPair(NewPair)
    BY DEF IsPair, NewPair
  <2>2. start' \in [Node -> Nat \ {0}]
    BY <1>7 DEF Restart, IInv
  <2>3. /\ pair' = [m \in Node |-> pair'[m]] /\ \A m \in Node : IsPair(pair'[m])
        /\ delivered' = [m \in Node |-> delivered'[m]]
        /\ \A m \in Node : \A k \in delivered'[m] : Seen(pair'[m], k)
    BY <1>7, <2>1, Zenon DEF Restart, IInv
  <2>4. /\ prepared' = [m \in Node |-> prepared'[m]]
        /\ \A m \in Node : \A k \in prepared'[m] : IsPacket(k)
    BY <1>7, Zenon DEF Restart, IInv
  <2>5. /\ mailbox' = [m \in Node |-> mailbox'[m]]
        /\ \A m \in Node : \A k \in mailbox'[m] : IsPacket(k) /\ k.channel
    BY <1>7, Zenon DEF Restart, IInv
  <2>6. QED BY <1>7, <2>2, <2>3, <2>4, <2>5 DEF Restart, IInv, SignedOnce
<1>8. QED BY <1>1, <1>2, <1>3, <1>4, <1>5, <1>6, <1>7, SignedIInv, ChannelIInv DEF Next

(* For every width of the window, number of packets and number of restarts: *)
(* an incarnation of a node delivers a signed packet at most once           *)
(* (received_packet, add_received_packet, reinit).                          *)
THEOREM AdnlSignedOnce == Spec => []SignedOnce
<1>1. IInv => SignedOnce
  BY DEF IInv
<1>2. QED BY InitIInv, StepIInv, <1>1, PTL DEF Spec
USE ZenonT(60)

(***************************************************************************)
(* The incarnations and the channels.                                      *)
(***************************************************************************)
Since(n) == 1..start[Other(n)]

Call(n) == [op : {"register", "unregister"}, key : Since(n)]

(* A pair knows of an incarnation of the peer before it has a channel with  *)
(* it, and takes nothing for confirmed that it did not send.                *)
Known(n, p) ==
    /\ p.reinit \in 0..start[Other(n)]
    /\ p.peer \in 0..p.reinit /\ p.date = p.peer
    /\ p.inited \in BOOLEAN /\ p.ready \in BOOLEAN
    /\ p.inited => p.peer > 0
    /\ p.in \in 0..MaxSeqno /\ p.out \in 0..MaxSeqno /\ p.ack \in 0..p.out
    /\ p.todo \in Seq(Call(n))

(* The node has created the channel between the two current incarnations.   *)
Created(n, p) == p.inited /\ p.peer = start[Other(n)]

Dated(k) ==
    /\ k.to \in Node /\ k.channel \in BOOLEAN
    /\ k.from_key \in Since(k.to)
    /\ k.to_key \in 0..start[k.to]
    /\ k.seqno \in 1..MaxSeqno /\ k.confirm \in Nat /\ k.dst_reinit \in Nat
    /\ ~k.channel => k.reinit = k.from_key
    /\ k.msg.type \in {"none", "create", "confirm"}
    /\ k.msg.type # "none" => k.msg.key = k.from_key
    /\ k.msg.type = "confirm" => k.msg.peer_key \in 0..start[k.to]

(* A packet between the current incarnations that uses or confirms their    *)
(* channel.                                                                 *)
Current(k) ==
    /\ k.from_key = start[Other(k.to)]
    /\ \/ k.channel /\ k.to_key = start[k.to]
       \/ k.msg.type = "confirm" /\ k.msg.peer_key = start[k.to]

(* Its sender has created the channel.                                      *)
Honest(k) == Current(k) => Created(Other(k.to), pair[Other(k.to)])

Pairs == \A n \in Node :
    /\ start[n] <= MaxStart[n]
    /\ Known(n, pair[n])
    /\ pair[n].ready /\ Created(n, pair[n]) => Created(Other(n), pair[Other(n)])

Tables ==
    /\ up \in [Node -> BOOLEAN]
    /\ channels = [n \in Node |-> channels[n]]
    /\ \A n \in Node : channels[n] \subseteq Since(n)

Packets ==
    /\ \A k \in net : Dated(k) /\ Honest(k)
    /\ \A n \in Node : \A k \in prepared[n] :
         Dated(k) /\ Honest(k) /\ k.to = Other(n) /\ k.from_key = start[n] /\ k.to_key = 0

Boxes == \A n \in Node :
    /\ \A k \in mailbox[n] : k \in net /\ k.to = n /\ k.to_key = start[n]
    /\ \A k \in delivered[n] : k \in net /\ k.from_key <= pair[n].reinit

CInv ==
    /\ IInv
    /\ Pairs
    /\ Tables
    /\ Packets
    /\ Boxes
    /\ again \subseteq net

LEMMA TwoNodes ==
    ASSUME NEW n \in Node
    PROVE  /\ Other(n) \in Node /\ Other(n) # n /\ Other(Other(n)) = n
           /\ \A m \in Node : m = n \/ m = Other(n)
<1>1. PICK x \in Node, y \in Node : x # y /\ Node = {x, y}
  BY AdnlAssumption
<1>2. \A m \in Node : Other(m) \in Node /\ Other(m) # m
  BY <1>1 DEF Other
<1> QED BY <1>1, <1>2

(***************************************************************************)
(* What happens to a pair.                                                 *)
(***************************************************************************)
(* A pair forgets neither an incarnation nor the channel with the current   *)
(* one.                                                                     *)
Later(n, p, q) ==
    /\ Known(n, q)
    /\ q.reinit >= p.reinit
    /\ Created(n, p) => Created(n, q)

LEMMA Starts ==
    ASSUME start \in [Node -> Nat \ {0}], NEW n \in Node
    PROVE  start[n] \in Nat \ {0} /\ start[Other(n)] \in Nat \ {0}
BY TwoNodes

LEMMA CallsGrow ==
    ASSUME NEW S, NEW q \in Seq(S), NEW c \in S
    PROVE  Append(q, c) \in Seq(S) /\ q \o <<c>> \in Seq(S)
BY SMT

LEMMA ReinitLater ==
    ASSUME start \in [Node -> Nat \ {0}], NEW n \in Node, NEW p, IsPair(p), Known(n, p),
           NEW date \in Since(n), date > p.reinit
    PROVE  LET q == Reinit(p, date)
           IN  /\ Later(n, p, q) /\ q.reinit = date
               /\ q.ready /\ Created(n, q) => p.ready /\ Created(n, p)
<1> DEFINE q == Reinit(p, date)
<1>1. start[Other(n)] \in Nat \ {0} /\ MaxSeqno \in Nat
  BY Starts, AdnlAssumption
<1>2. CASE p.reinit = 0
  <2>1. q = [p EXCEPT !.reinit = date]
    BY <1>2 DEF Reinit
  <2>2. /\ q.reinit = date /\ q.peer = p.peer /\ q.date = p.date /\ q.inited = p.inited
        /\ q.ready = p.ready /\ q.in = p.in /\ q.out = p.out /\ q.ack = p.ack /\ q.todo = p.todo
    BY <2>1 DEF IsPair
  <2>3. Known(n, q)
    BY <1>1, <1>2, <2>2, SMT DEF Known, Since
  <2> HIDE DEF q
  <2>4. Later(n, p, q) /\ (q.ready /\ Created(n, q) => p.ready /\ Created(n, p))
    BY <1>1, <1>2, <2>2, <2>3, SMT DEF Later, Created, Since
  <2>5. QED BY <2>2, <2>4 DEF q
<1>3. CASE p.reinit # 0
  <2> DEFINE calls == IF p.inited THEN Append(p.todo, [op |-> "unregister", key |-> p.peer])
                      ELSE p.todo
  <2>1. q = [NewPair EXCEPT !.reinit = date, !.peer = p.peer, !.date = p.date, !.todo = calls]
    <3>1. ~(p.reinit = 0 \/ p.reinit >= date)
      BY <1>1, <1>3, SMT DEF IsPair, Since
    <3> QED BY <3>1 DEF Reinit
  <2>2. calls \in Seq(Call(n))
    <3>1. p.inited => p.peer \in Since(n)
      BY <1>1, SMT DEF Known, Since
    <3>2. p.inited => [op |-> "unregister", key |-> p.peer] \in Call(n)
      BY <3>1 DEF Call
    <3> QED BY <3>2, CallsGrow DEF Known
  <2> HIDE DEF calls
  <2>3. q = [reinit |-> date, inited |-> FALSE, ready |-> FALSE, peer |-> p.peer,
             date |-> p.date, in |-> 0, mask |-> {}, out |-> 0, ack |-> 0, todo |-> calls]
    BY <2>1 DEF NewPair
  <2> HIDE DEF q
  <2>4. Known(n, q)
    BY <1>1, <2>2, <2>3, SMT DEF Known, Since
  <2>5. ~Created(n, p)
    BY <1>1, SMT DEF Created, Known, Since
  <2>6. QED BY <2>3, <2>4, <2>5, <1>1, SMT DEF Later, Created, Since, IsPair, q
<1>4. QED BY <1>2, <1>3

(* createChannel keeps a channel unless the message has a later date.       *)
LEMMA CreateLater ==
    ASSUME start \in [Node -> Nat \ {0}], NEW n \in Node, NEW p, IsPair(p), Known(n, p),
           NEW key \in 1..p.reinit
    PROVE  LET q == CreateChannel(p, key, key)
           IN  /\ Later(n, p, q) /\ q.reinit = p.reinit
               /\ q.ready => p.ready /\ q = p
<1> DEFINE q == CreateChannel(p, key, key)
<1>1. start[Other(n)] \in Nat \ {0} /\ MaxSeqno \in Nat /\ p.reinit \in Nat
  BY Starts, AdnlAssumption DEF IsPair
<1>2. CASE KeepsChannel(p, key, key)
  BY <1>1, <1>2, SMT DEF CreateChannel, Later
<1>3. CASE ~KeepsChannel(p, key, key)
  <2> DEFINE calls == (IF p.inited THEN Append(p.todo, [op |-> "unregister", key |-> p.peer])
                       ELSE p.todo) \o <<[op |-> "register", key |-> key]>>
  <2>1. q = [p EXCEPT !.peer = key, !.date = key, !.inited = TRUE, !.ready = FALSE, !.todo = calls]
    BY <1>3 DEF CreateChannel
  <2>2. calls \in Seq(Call(n))
    <3>1. key \in Since(n) /\ (p.inited => p.peer \in Since(n))
      BY <1>1, SMT DEF Known, Since
    <3>2. /\ [op |-> "register", key |-> key] \in Call(n)
          /\ p.inited => [op |-> "unregister", key |-> p.peer] \in Call(n)
      BY <3>1 DEF Call
    <3>3. (IF p.inited THEN Append(p.todo, [op |-> "unregister", key |-> p.peer])
           ELSE p.todo) \in Seq(Call(n))
      BY <3>2, CallsGrow DEF Known
    <3> QED BY <3>2, <3>3, CallsGrow
  <2> HIDE DEF calls
  <2>3. /\ q.reinit = p.reinit /\ q.peer = key /\ q.date = key /\ q.inited = TRUE
        /\ q.ready = FALSE /\ q.in = p.in /\ q.out = p.out /\ q.ack = p.ack /\ q.todo = calls
    BY <2>1 DEF IsPair
  <2> HIDE DEF q
  <2>4. Known(n, q)
    <3>1. key \in 0..p.reinit /\ key > 0
      BY <1>1, SMT
    <3> QED BY <2>2, <2>3, <3>1 DEF Known
  <2>5. ~Created(n, p)
    BY <1>1, <1>3, SMT DEF Created, Known, KeepsChannel
  <2>6. QED BY <1>1, <2>3, <2>4, <2>5, SMT DEF Later, q
<1>4. QED BY <1>2, <1>3

(* A confirmed channel is one of the two keys in the message.               *)
LEMMA MessageLater ==
    ASSUME start \in [Node -> Nat \ {0}], NEW n \in Node, NEW p, IsPair(p), Known(n, p), NEW own,
           NEW m, m.type \in {"create", "confirm"} => m.key \in 1..p.reinit
    PROVE  LET q == ProcessMessage(p, own, m)
           IN  /\ Later(n, p, q) /\ q.reinit = p.reinit
               /\ q.ready /\ Created(n, q) =>
                    \/ p.ready /\ Created(n, p)
                    \/ m.type = "confirm" /\ m.peer_key = own /\ m.key = start[Other(n)]
<1>1. p.reinit \in Nat /\ p.reinit >= p.reinit
  BY SMT DEF IsPair
<1>2. CASE m.type \notin {"create", "confirm"}
  BY <1>1, <1>2 DEF ProcessMessage, Later
<1>3. CASE m.type \in {"create", "confirm"}
  <2> DEFINE c == CreateChannel(p, m.key, m.key)
  <2>1. Later(n, p, c) /\ c.reinit = p.reinit /\ (c.ready => p.ready /\ c = p)
    BY <1>3, CreateLater
  <2>2. IsPair(c)
    BY CreateWindow
  <2>3. CASE m.type = "create"
    BY <2>1, <2>3 DEF ProcessMessage
  <2>4. CASE m.type = "confirm" /\ m.peer_key # own
    BY <1>1, <2>4 DEF ProcessMessage, ConfirmChannel, Later
  <2>5. CASE m.type = "confirm" /\ m.peer_key = own /\ c.peer = m.key
    <3> DEFINE q == [c EXCEPT !.ready = TRUE]
    <3>1. ProcessMessage(p, own, m) = q
      BY <2>5 DEF ProcessMessage, ConfirmChannel
    <3> HIDE DEF c
    <3>2. /\ q.reinit = c.reinit /\ q.peer = c.peer /\ q.date = c.date /\ q.inited = c.inited
          /\ q.ready = TRUE /\ q.in = c.in /\ q.out = c.out /\ q.ack = c.ack /\ q.todo = c.todo
      BY <2>2 DEF IsPair
    <3> HIDE DEF q
    <3>3. Later(n, p, q)
      BY <2>1, <3>2 DEF Later, Known, Created
    <3>4. Created(n, q) => m.key = start[Other(n)]
      BY <2>5, <3>2 DEF Created
    <3> QED BY <2>1, <2>5, <3>1, <3>2, <3>3, <3>4
  <2>6. CASE m.type = "confirm" /\ m.peer_key = own /\ c.peer # m.key
    <3>1. ProcessMessage(p, own, m) = c
      BY <2>6 DEF ProcessMessage, ConfirmChannel
    <3> HIDE DEF c
    <3> QED BY <2>1, <3>1
  <2> QED BY <1>3, <2>3, <2>4, <2>5, <2>6
<1> QED BY <1>2, <1>3

(* The window and the confirmation of a packet stay within what was sent.   *)
LEMMA AcceptedLater ==
    ASSUME start \in [Node -> Nat \ {0}], NEW n \in Node, NEW p, IsPair(p), Known(n, p),
           NEW k, Dated(k), ~ReceivedPacket(p, k.seqno), k.confirm <= p.out
    PROVE  LET q == Accepted(p, k)
           IN  /\ IsPair(q) /\ Later(n, p, q) /\ q.reinit = p.reinit
               /\ q.peer = p.peer /\ q.inited = p.inited /\ q.ready = p.ready
<1> DEFINE w == AddReceivedPacket(p, k.seqno)
           a == IF k.confirm > p.ack THEN k.confirm ELSE p.ack
           q == [w EXCEPT !.ack = a]
<1>1. /\ k.seqno \in 1..MaxSeqno /\ k.confirm \in Nat /\ MaxSeqno \in Nat
      /\ p.reinit \in Nat /\ p.out \in Nat
  BY AdnlAssumption DEF Dated, IsPair
<1>2. IsPair(w)
  BY <1>1, WindowType, SMT
<1>3. /\ w.reinit = p.reinit /\ w.peer = p.peer /\ w.date = p.date /\ w.inited = p.inited
      /\ w.ready = p.ready /\ w.out = p.out /\ w.ack = p.ack /\ w.todo = p.todo
      /\ w.in = IF k.seqno <= p.in THEN p.in ELSE k.seqno
  <2>1. CASE k.seqno <= p.in
    <3>1. w = [p EXCEPT !.mask = @ \cup {p.in - k.seqno}]
      BY <2>1 DEF AddReceivedPacket
    <3> HIDE DEF w
    <3> QED BY <2>1, <3>1 DEF IsPair
  <2>2. CASE ~(k.seqno <= p.in)
    <3> DEFINE mm == {i \in 1..Window - 1 : i - (k.seqno - p.in) \in p.mask} \cup {0}
    <3>1. w = [p EXCEPT !.in = k.seqno, !.mask = mm]
      BY <2>2 DEF AddReceivedPacket
    <3> HIDE DEF w, mm
    <3> QED BY <2>2, <3>1 DEF IsPair
  <2> QED BY <2>1, <2>2
<1>4. Accepted(p, k) = q
  BY <1>3 DEF Accepted
<1> HIDE DEF w
<1>5. /\ q.reinit = w.reinit /\ q.peer = w.peer /\ q.date = w.date /\ q.inited = w.inited
      /\ q.ready = w.ready /\ q.out = w.out /\ q.ack = a /\ q.todo = w.todo /\ q.in = w.in
      /\ IsPair(q)
  <2> HIDE DEF a
  <2>1. w = [reinit |-> w.reinit, inited |-> w.inited, ready |-> w.ready, peer |-> w.peer,
             date |-> w.date, in |-> w.in, mask |-> w.mask, out |-> w.out, ack |-> w.ack,
             todo |-> w.todo]
    BY <1>2 DEF IsPair
  <2>2. q = [reinit |-> w.reinit, inited |-> w.inited, ready |-> w.ready, peer |-> w.peer,
             date |-> w.date, in |-> w.in, mask |-> w.mask, out |-> w.out, ack |-> a,
             todo |-> w.todo]
    BY <2>1, SMT
  <2> HIDE DEF q
  <2> QED BY <1>2, <2>2 DEF IsPair
<1>6. a \in 0..p.out /\ w.in \in 0..MaxSeqno
  BY <1>1, <1>3, SMT DEF Known
<1> HIDE DEF q, a
<1>7. Known(n, q)
  BY <1>3, <1>5, <1>6 DEF Known
<1>8. Later(n, p, q)
  BY <1>1, <1>3, <1>5, <1>7, SMT DEF Later, Created
<1> QED BY <1>3, <1>4, <1>5, <1>8

(***************************************************************************)
(* What happens to the nodes.                                              *)
(***************************************************************************)
LEMMA InitCInv == Init => CInv
<1> SUFFICES ASSUME Init PROVE CInv
  OBVIOUS
<1>1. \A n \in Node : Other(n) \in Node /\ MaxStart[n] \in Nat \ {0}
  BY TwoNodes, AdnlAssumption
<1>2. \A n \in Node : /\ start[n] = 1 /\ start[Other(n)] = 1 /\ pair[n] = NewPair
                      /\ channels[n] = {} /\ prepared[n] = {} /\ mailbox[n] = {} /\ delivered[n] = {}
  BY <1>1 DEF Init
<1>3. Pairs
  <2> SUFFICES ASSUME NEW n \in Node
               PROVE  start[n] <= MaxStart[n] /\ Known(n, NewPair) /\ NewPair.ready = FALSE
    BY <1>2 DEF Pairs
  <2>1. << >> \in Seq(Call(n)) /\ MaxSeqno \in Nat
    BY AdnlAssumption, SMT
  <2> QED BY <1>1, <1>2, <2>1, SMT DEF Known, NewPair
<1>4. Tables
  BY <1>2 DEF Tables, Init
<1>5. Packets /\ Boxes /\ again \subseteq net
  BY <1>2 DEF Packets, Boxes, Init
<1> QED BY <1>3, <1>4, <1>5, InitIInv DEF CInv

(* While no node starts, no created channel and no incarnation is forgotten. *)
Stays ==
    /\ start' = start
    /\ \A n \in Node : /\ Created(n, pair[n]) => Created(n, pair[n])'
                       /\ pair'[n].reinit >= pair[n].reinit

LEMMA PairsLater ==
    ASSUME CInv, NEW n \in Node, NEW p, Later(n, pair[n], p),
           p.ready /\ Created(n, p) => Created(Other(n), pair[Other(n)]),
           pair' = [pair EXCEPT ![n] = p], start' = start
    PROVE  Pairs' /\ Stays
<1>1. pair'[n] = p /\ \A m \in Node : m # n => pair'[m] = pair[m]
  BY DEF CInv, IInv
<1>2. ASSUME NEW m \in Node, NEW x, pair'[m] = x
      PROVE  Known(m, pair[m])' = Known(m, x) /\ Created(m, pair[m])' = Created(m, x)
  BY <1>2 DEF Known, Created, Call, Since
<1>3. \A m \in Node : Known(m, pair[m])' /\ start'[m] <= MaxStart[m]
  BY <1>1, <1>2 DEF Later, CInv, Pairs
<1>4. Other(n) \in Node /\ Other(n) # n /\ Other(Other(n)) = n /\ \A m \in Node : m = n \/ m = Other(n)
  BY TwoNodes
<1>5. Stays
  <2>1. \A m \in Node : pair[m].reinit \in Nat
    BY DEF CInv, IInv, IsPair
  <2> QED BY <1>1, <1>2, <2>1, SMT DEF Later, Stays
<1>6. ASSUME NEW m \in Node, pair'[m].ready, Created(m, pair[m])'
      PROVE  Created(Other(m), pair[Other(m)])'
  <2>1. CASE m = n
    BY <1>1, <1>2, <1>4, <1>6, <2>1
  <2>2. CASE m = Other(n)
    <3>1. pair'[m] = pair[m] /\ pair[m].ready /\ Created(m, pair[m])
      BY <1>1, <1>2, <1>4, <1>6, <2>2
    <3>2. Created(Other(m), pair[Other(m)])
      BY <3>1 DEF CInv, Pairs
    <3> QED BY <1>4, <1>5, <2>2, <3>2 DEF Stays
  <2> QED BY <1>4, <2>1, <2>2
<1> QED BY <1>3, <1>5, <1>6 DEF Pairs

LEMMA PairsSame ==
    ASSUME CInv, UNCHANGED <<start, pair>>
    PROVE  Pairs' /\ Stays
<1>1. \A m \in Node : pair[m].reinit \in Nat
  BY DEF CInv, IInv, IsPair
<1>2. \A m \in Node : Known(m, pair[m])' = Known(m, pair[m]) /\ Created(m, pair[m])' = Created(m, pair[m])
  BY Zenon DEF Known, Call, Since, Created
<1>3. \A m \in Node : Other(m) \in Node
  BY TwoNodes
<1> QED BY <1>1, <1>2, <1>3, SMT DEF CInv, Pairs, Stays

LEMMA PacketStays ==
    ASSUME Stays, NEW k, Dated(k), Honest(k)
    PROVE  Dated(k)' /\ Honest(k)'
<1>1. Dated(k)'
  BY DEF Dated, Since, Stays
<1>2. k.to \in Node /\ Other(k.to) \in Node
  BY TwoNodes DEF Dated
<1>3. Current(k)' => Current(k)
  BY DEF Current, Stays
<1> QED BY <1>1, <1>2, <1>3 DEF Honest, Stays

(* What has to be shown of a step while no node starts.                     *)
LEMMA StepParts ==
    ASSUME CInv, IInv', Pairs', Tables', Stays,
           net \subseteq net', again' \subseteq again \cup net,
           \A k \in net' \ net : Dated(k)' /\ Honest(k)',
           \A m \in Node : \A k \in prepared'[m] \ prepared[m] :
             Dated(k)' /\ Honest(k)' /\ k.to = Other(m) /\ k.from_key = start[m] /\ k.to_key = 0,
           \A m \in Node : \A k \in mailbox'[m] \ mailbox[m] :
             k \in net /\ k.to = m /\ k.to_key = start[m],
           \A m \in Node : \A k \in delivered'[m] \ delivered[m] :
             k \in net /\ k.from_key <= pair'[m].reinit
    PROVE  CInv'
<1>1. Packets'
  <2>1. \A k \in net' : Dated(k)' /\ Honest(k)'
    BY PacketStays DEF CInv, Packets
  <2>2. ASSUME NEW m \in Node, NEW k \in prepared'[m]
        PROVE  Dated(k)' /\ Honest(k)' /\ k.to = Other(m) /\ k.from_key = start'[m] /\ k.to_key = 0
    BY PacketStays DEF CInv, Packets, Stays
  <2> QED BY <2>1, <2>2 DEF Packets
<1>2. Boxes'
  <2>1. ASSUME NEW m \in Node, NEW k \in delivered[m]
        PROVE  k.from_key <= pair'[m].reinit
    <3>1. k \in net /\ k.from_key <= pair[m].reinit /\ pair'[m].reinit >= pair[m].reinit
      BY DEF CInv, Boxes, Stays
    <3>2. pair[m].reinit \in Nat /\ pair'[m].reinit \in Nat
      BY DEF CInv, IInv, IsPair
    <3>3. k.from_key \in Nat
      BY <3>1, SMT DEF CInv, Packets, Dated, Since
    <3> QED BY <3>1, <3>2, <3>3, SMT
  <2>2. ASSUME NEW m \in Node, NEW k \in delivered'[m]
        PROVE  k \in net' /\ k.from_key <= pair'[m].reinit
    BY <2>1 DEF CInv, Boxes
  <2>3. ASSUME NEW m \in Node, NEW k \in mailbox'[m]
        PROVE  k \in net' /\ k.to = m /\ k.to_key = start'[m]
    BY DEF CInv, Boxes, Stays
  <2> QED BY <2>2, <2>3 DEF Boxes
<1>3. again' \subseteq net'
  BY DEF CInv
<1> QED BY <1>1, <1>2, <1>3 DEF CInv

(* A packet names its sender's channel only if that is created.             *)
LEMMA SendCInv ==
    ASSUME CInv, IInv', NEW n \in Node, NEW p, IsPair(p), Later(n, pair[n], p),
           p.ready /\ Created(n, p) => Created(Other(n), pair[Other(n)]),
           SendMessages(n, p),
           UNCHANGED <<up, start, channels, mailbox, net, delivered, again>>
    PROVE  CInv'
<1> DEFINE q == [p EXCEPT !.out = p.out + 1]
           o == Other(n)
<1> PICK k : k = Packet(n, p)
  OBVIOUS
<1>1. /\ start[n] \in Nat \ {0} /\ start[o] \in Nat \ {0} /\ MaxSeqno \in Nat
      /\ p.reinit \in Nat /\ p.out \in Nat /\ p.in \in Nat
  BY Starts, AdnlAssumption DEF CInv, IInv, IsPair
<1>2. /\ q.reinit = p.reinit /\ q.peer = p.peer /\ q.date = p.date /\ q.inited = p.inited
      /\ q.ready = p.ready /\ q.in = p.in /\ q.out = p.out + 1 /\ q.ack = p.ack /\ q.todo = p.todo
  BY DEF IsPair
<1>3. p.out < MaxSeqno /\ pair' = [pair EXCEPT ![n] = q]
      /\ prepared' = [prepared EXCEPT ![n] = @ \cup {k}]
  BY DEF SendMessages
<1>4. Known(n, p)
  BY DEF Later
<1> HIDE DEF q
<1>5. Later(n, pair[n], q) /\ (q.ready /\ Created(n, q) => Created(o, pair[o]))
  <2>1. q.out \in 0..MaxSeqno /\ q.ack \in 0..q.out
    <3>1. p.ack \in 0..p.out
      BY <1>4 DEF Known
    <3> QED BY <1>1, <1>2, <1>3, <3>1, SMT
  <2>2. Known(n, q)
    BY <1>2, <1>4, <2>1 DEF Known
  <2> QED BY <1>2, <2>2 DEF Later, Created
<1>6. Pairs' /\ Stays
  BY <1>3, <1>5, PairsLater
<1>7. Tables'
  BY DEF CInv, Tables, Since
<1>8. o \in Node /\ Other(o) = n
  BY TwoNodes
<1>9. /\ k.to = o /\ k.from_key = start[n] /\ k.to_key = 0 /\ k.channel = p.ready
      /\ k.seqno = p.out + 1 /\ k.confirm = p.in /\ k.msg = ChannelMessage(n, p)
      /\ k.reinit = (IF p.ready THEN 0 ELSE start[n])
      /\ k.dst_reinit = IF p.ready THEN 0 ELSE p.reinit
  BY DEF Packet
<1>10. /\ k.msg.type \in {"none", "create", "confirm"}
       /\ k.msg.type # "none" => k.msg.key = start[n]
       /\ k.msg.type = "confirm" => k.msg.peer_key = p.peer /\ p.inited
  BY <1>9, SMT DEF ChannelMessage
<1>11. Dated(k)
  <2>1. k.from_key \in Since(k.to) /\ k.to_key \in 0..start[k.to] /\ p.peer \in 0..start[k.to]
    BY <1>1, <1>4, <1>8, <1>9, SMT DEF Since, Known
  <2>2. k.seqno \in 1..MaxSeqno /\ k.confirm \in Nat /\ k.dst_reinit \in Nat
    BY <1>1, <1>3, <1>9, SMT
  <2>3. k.channel \in BOOLEAN /\ (~k.channel => k.reinit = k.from_key)
    BY <1>4, <1>9 DEF Known
  <2> QED BY <1>8, <1>9, <1>10, <2>1, <2>2, <2>3 DEF Dated
<1>12. Dated(k)'
  BY <1>6, <1>11 DEF Dated, Since, Stays
<1>13. Honest(k)'
  <2> SUFFICES ASSUME Current(k)' PROVE Created(n, pair[n])'
    BY <1>8, <1>9 DEF Honest
  <2>1. p.peer = start[o] /\ p.inited
    BY <1>1, <1>9, <1>10 DEF Current
  <2>2. pair'[n] = q
    BY <1>3 DEF CInv, IInv
  <2> QED BY <1>2, <2>1, <2>2 DEF Created
<1>14. \A m \in Node : \A j \in prepared'[m] \ prepared[m] : m = n /\ j = k
  BY <1>3 DEF CInv, IInv
<1> QED BY <1>6, <1>7, <1>9, <1>12, <1>13, <1>14, StepParts

LEMMA SendContinueCInv ==
    ASSUME CInv, IInv', NEW n \in Node, SendContinue(n)
    PROVE  CInv'
<1>1. PICK k \in prepared[n] :
        /\ prepared' = [prepared EXCEPT ![n] = @ \ {k}]
        /\ \/ net' = net \cup {k}
           \/ /\ pair[n].inited
              /\ net' = net \cup {[k EXCEPT !.to_key = pair[n].peer]}
           \/ net' = net
        /\ up' = up \/ Abort(n)
        /\ UNCHANGED <<start, pair, channels, mailbox, delivered, again>>
  BY Zenon DEF SendContinue
<1>2. Pairs' /\ Stays
  BY <1>1, PairsSame
<1>3. Tables'
  BY <1>1 DEF CInv, Tables, Since, Abort
<1>4. Dated(k) /\ Honest(k) /\ k.to = Other(n) /\ k.from_key = start[n] /\ k.to_key = 0 /\ IsPacket(k)
  BY DEF CInv, Packets, IInv
<1>5. Other(n) \in Node /\ Other(Other(n)) = n
  BY TwoNodes
<1> DEFINE j == [k EXCEPT !.to_key = pair[n].peer]
<1>6. /\ j.to = k.to /\ j.from_key = k.from_key /\ j.channel = k.channel /\ j.to_key = pair[n].peer
      /\ j.seqno = k.seqno /\ j.confirm = k.confirm /\ j.msg = k.msg /\ j.reinit = k.reinit
      /\ j.dst_reinit = k.dst_reinit
  BY <1>4 DEF IsPacket
<1> HIDE DEF j
<1>7. ASSUME pair[n].inited PROVE Dated(j) /\ Honest(j)
  <2>1. pair[n].peer \in 0..start[k.to]
    <3>1. Known(n, pair[n]) /\ start[Other(n)] \in Nat
      BY Starts DEF CInv, Pairs, IInv
    <3> QED BY <1>4, <3>1, SMT DEF Known
  <2>2. Dated(j)
    BY <1>4, <1>6, <2>1 DEF Dated
  <2>3. Current(j) => Current(k) \/ pair[n].peer = start[Other(n)]
    BY <1>4, <1>6 DEF Current
  <2> QED BY <1>4, <1>5, <1>6, <1>7, <2>2, <2>3 DEF Honest, Created
<1>8. \A i \in net' \ net : Dated(i)' /\ Honest(i)'
  BY <1>1, <1>2, <1>4, <1>7, PacketStays DEF j
<1>9. \A m \in Node : prepared'[m] \subseteq prepared[m]
  BY <1>1 DEF CInv, IInv
<1> QED BY <1>1, <1>2, <1>3, <1>8, <1>9, StepParts

(* receive_packet_checked: a packet that is taken is of an incarnation the  *)
(* pair knows, and makes a channel ready only if the peer has created it.   *)
LEMMA NumberedCInv ==
    ASSUME CInv, IInv', NEW n \in Node, NEW p, IsPair(p), Later(n, pair[n], p),
           NEW k \in net, k.to = n, k.from_key <= p.reinit,
           p.ready /\ Created(n, p) => Created(Other(n), pair[Other(n)]),
           ReceiveNumbered(n, p, k), UNCHANGED <<start, channels, net>>,
           \A m \in Node : mailbox'[m] \subseteq mailbox[m]
    PROVE  CInv'
<1> DEFINE o == Other(n)
<1>1. start \in [Node -> Nat \ {0}] /\ Dated(k) /\ Honest(k) /\ Known(n, p)
  BY DEF CInv, IInv, Packets, Later
<1>2. Tables'
  BY DEF CInv, Tables, Since, ReceiveNumbered, Keep, Abort
<1>3. CASE Keep(n, p)
  <2>1. Pairs' /\ Stays
    BY <1>3, PairsLater DEF Keep
  <2> QED BY <1>2, <1>3, <2>1, StepParts DEF Keep
<1>4. CASE UNCHANGED <<pair, prepared, delivered, again>>
  <2>1. Pairs' /\ Stays
    BY <1>4, PairsSame
  <2> QED BY <1>2, <1>4, <2>1, StepParts
<1>5. CASE /\ ~ReceivedPacket(p, k.seqno) /\ k.confirm <= p.out
           /\ pair' = [pair EXCEPT ![n] = ProcessMessage(Accepted(p, k), start[n], k.msg)]
           /\ delivered' = [delivered EXCEPT ![n] = @ \cup {k}]
           /\ again' = IF k \in delivered[n] THEN again \cup {k} ELSE again
           /\ UNCHANGED <<up, prepared>>
  <2> PICK v : v = Accepted(p, k)
    OBVIOUS
  <2> PICK q : q = ProcessMessage(v, start[n], k.msg)
    OBVIOUS
  <2>1. /\ IsPair(v) /\ Later(n, p, v) /\ v.reinit = p.reinit
        /\ v.peer = p.peer /\ v.inited = p.inited /\ v.ready = p.ready
    BY <1>1, <1>5, AcceptedLater, SMT
  <2>2. k.msg.type \in {"create", "confirm"} => k.msg.key = k.from_key /\ k.msg.key \in 1..v.reinit
    <3>1. k.from_key \in 1..v.reinit
      BY <1>1, <2>1, SMT DEF Dated, Since, IsPair
    <3> QED BY <1>1, <3>1 DEF Dated
  <2>3. Known(n, v)
    BY <2>1 DEF Later
  <2>4. /\ Later(n, v, q) /\ q.reinit = v.reinit
        /\ q.ready /\ Created(n, q) =>
             \/ v.ready /\ Created(n, v)
             \/ k.msg.type = "confirm" /\ k.msg.peer_key = start[n] /\ k.msg.key = start[o]
    BY <1>1, <2>1, <2>2, <2>3, MessageLater, SMT
  <2>5. Later(n, pair[n], q)
    BY <2>1, <2>4 DEF Later
  <2>6. q.ready /\ Created(n, q) => Created(o, pair[o])
    <3>1. k.msg.type = "confirm" /\ k.msg.peer_key = start[n] /\ k.msg.key = start[o] => Created(o, pair[o])
      BY <1>1, <2>2 DEF Honest, Current
    <3>2. v.ready /\ Created(n, v) => Created(o, pair[o])
      BY <2>1 DEF Created
    <3> QED BY <2>4, <3>1, <3>2
  <2>7. Pairs' /\ Stays
    BY <1>5, <2>5, <2>6, PairsLater
  <2>8. pair'[n] = q /\ \A m \in Node : \A j \in delivered'[m] \ delivered[m] : m = n /\ j = k
    BY <1>5 DEF CInv, IInv
  <2>9. \A m \in Node : \A j \in delivered'[m] \ delivered[m] : j \in net /\ j.from_key <= pair'[m].reinit
    BY <2>1, <2>4, <2>8
  <2>10. again' \subseteq again \cup net
    BY <1>5
  <2> QED BY <1>2, <1>5, <2>7, <2>9, <2>10, StepParts
<1> QED BY <1>3, <1>4, <1>5 DEF ReceiveNumbered

LEMMA ReceiveSignedCInv ==
    ASSUME CInv, IInv', NEW n \in Node, ReceiveSigned(n)
    PROVE  CInv'
<1> DEFINE Fresh(k) == k.dst_reinit <= start[n]
           Q(k) == IF Fresh(k) /\ k.reinit > pair[n].reinit THEN Reinit(pair[n], k.reinit) ELSE pair[n]
<1>1. PICK k \in net :
        /\ k.to = n /\ ~k.channel
        /\ \/ Keep(n, Q(k))
           \/ SendMessages(n, Q(k)) /\ UNCHANGED <<up, delivered, again>>
           \/ Fresh(k) /\ ~FromOldPeer(Q(k), k) /\ ReceiveNumbered(n, Q(k), k)
        /\ UNCHANGED <<start, channels, mailbox, net>>
  BY Zenon DEF ReceiveSigned
<1> PICK q : q = Q(k)
  OBVIOUS
<1>2. /\ start \in [Node -> Nat \ {0}] /\ Dated(k) /\ IsPacket(k)
      /\ IsPair(pair[n]) /\ Known(n, pair[n]) /\ pair[n].reinit \in Nat
      /\ pair[n].ready /\ Created(n, pair[n]) => Created(Other(n), pair[Other(n)])
  BY DEF CInv, IInv, Packets, Pairs, IsPair
<1>3. k.reinit = k.from_key /\ k.reinit \in Since(n) /\ k.reinit \in Nat
  BY <1>1, <1>2 DEF Dated, IsPacket
<1>4. /\ IsPair(q) /\ Later(n, pair[n], q)
      /\ q.ready /\ Created(n, q) => Created(Other(n), pair[Other(n)])
      /\ Fresh(k) => k.reinit <= q.reinit
  <2>1. CASE Fresh(k) /\ k.reinit > pair[n].reinit
    <3>1. q = Reinit(pair[n], k.reinit)
      BY <2>1
    <3>2. /\ Later(n, pair[n], q) /\ q.reinit = k.reinit
          /\ q.ready /\ Created(n, q) => pair[n].ready /\ Created(n, pair[n])
      BY <1>2, <1>3, <2>1, <3>1, ReinitLater, SMT
    <3>3. IsPair(q)
      BY <1>2, <1>3, <3>1, ReinitSeen
    <3> QED BY <1>2, <1>3, <3>2, <3>3, SMT
  <2>2. CASE ~(Fresh(k) /\ k.reinit > pair[n].reinit)
    <3>1. q = pair[n]
      BY <2>2
    <3> QED BY <1>2, <1>3, <2>2, <3>1, SMT DEF Later
  <2> QED BY <2>1, <2>2
<1>5. CASE Keep(n, q)
  <2>1. Pairs' /\ Stays
    BY <1>1, <1>4, <1>5, PairsLater DEF Keep
  <2>2. Tables'
    BY <1>1, <1>5 DEF CInv, Tables, Since, Keep
  <2> QED BY <1>1, <1>5, <2>1, <2>2, StepParts DEF Keep
<1>6. CASE SendMessages(n, q) /\ UNCHANGED <<up, delivered, again>>
  BY <1>1, <1>4, <1>6, SendCInv
<1>7. CASE Fresh(k) /\ ReceiveNumbered(n, q, k)
  BY <1>1, <1>3, <1>4, <1>7, NumberedCInv
<1> QED BY <1>1, <1>5, <1>6, <1>7

(* A packet that comes through the channel of the current incarnations was  *)
(* sent by a peer that has created it.                                      *)
LEMMA ReceiveFromChannelCInv ==
    ASSUME CInv, IInv', NEW n \in Node, ReceiveFromChannel(n)
    PROVE  CInv'
<1> PICK p : p = [pair[n] EXCEPT !.ready = TRUE]
  OBVIOUS
<1>1. PICK k \in mailbox[n] :
        /\ mailbox' = [mailbox EXCEPT ![n] = @ \ {k}]
        /\ \/ UNCHANGED <<up, pair, prepared, delivered, again>>
           \/ k.from_key = pair[n].peer /\ ReceiveNumbered(n, p, k)
        /\ UNCHANGED <<start, channels, net>>
  BY Zenon DEF ReceiveFromChannel
<1>2. \A m \in Node : mailbox'[m] \subseteq mailbox[m]
  BY <1>1 DEF CInv, IInv
<1>3. /\ k \in net /\ k.to = n /\ k.to_key = start[n] /\ k.channel /\ Honest(k)
      /\ IsPair(pair[n]) /\ Known(n, pair[n]) /\ pair[n].reinit \in Nat
  BY DEF CInv, IInv, Boxes, Packets, Pairs, IsPair
<1>4. CASE UNCHANGED <<up, pair, prepared, delivered, again>>
  <2>1. Pairs' /\ Stays
    BY <1>1, <1>4, PairsSame
  <2>2. Tables'
    BY <1>1, <1>4 DEF CInv, Tables, Since
  <2> QED BY <1>1, <1>2, <1>4, <2>1, <2>2, StepParts
<1>5. CASE k.from_key = pair[n].peer /\ ReceiveNumbered(n, p, k)
  <2>1. /\ p.reinit = pair[n].reinit /\ p.peer = pair[n].peer /\ p.date = pair[n].date
        /\ p.inited = pair[n].inited /\ p.ready = TRUE /\ p.in = pair[n].in /\ p.out = pair[n].out
        /\ p.ack = pair[n].ack /\ p.todo = pair[n].todo
    BY <1>3 DEF IsPair
  <2>2. IsPair(p)
    BY <1>3, FieldWindow
  <2>3. Later(n, pair[n], p)
    <3>1. Known(n, p)
      BY <1>3, <2>1 DEF Known
    <3> QED BY <1>3, <2>1, <3>1, SMT DEF Later, Created
  <2>4. k.from_key <= p.reinit
    BY <1>3, <1>5, <2>1, SMT DEF Known
  <2>5. Created(n, p) => Created(Other(n), pair[Other(n)])
    BY <1>3, <1>5, <2>1 DEF Created, Honest, Current
  <2> QED BY <1>1, <1>2, <1>3, <1>5, <2>2, <2>3, <2>4, <2>5, NumberedCInv
<1> QED BY <1>1, <1>4, <1>5

LEMMA TableReceiveCInv ==
    ASSUME CInv, IInv', NEW n \in Node, TableReceive(n)
    PROVE  CInv'
<1>1. PICK k \in net : /\ k.to = n /\ k.to_key = start[n]
                       /\ mailbox' = [mailbox EXCEPT ![n] = @ \cup {k}]
  BY Zenon DEF TableReceive
<1>2. UNCHANGED <<up, start, pair, channels, prepared, net, delivered, again>>
  BY DEF TableReceive
<1>3. Pairs' /\ Stays
  BY <1>2, PairsSame
<1>4. Tables'
  BY <1>2 DEF CInv, Tables, Since
<1>5. \A m \in Node : \A j \in mailbox'[m] \ mailbox[m] : m = n /\ j = k
  BY <1>1 DEF CInv, IInv
<1> QED BY <1>1, <1>2, <1>3, <1>4, <1>5, StepParts

(* The table only ever has keys of incarnations that started.               *)
LEMMA TableCallCInv ==
    ASSUME CInv, IInv', NEW n \in Node, TableCall(n)
    PROVE  CInv'
<1> DEFINE todo == pair[n].todo
<1> PICK p : p = [pair[n] EXCEPT !.todo = Tail(todo)]
  OBVIOUS
<1>1. /\ IsPair(pair[n]) /\ Known(n, pair[n]) /\ pair[n].reinit \in Nat
      /\ pair[n].ready /\ Created(n, pair[n]) => Created(Other(n), pair[Other(n)])
  BY DEF CInv, IInv, Pairs, IsPair
<1>2. /\ p.reinit = pair[n].reinit /\ p.peer = pair[n].peer /\ p.date = pair[n].date
      /\ p.inited = pair[n].inited /\ p.ready = pair[n].ready /\ p.in = pair[n].in
      /\ p.out = pair[n].out /\ p.ack = pair[n].ack /\ p.todo = Tail(todo)
  BY <1>1 DEF IsPair
<1>3. todo \in Seq(Call(n)) /\ todo # << >>
  BY <1>1 DEF Known, TableCall
<1>4. Tail(todo) \in Seq(Call(n)) /\ Head(todo) \in Call(n)
  BY <1>3, SMT
<1>5. Later(n, pair[n], p)
  <2>1. Known(n, p)
    BY <1>1, <1>2, <1>4 DEF Known
  <2> QED BY <1>1, <1>2, <2>1, SMT DEF Later, Created
<1>6. /\ pair' = [pair EXCEPT ![n] = p]
      /\ UNCHANGED <<start, mailbox, prepared, net, delivered, again>>
      /\ up' = [up EXCEPT ![n] = ~TableFails(channels[n], Head(todo))]
      /\ channels' = [channels EXCEPT ![n] = TableAfter(@, Head(todo))]
  BY DEF TableCall
<1>7. Pairs' /\ Stays
  BY <1>1, <1>2, <1>5, <1>6, PairsLater DEF Created
<1>8. Tables'
  <2>1. Head(todo).key \in Since(n)
    BY <1>4 DEF Call
  <2>2. TableAfter(channels[n], Head(todo)) \subseteq Since(n)
    BY <2>1 DEF TableAfter, CInv, Tables
  <2>3. \A m \in Node : channels'[m] \subseteq Since(m)
    BY <1>6, <2>2 DEF CInv, Tables
  <2>4. up' \in [Node -> BOOLEAN]
    BY <1>6 DEF CInv, Tables
  <2> QED BY <1>6, <2>3, <2>4 DEF CInv, Tables, Since
<1> QED BY <1>6, <1>7, <1>8, StepParts

LEMMA DiscoverCInv ==
    ASSUME CInv, IInv', NEW n \in Node, Discover(n)
    PROVE  CInv'
<1>1. PICK date \in Since(n) : /\ date > pair[n].reinit
                               /\ pair' = [pair EXCEPT ![n] = Reinit(pair[n], date)]
  BY Zenon DEF Discover, Since
<1>2. UNCHANGED <<up, start, channels, mailbox, prepared, net, delivered, again>>
  BY DEF Discover
<1> PICK q : q = Reinit(pair[n], date)
  OBVIOUS
<1>3. /\ start \in [Node -> Nat \ {0}] /\ IsPair(pair[n]) /\ Known(n, pair[n])
      /\ pair[n].ready /\ Created(n, pair[n]) => Created(Other(n), pair[Other(n)])
  BY DEF CInv, IInv, Pairs
<1>4. Later(n, pair[n], q) /\ (q.ready /\ Created(n, q) => pair[n].ready /\ Created(n, pair[n]))
  BY <1>1, <1>3, ReinitLater
<1>5. Pairs' /\ Stays
  BY <1>1, <1>2, <1>3, <1>4, PairsLater
<1>6. Tables'
  BY <1>2 DEF CInv, Tables, Since
<1> QED BY <1>2, <1>5, <1>6, StepParts

LEMMA CallsWiden ==
    ASSUME NEW S, NEW T, S \subseteq T, NEW q \in Seq(S)
    PROVE  q \in Seq(T)
BY SMT

(* A node that starts again shares no channel with its peer, and no packet  *)
(* on its way is about one.                                                 *)
LEMMA RestartCInv ==
    ASSUME CInv, IInv', NEW n \in Node, Restart(n)
    PROVE  CInv'
<1> DEFINE o == Other(n)
<1>1. /\ o \in Node /\ o # n /\ Other(o) = n /\ \A m \in Node : m = n \/ m = o
  BY TwoNodes
<1>2. /\ start \in [Node -> Nat \ {0}] /\ start[n] \in Nat \ {0} /\ start[o] \in Nat \ {0}
      /\ MaxStart[n] \in Nat /\ MaxStart[o] \in Nat /\ MaxSeqno \in Nat
  BY Starts, <1>1, AdnlAssumption DEF CInv, IInv
<1>3. start'[n] = start[n] + 1 /\ start'[o] = start[o] /\ start'[n] <= MaxStart[n]
  BY <1>1, <1>2, SMT DEF Restart
<1>4. /\ pair'[n] = NewPair /\ pair'[o] = pair[o]
      /\ channels'[n] = {} /\ channels'[o] = channels[o]
      /\ mailbox'[n] = {} /\ mailbox'[o] = mailbox[o]
      /\ prepared'[n] = {} /\ prepared'[o] = prepared[o]
      /\ delivered'[n] = {} /\ delivered'[o] = delivered[o]
      /\ net' = net /\ again' = again
  BY <1>1 DEF Restart, CInv, IInv, Tables
<1>5. Since(n)' = Since(n) /\ Since(o) \subseteq Since(o)'
  BY <1>1, <1>2, <1>3, SMT DEF Since
<1>6. Pairs'
  <2>1. Known(n, pair[n])' /\ ~pair'[n].ready
    <3>1. << >> \in Seq(Call(n)')
      BY SMT
    <3> QED BY <1>2, <1>3, <1>4, <3>1, SMT DEF Known, NewPair
  <2>2. Known(o, pair[o]) /\ pair[o].peer \in Nat /\ pair[o].peer <= start[n]
    BY <1>1, <1>2, SMT DEF CInv, Pairs, Known
  <2>3. Known(o, pair[o])'
    <3>1. pair[o].reinit \in 0..start'[n]
      BY <1>1, <1>2, <1>3, <2>2, SMT DEF Known
    <3>2. Call(o) \subseteq Call(o)'
      BY <1>5 DEF Call
    <3>3. pair[o].todo \in Seq(Call(o)')
      BY <2>2, <3>2, CallsWiden DEF Known
    <3> QED BY <1>1, <1>4, <2>2, <3>1, <3>3 DEF Known
  <2>4. ~Created(o, pair[o])'
    BY <1>1, <1>2, <1>3, <1>4, <2>2, SMT DEF Created
  <2>5. start'[o] <= MaxStart[o]
    BY <1>1, <1>3 DEF CInv, Pairs
  <2>6. \A m \in Node : start'[m] <= MaxStart[m] /\ Known(m, pair[m])' /\ ~(pair'[m].ready /\ Created(m, pair[m])')
    BY <1>1, <1>3, <2>1, <2>3, <2>4, <2>5
  <2> QED BY <2>6 DEF Pairs
<1>7. Tables'
  <2>1. \A m \in Node : channels'[m] \subseteq Since(m)'
    BY <1>1, <1>4, <1>5 DEF CInv, Tables
  <2> QED BY <2>1 DEF Restart, CInv, Tables
<1>8. ASSUME NEW k, Dated(k) PROVE Dated(k)' /\ Honest(k)'
  <2>1. CASE k.to = n
    <3>1. Dated(k)'
      BY <1>2, <1>3, <1>5, <1>8, <2>1, SMT DEF Dated
    <3>2. ~Current(k)'
      BY <1>2, <1>3, <1>8, <2>1, SMT DEF Dated, Current
    <3> QED BY <3>1, <3>2 DEF Honest
  <2>2. CASE k.to = o
    <3>1. Dated(k)'
      BY <1>2, <1>3, <1>5, <1>8, <2>2 DEF Dated
    <3>2. ~Current(k)'
      BY <1>1, <1>2, <1>3, <1>8, <2>2, SMT DEF Dated, Current, Since
    <3> QED BY <3>1, <3>2 DEF Honest
  <2> QED BY <1>1, <1>8, <2>1, <2>2 DEF Dated
<1>9. Packets'
  <2>1. \A k \in net' : Dated(k)' /\ Honest(k)'
    BY <1>4, <1>8 DEF CInv, Packets
  <2>2. \A m \in Node : \A k \in prepared'[m] :
          Dated(k)' /\ Honest(k)' /\ k.to = Other(m) /\ k.from_key = start'[m] /\ k.to_key = 0
    BY <1>1, <1>3, <1>4, <1>8, SMT DEF CInv, Packets
  <2> QED BY <2>1, <2>2 DEF Packets
<1>10. Boxes'
  <2>1. \A m \in Node : \A k \in mailbox'[m] : k \in net' /\ k.to = m /\ k.to_key = start'[m]
    BY <1>1, <1>3, <1>4, SMT DEF CInv, Boxes
  <2>2. \A m \in Node : \A k \in delivered'[m] : k \in net' /\ k.from_key <= pair'[m].reinit
    BY <1>1, <1>4 DEF CInv, Boxes
  <2> QED BY <2>1, <2>2 DEF Boxes
<1> QED BY <1>4, <1>6, <1>7, <1>9, <1>10 DEF CInv

LEMMA StepCInv == CInv /\ [Next]_vars => CInv'
<1> SUFFICES ASSUME CInv, [Next]_vars PROVE CInv'
  OBVIOUS
<1>1. IInv'
  BY StepIInv DEF CInv
<1>2. CASE UNCHANGED vars
  <2>1. Pairs' /\ Stays
    BY <1>2, PairsSame DEF vars
  <2>2. Tables'
    BY <1>2 DEF vars, CInv, Tables, Since
  <2> QED BY <1>1, <1>2, <2>1, <2>2, StepParts DEF vars
<1>3. ASSUME NEW n \in Node, Send(n) PROVE CInv'
  <2>1. /\ IsPair(pair[n]) /\ Known(n, pair[n]) /\ pair[n].reinit \in Nat
        /\ pair[n].ready /\ Created(n, pair[n]) => Created(Other(n), pair[Other(n)])
    BY DEF CInv, IInv, Pairs, IsPair
  <2>2. Later(n, pair[n], pair[n])
    BY <2>1, SMT DEF Later
  <2> QED BY <1>1, <1>3, <2>1, <2>2, SendCInv DEF Send
<1> QED BY <1>1, <1>2, <1>3, SendContinueCInv, ReceiveSignedCInv, TableReceiveCInv,
           ReceiveFromChannelCInv, TableCallCInv, DiscoverCInv, RestartCInv DEF Next

(* The pairs, the packets and the table keep their types: the window never  *)
(* has more bits than recv_seqno_mask_, nothing is taken for confirmed that *)
(* was not sent, no start time is known that did not happen, and only what  *)
(* was sent is delivered.                                                   *)
THEOREM AdnlTypeOK == Spec => []TypeOK
<1>1. CInv => TypeOK
  <2> SUFFICES ASSUME CInv PROVE TypeOK
    OBVIOUS
  <2>1. up \in [Node -> BOOLEAN] /\ again \subseteq net /\ \A n \in Node : delivered[n] \subseteq net
    BY DEF CInv, Tables, Boxes
  <2>2. ASSUME NEW n \in Node
        PROVE  /\ start[n] \in 1..MaxStart[n]
               /\ channels[n] \subseteq 1..MaxStart[Other(n)]
               /\ pair[n].reinit \in 0..start[Other(n)]
               /\ pair[n].inited \in BOOLEAN /\ pair[n].ready \in BOOLEAN
               /\ pair[n].mask \subseteq 0..Window - 1
               /\ pair[n].in \in 0..MaxSeqno
               /\ pair[n].out \in 0..MaxSeqno
               /\ pair[n].ack \in 0..pair[n].out
    <3>1. Other(n) \in Node
      BY TwoNodes
    <3>2. /\ start[n] \in Nat \ {0} /\ start[Other(n)] \in Nat \ {0}
          /\ start[n] <= MaxStart[n] /\ start[Other(n)] <= MaxStart[Other(n)]
          /\ MaxStart[n] \in Nat /\ MaxStart[Other(n)] \in Nat
      BY <3>1, AdnlAssumption DEF CInv, IInv, Pairs
    <3>3. channels[n] \subseteq Since(n) /\ Known(n, pair[n]) /\ IsPair(pair[n])
      BY DEF CInv, IInv, Pairs, Tables
    <3>4. start[n] \in 1..MaxStart[n] /\ Since(n) \subseteq 1..MaxStart[Other(n)]
      BY <3>2, SMT DEF Since
    <3> QED BY <3>3, <3>4 DEF Known, IsPair
  <2> QED BY <2>1, <2>2 DEF TypeOK
<1> QED BY InitCInv, StepCInv, <1>1, PTL DEF Spec

(* A channel that a node may send through can be read by its peer, whatever *)
(* was lost, repeated or reordered and whichever node started again while   *)
(* the keys were exchanged (createChannel, confirmChannel, reinit).         *)
THEOREM AdnlReadyReadable == Spec => []ReadyReadable
<1>1. CInv => ReadyReadable
  <2> SUFFICES ASSUME CInv, NEW n \in Node, pair[n].ready, pair[n].inited,
                      pair[n].peer = start[Other(n)]
               PROVE  pair[Other(n)].inited /\ pair[Other(n)].peer = start[n]
    BY Zenon DEF ReadyReadable
  <2>1. Other(Other(n)) = n
    BY TwoNodes
  <2> QED BY <2>1 DEF CInv, Pairs, Created
<1> QED BY InitCInv, StepCInv, <1>1, PTL DEF Spec

(* The step of IncarnationsInOrder.                                         *)
InOrder == \A n \in Node : \A k \in delivered'[n] \ delivered[n] :
    ~k.channel => /\ k.dst_reinit \in {0, start[n]}
                  /\ \A j \in delivered[n] : j.from_key <= k.from_key

LEMMA DeliveredInOrder ==
    ASSUME CInv, NEW n \in Node, ReceiveSigned(n)
    PROVE  InOrder
<1> DEFINE Fresh(k) == k.dst_reinit <= start[n]
           Q(k) == IF Fresh(k) /\ k.reinit > pair[n].reinit THEN Reinit(pair[n], k.reinit) ELSE pair[n]
<1>1. PICK k \in net :
        /\ k.to = n /\ ~k.channel
        /\ \/ delivered' = delivered
           \/ /\ Fresh(k) /\ ~FromOldPeer(Q(k), k) /\ ~ForOldUs(n, k)
              /\ ReceiveNumbered(n, Q(k), k)
  BY Zenon DEF ReceiveSigned, Keep
<1>2. CASE delivered' = delivered
  BY <1>2 DEF InOrder
<1>3. CASE /\ Fresh(k) /\ ~FromOldPeer(Q(k), k) /\ ~ForOldUs(n, k)
           /\ ReceiveNumbered(n, Q(k), k)
  <2> PICK q : q = Q(k)
    OBVIOUS
  <2>1. \A m \in Node : \A j \in delivered'[m] \ delivered[m] : m = n /\ j = k
    <3>1. delivered' = delivered \/ delivered' = [delivered EXCEPT ![n] = @ \cup {k}]
      BY <1>3 DEF ReceiveNumbered, Keep
    <3>2. delivered = [m \in Node |-> delivered[m]]
      BY DEF CInv, IInv
    <3> QED BY <3>1, <3>2, SMT
  <2>2. /\ IsPair(pair[n]) /\ pair[n].reinit \in Nat /\ Known(n, pair[n]) /\ Dated(k) /\ IsPacket(k)
        /\ start \in [Node -> Nat \ {0}] /\ start[n] \in Nat \ {0}
    BY DEF CInv, IInv, Pairs, Packets, IsPair
  <2>3. k.reinit = k.from_key /\ k.reinit \in Nat \ {0} /\ k.dst_reinit \in Nat
    BY <1>1, <2>2, SMT DEF Dated, IsPacket
  <2>4. q.reinit \in Nat /\ q.reinit >= pair[n].reinit /\ k.reinit <= q.reinit
    <3>1. CASE k.reinit > pair[n].reinit
      BY <1>3, <2>2, <2>3, <3>1, ReinitSeen, SMT
    <3>2. CASE ~(k.reinit > pair[n].reinit)
      <4>1. q = pair[n]
        BY <3>2
      <4> QED BY <2>2, <2>3, <3>2, <4>1, SMT
    <3> QED BY <3>1, <3>2
  <2>5. k.from_key >= pair[n].reinit
    <3>1. ~(k.reinit > 0 /\ k.reinit < q.reinit)
      BY <1>3 DEF FromOldPeer
    <3> QED BY <2>2, <2>3, <2>4, <3>1, SMT
  <2>6. k.dst_reinit \in {0, start[n]}
    BY <1>3, <2>2, <2>3, SMT DEF ForOldUs
  <2>7. ASSUME NEW j \in delivered[n] PROVE j.from_key <= k.from_key
    <3>1. j.from_key <= pair[n].reinit /\ j \in net
      BY DEF CInv, Boxes
    <3>2. j.from_key \in Nat
      BY <3>1, SMT DEF CInv, Packets, Dated, Since
    <3> QED BY <2>2, <2>3, <2>5, <3>1, <3>2, SMT
  <2> QED BY <2>1, <2>6, <2>7 DEF InOrder
<1> QED BY <1>1, <1>2, <1>3

(* Signed packets are delivered in the order of the incarnations that sent  *)
(* them, channel packets in between included, and only to the incarnation   *)
(* they were meant for (reinit_date, dst_reinit_date).                      *)
THEOREM AdnlIncarnationsInOrder == Spec => IncarnationsInOrder
<1>1. CInv /\ [Next]_vars => [InOrder]_vars
  <2> SUFFICES ASSUME CInv, [Next]_vars PROVE InOrder \/ UNCHANGED vars
    OBVIOUS
  <2>1. ASSUME NEW n \in Node, ReceiveFromChannel(n) PROVE InOrder
    <3>1. PICK k \in mailbox[n] :
            \/ delivered' = delivered
            \/ delivered' = [delivered EXCEPT ![n] = @ \cup {k}]
      BY <2>1 DEF ReceiveFromChannel, ReceiveNumbered, Keep
    <3>2. k.channel
      BY DEF CInv, IInv
    <3>3. \A m \in Node : \A j \in delivered'[m] \ delivered[m] : j = k
      <4>1. delivered = [m \in Node |-> delivered[m]]
        BY DEF CInv, IInv
      <4> QED BY <3>1, <4>1
    <3> QED BY <3>2, <3>3 DEF InOrder
  <2>2. ASSUME NEW n \in Node, Restart(n) PROVE InOrder
    <3>1. \A m \in Node : delivered'[m] \subseteq delivered[m]
      BY <2>2 DEF Restart, CInv, IInv
    <3> QED BY <3>1 DEF InOrder
  <2>3. ASSUME delivered' = delivered PROVE InOrder
    BY <2>3 DEF InOrder
  <2>4. ASSUME NEW n \in Node,
               Send(n) \/ SendContinue(n) \/ TableReceive(n) \/ TableCall(n) \/ Discover(n)
        PROVE  delivered' = delivered
    BY <2>4 DEF Send, SendContinue, TableReceive, TableCall, Discover
  <2> QED BY <2>1, <2>2, <2>3, <2>4, DeliveredInOrder DEF Next
<1> QED BY InitCInv, StepCInv, <1>1, PTL DEF Spec, IncarnationsInOrder, InOrder
=============================================================================
