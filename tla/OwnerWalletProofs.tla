------------------------- MODULE OwnerWalletProofs -------------------------
(***************************************************************************)
(* Proofs about the owner's wallet: replay protection for any number of    *)
(* commands, any network and any seqno width.                              *)
(***************************************************************************)
EXTENDS OwnerWallet, TLAPS

Inv == TypeOK /\ sent \in Seq({m.gift : m \in SignedMessage}) /\ ReplayProtection /\ PaidOnce

\* The empty wallet satisfies the invariant.
LEMMA WalletInit == Init => Inv
<1> SUFFICES ASSUME Init PROVE Inv
  OBVIOUS
<1>1. TypeOK /\ sent \in Seq({m.gift : m \in SignedMessage})
  <2>1. active \in BOOLEAN /\ inflight \subseteq SignedMessage
    BY Zenon DEF Init
  <2>2. seqno \in 0..MaxSeqno /\ balance \in Nat /\ now \in Nat
    BY WalletAssumption DEF Init
  <2>3. executed \in Seq(SignedMessage) /\ sent \in Seq({m.gift : m \in SignedMessage})
    BY DEF Init
  <2> QED BY <2>1, <2>2, <2>3 DEF TypeOK
<1>2. ReplayProtection /\ PaidOnce
  BY DEF Init, ReplayProtection, PaidOnce
<1> QED BY <1>1, <1>2 DEF Inv

\* The gifts the console signs are of their type, and carry the command they are for.
LEMMA GiftTypes ==
    /\ InitMessage \in SignedMessage
    /\ \A c \in PoolCommands, s \in Nat :
           Signed(Forever, s, FALSE, PoolGift(c)) \in SignedMessage
    /\ \A c \in Transfers, s, until \in Nat, grams \in Amounts \cup {All} :
           Signed(until, s, FALSE, Gift(c, c, c, grams)) \in SignedMessage
BY WalletAssumption DEF InitMessage, Signed, SignedMessage

\* A message for a command that has not been used keeps the messages distinct.
LEMMA NewMessage ==
    ASSUME Inv, NEW m \in SignedMessage,
           m = InitMessage \/ Unused(m.gift.command),
           m.gift.command = NoCommand => m = InitMessage,
           inflight' = inflight \cup {m},
           UNCHANGED <<active, seqno, balance, now, executed, sent>>
    PROVE  Inv'
<1>1. TypeOK' /\ (sent \in Seq({n.gift : n \in SignedMessage}))'
  BY DEF Inv, TypeOK
<1>2. ReplayProtection'
  <2>1. \A a, b \in inflight' : a.gift.command = b.gift.command => a = b
    <3>1. CASE Unused(m.gift.command)
      BY <3>1 DEF Inv, ReplayProtection, Unused
    <3>2. CASE m = InitMessage
      <4>1. m.gift.command = NoCommand
        BY <3>2 DEF InitMessage, Signed, NoGift, Gift
      <4> QED BY <3>2, <4>1 DEF Inv, ReplayProtection
    <3> QED BY <3>1, <3>2
  <2> QED BY <2>1 DEF Inv, ReplayProtection
<1>3. PaidOnce'
  BY DEF Inv, PaidOnce
<1> QED BY <1>1, <1>2, <1>3 DEF Inv

\* A message that is executed has not been executed before.
LEMMA ExecuteStep ==
    ASSUME Inv, NEW m \in inflight, NEW fee \in Fees, Execute(m, fee)
    PROVE  Inv'
<1> DEFINE rest == balance - fee
           sends == m.gift # NoGift /\ Payable(m.gift, rest)
<1> USE WalletAssumption
<1>1. /\ m \in SignedMessage /\ m.seqno = seqno /\ seqno \in Nat /\ seqno' = seqno + 1
      /\ executed' = Append(executed, m) /\ executed \in Seq(SignedMessage)
      /\ sent' = IF sends THEN Append(sent, m.gift) ELSE sent
      /\ sent \in Seq({n.gift : n \in SignedMessage})
      /\ inflight' = inflight
  BY DEF Execute, Accepts, NextSeqno, Inv, TypeOK
<1>2. TypeOK'
  <2>1. balance' \in Nat
    <3>1. rest \in Nat
      BY DEF Execute, Inv, TypeOK
    <3>2. m.gift.grams \in Nat \/ m.gift.grams = All
      BY <1>1 DEF SignedMessage, NoGift, PoolGift, Gift
    <3>3. balance' = IF sends THEN rest - Cost(m.gift, rest) ELSE rest
      BY DEF Execute
    <3> HIDE DEF rest
    <3> QED BY <3>1, <3>2, <3>3 DEF Payable, Cost, All
  <2>2. seqno' \in 0..MaxSeqno
    BY <1>1 DEF Execute, NextSeqno
  <2> QED BY <1>1, <2>1, <2>2 DEF Execute, Inv, TypeOK
<1>3. (sent \in Seq({n.gift : n \in SignedMessage}))'
  BY <1>1 DEF SignedMessage
<1>4. \A i \in DOMAIN executed : executed[i].seqno # seqno /\ executed[i] # m
  BY <1>1 DEF Inv, ReplayProtection
<1>5. ReplayProtection'
  <2>1. Len(executed') = seqno'
    BY <1>1 DEF Inv, ReplayProtection
  <2>2. \A i \in DOMAIN executed' :
            executed'[i] \in inflight' /\ executed'[i].seqno = i - 1
    BY <1>1 DEF Inv, ReplayProtection
  <2>3. /\ \A a, b \in inflight' : a.gift.command = b.gift.command => a = b
        /\ \A a \in inflight' : a.gift.command = NoCommand => a = InitMessage
    BY <1>1 DEF Inv, ReplayProtection
  <2>4. \A k \in DOMAIN sent' : \E i \in DOMAIN executed' : executed'[i].gift = sent'[k]
    <3>1. TAKE k \in DOMAIN sent'
    <3>2. CASE k \in DOMAIN sent
      <4>1. sent'[k] = sent[k]
        BY <1>1, <3>2
      <4>2. PICK i \in DOMAIN executed : executed[i].gift = sent[k]
        BY <3>2 DEF Inv, ReplayProtection
      <4>3. i \in DOMAIN executed' /\ executed'[i] = executed[i]
        BY <1>1
      <4> QED BY <4>1, <4>2, <4>3
    <3>3. CASE k \notin DOMAIN sent
      <4>1. sent'[k] = m.gift
        BY <1>1, <3>3
      <4>2. Len(executed) + 1 \in DOMAIN executed' /\ executed'[Len(executed) + 1] = m
        BY <1>1
      <4> QED BY <4>1, <4>2
    <3> QED BY <3>2, <3>3
  <2> QED BY <2>1, <2>2, <2>3, <2>4 DEF ReplayProtection
<1>6. PaidOnce'
  <2>1. \A k \in DOMAIN sent : sent[k].command # m.gift.command
    <3>1. TAKE k \in DOMAIN sent
    <3>2. PICK i \in DOMAIN executed : executed[i].gift = sent[k]
      BY DEF Inv, ReplayProtection
    <3>3. executed[i] \in inflight
      BY DEF Inv, ReplayProtection
    <3> QED BY <1>4, <3>2, <3>3 DEF Inv, ReplayProtection
  <2>2. CASE sends
    <3>1. sent' = Append(sent, m.gift)
      BY <1>1, <2>2
    <3> QED BY <1>1, <2>1, <3>1 DEF Inv, PaidOnce
  <2>3. CASE ~ sends
    BY <1>1, <2>3 DEF Inv, PaidOnce
  <2> QED BY <2>2, <2>3
<1> QED BY <1>2, <1>3, <1>5, <1>6 DEF Inv

\* Every step of the console, the network and the wallet preserves the invariant.
LEMMA WalletNext == Inv /\ [Next]_vars => Inv'
<1> SUFFICES ASSUME Inv, [Next]_vars PROVE Inv'
  OBVIOUS
<1> USE WalletAssumption
<1>1. CASE InitAccount
  BY <1>1, GiftTypes, NewMessage DEF InitAccount
<1>2. ASSUME NEW c \in PoolCommands, PoolCommand(c) PROVE Inv'
  <2> DEFINE m == Signed(Forever, seqno, FALSE, PoolGift(c))
  <2>1. m \in SignedMessage /\ m.gift.command = c
    BY GiftTypes DEF Inv, TypeOK, Signed, PoolGift, Gift
  <2>2. /\ Unused(m.gift.command) /\ m.gift.command # NoCommand
        /\ inflight' = inflight \cup {m}
        /\ UNCHANGED <<active, seqno, balance, now, executed, sent>>
    BY <1>2, <2>1, Zenon DEF PoolCommand
  <2> HIDE DEF m
  <2> QED BY <2>1, <2>2, NewMessage
<1>3. ASSUME NEW c \in Transfers, NEW grams \in Amounts, Transfer(c, grams) PROVE Inv'
  <2> DEFINE amount == IF grams = balance THEN All ELSE grams
             m == Signed(now + Timeout, seqno, FALSE, Gift(c, c, c, amount))
  <2>1. m \in SignedMessage /\ m.gift.command = c
    <3>1. amount \in Amounts \cup {All} /\ seqno \in Nat /\ now + Timeout \in Nat
      BY DEF Inv, TypeOK
    <3> HIDE DEF amount
    <3> QED BY <3>1, GiftTypes DEF Signed, Gift
  <2>2. /\ Unused(m.gift.command) /\ m.gift.command # NoCommand
        /\ inflight' = inflight \cup {m}
        /\ UNCHANGED <<active, seqno, balance, now, executed, sent>>
    BY <1>3, <2>1, Zenon DEF Transfer
  <2> HIDE DEF m
  <2> QED BY <2>1, <2>2, NewMessage
<1>4. ASSUME NEW v \in Values, Receive(v) PROVE Inv'
  <2>1. TypeOK'
    BY <1>4 DEF Receive, Inv, TypeOK
  <2>2. (sent \in Seq({m.gift : m \in SignedMessage}) /\ ReplayProtection /\ PaidOnce)'
    BY <1>4 DEF Receive, Inv, ReplayProtection, PaidOnce
  <2> QED BY <2>1, <2>2 DEF Inv
<1>5. ASSUME NEW m \in inflight, NEW fee \in Fees, Deliver(m, fee) PROVE Inv'
  <2>1. CASE Execute(m, fee)
    BY <2>1, ExecuteStep
  <2>2. CASE RunOutOfGas(m, fee)
    BY <2>2 DEF RunOutOfGas, Inv, TypeOK, ReplayProtection, PaidOnce
  <2>3. CASE SeqnoOverflow(m, fee)
    BY <2>3 DEF SeqnoOverflow, Inv, TypeOK, ReplayProtection, PaidOnce
  <2> QED BY <1>5, <2>1, <2>2, <2>3 DEF Deliver
<1>6. CASE Tick
  BY <1>6 DEF Tick, Inv, TypeOK, ReplayProtection, PaidOnce
<1>7. CASE UNCHANGED vars
  BY <1>7 DEF vars, Inv, TypeOK, ReplayProtection, PaidOnce
<1> QED BY <1>1, <1>2, <1>3, <1>4, <1>5, <1>6, <1>7 DEF Next

\* The invariant of the wallet: the seqno counts the executed messages, which carry the
\* seqnos 0, 1, 2, ... and commands that are all different, and no gift was sent twice.
THEOREM WalletInvariant == Spec => []Inv
BY WalletInit, WalletNext, PTL DEF Spec

\* Neither the seqno nor the balance leaves its range, whatever is delivered.
THEOREM WalletTypeCorrect == Spec => []TypeOK
<1>1. Inv => TypeOK
  BY DEF Inv
<1> QED BY <1>1, WalletInvariant, PTL

\* recv_external executes at most one message per seqno, in the order of the seqnos.
THEOREM WalletOneCommandPerSeqno == Spec => []OneCommandPerSeqno
<1>1. Inv => OneCommandPerSeqno
  <2> SUFFICES ASSUME Inv, NEW i \in DOMAIN executed, NEW j \in DOMAIN executed, i < j
               PROVE  /\ executed[i].seqno < executed[j].seqno
                      /\ executed[i].gift # executed[j].gift
    BY DEF OneCommandPerSeqno
  <2>1. /\ i \in Nat /\ j \in Nat
        /\ executed[i] \in inflight /\ executed[i].seqno = i - 1
        /\ executed[j] \in inflight /\ executed[j].seqno = j - 1
    BY DEF Inv, TypeOK, ReplayProtection
  <2>2. executed[i] # executed[j]
    BY <2>1
  <2> QED BY <2>1, <2>2 DEF Inv, ReplayProtection
<1> QED BY <1>1, WalletInvariant, PTL

\* No command pays twice: not when its message is delivered again, and not when the
\* transaction of the wallet has failed after accept_message.
THEOREM WalletPaidOnce == Spec => []PaidOnce
<1>1. Inv => PaidOnce
  BY DEF Inv
<1> QED BY <1>1, WalletInvariant, PTL

\* The wallet's seqno counts its executed messages, and every gift it sent is one of an
\* executed message (recv_external of wallet-code.fc).
THEOREM WalletReplayProtection == Spec => []ReplayProtection
<1>1. Inv => ReplayProtection
  BY DEF Inv
<1> QED BY <1>1, WalletInvariant, PTL

=============================================================================
