---------------------------- MODULE OwnerWallet ----------------------------
(***************************************************************************)
(* The owner's wallet contract (staking/smartcont/wallet3-code.fc) and the *)
(* console that signs messages for it (staking/staking/tonpool-cli.cpp).   *)
(*                                                                         *)
(* The console reads the seqno of the wallet, signs a message with it and  *)
(* hands it to the network, which may deliver a message late, out of       *)
(* order, several times or never: a message stays in flight for good, and  *)
(* nothing obliges a delivery.  Only the values read go into a message, so *)
(* it is in flight from the moment of the read: a console that is slow to  *)
(* sign is a network that is slow to deliver.                              *)
(***************************************************************************)
EXTENDS Integers, Sequences

CONSTANTS
    PoolCommands,     \* uses of the console's pool command
    Transfers,        \* uses of the console's transfer command
    NoCommand,        \* the init message carries no command
    FixedAddress,     \* the address written into the console
    Amounts,          \* grams of a transfer
    PoolGrams,        \* grams of a pool command (100000 nanograms in the code)
    Values,           \* grams the wallet may receive in one transfer
    Fees,             \* import and gas fees of a transaction of the wallet
    AcceptFee,        \* the part of the fees spent when the message is accepted
    FwdFee,           \* forwarding fee of an outbound message
    Timeout,          \* lifetime of a transfer (60 seconds in the code)
    Forever,          \* valid_until of init messages and pool commands
    MaxSeqno,         \* largest seqno the wallet can store (2^32 - 1 in the code)
    MaxTime,          \* bound on the clock
    MaxBalance        \* bound on the balance

ASSUME WalletAssumption ==
    /\ PoolCommands \cap Transfers = {}
    /\ NoCommand \notin PoolCommands \cup Transfers
    /\ Amounts \subseteq Nat \ {0} /\ Values \subseteq Nat /\ Fees \subseteq Nat
    /\ PoolGrams \in Nat /\ AcceptFee \in Nat \ {0} /\ FwdFee \in Nat
    /\ Timeout \in Nat /\ Forever \in Nat /\ MaxSeqno \in Nat
    /\ MaxTime \in Nat /\ MaxBalance \in Nat

VARIABLES
    active,       \* the contract is deployed
    seqno,        \* the seqno in the contract's data
    balance,      \* grams on the wallet's account
    now,          \* the time of the next block
    inflight,     \* signed messages the network may deliver
    executed,     \* history: the messages whose transaction was committed
    sent          \* history: the gifts that left the wallet

vars == <<active, seqno, balance, now, inflight, executed, sent>>

-----------------------------------------------------------------------------
\* gramms = -1 in a gift stands for the whole balance.
All == -1

Gift(command, to, body, grams) == [command |-> command, to |-> to, body |-> body, grams |-> grams]
NoGift == Gift(NoCommand, NoCommand, NoCommand, 0)

\* A signed message.  The console writes the subwallet id it reads from the same data,
\* so that it always agrees with the stored one.
Signed(valid_until, s, init, gift) ==
    [valid_until |-> valid_until, seqno |-> s, init |-> init, gift |-> gift]

InitMessage == Signed(Forever, 0, TRUE, NoGift)

\* Every use of a command signs one message.
Unused(c) == \A m \in inflight : m.gift.command # c

Init ==
    /\ active = FALSE
    /\ seqno = 0
    /\ balance = 0
    /\ now = 0
    /\ inflight = {}
    /\ executed = <<>>
    /\ sent = <<>>

-----------------------------------------------------------------------------
(***************************************************************************)
(* The console                                                             *)
(***************************************************************************)

\* init <key> owner
InitAccount ==
    /\ inflight' = inflight \cup {InitMessage}
    /\ UNCHANGED <<active, seqno, balance, now, executed, sent>>

\* The message of a pool command: the request of the command is not part of it, and it
\* goes to a fixed address.
PoolGift(c) == Gift(c, FixedAddress, "111", PoolGrams)

\* pool <key> sns: send_request cannot read the data of a wallet that is not deployed.
PoolCommand(c) ==
    /\ active
    /\ Unused(c)
    /\ inflight' = inflight \cup {Signed(Forever, seqno, FALSE, PoolGift(c))}
    /\ UNCHANGED <<active, seqno, balance, now, executed, sent>>

\* transfer: refused when the wallet does not hold the grams; the whole balance is sent
\* as such.
Transfer(c, grams) ==
    /\ active
    /\ Unused(c)
    /\ grams <= balance
    /\ inflight' = inflight \cup
           {Signed(now + Timeout, seqno, FALSE,
                   Gift(c, c, c, IF grams = balance THEN All ELSE grams))}
    /\ UNCHANGED <<active, seqno, balance, now, executed, sent>>

-----------------------------------------------------------------------------
(***************************************************************************)
(* The wallet                                                              *)
(***************************************************************************)

\* An internal message with grams, before or after the deployment.
Receive(v) ==
    /\ balance + v <= MaxBalance
    /\ balance' = balance + v
    /\ UNCHANGED <<active, seqno, now, inflight, executed, sent>>

\* The checks up to accept_message.  The wallet must be deployed, or be deployed by this
\* message, and have the grams for them.
AcceptsAnySeqno(m) ==
    (active \/ m.init) /\ balance >= AcceptFee /\ m.valid_until > now
Accepts(m) ==
    /\ active \/ m.init
    /\ balance >= AcceptFee
    /\ m.valid_until > now
    /\ m.seqno = seqno

\* Whether the wallet can pay for the gift out of rest: the grams and the forwarding fee
\* (mode 3), or the fee out of the whole balance (mode 131).
AlwaysPayable(gift, rest) == TRUE
Payable(gift, rest) == rest >= FwdFee + (IF gift.grams = All THEN 0 ELSE gift.grams)

Cost(gift, rest) == IF gift.grams = All THEN rest ELSE gift.grams + FwdFee

SameSeqno(s) == s
NextSeqno(s) == s + 1

\* recv_external to its end.  A gift that cannot be paid is skipped, and its message is
\* used up all the same.
Execute(m, fee) ==
    LET rest == balance - fee
        sends == m.gift # NoGift /\ Payable(m.gift, rest)
    IN  /\ Accepts(m)
        /\ fee \in AcceptFee..balance
        /\ NextSeqno(seqno) <= MaxSeqno
        /\ active' = TRUE
        /\ seqno' = NextSeqno(seqno)
        /\ balance' = IF sends THEN rest - Cost(m.gift, rest) ELSE rest
        /\ sent' = IF sends THEN Append(sent, m.gift) ELSE sent
        /\ executed' = Append(executed, m)
        /\ UNCHANGED <<now, inflight>>

\* The message is accepted and paid for, but the balance does not buy the gas to the end:
\* it is spent (up to rounding).
RunOutOfGas(m, fee) ==
    /\ Accepts(m)
    /\ fee > balance
    /\ active' = TRUE
    /\ balance' = 0
    /\ UNCHANGED <<seqno, now, inflight, executed, sent>>

\* The message is accepted and paid for, but the next seqno has 33 bits: store_uint throws.
SeqnoOverflow(m, fee) ==
    /\ Accepts(m)
    /\ fee \in AcceptFee..balance
    /\ NextSeqno(seqno) > MaxSeqno
    /\ active' = TRUE
    /\ balance' = balance - fee
    /\ UNCHANGED <<seqno, now, inflight, executed, sent>>

Deliver(m, fee) == Execute(m, fee) \/ RunOutOfGas(m, fee) \/ SeqnoOverflow(m, fee)

Tick ==
    /\ now < MaxTime
    /\ now' = now + 1
    /\ UNCHANGED <<active, seqno, balance, inflight, executed, sent>>

-----------------------------------------------------------------------------
Next ==
    \/ InitAccount
    \/ \E c \in PoolCommands : PoolCommand(c)
    \/ \E c \in Transfers, grams \in Amounts : Transfer(c, grams)
    \/ \E v \in Values : Receive(v)
    \/ \E m \in inflight, fee \in Fees : Deliver(m, fee)
    \/ Tick

Spec == Init /\ [][Next]_vars

-----------------------------------------------------------------------------
(***************************************************************************)
(* Properties                                                              *)
(***************************************************************************)

SignedMessage ==
    [valid_until : Nat, seqno : Nat, init : BOOLEAN,
     gift : {NoGift} \cup {PoolGift(c) : c \in PoolCommands}
                \cup {Gift(c, c, c, grams) : c \in Transfers, grams \in Amounts \cup {All}}]

\* The seqno stays within its 32 bits and the balance is never overdrawn, whichever gifts
\* recv_external sends or skips.
TypeOK ==
    /\ active \in BOOLEAN
    /\ seqno \in 0..MaxSeqno
    /\ balance \in Nat
    /\ now \in Nat
    /\ inflight \subseteq SignedMessage
    /\ executed \in Seq(SignedMessage)

\* recv_external executes one message per seqno, in the order of the seqnos the console
\* has read: however often and however late a message is delivered, it is executed at most
\* once, of two commands signed with the same seqno only one is, and none is executed after
\* a command that was signed on a later state of the wallet.
OneCommandPerSeqno ==
    \A i, j \in DOMAIN executed :
        i < j => /\ executed[i].seqno < executed[j].seqno
                 /\ executed[i].gift # executed[j].gift

\* The wallet pays once per command, although a message that runs out of gas or meets the
\* largest seqno is accepted again: no command sends two gifts.
PaidOnce ==
    \A i, j \in DOMAIN sent : sent[i].command = sent[j].command => i = j

\* What makes the two hold, step by step: the seqno counts the executed messages, no two
\* messages carry the same command (the init message none), and every gift that was sent is one of an executed
\* message.
ReplayProtection ==
    /\ Len(executed) = seqno
    /\ \A i \in DOMAIN executed : executed[i] \in inflight /\ executed[i].seqno = i - 1
    /\ \A m, n \in inflight : m.gift.command = n.gift.command => m = n
    /\ \A m \in inflight : m.gift.command = NoCommand => m = InitMessage
    /\ \A k \in DOMAIN sent : \E i \in DOMAIN executed : executed[i].gift = sent[k]
=============================================================================
