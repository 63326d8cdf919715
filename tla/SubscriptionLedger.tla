------------------------- MODULE SubscriptionLedger -------------------------
(***************************************************************************)
(* What the pool keeps of its promises about subscriptions, without the    *)
(* amounts: an entry is opened in the current period, ends at most once,   *)
(* by redemption in a later period, and stays in the ledger for ever.      *)
(***************************************************************************)
EXTENDS Naturals, Sequences

CONSTANT Holders

VARIABLES
    period,     \* the open period, 0 before the pool is deployed
    entries     \* the entries in the order of their ids

ledger == <<period, entries>>

Entry(h) == [holder |-> h, opened |-> period, state |-> "active"]

Init == period = 0 /\ entries = <<>>

\* The owner's entry opens period 0, which is closed at once.
Deploy(h) ==
    /\ period = 0
    /\ period' = 1
    /\ entries' = <<Entry(h)>>

Open(h) ==
    /\ period > 0
    /\ entries' = Append(entries, Entry(h))
    /\ UNCHANGED period

Redeem(id) ==
    /\ entries[id].state = "active" /\ entries[id].opened < period
    /\ entries' = [entries EXCEPT ![id].state = "redeemed"]
    /\ UNCHANGED period

\* A period is closed, and one entry may be opened in it as its incentive fee.
Close ==
    /\ period > 0
    /\ period' = period + 1
    /\ \/ UNCHANGED entries
       \/ \E h \in Holders : entries' = Append(entries, Entry(h))

Next ==
    \/ \E h \in Holders : Deploy(h) \/ Open(h)
    \/ \E id \in DOMAIN entries : Redeem(id)
    \/ Close

Spec == Init /\ [][Next]_ledger

=============================================================================
