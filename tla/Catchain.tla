------------------------------- MODULE Catchain -------------------------------
(***************************************************************************)
(* The catchain under a validator session: every node signs a chain of     *)
(* blocks, each of which names its predecessor and the newest blocks of    *)
(* other nodes it has seen.  A node has two actors, the receiver           *)
(* (catchain-receiver.cpp), which stores blocks, delivers them after       *)
(* everything they depend on and signs new ones, and the catchain          *)
(* (catchain.cpp), which chooses what a new block depends on.  Blocks are  *)
(* lost, delayed and repeated on the way; a node crashes between any two   *)
(* writes of its database and starts again from what was committed.        *)
(*                                                                         *)
(* All nodes follow the code, so that a fork could only be the work of a   *)
(* crash.  A block is named by its source, its height and the life of the  *)
(* source that signed it, which stand for its hash: a node that signs the  *)
(* same height in two lives makes two different blocks.                    *)
(***************************************************************************)
EXTENDS Integers, Sequences, FiniteSets

CONSTANTS
    Nodes,          \* the sources
    MaxDeps,        \* opts_.max_deps
    None,           \* no process is active; no root is waiting to be written
    MaxHeight,      \* bound: height of a block of a node
    MaxBlocks,      \* bound: blocks signed in all
    MaxLife,        \* bound: lives of a node
    MaxPending      \* bound: blocks that wait for the one being signed

ASSUME CatchainAssumption ==
    /\ MaxDeps \in Nat /\ MaxBlocks \in Nat /\ MaxPending \in Nat
    /\ MaxHeight \in [Nodes -> Nat] /\ MaxLife \in [Nodes -> Nat]

VARIABLES
    made,           \* the contents of the signed blocks
    published,      \* the blocks that were sent to neighbours
    life,           \* how often the node has started
    disk, root,     \* the database: committed blocks, and the last own block
    buffer, new_root,   \* writes that are not committed
    received,       \* the blocks the receiver holds
    last,           \* last_sent_block_
    sending,        \* the own block being added, and how far it is
    pending,        \* pending_blocks_
    top,            \* top_blocks_
    process_deps    \* process_deps_ while a process is active

disk_vars == <<disk, root, buffer, new_root>>
receiver_vars == <<received, last, sending, pending>>
chain_vars == <<top, process_deps>>
vars == <<made, published, life, disk_vars, receiver_vars, chain_vars>>

(* The root block, of height 0.                                             *)
Root == [src |-> None, height |-> 0, life |-> 0]

NotSending == [stage |-> "none", block |-> Root]

Init ==
    /\ made = [b \in {Root} |-> [prev |-> Root, deps |-> {}, past |-> {}, vt |-> [n \in Nodes |-> 0]]]
    /\ published = {}
    /\ life = [n \in Nodes |-> 1]
    /\ disk = [n \in Nodes |-> {}]
    /\ root = [n \in Nodes |-> Root]
    /\ buffer = [n \in Nodes |-> {}]
    /\ new_root = [n \in Nodes |-> None]
    /\ received = [n \in Nodes |-> {}]
    /\ last = [n \in Nodes |-> Root]
    /\ sending = [n \in Nodes |-> NotSending]
    /\ pending = [n \in Nodes |-> << >>]
    /\ top = [n \in Nodes |-> {}]
    /\ process_deps = [n \in Nodes |-> {}]

(***************************************************************************)
(* Receiving.                                                              *)
(***************************************************************************)
Parents(b) == {made[b].prev} \cup made[b].deps

(* Mutant: a block is delivered as soon as it is there itself.              *)
DeliveredAtOnce(bs) == bs

(* A block is delivered once everything before it is there.                 *)
Delivered(bs) == {b \in bs : made[b].past \subseteq bs}

(* Mutant: the predecessor stays a top block.                               *)
WithoutDeps(t, new) == t \ UNION {made[b].deps : b \in new}

WithoutParents(t, new) == t \ UNION {Parents(b) : b \in new}

(* on_new_block for the blocks that are delivered now, in an order in which *)
(* each comes after what it depends on.  The call to the catchain runs at   *)
(* once: to wait in its queue is to be received later.                      *)
OnNewBlocks(n, new) == WithoutParents(top[n] \cup {b \in new : b.src # n}, new)

(* Mutant: the block is not written to the database.                        *)
Unwritten(n, b) == UNCHANGED buffer

WriteBlock(n, b) == buffer' = [buffer EXCEPT ![n] = @ \cup {b}]

Receive(n) == \E b \in published \ received[n] :
    LET now == received[n] \cup {b}
    IN  /\ received' = [received EXCEPT ![n] = now]
        /\ top' = [top EXCEPT ![n] = OnNewBlocks(n, Delivered(now) \ Delivered(received[n]))]
        /\ WriteBlock(n, b)
        /\ UNCHANGED <<made, published, life, disk, root, new_root, last, sending, pending, process_deps>>

(***************************************************************************)
(* Own blocks: signed, written to the database, named there as the last    *)
(* own block, and only then delivered and sent.                            *)
(***************************************************************************)
(* Mutant: the heights seen through other nodes are left out.               *)
OwnHeights(b, prev, deps) == [made[prev].vt EXCEPT ![b.src] = b.height]

(* update_deps for the predecessor and the dependencies, and the height of  *)
(* the block itself.                                                        *)
Heights(b, prev, deps) ==
    [m \in Nodes |->
        IF m = b.src THEN b.height
        ELSE CHOOSE h \in {made[p].vt[m] : p \in {prev} \cup deps} :
               \A p \in {prev} \cup deps : made[p].vt[m] <= h]

Content(b, prev, deps) ==
    [prev |-> prev, deps |-> deps,
     past |-> (UNION {made[p].past \cup {p} : p \in {prev} \cup deps}) \ {Root},
     vt |-> Heights(b, prev, deps)]

(* The next own block is signed and goes to the database.                   *)
AddBlock(n) ==
    /\ sending[n] = NotSending /\ pending[n] # << >>
    /\ last[n].height < MaxHeight[n] /\ Cardinality(DOMAIN made) <= MaxBlocks
    /\ LET b == [src |-> n, height |-> last[n].height + 1, life |-> life[n]]
       IN  /\ made' = [c \in DOMAIN made \cup {b} |->
                          IF c = b THEN Content(b, last[n], Head(pending[n])) ELSE made[c]]
           /\ sending' = [sending EXCEPT ![n] = [stage |-> "storing", block |-> b]]
           /\ buffer' = [buffer EXCEPT ![n] = @ \cup {b}]
    /\ pending' = [pending EXCEPT ![n] = Tail(@)]
    /\ UNCHANGED <<published, life, disk, root, new_root, received, last, chain_vars>>

(* All writes since the last commit are committed together; those of        *)
(* received blocks wait for up to a second, those of own blocks ask for it  *)
(* at once.                                                                 *)
Commit(n) ==
    /\ buffer[n] # {} \/ new_root[n] # None
    /\ disk' = [disk EXCEPT ![n] = @ \cup buffer[n]]
    /\ root' = [root EXCEPT ![n] = IF new_root[n] = None THEN @ ELSE new_root[n]]
    /\ buffer' = [buffer EXCEPT ![n] = {}]
    /\ new_root' = [new_root EXCEPT ![n] = None]
    /\ UNCHANGED <<made, published, life, receiver_vars, chain_vars>>

AddBlockCont2(n) ==
    /\ sending[n].stage = "storing" /\ sending[n].block \in disk[n]
    /\ new_root' = [new_root EXCEPT ![n] = sending[n].block]
    /\ sending' = [sending EXCEPT ![n].stage = "rooting"]
    /\ UNCHANGED <<made, published, life, disk, root, buffer, received, last, pending, chain_vars>>

(* Mutant: the block is sent while its name is still being written.         *)
NotWaited(n) == TRUE

RootWritten(n) == root[n] = sending[n].block

(* The block is delivered, which sends it to neighbours.                    *)
AddBlockCont3(n) ==
    /\ sending[n].stage = "rooting" /\ RootWritten(n)
    /\ received' = [received EXCEPT ![n] = @ \cup {sending[n].block}]
    /\ last' = [last EXCEPT ![n] = sending[n].block]
    /\ published' = published \cup {sending[n].block}
    /\ top' = [top EXCEPT ![n] = OnNewBlocks(n, {sending[n].block})]
    /\ sending' = [sending EXCEPT ![n] = NotSending]
    /\ UNCHANGED <<made, life, disk_vars, pending, process_deps>>

(***************************************************************************)
(* The catchain.                                                           *)
(***************************************************************************)
(* send_process takes top blocks at random, as many as a block may name.    *)
Choices(t) == {w \in SUBSET t : Cardinality(w) = MaxDeps \/ (w = t /\ Cardinality(t) <= MaxDeps)}

(* The alarm: idle_timeout, or the session asked for a block.               *)
SendProcess(n) ==
    /\ process_deps[n] = None
    /\ \E w \in Choices(top[n]) :
         /\ process_deps' = [process_deps EXCEPT ![n] = w]
         /\ top' = [top EXCEPT ![n] = @ \ w]
    /\ UNCHANGED <<made, published, life, disk_vars, receiver_vars>>

(* The session has made the payload.  The next process starts at once when  *)
(* there are top blocks, or when the session asked for it meanwhile.        *)
ProcessedBlock(n) ==
    /\ process_deps[n] # None /\ Len(pending[n]) < MaxPending
    /\ pending' = [pending EXCEPT ![n] = Append(@, process_deps[n])]
    /\ \/ /\ top[n] = {}
          /\ process_deps' = [process_deps EXCEPT ![n] = None]
          /\ UNCHANGED top
       \/ \E w \in Choices(top[n]) :
            /\ process_deps' = [process_deps EXCEPT ![n] = w]
            /\ top' = [top EXCEPT ![n] = @ \ w]
    /\ UNCHANGED <<made, published, life, disk_vars, received, last, sending>>

(***************************************************************************)
(* A crash at any moment and the start after it: the last own block and    *)
(* everything before it is read from the database, delivered and sent      *)
(* again, the catchain is told of all of it, and then a process starts.    *)
(***************************************************************************)
Past(b) == IF b = Root THEN {} ELSE made[b].past \cup {b}

TopOf(n, bs) == {b \in bs : b.src # n /\ \A c \in bs : b \notin Parents(c)}

Restart(n) ==
    /\ life[n] < MaxLife[n]
    /\ life' = [life EXCEPT ![n] = @ + 1]
    /\ buffer' = [buffer EXCEPT ![n] = {}]
    /\ new_root' = [new_root EXCEPT ![n] = None]
    /\ received' = [received EXCEPT ![n] = Past(root[n])]
    /\ last' = [last EXCEPT ![n] = root[n]]
    /\ published' = published \cup Past(root[n])
    /\ sending' = [sending EXCEPT ![n] = NotSending]
    /\ pending' = [pending EXCEPT ![n] = << >>]
    /\ \E w \in Choices(TopOf(n, Past(root[n]))) :
         /\ process_deps' = [process_deps EXCEPT ![n] = w]
         /\ top' = [top EXCEPT ![n] = TopOf(n, Past(root[n])) \ w]
    /\ UNCHANGED <<made, disk, root>>

Next == \E n \in Nodes :
    \/ Receive(n)
    \/ AddBlock(n)
    \/ Commit(n)
    \/ AddBlockCont2(n)
    \/ AddBlockCont3(n)
    \/ SendProcess(n)
    \/ ProcessedBlock(n)
    \/ Restart(n)

Spec == Init /\ [][Next]_vars

(***************************************************************************)
(* Properties.                                                             *)
(***************************************************************************)
(* The types; everything held or stored was signed.  The catchain only      *)
(* knows blocks whose whole past the receiver holds (deliver), and so an    *)
(* own block is delivered at once: CHECK(last_sent_block_->delivered()) in  *)
(* add_block_cont_3 and read_db.                                            *)
TypeOK ==
    /\ \A b \in DOMAIN made : b = Root \/ /\ b.src \in Nodes
                                          /\ b.height \in 1..MaxHeight[b.src]
                                          /\ b.life \in 1..life[b.src]
    /\ published \subseteq DOMAIN made \ {Root}
    /\ \A n \in Nodes :
         /\ disk[n] \cup buffer[n] \cup received[n] \subseteq DOMAIN made \ {Root}
         /\ process_deps[n] = None \/ process_deps[n] \subseteq received[n]
         /\ \A b \in top[n] \cup {last[n]} : Past(b) \subseteq received[n]
         /\ {root[n], last[n], sending[n].block} \subseteq DOMAIN made
         /\ Len(pending[n]) <= MaxPending

(* No crash makes a node fork: two blocks of one source and one height are  *)
(* never both sent (add_block_cont, add_block_cont_2, read_db), although    *)
(* two may be signed.                                                       *)
NoForks == \A b \in published, c \in published :
    b.src = c.src /\ b.height = c.height => b = c

(* Whenever a node crashes, all that read_db follows from the last own      *)
(* block is in the database: CHECK(g.status == Ok) in read_block_from_db.   *)
Recoverable == \A n \in Nodes : Past(root[n]) \subseteq disk[n]

(* No node is blamed for what an honest one does: a block names no two      *)
(* dependencies of one source, none of its own, and none that its           *)
(* predecessor already reaches (pre_validate_block, pre_deliver).           *)
NeverIll == \A b \in DOMAIN made :
    LET c == made[b]
    IN  \A x \in c.deps :
          /\ x.src # b.src
          /\ x.height > made[c.prev].vt[x.src]
          /\ \A y \in c.deps : x.src = y.src => x = y

(* The heights of a block tell what it descends from: is_descendant_of is   *)
(* true of the blocks before it and of no other.                            *)
HeightsExact == \A b \in published, c \in published :
    c.height <= made[b].vt[c.src] <=> c \in Past(b)
=============================================================================
