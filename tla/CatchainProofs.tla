---------------------------- MODULE CatchainProofs ----------------------------
(***************************************************************************)
(* The catchain of the validators, for every set of nodes, every bound and *)
(* every order of writes, commits, deliveries and crashes: its state keeps *)
(* its types, no crash makes a node fork, the heights a block carries tell *)
(* exactly what it descends from, and no block of an honest node is ill.   *)
(***************************************************************************)
EXTENDS Catchain, WellFoundedInduction, TLAPS

USE ZenonT(60)

Blocks == [src : Nodes \cup {None}, height : Nat, life : Nat]

(* What a node holds of the chain was sent by somebody before.              *)
HeldIsPublished(n) ==
    /\ received[n] \subseteq published
    /\ top[n] \subseteq published
    /\ process_deps[n] = None \/ process_deps[n] \subseteq published
    /\ pending[n] \in Seq(SUBSET published)

(* The stages of an own block: the name in the database is that of the last *)
(* sent block until it is that of the block being added.                    *)
Stages(n) ==
    /\ last[n] = Root \/ (last[n] \in published /\ last[n].src = n)
    /\ sending[n] \in [stage : {"none", "storing", "rooting"}, block : Blocks]
    /\ sending[n].stage # "none" =>
         /\ sending[n].block \in DOMAIN made
         /\ sending[n].block.src = n
         /\ sending[n].block.height = last[n].height + 1
    /\ sending[n].stage # "rooting" => root[n] = last[n] /\ new_root[n] = None
    /\ sending[n].stage = "rooting" =>
         \/ root[n] = last[n] /\ new_root[n] = sending[n].block
         \/ root[n] = sending[n].block /\ new_root[n] = None

(* Nothing of a node was sent beyond the name in its database.              *)
UpToRoot(n) == \A b \in published : b.src = n =>
    b.height <= root[n].height /\ (b.height = root[n].height => b = root[n])

Shapes ==
    /\ life \in [Nodes -> Nat]
    /\ root = [n \in Nodes |-> root[n]] /\ new_root = [n \in Nodes |-> new_root[n]]
    /\ received = [n \in Nodes |-> received[n]] /\ last = [n \in Nodes |-> last[n]]
    /\ sending = [n \in Nodes |-> sending[n]] /\ pending = [n \in Nodes |-> pending[n]]
    /\ top = [n \in Nodes |-> top[n]]
    /\ process_deps = [n \in Nodes |-> process_deps[n]]

IInv ==
    /\ Shapes
    /\ made = [b \in DOMAIN made |-> made[b]]
    /\ DOMAIN made \subseteq Blocks /\ Root \in DOMAIN made
    /\ published \subseteq DOMAIN made
    /\ \A b \in published : b.height > 0
    /\ \A b \in DOMAIN made : made[b].past \subseteq published
    /\ \A n \in Nodes : HeldIsPublished(n) /\ Stages(n) /\ UpToRoot(n)
    /\ NoForks

-----------------------------------------------------------------------------
(* The first states.                                                        *)
LEMMA InitIInv == ASSUME CatchainAssumption, Init PROVE IInv
<1>1. Root \in Blocks
  BY SMT DEF Root, Blocks
<1>2. Shapes /\ DOMAIN made = {Root} /\ made = [b \in DOMAIN made |-> made[b]]
  BY SMT DEF Init, Shapes
<1>3. \A n \in Nodes : HeldIsPublished(n) /\ UpToRoot(n)
  BY SMT DEF Init, HeldIsPublished, UpToRoot
<1>4. \A n \in Nodes : Stages(n)
  BY <1>1, SMT DEF Init, Stages, NotSending
<1>5. made[Root].past \subseteq published
  BY SMT DEF Init
<1> QED BY <1>1, <1>2, <1>3, <1>4, <1>5, SMT DEF IInv, Init, NoForks

(* What the receiver delivers to the catchain adds only what it holds.      *)
LEMMA TopHeld ==
    ASSUME NEW n, NEW new, new \subseteq published, top[n] \subseteq published
    PROVE  OnNewBlocks(n, new) \subseteq published
  BY SMT DEF OnNewBlocks, WithoutParents

(* Receiving, choosing dependencies and handing over a payload only move    *)
(* published blocks between the places a node holds them.                   *)
LEMMA HeldIInv ==
    ASSUME IInv, NEW n \in Nodes,
           \/ Receive(n) \/ SendProcess(n) \/ ProcessedBlock(n)
    PROVE  IInv'
<1>1. UNCHANGED <<made, published, life, root, new_root, last, sending>>
  BY DEF Receive, SendProcess, ProcessedBlock, WriteBlock, disk_vars, receiver_vars
<1>2. \A m \in Nodes : Stages(m)' /\ UpToRoot(m)'
  BY <1>1, SMT DEF IInv, Stages, UpToRoot
<1>3. Shapes' /\ HeldIsPublished(n)' /\ \A m \in Nodes \ {n} : HeldIsPublished(m)'
  <2> USE DEF IInv, Shapes, HeldIsPublished
  <2>1. CASE Receive(n)
    <3>1. PICK b \in published \ received[n] : Receive(n)!(b)
      BY <2>1 DEF Receive
    <3> DEFINE new == Delivered(received[n] \cup {b}) \ Delivered(received[n])
    <3>2. new \subseteq published
      BY SMT DEF Delivered
    <3>3. OnNewBlocks(n, new) \subseteq published
      BY <3>2, TopHeld
    <3> HIDE DEF new
    <3>4. top' = [top EXCEPT ![n] = OnNewBlocks(n, new)]
      BY <3>1, SMT DEF new
    <3> QED BY <1>1, <3>1, <3>3, <3>4
  <2>2. CASE SendProcess(n)
    <3>1. PICK w \in Choices(top[n]) :
             /\ process_deps' = [process_deps EXCEPT ![n] = w]
             /\ top' = [top EXCEPT ![n] = @ \ w]
      BY <2>2 DEF SendProcess
    <3>2. w \subseteq published
      BY SMT DEF Choices
    <3> QED BY <1>1, <2>2, <3>1, <3>2 DEF SendProcess, receiver_vars
  <2>3. CASE ProcessedBlock(n)
    <3>1. /\ pending' = [pending EXCEPT ![n] = Append(@, process_deps[n])]
          /\ process_deps[n] \in SUBSET published
          /\ UNCHANGED received
      BY <2>3, SMT DEF ProcessedBlock
    <3>2. \/ UNCHANGED top /\ process_deps' = [process_deps EXCEPT ![n] = None]
          \/ \E w \in Choices(top[n]) :
               /\ process_deps' = [process_deps EXCEPT ![n] = w]
               /\ top' = [top EXCEPT ![n] = @ \ w]
      BY <2>3, SMT DEF ProcessedBlock
    <3>3. \A w \in Choices(top[n]) : w \subseteq published
      BY SMT DEF Choices
    <3>4. Append(pending[n], process_deps[n]) \in Seq(SUBSET published)
      BY <3>1, SMT
    <3>5. Shapes'
      BY <1>1, <3>1, <3>2
    <3>6. pending'[n] \in Seq(SUBSET published') /\ received'[n] \subseteq published'
      BY <1>1, <3>1, <3>4, SMT
    <3>7. /\ top'[n] \subseteq published'
          /\ process_deps'[n] = None \/ process_deps'[n] \subseteq published'
      BY <1>1, <3>2, <3>3, SMT
    <3>8. \A m \in Nodes \ {n} : HeldIsPublished(m)'
      BY <1>1, <3>1, <3>2
    <3> QED BY <3>5, <3>6, <3>7, <3>8, SMT
  <2> QED BY <2>1, <2>2, <2>3, SMT
<1> QED BY <1>1, <1>2, <1>3, SMT DEF IInv, NoForks

(* What is before a block is a parent of it, or before a parent.            *)
LEMMA PastMember ==
    ASSUME NEW b, NEW prev, NEW deps
    PROVE  \A x \in Content(b, prev, deps).past :
               x # Root /\ \E p \in {prev} \cup deps : x \in made[p].past \cup {p}
<1> DEFINE U == UNION {made[p].past \cup {p} : p \in {prev} \cup deps}
           vt == Heights(b, prev, deps)
<1>1. Content(b, prev, deps) = [prev |-> prev, deps |-> deps, past |-> U \ {Root}, vt |-> vt]
  BY SMT DEF Content
<1>2. \A x \in U : \E p \in {prev} \cup deps : x \in made[p].past \cup {p}
  BY SMT
<1> HIDE DEF U, vt
<1>3. Content(b, prev, deps).past = U \ {Root}
  BY <1>1, SMT
<1> QED BY <1>2, <1>3, SMT

(* And everything before a parent is before the block.                      *)
LEMMA PastHas ==
    ASSUME NEW b, NEW prev, NEW deps
    PROVE  \A p \in {prev} \cup deps : \A x \in made[p].past \cup {p} :
               x # Root => x \in Content(b, prev, deps).past
<1> DEFINE U == UNION {made[p].past \cup {p} : p \in {prev} \cup deps}
           vt == Heights(b, prev, deps)
<1>1. Content(b, prev, deps) = [prev |-> prev, deps |-> deps, past |-> U \ {Root}, vt |-> vt]
  BY SMT DEF Content
<1>2. \A p \in {prev} \cup deps : \A x \in made[p].past \cup {p} : x \in U
  BY SMT
<1> HIDE DEF U, vt
<1>3. Content(b, prev, deps).past = U \ {Root}
  BY <1>1, SMT
<1> QED BY <1>2, <1>3, SMT

(* A new own block rests on published blocks only, and is one higher than   *)
(* the last one that was sent.                                              *)
LEMMA AddBlockIInv ==
    ASSUME IInv, NEW n \in Nodes, AddBlock(n)
    PROVE  IInv'
<1> DEFINE b == [src |-> n, height |-> last[n].height + 1, life |-> life[n]]
           c == Content(b, last[n], Head(pending[n]))
<1>1. /\ sending[n] = NotSending /\ pending[n] # << >>
      /\ made' = [d \in DOMAIN made \cup {b} |-> IF d = b THEN c ELSE made[d]]
      /\ sending' = [sending EXCEPT ![n] = [stage |-> "storing", block |-> b]]
      /\ pending' = [pending EXCEPT ![n] = Tail(@)]
      /\ UNCHANGED <<published, life, root, new_root, received, last, top, process_deps>>
  BY SMT DEF AddBlock, chain_vars
<1>2. last[n] \in Blocks /\ last[n] \in DOMAIN made /\ b \in Blocks
  BY SMT DEF IInv, Stages, Blocks, Shapes
<1>3. c.past \subseteq published
  <2>1. Head(pending[n]) \subseteq published
    BY <1>1, SMT DEF IInv, HeldIsPublished
  <2>2. {last[n]} \cup Head(pending[n]) \subseteq published \cup {Root}
    BY <2>1, SMT DEF IInv, Stages
  <2>3. \A p \in {last[n]} \cup Head(pending[n]) : made[p].past \cup {p} \subseteq published \cup {Root}
    BY <2>2, SMT DEF IInv
  <2>4. \A x \in c.past : x # Root /\ \E p \in {last[n]} \cup Head(pending[n]) : x \in made[p].past \cup {p}
    BY PastMember, SMT
  <2> HIDE DEF c
  <2> QED BY <2>3, <2>4, SMT
<1>4. \A m \in Nodes : HeldIsPublished(m)'
  BY <1>1, SMT DEF IInv, HeldIsPublished, Shapes
<1>5. \A m \in Nodes : UpToRoot(m)'
  BY <1>1, SMT DEF IInv, UpToRoot
<1> HIDE DEF c
<1>6. Stages(n)'
  BY <1>1, <1>2, SMT DEF IInv, Stages, Shapes, NotSending
<1>7. \A m \in Nodes \ {n} : Stages(m)'
  BY <1>1 DEF IInv, Stages, Shapes
<1>8. Shapes'
  BY <1>1 DEF IInv, Shapes
<1>9. \A d \in DOMAIN made' : made'[d].past \subseteq published'
  BY <1>1, <1>3, SMT DEF IInv
<1> QED BY <1>1, <1>2, <1>4, <1>5, <1>6, <1>7, <1>8, <1>9 DEF IInv, NoForks

(* The two writes of an own block and the commit that puts its name into    *)
(* the database: the name moves one height up from the last sent block.     *)
LEMMA WritesIInv ==
    ASSUME IInv, NEW n \in Nodes, Commit(n) \/ AddBlockCont2(n)
    PROVE  IInv'
<1>1. UNCHANGED <<made, published, life, received, last, pending, top, process_deps>>
  BY SMT DEF Commit, AddBlockCont2, receiver_vars, chain_vars
<1>2. \A m \in Nodes : HeldIsPublished(m)'
  BY <1>1, SMT DEF IInv, HeldIsPublished
<1>3. last[n] \in Blocks /\ last[n].height \in Nat
  BY SMT DEF IInv, Stages, Blocks
<1>4. CASE Commit(n)
  <2>1. /\ root' = [root EXCEPT ![n] = IF new_root[n] = None THEN @ ELSE new_root[n]]
        /\ new_root' = [new_root EXCEPT ![n] = None]
        /\ UNCHANGED sending
    BY <1>4, SMT DEF Commit, receiver_vars
  <2>2. Shapes'
    BY <1>1, <2>1 DEF IInv, Shapes
  <2>3. \A m \in Nodes \ {n} : root'[m] = root[m] /\ new_root'[m] = new_root[m]
    BY <2>1, SMT DEF IInv, Shapes
  <2>4. \A m \in Nodes \ {n} : Stages(m)' /\ UpToRoot(m)'
    BY <1>1, <2>1, <2>3, SMT DEF IInv, Stages, UpToRoot
  <2>5. /\ root'[n] = IF new_root[n] = None THEN root[n] ELSE new_root[n]
        /\ new_root'[n] = None
    BY <2>1, SMT DEF IInv, Shapes
  <2>6. Stages(n)'
    BY <1>1, <2>1, <2>5, SMT DEF IInv, Stages
  <2>7. root'[n] = root[n] \/ (root[n] = last[n] /\ root'[n].height = root[n].height + 1)
    BY <2>5, SMT DEF IInv, Stages
  <2>8. UpToRoot(n)'
    <3>1. CASE root'[n] = root[n]
      BY <1>1, <3>1, SMT DEF IInv, UpToRoot
    <3>2. CASE root[n] = last[n] /\ root'[n].height = root[n].height + 1
      <4> SUFFICES ASSUME NEW b \in published, b.src = n
                   PROVE  b.height <= root'[n].height /\ b.height # root'[n].height
        BY <1>1, SMT DEF UpToRoot
      <4>1. b.height <= root[n].height
        BY SMT DEF IInv, UpToRoot
      <4>2. b.height \in Nat /\ root[n].height \in Nat
        BY <1>3, <3>2, SMT DEF IInv, Blocks
      <4> QED BY <3>2, <4>1, <4>2, SMT
    <3> QED BY <2>7, <3>1, <3>2, SMT
  <2> QED BY <1>1, <1>2, <2>2, <2>4, <2>6, <2>8, SMT DEF IInv, NoForks
<1>5. CASE AddBlockCont2(n)
  <2>1. /\ sending[n].stage = "storing"
        /\ new_root' = [new_root EXCEPT ![n] = sending[n].block]
        /\ sending' = [sending EXCEPT ![n].stage = "rooting"]
        /\ UNCHANGED root
    BY <1>5, SMT DEF AddBlockCont2
  <2>2. Shapes'
    BY <1>1, <2>1 DEF IInv, Shapes
  <2>3. \A m \in Nodes \ {n} : new_root'[m] = new_root[m] /\ sending'[m] = sending[m]
    BY <2>1, SMT DEF IInv, Shapes
  <2>4. \A m \in Nodes \ {n} : Stages(m)'
    BY <1>1, <2>1, <2>3, SMT DEF IInv, Stages
  <2>5. /\ sending'[n] = [stage |-> "rooting", block |-> sending[n].block]
        /\ new_root'[n] = sending[n].block
    BY <2>1, SMT DEF IInv, Shapes, Stages
  <2>6. Stages(n)'
    BY <1>1, <2>1, <2>5, SMT DEF IInv, Stages
  <2>7. \A m \in Nodes : UpToRoot(m)'
    BY <1>1, <2>1, SMT DEF IInv, UpToRoot
  <2> QED BY <1>1, <1>2, <2>2, <2>4, <2>6, <2>7, SMT DEF IInv, NoForks
<1> QED BY <1>4, <1>5, SMT

(* Sending the block the database names, or one that was sent before, makes *)
(* no fork.                                                                 *)
LEMMA SendsRoot ==
    ASSUME IInv, NEW n \in Nodes, UNCHANGED root,
           root[n] = Root \/ (root[n].src = n /\ root[n] \in DOMAIN made /\ root[n].height > 0),
           published' \subseteq published \cup ({root[n]} \ {Root})
    PROVE  /\ NoForks'
           /\ \A m \in Nodes : UpToRoot(m)'
<1>1. \A b \in published' : b \in published \/ (b = root[n] /\ b.src = n)
  BY SMT
<1>2. \A m \in Nodes : UpToRoot(m)'
  BY <1>1, SMT DEF IInv, UpToRoot, Blocks
<1>3. \A b \in published : b.src = n /\ b.height = root[n].height => b = root[n]
  BY SMT DEF IInv, UpToRoot
<1>4. NoForks'
  BY <1>1, <1>3, SMT DEF IInv, NoForks
<1> QED BY <1>2, <1>4, SMT

(* A block is sent once the database names it.                              *)
LEMMA AddBlockCont3IInv ==
    ASSUME IInv, NEW n \in Nodes, AddBlockCont3(n)
    PROVE  IInv'
<1> DEFINE b == sending[n].block
<1>1. /\ sending[n].stage = "rooting" /\ root[n] = b
      /\ received' = [received EXCEPT ![n] = @ \cup {b}]
      /\ last' = [last EXCEPT ![n] = b]
      /\ published' = published \cup {b}
      /\ top' = [top EXCEPT ![n] = OnNewBlocks(n, {b})]
      /\ sending' = [sending EXCEPT ![n] = NotSending]
      /\ UNCHANGED <<made, life, root, new_root, pending, process_deps>>
  BY SMT DEF AddBlockCont3, RootWritten, disk_vars
<1>2. b \in DOMAIN made /\ b \in Blocks /\ b.src = n /\ b.height > 0 /\ b # Root
  <2>1. b \in DOMAIN made /\ b \in Blocks /\ b.src = n /\ b.height = last[n].height + 1
    BY <1>1, SMT DEF IInv, Stages
  <2>2. last[n].height \in Nat
    BY SMT DEF IInv, Stages, Blocks
  <2> QED BY <2>1, <2>2, SMT DEF Root
<1>3. NoForks' /\ \A m \in Nodes : UpToRoot(m)'
  BY <1>1, <1>2, SendsRoot, SMT
<1>4. Shapes'
  BY <1>1 DEF IInv, Shapes
<1>5. new_root[n] = None
  BY <1>1, <1>2, SMT DEF IInv, Stages, Blocks
<1>6. OnNewBlocks(n, {b}) \subseteq published'
  BY <1>1, SMT DEF IInv, HeldIsPublished, OnNewBlocks, WithoutParents
<1>7. \A m \in Nodes : HeldIsPublished(m)'
  <2>1. SUFFICES ASSUME NEW m \in Nodes PROVE HeldIsPublished(m)'
    BY SMT
  <2>2. HeldIsPublished(m)
    BY SMT DEF IInv
  <2>3. pending[m] \in Seq(SUBSET published')
    BY <1>1, <2>2, SMT DEF HeldIsPublished
  <2>4. top'[m] \subseteq published' /\ received'[m] \subseteq published'
    BY <1>1, <1>6, <2>2 DEF HeldIsPublished, IInv, Shapes
  <2> QED BY <1>1, <2>2, <2>3, <2>4 DEF HeldIsPublished
<1>8. \A m \in Nodes \ {n} : Stages(m)'
  BY <1>1 DEF IInv, Stages, Shapes
<1>9. Stages(n)'
  <2>1. last'[n] = b /\ sending'[n] = NotSending
    BY <1>1, SMT DEF IInv, Shapes
  <2>2. Root \in Blocks
    BY SMT DEF IInv
  <2> QED BY <1>1, <1>2, <1>5, <2>1, <2>2, SMT DEF Stages, NotSending
<1> QED BY <1>1, <1>2, <1>3, <1>4, <1>7, <1>8, <1>9, SMT DEF IInv

(* A restart sends again what the database names and what it rests on.      *)
LEMMA RestartIInv ==
    ASSUME IInv, NEW n \in Nodes, Restart(n)
    PROVE  IInv'
<1> DEFINE P == Past(root[n])
<1>1. PICK w \in Choices(TopOf(n, P)) :
        /\ process_deps' = [process_deps EXCEPT ![n] = w]
        /\ top' = [top EXCEPT ![n] = TopOf(n, P) \ w]
  BY DEF Restart
<1>2. /\ life' = [life EXCEPT ![n] = @ + 1]
      /\ new_root' = [new_root EXCEPT ![n] = None]
      /\ received' = [received EXCEPT ![n] = P]
      /\ last' = [last EXCEPT ![n] = root[n]]
      /\ published' = published \cup P
      /\ sending' = [sending EXCEPT ![n] = NotSending]
      /\ pending' = [pending EXCEPT ![n] = << >>]
      /\ UNCHANGED <<made, root>>
  BY SMT DEF Restart
<1>3. root[n] = Root \/ (root[n].src = n /\ root[n] \in DOMAIN made /\ root[n].height > 0)
  <2>1. last[n].height \in Nat
    BY SMT DEF IInv, Stages, Blocks
  <2> QED BY <2>1, SMT DEF IInv, Stages
<1>4. P \subseteq published \cup ({root[n]} \ {Root})
  <2>1. CASE root[n] = Root
    BY <2>1, SMT DEF Past
  <2>2. CASE root[n] # Root
    BY <1>3, <2>2, SMT DEF IInv, Past
  <2> QED BY <2>1, <2>2, SMT
<1>5. root[n] = Root \/ root[n] \in P
  BY SMT DEF Past
<1> HIDE DEF P
<1>6. NoForks' /\ \A m \in Nodes : UpToRoot(m)'
  BY <1>2, <1>3, <1>4, SendsRoot, SMT
<1>7. Shapes'
  <2>1. life' \in [Nodes -> Nat]
    BY <1>2, SMT DEF IInv, Shapes
  <2>2. /\ root' = [m \in Nodes |-> root'[m]] /\ new_root' = [m \in Nodes |-> new_root'[m]]
        /\ received' = [m \in Nodes |-> received'[m]] /\ last' = [m \in Nodes |-> last'[m]]
    BY <1>2 DEF IInv, Shapes
  <2>3. /\ sending' = [m \in Nodes |-> sending'[m]] /\ pending' = [m \in Nodes |-> pending'[m]]
    BY <1>2 DEF IInv, Shapes
  <2>4. /\ top' = [m \in Nodes |-> top'[m]]
        /\ process_deps' = [m \in Nodes |-> process_deps'[m]]
    BY <1>1 DEF IInv, Shapes
  <2> QED BY <2>1, <2>2, <2>3, <2>4, SMT DEF Shapes
<1>8. \A m \in Nodes : HeldIsPublished(m)'
  <2>1. TopOf(n, P) \subseteq published' /\ w \subseteq published'
    BY <1>2, SMT DEF TopOf, Choices
  <2>2. SUFFICES ASSUME NEW m \in Nodes PROVE HeldIsPublished(m)'
    BY SMT
  <2>3. HeldIsPublished(m)
    BY SMT DEF IInv
  <2>4. CASE m = n
    <3>1. /\ received'[n] = P /\ pending'[n] = << >>
          /\ top'[n] = TopOf(n, P) \ w /\ process_deps'[n] = w
      BY <1>1, <1>2, SMT DEF IInv, Shapes
    <3>2. pending'[n] \in Seq(SUBSET published')
      BY <3>1, SMT
    <3>3. received'[n] \subseteq published'
      BY <1>2, <3>1, SMT
    <3>4. top'[n] \subseteq published' /\ process_deps'[n] \subseteq published'
      BY <2>1, <3>1, SMT
    <3> QED BY <2>4, <3>2, <3>3, <3>4, SMT DEF HeldIsPublished
  <2>5. CASE m # n
    <3>1. /\ received'[m] = received[m] /\ pending'[m] = pending[m]
          /\ top'[m] = top[m] /\ process_deps'[m] = process_deps[m]
      BY <1>1, <1>2, <2>5 DEF IInv, Shapes
    <3>2. pending[m] \in Seq(SUBSET published')
      BY <1>2, <2>3, SMT DEF HeldIsPublished
    <3> QED BY <1>2, <2>3, <3>1, <3>2 DEF HeldIsPublished
  <2> QED BY <2>4, <2>5
<1>9. \A m \in Nodes \ {n} : Stages(m)'
  BY <1>2 DEF IInv, Stages, Shapes
<1>10. Stages(n)'
  <2>1. last'[n] = root[n] /\ sending'[n] = NotSending /\ new_root'[n] = None
    BY <1>2 DEF IInv, Shapes
  <2>2. Root \in Blocks
    BY DEF IInv
  <2> QED BY <1>2, <1>3, <1>5, <2>1, <2>2, SMT DEF Stages, NotSending
<1>11. \A d \in published' : d \in DOMAIN made /\ d.height > 0
  BY <1>2, <1>3, <1>4 DEF IInv
<1> QED BY <1>2, <1>6, <1>7, <1>8, <1>9, <1>10, <1>11 DEF IInv

LEMMA StepIInv == ASSUME IInv, [Next]_vars PROVE IInv'
<1>1. CASE Next
  BY <1>1, HeldIInv, AddBlockIInv, WritesIInv, AddBlockCont3IInv, RestartIInv DEF Next
<1>2. CASE UNCHANGED vars
  BY <1>2, SMT DEF vars, disk_vars, receiver_vars, chain_vars, IInv, Shapes, HeldIsPublished,
              Stages, UpToRoot, NoForks
<1> QED BY <1>1, <1>2

(* No crash makes a node fork: an own block is sent only once the database  *)
(* names it as the last own block (add_block_cont_2, add_block_cont_3), and *)
(* a node that starts again goes on from that name (read_db), so that of    *)
(* one source and one height only one block is ever sent.                   *)
THEOREM CatchainNoForks == Spec => []NoForks
<1>1. Init => IInv
  BY InitIInv, CatchainAssumption
<1>2. IInv /\ [Next]_vars => IInv'
  BY StepIInv
<1>3. IInv => NoForks
  BY DEF IInv
<1> QED BY <1>1, <1>2, <1>3, PTL DEF Spec

-----------------------------------------------------------------------------
(* A node can always start again: what the name in its database rests on is *)
(* committed.                                                               *)

(* A node signs a height once in each of its lives.                         *)
Fresh(n) == \A b \in DOMAIN made : b.src = n =>
    /\ b.life <= life[n]
    /\ b.life = life[n] => b.height <= last[n].height \/ b = sending[n].block

(* What a block descends from contains what its members descend from.       *)
Closed ==
    /\ made[Root].past = {}
    /\ \A b \in DOMAIN made :
         /\ Root \notin made[b].past
         /\ \A c \in made[b].past : made[c].past \subseteq made[b].past

(* Everything a new block can name is delivered and on its way to the disk, *)
(* and a block reaches the disk together with all it rests on.              *)
Stored(n) ==
    /\ disk[n] \cup buffer[n] \subseteq DOMAIN made
    /\ received[n] \subseteq disk[n] \cup buffer[n]
    /\ top[n] \subseteq Delivered(received[n])
    /\ process_deps[n] = None \/ process_deps[n] \subseteq Delivered(received[n])
    /\ pending[n] \in Seq(SUBSET Delivered(received[n]))
    /\ last[n] = Root \/ last[n] \in Delivered(received[n])
    /\ sending[n].stage # "none" =>
         /\ made[sending[n].block].past \subseteq received[n]
         /\ sending[n].block \in disk[n] \cup buffer[n]
         /\ sending[n].block \in disk[n] => made[sending[n].block].past \subseteq disk[n]
    /\ sending[n].stage = "rooting" => sending[n].block \in disk[n]
    /\ Past(root[n]) \subseteq disk[n]

RInv ==
    /\ IInv
    /\ disk = [n \in Nodes |-> disk[n]] /\ buffer = [n \in Nodes |-> buffer[n]]
    /\ \A n \in Nodes : life[n] > 0
    /\ Closed
    /\ \A n \in Nodes : Fresh(n) /\ Stored(n)

LEMMA InitRInv == ASSUME CatchainAssumption, Init PROVE RInv
<1>1. IInv
  BY InitIInv
<1>2. DOMAIN made = {Root} /\ made[Root].past = {}
  BY DEF Init
<1>3. ASSUME NEW n \in Nodes PROVE Fresh(n) /\ Stored(n)
  <2>1. life[n] = 1 /\ Root.life = 0
    BY DEF Init, Root
  <2>2. Fresh(n)
    BY <1>2, <2>1, SMT DEF Fresh
  <2>3. Stored(n)
    BY <1>2, SMT DEF Init, Stored, NotSending, Past
  <2> QED BY <2>2, <2>3
<1>4. /\ disk = [n \in Nodes |-> disk[n]] /\ buffer = [n \in Nodes |-> buffer[n]]
      /\ \A n \in Nodes : life[n] > 0
  BY SMT DEF Init
<1> QED BY <1>1, <1>2, <1>3, <1>4 DEF RInv, Closed

(* More blocks never undo a delivery.                                       *)
LEMMA DeliveredGrows ==
    ASSUME NEW bs, NEW more
    PROVE  Delivered(bs) \subseteq Delivered(bs \cup more)
  BY DEF Delivered

LEMMA SeqGrows ==
    ASSUME NEW S, NEW T, S \subseteq T, NEW s \in Seq(SUBSET S)
    PROVE  s \in Seq(SUBSET T)
<1>1. SUBSET S \subseteq SUBSET T
  OBVIOUS
<1> QED BY <1>1, SMT

(* What a step leaves of a node: the same when nothing of it changed, and   *)
(* blocks made since leave the known ones as they were.                     *)
LEMMA OthersRInv ==
    ASSUME RInv, NEW m \in Nodes,
           DOMAIN made \subseteq DOMAIN made',
           \A b \in DOMAIN made : made'[b] = made[b],
           \A b \in DOMAIN made' \ DOMAIN made : b.src # m,
           disk'[m] = disk[m], buffer'[m] = buffer[m], received'[m] = received[m],
           top'[m] = top[m], process_deps'[m] = process_deps[m], pending'[m] = pending[m],
           last'[m] = last[m], sending'[m] = sending[m], root'[m] = root[m], life'[m] = life[m]
    PROVE  Fresh(m)' /\ Stored(m)'
<1>1. Fresh(m)'
  BY SMT DEF RInv, Fresh
<1>2. received[m] \subseteq DOMAIN made /\ root[m] \in DOMAIN made
  BY SMT DEF RInv, IInv, HeldIsPublished, Stages
<1>3. Delivered(received[m])' = Delivered(received[m])
  BY <1>2 DEF Delivered
<1>4. Past(root[m])' = Past(root[m])
  BY <1>2 DEF Past
<1>5. sending[m].stage # "none" => sending[m].block \in DOMAIN made
  BY DEF RInv, IInv, Stages
<1>6. Stored(m)'
  BY <1>3, <1>4, <1>5 DEF RInv, Stored
<1> QED BY <1>1, <1>6

(* Receiving writes what it receives; what is delivered is held.            *)
LEMMA ReceiveRInv ==
    ASSUME RInv, IInv', NEW n \in Nodes, Receive(n)
    PROVE  RInv'
<1>1. PICK b \in published \ received[n] : Receive(n)!(b)
  BY DEF Receive
<1> DEFINE now == received[n] \cup {b}
           new == Delivered(now) \ Delivered(received[n])
<1>2. /\ received' = [received EXCEPT ![n] = now]
      /\ top' = [top EXCEPT ![n] = OnNewBlocks(n, new)]
      /\ buffer' = [buffer EXCEPT ![n] = @ \cup {b}]
      /\ UNCHANGED <<made, published, life, disk, root, new_root, last, sending, pending, process_deps>>
  BY <1>1 DEF WriteBlock
<1>3. \A m \in Nodes \ {n} : Fresh(m)' /\ Stored(m)'
  <2> SUFFICES ASSUME NEW m \in Nodes \ {n} PROVE Fresh(m)' /\ Stored(m)'
    OBVIOUS
  <2>1. received'[m] = received[m] /\ top'[m] = top[m] /\ buffer'[m] = buffer[m]
    BY <1>2 DEF RInv, IInv, Shapes
  <2> HIDE DEF new, now
  <2> QED BY <1>2, <2>1, OthersRInv
<1>4. Fresh(n)'
  BY <1>2 DEF RInv, Fresh
<1>5. Delivered(received[n]) \subseteq Delivered(now)
  BY DeliveredGrows
<1>6. OnNewBlocks(n, new) \subseteq Delivered(now)
  BY <1>5 DEF OnNewBlocks, WithoutParents, RInv, Stored
<1>7. b \in DOMAIN made
  BY DEF RInv, IInv
<1> HIDE DEF new
<1>8. /\ received'[n] = now /\ top'[n] = OnNewBlocks(n, new)
      /\ buffer'[n] = buffer[n] \cup {b}
  BY <1>2 DEF RInv, IInv, Shapes
<1>9. Delivered(received[n])' = Delivered(now)
  BY <1>2, <1>8 DEF Delivered
<1>10. Past(root[n])' = Past(root[n])
  BY <1>2 DEF Past
<1>11. Stored(n)
  BY DEF RInv
<1>12. pending[n] \in Seq(SUBSET Delivered(now))
  BY <1>5, <1>11, SeqGrows DEF Stored
<1>13. received[n] \subseteq now
  OBVIOUS
<1>14. now \subseteq disk[n] \cup buffer'[n] /\ disk[n] \cup buffer'[n] \subseteq DOMAIN made
  BY <1>7, <1>8, <1>11 DEF Stored
<1> HIDE DEF now
<1>15. Stored(n)'
  BY <1>2, <1>5, <1>6, <1>8, <1>9, <1>10, <1>11, <1>12, <1>13, <1>14, SMTT(30) DEF Stored
<1>16. Closed' /\ disk' = [m \in Nodes |-> disk'[m]] /\ buffer' = [m \in Nodes |-> buffer'[m]]
  BY <1>2 DEF RInv, Closed
<1> QED BY <1>2, <1>3, <1>4, <1>15, <1>16 DEF RInv

(* Choosing dependencies moves delivered blocks.                            *)
LEMMA ProcessRInv ==
    ASSUME RInv, IInv', NEW n \in Nodes, SendProcess(n) \/ ProcessedBlock(n)
    PROVE  RInv'
<1>1. UNCHANGED <<made, published, life, disk, root, buffer, new_root, received, last, sending>>
  BY DEF SendProcess, ProcessedBlock, disk_vars, receiver_vars
<1>2. \A m \in Nodes \ {n} :
        top'[m] = top[m] /\ process_deps'[m] = process_deps[m] /\ pending'[m] = pending[m]
  <2>1. CASE SendProcess(n)
    BY <2>1 DEF SendProcess, receiver_vars, RInv, IInv, Shapes
  <2>2. CASE ProcessedBlock(n)
    BY <2>2 DEF ProcessedBlock, RInv, IInv, Shapes
  <2> QED BY <2>1, <2>2
<1>3. \A m \in Nodes \ {n} : Fresh(m)' /\ Stored(m)'
  BY <1>1, <1>2, OthersRInv
<1>4. Fresh(n)'
  BY <1>1 DEF RInv, Fresh
<1> DEFINE D == Delivered(received[n])
<1>5. D' = D
  BY <1>1 DEF Delivered
<1>6. Stored(n)
  BY DEF RInv
<1>7. /\ top'[n] \subseteq D
      /\ process_deps'[n] = None \/ process_deps'[n] \subseteq D
      /\ pending'[n] \in Seq(SUBSET D)
  <2>0. /\ top[n] \subseteq D /\ pending[n] \in Seq(SUBSET D)
        /\ process_deps[n] = None \/ process_deps[n] \subseteq D
    BY <1>6 DEF Stored
  <2>1. \A w \in Choices(top[n]) : w \subseteq D
    BY <2>0 DEF Choices
  <2> HIDE DEF D
  <2>2. CASE SendProcess(n)
    BY <2>0, <2>1, <2>2, SMT DEF SendProcess, receiver_vars, RInv, IInv, Shapes
  <2>3. CASE ProcessedBlock(n)
    <3>1. process_deps[n] \in SUBSET D /\ pending' = [pending EXCEPT ![n] = Append(@, process_deps[n])]
      BY <2>0, <2>3 DEF ProcessedBlock
    <3>2. Append(pending[n], process_deps[n]) \in Seq(SUBSET D)
      BY <2>0, <3>1, SMT
    <3>3. pending'[n] \in Seq(SUBSET D)
      BY <3>1, <3>2 DEF RInv, IInv, Shapes
    <3>4. \/ UNCHANGED top /\ process_deps' = [process_deps EXCEPT ![n] = None]
          \/ \E w \in Choices(top[n]) :
               /\ process_deps' = [process_deps EXCEPT ![n] = w]
               /\ top' = [top EXCEPT ![n] = @ \ w]
      BY <2>3 DEF ProcessedBlock
    <3>5. top'[n] \subseteq D /\ (process_deps'[n] = None \/ process_deps'[n] \subseteq D)
      BY <2>0, <2>1, <3>4, SMT DEF RInv, IInv, Shapes
    <3> QED BY <3>3, <3>5
  <2> QED BY <2>2, <2>3
<1>8. Past(root[n])' = Past(root[n])
  BY <1>1 DEF Past
<1>9. Stored(n)'
  BY <1>1, <1>5, <1>6, <1>7, <1>8 DEF Stored
<1>10. Closed'
  BY <1>1 DEF RInv, Closed
<1> QED BY <1>1, <1>3, <1>4, <1>9, <1>10 DEF RInv

(* A new block is new, and what it rests on is held.                        *)
LEMMA AddBlockRInv ==
    ASSUME RInv, IInv', NEW n \in Nodes, AddBlock(n)
    PROVE  RInv'
<1> DEFINE b == [src |-> n, height |-> last[n].height + 1, life |-> life[n]]
           ps == {last[n]} \cup Head(pending[n])
           c == Content(b, last[n], Head(pending[n]))
           D == Delivered(received[n])
<1>1. /\ sending[n] = NotSending /\ pending[n] # << >>
      /\ made' = [d \in DOMAIN made \cup {b} |-> IF d = b THEN c ELSE made[d]]
      /\ sending' = [sending EXCEPT ![n] = [stage |-> "storing", block |-> b]]
      /\ buffer' = [buffer EXCEPT ![n] = @ \cup {b}]
      /\ pending' = [pending EXCEPT ![n] = Tail(@)]
      /\ UNCHANGED <<published, life, disk, root, new_root, received, last, top, process_deps>>
  BY DEF AddBlock, chain_vars
<1>2. last[n] \in Blocks /\ last[n].height \in Nat /\ b \in Blocks
  BY SMT DEF RInv, IInv, Stages, Blocks, Shapes
<1>3. b \notin DOMAIN made
  <2>1. Root.height = 0
    BY DEF Root
  <2> QED BY <1>1, <1>2, <2>1, SMT DEF RInv, Fresh, NotSending
<1>own. b.src = n /\ b.life = life[n]
  BY SMT
<1> HIDE DEF b
<1>4. Stored(n) /\ Fresh(n)
  BY DEF RInv
<1>5. ps \subseteq D \cup {Root} /\ D \subseteq received[n]
  <2>1. pending[n] \in Seq(SUBSET D) /\ pending[n] # << >>
    BY <1>1, <1>4 DEF Stored
  <2>2. \A S : \A q \in Seq(S) : q # << >> => Head(q) \in S
    BY SMT
  <2>3. Head(pending[n]) \in SUBSET D
    BY <2>1, <2>2
  <2> QED BY <1>4, <2>3 DEF Stored, Delivered
<1>6. received[n] \subseteq DOMAIN made /\ root[n] \in DOMAIN made /\ Root \in DOMAIN made
  BY SMT DEF RInv, IInv, HeldIsPublished, Stages
<1>7. \A p \in ps : p \in DOMAIN made /\ Root \notin made[p].past
  BY <1>5, <1>6 DEF RInv, Closed
<1>8. \A p \in ps : made[p].past \subseteq received[n]
  <2>1. made[Root].past = {}
    BY DEF RInv, Closed
  <2> QED BY <1>5, <2>1 DEF Delivered
<1>9. \A x \in c.past : x # Root /\ \E p \in ps : x \in made[p].past \cup {p}
  BY PastMember, SMT
<1>10. \A p \in ps : \A x \in made[p].past \cup {p} : x # Root => x \in c.past
  BY PastHas
<1> HIDE DEF c
<1>11. c.past \subseteq received[n]
  BY <1>5, <1>8, <1>9
<1> HIDE DEF ps
<1>12. /\ DOMAIN made' = DOMAIN made \cup {b}
       /\ made'[b] = c /\ \A d \in DOMAIN made : made'[d] = made[d]
  BY <1>1, <1>3
<1>13. b # Root
  BY <1>3, <1>6
<1>14. Closed'
  <2>1. \A x \in c.past : x \in DOMAIN made /\ made[x].past \subseteq c.past
    <3> SUFFICES ASSUME NEW x \in c.past
                 PROVE  x \in DOMAIN made /\ made[x].past \subseteq c.past
      OBVIOUS
    <3>1. PICK p \in ps : x \in made[p].past \cup {p}
      BY <1>9
    <3>2. made[p].past \subseteq c.past
      BY <1>7, <1>10
    <3>3. made[x].past \subseteq made[p].past
      BY <1>7, <3>1 DEF RInv, Closed
    <3> QED BY <1>6, <1>11, <3>2, <3>3
  <2>2. \A d \in DOMAIN made : \A x \in made[d].past : x \in DOMAIN made
    BY DEF RInv, IInv
  <2>3. ASSUME NEW d \in DOMAIN made'
        PROVE  /\ Root \notin made'[d].past
               /\ \A x \in made'[d].past : made'[x].past \subseteq made'[d].past
    <3>1. CASE d = b
      BY <1>9, <1>12, <2>1, <3>1
    <3>2. CASE d \in DOMAIN made
      BY <1>12, <2>2, <3>2 DEF RInv, Closed
    <3> QED BY <1>12, <3>1, <3>2
  <2>4. made'[Root].past = {}
    BY <1>6, <1>12 DEF RInv, Closed
  <2> QED BY <2>3, <2>4 DEF Closed
<1>15. \A m \in Nodes \ {n} : Fresh(m)' /\ Stored(m)'
  <2> SUFFICES ASSUME NEW m \in Nodes \ {n} PROVE Fresh(m)' /\ Stored(m)'
    OBVIOUS
  <2>1. sending'[m] = sending[m] /\ buffer'[m] = buffer[m] /\ pending'[m] = pending[m]
    BY <1>1 DEF RInv, IInv, Shapes
  <2>2. \A d \in DOMAIN made' \ DOMAIN made : d.src # m
    BY <1>12, <1>own
  <2> QED BY <1>1, <1>12, <2>1, <2>2, OthersRInv
<1>16. /\ sending'[n] = [stage |-> "storing", block |-> b]
       /\ buffer'[n] = buffer[n] \cup {b} /\ pending'[n] = Tail(pending[n])
  BY <1>1 DEF RInv, IInv, Shapes
<1>17. Fresh(n)'
  <2> SUFFICES ASSUME NEW d \in DOMAIN made', d.src = n
               PROVE  d.life <= life[n] /\ (d.life = life[n] => d.height <= last[n].height \/ d = b)
    <3>1. sending'[n].block = b /\ UNCHANGED <<life, last>>
      BY <1>1, <1>16, SMT
    <3> QED BY <3>1 DEF Fresh
  <2>1. CASE d = b
    <3>1. life[n] \in Nat
      BY DEF RInv, IInv, Shapes
    <3> QED BY <1>own, <2>1, <3>1, SMT
  <2>2. CASE d \in DOMAIN made
    <3>1. sending[n].block = Root /\ Root.height = 0
      BY <1>1, SMT DEF NotSending, Root
    <3>2. /\ d.life <= life[n]
          /\ d.life = life[n] => d.height <= last[n].height \/ d = Root
      BY <1>4, <2>2, <3>1 DEF Fresh
    <3>3. 0 <= last[n].height
      BY <1>2, SMT
    <3> QED BY <3>1, <3>2, <3>3
  <2> QED BY <1>12, <2>1, <2>2
<1>18. D' = D
  BY <1>1, <1>6, <1>12 DEF Delivered
<1>19. Past(root[n])' = Past(root[n])
  BY <1>1, <1>6, <1>12 DEF Past
<1>20. Tail(pending[n]) \in Seq(SUBSET D)
  <2>1. pending[n] \in Seq(SUBSET D) /\ pending[n] # << >>
    BY <1>1, <1>4 DEF Stored
  <2>2. \A S : \A q \in Seq(S) : q # << >> => Tail(q) \in Seq(S)
    BY SMT
  <2> QED BY <2>1, <2>2
<1>21. b \notin disk[n]
  BY <1>3, <1>4 DEF Stored
<1> HIDE DEF D
<1>22. Stored(n)'
  <2>1. /\ disk'[n] = disk[n] /\ received'[n] = received[n] /\ top'[n] = top[n]
        /\ process_deps'[n] = process_deps[n] /\ last'[n] = last[n]
    BY <1>1
  <2>2. /\ disk'[n] \cup buffer'[n] \subseteq DOMAIN made'
        /\ received'[n] \subseteq disk'[n] \cup buffer'[n]
    BY <1>4, <1>12, <1>16, <2>1 DEF Stored
  <2>3. /\ top'[n] \subseteq D'
        /\ process_deps'[n] = None \/ process_deps'[n] \subseteq D'
        /\ pending'[n] \in Seq(SUBSET D')
        /\ last'[n] = Root \/ last'[n] \in D'
    BY <1>4, <1>16, <1>18, <1>20, <2>1 DEF Stored, D
  <2>4. sending'[n].block = b /\ sending'[n].stage = "storing"
    BY <1>16, SMT
  <2>5. /\ made'[sending'[n].block].past \subseteq received'[n]
        /\ sending'[n].block \in disk'[n] \cup buffer'[n]
        /\ sending'[n].block \notin disk'[n]
    BY <1>11, <1>12, <1>16, <1>21, <2>1, <2>4
  <2>6. sending'[n].stage # "rooting"
    BY <2>4, SMT
  <2>7. (Past(root[n]))' \subseteq disk'[n]
    BY <1>4, <1>19, <2>1 DEF Stored
  <2> QED BY <2>2, <2>3, <2>5, <2>6, <2>7 DEF Stored, D
<1>23. disk' = [m \in Nodes |-> disk'[m]] /\ buffer' = [m \in Nodes |-> buffer'[m]]
  BY <1>1 DEF RInv
<1> QED BY <1>1, <1>14, <1>15, <1>17, <1>22, <1>23 DEF RInv

(* A commit takes a block and what it rests on to the disk together.        *)
LEMMA WritesRInv ==
    ASSUME RInv, IInv', NEW n \in Nodes, Commit(n) \/ AddBlockCont2(n)
    PROVE  RInv'
<1>1. UNCHANGED <<made, published, life, received, last, pending, top, process_deps>>
  BY DEF Commit, AddBlockCont2, receiver_vars, chain_vars
<1>2. Closed' /\ Delivered(received[n])' = Delivered(received[n])
  BY <1>1 DEF RInv, Closed, Delivered
<1>3. Stored(n) /\ Stages(n)
  BY DEF RInv, IInv
<1>4. CASE Commit(n)
  <2>1. /\ disk' = [disk EXCEPT ![n] = @ \cup buffer[n]]
        /\ root' = [root EXCEPT ![n] = IF new_root[n] = None THEN @ ELSE new_root[n]]
        /\ buffer' = [buffer EXCEPT ![n] = {}]
        /\ UNCHANGED sending
    BY <1>4 DEF Commit, receiver_vars
  <2>2. \A m \in Nodes \ {n} : root'[m] = root[m] /\ disk'[m] = disk[m] /\ buffer'[m] = buffer[m]
    BY <2>1 DEF RInv, IInv, Shapes
  <2>3. \A m \in Nodes \ {n} : Fresh(m)' /\ Stored(m)'
    BY <1>1, <2>1, <2>2, OthersRInv
  <2>4. Fresh(n)'
    BY <1>1, <2>1 DEF RInv, Fresh
  <2>5. /\ root'[n] = IF new_root[n] = None THEN root[n] ELSE new_root[n]
        /\ disk'[n] = disk[n] \cup buffer[n] /\ buffer'[n] = {}
    BY <2>1 DEF RInv, IInv, Shapes
  <2>6. root'[n] = root[n] \/ (root'[n] = sending[n].block /\ sending[n].stage = "rooting")
    BY <1>3, <2>5 DEF Stages
  <2>7. Past(root[n])' \subseteq disk'[n]
    <3>1. CASE root'[n] = root[n]
      BY <1>1, <1>3, <2>5, <3>1 DEF Stored, Past
    <3>2. CASE root'[n] = sending[n].block /\ sending[n].stage = "rooting"
      BY <1>1, <1>3, <2>5, <3>2 DEF Stored, Past
    <3> QED BY <2>6, <3>1, <3>2
  <2>8. Stored(n)'
    BY <1>1, <1>2, <1>3, <2>1, <2>5, <2>7 DEF Stored
  <2>9. disk' = [m \in Nodes |-> disk'[m]] /\ buffer' = [m \in Nodes |-> buffer'[m]]
    BY <2>1 DEF RInv
  <2> QED BY <1>1, <1>2, <2>3, <2>4, <2>8, <2>9 DEF RInv
<1>5. CASE AddBlockCont2(n)
  <2>1. /\ sending[n].stage = "storing" /\ sending[n].block \in disk[n]
        /\ sending' = [sending EXCEPT ![n].stage = "rooting"]
        /\ UNCHANGED <<disk, root, buffer>>
    BY <1>5 DEF AddBlockCont2
  <2>2. \A m \in Nodes \ {n} : sending'[m] = sending[m]
    BY <2>1 DEF RInv, IInv, Shapes
  <2>3. \A m \in Nodes \ {n} : Fresh(m)' /\ Stored(m)'
    BY <1>1, <2>1, <2>2, OthersRInv
  <2>4. sending'[n] = [stage |-> "rooting", block |-> sending[n].block]
    BY <1>3, <2>1 DEF RInv, IInv, Shapes, Stages
  <2>5. Fresh(n)'
    BY <1>1, <2>4, SMT DEF RInv, Fresh
  <2>6. Past(root[n])' = Past(root[n])
    BY <1>1, <2>1 DEF Past
  <2>7. Stored(n)'
    BY <1>1, <1>2, <1>3, <2>1, <2>4, <2>6, SMT DEF Stored
  <2> QED BY <1>1, <1>2, <2>1, <2>3, <2>5, <2>7 DEF RInv
<1> QED BY <1>4, <1>5

(* An own block is delivered as soon as it is added.                        *)
LEMMA AddBlockCont3RInv ==
    ASSUME RInv, IInv', NEW n \in Nodes, AddBlockCont3(n)
    PROVE  RInv'
<1> DEFINE b == sending[n].block
           now == received[n] \cup {b}
<1>1. /\ sending[n].stage = "rooting"
      /\ received' = [received EXCEPT ![n] = now]
      /\ last' = [last EXCEPT ![n] = b]
      /\ top' = [top EXCEPT ![n] = OnNewBlocks(n, {b})]
      /\ sending' = [sending EXCEPT ![n] = NotSending]
      /\ UNCHANGED <<made, life, disk, root, buffer, new_root, pending, process_deps>>
  BY DEF AddBlockCont3, disk_vars
<1>2. Stored(n) /\ Stages(n) /\ Fresh(n)
  BY DEF RInv, IInv
<1>3. b.src = n /\ b.height = last[n].height + 1
  BY <1>1, <1>2 DEF Stages
<1>4. /\ received'[n] = now /\ last'[n] = b /\ top'[n] = OnNewBlocks(n, {b})
      /\ sending'[n] = NotSending
  BY <1>1 DEF RInv, IInv, Shapes
<1>5. \A m \in Nodes \ {n} : Fresh(m)' /\ Stored(m)'
  <2>1. \A m \in Nodes \ {n} : /\ received'[m] = received[m] /\ last'[m] = last[m]
                               /\ top'[m] = top[m] /\ sending'[m] = sending[m]
    BY <1>1 DEF RInv, IInv, Shapes
  <2> QED BY <1>1, <2>1, OthersRInv
<1>6. last[n].height \in Nat
  BY SMT DEF RInv, IInv, Stages, Blocks
<1>7. Fresh(n)'
  <2> SUFFICES ASSUME NEW d \in DOMAIN made, d.src = n
               PROVE  d.life <= life[n] /\ (d.life = life[n] => d.height <= b.height)
    BY <1>1, <1>4 DEF Fresh
  <2>1. d.height \in Nat
    BY DEF RInv, IInv, Blocks
  <2> QED BY <1>2, <1>3, <1>6, <2>1, SMT DEF Fresh
<1>8. Delivered(received[n]) \subseteq Delivered(now) /\ b \in Delivered(now)
  BY <1>1, <1>2, DeliveredGrows DEF Stored, Delivered
<1>9. OnNewBlocks(n, {b}) \subseteq Delivered(now)
  BY <1>2, <1>8 DEF OnNewBlocks, WithoutParents, Stored
<1>10. pending[n] \in Seq(SUBSET Delivered(now))
  BY <1>2, <1>8, SeqGrows DEF Stored
<1>11. Delivered(received[n])' = Delivered(now)
  BY <1>1, <1>4 DEF Delivered
<1>12. Past(root[n])' = Past(root[n])
  BY <1>1 DEF Past
<1>13. now \subseteq disk[n] \cup buffer[n]
  BY <1>1, <1>2 DEF Stored
<1>14. sending'[n].stage = "none"
  BY <1>4, SMT DEF NotSending
<1> HIDE DEF now, b
<1>15. Stored(n)'
  BY <1>1, <1>2, <1>4, <1>8, <1>9, <1>10, <1>11, <1>12, <1>13, <1>14 DEF Stored
<1>16. Closed'
  BY <1>1 DEF RInv, Closed
<1> QED BY <1>1, <1>5, <1>7, <1>15, <1>16 DEF RInv

(* After a restart the node holds what the name in its database rests on,   *)
(* all of it delivered.                                                     *)
LEMMA RestartRInv ==
    ASSUME RInv, IInv', NEW n \in Nodes, Restart(n)
    PROVE  RInv'
<1> DEFINE P == Past(root[n])
<1>1. PICK w \in Choices(TopOf(n, P)) :
        /\ process_deps' = [process_deps EXCEPT ![n] = w]
        /\ top' = [top EXCEPT ![n] = TopOf(n, P) \ w]
  BY DEF Restart
<1>2. /\ life' = [life EXCEPT ![n] = @ + 1]
      /\ buffer' = [buffer EXCEPT ![n] = {}]
      /\ received' = [received EXCEPT ![n] = P]
      /\ last' = [last EXCEPT ![n] = root[n]]
      /\ sending' = [sending EXCEPT ![n] = NotSending]
      /\ pending' = [pending EXCEPT ![n] = << >>]
      /\ UNCHANGED <<made, disk, root>>
  BY DEF Restart
<1>3. Stored(n) /\ Fresh(n)
  BY DEF RInv
<1>4. root[n] \in DOMAIN made
  BY SMT DEF RInv, IInv, Stages
<1>5. Delivered(P) = P /\ (root[n] = Root \/ root[n] \in P)
  <2>1. CASE root[n] = Root
    BY <2>1 DEF Past, Delivered
  <2>2. CASE root[n] # Root
    BY <1>4, <2>2 DEF Past, Delivered, RInv, Closed
  <2> QED BY <2>1, <2>2
<1>6. P \subseteq disk[n]
  BY <1>3 DEF Stored
<1> HIDE DEF P
<1>7. life'[n] = life[n] + 1 /\ life[n] \in Nat
  BY <1>2 DEF RInv, IInv, Shapes
<1>8. /\ buffer'[n] = {} /\ received'[n] = P /\ last'[n] = root[n]
      /\ sending'[n] = NotSending
  BY <1>2 DEF RInv, IInv, Shapes
<1>9. pending'[n] = << >> /\ process_deps'[n] = w /\ top'[n] = TopOf(n, P) \ w
  BY <1>1, <1>2 DEF RInv, IInv, Shapes
<1>10. Fresh(n)'
  <2> SUFFICES ASSUME NEW d \in DOMAIN made, d.src = n
               PROVE  d.life <= life'[n] /\ d.life # life'[n]
    BY <1>2 DEF Fresh
  <2>1. d.life \in Nat /\ d.life <= life[n]
    BY <1>3 DEF Fresh, RInv, IInv, Blocks
  <2> QED BY <1>7, <2>1, SMT
<1>11. \A m \in Nodes \ {n} : Fresh(m)' /\ Stored(m)'
  <2> SUFFICES ASSUME NEW m \in Nodes \ {n} PROVE Fresh(m)' /\ Stored(m)'
    OBVIOUS
  <2>1. /\ life'[m] = life[m] /\ buffer'[m] = buffer[m] /\ received'[m] = received[m]
        /\ last'[m] = last[m] /\ sending'[m] = sending[m]
    BY <1>2 DEF RInv, IInv, Shapes
  <2>2. pending'[m] = pending[m] /\ process_deps'[m] = process_deps[m] /\ top'[m] = top[m]
    BY <1>1, <1>2 DEF RInv, IInv, Shapes
  <2> QED BY <1>2, <2>1, <2>2, OthersRInv
<1>12. Delivered(received[n])' = P /\ Past(root[n])' = P
  <2>1. Delivered(received[n])' = Delivered(P)
    BY <1>2, <1>8 DEF Delivered
  <2>2. Past(root[n])' = P
    BY <1>2 DEF Past, P
  <2> QED BY <1>5, <2>1, <2>2
<1>13. top'[n] \subseteq P /\ process_deps'[n] \subseteq P
  BY <1>1, <1>9 DEF TopOf, Choices
<1>14. pending'[n] \in Seq(SUBSET P)
  BY <1>9, SMT
<1>15. sending'[n].stage = "none"
  BY <1>8, SMT DEF NotSending
<1>16. Stored(n)'
  BY <1>2, <1>3, <1>5, <1>6, <1>8, <1>12, <1>13, <1>14, <1>15 DEF Stored
<1>17. Closed' /\ disk' = [m \in Nodes |-> disk'[m]] /\ buffer' = [m \in Nodes |-> buffer'[m]]
  BY <1>2 DEF RInv, Closed
<1>18. \A m \in Nodes : life'[m] > 0
  BY <1>2, <1>7, SMT DEF RInv, IInv, Shapes
<1> QED BY <1>10, <1>11, <1>16, <1>17, <1>18 DEF RInv

LEMMA StepRInv == ASSUME RInv, [Next]_vars PROVE RInv'
<1>1. IInv'
  BY StepIInv DEF RInv
<1>2. CASE Next
  BY <1>1, <1>2, ReceiveRInv, ProcessRInv, AddBlockRInv, WritesRInv, AddBlockCont3RInv,
     RestartRInv DEF Next
<1>3. CASE UNCHANGED vars
  <2>1. UNCHANGED <<made, life, disk, root, buffer, received, last, sending, pending, top, process_deps>>
    BY <1>3 DEF vars, disk_vars, receiver_vars, chain_vars
  <2>2. \A n \in Nodes : Fresh(n)' /\ Stored(n)'
    BY <2>1, OthersRInv
  <2> QED BY <1>1, <2>1, <2>2 DEF RInv, Closed
<1> QED BY <1>2, <1>3

(* Whenever a node crashes, everything that read_db follows from the last   *)
(* own block was committed, although received blocks wait for their commit: *)
(* one commit takes a block and all that was written before it.             *)
THEOREM CatchainRecoverable == Spec => []Recoverable
<1>1. Init => RInv
  BY InitRInv, CatchainAssumption
<1>2. RInv /\ [Next]_vars => RInv'
  BY StepRInv
<1>3. RInv => Recoverable
  BY DEF RInv, Stored, Recoverable
<1> QED BY <1>1, <1>2, <1>3, PTL DEF Spec
-----------------------------------------------------------------------------
(* What a block reaches, and the types.                                     *)

(* The heights of a block, of every source: nothing higher of the source is *)
(* in its past, and every height up to there is.                            *)
Reaches(b) ==
    /\ made[b].vt \in [Nodes -> Nat]
    /\ \A m \in Nodes :
         /\ made[b].vt[m] <= MaxHeight[m]
         /\ \A x \in Past(b) : x.src = m => x.height <= made[b].vt[m]
         /\ \A k \in 1..made[b].vt[m] : \E x \in Past(b) : x.src = m /\ x.height = k

Numbered(b) ==
    /\ b.src \in Nodes
    /\ b.height \in 1..MaxHeight[b.src]
    /\ b.life \in 1..life[b.src]

(* A block that is being added was not sent.                                *)
Unsent(n) ==
    /\ Root \notin disk[n] \cup buffer[n]
    /\ sending[n].block \in DOMAIN made
    /\ sending[n].stage = "none" => sending[n].block = Root
    /\ sending[n].block \notin published
    /\ Len(pending[n]) <= MaxPending

HInv ==
    /\ RInv
    /\ \A b \in DOMAIN made : Reaches(b) /\ (b = Root \/ Numbered(b))
    /\ \A n \in Nodes : Unsent(n)

(* A set of numbers below a bound that is not empty has a greatest element. *)
LEMMA Highest ==
    ASSUME NEW S, S \subseteq Nat, S # {}, NEW bound \in Nat, \A h \in S : h <= bound
    PROVE  \E h \in S : \A k \in S : k <= h
<1> DEFINE T == {bound - h : h \in S}
           Less == {p \in Nat \X Nat : p[1] < p[2]}
<1>1. T \subseteq Nat /\ T # {}
  <2>1. \A h \in S : bound - h \in Nat
    BY SMT
  <2>2. \E h \in S : TRUE
    OBVIOUS
  <2> QED BY <2>1, <2>2
<1>2. IsWellFoundedOn(Less, Nat)
  BY NatLessThanWellFounded DEF OpToRel
<1>3. \E m \in T : \A k \in T : ~ (<<k, m>> \in Less)
  <2> HIDE DEF T, Less
  <2> QED BY <1>1, <1>2, WFMin
<1>4. PICK m \in T : \A k \in T : m <= k
  <2>1. \A k \in Nat, m \in Nat : <<k, m>> \in Less \/ m <= k
    BY SMT
  <2> HIDE DEF T, Less
  <2> QED BY <1>1, <1>3, <2>1
<1>5. PICK h \in S : m = bound - h
  BY <1>4, SMT
<1>6. \A k \in S : bound - h <= bound - k
  BY <1>4, <1>5, SMT
<1> QED BY <1>6, SMT

(* Heights takes from the parents the greatest height of every source.      *)
LEMMA HeightsMax ==
    ASSUME CatchainAssumption, NEW b, NEW prev, NEW deps,
           \A p \in {prev} \cup deps : /\ made[p].vt \in [Nodes -> Nat]
                                       /\ \A m \in Nodes : made[p].vt[m] <= MaxHeight[m]
    PROVE  /\ Heights(b, prev, deps) = [m \in Nodes |-> Heights(b, prev, deps)[m]]
           /\ \A m \in Nodes :
                IF m = b.src
                  THEN Heights(b, prev, deps)[m] = b.height
                  ELSE /\ \E p \in {prev} \cup deps : Heights(b, prev, deps)[m] = made[p].vt[m]
                       /\ \A p \in {prev} \cup deps : made[p].vt[m] <= Heights(b, prev, deps)[m]
<1> DEFINE ps == {prev} \cup deps
           S(m) == {made[p].vt[m] : p \in ps}
<1>1. Heights(b, prev, deps) = [m \in Nodes |-> Heights(b, prev, deps)[m]]
  BY SMT DEF Heights
<1>2. ASSUME NEW m \in Nodes, m = b.src PROVE Heights(b, prev, deps)[m] = b.height
  BY <1>2 DEF Heights
<1>3. ASSUME NEW m \in Nodes, m # b.src
      PROVE  /\ \E p \in ps : Heights(b, prev, deps)[m] = made[p].vt[m]
             /\ \A p \in ps : made[p].vt[m] <= Heights(b, prev, deps)[m]
  <2>1. Heights(b, prev, deps)[m] = CHOOSE h \in S(m) : \A p \in ps : made[p].vt[m] <= h
    BY <1>3 DEF Heights
  <2>2. S(m) \subseteq Nat /\ S(m) # {} /\ \A h \in S(m) : h <= MaxHeight[m]
    BY SMT
  <2>3. MaxHeight[m] \in Nat
    BY DEF CatchainAssumption
  <2>4. \E h \in S(m) : \A k \in S(m) : k <= h
    <3> HIDE DEF S
    <3> QED BY <2>2, <2>3, Highest
  <2>5. \E h \in S(m) : \A p \in ps : made[p].vt[m] <= h
    BY <2>4
  <2> DEFINE H == CHOOSE h \in S(m) : \A p \in ps : made[p].vt[m] <= h
  <2>6. H \in S(m) /\ \A p \in ps : made[p].vt[m] <= H
    BY <2>5
  <2> HIDE DEF H
  <2> QED BY <2>1, <2>6 DEF H
<1> QED BY <1>1, <1>2, <1>3

(* What the next own block names, the block, and what AddBlock makes of it. *)
Named(n) == {last[n]} \cup Head(pending[n])
Signs(n, b) == b = [src |-> n, height |-> last[n].height + 1, life |-> life[n]]

LEMMA NewBlock ==
    ASSUME RInv, NEW n \in Nodes, AddBlock(n),
           NEW b, Signs(n, b)
    PROVE  /\ b.src = n /\ b.height = last[n].height + 1 /\ b.life = life[n]
           /\ b \notin DOMAIN made
           /\ DOMAIN made' = DOMAIN made \cup {b}
           /\ \A d \in DOMAIN made : made'[d] = made[d]
           /\ made'[b] = Content(b, last[n], Head(pending[n]))
           /\ made'[b].prev = last[n] /\ made'[b].deps = Head(pending[n])
           /\ made'[b].vt = Heights(b, last[n], Head(pending[n]))
           /\ sending' = [sending EXCEPT ![n] = [stage |-> "storing", block |-> b]]
           /\ last[n] \in DOMAIN made /\ last[n].height \in Nat
           /\ last[n] = Root \/ (last[n] \in published /\ last[n].src = n)
           /\ Head(pending[n]) \subseteq Delivered(received[n])
           /\ Head(pending[n]) \subseteq published
<1>1. /\ sending[n] = NotSending /\ pending[n] # << >>
      /\ made' = [d \in DOMAIN made \cup {b} |->
                     IF d = b THEN Content(b, last[n], Head(pending[n])) ELSE made[d]]
      /\ sending' = [sending EXCEPT ![n] = [stage |-> "storing", block |-> b]]
  BY DEF AddBlock, Signs
<1>2. b.src = n /\ b.height = last[n].height + 1 /\ b.life = life[n]
  BY SMT DEF Signs
<1>3. /\ last[n] \in DOMAIN made /\ last[n].height \in Nat
      /\ last[n] = Root \/ (last[n] \in published /\ last[n].src = n)
  BY SMT DEF RInv, IInv, Stages, Blocks
<1>4. Head(pending[n]) \subseteq Delivered(received[n])
  <2>1. pending[n] \in Seq(SUBSET Delivered(received[n])) /\ pending[n] # << >>
    BY <1>1 DEF RInv, Stored
  <2>2. \A S : \A q \in Seq(S) : q # << >> => Head(q) \in S
    BY SMT
  <2> QED BY <2>1, <2>2
<1>5. Delivered(received[n]) \subseteq published
  BY DEF RInv, IInv, HeldIsPublished, Delivered
<1>6. b \notin DOMAIN made
  <2>1. Fresh(n) /\ sending[n].block = Root /\ Root.height = 0
    <3>1. NotSending.block = Root /\ Root.height = 0
      BY SMT DEF NotSending, Root
    <3> QED BY <1>1, <3>1 DEF RInv
  <2> QED BY <1>2, <1>3, <2>1, SMT DEF Fresh
<1>7. /\ Content(b, last[n], Head(pending[n])).prev = last[n]
      /\ Content(b, last[n], Head(pending[n])).deps = Head(pending[n])
      /\ Content(b, last[n], Head(pending[n])).vt = Heights(b, last[n], Head(pending[n]))
  BY SMT DEF Content
<1>8. /\ DOMAIN made' = DOMAIN made \cup {b}
      /\ \A d \in DOMAIN made : made'[d] = made[d]
      /\ made'[b] = Content(b, last[n], Head(pending[n]))
  BY <1>1, <1>6
<1> QED BY <1>1, <1>2, <1>3, <1>4, <1>5, <1>6, <1>7, <1>8

LEMMA InitHInv == ASSUME CatchainAssumption, Init PROVE HInv
<1>1. RInv
  BY InitRInv
<1>2. /\ DOMAIN made = {Root} /\ made[Root].vt = [m \in Nodes |-> 0] /\ published = {}
      /\ \A n \in Nodes : /\ disk[n] = {} /\ buffer[n] = {} /\ pending[n] = << >>
                          /\ sending[n] = NotSending
  BY SMT DEF Init
<1>3. Past(Root) = {}
  BY DEF Past
<1>4. Reaches(Root)
  <2>1. \A m \in Nodes : made[Root].vt[m] = 0 /\ MaxHeight[m] \in Nat
    BY <1>2 DEF CatchainAssumption
  <2>2. made[Root].vt \in [Nodes -> Nat]
    BY <1>2, SMT
  <2>3. \A m \in Nodes : made[Root].vt[m] <= MaxHeight[m] /\ 1..made[Root].vt[m] = {}
    BY <2>1, SMT
  <2> QED BY <1>3, <2>2, <2>3 DEF Reaches
<1>5. \A n \in Nodes : Unsent(n)
  BY <1>2, SMT DEF Unsent, NotSending, CatchainAssumption
<1> QED BY <1>1, <1>2, <1>4, <1>5 DEF HInv

(* What an own block reaches: what its parents reach, and itself.           *)
LEMMA PastOfNew ==
    ASSUME RInv, NEW n \in Nodes, AddBlock(n),
           NEW b, Signs(n, b)
    PROVE  /\ \A p \in Named(n) : p \in DOMAIN made /\ (p = Root \/ p \in published)
           /\ \A d \in DOMAIN made : Past(d)' = Past(d)
           /\ Past(b)' = made'[b].past \cup {b}
           /\ \A x \in made'[b].past : x # Root /\ x \in published /\ \E p \in Named(n) : x \in Past(p)
           /\ \A p \in Named(n) : Past(p) \subseteq made'[b].past
<1>1. /\ b \notin DOMAIN made
      /\ DOMAIN made' = DOMAIN made \cup {b}
      /\ \A d \in DOMAIN made : made'[d] = made[d]
      /\ made'[b] = Content(b, last[n], Head(pending[n]))
      /\ last[n] \in DOMAIN made
      /\ last[n] = Root \/ (last[n] \in published /\ last[n].src = n)
      /\ Head(pending[n]) \subseteq published
  BY NewBlock
<1>2. Root \in DOMAIN made /\ made[Root].past = {} /\ published \subseteq DOMAIN made
  BY DEF RInv, IInv, Closed
<1>3. \A p \in Named(n) : p \in DOMAIN made /\ (p = Root \/ p \in published)
  BY <1>1, <1>2 DEF Named
<1>4. \A d \in DOMAIN made : Past(d)' = Past(d)
  BY <1>1 DEF Past
<1>5. Past(b)' = made'[b].past \cup {b}
  BY <1>1, <1>2 DEF Past
<1>6. ASSUME NEW x \in made'[b].past
      PROVE  x # Root /\ x \in published /\ \E p \in Named(n) : x \in Past(p)
  <2>1. x # Root /\ \E p \in Named(n) : x \in made[p].past \cup {p}
    BY <1>1, PastMember, SMT DEF Named
  <2>2. PICK p \in Named(n) : x \in made[p].past \cup {p}
    BY <2>1
  <2>3. p # Root
    BY <1>2, <2>1, <2>2
  <2>4. x \in published
    BY <1>3, <2>2, <2>3 DEF RInv, IInv
  <2> QED BY <2>1, <2>2, <2>3, <2>4 DEF Past
<1>7. ASSUME NEW p \in Named(n), NEW x \in Past(p) PROVE x \in made'[b].past
  <2>1. p # Root /\ x \in made[p].past \cup {p}
    BY DEF Past
  <2>2. x # Root
    BY <1>3, <2>1, SMT DEF RInv, Closed
  <2>3. p \in {last[n]} \cup Head(pending[n])
    BY DEF Named
  <2>4. x \in Content(b, last[n], Head(pending[n])).past
    BY <2>1, <2>2, <2>3, PastHas
  <2> QED BY <1>1, <2>4
<1> QED BY <1>3, <1>4, <1>5, <1>6, <1>7

(* The heights of a new block.                                              *)
LEMMA ReachesNew ==
    ASSUME CatchainAssumption, HInv, NEW n \in Nodes, AddBlock(n),
           NEW b, Signs(n, b)
    PROVE  Reaches(b)'
<1>vt. PICK vt : vt = Heights(b, last[n], Head(pending[n]))
  OBVIOUS
<1>1. RInv
  BY DEF HInv
<1>2. /\ b.src = n /\ b.height = last[n].height + 1
      /\ made'[b].vt = vt
      /\ last[n].height \in Nat
      /\ last[n] = Root \/ (last[n] \in published /\ last[n].src = n)
  BY <1>1, <1>vt, NewBlock
<1>3. /\ \A p \in Named(n) : p \in DOMAIN made
      /\ Past(b)' = made'[b].past \cup {b}
      /\ \A x \in made'[b].past : x \in published /\ \E p \in Named(n) : x \in Past(p)
      /\ \A p \in Named(n) : Past(p) \subseteq made'[b].past
  BY <1>1, PastOfNew
<1>4. \A p \in Named(n) : Reaches(p)
  BY <1>3 DEF HInv
<1>5. /\ vt = [m \in Nodes |-> vt[m]]
      /\ \A m \in Nodes :
           IF m = b.src
             THEN vt[m] = b.height
             ELSE /\ \E p \in Named(n) : vt[m] = made[p].vt[m]
                  /\ \A p \in Named(n) : made[p].vt[m] <= vt[m]
  <2>1. \A p \in Named(n) : /\ made[p].vt \in [Nodes -> Nat]
                      /\ \A m \in Nodes : made[p].vt[m] <= MaxHeight[m]
    BY <1>4 DEF Reaches
  <2> QED BY <1>vt, <2>1, HeightsMax, SMT DEF Named
<1>6. \A x \in published : x.height \in Nat
  BY DEF HInv, RInv, IInv, Blocks
<1>7. ASSUME NEW m \in Nodes, m # n
      PROVE  /\ vt[m] \in Nat /\ vt[m] <= MaxHeight[m]
             /\ \A x \in Past(b)' : x.src = m => x.height <= vt[m]
             /\ \A k \in 1..vt[m] : \E x \in Past(b)' : x.src = m /\ x.height = k
  <2>1. PICK q \in Named(n) : vt[m] = made[q].vt[m]
    BY <1>2, <1>5, <1>7
  <2>2. \A p \in Named(n) : made[p].vt[m] \in Nat /\ made[p].vt[m] <= vt[m]
    BY <1>2, <1>4, <1>5, <1>7, SMT DEF Reaches
  <2>3. vt[m] \in Nat /\ vt[m] <= MaxHeight[m]
    BY <1>4, <2>1, <2>2 DEF Reaches
  <2>4. ASSUME NEW x \in Past(b)', x.src = m PROVE x.height <= vt[m]
    <3>1. x \in made'[b].past
      BY <1>2, <1>3, <1>7, <2>4
    <3>2. PICK p \in Named(n) : x \in Past(p)
      BY <1>3, <3>1
    <3>3. x.height <= made[p].vt[m] /\ x.height \in Nat
      BY <1>3, <1>4, <1>6, <2>4, <3>1, <3>2 DEF Reaches
    <3> QED BY <2>2, <2>3, <3>3, SMT
  <2>5. \A k \in 1..vt[m] : \E x \in Past(q) : x.src = m /\ x.height = k
    BY <1>4, <2>1, SMT DEF Reaches
  <2> QED BY <1>3, <2>3, <2>4, <2>5
<1>8. /\ vt[n] \in Nat /\ vt[n] <= MaxHeight[n]
      /\ \A x \in Past(b)' : x.src = n => x.height <= vt[n]
      /\ \A k \in 1..vt[n] : \E x \in Past(b)' : x.src = n /\ x.height = k
  <2>1. vt[n] = last[n].height + 1
    BY <1>2, <1>5
  <2>2. /\ last[n].height < MaxHeight[n] /\ MaxHeight[n] \in Nat
        /\ root[n] = last[n]
    <3>1. sending[n].stage = "none" /\ last[n].height < MaxHeight[n]
      BY SMT DEF AddBlock, NotSending
    <3>2. sending[n].stage # "rooting"
      BY <3>1, SMT
    <3> QED BY <1>1, <3>1, <3>2 DEF RInv, IInv, Stages, CatchainAssumption
  <2>3. vt[n] \in Nat /\ vt[n] <= MaxHeight[n]
    BY <1>2, <2>1, <2>2, SMT
  <2>4. ASSUME NEW x \in Past(b)', x.src = n PROVE x.height <= vt[n]
    <3>1. CASE x = b
      BY <1>2, <2>1, <3>1, SMT
    <3>2. CASE x \in made'[b].past
      <4>1. x \in published /\ x.height <= last[n].height /\ x.height \in Nat
        BY <1>1, <1>3, <1>6, <2>2, <2>4, <3>2 DEF RInv, IInv, UpToRoot
      <4> QED BY <1>2, <2>1, <4>1, SMT
    <3> QED BY <1>3, <3>1, <3>2
  <2>5. ASSUME NEW k \in 1..vt[n] PROVE \E x \in Past(b)' : x.src = n /\ x.height = k
    <3>1. CASE k = vt[n]
      BY <1>2, <1>3, <2>1, <3>1
    <3>2. CASE k # vt[n]
      <4>1. k \in Nat /\ 1 <= k /\ k <= last[n].height /\ last[n].height > 0
        BY <1>2, <2>1, <3>2, SMT
      <4>2. last[n] # Root
        BY <4>1, SMT DEF Root
      <4>3. last[n] \in Past(last[n]) /\ last[n].src = n /\ last[n] \in Named(n)
        BY <1>2, <4>2 DEF Past, Named
      <4>4. last[n].height <= made[last[n]].vt[n] /\ made[last[n]].vt[n] \in Nat
        BY <1>4, <4>3, SMT DEF Reaches
      <4>5. k \in 1..made[last[n]].vt[n]
        BY <1>2, <4>1, <4>4, SMT
      <4>6. \E x \in Past(last[n]) : x.src = n /\ x.height = k
        BY <1>4, <4>3, <4>5, SMT DEF Reaches
      <4> QED BY <1>3, <4>3, <4>6
    <3> QED BY <3>1, <3>2
  <2> QED BY <2>3, <2>4, <2>5
<1>9. vt \in [Nodes -> Nat]
  <2>1. \A m \in Nodes : vt[m] \in Nat
    BY <1>7, <1>8
  <2> QED BY <1>5, <2>1
<1> QED BY <1>2, <1>7, <1>8, <1>9, SMT DEF Reaches

LEMMA AddBlockHInv ==
    ASSUME CatchainAssumption, HInv, RInv', NEW n \in Nodes, AddBlock(n)
    PROVE  HInv'
<1>1. PICK b : Signs(n, b)
  BY DEF Signs
<1>2. RInv
  BY DEF HInv
<1>3. /\ b.src = n /\ b.height = last[n].height + 1 /\ b.life = life[n]
      /\ b \notin DOMAIN made
      /\ DOMAIN made' = DOMAIN made \cup {b}
      /\ \A d \in DOMAIN made : made'[d] = made[d]
      /\ sending' = [sending EXCEPT ![n] = [stage |-> "storing", block |-> b]]
      /\ last[n].height \in Nat
  BY <1>1, <1>2, NewBlock
<1>4. \A d \in DOMAIN made : Past(d)' = Past(d)
  BY <1>1, <1>2, PastOfNew
<1>5. Reaches(b)'
  BY <1>1, ReachesNew
<1>6. \A d \in DOMAIN made : Reaches(d)'
  BY <1>3, <1>4, SMT DEF HInv, Reaches
<1>7. /\ last[n].height < MaxHeight[n]
      /\ buffer' = [buffer EXCEPT ![n] = @ \cup {b}]
      /\ pending' = [pending EXCEPT ![n] = Tail(@)] /\ pending[n] # << >>
      /\ UNCHANGED <<published, life, disk>>
  BY <1>1 DEF AddBlock, Signs
<1>8. Numbered(b)'
  <2>1. MaxHeight[n] \in Nat /\ life[n] \in Nat /\ life[n] > 0
    BY <1>2 DEF CatchainAssumption, RInv, IInv, Shapes
  <2>2. b.height \in 1..MaxHeight[n] /\ b.life \in 1..life[n]
    BY <1>3, <1>7, <2>1, SMT
  <2> QED BY <1>3, <1>7, <2>2 DEF Numbered
<1>9. \A d \in DOMAIN made : d = Root \/ Numbered(d)'
  BY <1>7 DEF HInv, Numbered
<1>10. ASSUME NEW m \in Nodes \ {n} PROVE Unsent(m)'
  <2>1. buffer'[m] = buffer[m] /\ pending'[m] = pending[m] /\ sending'[m] = sending[m]
    BY <1>2, <1>3, <1>7 DEF RInv, IInv, Shapes
  <2> QED BY <1>3, <1>7, <2>1, SMT DEF HInv, Unsent
<1>11. Unsent(n)'
  <2>1. /\ buffer'[n] = buffer[n] \cup {b} /\ pending'[n] = Tail(pending[n])
        /\ sending'[n] = [stage |-> "storing", block |-> b]
    BY <1>2, <1>3, <1>7 DEF RInv, IInv, Shapes
  <2>2. sending'[n].block = b /\ sending'[n].stage # "none"
    BY <2>1, SMT
  <2>3. Len(pending'[n]) <= MaxPending
    <3>1. pending[n] \in Seq(SUBSET published) /\ Len(pending[n]) <= MaxPending
      BY <1>2 DEF HInv, Unsent, RInv, IInv, HeldIsPublished
    <3> QED BY <1>7, <2>1, <3>1, SMT DEF CatchainAssumption
  <2>4. Root \in DOMAIN made /\ published \subseteq DOMAIN made
    BY <1>2 DEF RInv, IInv
  <2>5. Root \notin disk[n] \cup buffer[n]
    BY DEF HInv, Unsent
  <2> QED BY <1>3, <1>7, <2>1, <2>2, <2>3, <2>4, <2>5 DEF Unsent
<1> QED BY <1>3, <1>5, <1>6, <1>8, <1>9, <1>10, <1>11 DEF HInv

(* Every other step leaves the blocks as they are.                          *)
LEMMA KeptHInv ==
    ASSUME HInv, RInv', UNCHANGED made, \A m \in Nodes : life[m] <= life'[m],
           \A m \in Nodes : Unsent(m)'
    PROVE  HInv'
<1>1. \A b \in DOMAIN made : Reaches(b)'
  BY SMT DEF HInv, Reaches, Past
<1>2. ASSUME NEW b \in DOMAIN made, Numbered(b) PROVE Numbered(b)'
  <2>1. /\ b.src \in Nodes /\ b.height \in 1..MaxHeight[b.src] /\ b.life \in 1..life[b.src]
        /\ life[b.src] \in Nat /\ life'[b.src] \in Nat /\ life[b.src] <= life'[b.src]
    BY <1>2 DEF Numbered, HInv, RInv, IInv, Shapes
  <2>2. b.life \in 1..life'[b.src]
    BY <2>1, SMT
  <2> QED BY <2>1, <2>2 DEF Numbered
<1> QED BY <1>1, <1>2 DEF HInv

(* The steps that send nothing.                                             *)
LEMMA QuietHInv ==
    ASSUME CatchainAssumption, HInv, RInv', NEW n \in Nodes,
           \/ Receive(n) \/ SendProcess(n) \/ ProcessedBlock(n) \/ Commit(n) \/ AddBlockCont2(n)
    PROVE  HInv'
<1>1. UNCHANGED <<made, published, life>>
  BY DEF Receive, SendProcess, ProcessedBlock, Commit, AddBlockCont2
<1>2. RInv /\ \A m \in Nodes : Unsent(m)
  BY DEF HInv
<1>3. /\ disk = [m \in Nodes |-> disk[m]] /\ buffer = [m \in Nodes |-> buffer[m]]
      /\ sending = [m \in Nodes |-> sending[m]] /\ pending = [m \in Nodes |-> pending[m]]
  BY <1>2 DEF RInv, IInv, Shapes
<1>4. \A m \in Nodes : Unsent(m)'
  <2>1. CASE Receive(n)
    <3>1. PICK b \in published : buffer' = [buffer EXCEPT ![n] = @ \cup {b}]
      BY <2>1 DEF Receive, WriteBlock
    <3>2. UNCHANGED <<disk, sending, pending>>
      BY <2>1 DEF Receive
    <3>3. b # Root
      <4>1. b.height > 0
        BY <1>2 DEF RInv, IInv
      <4> QED BY <4>1, SMT DEF Root
    <3>4. \A m \in Nodes : Root \notin buffer'[m]
      BY <1>2, <1>3, <3>1, <3>3 DEF Unsent
    <3> QED BY <1>1, <1>2, <3>2, <3>4 DEF Unsent
  <2>2. CASE SendProcess(n)
    BY <1>1, <1>2, <2>2 DEF SendProcess, disk_vars, receiver_vars, Unsent
  <2>3. CASE ProcessedBlock(n)
    <3>1. /\ pending' = [pending EXCEPT ![n] = Append(@, process_deps[n])]
          /\ Len(pending[n]) < MaxPending
          /\ UNCHANGED <<disk, buffer, sending>>
      BY <2>3 DEF ProcessedBlock, disk_vars
    <3>2. pending[n] \in Seq(SUBSET published)
      BY <1>2 DEF RInv, IInv, HeldIsPublished
    <3>3. Len(Append(pending[n], process_deps[n])) <= MaxPending
      BY <3>1, <3>2, SMT DEF CatchainAssumption
    <3>4. \A m \in Nodes : Len(pending'[m]) <= MaxPending
      BY <1>2, <1>3, <3>1, <3>3 DEF Unsent
    <3> QED BY <1>1, <1>2, <3>1, <3>4 DEF Unsent
  <2>4. CASE Commit(n)
    <3>1. /\ disk' = [disk EXCEPT ![n] = @ \cup buffer[n]] /\ buffer' = [buffer EXCEPT ![n] = {}]
          /\ UNCHANGED <<sending, pending>>
      BY <2>4 DEF Commit, receiver_vars
    <3>2. \A m \in Nodes : Root \notin disk'[m] \cup buffer'[m]
      BY <1>2, <1>3, <3>1 DEF Unsent
    <3> QED BY <1>1, <1>2, <3>1, <3>2 DEF Unsent
  <2>5. CASE AddBlockCont2(n)
    <3>1. /\ sending[n].stage = "storing"
          /\ sending' = [sending EXCEPT ![n].stage = "rooting"]
          /\ UNCHANGED <<disk, buffer, pending>>
      BY <2>5 DEF AddBlockCont2
    <3>2. sending[n] \in [stage : {"none", "storing", "rooting"}, block : Blocks]
      BY <1>2 DEF RInv, IInv, Stages
    <3>3. sending'[n].block = sending[n].block /\ sending'[n].stage # "none"
      BY <1>3, <3>1, <3>2, SMT
    <3>4. \A m \in Nodes \ {n} : sending'[m] = sending[m]
      BY <1>3, <3>1
    <3> QED BY <1>1, <1>2, <3>1, <3>3, <3>4, SMT DEF Unsent
  <2> QED BY <2>1, <2>2, <2>3, <2>4, <2>5
<1>5. \A m \in Nodes : life[m] <= life'[m]
  <2>1. life \in [Nodes -> Nat]
    BY <1>2 DEF RInv, IInv, Shapes
  <2> QED BY <1>1, <2>1, SMT
<1> QED BY <1>1, <1>4, <1>5, KeptHInv

(* A block that one node sends is not the one another node is adding.       *)
LEMMA SentOther ==
    ASSUME HInv, NEW n \in Nodes, NEW b, b.src = n, b # Root, NEW m \in Nodes, m # n
    PROVE  sending[m].block # b
  BY DEF HInv, Unsent, RInv, IInv, Stages

(* The steps that send.                                                     *)
LEMMA LoudHInv ==
    ASSUME CatchainAssumption, HInv, RInv', NEW n \in Nodes, AddBlockCont3(n) \/ Restart(n)
    PROVE  HInv'
<1>1. RInv /\ \A m \in Nodes : Unsent(m)
  BY DEF HInv
<1>2. /\ buffer = [m \in Nodes |-> buffer[m]] /\ life \in [Nodes -> Nat]
      /\ sending = [m \in Nodes |-> sending[m]] /\ pending = [m \in Nodes |-> pending[m]]
  BY <1>1 DEF RInv, IInv, Shapes
<1>3. Root \notin published' /\ Root \in DOMAIN made
  <2>1. \A d \in published' : d.height > 0
    BY DEF RInv, IInv
  <2>2. ~(Root.height > 0)
    BY SMT DEF Root
  <2> QED BY <1>1, <2>1, <2>2 DEF RInv, IInv
<1>4. NotSending.block = Root /\ NotSending.stage = "none"
  BY SMT DEF NotSending
<1>5. CASE AddBlockCont3(n)
  <2> DEFINE b == sending[n].block
  <2>1. /\ sending[n].stage = "rooting"
        /\ published' = published \cup {b}
        /\ sending' = [sending EXCEPT ![n] = NotSending]
        /\ UNCHANGED <<made, life, disk, buffer, pending>>
    BY <1>5 DEF AddBlockCont3, disk_vars
  <2>2. b.src = n /\ b # Root
    BY <1>1, <1>3, <2>1 DEF RInv, IInv, Stages
  <2>3. \A m \in Nodes \ {n} : sending'[m] = sending[m] /\ sending[m].block # b
    BY <1>2, <2>1, <2>2, SentOther, SMT
  <2>4. sending'[n] = NotSending
    BY <1>2, <2>1
  <2>5. \A m \in Nodes : Unsent(m)'
    BY <1>1, <1>3, <1>4, <2>1, <2>3, <2>4, SMT DEF Unsent
  <2>6. \A m \in Nodes : life[m] <= life'[m]
    BY <1>2, <2>1, SMT
  <2> QED BY <2>1, <2>5, <2>6, KeptHInv
<1>6. CASE Restart(n)
  <2>1. /\ life' = [life EXCEPT ![n] = @ + 1]
        /\ buffer' = [buffer EXCEPT ![n] = {}]
        /\ published' = published \cup Past(root[n])
        /\ sending' = [sending EXCEPT ![n] = NotSending]
        /\ pending' = [pending EXCEPT ![n] = << >>]
        /\ UNCHANGED <<made, disk>>
    BY <1>6 DEF Restart
  <2>2. root[n] = Root \/ (root[n] \in DOMAIN made /\ root[n].src = n)
    BY <1>1 DEF RInv, IInv, Stages
  <2>3. ASSUME NEW m \in Nodes \ {n} PROVE sending[m].block \notin published'
    <3>1. root[n] # Root => sending[m].block # root[n]
      BY <2>2, SentOther
    <3>2. root[n] # Root => made[root[n]].past \subseteq published
      BY <1>1, <2>2 DEF RInv, IInv
    <3> QED BY <1>1, <2>1, <3>1, <3>2 DEF Unsent, Past
  <2>4. \A m \in Nodes \ {n} : /\ sending'[m] = sending[m] /\ pending'[m] = pending[m]
                               /\ buffer'[m] = buffer[m]
    BY <1>2, <2>1
  <2>5. sending'[n] = NotSending /\ pending'[n] = << >> /\ buffer'[n] = {}
    BY <1>2, <2>1
  <2>6. Len(pending'[n]) <= MaxPending
    BY <2>5, SMT DEF CatchainAssumption
  <2>7. \A m \in Nodes \ {n} : Unsent(m)'
    BY <1>1, <2>1, <2>3, <2>4 DEF Unsent
  <2>8. Unsent(n)'
    BY <1>1, <1>3, <1>4, <2>1, <2>5, <2>6 DEF Unsent
  <2>9. \A m \in Nodes : life[m] <= life'[m]
    BY <1>2, <2>1, SMT
  <2> QED BY <2>1, <2>7, <2>8, <2>9, KeptHInv
<1> QED BY <1>5, <1>6

LEMMA StepHInv == ASSUME CatchainAssumption, HInv, [Next]_vars PROVE HInv'
<1>1. RInv'
  BY StepRInv DEF HInv
<1>2. CASE Next
  BY <1>1, <1>2, AddBlockHInv, QuietHInv, LoudHInv DEF Next
<1>3. CASE UNCHANGED vars
  <2>1. UNCHANGED <<made, published, life, disk, buffer, sending, pending>>
    BY <1>3 DEF vars, disk_vars, receiver_vars
  <2>2. \A n \in Nodes : Unsent(n)'
    BY <2>1 DEF HInv, Unsent
  <2>3. \A n \in Nodes : life[n] <= life'[n]
    <3>1. life \in [Nodes -> Nat]
      BY DEF HInv, RInv, IInv, Shapes
    <3> QED BY <2>1, <3>1, SMT
  <2> QED BY <1>1, <2>1, <2>2, <2>3, KeptHInv
<1> QED BY <1>2, <1>3

(* The types follow.                                                        *)
LEMMA TypesFollow == ASSUME HInv PROVE TypeOK
<1>1. RInv /\ \A n \in Nodes : Unsent(n)
  BY DEF HInv
<1>2. published \subseteq DOMAIN made \ {Root}
  <2>1. ~(Root.height > 0)
    BY SMT DEF Root
  <2> QED BY <1>1, <2>1 DEF RInv, IInv
<1>3. ASSUME NEW n \in Nodes
      PROVE  /\ disk[n] \cup buffer[n] \cup received[n] \subseteq DOMAIN made \ {Root}
             /\ process_deps[n] = None \/ process_deps[n] \subseteq received[n]
             /\ \A b \in top[n] \cup {last[n]} : Past(b) \subseteq received[n]
             /\ {root[n], last[n], sending[n].block} \subseteq DOMAIN made
             /\ Len(pending[n]) <= MaxPending
  <2>1. Stored(n) /\ HeldIsPublished(n) /\ Stages(n) /\ Unsent(n)
    BY <1>1 DEF RInv, IInv
  <2>2. \A b \in Delivered(received[n]) \cup {Root} : Past(b) \subseteq received[n]
    BY DEF Delivered, Past
  <2>3. root[n] \in DOMAIN made /\ last[n] \in DOMAIN made
    BY <1>1, <2>1, SMT DEF Stages, RInv, IInv
  <2>4. disk[n] \cup buffer[n] \cup received[n] \subseteq DOMAIN made \ {Root}
    BY <1>2, <2>1 DEF Stored, Unsent, HeldIsPublished
  <2>5. process_deps[n] = None \/ process_deps[n] \subseteq received[n]
    BY <2>1 DEF Stored, Delivered
  <2>6. \A b \in top[n] \cup {last[n]} : Past(b) \subseteq received[n]
    BY <2>1, <2>2 DEF Stored
  <2> QED BY <2>1, <2>3, <2>4, <2>5, <2>6 DEF Unsent
<1> QED BY <1>2, <1>3 DEF HInv, Numbered, TypeOK

(* So do the heights, of the root block as well.                            *)
LEMMA ExactFollows ==
    ASSUME HInv, NEW b \in published \cup {Root}, NEW c \in published
    PROVE  c.height <= made[b].vt[c.src] <=> c \in Past(b)
<1>1. /\ b \in DOMAIN made /\ c \in DOMAIN made /\ c # Root
      /\ b = Root \/ made[b].past \subseteq published
  <2>1. ~(Root.height > 0)
    BY SMT DEF Root
  <2> QED BY <2>1 DEF HInv, RInv, IInv
<1>2. Reaches(b) /\ Numbered(c)
  BY <1>1 DEF HInv
<1>3. c.src \in Nodes /\ c.height \in 1..MaxHeight[c.src]
  BY <1>2 DEF Numbered
<1>4. c \in Past(b) => c.height <= made[b].vt[c.src]
  BY <1>2, <1>3 DEF Reaches
<1>5. ASSUME c.height <= made[b].vt[c.src] PROVE c \in Past(b)
  <2>1. made[b].vt[c.src] \in Nat
    BY <1>2, <1>3 DEF Reaches
  <2>2. c.height \in 1..made[b].vt[c.src]
    BY <1>3, <1>5, <2>1, SMT
  <2>3. PICK x \in Past(b) : x.src = c.src /\ x.height = c.height
    BY <1>2, <1>3, <2>2 DEF Reaches
  <2>4. x \in published
    BY <1>1 DEF Past
  <2> QED BY <2>3, <2>4 DEF HInv, RInv, IInv, NoForks
<1> QED BY <1>4, <1>5

(* Everything a node holds or stores was signed, in the order and the lives *)
(* its source went through, and what the catchain knows rests on blocks the *)
(* receiver holds (deliver, add_block_cont_3, read_db).                     *)
THEOREM CatchainTypeOK == Spec => []TypeOK
<1>1. Init => HInv
  BY InitHInv, CatchainAssumption
<1>2. HInv /\ [Next]_vars => HInv'
  BY StepHInv, CatchainAssumption
<1>3. HInv => TypeOK
  BY TypesFollow
<1> QED BY <1>1, <1>2, <1>3, PTL DEF Spec

(* The heights that update_deps gathers are exact: is_descendant_of holds   *)
(* of the blocks before a block and of no other.                            *)
THEOREM CatchainHeightsExact == Spec => []HeightsExact
<1>1. Init => HInv
  BY InitHInv, CatchainAssumption
<1>2. HInv /\ [Next]_vars => HInv'
  BY StepHInv, CatchainAssumption
<1>3. HInv => HeightsExact
  BY ExactFollows DEF HeightsExact
<1> QED BY <1>1, <1>2, <1>3, PTL DEF Spec

-----------------------------------------------------------------------------
(* What a new block may name.  The definitions take the contents f of the   *)
(* blocks as a parameter: a new block leaves those of the others alone.     *)
PastIn(f, b) == IF b = Root THEN {} ELSE f[b].past \cup {b}
ParentsIn(f, b) == {f[b].prev} \cup f[b].deps

(* What is before a block is a parent of it or of something before it.      *)
GroundedIn(f) == \A b \in DOMAIN f :
    /\ ParentsIn(f, b) \subseteq f[b].past \cup {Root}
    /\ \A x \in f[b].past : \E c \in f[b].past \cup {b} : x \in ParentsIn(f, c)

(* What a new block of n may depend on, all at once: blocks of others that  *)
(* are reached neither by the last own block l, nor by the own block s that *)
(* is being added, nor by one another.                                      *)
Sound(f, n, l, s, S) == \A x \in S :
    /\ x.src # n
    /\ x \notin PastIn(f, l) /\ x \notin PastIn(f, s)
    /\ \A y \in S : x \in PastIn(f, y) => x = y

(* What may still be named once the blocks of T were.                       *)
After(f, S, T) == \A x \in S, z \in T : x \notin PastIn(f, z)

(* The dependencies that wait, in the order they were chosen: those of the  *)
(* pending blocks q, those p of the process and the top blocks t.  The top  *)
(* blocks are maximal among the delivered ones d.                           *)
OrderedIn(f, n, l, s, d, t, p, q) ==
    /\ \A b \in d : ParentsIn(f, b) \cap t = {}
    /\ Sound(f, n, l, s, t) /\ Sound(f, n, l, s, p) /\ After(f, t, p)
    /\ \A i \in 1..Len(q) :
         /\ Sound(f, n, l, s, q[i]) /\ After(f, t, q[i]) /\ After(f, p, q[i])
         /\ \A j \in 1..Len(q) : i < j => After(f, q[j], q[i])

Process(n) == IF process_deps[n] = None THEN {} ELSE process_deps[n]

Ordered(n) == OrderedIn(made, n, last[n], sending[n].block, Delivered(received[n]),
                        top[n], Process(n), pending[n])

QInv ==
    /\ HInv
    /\ GroundedIn(made)
    /\ \A n \in Nodes : Ordered(n)
    /\ NeverIll

(* Blocks that are made leave what others wait for in order.                *)
LEMMA OrderExtends ==
    ASSUME NEW f, NEW g, NEW n, NEW l, NEW s, NEW d, NEW t, NEW p, NEW q, NEW K,
           OrderedIn(f, n, l, s, d, t, p, q),
           {l, s} \subseteq K, d \subseteq K, t \subseteq K, p \subseteq K,
           \A i \in 1..Len(q) : q[i] \subseteq K,
           \A b \in K : g[b] = f[b]
    PROVE  OrderedIn(g, n, l, s, d, t, p, q)
<1>1. \A b \in K : PastIn(g, b) = PastIn(f, b) /\ ParentsIn(g, b) = ParentsIn(f, b)
  BY DEF PastIn, ParentsIn
<1>2. \A S : S \subseteq K /\ Sound(f, n, l, s, S) => Sound(g, n, l, s, S)
  BY <1>1 DEF Sound
<1>3. \A S, T : T \subseteq K /\ After(f, S, T) => After(g, S, T)
  BY <1>1 DEF After
<1> QED BY <1>1, <1>2, <1>3 DEF OrderedIn

(* A top block that is a parent of no delivered block is reached by none.   *)
LEMMA Maximal ==
    ASSUME NEW f, GroundedIn(f), NEW d, d \subseteq DOMAIN f,
           \A y \in d : PastIn(f, y) \subseteq d,
           NEW t, \A b \in d : ParentsIn(f, b) \cap t = {},
           NEW x \in t, NEW y \in d, x \in PastIn(f, y)
    PROVE  x = y
<1> SUFFICES ASSUME x # y PROVE FALSE
  BY SMT
<1>1. y # Root /\ x \in f[y].past
  BY DEF PastIn
<1>2. PICK c \in f[y].past \cup {y} : x \in ParentsIn(f, c)
  BY <1>1 DEF GroundedIn
<1>3. c \in d
  BY <1>1, <1>2 DEF PastIn
<1> QED BY <1>2, <1>3

(* Delivered blocks e become top blocks, and their parents cease to be.     *)
LEMMA OrderReceives ==
    ASSUME NEW f, GroundedIn(f), NEW n, NEW l, NEW s, NEW d, NEW e, NEW t, NEW p, NEW q, NEW u,
           OrderedIn(f, n, l, s, d, t, p, q),
           d \subseteq e, e \subseteq DOMAIN f, Root \notin e,
           \A y \in d : PastIn(f, y) \subseteq d, \A y \in e : PastIn(f, y) \subseteq e,
           PastIn(f, l) \subseteq d, PastIn(f, s) \subseteq d \cup {s}, s = Root \/ s.src = n,
           t \subseteq d, p \subseteq d, \A i \in 1..Len(q) : q[i] \subseteq d,
           \A x \in u : x \in t \/ (x \in e \ d /\ x.src # n),
           \A b \in e \ d : ParentsIn(f, b) \cap u = {}
    PROVE  OrderedIn(f, n, l, s, e, u, p, q)
<1>1. \A x \in u : x \in e /\ (x \in t \/ (x \notin d /\ x.src # n))
  OBVIOUS
<1>2. ASSUME NEW b \in e PROVE ParentsIn(f, b) \cap u = {}
  <2>1. CASE b \in d
    <3>1. ParentsIn(f, b) \subseteq d \cup {Root}
      <4>1. b # Root /\ f[b].past \subseteq d
        BY <2>1 DEF PastIn
      <4> QED BY <2>1, <4>1 DEF GroundedIn
    <3>2. ParentsIn(f, b) \cap t = {}
      BY <2>1 DEF OrderedIn
    <3> QED BY <1>1, <3>1, <3>2
  <2>2. CASE b \notin d
    BY <2>2
  <2> QED BY <2>1, <2>2
<1>3. ASSUME NEW x \in u, NEW y \in e, x \in PastIn(f, y) PROVE x = y
  BY <1>2, <1>3, Maximal
<1>4. \A T : T \subseteq d /\ After(f, t, T) => After(f, u, T)
  BY <1>1 DEF After
<1>5. ASSUME NEW x \in u PROVE x.src # n /\ x \notin PastIn(f, l) /\ x \notin PastIn(f, s)
  <2>1. CASE x \in t
    BY <2>1 DEF OrderedIn, Sound
  <2>2. CASE x \notin d /\ x.src # n
    BY <1>1, <2>2
  <2> QED BY <1>1, <2>1, <2>2
<1>6. Sound(f, n, l, s, u)
  BY <1>1, <1>3, <1>5 DEF Sound
<1> QED BY <1>2, <1>4, <1>6 DEF OrderedIn

(* Some of the top blocks are taken for the next block.                     *)
LEMMA OrderTakes ==
    ASSUME NEW f, NEW n, NEW l, NEW s, NEW d, NEW t, NEW q, NEW w, NEW v,
           OrderedIn(f, n, l, s, d, t, {}, q), w \subseteq t, v \subseteq w
    PROVE  OrderedIn(f, n, l, s, d, t \ w, v, q)
<1>1. Sound(f, n, l, s, t \ w) /\ Sound(f, n, l, s, v)
  BY DEF OrderedIn, Sound
<1>2. After(f, t \ w, v)
  BY DEF OrderedIn, Sound, After
<1>3. \A T : After(f, t, T) => After(f, t \ w, T) /\ After(f, v, T)
  BY DEF After
<1>4. \A b \in d : ParentsIn(f, b) \cap (t \ w) = {}
  BY DEF OrderedIn
<1> QED BY <1>1, <1>2, <1>3, <1>4 DEF OrderedIn

(* What was taken waits behind the other pending blocks.                    *)
LEMMA OrderWaits ==
    ASSUME NEW f, NEW n, NEW l, NEW s, NEW d, NEW t, NEW p, NEW K, NEW q \in Seq(SUBSET K),
           OrderedIn(f, n, l, s, d, t, p, q), p \in SUBSET K
    PROVE  OrderedIn(f, n, l, s, d, t, {}, Append(q, p))
<1> DEFINE r == Append(q, p)
<1>1. /\ Len(q) \in Nat /\ Len(r) = Len(q) + 1 /\ r[Len(q) + 1] = p
      /\ \A i \in 1..Len(q) : r[i] = q[i]
  BY SMT
<1> HIDE DEF r
<1>2. \A i \in 1..Len(r) : i \in 1..Len(q) \/ i = Len(q) + 1
  BY <1>1, SMT
<1>3. \A i \in 1..Len(r), j \in 1..Len(r) : i < j => i \in 1..Len(q)
  BY <1>1, SMT
<1>4. Sound(f, n, l, s, {}) /\ After(f, t, {}) /\ \A T : After(f, {}, T)
  BY DEF Sound, After
<1>5. \A i \in 1..Len(r) : Sound(f, n, l, s, r[i]) /\ After(f, t, r[i])
  BY <1>1, <1>2 DEF OrderedIn
<1>6. \A i \in 1..Len(r), j \in 1..Len(r) : i < j => After(f, r[j], r[i])
  BY <1>1, <1>2, <1>3 DEF OrderedIn
<1> QED BY <1>4, <1>5, <1>6 DEF OrderedIn, r

(* The first of the pending blocks is made.                                 *)
LEMMA OrderAdds ==
    ASSUME NEW f, NEW g, NEW n, NEW l, NEW d, NEW t, NEW p,
           NEW q \in Seq(SUBSET DOMAIN f), NEW b,
           OrderedIn(f, n, l, Root, d, t, p, q), q # << >>, b.src = n,
           d \subseteq DOMAIN f, t \subseteq DOMAIN f, p \subseteq DOMAIN f,
           {l, Root} \subseteq DOMAIN f,
           \A c \in DOMAIN f : g[c] = f[c],
           \A x \in g[b].past : \E c \in {l} \cup Head(q) : x \in PastIn(f, c)
    PROVE  OrderedIn(g, n, l, b, d, t, p, Tail(q))
<1> DEFINE r == Tail(q)
<1>1. /\ Head(q) = q[1] /\ 1 \in 1..Len(q) /\ Len(q) \in Nat /\ Len(r) = Len(q) - 1
      /\ \A i \in 1..Len(r) : r[i] = q[i + 1] /\ i + 1 \in 1..Len(q) /\ 1 < i + 1
  BY SMT
<1> HIDE DEF r
<1>2. \A i \in 1..Len(r), j \in 1..Len(r) : i < j => i + 1 < j + 1
  BY <1>1, SMT
<1>3. \A i \in 1..Len(q) : q[i] \subseteq DOMAIN f
  BY SMT
<1>4. OrderedIn(g, n, l, Root, d, t, p, q)
  BY <1>3, OrderExtends
<1>5. \A c \in DOMAIN f : PastIn(g, c) = PastIn(f, c)
  BY DEF PastIn
<1>6. \A S : Sound(g, n, l, Root, S) /\ After(g, S, Head(q)) => Sound(g, n, l, b, S)
  <2> SUFFICES ASSUME NEW S, Sound(g, n, l, Root, S), After(g, S, Head(q)), NEW x \in S
               PROVE  x \notin PastIn(g, b)
    BY DEF Sound
  <2>1. x # b /\ x \notin PastIn(g, l)
    BY DEF Sound
  <2>2. \A c \in Head(q) : x \notin PastIn(g, c)
    BY DEF After
  <2>3. Head(q) \subseteq DOMAIN f
    BY <1>1, <1>3
  <2>4. x \notin g[b].past
    BY <1>5, <2>1, <2>2, <2>3
  <2> QED BY <2>1, <2>4 DEF PastIn
<1>7. Sound(g, n, l, b, t) /\ Sound(g, n, l, b, p)
  BY <1>1, <1>4, <1>6 DEF OrderedIn
<1>8. \A i \in 1..Len(r) : /\ Sound(g, n, l, b, r[i])
                           /\ After(g, t, r[i]) /\ After(g, p, r[i])
  BY <1>1, <1>4, <1>6 DEF OrderedIn
<1>9. \A i \in 1..Len(r), j \in 1..Len(r) : i < j => After(g, r[j], r[i])
  BY <1>1, <1>2, <1>4 DEF OrderedIn
<1> QED BY <1>4, <1>7, <1>8, <1>9 DEF OrderedIn, r

(* The own block that was being added becomes the last one.                 *)
LEMMA OrderSends ==
    ASSUME NEW f, NEW n, NEW l, NEW s, NEW d, NEW e, NEW t, NEW p, NEW q, NEW u,
           OrderedIn(f, n, l, s, d, t, p, q),
           e \subseteq d \cup {s}, u \subseteq t, ParentsIn(f, s) \cap u = {}
    PROVE  OrderedIn(f, n, s, Root, e, u, p, q)
<1>1. PastIn(f, Root) = {}
  BY DEF PastIn
<1>2. \A S : Sound(f, n, l, s, S) => Sound(f, n, s, Root, S)
  BY <1>1 DEF Sound
<1>3. Sound(f, n, l, s, u) /\ \A T : After(f, t, T) => After(f, u, T)
  BY DEF OrderedIn, Sound, After
<1>4. \A b \in e : ParentsIn(f, b) \cap u = {}
  BY DEF OrderedIn
<1> QED BY <1>2, <1>3, <1>4 DEF OrderedIn

LEMMA OrderEmpty ==
    ASSUME NEW f, NEW n, NEW l, NEW s, NEW d
    PROVE  OrderedIn(f, n, l, s, d, {}, {}, << >>)
<1>1. 1..Len(<< >>) = {}
  BY SMT
<1> QED BY <1>1 DEF OrderedIn, Sound, After

(* What is before a delivered block is delivered.                           *)
LEMMA DeliveredClosed ==
    ASSUME Closed, NEW bs, bs \subseteq DOMAIN made, NEW y \in Delivered(bs)
    PROVE  PastIn(made, y) \subseteq Delivered(bs)
  BY DEF Closed, Delivered, PastIn

(* What a node holds.                                                       *)
LEMMA Holds ==
    ASSUME HInv, NEW n \in Nodes
    PROVE  /\ Delivered(received[n]) \subseteq published /\ published \subseteq DOMAIN made
           /\ received[n] \subseteq published
           /\ Root \in DOMAIN made /\ Root \notin published
           /\ top[n] \subseteq Delivered(received[n]) /\ Process(n) \subseteq Delivered(received[n])
           /\ pending[n] \in Seq(SUBSET Delivered(received[n]))
           /\ \A i \in 1..Len(pending[n]) : pending[n][i] \subseteq Delivered(received[n])
           /\ \A y \in Delivered(received[n]) : PastIn(made, y) \subseteq Delivered(received[n])
           /\ last[n] \in DOMAIN made /\ PastIn(made, last[n]) \subseteq Delivered(received[n])
           /\ sending[n].block \in DOMAIN made
           /\ PastIn(made, sending[n].block) \subseteq Delivered(received[n]) \cup {sending[n].block}
           /\ sending[n].block = Root \/ sending[n].block.src = n
<1> DEFINE d == Delivered(received[n])
<1>1. RInv /\ Stored(n) /\ Unsent(n) /\ HeldIsPublished(n) /\ Stages(n) /\ Closed
  BY DEF HInv, RInv, IInv
<1>2. received[n] \subseteq published /\ d \subseteq published /\ published \subseteq DOMAIN made
  BY <1>1 DEF HeldIsPublished, Delivered, RInv, IInv
<1>3. Root \in DOMAIN made /\ Root \notin published
  <2>1. ~(Root.height > 0)
    BY SMT DEF Root
  <2> QED BY <1>1, <2>1 DEF RInv, IInv
<1>4. top[n] \subseteq d /\ Process(n) \subseteq d /\ pending[n] \in Seq(SUBSET d)
  BY <1>1 DEF Stored, Process
<1>5. \A i \in 1..Len(pending[n]) : pending[n][i] \subseteq d
  BY <1>4, SMT
<1>6. \A y \in d : PastIn(made, y) \subseteq d
  BY <1>1, <1>2, DeliveredClosed
<1>7. last[n] \in DOMAIN made /\ PastIn(made, last[n]) \subseteq d
  BY <1>1, <1>2, <1>3, <1>6 DEF Stored, PastIn
<1>8. sending[n].block \in DOMAIN made /\ (sending[n].block = Root \/ sending[n].block.src = n)
  BY <1>1 DEF Unsent, Stages
<1>9. PastIn(made, sending[n].block) \subseteq d \cup {sending[n].block}
  <2> DEFINE s == sending[n].block
  <2>1. CASE s = Root
    BY <2>1 DEF PastIn
  <2>2. CASE s # Root
    <3>1. made[s].past \subseteq received[n]
      BY <1>1, <2>2 DEF Stored, Unsent
    <3>2. \A x \in made[s].past : made[x].past \subseteq made[s].past
      BY <1>1, <1>8 DEF Closed
    <3> QED BY <3>1, <3>2 DEF PastIn, Delivered
  <2> QED BY <2>1, <2>2
<1> QED BY <1>2, <1>3, <1>4, <1>5, <1>6, <1>7, <1>8, <1>9

(* A step that leaves a node alone leaves its order.                        *)
LEMMA OthersOrdered ==
    ASSUME QInv, NEW m \in Nodes, \A b \in DOMAIN made : made'[b] = made[b],
           received'[m] = received[m], top'[m] = top[m], process_deps'[m] = process_deps[m],
           pending'[m] = pending[m], last'[m] = last[m],
           sending'[m].block = sending[m].block
    PROVE  Ordered(m)'
<1> DEFINE d == Delivered(received[m])
<1>1. /\ d \subseteq published /\ published \subseteq DOMAIN made
      /\ received[m] \subseteq published
      /\ top[m] \subseteq d /\ Process(m) \subseteq d
      /\ \A i \in 1..Len(pending[m]) : pending[m][i] \subseteq d
      /\ last[m] \in DOMAIN made /\ sending[m].block \in DOMAIN made
  BY Holds DEF QInv
<1>2. d' = d
  BY <1>1 DEF Delivered
<1>3. Process(m)' = Process(m)
  BY DEF Process
<1>4. OrderedIn(made, m, last[m], sending[m].block, d, top[m], Process(m), pending[m])
  BY DEF QInv, Ordered
<1> HIDE DEF d
<1>5. OrderedIn(made', m, last[m], sending[m].block, d, top[m], Process(m), pending[m])
  <2>1. /\ {last[m], sending[m].block} \subseteq DOMAIN made
        /\ d \subseteq DOMAIN made /\ top[m] \subseteq DOMAIN made /\ Process(m) \subseteq DOMAIN made
        /\ \A i \in 1..Len(pending[m]) : pending[m][i] \subseteq DOMAIN made
    BY <1>1
  <2> QED BY <1>4, <2>1, OrderExtends, SMT
<1> QED BY <1>2, <1>3, <1>5 DEF Ordered, d

LEMMA InitQInv == ASSUME CatchainAssumption, Init PROVE QInv
<1>1. HInv
  BY InitHInv
<1>2. /\ DOMAIN made = {Root} /\ made[Root].prev = Root
      /\ made[Root].deps = {} /\ made[Root].past = {}
  BY SMT DEF Init
<1>3. GroundedIn(made) /\ NeverIll
  BY <1>2 DEF GroundedIn, ParentsIn, NeverIll
<1>4. \A n \in Nodes : Ordered(n)
  <2>1. \A n \in Nodes : top[n] = {} /\ Process(n) = {} /\ pending[n] = << >>
    BY DEF Init, Process
  <2>2. \A n \in Nodes : OrderedIn(made, n, last[n], sending[n].block, Delivered(received[n]),
                                  {}, {}, << >>)
    BY OrderEmpty
  <2> QED BY <2>1, <2>2 DEF Ordered
<1> QED BY <1>1, <1>3, <1>4 DEF QInv

(* Steps that make no block.                                                *)
LEMMA KeptQInv ==
    ASSUME QInv, HInv', UNCHANGED made, \A m \in Nodes : Ordered(m)'
    PROVE  QInv'
  BY DEF QInv, NeverIll

LEMMA ReceiveQInv ==
    ASSUME QInv, HInv', NEW n \in Nodes, Receive(n)
    PROVE  QInv'
<1>1. PICK b \in published \ received[n] : Receive(n)!(b)
  BY DEF Receive
<1> DEFINE now == received[n] \cup {b}
           d == Delivered(received[n])
           e == Delivered(now)
           u == OnNewBlocks(n, e \ d)
<1>2. /\ received' = [received EXCEPT ![n] = now]
      /\ top' = [top EXCEPT ![n] = u]
      /\ UNCHANGED <<made, last, sending, pending, process_deps>>
  BY <1>1
<1>3. /\ \A x \in u : x \in top[n] \/ (x \in e \ d /\ x.src # n)
      /\ \A c \in e \ d : ParentsIn(made, c) \cap u = {}
  BY DEF OnNewBlocks, WithoutParents, Parents, ParentsIn
<1>4. /\ HInv /\ GroundedIn(made) /\ Closed
      /\ OrderedIn(made, n, last[n], sending[n].block, d, top[n], Process(n), pending[n])
  BY DEF QInv, Ordered, HInv, RInv
<1>5. /\ d \subseteq published /\ published \subseteq DOMAIN made
      /\ received[n] \subseteq published /\ Root \notin published
      /\ top[n] \subseteq d /\ Process(n) \subseteq d
      /\ \A i \in 1..Len(pending[n]) : pending[n][i] \subseteq d
      /\ \A y \in d : PastIn(made, y) \subseteq d
      /\ PastIn(made, last[n]) \subseteq d
      /\ PastIn(made, sending[n].block) \subseteq d \cup {sending[n].block}
      /\ sending[n].block = Root \/ sending[n].block.src = n
  BY <1>4, Holds
<1>6. now \subseteq DOMAIN made /\ Root \notin now
  BY <1>5
<1>7. e \subseteq now /\ d \subseteq e
  BY DeliveredGrows DEF Delivered
<1>8. \A y \in e : PastIn(made, y) \subseteq e
  BY <1>4, <1>6, DeliveredClosed
<1>9. e \subseteq DOMAIN made /\ Root \notin e
  BY <1>6, <1>7
<1>10. Delivered(received[n])' = e /\ top'[n] = u
  BY <1>2 DEF Delivered, QInv, HInv, RInv, IInv, Shapes
<1>11. Process(n)' = Process(n)
  BY <1>2 DEF Process
<1> HIDE DEF d, e, u, now
<1>12. OrderedIn(made, n, last[n], sending[n].block, e, u, Process(n), pending[n])
  BY <1>3, <1>4, <1>5, <1>7, <1>8, <1>9, OrderReceives
<1>13. Ordered(n)'
  BY <1>2, <1>10, <1>11, <1>12 DEF Ordered
<1>14. \A m \in Nodes \ {n} : Ordered(m)'
  <2>1. \A m \in Nodes \ {n} : received'[m] = received[m] /\ top'[m] = top[m]
    BY <1>2 DEF QInv, HInv, RInv, IInv, Shapes
  <2> QED BY <1>2, <2>1, OthersOrdered
<1> QED BY <1>2, <1>13, <1>14, KeptQInv

LEMMA ProcessQInv ==
    ASSUME QInv, HInv', NEW n \in Nodes, SendProcess(n) \/ ProcessedBlock(n)
    PROVE  QInv'
<1> DEFINE d == Delivered(received[n])
           s == sending[n].block
<1>1. UNCHANGED <<made, received, last, sending>>
  BY DEF SendProcess, ProcessedBlock, receiver_vars
<1>2. \A m \in Nodes \ {n} : Ordered(m)'
  <2>1. \A m \in Nodes \ {n} :
          top'[m] = top[m] /\ process_deps'[m] = process_deps[m] /\ pending'[m] = pending[m]
    <3>1. CASE SendProcess(n)
      BY <3>1 DEF SendProcess, receiver_vars, QInv, HInv, RInv, IInv, Shapes
    <3>2. CASE ProcessedBlock(n)
      BY <3>2 DEF ProcessedBlock, QInv, HInv, RInv, IInv, Shapes
    <3> QED BY <3>1, <3>2
  <2> QED BY <1>1, <2>1, OthersOrdered
<1>3. d' = d /\ s' = s /\ last'[n] = last[n] /\ made' = made
  BY <1>1 DEF Delivered
<1>4. OrderedIn(made, n, last[n], s, d, top[n], Process(n), pending[n])
  BY DEF QInv, Ordered
<1>5. pending[n] \in Seq(SUBSET d) /\ Process(n) \subseteq d
  BY Holds DEF QInv
<1>6. \A w \in Choices(top[n]) : w \subseteq top[n]
  BY DEF Choices
<1>7. /\ top = [m \in Nodes |-> top[m]] /\ pending = [m \in Nodes |-> pending[m]]
      /\ process_deps = [m \in Nodes |-> process_deps[m]]
  BY DEF QInv, HInv, RInv, IInv, Shapes
<1> HIDE DEF d, s
<1>8. ASSUME OrderedIn(made, n, last[n], s, d, top[n], {}, pending'[n]),
             NEW w \in Choices(top[n]), process_deps'[n] = w, top'[n] = top[n] \ w
      PROVE  Ordered(n)'
  <2>1. Process(n)' \subseteq w
    BY <1>8 DEF Process
  <2>2. OrderedIn(made, n, last[n], s, d, top[n] \ w, Process(n)', pending'[n])
    BY <1>6, <1>8, <2>1, OrderTakes
  <2> QED BY <1>3, <1>8, <2>2 DEF Ordered, d, s
<1>9. CASE SendProcess(n)
  <2>1. PICK w \in Choices(top[n]) : /\ process_deps' = [process_deps EXCEPT ![n] = w]
                                     /\ top' = [top EXCEPT ![n] = @ \ w]
    BY <1>9 DEF SendProcess
  <2>2. process_deps[n] = None /\ UNCHANGED pending
    BY <1>9 DEF SendProcess, receiver_vars
  <2>3. process_deps'[n] = w /\ top'[n] = top[n] \ w
    BY <1>7, <2>1
  <2>4. Process(n) = {}
    BY <2>2 DEF Process
  <2>5. Ordered(n)'
    BY <1>4, <1>8, <2>2, <2>3, <2>4
  <2> QED BY <1>1, <1>2, <2>5, KeptQInv
<1>10. CASE ProcessedBlock(n)
  <2>1. /\ process_deps[n] # None
        /\ pending' = [pending EXCEPT ![n] = Append(@, process_deps[n])]
        /\ \/ UNCHANGED top /\ process_deps' = [process_deps EXCEPT ![n] = None]
           \/ \E w \in Choices(top[n]) :
                /\ process_deps' = [process_deps EXCEPT ![n] = w]
                /\ top' = [top EXCEPT ![n] = @ \ w]
    BY <1>10 DEF ProcessedBlock
  <2>2. Process(n) = process_deps[n] /\ pending'[n] = Append(pending[n], process_deps[n])
    BY <1>7, <2>1 DEF Process
  <2>3. OrderedIn(made, n, last[n], s, d, top[n], {}, pending'[n])
    BY <1>4, <1>5, <2>2, OrderWaits
  <2>4. CASE UNCHANGED top /\ process_deps' = [process_deps EXCEPT ![n] = None]
    <3>1. Process(n)' = {} /\ top'[n] = top[n]
      BY <1>7, <2>4 DEF Process
    <3>2. Ordered(n)'
      BY <1>3, <2>3, <3>1 DEF Ordered, d, s
    <3> QED BY <1>1, <1>2, <3>2, KeptQInv
  <2>5. CASE \E w \in Choices(top[n]) :
               /\ process_deps' = [process_deps EXCEPT ![n] = w]
               /\ top' = [top EXCEPT ![n] = @ \ w]
    <3>1. PICK w \in Choices(top[n]) : process_deps'[n] = w /\ top'[n] = top[n] \ w
      BY <1>7, <2>5
    <3>2. Ordered(n)'
      BY <1>8, <2>3, <3>1
    <3> QED BY <1>1, <1>2, <3>2, KeptQInv
  <2> QED BY <2>1, <2>4, <2>5
<1> QED BY <1>9, <1>10

(* A new block names what pre_validate_block and pre_deliver allow.         *)
LEMMA NewIsNotIll ==
    ASSUME QInv, NEW n \in Nodes, AddBlock(n), NEW x \in Head(pending[n])
    PROVE  /\ x.src # n
           /\ x.height > made[last[n]].vt[x.src]
           /\ \A y \in Head(pending[n]) : x.src = y.src => x = y
<1> DEFINE q == pending[n]
           d == Delivered(received[n])
<1>1. HInv /\ OrderedIn(made, n, last[n], sending[n].block, d, top[n], Process(n), q)
  BY DEF QInv, Ordered
<1>2. q \in Seq(SUBSET d) /\ q # << >> /\ d \subseteq published
  BY <1>1, Holds DEF AddBlock
<1> HIDE DEF d
<1>3. Head(q) = q[1] /\ 1 \in 1..Len(q) /\ Head(q) \subseteq d
  BY <1>2, SMT
<1>4. Sound(made, n, last[n], sending[n].block, Head(q))
  BY <1>1, <1>3 DEF OrderedIn
<1>5. x.src # n /\ x \notin Past(last[n]) /\ \A y \in Head(q) : x \in Past(y) => x = y
  BY <1>4 DEF Sound, PastIn, Past
<1>6. x \in published /\ Head(q) \subseteq published /\ last[n] \in published \cup {Root}
  BY <1>1, <1>2, <1>3 DEF HInv, RInv, IInv, Stages
<1>7. \A y \in published \cup {Root} : y \in DOMAIN made /\ Reaches(y) /\ (y = Root \/ Numbered(y))
  BY <1>1 DEF HInv, RInv, IInv
<1>8. \A y \in published : y.src \in Nodes /\ y.height \in Nat
  <2>1. \A y \in published : y.height > 0 /\ y \in Blocks
    BY <1>1 DEF HInv, RInv, IInv
  <2>2. ~(Root.height > 0)
    BY SMT DEF Root
  <2>3. \A y \in published : Numbered(y)
    BY <1>7, <2>1, <2>2
  <2> QED BY <2>1, <2>3 DEF Numbered, Blocks
<1>9. x.height > made[last[n]].vt[x.src]
  <2>1. ~(x.height <= made[last[n]].vt[x.src])
    BY <1>1, <1>5, <1>6, ExactFollows
  <2>2. made[last[n]].vt[x.src] \in Nat /\ x.height \in Nat
    BY <1>6, <1>7, <1>8, SMT DEF Reaches
  <2> QED BY <2>1, <2>2, SMT
<1>10. ASSUME NEW y \in Head(q), NEW z \in Head(q), y.src = z.src, y.height <= z.height
       PROVE  y \in Past(z)
  <2>1. y \in published /\ z \in published /\ y.height \in Nat /\ z.height \in Nat
    BY <1>6, <1>8
  <2>2. z \in Past(z)
    <3>1. ~(Root.height > 0)
      BY SMT DEF Root
    <3>2. z.height > 0
      BY <1>1, <2>1 DEF HInv, RInv, IInv
    <3> QED BY <3>1, <3>2 DEF Past
  <2>3. z.height <= made[z].vt[z.src] /\ made[z].vt[z.src] \in Nat
    <3>1. z.height <= made[z].vt[z.src]
      BY <1>1, <2>1, <2>2, ExactFollows
    <3>2. made[z].vt \in [Nodes -> Nat] /\ z.src \in Nodes
      BY <1>7, <1>8, <2>1 DEF Reaches
    <3> QED BY <3>1, <3>2, SMT
  <2>4. y.height <= made[z].vt[y.src]
    BY <1>10, <2>1, <2>3, SMT
  <2> QED BY <1>1, <2>1, <2>4, ExactFollows
<1>11. ASSUME NEW y \in Head(q), x.src = y.src PROVE x = y
  <2>1. x.height <= y.height \/ y.height <= x.height
    BY <1>6, <1>8, SMT
  <2>2. \A z \in Head(q) : y \in Past(z) => y = z
    BY <1>4 DEF Sound, PastIn, Past
  <2> QED BY <1>5, <1>10, <1>11, <2>1, <2>2
<1> QED BY <1>5, <1>9, <1>11

LEMMA AddBlockQInv ==
    ASSUME QInv, HInv', NEW n \in Nodes, AddBlock(n)
    PROVE  QInv'
<1>1. PICK b : Signs(n, b)
  BY DEF Signs
<1> DEFINE d == Delivered(received[n])
<1>2. RInv /\ HInv /\ GroundedIn(made) /\ NeverIll
  BY DEF QInv, HInv
<1>3. /\ b.src = n /\ b \notin DOMAIN made
      /\ DOMAIN made' = DOMAIN made \cup {b}
      /\ \A c \in DOMAIN made : made'[c] = made[c]
      /\ made'[b].prev = last[n] /\ made'[b].deps = Head(pending[n])
      /\ sending' = [sending EXCEPT ![n] = [stage |-> "storing", block |-> b]]
      /\ last[n] \in DOMAIN made
  BY <1>1, <1>2, NewBlock
<1>4. /\ \A p \in Named(n) : p \in DOMAIN made
      /\ \A x \in made'[b].past : x # Root /\ \E p \in Named(n) : x \in Past(p)
      /\ \A p \in Named(n) : Past(p) \subseteq made'[b].past
  BY <1>1, <1>2, PastOfNew
<1>5. /\ pending' = [pending EXCEPT ![n] = Tail(@)] /\ pending[n] # << >>
      /\ sending[n] = NotSending
      /\ UNCHANGED <<received, last, top, process_deps>>
  BY DEF AddBlock, chain_vars
<1>6. \A c \in DOMAIN made : made[c].past \cup {Root} \subseteq DOMAIN made
  BY <1>2 DEF RInv, IInv
<1>7. \A c \in DOMAIN made : ParentsIn(made', c) = ParentsIn(made, c)
  BY <1>3 DEF ParentsIn
<1>8. GroundedIn(made')
  <2>1. ASSUME NEW c \in DOMAIN made
        PROVE  /\ ParentsIn(made', c) \subseteq made'[c].past \cup {Root}
               /\ \A x \in made'[c].past : \E z \in made'[c].past \cup {c} : x \in ParentsIn(made', z)
    BY <1>2, <1>3, <1>6, <1>7, SMT DEF GroundedIn
  <2>2. ParentsIn(made', b) = Named(n)
    BY <1>3 DEF ParentsIn, Named
  <2>3. Named(n) \subseteq made'[b].past \cup {Root}
    BY <1>4 DEF Past
  <2>4. ASSUME NEW x \in made'[b].past
        PROVE  \E z \in made'[b].past \cup {b} : x \in ParentsIn(made', z)
    <3>1. PICK p \in Named(n) : x \in Past(p)
      BY <1>4
    <3>2. CASE x = p
      BY <2>2, <3>2
    <3>3. CASE x # p
      <4>1. x \in made[p].past /\ p # Root
        BY <3>1, <3>3 DEF Past
      <4>2. PICK z \in made[p].past \cup {p} : x \in ParentsIn(made, z)
        BY <1>2, <1>4, <4>1 DEF GroundedIn
      <4>3. z \in made'[b].past /\ z \in DOMAIN made
        BY <1>4, <1>6, <4>1, <4>2 DEF Past
      <4> QED BY <1>7, <4>2, <4>3
    <3> QED BY <3>2, <3>3
  <2>5. ASSUME NEW c \in DOMAIN made'
        PROVE  /\ ParentsIn(made', c) \subseteq made'[c].past \cup {Root}
               /\ \A x \in made'[c].past : \E z \in made'[c].past \cup {c} : x \in ParentsIn(made', z)
    <3>1. CASE c = b
      BY <2>2, <2>3, <2>4, <3>1
    <3> QED BY <1>3, <2>1, <3>1
  <2> QED BY <2>5 DEF GroundedIn
<1>9. NeverIll'
  <2>1. ASSUME NEW c \in DOMAIN made, NEW x \in made'[c].deps
        PROVE  /\ x.src # c.src
               /\ x.height > made'[made'[c].prev].vt[x.src]
               /\ \A y \in made'[c].deps : x.src = y.src => x = y
    <3>1. made'[c] = made[c] /\ made[c].prev \in DOMAIN made
      BY <1>2, <1>3, <1>6 DEF GroundedIn, ParentsIn
    <3>2. made'[made'[c].prev] = made[made[c].prev]
      BY <1>3, <3>1
    <3> QED BY <1>2, <2>1, <3>1, <3>2 DEF NeverIll
  <2>2. ASSUME NEW x \in made'[b].deps
        PROVE  /\ x.src # b.src
               /\ x.height > made'[made'[b].prev].vt[x.src]
               /\ \A y \in made'[b].deps : x.src = y.src => x = y
    <3>1. made'[made'[b].prev] = made[last[n]] /\ x \in Head(pending[n])
      BY <1>3, <2>2
    <3> QED BY <1>3, <3>1, NewIsNotIll
  <2> QED BY <1>3, <2>1, <2>2 DEF NeverIll
<1>10. \A m \in Nodes \ {n} : Ordered(m)'
  <2>1. \A m \in Nodes \ {n} : pending'[m] = pending[m] /\ sending'[m] = sending[m]
    BY <1>2, <1>3, <1>5 DEF RInv, IInv, Shapes
  <2> QED BY <1>3, <1>5, <2>1, OthersOrdered
<1>11. Ordered(n)'
  <2>1. /\ d \subseteq published /\ published \subseteq DOMAIN made
        /\ received[n] \subseteq published /\ Root \in DOMAIN made
        /\ top[n] \subseteq d /\ Process(n) \subseteq d /\ pending[n] \in Seq(SUBSET d)
    BY <1>2, Holds
  <2>2. sending[n].block = Root
    BY <1>5, SMT DEF NotSending
  <2>3. OrderedIn(made, n, last[n], Root, d, top[n], Process(n), pending[n])
    BY <2>2 DEF QInv, Ordered
  <2>4. d' = d /\ Process(n)' = Process(n)
    BY <1>3, <1>5, <2>1 DEF Delivered, Process
  <2>5. sending'[n] = [stage |-> "storing", block |-> b] /\ pending'[n] = Tail(pending[n])
    BY <1>2, <1>3, <1>5 DEF RInv, IInv, Shapes
  <2>6. sending'[n].block = b
    BY <2>5, SMT
  <2> HIDE DEF d
  <2>7. pending[n] \in Seq(SUBSET DOMAIN made)
    <3>1. d \subseteq DOMAIN made
      BY <2>1
    <3> QED BY <2>1, <3>1, SeqGrows
  <2>8. \A x \in made'[b].past : \E c \in {last[n]} \cup Head(pending[n]) : x \in PastIn(made, c)
    BY <1>4 DEF Past, PastIn, Named
  <2>9. /\ d \subseteq DOMAIN made /\ top[n] \subseteq DOMAIN made /\ Process(n) \subseteq DOMAIN made
        /\ {last[n], Root} \subseteq DOMAIN made
    BY <1>3, <2>1
  <2>10. OrderedIn(made', n, last[n], b, d, top[n], Process(n), Tail(pending[n]))
    <3>1. b.src = n /\ pending[n] # << >> /\ \A c \in DOMAIN made : made'[c] = made[c]
      BY <1>3, <1>5
    <3> QED BY <2>3, <2>7, <2>8, <2>9, <3>1, OrderAdds
  <2> QED BY <1>5, <2>4, <2>5, <2>6, <2>10 DEF Ordered, d
<1> QED BY <1>8, <1>9, <1>10, <1>11 DEF QInv

LEMMA WritesQInv ==
    ASSUME QInv, HInv', NEW n \in Nodes, Commit(n) \/ AddBlockCont2(n)
    PROVE  QInv'
<1>1. UNCHANGED <<made, received, last, pending, top, process_deps>>
  BY DEF Commit, AddBlockCont2, receiver_vars, chain_vars
<1>2. \A m \in Nodes : sending'[m].block = sending[m].block
  <2>1. CASE Commit(n)
    BY <2>1 DEF Commit, receiver_vars
  <2>2. CASE AddBlockCont2(n)
    <3>1. /\ sending' = [sending EXCEPT ![n].stage = "rooting"]
          /\ sending = [m \in Nodes |-> sending[m]]
          /\ \A m \in Nodes : sending[m] \in [stage : {"none", "storing", "rooting"}, block : Blocks]
      BY <2>2 DEF AddBlockCont2, QInv, HInv, RInv, IInv, Shapes, Stages
    <3> QED BY <3>1, SMT
  <2> QED BY <2>1, <2>2
<1>3. \A m \in Nodes : Ordered(m)'
  BY <1>1, <1>2, OthersOrdered
<1> QED BY <1>1, <1>3, KeptQInv

LEMMA AddBlockCont3QInv ==
    ASSUME QInv, HInv', NEW n \in Nodes, AddBlockCont3(n)
    PROVE  QInv'
<1> DEFINE b == sending[n].block
           now == received[n] \cup {b}
           d == Delivered(received[n])
           e == Delivered(now)
           u == OnNewBlocks(n, {b})
<1>1. /\ sending[n].stage = "rooting"
      /\ received' = [received EXCEPT ![n] = now]
      /\ last' = [last EXCEPT ![n] = b]
      /\ top' = [top EXCEPT ![n] = u]
      /\ sending' = [sending EXCEPT ![n] = NotSending]
      /\ UNCHANGED <<made, pending, process_deps>>
  BY DEF AddBlockCont3
<1>2. HInv /\ RInv /\ Unsent(n) /\ Stages(n)
  BY DEF QInv, HInv, RInv, IInv
<1>3. b.src = n /\ b \notin published
  BY <1>1, <1>2 DEF Unsent, Stages
<1>4. e \subseteq d \cup {b}
  <2>1. received[n] \subseteq published /\ published \subseteq DOMAIN made
    BY <1>2, Holds
  <2>2. \A c \in received[n] : b \notin made[c].past
    BY <1>2, <1>3, <2>1 DEF RInv, IInv
  <2> QED BY <2>2 DEF Delivered
<1>5. u \subseteq top[n] /\ ParentsIn(made, b) \cap u = {}
  BY <1>3 DEF OnNewBlocks, WithoutParents, Parents, ParentsIn
<1>6. OrderedIn(made, n, last[n], b, d, top[n], Process(n), pending[n])
  BY DEF QInv, Ordered
<1>7. /\ received'[n] = now /\ last'[n] = b /\ top'[n] = u /\ sending'[n] = NotSending
  BY <1>1, <1>2 DEF RInv, IInv, Shapes
<1>8. \A m \in Nodes \ {n} : Ordered(m)'
  <2>1. \A m \in Nodes \ {n} : /\ received'[m] = received[m] /\ last'[m] = last[m]
                               /\ top'[m] = top[m] /\ sending'[m] = sending[m]
    BY <1>1, <1>2 DEF RInv, IInv, Shapes
  <2> QED BY <1>1, <2>1, OthersOrdered
<1>9. Delivered(received[n])' = e /\ Process(n)' = Process(n)
  BY <1>1, <1>7 DEF Delivered, Process
<1>10. sending'[n].block = Root
  BY <1>7, SMT DEF NotSending
<1> HIDE DEF b, now, d, e, u
<1>11. OrderedIn(made, n, b, Root, e, u, Process(n), pending[n])
  BY <1>4, <1>5, <1>6, OrderSends
<1>12. Ordered(n)'
  BY <1>1, <1>7, <1>9, <1>10, <1>11 DEF Ordered
<1> QED BY <1>1, <1>8, <1>12, KeptQInv

(* After a restart nothing waits: all that was read back is before the own  *)
(* block it started from.                                                   *)
LEMMA RestartQInv ==
    ASSUME QInv, HInv', NEW n \in Nodes, Restart(n)
    PROVE  QInv'
<1> DEFINE P == Past(root[n])
<1>1. PICK w \in Choices(TopOf(n, P)) :
        /\ process_deps' = [process_deps EXCEPT ![n] = w]
        /\ top' = [top EXCEPT ![n] = TopOf(n, P) \ w]
  BY DEF Restart
<1>2. /\ received' = [received EXCEPT ![n] = P]
      /\ last' = [last EXCEPT ![n] = root[n]]
      /\ sending' = [sending EXCEPT ![n] = NotSending]
      /\ pending' = [pending EXCEPT ![n] = << >>]
      /\ UNCHANGED made
  BY DEF Restart
<1>3. RInv /\ GroundedIn(made)
  BY DEF QInv, HInv
<1>4. TopOf(n, P) = {}
  <2> SUFFICES ASSUME NEW b \in P, b.src # n, \A c \in P : b \notin Parents(c) PROVE FALSE
    BY DEF TopOf
  <2>1. root[n] # Root
    BY DEF Past
  <2>2. root[n] \in DOMAIN made /\ root[n].src = n
    BY <1>3, <2>1 DEF RInv, IInv, Stages
  <2>3. P = made[root[n]].past \cup {root[n]}
    BY <2>1 DEF Past
  <2>4. b \in made[root[n]].past
    BY <2>2, <2>3
  <2>5. \E c \in made[root[n]].past \cup {root[n]} : b \in ParentsIn(made, c)
    BY <1>3, <2>2, <2>4 DEF GroundedIn
  <2> QED BY <2>3, <2>5 DEF ParentsIn, Parents
<1>5. w = {}
  BY <1>1, <1>4 DEF Choices
<1> HIDE DEF P
<1>6. /\ top'[n] = {} /\ process_deps'[n] = {} /\ pending'[n] = << >>
  BY <1>1, <1>2, <1>3, <1>4, <1>5 DEF RInv, IInv, Shapes
<1>7. Process(n)' = {}
  BY <1>6 DEF Process
<1>8. Ordered(n)'
  BY <1>6, <1>7, OrderEmpty DEF Ordered
<1>9. \A m \in Nodes \ {n} : Ordered(m)'
  <2>1. \A m \in Nodes \ {n} : /\ received'[m] = received[m] /\ last'[m] = last[m]
                               /\ pending'[m] = pending[m] /\ sending'[m] = sending[m]
    BY <1>2, <1>3 DEF RInv, IInv, Shapes
  <2>2. \A m \in Nodes \ {n} : top'[m] = top[m] /\ process_deps'[m] = process_deps[m]
    BY <1>1, <1>3 DEF RInv, IInv, Shapes
  <2> QED BY <1>2, <2>1, <2>2, OthersOrdered
<1> QED BY <1>2, <1>8, <1>9, KeptQInv

LEMMA StepQInv == ASSUME CatchainAssumption, QInv, [Next]_vars PROVE QInv'
<1>1. HInv'
  BY StepHInv DEF QInv
<1>2. CASE Next
  BY <1>1, <1>2, ReceiveQInv, ProcessQInv, AddBlockQInv, WritesQInv, AddBlockCont3QInv,
     RestartQInv DEF Next
<1>3. CASE UNCHANGED vars
  <2>1. UNCHANGED <<made, received, last, sending, pending, top, process_deps>>
    BY <1>3 DEF vars, receiver_vars, chain_vars
  <2>2. \A m \in Nodes : Ordered(m)'
    BY <2>1, OthersOrdered
  <2> QED BY <1>1, <2>1, <2>2, KeptQInv
<1> QED BY <1>2, <1>3

(* No node is blamed for what an honest one does: a block that add_block    *)
(* signs passes the checks of pre_validate_block and pre_deliver, although  *)
(* its dependencies were chosen before the blocks in front of it in the     *)
(* queue were signed, and more blocks arrived meanwhile.                    *)
THEOREM CatchainNeverIll == Spec => []NeverIll
<1>1. Init => QInv
  BY InitQInv, CatchainAssumption
<1>2. QInv /\ [Next]_vars => QInv'
  BY StepQInv, CatchainAssumption
<1>3. QInv => NeverIll
  BY DEF QInv
<1> QED BY <1>1, <1>2, <1>3, PTL DEF Spec
===============================================================================
