---------------------------- MODULE CtreeProofs ----------------------------
(***************************************************************************)
(* Proofs about the extraction of a ctree.  A node with a defect is a leaf *)
(* of the walk, so the callback that records the defect runs before the    *)
(* walk meets any other node: the order in which callbacks run (children   *)
(* first) and the order in which a visitor meets the nodes (parents first) *)
(* agree on the defects, and the failure kept first is the failure of the  *)
(* first bad node.                                                         *)
(***************************************************************************)
EXTENDS Ctree, SequenceTheorems, FiniteSetTheorems, FunctionTheorems, NaturalsInduction,
        WellFoundedInduction, TLAPS

(***************************************************************************)
(* Sequences.                                                              *)
(***************************************************************************)
LEMMA Prefix ==
  ASSUME NEW X, NEW s \in Seq(X), NEW n \in 0..Len(s)
  PROVE  /\ SubSeq(s, 1, n) \in Seq(X) /\ Len(SubSeq(s, 1, n)) = n
         /\ \A k \in 1..n : SubSeq(s, 1, n)[k] = s[k]
<1>1. Len(s) \in Nat /\ \A k \in 1..n : s[k] \in X
  OBVIOUS
<1>2. SubSeq(s, 1, n) \in Seq(X)
  BY <1>1, SubSeqProperties
<1> QED
  BY <1>1, <1>2

\* The last element of a sequence, and what is before it.
LEMMA LastFront ==
  ASSUME NEW X, NEW s \in Seq(X), s # <<>>
  PROVE  /\ Len(s) \in Nat \ {0} /\ Last(s) = s[Len(s)] /\ Last(s) \in X
         /\ Front(s) \in Seq(X) /\ Len(Front(s)) = Len(s) - 1
         /\ \A k \in 1..Len(s) - 1 : Front(s)[k] = s[k]
<1>1. Len(s) \in Nat \ {0}
  OBVIOUS
<1>2. s[Len(s)] \in X
  BY <1>1
<1>3. Len(s) - 1 \in 0..Len(s)
  BY <1>1
<1>4. /\ SubSeq(s, 1, Len(s) - 1) \in Seq(X) /\ Len(SubSeq(s, 1, Len(s) - 1)) = Len(s) - 1
      /\ \A k \in 1..Len(s) - 1 : SubSeq(s, 1, Len(s) - 1)[k] = s[k]
  BY <1>3, Prefix, Zenon
<1> QED
  BY <1>1, <1>2, <1>4, Zenon DEF Last, Front

\* A sequence of anything.
IsSeq(s) == s \in Seq({s[i] : i \in DOMAIN s})

\* A sequence over a set is a sequence, whatever its elements.
LEMMA IsSeqIntro ==
  ASSUME NEW X, NEW s \in Seq(X)
  PROVE  IsSeq(s)
<1>1. \A i \in 1..Len(s) : s[i] \in {s[j] : j \in DOMAIN s}
  OBVIOUS
<1>2. s = [i \in 1..Len(s) |-> s[i]] /\ Len(s) \in Nat
  OBVIOUS
<1>3. \A Y : (\A i \in 1..Len(s) : s[i] \in Y) => s \in Seq(Y)
  BY <1>2
<1> QED
  BY <1>1, <1>3 DEF IsSeq

\* Appending keeps it one, and its length is a number.
LEMMA IsSeqAppend ==
  ASSUME NEW s, IsSeq(s), NEW v
  PROVE  IsSeq(Append(s, v)) /\ Len(s) \in Nat
<1> DEFINE X == {s[i] : i \in DOMAIN s} \cup {v}
<1>1. s \in Seq({s[i] : i \in DOMAIN s})
  BY DEF IsSeq
<1>2. s \in Seq(X) /\ v \in X /\ Len(s) \in Nat
  BY <1>1
<1> HIDE DEF X
<1>3. Append(s, v) \in Seq(X)
  BY <1>2
<1> QED
  BY <1>2, <1>3, IsSeqIntro

(***************************************************************************)
(* The frames of the walk.                                                 *)
(***************************************************************************)
SlotKind == {"e", "oe", "s", "os", "b"}
Frame == [node : Nat, todo : Seq(SlotKind), got : Seq(Nat)]
Data  == UNION {DataOf(op, n) : op \in 0..99, n \in Nat}
SdkNode == [op : 0..99, ea : Nat, slots : Seq(SlotKind), data : Data, opt : SlotKind]

\* A bad node of the SDK's tree, by its place in the order of the visit.
Bad(tree, i) == i \in DOMAIN tree /\ FaultOf(tree[i].op, tree[i].data) # "none"

\* The frames: the walk's own at the bottom, one per open node above it, and
\* a frame that waits for an operand below every other.
FramesOK ==
  /\ stack \in Seq(Frame) /\ stack # <<>> /\ stack[1].node = 0
  /\ \A k \in 2..Len(stack) : stack[k].node \in 1..Len(sdk)
  /\ \A k \in 1..Len(stack) - 1 : stack[k].todo # <<>>

\* The walk has no operand to visit at an open bad node, which is the last met.
BadIsLast ==
  \A k \in 1..Len(stack) : Bad(sdk, stack[k].node) => stack[k].todo = <<>> /\ stack[k].node = Len(sdk)

\* The nodes whose failure the callbacks have seen.
Seen == IF Bad(sdk, Top.node) THEN Len(sdk) - 1 ELSE Len(sdk)

\* The failure kept is that of the first bad node seen.
FirstKept ==
  \/ error = "none" /\ \A i \in 1..Seen : ~Bad(sdk, i)
  \/ \E i \in 1..Seen : /\ Bad(sdk, i) /\ error = FaultOf(sdk[i].op, sdk[i].data)
                        /\ \A j \in 1..Seen : j < i => ~Bad(sdk, j)

WalkInv ==
  /\ sdk \in Seq(SdkNode) /\ input \in Inputs /\ IsSeq(exprs) /\ IsSeq(stmts)
  /\ FramesOK /\ BadIsLast /\ FirstKept /\ WalkOutcome

(***************************************************************************)
(* Operands and defects.                                                   *)
(***************************************************************************)
LEMMA TimesSeq ==
  ASSUME NEW n \in Nat, NEW s \in SlotKind
  PROVE  Times(n, s) \in Seq(SlotKind)
  BY DEF Times

\* What an expression has to visit is a list of slots.
LEMMA ExprSlotsType ==
  ASSUME NEW op \in 0..99, NEW n \in Nat
  PROVE  ExprSlots(op, n) \in Seq(SlotKind)
<1> DEFINE used == {u \in 1..3 : <<op_uses_x(op), op_uses_y(op), op_uses_z(op)>>[u]}
<1>1. "e" \in SlotKind /\ n + 1 \in Nat
  BY DEF SlotKind
<1>2. used \subseteq 1..3 /\ IsFiniteSet(1..3)
  <2>1. used \subseteq 1..3
    BY Zenon
  <2>2. 1 \in Int /\ 3 \in Int
    OBVIOUS
  <2>3. IsFiniteSet(1..3)
    BY <2>2, FS_Interval, Zenon
  <2> QED
    BY <2>1, <2>3
<1>3. Cardinality(used) \in Nat
  BY <1>2, FS_Subset, FS_CardinalityType
<1>4. Times(n + 1, "e") \in Seq(SlotKind) /\ Times(Cardinality(used), "e") \in Seq(SlotKind)
  BY <1>1, <1>3, TimesSeq
<1>5. <<>> \in Seq(SlotKind)
  OBVIOUS
<1> QED
  BY <1>4, <1>5, Zenon DEF ExprSlots

\* What a statement has to visit is a list of slots.
LEMMA StmtSlotsType ==
  ASSUME NEW op, NEW n \in Nat
  PROVE  StmtSlots(op, n) \in Seq(SlotKind)
<1>1. "e" \in SlotKind /\ "s" \in SlotKind /\ "b" \in SlotKind /\ n + 1 \in Nat
  BY DEF SlotKind
<1>2. /\ Times(n, "s") \in Seq(SlotKind) /\ Times(n + 1, "b") \in Seq(SlotKind)
  BY <1>1, TimesSeq
<1>3. /\ <<>> \in Seq(SlotKind) /\ <<"e">> \in Seq(SlotKind) /\ <<"oe">> \in Seq(SlotKind)
      /\ <<"e", "s", "os">> \in Seq(SlotKind) /\ <<"oe", "oe", "oe", "s">> \in Seq(SlotKind)
      /\ <<"e", "s">> \in Seq(SlotKind) /\ <<"s", "e">> \in Seq(SlotKind)
  BY DEF SlotKind
<1>4. <<"e">> \o Times(n, "s") \in Seq(SlotKind)
  BY <1>2, <1>3
<1> QED
  BY <1>2, <1>3, <1>4, Zenon DEF StmtSlots

\* A node with a defect has nothing to visit: the node of an object, an asm
\* statement, or an expression the SDK has no operands for.
LEMMA BadHasNoOperands ==
  ASSUME NEW op \in 0..99, NEW n \in Nat, NEW data, FaultOf(op, data) # "none"
  PROVE  /\ ExprSlots(op, n) = <<>> \/ IsStmt(op)
         /\ IsStmt(op) => StmtSlots(op, n) = <<>>
<1>1. op = cot.obj \/ op = cit.asm_ \/ op > cit.throw_
  BY DEF FaultOf
<1>2. CASE op = cot.obj
  <2>1. op \in Leaves /\ ~IsStmt(op) /\ op # cot.call
    BY <1>2 DEF Leaves, cot, IsStmt
  <2> QED
    BY <2>1, Zenon DEF ExprSlots
<1>3. CASE op = cit.asm_
  <2>1. /\ IsStmt(op) /\ op \notin {cit.return_, cit.throw_}
        /\ op # cit.block_ /\ op # cit.expr_ /\ op # cit.if_ /\ op # cit.for_ /\ op # cit.while_
        /\ op # cit.do_ /\ op # cit.switch_ /\ op # cit.try_
    BY <1>3 DEF cit, IsStmt
  <2> QED
    BY <2>1, Zenon DEF StmtSlots
<1>4. CASE op > cit.throw_
  <2> DEFINE used == {u \in 1..3 : <<op_uses_x(op), op_uses_y(op), op_uses_z(op)>>[u]}
  <2>1. ~IsStmt(op) /\ op \notin Leaves /\ op # cot.call
    BY <1>4 DEF IsStmt, Leaves, cot, cit
  <2>2. ~op_uses_x(op) /\ ~op_uses_y(op) /\ ~op_uses_z(op)
    BY <1>4 DEF op_uses_x, op_uses_y, op_uses_z, cot, cit
  <2>3. \A u \in 1..3 : ~<<op_uses_x(op), op_uses_y(op), op_uses_z(op)>>[u]
    BY <2>2
  <2>4. used = {}
    BY <2>3
  <2>5. Times(0, "e") = <<>>
    BY DEF Times
  <2>6. Times(Cardinality(used), "e") = <<>>
    BY <2>4, <2>5, FS_EmptySet
  <2> QED
    BY <2>1, <2>6, Zenon DEF ExprSlots
<1> QED
  BY <1>1, <1>2, <1>3, <1>4

(***************************************************************************)
(* The stack.                                                              *)
(***************************************************************************)
LEMMA TakingFrames ==
  ASSUME NEW f \in Seq(Frame), f # <<>>, f[Len(f)].todo # <<>>, NEW h \in Nat
  PROVE  /\ Taking(f, h) \in Seq(Frame) /\ Len(Taking(f, h)) = Len(f) /\ Taking(f, h) # <<>>
         /\ \A k \in 1..Len(f) - 1 : Taking(f, h)[k] = f[k]
         /\ Taking(f, h)[Len(f)].node = f[Len(f)].node
<1> DEFINE g == [Last(f) EXCEPT !.todo = Tail(@), !.got = Append(@, h)]
<1>1. /\ Len(f) \in Nat \ {0} /\ Last(f) = f[Len(f)] /\ Last(f) \in Frame
      /\ Front(f) \in Seq(Frame) /\ Len(Front(f)) = Len(f) - 1
      /\ \A k \in 1..Len(f) - 1 : Front(f)[k] = f[k]
  BY LastFront
<1>2. Last(f).todo \in Seq(SlotKind) /\ Last(f).todo # <<>> /\ Last(f).got \in Seq(Nat)
  BY <1>1 DEF Frame
<1>3. Tail(Last(f).todo) \in Seq(SlotKind) /\ Append(Last(f).got, h) \in Seq(Nat)
  BY <1>2
<1>4. g \in Frame /\ g.node = f[Len(f)].node
  BY <1>1, <1>3 DEF Frame
<1> HIDE DEF g
<1>5. Taking(f, h) = Append(Front(f), g)
  BY DEF Taking, g
<1>6. /\ Append(Front(f), g) \in Seq(Frame) /\ Len(Append(Front(f), g)) = Len(f)
      /\ Append(Front(f), g)[Len(f)] = g
      /\ \A k \in 1..Len(f) - 1 : Append(Front(f), g)[k] = Front(f)[k]
  BY <1>1, <1>4
<1>7. Append(Front(f), g) # <<>>
  BY <1>6, <1>1
<1> QED
  BY <1>1, <1>4, <1>5, <1>6, <1>7

\* Nothing is bad at the bottom of the stack, or at a frame that waits for an
\* operand.
LEMMA Waiting ==
  ASSUME WalkInv
  PROVE  /\ Len(stack) \in Nat \ {0} /\ Top = stack[Len(stack)] /\ Len(sdk) \in Nat
         /\ \A k \in 1..Len(stack) : stack[k].todo # <<>> => ~Bad(sdk, stack[k].node)
         /\ ~Bad(sdk, 0) /\ (Bad(sdk, Top.node) => Top.node = Len(sdk))
         /\ \A k \in 1..Len(stack) : stack[k] \in Frame /\ stack[k].node \in 0..Len(sdk)
<1>1. stack \in Seq(Frame) /\ stack # <<>> /\ sdk \in Seq(SdkNode)
  BY DEF WalkInv, FramesOK
<1>2. Len(stack) \in Nat \ {0} /\ Top = stack[Len(stack)]
  BY <1>1, LastFront DEF Top
<1>3. \A k \in 1..Len(stack) : Bad(sdk, stack[k].node) => stack[k].todo = <<>> /\ stack[k].node = Len(sdk)
  BY DEF WalkInv, BadIsLast
<1>4. ~Bad(sdk, 0)
  BY <1>1 DEF Bad
<1>5. \A k \in 1..Len(stack) : stack[k] \in Frame /\ stack[k].node \in 0..Len(sdk)
  <2>1. stack[1].node = 0 /\ \A k \in 2..Len(stack) : stack[k].node \in 1..Len(sdk)
    BY DEF WalkInv, FramesOK
  <2> QED
    BY <1>1, <1>2, <2>1
<1> QED
  BY <1>1, <1>2, <1>3, <1>4, <1>5

\* A step that leaves the tree met so far, the failure and the outcome of the
\* open nodes alone keeps the record of failures.
LEMMA FirstKeptMoves ==
  ASSUME FirstKept, Seen \in Nat, Seen' = Seen, error' = error,
         \A i \in 1..Seen : (Bad(sdk', i) <=> Bad(sdk, i)) /\ sdk'[i] = sdk[i]
  PROVE  FirstKept'
<1>1. CASE error = "none" /\ \A i \in 1..Seen : ~Bad(sdk, i)
  BY <1>1 DEF FirstKept
<1>2. CASE \E i \in 1..Seen : /\ Bad(sdk, i) /\ error = FaultOf(sdk[i].op, sdk[i].data)
                              /\ \A j \in 1..Seen : j < i => ~Bad(sdk, j)
  <2>1. PICK i \in 1..Seen : /\ Bad(sdk, i) /\ error = FaultOf(sdk[i].op, sdk[i].data)
                             /\ \A j \in 1..Seen : j < i => ~Bad(sdk, j)
    BY <1>2
  <2>2. /\ i \in 1..Seen' /\ Bad(sdk', i) /\ error' = FaultOf(sdk'[i].op, sdk'[i].data)
        /\ \A j \in 1..Seen' : j < i => ~Bad(sdk', j)
    BY <2>1
  <2> QED
    BY <2>2 DEF FirstKept
<1> QED
  BY <1>1, <1>2 DEF FirstKept

\* One more good node seen.
LEMMA FirstKeptGrows ==
  ASSUME FirstKept, Seen \in Nat, Seen' = Seen + 1, error' = error, ~Bad(sdk', Seen + 1),
         \A i \in 1..Seen : (Bad(sdk', i) <=> Bad(sdk, i)) /\ sdk'[i] = sdk[i]
  PROVE  FirstKept'
<1>1. CASE error = "none" /\ \A i \in 1..Seen : ~Bad(sdk, i)
  <2>1. \A i \in 1..Seen' : i \in 1..Seen \/ i = Seen + 1
    OBVIOUS
  <2>2. \A i \in 1..Seen' : ~Bad(sdk', i)
    BY <1>1, <2>1
  <2> QED
    BY <1>1, <2>2 DEF FirstKept
<1>2. CASE \E i \in 1..Seen : /\ Bad(sdk, i) /\ error = FaultOf(sdk[i].op, sdk[i].data)
                              /\ \A j \in 1..Seen : j < i => ~Bad(sdk, j)
  <2>1. PICK i \in 1..Seen : /\ Bad(sdk, i) /\ error = FaultOf(sdk[i].op, sdk[i].data)
                             /\ \A j \in 1..Seen : j < i => ~Bad(sdk, j)
    BY <1>2
  <2>2. i \in 1..Seen' /\ \A j \in 1..Seen' : j < i => j \in 1..Seen
    OBVIOUS
  <2>3. /\ i \in 1..Seen' /\ Bad(sdk', i) /\ error' = FaultOf(sdk'[i].op, sdk'[i].data)
        /\ \A j \in 1..Seen' : j < i => ~Bad(sdk', j)
    BY <2>1, <2>2
  <2> QED
    BY <2>3 DEF FirstKept
<1> QED
  BY <1>1, <1>2 DEF FirstKept

\* The nodes met before stay what they are.
LEMMA Grown ==
  ASSUME sdk \in Seq(SdkNode), NEW node \in SdkNode, sdk' = Append(sdk, node)
  PROVE  /\ sdk' \in Seq(SdkNode) /\ Len(sdk') = Len(sdk) + 1 /\ Len(sdk) \in Nat
         /\ sdk'[Len(sdk) + 1] = node
         /\ \A i \in 0..Len(sdk) : (Bad(sdk', i) <=> Bad(sdk, i)) /\ (i # 0 => sdk'[i] = sdk[i])
         /\ Bad(sdk', Len(sdk) + 1) <=> FaultOf(node.op, node.data) # "none"
<1>1. /\ sdk' \in Seq(SdkNode) /\ Len(sdk') = Len(sdk) + 1 /\ Len(sdk) \in Nat
      /\ sdk'[Len(sdk) + 1] = node /\ \A i \in 1..Len(sdk) : sdk'[i] = sdk[i]
      /\ DOMAIN sdk = 1..Len(sdk) /\ DOMAIN sdk' = 1..Len(sdk')
  OBVIOUS
<1>2. ~Bad(sdk, 0) /\ ~Bad(sdk', 0)
  BY <1>1 DEF Bad
<1>3. \A i \in 1..Len(sdk) : Bad(sdk', i) <=> Bad(sdk, i)
  BY <1>1 DEF Bad
<1>4. Bad(sdk', Len(sdk) + 1) <=> FaultOf(node.op, node.data) # "none"
  BY <1>1 DEF Bad
<1> QED
  BY <1>1, <1>2, <1>3, <1>4

\* Enter: a frame for the node just met.
LEMMA EnterKeeps ==
  ASSUME WalkInv, Walking, NEW node \in SdkNode, sdk' = Append(sdk, node), Enter(node),
         FaultOf(node.op, node.data) # "none" => node.slots = <<>>, error' = error
  PROVE  FramesOK' /\ BadIsLast' /\ FirstKept'
<1> DEFINE f == [node |-> Len(sdk) + 1, todo |-> node.slots, got |-> <<>>]
<1>1. sdk \in Seq(SdkNode) /\ stack \in Seq(Frame) /\ FirstKept
  BY DEF WalkInv, FramesOK
<1>2. /\ sdk' \in Seq(SdkNode) /\ Len(sdk') = Len(sdk) + 1 /\ Len(sdk) \in Nat
      /\ \A i \in 0..Len(sdk) : (Bad(sdk', i) <=> Bad(sdk, i)) /\ (i # 0 => sdk'[i] = sdk[i])
      /\ Bad(sdk', Len(sdk) + 1) <=> FaultOf(node.op, node.data) # "none"
  BY <1>1, Grown
<1>3. /\ Len(stack) \in Nat \ {0} /\ Top = stack[Len(stack)]
      /\ \A k \in 1..Len(stack) : stack[k].todo # <<>> => ~Bad(sdk, stack[k].node)
      /\ \A k \in 1..Len(stack) : stack[k] \in Frame /\ stack[k].node \in 0..Len(sdk)
  BY Waiting
<1>4. f \in Frame /\ f.node = Len(sdk) + 1 /\ f.todo = node.slots
  BY <1>2 DEF Frame, SdkNode
<1>5. stack' = Append(stack, f)
  BY DEF Enter
<1> HIDE DEF f
<1>6. /\ stack' \in Seq(Frame) /\ Len(stack') = Len(stack) + 1 /\ stack' # <<>>
      /\ stack'[Len(stack) + 1] = f /\ \A k \in 1..Len(stack) : stack'[k] = stack[k]
  BY <1>1, <1>3, <1>4, <1>5
<1>7. \A k \in 1..Len(stack) : stack[k].todo # <<>> /\ ~Bad(sdk, stack[k].node)
  <2>1. stack[Len(stack)].todo # <<>>
    BY <1>3 DEF Walking
  <2>2. \A k \in 1..Len(stack) - 1 : stack[k].todo # <<>>
    BY DEF WalkInv, FramesOK
  <2>3. \A k \in 1..Len(stack) : k \in 1..Len(stack) - 1 \/ k = Len(stack)
    BY <1>3
  <2>4. \A k \in 1..Len(stack) : stack[k].todo # <<>>
    BY <2>1, <2>2, <2>3, Zenon
  <2> QED
    BY <1>3, <2>4, Zenon
<1>8. FramesOK'
  <2>1. stack'[1].node = 0
    <3>1. stack[1].node = 0
      BY DEF WalkInv, FramesOK
    <3>2. 1 \in 1..Len(stack)
      BY <1>3
    <3> QED
      BY <1>6, <3>1, <3>2
  <2>2. \A k \in 2..Len(stack) : stack[k].node \in 1..Len(sdk)
    BY DEF WalkInv, FramesOK
  <2>3. \A k \in 2..Len(stack') : stack'[k].node \in 1..Len(sdk')
    <3> SUFFICES ASSUME NEW k \in 2..Len(stack') PROVE stack'[k].node \in 1..Len(sdk')
      OBVIOUS
    <3>1. CASE k = Len(stack) + 1
      BY <1>2, <1>4, <1>6, <3>1
    <3>2. CASE k \in 2..Len(stack)
      BY <1>2, <1>3, <1>6, <2>2, <3>2
    <3> QED
      BY <1>3, <1>6, <3>1, <3>2
  <2>4. \A k \in 1..Len(stack') - 1 : stack'[k].todo # <<>>
    BY <1>3, <1>6, <1>7
  <2> QED
    BY <1>6, <2>1, <2>3, <2>4 DEF FramesOK
<1>9. BadIsLast'
  <2> SUFFICES ASSUME NEW k \in 1..Len(stack'), Bad(sdk', stack'[k].node)
               PROVE  stack'[k].todo = <<>> /\ stack'[k].node = Len(sdk')
    BY DEF BadIsLast
  <2>1. CASE k \in 1..Len(stack)
    <3>1. stack'[k].node \in 0..Len(sdk) /\ ~Bad(sdk, stack'[k].node)
      BY <1>3, <1>6, <1>7, <2>1
    <3> QED
      BY <1>2, <3>1
  <2>2. CASE k = Len(stack) + 1
    <3>1. stack'[k].node = Len(sdk) + 1 /\ stack'[k].todo = node.slots
      BY <1>4, <1>6, <2>2
    <3> QED
      BY <1>2, <3>1
  <2> QED
    BY <1>3, <1>6, <2>1, <2>2
<1>10. Top' = f
  BY <1>6, LastFront DEF Top
<1>11. ~Bad(sdk, Top.node) /\ Seen = Len(sdk)
  BY <1>3, <1>7 DEF Seen
<1>12. FirstKept'
  <2>0. \A i \in 1..Seen : (Bad(sdk', i) <=> Bad(sdk, i)) /\ sdk'[i] = sdk[i]
    BY <1>2, <1>11
  <2>1. CASE Bad(sdk', Len(sdk) + 1)
    <3>0. Top'.node = Len(sdk) + 1
      BY <1>4, <1>10
    <3>1. Seen' = Len(sdk') - 1
      BY <2>1, <3>0 DEF Seen
    <3>2. Seen' = Seen
      BY <1>2, <1>11, <3>1
    <3> QED
      BY <1>1, <1>2, <1>11, <2>0, <3>2, FirstKeptMoves
  <2>2. CASE ~Bad(sdk', Len(sdk) + 1)
    <3>1. Seen' = Seen + 1
      BY <1>2, <1>4, <1>10, <1>11, <2>2 DEF Seen
    <3>2. ~Bad(sdk', Seen + 1)
      BY <1>11, <2>2
    <3> QED
      BY <1>1, <1>2, <1>11, <2>0, <3>1, <3>2, FirstKeptGrows
  <2> QED
    BY <2>1, <2>2
<1> QED
  BY <1>8, <1>9, <1>12

\* Taking: the innermost frame, which waits for an operand, gets a handle; the
\* SDK's tree may have grown by a good node.
LEMMA TakingKeeps ==
  ASSUME WalkInv, Walking, NEW h \in Nat, stack' = Taking(stack, h), error' = error,
         \/ sdk' = sdk
         \/ \E node \in SdkNode : /\ FaultOf(node.op, node.data) = "none"
                                  /\ sdk' = Append(sdk, node)
  PROVE  FramesOK' /\ BadIsLast' /\ FirstKept' /\ sdk' \in Seq(SdkNode)
<1>1. sdk \in Seq(SdkNode) /\ stack \in Seq(Frame) /\ stack # <<>> /\ FirstKept
  BY DEF WalkInv, FramesOK
<1>2. /\ Len(stack) \in Nat \ {0} /\ Top = stack[Len(stack)] /\ Len(sdk) \in Nat
      /\ \A k \in 1..Len(stack) : stack[k].todo # <<>> => ~Bad(sdk, stack[k].node)
      /\ \A k \in 1..Len(stack) : stack[k] \in Frame /\ stack[k].node \in 0..Len(sdk)
  BY Waiting
<1>3. stack[Len(stack)].todo # <<>>
  BY <1>2 DEF Walking
<1>4. /\ stack' \in Seq(Frame) /\ Len(stack') = Len(stack) /\ stack' # <<>>
      /\ \A k \in 1..Len(stack) - 1 : stack'[k] = stack[k]
      /\ stack'[Len(stack)].node = stack[Len(stack)].node
  BY <1>1, <1>3, TakingFrames
<1>5. \A k \in 1..Len(stack) : k \in 1..Len(stack) - 1 \/ k = Len(stack)
  BY <1>2
<1>6. \A k \in 1..Len(stack) : /\ stack'[k].node = stack[k].node
                               /\ ~Bad(sdk, stack[k].node)
  <2>1. \A k \in 1..Len(stack) - 1 : stack[k].todo # <<>>
    BY DEF WalkInv, FramesOK
  <2> QED
    BY <1>2, <1>3, <1>4, <1>5, <2>1
<1>7. /\ sdk' \in Seq(SdkNode) /\ Len(sdk') \in Nat /\ Len(sdk) <= Len(sdk')
      /\ \A i \in 0..Len(sdk) : (Bad(sdk', i) <=> Bad(sdk, i)) /\ (i # 0 => sdk'[i] = sdk[i])
      /\ \/ Len(sdk') = Len(sdk)
         \/ Len(sdk') = Len(sdk) + 1 /\ ~Bad(sdk', Len(sdk) + 1)
  <2>1. CASE sdk' = sdk
    <3>1. \A i \in 0..Len(sdk) : (Bad(sdk', i) <=> Bad(sdk, i)) /\ sdk'[i] = sdk[i]
      BY <2>1, Zenon
    <3>2. /\ sdk' \in Seq(SdkNode) /\ Len(sdk') \in Nat /\ Len(sdk) <= Len(sdk')
          /\ Len(sdk') = Len(sdk)
      BY <1>1, <1>2, <2>1
    <3> QED
      BY <3>1, <3>2
  <2>2. CASE \E node \in SdkNode : /\ FaultOf(node.op, node.data) = "none"
                                   /\ sdk' = Append(sdk, node)
    <3>1. PICK node \in SdkNode : FaultOf(node.op, node.data) = "none" /\ sdk' = Append(sdk, node)
      BY <2>2
    <3>2. /\ sdk' \in Seq(SdkNode) /\ Len(sdk') = Len(sdk) + 1
          /\ \A i \in 0..Len(sdk) : (Bad(sdk', i) <=> Bad(sdk, i)) /\ (i # 0 => sdk'[i] = sdk[i])
          /\ ~Bad(sdk', Len(sdk) + 1)
      BY <1>1, <3>1, Grown
    <3> QED
      BY <1>2, <3>2
  <2> QED
    BY <2>1, <2>2
<1>8. FramesOK'
  <2>1. /\ stack[1].node = 0 /\ \A k \in 2..Len(stack) : stack[k].node \in 1..Len(sdk)
        /\ \A k \in 1..Len(stack) - 1 : stack[k].todo # <<>>
    BY DEF WalkInv, FramesOK
  <2>2. stack'[1].node = 0
    BY <1>2, <1>6, <2>1
  <2>3. \A k \in 2..Len(stack') : stack'[k].node \in 1..Len(sdk')
    BY <1>2, <1>4, <1>6, <1>7, <2>1
  <2>4. \A k \in 1..Len(stack') - 1 : stack'[k].todo # <<>>
    BY <1>4, <2>1
  <2> QED
    BY <1>4, <2>2, <2>3, <2>4 DEF FramesOK
<1>9. \A k \in 1..Len(stack') : ~Bad(sdk', stack'[k].node)
  BY <1>2, <1>4, <1>6, <1>7
<1>10. BadIsLast'
  BY <1>9 DEF BadIsLast
<1>11. Top' = stack'[Len(stack)]
  BY <1>4, LastFront DEF Top
<1>12. Seen = Len(sdk) /\ Seen' = Len(sdk')
  <2>1. ~Bad(sdk, Top.node) /\ ~Bad(sdk', Top'.node)
    BY <1>2, <1>4, <1>6, <1>9, <1>11
  <2> QED
    BY <2>1 DEF Seen
<1>13. FirstKept'
  <2>1. \A i \in 1..Seen : (Bad(sdk', i) <=> Bad(sdk, i)) /\ sdk'[i] = sdk[i]
    BY <1>2, <1>7, <1>12
  <2>2. CASE Len(sdk') = Len(sdk)
    <3>1. Seen' = Seen /\ Seen \in Nat
      BY <1>2, <1>12, <2>2
    <3> QED
      BY <1>1, <2>1, <3>1, FirstKeptMoves
  <2>3. CASE Len(sdk') = Len(sdk) + 1 /\ ~Bad(sdk', Len(sdk) + 1)
    <3>1. Seen' = Seen + 1 /\ Seen \in Nat /\ ~Bad(sdk', Seen + 1)
      BY <1>2, <1>12, <2>3
    <3> QED
      BY <1>1, <2>1, <3>1, FirstKeptGrows
  <2> QED
    BY <1>7, <2>2, <2>3
<1> QED
  BY <1>7, <1>8, <1>10, <1>13

\* Minting: the callback of the innermost node runs, and the frame that waited
\* for it gets its handle.
LEMMA MintKeeps ==
  ASSUME WalkInv, Minting, NEW h \in Nat, stack' = Taking(Front(stack), h), sdk' = sdk,
         error' = fail(FaultOf(sdk[Top.node].op, sdk[Top.node].data))
  PROVE  FramesOK' /\ BadIsLast' /\ FirstKept'
<1>1. sdk \in Seq(SdkNode) /\ stack \in Seq(Frame) /\ stack # <<>> /\ FirstKept
  BY DEF WalkInv, FramesOK
<1>2. /\ Len(stack) \in Nat \ {0} /\ Top = stack[Len(stack)] /\ Len(sdk) \in Nat
      /\ \A k \in 1..Len(stack) : stack[k].todo # <<>> => ~Bad(sdk, stack[k].node)
      /\ Bad(sdk, Top.node) => Top.node = Len(sdk)
      /\ \A k \in 1..Len(stack) : stack[k] \in Frame /\ stack[k].node \in 0..Len(sdk)
  BY Waiting
<1>3. /\ stack[1].node = 0 /\ \A k \in 2..Len(stack) : stack[k].node \in 1..Len(sdk)
      /\ \A k \in 1..Len(stack) - 1 : stack[k].todo # <<>>
  BY DEF WalkInv, FramesOK
<1>4. Len(stack) >= 2 /\ Top.node \in 1..Len(sdk)
  BY <1>2, <1>3 DEF Minting
<1>5. PICK f : f = Front(stack)
  OBVIOUS
<1>6. /\ f \in Seq(Frame) /\ Len(f) = Len(stack) - 1 /\ \A k \in 1..Len(f) : f[k] = stack[k]
  BY <1>1, <1>5, LastFront
<1>7. f # <<>> /\ f[Len(f)].todo # <<>> /\ Len(f) \in Nat \ {0}
  BY <1>2, <1>3, <1>4, <1>6
<1>8. stack' = Taking(f, h)
  BY <1>5
<1>9. /\ stack' \in Seq(Frame) /\ Len(stack') = Len(f) /\ stack' # <<>>
      /\ \A k \in 1..Len(f) - 1 : stack'[k] = f[k]
      /\ stack'[Len(f)].node = f[Len(f)].node
  <2>1. /\ Taking(f, h) \in Seq(Frame) /\ Len(Taking(f, h)) = Len(f) /\ Taking(f, h) # <<>>
        /\ \A k \in 1..Len(f) - 1 : Taking(f, h)[k] = f[k]
        /\ Taking(f, h)[Len(f)].node = f[Len(f)].node
    BY <1>6, <1>7, TakingFrames, Zenon
  <2> QED
    BY <1>8, <2>1, Zenon
<1>10. \A k \in 1..Len(f) : stack'[k].node = stack[k].node /\ ~Bad(sdk, stack'[k].node)
  <2>1. \A k \in 1..Len(f) : k \in 1..Len(f) - 1 \/ k = Len(f)
    BY <1>7
  <2>2. \A k \in 1..Len(f) : stack'[k].node = stack[k].node
    BY <1>6, <1>7, <1>9, <2>1
  <2>3. \A k \in 1..Len(f) : k \in 1..Len(stack) /\ k \in 1..Len(stack) - 1
    BY <1>2, <1>6, <1>7
  <2>4. \A k \in 1..Len(f) : ~Bad(sdk, stack[k].node)
    BY <1>2, <1>3, <2>3, Zenon
  <2> QED
    BY <2>2, <2>4, Zenon
<1>11. FramesOK'
  <2>1. stack'[1].node = 0 /\ \A k \in 2..Len(stack') : stack'[k].node \in 1..Len(sdk')
    <3>1. \A k \in 2..Len(stack') : k \in 1..Len(f) /\ k \in 2..Len(stack)
      BY <1>2, <1>6, <1>7, <1>9
    <3>2. 1 \in 1..Len(f)
      BY <1>7
    <3> QED
      BY <1>3, <1>10, <3>1, <3>2, Zenon
  <2>2. \A k \in 1..Len(stack') - 1 : stack'[k].todo # <<>>
    <3>1. Len(stack') - 1 = Len(f) - 1 /\ Len(f) = Len(stack) - 1
      BY <1>6, <1>9
    <3>2. \A k \in 1..Len(f) - 1 : k \in 1..Len(f) /\ k \in 1..Len(stack) - 1
      BY <1>2, <1>6, <1>7
    <3>3. \A k \in 1..Len(f) - 1 : stack'[k] = f[k] /\ f[k] = stack[k] /\ stack[k].todo # <<>>
      BY <1>3, <1>6, <1>9, <3>2, Zenon
    <3> QED
      BY <3>1, <3>3
  <2> QED
    BY <1>9, <2>1, <2>2 DEF FramesOK
<1>12. BadIsLast'
  BY <1>9, <1>10 DEF BadIsLast
<1>13. Seen' = Len(sdk)
  <2>1. Top' = stack'[Len(f)]
    BY <1>9, LastFront DEF Top
  <2>2. ~Bad(sdk', Top'.node)
    BY <1>7, <1>10, <2>1
  <2> QED
    BY <2>2 DEF Seen
<1>14. FirstKept'
  <2>1. CASE ~Bad(sdk, Top.node)
    <3>1. FaultOf(sdk[Top.node].op, sdk[Top.node].data) = "none"
      BY <1>1, <1>4, <2>1 DEF Bad
    <3>2. error' = error
      BY <3>1 DEF fail
    <3>3. Seen' = Seen /\ Seen \in Nat
      BY <1>2, <1>13, <2>1 DEF Seen
    <3>4. \A i \in 1..Seen : (Bad(sdk', i) <=> Bad(sdk, i)) /\ sdk'[i] = sdk[i]
      OBVIOUS
    <3> QED
      BY <1>1, <3>2, <3>3, <3>4, FirstKeptMoves
  <2>2. CASE Bad(sdk, Top.node)
    <3>1. Top.node = Len(sdk) /\ Seen = Len(sdk) - 1
      BY <1>2, <2>2 DEF Seen
    <3>2. CASE error = "none" /\ \A i \in 1..Seen : ~Bad(sdk, i)
      <4>1. error' = FaultOf(sdk[Len(sdk)].op, sdk[Len(sdk)].data)
        BY <3>1, <3>2 DEF fail
      <4>2. Len(sdk) \in 1..Len(sdk) /\ Bad(sdk, Len(sdk)) /\ \A j \in 1..Len(sdk) : j < Len(sdk) => ~Bad(sdk, j)
        BY <1>2, <1>4, <2>2, <3>1, <3>2
      <4> QED
        BY <1>13, <4>1, <4>2 DEF FirstKept
    <3>3. CASE \E i \in 1..Seen : /\ Bad(sdk, i) /\ error = FaultOf(sdk[i].op, sdk[i].data)
                                  /\ \A j \in 1..Seen : j < i => ~Bad(sdk, j)
      <4>1. PICK i \in 1..Seen : /\ Bad(sdk, i) /\ error = FaultOf(sdk[i].op, sdk[i].data)
                                 /\ \A j \in 1..Seen : j < i => ~Bad(sdk, j)
        BY <3>3
      <4>2. error # "none"
        BY <4>1 DEF Bad
      <4>3. error' = error
        BY <4>2 DEF fail
      <4>4. i \in 1..Len(sdk) /\ \A j \in 1..Len(sdk) : j < i => ~Bad(sdk, j)
        BY <1>2, <3>1, <4>1
      <4> QED
        BY <1>13, <4>1, <4>3, <4>4 DEF FirstKept
    <3> QED
      BY <1>1, <3>2, <3>3 DEF FirstKept
  <2> QED
    BY <2>1, <2>2
<1> QED
  BY <1>11, <1>12, <1>14

(***************************************************************************)
(* The outcome.                                                            *)
(***************************************************************************)
\* A step that changes the result to one that is not an outcome, or nothing
\* the outcome depends on once there is one, keeps it.
LEMMA OutcomeStays ==
  ASSUME WalkOutcome,
         \/ result'.is \in {"lvars", "walk", "panic"}
         \/ /\ result' = result /\ sdk' = sdk /\ wide' = wide /\ unfilled' = unfilled
  PROVE  WalkOutcome'
<1>1. CASE result'.is \in {"lvars", "walk", "panic"}
  BY <1>1 DEF WalkOutcome, Done
<1>2. CASE result' = result /\ sdk' = sdk /\ wide' = wide /\ unfilled' = unfilled
  <2>1. NodeFaults' = NodeFaults /\ (Done' <=> Done)
    BY <1>2 DEF NodeFaults, Done
  <2> QED
    BY <1>2, <2>1 DEF WalkOutcome
<1> QED
  BY <1>1, <1>2

\* Finish: the frame of the walk is the only one left, so the failure kept is
\* that of the first bad node of the whole tree.
LEMMA FinishOutcome ==
  ASSUME WalkInv, Finish
  PROVE  WalkOutcome'
<1>1. /\ sdk \in Seq(SdkNode) /\ FirstKept /\ Len(sdk) \in Nat
  BY Waiting DEF WalkInv
<1>2. Seen = Len(sdk)
  <2>1. Top.node = 0
    BY DEF Finish
  <2>2. ~Bad(sdk, Top.node)
    BY <2>1, Waiting
  <2> QED
    BY <2>2 DEF Seen
<1>3. \A i : i \in NodeFaults <=> i \in 1..Len(sdk) /\ Bad(sdk, i)
  BY <1>1 DEF NodeFaults, Bad
<1>4. sdk' = sdk /\ wide' = wide /\ unfilled' = unfilled /\ NodeFaults' = NodeFaults
  BY DEF Finish, faults, NodeFaults
<1>5. CASE error = "none" /\ \A i \in 1..Seen : ~Bad(sdk, i)
  <2>1. NodeFaults = {}
    BY <1>2, <1>3, <1>5
  <2>2. \/ wide /\ result' = [is |-> "Err", e |-> "ScalarTooWide"]
        \/ ~wide /\ unfilled # 0 /\ result' = [is |-> "Err", e |-> "UnfilledType"]
        \/ ~wide /\ unfilled = 0 /\ result' = [is |-> "panic"]
        \/ ~wide /\ unfilled = 0 /\ result' = [is |-> "Ok", root |-> Top.got[1]]
    BY <1>5, Zenon DEF Finish
  <2>3. \/ wide' /\ result'.is = "Err" /\ result'.e = "ScalarTooWide"
        \/ ~wide' /\ unfilled' # 0 /\ result'.is = "Err" /\ result'.e = "UnfilledType"
        \/ result'.is = "panic"
        \/ ~wide' /\ unfilled' = 0 /\ result'.is = "Ok"
    BY <1>4, <2>2
  <2> QED
    BY <1>4, <2>1, <2>3 DEF WalkOutcome
<1>6. CASE \E i \in 1..Seen : /\ Bad(sdk, i) /\ error = FaultOf(sdk[i].op, sdk[i].data)
                              /\ \A j \in 1..Seen : j < i => ~Bad(sdk, j)
  <2>1. PICK i \in 1..Seen : /\ Bad(sdk, i) /\ error = FaultOf(sdk[i].op, sdk[i].data)
                             /\ \A j \in 1..Seen : j < i => ~Bad(sdk, j)
    BY <1>6
  <2>2. error # "none"
    BY <2>1 DEF Bad
  <2>3. result' = [is |-> "Err", e |-> error]
    BY <2>2, Zenon DEF Finish
  <2>4. i \in NodeFaults /\ \A j \in NodeFaults : i <= j
    BY <1>1, <1>2, <1>3, <2>1
  <2>5. \A m \in NodeFaults : (\A j \in NodeFaults : m <= j) => m = i
    BY <1>1, <1>3, <2>4
  <2>6. (CHOOSE m \in NodeFaults : \A j \in NodeFaults : m <= j) = i
    BY <2>4, <2>5, Zenon
  <2>7. result'.is = "Err" /\ result'.e = FaultOf(sdk[i].op, sdk[i].data)
    BY <2>1, <2>3
  <2>8. NodeFaults # {}
    BY <2>4
  <2>9. LET m == CHOOSE m \in NodeFaults' : \A j \in NodeFaults' : m <= j
        IN  result'.e = FaultOf(sdk'[m].op, sdk'[m].data)
    BY <1>4, <2>6, <2>7, Zenon
  <2> QED
    BY <1>4, <2>7, <2>8, <2>9, Zenon DEF WalkOutcome
<1> QED
  BY <1>1, <1>5, <1>6 DEF FirstKept

\* The data of a node, and the length of its list.
LEMMA InputTypes ==
  ASSUME input \in Inputs
  PROVE  /\ input.exprs \subseteq 0..99 /\ (\A op \in input.exprs : ~IsStmt(op)) /\ input.stmts \subseteq 0..99 /\ input.eas \subseteq Nat
         /\ \A op \in input.stmts : IsStmt(op)
         /\ \A op : Fan(op) \subseteq Nat
<1>1. /\ input.exprs \subseteq 0..69 \cup 85..99 /\ input.stmts \subseteq 70..84 /\ input.eas \subseteq Nat
      /\ input.fan \in Nat
  BY InputsAssumption
<1>2. 0..input.fan \subseteq Nat /\ {0} \subseteq Nat
  BY <1>1
<1>3. \A op : Fan(op) \subseteq Nat
  BY <1>2 DEF Fan
<1> QED
  BY <1>1, <1>3 DEF IsStmt

\* The walk starts at its own frame with no node met.
LEMMA WalkInvInit == Init => WalkInv
<1> SUFFICES ASSUME Init PROVE WalkInv
  OBVIOUS
<1>1. /\ input \in Inputs /\ sdk = <<>> /\ exprs = <<>> /\ stmts = <<>> /\ error = "none"
      /\ stack = <<[node |-> 0, todo |-> <<"b">>, got |-> <<>>]>> /\ result = [is |-> "lvars"]
  BY DEF Init
<1>2. <<>> \in Seq(SdkNode) /\ Len(sdk) = 0
  BY <1>1
<1>3. IsSeq(exprs) /\ IsSeq(stmts)
  BY <1>1, <1>2, IsSeqIntro
<1>4. <<"b">> \in Seq(SlotKind) /\ <<"b">> # <<>>
  BY DEF SlotKind
<1>5. /\ stack \in Seq(Frame) /\ Len(stack) = 1 /\ stack # <<>>
      /\ stack[1].node = 0 /\ stack[1].todo # <<>>
  BY <1>1, <1>4 DEF Frame
<1>6. FramesOK
  BY <1>5 DEF FramesOK
<1>7. \A i : ~Bad(sdk, i)
  BY <1>1 DEF Bad
<1>8. BadIsLast
  BY <1>7 DEF BadIsLast
<1>9. Seen = 0
  BY <1>2, <1>7 DEF Seen
<1>10. FirstKept
  BY <1>1, <1>7, <1>9 DEF FirstKept
<1>11. WalkOutcome
  BY <1>1 DEF WalkOutcome, Done
<1> QED
  BY <1>1, <1>2, <1>3, <1>6, <1>8, <1>10, <1>11 DEF WalkInv

\* A step that leaves the walk's own state alone.
LEMMA Idle ==
  ASSUME WalkInv, UNCHANGED <<input, sdk, stack, exprs, stmts, error>>, WalkOutcome'
  PROVE  WalkInv'
<1>1. FramesOK' /\ BadIsLast'
  BY DEF WalkInv, FramesOK, BadIsLast
<1>2. Seen' = Seen
  BY DEF Seen, Top
<1>3. FirstKept'
  BY <1>2 DEF WalkInv, FirstKept
<1> QED
  BY <1>1, <1>3 DEF WalkInv

\* A visited expression is the last node met; if it is bad it has nothing to visit.
LEMMA ExprStep ==
  ASSUME WalkInv, NEW op \in input.exprs, NEW ea \in input.eas, NEW ty \in Types,
         NEW n \in Fan(op), NEW data \in DataOf(op, 0), Expr(op, n, ea, ty, data)
  PROVE  WalkInv'
<1> DEFINE node == [op |-> op, ea |-> ea, slots |-> ExprSlots(op, n), data |-> data, opt |-> Slot]
<1>1. /\ Walking /\ Slot \in {"e", "oe"} /\ Reveal(node) /\ Enter(node) /\ result' = result
      /\ input' = input /\ exprs' = exprs /\ stmts' = stmts /\ error' = error
  BY DEF Expr, arenas
<1>2. op \in 0..99 /\ ~IsStmt(op) /\ ea \in Nat /\ n \in Nat /\ 0 \in Nat
  BY InputTypes DEF WalkInv
<1>3. ExprSlots(op, n) \in Seq(SlotKind)
  BY <1>2, ExprSlotsType
<1>4. data \in Data
  BY <1>2 DEF Data
<1>5. node \in SdkNode
  BY <1>1, <1>2, <1>3, <1>4 DEF SdkNode, SlotKind
<1>6. FaultOf(node.op, node.data) # "none" => node.slots = <<>>
  BY <1>2, BadHasNoOperands
<1> HIDE DEF node
<1>7. sdk' = Append(sdk, node)
  BY <1>1 DEF Reveal
<1>8. FramesOK' /\ BadIsLast' /\ FirstKept'
  BY <1>1, <1>5, <1>6, <1>7, EnterKeeps
<1>9. sdk' \in Seq(SdkNode)
  BY <1>5, <1>7 DEF WalkInv
<1>10. WalkOutcome'
  <2>1. result'.is = "walk"
    BY <1>1 DEF Walking
  <2> QED
    BY <2>1, OutcomeStays DEF WalkInv
<1> QED
  BY <1>1, <1>8, <1>9, <1>10 DEF WalkInv

\* The same of a visited statement.
LEMMA StmtStep ==
  ASSUME WalkInv, NEW op \in input.stmts, NEW ea \in input.eas,
         NEW n \in Fan(op), NEW data \in DataOf(op, n), Stmt(op, n, ea, data)
  PROVE  WalkInv'
<1> DEFINE node == [op |-> op, ea |-> ea, slots |-> StmtSlots(op, n), data |-> data, opt |-> Slot]
<1>1. /\ Walking /\ Slot \in {"s", "os", "b"} /\ Reveal(node) /\ Enter(node) /\ result' = result
      /\ input' = input /\ exprs' = exprs /\ stmts' = stmts /\ error' = error
  BY DEF Stmt, arenas, faults
<1>2. op \in 0..99 /\ ea \in Nat /\ n \in Nat /\ IsStmt(op)
  BY InputTypes DEF WalkInv
<1>3. StmtSlots(op, n) \in Seq(SlotKind)
  BY <1>2, StmtSlotsType
<1>4. data \in Data
  BY <1>2 DEF Data
<1>5. node \in SdkNode
  BY <1>1, <1>2, <1>3, <1>4 DEF SdkNode, SlotKind
<1>6. FaultOf(node.op, node.data) # "none" => node.slots = <<>>
  BY <1>2, BadHasNoOperands
<1> HIDE DEF node
<1>7. sdk' = Append(sdk, node)
  BY <1>1 DEF Reveal
<1>8. FramesOK' /\ BadIsLast' /\ FirstKept'
  BY <1>1, <1>5, <1>6, <1>7, EnterKeeps
<1>9. sdk' \in Seq(SdkNode)
  BY <1>5, <1>7 DEF WalkInv
<1>10. WalkOutcome'
  <2>1. result'.is = "walk"
    BY <1>1 DEF Walking
  <2> QED
    BY <2>1, OutcomeStays DEF WalkInv
<1> QED
  BY <1>1, <1>8, <1>9, <1>10 DEF WalkInv

\* An operand the gap visitor elides adds no node.
LEMMA OptExprStep ==
  ASSUME WalkInv, NEW ea \in input.eas, OptExpr(ea)
  PROVE  WalkInv'
<1> DEFINE node == [op |-> cot.empty, ea |-> ea, slots |-> <<>>, data |-> <<>>, opt |-> "oe"]
<1>1. /\ Walking /\ Reveal(node) /\ stack' = Taking(stack, NONE) /\ result' = result
      /\ input' = input /\ exprs' = exprs /\ stmts' = stmts /\ error' = error
  BY DEF OptExpr, arenas, faults
<1>2. cot.empty = 0 /\ ea \in Nat /\ NONE \in Nat
  BY InputTypes DEF WalkInv, cot, NONE
<1>3. <<>> \in Data
  <2>1. /\ 0 # cot.obj /\ 0 # cit.asm_ /\ 0 # cit.switch_
    BY DEF cot, cit
  <2>2. <<>> \in DataOf(0, 0)
    BY <2>1, Zenon DEF DataOf
  <2> QED
    BY <2>2 DEF Data
<1>4. node \in SdkNode
  BY <1>2, <1>3 DEF SdkNode, SlotKind
<1>5. FaultOf(node.op, node.data) = "none"
  BY <1>2 DEF FaultOf, cot, cit
<1> HIDE DEF node
<1>6. sdk' = Append(sdk, node)
  BY <1>1 DEF Reveal
<1>7. FramesOK' /\ BadIsLast' /\ FirstKept' /\ sdk' \in Seq(SdkNode)
  BY <1>1, <1>2, <1>4, <1>5, <1>6, TakingKeeps
<1>8. WalkOutcome'
  <2>1. result'.is = "walk"
    BY <1>1 DEF Walking
  <2> QED
    BY <2>1, OutcomeStays DEF WalkInv
<1> QED
  BY <1>1, <1>7, <1>8 DEF WalkInv

\* Nor does an absent else.
LEMMA NoElseStep ==
  ASSUME WalkInv, NoElse
  PROVE  WalkInv'
<1>1. /\ Walking /\ sdk' = sdk /\ stack' = Taking(stack, NONE) /\ result' = result
      /\ input' = input /\ exprs' = exprs /\ stmts' = stmts /\ error' = error
  BY DEF NoElse, arenas, faults
<1>2. NONE \in Nat
  BY DEF NONE
<1>3. FramesOK' /\ BadIsLast' /\ FirstKept' /\ sdk' \in Seq(SdkNode)
  BY <1>1, <1>2, TakingKeeps
<1>4. WalkOutcome'
  <2>1. result'.is = "walk"
    BY <1>1 DEF Walking
  <2> QED
    BY <2>1, OutcomeStays DEF WalkInv
<1> QED
  BY <1>1, <1>3, <1>4 DEF WalkInv

\* Minting a node tells whether it is bad, and keeps an earlier failure.
LEMMA MintStep ==
  ASSUME WalkInv, MintExpression \/ MintStatement
  PROVE  WalkInv'
<1>1. /\ Minting /\ sdk' = sdk /\ result' = result /\ input' = input
      /\ error' = fail(FaultOf(sdk[Top.node].op, sdk[Top.node].data))
  BY DEF MintExpression, MintStatement
<1>2. IsSeq(exprs) /\ IsSeq(stmts)
  BY DEF WalkInv
<1>3. Len(exprs) \in Nat /\ Len(stmts) \in Nat
  BY <1>2, IsSeqAppend
<1>4. \E h \in Nat : stack' = Taking(Front(stack), h)
  <2>1. Handle(exprs) \in Nat /\ Handle(stmts) \in Nat
    BY <1>3 DEF Handle
  <2> QED
    BY <2>1, Zenon DEF MintExpression, MintStatement
<1>5. IsSeq(exprs') /\ IsSeq(stmts')
  <2>1. /\ exprs' = exprs \/ \E v : exprs' = Append(exprs, v)
        /\ stmts' = stmts \/ \E v : stmts' = Append(stmts, v)
    BY Zenon DEF MintExpression, MintStatement, push, alloc
  <2> QED
    BY <1>2, <2>1, IsSeqAppend
<1>6. FramesOK' /\ BadIsLast' /\ FirstKept'
  BY <1>1, <1>4, MintKeeps
<1>7. WalkOutcome'
  <2>1. result'.is = "walk"
    BY <1>1 DEF Minting
  <2> QED
    BY <2>1, OutcomeStays DEF WalkInv
<1> QED
  BY <1>1, <1>5, <1>6, <1>7 DEF WalkInv

\* Every step keeps the invariant of the walk.
LEMMA WalkInvStep == WalkInv /\ [Next]_vars => WalkInv'
<1> SUFFICES ASSUME WalkInv, [Next]_vars PROVE WalkInv'
  OBVIOUS
<1>1. ASSUME NEW atype \in Atype, NEW ea \in {BADADDR, 1}, NEW ty \in Types, NEW arg \in BOOLEAN,
             NEW pieces, Lvar(atype, pieces, ea, ty, arg)
      PROVE  WalkInv'
  <2>1. UNCHANGED <<input, sdk, stack, exprs, stmts, error>> /\ result.is = "lvars"
    BY <1>1 DEF Lvar
  <2>2. result' = [is |-> "panic"] \/ result' = result
    BY <1>1, Zenon DEF Lvar
  <2>3. result'.is \in {"lvars", "walk", "panic"}
    BY <2>1, <2>2
  <2>4. WalkOutcome'
    BY <2>3, OutcomeStays DEF WalkInv
  <2> QED
    BY <2>1, <2>4, Idle
<1>2. CASE Body
  <2>1. UNCHANGED <<input, sdk, stack, exprs, stmts, error>> /\ result'.is = "walk"
    BY <1>2 DEF Body, arenas, faults
  <2>2. WalkOutcome'
    BY <2>1, OutcomeStays DEF WalkInv
  <2> QED
    BY <2>1, <2>2, Idle
<1>3. CASE Finish
  <2>1. UNCHANGED <<input, sdk, stack, exprs, stmts, error>>
    BY <1>3 DEF Finish, arenas, faults
  <2> QED
    BY <1>3, <2>1, FinishOutcome, Idle
<1>4. CASE UNCHANGED vars
  <2>1. UNCHANGED <<input, sdk, stack, exprs, stmts, error, result, wide, unfilled>>
    BY <1>4 DEF vars, arenas, faults
  <2>2. WalkOutcome'
    BY <2>1, OutcomeStays DEF WalkInv
  <2> QED
    BY <2>1, <2>2, Idle
<1> QED
  BY <1>1, <1>2, <1>3, <1>4, ExprStep, OptExprStep, StmtStep, NoElseStep, MintStep, Zenon DEF Next

\* The walk reports the first bad node a visitor meets, or else the defect of
\* a type, and returns a tree only without one: for every tree, and although
\* the callbacks run in the other order (CallbackBuilder::fail and finish).
THEOREM WalkReportsFirst == Spec => []WalkOutcome
<1>1. WalkInv => WalkOutcome
  BY DEF WalkInv
<1> QED
  BY <1>1, WalkInvInit, WalkInvStep, PTL DEF Spec

(***************************************************************************)
(* The kinds minted: each is one of the kinds of node, and its children are *)
(* the handles the callback got.                                           *)
(***************************************************************************)
\* What MintExpression and MintStatement mint.
ExprKindOf(op, got, data) ==
  CASE op \in Leaves -> LeafKind(op, data # <<BADADDR>>)
    [] op \in Places -> PlaceKind(op, got)
    [] OTHER -> classify(op, got)

StmtKindOf(op, got, data) ==
  IF op \in {cit.block_, cit.expr_, cit.if_, cit.for_, cit.while_, cit.do_}
  THEN LoopKind(op, got) ELSE ExitKind(op, got, data)

Uses(op) == {u \in 1..3 : <<op_uses_x(op), op_uses_y(op), op_uses_z(op)>>[u]}

\* A set of the first few positions.
LEMMA Firsts ==
  ASSUME NEW A, A \subseteq 1..3, NEW n \in 0..3,
         1 \in A <=> 1 <= n, 2 \in A <=> 2 <= n, 3 \in A <=> 3 <= n
  PROVE  Cardinality(A) = n
<1>1. A = 1..n
  <2>1. \A u \in 1..3 : u \in A <=> u \in 1..n
    OBVIOUS
  <2>2. 1..n \subseteq 1..3
    OBVIOUS
  <2>3. \A u : u \in A <=> u \in 1..n
    BY <2>1, <2>2, Zenon
  <2> QED
    BY <2>3, Zenon
<1>2. Cardinality(1..n) = n
  <2>1. 1 \in Int /\ n \in Int /\ n - 1 + 1 = n /\ (1 > n => n = 0)
    OBVIOUS
  <2>2. Cardinality(1..n) = IF 1 > n THEN 0 ELSE n - 1 + 1
    BY <2>1, FS_Interval, Zenon
  <2> QED
    BY <2>1, <2>2
<1> QED
  BY <1>1, <1>2

\* The operands an operator uses are its first ones.
LEMMA UsesCount ==
  ASSUME NEW op \in 0..99, NEW n \in 0..3,
         \/ op \in 1..15 \cup 17..45 \cup {58} /\ n = 2
         \/ op = 16 /\ n = 3
         \/ op \in 46..57 \cup {59, 60, 67} /\ n = 1
         \/ op \in {0, 66, 69} \cup 85..99 /\ n = 0
  PROVE  Cardinality(Uses(op)) = n
<1>1. /\ op_uses_x(op) <=> op \in 1..60 \cup {67}
      /\ op_uses_y(op) <=> op \in 1..45 \cup {58}
      /\ op_uses_z(op) <=> op = 16
  BY DEF op_uses_x, op_uses_y, op_uses_z, cot
<1>2. (op_uses_x(op) <=> 1 <= n) /\ (op_uses_y(op) <=> 2 <= n) /\ (op_uses_z(op) <=> 3 <= n)
  BY <1>1
<1>3. /\ <<op_uses_x(op), op_uses_y(op), op_uses_z(op)>>[1] = op_uses_x(op)
      /\ <<op_uses_x(op), op_uses_y(op), op_uses_z(op)>>[2] = op_uses_y(op)
      /\ <<op_uses_x(op), op_uses_y(op), op_uses_z(op)>>[3] = op_uses_z(op)
  OBVIOUS
<1>4. 1 \in 1..3 /\ 2 \in 1..3 /\ 3 \in 1..3
  OBVIOUS
<1>5. /\ 1 \in Uses(op) <=> op_uses_x(op)
      /\ 2 \in Uses(op) <=> op_uses_y(op)
      /\ 3 \in Uses(op) <=> op_uses_z(op)
  BY <1>3, <1>4, Zenon DEF Uses
<1>6. Uses(op) \subseteq 1..3
  BY Zenon DEF Uses
<1>7. PICK A : A = Uses(op)
  OBVIOUS
<1>8. A \subseteq 1..3 /\ (1 \in A <=> 1 <= n) /\ (2 \in A <=> 2 <= n) /\ (3 \in A <=> 3 <= n)
  BY <1>2, <1>5, <1>6, <1>7
<1>9. Cardinality(A) = n
  BY <1>8, Firsts
<1> QED
  BY <1>7, <1>9

\* How many operands an expression has; all are expressions.
LEMMA ExprArity ==
  ASSUME NEW op \in 0..99, ~IsStmt(op), NEW m \in Nat
  PROVE  /\ op \in Leaves => ExprSlots(op, m) = Times(0, "e")
         /\ op = 57 => ExprSlots(op, m) = Times(m + 1, "e")
         /\ op \in 1..15 \cup 17..45 \cup {58} => ExprSlots(op, m) = Times(2, "e")
         /\ op = 16 => ExprSlots(op, m) = Times(3, "e")
         /\ op \in 46..56 \cup {59, 60, 67} => ExprSlots(op, m) = Times(1, "e")
         /\ op \in {0, 66, 69} \cup 85..99 => ExprSlots(op, m) = Times(0, "e")
<1>1. op \in Leaves <=> op \in 61..65 \cup {68}
  BY DEF Leaves, cot
<1>2. op = cot.call <=> op = 57
  BY DEF cot
<1>3. Times(0, "e") = <<>>
  BY DEF Times
<1>4. op \in Leaves => ExprSlots(op, m) = <<>>
  <2>1. op \in Leaves => op # cot.call
    BY <1>1, <1>2
  <2> QED
    BY <2>1, Zenon DEF ExprSlots
<1>5. op = 57 => ExprSlots(op, m) = Times(m + 1, "e")
  <2>1. op = 57 => op \notin Leaves
    BY <1>1
  <2> QED
    BY <1>2, <2>1, Zenon DEF ExprSlots
<1>6. op \notin Leaves /\ op # 57 => ExprSlots(op, m) = Times(Cardinality(Uses(op)), "e")
  BY <1>2, Zenon DEF ExprSlots, Uses
<1>7. op \in 1..15 \cup 17..45 \cup {58} => ExprSlots(op, m) = Times(2, "e")
  <2> HAVE op \in 1..15 \cup 17..45 \cup {58}
  <2>1. op \notin Leaves /\ op # 57
    BY <1>1
  <2>2. Cardinality(Uses(op)) = 2
    BY UsesCount
  <2> QED
    BY <1>6, <2>1, <2>2
<1>8. op = 16 => ExprSlots(op, m) = Times(3, "e")
  <2> HAVE op = 16
  <2>1. op \notin Leaves /\ op # 57
    BY <1>1
  <2>2. Cardinality(Uses(op)) = 3
    BY UsesCount
  <2> QED
    BY <1>6, <2>1, <2>2
<1>9. op \in 46..56 \cup {59, 60, 67} => ExprSlots(op, m) = Times(1, "e")
  <2> HAVE op \in 46..56 \cup {59, 60, 67}
  <2>1. op \notin Leaves /\ op # 57
    BY <1>1
  <2>2. Cardinality(Uses(op)) = 1
    BY UsesCount
  <2> QED
    BY <1>6, <2>1, <2>2
<1>10. op \in {0, 66, 69} \cup 85..99 => ExprSlots(op, m) = Times(0, "e")
  <2> HAVE op \in {0, 66, 69} \cup 85..99
  <2>1. op \notin Leaves /\ op # 57
    BY <1>1
  <2>2. Cardinality(Uses(op)) = 0
    BY UsesCount
  <2> QED
    BY <1>6, <2>1, <2>2
<1> QED
  BY <1>3, <1>4, <1>5, <1>7, <1>8, <1>9, <1>10

\* A slot repeated is that many of that slot.
LEMMA TimesIs ==
  ASSUME NEW n \in Nat, NEW s
  PROVE  Len(Times(n, s)) = n /\ \A i \in 1..n : Times(n, s)[i] = s
  BY DEF Times

\* The children of each shape of expression.
LEMMA PairChildren ==
  ASSUME NEW kind, NEW a, NEW b,
         \/ kind.k \in {"Binary", "Assign"} /\ kind.x = a /\ kind.y = b
         \/ kind.k = "Index" /\ kind.array = a /\ kind.index = b
  PROVE  ExprChildren(kind) = <<E(a), E(b)>> /\ kind.k \in ExpressionKind
<1>1. ExprChildren(kind) = <<E(a), E(b)>>
  BY Zenon DEF ExprChildren
<1> QED
  BY <1>1 DEF ExpressionKind

\* The operand of an expression with one.
LEMMA SingleChild ==
  ASSUME NEW kind, NEW a,
         \/ kind.k \in {"Unary", "Cast", "Deref", "Sizeof"} /\ kind.x = a
         \/ kind.k \in {"MemberRef", "MemberPtr"} /\ kind.obj = a
  PROVE  ExprChildren(kind) = <<E(a)>> /\ kind.k \in ExpressionKind
<1>1. ExprChildren(kind) = <<E(a)>>
  BY Zenon DEF ExprChildren
<1> QED
  BY <1>1 DEF ExpressionKind

\* Leaves have no child.
LEMMA NoChildren ==
  ASSUME NEW kind, kind.k \in {"Num", "Fnum", "Str", "Obj", "Var", "Helper", "TypeExpression", "Empty", "Internal"}
  PROVE  ExprChildren(kind) = <<>> /\ kind.k \in ExpressionKind
<1>1. ExprChildren(kind) = <<>>
  BY Zenon DEF ExprChildren
<1> QED
  BY <1>1 DEF ExpressionKind

AllE(got) == [i \in 1..Len(got) |-> E(got[i])]

\* What an expression is minted as: its class by its operator.
IsClassified(op, got, kind) ==
  /\ op \in Leaves => kind.k \in {"Num", "Fnum", "Str", "Obj", "Var", "Helper", "Empty"}
  /\ op = 57 => kind = [k |-> "Call", callee |-> got[1], args |-> Tail(got)]
  /\ op \in 1..15 \cup 17..45 => kind.k \in {"Binary", "Assign"} /\ kind.x = got[1] /\ kind.y = got[2]
  /\ op = 58 => kind.k = "Index" /\ kind.array = got[1] /\ kind.index = got[2]
  /\ op = 16 => kind = [k |-> "Ternary", cond |-> got[1], then_ |-> got[2], else_ |-> got[3]]
  /\ op \in {59, 60} => kind.k \in {"MemberRef", "MemberPtr"} /\ kind.obj = got[1]
  /\ op \in 46..56 \cup {67} => kind.k \in {"Unary", "Cast", "Deref", "Sizeof"} /\ kind.x = got[1]
  /\ op \in {0, 66, 69} \cup 85..99 => kind.k \in {"TypeExpression", "Empty", "Internal"}

\* The children of a classified expression are the handles it was given, in order.
LEMMA Classified ==
  ASSUME NEW op \in 0..99, ~IsStmt(op), NEW got, NEW data
  PROVE  IsClassified(op, got, ExprKindOf(op, got, data))
<1> DEFINE kind == ExprKindOf(op, got, data)
<1>1. /\ op \in Leaves <=> op \in 61..65 \cup {68}
      /\ op \in Places <=> op \in {51, 57, 59, 60}
  BY DEF Leaves, Places, cot
<1>2. /\ cot.insn = 66 /\ cot.tern = 16 /\ cot.cast = 48 /\ cot.idx = 58 /\ cot.sizeof = 67 /\ cot.empty = 0
      /\ cot.type = 69 /\ cot.call = 57 /\ cot.memref = 59 /\ cot.memptr = 60 /\ cot.ptr = 51
      /\ cot.num = 61 /\ cot.fnum = 62 /\ cot.str = 63 /\ cot.obj = 64 /\ cot.var = 65 /\ cot.helper = 68
  BY DEF cot
<1>3. /\ op \in AssignmentOp <=> op \in 2..15
      /\ op \in BinaryOp <=> op = 1 \/ op \in 17..45
      /\ op \in UnaryOp <=> op \in 46..56 /\ op # 48 /\ op # 51
  BY DEF AssignmentOp, BinaryOp, UnaryOp
<1>4. op \in Leaves => kind = LeafKind(op, data # <<BADADDR>>)
  <2>1. op \in Leaves => op \notin Places
    BY <1>1
  <2> QED
    BY <2>1, Zenon DEF ExprKindOf
<1>5. op \in Places => kind = PlaceKind(op, got)
  <2>1. op \in Places => op \notin Leaves
    BY <1>1
  <2> QED
    BY <2>1, Zenon DEF ExprKindOf
<1>6. op \notin Leaves /\ op \notin Places => kind = classify(op, got)
  BY Zenon DEF ExprKindOf
<1>7. op \in Leaves => kind.k \in {"Num", "Fnum", "Str", "Obj", "Var", "Helper", "Empty"}
  <2> HAVE op \in Leaves
  <2>1. op = cot.num \/ op = cot.fnum \/ op = cot.str \/ op = cot.obj \/ op = cot.var \/ op = cot.helper
    BY DEF Leaves
  <2>2. /\ cot.num # cot.fnum /\ cot.num # cot.str /\ cot.num # cot.obj /\ cot.num # cot.var /\ cot.num # cot.helper
        /\ cot.fnum # cot.str /\ cot.fnum # cot.obj /\ cot.fnum # cot.var /\ cot.fnum # cot.helper
        /\ cot.str # cot.obj /\ cot.str # cot.var /\ cot.str # cot.helper
        /\ cot.obj # cot.var /\ cot.obj # cot.helper /\ cot.var # cot.helper
    BY <1>2
  <2>3. \/ kind = [k |-> "Num"] \/ kind = [k |-> "Fnum"] \/ kind = [k |-> "Str"] \/ kind = [k |-> "Var"]
        \/ kind = [k |-> "Helper"] \/ kind = [k |-> IF data # <<BADADDR>> THEN "Obj" ELSE "Empty"]
    <3> HIDE DEF kind
    <3>1. CASE op = cot.num
      BY <1>4, <2>2, <3>1, Zenon DEF LeafKind
    <3>2. CASE op = cot.fnum
      BY <1>4, <2>2, <3>2, Zenon DEF LeafKind
    <3>3. CASE op = cot.str
      BY <1>4, <2>2, <3>3, Zenon DEF LeafKind
    <3>4. CASE op = cot.obj
      BY <1>4, <2>2, <3>4, Zenon DEF LeafKind
    <3>5. CASE op = cot.var
      BY <1>4, <2>2, <3>5, Zenon DEF LeafKind
    <3>6. CASE op = cot.helper
      BY <1>4, <2>2, <3>6, Zenon DEF LeafKind
    <3> QED
      BY <2>1, <3>1, <3>2, <3>3, <3>4, <3>5, <3>6, Zenon
  <2> HIDE DEF kind
  <2> QED
    BY <2>3
<1>8. op = 57 => kind = [k |-> "Call", callee |-> got[1], args |-> Tail(got)]
  <2> HAVE op = 57
  <2>1. op \in Places /\ op = cot.call /\ op # cot.memref /\ op # cot.memptr /\ op # cot.ptr
    BY <1>1, <1>2
  <2> QED
    BY <1>5, <2>1, Zenon DEF PlaceKind
<1>9. op \in {59, 60} => kind.k \in {"MemberRef", "MemberPtr"} /\ kind.obj = got[1]
  <2> HAVE op \in {59, 60}
  <2>1. op \in Places /\ op # cot.call /\ op # cot.ptr
    BY <1>1, <1>2
  <2>2. op = cot.memref \/ op = cot.memptr
    BY <1>2
  <2>3. cot.memref # cot.memptr
    BY <1>2
  <2>4. kind = [k |-> "MemberRef", obj |-> got[1]] \/ kind = [k |-> "MemberPtr", obj |-> got[1]]
    BY <1>5, <2>1, <2>2, <2>3, Zenon DEF PlaceKind
  <2> HIDE DEF kind
  <2> QED
    BY <2>4
<1>10. op \in 1..15 \cup 17..45 => kind.k \in {"Binary", "Assign"} /\ kind.x = got[1] /\ kind.y = got[2]
  <2> HAVE op \in 1..15 \cup 17..45
  <2>1. /\ op \notin Leaves /\ op \notin Places /\ op # cot.insn /\ op \notin UnaryOp /\ op # cot.tern /\ op # cot.cast
        /\ op # cot.idx /\ op # cot.sizeof /\ op # cot.empty /\ op # cot.type
    BY <1>1, <1>2, <1>3
  <2>2. (op \in AssignmentOp /\ op \notin BinaryOp) \/ (op \in BinaryOp /\ op \notin AssignmentOp)
    BY <1>3
  <2>3. \/ kind = [k |-> "Assign", op |-> op, x |-> got[1], y |-> got[2]]
        \/ kind = [k |-> "Binary", op |-> op, x |-> got[1], y |-> got[2]]
    BY <1>6, <2>1, <2>2, Zenon DEF classify
  <2> HIDE DEF kind
  <2> QED
    BY <2>3
<1>11. op = 58 => kind.k = "Index" /\ kind.array = got[1] /\ kind.index = got[2]
  <2> HAVE op = 58
  <2>1. /\ op \notin Leaves /\ op \notin Places /\ op # cot.insn /\ op \notin UnaryOp /\ op # cot.tern /\ op # cot.cast
        /\ op = cot.idx /\ op # cot.sizeof /\ op # cot.empty /\ op # cot.type /\ op \notin AssignmentOp /\ op \notin BinaryOp
    BY <1>1, <1>2, <1>3
  <2>2. kind = [k |-> "Index", array |-> got[1], index |-> got[2]]
    BY <1>6, <2>1, Zenon DEF classify
  <2> HIDE DEF kind
  <2> QED
    BY <2>2
<1>12. op = 16 => kind = [k |-> "Ternary", cond |-> got[1], then_ |-> got[2], else_ |-> got[3]]
  <2> HAVE op = 16
  <2>1. /\ op \notin Leaves /\ op \notin Places /\ op # cot.insn /\ op \notin UnaryOp /\ op = cot.tern /\ op # cot.cast
        /\ op # cot.idx /\ op # cot.sizeof /\ op # cot.empty /\ op # cot.type /\ op \notin AssignmentOp /\ op \notin BinaryOp
    BY <1>1, <1>2, <1>3
  <2> QED
    BY <1>6, <2>1, Zenon DEF classify
<1>13. op \in 46..56 \cup {67} => kind.k \in {"Unary", "Cast", "Deref", "Sizeof"} /\ kind.x = got[1]
  <2> HAVE op \in 46..56 \cup {67}
  <2>1. CASE op = 51
    <3>1. op \in Places /\ op # cot.call /\ op # cot.memref /\ op # cot.memptr /\ op = cot.ptr
      BY <1>1, <1>2, <2>1
    <3>2. kind = [k |-> "Deref", x |-> got[1]]
      BY <1>5, <3>1, Zenon DEF PlaceKind
    <3> HIDE DEF kind
    <3> QED
      BY <3>2
  <2>2. CASE op # 51
    <3>1. /\ op \notin Leaves /\ op \notin Places /\ op # cot.insn /\ op # cot.tern
          /\ op # cot.idx /\ op # cot.empty /\ op # cot.type /\ op \notin AssignmentOp /\ op \notin BinaryOp
      BY <1>1, <1>2, <1>3, <2>2
    <3>2. \/ op \in UnaryOp /\ op # cot.cast /\ op # cot.sizeof
          \/ op \notin UnaryOp /\ op = cot.cast /\ op # cot.sizeof
          \/ op \notin UnaryOp /\ op # cot.cast /\ op = cot.sizeof
      BY <1>2, <1>3, <2>2
    <3>3. \/ kind = [k |-> "Unary", op |-> op, x |-> got[1]] \/ kind = [k |-> "Cast", x |-> got[1]]
          \/ kind = [k |-> "Sizeof", x |-> got[1]]
      BY <1>6, <3>1, <3>2, Zenon DEF classify
    <3> HIDE DEF kind
    <3> QED
      BY <3>3
  <2> QED
    BY <2>1, <2>2
<1>14. op \in {0, 66, 69} \cup 85..99 => kind.k \in {"TypeExpression", "Empty", "Internal"}
  <2> HAVE op \in {0, 66, 69} \cup 85..99
  <2>1. /\ op \notin Leaves /\ op \notin Places /\ op \notin UnaryOp /\ op # cot.tern /\ op # cot.cast
        /\ op # cot.idx /\ op # cot.sizeof /\ op \notin AssignmentOp /\ op \notin BinaryOp
        /\ cot.insn # cot.empty /\ cot.insn # cot.type /\ cot.empty # cot.type
    BY <1>1, <1>2, <1>3
  <2>2. kind = [k |-> "Internal"] \/ kind = [k |-> "Empty"] \/ kind = [k |-> "TypeExpression"]
    BY <1>6, <2>1, Zenon DEF classify
  <2> HIDE DEF kind
  <2> QED
    BY <2>2
<1> HIDE DEF kind
<1>15. IsClassified(op, got, kind)
  BY <1>7, <1>8, <1>9, <1>10, <1>11, <1>12, <1>13, <1>14, Zenon DEF IsClassified
<1> QED
  BY <1>15, Zenon DEF kind

\* Sequences of known lengths, written out.
LEMMA WrittenOut ==
  ASSUME NEW got \in Seq(Nat)
  PROVE  /\ Len(got) = 0 => AllE(got) = <<>>
         /\ Len(got) = 1 => AllE(got) = <<E(got[1])>>
         /\ Len(got) = 2 => AllE(got) = <<E(got[1]), E(got[2])>>
         /\ Len(got) = 3 => AllE(got) = <<E(got[1]), E(got[2]), E(got[3])>>
<1>1. \A i \in 1..Len(got) : AllE(got)[i] = E(got[i])
  BY DEF AllE
<1>2. AllE(got) = [i \in 1..Len(got) |-> E(got[i])] /\ Len(got) \in Nat
  BY DEF AllE
<1>3. ASSUME Len(got) = 0 PROVE AllE(got) = <<>>
  BY <1>2, <1>3
<1>4. ASSUME Len(got) = 1 PROVE AllE(got) = <<E(got[1])>>
  BY <1>2, <1>4
<1>5. ASSUME Len(got) = 2 PROVE AllE(got) = <<E(got[1]), E(got[2])>>
  BY <1>2, <1>5
<1>6. ASSUME Len(got) = 3 PROVE AllE(got) = <<E(got[1]), E(got[2]), E(got[3])>>
  BY <1>2, <1>6
<1> QED
  BY <1>3, <1>4, <1>5, <1>6

\* A reference before the references of the rest.
ConsIs(got, a, tag) ==
  <<a>> \o [i \in DOMAIN Tail(got) |-> <<tag, Tail(got)[i]>>]
  = [i \in 1..Len(got) |-> IF i = 1 THEN a ELSE <<tag, got[i]>>]

\* The handles of a list after its head, by their kinds of slot.
LEMMA ConsRefs ==
  ASSUME NEW got \in Seq(Nat), got # <<>>, NEW a, NEW tag
  PROVE  ConsIs(got, a, tag)
<1>1. PICK t : t = Tail(got)
  OBVIOUS
<1>2. PICK n \in Nat : n = Len(t)
  BY <1>1
<1>3. t \in Seq(Nat) /\ Len(got) = n + 1 /\ DOMAIN t = 1..n /\ \A i \in 1..n : t[i] \in Nat /\ t[i] = got[i + 1]
  BY <1>1, <1>2
<1>4. PICK es : es = [i \in DOMAIN t |-> <<tag, t[i]>>]
  OBVIOUS
<1>5. PICK X : X = {<<tag, k>> : k \in Nat} \cup {a}
  OBVIOUS
<1>6. es \in Seq(X) /\ Len(es) = n /\ \A i \in 1..n : es[i] = <<tag, got[i + 1]>>
  <2>1. \A i \in 1..n : es[i] = <<tag, t[i]>> /\ <<tag, t[i]>> \in X
    BY <1>3, <1>4, <1>5
  <2>2. es \in [1..n -> X]
    BY <1>3, <1>4, <2>1
  <2>3. es \in Seq(X) /\ Len(es) = n
    BY <2>2
  <2> QED
    BY <1>3, <2>1, <2>3
<1>7. PICK c : c = <<a>> \o es
  OBVIOUS
<1>8. <<a>> \in Seq(X)
  BY <1>5
<1>9. c \in Seq(X) /\ Len(c) = n + 1 /\ c[1] = a /\ \A i \in 1..n : c[i + 1] = es[i]
  BY <1>6, <1>7, <1>8
<1>10. \A i \in 1..n + 1 : c[i] = IF i = 1 THEN a ELSE <<tag, got[i]>>
  <2> SUFFICES ASSUME NEW i \in 1..n + 1 PROVE c[i] = IF i = 1 THEN a ELSE <<tag, got[i]>>
    OBVIOUS
  <2>1. CASE i = 1
    BY <1>9, <2>1
  <2>2. CASE i # 1
    <3>1. i - 1 \in 1..n /\ (i - 1) + 1 = i
      BY <2>2
    <3>2. c[i] = es[i - 1] /\ es[i - 1] = <<tag, got[i]>>
      BY <1>6, <1>9, <3>1
    <3> QED
      BY <2>2, <3>2
  <2> QED
    BY <2>1, <2>2
<1>11. c = [i \in 1..n + 1 |-> c[i]]
  BY <1>9
<1>12. c = [i \in 1..Len(got) |-> IF i = 1 THEN a ELSE <<tag, got[i]>>]
  BY <1>3, <1>10, <1>11
<1> QED
  BY <1>1, <1>4, <1>7, <1>12 DEF ConsIs

\* A call holds its callee and then its arguments.
LEMMA CallChildren ==
  ASSUME NEW got \in Seq(Nat), got # <<>>, NEW kind,
         kind = [k |-> "Call", callee |-> got[1], args |-> Tail(got)]
  PROVE  ExprChildren(kind) = AllE(got) /\ kind.k \in ExpressionKind
<1>1. kind.k = "Call" /\ kind.callee = got[1] /\ kind.args = Tail(got)
  OBVIOUS
<1>2. ExprChildren(kind) = <<E(kind.callee)>> \o [i \in DOMAIN kind.args |-> E(kind.args[i])]
  BY <1>1, Zenon DEF ExprChildren
<1>3. <<E(got[1])>> \o [i \in DOMAIN Tail(got) |-> E(Tail(got)[i])]
      = [i \in 1..Len(got) |-> IF i = 1 THEN E(got[1]) ELSE E(got[i])]
  <2>1. PICK a : a = E(got[1])
    OBVIOUS
  <2>2. ConsIs(got, a, "e")
    BY ConsRefs
  <2> QED
    BY <2>1, <2>2, Zenon DEF E, ConsIs
<1>4. [i \in 1..Len(got) |-> IF i = 1 THEN E(got[1]) ELSE E(got[i])] = AllE(got)
  BY DEF AllE
<1> QED
  BY <1>1, <1>2, <1>3, <1>4 DEF ExpressionKind

\* A ternary holds its three operands.
LEMMA TernaryChildren ==
  ASSUME NEW a, NEW b, NEW c, NEW kind, kind = [k |-> "Ternary", cond |-> a, then_ |-> b, else_ |-> c]
  PROVE  ExprChildren(kind) = <<E(a), E(b), E(c)>> /\ kind.k \in ExpressionKind
<1>1. kind.k = "Ternary" /\ kind.cond = a /\ kind.then_ = b /\ kind.else_ = c
  OBVIOUS
<1>2. ExprChildren(kind) = <<E(kind.cond), E(kind.then_), E(kind.else_)>>
  BY <1>1, Zenon DEF ExprChildren
<1> QED
  BY <1>1, <1>2 DEF ExpressionKind

\* The children of an expression are the operands it was minted from.
LEMMA ExprOperands ==
  ASSUME NEW op \in 0..99, ~IsStmt(op), NEW m \in Nat, NEW data,
         NEW got \in Seq(Nat), Len(got) = Len(ExprSlots(op, m))
  PROVE  /\ ExprKindOf(op, got, data).k \in ExpressionKind
         /\ ExprChildren(ExprKindOf(op, got, data)) = AllE(got)
         /\ \A i \in 1..Len(got) : ExprSlots(op, m)[i] = "e"
<1>1. PICK kind : kind = ExprKindOf(op, got, data)
  OBVIOUS
<1>2. /\ op \in Leaves => kind.k \in {"Num", "Fnum", "Str", "Obj", "Var", "Helper", "Empty"}
      /\ op = 57 => kind = [k |-> "Call", callee |-> got[1], args |-> Tail(got)]
      /\ op \in 1..15 \cup 17..45 => kind.k \in {"Binary", "Assign"} /\ kind.x = got[1] /\ kind.y = got[2]
      /\ op = 58 => kind.k = "Index" /\ kind.array = got[1] /\ kind.index = got[2]
      /\ op = 16 => kind = [k |-> "Ternary", cond |-> got[1], then_ |-> got[2], else_ |-> got[3]]
      /\ op \in {59, 60} => kind.k \in {"MemberRef", "MemberPtr"} /\ kind.obj = got[1]
      /\ op \in 46..56 \cup {67} => kind.k \in {"Unary", "Cast", "Deref", "Sizeof"} /\ kind.x = got[1]
      /\ op \in {0, 66, 69} \cup 85..99 => kind.k \in {"TypeExpression", "Empty", "Internal"}
  <2>1. IsClassified(op, got, kind)
    BY <1>1, Classified
  <2> QED
    BY <2>1, Zenon DEF IsClassified
<1>3. PICK n \in Nat : /\ ExprSlots(op, m) = Times(n, "e")
                       /\ op \in Leaves => n = 0
                       /\ op = 57 => n = m + 1
                       /\ op \in 1..15 \cup 17..45 \cup {58} => n = 2
                       /\ op = 16 => n = 3
                       /\ op \in 46..56 \cup {59, 60, 67} => n = 1
                       /\ op \in {0, 66, 69} \cup 85..99 => n = 0
  <2>1. /\ op \in Leaves => ExprSlots(op, m) = Times(0, "e")
        /\ op = 57 => ExprSlots(op, m) = Times(m + 1, "e")
        /\ op \in 1..15 \cup 17..45 \cup {58} => ExprSlots(op, m) = Times(2, "e")
        /\ op = 16 => ExprSlots(op, m) = Times(3, "e")
        /\ op \in 46..56 \cup {59, 60, 67} => ExprSlots(op, m) = Times(1, "e")
        /\ op \in {0, 66, 69} \cup 85..99 => ExprSlots(op, m) = Times(0, "e")
    BY ExprArity
  <2>2. op \in Leaves <=> op \in 61..65 \cup {68}
    BY DEF Leaves, cot
  <2>3. \/ op \in Leaves \/ op = 57 \/ op \in 1..15 \cup 17..45 \cup {58} \/ op = 16
        \/ op \in 46..56 \cup {59, 60, 67} \/ op \in {0, 66, 69} \cup 85..99
    BY <2>2 DEF IsStmt
  <2>4. CASE op \in Leaves
    BY <2>1, <2>2, <2>4
  <2>5. CASE op = 57
    BY <2>1, <2>2, <2>5
  <2>6. CASE op \in 1..15 \cup 17..45 \cup {58}
    BY <2>1, <2>2, <2>6
  <2>7. CASE op = 16
    BY <2>1, <2>2, <2>7
  <2>8. CASE op \in 46..56 \cup {59, 60, 67}
    BY <2>1, <2>2, <2>8
  <2>9. CASE op \in {0, 66, 69} \cup 85..99
    BY <2>1, <2>2, <2>9
  <2> QED
    BY <2>3, <2>4, <2>5, <2>6, <2>7, <2>8, <2>9
<1>4. Len(got) = n /\ \A i \in 1..Len(got) : ExprSlots(op, m)[i] = "e"
  BY <1>3, TimesIs
<1>5. kind.k \in ExpressionKind /\ ExprChildren(kind) = AllE(got)
  <2>1. CASE op \in Leaves \/ op \in {0, 66, 69} \cup 85..99
    <3>1. Len(got) = 0
      BY <1>3, <1>4, <2>1
    <3>2. kind.k \in {"Num", "Fnum", "Str", "Obj", "Var", "Helper", "TypeExpression", "Empty", "Internal"}
      BY <1>2, <2>1
    <3>3. ExprChildren(kind) = <<>> /\ kind.k \in ExpressionKind
      BY <3>2, NoChildren
    <3> QED
      BY <3>1, <3>3, WrittenOut
  <2>2. CASE op = 57
    <3>1. got # <<>>
      BY <1>3, <1>4, <2>2
    <3> QED
      BY <1>2, <2>2, <3>1, CallChildren
  <2>3. CASE op \in 1..15 \cup 17..45 \cup {58}
    <3>1. Len(got) = 2
      BY <1>3, <1>4, <2>3
    <3>2. \/ kind.k \in {"Binary", "Assign"} /\ kind.x = got[1] /\ kind.y = got[2]
          \/ kind.k = "Index" /\ kind.array = got[1] /\ kind.index = got[2]
      BY <1>2, <2>3
    <3>3. ExprChildren(kind) = <<E(got[1]), E(got[2])>> /\ kind.k \in ExpressionKind
      BY <3>2, PairChildren
    <3> QED
      BY <3>1, <3>3, WrittenOut
  <2>4. CASE op = 16
    <3>1. Len(got) = 3
      BY <1>3, <1>4, <2>4
    <3>2. ExprChildren(kind) = <<E(got[1]), E(got[2]), E(got[3])>> /\ kind.k \in ExpressionKind
      BY <1>2, <2>4, TernaryChildren
    <3> QED
      BY <3>1, <3>2, WrittenOut
  <2>5. CASE op \in 46..56 \cup {59, 60, 67}
    <3>1. Len(got) = 1
      BY <1>3, <1>4, <2>5
    <3>2. \/ kind.k \in {"Unary", "Cast", "Deref", "Sizeof"} /\ kind.x = got[1]
          \/ kind.k \in {"MemberRef", "MemberPtr"} /\ kind.obj = got[1]
      BY <1>2, <2>5
    <3>3. ExprChildren(kind) = <<E(got[1])>> /\ kind.k \in ExpressionKind
      BY <3>2, SingleChild
    <3> QED
      BY <3>1, <3>3, WrittenOut
  <2>6. op \in Leaves <=> op \in 61..65 \cup {68}
    BY DEF Leaves, cot
  <2>7. \/ op \in Leaves \/ op \in {0, 66, 69} \cup 85..99 \/ op = 57 \/ op \in 1..15 \cup 17..45 \cup {58}
        \/ op = 16 \/ op \in 46..56 \cup {59, 60, 67}
    BY <2>6 DEF IsStmt
  <2> QED
    BY <2>1, <2>2, <2>3, <2>4, <2>5, <2>7
<1> QED
  BY <1>1, <1>4, <1>5

RefOf(slot, h) == IF slot \in {"e", "oe"} THEN E(h) ELSE S(h)
AllRefs(slots, got) == [i \in 1..Len(got) |-> RefOf(slots[i], got[i])]

\* One handle per slot, and one for every slot that must be filled.
Filled(slots, got) ==
  /\ got \in Seq(Nat) /\ Len(got) = Len(slots)
  /\ \A i \in 1..Len(got) : got[i] = NONE => slots[i] \in {"oe", "os"}

\* The children are the handles of the first k slots that are not NONE, each
\* at a position of its own.
CarriedBy(ch, slots, got, k, p) ==
  /\ p \in [1..Len(ch) -> 1..k]
  /\ \A i \in 1..Len(ch) : got[p[i]] # NONE /\ ch[i] = RefOf(slots[p[i]], got[p[i]])
  /\ \A i, j \in 1..Len(ch) : p[i] = p[j] => i = j
  /\ \A j \in 1..k : got[j] # NONE => \E i \in 1..Len(ch) : p[i] = j

Carries(ch, slots, got, k) == IsSeq(ch) /\ \E p : CarriedBy(ch, slots, got, k, p)

\* Every slot up to k is filled.
LEMMA CarriesAll ==
  ASSUME NEW slots, NEW got, NEW k \in Nat, \A i \in 1..k : got[i] # NONE,
         NEW ch, ch = [i \in 1..k |-> RefOf(slots[i], got[i])]
  PROVE  Carries(ch, slots, got, k)
<1>1. PICK X : X = {RefOf(slots[i], got[i]) : i \in 1..k}
  OBVIOUS
<1>2. ch \in [1..k -> X]
  BY <1>1
<1>3. ch \in Seq(X) /\ Len(ch) = k
  BY <1>2
<1>4. IsSeq(ch)
  BY <1>3, IsSeqIntro
<1>5. PICK p : p = [i \in 1..k |-> i]
  OBVIOUS
<1>6. p \in [1..k -> 1..k] /\ \A i \in 1..k : p[i] = i /\ ch[i] = RefOf(slots[i], got[i])
  BY <1>5
<1>7. CarriedBy(ch, slots, got, k, p)
  BY <1>3, <1>6 DEF CarriedBy
<1> QED
  BY <1>4, <1>7 DEF Carries

\* One more slot, which may be empty.
LEMMA CarriesNext ==
  ASSUME NEW slots, NEW got, NEW k \in Nat, NEW ch, Carries(ch, slots, got, k), NEW o,
         o = IF got[k + 1] = NONE THEN <<>> ELSE <<RefOf(slots[k + 1], got[k + 1])>>
  PROVE  Carries(ch \o o, slots, got, k + 1)
<1>1. PICK p : CarriedBy(ch, slots, got, k, p)
  BY DEF Carries
<1>2. PICK d : d = RefOf(slots[k + 1], got[k + 1])
  OBVIOUS
<1>3. PICK X : X = {ch[i] : i \in DOMAIN ch} \cup {d}
  OBVIOUS
<1>4. ch \in Seq(X) /\ Len(ch) \in Nat
  <2>1. ch \in Seq({ch[i] : i \in DOMAIN ch})
    BY DEF Carries, IsSeq
  <2> QED
    BY <1>3, <2>1
<1>5. PICK n \in Nat : n = Len(ch)
  BY <1>4
<1>6. /\ p \in [1..n -> 1..k]
      /\ \A i \in 1..n : got[p[i]] # NONE /\ ch[i] = RefOf(slots[p[i]], got[p[i]])
      /\ \A i, j \in 1..n : p[i] = p[j] => i = j
      /\ \A j \in 1..k : got[j] # NONE => \E i \in 1..n : p[i] = j
  BY <1>1, <1>5 DEF CarriedBy
<1>7. \A j \in 1..k + 1 : j \in 1..k \/ j = k + 1
  OBVIOUS
<1>8. CASE got[k + 1] = NONE
  <2>1. ch \o o = ch
    BY <1>4, <1>8
  <2>2. p \in [1..n -> 1..k + 1]
    BY <1>6
  <2>3. \A j \in 1..k + 1 : got[j] # NONE => \E i \in 1..n : p[i] = j
    BY <1>6, <1>7, <1>8
  <2>4. CarriedBy(ch, slots, got, k + 1, p)
    BY <1>5, <1>6, <2>2, <2>3 DEF CarriedBy
  <2> QED
    BY <2>1, <2>4 DEF Carries
<1>9. CASE got[k + 1] # NONE
  <2>1. PICK c : c = ch \o <<d>>
    OBVIOUS
  <2>2. /\ c \in Seq(X) /\ Len(c) = n + 1 /\ c[n + 1] = d /\ \A i \in 1..n : c[i] = ch[i]
    BY <1>3, <1>4, <1>5, <2>1
  <2>3. PICK q : q = [i \in 1..n + 1 |-> IF i = n + 1 THEN k + 1 ELSE p[i]]
    OBVIOUS
  <2>4. q[n + 1] = k + 1 /\ \A i \in 1..n : q[i] = p[i] /\ p[i] \in 1..k
    BY <1>6, <2>3
  <2>5. \A i \in 1..n + 1 : i \in 1..n \/ i = n + 1
    OBVIOUS
  <2>6. q \in [1..n + 1 -> 1..k + 1]
    <3>1. \A i \in 1..n + 1 : (IF i = n + 1 THEN k + 1 ELSE p[i]) \in 1..k + 1
      BY <1>6, <2>5
    <3> QED
      BY <2>3, <3>1
  <2>7. \A i \in 1..n + 1 : got[q[i]] # NONE /\ c[i] = RefOf(slots[q[i]], got[q[i]])
    BY <1>2, <1>6, <1>9, <2>2, <2>4, <2>5
  <2>8. \A i, j \in 1..n + 1 : q[i] = q[j] => i = j
    <3> SUFFICES ASSUME NEW i \in 1..n + 1, NEW j \in 1..n + 1, q[i] = q[j] PROVE i = j
      OBVIOUS
    <3>1. CASE i = n + 1 /\ j = n + 1
      BY <3>1
    <3>2. CASE i \in 1..n /\ j \in 1..n
      BY <1>6, <2>4, <3>2
    <3>3. CASE i \in 1..n /\ j = n + 1
      BY <2>4, <3>3
    <3>4. CASE i = n + 1 /\ j \in 1..n
      BY <2>4, <3>4
    <3> QED
      BY <2>5, <3>1, <3>2, <3>3, <3>4
  <2>9. \A j \in 1..k + 1 : got[j] # NONE => \E i \in 1..n + 1 : q[i] = j
    <3> SUFFICES ASSUME NEW j \in 1..k + 1, got[j] # NONE PROVE \E i \in 1..n + 1 : q[i] = j
      OBVIOUS
    <3>1. CASE j = k + 1
      BY <2>4, <3>1
    <3>2. CASE j \in 1..k
      <4>1. PICK i \in 1..n : p[i] = j
        BY <1>6, <3>2
      <4> QED
        BY <2>4, <4>1
    <3> QED
      BY <1>7, <3>1, <3>2
  <2>10. CarriedBy(c, slots, got, k + 1, q)
    BY <2>2, <2>6, <2>7, <2>8, <2>9 DEF CarriedBy
  <2>11. IsSeq(c)
    BY <2>2, IsSeqIntro
  <2>12. ch \o o = c
    BY <1>2, <1>9, <2>1
  <2> QED
    BY <2>10, <2>11, <2>12 DEF Carries
<1> QED
  BY <1>8, <1>9

\* The operators of statements, as numbers.
LEMMA Cits ==
  /\ cit.empty_ = 70 /\ cit.block_ = 71 /\ cit.expr_ = 72 /\ cit.if_ = 73 /\ cit.for_ = 74 /\ cit.while_ = 75
  /\ cit.do_ = 76 /\ cit.switch_ = 77 /\ cit.break_ = 78 /\ cit.continue_ = 79 /\ cit.return_ = 80
  /\ cit.goto_ = 81 /\ cit.asm_ = 82 /\ cit.try_ = 83 /\ cit.throw_ = 84
  BY DEF cit

\* The slots of a statement.
LEMMA StmtSlotsAre ==
  ASSUME NEW op \in 70..84, NEW m \in Nat
  PROVE  /\ op = 71 => StmtSlots(op, m) = Times(m, "s")
         /\ op = 72 => StmtSlots(op, m) = <<"e">>
         /\ op = 73 => StmtSlots(op, m) = <<"e", "s", "os">>
         /\ op = 74 => StmtSlots(op, m) = <<"oe", "oe", "oe", "s">>
         /\ op = 75 => StmtSlots(op, m) = <<"e", "s">>
         /\ op = 76 => StmtSlots(op, m) = <<"s", "e">>
         /\ op = 77 => StmtSlots(op, m) = <<"e">> \o Times(m, "s")
         /\ op \in {80, 84} => StmtSlots(op, m) = <<"oe">>
         /\ op = 83 => StmtSlots(op, m) = Times(m + 1, "b")
         /\ op \in {70, 78, 79, 81, 82} => StmtSlots(op, m) = <<>>
<1>0. /\ op = cit.block_ <=> op = 71
      /\ op = cit.expr_ <=> op = 72
      /\ op = cit.if_ <=> op = 73
      /\ op = cit.for_ <=> op = 74
      /\ op = cit.while_ <=> op = 75
      /\ op = cit.do_ <=> op = 76
      /\ op = cit.switch_ <=> op = 77
      /\ op \in {cit.return_, cit.throw_} <=> op \in {80, 84}
      /\ op = cit.try_ <=> op = 83
  BY Cits
<1> DEFINE Only(b1, b2, b3, b4, b5, b6, b7, b8, b9) ==
      /\ op = cit.block_ <=> b1
      /\ op = cit.expr_ <=> b2
      /\ op = cit.if_ <=> b3
      /\ op = cit.for_ <=> b4
      /\ op = cit.while_ <=> b5
      /\ op = cit.do_ <=> b6
      /\ op = cit.switch_ <=> b7
      /\ op \in {cit.return_, cit.throw_} <=> b8
      /\ op = cit.try_ <=> b9
<1>1. op = 71 => StmtSlots(op, m) = Times(m, "s")
  <2> HAVE op = 71
  <2>1. Only(TRUE, FALSE, FALSE, FALSE, FALSE, FALSE, FALSE, FALSE, FALSE)
    BY <1>0
  <2> QED
    BY <2>1, Zenon DEF StmtSlots
<1>2. op = 72 => StmtSlots(op, m) = <<"e">>
  <2> HAVE op = 72
  <2>1. Only(FALSE, TRUE, FALSE, FALSE, FALSE, FALSE, FALSE, FALSE, FALSE)
    BY <1>0
  <2> QED
    BY <2>1, Zenon DEF StmtSlots
<1>3. op = 73 => StmtSlots(op, m) = <<"e", "s", "os">>
  <2> HAVE op = 73
  <2>1. Only(FALSE, FALSE, TRUE, FALSE, FALSE, FALSE, FALSE, FALSE, FALSE)
    BY <1>0
  <2> QED
    BY <2>1, Zenon DEF StmtSlots
<1>4. op = 74 => StmtSlots(op, m) = <<"oe", "oe", "oe", "s">>
  <2> HAVE op = 74
  <2>1. Only(FALSE, FALSE, FALSE, TRUE, FALSE, FALSE, FALSE, FALSE, FALSE)
    BY <1>0
  <2> QED
    BY <2>1, Zenon DEF StmtSlots
<1>5. op = 75 => StmtSlots(op, m) = <<"e", "s">>
  <2> HAVE op = 75
  <2>1. Only(FALSE, FALSE, FALSE, FALSE, TRUE, FALSE, FALSE, FALSE, FALSE)
    BY <1>0
  <2> QED
    BY <2>1, Zenon DEF StmtSlots
<1>6. op = 76 => StmtSlots(op, m) = <<"s", "e">>
  <2> HAVE op = 76
  <2>1. Only(FALSE, FALSE, FALSE, FALSE, FALSE, TRUE, FALSE, FALSE, FALSE)
    BY <1>0
  <2> QED
    BY <2>1, Zenon DEF StmtSlots
<1>7. op = 77 => StmtSlots(op, m) = <<"e">> \o Times(m, "s")
  <2> HAVE op = 77
  <2>1. Only(FALSE, FALSE, FALSE, FALSE, FALSE, FALSE, TRUE, FALSE, FALSE)
    BY <1>0
  <2> QED
    BY <2>1, Zenon DEF StmtSlots
<1>8. op \in {80, 84} => StmtSlots(op, m) = <<"oe">>
  <2> HAVE op \in {80, 84}
  <2>1. Only(FALSE, FALSE, FALSE, FALSE, FALSE, FALSE, FALSE, TRUE, FALSE)
    BY <1>0
  <2> QED
    BY <2>1, Zenon DEF StmtSlots
<1>9. op = 83 => StmtSlots(op, m) = Times(m + 1, "b")
  <2> HAVE op = 83
  <2>1. Only(FALSE, FALSE, FALSE, FALSE, FALSE, FALSE, FALSE, FALSE, TRUE)
    BY <1>0
  <2> QED
    BY <2>1, Zenon DEF StmtSlots
<1>10. op \in {70, 78, 79, 81, 82} => StmtSlots(op, m) = <<>>
  <2> HAVE op \in {70, 78, 79, 81, 82}
  <2>1. Only(FALSE, FALSE, FALSE, FALSE, FALSE, FALSE, FALSE, FALSE, FALSE)
    BY <1>0
  <2> QED
    BY <2>1, Zenon DEF StmtSlots
<1> QED
  BY <1>1, <1>2, <1>3, <1>4, <1>5, <1>6, <1>7, <1>8, <1>9, <1>10, Zenon

\* What a statement is minted as.
IsMinted(op, got, kind) ==
  /\ op = 71 => kind = [k |-> "Block", stmts |-> got]
  /\ op = 72 => kind = [k |-> "Expression", e |-> got[1]]
  /\ op = 73 => kind = [k |-> "If", cond |-> got[1], then_ |-> got[2], else_ |-> got[3]]
  /\ op = 74 => kind = [k |-> "For", init |-> got[1], cond |-> got[2], step |-> got[3], body |-> got[4]]
  /\ op = 75 => kind = [k |-> "While", cond |-> got[1], body |-> got[2]]
  /\ op = 76 => kind = [k |-> "Do", body |-> got[1], cond |-> got[2]]
  /\ op = 77 => kind.k = "Switch" /\ kind.e = got[1] /\ kind.bodies = Tail(got)
  /\ op \in {80, 84} => kind.k \in {"Return", "Throw"} /\ kind.e = got[1]
  /\ op = 83 => kind = [k |-> "Try", body |-> got[1], catches |-> Tail(got)]
  /\ op \in {70, 78, 79, 81, 82} => kind.k \in {"Empty", "Break", "Continue", "Goto", "Asm"}

\* The children of a minted statement are the handles it was given, in order.
LEMMA Minted ==
  ASSUME NEW op \in 70..84, NEW got, NEW data
  PROVE  IsMinted(op, got, StmtKindOf(op, got, data))
<1> DEFINE kind == StmtKindOf(op, got, data)
<1>1. /\ op \in 71..76 => kind = LoopKind(op, got)
      /\ op \in 77..84 \cup {70} => kind = ExitKind(op, got, data)
  <2>1. op \in {cit.block_, cit.expr_, cit.if_, cit.for_, cit.while_, cit.do_} <=> op \in 71..76
    BY Cits
  <2>2. op \in 77..84 \cup {70} => op \notin 71..76
    OBVIOUS
  <2> QED
    BY <2>1, <2>2, Zenon DEF StmtKindOf
<1> DEFINE Loop(b1, b2, b3, b4, b5, b6) ==
      /\ op = cit.block_ <=> b1
      /\ op = cit.expr_ <=> b2
      /\ op = cit.if_ <=> b3
      /\ op = cit.for_ <=> b4
      /\ op = cit.while_ <=> b5
      /\ op = cit.do_ <=> b6
<1> HIDE DEF kind
<1>2. op = 71 => kind = [k |-> "Block", stmts |-> got]
  <2> HAVE op = 71
  <2>1. Loop(TRUE, FALSE, FALSE, FALSE, FALSE, FALSE) /\ op \in 71..76
    BY Cits
  <2> QED
    BY <1>1, <2>1, Zenon DEF LoopKind
<1>3. op = 72 => kind = [k |-> "Expression", e |-> got[1]]
  <2> HAVE op = 72
  <2>1. Loop(FALSE, TRUE, FALSE, FALSE, FALSE, FALSE) /\ op \in 71..76
    BY Cits
  <2> QED
    BY <1>1, <2>1, Zenon DEF LoopKind
<1>4. op = 73 => kind = [k |-> "If", cond |-> got[1], then_ |-> got[2], else_ |-> got[3]]
  <2> HAVE op = 73
  <2>1. Loop(FALSE, FALSE, TRUE, FALSE, FALSE, FALSE) /\ op \in 71..76
    BY Cits
  <2> QED
    BY <1>1, <2>1, Zenon DEF LoopKind
<1>5. op = 74 => kind = [k |-> "For", init |-> got[1], cond |-> got[2], step |-> got[3], body |-> got[4]]
  <2> HAVE op = 74
  <2>1. Loop(FALSE, FALSE, FALSE, TRUE, FALSE, FALSE) /\ op \in 71..76
    BY Cits
  <2> QED
    BY <1>1, <2>1, Zenon DEF LoopKind
<1>6. op = 75 => kind = [k |-> "While", cond |-> got[1], body |-> got[2]]
  <2> HAVE op = 75
  <2>1. Loop(FALSE, FALSE, FALSE, FALSE, TRUE, FALSE) /\ op \in 71..76
    BY Cits
  <2> QED
    BY <1>1, <2>1, Zenon DEF LoopKind
<1>7. op = 76 => kind = [k |-> "Do", body |-> got[1], cond |-> got[2]]
  <2> HAVE op = 76
  <2>1. Loop(FALSE, FALSE, FALSE, FALSE, FALSE, TRUE) /\ op \in 71..76
    BY Cits
  <2> QED
    BY <1>1, <2>1, Zenon DEF LoopKind
<1> DEFINE Exit(b1, b2, b3, b4, b5, b6, b7, b8) ==
      /\ op = cit.switch_ <=> b1
      /\ op = cit.return_ <=> b2
      /\ op = cit.throw_ <=> b3
      /\ op = cit.goto_ <=> b4
      /\ op = cit.asm_ <=> b5
      /\ op = cit.try_ <=> b6
      /\ op = cit.break_ <=> b7
      /\ op = cit.continue_ <=> b8
<1>8. op = 77 => kind.k = "Switch" /\ kind.e = got[1] /\ kind.bodies = Tail(got)
  <2> HAVE op = 77
  <2>1. Exit(TRUE, FALSE, FALSE, FALSE, FALSE, FALSE, FALSE, FALSE) /\ op \in 77..84 \cup {70}
    BY Cits
  <2>2. PICK v : v = SplitValues([i \in 1..Len(data) |-> Len(data[i])], FlattenSeq(data))
    OBVIOUS
  <2>3. kind = [k |-> "Switch", e |-> got[1], bodies |-> Tail(got), values |-> v]
    BY <1>1, <2>1, <2>2, Zenon DEF ExitKind
  <2> QED
    BY <2>3
<1>9. op \in {80, 84} => kind.k \in {"Return", "Throw"} /\ kind.e = got[1]
  <2> HAVE op \in {80, 84}
  <2>1. /\ op \in 77..84 \cup {70}
        /\ \/ Exit(FALSE, TRUE, FALSE, FALSE, FALSE, FALSE, FALSE, FALSE)
           \/ Exit(FALSE, FALSE, TRUE, FALSE, FALSE, FALSE, FALSE, FALSE)
    BY Cits
  <2>2. kind = [k |-> "Return", e |-> got[1]] \/ kind = [k |-> "Throw", e |-> got[1]]
    BY <1>1, <2>1, Zenon DEF ExitKind
  <2> QED
    BY <2>2
<1>10. op = 83 => kind = [k |-> "Try", body |-> got[1], catches |-> Tail(got)]
  <2> HAVE op = 83
  <2>1. Exit(FALSE, FALSE, FALSE, FALSE, FALSE, TRUE, FALSE, FALSE) /\ op \in 77..84 \cup {70}
    BY Cits
  <2> QED
    BY <1>1, <2>1, Zenon DEF ExitKind
<1>11. op \in {70, 78, 79, 81, 82} => kind.k \in {"Empty", "Break", "Continue", "Goto", "Asm"}
  <2> HAVE op \in {70, 78, 79, 81, 82}
  <2>1. /\ op \in 77..84 \cup {70}
        /\ \/ Exit(FALSE, FALSE, FALSE, TRUE, FALSE, FALSE, FALSE, FALSE)
           \/ Exit(FALSE, FALSE, FALSE, FALSE, TRUE, FALSE, FALSE, FALSE)
           \/ Exit(FALSE, FALSE, FALSE, FALSE, FALSE, FALSE, TRUE, FALSE)
           \/ Exit(FALSE, FALSE, FALSE, FALSE, FALSE, FALSE, FALSE, TRUE)
           \/ Exit(FALSE, FALSE, FALSE, FALSE, FALSE, FALSE, FALSE, FALSE)
    BY Cits
  <2>2. PICK n : n = Len(SelectSeq(data, LAMBDA a : a # BADADDR))
    OBVIOUS
  <2>3. \/ kind = [k |-> "Goto"] \/ kind = [k |-> "Asm", n |-> n] \/ kind = [k |-> "Break"]
        \/ kind = [k |-> "Continue"] \/ kind = [k |-> "Empty"]
    BY <1>1, <2>1, <2>2, Zenon DEF ExitKind
  <2> QED
    BY <2>3
<1>12. IsMinted(op, got, kind)
  BY <1>2, <1>3, <1>4, <1>5, <1>6, <1>7, <1>8, <1>9, <1>10, <1>11, Zenon DEF IsMinted
<1> QED
  BY <1>12, Zenon DEF kind

AllS(h) == [i \in DOMAIN h |-> S(h[i])]

\* The children of each shape of statement.
LEMMA StmtChildrenAre ==
  ASSUME NEW kind
  PROVE  /\ kind.k = "Block" => StmtChildren(kind) = AllS(kind.stmts)
         /\ kind.k = "Expression" => StmtChildren(kind) = <<E(kind.e)>>
         /\ kind.k = "If" => StmtChildren(kind) = <<E(kind.cond), S(kind.then_)>> \o OptS(kind.else_)
         /\ kind.k = "For" => StmtChildren(kind)
                              = OptE(kind.init) \o OptE(kind.cond) \o OptE(kind.step) \o <<S(kind.body)>>
         /\ kind.k = "While" => StmtChildren(kind) = <<E(kind.cond), S(kind.body)>>
         /\ kind.k = "Do" => StmtChildren(kind) = <<S(kind.body), E(kind.cond)>>
         /\ kind.k = "Switch" => StmtChildren(kind) = <<E(kind.e)>> \o AllS(kind.bodies)
         /\ kind.k \in {"Return", "Throw"} => StmtChildren(kind) = OptE(kind.e)
         /\ kind.k = "Try" => StmtChildren(kind) = <<S(kind.body)>> \o AllS(kind.catches)
         /\ kind.k \in {"Empty", "Break", "Continue", "Goto", "Asm"} => StmtChildren(kind) = <<>>
<1>1. kind.k = "Block" => StmtChildren(kind) = AllS(kind.stmts)
  BY Zenon DEF StmtChildren, AllS
<1>2. kind.k = "Expression" => StmtChildren(kind) = <<E(kind.e)>>
  BY Zenon DEF StmtChildren
<1>3. kind.k = "If" => StmtChildren(kind) = <<E(kind.cond), S(kind.then_)>> \o OptS(kind.else_)
  BY Zenon DEF StmtChildren
<1>4. kind.k = "For" => StmtChildren(kind)
                        = OptE(kind.init) \o OptE(kind.cond) \o OptE(kind.step) \o <<S(kind.body)>>
  BY Zenon DEF StmtChildren
<1>5. kind.k = "While" => StmtChildren(kind) = <<E(kind.cond), S(kind.body)>>
  BY Zenon DEF StmtChildren
<1>6. kind.k = "Do" => StmtChildren(kind) = <<S(kind.body), E(kind.cond)>>
  BY Zenon DEF StmtChildren
<1>7. kind.k = "Switch" => StmtChildren(kind) = <<E(kind.e)>> \o AllS(kind.bodies)
  BY Zenon DEF StmtChildren, AllS
<1>8. kind.k \in {"Return", "Throw"} => StmtChildren(kind) = OptE(kind.e)
  BY Zenon DEF StmtChildren
<1>9. kind.k = "Try" => StmtChildren(kind) = <<S(kind.body)>> \o AllS(kind.catches)
  BY Zenon DEF StmtChildren, AllS
<1>10. kind.k \in {"Empty", "Break", "Continue", "Goto", "Asm"} => StmtChildren(kind) = <<>>
  BY Zenon DEF StmtChildren
<1> QED
  BY <1>1, <1>2, <1>3, <1>4, <1>5, <1>6, <1>7, <1>8, <1>9, <1>10, Zenon

\* A list of statements, and one after a first child.
LEMMA ListRefs ==
  ASSUME NEW got \in Seq(Nat), NEW slots, \A i \in 1..Len(got) : slots[i] \in {"s", "b"}
  PROVE  AllS(got) = AllRefs(slots, got)
<1>1. \A i \in 1..Len(got) : RefOf(slots[i], got[i]) = S(got[i])
  BY DEF RefOf
<1> QED
  BY <1>1 DEF AllS, AllRefs

\* A handle and then a list of statements are the handles by their slots.
LEMMA ConsListRefs ==
  ASSUME NEW got \in Seq(Nat), got # <<>>, NEW slots,
         \A i \in 2..Len(got) : slots[i] \in {"s", "b"}
  PROVE  <<RefOf(slots[1], got[1])>> \o AllS(Tail(got)) = AllRefs(slots, got)
<1>1. PICK a : a = RefOf(slots[1], got[1])
  OBVIOUS
<1>0. ConsIs(got, a, "s")
  BY ConsRefs
<1>2. <<a>> \o [i \in DOMAIN Tail(got) |-> <<"s", Tail(got)[i]>>]
      = [i \in 1..Len(got) |-> IF i = 1 THEN a ELSE <<"s", got[i]>>]
  BY <1>0, Zenon DEF ConsIs
<1>3. \A i \in 1..Len(got) : (IF i = 1 THEN a ELSE <<"s", got[i]>>) = RefOf(slots[i], got[i])
  <2> SUFFICES ASSUME NEW i \in 1..Len(got), i # 1 PROVE <<"s", got[i]>> = RefOf(slots[i], got[i])
    BY <1>1
  <2>1. slots[i] \in {"s", "b"}
    OBVIOUS
  <2> QED
    BY <2>1 DEF RefOf, S
<1>4. [i \in 1..Len(got) |-> IF i = 1 THEN a ELSE <<"s", got[i]>>] = AllRefs(slots, got)
  BY <1>3 DEF AllRefs
<1>5. AllS(Tail(got)) = [i \in DOMAIN Tail(got) |-> <<"s", Tail(got)[i]>>]
  BY DEF AllS, S
<1> QED
  BY <1>1, <1>2, <1>4, <1>5

\* A first slot that may be empty.
LEMMA FirstCarries ==
  ASSUME NEW slots, slots[1] = "oe", NEW g
  PROVE  Carries(OptE(g[1]), slots, g, 1)
<1>1. CASE g[1] = NONE
  <2>1. OptE(g[1]) = <<>>
    BY <1>1 DEF OptE
  <2>2. PICK z, o, k : z = <<>> /\ o = <<>> /\ k = 0
    OBVIOUS
  <2>3. k \in Nat /\ z = [i \in 1..k |-> RefOf(slots[i], g[i])] /\ \A i \in 1..k : g[i] # NONE
    BY <2>2
  <2>4. Carries(z, slots, g, k)
    BY <2>3, CarriesAll
  <2>5. o = IF g[k + 1] = NONE THEN <<>> ELSE <<RefOf(slots[k + 1], g[k + 1])>>
    BY <1>1, <2>2
  <2>6. Carries(z \o o, slots, g, k + 1)
    BY <2>3, <2>4, <2>5, CarriesNext
  <2>7. z \o o = <<>> /\ k + 1 = 1
    BY <2>2
  <2> QED
    BY <2>1, <2>6, <2>7
<1>2. CASE g[1] # NONE
  <2>1. OptE(g[1]) = <<E(g[1])>> /\ RefOf(slots[1], g[1]) = E(g[1])
    BY <1>2 DEF OptE, RefOf
  <2>2. PICK c : c = RefOf(slots[1], g[1])
    OBVIOUS
  <2>3. <<c>> = [i \in 1..1 |-> RefOf(slots[i], g[i])]
    BY <2>2
  <2>4. \A i \in 1..1 : g[i] # NONE
    BY <1>2
  <2>5. Carries(<<c>>, slots, g, 1)
    BY <2>3, <2>4, CarriesAll
  <2> QED
    BY <2>1, <2>2, <2>5
<1> QED
  BY <1>1, <1>2

\* The children of a for: whichever of its expressions are there, and its body.
LEMMA ForCarries ==
  ASSUME NEW slots, slots = <<"oe", "oe", "oe", "s">>, NEW g, Filled(slots, g)
  PROVE  Carries(OptE(g[1]) \o OptE(g[2]) \o OptE(g[3]) \o <<S(g[4])>>, slots, g, 4)
<1>1. g \in Seq(Nat) /\ Len(g) = 4 /\ g[4] # NONE
  BY DEF Filled
<1>2. slots[1] = "oe" /\ slots[2] = "oe" /\ slots[3] = "oe" /\ slots[4] = "s"
  OBVIOUS
<1>3. PICK a : a = OptE(g[1])
  OBVIOUS
<1>4. Carries(a, slots, g, 1)
  BY <1>2, <1>3, FirstCarries
<1>5. PICK b : b = OptE(g[2])
  OBVIOUS
<1>6. b = IF g[1 + 1] = NONE THEN <<>> ELSE <<RefOf(slots[1 + 1], g[1 + 1])>>
  BY <1>2, <1>5 DEF OptE, RefOf
<1>7. Carries(a \o b, slots, g, 1 + 1)
  BY <1>4, <1>6, CarriesNext
<1>8. PICK c : c = OptE(g[3])
  OBVIOUS
<1>9. c = IF g[2 + 1] = NONE THEN <<>> ELSE <<RefOf(slots[2 + 1], g[2 + 1])>>
  BY <1>2, <1>8 DEF OptE, RefOf
<1>10. PICK ab : ab = a \o b
  OBVIOUS
<1>11. Carries(ab, slots, g, 2)
  BY <1>7, <1>10
<1>12. Carries(ab \o c, slots, g, 2 + 1)
  BY <1>9, <1>11, CarriesNext
<1>13. PICK d : d = <<S(g[4])>>
  OBVIOUS
<1>14. d = IF g[3 + 1] = NONE THEN <<>> ELSE <<RefOf(slots[3 + 1], g[3 + 1])>>
  BY <1>1, <1>2, <1>13 DEF RefOf
<1>15. PICK abc : abc = ab \o c
  OBVIOUS
<1>16. Carries(abc, slots, g, 3)
  BY <1>12, <1>15
<1>17. Carries(abc \o d, slots, g, 3 + 1)
  BY <1>14, <1>16, CarriesNext
<1> QED
  BY <1>3, <1>5, <1>8, <1>10, <1>13, <1>15, <1>17

\* The children of an if: its condition, its branch and the else it may have.
LEMMA IfCarries ==
  ASSUME NEW slots, slots = <<"e", "s", "os">>, NEW g, Filled(slots, g)
  PROVE  Carries(<<E(g[1]), S(g[2])>> \o OptS(g[3]), slots, g, 3)
<1>1. g \in Seq(Nat) /\ Len(g) = 3 /\ g[1] # NONE /\ g[2] # NONE
  BY DEF Filled
<1>2. RefOf(slots[1], g[1]) = E(g[1]) /\ RefOf(slots[2], g[2]) = S(g[2]) /\ slots[3] = "os"
  BY DEF RefOf
<1>3. PICK a, b : a = RefOf(slots[1], g[1]) /\ b = RefOf(slots[2], g[2])
  OBVIOUS
<1>4. <<a, b>> = [i \in 1..2 |-> RefOf(slots[i], g[i])]
  BY <1>3
<1>5. \A i \in 1..2 : g[i] # NONE
  BY <1>1
<1>6. PICK ch : ch = <<a, b>>
  OBVIOUS
<1>7. Carries(ch, slots, g, 2)
  BY <1>4, <1>5, <1>6, CarriesAll
<1>8. PICK o : o = OptS(g[3])
  OBVIOUS
<1>9. o = IF g[2 + 1] = NONE THEN <<>> ELSE <<RefOf(slots[2 + 1], g[2 + 1])>>
  BY <1>2, <1>8 DEF OptS, RefOf
<1>10. Carries(ch \o o, slots, g, 2 + 1)
  BY <1>7, <1>9, CarriesNext
<1> QED
  BY <1>2, <1>3, <1>6, <1>8, <1>10

\* The children of an expression are the operands it was minted from.
LEMMA ExprCarries ==
  ASSUME NEW op \in 0..99, ~IsStmt(op), NEW m \in Nat, NEW data, NEW got, Filled(ExprSlots(op, m), got)
  PROVE  /\ ExprKindOf(op, got, data).k \in ExpressionKind
         /\ Carries(ExprChildren(ExprKindOf(op, got, data)), ExprSlots(op, m), got, Len(got))
<1>1. got \in Seq(Nat) /\ Len(got) = Len(ExprSlots(op, m))
  BY DEF Filled
<1>2. /\ ExprKindOf(op, got, data).k \in ExpressionKind
      /\ ExprChildren(ExprKindOf(op, got, data)) = AllE(got)
      /\ \A i \in 1..Len(got) : ExprSlots(op, m)[i] = "e"
  BY <1>1, ExprOperands
<1>3. PICK slots, k : slots = ExprSlots(op, m) /\ k = Len(got)
  OBVIOUS
<1>4. k \in Nat /\ \A i \in 1..k : got[i] # NONE /\ RefOf(slots[i], got[i]) = E(got[i])
  BY <1>1, <1>2, <1>3 DEF Filled, RefOf
<1>5. AllE(got) = [i \in 1..k |-> RefOf(slots[i], got[i])]
  BY <1>3, <1>4 DEF AllE
<1>6. Carries(AllE(got), slots, got, k)
  BY <1>4, <1>5, CarriesAll
<1> QED
  BY <1>2, <1>3, <1>6

\* The children of a statement are the handles it was minted from.
LEMMA StmtCarries ==
  ASSUME NEW op \in 70..84, NEW m \in Nat, NEW data, NEW got, Filled(StmtSlots(op, m), got)
  PROVE  /\ StmtKindOf(op, got, data).k \in StatementKind
         /\ Carries(StmtChildren(StmtKindOf(op, got, data)), StmtSlots(op, m), got, Len(got))
<1>1. PICK kind : kind = StmtKindOf(op, got, data)
  OBVIOUS
<1>2. PICK slots : slots = StmtSlots(op, m)
  OBVIOUS
<1>3. /\ op = 71 => slots = Times(m, "s")
      /\ op = 72 => slots = <<"e">>
      /\ op = 73 => slots = <<"e", "s", "os">>
      /\ op = 74 => slots = <<"oe", "oe", "oe", "s">>
      /\ op = 75 => slots = <<"e", "s">>
      /\ op = 76 => slots = <<"s", "e">>
      /\ op = 77 => slots = <<"e">> \o Times(m, "s")
      /\ op \in {80, 84} => slots = <<"oe">>
      /\ op = 83 => slots = Times(m + 1, "b")
      /\ op \in {70, 78, 79, 81, 82} => slots = <<>>
  BY <1>2, StmtSlotsAre
<1>4. IsMinted(op, got, kind)
  BY <1>1, Minted
<1>5. Filled(slots, got) /\ got \in Seq(Nat) /\ Len(got) = Len(slots)
  BY <1>2 DEF Filled
<1>6. /\ kind.k = "Block" => StmtChildren(kind) = AllS(kind.stmts)
      /\ kind.k = "Expression" => StmtChildren(kind) = <<E(kind.e)>>
      /\ kind.k = "If" => StmtChildren(kind) = <<E(kind.cond), S(kind.then_)>> \o OptS(kind.else_)
      /\ kind.k = "For" => StmtChildren(kind)
                           = OptE(kind.init) \o OptE(kind.cond) \o OptE(kind.step) \o <<S(kind.body)>>
      /\ kind.k = "While" => StmtChildren(kind) = <<E(kind.cond), S(kind.body)>>
      /\ kind.k = "Do" => StmtChildren(kind) = <<S(kind.body), E(kind.cond)>>
      /\ kind.k = "Switch" => StmtChildren(kind) = <<E(kind.e)>> \o AllS(kind.bodies)
      /\ kind.k \in {"Return", "Throw"} => StmtChildren(kind) = OptE(kind.e)
      /\ kind.k = "Try" => StmtChildren(kind) = <<S(kind.body)>> \o AllS(kind.catches)
      /\ kind.k \in {"Empty", "Break", "Continue", "Goto", "Asm"} => StmtChildren(kind) = <<>>
  BY StmtChildrenAre
\* Where no slot is optional, the children are all the handles.
<1>7. ASSUME \A i \in 1..Len(got) : slots[i] \in {"e", "s", "b"}, StmtChildren(kind) = AllRefs(slots, got)
      PROVE  Carries(StmtChildren(kind), slots, got, Len(got))
  <2>1. PICK k : k = Len(got)
    OBVIOUS
  <2>2. k \in Nat /\ \A i \in 1..k : got[i] # NONE
    BY <1>5, <1>7, <2>1 DEF Filled
  <2>3. PICK ch : ch = StmtChildren(kind)
    OBVIOUS
  <2>4. ch = [i \in 1..k |-> RefOf(slots[i], got[i])]
    BY <1>7, <2>1, <2>3 DEF AllRefs
  <2>5. Carries(ch, slots, got, k)
    BY <2>2, <2>4, CarriesAll
  <2> QED
    BY <2>1, <2>3, <2>5
<1>8. kind.k \in StatementKind /\ Carries(StmtChildren(kind), slots, got, Len(got))
  <2>1. CASE op = 71
    <3>1. kind.k = "Block" /\ kind.stmts = got
      BY <1>4, <2>1 DEF IsMinted
    <3>2. \A i \in 1..Len(got) : slots[i] = "s"
      BY <1>3, <1>5, <2>1, TimesIs
    <3>3. AllS(got) = AllRefs(slots, got)
      BY <1>5, <3>2, ListRefs
    <3> QED
      BY <1>6, <1>7, <3>1, <3>2, <3>3 DEF StatementKind
  <2>2. CASE op = 72
    <3>1. kind.k = "Expression" /\ kind.e = got[1]
      BY <1>4, <2>2 DEF IsMinted
    <3>2. slots = <<"e">> /\ Len(got) = 1 /\ slots[1] = "e"
      BY <1>3, <1>5, <2>2
    <3>3. RefOf(slots[1], got[1]) = E(got[1])
      BY <3>2 DEF RefOf
    <3>4. PICK a : a = RefOf(slots[1], got[1])
      OBVIOUS
    <3>5. <<a>> = AllRefs(slots, got)
      BY <3>2, <3>4 DEF AllRefs
    <3> QED
      BY <1>6, <1>7, <3>1, <3>2, <3>3, <3>4, <3>5 DEF StatementKind
  <2>3. CASE op = 73
    <3>1. kind.k = "If" /\ kind.cond = got[1] /\ kind.then_ = got[2] /\ kind.else_ = got[3]
      BY <1>4, <2>3 DEF IsMinted
    <3>2. slots = <<"e", "s", "os">> /\ Len(got) = 3
      BY <1>3, <1>5, <2>3
    <3>3. Carries(<<E(got[1]), S(got[2])>> \o OptS(got[3]), slots, got, 3)
      BY <1>5, <3>2, IfCarries
    <3> QED
      BY <1>6, <3>1, <3>2, <3>3 DEF StatementKind
  <2>4. CASE op = 74
    <3>1. kind.k = "For" /\ kind.init = got[1] /\ kind.cond = got[2] /\ kind.step = got[3] /\ kind.body = got[4]
      BY <1>4, <2>4 DEF IsMinted
    <3>2. slots = <<"oe", "oe", "oe", "s">> /\ Len(got) = 4
      BY <1>3, <1>5, <2>4
    <3>3. Carries(OptE(got[1]) \o OptE(got[2]) \o OptE(got[3]) \o <<S(got[4])>>, slots, got, 4)
      BY <1>5, <3>2, ForCarries
    <3> QED
      BY <1>6, <3>1, <3>2, <3>3 DEF StatementKind
  <2>5. CASE op = 75
    <3>1. kind.k = "While" /\ kind.cond = got[1] /\ kind.body = got[2]
      BY <1>4, <2>5 DEF IsMinted
    <3>2. slots = <<"e", "s">> /\ Len(got) = 2 /\ slots[1] = "e" /\ slots[2] = "s"
      BY <1>3, <1>5, <2>5
    <3>3. RefOf(slots[1], got[1]) = E(got[1]) /\ RefOf(slots[2], got[2]) = S(got[2])
      BY <3>2 DEF RefOf
    <3>4. PICK a, b : a = RefOf(slots[1], got[1]) /\ b = RefOf(slots[2], got[2])
      OBVIOUS
    <3>5. <<a, b>> = AllRefs(slots, got)
      BY <3>2, <3>4 DEF AllRefs
    <3> QED
      BY <1>6, <1>7, <3>1, <3>2, <3>3, <3>4, <3>5 DEF StatementKind
  <2>6. CASE op = 76
    <3>1. kind.k = "Do" /\ kind.body = got[1] /\ kind.cond = got[2]
      BY <1>4, <2>6 DEF IsMinted
    <3>2. slots = <<"s", "e">> /\ Len(got) = 2 /\ slots[1] = "s" /\ slots[2] = "e"
      BY <1>3, <1>5, <2>6
    <3>3. RefOf(slots[1], got[1]) = S(got[1]) /\ RefOf(slots[2], got[2]) = E(got[2])
      BY <3>2 DEF RefOf
    <3>4. PICK a, b : a = RefOf(slots[1], got[1]) /\ b = RefOf(slots[2], got[2])
      OBVIOUS
    <3>5. <<a, b>> = AllRefs(slots, got)
      BY <3>2, <3>4 DEF AllRefs
    <3> QED
      BY <1>6, <1>7, <3>1, <3>2, <3>3, <3>4, <3>5 DEF StatementKind
  <2>7. CASE op = 77
    <3>1. kind.k = "Switch" /\ kind.e = got[1] /\ kind.bodies = Tail(got)
      BY <1>4, <2>7 DEF IsMinted
    <3>2. PICK ss : ss = Times(m, "s")
      OBVIOUS
    <3>3. ss \in Seq({"e", "s"}) /\ Len(ss) = m /\ \A i \in 1..m : ss[i] = "s"
      BY <3>2 DEF Times
    <3>4. slots = <<"e">> \o ss
      BY <1>3, <2>7, <3>2
    <3>5. Len(slots) = m + 1 /\ slots[1] = "e" /\ \A i \in 1..m : slots[i + 1] = ss[i]
      BY <3>3, <3>4
    <3>6. \A i \in 2..m + 1 : slots[i] = "s"
      <4> SUFFICES ASSUME NEW i \in 2..m + 1 PROVE slots[i] = "s"
        OBVIOUS
      <4>1. i - 1 \in 1..m /\ (i - 1) + 1 = i
        OBVIOUS
      <4> QED
        BY <3>3, <3>5, <4>1
    <3>7. Len(got) = m + 1 /\ got # <<>>
      BY <1>5, <3>5
    <3>8. <<RefOf(slots[1], got[1])>> \o AllS(Tail(got)) = AllRefs(slots, got)
      BY <1>5, <3>6, <3>7, ConsListRefs
    <3>9. RefOf(slots[1], got[1]) = E(got[1])
      BY <3>5 DEF RefOf
    <3>10. \A i \in 1..Len(got) : slots[i] \in {"e", "s", "b"}
      BY <3>5, <3>6, <3>7
    <3> QED
      BY <1>6, <1>7, <3>1, <3>8, <3>9, <3>10 DEF StatementKind
  <2>8. CASE op \in {80, 84}
    <3>1. kind.k \in {"Return", "Throw"} /\ kind.e = got[1]
      BY <1>4, <2>8 DEF IsMinted
    <3>2. slots = <<"oe">> /\ Len(got) = 1 /\ slots[1] = "oe"
      BY <1>3, <1>5, <2>8
    <3>3. Carries(OptE(got[1]), slots, got, 1)
      BY <3>2, FirstCarries
    <3> QED
      BY <1>6, <3>1, <3>2, <3>3 DEF StatementKind
  <2>9. CASE op = 83
    <3>1. kind.k = "Try" /\ kind.body = got[1] /\ kind.catches = Tail(got)
      BY <1>4, <2>9 DEF IsMinted
    <3>2. slots = Times(m + 1, "b") /\ m + 1 \in Nat
      BY <1>3, <2>9
    <3>3. Len(got) = m + 1 /\ got # <<>> /\ \A i \in 1..Len(got) : slots[i] = "b"
      BY <1>5, <3>2, TimesIs
    <3>4. 1 \in 1..Len(got) /\ \A i \in 2..Len(got) : i \in 1..Len(got)
      BY <3>3
    <3>5. <<RefOf(slots[1], got[1])>> \o AllS(Tail(got)) = AllRefs(slots, got)
      BY <1>5, <3>3, <3>4, ConsListRefs
    <3>6. RefOf(slots[1], got[1]) = S(got[1])
      BY <3>3, <3>4 DEF RefOf
    <3> QED
      BY <1>6, <1>7, <3>1, <3>3, <3>5, <3>6 DEF StatementKind
  <2>10. CASE op \in {70, 78, 79, 81, 82}
    <3>1. kind.k \in {"Empty", "Break", "Continue", "Goto", "Asm"}
      BY <1>4, <2>10 DEF IsMinted
    <3>2. slots = <<>> /\ Len(got) = 0
      BY <1>3, <1>5, <2>10
    <3>3. <<>> = AllRefs(slots, got)
      BY <3>2 DEF AllRefs
    <3>4. \A i \in 1..Len(got) : FALSE
      BY <3>2
    <3> QED
      BY <1>6, <1>7, <3>1, <3>3, <3>4 DEF StatementKind
  <2>11. \/ op = 71 \/ op = 72 \/ op = 73 \/ op = 74 \/ op = 75 \/ op = 76 \/ op = 77 \/ op \in {80, 84} \/ op = 83
         \/ op \in {70, 78, 79, 81, 82}
    OBVIOUS
  <2> QED
    BY <2>1, <2>2, <2>3, <2>4, <2>5, <2>6, <2>7, <2>8, <2>9, <2>10, <2>11
<1> QED
  BY <1>1, <1>2, <1>8

(***************************************************************************)
(* A search of a tree with a stack.  R are the nodes, K gives the children *)
(* of each, and rank grows from a node to its children.                    *)
(***************************************************************************)
IsTree(R, K, root, rank) ==
  /\ IsFiniteSet(R) /\ root \in R /\ K \in [R -> Seq(R)] /\ rank \in [R -> Nat]
  /\ \A u, v \in R : \A i \in DOMAIN K[u], j \in DOMAIN K[v] : K[u][i] = K[v][j] => u = v /\ i = j
  /\ \A u \in R : \A i \in DOMAIN K[u] : K[u][i] # root
  /\ \A r \in R \ {root} : \E u \in R : \E i \in DOMAIN K[u] : K[u][i] = r /\ rank[u] < rank[r]

ChildOf(K, u, r) == \E i \in DOMAIN K[u] : K[u][i] = r
OnStack(st, r) == \E a \in DOMAIN st : st[a] = r

\* The nodes V have been taken from the stack and their children put there.
Searched(R, K, root, st, V) ==
  /\ st \in Seq(R) /\ V \subseteq R
  /\ \A a, b \in DOMAIN st : st[a] = st[b] => a = b
  /\ \A a \in DOMAIN st : st[a] \notin V
  /\ \A r \in R : (r \in V \/ OnStack(st, r)) <=> (r = root \/ \E u \in V : ChildOf(K, u, r))

\* The first node is the root.
LEMMA SearchStarts ==
  ASSUME NEW R, NEW K, NEW root, NEW rank, IsTree(R, K, root, rank)
  PROVE  Searched(R, K, root, <<root>>, {})
<1>1. root \in R
  BY DEF IsTree
<1>2. <<root>> \in Seq(R) /\ DOMAIN <<root>> = {1} /\ <<root>>[1] = root
  BY <1>1
<1> QED
  BY <1>2 DEF Searched, OnStack

\* A child of a node on the stack has been neither taken nor put on it.
LEMMA ChildIsNew ==
  ASSUME NEW R, NEW K, NEW root, NEW rank, IsTree(R, K, root, rank),
         NEW st, NEW V, Searched(R, K, root, st, V),
         NEW x \in R, OnStack(st, x), x \notin V, NEW r, ChildOf(K, x, r)
  PROVE  r \in R /\ r \notin V /\ ~OnStack(st, r) /\ r # x
<1>1. PICK j \in DOMAIN K[x] : K[x][j] = r
  BY DEF ChildOf
<1>2. K[x] \in Seq(R)
  BY DEF IsTree
<1>3. r \in R
  BY <1>1, <1>2
<1>4. r # root
  BY <1>1 DEF IsTree
<1>5. ~\E u \in V : ChildOf(K, u, r)
  <2> SUFFICES ASSUME NEW u \in V, ChildOf(K, u, r) PROVE FALSE
    OBVIOUS
  <2>1. PICK i \in DOMAIN K[u] : K[u][i] = r
    BY DEF ChildOf
  <2>2. u \in R
    BY DEF Searched
  <2>3. u = x
    BY <1>1, <2>1, <2>2 DEF IsTree
  <2> QED
    BY <2>3
<1>6. r \notin V /\ ~OnStack(st, r)
  BY <1>3, <1>4, <1>5 DEF Searched
<1> QED
  BY <1>3, <1>6

\* What a round leaves on the stack.
LEMMA RoundStack ==
  ASSUME NEW R, NEW st \in Seq(R), st # <<>>, NEW c \in Seq(R)
  PROVE  /\ Front(st) \o c \in Seq(R) /\ Last(st) \in R
         /\ OnStack(st, Last(st)) /\ st[Len(st)] = Last(st)
         /\ Len(st) \in Nat \ {0} /\ Len(c) \in Nat
         /\ DOMAIN st = 1..Len(st) /\ DOMAIN c = 1..Len(c)
         /\ DOMAIN (Front(st) \o c) = 1..(Len(st) - 1 + Len(c))
         /\ \A a \in 1..Len(st) - 1 : (Front(st) \o c)[a] = st[a]
         /\ \A a \in 1..Len(c) : (Front(st) \o c)[Len(st) - 1 + a] = c[a]
<1>1. /\ Len(st) \in Nat \ {0} /\ Last(st) = st[Len(st)] /\ Last(st) \in R
      /\ Front(st) \in Seq(R) /\ Len(Front(st)) = Len(st) - 1
      /\ \A k \in 1..Len(st) - 1 : Front(st)[k] = st[k]
  BY LastFront
<1>2. OnStack(st, Last(st))
  BY <1>1 DEF OnStack
<1>3. PICK f \in Seq(R) : f = Front(st)
  BY <1>1
<1>4. /\ f \o c \in Seq(R) /\ Len(f \o c) = Len(f) + Len(c) /\ Len(f) \in Nat /\ Len(c) \in Nat
      /\ DOMAIN (f \o c) = 1..(Len(f) + Len(c))
      /\ \A a \in 1..Len(f) : (f \o c)[a] = f[a]
      /\ \A a \in 1..Len(c) : (f \o c)[Len(f) + a] = c[a]
  OBVIOUS
<1>5. DOMAIN st = 1..Len(st) /\ DOMAIN c = 1..Len(c)
  OBVIOUS
<1> QED
  BY <1>1, <1>2, <1>3, <1>4, <1>5

\* One round: a node is taken, and its children wait in its place.
LEMMA SearchRound ==
  ASSUME NEW R, NEW K, NEW root, NEW rank, IsTree(R, K, root, rank),
         NEW st, NEW V, Searched(R, K, root, st, V), st # <<>>
  PROVE  /\ Last(st) \in R /\ Last(st) \notin V
         /\ Searched(R, K, root, Front(st) \o K[Last(st)], V \cup {Last(st)})
<1>0. st \in Seq(R) /\ V \subseteq R
  BY DEF Searched
<1>1. Last(st) \in R
  BY <1>0, LastFront
<1>2. PICK x \in R : x = Last(st)
  BY <1>1
<1>3. K[x] \in Seq(R)
  BY DEF IsTree
<1>4. PICK n : n = Len(st)
  OBVIOUS
<1>5. PICK c \in Seq(R) : c = K[x]
  BY <1>3
<1>6. PICK s : s = Front(st) \o c
  OBVIOUS
<1>7. /\ s \in Seq(R) /\ OnStack(st, x) /\ st[n] = x /\ n \in Nat \ {0} /\ Len(c) \in Nat
      /\ DOMAIN st = 1..n /\ DOMAIN c = 1..Len(c) /\ DOMAIN s = 1..(n - 1 + Len(c))
      /\ \A a \in 1..n - 1 : s[a] = st[a]
      /\ \A a \in 1..Len(c) : s[n - 1 + a] = c[a]
  BY <1>0, <1>2, <1>4, <1>6, RoundStack, SMTT(30)
<1>8. x \notin V
  BY <1>7 DEF Searched, OnStack
<1>9. \A j \in 1..Len(c) : c[j] \in R /\ c[j] \notin V /\ ~OnStack(st, c[j]) /\ c[j] # x
  <2> SUFFICES ASSUME NEW j \in 1..Len(c) PROVE c[j] \in R /\ c[j] \notin V /\ ~OnStack(st, c[j]) /\ c[j] # x
    OBVIOUS
  <2>1. ChildOf(K, x, c[j])
    BY <1>5, <1>7 DEF ChildOf
  <2> QED
    BY <1>7, <1>8, <2>1, ChildIsNew
\* An element of the new stack is one of the old, below the top, or a child.
<1>10. \A a \in DOMAIN s : \/ a \in 1..n - 1
                           \/ a - (n - 1) \in 1..Len(c) /\ s[a] = c[a - (n - 1)]
  <2> SUFFICES ASSUME NEW a \in DOMAIN s, a \notin 1..n - 1
               PROVE  a - (n - 1) \in 1..Len(c) /\ s[a] = c[a - (n - 1)]
    OBVIOUS
  <2>1. a - (n - 1) \in 1..Len(c) /\ n - 1 + (a - (n - 1)) = a
    BY <1>7
  <2> QED
    BY <1>7, <2>1
<1>11. \A a \in 1..n - 1 : s[a] = st[a] /\ a \in DOMAIN st /\ OnStack(st, st[a])
  BY <1>7 DEF OnStack
<1>12. \A a, b \in DOMAIN s : s[a] = s[b] => a = b
  <2> SUFFICES ASSUME NEW a \in DOMAIN s, NEW b \in DOMAIN s, s[a] = s[b] PROVE a = b
    OBVIOUS
  <2>1. CASE a \in 1..n - 1 /\ b \in 1..n - 1
    BY <1>11, <2>1 DEF Searched
  <2>2. CASE a \in 1..n - 1 /\ b \notin 1..n - 1
    BY <1>9, <1>10, <1>11, <2>2
  <2>3. CASE a \notin 1..n - 1 /\ b \in 1..n - 1
    BY <1>9, <1>10, <1>11, <2>3
  <2>4. CASE a \notin 1..n - 1 /\ b \notin 1..n - 1
    <3>1. PICK p, q \in 1..Len(c) : p = a - (n - 1) /\ q = b - (n - 1) /\ s[a] = c[p] /\ s[b] = c[q]
      BY <1>10, <2>4
    <3>2. p \in DOMAIN K[x] /\ q \in DOMAIN K[x] /\ K[x][p] = K[x][q]
      BY <1>5, <1>7, <3>1
    <3>3. p = q
      BY <3>2 DEF IsTree
    <3> QED
      BY <1>7, <3>1, <3>3
  <2> QED
    BY <2>1, <2>2, <2>3, <2>4
<1>13. \A a \in DOMAIN s : s[a] \notin V \cup {x}
  <2> SUFFICES ASSUME NEW a \in DOMAIN s PROVE s[a] \notin V /\ s[a] # x
    OBVIOUS
  <2>1. CASE a \in 1..n - 1
    <3>1. s[a] = st[a] /\ a \in DOMAIN st /\ n \in DOMAIN st /\ a # n
      BY <1>7, <1>11, <2>1
    <3> QED
      BY <1>7, <3>1 DEF Searched
  <2>2. CASE a \notin 1..n - 1
    BY <1>9, <1>10, <2>2
  <2> QED
    BY <2>1, <2>2
<1>14. \A r : OnStack(s, r) \/ r = x <=> OnStack(st, r) \/ ChildOf(K, x, r)
  <2> SUFFICES ASSUME NEW r PROVE OnStack(s, r) \/ r = x <=> OnStack(st, r) \/ ChildOf(K, x, r)
    OBVIOUS
  <2>1. OnStack(s, r) => OnStack(st, r) \/ ChildOf(K, x, r)
    <3> SUFFICES ASSUME NEW a \in DOMAIN s, s[a] = r PROVE OnStack(st, r) \/ ChildOf(K, x, r)
      BY DEF OnStack
    <3>1. CASE a \in 1..n - 1
      BY <1>11, <3>1
    <3>2. CASE a \notin 1..n - 1
      BY <1>5, <1>7, <1>10, <3>2 DEF ChildOf
    <3> QED
      BY <3>1, <3>2
  <2>2. OnStack(st, r) => OnStack(s, r) \/ r = x
    <3> SUFFICES ASSUME NEW a \in DOMAIN st, st[a] = r PROVE OnStack(s, r) \/ r = x
      BY DEF OnStack
    <3>1. a = n \/ a \in 1..n - 1
      BY <1>7
    <3>2. a \in 1..n - 1 => a \in DOMAIN s /\ s[a] = r
      BY <1>7
    <3> QED
      BY <1>7, <3>1, <3>2 DEF OnStack
  <2>3. ChildOf(K, x, r) => OnStack(s, r)
    <3> SUFFICES ASSUME NEW a \in DOMAIN c, c[a] = r PROVE OnStack(s, r)
      BY <1>5 DEF ChildOf
    <3>1. n - 1 + a \in DOMAIN s /\ s[n - 1 + a] = r
      BY <1>7
    <3> QED
      BY <3>1 DEF OnStack
  <2>4. OnStack(st, x)
    BY <1>7
  <2> QED
    BY <2>1, <2>2, <2>3, <2>4
<1>15. \A r \in R : (r \in V \cup {x} \/ OnStack(s, r)) <=> (r = root \/ \E u \in V \cup {x} : ChildOf(K, u, r))
  <2>1. \A r \in R : (r \in V \/ OnStack(st, r)) <=> (r = root \/ \E u \in V : ChildOf(K, u, r))
    BY DEF Searched
  <2> QED
    BY <1>14, <2>1
<1> QED
  BY <1>0, <1>2, <1>5, <1>6, <1>7, <1>8, <1>12, <1>13, <1>15, SMTT(30) DEF Searched

\* A set of numbers that is not empty has a least one.
LEMMA LeastOf ==
  ASSUME NEW T, T \subseteq Nat, T # {}
  PROVE  \E x \in T : \A y \in T : x <= y
<1>1. PICK x \in T : \A y \in T : ~(<<y, x>> \in OpToRel(<, Nat))
  BY NatLessThanWellFounded, WFMin
<1>2. \A y \in T : x <= y
  <2>1. SUFFICES ASSUME NEW y \in T, ~(x <= y) PROVE FALSE
    OBVIOUS
  <2>2. x \in Nat /\ y \in Nat /\ y < x
    BY <2>1
  <2>3. <<y, x>> \in Nat \X Nat /\ <<y, x>>[1] < <<y, x>>[2]
    BY <2>2
  <2>4. <<y, x>> \in OpToRel(<, Nat)
    BY <2>3, Zenon DEF OpToRel
  <2> QED
    BY <1>1, <2>4
<1> QED
  BY <1>2

\* Induction, with the numbers a fact holds of as a set.
LEMMA SetInduction ==
  ASSUME NEW T, \A n \in Nat : (\A k \in Nat : k < n => k \in T) => n \in T
  PROVE  Nat \subseteq T
<1>1. ASSUME Nat \ T # {} PROVE FALSE
  <2>1. PICK n \in Nat \ T : \A k \in Nat \ T : n <= k
    BY <1>1, LeastOf
  <2>2. \A k \in Nat : k < n => k \in T
    BY <2>1
  <2> QED
    BY <2>2
<1> QED
  BY <1>1
\* When nothing waits, every node has been taken.
LEMMA SearchEnds ==
  ASSUME NEW R, NEW K, NEW root, NEW rank, IsTree(R, K, root, rank),
         NEW V, Searched(R, K, root, <<>>, V)
  PROVE  V = R
<1> DEFINE left == R \ V
<1>1. \A r : ~OnStack(<<>>, r)
  BY DEF OnStack
<1>2. ASSUME left # {} PROVE FALSE
  <2>1. {rank[r] : r \in left} \subseteq Nat /\ {rank[r] : r \in left} # {}
    BY <1>2 DEF IsTree
  <2>2. PICK r \in left : \A q \in left : rank[r] <= rank[q]
    <3>1. PICK n \in {rank[q] : q \in left} : \A m \in {rank[q] : q \in left} : n <= m
      BY <2>1, LeastOf
    <3> QED
      BY <3>1
  <2>3. r # root /\ r \in R
    BY <1>1 DEF Searched
  <2>4. PICK u \in R : \E i \in DOMAIN K[u] : K[u][i] = r /\ rank[u] < rank[r]
    BY <2>3 DEF IsTree
  <2>5. u \notin left
    <3>1. rank[u] \in Nat /\ rank[r] \in Nat
      BY <2>3, <2>4 DEF IsTree
    <3> QED
      BY <2>2, <2>4, <3>1
  <2>6. u \in V /\ ChildOf(K, u, r)
    BY <2>4, <2>5 DEF ChildOf
  <2>7. r \in V
    BY <1>1, <2>3, <2>6 DEF Searched
  <2> QED
    BY <2>7
<1> QED
  BY <1>2 DEF Searched

\* Repeating a step: the recursion that defines it has a solution.
Repeats(W, a, F, N) == \E f \in [0..N -> W] : f[0] = a /\ \A i \in 1..N : f[i] = F[f[i - 1]]

\* A step repeated over a fixed range of rounds is a function, so a recursive definition of one is met.
LEMMA RepetitionExists ==
  ASSUME NEW W, NEW a \in W, NEW F \in [W -> W], NEW N \in Nat
  PROVE  Repeats(W, a, F, N)
<1> DEFINE Runs(n) == {f \in [0..n -> W] : f[0] = a /\ \A i \in 1..n : f[i] = F[f[i - 1]]}
           P == {n \in Nat : Runs(n) # {}}
<1>1. 0 \in P
  <2>1. [i \in 0..0 |-> a] \in Runs(0)
    OBVIOUS
  <2> QED
    BY <2>1
<1>2. ASSUME NEW n \in Nat, n \in P PROVE n + 1 \in P
  <2>1. PICK f \in [0..n -> W] : f[0] = a /\ \A i \in 1..n : f[i] = F[f[i - 1]]
    BY <1>2
  <2>2. PICK g : g = [i \in 0..n + 1 |-> IF i = n + 1 THEN F[f[n]] ELSE f[i]]
    OBVIOUS
  <2>3. n \in 0..n /\ f[n] \in W /\ F[f[n]] \in W
    BY <2>1
  <2>4. \A i \in 0..n : g[i] = f[i]
    BY <2>2
  <2>5. g[n + 1] = F[f[n]]
    BY <2>2
  <2>6. g \in [0..n + 1 -> W]
    <3>1. \A i \in 0..n + 1 : (IF i = n + 1 THEN F[f[n]] ELSE f[i]) \in W
      BY <2>1, <2>3
    <3> QED
      BY <2>2, <3>1
  <2>7. \A i \in 1..n + 1 : g[i] = F[g[i - 1]]
    <3> SUFFICES ASSUME NEW i \in 1..n + 1 PROVE g[i] = F[g[i - 1]]
      OBVIOUS
    <3>1. CASE i = n + 1
      BY <2>3, <2>4, <2>5, <3>1
    <3>2. CASE i # n + 1
      <4>1. i \in 1..n /\ i \in 0..n /\ i - 1 \in 0..n
        BY <3>2
      <4> QED
        BY <2>1, <2>4, <4>1
    <3> QED
      BY <3>1, <3>2
  <2>8. g[0] = a
    BY <2>1, <2>4
  <2> QED
    BY <2>6, <2>7, <2>8
<1>3. \A n \in Nat : (\A k \in Nat : k < n => k \in P) => n \in P
  <2> SUFFICES ASSUME NEW n \in Nat, \A k \in Nat : k < n => k \in P PROVE n \in P
    OBVIOUS
  <2> HIDE DEF P
  <2>1. CASE n = 0
    BY <1>1, <2>1
  <2>2. CASE n # 0
    <3>1. n - 1 \in Nat /\ n - 1 < n /\ (n - 1) + 1 = n
      BY <2>2
    <3>2. (n - 1) + 1 \in P
      BY <1>2, <3>1
    <3> QED
      BY <3>1, <3>2
  <2> QED
    BY <2>1, <2>2
<1>4. Nat \subseteq P
  <2> HIDE DEF P
  <2> QED
    BY <1>3, SetInduction
<1> QED
  BY <1>4 DEF Repeats

\* A search that links every child to the node it came from.
Linking(R, K, w) ==
  LET r == Last(w.stack)
  IN  [stack |-> Front(w.stack) \o K[r], visited |-> w.visited + 1,
       parent |-> [c \in R |-> IF ChildOf(K, r, c) THEN r ELSE w.parent[c]]]

Links(R, none) == [stack : Seq(R), visited : Nat, parent : [R -> R \cup {none}]]

Linked(R, K, root, none, w, i) ==
  /\ w \in Links(R, none)
  /\ \E V : /\ Searched(R, K, root, w.stack, V) /\ w.visited = Cardinality(V)
            /\ w.stack = <<>> \/ w.visited = i
            /\ \A u \in V, r \in R : ChildOf(K, u, r) => w.parent[r] = u
            /\ w.parent[root] = none

\* A round of the search that sets parents visits one node more.
LEMMA LinkingRound ==
  ASSUME NEW R, NEW K, NEW root, NEW rank, IsTree(R, K, root, rank), NEW none,
         NEW w, NEW i \in Nat, Linked(R, K, root, none, w, i), w.stack # <<>>
  PROVE  Linked(R, K, root, none, Linking(R, K, w), i + 1)
<1>1. PICK V : /\ Searched(R, K, root, w.stack, V) /\ w.visited = Cardinality(V)
               /\ w.stack = <<>> \/ w.visited = i
               /\ \A u \in V, r \in R : ChildOf(K, u, r) => w.parent[r] = u
               /\ w.parent[root] = none
  BY DEF Linked
<1>2. PICK x : x = Last(w.stack)
  OBVIOUS
<1>3. /\ x \in R /\ x \notin V /\ Searched(R, K, root, Front(w.stack) \o K[x], V \cup {x})
  BY <1>1, <1>2, SearchRound
<1>4. w.visited \in Nat /\ w.parent \in [R -> R \cup {none}] /\ w.visited = i
  BY <1>1 DEF Linked, Links
<1>5. IsFiniteSet(V) /\ Cardinality(V \cup {x}) = i + 1
  <2>1. V \subseteq R /\ IsFiniteSet(R)
    BY <1>1 DEF Searched, IsTree
  <2>2. IsFiniteSet(V)
    BY <2>1, FS_Subset
  <2> QED
    BY <1>1, <1>3, <1>4, <2>2, FS_AddElement
<1>6. PICK st : st = Front(w.stack) \o K[x]
  OBVIOUS
<1>7. PICK p : p = [c \in R |-> IF ChildOf(K, x, c) THEN x ELSE w.parent[c]]
  OBVIOUS
<1>8. Linking(R, K, w) = [stack |-> st, visited |-> i + 1, parent |-> p]
  BY <1>2, <1>4, <1>6, <1>7 DEF Linking
<1>9. st \in Seq(R)
  BY <1>3, <1>6 DEF Searched
<1>10. p \in [R -> R \cup {none}]
  BY <1>3, <1>4, <1>7
<1>11. \A u \in V \cup {x}, r \in R : ChildOf(K, u, r) => p[r] = u
  <2> SUFFICES ASSUME NEW u \in V \cup {x}, NEW r \in R, ChildOf(K, u, r) PROVE p[r] = u
    OBVIOUS
  <2>1. CASE u = x
    BY <1>7, <2>1
  <2>2. CASE u # x
    <3>1. u \in V /\ u \in R
      BY <1>1, <2>2 DEF Searched
    <3>2. ~ChildOf(K, x, r)
      BY <1>3, <2>2, <3>1 DEF ChildOf, IsTree
    <3> QED
      BY <1>1, <1>7, <3>1, <3>2
  <2> QED
    BY <2>1, <2>2
<1>12. p[root] = none
  <2>1. root \in R /\ ~ChildOf(K, x, root)
    BY <1>3 DEF ChildOf, IsTree
  <2> QED
    BY <1>1, <1>7, <2>1
<1>13. PICK v : v = Linking(R, K, w)
  OBVIOUS
<1>14. v \in Links(R, none) /\ v.stack = st /\ v.visited = i + 1 /\ v.parent = p
  BY <1>4, <1>8, <1>9, <1>10, <1>13 DEF Links
<1>15. Linked(R, K, root, none, v, i + 1)
  BY <1>3, <1>5, <1>6, <1>11, <1>12, <1>14 DEF Linked
<1> QED
  BY <1>13, <1>15

\* A node that has been taken does not wait, and there are no more than R.
LEMMA LinkingEnds ==
  ASSUME NEW R, NEW K, NEW root, NEW rank, IsTree(R, K, root, rank), NEW none,
         NEW w, Linked(R, K, root, none, w, Cardinality(R) + 1)
  PROVE  /\ w.visited = Cardinality(R) /\ w.parent[root] = none
         /\ \A u \in R, r \in R : ChildOf(K, u, r) => w.parent[r] = u
<1>1. PICK V : /\ Searched(R, K, root, w.stack, V) /\ w.visited = Cardinality(V)
               /\ w.stack = <<>> \/ w.visited = Cardinality(R) + 1
               /\ \A u \in V, r \in R : ChildOf(K, u, r) => w.parent[r] = u
               /\ w.parent[root] = none
  BY DEF Linked
<1>2. V \subseteq R /\ IsFiniteSet(R)
  BY <1>1 DEF Searched, IsTree
<1>3. Cardinality(V) \in Nat /\ Cardinality(R) \in Nat /\ Cardinality(V) <= Cardinality(R)
  BY <1>2, FS_Subset, FS_CardinalityType
<1>4. w.stack = <<>>
  BY <1>1, <1>3
<1>5. V = R
  BY <1>1, <1>4, SearchEnds
<1> QED
  BY <1>1, <1>5

\* The loop of finish, as a function of the round.
LEMMA LinkingRuns ==
  ASSUME NEW R, NEW K, NEW root, NEW rank, IsTree(R, K, root, rank), NEW none, NEW N \in Nat, NEW f,
         f[0] = [stack |-> <<root>>, visited |-> 0, parent |-> [r \in R |-> none]],
         \A i \in 1..N : f[i - 1] \in Links(R, none) =>
           f[i] = IF f[i - 1].stack = <<>> THEN f[i - 1] ELSE Linking(R, K, f[i - 1])
  PROVE  Linked(R, K, root, none, f[N], N)
<1> DEFINE P == {n \in Nat : n <= N => Linked(R, K, root, none, f[n], n)}
<1>1. Linked(R, K, root, none, f[0], 0)
  <2>1. root \in R
    BY DEF IsTree
  <2>2. f[0] \in Links(R, none) /\ f[0].stack = <<root>> /\ f[0].visited = 0 /\ f[0].parent[root] = none
    BY <2>1 DEF Links
  <2>3. Searched(R, K, root, <<root>>, {})
    BY SearchStarts
  <2>4. Cardinality({}) = 0
    BY FS_EmptySet
  <2>5. PICK w : w = f[0]
    OBVIOUS
  <2>6. Linked(R, K, root, none, w, 0)
    BY <2>2, <2>3, <2>4, <2>5 DEF Linked
  <2> QED
    BY <2>5, <2>6
<1>2. ASSUME NEW n \in Nat, n < N, Linked(R, K, root, none, f[n], n)
      PROVE  Linked(R, K, root, none, f[n + 1], n + 1)
  <2>1. n + 1 \in 1..N /\ (n + 1) - 1 = n
    BY <1>2
  <2>2. PICK w : w = f[n]
    OBVIOUS
  <2>3. Linked(R, K, root, none, w, n) /\ w \in Links(R, none)
    BY <1>2, <2>2 DEF Linked
  <2>4. f[n + 1] = IF w.stack = <<>> THEN w ELSE Linking(R, K, w)
    BY <2>1, <2>2, <2>3
  <2>5. CASE w.stack = <<>>
    <3>1. Linked(R, K, root, none, w, n + 1)
      BY <2>3, <2>5 DEF Linked
    <3> QED
      BY <2>4, <2>5, <3>1
  <2>6. CASE w.stack # <<>>
    <3>1. Linked(R, K, root, none, Linking(R, K, w), n + 1)
      BY <2>3, <2>6, LinkingRound
    <3> QED
      BY <2>4, <2>6, <3>1
  <2> QED
    BY <2>5, <2>6
<1>3. \A n \in Nat : (\A k \in Nat : k < n => k \in P) => n \in P
  <2> SUFFICES ASSUME NEW n \in Nat, \A k \in Nat : k < n => k \in P, n <= N
               PROVE  Linked(R, K, root, none, f[n], n)
    OBVIOUS
  <2>1. CASE n = 0
    BY <1>1, <2>1
  <2>2. CASE n # 0
    <3>1. PICK m \in Nat : m = n - 1
      BY <2>2
    <3>2. m < n /\ m + 1 = n /\ m < N /\ m <= N
      BY <3>1
    <3>3. Linked(R, K, root, none, f[m], m)
      BY <3>2
    <3>4. Linked(R, K, root, none, f[m + 1], m + 1)
      BY <1>2, <3>2, <3>3
    <3> QED
      BY <3>2, <3>4
  <2> QED
    BY <2>1, <2>2
<1>4. Nat \subseteq P
  <2> HIDE DEF P
  <2> QED
    BY <1>3, SetInduction
<1> QED
  BY <1>4

\* A search that lists the nodes it takes.
Listing(K, d) ==
  LET r == Last(d.stack) IN [stack |-> Front(d.stack) \o K[r], out |-> Append(d.out, r)]

Lists(R) == [stack : Seq(R), out : Seq(R)]

Listed(R, K, root, d, i) ==
  /\ d \in Lists(R)
  /\ \E V : /\ Searched(R, K, root, d.stack, V) /\ Len(d.out) = Cardinality(V)
            /\ d.stack = <<>> \/ Len(d.out) = i

\* A round of the walk lists one node more.
LEMMA ListingRound ==
  ASSUME NEW R, NEW K, NEW root, NEW rank, IsTree(R, K, root, rank),
         NEW d, NEW i \in Nat, Listed(R, K, root, d, i), d.stack # <<>>
  PROVE  Listed(R, K, root, Listing(K, d), i + 1)
<1>1. PICK V : /\ Searched(R, K, root, d.stack, V) /\ Len(d.out) = Cardinality(V)
               /\ d.stack = <<>> \/ Len(d.out) = i
  BY DEF Listed
<1>2. PICK x : x = Last(d.stack)
  OBVIOUS
<1>3. /\ x \in R /\ x \notin V /\ Searched(R, K, root, Front(d.stack) \o K[x], V \cup {x})
  BY <1>1, <1>2, SearchRound
<1>4. d.out \in Seq(R) /\ Len(d.out) = i
  BY <1>1 DEF Listed, Lists
<1>5. Cardinality(V \cup {x}) = i + 1
  <2>1. V \subseteq R /\ IsFiniteSet(R)
    BY <1>1 DEF Searched, IsTree
  <2>2. IsFiniteSet(V)
    BY <2>1, FS_Subset
  <2> QED
    BY <1>1, <1>3, <1>4, <2>2, FS_AddElement
<1>6. PICK st : st = Front(d.stack) \o K[x]
  OBVIOUS
<1>7. PICK o : o = Append(d.out, x)
  OBVIOUS
<1>8. Listing(K, d) = [stack |-> st, out |-> o]
  BY <1>2, <1>6, <1>7 DEF Listing
<1>9. st \in Seq(R) /\ o \in Seq(R) /\ Len(o) = i + 1
  <2>1. st \in Seq(R)
    BY <1>3, <1>6 DEF Searched
  <2> QED
    BY <1>3, <1>4, <1>7, <2>1
<1>10. PICK v : v = Listing(K, d)
  OBVIOUS
<1>11. v \in Lists(R) /\ v.stack = st /\ v.out = o
  BY <1>8, <1>9, <1>10 DEF Lists
<1>12. Listed(R, K, root, v, i + 1)
  BY <1>3, <1>5, <1>6, <1>9, <1>11 DEF Listed
<1> QED
  BY <1>10, <1>12

\* A walk with one round more than there are nodes has listed every node.
LEMMA ListingEnds ==
  ASSUME NEW R, NEW K, NEW root, NEW rank, IsTree(R, K, root, rank),
         NEW d, Listed(R, K, root, d, Cardinality(R) + 1)
  PROVE  Len(d.out) = Cardinality(R)
<1>1. PICK V : /\ Searched(R, K, root, d.stack, V) /\ Len(d.out) = Cardinality(V)
               /\ d.stack = <<>> \/ Len(d.out) = Cardinality(R) + 1
  BY DEF Listed
<1>2. V \subseteq R /\ IsFiniteSet(R)
  BY <1>1 DEF Searched, IsTree
<1>3. Cardinality(V) \in Nat /\ Cardinality(R) \in Nat /\ Cardinality(V) <= Cardinality(R)
  BY <1>2, FS_Subset, FS_CardinalityType
<1>4. d.stack = <<>>
  BY <1>1, <1>3
<1>5. V = R
  BY <1>1, <1>4, SearchEnds
<1> QED
  BY <1>1, <1>5

\* The walk holds after any number of rounds.
LEMMA ListingRuns ==
  ASSUME NEW R, NEW K, NEW root, NEW rank, IsTree(R, K, root, rank), NEW N \in Nat, NEW f,
         f[0] = [stack |-> <<root>>, out |-> <<>>],
         \A i \in 1..N : f[i - 1] \in Lists(R) =>
           f[i] = IF f[i - 1].stack = <<>> THEN f[i - 1] ELSE Listing(K, f[i - 1])
  PROVE  Listed(R, K, root, f[N], N)
<1> DEFINE P == {n \in Nat : n <= N => Listed(R, K, root, f[n], n)}
<1>1. Listed(R, K, root, f[0], 0)
  <2>1. root \in R
    BY DEF IsTree
  <2>2. f[0] \in Lists(R) /\ f[0].stack = <<root>> /\ Len(f[0].out) = 0
    BY <2>1 DEF Lists
  <2>3. Searched(R, K, root, <<root>>, {})
    BY SearchStarts
  <2>4. Cardinality({}) = 0
    BY FS_EmptySet
  <2>5. PICK w : w = f[0]
    OBVIOUS
  <2>6. Listed(R, K, root, w, 0)
    BY <2>2, <2>3, <2>4, <2>5 DEF Listed
  <2> QED
    BY <2>5, <2>6
<1>2. ASSUME NEW n \in Nat, n < N, Listed(R, K, root, f[n], n)
      PROVE  Listed(R, K, root, f[n + 1], n + 1)
  <2>1. n + 1 \in 1..N /\ (n + 1) - 1 = n
    BY <1>2
  <2>2. PICK w : w = f[n]
    OBVIOUS
  <2>3. Listed(R, K, root, w, n) /\ w \in Lists(R)
    BY <1>2, <2>2 DEF Listed
  <2>4. f[n + 1] = IF w.stack = <<>> THEN w ELSE Listing(K, w)
    BY <2>1, <2>2, <2>3
  <2>5. CASE w.stack = <<>>
    <3>1. Listed(R, K, root, w, n + 1)
      BY <2>3, <2>5 DEF Listed
    <3> QED
      BY <2>4, <2>5, <3>1
  <2>6. CASE w.stack # <<>>
    <3>1. Listed(R, K, root, Listing(K, w), n + 1)
      BY <2>3, <2>6, ListingRound
    <3> QED
      BY <2>4, <2>6, <3>1
  <2> QED
    BY <2>5, <2>6
<1>3. \A n \in Nat : (\A k \in Nat : k < n => k \in P) => n \in P
  <2> SUFFICES ASSUME NEW n \in Nat, \A k \in Nat : k < n => k \in P, n <= N
               PROVE  Listed(R, K, root, f[n], n)
    OBVIOUS
  <2>1. CASE n = 0
    BY <1>1, <2>1
  <2>2. CASE n # 0
    <3>1. PICK m \in Nat : m = n - 1
      BY <2>2
    <3>2. m < n /\ m + 1 = n /\ m < N /\ m <= N
      BY <3>1
    <3>3. Listed(R, K, root, f[m], m)
      BY <3>2
    <3>4. Listed(R, K, root, f[m + 1], m + 1)
      BY <1>2, <3>2, <3>3
    <3> QED
      BY <3>2, <3>4
  <2> QED
    BY <2>1, <2>2
<1>4. Nat \subseteq P
  <2> HIDE DEF P
  <2> QED
    BY <1>3, SetInduction
<1> QED
  BY <1>4

\* The children in reverse are those of the same tree.
LEMMA ReverseSeq ==
  ASSUME NEW X, NEW s \in Seq(X)
  PROVE  /\ Reverse(s) \in Seq(X) /\ DOMAIN Reverse(s) = 1..Len(s) /\ DOMAIN s = 1..Len(s) /\ Len(s) \in Nat
         /\ \A i \in 1..Len(s) : Len(s) - i + 1 \in 1..Len(s) /\ Reverse(s)[i] = s[Len(s) - i + 1]
         /\ \A i \in 1..Len(s) : s[i] = Reverse(s)[Len(s) - i + 1]
<1>1. Len(s) \in Nat /\ DOMAIN s = 1..Len(s) /\ \A i \in 1..Len(s) : s[i] \in X
  OBVIOUS
<1>2. \A i \in 1..Len(s) : Len(s) - i + 1 \in 1..Len(s) /\ Len(s) - (Len(s) - i + 1) + 1 = i
  BY <1>1
<1>3. Reverse(s) = [i \in 1..Len(s) |-> s[Len(s) - i + 1]]
  BY DEF Reverse
<1>4. Reverse(s) \in Seq(X)
  BY <1>1, <1>2, <1>3
<1> QED
  BY <1>1, <1>2, <1>3, <1>4

\* A tree with the children of every node turned around is a tree.
LEMMA ReverseTree ==
  ASSUME NEW R, NEW K, NEW root, NEW rank, IsTree(R, K, root, rank)
  PROVE  IsTree(R, [r \in R |-> Reverse(K[r])], root, rank)
<1>1. PICK L : L = [r \in R |-> Reverse(K[r])]
  OBVIOUS
<1>2. \A r \in R : K[r] \in Seq(R) /\ L[r] = Reverse(K[r])
  BY <1>1 DEF IsTree
<1>3. \A r \in R : /\ L[r] \in Seq(R) /\ DOMAIN L[r] = 1..Len(K[r]) /\ DOMAIN K[r] = 1..Len(K[r]) /\ Len(K[r]) \in Nat
                   /\ \A i \in 1..Len(K[r]) : Len(K[r]) - i + 1 \in 1..Len(K[r]) /\ L[r][i] = K[r][Len(K[r]) - i + 1]
                   /\ \A i \in 1..Len(K[r]) : K[r][i] = L[r][Len(K[r]) - i + 1]
  <2> SUFFICES ASSUME NEW r \in R
               PROVE  /\ L[r] \in Seq(R) /\ DOMAIN L[r] = 1..Len(K[r]) /\ DOMAIN K[r] = 1..Len(K[r]) /\ Len(K[r]) \in Nat
                      /\ \A i \in 1..Len(K[r]) : Len(K[r]) - i + 1 \in 1..Len(K[r]) /\ L[r][i] = K[r][Len(K[r]) - i + 1]
                      /\ \A i \in 1..Len(K[r]) : K[r][i] = L[r][Len(K[r]) - i + 1]
    BY Zenon
  <2>0. PICK s \in Seq(R) : s = K[r] /\ L[r] = Reverse(s)
    BY <1>2, Zenon
  <2>1. PICK t : t = Reverse(s) /\ L[r] = t
    BY <2>0, Zenon
  <2>2. /\ t \in Seq(R) /\ DOMAIN t = 1..Len(s) /\ DOMAIN s = 1..Len(s) /\ Len(s) \in Nat
        /\ \A i \in 1..Len(s) : Len(s) - i + 1 \in 1..Len(s) /\ t[i] = s[Len(s) - i + 1]
        /\ \A i \in 1..Len(s) : s[i] = t[Len(s) - i + 1]
    <3>1. t = Reverse(s)
      BY <2>1
    <3> QED
      BY <3>1, ReverseSeq, Zenon
  <2>3. s = K[r] /\ t = L[r]
    BY <2>0, <2>1
  <2> QED
    BY <2>2, <2>3
<1>4. L \in [R -> Seq(R)]
  BY <1>1, <1>3
<1>a. \A r \in R : \A i \in DOMAIN L[r] :
        /\ i \in 1..Len(K[r]) /\ Len(K[r]) - i + 1 \in DOMAIN K[r] /\ L[r][i] = K[r][Len(K[r]) - i + 1]
  BY <1>3
<1>5. \A u, v \in R : \A i \in DOMAIN L[u], j \in DOMAIN L[v] : L[u][i] = L[v][j] => u = v /\ i = j
  <2> SUFFICES ASSUME NEW u \in R, NEW v \in R, NEW i \in DOMAIN L[u], NEW j \in DOMAIN L[v], L[u][i] = L[v][j]
               PROVE  u = v /\ i = j
    OBVIOUS
  <2>1. PICK p \in DOMAIN K[u] : p = Len(K[u]) - i + 1 /\ L[u][i] = K[u][p]
    BY <1>a, Zenon
  <2>2. PICK q \in DOMAIN K[v] : q = Len(K[v]) - j + 1 /\ L[v][j] = K[v][q]
    BY <1>a, Zenon
  <2>3. u = v /\ p = q
    <3>1. K[u][p] = K[v][q]
      BY <2>1, <2>2
    <3>2. \A x, y \in R : \A a \in DOMAIN K[x], b \in DOMAIN K[y] : K[x][a] = K[y][b] => x = y /\ a = b
      BY Zenon DEF IsTree
    <3> QED
      BY <3>1, <3>2, Zenon
  <2>4. i \in 1..Len(K[u]) /\ j \in 1..Len(K[u]) /\ Len(K[u]) \in Nat
    BY <1>3, <2>3
  <2> QED
    BY <2>1, <2>2, <2>3, <2>4
<1>6. \A u \in R : \A i \in DOMAIN L[u] : L[u][i] # root
  <2>1. \A u \in R : \A i \in DOMAIN K[u] : K[u][i] # root
    BY DEF IsTree
  <2> SUFFICES ASSUME NEW u \in R, NEW i \in DOMAIN L[u] PROVE L[u][i] # root
    OBVIOUS
  <2>2. PICK p \in DOMAIN K[u] : L[u][i] = K[u][p]
    BY <1>a, Zenon
  <2> QED
    BY <2>1, <2>2
<1>7. \A r \in R \ {root} : \E u \in R : \E i \in DOMAIN L[u] : L[u][i] = r /\ rank[u] < rank[r]
  <2> SUFFICES ASSUME NEW r \in R \ {root} PROVE \E u \in R : \E i \in DOMAIN L[u] : L[u][i] = r /\ rank[u] < rank[r]
    OBVIOUS
  <2>1. PICK u \in R : \E i \in DOMAIN K[u] : K[u][i] = r /\ rank[u] < rank[r]
    BY DEF IsTree
  <2>2. PICK i \in DOMAIN K[u] : K[u][i] = r /\ rank[u] < rank[r]
    BY <2>1
  <2>3. Len(K[u]) - i + 1 \in DOMAIN L[u] /\ L[u][Len(K[u]) - i + 1] = r
    BY <1>3, <2>2
  <2> QED
    BY <2>2, <2>3
<1>8. IsTree(R, L, root, rank)
  BY <1>4, <1>5, <1>6, <1>7 DEF IsTree
<1> QED
  BY <1>1, <1>8

Total == Len(exprs) + Len(stmts)

\* There are as many nodes as the arenas hold.
LEMMA RefsCounted ==
  ASSUME IsSeq(exprs), IsSeq(stmts)
  PROVE  IsFiniteSet(Refs) /\ Cardinality(Refs) = Total /\ Total \in Nat
<1>1. PICK n, m \in Nat : n = Len(exprs) /\ m = Len(stmts) /\ DOMAIN exprs = 1..n /\ DOMAIN stmts = 1..m
  BY DEF IsSeq
<1> DEFINE es == {E(i) : i \in 1..n}
           ss == {S(i) : i \in 1..m}
           f == [i \in 1..n |-> E(i)]
           g == [i \in 1..m |-> S(i)]
<1>2. IsFiniteSet(1..n) /\ Cardinality(1..n) = n /\ IsFiniteSet(1..m) /\ Cardinality(1..m) = m
  BY FS_Interval
<1>3. f \in Bijection(1..n, es)
  <2>1. f \in [1..n -> es]
    OBVIOUS
  <2>2. \A a, b \in 1..n : f[a] = f[b] => a = b
    BY DEF E
  <2>3. \A t \in es : \E a \in 1..n : f[a] = t
    OBVIOUS
  <2> QED
    BY <2>1, <2>2, <2>3, Zenon DEF Bijection, Injection, Surjection, IsInjective
<1>4. g \in Bijection(1..m, ss)
  <2>1. g \in [1..m -> ss]
    OBVIOUS
  <2>2. \A a, b \in 1..m : g[a] = g[b] => a = b
    BY DEF S
  <2>3. \A t \in ss : \E a \in 1..m : g[a] = t
    OBVIOUS
  <2> QED
    BY <2>1, <2>2, <2>3, Zenon DEF Bijection, Injection, Surjection, IsInjective
<1>5. IsFiniteSet(es) /\ Cardinality(es) = n
  <2> HIDE DEF es, ss, f, g
  <2>1. ExistsBijection(1..n, es)
    BY <1>3, Fun_ExistsBij
  <2> QED
    BY <1>2, <2>1, FS_Bijection
<1>6. IsFiniteSet(ss) /\ Cardinality(ss) = m
  <2> HIDE DEF es, ss, f, g
  <2>1. ExistsBijection(1..m, ss)
    BY <1>4, Fun_ExistsBij
  <2> QED
    BY <1>2, <2>1, FS_Bijection
<1>7. es \cap ss = {}
  BY DEF E, S
<1>8. Refs = es \cup ss
  BY <1>1 DEF Refs
<1> HIDE DEF es, ss
<1>9. IsFiniteSet(es \cup ss) /\ Cardinality(es \cup ss) = n + m - Cardinality(es \cap ss)
  BY <1>5, <1>6, FS_Union
<1>10. Cardinality(es \cap ss) = 0
  BY <1>7, FS_EmptySet
<1> QED
  BY <1>1, <1>8, <1>9, <1>10 DEF Total

\* The children of the nodes, and the order they were met in.
Kids  == [r \in Refs |-> Children(r)]
Ranks == [r \in Refs |-> Node(r).src]

\* CtreeBuilder::finish visits every node once and links it to its parent.
LEMMA WireLinks ==
  ASSUME IsSeq(exprs), IsSeq(stmts), NEW h, NEW rank, IsTree(Refs, Kids, S(h), rank)
  PROVE  /\ Wire(h).visited = Total /\ Wire(h).parent[S(h)] = NoParent
         /\ \A u \in Refs : \A i \in DOMAIN Children(u) : Wire(h).parent[Children(u)[i]] = u
<1>1. IsFiniteSet(Refs) /\ Cardinality(Refs) = Total /\ Total \in Nat
  BY RefsCounted
<1>2. PICK R, K, N : R = Refs /\ K = Kids /\ N = Total + 1
  OBVIOUS
<1>3. N \in Nat /\ N = Cardinality(R) + 1 /\ IsTree(R, K, S(h), rank)
  BY <1>1, <1>2
<1>4. K \in [R -> Seq(R)] /\ S(h) \in R /\ \A r \in R : K[r] = Children(r)
  BY <1>2, <1>3 DEF IsTree, Kids
<1> DEFINE W == Links(R, NoParent)
           a == [stack |-> <<S(h)>>, visited |-> 0, parent |-> [r \in Refs |-> NoParent]]
           Next1(w) == IF w.stack = <<>> THEN w ELSE WireOne(w)
<1>5. ASSUME NEW w \in W, w.stack # <<>>
      PROVE  WireOne(w) = Linking(R, K, w) /\ WireOne(w) \in W
  <2>1. w.stack \in Seq(R) /\ w.visited \in Nat /\ w.parent \in [R -> R \cup {NoParent}]
    BY DEF Links
  <2>2. PICK r \in R : r = Last(w.stack)
    BY <1>5, <2>1, LastFront
  <2>3. K[r] \in Seq(R) /\ K[r] = Children(r)
    BY <1>4
  <2>4. Front(w.stack) \o K[r] \in Seq(R)
    BY <1>5, <2>1, <2>3, RoundStack
  <2>5. \A c \in R : ChildOf(K, r, c) <=> \E i \in DOMAIN Children(r) : Children(r)[i] = c
    BY <2>3 DEF ChildOf
  <2>6. [c \in R |-> IF ChildOf(K, r, c) THEN r ELSE w.parent[c]]
        = [c \in Refs |-> IF \E i \in DOMAIN Children(r) : Children(r)[i] = c THEN r ELSE w.parent[c]]
    BY <1>2, <2>5
  <2>7. PICK q : q = [c \in R |-> IF ChildOf(K, r, c) THEN r ELSE w.parent[c]]
    OBVIOUS
  <2>8. q \in [R -> R \cup {NoParent}]
    BY <2>1, <2>7
  <2>9. /\ WireOne(w) = [stack |-> Front(w.stack) \o K[r], visited |-> w.visited + 1, parent |-> q]
        /\ Linking(R, K, w) = [stack |-> Front(w.stack) \o K[r], visited |-> w.visited + 1, parent |-> q]
    <3>1. K[r] = Children(r) /\ Last(w.stack) = r
      BY <2>2, <2>3
    <3>2. Linking(R, K, w) = [stack |-> Front(w.stack) \o K[r], visited |-> w.visited + 1, parent |-> q]
      BY <2>7, <3>1, Zenon DEF Linking
    <3>3. q = [c \in Refs |-> IF \E i \in DOMAIN Children(r) : Children(r)[i] = c THEN r ELSE w.parent[c]]
      BY <2>6, <2>7, Zenon
    <3>4. WireOne(w) = [stack |-> Front(w.stack) \o K[r], visited |-> w.visited + 1, parent |-> q]
      BY <3>1, <3>3, Zenon DEF WireOne
    <3> QED
      BY <3>2, <3>4
  <2>10. w.visited + 1 \in Nat
    BY <2>1
  <2>11. [stack |-> Front(w.stack) \o K[r], visited |-> w.visited + 1, parent |-> q] \in W
    BY <2>4, <2>8, <2>10 DEF Links
  <2> QED
    BY <2>9, <2>11
<1>6. a \in W
  <2>1. <<S(h)>> \in Seq(R) /\ [r \in Refs |-> NoParent] \in [R -> R \cup {NoParent}] /\ 0 \in Nat
    BY <1>2, <1>4
  <2> QED
    BY <2>1 DEF Links
<1>7. PICK G : G = [w \in W |-> Next1(w)]
  OBVIOUS
<1>8. G \in [W -> W] /\ \A w \in W : G[w] = Next1(w)
  BY <1>5, <1>7
<1>9. PICK b : b = a
  OBVIOUS
<1> DEFINE IsRound(f) == f = [i \in 0..(Total + 1) |-> IF i = 0 THEN a ELSE Next1(f[i - 1])]
<1>10. \E f : IsRound(f)
  <2>1. PICK f \in [0..N -> Links(R, NoParent)] : f[0] = b /\ \A i \in 1..N : f[i] = G[f[i - 1]]
    <3> HIDE DEF W, a, Next1
    <3>1. b \in W /\ G \in [W -> W]
      BY <1>6, <1>8, <1>9
    <3>2. Repeats(W, b, G, N)
      BY <1>3, <3>1, RepetitionExists
    <3> QED
      BY <3>2 DEF W, Repeats
  <2>2. \A i \in 1..N : f[i] = Next1(f[i - 1])
    <3> SUFFICES ASSUME NEW i \in 1..N PROVE f[i] = Next1(f[i - 1])
      OBVIOUS
    <3>1. i - 1 \in 0..N
      BY <1>3
    <3>2. f[i - 1] \in W
      BY <2>1, <3>1
    <3> QED
      BY <1>8, <2>1, <3>2
  <2>3. \A i \in 0..N : f[i] = IF i = 0 THEN a ELSE Next1(f[i - 1])
    <3>1. \A i \in 0..N : i = 0 \/ i \in 1..N
      BY <1>3
    <3> HIDE DEF a, Next1
    <3> QED
      BY <1>9, <2>1, <2>2, <3>1
  <2>4. f = [i \in 0..N |-> f[i]]
    BY <2>1
  <2>5. IsRound(f)
    <3> HIDE DEF a, Next1
    <3> QED
      BY <1>2, <2>3, <2>4
  <2> QED
    BY <2>5
<1>11. PICK f : IsRound(f) /\ Wire(h) = f[Total + 1]
  <2>1. IsRound(CHOOSE f : IsRound(f))
    BY <1>10, Zenon
  <2>2. Wire(h) = (CHOOSE f : IsRound(f))[Total + 1]
    BY Zenon DEF Wire, Total
  <2> QED
    BY <2>1, <2>2, Zenon
<1>12. f[0] = a /\ \A i \in 1..N : f[i] = Next1(f[i - 1])
  <2> HIDE DEF a, Next1
  <2>1. \A i \in 0..N : f[i] = IF i = 0 THEN a ELSE Next1(f[i - 1])
    BY <1>2, <1>11
  <2>2. 0 \in 0..N /\ \A i \in 1..N : i \in 0..N /\ i # 0
    BY <1>3
  <2> QED
    BY <2>1, <2>2
<1>13. \A i \in 1..N : f[i - 1] \in Links(R, NoParent) =>
         f[i] = IF f[i - 1].stack = <<>> THEN f[i - 1] ELSE Linking(R, K, f[i - 1])
  BY <1>5, <1>12
<1>14. f[0] = [stack |-> <<S(h)>>, visited |-> 0, parent |-> [r \in R |-> NoParent]]
  BY <1>2, <1>12
<1>15. Linked(R, K, S(h), NoParent, f[N], N)
  BY <1>3, <1>13, <1>14, LinkingRuns
<1>16. PICK w : w = f[N]
  OBVIOUS
<1>17. /\ w.visited = Cardinality(R) /\ w.parent[S(h)] = NoParent
       /\ \A u \in R, r \in R : ChildOf(K, u, r) => w.parent[r] = u
  BY <1>3, <1>15, <1>16, LinkingEnds
<1>18. w = Wire(h)
  BY <1>2, <1>11, <1>16
<1>19. \A u \in Refs : \A i \in DOMAIN Children(u) : w.parent[Children(u)[i]] = u
  <2> SUFFICES ASSUME NEW u \in R, NEW i \in DOMAIN Children(u) PROVE w.parent[Children(u)[i]] = u
    BY <1>2
  <2>1. K[u] \in Seq(R) /\ K[u] = Children(u)
    BY <1>4
  <2>2. Children(u)[i] \in R /\ ChildOf(K, u, Children(u)[i])
    BY <2>1 DEF ChildOf
  <2> QED
    BY <1>17, <2>2
<1> QED
  BY <1>1, <1>2, <1>17, <1>18, <1>19

\* Descendants of the root yields every node.
LEMMA DescendantsCounted ==
  ASSUME IsSeq(exprs), IsSeq(stmts), NEW h, NEW rank, IsTree(Refs, Kids, S(h), rank)
  PROVE  Len(Descendants(S(h))) = Total
<1>1. IsFiniteSet(Refs) /\ Cardinality(Refs) = Total /\ Total \in Nat
  BY RefsCounted
<1>2. PICK R, K, N : R = Refs /\ K = Kids /\ N = Total + 1
  OBVIOUS
<1>3. N \in Nat /\ N = Cardinality(R) + 1 /\ IsTree(R, K, S(h), rank)
  BY <1>1, <1>2
<1>4. PICK L : L = [r \in R |-> Reverse(K[r])]
  OBVIOUS
<1>5. IsTree(R, L, S(h), rank)
  BY <1>3, <1>4, ReverseTree
<1>6. L \in [R -> Seq(R)] /\ S(h) \in R /\ \A r \in R : L[r] = Reverse(Children(r))
  BY <1>2, <1>4, <1>5 DEF IsTree, Kids
<1> DEFINE W == Lists(R)
           a == [stack |-> <<S(h)>>, out |-> <<>>]
           Next1(d) == IF d.stack = <<>> THEN d ELSE DescendantsNext(d)
<1>7. ASSUME NEW d \in W, d.stack # <<>>
      PROVE  DescendantsNext(d) = Listing(L, d) /\ DescendantsNext(d) \in W
  <2>1. d.stack \in Seq(R) /\ d.out \in Seq(R)
    BY DEF Lists
  <2>2. PICK r \in R : r = Last(d.stack)
    BY <1>7, <2>1, LastFront
  <2>3. L[r] \in Seq(R) /\ L[r] = Reverse(Children(r))
    BY <1>6
  <2>4. Front(d.stack) \o L[r] \in Seq(R)
    BY <1>7, <2>1, <2>3, RoundStack
  <2>5. /\ DescendantsNext(d) = [stack |-> Front(d.stack) \o L[r], out |-> Append(d.out, r)]
        /\ Listing(L, d) = [stack |-> Front(d.stack) \o L[r], out |-> Append(d.out, r)]
    BY <2>2, <2>3 DEF DescendantsNext, Listing
  <2>6. Append(d.out, r) \in Seq(R)
    BY <2>1
  <2>7. [stack |-> Front(d.stack) \o L[r], out |-> Append(d.out, r)] \in W
    BY <2>4, <2>6 DEF Lists
  <2> QED
    BY <2>5, <2>7
<1>8. a \in W
  BY <1>6 DEF Lists
<1>9. PICK G : G = [d \in W |-> Next1(d)]
  OBVIOUS
<1>10. G \in [W -> W] /\ \A d \in W : G[d] = Next1(d)
  BY <1>7, <1>9
<1>11. PICK b : b = a
  OBVIOUS
<1> DEFINE IsStep(f) == f = [i \in 0..(Total + 1) |-> IF i = 0 THEN a ELSE Next1(f[i - 1])]
<1>12. \E f : IsStep(f)
  <2>1. PICK f \in [0..N -> Lists(R)] : f[0] = b /\ \A i \in 1..N : f[i] = G[f[i - 1]]
    <3> HIDE DEF W, a, Next1
    <3>1. b \in W /\ G \in [W -> W]
      BY <1>8, <1>10, <1>11
    <3>2. Repeats(W, b, G, N)
      BY <1>3, <3>1, RepetitionExists
    <3> QED
      BY <3>2 DEF W, Repeats
  <2>2. \A i \in 1..N : f[i] = Next1(f[i - 1])
    <3> SUFFICES ASSUME NEW i \in 1..N PROVE f[i] = Next1(f[i - 1])
      OBVIOUS
    <3>1. i - 1 \in 0..N
      BY <1>3
    <3>2. f[i - 1] \in W
      BY <2>1, <3>1
    <3> QED
      BY <1>10, <2>1, <3>2
  <2>3. \A i \in 0..N : f[i] = IF i = 0 THEN a ELSE Next1(f[i - 1])
    <3>1. \A i \in 0..N : i = 0 \/ i \in 1..N
      BY <1>3
    <3> HIDE DEF a, Next1
    <3> QED
      BY <1>11, <2>1, <2>2, <3>1
  <2>4. f = [i \in 0..N |-> f[i]]
    BY <2>1
  <2>5. IsStep(f)
    <3> HIDE DEF a, Next1
    <3> QED
      BY <1>2, <2>3, <2>4
  <2> QED
    BY <2>5
<1>13. PICK f : IsStep(f) /\ Descendants(S(h)) = f[Total + 1].out
  <2>1. IsStep(CHOOSE f : IsStep(f))
    BY <1>12, Zenon
  <2>2. Descendants(S(h)) = (CHOOSE f : IsStep(f))[Total + 1].out
    BY Zenon DEF Descendants, Total
  <2> QED
    BY <2>1, <2>2, Zenon
<1>14. f[0] = a /\ \A i \in 1..N : f[i] = Next1(f[i - 1])
  <2> HIDE DEF a, Next1
  <2>1. \A i \in 0..N : f[i] = IF i = 0 THEN a ELSE Next1(f[i - 1])
    BY <1>2, <1>13
  <2>2. 0 \in 0..N /\ \A i \in 1..N : i \in 0..N /\ i # 0
    BY <1>3
  <2> QED
    BY <2>1, <2>2
<1>15. \A i \in 1..N : f[i - 1] \in Lists(R) =>
         f[i] = IF f[i - 1].stack = <<>> THEN f[i - 1] ELSE Listing(L, f[i - 1])
  BY <1>7, <1>14
<1>16. Listed(R, L, S(h), f[N], N)
  BY <1>3, <1>5, <1>14, <1>15, ListingRuns
<1>17. PICK d : d = f[N]
  OBVIOUS
<1>18. Len(d.out) = Cardinality(R)
  BY <1>3, <1>5, <1>16, <1>17, ListingEnds
<1> QED
  BY <1>1, <1>2, <1>13, <1>17, <1>18

(***************************************************************************)
(* Where every node is: in a frame that waits for its siblings, or among   *)
(* the children of a node.                                                 *)
(***************************************************************************)
SlotsIn(sd, n) == IF n = 0 THEN <<"b">> ELSE sd[n].slots
RefsIn(ex, sm) == {E(i) : i \in DOMAIN ex} \cup {S(i) : i \in DOMAIN sm}
NodeIn(ex, sm, u) == IF u[1] = "e" THEN ex[u[2]] ELSE sm[u[2]]
KidsIn(ex, sm, u) == IF u[1] = "e" THEN ExprChildren(ex[u[2]].kind) ELSE StmtChildren(sm[u[2]].kind)

FrameHolds(st, sd, k, i, r) ==
  /\ k \in 1..Len(st) /\ i \in 1..Len(st[k].got) /\ st[k].got[i] # NONE
  /\ r = RefOf(SlotsIn(sd, st[k].node)[i], st[k].got[i])

NodeHolds(ex, sm, u, i, r) ==
  u \in RefsIn(ex, sm) /\ i \in 1..Len(KidsIn(ex, sm, u)) /\ KidsIn(ex, sm, u)[i] = r

F(k) == <<"f", k>>

Holds(st, sd, ex, sm, h, i, r) ==
  \/ \E k \in 1..Len(st) : h = F(k) /\ FrameHolds(st, sd, k, i, r)
  \/ NodeHolds(ex, sm, h, i, r)

\* Every node is held in exactly one place, by something met before it.
Placed(st, sd, ex, sm) ==
  /\ \A r \in RefsIn(ex, sm) : \E h, i : Holds(st, sd, ex, sm, h, i, r)
  /\ \A h, g, i, j, r : Holds(st, sd, ex, sm, h, i, r) /\ Holds(st, sd, ex, sm, g, j, r) => h = g /\ i = j
  /\ \A k, i, r : FrameHolds(st, sd, k, i, r) => r \in RefsIn(ex, sm) /\ st[k].node < NodeIn(ex, sm, r).src
  /\ \A u, i, r : NodeHolds(ex, sm, u, i, r) =>
                    r \in RefsIn(ex, sm) /\ NodeIn(ex, sm, u).src < NodeIn(ex, sm, r).src

\* A frame has a handle for each slot it visited, and the rest to visit.
Fit(f, sl) ==
  /\ Len(f.got) + Len(f.todo) = Len(sl)
  /\ \A j \in 1..Len(f.todo) : f.todo[j] = sl[Len(f.got) + j]
  /\ \A i \in 1..Len(f.got) : f.got[i] = NONE => sl[i] \in {"oe", "os"}

\* The slots of a node are those of its operator.
Slotted(node) == \E m \in Nat : node.slots = IF IsStmt(node.op) THEN StmtSlots(node.op, m) ELSE ExprSlots(node.op, m)

\* A slot for an expression.
ForExpr(slot) == slot \in {"e", "oe"}

Shaped(st, sd) ==
  /\ \A k \in 1..Len(st) : Fit(st[k], SlotsIn(sd, st[k].node))
  /\ \A k \in 1..Len(st) - 1 : /\ st[k].node < st[k + 1].node
                               /\ ForExpr(st[k].todo[1]) <=> ~IsStmt(sd[st[k + 1].node].op)
  /\ \A k \in 2..Len(st) : Slotted(sd[st[k].node])

\* What WalkInv says of the frames and the nodes met.
Framed(st, sd) ==
  /\ st \in Seq(Frame) /\ st # <<>> /\ sd \in Seq(SdkNode) /\ st[1].node = 0
  /\ \A k \in 2..Len(st) : st[k].node \in 1..Len(sd)
  /\ \A k \in 1..Len(st) - 1 : st[k].todo # <<>>

\* The types of the frames and of what they hold.
LEMMA FramedIs ==
  ASSUME NEW st, NEW sd, Framed(st, sd)
  PROVE  /\ Len(st) \in Nat \ {0} /\ Len(sd) \in Nat /\ 1 \in 1..Len(st)
         /\ \A k \in 1..Len(st) : /\ st[k] \in Frame /\ st[k].node \in 0..Len(sd)
                                  /\ st[k].got \in Seq(Nat) /\ st[k].todo \in Seq(SlotKind)
                                  /\ Len(st[k].got) \in Nat /\ Len(st[k].todo) \in Nat
<1>1. st \in Seq(Frame) /\ st # <<>> /\ sd \in Seq(SdkNode)
  BY DEF Framed
<1>2. Len(st) \in Nat \ {0} /\ Len(sd) \in Nat /\ 1 \in 1..Len(st)
  BY <1>1
<1>3. \A k \in 1..Len(st) : st[k] \in Frame
  BY <1>1
<1>4. \A k \in 1..Len(st) : st[k].node \in 0..Len(sd)
  BY <1>2 DEF Framed
<1>5. \A k \in 1..Len(st) : st[k].got \in Seq(Nat) /\ st[k].todo \in Seq(SlotKind)
  BY <1>3 DEF Frame
<1>6. \A k \in 1..Len(st) : Len(st[k].got) \in Nat /\ Len(st[k].todo) \in Nat
  BY <1>5
<1> QED
  BY <1>2, <1>3, <1>4, <1>5, <1>6

\* The frame that takes a handle.
Taken(f, h) == [f EXCEPT !.todo = Tail(@), !.got = Append(@, h)]

\* A frame that takes the handle it waits for still fits its operator.
LEMMA FitTakes ==
  ASSUME NEW f \in Frame, f.todo # <<>>, NEW sl, Fit(f, sl), NEW h \in Nat,
         h = NONE => f.todo[1] \in {"oe", "os"}
  PROVE  /\ Fit(Taken(f, h), sl) /\ f.todo[1] = sl[Len(f.got) + 1]
         /\ Taken(f, h) \in Frame /\ Taken(f, h).node = f.node /\ Taken(f, h).got = Append(f.got, h)
         /\ Len(Taken(f, h).got) = Len(f.got) + 1 /\ Taken(f, h).got[Len(f.got) + 1] = h
         /\ \A i \in 1..Len(f.got) : Taken(f, h).got[i] = f.got[i]
<1>1. f.todo \in Seq(SlotKind) /\ f.got \in Seq(Nat) /\ f.node \in Nat
  BY DEF Frame
<1>2. PICK t, g, n, m : t = f.todo /\ g = f.got /\ n = Len(g) /\ m = Len(t)
  OBVIOUS
<1>3. /\ t \in Seq(SlotKind) /\ g \in Seq(Nat) /\ n \in Nat /\ m \in Nat \ {0} /\ n = Len(g) /\ m = Len(t)
  BY <1>1, <1>2
<1>4. PICK t2, g2 : t2 = Tail(t) /\ g2 = Append(g, h)
  OBVIOUS
<1>5. /\ t2 \in Seq(SlotKind) /\ Len(t2) = m - 1 /\ \A j \in 1..m - 1 : t2[j] = t[j + 1]
      /\ g2 \in Seq(Nat) /\ Len(g2) = n + 1 /\ g2[n + 1] = h /\ \A i \in 1..n : g2[i] = g[i]
  BY <1>3, <1>4
<1>6. PICK f2 : f2 = Taken(f, h)
  OBVIOUS
<1>7. f2 \in Frame /\ f2.node = f.node /\ f2.todo = t2 /\ f2.got = g2
  BY <1>1, <1>2, <1>4, <1>5, <1>6 DEF Taken, Frame
<1>8. /\ n + m = Len(sl)
      /\ \A j \in 1..m : t[j] = sl[n + j]
      /\ \A i \in 1..n : g[i] = NONE => sl[i] \in {"oe", "os"}
  BY <1>2 DEF Fit
<1>9. t[1] = sl[n + 1]
  BY <1>3, <1>8
<1>10. (n + 1) + (m - 1) = Len(sl)
  <2>1. (n + 1) + (m - 1) = n + m
    BY <1>3
  <2> QED
    BY <1>8, <2>1, Zenon
<1>11. \A j \in 1..m - 1 : t2[j] = sl[(n + 1) + j]
  <2> SUFFICES ASSUME NEW j \in 1..m - 1 PROVE t2[j] = sl[(n + 1) + j]
    OBVIOUS
  <2>1. j + 1 \in 1..m /\ n + (j + 1) = (n + 1) + j
    BY <1>3
  <2> QED
    BY <1>5, <1>8, <2>1
<1>12. \A i \in 1..n + 1 : g2[i] = NONE => sl[i] \in {"oe", "os"}
  <2> SUFFICES ASSUME NEW i \in 1..n + 1, g2[i] = NONE PROVE sl[i] \in {"oe", "os"}
    OBVIOUS
  <2>1. CASE i \in 1..n
    BY <1>5, <1>8, <2>1
  <2>2. CASE i = n + 1
    BY <1>2, <1>5, <1>9, <2>2
  <2> QED
    BY <1>3, <2>1, <2>2
<1>13. Fit(f2, sl)
  BY <1>5, <1>7, <1>10, <1>11, <1>12 DEF Fit
<1> QED
  BY <1>2, <1>4, <1>5, <1>6, <1>7, <1>9, <1>13

\* Taking, frame by frame.
LEMMA TakingIs ==
  ASSUME NEW st \in Seq(Frame), st # <<>>, st[Len(st)].todo # <<>>, NEW h \in Nat
  PROVE  /\ Taking(st, h) \in Seq(Frame) /\ Len(Taking(st, h)) = Len(st)
         /\ \A k \in 1..Len(st) - 1 : Taking(st, h)[k] = st[k]
         /\ Taking(st, h)[Len(st)] = Taken(st[Len(st)], h)
<1>1. /\ Taking(st, h) \in Seq(Frame) /\ Len(Taking(st, h)) = Len(st)
      /\ \A k \in 1..Len(st) - 1 : Taking(st, h)[k] = st[k]
  BY TakingFrames
<1>2. /\ Len(st) \in Nat \ {0} /\ Last(st) = st[Len(st)] /\ Front(st) \in Seq(Frame) /\ Len(Front(st)) = Len(st) - 1
      /\ Last(st) \in Frame
  BY LastFront
<1>3. Taking(st, h) = Append(Front(st), Taken(Last(st), h))
  BY DEF Taking, Taken
<1>4. PICK g : g = Taken(Last(st), h)
  OBVIOUS
<1>5. Append(Front(st), g)[Len(st)] = g
  <2>1. PICK q \in Seq(Frame) : q = Front(st)
    BY <1>2
  <2>2. Append(q, g)[Len(q) + 1] = g /\ Len(q) + 1 = Len(st)
    BY <1>2, <2>1
  <2> QED
    BY <2>1, <2>2
<1> QED
  BY <1>1, <1>2, <1>3, <1>4, <1>5

\* The slots of the nodes met stay what they are.
LEMMA SlotsStay ==
  ASSUME NEW sd \in Seq(SdkNode), NEW sd2, sd2 = sd \/ \E node \in SdkNode : sd2 = Append(sd, node)
  PROVE  /\ Len(sd2) \in Nat /\ Len(sd) <= Len(sd2)
         /\ \A n \in 0..Len(sd) : SlotsIn(sd2, n) = SlotsIn(sd, n)
         /\ \A n \in 1..Len(sd) : sd2[n] = sd[n]
<1>1. \A n \in 1..Len(sd) : sd2[n] = sd[n]
  <2>1. CASE sd2 = sd
    BY <2>1, Zenon
  <2>2. CASE \E node \in SdkNode : sd2 = Append(sd, node)
    BY <2>2
  <2> QED
    BY <2>1, <2>2
<1>2. Len(sd2) \in Nat /\ Len(sd) <= Len(sd2) /\ Len(sd) \in Nat
  OBVIOUS
<1>3. \A n \in 0..Len(sd) : n = 0 \/ n \in 1..Len(sd)
  BY <1>2
<1> QED
  BY <1>1, <1>2, <1>3 DEF SlotsIn

\* When no frame takes or loses a node, every node stays in its place.
LEMMA HoldsStay ==
  ASSUME NEW st, NEW sd, NEW ex, NEW sm, NEW st2, NEW sd2, Placed(st, sd, ex, sm),
         Len(st) \in Nat, Len(st2) \in Nat,
         \A k, i, r : FrameHolds(st2, sd2, k, i, r) <=> FrameHolds(st, sd, k, i, r),
         \A k, i, r : FrameHolds(st, sd, k, i, r) => st2[k].node = st[k].node
  PROVE  Placed(st2, sd2, ex, sm)
<1>1. \A h, i, r : Holds(st2, sd2, ex, sm, h, i, r) <=> Holds(st, sd, ex, sm, h, i, r)
  <2>1. \A k, i, r : /\ FrameHolds(st, sd, k, i, r) => k \in 1..Len(st)
                     /\ FrameHolds(st2, sd2, k, i, r) => k \in 1..Len(st2)
    BY Zenon DEF FrameHolds
  <2> QED
    BY <2>1, Zenon DEF Holds
<1>2. /\ \A r \in RefsIn(ex, sm) : \E h, i : Holds(st, sd, ex, sm, h, i, r)
      /\ \A h, g, i, j, r : Holds(st, sd, ex, sm, h, i, r) /\ Holds(st, sd, ex, sm, g, j, r) => h = g /\ i = j
      /\ \A k, i, r : FrameHolds(st, sd, k, i, r) => r \in RefsIn(ex, sm) /\ st[k].node < NodeIn(ex, sm, r).src
      /\ \A u, i, r : NodeHolds(ex, sm, u, i, r) =>
                        r \in RefsIn(ex, sm) /\ NodeIn(ex, sm, u).src < NodeIn(ex, sm, r).src
  BY Zenon DEF Placed
<1>3. \A r \in RefsIn(ex, sm) : \E h, i : Holds(st2, sd2, ex, sm, h, i, r)
  BY <1>1, <1>2
<1>4. \A h, g, i, j, r : Holds(st2, sd2, ex, sm, h, i, r) /\ Holds(st2, sd2, ex, sm, g, j, r) => h = g /\ i = j
  BY <1>1, <1>2
<1>5. \A k, i, r : FrameHolds(st2, sd2, k, i, r) => r \in RefsIn(ex, sm) /\ st2[k].node < NodeIn(ex, sm, r).src
  BY <1>2, Zenon
<1> QED
  BY <1>2, <1>3, <1>4, <1>5, Zenon DEF Placed

\* A frame for the node just met holds nothing yet.
LEMMA EnterPlaces ==
  ASSUME NEW st, NEW sd, NEW ex, NEW sm, Framed(st, sd), Shaped(st, sd), Placed(st, sd, ex, sm),
         st[Len(st)].todo # <<>>, NEW node \in SdkNode, Slotted(node),
         ForExpr(st[Len(st)].todo[1]) <=> ~IsStmt(node.op),
         NEW st2, st2 = Append(st, [node |-> Len(sd) + 1, todo |-> node.slots, got |-> <<>>]),
         NEW sd2, sd2 = Append(sd, node)
  PROVE  Shaped(st2, sd2) /\ Placed(st2, sd2, ex, sm)
<1>1. st \in Seq(Frame) /\ sd \in Seq(SdkNode)
  BY DEF Framed
<1>2. PICK n, m : n = Len(st) /\ m = Len(sd)
  OBVIOUS
<1>3. /\ n \in Nat \ {0} /\ m \in Nat /\ n = Len(st) /\ m = Len(sd)
      /\ \A k \in 1..n : /\ st[k] \in Frame /\ st[k].node \in 0..m
                         /\ Len(st[k].got) \in Nat /\ Len(st[k].todo) \in Nat
  BY <1>2, FramedIs
<1>4. PICK f : f = [node |-> m + 1, todo |-> node.slots, got |-> <<>>]
  OBVIOUS
<1>5. f \in Frame /\ f.node = m + 1 /\ f.todo = node.slots /\ f.got = <<>> /\ Len(f.got) = 0
  BY <1>3, <1>4 DEF Frame, SdkNode
<1>6. /\ st2 \in Seq(Frame) /\ Len(st2) = n + 1 /\ st2[n + 1] = f /\ \A k \in 1..n : st2[k] = st[k]
  BY <1>1, <1>2, <1>3, <1>4, <1>5
<1>7. Len(sd2) = m + 1 /\ sd2[m + 1] = node /\ \A k \in 1..m : sd2[k] = sd[k]
  BY <1>1, <1>2
<1>8. \A k \in 0..m : SlotsIn(sd2, k) = SlotsIn(sd, k)
  BY <1>1, <1>2, SlotsStay
<1>9. \A k \in 1..n + 1 : k \in 1..n \/ k = n + 1
  BY <1>3
<1>10. SlotsIn(sd2, f.node) = node.slots
  BY <1>3, <1>5, <1>7 DEF SlotsIn
<1>11. \A k, i, r : FrameHolds(st2, sd2, k, i, r) <=> FrameHolds(st, sd, k, i, r)
  <2> SUFFICES ASSUME NEW k, NEW i, NEW r PROVE FrameHolds(st2, sd2, k, i, r) <=> FrameHolds(st, sd, k, i, r)
    OBVIOUS
  <2>1. CASE k \in 1..n
    <3>1. st2[k] = st[k] /\ SlotsIn(sd2, st[k].node) = SlotsIn(sd, st[k].node) /\ k \in 1..Len(st2) /\ k \in 1..Len(st)
      BY <1>2, <1>3, <1>6, <1>8, <2>1
    <3> QED
      BY <3>1, Zenon DEF FrameHolds
  <2>2. CASE k = n + 1
    <3>1. ~FrameHolds(st2, sd2, k, i, r)
      BY <1>5, <1>6, <2>2 DEF FrameHolds
    <3>2. ~FrameHolds(st, sd, k, i, r)
      BY <1>3, <2>2 DEF FrameHolds
    <3> QED
      BY <3>1, <3>2
  <2>3. CASE k \notin 1..n + 1
    <3>1. k \notin 1..Len(st2) /\ k \notin 1..Len(st)
      BY <1>2, <1>3, <1>6, <2>3
    <3> QED
      BY <3>1, Zenon DEF FrameHolds
  <2> QED
    BY <1>9, <2>1, <2>2, <2>3
<1>12. \A k, i, r : FrameHolds(st, sd, k, i, r) => st2[k].node = st[k].node
  BY <1>2, <1>6 DEF FrameHolds
<1>13. Placed(st2, sd2, ex, sm)
  <2>1. Len(st) \in Nat /\ Len(st2) \in Nat
    BY <1>1, <1>6
  <2> QED
    BY <1>11, <1>12, <2>1, HoldsStay
<1>14. \A k \in 1..n + 1 : Fit(st2[k], SlotsIn(sd2, st2[k].node))
  <2> SUFFICES ASSUME NEW k \in 1..n + 1 PROVE Fit(st2[k], SlotsIn(sd2, st2[k].node))
    OBVIOUS
  <2>1. CASE k \in 1..n
    <3>1. st2[k] = st[k] /\ SlotsIn(sd2, st[k].node) = SlotsIn(sd, st[k].node)
      BY <1>3, <1>6, <1>8, <2>1
    <3>2. Fit(st[k], SlotsIn(sd, st[k].node))
      BY <1>2, <2>1 DEF Shaped
    <3> QED
      BY <3>1, <3>2
  <2>2. CASE k = n + 1
    <3>1. Fit(f, node.slots)
      <4>1. node.slots \in Seq(SlotKind)
        BY DEF SdkNode
      <4>2. Len(node.slots) \in Nat
        BY <4>1
      <4> QED
        BY <1>5, <4>2 DEF Fit
    <3>2. st2[k] = f
      BY <1>6, <2>2
    <3> QED
      BY <1>10, <3>1, <3>2
  <2> QED
    BY <1>9, <2>1, <2>2
<1>15. \A k \in 1..n : /\ st2[k].node < st2[k + 1].node
                       /\ ForExpr(st2[k].todo[1]) <=> ~IsStmt(sd2[st2[k + 1].node].op)
  <2> SUFFICES ASSUME NEW k \in 1..n
               PROVE  /\ st2[k].node < st2[k + 1].node
                      /\ ForExpr(st2[k].todo[1]) <=> ~IsStmt(sd2[st2[k + 1].node].op)
    OBVIOUS
  <2>1. CASE k = n
    <3>1. st2[k] = st[n] /\ st2[k + 1] = f /\ st[n].node \in 0..m
      BY <1>3, <1>6, <2>1
    <3>2. sd2[f.node] = node
      BY <1>5, <1>7
    <3>3. st[n].node < f.node
      BY <1>3, <1>5, <3>1
    <3> QED
      BY <1>2, <3>1, <3>2, <3>3
  <2>2. CASE k # n
    <3>1. k \in 1..n - 1 /\ k + 1 \in 1..n /\ k + 1 \in 2..n
      BY <1>3, <2>2
    <3>2. st2[k] = st[k] /\ st2[k + 1] = st[k + 1]
      BY <1>6, <3>1
    <3>3. st[k + 1].node \in 1..m
      BY <1>2, <3>1 DEF Framed
    <3>4. sd2[st[k + 1].node] = sd[st[k + 1].node]
      BY <1>7, <3>3
    <3>5. /\ st[k].node < st[k + 1].node
          /\ ForExpr(st[k].todo[1]) <=> ~IsStmt(sd[st[k + 1].node].op)
      BY <1>2, <3>1 DEF Shaped
    <3> QED
      BY <3>2, <3>4, <3>5
  <2> QED
    BY <2>1, <2>2
<1>16. \A k \in 2..n + 1 : Slotted(sd2[st2[k].node])
  <2> SUFFICES ASSUME NEW k \in 2..n + 1 PROVE Slotted(sd2[st2[k].node])
    OBVIOUS
  <2>1. CASE k = n + 1
    BY <1>5, <1>6, <1>7, <2>1
  <2>2. CASE k # n + 1
    <3>1. k \in 2..n /\ k \in 1..n
      BY <1>3, <2>2
    <3>2. st2[k] = st[k] /\ st[k].node \in 1..m
      BY <1>2, <1>6, <3>1 DEF Framed
    <3>3. Slotted(sd[st[k].node])
      BY <1>2, <3>1 DEF Shaped
    <3> QED
      BY <1>7, <3>2, <3>3
  <2> QED
    BY <2>1, <2>2
<1>17. Len(st2) = n + 1 /\ Len(st2) - 1 = n
  BY <1>3, <1>6
<1>18. Shaped(st2, sd2)
  BY <1>14, <1>15, <1>16, <1>17, Zenon DEF Shaped
<1> QED
  BY <1>13, <1>18

\* The innermost frame takes a handle, and nothing else changes hands.
LEMMA TakeShapes ==
  ASSUME NEW st, NEW sd, Framed(st, sd), Shaped(st, sd), st[Len(st)].todo # <<>>,
         NEW h \in Nat, h = NONE => st[Len(st)].todo[1] \in {"oe", "os"},
         NEW sd2, sd2 = sd \/ \E node \in SdkNode : sd2 = Append(sd, node),
         NEW st2, st2 = Taking(st, h)
  PROVE  /\ Shaped(st2, sd2) /\ Len(st2) = Len(st)
         /\ \A k \in 1..Len(st) : st2[k].node = st[k].node
         /\ \A k, i, r : FrameHolds(st2, sd2, k, i, r) <=>
                           \/ FrameHolds(st, sd, k, i, r)
                           \/ /\ h # NONE /\ k = Len(st) /\ i = Len(st[k].got) + 1
                              /\ r = RefOf(st[k].todo[1], h)
<1>1. st \in Seq(Frame) /\ sd \in Seq(SdkNode) /\ st # <<>>
  BY DEF Framed
<1>2. PICK n, m : n = Len(st) /\ m = Len(sd)
  OBVIOUS
<1>3. /\ n \in Nat \ {0} /\ m \in Nat /\ n = Len(st) /\ m = Len(sd)
      /\ \A k \in 1..n : /\ st[k] \in Frame /\ st[k].node \in 0..m
                         /\ Len(st[k].got) \in Nat /\ Len(st[k].todo) \in Nat
  BY <1>2, FramedIs
<1>4. PICK f, g : f = st[n] /\ g = Taken(f, h)
  OBVIOUS
<1>5. Len(st2) = n /\ st2[n] = g /\ \A k \in 1..n - 1 : st2[k] = st[k]
  <2>1. /\ Len(Taking(st, h)) = Len(st) /\ \A k \in 1..Len(st) - 1 : Taking(st, h)[k] = st[k]
        /\ Taking(st, h)[Len(st)] = Taken(st[Len(st)], h)
    BY <1>1, TakingIs, Zenon
  <2> QED
    BY <1>2, <1>4, <2>1, Zenon
<1>6. /\ \A k \in 0..m : SlotsIn(sd2, k) = SlotsIn(sd, k)
      /\ \A k \in 1..m : sd2[k] = sd[k]
  BY <1>1, <1>2, SlotsStay
<1>7. PICK sl : sl = SlotsIn(sd, f.node)
  OBVIOUS
<1>8. f \in Frame /\ f.todo # <<>> /\ Fit(f, sl) /\ f.node \in 0..m /\ SlotsIn(sd2, f.node) = sl
  BY <1>2, <1>3, <1>4, <1>6, <1>7 DEF Shaped
<1>9. h = NONE => f.todo[1] \in {"oe", "os"}
  BY <1>2, <1>4
<1>10. /\ Fit(g, sl) /\ f.todo[1] = sl[Len(f.got) + 1] /\ g.node = f.node
       /\ Len(g.got) = Len(f.got) + 1 /\ g.got[Len(f.got) + 1] = h
       /\ \A i \in 1..Len(f.got) : g.got[i] = f.got[i]
  <2>1. /\ Fit(Taken(f, h), sl) /\ f.todo[1] = sl[Len(f.got) + 1] /\ Taken(f, h).node = f.node
        /\ Len(Taken(f, h).got) = Len(f.got) + 1 /\ Taken(f, h).got[Len(f.got) + 1] = h
        /\ \A i \in 1..Len(f.got) : Taken(f, h).got[i] = f.got[i]
    <3>1. f \in Frame /\ f.todo # <<>> /\ Fit(f, sl)
      BY <1>8
    <3> QED
      BY <1>9, <3>1, FitTakes, ZenonT(60)
  <2> QED
    BY <1>4, <2>1, Zenon
<1>11. \A k \in 1..n : k = n \/ k \in 1..n - 1
  BY <1>3
<1>12. \A k \in 1..n : st2[k].node = st[k].node
  BY <1>4, <1>5, <1>10, <1>11
<1>13. \A k \in 1..n : Fit(st2[k], SlotsIn(sd2, st2[k].node))
  <2> SUFFICES ASSUME NEW k \in 1..n PROVE Fit(st2[k], SlotsIn(sd2, st2[k].node))
    OBVIOUS
  <2>1. CASE k = n
    BY <1>5, <1>8, <1>10, <2>1
  <2>2. CASE k \in 1..n - 1
    <3>1. st2[k] = st[k] /\ SlotsIn(sd2, st[k].node) = SlotsIn(sd, st[k].node)
      BY <1>3, <1>5, <1>6, <2>2
    <3>2. Fit(st[k], SlotsIn(sd, st[k].node))
      BY <1>2 DEF Shaped
    <3> QED
      BY <3>1, <3>2
  <2> QED
    BY <1>11, <2>1, <2>2
<1>14. \A k \in 1..n - 1 : /\ st2[k].node < st2[k + 1].node
                           /\ ForExpr(st2[k].todo[1]) <=> ~IsStmt(sd2[st2[k + 1].node].op)
  <2> SUFFICES ASSUME NEW k \in 1..n - 1
               PROVE  /\ st2[k].node < st2[k + 1].node
                      /\ ForExpr(st2[k].todo[1]) <=> ~IsStmt(sd2[st2[k + 1].node].op)
    OBVIOUS
  <2>1. k \in 1..n /\ k + 1 \in 1..n /\ k + 1 \in 2..n
    BY <1>3
  <2>2. st2[k] = st[k] /\ st2[k + 1].node = st[k + 1].node
    BY <1>5, <1>12, <2>1
  <2>3. st[k + 1].node \in 1..m
    BY <1>2, <2>1 DEF Framed
  <2>4. sd2[st[k + 1].node] = sd[st[k + 1].node]
    BY <1>6, <2>3
  <2>5. /\ st[k].node < st[k + 1].node
        /\ ForExpr(st[k].todo[1]) <=> ~IsStmt(sd[st[k + 1].node].op)
    BY <1>2 DEF Shaped
  <2> QED
    BY <2>2, <2>4, <2>5
<1>15. \A k \in 2..n : Slotted(sd2[st2[k].node])
  <2> SUFFICES ASSUME NEW k \in 2..n PROVE Slotted(sd2[st2[k].node])
    OBVIOUS
  <2>1. k \in 1..n /\ st[k].node \in 1..m /\ Slotted(sd[st[k].node])
    BY <1>2, <1>3 DEF Framed, Shaped
  <2> QED
    BY <1>6, <1>12, <2>1
<1>16. Shaped(st2, sd2)
  BY <1>5, <1>13, <1>14, <1>15, Zenon DEF Shaped
<1>17. ASSUME NEW k, NEW i, NEW r
       PROVE  FrameHolds(st2, sd2, k, i, r) <=>
                \/ FrameHolds(st, sd, k, i, r)
                \/ /\ h # NONE /\ k = n /\ i = Len(st[k].got) + 1 /\ r = RefOf(st[k].todo[1], h)
  <2>1. CASE k \notin 1..n
    <3>1. k \notin 1..Len(st2) /\ k \notin 1..Len(st) /\ k # n
      BY <1>2, <1>3, <1>5, <2>1
    <3> QED
      BY <3>1, Zenon DEF FrameHolds
  <2>2. CASE k \in 1..n - 1
    <3>1. /\ st2[k] = st[k] /\ SlotsIn(sd2, st[k].node) = SlotsIn(sd, st[k].node)
          /\ k \in 1..Len(st2) /\ k \in 1..Len(st) /\ k # n
      BY <1>2, <1>3, <1>5, <1>6, <2>2
    <3> QED
      BY <3>1, Zenon DEF FrameHolds
  <2>3. CASE k = n
    <3>1. k \in 1..Len(st2) /\ k \in 1..Len(st)
      BY <1>2, <1>3, <1>5, <2>3
    <3>2. FrameHolds(st2, sd2, k, i, r) <=>
            i \in 1..Len(g.got) /\ g.got[i] # NONE /\ r = RefOf(sl[i], g.got[i])
      <4>1. st2[k] = g /\ SlotsIn(sd2, st2[k].node) = sl
        BY <1>5, <1>8, <1>10, <2>3
      <4> QED
        BY <3>1, <4>1, Zenon DEF FrameHolds
    <3>3. FrameHolds(st, sd, k, i, r) <=>
            i \in 1..Len(f.got) /\ f.got[i] # NONE /\ r = RefOf(sl[i], f.got[i])
      <4>1. st[k] = f /\ SlotsIn(sd, st[k].node) = sl
        BY <1>4, <1>7, <2>3
      <4> QED
        BY <3>1, <4>1, Zenon DEF FrameHolds
    <3>4. PICK q : q = Len(f.got)
      OBVIOUS
    <3>5. q \in Nat /\ Len(g.got) = q + 1 /\ g.got[q + 1] = h /\ \A j \in 1..q : g.got[j] = f.got[j]
      BY <1>3, <1>4, <1>10, <3>4
    <3>6. CASE i \in 1..q
      <4>1. i \in 1..q + 1 /\ i # q + 1 /\ g.got[i] = f.got[i]
        BY <3>5, <3>6
      <4>2. i # Len(st[k].got) + 1
        BY <1>4, <2>3, <3>4, <4>1
      <4> QED
        BY <3>2, <3>3, <3>4, <3>5, <3>6, <4>1, <4>2
    <3>7. CASE i = q + 1
      <4>1. i \in 1..q + 1 /\ i \notin 1..q /\ g.got[i] = h /\ sl[i] = f.todo[1]
        BY <1>10, <3>4, <3>5, <3>7
      <4>2. i = Len(st[k].got) + 1 /\ st[k].todo[1] = f.todo[1]
        BY <1>4, <2>3, <3>4, <3>7
      <4> QED
        BY <2>3, <3>2, <3>3, <3>4, <3>5, <4>1, <4>2
    <3>8. CASE i \notin 1..q + 1
      <4>1. i \notin 1..q /\ i # q + 1
        BY <3>5, <3>8
      <4>2. i # Len(st[k].got) + 1
        BY <1>4, <2>3, <3>4, <4>1
      <4> QED
        BY <3>2, <3>3, <3>4, <3>5, <3>8, <4>1, <4>2
    <3>9. i \in 1..q + 1 => i \in 1..q \/ i = q + 1
      BY <3>5
    <3> QED
      BY <3>6, <3>7, <3>8, <3>9
  <2> QED
    BY <1>11, <2>1, <2>2, <2>3
<1> QED
  BY <1>2, <1>5, <1>12, <1>16, <1>17

\* An optional operand that is not there: nothing changes hands.
LEMMA TakeNonePlaces ==
  ASSUME NEW st, NEW sd, NEW ex, NEW sm, Framed(st, sd), Shaped(st, sd), Placed(st, sd, ex, sm),
         st[Len(st)].todo # <<>>, st[Len(st)].todo[1] \in {"oe", "os"},
         NEW sd2, sd2 = sd \/ \E node \in SdkNode : sd2 = Append(sd, node),
         NEW st2, st2 = Taking(st, NONE)
  PROVE  Shaped(st2, sd2) /\ Placed(st2, sd2, ex, sm)
<1>1. NONE \in Nat
  BY DEF NONE
<1>2. /\ Shaped(st2, sd2) /\ Len(st2) = Len(st)
      /\ \A k \in 1..Len(st) : st2[k].node = st[k].node
      /\ \A k, i, r : FrameHolds(st2, sd2, k, i, r) <=>
                        \/ FrameHolds(st, sd, k, i, r)
                        \/ /\ NONE # NONE /\ k = Len(st) /\ i = Len(st[k].got) + 1
                           /\ r = RefOf(st[k].todo[1], NONE)
  BY <1>1, TakeShapes
<1>3. \A k, i, r : FrameHolds(st2, sd2, k, i, r) <=> FrameHolds(st, sd, k, i, r)
  BY <1>2, Zenon
<1>4. \A k, i, r : FrameHolds(st, sd, k, i, r) => st2[k].node = st[k].node
  BY <1>2, Zenon DEF FrameHolds
<1>5. Len(st) \in Nat
  BY FramedIs
<1> QED
  BY <1>2, <1>3, <1>4, <1>5, HoldsStay

\* The stack without its innermost frame.
Fronted(st, sd, f, n) ==
  /\ Framed(f, sd) /\ Shaped(f, sd) /\ n \in Nat \ {0} /\ Len(st) = n + 1
  /\ f[n].todo # <<>> /\ f[n].node < st[n + 1].node
  /\ ForExpr(f[n].todo[1]) <=> ~IsStmt(sd[st[n + 1].node].op)
  /\ \A k \in 1..n : f[k] = st[k]
  /\ \A k, i, r : FrameHolds(f, sd, k, i, r) <=> FrameHolds(st, sd, k, i, r) /\ k # n + 1

\* The frames below the innermost keep their shapes once it is gone.
LEMMA FrontShapes ==
  ASSUME NEW st, NEW sd, Framed(st, sd), Shaped(st, sd), st[Len(st)].node # 0,
         NEW f, f = Front(st), NEW n, n = Len(f)
  PROVE  Fronted(st, sd, f, n)
<1>1. /\ st \in Seq(Frame) /\ sd \in Seq(SdkNode) /\ st # <<>> /\ st[1].node = 0
      /\ \A k \in 2..Len(st) : st[k].node \in 1..Len(sd)
      /\ \A k \in 1..Len(st) - 1 : st[k].todo # <<>>
  BY DEF Framed
<1>2. /\ Len(st) \in Nat \ {0} /\ f \in Seq(Frame) /\ n = Len(st) - 1
      /\ \A k \in 1..Len(st) - 1 : f[k] = st[k]
  BY <1>1, LastFront
<1>3. Len(st) # 1
  BY <1>1
<1>4. n \in Nat \ {0} /\ Len(st) = n + 1 /\ f # <<>> /\ \A k \in 1..n : f[k] = st[k]
  <2>1. n \in Nat \ {0} /\ Len(st) = n + 1 /\ Len(st) - 1 = n
    BY <1>2, <1>3
  <2>2. f # <<>>
    BY <2>1
  <2> QED
    BY <1>2, <2>1, <2>2, Zenon
<1>5. n \in 1..n /\ 1 \in 1..n /\ (\A k \in 2..n : k \in 1..n /\ k \in 2..n + 1)
      /\ \A k \in 1..n - 1 : k \in 1..n /\ k \in 1..n /\ k + 1 \in 1..n
  BY <1>4
<1>6. Len(st) - 1 = n
  BY <1>4
<1>7. Framed(f, sd)
  <2>1. f[1].node = 0
    BY <1>1, <1>4, <1>5
  <2>2. \A k \in 2..n : f[k].node \in 1..Len(sd)
    BY <1>1, <1>4, <1>5
  <2>3. \A k \in 1..n - 1 : f[k].todo # <<>>
    BY <1>1, <1>4, <1>5, <1>6
  <2> QED
    BY <1>1, <1>2, <1>4, <2>1, <2>2, <2>3 DEF Framed
<1>8. /\ \A k \in 1..n + 1 : Fit(st[k], SlotsIn(sd, st[k].node))
      /\ \A k \in 1..n : /\ st[k].node < st[k + 1].node
                         /\ ForExpr(st[k].todo[1]) <=> ~IsStmt(sd[st[k + 1].node].op)
      /\ \A k \in 2..n + 1 : Slotted(sd[st[k].node])
  BY <1>4, <1>6, Zenon DEF Shaped
<1>9. Shaped(f, sd)
  <2>1. \A k \in 1..n : Fit(f[k], SlotsIn(sd, f[k].node))
    <3>1. \A k \in 1..n : k \in 1..n + 1
      BY <1>4
    <3> QED
      BY <1>4, <1>8, <3>1
  <2>2. \A k \in 1..n - 1 : /\ f[k].node < f[k + 1].node
                            /\ ForExpr(f[k].todo[1]) <=> ~IsStmt(sd[f[k + 1].node].op)
    BY <1>4, <1>5, <1>8
  <2>3. \A k \in 2..n : Slotted(sd[f[k].node])
    BY <1>4, <1>5, <1>8
  <2> QED
    BY <2>1, <2>2, <2>3, Zenon DEF Shaped
<1>10. /\ f[n].todo # <<>> /\ f[n].node < st[n + 1].node
       /\ ForExpr(f[n].todo[1]) <=> ~IsStmt(sd[st[n + 1].node].op)
  BY <1>1, <1>4, <1>5, <1>6, <1>8
<1>11. ASSUME NEW k, NEW i, NEW r
       PROVE  FrameHolds(f, sd, k, i, r) <=> FrameHolds(st, sd, k, i, r) /\ k # n + 1
  <2>1. CASE k \in 1..n
    <3>1. k \in 1..Len(f) /\ k \in 1..Len(st) /\ k # n + 1 /\ f[k] = st[k]
      BY <1>4, <2>1
    <3> QED
      BY <3>1, Zenon DEF FrameHolds
  <2>2. CASE k \notin 1..n
    <3>1. k \notin 1..Len(f) /\ (k \in 1..Len(st) => k = n + 1)
      BY <1>4, <2>2
    <3> QED
      BY <3>1, Zenon DEF FrameHolds
  <2> QED
    BY <2>1, <2>2
<1> QED
  BY <1>4, <1>7, <1>9, <1>10, <1>11 DEF Fronted

\* A new node takes from the innermost frame what it holds, and the frame
\* below takes the node.
Adds(ex, sm, ex2, sm2, u, src) ==
  /\ u \notin RefsIn(ex, sm) /\ (\A v : v \in RefsIn(ex2, sm2) <=> v \in RefsIn(ex, sm) \/ v = u)
  /\ \A v \in RefsIn(ex, sm) : /\ NodeIn(ex2, sm2, v) = NodeIn(ex, sm, v)
                               /\ KidsIn(ex2, sm2, v) = KidsIn(ex, sm, v)
  /\ NodeIn(ex2, sm2, u).src = src /\ u[1] \in {"e", "s"}

\* Minting moves what the innermost frame held to the new node and the new
\* node to the frame below, so everything is still held in one place.
LEMMA MintPlaces ==
  ASSUME NEW st, NEW sd, NEW ex, NEW sm, Framed(st, sd), Shaped(st, sd), Placed(st, sd, ex, sm),
         st[Len(st)].node # 0,
         NEW ex2, NEW sm2, NEW u, Adds(ex, sm, ex2, sm2, u, st[Len(st)].node),
         Carries(KidsIn(ex2, sm2, u), SlotsIn(sd, st[Len(st)].node), st[Len(st)].got, Len(st[Len(st)].got)),
         NEW h \in Nat \ {0}, u = IF IsStmt(sd[st[Len(st)].node].op) THEN S(h) ELSE E(h),
         NEW st2, st2 = Taking(Front(st), h)
  PROVE  Shaped(st2, sd) /\ Placed(st2, sd, ex2, sm2)
<1>1. PICK f, n : f = Front(st) /\ n = Len(f)
  OBVIOUS
<1>2. /\ Framed(f, sd) /\ Shaped(f, sd) /\ n \in Nat \ {0} /\ Len(st) = n + 1
      /\ f[n].todo # <<>> /\ f[n].node < st[n + 1].node
      /\ ForExpr(f[n].todo[1]) <=> ~IsStmt(sd[st[n + 1].node].op)
      /\ \A k \in 1..n : f[k] = st[k]
      /\ \A k, i, r : FrameHolds(f, sd, k, i, r) <=> FrameHolds(st, sd, k, i, r) /\ k # n + 1
  <2>1. Fronted(st, sd, f, n)
    BY <1>1, FrontShapes
  <2> QED
    BY <2>1 DEF Fronted
<1>3. h \in Nat /\ h # NONE /\ st2 = Taking(f, h) /\ f[Len(f)].todo # <<>>
  BY <1>1, <1>2 DEF NONE
<1>4. /\ Shaped(st2, sd) /\ Len(st2) = n
      /\ \A k \in 1..n : st2[k].node = f[k].node
      /\ \A k, i, r : FrameHolds(st2, sd, k, i, r) <=>
                        \/ FrameHolds(f, sd, k, i, r)
                        \/ /\ h # NONE /\ k = n /\ i = Len(f[k].got) + 1 /\ r = RefOf(f[k].todo[1], h)
  <2>1. h = NONE => f[Len(f)].todo[1] \in {"oe", "os"}
    BY <1>3
  <2>2. sd = sd \/ \E node \in SdkNode : sd = Append(sd, node)
    OBVIOUS
  <2>3. /\ Shaped(st2, sd) /\ Len(st2) = Len(f)
        /\ \A k \in 1..Len(f) : st2[k].node = f[k].node
        /\ \A k, i, r : FrameHolds(st2, sd, k, i, r) <=>
                          \/ FrameHolds(f, sd, k, i, r)
                          \/ /\ h # NONE /\ k = Len(f) /\ i = Len(f[k].got) + 1 /\ r = RefOf(f[k].todo[1], h)
    BY <1>2, <1>3, <2>1, <2>2, TakeShapes
  <2> QED
    BY <1>1, <2>3, Zenon
<1>5. RefOf(f[n].todo[1], h) = u
  <2>1. ForExpr(f[n].todo[1]) <=> ~IsStmt(sd[st[Len(st)].node].op)
    BY <1>2
  <2> QED
    BY <2>1, Zenon DEF RefOf, ForExpr
<1>6. PICK slot, got, ch, m, at :
        /\ slot = SlotsIn(sd, st[n + 1].node) /\ got = st[n + 1].got /\ ch = KidsIn(ex2, sm2, u)
        /\ m = Len(ch) /\ at = Len(f[n].got) + 1
  OBVIOUS
<1>7. PICK p : CarriedBy(ch, slot, got, Len(got), p)
  <2>1. Carries(ch, slot, got, Len(got))
    BY <1>2, <1>6
  <2> QED
    BY <2>1 DEF Carries
<1>8. /\ p \in [1..m -> 1..Len(got)]
      /\ \A i \in 1..m : got[p[i]] # NONE /\ ch[i] = RefOf(slot[p[i]], got[p[i]])
      /\ \A i, j \in 1..m : p[i] = p[j] => i = j
      /\ \A j \in 1..Len(got) : got[j] # NONE => \E i \in 1..m : p[i] = j
  BY <1>6, <1>7 DEF CarriedBy
<1>9. \A i, r : FrameHolds(st, sd, n + 1, i, r) <=> i \in 1..Len(got) /\ got[i] # NONE /\ r = RefOf(slot[i], got[i])
  <2>1. n + 1 \in 1..Len(st)
    BY <1>2
  <2> QED
    BY <1>6, <2>1, Zenon DEF FrameHolds
<1>10. \A i \in 1..m : FrameHolds(st, sd, n + 1, p[i], ch[i])
  <2> SUFFICES ASSUME NEW i \in 1..m PROVE FrameHolds(st, sd, n + 1, p[i], ch[i])
    OBVIOUS
  <2>1. p[i] \in 1..Len(got)
    BY <1>8
  <2> QED
    BY <1>8, <1>9, <2>1, Zenon
<1>11. \A j, r : FrameHolds(st, sd, n + 1, j, r) => \E i \in 1..m : p[i] = j /\ ch[i] = r
  <2> SUFFICES ASSUME NEW j, NEW r, FrameHolds(st, sd, n + 1, j, r)
               PROVE  \E i \in 1..m : p[i] = j /\ ch[i] = r
    OBVIOUS
  <2>1. j \in 1..Len(got) /\ got[j] # NONE /\ r = RefOf(slot[j], got[j])
    BY <1>9, Zenon
  <2>2. PICK i \in 1..m : p[i] = j
    BY <1>8, <2>1, Zenon
  <2>3. ch[i] = r
    BY <1>8, <2>1, <2>2, Zenon
  <2> QED
    BY <2>2, <2>3
\* Who holds what, before and after.
<1>13. /\ \A r \in RefsIn(ex, sm) : \E g, i : Holds(st, sd, ex, sm, g, i, r)
       /\ \A a, b, i, j, r : Holds(st, sd, ex, sm, a, i, r) /\ Holds(st, sd, ex, sm, b, j, r) => a = b /\ i = j
       /\ \A k, i, r : FrameHolds(st, sd, k, i, r) => r \in RefsIn(ex, sm) /\ st[k].node < NodeIn(ex, sm, r).src
       /\ \A v, i, r : NodeHolds(ex, sm, v, i, r) =>
                         r \in RefsIn(ex, sm) /\ NodeIn(ex, sm, v).src < NodeIn(ex, sm, r).src
  BY Zenon DEF Placed
<1>14. /\ u \notin RefsIn(ex, sm) /\ (\A v : v \in RefsIn(ex2, sm2) <=> v \in RefsIn(ex, sm) \/ v = u)
       /\ \A v \in RefsIn(ex, sm) : /\ NodeIn(ex2, sm2, v) = NodeIn(ex, sm, v)
                                    /\ KidsIn(ex2, sm2, v) = KidsIn(ex, sm, v)
       /\ NodeIn(ex2, sm2, u).src = st[n + 1].node /\ u[1] \in {"e", "s"}
  BY <1>2 DEF Adds
<1>15. \A k, i, r : FrameHolds(st2, sd, k, i, r) <=>
                      \/ FrameHolds(st, sd, k, i, r) /\ k # n + 1
                      \/ k = n /\ i = at /\ r = u
  <2> SUFFICES ASSUME NEW k, NEW i, NEW r
               PROVE  FrameHolds(st2, sd, k, i, r) <=>
                        \/ FrameHolds(st, sd, k, i, r) /\ k # n + 1
                        \/ k = n /\ i = at /\ r = u
    BY Zenon
  <2>1. FrameHolds(f, sd, k, i, r) <=> FrameHolds(st, sd, k, i, r) /\ k # n + 1
    BY <1>2, Zenon
  <2>2. FrameHolds(st2, sd, k, i, r) <=>
          \/ FrameHolds(f, sd, k, i, r)
          \/ h # NONE /\ k = n /\ i = Len(f[k].got) + 1 /\ r = RefOf(f[k].todo[1], h)
    BY <1>4, Zenon
  <2>3. (h # NONE /\ k = n /\ i = Len(f[k].got) + 1 /\ r = RefOf(f[k].todo[1], h))
        <=> (k = n /\ i = at /\ r = u)
    <3>1. h # NONE
      BY <1>3
    <3> QED
      BY <1>5, <1>6, <3>1, Zenon
  <2> QED
    BY <2>1, <2>2, <2>3, Zenon
<1>16. \A v, i, r : NodeHolds(ex2, sm2, v, i, r) <=>
                      \/ NodeHolds(ex, sm, v, i, r)
                      \/ v = u /\ i \in 1..m /\ ch[i] = r
  <2> SUFFICES ASSUME NEW v, NEW i, NEW r
               PROVE  NodeHolds(ex2, sm2, v, i, r) <=>
                        \/ NodeHolds(ex, sm, v, i, r)
                        \/ v = u /\ i \in 1..m /\ ch[i] = r
    OBVIOUS
  <2>1. CASE v \in RefsIn(ex, sm)
    <3>1. v # u /\ v \in RefsIn(ex2, sm2) /\ KidsIn(ex2, sm2, v) = KidsIn(ex, sm, v)
      BY <1>14, <2>1
    <3> QED
      BY <2>1, <3>1, Zenon DEF NodeHolds
  <2>2. CASE v = u
    BY <1>6, <1>14, <2>2, Zenon DEF NodeHolds
  <2>3. CASE v \notin RefsIn(ex, sm) /\ v # u
    BY <1>14, <2>3, Zenon DEF NodeHolds
  <2> QED
    BY <2>1, <2>2, <2>3
\* Where a node is afterwards, and where it was.
<1>17. ASSUME NEW a, NEW i, NEW r
       PROVE  Holds(st2, sd, ex2, sm2, a, i, r) <=>
                \/ Holds(st, sd, ex, sm, a, i, r) /\ a # F(n + 1)
                \/ a = F(n) /\ i = at /\ r = u
                \/ a = u /\ i \in 1..m /\ ch[i] = r
  <2>1. \A k : /\ FrameHolds(st2, sd, k, i, r) => k \in 1..Len(st2)
               /\ FrameHolds(st, sd, k, i, r) => k \in 1..Len(st)
    BY Zenon DEF FrameHolds
  <2>2. \A k, l : F(k) = F(l) => k = l
    BY DEF F
  <2>3. \A k, v, j, q : NodeHolds(ex, sm, v, j, q) => v # F(k)
    BY DEF NodeHolds, RefsIn, F, E, S
  <2>4. n \in 1..Len(st2)
    BY <1>2, <1>4
  <2>5. Holds(st2, sd, ex2, sm2, a, i, r) <=>
          (\E k : a = F(k) /\ FrameHolds(st2, sd, k, i, r)) \/ NodeHolds(ex2, sm2, a, i, r)
    BY <2>1, Zenon DEF Holds
  <2>6. Holds(st, sd, ex, sm, a, i, r) <=>
          (\E k : a = F(k) /\ FrameHolds(st, sd, k, i, r)) \/ NodeHolds(ex, sm, a, i, r)
    BY <2>1, Zenon DEF Holds
  <2>7. ASSUME Holds(st2, sd, ex2, sm2, a, i, r)
        PROVE  \/ Holds(st, sd, ex, sm, a, i, r) /\ a # F(n + 1)
               \/ a = F(n) /\ i = at /\ r = u
               \/ a = u /\ i \in 1..m /\ ch[i] = r
    <3>1. CASE \E k : a = F(k) /\ FrameHolds(st2, sd, k, i, r)
      <4>1. PICK k : a = F(k) /\ FrameHolds(st2, sd, k, i, r)
        BY <3>1
      <4>2. (FrameHolds(st, sd, k, i, r) /\ k # n + 1) \/ (k = n /\ i = at /\ r = u)
        <5>1. FrameHolds(st2, sd, k, i, r)
          BY <4>1
        <5> QED
          BY <1>15, <5>1, Zenon
      <4> QED
        BY <2>2, <2>6, <4>1, <4>2, Zenon
    <3>2. CASE NodeHolds(ex2, sm2, a, i, r)
      BY <1>16, <2>3, <2>6, <3>2, Zenon
    <3> QED
      BY <2>5, <2>7, <3>1, <3>2
  <2>8. ASSUME Holds(st, sd, ex, sm, a, i, r), a # F(n + 1)
        PROVE  Holds(st2, sd, ex2, sm2, a, i, r)
    <3>1. CASE \E k : a = F(k) /\ FrameHolds(st, sd, k, i, r)
      BY <1>15, <2>5, <2>8, <3>1, Zenon
    <3>2. CASE NodeHolds(ex, sm, a, i, r)
      BY <1>16, <2>5, <3>2, Zenon
    <3> QED
      BY <2>6, <2>8, <3>1, <3>2
  <2>9. ASSUME a = F(n) /\ i = at /\ r = u PROVE Holds(st2, sd, ex2, sm2, a, i, r)
    BY <1>15, <2>5, <2>9, Zenon
  <2>10. ASSUME a = u /\ i \in 1..m /\ ch[i] = r PROVE Holds(st2, sd, ex2, sm2, a, i, r)
    BY <1>16, <2>5, <2>10, Zenon
  <2> QED
    BY <2>7, <2>8, <2>9, <2>10
\* What the innermost frame held.
<1>18. \A i, r : Holds(st, sd, ex, sm, F(n + 1), i, r) <=> FrameHolds(st, sd, n + 1, i, r)
  <2>1. \A k, l : F(k) = F(l) => k = l
    BY DEF F
  <2>2. \A k, v, j, q : NodeHolds(ex, sm, v, j, q) => v # F(k)
    BY DEF NodeHolds, RefsIn, F, E, S
  <2>3. n + 1 \in 1..Len(st)
    BY <1>2
  <2> QED
    BY <2>1, <2>2, <2>3, Zenon DEF Holds
<1>19. \A a, i, r : Holds(st, sd, ex, sm, a, i, r) => r \in RefsIn(ex, sm) /\ a # u
  <2> SUFFICES ASSUME NEW a, NEW i, NEW r, Holds(st, sd, ex, sm, a, i, r)
               PROVE  r \in RefsIn(ex, sm) /\ a # u
    OBVIOUS
  <2>1. CASE \E k \in 1..Len(st) : a = F(k) /\ FrameHolds(st, sd, k, i, r)
    <3>1. PICK k : a = F(k) /\ FrameHolds(st, sd, k, i, r)
      BY <2>1
    <3>2. F(k) # u
      BY <1>14 DEF F
    <3> QED
      BY <1>13, <3>1, <3>2, Zenon
  <2>2. CASE NodeHolds(ex, sm, a, i, r)
    <3>1. a \in RefsIn(ex, sm)
      BY <2>2 DEF NodeHolds
    <3> QED
      BY <1>13, <1>14, <2>2, <3>1, Zenon
  <2> QED
    BY <2>1, <2>2 DEF Holds
<1>20. \A r \in RefsIn(ex2, sm2) : \E a, i : Holds(st2, sd, ex2, sm2, a, i, r)
  <2> SUFFICES ASSUME NEW r \in RefsIn(ex2, sm2) PROVE \E a, i : Holds(st2, sd, ex2, sm2, a, i, r)
    OBVIOUS
  <2>1. CASE r = u
    BY <1>17, <2>1, Zenon
  <2>2. CASE r \in RefsIn(ex, sm)
    <3>1. PICK a, i : Holds(st, sd, ex, sm, a, i, r)
      BY <1>13, <2>2
    <3>2. CASE a # F(n + 1)
      BY <1>17, <3>1, <3>2, Zenon
    <3>3. CASE a = F(n + 1)
      <4>1. FrameHolds(st, sd, n + 1, i, r)
        BY <1>18, <3>1, <3>3, Zenon
      <4>2. PICK j \in 1..m : ch[j] = r
        BY <1>11, <4>1, Zenon
      <4> QED
        BY <1>17, <4>2, Zenon
    <3> QED
      BY <3>2, <3>3
  <2> QED
    BY <1>14, <2>1, <2>2
\* Every place of an old node comes from one place it had.
<1>21. ASSUME NEW a, NEW i, NEW r, Holds(st2, sd, ex2, sm2, a, i, r), r # u
       PROVE  \/ Holds(st, sd, ex, sm, a, i, r) /\ a # F(n + 1) /\ a # u
              \/ a = u /\ i \in 1..m /\ Holds(st, sd, ex, sm, F(n + 1), p[i], r)
  <2>1. CASE Holds(st, sd, ex, sm, a, i, r) /\ a # F(n + 1)
    BY <1>19, <2>1, Zenon
  <2>2. CASE a = u /\ i \in 1..m /\ ch[i] = r
    <3>1. FrameHolds(st, sd, n + 1, p[i], r)
      BY <1>10, <2>2
    <3> QED
      BY <1>18, <2>2, <3>1, Zenon
  <2> QED
    BY <1>17, <1>21, <2>1, <2>2
<1>22. ASSUME NEW a, NEW i, Holds(st2, sd, ex2, sm2, a, i, u)
       PROVE  a = F(n) /\ i = at
  <2>1. ~Holds(st, sd, ex, sm, a, i, u)
    BY <1>14, <1>19, Zenon
  <2>2. \A j \in 1..m : ch[j] # u
    BY <1>10, <1>13, <1>14, Zenon
  <2> QED
    BY <1>17, <1>22, <2>1, <2>2
<1>23. ASSUME NEW a, NEW b, NEW i, NEW j, NEW r,
              Holds(st2, sd, ex2, sm2, a, i, r), Holds(st2, sd, ex2, sm2, b, j, r)
       PROVE  a = b /\ i = j
  <2>1. CASE r = u
    BY <1>22, <1>23, <2>1
  <2>2. CASE r # u
    <3>1. \/ Holds(st, sd, ex, sm, a, i, r) /\ a # F(n + 1) /\ a # u
          \/ a = u /\ i \in 1..m /\ Holds(st, sd, ex, sm, F(n + 1), p[i], r)
      BY <1>21, <1>23, <2>2
    <3>2. \/ Holds(st, sd, ex, sm, b, j, r) /\ b # F(n + 1) /\ b # u
          \/ b = u /\ j \in 1..m /\ Holds(st, sd, ex, sm, F(n + 1), p[j], r)
      BY <1>21, <1>23, <2>2
    <3>3. \A c, d, x, y : Holds(st, sd, ex, sm, c, x, r) /\ Holds(st, sd, ex, sm, d, y, r) => c = d /\ x = y
      BY <1>13, Zenon
    <3>4. CASE a # u
      BY <3>1, <3>2, <3>3, <3>4, Zenon
    <3>5. CASE a = u
      <4>1. a = u /\ i \in 1..m /\ Holds(st, sd, ex, sm, F(n + 1), p[i], r)
        BY <3>1, <3>5, Zenon
      <4>2. b = u /\ j \in 1..m /\ Holds(st, sd, ex, sm, F(n + 1), p[j], r)
        BY <3>2, <3>3, <4>1, Zenon
      <4>3. p[i] = p[j]
        BY <3>3, <4>1, <4>2, Zenon
      <4> QED
        BY <1>8, <4>1, <4>2, <4>3, Zenon
    <3> QED
      BY <3>4, <3>5
  <2> QED
    BY <2>1, <2>2
<1>24. ASSUME NEW k, NEW i, NEW r, FrameHolds(st2, sd, k, i, r)
       PROVE  r \in RefsIn(ex2, sm2) /\ st2[k].node < NodeIn(ex2, sm2, r).src
  <2>1. CASE FrameHolds(st, sd, k, i, r) /\ k # n + 1
    <3>1. r \in RefsIn(ex, sm) /\ st[k].node < NodeIn(ex, sm, r).src
      BY <1>13, <2>1, Zenon
    <3>2. k \in 1..Len(st2)
      BY <1>24 DEF FrameHolds
    <3>3. st2[k].node = st[k].node
      BY <1>2, <1>4, <3>2
    <3> QED
      BY <1>14, <3>1, <3>3
  <2>2. CASE k = n /\ r = u
    <3>1. n \in 1..n
      BY <1>2
    <3>2. st2[n].node = st[n].node /\ st[n].node < st[n + 1].node
      BY <1>2, <1>4, <3>1
    <3> QED
      BY <1>14, <2>2, <3>2
  <2> QED
    BY <1>15, <1>24, <2>1, <2>2
<1>25. ASSUME NEW v, NEW i, NEW r, NodeHolds(ex2, sm2, v, i, r)
       PROVE  r \in RefsIn(ex2, sm2) /\ NodeIn(ex2, sm2, v).src < NodeIn(ex2, sm2, r).src
  <2>1. CASE NodeHolds(ex, sm, v, i, r)
    <3>1. r \in RefsIn(ex, sm) /\ NodeIn(ex, sm, v).src < NodeIn(ex, sm, r).src
      BY <1>13, <2>1, Zenon
    <3>2. v \in RefsIn(ex, sm)
      BY <2>1 DEF NodeHolds
    <3> QED
      BY <1>14, <3>1, <3>2
  <2>2. CASE v = u /\ i \in 1..m /\ ch[i] = r
    <3>1. FrameHolds(st, sd, n + 1, p[i], r)
      BY <1>10, <2>2
    <3>2. r \in RefsIn(ex, sm) /\ st[n + 1].node < NodeIn(ex, sm, r).src
      BY <1>13, <3>1, Zenon
    <3> QED
      BY <1>14, <2>2, <3>2
  <2> QED
    BY <1>16, <1>25, <2>1, <2>2
<1>26. Placed(st2, sd, ex2, sm2)
  BY <1>20, <1>23, <1>24, <1>25, Zenon DEF Placed
<1> QED
  BY <1>4, <1>26

(***************************************************************************)
(* The tree: what holds from the first frame to the result.                *)
(***************************************************************************)
\* The state of the arenas, as the model says it and as the places do.
LEMMA ArenasAre ==
  /\ Refs = RefsIn(exprs, stmts)
  /\ \A r : Children(r) = KidsIn(exprs, stmts, r) /\ Node(r) = NodeIn(exprs, stmts, r)
  BY Zenon DEF Refs, RefsIn, Children, KidsIn, Node, NodeIn

\* Appending an expression adds one node, with the children of its kind.
LEMMA ExprAdds ==
  ASSUME NEW ex, NEW sm, IsSeq(ex), NEW node, NEW ex2, ex2 = Append(ex, node)
  PROVE  /\ Adds(ex, sm, ex2, sm, E(Len(ex) + 1), node.src)
         /\ KidsIn(ex2, sm, E(Len(ex) + 1)) = ExprChildren(node.kind)
<1>1. ex \in Seq({ex[i] : i \in DOMAIN ex})
  BY DEF IsSeq
<1>2. PICK n \in Nat : n = Len(ex)
  BY <1>1
<1>3. PICK X : ex \in Seq(X) /\ node \in X
  <2>1. ex \in Seq({ex[i] : i \in DOMAIN ex} \cup {node})
    BY <1>1
  <2> QED
    BY <2>1
<1>4. DOMAIN ex = 1..n /\ DOMAIN ex2 = 1..n + 1 /\ ex2[n + 1] = node /\ \A i \in 1..n : ex2[i] = ex[i]
  BY <1>2, <1>3
<1>5. \A v : v \in RefsIn(ex2, sm) <=> v \in RefsIn(ex, sm) \/ v = E(n + 1)
  <2>1. \A i : i \in 1..n + 1 <=> i \in 1..n \/ i = n + 1
    OBVIOUS
  <2> QED
    BY <1>4, <2>1, Zenon DEF RefsIn
<1>6. E(n + 1) \notin RefsIn(ex, sm)
  BY <1>4 DEF RefsIn, E, S
<1>7. \A v \in RefsIn(ex, sm) : NodeIn(ex2, sm, v) = NodeIn(ex, sm, v) /\ KidsIn(ex2, sm, v) = KidsIn(ex, sm, v)
  <2> SUFFICES ASSUME NEW v \in RefsIn(ex, sm)
               PROVE  NodeIn(ex2, sm, v) = NodeIn(ex, sm, v) /\ KidsIn(ex2, sm, v) = KidsIn(ex, sm, v)
    OBVIOUS
  <2>1. v[1] = "e" => ex2[v[2]] = ex[v[2]]
    BY <1>4 DEF RefsIn, E, S
  <2> QED
    BY <2>1, Zenon DEF NodeIn, KidsIn
<1>8. E(n + 1)[1] = "e" /\ E(n + 1)[2] = n + 1
  BY DEF E
<1>9. NodeIn(ex2, sm, E(n + 1)) = node /\ KidsIn(ex2, sm, E(n + 1)) = ExprChildren(node.kind)
  BY <1>4, <1>8, Zenon DEF NodeIn, KidsIn
<1>10. Adds(ex, sm, ex2, sm, E(n + 1), node.src)
  BY <1>5, <1>6, <1>7, <1>8, <1>9 DEF Adds
<1> QED
  BY <1>2, <1>9, <1>10

\* The same of a statement.
LEMMA StmtAdds ==
  ASSUME NEW ex, NEW sm, IsSeq(sm), NEW node, NEW sm2, sm2 = Append(sm, node)
  PROVE  /\ Adds(ex, sm, ex, sm2, S(Len(sm) + 1), node.src)
         /\ KidsIn(ex, sm2, S(Len(sm) + 1)) = StmtChildren(node.kind)
<1>1. sm \in Seq({sm[i] : i \in DOMAIN sm})
  BY DEF IsSeq
<1>2. PICK n \in Nat : n = Len(sm)
  BY <1>1
<1>3. PICK X : sm \in Seq(X) /\ node \in X
  <2>1. sm \in Seq({sm[i] : i \in DOMAIN sm} \cup {node})
    BY <1>1
  <2> QED
    BY <2>1
<1>4. DOMAIN sm = 1..n /\ DOMAIN sm2 = 1..n + 1 /\ sm2[n + 1] = node /\ \A i \in 1..n : sm2[i] = sm[i]
  BY <1>2, <1>3
<1>5. \A v : v \in RefsIn(ex, sm2) <=> v \in RefsIn(ex, sm) \/ v = S(n + 1)
  <2>1. \A i : i \in 1..n + 1 <=> i \in 1..n \/ i = n + 1
    OBVIOUS
  <2> QED
    BY <1>4, <2>1, Zenon DEF RefsIn
<1>6. S(n + 1) \notin RefsIn(ex, sm)
  BY <1>4 DEF RefsIn, E, S
<1>7. \A v \in RefsIn(ex, sm) : NodeIn(ex, sm2, v) = NodeIn(ex, sm, v) /\ KidsIn(ex, sm2, v) = KidsIn(ex, sm, v)
  <2> SUFFICES ASSUME NEW v \in RefsIn(ex, sm)
               PROVE  NodeIn(ex, sm2, v) = NodeIn(ex, sm, v) /\ KidsIn(ex, sm2, v) = KidsIn(ex, sm, v)
    OBVIOUS
  <2>1. v[1] # "e" => sm2[v[2]] = sm[v[2]]
    BY <1>4 DEF RefsIn, E, S
  <2> QED
    BY <2>1, Zenon DEF NodeIn, KidsIn
<1>8. S(n + 1)[1] = "s" /\ S(n + 1)[2] = n + 1 /\ "s" # "e"
  BY DEF S
<1>9. NodeIn(ex, sm2, S(n + 1)) = node /\ KidsIn(ex, sm2, S(n + 1)) = StmtChildren(node.kind)
  BY <1>4, <1>8, Zenon DEF NodeIn, KidsIn
<1>10. Adds(ex, sm, ex, sm2, S(n + 1), node.src)
  BY <1>5, <1>6, <1>7, <1>8, <1>9 DEF Adds
<1> QED
  BY <1>2, <1>9, <1>10

\* The kinds of the nodes minted are kinds of node.
KindsIn(arena, kinds) == \A i \in DOMAIN arena : arena[i].kind.k \in kinds

\* A node of a known kind keeps the kinds of its arena known.
LEMMA KindsGrow ==
  ASSUME NEW arena, IsSeq(arena), NEW kinds, KindsIn(arena, kinds), NEW node, node.kind.k \in kinds
  PROVE  KindsIn(Append(arena, node), kinds)
<1>1. PICK X : arena \in Seq(X) /\ node \in X
  <2>1. arena \in Seq({arena[i] : i \in DOMAIN arena} \cup {node})
    BY DEF IsSeq
  <2> QED
    BY <2>1
<1>2. PICK n \in Nat : n = Len(arena)
  BY <1>1
<1>3. PICK b : b = Append(arena, node)
  OBVIOUS
<1>4. DOMAIN arena = 1..n /\ DOMAIN b = 1..n + 1 /\ b[n + 1] = node /\ \A i \in 1..n : b[i] = arena[i]
  BY <1>1, <1>2, <1>3
<1>5. \A i \in 1..n + 1 : i \in 1..n \/ i = n + 1
  OBVIOUS
<1>6. KindsIn(b, kinds)
  BY <1>4, <1>5, Zenon DEF KindsIn
<1> QED
  BY <1>3, <1>6

\* The children of a node are a list, and a node knows the SDK's node.
WellFormed(ex, sm) == \A v \in RefsIn(ex, sm) : IsSeq(KidsIn(ex, sm, v)) /\ NodeIn(ex, sm, v).src \in Nat

\* One node more, with a list of children, keeps the arenas well formed.
LEMMA AddsKeeps ==
  ASSUME NEW ex, NEW sm, NEW ex2, NEW sm2, NEW u, NEW src \in Nat, Adds(ex, sm, ex2, sm2, u, src),
         WellFormed(ex, sm), IsSeq(KidsIn(ex2, sm2, u))
  PROVE  WellFormed(ex2, sm2)
<1> SUFFICES ASSUME NEW v \in RefsIn(ex2, sm2)
             PROVE  IsSeq(KidsIn(ex2, sm2, v)) /\ NodeIn(ex2, sm2, v).src \in Nat
  BY DEF WellFormed
<1>1. CASE v = u
  BY <1>1 DEF Adds
<1>2. CASE v \in RefsIn(ex, sm)
  <2>1. IsSeq(KidsIn(ex, sm, v)) /\ NodeIn(ex, sm, v).src \in Nat
    BY <1>2 DEF WellFormed
  <2>2. NodeIn(ex2, sm2, v) = NodeIn(ex, sm, v) /\ KidsIn(ex2, sm2, v) = KidsIn(ex, sm, v)
    BY <1>2 DEF Adds
  <2> QED
    BY <2>1, <2>2
<1> QED
  BY <1>1, <1>2 DEF Adds

\* What finish leaves: the nodes are a tree under the root, and linked.
TreeLinked ==
  /\ result.is = "panic" => sdk = <<>>
  /\ result.is = "Ok" =>
       /\ IsTree(Refs, Kids, S(result.root), Ranks) /\ parent[S(result.root)] = NoParent
       /\ \A u \in Refs : \A i \in DOMAIN Children(u) : parent[Children(u)[i]] = u

TreeInv ==
  /\ WalkInv /\ TreeLinked
  /\ Shaped(stack, sdk) /\ Placed(stack, sdk, exprs, stmts) /\ WellFormed(exprs, stmts)
  /\ KindsIn(exprs, ExpressionKind) /\ KindsIn(stmts, StatementKind)
  /\ result.is = "lvars" => sdk = <<>>

\* The innermost frame is the last of a stack that is never empty.
LEMMA TreeFramed ==
  ASSUME TreeInv
  PROVE  Framed(stack, sdk) /\ Top = stack[Len(stack)] /\ Len(stack) \in Nat \ {0}
<1>1. Framed(stack, sdk)
  BY DEF TreeInv, WalkInv, FramesOK, Framed
<1> QED
  BY <1>1, Waiting DEF TreeInv

\* At first the arenas are empty and only the walk's own frame is open.
LEMMA TreeInvInit == Init => TreeInv
<1> SUFFICES ASSUME Init PROVE TreeInv
  OBVIOUS
<1>1. WalkInv
  BY WalkInvInit
<1>2. /\ sdk = <<>> /\ exprs = <<>> /\ stmts = <<>>
      /\ stack = <<[node |-> 0, todo |-> <<"b">>, got |-> <<>>]>> /\ result = [is |-> "lvars"]
  BY DEF Init
<1>3. /\ Len(stack) = 1 /\ stack[1].node = 0 /\ stack[1].got = <<>> /\ Len(stack[1].got) = 0
      /\ stack[1].todo = <<"b">> /\ Len(stack[1].todo) = 1 /\ stack[1].todo[1] = "b"
  BY <1>2
<1>4. SlotsIn(sdk, 0) = <<"b">> /\ Len(<<"b">>) = 1 /\ <<"b">>[1] = "b"
  BY DEF SlotsIn
<1>5. Shaped(stack, sdk)
  <2>1. Fit(stack[1], SlotsIn(sdk, stack[1].node))
    BY <1>3, <1>4 DEF Fit
  <2>2. \A k \in 1..Len(stack) : k = 1
    BY <1>3
  <2>3. (\A k \in 1..Len(stack) - 1 : FALSE) /\ \A k \in 2..Len(stack) : FALSE
    BY <1>3
  <2> QED
    BY <2>1, <2>2, <2>3, Zenon DEF Shaped
<1>6. RefsIn(exprs, stmts) = {}
  BY <1>2 DEF RefsIn
<1>7. \A k, i, r : ~FrameHolds(stack, sdk, k, i, r)
  BY <1>3 DEF FrameHolds
<1>8. \A u, i, r : ~NodeHolds(exprs, stmts, u, i, r)
  BY <1>6 DEF NodeHolds
<1>9. Placed(stack, sdk, exprs, stmts)
  BY <1>6, <1>7, <1>8, Zenon DEF Placed, Holds
<1>10. KindsIn(exprs, ExpressionKind) /\ KindsIn(stmts, StatementKind) /\ WellFormed(exprs, stmts)
  BY <1>2, <1>6 DEF KindsIn, WellFormed
<1>11. TreeLinked
  BY <1>2 DEF TreeLinked
<1> QED
  BY <1>1, <1>2, <1>5, <1>9, <1>10, <1>11 DEF TreeInv

\* A step of the walk that enters a node or passes an optional operand.
LEMMA WalksOn ==
  ASSUME TreeInv, WalkInv', result'.is = "walk", UNCHANGED <<exprs, stmts>>,
         Shaped(stack', sdk'), Placed(stack', sdk', exprs, stmts)
  PROVE  TreeInv'
<1>1. TreeLinked'
  BY DEF TreeLinked
<1>2. Shaped(stack, sdk)' /\ Placed(stack, sdk, exprs, stmts)'
  BY Zenon
<1>3. KindsIn(exprs, ExpressionKind)' /\ KindsIn(stmts, StatementKind)'
  BY DEF TreeInv, KindsIn
<1>4. WellFormed(exprs, stmts)'
  <2>1. RefsIn(exprs, stmts)' = RefsIn(exprs, stmts)
    BY DEF RefsIn
  <2>2. \A v : /\ KidsIn(exprs, stmts, v)' = KidsIn(exprs, stmts, v)
               /\ NodeIn(exprs, stmts, v)' = NodeIn(exprs, stmts, v)
    BY DEF KidsIn, NodeIn
  <2> QED
    BY <2>1, <2>2 DEF TreeInv, WellFormed
<1> QED
  BY <1>1, <1>2, <1>3, <1>4 DEF TreeInv

\* Opening a frame for a visited node moves no handle.
LEMMA EntersTree ==
  ASSUME TreeInv, Walking, NEW node \in SdkNode, Slotted(node), sdk' = Append(sdk, node), Enter(node),
         ForExpr(Slot) <=> ~IsStmt(node.op)
  PROVE  Shaped(stack', sdk') /\ Placed(stack', sdk', exprs, stmts)
<1>1. PICK st, sd, ex, sm, st2, sd2 :
        st = stack /\ sd = sdk /\ ex = exprs /\ sm = stmts /\ st2 = stack' /\ sd2 = sdk'
  OBVIOUS
<1>2. Framed(st, sd) /\ Shaped(st, sd) /\ Placed(st, sd, ex, sm) /\ Top = st[Len(st)]
  BY <1>1, TreeFramed DEF TreeInv
<1>3. st[Len(st)].todo # <<>>
  BY <1>2 DEF Walking
<1>4. ForExpr(st[Len(st)].todo[1]) <=> ~IsStmt(node.op)
  <2>1. Slot = st[Len(st)].todo[1]
    BY <1>2 DEF Slot
  <2> QED
    BY <2>1
<1>5. st2 = Append(st, [node |-> Len(sd) + 1, todo |-> node.slots, got |-> <<>>]) /\ sd2 = Append(sd, node)
  BY <1>1 DEF Enter
<1>6. Shaped(st2, sd2) /\ Placed(st2, sd2, ex, sm)
  <2>1. Framed(st, sd) /\ Shaped(st, sd) /\ Placed(st, sd, ex, sm)
    BY <1>2
  <2> QED
    BY <1>3, <1>4, <1>5, <2>1, EnterPlaces, ZenonT(60)
<1> QED
  BY <1>1, <1>6, Zenon

\* Visiting an expression opens its frame.
LEMMA ExprTree ==
  ASSUME TreeInv, NEW op \in input.exprs, NEW ea \in input.eas, NEW ty \in Types,
         NEW n \in Fan(op), NEW data \in DataOf(op, 0), Expr(op, n, ea, ty, data)
  PROVE  TreeInv'
<1> DEFINE node == [op |-> op, ea |-> ea, slots |-> ExprSlots(op, n), data |-> data, opt |-> Slot]
<1>1. /\ Walking /\ Slot \in {"e", "oe"} /\ Reveal(node) /\ Enter(node) /\ result' = result
      /\ exprs' = exprs /\ stmts' = stmts
  BY DEF Expr, arenas
<1>2. op \in 0..99 /\ ~IsStmt(op) /\ ea \in Nat /\ n \in Nat /\ 0 \in Nat
  BY InputTypes DEF TreeInv, WalkInv
<1>3. ExprSlots(op, n) \in Seq(SlotKind)
  BY <1>2, ExprSlotsType
<1>4. data \in Data
  BY <1>2 DEF Data
<1>5. node \in SdkNode
  BY <1>1, <1>2, <1>3, <1>4 DEF SdkNode, SlotKind
<1>6. node.op = op /\ node.slots = ExprSlots(op, n)
  OBVIOUS
<1> HIDE DEF node
<1>7. Slotted(node)
  BY <1>2, <1>6, Zenon DEF Slotted
<1>8. sdk' = Append(sdk, node)
  BY <1>1 DEF Reveal
<1>9. ForExpr(Slot) <=> ~IsStmt(node.op)
  BY <1>1, <1>2, <1>6 DEF ForExpr
<1>10. Shaped(stack', sdk') /\ Placed(stack', sdk', exprs, stmts)
  BY <1>1, <1>5, <1>7, <1>8, <1>9, EntersTree
<1>11. WalkInv' /\ result'.is = "walk"
  BY <1>1, ExprStep DEF TreeInv, Walking
<1> QED
  BY <1>1, <1>10, <1>11, WalksOn

\* Visiting a statement opens its frame.
LEMMA StmtTree ==
  ASSUME TreeInv, NEW op \in input.stmts, NEW ea \in input.eas,
         NEW n \in Fan(op), NEW data \in DataOf(op, n), Stmt(op, n, ea, data)
  PROVE  TreeInv'
<1> DEFINE node == [op |-> op, ea |-> ea, slots |-> StmtSlots(op, n), data |-> data, opt |-> Slot]
<1>1. /\ Walking /\ Slot \in {"s", "os", "b"} /\ Reveal(node) /\ Enter(node) /\ result' = result
      /\ exprs' = exprs /\ stmts' = stmts
  BY DEF Stmt, arenas, faults
<1>2. op \in 0..99 /\ ea \in Nat /\ n \in Nat /\ IsStmt(op)
  BY InputTypes DEF TreeInv, WalkInv
<1>3. StmtSlots(op, n) \in Seq(SlotKind)
  BY <1>2, StmtSlotsType
<1>4. data \in Data
  BY <1>2 DEF Data
<1>5. node \in SdkNode
  BY <1>1, <1>2, <1>3, <1>4 DEF SdkNode, SlotKind
<1>6. node.op = op /\ node.slots = StmtSlots(op, n)
  OBVIOUS
<1> HIDE DEF node
<1>7. Slotted(node)
  BY <1>2, <1>6, Zenon DEF Slotted
<1>8. sdk' = Append(sdk, node)
  BY <1>1 DEF Reveal
<1>9. ForExpr(Slot) <=> ~IsStmt(node.op)
  BY <1>1, <1>2, <1>6 DEF ForExpr
<1>10. Shaped(stack', sdk') /\ Placed(stack', sdk', exprs, stmts)
  BY <1>1, <1>5, <1>7, <1>8, <1>9, EntersTree
<1>11. WalkInv' /\ result'.is = "walk"
  BY <1>1, StmtStep DEF TreeInv, Walking
<1> QED
  BY <1>1, <1>10, <1>11, WalksOn

\* An operand that is not there.
LEMMA PassesTree ==
  ASSUME TreeInv, Walking, Slot \in {"oe", "os"}, stack' = Taking(stack, NONE),
         sdk' = sdk \/ \E node \in SdkNode : sdk' = Append(sdk, node)
  PROVE  Shaped(stack', sdk') /\ Placed(stack', sdk', exprs, stmts)
<1>1. PICK st, sd, ex, sm, st2, sd2 :
        st = stack /\ sd = sdk /\ ex = exprs /\ sm = stmts /\ st2 = stack' /\ sd2 = sdk'
  OBVIOUS
<1>2. Framed(st, sd) /\ Shaped(st, sd) /\ Placed(st, sd, ex, sm) /\ Top = st[Len(st)]
  BY <1>1, TreeFramed DEF TreeInv
<1>3. st[Len(st)].todo # <<>> /\ st[Len(st)].todo[1] \in {"oe", "os"}
  BY <1>2 DEF Walking, Slot
<1>4. st2 = Taking(st, NONE) /\ (sd2 = sd \/ \E node \in SdkNode : sd2 = Append(sd, node))
  BY <1>1
<1>5. Shaped(st2, sd2) /\ Placed(st2, sd2, ex, sm)
  BY <1>2, <1>3, <1>4, TakeNonePlaces
<1> QED
  BY <1>1, <1>5, Zenon

\* An elided operand fills an optional slot with NONE.
LEMMA OptExprTree ==
  ASSUME TreeInv, NEW ea \in input.eas, OptExpr(ea)
  PROVE  TreeInv'
<1>1. /\ Walking /\ Slot = "oe" /\ stack' = Taking(stack, NONE) /\ result' = result
      /\ exprs' = exprs /\ stmts' = stmts
  BY DEF OptExpr, arenas
<1>2. WalkInv' /\ result'.is = "walk"
  BY <1>1, OptExprStep DEF TreeInv, Walking
<1>3. \E node \in SdkNode : sdk' = Append(sdk, node)
  <2>1. \E node : sdk' = Append(sdk, node)
    BY DEF OptExpr, Reveal
  <2>2. PICK node : sdk' = Append(sdk, node)
    BY <2>1
  <2>3. sdk \in Seq(SdkNode) /\ sdk' \in Seq(SdkNode)
    BY <1>2 DEF TreeInv, WalkInv
  <2>4. sdk'[Len(sdk) + 1] = node /\ Len(sdk) \in Nat /\ Len(sdk') = Len(sdk) + 1
    BY <2>2, <2>3
  <2>5. node \in SdkNode
    BY <2>3, <2>4
  <2> QED
    BY <2>2, <2>5
<1>4. Shaped(stack', sdk') /\ Placed(stack', sdk', exprs, stmts)
  BY <1>1, <1>3, PassesTree
<1> QED
  BY <1>1, <1>2, <1>4, WalksOn

\* An absent else fills the slot of the else with NONE.
LEMMA NoElseTree ==
  ASSUME TreeInv, NoElse
  PROVE  TreeInv'
<1>1. /\ Walking /\ Slot = "os" /\ stack' = Taking(stack, NONE) /\ result' = result
      /\ exprs' = exprs /\ stmts' = stmts /\ sdk' = sdk
  BY DEF NoElse, arenas
<1>2. WalkInv' /\ result'.is = "walk"
  BY <1>1, NoElseStep DEF TreeInv, Walking
<1>3. Shaped(stack', sdk') /\ Placed(stack', sdk', exprs, stmts)
  BY <1>1, PassesTree
<1> QED
  BY <1>1, <1>2, <1>3, WalksOn

\* What the callback of the innermost node gets.
LEMMA MintGets ==
  ASSUME TreeInv, Minting, NEW n, n = sdk[Top.node]
  PROVE  /\ n \in SdkNode /\ SlotsIn(sdk, Top.node) = n.slots /\ Filled(n.slots, Top.got)
         /\ \E m \in Nat : n.slots = IF IsStmt(n.op) THEN StmtSlots(n.op, m) ELSE ExprSlots(n.op, m)
<1>1. /\ Framed(stack, sdk) /\ Top = stack[Len(stack)] /\ Len(stack) \in Nat \ {0}
      /\ Top.todo = <<>> /\ Top.node # 0
  BY TreeFramed DEF Minting
<1>2. /\ stack[1].node = 0 /\ sdk \in Seq(SdkNode)
      /\ \A k \in 2..Len(stack) : stack[k].node \in 1..Len(sdk)
  BY <1>1 DEF Framed
<1>3. Len(stack) \in 2..Len(stack) /\ Len(stack) \in 1..Len(stack)
  BY <1>1, <1>2
<1>4. Top.node \in 1..Len(sdk)
  BY <1>1, <1>2, <1>3
<1>5. n \in SdkNode /\ SlotsIn(sdk, Top.node) = n.slots
  BY <1>1, <1>2, <1>4 DEF SlotsIn
<1>6. Fit(Top, n.slots) /\ Slotted(n)
  <2>1. /\ \A k \in 1..Len(stack) : Fit(stack[k], SlotsIn(sdk, stack[k].node))
        /\ \A k \in 2..Len(stack) : Slotted(sdk[stack[k].node])
    BY DEF TreeInv, Shaped
  <2>2. Fit(Top, SlotsIn(sdk, Top.node)) /\ Slotted(sdk[Top.node])
    BY <1>1, <1>3, <2>1, Zenon
  <2> QED
    BY <1>5, <2>2, Zenon
<1>7. Top.got \in Seq(Nat) /\ Len(Top.got) \in Nat
  BY <1>1, <1>3, FramedIs
<1>8. Filled(n.slots, Top.got)
  <2>1. /\ Len(Top.got) + Len(Top.todo) = Len(n.slots)
        /\ \A i \in 1..Len(Top.got) : Top.got[i] = NONE => n.slots[i] \in {"oe", "os"}
    BY <1>6 DEF Fit
  <2>2. n.slots \in Seq(SlotKind)
    BY <1>5 DEF SdkNode
  <2>3. Len(Top.got) + Len(Top.todo) = Len(Top.got)
    BY <1>1, <1>7
  <2> QED
    BY <1>7, <2>1, <2>3, Zenon DEF Filled
<1> QED
  BY <1>5, <1>6, <1>8 DEF Slotted

\* Minting an expression keeps every node in one place.
LEMMA MintExpressionTree ==
  ASSUME TreeInv, MintExpression
  PROVE  TreeInv'
<1>1. WalkInv'
  BY MintStep DEF TreeInv
<1>2. PICK n, got, kind, node, h :
        /\ n = sdk[Top.node] /\ got = Top.got /\ kind = ExprKindOf(n.op, got, n.data)
        /\ node = [kind |-> kind, ea |-> n.ea, src |-> Top.node] /\ h = Len(exprs) + 1
  OBVIOUS
<1>3. /\ Minting /\ ~IsStmt(n.op) /\ exprs' = Append(exprs, node) /\ stmts' = stmts
      /\ stack' = Taking(Front(stack), h) /\ sdk' = sdk /\ result' = result
  BY <1>2, Zenon DEF MintExpression, ExprKindOf, push, alloc, Handle
<1>4. /\ n \in SdkNode /\ SlotsIn(sdk, Top.node) = n.slots /\ Filled(n.slots, got)
      /\ \E m \in Nat : n.slots = IF IsStmt(n.op) THEN StmtSlots(n.op, m) ELSE ExprSlots(n.op, m)
  BY <1>2, <1>3, MintGets
<1>5. PICK m \in Nat : n.slots = ExprSlots(n.op, m)
  BY <1>3, <1>4, Zenon
<1>6. /\ kind.k \in ExpressionKind /\ Carries(ExprChildren(kind), n.slots, got, Len(got))
  <2>1. n.op \in 0..99
    BY <1>4 DEF SdkNode
  <2>2. Filled(ExprSlots(n.op, m), got)
    BY <1>4, <1>5
  <2>3. /\ ExprKindOf(n.op, got, n.data).k \in ExpressionKind
        /\ Carries(ExprChildren(ExprKindOf(n.op, got, n.data)), ExprSlots(n.op, m), got, Len(got))
    BY <1>3, <2>1, <2>2, ExprCarries
  <2> QED
    BY <1>2, <1>5, <2>3, Zenon
<1>7. node.src = Top.node /\ node.kind = kind
  BY <1>2
<1>8. PICK st, sd, ex, sm, st2, ex2, u :
        /\ st = stack /\ sd = sdk /\ ex = exprs /\ sm = stmts /\ st2 = stack' /\ ex2 = exprs' /\ u = E(h)
  OBVIOUS
<1>9. /\ Framed(st, sd) /\ Shaped(st, sd) /\ Placed(st, sd, ex, sm) /\ Top = st[Len(st)] /\ IsSeq(ex)
      /\ st[Len(st)].node # 0
  BY <1>3, <1>8, TreeFramed DEF TreeInv, WalkInv, Minting
<1>10. /\ Adds(ex, sm, ex2, sm, u, st[Len(st)].node) /\ KidsIn(ex2, sm, u) = ExprChildren(kind)
  <2>1. ex2 = Append(ex, node)
    BY <1>3, <1>8
  <2>2. /\ Adds(ex, sm, ex2, sm, E(Len(ex) + 1), node.src)
        /\ KidsIn(ex2, sm, E(Len(ex) + 1)) = ExprChildren(node.kind)
    BY <1>9, <2>1, ExprAdds
  <2>3. E(Len(ex) + 1) = u
    BY <1>2, <1>8
  <2> QED
    BY <1>7, <1>9, <2>2, <2>3, Zenon
<1>11. Carries(KidsIn(ex2, sm, u), SlotsIn(sd, st[Len(st)].node), st[Len(st)].got, Len(st[Len(st)].got))
  BY <1>2, <1>4, <1>6, <1>8, <1>9, <1>10, Zenon
<1>12. h \in Nat \ {0}
  BY <1>2, <1>8, <1>9, IsSeqAppend
<1>13. u = IF IsStmt(sd[st[Len(st)].node].op) THEN S(h) ELSE E(h)
  BY <1>2, <1>3, <1>8, <1>9, Zenon
<1>14. st2 = Taking(Front(st), h)
  BY <1>3, <1>8
<1>15. Shaped(st2, sd) /\ Placed(st2, sd, ex2, sm)
  BY <1>9, <1>10, <1>11, <1>12, <1>13, <1>14, MintPlaces
<1>16. Shaped(stack, sdk)' /\ Placed(stack, sdk, exprs, stmts)'
  BY <1>3, <1>8, <1>15, Zenon
<1>17. KindsIn(exprs', ExpressionKind) /\ KindsIn(stmts', StatementKind)
  <2>1. IsSeq(exprs) /\ KindsIn(exprs, ExpressionKind) /\ KindsIn(stmts, StatementKind)
    BY DEF TreeInv, WalkInv
  <2>2. KindsIn(Append(exprs, node), ExpressionKind)
    BY <1>6, <1>7, <2>1, KindsGrow
  <2> QED
    BY <1>3, <2>1, <2>2
<1>18. KindsIn(exprs, ExpressionKind)' /\ KindsIn(stmts, StatementKind)'
  BY <1>17 DEF KindsIn
<1>19. TreeLinked' /\ result'.is = "walk"
  BY <1>3 DEF TreeLinked, Minting
<1>20. WellFormed(ex2, sm)
  <2>1. IsSeq(KidsIn(ex2, sm, u)) /\ WellFormed(ex, sm)
    BY <1>8, <1>11 DEF Carries, TreeInv
  <2>2. st[Len(st)].node \in Nat
    BY <1>9, FramedIs
  <2> QED
    BY <1>10, <2>1, <2>2, AddsKeeps
<1>21. WellFormed(exprs, stmts)'
  BY <1>3, <1>8, <1>20, Zenon
<1> QED
  BY <1>1, <1>16, <1>18, <1>19, <1>21 DEF TreeInv

\* Minting a statement keeps every node in one place.
LEMMA MintStatementTree ==
  ASSUME TreeInv, MintStatement
  PROVE  TreeInv'
<1>1. WalkInv'
  BY MintStep DEF TreeInv
<1>2. PICK n, got, kind, node, h :
        /\ n = sdk[Top.node] /\ got = Top.got /\ kind = StmtKindOf(n.op, got, n.data)
        /\ node = [kind |-> kind, ea |-> n.ea, src |-> Top.node] /\ h = Len(stmts) + 1
  OBVIOUS
<1>3. /\ Minting /\ IsStmt(n.op) /\ stmts' = Append(stmts, node) /\ exprs' = exprs
      /\ stack' = Taking(Front(stack), h) /\ sdk' = sdk /\ result' = result
  BY <1>2, Zenon DEF MintStatement, StmtKindOf, push, alloc, Handle
<1>4. /\ n \in SdkNode /\ SlotsIn(sdk, Top.node) = n.slots /\ Filled(n.slots, got)
      /\ \E m \in Nat : n.slots = IF IsStmt(n.op) THEN StmtSlots(n.op, m) ELSE ExprSlots(n.op, m)
  BY <1>2, <1>3, MintGets
<1>5. PICK m \in Nat : n.slots = StmtSlots(n.op, m)
  BY <1>3, <1>4, Zenon
<1>6. /\ kind.k \in StatementKind /\ Carries(StmtChildren(kind), n.slots, got, Len(got))
  <2>1. n.op \in 70..84
    BY <1>3 DEF IsStmt
  <2>2. Filled(StmtSlots(n.op, m), got)
    BY <1>4, <1>5
  <2>3. /\ StmtKindOf(n.op, got, n.data).k \in StatementKind
        /\ Carries(StmtChildren(StmtKindOf(n.op, got, n.data)), StmtSlots(n.op, m), got, Len(got))
    BY <2>1, <2>2, StmtCarries
  <2> QED
    BY <1>2, <1>5, <2>3, Zenon
<1>7. node.src = Top.node /\ node.kind = kind
  BY <1>2
<1>8. PICK st, sd, ex, sm, st2, sm2, u :
        /\ st = stack /\ sd = sdk /\ ex = exprs /\ sm = stmts /\ st2 = stack' /\ sm2 = stmts' /\ u = S(h)
  OBVIOUS
<1>9. /\ Framed(st, sd) /\ Shaped(st, sd) /\ Placed(st, sd, ex, sm) /\ Top = st[Len(st)] /\ IsSeq(sm)
      /\ st[Len(st)].node # 0
  BY <1>3, <1>8, TreeFramed DEF TreeInv, WalkInv, Minting
<1>10. /\ Adds(ex, sm, ex, sm2, u, st[Len(st)].node) /\ KidsIn(ex, sm2, u) = StmtChildren(kind)
  <2>1. sm2 = Append(sm, node)
    BY <1>3, <1>8
  <2>2. /\ Adds(ex, sm, ex, sm2, S(Len(sm) + 1), node.src)
        /\ KidsIn(ex, sm2, S(Len(sm) + 1)) = StmtChildren(node.kind)
    BY <1>9, <2>1, StmtAdds
  <2>3. S(Len(sm) + 1) = u
    BY <1>2, <1>8
  <2> QED
    BY <1>7, <1>9, <2>2, <2>3, Zenon
<1>11. Carries(KidsIn(ex, sm2, u), SlotsIn(sd, st[Len(st)].node), st[Len(st)].got, Len(st[Len(st)].got))
  BY <1>2, <1>4, <1>6, <1>8, <1>9, <1>10, Zenon
<1>12. h \in Nat \ {0}
  BY <1>2, <1>8, <1>9, IsSeqAppend
<1>13. u = IF IsStmt(sd[st[Len(st)].node].op) THEN S(h) ELSE E(h)
  BY <1>2, <1>3, <1>8, <1>9, Zenon
<1>14. st2 = Taking(Front(st), h)
  BY <1>3, <1>8
<1>15. Shaped(st2, sd) /\ Placed(st2, sd, ex, sm2)
  BY <1>9, <1>10, <1>11, <1>12, <1>13, <1>14, MintPlaces
<1>16. Shaped(stack, sdk)' /\ Placed(stack, sdk, exprs, stmts)'
  BY <1>3, <1>8, <1>15, Zenon
<1>17. KindsIn(exprs', ExpressionKind) /\ KindsIn(stmts', StatementKind)
  <2>1. IsSeq(stmts) /\ KindsIn(exprs, ExpressionKind) /\ KindsIn(stmts, StatementKind)
    BY DEF TreeInv, WalkInv
  <2>2. KindsIn(Append(stmts, node), StatementKind)
    BY <1>6, <1>7, <2>1, KindsGrow
  <2> QED
    BY <1>3, <2>1, <2>2
<1>18. KindsIn(exprs, ExpressionKind)' /\ KindsIn(stmts, StatementKind)'
  BY <1>17 DEF KindsIn
<1>19. TreeLinked' /\ result'.is = "walk"
  BY <1>3 DEF TreeLinked, Minting
<1>20. WellFormed(ex, sm2)
  <2>1. IsSeq(KidsIn(ex, sm2, u)) /\ WellFormed(ex, sm)
    BY <1>8, <1>11 DEF Carries, TreeInv
  <2>2. st[Len(st)].node \in Nat
    BY <1>9, FramedIs
  <2> QED
    BY <1>10, <2>1, <2>2, AddsKeeps
<1>21. WellFormed(exprs, stmts)'
  BY <1>3, <1>8, <1>20, Zenon
<1> QED
  BY <1>1, <1>16, <1>18, <1>19, <1>21 DEF TreeInv

\* When the walk is over its frame holds the root, and nothing else is held
\* by a frame.
LEMMA RootHeld ==
  ASSUME TreeInv, Top.node = 0, Top.todo = <<>>, NEW h, h = Top.got[1]
  PROVE  /\ FrameHolds(stack, sdk, 1, 1, S(h)) /\ Len(stack) = 1
         /\ \A k, i, r : FrameHolds(stack, sdk, k, i, r) => k = 1 /\ i = 1 /\ r = S(h)
<1>1. Framed(stack, sdk) /\ Top = stack[Len(stack)] /\ Len(stack) \in Nat \ {0}
  BY TreeFramed
<1>2. \A k \in 2..Len(stack) : stack[k].node \in 1..Len(sdk)
  BY <1>1 DEF Framed
<1>3. Len(stack) = 1
  <2> SUFFICES ASSUME Len(stack) # 1 PROVE FALSE
    OBVIOUS
  <2>1. Len(stack) \in 2..Len(stack)
    <3>1. PICK n \in Nat \ {0} : n = Len(stack)
      BY <1>1
    <3>2. n \in 2..n
      BY <3>1
    <3> QED
      BY <3>1, <3>2
  <2>2. Top.node \in 1..Len(sdk)
    BY <1>1, <1>2, <2>1
  <2> QED
    BY <2>2
<1>4. Top = stack[1] /\ 1 \in 1..Len(stack)
  BY <1>1, <1>3
<1>5. SlotsIn(sdk, 0) = <<"b">>
  BY DEF SlotsIn
<1>6. Fit(Top, <<"b">>)
  <2>1. Fit(stack[1], SlotsIn(sdk, stack[1].node))
    BY <1>4 DEF TreeInv, Shaped
  <2> QED
    BY <1>4, <1>5, <2>1
<1>7. Len(Top.got) = 1 /\ Top.got[1] # NONE
  <2>1. /\ Len(Top.got) + Len(Top.todo) = Len(<<"b">>)
        /\ \A i \in 1..Len(Top.got) : Top.got[i] = NONE => <<"b">>[i] \in {"oe", "os"}
    BY <1>6 DEF Fit
  <2>2. Len(Top.got) \in Nat
    BY <1>1, <1>4, FramedIs
  <2>3. Len(Top.got) = 1
    BY <2>1, <2>2
  <2> QED
    BY <2>1, <2>3
<1>8. RefOf("b", h) = S(h) /\ <<"b">>[1] = "b"
  BY DEF RefOf
<1>9. FrameHolds(stack, sdk, 1, 1, S(h))
  <2>1. 1 \in 1..Len(stack[1].got)
    BY <1>4, <1>7
  <2>2. stack[1].got[1] = h /\ h # NONE /\ SlotsIn(sdk, stack[1].node)[1] = "b"
    BY <1>4, <1>5, <1>7, <1>8
  <2> QED
    BY <1>4, <1>8, <2>1, <2>2, Zenon DEF FrameHolds
<1>10. ASSUME NEW k, NEW i, NEW r, FrameHolds(stack, sdk, k, i, r)
       PROVE  k = 1 /\ i = 1 /\ r = S(h)
  <2>1. k \in 1..Len(stack) /\ i \in 1..Len(stack[k].got) /\ r = RefOf(SlotsIn(sdk, stack[k].node)[i], stack[k].got[i])
    BY <1>10 DEF FrameHolds
  <2>2. k = 1
    BY <1>3, <2>1
  <2>3. i = 1
    BY <1>4, <1>7, <2>1, <2>2
  <2>4. SlotsIn(sdk, stack[1].node)[1] = "b" /\ stack[1].got[1] = h
    BY <1>4, <1>5, <1>8
  <2> QED
    BY <1>8, <2>1, <2>2, <2>3, <2>4, Zenon
<1> QED
  BY <1>3, <1>9, <1>10

\* The nodes are then a tree under the root.
LEMMA FinishesTree ==
  ASSUME TreeInv, Top.node = 0, Top.todo = <<>>, NEW h, h = Top.got[1]
  PROVE  IsTree(Refs, Kids, S(h), Ranks)
<1>1. /\ FrameHolds(stack, sdk, 1, 1, S(h)) /\ Len(stack) = 1
      /\ \A k, i, r : FrameHolds(stack, sdk, k, i, r) => k = 1 /\ i = 1 /\ r = S(h)
  BY RootHeld
<1>2. PICK R, K : R = Refs /\ K = Kids
  OBVIOUS
<1>3. IsFiniteSet(R)
  BY <1>2, RefsCounted DEF TreeInv, WalkInv
<1>4. /\ R = RefsIn(exprs, stmts) /\ \A u \in R : K[u] = KidsIn(exprs, stmts, u)
      /\ \A u \in R : Ranks[u] = NodeIn(exprs, stmts, u).src
  BY <1>2, ArenasAre DEF Kids, Ranks
<1>5. /\ \A r \in R : \E g, i : Holds(stack, sdk, exprs, stmts, g, i, r)
      /\ \A a, b, i, j, r :
           Holds(stack, sdk, exprs, stmts, a, i, r) /\ Holds(stack, sdk, exprs, stmts, b, j, r) => a = b /\ i = j
      /\ \A k, i, r : FrameHolds(stack, sdk, k, i, r) => r \in R
      /\ \A u, i, r : NodeHolds(exprs, stmts, u, i, r) =>
                        r \in R /\ NodeIn(exprs, stmts, u).src < NodeIn(exprs, stmts, r).src
  <2>1. Placed(stack, sdk, exprs, stmts) /\ RefsIn(exprs, stmts) = R
    BY <1>4 DEF TreeInv
  <2> QED
    BY <2>1, Zenon DEF Placed
<1>6. \A u \in R : IsSeq(K[u]) /\ Ranks[u] \in Nat
  BY <1>4 DEF TreeInv, WellFormed
<1>7. ASSUME NEW u \in R
      PROVE  /\ K[u] \in Seq(R) /\ DOMAIN K[u] = 1..Len(K[u])
             /\ \A i \in DOMAIN K[u] : NodeHolds(exprs, stmts, u, i, K[u][i])
  <2>1. PICK q : q = K[u]
    OBVIOUS
  <2>2. q \in Seq({q[i] : i \in DOMAIN q}) /\ DOMAIN q = 1..Len(q)
    BY <1>6, <2>1 DEF IsSeq
  <2>3. \A i \in 1..Len(q) : NodeHolds(exprs, stmts, u, i, q[i])
    BY <1>4, <2>1, Zenon DEF NodeHolds
  <2>4. \A i \in DOMAIN q : q[i] \in R
    BY <1>5, <2>2, <2>3
  <2>5. q \in Seq(R)
    <3>1. {q[i] : i \in DOMAIN q} \subseteq R
      BY <2>4
    <3> QED
      BY <2>2, <3>1
  <2> QED
    BY <2>1, <2>2, <2>3, <2>5
<1>8. S(h) \in R
  BY <1>1, <1>5
<1>9. K \in [R -> Seq(R)]
  <2>1. K = [r \in R |-> K[r]]
    BY <1>2 DEF Kids
  <2> QED
    BY <1>7, <2>1
<1>10. Ranks \in [R -> Nat]
  <2>1. Ranks = [r \in R |-> Ranks[r]]
    BY <1>2 DEF Ranks
  <2> QED
    BY <1>6, <2>1
<1>11. \A u, i, r : NodeHolds(exprs, stmts, u, i, r) => Holds(stack, sdk, exprs, stmts, u, i, r)
  BY Zenon DEF Holds
<1>12. ASSUME NEW u \in R, NEW v \in R, NEW i \in DOMAIN K[u], NEW j \in DOMAIN K[v], K[u][i] = K[v][j]
       PROVE  u = v /\ i = j
  <2>1. Holds(stack, sdk, exprs, stmts, u, i, K[u][i]) /\ Holds(stack, sdk, exprs, stmts, v, j, K[u][i])
    BY <1>7, <1>11, <1>12
  <2> QED
    BY <1>5, <2>1
<1>13. Holds(stack, sdk, exprs, stmts, F(1), 1, S(h))
  BY <1>1 DEF Holds
<1>14. \A u \in R : u # F(1)
  BY <1>4 DEF RefsIn, F, E, S
<1>15. ASSUME NEW u \in R, NEW i \in DOMAIN K[u]
       PROVE  K[u][i] # S(h)
  <2>1. Holds(stack, sdk, exprs, stmts, u, i, K[u][i])
    BY <1>7, <1>11
  <2> QED
    BY <1>5, <1>13, <1>14, <2>1
<1>16. ASSUME NEW r \in R \ {S(h)}
       PROVE  \E u \in R : \E i \in DOMAIN K[u] : K[u][i] = r /\ Ranks[u] < Ranks[r]
  <2>1. PICK g, i : Holds(stack, sdk, exprs, stmts, g, i, r)
    BY <1>5
  <2>2. ~\E k : FrameHolds(stack, sdk, k, i, r)
    BY <1>1
  <2>3. NodeHolds(exprs, stmts, g, i, r)
    BY <2>1, <2>2, Zenon DEF Holds
  <2>4. g \in R /\ i \in 1..Len(KidsIn(exprs, stmts, g)) /\ KidsIn(exprs, stmts, g)[i] = r
    BY <1>4, <2>3 DEF NodeHolds
  <2>5. i \in DOMAIN K[g] /\ K[g][i] = r
    BY <1>4, <1>7, <2>4
  <2>6. Ranks[g] < Ranks[r]
    BY <1>4, <1>5, <2>3, <2>4
  <2> QED
    BY <2>4, <2>5, <2>6
<1> QED
  BY <1>2, <1>3, <1>8, <1>9, <1>10, <1>12, <1>15, <1>16 DEF IsTree

\* At the end only the root is left in a frame, so the arenas are a tree, and
\* the search that sets parents links it.
LEMMA FinishTree ==
  ASSUME TreeInv, Finish
  PROVE  TreeInv'
<1>1. /\ Top.node = 0 /\ Top.todo = <<>> /\ UNCHANGED <<input, sdk, stack, exprs, stmts, error>>
      /\ result.is = "walk"
  BY DEF Finish, arenas, faults
<1>2. WalkInv'
  BY <1>1, FinishOutcome, Idle DEF TreeInv
<1>3. PICK h : h = Top.got[1]
  OBVIOUS
<1>4. IsTree(Refs, Kids, S(h), Ranks) /\ IsSeq(exprs) /\ IsSeq(stmts)
  BY <1>1, <1>3, FinishesTree DEF TreeInv, WalkInv
<1>5. /\ Wire(h).visited = Total /\ Wire(h).parent[S(h)] = NoParent
      /\ \A u \in Refs : \A i \in DOMAIN Children(u) : Wire(h).parent[Children(u)[i]] = u
  BY <1>4, WireLinks
<1>6. ~(Wire(h).visited > Len(exprs) + Len(stmts))
  <2>1. Total \in Nat /\ Total = Len(exprs) + Len(stmts)
    BY <1>4, RefsCounted DEF Total
  <2> QED
    BY <1>5, <2>1
<1>7. \/ \E e : result' = [is |-> "Err", e |-> e]
      \/ result' = [is |-> "Ok", root |-> h] /\ parent' = Wire(h).parent
  BY <1>3, <1>6, Zenon DEF Finish
<1>8. Refs' = Refs /\ \A r : Children(r)' = Children(r)
  BY <1>1 DEF Refs, Children
<1>9. Kids' = Kids /\ Ranks' = Ranks
  <2>1. \A r : Node(r)' = Node(r)
    BY <1>1 DEF Node
  <2> QED
    BY <1>8, <2>1 DEF Kids, Ranks
<1>10. TreeLinked'
  <2>1. CASE \E e : result' = [is |-> "Err", e |-> e]
    <3>1. result'.is = "Err"
      BY <2>1
    <3> QED
      BY <3>1 DEF TreeLinked
  <2>2. CASE result' = [is |-> "Ok", root |-> h] /\ parent' = Wire(h).parent
    <3>1. result'.is = "Ok" /\ result'.root = h
      BY <2>2
    <3>2. IsTree(Refs', Kids', S(result'.root), Ranks') /\ parent'[S(result'.root)] = NoParent
      BY <1>4, <1>5, <1>8, <1>9, <2>2, <3>1
    <3>3. \A u \in Refs' : \A i \in DOMAIN Children(u)' : parent'[(Children(u)')[i]] = u
      BY <1>5, <1>8, <2>2
    <3> QED
      BY <3>1, <3>2, <3>3 DEF TreeLinked
  <2> QED
    BY <1>7, <2>1, <2>2
<1>11. Shaped(stack, sdk)' /\ Placed(stack, sdk, exprs, stmts)' /\ WellFormed(exprs, stmts)'
  BY <1>1, Zenon DEF TreeInv
<1>12. KindsIn(exprs, ExpressionKind)' /\ KindsIn(stmts, StatementKind)'
  BY <1>1 DEF TreeInv, KindsIn
<1>13. result'.is # "lvars"
  BY <1>7
<1> QED
  BY <1>2, <1>10, <1>11, <1>12, <1>13 DEF TreeInv

\* The tree that finish leaves is sound.
LEMMA TreeInvSound == TreeInv => TreeSound
<1> SUFFICES ASSUME TreeInv PROVE TreeSound
  OBVIOUS
<1>1. result.is = "panic" => sdk = <<>>
  BY DEF TreeInv, TreeLinked
<1>2. CASE result.is = "Ok"
  <2>1. PICK root : root = S(result.root)
    OBVIOUS
  <2>2. /\ IsTree(Refs, Kids, root, Ranks) /\ parent[root] = NoParent
        /\ \A u \in Refs : \A i \in DOMAIN Children(u) : parent[Children(u)[i]] = u
        /\ IsSeq(exprs) /\ IsSeq(stmts)
    BY <1>2, <2>1 DEF TreeInv, TreeLinked, WalkInv
  <2>3. Len(Descendants(S(result.root))) = Len(exprs) + Len(stmts)
    BY <2>1, <2>2, DescendantsCounted DEF Total
  <2>4. PICK R, K : R = Refs /\ K = Kids
    OBVIOUS
  <2>5. /\ K \in [R -> Seq(R)] /\ \A u \in R : K[u] = Children(u)
        /\ \A u, v \in R : \A i \in DOMAIN K[u], j \in DOMAIN K[v] : K[u][i] = K[v][j] => u = v /\ i = j
        /\ \A r \in R \ {root} : \E u \in R : \E i \in DOMAIN K[u] : K[u][i] = r
    BY <2>2, <2>4 DEF IsTree, Kids
  <2>6. \A r \in Refs : \A i \in DOMAIN Children(r) : Children(r)[i] \in Refs
    <3> SUFFICES ASSUME NEW r \in Refs, NEW i \in DOMAIN Children(r) PROVE Children(r)[i] \in Refs
      OBVIOUS
    <3>1. K[r] \in Seq(R) /\ K[r] = Children(r)
      BY <2>4, <2>5
    <3> QED
      BY <2>4, <3>1
  <2>7. ASSUME NEW r \in Refs \ {root}
        PROVE  /\ parent[r] \in Refs
               /\ \E i \in DOMAIN Children(parent[r]) :
                    \A u \in Refs : \A k \in DOMAIN Children(u) :
                      Children(u)[k] = r <=> u = parent[r] /\ k = i
    <3>0. PICK v \in Refs : \E i \in DOMAIN K[v] : K[v][i] = r
      BY <2>4, <2>5
    <3>1. PICK i \in DOMAIN K[v] : K[v][i] = r
      BY <3>0
    <3>2. K[v] = Children(v) /\ i \in DOMAIN Children(v) /\ Children(v)[i] = r
      BY <2>4, <2>5, <3>1
    <3>3. parent[r] = v
      BY <2>2, <3>2
    <3>4. ASSUME NEW u \in Refs, NEW k \in DOMAIN Children(u)
          PROVE  Children(u)[k] = r <=> u = v /\ k = i
      <4>1. CASE Children(u)[k] = r
        <5>1. k \in DOMAIN K[u] /\ K[u][k] = K[v][i]
          BY <2>4, <2>5, <3>1, <4>1
        <5> QED
          BY <2>4, <2>5, <3>1, <4>1, <5>1
      <4>2. CASE u = v /\ k = i
        BY <3>2, <4>2
      <4> QED
        BY <4>1, <4>2
    <3> QED
      BY <3>2, <3>3, <3>4
  <2>8. /\ \A i \in DOMAIN exprs : exprs[i].kind.k \in ExpressionKind
        /\ \A i \in DOMAIN stmts : stmts[i].kind.k \in StatementKind
    BY DEF TreeInv, KindsIn
  <2>9. /\ \A r \in Refs : \A i \in DOMAIN Children(r) : Children(r)[i] \in Refs
        /\ \A r \in Refs \ {S(result.root)} :
             /\ parent[r] \in Refs
             /\ \E i \in DOMAIN Children(parent[r]) :
                  \A u \in Refs : \A k \in DOMAIN Children(u) :
                    Children(u)[k] = r <=> u = parent[r] /\ k = i
    BY <2>1, <2>6, <2>7, Zenon
  <2>10. parent[S(result.root)] = NoParent
    BY <2>1, <2>2
  <2> QED
    BY <1>1, <2>3, <2>8, <2>9, <2>10, Zenon DEF TreeSound
<1> QED
  BY <1>1, <1>2, Zenon DEF TreeSound

\* A step that leaves the walk's own state alone.
LEMMA IdleTree ==
  ASSUME TreeInv, WalkInv', UNCHANGED <<sdk, stack, exprs, stmts>>, TreeLinked',
         result'.is = "lvars" => sdk = <<>>
  PROVE  TreeInv'
<1>1. Shaped(stack, sdk)' /\ Placed(stack, sdk, exprs, stmts)' /\ WellFormed(exprs, stmts)'
  BY Zenon DEF TreeInv
<1>2. KindsIn(exprs, ExpressionKind)' /\ KindsIn(stmts, StatementKind)'
  BY DEF TreeInv, KindsIn
<1> QED
  BY <1>1, <1>2 DEF TreeInv

\* Every step keeps the invariant of the tree.
LEMMA TreeInvStep == TreeInv /\ [Next]_vars => TreeInv'
<1> SUFFICES ASSUME TreeInv, [Next]_vars PROVE TreeInv'
  OBVIOUS
<1>0. WalkInv'
  BY WalkInvStep DEF TreeInv
<1>1. ASSUME NEW atype \in Atype, NEW ea \in {BADADDR, 1}, NEW ty \in Types, NEW arg \in BOOLEAN,
             NEW pieces, Lvar(atype, pieces, ea, ty, arg)
      PROVE  TreeInv'
  <2>1. UNCHANGED <<sdk, stack, exprs, stmts>> /\ result.is = "lvars" /\ sdk = <<>>
    BY <1>1 DEF Lvar, TreeInv
  <2>2. result' = [is |-> "panic"] \/ result' = result
    BY <1>1, Zenon DEF Lvar
  <2>3. TreeLinked'
    BY <2>1, <2>2 DEF TreeLinked
  <2> QED
    BY <1>0, <2>1, <2>3, IdleTree
<1>2. CASE Body
  <2>1. UNCHANGED <<sdk, stack, exprs, stmts>> /\ result'.is = "walk"
    BY <1>2 DEF Body, arenas
  <2>2. TreeLinked'
    BY <2>1 DEF TreeLinked
  <2> QED
    BY <1>0, <2>1, <2>2, IdleTree
<1>3. CASE UNCHANGED vars
  <2>1. UNCHANGED <<sdk, stack, exprs, stmts, result, parent>>
    BY <1>3 DEF vars, arenas
  <2>2. /\ Refs' = Refs /\ (\A r : Children(r)' = Children(r)) /\ \A r : Node(r)' = Node(r)
    BY <2>1 DEF Refs, Children, Node
  <2>3. Kids' = Kids /\ Ranks' = Ranks
    BY <2>2 DEF Kids, Ranks
  <2>4. /\ result.is = "panic" => sdk = <<>>
        /\ result.is = "Ok" =>
             /\ IsTree(Refs, Kids, S(result.root), Ranks) /\ parent[S(result.root)] = NoParent
             /\ \A u \in Refs : \A i \in DOMAIN Children(u) : parent[Children(u)[i]] = u
    BY DEF TreeInv, TreeLinked
  <2>5. TreeLinked'
    <3>1. result'.is = "panic" => sdk' = <<>>
      BY <2>1, <2>4
    <3>2. ASSUME result'.is = "Ok"
          PROVE  /\ IsTree(Refs', Kids', S(result'.root), Ranks') /\ parent'[S(result'.root)] = NoParent
                 /\ \A u \in Refs' : \A i \in DOMAIN Children(u)' : parent'[(Children(u)')[i]] = u
      BY <2>1, <2>2, <2>3, <2>4, <3>2
    <3> QED
      BY <3>1, <3>2 DEF TreeLinked
  <2>6. result'.is = "lvars" => sdk = <<>>
    BY <2>1 DEF TreeInv
  <2> QED
    BY <1>0, <2>1, <2>5, <2>6, IdleTree
<1> QED
  BY <1>1, <1>2, <1>3, ExprTree, OptExprTree, StmtTree, NoElseTree, MintExpressionTree, MintStatementTree,
     FinishTree, Zenon DEF Next

\* A tree that walk returns is sound and the asserts of finish never fail: for
\* every tree the SDK may have, whatever its size and its operators
\* (CtreeBuilder::finish and Ctree::descendants).
THEOREM TreesAreSound == Spec => []TreeSound
<1> QED
  BY TreeInvInit, TreeInvStep, TreeInvSound, PTL DEF Spec

=============================================================================
