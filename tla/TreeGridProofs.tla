--------------------------- MODULE TreeGridProofs ---------------------------
(***************************************************************************)
(* Proofs about TreeGrid, whoever uses it: the renderers of Rendering, the *)
(* functions of a caller, the rows of the timeliner or of another plugin.  *)
(*                                                                         *)
(* Typed: the nodes form a tree, each behind its parent in the list of all *)
(* nodes and once in the list of its parent's children, with the path that *)
(* _find_children() follows.  Both ways of adding a node keep that, the    *)
(* second although it changes the paths of others.  From it follow the     *)
(* three properties of TreeGrid, the last two by Counted and Ordered.      *)
(***************************************************************************)
EXTENDS Timeliner, ProofBasics

-----------------------------------------------------------------------------
(* The frames of calls in progress *)

\* Whose function populate() or visit() runs.
Callers == {"user", "none", "render"}

\* The frames of a tree with n nodes.
Frames(n) ==
  [call : {"populate"}, function : Callers, node : 0 .. n, strict : BOOLEAN, prev_nodes : Seq(1 .. n)]
  \cup [call : {"visit"}, function : Callers, node : 0 .. n, from : 0 .. n,
        lists : Seq([of : 0 .. n, next : Nat \ {0}]), entering : BOOLEAN]

\* Frames of populate() that have a row which is not counted yet.
Pending == {i \in DOMAIN stack : stack[i].call = "populate" /\ stack[i].node # NoNode}

\* A frame of a smaller tree is one of a larger tree.
LEMMA FramesGrow ==
  ASSUME NEW n \in Nat, NEW m \in Nat, n <= m
  PROVE  Frames(n) \subseteq Frames(m)
  <1>1. 0 .. n \subseteq 0 .. m /\ 1 .. n \subseteq 1 .. m
    OBVIOUS
  <1>2. Seq(1 .. n) \subseteq Seq(1 .. m)
    BY <1>1
  <1>3. [of : 0 .. n, next : Nat \ {0}] \subseteq [of : 0 .. m, next : Nat \ {0}]
    BY <1>1
  <1>4. Seq([of : 0 .. n, next : Nat \ {0}]) \subseteq Seq([of : 0 .. m, next : Nat \ {0}])
    <2> DEFINE A == [of : 0 .. n, next : Nat \ {0}]
               B == [of : 0 .. m, next : Nat \ {0}]
    <2>1. A \subseteq B
      BY <1>3
    <2> HIDE DEF A, B
    <2>2. Seq(A) \subseteq Seq(B)
      BY <2>1
    <2> QED BY <2>2 DEF A, B
  <1> QED BY <1>1, <1>2, <1>4 DEF Frames

\* A sequence but for its last element.
LEMMA FrontOf ==
  ASSUME NEW X, NEW s \in Seq(X), s # <<>>
  PROVE  /\ Len(s) \in Nat \ {0} /\ DOMAIN s = 1 .. Len(s) /\ Last(s) = s[Len(s)] /\ Last(s) \in X
         /\ Front(s) \in Seq(X) /\ Len(Front(s)) = Len(s) - 1 /\ DOMAIN Front(s) = 1 .. Len(s) - 1
         /\ \A i \in 1 .. Len(s) - 1 : Front(s)[i] = s[i]
  <1>1. PICK n : n = Len(s) - 1
    OBVIOUS
  <1>2. Len(s) \in Nat \ {0} /\ DOMAIN s = 1 .. Len(s) /\ n \in 0 .. Len(s)
    BY <1>1
  <1>3. /\ SubSeq(s, 1, n) \in Seq(X) /\ Len(SubSeq(s, 1, n)) = n /\ DOMAIN SubSeq(s, 1, n) = 1 .. n
        /\ \A i \in 1 .. n : SubSeq(s, 1, n)[i] = s[i]
    BY <1>2
  <1>4. s[Len(s)] \in X
    BY <1>2
  <1> QED BY <1>1, <1>2, <1>3, <1>4 DEF Front, Last

\* The last element is replaced.
LEMMA LastReplaced ==
  ASSUME NEW X, NEW s \in Seq(X), s # <<>>, NEW f \in X
  PROVE  /\ Append(Front(s), f) \in Seq(X) /\ Len(Append(Front(s), f)) = Len(s)
         /\ Append(Front(s), f)[Len(s)] = f
         /\ \A i \in 1 .. Len(s) - 1 : Append(Front(s), f)[i] = s[i]
  <1>1. PICK u : u = Front(s)
    OBVIOUS
  <1>2. /\ Len(s) \in Nat \ {0} /\ u \in Seq(X) /\ Len(u) = Len(s) - 1 /\ \A i \in 1 .. Len(s) - 1 : u[i] = s[i]
    BY <1>1, FrontOf
  <1>3. /\ Append(u, f) \in Seq(X) /\ Len(Append(u, f)) = Len(u) + 1
        /\ \A i \in 1 .. Len(u) : Append(u, f)[i] = u[i] /\ Append(u, f)[Len(u) + 1] = f
        /\ Append(u, f)[Len(u) + 1] = f
    BY <1>2
  <1> QED BY <1>1, <1>2, <1>3

\* The frame that runs, and those below it.
LEMMA RunningFrame ==
  ASSUME NEW X, stack \in Seq(X), stack # <<>>
  PROVE  /\ Len(stack) \in Nat \ {0} /\ Len(stack) \in DOMAIN stack /\ DOMAIN stack = 1 .. Len(stack)
         /\ Running = stack[Len(stack)] /\ Running \in X
         /\ Front(stack) \in Seq(X) /\ Len(Front(stack)) = Len(stack) - 1
         /\ DOMAIN Front(stack) = 1 .. Len(stack) - 1
         /\ \A i \in 1 .. Len(stack) - 1 : Front(stack)[i] = stack[i]
  <1>1. PICK s : s = stack
    OBVIOUS
  <1>2. s \in Seq(X) /\ s # <<>>
    BY <1>1
  <1> QED BY <1>1, <1>2, FrontOf DEF Running, Last

\* The frame that runs becomes another.
LEMMA FrameBecomes ==
  ASSUME NEW X, stack \in Seq(X), stack # <<>>, NEW f \in X, Becomes(f)
  PROVE  /\ stack' \in Seq(X) /\ Len(stack') = Len(stack) /\ stack' # <<>> /\ DOMAIN stack' = DOMAIN stack
         /\ stack'[Len(stack)] = f
         /\ \A i \in 1 .. Len(stack) - 1 : stack'[i] = stack[i]
         /\ Pending' = (Pending \ {Len(stack)})
                         \cup (IF f.call = "populate" /\ f.node # NoNode THEN {Len(stack)} ELSE {})
  <1>1. PICK s : s = stack
    OBVIOUS
  <1>2. s \in Seq(X) /\ s # <<>> /\ Len(s) \in Nat \ {0} /\ DOMAIN s = 1 .. Len(s)
    BY <1>1
  <1>3. PICK t : t = Append(Front(s), f)
    OBVIOUS
  <1>4. t \in Seq(X) /\ Len(t) = Len(s) /\ t[Len(s)] = f /\ \A i \in 1 .. Len(s) - 1 : t[i] = s[i]
    <2>1. Append(Front(s), f) \in Seq(X) /\ Len(Append(Front(s), f)) = Len(s)
      BY <1>2, LastReplaced
    <2>2. Append(Front(s), f)[Len(s)] = f
      BY ZenonT(30), <1>2, LastReplaced
    <2>3. \A i \in 1 .. Len(s) - 1 : Append(Front(s), f)[i] = s[i]
      BY <1>2, LastReplaced
    <2> QED BY <1>3, <2>1, <2>2, <2>3
  <1>5. DOMAIN t = DOMAIN s /\ t # <<>>
    BY <1>2, <1>4
  <1>6. stack' = t
    BY <1>1, <1>3 DEF Becomes
  <1>7. ASSUME NEW i PROVE i \in Pending' <=> \/ i \in Pending /\ i # Len(s)
                                              \/ i = Len(s) /\ f.call = "populate" /\ f.node # NoNode
    <2>1. CASE i = Len(s)
      BY <1>1, <1>2, <1>4, <1>5, <1>6, <2>1 DEF Pending
    <2>2. CASE i # Len(s) /\ i \in 1 .. Len(s) - 1
      BY <1>1, <1>2, <1>4, <1>5, <1>6, <2>2 DEF Pending
    <2>3. CASE i # Len(s) /\ i \notin 1 .. Len(s) - 1
      <3>1. i \notin 1 .. Len(s)
        BY <1>2, <2>3
      <3> QED BY <1>1, <1>2, <1>5, <1>6, <2>3, <3>1 DEF Pending
    <2> QED BY <2>1, <2>2, <2>3
  <1> QED BY <1>1, <1>2, <1>4, <1>5, <1>6, <1>7

\* The frame that runs returns.
LEMMA FrameReturns ==
  ASSUME NEW X, stack \in Seq(X), stack # <<>>, Returned
  PROVE  /\ stack' \in Seq(X) /\ Len(stack') = Len(stack) - 1 /\ DOMAIN stack' = 1 .. Len(stack) - 1
         /\ \A i \in 1 .. Len(stack) - 1 : stack'[i] = stack[i]
         /\ Pending' = Pending \ {Len(stack)}
  <1>1. /\ Len(stack) \in Nat \ {0} /\ DOMAIN stack = 1 .. Len(stack)
        /\ stack' \in Seq(X) /\ Len(stack') = Len(stack) - 1 /\ DOMAIN stack' = 1 .. Len(stack) - 1
        /\ \A i \in 1 .. Len(stack) - 1 : stack'[i] = stack[i]
    BY RunningFrame DEF Returned
  <1>2. Pending' = Pending \ {Len(stack)}
    <2>1. \A i : i \in 1 .. Len(stack) - 1 <=> i \in 1 .. Len(stack) /\ i # Len(stack)
      BY <1>1
    <2> QED BY <1>1, <2>1 DEF Pending
  <1> QED BY <1>1, <1>2

\* Frames are put on the stack.
LEMMA FramesPushed ==
  ASSUME NEW X, stack \in Seq(X), NEW new \in Seq(X), stack' = stack \o new,
         \A i \in DOMAIN new : new[i].node = NoNode
  PROVE  /\ stack' \in Seq(X) /\ Len(stack') = Len(stack) + Len(new)
         /\ \A i \in 1 .. Len(stack) : stack'[i] = stack[i]
         /\ \A i \in 1 .. Len(new) : stack'[Len(stack) + i] = new[i]
         /\ Pending' = Pending
  <1>1. /\ stack \o new \in Seq(X) /\ Len(stack \o new) = Len(stack) + Len(new)
        /\ \A i \in 1 .. Len(stack) : (stack \o new)[i] = stack[i]
        /\ \A i \in 1 .. Len(new) : (stack \o new)[Len(stack) + i] = new[i]
    BY ItemsOfBoth
  <1>2. /\ stack' \in Seq(X) /\ Len(stack') = Len(stack) + Len(new)
        /\ \A i \in 1 .. Len(stack) : stack'[i] = stack[i]
        /\ \A i \in 1 .. Len(new) : stack'[Len(stack) + i] = new[i]
    BY <1>1
  <1>3. /\ DOMAIN stack' = 1 .. Len(stack) + Len(new) /\ DOMAIN stack = 1 .. Len(stack) /\ DOMAIN new = 1 .. Len(new)
        /\ Len(stack) \in Nat /\ Len(new) \in Nat
    BY <1>2
  <1>4. ASSUME NEW i PROVE i \in Pending' <=> i \in Pending
    <2>1. CASE i \in 1 .. Len(stack)
      BY <1>2, <1>3, <2>1 DEF Pending
    <2>2. CASE i \in Len(stack) + 1 .. Len(stack) + Len(new)
      <3>1. i - Len(stack) \in 1 .. Len(new) /\ i = Len(stack) + (i - Len(stack))
        BY <1>3, <2>2
      <3>2. stack'[i].node = NoNode /\ i \notin DOMAIN stack
        BY <1>2, <1>3, <2>2, <3>1
      <3> QED BY <3>2 DEF Pending
    <2>3. CASE i \notin 1 .. Len(stack) + Len(new)
      <3>1. i \notin 1 .. Len(stack)
        BY <1>3, <2>3
      <3> QED BY <1>3, <2>3, <3>1 DEF Pending
    <2> QED BY <1>3, <2>1, <2>2, <2>3
  <1> QED BY <1>2, <1>4

-----------------------------------------------------------------------------
(* The tree.  A node comes after its parent, among whose children it is once; *)
(* the path of a child is that of its parent and its place there.            *)

Size == Len(nodes)

\* The tree is one, and each node is once in the list of its parent.
Tree ==
  /\ \E X : nodes \in Seq(X)
  /\ kids \in Seq(Seq(Nat)) /\ Len(kids) = Size + 1
  /\ \A n \in 1 .. Size :
       /\ DOMAIN nodes[n] = {"path", "parent", "row"}
       /\ nodes[n].path \in Seq(Nat) /\ nodes[n].parent \in 0 .. n - 1
       /\ \E i \in DOMAIN Kids(nodes[n].parent) : Kids(nodes[n].parent)[i] = n
  /\ \A n \in 0 .. Size : \A i \in DOMAIN Kids(n) :
       /\ Kids(n)[i] \in 1 .. Size
       /\ nodes[Kids(n)[i]].parent = n /\ nodes[Kids(n)[i]].path = Append(Path(n), i - 1)

\* Where a position in the list of owner leads.
Led(owner, position) ==
  IF owner >= 0 /\ position < Len(Kids(owner)) THEN Kids(owner)[position + 1] ELSE -1

\* What the tree is made of has its type.
LEMMA TreeTypes ==
  ASSUME Tree
  PROVE  /\ Size \in Nat /\ TreeNodes = 1 .. Size
         /\ \A n \in 0 .. Size : /\ Kids(n) \in Seq(Nat) /\ Path(n) \in Seq(Nat)
                                 /\ DOMAIN Kids(n) = 1 .. Len(Kids(n)) /\ Len(Kids(n)) \in Nat
                                 /\ \A i \in 1 .. Len(Kids(n)) : Kids(n)[i] \in 1 .. Size
         /\ Path(NoNode) = <<>> /\ \A n \in 1 .. Size : Path(n) = nodes[n].path
  <1>1. Size \in Nat /\ TreeNodes = 1 .. Size
    BY DEF Tree, Size, TreeNodes
  <1>2. \A n \in 0 .. Size : Kids(n) \in Seq(Nat)
    <2> SUFFICES ASSUME NEW n \in 0 .. Size PROVE Kids(n) \in Seq(Nat)
      OBVIOUS
    <2>1. n + 1 \in DOMAIN kids
      BY <1>1 DEF Tree
    <2> QED BY <2>1 DEF Tree, Kids
  <1>3. \A n \in 1 .. Size : n # NoNode /\ Path(n) = nodes[n].path /\ nodes[n].path \in Seq(Nat)
    BY <1>1 DEF Tree, Path, NoNode
  <1>4. Path(NoNode) = <<>> /\ \A n \in 0 .. Size : n = NoNode \/ n \in 1 .. Size
    BY <1>1 DEF Path, NoNode
  <1>5. \A n \in 0 .. Size : Path(n) \in Seq(Nat)
    <2>1. <<>> \in Seq(Nat)
      OBVIOUS
    <2> QED BY <1>3, <1>4, <2>1
  <1>6. \A n \in 0 .. Size : /\ DOMAIN Kids(n) = 1 .. Len(Kids(n)) /\ Len(Kids(n)) \in Nat
                              /\ \A i \in 1 .. Len(Kids(n)) : Kids(n)[i] \in 1 .. Size
    BY <1>2 DEF Tree
  <1> QED BY <1>1, <1>2, <1>3, <1>4, <1>5, <1>6

\* The lists that a path leads through, one after the other.
LEMMA Owners ==
  ASSUME Tree, NEW p \in Seq(Nat)
  PROVE  \E f \in [0 .. Len(p) -> -1 .. Size] :
           /\ f[0] = NoNode /\ \A i \in 1 .. Len(p) : f[i] = Led(f[i - 1], p[i])
           /\ ListAt(p) = f[Len(p)]
  <1> DEFINE V == -1 .. Size
             n == Len(p)
             next == [i \in 1 .. n |-> [o \in V |-> Led(o, p[i])]]
             Def(f) == f = [i \in 0 .. n |->
                         IF i = 0 THEN NoNode
                         ELSE LET list == Kids(f[i - 1])
                              IN IF f[i - 1] >= 0 /\ p[i] < Len(list) THEN list[p[i] + 1] ELSE -1]
             owner == CHOOSE g : Def(g)
  <1>1. n \in Nat /\ NoNode \in V /\ \A i \in 1 .. n : p[i] \in Nat
    BY TreeTypes DEF NoNode
  <1>2. next \in [1 .. n -> [V -> V]]
    <2> SUFFICES ASSUME NEW i \in 1 .. n, NEW o \in V PROVE Led(o, p[i]) \in V
      OBVIOUS
    <2>1. CASE o >= 0 /\ p[i] < Len(Kids(o))
      <3>1. o \in 0 .. Size
        BY <2>1, TreeTypes
      <3>2. p[i] + 1 \in 1 .. Len(Kids(o))
        <4>1. PICK x, l : x = p[i] /\ l = Len(Kids(o))
          OBVIOUS
        <4>2. l \in Nat
          BY <3>1, <4>1, TreeTypes
        <4>3. x \in Nat
          BY <1>1, <4>1
        <4>4. x < l
          BY <2>1, <4>1
        <4>5. x + 1 \in 1 .. l
          BY <4>2, <4>3, <4>4
        <4> QED BY <4>1, <4>5, Zenon
      <3>3. Kids(o)[p[i] + 1] \in 1 .. Size
        <4>1. PICK j : j = p[i] + 1
          OBVIOUS
        <4>2. Kids(o)[j] \in 1 .. Size
          BY <3>1, <3>2, <4>1, TreeTypes
        <4> QED BY <4>1, <4>2
      <3> QED BY <2>1, <3>3, TreeTypes DEF Led
    <2>2. CASE ~(o >= 0 /\ p[i] < Len(Kids(o)))
      BY <2>2, TreeTypes DEF Led
    <2> QED BY <2>1, <2>2
  <1>3. PICK g \in [0 .. n -> V] : Unfolds(g, n, NoNode, next)
    <2> HIDE DEF n, V, next
    <2> QED BY <1>1, <1>2, Unfold
  <1>4. g[0] = NoNode /\ \A i \in 1 .. n : g[i] = Led(g[i - 1], p[i])
    <2>1. \A i \in 1 .. n : i - 1 \in 0 .. n
      BY <1>1
    <2>2. \A i \in 1 .. n : g[i - 1] \in V
      BY <1>3, <2>1
    <2> QED BY <1>3, <2>2 DEF Unfolds
  <1>5. Def(g)
    <2>1. \A i \in 0 .. n : i # 0 => i \in 1 .. n
      BY <1>1
    <2>2. \A i \in 0 .. n : g[i] = IF i = 0 THEN NoNode
                                  ELSE LET list == Kids(g[i - 1])
                                       IN IF g[i - 1] >= 0 /\ p[i] < Len(list) THEN list[p[i] + 1] ELSE -1
      BY <1>4, <2>1 DEF Led
    <2> HIDE DEF V
    <2> QED BY <1>3, <2>2
  <1>6. Def(owner)
    <2> HIDE DEF Def
    <2> QED BY <1>5
  <1>7. ListAt(p) = owner[n]
    BY DEF ListAt
  <1> HIDE DEF owner
  <1>8. owner[0] = NoNode /\ \A i \in 1 .. n : owner[i] = Led(owner[i - 1], p[i])
    <2>1. \A i \in 1 .. n : i # 0 /\ i \in 0 .. n
      OBVIOUS
    <2>2. 0 \in 0 .. n
      BY <1>1
    <2> QED BY <1>6, <2>1, <2>2 DEF Led
  <1> DEFINE Same == {i \in 0 .. n : owner[i] = g[i]}
  <1>9. 0 .. n \subseteq Same
    <2>1. 0 \in Same
      BY <1>1, <1>4, <1>8
    <2>2. ASSUME NEW i \in 0 .. n - 1, i \in Same PROVE i + 1 \in Same
      <3>1. i + 1 \in 1 .. n /\ (i + 1) - 1 = i /\ i + 1 \in 0 .. n
        BY <1>1
      <3>2. owner[i + 1] = Led(owner[i], p[i + 1]) /\ g[i + 1] = Led(g[i], p[i + 1])
        BY <1>4, <1>8, <3>1
      <3> QED BY <2>2, <3>1, <3>2
    <2> HIDE DEF Same
    <2> QED BY <1>1, <2>1, <2>2, UpTo
  <1>10. owner[n] = g[n]
    BY <1>1, <1>9
  <1> QED BY <1>3, <1>4, <1>7, <1>10

\* A path of one more position leads one list further.
LEMMA ListAtMore ==
  ASSUME Tree, NEW p \in Seq(Nat), NEW x \in Nat
  PROVE  ListAt(<<>>) = NoNode /\ ListAt(Append(p, x)) = Led(ListAt(p), x)
  <1>1. ListAt(<<>>) = NoNode
    <2>1. <<>> \in Seq(Nat) /\ Len(<<>>) = 0
      OBVIOUS
    <2> QED BY <2>1, Owners
  <1>2. PICK q, n : q = Append(p, x) /\ n = Len(p)
    OBVIOUS
  <1>3. /\ n \in Nat /\ q \in Seq(Nat) /\ Len(q) = n + 1 /\ q[n + 1] = x /\ \A i \in 1 .. n : q[i] = p[i]
    BY <1>2
  <1>4. PICK f : /\ f[0] = NoNode /\ \A i \in 1 .. n : f[i] = Led(f[i - 1], p[i])
                 /\ ListAt(p) = f[n]
    BY <1>2, Owners
  <1>5. PICK g : /\ g[0] = NoNode /\ \A i \in 1 .. n + 1 : g[i] = Led(g[i - 1], q[i])
                 /\ ListAt(q) = g[n + 1]
    BY <1>3, Owners
  <1> DEFINE Same == {i \in 0 .. n : f[i] = g[i]}
  <1>6. 0 .. n \subseteq Same
    <2>1. 0 \in Same
      BY <1>3, <1>4, <1>5
    <2>2. ASSUME NEW i \in 0 .. n - 1, i \in Same PROVE i + 1 \in Same
      <3>1. i + 1 \in 1 .. n /\ (i + 1) - 1 = i /\ i + 1 \in 0 .. n /\ i + 1 \in 1 .. n + 1
        BY <1>3
      <3>2. f[i + 1] = Led(f[i], p[i + 1]) /\ g[i + 1] = Led(g[i], q[i + 1]) /\ p[i + 1] = q[i + 1]
        BY <1>3, <1>4, <1>5, <3>1
      <3> QED BY <2>2, <3>1, <3>2
    <2> HIDE DEF Same
    <2> QED BY <1>3, <2>1, <2>2, UpTo
  <1>7. f[n] = g[n] /\ n + 1 \in 1 .. n + 1 /\ (n + 1) - 1 = n
    BY <1>3, <1>6
  <1>8. g[n + 1] = Led(g[n], q[n + 1])
    BY <1>5, <1>7
  <1> QED BY <1>1, <1>2, <1>3, <1>4, <1>5, <1>7, <1>8

\* Every node is found where its path leads.
LEMMA EachFound ==
  ASSUME Tree
  PROVE  \A n \in 0 .. Size : ListAt(Path(n)) = n
  <1>0. Size \in Nat
    BY TreeTypes
  <1> DEFINE S == {k \in 0 .. Size : \A n \in 0 .. k : ListAt(Path(n)) = n}
  <1>1. 0 \in S
    <2>1. \A n \in 0 .. 0 : n = NoNode
      BY DEF NoNode
    <2>2. ListAt(Path(NoNode)) = NoNode
      <3>1. <<>> \in Seq(Nat) /\ 0 \in Nat
        OBVIOUS
      <3> QED BY <3>1, TreeTypes, ListAtMore
    <2> QED BY <1>0, <2>1, <2>2
  <1>2. ASSUME NEW k \in 0 .. Size - 1, k \in S PROVE k + 1 \in S
    <2>1. PICK n, p : n = k + 1 /\ p = nodes[n].parent
      OBVIOUS
    <2>2. n \in 1 .. Size /\ n \in 0 .. Size /\ k \in Nat /\ n - 1 = k
      BY <1>0, <2>1
    <2>3. p \in 0 .. n - 1
      BY <2>1, <2>2 DEF Tree
    <2>4. PICK i \in DOMAIN Kids(p) : Kids(p)[i] = n
      BY <2>1, <2>2 DEF Tree
    <2>5. p \in 0 .. Size /\ p \in 0 .. k
      BY <1>0, <2>2, <2>3
    <2>6. nodes[n].path = Append(Path(p), i - 1)
      BY <2>4, <2>5 DEF Tree
    <2>7. Path(n) = Append(Path(p), i - 1) /\ Path(p) \in Seq(Nat)
      BY <2>2, <2>5, <2>6, TreeTypes
    <2>8. i \in 1 .. Len(Kids(p)) /\ i - 1 \in Nat /\ (i - 1) + 1 = i /\ i - 1 < Len(Kids(p))
      BY SMTT(20), <2>4, <2>5, TreeTypes
    <2>9. ListAt(Path(p)) = p
      BY <1>2, <2>5
    <2>10. ListAt(Path(n)) = Led(p, i - 1)
      BY <2>7, <2>8, <2>9, ListAtMore
    <2>11. ListAt(Path(n)) = n
      BY <2>4, <2>5, <2>8, <2>10 DEF Led
    <2>12. \A m \in 0 .. n : m = n \/ m \in 0 .. k
      BY <2>1, <2>2
    <2> QED BY <1>2, <2>1, <2>2, <2>11, <2>12
  <1>3. 0 .. Size \subseteq S
    <2> HIDE DEF S
    <2> QED BY <1>0, <1>1, <1>2, UpTo
  <1>4. Size \in S
    BY <1>0, <1>3
  <1> QED BY <1>4

\* A sequence in which one element is replaced, and which has one more.
LEMMA ReplacedAndMore ==
  ASSUME NEW V, NEW s \in Seq(V), NEW o \in 1 .. Len(s), NEW l \in V, NEW e \in V,
         NEW t, t = Append([s EXCEPT ![o] = l], e)
  PROVE  /\ t \in Seq(V) /\ Len(t) = Len(s) + 1 /\ t[o] = l /\ t[Len(s) + 1] = e
         /\ \A n \in 1 .. Len(s) : n # o => t[n] = s[n]
  <1>1. PICK u : u = [s EXCEPT ![o] = l]
    OBVIOUS
  <1>2. /\ u \in Seq(V) /\ Len(u) = Len(s) /\ u[o] = l /\ Len(s) \in Nat
        /\ \A n \in 1 .. Len(s) : n # o => u[n] = s[n]
    BY <1>1
  <1>3. t = Append(u, e)
    BY <1>1
  <1>4. t \in Seq(V) /\ Len(t) = Len(u) + 1
    BY <1>2, <1>3
  <1>5. t[Len(u) + 1] = e /\ \A n \in 1 .. Len(u) : t[n] = u[n]
    BY <1>2, <1>3
  <1> QED BY <1>2, <1>4, <1>5

\* The lists of children when that of owner has become another, and node m has come.
LEMMA ListsBecome ==
  ASSUME Tree, NEW owner \in 0 .. Size, NEW list \in Seq(Nat), NEW m, m = Size + 1,
         kids' = Append([kids EXCEPT ![owner + 1] = list], <<>>)
  PROVE  /\ kids' \in Seq(Seq(Nat)) /\ Len(kids') = m + 1
         /\ Kids(owner)' = list /\ Kids(m)' = <<>>
         /\ \A n \in 0 .. Size : n # owner => Kids(n)' = Kids(n)
  <1>1. PICK V, N, o, e, t : /\ V = Seq(Nat) /\ N = Size /\ o = owner + 1 /\ e = <<>>
                             /\ t = Append([kids EXCEPT ![owner + 1] = list], <<>>)
    OBVIOUS
  <1>2. /\ N \in Nat /\ Len(kids) = m /\ m = N + 1 /\ kids \in Seq(V) /\ list \in V /\ owner \in 0 .. N
    BY <1>1, TreeTypes DEF Tree
  <1>3. o \in 1 .. Len(kids) /\ e \in V
    BY <1>1, <1>2
  <1>4. t = Append([kids EXCEPT ![o] = list], e)
    BY <1>1
  <1>5. PICK s : s = kids
    OBVIOUS
  <1>6. t \in Seq(V) /\ Len(t) = Len(s) + 1 /\ t[o] = list /\ t[Len(s) + 1] = e
    BY <1>2, <1>3, <1>4, <1>5, ReplacedAndMore
  <1>7. \A n \in 1 .. Len(s) : n # o => t[n] = s[n]
    BY <1>2, <1>3, <1>4, <1>5, ReplacedAndMore
  <1>8. \A n \in 0 .. N : n + 1 \in 1 .. Len(s) /\ (n # owner => n + 1 # o)
    BY <1>1, <1>2, <1>5
  <1>9. kids' = t
    BY <1>1
  <1>10. \A n \in 0 .. N : n # owner => t[n + 1] = s[n + 1]
    BY <1>7, <1>8
  <1>11. \A n \in 0 .. Size : n # owner => Kids(n)' = Kids(n)
    BY <1>1, <1>5, <1>9, <1>10 DEF Kids
  <1>12. kids' \in Seq(Seq(Nat)) /\ Len(kids') = m + 1 /\ Kids(owner)' = list /\ Kids(m)' = <<>>
    BY <1>1, <1>2, <1>5, <1>6, <1>9 DEF Kids
  <1> QED BY <1>11, <1>12

\* A node that is appended leaves the tree a tree, and every path as it is.
LEMMA AppendedTree ==
  ASSUME Tree, NEW parent \in 0 .. Size, NEW row, Appended(parent, row), NEW m, m = Size + 1
  PROVE  /\ Tree' /\ Size' = m
         /\ \A n \in 1 .. Size : nodes'[n] = nodes[n]
         /\ nodes'[m] = [path |-> Append(Path(parent), Len(Kids(parent))), parent |-> parent, row |-> row]
         /\ Kids(parent)' = Append(Kids(parent), m) /\ Kids(m)' = <<>>
         /\ \A n \in 0 .. Size : n # parent => Kids(n)' = Kids(n)
         /\ \A n \in 0 .. Size : Path(n)' = Path(n)
         /\ Path(m)' = Append(Path(parent), Len(Kids(parent)))
  <1>1. PICK N, l, path : N = Size /\ l = Kids(parent) /\ path = Append(Path(parent), Len(Kids(parent)))
    OBVIOUS
  <1>2. /\ N \in Nat /\ m = N + 1 /\ parent \in 0 .. N /\ l \in Seq(Nat) /\ Len(l) \in Nat /\ DOMAIN l = 1 .. Len(l)
        /\ path \in Seq(Nat) /\ m \in Nat
    <2>1. N \in Nat /\ m = N + 1 /\ parent \in 0 .. N /\ l \in Seq(Nat) /\ Len(l) \in Nat
      BY <1>1, TreeTypes
    <2>2. PICK q : q = Path(parent) /\ q \in Seq(Nat)
      BY TreeTypes
    <2>3. path \in Seq(Nat)
      <3>1. path = Append(q, Len(l))
        BY <1>1, <2>2
      <3> QED BY <2>1, <2>2, <3>1
    <2> QED BY <2>1, <2>3
  <1>3. ListAt(Path(parent)) = parent
    BY EachFound
  <1>4. /\ nodes' = Append(nodes, [path |-> path, parent |-> parent, row |-> row])
        /\ kids' = Append([kids EXCEPT ![parent + 1] = Append(@, m)], <<>>)
    BY <1>1, <1>3 DEF Appended, Size
  <1>5. PICK new : new = [path |-> path, parent |-> parent, row |-> row]
    OBVIOUS
  <1>6. /\ \E X : nodes' \in Seq(X)
        /\ Len(nodes') = N + 1 /\ nodes'[m] = new /\ \A n \in 1 .. N : nodes'[n] = nodes[n]
    <2>1. PICK X : nodes \in Seq(X)
      BY DEF Tree
    <2>2. PICK Y : Y = X \cup {new}
      OBVIOUS
    <2>3. nodes \in Seq(Y) /\ new \in Y
      BY <2>1, <2>2
    <2>4. /\ Append(nodes, new) \in Seq(Y) /\ Len(Append(nodes, new)) = Len(nodes) + 1
          /\ \A n \in 1 .. Len(nodes) : Append(nodes, new)[n] = nodes[n]
          /\ Append(nodes, new)[Len(nodes) + 1] = new
      BY <2>3, ItemsOfMore
    <2> QED BY <1>1, <1>4, <1>5, <2>4 DEF Size
  <1>7. PICK list : list = Append(l, m)
    OBVIOUS
  <1>8. /\ list \in Seq(Nat) /\ Len(list) = Len(l) + 1 /\ list[Len(l) + 1] = m /\ \A i \in 1 .. Len(l) : list[i] = l[i]
        /\ DOMAIN list = 1 .. Len(l) + 1
    BY <1>2, <1>7
  <1>9. kids' = Append([kids EXCEPT ![parent + 1] = list], <<>>)
    BY <1>1, <1>4, <1>7 DEF Kids
  <1>10. /\ kids' \in Seq(Seq(Nat)) /\ Len(kids') = m + 1
         /\ Kids(parent)' = list /\ Kids(m)' = <<>>
         /\ \A n \in 0 .. N : n # parent => Kids(n)' = Kids(n)
    <2>1. /\ kids' \in Seq(Seq(Nat)) /\ Len(kids') = m + 1
          /\ Kids(parent)' = list /\ Kids(m)' = <<>>
          /\ \A n \in 0 .. Size : n # parent => Kids(n)' = Kids(n)
      BY <1>8, <1>9, ListsBecome
    <2> QED BY <1>1, <2>1
  <1>11. Size' = m
    BY <1>2, <1>6 DEF Size
  <1>12. \A n \in 1 .. N : n # 0 /\ n \in 0 .. N /\ n # m /\ n \in 1 .. m
    BY <1>2
  <1>13. \A n \in 0 .. N : Path(n)' = Path(n)
    <2> SUFFICES ASSUME NEW n \in 0 .. N PROVE Path(n)' = Path(n)
      OBVIOUS
    <2>1. n = 0 \/ n \in 1 .. N
      BY <1>2
    <2> QED BY <1>6, <2>1 DEF Path, NoNode
  <1>14. Path(m)' = path /\ new.path = path /\ new.parent = parent /\ DOMAIN new = {"path", "parent", "row"}
    <2>1. m # 0
      BY <1>2
    <2>2. new.path = path /\ new.parent = parent /\ DOMAIN new = {"path", "parent", "row"}
      BY <1>5
    <2> QED BY <1>6, <2>1, <2>2 DEF Path, NoNode
  <1>15. ASSUME NEW n \in 1 .. m
         PROVE  /\ DOMAIN nodes'[n] = {"path", "parent", "row"}
                /\ nodes'[n].path \in Seq(Nat)
                /\ \E p \in 0 .. n - 1 : nodes'[n].parent = p /\ \E i \in DOMAIN Kids(p)' : Kids(p)'[i] = n
    <2>1. CASE n = m
      <3>1. Len(l) + 1 \in DOMAIN list /\ parent \in 0 .. m - 1
        BY <1>2, <1>8
      <3>2. \E i \in DOMAIN Kids(parent)' : Kids(parent)'[i] = n
        BY <1>8, <1>10, <2>1, <3>1
      <3> QED BY <1>2, <1>6, <1>14, <2>1, <3>1, <3>2
    <2>2. CASE n \in 1 .. N
      <3>1. PICK p : p = nodes[n].parent
        OBVIOUS
      <3>2. /\ DOMAIN nodes[n] = {"path", "parent", "row"} /\ nodes[n].path \in Seq(Nat) /\ p \in 0 .. n - 1
            /\ \E i \in DOMAIN Kids(p) : Kids(p)[i] = n
        BY <1>1, <2>2, <3>1 DEF Tree
      <3>3. p \in 0 .. N
        BY <1>2, <2>2, <3>2
      <3>4. \E i \in DOMAIN Kids(p)' : Kids(p)'[i] = n
        <4>1. CASE p = parent
          BY <1>1, <1>2, <1>8, <1>10, <3>2, <4>1
        <4>2. CASE p # parent
          BY <1>10, <3>2, <3>3, <4>2
        <4> QED BY <4>1, <4>2
      <3> QED BY <1>6, <2>2, <3>1, <3>2, <3>4
    <2> QED BY <1>2, <2>1, <2>2
  <1>16. ASSUME NEW n \in 0 .. m, NEW i \in DOMAIN Kids(n)'
         PROVE  /\ Kids(n)'[i] \in 1 .. m
                /\ nodes'[Kids(n)'[i]].parent = n /\ nodes'[Kids(n)'[i]].path = Append(Path(n)', i - 1)
    <2>1. CASE n = m
      BY <1>10, <2>1
    <2>2. CASE n \in 0 .. N /\ n # parent
      <3>1. PICK k : k = Kids(n)[i]
        OBVIOUS
      <3>2. Kids(n)'[i] = k /\ k \in 1 .. N /\ nodes[k].parent = n /\ nodes[k].path = Append(Path(n), i - 1)
        BY <1>1, <1>10, <2>2, <3>1 DEF Tree
      <3> QED BY <1>6, <1>12, <1>13, <2>2, <3>2
    <2>3. CASE n = parent /\ i = Len(l) + 1
      <3>1. Kids(n)'[i] = m /\ i - 1 = Len(l)
        BY <1>2, <1>8, <1>10, <2>3
      <3>2. nodes'[m].path = Append(Path(n)', i - 1)
        BY <1>1, <1>2, <1>6, <1>13, <1>14, <2>3, <3>1
      <3>3. Kids(n)'[i] \in 1 .. m
        BY <1>2, <3>1
      <3>4. nodes'[m].parent = n
        BY <1>6, <1>14, <2>3
      <3> QED BY <3>1, <3>2, <3>3, <3>4, Zenon
    <2>4. CASE n = parent /\ i \in 1 .. Len(l)
      <3>1. PICK k : k = l[i]
        OBVIOUS
      <3>2. Kids(n)'[i] = k /\ k \in 1 .. N /\ nodes[k].parent = n /\ nodes[k].path = Append(Path(n), i - 1)
        BY <1>1, <1>2, <1>8, <1>10, <2>4, <3>1 DEF Tree
      <3> QED BY <1>2, <1>6, <1>12, <1>13, <2>4, <3>2
    <2>5. n = m \/ n \in 0 .. N
      BY <1>2
    <2>6. n = parent => i = Len(l) + 1 \/ i \in 1 .. Len(l)
      BY <1>2, <1>8, <1>10
    <2> QED BY <2>1, <2>2, <2>3, <2>4, <2>5, <2>6
  <1>17. Tree'
    <2>1. Len(kids') = Size' + 1
      BY <1>2, <1>10, <1>11
    <2>2. \A n \in 1 .. m : /\ DOMAIN nodes'[n] = {"path", "parent", "row"}
                            /\ nodes'[n].path \in Seq(Nat) /\ nodes'[n].parent \in 0 .. n - 1
                            /\ \E i \in DOMAIN kids'[nodes'[n].parent + 1] : kids'[nodes'[n].parent + 1][i] = n
      BY <1>15 DEF Kids
    <2> QED BY <1>6, <1>10, <1>11, <1>16, <2>1, <2>2 DEF Tree, Kids
  <1> QED BY <1>1, <1>2, <1>5, <1>6, <1>7, <1>10, <1>11, <1>13, <1>14, <1>17

-----------------------------------------------------------------------------
(* A node is inserted *)

\* What visit() reaches: the nodes it starts from, and those whose parent it reaches.
LEMMA ReachedBelow ==
  ASSUME Tree, NEW S
  PROVE  /\ Below(S) \subseteq 1 .. Size
         /\ \A n \in 1 .. Size :
              n \in Below(S) <=> n \in S \/ (nodes[n].parent # NoNode /\ nodes[n].parent \in Below(S))
  <1> DEFINE Def(f) == f = [n \in TreeNodes |-> n \in S \/ (nodes[n].parent # NoNode /\ f[nodes[n].parent])]
             below == CHOOSE f : Def(f)
             From(n, A) == n \in S \/ (nodes[n].parent # NoNode /\ nodes[n].parent \in A)
             Closed(A) == \A n \in TreeNodes : From(n, A) => n \in A
             B == {n \in TreeNodes : \A A \in SUBSET TreeNodes : Closed(A) => n \in A}
             g == [n \in TreeNodes |-> n \in B]
  <1>1. TreeNodes = 1 .. Size /\ Size \in Nat
    BY TreeTypes
  <1>2. ASSUME NEW n \in TreeNodes PROVE nodes[n].parent # NoNode => nodes[n].parent \in TreeNodes
    <2>1. nodes[n].parent \in 0 .. n - 1 /\ n \in 1 .. Size
      BY <1>1 DEF Tree
    <2> QED BY <1>1, <2>1 DEF NoNode
  <1>3. Closed(B)
    OBVIOUS
  <1>4. ASSUME NEW n \in B PROVE From(n, B)
    <2> SUFFICES ASSUME ~From(n, B) PROVE FALSE
      OBVIOUS
    <2>1. B \ {n} \in SUBSET TreeNodes
      OBVIOUS
    <2>2. Closed(B \ {n})
      <3> SUFFICES ASSUME NEW m \in TreeNodes, From(m, B \ {n}) PROVE m \in B \ {n}
        OBVIOUS
      <3>1. From(m, B)
        OBVIOUS
      <3>2. m # n
        BY <3>1
      <3> HIDE DEF B
      <3> QED BY <1>3, <3>1, <3>2
    <2> QED BY <2>1, <2>2
  <1>5. \A n \in TreeNodes : n \in B <=> From(n, B)
    <2> HIDE DEF B
    <2> QED BY <1>3, <1>4
  <1>6. \A n \in TreeNodes : nodes[n].parent # NoNode => g[nodes[n].parent] = (nodes[n].parent \in B)
    <2> HIDE DEF B
    <2> QED BY <1>2
  <1>7. Def(g)
    <2> HIDE DEF B
    <2>1. \A n \in TreeNodes : (n \in B) = (n \in S \/ (nodes[n].parent # NoNode /\ g[nodes[n].parent]))
      <3> SUFFICES ASSUME NEW n \in TreeNodes
                   PROVE  (n \in B) = (n \in S \/ (nodes[n].parent # NoNode /\ g[nodes[n].parent]))
        OBVIOUS
      <3>1. (n \in B) <=> n \in S \/ (nodes[n].parent # NoNode /\ nodes[n].parent \in B)
        BY <1>5
      <3>2. nodes[n].parent # NoNode => g[nodes[n].parent] = (nodes[n].parent \in B)
        BY <1>6
      <3> HIDE DEF g
      <3>3. CASE nodes[n].parent # NoNode
        <4>1. g[nodes[n].parent] = (nodes[n].parent \in B)
          BY <3>2, <3>3
        <4>2. (n \in B) = (n \in S \/ nodes[n].parent \in B)
          BY <3>1, <3>3
        <4> QED BY <3>3, <4>1, <4>2
      <3>4. CASE nodes[n].parent = NoNode
        BY <3>1, <3>4
      <3> QED BY <3>3, <3>4
    <2>2. [n \in TreeNodes |-> n \in B]
            = [n \in TreeNodes |-> n \in S \/ (nodes[n].parent # NoNode /\ g[nodes[n].parent])]
      <3> HIDE DEF g
      <3> QED BY <2>1
    <2> QED BY <2>2
  <1>8. Def(below)
    <2> HIDE DEF Def, g
    <2> QED BY <1>7
  <1>9. Below(S) = {n \in TreeNodes : below[n]}
    BY DEF Below
  <1> HIDE DEF below
  <1>10. \A n \in TreeNodes : below[n] = (n \in S \/ (nodes[n].parent # NoNode /\ below[nodes[n].parent]))
    BY <1>8
  <1> QED BY <1>1, <1>2, <1>9, <1>10

\* A sequence with one more element.
LEMMA OneMore ==
  ASSUME NEW s \in Seq(Nat), NEW x \in Nat
  PROVE  /\ Append(s, x) \in Seq(Nat) /\ Len(Append(s, x)) = Len(s) + 1 /\ Append(s, x)[Len(s) + 1] = x
         /\ \A k \in 1 .. Len(s) : Append(s, x)[k] = s[k]
  OBVIOUS

\* A node is one child of one parent, and a step further down.
LEMMA UnderParent ==
  ASSUME Tree, NEW n \in 1 .. Size
  PROVE  \E q \in 0 .. n - 1 : \E i \in 1 .. Len(Kids(q)) :
           /\ nodes[n].parent = q /\ Kids(q)[i] = n
           /\ Path(n) = Append(Path(q), i - 1)
           /\ Len(Path(n)) = Len(Path(q)) + 1 /\ Path(n)[Len(Path(q)) + 1] = i - 1
           /\ \A k \in 1 .. Len(Path(q)) : Path(n)[k] = Path(q)[k]
           /\ \A m \in 0 .. Size : \A j \in 1 .. Len(Kids(m)) : Kids(m)[j] = n => m = q /\ j = i
  <1>0. Size \in Nat /\ \A m \in 0 .. n - 1 : m \in 0 .. Size
    BY TreeTypes
  <1>1. PICK q \in 0 .. n - 1 : nodes[n].parent = q
    BY DEF Tree
  <1>2. PICK i \in 1 .. Len(Kids(q)) : Kids(q)[i] = n
    <2>1. DOMAIN Kids(q) = 1 .. Len(Kids(q))
      BY <1>0, <1>1, TreeTypes
    <2> QED BY <1>1, <2>1 DEF Tree
  <1>3. \A m \in 0 .. Size : \A j \in 1 .. Len(Kids(m)) :
          Kids(m)[j] = n => nodes[n].parent = m /\ Path(n) = Append(Path(m), j - 1)
    <2>1. \A m \in 0 .. Size : DOMAIN Kids(m) = 1 .. Len(Kids(m))
      BY TreeTypes
    <2>2. Path(n) = nodes[n].path
      BY TreeTypes
    <2>3. \A m \in 0 .. Size : \A j \in DOMAIN Kids(m) :
            nodes[Kids(m)[j]].parent = m /\ nodes[Kids(m)[j]].path = Append(Path(m), j - 1)
      BY DEF Tree
    <2>4. ASSUME NEW m \in 0 .. Size, NEW j \in 1 .. Len(Kids(m)), Kids(m)[j] = n
          PROVE  nodes[n].parent = m /\ nodes[n].path = Append(Path(m), j - 1)
      <3>1. j \in DOMAIN Kids(m)
        BY <2>1
      <3>2. nodes[Kids(m)[j]].parent = m /\ nodes[Kids(m)[j]].path = Append(Path(m), j - 1)
        BY <2>3, <3>1
      <3> QED BY <2>4, <3>2
    <2> QED BY <2>2, <2>4
  <1>4. Path(n) = Append(Path(q), i - 1)
    BY <1>0, <1>1, <1>2, <1>3
  <1>5. Path(q) \in Seq(Nat) /\ Len(Kids(q)) \in Nat
    BY <1>0, <1>1, TreeTypes
  <1>6. i - 1 \in Nat
    BY <1>2, <1>5
  <1>7. /\ Len(Path(n)) = Len(Path(q)) + 1 /\ Path(n)[Len(Path(q)) + 1] = i - 1
        /\ \A k \in 1 .. Len(Path(q)) : Path(n)[k] = Path(q)[k]
    BY <1>4, <1>5, <1>6, OneMore
  <1>8. ASSUME NEW m \in 0 .. Size, NEW j \in 1 .. Len(Kids(m)), Kids(m)[j] = n PROVE m = q /\ j = i
    <2>1. m = q /\ Path(n) = Append(Path(q), j - 1)
      BY <1>1, <1>3, <1>8
    <2>2. j - 1 \in Nat
      BY <1>5, <2>1
    <2>3. Path(n)[Len(Path(q)) + 1] = j - 1
      BY <1>5, <2>1, <2>2, OneMore
    <2>4. j \in Nat /\ i \in Nat /\ j - 1 = i - 1
      BY <1>5, <1>7, <2>1, <2>3
    <2> QED BY <2>1, <2>4
  <1> QED BY <1>1, <1>2, <1>4, <1>7, <1>8

\* Sequences of the same elements are the same.
LEMMA SameItems ==
  ASSUME NEW s \in Seq(Nat), NEW t \in Seq(Nat), Len(s) = Len(t), \A k \in 1 .. Len(s) : s[k] = t[k]
  PROVE  s = t
  <1>1. s \in [1 .. Len(s) -> Nat]
    OBVIOUS
  <1>2. t \in [1 .. Len(t) -> Nat]
    OBVIOUS
  <1> QED BY <1>1, <1>2

\* No two nodes have the same path.
LEMMA PathsDiffer ==
  ASSUME Tree, NEW m \in 0 .. Size, NEW n \in 0 .. Size, Len(Path(m)) = Len(Path(n)),
         \A k \in 1 .. Len(Path(n)) : Path(m)[k] = Path(n)[k]
  PROVE  m = n
  <1>1. PICK p, q : p = Path(m) /\ q = Path(n)
    OBVIOUS
  <1>2. p \in Seq(Nat) /\ q \in Seq(Nat)
    BY <1>1, TreeTypes
  <1>3. p = q
    <2>1. Len(p) = Len(q) /\ \A k \in 1 .. Len(q) : p[k] = q[k]
      BY <1>1
    <2> QED BY <1>2, <2>1, SameItems
  <1>4. ListAt(p) = m /\ ListAt(q) = n
    BY <1>1, EachFound
  <1> QED BY <1>3, <1>4

\* A path that leads to the place of another or behind it, below the same parent.
Behind(path, place) ==
  /\ Len(place) <= Len(path)
  /\ \A k \in 1 .. Len(place) - 1 : path[k] = place[k]
  /\ path[Len(place)] >= place[Len(place)]

\* The children of a node from a place on.
FromPlace(parent, position) == {Kids(parent)[i] : i \in position + 1 .. Len(Kids(parent))}

\* What visit() reaches from the nodes behind a place are those whose paths lead there.
LEMMA MovedAreBehind ==
  ASSUME Tree, NEW parent \in 0 .. Size, NEW position \in 0 .. Len(Kids(parent)),
         NEW place, place = Append(Path(parent), position),
         NEW moved, moved = Below(FromPlace(parent, position))
  PROVE  /\ moved \subseteq 1 .. Size /\ parent \notin moved
         /\ \A n \in 1 .. Size : n \in moved <=> Behind(Path(n), place)
  <1>1. PICK N, p, l, d : N = Size /\ p = Path(parent) /\ l = Len(Kids(parent)) /\ d = Len(p) + 1
    OBVIOUS
  <1>2. N \in Nat /\ p \in Seq(Nat) /\ l \in Nat /\ d \in Nat /\ position \in Nat /\ Len(p) \in Nat /\ Len(p) + 1 = d
    BY <1>1, TreeTypes
  <1>3. Len(place) = d /\ place[d] = position /\ \A k \in 1 .. d - 1 : place[k] = p[k]
    <2>1. place = Append(p, position)
      BY <1>1
    <2> QED BY <1>1, <1>2, <2>1, OneMore
  <1> DEFINE S == FromPlace(parent, position)
  <1>4. /\ moved \subseteq 1 .. N
        /\ \A n \in 1 .. N : n \in moved <=> n \in S \/ (nodes[n].parent # NoNode /\ nodes[n].parent \in moved)
    <2>1. moved = Below(S)
      OBVIOUS
    <2> HIDE DEF S
    <2>2. /\ Below(S) \subseteq 1 .. Size
          /\ \A n \in 1 .. Size :
               n \in Below(S) <=> n \in S \/ (nodes[n].parent # NoNode /\ nodes[n].parent \in Below(S))
      BY ReachedBelow
    <2> QED BY <1>1, <2>1, <2>2
  <1>5. \A path : Behind(path, place) <=> d <= Len(path) /\ (\A k \in 1 .. d - 1 : path[k] = p[k]) /\ path[d] >= position
    BY <1>2, <1>3 DEF Behind
  <1>6. \A n \in 0 .. N : Path(n) \in Seq(Nat) /\ Len(Path(n)) \in Nat
    BY <1>1, TreeTypes
  <1> HIDE DEF S
  <1> DEFINE Good == {k \in 0 .. N : \A n \in 1 .. k : n \in moved <=> Behind(Path(n), place)}
  <1>7. 0 \in Good
    BY <1>2
  <1>8. ASSUME NEW k \in 0 .. N - 1, k \in Good PROVE k + 1 \in Good
    <2>1. PICK n : n = k + 1 /\ n \in 1 .. N /\ n \in 0 .. N /\ k = n - 1
      BY <1>2
    <2>2. PICK q \in 0 .. n - 1 : \E i \in 1 .. Len(Kids(q)) :
            /\ nodes[n].parent = q /\ Kids(q)[i] = n
            /\ Path(n) = Append(Path(q), i - 1)
            /\ Len(Path(n)) = Len(Path(q)) + 1 /\ Path(n)[Len(Path(q)) + 1] = i - 1
            /\ \A j \in 1 .. Len(Path(q)) : Path(n)[j] = Path(q)[j]
            /\ \A m \in 0 .. Size : \A j \in 1 .. Len(Kids(m)) : Kids(m)[j] = n => m = q /\ j = i
      <3>1. n \in 1 .. Size
        BY <1>1, <2>1
      <3> QED BY <3>1, UnderParent
    <2>3. PICK i \in 1 .. Len(Kids(q)) :
            /\ nodes[n].parent = q /\ Kids(q)[i] = n
            /\ Len(Path(n)) = Len(Path(q)) + 1 /\ Path(n)[Len(Path(q)) + 1] = i - 1
            /\ \A j \in 1 .. Len(Path(q)) : Path(n)[j] = Path(q)[j]
            /\ \A m \in 0 .. Size : \A j \in 1 .. Len(Kids(m)) : Kids(m)[j] = n => m = q /\ j = i
      BY ZenonT(30), <2>2
    <2>4. q \in 0 .. N /\ q <= k /\ (q # 0 => q \in 1 .. N /\ q \in 1 .. k)
      <3>1. q \in 0 .. n - 1
        BY <2>2, Zenon
      <3> QED BY <1>2, <2>1, <3>1
    <2>5. q # 0 => (q \in moved <=> Behind(Path(q), place))
      BY <1>8, <2>4
    <2>6. q = 0 => ~Behind(Path(q), place)
      <3> SUFFICES ASSUME q = 0 PROVE ~Behind(Path(q), place)
        OBVIOUS
      <3>1. Path(q) = <<>>
        BY DEF Path, NoNode
      <3>2. Len(Path(q)) = 0 /\ 1 <= d
        BY <1>1, <1>2, <3>1
      <3> QED BY <1>2, <1>5, <3>2
    <2>7. n \in moved <=> n \in S \/ Behind(Path(q), place)
      BY <1>4, <2>1, <2>3, <2>5, <2>6 DEF NoNode
    <2>8. n \in S <=> q = parent /\ i >= position + 1
      <3>1. ASSUME n \in S PROVE q = parent /\ i >= position + 1
        <4>1. PICK j \in position + 1 .. l : Kids(parent)[j] = n
          BY <1>1, <3>1 DEF S, FromPlace
        <4>2. j \in 1 .. Len(Kids(parent)) /\ j >= position + 1
          BY <1>1, <1>2, <4>1
        <4> QED BY <2>3, <4>1, <4>2
      <3>2. ASSUME q = parent, i >= position + 1 PROVE n \in S
        <4>1. i \in position + 1 .. Len(Kids(parent))
          BY <1>1, <1>2, <2>3, <3>2
        <4> QED BY <2>3, <3>2, <4>1 DEF S, FromPlace
      <3> QED BY <3>1, <3>2
    <2>9. PICK a, b : a = Path(n) /\ b = Path(q) /\ a \in Seq(Nat) /\ b \in Seq(Nat) /\ Len(a) \in Nat /\ Len(b) \in Nat
      BY <1>6, <2>1, <2>4
    <2>10. Len(a) = Len(b) + 1 /\ a[Len(b) + 1] = i - 1 /\ \A j \in 1 .. Len(b) : a[j] = b[j]
      BY <2>3, <2>9
    <2>13. n \in moved <=> Behind(Path(n), place)
      <3>1. CASE d <= Len(b)
        <4>0. d \in 1 .. Len(b) /\ d <= Len(a)
          <5>1. d >= 1
            BY <1>2
          <5>2. Len(a) = Len(b) + 1
            BY <2>10
          <5> QED BY <1>2, <2>9, <3>1, <5>1, <5>2
        <4>1. d <= Len(a) /\ a[d] = b[d]
          BY <2>10, <4>0
        <4>2. \A j \in 1 .. d - 1 : a[j] = b[j]
          <5>1. \A j \in 1 .. d - 1 : j \in 1 .. Len(b)
            BY <2>9, <4>0
          <5> QED BY <2>10, <5>1
        <4>3. Behind(a, place) <=> Behind(b, place)
          BY <1>5, <3>1, <4>1, <4>2
        <4>4. q # parent
          BY <1>1, <1>2, <2>9, <3>1
        <4> QED BY <2>7, <2>8, <2>9, <4>3, <4>4
      <3>2. CASE ~(d <= Len(b)) /\ q = parent
        <4>1. ~Behind(b, place)
          BY <1>5, <3>2
        <4>2. b = p
          BY <1>1, <2>9, <3>2
        <4>3. Len(a) = d /\ a[d] = i - 1
          BY <1>2, <2>10, <4>2
        <4>4. i \in Nat
          BY <1>1, <1>2, <3>2
        <4>5. \A j \in 1 .. d - 1 : a[j] = p[j]
          <5>1. \A j \in 1 .. d - 1 : j \in 1 .. Len(p)
            BY <1>2
          <5> QED BY <2>10, <4>2, <5>1
        <4>6. Behind(a, place) <=> a[d] >= position
          <5>1. d <= Len(a)
            BY <1>2, <4>3
          <5> QED BY <1>5, <4>5, <5>1
        <4> QED BY <1>2, <2>7, <2>8, <2>9, <3>2, <4>1, <4>3, <4>4, <4>6
      <3>3. CASE ~(d <= Len(b)) /\ q # parent
        <4>1. ~Behind(b, place)
          BY <1>5, <3>3
        <4>2. ASSUME Behind(a, place) PROVE FALSE
          <5>1. d <= Len(a) /\ \A j \in 1 .. d - 1 : a[j] = p[j]
            BY <1>5, <4>2
          <5>2. Len(b) = Len(p) /\ d - 1 = Len(p)
            BY <1>2, <2>9, <2>10, <3>3, <5>1
          <5>3. \A j \in 1 .. Len(p) : b[j] = p[j]
            BY <2>10, <5>1, <5>2
          <5>4. q = parent
            BY <1>1, <2>4, <2>9, <5>2, <5>3, PathsDiffer
          <5> QED BY <3>3, <5>4
        <4> QED BY <2>7, <2>8, <2>9, <3>3, <4>1, <4>2
      <3> QED BY <3>1, <3>2, <3>3
    <2>14. \A m \in 1 .. n : m = n \/ m \in 1 .. k
      BY <2>1
    <2> QED BY <1>2, <1>8, <2>1, <2>13, <2>14
  <1>9. 0 .. N \subseteq Good
    <2> HIDE DEF Good
    <2> QED BY <1>2, <1>7, <1>8, UpTo
  <1>10. \A n \in 1 .. N : n \in moved <=> Behind(Path(n), place)
    <2>1. N \in Good
      BY SMTT(20), <1>2, <1>9
    <2> QED BY <2>1
  <1>11. parent \notin moved
    <2> SUFFICES ASSUME parent \in moved PROVE FALSE
      OBVIOUS
    <2>1. Behind(Path(parent), place)
      BY <1>4, <1>10
    <2>2. d <= Len(p)
      BY <1>1, <1>5, <2>1
    <2> QED BY <1>1, <1>2, <2>2
  <1> QED BY <1>1, <1>4, <1>10, <1>11

\* TreeNode.path_changed: the number at the depth of the place, and no other, is one more.
LEMMA ChangedPath ==
  ASSUME NEW path \in Seq(Nat), NEW place \in Seq(Nat), place # <<>>, Behind(path, place)
  PROVE  /\ PathChanged(path, place) \in Seq(Nat) /\ Len(PathChanged(path, place)) = Len(path)
         /\ Len(place) \in 1 .. Len(path) /\ PathChanged(path, place)[Len(place)] = path[Len(place)] + 1
         /\ \A k \in 1 .. Len(path) : k # Len(place) => PathChanged(path, place)[k] = path[k]
  <1>1. PICK d, x : d = Len(place) /\ x = place[Len(place)]
    OBVIOUS
  <1>2. d \in Nat \ {0} /\ x \in Nat /\ Last(place) = x
    BY <1>1 DEF Last
  <1>3. d \in 1 .. Len(path) /\ path[d] >= x
    BY <1>1, <1>2 DEF Behind
  <1>4. path[d] \in Nat
    BY <1>3
  <1>5. PathChanged(path, place) = [path EXCEPT ![d] = path[d] + 1]
    BY <1>1, <1>2, <1>3 DEF PathChanged
  <1>6. PICK t : t = [path EXCEPT ![d] = path[d] + 1]
    OBVIOUS
  <1>7. t \in Seq(Nat) /\ Len(t) = Len(path) /\ t[d] = path[d] + 1 /\ \A k \in 1 .. Len(path) : k # d => t[k] = path[k]
    BY <1>3, <1>4, <1>6
  <1> QED BY <1>1, <1>3, <1>5, <1>6, <1>7

\* The path of a child changes with that of its parent.
LEMMA ChangedChild ==
  ASSUME NEW path \in Seq(Nat), NEW place \in Seq(Nat), place # <<>>, Behind(path, place), NEW x \in Nat
  PROVE  /\ Behind(Append(path, x), place)
         /\ PathChanged(Append(path, x), place) = Append(PathChanged(path, place), x)
  <1>1. PICK d, a, b, c : /\ d = Len(place) /\ a = Append(path, x) /\ b = PathChanged(path, place)
                          /\ c = PathChanged(a, place)
    OBVIOUS
  <1>2. a \in Seq(Nat) /\ Len(a) = Len(path) + 1 /\ a[Len(path) + 1] = x /\ \A k \in 1 .. Len(path) : a[k] = path[k]
    BY <1>1, OneMore
  <1>3. /\ b \in Seq(Nat) /\ Len(b) = Len(path) /\ d \in 1 .. Len(path) /\ b[d] = path[d] + 1
        /\ \A k \in 1 .. Len(path) : k # d => b[k] = path[k]
    BY <1>1, ChangedPath
  <1>4. Behind(a, place)
    <2>1. \A k \in 1 .. d - 1 : k \in 1 .. Len(path)
      BY <1>3
    <2>2. /\ d <= Len(path) /\ path[d] >= place[d] /\ \A k \in 1 .. d - 1 : path[k] = place[k]
      BY <1>1 DEF Behind
    <2>3. d <= Len(a) /\ a[d] >= place[d]
      BY <1>2, <1>3, <2>2
    <2>4. \A k \in 1 .. d - 1 : a[k] = place[k]
      BY <1>2, <2>1, <2>2
    <2> QED BY <1>1, <2>3, <2>4 DEF Behind
  <1>5. /\ c \in Seq(Nat) /\ Len(c) = Len(a) /\ c[d] = a[d] + 1
        /\ \A k \in 1 .. Len(a) : k # d => c[k] = a[k]
    BY ZenonT(30), <1>1, <1>2, <1>4, ChangedPath
  <1>6. PICK e : e = Append(b, x)
    OBVIOUS
  <1>7. e \in Seq(Nat) /\ Len(e) = Len(b) + 1 /\ e[Len(b) + 1] = x /\ \A k \in 1 .. Len(b) : e[k] = b[k]
    BY <1>3, <1>6, OneMore
  <1>8. ASSUME NEW k \in 1 .. Len(a) PROVE c[k] = e[k]
    <2>1. CASE k = d
      BY <1>2, <1>3, <1>5, <1>7, <2>1
    <2>2. CASE k = Len(path) + 1
      BY <1>2, <1>3, <1>5, <1>7, <2>2
    <2>3. CASE k # d /\ k \in 1 .. Len(path)
      BY <1>2, <1>3, <1>5, <1>7, <2>3
    <2> QED BY <1>2, <2>1, <2>2, <2>3
  <1>9. c = e
    <2>1. Len(e) = Len(a)
      BY <1>2, <1>3, <1>7
    <2>2. c \in Seq(Nat) /\ e \in Seq(Nat) /\ Len(c) = Len(e) /\ \A k \in 1 .. Len(c) : c[k] = e[k]
      BY <1>5, <1>7, <1>8, <2>1
    <2> QED BY <2>2, SameItems
  <1> QED BY <1>1, <1>4, <1>6, <1>9

\* An element is inserted into a sequence.
LEMMA InsertedItem ==
  ASSUME NEW s \in Seq(Nat), NEW at \in 1 .. Len(s) + 1, NEW e \in Nat
  PROVE  /\ InsertAt(s, at, e) \in Seq(Nat) /\ Len(InsertAt(s, at, e)) = Len(s) + 1
         /\ InsertAt(s, at, e)[at] = e
         /\ \A i \in 1 .. at - 1 : InsertAt(s, at, e)[i] = s[i]
         /\ \A i \in at .. Len(s) : InsertAt(s, at, e)[i + 1] = s[i]
  <1> DEFINE t == InsertAt(s, at, e)
  <1>0. PICK position : position = at - 1 /\ at = position + 1
    <2>1. at = (at - 1) + 1
      OBVIOUS
    <2> QED BY <2>1
  <1>1. PICK l, b, c : l = Len(s) /\ b = SubSeq(s, 1, position) /\ c = SubSeq(s, position + 1, l)
    OBVIOUS
  <1>2. l \in Nat /\ position \in 0 .. l
    BY <1>0, <1>1
  <1>3. b \in Seq(Nat) /\ Len(b) = position /\ \A i \in 1 .. position : b[i] = s[i]
    BY <1>1, <1>2
  <1>4. c \in Seq(Nat) /\ Len(c) = l - position /\ \A i \in 1 .. l - position : c[i] = s[position + i]
    <2>1. c \in Seq(Nat) /\ Len(c) = l - position
      BY SMTT(20), <1>1, <1>2
    <2>2. \A i \in 1 .. l - position : c[i] = s[position + i]
      BY <1>1, <1>2
    <2> QED BY <2>1, <2>2
  <1>5. t = (b \o <<e>>) \o c
    <2>1. t = SubSeq(s, 1, (position + 1) - 1) \o <<e>> \o SubSeq(s, position + 1, Len(s))
      BY <1>0 DEF InsertAt
    <2>2. (position + 1) - 1 = position
      BY <1>2
    <2> QED BY <1>1, <2>1, <2>2
  <1> HIDE DEF t
  <1>6. PICK a : a = b \o <<e>>
    OBVIOUS
  <1>7. /\ a \in Seq(Nat) /\ Len(a) = position + 1 /\ a[position + 1] = e
        /\ \A i \in 1 .. position : a[i] = b[i]
    <2>1. PICK o : o = <<e>>
      OBVIOUS
    <2>2. o \in Seq(Nat) /\ Len(o) = 1 /\ o[1] = e /\ a = b \o o
      BY <1>6, <2>1
    <2>3. a \in Seq(Nat) /\ Len(a) = Len(b) + Len(o)
      BY <1>3, <2>2, ItemsOfBoth
    <2>4. \A i \in 1 .. Len(b) : a[i] = b[i]
      BY <1>3, <2>2, ItemsOfBoth
    <2>5. \A i \in 1 .. Len(o) : a[Len(b) + i] = o[i]
      <3>1. \A i \in 1 .. Len(o) : (b \o o)[Len(b) + i] = o[i]
        <4>1. b \in Seq(Nat) /\ o \in Seq(Nat)
          BY <1>3, <2>2
        <4> QED BY <4>1, ItemsOfBoth
      <3> QED BY <2>2, <3>1
    <2>6. 1 \in 1 .. Len(o)
      BY <2>2
    <2> QED BY <1>2, <1>3, <2>2, <2>3, <2>4, <2>5, <2>6
  <1>8. /\ a \o c \in Seq(Nat) /\ Len(a \o c) = Len(a) + Len(c)
        /\ \A i \in 1 .. Len(a) : (a \o c)[i] = a[i]
        /\ \A i \in 1 .. Len(c) : (a \o c)[Len(a) + i] = c[i]
    <2>1. a \in Seq(Nat) /\ c \in Seq(Nat)
      BY <1>4, <1>7
    <2>2. a \o c \in Seq(Nat) /\ Len(a \o c) = Len(a) + Len(c)
      BY <2>1, ItemsOfBoth
    <2>3. \A i \in 1 .. Len(a) : (a \o c)[i] = a[i]
      BY <2>1, ItemsOfBoth
    <2>4. \A i \in 1 .. Len(c) : (a \o c)[Len(a) + i] = c[i]
      BY <2>1, ItemsOfBoth
    <2> QED BY <2>2, <2>3, <2>4
  <1>9. t = a \o c
    BY <1>5, <1>6
  <1>10. Len(t) = l + 1 /\ t \in Seq(Nat) /\ t[position + 1] = e
    <2>1. Len(t) = Len(a) + Len(c) /\ Len(a) = position + 1 /\ Len(c) = l - position
      BY <1>4, <1>7, <1>8, <1>9
    <2>2. Len(t) = l + 1
      BY <1>2, <2>1
    <2>3. position + 1 \in 1 .. Len(a)
      BY <1>2, <1>7
    <2> QED BY <1>7, <1>8, <1>9, <2>2, <2>3
  <1>11. \A i \in 1 .. position : t[i] = s[i]
    <2>1. \A i \in 1 .. position : i \in 1 .. Len(a)
      BY <1>2, <1>7
    <2> QED BY <1>3, <1>7, <1>8, <1>9, <2>1
  <1>12. ASSUME NEW i \in at .. Len(s) PROVE t[i + 1] = s[i]
    <2>1. PICK j : j = i - position
      OBVIOUS
    <2>2. j \in 1 .. l - position /\ position + j = i /\ position + 1 + j = i + 1 /\ j \in 1 .. Len(c)
      BY <1>0, <1>1, <1>2, <1>4, <2>1
    <2>3. t[Len(a) + j] = c[j] /\ c[j] = s[position + j]
      BY <1>4, <1>8, <1>9, <2>2
    <2> QED BY <1>7, <2>2, <2>3
  <1>13. \A i \in 1 .. at - 1 : t[i] = s[i]
    <2>1. at - 1 = position
      BY <1>0, <1>2
    <2> QED BY <1>11, <2>1
  <1>14. t \in Seq(Nat) /\ Len(t) = Len(s) + 1 /\ t[at] = e
    BY <1>0, <1>1, <1>10
  <1> QED BY <1>12, <1>13, <1>14 DEF t

\* The path that a node has when one is inserted at a place.
Shifted(path, place) == IF Behind(path, place) THEN PathChanged(path, place) ELSE path

\* A shifted path is a path as long as before.
LEMMA ShiftedPath ==
  ASSUME NEW path \in Seq(Nat), NEW place \in Seq(Nat), place # <<>>
  PROVE  Shifted(path, place) \in Seq(Nat) /\ Len(Shifted(path, place)) = Len(path)
  BY ChangedPath DEF Shifted

\* A node that is inserted leaves the tree a tree; the paths of those behind it are shifted.
LEMMA InsertedTree ==
  ASSUME Tree, NEW parent \in 0 .. Size, NEW position \in 0 .. Len(Kids(parent)), InsertedAt(parent, position),
         NEW m, m = Size + 1, NEW place, place = Append(Path(parent), position)
  PROVE  /\ Tree' /\ Size' = m /\ inserted' = inserted \cup {m}
         /\ place \in Seq(Nat) /\ place # <<>>
         /\ \A n \in 1 .. Size : Path(n)' = Shifted(Path(n), place)
  <1>1. PICK N, l, p, moved : /\ N = Size /\ l = Kids(parent) /\ p = Path(parent)
                              /\ moved = Below(FromPlace(parent, position))
    OBVIOUS
  <1>2. /\ N \in Nat /\ m = N + 1 /\ m \in Nat /\ parent \in 0 .. N /\ parent # m
        /\ l \in Seq(Nat) /\ Len(l) \in Nat /\ DOMAIN l = 1 .. Len(l) /\ p \in Seq(Nat) /\ Len(p) \in Nat
        /\ position \in 0 .. Len(l) /\ position \in Nat
    <2>1. N \in Nat /\ l \in Seq(Nat) /\ Len(l) \in Nat /\ DOMAIN l = 1 .. Len(l) /\ p \in Seq(Nat)
      BY <1>1, TreeTypes
    <2> QED BY <1>1, <2>1
  <1>3. /\ place \in Seq(Nat) /\ Len(place) = Len(p) + 1 /\ place[Len(p) + 1] = position
        /\ \A k \in 1 .. Len(p) : place[k] = p[k]
    <2>1. place = Append(p, position)
      BY <1>1
    <2> QED BY <1>2, <2>1, OneMore
  <1>4. place # <<>> /\ Last(place) = position
    <2>1. Len(place) # 0
      BY <1>2, <1>3
    <2> QED BY <1>3, <2>1 DEF Last
  <1>5. /\ moved \subseteq 1 .. N /\ parent \notin moved
        /\ \A n \in 1 .. N : n \in moved <=> Behind(Path(n), place)
    <2>1. /\ moved \subseteq 1 .. Size /\ parent \notin moved
          /\ \A n \in 1 .. Size : n \in moved <=> Behind(Path(n), place)
      BY ZenonT(30), <1>1, MovedAreBehind
    <2> QED BY <1>1, <2>1
  <1>6. ListAt(Path(parent)) = parent
    BY EachFound
  <1>7. PICK old, new : /\ old = [i \in TreeNodes |-> IF i \in moved THEN [nodes[i] EXCEPT !.path = PathChanged(@, place)]
                                                      ELSE nodes[i]]
                        /\ new = [path |-> place, parent |-> parent, row |-> NewRow]
    OBVIOUS
  <1>8. /\ nodes' = Append(old, new)
        /\ kids' = Append([kids EXCEPT ![parent + 1] = InsertAt(@, position + 1, m)], <<>>)
        /\ inserted' = inserted \cup {m}
    BY <1>1, <1>6, <1>7 DEF InsertedAt, Size, FromPlace
  <1>9. \A n \in 1 .. N : /\ DOMAIN nodes[n] = {"path", "parent", "row"} /\ nodes[n].path = Path(n) /\ Path(n) \in Seq(Nat)
                          /\ n # 0 /\ n \in 0 .. N /\ n # m /\ n \in 1 .. m
    <2>1. \A n \in 1 .. N : n # 0 /\ n \in 0 .. N /\ n # m /\ n \in 1 .. m
      BY <1>2
    <2>2. \A n \in 1 .. N : DOMAIN nodes[n] = {"path", "parent", "row"}
      BY <1>1 DEF Tree
    <2>3. \A n \in 1 .. N : nodes[n].path = Path(n) /\ Path(n) \in Seq(Nat)
      BY <1>1, <2>1, TreeTypes
    <2> QED BY <2>1, <2>2, <2>3
  <1>10. \A n \in 1 .. N : /\ DOMAIN old[n] = {"path", "parent", "row"} /\ old[n].path = Shifted(Path(n), place)
                           /\ old[n].parent = nodes[n].parent
    <2> SUFFICES ASSUME NEW n \in 1 .. N
                 PROVE  /\ DOMAIN old[n] = {"path", "parent", "row"} /\ old[n].path = Shifted(Path(n), place)
                        /\ old[n].parent = nodes[n].parent
      OBVIOUS
    <2>1. n \in TreeNodes /\ DOMAIN nodes[n] = {"path", "parent", "row"} /\ nodes[n].path = Path(n)
      BY <1>1, <1>9, TreeTypes
    <2>2. CASE n \in moved
      <3>1. old[n] = [nodes[n] EXCEPT !.path = PathChanged(nodes[n].path, place)]
        BY <1>7, <2>1, <2>2
      <3>2. Shifted(Path(n), place) = PathChanged(nodes[n].path, place)
        BY <1>5, <2>1, <2>2 DEF Shifted
      <3> QED BY <2>1, <3>1, <3>2
    <2>3. CASE n \notin moved
      <3>1. old[n] = nodes[n]
        BY <1>7, <2>1, <2>3
      <3>2. Shifted(Path(n), place) = Path(n)
        BY <1>5, <2>3 DEF Shifted
      <3> QED BY <2>1, <3>1, <3>2
    <2> QED BY <2>2, <2>3
  <1>11. /\ \E X : nodes' \in Seq(X)
         /\ Len(nodes') = N + 1 /\ nodes'[m] = new /\ \A n \in 1 .. N : nodes'[n] = old[n]
    <2>1. PICK Y : Y = {old[n] : n \in 1 .. N} \cup {new}
      OBVIOUS
    <2>2. DOMAIN old = 1 .. N
      BY <1>1, <1>7, TreeTypes
    <2>3. old \in [1 .. N -> Y] /\ new \in Y
      BY <1>7, <2>1, <2>2
    <2>4. old \in Seq(Y) /\ Len(old) = N
      BY <1>2, <2>3
    <2>5. /\ Append(old, new) \in Seq(Y) /\ Len(Append(old, new)) = Len(old) + 1
          /\ \A n \in 1 .. Len(old) : Append(old, new)[n] = old[n]
          /\ Append(old, new)[Len(old) + 1] = new
      BY <2>3, <2>4, ItemsOfMore
    <2> QED BY <1>2, <1>8, <2>4, <2>5
  <1>12. Size' = m
    BY <1>2, <1>11 DEF Size
  <1>13. \A n \in 1 .. N : Path(n)' = Shifted(Path(n), place)
    <2> SUFFICES ASSUME NEW n \in 1 .. N PROVE Path(n)' = Shifted(Path(n), place)
      OBVIOUS
    <2>1. nodes'[n].path = Shifted(Path(n), place) /\ n # 0
      BY <1>9, <1>10, <1>11
    <2> QED BY <2>1 DEF Path, NoNode
  <1>14. Path(parent)' = p
    <2>1. CASE parent = 0
      BY <1>1, <2>1 DEF Path, NoNode
    <2>2. CASE parent # 0
      <3>1. parent \in 1 .. N
        BY <1>2, <2>2
      <3>2. ~Behind(Path(parent), place)
        BY <1>5, <3>1
      <3> QED BY <1>1, <1>13, <3>1, <3>2 DEF Shifted
    <2> QED BY <2>1, <2>2
  <1>15. Path(m)' = place /\ new.path = place /\ new.parent = parent /\ DOMAIN new = {"path", "parent", "row"}
    <2>1. m # 0
      BY <1>2
    <2>2. new.path = place /\ new.parent = parent /\ DOMAIN new = {"path", "parent", "row"}
      BY <1>7
    <2> QED BY <1>11, <2>1, <2>2 DEF Path, NoNode
  <1>16. PICK list : list = InsertAt(l, position + 1, m)
    OBVIOUS
  <1>17. /\ list \in Seq(Nat) /\ Len(list) = Len(l) + 1 /\ list[position + 1] = m /\ DOMAIN list = 1 .. Len(l) + 1
         /\ \A i \in 1 .. position : list[i] = l[i]
         /\ \A i \in position + 1 .. Len(l) : list[i + 1] = l[i]
    <2>1. PICK at : at = position + 1
      OBVIOUS
    <2>2. l \in Seq(Nat) /\ at \in 1 .. Len(l) + 1 /\ m \in Nat /\ list = InsertAt(l, at, m)
      BY <1>2, <1>16, <2>1
    <2>3. /\ list \in Seq(Nat) /\ Len(list) = Len(l) + 1 /\ list[at] = m
          /\ \A i \in 1 .. at - 1 : list[i] = l[i]
          /\ \A i \in at .. Len(l) : list[i + 1] = l[i]
      <3>1. l \in Seq(Nat) /\ at \in 1 .. Len(l) + 1 /\ m \in Nat
        BY <2>2
      <3>2. /\ InsertAt(l, at, m) \in Seq(Nat) /\ Len(InsertAt(l, at, m)) = Len(l) + 1
            /\ InsertAt(l, at, m)[at] = m
            /\ \A i \in 1 .. at - 1 : InsertAt(l, at, m)[i] = l[i]
            /\ \A i \in at .. Len(l) : InsertAt(l, at, m)[i + 1] = l[i]
        BY ZenonT(30), <3>1, InsertedItem
      <3> QED BY <2>2, <3>2
    <2>4. DOMAIN list = 1 .. Len(l) + 1
      BY <2>3
    <2>5. \A i \in 1 .. position : i \in 1 .. at - 1
      BY <1>2, <2>1
    <2> QED BY <2>1, <2>3, <2>4, <2>5
  <1>18. kids' = Append([kids EXCEPT ![parent + 1] = list], <<>>)
    BY <1>1, <1>8, <1>16 DEF Kids
  <1>19. /\ kids' \in Seq(Seq(Nat)) /\ Len(kids') = m + 1
         /\ Kids(parent)' = list /\ Kids(m)' = <<>>
         /\ \A n \in 0 .. N : n # parent => Kids(n)' = Kids(n)
    <2>1. /\ kids' \in Seq(Seq(Nat)) /\ Len(kids') = m + 1
          /\ Kids(parent)' = list /\ Kids(m)' = <<>>
          /\ \A n \in 0 .. Size : n # parent => Kids(n)' = Kids(n)
      BY <1>17, <1>18, ListsBecome
    <2> QED BY <1>1, <2>1
  <1>20. \A n \in 0 .. N : Path(n) \in Seq(Nat)
    BY <1>1, TreeTypes
  \* The places of the children of other nodes
  <1>22. ASSUME NEW q \in 0 .. N, q # parent, NEW i \in DOMAIN Kids(q), NEW n, n = Kids(q)[i]
         PROVE  n \in 1 .. N /\ nodes'[n].parent = q /\ nodes'[n].path = Append(Path(q)', i - 1)
    <2>1. n \in 1 .. N /\ nodes[n].parent = q /\ nodes[n].path = Append(Path(q), i - 1)
      BY <1>1, <1>22 DEF Tree
    <2>2. i - 1 \in Nat
      <3>1. DOMAIN Kids(q) = 1 .. Len(Kids(q)) /\ Len(Kids(q)) \in Nat
        BY <1>1, TreeTypes
      <3> QED BY <3>1
    <2>3. nodes'[n].parent = q /\ nodes'[n].path = Shifted(Path(n), place)
      BY <1>10, <1>11, <2>1
    <2>4. Path(n) = Append(Path(q), i - 1)
      BY <1>9, <2>1
    <2>5. Shifted(Path(n), place) = Append(Path(q)', i - 1)
      <3>1. CASE q # 0 /\ q \in moved
        <4>1. q \in 1 .. N /\ Behind(Path(q), place) /\ Path(q) \in Seq(Nat)
          BY <1>5, <1>20, <3>1
        <4>2. Behind(Path(n), place) /\ PathChanged(Path(n), place) = Append(PathChanged(Path(q), place), i - 1)
          BY ZenonT(30), <1>3, <1>4, <2>2, <2>4, <4>1, ChangedChild
        <4>3. Path(q)' = PathChanged(Path(q), place)
          BY <1>13, <4>1 DEF Shifted
        <4> QED BY <4>2, <4>3 DEF Shifted
      <3>2. CASE q = 0 \/ q \notin moved
        <4>1. Path(q)' = Path(q)
          <5>1. CASE q = 0
            BY <5>1 DEF Path, NoNode
          <5>2. CASE q # 0
            <6>1. q \in 1 .. N /\ ~Behind(Path(q), place)
              BY <1>2, <1>5, <3>2, <5>2
            <6> QED BY <1>13, <6>1 DEF Shifted
          <5> QED BY <5>1, <5>2
        <4>2. n \notin moved
          <5>1. \A k \in 1 .. N : k \in moved <=> \/ k \in {Kids(parent)[j] : j \in position + 1 .. Len(Kids(parent))}
                                                  \/ (nodes[k].parent # NoNode /\ nodes[k].parent \in moved)
            <6> DEFINE S == FromPlace(parent, position)
            <6>1. moved = Below(S)
              BY <1>1
            <6> HIDE DEF S
            <6>2. \A k \in 1 .. Size : k \in Below(S) <=> k \in S \/ (nodes[k].parent # NoNode /\ nodes[k].parent \in Below(S))
              BY ReachedBelow
            <6>3. \A k \in 1 .. N : k \in moved <=> k \in S \/ (nodes[k].parent # NoNode /\ nodes[k].parent \in moved)
              BY <1>1, <6>1, <6>2
            <6> QED BY <6>3 DEF S, FromPlace
          <5>2. ASSUME NEW j \in position + 1 .. Len(Kids(parent)), Kids(parent)[j] = n PROVE FALSE
            <6>1. j \in DOMAIN Kids(parent)
              BY <1>1, <1>2
            <6>2. nodes[n].parent = parent
              BY <1>1, <1>2, <5>2, <6>1 DEF Tree
            <6> QED BY <1>22, <2>1, <6>2
          <5> QED BY <2>1, <3>2, <5>1, <5>2 DEF NoNode
        <4>3. Shifted(Path(n), place) = Path(n)
          BY <1>5, <2>1, <4>2 DEF Shifted
        <4> QED BY <2>4, <4>1, <4>3
      <3> QED BY <3>1, <3>2
    <2> QED BY <2>1, <2>3, <2>5
  \* Those of the children of its parent, before it and behind it
  <1>23. ASSUME NEW i \in 1 .. Len(l), NEW n, n = l[i]
         PROVE  /\ n \in 1 .. N /\ nodes'[n].parent = parent
                /\ nodes'[n].path = Append(p, IF i <= position THEN i - 1 ELSE i)
    <2>1. n \in 1 .. N /\ nodes[n].parent = parent /\ nodes[n].path = Append(p, i - 1)
      BY <1>1, <1>2, <1>23 DEF Tree
    <2>2. nodes'[n].parent = parent /\ nodes'[n].path = Shifted(Path(n), place)
      BY <1>10, <1>11, <2>1
    <2>3. PICK a, b, d : a = Append(p, i - 1) /\ b = Append(p, i) /\ d = Len(p) + 1
      OBVIOUS
    <2>4. i \in Nat /\ i - 1 \in Nat /\ d \in Nat
      BY <1>2, <2>3
    <2>5. /\ a \in Seq(Nat) /\ Len(a) = Len(p) + 1 /\ a[Len(p) + 1] = i - 1 /\ \A k \in 1 .. Len(p) : a[k] = p[k]
          /\ b \in Seq(Nat) /\ Len(b) = Len(p) + 1 /\ b[Len(p) + 1] = i /\ \A k \in 1 .. Len(p) : b[k] = p[k]
      BY <1>2, <2>3, <2>4, OneMore
    <2>6. Path(n) = a
      BY <1>9, <2>1, <2>3
    <2>7. Behind(a, place) <=> i - 1 >= position
      <3>1. Len(place) = d /\ Len(a) = d /\ place[d] = position /\ a[d] = i - 1
        BY <1>3, <2>3, <2>5
      <3>2. \A k \in 1 .. d - 1 : a[k] = place[k]
        <4>1. \A k \in 1 .. d - 1 : k \in 1 .. Len(p)
          BY <1>2, <2>3
        <4> QED BY <1>3, <2>5, <4>1
      <3>3. d <= d
        BY <2>4
      <3> QED BY <3>1, <3>2, <3>3 DEF Behind
    <2>8. CASE i <= position
      <3>1. ~Behind(a, place)
        BY <1>2, <2>4, <2>7, <2>8
      <3> QED BY <2>1, <2>2, <2>3, <2>6, <2>8, <3>1 DEF Shifted
    <2>9. CASE ~(i <= position)
      <3>1. Behind(a, place)
        BY <1>2, <2>4, <2>7, <2>9
      <3>2. PICK c : c = PathChanged(a, place)
        OBVIOUS
      <3>3. /\ c \in Seq(Nat) /\ Len(c) = Len(a) /\ c[Len(place)] = a[Len(place)] + 1
            /\ \A k \in 1 .. Len(a) : k # Len(place) => c[k] = a[k]
        BY ZenonT(30), <1>3, <1>4, <2>5, <3>1, <3>2, ChangedPath
      <3>4. ASSUME NEW k \in 1 .. Len(c) PROVE c[k] = b[k]
        <4>1. CASE k = d
          BY <1>3, <2>3, <2>4, <2>5, <3>3, <4>1
        <4>2. CASE k # d
          <5>1. k \in 1 .. Len(p) /\ k \in 1 .. Len(a)
            BY <1>2, <2>3, <2>5, <3>3, <4>2
          <5> QED BY <1>3, <2>3, <2>5, <3>3, <4>2, <5>1
        <4> QED BY <4>1, <4>2
      <3>5. c = b
        BY <2>5, <3>3, <3>4, SameItems
      <3> QED BY <2>1, <2>2, <2>3, <2>6, <2>9, <3>1, <3>2, <3>5 DEF Shifted
    <2> QED BY <2>8, <2>9
  <1>24. ASSUME NEW n \in 1 .. m
         PROVE  /\ DOMAIN nodes'[n] = {"path", "parent", "row"}
                /\ nodes'[n].path \in Seq(Nat)
                /\ \E q \in 0 .. n - 1 : nodes'[n].parent = q /\ \E i \in DOMAIN Kids(q)' : Kids(q)'[i] = n
    <2>1. CASE n = m
      <3>1. position + 1 \in DOMAIN list /\ parent \in 0 .. m - 1
        BY <1>2, <1>17
      <3>2. \E i \in DOMAIN Kids(parent)' : Kids(parent)'[i] = n
        BY <1>17, <1>19, <2>1, <3>1
      <3> QED BY <1>3, <1>11, <1>15, <2>1, <3>1, <3>2, <1>2
    <2>2. CASE n \in 1 .. N
      <3>1. PICK q : q = nodes[n].parent
        OBVIOUS
      <3>2. q \in 0 .. n - 1 /\ \E i \in DOMAIN Kids(q) : Kids(q)[i] = n
        BY <1>1, <2>2, <3>1 DEF Tree
      <3>3. q \in 0 .. N
        BY <1>2, <2>2, <3>2
      <3>4. \E i \in DOMAIN Kids(q)' : Kids(q)'[i] = n
        <4>1. CASE q = parent
          <5>1. PICK i \in 1 .. Len(l) : l[i] = n
            BY <1>1, <1>2, <3>2, <4>1
          <5>2. CASE i <= position
            <6>1. i \in 1 .. position /\ i \in DOMAIN list
              BY <1>2, <1>17, <5>2
            <6> QED BY <1>17, <1>19, <4>1, <5>1, <6>1
          <5>3. CASE ~(i <= position)
            <6>1. i \in position + 1 .. Len(l) /\ i + 1 \in DOMAIN list
              BY <1>2, <1>17, <5>3
            <6>2. list[i + 1] = n
              BY <1>17, <5>1, <6>1
            <6> QED BY <1>19, <4>1, <6>1, <6>2
          <5> QED BY <5>2, <5>3
        <4>2. CASE q # parent
          BY <1>19, <3>2, <3>3, <4>2
        <4> QED BY <4>1, <4>2
      <3>5. DOMAIN nodes'[n] = {"path", "parent", "row"} /\ nodes'[n].parent = q
        BY <1>10, <1>11, <2>2, <3>1
      <3>6. nodes'[n].path \in Seq(Nat)
        <4>1. nodes'[n].path = Shifted(Path(n), place) /\ Path(n) \in Seq(Nat)
          BY <1>9, <1>10, <1>11, <2>2
        <4> QED BY <1>3, <1>4, <4>1, ShiftedPath
      <3> QED BY <3>2, <3>4, <3>5, <3>6
    <2>3. n = m \/ n \in 1 .. N
      BY <1>2
    <2> QED BY <2>1, <2>2, <2>3, Zenon
  <1>25. ASSUME NEW n \in 0 .. m, NEW i \in DOMAIN Kids(n)'
         PROVE  /\ Kids(n)'[i] \in 1 .. m
                /\ nodes'[Kids(n)'[i]].parent = n /\ nodes'[Kids(n)'[i]].path = Append(Path(n)', i - 1)
    <2>1. CASE n = m
      BY <1>19, <2>1
    <2>2. CASE n \in 0 .. N /\ n # parent
      <3>1. PICK k : k = Kids(n)[i]
        OBVIOUS
      <3>2. Kids(n)' = Kids(n)
        BY <1>19, <2>2
      <3>3. k \in 1 .. N /\ nodes'[k].parent = n /\ nodes'[k].path = Append(Path(n)', i - 1)
        BY <1>22, <2>2, <3>1, <3>2
      <3> QED BY <1>9, <3>1, <3>2, <3>3
    <2>3. CASE n = parent /\ i = position + 1
      <3>1. Kids(n)'[i] = m /\ i - 1 = position
        BY <1>2, <1>17, <1>19, <2>3
      <3>2. place = Append(p, position)
        BY <1>1
      <3>3. Kids(n)'[i] \in 1 .. m
        BY <1>2, <3>1
      <3>4. nodes'[m].parent = n
        BY <1>11, <1>14, <1>15, <2>3
      <3>5. nodes'[m].path = Append(Path(n)', i - 1)
        BY <1>11, <1>14, <1>15, <2>3, <3>1, <3>2
      <3> QED BY <3>1, <3>3, <3>4, <3>5, Zenon
    <2>4. CASE n = parent /\ i \in 1 .. position
      <3>1. PICK k : k = l[i]
        OBVIOUS
      <3>2. Kids(n)'[i] = k /\ i \in 1 .. Len(l) /\ i <= position
        BY <1>2, <1>17, <1>19, <2>4, <3>1
      <3>3. k \in 1 .. N /\ nodes'[k].parent = parent /\ nodes'[k].path = Append(p, i - 1)
        BY <1>23, <3>1, <3>2
      <3> QED BY <1>9, <1>14, <2>4, <3>2, <3>3
    <2>5. CASE n = parent /\ i \in position + 2 .. Len(l) + 1
      <3>1. PICK j : j = i - 1
        OBVIOUS
      <3>2. j \in position + 1 .. Len(l) /\ j + 1 = i /\ j \in 1 .. Len(l) /\ ~(j <= position)
        BY SMTT(20), <1>2, <2>5, <3>1
      <3>3. PICK k : k = l[j]
        OBVIOUS
      <3>4. Kids(n)'[i] = k
        <4>1. list[j + 1] = l[j]
          BY <1>17, <3>2
        <4> QED BY <1>19, <2>5, <3>2, <3>3, <4>1
      <3>5. k \in 1 .. N /\ nodes'[k].parent = parent /\ nodes'[k].path = Append(p, j)
        BY <1>23, <3>2, <3>3
      <3> QED BY <1>9, <1>14, <2>5, <3>1, <3>4, <3>5
    <2>6. n = m \/ n \in 0 .. N
      BY <1>2
    <2>7. n = parent => i \in 1 .. position \/ i = position + 1 \/ i \in position + 2 .. Len(l) + 1
      <3> SUFFICES ASSUME n = parent
                   PROVE  i \in 1 .. position \/ i = position + 1 \/ i \in position + 2 .. Len(l) + 1
        OBVIOUS
      <3>1. i \in 1 .. Len(l) + 1
        BY <1>17, <1>19
      <3> QED BY <1>2, <3>1
    <2> QED BY <2>1, <2>2, <2>3, <2>4, <2>5, <2>6, <2>7
  <1>26. Tree'
    <2>1. Len(kids') = Size' + 1
      BY <1>2, <1>12, <1>19
    <2>2. \A n \in 1 .. m : /\ DOMAIN nodes'[n] = {"path", "parent", "row"}
                            /\ nodes'[n].path \in Seq(Nat) /\ nodes'[n].parent \in 0 .. n - 1
                            /\ \E i \in DOMAIN kids'[nodes'[n].parent + 1] : kids'[nodes'[n].parent + 1][i] = n
      BY <1>24 DEF Kids
    <2> QED BY <1>11, <1>12, <1>19, <1>25, <2>1, <2>2 DEF Tree, Kids
  <1> QED BY <1>1, <1>3, <1>4, <1>8, <1>12, <1>13, <1>26

-----------------------------------------------------------------------------
(* What the steps of the model do to the tree *)

\* A call, from outside or by the function that runs: frames come on top of the stack,
\* those of populate() only on a tree that is not populated.
Called(new) ==
  /\ new \in Seq(Frames(Size)) /\ stack' = stack \o new
  /\ stack = <<>> \/ raised = "no"
  /\ \A i \in DOMAIN new : /\ new[i].node = NoNode
                           /\ new[i].call = "populate" => new[i].prev_nodes = <<>> /\ ~populated
  /\ UNCHANGED <<gridVars, histories>>

\* The frames that calls begin with.
LEMMA NewPopulateFrame ==
  ASSUME Tree, NEW function \in Callers, NEW strict \in BOOLEAN, NEW f, f = PopulateFrame(function, strict)
  PROVE  f \in Frames(Size) /\ f.node = NoNode /\ f.call = "populate" /\ f.prev_nodes = <<>>
  <1>1. Size \in Nat /\ 0 \in 0 .. Size /\ <<>> \in Seq(1 .. Size)
    BY TreeTypes
  <1>2. f = [call |-> "populate", function |-> function, node |-> 0, strict |-> strict, prev_nodes |-> <<>>]
    BY DEF PopulateFrame, NoNode
  <1>3. f \in Frames(Size)
    BY <1>1, <1>2 DEF Frames
  <1> QED BY <1>2, <1>3 DEF NoNode

\* The same for visit().
LEMMA NewVisitFrame ==
  ASSUME Tree, NEW function \in Callers, NEW from \in 0 .. Size, NEW f, f = VisitFrame(function, from)
  PROVE  f \in Frames(Size) /\ f.node = NoNode /\ f.call = "visit"
  <1>1. Size \in Nat /\ 0 \in 0 .. Size
    BY TreeTypes
  <1>2. f = [call |-> "visit", function |-> function, node |-> 0, from |-> from, lists |-> <<>>, entering |-> FALSE]
    BY DEF VisitFrame, NoNode
  <1>3. f \in Frames(Size)
    <2>1. PICK L : L = [of : 0 .. Size, next : Nat \ {0}]
      OBVIOUS
    <2>2. <<>> \in Seq(L)
      OBVIOUS
    <2>3. f \in [call : {"visit"}, function : Callers, node : 0 .. Size, from : 0 .. Size, lists : Seq(L),
                 entering : BOOLEAN]
      BY <1>1, <1>2, <2>2
    <2> QED BY <2>1, <2>3 DEF Frames
  <1> QED BY <1>2, <1>3 DEF NoNode

\* One frame more.
LEMMA AppendIsConcatenation ==
  ASSUME NEW X, NEW s \in Seq(X), NEW x \in X
  PROVE  Append(s, x) = s \o <<x>>
  OBVIOUS

\* A call of populate(), of visit() or of a renderer.
LEMMA CallsPush ==
  ASSUME Tree, stack \in Seq(Frames(Size)),
         \/ \E strict \in BOOLEAN : Populate("user", strict)
         \/ \E node \in TreeNodes \cup {NoNode} : Visit("user", node)
         \/ \E options \in Renderings : Render(options)
  PROVE  \E new : Called(new) /\ raised' = "no"
  <1>0. "user" \in Callers /\ "none" \in Callers /\ "render" \in Callers
    BY DEF Callers
  <1>1. ASSUME NEW strict \in BOOLEAN, Populate("user", strict)
        PROVE  \E new : Called(new) /\ raised' = "no"
    <2>1. PICK f : f = PopulateFrame("user", strict)
      OBVIOUS
    <2>2. f \in Frames(Size) /\ f.node = NoNode /\ f.prev_nodes = <<>>
      BY <1>0, <2>1, NewPopulateFrame
    <2>3. PICK new : new = <<f>>
      OBVIOUS
    <2>4. new \in Seq(Frames(Size)) /\ \A i \in DOMAIN new : new[i] = f
      BY <2>2, <2>3
    <2>5. stack' = stack \o new
      BY <1>1, <2>1, <2>2, <2>3, AppendIsConcatenation DEF Populate
    <2>6. raised' = "no" /\ (stack = <<>> \/ raised = "no")
      BY <1>1 DEF Populate, Callable, InFunction
    <2>7. Called(new)
      BY <1>1, <2>2, <2>4, <2>5, <2>6 DEF Called, Populate
    <2> QED BY <2>6, <2>7
  <1>2. ASSUME NEW node \in TreeNodes \cup {NoNode}, Visit("user", node)
        PROVE  \E new : Called(new) /\ raised' = "no"
    <2>1. PICK f, g, none : /\ f = VisitFrame("user", node) /\ g = PopulateFrame("none", TRUE)
                            /\ none = IF populated THEN <<>> ELSE <<g>>
      OBVIOUS
    <2>2. node \in 0 .. Size
      BY TreeTypes DEF NoNode
    <2>3. f \in Frames(Size) /\ f.node = NoNode /\ f.call = "visit"
      BY <1>0, <2>1, <2>2, NewVisitFrame
    <2>4. g \in Frames(Size) /\ g.node = NoNode /\ g.prev_nodes = <<>>
      BY <1>0, <2>1, NewPopulateFrame
    <2>5. PICK V, one, new : V = Frames(Size) /\ one = <<f>> /\ new = one \o none
      OBVIOUS
    <2>6. /\ one \in Seq(V) /\ none \in Seq(V) /\ stack \in Seq(V)
          /\ \A i \in DOMAIN one : one[i] = f
          /\ \A i \in DOMAIN none : none[i] = g /\ ~populated
      <3>1. f \in V /\ g \in V /\ stack \in Seq(V)
        BY <2>3, <2>4, <2>5
      <3>2. one \in Seq(V) /\ \A i \in DOMAIN one : one[i] = f
        BY <2>5, <3>1
      <3>3. CASE populated
        <4>1. none = <<>>
          BY <2>1, <3>3
        <4>2. none \in Seq(V) /\ DOMAIN none = {}
          BY <4>1
        <4> QED BY <3>1, <3>2, <4>2
      <3>4. CASE ~populated
        <4>1. none = <<g>>
          BY <2>1, <3>4
        <4>2. none \in Seq(V) /\ \A i \in DOMAIN none : none[i] = g
          BY <3>1, <4>1
        <4> QED BY <3>1, <3>2, <3>4, <4>2
      <3> QED BY <3>3, <3>4
    <2>7. new \in Seq(V) /\ \A i \in DOMAIN new : new[i] = f \/ (new[i] = g /\ ~populated)
      <3>1. new \in Seq(V) /\ Items(new) = Items(one) \cup Items(none)
        BY ZenonT(30), <2>5, <2>6, ItemsOfBoth
      <3> QED BY <2>6, <3>1 DEF Items
    <2>8. stack' = stack \o new
      <3>1. stack' = (stack \o one) \o none
        BY <1>2, <2>1, <2>5 DEF Visit
      <3>2. (stack \o one) \o none = stack \o (one \o none)
        BY <2>6
      <3> QED BY <2>5, <3>1, <3>2
    <2>9. raised' = "no" /\ (stack = <<>> \/ raised = "no")
      BY <1>2 DEF Visit, Callable, InFunction
    <2>10. \A i \in DOMAIN new : /\ new[i].node = NoNode
                                 /\ new[i].call = "populate" => new[i].prev_nodes = <<>> /\ ~populated
      BY <2>3, <2>4, <2>7
    <2>11. Called(new)
      BY <1>2, <2>5, <2>7, <2>8, <2>9, <2>10 DEF Called, Visit
    <2> QED BY <2>9, <2>11
  <1>3. ASSUME NEW options \in Renderings, Render(options)
        PROVE  \E new : Called(new) /\ raised' = "no"
    <2>1. PICK f : f = IF populated THEN VisitFrame("render", NoNode) ELSE PopulateFrame("render", TRUE)
      OBVIOUS
    <2>2. /\ f \in Frames(Size) /\ f.node = NoNode
          /\ f.call = "populate" => f.prev_nodes = <<>> /\ ~populated
      <3>1. CASE populated
        <4>1. NoNode \in 0 .. Size /\ f = VisitFrame("render", NoNode)
          BY <2>1, <3>1, TreeTypes DEF NoNode
        <4>2. f \in Frames(Size) /\ f.node = NoNode /\ f.call = "visit"
          BY <1>0, <4>1, NewVisitFrame
        <4> QED BY <4>2
      <3>2. CASE ~populated
        <4>1. f = PopulateFrame("render", TRUE)
          BY <2>1, <3>2
        <4>2. f \in Frames(Size) /\ f.node = NoNode /\ f.prev_nodes = <<>>
          BY <1>0, <4>1, NewPopulateFrame
        <4> QED BY <3>2, <4>2
      <3> QED BY <3>1, <3>2
    <2>3. PICK new : new = <<f>>
      OBVIOUS
    <2>4. new \in Seq(Frames(Size)) /\ \A i \in DOMAIN new : new[i] = f
      BY <2>2, <2>3
    <2>5. stack = <<>> /\ stack' = new /\ raised' = "no"
      BY <1>3, <2>1, <2>3 DEF Render
    <2>6. stack' = stack \o new
      BY <2>4, <2>5
    <2>7. Called(new)
      BY <1>3, <2>2, <2>4, <2>5, <2>6 DEF Called, Render
    <2> QED BY <2>5, <2>7
  <1> QED BY <1>1, <1>2, <1>3

\* The two kinds of frames.
LEMMA FrameFields ==
  ASSUME NEW n, NEW f \in Frames(n)
  PROVE  /\ f.node \in 0 .. n /\ f.function \in Callers /\ f.call \in {"populate", "visit"}
         /\ f.call = "populate" =>
              /\ f \in [call : {"populate"}, function : Callers, node : 0 .. n, strict : BOOLEAN, prev_nodes : Seq(1 .. n)]
              /\ f.strict \in BOOLEAN /\ f.prev_nodes \in Seq(1 .. n)
         /\ f.call = "visit" =>
              /\ f \in [call : {"visit"}, function : Callers, node : 0 .. n, from : 0 .. n,
                        lists : Seq([of : 0 .. n, next : Nat \ {0}]), entering : BOOLEAN]
              /\ f.from \in 0 .. n /\ f.lists \in Seq([of : 0 .. n, next : Nat \ {0}]) /\ f.entering \in BOOLEAN
  <1>1. PICK P : P = Seq(1 .. n)
    OBVIOUS
  <1>2. PICK L : L = Seq([of : 0 .. n, next : Nat \ {0}])
    OBVIOUS
  <1>3. \/ f \in [call : {"populate"}, function : Callers, node : 0 .. n, strict : BOOLEAN, prev_nodes : P]
        \/ f \in [call : {"visit"}, function : Callers, node : 0 .. n, from : 0 .. n, lists : L, entering : BOOLEAN]
    BY <1>1, <1>2 DEF Frames
  <1>4. CASE f \in [call : {"populate"}, function : Callers, node : 0 .. n, strict : BOOLEAN, prev_nodes : P]
    BY <1>1, <1>4
  <1>5. CASE f \in [call : {"visit"}, function : Callers, node : 0 .. n, from : 0 .. n, lists : L, entering : BOOLEAN]
    BY <1>2, <1>5
  <1> QED BY <1>3, <1>4, <1>5

\* The first elements of a sequence.
LEMMA FirstOf ==
  ASSUME NEW V, NEW s \in Seq(V), NEW n \in 0 .. Len(s)
  PROVE  /\ SubSeq(s, 1, n) \in Seq(V) /\ Len(SubSeq(s, 1, n)) = n
         /\ \A k \in 1 .. n : SubSeq(s, 1, n)[k] = s[k]
         /\ n \in Nat /\ \A k \in 1 .. Len(s) : s[k] \in V
  OBVIOUS

\* The same elements, of a larger set.
LEMMA SeqOfLarger ==
  ASSUME NEW V, NEW W, V \subseteq W, NEW s \in Seq(V)
  PROVE  s \in Seq(W)
  OBVIOUS

\* prev_nodes[0:parent_index] + [treenode]
LEMMA NewPrevNodes ==
  ASSUME NEW n \in Nat, NEW c \in Seq(1 .. n), NEW depth \in 0 .. Len(c), NEW m, m = n + 1
  PROVE  /\ Append(SubSeq(c, 1, depth), m) \in Seq(1 .. m)
         /\ Len(Append(SubSeq(c, 1, depth), m)) = depth + 1
         /\ Append(SubSeq(c, 1, depth), m)[depth + 1] = m
         /\ \A k \in 1 .. depth : Append(SubSeq(c, 1, depth), m)[k] = c[k]
         /\ \A k \in 1 .. Len(c) : c[k] \in 1 .. n
         /\ depth \in Nat
  <1>1. PICK V, W, e : V = 1 .. n /\ W = 1 .. m /\ e = SubSeq(c, 1, depth)
    OBVIOUS
  <1>2. V \subseteq W /\ m \in W /\ c \in Seq(V)
    BY <1>1
  <1>3. /\ e \in Seq(V) /\ Len(e) = depth /\ \A k \in 1 .. depth : e[k] = c[k]
        /\ depth \in Nat /\ \A k \in 1 .. Len(c) : c[k] \in V
    <2>1. e = SubSeq(c, 1, depth)
      BY <1>1
    <2> QED BY <1>2, <2>1, FirstOf
  <1>4. e \in Seq(W)
    BY <1>2, <1>3, SeqOfLarger
  <1>5. /\ Append(e, m) \in Seq(W) /\ Len(Append(e, m)) = Len(e) + 1
        /\ \A k \in 1 .. Len(e) : Append(e, m)[k] = e[k]
        /\ Append(e, m)[Len(e) + 1] = m
    BY <1>2, <1>4, ItemsOfMore
  <1> QED BY <1>1, <1>3, <1>5

\* What the plugin has still to yield; and no row is taken before the timeliner has
\* collected what it yields, and has sorted it.
Rows ==
  /\ DOMAIN generator = {"rows", "fails"} /\ generator.fails \in BOOLEAN
  /\ \E X : generator.rows \in Seq(X)
  /\ \A i \in DOMAIN generator.rows : generator.rows[i].level \in Nat

Idle == Collecting \/ data # <<>> => nodes = <<>> /\ ~populated /\ stack = <<>>

Typed ==
  /\ Tree
  /\ stack \in Seq(Frames(Size))
  /\ rowCount \in Nat /\ populated \in BOOLEAN /\ inserted \subseteq 1 .. Size
  /\ Rows
  /\ Idle

\* A tree that is left alone is one afterwards.
LEMMA TreeStays ==
  ASSUME Tree, nodes' = nodes, kids' = kids
  PROVE  Tree' /\ Size' = Size /\ (\A n : Path(n)' = Path(n)) /\ (\A n : Kids(n)' = Kids(n))
  <1>1. Size' = Size /\ (\A n : Path(n)' = Path(n)) /\ (\A n : Kids(n)' = Kids(n))
    BY DEF Size, Path, Kids
  <1>2. \E X : nodes' \in Seq(X)
    BY DEF Tree
  <1>3. kids' \in Seq(Seq(Nat)) /\ Len(kids') = Size' + 1
    BY <1>1 DEF Tree
  <1>4. ASSUME NEW n \in 1 .. Size
        PROVE  /\ DOMAIN nodes'[n] = {"path", "parent", "row"}
               /\ nodes'[n].path \in Seq(Nat) /\ nodes'[n].parent \in 0 .. n - 1
               /\ \E i \in DOMAIN kids'[nodes'[n].parent + 1] : kids'[nodes'[n].parent + 1][i] = n
    BY DEF Tree, Kids
  <1>5. ASSUME NEW n \in 0 .. Size, NEW i \in DOMAIN Kids(n)
        PROVE  /\ Kids(n)[i] \in 1 .. Size
               /\ nodes'[Kids(n)[i]].parent = n /\ nodes'[Kids(n)[i]].path = Append(Path(n)', i - 1)
    BY <1>1 DEF Tree
  <1>6. Tree'
    BY <1>1, <1>2, <1>3, <1>4, <1>5 DEF Tree, Kids
  <1> QED BY <1>1, <1>6

\* A row comes below the node that is kept for a depth; of those kept, it follows that one.
Takes(c, depth, parent, row, f, m) ==
  /\ parent = IF depth > 0 THEN c[depth] ELSE NoNode
  /\ Appended(parent, row) /\ Becomes(f)
  /\ f.call = "populate" /\ f.node = m /\ f.prev_nodes = Append(SubSeq(c, 1, depth), m)

\* populate() takes a row: a node comes into the tree, below one of the nodes before it.
LEMMA RowTaken ==
  ASSUME Typed, TakeRow, NEW m, m = Size + 1, NEW c, c = Running.prev_nodes
  PROVE  /\ c \in Seq(1 .. Size) /\ stack # <<>> /\ Running.call = "populate" /\ Running.node = NoNode
         /\ generator.rows # <<>> /\ generator' = [generator EXCEPT !.rows = Tail(@)]
         /\ \E depth \in 0 .. Len(c) : \E parent \in 0 .. Size : \E row : \E f \in Frames(m) :
              Takes(c, depth, parent, row, f, m)
  <1>1. stack # <<>> /\ Running.call = "populate" /\ Running.node = NoNode /\ generator.rows # <<>>
    BY DEF TakeRow, Runs
  <1>2. Size \in Nat /\ stack \in Seq(Frames(Size)) /\ Rows
    BY TreeTypes DEF Typed
  <1>3. PICK r : r = Running
    OBVIOUS
  <1>4. r \in Frames(Size) /\ r.call = "populate"
    BY <1>1, <1>2, <1>3, RunningFrame
  <1>5. c \in Seq(1 .. Size)
    BY <1>3, <1>4, FrameFields
  <1>6. PICK row : row = Head(generator.rows)
    OBVIOUS
  <1>7. row.level \in Nat
    <2>1. PICK X : generator.rows \in Seq(X)
      BY <1>2 DEF Rows
    <2>2. 1 \in DOMAIN generator.rows /\ row = generator.rows[1]
      BY <1>1, <1>6, <2>1
    <2> QED BY <1>2, <2>2 DEF Rows
  <1>8. PICK depth : depth = IF row.level < Len(c) THEN row.level ELSE Len(c)
    OBVIOUS
  <1>9. Len(c) \in Nat /\ depth \in 0 .. Len(c)
    BY <1>5, <1>7, <1>8
  <1>10. PICK parent : parent = IF depth > 0 THEN c[depth] ELSE NoNode
    OBVIOUS
  <1>11. parent \in 0 .. Size
    <2>1. CASE depth > 0
      <3>1. depth \in 1 .. Len(c)
        BY <1>9, <2>1
      <3>2. c[depth] \in 1 .. Size
        BY <1>2, <1>5, <1>9, <3>1, NewPrevNodes
      <3> QED BY <1>2, <1>10, <2>1, <3>2
    <2>2. CASE ~(depth > 0)
      BY <1>2, <1>10, <2>2 DEF NoNode
    <2> QED BY <2>1, <2>2
  <1>12. PICK d : d = Append(SubSeq(c, 1, depth), m)
    OBVIOUS
  <1>13. PICK f : f = [r EXCEPT !.node = m, !.prev_nodes = d]
    OBVIOUS
  <1>14. Appended(parent, row) /\ Becomes(f)
    <2>1. Appended(parent, row)
      BY <1>3, <1>6, <1>8, <1>10 DEF TakeRow
    <2>2. r \in [call : {"populate"}, function : Callers, node : 0 .. Size, strict : BOOLEAN, prev_nodes : Seq(1 .. Size)]
      BY <1>4, FrameFields
    <2>3. Becomes([r EXCEPT !.node = m, !.prev_nodes = Append(SubSeq(r.prev_nodes, 1, depth), m)])
      BY <1>3, <1>6, <1>8 DEF TakeRow, PrevNodes, Size
    <2> QED BY <1>3, <1>12, <1>13, <2>1, <2>3
  <1>15. d \in Seq(1 .. m)
    BY <1>2, <1>5, <1>9, <1>12, NewPrevNodes
  <1>16. f \in Frames(m) /\ f.call = "populate" /\ f.node = m /\ f.prev_nodes = d
    <2>1. PICK N : N = Size
      OBVIOUS
    <2>2. N \in Nat /\ r \in Frames(N) /\ r.call = "populate" /\ m = N + 1 /\ d \in Seq(1 .. m)
      BY <1>2, <1>4, <1>15, <2>1
    <2>3. PICK P, Q : P = Seq(1 .. N) /\ Q = Seq(1 .. m)
      OBVIOUS
    <2>4. r \in [call : {"populate"}, function : Callers, node : 0 .. N, strict : BOOLEAN, prev_nodes : P]
      BY <2>2, <2>3, FrameFields
    <2>5. m \in 0 .. m /\ d \in Q
      BY <2>2, <2>3
    <2>6. f \in [call : {"populate"}, function : Callers, node : 0 .. m, strict : BOOLEAN, prev_nodes : Q]
      BY <1>13, <2>4, <2>5
    <2>7. f.call = "populate" /\ f.node = m /\ f.prev_nodes = d
      BY <1>13, <2>4
    <2> QED BY <2>3, <2>6, <2>7 DEF Frames
  <1>17. Takes(c, depth, parent, row, f, m)
    BY <1>10, <1>12, <1>14, <1>16 DEF Takes
  <1> QED BY <1>1, <1>5, <1>9, <1>11, <1>16, <1>17 DEF TakeRow

\* The function has returned: the frame that runs is without a node, its row is counted.
LEMMA HasProceeded ==
  ASSUME Typed, InFunction, Proceed
  PROVE  /\ stack # <<>> /\ raised = "no" /\ Running.node # NoNode
         /\ \E f \in Frames(Size) :
              /\ Becomes(f) /\ f.call = Running.call /\ f.node = NoNode
              /\ f.call = "populate" => f.prev_nodes = Running.prev_nodes
         /\ rowCount' = IF Running.call = "populate" THEN rowCount + 1 ELSE rowCount
         /\ UNCHANGED <<nodes, kids, generator, populated, raised, inserted, failures>>
  <1>1. stack # <<>> /\ raised = "no" /\ Running.node # NoNode
    BY DEF InFunction
  <1>2. PICK r, N : r = Running /\ N = Size
    OBVIOUS
  <1>3. N \in Nat /\ stack \in Seq(Frames(N))
    BY <1>2, TreeTypes DEF Typed
  <1>4. r \in Frames(N)
    BY <1>1, <1>2, <1>3, RunningFrame
  <1>5. r.call \in {"populate", "visit"} /\ r.node \in 0 .. N
    BY <1>4, FrameFields
  <1>6. CASE r.call = "populate"
    <2>1. PICK f : f = [r EXCEPT !.node = NoNode]
      OBVIOUS
    <2>2. Becomes(f) /\ rowCount' = rowCount + 1
      BY <1>2, <1>6, <2>1 DEF Proceed
    <2>3. PICK P : P = Seq(1 .. N)
      OBVIOUS
    <2>4. r \in [call : {"populate"}, function : Callers, node : 0 .. N, strict : BOOLEAN, prev_nodes : P]
      BY <1>4, <1>6, <2>3, FrameFields
    <2>5. 0 \in 0 .. N
      BY <1>3
    <2>6. f \in [call : {"populate"}, function : Callers, node : 0 .. N, strict : BOOLEAN, prev_nodes : P]
      BY <2>1, <2>4, <2>5 DEF NoNode
    <2>7. f.call = "populate" /\ f.node = NoNode /\ f.prev_nodes = r.prev_nodes
      BY <2>1, <2>4
    <2>8. f \in Frames(N)
      BY <2>3, <2>6 DEF Frames
    <2>9. /\ rowCount' = IF Running.call = "populate" THEN rowCount + 1 ELSE rowCount
          /\ UNCHANGED <<nodes, kids, generator, populated, raised, inserted, failures>>
      BY <1>2, <1>6, <2>2 DEF Proceed, histories
    <2>10. \E g \in Frames(Size) :
              /\ Becomes(g) /\ g.call = Running.call /\ g.node = NoNode
              /\ g.call = "populate" => g.prev_nodes = Running.prev_nodes
      <3>1. Becomes(f)
        BY <2>2
      <3>2. f \in Frames(Size) /\ f.call = Running.call /\ f.prev_nodes = Running.prev_nodes
        BY <1>2, <1>6, <2>7, <2>8
      <3> QED BY <3>1, <3>2, <2>7
    <2> QED BY <1>1, <2>9, <2>10
  <1>7. CASE r.call = "visit"
    <2>1. PICK L : L = [of : 0 .. N, next : Nat \ {0}]
      OBVIOUS
    <2>2. PICK ls : ls = Seq(L)
      OBVIOUS
    <2>3. r \in [call : {"visit"}, function : Callers, node : 0 .. N, from : 0 .. N, lists : ls, entering : BOOLEAN]
      BY <1>4, <1>7, <2>1, <2>2, FrameFields
    <2>4. PICK c : c = IF r.entering THEN Append(r.lists, In(r.node)) ELSE r.lists
      OBVIOUS
    <2>5. c \in ls
      <3>1. In(r.node) \in L
        BY <1>5, <2>1 DEF In
      <3>2. r.lists \in Seq(L)
        BY <2>2, <2>3
      <3>3. Append(r.lists, In(r.node)) \in Seq(L)
        BY <3>1, <3>2
      <3> QED BY <2>2, <2>4, <3>2, <3>3
    <2>6. PICK f : f = [r EXCEPT !.node = NoNode, !.entering = FALSE, !.lists = c]
      OBVIOUS
    <2>7. Becomes(f) /\ rowCount' = rowCount
      <3>1. r.call # "populate"
        BY <1>7
      <3>2. /\ Becomes([r EXCEPT !.node = NoNode, !.entering = FALSE,
                          !.lists = IF r.entering THEN Append(@, In(r.node)) ELSE @])
            /\ rowCount' = rowCount
        BY <1>2, <3>1 DEF Proceed
      <3> QED BY <2>4, <2>6, <3>2
    <2>8. 0 \in 0 .. N
      BY <1>3
    <2>9. f \in [call : {"visit"}, function : Callers, node : 0 .. N, from : 0 .. N, lists : ls, entering : BOOLEAN]
      BY <2>3, <2>5, <2>6, <2>8 DEF NoNode
    <2>10. f.call = "visit" /\ f.node = NoNode
      BY <2>3, <2>6
    <2>11. f \in Frames(N)
      BY <2>1, <2>2, <2>9 DEF Frames
    <2>12. /\ rowCount' = IF Running.call = "populate" THEN rowCount + 1 ELSE rowCount
           /\ UNCHANGED <<nodes, kids, generator, populated, raised, inserted, failures>>
      BY <1>2, <1>7, <2>7 DEF Proceed, histories
    <2>13. \E g \in Frames(Size) :
              /\ Becomes(g) /\ g.call = Running.call /\ g.node = NoNode
              /\ g.call = "populate" => g.prev_nodes = Running.prev_nodes
      <3>1. Becomes(f)
        BY <2>7
      <3>2. f \in Frames(Size) /\ f.call = Running.call /\ f.call # "populate"
        BY <1>2, <1>7, <2>10, <2>11
      <3> QED BY <3>1, <3>2, <2>10
    <2> QED BY <1>1, <2>12, <2>13
  <1> QED BY <1>5, <1>6, <1>7

\* visit() moves on: its frame becomes another, or it returns.
LEMMA VisitMoves ==
  ASSUME Typed, VisitStarts \/ VisitNext
  PROVE  /\ stack # <<>> /\ raised = "no" /\ Running.call = "visit"
         /\ \/ Returned
            \/ \E f \in Frames(Size) : Becomes(f) /\ f.call = "visit"
         /\ UNCHANGED <<gridVars, raised, histories>>
  <1>1. stack # <<>> /\ raised = "no" /\ Running.call = "visit"
    BY DEF VisitStarts, VisitNext, Runs
  <1>2. UNCHANGED <<gridVars, raised, histories>>
    BY DEF VisitStarts, VisitNext
  <1>3. PICK r, N : r = Running /\ N = Size
    OBVIOUS
  <1>4. N \in Nat /\ stack \in Seq(Frames(N))
    BY <1>3, TreeTypes DEF Typed
  <1>5. r \in Frames(N)
    BY <1>1, <1>3, <1>4, RunningFrame
  <1>6. PICK L : L = [of : 0 .. N, next : Nat \ {0}]
    OBVIOUS
  <1>7. PICK ls : ls = Seq(L)
    OBVIOUS
  <1>8. r \in [call : {"visit"}, function : Callers, node : 0 .. N, from : 0 .. N, lists : ls, entering : BOOLEAN]
    BY <1>1, <1>3, <1>5, <1>6, <1>7, FrameFields
  <1>9. CASE VisitStarts
    <2>1. ListAt(Path(r.from)) = r.from
      BY <1>3, <1>8, EachFound DEF Typed
    <2>2. PICK c : c = <<In(r.from)>>
      OBVIOUS
    <2>3. c \in ls
      <3>1. In(r.from) \in L
        BY <1>6, <1>8 DEF In
      <3> QED BY <1>7, <2>2, <3>1
    <2>4. PICK f : f = [r EXCEPT !.node = r.from, !.lists = c]
      OBVIOUS
    <2>5. Becomes(f)
      BY <1>3, <1>9, <2>1, <2>2, <2>4 DEF VisitStarts
    <2>6. /\ f \in [call : {"visit"}, function : Callers, node : 0 .. N, from : 0 .. N, lists : ls, entering : BOOLEAN]
          /\ f.call = "visit"
      BY <1>8, <2>3, <2>4
    <2>7. f \in Frames(N)
      BY <1>6, <1>7, <2>6 DEF Frames
    <2> QED BY <1>1, <1>2, <1>3, <2>5, <2>6, <2>7
  <1>10. CASE VisitNext
    <2>1. PICK lists, here : lists = r.lists /\ here = Last(lists)
      OBVIOUS
    <2>2. lists # <<>> /\ lists \in Seq(L)
      BY <1>3, <1>7, <1>8, <1>10, <2>1 DEF VisitNext
    <2>3. here \in L /\ Front(lists) \in Seq(L)
      BY <2>1, <2>2, FrontOf
    <2>4. CASE here.next <= Len(Kids(here.of))
      <3>1. PICK k, next, c : /\ k = Kids(here.of)[here.next] /\ next = [here EXCEPT !.next = @ + 1]
                              /\ c = Append(Front(lists), next)
        OBVIOUS
      <3>2. here.of \in 0 .. N /\ here.next \in Nat \ {0}
        BY <1>6, <2>3
      <3>3. k \in 0 .. N
        <4>1. PICK o, i : o = here.of /\ i = here.next
          OBVIOUS
        <4>2. o \in 0 .. Size /\ Len(Kids(o)) \in Nat
          BY <1>3, <3>2, <4>1, TreeTypes DEF Typed
        <4>3. i \in 1 .. Len(Kids(o))
          BY <2>4, <3>2, <4>1, <4>2
        <4>4. Kids(o)[i] \in 1 .. Size
          BY <4>2, <4>3, TreeTypes DEF Typed
        <4> QED BY <1>3, <1>4, <3>1, <4>1, <4>4
      <3>4. next \in L
        BY <1>6, <2>3, <3>1
      <3>5. c \in ls
        BY <1>7, <2>3, <3>1, <3>4
      <3>6. PICK f : f = [r EXCEPT !.node = k, !.entering = TRUE, !.lists = c]
        OBVIOUS
      <3>7. Becomes(f)
        BY <1>3, <1>10, <2>1, <2>4, <3>1, <3>6 DEF VisitNext
      <3>8. /\ f \in [call : {"visit"}, function : Callers, node : 0 .. N, from : 0 .. N, lists : ls, entering : BOOLEAN]
            /\ f.call = "visit"
        BY <1>8, <3>3, <3>5, <3>6
      <3>9. f \in Frames(N)
        BY <1>6, <1>7, <3>8 DEF Frames
      <3> QED BY <1>1, <1>2, <1>3, <3>7, <3>8, <3>9
    <2>5. CASE ~(here.next <= Len(Kids(here.of))) /\ Len(lists) > 1
      <3>1. PICK f : f = [r EXCEPT !.lists = Front(lists)]
        OBVIOUS
      <3>2. Becomes(f)
        BY <1>3, <1>10, <2>1, <2>5, <3>1 DEF VisitNext
      <3>3. Front(lists) \in ls
        BY <1>7, <2>3
      <3>4. /\ f \in [call : {"visit"}, function : Callers, node : 0 .. N, from : 0 .. N, lists : ls, entering : BOOLEAN]
            /\ f.call = "visit"
        BY <1>8, <3>1, <3>3
      <3>5. f \in Frames(N)
        BY <1>6, <1>7, <3>4 DEF Frames
      <3> QED BY <1>1, <1>2, <1>3, <3>2, <3>4, <3>5
    <2>6. CASE ~(here.next <= Len(Kids(here.of))) /\ ~(Len(lists) > 1)
      <3>1. Returned
        BY <1>3, <1>10, <2>1, <2>6 DEF VisitNext
      <3> QED BY <1>1, <1>2, <3>1
    <2> QED BY <2>4, <2>5, <2>6
  <1> QED BY <1>9, <1>10

-----------------------------------------------------------------------------
(* The type invariant *)

\* What a step does to the tree.
TreeMoves ==
  \/ \E new : Called(new) /\ raised' = "no"
  \/ \E parent \in 0 .. Size : \E position \in 0 .. Len(Kids(parent)) : Insert(parent, position)
  \/ TakeRow
  \/ GeneratorEnds
  \/ GeneratorRaises
  \/ VisitStarts \/ VisitNext
  \/ InFunction /\ Proceed
  \/ InFunction /\ Raise
  \/ FunctionCatches
  \/ Unwind

\* Each step does one of these, once the timeliner has sorted what it has collected;
\* before that the tree stays as it is.
LEMMA StepsOfTree ==
  ASSUME Typed, [Next]_vars
  PROVE  \/ TreeMoves /\ ~Collecting /\ data = <<>> /\ UNCHANGED timelinerVars
         \/ Collecting /\ UNCHANGED renderVars
         \/ YieldRow /\ data # <<>>
         \/ UNCHANGED vars
  <1>1. CASE Collect /\ UNCHANGED renderVars
    BY <1>1 DEF Collect, TakeTime, PluginRaises, PluginEnds, ListEntry, Listed
  <1>2. CASE YieldRow
    BY <1>2 DEF YieldRow
  <1>3. CASE ~Collecting /\ data = <<>> /\ RenderStep /\ UNCHANGED timelinerVars
    <2>1. TreeNodes \cup {NoNode} = 0 .. Size
      <3>1. Size \in Nat /\ TreeNodes = 1 .. Size
        BY TreeTypes DEF Typed
      <3> QED BY <3>1 DEF NoNode
    <2>2. Tree /\ stack \in Seq(Frames(Size))
      BY DEF Typed
    <2>3. CASE \/ \E strict \in BOOLEAN : Populate("user", strict)
               \/ \E node \in TreeNodes \cup {NoNode} : Visit("user", node)
               \/ \E options \in Renderings : Render(options)
      BY <1>3, <2>2, <2>3, CallsPush DEF TreeMoves
    <2>4. CASE \E parent \in TreeNodes \cup {NoNode} : \E position \in 0..Len(Kids(parent)) : Insert(parent, position)
      BY <1>3, <2>1, <2>4 DEF TreeMoves
    <2>5. CASE Skip \/ PrintFlat \/ PrintAligned \/ PrintNested \/ PrintEdge \/ FunctionReturns
      <3>1. InFunction /\ Proceed
        BY <2>5 DEF Skip, PrintFlat, PrintAligned, PrintNested, PrintEdge, Printed, FunctionReturns, Rendered
      <3> QED BY <1>3, <3>1 DEF TreeMoves
    <2>6. CASE RenderRaises \/ FunctionRaises
      <3>1. InFunction /\ Raise
        BY <2>6 DEF RenderRaises, FunctionRaises, Rendered
      <3> QED BY <1>3, <3>1 DEF TreeMoves
    <2>7. CASE TakeRow \/ GeneratorEnds \/ GeneratorRaises \/ VisitStarts \/ VisitNext \/ FunctionCatches \/ Unwind
      BY <1>3, <2>7 DEF TreeMoves
    <2> QED BY <1>3, <2>3, <2>4, <2>5, <2>6, <2>7 DEF RenderStep, TreeStep
  <1>4. CASE UNCHANGED vars
    BY <1>4
  <1> QED BY <1>1, <1>2, <1>3, <1>4 DEF Next

\* What the plugin has still to yield stays what it was, or becomes less or more.
LEMMA RowsStay ==
  ASSUME Rows, generator' = generator
  PROVE  Rows'
  BY DEF Rows

\* The type invariant holds initially.
LEMMA TypedAtFirst ==
  ASSUME Init
  PROVE  Typed
  <1>1. nodes = <<>> /\ kids = <<(<<>>)>> /\ populated = FALSE /\ rowCount = 0 /\ stack = <<>> /\ inserted = {}
    BY DEF Init, RenderInit, TreeInit
  <1>2. Tree /\ Size = 0
    <2>1. Size = 0 /\ nodes \in Seq({}) /\ 1 .. Size = {}
      BY <1>1 DEF Size
    <2>2. PICK V, e : V = Seq(Nat) /\ e = <<>>
      OBVIOUS
    <2>3. e \in V /\ kids = <<e>>
      BY <1>1, <2>2
    <2>4. kids \in Seq(V) /\ Len(kids) = 1 /\ kids[1] = e
      BY <2>3
    <2>5. \A n \in 0 .. Size : DOMAIN Kids(n) = {}
      BY <2>1, <2>2, <2>4 DEF Kids
    <2> QED BY <2>1, <2>2, <2>4, <2>5 DEF Tree
  <1>3. stack \in Seq(Frames(Size))
    BY <1>1
  <1>4. Rows
    <2>1. PICK R : R = [level : Nat, cells : Seq(Nat)]
      OBVIOUS
    <2>2. generator \in [rows : Seq(R), fails : BOOLEAN]
      <3>1. CASE generator \in Sources
        BY <2>1, <3>1, SourcesAreGenerators DEF Generators
      <3>2. CASE generator = [rows |-> <<>>, fails |-> FALSE]
        BY <3>2
      <3> QED BY <3>1, <3>2 DEF Init
    <2>3. generator.rows \in Seq(R) /\ generator.fails \in BOOLEAN /\ DOMAIN generator = {"rows", "fails"}
      BY <2>2
    <2>4. \A i \in DOMAIN generator.rows : generator.rows[i] \in R
      BY <2>3
    <2> QED BY <2>1, <2>3, <2>4 DEF Rows
  <1> QED BY <1>1, <1>2, <1>3, <1>4 DEF Typed, Idle

\* A step that leaves the tree alone, and the plugin, preserves the type invariant,
\* if the frames do.
LEMMA TypedStays ==
  ASSUME Typed, nodes' = nodes, kids' = kids, Rows', stack' \in Seq(Frames(Size)),
         rowCount' \in Nat, populated' \in BOOLEAN, inserted' = inserted, Idle'
  PROVE  Typed'
  <1>1. Tree' /\ Size' = Size
    BY TreeStays DEF Typed
  <1>2. stack' \in Seq(Frames(Size'))
    BY <1>1
  <1>3. stack' \in Seq(Frames(Size)')
    BY <1>2 DEF Frames, Callers
  <1> QED BY <1>1, <1>3 DEF Typed

\* The type invariant holds of the tree after each thing that happens to it.
LEMMA TypedKeptByMoves ==
  ASSUME Typed, TreeMoves, Idle'
  PROVE  Typed'
  <1>1. /\ Size \in Nat /\ stack \in Seq(Frames(Size)) /\ rowCount \in Nat /\ populated \in BOOLEAN
        /\ inserted \subseteq 1 .. Size /\ Rows /\ Tree
    BY TreeTypes DEF Typed
  <1>2. PICK F : F = Frames(Size)
    OBVIOUS
  <1>3. stack \in Seq(F)
    BY <1>1, <1>2
  <1>4. ASSUME NEW new, Called(new) PROVE Typed'
    <2>1. /\ nodes' = nodes /\ kids' = kids /\ generator' = generator /\ rowCount' = rowCount
          /\ populated' = populated /\ inserted' = inserted
      BY <1>4 DEF Called, gridVars, histories
    <2>2. new \in Seq(F) /\ stack' = stack \o new
      BY <1>2, <1>4 DEF Called
    <2>3. stack' \in Seq(F)
      BY <1>3, <2>2
    <2> QED BY <1>1, <1>2, <2>1, <2>3, RowsStay, TypedStays
  <1>5. ASSUME NEW parent \in 0 .. Size, NEW position \in 0 .. Len(Kids(parent)), Insert(parent, position)
        PROVE  Typed'
    <2>1. InsertedAt(parent, position) /\ UNCHANGED <<generator, populated, rowCount, stack>> /\ stack = <<>>
      BY <1>5 DEF Insert
    <2>2. PICK m, place : m = Size + 1 /\ place = Append(Path(parent), position)
      OBVIOUS
    <2>3. Tree' /\ Size' = m /\ inserted' = inserted \cup {m}
      BY <1>1, <2>1, <2>2, InsertedTree
    <2>4. inserted' \subseteq 1 .. Size'
      BY <1>1, <2>2, <2>3
    <2>5. Rows' /\ stack' \in Seq(Frames(Size)')
      BY <1>1, <2>1, RowsStay
    <2> QED BY <1>1, <2>1, <2>3, <2>4, <2>5 DEF Typed
  <1>6. CASE TakeRow
    <2>1. PICK m, c : m = Size + 1 /\ c = Running.prev_nodes
      OBVIOUS
    <2>2. /\ generator.rows # <<>> /\ generator' = [generator EXCEPT !.rows = Tail(@)] /\ stack # <<>>
          /\ \E depth : \E parent \in 0 .. Size : \E row : \E f \in Frames(m) : Takes(c, depth, parent, row, f, m)
      BY <1>6, <2>1, RowTaken
    <2>3. PICK depth : \E parent \in 0 .. Size : \E row : \E f \in Frames(m) : Takes(c, depth, parent, row, f, m)
      BY <2>2
    <2>4. PICK parent \in 0 .. Size : \E row : \E f \in Frames(m) : Takes(c, depth, parent, row, f, m)
      BY <2>3
    <2>5. PICK row : \E f \in Frames(m) : Takes(c, depth, parent, row, f, m)
      BY <2>4
    <2>6. PICK f \in Frames(m) : Takes(c, depth, parent, row, f, m)
      BY <2>5
    <2>7. Appended(parent, row) /\ Becomes(f)
      BY <2>6 DEF Takes
    <2>8. Tree' /\ Size' = m
      BY <1>1, <2>1, <2>7, AppendedTree
    <2>9. UNCHANGED <<populated, rowCount, inserted>>
      BY <1>6 DEF TakeRow, histories
    <2>10. stack' \in Seq(Frames(Size)')
      <3>1. PICK G : G = Frames(m)
        OBVIOUS
      <3>2. F \subseteq G
        BY <1>1, <1>2, <2>1, <3>1, FramesGrow
      <3>3. stack \in Seq(G) /\ f \in G
        BY <1>3, <2>7, <3>1, <3>2
      <3>4. stack' \in Seq(G)
        BY <2>2, <2>7, <3>3, FrameBecomes
      <3>5. stack' \in Seq(Frames(Size'))
        BY <2>8, <3>1, <3>4
      <3> QED BY <3>5 DEF Frames, Callers
    <2>11. Rows'
      <3>1. PICK R, X : R = generator.rows /\ R \in Seq(X)
        BY <1>1 DEF Rows
      <3>2. generator'.rows = Tail(R) /\ generator'.fails = generator.fails /\ DOMAIN generator' = DOMAIN generator
        BY <1>1, <2>2, <3>1 DEF Rows
      <3>3. /\ Tail(R) \in Seq(X) /\ Len(Tail(R)) = Len(R) - 1 /\ Len(R) \in Nat
            /\ \A i \in 1 .. Len(R) - 1 : Tail(R)[i] = R[i + 1]
        BY <2>2, <3>1, ItemsOfRest
      <3>4. \A i \in 1 .. Len(R) : R[i].level \in Nat
        BY <1>1, <3>1 DEF Rows
      <3>5. \A i \in 1 .. Len(R) - 1 : i + 1 \in 1 .. Len(R)
        BY <3>3
      <3>6. \A i \in 1 .. Len(R) - 1 : Tail(R)[i].level \in Nat
        BY <3>3, <3>4, <3>5
      <3>7. DOMAIN Tail(R) = 1 .. Len(R) - 1
        BY <3>3
      <3> QED BY <1>1, <3>2, <3>3, <3>6, <3>7 DEF Rows
    <2>12. inserted' \subseteq 1 .. Size'
      BY <1>1, <2>1, <2>8, <2>9
    <2> QED BY <1>1, <2>8, <2>9, <2>10, <2>11, <2>12 DEF Typed
  <1>7. CASE GeneratorEnds
    <2>1. stack # <<>> /\ Returned /\ populated' = TRUE /\ UNCHANGED <<nodes, kids, generator, rowCount, inserted>>
      BY <1>7 DEF GeneratorEnds, Runs, histories
    <2>2. stack' \in Seq(F)
      BY <1>3, <2>1, FrameReturns
    <2> QED BY <1>1, <1>2, <2>1, <2>2, RowsStay, TypedStays
  <1>8. CASE GeneratorRaises
    <2>1. /\ generator' = [generator EXCEPT !.fails = FALSE]
          /\ UNCHANGED <<nodes, kids, populated, stack, rowCount, inserted>>
      BY <1>8 DEF GeneratorRaises
    <2>2. Rows'
      BY <1>1, <2>1 DEF Rows
    <2> QED BY <1>1, <2>1, <2>2, TypedStays
  <1>9. CASE VisitStarts \/ VisitNext
    <2>1. stack # <<>> /\ UNCHANGED <<gridVars, raised, histories>>
      BY <1>9, VisitMoves
    <2>2. stack' \in Seq(F)
      <3>1. CASE Returned
        BY <1>3, <2>1, <3>1, FrameReturns
      <3>2. CASE \E f \in Frames(Size) : Becomes(f)
        <4>1. PICK f \in F : Becomes(f)
          BY <1>2, <3>2
        <4> QED BY <1>3, <2>1, <4>1, FrameBecomes
      <3> QED BY <1>9, <3>1, <3>2, VisitMoves
    <2>3. /\ nodes' = nodes /\ kids' = kids /\ generator' = generator /\ rowCount' = rowCount
          /\ populated' = populated /\ inserted' = inserted
      BY <2>1 DEF gridVars, histories
    <2> QED BY <1>1, <1>2, <2>2, <2>3, RowsStay, TypedStays
  <1>10. CASE InFunction /\ Proceed
    <2>1. /\ stack # <<>> /\ rowCount' \in {rowCount, rowCount + 1}
          /\ UNCHANGED <<nodes, kids, generator, populated, inserted>>
      BY <1>10, HasProceeded
    <2>2. PICK f \in F : Becomes(f)
      BY <1>2, <1>10, HasProceeded
    <2>3. stack' \in Seq(F)
      BY <1>3, <2>1, <2>2, FrameBecomes
    <2> QED BY <1>1, <1>2, <2>1, <2>3, RowsStay, TypedStays
  <1>11. CASE (InFunction /\ Raise) \/ FunctionCatches
    <2>1. /\ nodes' = nodes /\ kids' = kids /\ generator' = generator /\ rowCount' = rowCount
          /\ populated' = populated /\ inserted' = inserted /\ stack' = stack
      BY <1>11 DEF Raise, FunctionCatches, gridVars
    <2> QED BY <1>1, <2>1, RowsStay, TypedStays
  <1>12. CASE Unwind
    <2>1. /\ stack # <<>> /\ Returned /\ UNCHANGED <<nodes, kids, generator, rowCount, inserted>>
      BY <1>12 DEF Unwind
    <2>2. populated' \in BOOLEAN
      BY <1>12 DEF Unwind
    <2>3. stack' \in Seq(F)
      BY <1>3, <2>1, FrameReturns
    <2> QED BY <1>1, <1>2, <2>1, <2>2, <2>3, RowsStay, TypedStays
  <1> QED BY <1>4, <1>5, <1>6, <1>7, <1>8, <1>9, <1>10, <1>11, <1>12 DEF TreeMoves

\* Every step preserves the type invariant.
LEMMA TypedKept ==
  ASSUME Typed, [Next]_vars
  PROVE  Typed'
  <1>1. CASE TreeMoves /\ ~Collecting /\ data = <<>> /\ UNCHANGED timelinerVars
    <2>1. Idle'
      BY <1>1 DEF Idle, Collecting, timelinerVars
    <2> QED BY <1>1, <2>1, TypedKeptByMoves
  <1>2. CASE (Collecting /\ UNCHANGED renderVars) \/ UNCHANGED vars
    <2>1. /\ nodes' = nodes /\ kids' = kids /\ generator' = generator /\ rowCount' = rowCount
          /\ populated' = populated /\ inserted' = inserted /\ stack' = stack
      BY <1>2 DEF vars, renderVars, treeVars, gridVars, histories
    <2>2. Idle'
      <3>1. CASE Collecting
        BY <2>1, <3>1 DEF Idle, Typed
      <3>2. CASE UNCHANGED vars
        <4>1. UNCHANGED timelinerVars
          BY <3>2 DEF vars
        <4> QED BY <2>1, <4>1 DEF Idle, Typed, Collecting, timelinerVars
      <3> QED BY <1>2, <3>1, <3>2
    <2> QED BY <2>1, <2>2, RowsStay, TypedStays DEF Typed
  <1>3. CASE YieldRow /\ data # <<>>
    <2>1. UNCHANGED <<nodes, kids, populated, rowCount, stack, inserted>>
      BY <1>3 DEF YieldRow, histories
    <2>2. Idle'
      BY <1>3, <2>1 DEF Idle, Typed
    <2>3. PICK row : generator' = [generator EXCEPT !.rows = Append(@, row)] /\ row.level = 0
      <3>1. PICK i \in DOMAIN data : generator' = [generator EXCEPT !.rows =
              Append(@, [level |-> 0, cells |-> data[i].key \o [t \in Types |-> data[i].times[t]]])]
        BY <1>3 DEF YieldRow
      <3>2. PICK row : row = [level |-> 0, cells |-> data[i].key \o [t \in Types |-> data[i].times[t]]]
        OBVIOUS
      <3>3. row.level = 0
        BY <3>2
      <3>4. generator' = [generator EXCEPT !.rows = Append(@, row)]
        BY <3>1, <3>2
      <3> QED BY <3>3, <3>4
    <2>4. Rows'
      <3>1. PICK R, X : R = generator.rows /\ R \in Seq(X)
        BY DEF Rows, Typed
      <3>2. PICK Y : Y = X \cup {row}
        OBVIOUS
      <3>3. R \in Seq(Y) /\ row \in Y
        BY <3>1, <3>2
      <3>4. /\ Append(R, row) \in Seq(Y) /\ Len(Append(R, row)) = Len(R) + 1
            /\ \A i \in 1 .. Len(R) : Append(R, row)[i] = R[i]
            /\ Append(R, row)[Len(R) + 1] = row
        BY <3>3, ItemsOfMore
      <3>5. /\ generator'.rows = Append(R, row) /\ generator'.fails = generator.fails
            /\ DOMAIN generator' = DOMAIN generator
        BY <2>3, <3>1 DEF Rows, Typed
      <3>6. \A i \in 1 .. Len(R) : R[i].level \in Nat
        BY <3>1 DEF Rows, Typed
      <3>7. \A i \in 1 .. Len(R) + 1 : Append(R, row)[i].level \in Nat
        <4>1. \A i \in 1 .. Len(R) + 1 : i \in 1 .. Len(R) \/ i = Len(R) + 1
          BY <3>1
        <4> QED BY <2>3, <3>4, <3>6, <4>1
      <3>8. DOMAIN Append(R, row) = 1 .. Len(R) + 1
        BY <3>4
      <3>9. generator.fails \in BOOLEAN /\ DOMAIN generator = {"rows", "fails"}
        BY DEF Rows, Typed
      <3> QED BY <3>4, <3>5, <3>7, <3>8, <3>9 DEF Rows
    <2> QED BY <2>1, <2>2, <2>4, TypedStays DEF Typed
  <1> QED BY <1>1, <1>2, <1>3, StepsOfTree

\* The tree is one, and what uses it has its type, whatever is done to it.
THEOREM TreeTyped == Spec => []Typed
  <1>1. Init => Typed
    BY TypedAtFirst
  <1>2. Typed /\ [Next]_vars => Typed'
    BY TypedKept
  <1> QED BY <1>1, <1>2, PTL DEF Spec

\* Every node is where its path says, under its parent, whatever rows come and wherever
\* rows are inserted.
THEOREM NodesAreAtTheirPaths == Spec => []NodesAtTheirPaths
  <1>1. Typed => NodesAtTheirPaths
    <2> SUFFICES ASSUME Typed PROVE NodesAtTheirPaths
      OBVIOUS
    <2>1. Tree /\ Size \in Nat /\ TreeNodes = 1 .. Size
      BY TreeTypes DEF Typed
    <2>2. TreeNodes \cup {NoNode} = 0 .. Size
      BY <2>1 DEF NoNode
    <2>3. \A n \in TreeNodes \cup {NoNode} : \A i \in DOMAIN Kids(n) :
            nodes[Kids(n)[i]].parent = n /\ nodes[Kids(n)[i]].path = Append(Path(n), i - 1)
      BY <2>1, <2>2 DEF Tree
    <2>4. \A n \in TreeNodes : ListAt(Path(n)) = n
      BY <2>1, <2>2, EachFound
    <2> QED BY <2>3, <2>4 DEF NodesAtTheirPaths
  <1> QED BY <1>1, TreeTyped, PTL

-----------------------------------------------------------------------------
(* Rows are counted *)

Exhausted == generator.rows = <<>> /\ ~generator.fails

\* Each row that was taken is counted, or its function runs, or its function has raised.
Counted ==
  /\ populated => Exhausted \/ "gave up" \in failures
  /\ rowCount + Cardinality(Pending) <= Size - Cardinality(inserted)
  /\ "function" \notin failures => rowCount + Cardinality(Pending) = Size - Cardinality(inserted)

\* The frames with a row that is not counted are finitely many, and the one that runs
\* may be one of them.
LEMMA PendingFrames ==
  ASSUME Typed
  PROVE  /\ IsFiniteSet(Pending) /\ Cardinality(Pending) \in Nat
         /\ stack = <<>> => Cardinality(Pending) = 0
         /\ stack # <<>> => (Len(stack) \in Pending <=> Running.call = "populate" /\ Running.node # NoNode)
  <1>1. PICK F : F = Frames(Size)
    OBVIOUS
  <1>2. stack \in Seq(F) /\ Len(stack) \in Nat /\ DOMAIN stack = 1 .. Len(stack)
    BY <1>1 DEF Typed
  <1>3. IsFiniteSet(1 .. Len(stack))
    BY <1>2, FS_Interval
  <1>4. Pending \subseteq 1 .. Len(stack)
    BY <1>2 DEF Pending
  <1>5. IsFiniteSet(Pending) /\ Cardinality(Pending) \in Nat
    BY <1>3, <1>4, FS_Subset, FS_CardinalityType
  <1>6. stack = <<>> => Cardinality(Pending) = 0
    <2> SUFFICES ASSUME stack = <<>> PROVE Cardinality(Pending) = 0
      OBVIOUS
    <2>1. Pending = {}
      BY DEF Pending
    <2> QED BY <2>1, FS_EmptySet
  <1>7. stack # <<>> => (Len(stack) \in Pending <=> Running.call = "populate" /\ Running.node # NoNode)
    <2> SUFFICES ASSUME stack # <<>>
                 PROVE  Len(stack) \in Pending <=> Running.call = "populate" /\ Running.node # NoNode
      OBVIOUS
    <2>1. Running = stack[Len(stack)] /\ Len(stack) \in DOMAIN stack
      BY <1>2, RunningFrame
    <2> QED BY <2>1 DEF Pending
  <1> QED BY <1>5, <1>6, <1>7

\* The rows that were inserted are finitely many.
LEMMA InsertedRows ==
  ASSUME Typed
  PROVE  IsFiniteSet(inserted) /\ Cardinality(inserted) \in Nat /\ Size \in Nat /\ rowCount \in Nat
  <1>1. Size \in Nat /\ inserted \subseteq 1 .. Size /\ rowCount \in Nat
    BY TreeTypes DEF Typed
  <1>2. IsFiniteSet(1 .. Size)
    BY <1>1, FS_Interval
  <1> QED BY <1>1, <1>2, FS_Subset, FS_CardinalityType

\* The frame that runs becomes one with an uncounted row, or one without.
LEMMA PendingBecomes ==
  ASSUME Typed, stack # <<>>, NEW n \in Nat, Size <= n, NEW f \in Frames(n), Becomes(f)
  PROVE  Cardinality(Pending)' = Cardinality(Pending)
           + (IF f.call = "populate" /\ f.node # NoNode THEN 1 ELSE 0)
           - (IF Running.call = "populate" /\ Running.node # NoNode THEN 1 ELSE 0)
  <1>1. PICK F : F = Frames(n)
    OBVIOUS
  <1>2. stack \in Seq(F)
    <2>1. PICK G : G = Frames(Size)
      OBVIOUS
    <2>2. G \subseteq F
      BY <1>1, <2>1, FramesGrow, TreeTypes DEF Typed
    <2>3. stack \in Seq(G)
      BY <2>1 DEF Typed
    <2> QED BY <2>2, <2>3
  <1>3. Pending' = (Pending \ {Len(stack)})
                         \cup (IF f.call = "populate" /\ f.node # NoNode THEN {Len(stack)} ELSE {})
    BY <1>1, <1>2, FrameBecomes
  <1>4. PICK P, l : P = Pending /\ l = Len(stack)
    OBVIOUS
  <1>5. /\ IsFiniteSet(P) /\ Cardinality(P) \in Nat
        /\ l \in P <=> Running.call = "populate" /\ Running.node # NoNode
    BY <1>4, PendingFrames
  <1>6. IsFiniteSet(P \ {l}) /\ Cardinality(P \ {l}) = IF l \in P THEN Cardinality(P) - 1 ELSE Cardinality(P)
    BY <1>5, FS_RemoveElement
  <1>7. Cardinality((P \ {l}) \cup {l}) = Cardinality(P \ {l}) + 1
    BY <1>6, FS_AddElement
  <1>8. (P \ {l}) \cup {} = P \ {l}
    OBVIOUS
  <1>9. CASE f.call = "populate" /\ f.node # NoNode
    <2>1. Pending' = (P \ {l}) \cup {l}
      BY <1>3, <1>4, <1>9
    <2>2. Cardinality(Pending') = Cardinality(P \ {l}) + 1
      BY <1>7, <2>1
    <2> QED BY <1>4, <1>5, <1>6, <1>9, <2>2
  <1>10. CASE ~(f.call = "populate" /\ f.node # NoNode)
    <2>1. Pending' = P \ {l}
      BY <1>3, <1>4, <1>8, <1>10
    <2>2. Cardinality(Pending') = Cardinality(P \ {l})
      BY <2>1
    <2> QED BY <1>4, <1>5, <1>6, <1>10, <2>2
  <1> QED BY <1>9, <1>10

\* The frame that runs returns.
LEMMA PendingReturns ==
  ASSUME Typed, stack # <<>>, Returned
  PROVE  Cardinality(Pending)' = Cardinality(Pending)
           - (IF Running.call = "populate" /\ Running.node # NoNode THEN 1 ELSE 0)
  <1>1. PICK F : F = Frames(Size)
    OBVIOUS
  <1>2. stack \in Seq(F)
    BY <1>1 DEF Typed
  <1>3. PICK P, l : P = Pending /\ l = Len(stack)
    OBVIOUS
  <1>4. Pending' = P \ {l}
    BY <1>2, <1>3, FrameReturns
  <1>5. /\ IsFiniteSet(P) /\ Cardinality(P) \in Nat
        /\ l \in P <=> Running.call = "populate" /\ Running.node # NoNode
    BY <1>3, PendingFrames
  <1>6. IsFiniteSet(P \ {l}) /\ Cardinality(P \ {l}) = IF l \in P THEN Cardinality(P) - 1 ELSE Cardinality(P)
    BY <1>5, FS_RemoveElement
  <1>7. Cardinality(Pending') = Cardinality(P \ {l})
    BY <1>4
  <1> QED BY <1>3, <1>5, <1>6, <1>7

\* Every step keeps the count.
LEMMA CountedKept ==
  ASSUME Typed, Counted, [Next]_vars
  PROVE  Counted'
  <1> DEFINE Balance == rowCount + Cardinality(Pending)
             Taken == Size - Cardinality(inserted)
  <1>1. Cardinality(inserted) \in Nat /\ Size \in Nat /\ rowCount \in Nat /\ Cardinality(Pending) \in Nat
    BY InsertedRows, PendingFrames
  <1>2. PICK F : F = Frames(Size) /\ stack \in Seq(F)
    BY DEF Typed
  <1>3. ASSUME UNCHANGED <<nodes, rowCount, inserted, stack>>
        PROVE  Balance' = Balance /\ Taken' = Taken
    BY <1>3 DEF Size, Pending
  <1>4. ASSUME UNCHANGED <<nodes, inserted>> PROVE Taken' = Taken
    BY <1>4 DEF Size
  <1>5. ASSUME NEW new, Called(new) PROVE Counted'
    <2>1. UNCHANGED <<nodes, rowCount, inserted, generator, populated, failures>>
      BY <1>5 DEF Called, gridVars, histories
    <2>2. Pending' = Pending
      <3>1. new \in Seq(F) /\ stack' = stack \o new /\ \A i \in DOMAIN new : new[i].node = NoNode
        BY <1>2, <1>5 DEF Called
      <3> QED BY <1>2, <3>1, FramesPushed
    <2>3. Cardinality(Pending)' = Cardinality(Pending)
      BY <2>2
    <2> QED BY <1>4, <2>1, <2>3 DEF Counted, Exhausted
  <1>6. ASSUME NEW parent \in 0 .. Size, NEW position \in 0 .. Len(Kids(parent)), Insert(parent, position)
        PROVE  Counted'
    <2>1. InsertedAt(parent, position) /\ UNCHANGED <<generator, populated, rowCount, stack, failures>>
      BY <1>6 DEF Insert
    <2>2. PICK m, place : m = Size + 1 /\ place = Append(Path(parent), position)
      OBVIOUS
    <2>3. Size' = m /\ inserted' = inserted \cup {m}
      BY <2>1, <2>2, InsertedTree DEF Typed
    <2>4. m \notin inserted
      BY <1>1, <2>2 DEF Typed
    <2>5. Cardinality(inserted') = Cardinality(inserted) + 1
      <3>1. PICK S : S = inserted
        OBVIOUS
      <3>2. IsFiniteSet(S) /\ m \notin S
        BY <2>4, <3>1, InsertedRows
      <3>3. Cardinality(S \cup {m}) = Cardinality(S) + 1
        BY <3>2, FS_AddElement
      <3> QED BY <2>3, <3>1, <3>3
    <2>6. Cardinality(Pending)' = Cardinality(Pending)
      BY <2>1 DEF Pending
    <2>7. Taken' = Taken
      BY <1>1, <2>2, <2>3, <2>5
    <2> QED BY <2>1, <2>6, <2>7 DEF Counted, Exhausted
  <1>7. CASE TakeRow
    <2>1. PICK m, c : m = Size + 1 /\ c = Running.prev_nodes
      OBVIOUS
    <2>2. /\ generator.rows # <<>> /\ stack # <<>> /\ Running.node = NoNode
          /\ \E depth : \E parent \in 0 .. Size : \E row : \E f \in Frames(m) : Takes(c, depth, parent, row, f, m)
      BY <1>7, <2>1, RowTaken
    <2>15. PICK depth : \E parent \in 0 .. Size : \E row : \E f \in Frames(m) : Takes(c, depth, parent, row, f, m)
      BY <2>2
    <2>3. PICK parent \in 0 .. Size : \E row : \E f \in Frames(m) : Takes(c, depth, parent, row, f, m)
      BY <2>15
    <2>4. PICK row : \E f \in Frames(m) : Takes(c, depth, parent, row, f, m)
      BY <2>3
    <2>16. PICK f \in Frames(m) : Takes(c, depth, parent, row, f, m)
      BY <2>4
    <2>5. Appended(parent, row) /\ Becomes(f) /\ f.call = "populate" /\ f.node = m
      BY <2>16 DEF Takes
    <2>6. Size' = m
      BY <2>1, <2>5, AppendedTree DEF Typed
    <2>7. UNCHANGED <<populated, rowCount, inserted, failures>>
      BY <1>7 DEF TakeRow, histories
    <2>8. m \in Nat /\ Size <= m /\ m # NoNode
      BY <1>1, <2>1 DEF NoNode
    <2>9. Cardinality(Pending)' = Cardinality(Pending) + 1 - 0
      BY <1>1, <2>2, <2>5, <2>8, PendingBecomes
    <2>10. populated => "gave up" \in failures
      BY <2>2 DEF Counted, Exhausted
    <2>11. Balance' = Balance + 1 /\ Taken' = Taken + 1
      BY <1>1, <2>1, <2>6, <2>7, <2>9
    <2>12. Balance <= Taken /\ ("function" \notin failures => Balance = Taken)
      BY DEF Counted
    <2>14. Balance \in Int /\ Taken \in Int
      BY <1>1
    <2>13. Balance' <= Taken' /\ ("function" \notin failures' => Balance' = Taken')
      <3> HIDE DEF Balance, Taken
      <3> QED BY <2>7, <2>11, <2>12, <2>14
    <2> QED BY <2>7, <2>10, <2>13 DEF Counted
  <1>8. CASE GeneratorEnds
    <2>1. /\ stack # <<>> /\ Running.node = NoNode /\ Returned /\ generator.rows = <<>> /\ ~generator.fails
          /\ UNCHANGED <<nodes, generator, rowCount, inserted, failures>>
      BY <1>8 DEF GeneratorEnds, Runs, histories
    <2>2. Cardinality(Pending)' = Cardinality(Pending) - 0
      BY <2>1, PendingReturns
    <2>3. Exhausted'
      BY <2>1 DEF Exhausted
    <2>4. Balance' = Balance
      BY <1>1, <2>1, <2>2
    <2> QED BY <1>4, <2>1, <2>3, <2>4 DEF Counted
  <1>9. CASE GeneratorRaises
    <2>1. /\ generator.rows = <<>> /\ generator' = [generator EXCEPT !.fails = FALSE]
          /\ UNCHANGED <<nodes, rowCount, inserted, stack>> /\ failures' = failures \cup {"generator"}
      BY <1>9 DEF GeneratorRaises
    <2>2. Exhausted'
      BY <2>1 DEF Exhausted, Typed, Rows
    <2>3. "function" \in failures' <=> "function" \in failures
      BY <2>1
    <2> QED BY <1>3, <2>1, <2>2, <2>3 DEF Counted
  <1>10. CASE VisitStarts \/ VisitNext
    <2>1. /\ stack # <<>> /\ Running.call = "visit"
          /\ UNCHANGED <<nodes, generator, populated, rowCount, inserted, failures>>
      BY <1>10, VisitMoves DEF gridVars, histories
    <2>2. Cardinality(Pending)' = Cardinality(Pending)
      <3>1. CASE Returned
        BY <1>1, <2>1, <3>1, PendingReturns
      <3>2. CASE \E f \in Frames(Size) : Becomes(f) /\ f.call = "visit"
        BY <1>1, <2>1, <3>2, PendingBecomes
      <3> QED BY <1>10, <3>1, <3>2, VisitMoves
    <2> QED BY <1>4, <2>1, <2>2 DEF Counted, Exhausted
  <1>11. CASE InFunction /\ Proceed
    <2>1. /\ stack # <<>> /\ Running.node # NoNode
          /\ UNCHANGED <<nodes, generator, populated, inserted, failures>>
          /\ rowCount' = IF Running.call = "populate" THEN rowCount + 1 ELSE rowCount
      BY <1>11, HasProceeded
    <2>2. PICK f \in Frames(Size) : Becomes(f) /\ f.node = NoNode
      BY <1>11, HasProceeded
    <2>3. Cardinality(Pending)' = Cardinality(Pending) + 0 - (IF Running.call = "populate" THEN 1 ELSE 0)
      BY <1>1, <2>1, <2>2, PendingBecomes
    <2>4. Balance' = Balance
      BY <1>1, <2>1, <2>3
    <2> QED BY <1>4, <2>1, <2>4 DEF Counted, Exhausted
  <1>12. CASE InFunction /\ Raise
    <2>1. UNCHANGED <<nodes, generator, populated, rowCount, inserted, stack>> /\ failures' = failures \cup {"function"}
      BY <1>12 DEF Raise, gridVars
    <2> QED BY <1>3, <2>1 DEF Counted, Exhausted
  <1>13. CASE FunctionCatches
    <2>1. UNCHANGED <<nodes, generator, populated, rowCount, inserted, stack>> /\ failures' = failures \cup {"went on"}
      BY <1>13 DEF FunctionCatches, gridVars
    <2> QED BY <1>3, <2>1 DEF Counted, Exhausted
  <1>14. CASE Unwind
    <2>1. stack # <<>> /\ Returned /\ UNCHANGED <<nodes, generator, rowCount, inserted>>
      BY <1>14 DEF Unwind
    <2>2. /\ failures \subseteq failures'
          /\ populated' => populated \/ "gave up" \in failures'
          /\ Running.node # NoNode => "function" \in failures'
      BY <1>14 DEF Unwind
    <2>3. Cardinality(Pending)' = Cardinality(Pending)
             - (IF Running.call = "populate" /\ Running.node # NoNode THEN 1 ELSE 0)
      BY <2>1, PendingReturns
    <2>4. Balance' <= Balance /\ (Running.node = NoNode => Balance' = Balance) /\ Balance' \in Int
      BY <1>1, <2>1, <2>3
    <2>5. Taken' = Taken /\ Balance \in Int /\ Taken \in Int
      BY <1>1, <1>4, <2>1
    <2>6. populated' => Exhausted' \/ "gave up" \in failures'
      BY <2>1, <2>2 DEF Counted, Exhausted
    <2>7. Balance' <= Taken'
      <3>1. Balance <= Taken
        BY DEF Counted
      <3> HIDE DEF Balance, Taken
      <3> QED BY <2>4, <2>5, <3>1
    <2>8. "function" \notin failures' => Balance' = Taken'
      BY <2>2, <2>4, <2>5 DEF Counted
    <2> QED BY <2>6, <2>7, <2>8 DEF Counted
  <1>15. CASE (Collecting /\ UNCHANGED renderVars) \/ UNCHANGED vars
    <2>1. UNCHANGED <<nodes, generator, populated, rowCount, inserted, stack, failures>>
      BY <1>15 DEF vars, renderVars, treeVars, gridVars, histories
    <2> QED BY <1>3, <2>1 DEF Counted, Exhausted
  <1>16. CASE YieldRow /\ data # <<>>
    <2>1. UNCHANGED <<nodes, populated, rowCount, inserted, stack, failures>>
      BY <1>16 DEF YieldRow, histories
    <2>2. ~populated
      BY <1>16 DEF Typed, Idle
    <2> QED BY <1>3, <2>1, <2>2 DEF Counted
  <1> QED BY <1>5, <1>6, <1>7, <1>8, <1>9, <1>10, <1>11, <1>12, <1>13, <1>14, <1>15, <1>16, StepsOfTree DEF TreeMoves

\* A tree that says it is populated has all rows, and each is counted once, whatever
\* functions run on them and whatever they do, except where an exception was returned.
THEOREM PopulatedTreesAreComplete == Spec => []PopulatedIsComplete
  <1>1. Init => Counted
    <2> SUFFICES ASSUME Init PROVE Counted
      OBVIOUS
    <2>1. nodes = <<>> /\ populated = FALSE /\ rowCount = 0 /\ stack = <<>> /\ inserted = {}
      BY DEF Init, RenderInit, TreeInit
    <2>2. Size = 0 /\ Cardinality(inserted) = 0 /\ Cardinality(Pending) = 0
      BY <2>1, FS_EmptySet, PendingFrames, TypedAtFirst DEF Size
    <2>3. rowCount + Cardinality(Pending) = 0 /\ Size - Cardinality(inserted) = 0
      BY <2>1, <2>2
    <2>4. rowCount + Cardinality(Pending) <= Size - Cardinality(inserted)
      BY <2>3
    <2> QED BY <2>1, <2>3, <2>4 DEF Counted
  <1>2. Typed /\ Counted /\ [Next]_vars => Counted'
    BY CountedKept
  <1>3. Typed /\ Counted => PopulatedIsComplete
    <2> SUFFICES ASSUME Typed, Counted PROVE PopulatedIsComplete
      OBVIOUS
    <2>1. Cardinality(inserted) \in Nat /\ Size \in Nat /\ rowCount \in Nat /\ Cardinality(Pending) \in Nat
      BY InsertedRows, PendingFrames
    <2> DEFINE waiting == Cardinality(Pending)
               taken == Size - Cardinality(inserted)
    <2>4. rowCount + waiting <= taken /\ ("function" \notin failures => rowCount + waiting = taken)
      BY DEF Counted
    <2>5. waiting \in Nat /\ taken \in Int /\ (stack = <<>> => waiting = 0)
      BY <2>1, PendingFrames
    <2> HIDE DEF waiting, taken
    <2>6. rowCount <= taken /\ (stack = <<>> /\ "function" \notin failures => rowCount = taken)
      BY <2>1, <2>4, <2>5
    <2>2. rowCount <= Size - Cardinality(inserted)
      BY <2>6 DEF taken
    <2>3. stack = <<>> /\ "function" \notin failures => rowCount = Size - Cardinality(inserted)
      BY <2>6 DEF taken
    <2> QED BY <2>2, <2>3 DEF Counted, Exhausted, PopulatedIsComplete, Size
  <1> QED BY <1>1, <1>2, <1>3, TreeTyped, PTL DEF Spec

-----------------------------------------------------------------------------
(* The order of the rows *)

\* PathBefore, item by item.
Precedes(p, q) ==
  \/ Len(p) < Len(q) /\ \A k \in 1 .. Len(p) : p[k] = q[k]
  \/ \E k \in 1 .. Len(p) : k <= Len(q) /\ p[k] < q[k] /\ \A i \in 1 .. k - 1 : p[i] = q[i]

\* A path leads through the node that another leads to.
Extends(p, q) == Len(q) <= Len(p) /\ \A k \in 1 .. Len(q) : p[k] = q[k]

\* Two sequences begin with the same items.
LEMMA SameBeginnings ==
  ASSUME NEW p \in Seq(Nat), NEW q \in Seq(Nat), NEW n \in Nat, n <= Len(p), n <= Len(q),
         \A i \in 1 .. n : p[i] = q[i]
  PROVE  SubSeq(p, 1, n) = SubSeq(q, 1, n)
  <1>1. PICK s, t : s = SubSeq(p, 1, n) /\ t = SubSeq(q, 1, n)
    OBVIOUS
  <1>2. s \in Seq(Nat) /\ Len(s) = n /\ \A i \in 1 .. n : s[i] = p[i]
    BY <1>1
  <1>3. t \in Seq(Nat) /\ Len(t) = n /\ \A i \in 1 .. n : t[i] = q[i]
    BY <1>1
  <1>4. \A i \in 1 .. Len(t) : s[i] = t[i]
    BY <1>2, <1>3
  <1>5. s = t
    BY <1>2, <1>3, <1>4, SameItems
  <1> QED BY <1>1, <1>5

\* What precedes comes before in the order of the traversal.
LEMMA PrecedesIsBefore ==
  ASSUME NEW p \in Seq(Nat), NEW q \in Seq(Nat), Precedes(p, q)
  PROVE  PathBefore(p, q)
  <1>1. Len(p) \in Nat /\ Len(q) \in Nat
    OBVIOUS
  <1>2. CASE Len(p) < Len(q) /\ \A k \in 1 .. Len(p) : p[k] = q[k]
    <2>1. SubSeq(p, 1, Len(p)) = SubSeq(q, 1, Len(p))
      BY <1>1, <1>2, SameBeginnings
    <2>2. SubSeq(p, 1, Len(p)) = p
      <3>1. PICK s : s = SubSeq(p, 1, Len(p))
        OBVIOUS
      <3>2. s \in Seq(Nat) /\ Len(s) = Len(p) /\ \A i \in 1 .. Len(p) : s[i] = p[i]
        BY <1>1, <3>1
      <3>3. s = p
        BY <3>2, SameItems
      <3> QED BY <3>1, <3>3
    <2> QED BY <1>2, <2>1, <2>2 DEF PathBefore
  <1>3. CASE \E k \in 1 .. Len(p) : k <= Len(q) /\ p[k] < q[k] /\ \A i \in 1 .. k - 1 : p[i] = q[i]
    <2>1. PICK k \in 1 .. Len(p) : k <= Len(q) /\ p[k] < q[k] /\ \A i \in 1 .. k - 1 : p[i] = q[i]
      BY <1>3
    <2>2. k - 1 \in Nat /\ k - 1 <= Len(p) /\ k - 1 <= Len(q)
      BY <1>1, <2>1
    <2>3. SubSeq(p, 1, k - 1) = SubSeq(q, 1, k - 1)
      BY <2>1, <2>2, SameBeginnings
    <2> QED BY <2>1, <2>3 DEF PathBefore
  <1> QED BY <1>2, <1>3 DEF Precedes

\* A path that precedes another precedes those that lead further.
LEMMA PrecedesMore ==
  ASSUME NEW p \in Seq(Nat), NEW q \in Seq(Nat), NEW x \in Nat, Precedes(p, q)
  PROVE  Precedes(p, Append(q, x))
  <1>1. PICK r : r = Append(q, x)
    OBVIOUS
  <1>2. /\ Len(p) \in Nat /\ Len(q) \in Nat /\ r \in Seq(Nat) /\ Len(r) = Len(q) + 1
        /\ \A i \in 1 .. Len(q) : r[i] = q[i]
    BY <1>1
  <1>3. CASE Len(p) < Len(q) /\ \A k \in 1 .. Len(p) : p[k] = q[k]
    BY <1>1, <1>2, <1>3 DEF Precedes
  <1>4. CASE \E k \in 1 .. Len(p) : k <= Len(q) /\ p[k] < q[k] /\ \A i \in 1 .. k - 1 : p[i] = q[i]
    <2>1. PICK k \in 1 .. Len(p) : k <= Len(q) /\ p[k] < q[k] /\ \A i \in 1 .. k - 1 : p[i] = q[i]
      BY <1>4
    <2>2. k \in 1 .. Len(q) /\ \A i \in 1 .. k - 1 : i \in 1 .. Len(q)
      BY <1>2, <2>1
    <2>3. k <= Len(r) /\ p[k] < r[k] /\ \A i \in 1 .. k - 1 : p[i] = r[i]
      BY <1>2, <2>1, <2>2
    <2> QED BY <1>1, <2>1, <2>3 DEF Precedes
  <1> QED BY <1>3, <1>4 DEF Precedes

\* What shifting a path leaves and what it changes.
LEMMA ShiftedItems ==
  ASSUME NEW path \in Seq(Nat), NEW place \in Seq(Nat), place # <<>>
  PROVE  /\ Shifted(path, place) \in Seq(Nat) /\ Len(Shifted(path, place)) = Len(path)
         /\ \A k \in 1 .. Len(path) : k # Len(place) => Shifted(path, place)[k] = path[k]
         /\ Behind(path, place) => /\ Len(place) \in 1 .. Len(path)
                                   /\ Shifted(path, place)[Len(place)] = path[Len(place)] + 1
         /\ ~Behind(path, place) => \A k \in 1 .. Len(path) : Shifted(path, place)[k] = path[k]
  BY ChangedPath DEF Shifted

\* Rows keep their order when one is inserted.
LEMMA ShiftedInOrder ==
  ASSUME NEW p \in Seq(Nat), NEW q \in Seq(Nat), NEW place \in Seq(Nat), place # <<>>, Precedes(p, q)
  PROVE  Precedes(Shifted(p, place), Shifted(q, place))
  <1>1. PICK s, t, d : s = Shifted(p, place) /\ t = Shifted(q, place) /\ d = Len(place)
    OBVIOUS
  <1>2. /\ s \in Seq(Nat) /\ Len(s) = Len(p) /\ (\A k \in 1 .. Len(p) : k # d => s[k] = p[k])
        /\ Behind(p, place) => d \in 1 .. Len(p) /\ s[d] = p[d] + 1
        /\ ~Behind(p, place) => \A k \in 1 .. Len(p) : s[k] = p[k]
    <2>1. s \in Seq(Nat) /\ Len(s) = Len(p)
      BY <1>1, ShiftedItems
    <2>2. \A k \in 1 .. Len(p) : k # d => s[k] = p[k]
      BY <1>1, ShiftedItems
    <2>3. Behind(p, place) => d \in 1 .. Len(p) /\ s[d] = p[d] + 1
      BY <1>1, ShiftedItems
    <2>4. ~Behind(p, place) => \A k \in 1 .. Len(p) : s[k] = p[k]
      BY <1>1 DEF Shifted
    <2> QED BY <2>1, <2>2, <2>3, <2>4
  <1>3. /\ t \in Seq(Nat) /\ Len(t) = Len(q) /\ (\A k \in 1 .. Len(q) : k # d => t[k] = q[k])
        /\ Behind(q, place) => d \in 1 .. Len(q) /\ t[d] = q[d] + 1
        /\ ~Behind(q, place) => \A k \in 1 .. Len(q) : t[k] = q[k]
    <2>1. t \in Seq(Nat) /\ Len(t) = Len(q)
      BY <1>1, ShiftedItems
    <2>2. \A k \in 1 .. Len(q) : k # d => t[k] = q[k]
      BY <1>1, ShiftedItems
    <2>3. Behind(q, place) => d \in 1 .. Len(q) /\ t[d] = q[d] + 1
      BY <1>1, ShiftedItems
    <2>4. ~Behind(q, place) => \A k \in 1 .. Len(q) : t[k] = q[k]
      BY <1>1 DEF Shifted
    <2> QED BY <2>1, <2>2, <2>3, <2>4
  <1>4. d \in Nat \ {0} /\ Len(p) \in Nat /\ Len(q) \in Nat /\ \A k \in 1 .. d : place[k] \in Nat
    BY <1>1
  <1>5. \A k \in 1 .. Len(p) : p[k] \in Nat
    OBVIOUS
  <1>6. \A k \in 1 .. Len(q) : q[k] \in Nat
    OBVIOUS
  <1>7. ASSUME d <= Len(p), d <= Len(q), \A k \in 1 .. d : p[k] = q[k]
        PROVE  s[d] = t[d]
    <2>1. d \in 1 .. d /\ \A k \in 1 .. d - 1 : k \in 1 .. d
      BY <1>4
    <2>2. Behind(p, place) <=> Behind(q, place)
      BY <1>1, <1>7, <2>1 DEF Behind
    <2>3. d \in 1 .. Len(p) /\ d \in 1 .. Len(q)
      BY <1>4, <1>7
    <2> QED BY SMTT(20), <1>2, <1>3, <1>7, <2>1, <2>2, <2>3
  <1>8. CASE Len(p) < Len(q) /\ \A k \in 1 .. Len(p) : p[k] = q[k]
    <2>1. ASSUME NEW k \in 1 .. Len(p) PROVE s[k] = t[k]
      <3>1. k \in 1 .. Len(q)
        BY <1>4, <1>8
      <3>2. CASE k # d
        BY <1>2, <1>3, <1>8, <3>1, <3>2
      <3>3. CASE k = d
        <4>1. d <= Len(p) /\ d <= Len(q) /\ \A j \in 1 .. d : j \in 1 .. Len(p)
          BY <1>4, <1>8, <3>3
        <4> QED BY <1>7, <1>8, <3>3, <4>1
      <3> QED BY <3>2, <3>3
    <2>2. Len(s) < Len(t) /\ \A k \in 1 .. Len(s) : s[k] = t[k]
      BY <1>2, <1>3, <1>8, <2>1
    <2> QED BY <1>1, <2>2 DEF Precedes
  <1>9. CASE \E k \in 1 .. Len(p) : k <= Len(q) /\ p[k] < q[k] /\ \A i \in 1 .. k - 1 : p[i] = q[i]
    <2>1. PICK k \in 1 .. Len(p) : k <= Len(q) /\ p[k] < q[k] /\ \A i \in 1 .. k - 1 : p[i] = q[i]
      BY <1>9
    <2>2. /\ k \in 1 .. Len(q) /\ k \in Nat /\ p[k] \in Nat /\ q[k] \in Nat
          /\ \A i \in 1 .. k - 1 : i \in 1 .. Len(p) /\ i \in 1 .. Len(q)
      BY <1>4, <1>5, <1>6, <2>1
    <2>3. ASSUME NEW i \in 1 .. k - 1 PROVE s[i] = t[i]
      <3>1. CASE i # d
        BY <1>2, <1>3, <2>1, <2>2, <3>1
      <3>2. CASE i = d
        <4>1. d <= Len(p) /\ d <= Len(q) /\ \A j \in 1 .. d : j \in 1 .. k - 1
          BY SMTT(20), <1>4, <2>2, <3>2
        <4>2. \A j \in 1 .. d : p[j] = q[j]
          BY <2>1, <4>1
        <4> QED BY <1>7, <3>2, <4>1, <4>2
      <3> QED BY <3>1, <3>2
    <2>4. s[k] < t[k]
      <3>1. CASE k # d
        BY <1>2, <1>3, <2>1, <2>2, <3>1
      <3>2. CASE k = d /\ ~Behind(p, place)
        <4>1. s[k] = p[k] /\ (t[k] = q[k] \/ t[k] = q[k] + 1)
          BY <1>2, <1>3, <2>1, <2>2, <3>2
        <4> QED BY SMTT(20), <2>1, <2>2, <4>1
      <3>3. CASE k = d /\ Behind(p, place)
        <4>1. \A i \in 1 .. d - 1 : p[i] = place[i]
          BY <1>1, <3>3 DEF Behind
        <4>2. place[d] \in Nat /\ p[d] >= place[d]
          BY <1>1, <1>4, <3>3 DEF Behind
        <4>3. q[d] >= place[d]
          <5>1. PICK x, y, z : x = p[d] /\ y = q[d] /\ z = place[d]
            OBVIOUS
          <5>2. x < y /\ x \in Nat /\ y \in Nat
            BY <2>1, <2>2, <3>3, <5>1
          <5>3. z \in Nat /\ x >= z
            BY <4>2, <5>1
          <5>4. y >= z
            BY <5>2, <5>3
          <5> QED BY <5>1, <5>4, Zenon
        <4>4. Behind(q, place)
          BY <1>1, <2>1, <3>3, <4>1, <4>3 DEF Behind
        <4>5. s[d] = p[d] + 1
          BY <1>2, <3>3
        <4>6. t[d] = q[d] + 1
          BY <1>3, <4>4
        <4>7. PICK x, y : x = p[d] /\ y = q[d]
          OBVIOUS
        <4>8. x < y /\ x \in Nat /\ y \in Nat
          BY <2>1, <2>2, <3>3, <4>7
        <4>9. x + 1 < y + 1
          BY <4>8
        <4> QED BY <3>3, <4>5, <4>6, <4>7, <4>9, Zenon
      <3> QED BY <3>1, <3>2, <3>3
    <2>5. k \in 1 .. Len(s) /\ k <= Len(t)
      BY <1>2, <1>3, <2>1
    <2> QED BY <1>1, <2>3, <2>4, <2>5 DEF Precedes
  <1> QED BY <1>8, <1>9 DEF Precedes

\* A node whose path leads through another node is below it: its path goes on with
\* the place of one of the children there are.
LEMMA GoesOnBelow ==
  ASSUME Tree
  PROVE  \A a \in 1 .. Size : \A n \in 0 .. Size :
           Extends(Path(a), Path(n)) /\ a # n =>
             Len(Path(n)) < Len(Path(a)) /\ Path(a)[Len(Path(n)) + 1] < Len(Kids(n))
  <1>0. Size \in Nat
    BY TreeTypes
  <1> DEFINE Good(a) == \A n \in 0 .. Size :
               Extends(Path(a), Path(n)) /\ a # n =>
                 Len(Path(n)) < Len(Path(a)) /\ Path(a)[Len(Path(n)) + 1] < Len(Kids(n))
             S == {k \in 0 .. Size : \A a \in 1 .. k : Good(a)}
  <1>1. 0 \in S
    BY <1>0
  <1>2. ASSUME NEW k \in 0 .. Size - 1, k \in S PROVE k + 1 \in S
    <2>1. PICK a, b : a = k + 1 /\ b = nodes[a].parent
      OBVIOUS
    <2>2. a \in 1 .. Size /\ k \in Nat
      BY <1>0, <2>1
    <2>3. b \in 0 .. a - 1
      BY <2>1, <2>2 DEF Tree
    <2>4. PICK i \in DOMAIN Kids(b) : Kids(b)[i] = a
      BY <2>1, <2>2 DEF Tree
    <2>5. b \in 0 .. Size /\ (b = 0 \/ b \in 1 .. k)
      BY <1>0, <2>1, <2>2, <2>3
    <2>6. nodes[a].path = Append(Path(b), i - 1)
      BY <2>4, <2>5 DEF Tree
    <2>7. i \in 1 .. Len(Kids(b)) /\ i - 1 \in Nat /\ i - 1 < Len(Kids(b))
      BY SMTT(20), <2>4, <2>5, TreeTypes
    <2>8. PICK p, r : p = Path(a) /\ r = Path(b)
      OBVIOUS
    <2>9. p = Append(r, i - 1) /\ r \in Seq(Nat)
      BY <2>2, <2>5, <2>6, <2>8, TreeTypes
    <2>10. p \in Seq(Nat) /\ Len(p) = Len(r) + 1 /\ Len(r) \in Nat /\ p[Len(r) + 1] = i - 1
      BY <2>7, <2>9
    <2>11. \A j \in 1 .. Len(r) : p[j] = r[j]
      BY <2>7, <2>9
    <2>12. ASSUME NEW n \in 0 .. Size, Extends(Path(a), Path(n)), a # n
           PROVE  Len(Path(n)) < Len(Path(a)) /\ Path(a)[Len(Path(n)) + 1] < Len(Kids(n))
      <3>1. PICK q : q = Path(n)
        OBVIOUS
      <3>2. q \in Seq(Nat) /\ Len(q) \in Nat /\ Len(q) <= Len(p) /\ \A j \in 1 .. Len(q) : p[j] = q[j]
        BY <2>8, <2>12, <3>1, TreeTypes DEF Extends
      <3>3. CASE Len(q) = Len(p)
        <4>1. a = n
          BY <2>2, <2>8, <3>1, <3>2, <3>3, PathsDiffer
        <4> QED BY <2>12, <4>1
      <3>4. CASE n = b
        BY <2>4, <2>7, <2>8, <2>10, <3>1, <3>4
      <3>5. CASE n # b /\ Len(q) <= Len(r)
        <4>1. Extends(r, q)
          BY <2>11, <3>2, <3>5 DEF Extends
        <4>2. b # 0
          <5>1. SUFFICES ASSUME b = 0 PROVE FALSE
            OBVIOUS
          <5>2. r = <<>>
            BY <2>8, <5>1, TreeTypes DEF NoNode
          <5>3. Len(q) = Len(r)
            BY <3>2, <3>5, <5>2
          <5>4. n = b
            BY <2>5, <2>8, <3>1, <3>2, <4>1, <5>3, PathsDiffer DEF Extends
          <5> QED BY <3>5, <5>4
        <4>3. Good(b)
          BY <1>2, <2>5, <4>2
        <4>4. Len(q) < Len(r) /\ r[Len(q) + 1] < Len(Kids(n))
          BY <2>8, <3>1, <3>5, <4>1, <4>3
        <4>5. Len(q) + 1 \in 1 .. Len(r)
          BY <2>10, <3>2, <4>4
        <4> QED BY SMTT(20), <2>8, <2>10, <2>11, <3>1, <4>4, <4>5
      <3> QED BY <2>10, <3>2, <3>3, <3>4, <3>5
    <2>13. Good(a)
      BY <2>12
    <2>14. \A j \in 1 .. k + 1 : j = a \/ j \in 1 .. k
      BY <2>1, <2>2
    <2> HIDE DEF Good
    <2> QED BY <1>0, <1>2, <2>1, <2>2, <2>13, <2>14
  <1>3. 0 .. Size \subseteq S
    <2> HIDE DEF S
    <2> QED BY <1>0, <1>1, <1>2, UpTo
  <1>4. Size \in S
    BY <1>0, <1>3
  <1> QED BY <1>4

\* Each of the nodes that populate() keeps is the last at its depth: the nodes after it
\* are all below it.
Latest(c) ==
  \A k \in DOMAIN c :
    /\ \A l \in DOMAIN c : k < l => c[k] < c[l]
    /\ \A m \in 1 .. Size : c[k] < m => Extends(Path(m), Path(c[k]))

\* A row that is put below such a node, or at the top, comes after all others.
LEMMA NewRowIsLast ==
  ASSUME Tree, NEW parent \in 0 .. Size,
         \A m \in 1 .. Size : parent < m => Extends(Path(m), Path(parent)),
         \A m \in 1 .. Size : \A n \in 1 .. Size : m < n => Precedes(Path(m), Path(n))
  PROVE  \A m \in 1 .. Size : Precedes(Path(m), Append(Path(parent), Len(Kids(parent))))
  <1> SUFFICES ASSUME NEW m \in 1 .. Size
               PROVE  Precedes(Path(m), Append(Path(parent), Len(Kids(parent))))
    OBVIOUS
  <1>1. PICK p, q, x : p = Path(m) /\ q = Path(parent) /\ x = Len(Kids(parent))
    OBVIOUS
  <1>2. PICK r : r = Append(q, x)
    OBVIOUS
  <1>3. Size \in Nat /\ p \in Seq(Nat) /\ q \in Seq(Nat) /\ x \in Nat
    <2>1. Size \in Nat
      BY TreeTypes
    <2>2. m \in 0 .. Size
      BY <2>1
    <2> QED BY <1>1, <2>1, <2>2, TreeTypes
  <1>4. /\ Len(p) \in Nat /\ Len(q) \in Nat /\ r \in Seq(Nat) /\ Len(r) = Len(q) + 1 /\ r[Len(q) + 1] = x
    BY <1>2, <1>3
  <1>5. \A i \in 1 .. Len(q) : r[i] = q[i]
    BY <1>2, <1>3
  <1>6. CASE m = parent
    <2>1. Len(p) < Len(r) /\ \A k \in 1 .. Len(p) : p[k] = r[k]
      BY <1>1, <1>4, <1>5, <1>6
    <2> QED BY <1>1, <1>2, <2>1 DEF Precedes
  <1>7. CASE parent < m
    <2>1. Extends(p, q) /\ m # parent
      BY <1>1, <1>3, <1>7
    <2>2. Len(q) < Len(p) /\ p[Len(q) + 1] < x
      BY <1>1, <2>1, GoesOnBelow
    <2>3. PICK k : k = Len(q) + 1
      OBVIOUS
    <2>4. k \in 1 .. Len(p) /\ k <= Len(r) /\ p[k] < r[k] /\ k - 1 = Len(q)
      BY <1>4, <2>2, <2>3
    <2>5. \A i \in 1 .. k - 1 : p[i] = r[i]
      BY <1>5, <2>1, <2>4 DEF Extends
    <2> QED BY <1>1, <1>2, <2>4, <2>5 DEF Precedes
  <1>8. CASE m < parent
    <2>1. parent \in 1 .. Size
      BY <1>3, <1>8
    <2>2. Precedes(p, q)
      BY <1>1, <1>8, <2>1
    <2> QED BY <1>1, <1>3, <2>2, PrecedesMore
  <1> QED BY <1>3, <1>6, <1>7, <1>8

\* A call of populate() is in progress.
Populating == \E i \in DOMAIN stack : stack[i].call = "populate"

\* The frame of populate() that is the last one called.
LastPopulate(i) ==
  /\ i \in DOMAIN stack /\ stack[i].call = "populate"
  /\ \A j \in DOMAIN stack : i < j => stack[j].call # "populate"

\* As long as no function goes on after a call of its own has failed, the rows are in
\* order, and there is more than one call of populate() only until one has all rows; the
\* last one called then has the last node at each depth of the branch it is in.
Ordered ==
  "went on" \notin failures =>
    /\ \A m, n \in (1 .. Size) \ inserted : m < n => (\A p, q : p = Path(m) /\ q = Path(n) => Precedes(p, q))
    /\ inserted # {} => populated
    /\ populated => Exhausted \/ ~Populating
    /\ raised = "no" /\ ~Exhausted =>
         \A i, c : LastPopulate(i) /\ c = stack[i].prev_nodes => Latest(c)

\* The nodes that populate() keeps after it has taken a row are the last ones again.
LEMMA LatestOfMore ==
  ASSUME Tree, NEW c \in Seq(1 .. Size), Latest(c), NEW depth \in 0 .. Len(c), NEW m, m = Size + 1,
         NEW parent \in 0 .. Size, parent = (IF depth > 0 THEN c[depth] ELSE NoNode),
         NEW row, Appended(parent, row),
         NEW e, e = Append(SubSeq(c, 1, depth), m)
  PROVE  Latest(e)'
  <1>1. Size \in Nat /\ depth \in Nat /\ m \in Nat /\ Len(c) \in Nat
    BY TreeTypes
  <1>2. PICK b : b = SubSeq(c, 1, depth)
    OBVIOUS
  <1>3. b \in Seq(1 .. Size) /\ Len(b) = depth
    <2>1. PICK X : X = 1 .. Size
      OBVIOUS
    <2>2. c \in Seq(X)
      BY <2>1
    <2>3. b \in Seq(X) /\ Len(b) = depth
      BY <1>1, <1>2, <2>2
    <2> QED BY <2>1, <2>3
  <1>4. \A k \in 1 .. depth : b[k] = c[k] /\ c[k] \in 1 .. Size /\ k \in DOMAIN c
    <2>1. \A k \in 1 .. depth : k \in 1 .. Len(c)
      BY <1>1
    <2> QED BY <1>1, <1>2, <2>1
  <1>5. e = Append(b, m)
    BY <1>2
  <1>6. DOMAIN e = 1 .. depth + 1 /\ e[depth + 1] = m /\ \A k \in 1 .. depth : e[k] = b[k]
    <2>1. PICK X : X = 1 .. m
      OBVIOUS
    <2>2. 1 .. Size \subseteq X /\ m \in X
      BY <1>1, <2>1
    <2>3. b \in Seq(X)
      <3>1. PICK Y : Y = 1 .. Size
        OBVIOUS
      <3>2. b \in Seq(Y) /\ Y \subseteq X
        BY <1>3, <2>2, <3>1
      <3> QED BY <3>2
    <2>4. Append(b, m) \in Seq(X) /\ Len(Append(b, m)) = Len(b) + 1
      BY <2>2, <2>3, ItemsOfMore
    <2>5. Append(b, m)[Len(b) + 1] = m /\ \A k \in 1 .. Len(b) : Append(b, m)[k] = b[k]
      BY <2>2, <2>3, ItemsOfMore
    <2>6. DOMAIN Append(b, m) = 1 .. Len(b) + 1
      BY <2>4
    <2>7. \A k \in 1 .. depth : Append(b, m)[k] = b[k]
      BY <1>3, <2>5
    <2>8. Append(b, m)[depth + 1] = m
      BY <1>3, <2>5
    <2> QED BY <1>3, <1>5, <2>6, <2>7, <2>8
  <1>7. Size' = m /\ Path(m)' = Append(Path(parent), Len(Kids(parent)))
    BY AppendedTree
  <1>8. \A n \in 0 .. Size : Path(n)' = Path(n)
    BY AppendedTree
  <1>9. ASSUME NEW k \in DOMAIN e, NEW l \in DOMAIN e, k < l
        PROVE  e[k] < e[l]
    <2>1. k \in 1 .. depth /\ (l = depth + 1 \/ l \in 1 .. depth)
      <3>1. DOMAIN e = 1 .. depth + 1
        BY <1>6, Zenon
      <3>2. k \in 1 .. depth + 1 /\ l \in 1 .. depth + 1
        BY <3>1, Zenon
      <3> QED BY <1>1, <1>9, <3>2
    <2>2. e[k] = c[k] /\ c[k] \in 1 .. Size
      BY <1>4, <1>6, <2>1
    <2>3. CASE l = depth + 1
      BY <1>1, <1>6, <2>2, <2>3
    <2>4. CASE l \in 1 .. depth
      BY <1>4, <1>6, <1>9, <2>1, <2>4 DEF Latest
    <2> QED BY <2>1, <2>3, <2>4
  <1>10. ASSUME NEW k \in DOMAIN e, NEW a \in 1 .. m, e[k] < a, NEW p, p = Path(a)', NEW q, q = Path(e[k])'
         PROVE  Extends(p, q)
    <2>1. k \in 1 .. depth
      <3>1. e[k] # m
        BY <1>1, <1>10
      <3> QED BY <1>1, <1>6, <3>1
    <2>2. PICK o : o = c[k]
      OBVIOUS
    <2>3. e[k] = o /\ o \in 1 .. Size /\ o \in 0 .. Size /\ k \in DOMAIN c
      <3>1. e[k] = o
        BY <1>6, <2>1, <2>2
      <3>2. k \in DOMAIN c /\ c[k] \in 1 .. Size
        BY <1>4, <2>1
      <3>3. \A j \in 1 .. Size : j \in 0 .. Size
        BY <1>1
      <3> QED BY <2>2, <3>1, <3>2, <3>3
    <2>4. q = Path(o)
      BY <1>8, <1>10, <2>3
    <2>5. CASE a \in 1 .. Size
      <3>1. p = Path(a)
        BY <1>1, <1>8, <1>10, <2>5
      <3> QED BY <1>10, <2>2, <2>3, <2>4, <2>5, <3>1 DEF Latest
    <2>6. CASE a = m
      <3>1. PICK r, x : r = Path(parent) /\ x = Len(Kids(parent))
        OBVIOUS
      <3>2. p = Append(r, x) /\ r \in Seq(Nat) /\ x \in Nat /\ q \in Seq(Nat)
        BY <1>7, <1>10, <2>3, <2>4, <2>6, <3>1, TreeTypes
      <3>3. Extends(r, q)
        <4>1. parent = c[depth] /\ depth \in DOMAIN c
          BY <1>1, <1>4, <2>1
        <4>2. CASE k = depth
          BY SMTT(20), <2>2, <2>4, <3>1, <3>2, <4>1, <4>2 DEF Extends
        <4>3. CASE k # depth
          <5>1. k < depth
            BY <1>1, <2>1, <4>3
          <5>2. c[k] < c[depth] /\ parent \in 1 .. Size
            BY <1>1, <1>4, <2>1, <2>3, <4>1, <5>1 DEF Latest
          <5> QED BY <2>2, <2>3, <2>4, <3>1, <4>1, <5>2 DEF Latest
        <4> QED BY <4>2, <4>3
      <3>4. Len(p) = Len(r) + 1 /\ Len(r) \in Nat /\ Len(q) \in Nat
        BY <3>2
      <3>5. \A i \in 1 .. Len(r) : p[i] = r[i]
        BY <3>2
      <3>6. \A i \in 1 .. Len(q) : i \in 1 .. Len(r)
        BY <3>3, <3>4 DEF Extends
      <3> QED BY SMTT(20), <3>3, <3>4, <3>5, <3>6 DEF Extends
    <2>7. a \in 1 .. Size \/ a = m
      BY <1>1
    <2> QED BY <2>5, <2>6, <2>7
  <1>11. ASSUME NEW k \in DOMAIN e, NEW a \in 1 .. Size', e[k] < a
         PROVE  Extends(Path(a)', Path(e[k])')
    BY <1>7, <1>10, <1>11
  <1> QED BY <1>9, <1>11 DEF Latest

\* The order stays while the tree does, if the calls in progress are those it allows.
LEMMA OrderedStays ==
  ASSUME Typed, Ordered, nodes' = nodes, kids' = kids, inserted' = inserted,
         "went on" \in failures => "went on" \in failures', populated => populated',
         "went on" \notin failures' /\ populated' => Exhausted' \/ ~Populating',
         "went on" \notin failures' /\ raised' = "no" /\ ~Exhausted' =>
           \A i, c : LastPopulate(i)' /\ c = stack'[i].prev_nodes => Latest(c)
  PROVE  Ordered'
  <1>1. Size' = Size /\ (\A n : Path(n)' = Path(n))
    BY TreeStays DEF Typed
  <1>2. SUFFICES ASSUME "went on" \notin failures' PROVE Ordered'
    BY DEF Ordered
  <1>3. ASSUME NEW m \in (1 .. Size)', NEW n \in (1 .. Size)', m \notin inserted', n \notin inserted', m < n,
               NEW p, NEW q, p = Path(m)', q = Path(n)'
        PROVE  Precedes(p, q)
    BY <1>1, <1>2, <1>3 DEF Ordered
  <1>4. ASSUME raised' = "no", ~Exhausted', NEW i, NEW c, LastPopulate(i)', c = stack'[i].prev_nodes
        PROVE  Latest(c)'
    <2>1. Latest(c)
      BY <1>2, <1>4
    <2> QED BY <1>1, <2>1 DEF Latest
  <1>5. (inserted # {} => populated)' /\ (populated => Exhausted \/ ~Populating)'
    BY <1>2 DEF Ordered
  <1> QED BY <1>3, <1>4, <1>5 DEF Ordered

\* A call of visit() returns, or goes on: those of populate() are the same.
LEMMA VisitLeaves ==
  ASSUME Typed, stack # <<>>, Running.call # "populate",
         Returned \/ \E f \in Frames(Size) : Becomes(f) /\ f.call # "populate"
  PROVE  /\ Populating' => Populating
         /\ \A i : LastPopulate(i)' => LastPopulate(i) /\ stack'[i] = stack[i]
  <1>1. PICK F : F = Frames(Size) /\ stack \in Seq(F)
    BY DEF Typed
  <1>2. Running = stack[Len(stack)] /\ Len(stack) \in Nat \ {0} /\ DOMAIN stack = 1 .. Len(stack)
    BY <1>1, RunningFrame
  <1>3. \A i \in 1 .. Len(stack) : i = Len(stack) \/ i \in 1 .. Len(stack) - 1
    <2>1. PICK l : l = Len(stack)
      OBVIOUS
    <2>2. l \in Nat \ {0}
      BY <1>2, <2>1
    <2>3. \A i \in 1 .. l : i = l \/ i \in 1 .. l - 1
      BY <2>2
    <2> QED BY <2>1, <2>3
  <1>4. \A i \in 1 .. Len(stack) - 1 : i \in 1 .. Len(stack)
    BY <1>2
  <1>5. /\ \A i \in DOMAIN stack' : stack'[i].call = "populate" => i \in 1 .. Len(stack) - 1
        /\ \A i \in 1 .. Len(stack) - 1 : i \in DOMAIN stack' /\ stack'[i] = stack[i]
    <2>1. CASE Returned
      BY <1>1, <2>1, FrameReturns
    <2>2. CASE \E f \in Frames(Size) : Becomes(f) /\ f.call # "populate"
      <3>1. PICK f \in F : Becomes(f) /\ f.call # "populate"
        BY <1>1, <2>2
      <3>2. DOMAIN stack' = DOMAIN stack /\ stack'[Len(stack)] = f /\ \A i \in 1 .. Len(stack) - 1 : stack'[i] = stack[i]
        BY <1>1, <3>1, FrameBecomes
      <3> QED BY <1>2, <1>3, <1>4, <3>1, <3>2
    <2> QED BY <2>1, <2>2
  <1>6. Populating' => Populating
    BY <1>2, <1>4, <1>5 DEF Populating
  <1>7. ASSUME NEW i, LastPopulate(i)' PROVE LastPopulate(i) /\ stack'[i] = stack[i]
    <2>1. i \in 1 .. Len(stack) - 1 /\ i \in DOMAIN stack /\ stack'[i] = stack[i] /\ stack[i].call = "populate"
      BY <1>2, <1>4, <1>5, <1>7 DEF LastPopulate
    <2>2. ASSUME NEW j \in DOMAIN stack, i < j PROVE stack[j].call # "populate"
      <3>1. CASE j = Len(stack)
        BY <1>2, <3>1
      <3>2. CASE j # Len(stack)
        BY <1>2, <1>3, <1>5, <1>7, <2>2, <3>2 DEF LastPopulate
      <3> QED BY <3>1, <3>2
    <2> QED BY <2>1, <2>2 DEF LastPopulate
  <1> QED BY <1>6, <1>7

\* The frame that runs, if it is one of populate(), is the last one called.
LEMMA RunningIsLast ==
  ASSUME Typed, stack # <<>>, Running.call = "populate"
  PROVE  LastPopulate(Len(stack)) /\ Populating /\ Running = stack[Len(stack)]
  <1>1. PICK F : F = Frames(Size) /\ stack \in Seq(F)
    BY DEF Typed
  <1>2. Running = stack[Len(stack)] /\ Len(stack) \in Nat \ {0} /\ DOMAIN stack = 1 .. Len(stack)
    BY <1>1, RunningFrame
  <1>3. \A j \in DOMAIN stack : ~(Len(stack) < j)
    BY <1>2
  <1> QED BY <1>2, <1>3 DEF LastPopulate, Populating

\* Where a frame of populate() becomes another, that is the last one called then.
LEMMA PopulateGoesOn ==
  ASSUME NEW X, stack \in Seq(X), stack # <<>>, NEW f \in X, Becomes(f), f.call = "populate"
  PROVE  \A i : LastPopulate(i)' => stack'[i] = f
  <1>1. /\ DOMAIN stack' = DOMAIN stack /\ stack'[Len(stack)] = f
    BY FrameBecomes
  <1>2. Len(stack) \in DOMAIN stack /\ DOMAIN stack = 1 .. Len(stack) /\ Len(stack) \in Nat
    BY RunningFrame
  <1>3. ASSUME NEW i, LastPopulate(i)' PROVE i = Len(stack)
    BY <1>1, <1>2, <1>3 DEF LastPopulate
  <1> QED BY <1>1, <1>3

\* A call comes on top of the others.
LEMMA CalledInOrder ==
  ASSUME Typed, Ordered, NEW new, Called(new)
  PROVE  Ordered'
  <1>1. PICK F : F = Frames(Size) /\ stack \in Seq(F) /\ new \in Seq(F) /\ stack' = stack \o new
    BY DEF Typed, Called
  <1>2. /\ Len(stack') = Len(stack) + Len(new) /\ DOMAIN stack' = 1 .. Len(stack) + Len(new)
        /\ Len(stack) \in Nat /\ Len(new) \in Nat /\ DOMAIN stack = 1 .. Len(stack) /\ DOMAIN new = 1 .. Len(new)
    <2>1. stack' \in Seq(F) /\ Len(stack') = Len(stack) + Len(new)
      BY <1>1, ItemsOfBoth
    <2> QED BY <1>1, <2>1
  <1>3. \A i \in 1 .. Len(stack) : stack'[i] = stack[i]
    BY <1>1, ItemsOfBoth
  <1>4. \A i \in 1 .. Len(new) : stack'[Len(stack) + i] = new[i]
    BY <1>1, ItemsOfBoth
  <1>5. ASSUME NEW i \in DOMAIN stack', stack'[i].call = "populate", i \notin 1 .. Len(stack)
        PROVE  ~populated /\ stack'[i].prev_nodes = <<>>
    <2>1. PICK j : j = i - Len(stack)
      OBVIOUS
    <2>2. j \in 1 .. Len(new) /\ i = Len(stack) + j
      BY <1>2, <1>5, <2>1
    <2> QED BY <1>2, <1>4, <1>5, <2>2 DEF Called
  <1>6. UNCHANGED <<nodes, kids, generator, populated, inserted, failures>> /\ (stack = <<>> \/ raised = "no")
    BY DEF Called, gridVars, histories
  <1>7. Exhausted' <=> Exhausted
    BY <1>6 DEF Exhausted
  <1>8. populated => (Populating' => Populating)
    BY <1>2, <1>3, <1>5 DEF Populating
  <1>9. ASSUME "went on" \notin failures, ~Exhausted, NEW i, NEW c, LastPopulate(i)', c = stack'[i].prev_nodes
        PROVE  Latest(c)
    <2>1. CASE i \notin 1 .. Len(stack)
      <3>1. c = <<>>
        BY <1>5, <1>9, <2>1 DEF LastPopulate
      <3> QED BY <3>1 DEF Latest
    <2>2. CASE i \in 1 .. Len(stack)
      <3>1. raised = "no"
        BY <1>1, <1>6, <2>2
      <3>2. stack[i].call = "populate" /\ c = stack[i].prev_nodes
        BY <1>3, <1>9, <2>2 DEF LastPopulate
      <3>3. ASSUME NEW j \in DOMAIN stack, i < j PROVE stack[j].call # "populate"
        <4>1. j \in DOMAIN stack' /\ stack'[j] = stack[j]
          BY <1>2, <1>3
        <4> QED BY <1>9, <3>3, <4>1 DEF LastPopulate
      <3>4. LastPopulate(i)
        BY <1>2, <2>2, <3>2, <3>3 DEF LastPopulate
      <3> QED BY <1>9, <3>1, <3>2, <3>4 DEF Ordered
    <2> QED BY <2>1, <2>2
  <1>10. "went on" \notin failures' /\ populated' => Exhausted' \/ ~Populating'
    BY <1>6, <1>7, <1>8 DEF Ordered
  <1>11. "went on" \notin failures' /\ raised' = "no" /\ ~Exhausted' =>
           \A i, c : LastPopulate(i)' /\ c = stack'[i].prev_nodes => Latest(c)
    BY <1>6, <1>7, <1>9
  <1> QED BY <1>6, <1>10, <1>11, OrderedStays

\* A row that is inserted leaves the others in order.
LEMMA InsertedInOrder ==
  ASSUME Typed, Ordered, NEW parent \in 0 .. Size, NEW position \in 0 .. Len(Kids(parent)), Insert(parent, position)
  PROVE  Ordered'
  <1>1. /\ InsertedAt(parent, position) /\ stack = <<>> /\ populated
        /\ UNCHANGED <<populated, stack, failures>>
    BY DEF Insert
  <1>2. PICK m, place : m = Size + 1 /\ place = Append(Path(parent), position)
    OBVIOUS
  <1>3. Size' = m /\ inserted' = inserted \cup {m} /\ place \in Seq(Nat) /\ place # <<>>
    BY <1>1, <1>2, InsertedTree DEF Typed
  <1>4. \A n \in 1 .. Size : Path(n)' = Shifted(Path(n), place)
    BY <1>1, <1>2, InsertedTree DEF Typed
  <1>5. Size \in Nat /\ \A n \in 1 .. Size : Path(n) \in Seq(Nat)
    <2>1. Size \in Nat
      BY TreeTypes DEF Typed
    <2>2. \A n \in 1 .. Size : n \in 0 .. Size
      BY <2>1
    <2> QED BY <2>1, <2>2, TreeTypes DEF Typed
  <1>6. ASSUME "went on" \notin failures,
               NEW a \in (1 .. Size)', NEW b \in (1 .. Size)', a \notin inserted', b \notin inserted', a < b,
               NEW p, NEW q, p = Path(a)', q = Path(b)'
        PROVE  Precedes(p, q)
    <2>1. a \in 1 .. Size /\ b \in 1 .. Size /\ a \notin inserted /\ b \notin inserted
      <3>1. PICK N : N = Size
        OBVIOUS
      <3>2. a \in 1 .. m /\ b \in 1 .. m /\ a # m /\ b # m /\ a \notin inserted /\ b \notin inserted
        BY <1>3, <1>6
      <3>3. a \in 1 .. N /\ b \in 1 .. N
        BY <1>2, <1>5, <3>1, <3>2
      <3> QED BY <3>1, <3>2, <3>3
    <2>2. PICK r, s : r = Path(a) /\ s = Path(b)
      OBVIOUS
    <2>3. Precedes(r, s) /\ r \in Seq(Nat) /\ s \in Seq(Nat)
      BY <1>5, <1>6, <2>1, <2>2 DEF Ordered
    <2>4. p = Shifted(r, place) /\ q = Shifted(s, place)
      BY <1>4, <1>6, <2>1, <2>2
    <2> QED BY <1>3, <2>3, <2>4, ShiftedInOrder
  <1>7. ~Populating' /\ \A i : ~LastPopulate(i)'
    BY <1>1 DEF Populating, LastPopulate
  <1> QED BY <1>1, <1>6, <1>7 DEF Ordered

\* A row that is taken comes after all others.
LEMMA TakenInOrder ==
  ASSUME Typed, Ordered, TakeRow
  PROVE  Ordered'
  <1>1. UNCHANGED <<populated, raised, inserted, failures>> /\ raised = "no"
    BY DEF TakeRow, histories, Runs
  <1>2. SUFFICES ASSUME "went on" \notin failures PROVE Ordered'
    BY <1>1 DEF Ordered
  <1>3. PICK m, c, l : m = Size + 1 /\ c = Running.prev_nodes /\ l = Len(stack)
    OBVIOUS
  <1>4. c \in Seq(1 .. Size) /\ stack # <<>> /\ Running.call = "populate" /\ generator.rows # <<>>
    <2>1. c \in Seq(1 .. Size)
      BY <1>3, RowTaken
    <2>2. stack # <<>> /\ Running.call = "populate" /\ generator.rows # <<>>
      BY <1>3, RowTaken
    <2> QED BY <2>1, <2>2
  <1>5. LastPopulate(l) /\ Populating /\ c = stack[l].prev_nodes
    BY <1>3, <1>4, RunningIsLast
  <1>6. ~Exhausted /\ Latest(c) /\ ~populated /\ inserted = {}
    BY <1>1, <1>2, <1>4, <1>5 DEF Ordered, Exhausted
  <1>7. PICK depth \in 0 .. Len(c) : \E parent \in 0 .. Size : \E row : \E f \in Frames(m) :
               Takes(c, depth, parent, row, f, m)
    BY <1>3, RowTaken
  <1>8. PICK parent \in 0 .. Size : \E row : \E f \in Frames(m) : Takes(c, depth, parent, row, f, m)
    BY <1>7
  <1>9. PICK row : \E f \in Frames(m) : Takes(c, depth, parent, row, f, m)
    BY <1>8
  <1>20. PICK f \in Frames(m) : Takes(c, depth, parent, row, f, m)
    BY <1>9
  <1>10. /\ parent = IF depth > 0 THEN c[depth] ELSE NoNode
         /\ Appended(parent, row) /\ Becomes(f)
         /\ f.call = "populate" /\ f.node = m /\ f.prev_nodes = Append(SubSeq(c, 1, depth), m)
    BY <1>20 DEF Takes
  <1>11. Size \in Nat /\ m \in Nat /\ Size <= m /\ Tree
    BY <1>3, TreeTypes DEF Typed
  <1>12. Size' = m /\ Path(m)' = Append(Path(parent), Len(Kids(parent)))
    BY <1>3, <1>10, <1>11, AppendedTree
  <1>13. \A n \in 0 .. Size : Path(n)' = Path(n)
    BY <1>3, <1>10, <1>11, AppendedTree
  <1>14. \A a \in 1 .. Size : \A b \in 1 .. Size : a < b => Precedes(Path(a), Path(b))
    BY <1>2, <1>6 DEF Ordered
  <1>15. \A a \in 1 .. Size : parent < a => Extends(Path(a), Path(parent))
    <2>1. CASE depth > 0
      <3>1. depth \in DOMAIN c /\ parent = c[depth]
        BY <1>4, <1>10, <2>1
      <3> QED BY <1>6, <3>1 DEF Latest
    <2>2. CASE ~(depth > 0)
      <3>1. Path(parent) = <<>>
        BY <1>10, <2>2 DEF Path
      <3>2. ASSUME NEW a \in 1 .. Size PROVE Extends(Path(a), Path(parent))
        <4>1. PICK p, q : p = Path(a) /\ q = Path(parent)
          OBVIOUS
        <4>2. a \in 0 .. Size
          BY <1>11
        <4>3. p \in Seq(Nat) /\ q = <<>>
          BY <1>11, <3>1, <4>1, <4>2, TreeTypes
        <4>4. Len(q) <= Len(p) /\ 1 .. Len(q) = {}
          BY <4>3
        <4> QED BY <4>1, <4>4 DEF Extends
      <3> QED BY <3>2
    <2> QED BY <2>1, <2>2
  <1>16. \A a \in 1 .. Size : Precedes(Path(a), Append(Path(parent), Len(Kids(parent))))
    BY <1>11, <1>14, <1>15, NewRowIsLast
  <1>17. ASSUME NEW a \in (1 .. Size)', NEW b \in (1 .. Size)', a < b, NEW p, NEW q, p = Path(a)', q = Path(b)'
         PROVE  Precedes(p, q)
    <2>1. a \in 1 .. Size /\ a \in 0 .. Size /\ (b \in 1 .. Size \/ b = m)
      BY <1>3, <1>11, <1>12, <1>17
    <2>2. p = Path(a)
      BY <1>13, <1>17, <2>1
    <2>3. CASE b \in 1 .. Size
      <3>1. b \in 0 .. Size
        BY <1>11, <2>3
      <3>2. q = Path(b)
        BY <1>13, <1>17, <3>1
      <3> QED BY <1>14, <1>17, <2>1, <2>2, <2>3, <3>2
    <2>4. CASE b = m
      BY <1>12, <1>16, <1>17, <2>1, <2>2, <2>4
    <2> QED BY <2>1, <2>3, <2>4
  <1>18. ASSUME NEW i, NEW e, LastPopulate(i)', e = stack'[i].prev_nodes
         PROVE  Latest(e)'
    <2>1. PICK F : F = Frames(m)
      OBVIOUS
    <2>2. stack \in Seq(F) /\ f \in F
      <3>1. PICK G : G = Frames(Size)
        OBVIOUS
      <3>2. G \subseteq F /\ stack \in Seq(G)
        BY <1>11, <2>1, <3>1, FramesGrow DEF Typed
      <3> QED BY <1>10, <2>1, <3>2
    <2>3. stack'[i] = f
      BY <1>4, <1>10, <1>18, <2>2, PopulateGoesOn
    <2>4. e = Append(SubSeq(c, 1, depth), m)
      BY <1>10, <1>18, <2>3
    <2>5. parent = IF depth > 0 THEN c[depth] ELSE NoNode
      BY <1>10
    <2> QED BY <1>3, <1>4, <1>6, <1>10, <1>11, <2>4, <2>5, LatestOfMore
  <1>19. ~populated' /\ inserted' = {}
    BY <1>1, <1>6
  <1> QED BY <1>17, <1>18, <1>19 DEF Ordered

\* Every step keeps the order.
LEMMA OrderedKept ==
  ASSUME Typed, Ordered, [Next]_vars
  PROVE  Ordered'
  <1>1. CASE \E new : Called(new)
    BY <1>1, CalledInOrder
  <1>2. CASE \E parent \in 0 .. Size : \E position \in 0 .. Len(Kids(parent)) : Insert(parent, position)
    BY <1>2, InsertedInOrder
  <1>3. CASE TakeRow
    BY <1>3, TakenInOrder
  <1>4. CASE GeneratorEnds \/ GeneratorRaises
    <2>1. /\ nodes' = nodes /\ kids' = kids /\ inserted' = inserted /\ (populated => populated')
          /\ "went on" \in failures => "went on" \in failures'
      <3>1. CASE GeneratorEnds
        BY <3>1 DEF GeneratorEnds, histories
      <3>2. CASE GeneratorRaises
        BY <3>2 DEF GeneratorRaises
      <3> QED BY <1>4, <3>1, <3>2
    <2>2. Exhausted'
      BY <1>4 DEF GeneratorEnds, GeneratorRaises, Exhausted, Typed, Rows
    <2> QED BY <2>1, <2>2, OrderedStays
  <1>5. CASE VisitStarts \/ VisitNext
    <2>1. /\ stack # <<>> /\ raised = "no" /\ Running.call # "populate"
          /\ UNCHANGED <<nodes, kids, generator, populated, inserted, failures>>
      BY <1>5, VisitMoves DEF gridVars, histories
    <2>2. Returned \/ \E f \in Frames(Size) : Becomes(f) /\ f.call # "populate"
      <3>1. CASE Returned
        BY <3>1
      <3>2. CASE \E f \in Frames(Size) : Becomes(f) /\ f.call = "visit"
        BY <3>2
      <3> QED BY <1>5, <3>1, <3>2, VisitMoves
    <2>3. Populating' => Populating
      BY <2>1, <2>2, VisitLeaves
    <2>4. \A i : LastPopulate(i)' => LastPopulate(i) /\ stack'[i] = stack[i]
      BY <2>1, <2>2, VisitLeaves
    <2>5. Exhausted' <=> Exhausted
      BY <2>1 DEF Exhausted
    <2>6. "went on" \notin failures' /\ populated' => Exhausted' \/ ~Populating'
      BY <2>1, <2>3, <2>5 DEF Ordered
    <2>7. "went on" \notin failures' /\ raised' = "no" /\ ~Exhausted' =>
            \A i, c : LastPopulate(i)' /\ c = stack'[i].prev_nodes => Latest(c)
      BY <2>1, <2>4, <2>5 DEF Ordered
    <2> QED BY <2>1, <2>6, <2>7, OrderedStays
  <1>6. CASE InFunction /\ Proceed
    <2>1. /\ stack # <<>> /\ raised = "no"
          /\ UNCHANGED <<nodes, kids, generator, populated, raised, inserted, failures>>
      BY <1>6, HasProceeded
    <2>2. PICK f \in Frames(Size) : /\ Becomes(f) /\ f.call = Running.call
                                    /\ f.call = "populate" => f.prev_nodes = Running.prev_nodes
      BY <1>6, HasProceeded
    <2>3. Exhausted' <=> Exhausted
      BY <2>1 DEF Exhausted
    <2>4. CASE Running.call # "populate"
      <3>0. \E g \in Frames(Size) : Becomes(g) /\ g.call # "populate"
        <4>1. Becomes(f) /\ f.call # "populate"
          BY <2>2, <2>4
        <4> QED BY <4>1
      <3>1. Populating' => Populating
        BY <2>1, <2>4, <3>0, VisitLeaves
      <3>2. \A i : LastPopulate(i)' => LastPopulate(i) /\ stack'[i] = stack[i]
        BY <2>1, <2>4, <3>0, VisitLeaves
      <3>3. "went on" \notin failures' /\ populated' => Exhausted' \/ ~Populating'
        BY <2>1, <2>3, <3>1 DEF Ordered
      <3>4. "went on" \notin failures' /\ raised' = "no" /\ ~Exhausted' =>
              \A i, c : LastPopulate(i)' /\ c = stack'[i].prev_nodes => Latest(c)
        BY <2>1, <2>3, <3>2 DEF Ordered
      <3> QED BY <2>1, <3>3, <3>4, OrderedStays
    <2>5. CASE Running.call = "populate"
      <3>1. PICK F : F = Frames(Size) /\ stack \in Seq(F)
        BY DEF Typed
      <3>0. f \in F /\ Becomes(f) /\ f.call = "populate" /\ f.prev_nodes = Running.prev_nodes
        <4>1. f \in F
          BY <3>1
        <4>2. Becomes(f)
          BY <2>2
        <4> QED BY <2>2, <2>5, <4>1, <4>2
      <3>2. \A i : LastPopulate(i)' => stack'[i] = f
        BY <2>1, <3>0, <3>1, PopulateGoesOn
      <3>3. LastPopulate(Len(stack)) /\ Populating /\ Running = stack[Len(stack)]
        BY <2>1, <2>5, RunningIsLast
      <3>4. "went on" \notin failures' /\ populated' => Exhausted' \/ ~Populating'
        BY <2>1, <2>3, <3>3 DEF Ordered
      <3>5. "went on" \notin failures' /\ raised' = "no" /\ ~Exhausted' =>
              \A i, c : LastPopulate(i)' /\ c = stack'[i].prev_nodes => Latest(c)
        <4> SUFFICES ASSUME "went on" \notin failures, ~Exhausted,
                            NEW i, NEW c, LastPopulate(i)', c = stack'[i].prev_nodes
                     PROVE  Latest(c)
          BY <2>1, <2>3
        <4>1. c = stack[Len(stack)].prev_nodes
          BY <3>0, <3>2, <3>3
        <4> QED BY <2>1, <3>3, <4>1 DEF Ordered
      <3> QED BY <2>1, <3>4, <3>5, OrderedStays
    <2> QED BY <2>4, <2>5
  <1>7. CASE (InFunction /\ Raise) \/ FunctionCatches
    <2>1. /\ UNCHANGED <<nodes, kids, generator, populated, stack, inserted>>
          /\ raised' = "here" \/ "went on" \in failures'
          /\ failures \subseteq failures'
      BY <1>7 DEF Raise, FunctionCatches, gridVars
    <2>2. (Exhausted' <=> Exhausted) /\ (Populating' <=> Populating)
      BY <2>1 DEF Exhausted, Populating
    <2>3. "went on" \notin failures' /\ populated' => Exhausted' \/ ~Populating'
      BY <2>1, <2>2 DEF Ordered
    <2> QED BY <2>1, <2>3, OrderedStays
  <1>8. CASE Unwind
    <2>1. /\ stack # <<>> /\ Returned /\ UNCHANGED <<nodes, kids, generator, inserted>>
          /\ failures \subseteq failures' /\ (populated => populated')
      BY <1>8 DEF Unwind
    <2>2. PICK F : F = Frames(Size) /\ stack \in Seq(F)
      BY DEF Typed
    <2>3. /\ DOMAIN stack' = 1 .. Len(stack) - 1 /\ Len(stack) \in Nat \ {0} /\ DOMAIN stack = 1 .. Len(stack)
          /\ \A i \in 1 .. Len(stack) - 1 : stack'[i] = stack[i]
      BY <2>1, <2>2, FrameReturns, RunningFrame
    <2>4. Populating' => Populating
      <3>1. \A i \in 1 .. Len(stack) - 1 : i \in 1 .. Len(stack)
        BY <2>3
      <3> QED BY <2>3, <3>1 DEF Populating
    <2>5. Exhausted' <=> Exhausted
      BY <2>1 DEF Exhausted
    <2>6. CASE Running.call = "populate" /\ ~Running.strict /\ Len(stack) > 1
      <3>1. "went on" \in failures'
        BY <1>8, <2>6 DEF Unwind
      <3> QED BY <2>1, <3>1, OrderedStays
    <2>7. CASE Running.call = "populate" /\ ~Running.strict /\ ~(Len(stack) > 1)
      <3>1. DOMAIN stack' = {}
        BY <2>3, <2>7
      <3>2. ~Populating' /\ \A i : ~LastPopulate(i)'
        BY <3>1 DEF Populating, LastPopulate
      <3> QED BY <2>1, <3>2, OrderedStays
    <2>8. CASE ~(Running.call = "populate" /\ ~Running.strict)
      <3>1. raised' = "call" /\ populated' = (populated \/ FALSE)
        BY <1>8, <2>8 DEF Unwind
      <3>2. populated' => populated
        BY <3>1 DEF Typed
      <3>3. "went on" \notin failures' /\ populated' => Exhausted' \/ ~Populating'
        BY <2>1, <2>4, <2>5, <3>2 DEF Ordered
      <3> QED BY <2>1, <3>1, <3>3, OrderedStays
    <2> QED BY <2>6, <2>7, <2>8
  <1>9. CASE (Collecting /\ UNCHANGED renderVars) \/ UNCHANGED vars
    <2>1. UNCHANGED <<nodes, kids, generator, populated, raised, inserted, stack, failures>>
      BY <1>9 DEF vars, renderVars, treeVars, gridVars, histories
    <2>2. (Exhausted' <=> Exhausted) /\ (Populating' <=> Populating) /\ \A i : LastPopulate(i)' <=> LastPopulate(i)
      BY <2>1 DEF Exhausted, Populating, LastPopulate
    <2>3. "went on" \notin failures' /\ populated' => Exhausted' \/ ~Populating'
      BY <2>1, <2>2 DEF Ordered
    <2>4. "went on" \notin failures' /\ raised' = "no" /\ ~Exhausted' =>
            \A i, c : LastPopulate(i)' /\ c = stack'[i].prev_nodes => Latest(c)
      BY <2>1, <2>2 DEF Ordered
    <2> QED BY <2>1, <2>3, <2>4, OrderedStays
  <1>10. CASE YieldRow /\ data # <<>>
    <2>1. UNCHANGED <<nodes, kids, populated, inserted, stack, failures>> /\ stack = <<>>
      BY <1>10 DEF YieldRow, histories, Typed, Idle
    <2>2. ~Populating' /\ \A i : ~LastPopulate(i)'
      BY <2>1 DEF Populating, LastPopulate
    <2> QED BY <2>1, <2>2, OrderedStays
  <1> QED BY <1>1, <1>2, <1>3, <1>4, <1>5, <1>6, <1>7, <1>8, <1>9, <1>10, StepsOfTree DEF TreeMoves

\* The tree has the rows in the order in which the plugin yielded them, whoever populates
\* it and however often it is resumed.
THEOREM YieldOrderIsKept == Spec => []YieldOrderKept
  <1>1. Init => Ordered
    <2> SUFFICES ASSUME Init PROVE Ordered
      OBVIOUS
    <2>1. nodes = <<>> /\ populated = FALSE /\ stack = <<>> /\ inserted = {}
      BY DEF Init, RenderInit, TreeInit
    <2>2. 1 .. Size = {} /\ DOMAIN stack = {}
      BY <2>1 DEF Size
    <2> QED BY <2>1, <2>2 DEF Ordered, LastPopulate
  <1>2. Typed /\ Ordered /\ [Next]_vars => Ordered'
    BY OrderedKept
  <1>3. Typed => /\ TreeNodes = 1 .. Size
                 /\ \A n \in 1 .. Size : Path(n) \in Seq(Nat) /\ Path(n) = nodes[n].path
    <2> SUFFICES ASSUME Tree
                 PROVE  /\ TreeNodes = 1 .. Size
                        /\ \A n \in 1 .. Size : Path(n) \in Seq(Nat) /\ Path(n) = nodes[n].path
      BY DEF Typed
    <2>1. Size \in Nat
      BY TreeTypes
    <2>2. \A n \in 1 .. Size : n \in 0 .. Size
      BY <2>1
    <2> QED BY <2>2, TreeTypes
  <1>4. Typed /\ Ordered => YieldOrderKept
    <2> SUFFICES ASSUME Typed, Ordered, "went on" \notin failures,
                        NEW m \in TreeNodes \ inserted, NEW n \in TreeNodes \ inserted, m < n
                 PROVE  PathBefore(nodes[m].path, nodes[n].path)
      BY DEF YieldOrderKept
    <2>1. PICK p, q : p = Path(m) /\ q = Path(n)
      OBVIOUS
    <2>2. p \in Seq(Nat) /\ q \in Seq(Nat) /\ p = nodes[m].path /\ q = nodes[n].path
      BY <1>3, <2>1
    <2>3. Precedes(p, q)
      BY <1>3, <2>1 DEF Ordered
    <2>4. PathBefore(p, q)
      BY <2>2, <2>3, PrecedesIsBefore
    <2> QED BY <2>2, <2>4
  <1> QED BY <1>1, <1>2, <1>4, TreeTyped, PTL DEF Spec

=============================================================================
