--------------------------- MODULE FastBitProofs ---------------------------
(***************************************************************************)
(* The bitmap of inode numbers allocates as a set of numbers does, for any *)
(* size of node and any depth of the tree: theorems of FastBit and their   *)
(* proofs.                                                                 *)
(*                                                                         *)
(* What a tree of any depth is like needs induction.  It is done by taking *)
(* the least number of the set of those for which a statement fails, which *)
(* the library's theorem on well-founded relations provides.               *)
(***************************************************************************)
EXTENDS FastBit, WellFoundedInduction, TLAPS

-----------------------------------------------------------------------------
(* Numbers.                                                                *)

\* A set of natural numbers that is not empty has a least element.
LEMMA LeastNumber ==
  ASSUME NEW T \in SUBSET Nat, T # {}
  PROVE  \E m \in T : \A k \in T : m <= k
  <1> DEFINE R == {ss \in Nat \X Nat : ss[1] < ss[2]}
  <1>1. IsWellFoundedOn(R, Nat)
    BY NatLessThanWellFounded DEF OpToRel
  <1>2. \A x, y \in Nat : <<x, y>> \in R <=> x < y
    OBVIOUS
  <1> HIDE DEF R
  <1>3. PICK x \in T : \A y \in T : ~ (<<y, x>> \in R)
    BY <1>1, WFMin
  <1>4. ASSUME NEW k \in T PROVE x <= k
    <2>1. ~ (k < x)
      BY <1>2, <1>3
    <2> QED BY <2>1
  <1> QED BY <1>4

\* Dividing what is a multiple and less than one more.
LEMMA Quotient ==
  ASSUME NEW s \in Nat \ {0}, NEW j \in Nat, NEW c \in 0 .. s - 1
  PROVE  (j * s + c) \div s = j /\ (j * s + c) % s = c
  OBVIOUS

LEMMA Division ==
  ASSUME NEW s \in Nat \ {0}, NEW n \in Nat
  PROVE  /\ n \div s \in Nat
         /\ n % s \in 0 .. s - 1
         /\ n = (n \div s) * s + (n % s)
  <1>1. n \div s \in Nat
    OBVIOUS
  <1>2. n % s \in 0 .. s - 1
    OBVIOUS
  <1>3. n = (n \div s) * s + (n % s)
    OBVIOUS
  <1> QED BY <1>1, <1>2, <1>3

LEMMA MultipleMono ==
  ASSUME NEW s \in Nat, NEW a \in Nat, NEW b \in Nat, a <= b
  PROVE  a * s <= b * s
  OBVIOUS

\* Of two aligned blocks the smaller lies in the larger one when they meet.
LEMMA AlignedBlocks ==
  ASSUME NEW w \in Nat \ {0}, NEW k \in Nat \ {0}, NEW a \in Nat, NEW b \in Nat,
         NEW n \in Nat,
         a * (k * w) <= n, n < a * (k * w) + k * w,
         b * w <= n, n < b * w + w
  PROVE  a * (k * w) <= b * w /\ b * w + w <= a * (k * w) + k * w
  <1> DEFINE x == a * k
  <1>1. x \in Nat /\ a * (k * w) = x * w
    OBVIOUS
  <1>2. (x + k) * w = x * w + k * w /\ (b + 1) * w = b * w + w
    OBVIOUS
  <1> HIDE DEF x
  <1>3. x <= b
    <2> SUFFICES ASSUME b + 1 <= x PROVE FALSE
      BY <1>1
    <2>1. (b + 1) * w <= x * w
      BY <1>1, MultipleMono
    <2> QED BY <2>1, <1>1, <1>2
  <1>4. b + 1 <= x + k
    <2> SUFFICES ASSUME x + k <= b PROVE FALSE
      BY <1>1
    <2>1. (x + k) * w <= b * w
      BY <1>1, MultipleMono
    <2> QED BY <2>1, <1>1, <1>2
  <1>5. x * w <= b * w /\ (b + 1) * w <= (x + k) * w
    BY <1>1, <1>3, <1>4, MultipleMono
  <1> QED BY <1>1, <1>2, <1>5

-----------------------------------------------------------------------------
(* The sizes of the subtrees.                                              *)

\* fb_subsize as a function of the depths from d on.
IsSizes(f, d) ==
  f = [e \in d .. MaxDepth |-> IF e = MaxDepth THEN 1 ELSE FBLen * f[e + 1]]

\* There is such a function, so that SubSize is what its definition says.
LEMMA SizesExist == \E f : IsSizes(f, 0)
  <1> USE FastBitAssumption
  <1> DEFINE T == {k \in 0 .. MaxDepth : ~ \E f : IsSizes(f, MaxDepth - k)}
  <1>1. T = {}
    <2> SUFFICES ASSUME T # {} PROVE FALSE
      OBVIOUS
    <2>1. PICK m \in T : \A k \in T : m <= k
      <3>1. T \in SUBSET Nat
        OBVIOUS
      <3> HIDE DEF T
      <3> QED BY <3>1, LeastNumber
    <2>2. m # 0
      <3> DEFINE g == [e \in MaxDepth .. MaxDepth |-> 1]
      <3>1. IsSizes(g, MaxDepth - 0)
        BY DEF IsSizes
      <3> HIDE DEF g
      <3> QED BY <3>1, <2>1
    <2>3. m - 1 \in 0 .. MaxDepth /\ m - 1 \notin T
      BY <2>1, <2>2
    <2>4. PICK f : IsSizes(f, MaxDepth - (m - 1))
      BY <2>3
    <2> DEFINE d == MaxDepth - m
    <2>5. d \in Nat /\ d < MaxDepth /\ MaxDepth - (m - 1) = d + 1
      BY <2>1, <2>2
    <2> DEFINE g == [e \in d .. MaxDepth |-> IF e = d THEN FBLen * f[d + 1] ELSE f[e]]
    <2>6. IsSizes(g, d)
      <3>1. f = [e \in d + 1 .. MaxDepth |->
                   IF e = MaxDepth THEN 1 ELSE FBLen * f[e + 1]]
        BY <2>4, <2>5 DEF IsSizes
      <3>2. ASSUME NEW e \in d .. MaxDepth
            PROVE  g[e] = IF e = MaxDepth THEN 1 ELSE FBLen * g[e + 1]
        <4>1. CASE e = d
          <5>1. d + 1 \in d .. MaxDepth /\ d + 1 # d /\ e # MaxDepth
            BY <2>5, <4>1
          <5> HIDE DEF d
          <5> QED BY <4>1, <5>1
        <4>2. CASE e # d
          <5>1. e \in d + 1 .. MaxDepth
            BY <2>5, <4>2
          <5>2. g[e] = IF e = MaxDepth THEN 1 ELSE FBLen * f[e + 1]
            BY <3>1, <5>1, <4>2
          <5>3. CASE e = MaxDepth
            BY <5>2, <5>3
          <5>4. CASE e # MaxDepth
            <6>1. e + 1 \in d .. MaxDepth /\ e + 1 # d
              BY <5>1, <5>4, <2>5
            <6> QED BY <5>2, <5>4, <6>1
          <5> QED BY <5>3, <5>4
        <4> QED BY <4>1, <4>2
      <3>3. g = [e \in d .. MaxDepth |-> g[e]]
        OBVIOUS
      <3> HIDE DEF g
      <3>4. g = [e \in d .. MaxDepth |-> IF e = MaxDepth THEN 1 ELSE FBLen * g[e + 1]]
        BY <3>2, <3>3
      <3> QED BY <3>4 DEF IsSizes
    <2> HIDE DEF g
    <2> QED BY <2>1, <2>6
  <1>2. MaxDepth \notin T /\ MaxDepth \in 0 .. MaxDepth /\ MaxDepth - MaxDepth = 0
    BY <1>1
  <1> QED BY <1>2

LEMMA SubSizeDef == IsSizes(SubSize, 0)
  <1>1. SubSize = CHOOSE f : IsSizes(f, 0)
    BY DEF SubSize, IsSizes
  <1> QED BY <1>1, SizesExist

\* A bit of a leaf is one number, one of another node FB_LEN times as many.
LEMMA SubSizeStep ==
  /\ SubSize[MaxDepth] = 1
  /\ \A d \in 0 .. MaxDepth - 1 : SubSize[d] = FBLen * SubSize[d + 1]
  <1> USE FastBitAssumption
  <1>1. SubSize = [e \in 0 .. MaxDepth |->
                     IF e = MaxDepth THEN 1 ELSE FBLen * SubSize[e + 1]]
    BY SubSizeDef DEF IsSizes
  <1>2. MaxDepth \in 0 .. MaxDepth
    OBVIOUS
  <1>3. SubSize[MaxDepth] = 1
    BY <1>1, <1>2
  <1>4. ASSUME NEW d \in 0 .. MaxDepth - 1
        PROVE  SubSize[d] = FBLen * SubSize[d + 1]
    <2>1. d \in 0 .. MaxDepth /\ d # MaxDepth
      OBVIOUS
    <2> QED BY <1>1, <2>1
  <1> QED BY <1>3, <1>4

LEMMA SubSizeType == \A d \in 0 .. MaxDepth : SubSize[d] \in Nat \ {0}
  <1> USE FastBitAssumption
  <1> DEFINE T == {k \in 0 .. MaxDepth : SubSize[MaxDepth - k] \notin Nat \ {0}}
  <1>1. T = {}
    <2> SUFFICES ASSUME T # {} PROVE FALSE
      OBVIOUS
    <2>1. PICK m \in T : \A k \in T : m <= k
      <3>1. T \in SUBSET Nat
        OBVIOUS
      <3> HIDE DEF T
      <3> QED BY <3>1, LeastNumber
    <2>2. m # 0
      BY <2>1, SubSizeStep
    <2>3. m - 1 \in 0 .. MaxDepth /\ m - 1 \notin T
      BY <2>1, <2>2
    <2>4. /\ MaxDepth - m \in 0 .. MaxDepth - 1
          /\ MaxDepth - (m - 1) = (MaxDepth - m) + 1
      BY <2>1, <2>2
    <2>5. SubSize[MaxDepth - m] = FBLen * SubSize[MaxDepth - (m - 1)]
      BY <2>4, SubSizeStep
    <2>6. SubSize[MaxDepth - (m - 1)] \in Nat \ {0}
      BY <2>3
    <2> DEFINE s == SubSize[MaxDepth - (m - 1)]
    <2>7. FBLen * s \in Nat \ {0}
      <3> HIDE DEF s
      <3>1. s \in Nat \ {0}
        BY <2>6 DEF s
      <3> QED BY <3>1
    <2> QED BY <2>1, <2>5, <2>7
  <1>2. ASSUME NEW d \in 0 .. MaxDepth PROVE SubSize[d] \in Nat \ {0}
    <2>1. MaxDepth - d \in 0 .. MaxDepth /\ MaxDepth - (MaxDepth - d) = d
      OBVIOUS
    <2>2. MaxDepth - d \notin T
      BY <1>1
    <2> QED BY <2>1, <2>2
  <1> QED BY <1>2

\* The size of a subtree is a multiple of that of each subtree further down.
LEMMA SizesDivide ==
  ASSUME NEW e \in 1 .. MaxDepth, NEW d \in 0 .. e - 1
  PROVE  \E k \in Nat \ {0} : SubSize[d] = k * (FBLen * SubSize[e])
  <1> USE FastBitAssumption
  <1> DEFINE w == FBLen * SubSize[e]
             T == {j \in 1 .. e : ~ \E k \in Nat \ {0} : SubSize[e - j] = k * w}
  <1>1. e \in 0 .. MaxDepth /\ w \in Nat \ {0}
    <2>1. SubSize[e] \in Nat \ {0}
      BY SubSizeType
    <2> DEFINE s == SubSize[e]
    <2>2. FBLen * s \in Nat \ {0}
      <3>1. s \in Nat \ {0}
        BY <2>1
      <3> HIDE DEF s
      <3> QED BY <3>1
    <2> QED BY <2>2
  <1> HIDE DEF w
  <1>2. T = {}
    <2> SUFFICES ASSUME T # {} PROVE FALSE
      OBVIOUS
    <2>1. PICK m \in T : \A j \in T : m <= j
      <3>1. T \in SUBSET Nat
        OBVIOUS
      <3> HIDE DEF T
      <3> QED BY <3>1, LeastNumber
    <2>2. m # 1
      <3>1. e - 1 \in 0 .. MaxDepth - 1 /\ (e - 1) + 1 = e
        OBVIOUS
      <3>2. SubSize[e - 1] = 1 * w
        BY <3>1, <1>1, SubSizeStep DEF w
      <3> QED BY <3>2, <2>1
    <2>3. m - 1 \in 1 .. e /\ m - 1 \notin T
      BY <2>1, <2>2
    <2>4. PICK k \in Nat \ {0} : SubSize[e - (m - 1)] = k * w
      BY <2>3
    <2>5. e - m \in 0 .. MaxDepth - 1 /\ (e - m) + 1 = e - (m - 1)
      BY <2>1, <2>2
    <2>6. SubSize[e - m] = FBLen * (k * w)
      BY <2>4, <2>5, SubSizeStep
    <2>7. FBLen * (k * w) = (FBLen * k) * w /\ FBLen * k \in Nat \ {0}
      BY <1>1
    <2> QED BY <2>1, <2>6, <2>7
  <1>3. e - d \in 1 .. e /\ e - (e - d) = d
    OBVIOUS
  <1>4. e - d \notin T
    BY <1>2
  <1> QED BY <1>3, <1>4 DEF w

-----------------------------------------------------------------------------
(* The nodes and the numbers below them.                                   *)

InnerNodes == {p \in TreeNodes : p[1] < MaxDepth}

\* Where a node's numbers begin and how many they are.
LEMMA NodeNumbers ==
  ASSUME NEW p \in TreeNodes
  PROVE  /\ p[1] \in 0 .. MaxDepth /\ p[2] \in Nat /\ p = <<p[1], p[2]>>
         /\ SubSize[p[1]] \in Nat \ {0}
         /\ FBLen * SubSize[p[1]] \in Nat \ {0}
         /\ FirstBelow(p) \in Nat
         /\ FirstBelow(p) \in Span(p)
  <1>1. p[1] \in 0 .. MaxDepth /\ p[2] \in Nat /\ p = <<p[1], p[2]>>
    BY DEF TreeNodes
  <1>2. SubSize[p[1]] \in Nat \ {0}
    BY <1>1, SubSizeType
  <1>3. FBLen * SubSize[p[1]] \in Nat \ {0}
    <2> DEFINE s == SubSize[p[1]]
    <2>1. s \in Nat \ {0}
      BY <1>2
    <2> HIDE DEF s
    <2>2. FBLen * s \in Nat \ {0}
      BY <2>1, FastBitAssumption
    <2> QED BY <2>2 DEF s
  <1> DEFINE w == FBLen * SubSize[p[1]]
  <1>4. w \in Nat \ {0}
    BY <1>3
  <1> HIDE DEF w
  <1>5. p[2] * w \in Nat /\ p[2] * w \in p[2] * w .. p[2] * w + w - 1
    BY <1>1, <1>4
  <1>6. FirstBelow(p) = p[2] * w /\ Span(p) = p[2] * w .. p[2] * w + w - 1
    BY DEF FirstBelow, Span, w
  <1> QED BY <1>1, <1>2, <1>3, <1>5, <1>6

LEMMA BitNumbers ==
  ASSUME NEW p \in TreeNodes, NEW c \in Bits
  PROVE  /\ c \in Nat
         /\ FirstOf(p, c) = FirstBelow(p) + c * SubSize[p[1]]
         /\ FirstOf(p, c) \in Nat
         /\ FirstOf(p, c) \in SpanOf(p, c)
         /\ SpanOf(p, c) \subseteq Span(p)
  <1> DEFINE s == SubSize[p[1]]
             a == p[2]
  <1>1. s \in Nat \ {0} /\ a \in Nat /\ c \in Nat /\ c <= FBLen - 1
    BY NodeNumbers, FastBitAssumption DEF Bits
  <1>2. /\ FirstOf(p, c) = (a * FBLen + c) * s
        /\ SpanOf(p, c) = (a * FBLen + c) * s .. (a * FBLen + c) * s + s - 1
        /\ FirstBelow(p) = a * (FBLen * s)
        /\ Span(p) = a * (FBLen * s) .. a * (FBLen * s) + FBLen * s - 1
    BY DEF FirstOf, SpanOf, FirstBelow, Span
  <1> HIDE DEF s, a
  <1>3. (a * FBLen + c) * s = a * (FBLen * s) + c * s
    <2>1. (a * FBLen + c) * s = (a * FBLen) * s + c * s
      BY <1>1, FastBitAssumption
    <2>2. (a * FBLen) * s = a * (FBLen * s)
      BY <1>1, FastBitAssumption
    <2> QED BY <2>1, <2>2
  <1>4. c * s + s <= FBLen * s
    <2>1. (c + 1) * s <= FBLen * s
      BY <1>1, FastBitAssumption, MultipleMono
    <2>2. (c + 1) * s = c * s + s
      BY <1>1
    <2> QED BY <2>1, <2>2
  <1> DEFINE x == a * (FBLen * s)
             y == c * s
             z == FBLen * s
  <1>5. x \in Nat /\ y \in Nat /\ z \in Nat
    BY <1>1, FastBitAssumption
  <1>6. /\ FirstOf(p, c) = x + y
        /\ SpanOf(p, c) = x + y .. x + y + s - 1
        /\ FirstBelow(p) = x
        /\ Span(p) = x .. x + z - 1
        /\ y + s <= z
    BY <1>2, <1>3, <1>4
  <1>7. c \in Nat /\ FirstOf(p, c) = FirstBelow(p) + c * SubSize[p[1]]
    BY <1>1, <1>6 DEF s
  <1> HIDE DEF x, y, z
  <1> QED BY <1>1, <1>5, <1>6, <1>7

\* A bit of an inner node stands for what is below its child.
LEMMA BitIsChild ==
  ASSUME NEW p \in InnerNodes, NEW c \in Bits
  PROVE  /\ Child(p, c) \in TreeNodes /\ Child(p, c) # Root
         /\ Child(p, c)[1] = p[1] + 1
         /\ Parent(Child(p, c)) = p /\ ChildNum(Child(p, c)) = c
         /\ FirstBelow(Child(p, c)) = FirstOf(p, c)
         /\ Span(Child(p, c)) = SpanOf(p, c)
  <1> DEFINE a == p[2]
             d == p[1]
             q == Child(p, c)
  <1>1. /\ a \in Nat /\ d \in 0 .. MaxDepth - 1 /\ p = <<d, a>>
        /\ c \in 0 .. FBLen - 1
    BY FastBitAssumption DEF Bits, InnerNodes, TreeNodes
  <1>2. q = <<d + 1, a * FBLen + c>>
    BY DEF Child
  <1>3. a * FBLen + c \in Nat /\ d + 1 \in 0 .. MaxDepth
    BY <1>1, FastBitAssumption
  <1>4. (a * FBLen + c) \div FBLen = a /\ (a * FBLen + c) % FBLen = c
    BY <1>1, FastBitAssumption, Quotient
  <1>5. SubSize[d] = FBLen * SubSize[d + 1]
    BY <1>1, SubSizeStep
  <1> HIDE DEF q
  <1>6. q[1] = d + 1 /\ q[2] = a * FBLen + c /\ q # Root
    BY <1>1, <1>2 DEF Root
  <1>7. Parent(q) = p /\ ChildNum(q) = c
    <2>1. (d + 1) - 1 = d
      BY <1>1
    <2> QED BY <1>1, <1>4, <1>6, <2>1 DEF Parent, ChildNum
  <1>8. FirstBelow(q) = FirstOf(p, c)
    BY <1>5, <1>6 DEF FirstBelow, FirstOf
  <1>9. Span(q) = SpanOf(p, c)
    BY <1>5, <1>6, <1>8 DEF Span, SpanOf
  <1>10. q \in TreeNodes
    BY <1>2, <1>3 DEF TreeNodes
  <1> QED BY <1>6, <1>7, <1>8, <1>9, <1>10 DEF q

\* Every node but the top one is a child.
LEMMA NodeIsChild ==
  ASSUME NEW q \in TreeNodes, q[1] > 0
  PROVE  /\ Parent(q) \in InnerNodes /\ Parent(q)[1] = q[1] - 1
         /\ ChildNum(q) \in Bits
         /\ Child(Parent(q), ChildNum(q)) = q
  <1> DEFINE a == q[2] \div FBLen
             c == q[2] % FBLen
  <1>1. q[1] \in 1 .. MaxDepth /\ q[2] \in Nat /\ q = <<q[1], q[2]>>
    BY NodeNumbers
  <1>2. a \in Nat /\ c \in 0 .. FBLen - 1 /\ q[2] = a * FBLen + c
    BY <1>1, FastBitAssumption, Division
  <1>3. Parent(q) = <<q[1] - 1, a>> /\ ChildNum(q) = c
    BY DEF Parent, ChildNum
  <1> HIDE DEF a, c
  <1>4. Parent(q) \in InnerNodes /\ Parent(q)[1] = q[1] - 1
    BY <1>1, <1>2, <1>3, FastBitAssumption DEF InnerNodes, TreeNodes
  <1>5. Child(Parent(q), ChildNum(q)) = <<(q[1] - 1) + 1, a * FBLen + c>>
    BY <1>3 DEF Child
  <1>6. (q[1] - 1) + 1 = q[1]
    BY <1>1
  <1> QED BY <1>1, <1>2, <1>3, <1>4, <1>5, <1>6 DEF Bits

\* The top node has all the numbers.
LEMMA RootNumbers ==
  /\ Root \in InnerNodes /\ Root[1] = 0
  /\ FirstBelow(Root) = 0 /\ Span(Root) = Numbers
  <1>1. Root \in InnerNodes /\ Root \in TreeNodes /\ Root[1] = 0 /\ Root[2] = 0
    BY FastBitAssumption DEF Root, InnerNodes, TreeNodes
  <1> DEFINE w == FBLen * SubSize[0]
  <1>2. w \in Nat \ {0}
    BY <1>1, NodeNumbers
  <1>3. FirstBelow(Root) = 0 * w /\ Numbers = 0 .. w - 1
    BY <1>1 DEF FirstBelow, Numbers
  <1> HIDE DEF w
  <1>4. FirstBelow(Root) = 0
    BY <1>2, <1>3
  <1>5. Span(Root) = 0 .. w - 1
    BY <1>1, <1>2, <1>4 DEF Span, w
  <1> QED BY <1>1, <1>3, <1>4, <1>5

\* A bit of a leaf stands for one number.
LEMMA LeafNumbers ==
  ASSUME NEW p \in TreeNodes, p[1] = MaxDepth, NEW c \in Bits
  PROVE  SpanOf(p, c) = {FirstBelow(p) + c}
  <1>1. FirstBelow(p) \in Nat /\ c \in Nat /\ SubSize[p[1]] = 1
    BY NodeNumbers, BitNumbers, SubSizeStep
  <1>2. FirstOf(p, c) = FirstBelow(p) + c
    BY <1>1, BitNumbers
  <1>3. FirstBelow(p) + c .. FirstBelow(p) + c + 1 - 1 = {FirstBelow(p) + c}
    <2> DEFINE x == FirstBelow(p) + c
    <2>1. x \in Nat
      BY <1>1
    <2> HIDE DEF x
    <2>2. x .. x + 1 - 1 = {x}
      BY <2>1
    <2> QED BY <2>2 DEF x
  <1> QED BY <1>1, <1>2, <1>3 DEF SpanOf

\* The bit of a number below a node, which fb_setn looks for.
LEMMA BitOfNumber ==
  ASSUME NEW p \in TreeNodes, NEW k \in 0 .. FBLen * SubSize[p[1]] - 1
  PROVE  LET c == k \div SubSize[p[1]] IN
         /\ c \in Bits
         /\ FirstBelow(p) + k \in SpanOf(p, c)
         /\ FirstOf(p, c) + (k % SubSize[p[1]]) = FirstBelow(p) + k
         /\ k % SubSize[p[1]] \in 0 .. SubSize[p[1]] - 1
  <1> DEFINE s == SubSize[p[1]]
             c == k \div s
             r == k % s
             x == FirstBelow(p)
  <1>1. s \in Nat \ {0} /\ x \in Nat /\ k \in 0 .. FBLen * s - 1
    BY NodeNumbers
  <1> HIDE DEF s, x
  <1>2. c \in Nat /\ r \in 0 .. s - 1 /\ k = c * s + r
    <2>1. FBLen * s \in Nat
      BY <1>1, FastBitAssumption
    <2>2. k \in Nat
      BY <1>1, <2>1
    <2> QED BY <1>1, <2>2, Division
  <1> HIDE DEF c, r
  <1>3. c \in Bits
    <2> SUFFICES ASSUME FBLen <= c PROVE FALSE
      BY <1>2, FastBitAssumption DEF Bits
    <2>1. FBLen * s <= c * s
      BY <1>1, <1>2, FastBitAssumption, MultipleMono
    <2> QED BY <1>1, <1>2, <2>1, FastBitAssumption
  <1>4. FirstOf(p, c) = x + c * s /\ FirstOf(p, c) \in Nat
    BY <1>3, BitNumbers DEF s, x
  <1>5. FirstOf(p, c) + r = x + k
    BY <1>1, <1>2, <1>4
  <1>6. x + k \in FirstOf(p, c) .. FirstOf(p, c) + s - 1
    BY <1>1, <1>2, <1>4, <1>5
  <1>7. x + k \in SpanOf(p, c)
    BY <1>6 DEF SpanOf, s
  <1> QED BY <1>2, <1>3, <1>5, <1>7 DEF s, c, r, x

LEMMA HasBit ==
  ASSUME NEW p \in TreeNodes, NEW n \in Span(p)
  PROVE  \E c \in Bits : n \in SpanOf(p, c)
  <1> DEFINE w == FBLen * SubSize[p[1]]
             k == n - FirstBelow(p)
  <1>1. w \in Nat \ {0} /\ FirstBelow(p) \in Nat
    BY NodeNumbers
  <1>2. n \in FirstBelow(p) .. FirstBelow(p) + w - 1
    BY DEF Span
  <1> HIDE DEF w
  <1>3. k \in 0 .. w - 1 /\ FirstBelow(p) + k = n
    BY <1>1, <1>2
  <1> HIDE DEF k
  <1> QED BY <1>3, BitOfNumber DEF w

\* The bits of a node stand for numbers in order, none for those of another.
LEMMA BitsInOrder ==
  ASSUME NEW p \in TreeNodes, NEW c \in Bits, NEW d \in Bits, c < d,
         NEW n \in SpanOf(p, c)
  PROVE  n < FirstOf(p, d)
  <1> DEFINE s == SubSize[p[1]]
             x == FirstBelow(p)
  <1>1. s \in Nat \ {0} /\ x \in Nat /\ c \in Nat /\ d \in Nat
    BY NodeNumbers, BitNumbers
  <1>2. FirstOf(p, c) = x + c * s /\ FirstOf(p, d) = x + d * s
    BY BitNumbers
  <1>3. n \in FirstOf(p, c) .. FirstOf(p, c) + s - 1
    BY DEF SpanOf
  <1> HIDE DEF s, x
  <1>4. (c + 1) * s <= d * s /\ (c + 1) * s = c * s + s
    <2>1. c + 1 <= d
      BY <1>1
    <2>2. (c + 1) * s <= d * s
      BY <1>1, <2>1, MultipleMono
    <2> QED BY <1>1, <2>2
  <1> DEFINE y == c * s
             z == d * s
  <1>5. y \in Nat /\ z \in Nat /\ y + s <= z
    BY <1>1, <1>4
  <1>6. n \in x + y .. x + y + s - 1 /\ FirstOf(p, d) = x + z
    BY <1>2, <1>3
  <1> HIDE DEF y, z
  <1> QED BY <1>1, <1>5, <1>6

LEMMA OneBit ==
  ASSUME NEW p \in TreeNodes, NEW c \in Bits, NEW d \in Bits,
         NEW n \in SpanOf(p, c), n \in SpanOf(p, d)
  PROVE  c = d
  <1>1. /\ c \in Nat /\ d \in Nat
        /\ FirstOf(p, c) \in Nat /\ FirstOf(p, d) \in Nat
        /\ SubSize[p[1]] \in Nat
    BY BitNumbers, NodeNumbers
  <1>2. n \in Nat /\ FirstOf(p, c) <= n /\ FirstOf(p, d) <= n
    BY <1>1 DEF SpanOf
  <1>3. ~ (c < d)
    BY <1>1, <1>2, BitsInOrder
  <1>4. ~ (d < c)
    BY <1>1, <1>2, BitsInOrder
  <1> QED BY <1>1, <1>3, <1>4

\* Two nodes of the same depth have no number in common.
LEMMA SameDepth ==
  ASSUME NEW p \in TreeNodes, NEW q \in TreeNodes, p[1] = q[1],
         NEW n \in Span(p), n \in Span(q)
  PROVE  p = q
  <1> DEFINE w == FBLen * SubSize[p[1]]
             a == p[2]
             b == q[2]
  <1>1. w \in Nat \ {0} /\ a \in Nat /\ b \in Nat
    BY NodeNumbers
  <1>2. n \in a * w .. a * w + w - 1 /\ n \in b * w .. b * w + w - 1
    BY DEF Span, FirstBelow
  <1>3. p = <<p[1], a>> /\ q = <<q[1], b>>
    BY NodeNumbers
  <1> HIDE DEF w, a, b
  <1>4. a * w \in Nat /\ b * w \in Nat
    BY <1>1
  <1>5. ~ (a < b)
    <2> SUFFICES ASSUME a + 1 <= b PROVE FALSE
      BY <1>1
    <2>1. (a + 1) * w <= b * w /\ (a + 1) * w = a * w + w
      BY <1>1, MultipleMono
    <2> QED BY <1>1, <1>2, <1>4, <2>1
  <1>6. ~ (b < a)
    <2> SUFFICES ASSUME b + 1 <= a PROVE FALSE
      BY <1>1
    <2>1. (b + 1) * w <= a * w /\ (b + 1) * w = b * w + w
      BY <1>1, MultipleMono
    <2> QED BY <1>1, <1>2, <1>4, <2>1
  <1> QED BY <1>1, <1>3, <1>5, <1>6

\* A node further down lies below one bit of a node, or not below it at all.
LEMMA Nested ==
  ASSUME NEW p \in TreeNodes, NEW q \in TreeNodes, p[1] < q[1], NEW c \in Bits,
         NEW n \in SpanOf(p, c), n \in Span(q)
  PROVE  Span(q) \subseteq SpanOf(p, c)
  <1> DEFINE w == FBLen * SubSize[q[1]]
             a == p[2] * FBLen + c
             b == q[2]
  <1>1. /\ q[1] \in 1 .. MaxDepth /\ p[1] \in 0 .. q[1] - 1
        /\ p[2] \in Nat /\ b \in Nat /\ w \in Nat \ {0} /\ c \in Nat
    BY NodeNumbers, BitNumbers
  <1>2. PICK k \in Nat \ {0} : SubSize[p[1]] = k * w
    BY <1>1, SizesDivide
  <1>3. a \in Nat
    BY <1>1, FastBitAssumption
  <1>4. /\ SpanOf(p, c) = a * (k * w) .. a * (k * w) + k * w - 1
        /\ Span(q) = b * w .. b * w + w - 1
    BY <1>2 DEF SpanOf, FirstOf, Span, FirstBelow
  <1> HIDE DEF w, a, b
  <1> DEFINE x == a * (k * w)
             y == k * w
             z == b * w
  <1>5. x \in Nat /\ y \in Nat /\ z \in Nat
    BY <1>1, <1>2, <1>3
  <1>6. SpanOf(p, c) = x .. x + y - 1 /\ Span(q) = z .. z + w - 1
    BY <1>4
  <1>7. n \in Nat /\ x <= n /\ n < x + y /\ z <= n /\ n < z + w
    <2> HIDE DEF x, y, z
    <2> QED BY <1>1, <1>5, <1>6
  <1>8. x <= z /\ z + w <= x + y
    BY <1>1, <1>2, <1>3, <1>7, AlignedBlocks
  <1> HIDE DEF x, y, z
  <1> QED BY <1>1, <1>5, <1>6, <1>8

-----------------------------------------------------------------------------
(* Trees.                                                                  *)

IsTree(t) ==
  /\ DOMAIN t \subseteq TreeNodes
  /\ \A p \in DOMAIN t : t[p] \subseteq Bits
  /\ Root \in DOMAIN t
  /\ \A p \in DOMAIN t \ {Root} : p[1] > 0 /\ Parent(p) \in DOMAIN t

\* Number n is in use by a node of depth d or more.
Covers(t, n, d) ==
  \E p \in DOMAIN t : d <= p[1] /\ \E c \in t[p] : n \in SpanOf(p, c)

\* Above every node there is one of each smaller depth.
LEMMA Ancestor ==
  ASSUME NEW t, IsTree(t), NEW q \in DOMAIN t, NEW d \in 0 .. q[1]
  PROVE  \E p \in DOMAIN t : p[1] = d /\ Span(q) \subseteq Span(p)
  <1>1. q[1] \in 0 .. MaxDepth /\ MaxDepth \in Nat
    BY NodeNumbers, FastBitAssumption DEF IsTree
  <1> DEFINE h == q[1]
             T == {j \in 0 .. h : ~ \E p \in DOMAIN t :
                                       p[1] = h - j /\ Span(q) \subseteq Span(p)}
  <1>2. h \in Nat /\ q \in DOMAIN t /\ q[1] = h - 0
    BY <1>1
  <1> HIDE DEF h
  <1>3. T = {}
    <2> SUFFICES ASSUME T # {} PROVE FALSE
      OBVIOUS
    <2>1. PICK m \in T : \A j \in T : m <= j
      <3>1. T \in SUBSET Nat
        BY <1>2
      <3> HIDE DEF T
      <3> QED BY <3>1, LeastNumber
    <2>2. m # 0
      BY <2>1, <1>2
    <2>3. m - 1 \in 0 .. h /\ m - 1 \notin T
      BY <2>1, <2>2, <1>2
    <2>4. PICK p \in DOMAIN t : p[1] = h - (m - 1) /\ Span(q) \subseteq Span(p)
      BY <2>3
    <2>5. p[1] > 0 /\ p[1] - 1 = h - m
      BY <2>1, <2>2, <2>4, <1>2
    <2>6. p # Root
      BY <2>5 DEF Root
    <2>7. Parent(p) \in DOMAIN t /\ Parent(p) \in InnerNodes
      BY <2>5, <2>6, NodeIsChild DEF IsTree
    <2>8. Parent(p)[1] = h - m /\ Span(p) \subseteq Span(Parent(p))
      <3>1. p \in TreeNodes
        BY DEF IsTree
      <3>2. /\ ChildNum(p) \in Bits /\ Child(Parent(p), ChildNum(p)) = p
            /\ Parent(p)[1] = h - m
        BY <3>1, <2>5, NodeIsChild
      <3>3. Span(p) = SpanOf(Parent(p), ChildNum(p))
        BY <3>2, <2>7, BitIsChild
      <3>4. SpanOf(Parent(p), ChildNum(p)) \subseteq Span(Parent(p))
        BY <3>2, <2>7, BitNumbers DEF InnerNodes
      <3> QED BY <3>2, <3>3, <3>4
    <2> QED BY <2>1, <2>4, <2>7, <2>8
  <1>4. h - d \in 0 .. h /\ h - (h - d) = d
    BY <1>2 DEF h
  <1>5. h - d \notin T
    BY <1>3
  <1> QED BY <1>4, <1>5

LEMMA BelowRoot ==
  ASSUME NEW t, IsTree(t), NEW p \in DOMAIN t
  PROVE  p \in TreeNodes /\ Span(p) \subseteq Numbers
  <1>1. p \in TreeNodes
    BY DEF IsTree
  <1>2. 0 \in 0 .. p[1]
    BY <1>1, NodeNumbers
  <1>3. PICK r \in DOMAIN t : r[1] = 0 /\ Span(p) \subseteq Span(r)
    BY <1>2, Ancestor
  <1>4. r = Root
    BY <1>3 DEF IsTree
  <1> QED BY <1>1, <1>3, <1>4, RootNumbers

\* What a bit stands for is below its node, and a number like any other.
LEMMA BitBelow ==
  ASSUME NEW t, IsTree(t), NEW p \in DOMAIN t, NEW c \in t[p]
  PROVE  /\ p \in TreeNodes /\ c \in Bits
         /\ SpanOf(p, c) \subseteq Span(p) /\ SpanOf(p, c) \subseteq Numbers
  <1>1. p \in TreeNodes /\ c \in Bits
    BY DEF IsTree
  <1>2. SpanOf(p, c) \subseteq Span(p) /\ Span(p) \subseteq Numbers
    BY <1>1, BitNumbers, BelowRoot
  <1> QED BY <1>1, <1>2

LEMMA CoversNumber ==
  ASSUME NEW t, IsTree(t), NEW n, Covers(t, n, 0)
  PROVE  n \in Numbers
  BY BitBelow DEF Covers

\* When a node is not there, no node is below it.
LEMMA MissingChild ==
  ASSUME NEW t, IsTree(t), NEW p \in DOMAIN t, p \in InnerNodes, NEW c \in Bits,
         Child(p, c) \notin DOMAIN t, NEW q \in DOMAIN t, p[1] < q[1]
  PROVE  Span(q) \cap SpanOf(p, c) = {}
  <1> SUFFICES ASSUME NEW n \in Span(q), n \in SpanOf(p, c) PROVE FALSE
    OBVIOUS
  <1>1. q \in TreeNodes /\ p \in TreeNodes
    BY DEF IsTree
  <1>2. p[1] + 1 \in 0 .. q[1]
    BY <1>1, NodeNumbers
  <1>3. PICK r \in DOMAIN t : r[1] = p[1] + 1 /\ Span(q) \subseteq Span(r)
    BY <1>2, Ancestor
  <1>4. /\ Child(p, c) \in TreeNodes /\ Child(p, c)[1] = r[1]
        /\ n \in Span(Child(p, c)) /\ n \in Span(r) /\ r \in TreeNodes
    BY <1>3, BitIsChild DEF IsTree
  <1>5. r = Child(p, c)
    BY <1>4, SameDepth
  <1> QED BY <1>5

\* What covers a number of a node's without being further down is the bit.
LEMMA CoverAtDepth ==
  ASSUME NEW t, IsTree(t), NEW p \in DOMAIN t, NEW c \in Bits, NEW n \in SpanOf(p, c),
         Covers(t, n, p[1])
  PROVE  c \in t[p] \/ Covers(t, n, p[1] + 1)
  <1>0. PICK q \in DOMAIN t : p[1] <= q[1] /\ \E d \in t[q] : n \in SpanOf(q, d)
    BY DEF Covers
  <1>1. PICK d \in t[q] : n \in SpanOf(q, d)
    BY <1>0
  <1>2. p \in TreeNodes /\ q \in TreeNodes /\ d \in Bits /\ n \in Span(q) /\ n \in Span(p)
    BY <1>1, BitBelow, BitNumbers DEF IsTree
  <1>3. CASE p[1] = q[1]
    <2>1. p = q
      BY <1>2, <1>3, SameDepth
    <2>2. c = d
      BY <2>1, <1>1, <1>2, OneBit
    <2> QED BY <2>1, <2>2
  <1>4. CASE p[1] # q[1]
    <2>1. p[1] + 1 <= q[1]
      BY <1>0, <1>2, <1>4, NodeNumbers
    <2> QED BY <2>1, <1>1 DEF Covers
  <1> QED BY <1>3, <1>4

-----------------------------------------------------------------------------
(* What the steps make of a tree.                                          *)

\* fb_init of a child.
LEMMA WithNodeIsTree ==
  ASSUME NEW t, IsTree(t), NEW p \in DOMAIN t, p \in InnerNodes, NEW c \in Bits,
         NEW b \in SUBSET Bits, NEW r, r = Child(p, c), NEW u, u = WithNode(t, r, b)
  PROVE  /\ IsTree(u)
         /\ DOMAIN u = DOMAIN t \cup {r}
         /\ \A q \in DOMAIN t : u[q] = t[q]
         /\ r \notin DOMAIN t => u[r] = b
  <1>1. /\ r \in TreeNodes /\ Parent(r) = p /\ r[1] = p[1] + 1
        /\ p[1] \in Nat
    BY BitIsChild DEF InnerNodes, TreeNodes
  <1>2. /\ DOMAIN u = DOMAIN t \cup {r}
        /\ \A q \in DOMAIN t : u[q] = t[q]
        /\ r \notin DOMAIN t => u[r] = b
    BY DEF WithNode
  <1>3. IsTree(u)
    <2>1. DOMAIN u \subseteq TreeNodes
      BY <1>1, <1>2 DEF IsTree
    <2>2. \A q \in DOMAIN u : u[q] \subseteq Bits
      BY <1>2 DEF IsTree
    <2>3. Root \in DOMAIN u
      BY <1>2 DEF IsTree
    <2>4. r[1] > 0 /\ Parent(r) \in DOMAIN u
      BY <1>1, <1>2
    <2>5. \A q \in DOMAIN u \ {Root} : q[1] > 0 /\ Parent(q) \in DOMAIN u
      BY <1>2, <2>4 DEF IsTree
    <2> QED BY <2>1, <2>2, <2>3, <2>5 DEF IsTree
  <1> QED BY <1>2, <1>3

\* Bits of one node become 0 or 1.
LEMMA ExceptIsTree ==
  ASSUME NEW t, IsTree(t), NEW p \in DOMAIN t, NEW b, b \subseteq Bits
  PROVE  /\ IsTree([t EXCEPT ![p] = b])
         /\ DOMAIN [t EXCEPT ![p] = b] = DOMAIN t
         /\ [t EXCEPT ![p] = b][p] = b
         /\ \A q \in DOMAIN t \ {p} : [t EXCEPT ![p] = b][q] = t[q]
  BY DEF IsTree

\* A subtree is freed.
LEMMA FreedIsTree ==
  ASSUME NEW t, IsTree(t), NEW p \in DOMAIN t, p[1] > 0
  PROVE  /\ IsTree(Freed(t, p))
         /\ DOMAIN Freed(t, p) \subseteq DOMAIN t
         /\ \A q \in DOMAIN Freed(t, p) : Freed(t, p)[q] = t[q]
         /\ \A q \in DOMAIN t : q[1] < p[1] => q \in DOMAIN Freed(t, p)
         /\ \A q \in DOMAIN t \ DOMAIN Freed(t, p) : Span(q) \subseteq Span(p)
         /\ \A q \in DOMAIN Freed(t, p) : p[1] <= q[1] => Span(q) \cap Span(p) = {}
  <1> DEFINE u == Freed(t, p)
             Gone(x) == p[1] <= x[1] /\ FirstBelow(x) \in Span(p)
  <1>1. /\ DOMAIN u = {x \in DOMAIN t : ~ Gone(x)}
        /\ \A q \in DOMAIN u : u[q] = t[q]
    BY DEF Freed
  <1> HIDE DEF u
  <1>2. \A x \in DOMAIN t : x \in TreeNodes /\ x[1] \in Nat
    BY NodeNumbers DEF IsTree
  \* A node that meets the one freed is below it.
  <1>3. ASSUME NEW q \in DOMAIN t, p[1] <= q[1], NEW n \in Span(q), n \in Span(p)
        PROVE  Span(q) \subseteq Span(p)
    <2>1. CASE p[1] = q[1]
      BY <1>2, <1>3, <2>1, SameDepth
    <2>2. CASE p[1] # q[1]
      <3>1. p[1] < q[1]
        BY <1>2, <1>3, <2>2
      <3>2. PICK c \in Bits : n \in SpanOf(p, c)
        BY <1>2, <1>3, HasBit
      <3>3. Span(q) \subseteq SpanOf(p, c) /\ SpanOf(p, c) \subseteq Span(p)
        BY <1>2, <1>3, <3>1, <3>2, Nested, BitNumbers
      <3> QED BY <3>3
    <2> QED BY <2>1, <2>2
  <1>4. ASSUME NEW q \in DOMAIN t, q \notin DOMAIN u
        PROVE  p[1] <= q[1] /\ Span(q) \subseteq Span(p)
    <2>1. Gone(q)
      BY <1>1, <1>4
    <2>2. FirstBelow(q) \in Span(q)
      BY <1>2, NodeNumbers
    <2> QED BY <1>3, <2>1, <2>2
  <1>5. ASSUME NEW q \in DOMAIN u, p[1] <= q[1]
        PROVE  Span(q) \cap Span(p) = {}
    <2> SUFFICES ASSUME NEW n \in Span(q), n \in Span(p) PROVE FALSE
      OBVIOUS
    <2>1. q \in DOMAIN t /\ ~ Gone(q)
      BY <1>1
    <2>2. FirstBelow(q) \in Span(q) /\ Span(q) \subseteq Span(p)
      BY <1>2, <1>3, <1>5, <2>1, NodeNumbers
    <2> QED BY <1>5, <2>1, <2>2
  <1>6. \A q \in DOMAIN t : q[1] < p[1] => q \in DOMAIN u
    <2>1. ASSUME NEW q \in DOMAIN t, q[1] < p[1] PROVE ~ (p[1] <= q[1])
      BY <1>2, <2>1
    <2> QED BY <1>1, <2>1
  <1>7. IsTree(u)
    <2>1. Root \in DOMAIN u
      BY <1>6, RootNumbers DEF IsTree
    <2>2. ASSUME NEW q \in DOMAIN u, q # Root
          PROVE  q[1] > 0 /\ Parent(q) \in DOMAIN u
      <3>1. q \in DOMAIN t /\ q[1] > 0 /\ Parent(q) \in DOMAIN t
        BY <1>1, <2>2 DEF IsTree
      <3>2. SUFFICES ASSUME Parent(q) \notin DOMAIN u PROVE FALSE
        BY <3>1
      <3>3. p[1] <= Parent(q)[1] /\ Span(Parent(q)) \subseteq Span(p)
        BY <1>4, <3>1, <3>2
      <3>4. /\ Parent(q) \in InnerNodes /\ Parent(q)[1] = q[1] - 1
            /\ ChildNum(q) \in Bits /\ Child(Parent(q), ChildNum(q)) = q
        BY <1>2, <3>1, NodeIsChild
      <3>5. Span(q) = SpanOf(Parent(q), ChildNum(q))
        BY <3>4, BitIsChild
      <3>6. SpanOf(Parent(q), ChildNum(q)) \subseteq Span(Parent(q))
        BY <3>4, BitNumbers DEF InnerNodes
      <3>7. p[1] <= q[1] /\ FirstBelow(q) \in Span(q)
        BY <1>2, <3>1, <3>3, <3>4, NodeNumbers
      <3>8. Span(q) \cap Span(p) = {}
        BY <1>5, <3>7
      <3> QED BY <3>3, <3>5, <3>6, <3>7, <3>8
    <2>3. DOMAIN u \subseteq TreeNodes /\ \A q \in DOMAIN u : u[q] \subseteq Bits
      BY <1>1 DEF IsTree
    <2> QED BY <2>1, <2>2, <2>3 DEF IsTree
  <1>8. DOMAIN u \subseteq DOMAIN t
    BY <1>1
  <1> QED BY <1>1, <1>4, <1>5, <1>6, <1>7, <1>8 DEF u

-----------------------------------------------------------------------------
(* The inductive invariant.                                                *)

\* A bit that says its child is full, with a node below it: the call that
\* gives back a number has made the node anew on its way down and comes to
\* the bit on its way up.
Reopened(p, c, q) ==
  /\ giving \in SpanOf(p, c) /\ giving \in Span(q)
  /\ \/ fbPc = "clear" /\ q[1] <= fbAt[1]
     \/ fbPc = "cleared" /\ p[1] < fbAt[1]

\* No node is below a bit that is 1.
MarkedIsFreed ==
  \A p, q \in DOMAIN bits : p[1] < q[1] =>
    \A c \in bits[p] : SpanOf(p, c) \cap Span(q) = {} \/ Reopened(p, c, q)

\* The search has passed only numbers in use.
SearchInv ==
  /\ fbPc \in {"find", "full"} => \A n \in Numbers : n < FirstBelow(fbAt) => n \in InUse
  /\ fbPc = "full" => bits[fbAt] = Bits

\* A bit of a node whose child is there may become 0 for the number given back:
\* the others have bits further down.
OthersKeepTheirs ==
  \A p \in DOMAIN bits : \A c \in bits[p] :
    p[1] < MaxDepth /\ giving \in SpanOf(p, c) /\ Child(p, c) \in DOMAIN bits =>
      \A m \in SpanOf(p, c) \ {giving} : Covers(bits, m, p[1] + 1)

\* The number given back is free below the node that has cleared it, and in use
\* below the node that has yet to.
ClearingInv ==
  /\ (giving = -1) = (fbPc \notin {"clear", "cleared"})
  /\ fbPc = "clear" => /\ giving = FirstBelow(fbAt) + fbNum
                       /\ Covers(bits, giving, fbAt[1])
  /\ fbPc = "cleared" => /\ giving \in Span(fbAt)
                         /\ ~ Covers(bits, giving, fbAt[1])

\* While imap is loaded there are only nodes on the path to number 0, all ones
\* but for their first bit, once a record has been read.
LoadInv ==
  /\ giving = -1 /\ fbAns = -1 /\ fbNum = 0
  /\ fbPc \in {"idle", "clear", "cleared"}
  /\ \A p \in DOMAIN bits : p[2] = 0
  /\ bits[Root] = {}
  /\ \A p \in DOMAIN bits \ {Root} : bits[p] \in {Bits, Bits \ {0}}
  /\ fbPc = "idle" =>
       \/ DOMAIN bits = {Root}
       \/ \A d \in 1 .. MaxDepth : <<d, 0>> \in DOMAIN bits /\ bits[<<d, 0>>] = Bits \ {0}
  /\ fbPc = "clear" => \A d \in 0 .. fbAt[1] : <<d, 0>> \in DOMAIN bits
  /\ fbPc = "cleared" =>
       \A d \in 1 .. MaxDepth :
         <<d, 0>> \in DOMAIN bits /\ (fbAt[1] <= d => bits[<<d, 0>>] = Bits \ {0})

FbInv ==
  /\ FbTypeOK
  /\ IF loaded THEN MarkedIsFreed /\ SearchInv /\ OthersKeepTheirs /\ ClearingInv
               ELSE LoadInv

\* What the refinement mapping shows of a state.
Used   == IF loaded THEN InUse \ {giving} ELSE {}
Number == IF fbPc = "found" THEN FirstBelow(fbAt) + fbNum ELSE fbAns
numberVars == <<Used, Number, loaded>>

LEMMA TreeOfBits ==
  ASSUME FbTypeOK
  PROVE  IsTree(bits) /\ fbAt \in DOMAIN bits /\ fbAt \in TreeNodes
  BY DEF FbTypeOK, IsTree

LEMMA InUseCovered ==
  ASSUME FbTypeOK
  PROVE  /\ \A n : n \in InUse <=> Covers(bits, n, 0)
         /\ InUse \subseteq Numbers
         /\ \A n \in Numbers : n \in Nat
         /\ -1 \notin Numbers
  <1>1. \A p \in DOMAIN bits : 0 <= p[1]
    BY TreeOfBits, NodeNumbers DEF IsTree
  <1>2. \A n : Covers(bits, n, 0) <=>
                 \E p \in DOMAIN bits : \E c \in bits[p] : n \in SpanOf(p, c)
    BY <1>1 DEF Covers
  <1>3. \A n : Covers(bits, n, 0) => n \in Numbers
    BY TreeOfBits, CoversNumber
  <1>4. \A n : n \in InUse <=> Covers(bits, n, 0)
    BY <1>2, <1>3 DEF InUse
  <1>5. \A n \in Numbers : n \in Nat
    BY DEF Numbers
  <1> QED BY <1>3, <1>4, <1>5 DEF InUse

\* Outside fb_setn no node is below a bit that is 1.
LEMMA NotClearing ==
  ASSUME FbInv, loaded, fbPc \notin {"clear", "cleared"}
  PROVE  /\ giving = -1 /\ Used = InUse
         /\ \A p, q \in DOMAIN bits : p[1] < q[1] =>
              \A c \in bits[p] : SpanOf(p, c) \cap Span(q) = {}
  <1>1. giving = -1
    BY DEF FbInv, ClearingInv
  <1>2. FbTypeOK /\ MarkedIsFreed
    BY DEF FbInv
  <1>3. Used = InUse
    BY <1>1, <1>2, InUseCovered DEF Used
  <1>4. \A p, q, c : ~ Reopened(p, c, q)
    BY DEF Reopened
  <1> QED BY <1>1, <1>2, <1>3, <1>4 DEF MarkedIsFreed

-----------------------------------------------------------------------------
(* The search.                                                             *)

LEMMA First0Is ==
  ASSUME NEW b, b \subseteq Bits
  PROVE  \/ First0(b) = -1 /\ b = Bits
         \/ /\ First0(b) \in Bits \ b /\ First0(b) # -1
            /\ \A j \in Bits : j < First0(b) => j \in b
  <1>1. CASE b = Bits
    BY <1>1 DEF First0
  <1>2. CASE b # Bits
    <2>1. Bits \subseteq Nat
      BY FastBitAssumption DEF Bits
    <2> DEFINE T == Bits \ b
    <2>2. T \in SUBSET Nat /\ T # {}
      BY <2>1, <1>2
    <2> HIDE DEF T
    <2>3. \E i \in T : \A j \in T : i <= j
      BY <2>2, LeastNumber
    <2> DEFINE i == CHOOSE i \in T : \A j \in T : i <= j
    <2>4. i \in T /\ \A j \in T : i <= j
      BY <2>3
    <2>5. First0(b) = i
      BY <1>2 DEF First0, T
    <2> HIDE DEF i
    <2>6. i # -1
      BY <2>2, <2>4
    <2>7. ASSUME NEW j \in Bits, j < i PROVE j \in b
      <3>1. ~ (i <= j)
        BY <2>1, <2>2, <2>4, <2>7
      <3>2. j \notin T
        BY <2>4, <3>1
      <3> QED BY <3>2 DEF T
    <2> QED BY <2>4, <2>5, <2>6, <2>7 DEF T
  <1> QED BY <1>1, <1>2

\* The numbers before a bit's: those before the node and those of bits before.
LEMMA BeforeBit ==
  ASSUME NEW p \in TreeNodes, NEW c \in Bits, NEW n \in Nat, n < FirstOf(p, c)
  PROVE  n < FirstBelow(p) \/ \E d \in Bits : d < c /\ n \in SpanOf(p, d)
  <1> SUFFICES ASSUME FirstBelow(p) <= n
               PROVE  \E d \in Bits : d < c /\ n \in SpanOf(p, d)
    BY NodeNumbers
  <1>1. FirstOf(p, c) \in Span(p) /\ FirstOf(p, c) \in Nat /\ FirstBelow(p) \in Nat
    BY BitNumbers, NodeNumbers
  <1>2. n \in Span(p)
    <2> DEFINE w == FBLen * SubSize[p[1]]
    <2>1. w \in Nat
      BY NodeNumbers
    <2>2. Span(p) = FirstBelow(p) .. FirstBelow(p) + w - 1
      BY DEF Span
    <2> HIDE DEF w
    <2> QED BY <1>1, <2>1, <2>2
  <1>3. PICK d \in Bits : n \in SpanOf(p, d)
    BY <1>2, HasBit
  <1>4. FirstOf(p, d) <= n /\ FirstOf(p, d) \in Nat /\ SubSize[p[1]] \in Nat
    BY <1>3, BitNumbers, NodeNumbers DEF SpanOf
  <1>5. ~ (c < d)
    <2>1. FirstOf(p, c) \in SpanOf(p, c)
      BY BitNumbers
    <2>2. c < d => FirstOf(p, c) < FirstOf(p, d)
      BY <2>1, BitsInOrder
    <2> QED BY <1>1, <1>4, <2>2
  <1>6. c # d
    BY <1>1, <1>4
  <1>7. c \in Nat /\ d \in Nat
    BY BitNumbers
  <1> QED BY <1>3, <1>5, <1>6, <1>7

LEMMA ZeroIsNumber ==
  ASSUME NEW p \in TreeNodes
  PROVE  0 \in 0 .. FBLen * SubSize[p[1]] - 1
  <1> DEFINE w == FBLen * SubSize[p[1]]
  <1>1. w \in Nat \ {0}
    BY NodeNumbers
  <1> HIDE DEF w
  <1>2. 0 \in 0 .. w - 1
    BY <1>1
  <1> QED BY <1>2 DEF w

\* No bit stands for the number that is given back when there is none.
LEMMA NoneIsBelow ==
  ASSUME NEW t, IsTree(t)
  PROVE  \A p \in DOMAIN t : \A c \in t[p] : -1 \notin SpanOf(p, c)
  <1>1. -1 \notin Numbers
    BY DEF Numbers
  <1> QED BY <1>1, BitBelow

\* The number of a leaf's first free bit is the lowest that is free.
LEMMA LeafIsLowest ==
  ASSUME FbInv, loaded, fbPc = "find", fbAt[1] = MaxDepth,
         NEW c \in Bits \ bits[fbAt], \A j \in Bits : j < c => j \in bits[fbAt]
  PROVE  /\ SpanOf(fbAt, c) = {FirstBelow(fbAt) + c}
         /\ FirstBelow(fbAt) + c \in Numbers \ InUse
         /\ \A n \in Numbers \ InUse : FirstBelow(fbAt) + c <= n
  <1> DEFINE x == FirstBelow(fbAt) + c
  <1>1. /\ FbTypeOK /\ IsTree(bits) /\ fbAt \in DOMAIN bits /\ fbAt \in TreeNodes
        /\ \A n \in Numbers : n < FirstBelow(fbAt) => n \in InUse
    BY TreeOfBits DEF FbInv, SearchInv
  <1>2. /\ SpanOf(fbAt, c) = {x} /\ x \in Span(fbAt) /\ x \in Numbers
        /\ FirstOf(fbAt, c) = x
    BY <1>1, LeafNumbers, BitNumbers, BelowRoot
  <1> HIDE DEF x
  <1>3. x \notin InUse
    <2> SUFFICES ASSUME x \in InUse PROVE FALSE
      OBVIOUS
    <2>1. PICK p \in DOMAIN bits : \E d \in bits[p] : x \in SpanOf(p, d)
      BY DEF InUse
    <2>2. PICK d \in bits[p] : x \in SpanOf(p, d)
      BY <2>1
    <2>3. p \in TreeNodes /\ d \in Bits /\ x \in Span(p)
      BY <1>1, <2>2, BitBelow
    <2>4. CASE p[1] = MaxDepth
      <3>1. p = fbAt
        BY <1>1, <1>2, <2>3, <2>4, SameDepth
      <3>2. d = c
        BY <1>1, <1>2, <2>2, <2>3, <3>1, OneBit
      <3> QED BY <2>2, <3>1, <3>2
    <2>5. CASE p[1] # MaxDepth
      <3>1. p[1] < fbAt[1]
        BY <1>1, <2>3, <2>5, NodeNumbers
      <3>2. SpanOf(p, d) \cap Span(fbAt) = {}
        BY <1>1, <3>1, NotClearing
      <3> QED BY <1>2, <2>2, <3>2
    <2> QED BY <2>4, <2>5
  <1>4. ASSUME NEW n \in Numbers, n \notin InUse
        PROVE  x <= n
    <2>1. n \in Nat /\ x \in Nat
      BY <1>1, <1>2, InUseCovered
    <2>2. SUFFICES ASSUME n < x PROVE FALSE
      BY <2>1
    <2>3. ~ (n < FirstBelow(fbAt))
      BY <1>1, <1>4
    <2>4. PICK d \in Bits : d < c /\ n \in SpanOf(fbAt, d)
      BY <1>1, <1>2, <2>1, <2>2, <2>3, BeforeBit
    <2>5. d \in bits[fbAt]
      BY <2>4
    <2> QED BY <1>1, <1>4, <2>4, <2>5 DEF InUse
  <1> QED BY <1>2, <1>3, <1>4 DEF x

LEMMA FindFullStep ==
  ASSUME FbInv, loaded, Find, First0(bits[fbAt]) = -1
  PROVE  FbInv' /\ UNCHANGED numberVars
  <1>1. FbTypeOK /\ IsTree(bits) /\ fbAt \in DOMAIN bits /\ fbAt \in TreeNodes
        /\ bits[fbAt] \subseteq Bits /\ MarkedIsFreed /\ SearchInv
    BY TreeOfBits DEF FbInv, FbTypeOK
  <1>2. bits[fbAt] = Bits
    BY <1>1, First0Is
  <1>3. /\ fbPc = "find" /\ fbPc' = "full" /\ fbAt' = fbAt /\ fbNum' = 0
        /\ bits' = bits /\ giving' = giving /\ fbAns' = fbAns /\ loaded' = loaded
    BY DEF Find, Goto
  <1>4. giving = -1 /\ \A p, q \in DOMAIN bits : p[1] < q[1] =>
              \A c \in bits[p] : SpanOf(p, c) \cap Span(q) = {}
    BY <1>3, NotClearing
  <1>5. FbTypeOK'
    BY <1>1, <1>3, ZeroIsNumber DEF FbTypeOK
  <1>6. InUse' = InUse
    BY <1>3 DEF InUse
  <1>7. MarkedIsFreed'
    BY <1>3, <1>4 DEF MarkedIsFreed
  <1>8. SearchInv'
    BY <1>1, <1>2, <1>3, <1>6 DEF SearchInv
  <1>9. (OthersKeepTheirs /\ ClearingInv)'
    <2>1. giving' = -1 /\ fbPc' \notin {"clear", "cleared"}
      BY <1>3, <1>4
    <2> QED BY <1>1, <1>3, <2>1, NoneIsBelow DEF OthersKeepTheirs, ClearingInv
  <1>10. UNCHANGED numberVars
    BY <1>3, <1>6 DEF numberVars, Used, Number
  <1> QED BY <1>3, <1>5, <1>7, <1>8, <1>9, <1>10 DEF FbInv

LEMMA LeastIsChosen ==
  ASSUME NEW T, T \subseteq Nat, NEW x \in T, \A m \in T : x <= m
  PROVE  (CHOOSE n \in T : \A m \in T : n <= m) = x
  <1>1. \A n \in T : (\A m \in T : n <= m) => n = x
    OBVIOUS
  <1> QED BY <1>1

\* A step of the abstract specification.
LEMMA Allocates ==
  ASSUME FbTypeOK, loaded, loaded', NEW x \in Numbers \ Used,
         \A n \in Numbers \ Used : x <= n,
         Number' = x, Used' = Used \cup {x}
  PROVE  NumberMap!Allocate
  <1> DEFINE T == Numbers \ Used
  <1>1. T \subseteq Nat
    BY InUseCovered
  <1>2. x \in T /\ \A n \in T : x <= n
    OBVIOUS
  <1> HIDE DEF T
  <1>3. (CHOOSE n \in T : \A m \in T : n <= m) = x
    BY <1>1, <1>2, LeastIsChosen
  <1>4. /\ Used # Numbers
        /\ Number' = CHOOSE n \in Numbers \ Used : \A m \in Numbers \ Used : n <= m
        /\ Used' = Used \cup {Number'}
    BY <1>2, <1>3 DEF T
  <1> QED BY <1>4 DEF NumberMap!Allocate, Used, Number

LEMMA FindLeafStep ==
  ASSUME FbInv, loaded, Find, First0(bits[fbAt]) # -1, fbAt[1] = MaxDepth
  PROVE  FbInv' /\ NumberMap!Allocate
  <1> DEFINE c == First0(bits[fbAt])
             x == FirstBelow(fbAt) + c
  <1>1. FbTypeOK /\ IsTree(bits) /\ fbAt \in DOMAIN bits /\ fbAt \in TreeNodes
        /\ bits[fbAt] \subseteq Bits
    BY TreeOfBits DEF FbInv, FbTypeOK
  <1>2. c \in Bits \ bits[fbAt] /\ \A j \in Bits : j < c => j \in bits[fbAt]
    BY <1>1, First0Is
  <1>3. /\ fbPc = "find" /\ fbPc' = "found" /\ fbAt' = fbAt /\ fbNum' = c
        /\ bits' = [bits EXCEPT ![fbAt] = bits[fbAt] \cup {c}]
        /\ giving' = giving /\ fbAns' = fbAns /\ loaded' = loaded
    BY <1>1, NodeNumbers, FastBitAssumption DEF Find, Goto
  <1> HIDE DEF c
  <1>4. /\ giving = -1 /\ Used = InUse
        /\ \A p, q \in DOMAIN bits : p[1] < q[1] =>
             \A d \in bits[p] : SpanOf(p, d) \cap Span(q) = {}
    BY <1>3, NotClearing
  <1>5. /\ SpanOf(fbAt, c) = {x} /\ x \in Numbers \ InUse
        /\ \A n \in Numbers \ InUse : x <= n
    BY <1>1, <1>2, <1>3, LeafIsLowest
  <1>6. /\ IsTree(bits') /\ DOMAIN bits' = DOMAIN bits
        /\ bits'[fbAt] = bits[fbAt] \cup {c}
        /\ \A q \in DOMAIN bits \ {fbAt} : bits'[q] = bits[q]
    <2>1. bits[fbAt] \cup {c} \subseteq Bits
      BY <1>1, <1>2
    <2> QED BY <1>1, <1>3, <2>1, ExceptIsTree
  <1>7. fbNum' \in 0 .. FBLen * SubSize[fbAt[1]] - 1
    BY <1>1, <1>2, <1>3, FastBitAssumption, SubSizeStep DEF Bits
  <1>8. FbTypeOK'
    BY <1>1, <1>3, <1>6, <1>7 DEF FbTypeOK, IsTree
  <1>9. InUse' = InUse \cup {x}
    <2>1. ASSUME NEW n, n \in InUse PROVE n \in InUse'
      BY <1>6, <2>1 DEF InUse
    <2>2. x \in InUse'
      BY <1>1, <1>5, <1>6 DEF InUse
    <2>3. ASSUME NEW n, n \in InUse' PROVE n \in InUse \cup {x}
      <3>1. n \in Numbers /\ \E p \in DOMAIN bits : \E d \in bits'[p] : n \in SpanOf(p, d)
        BY <1>6, <2>3 DEF InUse
      <3>2. PICK p \in DOMAIN bits : \E d \in bits'[p] : n \in SpanOf(p, d)
        BY <3>1
      <3>3. PICK d \in bits'[p] : n \in SpanOf(p, d)
        BY <3>2
      <3>4. CASE p = fbAt /\ d = c
        BY <3>3, <3>4, <1>5
      <3>5. CASE d \in bits[p]
        BY <3>1, <3>3, <3>5 DEF InUse
      <3> QED BY <1>6, <3>4, <3>5
    <2> QED BY <2>1, <2>2, <2>3
  <1>10. MarkedIsFreed'
    <2>1. ASSUME NEW p \in DOMAIN bits, NEW q \in DOMAIN bits, p[1] < q[1]
          PROVE  bits'[p] = bits[p]
      <3>1. p[1] \in Nat /\ q[1] \in 0 .. MaxDepth /\ MaxDepth \in Nat
        BY <1>1, NodeNumbers, FastBitAssumption DEF IsTree
      <3> QED BY <1>6, <2>1, <3>1
    <2> QED BY <1>4, <1>6, <2>1 DEF MarkedIsFreed
  <1>11. SearchInv' /\ (OthersKeepTheirs /\ ClearingInv)'
    <2>1. giving' = -1 /\ fbPc' = "found"
      BY <1>3, <1>4
    <2> QED BY <1>6, <2>1, NoneIsBelow DEF SearchInv, OthersKeepTheirs, ClearingInv
  <1>12. FbInv'
    BY <1>3, <1>8, <1>10, <1>11 DEF FbInv
  <1>13. Number' = x /\ Used' = Used \cup {x}
    <2>1. -1 \notin InUse'
      BY <1>1, <1>5, <1>9, InUseCovered
    <2> QED BY <1>3, <1>4, <1>9, <2>1 DEF Number, Used
  <1>14. x \in Numbers \ Used /\ \A n \in Numbers \ Used : x <= n
    BY <1>4, <1>5
  <1> HIDE DEF x
  <1>15. NumberMap!Allocate
    BY <1>1, <1>3, <1>13, <1>14, Allocates
  <1> QED BY <1>12, <1>15

LEMMA FindChildStep ==
  ASSUME FbInv, loaded, Find, First0(bits[fbAt]) # -1, fbAt[1] # MaxDepth
  PROVE  FbInv' /\ UNCHANGED numberVars
  <1> DEFINE c == First0(bits[fbAt])
             r == Child(fbAt, c)
  <1>1. FbTypeOK /\ IsTree(bits) /\ fbAt \in DOMAIN bits /\ fbAt \in InnerNodes
        /\ fbAt \in TreeNodes /\ bits[fbAt] \subseteq Bits /\ SearchInv
    <2>1. FbTypeOK /\ SearchInv
      BY DEF FbInv
    <2>2. IsTree(bits) /\ fbAt \in DOMAIN bits /\ fbAt \in TreeNodes
      BY <2>1, TreeOfBits
    <2>3. bits[fbAt] \subseteq Bits
      BY <2>2 DEF IsTree
    <2>4. fbAt[1] < MaxDepth
      BY <2>2, NodeNumbers, FastBitAssumption
    <2> QED BY <2>1, <2>2, <2>3, <2>4 DEF InnerNodes
  <1>2. c \in Bits \ bits[fbAt] /\ \A j \in Bits : j < c => j \in bits[fbAt]
    BY <1>1, First0Is
  <1>3. /\ fbPc = "find" /\ fbPc' = "find" /\ fbAt' = r /\ fbNum' = 0
        /\ bits' = WithNode(bits, r, {})
        /\ giving' = giving /\ fbAns' = fbAns /\ loaded' = loaded
    BY <1>1 DEF Find, Goto
  <1> HIDE DEF c
  <1>4. /\ giving = -1 /\ Used = InUse
        /\ \A p, q \in DOMAIN bits : p[1] < q[1] =>
             \A d \in bits[p] : SpanOf(p, d) \cap Span(q) = {}
    BY <1>3, NotClearing
  <1>5. /\ r \in TreeNodes /\ r[1] = fbAt[1] + 1 /\ Span(r) = SpanOf(fbAt, c)
        /\ FirstBelow(r) = FirstOf(fbAt, c) /\ Span(r) \subseteq Span(fbAt)
    BY <1>1, <1>2, BitIsChild, BitNumbers
  <1>6. /\ IsTree(bits') /\ DOMAIN bits' = DOMAIN bits \cup {r}
        /\ \A q \in DOMAIN bits : bits'[q] = bits[q]
        /\ r \notin DOMAIN bits => bits'[r] = {}
    <2>1. PICK b \in SUBSET Bits : b = {}
      OBVIOUS
    <2>2. r = Child(fbAt, c)
      OBVIOUS
    <2> HIDE DEF r
    <2>3. bits' = WithNode(bits, r, b)
      BY <1>3, <2>1
    <2> QED BY <1>1, <1>2, <2>1, <2>2, <2>3, WithNodeIsTree
  <1> HIDE DEF r
  <1>7. FbTypeOK'
    <2>1. fbNum' \in 0 .. FBLen * SubSize[fbAt'[1]] - 1
      BY <1>3, <1>5, ZeroIsNumber
    <2> QED BY <1>1, <1>3, <1>6, <2>1 DEF FbTypeOK, IsTree
  <1>8. ASSUME NEW n PROVE n \in InUse' <=> n \in InUse
    <2>1. ASSUME NEW p, NEW d
          PROVE  (p \in DOMAIN bits' /\ d \in bits'[p]) <=> (p \in DOMAIN bits /\ d \in bits[p])
      BY <1>6
    <2> QED BY <2>1 DEF InUse
  <1>9. InUse' = InUse
    BY <1>8
  <1>10. MarkedIsFreed'
    <2>1. ASSUME NEW p \in DOMAIN bits', NEW q \in DOMAIN bits', p[1] < q[1],
                 NEW d \in bits'[p]
          PROVE  SpanOf(p, d) \cap Span(q) = {}
      <3>1. p \in DOMAIN bits /\ d \in bits[p]
        BY <1>6
      <3>2. CASE q \in DOMAIN bits
        BY <1>4, <2>1, <3>1, <3>2
      <3>3. CASE q = r
        <4> SUFFICES ASSUME NEW n \in SpanOf(p, d), n \in Span(r) PROVE FALSE
          BY <3>3
        <4>1. p \in TreeNodes /\ d \in Bits /\ n \in Span(p) /\ n \in Span(fbAt)
          BY <1>1, <1>5, <3>1, BitBelow
        <4>2. CASE p[1] = fbAt[1]
          <5>1. p = fbAt
            BY <1>1, <4>1, <4>2, SameDepth
          <5>2. d = c
            BY <1>1, <1>2, <1>5, <4>1, <5>1, OneBit
          <5> QED BY <1>2, <3>1, <5>1, <5>2
        <4>3. CASE p[1] # fbAt[1]
          <5>1. p[1] < fbAt[1]
            BY <1>1, <1>5, <2>1, <3>3, <4>1, <4>3, NodeNumbers
          <5> QED BY <1>1, <1>4, <3>1, <4>1, <5>1
        <4> QED BY <4>2, <4>3
      <3> QED BY <1>6, <3>2, <3>3
    <2> QED BY <2>1 DEF MarkedIsFreed
  <1>11. SearchInv'
    <2>1. ASSUME NEW n \in Numbers, n < FirstBelow(r) PROVE n \in InUse
      <3>1. n \in Nat
        BY <1>1, InUseCovered
      <3>2. CASE n < FirstBelow(fbAt)
        BY <1>1, <1>3, <3>2 DEF SearchInv
      <3>3. CASE \E d \in Bits : d < c /\ n \in SpanOf(fbAt, d)
        BY <1>1, <1>2, <3>3 DEF InUse
      <3> QED BY <1>1, <1>2, <1>5, <2>1, <3>1, <3>2, <3>3, BeforeBit
    <2> QED BY <1>3, <1>9, <2>1 DEF SearchInv
  <1>12. (OthersKeepTheirs /\ ClearingInv)'
    <2>1. giving' = -1 /\ fbPc' = "find"
      BY <1>3, <1>4
    <2> QED BY <1>6, <2>1, NoneIsBelow DEF OthersKeepTheirs, ClearingInv
  <1>13. UNCHANGED numberVars
    BY <1>3, <1>9 DEF numberVars, Used, Number
  <1> QED BY <1>3, <1>7, <1>10, <1>11, <1>12, <1>13 DEF FbInv

LEMMA FullRootStep ==
  ASSUME FbInv, loaded, Full, fbAt = Root
  PROVE  FbInv' /\ NumberMap!Allocate
  <1>1. FbTypeOK /\ IsTree(bits) /\ SearchInv /\ Root \in TreeNodes /\ Root \in DOMAIN bits
    BY TreeOfBits DEF FbInv
  <1>2. /\ fbPc = "full" /\ fbPc' = "idle" /\ fbAt' = Root /\ fbNum' = 0
        /\ bits' = bits /\ giving' = -1 /\ fbAns' = -1 /\ loaded' = loaded
    BY DEF Full, Goto, Returns
  <1>3. /\ giving = -1 /\ Used = InUse
        /\ \A p, q \in DOMAIN bits : p[1] < q[1] =>
             \A d \in bits[p] : SpanOf(p, d) \cap Span(q) = {}
    BY <1>2, NotClearing
  <1>4. InUse = Numbers
    <2>1. bits[Root] = Bits
      BY <1>1, <1>2 DEF SearchInv
    <2>2. ASSUME NEW n \in Numbers PROVE n \in InUse
      BY <1>1, <2>1, RootNumbers, HasBit DEF InUse
    <2> QED BY <2>2 DEF InUse
  <1>5. InUse' = InUse
    BY <1>2 DEF InUse
  <1>6. FbTypeOK'
    <2>1. fbNum' \in 0 .. FBLen * SubSize[fbAt'[1]] - 1
      BY <1>1, <1>2, ZeroIsNumber
    <2> QED BY <1>1, <1>2, <2>1 DEF FbTypeOK
  <1>7. MarkedIsFreed'
    BY <1>2, <1>3 DEF MarkedIsFreed
  <1>8. SearchInv' /\ (OthersKeepTheirs /\ ClearingInv)'
    BY <1>1, <1>2, NoneIsBelow DEF SearchInv, OthersKeepTheirs, ClearingInv
  <1>9. Used' = Used /\ Number' = -1
    BY <1>2, <1>3, <1>5 DEF Used, Number
  <1>10. NumberMap!Allocate
    BY <1>2, <1>3, <1>4, <1>9 DEF NumberMap!Allocate, Used, Number
  <1> QED BY <1>2, <1>6, <1>7, <1>8, <1>10 DEF FbInv

LEMMA FullChildStep ==
  ASSUME FbInv, loaded, Full, fbAt # Root
  PROVE  FbInv' /\ UNCHANGED numberVars
  <1> DEFINE P == Parent(fbAt)
             k == ChildNum(fbAt)
             t == [bits EXCEPT ![P] = bits[P] \cup {k}]
  <1>1. FbTypeOK /\ IsTree(bits) /\ fbAt \in DOMAIN bits /\ fbAt \in TreeNodes
        /\ SearchInv /\ fbAt[1] > 0
    BY TreeOfBits DEF FbInv, FbTypeOK
  <1>2. /\ fbPc = "full" /\ fbPc' = "find" /\ fbAt' = P /\ fbNum' = 0
        /\ bits' = Freed(t, fbAt)
        /\ giving' = giving /\ fbAns' = fbAns /\ loaded' = loaded
    BY DEF Full, Goto
  <1>3. /\ P \in DOMAIN bits /\ P \in InnerNodes /\ P \in TreeNodes /\ k \in Bits
        /\ Child(P, k) = fbAt /\ P[1] = fbAt[1] - 1
    <2>1. P \in DOMAIN bits
      BY <1>1 DEF FbTypeOK
    <2> QED BY <1>1, <2>1, NodeIsChild DEF InnerNodes
  <1> HIDE DEF P, k
  <1>4. /\ Span(fbAt) = SpanOf(P, k) /\ FirstBelow(fbAt) = FirstOf(P, k)
        /\ bits[fbAt] = Bits
    BY <1>1, <1>2, <1>3, BitIsChild DEF SearchInv
  <1>5. /\ giving = -1 /\ Used = InUse
        /\ \A p, q \in DOMAIN bits : p[1] < q[1] =>
             \A d \in bits[p] : SpanOf(p, d) \cap Span(q) = {}
    BY <1>2, NotClearing
  <1>6. /\ IsTree(t) /\ DOMAIN t = DOMAIN bits /\ t[P] = bits[P] \cup {k}
        /\ \A q \in DOMAIN bits \ {P} : t[q] = bits[q]
    <2>1. bits[P] \cup {k} \subseteq Bits
      BY <1>1, <1>3 DEF IsTree
    <2> QED BY <1>1, <1>3, <2>1, ExceptIsTree
  <1> HIDE DEF t
  <1>7. /\ IsTree(bits') /\ DOMAIN bits' \subseteq DOMAIN bits
        /\ \A q \in DOMAIN bits' : bits'[q] = t[q]
        /\ \A q \in DOMAIN bits : q[1] < fbAt[1] => q \in DOMAIN bits'
        /\ \A q \in DOMAIN bits \ DOMAIN bits' : Span(q) \subseteq Span(fbAt)
        /\ \A q \in DOMAIN bits' : fbAt[1] <= q[1] => Span(q) \cap Span(fbAt) = {}
    BY <1>1, <1>2, <1>6, FreedIsTree
  <1>8. P \in DOMAIN bits' /\ bits'[P] = bits[P] \cup {k}
    <2>1. P[1] < fbAt[1]
      BY <1>1, <1>3, NodeNumbers
    <2> QED BY <1>3, <1>6, <1>7, <2>1
  <1>9. FbTypeOK'
    <2>1. fbNum' \in 0 .. FBLen * SubSize[fbAt'[1]] - 1
      BY <1>2, <1>3, ZeroIsNumber
    <2> QED BY <1>1, <1>2, <1>7, <1>8, <2>1 DEF FbTypeOK, IsTree
  <1>10. InUse' = InUse
    <2>1. ASSUME NEW n \in Span(fbAt) PROVE n \in InUse /\ n \in InUse'
      <3>1. n \in Numbers /\ n \in SpanOf(P, k)
        BY <1>1, <1>4, BelowRoot
      <3>2. n \in InUse
        BY <1>1, <1>4, <3>1, HasBit DEF InUse
      <3>3. n \in InUse'
        BY <1>8, <3>1 DEF InUse
      <3> QED BY <3>2, <3>3
    <2>2. ASSUME NEW n, n \in InUse PROVE n \in InUse'
      <3>1. PICK p \in DOMAIN bits : \E d \in bits[p] : n \in SpanOf(p, d)
        BY <2>2 DEF InUse
      <3>2. PICK d \in bits[p] : n \in SpanOf(p, d)
        BY <3>1
      <3>3. CASE p \in DOMAIN bits'
        <4>1. d \in bits'[p]
          BY <1>6, <1>7, <3>3
        <4> QED BY <2>2, <3>2, <3>3, <4>1 DEF InUse
      <3>4. CASE p \notin DOMAIN bits'
        <4>1. n \in Span(fbAt)
          BY <1>1, <1>7, <3>2, <3>4, BitBelow
        <4> QED BY <2>1, <4>1
      <3> QED BY <3>3, <3>4
    <2>3. ASSUME NEW n, n \in InUse' PROVE n \in InUse
      <3>1. PICK p \in DOMAIN bits' : \E d \in bits'[p] : n \in SpanOf(p, d)
        BY <2>3 DEF InUse
      <3>2. PICK d \in bits'[p] : n \in SpanOf(p, d)
        BY <3>1
      <3>3. CASE d \in bits[p]
        BY <1>7, <2>3, <3>2, <3>3 DEF InUse
      <3>4. CASE p = P /\ d = k
        BY <1>4, <2>1, <3>2, <3>4
      <3> QED BY <1>6, <1>7, <3>3, <3>4
    <2> QED BY <2>2, <2>3
  <1>11. MarkedIsFreed'
    <2>1. ASSUME NEW p \in DOMAIN bits', NEW q \in DOMAIN bits', p[1] < q[1],
                 NEW d \in bits'[p]
          PROVE  SpanOf(p, d) \cap Span(q) = {}
      <3>1. p \in DOMAIN bits /\ q \in DOMAIN bits /\ bits'[p] = t[p]
        BY <1>7
      <3>2. CASE d \in bits[p]
        BY <1>5, <2>1, <3>1, <3>2
      <3>3. CASE p = P /\ d = k
        <4>1. fbAt[1] <= q[1]
          <5>1. P[1] \in Nat /\ q[1] \in Nat /\ fbAt[1] \in Nat
            BY <1>1, <1>3, <3>1, NodeNumbers DEF IsTree
          <5> QED BY <1>3, <2>1, <3>3, <5>1
        <4> QED BY <1>4, <1>7, <3>3, <4>1
      <3> QED BY <1>6, <3>1, <3>2, <3>3
    <2> QED BY <2>1 DEF MarkedIsFreed
  <1>12. SearchInv'
    <2>1. FirstBelow(P) \in Nat /\ FirstBelow(P) <= FirstBelow(fbAt)
      <3>1. FirstOf(P, k) \in Span(P) /\ FirstOf(P, k) \in Nat /\ FirstBelow(P) \in Nat
            /\ FBLen * SubSize[P[1]] \in Nat
        BY <1>3, BitNumbers, NodeNumbers
      <3> QED BY <1>4, <3>1 DEF Span
    <2>2. FirstBelow(fbAt) \in Nat
      BY <1>1, NodeNumbers
    <2>3. ASSUME NEW n \in Numbers, n < FirstBelow(P) PROVE n \in InUse
      <3>1. n \in Nat
        BY <1>1, InUseCovered
      <3>2. n < FirstBelow(fbAt)
        BY <2>1, <2>2, <2>3, <3>1
      <3> QED BY <1>1, <1>2, <3>2 DEF SearchInv
    <2> QED BY <1>2, <1>10, <2>3 DEF SearchInv
  <1>13. (OthersKeepTheirs /\ ClearingInv)'
    <2>1. giving' = -1 /\ fbPc' = "find"
      BY <1>2, <1>5
    <2> QED BY <1>7, <2>1, NoneIsBelow DEF OthersKeepTheirs, ClearingInv
  <1>14. UNCHANGED numberVars
    BY <1>2, <1>10 DEF numberVars, Used, Number
  <1> QED BY <1>2, <1>9, <1>11, <1>12, <1>13, <1>14 DEF FbInv

LEMMA FoundRootStep ==
  ASSUME FbInv, loaded, Found, fbAt = Root
  PROVE  FbInv' /\ UNCHANGED numberVars
  <1>1. FbTypeOK /\ IsTree(bits) /\ Root \in TreeNodes
    BY TreeOfBits, RootNumbers DEF FbInv, InnerNodes
  <1>2. /\ fbPc = "found" /\ fbPc' = "idle" /\ fbAt' = Root /\ fbNum' = 0
        /\ bits' = bits /\ giving' = -1 /\ fbAns' = fbNum /\ loaded' = loaded
    BY DEF Found, Goto, Returns
  <1>3. /\ giving = -1 /\ Used = InUse
        /\ \A p, q \in DOMAIN bits : p[1] < q[1] =>
             \A d \in bits[p] : SpanOf(p, d) \cap Span(q) = {}
    BY <1>2, NotClearing
  <1>4. fbNum \in Numbers /\ 0 + fbNum = fbNum
    <2>1. fbNum \in Numbers
      BY <1>1, RootNumbers DEF FbTypeOK, Numbers
    <2> QED BY <1>1, <2>1, InUseCovered
  <1>5. FbTypeOK'
    <2>1. fbNum' \in 0 .. FBLen * SubSize[fbAt'[1]] - 1
      BY <1>1, <1>2, ZeroIsNumber
    <2> QED BY <1>1, <1>2, <1>4, <2>1 DEF FbTypeOK
  <1>6. MarkedIsFreed'
    BY <1>2, <1>3 DEF MarkedIsFreed
  <1>7. SearchInv' /\ (OthersKeepTheirs /\ ClearingInv)'
    BY <1>1, <1>2, NoneIsBelow DEF SearchInv, OthersKeepTheirs, ClearingInv
  <1>8. InUse' = InUse
    BY <1>2 DEF InUse
  <1>9. UNCHANGED numberVars
    BY <1>2, <1>3, <1>4, <1>8, RootNumbers DEF numberVars, Used, Number
  <1> QED BY <1>2, <1>5, <1>6, <1>7, <1>9 DEF FbInv

\* What a node has found, counted from the first number below its parent.
LEMMA FoundInParent ==
  ASSUME NEW p \in InnerNodes, NEW c \in Bits,
         NEW k \in 0 .. FBLen * SubSize[p[1] + 1] - 1
  PROVE  /\ c * SubSize[p[1]] + k \in 0 .. FBLen * SubSize[p[1]] - 1
         /\ FirstBelow(p) + (c * SubSize[p[1]] + k) = FirstOf(p, c) + k
  <1> DEFINE s == SubSize[p[1]]
             x == FirstBelow(p)
  <1>1. p \in TreeNodes /\ p[1] \in 0 .. MaxDepth - 1
    BY FastBitAssumption DEF InnerNodes, TreeNodes
  <1>2. s = FBLen * SubSize[p[1] + 1]
    BY <1>1, SubSizeStep
  <1>3. s \in Nat \ {0} /\ x \in Nat /\ c \in Nat /\ FirstOf(p, c) = x + c * s
    BY <1>1, NodeNumbers, BitNumbers
  <1> HIDE DEF x, s
  <1>4. k \in 0 .. s - 1
    BY <1>2
  <1>5. c * s + s <= FBLen * s
    <2>1. (c + 1) * s <= FBLen * s
      BY <1>3, FastBitAssumption, MultipleMono DEF Bits
    <2>2. (c + 1) * s = c * s + s
      BY <1>3
    <2> QED BY <2>1, <2>2
  <1> DEFINE y == c * s
             z == FBLen * s
  <1>6. y \in Nat /\ z \in Nat
    BY <1>3, FastBitAssumption
  <1>7. y + s <= z /\ FirstOf(p, c) = x + y
    BY <1>3, <1>5
  <1> HIDE DEF y, z
  <1>8. y + k \in 0 .. z - 1 /\ x + (y + k) = (x + y) + k
    BY <1>3, <1>4, <1>6, <1>7
  <1> QED BY <1>7, <1>8 DEF x, y, z, s

LEMMA FoundChildStep ==
  ASSUME FbInv, loaded, Found, fbAt # Root
  PROVE  FbInv' /\ UNCHANGED numberVars
  <1> DEFINE P == Parent(fbAt)
             k == ChildNum(fbAt)
  <1>1. FbTypeOK /\ IsTree(bits) /\ fbAt \in DOMAIN bits /\ fbAt \in TreeNodes
        /\ fbAt[1] > 0
    BY TreeOfBits DEF FbInv, FbTypeOK
  <1>2. /\ fbPc = "found" /\ fbPc' = "found" /\ fbAt' = P
        /\ fbNum' = k * SubSize[fbAt[1] - 1] + fbNum
        /\ bits' = bits /\ giving' = giving /\ fbAns' = fbAns /\ loaded' = loaded
    BY DEF Found, Goto
  <1>3. /\ P \in DOMAIN bits /\ P \in InnerNodes /\ P \in TreeNodes /\ k \in Bits
        /\ Child(P, k) = fbAt /\ P[1] = fbAt[1] - 1
    <2>1. P \in DOMAIN bits
      BY <1>1 DEF FbTypeOK
    <2> QED BY <1>1, <2>1, NodeIsChild DEF InnerNodes
  <1> HIDE DEF P, k
  <1>4. P[1] + 1 = fbAt[1] /\ FirstBelow(fbAt) = FirstOf(P, k)
    <2>1. P[1] \in Nat /\ fbAt[1] \in Nat
      BY <1>1, <1>3, NodeNumbers
    <2> QED BY <1>3, <2>1, BitIsChild
  <1>5. fbNum \in 0 .. FBLen * SubSize[P[1] + 1] - 1
    BY <1>1, <1>4 DEF FbTypeOK
  <1>6. /\ fbNum' \in 0 .. FBLen * SubSize[P[1]] - 1
        /\ FirstBelow(P) + fbNum' = FirstBelow(fbAt) + fbNum
    BY <1>2, <1>3, <1>4, <1>5, FoundInParent
  <1>7. FbTypeOK'
    BY <1>1, <1>2, <1>3, <1>6 DEF FbTypeOK
  <1>8. /\ giving = -1 /\ \A p, q \in DOMAIN bits : p[1] < q[1] =>
             \A d \in bits[p] : SpanOf(p, d) \cap Span(q) = {}
    BY <1>2, NotClearing
  <1>9. MarkedIsFreed'
    BY <1>2, <1>8 DEF MarkedIsFreed
  <1>10. SearchInv' /\ (OthersKeepTheirs /\ ClearingInv)'
    BY <1>1, <1>2, <1>8, NoneIsBelow DEF SearchInv, OthersKeepTheirs, ClearingInv
  <1>11. InUse' = InUse
    BY <1>2 DEF InUse
  <1>12. UNCHANGED numberVars
    BY <1>2, <1>6, <1>11 DEF numberVars, Used, Number
  <1> QED BY <1>2, <1>7, <1>9, <1>10, <1>12 DEF FbInv

LEMMA GetFirstStep ==
  ASSUME FbInv, GetFirst
  PROVE  FbInv' /\ UNCHANGED numberVars
  <1>1. FbTypeOK /\ IsTree(bits) /\ Root \in TreeNodes /\ Root \in DOMAIN bits
    BY TreeOfBits, RootNumbers DEF FbInv, InnerNodes, FbTypeOK
  <1>2. /\ fbPc = "idle" /\ fbPc' = "find" /\ fbAt' = Root /\ fbNum' = 0
        /\ bits' = bits /\ giving' = giving /\ fbAns' = fbAns /\ loaded' = loaded /\ loaded
    BY DEF GetFirst, Goto
  <1>3. /\ giving = -1 /\ \A p, q \in DOMAIN bits : p[1] < q[1] =>
             \A d \in bits[p] : SpanOf(p, d) \cap Span(q) = {}
    BY <1>2, NotClearing
  <1>4. FbTypeOK'
    <2>1. fbNum' \in 0 .. FBLen * SubSize[fbAt'[1]] - 1
      BY <1>1, <1>2, ZeroIsNumber
    <2> QED BY <1>1, <1>2, <2>1 DEF FbTypeOK
  <1>5. MarkedIsFreed'
    BY <1>2, <1>3 DEF MarkedIsFreed
  <1>6. SearchInv'
    <2>1. \A n \in Numbers : ~ (n < FirstBelow(Root))
      BY <1>1, InUseCovered, RootNumbers
    <2> QED BY <1>2, <2>1 DEF SearchInv
  <1>7. (OthersKeepTheirs /\ ClearingInv)'
    BY <1>1, <1>2, <1>3, NoneIsBelow DEF OthersKeepTheirs, ClearingInv
  <1>8. InUse' = InUse
    BY <1>2 DEF InUse
  <1>9. UNCHANGED numberVars
    BY <1>2, <1>8 DEF numberVars, Used, Number
  <1> QED BY <1>2, <1>4, <1>5, <1>6, <1>7, <1>9 DEF FbInv

-----------------------------------------------------------------------------
(* Giving back.                                                            *)

LEMMA ClearNStep ==
  ASSUME FbInv, NEW n \in Numbers, ClearN(n)
  PROVE  FbInv' /\ NumberMap!GiveBack
  <1>1. FbTypeOK /\ IsTree(bits) /\ Root \in TreeNodes /\ Root \in DOMAIN bits
    BY TreeOfBits, RootNumbers DEF FbInv, InnerNodes, FbTypeOK
  <1>2. /\ fbPc = "idle" /\ fbPc' = "clear" /\ fbAt' = Root /\ fbNum' = n
        /\ bits' = bits /\ giving' = n /\ fbAns' = fbAns /\ loaded' = loaded /\ loaded
        /\ n \in InUse
    BY DEF ClearN, Goto
  <1>3. /\ giving = -1 /\ Used = InUse /\ \A p, q \in DOMAIN bits : p[1] < q[1] =>
             \A d \in bits[p] : SpanOf(p, d) \cap Span(q) = {}
    BY <1>2, NotClearing
  <1>4. FbTypeOK'
    <2>1. fbNum' \in 0 .. FBLen * SubSize[fbAt'[1]] - 1
      BY <1>2, RootNumbers DEF Numbers
    <2> QED BY <1>1, <1>2, <2>1 DEF FbTypeOK
  <1>5. MarkedIsFreed'
    BY <1>2, <1>3 DEF MarkedIsFreed
  <1>6. SearchInv'
    BY <1>2 DEF SearchInv
  <1>7. OthersKeepTheirs'
    <2>1. ASSUME NEW p \in DOMAIN bits, NEW d \in bits[p],
                 p[1] < MaxDepth, n \in SpanOf(p, d), Child(p, d) \in DOMAIN bits
          PROVE  FALSE
      <3>1. p \in TreeNodes /\ d \in Bits /\ p \in InnerNodes
        BY <1>1, <2>1, BitBelow DEF InnerNodes
      <3>2. Child(p, d)[1] = p[1] + 1 /\ Span(Child(p, d)) = SpanOf(p, d)
        BY <3>1, BitIsChild
      <3>3. p[1] < Child(p, d)[1]
        BY <3>1, <3>2, NodeNumbers
      <3> QED BY <1>3, <2>1, <3>2, <3>3
    <2> QED BY <1>2, <2>1 DEF OthersKeepTheirs
  <1>8. ClearingInv'
    <2>1. n # -1 /\ n = 0 + n /\ FirstBelow(Root) = 0 /\ Root[1] = 0
      BY <1>1, InUseCovered, RootNumbers
    <2>2. Covers(bits, n, 0)
      BY <1>1, <1>2, InUseCovered
    <2> QED BY <1>2, <2>1, <2>2 DEF ClearingInv
  <1>9. InUse' = InUse
    BY <1>2 DEF InUse
  <1>10. n \in Used /\ Used' = Used \ {n} /\ Number' = Number /\ loaded' = loaded
    BY <1>2, <1>3, <1>9 DEF Used, Number
  <1>11. NumberMap!GiveBack
    BY <1>2, <1>10 DEF NumberMap!GiveBack, Used, Number
  <1> QED BY <1>2, <1>4, <1>5, <1>6, <1>7, <1>8, <1>11 DEF FbInv

\* On the way down to a child that is there.
LEMMA ClearThereStep ==
  ASSUME FbInv, loaded, Clear, fbAt[1] # MaxDepth,
         Child(fbAt, fbNum \div SubSize[fbAt[1]]) \in DOMAIN bits
  PROVE  FbInv' /\ UNCHANGED numberVars
  <1> DEFINE c == fbNum \div SubSize[fbAt[1]]
             r == Child(fbAt, c)
  <1>1. FbTypeOK /\ IsTree(bits) /\ fbAt \in DOMAIN bits /\ fbAt \in InnerNodes
        /\ fbAt \in TreeNodes /\ fbAt[1] \in 0 .. MaxDepth - 1
    <2>1. FbTypeOK
      BY DEF FbInv
    <2>2. IsTree(bits) /\ fbAt \in DOMAIN bits /\ fbAt \in TreeNodes
      BY <2>1, TreeOfBits
    <2>3. fbAt[1] \in 0 .. MaxDepth - 1
      BY <2>2, NodeNumbers, FastBitAssumption
    <2> QED BY <2>1, <2>2, <2>3, FastBitAssumption DEF InnerNodes
  <1>2. /\ fbPc = "clear" /\ fbPc' = "clear" /\ fbAt' = r
        /\ fbNum' = fbNum % SubSize[fbAt[1]]
        /\ bits' = WithNode(bits, r, Bits)
        /\ giving' = giving /\ fbAns' = fbAns /\ loaded' = loaded
    BY DEF Clear, Goto
  <1>3. /\ giving = FirstBelow(fbAt) + fbNum /\ Covers(bits, giving, fbAt[1])
        /\ giving # -1 /\ MarkedIsFreed /\ OthersKeepTheirs
    BY <1>2 DEF FbInv, ClearingInv
  <1>4. /\ c \in Bits /\ giving \in SpanOf(fbAt, c)
        /\ FirstOf(fbAt, c) + fbNum' = giving
        /\ fbNum' \in 0 .. SubSize[fbAt[1]] - 1
    <2>1. fbNum \in 0 .. FBLen * SubSize[fbAt[1]] - 1
      BY <1>1 DEF FbTypeOK
    <2> QED BY <1>1, <1>2, <1>3, <2>1, BitOfNumber
  <1>5. r \in DOMAIN bits
    OBVIOUS
  <1> HIDE DEF c
  <1>6. /\ r[1] = fbAt[1] + 1 /\ Span(r) = SpanOf(fbAt, c)
        /\ FirstBelow(r) = FirstOf(fbAt, c)
    BY <1>1, <1>4, BitIsChild
  <1> HIDE DEF r
  <1>7. /\ IsTree(bits') /\ DOMAIN bits' = DOMAIN bits
        /\ \A q \in DOMAIN bits : bits'[q] = bits[q]
    <2>1. DOMAIN bits' = DOMAIN bits \cup {r}
          /\ \A q \in DOMAIN bits : bits'[q] = bits[q]
      BY <1>2 DEF WithNode
    <2>2. DOMAIN bits' = DOMAIN bits
      BY <1>5, <2>1
    <2> QED BY <1>1, <2>1, <2>2 DEF IsTree
  <1>8. FbTypeOK'
    <2>1. SubSize[fbAt[1]] = FBLen * SubSize[r[1]]
      BY <1>1, <1>6, SubSizeStep
    <2> QED BY <1>1, <1>2, <1>4, <1>5, <1>7, <2>1 DEF FbTypeOK, IsTree
  <1>9. \A n, d : Covers(bits', n, d) <=> Covers(bits, n, d)
    BY <1>7 DEF Covers
  <1>10. InUse' = InUse
    BY <1>7 DEF InUse
  <1>11. MarkedIsFreed'
    <2>1. ASSUME NEW p, NEW q \in DOMAIN bits, NEW d, Reopened(p, d, q)
          PROVE  Reopened(p, d, q)'
      <3>1. q[1] \in Nat /\ fbAt[1] \in Nat
        BY <1>1, NodeNumbers DEF IsTree
      <3> QED BY <1>2, <1>6, <2>1, <3>1 DEF Reopened
    <2> QED BY <1>3, <1>7, <2>1 DEF MarkedIsFreed
  <1>12. SearchInv'
    BY <1>2 DEF SearchInv
  <1>13. OthersKeepTheirs'
    BY <1>2, <1>3, <1>7, <1>9 DEF OthersKeepTheirs
  <1>14. ClearingInv'
    <2>1. c \notin bits[fbAt]
      <3> SUFFICES ASSUME c \in bits[fbAt] PROVE FALSE
        OBVIOUS
      <3>1. fbAt[1] < r[1] /\ ~ (r[1] <= fbAt[1])
        BY <1>1, <1>6
      <3>2. ~ Reopened(fbAt, c, r)
        BY <1>2, <3>1 DEF Reopened
      <3>3. SpanOf(fbAt, c) \cap Span(r) = {}
        BY <1>1, <1>3, <1>5, <3>1, <3>2 DEF MarkedIsFreed
      <3> QED BY <1>4, <1>6, <3>3
    <2>2. Covers(bits, giving, fbAt[1] + 1)
      BY <1>1, <1>3, <1>4, <2>1, CoverAtDepth
    <2> QED BY <1>2, <1>3, <1>4, <1>6, <1>9, <2>2 DEF ClearingInv
  <1>15. UNCHANGED numberVars
    BY <1>2, <1>10 DEF numberVars, Used, Number
  <1> QED BY <1>2, <1>8, <1>11, <1>12, <1>13, <1>14, <1>15 DEF FbInv

\* On the way down to a child that is not there, and is made all ones.
LEMMA ClearMissingStep ==
  ASSUME FbInv, loaded, Clear, fbAt[1] # MaxDepth,
         Child(fbAt, fbNum \div SubSize[fbAt[1]]) \notin DOMAIN bits
  PROVE  FbInv' /\ UNCHANGED numberVars
  <1> DEFINE c == fbNum \div SubSize[fbAt[1]]
             r == Child(fbAt, c)
  <1>1. FbTypeOK /\ IsTree(bits) /\ fbAt \in DOMAIN bits /\ fbAt \in InnerNodes
        /\ fbAt \in TreeNodes /\ fbAt[1] \in 0 .. MaxDepth - 1
    <2>1. FbTypeOK
      BY DEF FbInv
    <2>2. IsTree(bits) /\ fbAt \in DOMAIN bits /\ fbAt \in TreeNodes
      BY <2>1, TreeOfBits
    <2>3. fbAt[1] \in 0 .. MaxDepth - 1
      BY <2>2, NodeNumbers, FastBitAssumption
    <2> QED BY <2>1, <2>2, <2>3, FastBitAssumption DEF InnerNodes
  <1>2. /\ fbPc = "clear" /\ fbPc' = "clear" /\ fbAt' = r
        /\ fbNum' = fbNum % SubSize[fbAt[1]]
        /\ bits' = WithNode(bits, r, Bits)
        /\ giving' = giving /\ fbAns' = fbAns /\ loaded' = loaded
    BY DEF Clear, Goto
  <1>3. /\ giving = FirstBelow(fbAt) + fbNum /\ Covers(bits, giving, fbAt[1])
        /\ giving # -1 /\ MarkedIsFreed /\ OthersKeepTheirs
    BY <1>2 DEF FbInv, ClearingInv
  <1>4. /\ c \in Bits /\ giving \in SpanOf(fbAt, c)
        /\ FirstOf(fbAt, c) + fbNum' = giving
        /\ fbNum' \in 0 .. SubSize[fbAt[1]] - 1
    <2>1. fbNum \in 0 .. FBLen * SubSize[fbAt[1]] - 1
      BY <1>1 DEF FbTypeOK
    <2> QED BY <1>1, <1>2, <1>3, <2>1, BitOfNumber
  <1>5. r \notin DOMAIN bits
    OBVIOUS
  <1> HIDE DEF c
  <1>6. /\ r \in TreeNodes /\ r[1] = fbAt[1] + 1 /\ Span(r) = SpanOf(fbAt, c)
        /\ FirstBelow(r) = FirstOf(fbAt, c) /\ Parent(r) = fbAt /\ ChildNum(r) = c
    BY <1>1, <1>4, BitIsChild
  <1>7. /\ IsTree(bits') /\ DOMAIN bits' = DOMAIN bits \cup {r}
        /\ \A q \in DOMAIN bits : bits'[q] = bits[q]
        /\ bits'[r] = Bits
    <2>1. PICK b \in SUBSET Bits : b = Bits
      OBVIOUS
    <2>2. r = Child(fbAt, c)
      OBVIOUS
    <2> HIDE DEF r
    <2>3. bits' = WithNode(bits, r, b) /\ b \in SUBSET Bits
      BY <1>2, <2>1
    <2>4. /\ IsTree(bits') /\ DOMAIN bits' = DOMAIN bits \cup {r}
          /\ \A q \in DOMAIN bits : bits'[q] = bits[q]
          /\ r \notin DOMAIN bits => bits'[r] = b
      <3>1. IsTree(bits) /\ fbAt \in DOMAIN bits /\ fbAt \in InnerNodes /\ c \in Bits
        BY <1>1, <1>4
      <3> QED BY ONLY <3>1, <2>2, <2>3, WithNodeIsTree
    <2> QED BY <1>5, <2>1, <2>4
  \* No node is below the missing one.
  <1>8. \A q \in DOMAIN bits : fbAt[1] < q[1] => Span(q) \cap SpanOf(fbAt, c) = {}
    BY <1>1, <1>4, <1>5, MissingChild
  <1> HIDE DEF r
  <1>9. FbTypeOK'
    <2>1. SubSize[fbAt[1]] = FBLen * SubSize[r[1]]
      BY <1>1, <1>6, SubSizeStep
    <2> QED BY <1>1, <1>2, <1>4, <1>7, <2>1 DEF FbTypeOK, IsTree
  <1>10. \A n, d : Covers(bits, n, d) => Covers(bits', n, d)
    BY <1>7 DEF Covers
  \* What the new node says is in use its parent said is.
  <1>11. c \in bits[fbAt]
    <2> SUFFICES ASSUME c \notin bits[fbAt] PROVE FALSE
      OBVIOUS
    <2>1. Covers(bits, giving, fbAt[1] + 1)
      BY <1>1, <1>3, <1>4, CoverAtDepth
    <2>2. PICK q \in DOMAIN bits : fbAt[1] + 1 <= q[1] /\ \E d \in bits[q] : giving \in SpanOf(q, d)
      BY <2>1 DEF Covers
    <2>3. fbAt[1] < q[1] /\ giving \in Span(q)
      BY <1>1, <2>2, BitBelow, NodeNumbers
    <2> QED BY <1>4, <1>8, <2>3
  <1>12. InUse' = InUse
    <2>1. ASSUME NEW n, n \in InUse PROVE n \in InUse'
      BY <1>7, <2>1 DEF InUse
    <2>2. ASSUME NEW n, n \in InUse' PROVE n \in InUse
      <3>1. PICK p \in DOMAIN bits' : \E d \in bits'[p] : n \in SpanOf(p, d)
        BY <2>2 DEF InUse
      <3>2. PICK d \in bits'[p] : n \in SpanOf(p, d)
        BY <3>1
      <3>3. CASE p \in DOMAIN bits
        BY <1>7, <2>2, <3>2, <3>3 DEF InUse
      <3>4. CASE p = r
        <4>1. n \in Span(r)
          BY <1>7, <3>2, <3>4, BitBelow
        <4> QED BY <1>1, <1>6, <1>11, <2>2, <4>1 DEF InUse
      <3> QED BY <1>7, <3>3, <3>4
    <2> QED BY <2>1, <2>2
  <1>13. MarkedIsFreed'
    <2>1. ASSUME NEW p \in DOMAIN bits, NEW q \in DOMAIN bits, NEW d, Reopened(p, d, q)
          PROVE  Reopened(p, d, q)'
      <3>1. q[1] \in Nat /\ fbAt[1] \in Nat
        BY <1>1, NodeNumbers DEF IsTree
      <3> QED BY <1>2, <1>6, <2>1, <3>1 DEF Reopened
    <2>2. ASSUME NEW p \in DOMAIN bits', NEW q \in DOMAIN bits', p[1] < q[1],
                 NEW d \in bits'[p]
          PROVE  SpanOf(p, d) \cap Span(q) = {} \/ Reopened(p, d, q)'
      <3>1. CASE p \in DOMAIN bits /\ q \in DOMAIN bits
        BY <1>3, <1>7, <2>1, <2>2, <3>1 DEF MarkedIsFreed
      <3>2. CASE p \in DOMAIN bits /\ q = r
        <4> SUFFICES ASSUME NEW n \in SpanOf(p, d), n \in Span(r)
                     PROVE  Reopened(p, d, q)'
          BY <3>2
        <4>1. p \in TreeNodes /\ d \in Bits
          BY <1>7, BitBelow
        <4>2. Span(r) \subseteq SpanOf(p, d)
          BY <1>6, <2>2, <3>2, <4>1, Nested
        <4>3. q[1] <= fbAt'[1]
          BY <1>2, <1>6, <3>2, NodeNumbers
        <4> QED BY <1>2, <1>4, <1>6, <3>2, <4>2, <4>3 DEF Reopened
      <3>3. CASE p = r /\ q \in DOMAIN bits
        <4>1. fbAt[1] < q[1]
          BY <1>1, <1>6, <2>2, <3>3, NodeNumbers DEF IsTree
        <4>2. SpanOf(p, d) \subseteq Span(r)
          BY <1>7, <3>3, BitBelow
        <4> QED BY <1>6, <1>8, <3>3, <4>1, <4>2
      <3>4. CASE p = r /\ q = r
        BY <1>6, <2>2, <3>4, NodeNumbers
      <3> QED BY <1>7, <3>1, <3>2, <3>3, <3>4
    <2> QED BY <2>2 DEF MarkedIsFreed
  <1>14. SearchInv'
    BY <1>2 DEF SearchInv
  <1>15. OthersKeepTheirs'
    <2>1. ASSUME NEW p \in DOMAIN bits', NEW d \in bits'[p], p[1] < MaxDepth,
                 giving \in SpanOf(p, d), Child(p, d) \in DOMAIN bits',
                 NEW m \in SpanOf(p, d), m # giving
          PROVE  Covers(bits', m, p[1] + 1)
      <3>1. p \in InnerNodes /\ d \in Bits
        BY <1>7, <2>1, BitBelow DEF InnerNodes
      <3>2. Parent(Child(p, d)) = p /\ ChildNum(Child(p, d)) = d /\ Child(p, d) # Root
            /\ Child(p, d)[1] = p[1] + 1
        BY <3>1, BitIsChild
      <3>3. CASE p \in DOMAIN bits /\ Child(p, d) \in DOMAIN bits
        <4>1. d \in bits[p]
          BY <1>7, <3>3
        <4>2. Covers(bits, m, p[1] + 1)
          BY <1>3, <2>1, <3>3, <4>1 DEF OthersKeepTheirs
        <4> QED BY <1>10, <4>2
      <3>4. CASE Child(p, d) = r
        <4>1. p = fbAt /\ d = c
          BY <1>6, <3>2, <3>4
        <4>2. PICK e \in Bits : m \in SpanOf(r, e)
          BY <1>6, <2>1, <4>1, HasBit
        <4>3. p[1] + 1 <= r[1]
          BY <1>6, <4>1, NodeNumbers
        <4> QED BY <1>7, <4>2, <4>3 DEF Covers
      <3>5. CASE p = r /\ Child(p, d) \in DOMAIN bits
        BY <1>1, <1>5, <3>2, <3>5 DEF IsTree
      <3> QED BY <1>7, <2>1, <3>3, <3>4, <3>5
    <2> QED BY <1>2, <2>1 DEF OthersKeepTheirs
  <1>16. ClearingInv'
    <2>1. giving \in Span(r)
      BY <1>4, <1>6
    <2>2. PICK e \in Bits : giving \in SpanOf(r, e)
      BY <1>6, <2>1, HasBit
    <2>3. Covers(bits', giving, r[1])
      <3>1. r[1] <= r[1]
        BY <1>6, NodeNumbers
      <3> QED BY <1>7, <2>2, <3>1 DEF Covers
    <2> QED BY <1>2, <1>3, <1>4, <1>6, <2>3 DEF ClearingInv
  <1>17. UNCHANGED numberVars
    BY <1>2, <1>12 DEF numberVars, Used, Number
  <1> QED BY <1>2, <1>9, <1>13, <1>14, <1>15, <1>16, <1>17 DEF FbInv

\* At the leaf: the number loses its bit.
LEMMA ClearLeafStep ==
  ASSUME FbInv, loaded, Clear, fbAt[1] = MaxDepth
  PROVE  FbInv' /\ UNCHANGED numberVars
  <1> DEFINE b == bits[fbAt] \ {fbNum}
  <1>1. FbTypeOK /\ IsTree(bits) /\ fbAt \in DOMAIN bits /\ fbAt \in TreeNodes
    BY TreeOfBits DEF FbInv
  <1>2. /\ fbPc = "clear" /\ fbPc' = "cleared" /\ fbAt' = fbAt /\ fbNum' = 0
        /\ bits' = [bits EXCEPT ![fbAt] = b]
        /\ giving' = giving /\ fbAns' = fbAns /\ loaded' = loaded
    BY DEF Clear, Goto
  <1>3. /\ giving = FirstBelow(fbAt) + fbNum /\ Covers(bits, giving, fbAt[1])
        /\ giving # -1 /\ MarkedIsFreed /\ OthersKeepTheirs
    BY <1>2 DEF FbInv, ClearingInv
  <1>4. /\ IsTree(bits') /\ DOMAIN bits' = DOMAIN bits /\ bits'[fbAt] = b
        /\ \A q \in DOMAIN bits \ {fbAt} : bits'[q] = bits[q]
    <2>1. b \subseteq Bits
      BY <1>1 DEF IsTree
    <2> QED BY <1>1, <1>2, <2>1, ExceptIsTree
  <1>5. fbNum \in Bits /\ SpanOf(fbAt, fbNum) = {giving} /\ giving \in Span(fbAt)
    <2>1. fbNum \in 0 .. FBLen * SubSize[fbAt[1]] - 1
      BY <1>1 DEF FbTypeOK
    <2>2. fbNum \in Bits
      BY <1>1, <2>1, SubSizeStep, FastBitAssumption DEF Bits
    <2> QED BY <1>1, <1>3, <2>2, LeafNumbers, BitNumbers
  <1>6. \A p \in DOMAIN bits : p \in TreeNodes /\ p[1] \in 0 .. MaxDepth
    BY <1>1, NodeNumbers DEF IsTree
  \* Only the number given back has lost a bit.
  <1>7. \A p \in DOMAIN bits : bits'[p] \subseteq bits[p]
    BY <1>4
  <1>8. ASSUME NEW p \in DOMAIN bits, NEW d \in bits[p], NEW n \in SpanOf(p, d),
               n # giving
        PROVE  d \in bits'[p]
    BY <1>4, <1>5, <1>8
  <1>9. ASSUME NEW n, n # giving, NEW e, Covers(bits, n, e)
        PROVE  Covers(bits', n, e)
    BY <1>4, <1>8, <1>9 DEF Covers
  <1>10. FbTypeOK'
    <2>1. fbNum' \in 0 .. FBLen * SubSize[fbAt'[1]] - 1
      BY <1>1, <1>2, ZeroIsNumber
    <2> QED BY <1>1, <1>2, <1>4, <2>1 DEF FbTypeOK, IsTree
  <1>11. InUse' \ {giving} = InUse \ {giving}
    <2>1. ASSUME NEW n, n \in InUse, n # giving PROVE n \in InUse'
      BY <1>4, <1>8, <2>1 DEF InUse
    <2>2. ASSUME NEW n, n \in InUse' PROVE n \in InUse
      BY <1>4, <1>7, <2>2 DEF InUse
    <2> QED BY <2>1, <2>2
  <1>12. MarkedIsFreed'
    <2>1. ASSUME NEW p \in DOMAIN bits, NEW q \in DOMAIN bits, p[1] < q[1], NEW d,
                 Reopened(p, d, q)
          PROVE  Reopened(p, d, q)'
      <3>1. p[1] < fbAt[1]
        BY <1>6, <2>1, FastBitAssumption
      <3> QED BY <1>2, <2>1, <3>1 DEF Reopened
    <2> QED BY <1>3, <1>4, <1>7, <2>1 DEF MarkedIsFreed
  <1>13. SearchInv'
    BY <1>2 DEF SearchInv
  <1>14. OthersKeepTheirs'
    <2>1. ASSUME NEW p \in DOMAIN bits', NEW d \in bits'[p], p[1] < MaxDepth,
                 giving \in SpanOf(p, d), Child(p, d) \in DOMAIN bits',
                 NEW m \in SpanOf(p, d), m # giving
          PROVE  Covers(bits', m, p[1] + 1)
      <3>1. Covers(bits, m, p[1] + 1)
        BY <1>3, <1>4, <1>7, <2>1 DEF OthersKeepTheirs
      <3> QED BY <1>9, <2>1, <3>1
    <2> QED BY <1>2, <2>1 DEF OthersKeepTheirs
  <1>15. ClearingInv'
    <2>1. ~ Covers(bits', giving, fbAt[1])
      <3> SUFFICES ASSUME NEW p \in DOMAIN bits', fbAt[1] <= p[1],
                          NEW d \in bits'[p], giving \in SpanOf(p, d)
                   PROVE  FALSE
        BY DEF Covers
      <3>1. p \in TreeNodes /\ d \in Bits /\ giving \in Span(p) /\ p[1] = fbAt[1]
        BY <1>1, <1>4, <1>6, BitBelow
      <3>2. p = fbAt
        BY <1>1, <1>5, <3>1, SameDepth
      <3>3. giving \in SpanOf(fbAt, fbNum)
        BY <1>5
      <3>4. d = fbNum
        BY <1>1, <1>5, <3>1, <3>2, <3>3, OneBit
      <3> QED BY <1>4, <3>2, <3>4
    <2> QED BY <1>2, <1>3, <1>5, <2>1 DEF ClearingInv
  <1>16. UNCHANGED numberVars
    BY <1>2, <1>11 DEF numberVars, Used, Number
  <1> QED BY <1>2, <1>10, <1>12, <1>13, <1>14, <1>15, <1>16 DEF FbInv

LEMMA ClearedRootStep ==
  ASSUME FbInv, loaded, Cleared, fbAt = Root
  PROVE  FbInv' /\ UNCHANGED numberVars
  <1>1. FbTypeOK /\ IsTree(bits) /\ Root \in TreeNodes /\ Root[1] = 0
    BY TreeOfBits, RootNumbers DEF FbInv, InnerNodes
  <1>2. /\ fbPc = "cleared" /\ fbPc' = "idle" /\ fbAt' = Root /\ fbNum' = 0
        /\ bits' = bits /\ giving' = -1 /\ fbAns' = fbAns /\ loaded' = loaded
    BY DEF Cleared, Goto, Returns
  <1>3. MarkedIsFreed /\ giving \notin InUse
    BY <1>1, <1>2, InUseCovered DEF FbInv, ClearingInv
  <1>4. FbTypeOK'
    <2>1. fbNum' \in 0 .. FBLen * SubSize[fbAt'[1]] - 1
      BY <1>1, <1>2, ZeroIsNumber
    <2> QED BY <1>1, <1>2, <2>1 DEF FbTypeOK
  <1>5. InUse' = InUse
    BY <1>2 DEF InUse
  <1>6. MarkedIsFreed'
    <2>1. ASSUME NEW p \in DOMAIN bits, NEW q, NEW d PROVE ~ Reopened(p, d, q)
      <3>1. ~ (p[1] < 0)
        BY <1>1, NodeNumbers DEF IsTree
      <3> QED BY <1>1, <1>2, <3>1 DEF Reopened
    <2> QED BY <1>2, <1>3, <2>1 DEF MarkedIsFreed
  <1>7. SearchInv' /\ (OthersKeepTheirs /\ ClearingInv)'
    BY <1>1, <1>2, NoneIsBelow DEF SearchInv, OthersKeepTheirs, ClearingInv
  <1>8. UNCHANGED numberVars
    <2>1. -1 \notin InUse
      BY <1>1, InUseCovered
    <2> QED BY <1>2, <1>3, <1>5, <2>1 DEF numberVars, Used, Number
  <1> QED BY <1>2, <1>4, <1>6, <1>7, <1>8 DEF FbInv

\* On the way up: the child's bit is cleared.
LEMMA ClearedChildStep ==
  ASSUME FbInv, loaded, Cleared, fbAt # Root
  PROVE  FbInv' /\ UNCHANGED numberVars
  <1> DEFINE P == Parent(fbAt)
             k == ChildNum(fbAt)
             b == bits[P] \ {k}
  <1>1. FbTypeOK /\ IsTree(bits) /\ fbAt \in DOMAIN bits /\ fbAt \in TreeNodes
        /\ fbAt[1] > 0
    BY TreeOfBits DEF FbInv, FbTypeOK
  <1>2. /\ fbPc = "cleared" /\ fbPc' = "cleared" /\ fbAt' = P /\ fbNum' = 0
        /\ bits' = [bits EXCEPT ![P] = b]
        /\ giving' = giving /\ fbAns' = fbAns /\ loaded' = loaded
    BY DEF Cleared, Goto
  <1>3. /\ P \in DOMAIN bits /\ P \in InnerNodes /\ P \in TreeNodes /\ k \in Bits
        /\ Child(P, k) = fbAt /\ P[1] = fbAt[1] - 1
    <2>1. P \in DOMAIN bits
      BY <1>1 DEF FbTypeOK
    <2> QED BY <1>1, <2>1, NodeIsChild DEF InnerNodes
  <1>4. /\ IsTree(bits') /\ DOMAIN bits' = DOMAIN bits /\ bits'[P] = b
        /\ \A q \in DOMAIN bits \ {P} : bits'[q] = bits[q]
    <2>1. b \subseteq Bits
      BY <1>1, <1>3 DEF IsTree
    <2> QED BY <1>1, <1>2, <1>3, <2>1, ExceptIsTree
  <1> HIDE DEF P, k
  <1>5. /\ Span(fbAt) = SpanOf(P, k) /\ P[1] + 1 = fbAt[1]
        /\ P[1] \in Nat /\ P[1] < MaxDepth
    BY <1>1, <1>3, BitIsChild, NodeNumbers DEF InnerNodes
  <1>6. /\ giving \in Span(fbAt) /\ ~ Covers(bits, giving, fbAt[1])
        /\ giving # -1 /\ MarkedIsFreed /\ OthersKeepTheirs
    BY <1>2 DEF FbInv, ClearingInv
  <1>7. giving \in SpanOf(P, k) /\ giving \in Span(P)
    BY <1>3, <1>5, <1>6, BitNumbers
  <1>8. \A p \in DOMAIN bits : p \in TreeNodes /\ p[1] \in 0 .. MaxDepth
    BY <1>1, NodeNumbers DEF IsTree
  <1>9. \A p \in DOMAIN bits : bits'[p] \subseteq bits[p]
    BY <1>4
  <1>10. ASSUME NEW p \in DOMAIN bits, NEW d \in bits[p], p # P \/ d # k
         PROVE  d \in bits'[p]
    BY <1>4, <1>10
  \* The other numbers below that bit have theirs further down.
  <1>11. ASSUME NEW m \in SpanOf(P, k), m # giving, k \in bits[P]
         PROVE  Covers(bits', m, P[1] + 1)
    <2>1. Covers(bits, m, P[1] + 1)
      BY <1>1, <1>3, <1>5, <1>6, <1>7, <1>11 DEF OthersKeepTheirs
    <2>2. PICK p \in DOMAIN bits : P[1] + 1 <= p[1] /\ \E d \in bits[p] : m \in SpanOf(p, d)
      BY <2>1 DEF Covers
    <2>3. p # P
      BY <1>5, <2>2
    <2> QED BY <1>4, <2>2, <2>3 DEF Covers
  <1>12. ASSUME NEW m, m # giving, NEW e \in Nat, Covers(bits, m, e)
         PROVE  Covers(bits', m, e)
    <2>1. PICK p \in DOMAIN bits : e <= p[1] /\ \E d \in bits[p] : m \in SpanOf(p, d)
      BY <1>12 DEF Covers
    <2>2. PICK d \in bits[p] : m \in SpanOf(p, d)
      BY <2>1
    <2>3. CASE p = P /\ d = k
      <3>1. Covers(bits', m, P[1] + 1)
        BY <1>11, <1>12, <2>2, <2>3
      <3>2. PICK q \in DOMAIN bits' : P[1] + 1 <= q[1] /\ \E c \in bits'[q] : m \in SpanOf(q, c)
        BY <3>1 DEF Covers
      <3>3. e <= q[1]
        BY <1>4, <1>5, <1>8, <2>1, <2>3, <3>2
      <3> QED BY <3>2, <3>3 DEF Covers
    <2>4. CASE p # P \/ d # k
      <3>1. d \in bits'[p]
        BY <1>10, <2>4
      <3> QED BY <1>4, <2>1, <2>2, <3>1 DEF Covers
    <2> QED BY <2>3, <2>4
  <1>13. FbTypeOK'
    <2>1. fbNum' \in 0 .. FBLen * SubSize[fbAt'[1]] - 1
      BY <1>2, <1>3, ZeroIsNumber
    <2> QED BY <1>1, <1>2, <1>3, <1>4, <2>1 DEF FbTypeOK, IsTree
  <1>14. InUse' \ {giving} = InUse \ {giving}
    <2>1. ASSUME NEW n, n \in InUse, n # giving PROVE n \in InUse'
      <3>1. Covers(bits, n, 0)
        BY <1>1, <2>1, InUseCovered
      <3>2. Covers(bits', n, 0)
        BY <1>12, <2>1, <3>1
      <3> QED BY <2>1, <3>2 DEF InUse, Covers
    <2>2. ASSUME NEW n, n \in InUse' PROVE n \in InUse
      BY <1>4, <1>9, <2>2 DEF InUse
    <2> QED BY <2>1, <2>2
  <1>15. MarkedIsFreed'
    <2>1. ASSUME NEW p \in DOMAIN bits, NEW q \in DOMAIN bits, NEW d \in bits'[p],
                 Reopened(p, d, q)
          PROVE  Reopened(p, d, q)'
      <3>1. p[1] < fbAt[1] /\ giving \in SpanOf(p, d) /\ d \in bits[p]
        BY <1>2, <1>9, <2>1 DEF Reopened
      <3>2. p[1] # P[1]
        <4> SUFFICES ASSUME p[1] = P[1] PROVE FALSE
          OBVIOUS
        <4>1. p \in TreeNodes /\ d \in Bits /\ giving \in Span(p)
          BY <1>1, <3>1, BitBelow
        <4>2. p = P
          BY <1>3, <1>7, <4>1, SameDepth
        <4>3. d = k
          BY <1>3, <1>7, <3>1, <4>1, <4>2, OneBit
        <4> QED BY <1>4, <2>1, <4>2, <4>3
      <3>3. p[1] < P[1]
        BY <1>5, <1>8, <3>1, <3>2
      <3> QED BY <1>2, <2>1, <3>3 DEF Reopened
    <2> QED BY <1>4, <1>6, <1>9, <2>1 DEF MarkedIsFreed
  <1>16. SearchInv'
    BY <1>2 DEF SearchInv
  <1>17. OthersKeepTheirs'
    <2>1. ASSUME NEW p \in DOMAIN bits', NEW d \in bits'[p], p[1] < MaxDepth,
                 giving \in SpanOf(p, d), Child(p, d) \in DOMAIN bits',
                 NEW m \in SpanOf(p, d), m # giving
          PROVE  Covers(bits', m, p[1] + 1)
      <3>1. Covers(bits, m, p[1] + 1)
        BY <1>4, <1>6, <1>9, <2>1 DEF OthersKeepTheirs
      <3>2. p[1] + 1 \in Nat
        BY <1>4, <1>8
      <3> QED BY <1>12, <2>1, <3>1, <3>2
    <2> QED BY <1>2, <2>1 DEF OthersKeepTheirs
  <1>18. ClearingInv'
    <2>1. ~ Covers(bits', giving, P[1])
      <3> SUFFICES ASSUME NEW p \in DOMAIN bits', P[1] <= p[1],
                          NEW d \in bits'[p], giving \in SpanOf(p, d)
                   PROVE  FALSE
        BY DEF Covers
      <3>1. p \in TreeNodes /\ d \in Bits /\ giving \in Span(p) /\ d \in bits[p]
        BY <1>4, <1>9, BitBelow
      <3>2. CASE p[1] = P[1]
        <4>1. p = P
          BY <1>3, <1>7, <3>1, <3>2, SameDepth
        <4>2. d = k
          BY <1>3, <1>7, <3>1, <4>1, OneBit
        <4> QED BY <1>4, <4>1, <4>2
      <3>3. CASE p[1] # P[1]
        <4>1. fbAt[1] <= p[1]
          BY <1>4, <1>5, <1>8, <3>3
        <4> QED BY <1>4, <1>6, <3>1, <4>1 DEF Covers
      <3> QED BY <3>2, <3>3
    <2> QED BY <1>2, <1>6, <1>7, <2>1 DEF ClearingInv
  <1>19. UNCHANGED numberVars
    BY <1>2, <1>14 DEF numberVars, Used, Number
  <1> QED BY <1>2, <1>13, <1>15, <1>16, <1>17, <1>18, <1>19 DEF FbInv

-----------------------------------------------------------------------------
(* Loading imap.                                                           *)

\* The nodes on the path to number 0.
LEMMA PathToZero ==
  ASSUME NEW p \in TreeNodes, p[2] = 0
  PROVE  /\ p = <<p[1], 0>> /\ FirstBelow(p) = 0 /\ 0 \in Span(p)
         /\ 0 \in Bits /\ 0 \in SpanOf(p, 0)
         /\ Child(p, 0) = <<p[1] + 1, 0>>
         /\ 0 \div SubSize[p[1]] = 0 /\ 0 % SubSize[p[1]] = 0
  <1> DEFINE s == SubSize[p[1]]
             w == FBLen * s
  <1>1. /\ s \in Nat \ {0} /\ w \in Nat \ {0} /\ p = <<p[1], 0>>
        /\ FirstBelow(p) \in Span(p)
    BY NodeNumbers
  <1>2. FirstBelow(p) = 0 * w
    BY DEF FirstBelow
  <1>3. 0 \in Bits
    BY FastBitAssumption DEF Bits
  <1> HIDE DEF w
  <1>4. FirstBelow(p) = 0
    BY <1>1, <1>2
  <1>5. FirstOf(p, 0) = FirstBelow(p) + 0 * s /\ FirstOf(p, 0) \in SpanOf(p, 0)
    BY <1>3, BitNumbers
  <1>6. Child(p, 0) = <<p[1] + 1, 0>>
    <2>1. 0 * FBLen + 0 = 0
      BY FastBitAssumption
    <2>2. Child(p, 0) = <<p[1] + 1, 0 * FBLen + 0>>
      BY DEF Child
    <2> QED BY <2>1, <2>2
  <1> HIDE DEF s
  <1>7. FirstOf(p, 0) = 0 /\ 0 \div s = 0 /\ 0 % s = 0
    BY <1>1, <1>4, <1>5
  <1> QED BY <1>1, <1>3, <1>4, <1>5, <1>6, <1>7 DEF s

LEMMA LoadFacts ==
  ASSUME FbInv, ~ loaded
  PROVE  /\ FbTypeOK /\ LoadInv /\ IsTree(bits) /\ fbAt \in DOMAIN bits
         /\ Root \in DOMAIN bits /\ Root \in TreeNodes /\ Root[1] = 0
         /\ \A p \in DOMAIN bits : p \in TreeNodes /\ p[1] \in 0 .. MaxDepth /\ p[2] = 0
         /\ fbAt[2] = 0 /\ fbNum = 0
         /\ Used = {} /\ Number = fbAns
  <1>1. FbTypeOK /\ LoadInv
    BY DEF FbInv
  <1>2. /\ IsTree(bits) /\ fbAt \in DOMAIN bits
        /\ Root \in DOMAIN bits /\ Root \in TreeNodes /\ Root[1] = 0
    BY <1>1, TreeOfBits, RootNumbers DEF FbTypeOK, IsTree
  <1>3. \A p \in DOMAIN bits : p \in TreeNodes /\ p[1] \in 0 .. MaxDepth /\ p[2] = 0
    BY <1>1, <1>2, NodeNumbers DEF IsTree, LoadInv
  <1> QED BY <1>1, <1>2, <1>3 DEF LoadInv, Used, Number

LEMMA LoadInodeStep ==
  ASSUME FbInv, LoadInode
  PROVE  FbInv' /\ UNCHANGED numberVars
  <1>1. /\ ~ loaded /\ fbPc = "idle" /\ fbPc' = "clear" /\ fbAt' = Root /\ fbNum' = 0
        /\ bits' = bits /\ giving' = giving /\ fbAns' = fbAns /\ loaded' = loaded
    BY DEF LoadInode, Goto
  <1>2. FbTypeOK /\ LoadInv /\ Root \in DOMAIN bits /\ Root \in TreeNodes /\ Root[1] = 0
    BY <1>1, LoadFacts
  <1>3. FbTypeOK'
    <2>1. fbNum' \in 0 .. FBLen * SubSize[fbAt'[1]] - 1
      BY <1>1, <1>2, ZeroIsNumber
    <2> QED BY <1>1, <1>2, <2>1 DEF FbTypeOK
  <1>4. \A d \in 0 .. 0 : <<d, 0>> \in DOMAIN bits
    BY <1>2 DEF Root
  <1>5. LoadInv'
    BY <1>1, <1>2, <1>4 DEF LoadInv
  <1>6. UNCHANGED numberVars
    BY <1>1 DEF numberVars, Used, Number
  <1> QED BY <1>1, <1>3, <1>5, <1>6 DEF FbInv

LEMMA LoadDownStep ==
  ASSUME FbInv, ~ loaded, Clear, fbAt[1] # MaxDepth
  PROVE  FbInv' /\ UNCHANGED numberVars
  <1> DEFINE r == <<fbAt[1] + 1, 0>>
  <1>1. /\ FbTypeOK /\ LoadInv /\ IsTree(bits) /\ fbAt \in DOMAIN bits
        /\ fbAt \in TreeNodes /\ fbAt[2] = 0 /\ fbNum = 0
        /\ fbAt[1] \in 0 .. MaxDepth - 1
    <2>1. fbAt[1] \in 0 .. MaxDepth /\ MaxDepth \in Nat
      BY LoadFacts, FastBitAssumption
    <2> QED BY <2>1, LoadFacts
  <1>2. fbAt \in InnerNodes /\ Child(fbAt, 0) = r /\ 0 \in Bits
        /\ 0 \div SubSize[fbAt[1]] = 0 /\ 0 % SubSize[fbAt[1]] = 0
    BY <1>1, PathToZero, FastBitAssumption DEF InnerNodes
  <1>3. r \in TreeNodes /\ r # Root /\ r[1] = fbAt[1] + 1 /\ r[2] = 0 /\ Parent(r) = fbAt
    BY <1>1, <1>2, BitIsChild
  <1> HIDE DEF r
  <1>4. /\ fbPc = "clear" /\ fbPc' = "clear" /\ fbAt' = r /\ fbNum' = 0
        /\ bits' = WithNode(bits, r, Bits)
        /\ giving' = giving /\ fbAns' = fbAns /\ loaded' = loaded
    BY <1>1, <1>2 DEF Clear, Goto
  <1>5. /\ DOMAIN bits' = DOMAIN bits \cup {r}
        /\ \A q \in DOMAIN bits : bits'[q] = bits[q]
        /\ r \notin DOMAIN bits => bits'[r] = Bits
    BY <1>4 DEF WithNode
  <1>6. FbTypeOK'
    <2>1. fbNum' \in 0 .. FBLen * SubSize[fbAt'[1]] - 1
      BY <1>3, <1>4, ZeroIsNumber
    <2>2. \A q \in DOMAIN bits' : bits'[q] \subseteq Bits
      BY <1>1, <1>5 DEF FbTypeOK
    <2>3. r[1] > 0
      BY <1>1, <1>3
    <2>4. DOMAIN bits' \subseteq TreeNodes /\ Root \in DOMAIN bits'
          /\ \A p \in DOMAIN bits' \ {Root} : p[1] > 0 /\ Parent(p) \in DOMAIN bits'
      BY <1>1, <1>3, <1>5, <2>3 DEF FbTypeOK
    <2>5. fbAt' \in DOMAIN bits'
      BY <1>4, <1>5
    <2> QED BY <1>1, <1>4, <2>1, <2>2, <2>4, <2>5 DEF FbTypeOK
  <1>7. LoadInv'
    <2>1. \A p \in DOMAIN bits' : p[2] = 0
      BY <1>1, <1>3, <1>5 DEF LoadInv
    <2>2. bits'[Root] = {}
      BY <1>1, <1>5 DEF LoadInv, IsTree
    <2>3. \A p \in DOMAIN bits' \ {Root} : bits'[p] \in {Bits, Bits \ {0}}
      BY <1>1, <1>5 DEF LoadInv
    <2>4. ASSUME NEW d \in 0 .. r[1] PROVE <<d, 0>> \in DOMAIN bits'
      <3>1. CASE d = fbAt[1] + 1
        BY <1>5, <3>1 DEF r
      <3>2. CASE d # fbAt[1] + 1
        <4>1. d \in 0 .. fbAt[1]
          BY <1>1, <1>3, <3>2
        <4> QED BY <1>1, <1>4, <1>5, <4>1 DEF LoadInv
      <3> QED BY <3>1, <3>2
    <2> QED BY <1>1, <1>4, <2>1, <2>2, <2>3, <2>4 DEF LoadInv
  <1>8. UNCHANGED numberVars
    BY <1>4 DEF numberVars, Used, Number
  <1> QED BY <1>4, <1>6, <1>7, <1>8 DEF FbInv

LEMMA LoadLeafStep ==
  ASSUME FbInv, ~ loaded, Clear, fbAt[1] = MaxDepth
  PROVE  FbInv' /\ UNCHANGED numberVars
  <1> DEFINE b == bits[fbAt] \ {0}
  <1>1. /\ FbTypeOK /\ LoadInv /\ IsTree(bits) /\ fbAt \in DOMAIN bits
        /\ fbAt \in TreeNodes /\ fbAt = <<MaxDepth, 0>> /\ fbNum = 0
        /\ fbAt # Root /\ MaxDepth \in Nat \ {0}
    BY LoadFacts, PathToZero, FastBitAssumption
  <1>2. /\ fbPc = "clear" /\ fbPc' = "cleared" /\ fbAt' = fbAt /\ fbNum' = 0
        /\ bits' = [bits EXCEPT ![fbAt] = b]
        /\ giving' = giving /\ fbAns' = fbAns /\ loaded' = loaded
    BY <1>1 DEF Clear, Goto
  <1>3. /\ IsTree(bits') /\ DOMAIN bits' = DOMAIN bits /\ bits'[fbAt] = b
        /\ \A q \in DOMAIN bits \ {fbAt} : bits'[q] = bits[q]
    <2>1. b \subseteq Bits
      BY <1>1 DEF IsTree
    <2> QED BY <1>1, <1>2, <2>1, ExceptIsTree
  <1>4. b = Bits \ {0}
    <2>1. bits[fbAt] \in {Bits, Bits \ {0}}
      BY <1>1 DEF LoadInv
    <2> QED BY <2>1
  <1> HIDE DEF b
  <1>5. FbTypeOK'
    <2>1. fbNum' \in 0 .. FBLen * SubSize[fbAt'[1]] - 1
      BY <1>1, <1>2, ZeroIsNumber
    <2> QED BY <1>1, <1>2, <1>3, <2>1 DEF FbTypeOK, IsTree
  <1>6. LoadInv'
    <2>1. \A p \in DOMAIN bits' : p[2] = 0
      BY <1>1, <1>3 DEF LoadInv
    <2>2. bits'[Root] = {}
      BY <1>1, <1>3 DEF LoadInv, IsTree
    <2>3. \A p \in DOMAIN bits' \ {Root} : bits'[p] \in {Bits, Bits \ {0}}
      BY <1>1, <1>3, <1>4 DEF LoadInv
    <2>4. ASSUME NEW d \in 1 .. MaxDepth
          PROVE  /\ <<d, 0>> \in DOMAIN bits'
                 /\ MaxDepth <= d => bits'[<<d, 0>>] = Bits \ {0}
      <3>1. <<d, 0>> \in DOMAIN bits
        BY <1>1, <1>2 DEF LoadInv
      <3>2. MaxDepth <= d => <<d, 0>> = fbAt
        BY <1>1
      <3> QED BY <1>3, <1>4, <3>1, <3>2
    <2>5. fbAt'[1] = MaxDepth
      BY <1>1, <1>2
    <2> QED BY <1>1, <1>2, <2>1, <2>2, <2>3, <2>4, <2>5 DEF LoadInv
  <1>7. UNCHANGED numberVars
    BY <1>2 DEF numberVars, Used, Number
  <1> QED BY <1>2, <1>5, <1>6, <1>7 DEF FbInv

LEMMA LoadedRootStep ==
  ASSUME FbInv, ~ loaded, Cleared, fbAt = Root
  PROVE  FbInv' /\ UNCHANGED numberVars
  <1>1. FbTypeOK /\ LoadInv /\ Root \in DOMAIN bits /\ Root \in TreeNodes /\ Root[1] = 0
    BY LoadFacts
  <1>2. /\ fbPc = "cleared" /\ fbPc' = "idle" /\ fbAt' = Root /\ fbNum' = 0
        /\ bits' = bits /\ giving' = -1 /\ fbAns' = fbAns /\ loaded' = loaded
    BY DEF Cleared, Goto, Returns
  <1>3. FbTypeOK'
    <2>1. fbNum' \in 0 .. FBLen * SubSize[fbAt'[1]] - 1
      BY <1>1, <1>2, ZeroIsNumber
    <2> QED BY <1>1, <1>2, <2>1 DEF FbTypeOK
  <1>4. \A d \in 1 .. MaxDepth : <<d, 0>> \in DOMAIN bits /\ bits[<<d, 0>>] = Bits \ {0}
    <2>1. \A d \in 1 .. MaxDepth : 0 <= d
      BY FastBitAssumption
    <2> QED BY <1>1, <1>2, <2>1 DEF LoadInv
  <1>5. LoadInv'
    BY <1>1, <1>2, <1>4 DEF LoadInv
  <1>6. UNCHANGED numberVars
    BY <1>2 DEF numberVars, Used, Number
  <1> QED BY <1>2, <1>3, <1>5, <1>6 DEF FbInv

LEMMA LoadUpStep ==
  ASSUME FbInv, ~ loaded, Cleared, fbAt # Root
  PROVE  FbInv' /\ UNCHANGED numberVars
  <1> DEFINE P == Parent(fbAt)
  <1>1. /\ FbTypeOK /\ LoadInv /\ IsTree(bits) /\ fbAt \in DOMAIN bits
        /\ fbAt \in TreeNodes /\ fbAt[1] \in 1 .. MaxDepth
        /\ P \in DOMAIN bits /\ Root \in DOMAIN bits
    <2>1. /\ FbTypeOK /\ LoadInv /\ IsTree(bits) /\ fbAt \in DOMAIN bits
          /\ fbAt \in TreeNodes /\ fbAt[1] \in 0 .. MaxDepth /\ Root \in DOMAIN bits
      BY LoadFacts
    <2>2. fbAt[1] > 0 /\ P \in DOMAIN bits
      BY <2>1 DEF FbTypeOK
    <2> QED BY <2>1, <2>2, FastBitAssumption
  <1>2. P \in InnerNodes /\ P[1] = fbAt[1] - 1 /\ P[2] = 0 /\ Child(P, ChildNum(fbAt)) = fbAt
        /\ ChildNum(fbAt) \in Bits
    <2>1. fbAt[1] > 0
      BY <1>1
    <2> QED BY <1>1, <2>1, NodeIsChild, LoadFacts
  <1>3. ChildNum(fbAt) = 0
    <2>1. fbAt[2] = 0
      BY LoadFacts
    <2> QED BY <2>1, FastBitAssumption DEF ChildNum
  <1> HIDE DEF P
  <1> DEFINE b == bits[P] \ {0}
  <1>4. /\ fbPc = "cleared" /\ fbPc' = "cleared" /\ fbAt' = P /\ fbNum' = 0
        /\ bits' = IF P # Root THEN [bits EXCEPT ![P] = b] ELSE bits
        /\ giving' = giving /\ fbAns' = fbAns /\ loaded' = loaded
    BY <1>3 DEF Cleared, Goto, P
  <1>5. /\ IsTree(bits') /\ DOMAIN bits' = DOMAIN bits
        /\ P # Root => bits'[P] = b
        /\ \A q \in DOMAIN bits \ {P} : bits'[q] = bits[q]
        /\ P = Root => bits' = bits
    <2>1. b \subseteq Bits
      BY <1>1 DEF IsTree
    <2>2. CASE P # Root
      <3>1. bits' = [bits EXCEPT ![P] = b]
        BY <1>4, <2>2
      <3> QED BY <1>1, <2>1, <2>2, <3>1, ExceptIsTree
    <2>3. CASE P = Root
      BY <1>1, <1>4, <2>3
    <2> QED BY <2>2, <2>3
  <1>6. P # Root => b = Bits \ {0}
    <2>1. P # Root => bits[P] \in {Bits, Bits \ {0}}
      BY <1>1 DEF LoadInv
    <2> QED BY <2>1
  <1> HIDE DEF b
  <1>7. FbTypeOK'
    <2>1. fbNum' \in 0 .. FBLen * SubSize[fbAt'[1]] - 1
      BY <1>2, <1>4, ZeroIsNumber DEF InnerNodes
    <2> QED BY <1>1, <1>4, <1>5, <2>1 DEF FbTypeOK, IsTree
  <1>8. LoadInv'
    <2>1. \A p \in DOMAIN bits' : p[2] = 0
      BY <1>1, <1>5 DEF LoadInv
    <2>2. bits'[Root] = {}
      BY <1>1, <1>5 DEF LoadInv
    <2>3. \A p \in DOMAIN bits' \ {Root} : bits'[p] \in {Bits, Bits \ {0}}
      BY <1>1, <1>5, <1>6 DEF LoadInv
    <2>4. ASSUME NEW d \in 1 .. MaxDepth
          PROVE  /\ <<d, 0>> \in DOMAIN bits'
                 /\ P[1] <= d => bits'[<<d, 0>>] = Bits \ {0}
      <3>1. /\ <<d, 0>> \in DOMAIN bits
            /\ fbAt[1] <= d => bits[<<d, 0>>] = Bits \ {0}
        BY <1>1, <1>4 DEF LoadInv
      <3>2. CASE d = P[1]
        <4>1. <<d, 0>> = P /\ P # Root
          <5>1. P = <<P[1], 0>>
            BY <1>2, PathToZero DEF InnerNodes
          <5>2. <<d, 0>> # <<0, 0>>
            BY FastBitAssumption
          <5> QED BY <3>2, <5>1, <5>2 DEF Root
        <4> QED BY <1>5, <1>6, <3>1, <4>1
      <3>3. CASE d # P[1]
        <4>1. <<d, 0>> # P
          BY <3>3
        <4>2. P[1] <= d => fbAt[1] <= d
          BY <1>1, <1>2, <3>3
        <4> QED BY <1>5, <3>1, <4>1, <4>2
      <3> QED BY <3>2, <3>3
    <2> QED BY <1>1, <1>4, <2>1, <2>2, <2>3, <2>4 DEF LoadInv
  <1>9. UNCHANGED numberVars
    BY <1>4 DEF numberVars, Used, Number
  <1> QED BY <1>4, <1>7, <1>8, <1>9 DEF FbInv

\* What loading leaves: nothing, or the first child of the top node but for its
\* first number.
LEMMA LoadedNumbers ==
  ASSUME FbInv, ~ loaded, fbPc = "idle"
  PROVE  /\ InUse \in {{}, 1 .. SubSize[0] - 1}
         /\ \A p \in DOMAIN bits : 0 \notin bits[p]
  <1>1. /\ FbTypeOK /\ LoadInv /\ IsTree(bits) /\ bits[Root] = {} /\ MaxDepth \in Nat \ {0}
        /\ \A p \in DOMAIN bits : p \in TreeNodes /\ p[1] \in 0 .. MaxDepth /\ p[2] = 0
    BY LoadFacts, FastBitAssumption DEF LoadInv
  <1>2. CASE DOMAIN bits = {Root}
    <2>1. InUse = {}
      BY <1>1, <1>2 DEF InUse
    <2> QED BY <1>1, <1>2, <2>1
  <1>3. CASE \A d \in 1 .. MaxDepth : <<d, 0>> \in DOMAIN bits /\ bits[<<d, 0>>] = Bits \ {0}
    <2>1. ASSUME NEW p \in DOMAIN bits, p # Root
          PROVE  p[1] \in 1 .. MaxDepth /\ p = <<p[1], 0>> /\ bits[p] = Bits \ {0}
      <3>1. p[1] \in 1 .. MaxDepth
        BY <1>1, <2>1 DEF IsTree
      <3>2. p = <<p[1], 0>>
        BY <1>1, PathToZero
      <3> QED BY <1>3, <3>1, <3>2
    <2>2. \A p \in DOMAIN bits : 0 \notin bits[p]
      BY <1>1, <2>1
    <2> DEFINE top == <<1, 0>>
    <2>3. top \in DOMAIN bits /\ top \in TreeNodes /\ top[1] = 1 /\ top[2] = 0
      BY <1>1, <1>3, FastBitAssumption
    <2> HIDE DEF top
    <2>4. Span(top) = 0 .. SubSize[0] - 1 /\ SubSize[0] \in Nat
      <3> DEFINE s == SubSize[0]
      <3>1. s = FBLen * SubSize[1] /\ s \in Nat
        <4>1. 0 \in 0 .. MaxDepth - 1 /\ 0 + 1 = 1 /\ 0 \in 0 .. MaxDepth
          BY <1>1
        <4>2. SubSize[0] = FBLen * SubSize[0 + 1] /\ SubSize[0] \in Nat
          BY <4>1, SubSizeStep, SubSizeType
        <4> QED BY <4>1, <4>2
      <3>2. FirstBelow(top) = 0
        BY <2>3, PathToZero
      <3>3. Span(top) = 0 .. 0 + s - 1
        BY <2>3, <3>1, <3>2 DEF Span
      <3> HIDE DEF s
      <3>4. 0 .. 0 + s - 1 = 0 .. s - 1
        BY <3>1
      <3> QED BY <3>1, <3>3, <3>4 DEF s
    <2>5. ASSUME NEW n \in InUse PROVE n \in 1 .. SubSize[0] - 1
      <3>1. PICK p \in DOMAIN bits : \E d \in bits[p] : n \in SpanOf(p, d)
        BY DEF InUse
      <3>2. PICK d \in bits[p] : n \in SpanOf(p, d)
        BY <3>1
      <3>3. p # Root /\ p \in TreeNodes /\ p[2] = 0 /\ d \in Bits /\ d # 0 /\ n \in Span(p)
        BY <1>1, <2>2, <3>2, BitBelow
      <3>4. 1 \in 0 .. p[1]
        BY <1>1, <2>1, <3>3
      <3>5. PICK r \in DOMAIN bits : r[1] = 1 /\ Span(p) \subseteq Span(r)
        BY <1>1, <3>4, Ancestor
      <3>6. r = top
        <4>1. r = <<r[1], 0>>
          BY <1>1, PathToZero
        <4> QED BY <3>5, <4>1 DEF top
      <3>7. n # 0
        <4>1. 0 \in SpanOf(p, 0) /\ 0 \in Bits
          BY <3>3, PathToZero
        <4> QED BY <3>2, <3>3, <4>1, OneBit
      <3> QED BY <2>4, <3>3, <3>5, <3>6, <3>7
    <2>6. ASSUME NEW n \in 1 .. SubSize[0] - 1 PROVE n \in InUse
      <3> DEFINE T == {j \in 0 .. MaxDepth - 1 : n \in Span(<<MaxDepth - j, 0>>)}
      <3>1. MaxDepth - 1 \in T
        <4>1. n \in Span(top)
          BY <2>4
        <4>2. MaxDepth - 1 \in 0 .. MaxDepth - 1 /\ MaxDepth - (MaxDepth - 1) = 1
          BY <1>1
        <4> QED BY <4>1, <4>2 DEF top
      <3>2. PICK m \in T : \A j \in T : m <= j
        <4>1. T \in SUBSET Nat
          BY <1>1
        <4> HIDE DEF T
        <4> QED BY <3>1, <4>1, LeastNumber
      <3> DEFINE d == MaxDepth - m
                 p == <<d, 0>>
      <3>3. d \in 1 .. MaxDepth /\ n \in Span(p)
        BY <1>1, <3>2
      <3>4. p \in DOMAIN bits /\ bits[p] = Bits \ {0} /\ p \in TreeNodes
        BY <1>1, <1>3, <3>3
      <3>5. p[1] = d /\ p[2] = 0
        OBVIOUS
      <3> HIDE DEF p
      <3>6. PICK c \in Bits : n \in SpanOf(p, c)
        BY <3>3, <3>4, HasBit
      <3>7. c # 0
        <4> SUFFICES ASSUME c = 0 PROVE FALSE
          OBVIOUS
        <4>1. CASE d = MaxDepth
          <5>1. SpanOf(p, 0) = {FirstBelow(p) + 0} /\ FirstBelow(p) = 0
            BY <3>4, <3>5, <3>6, <4>1, LeafNumbers, PathToZero
          <5> QED BY <3>6, <5>1
        <4>2. CASE d # MaxDepth
          <5>1. p \in InnerNodes /\ d + 1 = MaxDepth - (m - 1) /\ m - 1 \in 0 .. MaxDepth - 1
            BY <1>1, <3>2, <3>3, <3>4, <3>5, <4>2 DEF InnerNodes
          <5>2. Child(p, 0) = <<d + 1, 0>>
            BY <3>4, <3>5, PathToZero
          <5>3. n \in Span(<<MaxDepth - (m - 1), 0>>)
            BY <3>6, <5>1, <5>2, BitIsChild
          <5>4. m - 1 \in T
            BY <5>1, <5>3
          <5>5. m \in Nat
            BY <3>2
          <5> QED BY <3>2, <5>4, <5>5
        <4> QED BY <4>1, <4>2
      <3>8. c \in bits[p]
        BY <3>4, <3>6, <3>7
      <3>9. n \in Numbers
        BY <1>1, <3>4, <3>6, <3>8, BitBelow
      <3> QED BY <3>4, <3>6, <3>8, <3>9 DEF InUse
    <2>7. InUse = 1 .. SubSize[0] - 1
      BY <2>5, <2>6
    <2> QED BY <2>2, <2>7
  <1> QED BY <1>1, <1>2, <1>3, LoadFacts DEF LoadInv

LEMMA LoadEndsStep ==
  ASSUME FbInv, LoadEnds
  PROVE  FbInv' /\ NumberMap!Load
  <1>1. /\ ~ loaded /\ loaded' = TRUE /\ fbPc = "idle" /\ fbPc' = fbPc /\ fbAt' = fbAt
        /\ fbNum' = fbNum /\ bits' = bits /\ giving' = giving /\ fbAns' = fbAns
    BY DEF LoadEnds, callVarsOfFb
  <1>2. /\ FbTypeOK /\ LoadInv /\ IsTree(bits) /\ giving = -1
        /\ \A p \in DOMAIN bits : p \in TreeNodes /\ p[1] \in 0 .. MaxDepth /\ p[2] = 0
    BY <1>1, LoadFacts DEF LoadInv
  <1>3. /\ InUse \in {{}, 1 .. SubSize[0] - 1}
        /\ \A p \in DOMAIN bits : 0 \notin bits[p]
    BY <1>1, LoadedNumbers
  <1>4. FbTypeOK'
    BY <1>1, <1>2 DEF FbTypeOK
  <1>5. MarkedIsFreed'
    <2>1. ASSUME NEW p \in DOMAIN bits, NEW q \in DOMAIN bits, p[1] < q[1],
                 NEW c \in bits[p]
          PROVE  SpanOf(p, c) \cap Span(q) = {}
      <3> SUFFICES ASSUME NEW n \in SpanOf(p, c), n \in Span(q) PROVE FALSE
        OBVIOUS
      <3>1. p \in TreeNodes /\ q \in TreeNodes /\ c \in Bits /\ p[2] = 0 /\ q[2] = 0
        BY <1>2, BitBelow
      <3>2. Span(q) \subseteq SpanOf(p, c)
        BY <2>1, <3>1, Nested
      <3>3. 0 \in Span(q) /\ 0 \in SpanOf(p, 0) /\ 0 \in Bits
        BY <3>1, PathToZero
      <3>4. c = 0
        BY <3>1, <3>2, <3>3, OneBit
      <3> QED BY <1>3, <3>4
    <2> QED BY <1>1, <2>1 DEF MarkedIsFreed
  <1>6. SearchInv' /\ (OthersKeepTheirs /\ ClearingInv)'
    BY <1>1, <1>2, NoneIsBelow DEF SearchInv, OthersKeepTheirs, ClearingInv
  <1>7. Used = {} /\ Used' = InUse /\ Number' = Number
    <2>1. InUse' = InUse
      BY <1>1 DEF InUse
    <2>2. -1 \notin InUse
      BY <1>2, InUseCovered
    <2> QED BY <1>1, <1>2, <2>1, <2>2 DEF Used, Number
  <1>8. NumberMap!Load
    BY <1>1, <1>3, <1>7 DEF NumberMap!Load, Used, Number
  <1> QED BY <1>1, <1>4, <1>5, <1>6, <1>8 DEF FbInv

-----------------------------------------------------------------------------
(* The theorems.                                                           *)

\* Each step keeps the invariant and is one of the abstract specification, or
\* none that it shows.
LEMMA FbStep ==
  ASSUME FbInv, FbNext
  PROVE  FbInv' /\ (NumberMap!NumberNext \/ UNCHANGED numberVars)
  <1>1. CASE GetFirst
    BY <1>1, GetFirstStep
  <1>2. CASE Find
    <2>1. loaded
      BY <1>2 DEF FbInv, LoadInv, Find
    <2>2. CASE First0(bits[fbAt]) = -1
      BY <1>2, <2>1, <2>2, FindFullStep
    <2>3. CASE First0(bits[fbAt]) # -1 /\ fbAt[1] = MaxDepth
      BY <1>2, <2>1, <2>3, FindLeafStep DEF NumberMap!NumberNext
    <2>4. CASE First0(bits[fbAt]) # -1 /\ fbAt[1] # MaxDepth
      BY <1>2, <2>1, <2>4, FindChildStep
    <2> QED BY <2>2, <2>3, <2>4
  <1>3. CASE Full
    <2>1. loaded
      BY <1>3 DEF FbInv, LoadInv, Full
    <2>2. CASE fbAt = Root
      BY <1>3, <2>1, <2>2, FullRootStep DEF NumberMap!NumberNext
    <2>3. CASE fbAt # Root
      BY <1>3, <2>1, <2>3, FullChildStep
    <2> QED BY <2>2, <2>3
  <1>4. CASE Found
    <2>1. loaded
      BY <1>4 DEF FbInv, LoadInv, Found
    <2> QED BY <1>4, <2>1, FoundRootStep, FoundChildStep
  <1>5. CASE LoadInode
    BY <1>5, LoadInodeStep
  <1>6. CASE LoadEnds
    BY <1>6, LoadEndsStep DEF NumberMap!NumberNext
  <1>7. CASE \E n \in Numbers : ClearN(n)
    BY <1>7, ClearNStep DEF NumberMap!NumberNext
  <1>8. CASE Clear
    <2>1. CASE loaded /\ fbAt[1] = MaxDepth
      BY <1>8, <2>1, ClearLeafStep
    <2>2. CASE loaded /\ fbAt[1] # MaxDepth
      BY <1>8, <2>2, ClearThereStep, ClearMissingStep
    <2>3. CASE ~ loaded
      BY <1>8, <2>3, LoadDownStep, LoadLeafStep
    <2> QED BY <2>1, <2>2, <2>3
  <1>9. CASE Cleared
    <2>1. CASE loaded
      BY <1>9, <2>1, ClearedRootStep, ClearedChildStep
    <2>2. CASE ~ loaded
      BY <1>9, <2>2, LoadedRootStep, LoadUpStep
    <2> QED BY <2>1, <2>2
  <1> QED BY <1>1, <1>2, <1>3, <1>4, <1>5, <1>6, <1>7, <1>8, <1>9 DEF FbNext

LEMMA FbStart ==
  ASSUME FbInit
  PROVE  FbInv /\ NumberMap!NumberInit
  <1>1. /\ DOMAIN bits = {Root} /\ bits[Root] = {} /\ fbPc = "idle" /\ fbAt = Root
        /\ fbNum = 0 /\ giving = -1 /\ fbAns = -1 /\ loaded = FALSE
    BY DEF FbInit
  <1>2. Root \in TreeNodes /\ Root[1] = 0 /\ Root[2] = 0
    BY RootNumbers DEF InnerNodes, Root
  <1>3. fbNum \in 0 .. FBLen * SubSize[fbAt[1]] - 1
    BY <1>1, <1>2, ZeroIsNumber
  <1>4. FbTypeOK
    BY <1>1, <1>2, <1>3 DEF FbTypeOK
  <1>5. LoadInv
    BY <1>1, <1>2 DEF LoadInv
  <1>6. NumberMap!NumberInit
    BY <1>1 DEF NumberMap!NumberInit
  <1> QED BY <1>1, <1>4, <1>5, <1>6 DEF FbInv

LEMMA FbSteps ==
  ASSUME FbInv, [FbNext]_fbVars
  PROVE  FbInv' /\ [NumberMap!NumberNext]_numberVars
  <1>1. CASE FbNext
    BY <1>1, FbStep
  <1>2. CASE UNCHANGED fbVars
    <2>1. /\ bits' = bits /\ fbPc' = fbPc /\ fbAt' = fbAt /\ fbNum' = fbNum
          /\ giving' = giving /\ fbAns' = fbAns /\ loaded' = loaded
      BY <1>2 DEF fbVars, callVarsOfFb
    <2>2. InUse' = InUse
      BY <2>1 DEF InUse
    <2>3. UNCHANGED numberVars
      BY <2>1, <2>2 DEF numberVars, Used, Number
    <2>4. FbTypeOK'
      BY <2>1 DEF FbInv, FbTypeOK
    <2>5. CASE loaded
      <3>1. MarkedIsFreed'
        BY <2>1, <2>5 DEF FbInv, MarkedIsFreed, Reopened
      <3>2. SearchInv'
        BY <2>1, <2>2, <2>5 DEF FbInv, SearchInv
      <3>3. OthersKeepTheirs'
        BY <2>1, <2>5 DEF FbInv, OthersKeepTheirs
      <3>4. ClearingInv'
        BY <2>1, <2>5 DEF FbInv, ClearingInv
      <3> QED BY <2>1, <2>3, <2>4, <2>5, <3>1, <3>2, <3>3, <3>4 DEF FbInv
    <2>6. CASE ~ loaded
      <3>1. LoadInv'
        BY <2>1, <2>6 DEF FbInv, LoadInv
      <3> QED BY <2>1, <2>3, <2>4, <2>6, <3>1 DEF FbInv
    <2> QED BY <2>5, <2>6
  <1> QED BY <1>1, <1>2

\* The bitmap's variables have their types in every state: the nodes form a tree
\* of which a call visits one, and what it looks for or has found is a number
\* below that node.
THEOREM FbTypeCorrect == FbSpec => []FbTypeOK
  <1>1. FbInit => FbInv
    BY FbStart
  <1>2. FbInv /\ [FbNext]_fbVars => FbInv'
    BY FbSteps
  <1>3. FbInv => FbTypeOK
    BY DEF FbInv
  <1> QED BY <1>1, <1>2, <1>3, PTL DEF FbSpec

\* fb_set_first0_1 and fb_setn, node by node, allocate as a set of numbers does:
\* the lowest free number, none twice, -1 only when all are in use, and a number
\* given back is free again, whatever the size of a node and the depth of the
\* tree.
THEOREM FastBitImplementsSet == FbSpec => FastBitIsSet
  <1>1. FbInit => FbInv /\ NumberMap!NumberInit
    BY FbStart
  <1>2. FbInv /\ [FbNext]_fbVars => FbInv'
    BY FbSteps
  <1>3. FbInv /\ [FbNext]_fbVars => [NumberMap!NumberNext]_numberVars
    BY FbSteps
  <1> QED BY <1>1, <1>2, <1>3, PTL DEF FbSpec, FastBitIsSet, NumberMap!NumberSpec,
          numberVars, Used, Number

=============================================================================
