------------------------------ MODULE FastBit ------------------------------
(***************************************************************************)
(* The bitmap of inode numbers: utils/fastbit.c.                           *)
(*                                                                         *)
(* A tree of nodes with FB_LEN bits each, allocated when they are needed.  *)
(* A leaf's bit is a number in use; an inner node's bit says that its      *)
(* child is full and may have been freed.  A node that is not there is all *)
(* zeros to fb_set_first0_1 and all ones to fb_setn, whose child is        *)
(* cleared whatever it is asked to set.  NumberSet is what it promises.    *)
(*                                                                         *)
(* Both functions call themselves for a child and go on when that returns: *)
(* each step is the work at one node (fbAt), down the tree or back up.     *)
(* pomme_get_id and pomme_unset_id hold imutex, so that there is one call  *)
(* at a time.  Failing mallocs and the overflow of the numbers at 2^31     *)
(* allocations are left out.                                               *)
(***************************************************************************)
EXTENDS Integers

CONSTANTS
  FBLen,     \* FB_LEN, 32
  MaxDepth   \* max_height(), 6

ASSUME FastBitAssumption == FBLen \in Nat \ {0, 1} /\ MaxDepth \in Nat \ {0}

VARIABLES
  bits,    \* the bits that are 1 in each node there is
  fbPc,    \* what the call under way does
  fbAt,    \* at which node
  fbNum,   \* with which number, counted from the first one below fbAt
  giving,  \* the number that is being given back, or -1
  fbAns,   \* what the last fb_set_first0_1 returned
  loaded   \* whether pomme_ms_init is over

callVarsOfFb == <<fbPc, fbAt, fbNum>>
fbVars == <<bits, callVarsOfFb, giving, fbAns, loaded>>

Bits == 0 .. FBLen - 1

\* A node is named by its depth and its place among the nodes of that depth.
TreeNodes == (0 .. MaxDepth) \X Nat
Root  == <<0, 0>>
Child(p, c) == <<p[1] + 1, p[2] * FBLen + c>>
Parent(p)   == <<p[1] - 1, p[2] \div FBLen>>
ChildNum(p) == p[2] % FBLen

\* fb_subsize: how many numbers a child of a node at depth d stands for.
SubSize[d \in 0 .. MaxDepth] == IF d = MaxDepth THEN 1 ELSE FBLen * SubSize[d + 1]

Numbers == 0 .. FBLen * SubSize[0] - 1

\* The numbers below a node, and those that one of its bits stands for.
FirstBelow(p) == p[2] * (FBLen * SubSize[p[1]])
Span(p)       == FirstBelow(p) .. FirstBelow(p) + FBLen * SubSize[p[1]] - 1
FirstOf(p, c) == (p[2] * FBLen + c) * SubSize[p[1]]
SpanOf(p, c)  == FirstOf(p, c) .. FirstOf(p, c) + SubSize[p[1]] - 1

\* array_first0.
First0(b) == IF b = Bits THEN -1
             ELSE CHOOSE i \in Bits \ b : \A j \in Bits \ b : i <= j

\* fb_init of a child: malloc clears no subtree, so there is none below it.
WithNode(t, p, b) == [q \in DOMAIN t \cup {p} |-> IF q \in DOMAIN t THEN t[q] ELSE b]

\* The tree without node p and what hangs below it.
Freed(t, p) ==
  [q \in {x \in DOMAIN t : ~(p[1] <= x[1] /\ FirstBelow(x) \in Span(p))} |-> t[q]]

FbInit ==
  /\ bits = [p \in {Root} |-> {}]
  /\ fbPc = "idle" /\ fbAt = Root /\ fbNum = 0
  /\ giving = -1 /\ fbAns = -1 /\ loaded = FALSE

Goto(what, p, n) == fbPc' = what /\ fbAt' = p /\ fbNum' = n

\* The call returns to its caller.
Returns == Goto("idle", Root, 0) /\ giving' = -1

-----------------------------------------------------------------------------
(* fb_set_first0_1: the lowest free number, now in use, or -1.             *)

\* pomme_get_id's part of the bitmap.
GetFirst ==
  /\ loaded /\ fbPc = "idle"
  /\ Goto("find", Root, 0)
  /\ UNCHANGED <<bits, giving, fbAns, loaded>>

\* At node fbAt: nothing is free, a leaf has a number, or a child may have one.
Find ==
  LET c == First0(bits[fbAt]) IN
  /\ fbPc = "find"
  /\ \/ /\ c = -1
        /\ Goto("full", fbAt, 0)
        /\ UNCHANGED bits
     \/ /\ c # -1 /\ fbAt[1] = MaxDepth
        /\ bits' = [bits EXCEPT ![fbAt] = @ \cup {c}]
        /\ Goto("found", fbAt, c)
     \/ /\ c # -1 /\ fbAt[1] < MaxDepth
        /\ bits' = WithNode(bits, Child(fbAt, c), {})
        /\ Goto("find", Child(fbAt, c), 0)
  /\ UNCHANGED <<giving, fbAns, loaded>>

\* Mutant of Full: a child found full is not marked in its parent, and the
\* search ends there.
FullForgets ==
  /\ fbPc = "full"
  /\ IF fbAt = Root
     THEN fbAns' = -1 /\ Returns
     ELSE /\ Goto("full", Parent(fbAt), 0)
          /\ UNCHANGED <<giving, fbAns>>
  /\ UNCHANGED <<bits, loaded>>

\* Node fbAt has returned -1: its parent marks and frees it and starts again.
Full ==
  /\ fbPc = "full"
  /\ IF fbAt = Root
     THEN fbAns' = -1 /\ Returns /\ UNCHANGED bits
     ELSE /\ bits' = Freed([bits EXCEPT ![Parent(fbAt)] = @ \cup {ChildNum(fbAt)}],
                           fbAt)
          /\ Goto("find", Parent(fbAt), 0)
          /\ UNCHANGED <<giving, fbAns>>
  /\ UNCHANGED loaded

\* Node fbAt has returned a number; its parent adds the numbers before the child.
Found ==
  /\ fbPc = "found"
  /\ IF fbAt = Root
     THEN fbAns' = fbNum /\ Returns
     ELSE /\ Goto("found", Parent(fbAt),
                  ChildNum(fbAt) * SubSize[fbAt[1] - 1] + fbNum)
          /\ UNCHANGED <<giving, fbAns>>
  /\ UNCHANGED <<bits, loaded>>

-----------------------------------------------------------------------------
(* fb_setn: the bit of a number becomes 0 in a leaf, whatever set says.    *)

\* The numbers in use: those that a bit stands for.
InUse == {n \in Numbers : \E p \in DOMAIN bits : \E c \in bits[p] : n \in SpanOf(p, c)}

\* pomme_unset_id of a number in use.
ClearN(n) ==
  /\ loaded /\ fbPc = "idle" /\ n \in InUse
  /\ Goto("clear", Root, n) /\ giving' = n
  /\ UNCHANGED <<bits, fbAns, loaded>>

\* pomme_ms_init for a record of imap: number 0 is set for each of them, since
\* localid%((long long)1)<<33 is 0 whatever the record says.
LoadInode ==
  /\ ~loaded /\ fbPc = "idle"
  /\ Goto("clear", Root, 0)
  /\ UNCHANGED <<bits, giving, fbAns, loaded>>

\* The cursor is at its end.
LoadEnds ==
  /\ ~loaded /\ fbPc = "idle" /\ loaded' = TRUE
  /\ UNCHANGED <<bits, callVarsOfFb, giving, fbAns>>

\* At node fbAt: down to the child of the number, or the leaf's bit.
Clear ==
  /\ fbPc = "clear"
  /\ IF fbAt[1] = MaxDepth
     THEN /\ bits' = [bits EXCEPT ![fbAt] = @ \ {fbNum}]
          /\ Goto("cleared", fbAt, 0)
     ELSE LET child == Child(fbAt, fbNum \div SubSize[fbAt[1]]) IN
          /\ bits' = WithNode(bits, child, Bits)
          /\ Goto("clear", child, fbNum % SubSize[fbAt[1]])
  /\ UNCHANGED <<giving, fbAns, loaded>>

\* Node fbAt has returned: its parent's bit is cleared too, but for the top node
\* when the call is to set the number, which it is while imap is loaded.
Cleared ==
  /\ fbPc = "cleared"
  /\ IF fbAt = Root
     THEN Returns /\ UNCHANGED bits
     ELSE /\ bits' = IF loaded \/ Parent(fbAt) # Root
                     THEN [bits EXCEPT ![Parent(fbAt)] = @ \ {ChildNum(fbAt)}]
                     ELSE bits
          /\ Goto("cleared", Parent(fbAt), 0)
          /\ UNCHANGED giving
  /\ UNCHANGED <<fbAns, loaded>>

FbNext ==
  \/ GetFirst \/ Find \/ Full \/ Found
  \/ LoadInode \/ LoadEnds
  \/ \E n \in Numbers : ClearN(n)
  \/ Clear \/ Cleared

FbSpec == FbInit /\ [][FbNext]_fbVars

-----------------------------------------------------------------------------
(* Properties.                                                             *)

\* Every variable has its type; the nodes form a tree, and a call is at one.
FbTypeOK ==
  /\ DOMAIN bits \subseteq TreeNodes /\ \A p \in DOMAIN bits : bits[p] \subseteq Bits
  /\ Root \in DOMAIN bits
  /\ \A p \in DOMAIN bits \ {Root} : p[1] > 0 /\ Parent(p) \in DOMAIN bits
  /\ fbPc \in {"idle", "find", "full", "found", "clear", "cleared"}
  /\ fbAt \in DOMAIN bits /\ fbNum \in 0 .. FBLen * SubSize[fbAt[1]] - 1
  /\ giving \in Numbers \cup {-1} /\ fbAns \in Numbers \cup {-1}
  /\ loaded \in BOOLEAN

\* The tree allocates as a set of numbers does: the lowest free number, none
\* twice, -1 only when all are used, and a number given back is free again;
\* and what pomme_ms_init makes of it is what MetaServer takes it to be,
\* nothing or all of the first child but its first number.  A number is taken
\* when the leaf has its bit, and free when its clearing has begun.
NumberMap == INSTANCE NumberSet WITH
  All <- Numbers, Block <- SubSize[0],
  inUse <- IF loaded THEN InUse \ {giving} ELSE {},
  number <- IF fbPc = "found" THEN FirstBelow(fbAt) + fbNum ELSE fbAns,
  ready <- loaded

FastBitIsSet == NumberMap!NumberSpec

=============================================================================
