----------------------------- MODULE NumberSet -----------------------------
(***************************************************************************)
(* What the bitmap of inode numbers promises: a set of numbers in use, the *)
(* way MetaServer uses it.                                                 *)
(***************************************************************************)
EXTENDS Integers

CONSTANTS
  All,    \* the numbers
  Block   \* how many of them loading marks

VARIABLES inUse, number, ready

NumberInit == inUse = {} /\ number = -1 /\ ready = FALSE

Load ==
  /\ ~ready /\ ready' = TRUE
  /\ inUse' \in {{}, 1 .. Block - 1}
  /\ UNCHANGED number

Allocate ==
  /\ ready
  /\ \/ /\ inUse # All
        /\ number' = CHOOSE n \in All \ inUse : \A m \in All \ inUse : n <= m
        /\ inUse' = inUse \cup {number'}
     \/ /\ inUse = All
        /\ number' = -1
        /\ UNCHANGED inUse
  /\ UNCHANGED ready

GiveBack ==
  /\ ready
  /\ \E n \in inUse : inUse' = inUse \ {n}
  /\ UNCHANGED <<number, ready>>

NumberNext == Load \/ Allocate \/ GiveBack

NumberSpec == NumberInit /\ [][NumberNext]_<<inUse, number, ready>>

=============================================================================
