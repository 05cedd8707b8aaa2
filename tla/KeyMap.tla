------------------------------- MODULE KeyMap -------------------------------
(***************************************************************************)
(* What a hash table promises: a partial function from keys to values.     *)
(***************************************************************************)
CONSTANTS
  MapKeys,    \* keys
  MapValues,  \* values
  Rooms,      \* sizes of memory for an answer
  Fits,       \* the rooms each value fits into
  Missing     \* the answer when there is no value, or too little room

VARIABLES
  map,     \* the function
  answer   \* the last answer

MapInit == map = [k \in {} |-> Missing] /\ answer = Missing

Store(k, v) ==
  /\ map' = [x \in DOMAIN map \cup {k} |-> IF x = k THEN v ELSE map[x]]
  /\ answer' = v

Lookup(k, room) ==
  /\ answer' = IF k \in DOMAIN map /\ room \in Fits[map[k]] THEN map[k] ELSE Missing
  /\ UNCHANGED map

Remove(k) ==
  /\ map' = [x \in DOMAIN map \ {k} |-> map[x]]
  /\ answer' = Missing

MapNext ==
  \E k \in MapKeys :
    \/ \E v \in MapValues : Store(k, v)
    \/ \E room \in Rooms : Lookup(k, room)
    \/ Remove(k)

MapSpec == MapInit /\ [][MapNext]_<<map, answer>>

=============================================================================
