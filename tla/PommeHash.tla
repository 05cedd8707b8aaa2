----------------------------- MODULE PommeHash -----------------------------
(***************************************************************************)
(* The hash table: utils/pomme_hash.c over the lists of pomme_blist.h.     *)
(*                                                                         *)
(* A bucket is a list of nodes; put looks for the key in its bucket and    *)
(* updates the node in place, or adds one in front; del takes the first    *)
(* node of the key out.  KeyMap is what the table promises.  A value is    *)
(* what its length and its bytes are; a node's memory is allocated once    *)
(* and again when a longer value comes, and the table remembers only the   *)
(* length of the value, not of the memory.                                 *)
(*                                                                         *)
(* Left out: malloc that fails, arguments that are NULL, the destruction   *)
(* of a table, which walks through the nodes it has freed, and what a      *)
(* caller does to memory it has handed over: its pomme_data_t still points *)
(* there, with the length of the old value, so that the caller must put it *)
(* aside and neither use nor free it.                                      *)
(***************************************************************************)
EXTENDS Integers, Sequences, SequencesExt

CONSTANTS
  HashKeys,     \* keys
  HashOf,       \* h_func, a function on the keys
  HashSize,     \* number of buckets
  HashValues,   \* values
  ValueLen,     \* length of a value in bytes
  Rooms,        \* sizes of the memory callers of put and get bring
  NotFound      \* POMME_HASH_NOT_FOUND

ASSUME HashAssumption ==
  /\ HashSize \in Nat \ {0}
  /\ HashOf \in [HashKeys -> Nat]
  /\ ValueLen \in [HashValues -> Nat]
  /\ Rooms \subseteq Nat
  /\ NotFound \notin HashValues

VARIABLES
  table,    \* the buckets
  hashAns   \* what the last call answered

hashVars == <<table, hashAns>>

Bucket(k) == HashOf[k] % HashSize

Nodes == [key : HashKeys, value : HashValues, mem : Nat]

\* Mutant of At: cmp_func only tells whether the nodes of a bucket are many.
AtAny(b, k) == {i \in 1 .. Len(b) : Len(b) > 1 \/ b[i].key = k}

\* The nodes of key k in bucket b.
At(b, k) == {i \in 1 .. Len(b) : b[i].key = k}

\* The one list_for_each_entry comes to first.
First(b, k) == CHOOSE i \in At(b, k) : \A j \in At(b, k) : i <= j

\* link_add puts a node in front, link_del takes one out.
LinkAdd(node, b) == <<node>> \o b
LinkDel(b, i)    == RemoveAt(b, i)

\* pomme_hash_init.
HashInit ==
  /\ table = [p \in 0 .. HashSize - 1 |-> <<>>]
  /\ hashAns = NotFound

\* The memory a value is put with: the caller's own, which put copies from, or
\* some of this size that POMME_DATA_NEED_FREE lets it keep.
Own == 0
Brought(v) == {Own} \cup {r \in Rooms : ValueLen[v] <= r}

\* Mutant of Overwritten: the memory is kept whatever its size.
OverwrittenInPlace(node, v, m) == [node EXCEPT !.value = v]

\* pomme_hash_put on a node it found: it takes memory handed over in place of
\* the node's.  Otherwise a value no longer than the present one is copied over
\* it, and for a longer one there is new memory.
Overwritten(node, v, m) ==
  [node EXCEPT !.value = v,
               !.mem = IF m # Own THEN m
                       ELSE IF ValueLen[v] <= ValueLen[node.value] THEN @
                       ELSE ValueLen[v]]

\* Mutant of Put: it does not look for the key.
PutInFront(k, v, m) ==
  /\ table' = [table EXCEPT ![Bucket(k)] =
                 LinkAdd([key |-> k, value |-> v, mem |-> ValueLen[v]], @)]
  /\ hashAns' = v

\* pomme_hash_put, pomme_hash_put_2.  A new node always has a copy.
Put(k, v, m) ==
  LET b == table[Bucket(k)] IN
  /\ table' = [table EXCEPT ![Bucket(k)] =
                 IF At(b, k) # {}
                 THEN [b EXCEPT ![First(b, k)] = Overwritten(@, v, m)]
                 ELSE LinkAdd([key |-> k, value |-> v, mem |-> ValueLen[v]], b)]
  /\ hashAns' = v

\* pomme_hash_get into room bytes.  A value that does not fit is not found.
Fetch(k, room) ==
  LET b == table[Bucket(k)] IN
  /\ hashAns' = IF At(b, k) # {} /\ ValueLen[b[First(b, k)].value] <= room
                THEN b[First(b, k)].value
                ELSE NotFound
  /\ UNCHANGED table

\* pomme_hash_del.
Del(k) ==
  LET b == table[Bucket(k)] IN
  /\ table' = [table EXCEPT ![Bucket(k)] =
                 IF At(b, k) # {} THEN LinkDel(b, First(b, k)) ELSE b]
  /\ hashAns' = NotFound

HashNext ==
  \E k \in HashKeys :
    \/ \E v \in HashValues : \E m \in Brought(v) : Put(k, v, m)
    \/ \E room \in Rooms : Fetch(k, room)
    \/ Del(k)

HashSpec == HashInit /\ [][HashNext]_hashVars

-----------------------------------------------------------------------------
(* Properties.                                                             *)

\* Every variable has its type; a key has at most one node, in its own bucket
\* (put updates in place), and a value lies within its node's memory (put
\* allocates again for a longer one, forgetting the size of what it keeps).
HashTypeOK ==
  /\ table \in [0 .. HashSize - 1 -> Seq(Nodes)]
  /\ hashAns \in HashValues \cup {NotFound}
  /\ \A p \in 0 .. HashSize - 1 : \A i \in 1 .. Len(table[p]) :
       /\ Bucket(table[p][i].key) = p
       /\ At(table[p], table[p][i].key) = {i}

\* memcpy never writes past the memory of a node: put compares the new value
\* with the length of the old one only.
ValuesFit ==
  \A p \in 0 .. HashSize - 1 : \A i \in 1 .. Len(table[p]) :
    ValueLen[table[p][i].value] <= table[p][i].mem

\* What a search finds for each key.
Stored ==
  [k \in {x \in HashKeys : At(table[Bucket(x)], x) # {}} |->
     LET b == table[Bucket(k)] IN b[First(b, k)].value]

\* The table is a map: whatever the keys' hashes, put, get and del of one key
\* do what they do to a function, and touch no other key.
Map == INSTANCE KeyMap WITH
  MapKeys <- HashKeys, MapValues <- HashValues, Missing <- NotFound,
  Fits <- [v \in HashValues |-> {r \in Rooms : ValueLen[v] <= r}],
  map <- Stored, answer <- hashAns

HashIsMap == Map!MapSpec

=============================================================================
