----------------------------- MODULE MetaServer -----------------------------
(***************************************************************************)
(* The name space of the meta server: server/pomme_ms_impl.c and the       *)
(* initialisation in server/pomme_meta_server.c.                           *)
(*                                                                         *)
(* The pool threads of the RPC server execute the handlers concurrently.   *)
(* They share three things: imap, the database from "pinode/name" to       *)
(* inode; meta_db, the database from inode to record; and inodes, the      *)
(* in-memory bitmap the inode numbers are taken from (under imutex).  One  *)
(* call on a database or on the bitmap is one step.                        *)
(*                                                                         *)
(* The databases are Berkeley DB's, opened without transactions and never  *)
(* synced, closed or checkpointed: whatever way the process ends, any      *)
(* records may be missing when it starts again.                            *)
(*                                                                         *)
(* Inode numbers are the low part of the real ones: pomme_get_id adds      *)
(* myid << 33, one constant for the one meta server there is.              *)
(***************************************************************************)
EXTENDS Integers, FiniteSets

CONSTANTS
  Threads,      \* the pool threads that execute handlers
  Keys,         \* the "pinode/name" strings clients ask for
  BlockSize,    \* numbers under one child of the bitmap's root (2^30)
  None,         \* no inode, no key
  MaxRestarts   \* bound: how often the server is started again

ASSUME MetaAssumption ==
  /\ BlockSize \in Nat \ {0}
  /\ None \notin Int /\ None \notin Keys
  /\ MaxRestarts \in Nat

\* fb_set_first0_1 computes child * 2^30 in an int: two blocks fit, the next
\* two come out negative.  Bound: histories of fewer than 2^32 allocations.
Inodes == 0 .. 2 * BlockSize - 1

Records == {"none", "file", "object"}

VARIABLES
  imap,      \* Keys -> inode or None
  metaDb,    \* inode -> what is stored under it
  used,      \* the numbers set in ms->inodes
  pc,        \* where the handler of each thread is
  key,       \* the key of the get_inode a thread is inside, or None
  newId,     \* the number it got from pomme_get_id
  reply,     \* the answer sent last
  handed,    \* history: every inode a client was ever told
  told,      \* history: <<key, inode>> pairs answered since the last start
  fresh,     \* history: the keys entered into imap since the last start
  creates,   \* history: successful create_file answers since the last start
  restarts   \* how often the server has been started again

vars == <<imap, metaDb, used, pc, key, newId, reply,
          handed, told, fresh, creates, restarts>>

Results == {"none", "ok", "not_found", "exist", "internal"}

Init ==
  /\ imap = [k \in Keys |-> None]
  /\ metaDb = [i \in Inodes |-> "none"]
  /\ used = {}
  /\ pc = [t \in Threads |-> "idle"]
  /\ key = [t \in Threads |-> None]
  /\ newId = [t \in Threads |-> None]
  /\ reply = "none"
  /\ handed = {} /\ told = {} /\ fresh = {} /\ creates = [i \in Inodes |-> 0]
  /\ restarts = 0

-----------------------------------------------------------------------------
(* The bitmap: the tree of utils/fastbit.c as the set of numbers it marks.  *)
(* After the 2 * BlockSize-th number the int is negative and refused.       *)

\* Mutant of FirstFree: a number counts as taken when imap holds it.
FirstUnmapped(n) ==
  LET free == Inodes \ {imap[k] : k \in Keys}
  IN n \in free /\ \A m \in free : n <= m

\* fb_set_first0_1: the smallest number that is not set.
FirstFree(n) == n \in Inodes \ used /\ \A m \in Inodes \ used : n <= m

\* What pomme_ms_init leaves in the bitmap.  The number it clears and sets
\* again is localid%((long long)1)<<33, which is 0 for every record of imap;
\* fb_setn0_1 on the empty bitmap creates a full first block and clears the
\* bit, so that everything in the block but 0 counts as used.
Reloaded(map) ==
  IF \E k \in Keys : map[k] # None THEN 1 .. BlockSize - 1 ELSE {}

-----------------------------------------------------------------------------
(* The handlers.                                                           *)

Answer(t, r) ==
  /\ pc' = [pc EXCEPT ![t] = "idle"]
  /\ key' = [key EXCEPT ![t] = None]
  /\ newId' = [newId EXCEPT ![t] = None]
  /\ reply' = r

Tell(k, i) ==
  /\ told' = told \cup {<<k, i>>}
  /\ handed' = handed \cup {i}

\* pomme_get_inode up to the outcome of imap->get.
GetInode(t, k, create) ==
  /\ pc[t] = "idle"
  /\ \/ /\ imap[k] # None
        /\ Tell(k, imap[k])
        /\ Answer(t, "ok")
     \/ /\ imap[k] = None /\ ~create
        /\ Answer(t, "not_found")
        /\ UNCHANGED <<handed, told>>
     \/ /\ imap[k] = None /\ create
        /\ pc' = [pc EXCEPT ![t] = "alloc"]
        /\ key' = [key EXCEPT ![t] = k]
        /\ UNCHANGED <<newId, reply, handed, told>>
  /\ UNCHANGED <<imap, metaDb, used, fresh, creates, restarts>>

\* Mutant of GetId: past the last number the int wraps and is not refused.
GetIdWraps(t) ==
  /\ pc[t] = "alloc"
  /\ \E n \in 0 .. 2 * BlockSize :
       /\ IF Inodes \subseteq used THEN n = 2 * BlockSize ELSE FirstFree(n)
       /\ used' = used \cup {n}
       /\ newId' = [newId EXCEPT ![t] = n]
       /\ pc' = [pc EXCEPT ![t] = "insert"]
  /\ UNCHANGED <<imap, metaDb, key, reply, handed, told, fresh, creates, restarts>>

\* Mutant of GetId: ret < 0 is not looked at, and a full bitmap gives out 0.
GetIdUnchecked(t) ==
  /\ pc[t] = "alloc"
  /\ \E n \in Inodes :
       /\ IF Inodes \subseteq used THEN n = 0 ELSE FirstFree(n)
       /\ used' = used \cup {n}
       /\ newId' = [newId EXCEPT ![t] = n]
       /\ pc' = [pc EXCEPT ![t] = "insert"]
  /\ UNCHANGED <<imap, metaDb, key, reply, handed, told, fresh, creates, restarts>>

\* pomme_get_id.
GetId(t) ==
  /\ pc[t] = "alloc"
  /\ \/ \E n \in Inodes :
          /\ FirstFree(n)
          /\ used' = used \cup {n}
          /\ newId' = [newId EXCEPT ![t] = n]
          /\ pc' = [pc EXCEPT ![t] = "insert"]
          /\ UNCHANGED <<key, reply>>
     \/ /\ Inodes \subseteq used
        /\ Answer(t, "internal")
        /\ UNCHANGED used
  /\ UNCHANGED <<imap, metaDb, handed, told, fresh, creates, restarts>>

\* Mutant of MayInsert: the put overwrites.
MayOverwrite(k) == TRUE

\* DB_NOOVERWRITE on imap.
MayInsert(k) == imap[k] = None

\* imap->put with DB_NOOVERWRITE.  The loser of a race is told FILE_EXIST, and
\* the number it allocated stays set: nothing calls pomme_unset_id.
InsertInode(t) ==
  /\ pc[t] = "insert"
  /\ LET k == key[t] IN
     \/ /\ MayInsert(k)
        /\ imap' = [imap EXCEPT ![k] = newId[t]]
        /\ Tell(k, newId[t])
        /\ fresh' = fresh \cup {k}
        /\ Answer(t, "ok")
     \/ /\ ~MayInsert(k)
        /\ Answer(t, "exist")
        /\ UNCHANGED <<imap, handed, told, fresh>>
  /\ UNCHANGED <<metaDb, used, creates, restarts>>

\* Mutant of MayCreate: only a file record counts as present.
MayCreateOverObject(i) == metaDb[i] # "file"

\* DB_NOOVERWRITE on meta_db.
MayCreate(i) == metaDb[i] = "none"

\* pomme_create_file: meta_db->put with DB_NOOVERWRITE.
CreateFile(t, i) ==
  /\ pc[t] = "idle"
  /\ \/ /\ MayCreate(i)
        /\ metaDb' = [metaDb EXCEPT ![i] = "file"]
        /\ creates' = [creates EXCEPT ![i] = @ + 1]
        /\ Answer(t, "ok")
     \/ /\ ~MayCreate(i)
        /\ Answer(t, "exist")
        /\ UNCHANGED <<metaDb, creates>>
  /\ UNCHANGED <<imap, used, handed, told, fresh, restarts>>

\* pomme_write_file: a cursor put with DB_KEYLAST.  The DB_DUP flag is
\* computed in pomme_ms_init and never given to set_flags, so meta_db keeps
\* one record per key and the put replaces it; it also creates a missing one.
WriteFile(t, i) ==
  /\ pc[t] = "idle"
  /\ metaDb' = [metaDb EXCEPT ![i] = "object"]
  /\ Answer(t, "ok")
  /\ UNCHANGED <<imap, used, handed, told, fresh, creates, restarts>>

\* pomme_read_file and pomme_stat_file: whatever record is there is returned
\* as the file's; they differ in how they report a missing one.
ReadFile(t, i) ==
  /\ pc[t] = "idle"
  /\ Answer(t, IF metaDb[i] = "none" THEN "not_found" ELSE "ok")
  /\ UNCHANGED <<imap, metaDb, used, handed, told, fresh, creates, restarts>>

StatFile(t, i) ==
  /\ pc[t] = "idle"
  /\ Answer(t, IF metaDb[i] = "none" THEN "internal" ELSE "ok")
  /\ UNCHANGED <<imap, metaDb, used, handed, told, fresh, creates, restarts>>

\* The process ends, with whatever its threads were doing, and is started
\* again: the records of imap outside K and of meta_db outside M are lost.
Restart(K, M) ==
  /\ restarts < MaxRestarts
  /\ restarts' = restarts + 1
  /\ imap' = [k \in Keys |-> IF k \in K THEN imap[k] ELSE None]
  /\ metaDb' = [i \in Inodes |-> IF i \in M THEN metaDb[i] ELSE "none"]
  /\ used' = Reloaded(imap')
  /\ pc' = [t \in Threads |-> "idle"]
  /\ key' = [t \in Threads |-> None]
  /\ newId' = [t \in Threads |-> None]
  /\ reply' = "none"
  /\ told' = {} /\ fresh' = {} /\ creates' = [i \in Inodes |-> 0]
  /\ UNCHANGED handed

-----------------------------------------------------------------------------
Handler(t) == GetId(t) \/ InsertInode(t)

Request(t) ==
  \/ \E k \in Keys, create \in BOOLEAN : GetInode(t, k, create)
  \/ \E i \in handed :   \* clients remember inodes across restarts
       CreateFile(t, i) \/ WriteFile(t, i) \/ ReadFile(t, i) \/ StatFile(t, i)

Next ==
  \/ \E t \in Threads : Request(t) \/ Handler(t)
  \/ \E K \in SUBSET {k \in Keys : imap[k] # None},
        M \in SUBSET {i \in Inodes : metaDb[i] # "none"} : Restart(K, M)

Spec == Init /\ [][Next]_vars

-----------------------------------------------------------------------------
(* Properties.                                                             *)

\* Type invariant: what each variable of the meta server can hold.
TypeOK ==
  /\ imap \in [Keys -> Inodes \cup {None}]
  /\ metaDb \in [Inodes -> Records]
  /\ used \subseteq Inodes
  /\ pc \in [Threads -> {"idle", "alloc", "insert"}]
  /\ key \in [Threads -> Keys \cup {None}]
  /\ newId \in [Threads -> Inodes \cup {None}]
  /\ reply \in Results
  /\ handed \subseteq Inodes /\ told \subseteq Keys \X Inodes
  /\ fresh \subseteq Keys
  /\ creates \in [Inodes -> Nat]
  /\ restarts \in 0 .. MaxRestarts

\* Two keys entered since the last start never share an inode, however the
\* lookups, allocations and insertions of the threads interleave.
FreshInodesUnique ==
  \A k, l \in fresh : imap[k] = imap[l] => k = l

\* Every client that asks for one key is told one inode: the number of a
\* thread that lost the insertion race is never given out.
ToldAgree == \A p, q \in told : p[1] = q[1] => p[2] = q[2]

\* At most one create_file of an inode is answered with success, and the
\* record it stored stays in meta_db: no later read or stat misses it.
CreatedOnce ==
  \A i \in Inodes : creates[i] <= 1 /\ (creates[i] = 1 => metaDb[i] # "none")

\* The inode of a key never changes; only a restart may lose the key.
KeysKeepInodes ==
  [][\A k \in Keys : imap[k] # None =>
       imap'[k] = imap[k] \/ (imap'[k] = None /\ restarts' # restarts)]_vars

\* pomme_ms_impl.h:151-155, "get an usable id to use ... @return the new id":
\* no two keys of imap have the same inode, across restarts too.
InodesUnique ==
  \A k, l \in Keys : imap[k] # None /\ imap[k] = imap[l] => k = l

\* pomme_meta_server.h:49-52, meta_db is "Use Btree, alloc multiple data item
\* for one key": writing a file adds an object to its record and leaves the
\* record create_file stored.
FileRecordSurvives == \A i \in Inodes : creates[i] = 1 => metaDb[i] = "file"

=============================================================================
