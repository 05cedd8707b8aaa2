-------------------------- MODULE MetaServerProofs --------------------------
(***************************************************************************)
(* Theorems about MetaServer, for every number of pool threads, keys,      *)
(* inode numbers and restarts.                                             *)
(***************************************************************************)
EXTENDS MetaServer, TLAPS

-----------------------------------------------------------------------------
(* Types.                                                                  *)

\* A thread inside get_inode has a key, and past pomme_get_id a number.
InsideFit ==
  \A t \in Threads :
    /\ pc[t] # "idle" => key[t] \in Keys
    /\ pc[t] = "insert" => newId[t] \in Inodes

TypeInv == TypeOK /\ InsideFit

LEMMA TypeInvInit == Init => TypeInv
  BY MetaAssumption DEF Init, TypeInv, TypeOK, InsideFit, Inodes, Records, Results

LEMMA TypeInvStep == TypeInv /\ [Next]_vars => TypeInv'
<1> SUFFICES ASSUME TypeInv, [Next]_vars PROVE TypeInv'
  OBVIOUS
<1> USE DEF TypeInv, InsideFit, Results, Records, Answer
<1>1. ASSUME NEW t \in Threads, NEW k \in Keys, NEW create \in BOOLEAN,
             GetInode(t, k, create)
      PROVE  TypeInv'
  <2>1. CASE imap[k] # None /\ Tell(k, imap[k]) /\ Answer(t, "ok")
    BY <1>1, <2>1 DEF GetInode, Tell, TypeOK
  <2>2. CASE Answer(t, "not_found") /\ UNCHANGED <<handed, told>>
    BY <1>1, <2>2 DEF GetInode, TypeOK
  <2>3. CASE /\ pc' = [pc EXCEPT ![t] = "alloc"]
             /\ key' = [key EXCEPT ![t] = k]
             /\ UNCHANGED <<newId, reply, handed, told>>
    BY <1>1, <2>3 DEF GetInode, TypeOK
  <2> QED
    BY <1>1, <2>1, <2>2, <2>3 DEF GetInode
<1>2. ASSUME NEW t \in Threads, GetId(t) PROVE TypeInv'
  BY <1>2 DEF GetId, TypeOK
<1>3. ASSUME NEW t \in Threads, InsertInode(t) PROVE TypeInv'
  BY <1>3 DEF InsertInode, Tell, TypeOK
<1>4. ASSUME NEW t \in Threads, NEW i \in handed, CreateFile(t, i) PROVE TypeInv'
  BY <1>4 DEF CreateFile, TypeOK
<1>5. ASSUME NEW t \in Threads, NEW i \in handed, WriteFile(t, i) PROVE TypeInv'
  BY <1>5 DEF WriteFile, TypeOK
<1>6. ASSUME NEW t \in Threads, NEW i \in handed, ReadFile(t, i) PROVE TypeInv'
  BY <1>6 DEF ReadFile, TypeOK
<1>7. ASSUME NEW t \in Threads, NEW i \in handed, StatFile(t, i) PROVE TypeInv'
  BY <1>7 DEF StatFile, TypeOK
<1>8. ASSUME NEW K, NEW M, Restart(K, M) PROVE TypeInv'
  <2>1. imap' \in [Keys -> Inodes \cup {None}] /\ metaDb' \in [Inodes -> Records]
    BY <1>8 DEF Restart, TypeOK
  <2>2. used' \subseteq Inodes
    BY <1>8, MetaAssumption DEF Restart, Reloaded, Inodes
  <2>3. restarts' \in 0 .. MaxRestarts
    BY <1>8, MetaAssumption DEF Restart, TypeOK
  <2> QED
    BY <1>8, <2>1, <2>2, <2>3 DEF Restart, TypeOK
<1>9. CASE UNCHANGED vars
  BY <1>9 DEF vars, TypeOK
<1> QED
  BY <1>1, <1>2, <1>3, <1>4, <1>5, <1>6, <1>7, <1>8, <1>9
  DEF Next, Request, Handler

LEMMA TypeInvAlways == Spec => []TypeInv
  BY TypeInvInit, TypeInvStep, PTL DEF Spec

\* The meta server's variables keep their types: above all every number that
\* is stored or told is one the bitmap has.
THEOREM TypeCorrect == Spec => []TypeOK
<1>1. TypeInv => TypeOK
  BY DEF TypeInv
<1> QED
  BY <1>1, TypeInvAlways, PTL

-----------------------------------------------------------------------------
(* Inode numbers.                                                          *)

\* The numbers in use since the last start are set in the bitmap, whether in
\* imap or still in the hands of a thread, and no two of them are equal.
NumbersApart ==
  /\ \A k \in fresh : imap[k] \in used
  /\ \A t \in Threads : pc[t] = "insert" => newId[t] \in used
  /\ \A t, u \in Threads :
       pc[t] = "insert" /\ pc[u] = "insert" /\ newId[t] = newId[u] => t = u
  /\ \A t \in Threads, k \in fresh : pc[t] = "insert" => newId[t] # imap[k]
  /\ FreshInodesUnique

\* What a client was told since the last start is what imap holds.
ToldIsStored == \A p \in told : imap[p[1]] = p[2]

NumbersInv == NumbersApart /\ ToldIsStored

LEMMA NumbersInvInit == Init => NumbersInv
  BY DEF Init, NumbersInv, NumbersApart, ToldIsStored, FreshInodesUnique

\* A handler that changes neither the numbers nor who holds them.
LEMMA NumbersUntouched ==
  ASSUME TypeInv, NumbersInv, NEW t \in Threads, pc[t] # "insert",
         pc' \in [Threads -> {"idle", "alloc", "insert"}], pc'[t] # "insert",
         \A u \in Threads \ {t} : pc'[u] = pc[u] /\ newId'[u] = newId[u],
         UNCHANGED <<imap, fresh>>, used \subseteq used', ToldIsStored'
  PROVE  NumbersInv'
  BY DEF TypeInv, TypeOK, NumbersInv, NumbersApart, FreshInodesUnique

LEMMA NumbersInvStep == TypeInv /\ NumbersInv /\ [Next]_vars => NumbersInv'
<1> SUFFICES ASSUME TypeInv, NumbersInv, [Next]_vars PROVE NumbersInv'
  OBVIOUS
<1>a. /\ pc \in [Threads -> {"idle", "alloc", "insert"}]
      /\ newId \in [Threads -> Inodes \cup {None}]
      /\ imap \in [Keys -> Inodes \cup {None}]
      /\ key \in [Threads -> Keys \cup {None}]
      /\ told \subseteq Keys \X Inodes /\ fresh \subseteq Keys
  BY DEF TypeInv, TypeOK
<1>b. ASSUME UNCHANGED <<imap, told>> PROVE ToldIsStored'
  BY <1>b DEF NumbersInv, ToldIsStored
<1>1. ASSUME NEW t \in Threads, NEW k \in Keys, NEW create \in BOOLEAN,
             GetInode(t, k, create)
      PROVE  NumbersInv'
  <2>1. ToldIsStored'
    BY <1>1, <1>a DEF GetInode, Tell, NumbersInv, ToldIsStored
  <2>2. \A u \in Threads \ {t} : pc'[u] = pc[u] /\ newId'[u] = newId[u]
    BY <1>1, <1>a DEF GetInode, Answer
  <2>3. /\ pc[t] # "insert" /\ pc'[t] # "insert"
        /\ pc' \in [Threads -> {"idle", "alloc", "insert"}]
        /\ UNCHANGED <<imap, fresh, used>>
    BY <1>1, <1>a DEF GetInode, Answer
  <2> QED
    BY <2>1, <2>2, <2>3, NumbersUntouched
<1>2. ASSUME NEW t \in Threads, GetId(t) PROVE NumbersInv'
  <2>1. ToldIsStored'
    BY <1>2, <1>b DEF GetId
  <2>2. CASE Answer(t, "internal") /\ UNCHANGED used
    BY <1>2, <1>a, <2>1, <2>2, NumbersUntouched DEF GetId, Answer
  <2>3. ASSUME NEW n \in Inodes, FirstFree(n),
               used' = used \cup {n}, newId' = [newId EXCEPT ![t] = n],
               pc' = [pc EXCEPT ![t] = "insert"]
        PROVE  NumbersInv'
    <3>1. n \notin used
      BY <2>3 DEF FirstFree
    <3>2. NumbersApart'
      BY <1>2, <1>a, <2>3, <3>1
      DEF GetId, NumbersInv, NumbersApart, FreshInodesUnique
    <3> QED
      BY <2>1, <3>2 DEF NumbersInv
  <2> QED
    BY <1>2, <2>2, <2>3 DEF GetId
<1>3. ASSUME NEW t \in Threads, InsertInode(t) PROVE NumbersInv'
  <2>1. key[t] \in Keys /\ newId[t] \in Inodes /\ pc[t] = "insert"
    BY <1>3 DEF InsertInode, TypeInv, InsideFit
  <2>2. CASE MayInsert(key[t])
    <3>1. ToldIsStored'
      BY <1>3, <1>a, <2>1, <2>2, MetaAssumption
      DEF InsertInode, MayInsert, Tell, NumbersInv, ToldIsStored, Inodes
    <3>2. NumbersApart'
      BY <1>3, <1>a, <2>1, <2>2
      DEF InsertInode, Answer, MayInsert, NumbersInv, NumbersApart, FreshInodesUnique
    <3> QED
      BY <3>1, <3>2 DEF NumbersInv
  <2>3. CASE ~MayInsert(key[t])
    <3>1. ToldIsStored'
      BY <1>3, <1>b, <2>3 DEF InsertInode
    <3>2. NumbersApart'
      BY <1>3, <1>a, <2>1, <2>3
      DEF InsertInode, Answer, NumbersInv, NumbersApart, FreshInodesUnique
    <3> QED
      BY <3>1, <3>2 DEF NumbersInv
  <2> QED
    BY <2>2, <2>3
<1>4. ASSUME NEW t \in Threads, NEW i \in handed,
             CreateFile(t, i) \/ WriteFile(t, i) \/ ReadFile(t, i) \/ StatFile(t, i)
      PROVE  NumbersInv'
  <2>1. /\ pc[t] = "idle" /\ \E r \in Results : Answer(t, r)
        /\ UNCHANGED <<imap, used, fresh, told>>
    BY <1>4 DEF CreateFile, WriteFile, ReadFile, StatFile, Results
  <2> QED
    BY <1>a, <1>b, <2>1, NumbersUntouched DEF Answer
<1>5. ASSUME NEW K, NEW M, Restart(K, M) PROVE NumbersInv'
  BY <1>5 DEF Restart, NumbersInv, NumbersApart, ToldIsStored, FreshInodesUnique
<1>6. CASE UNCHANGED vars
  BY <1>6 DEF vars, NumbersInv, NumbersApart, ToldIsStored, FreshInodesUnique
<1> QED
  BY <1>1, <1>2, <1>3, <1>4, <1>5, <1>6 DEF Next, Request, Handler

LEMMA NumbersInvAlways == Spec => []NumbersInv
  BY NumbersInvInit, NumbersInvStep, TypeInvAlways, PTL DEF Spec

\* Two keys entered since the server started never share an inode.
THEOREM FreshUnique == Spec => []FreshInodesUnique
<1>1. NumbersInv => FreshInodesUnique
  BY DEF NumbersInv, NumbersApart
<1> QED
  BY <1>1, NumbersInvAlways, PTL

\* All clients that ask for a key are told the same inode.
THEOREM ClientsAgree == Spec => []ToldAgree
<1>1. NumbersInv => ToldAgree
  BY DEF NumbersInv, ToldIsStored, ToldAgree
<1> QED
  BY <1>1, NumbersInvAlways, PTL

\* An inode is created at most once, and its record is not lost while the
\* server runs.
THEOREM CreatesOnce == Spec => []CreatedOnce
<1>1. Init => CreatedOnce
  BY DEF Init, CreatedOnce
<1>2. TypeInv /\ CreatedOnce /\ [Next]_vars => CreatedOnce'
  <2> SUFFICES ASSUME TypeInv, CreatedOnce, [Next]_vars PROVE CreatedOnce'
    OBVIOUS
  <2> USE DEF CreatedOnce, TypeInv, TypeOK
  <2>1. ASSUME UNCHANGED <<metaDb, creates>> PROVE CreatedOnce'
    BY <2>1
  <2>2. ASSUME NEW t \in Threads, NEW i \in handed, CreateFile(t, i)
        PROVE  CreatedOnce'
    BY <2>2 DEF CreateFile, MayCreate
  <2>3. ASSUME NEW t \in Threads, NEW i \in handed, WriteFile(t, i)
        PROVE  CreatedOnce'
    BY <2>3 DEF WriteFile
  <2>4. ASSUME NEW K, NEW M, Restart(K, M) PROVE CreatedOnce'
    BY <2>4 DEF Restart
  <2> QED
    BY <2>1, <2>2, <2>3, <2>4
    DEF Next, Request, Handler, GetInode, GetId, InsertInode, ReadFile, StatFile, vars
<1> QED
  BY <1>1, <1>2, TypeInvAlways, PTL DEF Spec

\* No step but a restart takes the inode of a key away, and none changes it.
THEOREM KeysKeep == Spec => KeysKeepInodes
<1>1. TypeInv /\ [Next]_vars =>
        [\A k \in Keys : imap[k] # None =>
           imap'[k] = imap[k] \/ (imap'[k] = None /\ restarts' # restarts)]_vars
  <2> SUFFICES ASSUME TypeInv, [Next]_vars, NEW k \in Keys, imap[k] # None
               PROVE  imap'[k] = imap[k] \/ (imap'[k] = None /\ restarts' # restarts)
    OBVIOUS
  <2>1. ASSUME NEW t \in Threads, InsertInode(t) PROVE imap'[k] = imap[k]
    BY <2>1 DEF InsertInode, MayInsert, TypeInv, TypeOK
  <2>2. ASSUME NEW K, NEW M, Restart(K, M)
        PROVE  imap'[k] = imap[k] \/ (imap'[k] = None /\ restarts' # restarts)
    BY <2>2 DEF Restart, TypeInv, TypeOK
  <2> QED
    BY <2>1, <2>2
    DEF Next, Request, Handler, GetInode, GetId, CreateFile, WriteFile,
        ReadFile, StatFile, vars
<1> QED
  BY <1>1, TypeInvAlways, PTL DEF Spec, KeysKeepInodes

=============================================================================
