-------------------------- MODULE DataServerProofs --------------------------
(***************************************************************************)
(* DataServer for every set of clients, messages and keys and every number *)
(* of starts: its type, one valid storage file, stored objects that stay   *)
(* whole, and answers made of one object.                                  *)
(*                                                                         *)
(* The argument for the objects is that the file only grows.  Each entry   *)
(* that counts ends at or before the place where the put in hand began,    *)
(* and a put, its undoing and a crash touch nothing before that place.     *)
(***************************************************************************)
EXTENDS DataServer, FiniteSetTheorems, TLAPS

\* The process knows whom it talks to once it has accepted a connection.
LastInv == \A c \in Clients : conn[c] \in {"armed", "handled"} => last \in Clients

\* A start makes at most one storage file, only when there is no valid one, and
\* the file gets its head last.
StartInv ==
  /\ \A m, n \in Valid : m = n
  /\ Cardinality(Files) <= IF pc \in {"scan", "append", "create"} THEN starts - 1 ELSE starts
  /\ pc \in {"append", "create", "head"} => Valid = {}
  /\ pc \in {"create", "head"} => made \in [name : Names, id : Nat \ {0}]
  /\ pc = "head" => made.name \in Files /\ store[made.name].runs = {}
  /\ pc = "listen" => cur \in Valid

\* No run of bytes is empty or reaches past the end of its file.
FileInv ==
  \A n \in Files : \A r \in store[n].runs : r.len > 0 /\ r.at + r.len <= store[n].size

\* The put in hand has put its bytes somewhere.
Begun == pc \in {"recv", "enter", "undo"}

\* A put in hand writes at the end of the file or behind it; as long as every
\* write of it succeeded, what it wrote is there and is its own.
PutInv ==
  /\ put # None => put.wl > 0 /\ put.wl <= Message[put.by].total
  /\ pc = "write" => ~put.broken
  /\ pc = "recv" => put.wl < Message[put.by].total
  /\ pc = "enter" => put.wl = Message[put.by].total
  /\ Begun =>
       /\ put.start \in Nat /\ put.start <= put.pos
       /\ store[cur].size <= put.pos
       /\ ~put.broken =>
            /\ put.pos = put.start + put.wl /\ store[cur].size = put.pos
            /\ \A b \in put.start .. put.pos - 1 : Writers(store[cur], b) = {put.by}

\* An object is whole, and ends where the put in hand began or before it.
Safe(e) == Whole(e) /\ (Begun => e.start + e.len <= put.start)

\* The entries of db_meta, now or after the next recovery, all of whose writes
\* succeeded: they are safe.
Stored ==
  {e \in Entries \ {None} :
     ~e.broken /\ \E d \in {db, saved} : \E a \in Addrs : d.index[a] = e}

DbInv == \A e \in Stored : Safe(e)

DataInv == TypeOK /\ LastInv /\ StartInv /\ FileInv /\ PutInv /\ DbInv /\ AnswersAreOneObject

-----------------------------------------------------------------------------
(* The operators of the model.                                             *)

\* Min of two and of three numbers is one of them and none is smaller.
LEMMA MinOfTwo ==
  ASSUME NEW a \in Int, NEW b \in Int
  PROVE  Min({a, b}) \in {a, b} /\ Min({a, b}) <= a /\ Min({a, b}) <= b
  <1>1. \E x \in {a, b} : \A y \in {a, b} : x =< y OBVIOUS
  <1> QED BY <1>1 DEF Min

LEMMA MinOfThree ==
  ASSUME NEW a \in Int, NEW b \in Int, NEW c \in Int
  PROVE  /\ Min({a, b, c}) \in {a, b, c}
         /\ Min({a, b, c}) <= a /\ Min({a, b, c}) <= b /\ Min({a, b, c}) <= c
  <1>1. \E x \in {a, b, c} : \A y \in {a, b, c} : x =< y OBVIOUS
  <1> QED BY <1>1 DEF Min

\* A write of all its bytes at or behind the end of a file keeps the file well
\* formed, and changes who wrote at the places written only.
LEMMA GrownFile ==
  ASSUME NEW f \in File, NEW pos \in Nat, NEW n \in Nat, NEW by \in Clients, NEW from \in Nat
  PROVE  LET g == Grown(f, pos, n, by, from) IN
         /\ g \in File /\ g.id = f.id /\ g.size = pos + n
         /\ g.runs = f.runs \cup {[at |-> pos, len |-> n, by |-> by, from |-> from]}
  <1> DEFINE g == Grown(f, pos, n, by, from)
             r == [at |-> pos, len |-> n, by |-> by, from |-> from]
  <1>1. f.id \in Nat BY DEF File
  <1>2. g = [id |-> f.id, size |-> pos + n, runs |-> f.runs \cup {r}]
    BY DEF Grown
  <1>3. r \in [at : Nat, len : Nat, by : Clients, from : Nat] OBVIOUS
  <1>4. f.runs \cup {r} \in SUBSET [at : Nat, len : Nat, by : Clients, from : Nat]
    BY <1>3 DEF File
  <1>5. g \in File BY <1>1, <1>2, <1>4 DEF File
  <1> QED BY <1>2, <1>5

LEMMA GrownWriters ==
  ASSUME NEW f \in File, NEW pos \in Nat, NEW n \in Nat, NEW by \in Clients, NEW from \in Nat,
         NEW b \in Int
  PROVE  Writers(Grown(f, pos, n, by, from), b) =
           IF pos <= b /\ b < pos + n THEN Writers(f, b) \cup {by} ELSE Writers(f, b)
  <1> DEFINE r == [at |-> pos, len |-> n, by |-> by, from |-> from]
             g == Grown(f, pos, n, by, from)
  <1>1. g.runs = f.runs \cup {r} BY DEF Grown
  <1>2. r.at = pos /\ r.len = n /\ r.by = by OBVIOUS
  <1> HIDE DEF r, g
  <1>3. \A q \in g.runs : q \in f.runs \/ q = r BY <1>1
  <1>4. r \in g.runs /\ \A q \in f.runs : q \in g.runs BY <1>1
  <1>5. \A w : w \in Writers(g, b) <=> w \in Writers(f, b) \/ (w = by /\ pos <= b /\ b < pos + n)
    BY <1>2, <1>3, <1>4 DEF Writers
  <1>6. Writers(g, b) = IF pos <= b /\ b < pos + n THEN Writers(f, b) \cup {by} ELSE Writers(f, b)
    BY <1>5
  <1> QED BY <1>6 DEF g

\* ftruncate to n bytes keeps the file well formed and all that was before n.
LEMMA CutFile ==
  ASSUME NEW f \in File, NEW n \in Nat, \A r \in f.runs : r.len > 0
  PROVE  LET g == Cut(f, n) IN
         /\ g \in File /\ g.id = f.id /\ g.size = n
         /\ \A r \in g.runs : r.len > 0 /\ r.at + r.len <= n
  <1> DEFINE Short(r) == [r EXCEPT !.len = Min({r.len, n - r.at})]
             kept == {q \in f.runs : q.at < n}
             g == Cut(f, n)
  <1>1. g.id = f.id /\ g.size = n /\ g.runs = {Short(r) : r \in kept}
        /\ g = [id |-> f.id, size |-> n, runs |-> {Short(r) : r \in kept}]
    BY DEF Cut
  <1>2. ASSUME NEW r \in kept
        PROVE  /\ Short(r) \in [at : Nat, len : Nat, by : Clients, from : Nat]
               /\ Short(r).len > 0 /\ Short(r).at + Short(r).len <= n
    <2>1. r \in [at : Nat, len : Nat, by : Clients, from : Nat] /\ r.at < n /\ r.len > 0
      BY DEF File
    <2>2. r.len \in Int /\ n - r.at \in Int BY <2>1
    <2>3. /\ Min({r.len, n - r.at}) \in {r.len, n - r.at}
          /\ Min({r.len, n - r.at}) <= n - r.at
      BY <2>2, MinOfTwo
    <2>4. Min({r.len, n - r.at}) \in Nat \ {0} /\ r.at + Min({r.len, n - r.at}) <= n
      BY <2>1, <2>3
    <2> QED BY <2>1, <2>4
  <1> HIDE DEF Short, kept, g
  <1>3. \A r \in g.runs : r \in [at : Nat, len : Nat, by : Clients, from : Nat]
          /\ r.len > 0 /\ r.at + r.len <= n
    BY <1>1, <1>2
  <1>4. g \in File BY <1>1, <1>3 DEF File
  <1> QED BY <1>1, <1>3, <1>4 DEF g

LEMMA CutWriters ==
  ASSUME NEW f \in File, NEW n \in Nat, NEW b \in Int, b < n
  PROVE  Writers(Cut(f, n), b) = Writers(f, b)
  <1> DEFINE Short(r) == [r EXCEPT !.len = Min({r.len, n - r.at})]
             kept == {q \in f.runs : q.at < n}
             g == Cut(f, n)
  <1>1. g.runs = {Short(r) : r \in kept} BY DEF Cut, File
  <1>2. ASSUME NEW r \in kept
        PROVE  /\ Short(r).by = r.by
               /\ Short(r).at <= b /\ b < Short(r).at + Short(r).len <=>
                    r.at <= b /\ b < r.at + r.len
    <2>1. r \in [at : Nat, len : Nat, by : Clients, from : Nat] BY DEF File
    <2>2. /\ Short(r).by = r.by /\ Short(r).at = r.at
          /\ Short(r).len = Min({r.len, n - r.at})
      BY <2>1
    <2>3. r.len \in Int /\ n - r.at \in Int BY <2>1
    <2>4. /\ Min({r.len, n - r.at}) \in {r.len, n - r.at}
          /\ Min({r.len, n - r.at}) <= r.len
      BY <2>3, MinOfTwo
    <2> QED BY <2>1, <2>2, <2>4
  <1>3. \A q \in f.runs : q.at <= b => q \in kept BY DEF File
  <1>4. kept \subseteq f.runs OBVIOUS
  <1> HIDE DEF Short, kept, g
  <1>5. \A w : w \in Writers(g, b) <=> w \in Writers(f, b)
    <2>1. ASSUME NEW w \in Writers(g, b) PROVE w \in Writers(f, b)
      <3>1. PICK q \in g.runs : q.at <= b /\ b < q.at + q.len /\ w = q.by BY DEF Writers
      <3>2. PICK r \in kept : q = Short(r) BY <1>1
      <3> QED BY <1>2, <1>4, <3>1, <3>2 DEF Writers
    <2>2. ASSUME NEW w \in Writers(f, b) PROVE w \in Writers(g, b)
      <3>1. PICK r \in f.runs : r.at <= b /\ b < r.at + r.len /\ w = r.by BY DEF Writers
      <3>2. r \in kept /\ Short(r) \in g.runs BY <1>1, <1>3, <3>1
      <3> QED BY <1>2, <3>1, <3>2 DEF Writers
    <2> QED BY <2>1, <2>2
  <1> QED BY <1>5 DEF g

\* Sets of storage files are finite.
LEMMA NamesFinite ==
  \A T \in SUBSET Names : IsFiniteSet(T) /\ Cardinality(T) \in Nat
  <1>1. IsFiniteSet(Names) BY FS_Interval, DataAssumption DEF Names
  <1> QED BY <1>1, FS_Subset, FS_CardinalityType

-----------------------------------------------------------------------------
(* Steps that leave the storage files and db_meta alone.                   *)

\* Without a write the files are the same and every object is as whole as before.
LEMMA DiskKept ==
  ASSUME UNCHANGED store
  PROVE  Files' = Files /\ Valid' = Valid /\ \A e : Whole(e)' = Whole(e)
  BY DEF Files, Valid, Whole

\* What is stored stays safe when no put is under way any more.
LEMMA DbKept ==
  ASSUME DbInv, UNCHANGED diskVars, Begun' => Begun /\ put' = put
  PROVE  DbInv'
  <1>1. Stored' = Stored BY DEF Stored, diskVars
  <1>2. \A e : Whole(e)' = Whole(e) BY DiskKept DEF diskVars
  <1>3. ASSUME NEW e \in Stored PROVE Safe(e)'
    BY <1>2, <1>3 DEF DbInv, Safe
  <1> QED BY <1>1, <1>3 DEF DbInv

\* The end of the process: the put in hand and the connections are gone.
LEMMA DieInv == ASSUME DataInv, Die, UNCHANGED <<diskVars, starts>> PROVE DataInv'
  <1> USE DataAssumption DEF DataInv, diskVars
  <1>1. Files' = Files /\ Valid' = Valid BY DiskKept
  <1>2. TypeOK'
    <2>1. conn' \in [Clients -> {"none", "armed", "handled", "reset"}] BY DEF Die, TypeOK
    <2> QED BY <1>1, <2>1 DEF Die, TypeOK, Up, Busy
  <1>3. LastInv' BY DEF Die, LastInv
  <1>4. StartInv'
    <2>1. Cardinality(Files) \in Nat BY NamesFinite DEF Files
    <2> QED BY <1>1, <2>1 DEF Die, StartInv, TypeOK
  <1>5. FileInv' BY <1>1 DEF FileInv
  <1>6. PutInv' BY DEF Die, PutInv, Begun
  <1>7. DbInv' BY DbKept DEF Die, Begun
  <1>8. AnswersAreOneObject' BY DEF Die, AnswersAreOneObject
  <1> QED BY <1>2, <1>3, <1>4, <1>5, <1>6, <1>7, <1>8

\* The bytes of a client arrive.
LEMMA DeliverInv == ASSUME DataInv, NEW c \in Clients, Deliver(c) PROVE DataInv'
  <1> USE DataAssumption DEF DataInv, diskVars, procVars, Deliver
  <1>1. Files' = Files /\ Valid' = Valid BY DiskKept
  <1>2. TypeOK'
    <2>1. PICK n \in Cuts(c) : /\ arrived[c] < n /\ n <= StreamLength(c)
                               /\ arrived' = [arrived EXCEPT ![c] = n]
      OBVIOUS
    <2>2. n \in Nat
      <3>1. Message[c].first \in Nat /\ Message[c].total \in Nat OBVIOUS
      <3> QED BY <3>1 DEF Cuts, StreamLength, Layout
    <2>3. /\ arrived' \in [Clients -> Nat]
          /\ \A d \in Clients : arrived'[d] <= StreamLength(d)
      BY <2>1, <2>2 DEF TypeOK
    <2> QED BY <1>1, <2>3 DEF TypeOK, Up
  <1>3. LastInv' BY DEF LastInv
  <1>4. StartInv' BY <1>1 DEF StartInv
  <1>5. FileInv' BY <1>1 DEF FileInv
  <1>6. PutInv' BY DEF PutInv, Begun
  <1>7. DbInv' BY DbKept DEF Begun
  <1>8. AnswersAreOneObject' BY DEF AnswersAreOneObject
  <1> QED BY <1>2, <1>3, <1>4, <1>5, <1>6, <1>7, <1>8

\* accept makes its client the last one.
LEMMA AcceptInv == ASSUME DataInv, NEW c \in Clients, Accept(c) PROVE DataInv'
  <1> USE DataAssumption DEF DataInv, diskVars, Accept
  <1>1. Files' = Files /\ Valid' = Valid BY DiskKept
  <1>2. TypeOK' BY <1>1 DEF TypeOK, Up
  <1>3. LastInv' BY DEF LastInv, TypeOK
  <1>4. StartInv' BY <1>1 DEF StartInv
  <1>5. FileInv' BY <1>1 DEF FileInv
  <1>6. PutInv' BY DEF PutInv, Begun
  <1>7. DbInv' BY DbKept DEF Begun
  <1>8. AnswersAreOneObject' BY DEF AnswersAreOneObject
  <1> QED BY <1>2, <1>3, <1>4, <1>5, <1>6, <1>7, <1>8

\* A message that is not a whole put or get.
LEMMA HandleOtherInv == ASSUME DataInv, NEW c \in Clients, HandleOther(c) PROVE DataInv'
  <1>1. CASE Die BY <1>1, DieInv DEF HandleOther
  <1>2. CASE Handled(c) /\ UNCHANGED <<procVars, arrived, reply>>
    <2> USE <1>2, DataAssumption DEF DataInv, diskVars, procVars, HandleOther, Handled, Ready
    <2>1. Files' = Files /\ Valid' = Valid BY DiskKept
    <2>2. TypeOK' BY <2>1 DEF TypeOK, Up
    <2>3. LastInv' BY DEF LastInv, TypeOK
    <2>4. StartInv' BY <2>1 DEF StartInv
    <2>5. FileInv' BY <2>1 DEF FileInv
    <2>6. PutInv' BY DEF PutInv, Begun
    <2>7. DbInv' BY DbKept DEF Begun
    <2>8. AnswersAreOneObject' BY DEF AnswersAreOneObject
    <2> QED BY <2>2, <2>3, <2>4, <2>5, <2>6, <2>7, <2>8
  <1> QED BY <1>1, <1>2 DEF HandleOther

\* A put whose message was not cut short brings data, and no more than it says.
LEMMA PutStartInv == ASSUME DataInv, NEW c \in Clients, PutStart(c) PROVE DataInv'
  <1> USE DataAssumption DEF DataInv, diskVars
  <1>1. Files' = Files /\ Valid' = Valid BY DiskKept DEF PutStart
  <1>9. last \in Clients BY DEF PutStart, Ready, LastInv
  <1>10. /\ Message[last].first \in Nat \ {0} /\ Message[last].total \in Nat
         /\ Message[last].first <= Message[last].total
    <2>1. /\ Message[last].first \in Nat /\ Message[last].total \in Nat
          /\ Message[last].first <= Message[last].total
      BY <1>9
    <2>2. ~CutShort(last, Received) BY DEF PutStart, Unpacked
    <2>3. Message[last].op = "put" BY <2>2 DEF PutStart, Unpacked
    <2> QED BY <2>1, <2>2, <2>3 DEF CutShort
  <1>11. Received \in Nat
    <2>1. /\ arrived[last] \in Int /\ arrived[last] >= 0
          /\ Package \in Int /\ Package >= 0
      BY <1>9 DEF TypeOK, Package
    <2>2. Min({arrived[last], Package}) \in {arrived[last], Package} BY <2>1, MinOfTwo
    <2> QED BY <2>1, <2>2 DEF Received
  <1>12. put' \in Puts /\ put'.wl = Message[last].first /\ put'.by = last /\ ~put'.broken
         /\ pc' = "write" /\ pc = "wait"
    BY <1>9, <1>10, <1>11 DEF PutStart, Puts, Ready
  <1>2. TypeOK'
    <2>1. conn' \in [Clients -> {"none", "armed", "handled", "reset"}]
      BY DEF PutStart, Handled, TypeOK
    <2>2. put' # None BY <1>12
    <2> QED BY <1>1, <1>12, <2>1, <2>2 DEF TypeOK, Up, Busy, PutStart
  <1>3. LastInv' BY <1>9 DEF PutStart, LastInv
  <1>4. StartInv' BY <1>1, <1>12 DEF StartInv, PutStart
  <1>5. FileInv' BY <1>1 DEF FileInv, PutStart
  <1>6. PutInv' BY <1>10, <1>12 DEF PutInv, Begun
  <1>7. DbInv' BY <1>12, DbKept DEF Begun, PutStart
  <1>8. AnswersAreOneObject' BY DEF AnswersAreOneObject, PutStart
  <1> QED BY <1>2, <1>3, <1>4, <1>5, <1>6, <1>7, <1>8

\* In a whole object any piece from its start, even the shortest, is made of
\* its own bytes and of nobody else's.
LEMMA OriginsOne ==
  ASSUME DataInv, NEW e \in Entries, Whole(e), NEW n \in Valid,
         NEW k \in Nat, 0 < k, k <= e.len
  PROVE  Origins(store[n], e.start, k) = {e.by}
  <1>1. PICK m \in Valid : \A b \in e.start .. e.start + e.len - 1 : Writers(store[m], b) = {e.by}
    BY DEF Whole
  <1>2. m = n BY DEF DataInv, StartInv
  <1>3. e.start \in Nat /\ e.len \in Nat BY DEF Entries
  <1>4. \A q \in store[n].runs : q.at \in Nat /\ q.len \in Nat /\ q.len > 0
    BY DEF DataInv, TypeOK, File, FileInv, Valid, Files
  <1>5. ASSUME NEW q \in store[n].runs, q.at < e.start + k, e.start < q.at + q.len
        PROVE  q.by = e.by
    <2>1. PICK b \in e.start .. e.start + e.len - 1 : q.at <= b /\ b < q.at + q.len
      <3>1. CASE q.at <= e.start BY <1>3, <1>4, <1>5, <3>1
      <3>2. CASE e.start < q.at BY <1>3, <1>4, <1>5, <3>2
      <3> QED BY <1>3, <1>4, <3>1, <3>2
    <2> QED BY <1>1, <1>2, <2>1 DEF Writers
  <1>6. PICK q \in store[n].runs : q.at <= e.start /\ e.start < q.at + q.len /\ q.by = e.by
    <2>1. e.start \in e.start .. e.start + e.len - 1 BY <1>3
    <2>2. e.by \in Writers(store[n], e.start) BY <1>1, <1>2, <2>1
    <2> QED BY <2>2 DEF Writers
  <1>7. q.at < e.start + k BY <1>3, <1>4, <1>6
  <1>8. e.by \in Origins(store[n], e.start, k) BY <1>6, <1>7 DEF Origins
  <1>9. \A w \in Origins(store[n], e.start, k) : w = e.by BY <1>5 DEF Origins
  <1> QED BY <1>8, <1>9

\* A get answers with a piece of the object that db_meta names for its key.
LEMMA GetInv == ASSUME DataInv, NEW c \in Clients, Get(c) PROVE DataInv'
  <1> USE DataAssumption DEF DataInv, diskVars, procVars
  <1>1. Files' = Files /\ Valid' = Valid BY DiskKept DEF Get
  <1>2. last \in Clients /\ addr \in Addrs /\ pc = "wait" BY DEF Get, Ready, LastInv, TypeOK
  <1> DEFINE e == db.index[addr]
  <1>3. /\ reply' \in [Clients -> Replies \cup {None}]
        /\ \A d \in Clients : reply'[d] # None /\ ~reply'[d].entry.broken /\ reply'[d].len > 0 =>
             reply'[d].from = {reply'[d].entry.by}
    <2>1. CASE reply' = reply BY <2>1 DEF TypeOK, AnswersAreOneObject
    <2>2. CASE Found(e, last) /\ reply' # reply
      <3>1. PICK n \in Opened(e) : reply' = [reply EXCEPT ![last] =
              [entry |-> e, len |-> Sendable(e, last),
               sent |-> Sent(store[n], e.start, Sendable(e, last)),
               from |-> Origins(store[n], e.start, Sendable(e, last))]]
        BY <2>2 DEF Get
      <3>2. e \in Entries /\ e # None BY <1>2, <2>2 DEF Found, TypeOK, Db
      <3>3. n \in Valid /\ store[n] \in File BY DEF Opened, TypeOK, Valid, Files
      <3>4. Sendable(e, last) \in Nat /\ Sendable(e, last) <= e.len
        <4>1. Message[last].total \in Int /\ e.len \in Int /\ Message[last].total >= 0 /\ e.len >= 0
          BY <1>2, <3>2 DEF Entries
        <4>2. /\ Min({Message[last].total, e.len}) \in {Message[last].total, e.len}
              /\ Min({Message[last].total, e.len}) <= e.len
          BY <4>1, MinOfTwo
        <4> QED BY <4>1, <4>2 DEF Sendable
      <3>5. Sent(store[n], e.start, Sendable(e, last)) \in Int
        <4> DEFINE k == Sendable(e, last)
                   packs == MaxProto + Package * ((k - MaxProto + Package - 1) \div Package)
                   rest == store[n].size - e.start
        <4>1. k \in Int BY <3>4
        <4>2. packs \in Int BY <4>1 DEF MaxProto, Package
        <4>3. rest \in Int BY <3>2, <3>3 DEF File, Entries
        <4> HIDE DEF k, packs, rest
        <4>4. Min({rest, packs}) \in {rest, packs} BY <4>2, <4>3, MinOfTwo
        <4>5. Min({rest, packs}) \in Int BY <4>2, <4>3, <4>4
        <4> QED BY <4>1, <4>5 DEF Sent, k, packs, rest
      <3>6. Origins(store[n], e.start, Sendable(e, last)) \in SUBSET Clients
        BY <3>3 DEF Origins, File
      <3>7. ~e.broken /\ Sendable(e, last) > 0 =>
              Origins(store[n], e.start, Sendable(e, last)) = {e.by}
        <4>1. ~e.broken => Whole(e) BY <1>2, <3>2 DEF DbInv, Stored, Safe
        <4> QED BY <3>2, <3>3, <3>4, <4>1, OriginsOne
      <3> DEFINE r == [entry |-> e, len |-> Sendable(e, last),
                       sent |-> Sent(store[n], e.start, Sendable(e, last)),
                       from |-> Origins(store[n], e.start, Sendable(e, last))]
      <3>11. r \in Replies BY <3>2, <3>4, <3>5, <3>6 DEF Replies
      <3>12. ~r.entry.broken /\ r.len > 0 => r.from = {r.entry.by} BY <3>7
      <3> HIDE DEF r
      <3>8. r \in Replies /\ reply' = [reply EXCEPT ![last] = r]
        BY <3>1, <3>11 DEF r
      <3>9. \A d \in Clients : reply'[d] = r \/ reply'[d] = reply[d]
        BY <3>8 DEF TypeOK
      <3>10. reply' \in [Clients -> Replies \cup {None}] BY <3>8 DEF TypeOK
      <3> QED BY <3>9, <3>10, <3>12 DEF AnswersAreOneObject
    <2> QED BY <2>1, <2>2 DEF Get
  <1>4. TypeOK'
    <2>1. conn' \in [Clients -> {"none", "armed", "handled", "reset"}] BY DEF Get, Handled, TypeOK
    <2> QED BY <1>1, <1>3, <2>1 DEF Get, TypeOK, Up
  <1>5. LastInv' BY <1>2 DEF Get, LastInv
  <1>6. StartInv' BY <1>1 DEF Get, StartInv
  <1>7. FileInv' BY <1>1 DEF Get, FileInv
  <1>8. PutInv' BY DEF Get, PutInv, Begun
  <1>9. DbInv' BY DbKept DEF Get, Begun
  <1>10. AnswersAreOneObject' BY <1>3 DEF AnswersAreOneObject
  <1> QED BY <1>4, <1>5, <1>6, <1>7, <1>8, <1>9, <1>10

-----------------------------------------------------------------------------
(* The start of the server.                                                *)

\* Recovery leaves entries that were there before.
LEMMA OpenEnvInv == ASSUME DataInv, OpenEnv PROVE DataInv'
  <1> USE DataAssumption DEF DataInv, OpenEnv, netVars
  <1>1. Files' = Files /\ Valid' = Valid /\ \A e : Whole(e)' = Whole(e) BY DiskKept
  <1>2. TypeOK'
    <2>1. EmptyDb \in Db BY DEF EmptyDb, Db
    <2> QED BY <1>1, <2>1 DEF TypeOK, Up, Busy
  <1>3. LastInv' BY DEF LastInv
  <1>4. StartInv' BY <1>1 DEF StartInv, TypeOK
  <1>5. FileInv' BY <1>1 DEF FileInv
  <1>6. PutInv' BY DEF PutInv, Begun, TypeOK, Busy
  <1>7. DbInv'
    <2>1. Stored' \subseteq Stored BY DEF Stored, EmptyDb
    <2> QED BY <1>1, <2>1 DEF DbInv, Safe, Begun
  <1>8. AnswersAreOneObject' BY DEF AnswersAreOneObject
  <1> QED BY <1>2, <1>3, <1>4, <1>5, <1>6, <1>7, <1>8

\* get_storage_files finds the only valid file, or none.
LEMMA ScanInv == ASSUME DataInv, ScanStorage PROVE DataInv'
  <1> USE DataAssumption DEF DataInv, diskVars, netVars
  <1>1. CASE Die BY <1>1, DieInv DEF ScanStorage
  <1>2. CASE ~Die
    <2> USE <1>2 DEF ScanStorage
    <2>1. Files' = Files /\ Valid' = Valid BY DiskKept
    <2>2. /\ table' = Valid
          /\ \/ Valid # {} /\ cur' \in Valid /\ pc' = "listen"
             \/ Valid = {} /\ cur' = None /\ pc' = "append"
      OBVIOUS
    <2>3. Valid \subseteq Names BY DEF Valid, Files
    <2>4. TypeOK' BY <2>1, <2>2, <2>3 DEF TypeOK, Up, Busy
    <2>5. LastInv' BY DEF LastInv
    <2>6. StartInv'
      <3>1. Cardinality(Files) \in Nat BY NamesFinite DEF Files
      <3> QED BY <2>1, <2>2, <3>1 DEF StartInv, TypeOK
    <2>7. FileInv' BY <2>1 DEF FileInv
    <2>8. PutInv' BY <2>2 DEF PutInv, Begun
    <2>9. DbInv' BY <2>2, DbKept DEF Begun
    <2>10. AnswersAreOneObject' BY DEF AnswersAreOneObject
    <2> QED BY <2>4, <2>5, <2>6, <2>7, <2>8, <2>9, <2>10
  <1> QED BY <1>1, <1>2

\* The name made from the number of entries of the directory is one of Names:
\* the starts before this one made at most one file each.
LEMMA AppendInv == ASSUME DataInv, AppendStorage PROVE DataInv'
  <1> USE DataAssumption DEF DataInv, AppendStorage, netVars
  <1>1. Files' = Files /\ Valid' = Valid /\ \A e : Whole(e)' = Whole(e) BY DiskKept
  <1>9. db.ids \in Nat /\ db.index \in [Addrs -> Entries \cup {None}] BY DEF TypeOK, Db
  <1>10. db'.ids = db.ids + 1 /\ db'.index = db.index /\ db' \in Db
    BY <1>9 DEF TypeOK, Db
  <1>11. made' \in [name : Names, id : Nat \ {0}]
    <2>1. PICK k \in 0 .. MaxForeign : made' = [name |-> k + Cardinality(Files), id |-> db.ids + 1]
      OBVIOUS
    <2>2. Cardinality(Files) \in Nat BY NamesFinite DEF Files
    <2>3. Cardinality(Files) <= starts - 1 /\ starts \in 0 .. MaxStarts
      BY DEF StartInv, TypeOK
    <2>4. k + Cardinality(Files) \in Names BY <2>1, <2>2, <2>3 DEF Names
    <2> QED BY <1>9, <2>1, <2>4
  <1>2. TypeOK' BY <1>1, <1>10 DEF TypeOK, Up, Busy
  <1>3. LastInv' BY DEF LastInv
  <1>4. StartInv' BY <1>1, <1>11 DEF StartInv
  <1>5. FileInv' BY <1>1 DEF FileInv
  <1>6. PutInv' BY DEF PutInv, Begun, TypeOK, Busy
  <1>7. DbInv'
    <2>1. Stored' = Stored BY <1>10 DEF Stored
    <2> QED BY <1>1, <2>1 DEF DbInv, Safe, Begun
  <1>8. AnswersAreOneObject' BY DEF AnswersAreOneObject
  <1> QED BY <1>2, <1>3, <1>4, <1>5, <1>6, <1>7, <1>8

\* The new file is empty and has no head yet.
LEMMA CreateInv == ASSUME DataInv, CreateLocalFile PROVE DataInv'
  <1> USE DataAssumption DEF DataInv, diskVars, netVars
  <1>1. CASE Die BY <1>1, DieInv DEF CreateLocalFile, Die
  <1>2. CASE ~Die
    <2> USE <1>2 DEF CreateLocalFile
    <2> DEFINE new == [id |-> 0, size |-> 0, runs |-> {}]
    <2>1. /\ made.name \in Names \ Files /\ pc = "create" /\ pc' = "head"
          /\ store' = [store EXCEPT ![made.name] = new]
      BY DEF StartInv
    <2>2. new \in File /\ new # None
      <3>1. new \in File BY DEF File
      <3> QED BY <3>1
    <2>3. store' \in [Names -> File \cup {None}]
      BY <2>1, <2>2 DEF TypeOK
    <2>4. /\ store'[made.name] = new
          /\ \A n \in Names : n # made.name => store'[n] = store[n]
      BY <2>1 DEF TypeOK
    <2>16. store'[made.name].runs = {} BY <2>4
    <2>5. Files' = Files \cup {made.name} BY <2>1, <2>2, <2>4 DEF Files
    <2>6. Valid' = {}
      <3>1. Valid = {} BY <2>1 DEF StartInv
      <3>2. new.id = 0 OBVIOUS
      <3>3. \A n \in Files : store[n].id = 0 BY <3>1 DEF Valid
      <3>4. \A n \in Files' : store'[n].id = 0
        BY <2>1, <2>4, <2>5, <3>2, <3>3 DEF Files
      <3> QED BY <3>4 DEF Valid
    <2>7. Cardinality(Files') <= starts
      <3>1. IsFiniteSet(Files) /\ Cardinality(Files) \in Nat BY NamesFinite DEF Files
      <3>2. Cardinality(Files') = Cardinality(Files) + 1
        BY <2>1, <2>5, <3>1, FS_AddElement
      <3>3. Cardinality(Files) <= starts - 1 /\ starts \in Nat BY <2>1 DEF StartInv, TypeOK
      <3> QED BY <3>1, <3>2, <3>3
    <2>8. Valid = {} BY <2>1 DEF StartInv
    <2>9. TypeOK'
      <3>1. table' = {} BY <2>8 DEF TypeOK
      <3> QED BY <2>1, <2>3, <3>1 DEF TypeOK, Up, Busy
    <2>10. LastInv' BY DEF LastInv
    <2>11. StartInv' BY <2>1, <2>5, <2>6, <2>7, <2>16 DEF StartInv
    <2>12. FileInv'
      <3>1. new.runs = {} OBVIOUS
      <3> QED BY <2>1, <2>4, <2>5, <3>1 DEF FileInv, Files
    <2>13. PutInv' BY <2>1 DEF PutInv, Begun, TypeOK, Busy
    <2>14. DbInv'
      <3>1. Stored' = Stored BY DEF Stored
      <3>2. Stored = {} BY <2>8 DEF DbInv, Safe, Whole
      <3> QED BY <3>1, <3>2 DEF DbInv
    <2>15. AnswersAreOneObject' BY DEF AnswersAreOneObject
    <2> QED BY <2>9, <2>10, <2>11, <2>12, <2>13, <2>14, <2>15
  <1> QED BY <1>1, <1>2

\* The head makes the new file the valid one.
LEMMA HeadInv == ASSUME DataInv, SetFileHead PROVE DataInv'
  <1> USE DataAssumption DEF DataInv, diskVars, netVars
  <1>1. CASE Die BY <1>1, DieInv DEF SetFileHead, Die
  <1>2. CASE ~Die
    <2> USE <1>2 DEF SetFileHead
    <2> DEFINE new == Headed(store[made.name])
    <2>1. /\ made.name \in Files /\ made.name \in Names
          /\ made.id \in Nat \ {0} /\ store[made.name] \in File
          /\ pc = "head" /\ pc' = "listen" /\ Valid = {} /\ cur' = made.name
          /\ store' = [store EXCEPT ![made.name] = new]
      BY DEF StartInv, Files, TypeOK
    <2>2. /\ new \in File /\ new # None /\ new.id = made.id /\ new.size = HeadSize
          /\ new.runs = store[made.name].runs
      <3>1. new \in File BY <2>1 DEF Headed, File, HeadSize
      <3> QED BY <3>1 DEF Headed
    <2> HIDE DEF new
    <2>3. store' \in [Names -> File \cup {None}]
      BY <2>1, <2>2 DEF TypeOK
    <2>4. /\ store'[made.name] = new
          /\ \A n \in Names : n # made.name => store'[n] = store[n]
      BY <2>1 DEF TypeOK
    <2>5. Files' = Files BY <2>1, <2>2, <2>4 DEF Files
    <2>6. Valid' = {made.name} BY <2>1, <2>2, <2>4, <2>5 DEF Valid, Files
    <2>9. TypeOK'
      <3>1. table' = {} BY <2>1 DEF TypeOK
      <3> QED BY <2>1, <2>3, <3>1 DEF TypeOK, Up, Busy
    <2>10. LastInv' BY DEF LastInv
    <2>11. StartInv' BY <2>1, <2>5, <2>6 DEF StartInv
    <2>12. FileInv'
      <3>1. Valid' = {made.name} /\ \A r \in new.runs : FALSE
        <4>1. store[made.name].runs = {} BY <2>1 DEF StartInv
        <4> QED BY <2>2, <2>6, <4>1
      <3> QED BY <2>1, <2>4, <2>5, <3>1 DEF FileInv, Files
    <2>13. PutInv' BY <2>1 DEF PutInv, Begun, TypeOK, Busy
    <2>14. DbInv'
      <3>1. Stored' = Stored BY DEF Stored
      <3>2. Stored = {} BY <2>1 DEF DbInv, Safe, Whole
      <3> QED BY <3>1, <3>2 DEF DbInv
    <2>15. AnswersAreOneObject' BY DEF AnswersAreOneObject
    <2> QED BY <2>9, <2>10, <2>11, <2>12, <2>13, <2>14, <2>15
  <1> QED BY <1>1, <1>2

\* The server goes into its loop with the file the start found or made.
LEMMA ListenInv == ASSUME DataInv, Listen PROVE DataInv'
  <1> USE DataAssumption DEF DataInv, diskVars, netVars
  <1>1. CASE Die BY <1>1, DieInv DEF Listen
  <1>2. CASE ~Die
    <2> USE <1>2 DEF Listen
    <2>1. Files' = Files /\ Valid' = Valid BY DiskKept
    <2>2. TypeOK' BY <2>1 DEF TypeOK, Up, Busy, StartInv
    <2>3. LastInv' BY DEF LastInv
    <2>4. StartInv' BY <2>1 DEF StartInv
    <2>5. FileInv' BY <2>1 DEF FileInv
    <2>6. PutInv' BY DEF PutInv, Begun
    <2>7. DbInv' BY DbKept DEF Begun
    <2>8. AnswersAreOneObject' BY DEF AnswersAreOneObject
    <2> QED BY <2>2, <2>3, <2>4, <2>5, <2>6, <2>7, <2>8
  <1> QED BY <1>1, <1>2

-----------------------------------------------------------------------------
(* The put.                                                                *)

\* The file g may take the place of the current one as far as k: what is before
\* k is as it was.
Extends(g, k) ==
  /\ g \in File /\ g.id = store[cur].id /\ k <= g.size
  /\ \A r \in g.runs : r.len > 0 /\ r.at + r.len <= g.size
  /\ \A b \in 0 .. k - 1 : Writers(g, b) = Writers(store[cur], b)

\* A write to the current file keeps the set of valid files, and the objects
\* before the place it keeps.
LEMMA WriteKeeps ==
  ASSUME DataInv, cur \in Valid, NEW g, NEW k \in Nat, Extends(g, k),
         store' = [store EXCEPT ![cur] = g]
  PROVE  /\ store' \in [Names -> File \cup {None}] /\ store'[cur] = g
         /\ Files' = Files /\ Valid' = Valid /\ FileInv'
         /\ \A e \in Entries : Whole(e) /\ e.start + e.len <= k => Whole(e)'
  <1> USE DataAssumption DEF DataInv
  <1>1. cur \in Files /\ cur \in Names /\ store[cur].id # 0 BY DEF Valid, Files
  <1>2. g \in File /\ g # None /\ g.id = store[cur].id BY DEF Extends
  <1>3. store' \in [Names -> File \cup {None}] BY <1>1, <1>2 DEF TypeOK
  <1>4. store'[cur] = g /\ \A n \in Names : n # cur => store'[n] = store[n]
    BY <1>1 DEF TypeOK
  <1>5. Files' = Files BY <1>1, <1>2, <1>4 DEF Files
  <1>6. Valid' = Valid BY <1>1, <1>2, <1>4, <1>5 DEF Valid, Files
  <1>7. FileInv' BY <1>1, <1>4, <1>5 DEF FileInv, Files, Extends
  <1>8. ASSUME NEW e \in Entries, Whole(e), e.start + e.len <= k PROVE Whole(e)'
    <2>1. e.start \in Nat /\ e.len \in Nat BY DEF Entries
    <2>2. /\ store[cur].id = e.sfid
          /\ \A b \in e.start .. e.start + e.len - 1 : Writers(store[cur], b) = {e.by}
      BY <1>8 DEF Whole, StartInv
    <2>3. e.start + e.len <= g.size BY <1>8, <2>1 DEF Extends, File
    <2>4. \A b \in e.start .. e.start + e.len - 1 : Writers(g, b) = {e.by}
      BY <1>8, <2>1, <2>2 DEF Extends
    <2> QED BY <1>2, <1>4, <1>6, <2>2, <2>3, <2>4 DEF Whole
  <1> QED BY <1>3, <1>4, <1>5, <1>6, <1>7, <1>8

\* What a step inside pomme_put_object keeps, whatever it writes.
LEMMA PutFrame ==
  ASSUME DataInv, pc \in Busy, pc' \in Busy \cup {"wait"},
         UNCHANGED <<saved, addr, cur, table, made, listening, last, netVars, starts>>,
         db' \in Db, store' \in [Names -> File \cup {None}],
         Files' = Files, Valid' = Valid,
         put' \in Puts \cup {None}, put' # None <=> pc' \in Busy
  PROVE  TypeOK' /\ LastInv' /\ StartInv' /\ AnswersAreOneObject'
  <1> USE DataAssumption DEF DataInv, netVars
  <1>1. TypeOK' BY DEF TypeOK, Up, Busy
  <1>2. LastInv' BY DEF LastInv
  <1>3. StartInv' BY DEF StartInv, Busy
  <1>4. AnswersAreOneObject' BY DEF AnswersAreOneObject
  <1> QED BY <1>1, <1>2, <1>3, <1>4

\* What is in the file when a put begins is before the place it begins at.
LEMMA StoredBefore ==
  ASSUME DataInv, cur \in Valid, NEW e \in Stored
  PROVE  e \in Entries /\ Whole(e) /\ e.start + e.len <= store[cur].size
  BY DEF DataInv, DbInv, Safe, Whole, StartInv, Stored

\* A write that appends n bytes of the put at pos or behind the end.
LEMMA GrownExtends ==
  ASSUME DataInv, cur \in Valid, NEW pos \in Nat, NEW n \in Nat \ {0}, NEW by \in Clients,
         NEW from \in Nat, store[cur].size <= pos
  PROVE  \A k \in Nat : k <= pos => Extends(Grown(store[cur], pos, n, by, from), k)
  <1> DEFINE g == Grown(store[cur], pos, n, by, from)
             r == [at |-> pos, len |-> n, by |-> by, from |-> from]
  <1>1. store[cur] \in File /\ cur \in Files BY DEF DataInv, TypeOK, Valid, Files
  <1>2. /\ g \in File /\ g.id = store[cur].id /\ g.size = pos + n
        /\ g.runs = store[cur].runs \cup {r}
    <2>1. g \in File BY <1>1, GrownFile
    <2>2. g.id = store[cur].id /\ g.size = pos + n BY DEF Grown
    <2>3. g.runs = store[cur].runs \cup {r} BY DEF Grown
    <2> QED BY <2>1, <2>2, <2>3
  <1>3. store[cur].size \in Nat BY <1>1 DEF File
  <1>4. \A q \in store[cur].runs :
          q.at \in Nat /\ q.len \in Nat /\ q.len > 0 /\ q.at + q.len <= store[cur].size
    BY <1>1 DEF DataInv, FileInv, File
  <1>5. ASSUME NEW q \in g.runs PROVE q.len > 0 /\ q.at + q.len <= g.size
    <2>1. CASE q \in store[cur].runs BY <1>2, <1>3, <1>4, <2>1
    <2>2. CASE q = r BY <1>2, <2>2
    <2> QED BY <1>2, <2>1, <2>2
  <1>6. ASSUME NEW k \in Nat, k <= pos, NEW b \in 0 .. k - 1
        PROVE  Writers(g, b) = Writers(store[cur], b)
    <2>1. b \in Int /\ ~(pos <= b) BY <1>6
    <2> QED BY <1>1, <2>1, GrownWriters
  <1>7. ASSUME NEW k \in Nat, k <= pos PROVE k <= g.size BY <1>2, <1>7
  <1> HIDE DEF g
  <1>8. ASSUME NEW k \in Nat, k <= pos PROVE Extends(g, k)
    BY <1>2, <1>5, <1>6, <1>7, <1>8 DEF Extends
  <1> QED BY <1>8 DEF g

\* Cutting the file at k keeps what is before k.
LEMMA CutExtends ==
  ASSUME DataInv, cur \in Valid, NEW k \in Nat
  PROVE  Extends(Cut(store[cur], k), k) /\ Cut(store[cur], k).size = k
  <1>1. store[cur] \in File /\ cur \in Files BY DEF DataInv, TypeOK, Valid, Files
  <1>2. \A r \in store[cur].runs : r.len > 0 BY <1>1 DEF DataInv, FileInv
  <1>3. LET g == Cut(store[cur], k) IN
         /\ g \in File /\ g.id = store[cur].id /\ g.size = k
         /\ \A r \in g.runs : r.len > 0 /\ r.at + r.len <= k
    BY <1>1, <1>2, CutFile
  <1>4. \A b \in 0 .. k - 1 : Writers(Cut(store[cur], k), b) = Writers(store[cur], b)
    BY <1>1, CutWriters
  <1> QED BY <1>3, <1>4 DEF Extends

\* Nobody wrote at or behind the end of the current file.
LEMMA NothingBehind ==
  ASSUME DataInv, cur \in Valid, NEW b \in Int, store[cur].size <= b
  PROVE  Writers(store[cur], b) = {}
  <1>1. store[cur] \in File /\ cur \in Files BY DEF DataInv, TypeOK, Valid, Files
  <1>2. \A q \in store[cur].runs :
          q.at \in Nat /\ q.len \in Nat /\ q.at + q.len <= store[cur].size
    BY <1>1 DEF DataInv, FileInv, File
  <1>3. store[cur].size \in Nat BY <1>1 DEF File
  <1> QED BY <1>2, <1>3 DEF Writers

\* What a put in hand knows of itself.
LEMMA PutHere ==
  ASSUME DataInv, pc \in Busy
  PROVE  /\ cur \in Valid /\ cur \in Names /\ store[cur] \in File /\ store[cur].size \in Nat
         /\ put \in Puts /\ put.by \in Clients /\ put.wl \in Nat \ {0} /\ put.pos \in Nat
         /\ put.taken \in Nat /\ put.broken \in BOOLEAN
         /\ Message[put.by].total \in Nat /\ put.wl <= Message[put.by].total
         /\ Begun => put.start \in Nat /\ put.start <= put.pos /\ store[cur].size <= put.pos
  <1> USE DataAssumption DEF DataInv
  <1>1. cur \in Valid BY DEF TypeOK, Up
  <1>2. cur \in Names /\ store[cur] \in File /\ store[cur].size \in Nat
    BY <1>1 DEF Valid, Files, TypeOK, File
  <1>3. put \in Puts /\ put # None BY DEF TypeOK
  <1>4. put.by \in Clients /\ put.wl \in Nat /\ put.pos \in Nat /\ put.taken \in Nat
        /\ put.broken \in BOOLEAN
    BY <1>3 DEF Puts
  <1>5. Message[put.by].total \in Nat BY <1>4
  <1>6. put.wl > 0 /\ put.wl <= Message[put.by].total BY <1>3 DEF PutInv
  <1>7. Begun => put.start \in Nat /\ put.start <= put.pos /\ store[cur].size <= put.pos
    BY DEF PutInv
  <1> QED BY <1>1, <1>2, <1>3, <1>4, <1>5, <1>6, <1>7

\* A put that ends, with the file left as it is or cut back to where it began,
\* harms no object.
LEMMA PutEnds ==
  ASSUME DataInv, Begun, Finish,
         store' = store \/ store' = [store EXCEPT ![cur] = Cut(@, put.start)],
         UNCHANGED <<db, saved, addr, cur, table, made, listening, last, netVars, starts>>
  PROVE  DataInv'
  <1> USE DEF Finish
  <1>1. pc \in Busy BY DEF Begun, Busy
  <1>2. cur \in Valid /\ put.start \in Nat BY <1>1, PutHere
  <1>3. \A e \in Stored : e \in Entries /\ Whole(e) /\ e.start + e.len <= put.start
    BY DEF DataInv, DbInv, Safe, Stored
  <1>4. /\ store' \in [Names -> File \cup {None}] /\ Files' = Files /\ Valid' = Valid
        /\ FileInv' /\ \A e \in Stored : Whole(e)'
    <2>1. CASE store' = store
      BY <1>3, <2>1, DiskKept DEF DataInv, TypeOK, FileInv
    <2>2. CASE store' = [store EXCEPT ![cur] = Cut(store[cur], put.start)]
      BY <1>2, <1>3, <2>2, CutExtends, WriteKeeps
    <2> QED BY <2>1, <2>2
  <1>5. TypeOK' /\ LastInv' /\ StartInv' /\ AnswersAreOneObject'
    <2>1. db' \in Db BY DEF DataInv, TypeOK
    <2>2. pc' = "wait" /\ "wait" \notin Busy /\ put' = None BY DEF Busy
    <2> QED BY <1>1, <1>4, <2>1, <2>2, PutFrame
  <1>6. PutInv' BY DEF PutInv, Begun
  <1>7. DbInv'
    <2>1. Stored' = Stored BY DEF Stored
    <2>2. ~Begun' BY DEF Begun
    <2> QED BY <1>4, <2>1, <2>2 DEF DbInv, Safe
  <1> QED BY <1>4, <1>5, <1>6, <1>7 DEF DataInv

\* A put that goes on: the file has what it had before the put began, and the
\* put what it says of itself.
LEMMA PutGoesOn ==
  ASSUME DataInv, pc \in {"write", "recv"}, pc' \in {"recv", "enter"},
         NEW k \in Nat, \A e \in Stored : e.start + e.len <= k,
         \/ store' = store
         \/ \E g : Extends(g, k) /\ store' = [store EXCEPT ![cur] = g],
         put' \in Puts, put'.start = k, put'.by = put.by, k <= put'.pos,
         put'.wl > 0 /\ put'.wl <= Message[put.by].total,
         pc' = IF put'.wl < Message[put.by].total THEN "recv" ELSE "enter",
         store'[cur].size <= put'.pos,
         ~put'.broken =>
           /\ put'.pos = k + put'.wl /\ store'[cur].size = put'.pos
           /\ \A b \in k .. put'.pos - 1 : Writers(store'[cur], b) = {put.by},
         UNCHANGED <<db, saved, addr, cur, table, made, listening, last, netVars, starts>>
  PROVE  DataInv'
  <1>1. pc \in Busy /\ pc' \in Busy BY DEF Busy
  <1>2. cur \in Valid /\ Message[put.by].total \in Nat BY <1>1, PutHere
  <1>3. \A e \in Stored : e \in Entries /\ Whole(e)
    BY DEF DataInv, DbInv, Safe, Stored
  <1>4. /\ store' \in [Names -> File \cup {None}] /\ Files' = Files /\ Valid' = Valid
        /\ FileInv' /\ \A e \in Stored : Whole(e)'
    <2>1. CASE store' = store
      BY <1>3, <2>1, DiskKept DEF DataInv, TypeOK, FileInv
    <2>2. CASE \E g : Extends(g, k) /\ store' = [store EXCEPT ![cur] = g]
      <3>1. PICK g : Extends(g, k) /\ store' = [store EXCEPT ![cur] = g] BY <2>2
      <3> QED BY <1>2, <1>3, <3>1, WriteKeeps
    <2> QED BY <2>1, <2>2
  <1>5. put' # None BY DataAssumption
  <1>6. TypeOK' /\ LastInv' /\ StartInv' /\ AnswersAreOneObject'
    <2>1. db' \in Db BY DEF DataInv, TypeOK
    <2> QED BY <1>1, <1>4, <1>5, <2>1, PutFrame
  <1>7. PutInv'
    <2>1. put'.wl \in Nat BY DEF Puts
    <2> QED BY <1>2, <2>1 DEF PutInv, Begun
  <1>8. DbInv'
    <2>1. Stored' = Stored BY DEF Stored
    <2> QED BY <1>4, <2>1 DEF DbInv, Safe
  <1> QED BY <1>4, <1>6, <1>7, <1>8 DEF DataInv

\* The first piece goes to the end of the file, where no object is.
LEMMA PutFirstInv == ASSUME DataInv, PutFirst PROVE DataInv'
  <1> DEFINE s == store[cur].size
             g == Grown(store[cur], s, put.wl, put.by, 0)
  <1>1. pc = "write" /\ pc \in Busy BY DEF PutFirst, Busy
  <1>2. /\ cur \in Valid /\ cur \in Names /\ store \in [Names -> File \cup {None}]
        /\ store[cur] \in File /\ s \in Nat /\ put \in Puts
        /\ put.by \in Clients /\ put.wl \in Nat \ {0} /\ ~put.broken
        /\ Message[put.by].total \in Nat /\ put.wl <= Message[put.by].total
    BY <1>1, PutHere DEF DataInv, PutInv, TypeOK
  <1>3. \A e \in Stored : e.start + e.len <= s BY <1>2, StoredBefore
  <1>4. PICK ok \in BOOLEAN : Put2Storage(s, s, put.wl, 0, ok) BY DEF PutFirst
  <1>5. /\ pc' = IF put.wl < Message[put.by].total THEN "recv" ELSE "enter"
        /\ pc' \in {"recv", "enter"}
        /\ UNCHANGED <<db, saved, addr, cur, table, made, listening, last, netVars, starts>>
    BY DEF PutFirst
  <1>6. CASE /\ store' = [store EXCEPT ![cur] = g]
             /\ put' = [put EXCEPT !.start = s, !.pos = s + put.wl]
    <2>1. /\ put' \in Puts /\ put'.start = s /\ put'.pos = s + put.wl
          /\ put'.by = put.by /\ put'.wl = put.wl
      <3>1. PICK p \in Nat : p = s + put.wl BY <1>2
      <3>2. put' = [put EXCEPT !.start = s, !.pos = p] BY <1>6, <3>1
      <3>3. put' \in Puts /\ put'.start = s /\ put'.pos = p /\ put'.by = put.by /\ put'.wl = put.wl
        BY <1>2, <3>2 DEF Puts
      <3> QED BY <3>1, <3>3
    <2>2. Extends(g, s) BY <1>2, GrownExtends
    <2>3. store'[cur] = g /\ g.size = s + put.wl
      <3>1. g.size = s + put.wl BY DEF Grown
      <3> HIDE DEF g, s
      <3> QED BY <1>2, <1>6, <3>1
    <2>4. ASSUME NEW b \in s .. s + put.wl - 1 PROVE Writers(g, b) = {put.by}
      <3>1. Writers(store[cur], b) = {} BY <1>2, NothingBehind
      <3>2. b \in Int /\ s <= b /\ b < s + put.wl BY <1>2
      <3>3. Writers(g, b) = Writers(store[cur], b) \cup {put.by}
        BY <1>2, <3>2, GrownWriters
      <3> QED BY <3>1, <3>3
    <2>5. s <= s + put.wl /\ put.wl > 0 BY <1>2
    <2> HIDE DEF s, g
    <2>6. /\ put'.pos = s + put'.wl /\ store'[cur].size = put'.pos
          /\ \A b \in s .. put'.pos - 1 : Writers(store'[cur], b) = {put.by}
      BY <1>2, <2>1, <2>3, <2>4
    <2>7. \E h : Extends(h, s) /\ store' = [store EXCEPT ![cur] = h] BY <1>6, <2>2
    <2>8. s <= put'.pos /\ store'[cur].size <= put'.pos BY <1>2, <2>1, <2>3, <2>5
    <2> QED BY <1>1, <1>2, <1>3, <1>5, <2>1, <2>5, <2>6, <2>7, <2>8, PutGoesOn
  <1>7. CASE /\ store' = [store EXCEPT ![cur] = Cut(store[cur], s)]
             /\ put' = [put EXCEPT !.start = s, !.pos = s + 1, !.broken = TRUE]
    <2>1. /\ put' \in Puts /\ put'.start = s /\ put'.pos = s + 1
          /\ put'.by = put.by /\ put'.wl = put.wl /\ put'.broken
      <3>1. PICK p \in Nat : p = s + 1 BY <1>2
      <3>2. put' = [put EXCEPT !.start = s, !.pos = p, !.broken = TRUE] BY <1>7, <3>1
      <3>3. /\ put' \in Puts /\ put'.start = s /\ put'.pos = p
            /\ put'.by = put.by /\ put'.wl = put.wl /\ put'.broken
        BY <1>2, <3>2 DEF Puts
      <3> QED BY <3>1, <3>3
    <2>2. Extends(Cut(store[cur], s), s) /\ Cut(store[cur], s).size = s
      BY <1>2, CutExtends
    <2>3. store'[cur] = Cut(store[cur], s) BY <1>2, <1>7
    <2>5. s <= s + 1 /\ put.wl > 0 BY <1>2
    <2> HIDE DEF s
    <2> QED BY <1>1, <1>2, <1>3, <1>5, <1>7, <2>1, <2>2, <2>3, <2>5, PutGoesOn
  <1>8. CASE /\ store' = store
             /\ put' = [put EXCEPT !.start = s, !.pos = s, !.broken = TRUE]
    <2>1. /\ put' \in Puts /\ put'.start = s /\ put'.pos = s
          /\ put'.by = put.by /\ put'.wl = put.wl /\ put'.broken
      BY <1>2, <1>8 DEF Puts
    <2>5. s <= s /\ put.wl > 0 /\ store'[cur].size = s BY <1>2, <1>5, <1>8
    <2> HIDE DEF s
    <2> QED BY <1>1, <1>2, <1>3, <1>5, <1>8, <2>1, <2>5, PutGoesOn
  <1> QED BY <1>4, <1>6, <1>7, <1>8 DEF Put2Storage

\* The pieces that follow go where the one before ended.
LEMMA PutMoreInv == ASSUME DataInv, PutMore PROVE DataInv'
  <1> DEFINE there == arrived[put.by] - put.taken
             n == Min({there, Package, Message[put.by].total - put.wl})
             g == Grown(store[cur], put.pos, n, put.by, 0)
  <1>1. pc = "recv" /\ pc \in Busy /\ Begun BY DEF PutMore, Busy, Begun
  <1>2. /\ cur \in Valid /\ cur \in Names /\ store \in [Names -> File \cup {None}]
        /\ store[cur] \in File /\ store[cur].size \in Nat /\ put \in Puts
        /\ put.by \in Clients /\ put.wl \in Nat \ {0} /\ put.taken \in Nat
        /\ put.pos \in Nat /\ Message[put.by].total \in Nat
        /\ put.start \in Nat /\ put.start <= put.pos /\ store[cur].size <= put.pos
        /\ put.wl < Message[put.by].total /\ arrived[put.by] \in Nat
    BY <1>1, PutHere DEF DataInv, PutInv, TypeOK
  <1>3. UNCHANGED <<db, saved, addr, cur, table, made, listening, last, netVars, starts>>
    BY DEF PutMore
  <1>4. CASE Finish /\ store' \in {store, [store EXCEPT ![cur] = Cut(@, put.start)]}
    BY <1>1, <1>3, <1>4, PutEnds
  <1>5. CASE /\ there > 0 /\ store' = [store EXCEPT ![cur] = g]
             /\ put' = [put EXCEPT !.pos = @ + n, !.wl = @ + n, !.taken = @ + n]
             /\ pc' = IF put.wl + n < Message[put.by].total THEN "recv" ELSE "enter"
    <2>1. n \in Nat \ {0} /\ n <= Message[put.by].total - put.wl
      <3>1. /\ there \in Int /\ there > 0 /\ Package \in Int /\ Package > 0
            /\ Message[put.by].total - put.wl \in Int /\ Message[put.by].total - put.wl > 0
        BY <1>2, <1>5 DEF Package
      <3>2. /\ n \in {there, Package, Message[put.by].total - put.wl}
            /\ n <= Message[put.by].total - put.wl
        BY <3>1, MinOfThree
      <3> HIDE DEF n
      <3> QED BY <3>1, <3>2
    <2> HIDE DEF n, there
    <2>2. /\ put' \in Puts /\ put'.start = put.start /\ put'.pos = put.pos + n
          /\ put'.by = put.by /\ put'.wl = put.wl + n /\ put'.broken = put.broken
      <3>1. PICK p \in Nat, w \in Nat, t \in Nat :
              p = put.pos + n /\ w = put.wl + n /\ t = put.taken + n
        BY <1>2, <2>1
      <3>2. put' = [put EXCEPT !.pos = p, !.wl = w, !.taken = t] BY <1>5, <3>1
      <3>3. /\ put' \in Puts /\ put'.start = put.start /\ put'.pos = p
            /\ put'.by = put.by /\ put'.wl = w /\ put'.broken = put.broken
        BY <1>2, <3>2 DEF Puts
      <3> QED BY <3>1, <3>3
    <2>3. \A k \in Nat : k <= put.pos => Extends(g, k) BY <1>2, <2>1, GrownExtends
    <2>4. store'[cur] = g /\ g.size = put.pos + n
      <3>1. g.size = put.pos + n BY DEF Grown
      <3> HIDE DEF g
      <3> QED BY <1>2, <1>5, <3>1
    <2>5. \A e \in Stored : e.start + e.len <= put.start
      BY <1>1 DEF DataInv, DbInv, Safe
    <2>6. ASSUME ~put.broken
          PROVE  /\ put.pos + n = put.start + (put.wl + n)
                 /\ \A b \in put.start .. put.pos + n - 1 : Writers(g, b) = {put.by}
      <3>1. /\ put.pos = put.start + put.wl /\ store[cur].size = put.pos
            /\ \A b \in put.start .. put.pos - 1 : Writers(store[cur], b) = {put.by}
        BY <1>1, <2>6 DEF DataInv, PutInv
      <3>2. ASSUME NEW k \in Int
            PROVE  Writers(g, k) = IF put.pos <= k /\ k < put.pos + n
                                   THEN Writers(store[cur], k) \cup {put.by}
                                   ELSE Writers(store[cur], k)
        <4>1. PICK f \in File, p \in Nat, w \in Clients :
                f = store[cur] /\ p = put.pos /\ w = put.by
          BY <1>2
        <4>2. n \in Nat /\ 0 \in Nat BY <2>1
        <4>3. Writers(Grown(f, p, n, w, 0), k) =
                IF p <= k /\ k < p + n THEN Writers(f, k) \cup {w} ELSE Writers(f, k)
          BY ONLY <4>2, GrownWriters
        <4> QED BY <4>1, <4>3
      <3>3. ASSUME NEW b \in put.start .. put.pos + n - 1 PROVE Writers(g, b) = {put.by}
        <4>1. b \in Int /\ b < put.pos + n BY <1>2, <2>1
        <4>2. CASE b < put.pos
          <5>1. b \in put.start .. put.pos - 1 BY <1>2, <2>1, <4>2
          <5>2. Writers(store[cur], b) = {put.by} BY <3>1, <5>1
          <5>3. ~(put.pos <= b) BY <1>2, <4>1, <4>2
          <5>4. Writers(g, b) = Writers(store[cur], b)
            BY <3>2, <4>1, <5>3
          <5> QED BY <5>2, <5>4
        <4>3. CASE put.pos <= b
          <5>1. Writers(store[cur], b) = {} BY <1>2, <3>1, <4>1, <4>3, NothingBehind
          <5>2. Writers(g, b) = Writers(store[cur], b) \cup {put.by}
            BY <3>2, <4>1, <4>3
          <5> QED BY <5>1, <5>2
        <4> QED BY <1>2, <4>1, <4>2, <4>3
      <3> QED BY <1>2, <2>1, <3>1, <3>3
    <2>7. /\ put.start <= put.pos + n /\ put.wl + n > 0
          /\ put.wl + n <= Message[put.by].total
      BY <1>2, <2>1
    <2>8. Extends(g, put.start) BY <1>2, <2>3
    <2>9. pc' \in {"recv", "enter"} BY <1>5
    <2>10. g.size <= put.pos + n BY <1>2, <2>1, <2>4
    <2> HIDE DEF g
    <2>11. ~put'.broken =>
             /\ put'.pos = put.start + put'.wl /\ store'[cur].size = put'.pos
             /\ \A b \in put.start .. put'.pos - 1 : Writers(store'[cur], b) = {put.by}
      BY <1>2, <2>1, <2>2, <2>4, <2>6
    <2>12. \E h : Extends(h, put.start) /\ store' = [store EXCEPT ![cur] = h]
      BY <1>5, <2>8
    <2>13. pc' = IF put'.wl < Message[put.by].total THEN "recv" ELSE "enter"
      BY <1>5, <2>2
    <2>14. /\ put.start <= put'.pos /\ store'[cur].size <= put'.pos
           /\ put'.wl > 0 /\ put'.wl <= Message[put.by].total
      BY <2>2, <2>4, <2>7, <2>10
    <2> QED BY <1>1, <1>2, <1>3, <2>2, <2>5, <2>9, <2>11, <2>12, <2>13, <2>14, PutGoesOn
  <1> QED BY <1>4, <1>5 DEF PutMore

\* An entry is made for what the put has written: all of its object, and that
\* alone, unless a write failed.
LEMMA PutEnterInv == ASSUME DataInv, PutEnter PROVE DataInv'
  <1>1. pc = "enter" /\ pc \in Busy /\ Begun BY DEF PutEnter, Busy, Begun
  <1>2. UNCHANGED <<store, saved, addr, cur, table, made, listening, last, netVars, starts>>
    BY DEF PutEnter
  <1>3. CASE Finish /\ db' = db BY <1>1, <1>2, <1>3, PutEnds
  <1>4. CASE put' = put /\ db' = db /\ pc' = "undo"
    <2>1. Files' = Files /\ Valid' = Valid BY <1>2, DiskKept
    <2>2. pc' \in Busy BY <1>4 DEF Busy
    <2>3. TypeOK' /\ LastInv' /\ StartInv' /\ AnswersAreOneObject'
      BY <1>1, <1>2, <1>4, <2>1, <2>2, PutFrame DEF DataInv, TypeOK
    <2>4. FileInv' BY <1>2, <2>1 DEF DataInv, FileInv
    <2>5. PutInv' BY <1>1, <1>2, <1>4 DEF DataInv, PutInv, Begun
    <2>6. DbInv' BY <1>1, <1>2, <1>4, DbKept DEF DataInv, diskVars
    <2> QED BY <2>3, <2>4, <2>5, <2>6 DEF DataInv
  <1>5. CASE Finish /\ db' = [db EXCEPT !.index[addr] = Entry]
    <2>1. /\ cur \in Valid /\ store[cur] \in File /\ store[cur].size \in Nat
          /\ put.by \in Clients /\ put.pos \in Nat /\ put.broken \in BOOLEAN
          /\ put.start \in Nat /\ Message[put.by].total \in Nat
          /\ put.wl = Message[put.by].total
      BY <1>1, PutHere DEF DataInv, PutInv
    <2>2. addr \in Addrs BY <1>1 DEF DataInv, TypeOK
    <2>3. Files' = Files /\ Valid' = Valid /\ \A e : Whole(e)' = Whole(e) BY <1>2, DiskKept
    <2>4. Entry \in Entries BY <2>1 DEF Entry, Entries, File
    <2>5. /\ db' \in Db
          /\ \A a \in Addrs : db'.index[a] = Entry \/ db'.index[a] = db.index[a]
      BY <1>5, <2>2, <2>4 DEF DataInv, TypeOK, Db
    <2>6. pc' = "wait" /\ put' = None /\ "wait" \notin Busy BY <1>5 DEF Finish, Busy
    <2>7. TypeOK' /\ LastInv' /\ StartInv' /\ AnswersAreOneObject'
      BY <1>1, <1>2, <2>3, <2>5, <2>6, PutFrame DEF DataInv, TypeOK
    <2>8. FileInv' BY <1>2, <2>3 DEF DataInv, FileInv
    <2>9. PutInv' BY <2>6 DEF PutInv, Begun
    <2>10. ~Entry.broken => Whole(Entry)
      <3>1. /\ Entry.sfid = store[cur].id /\ Entry.start = put.start /\ Entry.by = put.by
            /\ Entry.len = Message[put.by].total /\ Entry.broken = put.broken
        BY DEF Entry
      <3>2. ASSUME ~put.broken
            PROVE  /\ put.pos = put.start + put.wl /\ store[cur].size = put.pos
                   /\ \A b \in put.start .. put.pos - 1 : Writers(store[cur], b) = {put.by}
        BY <1>1, <3>2 DEF DataInv, PutInv
      <3> QED BY <2>1, <3>1, <3>2 DEF Whole
    <2>11. DbInv'
      <3>1. ASSUME NEW e \in Stored' PROVE e = Entry \/ e \in Stored
        BY <1>2, <2>5 DEF Stored
      <3>2. ASSUME NEW e \in Stored' PROVE Whole(e)
        <4>1. ~e.broken BY DEF Stored
        <4> QED BY <2>10, <3>1, <4>1 DEF DataInv, DbInv, Safe
      <3>3. ~Begun' BY <2>6 DEF Begun
      <3> QED BY <2>3, <3>2, <3>3 DEF DbInv, Safe
    <2> QED BY <2>7, <2>8, <2>9, <2>11 DEF DataInv
  <1> QED BY <1>3, <1>4, <1>5 DEF PutEnter

\* put_err cuts the file back to where the put began.
LEMMA PutUndoInv == ASSUME DataInv, PutUndo PROVE DataInv'
  BY PutEnds DEF PutUndo, Begun

-----------------------------------------------------------------------------

\* Before the first start there is no file, no entry and no process.
LEMMA DataInit == Init => DataInv
  <1> SUFFICES ASSUME Init PROVE DataInv OBVIOUS
  <1> USE DataAssumption DEF Init
  <1>1. Files = {} /\ Valid = {} BY DEF Files, Valid
  <1>2. TypeOK
    <2>1. EmptyDb \in Db BY DEF EmptyDb, Db
    <2>2. \A c \in Clients : 0 <= StreamLength(c) BY DEF StreamLength, Layout
    <2>3. store \in [Names -> File \cup {None}] /\ starts \in 0 .. MaxStarts OBVIOUS
    <2>4. arrived \in [Clients -> Nat] /\ \A c \in Clients : arrived[c] <= StreamLength(c)
      BY <2>2
    <2>5. /\ conn \in [Clients -> {"none", "armed", "handled", "reset"}]
          /\ reply \in [Clients -> Replies \cup {None}]
      OBVIOUS
    <2> QED BY <1>1, <2>1, <2>3, <2>4, <2>5 DEF TypeOK, Up, Busy
  <1>3. LastInv BY DEF LastInv
  <1>4. StartInv BY <1>1, FS_EmptySet DEF StartInv
  <1>5. FileInv BY <1>1 DEF FileInv
  <1>6. PutInv BY DEF PutInv, Begun
  <1>7. DbInv
    <2>1. Stored = {} BY DEF Stored, EmptyDb
    <2> QED BY <2>1 DEF DbInv
  <1>8. AnswersAreOneObject BY DEF AnswersAreOneObject
  <1> QED BY <1>2, <1>3, <1>4, <1>5, <1>6, <1>7, <1>8 DEF DataInv

\* Every step of the server, a client or the network keeps the invariant, and so
\* does the end of the process wherever it comes.
LEMMA DataStep == DataInv /\ [Next]_vars => DataInv'
  <1> SUFFICES ASSUME DataInv, [Next]_vars PROVE DataInv' OBVIOUS
  <1>1. CASE StartUp
    BY <1>1, OpenEnvInv, ScanInv, AppendInv, CreateInv, HeadInv, ListenInv DEF StartUp
  <1>2. CASE PutSteps
    BY <1>2, PutFirstInv, PutMoreInv, PutEnterInv, PutUndoInv DEF PutSteps
  <1>3. CASE Crash BY <1>3, DieInv DEF Crash
  <1>4. ASSUME NEW c \in Clients, Deliver(c) \/ Serve(c) PROVE DataInv'
    BY <1>4, DeliverInv, AcceptInv, HandleOtherInv, PutStartInv, GetInv DEF Serve
  <1>5. CASE UNCHANGED vars
    <2> USE <1>5 DEF DataInv, vars, diskVars, netVars, procVars
    <2>1. Files' = Files /\ Valid' = Valid BY DiskKept
    <2>2. TypeOK' BY <2>1 DEF TypeOK, Up
    <2>3. LastInv' BY DEF LastInv
    <2>4. StartInv' BY <2>1 DEF StartInv
    <2>5. FileInv' BY <2>1 DEF FileInv
    <2>6. PutInv' BY DEF PutInv, Begun
    <2>7. DbInv' BY DbKept DEF Begun
    <2>8. AnswersAreOneObject' BY DEF AnswersAreOneObject
    <2> QED BY <2>2, <2>3, <2>4, <2>5, <2>6, <2>7, <2>8
  <1> QED BY <1>1, <1>2, <1>3, <1>4, <1>5 DEF Next

\* The invariant holds in every reachable state.
LEMMA DataAlways == Spec => []DataInv
  BY DataInit, DataStep, PTL DEF Spec

-----------------------------------------------------------------------------

\* Every variable of the data server keeps its type, with as many starts and as
\* many foreign entries in its directory as there may be: the names it makes up
\* stay within bounds, and a serving process has a valid storage file.
THEOREM TypeCorrect == Spec => []TypeOK
  BY DataAlways, PTL DEF DataInv

\* Whenever the process dies in its start, and whatever recovery leaves of
\* sfile, there is at most one valid storage file.
THEOREM OneStorageFile == Spec => []OneStorage
  <1>1. DataInv => OneStorage
    <2> SUFFICES ASSUME DataInv PROVE Cardinality(Valid) <= 1 BY DEF OneStorage
    <2>1. \A m, n \in Valid : m = n BY DEF DataInv, StartInv
    <2>2. CASE Valid = {} BY <2>2, FS_EmptySet
    <2>3. CASE Valid # {}
      <3>1. PICK n : Valid = {n} BY <2>1, <2>3
      <3> QED BY <3>1, FS_Singleton
    <2> QED BY <2>2, <2>3
  <1> QED BY <1>1, DataAlways, PTL

\* An object db_meta names, all of whose writes succeeded, is in the storage
\* file byte by byte and shares no byte with another, whatever other puts,
\* failed writes, crashes and recoveries come after it.
THEOREM ObjectsStay == Spec => []StoredObjectsIntact
  <1>1. DataInv => StoredObjectsIntact
    <2> SUFFICES ASSUME DataInv, NEW d \in {db, saved}, NEW a \in Addrs,
                        d.index[a] # None, ~d.index[a].broken
                 PROVE  Whole(d.index[a])
      BY DEF StoredObjectsIntact
    <2>1. d.index[a] \in Entries BY DEF DataInv, TypeOK, Db
    <2>2. d.index[a] \in Stored BY <2>1 DEF Stored
    <2> QED BY <2>2 DEF DataInv, DbInv, Safe
  <1> QED BY <1>1, DataAlways, PTL

\* The answer to a get is made of the bytes of one object, the one its entry
\* names, for any object and any length asked for.
THEOREM AnswersRight == Spec => []AnswersAreOneObject
  BY DataAlways, PTL DEF DataInv

=============================================================================
