----------------------------- MODULE DataServer -----------------------------
(***************************************************************************)
(* The data server: server/pomme_data_server.c, pomme_storage.c,           *)
(* pomme_msg.c, pomme_protocol.c, and the clients of client_data.c.        *)
(*                                                                         *)
(* One thread starts the server (opens the databases, looks for the        *)
(* current storage file or makes one) and then takes the events of         *)
(* epoll_wait.  A put appends the object to the storage file and enters    *)
(* its place into db_meta; a get reads the place and sends the bytes.      *)
(* Both are several system calls, and the process may die between two.     *)
(*                                                                         *)
(* Sizes are the real ones, in bytes.  Of contents the model keeps where   *)
(* each byte came from: a file is its size and a set of runs.              *)
(***************************************************************************)
EXTENDS Integers, FiniteSetsExt

CONSTANTS
  Clients,      \* each opens one connection and sends one message
  Message,      \* Clients -> [op, id, first, total]: what each one sends
  Addrs,        \* where the stack of a process may put handle_request's buffer
  None,         \* no file, no entry, no client, no reply
  MaxStarts,    \* bound: how often the process is started
  MaxForeign    \* bound: entries of the data directory that are no storage

\* A storage file, an entry of db_meta, both databases, a put in hand, and what
\* a client was sent.
File == [id : Nat, size : Nat,
         runs : SUBSET [at : Nat, len : Nat, by : Clients, from : Nat]]
Entries == [sfid : Nat, start : Nat, len : Nat, by : Clients, broken : BOOLEAN]
Db == [index : [Addrs -> Entries \cup {None}], ids : Nat]
Puts == [by : Clients, taken : Nat, start : Nat \cup {None}, pos : Nat, wl : Nat,
         broken : BOOLEAN]
Replies == [entry : Entries, len : Nat, sent : Int, from : SUBSET Clients]

ASSUME DataAssumption ==
  /\ Message \in [Clients -> [op : {"put", "get", "close"}, id : Clients,
                           first : Nat, total : Nat]]
  /\ \A c \in Clients : Message[c].first <= Message[c].total
  /\ MaxStarts \in Nat /\ MaxForeign \in Nat
  /\ None \notin Clients \cup Addrs /\ None \notin File /\ None \notin Puts

Package  == 1024    \* PACKAGE_LENGTH and POMME_PACKAGE_SIZE
MaxProto == 976     \* POMME_MAX_PROTO_DATA
Layout   == 53      \* flag byte, op, total_len, id, offset and length
HeadSize == 12      \* sizeof(pomme_ds_head_t)

VARIABLES
  store,     \* file name -> [id, size, runs] of the storage files on disk
  db,        \* db_meta and the last record number of sfile
  saved,     \* the same as the last recovery left them
  pc,        \* where the process is
  addr,      \* where its buffer is
  cur,       \* the file of cur_storage_id and cur_storage_fd, or None
  table,     \* the files in ds->storage_file
  made,      \* [name, id] of the storage file being created, or None
  listening, \* whether the listen socket's EPOLLONESHOT is still to fire
  conn,      \* where the connection of each client is
  arrived,   \* how many bytes of each client's stream have arrived
  last,      \* conn_sock: the client accepted last, or None
  put,       \* the put being executed, or None
  reply,     \* what each client was sent, or None
  starts     \* how often the process was started

diskVars == <<store, db, saved>>
netVars  == <<conn, arrived, reply>>
procVars == <<pc, addr, cur, table, made, listening, last, put>>
vars     == <<diskVars, netVars, procVars, starts>>

Names == 0 .. MaxStarts + MaxForeign
EmptyDb == [index |-> [a \in Addrs |-> None], ids |-> 0]

\* pomme_client_put_data and pomme_client_get_data: a put sends head and
\* data, the others pomme_msg_get_len bytes.
StreamLength(c) ==
  IF Message[c].op = "put" THEN Layout + Message[c].total ELSE Layout + 3

Init ==
  /\ store = [n \in Names |-> None]
  /\ db = EmptyDb /\ saved = EmptyDb
  /\ pc = "down" /\ addr = None /\ cur = None /\ table = {} /\ made = None
  /\ listening = FALSE /\ last = None /\ put = None
  /\ conn = [c \in Clients |-> "none"]
  /\ arrived = [c \in Clients |-> 0]
  /\ reply = [c \in Clients |-> None]
  /\ starts = 0

-----------------------------------------------------------------------------
(* The end of a process: its connections are reset, the disk stays.        *)

Die ==
  /\ pc' = "down"
  /\ addr' = None /\ cur' = None /\ table' = {} /\ made' = None
  /\ listening' = FALSE /\ last' = None /\ put' = None
  /\ conn' = [c \in Clients |-> IF conn[c] = "none" THEN "none" ELSE "reset"]
  /\ UNCHANGED <<arrived, reply>>

Crash ==
  /\ pc # "down"
  /\ Die
  /\ UNCHANGED <<diskVars, starts>>

-----------------------------------------------------------------------------
(* Starting: main, pomme_ds_init, pomme_env_init, create_storage.          *)

Files  == {n \in Names : store[n] # None}
Valid  == {n \in Files : store[n].id # 0}

\* pomme_env_init.  DB_RECOVER may have every call in its log, only those of
\* the last recovery, or none at all: both databases are opened (DB_CREATE)
\* inside a transaction that is never committed, which recovery rolls back.
OpenEnv ==
  /\ pc = "down" /\ starts < MaxStarts
  /\ starts' = starts + 1
  /\ addr' \in Addrs
  /\ db' \in {db, saved, EmptyDb}
  /\ saved' = db'
  /\ pc' = "scan"
  /\ UNCHANGED <<store, cur, table, made, listening, last, put, netVars>>

\* Mutant of ScanStorage: a storage file is made whatever the scan found.
ScanStorageAnew ==
  /\ pc = "scan"
  /\ table' = Valid
  /\ pc' = "append"
  /\ UNCHANGED <<diskVars, addr, cur, made, listening, last, put, netVars, starts>>

\* get_storage_files: two current files end the process.
ScanStorage ==
  /\ pc = "scan"
  /\ IF Cardinality(Valid) > 1
     THEN Die
     ELSE /\ table' = Valid
          /\ cur' = IF Valid = {} THEN None ELSE CHOOSE n \in Valid : TRUE
          /\ pc' = IF Valid = {} THEN "append" ELSE "listen"
          /\ UNCHANGED <<addr, made, listening, last, put, netVars>>
  /\ UNCHANGED <<diskVars, starts>>

\* create_storage up to the DB_APPEND: the name is the number of entries of
\* the directory, k of them not the server's own (it is /tmp).
AppendStorage ==
  /\ pc = "append"
  /\ \E k \in 0 .. MaxForeign :
       made' = [name |-> k + Cardinality(Files), id |-> db.ids + 1]
  /\ db' = [db EXCEPT !.ids = @ + 1]
  /\ pc' = "create"
  /\ UNCHANGED <<store, saved, addr, cur, table, listening, last, put,
                 netVars, starts>>

\* create_local_file: O_EXCL fails, and with it the start, on a name in use.
CreateLocalFile ==
  /\ pc = "create"
  /\ IF made.name \in Files
     THEN Die /\ UNCHANGED store
     ELSE /\ store' = [store EXCEPT ![made.name] = [id |-> 0, size |-> 0, runs |-> {}]]
          /\ pc' = "head"
          /\ UNCHANGED <<addr, cur, table, made, listening, last, put, netVars>>
  /\ UNCHANGED <<db, saved, starts>>

\* The new file once its head is written: it has its id.
Headed(f) == [id |-> made.id, size |-> HeadSize, runs |-> f.runs]

\* Mutant of SetFileHead: the descriptor is not handed back.
SetFileHeadForgets ==
  /\ pc = "head"
  /\ store' = [store EXCEPT ![made.name] = Headed(@)]
  /\ made' = None
  /\ pc' = "listen"
  /\ UNCHANGED <<db, saved, addr, cur, table, listening, last, put, netVars, starts>>

\* set_file_head.  The new file does not get into ds->storage_file.
SetFileHead ==
  /\ pc = "head"
  /\ \/ /\ store' = [store EXCEPT ![made.name] = Headed(@)]
        /\ cur' = made.name
        /\ made' = None
        /\ pc' = "listen"
        /\ UNCHANGED <<addr, table, listening, last, put, netVars>>
     \/ Die /\ UNCHANGED store                  \* the disk is full
  /\ UNCHANGED <<db, saved, starts>>

\* server() up to the loop: the listen socket is armed with EPOLLONESHOT.
Listen ==
  /\ pc = "listen"
  /\ \/ /\ listening' = TRUE
        /\ pc' = "wait"
        /\ UNCHANGED <<addr, cur, table, made, last, put, netVars>>
     \/ Die                                     \* bind or listen fails
  /\ UNCHANGED <<diskVars, starts>>

-----------------------------------------------------------------------------
(* The clients send; the network delivers in pieces.                       *)

Busy == {"write", "recv", "enter", "undo"}
Up == pc \in Busy \cup {"wait"}

\* Where TCP may cut the stream: inside the head, after the first piece the
\* sender wrote, and at its end.
Cuts(c) == {Layout - 20, Layout + Message[c].first, StreamLength(c)}

Deliver(c) ==
  /\ conn[c] \in {"armed", "handled"}
  /\ \E n \in Cuts(c) :
       /\ arrived[c] < n /\ n <= StreamLength(c)
       /\ arrived' = [arrived EXCEPT ![c] = n]
  /\ UNCHANGED <<diskVars, procVars, conn, reply, starts>>

-----------------------------------------------------------------------------
(* server(): the events.                                                   *)

\* A connection from the backlog.  Nothing arms the listen socket again, so
\* that the others stay there.
Accept(c) ==
  /\ pc = "wait" /\ listening /\ conn[c] = "none"
  /\ conn' = [conn EXCEPT ![c] = "armed"]
  /\ last' = c
  /\ listening' = FALSE
  /\ UNCHANGED <<diskVars, pc, addr, cur, table, made, put, arrived, reply, starts>>

\* unpack_data on the first n bytes of c's message fails for one of its fields;
\* remaining_size counts one byte too many.
CutShort(c, n) ==
  LET m == Message[c] IN
  n < Layout - 1 \/ (m.op = "put" /\ (m.first = 0 \/ n < Layout - 1 + m.first))

\* What unpack_msg makes of them.  A length it could not read is a null pointer.
Unpacked(c, n) == IF CutShort(c, n) THEN "crash" ELSE Message[c].op

Ready(c) == pc = "wait" /\ conn[c] = "armed" /\ arrived[c] > 0
Received == Min({arrived[last], Package})
Handled(c) == conn' = [conn EXCEPT ![c] = "handled"]

\* handle_request when the message cuts it short: a null pointer or an
\* assertion ends the process, an unknown operation nothing.
HandleOther(c) ==
  /\ Ready(c)
  /\ \/ Unpacked(last, Received) = "crash" /\ Die
     \/ /\ Unpacked(last, Received) = "close"
        /\ Handled(c)
        /\ UNCHANGED <<procVars, arrived, reply>>
  /\ UNCHANGED <<diskVars, starts>>

-----------------------------------------------------------------------------
(* pomme_put_object.                                                       *)

\* What arrived behind the first piece of data is dropped with the buffer.
PutStart(c) ==
  /\ Ready(c) /\ Unpacked(last, Received) = "put"
  /\ Handled(c)
  /\ put' = [by |-> last, taken |-> Received, start |-> None, pos |-> 0,
             wl |-> Message[last].first, broken |-> FALSE]
  /\ pc' = "write"
  /\ UNCHANGED <<diskVars, addr, cur, table, made, listening, last, arrived,
                 reply, starts>>

Cut(f, n) ==
  [id |-> f.id, size |-> n,
   runs |-> {[r EXCEPT !.len = Min({@, n - r.at})] : r \in {q \in f.runs : q.at < n}}]

\* write of n bytes at pos, all of them; from is the place in the sender's
\* object the bytes come from.
Grown(f, pos, n, by, from) ==
  [id |-> f.id, size |-> pos + n,
   runs |-> f.runs \cup {[at |-> pos, len |-> n, by |-> by, from |-> from]}]

\* put_data_2_storage: everything; one byte, and the file cut back to start
\* but not the offset in it; or -1, which ret < len does not notice.
Put2Storage(start, pos, n, from, ok) ==
  \/ /\ ok
     /\ store' = [store EXCEPT ![cur] = Grown(@, pos, n, put.by, from)]
     /\ put' = [put EXCEPT !.start = start, !.pos = pos + n]
  \/ /\ ~ok
     /\ \/ n > 1 /\ store' = [store EXCEPT ![cur] = Cut(@, start)]
              /\ put' = [put EXCEPT !.start = start, !.pos = pos + 1, !.broken = TRUE]
        \/ /\ UNCHANGED store
           /\ put' = [put EXCEPT !.start = start, !.pos = pos, !.broken = TRUE]

\* The first piece: seek to the end, write, and go on whatever came of it.
PutFirst ==
  /\ pc = "write"
  /\ \E ok \in BOOLEAN : Put2Storage(store[cur].size, store[cur].size, put.wl, 0, ok)
  /\ pc' = IF put.wl < Message[put.by].total THEN "recv" ELSE "enter"
  /\ UNCHANGED <<db, saved, addr, cur, table, made, listening, last,
                 netVars, starts>>

Finish == pc' = "wait" /\ put' = None

\* Mutant of PutMore: a failed recv leaves the loop, and the entry is made.
PutMoreAnyway ==
  /\ pc = "recv"
  /\ LET there == arrived[put.by] - put.taken
         n     == Min({there, Package, Message[put.by].total - put.wl})
     IN \/ there = 0 /\ pc' = "enter" /\ UNCHANGED <<store, put>>
        \/ /\ there > 0
           /\ store' = [store EXCEPT ![cur] = Grown(@, put.pos, n, put.by, 0)]
           /\ put' = [put EXCEPT !.pos = @ + n, !.wl = @ + n, !.taken = @ + n]
           /\ pc' = IF put.wl + n < Message[put.by].total THEN "recv" ELSE "enter"
        \/ /\ there > 0
           /\ store' \in {store, [store EXCEPT ![cur] = Cut(@, put.start)]}
           /\ Finish
  /\ UNCHANGED <<db, saved, addr, cur, table, made, listening, last,
                 netVars, starts>>

\* Mutant of PutMore: with nothing there it asks again.
PutMoreRetries ==
  /\ pc = "recv"
  /\ LET there == arrived[put.by] - put.taken
         n     == Min({there, Package, Message[put.by].total - put.wl})
     IN \/ there = 0 /\ UNCHANGED <<store, put, pc>>
        \/ /\ there > 0
           /\ store' = [store EXCEPT ![cur] = Grown(@, put.pos, n, put.by, 0)]
           /\ put' = [put EXCEPT !.pos = @ + n, !.wl = @ + n, !.taken = @ + n]
           /\ pc' = IF put.wl + n < Message[put.by].total THEN "recv" ELSE "enter"
        \/ /\ there > 0
           /\ store' \in {store, [store EXCEPT ![cur] = Cut(@, put.start)]}
           /\ Finish
  /\ UNCHANGED <<db, saved, addr, cur, table, made, listening, last,
                 netVars, starts>>

\* One round of the loop.  The socket does not block: nothing there, or the
\* peer gone, ends the put and leaves what it wrote.
PutMore ==
  /\ pc = "recv"
  /\ LET there == arrived[put.by] - put.taken
         n     == Min({there, Package, Message[put.by].total - put.wl})
     IN \/ there = 0 /\ Finish /\ UNCHANGED store
        \/ /\ there > 0
           /\ store' = [store EXCEPT ![cur] = Grown(@, put.pos, n, put.by, 0)]
           /\ put' = [put EXCEPT !.pos = @ + n, !.wl = @ + n, !.taken = @ + n]
           /\ pc' = IF put.wl + n < Message[put.by].total THEN "recv" ELSE "enter"
        \/ /\ there > 0
           /\ store' \in {store, [store EXCEPT ![cur] = Cut(@, put.start)]}
           /\ Finish
  /\ UNCHANGED <<db, saved, addr, cur, table, made, listening, last,
                 netVars, starts>>

\* The key is what unpack_msg left in pro->id: the address of the id in
\* handle_request's buffer.
Entry ==
  [sfid |-> store[cur].id, start |-> put.start, len |-> Message[put.by].total,
   by |-> put.by, broken |-> put.broken]

\* db_meta->put with an uninitialised DBT: it may be refused with EINVAL,
\* which ret < 0 does not notice, or fail.
PutEnter ==
  /\ pc = "enter"
  /\ \/ db' = [db EXCEPT !.index[addr] = Entry] /\ Finish
     \/ UNCHANGED db /\ Finish
     \/ UNCHANGED <<db, put>> /\ pc' = "undo"
  /\ UNCHANGED <<store, saved, addr, cur, table, made, listening, last,
                 netVars, starts>>

\* put_err.
PutUndo ==
  /\ pc = "undo"
  /\ store' = [store EXCEPT ![cur] = Cut(@, put.start)]
  /\ Finish
  /\ UNCHANGED <<db, saved, addr, cur, table, made, listening, last,
                 netVars, starts>>

-----------------------------------------------------------------------------
(* pomme_get_object.  A get that fails sends nothing.                      *)

Opened(e) == {n \in table : store[n].id = e.sfid}

\* Mutant of Sendable: the length asked for is not compared with the object's.
SendableUnbounded(e, c) == Message[c].total

Sendable(e, c) == Min({Message[c].total, e.len})

Found(e, c) ==
  /\ e # None /\ Opened(e) # {}
  /\ \A n \in Opened(e) : store[n].size - e.start >= Min({Sendable(e, c), MaxProto})

\* The loop sends whole packages, past the end of the object if the file
\* goes on.
Sent(f, start, n) ==
  IF n <= MaxProto THEN n
  ELSE Min({f.size - start, MaxProto + Package * ((n - MaxProto + Package - 1) \div Package)})

\* Those whose bytes are in n bytes from start.
Origins(f, start, n) ==
  {r.by : r \in {q \in f.runs : q.at < start + n /\ start < q.at + q.len}}

Get(c) ==
  /\ Ready(c) /\ Unpacked(last, Received) = "get"
  /\ Handled(c)
  /\ LET e == db.index[addr] IN
     IF Found(e, last)
     THEN \E n \in Opened(e) :
            reply' = [reply EXCEPT ![last] =
              [entry |-> e, len |-> Sendable(e, last),
               sent |-> Sent(store[n], e.start, Sendable(e, last)),
               from |-> Origins(store[n], e.start, Sendable(e, last))]]
     ELSE UNCHANGED reply
  /\ UNCHANGED <<diskVars, procVars, arrived, starts>>

-----------------------------------------------------------------------------

StartUp == OpenEnv \/ ScanStorage \/ AppendStorage \/ CreateLocalFile
             \/ SetFileHead \/ Listen

Serve(c) == Accept(c) \/ HandleOther(c) \/ PutStart(c) \/ Get(c)
PutSteps == PutFirst \/ PutMore \/ PutEnter \/ PutUndo

Next ==
  \/ StartUp \/ PutSteps \/ Crash
  \/ \E c \in Clients : Deliver(c) \/ Serve(c)

Spec == Init /\ [][Next]_vars

\* The process gets the processor.
FairSpec ==
  /\ Spec
  /\ WF_vars(ScanStorage \/ AppendStorage \/ CreateLocalFile \/ SetFileHead \/ Listen)
  /\ WF_vars(PutSteps)
  /\ \A c \in Clients : WF_vars(Serve(c))

-----------------------------------------------------------------------------
(* Properties.                                                             *)

\* Every variable has its type; the process has a storage file while it
\* serves, and a put in hand exactly while it is inside pomme_put_object.
TypeOK ==
  /\ store \in [Names -> File \cup {None}]
  /\ db \in Db /\ saved \in Db
  /\ pc \in {"down", "scan", "append", "create", "head", "listen", "wait"} \cup Busy
  /\ addr \in Addrs \cup {None} /\ (addr = None <=> pc = "down")
  /\ cur \in Names \cup {None} /\ (Up => cur \in Valid)
  /\ table \subseteq Valid
  /\ listening \in BOOLEAN
  /\ conn \in [Clients -> {"none", "armed", "handled", "reset"}]
  /\ arrived \in [Clients -> Nat] /\ \A c \in Clients : arrived[c] <= StreamLength(c)
  /\ last \in Clients \cup {None}
  /\ put \in Puts \cup {None} /\ (put # None <=> pc \in Busy)
  /\ reply \in [Clients -> Replies \cup {None}]
  /\ starts \in 0 .. MaxStarts

\* However the process dies while it makes its storage file, and whatever
\* recovery leaves in sfile, there is never a second valid current file:
\* get_storage_files never has to refuse with POMME_FILE_MULTI_CUR.
OneStorage == Cardinality(Valid) <= 1

\* Those who wrote the byte at b of a file.
Writers(f, b) == {r.by : r \in {q \in f.runs : q.at <= b /\ b < q.at + q.len}}

\* The bytes of an entry all of whose writes succeeded: each is in its storage
\* file, is its own, and nobody else wrote there.
Whole(e) ==
  \E n \in Valid :
    /\ store[n].id = e.sfid
    /\ e.start + e.len <= store[n].size
    /\ \A b \in e.start .. e.start + e.len - 1 : Writers(store[n], b) = {e.by}

\* db_meta never points to bytes that are not there, and nothing done later
\* (another put, one that fails and cuts the file, a crash, a restart with an
\* older db_meta) damages a stored object.
StoredObjectsIntact ==
  \A d \in {db, saved} : \A a \in Addrs :
    d.index[a] # None /\ ~d.index[a].broken => Whole(d.index[a])

\* The bytes of a get's answer, up to the length it announces, belong to the
\* object db_meta named, if that was written completely.
AnswersAreOneObject ==
  \A c \in Clients :
    reply[c] # None /\ ~reply[c].entry.broken /\ reply[c].len > 0 =>
      reply[c].from = {reply[c].entry.by}

\* The thread comes back to epoll_wait, or the process ends, after whatever
\* it starts: the start itself and a put with any pieces missing.
ProcessSettles == (pc \notin {"wait", "down"}) ~> (pc \in {"wait", "down"})

\* put_data_2_storage asserts that it has data (pomme_storage.c:175): once a
\* put's first piece has arrived, unpack_msg finds the data in it.  The code does
\* not keep to that: a first piece of more than 972 bytes and its head are longer
\* than the buffer of handle_request.
DataAssertion ==
  \A c \in Clients :
    Ready(c) /\ Message[last].op = "put" /\ Message[last].first > 0
      /\ arrived[last] >= Layout + Message[last].first =>
        Unpacked(last, Received) # "crash"

=============================================================================
