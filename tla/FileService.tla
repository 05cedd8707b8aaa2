----------------------------- MODULE FileService -----------------------------
(***************************************************************************)
(* The servers and the client library together: client/pomme_client.c and  *)
(* pomme_client_meta.c, the heart beats of server/pomme_data_server.c, and *)
(* the handlers of server/pomme_ms_impl.c they call, for one file of the   *)
(* root directory.                                                         *)
(*                                                                         *)
(* Data servers register by heart beats, all of them under key 0.  A       *)
(* client opens the file, asks the meta server where to write, sends an    *)
(* object there and enters it at the meta server.  Every one of these      *)
(* calls is a connection of its own that sync_call never closes.           *)
(*                                                                         *)
(* An answer is two writes, its length and its bytes (write_data), so that *)
(* a meta server may die between them, and read_data then waits for the    *)
(* bytes in a loop that never ends or in its assertion.                    *)
(*                                                                         *)
(* What a handler does inside the meta server is module MetaServer's, what *)
(* a data server does with an object DataServer's, and the pool, which     *)
(* here has room for every caller, RpcServer's.                            *)
(***************************************************************************)
EXTENDS Integers, Sequences, FiniteSets

CONSTANTS
  Servers,       \* data servers, each with an address of its own
  Clients,       \* processes that use the client library
  Installations, \* which of them there may be in one installation
  None,          \* no data server
  MaxFds,        \* how many descriptors each has left for heart beats
  MaxWrites,     \* bound: pomme_write calls of a client
  MaxStarts,     \* bound: starts of each data server
  MaxMetaStarts  \* bound: starts of the meta server

ASSUME ServiceAssumption ==
  /\ None \notin Servers
  /\ Servers \cap Clients = {}
  /\ Servers \cap {"none", "sent", "ok", "error", "refused", "eof", "cut", "pipe"} = {}
  /\ Installations \subseteq SUBSET (Servers \cup Clients)
  /\ MaxFds \in [Servers -> Nat \ {0}]
  /\ MaxStarts \in [Servers -> Nat]
  /\ MaxWrites \in Nat /\ MaxMetaStarts \in Nat \ {0}

Procs == Servers \cup Clients

VARIABLES
  metaUp, metaStarts,
  stuck,     \* whether its main thread is caught in read_data
  node,      \* the record of key 0 in data_nodes
  named,     \* whether imap has the file's name
  record,    \* what meta_db has under its inode
  pc,        \* where each process is
  call,      \* the sync_call it is in: "none", "sent" or how it ended
  stray,     \* how many beats of its earlier lives are still to be executed
  fds,       \* how many sockets the heart beats of a data server left open
  starts,    \* how often each data server was started
  armed,     \* whether its interval timer runs
  meta,      \* what each client's file->meta points to
  off,       \* its file->off, in objects
  link,      \* the data server, and its life, an object is being sent to
  writes,    \* how many times it called pomme_write
  put,       \* history: <<client, write>> of each success of pomme_client_put_data
  entered,   \* history: [by, n, off] put by pomme_write_file
  acked      \* history: [by, n, off, eof] pomme_write returned success for

metaVars   == <<metaUp, metaStarts, stuck, node, named, record>>
serverVars == <<stray, fds, starts, armed>>
clientVars == <<meta, off, link, writes>>
history    == <<put, entered, acked>>
vars == <<metaVars, pc, call, serverVars, clientVars, history>>

Opening == {"inode_create", "inode", "create", "read"}
Up(s)   == s \in Servers /\ pc[s] \notin {"down", "absent"}

Init ==
  /\ metaUp = TRUE /\ metaStarts = 1 /\ stuck = FALSE
  /\ node = None /\ named = FALSE /\ record = "none"
  /\ \E there \in Installations :
       pc = [p \in Procs |-> IF p \notin there   THEN "absent"
                             ELSE IF p \in Servers THEN "down" ELSE "closed"]
  /\ call = [p \in Procs |-> "none"]
  /\ stray = [s \in Servers |-> 0]
  /\ fds = [s \in Servers |-> 0]
  /\ starts = [s \in Servers |-> 0]
  /\ armed = [s \in Servers |-> FALSE]
  /\ meta = [c \in Clients |-> "none"]
  /\ off = [c \in Clients |-> 0]
  /\ link = [c \in Clients |-> <<None, 0>>]
  /\ writes = [c \in Clients |-> 0]
  /\ put = {} /\ entered = {} /\ acked = {}

Goto(p, l) == pc' = [pc EXCEPT ![p] = l]
Ends(p, r) == call' = [call EXCEPT ![p] = r]

-----------------------------------------------------------------------------
(* The handlers of the meta server, and its end.                           *)

\* The meta server takes calls.
Serving == metaUp /\ ~stuck

\* sync_call up to the answer.  create_client gives up after four tries; a
\* meta server that is stuck still has its calls queued, while there is room.
Dial(p) ==
  \E r \in {"sent", "refused"} :
    /\ r = "sent" => metaUp
    /\ r = "refused" => ~Serving
    /\ Ends(p, r)

\* sync_call returned an error: a negative answer, a reset, or no connection.
Failed(p) == call[p] \in {"error", "refused"}

\* pomme_heart_beat.  mygroup is always -1, and ms_create_ds gives every
\* data server id 0.
HeartBeat(s) ==
  /\ call[s] = "sent" /\ Serving
  /\ node' = s
  /\ Ends(s, "ok")
  /\ UNCHANGED <<metaUp, metaStarts, stuck, named, record, pc, serverVars, clientVars, history>>

\* The call of a process that is gone is executed all the same.
StrayBeat(s) ==
  /\ stray[s] > 0 /\ Serving
  /\ node' = s
  /\ stray' = [stray EXCEPT ![s] = @ - 1]
  /\ UNCHANGED <<metaUp, metaStarts, stuck, named, record, pc, call, fds, starts, armed,
                 clientVars, history>>

\* pomme_get_inode, pomme_create_file and pomme_read_file.
OpenCall(c) ==
  /\ pc[c] \in Opening /\ call[c] = "sent" /\ Serving
  /\ Ends(c, CASE pc[c] = "inode"        -> IF named THEN "ok" ELSE "error"
               [] pc[c] = "inode_create" -> "ok"
               [] pc[c] = "create"       -> IF record = "none" THEN "ok" ELSE "error"
               [] pc[c] = "read"         -> IF record = "none" THEN "error" ELSE "ok")
  /\ named' = (named \/ pc[c] = "inode_create")
  /\ record' = IF pc[c] = "create" /\ record = "none" THEN "file" ELSE record
  /\ UNCHANGED <<metaUp, metaStarts, stuck, node, pc, serverVars, clientVars, history>>

\* pomme_get_ds for id 0, the only member of every group.
GetDs(c) ==
  /\ pc[c] = "get_ds" /\ call[c] = "sent" /\ Serving
  /\ Ends(c, IF node = None THEN "error" ELSE node)
  /\ UNCHANGED <<metaVars, pc, serverVars, clientVars, history>>

ThisWrite(c) == [by |-> c, n |-> writes[c], off |-> off[c]]

\* Mutant of WriteFile: the put does not overwrite, and its refusal is not
\* looked at.
WriteFileOnce(c) ==
  /\ pc[c] = "enter" /\ call[c] = "sent" /\ Serving
  /\ record' = "object"
  /\ entered' = IF record = "object" THEN entered ELSE entered \cup {ThisWrite(c)}
  /\ Ends(c, "ok")
  /\ UNCHANGED <<metaUp, metaStarts, stuck, node, named, pc, serverVars,
                 clientVars, put, acked>>

\* pomme_write_file.
WriteFile(c) ==
  /\ pc[c] = "enter" /\ call[c] = "sent" /\ Serving
  /\ record' = "object"
  /\ entered' = entered \cup {ThisWrite(c)}
  /\ Ends(c, "ok")
  /\ UNCHANGED <<metaUp, metaStarts, stuck, node, named, pc, serverVars,
                 clientVars, put, acked>>

\* Answers that have bytes behind their length: an inode, a file, a data
\* server, and the two integers of a heart beat.  pomme_write_file's has none.
HasBytes(p) == call[p] \in Servers \/ (call[p] = "ok" /\ pc[p] # "enter")

\* How a call may end whose meta server dies.  Without an answer that is a
\* reset, an end of file, which read_data takes for an answer of length 0, or,
\* if the caller is still writing, a write it does not survive.  What was
\* answered may be lost as a whole, or all but its length.
Outcomes(p) ==
  CASE call[p] = "sent" -> {"error", "eof", "pipe"}
    [] call[p] \in {"ok", "error"} \cup Servers ->
         {call[p], "error", "eof"} \cup (IF HasBytes(p) THEN {"cut"} ELSE {})
    [] OTHER -> {call[p]}

\* The meta server ends, and with it the calls of processes that are gone.
MetaDies ==
  /\ metaUp /\ metaUp' = FALSE /\ stuck' = FALSE
  /\ call' \in [Procs -> UNION {Outcomes(p) : p \in Procs}]
  /\ \A p \in Procs : call'[p] \in Outcomes(p)
  /\ stray' = [s \in Servers |-> 0]
  /\ UNCHANGED <<metaStarts, node, named, record, pc, fds, starts, armed, clientVars, history>>

\* What becomes of the caller.  An answer cut behind its length: at the end of
\* the file read_data asks for the bytes for ever, after a reset it fails its
\* assertion.  A write without a reader ends the process (SIGPIPE, or the
\* assertion of write_data).
CallKills(p) ==
  /\ \/ call[p] = "cut" /\ Goto(p, "spin") /\ UNCHANGED <<fds, armed>>
     \/ /\ call[p] \in {"cut", "pipe"}
        /\ Goto(p, IF p \in Servers THEN "down" ELSE "dead")
        /\ fds' = [s \in Servers |-> IF s = p THEN 0 ELSE fds[s]]
        /\ armed' = [s \in Servers |-> armed[s] /\ s # p]
  /\ Ends(p, "none")
  /\ UNCHANGED <<metaVars, stray, starts, clientVars, history>>

\* Its databases were never synced: each record may be gone.
MetaRestarts ==
  /\ ~metaUp /\ metaStarts < MaxMetaStarts
  /\ metaUp' = TRUE /\ metaStarts' = metaStarts + 1 /\ UNCHANGED stuck
  /\ node' \in {node, None}
  /\ named' \in {named, FALSE}
  /\ record' \in {record, "none"}
  /\ UNCHANGED <<pc, call, serverVars, clientVars, history>>

-----------------------------------------------------------------------------
(* The data servers: server() and pomme_ds_heart_beat.                     *)

\* server() makes its first heart beat when it listens already.
StartServer(s) ==
  /\ pc[s] = "down" /\ starts[s] < MaxStarts[s]
  /\ Dial(s)
  /\ Goto(s, "first")
  /\ starts' = [starts EXCEPT ![s] = @ + 1]
  /\ fds' = [fds EXCEPT ![s] = 1]
  /\ UNCHANGED <<metaVars, stray, armed, clientVars, history>>

\* A beat it was sending may still arrive.  If only the length of its name
\* did, the main thread of the meta server waits for the name in read_data.
ServerDies(s) ==
  /\ Up(s)
  /\ Goto(s, "down")
  /\ Ends(s, "none")
  /\ fds' = [fds EXCEPT ![s] = 0]
  /\ armed' = [armed EXCEPT ![s] = FALSE]
  /\ \/ UNCHANGED <<stray, stuck>>
     \/ call[s] = "sent" /\ stray' = [stray EXCEPT ![s] = @ + 1] /\ UNCHANGED stuck
     \/ call[s] = "sent" /\ stuck' = TRUE /\ UNCHANGED stray
  /\ UNCHANGED <<metaUp, metaStarts, node, named, record, starts, clientVars, history>>

\* Mutant of Alarm: it_interval is 0.
AlarmOnce(s) ==
  /\ pc[s] = "loop" /\ armed[s] /\ fds[s] < MaxFds[s]
  /\ fds' = [fds EXCEPT ![s] = @ + 1]
  /\ Dial(s)
  /\ Goto(s, "beat")
  /\ armed' = [armed EXCEPT ![s] = FALSE]
  /\ UNCHANGED <<metaVars, stray, starts, clientVars, history>>

\* SIGALRM, again and again: the interval timer starts by itself.  The socket
\* is never closed, and without a descriptor for one there is no beat.
Alarm(s) ==
  /\ pc[s] = "loop" /\ armed[s] /\ fds[s] < MaxFds[s]
  /\ fds' = [fds EXCEPT ![s] = @ + 1]
  /\ Dial(s)
  /\ Goto(s, "beat")
  /\ UNCHANGED <<metaVars, stray, starts, armed, clientVars, history>>

\* Mutant of Beaten: pomme_set_timer comes only after a first beat that was
\* answered.
BeatenTimed(s) ==
  /\ pc[s] \in {"first", "beat"} /\ (Failed(s) \/ call[s] \in {"ok", "eof"})
  /\ Goto(s, "loop")
  /\ Ends(s, "none")
  /\ armed' = [armed EXCEPT ![s] = @ \/ (pc[s] = "first" /\ call[s] = "ok")]
  /\ UNCHANGED <<metaVars, stray, fds, starts, clientVars, history>>

\* The end of pomme_ds_heart_beat, however the call ended.  pomme_set_timer
\* follows the first one.
Beaten(s) ==
  /\ pc[s] \in {"first", "beat"} /\ (Failed(s) \/ call[s] \in {"ok", "eof"})
  /\ Goto(s, "loop")
  /\ Ends(s, "none")
  /\ armed' = [armed EXCEPT ![s] = @ \/ pc[s] = "first"]
  /\ UNCHANGED <<metaVars, stray, fds, starts, clientVars, history>>

-----------------------------------------------------------------------------
(* The clients: pomme_open and pomme_write.                                *)

\* get_inode.  The root's inode is known and nothing fills imap: the file's
\* inode is asked for.
Asked(create) == IF create THEN "inode_create" ELSE "inode"

\* pomme_open up to that call.
Open(c, create) ==
  /\ pc[c] = "closed"
  /\ Goto(c, Asked(create))
  /\ Dial(c)
  /\ UNCHANGED <<metaVars, serverVars, clientVars, history>>

\* pomme_sync_get_inode reads the inode out of an empty answer's null pointer.
GotInode(c) ==
  /\ pc[c] \in {"inode", "inode_create"}
  /\ \/ /\ call[c] = "ok"
        /\ Goto(c, IF pc[c] = "inode" THEN "read" ELSE "create")
        /\ Dial(c)
     \/ /\ Failed(c) \/ call[c] = "eof"
        /\ Goto(c, IF Failed(c) THEN "closed" ELSE "dead")
        /\ Ends(c, "none")
  /\ UNCHANGED <<metaVars, serverVars, clientVars, history>>

\* What file->meta points to after pomme_sync_create_file, which frees the
\* meta data it returns, or pomme_sync_read_file_meta.  An empty answer is a
\* success without them.
NewMeta(c) == IF call[c] = "ok" THEN "record" ELSE "none"

\* The end of pomme_open.
Opened(c) ==
  /\ pc[c] \in {"create", "read"} /\ (Failed(c) \/ call[c] \in {"ok", "eof"})
  /\ Goto(c, IF Failed(c) THEN "closed" ELSE "open")
  /\ meta' = [meta EXCEPT ![c] = NewMeta(c)]
  /\ off' = [off EXCEPT ![c] = 0]
  /\ Ends(c, "none")
  /\ UNCHANGED <<metaVars, serverVars, link, writes, history>>

\* pomme_write up to the call of get_ds, which initialises a pomme_data_t
\* through a pointer without a value.
Write(c) ==
  /\ pc[c] = "open" /\ writes[c] < MaxWrites
  /\ \/ meta[c] = "record" /\ Goto(c, "get_ds") /\ Dial(c)
     \/ Goto(c, "dead") /\ UNCHANGED call
  /\ writes' = [writes EXCEPT ![c] = @ + 1]
  /\ UNCHANGED <<metaVars, serverVars, meta, off, link, history>>

\* Where pomme_client_get_ds may point its caller.  An empty answer leaves ds
\* as it was on the stack: any address.
Named(c) == IF call[c] = "eof" THEN Servers \cup {None} ELSE {call[c]}

\* The end of get_ds in send_data.
GotDs(c) ==
  /\ pc[c] = "get_ds"
  /\ \/ /\ Failed(c)
        /\ Goto(c, "open")
        /\ UNCHANGED link
     \/ /\ call[c] \in Servers \cup {"eof"}
        /\ Goto(c, "connect")
        /\ \E s \in Named(c) : link' = [link EXCEPT ![c] = <<s, 0>>]
  /\ Ends(c, "none")
  /\ UNCHANGED <<metaVars, serverVars, meta, off, writes, history>>

NoLink(c) == link' = [link EXCEPT ![c] = <<None, 0>>]

\* An object that fits one message, and a longer one.
Sending == {"send", "send_large"}

\* create_client to the data server.  It listens as long as it is up, but it
\* accepts one connection in its life: the queue of the others may be full.
\* How long the object is matters from here on.
Connect(c) ==
  /\ pc[c] = "connect"
  /\ LET s == link[c][1] IN
     \/ /\ Up(s)
        /\ link' = [link EXCEPT ![c] = <<s, starts[s]>>]
        /\ \E l \in Sending : Goto(c, l)
     \/ Goto(c, "open") /\ NoLink(c)
  /\ UNCHANGED <<metaVars, call, serverVars, meta, off, writes, history>>

Connected(c) == Up(link[c][1]) /\ link[c][2] = starts[link[c][1]]

\* A large object does not fit into the socket's buffers: its send waits for a
\* data server that reads, and the one that is up reads one message of the one
\* connection it accepts.
Blocks(c) == pc[c] = "send_large" /\ Connected(c)

\* Mutant of Send: pomme_write does not look at what send_data returned.
SendUnchecked(c) ==
  /\ pc[c] \in Sending
  /\ Goto(c, "enter")
  /\ Dial(c)
  /\ put' \in {put \cup {<<c, writes[c]>>}} \cup (IF Connected(c) THEN {} ELSE {put})
  /\ NoLink(c)
  /\ UNCHANGED <<metaVars, serverVars, meta, off, writes, entered, acked>>

\* pomme_client_put_data: bytes go to the socket, and that is all.  They are not
\* the writer's: pro.data stays NULL, pack_msg packs what lies at &pro->data, on
\* the stack, and the rest of a large object is sent from behind the packed
\* message, where there may be nothing to send (EFAULT).  With the other end
\* gone they may still go, be refused, or raise SIGPIPE.
Send(c) ==
  /\ pc[c] \in Sending
  /\ \/ /\ Goto(c, "enter")
        /\ Dial(c)
        /\ put' = put \cup {<<c, writes[c]>>}
     \/ /\ ~Connected(c) \/ pc[c] = "send_large"
        /\ Goto(c, "open")
        /\ UNCHANGED <<call, put>>
     \/ /\ ~Connected(c)
        /\ Goto(c, "dead")
        /\ UNCHANGED <<call, put>>
  /\ NoLink(c)
  /\ UNCHANGED <<metaVars, serverVars, meta, off, writes, entered, acked>>

ThisAnswer(c) ==
  [by |-> c, n |-> writes[c], off |-> off[c], eof |-> call[c] = "eof"]

\* Mutant of Written: file->off moves on when pomme_write_file answered.
WrittenWhenAnswered(c) ==
  /\ pc[c] = "enter" /\ (Failed(c) \/ call[c] \in {"ok", "eof"})
  /\ Goto(c, "open")
  /\ acked' = IF Failed(c) THEN acked ELSE acked \cup {ThisAnswer(c)}
  /\ off' = [off EXCEPT ![c] = IF call[c] = "ok" THEN @ + 1 ELSE @]
  /\ Ends(c, "none")
  /\ UNCHANGED <<metaVars, serverVars, meta, link, writes, put, entered>>

\* Mutant of Written: it waits for an answer when the connection ends.
WrittenWaits(c) == call[c] # "eof" /\ WrittenWhenAnswered(c)

\* The end of pomme_write.
Written(c) ==
  /\ pc[c] = "enter" /\ (Failed(c) \/ call[c] \in {"ok", "eof"})
  /\ Goto(c, "open")
  /\ \/ /\ Failed(c)
        /\ UNCHANGED <<off, acked>>
     \/ /\ ~Failed(c)
        /\ off' = [off EXCEPT ![c] = @ + 1]
        /\ acked' = acked \cup {ThisAnswer(c)}
  /\ Ends(c, "none")
  /\ UNCHANGED <<metaVars, serverVars, meta, link, writes, put, entered>>

-----------------------------------------------------------------------------
ServerStep(s) == Alarm(s) \/ HeartBeat(s) \/ Beaten(s) \/ CallKills(s)

ClientStep(c) ==
  \/ OpenCall(c) \/ GetDs(c) \/ WriteFile(c) \/ CallKills(c)
  \/ GotInode(c) \/ Opened(c) \/ GotDs(c) \/ Connect(c) \/ Send(c) \/ Written(c)

Next ==
  \/ \E s \in Servers : StartServer(s) \/ ServerDies(s) \/ ServerStep(s) \/ StrayBeat(s)
  \/ \E c \in Clients :
       \/ \E create \in BOOLEAN : Open(c, create)
       \/ Write(c) \/ ClientStep(c)
  \/ MetaDies \/ MetaRestarts

Spec == Init /\ [][Next]_vars

\* A process that runs goes on, a timer that runs fires, and the meta server
\* executes the calls it accepted.  Nothing says that a process stays up, is
\* started, that a client opens or writes, that the beat of a process that is
\* gone is executed, or that a send that has to wait comes to an end.
FairSpec ==
  /\ Spec
  /\ \A s \in Servers : WF_vars(ServerStep(s))
  /\ \A c \in Clients : WF_vars(~Blocks(c) /\ ClientStep(c))

-----------------------------------------------------------------------------
(* Properties.                                                             *)

Writing == {"get_ds", "connect", "send", "send_large", "enter"}
Calling == Opening \cup {"get_ds", "enter"}

\* Every variable has its type, a call is under way exactly where one is made,
\* a data server in its loop has a timer, and the record of key 0 is one of a
\* server that was started.
TypeOK ==
  /\ metaUp \in BOOLEAN /\ metaStarts \in 1 .. MaxMetaStarts
  /\ stuck \in BOOLEAN /\ (stuck => metaUp)
  /\ node \in Servers \cup {None} /\ named \in BOOLEAN
  /\ node # None => starts[node] > 0
  /\ record \in {"none", "file", "object"}
  /\ \A s \in Servers :
       /\ pc[s] \in {"absent", "down", "first", "loop", "beat", "spin"}
       /\ call[s] # "none" <=> pc[s] \in {"first", "beat"}
       /\ pc[s] = "loop" => armed[s]
       /\ fds[s] \in 0 .. MaxFds[s]
       /\ starts[s] \in 0 .. MaxStarts[s]
       /\ stray[s] \in 0 .. starts[s]
  /\ \A c \in Clients :
       /\ pc[c] \in Opening \cup Writing \cup {"absent", "closed", "open", "dead", "spin"}
       /\ call[c] # "none" <=> pc[c] \in Calling
  /\ \A p \in Procs :
       call[p] \in {"none", "sent", "ok", "error", "refused", "eof", "cut", "pipe"} \cup Servers
  /\ starts \in [Servers -> Nat]
  /\ armed \in [Servers -> BOOLEAN]
  /\ meta \in [Clients -> {"none", "record"}]
  /\ writes \in [Clients -> 0 .. MaxWrites]
  /\ off \in [Clients -> 0 .. MaxWrites]
  /\ link \in [Clients -> (Servers \cup {None}) \X Nat]

\* The meta server knows only objects whose pomme_client_put_data ended with
\* success before (pomme_write enters the object last, and gives up when
\* send_data failed), whoever dies.
EnteredAfterPut == \A e \in entered : <<e.by, e.n>> \in put

\* A write whose success the meta server answered is in its database's log of
\* puts (pomme_client_write_file: "== 0 for success"); the one way to report
\* a write that never got there is the meta server's death inside the call.
AckedEntered ==
  \A a \in acked : a.eof \/ [by |-> a.by, n |-> a.n, off |-> a.off] \in entered

\* The writes pomme_write reported cover the handle's file from 0 to its
\* offset, each place once, whatever failed between them.
WritesTile ==
  \A c \in Clients :
    LET mine == {a \in acked : a.by = c}
    IN /\ {a.off : a \in mine} = 0 .. off[c] - 1
       /\ \A a, b \in mine : a.off = b.off => a.n = b.n

\* The other data servers are gone, with the beats they sent, and s has
\* a descriptor for one more beat.
Alone(s) ==
  /\ Serving /\ Up(s) /\ fds[s] < MaxFds[s]
  /\ \A o \in Servers \ {s} : ~Up(o) /\ stray[o] = 0

\* All data servers share one record.  When one of them is alone its address
\* gets there, whichever address was there and whatever the meta server lost
\* (the interval timer of pomme_set_timer), unless somebody dies again, or
\* the meta server's death has left it in read_data, where it never beats
\* again.
SoleServerFound ==
  \A s \in Servers :
    Alone(s) ~> \/ node = s \/ ~Serving \/ ~Up(s) \/ pc[s] = "spin"
                \/ \E o \in Servers \ {s} : Up(o)

\* The ways to wait for ever: for the bytes of an answer whose server died,
\* for a data server to read, and for a meta server that is stuck.
Waits(c) == pc[c] = "spin" \/ Blocks(c) \/ (stuck /\ call[c] = "sent")

\* pomme_write returns, or takes its process down, whatever dies around it:
\* apart from those three it never waits.
WritesReturn ==
  \A c \in Clients :
    (pc[c] \in Writing ~> pc[c] \in {"open", "dead"}) \/ <>[]Waits(c)

=============================================================================
