------------------------- MODULE FileServiceProofs -------------------------
(***************************************************************************)
(* FileService for every set of data servers and clients and every bound:  *)
(* the meta server knows only objects that were put, a reported write was  *)
(* entered, and the writes reported cover the file without a gap.          *)
(*                                                                         *)
(* Servers only die and come back; what the three properties rest on is    *)
(* the order in which pomme_write goes through its calls.                  *)
(***************************************************************************)
EXTENDS FileService, TLAPS

\* Where a client is before it has a handle.
Before == Opening \cup {"closed"}

\* The writes c was told of lie from 0 to its offset, one at each place.
Tile(c) ==
  /\ \A a \in acked : a.by = c => a.off \in 0 .. off[c] - 1
  /\ \A i \in 0 .. off[c] - 1 : \E a \in acked : a.by = c /\ a.off = i
  /\ \A a, b \in acked : a.by = c /\ b.by = c /\ a.off = b.off => a.n = b.n

\* A client enters what it has put, and is answered for what it entered.
ClientInv(c) ==
  /\ off[c] \in Nat
  /\ pc[c] \in Before => off[c] = 0
  /\ pc[c] = "enter" => <<c, writes[c]>> \in put
  /\ pc[c] = "enter" /\ call[c] = "ok" => ThisWrite(c) \in entered
  /\ Tile(c)

Shapes ==
  /\ DOMAIN pc = Procs /\ pc = [p \in Procs |-> pc[p]]
  /\ DOMAIN call = Procs /\ call = [p \in Procs |-> call[p]]
  /\ off = [c \in Clients |-> off[c]]
  /\ writes = [c \in Clients |-> writes[c]]

FileInv == Shapes /\ (\A c \in Clients : ClientInv(c)) /\ EnteredAfterPut /\ AckedEntered

-----------------------------------------------------------------------------

\* A process is a server or a client.
LEMMA TwoKinds ==
  /\ \A s \in Servers : s \in Procs /\ s \notin Clients
  /\ \A c \in Clients : c \in Procs /\ c \notin Servers
  BY ServiceAssumption DEF Procs

\* What an assignment to one place of a function does.
LEMMA ShapeKept ==
  ASSUME NEW f, NEW g, NEW S, NEW c \in S, NEW v,
         f = [x \in S |-> f[x]], g = [f EXCEPT ![c] = v]
  PROVE  /\ DOMAIN g = S /\ g = [x \in S |-> g[x]]
         /\ g[c] = v /\ \A d \in S : d # c => g[d] = f[d]
  OBVIOUS

LEMMA InitFile == Init => FileInv
  BY ServiceAssumption
  DEF Init, FileInv, Shapes, ClientInv, Tile, EnteredAfterPut, AckedEntered, Procs, Opening

\* A step keeps the invariant that leaves the offsets and what the meta server
\* entered and answered alone, takes nobody back before its handle, and nobody
\* to "enter" who has not put its object.
Quiet ==
  /\ UNCHANGED <<off, entered, acked>>
  /\ put \subseteq put'
  /\ \A c \in Clients :
       /\ pc'[c] \in Before => pc[c] \in Before
       /\ pc'[c] = "enter" =>
            \/ pc[c] = "enter" /\ writes'[c] = writes[c] /\ (call'[c] = "ok" => call[c] = "ok")
            \/ <<c, writes'[c]>> \in put' /\ call'[c] # "ok"

LEMMA QuietInv == ASSUME FileInv, Shapes', Quiet PROVE FileInv'
  <1>1. ASSUME NEW c \in Clients PROVE ClientInv(c)'
    <2> USE <1>1
    <2>1. ClientInv(c) BY DEF FileInv
    <2>2. off'[c] \in Nat /\ (pc'[c] \in Before => off'[c] = 0)
      BY <2>1 DEF Quiet, ClientInv
    <2>3. pc'[c] = "enter" => <<c, writes'[c]>> \in put'
      BY <2>1 DEF Quiet, ClientInv
    <2>4. pc'[c] = "enter" /\ call'[c] = "ok" => ThisWrite(c)' \in entered'
      BY <2>1 DEF Quiet, ClientInv, ThisWrite
    <2>5. Tile(c)' BY <2>1 DEF Quiet, ClientInv, Tile
    <2> QED BY <2>2, <2>3, <2>4, <2>5 DEF ClientInv, Before, Opening
  <1>2. EnteredAfterPut' /\ AckedEntered'
    BY DEF FileInv, Quiet, EnteredAfterPut, AckedEntered
  <1> QED BY <1>1, <1>2 DEF FileInv

AnyServer(s) == StartServer(s) \/ ServerDies(s) \/ ServerStep(s) \/ StrayBeat(s)

\* Everything servers do, and the end and the start of the meta server.
LEMMA OthersQuiet ==
  ASSUME FileInv, MetaDies \/ MetaRestarts \/ \E s \in Servers : AnyServer(s)
  PROVE  FileInv'
  <1> USE DEF FileInv, Shapes
  <1>1. CASE MetaRestarts
    BY <1>1, QuietInv DEF MetaRestarts, serverVars, clientVars, history, Quiet
  <1>2. CASE MetaDies
    <2>1. Shapes' BY <1>2 DEF MetaDies, clientVars, history
    <2>2. ASSUME NEW c \in Clients PROVE pc'[c] = pc[c] /\ (call'[c] = "ok" => call[c] = "ok")
      <3>1. call'[c] \in Outcomes(c) BY <1>2, TwoKinds DEF MetaDies
      <3>2. "ok" \in Outcomes(c) => call[c] = "ok" BY ServiceAssumption DEF Outcomes
      <3> QED BY <1>2, <3>1, <3>2 DEF MetaDies
    <2>3. Quiet BY <1>2, <2>2 DEF MetaDies, clientVars, history, Quiet
    <2> QED BY <2>1, <2>3, QuietInv
  <1>3. ASSUME NEW s \in Servers, AnyServer(s) PROVE FileInv'
    <2> USE DEF Goto, Ends, Dial
    <2>1. /\ UNCHANGED <<clientVars, history>>
          /\ pc' = [pc EXCEPT ![s] = pc'[s]] /\ call' = [call EXCEPT ![s] = call'[s]]
      <3>1. CASE StartServer(s) BY <3>1, ShapeKept DEF StartServer, Procs
      <3>2. CASE ServerDies(s) BY <3>2, ShapeKept DEF ServerDies, Procs
      <3>3. CASE Alarm(s) BY <3>3, ShapeKept DEF Alarm, Procs
      <3>4. CASE HeartBeat(s) BY <3>4, ShapeKept DEF HeartBeat, Procs
      <3>5. CASE Beaten(s) BY <3>5, ShapeKept DEF Beaten, Procs
      <3>6. CASE CallKills(s) BY <3>6, ShapeKept DEF CallKills, Procs
      <3>7. CASE StrayBeat(s) BY <3>7, ShapeKept DEF StrayBeat, Procs
      <3> QED BY <1>3, <3>1, <3>2, <3>3, <3>4, <3>5, <3>6, <3>7 DEF AnyServer, ServerStep
    <2>2. Shapes' BY <2>1, ShapeKept, TwoKinds DEF clientVars
    <2>3. \A c \in Clients : pc'[c] = pc[c] /\ call'[c] = call[c]
      BY <2>1, ShapeKept, TwoKinds
    <2>4. Quiet BY <2>1, <2>3 DEF clientVars, history, Quiet
    <2> QED BY <2>2, <2>4, QuietInv
  <1> QED BY <1>1, <1>2, <1>3

\* pomme_open, and pomme_write up to the call of pomme_write_file.
LEMMA ClientQuiet ==
  ASSUME FileInv, NEW c \in Clients,
         \/ \E create \in BOOLEAN : Open(c, create)
         \/ Write(c) \/ OpenCall(c) \/ GetDs(c) \/ GotInode(c) \/ Opened(c)
         \/ GotDs(c) \/ Connect(c) \/ Send(c) \/ CallKills(c)
  PROVE  FileInv'
  <1> DEFINE Step == \/ \E create \in BOOLEAN : Open(c, create)
                     \/ Write(c) \/ OpenCall(c) \/ GetDs(c) \/ GotInode(c) \/ Opened(c)
                     \/ GotDs(c) \/ Connect(c) \/ Send(c) \/ CallKills(c)
  <1>0. Step /\ c \in Procs /\ ClientInv(c) BY DEF Procs, FileInv
  <1> USE DEF Goto, Ends, Dial, Asked, serverVars, clientVars, history
  <1>1. /\ pc' = [pc EXCEPT ![c] = pc'[c]] /\ call' = [call EXCEPT ![c] = call'[c]]
        /\ writes' = [writes EXCEPT ![c] = writes'[c]] /\ off' = [off EXCEPT ![c] = off'[c]]
    <2> USE <1>0 DEF FileInv, Shapes
    <2>1. CASE \E create \in BOOLEAN : Open(c, create) BY <2>1 DEF Open
    <2>2. CASE Write(c) BY <2>2 DEF Write
    <2>3. CASE OpenCall(c)
      <3>1. \E v : call' = [call EXCEPT ![c] = v] BY <2>3, Zenon DEF OpenCall
      <3>2. call' = [call EXCEPT ![c] = call'[c]] BY <3>1, ShapeKept
      <3>3. UNCHANGED <<pc, writes, off>> BY <2>3, Zenon DEF OpenCall
      <3> QED BY <3>2, <3>3
    <2>4. CASE GetDs(c) BY <2>4 DEF GetDs
    <2>5. CASE GotInode(c) BY <2>5 DEF GotInode
    <2>6. CASE Opened(c) BY <2>6 DEF Opened
    <2>7. CASE GotDs(c) BY <2>7 DEF GotDs
    <2>8. CASE Connect(c) BY <2>8 DEF Connect
    <2>9. CASE Send(c) BY <2>9 DEF Send
    <2>10. CASE CallKills(c) BY <2>10 DEF CallKills
    <2> QED BY <2>1, <2>2, <2>3, <2>4, <2>5, <2>6, <2>7, <2>8, <2>9, <2>10
  <1>2. Shapes' BY <1>0, <1>1, ShapeKept DEF FileInv, Shapes
  <1>3. \A d \in Clients : d # c => pc'[d] = pc[d] /\ call'[d] = call[d] /\ writes'[d] = writes[d]
    BY <1>0, <1>1, ShapeKept DEF FileInv, Shapes, Procs
  <1>4. UNCHANGED <<entered, acked>> /\ put \subseteq put'
    BY <1>0 DEF Open, Write, OpenCall, GetDs, GotInode, Opened, GotDs, Connect, Send, CallKills
  <1>5. off' = off
    BY <1>0 DEF Open, Write, OpenCall, GetDs, GotInode, Opened, GotDs, Connect, Send, CallKills, Failed,
                FileInv, Shapes, ClientInv, Before, Opening
  <1>6. pc'[c] \in Before => pc[c] \in Before
    <2> USE <1>0 DEF FileInv, Shapes, Before, Opening
    <2>1. CASE \E create \in BOOLEAN : Open(c, create) BY <2>1 DEF Open
    <2>2. CASE Write(c) BY <2>2 DEF Write
    <2>3. CASE OpenCall(c)
      <3>1. UNCHANGED <<pc, writes>> /\ pc[c] \in Opening BY <2>3, Zenon DEF OpenCall
      <3> QED BY <3>1
    <2>4. CASE GetDs(c) BY <2>4 DEF GetDs
    <2>5. CASE GotInode(c) BY <2>5 DEF GotInode, Failed
    <2>6. CASE Opened(c) BY <2>6 DEF Opened, Failed
    <2>7. CASE GotDs(c) BY <2>7 DEF GotDs, Failed
    <2>8. CASE Connect(c) BY <2>8 DEF Connect, Sending
    <2>9. CASE Send(c) BY <2>9 DEF Send, Sending
    <2>10. CASE CallKills(c) BY <2>10 DEF CallKills
    <2> QED BY <2>1, <2>2, <2>3, <2>4, <2>5, <2>6, <2>7, <2>8, <2>9, <2>10
  <1>7. pc'[c] = "enter" => <<c, writes'[c]>> \in put' /\ call'[c] # "ok"
    <2> USE <1>0 DEF FileInv, Shapes, Before, Opening
    <2>1. CASE \E create \in BOOLEAN : Open(c, create) BY <2>1 DEF Open
    <2>2. CASE Write(c) BY <2>2 DEF Write
    <2>3. CASE OpenCall(c)
      <3>1. UNCHANGED <<pc, writes>> /\ pc[c] \in Opening BY <2>3, Zenon DEF OpenCall
      <3> QED BY <3>1
    <2>4. CASE GetDs(c) BY <2>4 DEF GetDs
    <2>5. CASE GotInode(c) BY <2>5 DEF GotInode, Failed
    <2>6. CASE Opened(c) BY <2>6 DEF Opened, Failed
    <2>7. CASE GotDs(c) BY <2>7 DEF GotDs, Failed
    <2>8. CASE Connect(c) BY <2>8 DEF Connect, Sending
    <2>9. CASE Send(c) BY <2>9 DEF Send, Sending
    <2>10. CASE CallKills(c) BY <2>10 DEF CallKills
    <2> QED BY <2>1, <2>2, <2>3, <2>4, <2>5, <2>6, <2>7, <2>8, <2>9, <2>10
  <1>8. Quiet BY <1>3, <1>4, <1>5, <1>6, <1>7 DEF Quiet
  <1> QED BY <1>2, <1>8, QuietInv

\* pomme_write_file enters what its caller has put.
LEMMA EnterInv == ASSUME FileInv, NEW c \in Clients, WriteFile(c) PROVE FileInv'
  <1> USE DEF FileInv, Shapes
  <1>0. c \in Procs /\ ClientInv(c) BY DEF Procs
  <1>1. /\ UNCHANGED <<pc, off, writes, put, acked>>
        /\ entered' = entered \cup {ThisWrite(c)}
        /\ call' = [call EXCEPT ![c] = "ok"]
    BY DEF WriteFile, Ends, clientVars
  <1>2. Shapes' BY <1>1
  <1>3. ASSUME NEW d \in Clients PROVE ClientInv(d)'
    <2> USE <1>3
    <2>1. ClientInv(d) OBVIOUS
    <2>2. Tile(d)' BY <1>1, <2>1 DEF ClientInv, Tile
    <2>3. ThisWrite(d)' = ThisWrite(d) BY <1>1 DEF ThisWrite
    <2>4. pc'[d] = "enter" /\ call'[d] = "ok" => ThisWrite(d)' \in entered'
      BY <1>1, <2>1, <2>3 DEF ClientInv
    <2> QED BY <1>1, <2>1, <2>2, <2>4 DEF ClientInv, Before, Opening
  <1>4. EnteredAfterPut'
    <2>1. <<c, writes[c]>> \in put BY <1>0 DEF ClientInv, WriteFile
    <2>2. ThisWrite(c).by = c /\ ThisWrite(c).n = writes[c] BY DEF ThisWrite
    <2> QED BY <1>1, <2>1, <2>2 DEF EnteredAfterPut
  <1>5. AckedEntered' BY <1>1 DEF AckedEntered
  <1> QED BY <1>2, <1>3, <1>4, <1>5

\* The end of pomme_write: a success fills the place at the offset, which then
\* moves on.
LEMMA WrittenInv == ASSUME FileInv, NEW c \in Clients, Written(c) PROVE FileInv'
  <1> USE DEF FileInv, Shapes
  <1>0. c \in Procs /\ ClientInv(c) BY DEF Procs
  <1>1. CASE Failed(c)
    <2>1. /\ pc' = [pc EXCEPT ![c] = "open"] /\ call' = [call EXCEPT ![c] = "none"]
          /\ UNCHANGED <<off, writes, put, entered, acked>>
      BY <1>1 DEF Written, Goto, Ends
    <2>2. Shapes' BY <1>0, <2>1, ShapeKept
    <2>3. pc'[c] = "open" /\ \A d \in Clients : d # c => pc'[d] = pc[d] /\ call'[d] = call[d]
      BY <1>0, <2>1, ShapeKept DEF Procs
    <2>4. Quiet BY <2>1, <2>3 DEF Quiet, Before, Opening
    <2> QED BY <2>2, <2>4, QuietInv
  <1>2. CASE ~Failed(c)
    <2>1. /\ pc' = [pc EXCEPT ![c] = "open"]
          /\ call' = [call EXCEPT ![c] = "none"]
          /\ off' = [off EXCEPT ![c] = off[c] + 1]
          /\ acked' = acked \cup {ThisAnswer(c)}
          /\ UNCHANGED <<writes, put, entered>>
      BY <1>2 DEF Written, Goto, Ends
    <2>2. Shapes' BY <2>1
    <2>3. ThisAnswer(c).by = c /\ ThisAnswer(c).off = off[c] BY DEF ThisAnswer
    <2>4. ASSUME NEW d \in Clients, d # c PROVE ClientInv(d)'
      <3> USE <2>4
      <3>1. ClientInv(d) OBVIOUS
      <3>2. pc'[d] = pc[d] /\ call'[d] = call[d] /\ off'[d] = off[d] /\ writes'[d] = writes[d]
        BY <1>0, <2>1, ShapeKept DEF Procs
      <3>3. Tile(d)' BY <2>1, <2>3, <3>1, <3>2 DEF ClientInv, Tile
      <3>4. ThisWrite(d)' = ThisWrite(d) BY <3>2 DEF ThisWrite
      <3> QED BY <2>1, <3>1, <3>2, <3>3, <3>4 DEF ClientInv, Before, Opening
    <2>5. ClientInv(c)'
      <3>1. off[c] \in Nat /\ off'[c] = off[c] + 1 /\ Tile(c) BY <1>0, <2>1 DEF ClientInv
      <3>2. \A a \in acked' : a.by = c => a.off \in 0 .. off'[c] - 1
        BY <2>1, <2>3, <3>1 DEF Tile
      <3>3. \A i \in 0 .. off'[c] - 1 : \E a \in acked' : a.by = c /\ a.off = i
        <4> SUFFICES ASSUME NEW i \in 0 .. off'[c] - 1
                     PROVE \E a \in acked' : a.by = c /\ a.off = i OBVIOUS
        <4>1. i \in 0 .. off[c] - 1 \/ i = off[c] BY <3>1
        <4> QED BY <2>1, <2>3, <3>1, <4>1 DEF Tile
      <3>4. ASSUME NEW a \in acked', NEW b \in acked', a.by = c, b.by = c, a.off = b.off
            PROVE a.n = b.n
        <4>1. \A x \in acked : x.by = c => x.off # off[c] BY <3>1 DEF Tile
        <4> QED BY <2>1, <2>3, <3>1, <3>4, <4>1 DEF Tile
      <3>5. Tile(c)' BY <3>2, <3>3, <3>4 DEF Tile
      <3>6. pc'[c] = "open" BY <1>0, <2>1
      <3> QED BY <3>1, <3>5, <3>6 DEF ClientInv, Before, Opening
    <2>6. EnteredAfterPut' BY <2>1 DEF EnteredAfterPut
    <2>7. AckedEntered'
      <3>1. call[c] = "ok" => ThisWrite(c) \in entered BY <1>0 DEF ClientInv, Written
      <3>2. ThisAnswer(c).eof \/ call[c] = "ok" BY <1>2 DEF ThisAnswer, Written
      <3>3. [by |-> ThisAnswer(c).by, n |-> ThisAnswer(c).n, off |-> ThisAnswer(c).off]
              = ThisWrite(c)
        BY DEF ThisAnswer, ThisWrite
      <3> QED BY <2>1, <3>1, <3>2, <3>3 DEF AckedEntered
    <2> QED BY <2>2, <2>4, <2>5, <2>6, <2>7
  <1> QED BY <1>1, <1>2

LEMMA StepInv == FileInv /\ [Next]_vars => FileInv'
  <1> SUFFICES ASSUME FileInv, [Next]_vars PROVE FileInv' OBVIOUS
  <1>1. CASE UNCHANGED vars
    BY <1>1, QuietInv DEF vars, clientVars, history, Quiet, FileInv, Shapes
  <1>2. CASE MetaDies \/ MetaRestarts BY <1>2, OthersQuiet
  <1>3. CASE \E s \in Servers : AnyServer(s) BY <1>3, OthersQuiet
  <1>4. ASSUME NEW c \in Clients,
               (\E create \in BOOLEAN : Open(c, create)) \/ Write(c) \/ ClientStep(c)
        PROVE  FileInv'
    BY <1>4, ClientQuiet, EnterInv, WrittenInv DEF ClientStep
  <1> QED BY <1>1, <1>2, <1>3, <1>4 DEF Next, AnyServer

LEMMA Always == Spec => []FileInv
  BY InitFile, StepInv, PTL DEF Spec

-----------------------------------------------------------------------------
(* The type invariant.                                                     *)

ServerPcs == {"absent", "down", "first", "loop", "beat", "spin"}
ClientPcs == Opening \cup Writing \cup {"absent", "closed", "open", "dead", "spin"}
Results ==
  {"none", "sent", "ok", "error", "refused", "eof", "cut", "pipe"} \cup Servers

\* The variables are functions on the processes they belong to.
Functions ==
  /\ pc \in [Procs -> ServerPcs \cup ClientPcs]
  /\ call \in [Procs -> Results]
  /\ stray \in [Servers -> Nat]
  /\ fds \in [Servers -> Nat]
  /\ starts \in [Servers -> Nat]
  /\ armed \in [Servers -> BOOLEAN]
  /\ meta \in [Clients -> {"none", "record"}]
  /\ writes \in [Clients -> 0 .. MaxWrites]
  /\ off \in [Clients -> 0 .. MaxWrites]
  /\ link \in [Clients -> (Servers \cup {None}) \X Nat]

MetaOK ==
  /\ metaUp \in BOOLEAN /\ metaStarts \in 1 .. MaxMetaStarts
  /\ stuck \in BOOLEAN /\ (stuck => metaUp)
  /\ node \in Servers \cup {None} /\ named \in BOOLEAN
  /\ node # None => starts[node] > 0
  /\ record \in {"none", "file", "object"}

\* A server's timer runs from its first beat on; beats are those of its lives,
\* one of each at most, and the one at hand is not a stray one yet; nobody waits
\* for a meta server that is down.
ServerOK(s) ==
  /\ pc[s] \in ServerPcs
  /\ call[s] # "none" <=> pc[s] \in {"first", "beat"}
  /\ call[s] = "sent" => metaUp
  /\ pc[s] \in {"loop", "beat"} => armed[s]
  /\ fds[s] \in 0 .. MaxFds[s]
  /\ starts[s] \in 0 .. MaxStarts[s]
  /\ stray[s] <= starts[s]
  /\ Up(s) => stray[s] < starts[s]

\* A client has a call under way exactly where it makes one, and has been told
\* of fewer writes than it began.
ClientOK(c) ==
  /\ pc[c] \in ClientPcs
  /\ call[c] # "none" <=> pc[c] \in Calling
  /\ off[c] <= writes[c]
  /\ pc[c] \in Writing => off[c] < writes[c]

TypeInv ==
  /\ Functions /\ MetaOK
  /\ \A s \in Servers : ServerOK(s)
  /\ \A c \in Clients : ClientOK(c)

LEMMA TypeInit == Init => TypeInv
  <1> SUFFICES ASSUME Init PROVE TypeInv OBVIOUS
  <1> USE ServiceAssumption DEF Init
  <1>1. Functions
    BY DEF Functions, Results, ServerPcs, ClientPcs
  <1>2. MetaOK
    <2>1. 1 \in 1 .. MaxMetaStarts OBVIOUS
    <2> QED BY <2>1 DEF MetaOK
  <1>3. \A s \in Servers : ServerOK(s) BY TwoKinds DEF ServerOK, ServerPcs, Up
  <1>4. \A c \in Clients : ClientOK(c)
    BY TwoKinds DEF ClientOK, ClientPcs, Calling, Opening, Writing
  <1> QED BY <1>1, <1>2, <1>3, <1>4 DEF TypeInv

\* A step of one server, or of the meta server for it, leaves the other
\* processes alone.
Elsewhere(s) ==
  /\ \A p \in Procs \ {s} : pc'[p] = pc[p] /\ call'[p] = call[p]
  /\ \A o \in Servers \ {s} :
       /\ fds'[o] = fds[o] /\ starts'[o] = starts[o]
       /\ stray'[o] = stray[o] /\ armed'[o] = armed[o]
  /\ UNCHANGED <<clientVars, metaUp, metaStarts, named, record>>

LEMMA OneServer ==
  ASSUME TypeInv, NEW s \in Servers, Elsewhere(s), Functions', ServerOK(s)',
         stuck' \in BOOLEAN, stuck' => metaUp,
         starts'[s] >= starts[s],
         node' = node \/ (node' = s /\ starts'[s] > 0)
  PROVE  TypeInv'
  <1> USE DEF TypeInv, Elsewhere
  <1>1. s \in Procs /\ \A c \in Clients : c \in Procs /\ c # s BY TwoKinds
  <1>2. MetaOK'
    <2>1. \A o \in Servers : starts'[o] >= starts[o]
      <3>1. ASSUME NEW o \in Servers PROVE starts'[o] >= starts[o]
        <4>1. starts[o] \in Nat BY DEF Functions
        <4> QED BY <4>1
      <3> QED BY <3>1
    <2>2. \A o \in Servers : starts[o] \in Nat /\ starts'[o] \in Nat BY DEF Functions
    <2>3. node' \in Servers \cup {None} BY DEF MetaOK
    <2>4. node' # None => starts'[node'] > 0 BY <2>1, <2>2, <2>3 DEF MetaOK
    <2> QED BY <2>3, <2>4 DEF MetaOK
  <1>3. ASSUME NEW o \in Servers, o # s PROVE ServerOK(o)'
    <2>1. o \in Procs BY TwoKinds
    <2>2. /\ pc'[o] = pc[o] /\ call'[o] = call[o] /\ fds'[o] = fds[o]
          /\ starts'[o] = starts[o] /\ stray'[o] = stray[o] /\ armed'[o] = armed[o]
      BY <1>3, <2>1
    <2> QED BY <2>2 DEF ServerOK, Up
  <1>4. ASSUME NEW c \in Clients PROVE ClientOK(c)'
    <2>1. pc'[c] = pc[c] /\ call'[c] = call[c] BY <1>1
    <2> QED BY <2>1 DEF ClientOK, clientVars
  <1> QED BY <1>2, <1>3, <1>4

\* An assignment of the value that is there already.
LEMMA SameKept ==
  ASSUME NEW f, NEW S, NEW T, f \in [S -> T], NEW c \in S
  PROVE  f = [f EXCEPT ![c] = f[c]]
  OBVIOUS

LEMMA ServerType ==
  ASSUME TypeInv, NEW s \in Servers, AnyServer(s)
  PROVE  TypeInv'
  <1> USE DEF Goto, Ends, metaVars, serverVars
  <1>1. /\ s \in Procs /\ MaxFds[s] \in Nat \ {0} /\ MaxStarts[s] \in Nat
        /\ pc[s] \in ServerPcs /\ call[s] \in Results /\ armed[s] \in BOOLEAN
        /\ fds[s] \in 0 .. MaxFds[s] /\ starts[s] \in 0 .. MaxStarts[s] /\ stray[s] \in Nat
        /\ stray[s] <= starts[s] /\ (Up(s) => stray[s] < starts[s])
        /\ (call[s] # "none" <=> pc[s] \in {"first", "beat"})
        /\ (call[s] = "sent" => metaUp)
        /\ (pc[s] \in {"loop", "beat"} => armed[s])
        /\ stuck \in BOOLEAN /\ (stuck => metaUp)
    BY TwoKinds, ServiceAssumption DEF TypeInv, ServerOK, Functions, MetaOK
  <1>2. /\ pc \in [Procs -> ServerPcs \cup ClientPcs] /\ call \in [Procs -> Results]
        /\ fds \in [Servers -> Nat] /\ starts \in [Servers -> Nat]
        /\ stray \in [Servers -> Nat] /\ armed \in [Servers -> BOOLEAN]
        /\ meta \in [Clients -> {"none", "record"}]
        /\ writes \in [Clients -> 0 .. MaxWrites] /\ off \in [Clients -> 0 .. MaxWrites]
        /\ link \in [Clients -> (Servers \cup {None}) \X Nat]
    BY DEF TypeInv, Functions
  <1>3. /\ {"none", "sent", "ok", "refused"} \subseteq Results
        /\ {"down", "first", "loop", "beat", "spin"} \subseteq ServerPcs
    BY DEF Results, ServerPcs
  <1>4. ASSUME NEW l \in ServerPcs, pc' = [pc EXCEPT ![s] = l],
               NEW r \in Results, call' = [call EXCEPT ![s] = r],
               fds' \in [Servers -> Nat], starts' \in [Servers -> Nat],
               stray' \in [Servers -> Nat], armed' \in [Servers -> BOOLEAN],
               UNCHANGED clientVars
        PROVE  /\ Functions' /\ pc'[s] = l /\ call'[s] = r
               /\ \A p \in Procs \ {s} : pc'[p] = pc[p] /\ call'[p] = call[p]
    <2>1. pc' \in [Procs -> ServerPcs \cup ClientPcs] BY <1>1, <1>2, <1>4
    <2>2. call' \in [Procs -> Results] BY <1>1, <1>2, <1>4
    <2>3. Functions' BY <1>2, <1>4, <2>1, <2>2 DEF Functions, clientVars
    <2> QED BY <1>1, <1>2, <1>4, <2>3
  <1>5. CASE StartServer(s)
    <2>1. PICK r \in {"sent", "refused"} :
            call' = [call EXCEPT ![s] = r] /\ (r = "sent" => metaUp)
      BY <1>5 DEF StartServer, Dial
    <2>2. /\ pc' = [pc EXCEPT ![s] = "first"] /\ pc[s] = "down" /\ starts[s] < MaxStarts[s]
          /\ fds' = [fds EXCEPT ![s] = 1] /\ starts' = [starts EXCEPT ![s] = starts[s] + 1]
          /\ UNCHANGED <<clientVars, metaUp, metaStarts, stuck, named, record, node, stray, armed>>
      BY <1>5 DEF StartServer
    <2>3. fds' \in [Servers -> Nat] /\ starts' \in [Servers -> Nat] BY <1>1, <1>2, <2>2
    <2>4. /\ Functions' /\ pc'[s] = "first" /\ call'[s] = r
          /\ \A p \in Procs \ {s} : pc'[p] = pc[p] /\ call'[p] = call[p]
      BY <1>2, <1>3, <1>4, <2>1, <2>2, <2>3
    <2>5. fds'[s] = 1 /\ starts'[s] = starts[s] + 1 BY <1>2, <2>2
    <2>6. ServerOK(s)' BY <1>1, <1>3, <2>1, <2>2, <2>4, <2>5 DEF ServerOK
    <2>7. Elsewhere(s) BY <1>2, <2>2, <2>4 DEF Elsewhere
    <2>8. starts'[s] >= starts[s] BY <1>1, <2>5
    <2> QED BY <1>1, <2>2, <2>4, <2>6, <2>7, <2>8, OneServer
  <1>6. CASE ServerDies(s)
    <2>1. /\ pc' = [pc EXCEPT ![s] = "down"] /\ call' = [call EXCEPT ![s] = "none"] /\ Up(s)
          /\ fds' = [fds EXCEPT ![s] = 0] /\ armed' = [armed EXCEPT ![s] = FALSE]
          /\ UNCHANGED <<clientVars, metaUp, metaStarts, named, record, node, starts>>
      BY <1>6 DEF ServerDies
    <2>2. \/ stray' = stray
          \/ stray' = [stray EXCEPT ![s] = stray[s] + 1]
      BY <1>6 DEF ServerDies
    <2>3. stuck' \in BOOLEAN /\ (stuck' => metaUp)
      <3>1. CASE UNCHANGED stuck BY <1>1, <3>1
      <3>2. CASE call[s] = "sent" /\ stuck' = TRUE BY <1>1, <3>2
      <3> QED BY <1>6, <3>1, <3>2 DEF ServerDies
    <2>4. /\ stray' \in [Servers -> Nat] /\ stray'[s] <= starts[s]
          /\ \A o \in Servers \ {s} : stray'[o] = stray[o]
      BY <1>1, <1>2, <2>1, <2>2
    <2>5. fds' \in [Servers -> Nat] /\ armed' \in [Servers -> BOOLEAN] BY <1>1, <1>2, <2>1
    <2>6. /\ Functions' /\ pc'[s] = "down" /\ call'[s] = "none"
          /\ \A p \in Procs \ {s} : pc'[p] = pc[p] /\ call'[p] = call[p]
      BY <1>2, <1>3, <1>4, <2>1, <2>4, <2>5
    <2>7. fds'[s] = 0 /\ starts'[s] = starts[s] BY <1>2, <2>1
    <2>8. ServerOK(s)' BY <1>1, <1>3, <2>4, <2>6, <2>7 DEF ServerOK, Up
    <2>9. Elsewhere(s) BY <1>2, <2>1, <2>4, <2>6 DEF Elsewhere
    <2>10. starts'[s] >= starts[s] BY <1>1, <2>7
    <2> QED BY <2>1, <2>3, <2>6, <2>8, <2>9, <2>10, OneServer
  <1>7. CASE Alarm(s)
    <2>1. PICK r \in {"sent", "refused"} :
            call' = [call EXCEPT ![s] = r] /\ (r = "sent" => metaUp)
      BY <1>7 DEF Alarm, Dial
    <2>2. /\ pc' = [pc EXCEPT ![s] = "beat"] /\ pc[s] = "loop" /\ armed[s] /\ fds[s] < MaxFds[s]
          /\ fds' = [fds EXCEPT ![s] = fds[s] + 1]
          /\ UNCHANGED <<clientVars, metaUp, metaStarts, stuck, named, record, node, starts,
                         stray, armed>>
      BY <1>7 DEF Alarm
    <2>3. fds' \in [Servers -> Nat] BY <1>1, <1>2, <2>2
    <2>4. /\ Functions' /\ pc'[s] = "beat" /\ call'[s] = r
          /\ \A p \in Procs \ {s} : pc'[p] = pc[p] /\ call'[p] = call[p]
      BY <1>2, <1>3, <1>4, <2>1, <2>2, <2>3
    <2>5. fds'[s] = fds[s] + 1 /\ starts'[s] = starts[s] BY <1>2, <2>2
    <2>6. ServerOK(s)' BY <1>1, <1>3, <2>1, <2>2, <2>4, <2>5 DEF ServerOK, Up
    <2>7. Elsewhere(s) BY <1>2, <2>2, <2>4 DEF Elsewhere
    <2>8. starts'[s] >= starts[s] BY <1>1, <2>5
    <2> QED BY <1>1, <2>2, <2>4, <2>6, <2>7, <2>8, OneServer
  <1>8. CASE HeartBeat(s)
    <2>1. /\ node' = s /\ call' = [call EXCEPT ![s] = "ok"] /\ call[s] = "sent"
          /\ UNCHANGED <<clientVars, metaUp, metaStarts, stuck, named, record, pc, fds, starts,
                         stray, armed>>
      BY <1>8 DEF HeartBeat
    <2>2. pc[s] \in {"first", "beat"} BY <1>1, <2>1
    <2>3. stray[s] < starts[s] /\ starts[s] > 0 BY <1>1, <2>2 DEF Up
    <2>4. pc' = [pc EXCEPT ![s] = pc[s]] BY <1>2, <2>1, SameKept, <1>1
    <2>5. /\ Functions' /\ pc'[s] = pc[s] /\ call'[s] = "ok"
          /\ \A p \in Procs \ {s} : pc'[p] = pc[p] /\ call'[p] = call[p]
      BY <1>1, <1>2, <1>3, <1>4, <2>1, <2>4
    <2>6. ServerOK(s)' BY <1>1, <2>1, <2>2, <2>3, <2>5 DEF ServerOK, Up
    <2>7. Elsewhere(s) BY <2>1, <2>5 DEF Elsewhere
    <2>8. starts'[s] >= starts[s] /\ starts'[s] > 0 BY <1>1, <2>1, <2>3
    <2> QED BY <1>1, <2>1, <2>5, <2>6, <2>7, <2>8, OneServer
  <1>9. CASE Beaten(s)
    <2>1. /\ pc' = [pc EXCEPT ![s] = "loop"] /\ call' = [call EXCEPT ![s] = "none"]
          /\ armed' = [armed EXCEPT ![s] = armed[s] \/ pc[s] = "first"]
          /\ pc[s] \in {"first", "beat"} /\ Up(s)
          /\ UNCHANGED <<clientVars, metaUp, metaStarts, stuck, named, record, node, fds, starts,
                         stray>>
      BY <1>9 DEF Beaten, Up
    <2>2. armed' \in [Servers -> BOOLEAN] /\ armed'[s]
      <3>1. armed[s] \/ pc[s] = "first" BY <1>1, <2>1
      <3>2. armed' = [armed EXCEPT ![s] = TRUE] BY <1>2, <2>1, <3>1
      <3> QED BY <1>2, <3>2
    <2>3. /\ Functions' /\ pc'[s] = "loop" /\ call'[s] = "none"
          /\ \A p \in Procs \ {s} : pc'[p] = pc[p] /\ call'[p] = call[p]
      BY <1>2, <1>3, <1>4, <2>1, <2>2
    <2>4. ServerOK(s)' BY <1>1, <1>3, <2>1, <2>2, <2>3 DEF ServerOK, Up
    <2>5. Elsewhere(s) BY <1>2, <2>1, <2>3 DEF Elsewhere
    <2>6. starts'[s] >= starts[s] BY <1>1, <2>1
    <2> QED BY <1>1, <2>1, <2>3, <2>4, <2>5, <2>6, OneServer
  <1>10. CASE CallKills(s)
    <2>1. /\ call' = [call EXCEPT ![s] = "none"] /\ call[s] \in {"cut", "pipe"}
          /\ UNCHANGED <<clientVars, metaUp, metaStarts, stuck, named, record, node, starts, stray>>
      BY <1>10 DEF CallKills
    <2>2. Up(s) /\ stray[s] < starts[s] BY <1>1, <2>1 DEF Up
    <2>3. PICK l \in {"down", "spin"} :
            /\ pc' = [pc EXCEPT ![s] = l]
            /\ fds' \in [Servers -> Nat] /\ armed' \in [Servers -> BOOLEAN]
            /\ fds'[s] \in {0, fds[s]}
            /\ \A o \in Servers \ {s} : fds'[o] = fds[o] /\ armed'[o] = armed[o]
      <3>1. CASE Goto(s, "spin") /\ UNCHANGED <<fds, armed>> BY <1>2, <3>1
      <3>2. CASE /\ Goto(s, IF s \in Servers THEN "down" ELSE "dead")
                 /\ fds' = [o \in Servers |-> IF o = s THEN 0 ELSE fds[o]]
                 /\ armed' = [o \in Servers |-> armed[o] /\ o # s]
        <4>1. pc' = [pc EXCEPT ![s] = "down"] BY <3>2
        <4>2. fds' \in [Servers -> Nat] /\ fds'[s] = 0 BY <1>2, <3>2
        <4>3. armed' \in [Servers -> BOOLEAN] BY <1>2, <3>2
        <4>4. \A o \in Servers \ {s} : fds'[o] = fds[o] BY <3>2
        <4>5. ASSUME NEW o \in Servers \ {s} PROVE armed'[o] = armed[o]
          <5>1. armed'[o] = (armed[o] /\ o # s) BY <3>2
          <5>2. armed[o] \in BOOLEAN /\ (o # s) = TRUE BY <1>2
          <5> QED BY <5>1, <5>2
        <4> QED BY <4>1, <4>2, <4>3, <4>4, <4>5
      <3> QED BY <1>10, <3>1, <3>2 DEF CallKills
    <2>4. l \in ServerPcs /\ l \notin {"first", "loop", "beat"} BY <1>3
    <2>5. /\ Functions' /\ pc'[s] = l /\ call'[s] = "none"
          /\ \A p \in Procs \ {s} : pc'[p] = pc[p] /\ call'[p] = call[p]
      BY <1>2, <1>3, <1>4, <2>1, <2>3, <2>4
    <2>6. ServerOK(s)' BY <1>1, <2>1, <2>2, <2>3, <2>4, <2>5 DEF ServerOK, Up
    <2>7. Elsewhere(s) BY <2>1, <2>3, <2>5 DEF Elsewhere
    <2>8. starts'[s] >= starts[s] BY <1>1, <2>1
    <2> QED BY <1>1, <2>1, <2>5, <2>6, <2>7, <2>8, OneServer
  <1>11. CASE StrayBeat(s)
    <2>1. /\ node' = s /\ stray[s] > 0 /\ stray' = [stray EXCEPT ![s] = stray[s] - 1]
          /\ UNCHANGED <<clientVars, metaUp, metaStarts, stuck, named, record, pc, call, fds,
                         starts, armed>>
      BY <1>11 DEF StrayBeat
    <2>2. stray' \in [Servers -> Nat] /\ stray'[s] = stray[s] - 1 BY <1>1, <1>2, <2>1
    <2>3. Functions' BY <1>2, <2>1, <2>2 DEF Functions, clientVars
    <2>4. starts'[s] >= starts[s] /\ starts'[s] > 0 BY <1>1, <2>1
    <2>5. ServerOK(s)' BY <1>1, <2>1, <2>2 DEF ServerOK, Up
    <2>6. Elsewhere(s) BY <1>2, <2>1 DEF Elsewhere
    <2> QED BY <1>1, <2>1, <2>3, <2>4, <2>5, <2>6, OneServer
  <1> QED BY <1>5, <1>6, <1>7, <1>8, <1>9, <1>10, <1>11 DEF AnyServer, ServerStep

\* The meta server dies or comes back.
LEMMA MetaType == ASSUME TypeInv, MetaDies \/ MetaRestarts PROVE TypeInv'
  <1>1. CASE MetaDies
    <2> USE <1>1 DEF MetaDies
    <2>1. ASSUME NEW p \in Procs
          PROVE  call'[p] \in Results \ {"sent"} /\ (call'[p] # "none" <=> call[p] # "none")
      <3>1. call[p] \in Results BY DEF TypeInv, Functions
      <3>2. call'[p] \in Outcomes(p) OBVIOUS
      <3>3. CASE call[p] = "sent"
        <4>1. Outcomes(p) = {"error", "eof", "pipe"} BY <3>3, ServiceAssumption DEF Outcomes
        <4> QED BY <3>2, <3>3, <4>1 DEF Results
      <3>4. CASE call[p] \in {"ok", "error"} \cup Servers
        BY <3>2, <3>4, ServiceAssumption DEF Outcomes, Results
      <3>5. CASE call[p] \notin {"sent", "ok", "error"} \cup Servers
        BY <3>1, <3>2, <3>5 DEF Outcomes
      <3> QED BY <3>3, <3>4, <3>5
    <2>2. Functions'
      <3>1. call' \in [Procs -> Results]
        <4>1. call' \in [Procs -> UNION {Outcomes(p) : p \in Procs}] OBVIOUS
        <4> QED BY <2>1, <4>1
      <3>2. stray' \in [Servers -> Nat] OBVIOUS
      <3> QED BY <3>1, <3>2 DEF TypeInv, Functions, clientVars
    <2>3. MetaOK' BY DEF TypeInv, MetaOK
    <2>4. ASSUME NEW s \in Servers PROVE ServerOK(s)'
      <3>1. ServerOK(s) /\ starts[s] \in Nat /\ stray[s] \in Nat BY DEF TypeInv, Functions
      <3>2. stray'[s] = 0 OBVIOUS
      <3>3. Up(s)' <=> Up(s) BY DEF Up
      <3> QED BY <2>1, <3>1, <3>2, <3>3, TwoKinds DEF ServerOK
    <2>5. ASSUME NEW c \in Clients PROVE ClientOK(c)'
      <3>1. ClientOK(c) BY DEF TypeInv
      <3> QED BY <2>1, <3>1, TwoKinds DEF ClientOK, clientVars
    <2> QED BY <2>2, <2>3, <2>4, <2>5 DEF TypeInv
  <1>2. CASE MetaRestarts
    <2> USE <1>2 DEF MetaRestarts, serverVars, clientVars
    <2>1. Functions' BY DEF TypeInv, Functions
    <2>2. MetaOK'
      <3>1. metaStarts' \in 1 .. MaxMetaStarts BY ServiceAssumption DEF TypeInv, MetaOK
      <3> QED BY <3>1 DEF TypeInv, MetaOK
    <2>3. \A s \in Servers : ServerOK(s)' BY DEF TypeInv, ServerOK, Up
    <2>4. \A c \in Clients : ClientOK(c)' BY DEF TypeInv, ClientOK
    <2> QED BY <2>1, <2>2, <2>3, <2>4 DEF TypeInv
  <1> QED BY <1>1, <1>2

\* A step of one client, or of a server for it, leaves the other processes alone.
LEMMA OneClient ==
  ASSUME TypeInv, NEW c \in Clients,
         UNCHANGED <<metaUp, metaStarts, stuck, node, serverVars>>,
         named' \in BOOLEAN, record' \in {"none", "file", "object"},
         NEW l \in ClientPcs, pc' = [pc EXCEPT ![c] = l],
         NEW r \in Results, call' = [call EXCEPT ![c] = r],
         r # "none" <=> l \in Calling,
         meta' \in [Clients -> {"none", "record"}],
         link' \in [Clients -> (Servers \cup {None}) \X Nat],
         NEW w \in 0 .. MaxWrites, writes' = [writes EXCEPT ![c] = w],
         NEW o \in 0 .. MaxWrites, off' = [off EXCEPT ![c] = o],
         o <= w, l \in Writing => o < w
  PROVE  TypeInv'
  <1> USE DEF TypeInv, serverVars
  <1>1. c \in Procs /\ \A s \in Servers : s \in Procs /\ s # c BY TwoKinds
  <1>2. Functions'
    <2>1. pc' \in [Procs -> ServerPcs \cup ClientPcs] /\ call' \in [Procs -> Results]
      BY <1>1 DEF Functions
    <2>2. writes' \in [Clients -> 0 .. MaxWrites] /\ off' \in [Clients -> 0 .. MaxWrites]
      BY DEF Functions
    <2> QED BY <2>1, <2>2 DEF Functions
  <1>3. MetaOK' BY DEF MetaOK
  <1>4. ASSUME NEW s \in Servers PROVE ServerOK(s)'
    <2>1. pc'[s] = pc[s] /\ call'[s] = call[s] BY <1>1 DEF Functions
    <2> QED BY <2>1 DEF ServerOK, Up
  <1>5. ASSUME NEW d \in Clients PROVE ClientOK(d)'
    <2>1. d \in Procs BY TwoKinds
    <2>2. CASE d = c
      <3>1. pc'[c] = l /\ call'[c] = r /\ writes'[c] = w /\ off'[c] = o
        BY <1>1 DEF Functions
      <3> QED BY <2>2, <3>1 DEF ClientOK
    <2>3. CASE d # c
      <3>1. pc'[d] = pc[d] /\ call'[d] = call[d] /\ writes'[d] = writes[d] /\ off'[d] = off[d]
        BY <2>1, <2>3 DEF Functions
      <3> QED BY <3>1 DEF ClientOK
    <2> QED BY <2>2, <2>3
  <1> QED BY <1>2, <1>3, <1>4, <1>5

\* pomme_open and pomme_write, with the handlers they call.
LEMMA ClientType ==
  ASSUME TypeInv, NEW c \in Clients,
         \/ \E create \in BOOLEAN : Open(c, create)
         \/ Write(c) \/ ClientStep(c)
  PROVE  TypeInv'
  <1> USE DEF Goto, Ends, Dial, Failed, NoLink, metaVars, serverVars, clientVars
  <1>1. /\ c \in Procs /\ pc[c] \in ClientPcs /\ call[c] \in Results
        /\ writes[c] \in 0 .. MaxWrites /\ off[c] \in 0 .. MaxWrites /\ MaxWrites \in Nat
        /\ off[c] <= writes[c] /\ (pc[c] \in Writing => off[c] < writes[c])
        /\ (call[c] # "none" <=> pc[c] \in Calling)
        /\ named \in BOOLEAN /\ record \in {"none", "file", "object"}
        /\ meta \in [Clients -> {"none", "record"}]
        /\ link \in [Clients -> (Servers \cup {None}) \X Nat]
    BY TwoKinds, ServiceAssumption DEF TypeInv, ClientOK, Functions, MetaOK
  <1>2. /\ pc = [pc EXCEPT ![c] = pc[c]] /\ call = [call EXCEPT ![c] = call[c]]
        /\ writes = [writes EXCEPT ![c] = writes[c]] /\ off = [off EXCEPT ![c] = off[c]]
    BY <1>1, SameKept DEF TypeInv, Functions
  <1>3. {"none", "sent", "ok", "error", "refused"} \subseteq Results BY DEF Results
  <1>4. ASSUME NEW create \in BOOLEAN, Open(c, create) PROVE TypeInv'
    <2>1. PICK l \in {"inode", "inode_create"}, r \in {"sent", "refused"} :
            pc' = [pc EXCEPT ![c] = l] /\ call' = [call EXCEPT ![c] = r]
      BY <1>4 DEF Open, Asked
    <2>2. l \in ClientPcs /\ l \in Calling /\ l \notin Writing /\ r # "none"
      BY DEF ClientPcs, Calling, Opening, Writing
    <2>3. UNCHANGED <<metaVars, serverVars, clientVars>> BY <1>4 DEF Open
    <2> QED BY <1>1, <1>2, <1>3, <2>1, <2>2, <2>3, OneClient
  <1>5. CASE Write(c)
    <2>1. PICK w \in 0 .. MaxWrites : w = writes[c] + 1 BY <1>1, <1>5 DEF Write
    <2>2. writes' = [writes EXCEPT ![c] = w] BY <1>5, <2>1 DEF Write
    <2>3. off[c] < w BY <1>1, <2>1
    <2>4. call[c] = "none" BY <1>1, <1>5 DEF Write, Calling, Opening
    <2>5. PICK l \in {"get_ds", "dead"}, r \in {"none", "sent", "refused"} :
            /\ pc' = [pc EXCEPT ![c] = l] /\ call' = [call EXCEPT ![c] = r]
            /\ l = "get_ds" <=> r # "none"
      <3>1. CASE UNCHANGED call BY <1>2, <1>5, <2>4, <3>1 DEF Write
      <3>2. CASE Dial(c) /\ Goto(c, "get_ds") BY <1>5, <3>2 DEF Write
      <3>3. CASE UNCHANGED call /\ Goto(c, "dead") BY <1>2, <1>5, <2>4, <3>3 DEF Write
      <3> QED BY <1>5, <3>2, <3>3 DEF Write
    <2>6. /\ l \in ClientPcs /\ r \in Results
          /\ (r # "none" <=> l \in Calling)
      BY <1>3, <2>5 DEF ClientPcs, Calling, Opening, Writing
    <2>7. UNCHANGED <<metaVars, serverVars, meta, off, link>> BY <1>5 DEF Write
    <2>8. off[c] <= w BY <1>1, <2>1
    <2> QED BY <1>1, <1>2, <2>2, <2>3, <2>5, <2>6, <2>7, <2>8, OneClient
  <1>6. CASE OpenCall(c)
    <2>1. PICK r \in {"ok", "error"} : call' = [call EXCEPT ![c] = r]
      <3>1. pc[c] \in {"inode_create", "inode", "create", "read"} BY <1>6 DEF OpenCall, Opening
      <3>2. CASE pc[c] = "inode"
        <4>1. Ends(c, IF named THEN "ok" ELSE "error") BY <1>6, <3>2, Zenon DEF OpenCall
        <4> QED BY <4>1
      <3>3. CASE pc[c] = "inode_create"
        <4>1. Ends(c, "ok") BY <1>6, <3>3 DEF OpenCall
        <4> QED BY <4>1
      <3>4. CASE pc[c] = "create"
        <4>1. Ends(c, IF record = "none" THEN "ok" ELSE "error") BY <1>6, <3>4 DEF OpenCall
        <4> QED BY <4>1
      <3>5. CASE pc[c] = "read"
        <4>1. Ends(c, IF record = "none" THEN "error" ELSE "ok") BY <1>6, <3>5 DEF OpenCall
        <4> QED BY <4>1
      <3> QED BY <3>1, <3>2, <3>3, <3>4, <3>5
    <2>2. /\ named' \in BOOLEAN /\ record' \in {"none", "file", "object"}
          /\ UNCHANGED <<metaUp, metaStarts, stuck, node, pc, serverVars, clientVars>>
          /\ pc[c] \in Opening
      BY <1>1, <1>6 DEF OpenCall
    <2>3. r # "none" /\ r \in Results /\ pc[c] \in Calling BY <1>3, <2>2 DEF Calling
    <2> QED BY <1>1, <1>2, <2>1, <2>2, <2>3, OneClient
  <1>7. CASE GetDs(c)
    <2>1. PICK r \in Servers \cup {"error"} : call' = [call EXCEPT ![c] = r]
      BY <1>7 DEF GetDs, TypeInv, MetaOK
    <2>2. r # "none" /\ r \in Results BY ServiceAssumption DEF Results
    <2>3. UNCHANGED <<metaVars, pc, serverVars, clientVars>> /\ pc[c] \in Calling
      BY <1>7 DEF GetDs, Calling
    <2> QED BY <1>1, <1>2, <2>1, <2>2, <2>3, OneClient
  <1>8. CASE WriteFile(c)
    <2>1. /\ call' = [call EXCEPT ![c] = "ok"] /\ record' = "object" /\ pc[c] = "enter"
          /\ UNCHANGED <<metaUp, metaStarts, stuck, node, named, pc, serverVars, clientVars>>
      BY <1>8 DEF WriteFile
    <2>2. /\ named' \in BOOLEAN /\ record' \in {"none", "file", "object"}
          /\ UNCHANGED <<metaUp, metaStarts, stuck, node, pc, serverVars, clientVars>>
      BY <1>1, <2>1
    <2>3. "ok" # "none" /\ "ok" \in Results /\ pc[c] \in Calling
      BY <1>3, <2>1 DEF Calling
    <2> QED BY <1>1, <1>2, <2>1, <2>2, <2>3, OneClient
  <1>9. CASE GotInode(c)
    <2>1. PICK l \in {"read", "create", "closed", "dead"}, r \in {"none", "sent", "refused"} :
            /\ pc' = [pc EXCEPT ![c] = l] /\ call' = [call EXCEPT ![c] = r]
            /\ r # "none" <=> l \in {"read", "create"}
      <3>1. CASE Goto(c, IF pc[c] = "inode" THEN "read" ELSE "create") /\ Dial(c)
        <4>1. PICK l \in {"read", "create"} : pc' = [pc EXCEPT ![c] = l]
          BY <3>1, Zenon
        <4>2. PICK r \in {"sent", "refused"} : call' = [call EXCEPT ![c] = r]
          BY <3>1
        <4> QED BY <4>1, <4>2
      <3>2. CASE Goto(c, IF Failed(c) THEN "closed" ELSE "dead") /\ Ends(c, "none")
        <4>1. PICK l \in {"closed", "dead"} : pc' = [pc EXCEPT ![c] = l]
          BY <3>2, Zenon
        <4>2. call' = [call EXCEPT ![c] = "none"] BY <3>2
        <4> QED BY <4>1, <4>2
      <3> QED BY <1>9, <3>1, <3>2, Zenon DEF GotInode
    <2>2. /\ l \in ClientPcs /\ l \notin Writing /\ r \in Results
          /\ (r # "none" <=> l \in Calling)
      BY <1>3, <2>1 DEF ClientPcs, Calling, Opening, Writing
    <2>3. UNCHANGED <<metaVars, serverVars, clientVars>> BY <1>9 DEF GotInode
    <2> QED BY <1>1, <1>2, <2>1, <2>2, <2>3, OneClient
  <1>10. CASE Opened(c)
    <2>1. PICK l \in {"closed", "open"} :
            pc' = [pc EXCEPT ![c] = l] /\ call' = [call EXCEPT ![c] = "none"]
      BY <1>10 DEF Opened
    <2>2. l \in ClientPcs /\ l \notin Calling /\ l \notin Writing
      BY DEF ClientPcs, Calling, Opening, Writing
    <2>3. meta' \in [Clients -> {"none", "record"}] BY <1>1, <1>10 DEF Opened, NewMeta
    <2>4. off' = [off EXCEPT ![c] = 0] /\ UNCHANGED <<metaVars, serverVars, link, writes>>
      BY <1>10 DEF Opened
    <2>5. 0 <= writes[c] /\ 0 \in 0 .. MaxWrites BY <1>1
    <2> QED BY <1>1, <1>2, <1>3, <2>1, <2>2, <2>3, <2>4, <2>5, OneClient
  <1>11. CASE GotDs(c)
    <2>1. PICK l \in {"open", "connect"} :
            pc' = [pc EXCEPT ![c] = l] /\ call' = [call EXCEPT ![c] = "none"]
      BY <1>11 DEF GotDs
    <2>2. l \in ClientPcs /\ l \notin Calling
      BY DEF ClientPcs, Calling, Opening, Writing
    <2>3. link' \in [Clients -> (Servers \cup {None}) \X Nat]
      <3>1. CASE UNCHANGED link BY <1>1, <3>1
      <3>2. CASE /\ call[c] \in Servers \cup {"eof"}
                 /\ \E s \in Named(c) : link' = [link EXCEPT ![c] = <<s, 0>>]
        <4>1. PICK s \in Servers \cup {None} : link' = [link EXCEPT ![c] = <<s, 0>>]
          BY <3>2 DEF Named
        <4> QED BY <1>1, <4>1
      <3> QED BY <1>11, <3>1, <3>2 DEF GotDs
    <2>4. UNCHANGED <<metaVars, serverVars, meta, off, writes>> /\ pc[c] = "get_ds"
      BY <1>11 DEF GotDs
    <2>5. off[c] < writes[c] BY <1>1, <2>4 DEF Writing
    <2> QED BY <1>1, <1>2, <1>3, <2>1, <2>2, <2>3, <2>4, <2>5, OneClient
  <1>12. CASE Connect(c)
    <2>1. PICK l \in {"open", "send", "send_large"} : pc' = [pc EXCEPT ![c] = l]
      BY <1>12 DEF Connect, Sending
    <2>2. l \in ClientPcs /\ l \notin Calling
      BY DEF ClientPcs, Calling, Opening, Writing
    <2>3. link' \in [Clients -> (Servers \cup {None}) \X Nat]
      <3>1. CASE \E s \in Servers : link' = [link EXCEPT ![c] = <<s, starts[s]>>]
        <4>1. \A s \in Servers : starts[s] \in Nat BY DEF TypeInv, Functions
        <4> QED BY <1>1, <3>1, <4>1
      <3>2. CASE NoLink(c) BY <1>1, <3>2
      <3> QED BY <1>12, <3>1, <3>2 DEF Connect, Up
    <2>4. UNCHANGED <<metaVars, call, serverVars, meta, off, writes>> /\ pc[c] = "connect"
      BY <1>12 DEF Connect
    <2>5. off[c] < writes[c] /\ call[c] = "none" BY <1>1, <2>4 DEF Writing, Calling, Opening
    <2> QED BY <1>1, <1>2, <1>3, <2>1, <2>2, <2>3, <2>4, <2>5, OneClient
  <1>13. CASE Send(c)
    <2>0. pc[c] \in {"send", "send_large"} BY <1>13 DEF Send, Sending
    <2>5. off[c] < writes[c] /\ call[c] = "none" BY <1>1, <2>0 DEF Writing, Calling, Opening
    <2>1. PICK l \in {"open", "dead", "enter"}, r \in {"none", "sent", "refused"} :
            /\ pc' = [pc EXCEPT ![c] = l] /\ call' = [call EXCEPT ![c] = r]
            /\ r # "none" <=> l = "enter"
      <3>1. CASE Goto(c, "enter") /\ Dial(c) BY <3>1
      <3>2. CASE Goto(c, "open") /\ UNCHANGED call BY <1>2, <2>5, <3>2
      <3>3. CASE Goto(c, "dead") /\ UNCHANGED call BY <1>2, <2>5, <3>3
      <3> QED BY <1>13, <3>1, <3>2, <3>3 DEF Send
    <2>2. /\ l \in ClientPcs /\ r \in Results
          /\ (r # "none" <=> l \in Calling)
      BY <1>3, <2>1 DEF ClientPcs, Calling, Opening, Writing
    <2>3. link' \in [Clients -> (Servers \cup {None}) \X Nat] BY <1>1, <1>13 DEF Send
    <2>4. UNCHANGED <<metaVars, serverVars, meta, off, writes>> BY <1>13 DEF Send
    <2> QED BY <1>1, <1>2, <2>1, <2>2, <2>3, <2>4, <2>5, OneClient
  <1>14. CASE Written(c)
    <2>1. /\ pc' = [pc EXCEPT ![c] = "open"] /\ call' = [call EXCEPT ![c] = "none"]
          /\ UNCHANGED <<metaVars, serverVars, meta, link, writes>> /\ pc[c] = "enter"
      BY <1>14 DEF Written
    <2>2. off[c] < writes[c] BY <1>1, <2>1 DEF Writing
    <2>3. PICK o \in 0 .. MaxWrites : o <= writes[c] /\ off' = [off EXCEPT ![c] = o]
      <3>1. CASE UNCHANGED off BY <1>1, <1>2, <3>1
      <3>2. CASE off' = [off EXCEPT ![c] = off[c] + 1]
        <4>1. PICK o \in 0 .. MaxWrites : o = off[c] + 1 /\ o <= writes[c] BY <1>1, <2>2
        <4> QED BY <3>2, <4>1
      <3> QED BY <1>14, <3>1, <3>2 DEF Written
    <2>4. "open" \in ClientPcs /\ "open" \notin Calling
          /\ "open" \notin Writing
      BY DEF ClientPcs, Calling, Opening, Writing
    <2> QED BY <1>1, <1>2, <1>3, <2>1, <2>3, <2>4, OneClient
  <1>15. CASE CallKills(c)
    <2>1. PICK l \in {"spin", "dead"} : pc' = [pc EXCEPT ![c] = l]
      BY <1>15, TwoKinds DEF CallKills
    <2>2. l \in ClientPcs /\ l \notin Calling /\ l \notin Writing
      BY DEF ClientPcs, Calling, Opening, Writing
    <2>3. \A s \in Servers : s # c BY TwoKinds
    <2>4. UNCHANGED <<fds, armed>>
      <3>1. CASE UNCHANGED <<fds, armed>> BY <3>1
      <3>2. CASE /\ fds' = [s \in Servers |-> IF s = c THEN 0 ELSE fds[s]]
                 /\ armed' = [s \in Servers |-> armed[s] /\ s # c]
        <4>1. fds' = fds BY <2>3, <3>2 DEF TypeInv, Functions
        <4>2. armed' = armed BY <2>3, <3>2 DEF TypeInv, Functions
        <4> QED BY <4>1, <4>2
      <3> QED BY <1>15, <3>1, <3>2 DEF CallKills
    <2>5. /\ call' = [call EXCEPT ![c] = "none"]
          /\ UNCHANGED <<metaVars, serverVars, clientVars>>
      BY <1>15, <2>4 DEF CallKills
    <2> QED BY <1>1, <1>2, <1>3, <2>1, <2>2, <2>5, OneClient
  <1> QED BY <1>4, <1>5, <1>6, <1>7, <1>8, <1>9, <1>10, <1>11, <1>12, <1>13, <1>14, <1>15
          DEF ClientStep

LEMMA TypeStep == TypeInv /\ [Next]_vars => TypeInv'
  <1> SUFFICES ASSUME TypeInv, [Next]_vars PROVE TypeInv' OBVIOUS
  <1>1. CASE UNCHANGED vars
    BY <1>1 DEF vars, metaVars, serverVars, clientVars, TypeInv, Functions, MetaOK, ServerOK,
                ClientOK, Up
  <1> QED BY <1>1, ServerType, MetaType, ClientType DEF Next, AnyServer

-----------------------------------------------------------------------------
(* The theorems.                                                           *)

\* Every variable keeps its type with any number of servers and clients: a
\* client has a call under way exactly where it made one, a data server that is
\* in its loop has a timer, and the record of key 0 names a server that was
\* started.
THEOREM TypeCorrect == Spec => []TypeOK
  <1>1. TypeInv => TypeOK
    BY TwoKinds, ServiceAssumption
    DEF TypeInv, TypeOK, Functions, MetaOK, ServerOK, ClientOK, ServerPcs, ClientPcs, Results
  <1> QED BY <1>1, TypeInit, TypeStep, PTL DEF Spec

\* The meta server enters no object before pomme_client_put_data ended with
\* success for it, whichever servers die (pomme_write).
THEOREM PutBeforeEntered == Spec => []EnteredAfterPut
  BY Always, PTL DEF FileInv

\* A write that pomme_write reported was entered, but for the one the meta
\* server died in.
THEOREM AckEntered == Spec => []AckedEntered
  BY Always, PTL DEF FileInv

\* The writes reported to a handle cover its file from 0 to its offset, one at
\* each place, whatever failed between them.
THEOREM Tiles == Spec => []WritesTile
  <1>1. FileInv => WritesTile
    <2> SUFFICES ASSUME FileInv, NEW c \in Clients
                 PROVE LET mine == {a \in acked : a.by = c}
                       IN /\ {a.off : a \in mine} = 0 .. off[c] - 1
                          /\ \A a, b \in mine : a.off = b.off => a.n = b.n
      BY DEF WritesTile
    <2>1. Tile(c) BY DEF FileInv, ClientInv
    <2> QED BY <2>1 DEF Tile
  <1> QED BY <1>1, Always, PTL

=============================================================================
