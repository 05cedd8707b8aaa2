----------------------------- MODULE RpcServer -----------------------------
(***************************************************************************)
(* One RPC server and its callers: rpc/pomme_rpcs.c, rpc/pomme_rpc.c,      *)
(* rpc/pomme_rpcc.c, over the worker pool of ThreadPool.                   *)
(*                                                                         *)
(* The main thread takes the events of epoll_wait one by one.  It          *)
(* accepts a connection and arms it with EPOLLONESHOT, or reads the        *)
(* function name from a connection that fired and queues a worker for it;  *)
(* the read blocks until the caller has sent the name.  A pool thread      *)
(* reads the arguments, executes the function, writes the answer and       *)
(* closes the connection.  The main thread is the pool's owner: its pool   *)
(* operations are the actions of ThreadPool.                               *)
(*                                                                         *)
(* A caller opens one connection per call, sends size, name and arguments  *)
(* and reads one answer.  It never closes the connection, and it does not  *)
(* look at its time_out.  An item of the stream is delivered whole.        *)
(***************************************************************************)
EXTENDS Integers, Sequences, FiniteSets

CONSTANTS
  Calls,       \* the calls made, each with a connection of its own
  Known,       \* those that name a registered function
  Fitting,     \* those of them whose arguments have the registered sizes
  NumFds,      \* the descriptors the server can have open for connections
  MaxThreads, InitThreads, MaxWaiting, Pill,   \* see ThreadPool
  None         \* no call, no descriptor, no answer

ASSUME RpcAssumption ==
  /\ Known \subseteq Calls /\ Fitting \subseteq Known
  /\ NumFds \in Nat \ {0}
  /\ None \notin Calls /\ None \notin Int
  /\ MaxThreads \in Nat /\ InitThreads \in 0 .. MaxThreads /\ MaxWaiting \in Nat
  /\ Pill \notin Calls

Fds == 0 .. NumFds - 1

VARIABLES
  queue, sem, finished, tids, cur, owner, idx, pc, work,
  accepted, rejected, done, dropped, freed,      \* of the pool
  client,    \* where the caller of each call is in sync_call
  unread,    \* per call: the items sent and not read by the server
  answer,    \* per call: what was written for the caller, or None
  sock,      \* descriptor -> the call of its connection, or None
  fdOf,      \* call -> conn_sock: the descriptor accept returned, or None
  armed,     \* descriptors whose EPOLLONESHOT has not fired
  mainPc,    \* "wait" in epoll_wait, "name" in read_data, "push" in add_worker
  hand,      \* the descriptor handle_request works on, or None
  stage      \* how far the worker of each call is

poolVars == <<queue, sem, finished, tids, cur, owner, idx, pc, work,
              accepted, rejected, done, dropped, freed>>
netVars  == <<client, unread, answer>>
sockVars == <<sock, fdOf>>
mainVars == <<armed, mainPc, hand>>
vars     == <<poolVars, netVars, sockVars, mainVars, stage>>

Pool == INSTANCE ThreadPool WITH Jobs <- Calls

Answers == {"ok", "unfind", "unmatch", "error", "reset"}

Init ==
  /\ Pool!Init
  /\ client = [c \in Calls |-> "idle"]
  /\ unread = [c \in Calls |-> <<>>]
  /\ answer = [c \in Calls |-> None]
  /\ sock = [f \in Fds |-> None]
  /\ fdOf = [c \in Calls |-> None]
  /\ armed = {} /\ mainPc = "wait" /\ hand = None
  /\ stage = [c \in Calls |-> "none"]

-----------------------------------------------------------------------------
(* The caller: sync_call.                                                  *)

IsClosed(c) == stage[c] = "closed"

\* create_client: the connection waits in the listen queue.
Connect(c) ==
  /\ client[c] = "idle" /\ owner # "start"
  /\ client' = [client EXCEPT ![c] = "size"]
  /\ UNCHANGED <<poolVars, unread, answer, sockVars, mainVars, stage>>

\* write_data of the function name (a length, then the bytes) and then
\* pomme_rpc_write of the arguments, which is several writes.  The first one to
\* a closed connection brings a reset, which may discard an unread answer; one
\* more ends the caller (SIGPIPE, or the assertion of write_data).
Send(c) ==
  \E step \in {<<"size", "name">>, <<"name", "args">>, <<"args", "waiting">>} :
    /\ client[c] = step[1]
    /\ \/ /\ ~IsClosed(c)
          /\ client' = [client EXCEPT ![c] = step[2]]
          /\ unread' = [unread EXCEPT ![c] = Append(@, step[1])]
          /\ UNCHANGED answer
       \/ /\ IsClosed(c)
          /\ client' = [client EXCEPT ![c] = step[2]]
          /\ \E a \in {answer[c], "reset"} : answer' = [answer EXCEPT ![c] = a]
          /\ UNCHANGED unread
       \/ /\ IsClosed(c)
          /\ client' = [client EXCEPT ![c] = "dead"]
          /\ UNCHANGED <<unread, answer>>
    /\ UNCHANGED <<poolVars, sockVars, mainVars, stage>>

\* read_data of the answer; a reset makes it return < 0.  There is no timeout.
Receive(c) ==
  /\ client[c] = "waiting" /\ answer[c] # None
  /\ client' = [client EXCEPT ![c] = "done"]
  /\ UNCHANGED <<poolVars, unread, answer, sockVars, mainVars, stage>>

-----------------------------------------------------------------------------
(* The main thread: start and handle_request.                              *)

\* thread_pool.start, before create_server.
StartPool ==
  /\ Pool!CreateThread \/ Pool!SpareRank \/ Pool!StartReturns
  /\ UNCHANGED <<netVars, sockVars, mainVars, stage>>

InEpollWait == owner = "serve" /\ mainPc = "wait"

Pending(c) == client[c] # "idle" /\ fdOf[c] = None

\* Mutant of Accept: the -1 of a failed accept is added to epoll.
AcceptUnchecked(c) ==
  /\ InEpollWait /\ Pending(c)
  /\ \/ /\ \E f \in Fds :
             /\ sock[f] = None /\ \A g \in Fds : sock[g] = None => f <= g
             /\ sock' = [sock EXCEPT ![f] = c]
             /\ fdOf' = [fdOf EXCEPT ![c] = f]
             /\ armed' = armed \cup {f}
     \/ /\ \A f \in Fds : sock[f] # None
        /\ armed' = armed \cup {-1}
        /\ UNCHANGED <<sock, fdOf>>
  /\ UNCHANGED <<poolVars, netVars, mainPc, hand, stage>>

\* accept returns the lowest free descriptor; with none free it fails and the
\* level-triggered listen socket is reported again.
Accept(c) ==
  /\ InEpollWait /\ Pending(c)
  /\ \E f \in Fds :
       /\ sock[f] = None /\ \A g \in Fds : sock[g] = None => f <= g
       /\ sock' = [sock EXCEPT ![f] = c]
       /\ fdOf' = [fdOf EXCEPT ![c] = f]
       /\ armed' = armed \cup {f}
  /\ UNCHANGED <<poolVars, netVars, mainPc, hand, stage>>

\* Mutant of Event: no EPOLLONESHOT, the connection stays armed.
EventStaysArmed(f) ==
  /\ InEpollWait
  /\ f \in armed /\ unread[sock[f]] # <<>>
  /\ hand' = f /\ mainPc' = "name"
  /\ unread' = [unread EXCEPT ![sock[f]] = Tail(@)]
  /\ UNCHANGED <<poolVars, client, answer, sockVars, armed, stage>>

\* epoll reports an armed connection with data and disarms it; read_data
\* takes the length of the name.
Event(f) ==
  /\ InEpollWait
  /\ f \in armed /\ unread[sock[f]] # <<>>
  /\ armed' = armed \ {f}
  /\ hand' = f /\ mainPc' = "name"
  /\ unread' = [unread EXCEPT ![sock[f]] = Tail(@)]
  /\ UNCHANGED <<poolVars, client, answer, sockVars, stage>>

\* The rest of read_data: it blocks until the name has arrived.
ReadName ==
  /\ mainPc = "name" /\ unread[sock[hand]] # <<>>
  /\ mainPc' = "push"
  /\ unread' = [unread EXCEPT ![sock[hand]] = Tail(@)]
  /\ UNCHANGED <<poolVars, client, answer, sockVars, armed, hand, stage>>

\* Mutant of PushWorker: handle_request closes the connection on its way out.
PushWorkerCloses ==
  /\ mainPc = "push"
  /\ LET c == sock[hand] IN
     /\ Pool!Submit(c)
     /\ stage' = [stage EXCEPT ![c] = IF c \in rejected' THEN "refused" ELSE "queued"]
  /\ sock' = [sock EXCEPT ![hand] = None]
  /\ mainPc' = "wait" /\ hand' = None
  /\ UNCHANGED <<netVars, fdOf, armed>>

\* add_worker.  When the pool is full, worker, argument and name are freed
\* and the connection is left as it is: open, disarmed, and nobody's.
PushWorker ==
  /\ mainPc = "push"
  /\ LET c == sock[hand] IN
     /\ Pool!Submit(c)
     /\ stage' = [stage EXCEPT ![c] = IF c \in rejected' THEN "refused" ELSE "queued"]
  /\ mainPc' = "wait" /\ hand' = None
  /\ UNCHANGED <<netVars, sockVars, armed>>

PostWorker ==
  /\ Pool!Post
  /\ UNCHANGED <<netVars, sockVars, mainVars, stage>>

-----------------------------------------------------------------------------
(* A pool thread.                                                          *)

Dequeue(r) ==
  /\ Pool!SemWait(r) \/ Pool!Take(r)
  /\ UNCHANGED <<netVars, sockVars, mainVars, stage>>

\* The thread of rank r is at step s of thread_call for the call c.
Runs(r, c, s) == pc[r] = "run" /\ work[r] = c /\ stage[c] = s

\* The connection thread_call finds behind param->conn.
Peer(c) == sock[fdOf[c]]

\* Mutant of ReadArgs: the function runs without reading its arguments.
ReadArgsSkipped(r, c) ==
  /\ Runs(r, c, "queued") /\ c \in Known
  /\ unread[Peer(c)] # <<>>
  /\ stage' = [stage EXCEPT ![c] = "executing"]
  /\ UNCHANGED <<poolVars, netVars, sockVars, mainVars>>

\* call finds the function and pomme_rpc_read reads the arguments; when they
\* do not match the registered ones, call answers that and is done.
ReadArgs(r, c) ==
  /\ Runs(r, c, "queued") /\ c \in Known
  /\ unread[Peer(c)] # <<>>
  /\ unread' = [unread EXCEPT ![Peer(c)] = Tail(@)]
  /\ stage' = [stage EXCEPT ![c] = IF c \in Fitting THEN "executing" ELSE "unfit"]
  /\ UNCHANGED <<poolVars, client, answer, sockVars, mainVars>>

\* write_data of an answer.
Write(c, a) ==
  /\ answer' = [answer EXCEPT ![Peer(c)] = a]
  /\ stage' = [stage EXCEPT ![c] = "answered"]
  /\ UNCHANGED <<poolVars, client, unread, sockVars, mainVars>>

\* The name is not registered: POMME_UNFIND_FUNC, the arguments stay unread.
Unfound(r, c) == Runs(r, c, "queued") /\ c \notin Known /\ Write(c, "unfind")

\* pomme_rpc_read returned POMME_UNMATCH_ARGU_NUM or _TYPE.
Unfit(r, c) == Runs(r, c, "unfit") /\ Write(c, "unmatch")

\* Mutant of Execute: a function that returned NULL is not answered.
ExecuteSilent(r, c) ==
  /\ Runs(r, c, "executing")
  /\ \/ Write(c, "ok")
     \/ /\ stage' = [stage EXCEPT ![c] = "answered"]
        /\ UNCHANGED <<poolVars, netVars, sockVars, mainVars>>

\* The function returned its answer, or NULL: POMME_ERROR_EXE.
Execute(r, c) == Runs(r, c, "executing") /\ \E a \in {"ok", "error"} : Write(c, a)

\* close(param->conn); with bytes unread the peer is reset, and may lose the
\* answer.
CloseConn(r, c) ==
  /\ Runs(r, c, "answered")
  /\ \/ UNCHANGED answer
     \/ /\ unread[Peer(c)] # <<>>
        /\ answer' = [answer EXCEPT ![Peer(c)] = "reset"]
  /\ sock' = [sock EXCEPT ![fdOf[c]] = None]
  /\ stage' = [stage EXCEPT ![c] = "closed"]
  /\ UNCHANGED <<poolVars, client, unread, fdOf, mainVars>>

FinishWorker(r, c) ==
  /\ Runs(r, c, "closed")
  /\ Pool!Finish(r)
  /\ UNCHANGED <<netVars, sockVars, mainVars, stage>>

-----------------------------------------------------------------------------
Client(c) == Connect(c) \/ Send(c) \/ Receive(c)

Main ==
  \/ StartPool \/ ReadName \/ PushWorker \/ PostWorker
  \/ \E c \in Calls : Accept(c)
  \/ \E f \in Fds : Event(f)

Worker(r) ==
  \/ Dequeue(r)
  \/ \E c \in Calls : \/ ReadArgs(r, c) \/ Unfound(r, c) \/ Unfit(r, c) \/ Execute(r, c)
                      \/ CloseConn(r, c) \/ FinishWorker(r, c)

Next ==
  \/ \E c \in Calls : Client(c)
  \/ Main
  \/ \E r \in Pool!Ranks : Worker(r)

Spec == Init /\ [][Next]_vars

\* A caller inside sync_call goes on sending and reads its answer; the
\* scheduler runs the main thread and each pool thread; functions return.
\* The accept queue is served in turn with the connections, so that no armed
\* connection and no pending one waits for ever.
FairSpec ==
  /\ Spec
  /\ \A c \in Calls : WF_vars(Send(c) \/ Receive(c)) /\ SF_vars(Accept(c))
  /\ \A f \in Fds : SF_vars(Event(f))
  /\ WF_vars(StartPool \/ ReadName \/ PushWorker \/ PostWorker)
  /\ \A r \in Pool!Ranks : WF_vars(Worker(r))

-----------------------------------------------------------------------------
(* Properties.                                                             *)

\* Type invariant: what each variable of the server and its callers can hold.
TypeOK ==
  /\ client \in [Calls -> {"idle", "size", "name", "args", "waiting", "done", "dead"}]
  /\ unread \in [Calls -> Seq({"size", "name", "args"})]
  /\ answer \in [Calls -> Answers \cup {None}]
  /\ sock \in [Fds -> Calls \cup {None}]
  /\ fdOf \in [Calls -> Fds \cup {None}]
  /\ armed \subseteq Fds
  /\ mainPc \in {"wait", "name", "push"} /\ hand \in Fds \cup {None}
  /\ stage \in [Calls -> {"none", "queued", "refused", "executing", "unfit",
                          "answered", "closed"}]

InPool(c) ==
  \/ \E i \in DOMAIN queue : queue[i] = c
  \/ \E r \in Pool!Ranks : pc[r] = "run" /\ work[r] = c /\ stage[c] # "closed"

\* One party at a time reads a connection: it is armed in epoll, or in the
\* hands of the main thread, or in the pool, and never two of these, although
\* the arguments arrive while its worker is queued or running.
OneReader ==
  \A f \in Fds : sock[f] # None =>
    /\ ~(f \in armed /\ f = hand)
    /\ ~(f \in armed /\ InPool(sock[f]))
    /\ ~(f = hand /\ InPool(sock[f]))

\* A worker holds only the number of its descriptor, and numbers are reused:
\* until it closes it, that number still is the connection of its call.
DescriptorsStayMine ==
  \A c \in Calls :
    stage[c] \in {"queued", "executing", "unfit", "answered"} => Peer(c) = c

\* A caller is answered what its own call gives: POMME_UNFIND_FUNC only when
\* the function is not registered, POMME_UNMATCH_ARGU_* only when its arguments
\* do not fit.  Only the first of these can be lost to a reset.
AnswersFit ==
  \A c \in Calls :
    /\ c \in Fitting => answer[c] \in {None, "ok", "error"}
    /\ c \in Known \ Fitting => answer[c] \in {None, "unmatch"}
    /\ c \notin Known => answer[c] \in {None, "unfind", "reset"}

\* A call whose worker the pool accepted returns to its caller, if the caller
\* lives: only one that named no registered function may be ended by the
\* writes of its arguments.
AcceptedCallsReturn ==
  \A c \in Calls :
    stage[c] = "queued" ~> client[c] = "done" \/ (client[c] = "dead" /\ c \notin Known)

\* pomme_rpcc.h:40, "time_out: max time too wait for the response": sync_call
\* returns, whatever the server does with the request.
EveryCallReturns == \A c \in Calls : client[c] = "waiting" ~> client[c] = "done"

=============================================================================
