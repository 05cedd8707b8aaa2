-------------------------- MODULE RpcServerProofs --------------------------
(***************************************************************************)
(* RpcServer for every set of calls and every number of descriptors and of *)
(* pool threads: its type, one reader at a time for a connection, a        *)
(* worker's descriptor number that stays its call's, and answers that fit. *)
(*                                                                         *)
(* Nothing in the code ties a descriptor to the party that uses it.  The   *)
(* invariant does: a call is first in the kernel's and the main thread's   *)
(* hands, then in the queue, then with one pool thread, and its number     *)
(* becomes free only when that thread closes it.                           *)
(***************************************************************************)
EXTENDS RpcServer, TLAPS

\* The stages in which a pool thread works on a call.
Running == {"executing", "unfit", "answered", "closed"}

\* The pool of a server is never stopped, and it holds calls only.
PoolInv ==
  /\ owner \in {"start", "serve", "post"}
  /\ idx \in 0 .. MaxThreads
  /\ queue \in Seq(Calls)
  /\ pc \in [Pool!Ranks -> {"none", "wait", "take", "run"}]
  /\ DOMAIN work = Pool!Ranks
  /\ accepted \subseteq Calls /\ rejected \subseteq Calls

\* A descriptor and its call name each other; a number becomes free only when
\* its call is closed.
SockInv ==
  /\ \A f \in Fds : sock[f] # None => fdOf[sock[f]] = f
  /\ \A c \in Calls : fdOf[c] # None /\ stage[c] # "closed" => sock[fdOf[c]] = c
  /\ \A c \in Calls : fdOf[c] = None => stage[c] = "none"

\* What is armed, or in the main thread's hands, is a connection whose call
\* has not been handed to the pool.
MainInv ==
  /\ \A f \in armed : sock[f] # None /\ stage[sock[f]] = "none" /\ f # hand
  /\ (hand = None) = (mainPc = "wait")
  /\ hand # None => sock[hand] # None /\ stage[sock[hand]] = "none"

\* A call is in the queue once, or with one thread, and its stage says which.
PlaceInv ==
  /\ \A i \in 1 .. Len(queue) : stage[queue[i]] = "queued"
  /\ \A i, j \in 1 .. Len(queue) : queue[i] = queue[j] => i = j
  /\ \A r \in Pool!Ranks : pc[r] = "run" =>
       /\ work[r] \in Calls
       /\ stage[work[r]] \in Running \cup {"queued"}
       /\ \A i \in 1 .. Len(queue) : queue[i] # work[r]
       /\ \A q \in Pool!Ranks \ {r} : pc[q] = "run" => work[q] # work[r]

\* How many items the caller has sent, and the server has read.
SentBy(c) == IF client[c] \in {"idle", "size"} THEN 0
             ELSE IF client[c] = "name" THEN 1
             ELSE IF client[c] = "args" THEN 2
             ELSE 3

ReadOf(c) == IF stage[c] \in Running THEN (IF c \in Known THEN 3 ELSE 2)
             ELSE IF stage[c] \in {"queued", "refused"} THEN 2
             ELSE IF hand # None /\ fdOf[c] = hand
                  THEN (IF mainPc = "push" THEN 2 ELSE 1)
             ELSE 0

\* Until the connection is closed the stream holds what was sent and not read;
\* a registered call is closed with nothing left to come.
StreamOf(c) ==
  /\ stage[c] # "closed" => Len(unread[c]) = SentBy(c) - ReadOf(c)
  /\ stage[c] = "closed" /\ c \in Known => SentBy(c) = 3
  /\ fdOf[c] # None => client[c] # "idle"

StreamInv == \A c \in Calls : StreamOf(c)

\* The steps of thread_call are taken for the calls they are for.
StageInv ==
  \A c \in Calls :
    /\ stage[c] = "executing" => c \in Fitting
    /\ stage[c] = "unfit" => c \in Known \ Fitting

RpcInv == TypeOK /\ PoolInv /\ SockInv /\ MainInv /\ PlaceInv /\ StreamInv /\ StageInv
            /\ AnswersFit

-----------------------------------------------------------------------------

\* A step that leaves a call's own variables and the main thread alone leaves
\* its stream alone.
LEMMA Untouched ==
  ASSUME NEW d \in Calls, StreamOf(d),
         stage'[d] = stage[d], client'[d] = client[d], unread'[d] = unread[d],
         fdOf'[d] = fdOf[d], hand' = hand, mainPc' = mainPc
  PROVE  StreamOf(d)'
  BY DEF StreamOf, SentBy, ReadOf

\* A caller connects: nothing of the server changes.
LEMMA ConnectInv == ASSUME RpcInv, NEW c \in Calls, Connect(c) PROVE RpcInv'
  <1> USE RpcAssumption DEF RpcInv, poolVars, netVars, sockVars, mainVars
  <1>1. TypeOK' BY DEF Connect, TypeOK
  <1>2. PoolInv' BY DEF Connect, PoolInv
  <1>3. SockInv' BY DEF Connect, SockInv, TypeOK
  <1>4. MainInv' BY DEF Connect, MainInv, SockInv, TypeOK
  <1>5. PlaceInv' BY DEF Connect, PlaceInv, PoolInv, TypeOK, Running
  <1>6. StreamInv'
    <2>1. ASSUME NEW d \in Calls, d # c PROVE StreamOf(d)'
      BY <2>1, Untouched DEF Connect, StreamInv, TypeOK
    <2>2. ASSUME NEW d \in Calls, d = c PROVE StreamOf(d)'
      BY <2>2 DEF Connect, StreamInv, StreamOf, SentBy, ReadOf, SockInv, MainInv, Running, TypeOK
    <2> QED BY <2>1, <2>2 DEF StreamInv
  <1>7. StageInv' BY DEF Connect, StageInv, TypeOK
  <1>8. AnswersFit' BY DEF Connect, AnswersFit, TypeOK, StageInv, SockInv, StreamInv, StreamOf, SentBy, ReadOf
  <1> QED BY <1>1, <1>2, <1>3, <1>4, <1>5, <1>6, <1>7, <1>8

\* A caller sends its next item into its own stream.  On a connection the
\* server has closed it is reset, or does not notice, or is killed; a
\* registered call has sent all by then.
LEMMA SendInv == ASSUME RpcInv, NEW c \in Calls, Send(c) PROVE RpcInv'
  <1> USE RpcAssumption DEF RpcInv, poolVars, netVars, sockVars, mainVars
  <1>0. /\ client[c] \in {"size", "name", "args"}
        /\ \/ /\ stage[c] # "closed" /\ answer' = answer
              /\ client' = [client EXCEPT ![c] = IF client[c] = "size" THEN "name"
                                                 ELSE IF client[c] = "name" THEN "args"
                                                 ELSE "waiting"]
              /\ unread' = [unread EXCEPT ![c] = Append(unread[c], client[c])]
           \/ /\ stage[c] = "closed" /\ unread' = unread
              /\ \E l \in {"name", "args", "waiting", "dead"} : client' = [client EXCEPT ![c] = l]
              /\ \E a \in {answer[c], "reset"} : answer' = [answer EXCEPT ![c] = a]
        /\ UNCHANGED <<poolVars, sockVars, mainVars, stage>>
    <2>1. PICK step \in {<<"size", "name">>, <<"name", "args">>, <<"args", "waiting">>} :
            /\ client[c] = step[1]
            /\ \/ /\ ~IsClosed(c) /\ answer' = answer
                  /\ client' = [client EXCEPT ![c] = step[2]]
                  /\ unread' = [unread EXCEPT ![c] = Append(@, step[1])]
               \/ /\ IsClosed(c) /\ unread' = unread
                  /\ client' = [client EXCEPT ![c] = step[2]]
                  /\ \E a \in {answer[c], "reset"} : answer' = [answer EXCEPT ![c] = a]
               \/ /\ IsClosed(c) /\ unread' = unread /\ answer' = answer
                  /\ client' = [client EXCEPT ![c] = "dead"]
            /\ UNCHANGED <<poolVars, sockVars, mainVars, stage>>
      BY DEF Send
    <2>2. \/ step[1] = "size" /\ step[2] = "name"
          \/ step[1] = "name" /\ step[2] = "args"
          \/ step[1] = "args" /\ step[2] = "waiting"
      OBVIOUS
    <2>3. answer = [answer EXCEPT ![c] = answer[c]] BY DEF TypeOK
    <2> QED BY <2>1, <2>2, <2>3 DEF IsClosed
  <1>9. stage[c] = "closed" => c \notin Known BY <1>0 DEF StreamInv, StreamOf, SentBy
  <1>1. TypeOK'
    <2>1. client' \in [Calls -> {"idle", "size", "name", "args", "waiting", "done", "dead"}]
      BY <1>0 DEF TypeOK
    <2>2. unread' \in [Calls -> Seq({"size", "name", "args"})]
      <3>1. unread[c] \in Seq({"size", "name", "args"}) BY DEF TypeOK
      <3>2. Append(unread[c], client[c]) \in Seq({"size", "name", "args"}) BY <1>0, <3>1
      <3> QED BY <1>0, <3>2 DEF TypeOK
    <2>3. answer' \in [Calls -> Answers \cup {None}] BY <1>0 DEF TypeOK, Answers
    <2> QED BY <1>0, <2>1, <2>2, <2>3 DEF TypeOK
  <1>2. PoolInv' BY <1>0 DEF PoolInv
  <1>3. SockInv' BY <1>0 DEF SockInv, TypeOK
  <1>4. MainInv' BY <1>0 DEF MainInv
  <1>5. PlaceInv' BY <1>0 DEF PlaceInv
  <1>6. StreamInv'
    <2>1. ASSUME NEW d \in Calls, d # c PROVE StreamOf(d)'
      BY <1>0, <2>1, Untouched DEF StreamInv, TypeOK
    <2>2. ReadOf(c)' = ReadOf(c) BY <1>0 DEF ReadOf
    <2>3. client'[c] # "idle" /\ stage' = stage BY <1>0 DEF TypeOK
    <2>4. ASSUME stage[c] # "closed" PROVE StreamOf(c)'
      <3>1. SentBy(c)' = SentBy(c) + 1 BY <1>0, <2>4 DEF TypeOK, SentBy
      <3>2. Len(unread'[c]) = Len(unread[c]) + 1 /\ Len(unread[c]) \in Nat
        BY <1>0, <2>4 DEF TypeOK
      <3>3. SentBy(c) \in Nat /\ ReadOf(c) \in Nat BY DEF SentBy, ReadOf
      <3> QED BY <2>2, <2>3, <2>4, <3>1, <3>2, <3>3 DEF StreamInv, StreamOf
    <2>5. ASSUME stage[c] = "closed" PROVE StreamOf(c)'
      BY <1>9, <2>3, <2>5 DEF StreamOf
    <2> QED BY <2>1, <2>4, <2>5 DEF StreamInv
  <1>7. StageInv' BY <1>0 DEF StageInv
  <1>8. AnswersFit'
    <2>1. ASSUME NEW d \in Calls, d # c PROVE answer'[d] = answer[d]
      BY <1>0, <2>1 DEF TypeOK
    <2> QED BY <1>0, <1>9, <2>1 DEF AnswersFit, TypeOK
  <1> QED BY <1>1, <1>2, <1>3, <1>4, <1>5, <1>6, <1>7, <1>8

\* A caller takes its answer, which stays what it is.
LEMMA ReceiveInv == ASSUME RpcInv, NEW c \in Calls, Receive(c) PROVE RpcInv'
  <1> USE RpcAssumption DEF RpcInv, poolVars, netVars, sockVars, mainVars
  <1>1. TypeOK' BY DEF Receive, TypeOK
  <1>2. PoolInv' BY DEF Receive, PoolInv
  <1>3. SockInv' BY DEF Receive, SockInv, TypeOK
  <1>4. MainInv' BY DEF Receive, MainInv, SockInv, TypeOK
  <1>5. PlaceInv' BY DEF Receive, PlaceInv, PoolInv, TypeOK, Running
  <1>6. StreamInv'
    <2>1. ASSUME NEW d \in Calls, d # c PROVE StreamOf(d)'
      BY <2>1, Untouched DEF Receive, StreamInv, TypeOK
    <2>2. ASSUME NEW d \in Calls, d = c PROVE StreamOf(d)'
      BY <2>2 DEF Receive, StreamInv, StreamOf, SentBy, ReadOf, SockInv, MainInv, Running, TypeOK
    <2> QED BY <2>1, <2>2 DEF StreamInv
  <1>7. StageInv' BY DEF Receive, StageInv, TypeOK
  <1>8. AnswersFit' BY DEF Receive, AnswersFit, TypeOK, StageInv, SockInv, StreamInv, StreamOf, SentBy, ReadOf
  <1> QED BY <1>1, <1>2, <1>3, <1>4, <1>5, <1>6, <1>7, <1>8

\* The start of the pool, before there is a connection.
LEMMA StartPoolInv == ASSUME RpcInv, StartPool PROVE RpcInv'
  <1> USE RpcAssumption DEF RpcInv, poolVars, netVars, sockVars, mainVars
  <1>1. TypeOK' BY DEF StartPool, Pool!CreateThread, Pool!SpareRank, Pool!StartReturns, Pool!Ranks, Pool!history, TypeOK
  <1>2. PoolInv' BY DEF StartPool, Pool!CreateThread, Pool!SpareRank, Pool!StartReturns, Pool!Ranks, Pool!history, PoolInv
  <1>3. SockInv' BY DEF StartPool, Pool!CreateThread, Pool!SpareRank, Pool!StartReturns, Pool!Ranks, Pool!history, SockInv, TypeOK
  <1>4. MainInv' BY DEF StartPool, Pool!CreateThread, Pool!SpareRank, Pool!StartReturns, Pool!Ranks, Pool!history, MainInv, SockInv, TypeOK
  <1>5. PlaceInv'
    <2>1. CASE Pool!CreateThread
      BY <2>1 DEF StartPool, Pool!CreateThread, Pool!Ranks, Pool!history, PlaceInv, PoolInv, TypeOK, Running
    <2>2. CASE Pool!SpareRank
      BY <2>2 DEF StartPool, Pool!SpareRank, Pool!Ranks, Pool!history, PlaceInv, PoolInv, TypeOK, Running
    <2>3. CASE Pool!StartReturns
      BY <2>3 DEF StartPool, Pool!StartReturns, Pool!Ranks, Pool!history, PlaceInv, PoolInv, TypeOK, Running
    <2> QED BY <2>1, <2>2, <2>3 DEF StartPool
  <1>6. StreamInv' BY Untouched DEF StartPool, Pool!CreateThread, Pool!SpareRank, Pool!StartReturns, Pool!Ranks, Pool!history, StreamInv
  <1>7. StageInv' BY DEF StartPool, Pool!CreateThread, Pool!SpareRank, Pool!StartReturns, Pool!Ranks, Pool!history, StageInv, TypeOK
  <1>8. AnswersFit' BY DEF StartPool, Pool!CreateThread, Pool!SpareRank, Pool!StartReturns, Pool!Ranks, Pool!history, AnswersFit, TypeOK, StageInv, SockInv, StreamInv, StreamOf, SentBy, ReadOf
  <1> QED BY <1>1, <1>2, <1>3, <1>4, <1>5, <1>6, <1>7, <1>8

\* accept gives a waiting call the lowest free number: no other call that is
\* not closed has it, because the number is free.
LEMMA AcceptInv == ASSUME RpcInv, NEW c \in Calls, Accept(c) PROVE RpcInv'
  <1> USE RpcAssumption DEF RpcInv, poolVars, netVars, sockVars, mainVars
  <1>0. PICK f \in Fds :
          /\ client[c] # "idle" /\ fdOf[c] = None /\ sock[f] = None
          /\ mainPc = "wait" /\ hand = None
          /\ sock' = [sock EXCEPT ![f] = c] /\ fdOf' = [fdOf EXCEPT ![c] = f]
          /\ armed' = armed \cup {f}
          /\ UNCHANGED <<poolVars, netVars, mainPc, hand, stage>>
    BY DEF Accept, InEpollWait, Pending, MainInv
  <1>9. f # None /\ c # None BY DEF Fds
  <1>10. /\ sock'[f] = c /\ \A g \in Fds : g # f => sock'[g] = sock[g]
         /\ fdOf'[c] = f /\ \A d \in Calls : d # c => fdOf'[d] = fdOf[d]
         /\ \A g \in Fds : sock[g] \in Calls \cup {None}
    BY <1>0 DEF TypeOK
  <1>11. stage[c] = "none" BY <1>0 DEF SockInv
  <1>1. TypeOK' BY <1>0 DEF TypeOK
  <1>2. PoolInv' BY <1>0 DEF PoolInv
  <1>3. SockInv'
    <2>1. ASSUME NEW g \in Fds, sock'[g] # None PROVE fdOf'[sock'[g]] = g
      <3>1. CASE g = f BY <1>10, <3>1
      <3>2. CASE g # f
        <4>1. fdOf[sock[g]] = g /\ g # None BY <1>10, <2>1, <3>2 DEF SockInv, Fds
        <4> QED BY <1>0, <1>10, <2>1, <3>2, <4>1
      <3> QED BY <3>1, <3>2
    <2>2. \A d \in Calls : fdOf'[d] # None /\ stage[d] # "closed" => sock'[fdOf'[d]] = d
      BY <1>0, <1>9, <1>10 DEF SockInv, TypeOK
    <2>3. \A d \in Calls : fdOf'[d] = None => stage[d] = "none"
      BY <1>0, <1>9, <1>10 DEF SockInv
    <2> QED BY <1>0, <2>1, <2>2, <2>3 DEF SockInv
  <1>4. MainInv'
    <2>1. ASSUME NEW g \in armed' PROVE sock'[g] # None /\ stage[sock'[g]] = "none" /\ g # hand
      <3>1. CASE g = f BY <1>0, <1>9, <1>10, <1>11, <3>1
      <3>2. CASE g # f BY <1>0, <1>10, <3>2 DEF MainInv, TypeOK
      <3> QED BY <3>1, <3>2
    <2> QED BY <1>0, <2>1 DEF MainInv
  <1>5. PlaceInv' BY <1>0 DEF PlaceInv
  <1>6. StreamInv'
    <2>1. ASSUME NEW d \in Calls, d # c PROVE StreamOf(d)'
      BY <1>0, <1>10, <2>1, Untouched DEF StreamInv
    <2>2. StreamOf(c)' BY <1>0 DEF StreamInv, StreamOf, SentBy, ReadOf
    <2> QED BY <2>1, <2>2 DEF StreamInv
  <1>7. StageInv' BY <1>0 DEF StageInv
  <1>8. AnswersFit' BY <1>0 DEF AnswersFit
  <1> QED BY <1>1, <1>2, <1>3, <1>4, <1>5, <1>6, <1>7, <1>8

\* An armed connection fires and goes to the main thread, disarmed.
LEMMA EventInv == ASSUME RpcInv, NEW f \in Fds, Event(f) PROVE RpcInv'
  <1> USE RpcAssumption DEF RpcInv, poolVars, netVars, sockVars, mainVars
  <1>1. TypeOK'
    <2>1. sock[f] \in Calls /\ f \in Fds /\ unread[sock[f]] # <<>>
      BY DEF Event, MainInv, TypeOK
    <2>2. Tail(unread[sock[f]]) \in Seq({"size", "name", "args"}) BY <2>1 DEF TypeOK
    <2>3. unread' \in [Calls -> Seq({"size", "name", "args"})]
      BY <2>1, <2>2 DEF Event, TypeOK
    <2> QED BY <2>1, <2>3 DEF Event, TypeOK
  <1>2. PoolInv' BY DEF Event, InEpollWait, PoolInv
  <1>3. SockInv' BY DEF Event, InEpollWait, SockInv, TypeOK
  <1>4. MainInv' BY DEF Event, InEpollWait, MainInv, SockInv, TypeOK
  <1>5. PlaceInv' BY DEF Event, InEpollWait, PlaceInv, PoolInv, TypeOK, Running
  <1>6. StreamInv'
    <2> DEFINE c == sock[f]
    <2>1. /\ c \in Calls /\ fdOf[c] = f /\ stage[c] = "none" /\ f # None
          /\ Len(unread[c]) \in Nat \ {0} /\ hand' = f /\ mainPc' = "name"
          /\ unread' = [unread EXCEPT ![c] = Tail(unread[c])]
          /\ UNCHANGED <<client, sockVars, stage>>
          /\ mainPc = "wait" /\ hand \in {None, f} /\ (f = hand) = (mainPc # "wait")
      BY DEF Event, InEpollWait, TypeOK, SockInv, MainInv, Fds
    <2>2. ASSUME NEW d \in Calls, d # c PROVE StreamOf(d)'
      <3>1. fdOf[d] = f => stage[d] = "closed" BY <2>1, <2>2 DEF SockInv
      <3>2. ReadOf(d)' = ReadOf(d) BY <2>1, <3>1 DEF ReadOf, Running
      <3> QED BY <2>1, <2>2, <3>2 DEF StreamInv, StreamOf, SentBy, TypeOK
    <2>3. StreamOf(c)'
      <3>1. ReadOf(c)' = ReadOf(c) + 1 /\ ReadOf(c) \in Nat BY <2>1 DEF ReadOf, Running
      <3>2. Len(unread'[c]) = Len(unread[c]) - 1 BY <2>1 DEF TypeOK
      <3>3. SentBy(c)' = SentBy(c) /\ SentBy(c) \in Nat BY <2>1 DEF SentBy
      <3> QED BY <2>1, <3>1, <3>2, <3>3 DEF StreamInv, StreamOf
    <2> QED BY <2>1, <2>2, <2>3 DEF StreamInv
  <1>7. StageInv' BY DEF Event, InEpollWait, StageInv, TypeOK
  <1>8. AnswersFit' BY DEF Event, InEpollWait, AnswersFit, TypeOK, StageInv, SockInv, StreamInv, StreamOf, SentBy, ReadOf
  <1> QED BY <1>1, <1>2, <1>3, <1>4, <1>5, <1>6, <1>7, <1>8

\* The main thread reads the name of the call in its hands.
LEMMA ReadNameInv == ASSUME RpcInv, ReadName PROVE RpcInv'
  <1> USE RpcAssumption DEF RpcInv, poolVars, netVars, sockVars, mainVars
  <1>1. TypeOK'
    <2>1. sock[hand] \in Calls /\ hand \in Fds /\ unread[sock[hand]] # <<>>
      BY DEF ReadName, MainInv, TypeOK
    <2>2. Tail(unread[sock[hand]]) \in Seq({"size", "name", "args"}) BY <2>1 DEF TypeOK
    <2>3. unread' \in [Calls -> Seq({"size", "name", "args"})]
      BY <2>1, <2>2 DEF ReadName, TypeOK
    <2> QED BY <2>1, <2>3 DEF ReadName, TypeOK
  <1>2. PoolInv' BY DEF ReadName, PoolInv
  <1>3. SockInv' BY DEF ReadName, SockInv, TypeOK
  <1>4. MainInv' BY DEF ReadName, MainInv, SockInv, TypeOK
  <1>5. PlaceInv' BY DEF ReadName, PlaceInv, PoolInv, TypeOK, Running
  <1>6. StreamInv'
    <2> DEFINE c == sock[hand]
    <2>1. /\ c \in Calls /\ fdOf[c] = hand /\ stage[c] = "none" /\ hand # None
          /\ Len(unread[c]) \in Nat \ {0} /\ hand' = hand /\ mainPc' = "push"
          /\ unread' = [unread EXCEPT ![c] = Tail(unread[c])]
          /\ UNCHANGED <<client, sockVars, stage>>
          /\ mainPc = "name" /\ hand \in {None, hand} /\ (hand = hand) = (mainPc # "wait")
      BY DEF ReadName, TypeOK, SockInv, MainInv, Fds
    <2>2. ASSUME NEW d \in Calls, d # c PROVE StreamOf(d)'
      <3>1. fdOf[d] = hand => stage[d] = "closed" BY <2>1, <2>2 DEF SockInv
      <3>2. ReadOf(d)' = ReadOf(d) BY <2>1, <3>1 DEF ReadOf, Running
      <3> QED BY <2>1, <2>2, <3>2 DEF StreamInv, StreamOf, SentBy, TypeOK
    <2>3. StreamOf(c)'
      <3>1. ReadOf(c)' = ReadOf(c) + 1 /\ ReadOf(c) \in Nat BY <2>1 DEF ReadOf, Running
      <3>2. Len(unread'[c]) = Len(unread[c]) - 1 BY <2>1 DEF TypeOK
      <3>3. SentBy(c)' = SentBy(c) /\ SentBy(c) \in Nat BY <2>1 DEF SentBy
      <3> QED BY <2>1, <3>1, <3>2, <3>3 DEF StreamInv, StreamOf
    <2> QED BY <2>1, <2>2, <2>3 DEF StreamInv
  <1>7. StageInv' BY DEF ReadName, StageInv, TypeOK
  <1>8. AnswersFit' BY DEF ReadName, AnswersFit, TypeOK, StageInv, SockInv, StreamInv, StreamOf, SentBy, ReadOf
  <1> QED BY <1>1, <1>2, <1>3, <1>4, <1>5, <1>6, <1>7, <1>8

\* The post after add_worker touches the pool only.
LEMMA PostWorkerInv == ASSUME RpcInv, PostWorker PROVE RpcInv'
  <1> USE RpcAssumption DEF RpcInv, poolVars, netVars, sockVars, mainVars
  <1>1. TypeOK' BY DEF PostWorker, Pool!Post, Pool!history, TypeOK
  <1>2. PoolInv' BY DEF PostWorker, Pool!Post, Pool!history, PoolInv
  <1>3. SockInv' BY DEF PostWorker, Pool!Post, Pool!history, SockInv, TypeOK
  <1>4. MainInv' BY DEF PostWorker, Pool!Post, Pool!history, MainInv, SockInv, TypeOK
  <1>5. PlaceInv' BY DEF PostWorker, Pool!Post, Pool!history, PlaceInv, PoolInv, TypeOK, Running
  <1>6. StreamInv' BY Untouched DEF PostWorker, Pool!Post, Pool!history, StreamInv
  <1>7. StageInv' BY DEF PostWorker, Pool!Post, Pool!history, StageInv, TypeOK
  <1>8. AnswersFit' BY DEF PostWorker, Pool!Post, Pool!history, AnswersFit, TypeOK, StageInv, SockInv, StreamInv, StreamOf, SentBy, ReadOf
  <1> QED BY <1>1, <1>2, <1>3, <1>4, <1>5, <1>6, <1>7, <1>8

\* A pool thread passes its semaphore.
LEMMA SemWaitInv == ASSUME RpcInv, NEW r \in Pool!Ranks, Pool!SemWait(r), UNCHANGED <<netVars, sockVars, mainVars, stage>> PROVE RpcInv'
  <1> USE RpcAssumption DEF RpcInv, poolVars, netVars, sockVars, mainVars
  <1>1. TypeOK' BY DEF Pool!SemWait, Pool!history, TypeOK
  <1>2. PoolInv' BY DEF Pool!SemWait, Pool!history, PoolInv
  <1>3. SockInv' BY DEF Pool!SemWait, Pool!history, SockInv, TypeOK
  <1>4. MainInv' BY DEF Pool!SemWait, Pool!history, MainInv, SockInv, TypeOK
  <1>5. PlaceInv' BY DEF Pool!SemWait, Pool!history, PlaceInv, PoolInv, TypeOK, Running
  <1>6. StreamInv' BY Untouched DEF Pool!SemWait, Pool!history, StreamInv
  <1>7. StageInv' BY DEF Pool!SemWait, Pool!history, StageInv, TypeOK
  <1>8. AnswersFit' BY DEF Pool!SemWait, Pool!history, AnswersFit, TypeOK, StageInv, SockInv, StreamInv, StreamOf, SentBy, ReadOf
  <1> QED BY <1>1, <1>2, <1>3, <1>4, <1>5, <1>6, <1>7, <1>8

\* A pool thread reads the arguments: no other party reads the connection, so
\* that what it takes is the third item.
LEMMA ReadArgsInv == ASSUME RpcInv, NEW r \in Pool!Ranks, NEW c \in Calls, ReadArgs(r, c) PROVE RpcInv'
  <1> USE RpcAssumption DEF RpcInv, poolVars, netVars, sockVars, mainVars
  <1>0. fdOf[c] \in Fds /\ Peer(c) = c BY DEF ReadArgs, Runs, Peer, Peer, SockInv, TypeOK
  <1>1. TypeOK' BY <1>0 DEF ReadArgs, Runs, Peer, TypeOK
  <1>2. PoolInv' BY <1>0 DEF ReadArgs, Runs, Peer, PoolInv
  <1>3. SockInv' BY <1>0 DEF ReadArgs, Runs, Peer, SockInv, TypeOK
  <1>4. MainInv' BY <1>0 DEF ReadArgs, Runs, Peer, MainInv, SockInv, TypeOK
  <1>5. PlaceInv' BY <1>0 DEF ReadArgs, Runs, Peer, PlaceInv, PoolInv, TypeOK, Running
  <1>6. StreamInv'
    <2>1. ASSUME NEW d \in Calls, d # c PROVE StreamOf(d)'
      BY <1>0, <2>1, Untouched DEF ReadArgs, StreamInv, TypeOK
    <2>2. Len(unread'[c]) = Len(unread[c]) - 1 /\ Len(unread[c]) \in Nat
      BY <1>0 DEF ReadArgs, TypeOK
    <2>3. ReadOf(c)' = 3 /\ ReadOf(c) = 2 BY DEF ReadArgs, ReadOf, Running, Runs, TypeOK
    <2>4. SentBy(c)' = SentBy(c) /\ SentBy(c) \in Nat BY DEF ReadArgs, SentBy
    <2>5. stage[c] # "closed" /\ stage'[c] # "closed" /\ fdOf'[c] = fdOf[c] /\ client' = client
      BY DEF ReadArgs, Runs, TypeOK
    <2>6. StreamOf(c)' BY <2>2, <2>3, <2>4, <2>5 DEF StreamInv, StreamOf
    <2> QED BY <2>1, <2>6 DEF StreamInv
  <1>7. StageInv' BY <1>0 DEF ReadArgs, Runs, Peer, StageInv, TypeOK
  <1>8. AnswersFit' BY <1>0 DEF ReadArgs, Runs, Peer, AnswersFit, TypeOK, StageInv, SockInv, StreamInv, StreamOf, SentBy, ReadOf
  <1> QED BY <1>1, <1>2, <1>3, <1>4, <1>5, <1>6, <1>7, <1>8

\* A pool thread answers the call whose connection its number is.
LEMMA WriteInv == ASSUME RpcInv, NEW r \in Pool!Ranks, NEW c \in Calls, Unfound(r, c) \/ Unfit(r, c) \/ Execute(r, c) PROVE RpcInv'
  <1> USE RpcAssumption DEF RpcInv, poolVars, netVars, sockVars, mainVars
  <1>0. fdOf[c] \in Fds /\ Peer(c) = c BY DEF Unfound, Unfit, Execute, Write, Runs, Peer, Peer, SockInv, TypeOK
  <1>9. /\ \/ stage[c] = "queued" /\ c \notin Known
           \/ stage[c] \in {"unfit", "executing"}
        /\ stage' = [stage EXCEPT ![c] = "answered"]
        /\ \E a \in Answers : answer' = [answer EXCEPT ![c] = a]
        /\ UNCHANGED <<poolVars, client, unread, sockVars, mainVars>>
    BY <1>0 DEF Unfound, Unfit, Execute, Write, Runs, Answers
  <1>1. TypeOK'
    <2>1. stage' \in [Calls -> {"none", "queued", "refused", "executing", "unfit",
                                "answered", "closed"}]
      BY <1>9 DEF TypeOK
    <2>2. answer' \in [Calls -> Answers \cup {None}] BY <1>9 DEF TypeOK
    <2> QED BY <1>9, <2>1, <2>2 DEF TypeOK
  <1>2. PoolInv' BY <1>0 DEF Unfound, Unfit, Execute, Write, Runs, Peer, PoolInv
  <1>3. SockInv' BY <1>0 DEF Unfound, Unfit, Execute, Write, Runs, Peer, SockInv, TypeOK
  <1>4. MainInv' BY <1>0 DEF Unfound, Unfit, Execute, Write, Runs, Peer, MainInv, SockInv, TypeOK
  <1>5. PlaceInv'
    <2>1. pc[r] = "run" /\ work[r] = c BY DEF Unfound, Unfit, Execute, Runs
    <2>2. \A i \in 1 .. Len(queue) : queue[i] # c BY <2>1 DEF PlaceInv
    <2> QED BY <1>9, <2>1, <2>2 DEF PlaceInv, PoolInv, TypeOK, Running
  <1>6. StreamInv'
    <2>1. ASSUME NEW d \in Calls, d # c PROVE StreamOf(d)'
      BY <1>9, <2>1, Untouched DEF StreamInv, TypeOK
    <2>2. ReadOf(c)' = ReadOf(c)
      BY <1>9 DEF ReadOf, Running, StageInv, TypeOK
    <2>3. SentBy(c)' = SentBy(c) BY <1>9 DEF SentBy
    <2>4. StreamOf(c)' BY <1>9, <2>2, <2>3 DEF StreamInv, StreamOf, TypeOK
    <2> QED BY <2>1, <2>4 DEF StreamInv
  <1>7. StageInv' BY <1>0 DEF Unfound, Unfit, Execute, Write, Runs, Peer, StageInv, TypeOK
  <1>8. AnswersFit'
    <2>1. \/ c \notin Known /\ answer' = [answer EXCEPT ![c] = "unfind"]
          \/ c \in Known \ Fitting /\ answer' = [answer EXCEPT ![c] = "unmatch"]
          \/ c \in Fitting /\ \E a \in {"ok", "error"} : answer' = [answer EXCEPT ![c] = a]
      BY <1>0 DEF Unfound, Unfit, Execute, Write, Runs, StageInv
    <2>2. \A d \in Calls : d # c => answer'[d] = answer[d] BY <1>9 DEF TypeOK
    <2>3. \/ c \notin Known /\ answer'[c] = "unfind"
          \/ c \in Known \ Fitting /\ answer'[c] = "unmatch"
          \/ c \in Fitting /\ answer'[c] \in {"ok", "error"}
      BY <2>1 DEF TypeOK
    <2> QED BY <2>2, <2>3 DEF AnswersFit
  <1> QED BY <1>1, <1>2, <1>3, <1>4, <1>5, <1>6, <1>7, <1>8

\* A pool thread frees the number.  A registered call has nothing unread then,
\* so its answer is not lost to a reset.
LEMMA CloseInv == ASSUME RpcInv, NEW r \in Pool!Ranks, NEW c \in Calls, CloseConn(r, c) PROVE RpcInv'
  <1> USE RpcAssumption DEF RpcInv, poolVars, netVars, sockVars, mainVars
  <1>0. fdOf[c] \in Fds /\ Peer(c) = c BY DEF CloseConn, Runs, Peer, Peer, SockInv, TypeOK
  <1>9. /\ stage[c] = "answered"
        /\ stage' = [stage EXCEPT ![c] = "closed"]
        /\ sock' = [sock EXCEPT ![fdOf[c]] = None]
        /\ \/ answer' = answer
           \/ unread[c] # <<>> /\ answer' = [answer EXCEPT ![c] = "reset"]
        /\ UNCHANGED <<poolVars, client, unread, fdOf, mainVars>>
    BY <1>0 DEF CloseConn, Runs
  <1>10. c \in Known => SentBy(c) = 3 /\ unread[c] = <<>>
    <2>1. c \in Known => Len(unread[c]) = SentBy(c) - 3
      BY <1>9 DEF StreamInv, StreamOf, ReadOf, Running
    <2>2. Len(unread[c]) \in Nat /\ SentBy(c) \in 0 .. 3 /\ unread[c] \in Seq({"size", "name", "args"})
      BY DEF SentBy, TypeOK
    <2> QED BY <2>1, <2>2
  <1>1. TypeOK'
    <2>1. stage' \in [Calls -> {"none", "queued", "refused", "executing", "unfit",
                                "answered", "closed"}]
      BY <1>9 DEF TypeOK
    <2>2. answer' \in [Calls -> Answers \cup {None}] BY <1>9 DEF TypeOK, Answers
    <2> QED BY <1>9, <2>1, <2>2 DEF TypeOK
  <1>2. PoolInv' BY <1>0 DEF CloseConn, Runs, Peer, PoolInv
  <1>3. SockInv' BY <1>0 DEF CloseConn, Runs, Peer, SockInv, TypeOK
  <1>4. MainInv' BY <1>0 DEF CloseConn, Runs, Peer, MainInv, SockInv, TypeOK
  <1>5. PlaceInv' BY <1>0 DEF CloseConn, Runs, Peer, PlaceInv, PoolInv, TypeOK, Running
  <1>6. StreamInv'
    <2>1. ASSUME NEW d \in Calls, d # c PROVE StreamOf(d)'
      BY <1>9, <2>1, Untouched DEF StreamInv, TypeOK
    <2>2. SentBy(c)' = SentBy(c) BY <1>9 DEF SentBy
    <2>3. StreamOf(c)' BY <1>9, <1>10, <2>2 DEF StreamInv, StreamOf, TypeOK
    <2> QED BY <2>1, <2>3 DEF StreamInv
  <1>7. StageInv' BY <1>0 DEF CloseConn, Runs, Peer, StageInv, TypeOK
  <1>8. AnswersFit' BY <1>9, <1>10 DEF AnswersFit, TypeOK
  <1> QED BY <1>1, <1>2, <1>3, <1>4, <1>5, <1>6, <1>7, <1>8

\* A pool thread leaves a closed call and is free for the next.
LEMMA FinishInv == ASSUME RpcInv, NEW r \in Pool!Ranks, NEW c \in Calls, FinishWorker(r, c) PROVE RpcInv'
  <1> USE RpcAssumption DEF RpcInv, poolVars, netVars, sockVars, mainVars
  <1>1. TypeOK' BY DEF FinishWorker, Pool!Finish, Runs, TypeOK
  <1>2. PoolInv' BY DEF FinishWorker, Pool!Finish, Runs, PoolInv
  <1>3. SockInv' BY DEF FinishWorker, Pool!Finish, Runs, SockInv, TypeOK
  <1>4. MainInv' BY DEF FinishWorker, Pool!Finish, Runs, MainInv, SockInv, TypeOK
  <1>5. PlaceInv' BY DEF FinishWorker, Pool!Finish, Runs, PlaceInv, PoolInv, TypeOK, Running
  <1>6. StreamInv' BY Untouched DEF FinishWorker, Pool!Finish, Runs, StreamInv
  <1>7. StageInv' BY DEF FinishWorker, Pool!Finish, Runs, StageInv, TypeOK
  <1>8. AnswersFit' BY DEF FinishWorker, Pool!Finish, Runs, AnswersFit, TypeOK, StageInv, SockInv, StreamInv, StreamOf, SentBy, ReadOf
  <1> QED BY <1>1, <1>2, <1>3, <1>4, <1>5, <1>6, <1>7, <1>8

\* add_worker queues the call that handle_request read, at the end, or frees
\* the worker again.
LEMMA PushWorkerInv == ASSUME RpcInv, PushWorker PROVE RpcInv'
  <1> USE RpcAssumption DEF RpcInv, poolVars, netVars, sockVars, mainVars
  <1>14. PICK c \in Calls : c = sock[hand]
    BY DEF PushWorker, Pool!Submit, MainInv, SockInv, TypeOK
  <1>0. /\ hand \in Fds /\ c \in Calls /\ stage[c] = "none" /\ mainPc = "push"
        /\ fdOf[c] = hand /\ owner = "serve" /\ hand # None
    BY <1>14 DEF PushWorker, Pool!Submit, MainInv, SockInv, TypeOK
  <1>9. \/ /\ queue' = Append(queue, c) /\ accepted' = accepted \cup {c}
           /\ owner' = "post" /\ rejected' = rejected
           /\ stage' = [stage EXCEPT ![c] = IF c \in rejected THEN "refused" ELSE "queued"]
        \/ /\ rejected' = rejected \cup {c} /\ UNCHANGED <<queue, accepted, owner>>
           /\ stage' = [stage EXCEPT ![c] = "refused"]
    BY <1>14 DEF PushWorker, Pool!Submit, Pool!PushBack
  <1>10. c \notin rejected BY <1>14 DEF PushWorker, Pool!Submit, Pool!Submitted
  <1>11. /\ UNCHANGED <<netVars, sockVars, armed, idx, pc, work>>
         /\ mainPc' = "wait" /\ hand' = None
    BY DEF PushWorker, Pool!Submit
  <1>12. \/ stage' = [stage EXCEPT ![c] = "queued"] /\ queue' = Append(queue, c)
         \/ stage' = [stage EXCEPT ![c] = "refused"] /\ queue' = queue
    BY <1>9, <1>10
  <1>13. /\ stage'[c] \in {"queued", "refused"}
         /\ \A d \in Calls : d # c => stage'[d] = stage[d]
    BY <1>0, <1>12 DEF TypeOK
  <1>1. TypeOK'
    <2>1. stage' \in [Calls -> {"none", "queued", "refused", "executing", "unfit",
                                "answered", "closed"}]
      BY <1>0, <1>12 DEF TypeOK
    <2> QED BY <1>0, <1>11, <2>1 DEF TypeOK
  <1>2. PoolInv'
    <2>1. queue' \in Seq(Calls) BY <1>0, <1>12 DEF PoolInv
    <2> QED BY <1>0, <1>9, <1>11, <2>1 DEF PoolInv
  <1>3. SockInv' BY <1>0, <1>11, <1>13 DEF SockInv, TypeOK
  <1>4. MainInv'
    <2>1. \A g \in armed : g # hand /\ g \in Fds BY DEF MainInv, TypeOK
    <2>2. \A g \in armed : sock[g] # c BY <1>0, <1>14, <2>1 DEF MainInv, SockInv
    <2>3. \A g \in armed : g # None BY <2>1 DEF Fds
    <2> QED BY <1>11, <1>13, <2>1, <2>2, <2>3 DEF MainInv, TypeOK
  <1>5. PlaceInv'
    <2>1. \A i \in 1 .. Len(queue) : queue[i] # c /\ queue[i] \in Calls
      BY <1>0 DEF PlaceInv, PoolInv
    <2>2. \A q \in Pool!Ranks : pc[q] = "run" => work[q] # c
      BY <1>0 DEF PlaceInv, Running
    <2>3. CASE queue' = queue
      BY <1>11, <1>13, <2>1, <2>2, <2>3 DEF PlaceInv
    <2>4. CASE stage'[c] = "queued" /\ queue' = Append(queue, c)
      <3>1. /\ Len(queue') = Len(queue) + 1 /\ Len(queue) \in Nat /\ queue'[Len(queue) + 1] = c
            /\ \A i \in 1 .. Len(queue) : queue'[i] = queue[i]
        BY <1>0, <2>4 DEF PoolInv
      <3>2. \A i \in 1 .. Len(queue') : i \in 1 .. Len(queue) \/ i = Len(queue) + 1
        BY <3>1
      <3>3. \A i \in 1 .. Len(queue') : stage'[queue'[i]] = "queued"
        BY <1>13, <2>1, <2>4, <3>1, <3>2 DEF PlaceInv
      <3>4. \A i, j \in 1 .. Len(queue') : queue'[i] = queue'[j] => i = j
        BY <2>1, <3>1, <3>2 DEF PlaceInv
      <3>5. \A q \in Pool!Ranks : pc[q] = "run" =>
              \A i \in 1 .. Len(queue') : queue'[i] # work[q]
        BY <2>2, <3>1, <3>2 DEF PlaceInv
      <3> QED BY <1>11, <1>13, <2>2, <3>3, <3>4, <3>5 DEF PlaceInv
    <2> QED BY <1>0, <1>12, <2>3, <2>4 DEF TypeOK
  <1>6. StreamInv'
    <2>1. ASSUME NEW d \in Calls, d # c PROVE StreamOf(d)'
      <3>1. fdOf[d] = hand => stage[d] = "closed" BY <1>0, <2>1 DEF SockInv
      <3>2. ReadOf(d)' = ReadOf(d) BY <1>0, <1>11, <1>13, <2>1, <3>1 DEF ReadOf, Running
      <3> QED BY <1>11, <1>13, <2>1, <3>2 DEF StreamInv, StreamOf, SentBy
    <2>2. ReadOf(c) = 2 /\ ReadOf(c)' = 2
      <3>1. ReadOf(c) = 2 BY <1>0 DEF ReadOf, Running
      <3>2. ReadOf(c)' = 2 BY <1>13 DEF ReadOf, Running
      <3> QED BY <3>1, <3>2
    <2>3. StreamOf(c)' BY <1>0, <1>11, <1>13, <2>2 DEF StreamInv, StreamOf, SentBy
    <2> QED BY <2>1, <2>3 DEF StreamInv
  <1>7. StageInv' BY <1>0, <1>13 DEF StageInv
  <1>8. AnswersFit' BY <1>11 DEF AnswersFit
  <1> QED BY <1>1, <1>2, <1>3, <1>4, <1>5, <1>6, <1>7, <1>8

\* queue_get_front: the first call of the queue goes to the thread of rank r.
LEMMA TakeInv ==
  ASSUME RpcInv, NEW r \in Pool!Ranks, Pool!Take(r),
         UNCHANGED <<netVars, sockVars, mainVars, stage>>
  PROVE  RpcInv'
  <1> USE RpcAssumption DEF RpcInv, poolVars, netVars, sockVars, mainVars
  <1>0. /\ queue \in Seq(Calls) /\ queue # <<>> /\ Len(queue) \in Nat \ {0}
        /\ Head(queue) = queue[1] /\ queue[1] \in Calls
        /\ Tail(queue) \in Seq(Calls) /\ Len(Tail(queue)) = Len(queue) - 1
        /\ \A i \in 1 .. Len(Tail(queue)) :
             Tail(queue)[i] = queue[i + 1] /\ i + 1 \in 1 .. Len(queue)
    BY DEF Pool!Take, Pool!PopFront, PoolInv
  <1>9. /\ queue' = Tail(queue)
        /\ work' = [work EXCEPT ![r] = queue[1]]
        /\ pc' = [pc EXCEPT ![r] = "run"]
        /\ pc[r] = "take"
        /\ UNCHANGED <<owner, idx, accepted, rejected>>
    BY <1>0 DEF Pool!Take, Pool!PopFront, Pool!history
  <1>1. TypeOK' BY DEF TypeOK
  <1>2. PoolInv' BY <1>0, <1>9 DEF PoolInv
  <1>3. SockInv' BY DEF SockInv
  <1>4. MainInv' BY DEF MainInv
  <1>5. PlaceInv'
    <2>1. 1 \in 1 .. Len(queue) BY <1>0
    <2>2. /\ pc'[r] = "run" /\ work'[r] = queue[1]
          /\ \A q \in Pool!Ranks \ {r} : pc'[q] = pc[q] /\ work'[q] = work[q]
      BY <1>9 DEF PoolInv
    <2>3. \A i \in 1 .. Len(queue') : stage[queue'[i]] = "queued" /\ queue'[i] # queue[1]
      BY <1>0, <1>9, <2>1 DEF PlaceInv
    <2>4. \A i, j \in 1 .. Len(queue') : queue'[i] = queue'[j] => i = j
      BY <1>0, <1>9 DEF PlaceInv
    <2>5. \A q \in Pool!Ranks \ {r} : pc[q] = "run" =>
            /\ work[q] # queue[1]
            /\ \A i \in 1 .. Len(queue') : queue'[i] # work[q]
      BY <1>0, <1>9, <2>1 DEF PlaceInv
    <2>6. stage[queue[1]] = "queued" BY <2>1 DEF PlaceInv
    <2> QED BY <1>0, <2>2, <2>3, <2>4, <2>5, <2>6 DEF PlaceInv
  <1>6. StreamInv' BY Untouched DEF StreamInv
  <1>7. StageInv' BY DEF StageInv
  <1>8. AnswersFit' BY DEF AnswersFit
  <1> QED BY <1>1, <1>2, <1>3, <1>4, <1>5, <1>6, <1>7, <1>8

\* Before the start there is no connection and no call in the pool.
LEMMA RpcInit == Init => RpcInv
  <1> SUFFICES ASSUME Init PROVE RpcInv OBVIOUS
  <1> USE RpcAssumption DEF Init, Pool!Init
  <1>1. TypeOK BY DEF TypeOK
  <1>2. PoolInv BY DEF PoolInv, Pool!Ranks
  <1>3. SockInv BY DEF SockInv
  <1>4. MainInv BY DEF MainInv
  <1>5. PlaceInv BY DEF PlaceInv
  <1>6. StreamInv BY DEF StreamInv, StreamOf, SentBy, ReadOf, Running
  <1>7. StageInv BY DEF StageInv
  <1>8. AnswersFit BY DEF AnswersFit
  <1> QED BY <1>1, <1>2, <1>3, <1>4, <1>5, <1>6, <1>7, <1>8 DEF RpcInv

\* Every step of a caller, the main thread or a pool thread keeps the invariant.
LEMMA RpcStep == RpcInv /\ [Next]_vars => RpcInv'
  <1> SUFFICES ASSUME RpcInv, [Next]_vars PROVE RpcInv' OBVIOUS
  <1>1. ASSUME NEW c \in Calls, Client(c) PROVE RpcInv'
    BY <1>1, ConnectInv, SendInv, ReceiveInv DEF Client
  <1>2. CASE Main
    <2>1. CASE StartPool BY <2>1, StartPoolInv
    <2>2. CASE ReadName BY <2>2, ReadNameInv
    <2>3. CASE PushWorker BY <2>3, PushWorkerInv
    <2>4. CASE PostWorker BY <2>4, PostWorkerInv
    <2>5. CASE \E c \in Calls : Accept(c) BY <2>5, AcceptInv
    <2>6. CASE \E f \in Fds : Event(f) BY <2>6, EventInv
    <2> QED BY <1>2, <2>1, <2>2, <2>3, <2>4, <2>5, <2>6 DEF Main
  <1>3. ASSUME NEW r \in Pool!Ranks, Worker(r) PROVE RpcInv'
    <2>1. CASE Dequeue(r) BY <2>1, SemWaitInv, TakeInv DEF Dequeue
    <2>2. ASSUME NEW c \in Calls,
                 \/ ReadArgs(r, c) \/ Unfound(r, c) \/ Unfit(r, c) \/ Execute(r, c)
                 \/ CloseConn(r, c) \/ FinishWorker(r, c)
          PROVE RpcInv'
      BY <2>2, ReadArgsInv, WriteInv, CloseInv, FinishInv
    <2> QED BY <1>3, <2>1, <2>2 DEF Worker
  <1>4. CASE UNCHANGED vars
    BY <1>4, Untouched
    DEF vars, poolVars, netVars, sockVars, mainVars, RpcInv, TypeOK, PoolInv, SockInv,
        MainInv, PlaceInv, StreamInv, StageInv, AnswersFit
  <1> QED BY <1>1, <1>2, <1>3, <1>4 DEF Next

\* The invariant holds in every reachable state.
LEMMA RpcAlways == Spec => []RpcInv
  BY RpcInit, RpcStep, PTL DEF Spec

-----------------------------------------------------------------------------

\* Every variable of the server and its callers keeps its type, for any number
\* of calls, descriptors and threads: reads take only what was sent, and the
\* main thread works only on a descriptor that is open.
THEOREM TypeCorrect == Spec => []TypeOK
  BY RpcAlways, PTL DEF RpcInv

\* epoll, the main thread and the pool never read one connection at a time.
THEOREM ReadersExclude == Spec => []OneReader
  <1>1. ASSUME RpcInv, NEW f \in Fds, sock[f] # None
        PROVE  /\ ~(f \in armed /\ f = hand)
               /\ ~(f \in armed /\ InPool(sock[f]))
               /\ ~(f = hand /\ InPool(sock[f]))
    <2> USE <1>1, RpcAssumption DEF RpcInv
    <2>1. f # None BY DEF Fds
    <2>2. InPool(sock[f]) => stage[sock[f]] # "none"
      <3>1. DOMAIN queue = 1 .. Len(queue) BY DEF PoolInv
      <3> QED BY <3>1 DEF InPool, PlaceInv, Running
    <2>3. f = hand => stage[sock[f]] = "none" BY <2>1 DEF MainInv
    <2>4. f \in armed => f # hand /\ stage[sock[f]] = "none" BY DEF MainInv
    <2> QED BY <2>2, <2>3, <2>4
  <1>2. RpcInv => OneReader BY <1>1 DEF OneReader
  <1> QED BY <1>2, RpcAlways, PTL

\* Until a worker closes its descriptor the number is its call's connection.
THEOREM DescriptorsStay == Spec => []DescriptorsStayMine
  <1>1. RpcInv => DescriptorsStayMine
    BY DEF RpcInv, DescriptorsStayMine, SockInv, TypeOK, Peer
  <1> QED BY <1>1, RpcAlways, PTL

\* A caller is answered what its own call gives, and only POMME_UNFIND_FUNC can
\* be lost to a reset.
THEOREM AnswersRight == Spec => []AnswersFit
  BY RpcAlways, PTL DEF RpcInv

=============================================================================
