------------------------ MODULE ThreadPoolStopProofs ------------------------
(***************************************************************************)
(* stop drains the pool: every accepted job has been run when it returns,  *)
(* for every number of threads above 0, every bound of the queue and every *)
(* set of jobs.                                                            *)
(***************************************************************************)
EXTENDS ThreadPoolProofs

Leavers == {r \in Ranks : pc[r] \in {"exit", "leave", "gone"}}

-----------------------------------------------------------------------------
(* Threads, slots and joining.                                             *)

\* start has created the threads it has counted to, and a thread that has not
\* cleared its slot has its id there, for stop to join.
ThreadsKnown ==
  /\ \A r \in Ranks :
       r < InitThreads /\ (owner = "start" => r < idx) => pc[r] # "none"
  /\ \A r \in Ranks : pc[r] \in {"wait", "take", "run", "exit"} => tids[r] = "id"

\* The ranks stop has passed are out of the loop of thread_routine, and stop
\* joins only after it has counted every thread out.
JoinedLeft ==
  /\ owner \in {"join", "joining", "stopped", "destroyed"} =>
       /\ cur = 0
       /\ \A r \in Ranks : r < idx => pc[r] \in {"none", "leave", "gone"}
  /\ owner \in {"stopped", "destroyed"} => idx = MaxThreads

JoinInv == ThreadsKnown /\ JoinedLeft

LEMMA JoinInvInit == Init => JoinInv
  BY PoolAssumption DEF Init, JoinInv, ThreadsKnown, JoinedLeft, Ranks

LEMMA JoinInvStep == TypeInv /\ SlotsInv /\ JoinInv /\ [Next]_vars => JoinInv'
<1> SUFFICES ASSUME TypeInv, SlotsInv, JoinInv, [Next]_vars PROVE JoinInv'
  OBVIOUS
<1> USE PoolAssumption DEF TypeInv, TypeOK, history, JoinInv, ThreadsKnown, JoinedLeft, Ranks
<1>a. ASSUME UNCHANGED <<tids, pc>>, owner # "start",
             owner' \in {"serve", "post", "stop", "postPill"}
      PROVE  JoinInv'
  BY <1>a
<1>1. CASE CreateThread
  BY <1>1 DEF CreateThread
<1>2. CASE SpareRank
  BY <1>2 DEF SpareRank
<1>3. CASE StartReturns
  BY <1>3 DEF StartReturns
<1>4. ASSUME NEW j \in Jobs, Submit(j) PROVE JoinInv'
  BY <1>4, <1>a DEF Submit
<1>5. CASE Post
  BY <1>5, <1>a DEF Post
<1>6. CASE BeginStop
  BY <1>6, <1>a DEF BeginStop
<1>7. CASE RemoveThread
  BY <1>7, <1>a DEF RemoveThread
<1>8. CASE BeginJoin
  BY <1>8 DEF BeginJoin
<1>9. CASE ReadTid
  <2>1. \A r \in Ranks : tids[r] # "id" => pc[r] \in {"none", "leave", "gone"}
    BY DEF ThreadStates
  <2> QED
    BY <1>9, <2>1 DEF ReadTid
<1>10. CASE Joined
  BY <1>10 DEF Joined
<1>11. CASE StopReturns
  BY <1>11 DEF StopReturns
<1>12. CASE Distroy
  BY <1>12 DEF Distroy
<1>13. ASSUME NEW r \in Ranks, SemWait(r) PROVE JoinInv'
  BY <1>13 DEF SemWait
<1>14. ASSUME NEW r \in Ranks, Take(r) PROVE JoinInv'
  BY <1>14 DEF Take
<1>15. ASSUME NEW r \in Ranks, Finish(r) PROVE JoinInv'
  BY <1>15 DEF Finish
<1>16. ASSUME NEW r \in Ranks, ClearTid(r) PROVE JoinInv'
  BY <1>16 DEF ClearTid
<1>17. ASSUME NEW r \in Ranks, Leave(r) PROVE JoinInv'
  BY <1>17 DEF Leave
<1>18. CASE UNCHANGED vars
  BY <1>18 DEF vars
<1> QED
  BY <1>1, <1>2, <1>3, <1>4, <1>5, <1>6, <1>7, <1>8, <1>9, <1>10, <1>11,
     <1>12, <1>13, <1>14, <1>15, <1>16, <1>17, <1>18
  DEF Next, Owner, Thread, Terminated

-----------------------------------------------------------------------------
(* No accepted job is lost.                                                *)

\* A job is somewhere in the queue, or a thread runs it.
Queued(j) == \E i \in 1 .. Len(queue) : queue[i] = j
RunBySome(j) == \E r \in Ranks : pc[r] = "run" /\ work[r] = j

JobsKept == \A j \in accepted : j \in done \/ Queued(j) \/ RunBySome(j)

LEMMA JobsKeptInit == Init => JobsKept
  BY DEF Init, JobsKept

\* A push keeps what was queued and adds its worker.
LEMMA PushKeeps ==
  ASSUME TypeOK, NEW w \in Jobs \cup {Pill}, PushBack(w), NEW j
  PROVE  /\ Queued(j) => Queued(j)'
         /\ Queued(w)'
<1>1. /\ queue \in Seq(Jobs \cup {Pill}) /\ Len(queue) \in Nat
      /\ queue' = Append(queue, w) /\ Len(queue') = Len(queue) + 1
  BY PushBackTyped DEF TypeOK
<1>2. \A i \in 1 .. Len(queue) : queue'[i] = queue[i]
  BY <1>1
<1>3. queue'[Len(queue) + 1] = w
  BY <1>1
<1> QED
  BY <1>1, <1>2, <1>3 DEF Queued

LEMMA JobsKeptStep == TypeInv /\ SlotsInv /\ JobsKept /\ [Next]_vars => JobsKept'
<1> SUFFICES ASSUME TypeInv, SlotsInv, JobsKept, [Next]_vars PROVE JobsKept'
  OBVIOUS
<1> USE DEF history
<1>a. TypeOK /\ accepted \subseteq Jobs
  BY DEF TypeInv, TypeOK
<1>b. ASSUME UNCHANGED <<accepted, done, queue, work>>,
             \A r \in Ranks : pc[r] = "run" => pc'[r] = "run"
      PROVE  JobsKept'
  BY <1>b DEF JobsKept, Queued, RunBySome
<1>c. ASSUME NEW r \in Ranks, NEW s, pc' = [pc EXCEPT ![r] = s], pc[r] # "run",
             UNCHANGED <<accepted, done, queue, work>>
      PROVE  JobsKept'
  BY <1>a, <1>b, <1>c DEF TypeOK
<1>1. CASE CreateThread
  <2>1. idx \in Ranks /\ pc[idx] = "none"
    BY <1>1, <1>a, PoolAssumption
    DEF CreateThread, TypeOK, Ranks, SlotsInv, StartingSlots
  <2> QED
    BY <1>1, <1>c, <2>1 DEF CreateThread
<1>2. CASE SpareRank
  BY <1>2, <1>b DEF SpareRank
<1>3. CASE StartReturns
  BY <1>3, <1>b DEF StartReturns
<1>4. ASSUME NEW j \in Jobs, Submit(j) PROVE JobsKept'
  <2>1. CASE PushBack(j) /\ accepted' = accepted \cup {j} /\ owner' = "post"
             /\ UNCHANGED rejected
    BY <1>4, <1>a, <2>1, PushKeeps DEF Submit, JobsKept, RunBySome
  <2>2. CASE IsFull /\ rejected' = rejected \cup {j}
             /\ UNCHANGED <<queue, accepted, owner>>
    BY <1>4, <1>b, <2>2 DEF Submit
  <2> QED
    BY <1>4, <2>1, <2>2 DEF Submit
<1>5. CASE Post
  BY <1>5, <1>b DEF Post
<1>6. CASE BeginStop
  BY <1>6, <1>b DEF BeginStop
<1>7. CASE RemoveThread
  <2>1. CASE PushBack(Pill) /\ owner' = "postPill" /\ UNCHANGED <<cur, dropped>>
    BY <1>7, <1>a, <2>1, PushKeeps DEF RemoveThread, JobsKept, RunBySome
  <2>2. CASE IsFull /\ cur' = cur - 1 /\ dropped' = TRUE /\ UNCHANGED <<queue, owner>>
    BY <1>7, <1>b, <2>2 DEF RemoveThread
  <2> QED
    BY <1>7, <2>1, <2>2 DEF RemoveThread
<1>8. CASE BeginJoin
  BY <1>8, <1>b DEF BeginJoin
<1>9. CASE ReadTid
  BY <1>9, <1>b DEF ReadTid
<1>10. CASE Joined
  BY <1>10, <1>b DEF Joined
<1>11. CASE StopReturns
  BY <1>11, <1>b DEF StopReturns
<1>12. CASE Distroy
  BY <1>12, <1>b DEF Distroy
<1>13. ASSUME NEW r \in Ranks, SemWait(r) PROVE JobsKept'
  BY <1>13, <1>c DEF SemWait
<1>14. ASSUME NEW r \in Ranks, Take(r) PROVE JobsKept'
  <2> SUFFICES ASSUME NEW j \in accepted
               PROVE  j \in done \/ Queued(j)' \/ RunBySome(j)'
    BY <1>14 DEF Take, JobsKept
  <2>1. CASE j \in done
    BY <2>1
  <2>2. CASE RunBySome(j)
    <3>1. PICK q \in Ranks : pc[q] = "run" /\ work[q] = j
      BY <2>2 DEF RunBySome
    <3>2. q # r /\ pc'[q] = "run" /\ work'[q] = j
      BY <1>14, <1>a, <3>1 DEF Take, TypeOK
    <3> QED
      BY <3>2 DEF RunBySome
  <2>3. CASE Queued(j)
    <3>1. PICK i \in 1 .. Len(queue) : queue[i] = j
      BY <2>3 DEF Queued
    <3>2. j \in Jobs /\ j # Pill
      BY <1>a, PoolAssumption
    <3>3. CASE i = 1
      <4>1. Head(queue) = j
        BY <3>1, <3>3, <1>a, <1>14 DEF Take, PopFront, TypeOK
      <4>2. pc'[r] = "run" /\ work'[r] = j
        BY <1>14, <1>a, <3>2, <4>1 DEF Take, TypeOK
      <4> QED
        BY <4>2 DEF RunBySome
    <3>4. CASE i # 1
      <4>1. queue \in Seq(Jobs \cup {Pill}) /\ queue # <<>> /\ queue' = Tail(queue)
        BY <1>14, <1>a DEF Take, PopFront, TypeOK
      <4>2. i - 1 \in 1 .. Len(queue') /\ queue'[i - 1] = j
        BY <3>1, <3>4, <4>1
      <4> QED
        BY <4>2 DEF Queued
    <3> QED
      BY <3>3, <3>4
  <2> QED
    BY <2>1, <2>2, <2>3 DEF JobsKept
<1>15. ASSUME NEW r \in Ranks, Finish(r) PROVE JobsKept'
  BY <1>15, <1>a DEF Finish, JobsKept, Queued, RunBySome, TypeOK
<1>16. ASSUME NEW r \in Ranks, ClearTid(r) PROVE JobsKept'
  BY <1>16, <1>c DEF ClearTid
<1>17. ASSUME NEW r \in Ranks, Leave(r) PROVE JobsKept'
  BY <1>17, <1>c DEF Leave
<1>18. CASE UNCHANGED vars
  BY <1>18, <1>b DEF vars
<1> QED
  BY <1>1, <1>2, <1>3, <1>4, <1>5, <1>6, <1>7, <1>8, <1>9, <1>10, <1>11,
     <1>12, <1>13, <1>14, <1>15, <1>16, <1>17, <1>18
  DEF Next, Owner, Thread, Terminated

-----------------------------------------------------------------------------
(* The pills come after the jobs, one for each thread counted out.         *)

\* A pill that is queued while cur_thread_num still counts its thread.
UncountedPill == IF owner = "postPill" THEN 1 ELSE 0

\* The queue is n jobs and then pills.  Once a thread has taken a pill no job
\* is left; before stop there are no pills.  Pills queued and pills taken are
\* no more than the threads counted out.
JobsThenPills(n) ==
  /\ \A i \in 1 .. n : queue[i] \in Jobs
  /\ \A i \in n + 1 .. Len(queue) : queue[i] = Pill
  /\ Leavers # {} => n = 0
  /\ owner \in {"start", "serve", "post"} => n = Len(queue) /\ Leavers = {}
  /\ Len(queue) - n + Cardinality(Leavers) <= InitThreads - cur + UncountedPill

PillsBehind == \E n \in 0 .. Len(queue) : JobsThenPills(n)

LEMMA LeaversFinite == IsFiniteSet(Leavers) /\ Cardinality(Leavers) \in Nat
<1>1. IsFiniteSet(Ranks)
  BY PoolAssumption, FS_Interval DEF Ranks
<1> QED
  BY <1>1, FS_Subset, FS_CardinalityType DEF Leavers

LEMMA PillsBehindInit == Init => PillsBehind
<1> SUFFICES ASSUME Init PROVE PillsBehind
  OBVIOUS
<1>1. Leavers = {} /\ Cardinality(Leavers) = 0
  BY FS_EmptySet DEF Init, Leavers
<1>2. Len(queue) = 0
  BY EmptySeq DEF Init
<1>3. JobsThenPills(0)
  BY <1>1, <1>2, PoolAssumption DEF Init, JobsThenPills, UncountedPill
<1> QED
  BY <1>2, <1>3 DEF PillsBehind

LEMMA PillsBehindStep == TypeInv /\ SlotsInv /\ PillsBehind /\ [Next]_vars => PillsBehind'
<1> SUFFICES ASSUME TypeInv, SlotsInv, PillsBehind, [Next]_vars PROVE PillsBehind'
  OBVIOUS
<1> USE DEF history
<1>a. /\ TypeOK /\ queue \in Seq(Jobs \cup {Pill}) /\ Len(queue) \in Nat
      /\ cur \in Nat /\ InitThreads \in Nat
      /\ pc \in [Ranks -> ThreadStates]
  BY PoolAssumption DEF TypeInv, TypeOK
<1>b. PICK n \in 0 .. Len(queue) : JobsThenPills(n)
  BY DEF PillsBehind
<1>n. n \in Nat /\ Cardinality(Leavers) \in Nat
  BY <1>a, <1>b, LeaversFinite
\* The owner moves without touching the queue.
<1>c. ASSUME UNCHANGED <<queue, cur>>, Leavers' = Leavers,
             UncountedPill' = UncountedPill,
             owner' \in {"start", "serve", "post"} =>
               owner \in {"start", "serve", "post"}
      PROVE  PillsBehind'
  BY <1>b, <1>c DEF PillsBehind, JobsThenPills
\* A thread moves between states that are both in or both outside Leavers.
<1>d. ASSUME NEW r \in Ranks, NEW s,
             pc' = [pc EXCEPT ![r] = s],
             pc[r] \in {"exit", "leave", "gone"} <=> s \in {"exit", "leave", "gone"},
             UNCHANGED <<queue, cur, owner>>
      PROVE  PillsBehind'
  <2>1. Leavers' = Leavers
    BY <1>a, <1>d DEF Leavers
  <2> QED
    BY <1>c, <1>d, <2>1 DEF UncountedPill
<1>e. ASSUME UNCHANGED <<queue, cur, pc>>, UncountedPill' = UncountedPill,
             owner' \in {"start", "serve", "post"} =>
               owner \in {"start", "serve", "post"}
      PROVE  PillsBehind'
  BY <1>c, <1>e DEF Leavers
<1>1. CASE CreateThread
  <2>1. idx \in Ranks /\ pc[idx] = "none"
    BY <1>1, <1>a, PoolAssumption
    DEF CreateThread, TypeOK, Ranks, SlotsInv, StartingSlots
  <2> QED
    BY <1>1, <1>d, <2>1 DEF CreateThread
<1>2. CASE SpareRank
  BY <1>2, <1>e DEF SpareRank, UncountedPill
<1>3. CASE StartReturns
  BY <1>3, <1>e DEF StartReturns, UncountedPill
<1>4. ASSUME NEW j \in Jobs, Submit(j) PROVE PillsBehind'
  <2>1. CASE PushBack(j) /\ accepted' = accepted \cup {j} /\ owner' = "post"
             /\ UNCHANGED rejected
    <3>1. n = Len(queue) /\ Leavers = {} /\ Leavers' = Leavers
      BY <1>4, <1>b DEF Submit, JobsThenPills, Leavers
    <3>2. queue' = Append(queue, j) /\ Len(queue') = Len(queue) + 1
      BY <1>a, <2>1, PushBackTyped
    <3>3. \A i \in 1 .. n + 1 : queue'[i] \in Jobs
      BY <1>a, <1>b, <3>1, <3>2 DEF JobsThenPills
    <3>4. JobsThenPills(n + 1)'
      BY <1>4, <1>a, <1>b, <1>n, <2>1, <3>1, <3>2, <3>3
      DEF Submit, JobsThenPills, UncountedPill
    <3> QED
      BY <1>a, <3>1, <3>2, <3>4 DEF PillsBehind
  <2>2. CASE IsFull /\ rejected' = rejected \cup {j}
             /\ UNCHANGED <<queue, accepted, owner>>
    BY <1>4, <1>e, <2>2 DEF Submit, UncountedPill
  <2> QED
    BY <1>4, <2>1, <2>2 DEF Submit
<1>5. CASE Post
  <2>1. CASE owner = "post" /\ owner' = "serve" /\ cur' = cur
    BY <1>5, <1>e, <2>1 DEF Post, UncountedPill
  <2>2. CASE owner = "postPill" /\ owner' = "stop" /\ cur' = cur - 1
    <3>1. Leavers' = Leavers /\ queue' = queue
      BY <1>5 DEF Post, Leavers
    <3>2. JobsThenPills(n)'
      BY <1>a, <1>b, <1>n, <2>2, <3>1 DEF JobsThenPills, UncountedPill
    <3> QED
      BY <3>1, <3>2 DEF PillsBehind
  <2> QED
    BY <1>5, <2>1, <2>2 DEF Post
<1>6. CASE BeginStop
  BY <1>6, <1>e DEF BeginStop, UncountedPill
<1>7. CASE RemoveThread
  <2>1. CASE PushBack(Pill) /\ owner' = "postPill" /\ UNCHANGED <<cur, dropped>>
    <3>1. Leavers' = Leavers /\ owner = "stop"
      BY <1>7 DEF RemoveThread, Leavers
    <3>2. queue' = Append(queue, Pill) /\ Len(queue') = Len(queue) + 1
      BY <1>a, <2>1, PushBackTyped
    <3>3. /\ \A i \in 1 .. n : queue'[i] \in Jobs
          /\ \A i \in n + 1 .. Len(queue') : queue'[i] = Pill
      BY <1>a, <1>b, <1>n, <3>2 DEF JobsThenPills
    <3>4. JobsThenPills(n)'
      BY <1>a, <1>b, <1>n, <2>1, <3>1, <3>2, <3>3 DEF JobsThenPills, UncountedPill
    <3> QED
      BY <1>a, <3>2, <3>4 DEF PillsBehind
  <2>2. CASE IsFull /\ cur' = cur - 1 /\ dropped' = TRUE /\ UNCHANGED <<queue, owner>>
    <3>1. Leavers' = Leavers /\ owner = "stop"
      BY <1>7 DEF RemoveThread, Leavers
    <3>2. JobsThenPills(n)'
      BY <1>a, <1>b, <1>n, <2>2, <3>1 DEF JobsThenPills, UncountedPill
    <3> QED
      BY <2>2, <3>2 DEF PillsBehind
  <2> QED
    BY <1>7, <2>1, <2>2 DEF RemoveThread
<1>8. CASE BeginJoin
  BY <1>8, <1>e DEF BeginJoin, UncountedPill
<1>9. CASE ReadTid
  BY <1>9, <1>e DEF ReadTid, UncountedPill
<1>10. CASE Joined
  BY <1>10, <1>e DEF Joined, UncountedPill
<1>11. CASE StopReturns
  BY <1>11, <1>e DEF StopReturns, UncountedPill
<1>12. CASE Distroy
  BY <1>12, <1>e DEF Distroy, UncountedPill
<1>13. ASSUME NEW r \in Ranks, SemWait(r) PROVE PillsBehind'
  BY <1>13, <1>d DEF SemWait
<1>14. ASSUME NEW r \in Ranks, Take(r) PROVE PillsBehind'
  <2>1. /\ pc[r] = "take" /\ Len(queue) > 0 /\ queue' = Tail(queue)
        /\ Len(queue') = Len(queue) - 1
        /\ \A i \in 1 .. Len(queue') : queue'[i] = queue[i + 1]
        /\ Head(queue) = queue[1]
        /\ UNCHANGED <<cur, owner>>
    BY <1>14, <1>a DEF Take, PopFront
  <2>2. CASE n = 0
    <3>1. Head(queue) = Pill
      BY <1>b, <2>1, <2>2, <1>a DEF JobsThenPills
    <3>2. Leavers' = Leavers \cup {r} /\ r \notin Leavers
      BY <1>14, <1>a, <2>1, <3>1 DEF Take, Leavers
    <3>3. Cardinality(Leavers') = Cardinality(Leavers) + 1
      BY <3>2, LeaversFinite, FS_AddElement
    <3>4. owner \notin {"start", "serve", "post"}
      BY <1>b, <2>1, <2>2 DEF JobsThenPills
    <3>5. \A i \in 1 .. Len(queue') : queue'[i] = Pill
      BY <1>a, <1>b, <2>1, <2>2 DEF JobsThenPills
    <3>6. JobsThenPills(0)'
      BY <1>a, <1>b, <1>n, <2>1, <2>2, <3>3, <3>4, <3>5
      DEF JobsThenPills, UncountedPill
    <3> QED
      BY <1>a, <2>1, <3>6 DEF PillsBehind
  <2>3. CASE n # 0
    <3>1. Head(queue) # Pill
      BY <1>b, <1>n, <2>1, <2>3, PoolAssumption DEF JobsThenPills
    <3>2. Leavers' = Leavers
      BY <1>14, <1>a, <2>1, <3>1 DEF Take, Leavers
    <3>3. /\ \A i \in 1 .. n - 1 : queue'[i] \in Jobs
          /\ \A i \in n .. Len(queue') : queue'[i] = Pill
      BY <1>a, <1>b, <1>n, <2>1, <2>3 DEF JobsThenPills
    <3>4. JobsThenPills(n - 1)'
      BY <1>a, <1>b, <1>n, <2>1, <2>3, <3>2, <3>3 DEF JobsThenPills, UncountedPill
    <3> QED
      BY <1>a, <1>b, <1>n, <2>1, <2>3, <3>4 DEF PillsBehind
  <2> QED
    BY <2>2, <2>3
<1>15. ASSUME NEW r \in Ranks, Finish(r) PROVE PillsBehind'
  BY <1>15, <1>d DEF Finish
<1>16. ASSUME NEW r \in Ranks, ClearTid(r) PROVE PillsBehind'
  BY <1>16, <1>d DEF ClearTid
<1>17. ASSUME NEW r \in Ranks, Leave(r) PROVE PillsBehind'
  BY <1>17, <1>d DEF Leave
<1>18. CASE UNCHANGED vars
  BY <1>18, <1>e DEF vars, UncountedPill
<1> QED
  BY <1>1, <1>2, <1>3, <1>4, <1>5, <1>6, <1>7, <1>8, <1>9, <1>10, <1>11,
     <1>12, <1>13, <1>14, <1>15, <1>16, <1>17, <1>18
  DEF Next, Owner, Thread, Terminated

-----------------------------------------------------------------------------
(* When stop has returned.                                                 *)

DrainInv == TypeInv /\ SlotsInv /\ JoinInv /\ JobsKept /\ PillsBehind

LEMMA DrainInvAlways == Spec => []DrainInv
<1>1. Init => JoinInv /\ JobsKept /\ PillsBehind
  BY JoinInvInit, JobsKeptInit, PillsBehindInit
<1>2. TypeInv /\ SlotsInv /\ JoinInv /\ JobsKept /\ PillsBehind /\ [Next]_vars
        => (JoinInv /\ JobsKept /\ PillsBehind)'
  BY JoinInvStep, JobsKeptStep, PillsBehindStep
<1> QED
  BY <1>1, <1>2, TypeInvAlways, SlotsInvAlways, PTL DEF Spec, DrainInv

\* All threads have taken their pills, which used up every pill that can have
\* been queued, and nothing else was behind them.
LEMMA StoppedQueueEmpty ==
  ASSUME InitThreads > 0, DrainInv, owner \in {"stopped", "destroyed"}
  PROVE  /\ queue = <<>>
         /\ \A r \in Ranks : pc[r] \in {"none", "leave", "gone"}
<1>1. \A r \in Ranks : pc[r] \in {"none", "leave", "gone"}
  BY PoolAssumption DEF DrainInv, JoinInv, JoinedLeft, Ranks
<1>2. Leavers = 0 .. InitThreads - 1
  <2>1. \A r \in Ranks : r < InitThreads <=> pc[r] # "none"
    BY DEF DrainInv, JoinInv, ThreadsKnown, SlotsInv
  <2> QED
    BY <1>1, <2>1, PoolAssumption DEF Leavers, Ranks
<1>3. Cardinality(Leavers) = InitThreads
  BY <1>2, FS_Interval, PoolAssumption
<1>4. PICK n \in 0 .. Len(queue) : JobsThenPills(n)
  BY DEF DrainInv, PillsBehind
<1>5. queue \in Seq(Jobs \cup {Pill}) /\ Len(queue) \in Nat
  BY DEF DrainInv, TypeInv, TypeOK
<1>6. n = 0
  <2>1. 0 \in Leavers
    BY <1>2, PoolAssumption
  <2> QED
    BY <2>1, <1>4 DEF JobsThenPills
<1>7. cur = 0 /\ UncountedPill = 0
  BY DEF DrainInv, JoinInv, JoinedLeft, UncountedPill
<1>8. Len(queue) = 0
  BY <1>3, <1>4, <1>5, <1>6, <1>7, PoolAssumption DEF JobsThenPills
<1>9. queue = <<>>
  BY <1>5, <1>8, EmptySeq
<1> QED
  BY <1>1, <1>9

\* stop drains: when it has returned every accepted job has been run, the queue
\* is empty, and no thread is inside the loop.  The pool has at least one
\* thread: without any, accepted jobs simply stay.
THEOREM Drains ==
  ASSUME InitThreads > 0
  PROVE  Spec => []StopDrains
<1>1. DrainInv => StopDrains
  <2> SUFFICES ASSUME DrainInv, owner \in {"stopped", "destroyed"}
               PROVE  /\ queue = <<>>
                      /\ accepted \subseteq done
                      /\ \A r \in Ranks : pc[r] \in {"none", "leave", "gone"}
    BY DEF StopDrains
  <2>1. queue = <<>> /\ \A r \in Ranks : pc[r] \in {"none", "leave", "gone"}
    BY StoppedQueueEmpty
  <2>2. accepted \subseteq done
    BY <2>1, EmptySeq DEF DrainInv, JobsKept, Queued, RunBySome
  <2> QED
    BY <2>1, <2>2
<1> QED
  BY <1>1, DrainInvAlways, PTL

=============================================================================
