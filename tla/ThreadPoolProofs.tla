-------------------------- MODULE ThreadPoolProofs --------------------------
(***************************************************************************)
(* Theorems about ThreadPool, for every number of threads and ranks, every *)
(* bound of the queue and every set of jobs.                               *)
(***************************************************************************)
EXTENDS ThreadPool, FiniteSetTheorems, SequenceTheorems, TLAPS

-----------------------------------------------------------------------------
(* Types.                                                                  *)

\* TypeOK is not inductive: what the owner and a thread are about to do must
\* fit what they hold.
HandsFit ==
  /\ owner = "start" => cur = InitThreads
  /\ owner = "postPill" => cur > 0
  /\ owner = "joining" => idx < MaxThreads
  /\ \A r \in Ranks : pc[r] = "run" => work[r] \in Jobs

TypeInv == TypeOK /\ HandsFit

LEMMA TypeInvInit == Init => TypeInv
<1> SUFFICES ASSUME Init PROVE TypeInv
  OBVIOUS
<1>1. queue \in Seq(Jobs \cup {Pill}) /\ Len(queue) <= MaxWaiting
  BY PoolAssumption, EmptySeq DEF Init
<1>2. tids \in [Ranks -> {"id", "zero", "junk"}]
  BY DEF Init
<1>3. sem \in Nat /\ cur \in 0 .. InitThreads /\ idx \in 0 .. MaxThreads
  BY PoolAssumption DEF Init
<1> QED
  BY <1>1, <1>2, <1>3 DEF Init, TypeInv, TypeOK, HandsFit, OwnerStates, ThreadStates

\* What a push does to a typed queue.
LEMMA PushBackTyped ==
  ASSUME TypeOK, NEW w \in Jobs \cup {Pill}, PushBack(w)
  PROVE  /\ queue' \in Seq(Jobs \cup {Pill})
         /\ Len(queue') = Len(queue) + 1
         /\ Len(queue') <= MaxWaiting
         /\ queue' = Append(queue, w)
  BY PoolAssumption DEF TypeOK, PushBack, IsFull

LEMMA TypeInvStep == TypeInv /\ [Next]_vars => TypeInv'
<1> SUFFICES ASSUME TypeInv, [Next]_vars PROVE TypeInv'
  OBVIOUS
<1> USE PoolAssumption DEF TypeInv, HandsFit, OwnerStates, ThreadStates, Ranks, history
<1>1. CASE CreateThread
  BY <1>1 DEF CreateThread, TypeOK
<1>2. CASE SpareRank
  BY <1>2 DEF SpareRank, TypeOK
<1>3. CASE StartReturns
  BY <1>3 DEF StartReturns, TypeOK
<1>4. ASSUME NEW j \in Jobs, Submit(j) PROVE TypeInv'
  <2>1. CASE PushBack(j) /\ accepted' = accepted \cup {j} /\ owner' = "post"
             /\ UNCHANGED rejected
    BY <1>4, <2>1, PushBackTyped DEF Submit, TypeOK
  <2>2. CASE IsFull /\ rejected' = rejected \cup {j}
             /\ UNCHANGED <<queue, accepted, owner>>
    BY <1>4, <2>2 DEF Submit, TypeOK
  <2> QED
    BY <1>4, <2>1, <2>2 DEF Submit
<1>5. CASE Post
  BY <1>5 DEF Post, TypeOK
<1>6. CASE BeginStop
  BY <1>6 DEF BeginStop, TypeOK
<1>7. CASE RemoveThread
  <2>1. CASE PushBack(Pill) /\ owner' = "postPill" /\ UNCHANGED <<cur, dropped>>
    BY <1>7, <2>1, PushBackTyped DEF RemoveThread, TypeOK
  <2>2. CASE IsFull /\ cur' = cur - 1 /\ dropped' = TRUE /\ UNCHANGED <<queue, owner>>
    BY <1>7, <2>2 DEF RemoveThread, TypeOK
  <2> QED
    BY <1>7, <2>1, <2>2 DEF RemoveThread
<1>8. CASE BeginJoin
  BY <1>8 DEF BeginJoin, TypeOK
<1>9. CASE ReadTid
  BY <1>9 DEF ReadTid, TypeOK
<1>10. CASE Joined
  BY <1>10 DEF Joined, TypeOK
<1>11. CASE StopReturns
  BY <1>11 DEF StopReturns, TypeOK
<1>12. CASE Distroy
  BY <1>12 DEF Distroy, TypeOK
<1>13. ASSUME NEW r \in Ranks, SemWait(r) PROVE TypeInv'
  BY <1>13 DEF SemWait, TypeOK
<1>14. ASSUME NEW r \in Ranks, Take(r) PROVE TypeInv'
  <2>1. /\ Head(queue) \in Jobs \cup {Pill}
        /\ Tail(queue) \in Seq(Jobs \cup {Pill})
        /\ Len(Tail(queue)) = Len(queue) - 1
    BY <1>14 DEF Take, PopFront, TypeOK
  <2> QED
    BY <1>14, <2>1 DEF Take, PopFront, TypeOK
<1>15. ASSUME NEW r \in Ranks, Finish(r) PROVE TypeInv'
  BY <1>15 DEF Finish, TypeOK
<1>16. ASSUME NEW r \in Ranks, ClearTid(r) PROVE TypeInv'
  BY <1>16 DEF ClearTid, TypeOK
<1>17. ASSUME NEW r \in Ranks, Leave(r) PROVE TypeInv'
  BY <1>17 DEF Leave, TypeOK
<1>18. CASE UNCHANGED vars
  BY <1>18 DEF vars, TypeOK
<1> QED
  BY <1>1, <1>2, <1>3, <1>4, <1>5, <1>6, <1>7, <1>8, <1>9, <1>10, <1>11,
     <1>12, <1>13, <1>14, <1>15, <1>16, <1>17, <1>18
  DEF Next, Owner, Thread, Terminated

LEMMA TypeInvAlways == Spec => []TypeInv
  BY TypeInvInit, TypeInvStep, PTL DEF Spec

\* The pool's variables keep their types: above all the queue never outgrows
\* max_waiting and cur_thread_num never falls below 0.
THEOREM TypeCorrect == Spec => []TypeOK
<1>1. TypeInv => TypeOK
  BY DEF TypeInv
<1> QED
  BY <1>1, TypeInvAlways, PTL

-----------------------------------------------------------------------------
(* Ranks and slots.                                                        *)

\* While start runs there is no work, the first idx ranks may have threads, and
\* a rank goes to the finished queue only after all threads are created.
StartingSlots ==
  owner = "start" =>
    /\ queue = <<>> /\ sem = 0
    /\ \A r \in Ranks : pc[r] = "none" \/ (pc[r] = "wait" /\ r < idx)
    /\ finished # {} => InitThreads <= idx

\* Threads have the low ranks, and only a thread that will still clear its
\* slot has an id in it.
SlotsInv ==
  /\ StartingSlots
  /\ \A r \in Ranks : pc[r] # "none" => r < InitThreads
  /\ \A r \in Ranks : tids[r] = "id" => pc[r] \in {"wait", "take", "run", "exit"}
  /\ \A r \in finished : pc[r] \in {"none", "gone"}

LEMMA SlotsInvInit == Init => SlotsInv
  BY PoolAssumption DEF Init, SlotsInv, StartingSlots

LEMMA SlotsInvStep == TypeInv /\ SlotsInv /\ [Next]_vars => SlotsInv'
<1> SUFFICES ASSUME TypeInv, SlotsInv, [Next]_vars PROVE SlotsInv'
  OBVIOUS
<1> USE PoolAssumption DEF TypeInv, TypeOK, history, SlotsInv, StartingSlots, Ranks
<1>a. ASSUME UNCHANGED <<finished, tids, pc>>, owner' # "start" PROVE SlotsInv'
  BY <1>a
<1>1. CASE CreateThread
  BY <1>1 DEF CreateThread
<1>2. CASE SpareRank
  BY <1>2 DEF SpareRank
<1>3. CASE StartReturns
  BY <1>3 DEF StartReturns
<1>4. ASSUME NEW j \in Jobs, Submit(j) PROVE SlotsInv'
  BY <1>4, <1>a DEF Submit
<1>5. CASE Post
  BY <1>5, <1>a DEF Post
<1>6. CASE BeginStop
  BY <1>6, <1>a DEF BeginStop
<1>7. CASE RemoveThread
  BY <1>7, <1>a DEF RemoveThread
<1>8. CASE BeginJoin
  BY <1>8, <1>a DEF BeginJoin
<1>9. CASE ReadTid
  BY <1>9, <1>a DEF ReadTid
<1>10. CASE Joined
  BY <1>10, <1>a DEF Joined
<1>11. CASE StopReturns
  BY <1>11, <1>a DEF StopReturns
<1>12. CASE Distroy
  BY <1>12, <1>a DEF Distroy
<1>13. ASSUME NEW r \in Ranks, SemWait(r) PROVE SlotsInv'
  BY <1>13 DEF SemWait
<1>14. ASSUME NEW r \in Ranks, Take(r) PROVE SlotsInv'
  BY <1>14 DEF Take, PopFront
<1>15. ASSUME NEW r \in Ranks, Finish(r) PROVE SlotsInv'
  BY <1>15 DEF Finish
<1>16. ASSUME NEW r \in Ranks, ClearTid(r) PROVE SlotsInv'
  BY <1>16 DEF ClearTid
<1>17. ASSUME NEW r \in Ranks, Leave(r) PROVE SlotsInv'
  BY <1>17 DEF Leave
<1>18. CASE UNCHANGED vars
  BY <1>18 DEF vars
<1> QED
  BY <1>1, <1>2, <1>3, <1>4, <1>5, <1>6, <1>7, <1>8, <1>9, <1>10, <1>11,
     <1>12, <1>13, <1>14, <1>15, <1>16, <1>17, <1>18
  DEF Next, Owner, Thread, Terminated

LEMMA SlotsInvAlways == Spec => []SlotsInv
  BY SlotsInvInit, SlotsInvStep, TypeInvAlways, PTL DEF Spec

\* A rank in ptp->finished is no thread's any more: add_thread may reuse it.
THEOREM FinishedRanksFree == Spec => []FinishedRanksAreFree
<1>1. TypeInv /\ SlotsInv => FinishedRanksAreFree
  BY DEF TypeInv, TypeOK, SlotsInv, FinishedRanksAreFree
<1> QED
  BY <1>1, TypeInvAlways, SlotsInvAlways, PTL

-----------------------------------------------------------------------------
(* The semaphore counts the queue.                                         *)

Takers == {r \in Ranks : pc[r] = "take"}

\* A worker in the queue has been counted by the semaphore, or belongs to a
\* thread that came back from sem_wait, or to a push whose post is to come.
Unposted == IF owner \in {"post", "postPill"} THEN 1 ELSE 0

SemCounts == Len(queue) = sem + Cardinality(Takers) + Unposted

\* Rank r alone changed where it is: what becomes of the takers.
LEMMA TakersOfStep ==
  ASSUME TypeOK, NEW r \in Ranks, NEW s \in ThreadStates,
         pc' = [pc EXCEPT ![r] = s]
  PROVE  /\ Cardinality(Takers) \in Nat /\ Cardinality(Takers') \in Nat
         /\ s = "take" /\ pc[r] # "take" =>
              Cardinality(Takers') = Cardinality(Takers) + 1
         /\ s # "take" /\ pc[r] = "take" =>
              Cardinality(Takers') = Cardinality(Takers) - 1
         /\ s # "take" /\ pc[r] # "take" => Takers' = Takers
<1>1. IsFiniteSet(Takers) /\ IsFiniteSet(Takers')
  <2>1. IsFiniteSet(Ranks)
    BY PoolAssumption, FS_Interval DEF Ranks
  <2> QED
    BY <2>1, FS_Subset DEF Takers
<1>2. CASE s = "take"
  <2>1. Takers' = Takers \cup {r}
    BY <1>2 DEF Takers, TypeOK
  <2> QED
    BY <1>1, <1>2, <2>1, FS_AddElement, FS_CardinalityType DEF Takers
<1>3. CASE s # "take"
  <2>1. Takers' = Takers \ {r}
    BY <1>3 DEF Takers, TypeOK
  <2>2. pc[r] # "take" => Takers' = Takers
    BY <2>1 DEF Takers
  <2> QED
    <3>1. pc[r] = "take" => r \in Takers
      BY DEF Takers
    <3>2. Cardinality(Takers \ {r}) =
            IF r \in Takers THEN Cardinality(Takers) - 1 ELSE Cardinality(Takers)
      BY <1>1, FS_RemoveElement
    <3>3. Cardinality(Takers) \in Nat /\ Cardinality(Takers') \in Nat
      BY <1>1, FS_CardinalityType
    <3> QED
      BY <1>3, <2>1, <2>2, <3>1, <3>2, <3>3
<1> QED
  BY <1>2, <1>3

LEMMA TakersFinite == IsFiniteSet(Takers) /\ Cardinality(Takers) \in Nat
<1>1. IsFiniteSet(Ranks)
  BY PoolAssumption, FS_Interval DEF Ranks
<1> QED
  BY <1>1, FS_Subset, FS_CardinalityType DEF Takers

LEMMA SemCountsInit == Init => SemCounts
<1> SUFFICES ASSUME Init PROVE SemCounts
  OBVIOUS
<1>1. Takers = {}
  BY DEF Init, Takers
<1> QED
  BY <1>1, FS_EmptySet, EmptySeq DEF Init, SemCounts, Unposted

LEMMA SemCountsStep == TypeInv /\ SlotsInv /\ SemCounts /\ [Next]_vars => SemCounts'
<1> SUFFICES ASSUME TypeInv, SlotsInv, SemCounts, [Next]_vars PROVE SemCounts'
  OBVIOUS
<1> USE DEF history
<1>a. TypeOK /\ sem \in Nat /\ queue \in Seq(Jobs \cup {Pill})
  BY DEF TypeInv, TypeOK
<1>b. Cardinality(Takers) \in Nat
  BY TakersFinite
<1>c. ASSUME UNCHANGED <<queue, sem, pc>>, Unposted' = Unposted PROVE SemCounts'
  BY <1>c DEF SemCounts, Takers
<1>d. ASSUME NEW r \in Ranks, NEW s \in ThreadStates, UNCHANGED <<queue, sem, owner>>,
             pc' = [pc EXCEPT ![r] = s], s # "take", pc[r] # "take"
      PROVE  SemCounts'
  BY <1>a, <1>d, TakersOfStep DEF SemCounts, Unposted
<1>1. CASE CreateThread
  <2>1. idx \in Ranks /\ pc[idx] = "none" /\ "wait" \in ThreadStates
    BY <1>1, <1>a, PoolAssumption
    DEF CreateThread, TypeOK, Ranks, SlotsInv, StartingSlots, ThreadStates
  <2> QED
    BY <1>1, <1>d, <2>1 DEF CreateThread
<1>2. CASE SpareRank
  BY <1>2, <1>c DEF SpareRank, Unposted
<1>3. CASE StartReturns
  BY <1>3, <1>c DEF StartReturns, Unposted
<1>4. ASSUME NEW j \in Jobs, Submit(j) PROVE SemCounts'
  <2>1. CASE PushBack(j) /\ accepted' = accepted \cup {j} /\ owner' = "post"
             /\ UNCHANGED rejected
    BY <1>4, <1>a, <1>b, <2>1, PushBackTyped DEF Submit, SemCounts, Unposted, Takers
  <2>2. CASE IsFull /\ rejected' = rejected \cup {j}
             /\ UNCHANGED <<queue, accepted, owner>>
    BY <1>4, <1>c, <2>2 DEF Submit, Unposted
  <2> QED
    BY <1>4, <2>1, <2>2 DEF Submit
<1>5. CASE Post
  BY <1>5, <1>a, <1>b DEF Post, SemCounts, Unposted, Takers
<1>6. CASE BeginStop
  BY <1>6, <1>c DEF BeginStop, Unposted
<1>7. CASE RemoveThread
  <2>1. CASE PushBack(Pill) /\ owner' = "postPill" /\ UNCHANGED <<cur, dropped>>
    BY <1>7, <1>a, <1>b, <2>1, PushBackTyped DEF RemoveThread, SemCounts, Unposted, Takers
  <2>2. CASE IsFull /\ cur' = cur - 1 /\ dropped' = TRUE /\ UNCHANGED <<queue, owner>>
    BY <1>7, <1>c, <2>2 DEF RemoveThread, Unposted
  <2> QED
    BY <1>7, <2>1, <2>2 DEF RemoveThread
<1>8. CASE BeginJoin
  BY <1>8, <1>c DEF BeginJoin, Unposted
<1>9. CASE ReadTid
  BY <1>9, <1>c DEF ReadTid, Unposted
<1>10. CASE Joined
  BY <1>10, <1>c DEF Joined, Unposted
<1>11. CASE StopReturns
  BY <1>11, <1>c DEF StopReturns, Unposted
<1>12. CASE Distroy
  BY <1>12, <1>c DEF Distroy, Unposted
<1>13. ASSUME NEW r \in Ranks, SemWait(r) PROVE SemCounts'
  <2>1. Cardinality(Takers') = Cardinality(Takers) + 1
    BY <1>13, <1>a, TakersOfStep DEF SemWait, ThreadStates
  <2> QED
    BY <1>13, <1>a, <1>b, <2>1 DEF SemWait, SemCounts, Unposted
<1>14. ASSUME NEW r \in Ranks, Take(r) PROVE SemCounts'
  <2>1. Cardinality(Takers') = Cardinality(Takers) - 1
    <3> DEFINE s == IF Head(queue) = Pill THEN "exit" ELSE "run"
    <3>1. s \in ThreadStates /\ s # "take"
      BY DEF ThreadStates
    <3>2. pc[r] = "take" /\ pc' = [pc EXCEPT ![r] = s]
      BY <1>14 DEF Take, PopFront
    <3> HIDE DEF s
    <3> QED
      BY <1>a, <3>1, <3>2, TakersOfStep
  <2>2. Len(queue') = Len(queue) - 1
    BY <1>14, <1>a DEF Take, PopFront
  <2> QED
    BY <1>14, <1>a, <1>b, <2>1, <2>2 DEF Take, SemCounts, Unposted
<1>15. ASSUME NEW r \in Ranks, Finish(r) PROVE SemCounts'
  BY <1>15, <1>d DEF Finish, ThreadStates
<1>16. ASSUME NEW r \in Ranks, ClearTid(r) PROVE SemCounts'
  BY <1>16, <1>d DEF ClearTid, ThreadStates
<1>17. ASSUME NEW r \in Ranks, Leave(r) PROVE SemCounts'
  BY <1>17, <1>d DEF Leave, ThreadStates
<1>18. CASE UNCHANGED vars
  BY <1>18, <1>c DEF vars, Unposted
<1> QED
  BY <1>1, <1>2, <1>3, <1>4, <1>5, <1>6, <1>7, <1>8, <1>9, <1>10, <1>11,
     <1>12, <1>13, <1>14, <1>15, <1>16, <1>17, <1>18
  DEF Next, Owner, Thread, Terminated

LEMMA SemCountsAlways == Spec => []SemCounts
  BY SemCountsInit, SemCountsStep, TypeInvAlways, SlotsInvAlways, PTL DEF Spec

\* The assertion of thread_routine never fails: a thread that came back from
\* sem_wait finds a worker, because each semaphore unit and each such thread
\* has an entry of the queue to itself.
THEOREM SemAssertion == Spec => []SemMakesAssertTrue
<1>1. TypeInv /\ SemCounts => SemMakesAssertTrue
  <2> SUFFICES ASSUME TypeInv, SemCounts, NEW r \in Ranks, pc[r] = "take"
               PROVE  queue # <<>>
    BY DEF SemMakesAssertTrue
  <2>1. Cardinality(Takers) # 0
    BY TakersFinite, FS_EmptySet DEF Takers
  <2>2. sem \in Nat /\ Cardinality(Takers) \in Nat /\ Unposted \in {0, 1}
    BY TakersFinite DEF TypeInv, TypeOK, Unposted
  <2>3. Len(queue) # 0
    BY <2>1, <2>2 DEF SemCounts
  <2> QED
    BY <2>3, EmptySeq
<1> QED
  BY <1>1, TypeInvAlways, SemCountsAlways, PTL

=============================================================================
