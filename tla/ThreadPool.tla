----------------------------- MODULE ThreadPool -----------------------------
(***************************************************************************)
(* The worker pool of utils/pomme_thread.c over the bounded queue of       *)
(* utils/pomme_queue.c.                                                    *)
(*                                                                         *)
(* One owner thread starts the pool, hands it work, stops it and destroys  *)
(* it ("only the one thread will do these things"); every pool thread runs *)
(* thread_routine.  They share the work queue, the semaphore that counts   *)
(* it, the tids array and the queue of free ranks.  A step is what the     *)
(* code does between two points where another thread can be seen: a queue  *)
(* operation (under the queue's mutex), a semaphore operation, a write of  *)
(* a tids slot.                                                            *)
(*                                                                         *)
(* add_thread has no action: it passes the new thread a stack frame whose  *)
(* ptp was never set, and nothing in the repository calls it.              *)
(***************************************************************************)
EXTENDS Integers, Sequences, FiniteSets

CONSTANTS
  MaxThreads,    \* max_thread_num: the length of tids
  InitThreads,   \* cur_thread_num when start is called
  MaxWaiting,    \* max_waiting: the bound of the work queue
  Jobs,          \* the pieces of work the owner may submit, each at most once
  Pill           \* the worker with process = NULL that remove_thread queues

ASSUME PoolAssumption ==
  /\ MaxThreads \in Nat /\ InitThreads \in Nat /\ InitThreads <= MaxThreads
  /\ MaxWaiting \in Nat
  /\ Pill \notin Jobs

Ranks == 0 .. MaxThreads - 1

VARIABLES
  queue,     \* ptp->workers
  sem,       \* ptp->sem
  finished,  \* ptp->finished: the ranks no thread uses
  tids,      \* ptp->tids: "id", "zero", or "junk" left by malloc
  cur,       \* ptp->cur_thread_num
  owner,     \* where the owner thread is
  idx,       \* its loop counter in start and in stop
  pc,        \* where the thread of each rank is
  work,      \* the worker that thread holds (Pill also stands for none)
  accepted,  \* history: the jobs add_worker queued
  rejected,  \* history: the jobs add_worker refused
  done,      \* history: the jobs whose process returned
  dropped,   \* history: a pill found the queue full
  freed      \* distroy has freed ptp->finished

vars == <<queue, sem, finished, tids, cur, owner, idx, pc, work,
          accepted, rejected, done, dropped, freed>>

history == <<accepted, rejected, done, dropped>>

OwnerStates == {"start", "serve", "post", "stop", "postPill", "join",
                "joining", "stopped", "destroyed", "crashed"}

ThreadStates == {"none", "wait", "take", "run", "exit", "leave", "gone"}

\* pomme_tp_init: the queues are empty, the semaphore is 0, and the tids
\* array holds whatever malloc returned.
Init ==
  /\ queue = <<>> /\ sem = 0 /\ finished = {}
  /\ tids \in [Ranks -> {"zero", "junk"}]
  /\ cur = InitThreads
  /\ owner = "start" /\ idx = 0
  /\ pc = [r \in Ranks |-> "none"]
  /\ work = [r \in Ranks |-> Pill]
  /\ accepted = {} /\ rejected = {} /\ done = {}
  /\ dropped = FALSE /\ freed = FALSE

\* Mutant of IsFull: off by one.
IsFullLate == Len(queue) > MaxWaiting

\* is_full of pomme_queue.h.
IsFull == Len(queue) >= MaxWaiting

\* Mutant of PushBack: the new worker goes to the head.
PushFront(w) ==
  /\ ~IsFull
  /\ queue' = <<w>> \o queue

\* queue_push_back on ptp->workers, when it has room.
PushBack(w) ==
  /\ ~IsFull
  /\ queue' = Append(queue, w)

\* queue_get_front on ptp->workers, when it is not empty.
PopFront == queue # <<>> /\ queue' = Tail(queue)

-----------------------------------------------------------------------------
(* The owner.                                                              *)

\* start, first loop: pthread_create writes the slot, then the thread runs.
CreateThread ==
  /\ owner = "start" /\ idx < InitThreads
  /\ tids' = [tids EXCEPT ![idx] = "id"]
  /\ pc' = [pc EXCEPT ![idx] = "wait"]
  /\ idx' = idx + 1
  /\ UNCHANGED <<queue, sem, finished, cur, owner, work, history, freed>>

\* Mutant of SpareRank: every rank is pushed, those of live threads included.
SpareEveryRank ==
  /\ owner = "start" /\ InitThreads <= idx /\ idx < MaxThreads
  /\ finished' = finished \cup {idx, idx - InitThreads}
  /\ idx' = idx + 1
  /\ UNCHANGED <<queue, sem, tids, cur, owner, pc, work, history, freed>>

\* start, second loop: the ranks of no thread go to the finished queue.
SpareRank ==
  /\ owner = "start" /\ InitThreads <= idx /\ idx < MaxThreads
  /\ finished' = finished \cup {idx}
  /\ idx' = idx + 1
  /\ UNCHANGED <<queue, sem, tids, cur, owner, pc, work, history, freed>>

StartReturns ==
  /\ owner = "start" /\ idx = MaxThreads
  /\ owner' = "serve"
  /\ UNCHANGED <<queue, sem, finished, tids, cur, idx, pc, work, history, freed>>

Submitted == accepted \cup rejected

\* add_worker up to the return of queue_push_back.
Submit(j) ==
  /\ owner = "serve" /\ j \notin Submitted
  /\ \/ /\ PushBack(j)
        /\ accepted' = accepted \cup {j}
        /\ owner' = "post"
        /\ UNCHANGED rejected
     \/ /\ IsFull                        \* POMME_THREAD_POOL_FULL
        /\ rejected' = rejected \cup {j}
        /\ UNCHANGED <<queue, accepted, owner>>
  /\ UNCHANGED <<sem, finished, tids, cur, idx, pc, work, done, dropped, freed>>

\* Mutant of Post: add_worker forgets sem_post.
PostForgotten ==
  /\ \/ owner = "post" /\ owner' = "serve" /\ cur' = cur /\ sem' = sem
     \/ owner = "postPill" /\ owner' = "stop" /\ cur' = cur - 1 /\ sem' = sem + 1
  /\ UNCHANGED <<queue, finished, tids, idx, pc, work, history, freed>>

\* sem_post in add_worker; in remove_thread cur_thread_num-- follows it.
Post ==
  /\ \/ owner = "post" /\ owner' = "serve" /\ cur' = cur
     \/ owner = "postPill" /\ owner' = "stop" /\ cur' = cur - 1
  /\ sem' = sem + 1
  /\ UNCHANGED <<queue, finished, tids, idx, pc, work, history, freed>>

BeginStop ==
  /\ owner = "serve"
  /\ owner' = "stop"
  /\ UNCHANGED <<queue, sem, finished, tids, cur, idx, pc, work, history, freed>>

\* Mutant of RemoveThread: the semaphore is posted for a dropped pill too.
RemoveThreadPosts ==
  /\ owner = "stop" /\ cur > 0
  /\ \/ PushBack(Pill)
     \/ IsFull /\ UNCHANGED queue
  /\ owner' = "postPill"
  /\ UNCHANGED <<sem, finished, tids, cur, idx, pc, work, history, freed>>

\* extend_pool(ptp, 0 - cur_thread_num): remove_thread queues one pill per
\* thread.  It does not look at add_worker's result: on a full queue the pill
\* is dropped, no sem_post happens, and cur_thread_num is decremented anyway.
RemoveThread ==
  /\ owner = "stop" /\ cur > 0
  /\ \/ /\ PushBack(Pill)
        /\ owner' = "postPill"
        /\ UNCHANGED <<cur, dropped>>
     \/ /\ IsFull
        /\ cur' = cur - 1
        /\ dropped' = TRUE
        /\ UNCHANGED <<queue, owner>>
  /\ UNCHANGED <<sem, finished, tids, idx, pc, work, accepted, rejected, done, freed>>

BeginJoin ==
  /\ owner = "stop" /\ cur = 0
  /\ owner' = "join" /\ idx' = 0
  /\ UNCHANGED <<queue, sem, finished, tids, cur, pc, work, history, freed>>

\* stop's loop reads tids[idx]: 0 is skipped, a live id is joined, and what
\* malloc left there is either refused by pthread_join or kills the process.
ReadTid ==
  /\ owner = "join" /\ idx < MaxThreads
  /\ \/ tids[idx] \in {"zero", "junk"} /\ idx' = idx + 1 /\ owner' = owner
     \/ tids[idx] = "id" /\ idx' = idx /\ owner' = "joining"
     \/ tids[idx] = "junk" /\ idx' = idx /\ owner' = "crashed"
  /\ UNCHANGED <<queue, sem, finished, tids, cur, pc, work, history, freed>>

\* pthread_join returns when the thread has left thread_routine.
Joined ==
  /\ owner = "joining" /\ pc[idx] = "gone"
  /\ owner' = "join" /\ idx' = idx + 1
  /\ UNCHANGED <<queue, sem, finished, tids, cur, pc, work, history, freed>>

StopReturns ==
  /\ owner = "join" /\ idx = MaxThreads
  /\ owner' = "stopped"
  /\ UNCHANGED <<queue, sem, finished, tids, cur, idx, pc, work, history, freed>>

\* pomme_tp_distroy after stop: destroy_queue refuses a queue with entries.
Distroy ==
  /\ owner = "stopped"
  /\ owner' = "destroyed"
  /\ freed' = (finished = {})
  /\ UNCHANGED <<queue, sem, finished, tids, cur, idx, pc, work, history>>

-----------------------------------------------------------------------------
(* thread_routine, for the thread of rank r.                               *)

SemWait(r) ==
  /\ pc[r] = "wait" /\ sem > 0
  /\ sem' = sem - 1
  /\ pc' = [pc EXCEPT ![r] = "take"]
  /\ UNCHANGED <<queue, finished, tids, cur, owner, idx, work, history, freed>>

\* queue_get_front and the test of process.
Take(r) ==
  /\ pc[r] = "take" /\ PopFront
  /\ work' = [work EXCEPT ![r] = Head(queue)]
  /\ pc' = [pc EXCEPT ![r] = IF Head(queue) = Pill THEN "exit" ELSE "run"]
  /\ UNCHANGED <<sem, finished, tids, cur, owner, idx, history, freed>>

\* process returned; its argument and the worker are freed.
Finish(r) ==
  /\ pc[r] = "run"
  /\ done' = done \cup {work[r]}
  /\ work' = [work EXCEPT ![r] = Pill]
  /\ pc' = [pc EXCEPT ![r] = "wait"]
  /\ UNCHANGED <<queue, sem, finished, tids, cur, owner, idx,
                 accepted, rejected, dropped, freed>>

ClearTid(r) ==
  /\ pc[r] = "exit"
  /\ tids' = [tids EXCEPT ![r] = "zero"]
  /\ pc' = [pc EXCEPT ![r] = "leave"]
  /\ UNCHANGED <<queue, sem, finished, cur, owner, idx, work, history, freed>>

Leave(r) ==
  /\ pc[r] = "leave"
  /\ finished' = finished \cup {r}
  /\ pc' = [pc EXCEPT ![r] = "gone"]
  /\ UNCHANGED <<queue, sem, tids, cur, owner, idx, work, history, freed>>

Owner ==
  \/ CreateThread \/ SpareRank \/ StartReturns
  \/ \E j \in Jobs : Submit(j)
  \/ Post \/ BeginStop \/ RemoveThread \/ BeginJoin
  \/ ReadTid \/ Joined \/ StopReturns \/ Distroy

Thread(r) == SemWait(r) \/ Take(r) \/ Finish(r) \/ ClearTid(r) \/ Leave(r)

\* The pool is destroyed, or the process is dead: nothing is left to do.
Terminated ==
  /\ \/ owner = "crashed"
     \/ owner = "destroyed" /\ \A r \in Ranks : pc[r] \in {"none", "gone"}
  /\ UNCHANGED vars

Running == owner # "crashed"

Next ==
  \/ Running /\ (Owner \/ \E r \in Ranks : Thread(r))
  \/ Terminated

Spec == Init /\ [][Next]_vars

\* The scheduler runs every thread that can move, and the work terminates.
\* Whether the owner ever submits or stops is its caller's choice, but an
\* operation it has begun it finishes.
OwnerStep ==
  CreateThread \/ SpareRank \/ StartReturns \/ Post \/ RemoveThread
  \/ BeginJoin \/ ReadTid \/ Joined \/ StopReturns

FairSpec ==
  /\ Spec
  /\ WF_vars(Running /\ OwnerStep)
  /\ \A r \in Ranks : WF_vars(Running /\ Thread(r))

-----------------------------------------------------------------------------
(* Properties.                                                             *)

\* Type invariant: what each variable of the pool can hold.
TypeOK ==
  /\ queue \in Seq(Jobs \cup {Pill}) /\ Len(queue) <= MaxWaiting
  /\ sem \in Nat
  /\ finished \subseteq Ranks
  /\ tids \in [Ranks -> {"id", "zero", "junk"}]
  /\ cur \in 0 .. InitThreads
  /\ owner \in OwnerStates /\ idx \in 0 .. MaxThreads
  /\ pc \in [Ranks -> ThreadStates]
  /\ work \in [Ranks -> Jobs \cup {Pill}]
  /\ accepted \subseteq Jobs /\ rejected \subseteq Jobs /\ done \subseteq Jobs
  /\ dropped \in BOOLEAN /\ freed \in BOOLEAN

\* "The sem make this assert true" (pomme_thread.c:188): a thread that came
\* back from sem_wait finds a worker in the queue, whatever the other threads
\* took meanwhile and however many pushes were refused.
SemMakesAssertTrue == \A r \in Ranks : pc[r] = "take" => queue # <<>>

\* When stop has returned, every job add_worker accepted has been run to its
\* end and no thread is left in the routine before its exit: the pills never
\* overtake work.
StopDrains ==
  owner \in {"stopped", "destroyed"} =>
    /\ queue = <<>>
    /\ accepted \subseteq done
    /\ \A r \in Ranks : pc[r] \in {"none", "leave", "gone"}

\* A rank in the finished queue is one add_thread may give to a new thread:
\* no thread of that rank will touch its slot or the pool again.
FinishedRanksAreFree ==
  \A r \in finished : pc[r] \in {"none", "gone"} /\ tids[r] # "id"

\* An accepted job is run, whatever is submitted after it and even when the
\* pool is stopped behind it.
AcceptedJobsFinish ==
  \A j \in Jobs : j \in accepted ~> j \in done \/ owner = "crashed"

\* stop returns when none of its pills was dropped: every thread gets one,
\* behind the waiting work, and is joined or found gone.
StopTerminates ==
  owner = "join" /\ ~dropped ~> owner \in {"stopped", "crashed"}

\* pomme_thread.h:56 says of extend_pool "if n > 0 the number of current
\* thread will +n ,else -": once extend_pool(-cur) has counted a thread out,
\* that thread leaves.
RemovedThreadsLeave ==
  (owner \in {"join", "joining"} /\ cur = 0)
    ~> \A r \in Ranks : pc[r] \in {"none", "gone"}

\* distroy gives back the queues of a pool whose threads are joined: no thread
\* still has its last queue_push_back on ptp->finished to do.
QueuesOutliveThreads == freed => \A r \in Ranks : pc[r] # "leave"

=============================================================================
