------------------------------- MODULE Logger -------------------------------
(***************************************************************************)
(* The logger: utils/pomme_log.c on the queues of utils/pomme_queue.c.     *)
(*                                                                         *)
(* Any thread may log: it takes a slot, from free_slots or from malloc,    *)
(* fills it and pushes it to log_buffer.  One writer thread moves the      *)
(* whole buffer to a queue of its own, prints the entries and gives their  *)
(* slots back, until stop_logger tells it to close the loggers and end.    *)
(*                                                                         *)
(* A queue operation is one step, under the queue's mutex.  Messages that  *)
(* POMME_LOG does not log, for want of a logger or because their level is  *)
(* above global_log_level, are no calls here.                              *)
(***************************************************************************)
EXTENDS Integers, Sequences

CONSTANTS
  Callers,     \* threads that log
  Loggers,     \* loggers somebody creates
  NoSlot,        \* no slot, no message
  MaxLogQueue,    \* length of log_buffer and free_slots (1 000 000)
  MaxLoggers,  \* length of the queue of loggers (100)
  MaxLogs      \* bound: messages of one caller

ASSUME LoggerAssumption ==
  /\ MaxLogQueue \in Nat /\ MaxLoggers \in Nat /\ MaxLogs \in Nat
  /\ NoSlot \notin Int

VARIABLES
  slots,     \* how many log_t were ever allocated
  content,   \* what is in each of them
  free,      \* free_slots
  buffer,    \* log_buffer
  local,     \* the writer's local_logs
  logCount,  \* how many messages each caller has logged
  logPc,     \* where each caller is in add_log
  hold,      \* the slot it has
  wpc,       \* where the writer is
  wslot,     \* the slot it has
  loggers,   \* the queue of loggers
  opened,    \* loggers whose file is open
  created,   \* loggers that were ever created
  stopLog,   \* stop_log
  stopPc,    \* where the caller of stop_logger is
  accepted,  \* history: messages pushed to log_buffer
  written    \* history: messages printed

slotVars == <<slots, content, free>>
callVars == <<logCount, logPc, hold>>
stopVars == <<loggers, opened, created, stopLog, stopPc>>
logVars  == <<slotVars, buffer, local, callVars, wpc, wslot, stopVars,
              accepted, written>>

Slots    == Nat \ {0}
Messages == [by : Callers, n : 1 .. MaxLogs, to : Loggers]

\* init_log.
LogInit ==
  /\ slots = 0 /\ content = [s \in {} |-> NoSlot]
  /\ free = <<>> /\ buffer = <<>> /\ local = <<>>
  /\ logCount = [t \in Callers |-> 0]
  /\ logPc = [t \in Callers |-> "idle"]
  /\ hold = [t \in Callers |-> NoSlot]
  /\ wpc = "test" /\ wslot = NoSlot
  /\ loggers = <<>> /\ opened = {} /\ created = {}
  /\ stopLog = FALSE /\ stopPc = "running"
  /\ accepted = <<>> /\ written = <<>>

-----------------------------------------------------------------------------
(* The callers.                                                            *)

\* create_logger.  What queue_push_back says of a full queue is not looked at.
CreateLogger(l) ==
  /\ l \notin created
  /\ created' = created \cup {l}
  /\ opened' = opened \cup {l}
  /\ loggers' = IF Len(loggers) < MaxLoggers THEN Append(loggers, l) ELSE loggers
  /\ UNCHANGED <<slotVars, buffer, local, callVars, wpc, wslot, stopLog, stopPc,
                 accepted, written>>

\* add_log up to the slot: a free one, or one more when free_slots was empty
\* MAXLOGTRY times.
TakeSlot(t) ==
  /\ logPc[t] = "idle" /\ logCount[t] < MaxLogs
  /\ \/ /\ free # <<>>
        /\ hold' = [hold EXCEPT ![t] = Head(free)]
        /\ free' = Tail(free)
        /\ UNCHANGED <<slots, content>>
     \/ /\ free = <<>>
        /\ slots' = slots + 1
        /\ hold' = [hold EXCEPT ![t] = slots + 1]
        /\ content' = [s \in 1 .. slots + 1 |-> IF s \in 1 .. slots THEN content[s]
                                                               ELSE NoSlot]
        /\ UNCHANGED free
  /\ logPc' = [logPc EXCEPT ![t] = "fill"]
  /\ logCount' = [logCount EXCEPT ![t] = @ + 1]
  /\ UNCHANGED <<buffer, local, wpc, wslot, stopVars, accepted, written>>

\* add_log fills the slot.
Fill(t, l) ==
  /\ logPc[t] = "fill" /\ l \in created
  /\ content' = [content EXCEPT ![hold[t]] = [by |-> t, n |-> logCount[t], to |-> l]]
  /\ logPc' = [logPc EXCEPT ![t] = "push"]
  /\ UNCHANGED <<slots, free, buffer, local, logCount, hold, wpc, wslot, stopVars,
                 accepted, written>>

\* add_log pushes it.  When log_buffer is full the message is dropped, and
\* the slot with it.
PushLog(t) ==
  /\ logPc[t] = "push"
  /\ \/ /\ Len(buffer) < MaxLogQueue
        /\ buffer' = Append(buffer, hold[t])
        /\ accepted' = Append(accepted, content[hold[t]])
     \/ /\ Len(buffer) >= MaxLogQueue
        /\ UNCHANGED <<buffer, accepted>>
  /\ logPc' = [logPc EXCEPT ![t] = "idle"]
  /\ hold' = [hold EXCEPT ![t] = NoSlot]
  /\ UNCHANGED <<slotVars, local, logCount, wpc, wslot, stopVars, written>>

-----------------------------------------------------------------------------
(* The writer thread, write_log.                                           *)

\* The test of the outer loop; the loop's body forgets local_logs.
Test ==
  /\ wpc = "test"
  /\ IF stopLog THEN wpc' = "close" /\ UNCHANGED local
                ELSE wpc' = "wait" /\ local' = <<>>
  /\ UNCHANGED <<slotVars, buffer, callVars, wslot, stopVars, accepted, written>>

\* Mutant of Wait: stop_log is not looked at while the buffer is empty.
WaitForLog ==
  /\ wpc = "wait" /\ buffer # <<>>
  /\ wpc' = "move"
  /\ UNCHANGED <<slotVars, buffer, local, callVars, wslot, stopVars, accepted, written>>

\* The inner loop, left when something came or stop_log is set.
Wait ==
  /\ wpc = "wait" /\ (buffer # <<>> \/ stopLog)
  /\ wpc' = "move"
  /\ UNCHANGED <<slotVars, buffer, local, callVars, wslot, stopVars, accepted, written>>

\* queue_cpy_del.
Move ==
  /\ wpc = "move"
  /\ local' = buffer
  /\ buffer' = <<>>
  /\ wpc' = "drain"
  /\ UNCHANGED <<slotVars, callVars, wslot, stopVars, accepted, written>>

\* Mutant of Drained: the last entry of local_logs stays there.
DrainedEarly == Len(local) <= 1

Drained == local = <<>>

\* The front of local_logs is printed to the file of its logger.
PrintLog ==
  /\ wpc = "drain" /\ ~Drained
  /\ wslot' = Head(local)
  /\ local' = Tail(local)
  /\ written' = Append(written, content[Head(local)])
  /\ wpc' = "recycle"
  /\ UNCHANGED <<slotVars, buffer, callVars, stopVars, accepted>>

\* Mutant of Recycle: free_slots may be full.
RecycleAnyway ==
  /\ wpc = "recycle"
  /\ free' = Append(free, wslot)
  /\ wslot' = NoSlot
  /\ wpc' = "drain"
  /\ UNCHANGED <<slots, content, buffer, local, callVars, stopVars, accepted, written>>

\* Its slot becomes free, unless free_slots is full.
Recycle ==
  /\ wpc = "recycle"
  /\ free' = IF Len(free) < MaxLogQueue THEN Append(free, wslot) ELSE free
  /\ wslot' = NoSlot
  /\ wpc' = "drain"
  /\ UNCHANGED <<slots, content, buffer, local, callVars, stopVars, accepted, written>>

DrainEnds ==
  /\ wpc = "drain" /\ Drained
  /\ wpc' = "test"
  /\ UNCHANGED <<slotVars, buffer, local, callVars, wslot, stopVars, accepted, written>>

\* distory_logger for each logger in the queue, and the end.
CloseLoggers ==
  /\ wpc = "close"
  /\ IF loggers # <<>>
     THEN /\ opened' = opened \ {Head(loggers)}
          /\ loggers' = Tail(loggers)
          /\ UNCHANGED <<wpc, stopLog>>
     ELSE /\ stopLog' = FALSE
          /\ wpc' = "done"
          /\ UNCHANGED <<opened, loggers>>
  /\ UNCHANGED <<slotVars, buffer, local, callVars, wslot, created, stopPc,
                 accepted, written>>

-----------------------------------------------------------------------------
(* stop_logger.                                                            *)

\* Mutant of StopLogger: it closes the loggers itself.
StopLoggerCloses ==
  /\ stopPc = "running"
  /\ stopLog' = TRUE /\ stopPc' = "waiting"
  /\ opened' = {}
  /\ UNCHANGED <<slotVars, buffer, local, callVars, wpc, wslot, loggers, created,
                 accepted, written>>

StopLogger ==
  /\ stopPc = "running"
  /\ stopLog' = TRUE /\ stopPc' = "waiting"
  /\ UNCHANGED <<slotVars, buffer, local, callVars, wpc, wslot, loggers, opened,
                 created, accepted, written>>

StopReturns ==
  /\ stopPc = "waiting" /\ ~stopLog
  /\ stopPc' = "returned"
  /\ UNCHANGED <<slotVars, buffer, local, callVars, wpc, wslot, loggers, opened,
                 created, stopLog, accepted, written>>

-----------------------------------------------------------------------------
Writer == Test \/ Wait \/ Move \/ PrintLog \/ Recycle \/ DrainEnds \/ CloseLoggers

Caller(t) == (\E l \in Loggers : Fill(t, l)) \/ PushLog(t)

LogNext ==
  \/ \E l \in Loggers : CreateLogger(l)
  \/ \E t \in Callers : TakeSlot(t) \/ Caller(t)
  \/ Writer \/ StopLogger \/ StopReturns

LogSpec == LogInit /\ [][LogNext]_logVars

\* A thread inside add_log, the writer, whose waiting is a loop around
\* sleep(1), and a caller of stop_logger go on.
LogFairness ==
  /\ WF_logVars(Writer)
  /\ \A t \in Callers : WF_logVars(Caller(t))
  /\ WF_logVars(StopReturns)

-----------------------------------------------------------------------------
(* Properties.                                                             *)

SlotsOf(s) == {s[i] : i \in 1 .. Len(s)}
Distinct(s) == \A i, j \in 1 .. Len(s) : s[i] = s[j] => i = j

\* The slots in one place each: held by a caller or by the writer, or once in
\* one queue.
PlacesOfSlots ==
  /\ Distinct(free) /\ Distinct(buffer) /\ Distinct(local)
  /\ SlotsOf(free) \cap SlotsOf(buffer) = {}
  /\ SlotsOf(free) \cap SlotsOf(local) = {}
  /\ SlotsOf(buffer) \cap SlotsOf(local) = {}
  /\ \A t \in Callers :
       hold[t] # NoSlot =>
         /\ hold[t] \notin SlotsOf(free) \cup SlotsOf(buffer) \cup SlotsOf(local)
         /\ hold[t] # wslot
         /\ \A u \in Callers \ {t} : hold[u] # hold[t]
  /\ wslot # NoSlot =>
       wslot \notin SlotsOf(free) \cup SlotsOf(buffer) \cup SlotsOf(local)

\* Every variable has its type, and a slot has one owner.
LogTypeOK ==
  /\ slots \in Nat
  /\ content \in [1 .. slots -> Messages \cup {NoSlot}]
  /\ \A s \in {free, buffer, local} : s \in Seq(1 .. slots)
  /\ Len(free) <= MaxLogQueue /\ Len(buffer) <= MaxLogQueue
  /\ logCount \in [Callers -> 0 .. MaxLogs]
  /\ logPc \in [Callers -> {"idle", "fill", "push"}]
  /\ hold \in [Callers -> (1 .. slots) \cup {NoSlot}]
  /\ \A t \in Callers : (hold[t] = NoSlot) = (logPc[t] = "idle")
  /\ wpc \in {"test", "wait", "move", "drain", "recycle", "close", "done"}
  /\ wslot \in (1 .. slots) \cup {NoSlot}
  /\ (wslot # NoSlot) = (wpc = "recycle")
  /\ loggers \in Seq(Loggers) /\ opened \subseteq created /\ created \subseteq Loggers
  /\ stopLog \in BOOLEAN /\ stopPc \in {"running", "waiting", "returned"}
  /\ PlacesOfSlots

Contents(s) == [i \in 1 .. Len(s) |-> content[s[i]]]

\* Between the callers and the file no accepted message is lost, repeated,
\* overtaken or overwritten in its slot: what was pushed to log_buffer is what
\* is printed, followed by what the writer took, followed by what is queued.
NothingLost == accepted = written \o Contents(local) \o Contents(buffer)

\* The writer never prints through a logger it has closed (distory_logger).
PrintsToOpenFiles ==
  [][written' # written => written'[Len(written')].to \in opened]_logVars

\* An accepted message is printed unless stop_logger is called.
LoggedIsWritten ==
  \A m \in Messages :
    (\E i \in 1 .. Len(accepted) : accepted[i] = m) ~>
      (stopPc # "running" \/ \E i \in 1 .. Len(written) : written[i] = m)

\* stop_logger returns.
StopEnds == stopPc = "waiting" ~> stopPc = "returned"

=============================================================================
