----------------------------- MODULE UtilsProofs ----------------------------
(***************************************************************************)
(* The logger, the hash table, the ring buffer and the stream, for every   *)
(* number of callers, keys and buckets, size of the buffer and message;    *)
(* and at the end the five utilities side by side, as MCUtils runs them.   *)
(*                                                                         *)
(* Logger: its type with the places of the slots, no accepted message      *)
(* lost, and no print to a closed file.  The message stays in its slot     *)
(* until it is printed because a slot has one owner: the caller that fills *)
(* it holds it, and what is queued is held by nobody.                      *)
(*                                                                         *)
(* PommeHash: its type, in which a key has one node, values within their   *)
(* memory, and the refinement of KeyMap.                                   *)
(*                                                                         *)
(* Stream: its type, what read_data returns, and what pomme_rpc_read says  *)
(* of it, however the stream is cut: the reader is at the size of the next *)
(* item, or inside its bytes, or at the end of a stream that was cut short.*)
(*                                                                         *)
(* RingBuffer: its type, and that a chunk pomme_buffer_next hands out      *)
(* touches no piece in use.  The code keeps two positions only.  What      *)
(* makes them enough is the order of the pieces: seen from begin they come *)
(* in the order in which they will be released, first those from begin on  *)
(* (BeforeWrap), and then, once the end has wrapped, those before end.  A  *)
(* release therefore never uncovers a piece that is still needed.          *)
(***************************************************************************)
EXTENDS MCUtils, FastBitProofs, SequenceTheorems

-----------------------------------------------------------------------------
(* Sequences without repetition.                                           *)

\* Names for \o and Append: under their own, the provers take a sequence apart
\* into its elements instead of using an equation between sequences.
Joined(a, b) == a \o b
Longer(a, e) == Append(a, e)

LEMMA ElementsOf ==
  ASSUME NEW S, NEW s \in Seq(S)
  PROVE  /\ SlotsOf(s) \subseteq S
         /\ \A i \in 1 .. Len(s) : s[i] \in SlotsOf(s) /\ s[i] \in S
  BY DEF SlotsOf

LEMMA AppendDistinct ==
  ASSUME NEW S, NEW s \in Seq(S), NEW e \in S
  PROVE  /\ \A x : x \in SlotsOf(Longer(s, e)) <=> x \in SlotsOf(s) \/ x = e
         /\ Distinct(s) /\ e \notin SlotsOf(s) => Distinct(Longer(s, e))
  <1> DEFINE t == Longer(s, e)
  <1>1. /\ Len(t) = Len(s) + 1 /\ Len(s) \in Nat
        /\ \A i \in 1 .. Len(s) : t[i] = s[i]
        /\ t[Len(s) + 1] = e
    BY DEF Longer
  <1> HIDE DEF t
  <1>2. 1 .. Len(t) = (1 .. Len(s)) \cup {Len(s) + 1} BY <1>1
  <1>3. SlotsOf(t) = SlotsOf(s) \cup {e} BY <1>1, <1>2 DEF SlotsOf
  <1>4. ASSUME Distinct(s), e \notin SlotsOf(s) PROVE Distinct(t)
    BY <1>1, <1>2, <1>4 DEF Distinct, SlotsOf
  <1> QED BY <1>3, <1>4 DEF t

LEMMA TailDistinct ==
  ASSUME NEW S, NEW s \in Seq(S), s # <<>>, Distinct(s)
  PROVE  /\ Distinct(Tail(s)) /\ Tail(s) \in Seq(S)
         /\ Head(s) \in SlotsOf(s) /\ Head(s) \in S
         /\ SlotsOf(Tail(s)) = SlotsOf(s) \ {Head(s)}
  <1> DEFINE t == Tail(s)
  <1>1. /\ t \in Seq(S) /\ Len(t) = Len(s) - 1 /\ Len(s) \in Nat \ {0} /\ Head(s) = s[1]
        /\ \A i \in 1 .. Len(t) : t[i] = s[i + 1]
        /\ Head(s) \in S
    BY HeadTailProperties
  <1> HIDE DEF t
  <1>2. Distinct(t)
    <2> SUFFICES ASSUME NEW i \in 1 .. Len(t), NEW j \in 1 .. Len(t), t[i] = t[j]
                 PROVE i = j
      BY DEF Distinct
    <2>1. i + 1 \in 1 .. Len(s) /\ j + 1 \in 1 .. Len(s) BY <1>1
    <2>2. s[i + 1] = s[j + 1] BY <1>1
    <2> QED BY <2>1, <2>2 DEF Distinct
  <1>3. Head(s) \in SlotsOf(s) BY <1>1 DEF SlotsOf
  <1>4. ASSUME NEW x \in SlotsOf(t) PROVE x \in SlotsOf(s) /\ x # Head(s)
    <2>1. PICK i \in 1 .. Len(t) : x = t[i] BY <1>4 DEF SlotsOf
    <2>2. i + 1 \in 1 .. Len(s) /\ x = s[i + 1] BY <1>1, <2>1
    <2>3. i + 1 # 1 /\ 1 \in 1 .. Len(s) BY <1>1
    <2> QED BY <1>1, <2>2, <2>3 DEF Distinct, SlotsOf
  <1>5. ASSUME NEW x \in SlotsOf(s), x # Head(s) PROVE x \in SlotsOf(t)
    <2>1. PICK i \in 1 .. Len(s) : x = s[i] BY <1>5 DEF SlotsOf
    <2>2. i - 1 \in 1 .. Len(t) BY <1>1, <1>5, <2>1
    <2>3. t[i - 1] = s[i] BY <1>1, <2>2
    <2> QED BY <2>1, <2>2, <2>3 DEF SlotsOf
  <1> QED BY <1>1, <1>2, <1>3, <1>4, <1>5 DEF t

LEMMA EmptyDistinct == SlotsOf(<<>>) = {} /\ Distinct(<<>>)
  BY DEF SlotsOf, Distinct

\* An element appended behind two sequences is appended to the second.
LEMMA AppendBehind ==
  ASSUME NEW S, NEW a \in Seq(S), NEW b \in Seq(S), NEW e \in S
  PROVE  Longer(Joined(a, b), e) = Joined(a, Longer(b, e))
  <1>1. a \o b \in Seq(S) /\ <<e>> \in Seq(S) BY ConcatProperties
  <1>2. Append(a \o b, e) = (a \o b) \o <<e>> BY <1>1, AppendIsConcat
  <1>3. (a \o b) \o <<e>> = a \o (b \o <<e>>) BY <1>1, ConcatAssociative
  <1>4. Append(b, e) = b \o <<e>> BY AppendIsConcat
  <1> QED BY <1>2, <1>3, <1>4 DEF Longer, Joined

\* The head of the second of two sequences may as well end the first.
LEMMA HeadMoves ==
  ASSUME NEW S, NEW a \in Seq(S), NEW b \in Seq(S), b # <<>>
  PROVE  Joined(Longer(a, Head(b)), Tail(b)) = Joined(a, b)
  <1>1. Head(b) \in S /\ Tail(b) \in Seq(S) /\ <<Head(b)>> \in Seq(S)
    BY HeadTailProperties
  <1>2. Append(a, Head(b)) = a \o <<Head(b)>> BY <1>1, AppendIsConcat
  <1>3. (a \o <<Head(b)>>) \o Tail(b) = a \o (<<Head(b)>> \o Tail(b))
    BY <1>1, ConcatAssociative
  <1>4. <<Head(b)>> \o Tail(b) = b
    <2> DEFINE u == <<Head(b)>>
               v == u \o Tail(b)
    <2>1. u \in Seq(S) /\ Len(u) = 1 /\ u[1] = Head(b) BY <1>1
    <2> HIDE DEF u
    <2>2. v \in Seq(S) /\ Len(v) = 1 + Len(Tail(b))
          /\ \A i \in 1 .. 1 + Len(Tail(b)) : v[i] = IF i <= 1 THEN u[i] ELSE Tail(b)[i - 1]
      <3>1. /\ v \in Seq(S) /\ Len(v) = Len(u) + Len(Tail(b))
            /\ \A i \in 1 .. Len(u) + Len(Tail(b)) :
                 v[i] = IF i <= Len(u) THEN u[i] ELSE Tail(b)[i - Len(u)]
        BY <1>1, <2>1, ConcatProperties
      <3> HIDE DEF v
      <3> QED BY <3>1, <2>1
    <2> HIDE DEF v
    <2>3. Len(Tail(b)) = Len(b) - 1 /\ Len(b) \in Nat \ {0} /\ Head(b) = b[1]
          /\ \A i \in 1 .. Len(Tail(b)) : Tail(b)[i] = b[i + 1]
      BY HeadTailProperties
    <2>4. Len(v) = Len(b) BY <2>2, <2>3
    <2>5. ASSUME NEW i \in 1 .. Len(v) PROVE v[i] = b[i]
      <3>1. CASE i = 1 BY <3>1, <2>1, <2>2, <2>3
      <3>2. CASE i # 1
        <4>1. i - 1 \in 1 .. Len(Tail(b)) BY <3>2, <2>2, <2>3
        <4>2. v[i] = Tail(b)[i - 1] BY <3>2, <2>2
        <4>3. Tail(b)[i - 1] = b[(i - 1) + 1] BY <4>1, <2>3
        <4>4. (i - 1) + 1 = i OBVIOUS
        <4> QED BY <4>2, <4>3, <4>4
      <3> QED BY <3>1, <3>2
    <2>6. v = b BY <2>2, <2>4, <2>5, SeqEqual
    <2> QED BY <2>6 DEF u, v
  <1> QED BY <1>2, <1>3, <1>4 DEF Longer, Joined

-----------------------------------------------------------------------------
(* Logger: the inductive invariant.                                        *)

\* A message for a logger that somebody created.
Logged(m) == m \in Messages /\ m.to \in created

\* What is queued, or about to be, is a filled slot, and a call under way is
\* counted.
Filled ==
  /\ \A s \in SlotsOf(buffer) \cup SlotsOf(local) : Logged(content[s])
  /\ \A t \in Callers : logPc[t] = "push" => Logged(content[hold[t]])
  /\ \A t \in Callers : logPc[t] # "idle" => logCount[t] # 0

\* The writer has entries of its own only while it drains them, and closes
\* loggers only after it has left its loop.
WriterInv ==
  /\ wpc \notin {"drain", "recycle"} => local = <<>>
  /\ wpc \notin {"close", "done"} => opened = created

HistoryInv == accepted \in Seq(Messages) /\ written \in Seq(Messages) /\ NothingLost

LogInv == LogTypeOK /\ Filled /\ WriterInv /\ HistoryInv

-----------------------------------------------------------------------------
(* What the actions share.                                                 *)

\* A held slot is a slot.
LEMMA HeldIsSlot ==
  ASSUME LogTypeOK
  PROVE  /\ \A t \in Callers : logPc[t] # "idle" => hold[t] \in 1 .. slots /\ hold[t] # NoSlot
         /\ wpc = "recycle" => wslot \in 1 .. slots
         /\ NoSlot \notin 1 .. slots
  BY LoggerAssumption DEF LogTypeOK

\* What is queued are slots.
LEMMA QueuedAreSlots ==
  ASSUME LogTypeOK
  PROVE  /\ SlotsOf(free) \subseteq 1 .. slots /\ SlotsOf(buffer) \subseteq 1 .. slots
         /\ SlotsOf(local) \subseteq 1 .. slots
         /\ free \in Seq(1 .. slots) /\ buffer \in Seq(1 .. slots)
         /\ local \in Seq(1 .. slots)
  BY ElementsOf DEF LogTypeOK

\* The contents of filled slots are messages.
LEMMA ContentsAreMessages ==
  ASSUME NEW s \in Seq(1 .. slots), slots \in Nat, \A x \in SlotsOf(s) : Logged(content[x])
  PROVE  Contents(s) \in Seq(Messages) /\ Len(Contents(s)) = Len(s)
  <1>1. Len(s) \in Nat OBVIOUS
  <1>2. \A i \in 1 .. Len(s) : content[s[i]] \in Messages BY ElementsOf DEF Logged
  <1>3. Contents(s) \in [1 .. Len(s) -> Messages] BY <1>2 DEF Contents
  <1> DEFINE n == Len(s)
             c == Contents(s)
  <1>4. n \in Nat /\ c \in [1 .. n -> Messages] BY <1>1, <1>3
  <1> HIDE DEF n, c
  <1>5. c \in Seq(Messages) /\ Len(c) = n BY <1>4
  <1> QED BY <1>5 DEF n, c

\* The contents of a sequence of slots do not change with other slots.
LEMMA ContentsStay ==
  ASSUME NEW s, NEW c, \A x \in SlotsOf(s) : c[x] = content[x]
  PROVE  [i \in 1 .. Len(s) |-> c[s[i]]] = Contents(s)
  BY DEF Contents, SlotsOf

\* A slot more, a content more.
LEMMA ContentsAppend ==
  ASSUME NEW s \in Seq(1 .. slots), NEW e \in 1 .. slots, slots \in Nat,
         \A x \in SlotsOf(s) : Logged(content[x]), Logged(content[e])
  PROVE  Contents(Append(s, e)) = Append(Contents(s), content[e])
  <1> DEFINE a == Contents(Append(s, e))
             b == Append(Contents(s), content[e])
  <1>1. /\ Append(s, e) \in Seq(1 .. slots) /\ SlotsOf(Append(s, e)) = SlotsOf(s) \cup {e}
        /\ Len(Append(s, e)) = Len(s) + 1 /\ Len(s) \in Nat
        /\ \A i \in 1 .. Len(s) : Append(s, e)[i] = s[i]
        /\ Append(s, e)[Len(s) + 1] = e
    <2>1. \A x : x \in SlotsOf(Longer(s, e)) <=> x \in SlotsOf(s) \/ x = e BY AppendDistinct
    <2> QED BY <2>1 DEF Longer
  <1>2. a \in Seq(Messages) /\ Len(a) = Len(s) + 1 BY <1>1, ContentsAreMessages
  <1>3. Contents(s) \in Seq(Messages) /\ Len(Contents(s)) = Len(s) /\ content[e] \in Messages
    BY ContentsAreMessages DEF Logged
  <1>4. /\ b \in Seq(Messages) /\ Len(b) = Len(s) + 1
        /\ \A i \in 1 .. Len(s) : b[i] = Contents(s)[i]
        /\ b[Len(s) + 1] = content[e]
    BY <1>3
  <1>5. \A i \in 1 .. Len(s) : a[i] = content[s[i]] /\ Contents(s)[i] = content[s[i]]
    BY <1>1 DEF Contents
  <1>6. a[Len(s) + 1] = content[e] BY <1>1 DEF Contents
  <1> HIDE DEF a, b
  <1>7. ASSUME NEW i \in 1 .. Len(a) PROVE a[i] = b[i]
    <2>1. CASE i \in 1 .. Len(s) BY <2>1, <1>4, <1>5
    <2>2. CASE i = Len(s) + 1
      <3>1. a[i] = content[e] BY <2>2, <1>6
      <3>2. b[i] = content[e] BY <2>2, <1>4
      <3> QED BY <3>1, <3>2
    <2> QED BY <2>1, <2>2, <1>1, <1>2
  <1>8. a = b BY <1>2, <1>4, <1>7, SeqEqual
  <1> QED BY <1>8 DEF a, b

\* The first slot and the others.
LEMMA ContentsTail ==
  ASSUME NEW s \in Seq(1 .. slots), s # <<>>, slots \in Nat,
         \A x \in SlotsOf(s) : Logged(content[x])
  PROVE  /\ Contents(s) # <<>>
         /\ Head(Contents(s)) = content[Head(s)]
         /\ Tail(Contents(s)) = Contents(Tail(s))
  <1> DEFINE c == Contents(s)
             a == Tail(c)
             b == Contents(Tail(s))
  <1>1. Tail(s) \in Seq(1 .. slots) /\ Len(Tail(s)) = Len(s) - 1 /\ Len(s) \in Nat \ {0}
        /\ Head(s) = s[1]
        /\ \A i \in 1 .. Len(Tail(s)) : Tail(s)[i] = s[i + 1]
    BY HeadTailProperties
  <1>2. c \in Seq(Messages) /\ Len(c) = Len(s) BY ContentsAreMessages
  <1>3. \A i \in 1 .. Len(s) : c[i] = content[s[i]] BY DEF Contents
  <1>4. \A x \in SlotsOf(Tail(s)) : x \in SlotsOf(s)
    <2> SUFFICES ASSUME NEW i \in 1 .. Len(Tail(s)) PROVE Tail(s)[i] \in SlotsOf(s)
      BY DEF SlotsOf
    <2> QED BY <1>1 DEF SlotsOf
  <1>5. b \in Seq(Messages) /\ Len(b) = Len(s) - 1
    BY <1>1, <1>4, ContentsAreMessages
  <1>6. \A i \in 1 .. Len(s) - 1 : b[i] = content[s[i + 1]] BY <1>1 DEF Contents
  <1> HIDE DEF b, c
  <1>7. c # <<>> /\ Head(c) = c[1] BY <1>1, <1>2
  <1>8. a \in Seq(Messages) /\ Len(a) = Len(s) - 1
        /\ \A i \in 1 .. Len(s) - 1 : a[i] = c[i + 1]
    BY <1>1, <1>2, <1>7, HeadTailProperties
  <1> HIDE DEF a
  <1>9. \A i \in 1 .. Len(a) : a[i] = b[i]
    <2> SUFFICES ASSUME NEW i \in 1 .. Len(a) PROVE a[i] = b[i] OBVIOUS
    <2>1. i \in 1 .. Len(s) - 1 /\ i + 1 \in 1 .. Len(s) BY <1>1, <1>8
    <2> QED BY <2>1, <1>3, <1>6, <1>8
  <1>10. a = b BY <1>5, <1>8, <1>9, SeqEqual
  <1>11. 1 \in 1 .. Len(s) BY <1>1
  <1>12. c[1] = content[Head(s)] BY <1>1, <1>3, <1>11
  <1> QED BY <1>7, <1>10, <1>12 DEF a, b, c

-----------------------------------------------------------------------------
(* Logger: each step keeps the invariant.                                  *)

LEMMA LogInitInv == LogInit => LogInv
  <1> SUFFICES ASSUME LogInit PROVE LogInv OBVIOUS
  <1> USE LoggerAssumption
  <1>1. SlotsOf(free) = {} /\ SlotsOf(buffer) = {} /\ SlotsOf(local) = {}
        /\ Distinct(free) /\ Distinct(buffer) /\ Distinct(local)
    BY EmptyDistinct DEF LogInit
  <1>2. PlacesOfSlots BY <1>1 DEF LogInit, PlacesOfSlots
  <1>3. content \in [1 .. slots -> Messages \cup {NoSlot}] BY DEF LogInit
  <1>4. LogTypeOK
    <2>1. \A s \in {free, buffer, local} : s \in Seq(1 .. slots)
      <3>1. <<>> \in Seq(1 .. slots) BY EmptySeq
      <3>2. free = <<>> /\ buffer = <<>> /\ local = <<>> BY DEF LogInit
      <3> QED BY <3>1, <3>2
    <2>2. Len(free) <= MaxLogQueue /\ Len(buffer) <= MaxLogQueue BY DEF LogInit
    <2>3. /\ logCount \in [Callers -> 0 .. MaxLogs]
          /\ logPc \in [Callers -> {"idle", "fill", "push"}]
          /\ hold \in [Callers -> (1 .. slots) \cup {NoSlot}]
          /\ \A t \in Callers : (hold[t] = NoSlot) = (logPc[t] = "idle")
      BY DEF LogInit
    <2>4. loggers \in Seq(Loggers) BY DEF LogInit
    <2> QED BY <1>2, <1>3, <2>1, <2>2, <2>3, <2>4 DEF LogInit, LogTypeOK
  <1>5. Filled /\ WriterInv BY <1>1 DEF LogInit, Filled, WriterInv
  <1>6. Contents(local) = <<>> /\ Contents(buffer) = <<>> BY DEF LogInit, Contents
  <1>7. accepted = <<>> /\ written = <<>> BY DEF LogInit
  <1>8. HistoryInv BY <1>6, <1>7 DEF HistoryInv, NothingLost
  <1> QED BY <1>4, <1>5, <1>8 DEF LogInv

\* Steps that touch neither slots nor queues nor the histories.
LEMMA SlotsKept ==
  ASSUME LogInv, UNCHANGED <<slotVars, buffer, local, hold, wslot, accepted, written>>,
         created \subseteq created', logPc' = logPc, logCount' = logCount
  PROVE  PlacesOfSlots' /\ Filled' /\ HistoryInv'
  <1>1. PlacesOfSlots'
    <2>1. free' = free /\ buffer' = buffer /\ local' = local BY DEF slotVars
    <2>2. SlotsOf(free)' = SlotsOf(free) /\ SlotsOf(buffer)' = SlotsOf(buffer)
          /\ SlotsOf(local)' = SlotsOf(local)
      BY <2>1 DEF SlotsOf
    <2>3. Distinct(free)' = Distinct(free) /\ Distinct(buffer)' = Distinct(buffer)
          /\ Distinct(local)' = Distinct(local)
      BY <2>1 DEF Distinct
    <2> QED BY <2>2, <2>3 DEF LogInv, LogTypeOK, PlacesOfSlots
  <1>2. Filled' BY DEF LogInv, Filled, Logged, slotVars, SlotsOf
  <1>3. HistoryInv' BY DEF LogInv, HistoryInv, NothingLost, Contents, slotVars
  <1> QED BY <1>1, <1>2, <1>3

\* A new logger's file is open.
LEMMA CreateLoggerInv ==
  ASSUME LogInv, NEW l \in Loggers, CreateLogger(l) PROVE LogInv'
  <1>1. PlacesOfSlots' /\ Filled' /\ HistoryInv'
    BY SlotsKept DEF CreateLogger, callVars
  <1>2. LogTypeOK' BY <1>1 DEF LogInv, LogTypeOK, CreateLogger, callVars, slotVars
  <1>3. WriterInv' BY DEF LogInv, WriterInv, CreateLogger
  <1> QED BY <1>1, <1>2, <1>3 DEF LogInv

\* The writer's moves without a slot; it closes a logger after its loop only.
LEMMA WriterMovesInv ==
  ASSUME LogInv, Test \/ Wait \/ DrainEnds \/ CloseLoggers PROVE LogInv'
  <1>1. UNCHANGED <<slotVars, buffer, callVars, wslot, created, stopPc, accepted, written>>
    BY DEF Test, Wait, DrainEnds, CloseLoggers, stopVars
  <1>2. local' = local BY DEF LogInv, WriterInv, Test, Wait, DrainEnds, CloseLoggers
  <1>3. PlacesOfSlots' /\ Filled' /\ HistoryInv' BY <1>1, <1>2, SlotsKept DEF callVars
  <1>4. /\ wpc' \in {"test", "wait", "move", "drain", "recycle", "close", "done"}
        /\ (wslot' # NoSlot) = (wpc' = "recycle")
        /\ stopLog' \in BOOLEAN
        /\ loggers' \in Seq(Loggers) /\ opened' \subseteq created
    <2> USE <1>1 DEF LogInv, LogTypeOK
    <2>1. CASE Test BY <2>1 DEF Test, stopVars
    <2>2. CASE Wait BY <2>2 DEF Wait, stopVars
    <2>3. CASE DrainEnds BY <2>3 DEF DrainEnds, stopVars
    <2>4. CASE CloseLoggers
      <3>1. CASE loggers = <<>> BY <2>4, <3>1 DEF CloseLoggers
      <3>2. CASE loggers # <<>>
        <4>1. Tail(loggers) \in Seq(Loggers) BY <3>2, HeadTailProperties
        <4> QED BY <2>4, <3>2, <4>1 DEF CloseLoggers
      <3> QED BY <3>1, <3>2
    <2> QED BY <2>1, <2>2, <2>3, <2>4
  <1>5. LogTypeOK' BY <1>1, <1>2, <1>3, <1>4 DEF LogInv, LogTypeOK, callVars, slotVars
  <1>6. WriterInv'
    BY <1>1, <1>2 DEF LogInv, WriterInv, Test, Wait, DrainEnds, Drained, CloseLoggers, stopVars
  <1> QED BY <1>3, <1>5, <1>6 DEF LogInv

LEMMA StopInv == ASSUME LogInv, StopLogger \/ StopReturns PROVE LogInv'
  <1>1. PlacesOfSlots' /\ Filled' /\ HistoryInv'
    BY SlotsKept DEF StopLogger, StopReturns, callVars
  <1>2. LogTypeOK'
    <2>1. CASE StopLogger BY <1>1, <2>1 DEF LogInv, LogTypeOK, StopLogger, callVars, slotVars
    <2>2. CASE StopReturns BY <1>1, <2>2 DEF LogInv, LogTypeOK, StopReturns, callVars, slotVars
    <2> QED BY <2>1, <2>2
  <1>3. WriterInv' BY DEF LogInv, WriterInv, StopLogger, StopReturns
  <1> QED BY <1>1, <1>2, <1>3 DEF LogInv

\* A caller takes a free slot or a new one: nobody else has it.
LEMMA TakeSlotInv == ASSUME LogInv, NEW t \in Callers, TakeSlot(t) PROVE LogInv'
  <1> USE LoggerAssumption DEF LogInv
  <1> DEFINE h == hold'[t]
  <1>1. LogTypeOK /\ PlacesOfSlots /\ slots \in Nat /\ hold[t] = NoSlot
    BY DEF LogTypeOK, TakeSlot
  <1>2. /\ buffer' = buffer /\ local' = local /\ wslot' = wslot /\ wpc' = wpc
        /\ accepted' = accepted /\ written' = written /\ created' = created
        /\ logPc' = [logPc EXCEPT ![t] = "fill"]
        /\ logCount' = [logCount EXCEPT ![t] = @ + 1] /\ logCount[t] < MaxLogs
        /\ logPc[t] = "idle"
        /\ UNCHANGED stopVars
    BY DEF TakeSlot, stopVars
  <1>3. hold' = [hold EXCEPT ![t] = h] BY DEF TakeSlot, LogTypeOK
  <1>4. /\ slots' \in Nat /\ 1 .. slots \subseteq 1 .. slots'
        /\ free' \in Seq(1 .. slots') /\ Len(free') <= MaxLogQueue
        /\ h \in 1 .. slots' /\ h \notin SlotsOf(free') \cup SlotsOf(buffer) \cup SlotsOf(local)
        /\ h # wslot /\ \A u \in Callers : hold[u] # h
        /\ Distinct(free') /\ SlotsOf(free') \subseteq SlotsOf(free)
        /\ content' \in [1 .. slots' -> Messages \cup {NoSlot}]
        /\ \A s \in 1 .. slots : content'[s] = content[s]
    <2>1. CASE free # <<>>
      <3>1. /\ h = Head(free) /\ free' = Tail(free) /\ slots' = slots /\ content' = content
        BY <2>1 DEF TakeSlot, LogTypeOK
      <3>2. free \in Seq(1 .. slots) /\ Distinct(free) /\ Len(free) <= MaxLogQueue
        BY <1>1 DEF LogTypeOK, PlacesOfSlots
      <3>3. /\ Distinct(Tail(free)) /\ Tail(free) \in Seq(1 .. slots)
            /\ Head(free) \in SlotsOf(free) /\ Head(free) \in 1 .. slots
            /\ SlotsOf(Tail(free)) = SlotsOf(free) \ {Head(free)}
        BY <2>1, <3>2, TailDistinct
      <3>4. Len(Tail(free)) <= MaxLogQueue
        BY <2>1, <3>2, HeadTailProperties
      <3>5. h # wslot /\ \A u \in Callers : hold[u] # h
        BY <1>1, <3>1, <3>3, HeldIsSlot DEF PlacesOfSlots
      <3>6. h \notin SlotsOf(buffer) \cup SlotsOf(local)
        BY <1>1, <3>1, <3>3 DEF PlacesOfSlots
      <3> QED BY <1>1, <3>1, <3>3, <3>4, <3>5, <3>6 DEF LogTypeOK
    <2>2. CASE free = <<>>
      <3>1. /\ h = slots + 1 /\ free' = <<>> /\ slots' = slots + 1
            /\ content' = [s \in 1 .. slots + 1 |-> IF s \in 1 .. slots THEN content[s]
                                                                        ELSE NoSlot]
        BY <2>2 DEF TakeSlot, LogTypeOK
      <3>2. content' \in [1 .. slots' -> Messages \cup {NoSlot}]
            /\ \A s \in 1 .. slots : content'[s] = content[s]
        BY <1>1, <3>1 DEF LogTypeOK
      <3>3. SlotsOf(free') = {} /\ Distinct(free') /\ free' \in Seq(1 .. slots') /\ Len(free') = 0
        BY <3>1, EmptyDistinct, EmptySeq
      <3>4. h \notin 1 .. slots /\ h # NoSlot /\ h \in 1 .. slots' BY <1>1, <3>1
      <3>5. h \notin SlotsOf(buffer) \cup SlotsOf(local) BY <1>1, <3>4, QueuedAreSlots
      <3>6. h # wslot /\ \A u \in Callers : hold[u] # h BY <1>1, <3>4 DEF LogTypeOK
      <3> QED BY <1>1, <3>1, <3>2, <3>3, <3>4, <3>5, <3>6
    <2> QED BY <2>1, <2>2
  <1> HIDE DEF h
  <1>5. buffer' \in Seq(1 .. slots') /\ local' \in Seq(1 .. slots')
    BY <1>1, <1>2, <1>4, SeqMonotonic, QueuedAreSlots
  <1>6. SlotsOf(buffer)' = SlotsOf(buffer) /\ SlotsOf(local)' = SlotsOf(local)
        /\ SlotsOf(free)' = SlotsOf(free')
        /\ Distinct(buffer)' = Distinct(buffer) /\ Distinct(local)' = Distinct(local)
        /\ Distinct(free)' = Distinct(free')
    BY <1>2 DEF SlotsOf, Distinct
  <1>7. \A u \in Callers : hold'[u] = IF u = t THEN h ELSE hold[u]
    BY <1>3 DEF LogTypeOK
  <1>8. PlacesOfSlots'
    <2>1. ASSUME NEW u \in Callers, hold'[u] # NoSlot
          PROVE /\ hold'[u] \notin SlotsOf(free') \cup SlotsOf(buffer) \cup SlotsOf(local)
                /\ hold'[u] # wslot
                /\ \A x \in Callers \ {u} : hold'[x] # hold'[u]
      <3>1. CASE u = t BY <3>1, <1>4, <1>7
      <3>2. CASE u # t BY <3>2, <2>1, <1>1, <1>4, <1>7 DEF PlacesOfSlots
      <3> QED BY <3>1, <3>2
    <2>2. wslot # NoSlot => wslot \notin SlotsOf(free') \cup SlotsOf(buffer) \cup SlotsOf(local)
      BY <1>1, <1>4 DEF PlacesOfSlots
    <2> QED BY <1>1, <1>2, <1>4, <1>6, <2>1, <2>2 DEF PlacesOfSlots
  <1>9. LogTypeOK'
    <2>1. /\ logCount' \in [Callers -> 0 .. MaxLogs]
          /\ logPc' \in [Callers -> {"idle", "fill", "push"}]
      BY <1>2 DEF LogTypeOK
    <2>2. hold' \in [Callers -> (1 .. slots') \cup {NoSlot}] BY <1>3, <1>4 DEF LogTypeOK
    <2>3. \A u \in Callers : (hold'[u] = NoSlot) = (logPc'[u] = "idle")
      BY <1>2, <1>4, <1>7 DEF LogTypeOK
    <2>4. wslot' \in (1 .. slots') \cup {NoSlot} BY <1>2, <1>4 DEF LogTypeOK
    <2> QED BY <1>2, <1>4, <1>5, <1>8, <2>1, <2>2, <2>3, <2>4 DEF LogTypeOK, stopVars
  <1>10. Filled'
    <2>1. \A s \in SlotsOf(buffer) \cup SlotsOf(local) : content'[s] = content[s]
      BY <1>1, <1>4, QueuedAreSlots
    <2>2. \A u \in Callers : logPc'[u] = "push" =>
            logPc[u] = "push" /\ hold'[u] = hold[u] /\ content'[hold[u]] = content[hold[u]]
      BY <1>1, <1>2, <1>4, <1>7, HeldIsSlot DEF LogTypeOK
    <2>3. \A u \in Callers : logPc'[u] # "idle" => logCount'[u] # 0
      BY <1>1, <1>2, LoggerAssumption DEF Filled, LogTypeOK
    <2> QED BY <1>2, <1>6, <2>1, <2>2, <2>3 DEF Filled, Logged
  <1>11. HistoryInv'
    <2>1. \A s \in SlotsOf(buffer) \cup SlotsOf(local) : content'[s] = content[s]
      BY <1>1, <1>4, QueuedAreSlots
    <2>2. Contents(buffer)' = Contents(buffer) /\ Contents(local)' = Contents(local)
      BY <1>2, <2>1 DEF Contents, SlotsOf
    <2> QED BY <1>2, <2>2 DEF HistoryInv, NothingLost
  <1>12. WriterInv' BY <1>2 DEF WriterInv, stopVars
  <1> QED BY <1>9, <1>10, <1>11, <1>12

\* A caller fills the slot it holds, which is in no queue.
LEMMA FillInv ==
  ASSUME LogInv, NEW t \in Callers, NEW l \in Loggers, Fill(t, l) PROVE LogInv'
  <1> USE DEF LogInv
  <1> DEFINE m == [by |-> t, n |-> logCount[t], to |-> l]
  <1>1. LogTypeOK /\ PlacesOfSlots /\ hold[t] \in 1 .. slots /\ hold[t] # NoSlot
    BY HeldIsSlot DEF Fill, LogTypeOK
  <1>2. /\ content' = [content EXCEPT ![hold[t]] = m]
        /\ logPc' = [logPc EXCEPT ![t] = "push"] /\ logPc[t] = "fill"
        /\ UNCHANGED <<slots, free, buffer, local, logCount, hold, wpc, wslot, stopVars,
                       accepted, written>>
    BY DEF Fill
  <1>3. m \in Messages /\ m.to \in created
    <2>1. logCount[t] \in 1 .. MaxLogs
      BY <1>2, LoggerAssumption DEF LogTypeOK, Filled
    <2> QED BY <2>1 DEF Messages, Fill
  <1> HIDE DEF m
  <1>4. /\ content' \in [1 .. slots -> Messages \cup {NoSlot}]
        /\ content'[hold[t]] = m
        /\ \A s \in 1 .. slots : s # hold[t] => content'[s] = content[s]
    BY <1>1, <1>2, <1>3 DEF LogTypeOK
  <1>5. \A s \in SlotsOf(buffer) \cup SlotsOf(local) : content'[s] = content[s]
    BY <1>1, <1>4, QueuedAreSlots DEF PlacesOfSlots
  <1>6. /\ SlotsOf(free)' = SlotsOf(free) /\ SlotsOf(buffer)' = SlotsOf(buffer)
        /\ SlotsOf(local)' = SlotsOf(local) /\ Distinct(free)' = Distinct(free)
        /\ Distinct(buffer)' = Distinct(buffer) /\ Distinct(local)' = Distinct(local)
    BY <1>2 DEF SlotsOf, Distinct
  <1>7. PlacesOfSlots' BY <1>1, <1>2, <1>6 DEF PlacesOfSlots
  <1>8. LogTypeOK'
    <2>1. logPc' \in [Callers -> {"idle", "fill", "push"}] BY <1>2 DEF LogTypeOK
    <2>2. \A u \in Callers : (hold'[u] = NoSlot) = (logPc'[u] = "idle")
      BY <1>1, <1>2 DEF LogTypeOK
    <2> QED BY <1>2, <1>4, <1>7, <2>1, <2>2 DEF LogTypeOK, stopVars
  <1>9. Filled'
    <2>1. ASSUME NEW u \in Callers, logPc'[u] = "push" PROVE Logged(content'[hold[u]])
      <3>1. CASE u = t BY <3>1, <1>3, <1>4 DEF Logged
      <3>2. CASE u # t
        <4>1. logPc[u] = "push" BY <3>2, <2>1, <1>2 DEF LogTypeOK
        <4>2. hold[u] \in 1 .. slots /\ hold[u] # hold[t]
          BY <3>2, <4>1, <1>1, HeldIsSlot DEF PlacesOfSlots
        <4> QED BY <4>1, <4>2, <1>4 DEF Filled
      <3> QED BY <3>1, <3>2
    <2>2. \A u \in Callers : logPc'[u] # "idle" => logCount'[u] # 0
      BY <1>2 DEF Filled, LogTypeOK
    <2> QED BY <1>2, <1>5, <1>6, <2>1, <2>2 DEF Filled, Logged, stopVars
  <1>10. HistoryInv'
    <2>1. Contents(buffer)' = Contents(buffer) /\ Contents(local)' = Contents(local)
      BY <1>2, <1>5 DEF Contents, SlotsOf
    <2> QED BY <1>2, <2>1 DEF HistoryInv, NothingLost
  <1>11. WriterInv' BY <1>2 DEF WriterInv, stopVars
  <1> QED BY <1>8, <1>9, <1>10, <1>11

\* The slot leaves its holder for the end of the buffer, or for nowhere.
LEMMA PushLogInv == ASSUME LogInv, NEW t \in Callers, PushLog(t) PROVE LogInv'
  <1> USE DEF LogInv
  <1> DEFINE h == hold[t]
  <1>1. LogTypeOK /\ PlacesOfSlots /\ h \in 1 .. slots /\ h # NoSlot /\ slots \in Nat
        /\ Logged(content[h])
    BY HeldIsSlot DEF PushLog, LogTypeOK, Filled
  <1>2. /\ logPc' = [logPc EXCEPT ![t] = "idle"] /\ logPc[t] = "push"
        /\ hold' = [hold EXCEPT ![t] = NoSlot]
        /\ slots' = slots /\ content' = content /\ free' = free /\ local' = local
        /\ UNCHANGED <<logCount, wpc, wslot, stopVars, written>>
    BY DEF PushLog, slotVars
  <1>3. /\ buffer \in Seq(1 .. slots) /\ h \notin SlotsOf(buffer) /\ Distinct(buffer)
        /\ \A x \in SlotsOf(buffer) \cup SlotsOf(local) : Logged(content[x])
    BY <1>1, QueuedAreSlots DEF PlacesOfSlots, Filled
  <1>4. /\ SlotsOf(buffer') \subseteq SlotsOf(buffer) \cup {h} /\ Distinct(buffer')
        /\ buffer' \in Seq(1 .. slots) /\ Len(buffer') <= MaxLogQueue
        /\ accepted' \in Seq(Messages)
        /\ accepted' = written \o Contents(local) \o Contents(buffer')
    <2>1. CASE Len(buffer) < MaxLogQueue
      <3>1. buffer' = Append(buffer, h) /\ accepted' = Append(accepted, content[h])
        <4>1. Len(buffer) \in Nat /\ MaxLogQueue \in Nat BY <1>3, LoggerAssumption
        <4>2. ~(Len(buffer) >= MaxLogQueue) BY <2>1, <4>1
        <4> QED BY <4>2 DEF PushLog
      <3>2. /\ SlotsOf(Append(buffer, h)) = SlotsOf(buffer) \cup {h}
            /\ Distinct(Append(buffer, h))
        <4>1. /\ \A x : x \in SlotsOf(Longer(buffer, h)) <=> x \in SlotsOf(buffer) \/ x = h
              /\ Distinct(Longer(buffer, h))
          BY <1>1, <1>3, AppendDistinct
        <4> QED BY <4>1 DEF Longer
      <3>3. Append(buffer, h) \in Seq(1 .. slots) /\ Len(Append(buffer, h)) = Len(buffer) + 1
            /\ Len(buffer) \in Nat
        BY <1>1, <1>3
      <3>4. content[h] \in Messages /\ accepted \in Seq(Messages) /\ written \in Seq(Messages)
        BY <1>1 DEF Logged, HistoryInv
      <3>5. Contents(buffer) \in Seq(Messages) /\ Contents(local) \in Seq(Messages)
        BY <1>1, <1>3, ContentsAreMessages, QueuedAreSlots
      <3>6. Contents(Append(buffer, h)) = Append(Contents(buffer), content[h])
        BY <1>1, <1>3, ContentsAppend
      <3>7. written \o Contents(local) \in Seq(Messages) BY <3>4, <3>5, ConcatProperties
      <3>8. Append((written \o Contents(local)) \o Contents(buffer), content[h])
              = (written \o Contents(local)) \o Append(Contents(buffer), content[h])
        <4>1. Joined(written, Contents(local)) \in Seq(Messages) BY <3>7 DEF Joined
        <4>2. Longer(Joined(Joined(written, Contents(local)), Contents(buffer)), content[h])
                = Joined(Joined(written, Contents(local)), Longer(Contents(buffer), content[h]))
          BY <4>1, <3>4, <3>5, AppendBehind
        <4> QED BY <4>2 DEF Longer, Joined
      <3>9. accepted' = (written \o Contents(local)) \o Contents(buffer')
        BY <3>1, <3>6, <3>8 DEF HistoryInv, NothingLost
      <3>10. accepted' \in Seq(Messages) BY <3>1, <3>4
      <3>11. Len(buffer') <= MaxLogQueue BY <2>1, <3>1, <3>3, LoggerAssumption
      <3> QED BY <3>1, <3>2, <3>3, <3>9, <3>10, <3>11
    <2>2. CASE ~(Len(buffer) < MaxLogQueue)
      <3>1. buffer' = buffer /\ accepted' = accepted BY <2>2 DEF PushLog
      <3> QED BY <3>1, <1>3 DEF HistoryInv, NothingLost, LogTypeOK
    <2> QED BY <2>1, <2>2
  <1>5. /\ SlotsOf(free)' = SlotsOf(free) /\ SlotsOf(local)' = SlotsOf(local)
        /\ SlotsOf(buffer)' = SlotsOf(buffer')
        /\ Distinct(free)' = Distinct(free) /\ Distinct(local)' = Distinct(local)
        /\ Distinct(buffer)' = Distinct(buffer')
    BY <1>2 DEF SlotsOf, Distinct
  <1>6. \A u \in Callers : hold'[u] = IF u = t THEN NoSlot ELSE hold[u]
    BY <1>2 DEF LogTypeOK
  <1>7. PlacesOfSlots'
    <2>1. ASSUME NEW u \in Callers, hold'[u] # NoSlot
          PROVE /\ hold'[u] \notin SlotsOf(free) \cup SlotsOf(buffer') \cup SlotsOf(local)
                /\ hold'[u] # wslot
                /\ \A x \in Callers \ {u} : hold'[x] # hold'[u]
      <3>1. u # t /\ hold'[u] = hold[u] BY <2>1, <1>6
      <3>2. hold[u] # h BY <3>1, <2>1, <1>1 DEF PlacesOfSlots
      <3> QED BY <3>1, <3>2, <2>1, <1>1, <1>4, <1>6 DEF PlacesOfSlots
    <2>2. h \notin SlotsOf(free) \cup SlotsOf(local) /\ h # wslot
      BY <1>1 DEF PlacesOfSlots
    <2>3. /\ SlotsOf(free) \cap SlotsOf(buffer') = {}
          /\ SlotsOf(buffer') \cap SlotsOf(local) = {}
          /\ wslot # NoSlot => wslot \notin SlotsOf(free) \cup SlotsOf(buffer') \cup SlotsOf(local)
      BY <2>2, <1>1, <1>4 DEF PlacesOfSlots
    <2> HIDE DEF h
    <2> QED BY <1>1, <1>2, <1>4, <1>5, <2>1, <2>3 DEF PlacesOfSlots
  <1>8. LogTypeOK'
    <2>1. logPc' \in [Callers -> {"idle", "fill", "push"}] BY <1>2 DEF LogTypeOK
    <2>2. \A u \in Callers : (hold'[u] = NoSlot) = (logPc'[u] = "idle")
      BY <1>1, <1>2, <1>6 DEF LogTypeOK
    <2>3. hold' \in [Callers -> (1 .. slots) \cup {NoSlot}] BY <1>2 DEF LogTypeOK
    <2> HIDE DEF h
    <2> QED BY <1>2, <1>4, <1>7, <2>1, <2>2, <2>3 DEF LogTypeOK, stopVars
  <1>9. Filled'
    <2>1. \A u \in Callers : logPc'[u] = "push" => logPc[u] = "push" /\ hold'[u] = hold[u]
      BY <1>2, <1>6 DEF LogTypeOK
    <2>2. \A x \in SlotsOf(buffer') \cup SlotsOf(local) : Logged(content[x])
      BY <1>1, <1>3, <1>4
    <2>3. \A u \in Callers : logPc'[u] # "idle" => logCount'[u] # 0
      BY <1>2 DEF Filled, LogTypeOK
    <2> QED BY <1>2, <1>5, <2>1, <2>2, <2>3 DEF Filled, Logged, stopVars
  <1>10. HistoryInv'
    <2>1. Contents(buffer)' = Contents(buffer') /\ Contents(local)' = Contents(local)
      BY <1>2 DEF Contents
    <2> QED BY <1>2, <1>4, <2>1 DEF HistoryInv, NothingLost
  <1>11. WriterInv' BY <1>2 DEF WriterInv, stopVars
  <1> QED BY <1>8, <1>9, <1>10, <1>11

\* The writer, which has nothing, takes the whole buffer.
LEMMA MoveInv == ASSUME LogInv, Move PROVE LogInv'
  <1> USE DEF LogInv
  <1>1. LogTypeOK /\ PlacesOfSlots /\ local = <<>> BY DEF LogTypeOK, Move, WriterInv
  <1>2. /\ local' = buffer /\ buffer' = <<>> /\ wpc' = "drain" /\ wpc = "move"
        /\ slots' = slots /\ content' = content /\ free' = free
        /\ UNCHANGED <<logCount, logPc, hold, wslot, stopVars, accepted, written>>
    BY DEF Move, slotVars, callVars
  <1>3. /\ SlotsOf(free)' = SlotsOf(free) /\ SlotsOf(local)' = SlotsOf(buffer)
        /\ SlotsOf(buffer)' = {} /\ Distinct(buffer)'
        /\ Distinct(free)' = Distinct(free) /\ Distinct(local)' = Distinct(buffer)
    BY <1>2 DEF SlotsOf, Distinct
  <1>4. PlacesOfSlots' BY <1>1, <1>2, <1>3 DEF PlacesOfSlots
  <1>5. LogTypeOK'
    <2>1. <<>> \in Seq(1 .. slots) /\ Len(<<>>) = 0 BY EmptySeq
    <2> QED BY <1>1, <1>2, <1>4, <2>1, LoggerAssumption DEF LogTypeOK, stopVars
  <1>6. Filled' BY <1>2, <1>3 DEF Filled, Logged, stopVars
  <1>7. HistoryInv'
    <2>1. Contents(local)' = Contents(buffer) /\ Contents(buffer)' = <<>>
          /\ Contents(local) = <<>>
      BY <1>1, <1>2 DEF Contents
    <2>2. Contents(buffer) \in Seq(Messages) /\ written \in Seq(Messages)
      BY <1>1, QueuedAreSlots, ContentsAreMessages DEF HistoryInv, Filled, LogTypeOK
    <2>3. written \o <<>> = written BY <2>2, ConcatEmptySeq
    <2>4. written \o Contents(buffer) \in Seq(Messages) BY <2>2, ConcatProperties
    <2>5. (written \o Contents(buffer)) \o <<>> = written \o Contents(buffer)
      BY <2>4, ConcatEmptySeq
    <2> QED BY <1>2, <2>1, <2>3, <2>5 DEF HistoryInv, NothingLost
  <1>8. WriterInv' BY <1>2 DEF WriterInv, stopVars
  <1> QED BY <1>5, <1>6, <1>7, <1>8

\* The writer prints the first of its entries.
LEMMA PrintLogInv == ASSUME LogInv, PrintLog PROVE LogInv'
  <1> USE DEF LogInv
  <1>1. /\ LogTypeOK /\ PlacesOfSlots /\ slots \in Nat /\ local # <<>>
        /\ local \in Seq(1 .. slots) /\ Distinct(local)
    BY QueuedAreSlots DEF LogTypeOK, PrintLog, PlacesOfSlots, Drained
  <1>2. /\ wslot' = Head(local) /\ local' = Tail(local) /\ wpc' = "recycle" /\ wpc = "drain"
        /\ written' = Append(written, content[Head(local)])
        /\ slots' = slots /\ content' = content /\ free' = free /\ buffer' = buffer
        /\ UNCHANGED <<logCount, logPc, hold, stopVars, accepted>>
    BY DEF PrintLog, slotVars, callVars
  <1>3. /\ Distinct(Tail(local)) /\ Tail(local) \in Seq(1 .. slots)
        /\ Head(local) \in SlotsOf(local) /\ Head(local) \in 1 .. slots
        /\ SlotsOf(Tail(local)) = SlotsOf(local) \ {Head(local)}
    BY <1>1, TailDistinct
  <1>4. /\ SlotsOf(free)' = SlotsOf(free) /\ SlotsOf(buffer)' = SlotsOf(buffer)
        /\ SlotsOf(local)' = SlotsOf(Tail(local))
        /\ Distinct(free)' = Distinct(free) /\ Distinct(buffer)' = Distinct(buffer)
        /\ Distinct(local)' = Distinct(Tail(local))
    BY <1>2 DEF SlotsOf, Distinct
  <1>5. PlacesOfSlots' BY <1>1, <1>2, <1>3, <1>4 DEF PlacesOfSlots
  <1>6. LogTypeOK'
    <2>1. wslot' \in (1 .. slots) /\ wslot' # NoSlot BY <1>1, <1>2, <1>3, HeldIsSlot
    <2>2. \A s \in {free', buffer', local'} : s \in Seq(1 .. slots')
      <3>1. \A s \in {free, buffer, Tail(local)} : s \in Seq(1 .. slots)
        BY <1>1, <1>3 DEF LogTypeOK
      <3> QED BY <1>2, <3>1
    <2>3. (wslot' # NoSlot) = (wpc' = "recycle") BY <2>1, <1>2
    <2> QED BY <1>1, <1>2, <1>5, <2>1, <2>2, <2>3 DEF LogTypeOK, stopVars
  <1>7. Filled' BY <1>2, <1>3, <1>4 DEF Filled, Logged, stopVars
  <1>8. HistoryInv'
    <2>1. \A x \in SlotsOf(local) \cup SlotsOf(buffer) : Logged(content[x]) BY DEF Filled
    <2>2. /\ Contents(local) # <<>> /\ Head(Contents(local)) = content[Head(local)]
          /\ Tail(Contents(local)) = Contents(Tail(local))
      BY <1>1, <2>1, ContentsTail
    <2>3. /\ Contents(local) \in Seq(Messages) /\ written \in Seq(Messages)
          /\ content[Head(local)] \in Messages
      BY <1>1, <1>3, <2>1, ContentsAreMessages DEF HistoryInv, Logged
    <2>4. Joined(Longer(written, Head(Contents(local))), Tail(Contents(local)))
            = Joined(written, Contents(local))
      BY <2>2, <2>3, HeadMoves
    <2>5. Joined(written', Contents(Tail(local))) = Joined(written, Contents(local))
      BY <1>2, <2>2, <2>4 DEF Longer
    <2>6. Contents(local)' = Contents(Tail(local)) /\ Contents(buffer)' = Contents(buffer)
      BY <1>2 DEF Contents
    <2>7. accepted' = Joined(Joined(written, Contents(local)), Contents(buffer))
      BY <1>2 DEF HistoryInv, NothingLost, Joined
    <2>8. NothingLost' BY <2>5, <2>6, <2>7 DEF NothingLost, Joined
    <2>9. written' \in Seq(Messages) BY <1>2, <2>3
    <2> QED BY <1>2, <2>8, <2>9 DEF HistoryInv
  <1>9. WriterInv' BY <1>2 DEF WriterInv, stopVars
  <1> QED BY <1>6, <1>7, <1>8, <1>9

\* Its slot becomes free.
LEMMA RecycleInv == ASSUME LogInv, Recycle PROVE LogInv'
  <1> USE DEF LogInv
  <1>1. /\ LogTypeOK /\ PlacesOfSlots /\ wslot \in 1 .. slots /\ wslot # NoSlot
        /\ free \in Seq(1 .. slots) /\ wslot \notin SlotsOf(free) /\ Distinct(free)
    BY HeldIsSlot, QueuedAreSlots DEF LogTypeOK, Recycle, PlacesOfSlots
  <1>2. /\ wslot' = NoSlot /\ wpc' = "drain" /\ wpc = "recycle"
        /\ slots' = slots /\ content' = content /\ buffer' = buffer /\ local' = local
        /\ UNCHANGED <<logCount, logPc, hold, stopVars, accepted, written>>
    BY DEF Recycle, callVars
  <1>3. /\ SlotsOf(free') \subseteq SlotsOf(free) \cup {wslot} /\ Distinct(free')
        /\ free' \in Seq(1 .. slots) /\ Len(free') <= MaxLogQueue
    <2>1. CASE Len(free) < MaxLogQueue
      <3>1. free' = Append(free, wslot) BY <2>1 DEF Recycle
      <3>2. /\ SlotsOf(Append(free, wslot)) = SlotsOf(free) \cup {wslot}
            /\ Distinct(Append(free, wslot))
        <4>1. /\ \A x : x \in SlotsOf(Longer(free, wslot)) <=> x \in SlotsOf(free) \/ x = wslot
              /\ Distinct(Longer(free, wslot))
          <5> DEFINE S == 1 .. slots
          <5>1. free \in Seq(S) /\ wslot \in S /\ Distinct(free) /\ wslot \notin SlotsOf(free)
            BY <1>1
          <5> HIDE DEF S
          <5> QED BY ONLY <5>1, AppendDistinct, SMT
        <4> QED BY <4>1 DEF Longer
      <3>3. /\ Append(free, wslot) \in Seq(1 .. slots)
            /\ Len(Append(free, wslot)) = Len(free) + 1 /\ Len(free) \in Nat
        BY <1>1
      <3>4. Len(free') <= MaxLogQueue BY <2>1, <3>1, <3>3, LoggerAssumption
      <3> QED BY <3>1, <3>2, <3>3, <3>4
    <2>2. CASE ~(Len(free) < MaxLogQueue)
      <3>1. free' = free BY <2>2 DEF Recycle
      <3> QED BY <3>1, <1>1 DEF LogTypeOK
    <2> QED BY <2>1, <2>2
  <1>4. /\ SlotsOf(local)' = SlotsOf(local) /\ SlotsOf(buffer)' = SlotsOf(buffer)
        /\ SlotsOf(free)' = SlotsOf(free')
        /\ Distinct(local)' = Distinct(local) /\ Distinct(buffer)' = Distinct(buffer)
        /\ Distinct(free)' = Distinct(free')
    BY <1>2 DEF SlotsOf, Distinct
  <1>5. PlacesOfSlots'
    <2>1. wslot \notin SlotsOf(buffer) \cup SlotsOf(local) BY <1>1 DEF PlacesOfSlots
    <2>2. /\ SlotsOf(free') \cap SlotsOf(buffer) = {}
          /\ SlotsOf(free') \cap SlotsOf(local) = {}
      BY <2>1, <1>1, <1>3 DEF PlacesOfSlots
    <2>3. ASSUME NEW t \in Callers, hold[t] # NoSlot
          PROVE /\ hold[t] \notin SlotsOf(free') \cup SlotsOf(buffer) \cup SlotsOf(local)
                /\ hold[t] # NoSlot
                /\ \A u \in Callers \ {t} : hold[u] # hold[t]
      BY <2>3, <1>1, <1>3 DEF PlacesOfSlots
    <2> QED BY <1>1, <1>2, <1>3, <1>4, <2>2, <2>3 DEF PlacesOfSlots
  <1>6. LogTypeOK' BY <1>1, <1>2, <1>3, <1>5 DEF LogTypeOK, stopVars
  <1>7. Filled' BY <1>2, <1>4 DEF Filled, Logged, stopVars
  <1>8. HistoryInv' BY <1>2 DEF HistoryInv, NothingLost, Contents
  <1>9. WriterInv' BY <1>2 DEF WriterInv, stopVars
  <1> QED BY <1>6, <1>7, <1>8, <1>9

LEMMA LogStepInv == LogInv /\ [LogNext]_logVars => LogInv'
  <1> SUFFICES ASSUME LogInv, [LogNext]_logVars PROVE LogInv' OBVIOUS
  <1>1. CASE \E l \in Loggers : CreateLogger(l) BY <1>1, CreateLoggerInv
  <1>2. CASE \E t \in Callers : TakeSlot(t) BY <1>2, TakeSlotInv
  <1>3. CASE \E t \in Callers, l \in Loggers : Fill(t, l) BY <1>3, FillInv
  <1>4. CASE \E t \in Callers : PushLog(t) BY <1>4, PushLogInv
  <1>5. CASE Test \/ Wait \/ DrainEnds \/ CloseLoggers BY <1>5, WriterMovesInv
  <1>6. CASE Move BY <1>6, MoveInv
  <1>7. CASE PrintLog BY <1>7, PrintLogInv
  <1>8. CASE Recycle BY <1>8, RecycleInv
  <1>9. CASE StopLogger \/ StopReturns BY <1>9, StopInv
  <1>10. CASE UNCHANGED logVars
    <2>1. UNCHANGED <<slotVars, buffer, local, hold, wslot, accepted, written, created, logPc,
                      logCount, wpc, stopVars>>
      BY <1>10 DEF logVars, callVars, stopVars
    <2>2. PlacesOfSlots' /\ Filled' /\ HistoryInv' BY <2>1, SlotsKept
    <2>3. LogTypeOK' BY <2>1, <2>2 DEF LogInv, LogTypeOK, slotVars, stopVars
    <2>4. WriterInv' BY <2>1 DEF LogInv, WriterInv, stopVars
    <2> QED BY <2>2, <2>3, <2>4 DEF LogInv
  <1> QED
    BY <1>1, <1>2, <1>3, <1>4, <1>5, <1>6, <1>7, <1>8, <1>9, <1>10
    DEF LogNext, Caller, Writer

-----------------------------------------------------------------------------
(* Logger: the theorems.                                                   *)

\* Every variable of the logger keeps its type, and a log_t is in one place:
\* with one caller, with the writer, or once in one queue.
THEOREM LogTypeCorrect == LogSpec => []LogTypeOK
  <1>1. LogInv => LogTypeOK BY DEF LogInv
  <1> QED BY <1>1, LogInitInv, LogStepInv, PTL DEF LogSpec

\* What add_log pushed is what write_log printed, took and has still to take,
\* in this order.
THEOREM LogNothingLost == LogSpec => []NothingLost
  <1>1. LogInv => NothingLost BY DEF LogInv, HistoryInv
  <1> QED BY <1>1, LogInitInv, LogStepInv, PTL DEF LogSpec

\* write_log prints through open loggers only: it closes them after its loop.
THEOREM LogPrintsToOpen == LogSpec => PrintsToOpenFiles
  <1> DEFINE A == written' # written => written'[Len(written')].to \in opened
  <1>1. LogInv /\ [LogNext]_logVars => [A]_logVars
    <2> SUFFICES ASSUME LogInv, LogNext, written' # written
                 PROVE written'[Len(written')].to \in opened
      OBVIOUS
    <2>1. PrintLog
      BY DEF LogNext, Caller, Writer, CreateLogger, TakeSlot, Fill, PushLog, Test, Wait, Move,
             Recycle, DrainEnds, CloseLoggers, StopLogger, StopReturns, logVars
    <2>2. local # <<>> /\ Distinct(local) /\ local \in Seq(1 .. slots)
      BY <2>1, QueuedAreSlots DEF PrintLog, Drained, LogInv, LogTypeOK, PlacesOfSlots
    <2>3. Logged(content[Head(local)]) BY <2>2, TailDistinct DEF LogInv, Filled
    <2>4. written' = Append(written, content[Head(local)]) /\ written \in Seq(Messages)
          /\ content[Head(local)] \in Messages /\ wpc = "drain"
      BY <2>1, <2>3 DEF PrintLog, LogInv, HistoryInv, Logged
    <2>5. written'[Len(written')] = content[Head(local)] BY <2>4, AppendProperties
    <2> QED BY <2>3, <2>4, <2>5 DEF LogInv, WriterInv, Logged
  <1> QED BY <1>1, LogInitInv, LogStepInv, PTL DEF LogSpec, PrintsToOpenFiles

-----------------------------------------------------------------------------
(* PommeHash: buckets.                                                     *)

\* What HashTypeOK and ValuesFit say of bucket b at place p.
Good(b, p) ==
  /\ b \in Seq(Nodes)
  /\ \A i \in 1 .. Len(b) : /\ Bucket(b[i].key) = p
                            /\ At(b, b[i].key) = {i}
                            /\ ValueLen[b[i].value] <= b[i].mem

\* Bucket b has key k, and the value it finds for it.
Has(b, k) == At(b, k) # {}
Val(b, k) == b[First(b, k)].value

LEMMA BucketIsPlace == ASSUME NEW k \in HashKeys PROVE Bucket(k) \in 0 .. HashSize - 1
  BY HashAssumption DEF Bucket

\* The node a search finds is the key's only one.
LEMMA FirstIs ==
  ASSUME NEW b, NEW p, Good(b, p), NEW i \in 1 .. Len(b)
  PROVE  /\ At(b, b[i].key) = {i} /\ First(b, b[i].key) = i
         /\ Has(b, b[i].key) /\ Val(b, b[i].key) = b[i].value
         /\ b[i] \in Nodes
  <1>1. At(b, b[i].key) = {i} BY DEF Good
  <1>2. First(b, b[i].key) = i
    <2> DEFINE k == b[i].key
    <2>1. At(b, k) = {i} BY <1>1
    <2> HIDE DEF k
    <2>2. \A j \in At(b, k) : i <= j BY <2>1
    <2>3. \A x \in At(b, k) : x = i BY <2>1
    <2>4. First(b, k) = i BY <2>1, <2>2, <2>3 DEF First
    <2> QED BY <2>4 DEF k
  <1>3. b[i] \in Nodes BY DEF Good
  <1> QED BY <1>1, <1>2, <1>3 DEF Has, Val

\* A bucket has the keys of its nodes.
LEMMA HasIs ==
  ASSUME NEW b, NEW k
  PROVE  Has(b, k) <=> \E i \in 1 .. Len(b) : b[i].key = k
  BY DEF Has, At

\* What makes a bucket good: no two nodes with one key.
LEMMA GoodIf ==
  ASSUME NEW b \in Seq(Nodes), NEW p,
         \A i \in 1 .. Len(b) : Bucket(b[i].key) = p /\ ValueLen[b[i].value] <= b[i].mem,
         \A i, j \in 1 .. Len(b) : b[i].key = b[j].key => i = j
  PROVE  Good(b, p)
  <1>1. ASSUME NEW i \in 1 .. Len(b) PROVE At(b, b[i].key) = {i}
    BY DEF At
  <1> QED BY <1>1 DEF Good

LEMMA GoodKeys ==
  ASSUME NEW b, NEW p, Good(b, p), NEW i \in 1 .. Len(b), NEW j \in 1 .. Len(b),
         b[i].key = b[j].key
  PROVE  i = j
  BY DEF Good, At

LEMMA RemoveAtProperties ==
  ASSUME NEW S, NEW s \in Seq(S), NEW i \in 1 .. Len(s)
  PROVE  /\ RemoveAt(s, i) \in Seq(S)
         /\ Len(RemoveAt(s, i)) = Len(s) - 1
         /\ \A j \in 1 .. Len(s) - 1 :
              RemoveAt(s, i)[j] = IF j < i THEN s[j] ELSE s[j + 1]
  <1> DEFINE a == SubSeq(s, 1, i - 1)
             b == SubSeq(s, i + 1, Len(s))
  <1>1. Len(s) \in Nat OBVIOUS
  <1>2. /\ a \in Seq(S) /\ Len(a) = i - 1
        /\ \A j \in 1 .. i - 1 : a[j] = s[j]
    BY <1>1, SubSeqProperties
  <1>3. /\ b \in Seq(S) /\ Len(b) = Len(s) - i
        /\ \A j \in 1 .. Len(s) - i : b[j] = s[i + j]
    BY <1>1, SubSeqProperties
  <1> HIDE DEF a, b
  <1> DEFINE c == a \o b
  <1>4. /\ c \in Seq(S) /\ Len(c) = Len(a) + Len(b)
        /\ \A j \in 1 .. Len(a) + Len(b) : c[j] = IF j <= Len(a) THEN a[j] ELSE b[j - Len(a)]
    BY <1>2, <1>3, ConcatProperties
  <1> HIDE DEF c
  <1>5. ASSUME NEW j \in 1 .. Len(s) - 1 PROVE c[j] = IF j < i THEN s[j] ELSE s[j + 1]
    <2>0. c[j] = IF j <= i - 1 THEN a[j] ELSE b[j - (i - 1)]
      <3>1. j \in 1 .. Len(a) + Len(b) BY <1>1, <1>2, <1>3
      <3>2. c[j] = IF j <= Len(a) THEN a[j] ELSE b[j - Len(a)] BY <3>1, <1>4
      <3> QED BY <3>2, <1>2
    <2>1. CASE j < i
      <3>1. j \in 1 .. i - 1 /\ j <= i - 1 BY <2>1, <1>1
      <3>2. a[j] = s[j] BY <3>1, <1>2
      <3> QED BY <2>1, <2>0, <3>1, <3>2
    <2>2. CASE j >= i
      <3>1. j - (i - 1) \in 1 .. Len(s) - i BY <2>2, <1>1
      <3>2. c[j] = b[j - (i - 1)] BY <2>2, <2>0, <1>1
      <3>3. b[j - (i - 1)] = s[i + (j - (i - 1))] BY <3>1, <1>3
      <3>4. i + (j - (i - 1)) = j + 1 BY <1>1
      <3> QED BY <2>2, <3>2, <3>3, <3>4
    <2> QED BY <2>1, <2>2, <1>1
  <1>6. c \in Seq(S) /\ Len(c) = Len(s) - 1 BY <1>1, <1>2, <1>3, <1>4
  <1> QED BY <1>5, <1>6 DEF RemoveAt, a, b, c

-----------------------------------------------------------------------------
(* PommeHash: what put and del do to a bucket.                             *)

PutIn(b, k, v, m) ==
  IF At(b, k) # {}
  THEN [b EXCEPT ![First(b, k)] = Overwritten(@, v, m)]
  ELSE LinkAdd([key |-> k, value |-> v, mem |-> ValueLen[v]], b)

DelIn(b, k) == IF At(b, k) # {} THEN LinkDel(b, First(b, k)) ELSE b

\* A value put in place of another has room in its node.
LEMMA OverwrittenFits ==
  ASSUME NEW n \in Nodes, NEW v \in HashValues, ValueLen[n.value] <= n.mem,
         NEW m \in Brought(v)
  PROVE  /\ Overwritten(n, v, m) \in Nodes
         /\ Overwritten(n, v, m).key = n.key /\ Overwritten(n, v, m).value = v
         /\ ValueLen[v] <= Overwritten(n, v, m).mem
  <1>1. /\ n \in [key : HashKeys, value : HashValues, mem : Nat]
        /\ ValueLen[v] \in Nat /\ ValueLen[n.value] \in Nat /\ n.mem \in Nat
    BY HashAssumption DEF Nodes
  <1>6. m \in Nat /\ (m # Own => ValueLen[v] <= m) BY HashAssumption DEF Brought, Own
  <1>2. PICK l \in Nat : l = IF m # Own THEN m
                             ELSE IF ValueLen[v] <= ValueLen[n.value] THEN n.mem ELSE ValueLen[v]
    BY <1>1, <1>6
  <1>3. ValueLen[v] <= l BY <1>1, <1>2, <1>6
  <1>4. Overwritten(n, v, m) = [n EXCEPT !.value = v, !.mem = l] BY <1>2 DEF Overwritten
  <1>5. Overwritten(n, v, m) = [key |-> n.key, value |-> v, mem |-> l] BY <1>1, <1>4
  <1> QED BY <1>1, <1>3, <1>5 DEF Nodes

\* Put updates the key's node in place.
LEMMA PutFound ==
  ASSUME NEW k \in HashKeys, NEW v \in HashValues, NEW m \in Brought(v), NEW b, NEW p,
         Good(b, p), Bucket(k) = p, Has(b, k)
  PROVE  /\ Good(PutIn(b, k, v, m), p) /\ Has(PutIn(b, k, v, m), k) /\ Val(PutIn(b, k, v, m), k) = v
         /\ \A x \in HashKeys \ {k} :
              /\ Has(PutIn(b, k, v, m), x) <=> Has(b, x)
              /\ Has(b, x) => Val(PutIn(b, k, v, m), x) = Val(b, x)
  <1> DEFINE c == PutIn(b, k, v, m)
  <1>1. PICK i \in 1 .. Len(b) : b[i].key = k BY HasIs
  <1>2. First(b, k) = i /\ b[i] \in Nodes /\ At(b, k) # {} BY <1>1, FirstIs DEF Has
  <1> DEFINE n == Overwritten(b[i], v, m)
  <1>3. c = [b EXCEPT ![i] = n] BY <1>2 DEF PutIn
  <1>4. /\ n \in Nodes /\ n.key = k /\ n.value = v /\ ValueLen[v] <= n.mem
    BY <1>1, <1>2, OverwrittenFits DEF Good
  <1>5. /\ c \in Seq(Nodes) /\ Len(c) = Len(b)
        /\ \A j \in 1 .. Len(b) : c[j] = IF j = i THEN n ELSE b[j]
    BY <1>3, <1>4, ExceptSeq DEF Good
  <1> HIDE DEF n, c
  <1>6. \A j \in 1 .. Len(b) : c[j].key = b[j].key BY <1>1, <1>4, <1>5
  <1>7. Good(c, p)
    <2>1. ASSUME NEW j \in 1 .. Len(c)
          PROVE Bucket(c[j].key) = p /\ ValueLen[c[j].value] <= c[j].mem
      BY <1>4, <1>5, <1>6 DEF Good
    <2>2. ASSUME NEW j \in 1 .. Len(c), NEW l \in 1 .. Len(c), c[j].key = c[l].key
          PROVE j = l
      BY <2>2, <1>5, <1>6, GoodKeys
    <2> QED BY <1>5, <2>1, <2>2, GoodIf
  <1>8. Has(c, k) /\ Val(c, k) = v
    <2>1. i \in 1 .. Len(c) /\ c[i] = n BY <1>5
    <2> QED BY <2>1, <1>4, <1>7, FirstIs
  <1>9. ASSUME NEW x \in HashKeys \ {k}
        PROVE (Has(c, x) <=> Has(b, x)) /\ (Has(b, x) => Val(c, x) = Val(b, x))
    <2>1. Has(c, x) <=> Has(b, x) BY <1>5, <1>6, HasIs
    <2>2. ASSUME Has(b, x) PROVE Val(c, x) = Val(b, x)
      <3>1. PICK j \in 1 .. Len(b) : b[j].key = x BY <2>2, HasIs
      <3>2. j # i /\ c[j] = b[j] /\ j \in 1 .. Len(c) BY <3>1, <1>1, <1>5
      <3>3. Val(b, x) = b[j].value BY <3>1, FirstIs
      <3>4. Val(c, x) = c[j].value BY <3>1, <3>2, <1>7, FirstIs
      <3> QED BY <3>2, <3>3, <3>4
    <2> QED BY <2>1, <2>2
  <1> QED BY <1>7, <1>8, <1>9 DEF c

\* Put adds a node for a key without one.
LEMMA PutNew ==
  ASSUME NEW k \in HashKeys, NEW v \in HashValues, NEW m \in Brought(v), NEW b, NEW p,
         Good(b, p), Bucket(k) = p, ~Has(b, k)
  PROVE  /\ Good(PutIn(b, k, v, m), p) /\ Has(PutIn(b, k, v, m), k) /\ Val(PutIn(b, k, v, m), k) = v
         /\ \A x \in HashKeys \ {k} :
              /\ Has(PutIn(b, k, v, m), x) <=> Has(b, x)
              /\ Has(b, x) => Val(PutIn(b, k, v, m), x) = Val(b, x)
  <1> DEFINE c == PutIn(b, k, v, m)
             n == [key |-> k, value |-> v, mem |-> ValueLen[v]]
             a == <<n>>
  <1>1. b \in Seq(Nodes) /\ Len(b) \in Nat BY DEF Good
  <1>2. n \in Nodes /\ n.key = k /\ n.value = v /\ n.mem = ValueLen[v] /\ ValueLen[v] \in Nat
    BY HashAssumption DEF Nodes
  <1>3. c = a \o b BY DEF Has, PutIn, LinkAdd
  <1> HIDE DEF n, c
  <1>4. a \in Seq(Nodes) /\ Len(a) = 1 /\ a[1] = n BY <1>2
  <1> HIDE DEF a
  <1>5. /\ c \in Seq(Nodes) /\ Len(c) = Len(b) + 1
        /\ \A j \in 1 .. Len(b) + 1 : c[j] = IF j = 1 THEN n ELSE b[j - 1]
    <2>1. /\ a \o b \in Seq(Nodes) /\ Len(a \o b) = Len(a) + Len(b)
          /\ \A j \in 1 .. Len(a) + Len(b) :
               (a \o b)[j] = IF j <= Len(a) THEN a[j] ELSE b[j - Len(a)]
      BY <1>1, <1>4, ConcatProperties
    <2>2. /\ c \in Seq(Nodes) /\ Len(c) = Len(a) + Len(b)
          /\ \A j \in 1 .. Len(a) + Len(b) : c[j] = IF j <= Len(a) THEN a[j] ELSE b[j - Len(a)]
      BY <2>1, <1>3
    <2>3. ASSUME NEW j \in 1 .. Len(b) + 1 PROVE c[j] = IF j = 1 THEN n ELSE b[j - 1]
      <3>1. c[j] = IF j <= 1 THEN a[j] ELSE b[j - 1] BY <2>2, <1>1, <1>4
      <3> QED BY <3>1, <1>1, <1>4
    <2> QED BY <2>2, <2>3, <1>1, <1>4
  <1>6. c[1] = n /\ 1 \in 1 .. Len(c) BY <1>1, <1>5
  <1>7. ASSUME NEW j \in 1 .. Len(b) PROVE j + 1 \in 1 .. Len(c) /\ c[j + 1] = b[j]
    <2>1. j + 1 \in 1 .. Len(b) + 1 /\ j + 1 # 1 /\ (j + 1) - 1 = j BY <1>1
    <2> QED BY <2>1, <1>5
  <1>8. ASSUME NEW j \in 1 .. Len(c), j # 1
        PROVE j - 1 \in 1 .. Len(b) /\ c[j] = b[j - 1]
    BY <1>1, <1>5, <1>8
  <1>9. \A j \in 1 .. Len(b) : b[j].key # k BY HasIs
  <1>10. Good(c, p)
    <2>1. ASSUME NEW j \in 1 .. Len(c)
          PROVE Bucket(c[j].key) = p /\ ValueLen[c[j].value] <= c[j].mem
      <3>1. CASE j = 1 BY <3>1, <1>2, <1>6
      <3>2. CASE j # 1 BY <3>2, <1>8 DEF Good
      <3> QED BY <3>1, <3>2
    <2>2. ASSUME NEW j \in 1 .. Len(c), NEW l \in 1 .. Len(c), c[j].key = c[l].key
          PROVE j = l
      <3>1. CASE j = 1 \/ l = 1 BY <3>1, <2>2, <1>2, <1>6, <1>8, <1>9
      <3>2. CASE j # 1 /\ l # 1
        <4>1. j - 1 = l - 1 BY <3>2, <2>2, <1>8, GoodKeys
        <4> QED BY <4>1, <1>1, <1>5
      <3> QED BY <3>1, <3>2
    <2> QED BY <1>5, <2>1, <2>2, GoodIf
  <1>11. Has(c, k) /\ Val(c, k) = v BY <1>2, <1>6, <1>10, FirstIs
  <1>12. ASSUME NEW x \in HashKeys \ {k}
         PROVE (Has(c, x) <=> Has(b, x)) /\ (Has(b, x) => Val(c, x) = Val(b, x))
    <2>1. ASSUME Has(c, x) PROVE Has(b, x)
      <3>1. PICK j \in 1 .. Len(c) : c[j].key = x BY <2>1, HasIs
      <3>2. j # 1 BY <3>1, <1>2, <1>6
      <3> QED BY <3>1, <3>2, <1>8, HasIs
    <2>2. ASSUME Has(b, x) PROVE Has(c, x) /\ Val(c, x) = Val(b, x)
      <3>1. PICK j \in 1 .. Len(b) : b[j].key = x BY <2>2, HasIs
      <3>2. j + 1 \in 1 .. Len(c) /\ c[j + 1] = b[j] BY <3>1, <1>7
      <3>3. Val(b, x) = b[j].value BY <3>1, FirstIs
      <3>4. Has(c, x) /\ Val(c, x) = c[j + 1].value BY <3>1, <3>2, <1>10, FirstIs
      <3> QED BY <3>2, <3>3, <3>4
    <2> QED BY <2>1, <2>2
  <1> QED BY <1>10, <1>11, <1>12 DEF c

\* Del takes the key's node out.
LEMMA DelFound ==
  ASSUME NEW k \in HashKeys, NEW b, NEW p, Good(b, p), Has(b, k)
  PROVE  /\ Good(DelIn(b, k), p) /\ ~Has(DelIn(b, k), k)
         /\ \A x \in HashKeys \ {k} :
              /\ Has(DelIn(b, k), x) <=> Has(b, x)
              /\ Has(b, x) => Val(DelIn(b, k), x) = Val(b, x)
  <1> DEFINE c == DelIn(b, k)
  <1>1. PICK i \in 1 .. Len(b) : b[i].key = k BY HasIs
  <1>2. First(b, k) = i /\ At(b, k) # {} BY <1>1, FirstIs DEF Has
  <1>3. b \in Seq(Nodes) /\ Len(b) \in Nat BY DEF Good
  <1>4. c = RemoveAt(b, i) BY <1>2 DEF DelIn, LinkDel
  <1>5. /\ c \in Seq(Nodes) /\ Len(c) = Len(b) - 1
        /\ \A j \in 1 .. Len(b) - 1 : c[j] = IF j < i THEN b[j] ELSE b[j + 1]
    BY <1>3, <1>4, RemoveAtProperties
  <1> HIDE DEF c
  <1>6. ASSUME NEW j \in 1 .. Len(c)
        PROVE \E l \in 1 .. Len(b) : l # i /\ l = (IF j < i THEN j ELSE j + 1) /\ c[j] = b[l]
    <2>1. j \in 1 .. Len(b) - 1 /\ j \in 1 .. Len(b) /\ j + 1 \in 1 .. Len(b) BY <1>3, <1>5
    <2>2. CASE j < i BY <1>5, <2>1, <2>2
    <2>3. CASE ~(j < i)
      <3>1. j + 1 # i BY <2>1, <2>3
      <3> QED BY <1>5, <2>1, <2>3, <3>1
    <2> QED BY <2>2, <2>3
  <1>7. ASSUME NEW l \in 1 .. Len(b), l # i PROVE \E j \in 1 .. Len(c) : c[j] = b[l]
    <2>1. CASE l < i
      <3>1. l \in 1 .. Len(c) /\ c[l] = b[l] BY <2>1, <1>3, <1>5
      <3> QED BY <3>1
    <2>2. CASE l > i
      <3>1. l - 1 \in 1 .. Len(b) - 1 /\ ~(l - 1 < i) /\ (l - 1) + 1 = l BY <2>2, <1>3
      <3>2. l - 1 \in 1 .. Len(c) /\ c[l - 1] = b[l] BY <3>1, <1>5
      <3> QED BY <3>2
    <2> QED BY <2>1, <2>2, <1>7, <1>3
  <1>8. Good(c, p)
    <2>1. ASSUME NEW j \in 1 .. Len(c)
          PROVE Bucket(c[j].key) = p /\ ValueLen[c[j].value] <= c[j].mem
      BY <1>6 DEF Good
    <2>2. ASSUME NEW j \in 1 .. Len(c), NEW l \in 1 .. Len(c), c[j].key = c[l].key
          PROVE j = l
      <3>1. PICK m \in 1 .. Len(b) : m = (IF j < i THEN j ELSE j + 1) /\ c[j] = b[m]
        BY <1>6
      <3>2. PICK q \in 1 .. Len(b) : q = (IF l < i THEN l ELSE l + 1) /\ c[l] = b[q]
        BY <1>6
      <3>3. m = q BY <2>2, <3>1, <3>2, GoodKeys
      <3> QED BY <3>1, <3>2, <3>3
    <2> QED BY <1>5, <2>1, <2>2, GoodIf
  <1>9. ~Has(c, k)
    <2> SUFFICES ASSUME Has(c, k) PROVE FALSE OBVIOUS
    <2>1. PICK j \in 1 .. Len(c) : c[j].key = k BY HasIs
    <2>2. PICK l \in 1 .. Len(b) : l # i /\ c[j] = b[l] BY <1>6
    <2> QED BY <1>1, <2>1, <2>2, GoodKeys
  <1>10. ASSUME NEW x \in HashKeys \ {k}
         PROVE (Has(c, x) <=> Has(b, x)) /\ (Has(b, x) => Val(c, x) = Val(b, x))
    <2>1. ASSUME Has(c, x) PROVE Has(b, x)
      <3>1. PICK j \in 1 .. Len(c) : c[j].key = x BY <2>1, HasIs
      <3> QED BY <3>1, <1>6, HasIs
    <2>2. ASSUME Has(b, x) PROVE Has(c, x) /\ Val(c, x) = Val(b, x)
      <3>1. PICK l \in 1 .. Len(b) : b[l].key = x BY <2>2, HasIs
      <3>2. PICK j \in 1 .. Len(c) : c[j] = b[l] BY <3>1, <1>1, <1>7
      <3>3. Val(b, x) = b[l].value BY <3>1, FirstIs
      <3>4. Has(c, x) /\ Val(c, x) = c[j].value BY <3>1, <3>2, <1>8, FirstIs
      <3> QED BY <3>2, <3>3, <3>4
    <2> QED BY <2>1, <2>2
  <1> QED BY <1>8, <1>9, <1>10 DEF c

-----------------------------------------------------------------------------
(* PommeHash: the inductive invariant and the map.                         *)

HashInv ==
  /\ table \in [0 .. HashSize - 1 -> Seq(Nodes)]
  /\ hashAns \in HashValues \cup {NotFound}
  /\ \A p \in 0 .. HashSize - 1 : Good(table[p], p)

LEMMA HashInvIs == HashInv => HashTypeOK /\ ValuesFit
  BY DEF HashInv, Good, HashTypeOK, ValuesFit

\* The map's keys are those that their buckets have.
LEMMA StoredIs ==
  /\ DOMAIN Stored = {x \in HashKeys : Has(table[Bucket(x)], x)}
  /\ \A k \in HashKeys : Has(table[Bucket(k)], k) => Stored[k] = Val(table[Bucket(k)], k)
  BY DEF Stored, Has, Val

LEMMA HashInitInv == HashInit => HashInv /\ Map!MapInit
  <1> SUFFICES ASSUME HashInit PROVE HashInv /\ Map!MapInit OBVIOUS
  <1>1. \A p \in 0 .. HashSize - 1 : table[p] = <<>> BY DEF HashInit
  <1>2. <<>> \in Seq(Nodes) /\ Len(<<>>) = 0 BY EmptySeq
  <1>3. \A p : Good(<<>>, p) BY <1>2 DEF Good
  <1>4. HashInv BY <1>1, <1>2, <1>3 DEF HashInit, HashInv
  <1>5. \A k \in HashKeys : ~Has(table[Bucket(k)], k)
    <2> SUFFICES ASSUME NEW k \in HashKeys PROVE ~Has(<<>>, k)
      BY <1>1, BucketIsPlace
    <2> QED BY <1>2, HasIs
  <1>6. DOMAIN Stored = {} BY <1>5, StoredIs
  <1>7. Stored = [k \in {} |-> NotFound] BY <1>6 DEF Stored
  <1> QED BY <1>4, <1>7 DEF HashInit, Map!MapInit

\* A call that changes key k's bucket only, and in it only what it says of k,
\* does so to the map.
LEMMA OneBucket ==
  ASSUME HashInv, NEW k \in HashKeys, NEW c,
         table' = [table EXCEPT ![Bucket(k)] = c],
         \A x \in HashKeys \ {k} :
           /\ Has(c, x) <=> Has(table[Bucket(k)], x)
           /\ Has(table[Bucket(k)], x) => Val(c, x) = Val(table[Bucket(k)], x)
  PROVE  /\ Has(table'[Bucket(k)], k) <=> Has(c, k)
         /\ Val(table'[Bucket(k)], k) = Val(c, k)
         /\ \A x \in HashKeys \ {k} :
              /\ Has(table'[Bucket(x)], x) <=> Has(table[Bucket(x)], x)
              /\ Has(table[Bucket(x)], x) =>
                   Val(table'[Bucket(x)], x) = Val(table[Bucket(x)], x)
  <1>1. \A p \in 0 .. HashSize - 1 : table'[p] = IF p = Bucket(k) THEN c ELSE table[p]
    BY DEF HashInv
  <1>2. table'[Bucket(k)] = c BY <1>1, BucketIsPlace
  <1>3. ASSUME NEW x \in HashKeys \ {k}
        PROVE /\ Has(table'[Bucket(x)], x) <=> Has(table[Bucket(x)], x)
              /\ Has(table[Bucket(x)], x) =>
                   Val(table'[Bucket(x)], x) = Val(table[Bucket(x)], x)
    <2>1. CASE Bucket(x) = Bucket(k) BY <2>1, <1>2
    <2>2. CASE Bucket(x) # Bucket(k)
      <3>1. table'[Bucket(x)] = table[Bucket(x)] BY <2>2, <1>1, BucketIsPlace
      <3> QED BY <3>1
    <2> QED BY <2>1, <2>2
  <1> QED BY <1>2, <1>3

\* Put stores.
LEMMA PutStep ==
  ASSUME HashInv, NEW k \in HashKeys, NEW v \in HashValues, NEW m \in Brought(v), Put(k, v, m)
  PROVE  HashInv' /\ Map!Store(k, v)
  <1> DEFINE b == table[Bucket(k)]
             c == PutIn(b, k, v, m)
  <1>1. Bucket(k) \in 0 .. HashSize - 1 /\ Good(b, Bucket(k))
    BY BucketIsPlace DEF HashInv
  <1>2. table' = [table EXCEPT ![Bucket(k)] = c] /\ hashAns' = v
    BY DEF Put, PutIn
  <1>3. /\ Good(c, Bucket(k)) /\ Has(c, k) /\ Val(c, k) = v
        /\ \A x \in HashKeys \ {k} :
             /\ Has(c, x) <=> Has(b, x)
             /\ Has(b, x) => Val(c, x) = Val(b, x)
    BY <1>1, PutFound, PutNew
  <1> HIDE DEF c
  <1>4. HashInv'
    <2>1. c \in Seq(Nodes) BY <1>3 DEF Good
    <2> QED BY <1>1, <1>2, <1>3, <2>1 DEF HashInv
  <1>5. /\ Has(table'[Bucket(k)], k) /\ Val(table'[Bucket(k)], k) = v
        /\ \A x \in HashKeys \ {k} :
             /\ Has(table'[Bucket(x)], x) <=> Has(table[Bucket(x)], x)
             /\ Has(table[Bucket(x)], x) =>
                  Val(table'[Bucket(x)], x) = Val(table[Bucket(x)], x)
    <2>1. \A x \in HashKeys \ {k} :
            /\ Has(c, x) <=> Has(table[Bucket(k)], x)
            /\ Has(table[Bucket(k)], x) => Val(c, x) = Val(table[Bucket(k)], x)
      BY <1>3
    <2>2. table' = [table EXCEPT ![Bucket(k)] = c] BY <1>2
    <2>3. /\ Has(table'[Bucket(k)], k) <=> Has(c, k)
          /\ Val(table'[Bucket(k)], k) = Val(c, k)
          /\ \A x \in HashKeys \ {k} :
               /\ Has(table'[Bucket(x)], x) <=> Has(table[Bucket(x)], x)
               /\ Has(table[Bucket(x)], x) =>
                    Val(table'[Bucket(x)], x) = Val(table[Bucket(x)], x)
      BY <2>1, <2>2, OneBucket
    <2> QED BY <2>3, <1>3
  <1>6. Stored' = [x \in DOMAIN Stored \cup {k} |-> IF x = k THEN v ELSE Stored[x]]
    <2>1. Stored' = [x \in {y \in HashKeys : Has(table'[Bucket(y)], y)} |->
                       Val(table'[Bucket(x)], x)]
      BY DEF Stored, Has, Val, Bucket, At, First
    <2>2. {y \in HashKeys : Has(table'[Bucket(y)], y)} = DOMAIN Stored \cup {k}
      BY <1>5, StoredIs
    <2>3. ASSUME NEW x \in DOMAIN Stored \cup {k}
          PROVE Val(table'[Bucket(x)], x) = IF x = k THEN v ELSE Stored[x]
      BY <1>5, StoredIs
    <2> QED BY <2>1, <2>2, <2>3
  <1> QED BY <1>2, <1>4, <1>6 DEF Map!Store

\* Del removes.
LEMMA DelStep ==
  ASSUME HashInv, NEW k \in HashKeys, Del(k)
  PROVE  HashInv' /\ Map!Remove(k)
  <1> DEFINE b == table[Bucket(k)]
             c == DelIn(b, k)
  <1>1. Bucket(k) \in 0 .. HashSize - 1 /\ Good(b, Bucket(k))
    BY BucketIsPlace DEF HashInv
  <1>2. table' = [table EXCEPT ![Bucket(k)] = c] /\ hashAns' = NotFound
    BY DEF Del, DelIn
  <1>3. /\ Good(c, Bucket(k)) /\ ~Has(c, k)
        /\ \A x \in HashKeys \ {k} :
             /\ Has(c, x) <=> Has(b, x)
             /\ Has(b, x) => Val(c, x) = Val(b, x)
    <2>1. CASE Has(b, k) BY <2>1, <1>1, DelFound
    <2>2. CASE ~Has(b, k)
      <3>1. c = b BY <2>2 DEF DelIn, Has
      <3> QED BY <3>1, <2>2, <1>1
    <2> QED BY <2>1, <2>2
  <1> HIDE DEF c
  <1>4. HashInv'
    <2>1. c \in Seq(Nodes) BY <1>3 DEF Good
    <2> QED BY <1>1, <1>2, <1>3, <2>1 DEF HashInv
  <1>5. /\ ~Has(table'[Bucket(k)], k)
        /\ \A x \in HashKeys \ {k} :
             /\ Has(table'[Bucket(x)], x) <=> Has(table[Bucket(x)], x)
             /\ Has(table[Bucket(x)], x) =>
                  Val(table'[Bucket(x)], x) = Val(table[Bucket(x)], x)
    BY <1>2, <1>3, OneBucket
  <1>6. Stored' = [x \in DOMAIN Stored \ {k} |-> Stored[x]]
    <2>1. Stored' = [x \in {y \in HashKeys : Has(table'[Bucket(y)], y)} |->
                       Val(table'[Bucket(x)], x)]
      BY DEF Stored, Has, Val, Bucket, At, First
    <2>2. {y \in HashKeys : Has(table'[Bucket(y)], y)} = DOMAIN Stored \ {k}
      BY <1>5, StoredIs
    <2>3. ASSUME NEW x \in DOMAIN Stored \ {k}
          PROVE Val(table'[Bucket(x)], x) = Stored[x]
      BY <1>5, StoredIs
    <2> QED BY <2>1, <2>2, <2>3
  <1> QED BY <1>2, <1>4, <1>6 DEF Map!Remove

\* Get looks up.
LEMMA FetchStep ==
  ASSUME HashInv, NEW k \in HashKeys, NEW room \in Rooms, Fetch(k, room)
  PROVE  HashInv' /\ Map!Lookup(k, room)
  <1> DEFINE b == table[Bucket(k)]
             fits == [v \in HashValues |-> {r \in Rooms : ValueLen[v] <= r}]
  <1>1. Bucket(k) \in 0 .. HashSize - 1 /\ Good(b, Bucket(k))
    BY BucketIsPlace DEF HashInv
  <1>2. /\ table' = table
        /\ hashAns' = IF Has(b, k) /\ ValueLen[Val(b, k)] <= room THEN Val(b, k)
                                                                 ELSE NotFound
    BY DEF Fetch, Has, Val
  <1>3. Has(b, k) => Val(b, k) \in HashValues
    <2> SUFFICES ASSUME Has(b, k) PROVE Val(b, k) \in HashValues OBVIOUS
    <2>1. PICK i \in 1 .. Len(b) : b[i].key = k BY HasIs
    <2>2. Val(b, k) = b[i].value /\ b[i] \in Nodes BY <2>1, <1>1, FirstIs
    <2> QED BY <2>2 DEF Nodes
  <1>4. HashInv' BY <1>2, <1>3 DEF HashInv
  <1>5. Stored' = Stored BY <1>2 DEF Stored
  <1>6. hashAns' = IF k \in DOMAIN Stored /\ room \in fits[Stored[k]] THEN Stored[k]
                                                                    ELSE NotFound
    <2>1. CASE Has(b, k)
      <3>1. k \in DOMAIN Stored /\ Stored[k] = Val(b, k) BY <2>1, StoredIs
      <3>2. fits[Val(b, k)] = {r \in Rooms : ValueLen[Val(b, k)] <= r} BY <2>1, <1>3
      <3> QED BY <2>1, <3>1, <3>2, <1>2
    <2>2. CASE ~Has(b, k)
      <3>1. k \notin DOMAIN Stored BY <2>2, StoredIs
      <3> QED BY <2>2, <3>1, <1>2
    <2> QED BY <2>1, <2>2
  <1> QED BY <1>4, <1>5, <1>6 DEF Map!Lookup

LEMMA HashStep ==
  HashInv /\ [HashNext]_hashVars => HashInv' /\ [Map!MapNext]_<<Stored, hashAns>>
  <1> SUFFICES ASSUME HashInv, [HashNext]_hashVars
               PROVE HashInv' /\ [Map!MapNext]_<<Stored, hashAns>>
    OBVIOUS
  <1>1. CASE \E k \in HashKeys : \E v \in HashValues : \E m \in Brought(v) : Put(k, v, m)
    BY <1>1, PutStep DEF Map!MapNext
  <1>2. CASE \E k \in HashKeys, room \in Rooms : Fetch(k, room)
    BY <1>2, FetchStep DEF Map!MapNext
  <1>3. CASE \E k \in HashKeys : Del(k) BY <1>3, DelStep DEF Map!MapNext
  <1>4. CASE UNCHANGED hashVars BY <1>4 DEF hashVars, HashInv, Stored
  <1> QED BY <1>1, <1>2, <1>3, <1>4 DEF HashNext

-----------------------------------------------------------------------------
(* PommeHash: the theorems.                                                *)

\* Every variable of the table keeps its type, and a key has one node, in its
\* bucket: put looks for it first.
THEOREM HashTypeCorrect == HashSpec => []HashTypeOK
  <1> QED BY HashInvIs, HashInitInv, HashStep, PTL DEF HashSpec

\* A value lies within its node's memory, though put forgets how much there is.
THEOREM HashValuesFit == HashSpec => []ValuesFit
  <1> QED BY HashInvIs, HashInitInv, HashStep, PTL DEF HashSpec

\* The table is the map KeyMap says it is, for every hash function and every
\* number of buckets.
THEOREM HashRefinesMap == HashSpec => HashIsMap
  <1> QED BY HashInitInv, HashStep, PTL DEF HashSpec, HashIsMap, Map!MapSpec

-----------------------------------------------------------------------------
(* Stream: the inductive invariant.                                        *)

AllWhole == \A i \in 1 .. Len(items) : Whole(i)

\* The peer has gone before the end of the stream.
CutShort == closed /\ arrived # StreamEnd /\ ItemsWhole

\* Where the reader is when it waits for the size of an item, and for bytes.
AtSize ==
  /\ Len(items) < rn /\ rn = Len(message)
  /\ \/ AllWhole /\ readPos = message[Len(items) + 1].at - IntLen
     \/ CutShort /\ readPos = arrived

AtData ==
  /\ Len(items) < rn /\ rn = Len(message) /\ AllWhole
  /\ tl = message[Len(items) + 1].len /\ readed < tl
  /\ readPos = message[Len(items) + 1].at + readed

AtEnd == Len(items) = rn /\ (CutShort \/ (rn = Len(message) /\ AllWhole))

Accepted ==
  /\ rn = Len(expect)
  /\ \A i \in 1 .. rn : expect[i] \in {AnySize, items[i].len}

StreamInv ==
  /\ StreamTypeOK
  /\ ~InInteger(arrived)
  /\ readPc = "idle" => arrived = 0 /\ message = <<>>
  /\ readPc \in {"idle", "count"} => readPos = 0 /\ items = <<>>
  /\ readPc = "size" => AtSize
  /\ readPc = "data" => AtData
  /\ readPc = "aborted" => AllWhole
  /\ readPc \in {"match", "done"} => AtEnd
  /\ readPc = "done" => ((readAns = "ok") = Accepted)

\* Arithmetic of the next lemmas.
LEMMA FrontIsBehind ==
  ASSUME NEW l \in Nat, NEW k \in Nat, NEW e \in Nat, l + l + k + l <= e
  PROVE  l + l <= e
  OBVIOUS

LEMMA NextIsBehind ==
  ASSUME NEW a \in Nat, NEW b \in Nat, NEW c \in Nat, NEW d \in Nat, NEW l \in Nat,
         a + b + l <= c
  PROVE  a + b + l <= l + c + d
  OBVIOUS

\* An earlier item lies before a later one and its size.  The proof takes the
\* first item that would not be behind all before it.
LEMMA ItemsInOrder ==
  ASSUME NEW m \in Seq(Items), LaidOut(m)
  PROVE  /\ \A i \in 1 .. Len(m) : m[i].at \in Nat /\ m[i].len \in Nat
         /\ \A i \in 1 .. Len(m) : \A j \in 1 .. i - 1 :
              m[j].at + m[j].len + IntLen <= m[i].at
  <1> DEFINE n == Len(m)
             Behind(i, j) == m[j].at + m[j].len + IntLen <= m[i].at
  <1>1. n \in Nat /\ IntLen \in Nat BY StreamAssumption
  <1>2. \A i \in 1 .. n : m[i].at \in Nat /\ m[i].len \in Nat
    <2>1. \A i \in 1 .. n : m[i] \in Items OBVIOUS
    <2> QED BY <2>1 DEF Items
  <1>3. \A i \in 1 .. n :
          m[i].at = IntLen + (IF i = 1 THEN IntLen ELSE m[i - 1].at + m[i - 1].len)
    BY DEF LaidOut
  <1> HIDE DEF n
  <1> DEFINE T == {i \in 1 .. n : \E j \in 1 .. i - 1 : ~Behind(i, j)}
  <1>4. SUFFICES ASSUME T # {} PROVE FALSE BY <1>2 DEF n
  <1>5. PICK i \in T : \A k \in T : i <= k
    <2>1. T \in SUBSET Nat BY <1>1
    <2> HIDE DEF T
    <2> QED BY <1>4, <2>1, LeastNumber
  <1>6. PICK j \in 1 .. i - 1 : ~Behind(i, j) BY <1>5
  <1>7. i \in 1 .. n /\ i - 1 \in 1 .. n /\ i # 1 /\ j \in 1 .. n BY <1>1, <1>5, <1>6
  <1>8. m[i].at = IntLen + m[i - 1].at + m[i - 1].len BY <1>1, <1>2, <1>3, <1>7
  <1>9. i - 1 \notin T BY <1>5, <1>7
  <1>10. CASE j = i - 1 BY <1>1, <1>2, <1>6, <1>7, <1>8, <1>10
  <1>11. CASE j # i - 1
    <2>1. Behind(i - 1, j) BY <1>6, <1>7, <1>9, <1>11
    <2>2. PICK a \in Nat, b \in Nat : a = m[j].at /\ b = m[j].len BY <1>2, <1>7
    <2>3. PICK c \in Nat, d \in Nat : c = m[i - 1].at /\ d = m[i - 1].len BY <1>2, <1>7
    <2>4. a + b + IntLen <= IntLen + c + d
      <3>1. a + b + IntLen <= c BY <2>1, <2>2, <2>3
      <3> QED BY <3>1, <1>1, NextIsBehind
    <2>5. m[j].at + m[j].len + IntLen <= m[i].at BY <1>8, <2>2, <2>3, <2>4
    <2> QED BY <1>6, <2>5
  <1> QED BY <1>10, <1>11

\* The bytes of an item are behind two integers at least.
LEMMA ItemsFollow ==
  ASSUME NEW m \in Seq(Items), LaidOut(m)
  PROVE  \A i \in 1 .. Len(m) :
           m[i].at \in Nat /\ m[i].len \in Nat /\ IntLen + IntLen <= m[i].at
  <1> DEFINE n == Len(m)
  <1>1. n \in Nat /\ IntLen \in Nat BY StreamAssumption
  <1>2. \A i \in 1 .. n : m[i].at \in Nat /\ m[i].len \in Nat
    <2>1. \A i \in 1 .. n : m[i] \in Items OBVIOUS
    <2> QED BY <2>1 DEF Items
  <1>3. \A i \in 1 .. n :
          /\ m[i].at = IntLen + (IF i = 1 THEN IntLen ELSE m[i - 1].at + m[i - 1].len)
          /\ \A j \in 1 .. i - 1 : m[j].at + m[j].len + IntLen <= m[i].at
    BY ItemsInOrder DEF LaidOut
  <1> HIDE DEF n
  <1>4. ASSUME NEW i \in 1 .. n PROVE IntLen + IntLen <= m[i].at
    <2>1. m[1].at = IntLen + IntLen /\ m[1].len \in Nat BY <1>1, <1>2, <1>3
    <2>2. CASE i = 1 BY <2>1, <2>2, <1>1
    <2>3. CASE i # 1
      <3>1. 1 \in 1 .. i - 1 BY <2>3
      <3>2. m[1].at + m[1].len + IntLen <= m[i].at BY <3>1, <1>3
      <3>3. PICK k \in Nat, e \in Nat : k = m[1].len /\ e = m[i].at BY <1>2, <2>1
      <3>4. IntLen + IntLen + k + IntLen <= e BY <2>1, <3>2, <3>3
      <3>5. IntLen + IntLen <= e BY <3>4, <1>1, FrontIsBehind
      <3> QED BY <3>3, <3>5
    <2> QED BY <2>2, <2>3
  <1> QED BY <1>2, <1>4 DEF n

\* The items follow one another, and the stream ends after the last.
LEMMA MessageIs ==
  ASSUME StreamTypeOK
  PROVE  /\ message \in Seq(Items) /\ Len(message) \in Nat
         /\ StreamEnd \in Nat /\ IntLen <= StreamEnd /\ IntLen \in Nat \ {0}
         /\ \A i \in 1 .. Len(message) :
              /\ message[i].at \in Nat /\ message[i].len \in Nat
              /\ IntLen + IntLen <= message[i].at
              /\ message[i].at + message[i].len <= StreamEnd
              /\ i < Len(message) =>
                   message[i + 1].at - IntLen = message[i].at + message[i].len
         /\ Len(message) > 0 => message[1].at - IntLen = IntLen
  <1>1. message \in Seq(Items) /\ LaidOut(message) /\ IntLen \in Nat \ {0}
    <2>1. <<>> \in Seq(Items) /\ Len(<<>>) = 0 BY EmptySeq
    <2>2. LaidOut(<<>>) BY <2>1 DEF LaidOut
    <2> QED BY <2>1, <2>2, StreamAssumption DEF StreamTypeOK
  <1> DEFINE n == Len(message)
  <1>2. n \in Nat BY <1>1
  <1>3. \A i \in 1 .. n : message[i].at \in Nat /\ message[i].len \in Nat
    BY <1>1, ItemsFollow
  <1>4. \A i \in 1 .. n :
          /\ message[i].at = IntLen + (IF i = 1 THEN IntLen
                                                ELSE message[i - 1].at + message[i - 1].len)
          /\ \A j \in 1 .. i - 1 : message[j].at + message[j].len + IntLen <= message[i].at
    BY <1>1, ItemsInOrder DEF LaidOut
  <1> HIDE DEF n
  <1>5. \A i \in 1 .. n : IntLen + IntLen <= message[i].at
    BY <1>1, ItemsFollow DEF n
  <1>6. CASE n = 0
    <2>1. StreamEnd = IntLen BY <1>6 DEF StreamEnd, n
    <2> QED BY <1>1, <1>6, <2>1 DEF n
  <1>7. CASE n # 0
    <2>1. n \in 1 .. n /\ StreamEnd = message[n].at + message[n].len
      BY <1>2, <1>7 DEF StreamEnd, n
    <2>2. StreamEnd \in Nat /\ IntLen <= StreamEnd
      <3>1. PICK a \in Nat, b \in Nat : a = message[n].at /\ b = message[n].len
        BY <2>1, <1>3
      <3>2. IntLen \in Nat /\ IntLen + IntLen <= a BY <2>1, <1>1, <1>5, <3>1
      <3>3. StreamEnd = a + b BY <2>1, <3>1
      <3> QED BY ONLY <3>1, <3>2, <3>3
    <2>3. ASSUME NEW i \in 1 .. n PROVE message[i].at + message[i].len <= StreamEnd
      <3>1. CASE i = n BY <3>1, <2>1, <2>2
      <3>2. CASE i # n
        <4>1. i \in 1 .. n - 1 BY <3>2, <1>2
        <4>2. message[i].at + message[i].len + IntLen <= message[n].at
          BY <4>1, <2>1, <1>4
        <4>3. /\ message[i].at \in Nat /\ message[i].len \in Nat
              /\ message[n].at \in Nat /\ message[n].len \in Nat
          BY <2>1, <1>3
        <4>4. IntLen \in Nat BY <1>1
        <4>5. PICK a \in Nat, b \in Nat :
                a = message[i].at + message[i].len /\ b = message[n].at
          BY <4>3
        <4>6. a <= b BY <4>2, <4>4, <4>5
        <4>7. b <= StreamEnd BY <2>1, <4>3, <4>5
        <4>8. StreamEnd \in Nat BY <2>2
        <4>9. a <= StreamEnd BY ONLY <4>5, <4>6, <4>7, <4>8
        <4> QED BY <4>5, <4>9
      <3> QED BY <3>1, <3>2
    <2>4. ASSUME NEW i \in 1 .. n, i < n
          PROVE message[i + 1].at - IntLen = message[i].at + message[i].len
      <3>1. i + 1 \in 1 .. n /\ i + 1 # 1 /\ (i + 1) - 1 = i BY <2>4, <1>2
      <3>2. message[i + 1].at = IntLen + (message[i].at + message[i].len)
        BY <3>1, <1>4
      <3>3. message[i].at \in Nat /\ message[i].len \in Nat BY <1>3
      <3> QED BY <3>2, <3>3, <1>1
    <2>5. message[1].at - IntLen = IntLen
      <3>1. 1 \in 1 .. n BY <1>2, <1>7
      <3>2. message[1].at = IntLen + IntLen BY <3>1, <1>4
      <3> QED BY <3>2, <1>1
    <2> QED BY <1>1, <1>2, <1>3, <1>5, <2>2, <2>3, <2>4, <2>5 DEF n
  <1> QED BY <1>6, <1>7

LEMMA GotIs ==
  ASSUME StreamTypeOK, NEW w \in Nat
  PROVE  /\ Got(w) \in Nat
         /\ Got(w) = IF w <= arrived - readPos THEN w ELSE arrived - readPos
         /\ readPos \in Nat /\ arrived \in Nat /\ readPos + Got(w) \in 0 .. arrived
  <1>1. readPos \in Nat /\ arrived \in Nat /\ arrived - readPos \in Nat
    BY MessageIs DEF StreamTypeOK
  <1>2. \A a, b \in Int : Min({a, b}) \in {a, b} /\ Min({a, b}) <= a /\ Min({a, b}) <= b
    <2> SUFFICES ASSUME NEW a \in Int, NEW b \in Int
                 PROVE Min({a, b}) \in {a, b} /\ Min({a, b}) <= a /\ Min({a, b}) <= b
      OBVIOUS
    <2>1. \E x \in {a, b} : \A y \in {a, b} : x <= y OBVIOUS
    <2> QED BY <2>1 DEF Min
  <1>3. Got(w) \in {w, arrived - readPos} /\ Got(w) <= w /\ Got(w) <= arrived - readPos
    BY <1>1, <1>2 DEF Got
  <1> QED BY <1>1, <1>3

\* A position between two items, with more behind it, has an integer behind it.
LEMMA IntegerArrived ==
  ASSUME StreamTypeOK, ~InInteger(arrived), arrived # readPos
  PROVE  /\ readPos = 0 => IntLen <= arrived
         /\ \A i \in 1 .. Len(message) :
              readPos = message[i].at - IntLen => message[i].at <= arrived
  <1>1. readPos \in Nat /\ arrived \in Nat /\ readPos < arrived
    BY MessageIs DEF StreamTypeOK
  <1>2. ~(arrived \in 1 .. IntLen - 1) BY DEF InInteger
  <1>3. \A i \in 1 .. Len(message) :
          ~(arrived \in message[i].at - IntLen + 1 .. message[i].at - 1)
    BY DEF InInteger
  <1>4. readPos = 0 => IntLen <= arrived BY <1>1, <1>2, MessageIs
  <1>5. ASSUME NEW i \in 1 .. Len(message), readPos = message[i].at - IntLen
        PROVE message[i].at <= arrived
    <2>1. message[i].at \in Nat /\ IntLen \in Nat BY MessageIs
    <2>2. arrived >= message[i].at - IntLen + 1 BY <2>1, <1>1, <1>5
    <2> QED BY <2>1, <2>2, <1>1, <1>3
  <1> QED BY <1>4, <1>5

\* An item returned follows those there were; rn and the message stay.
LEMMA ReturnIs ==
  ASSUME StreamTypeOK, NEW at \in Nat, NEW len \in Nat, Return(at, len), Len(items) < rn,
         message' = message, rn' = rn
  PROVE  /\ items' \in Seq(Items) /\ Len(items') = Len(items) + 1 /\ Len(items') <= rn
         /\ items'[Len(items) + 1] = [at |-> at, len |-> len]
         /\ \A i \in 1 .. Len(items) : items'[i] = items[i]
         /\ readPc' = IF Len(items') = rn THEN "match" ELSE "size"
         /\ AllWhole /\ [at |-> at, len |-> len] = message[Len(items) + 1] => AllWhole'
         /\ AllWhole /\ len = 0 /\ closed' => ItemsWhole'
         /\ ItemsWhole /\ len = 0 /\ closed' => ItemsWhole'
  <1> DEFINE n == Len(items)
             x == [at |-> at, len |-> len]
  <1>1. n \in Nat /\ rn \in Nat /\ items \in Seq(Items) /\ x \in Items
    BY MessageIs DEF StreamTypeOK, Items
  <1>2. items' = Append(items, x) /\ readPc' = IF n + 1 = rn THEN "match" ELSE "size"
    BY DEF Return
  <1> HIDE DEF x
  <1>3. /\ items' \in Seq(Items) /\ Len(items') = n + 1
        /\ items'[n + 1] = x
        /\ \A i \in 1 .. n : items'[i] = items[i]
    BY <1>1, <1>2
  <1> HIDE DEF n
  <1>4. Len(items') <= rn BY <1>1, <1>3 DEF n
  <1>5. \A i \in 1 .. n : Whole(i) => Whole(i)' BY <1>3 DEF Whole
  <1>6. ASSUME AllWhole, x = message[n + 1] PROVE AllWhole'
    <2> SUFFICES ASSUME NEW i \in 1 .. n + 1 PROVE Whole(i)'
      BY <1>3 DEF AllWhole
    <2>1. CASE i = n + 1 BY <2>1, <1>3, <1>6 DEF Whole
    <2>2. CASE i # n + 1
      <3>1. i \in 1 .. n BY <2>2, <1>1
      <3> QED BY <3>1, <1>5, <1>6 DEF AllWhole, n
    <2> QED BY <2>1, <2>2
  <1>7. ASSUME ItemsWhole, len = 0, closed' PROVE ItemsWhole'
    <2>1. PICK w \in 0 .. n : /\ \A i \in 1 .. w : Whole(i)
                              /\ \A i \in w + 1 .. n : items[i].len = 0
      BY <1>7 DEF ItemsWhole, n
    <2>2. w \in 0 .. n + 1 BY <1>1
    <2>3. \A i \in 1 .. w : Whole(i)' BY <2>1, <1>1, <1>5
    <2>4. ASSUME NEW i \in w + 1 .. n + 1 PROVE items'[i].len = 0
      <3>1. CASE i = n + 1 BY <3>1, <1>3, <1>7 DEF x
      <3>2. CASE i # n + 1
        <4>1. i \in w + 1 .. n /\ i \in 1 .. n BY <3>2, <1>1
        <4> QED BY <4>1, <2>1, <1>3
      <3> QED BY <3>1, <3>2
    <2> QED BY <2>2, <2>3, <2>4, <1>3, <1>7 DEF ItemsWhole
  <1>8. AllWhole => ItemsWhole
    <2> SUFFICES ASSUME AllWhole PROVE ItemsWhole OBVIOUS
    <2>1. n \in 0 .. n /\ ~(n < n) /\ n + 1 .. n = {} BY <1>1
    <2> QED BY <2>1 DEF AllWhole, ItemsWhole, n
  <1> QED BY <1>2, <1>3, <1>4, <1>6, <1>7, <1>8 DEF n, x

LEMMA WholeIsItems == ASSUME StreamTypeOK, AllWhole PROVE ItemsWhole
  <1>1. Len(items) \in Nat BY DEF StreamTypeOK
  <1>2. Len(items) \in 0 .. Len(items) /\ Len(items) + 1 .. Len(items) = {}
        /\ ~(Len(items) < Len(items))
    BY <1>1
  <1> QED BY <1>2 DEF AllWhole, ItemsWhole

LEMMA StreamInitInv == StreamInit => StreamInv
  <1> SUFFICES ASSUME StreamInit PROVE StreamInv OBVIOUS
  <1> USE StreamAssumption
  <1>1. message = <<>> /\ items = <<>> /\ Len(<<>>) = 0 /\ <<>> \in Seq(Items)
    BY EmptySeq DEF StreamInit
  <1>2. StreamEnd = IntLen BY <1>1 DEF StreamEnd
  <1>3. StreamTypeOK
    <2>1. arrived \in 0 .. StreamEnd /\ readPos \in 0 .. arrived BY <1>2 DEF StreamInit
    <2>2. items \in Seq(Items) /\ Len(items) <= rn /\ rn \in {0, Len(message)}
      BY <1>1 DEF StreamInit
    <2> QED BY <2>1, <2>2 DEF StreamInit, StreamTypeOK
  <1>4. ~InInteger(arrived) BY <1>1 DEF StreamInit, InInteger
  <1> QED BY <1>1, <1>3, <1>4 DEF StreamInit, StreamInv

\* A call begins.
LEMMA RpcWriteInv ==
  ASSUME StreamInv, NEW m \in RpcMessages, NEW e \in Expects, RpcWrite(m, e)
  PROVE  StreamInv'
  <1>1. /\ readPc = "idle" /\ arrived = 0 /\ readPos = 0 /\ items = <<>> /\ rn = 0
        /\ message' = m /\ expect' = e /\ readPc' = "count"
        /\ UNCHANGED <<arrived, closed, readPos, items, rn, tl, readed, readAns>>
    <2>1. items = <<>> /\ message = <<>> /\ Len(<<>>) = 0 BY DEF RpcWrite, StreamInv
    <2> QED BY <2>1 DEF RpcWrite, StreamInv, StreamTypeOK
  <1>2. m \in Seq(Items) /\ LaidOut(m) /\ IntLen \in Nat \ {0} BY StreamAssumption
  <1>3. StreamEnd' \in Nat
    <2>1. Len(m) \in Nat /\ \A i \in 1 .. Len(m) : m[i] \in Items BY <1>2
    <2>2. CASE Len(m) = 0 BY <2>2, <1>1, <1>2 DEF StreamEnd
    <2>3. CASE Len(m) # 0
      <3>1. m[Len(m)].at \in Nat /\ m[Len(m)].len \in Nat BY <2>1, <2>3 DEF Items
      <3> QED BY <2>3, <3>1, <1>1 DEF StreamEnd
    <2> QED BY <2>2, <2>3
  <1>4. StreamTypeOK' BY <1>1, <1>3 DEF StreamInv, StreamTypeOK
  <1>5. ~InInteger(arrived)'
    <2>1. \A i \in 1 .. Len(m) : IntLen + IntLen <= m[i].at /\ m[i].at \in Nat
      BY <1>2, ItemsFollow
    <2>2. ~(0 \in 1 .. IntLen - 1) OBVIOUS
    <2>3. \A i \in 1 .. Len(m) : ~(0 \in m[i].at - IntLen + 1 .. m[i].at - 1)
      BY <2>1, <1>2
    <2> QED BY <2>2, <2>3, <1>1 DEF InInteger
  <1> QED BY <1>1, <1>4, <1>5 DEF StreamInv

\* Bytes arrive, or the peer goes: the reader is where it was.
LEMMA PeerInv == ASSUME StreamInv, Deliver \/ Close PROVE StreamInv'
  <1>1. /\ readPc # "idle" /\ ~closed /\ closed' \in BOOLEAN
        /\ UNCHANGED <<message, expect, readPos, readPc, items, rn, tl, readed, readAns>>
    BY DEF Deliver, Close, StreamInv, StreamTypeOK
  <1>2. arrived' \in 0 .. StreamEnd /\ arrived' >= arrived /\ ~InInteger(arrived')
    <2>1. arrived \in 0 .. StreamEnd /\ StreamEnd \in Nat /\ ~InInteger(arrived)
      BY MessageIs DEF StreamInv, StreamTypeOK
    <2>2. CASE Deliver
      <3>1. PICK pos \in arrived + 1 .. StreamEnd : ~InInteger(pos) /\ arrived' = pos
        BY <2>2 DEF Deliver
      <3> QED BY <3>1, <2>1
    <2>3. CASE Close BY <2>1, <2>3 DEF Close
    <2> QED BY <2>2, <2>3
  <1>3. StreamEnd' = StreamEnd /\ InInteger(arrived)' = InInteger(arrived')
    BY <1>1 DEF StreamEnd, InInteger
  <1>4. StreamTypeOK'
    <2>1. readPos \in 0 .. arrived' BY <1>2, MessageIs DEF StreamInv, StreamTypeOK
    <2> QED BY <1>1, <1>2, <1>3, <2>1 DEF StreamInv, StreamTypeOK
  <1>5. ~CutShort BY <1>1 DEF CutShort
  <1>6. AllWhole' = AllWhole /\ Accepted' = Accepted
    BY <1>1 DEF AllWhole, Whole, Accepted
  <1> QED BY <1>1, <1>2, <1>3, <1>4, <1>5, <1>6 DEF StreamInv, AtSize, AtData, AtEnd

\* What the reader does leaves the peer's part alone.
LEMMA PeerKept ==
  ASSUME StreamInv, UNCHANGED peerVars
  PROVE  /\ message' = message /\ expect' = expect /\ arrived' = arrived /\ closed' = closed
         /\ StreamEnd' = StreamEnd /\ ~InInteger(arrived)'
  BY DEF StreamInv, peerVars, StreamEnd, InInteger

\* The number of items: 0 only when the stream is cut before it.
LEMMA ReadCountInv == ASSUME StreamInv, ReadCount PROVE StreamInv'
  <1>1. /\ StreamTypeOK /\ readPc = "count" /\ readPos = 0 /\ items = <<>> /\ Len(items) = 0
        /\ readPos' = Got(IntLen)
        /\ rn' = IF Got(IntLen) = 0 THEN 0 ELSE Len(message)
        /\ readPc' = IF rn' = 0 THEN "match" ELSE "size"
        /\ UNCHANGED <<items, tl, readed, readAns>>
    <2>1. readPos = 0 /\ items = <<>> /\ StreamTypeOK BY DEF ReadCount, StreamInv
    <2>2. Got(IntLen) \in Nat BY <2>1, GotIs, MessageIs
    <2>3. readPos + Got(IntLen) = Got(IntLen) BY <2>1, <2>2
    <2> QED BY <2>1, <2>3 DEF ReadCount
  <1>2. /\ message' = message /\ expect' = expect /\ arrived' = arrived /\ closed' = closed
        /\ StreamEnd' = StreamEnd /\ ~InInteger(arrived)'
    BY PeerKept DEF ReadCount
  <1>3. StreamTypeOK'
    <2>1. readPos' \in 0 .. arrived /\ rn' \in {0, Len(message)} /\ Len(message) \in Nat
      BY <1>1, GotIs, MessageIs
    <2> QED BY <1>1, <1>2, <2>1 DEF StreamTypeOK
  <1>4. AllWhole' BY <1>1 DEF AllWhole
  <1>5. CASE Got(IntLen) = 0
    <2>1. arrived = 0 /\ closed
      BY <1>1, <1>5, GotIs, MessageIs DEF ReadCount, Readable
    <2>2. arrived # StreamEnd BY <2>1, MessageIs, <1>1
    <2>3. ItemsWhole' BY <1>3, <1>4, WholeIsItems, <1>1 DEF ItemsWhole
    <2>4. CutShort' BY <2>1, <2>2, <2>3, <1>2 DEF CutShort
    <2> QED BY <1>1, <1>2, <1>3, <1>5, <2>4 DEF StreamInv, AtEnd
  <1>6. CASE Got(IntLen) # 0
    <2>1. Got(IntLen) = IntLen
      BY <1>1, <1>6, GotIs, MessageIs, IntegerArrived DEF StreamInv
    <2>2. CASE Len(message) = 0
      BY <2>2, <1>1, <1>2, <1>3, <1>4, <1>6 DEF StreamInv, AtEnd
    <2>3. CASE Len(message) # 0
      <3>1. message[1].at - IntLen = IntLen BY <2>3, <1>1, MessageIs
      <3>2. Len(items') < rn' /\ rn' = Len(message') /\ Len(items') + 1 = 1 /\ readPc' = "size"
        BY <2>3, <1>1, <1>2, <1>6, MessageIs
      <3>3. AtSize' BY <3>1, <3>2, <2>1, <1>1, <1>2, <1>4 DEF AtSize
      <3> QED BY <3>2, <3>3, <1>2, <1>3 DEF StreamInv
    <2> QED BY <2>2, <2>3
  <1> QED BY <1>5, <1>6

\* The size of an item, whole unless the stream was cut before it.
LEMMA ReadSizeInv == ASSUME StreamInv, ReadSize PROVE StreamInv'
  <1> DEFINE n == Len(items)
             got == Got(IntLen)
  <1>1. /\ StreamTypeOK /\ readPc = "size" /\ AtSize /\ n < rn /\ rn = Len(message)
        /\ n \in Nat /\ n + 1 \in 1 .. Len(message)
        /\ readPos' = readPos + got /\ readed' = 0
        /\ tl' = IF got = 0 THEN 0 ELSE message[n + 1].len
        /\ IF tl' = 0 THEN Return(readPos', 0) ELSE readPc' = "data" /\ UNCHANGED items
        /\ rn' = rn /\ readAns' = readAns
    BY MessageIs DEF ReadSize, StreamInv, AtSize, StreamTypeOK
  <1>2. /\ message' = message /\ expect' = expect /\ arrived' = arrived /\ closed' = closed
        /\ StreamEnd' = StreamEnd /\ ~InInteger(arrived)'
    BY PeerKept DEF ReadSize
  <1>3. /\ got \in Nat /\ readPos \in Nat /\ arrived \in Nat /\ readPos' \in 0 .. arrived
        /\ IntLen \in Nat \ {0}
        /\ message[n + 1].at \in Nat /\ message[n + 1].len \in Nat
        /\ message[n + 1].at + message[n + 1].len <= StreamEnd
        /\ StreamEnd \in Nat
        /\ got = IF IntLen <= arrived - readPos THEN IntLen ELSE arrived - readPos
    BY <1>1, GotIs, MessageIs
  <1>4. tl' \in Nat BY <1>1, <1>3
  <1>5. CASE got = 0
    <2>1. arrived = readPos /\ closed
      <3>1. arrived > readPos \/ closed BY DEF ReadSize, Readable
      <3>2. readPos <= arrived BY <1>1, MessageIs DEF StreamTypeOK
      <3> HIDE DEF got
      <3>3. arrived - readPos = 0 BY <3>2, <1>3, <1>5
      <3> QED BY <3>1, <3>3, <1>3
    <2>2. Return(readPos', 0) /\ readPos' \in Nat BY <1>1, <1>3, <1>5
    <2>3. arrived # StreamEnd
      <3>1. CASE readPos = message[n + 1].at - IntLen
        <4>1. message[n + 1].at + message[n + 1].len <= StreamEnd BY <1>3
        <4>2. PICK a \in Nat, l \in Nat : a = message[n + 1].at /\ l = message[n + 1].len
          BY <1>3
        <4>3. arrived = a - IntLen /\ a + l <= StreamEnd BY <3>1, <2>1, <4>1, <4>2
        <4> QED BY <4>3, <1>3
      <3>2. CASE CutShort BY <3>2 DEF CutShort
      <3> QED BY <3>1, <3>2, <1>1 DEF AtSize
    <2>4. ItemsWhole BY <1>1, WholeIsItems DEF AtSize, CutShort
    <2>5. /\ items' \in Seq(Items) /\ Len(items') = n + 1 /\ Len(items') <= rn
          /\ readPc' = IF Len(items') = rn THEN "match" ELSE "size"
          /\ ItemsWhole'
      BY <1>1, <1>2, <2>1, <2>2, <2>4, ReturnIs
    <2>6. CutShort' BY <1>2, <2>1, <2>3, <2>5 DEF CutShort
    <2>7. StreamTypeOK' BY <1>1, <1>2, <1>3, <1>4, <2>5 DEF StreamTypeOK
    <2>8. readPos' = arrived' BY <2>1, <1>1, <1>2, <1>3, <1>5
    <2>9. CASE n + 1 = rn
      BY <2>9, <2>5, <2>6, <2>7, <1>1, <1>2 DEF StreamInv, AtEnd
    <2>10. CASE n + 1 # rn
      <3>1. Len(items') < rn' /\ readPc' = "size"
        BY <2>10, <2>5, <1>1, MessageIs
      <3> QED BY <3>1, <2>6, <2>7, <2>8, <1>1, <1>2 DEF StreamInv, AtSize
    <2> QED BY <2>9, <2>10
  <1>6. CASE got # 0
    <2>1. arrived # readPos
      BY <1>1, <1>3, <1>6, GotIs
    <2>2. AllWhole /\ readPos = message[n + 1].at - IntLen BY <1>1, <2>1 DEF AtSize
    <2>3. message[n + 1].at <= arrived
      BY <1>1, <2>1, <2>2, IntegerArrived DEF StreamInv
    <2>4. got = IntLen
      <3>1. IntLen <= arrived - readPos
        <4>1. PICK a \in Nat : a = message[n + 1].at BY <1>3
        <4>2. readPos = a - IntLen /\ a <= arrived BY <2>2, <2>3, <4>1
        <4>3. arrived \in Nat /\ IntLen \in Nat /\ readPos \in Nat BY <1>3
        <4> QED BY ONLY <4>1, <4>2, <4>3
      <3> QED BY <3>1, <1>3
    <2>5. readPos' = message[n + 1].at /\ tl' = message[n + 1].len
      BY <1>1, <1>3, <1>6, <2>2, <2>4
    <2>6. CASE tl' = 0
      <3>1. Return(message[n + 1].at, 0) BY <2>5, <2>6, <1>1
      <3>2. message[n + 1] \in Items BY <1>1, MessageIs
      <3>3. [at |-> message[n + 1].at, len |-> 0] = message[n + 1]
        BY <3>2, <2>5, <2>6 DEF Items
      <3>4. /\ items' \in Seq(Items) /\ Len(items') = n + 1 /\ Len(items') <= rn
            /\ readPc' = IF Len(items') = rn THEN "match" ELSE "size"
            /\ AllWhole'
        <4>1. /\ StreamTypeOK /\ AllWhole /\ message[n + 1].at \in Nat /\ n < rn
              /\ message' = message /\ rn' = rn
          BY <1>1, <1>2, <1>3, <2>2
        <4> QED BY ONLY <4>1, <3>1, <3>3, ReturnIs
      <3>5. StreamTypeOK' BY <1>1, <1>2, <1>3, <1>4, <3>4 DEF StreamTypeOK
      <3>6. CASE n + 1 = rn
        BY <3>4, <3>5, <3>6, <1>1, <1>2 DEF StreamInv, AtEnd
      <3>7. CASE n + 1 # rn
        <4>1. n + 1 < Len(message) /\ readPc' = "size" BY <3>4, <3>7, <1>1
        <4>2. message[(n + 1) + 1].at - IntLen = message[n + 1].at + message[n + 1].len
          BY <4>1, <1>1, MessageIs
        <4>3. readPos' = message[(n + 1) + 1].at - IntLen BY <4>2, <2>5, <2>6, <1>3
        <4>4. AtSize' BY <4>1, <4>3, <3>4, <1>1, <1>2 DEF AtSize
        <4> QED BY <4>1, <4>4, <3>5, <1>2 DEF StreamInv
      <3> QED BY <3>6, <3>7
    <2>7. CASE tl' # 0
      <3>1. readPc' = "data" /\ items' = items BY <2>7, <1>1
      <3>2. StreamTypeOK' BY <3>1, <1>1, <1>2, <1>3, <1>4 DEF StreamTypeOK
      <3>3. AllWhole' BY <3>1, <2>2, <1>2 DEF AllWhole, Whole
      <3>4. readed' < tl' /\ readPos' = message[n + 1].at + readed'
        BY <2>5, <2>7, <1>1, <1>3
      <3>5. AtData' BY <3>1, <3>3, <3>4, <2>5, <1>1, <1>2 DEF AtData
      <3> QED BY <3>1, <3>2, <3>5, <1>2 DEF StreamInv
    <2> QED BY <2>6, <2>7
  <1> QED BY <1>5, <1>6

\* Bytes of an item: fewer than it has, all, or more than it has.
LEMMA ReadBytesInv == ASSUME StreamInv, ReadBytes PROVE StreamInv'
  <1> DEFINE n == Len(items)
             got == Got(tl)
  <1>1. /\ StreamTypeOK /\ readPc = "data" /\ n < rn /\ rn = Len(message) /\ AllWhole
        /\ n \in Nat /\ n + 1 \in 1 .. Len(message)
        /\ tl = message[n + 1].len /\ readed < tl /\ tl \in Nat /\ readed \in Nat
        /\ readPos = message[n + 1].at + readed
        /\ readPos' = readPos + got /\ readed' = readed + got
        /\ UNCHANGED <<rn, tl, readAns>>
    BY MessageIs DEF ReadBytes, StreamInv, AtData, StreamTypeOK
  <1>2. /\ message' = message /\ expect' = expect /\ arrived' = arrived /\ closed' = closed
        /\ StreamEnd' = StreamEnd /\ ~InInteger(arrived)'
    BY PeerKept DEF ReadBytes
  <1>3. /\ got \in Nat /\ readPos \in Nat /\ readPos' \in 0 .. arrived
        /\ message[n + 1].at \in Nat /\ message[n + 1].len \in Nat
    BY <1>1, GotIs, MessageIs
  <1>4. readed' \in Nat /\ readPos' = message[n + 1].at + readed'
    <2>1. PICK a \in Nat : a = message[n + 1].at BY <1>3
    <2>2. readPos = a + readed /\ readed \in Nat BY <1>1, <2>1
    <2>3. readPos' = readPos + got /\ readed' = readed + got /\ got \in Nat BY <1>1, <1>3
    <2>4. readed' \in Nat /\ readPos' = a + readed' BY ONLY <2>1, <2>2, <2>3
    <2> QED BY <2>1, <2>4
  <1>5. CASE readed' < tl
    <2>1. items' = items /\ readPc' = readPc BY <1>5 DEF ReadBytes
    <2>2. StreamTypeOK' BY <2>1, <1>1, <1>2, <1>3, <1>4 DEF StreamTypeOK
    <2>3. AllWhole' BY <2>1, <1>1, <1>2 DEF AllWhole, Whole
    <2>4. AtData' BY <2>1, <2>3, <1>1, <1>2, <1>4, <1>5 DEF AtData
    <2> QED BY <2>1, <2>2, <2>4, <1>1, <1>2 DEF StreamInv
  <1>6. CASE readed' > tl
    <2>1. items' = items /\ readPc' = "aborted" BY <1>1, <1>4, <1>6 DEF ReadBytes
    <2>2. StreamTypeOK' BY <2>1, <1>1, <1>2, <1>3, <1>4 DEF StreamTypeOK
    <2>3. AllWhole' BY <2>1, <1>1, <1>2 DEF AllWhole, Whole
    <2> QED BY <2>1, <2>2, <2>3, <1>2 DEF StreamInv
  <1>7. CASE readed' = tl
    <2>1. readPos' - tl = message[n + 1].at
      <3>1. PICK a \in Nat : a = message[n + 1].at BY <1>3
      <3>2. readPos' = a + tl BY <3>1, <1>4, <1>7
      <3>3. (a + tl) - tl = a BY <1>1
      <3> QED BY <3>1, <3>2, <3>3
    <2>2. Return(message[n + 1].at, tl)
      <3>1. Return(readPos' - tl, tl) BY <1>1, <1>7 DEF ReadBytes
      <3> QED BY <3>1, <2>1
    <2>3. message[n + 1] \in Items BY <1>1, MessageIs
    <2>4. [at |-> message[n + 1].at, len |-> tl] = message[n + 1]
      BY <2>3, <1>1 DEF Items
    <2>5. /\ items' \in Seq(Items) /\ Len(items') = n + 1 /\ Len(items') <= rn
          /\ readPc' = IF Len(items') = rn THEN "match" ELSE "size"
          /\ AllWhole'
      BY <1>1, <1>2, <1>3, <2>2, <2>4, ReturnIs
    <2>6. StreamTypeOK' BY <1>1, <1>2, <1>3, <1>4, <2>5 DEF StreamTypeOK
    <2>7. CASE n + 1 = rn
      BY <2>5, <2>6, <2>7, <1>1, <1>2 DEF StreamInv, AtEnd
    <2>8. CASE n + 1 # rn
      <3>1. n + 1 < Len(message) /\ readPc' = "size" BY <2>5, <2>8, <1>1
      <3>2. message[(n + 1) + 1].at - IntLen = message[n + 1].at + message[n + 1].len
        BY <3>1, <1>1, MessageIs
      <3>3. readPos' = message[(n + 1) + 1].at - IntLen BY <3>2, <1>1, <1>4, <1>7
      <3>4. AtSize' BY <3>1, <3>3, <2>5, <1>1, <1>2 DEF AtSize
      <3> QED BY <3>1, <3>4, <2>6, <1>2 DEF StreamInv
    <2> QED BY <2>7, <2>8
  <1> QED BY <1>1, <1>4, <1>5, <1>6, <1>7

LEMMA MatchInv == ASSUME StreamInv, Match PROVE StreamInv'
  <1>1. /\ readPc = "match" /\ readPc' = "done" /\ AtEnd /\ StreamTypeOK
        /\ readAns' \in {"ok", "number", "type"}
        /\ UNCHANGED <<readPos, items, rn, tl, readed>>
    BY DEF Match, StreamInv
  <1>2. /\ message' = message /\ expect' = expect /\ arrived' = arrived /\ closed' = closed
        /\ StreamEnd' = StreamEnd /\ ~InInteger(arrived)'
    BY PeerKept DEF Match
  <1>3. StreamTypeOK' BY <1>1, <1>2 DEF StreamTypeOK
  <1>4. AtEnd'
    <2>1. AllWhole' = AllWhole /\ ItemsWhole' = ItemsWhole
      BY <1>1, <1>2 DEF AllWhole, ItemsWhole, Whole
    <2> QED BY <1>1, <1>2, <2>1 DEF AtEnd, CutShort
  <1>5. (readAns' = "ok") = Accepted'
    <2>1. Accepted' = Accepted BY <1>1, <1>2 DEF Accepted
    <2>2. (readAns' = "ok") = Accepted BY DEF Match, Accepted
    <2> QED BY <2>1, <2>2
  <1> QED BY <1>1, <1>2, <1>3, <1>4, <1>5 DEF StreamInv

LEMMA StreamStepInv == StreamInv /\ [StreamNext]_streamVars => StreamInv'
  <1> SUFFICES ASSUME StreamInv, [StreamNext]_streamVars PROVE StreamInv' OBVIOUS
  <1>1. CASE \E m \in RpcMessages, e \in Expects : RpcWrite(m, e) BY <1>1, RpcWriteInv
  <1>2. CASE Deliver \/ Close BY <1>2, PeerInv
  <1>3. CASE ReadCount BY <1>3, ReadCountInv
  <1>4. CASE ReadSize BY <1>4, ReadSizeInv
  <1>5. CASE ReadBytes BY <1>5, ReadBytesInv
  <1>6. CASE Match BY <1>6, MatchInv
  <1>7. CASE UNCHANGED streamVars
    <2> USE <1>7 DEF streamVars
    <2>1. StreamTypeOK' = StreamTypeOK /\ InInteger(arrived)' = InInteger(arrived)
      BY DEF StreamTypeOK, InInteger, StreamEnd
    <2>2. AllWhole' = AllWhole /\ ItemsWhole' = ItemsWhole /\ Accepted' = Accepted
          /\ StreamEnd' = StreamEnd
      BY DEF AllWhole, ItemsWhole, Whole, Accepted, StreamEnd
    <2>3. AtSize' = AtSize /\ AtData' = AtData /\ AtEnd' = AtEnd
      BY <2>2 DEF AtSize, AtData, AtEnd, CutShort
    <2> QED BY <2>1, <2>2, <2>3 DEF StreamInv
  <1> QED BY <1>1, <1>2, <1>3, <1>4, <1>5, <1>6, <1>7 DEF StreamNext, Reader

-----------------------------------------------------------------------------
(* Stream: the theorems.                                                   *)

\* Every variable of the stream keeps its type; nothing is read before it came.
THEOREM StreamTypeCorrect == StreamSpec => []StreamTypeOK
  <1>1. StreamInv => StreamTypeOK BY DEF StreamInv
  <1> QED BY <1>1, StreamInitInv, StreamStepInv, PTL DEF StreamSpec

\* read_data returns the items that were written, then, when the peer has gone,
\* empty ones, whatever the pieces the stream came in.
THEOREM StreamItemsWhole == StreamSpec => []ItemsWhole
  <1>1. StreamInv => ItemsWhole
    <2> SUFFICES ASSUME StreamInv PROVE ItemsWhole OBVIOUS
    <2>1. StreamTypeOK BY DEF StreamInv
    <2>2. CASE readPc \in {"idle", "count"}
      <3>1. items = <<>> /\ Len(<<>>) = 0 BY <2>2, EmptySeq DEF StreamInv
      <3>2. AllWhole BY <3>1 DEF AllWhole
      <3> QED BY <3>2, <2>1, WholeIsItems
    <2>3. CASE readPc \in {"size", "data", "aborted", "match", "done"}
      BY <2>1, <2>3, WholeIsItems DEF StreamInv, AtSize, AtData, AtEnd, CutShort
    <2> QED BY <2>1, <2>2, <2>3 DEF StreamTypeOK
  <1> QED BY <1>1, StreamInitInv, StreamStepInv, PTL DEF StreamSpec

\* pomme_rpc_read says ok exactly of a call of the number and sizes expected,
\* unless the peer went before its end.
THEOREM StreamAnswers == StreamSpec => []AnswerDeserved
  <1>1. StreamInv => AnswerDeserved
    <2> SUFFICES ASSUME StreamInv, readPc = "done", closed => arrived = StreamEnd
                 PROVE (readAns = "ok") =
                         /\ Len(message) = Len(expect)
                         /\ \A i \in 1 .. Len(expect) :
                              expect[i] \in {AnySize, message[i].len}
      BY DEF AnswerDeserved
    <2>1. Len(items) = rn /\ rn = Len(message) /\ AllWhole
      BY DEF StreamInv, AtEnd, CutShort
    <2>2. \A i \in 1 .. Len(message) : items[i] = message[i]
      BY <2>1 DEF AllWhole, Whole
    <2>3. (readAns = "ok") = Accepted BY DEF StreamInv
    <2> QED BY <2>1, <2>2, <2>3 DEF Accepted
  <1> QED BY <1>1, StreamInitInv, StreamStepInv, PTL DEF StreamSpec

-----------------------------------------------------------------------------
(* RingBuffer: the inductive invariant.                                    *)

\* A piece that was made before the end wrapped, or all if it has not.
BeforeWrap(p) == begin <= p.at

\* p is released before q.
InOrder(p, q) == IF BeforeWrap(p) = BeforeWrap(q) THEN p.at + p.len <= q.at ELSE BeforeWrap(p)

\* A piece is between begin and end, the way the buffer wraps.
Placed(p) ==
  /\ p.at + p.len <= RingSize
  /\ IF begin <= end THEN begin <= p.at /\ p.at + p.len <= end
                     ELSE BeforeWrap(p) \/ p.at + p.len <= end

ConsumedInv ==
  consumed # NoPiece =>
    /\ Placed(consumed)
    /\ \A i \in 1 .. Len(pieces) : InOrder(consumed, pieces[i])
    /\ provided # NoPiece => InOrder(consumed, provided)

PiecesInv ==
  /\ \A i \in 1 .. Len(pieces) : Placed(pieces[i])
  /\ \A i, j \in 1 .. Len(pieces) : i < j => InOrder(pieces[i], pieces[j])

ProvidedInv ==
  provided # NoPiece =>
    /\ Placed(provided)
    /\ provided.at + provided.len = end
    /\ \A i \in 1 .. Len(pieces) : InOrder(pieces[i], provided)

\* The chunk being filled: from end on, in the buffer, and not up to begin.
ChunkInv ==
  providerPc = "fill" =>
    /\ provided.len = 0
    /\ end + Chunk <= RingSize
    /\ end < begin => end + Chunk <= begin

\* The queue has room for the piece under way.
RoomInv == providerPc \in {"fill", "push"} => Len(pieces) < MaxPieces

RingInv == RingTypeOK /\ RoomInv /\ ConsumedInv /\ PiecesInv /\ ProvidedInv /\ ChunkInv

-----------------------------------------------------------------------------

\* A piece is not the absence of one.
LEMMA PieceIsReal == \A p \in Pieces : p # NoPiece /\ p.at \in Nat /\ p.len \in Nat
  BY RingAssumption DEF Pieces, NoPiece

LEMMA RingInitInv == RingInit => RingInv
  <1> SUFFICES ASSUME RingInit PROVE RingInv OBVIOUS
  <1>1. RingTypeOK
    <2>1. pieces \in Seq(Pieces) BY EmptySeq DEF RingInit
    <2> QED BY <2>1, RingAssumption DEF RingInit, RingTypeOK
  <1> QED BY <1>1 DEF RingInit, RingInv, RoomInv, ConsumedInv, PiecesInv, ProvidedInv, ChunkInv

\* pomme_buffer_next keeps the order: what it hands out comes last.
LEMMA BufferNextInv == ASSUME RingInv, BufferNext PROVE RingInv'
  <1> USE RingAssumption
  <1> USE DEF RingInv, RingTypeOK, RoomInv
  <1>0. provided = NoPiece BY DEF BufferNext
  <1>1. end' \in 0 .. RingSize /\ end' + Chunk <= RingSize
        /\ (end' < begin => end' + Chunk <= begin)
        /\ provided' = [at |-> end', len |-> 0]
    BY DEF BufferNext, RoomAhead, RoomInFront
  <1>2. provided' \in Pieces /\ provided' # NoPiece
    BY <1>1, PieceIsReal DEF Pieces
  <1>3. RingTypeOK' BY <1>1, <1>2 DEF BufferNext
  <1>4. ASSUME NEW p \in Pieces, Placed(p) PROVE Placed(p)' /\ InOrder(p, provided)'
    BY <1>1, <1>4, PieceIsReal DEF BufferNext, RoomAhead, RoomInFront, Placed, InOrder, BeforeWrap
  <1>5. ASSUME NEW p \in Pieces, NEW q \in Pieces, InOrder(p, q) PROVE InOrder(p, q)'
    BY <1>5 DEF BufferNext, InOrder, BeforeWrap
  <1>6. \A i \in 1 .. Len(pieces) : pieces[i] \in Pieces OBVIOUS
  <1>7. Placed(provided)' /\ (provided.at + provided.len = end)'
    <2>1. \A e \in Nat : e + 0 = e OBVIOUS
    <2>2. provided'.at + provided'.len = end'
      <3>1. provided'.at = end' /\ provided'.len = 0 /\ end' \in Nat BY <1>1
      <3>2. provided'.at + provided'.len = end' + 0 BY <3>1, Zenon
      <3> QED BY <2>1, <3>1, <3>2, Zenon
    <2>3. provided'.at = end' /\ end' \in 0 .. RingSize /\ begin' \in 0 .. RingSize
      BY <1>1 DEF BufferNext
    <2> QED BY <2>2, <2>3 DEF Placed, BeforeWrap
  <1>8. ConsumedInv'
    BY <1>4, <1>5, <1>6 DEF ConsumedInv, BufferNext
  <1>9. PiecesInv' BY <1>4, <1>5, <1>6 DEF PiecesInv, BufferNext
  <1>10. ProvidedInv'
    <2>1. pieces' = pieces BY DEF BufferNext
    <2>2. \A i \in 1 .. Len(pieces') : InOrder(pieces[i], provided)'
      BY <1>4, <1>6, <2>1 DEF PiecesInv
    <2> QED BY <1>7, <2>2 DEF ProvidedInv
  <1>11. ChunkInv' BY <1>1 DEF ChunkInv, BufferNext
  <1>12. RoomInv' BY DEF BufferNext
  <1> QED BY <1>3, <1>8, <1>9, <1>10, <1>11, <1>12

\* pomme_buffer_take moves end within the chunk, and so never up to begin.
LEMMA BufferTakeInv ==
  ASSUME RingInv, NEW len \in 0 .. Chunk - 1, BufferTake(len) PROVE RingInv'
  <1> USE RingAssumption
  <1> USE DEF RingInv, RingTypeOK, RoomInv
  <1>1. provided \in Pieces /\ provided # NoPiece /\ provided.at = end /\ provided.len = 0
    BY PieceIsReal DEF BufferTake, ChunkInv, ProvidedInv, Pieces
  <1>2. provided' = [at |-> end, len |-> len] /\ end' = end + len
    <2>1. provided = [at |-> end, len |-> 0] BY <1>1 DEF Pieces
    <2> QED BY <2>1 DEF BufferTake
  <1>3. provided' \in Pieces /\ end' \in 0 .. RingSize
    <2>1. end + len \in 0 .. RingSize BY DEF BufferTake, ChunkInv
    <2>2. end \in 0 .. RingSize OBVIOUS
    <2> QED BY <1>2, <2>1, <2>2 DEF Pieces
  <1>4. RingTypeOK'
    <2>1. begin' = begin /\ pieces' = pieces /\ consumed' = consumed BY DEF BufferTake
    <2>2. providerPc' = "push" BY DEF BufferTake
    <2>3. provided' # NoPiece BY <1>3, PieceIsReal
    <2> QED BY <1>3, <2>1, <2>2, <2>3
  <1>5. (begin <= end) = (begin <= end')
    BY <1>2 DEF BufferTake, ChunkInv
  <1>6. ASSUME NEW p \in Pieces, Placed(p)
        PROVE /\ Placed(p)'
              /\ InOrder(p, provided) => InOrder(p, provided)'
    <2>1. Placed(p)'
      <3>1. PICK a \in Nat, l \in Nat : a = p.at /\ l = p.len BY DEF Pieces
      <3>2. begin' = begin /\ end' = end + len /\ len \in Nat /\ end \in Nat
        BY <1>2 DEF BufferTake
      <3>3. /\ a + l <= RingSize
            /\ IF begin <= end THEN begin <= a /\ a + l <= end
                               ELSE begin <= a \/ a + l <= end
        BY <1>6, <3>1 DEF Placed, BeforeWrap
      <3>4. a + l <= end => a + l <= end' BY <3>1, <3>2
      <3> HIDE DEF RingInv
      <3>5. /\ a + l <= RingSize
            /\ IF begin <= end' THEN begin <= a /\ a + l <= end'
                                ELSE begin <= a \/ a + l <= end'
        BY <1>5, <3>3, <3>4
      <3> QED BY <3>1, <3>2, <3>5 DEF Placed, BeforeWrap
    <2>2. InOrder(p, provided) => InOrder(p, provided)'
      BY <1>1, <1>2, <1>6, PieceIsReal DEF BufferTake, ChunkInv, Placed, InOrder, BeforeWrap
    <2> QED BY <2>1, <2>2
  <1>7. ASSUME NEW p \in Pieces, NEW q \in Pieces, InOrder(p, q) PROVE InOrder(p, q)'
    BY <1>7 DEF BufferTake, InOrder, BeforeWrap
  <1>8. \A i \in 1 .. Len(pieces) : pieces[i] \in Pieces OBVIOUS
  <1>9. Placed(provided)'
    BY <1>1, <1>2 DEF BufferTake, ChunkInv, ProvidedInv, Placed, BeforeWrap
  <1>10. ConsumedInv'
    BY <1>1, <1>6, <1>7, <1>8 DEF ConsumedInv, BufferTake
  <1>11. PiecesInv' BY <1>6, <1>7, <1>8 DEF PiecesInv, BufferTake
  <1>12. ProvidedInv'
    BY <1>1, <1>2, <1>6, <1>8, <1>9 DEF ProvidedInv, PiecesInv, BufferTake
  <1>13. ChunkInv' BY DEF ChunkInv, BufferTake
  <1>14. RoomInv' BY DEF BufferTake
  <1> QED BY <1>4, <1>10, <1>11, <1>12, <1>13, <1>14

\* queue_push_back: the piece becomes the last one of the queue.
LEMMA PushPieceInv == ASSUME RingInv, PushPiece PROVE RingInv'
  <1> USE DEF RingInv, RingTypeOK, RoomInv
  <1>1. provided \in Pieces /\ provided # NoPiece BY DEF PushPiece
  <1>2. /\ pieces' \in Seq(Pieces) /\ Len(pieces') = Len(pieces) + 1
        /\ \A i \in 1 .. Len(pieces) : pieces'[i] = pieces[i]
        /\ pieces'[Len(pieces) + 1] = provided
    BY <1>1 DEF PushPiece
  <1>3. RingTypeOK' BY <1>2, RingAssumption DEF PushPiece
  <1>4. \A p : Placed(p) => Placed(p)' BY DEF PushPiece, Placed, BeforeWrap
  <1>5. \A p, q : InOrder(p, q) => InOrder(p, q)' BY DEF PushPiece, InOrder, BeforeWrap
  <1>6. ConsumedInv'
    <2> SUFFICES ASSUME consumed # NoPiece, NEW i \in 1 .. Len(pieces')
                 PROVE InOrder(consumed, pieces'[i])
      BY <1>4, <1>5 DEF ConsumedInv, PushPiece
    <2>1. i \in 1 .. Len(pieces) \/ i = Len(pieces) + 1 BY <1>2
    <2> QED BY <1>1, <1>2, <2>1 DEF ConsumedInv
  <1>7. PiecesInv'
    <2>1. ASSUME NEW i \in 1 .. Len(pieces') PROVE Placed(pieces'[i])
      <3>1. i \in 1 .. Len(pieces) \/ i = Len(pieces) + 1 BY <1>2
      <3> QED BY <1>1, <1>2, <3>1 DEF PiecesInv, ProvidedInv
    <2>2. ASSUME NEW i \in 1 .. Len(pieces'), NEW j \in 1 .. Len(pieces'), i < j
          PROVE InOrder(pieces'[i], pieces'[j])
      <3>1. i \in 1 .. Len(pieces) /\ (j \in 1 .. Len(pieces) \/ j = Len(pieces) + 1)
        BY <1>2, <2>2
      <3> QED BY <1>1, <1>2, <2>2, <3>1 DEF PiecesInv, ProvidedInv
    <2> QED BY <2>1, <2>2, <1>4, <1>5 DEF PiecesInv
  <1>8. ProvidedInv' /\ ChunkInv' BY DEF ProvidedInv, ChunkInv, PushPiece
  <1>9. RoomInv' BY DEF PushPiece
  <1> QED BY <1>3, <1>6, <1>7, <1>8, <1>9

\* queue_get_front: the first piece of the queue is consumed.
LEMMA GetPieceInv == ASSUME RingInv, GetPiece PROVE RingInv'
  <1> USE DEF RingInv, RingTypeOK, RoomInv
  <1>1. /\ pieces' \in Seq(Pieces) /\ Len(pieces') = Len(pieces) - 1
        /\ \A i \in 1 .. Len(pieces') : pieces'[i] = pieces[i + 1]
        /\ consumed' = pieces[1] /\ consumed' \in Pieces /\ Len(pieces) \in Nat \ {0}
    BY DEF GetPiece
  <1>2. RingTypeOK' BY <1>1, RingAssumption DEF GetPiece
  <1>3. \A p : Placed(p) => Placed(p)' BY DEF GetPiece, Placed, BeforeWrap
  <1>4. \A p, q : InOrder(p, q) => InOrder(p, q)' BY DEF GetPiece, InOrder, BeforeWrap
  <1>5. \A i \in 1 .. Len(pieces') : i + 1 \in 1 .. Len(pieces) BY <1>1
  <1>6. 1 \in 1 .. Len(pieces) BY <1>1
  <1>7. ConsumedInv'
    <2>1. Placed(consumed') BY <1>1, <1>6 DEF PiecesInv
    <2>2. \A i \in 1 .. Len(pieces') : InOrder(consumed', pieces'[i])
      BY <1>1, <1>5, <1>6 DEF PiecesInv
    <2>3. provided # NoPiece => InOrder(consumed', provided)
      BY <1>1, <1>6 DEF ProvidedInv
    <2> QED BY <2>1, <2>2, <2>3, <1>3, <1>4 DEF ConsumedInv, GetPiece
  <1>8. PiecesInv'
    <2>1. \A i, j \in 1 .. Len(pieces') : i < j => InOrder(pieces'[i], pieces'[j])
      BY <1>1, <1>5 DEF PiecesInv
    <2> QED BY <1>1, <1>3, <1>4, <1>5, <2>1 DEF PiecesInv
  <1>9. ProvidedInv' BY <1>1, <1>3, <1>4, <1>5 DEF ProvidedInv, GetPiece
  <1>10. ChunkInv' BY DEF ChunkInv, GetPiece
  <1>11. RoomInv' BY <1>1, RingAssumption DEF GetPiece
  <1> QED BY <1>2, <1>7, <1>8, <1>9, <1>10, <1>11

\* pomme_buffer_release moves begin to the end of the piece.  If that one is
\* BeforeWrap, so are those that follow it or they are before end; if not, no BeforeWrap one
\* is left and the buffer is not wrapped any more.
LEMMA BufferReleaseInv == ASSUME RingInv, BufferRelease PROVE RingInv'
  <1> USE RingAssumption
  <1> USE DEF RingInv, RingTypeOK, RoomInv
  <1>1. consumed \in Pieces /\ Placed(consumed) /\ begin' = consumed.at + consumed.len
        /\ consumed.at \in Nat /\ consumed.len \in Nat
    BY PieceIsReal DEF BufferRelease, ConsumedInv
  <1>2. RingTypeOK' BY <1>1 DEF BufferRelease, Placed
  <1>3. ASSUME NEW p \in Pieces, Placed(p), InOrder(consumed, p) PROVE Placed(p)'
    BY <1>1, <1>3, PieceIsReal DEF BufferRelease, Placed, InOrder, BeforeWrap
  <1>4. ASSUME NEW p \in Pieces, NEW q \in Pieces, InOrder(consumed, p),
               InOrder(consumed, q), Placed(p), Placed(q), InOrder(p, q)
        PROVE InOrder(p, q)'
    BY <1>1, <1>4, PieceIsReal DEF BufferRelease, Placed, InOrder, BeforeWrap
  <1>5. \A i \in 1 .. Len(pieces) : pieces[i] \in Pieces /\ InOrder(consumed, pieces[i])
    BY DEF ConsumedInv, BufferRelease
  <1>6. provided # NoPiece => provided \in Pieces /\ InOrder(consumed, provided)
    BY DEF ConsumedInv, BufferRelease
  <1>7. ConsumedInv' BY DEF ConsumedInv, BufferRelease
  <1>8. PiecesInv' BY <1>3, <1>4, <1>5 DEF PiecesInv, BufferRelease
  <1>9. ProvidedInv' BY <1>3, <1>4, <1>5, <1>6 DEF ProvidedInv, PiecesInv, BufferRelease
  <1>10. ChunkInv' BY <1>1 DEF ChunkInv, BufferRelease, Placed, BeforeWrap
  <1>11. RoomInv' BY DEF BufferRelease
  <1> QED BY <1>2, <1>7, <1>8, <1>9, <1>10, <1>11

LEMMA RingStepInv == RingInv /\ [RingNext]_ringVars => RingInv'
  <1> SUFFICES ASSUME RingInv, [RingNext]_ringVars PROVE RingInv' OBVIOUS
  <1>1. CASE StartProvider
    BY <1>1 DEF StartProvider, RingInv, RingTypeOK, RoomInv, ConsumedInv, PiecesInv,
                ProvidedInv, ChunkInv, Placed, InOrder, BeforeWrap
  <1>2. CASE BufferNext BY <1>2, BufferNextInv
  <1>3. CASE \E len \in 0 .. Chunk - 1 : BufferTake(len) BY <1>3, BufferTakeInv
  <1>4. CASE PushPiece BY <1>4, PushPieceInv
  <1>5. CASE GetPiece BY <1>5, GetPieceInv
  <1>6. CASE BufferRelease BY <1>6, BufferReleaseInv
  <1>7. CASE UNCHANGED ringVars
    BY <1>7 DEF ringVars, RingInv, RingTypeOK, RoomInv, ConsumedInv, PiecesInv,
                ProvidedInv, ChunkInv, Placed, InOrder, BeforeWrap
  <1> QED BY <1>1, <1>2, <1>3, <1>4, <1>5, <1>6, <1>7 DEF RingNext, Provider, Consumer

\* RingBuffer's variables have their types in every state.
THEOREM RingTypeCorrect == RingSpec => []RingTypeOK
  <1>1. RingInv => RingTypeOK BY DEF RingInv
  <1> QED BY <1>1, RingInitInv, RingStepInv, PTL DEF RingSpec

\* A chunk that pomme_buffer_next handed out lies in the buffer and shares no
\* byte with a piece that is queued or being consumed.
THEOREM ChunkFree == RingSpec => []ChunkIsFree
  <1>1. RingInv => ChunkIsFree
    <2> USE RingAssumption DEF RingInv, RingTypeOK
    <2> SUFFICES ASSUME RingInv, providerPc = "fill"
                 PROVE /\ provided.at + Chunk <= RingSize
                       /\ \A p \in Live : (provided.at .. provided.at + Chunk - 1)
                                             \cap Bytes(p) = {}
      BY DEF ChunkIsFree
    <2>1. provided \in Pieces /\ provided.at = end /\ provided.len = 0
      BY PieceIsReal DEF ChunkInv, ProvidedInv
    <2>2. ASSUME NEW p \in Pieces, Placed(p)
          PROVE (end .. end + Chunk - 1) \cap Bytes(p) = {}
      BY <2>2, PieceIsReal DEF ChunkInv, Placed, BeforeWrap, Bytes
    <2>3. Bytes(NoPiece) = {} BY DEF Bytes, NoPiece
    <2>4. \A p \in Live : p = NoPiece \/ (p \in Pieces /\ Placed(p))
      BY <2>1 DEF Live, ConsumedInv, PiecesInv, ProvidedInv
    <2> QED BY <2>1, <2>2, <2>3, <2>4 DEF ChunkInv
  <1> QED BY <1>1, RingInitInv, RingStepInv, PTL DEF RingSpec

-----------------------------------------------------------------------------
(* The run of all the utilities.                                           *)

UtilsInv ==
  /\ part \in {"log", "hash", "ring", "fastbit", "stream"}
  /\ LogInv /\ HashInv /\ RingInv /\ FbInv /\ StreamInv

\* The parts share no state: a step of one keeps the invariants of all.
LEMMA UtilsStepInv == UtilsInv /\ [Next]_utilsVars => UtilsInv'
  <1> SUFFICES ASSUME UtilsInv, [Next]_utilsVars PROVE UtilsInv'
    OBVIOUS
  <1>1. /\ [LogNext]_logVars /\ [HashNext]_hashVars /\ [RingNext]_ringVars
        /\ [FbNext]_fbVars /\ [StreamNext]_streamVars
        /\ part' = part
    BY DEF Next, Log, Hash, Ring, Bitmap, Streaming, utilsVars
  <1>2. LogInv' /\ HashInv' /\ RingInv' /\ FbInv' /\ StreamInv'
    BY <1>1, LogStepInv, HashStep, RingStepInv, FbSteps, StreamStepInv DEF UtilsInv
  <1> QED BY <1>1, <1>2 DEF UtilsInv

\* The utilities side by side, as TLC runs them, keep their types.
THEOREM UtilsTypeCorrect == Spec => []UtilsTypeOK
  <1>1. Init => UtilsInv
    BY LogInitInv, HashInitInv, RingInitInv, FbStart, StreamInitInv DEF Init, UtilsInv
  <1>2. UtilsInv => UtilsTypeOK
    BY HashInvIs DEF UtilsInv, UtilsTypeOK, LogInv, RingInv, FbInv, StreamInv
  <1> QED BY <1>1, <1>2, UtilsStepInv, PTL DEF Spec

=============================================================================
