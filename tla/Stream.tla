------------------------------- MODULE Stream -------------------------------
(***************************************************************************)
(* The byte stream under an RPC: utils/pomme_serilize.c and the reading of *)
(* arguments in rpc/pomme_rpc.c.                                           *)
(*                                                                         *)
(* pomme_rpc_write writes the number of items and then, for each, its size *)
(* and its bytes.  The network delivers the stream cut anywhere but inside *)
(* an integer, and the peer may be gone at any moment.  pomme_rpc_read     *)
(* reads the number, then the items with read_data, and compares them with *)
(* what the caller expects.  After a short read read_data asks again for   *)
(* as many bytes as the item has, so that it may take bytes of what comes  *)
(* next; its assertion then ends the process.                              *)
(***************************************************************************)
EXTENDS Integers, Sequences, FiniteSetsExt

CONSTANTS
  RpcMessages,  \* what may be written: where each item's bytes are, and how many
  Expects,      \* what may be expected: sequences of sizes or AnySize
  IntLen        \* sizeof(int)

AnySize == -1

Items == [at : Nat, len : Nat]

\* The stream of a message: the number of items, and for each of them its size
\* and its bytes.
LaidOut(m) ==
  \A i \in 1 .. Len(m) :
    m[i].at = IntLen + (IF i = 1 THEN IntLen ELSE m[i - 1].at + m[i - 1].len)

ASSUME StreamAssumption ==
  /\ RpcMessages \subseteq Seq(Items) /\ \A m \in RpcMessages : LaidOut(m)
  /\ Expects \subseteq Seq(Nat \cup {AnySize})
  /\ IntLen \in Nat \ {0}

VARIABLES
  message, expect,  \* the call's items, and what the reader expects of them
  arrived, closed,  \* bytes delivered; whether the peer closed its end
  readPos,          \* bytes read
  readPc,           \* where the reader is
  items,            \* what read_data returned: where in the stream, how long
  rn, tl, readed,   \* of pomme_rpc_read and of read_data
  readAns           \* what pomme_rpc_read answered

streamVars == <<message, expect, arrived, closed, readPos, readPc, items,
                rn, tl, readed, readAns>>
peerVars   == <<message, expect, arrived, closed>>

StreamEnd == LET n == Len(message) IN
             IF n = 0 THEN IntLen ELSE message[n].at + message[n].len

\* Whether a position is inside an integer.
InInteger(pos) ==
  \/ pos \in 1 .. IntLen - 1
  \/ \E i \in 1 .. Len(message) :
       pos \in message[i].at - IntLen + 1 .. message[i].at - 1

StreamInit ==
  /\ message = <<>> /\ expect = <<>>
  /\ arrived = 0 /\ closed = FALSE
  /\ readPos = 0 /\ readPc = "idle"
  /\ items = <<>> /\ rn = 0 /\ tl = 0 /\ readed = 0
  /\ readAns = "none"

-----------------------------------------------------------------------------
(* The peer and the network.                                               *)

\* pomme_rpc_write of a message, for a reader that expects e.
RpcWrite(m, e) ==
  /\ readPc = "idle"
  /\ message' = m /\ expect' = e
  /\ readPc' = "count"
  /\ UNCHANGED <<arrived, closed, readPos, items, rn, tl, readed, readAns>>

Deliver ==
  /\ readPc # "idle" /\ ~closed
  /\ \E pos \in arrived + 1 .. StreamEnd : ~InInteger(pos) /\ arrived' = pos
  /\ UNCHANGED <<message, expect, closed, readPos, readPc, items, rn, tl, readed,
                 readAns>>

\* The peer ends, or closes its descriptor after the last byte.
Close ==
  /\ readPc # "idle" /\ ~closed
  /\ closed' = TRUE
  /\ UNCHANGED <<message, expect, arrived, readPos, readPc, items, rn, tl, readed,
                 readAns>>

-----------------------------------------------------------------------------
(* The reader, pomme_rpc_read.                                             *)

\* read(): up to want of the bytes there are; none at the end of the file.
\* It blocks while there are none.
Readable == arrived > readPos \/ closed
Got(want) == Min({want, arrived - readPos})

\* The number of items; 0 at the end of the file, which read does not report
\* as an error.
ReadCount ==
  /\ readPc = "count" /\ Readable
  /\ rn' = IF Got(IntLen) = 0 THEN 0 ELSE Len(message)
  /\ readPos' = readPos + Got(IntLen)
  /\ readPc' = IF rn' = 0 THEN "match" ELSE "size"
  /\ UNCHANGED <<peerVars, items, tl, readed, readAns>>

\* read_data is done with an item of size len from position at on.
Return(at, len) ==
  /\ items' = Append(items, [at |-> at, len |-> len])
  /\ readPc' = IF Len(items) + 1 = rn THEN "match" ELSE "size"

\* read_data's size; at the end of the file it stays 0 and the item is empty.
ReadSize ==
  /\ readPc = "size" /\ Readable
  /\ readPos' = readPos + Got(IntLen)
  /\ readed' = 0
  /\ tl' = IF Got(IntLen) = 0 THEN 0 ELSE message[Len(items) + 1].len
  /\ IF tl' = 0 THEN Return(readPos', 0) ELSE readPc' = "data" /\ UNCHANGED items
  /\ UNCHANGED <<peerVars, rn, readAns>>

\* Mutant of ReadBytes: one read is taken to bring the item.
ReadBytesOnce ==
  /\ readPc = "data" /\ Readable
  /\ readPos' = readPos + Got(tl)
  /\ readed' = readed + Got(tl)
  /\ Return(readPos, Got(tl))
  /\ UNCHANGED <<peerVars, rn, tl, readAns>>

\* Mutant of ReadBytes: the loop goes on while readed <= tl.
ReadBytesMore ==
  /\ readPc = "data" /\ Readable
  /\ readPos' = readPos + Got(tl)
  /\ readed' = readed + Got(tl)
  /\ IF readed' > tl THEN readPc' = "aborted" ELSE UNCHANGED readPc
  /\ UNCHANGED <<peerVars, items, rn, tl, readAns>>

\* read_data's loop asks for tl bytes whatever came already, and its assertion
\* wants exactly tl.  At the end of the file the loop does not end.
ReadBytes ==
  /\ readPc = "data" /\ Readable
  /\ readPos' = readPos + Got(tl)
  /\ readed' = readed + Got(tl)
  /\ IF readed' < tl THEN UNCHANGED <<items, readPc>>
     ELSE IF readed' > tl THEN readPc' = "aborted" /\ UNCHANGED items
     ELSE Return(readPos' - tl, tl)
  /\ UNCHANGED <<peerVars, rn, tl, readAns>>

\* Mutant of Match: the sizes of the first item are compared only.
MatchFirst ==
  /\ readPc = "match"
  /\ readAns' = IF rn # Len(expect) THEN "number"
                ELSE IF rn # 0 /\ expect[1] \notin {AnySize, items[1].len}
                     THEN "type"
                ELSE "ok"
  /\ readPc' = "done"
  /\ UNCHANGED <<peerVars, readPos, items, rn, tl, readed>>

\* pomme_rpc_read compares the items with what is expected.
Match ==
  /\ readPc = "match"
  /\ readAns' = IF rn # Len(expect) THEN "number"
                ELSE IF \E i \in 1 .. rn : expect[i] \notin {AnySize, items[i].len}
                     THEN "type"
                ELSE "ok"
  /\ readPc' = "done"
  /\ UNCHANGED <<peerVars, readPos, items, rn, tl, readed>>

Reader == ReadCount \/ ReadSize \/ ReadBytes \/ Match

StreamNext ==
  \/ \E m \in RpcMessages, e \in Expects : RpcWrite(m, e)
  \/ Deliver \/ Close \/ Reader

StreamSpec == StreamInit /\ [][StreamNext]_streamVars

\* The reader is a thread in a loop; nothing is promised of the network.
StreamFairness == WF_streamVars(Reader)

-----------------------------------------------------------------------------
(* Properties.                                                             *)

\* Every variable has its type; nothing is read that has not arrived.
StreamTypeOK ==
  /\ message \in RpcMessages \cup {<<>>} /\ expect \in Expects \cup {<<>>}
  /\ arrived \in 0 .. StreamEnd /\ closed \in BOOLEAN
  /\ readPos \in 0 .. arrived
  /\ readPc \in {"idle", "count", "size", "data", "match", "done", "aborted"}
  /\ items \in Seq(Items) /\ Len(items) <= rn
  /\ rn \in {0, Len(message)} /\ tl \in Nat /\ readed \in Nat
  /\ readAns \in {"none", "ok", "number", "type"}

Whole(i) == items[i] = message[i]

\* However the stream is cut, read_data returns the items that were written,
\* whole and in their order, although its loop can run into the next item:
\* then the process ends.  Only when the peer has gone are there others, and
\* those are empty and the last ones.
ItemsWhole ==
  \E whole \in 0 .. Len(items) :
    /\ \A i \in 1 .. whole : Whole(i)
    /\ whole < Len(items) => closed
    /\ \A i \in whole + 1 .. Len(items) : items[i].len = 0

\* A reader is told ok exactly when the items written are as many and of the
\* sizes it expects, unless the peer has gone early.
AnswerDeserved ==
  readPc = "done" /\ (closed => arrived = StreamEnd) =>
    (readAns = "ok") =
      /\ Len(message) = Len(expect)
      /\ \A i \in 1 .. Len(expect) : expect[i] \in {AnySize, message[i].len}

\* Once the whole call has arrived pomme_rpc_read returns or the assertion ends
\* the process; what may spin for ever is a reader whose peer has gone.
ReadEnds ==
  readPc # "idle" /\ arrived = StreamEnd ~> readPc \in {"done", "aborted"}

=============================================================================
