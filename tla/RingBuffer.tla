----------------------------- MODULE RingBuffer -----------------------------
(***************************************************************************)
(* The ring buffer: utils/pomme_buffer.c, used the way test/test_buffer.c  *)
(* uses it, the only user it has.                                          *)
(*                                                                         *)
(* A provider asks for a chunk until there is one, fills less than all of  *)
(* it, takes what it filled and queues the piece; a consumer gets a piece, *)
(* works on it and releases it.  next, take and release are one step each, *)
(* under the buffer's mutex, and so are the operations of the queue        *)
(* between the two.  The queue holds 10 000 000 pieces and is taken as     *)
(* never full.                                                             *)
(***************************************************************************)
EXTENDS Integers, Sequences

CONSTANTS
  RingSize,   \* bytes in the buffer
  Chunk,      \* chunk_size
  MaxPieces   \* bound: pieces queued (empty ones take no room)

\* pomme_buffer_init asserts Chunk < RingSize.  In a buffer of less than two
\* chunks begin and end can meet where neither side has room for one.
ASSUME RingAssumption ==
  /\ RingSize \in Nat /\ Chunk \in Nat \ {0} /\ MaxPieces \in Nat \ {0}
  /\ 2 * Chunk <= RingSize

VARIABLES
  begin, end,  \* of the buffer
  provided,    \* what the provider has: data_begin and length, or none
  providerPc,  \* where it is in its loop
  pieces,      \* the queue
  consumed     \* the piece the consumer has, or none

ringVars == <<begin, end, provided, providerPc, pieces, consumed>>

NoPiece == [at |-> 0, len |-> -1]
Pieces  == [at : 0 .. RingSize, len : 0 .. Chunk - 1]

\* pomme_buffer_init.
RingInit ==
  /\ begin = 0 /\ end = 0
  /\ provided = NoPiece /\ providerPc = "start"
  /\ pieces = <<>> /\ consumed = NoPiece

\* The provider's thread begins.
StartProvider ==
  /\ providerPc = "start"
  /\ providerPc' = "ask"
  /\ UNCHANGED <<begin, end, provided, pieces, consumed>>

\* Mutant of RoomAhead: begin is not looked at.
RoomAheadBlind == RingSize - end >= Chunk

\* pomme_buffer_next: a chunk of room from end on, up to the end of the buffer
\* or up to begin.
RoomAhead == IF begin <= end THEN RingSize - end >= Chunk
                             ELSE begin - end >= Chunk

\* Mutant of RoomInFront: the tail is never given up.
RoomInFrontNever == FALSE

\* Or the room is at the start, before begin, and the tail is given up.
RoomInFront == begin <= end /\ RingSize - end < Chunk /\ begin >= Chunk

\* pomme_buffer_next when it finds room; when not the provider asks again.
BufferNext ==
  /\ providerPc = "ask" /\ Len(pieces) < MaxPieces
  /\ \/ RoomAhead   /\ provided' = [at |-> end, len |-> 0] /\ end' = end
     \/ RoomInFront /\ provided' = [at |-> 0, len |-> 0]   /\ end' = 0
  /\ providerPc' = "fill"
  /\ UNCHANGED <<begin, pieces, consumed>>

\* pomme_buffer_take of less than a chunk.
BufferTake(len) ==
  /\ providerPc = "fill"
  /\ end' = end + len
  /\ provided' = [provided EXCEPT !.len = len]
  /\ providerPc' = "push"
  /\ UNCHANGED <<begin, pieces, consumed>>

\* queue_push_back.
PushPiece ==
  /\ providerPc = "push"
  /\ pieces' = Append(pieces, provided)
  /\ provided' = NoPiece /\ providerPc' = "ask"
  /\ UNCHANGED <<begin, end, consumed>>

\* queue_get_front.
GetPiece ==
  /\ consumed = NoPiece /\ pieces # <<>>
  /\ consumed' = Head(pieces) /\ pieces' = Tail(pieces)
  /\ UNCHANGED <<begin, end, provided, providerPc>>

\* Mutant of BufferRelease: begin goes on by what was released.
ReleaseByLength ==
  /\ consumed # NoPiece
  /\ begin' = begin + consumed.len
  /\ consumed' = NoPiece
  /\ UNCHANGED <<end, provided, providerPc, pieces>>

\* pomme_buffer_release.
BufferRelease ==
  /\ consumed # NoPiece
  /\ begin' = consumed.at + consumed.len
  /\ consumed' = NoPiece
  /\ UNCHANGED <<end, provided, providerPc, pieces>>

Provider == BufferNext \/ (\E len \in 0 .. Chunk - 1 : BufferTake(len)) \/ PushPiece
Consumer == GetPiece \/ BufferRelease

RingNext == StartProvider \/ Provider \/ Consumer

RingSpec == RingInit /\ [][RingNext]_ringVars

\* Both threads go on: the consumer's waiting and the provider's asking are
\* loops.
RingFairness == WF_ringVars(Provider) /\ WF_ringVars(Consumer)

-----------------------------------------------------------------------------
(* Properties.                                                             *)

\* Every variable has its type; begin and end are in the buffer.
RingTypeOK ==
  /\ begin \in 0 .. RingSize /\ end \in 0 .. RingSize
  /\ provided \in Pieces \cup {NoPiece}
  /\ providerPc \in {"start", "ask", "fill", "push"}
  /\ (provided = NoPiece) = (providerPc \in {"start", "ask"})
  /\ pieces \in Seq(Pieces) /\ Len(pieces) <= MaxPieces
  /\ consumed \in Pieces \cup {NoPiece}

\* The bytes of a piece.
Bytes(p) == p.at .. p.at + p.len - 1

\* The pieces whose bytes somebody still needs.
Live == {pieces[i] : i \in 1 .. Len(pieces)} \cup {consumed, provided}

\* What pomme_buffer_next hands out, and with it every piece, lies inside the buffer and touches no
\* piece that is queued or being consumed, however the two ends have wrapped.
ChunkIsFree ==
  providerPc = "fill" =>
    /\ provided.at + Chunk <= RingSize
    /\ \A p \in Live : (provided.at .. provided.at + Chunk - 1) \cap Bytes(p) = {}

\* The provider gets its chunk: full and empty are never mistaken for each
\* other, and the tail that was given up comes back.
RoomComes == providerPc = "ask" ~> providerPc = "fill"

=============================================================================
