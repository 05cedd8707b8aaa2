# A verification project for pomme

pomme is a small distributed file system in C: clients ask a meta server for
inodes and file records over a home-grown RPC, and read and write objects on
data servers. This directory holds TLA+ models of its parts, TLC runs that
check them on small instances, and TLAPS proofs for every instance. Source
paths below are relative to the repository's `src/` directory.

## Inventory

| component | state | operations | interacts with | hard behaviour |
|---|---|---|---|---|
| work queue, `utils/pomme_queue.c` | linked list, length, bound, mutex | `queue_push_back`, `queue_get_front`, `queue_cpy_del` | pool, logger | the bound; two queues locked at once |
| thread pool, `utils/pomme_thread.c` | work queue, semaphore, `tids`, queue of free ranks, `cur_thread_num` | `start`, `add_worker`, `thread_routine`, `remove_thread`, `stop`, `pomme_tp_distroy` | RPC server | races of threads with each other and with stop; a full queue |
| RPC server, `rpc/pomme_rpcs.c`, `rpc/pomme_rpc.c` | listening and connection descriptors, epoll set, registered functions | `start`, `handle_request`, `thread_call`, `call` | pool, sockets, meta server | reuse of descriptor numbers, one-shot events, refusal by the pool |
| RPC client, `rpc/pomme_rpcc.c` | one connection per call | `sync_call` | RPC server | no timeout |
| serialisation, `utils/pomme_serilize.c` | a byte stream | `read_data`, `write_data` | both ends of RPC | short reads, end of file |
| meta server, `server/pomme_ms_impl.c`, `pomme_meta_server.c` | `imap` (name to inode), `meta_db` (inode to record), `inodes` (bitmap), registry, locks | `get_inode`, `create_file`, `write_file`, `read_file`, `stat_file`, locks, heart beats | runs on pool threads; Berkeley DB | lookup-then-insert races, restart without transactions |
| bitmap, `utils/fastbit.c` | tree of 32-way nodes | `fb_set_first0_1`, `fb_setn` | meta server | integer width, state after reload |
| data server, `server/pomme_data_server.c`, `pomme_storage.c`, `pomme_msg.c`, `pomme_protocol.c` | current storage file, index database | `put_object`, `get_object`, heart beat | client, meta server | partial failure, crash between file and index |
| client, `client/*.c`, `common/pomme_mapping.c` | open handles, caches nothing fills | `pomme_open`, `pomme_write` (`pomme_read` does not compile) | both servers | two servers, no atomicity, calls whose server dies |
| logger, `utils/pomme_log.c` | three queues, writer thread, `stop_log` | `POMME_LOG`, `create_logger`, `stop_logger` | everyone | messages at shutdown, reuse of slots |
| ring buffer, `utils/pomme_buffer.c` | begin, end, size | `next`, `release`, `take` | `test/test_buffer.c` | wrap-around, full or empty |
| hash table, `utils/pomme_hash.c` | buckets that are lists of nodes, each with memory for its value | `put`, `get`, `del` | data server's storage files, client's caches | values that outgrow their memory |
| packing, `utils/pomme_pack.c` | a buffer and a position | `pack_data`, `unpack_data` | data server's protocol | messages cut short |
| paths, configuration, lists | none shared | pure functions | | |
| stub generator, `rpc/pomme_rpcgen.c` | none | XML to C | build time | |

What makes each correct, in a sentence: the pool runs every job it accepted exactly
as long as it lives and its threads leave when it stops; the RPC server never mixes
up connections and answers what a call deserves; the meta server gives one file one
inode and one inode to one file; the bitmap allocates each number once; the data
server's index never points at bytes that are not the object; the client never
enters an object before its `pomme_client_put_data` has ended with success, and a
data server that lives can be found; the logger writes each message once, in order;
the ring buffer never overwrites unread bytes; the hash table is a map; `read_data`
returns the items that were written.

## Plan

Done:

1. **ThreadPool**, **RpcServer** over an instance of it, **MetaServer**: the
   path of every request of the running system.
2. **FastBit** implementing **NumberSet**, the set allocator MetaServer assumes.
3. **Stream**, the bytes under `read_data` and `write_data` with short reads and
   a peer that goes away.
4. **Logger** over the queues, **RingBuffer**.
5. **DataServer** with storage files, partial failures and crashes.
6. **PommeHash** implementing **KeyMap**.
7. **FileService**: clients, meta server, data servers and heart beats together,
   with the death of each.

8. Proofs of the safety properties of every module, and of the refinements.

Left: connections of the data server that end
while it serves another; the server-side `stop` of the RPC library, which nothing
calls.

## What is modelled

**ThreadPool.tla** is `utils/pomme_thread.c` with the queue as a bounded
sequence. The owner thread goes through `start`, `add_worker`, `stop` and
`distroy`; each rank's thread goes through `thread_routine`. A step reaches from
one point where another thread can be seen to the next: a queue operation (it
holds the queue's mutex), a semaphore operation, a write of a `tids` slot, so
that `add_worker` is two steps (`Submit`, `Post`) and leaving is two (`ClearTid`,
`Leave`). `tids` comes from `malloc` and is not cleared, so `stop` may find
anything in the slot of a rank that never had a thread: `"junk"`, on which
`pthread_join` returns an error or ends the process. `add_thread` is left out:
it hands the new thread a stack frame with an unset `ptp`, and nothing calls it.

**RpcServer.tla** has the callers (`sync_call`), the main thread (`start`,
`handle_request`) and the pool threads (`thread_call`, `call`). It owns an
instance of ThreadPool with the calls as jobs: the main thread's pool
operations are the owner's actions and a pool thread's `Finish` comes when
`thread_call` has closed the connection. A caller sends three items (the length
of the name, the name, the arguments), each delivered whole. Descriptor numbers
are explicit and the lowest free one is given out, as the kernel does; a worker
reaches its connection only through the number. Events are taken one by one,
which allows every order that a batch of `epoll_wait` allows: an armed
connection keeps its data until the main thread reads it. Closing a connection
with unread data resets it, and the reset may discard the answer. A caller whose
function is not registered may find its connection closed while it is still
writing: the next write goes unnoticed, meets a reset, or ends the caller (SIGPIPE,
or the assertion of `write_data`). This server
is never stopped in the program (`stop` of `pomme_rpcs_t` is never set), so the
pool's stop actions do not occur here.

**MetaServer.tla** has the handlers of `server/pomme_ms_impl.c` that touch
`imap`, `meta_db` and the bitmap, executed by any number of pool threads. One
Berkeley DB call or one allocation under `imutex` is one step, so `get_inode` is
up to three (`GetInode`, `GetId`, `InsertInode`). `Restart` ends the process at
any point, loses any set of records (no transactions, no sync, no close) and
rebuilds the bitmap the way `pomme_ms_init` does. What that leaves is taken from
the code: every record clears bit 0 (`localid%((long long)1)<<33` is 0), in a
first block that is created full. Inode numbers are the part under
`myid << 33`; `pomme_meta_main.c` passes its arguments in another order than
`pomme_ms_init` takes them, so `myid` is `POMME_LOG_ALL` and the special case for
`myid == 0` is not taken.

**DataServer.tla** is one data server process after another on one disk. A start
is `OpenEnv` (recovery), `ScanStorage`, and if there is no current storage file
`AppendStorage`, `CreateLocalFile` and `SetFileHead`, one step per system call,
then `Listen`. The loop takes an event (`Accept`, or `PutStart`, `Get`,
`HandleOther` for a message) and `pomme_put_object` goes on in `PutFirst`,
`PutMore`, `PutEnter`, `PutUndo`. `Crash` ends the process between any two of
them. Sizes are the real ones in bytes; of contents the model keeps whose bytes
lie where. What the code does and one might not expect is in the model:

* both databases are opened inside a transaction nobody commits, so recovery may
  bring back all their records, those of the last recovery, or none;
* the listen socket is armed once, so that a process serves one connection, and
  the event's socket is taken to be `conn_sock`, the last one accepted;
* the key of `db_meta` is the address of the id in `handle_request`'s buffer (`addr`,
  the same for every request of one process), not the id;
* pieces after the first write `pro->data` again and not what was received;
* the socket does not block, so a piece that is late ends the put;
* a short write is undone with `ftruncate`, which leaves the offset behind the
  end, and a failed one (-1) passes the test `ret < len` as a large number;
* a message cut short inside its head gives a null pointer, and one whose first
  piece is longer than the 1024 bytes received gives `data == NULL` and the
  assertion of `put_data_2_storage`; this is what the shipped client sends for every
  object of more than 972 bytes (client `shipped` of `MCDataServer`);
* a get sends whole packages, past the end of its object if the file goes on.

**FileService.tla** composes what crosses processes: `pomme_ds_heart_beat` with
its timer, `pomme_heart_beat` and `pomme_get_ds`, and the client's `pomme_open` and
`pomme_write`. Each RPC is a step to send (`Dial`), one to execute and one to take the
answer; without a meta server that takes calls the connection may be refused. All
data servers are registered under id 0, `sync_call` never closes its socket, and
every heart beat costs its server a descriptor (`MaxFds`; with the usual 1024 that is
two days of one beat every three minutes). The inside of the handlers is
MetaServer's and that of a put DataServer's; here each is one step. What a death
does to the other side is in the model:

* `MetaDies` gives a call that is not answered a reset, an end of file, or, while its
  arguments are still being written, a write its caller does not survive. An end of
  file is an empty answer to `read_data`: `pomme_sync_get_inode` then reads through a
  null pointer, `pomme_client_get_ds` leaves its result as it was on the stack, and
  `pomme_client_write_file` reports success.
* An answer is two writes. One that has bytes may be cut behind its length
  (`HasBytes`): `read_data` then asks for the bytes for ever, or fails its assertion
  after a reset (`CallKills`). A client never returns from that, and a data server,
  whose beats run inside the handler of SIGALRM, never beats again.
* A caller that dies leaves a beat that is executed later (`stray`). When only the
  length of the function's name arrived, the main thread of the meta server waits
  for the name in `read_data`, and takes no other call (`stuck`). A death inside the
  arguments costs the meta server one thread of its pool; the model has no pool here
  and leaves that out.
* A data server accepts one connection in its life. A client that is connected but
  not accepted can send what the socket's buffers hold; for a large object its `send`
  blocks (`Blocks`) until that data server dies.

The bytes a put sends are not the writer's: `pomme_client_put_data` never uses its
`buffer`, `pro.data` stays NULL, `pack_msg` packs `&pro->data`, bytes of the stack, and
the rest of a large object is sent from behind the packed message. `Send` therefore
says no more than that `pomme_client_put_data` ended, well or not.

**Logger.tla** has any number of threads in `add_log`, the writer thread and
`stop_logger`. A `log_t` is a slot with a content, so that reuse of a slot that is
still queued would show. Messages queued after the writer's last move are never
printed: that is how the code stops, and `LoggedIsWritten` excepts it.
**PommeHash.tla** has the buckets as lists of nodes with the size of their memory,
which is the table's own or, with `POMME_DATA_NEED_FREE`, what the caller handed
over; **KeyMap.tla** is the map it implements. **RingBuffer.tla** has the provider
and the consumer of `test/test_buffer.c`. It assumes twice a chunk fits
(`RingAssumption`): in a smaller ring the provider can find no room for ever, and
`pomme_buffer_init` only asserts that one chunk fits; and a full queue, of 10 000
000 pieces there, is taken as never reached. **FastBit.tla** is the tree of
`utils/fastbit.c`, with what `pomme_ms_init` does to it. `fb_set_first0_1` and
`fb_setn` call themselves for a child and go on when that returns; a step of the
model is the work at one node, on the way down (`Find`, `Clear`) or back up (`Full`,
`Found`, `Cleared`), and a node is named by its depth and its place there.
**NumberSet.tla** is the allocator MetaServer uses, with one step per call: a number
is taken when its leaf has the bit and free again when its clearing begins.
**Stream.tla** is one message through `pomme_rpc_write` (given by where in the
stream each item's bytes lie, `LaidOut`), a network that cuts it anywhere but inside
an integer, a peer that may be gone, and `pomme_rpc_read`; after a short read the
loop of `read_data` asks for the whole item again, and what it then takes too much
ends in its assertion.

`MCThreadPool`, `MCRpcServer`, `MCMetaServer`, `MCDataServer` and `MCFileService`
instantiate them for TLC. `MCUtils` puts the five utilities, which share no state,
side by side in one run: `part` says which one a behaviour uses.

## What the runs show

| run | shows |
|---|---|
| PoolService | the queue respects its bound; the assertion of `thread_routine` holds; stop drains accepted jobs; free ranks are free; accepted jobs finish; stop ends when it dropped no pill |
| PoolStopHangs | violated: a pill refused by the full queue leaves its thread for ever in `sem_wait`, and stop in `pthread_join` |
| PoolDistroy | violated: `distroy` frees the finished queue under a thread that has cleared its slot but not pushed its rank |
| RpcServe | one reader per connection, descriptor numbers stay with their call, answers fit the call |
| RpcLive | a queued call returns to its caller, unless writing the arguments of an unknown function ended it |
| RpcTimeout | violated: a refused call waits for ever, whatever `time_out` it passed |
| MetaSafety | inodes of files entered since the start are distinct although numbers of lost races leak and run out, clients agree on them, a create succeeds once, no step but a restart loses a name |
| MetaDuplicateInode | violated: after a restart two names get one inode |
| MetaOverwritten | violated: a write replaces the file's record |
| DataServe | however the process dies there is one storage file; entries name bytes that are there and that their own put wrote; an answer has bytes of one object; the server comes back to its loop |
| FileService | what the meta server knows was put before; what a client was told is entered, but for a meta server that dies inside the call; a handle's writes tile the file; a data server that is alone is registered, unless it or the meta server dies or is caught in `read_data`; `pomme_write` returns or ends its process, but for three endless waits |
| Utils | the logger prints each accepted message once and in order, never to a closed file, and stops; the hash table is a map and values fit their memory; the ring buffer's chunks are free and come; the bitmap is a set of numbers; `read_data` returns what was written and `pomme_rpc_read` decides rightly |

Each violated property states what a header of the repository says; the line is
quoted at the property and in `PROJECT.json`. Four more disagreements were met
while modelling and have no run of their own: the client's first piece that does
not fit the server's buffer (`DataAssertion` of DataServer states what the
assertion of `put_data_2_storage` wants), an end of file that
`pomme_client_write_file` reports as success (the exception in `AckedEntered`),
`pomme_lock`, which never stores a lock, and `pomme_client_put_data`, which does not
send its `buffer` (`client/include/pomme_client_data.h`: "the buffer where the data to
be sent is stored"). The last one is about what bytes are, which no model tells
apart: they tell whose put a byte belongs to.

**What the properties except.** `StoredObjectsIntact` follows which put wrote a byte
and not the byte: the server writing `pro->data` again instead of the piece it
received, and the client sending other bytes than the writer's, are outside it.
`WritesReturn` excepts three waits that have no end, each a hazard of its own: for the
bytes of an answer whose meta server died behind its length, for a data server to
read what a client sends it, and for a meta server whose main thread is caught in
`read_data`. `SoleServerFound` speaks of a meta server that takes calls and of a data
server with a descriptor left, and excepts one that `read_data` has caught in its
signal handler. `AckedEntered` excepts the meta server's death inside the call.

**Bounds.** PoolService has two threads and one spare rank (so that slots left
uninitialised exist), a queue of two and three jobs: jobs are refused, jobs wait
behind running ones, and zero, one or both pills are dropped. RpcServe has three
calls, one of each kind (fits, does not match, not registered), two descriptors (so
that numbers are reused while other calls are under way), two threads and a queue of
one (so that requests are refused). RpcLive and RpcTimeout keep two calls, enough
for one to be refused behind the other. MetaSafety has two threads, three keys (both
race shapes, same key and different keys) and two inode numbers in blocks of one, so
that the full first block after a reload has a second one behind it and the bitmap
runs out, and one restart; `MaxRestarts` is its only counter bound. DataServe has a
put that fits one message, one in two pieces, one as the shipped client sends it, a
get and a message that is neither, three starts (one to write, one that may lose or
repeat, one to read it back), two addresses of the buffer (the same one and another
one in the next life) and one foreign entry in the data directory (so that the new
file's name can be taken). TCP cuts a stream inside the head, behind the first
piece, and at its end: the three places where the code takes another branch.
FileService has two installations: a data server with a client that writes twice,
for what the client goes through, and two data servers alone, for what they do to
each other's record. Each data server is started twice, with descriptors for two or
three beats, so that they run out, beats of an earlier life are still on
their way in the next one, and a client holds a connection to a process that is gone
although its server is up; the meta server comes back once. Utils has two logging
threads with two messages each and queues of two, three keys in two buckets, two
lengths of values and memory of either size handed over, a ring of seven bytes with
chunks of three (pieces of 0, 1 and 2 bytes, so that every alignment of the wrap
occurs), a tree of 2^3 numbers with full and freed children on two levels, and
messages of one to three items with an empty one among them, read by readers that
expect another number or other sizes. FastBit's numbers stay below the width of an
`int`: with 32-bit integers `fb_set_first0_1` gives negative numbers after 2^31
allocations.

**Fairness.** The pool's threads and an owner inside an operation are weakly
fair: they are operating system threads and the code has no priorities. Whether
the owner submits or stops is its caller's choice and not fair. A queued job's
function returns. In RpcServer a caller that has connected goes on (weak), and
`epoll_wait` reports in turn what stays ready, so a connection that is ready
again and again is eventually taken although others compete for the main thread
(strong fairness of `Accept` and `Event`). Without callers that finish their
name nobody is served: the main thread reads it without a limit. In DataServer
the process gets the processor (weak fairness of its steps), but no one has to
start it, to connect or to send. In FileService a running timer fires, the meta
server executes what it accepted unless it is stuck, and clients go on, all weakly
fair; no process has to stay up or to be started, the beat of a process that is gone
need not be executed, and a `send` that blocks need not end (`~Blocks(c)` in
`FairSpec`). In Utils the writer, the threads inside
`add_log`, provider, consumer and reader are threads in loops; the network has
to deliver nothing (`ReadEnds` starts when everything has arrived).

Deadlock checking is off where the system may stop: after every call has
returned, after a refused call, in a stop that lost a pill, when the data server
has served its one connection in its last life, and when the servers are down
for good.

## What is proved

`ThreadPoolProofs.tla`, for every number of ranks, threads and jobs and every
queue bound, from `PoolAssumption` alone:

* `TypeCorrect`: `TypeInv` adds to `TypeOK` that the owner's and the threads'
  position fits what they hold (a running thread holds a job, a posted pill has
  a thread left to count out).
* `FinishedRanksFree`: `SlotsInv` says that threads have the low ranks, that
  only a thread before its `ClearTid` has an id in its slot, and that nothing
  leaves while `start` is running.
* `SemAssertion`: `SemMakesAssertTrue` alone is not inductive, since one thread
  can take the worker another one was woken for. `SemCounts` is: the length of
  the queue is the semaphore plus the threads between `sem_wait` and
  `queue_get_front` plus one if a push has not been posted yet.

`ThreadPoolStopProofs.tla`, from the same assumption and `InitThreads > 0` (a
pool without threads keeps its jobs):

* `Drains`, that is `StopDrains`. `DrainInv` has three new parts. `JobsKept`: an
  accepted job is done, queued or running. `PillsBehind`: the queue is n jobs
  and then pills, n is 0 once a thread has taken a pill, and pills queued and
  taken are no more than threads counted out. `JoinInv`: a thread that has not
  cleared its slot has its id there, so the ranks stop has passed have left. When
  stop has returned all threads have taken a pill, that is all pills there can
  have been, so the queue is empty and nothing accepted can be left.

`MetaServerProofs.tla`, for every set of threads and keys, block size and number
of restarts, from `MetaAssumption`:

* `TypeCorrect`.
* `FreshUnique` and `ClientsAgree`: `NumbersInv` follows a number from the
  bitmap through the thread that holds it into `imap`: all of them are marked,
  no two threads hold one number, no thread holds a number already entered, and
  what was told is what is stored.
* `CreatesOnce` and `KeysKeep`.

`FileServiceProofs.tla`, for every set of data servers and clients, number of
descriptors, writes and starts, from `ServiceAssumption`:

* `TypeCorrect`.
* `PutBeforeEntered` (`EnteredAfterPut`), `AckEntered` and `Tiles`. `FileInv` follows
  one `pomme_write` through its calls: a client at `pomme_write_file` has put what it
  enters, that is, its `pomme_client_put_data` succeeded in this very write; one
  whose call succeeded has entered what it is about to report, and one without a
  handle has offset 0. `Tile` says the same as `WritesTile` of one client in a
  form a single new write extends. `Quiet` collects the steps that touch none of
  this, every step of a server and every death among them: that is the argument why no death or
  restart can break the three properties.

`RpcServerProofs.tla`, for every set of calls, number of descriptors and size of
the pool, from `RpcAssumption` (None and the pool's pill are no calls, there is a
descriptor):

* `TypeCorrect`, `ReadersExclude` (`OneReader`), `DescriptorsStay`
  (`DescriptorsStayMine`) and `AnswersRight` (`AnswersFit`) from `RpcInv`. Nothing in
  the code ties a descriptor to the party that uses it, so the invariant has to:
  a call is in the hands of the kernel and the main thread (`MainInv`), then in the
  queue once, then with one pool thread (`PlaceInv`), and its number becomes free only
  when that thread closes it, until when number and call name each other
  (`SockInv`). `StreamInv` counts items: what is unread is what the caller has sent
  less what the server has read where it is, so that a registered call has nothing
  unread when it is closed and cannot be reset. `PoolInv` says of the pool that it
  is never stopped and holds calls only.

`DataServerProofs.tla`, for every set of clients, messages and addresses and every
number of starts and foreign files, from `DataAssumption` (a message's first piece is
no longer than its object):

* `TypeCorrect` and `OneStorageFile` (`OneStorage`). A start makes a file only when
  it found no valid one, the head, which makes it valid, comes last, and a name that
  is taken is never taken for the new one (`StartInv`).
* `ObjectsStay` (`StoredObjectsIntact`). The file only grows: `DbInv` says that every
  entry that counts, in `db_meta` or in what recovery may bring back, ends at or
  before the place where the put in hand began, and a put, its undoing and a crash
  touch nothing before that place. `PutInv` says what the put has written so far,
  byte by byte.
* `AnswersRight` (`AnswersAreOneObject`), from the same.

`UtilsProofs.tla`, for the other four utilities and for all five:

* Logger, for every number of threads, messages and slots, from `LoggerAssumption`:
  `LogTypeCorrect`, `LogNothingLost` (`NothingLost`) and the action property
  `LogPrintsToOpen` (`PrintsToOpenFiles`). A slot has one owner, a queue, a caller or the
  writer (part of the type), so what is queued is not overwritten; the writer holds
  entries only while it drains, and it closes loggers only after its loop (`LogInv`).
* PommeHash, for every hash function, size of the table and values, from
  `HashAssumption`: `HashTypeCorrect`, `HashValuesFit` (`ValuesFit`) and `HashRefinesMap`
  (`HashIsMap`): every step of the table is a step of KeyMap or leaves its map alone.
  The invariant is that no bucket has two nodes with one key; `PutFound`, `PutNew` and
  `DelFound` say what a change of one bucket does to the map.
* Stream, for every set of messages, expectations and size of an integer, from
  `StreamAssumption`: `StreamTypeCorrect`, `StreamItemsWhole` (`ItemsWhole`) and
  `StreamAnswers` (`AnswerDeserved`). A reader is always before the size of its next item,
  inside the item's bytes, or at the end of a stream that was cut short, and in the
  last case only empty items follow (`StreamInv`).
  `LaidOut` only says where an item lies after the one before it; that it lies behind
  all earlier ones is proved by looking at the first item that would not
  (`ItemsInOrder`).
* RingBuffer, for every size of the buffer and of its chunks with room for two of
  them, from `RingAssumption`: `RingTypeCorrect` and `ChunkFree` (`ChunkIsFree`). The code
  keeps two positions and no list of pieces; `RingInv` says why they are enough. Seen
  from begin the pieces lie in the order of their release (`InOrder`), first those from
  begin on, then, once end has wrapped, those before end (`Placed`). A release moves
  begin past one piece and so uncovers no other, and since a take is less than a chunk
  end stays below begin when it has wrapped (`ChunkInv`): full never looks like empty.
* `UtilsTypeCorrect` (`UtilsTypeOK`) for the five side by side: the invariant of a part
  is kept by its own steps and by those of the others, which leave its variables alone.

`FastBitProofs.tla`, for every number of bits in a node from two on and every depth of
the tree from one on, from `FastBitAssumption` alone (the code has 32 and 6):

* `FbTypeCorrect`.
* `FastBitImplementsSet` (`FastBitIsSet`): every step of the tree is a step of NumberSet
  or leaves its set alone. What a missing node means depends on who asks: to
  `fb_set_first0_1` it is empty, to `fb_setn` full. `FbInv` says why they agree: no node
  is below a bit that is 1, so what is missing below a 0 was never filled and what is
  missing below a 1 was freed when full (`MarkedIsFreed`, which has to except the nodes
  `fb_setn` creates on its way down below bits it clears on its way up, `Reopened`). The
  search has passed only numbers in use (`SearchInv`), so that the one it finds is the
  least free one. When `fb_setn` clears a bit over a node, the numbers that bit stood for
  stay in use by bits further down, all but the one given back (`OthersKeepTheirs`), which
  is free at the nodes it has left and covered at the one it has reached (`ClearingInv`).
  `LoadInv` is the tree while `pomme_ms_init` runs: one path, to number 0, of nodes that
  are full but for their first bit.
* The lemmas about `SubSize`, a recursive function, and about ancestors of a node need
  induction. The library's theorem has an operator as its parameter, so the module proves
  that a set of numbers that is not empty has a least one (`LeastNumber`, from the
  well-foundedness of `<`), and each such lemma looks at the least counterexample.

Only model-checked:

* Liveness and what speaks of ENABLED, which are out of the prover's reach:
  `AcceptedJobsFinish`, `StopTerminates`, `AcceptedCallsReturn`, `ProcessSettles`,
  `SoleServerFound`, `WritesReturn`, `LoggedIsWritten`, `StopEnds`, `RoomComes`, `ReadEnds`.

Every invariant and action property of a passing run is proved.

## What is not modelled

* Locks. `pomme_lock` only changes a record it finds and nothing ever stores one
  (the client's `pomme_client_lock_file` also passes fewer arguments than the
  server expects), so no lock can be granted, extended or released; a model would
  have one state.
* `pomme_read`, which uses an undeclared variable and cannot be compiled, and the
  client's caches, which nothing fills.
* In DataServer the end of a client's connection while the server is up, and
  failures of epoll calls; in FileService the threads of the meta server's pool that
  callers leave waiting when they die inside their arguments.
* `add_thread` of the pool and the server-side `stop` of the RPC library: nothing
  calls them. `imap` is opened without `DB_THREAD` although pool threads share it;
  what an unsynchronised handle then does is Berkeley DB's, and the models take
  its calls as atomic.
* `pomme_hash_distroy`, which goes on from the node it has freed, and what a caller
  does afterwards to memory it handed over with `POMME_DATA_NEED_FREE` (of the
  repository only `test/test_hash.c` sets it, through `pomme_data_init`, with keys that
  all differ).
* Errors of `malloc`, read errors apart from the end of a file, byte order and layout of
  packed messages, log levels and texts.
* Paths, configuration, string hashes and lists are sequential helpers without
  state; the stub generator translates XML at build time.
