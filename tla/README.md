# photoService: verification project

photoService stores pictures in MongoDB GridFS under the MD5 of their content, serves them and
their renditions over HTTP, and has the renditions made by a pool of worker processes.  This
directory holds TLA+ models of the parts of it whose correctness depends on order, failure or
arithmetic, the TLC configurations that check them, and TLAPS proofs of what matters most.

`PROJECT.json` maps every definition to the source lines it models, and lists runs, mutants,
hazards, findings and theorems.  Paths below are relative to `src/`; `src2/` stands for
`photo_service/src2/`.

```
tlc -workers 2 -config MCTrimPipeline.cfg MCTrimPipeline           # a run
tlapm TrimPipelineProofs.tla                                       # the proofs of a module
```

## 1. Inventory

The repository has no design document and no unit tests (`test/` holds stand-alone MongoDB
timing scripts).  Everything below is read from the code.

```
            /upload /download                     /trim
 client ───────────────────▶ photo_service   client ──────▶ master ◀──── worker processes
                              │        ▲                     │   ▲  /work {"apply"|"finish"}
                              │        └──── /transcode ─────┘   │
                              ▼             (run_to_web)         ▼
                           GridFS ◀──────────────────── proc_image (find, deal, put)
                              ▲
                              └── backup_db scripts (read by uploadDate, restore)
```

| Component | State | Operations | Hard behaviour | What makes it correct |
|---|---|---|---|---|
| **Master**, `master/master.py` | `__task_record` (rendition → merged trims), `__job_queue`, `__job_fin_queue`, a semaphore, counters; all in memory | `/trim`, `/work` apply and finish on the Tornado IOLoop; `run_to_web`, a thread, turns finished jobs into `/transcode` posts | two threads; the mutex does not cover the finish queue; a job handed out is never given again; restart forgets everything | every accepted trim is answered by exactly one post; no wake-up lost; the notifier thread never dies |
| **Workers**, `work/worker.py`, `proc_image.py`, `db/mg_connect.py`, `http_client.py` | per process: the job in hand; GridFS | poll, look for the rendition, make it, store it, report | 3 s timeout without retry; database exceptions swallowed into `None`; crash; find-then-put is not atomic | success reported only for a stored rendition; a rendition stored once; one job per record |
| **deal_image**, `work/deal_image.py` | none | enlarge by the larger ratio, cut the middle | integer divisions | the rendition has exactly the size asked for and is cut from inside |
| **netsvc rdwrq**, `src2/netsvc/linux/netsvc_rdwrq.cpp`, `win/netsvc_rdwrq.cpp` | ring, two counters, two flags, two semaphores or events | lock-free read and write with blocking, timed and non-blocking calls | one reader and one writer thread, no lock; counters wrap; flag/wake-up protocol | bounded FIFO, no slot touched by both, semaphores bounded, calls return |
| **netsvc epoll server**, `epoll_accepter.h`, `epoll_worker.cpp`, `epoll_handler.cpp` | handlers, pending queues, map socket → handler, stop flags | accept, dispatch, callbacks, timeouts, stop | descriptors reused before the map entry is erased; limits; stop while connections are in flight | no handler used after deletion, owned twice, closed twice, leaked |
| **netsvc epoll client**, `epoll_connector.h` | list of connects in progress under a lock, an epoll instance, workers | connect, hand-over to a worker, stop | a handler is known to epoll before it is listed; failed connects, full queues | one owner per handler, none forgotten |
| **visitor**, `src2/visitor/`, `ctrl/msg_manager.cpp` | commands in a queue, commands owned by handlers | take a command, connect with a timeout, send, close | a command is owned only between `handle_open` and `handle_close` | every command is deleted once, every connect ends |
| **netsvc on Windows**, `iocp_*.h`, `win/iocp_*.cpp` | handlers, overlapped operations in flight, a completion port per worker | accept, connect, completions, stop | an operation outlives its handler, whose socket number and address come back | one owner per handler, completions reach their connection |
| **netsvc UDP server**, `udp_*.h`, `linux/udp_*.cpp`, `win/udp_*.cpp` | receiver thread, workers with a queue each, stop flags, packets on the heap | start, receive, hand round, handle, stop | threads that wait without a timeout; start that fails half-way; the vector of workers grows while the receiver reads it (Windows) | a packet is in one place, and handled or freed once; what `stop` waits for |
| **http**, `src2/http/` | per connection `_content_length`, `_header_length` | pack and parse requests and responses, zip, test for completeness | TCP cuts a request anywhere; contents look like headers; buffers of the other size | what is handled is what was sent |
| **photo service sessions**, `src2/service/tcp_netio.cpp`, `proto_dispatcher.cpp` | per connection: request bytes, response, send position, `_data`, age | read, write, run, close callbacks | partial sends resumed by other callbacks; a request handled again on every later read | the peer receives one answer, every connection ends |
| **photo service requests**, `fp_upload_…`, `fp_download_…`, `fp_tover_…` | none of their own | look up and store, look up and fetch, put a report | several workers on one database; secondaries lag; every access can throw | acknowledged uploads are kept, few duplicates, the empty picture only when a rendition is missing |
| **session_mgr**, `src2/session_mgr/` | multimap task → report | `put_resp_status`, `get_resp`, `aging` (never scheduled) | reports that nobody waits for | a report of success leads to a stored rendition |
| **mongo_mgr**, `src2/mongo_mgr/` | per worker two vectors of connections and GridFS, four indices | store, find, get; failover | four indices moved by two functions; both vectors used with each other's index | pairs stay together, no index leaves a vector, failover reaches a live host |
| ctrl, `src2/ctrl/` | timer thread | `flush_log` | – | – |
| **backup**, `backup_db/` | watermark file, copies on disk | incremental copy by `uploadDate`, restore | upload is two writes; unordered cursor; lagging secondaries; crash in mid-write | what the watermark has passed is on disk; a restore adds to nothing it can see |
| config, util, tlogger | – | settings, formatting, files | – | – |
| vendored (`include/json`, `include/redis`), `Database`, test scripts | – | – | unused or third-party | – |

The hazards (`PROJECT.json`, "hazards") are the lines at which these behaviours bite; each names
the properties that would fail, or says why none covers it.

## 2. Plan

Order: the pipeline from an accepted trim to its answer first (it spans three programs), then
the two pieces of hand-written concurrency under every connection (the queue, the epoll
server), then the requests with their database connections, then the client side, the text of
requests and answers, the Windows half of netsvc, and backup.

| Step | Modules | State |
|---|---|---|
| 1 | `TrimService` (abstract), `Master`, `TrimPipeline` = Master + workers + calls + GridFS | done; every safety property proved |
| 2 | `BoundedFifo` (abstract), `RdWrQueue` (both platforms) | done; every safety property and the refinement proved |
| 3 | `EpollService`, which uses the FIFO that `RdWrQueue` implements | done; every safety property proved |
| 4 | `DealImage` | done, proved |
| 5 | `MongoPool` | done, proved |
| 6 | `PhotoService`: sessions, requests, `session_mgr` | done; every safety property proved |
| 7 | `Connector` (`epoll_connector.h`), `Visitor` on top of it | done; every safety property proved |
| 8 | `HttpRequest`, `HttpResponse` (pure), `HttpExchange` | done, proved |
| 9 | `IocpWorker`, `IocpService` on top of it | done, proved |
| 10 | `Backup` | done, proved |
| 11 | `UdpService` (both platforms) | done; the safety property proved |

Every safety property of a run is proved.  What proofs could add: that
`EpollService` and `IocpService` implement an abstract connection table, and that the two UDP
platforms implement one delivery service.

## 3. Modules and how they correspond to the code

**`TrimService`** is what the master promises: accepted, posted and owed trims per rendition.
**`Master`** is `master.py` in an arbitrary environment.  IOLoop handlers are atomic except
`finish`, which appends to the finish queue (`FinishPut`) and then releases the semaphore
(`FinishRelease`), because the notifier can run in between.  `run_to_web` is one action per
access to shared data.  A rendition is a key; JSON and the replies' wording are left out.  If
`get_task_record` returned `None` the loop would raise outside its `try`: the state `"dead"`.
`posted` and `accepted` are what the other programs see, `owed` is derived.

**`TrimPipeline`** adds workers (one action per call to the master or the database), the HTTP
calls as `conn` (request, being handled, reply), calls whose worker has given up (`strayApply`,
`strayFinish`) and the renditions in GridFS.  `lost` records jobs dropped by a fault.
`Renderable` is the set of keys that can be made at all; it also stands for the process that
refuses everything as `magic.from_buffer` raises before any original was read.

`TrimCounters` speaks of the counters between two steps of these two threads.  The UDP handler is a
third one: it calls nine getters one after another, without the mutex, so what it sends is not one
state and need not balance.  Each counter has one writer, so each read finds the value of some
state; for the order of the reads `SentApplied` and `SentReports` are proved.

**`BoundedFifo`** is a queue with a capacity.  **`RdWrQueue`** is the two files
`netsvc_rdwrq.cpp`, which differ in what a thread waits on; `platform` says which one is built.
Positions are counters modulo `Modulus`, flags and wake-ups separate accesses, and moving a value
and advancing the position are separate steps so that two threads at one slot would be seen
(`NoSlotRace`).  On Linux a wait ends after 10 ms at most; on Windows a blocking call waits for
its event without an end.

**`EpollService`** is the server half of netsvc: accept thread, workers, the thread in `stop`.
A handler is an object with an identity; `Fds` are numbers the kernel gives out again as soon as
a destructor has closed them.  The erasure of a map entry is a step of its own (`dead`, `Erase`),
as the accept thread can get the number in between.  What a callback returns is free, so
`tcp_netio` and `visitor_handler` both fit.  `limit` is the connection limit a worker was
started with.

**`Connector`** is the client half: the calling thread, `connect_thread`, the list under `_plock`,
and `stop`.  A worker, which `EpollService` has in detail, is its queue and its set of opened
handlers.  **`Visitor`** extends it with the commands: each action of `Connector` is conjoined with
what the callbacks of `visitor_handler` do to the command of the handler, and `TimeOut` is what
`tconnector.h` adds to `epoll_connector.h`.  `dropped` records the commands lost by the failures
that delete a handler without `handle_open`, or never make one.

**`IocpWorker`** is the Windows worker.  A completion carries the handler's address and, in the
overlapped structure, its socket number; both come back after a deletion while an operation is in
flight.  **`IocpService`** puts the accepter or the connector in front.  A handler has at most one
operation in flight, which `async_send` and `async_recv` leave to the callbacks.

**`UdpService`** is the UDP server on both platforms: the caller of `start` and `stop`, the receiver
thread and the workers.  Linux starts the workers first, Windows the receiver, so a Windows
receiver can pick a worker that is not in the vector yet (`"crashed"`).  A write to a full queue
and a read from an empty one wait without a timeout; on Linux a waiting thread looks again every
10 ms, on Windows it needs the event of the other one (`flag`, `event`).  Sockets are not
tracked, nor what a handler answers.

**`HttpRequest`** and **`HttpResponse`** are functions: a text is a sequence of tokens (a separator
the code looks for, an escape, a piece of data), and packing and parsing are defined on those,
with zlib as an outside function that gives a stream of some size.  The loops of `parse_parameter`
and `parse_headers` are defined by where the pieces of a text end (`Ends`), without recursion, so
that they can be reasoned about: a piece ends at the first end token behind a middle token since
the piece began.  Lengths are written as one token each (`Numeral`), which tells lengths apart and
is no separator; a value that does not come from `Numeral` is no number.  **`HttpExchange`** lets a
client pack a request, TCP cut it, `recv_finished` look for its end after each read, the
dispatcher parse it, and the client read the answer.  `WellTyped` is what a client may ask for:
parameters of any text (no data token is an escape: a value that says `%20` is the token `%` and
data), a path without separators, and in a POST header names without a colon or a line end.
What it sends of a POST (`Sendings`) is the head with all of the content, as any HTTP client does
(`PackWhole`), or what `pack_post` leaves in a buffer of `Room`: the content printed by `snprintf`
with `%s`, which ends at a NUL or at the end of the buffer (`Printed`), under a header that
announces all of it (`Cut`).  Nothing in the repository calls `pack_get` or `pack_post`; a head that
does not fit its buffer, after which `pack_post` writes behind it, is left out
(`ExchangeAssumption`), and so are NULs in a path, a parameter or a header.

**`Backup`** is `back_image.py` and `file_to_mongo.py` against a store that is an oplog:
`store_pic` appends a document and, later or never, its tags, and a reader sees a prefix; each
upload of an original appends a document of its own (`Store` has no test for an older one).  A
document's date is any of the dates, at any place of the oplog: the client sets it before it
inserts, and hosts and workers do so side by side.  `Query` is the first batch of the cursor and
`NextBatch` what a later one adds.  `undone` records the documents that the present run has not
seen or left at an exception, `missed` the originals with a document that came dated behind the
watermark or that a run moved its watermark past without having seen or written it, `doubt` those
that were put although a document of theirs was there.

**`DealImage`** is the arithmetic of `deal_image.py`, with Python's integer division.

**`MongoPool`** is one worker's `connection_struct`.  The modelled detail is which index is used
on which vector and which one a `catch` block moves, including `get_pic`, whose inner `step`
hides the one that its handler tests.  Hosts go down and come back between any two accesses.

**`PhotoService`** holds connections on several workers.  A connection's `pc` is where its callback
is; only one callback of a worker is in progress (`Free`), database accesses of different workers
interleave.  A response is a number of parts, `sent` is `_snd_len`, `wire` the parts the peer has
received, each marked with its response, so that a mixture can be seen.  `db` is a picture and
one rendition of it with the lag of the secondaries: both lookups of `findfile` go to
connections opened with `readPreference=secondaryPreferred`, since `get_fs` takes the second one
from `_fs_slave` too.  The clock is left out: any `handle_run` may be the first beyond
`http_timeout`.  Task ids of uploads (`_0_0`) match no report, so only requests for the rendition
take one.  `Turns` says which workers
may be next when a connection is accepted; the run puts the first one on `w1`, as nothing tells
the workers apart.  `aging` is left out, as nothing schedules it.

The `MC…` modules only name small sets and symmetries.  Definitions marked "Mutant" are plausible
mistakes used to see that each property can fail; no specification uses them.

## 4. Runs

| Run | Bounds | Shows |
|---|---|---|
| `trim` | 2 keys (1 renderable), 2 workers, 2 trims of one key and 1 of the other, 1 fault, 1 restart of the master, fairness | the service is implemented; one job per recorded key unless a fault dropped it; no wake-up lost; a rendition is stored once unless a lookup failed; a success means stored; the counters reported over UDP balance; a key whose job was dropped is wedged until a restart; every accepted trim is answered unless its job was dropped or forgotten |
| `queue` | both platforms, ring of 2, counters modulo 4, 2 values, fairness | FIFO order, no slot race, bounded wake-ups, calls return (a blocking one on Windows may miss its wake-up) |
| `epoll` | 2 workers, 3 handlers, 2 descriptors, limits 1 and 2, pending queue of 1, fairness | handlers valid, one owner, opened and closed in pairs, nothing leaked at stop, queued connections served or turned away, `stop` returns |
| `epoll_close_contract` | 1 worker | **violated**: see Findings |
| `deal_image` | targets to 14×14, pictures to 6×6 | exact size, crop inside the picture |
| `mongo_pool` | 3 hosts, 7 failures in a row | no index leaves a vector that is not empty and not shorter than its bound, failover reaches a live host |
| `photo` | 2 connections, 2 workers, 1 failing access, 3 reads in all, fairness | acknowledged uploads kept, few copies of what is to be seen, one answer, empty picture only if missing, reports true, every connection ends |
| `visitor` | 3 handlers, 3 commands, 2 workers of 1 connection, queue of 1, fairness | one owner, commands accounted for, connects end, `stop` returns |
| `http` | GET and POST with separators in names and values, 6 contents, 3 header spellings, a room that a long content does not fit beside the longer head, every division by TCP | handled as the client made it, found complete unless `pack_post` cut it, answers read back |
| `iocp` | 3 handlers over 2 socket numbers and 2 addresses, 1 worker of 2 connections | one owner, completions matched |
| `udp` | both platforms, 2 workers with queues of 1, 3 datagrams, fairness | a datagram is in one place and handled or left behind once; what `stop` needs in order to return |
| `backup` | 2 originals, 2 dates in any order, 3 entries of the oplog between two losses | what the watermark passed is on disk, a restore adds only to what it could not see |

**Why the bounds are enough.**  Two trims of a key are a job and a trim merged into it or one that
comes while the notifier is posting, and the third is another key's; two workers make two jobs, or
one job and a stray call, meet; one fault loses a job or fails a lookup, and one restart forgets
the rest.  The theorems have no bound on any of these.  A ring of two with counters modulo four has
every relation of the two counters, including wrap-around, and two values tell any reordering.
Three handlers over two descriptors reuse a number while an old handler is still in the map, and
fill the queue and the pool of a worker.  Three hosts can lose any of them from a
vector, and seven failures go round it twice.  In two connections with three reads between them a
check-then-store race, a lookup that misses a fresh file and a repeated request coincide;
`FewLateCopies` is reached with equality.  Three connects to workers of one connection meet a full
pool and a full queue.  Three handlers over two numbers and two addresses bring a number back with
and without its address.  Three datagrams fill two queues of one and make
the receiver wait, and take the round past its end.  Two originals and two dates put one on the date of the watermark and one
behind it; three entries store an original twice, tag it and restore the other, and each loss of the
store gives three more.  The bounds are named constants
in guards: `MaxTrims`, `MaxFaults`, `MaxRestarts`, `MaxMissed`, `MaxInputs`, `MaxSide`,
`MaxDate`, `MaxOps`, and the sizes of `Handlers`, `Commands` and `Sessions`.  `MaxLength` is the greatest length that is
announced; contents, parameters and headers are finite sets and sequences of any size below it in the
theorems, and every combination of the separators with one or two parameters in the run.

**Deadlock** is checked except where the system may really stop: netsvc after `stop`, its UDP server when no more
datagrams come, the visitor when all commands are gone, connections that are all closed, an exchange that is over, the image
computation that has ended, and the bounded counters of `MongoPool` and `Backup`.

**Fairness.**  Worker processes loop for ever and the IOLoop serves each pending request, so their
steps are weakly fair; the notifier only waits on the semaphore.  Clients, faults and restarts
get none.  A thread inside a call of the queue is scheduled and its timed wait ends; nobody has
to call, so the other end may stay away for ever.  Epoll workers are fair because `epoll_wait` has a timeout; the accept thread
is not, as `accept` blocks (so `StopCompletes` says "once the accept thread has ended").  The
connect thread polls, so `StopReturns` needs no such condition; `TimeOut` is strongly fair per
connect, because each round of the thread looks at all that are too old.  The threads of the UDP server are
scheduled and `start` and `stop` run on, but nothing makes a datagram arrive.  In
`PhotoService` a callback ends (its database calls return or throw) and `handle_run` is strongly
fair, because a worker calls it for all its connections after every batch of events.

## 5. Findings

`epoll_close_contract`: `epoll_handler.h:49` documents `handle_close` as "always invoked before the
handler destroyed".  `epoll_worker::accept` deletes a handler it turns away at the connection
limit without the call, as `accept_thread` does when `dispatch` fails.  `tcp_netio` frees nothing in
`handle_close`, so nothing leaks today.

Behaviour the models contain and the properties step around, as no document says otherwise:

* A trim whose job is lost (worker crash, apply reply that times out) wedges its rendition until
  the master restarts: later trims merge into the dead record (`WedgedUntilRestart`).
* A connection that takes a report while its answer is blocked is sent a mixture of two responses
  or closed in the middle (`OneAnswer` excludes it); with `get_pic_info` failing half-way it gets
  a truncated picture as a complete one.
* `/download` of a missing rendition answers 200 with an empty body, as the call that makes it is
  commented out; nobody waits for reports, and those that arrive are kept for ever.
* `get_pic` moves the wrong index when its second lookup throws (`GetSecondThrows`).
* A blocking call of the Windows queue whose wake-up was missed waits on, although the ring is
  ready (`Unwoken`); the Linux one looks again after 10 ms.
* An upload whose content holds `Content-length: …` while its header says `Content-Length` is
  measured by either, depending on how TCP cut it (`Misleading`).
* A content with a NUL, or too long for the buffer, is packed by `pack_post` up to there, and the
  service waits for the announced rest until the connection is too old (`FoundComplete`: a request
  that has all arrived is still received exactly if it was cut).
* `gzip` reports success when the stream did not fit its buffer, and the buffer variant of
  `http_response::pack` counts the size of the unzipped content: `AnswerReadBack` speaks of plain
  answers and, by length only, of those of `pack(string)`.
* A connect that fails before it has a handler, a worker at its limit, and `stop` with a connect
  pending each leave a command undeleted (`dropped`); `iocp_connector::stop` leaves the handlers
  on the connect thread's own list (`OneOwner` allows `hds`).
* An aborted Windows operation ends whichever connection has its socket number now.
* `stop` of a UDP server waits for a thread that waits for a datagram: without load it never
  returns (`StopTakesAPacket`).  After a start that failed half-way, stop on either platform, and
  on Windows dispatch during start, look past the end of `_workers` (`"crashed"`).
* A backup run moves its watermark past originals that were tagged late, that its secondary did not
  have, or that it left at an exception, and never comes back to them, nor to a document that a
  host inserts with an older date (`missed`).
* `get_fs` and `get_connector` use the plain index in the vector of the other kind
  (`NeverUndefined` needs that `start` made one of those, and at least as many), and `start` does not
  tell: its result is set anew for each worker and each host, so 0 speaks of the last one only.
* While an original is on no secondary yet, every upload of it that looks there stores another copy
  (`FewLateCopies` counts those made afterwards).
* A report of failure that nobody waited for closes a later connection that asks for the rendition.

## 6. Proofs

All hold for every value of the constants, under the named assumptions of the modules only.

| Theorem | Argument |
|---|---|
| `MasterInvariant`, `WakeupCorrect`, `MasterImplementsService` (`TrimPipelineProofs`) | `NotifierInv` is what makes the refinement inductive: between get and delete the mutex keeps the count equal to the record, so deleting the record moves exactly that many trims from "recorded" to "being posted", and `owed` does not change |
| `PipelineInvariant`, `PipelineImplementsMaster`, `PipelineImplementsService`, `PipelineWakeup` | every step of the pipeline is a step of `Master` or leaves its variables alone; the master's theorems then carry over |
| `PipelineSuccessStored` | strengthened by `ReportsSound`: every success on its way (worker, stray call, finish queue, notifier) is about a stored rendition, and renditions are never removed |
| `PipelineOneJob` | `OneJobInv` counts the places a key's job can be in (job queue, answers under way, workers, reports under way or stray, finish queue, notifier): 1 if the key is recorded and not `lost`, else 0, and a lost key is recorded; `CallsMatch` ties what a worker holds to where it is. Each step takes the job out of one place and puts it into one (`OneMoves`); the positions in the two queues are counted as finite sets |
| `PipelineStoredOnce` | uses the former: with no restart and no failed lookup, a worker in `put` holds the only job of its key, so nobody stored the rendition since its check |
| `PipelineBooksBalance` | the refinement carries `Balanced` over from `TrimService`, whose steps keep it: a post takes one from what is owed |
| `PipelineCounters` | what is owed in all is the size of a set of tokens, one per owed trim (`OwedTrims`), so no sum over the keys is needed: a trim adds one token, a post removes one, and `CountersKept` compares what a step does to the counters with what it does to the tokens and queues |
| `SentApplied`, `SentReports` | of the master in any environment: no counter goes back before a restart (`CountersGrow`), so what `TrimCounters` bounds at the earlier read stays a bound at the later one (`AtLeastStays`); stated for the values read, as rigid parameters of the theorem |
| `PipelineWedged` | an action property from the former: a lost key has no job, so no step but a restart deletes its record or begins a post for it |
| `QueueTypes`, `WakeupsStayBounded`, `QueueNoSlotRace`, `QueueImplementsFifo` (`RdWrQueueProofs`) | a thread posts only after it saw and cleared the other's flag, so posts are bounded by the flags raised; the difference of the counters modulo `Modulus` is the number of values in the ring, and what a thread found out about it stays true until it advances, as the other one only makes it truer, so the two are at different slots; the slots between the counters are the abstract queue, which changes when a counter does |
| `EpollInvariant`, `EpollTypeCorrect`, `EpollHandlersValid`, `EpollOneOwner`, `EpollClosedOnce`, `EpollNothingLeaked` (`EpollServiceProofs`) | `EInv` says for each live handler that it is with the accept thread or queued, unopened, or opened and in one map; entries of the maps are live, under the handler's own socket number, or deleted and about to be erased by the worker that deleted them; what an ended thread leaves behind is empty |
| `DealRenditionSize`, `DealCovers` (`ContentProofs`) | bounds of the two integer divisions; the box is cut by the target size, whatever was rounded away |
| `BackupRecoverable` (`ContentProofs`) | `Covered(Base)`: whatever the watermark a run starts from has passed is on disk or recorded as missed; `Copying`: a run has written, will write or has recorded as undone (`Selected`) every original with a document that is not older, so that storing any newer watermark keeps `Covered`, whichever step a crash hits and whatever is inserted meanwhile; and `Once` is about originals that a restore added to |
| `PoolPaired`, `PoolDefined`, `PoolFailsOver` (`RoundRobinProofs`) | an index is below the size of the vector that bounds it, or 0; both indices of a pair move together; the last failed calls in a row were on the positions just passed, whose hosts are down (`PassedDown`), so a whole round of them means that no host is up |
| `UdpPacketsAccounted` (`RoundRobinProofs`) | a datagram is in one place only, as each place it can be in excludes the others (`Apart`): the receiver holds one, a worker holds one, a queue has it once; `Starts` and `Stops` say how far starting and stopping have come, on Linux that the receiver runs only when all the workers do, so that nothing is put into the queue of a worker that is gone |
| `UploadsKept`, `ReportsAreTrue`, `OneAnswerEach`, `EmptyMeansMissing`, `LateCopiesAreFew` (`PhotoServiceProofs`) | strengthened to answers that are blocked in `_response`, and to what is known at each label of a callback (`Local`): an answer is the one expected of its request, or has one of the named reasons, which only accumulate; a send adds parts of the response it was given; late copies and the uploads that may still make one are together at most one per worker and failed lookup (`LateInv`) |
| `VisitorInvariant`, `VisitorOneOwner`, `VisitorCommandsAccounted` (`VisitorProofs`) | `Located` and `Queues` say where each live handler is, `Loops` that `_plock` is held exactly while a handler is watched and not listed, so events are about listed ones, `Ending` what `stop` has emptied; `Carried` ties each command to the one handler that had it, and says that `_pcmd` is null until a worker has opened the handler; every failure is one of three ways to end a set of handlers (`OpenClosed`, `OpenHandlersClosed`, `UnopenedClosed`) |
| `IocpInvariant`, `IocpOneOwner`, `IocpCompletionsMatched` (`IocpServiceProofs`) | as for the visitor (`Located`, `Loops`, `Ending`); live connections have different socket numbers, and what is in flight or completed was started by a handler that had been opened, so a completion that reaches another one comes from a handler that is deleted |
| `RequestRead` (`ContentProofs`) | each line that is packed is one piece when it is parsed (`SplitAppend`), because what stands before and behind its middle holds no separator (parameters are escaped, header names have no colon); by induction over the number of lines the text of all of them is parsed as the set they were made of (`HeaderLinesAre`, `ParametersAre`), and the parts of the first line and the end of the headers are found where they were put (`WholePlaced`).  What `snprintf` leaves of a content is what it begins with, up to its first NUL (`PrintedIs`), and is read as the content then |
| `ExchangeInvariant`, `ExchangeHandledAsSent`, `ExchangeFoundComplete`, `ExchangeAnswerReadBack` (`ContentProofs`) | `ExchangeInv`: a length that is known is that of the content and the header length is that of the whole text (`Counted`), a request that is still received has not all arrived or was cut, one that is not received any more was not cut, what is handled is the parse of the whole text (`Settled`), and an answer is one that `pack` made (`Packed`).  It is inductive because what a prefix announces is what the whole text announces once its head has arrived (`LengthAnnounced`), before which the prefix has no end of headers (`HeadCut`), so that a read finds the request complete exactly when as much is there as was announced (`ReadAll`), which a cut one never has; the client's side needs the same of the status line and the headers of an answer (`ReplyJudged`) |

**Induction over data.**  The induction theorems of the library take an operator as a parameter, which
no prover here instantiates.  `LeastElement` replaces them: `WFMin` and `NatLessThanWellFounded`
give the least element of a set of natural numbers, and the set of the numbers at which a claim
fails is a set like any other (`UpTo`, `FlattenInduction`).  `FlattenSeq` and `SetToSeq`, with which
requests are packed, are reasoned about this way.

The queue's theorems hold for both platforms.  The type invariants are proved with their
strengthenings and are not listed as properties of the runs.

**Model-checked only:** all liveness (`EveryTrimAnswered`, `CallReturns`, `QueuedIsServed`,
`StopCompletes`, `SessionEnds`, `ConnectEnds`, `StopReturns`, `StopTakesAPacket`), which is beyond
this prover.

## 7. Not modelled

* `ctrl`: the only timer scheduled is `flush_log`; `session_aging` never is.
* Load-based dispatch in netsvc (round robin is what every caller gets), and a `start` that fails
  half-way: the process ends then.
* `split` and `parse_address` of `http_util.cpp`, the database modules in `backup_db/db` other than
  `mg_connect.py`, `Database`: no caller.
* Crash of photo_service: it recovers nothing, and what it leaves in the database is what a failed
  `store_pic` leaves (a file without its oid).
* Several pictures at once: task ids, lookups and records of different oids do not interact.
* Configuration, logging, the sending of the status over UDP, vendored code.
