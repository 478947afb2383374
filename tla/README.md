# A verification development of php-yrmcds

php-yrmcds is a PHP extension that talks to a memcached or yrmcds server
through the C library libyrmcds, and a PHP session handler written on top of
it. This directory holds TLA+ modules translated from that code, TLC
configurations that check them on small instances, and proofs that TLAPS
checks for every value of the constants. `PROJECT.json` is the machine-readable
index: components, runs, mutants, the map from definitions to source lines,
findings, hazards and theorems.

All paths below are relative to the repository (`src/`).

## 1. The system

### 1.1 Components

| component | source | state it keeps | operations |
|---|---|---|---|
| PHP client, connection life cycle | `yrmcds.c` 65-368 | `obj->conn` of each client object, `php_yrmcds_t` (`pkey`, `reference_count`, the socket and its timeout), `EG(persistent_list)` | `__construct`, the destructor `yrmcds_client_delete` / `destruct_conn`, `php_yrmcds_resource_pdtor`, `setTimeout` |
| PHP client, methods | `yrmcds.c` 374-1250 | none of their own | `recv` and one method per command, most with a quiet variant |
| PHP 5 extension | `yrmcds_php5.c` | the same | the same, for the old Zend API |
| libyrmcds, send | `libyrmcds/send.c` | `c->lock`, `c->serial`, the socket | `send_command`, `send_data`, one function per command |
| libyrmcds, receive | `libyrmcds/recv.c` | `recvbuf`, `capacity`, `used`, `last_size`, `invalid` | `yrmcds_recv`, `recv_data` |
| libyrmcds, connection | `connect.c`, `close.c`, `socket.c`, `set_compression.c` | the socket, its options, `compress_size` | `yrmcds_connect`, `yrmcds_close`, `yrmcds_set_timeout`, ... |
| compression | `send.c` 124-165, `recv.c` 138-165 | the threshold | data above the threshold is stored as its length and an LZ4 block, under a flag bit |
| counter client | `libyrmcds/counter.c` | the same kind of buffer and serial, for the counter protocol | acquire, release, get, stats, dump |
| session handler | `yrmcds_session.php` | `client`, `timeout`, `locked`, the session's key | `open`, `read` (with `wait_lock`), `write`, `destroy`, `close`, `gc` |
| command line tools | `yc.c`, `yc-cnt.c` | the options, one connection | one command per process: arguments, request, receive loop, output, exit code |
| LZ4 | `libyrmcds/lz4` | a hash table during a call | `LZ4_compress`, `LZ4_decompress_safe` (vendored) |

### 1.2 How they interact

A program creates a `\yrmcds\Client`; with a persistent id, the constructor
looks in the process-wide `EG(persistent_list)` and shares a `php_yrmcds_t`
found there, after a stale check when `yrmcds.detect_stale_connection` is on.
Every method calls one function of `send.c`, which takes a serial under a mutex
and writes one frame; `recv` calls `yrmcds_recv`, which cuts the bytes of the
socket into responses and hands them out in the order of arrival. Requests and
responses are matched only by serial, and a quiet command is answered only when
it fails. The destructor of a persistent client sends `unlockall` and drains
the socket up to the answer, so that the next program to use the connection
finds it as new (USAGE.md:29-34). The session handler uses one client per PHP
request and relies on the server's locks for mutual exclusion between workers.

### 1.3 What is hard

* **A connection outlives its users.** Late answers, locks, a changed timeout
  or a protocol error of one request must not be met by the next.
* **Blocking in the middle of a handler.** The stale check and the destructor
  wait for one serial; meanwhile the server answers older requests, falls
  silent, or closes. Each wait can fail, on an idle or on a shared connection.
* **Counting users by hand.** `reference_count` decides when a structure is
  freed; it is changed on four paths.
* **Threads on one socket.** libyrmcds allows senders in parallel, `writev`
  may write any part of a frame, and may fail in the middle.
* **Resumable receiving.** A receive timeout in the middle of a response is
  legal, and the next call goes on with the buffer as it is.
* **Waiting by number.** A program recognises its answer by a serial of 32
  bits, among answers it did not wait for, and a quiet command has none. Lists
  end in another way than single answers.
* **The same thing written twice.** Thirty methods and a connection life cycle
  exist in two sources, for two Zend APIs.
* **Data that changes its shape.** What is stored may be compressed, or look
  as if it were, and be read by a program with another threshold.
* **Eight steps of a connect**, each of which may fail with something to give
  back.
* **Locks over a network.** A session's lock ends with its connection, which
  may happen at any moment, and `write` never reads its answer.

`hazards` in PROJECT.json lists these line by line, with the properties that
would catch each of them going wrong, or the reason why none does.

### 1.4 What makes each component correct

* Life cycle: counts are exact, no pointer dangles, an idle persistent
  connection is clean, a client meets only its own traffic and locks,
  constructor and destructor come back.
* Send: frames do not mix, success means the whole frame is on the socket,
  serials appear in order, the mutex always comes back.
* Receive: each response once, in order, read from its first byte; nothing
  after a protocol error; the buffer never overrun and never without bound.
* Methods: both extensions ask for the same; a wait gets the answer to its own
  call and ends; a multi-get returns what is there; prefixes keep programs apart.
* Connect and tools: no path leaks; an exit code says what happened; what one
  invocation stores another prints.
* Counter: an answer is printed whole, however it arrived; garbage is refused,
  nothing else is; every command ends.
* Session handler: no lost update under locking, an open session is still
  locked, `session_start` comes back.

## 2. Modules

| module | models | proofs |
|---|---|---|
| `PersistentPool` | connection life cycle in one PHP worker, with the methods that matter to it | `PersistentPoolProofs` |
| `Php5Pool` | the same in the PHP 5 extension, where it differs | `PersistentPoolProofs` |
| `Sender` | `send_command` called by many threads | `SenderProofs` |
| `CommandLog` | abstract: what a connection promises to senders; `Sender` implements it | `SenderProofs` |
| `Receiver` | `yrmcds_recv` and `recv_data` | `ReceiverProofs` |
| `SessionHandler` | PHP workers that share sessions through a lock server | `SessionProofs` |
| `Commands` | every command function of `send.c`, as operators: the request, or the error | |
| `ClientMethods`, `Php5Methods` | the methods of the client in `yrmcds.c` and in `yrmcds_php5.c`, on `Commands` | |
| `ServerCommands` | external: which commands a server answers | |
| `Programs` | PHP programs that call the methods of both extensions and wait | `ProgramsProofs` |
| `Connect` | `yrmcds_connect` and `yrmcds_close`, step by step | `YcProofs` |
| `YcCommands`, `Yc` | the tool yc: its commands, and its processes on `Connect` and `Commands` against one server | `YcProofs` |
| `Lz4` | the block format of `lz4.c` | `Lz4Proofs` |
| `Counter` | `counter.c` and the tool yc-cnt against a server of resources | `CounterProofs` |
| `MC...` | instances for TLC: symmetry, the calls and sessions to try, and the view of `MCSessionHandler` | |

A definition that begins with "Mutant:" in its comment is a plausible bug; it
is used by no specification, and PROJECT.json says which property fails when it
replaces the definition after it.

### 2.1 PersistentPool

A PHP worker is single-threaded, so at most one handler runs; a handler is cut
exactly where it blocks on the socket. `job` is the handler that waits:
`"connect"` (in `yrmcds_connect`), `"check"` (the receive loop of
`check_persistent_connection`) or `"destruct"` (the loop of `destruct_conn`).
Everything a handler does between two waits is one action.

| variable | code |
|---|---|
| `conn` | `obj->conn` of each client object (NULL: not constructed, or released) |
| `alive`, `mem` | the `php_yrmcds_t` structures that are not freed, and their contents |
| `persistent_list` | `EG(persistent_list)` |
| `peer` | whether the server still has the session: open, gone (it closed), eof (we closed, it has not noticed), none |
| `wire`, `resp` | requests written and not processed, responses not yet received |
| `holder` | the server's locks: which session, and on whose behalf (history) |
| `detect` | `YRMCDS_G(detect_stale_connection)`, which no program can change (PHP_INI_SYSTEM) |

| actions | code |
|---|---|
| `ConstructNotFound`, `ConstructReuse`, `ConstructCheck`, `ConstructCheckUnsent` | `__construct` and `use_existing_persistent_connection` up to the first wait |
| `Connected`, `ConnectFailed` | the rest of `__construct` after `yrmcds_connect` |
| `DrainSkip`, `CheckPasses`, `CheckBreaks` | the loop of `check_persistent_connection`, its success, its failures with `on_broken_connection_detected` |
| `DestructPlain`, `DestructPersistent`, `DestructUnsent`, `DestructDone`, `DestructBreaks` | `yrmcds_client_delete` and `destruct_conn` |
| `Command`, `CommandFails`, `Recv`, `RecvGarbled`, `SetTimeout` | the methods: one that takes a lock, one that gives it back, one that does neither, and `recv` |
| `ProcessEnds` | the end of the worker: `php_yrmcds_resource_pdtor` on every entry |
| `Serve...`, `ServerCloses`, `SessionReaped` | the server (external): it processes a session in order, may stop answering, may close, and drops a session's locks with it |

A send that times out may leave a cut frame behind (`"torn"`), which swallows
the request that follows. The constants choose the environment: with or without
stale detection (`DetectStale`, from which a behaviour takes its `detect`), yrmcds or memcached as server, a receive timeout or none,
programs that share a persistent id among live clients or do not.

### 2.2 Sender and CommandLog

A frame of length n is n units; `Write(t, k)` appends k of them. The steps of a
call are `Enter` (arguments checked, header built), `Lock` (mutex and serial),
`Write`, `WriteFails`, and the two ways through `OUT:` (`Return`,
`ReturnError`). `CommandLog` is the promise: commands enter a log whole, one at
a time, in the order of their serials; the one that fails is reported; if it was
cut in the middle, the log is broken from there on and says so to nobody,
because the code keeps no note of it. The refinement maps the log to the frames
complete before the first cut.

### 2.3 Receiver

The stream is a sequence of units that know their response, their offset and
its size (history the code does not see). `used`, `lastSize`, `capacity` and
`invalid` are the fields of the same names, `base` is where in the stream the
buffer begins. `Begin` drops the response returned last; `RecvData` and
`RecvDataFails` are the rounds of the two loops; `Accept`, `AcceptFails` (no
memory to decompress) and `Reject` (sticky protocol error) end a call. The
server sends responses of legal and illegal sizes, good and bad, and may end
the stream in the middle of one.

### 2.4 SessionHandler

Each worker has a handler and a connection for the time of a request. `read` is
cut at every `recv` and at the sleep between two attempts: `Start`, `Skip`
(another serial), `Locked`, `Retry`, `Granted`, `NotFound`, `Touched`,
`GotTouched`, `ReadThrows`. `write`, `destroy` and `close` do not wait, so each
is one action; their effect happens when the server carries the command out.
`handler[w].locked` is the PHP field, which is set and never reset;
`base` is history: the version that was read. `TimePasses` lets the `$timeout`
of `wait_lock` run out at any time. The server may also refuse or grant again a
lock its own connection holds: the code does not depend on which.

### 2.5 Commands, ClientMethods, Php5Methods, Programs

`Commands` has one operator per function of `send.c`: a request (command, cas,
key, extras, data) or an error that sends nothing. `Request` is `send_command`
before the mutex, `SendData` is `send_data` with its compression. Integers keep
their width: `Uint32`, `Uint64`, and `Int32` for the length that passes through
an `int`. `ClientMethods` and `Php5Methods` are translated each from its own
source, and have one operator per method: the argument checks in their order
(`Fatal`), the prefix (`FullKey`), the call (`OnConn`). An object that is not
constructed has no connection: `yrmcds_php5.c` says so (`Lost`), `yrmcds.c`
uses the null one (`Crash`), unless the library refuses the request first; the
functions that store data look at the threshold before that (`OnThreshold`).
`Method` is the function table.

`Programs` runs them. Each client is an object of one of the extensions on a
connection of its own. It calls a method without waiting (`Call`), waits for
one serial or to the end of a list (`CallAndWait`, the loops of
`wait_lock` and of tests/016.phpt), or does the multi-get of USAGE.md:86-108
(`MultiGet`, `Ask`). `Handle` is the server, which answers a connection in order
and leaves out what a quiet request does not get. `n` numbers the requests
without end, as history: the code sees only the serial, which wraps at
`SerialMod`.

### 2.6 Php5Pool

`yrmcds_php5.c` keeps the connection as a resource in the property `conn` of
the object, and `conn[cl]` is that property; the destructor is that of the
resource. The actions are those of `PersistentPool` under the names of this
source, but for a second `__construct`: the first one removes the object's
`write_property` handler (yrmcds_php5.c:1720), so the second has nothing to
store its connection with, and the worker dies (`ConstructAgain`,
`WorkerDies`).

### 2.7 Connect, YcCommands, Yc, Lz4

`Connect` follows `connect_to_server`: the addresses, with the second
try for IPv6, the socket, the non-blocking connect, the poll, the options, the
buffer, with an outcome for each failure, and what the connection holds at each
stage: a descriptor, an address list, a mutex, a buffer. `YcCommands` takes the
arguments of each command of `yc.c` to a plan: exit at once, or a request and
how its loop ends. `Yc` runs a sequence of invocations per user, each a process
that goes through `Connect`, sends, receives, perhaps prompts (`Enter`), and
exits with a code; the server keeps objects, locks and counters of the stored
value, and may lose a connection at any time (`Drop`). `Decoded` is the end of
`yrmcds_recv`: the flag, the length in the first four bytes, the decompression,
for which there may be no memory. `write_data` prints all or a beginning: it
returns without a word when the output cannot be written (yc.c:119), and `lost`
is the history of that. The block
itself is made and read by `Lz4`, whose sizes are constants, so that the
instance reaches lengths of several bytes and offsets that would not fit. The
search, the loop that emits sequences and the loop that decodes them are
recursive functions over the local variables of the C functions (`Search`,
`Emitting`, `Decoding`), one step for one round of the loop. `Yc` knows the
format only as the constants `Pack` and `Unpack`; `MCYc` gives them the values
of `Lz4`, in a table for the data the sessions store.

### 2.8 Counter

The buffer has the same discipline as in `recv.c`, but responses are parsed from
their bytes: a field is one unit, and records of a dump and pairs of the
statistics are cut from the body by their lengths. `BeginRecv` drops the last
response and moves the rest of the buffer to its front, `RecvData` is a read of
at most `RecvSize`, `RecvDataFails` one that times out or meets the end,
`Received` a response that is complete, or whose header is wrong, and
`RecvInvalid` the sticky error. `AppendStatFails` is a good statistics answer for
whose pairs there is no memory (counter.c:127), which makes the connection invalid
too (counter.c:256); `nomem` is its history. yc-cnt gives up at the first failed receive;
`retries` lets an invocation stand for a program that calls `yrmcds_cnt_recv`
again, as the library allows.

`Handle` is the server, which keeps resources held by users and their limits. It
makes the responses to a request (`answer`), or the same with the first of them
garbled (`Garbled`: another magic, or the last byte of a body missing); `Reply`
puts one after the other on the socket (`sent` counts them), so that the client
may run between the records of a dump; `Drop` ends a connection with any part of
them still on its way. `told` is history: what the server meant to say. The
connect of this client is abstracted to its outcome: it is the function `Connect`
models.

## 3. Runs

| run | question | states |
|---|---|---|
| `PoolShared` | Two clients that may share one connection, yrmcds as server, stale detection on or off. `TypeOK`, `RefcountExact`, `PoolSound`, `IdleIsClean`, `AdoptsDrained`, and liveness: `HandlerReturns`, `AbandonedLocksEnd` | 260,611 |
| `PoolPhp5` | The PHP 5 extension: two clients one after the other on one id, two structures, stale detection on or off - off, the destructor alone must be enough - and with second constructors. `RefcountExact`, `OwnTraffic` | 2,281,995 |
| `PoolReconstruct` | violation: see 5.1 | |
| `PoolOthersLocks` | violation: see 5.2 | |
| `Sender` | two threads with a send timeout. `SenderTypeOK`, `Contiguous`, `OkIsWhole`, the refinement `ImplementsLog`, and liveness: `LockComesBack` | 18,910 |
| `ReceiverSafe` | `ReceiverTypeOK`, `AtBoundary`, `ExactlyOnce`, `BufferSafe`, `ReadFits` | 876,196 |
| `SessionSafe` | two workers, with and without locking, on one session. `SessionTypeOK`, `OwnerHolds`, `TouchAnswered`, `ReplacesWhatWasRead` | about 1.48 million (the view makes it vary with the order of the search) |
| `SessionReturns` | liveness: `StartReturns` | 180,402 |
| `SessionRefused` | violation: see 5.3 | |
| `Programs` | two programs, one in each extension. `SameRequest`, `AnswerMatches`, `Barrier`, `MultiGetExact`, `TenantsApart`, and liveness: `WaitEnds` | 348,211 |
| `Yc` | one user with every command and many sizes of data, and two users of one key. `YcTypeOK`, `NothingLeaks`, `ZeroMeansDone`, `PrintsStored`, `PromptHasLock`, and liveness: `InvocationEnds` | 124,226 |
| `Counter` | every command of yc-cnt, and two users of one counter. `CntTypeOK`, `AnswerPrinted`, `WellFormedAccepted`, and liveness: `CommandEnds` | 271,586 |

Run one with `tlc -workers 2 -config X.cfg M`, where `M` is the run's module.

### 3.1 Bounds, and why they are enough

* `PersistentPool`, `Php5Pool`. `MaxSerial` bounds the serials one connection
  hands to programs and stale checks (the destructor is not bound by it, so that
  a connection can always be finalised). Four serials (`PoolShared`)
  allow a client to leave a lock and another request behind, end, and a second one
  to adopt the connection and use it; three (`PoolPhp5`) do with one request left
  behind. `MaxFlight` bounds what a program leaves unanswered, 2 in
  `PoolShared` and 1 in `PoolPhp5`; in addition there are always the noop or the
  unlockall of the handlers, so a drain has answers to skip. Two structures
  (`PoolPhp5`) are what it takes for an entry to be replaced while its
  predecessor still exists on the server's side; on the one structure of
  `PoolShared` a client leaves while another stays, comes back, and adopts it.
  One key: locks of different keys do not interact. What more clients and
  structures could add is covered by the proofs.
* `Sender`. Frames of 1 and 3 units and a window of 3: a frame can be written in
  one piece, in several, cut before its end, or fill the window so that the send
  timeout can fire. Three serials let a frame follow one that was cut and
  another follow that.
* `Receiver`. A header of 2, reads of at most 3, bodies of 0, 1, 5 and 10 with a
  largest legal body of 5: a read may end inside a header, inside a body, or
  hold more than one response; the buffer must double twice for a body of 5;
  a body of 10 is refused. Three responses: one returned, one in the buffer,
  one on its way.
* `SessionHandler`. Versions need no bound: a write takes a version that nobody
  refers to. Serials are counted modulo `SerialMod` as in the code modulo 2^32;
  since `MaxFlight` is smaller, an answer on its way never has the serial of a
  later request. `View` looks at serials relative to the last one of the
  connection only: the module compares serials for equality with the last one
  and otherwise adds one to it, so states that differ by a rotation have the
  same futures and satisfy the same properties, which mention serials only
  where they are compared to the last.
* `Programs`. Four calls: the first is any method, loud or quiet, or one with an
  argument at a limit (`Odd`: empty, too long, negative, wider than its field);
  the second, one of those that leave an answer behind or none; then there is
  room for a multi-get of two keys with its noop. Serials wrap at 3, so the
  fourth has the value of the first. `U32` = 16 and `U64` = 32 make the cut of a
  negative or wide argument visible. `SameRequest` looks at every call of a
  behaviour on an object that is constructed and on one that is not.
* `Yc`. Sessions rather than bounds: data of up to 6 units in every form, and
  lengths around the threshold, around the shortest input with a match and around
  `LZ4_64Klimit`, the longest that can be compressed and one more; short data with
  the flag bit of compression, set by a user; each command loud and quiet, after a store or on
  an empty server, and with each argument it refuses; pairs of users with locks.
  For `Lz4` a byte has 2 bits (`Byte` = 4, so that four of them are a length below
  `U32` = 256; `ML_MASK` = `RUN_MASK` = 1), matches begin at 2 bytes, and offsets
  reach 15, so an input of 24 is past every limit but `LZ4_MAX_INPUT_SIZE` = 36.
* `Counter`. `RecvSize` is 12 with a header of 5: a statistics answer does not
  fit in one read and the buffer doubles; an answer is cut at every unit, and
  the responses of a dump arrive one by one. The statistics are two pairs, one
  with an empty value. One retry (`Again`) receives on after a timeout in the
  middle of an answer, or after a response that was refused. Names are up to
  `MaxName` = 3, with one that is longer.

`CHECK_DEADLOCK FALSE` is set for `Sender` (every serial used and every call
returned), `Receiver` (invalid for ever, or the stream at its end with nothing
left to do), `Programs`, `Yc` and `Counter` (programs and users that have
finished): these really stop. The other systems must not, and are checked for
it.

### 3.2 Fairness

* `PersistentPool`: `WF(Resume)` - a handler that waits goes on when it has an
  answer, an error, or its receive timeout, which is 5 seconds by default
  (`TimeoutFires`) - and `WF(SessionReaped(c))`, the server notices a closed
  socket. Nothing makes the server answer.
* `Sender`: `WF(Step(t))`, a runnable thread runs. The mutex is not assumed to
  be fair, and the peer may stop reading; `LockComesBack` needs `HasTimeout`.
* `SessionHandler`: `WF(Read(w))` and `WF(TimePasses(w))`, a worker that can go
  on does and time passes. Nothing is assumed of the server: a `recv` without an
  answer throws when the receive timeout expires.
* `Programs`: `WF(Looping(c))`, a program goes on with the loop it is in, and
  `WF(Handle(c))`, the server handles what it has received. The second is the
  point of `WaitEnds`: with a server that works, no loop may wait for an answer
  that its own request does not bring, and no timeout is there to hide one.
* `Yc`: `WF(Process(u))`, the tool runs, `poll` and `getaddrinfo` come back and
  users press enter; `WF(Handle(u))`, the server answers, because `yc` sets no
  receive timeout; `WF(Hangup(u))`, the server notices a closed socket.
* `Counter`: `WF(Process(u))` alone, which includes the receive timeout of one
  second that yc-cnt.c:244 sets. Nothing is assumed of the server.

## 4. Proofs

| theorem | statement |
|---|---|
| `TypeCorrect` | `Spec => []TypeOK`; in particular `reference_count` never goes below 0 |
| `NoDanglingPointer` | `Spec => []PoolSound` |
| `CountIsExact` | without a second `__construct`, `Spec => []RefcountExact` |
| `IdleConnectionIsClean` | `Spec => []IdleIsClean`, with every choice of the environment |
| `AdoptedIsDrained` | `Spec => AdoptsDrained`, which is about a worker with stale detection |
| `TrafficIsOwn` | unless live clients share an id or an object is constructed twice, `Spec => []OwnTraffic` |
| `Php5CountIsExact` | `Php5Spec => []RefcountExact`, second constructors included |
| `Php5TrafficIsOwn` | unless live clients share an id, `Php5Spec => []OwnTraffic` |
| `SenderTypeCorrect`, `FramesDoNotMix`, `SuccessIsWhole` | `SenderSpec => []SenderTypeOK`, `[]Contiguous`, `[]OkIsWhole` |
| `SenderImplementsLog` | `SenderSpec => ImplementsLog`: `Sender` refines `CommandLog` |
| `ReceiverTypeCorrect`, `StartsAtBoundary`, `ReturnsExactlyOnce`, `BufferIsSafe`, `ReadsFit` | `ReceiverSpec => []ReceiverTypeOK`, `[]AtBoundary`, `[]ExactlyOnce`, `[]BufferSafe`, `ReadFits` |
| `ProgramRequests` | `ProgramSpec => []SameRequest`: on every call, with any arguments, both extensions make the same request or fail for the same reason; they differ only on an object that was never constructed, where `yrmcds_php5.c` says that the connection is lost and `yrmcds.c` uses the null one, or has the request refused by the library |
| `ProgramAnswers` | `ProgramSpec => []AnswerMatches` |
| `ProgramTenants` | `ProgramSpec => []TenantsApart` |
| `ProgramBarrier`, `ProgramMultiGet` | `ProgramSpec => []Barrier`, `[]MultiGetExact` |
| `SessionTypes`, `OpenSessionsAreHeld` | `SessionSpec => []SessionTypeOK`, `[]OwnerHolds` |
| `TouchIsAnswered` | `SessionSpec => []TouchAnswered`: the response that the `recv` after `touch` takes, whatever its serial, is the one to that touch; it may well be a refusal |
| `LockedWritesReplaceWhatWasRead` | `SessionSpec => ReplacesWhatWasRead`: no lost update under locking |
| `ConnectLeaksNothing` | `ConnectSpec => []NothingLeaks` |
| `ToolImplementsConnect` | `YcSpec => ConnectSpec`: refinement |
| `ToolLeaksNothing` | `YcSpec => []NothingLeaks` |
| `ToolTypes`, `ExitCodesTellTheOutcome`, `PromptsHoldTheirLock` | `YcSpec => []YcTypeOK`, `[]ZeroMeansDone`, `[]PromptHasLock` |
| `LZ4RoundTrip` | for any data up to `LZ4_MAX_INPUT_SIZE`, `LZ4_decompress_safe` returns what `LZ4_compress` was given, and refuses the block with anything behind it; longer data is not compressed |
| `GetsPrintWhatWasStored` | with `Lz4` as the block format, `YcSpec => []PrintsStored`: what careful users stored is what a get prints, whole or, if its output could not be written, a beginning of it |
| `CounterTypes`, `PrintsTheAnswer`, `AcceptsWellFormed` | `CounterSpec => []CntTypeOK`, `[]AnswerPrinted`, `[]WellFormedAccepted`; the last one: a connection becomes invalid only by a garbled answer or by statistics for which there is no memory |
| `StatisticsRead` | `parse_statistics` reads any statistics as they were written, and refuses them without their last byte |

Assumptions: those declared with the constants. NULL is none of the other
values, flags are Booleans, the sets of clients, of workers and session ids, and of
users of counters are finite (counts, fresh versions and totals need it), a frame is
not empty, a header is not empty and the first buffer holds one read (`connect.c`
allocates more than `RECV_SIZE`). Nothing is assumed of how many clients, ids,
connections, threads, workers, users or keys there are, nor of the bounds, with two
exceptions that stand for the width of the serial. In `SessionHandler`, `MaxFlight`
is smaller than `SerialMod`: a connection has fewer than 2^32 commands without an
answer, where the handler has at most a few. In `Programs`, the guard `Recent`
says that a program reads an answer before 2^32 more requests, which nothing in the
code sees to and without which no client of this protocol could tell answers apart.
`Programs` also assumes that calls are of methods that exist, with keys and prefixes
that are strings; `Yc` and `Counter` that a session is a sequence of command lines,
and `Counter` that the statistics are a sequence of names and values. The server of
each module is part of what the theorem says: how it answers is stated in the
external definitions of that module.

For `Lz4` the masks have any size above 0, a match has at least 2 bytes (the table
is filled from 2 bytes before the end of a match, lz4.c:666, and those two belong to
it), there is at least one last literal, copies are no shorter than the last
literals, a read behind the block returns some number, and a hash stays in its
table. The values of `lz4.c` are one case.

`GetsPrintWhatWasStored` has one hypothesis more, `Lz4Packs`: that `Pack` and
`Unpack` are the functions of `Lz4`. `Sessions` are sequences of command lines whose
files are bytes and whose flags are numbers (`IsInvocation`). `PrintsStored` itself
is about users who are careful (`CarefulUsers`), which means three things, without
any one of which it is false. Each stands for something the code does not see to:

* data is stored with flags that leave the bit of compression to the library
  (yrmcds.h:225): short data that a user stores with that bit (send.c:133 refuses it
  only when data is compressed by the library as well) is taken for a block by every
  reader;
* lengths fit in an `int`: longer data is cut when it is compressed (send.c:143);
* nothing is put in front of an object that may be compressed: it is taken for the
  length of the block. yrmcds.h:631 warns of it, and yrmcds.h:609 of `append`, which
  the theorem does include, because a block with anything behind it is refused,
  so that `get` fails and prints nothing.

The sessions of `MCYc` include such careless users (`Careless`). `PrintsStored` says
nothing of them; the other properties of the run do. Without the condition TLC finds
one who stores eight bytes that are a length and a block, and whose `get` prints
something else and ends with 0.

The arguments:

* **Counts and pointers** (`PersistentPoolProofs`). `RefcountExact` is not
  inductive: whether the last user may free a structure depends on who points to
  it. `Inv` adds the types, `PoolSound`, where a waiting handler stands
  (`JobSound`: it waits on a live structure, and one that is being destructed
  still has its pointer), and that every user is counted (`Counted`: never fewer
  references than users, and exactly as many if no object is constructed twice).
  `PoolSound` then needs only the first half, which is why a second
  `__construct` leaks a reference and does not free anything too early.
* **Cleanness** (`PersistentPoolProofs`). Serials are handed out in
  increasing order and neither the wire nor the server reorders, so what is in
  flight is sorted (`Ordered`). A loop waits for the serial taken last; when that
  response is at the head, sortedness leaves nothing behind it and nothing on
  the wire. The same answer being good means that the server carried out
  unlockall, or knows no locks (`Finalising`, `LocksNeedServer`). A cut frame
  may swallow the awaited request: the wait then fails, and the entry goes.
* **Traffic** (`PersistentPoolProofs`). `OwnInv`, on top of the invariant
  for cleanness: no two clients point to one structure (`OneOwner`), what is in
  flight or locked on a client's connection is the client's, unless it is just
  leaving (`Owned`), and a stale check runs on a connection of its own, with
  nothing but its noop on it if the client has not taken it yet (`CheckAlone`).
  Adopting needs the cleanness of the idle connection: that is why the two are
  proved together. A step that only removes from a connection keeps all three
  (`ShrinksKeeps`).
* **PHP 5** (`PersistentPoolProofs`). The actions of `Php5Pool` are those of
  `PersistentPool` where the sources agree, so the invariants carry over step by
  step; new is a second `__construct`, which ends the worker and all structures with
  it (`WorkerDies`), so that the reference it has counted is never seen. Hence the
  count is exact without the hypothesis about second constructors.
* **Send** (`SenderProofs`). The mutex gives one writer (`Mutex`), it has the
  last serial (`Current`), and what it has written is the end of the stream
  (`Tip`): a write goes on where the frame stopped, or starts behind units of
  smaller serials.
* **Refinement of the command log** (`SenderProofs`). The log is the set of frames
  that are complete before the first cut, so it may not shrink when a later frame
  is cut, nor grow by a frame behind a cut. `LogInv` adds to the invariant for
  sending: the frame being written ends where its thread stands (`Reached`), only
  serials that were handed out have failed, and not the one being written
  (`Failures`), and the mutex is free only when the last frame is in the log, has
  failed, or the log is broken (`Settled`). The last one is what `CommandLog`
  asks before it hands out the next serial.
* **Receive** (`ReceiverProofs`). About the whole stream: around every byte lies
  its frame (`Frames`), numbers grow and one number is one frame (`Numbers`),
  and no frame is unfinished before the stream ends (`Complete`). The buffer
  starts between two frames (`Position`), because the only thing it moves past
  is a frame that was complete. `Roomy` and `BufferSafe` bound the buffer: a
  round of `recv_data` is entered with less than one legal response in it.

* **Requests** (`ProgramsProofs`). The methods of the two sources are compared
  one by one, on an object with a connection and on one without, with the operators they rest on expanded (`SameReads`,
  `SameStores`, ...), and joined through the function table.
* **Answers** (`ProgramsProofs`). `AnswerMatches` is not inductive: whether the
  response at the head may have the serial that is waited for depends on all that
  is under way. `NumberInv` says of each request and answer under way that its
  serial is its number modulo `SerialMod` (`Numbered`), that numbers are at most
  `sent` and less than `SerialMod` behind it (`Recent`, `Fits`), and that a
  program in a loop waits for the last one. Two numbers that close with equal
  residues are equal (a lemma on `%`).
* **Order** (`ProgramsProofs`). `Barrier` needs more than numbers: `OrderInv`
  says that requests ascend by number, that answers do and are all older than
  the requests still on the wire, and that no request but a listing is answered
  more than once - so behind the answer to the last request there is nothing,
  and a wait never stops at the first of several answers to its own request.
* **Multi-get** (`ProgramsProofs`). While a multi-get runs, the keys the server had
  are those the program has found and those of the answers under way (`MultiInv`,
  on top of `OrderInv`); when the noop is answered nothing is under way.
* **Tenants** (`ProgramsProofs`). `TenantInv` says that every key on the wire
  and in the store begins with the prefix of the client that sent or wrote it.
  Two prefixes of the same key are comparable, so a client finds only what a
  client of a comparable prefix wrote. That no method forgets the prefix is
  again shown one by one, for both sources.
* **Sessions** (`SessionProofs`). `OwnerHolds` depends on answers that are still
  under way. `SessionInv` says of each worker: the serials on its connection are in
  order, counted back from the last one taken, so the one it waits for comes last
  (`InOrder`); where the handler stands tells what is on the connection
  (`HandlerFits`, `Traffic`); when the last answer has been given, it is true - a
  granted lock is held and the version is the server's, a refused one is another's
  (`Told`, `Holding`); and a locked write on its way replaces the version it was
  made from for as long as the lock is held (`Replacing`). Versions written but
  not yet stored are new (`Fresh`), which needs finitely many of them.
* **Connect** (`YcProofs`). `Holding` says what each stage has; yc leaves the
  connection alone or takes a step of `Connect`, which gives the refinement, and
  the theorem about `Connect` carries over to yc.

* **Exit codes and prompts** (`YcProofs`). First about the commands alone: the plan
  made of any command line is sound (`CommandPlanned`:
  only a command that ends the connection waits for nothing, only `-q` makes a
  request quiet, only one that takes a lock prompts, and `rau` and `unlock` ask
  for no more than to be rid of one). Then `YcInv`, for each user: the types, that
  the process stands where its plan says (`Going`), that the request under way is
  its own (`Requests`), that the answers under way have the status the server
  gave, a refusal ahead of the noop (`Responses`), and that a request for a lock
  that succeeded has the lock as long as the connection is up (`Locks`).
* **Counter** (`CounterProofs`). `CounterInv` says for each user: what it asked
  (`Asked`), what was answered to that (`Replied`), that what is printed is the
  front of what the server said and never all of it before the end (`Shows`), and
  how the bytes lie (`Buffered`): from the end of the response returned last, the
  responses that are not printed yet follow one another as far as they have been
  sent and not been cut off (`LaidOut`). Every parse then begins at the header of
  a response that was sent as a whole. The rest is about the parsers: each reads
  what the server writes, and refuses it without its last byte, so a garbled answer
  is never printed. For the loop of `parse_statistics` this is an induction along
  the pairs; it is done by the smallest counterexample (`Smallest`), for which the
  well-foundedness of < suffices.

* **Block format** (`Lz4Proofs`). First, that the recursive functions are what
  their equations say. A function that calls itself last, at the next round of a
  loop, exists whatever the loop does (`TailRecursion`): it is the value where the
  rounds end, and any value where they never do. That they end is part of the
  argument about the data. Then the parts: a length is read back as it was written,
  whatever follows it (`Rest` and `RunLength`, `MatchLength`), an overlapping copy
  repeats what it produces (`Repeat`), and a match that the search or the table
  yields is one: the bytes at both positions are the same, the earlier one lies
  before the other and no further back than an offset can say - for short inputs
  because all positions fit, for long ones because the search asks (`Emits`).
  Extending a match forwards and backwards keeps that. Last, the decoder, at the
  start of a sequence and with what is before the anchor as its output, ends
  with the whole input (`Restores`), by induction along the rounds of the
  compressor; the limits of the search leave room for the literals the decoder
  expects at the end. Behind the last literals nothing is read, so a block that
  is longer fails.
* **What get prints** (`YcProofs`). `PrintInv` follows data through the system:
  what is stored, in a request, or in an answer is either the data that is meant,
  or the length of some data, its block, and what has been appended since
  (`Faithful`); only keys under which someone stores long data have a block
  (`PackedKey`), and requests that prepend are for others. A plan that gets
  prints data, and prints it once (`Printing`). That the requests of all commands
  are such is shown command by command (`CommandRight`), with the flag bit added to
  flags that do not have it (`FlagAdded`) and lengths that fit (`LengthsFit`). The
  answer of the server to a get is what it has stored (`AnswersHonest`), and what a
  receiver decodes from it is what it means, or an error (`DecodedIs`, from
  `LZ4RoundTrip`).

Only model-checked: the liveness properties (`HandlerReturns`,
`AbandonedLocksEnd`, `LockComesBack`, `StartReturns`, `WaitEnds`,
`InvocationEnds`, `CommandEnds`), which need fairness and ENABLED. Every other
property that a passing run checks is the subject of a theorem.

## 5. Findings

1. **A second `__construct`** (`PoolReconstruct`, `yrmcds.c:240`). Nothing
   forbids calling `__construct` on an object that has a connection. The
   second call counts a reference that the destructor never gives back, so that
   "the last user" of `yrmcds.c:145` is never seen, and a broken connection stays
   in the list.
2. **Locks of others** (`PoolOthersLocks`, `yrmcds.c:157`). `unlockall` in the
   destructor releases the locks of every client that shares the connection,
   where USAGE.md:32 speaks of those "acquired by this client".
3. **A refused write** (`SessionRefused`, `yrmcds_session.php:117`). The flag
   `locked` is never reset, so a handler that has had one locked session stores
   the next, new one (`session_regenerate_id`) with `replaceUnlock`, which the
   server refuses because there is no lock (`yrmcds-api.php:513`). `write` has
   returned TRUE.

Noted while reading, without a run:

* USAGE.md:121-122 ends the loop over a listing at a response without a
  *property* `key`. Every response has that property, null when there is no key
  (yrmcds.c:1351, yrmcds_php5.c:368), so the loop as written never sees its end
  and stops only when `recv` throws at its timeout. tests/016.phpt:28 tests for
  null, and so does `Programs`.
* The usage text of yc-cnt (yc-cnt.c:17-18) leaves out the name of the counter
  that `acquire` and `release` take first (yc-cnt.c:258-283).
* A failed constructor leaks its `php_yrmcds_t`; with `default_timeout` 0 the
  two waits of the life cycle may have no end, and with detection off a closed
  connection is found out by the first command; a cut frame is remembered
  nowhere, so a later send can succeed and never be carried out (`CommandLog`
  states this).
* A method called before `__construct`: `yrmcds_php5.c` ends it with an error
  (yrmcds_php5.c:414-418), `yrmcds.c` has no check and uses a null connection
  (yrmcds.c:453). `SameRequest` names this as the one difference.
* `yc get` and its kin end with 0 when their output could not be written:
  `write_data` returns without a word (yc.c:119-120). `PrintsStored` allows for it.
* Data of one to three bytes with the flag bit of compression is read past its end
  by the receiver (recv.c:148); its decompression then gets a negative size and
  fails, so that the response is refused whatever was read. `Decoded` says so, and
  the sessions `Careless` do it.
* Short data that a user stores with that bit, which send.c:133 refuses for long
  data only, is decompressed by every reader (see 4).
* After a failed connect the mutex stays initialised, but when there was no memory
  for the buffer (connect.c:145-146, 178-179; 150-155 destroys it). `NothingLeaks` says which.
* What the length of a counter response may be is not limited, where `recv.c`
  limits it.
* Data appended to an object that is stored compressed makes it unreadable for
  this library; yrmcds.h:609 warns of it, and `Yc` includes it.

## 6. Not modelled

* Sizes near the limit of 1 GiB: `Int32` models what happens to a length above
  `INT_MAX`, and no run has such data.
* `yrmcds_fileno`, `yrmcds_shutdown` and `yrmcds_set_buffer_size`, which nothing
  in the repository calls; `yrmcds_set_timeout` is in `PersistentPool` as the
  state it changes.
* LZ4 beyond the block format: dictionaries, streams, limited output, frames,
  HC, xxhash and the lz4 programs are vendored and not used by libyrmcds.
* Error strings, the API stub, build files: no behaviour.
* The connect of the counter client, beyond its outcome: it is `connect_to_server`
  again. yc-cnt itself gives up at the first failed receive; other programs may
  call again, as the library allows, and an invocation with `retries` stands for
  one.
* In `Programs`, connections end only by quit, and two programs on one
  connection are left to `PersistentPool`; expiry is left out everywhere.

Abstracted throughout: keys, values, flags and expiry times (a value is a
version, a response is good, refused or undecodable), log messages, and the
wording of exceptions. Memory exhaustion is modelled where it leaves something
behind (the buffer and the decompression of `yrmcds_recv`, the buffers of connect,
the pairs of `append_stat`), not where a call just ends with an error before it has
sent anything (`send_data`) or where PHP ends the process. yc-cnt is taken to have
an output that can be written; yc is not. The `$id` that PHP passes to `write` is
that of the session `read` has opened, as in PHP 7, which closes a session and reads
the next one to change its id.
