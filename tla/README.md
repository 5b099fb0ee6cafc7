# Verification of qinyunserver

TLA+ modules of the network library (`src/net`) and the application server
(`src/server`) of this repository, the TLC configurations that check them on
small instances, and TLAPS proofs of what they check, for instances of any size.

    tlc -config EventLoop.cfg MCEventLoop.tla      # one run; see the table below
    tlapm EventLoopProofs.tla                      # one proof module

## 1. The system

A muduo-style reactor with a JSON-over-TCP business server on top of it.

| component | state it keeps | operations | interacts with |
|---|---|---|---|
| `EventLoop` | `_quit`, `_callingFunctors`, `_pendingFunctors` (mutex), eventfd, active channels | `loop`, `quit`, `runInLoop`, `queueInLoop`, `wakeup`, `handleRead`, `doPendingFunctors` | every other class queues functors in it; `EPollPoller` sleeps for it |
| `TimerQueue` | `_timers`, `_activeTimers`, `_cancelTimers`, one timerfd, the `Timer` objects | `addTimer`, `cancelTimer`, their `InLoop` halves, `getExpired`, `handleRead`, `reset` | calls `runInLoop`; its timerfd is a channel of the loop |
| `EPollPoller`, `Channel` | map fd -> raw `Channel*`, epoll set; event mask, index, `_addedToLoop`, weak tie | `poll`, `updateChannel`, `removeChannel`, `handleEvent` | owned by connections, acceptor, timers, loop |
| `TcpServer`, `TcpConnection` | map of `shared_ptr`s in the base loop; `_state` of each connection | `onNewConnection`, `connectEstablished`, `handelRead/Write/Close`, `forceClose`, `removeConnection(InLoop)`, `connectDestroyed` | base loop and IO loops by functors; user callbacks |
| output path | `_outputBuffer`, write interest | `send`, `sendInloop`, `handelWrite` | socket, poller |
| `Buffer` | one vector, a reader and a writer index | append, `readFd`, retrieve, prepend, `makeSpace`, `getline` | both directions of a connection |
| `Acceptor`, `Socket` | listening socket, spare descriptor | `handleRead` (accept, EMFILE), `listen` | `TcpServer` |
| `EventLoopThread`, `EventLoopThreadPool` | threads, `_loop` handed over under a mutex and a condition | `startLoop`, `getNextLoop`, destructors | `TcpServer` |
| `TcpClient` | one connection, a mutex and a condition | `connect`, `connection`, `newConnection`, `removeConnection`, destructor | a loop, mostly in an `EventLoopThread` |
| `BusinessServer` framing | input buffer of a connection | `onMessage`, `tryExtractPacket`, `dispatchAction`, `sendResponse` | `Buffer`, router |
| `BusinessServer` activities | tables `activities`, `activity_applications`, `activity_members`, `users` | the handlers ApplyActivity, ApproveApplication, SettleActivity, BatchAssign, ConfirmAssign, Add/Update/DeleteActivity, Leave, BulkRegister, DeleteMember(s) | one `MYSQL*` shared by all IO threads |
| `BusinessServer` calendar | `course_templates`, `schedules`, `sys_config`, the cached term start | UploadSchedule, `rebuildUserSchedules`, BatchApplyClassTemplate, SetTermStart, GetTimeSlotAnalytics, FilterMembers | the same `MYSQL*`, `TimeConverter` |
| `TimeConverter` | none | dates to weeks and masks | activities, schedules |

**What is hard here.** Functors and `quit()` cross threads while the loop is
about to sleep. Timers are raw pointers shared by two sets, a batch and queued
functors, found by address. A connection is removed in three hops over two
loops while epoll and the active list hold raw pointers to its channel, and
its descriptor is soon used again. `forceClose` and `send` come from other
threads. Partial writes and the write interest must agree. Packets arrive in
arbitrary pieces. Handlers are series of SQL statements; three threads run them
over one database session, whose transactions belong to the session and not to
the thread; a statement may fail and the process may end between any two. The
term start is in a table and in a cache; timetables are copied into weekly
bitmaps after the transaction that changes them. A client's connection is
destroyed inside its own event, while the thread that owns the client waits for
it or takes the loop down. At the limit of descriptors the level-triggered poll
reports the listening socket until somebody takes the peer out of the backlog.

**What makes each part correct.**

* Event loop: nothing sleeps on work; functors run once and in order; what is
  queued is run before the loop returns; `quit` ends a running loop.
* Timers: the two sets name the same timers; each object has one owner; the
  timerfd is armed in time; a waiting timer fires or is cancelled; a timer
  cancelled while it waited never runs.
* Connections: no assertion fails, no raw pointer dangles, up and down are told
  once each, what the peer closes is released, who waits to be accepted is
  answered.
* Client and loop thread: a user that keeps to the rules is safe; start, join
  and `connection()` return.
* Output and buffer: what goes out is a stream of whole messages; what is
  buffered is written; a buffer is a byte queue.
* Framing: the bodies handled are the bodies sent.
* Activities: each request whole or not at all; rows refer to rows that exist.
* Calendar: an upload replaces a timetable as a whole, the cache follows the
  table, members offered for an activity are free then, and dates and times are
  converted as the calendar says.

## 2. Modules

| module | models | built on |
|---|---|---|
| `TaskQueue` | abstract: a FIFO queue of functors | |
| `EventLoop` | `eventloop.cpp` 40-180 and `poll` | implements `TaskQueue` |
| `EventLoopProofs` | proofs | `EventLoop` |
| `TimerQueue` | `timer.cpp`, `timer.h` | the order of functors that `EventLoop` provides |
| `TimerQueueProofs` | proofs | `TimerQueue` |
| `ConnectionLife` | abstract: new, up, down, gone | |
| `TcpServer` | `tcpserver.cpp`, `tcpconnection.cpp`, `channel.h`, `poller.cpp`, `acceptor.cpp`, the loop pool | implements `ConnectionLife` |
| `TcpServerProofs` | proofs | `TcpServer` |
| `LoopThread` | `EventLoopThread` and the outline of its loop | |
| `TcpClient` | `tcpclient.cpp`, with the connection it makes | `LoopThread`; implements `ConnectionLife` |
| `TcpClientProofs` | proofs | `TcpClient` |
| `ByteQueue` | abstract: a queue of bytes | |
| `Buffer`, `BufferUse` | `buffer.cpp`: the methods as operators on a record, and a user that calls them in any order | implements `ByteQueue` |
| `ByteStream` | abstract: accepted messages go out whole and in order | |
| `OutputPath` | `send`, `sendInloop`, `handelWrite`, the write interest | implements `ByteStream`; its buffer is a byte queue |
| `OutputPathProofs` | proofs | `OutputPath` |
| `Framing` | `onMessage`, `tryExtractPacket` | its buffer is a byte queue |
| `InputProofs` | proofs of the input path | `BufferUse`, `Framing` |
| `ActivityTables` | the schema of the activity tables and, for each request, its whole effect | |
| `BusinessServer` | the handlers as programs of SQL statements on a shared session | `ActivityTables` |
| `BusinessServerProofs` | proofs | `BusinessServer` |
| `TimeConverter` | the conversions, as operators | |
| `Schedules` | the handlers of the calendar, as programs of statements on the session and assignments to the cache | `TimeConverter` |
| `SchedulesProofs` | proofs, also of the conversions | `Schedules` |

`MC*` modules give the constants values for TLC. Operators called `Mut...`
stand before the definition they vary: each is a plausible mistake in that
piece of code, and the properties are known to notice it.

### How the state and the actions correspond to the code

**EventLoop.** `pc` is where the loop thread is (`LoopPoints`); `pending` and
`batch` are `_pendingFunctors` and the local vector of `doPendingFunctors`;
`signalled` is whether the eventfd is readable (its counter is not told apart).
A call of `queueInLoop` or `quit` from another thread is two steps, because the
loop runs between the push or the assignment and the write of the eventfd
(`tpc`); calls by the loop thread itself are one step, and happen before
`loop()`, in a callback of a channel or in a functor. `ran`, `inline` and
`early` are history.

**TimerQueue.** Time is relative, in ticks of the 100 us that `howMuchTimeFromNow`
never goes below. `heap` maps addresses to `Timer` objects, so that an address
is used again as `new` does; `addTimer` is two steps for another thread, since
it reads the sequence number after it has handed the pointer over. `handleRead`
is `HandleRead`, then `RunTimer` and `EndCallback` for each expired timer with
the callback's own calls between them, then `Reset`.

**TcpServer.** Each loop has a phase (poll, handle, functors) and actions for
poll, one event and one functor. A connection is destroyed when nothing refers
to it (`Referenced`). Failed assertions stop everything (`failed`). A
`deployment`, chosen in the initial state, is a pool of none, one or two IO
loops, the descriptors the process may have, and a usage: "quiet" (only the
loops close connections), "force" (another thread keeps pointers and calls
`forceClose`) or "teardown" (`~TcpServer` while the IO loops run, which then
find `_quit` and leave with what is still queued; the map of connections is
gone through in any order, which only shows in the order of the functors in one
loop, so each loop gets one of its own: `Carried`, `Orders`). Peers wait in the backlog
until the acceptor's event in the base loop accepts or, without a descriptor,
closes them; a peer may give up before. Closing by the peer is an end of
file, a reset or a hang-up, with or without unread data.

**TcpClient.** `LoopThread` has the thread that owns the loop's thread
(`owner`) and the loop's thread (`phase`): the constructor starts the thread
before `_mutex` exists, so `Publish` may hang (`stuck`), the outcome of locking a
mutex that is not constructed. `TcpClient` adds the connections and the loop's
phases. `HandleClose` is `handelClose`, the user's callback, `removeConnection`
and `connectDestroyed` in one step, as they are one call in one thread. `careful`,
chosen in the initial state, is a user whose `onConnection` keeps a pointer until
a functor queued at the end, and who destroys the client only then.

**Buffer.** `store`, `reader` and `writer` are the vector and its indices; the
assertions on the arguments are guards of `BufferUse`.

**OutputPath.** `room` is what the kernel's send buffer still takes, so a write
takes any part of a message, and none is an error, as `sockets::write` reports
EAGAIN. A send after the end of the connection is allowed, as in the code. The
object exists as long as functors for it are queued.

**Framing.** A read (`HandleRead`) takes any prefix of what is on its way, and the
loop of `onMessage` runs while `reading`: `TakePacket` for every packet that is
complete, `NoPacket` when `tryExtractPacket` finds none or drops the buffer. The
client may send more between any two of them. The header is four digits in the
base of a byte, `Radix`: 256 in the code and any base from two on in the proofs,
two in the run, so that bytes of bodies are read as lengths, which is the hazard.

**BusinessServer.** Each handler is an operator named after it (`Apply`,
`Approve`, `Settle`, `Add`, ...) that gives its statements in order, and
`Program(r)` picks the one `router_` has for the request.
`Control` is START TRANSACTION, COMMIT and ROLLBACK, `Statement` any other
that succeeds, `Error` one that fails or a check that refuses. `undo` is the
state to which the session's open transaction would roll back; START commits
an open one, as MySQL does. `Crash` ends the process: handlers catch no JSON
exception, so it may come between any two statements. Ids of activities and of
users come from AUTO_INCREMENT, which no rollback takes back (`nextAct`,
`unregistered`).

**Schedules.** The same shape. A step of a handler is a statement, the seven rows
of one week in `rebuildUserSchedules`, or the assignment to
`m_cachedTermStartDate`. A course of an upload is good, refused by the table (the
code does not look), or broken JSON (which throws, and rolls back). `column` says
whether `course_templates` has `time_mask`: the handlers use it, the tables in
`src/sql` lack it. A date is a day number, a time minutes since midnight, a mask
the set of its bits. `rebuilt` and `filed` are history: whose bitmaps were written
after the last change of the timetable, and which activities have week and hours
from their present date and term.

## 3. Runs

| run | question | result | bounds |
|---|---|---|---|
| `loop` | wakeups, order, draining, quitting | holds | two other threads, three functors |
| `timers` | the sets, ownership, arming, cancelling, firing | holds | three timers on two addresses, delays up to two ticks, one queued functor |
| `server` | assertions, raw pointers, destruction, callbacks, release, the backlog | holds | two connections, two descriptors or one, zero to two IO loops; `forceClose` by a thread and `~TcpServer` with one IO loop |
| `server_force_close` | no assertion fails with `forceClose` from a thread | **violated** | one IO loop |
| `client` | a careful user is safe, callbacks, start, join, waiting in `connection()` | holds | two connections, careful and careless users |
| `buffer` | byte queue, order of the indices, growth | holds | vector of five with a reserve of two, strings of one to three bytes |
| `output` | stream of whole messages, write interest | holds | messages of one, two and three bytes, room for two |
| `output_flushed` | waiting output is written | **violated** | the same |
| `framing` | bodies as sent, no packet left behind, every one handled | holds | three packets with bodies of 0, 1, 2, 3 or 5 bytes of base two, limit 2 |
| `business` | transactions closed, rows refer to rows, atomic requests | holds | three requests of any kind, two users, three activities, one or two threads |
| `business_threads` | a failed addition leaves nothing | **violated** | the same |
| `calendar` | uploads, the cached term, free members, conversions | holds | four requests with one thread, three with two; two users, two activities, a term of three weeks of which two are rebuilt |

*Why the bounds are enough.* Two threads are the least that interleave with the
loop and each other, and with three functors one can be in the batch, one
queued and one on its way. Three timers on two addresses force an address to be
used again. A second connection can take the first's descriptor while the first
is still known to a loop. A buffer of five bytes is filled, moved, grown and
emptied by strings of up to three. Room for two and a message of three make
every write partial in turn. Three packets put one before, one at and one after
a length above the limit. Three requests can apply, approve and delete, or
assign, settle and remove, and with two threads any two handlers interleave
statement by statement. A user with one descriptor and two peers is at the limit
as soon as the first is accepted. Two connections of a client are one after the
other for a careful user, and at once for a careless one. Four requests can
upload, add, assign and ask (asking is in the invariant), and three weeks have
an odd, an even and one that is not rebuilt; the term can start on two days a
week apart, so that a date is before it, in it or after it.

*Fairness.* `EventLoop`: threads that can run do (`WF` of the loop's own steps
and of the eventfd write that follows a push); no fairness on the poll timeout
or on I/O. `TimerQueue`: time passes, a readable timerfd is handled, callbacks
return, and functors run, which the loop does in every iteration. `TcpServer`:
every loop's thread runs, the network and the users promise nothing. `TcpClient`:
the loop's thread runs and the owner's calls go on once they can; what the owner
calls next is its own decision. `Framing`: what was sent is read in the end and
the loop of `onMessage`, once begun, goes on; nobody has to send.
`OutputPath_flushed`: the loop handles what is writable and the peer goes on
reading; nothing makes the connection close. `OutputPath`, `TcpServer`,
`TcpClient`, `Framing`, `BusinessServer` and `Schedules` may really stop (everything closed, sent or
served), so deadlock is checked for the loop, the timers and the buffer only.

## 4. What the violated runs show

* **`server_force_close`**: `forceClose` writes `kDisconnecting` over whatever
  the state was. After `handelClose` for the peer's close, its functor closes
  the connection again and the removed channel is registered again; an
  assertion fails at the next hang-up or at the second `connectDestroyed`.
* **`output_flushed`**: `isWriting()` compares the whole event mask. A
  connection always reads too, so `handelWrite` takes it for "shutdown write"
  and leaves. Output that did not fit the socket at once is never sent.
* **`business_threads`**: the addition of repeated activities is all or nothing
  by its comment. Another thread's START TRANSACTION or COMMIT on the shared
  session commits a part of it before its ROLLBACK.

More is visible in the models, and stated in their properties' conditions:

* `loop()` clears `_quit`, so a `quit()` before it is lost (`eventloop.cpp:72`).
  `QuitStops` is about a loop that runs, `JoinReturns` excepts a destructor that
  was faster than the thread, and then waits for ever.
* A cancellation of a timer that is in the expired batch, or whose addition is
  still queued, has no effect (`timer.cpp:106`; `CancelOfWaitingIsFinal` is about
  timers that waited, `missed` collects the others).
* Every close by the peer destroys a `TcpClient`'s connection inside the event of
  its own channel, against `channel.cpp:22`, unless the user's callback keeps a
  pointer; a client destroyed with a connection up is called back through its
  raw `this` (`CarefulIsSafe` is about users that avoid both). `connection()` waits
  for ever if the connection has gone down before the waiter wakes up.
* `connect()` never retries: `sockets::connect` ends the process on any error.
* `sendInloop` does not look at `_state`: a message sent by who kept a pointer
  after `connectDestroyed`, with a part that has to wait, registers the removed
  channel again, and nothing removes it before `~Channel` asserts that it is out
  (`channel.cpp:23`; `SendBuffered` and `SendDirect` are enabled in that state).
* `~TcpServer` while an `onMessage` closes a connection registers the removed
  channel again (the "teardown" usage, outside `NoAssertionFails`).
* After a length above the limit the log says "Closing connection" and the
  connection stays; the rest of the body is read as packets (`oversized` in
  `FramesAsSent`).
* Summer time that begins between the start of the term and a date costs the
  date a day, and lets the day before the term pass: `tm_isdst = -1` asks mktime
  to find out, where the comment says it is refused (`TimeConverter.cpp:19`;
  `lost` in `WeekAndDayIsRight`).
* `handleBatchApplyClassTemplate` never fills its vector of rules, so it answers
  ok and writes nothing (`ApplyTemplate`), except that it commits whatever
  transaction another thread has open.
* A date before the term files an activity under week 1, its refusal is not looked
  at; `handleUpdateActivity` moves the date and the time and leaves week and hours
  (`filed`). The subquery on the date in `handleFilterMembers` is true of every
  activity, so one on another day of the week blocks a member too: who is offered
  is free, but not all who are free are offered.
* `rebuildUserSchedules` writes 16 of the 20 weeks; in the others members look free.
* With two threads the cache and the table of the term start can end up different,
  and a rebuild can write a timetable that has been replaced (`Sole` in
  `CacheFollows`, `UploadedIsValid` and `FilteredAreFree`).

## 5. Proofs

For every value of the constants, under the assumptions the modules name.

| module | theorems | of the property |
|---|---|---|
| `EventLoopProofs` | `TypeCorrect`, `WakeupIsNeverLost`, `FunctorsRunOnceInOrder` | `TypeOK`, `NoLostWakeup`, `ImplementsTaskQueue` |
| `TimerQueueProofs` | `TypeCorrect`, `TimerSetsAgree`, `TimersOwnedOnce`, `AlwaysArmedInTime`, `CancelIsFinal` | `TypeOK`, `SetsAgree`, `HeapOwned`, `ArmedInTime`, `CancelOfWaitingIsFinal` |
| `TcpServerProofs` | `TypeCorrect`, `PollersPointToTheLiving`, `NoAssertionEverFails`, `ToldOnceAtEitherEnd` | `TypeOK`, `RegisteredIsAlive`, `NoAssertionFails`, `ImplementsConnectionLife` |
| `TcpClientProofs` | `CarefulUserIsSafe`, `ClientTellsOnce` | `CarefulIsSafe`, `ImplementsConnectionLife` |
| `InputProofs` | `TypeCorrect`, `BufferIsByteQueue`, `GrowthIsNeeded`, `FramesArriveAsSent`, `NoPacketLeftBehind` | `TypeOK`, `ImplementsByteQueue`, `GrowsOnlyWhenFull`, `FramesAsSent`, `NothingLeftBehind` |
| `OutputPathProofs` | `InterestAlwaysMatches`, `OutputIsByteStream` | `InterestMatches`, `ImplementsByteStream` |
| `BusinessServerProofs` | `TransactionsEnd`, `ApplicationsOnRecord`, `RowsExist`, `RequestsAreAtomic` | `NoTransactionLeftOpen`, `AppliedHasApplication`, `MembersExist`, `AtomicRequests` |
| `SchedulesProofs` | `DatesConvertRight`, `TimesConvertRight`, `TermIsCached`, `OfferedAreFree`, `UploadsTakeThePlace` | `WeekAndDayIsRight`, `MasksAreRight`, `CacheFollows`, `FilteredAreFree`, `UploadedIsValid` |

The assumptions on the constants (`ServerAssumption`, `BoundsAssumption`, ...) say
what kind of thing each is; TLC evaluates them for the values of the runs. One
theorem asks for more, in its statement: `OfferedAreFree` is about activities
whose times lie between 7:00 and 22:00 (`WithinHours`), the hours that have a bit
in the mask. The server takes any time; one outside them gets an empty mask, with
which two activities at the same hour of the night do not meet.

*Event loop.* `NoLostWakeup` speaks only of the loop in `epoll_wait` and is not
inductive. `WakeInv` asks for more: wherever the loop may go on to sleep without
taking the vector again (from the swap on, through the functors and the test,
to the poll: `Covered`), a queued functor has its wakeup under way or done.
While events are handled it need not hold, because the eventfd has been read
and the vector is about to be taken. The refinement needs only the types: a push
appends to `batch \o pending`, the swap leaves it as it is, and a functor is
taken from its head.

*Timers.* `SetsAgree` needs `HeapOwned` (the address of a new timer is not one
that waits already), `HeapOwned` needs `SetsAgree` (what waits is live): the two
with the types are inductive together (`Inv`). `ArmedInTime` needs the types
only. `cancelTimerInLoop` goes by an address that may since belong to another
timer, so `CancelIsFinal` argues about sequence numbers: no live timer has one
above `_numCreated`, and the live timer with the number of a `TimerId`, if there
is one, has its address (`IdsMean`). A cancellation that finds the address among
the waiting timers therefore leaves nobody alive under the number it was given;
if it finds nothing and the timer is alive, `missed` records it; and numbers are
not given twice (`CancelledGone`). Nothing says that the timer a stale `TimerId`
frees is the one that was meant, and it need not be (`timer.cpp:106`).

*Server.* That a poller points to a live channel says nothing of who keeps the
connection alive. `Lifetimes` does: a connection that is registered, enabled or
in an active list is *owed* its destruction, that is, it is in the map or a
functor that will remove or destroy it is queued (`Owed`), and what is owed is
referenced. It holds for every usage, with `DestroyedLast` for `~TcpServer`, which
drops the map while the functor that establishes a connection may still be
queued: the functor that destroys it comes after. Assertions do fail under the
other usages, so the second part, `Quiet`, is for quiet use: each accepted
connection is in one of four stages (`Connecting`, `Serving`, `Closing`, `Over`),
in each of which its state, its channel, the map, the calls to the user and the
functors queued for it fit together; two that are owed never share a
descriptor; functors are queued once. Every step is a turn of one connection,
which stays in its stage or goes on to the next (`Turn`), or leaves all aside.
The refinement of `ConnectionLife` reads the life off the stage; `LifeOf` had
been a CASE whose guards overlapped, which TLA+ leaves open, and is now an IF.

*Client.* The same, with five stages of a careful user's connection, and that
the client is busy with one at a time and alive as long as it is (`OneAtATime`).

*Buffer.* The order of the indices is inductive only with the fact that the
vector is never smaller than the reserve, since `retrieveAll` puts both indices
behind it. `EnsureProperties` and the lemmas on copying say that moving and
growing keep the contents.

*Packets.* `FramesAsSent` is not inductive: it does not say where in the stream of
bytes a packet is. `FrInv` does. Every packet sent stands behind the encoding of
those before it (`Placed`). As long as no length was too long (`InStep`), the
encoding of what has been handled, the buffer and the bytes on their way make up
the encoding of what was sent, so the next header in the buffer is that of the
packet numbered `Len(handled) + 1`: a complete packet found there is that packet, and a
length above the limit is its length (`TooLong` of the buffer cannot come from the
inside of a body). From then on a packet sent has been too long and all before it
are handled (`OutOfStep`); what is handled later only comes behind them, however
the stream is cut. `AtRest` says what `NoPacket` establishes and only a read undoes.
The encoding is `FlattenSeq`, a recursive function. The two facts about it that
this needs, what it is of no packets and of one more, are proved without the
induction theorems, from the least number at which they would fail (`LeastNumber`,
which is a first-order fact because < is well-founded).

*Output.* `InterestMatches` and the types are inductive; each action is one of
three steps of the stream (more accepted, more written, nothing).

*Activities.* `Fits` is `MembersExist` and `AppliedHasApplication` of one state of
the tables; it holds of the session's tables and of those a rollback or a crash
would bring back, because every statement keeps it, in any order, whoever's
transaction it falls into. `NoTransactionLeftOpen` needs the shape of what a
handler has left to do (`Shape`): a START has its end behind it, a check after
which the handler may return is in no transaction.
`RequestsAreAtomic` is about one thread. `Part(d, r, n, made)` are the tables d
after the first n statements of the transaction of r, written down directly, and
`Could(d, r, n)` that none of them failed; `BodyStep` shows for each handler that
one more statement goes from n to n + 1, or fails, and that the statement of an
approval that may fail leaves `Part` as it is. A thread that is alone (`Solitary`)
stands at some statement p of its program with the tables at `Part(undo, r, p - 2,
made)` behind START, or with no transaction open outside, or is about to roll back.
At COMMIT all statements are done and `Part` is `Effect` (`PartAtEnd`); ROLLBACK and a
crash give back `undo`, which is what was committed all the time. `Effect` is stated
of the whole request at once, so the proof compares two accounts of the same
change: statement by statement as the handler does it, and with sets of pairs.

*Calendar.* With one IO thread (`Alone`) the transaction is open exactly while its
handler is inside one, holds back neither term nor bitmaps, the cache is the
table's date except between the two writes, and the bitmaps of a user who has
been rebuilt are those of the committed timetable, half of them while the
rebuilding goes on. `FiledRight` says that what is filed has the week and hours
of its date under the present term, and needs one thread no more than the theorem
does. For uploads (`Orderly`) the handler of a thread that is alone is in an upload
of which n steps are done, and the open transaction differs from the committed
timetables by the courses accepted among the first n - 2, or it is in something
that writes no timetable. The conversions are arithmetic: the week and day of any
date, and the hours of any two times of a day.

*Model-checked only.* Every invariant, action property and refinement that a
passing run checks is proved. What is not is liveness under fairness (`QueuedRuns`,
`QuitStops`, `DrainedBeforeExit`, `EveryTimerFires`, `PeerCloseReleases`,
`WaitingIsAnswered`, `StartReturns`, `JoinReturns`, `WaiterServed`, `ProperIsHandled`),
which is out of the prover's reach, and that the three violated properties are
violated, which TLC shows by a behaviour. `AtomicRequests`, `CacheFollows`,
`FilteredAreFree` and `UploadedIsValid` are stated, and hold, for one IO thread only.

## 6. What is not modelled

* The read-only queries (login, lists of members, activities, departments and
  classes, `handleGetClassTemplate`), the router, the role check (it reads a field
  of the request), responses. They change no state.
* A server whose `sys_config` cannot be read, with an empty cache: no date then is
  in the term and every addition of an activity is refused.
* Errors of `accept`, `bind`, `listen` and `epoll_ctl` that end the process or are
  only logged; errno changed by the log call before it is compared with EMFILE
  (`acceptor.cpp:46`). `~Acceptor`. `~TimerQueue`.
* The second `TcpServer`, inside `BusinessServer`, that `main.cpp` binds and never
  starts.
* Jumps of the wall clock (expirations are wall-clock, the timerfd monotonic).
* A lost MySQL link and other transient faults of statements; with them even the
  unchecked COMMITs could fail. Overlapping calls of the client library: one
  statement with its result is one step, more than the library promises.
* A functor that outlives its connection (`send` queues a raw `this`).
* max_participants is not an upper bound of the members of an activity in this
  code: approval and assignment do not look at it, so no property says it is.
* Values, formatting, logging; the load generator `src/example/testcli.c`.

## 7. Plan

1. Done: event loop and timers; connection life with the acceptor and the
   destruction of the server; client and loop thread; buffer, output, framing;
   activities and calendar over the shared session; all with proofs of their safety.
2. Abstract specifications still worth stating: a connection as two `ByteStream`s
   and a life.
3. Proofs still worth having: which dates `TimeConverter` accepts, and what of the
   calendar holds with several threads (without `Alone`).
