# TLA+ models of the joker engine

The repository is a small C++ network engine on top of asio: a server and a client whose
sessions read and write through growing buffers, hand what arrives to a pipeline of handlers
(frame decoders first), and are collected when idle; a timer wheel; and a bridge to Lua scripts.
It has no lock around a session. Its correctness rests on a handful of atomics, on which thread
runs which callback, and on the order in which shutdown, close, cancel and the last handler come.
That is what this directory models, checks with TLC and, in part, proves with TLAPS.

## The system

| Component | State | Operations | Used by |
|---|---|---|---|
| `wfirst_rw_lock` | two counters, a flag, two condition variables | read/write lock and unlock | server |
| `asio_buffer` | list of blocks, read and write position, four counters, a notification | append, has_written, retrieve, peek, mutable_buffer, const_buffer | session, decoders |
| `session` | socket, two buffers, five atomics (`reading_`, `writing_`, `pending_write_len_`, `work_read_count_`, `handle_count_`), `close_flag_` | start, read/handle_read, write/handle_write, notify_write, close, close_if_necessary, check_idle | server, client, handlers |
| `server` | `session_map_`, `wait_remove_session_map_`, lock, timer | accept, close_session, check_idle every 30 s | app |
| `client` | one session, one I/O thread | connect, start | tests |
| `io_service_pool` | io_services with one thread each | run, stop, get_io_service (round robin) | server, client, net_manager |
| `pipeline`, `context`, `abstract_handler` | a list of handlers | fire_connect, fire_read, fire_write, fire_close, fire_closed | session |
| `length_field_base_frame_decoder` | its parameters | decode | pipeline |
| `delimiter_based_frame_decoder` | its delimiters | decode | pipeline |
| `timer` | five wheels, a ready list, a map of tasks | add_task, remove_task, detect_timer_list, callbacks | net_manager |
| `net_manager` | Lua state, map of contexts, timer, one mutex | on_connect, on_message, on_passive_clean, write_message, close_connection, add_timer | app, scripts |
| `any`, `data_block`, `raii`, `endian` | none that outlives a call | | everywhere |

How they interact. A server session lives on two io_services, each with one thread: the *I/O
thread* runs the socket's completions and `write()`, the *work thread* runs `fire_read` and so
every handler. `handle_read` posts each arrival to the work thread; a handler's write is appended
to the write buffer on the work thread and announced to the I/O thread by a posted `write()`. The
accept thread starts sessions, and every 30 s closes those with `handle_count_ = 0`, under the
write lock of the server; the I/O thread takes the same lock in `close_session` to let go of a
session. A session stays alive only through the maps of the server and through `self` variables
on a stack: the lambdas capture `&self`, a reference. A client's session has one io_service for
both roles.

What is hard here: the interleavings of those three threads around closing; an unsigned counter
that is decremented before it was incremented; a notification that one thread arms while the
other looks; destruction against operations that are still outstanding; a block list that is cut
back while in use; wheels that lag behind the clock; arrivals in the middle of a decode. Each such
place is a row of `hazards` in PROJECT.json, at its line, with the properties about it.

## Modules

| Module | Models | Instance | Runs |
|---|---|---|---|
| `RWLockSpec` | what a writers-first lock promises | | |
| `WFirstRWLock` | `engine/common/wfirst_rw_lock.h` | `MCWFirstRWLock` | `RWLock` |
| `WFirstRWLockProofs` | theorems about it | | |
| `SessionLife` | what a session promises to who keeps it: closed, then told, once, then let go of | | |
| `Session` | `engine/net/session.h`, and of `server.h` what one session sees | `MCSession` | `Session_*` |
| `SessionProofs` | theorems about it | | |
| `Client` | `engine/net/client.h`: `Session` with a connect, a user and a decoder around it | `MCClient` | `Client` |
| `ClientProofs` | theorems about it | | |
| `Pipeline` | `engine/handler/pipeline.h`, `context.h`, `abstract_handler.h` | | in `Server` |
| `Server` | `engine/net/server.h`, `net_manager.h`, the handler of `app/main.cpp`, for many sessions | `MCServer` | `Server` |
| `ServerProofs` | theorems about it and `Pipeline` | | |
| `ByteQueue` | what a buffer promises: a first-in first-out queue of bytes | | |
| `AsioBuffer` | `engine/net/asio_buffer.h`, `.cpp` | `MCAsioBuffer` | `AsioBuffer_*` |
| `AsioBufferProofs` | theorems about it | | |
| `TimerWheel` | `engine/common/timer.h` | `MCTimerWheel` | `TimerWheel` |
| `TimerWheelProofs` | theorems about it | | |
| `LengthFieldDecoder` | `engine/handler/length_field_base_frame_decoder.h` | `MCLengthFieldDecoder` | `LengthField` |
| `LengthFieldDecoderProofs` | theorems about it | | |
| `DelimiterDecoder` | `engine/handler/delimiter_based_frame_decoder.h` | `MCDelimiterDecoder` | `Delimiter` |
| `DelimiterDecoderProofs` | theorems about it | | |

Operators and actions keep the names of the functions they stand for; `map` in PROJECT.json
gives the lines of each. A definition `Name_Slip` is `Name` with a plausible slip in it: put in
the place of `Name`, it makes one of the properties false, which shows that the property can fail.
They are never part of a specification.

### The lock

Every member function holds `mutex_` from first line to last except inside `wait`, so the code
between two such points is one action. A thread inside `wait` is `waitR` or `waitW`; a
notification, or a spurious wakeup, makes it `wokeR` or `wokeW`, and it must find its predicate
true itself.

*Checked.* `CountersExact` (the counters are the census of the threads),
`NoLostWakeup`, that the lock implements `RWLockSpec` (`MutualExclusion` and `WritersFirst` follow
from that, and are proved), that some waiting writer gets in (`SomeWriterGetsIn`; not each one,
since a newcomer may overtake), and that readers do when writers stop
(`ReadersGetInAfterWriters`). Five threads allow a reader inside, two
writers waiting and two more readers, more than any branch of the code tells apart.
*Fairness.* Holders leave (the guards are scoped objects) and woken threads get the mutex. Nobody
has to ask for the lock.

### The session

A task stays at the head of its io_service's queue until its last line has run; `pc` says where
in it the thread is. Two accesses to something another thread can see are two steps:
`close_if_necessary` is three reads and an act, `read()` is a store and the start of an
operation, arming the notification is two stores, `append` and `notify_write` are three steps.
`write()` is a look at `writing_` and `pending_write_len_`, a store and the start of the operation;
`handle_write` reads `pending_write_len_` itself before it calls `write()`, so that it is read twice
(`PendingTest`, `Write`), with `notify_write` on the work thread between the two or not.
Socket calls of asio are single steps: `cancel` and `close` turn every outstanding operation
into a posted completion with an error, `shutdown` throws where asio's does, and what throws inside
`io_service::run` ends the process, as `LOGF(FATAL)` does. `Freed` says when the last reference is
gone. `SizeMod` stands for 2^64: `pending` is reduced modulo it.

*Checked.* On a server session that stops reading at two unread units (`Session_server`):
`reading_` and `writing_` are true exactly while one operation is under way and there are never two,
whichever thread resumes; `work_read_count_` counts the handlers that have not returned;
`handle_count_` never misses one, and is exact until the session closes; `pending_write_len_` is the
content of the write buffer even while it is wrapped below zero; no written byte is forgotten;
nothing ends half closed but in one way (`NoLimbo`); the end is announced once, after the close and
before the session is let go of: the session implements `SessionLife` (`ImplementsLife`; `Stage` is the
refinement mapping), on which `Server` relies.

The one way is that `handle_write` finds `pending_write_len_` wrapped and leaves everything to
`write()`, which finds it 0 and does nothing (see below). `life.passed` remembers that this has
happened while `close_flag_` was set; `NoLimbo` excuses nothing else, and claims even then that the
write buffer is empty. `CloseCompletes` (`Session_progress`, under fairness) has two parts: whoever asks
for a close gets the socket closed unless `life.passed`, and a session whose socket is closed is
let go of, without exception. `WritesLeave` holds under the same fairness.
*Fairness.* Each of the three threads goes on with what it has; a read ends on a stream that has
ended; a write ends, because the peer reads or goes away. Nobody has to send, write, close or be
idle.
*Bounds.* Two units in each direction: enough to fill the mask and empty
it, and for two writes with a partial one. Progress is checked with a mask of one unit and one unit
received, since TLC needs the whole graph for it. A handler closes at most once.

### The client

`Client` extends `Session` with `Shared = TRUE`: one thread runs the tasks of both roles, and the
session's third thread is a thread of the user, which may write at any time after the constructor and
calls `close()` once. The address may not resolve, the connect may fail, and asio keeps a write
that is begun on an unconnected socket until the connect has ended.

Behind the session sits `length_field_base_frame_decoder`, with the control of its `decode` and
with lengths for bytes: `frame` is the length that the field of the next frame amounts to,
`Header`, `Longest` and `Strip` are `length_field_end_offset_`, `max_frame_length_` and
`initial_bytes_to_strip_`, `Claims` the lengths that the peer may send. `turn` says where decode is
in its loop. It looks for one byte more than the header (`HeaderIn`, the `<=` of line 131); it drops
a frame shorter than the header, or than what is to be stripped, and returns (`DropFrame`); it leaves
a frame that is not whole, or over `max_frame_length_`, in the buffer and returns (`Returns`); it
strips and reads any other, calls the handlers and looks again. Every retrieval may resume reading.

*Checked.* `ReadsOnUnlessHeldUp`: an open client with nothing left to run is being read, unless its
buffer is at the read high water mask and holds no more than a header, or a frame over
`max_frame_length_`, or a part of a frame, or decode has dropped a frame and returned. Each of these
stops a client for good, and each is reachable in the instance; nothing else does: on one thread no
resume is lost, unlike on a server (`Session_lost_resume`). `NothingAfterClosed`: no handler runs after
`fire_closed`, unless the user's thread called `close()`, which may read `work_read_count_` just
before a read is handled. `EarlyWritesLeave`: what is written before the connection
stands goes out with it or ends the process with it, and nothing written stays behind for good.
*Fairness.* As for the session; and a connect attempt ends.
*Bounds.* A mask of one, a header of one, a strip of two and a maximum of three; frames of every length
from zero to four units: too short, shorter than the strip and no more than a header, all strip,
longer than the mask, and too long; three units received, in one arrival or more, so that a whole
frame may lie behind a dropped one, and two written, so that a write may be partial. The two
invariants are proved for any mask, decoder and frames.

### The pipeline

The list is built once and then only read, so that it is a value: `AddHandler` is the four
assignments of `add_handler`, `Sees` the contexts an event comes to when each handler keeps it or, as
`abstract_handler` does, fires it on. `Server` builds the list of `main.cpp` with it and asks it
whether an event reaches the script or the session.

### The server and the script

`Server` has many sessions, each no more than its stage (`SessionLife`) and its count of posted
`fire_read`s, and what is shared between them: the two maps, `context_map_`, the mutex of
`net_manager`, the threads. A critical section of the server's lock is one step but for the sweep
of `handle_check_idle`, which closes sessions one by one and which `close_session` has to wait for
(`Locked`). The mutex of `net_manager` is held through a callback of the script, in which the
script may call back: that locks the mutex again, and the thread is `stuck`. The main thread
calls the script without the mutex, as `main.cpp` does. `close_connection` uses an iterator that
was never set: it does nothing, or takes any context, or ends the process. Whatever else may end
the process (a throw in an io_service, `LOGF(FATAL)`, a script error, two threads in one Lua
state) may do so at any step (`ProcessEnds`).

*Checked.* `ContextsExact`: the raw pointers in `context_map_` belong to sessions that exist, and
a session that is read can be reached; this holds although `close_connection` takes the wrong one.
`InOneMap`: exactly one map keeps each session until it has told its end, with the sweep
moving sessions from one map to the other. `EndedSessionsLeave`: a session whose socket is closed
is let go of, unless the process ends or a callback is stuck. `StuckStopsAll`: once a callback has
locked again, no context comes or goes any more. `FollowsLife`: every session
takes the steps of `SessionLife` one by one, whichever of the threads take them.
*Fairness.* Every thread goes on, but a session that was asked to close need not get there, since
`Session` does not guarantee it (`NoLimbo`): `FireClosed` and `SocketCloses` have no fairness. A
thread that waits for a lock gets it in the end (strong fairness: sweeps are 30 s apart and
callbacks return, unless one is stuck); a posted `fire_read` is run in its turn.
*Bounds.* Two sessions, one I/O thread for both and a work thread for each, one unread arrival at a
time: enough for a session in either map while the other ends, two threads that want the mutex that
a third holds, and both orders of sweep and removal. The theorems below have no bounds.

### The buffer

An iterator is the number of its block. Where the code would walk off the list or use a block that
is gone, `ub` becomes true and nothing follows. `AsioBuffer` implements `ByteQueue` (its content is
the bytes between the two positions) for every sequence of operations, until one is undefined; and
none is while no block was dropped (`SoundUntilShrunk`); blocks of two bytes put every operation at every edge. `GathersAll`: `const_buffer` shows
exactly the content. Not modelled: `write_buffer()` and `read_buffer()`, which nothing calls.

### The timer

A call is one step, since one lock is held around every call, except that callbacks run between
the steps of `do_timeout_callback` and may add and remove tasks. The lists of all wheels are one
function of wheel and place (`Spokes`); `Carry` is what the end of a wheel's turn does to the next
one, and `Cascade` deals its list out again, node by node. Three wheels of two spokes with
granules of 2 ms stand for five wheels of 256 and 64: all of the arithmetic is in `Threshold`,
`Level` and `Spoke`, with intervals below, at and above each threshold and beyond the last wheel.
*Checked.* `OneHome`: lists and map agree, so that what `remove_task` unlinks is linked and alive;
`NoneOverdue`: no task stays in a wheel past its time; `EarlyOnlyByLag`: a task is called before its
time only by less than the time the wheels lagged behind the clock. `MaxLag` is how late
`detect_timer_list` may be: three granules.

### The decoders

Both are modelled behind a session: the I/O thread appends to the read buffer and posts a
`fire_read`, also while a decode runs. In `LengthFieldDecoder` a turn of the loop is a step, and
the bytes of the length field are encoded and decoded as they are on the wire; the instance is one
like the tests', where the field counts the header and the strip is longer than the header, so that
frames are too short, shorter than the strip, empty behind it, and too long. `NoneLeftBehind` says
precisely what may stay in the buffer when all is quiet. In `DelimiterDecoder` the scan for each
delimiter is a step, because bytes arrive between two scans; the first occurrence that `index_of`
returns is the right one at an instant of its scan, since the buffer only grows under it.
`CutAtFirst`: a frame ends where its own delimiter first occurs, and no delimiter that is scanned for
later occurs in front of that end; one that is scanned for earlier may, if it arrived between the scans.
`StreamKept`, `CutAtFirst` and `AllPassedOn` together say which frames come out. `StreamKept` says that
there are cuts in the stream between which the frames and their delimiters lie, one behind the
other, up to what is taken.
*Fairness* (`AllPassedOn`). What was sent arrives and the work thread goes on.
*Bounds.* Three frames; six bytes over three letters, with a delimiter of three that overlaps with
false starts of itself and one that is its end, as `\n` is of `\r\n`.

## What is proved

Every theorem is about the specification that TLC runs, for all values of its constants that the
named assumption allows; TLC evaluates these assumptions in every run.

`SessionProofs`, for every mask, any number of bytes read and written, and any width of
`pending_write_len_` that can hold them and tell a wrap (`SessionAssumption`). The theorems
assume `~Shared`: an I/O thread and a work thread of their own, as every session of a server has
(the server never gives a session one io_service for both). `ClientProofs` is about the session
of a client.

- `SessionTyped`, `SessionFlagsTruthful`, `SessionHandlersCounted`, `SessionHandlesCounted`,
  `SessionPendingExact`, `SessionForgetsNoWrite`, `SessionNeverInLimbo`: the seven invariants of
  `Session_server`.
- `SessionImplementsLife`: every step is a step of `SessionLife` or a stutter of it. `Server`
  takes sessions for no more than `SessionLife`, so that this is the joint between the two.

All follow from one inductive invariant (`IInv`, `Invariant`), since the flags, counters and queues
hold each other up: a flag is right because the operations under way are counted right, these because of
where the threads are, and a thread is there because of a flag. Its parts:

- `IoPlaces`, `WorkPlaces`, `AccPlaces`: which task a thread runs at each of its places.
- `ReadsTrue`, `WritesTrue`, `HandlersTrue`, `HandlesTrue`: what each flag and counter counts, as a sum of
  tasks on the queues, operations outstanding and bits for the running tasks.
- `OneReader`: there is one right to read. It is with a thread that is about to set `reading_`, with the read
  under way, with `handle_read`, or with the armed notification. This is what was missing from
  the flags: that a thread that resumes does not find a read under way follows from no value of
  `reading_`, but from the fact that the notification was armed by the `handle_read` that did not go on.
- `OutBounded`, `OutFits`, `DoneFits`, `PendingShort`: no write is longer than the write buffer, and
  `pending_write_len_` is one short of it between `append` and `notify_write`, if need be below zero.
- `WriteComing`, `WillClose`: who goes on with what is written, and with a close. The one close that
  nobody goes on with is `Left`: `life.passed`, and nothing written that a later `write()` will not find.
- `ClosingKnown`, `LifeInOrder`: everybody on the way to the end has found `close_flag_` set, and socket,
  `fire_closed` and maps follow each other.

The provers count with the terms of these sums and never see the queues: for each action there is
one lemma, whose first steps say what the action does to each term (`NumAppend`, `NumTail`, `NumRepeat`,
for posting, finishing and aborting), and whose other steps are the parts of the invariant, one each.
What an action leaves alone is left alone in one step (`ReadsKept` and its like). TLC has
checked `IInv` on the instance of `Session_server`.

`ClientProofs`, for every mask, any header, maximum and strip of the decoder, frames of any lengths, any
number of bytes read and written (`ClientAssumption`: `Shared`, one thread for both roles; and
`SessionAssumption`), whatever the user's thread does meanwhile:

- `ClientReadsOn`: `ReadsOnUnlessHeldUp`, and `ClientNothingAfterClosed`: `NothingAfterClosed`.

Both follow from one inductive invariant (`ClientInv`, `ClientInvariant`). It can be said of one place of
the thread, one queue and the task at its head, which there is one of only with one thread:

- `ThreadPlaces`, `UserPlaces`: which task runs at each place of the thread, and that the user's thread,
  once it closes, has set `close_flag_`.
- `OneRight`: the right to read is with the connect attempt, a thread about to read, the read under way or
  come back, `handle_read` until it goes on or arms the notification, or the armed notification, and
  with one of them. Unlike `OneReader` of a server it passes through the handler that retrieves, in whose
  middle the same thread resumes reading, and it has no holder after the end of the stream.
- `FlagClear`, `CountTrue`: what a clear `reading_` and the value of `work_read_count_` say of the queue.
- `NothingYet`: before the connect has come back nothing was read, and nobody but the user has closed.
- `EndKnown`: who is on the way to the end has found `close_flag_` set.
- `Over`: once somebody other than the user's thread may call `fire_closed`, or has, nobody reads or will
  hand on what was read, and no handler is left. `NothingAfterClosed` is a part of it.
- `ArmTrue`, `ReadComing`, `DecodeComing`: the notification is armed above the mask only; an open
  connection is being read, is about to be, or has it armed with the mask reached; and a buffer of
  which decode may take something (not `Stays`) will be decoded, unless decode returned behind a frame it
  dropped. With a queue without tasks, these leave the four cases of `ReadsOnUnlessHeldUp`.

There is one lemma per action, or per way through it; TLC has checked `ClientInv` on the instance
of `Client`.

`WFirstRWLockProofs`, for every finite set of threads (`ThreadsAssumption`):

- `LockSafe`: `TypeOK`, `CountersExact` (also as `LockCountsExact`), `MutualExclusion` and
  `NoLostWakeup` always hold. The inductive invariant adds `FlagExact` (`write_flag_` is true exactly
  while a writer is inside): without it a writer could be let in next to another one. The argument is
  one lemma per action, each by what the action does to the census of threads (`MoveOne`, `CensusUp`,
  `CensusDown`).
- `WritersGoFirst`: the action property `WritersFirst`, no reader gets past a waiting writer.
- `LockKeepsItsPromise`: every step of the lock is a step of `RWLockSpec` or a stutter.

`DelimiterDecoderProofs`, for any delimiters, any stream and any maximal length
(`DelimiterAssumption`):

- `DelimiterTypeOK`: `TypeOK`. That decode never takes more than has arrived needs more than the
  types: the occurrence remembered in `best` lies in the buffer (`BestInside`), from the scan that
  found it to the retrieval; and the posted tasks are no more than the bytes that arrived.
- `DelimiterKeepsStream`: `StreamKept`. The occurrence in `best` is one of its delimiter in the
  stream, and the first in what is not taken (`BestFound`), so that what is passed on with its
  delimiter is what is taken; a retrieval is the next cut.
- `DelimiterCutsAtFirst`: `CutAtFirst`. No delimiter that was scanned for after the one in `best` occurs
  before it in what decode would take (`Nearest`); bytes that arrive later lie behind that, and move
  no first occurrence.
- `DecodeHoldsTheThread`: the action property `HoldsTheThread`.

`LengthFieldDecoderProofs`, for any parameters of the decoder and any frames (`DecoderAssumption`: the
field is of 1, 2, 4 or 8 bytes, no claim is more than they hold, and the adjustment does not take
more than the header):

- `LengthFieldTypeOK`: `TypeOK`, whose last part is that the buffer and what is under way are the end
  of the stream (`InPlace`): decode takes from the front and arrivals append, whatever it found.
- `TooLongBlocksForGood`: the action property `TooLongBlocks`. The invariant is that after a decode
  has ended with "too long" the buffer begins with the header of such a frame; arrivals do not
  change the field, because it lies within what is already there (`FieldKept`).
- `DecoderFramesInOrder`, `DecoderNoneLeftBehind`: `FramesInOrder` and `NoneLeftBehind`. decode stands
  behind the first k frames of the stream (`Cursor`): what is in the buffer begins with the next frame,
  so that the length it reads is that frame's (`HeadIs`), and what it passed on is what those k frames
  have to show (`Rank` is how many of them). That a field in either order of bytes is read as it was
  written is `FieldHolds`, from its digits to the base 256. Why nothing stays behind takes the
  reason of the last stop as well (`Idle`): it holds as long as nothing arrives.

`ServerProofs`, first about `Pipeline`, for any list of contexts, without assumptions:

- `NewPipelineInOrder`, `AddHandlerKeepsOrder`: a new list is in order (the two chains of links
  mirror each other from `head` to `tail`, each context once), and `add_handler` keeps it so, with the
  new context behind every other handler.

Then about `Server`, for any number of sessions, any pools and any script (`ServerAssumption`: the pools are
not empty and their threads are distinct):

- `ServerSafe`: `TypeOK`, `ContextsExact` (also as `ContextsStayExact`) and `InOneMap`. The inductive invariant adds where each thread
  can be (`Places`); that the mutex is held by who is in a callback or stuck in one, and nobody else
  (`MutexExact`); that an I/O thread which announces an end is the one the pool dealt to that
  session, whose stage is `told` and whose context is gone once the script is called (`AtTheEnd`); that
  the accept thread puts the context in before the session is `open`, and that the session it closes
  as idle is still in `session_map` (`AtTheStart`); and that a work thread in a handler was counted
  (`AtAMessage`). `AtTheEnd` is why no context dangles: no two threads can be at the end of one
  session.
- `StuckForGood`: the action property `StuckStopsAll`, from `MutexExact`.
- `SessionsGoOneWay`: the action property `FollowsLife`, from `AtTheEnd`.

`AsioBufferProofs`, for blocks of every size, every ratio and every ceiling (`BufferAssumption`: the
ratio is not larger than a block, or `check_to_add_block` would never add one):

- `BufferTypeOK`: `TypeOK`.
- `BufferSoundUntilShrunk`: `SoundUntilShrunk`. What an operation relies on is that `writable_bytes_` is
  above zero before it; that `adjust_buffer` leaves more than it is asked for is the lemma
  `AdjustBufferDoes`, which counts on the list having grown and not shrunk.
- `BufferIsByteQueue`: the buffer implements `ByteQueue`. A position is taken as the number of cells
  before it, so that `adjust_index` is addition (`Further`) and two equal offsets are one cell
  (`Places`). The inductive invariant (`BInv`) says that the write position is `readable_bytes_` behind the
  read position (`Placed`) and in the list, and that the length of the list is `total_bytes_`
  (`Room`). Recycling, growing and shrinking move blocks but carry every byte that a position
  reaches (`Carries`); filling changes the cells behind the write position only (`FillDoes`), and
  retrieving those in front of the new read position only (`UnreadDoes`).
- `BufferGathersAll`: `GathersAll`. Each block between the two positions gives the piece of the content
  that lies in it (`PieceIs`), and the pieces lie end to end from the first byte to the last
  (`Assembles`).

`TimerWheelProofs`, for at least two wheels, of any number and any sizes, any granule, any intervals and
any lag (`WheelAssumption`):

- `WheelsStandOnSpokes`: `TypeOK`; `EveryTaskHasOneHome`: `OneHome`; `NoTaskIsOverlooked`: `NoneOverdue`;
  `EarlyByNoMoreThanTheLag`: the action property `EarlyOnlyByLag`.

All four follow from one invariant (`Wound`): some number c of ticks was made, and

- wheel k has turned `c \div Round(k)` times, where `Round(k)` is the product of the sizes of the wheels
  below it; `spoke_index_` is that, modulo the size of the wheel, and `checktime_` is c granules (`Timed`);
- every node in a spoke is in time (`InTime`): there is a turn of its wheel, still to come, that reaches
  this spoke and ends not after the time of the node, so that it is dealt out again, or is ready, before;
- every node in `ready` is due before the clock plus the lag (`Timed`);
- every task that waits is in one list, once, and nothing else is in a list (`Homes`).

The invariant holds between two calls only. Within a tick the wheels differ: those below k have made
their turn, the others have not (`Turns(c, k)`, `Midway`), and while a list is dealt out its tasks are
taken out of the invariant, to return one by one (`DealKeeps`, `CascadeKeeps`). Each step of the code
has its lemma: `PlaceKeeps` is where the thresholds are needed (`LevelIs`: a task goes to the wheel whose
round its delay exceeds), `CarryKeeps` that the wheel above turns when, and only when, the one below
starts over, `TurnOnKeeps`, `GivenKeeps` and `DetectedKeeps` the rest of `detect_timer_list`.

The stream of a sequence of frames, the value of a field and what is flattened are defined by recursion over
data. The library's induction theorems take an operator that no installed prover can instantiate;
the proofs use its well-foundedness facts instead: a set of naturals that is not empty has a least
element (`Least`), and what fails for no least number fails for none. The turns of `TimerWheel` are
recursive functions too; that they exist is `Recursion`, by the same means.

Only model-checked:
- Every liveness property (`SomeWriterGetsIn`, `CloseCompletes`, `WritesLeave`, `EndedSessionsLeave`,
  `AllPassedOn` and the others): fairness and ENABLED are beyond the prover.
- The flags and counters of a session on one thread for both roles (`Session` with `Shared`): of these
  `ClientInv` has only what its two properties need (`CountTrue`, `FlagClear`).
- `Session_lost_resume`, `Session_buffers`, `AsioBuffer_room`: what they refute is not a theorem; the runs show
  one way to it each.

## Where the code and its words disagree

- `Session_lost_resume`: asio_buffer.h:13 promises that one thread may write the buffer while
  another reads. The mask test and the arming of the notification in `handle_read`, and the
  notification and its removal in `retrieve`, are pairs of steps; between them a resume is lost, and
  an open session never reads again. (With one thread, in a client, it is not: `ClientReadsOn`.)
- `Session_buffers`: asio asks that buffers live until the handler of the operation is called
  (basic_stream_socket.hpp:803). A server session that is closed as idle while its first write starts and
  the peer ends the connection is destroyed before that handler.
- `AsioBuffer_room`: asio_buffer.h:145 says that `adjust_buffer` leaves at least one byte to
  write. With the ratio and the ceiling of the code, the shrink drops blocks in use.

Seen while modelling and not promised otherwise anywhere:

- On a server, a handler may run after `fire_closed` (the lambda of `close_if_necessary` does not
  look at `work_read_count_` again).
- A peer that ends the connection while a handler runs has the socket closed under it; when the
  handler returns, it finds `close_flag_` set and closes again, and the second `shutdown` throws, which
  ends the process (`ClosesTwice` in `Server`). A write that is begun on a closed socket ends it too.
- A closing session can stay open for good. The peer's end of the stream is handled while a write is
  under way that took an append along whose `notify_write` has not run. When the write
  comes back, `pending_write_len_` wraps, and line 275 of session.h finds it above zero; `notify_write` brings it
  to 0; `write()` looks at it again at line 242 and does nothing, and `close_after_last_write` was not called.
  The read has ended, `handle_count_` stays raised, so that `check_idle` does not find the session, and
  nobody closes it, tells its handlers or takes it out of `session_map_` (`life.passed` in `Session`).
- A frame that is too long blocks the length-field decoder for good (`TooLongBlocks`) and keeps the
  delimiter decoder spinning (`HoldsTheThread`; the branch that would drop it is unreachable). With the
  read high water mask reached it stops its session as well, and so do a frame longer than the
  mask, a header without content as long as the mask, and what lies behind a dropped frame
  (`ReadsOnUnlessHeldUp`).
- Every function that scripts may call locks the mutex under which the callbacks run, so that a
  script cannot answer a message from `on_message`; `main.cpp` enters the Lua state without it.
- A write before a connection that is refused ends the process instead of being reported.

## Not modelled, and the plan

What is left of the plan: `Server` composed with `WFirstRWLock` through its promise (`RWLockSpec`) in place of
`Locked`.

The two users of one `asio_buffer` at the grain of loads and stores of the plain
`readable_bytes_` (`asio_buffer.cpp:82, 200`) are a data race, after which the code has no
meaning; what is modelled of it is the race on the notification (`Session_lost_resume`), and otherwise
the count is an atomic. Exceptions that handlers throw end the process wherever they are thrown and
would add the same step to every action. The conversion of a message by its type
(`pipeline.h:43-65`) ends in `append` and `notify_write`, which `Session` has. The timer thread of
`net_manager` takes the mutex for one step that changes nothing in `Server`; the callbacks that
`add_timer` registers are empty.

Left out for good: `any`, `raii`, `endian` (no state), logging but for `LOGF(FATAL)`, start-up
and `stop()`, what scripts compute, third-party code beyond what `session.h` relies on.

## Running

`tlc -config X.cfg M` for each row of `runs` in PROJECT.json, `tlapm M.tla` for the proof
modules. The longest run takes about two minutes.
