# Verification of UtilityServer

UtilityServer is a set of C++ servers (ReportServer, GateServer, GameServer) on
top of a framework, the `Utility` submodule, whose source is not in this
repository. What the repository itself adds, and what can go wrong in ways a
test would hardly show, is ReportServer's **report pipeline**: records that any
thread may insert are collected, rate-limited, posted over HTTP by a pool of
threads, put back when the server refuses them or the post fails, and the whole
of it can be stopped at any time. That is the core of this project.

## Inventory

| component | state | operations | interacts by |
|---|---|---|---|
| `ServiceReportManager` | `m_recv`, two send lists and `m_flag`, `m_count`/`m_last_send`, two object pools, the thread pool, a recursive mutex, a condition variable with its own mutex, `m_runnring` | `init`, `stop`, `run`, `flush`, `report`, `insert`, `retry`, `free` | called by producers; schedules tasks; called back by `Reporter` |
| `Reporter` | `m_buffer` (request body *and* answer), `m_respones`, `m_collection`, keys | `init`, `report`, `on_response` | run by a pool thread; called back by curl; calls `insert`, `retry`, `free` |
| `http_requester` | curl handle, `m_headers` | `init`, `set_response`, `append_header`, `free_headers`, `post` | blocking call of `Reporter`, 5 s timeouts |
| `ReportServer` | io service, dispatcher, config | `OnStart`, `OnStop`, `loadConfig`, create/destroy of log, network, service | attaches and detaches `ServiceReportManager` |
| `GateServer`, `GameServer` | io service, two dispatchers | the same template; `OnStop` is empty | attach a responder |
| `GateResponder`, `ClientResponder`, `User` | none of their own | `GateHandler` reads an id and does nothing | framework callbacks |
| `CommonDefines.hpp` | none | the `MSG_*_UNPACK` macros | handlers |
| `JsonConfig` | `m_root` | `Load` | `loadConfig` |
| `Json::Reader`, `Json::Value` (jsoncpp), as far as they are used | `stackDepth_g`, one counter for every reader of the process | `parse`, `operator[]`, `asInt`, `asCString`, `size` | called by `on_response` in the pool threads and by `loadConfig` |
| `make.run`, `gen_cmake.py` | `make.lock`, a `CMakeLists.txt` per project, a build directory per project and mode, the shell's `PWD` and `OLDPWD` | build, unlock | the file system |
| `sudoku` | candidate bits | a sketch, used by nobody | - |
| `UtilityTest` | tests of the framework | - | documents `safe_stop` and the pools |
| protobuf, sol, lua, mysql(++), curl, the rest of jsoncpp | vendored | - | - |

**What is hard here.** Threads: callers of `insert`, ten pool threads, the
scheduler, the main thread. Two `std::list`s appended under a lock and drained
without one, kept apart only by a flag that is swapped under the lock. A
recursive mutex that `insert` holds while it calls `flush`. A notification
without its mutex, raced by a flag. A callback from inside a blocking post that
puts records back into the pipeline which the failure of the same post then
puts there again. A buffer that is request and answer at once and outlives a broken
answer; a header list that outlives its request. A reader whose failure nobody
asks about, run on whatever the buffer holds, and a global counter under its
recursion. Bodies nearly as long as their buffers, and never checked. A lock
file that is tested and written in two commands, and a script that goes on
after every failure, from another directory.

**What makes each part correct.** *Pipeline*: every collection has one owner;
no unlocked append to the drained list; no write behind a collection; no record
lost, none reported twice unless a post fails after its answer; first in, first
out; a drain that begins below the limit stops at ten sends; `stop` returns and is final; every record is
settled in the end. *Reporter*: a report sends its own headers and body, acts
on its own answer only, and on exactly the records it was told to report again;
to the pipeline it is one post, answered as a whole or not at all. *Reader*: a
text is read as the value it was written from, an integer never as another, and
a part of an answer never as a request for a record of the collection that the
answer does not ask for, unless it ends within a number; a reader that is alone keeps to its limit. *Servers*:
what runs is complete, and things are taken down before what they use. *Build
scripts*: the lock goes when its holder goes, a build is of the mode asked for,
and nobody strays but after a failure.

PROJECT.json lists the hazards line by line with the properties that cover
them.

## The modules

### `ServiceReportManager.tla`

The pipeline: `ServiceReportManager.cpp/.hpp` with the part of
`Reporter::report`, `on_response` and `http_requester::post` that its
correctness depends on. The variables have the source's names where there is
one. Four kinds of threads take steps; what a thread does between two accesses
to state that another thread can see is one step.

| code | actions |
|---|---|
| `insert` (72-77) by a producer / from `on_response` | `Insert`, `Reinsert`, both by `Place`; a collection that becomes full keeps the mutex and enters `flush` |
| `flush`, locked half (34-44) | `FlushRecv` (lock, read `m_flag`), `PushRecv` (append, `malloc`, notify, unlock), `FlushEmpty` |
| `flush(false)`, unlocked half (46-63) | `Window`, `DrainSchedule`, `DrainPop`, `DrainSwap`, `DrainEnd` |
| `run` (27-32) | `RunCheck`, `RunWait`, `RunTimeout`, `RunLoop` |
| pool thread: `report` (66-70), `Reporter::report`/`on_response`, `post` | `TaskStart`, `PostFailed`, `PostAnswered`, `Reinsert`, `Finish` (`free`), `PostBroken` |
| `retry` (79-82) | `RetryLock`, `RetryPush` |
| `init` (11-17), `stop` (19-25) | `InitService`, `StopFlag`, `StopNotify`, `StopJoin`, `StopWorkers` |
| the clock | `Tick` |

The append to a list is split from the reading of `m_flag` so that the
invariants can speak of a thread that is about to append. The front of the
drained list is scheduled in one step and popped in the next: a pool thread may
have sent and freed the collection, and `malloc` handed it out again, in
between.

Abstractions, and why they keep what matters:

- A record is an identity; what is in it, the body built from it and its
  signature are left out. `data[no].ot = time(nullptr)` changes the record, not
  its identity.
- `malloc` returns any free collection. The pools of the code grow; the model's
  `Batches` is finite and `malloc` blocks on an empty pool. The runs have one
  collection more than the records and the filling one can occupy, except the
  two liveness runs, where a shortage would show as a property violated. The
  proofs hold for any set.
- `Reporter` objects are not shared between tasks (malloc before, free after),
  so each worker has the one it uses; what they carry from one report to the
  next is the subject of `Reporter.tla`.
- The rate limit's clock is one boolean, whether `m_last_send + 1 < now`;
  `m_count` is saturated above the limit, because only `==` and `<` are asked.
  The test is `==` behind an increment: a drain entered in a window whose ten
  sends are used up runs to the end of both lists. The code sets no bound on
  it, no doc promises one, and `RatePerFlush` does not speak of it.
- A post that succeeds has had its whole answer processed (`PostAnswered`). In the
  code an empty body, an error page or an unexpected byte behind a piece also make
  it succeed, with nothing handled; `Reporter.tla` has these cases, and finding 2
  is about them. To the pipeline they look like an answer that refuses nothing.
- Producers insert only while the main thread has not begun `stop()`:
  `ReportServer::OnStop` takes down the network first and the service then.
- An exception out of `on_response` (jsoncpp throws on a value of another type)
  ends the process or the task in a way that depends on curl's build; it is a
  final state of `Reporter.tla` and not part of the pipeline's model.
- `inserted`, `settled`, `late_failed`, `late_count`, `at_limit` are history.

`IndInv` and `RecordInv` at the end of the module are the inductive invariants
of the proofs: what holds of the threads and the collections, and what holds of
the records in them (`KnownRecords` says that a position never holds what was
not inserted). They stand beside the properties so that TLC checks them too.

### `WorkerPosts.tla`

`ServiceReportManager` with three history variables on what one pool thread,
`Poster`, posts: which records the answer refused, how often the thread gave
each of them to `insert`, what became of the collection. `Starts` to `Retries`
are `TaskStart`, `PostAnswered`, `Reinsert`, `Finish` and the failures with their
notes; `Elsewhere` is any other step. With them what the thread does is a
`Posting` (`ReportsArePostings`).

**`RunFlushes`.** In the source, `run()` waits and loops; nothing calls
`flush(false)`, so nothing is ever sent. The constant says whether the loop
calls it after a wakeup. `FALSE` is the code as it stands, and the run
`srm_as_committed` shows the consequence. `TRUE` is the only way to drive the
code of `flush(false)`, `report`, `retry` and `on_response` at all, which is
complete and written to be called from there; the other runs use it, and what
they show is what that code does when it is called from the thread it was
written for. The proofs hold for both values. `EveryRecordSettled` in particular is
a statement about that code under this condition, not about the program as
committed, for which finding 1 refutes it.

### `Outbox.tla`

What the service promises to a caller of `insert`: a record is pending from
then on until it has been answered for good, and is never lost; if no post
fails after its answer, it is answered once. `ServiceReportManager` implements
it with `pending` mapped to the records of live positions (`LiveRecords`).

### `Reporter.tla`, `Answer.tla`

`Reporter::report` and `on_response` for one Reporter and several reports.

| code | action |
|---|---|
| `report` up to `post`: the body into `m_buffer`, five headers | `Report` |
| `curl_easy_perform` transmitting | `Send`, of the header list and of `m_buffer` as they are *then*: `CURLOPT_POSTFIELDS` copies nothing |
| `on_response`, once per piece | `OnResponse`: append, look at the byte *behind* the piece to find out whether it was the last, parse what the buffer holds, `insert` what has errcode 3005, reset |
| `post` returning (`free_headers`) and the two ends of `report` | `PostOk` (`free`), `PostFails` (`retry`) |

`Framed` says whether the byte is what the code expects: the line of the empty
chunk behind the last piece, and only there. A server may begin to answer before
the request is sent; then `m_buffer` is overwritten while curl still reads it,
and `RequestIsOwn` says exactly that much: headers always of this report, the
body too unless an answer came first.

What is read from the pieces is a nondeterministic choice, and `Answer.tla`
bounds it: `OfWhole`, `OfPrefix`, `OfRest` for a whole answer, a text that begins
where the answer begins, and one that begins in its middle. A text that ends
within the number 12 asks for record 1: `OfPrefix` has one number cut short
(`Short`). `Answer!Read` is the body of `on_response` from `response["errcode"]`
on. `Says` and `SaysNoMore` state what the value of a whole answer and of a part
of it have in common with the answer. The run `algorithms` shows on its texts and
all their cuts that the reader leaves such values, and that `Read` stays within the
three sets; that it does so from any such value is proved. That the server lists
a record once per answer is an assumption about the server: `again` is a set.

`NoMoreThanRefused` is what is left when the byte behind a piece may be anything,
so that an answer may be parsed several times on its way, or never: refused
records may be dropped (finding 2), but none is reported again for which the
answer does not ask, and none twice, except for a number that a piece cuts short
(`Short`) and the records outside of the collection.

### `Posting.tla`

What the report of a collection is to the rest of the service: one post, answered
at most once and as a whole. Both models of it implement this. In
`ServiceReportManager` (by `WorkerPosts`) `Answer` is `PostAnswered` with the
`Reinsert`s that follow, up to the one whose `insert` and `flush` return last;
`Free` is `Finish`, `Retry` is `PostFailed` or `PostBroken`. In `Reporter`
(`PostsAsPromised`), when framed, it is the last piece: the pieces before it, the
buffer that outlives a broken post and the header list do not show through.

### `JsonValue.tla`, `JsonNumber.tla`, `JsonReader.tla`

`Json::Value` as `on_response` uses it, with its throws on a value of another
type and its null members; `Json::Reader` as a recursive-descent reader over
tokens, with its recovery after an error (`recoverFromError`, to the next token
of a type), the value that a refused text leaves, and the byte behind the text
at which `readArray` looks. `JsonNumber` is its integer decoder, over an integer
type with `Wide` values (`2^64` in the code), with the threshold test as written.

`readValue`, `readObject` and `readArray` call each other. `Parse` defines them
as one recursive function of the call, `read[<<what, p>>]` with the place `p`,
and `ReadValue`, `ReadObject` and `ReadArray` take the calls they make from it:
without `RECURSIVE` operators, so that it can be proved about. Besides the value
`Parse` returns the course of the recursion counter: 0 at the beginning, then what
each `++stackDepth_g` and `--stackDepth_g` leaves it at. An error behind the
increment in `readValue` skips the decrement, as in the source.

`on_response` reads from the value of a text that was refused, so what recovery
leaves matters. `BrokenKeepsRead` says it with a definition of its own (`Before`),
by the value and the place of the break: every array and object keeps what stood
before, the value that the break falls on is null, and nothing that is skipped
behind it gets in. The text may end there, have a token of another type there, or
lack a comma or colon.

### `JsonGrammar.tla`

No part of the code but what it is held to: which value a text of JSON stands for,
by the rules of the grammar. A derivation is a set of rows, each saying that a
value, the rest of an array or the rest of an object is written from one token up to
another, and each following from others by a rule (`IsDerivation`). It does not say
in which order a text is read, and knows neither errors nor recovery nor the
counter. Of several members of one name the last one counts, as in the reader.

### `JsonDepth.tla`

`stackDepth_g` under several pool threads: `parse` sets it to 0 and `readValue`
tests, loads and stores it, each a step of its own. A thread walks the course
that `JsonReader` gives its text. Two threads may count each other's levels, as
the comment at `jsoncpp.cpp:348` admits ("non-reentrant"): a shallow answer may
be refused with a throw and a deep one let through. The properties say what is
left: a thread that no other one parses beside is held to the limit exactly
(`AloneKeepsLimit`) and leaves the counter at 0 or, by the missing decrement, at 1
(`AloneIsBalanced`), whatever the texts before it left in it.

### `ReportBody.tla`, `Algorithms.tla`

`ReportBody` has the lengths, from the shortest to the longest records, of every
text that `report` puts into `m_buffer` and into its local buffer, the terminating
zeros included. The code checks neither buffer; 128 records of full length fit.
`Algorithms` puts the inputs of `JsonNumber` and `ReportBody` under a
specification, one input to a behaviour, so that what is said of them is an
invariant that runs check and theorems state.

### `BuildLock.tla`

Concurrent invocations of `make.run`: the lock's test, the two commands that write
it (`WriteLock` is `date >`, `NameLock` is `echo >>`, which makes the file again if
another invocation has removed it in between), the two
steps in which `gen_cmake.py` rewrites `CMakeLists.txt` (truncate, write), cmake,
`unlock`, and the makes after it; an invocation may be killed at any point, and
`make.run unlock` may be used at any time. `CMakeLists.txt` is shared by the modes, the
build directories are not, and makefiles run cmake again when the file is newer.
`make_lock` is the set of invocations that have written the file there is, so that
`LockHasHolder` can ask each of them for an account: what one killed or failed
invocation left does not excuse another. `made` has the directory and the set-up of
every make, so that `AloneBuildsOwnMode` also sees a project that was left out.

`gen_cmake.py` may fail behind any of its steps (`GenFails`: before it makes the
build directory, before it opens `CMakeLists.txt`, before it has written it), and the
script goes on. If the build
directory is not there, `cd` fails, the command behind it runs in the current
directory, and `cd -` leaves that for the one before: `cwd` and `last` are `PWD`
and `OLDPWD`. From there `gen_cmake.py` is not found, and `rm make.lock` does
not find the lock. `cd`, the command and `cd -` are one step; the last
directory of the caller's shell is `Top` or some other one, which is not another
checkout of this repository.

### `ServerLifecycle.tla`

Start and stop of the three servers on one host: each step of `OnStart` brings
something up, in the order of the source, and may throw; the catch returns
false and takes nothing down, and the process ends. `OnStop` of ReportServer
takes down in its own order, in one try; that of the other two is empty.
`loadConfig` succeeds without a file. GateServer and GameServer want the same
port. That `insert` is not called once `stop` has begun, which
`ServiceReportManager` takes as the guard of `Insert`, is the property
`RecordsEndBeforeService` here. It speaks of the stop only: at the start the io
service and the dispatcher come up before the service, as the source has it, but
ReportServer listens nowhere (its responder is commented out), so that nothing
brings a record yet. That the second server to ask for the port throws is an
assumption about the framework's `start()`, whose result
`GateServer.cpp:50` and `GameServer.cpp:47` discard: if it reported the failure by
its result, `RunsComplete` would not hold. `application::Start` and `Run` belong to the
framework and are modelled from `main.cpp`.

### `SequenceLemmas.tla` and the modules named `...Proofs`

Proofs only; see below. `ServiceReportManagerProofs` and, on top of it,
`RecordProofs` are about `ServiceReportManager`, the latter also about `WorkerPosts`;
`ReporterProofs` is about `Reporter` and `Answer`; `AlgorithmsProofs` about
`Algorithms`, `JsonNumber` and `ReportBody`; `JsonDepthProofs` about `JsonReader`,
`JsonGrammar` and `JsonDepth`; `BuildLockProofs` and `ServerLifecycleProofs` about the modules they are
named after.

### The `MC...` modules

`MCAlgorithms` puts `JsonDepth`, the inputs of `Algorithms` and those of
`JsonReader` and `Answer` under one specification: a behaviour is either the threads
at work or one input. It holds the inverse of the reader (`Written`), how the grammar
derives a value from its text (`Derived`), what is left of a value whose text breaks
at some token (`Before`), the texts of
answers and their cuts, and the texts of the threads: of all texts of up to three
tokens, one for each course of the counter.

`MCReporter` cuts the sets of refused records down to those of two records.
`MCWorkerPosts` joins `WorkerPosts` with `MCServiceReportManager`. That one and
`MCBuildLock` hold symmetry sets and constraints. `FirstFree` (the pool hands out one
chosen free collection) replaces symmetry in the liveness runs; collections are
interchangeable, so no behaviour is lost but by renaming. `BeforeStop` cuts the
behaviours of `srm_settled` at `stop()`, which satisfies its property from
there on, and those of `srm_late`, where late failures are the question; its
invariants are proved with `stop` and all. `LateAtLast` adds to `srm_stop` the late
failure of the last post that `stop` waits for, which three collections suffice for.

## The runs

| run | instance | what it shows |
|---|---|---|
| `srm_safety` | 2 records, 5 collections of 2, 2 pool threads, limit 1 | all safety properties of the pipeline, over init, stop, failed posts, repeats; what `stop` leaves unsent is still collected or queued (`StopKeepsUnsent`); the pipeline implements `Outbox` |
| `srm_late` | 2 records, collections of 2, 1 pool thread, one post that fails after its answer | only the records of that post can be reported twice, and none is lost; the pipeline still implements `Outbox`, the pool thread `Posting`; also `RecordInv`, the second invariant of the proofs |
| `srm_settled` | 2 records, 3 collections | every record is settled unless `stop` comes first |
| `srm_stop` | 1 record, 2 pool threads, the last post may fail after its answer | `stop` returns; also `IndInv`, the invariant of the proofs |
| `srm_as_committed` | as above, `RunFlushes = FALSE` | **violated**: a closed collection is never sent |
| `reporter_framed` | 3 records, up to 4 pieces, 3 reports | with the framing the code expects, exactly the right records are repeated, whatever broke before; requests are not mixed; Reporter implements `Posting` |
| `reporter_unframed` | 2 records, up to 3 pieces, any byte behind a piece | **violated**: a collection is freed without its refused records being reported again |
| `reporter_any` | records 1 and 10 of a collection of 10, up to 3 pieces, 2 reports, any byte behind a piece | no record is reported again that the answer does not refuse, or twice |
| `algorithms` | two threads with two texts each, limit 2; values of up to three levels, numbers of up to 5 digits in 2^13 values, answers of up to two items and all their cuts, bodies of 1 and 128 records | the reader is the inverse of the writing, which is by the grammar, leaves of a broken text what stood before the break, decodes integers exactly, and makes of an answer what `Reporter` says; the counter serves a lone reader; every body fits |
| `build_lock` | 2 invocations, 3 projects, 2 modes, one kill, two failures, one unlock | a lock is orphaned only by the kill or the failure of one who wrote it; an undisturbed build makes every project in its own mode; only a failed invocation is away from the top |
| `servers` | 3 servers, each started up to twice | the log system outlives what logs, a running server is complete, records end before the service does |
| `build_overlap` | 2 invocations | **violated**: two invocations run together |

*Why the bounds are enough.* Two records and collections of two give full and
partial collections; a limit of one is reached by the first send, so that a
drain ends by the limit, by the swap and by exhaustion within few steps; two
pool threads race each other's `free`, `retry` and `insert` while the scheduler
drains; five collections let every record travel in one of its own, with the
one being filled and one more. Three reports of one Reporter are one that
breaks, one that meets what is left of it, and one that ends well after both;
three projects are a first, a middle and a last one for a failure to fall on,
and two invocations are what `AloneBuildsOwnMode` and `LockHasHolder` speak of
at a time (both are proved for any number). `Wide` = 2^13 puts both
thresholds of the integer decoder among the numbers of four digits, with five
to overflow. The two records that an answer lists
are 1 and 12 (1 and 10 in `reporter_any`), of which one is the beginning of the other. The two sizes of a body are the ends of a range in which lengths
grow with the size. The texts of the threads are all that up to
three tokens, well formed or not, can make of the counter. Every mutant of the code in
PROJECT.json is found within these bounds.

*Fairness.* `Fairness` gives the scheduler, each pool thread and each caller
inside `flush` strong fairness: they are threads that the system runs, and a
mutex that is released again and again is got in the end. The clock advances
(`WF(Tick)`), which stands for both time limits; `RunTimeout` is part of the
scheduler's steps: `wait_for` returns after a second. A `stop` that has begun
goes on. Producers are not obliged to insert, nor the main thread to stop.
`srm_stop` needs nothing of the server: a post ends, in whatever way, because
of curl's timeouts. `srm_settled` assumes in addition `ServerAccepts`: a pool
thread that posts again and again is in the end answered without a request for
a repeat. Without it a server that always says 3005 keeps a record for ever.

## What is proved

Every safety property of the passing runs is proved for every value of the
constants, but for three: that the reader is the inverse of the writing (`RoundTrip`),
of which the reader's half is proved, what it leaves of broken texts
(`BrokenKeepsRead`) and what it makes of cut answers (`ReadsAsReporterSays`; see the
end of this section).

### The pipeline's threads and collections

`ServiceReportManagerProofs` proves, for every set of records, collections,
producers and workers, every `MAX_COLLECTIONS` and every limit, both values of
`RunFlushes` and any number of late failures:

- `Invariance`: `Spec => []IndInv`
- `Typing`, `RaceFreedom`, `Ownership`, `Capacity`, `RateLimit`: the invariants
  `TypeOK`, `SendlistRaceFree`, `BatchOwnership`, `RecordsFit`, `RatePerFlush`
- `Fifo`, `Quiet`: the action properties `SendlistsAreFifo`, `StoppedIsQuiet`

The only assumptions are `ConstantsAssumption`: the thread sets are disjoint,
the null values are not members, and the bounds are naturals.

*The argument.* None of the properties is inductive alone. That no thread
appends to the drained list needs that it holds the mutex from the moment it
reads `m_flag` (`LockInv`), since the swap needs the mutex as well. That a
collection has one owner needs the stale front of the drained list to be
counted out (`Drained`), which in turn needs that nobody but the scheduler
changes that list (`SendlistRaceFree`) and that it is not empty while the
scheduler is between its two steps (`PcInv`). That `insert` stays inside
`m_data` needs that a full `m_recv` exists only under the lock (`SizeInv`). So
`IndInv == TypeOK /\ PcInv /\ LockInv /\ SizeInv /\ BatchOwnership`, proved one
conjunct and one action at a time (`TypeStep`, `PcStep`, `LockStep`,
`SizeStep`, `OwnStep`), the last on the lemmas about queues without repeats in
`SequenceLemmas`. `Fifo` follows because a push goes to the end of the
concatenated lists, a pop takes from the front, and a swap happens only when
the drained list is empty. `RateLimit` and `Quiet` need one more conjunct each
(`RatePerFlush` itself; `StopInv`).

### The pipeline's records

`RecordProofs` goes on from there, under the same assumptions:

- `RecordInvariance`: `Spec => []RecordInv`; from it `NothingLost`,
  `NothingTwice` and `StopKeeps`, the invariants `NoRecordLost`,
  `NoDoubleReport` and `StopKeepsUnsent`
- `ImplementsOutbox`: `Spec => RecordsInOutbox`, the refinement of `Outbox`
- `NothingSent`: with `RunFlushes = FALSE`, the code as it stands, whatever was
  ever inserted is in `m_recv` or on a send list, no pool thread ever has a task
  and nothing is settled: finding 1 without the bounds of its run

*The argument.* A step does one of five things to the positions at which records
wait to be answered (`Effect`): nothing; a new position for a new record; a
record moved from one position to another, as `Reinsert` does; some positions
answered; or the positions of a collection brought back, by a post that fails
after its answer. `EffectStep` says which, action by action, using of `IndInv` that a collection has one owner and that what is in a worker's
hands is in nobody else's. `RecordInv` and the refinement then follow from the
five cases alone, without the actions. `StopKeeps` adds that after `stop` no
worker has a collection in hand (`StopInv`), so that a live position can only be
in `m_recv` or the queue (`RestWaits`); `NothingSent` has the same from
`NeverDrained`: a scheduler that never enters `flush(false)` gives the pool
threads nothing.

`WorkerImplementsPosting` (`PostsSpec => ReportsArePostings`) proves of any pool
thread (`PosterAssumption`) that its reports are `Posting`s. The notes constrain nothing
(`NotesOnly`), so that `IndInv` holds beside them; `NotesInv` says that `given` is
what was refused and is not in `again` any more. What could go wrong is that a
thread whose answer is processed gets back into `insert` before it ends its report:
`StaysOut` goes over all steps of all threads for that. Together with
`ImplementsPosting` below, the model of one `Reporter` and the model of ten threads
of them meet in one specification.

### `Reporter`

`ReporterProofs` proves, for any size, number of pieces and number of reports,
from `ReporterAssumption` and `AnswerAssumption`:

- whatever the byte behind a piece is: `Typing` (`TypeOK`) and `OwnRequest`
  (`RequestIsOwn`), by `RequestInv`: between posts `m_respones` is empty, and the
  header list too unless the post threw; during one they are of this report
- with the framing that the code expects (`Framed`): `RefusedOnce`
  (`AgainExactlyOnce`), `OwnAnswer` (`OwnAnswerOnly`) and `ImplementsPosting`
  (`PostsAsPromised`), by `FramedInv`: `m_respones` is the pieces so far, and
  `insert` has been called for nothing before the last piece and for exactly the
  refused records after it. `FramingSuffices` proves with the same invariant the
  property that `reporter_unframed` refutes: the byte is all that finding 2 needs
- `NeverMore` (`NoMoreThanRefused`), whatever the byte behind a piece is and however
  often an answer is parsed on its way. The invariant is that nothing of the
  collection has been given to `insert` as long as the buffer begins with the first
  piece of the answer (`AnyInv`); once it has been parsed, that piece is gone, and a
  text from the middle of an answer is no request
- `ReadIsReading`: what `on_response` makes of *any* value, `Answer!Read`, is a
  reading, and asks for a repeat only on an error beyond 2000
- `WholeIsRead`: from the value of a whole answer (`Says`) it takes exactly what
  `OfWhole` says, for any number of results in any order and with any other
  members; this is the choice that `Reporter` makes at the last piece
- `PartIsRead`: from the value of a part of an answer (`SaysNoMore`) it takes what
  `OfPrefix` says, however many results are left and whichever of them throws

### Numbers and bodies

`AlgorithmsProofs` proves `AlwaysExact` and `AlwaysFits`, the invariants
`NumbersExact` and `BodyFits` for any inputs of the right types
(`AlgorithmsAssumption`), from two theorems about the operators. `BodiesFit`: every
text of every report fits its buffer, for every size from 1 to `MAX_COLLECTIONS`
and every length of its records (the run takes 1 and 128). `NumbersAreExact`:
`Exact(negative, digits)` for every sign, every sequence of digits and every `Wide`
that is even and at least 20 (`JsonNumberAssumption`; below, the threshold would be
0 and a leading zero would make a double of a small number). It is an induction over the digits with the
invariant `Sound`: as long as the value has not been given up it is what the
digits so far stand for and fits; once given up, they stand for too much, or will
with the next digit (`OneMoreDigit`).

Induction and recursion over a sequence are lemmas of `SequenceLemmas`:
`LeastOne` and `SetInduction` follow from the library's theorems that `<` is
well-founded on `Nat` and what that means for sets (`WFMin`), which take no
operator as a parameter, and `Recursion`, that a function defined along `1..n` by
recursion exists, from `SetInduction`. With it the definitions `Value` and `Numeral`
are shown to satisfy their own equations (`ValueIs`, `NumeralIs`).

### The reader and its counter

`JsonDepthProofs` proves of `JsonReader`, for every text whatever its tokens,
`ParseBalanced`: the reader ends, takes the counter up and down by one and never
below where it began, and leaves it there or, having refused the text, one higher.
`Parse` defines its function by recursion, which TLA+ reads as the choice of some
function that satisfies the equation; that there is one is half of the theorem. It
is an induction over the places from the end of the text (`Recursive`):

- every call of `readObject` or `readArray` at a place asks only for calls at later
  places (`CalledAgrees`), so that a function which is right behind a place extends
  to it, and one exists for the whole text;
- if those later calls leave the counter balanced, so do `readValue` around them
  (`ValueBalanced`), a member and the members behind it (`ObjectBalanced`), an
  element and the elements behind it (`ArrayBalanced`), with all their errors and
  recoveries. That courses may be put behind and around each other is in
  `ThenCourse` and `DownCourse`.

`DerivedIsRead` says what the reader is for: every text from which the grammar of
`JsonGrammar` derives a value, however long, however deep and with whatever names,
is accepted, read as that value and to the token behind it, with the counter back
where it was. It assumes of the derivation only that each row follows by a rule; the
run checks (`RoundTrip`) that the texts written from values have one. The
induction is again over the places from the end of the text (`CallsRead`): if the
calls behind a place read what is derived there, so do `readValue` (`ValueRead`),
`readArray` (`ElementsRead`) and `readObject` (`MembersRead`) at it. Two things in the
code that could be wrong show as steps of it: the look of `readArray` at the byte
behind a `[` takes no array that has elements for an empty one (`NotEmpty`), and a
member with an empty name, behind which `readObject` accepts a `}` after the comma,
does not change how the next member is read. With `WholeIsRead`, a whole answer of
the grammar, whatever its layout, is taken for exactly what it says. That the
reader refuses everything else is not claimed: it does not look behind the value, and
accepts some texts that are no JSON.

On `ParseBalanced` rest, for any threads, any texts and any limit, `Typing` (`TypeOK`),
`LimitKept` (`AloneKeepsLimit`) and `CounterBalanced` (`AloneIsBalanced`). The
invariant is that the counter of a lone reader is the depth of its text at its
place, and that it was within the limit up to there (`AloneInv`); it holds from the
start of the text because `parse` sets the counter to 0. Of the texts
`JsonDepthAssumption` asks no more than that they have a length.

### The servers

`ServerLifecycleProofs` proves `LogUnderAll` (`LogOutlivesItsUsers`),
`RunningIsComplete` (`RunsComplete`) and `ServiceOutlivesSources`
(`RecordsEndBeforeService`) for any number of starts. What the orders of the
source's steps have to satisfy is in three lemmas (`LogComesFirst`,
`LogGoesLast`, `ServiceGoesAfter`); the invariant says which steps are behind a
server (`Begun`, `Ended`) and uses of the tables only these.

### `BuildLock`

`BuildLockProofs` proves, for any number of invocations, modes and projects and
any number of kills, failures and unlocks, from `BuildLockAssumption`:

- `Typing`: `TypeOK`
- `Away`: `AwayAfterFailure`
- `LockHeld`: `LockHasHolder`
- `OwnMode`: `AloneBuildsOwnMode`

`Away` needs more than where an invocation is: as long as its `gen_cmake.py` has
not failed, every project it has behind it has a build directory, so that the
next `cd` succeeds (`AtHome`: `OnTrack` with `MadeOrAhead` and `MadeAhead`, which
say of the projects behind and ahead of the loop what is made). `LockHeld` rests
on it, since only who is away leaves the lock. `OwnMode` adds, for an invocation
that is alone, what its `CMakeLists.txt` and its build directories are set up
for at every command (`AloneInv`: `Undisturbed`, over `BuiltOrAhead` in the
first loop and `BuiltAhead` in the second), and what its makes have built and have
ahead (`OwnMade`).

### Model-checked only

- Liveness (`StopReturns`, `EveryRecordSettled`), which TLAPS cannot prove.
- `RoundTrip`, `BrokenKeepsRead` and `ReadsAsReporterSays`, which relate the reader to the texts that
  are written from values and answers. Values nest to any depth and `Written` is
  defined by recursion over them; induction over such data needs a theorem with an
  operator as its parameter. What is proved begins where the value is at hand
  (`ReadIsReading`, `WholeIsRead` and `PartIsRead` take any value, one that `Says` or
  says no more than an answer), or goes by the places of the text (`ParseBalanced`,
  `DerivedIsRead`). What remains for TLC is that the writing follows the grammar,
  how deep the counter gets on the way, what is left where a text breaks
  (`BrokenKeepsRead`), and that the value of a cut text says no more than the text
  (`SaysNoMore`).
- That a text from the middle of an answer asks for no record (`OfRest`), which is
  part of `ReadsAsReporterSays`.
- `QueuedIsSent`, `RefusedIsReportedAgain` and `OneAtATime` are the properties that
  the findings refute.

The proofs changed the model in three respects. `OfPrefix` had said that a part of an
answer asks for no record but the answer's; stating `PartIsRead` for collections
of any size showed that this holds only as long as numbers have one digit, as
those of the run did, which now has one of two. And where `JsonValue`, `Answer` and
`JsonReader` had a `CASE` whose guards overlap, they now have a chain of `IF`s:
TLC takes the first arm that applies, but what TLA+ says of such a `CASE` is a
choice among the arms, and the code's `switch` and early returns have an order. And
`JsonDepth` had assumed of its texts that they go up and down by one; now they are
what `JsonReader` makes of any tokens, and the assumption is a theorem.

## Findings

1. `run()` never calls `flush(false)`: nothing that `insert` collects is ever
   sent (`srm_as_committed`).
2. `on_response` takes the byte behind its data for a sign of the end; with
   another framing, refused records are dropped (`reporter_unframed`).
3. `make.run`'s lock does not keep invocations apart (`build_overlap`).

Some behaviours contradict no line of the repository, and are no findings:

- A record may be reported twice when a post fails after its answer; `srm_late`
  shows that nothing worse happens.
- An answer that begins before the request was read overwrites the body that is
  being sent (`RequestIsOwn` has the case).
- Readers in two pool threads disturb each other's recursion limit.
- After a failed `gen_cmake.py` the `CMakeLists.txt` of another mode may be
  configured and made, and the lock may stay.
- The links of a release build name the libraries of the debug build
  (`proj_linux_conf.json`); no property, as what is linked is not modelled.

## Not modelled, and the plan

Most of the repository's lines are vendored libraries (protobuf, mysql++, sol,
lua, curl, jsoncpp) and their tests; its own program is a few thousand lines, of
which the modules map those that keep state or decide something. The rest:

- The characters of a report's text, its encryption and signature: data. Their
  lengths are in `ReportBody`, under the assumptions that ids and the key have at
  most 32 characters, as those of the service do, and that `si`, `di` and `pi`
  are terminated within their arrays.
- `curl_slist_append` failing for want of memory, and curl's other options.
- In `JsonReader`: comments, the characters of strings (one that `decodeString`
  refuses is the token "escape"), fractions, the distinction of the two double
  decoders. Where a member name repeats and its second value cannot be read, the
  model leaves null and not what the first value was. The writers and `OurReader`
  have no caller.
- `gen_cmake.py`'s merging of configurations is a concatenation of four texts:
  any model of it would be its own specification. Its failures and the order of
  its writes are in `BuildLock`. `make.run`'s menu only picks the arguments.
- `MSG_STREAM_UNPACK` and its relatives are expanded nowhere in the repository;
  what they would work on belongs to the framework.
- `sudoku`: `main` returns 0, nothing uses the candidate set. `UtilityTest`
  exercises the framework, which is not there.
- The `Utility` submodule (thread pool, data pools, service manager, network)
  is empty in this commit; it is external, modelled from how it is used.
- Responders and `User`: no state, empty handlers. Vendored libraries but for
  the named parts of jsoncpp and what curl does to `Reporter`.

The model is complete as far as the plan goes, and so are the proofs that the
plan listed: the pipeline, its records and `Outbox`, `Reporter`, the two models of
a post and `Posting`, the reader's counter, numbers and bodies, the servers, the
build scripts. What could still be proved is what the reader makes of a text of the
grammar that is cut off: that each value on the way to the cut is the beginning of
the one that the whole text stands for. It would take `SaysNoMore` from the run to
every answer, by the same induction as `DerivedIsRead`.
