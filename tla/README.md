# A verification of the ArchLab tools

`cse141pp-archlab` measures students' programs.  A client (the `runlab`
command or the gradescope front end) hands a submission to a cloud pipeline: a
blob store holds the files, a datastore holds one record per job, and a
publish/subscribe topic carries job ids to runner daemons.  A daemon runs the
job in docker and stores the result, which the client picks up.  The programs
that are measured link `libarchlab`, which times regions of their code, reads
PAPI's, PCM's or a Pin tool's counters, puts the machine in a known state
through a kernel module, and writes tables with its JSON library.

This directory models the parts of the system whose correctness depends on who
does what when, or on what is done with every value of a kind; checks them with
TLC; and proves the central invariants with TLAPS.

Paths of Python files are relative to `src/archcloud/src/ArchLab/`, those of
C++ files to `src/libarchlab/` or `src/pin-tools/`.

## 1. Inventory

| component | code | state | operations | hard about it |
|---|---|---|---|---|
| job client | `Runner.py:509-627` | where it is in its call, the record it polled, the one an update pulled | write blob, push record, publish, poll, time out and cancel, confirm, fetch | its clock races the daemon; its two updates race everyone's |
| job daemon | `runlab_daemon.py:157-328` | `job_id` and `job_data` (kept across iterations), `result` | pull, check, grab, run, re-check, store, complete, two error handlers and an outer one | faults in every step, two daemons with one job, crash after the acknowledgement |
| host control | `runlab_daemon.py:35-137`, `hosttool.py` | `status`, the status file, `keep_running_flag`; the host table of `hosttool top` | heartbeats, commands, `set_status` | three threads share `status`; heartbeats arrive late |
| datastore | `BaseDataStore.py`, `LocalDataStore.py`, `GoogleDataStore.py` | job id -> record | push, pull, query, update | `update` is a pull and a put of the whole record, without a transaction |
| blob store | `*BlobStore.py` | name -> contents | write, read | a write can fail for an unknown owner |
| publish/subscribe | `BasePubSub.py`, `LocalPubSub.py`, `GooglePubSub.py` | topics, subscriptions, their messages | construct, publish, pull, delete | Google's is at least once; the emulation is directories and renames with no locks |
| `labtool cleanup` | `labtool.py:160-191` | the answer of its queries | cancel jobs that are too old | acts on records that have changed since |
| measurement library | `archlab.cpp`, `DataCollector.*`, the collectors | the interval being timed, the stored ones, columns, tracked statistics | command line, track, start and stop, write tables | the order of calls; counters found by position |
| PAPI, PIN, PCM collectors | `PAPIDataCollector.cpp`, `PINDataCollector.cpp`, `PCMDataCollector.cpp` | the events added, PAPI's own event sets | add, start, stop, report | two lists that must stay in step |
| cache simulator | `dcache.H`, `dcache_archlab.cpp` | cache objects, counters, profiles, registers | every load and store, start, stop, reset | no locks; `reset` deletes what others use |
| block tools | `trace_archlab.cpp`, `catmix.cpp` | instrumented code, file, counters | compile, execute, flush, switch on and off | what is compiled when; overlapping routines |
| `cache_control` | `cache_control.c`, `DataCollector.cpp:307-420` | region, class, device, cdev; open files | init, exit, open, flush; `pristine_machine` | unwinding a failed init; files never closed |
| JSON library | `json.hpp` (vendored) | a document, a parser's stacks | read and write text and four binary formats, edit, point, patch, flatten, compare | boundaries of widths, callbacks, failures in the middle |
| local run | `Runner.py:642-863`, `runlab.py` | temporary directory, subprocess, result | clone, run under a timeout, collect outputs, classify | timeout against exit |
| `runlab_proxy` | `runlab_proxy.py` | a lock file per user | rate limit | read and write of the lock file are apart |
| displays and text tools | `labtool.py`, `hosttool.py ls`, `csv*.py`, `src/tools/` | none that others read | print, transform | sequential |

How they interact.  Client, daemon and cleanup share only the datastore, the
blob store and the topic; nothing locks a record, so each of the pulls and puts
is a point where the others can run.  The daemon's commands and heartbeats use
two more topics of the same publish/subscribe layer.  The emulated services
(`LocalPubSub`, `LocalDataStore`) are used by the tests and by single-host
deployments, with several processes on one file system.  A measured program
calls libarchlab in its own thread.  Under Pin, the library calls the tool's
replacements for its stubs (`pin_get_tool` and the functions it returns) while
the tool's analysis routines run in every thread.  Several measured programs
share the kernel module, the prefetchers and the clock of one machine.

What makes each of them correct:

* client, daemon, datastore, blob store: a job is run once, not lost, its
  result is stored before anyone is told to fetch it and never changes
  afterwards; a cancelled job stays cancelled; every call of the client ends;
* publish/subscribe: a subscription delivers each message published to it once,
  whoever pulls, joins, leaves or is killed;
* host control: a host that was told to reload or to shut down says so to its
  supervisor, and `hosttool` does not show an older status after a newer one;
* measurement library: intervals do not overlap, a count is reported for its own
  interval and under its own name, a row does not change once written;
* cache simulator and block tools: what is reported is what a cache of that
  size, or a count of the instructions executed, would have been;
* `cache_control`: what was not done to the machine was said not to be done,
  and a load of the module that failed leaves nothing behind;
* JSON: what is written is read back; what is not a document is refused; a
  failed operation loses nothing.

`PROJECT.json` lists the components with their status, and 40 hazards at their
lines: the races, faults, stale reads and boundaries that tests would hardly
reach, each with the properties that would catch it going wrong or the reason
why none does.

## 2. Modules

| module | models |
|---|---|
| `ArchCloudJobs` | client, daemon, datastore, blob store, job topic and cleanup, for any number of clients and daemons |
| `JobService` | the abstract service that `ArchCloudJobs` implements |
| `LocalPubSub` | the emulated publish/subscribe layer, one system call per step |
| `PubSub` | the abstract service that `LocalPubSub` implements |
| `HostControl` | the threads of one daemon that share its status, the commands they obey, the heartbeats they send and `hosttool top` |
| `Measurement` | a program that links libarchlab, with any of its collectors |
| `Pin`, `CacheSet`, `FifoSet`, `DCache` | the cache simulator: what Pin tools share, a set of the cache, the queue it implements, the tool |
| `BlockTools` | the trace and the instruction mix tools |
| `PinTools` | a program under one of the tools |
| `CacheControl` | the kernel module, `pristine_machine` and its parts, for any programs |
| `JsonValue` | JSON values: numbers of 64 bits, bytes, the order of values |
| `JsonLexer`, `JsonParser` | a text's tokens; the parser with its handlers, token by token |
| `JsonSerializer` | `dump` |
| `JsonWriter`, `JsonReader` | CBOR, MessagePack, UBJSON, BSON |
| `JsonEdit`, `JsonPointer` | operations that change a value; pointers, flatten, patch, diff, merge |
| `Json` | a program that reads a document and changes it |
| `*_proofs` | theorems |
| `MC*` | symmetry sets, inputs and the small systems for TLC |

### ArchCloudJobs

A client submits one job under a fresh id, so `Jobs` names both.  The control
of each process is a program counter (`cpc`, `dpc`, `kpc`) whose values are the
points of the code where another process may run, which are the calls to the
three services.  A `ds.update` is two steps, `...UpdatePull` and a `...Put`
that replaces the whole record (`BaseDataStore.py:38-54`); `cbuf`, `dbuf` and
`kbuf` hold the record in between.

| action | code |
|---|---|
| `Subscribe`, `WriteSubmission`, `Push`, `Publish`, `Appear` | `Runner.py:530-580` |
| `PollCompleted`, `PollError`, `PollTimeout` | the polling loop, 583-625 |
| `ClientUpdatePull`, `CancelPut`, `ConfirmPut`, `Fetch` | 594-617 |
| `Boot`, `Pull`, `PullNothing`, `PullRaises` | `runlab_daemon.py:181-211`, `BasePubSub.py:114-133` |
| `Check`, `DaemonUpdatePull`, `GrabPut`, `RunJob`, `Recheck` | 213-248 |
| `Bundle`, `WriteResult`, `FinishPut` | 251-288 |
| `ErrorPut`, `Fault` | the handlers, 289-311 and 322-327 |
| `StartCleanup`, `Query`, `NextStale`, `CleanupPut`, `EndCleanup` | `labtool.py:171-191` |
| `Crash`, `KillClient`, `Restart`, `Trouble` | the environment |

Abstractions.  A record keeps the fields that some step reads or some property
relates: `status`, `submission_status`, `runner_host` and whether there is a
`zip_archive` key.  A submission is "written or not", a result is the status in
it.  `cur` is `job_id`, which survives an iteration: an empty pull resets it, a
pull that raises does not.  `age` is the time since submission in the three
steps the code can tell apart (below the limit, above it for `cleanup`, above
it for the client's own clock, which starts later).  `cancelled` is a history
variable.  A daemon that leaves its loop restarts at once; being down is being
in `boot` for as long as one likes, since no fairness is assumed of it.

### JobService

The promise to a user, in 20 lines of actions: a job is taken once, leaves at
most one result, which does not change, and a user who is handed a result is
handed that one; a job may be lost.  `ArchCloudJobs!Service` is the refinement
mapping: a job is *finished* when its result blob is stored, *running* when a
daemon is between pulling it and finishing with it, *waiting* when its message
is in the subscription, and *lost* otherwise.

### LocalPubSub

A subscription is a directory, `none`, `bare` (made), `empty` (its topic file
created) or `topic` (filled).  A file is a triple of its subscription, its
message and the number of renames it went through, which stands for its fresh
`tmp_` name.  Publishers and pullers construct the subscription they share (or
a private one), publish one message, or pull for ever.  Every system call is a
step: `isdir` twice, `mkdir`, `open` and `close` of the topic file, `listdir`,
each `rename`, `open`, `remove`, and the two phases of `rmtree`.  `made`,
`delivered`, `killed` and `owed` are history variables.

`PubSub` is what a subscriber may rely on, with no files or claims: a message
waits in a subscription, is taken by one of its readers, which takes no more
than it asked for, and is returned by that reader; it is lost only with a
reader that dies or a subscription that is taken down.  It says nothing of
order or of redelivery.  `Promise` maps the directories to it: a message waits
while it has a file under any name (`Waiting`), is taken by the puller that has
removed the file (`Removed`), `Returned` once a pull has returned it, and lost
when it has been made and is in none of these places (`Vanished`).  What a
message says is no part of it: `pulled_is_published` below is about that.

### HostControl

Three threads (`main`, `heart`, `head`) call `set_status` and `send_beat`, so
these are actions of a thread: `Assign` (the global status), `OpenFile` (which
truncates), `WriteFile` (the buffered text, at the start of the file, on
closing), `Stamp` (the time in the heartbeat), `Send` (the status in it, and
the publication).  `Raise` is an exception of the publish/subscribe layer: it
ends the heart or the head, which handle none, and in the main thread the
daemon, the job or the `finally` clause, depending on who called.

| action | code |
|---|---|
| `StartThreads`, `Loop`, `PullNothing`, `PullJob`, `EndJob`, `Finally`, `Leave`, `Exit` | `runlab_daemon.py:190-328` |
| `ObeyExit`, `ObeyStop`, `ObeySendHeartbeat` | the commands, 112-137 |
| `TopReceive`, `TopForget` | `hosttool.py:194-226` |
| `Tick` | time that passes without a heartbeat |

The file's contents are a pair: the status at its front, and the longer one
whose rest follows it.  `beats` is the set of published heartbeats, any of which
may reach top at any time and any number of times, which covers late, repeated,
reordered and lost ones.  `told` (the status that a command wrote when the main
thread could no longer replace it), `changedAt` and `late` are history.  Left
out: `--debug`, which ends the daemon on exceptions, the job's id in the status,
and the clocks of different hosts, which are taken to agree.

### Measurement

One program, one thread, one collector (`engine`).  What a counter reads is
symbolic: `<<"count", e, i>>` is the number of events `e` in interval `i`, so a
value under a wrong name or from a wrong interval shows.  `events` is the list
that `PAPIDataCollector` remembers, `papi` what PAPI has been told: nothing in
the code keeps the two together but the order of its calls.

| action | code |
|---|---|
| `AskForHelp`, `MissingStatSet`, `UnknownEngine`, `MakeCollector`, `ParseStat`, `ParseTagsAndCalcs` | `archlab_parse_cmd_line`, `archlab.cpp` |
| `StartTiming`, `StopTiming` with `BeginInterval`, `EndInterval` | `DataCollector.cpp:112-140`, the intervals' `_start`, `_stop` in the collectors |
| `MakeTimer`, `TimerGo`, `CallReturns`, `LeaveScope` | `ArchLabTimer`, `DataCollector.hpp` |
| `TrackWhileRunning`, `RegisterStat`, `ClearTrackedStats`, `SetCpuClockFrequency` | `track_stat` and its like, called after start-up |
| `WriteCsv`, `WriteJson` | the tables, `DataCollector.cpp:200-305` |
| `CannotOpen` | a table whose file cannot be opened, `DataCollector.cpp:276-299` |
| `Return`, `Ended` | the end, by `exit`, `abort` or return |

`Exit` ends the program wherever the code calls `exit` or `assert`: with a
second start, a stop without a start, an event that PAPI refuses, a file that
cannot be opened.  `cleared` and `tampered` are history: somebody cleared the
list of events, or did so or added to it after an interval began.

### The Pin tools

`DCache` cuts the analysis routines at each read and write of what threads
share: `Begin` (which reads the pointer to the cache object), `Hit`, `Miss`,
`PickWay`, `ReplaceWay` for each line of an access, `ReadCount`, `WriteCount`
for the counter of the cache and `ReadProfile`, `WriteProfile` for that of the
instruction.  `StartCollection`, `StopCollection`, `ReadRegisters`,
`ResetDelete`, `ResetNew` are the calls of the library, in the main thread.
The cache objects are the places in memory where one may be: `reset` deletes
the present one and makes a cold one, at the same address or another, and a
routine goes on with the address it read, whatever is there by then.  `deleted`
says that the pointer is to a deleted cache, between the two steps of `reset`.
History: `queue` is what `FifoSet` prescribes; two routines overlapped
(`collided`), a routine and a reset did (`disturbed`), either (`raced`); the
threads in `stale` work on a cache that has been deleted; `broken`, one of them
touched it.

`BlockTools`: `Enter` a trace (Pin compiles it first if its code cache does not
have it, which is when the tool decides what to insert), `Continue` in it,
`ReadCounter` and `WriteCounter` of catmix, `Quick` (trace_archlab's switch),
`LoadImage`, `Flush` of the code cache, `FiniBlocks`.  A file is the sequence
of its records, or garbled if two threads wrote at a time.

### CacheControl

`Insmod`, `AllocRegion`, `CreateClass`, `CreateDevice`, `AddCdev` and `Rmmod`,
`DelCdev`, `DestroyAll` are the module's init and exit with every outcome of
the kernel's functions; `Enter` and `Step` are `flush_caches`,
`pristine_machine`, `disable_prefetcher` and `slow_down` in each program, one
system call or command at a time; `EndProgram` closes its files.  `flushed` and
`disturbed` are history.

### The JSON modules

Bytes are numbers, strings sequences of them, and an integer of the library is
its eight bytes (`Word`, `Complement`), so that the widths and the two's
complement are those of the code.  A double is its bits; the shortest decimal
of a double (Grisu2) is a constant, `Decimals`.

| module | code (`json.hpp`) |
|---|---|
| `JsonValue` | `json_value`, the comparison operators |
| `JsonLexer` | `lexer::scan` and what it calls, 5600-6800 |
| `JsonParser` | `parser::sax_parse_internal` and the three handlers, as a machine that is given a token at a time: `Begin`, `Parse`, `Result` |
| `JsonSerializer` | `serializer`, with the UTF-8 decoder |
| `JsonWriter`, `JsonReader` | `binary_writer`, `binary_reader` |
| `JsonEdit` | `push_back`, `insert`, `erase`, `update`, `swap`, `operator[]`, `at`, `value` and so on |
| `JsonPointer` | `json_pointer`, `flatten`, `unflatten`, `patch`, `diff`, `merge_patch` |
| `Json` | `Take`, `Accepted`, `Refused`: a text is read; `Load`, `Make`: a document is there; `TakeAway`, `TakeOut`, `AddAt`, `AddMember`, `Combine`, `Point`, `ApplyPatch`: it is changed, at any of its elements |

An operation returns a value and an error number, the one of the library's
exception, 0 if there is none, or `Abort` where it runs into an `assert`.

## 3. Runs

Passing runs:

| run | system | what it shows |
|---|---|---|
| `two_jobs` | 2 clients, 2 daemons, one fault anywhere, all ages | jobs are not mixed up, doubled or forgotten (`OneRunner`, `NoJobAbandoned`), a COMPLETED record agrees with the stored result (`RecordAgreesWithResult`), what a user got does not change (`ResultFinal`), and the pipeline implements `JobService` |
| `hostile` | 1 client, 2 daemons, every pair of lost acknowledgement, fault, crash and cleanup | a client misses its result only if an operator cancelled its job; settled jobs are only reopened after a cancellation (`NoRevival`); the invariant the proofs use is an invariant |
| `ends` | 1 client, 2 daemons (one with `--debug`), any one trouble, under fairness | each call of the client ends (`ClientEnds`); without crash and fault every record is settled for good (`JobSettles`) |
| `shared_subscription` | 2 pullers and 2 publishers on one subscription, 2 kills, 3 renames | nothing is delivered twice (`AtMostOnce`), nothing is lost but with a killed puller (`NothingLost`), a complete topic file stays complete (`TopicStands`), and the directories implement `PubSub` (`ImplementsPubSub`) |
| `private_subscription` | a shared puller and two private ones, one of another topic, that come and go | a publication reaches every subscription that was complete when it began, or ends with an exception (`ReachesAll`) |
| `host_control` | one daemon, two commands, one exception, heartbeats at two times, one watcher, under fairness | a command's status stays in the file (`CommandReported`), at most one job is taken after a command to stop (`OneMoreJob`), top never goes back to an older status (`TopCatchesUp`), and a daemon told to stop ends although its other threads may be dead (`StopEnds`) |
| `measurement` | every engine and twelve command lines, two intervals, one call that changes what is tracked | the inductive invariant; a count is reported for its own interval, and under another event's name only after a clear, or if it is a rapl count that a core event tracked since has shifted (`TrueCounts`); until something is cleared or tracked late, a row has every statistic that is tracked and registered (`RowsComplete`) and what was written for a finished interval never changes (`RowsFinal`) |
| `pin_tools` | two threads, three accesses of four kinds, two places in memory, any number of resets; two traces of blocks, four executions, one flush | as long as neither routines nor resets overlap, sets are queues of the last misses (`HoldsTheLastMisses`); as long as no reset comes during a routine, accesses are counted once, or less if routines overlap (`EachAccessCountedOnce`); only such a reset leads to a deleted cache (`DeletedOnlyByARace`); traces replay (`TraceReplays`), catmix's counts are how often each category was executed (`CountsMatch`) |
| `cache_control` | two programs, two cores, one load with every failure | the inductive invariant (`IndInv`); `pristine_machine` did it or said that it did not (`PristineOrSaid`) |
| `json_library` | texts of up to six tokens with seven handlers, 100 inputs, 130 documents, two edits | the parser accepts the grammar and nothing else and builds what the text says (`ParserAgrees`); text and binary forms are read back and cut ones refused (`TextRoundTrip`, `BinaryRoundTrip`); a difference applied gives the second document (`PatchOfDiff`); `FlattenRestores`, `OrderIsTotal`, `FailureLosesNothing` |

Runs that find what the repository says of itself to be false:

| run | statement | what happens |
|---|---|---|
| `failed_means_failed` | "{job_id} failed.  Job failed" (`runlab_daemon.py:302`) | a pull that raises marks the previous job as failed |
| `stats_reported` | "Which stats to collect" (`archlab.cpp:49`) | a statistic of the cache simulator is asked for under a name that ends in `_STAT` and its count is stored under another, so its column stays empty |

Bounds.  Two daemons are enough for every race over one job, and two jobs for
every confusion between jobs: a daemon keeps one job and at most one leftover
`job_id`.  `MaxTroubles` bounds crashes, faults, lost acknowledgements and
cleanups together; with two, each can hit the recovery from another one.
`MaxAge = 2` lets time pass every limit.  `hostile` runs with two of the three
outcomes of a job: no step tells a timeout from an error, and `two_jobs` and
`ends` have all three.  Three renames let a message be taken over twice, once
between its `open` and its `remove`, and then taken again; two kills let the
second puller die as the first did.  Symmetry is used over clients, daemons
(where none has `--debug`), publishers, shared pullers, cores and places in memory, and only in
runs without liveness properties.  The runs of `LocalPubSub` switch off the
deadlock check because each of its processes may end: a publisher after its
publication, any process with the exception that loses a race.  In
`HostControl` the clock stops at three and heartbeats made from then on are
left out: two times are enough for an old and a new heartbeat, and the third
lets top forget a silent host, which may then be entered anew.  Two commands let
the second overtake the consequences of the first.  Its run, that of the Pin
tools and that of the JSON library have no deadlock check because the daemon,
the program and the sequence of edits end.

Two intervals and one change let a list differ between an interval and its
report, and an interval be measured after another was written; two core events
and one of rapl give each list an offset to confuse, and lines that ask for a
core event or a rapl event only leave one to be tracked later, behind either.
Three ways and three
accesses, one of them over two lines, evict from a set of which the cold line
was the last; two places in memory give a new cache the old address or another.
Four executed blocks let a
compressed block come back after a flush.  Six tokens reach a container
in a container with a member before and after it (the second opening begins
past the first member).  Two edits let the second one act on what a failed one
left behind.  Documents have a number on both sides of every limit of every
format, and lengths at each limit up to 256.  Encodings are cut at each of the
first and the last eight places.

Fairness.  `ClientFairness`: the scheduler runs a client that was started, and
time passes.  `DaemonFairness`: a daemon that took a job goes on with it (each
of its calls returns or raises).  Nothing is assumed of an idle daemon, of one
that is down, of cleanup, of messages.  So `ClientEnds` holds with all daemons
dead, by the client's own timeout, and `JobSettles` needs only that somebody's
last write settles the record.  In `HostControl` the main thread is scheduled
and each of its calls ends (a pull has a deadline, a job a time limit); nothing
is assumed of the other threads, of commands or of top.  The other modules have
no liveness: a measured program owes nobody its next call.

## 4. Where code, comments and tests disagree

Besides the two runs above, modelling met these; the models do what the code
does.

* `runlab_daemon.py:241-244` reads the record again "to make sure it wasn't
  canceled or completed by someone else"; between that and the write at 281 are
  three writes to the blob store, and a cancellation in between is overwritten.
* "Someone else grabbed" a job that is not SUBMITTED (`runlab_daemon.py:220`):
  the status is read at 215 and written at 227, and two daemons that hold a
  redelivered message both pass.  `OneRunner` therefore speaks of messages
  delivered once.
* "Creating a subscriber here fixes this" (`Runner.py:539-542`): in the
  emulation another process may have made the directory but not yet its topic
  file, and the publication skips it or raises.
* `assert m in missing` (`BasePubSub.py:210-211`): a publisher's file is there
  before its contents (`LocalPubSub.py:76-77`), and a puller may read it empty.
* "Illegal status ... should be in {valid_status}" (`runlab_daemon.py:71`): two
  threads may have the status file open, and the shorter status is written over
  the front of the longer one.  `CommandReported` says which statuses survive.
* `cache_control.c` tests `class_create` and `device_create` for NULL and
  `cdev_add` for -1; the kernel returns error pointers and other numbers, so
  init goes on after a failure.  Exit then follows an error pointer.
* `clear_tracked_stats` (`PAPIDataCollector.cpp:129-132`) clears the lists of
  events, but not PAPI's event sets: what is tracked afterwards is counted behind
  the events that PAPI still has, and reported with the counts of those.
* `PAPIDataCollector.cpp:200-208` looks for the rapl counts of an interval
  behind as many counts as there are core events when the interval is reported.
  A core event that was tracked after the interval takes the first of its rapl
  counts for its own, and shifts the others.  The tracking is legal: `track_stat`
  of `archlab.h` has no condition.  `TrueCounts` has these two cases, and no
  others.
* `dcache_archlab.cpp:400-409`: `reset` deletes the cache whoever is using it.  A
  thread in an access goes on with the deleted cache, or with a new one at its
  address: it adds a count of the time before the reset, or writes back a
  counter that it read before.
* `json.hpp`: `patch` on a member of a primitive runs into `assert(false)`
  (20313-20315); `std::stoi`'s exceptions leave `patch` as they are, although
  only the library's are documented; `flatten`'s example "always true"
  (20147-20149) is false for an object with the member "0" and for empty
  containers; a parser callback is to work "as if the discarded value was never
  read", but discarded members stay in place, as discarded values, in the objects
  and arrays that the callback does not end itself; a BSON document that is cut
  before the terminator of a string's value is returned as a discarded value,
  without an exception (3714); `update` turns null into an empty object before it throws;
  `json(-1) == json(UINT64_MAX)`, by the cast in `operator==`, and integers
  beyond 2^53 compare as the double they are rounded to: `OrderIsTotal` is of
  numbers that the casts leave as they are.

## 5. Proofs

The `_proofs` modules hold for any values of the constants that satisfy the
named assumptions of their modules, which are: that `None` is none of the
values it is told apart from, that outcomes are run statuses and commands'
statuses valid ones, that the kinds of processes are subsets of the processes
(and pullers are not publishers), that nobody else uses the fresh name of a
private subscription and a shared one is pulled one message at a time, that the
names of events are not those of other statistics, tags or attributes, that a
clock frequency differs from the other, that a cache has a power of two of sets
and of bytes in a line, that the loop over the lines of an access ends, that
categories of instructions are indices of catmix's arrays other than 0, and
that the bounds are numbers.

`ArchCloudJobs!IndInv`, the inductive invariant, is a conjunction in the order
in which its parts need each other:

1. `TypeOK`, where the type of `store` says that no update puts a record it
   failed to pull.  Not inductive alone: `FinishPut` needs a record and a
   result.
2. `RecordsExist`: whoever is about to put has pulled something, and a message
   or a daemon never knows of a job without a record.  It needs the client's
   order push, then publish.
3. `OneDelivery`: without a redelivery, a message is in the subscription or
   with one daemon; before its publication it is nowhere.
4. `ArchivesBacked` and `ResultsHeld`: every copy of a record, stored or in
   somebody's hands, that has a `zip_archive` belongs to a job whose result is
   stored.  It has to speak of all copies because any of them may be put.
5. `CompletedHasArchive`: a COMPLETED record has an archive, unless cleanup
   cancelled the job or its client is past polling.

Together they give `OneRunner` and `LostResultOnlyIfCancelled`.  One lemma per
part shows that a step keeps it, with one step of the proof per action.

`JobService_proofs!JobsInv` is about what becomes of a job.  Without a lost
acknowledgement a job has at most one holder for ever, also after the holder is
done (`OneHolder`; `job_id` survives an iteration), so a result is written once
and by its only runner (`RunOnce`), and while somebody may still work on a job
only a cancellation settles its record or makes the client believe so
(`OpenCancelled`, which has to speak of the client that has seen COMPLETED and
not yet confirmed).  `Agrees` is then inductive, and so are `NoRevival` and
`ResultFinal`, two properties of steps.  `Kept`, which needs none of this, says
who will change a record that is not settled (a SUBMITTED one the subscription
or a daemon before its first update, a STARTED one a daemon after it) and gives
`NoJobAbandoned`, under redelivery too.  From the same invariant, every step
maps to a step of `JobService` or to none, if acknowledgements are not lost
(`ImplementsServiceCorrect`): only
`Publish`, `Pull`, `WriteResult` and the client's four ways to end move a job
forward, and a daemon that lets go of a job without a result loses it.

`LocalPubSub!IndInv`: a message has one file per subscription (`OneFile`);
a publisher has not yet written where it still has to go (`Unvisited`); a
message is unpublished, or a file, or in the hands of one puller, or delivered
(`OnePlace`); a puller holds a file name only while it works on it
(`HoldsFile`); one process writes a shared topic file (`OneCreator`).  They give
`AtMostOnce` for any takeovers and kills, and the action property `TopicStands`.
`DeliveryInv` adds that pullers claim files of their own subscription only
(`Claims`) and that a pull which may raise has removed nothing: a shared one
takes one message at a time, and nobody else claims a private one's files
(`Undisturbed`); hence `NothingLost`.  Only its owner writes a private topic
file (`OwnerWrites`), so what a publication owes at its beginning is complete
until its owner goes (`StillOwed`) and is ahead of it or reached (`Ahead`);
hence `ReachesAll`.

That the directories implement `PubSub` (`ImplementsPubSubCorrect`) needs two
invariants more: a publisher writes only where its topic is (`Addressed`), and
a pull that goes on has removed fewer messages than it was asked for (`Batch`).
`CreateFile` is the service's `Send`, `Remove` its `Take` (the file was the
only one of its message, by `OneFile`, in the puller's own subscription, by
`Claims`), `Return`, `Crash` and `Leave` are `Return`, `Die` and `TakeDown`; one
lemma each.  All other steps leave every message where the service sees it: a
rename keeps the file's message, and a pull that raises had removed nothing
(`Undisturbed`).  The theorem is for any number of publishers, pullers and
subscriptions, shared and private, and for any batch size of the private ones;
the run checks it on a shared one.

`HostControl!IndInv`: which thread is in a call of `set_status`, with what
(`Calls`); no time is ahead of the clock (`ClockLeads`); a heartbeat dated after
the last change has the current status (`BeatsCurrent`, which rests on the order
of the two reads in `send_beat`), from which `TopCatchesUp` follows for any
order of arrival; once a command's status stands, the flag is down and the main
thread is past its last pull (`ToldStands`); between the head's truncation and
its write the file holds nothing longer than the head's status (`HeadAlone`),
hence `CommandReported`; with the flag down there is no new pull (`LateOnce`),
hence `OneMoreJob`.

`Measurement!IndInv`: nothing is stored while the command line is read
(`MeasuredLater`); at most one interval is open, the last, and intervals do not
overlap (`OneAtATime`); until a clear, the collector's lists are PAPI's
(`InStep`).  An interval holds counts of its own only, and until a clear they are
those of the first `c` core events and then of the first `r` rapl events of the
present lists, for some `c` and `r`: the lists only grow (`CountsOwn`, kept by
`OwnKept` and `TrackGrows`).  So whatever `build_json` finds at a place is a
count of the interval, and either of the event it is looked up for, or of a rapl
event at a place below the number of core events, which is how `Shifted` is
defined (`PapiTrue`); a later step may make `cleared` or `Shifted` true and never
false (`ReportableKept`), and no other collector writes under an event's name
(`BuildJsonAt`, from `NamesApart`): hence `TrueCounts`, which has no condition on
what the program calls.  If nothing was tracked since, an interval holds the
count of every event (`CountsInStep`, from the lemma `ReadInStep` about the
concatenation of the two sets' counts), which the rows need: `RowsComplete` and
`RowsFinal` are of programs that cleared nothing and tracked nothing late.  Under any name all collectors report the
same thing for one interval (`ReportIs`), which gives `RowsComplete`, as only
the PAPI engine has events (`PapiOnly`).  `RowsFinal` needs that what a map
holds under a name that is reported is what is reported now, or undefined
(`KvFinal`); `RowsFinalCorrect` assumes that attributes, tags and calculations
have other names than what is reported (`AttributesApart`): one that has not is
overwritten by the first table.

`CacheControl!IndInv`: an open file keeps the module live and its device there
(`InUse`); what the module has registered at each point of its life
(`NothingLeft`); what a caller has done and said when it is at each step
(`Progress`).  They give `PristineOrSaid`, for any number of cores, programs and
loads.  That an open file keeps the module is the kernel's doing, and an
assumption of the model.

`DCache_proofs!IndInv`: the pointer is to a deleted cache between the two steps
of `reset` only, and a routine has a deleted cache only if it overlapped with a
reset (`Deleted`), from which `DeletedOnlyByARace` follows; as long as routines do
not overlap, one that runs is the only one (`Alone`), and as long as they do not
overlap with resets, none runs during one (`Calm`); then what a routine read of
its set is still so when it replaces a way (`Missed`), in a cache at a fresh or a
used address.  With the lemma `RoundRobin`, that replacing the way at the index
that counts down is inserting into a queue, for any number of ways, it gives
`HoldsTheLastMisses`.

`DCache_proofs!CountInv` is about the counts, which overlapping routines falsify:
one that reads a count, is overtaken and writes it loses the other's.  The proof
says what was *counted* apart from what is *stored*: some `d` is at least what
is stored and at least what any routine has read and not yet written, and equal
to both as long as nothing overlapped; and what is in `d` together with the
routines that have begun and not yet counted (`Pending`) makes up the accesses
tracked.  A write raises `d` by one, whatever it does to the store, so the
invariant holds under any overlapping; `d` is not a variable of the model but
the witness of an existential formula, one per object and one for the profiles.
Both of the property's halves follow: never more than was accessed, and as much
if no routines overlapped (`EachAccessCountedOnce`).  All this holds until a
reset overlaps with a routine: then the counters of a new cache may get a count
that belongs to the old one, and the invariant, like the property, says nothing.

`PinTools_proofs!MixInv` is the same for catmix.  An instruction that was
executed in an instrumented block is in the product of a block's counter and the
places of its list (`Tally`, a set of triples that `GlobalStats` counts), or in
the count of predicates, or in a call that a thread has yet to make (`Due`, a
set too); the three sizes add up to what happened (`Accounted`), where the
counters are bounded by witnesses `d` and `e` as above (`MixedBy`).  It needs
that instrumentation refers to a counter that exists and has the list of its
own block, in the code cache as well as in a thread that has left it
(`MixShape`), which is why a flush of the cache does no harm.
`HeldIsExecuted`, that a predicate that held was that of an executed
instruction, is needed for the rows: `DumpStats` skips a category of which the
other two counts are zero.  When the program ends no call is due, hence
`CountsMatch`.

`PinTools_proofs!TraceInv`: the numbers in the file are defined once and are at
most `count_trace` (`Numbered`, which needs that the count survives flushes); a
call that is yet to be made, in the cache or in a thread, shows its block or
names a number already defined as its block (`TraceShape`); each record of an
execution shows the block executed in its place (`Replayed`).  `TraceReplays`
says so of the file at any time, not only of a complete one.

Both hold of the block tools alone; a program under any tool implements the
simulator alone and the block tools alone (`ImplementsDCache`,
`ImplementsBlocks`), so all five invariants hold of the whole.

Model-checked only: the JSON library (`ParserAgrees`, `TextRoundTrip`,
`BinaryRoundTrip`, `FlattenRestores`, `OrderIsTotal`, `PatchOfDiff`,
`FailureLosesNothing`), whose modules are recursive over values, out of the
prover's reach as are inductions over data; and the liveness properties
(`ClientEnds`, `JobSettles`, `StopEnds`), out of its reach as is `ENABLED`.
Every other property that a passing run checks is a theorem.

## 6. Not modelled

* Local runs (`run_submission_locally`, docker and native), `runlab.py` and the
  gradescope front end: what they decide depends on processes and files of the
  host; the daemon's model has a run's outcome as an input.
* `runlab_proxy`'s rate limit: one read and one write of a lock file per
  request, which two requests may interleave; it has no further state.
* Torn reads of the emulated datastore (`LocalDataStore.py:46`): the model has
  the atomic datastore of the cloud deployment.
* `QDCache.py`, `calc.py`, the csv and JSON command line tools, the displays and
  `CPUFreq`: sequential, and nothing reads their output back.
* The direct mapped sets of `dcache.H`, which no tool uses, and the text of the
  tools' reports.
* The forced deletion of a shared subscription (`Runner.py:635`, with
  `BasePubSub.py:137`), at the end of a client that ran a daemon of its own in a
  namespace of its own: `TopicStands` and `NothingLost` are of subscriptions that
  nobody deletes by force.
* The client's giving up after 20 pulls of a record that does not appear
  (`Runner.py:573-575`): in the consistent datastore of the model the record that
  was pushed is there.
* An `ioctl` that fails ends the program (`DataCollector.cpp:368-371`); the kernel
  module never refuses the command that the library sends it.
* The registers of `trace_archlab` and `sample_archlab`, which answer register 0
  to any name and have no name for it: no property is about them.
* PCM's programming of the counters, PAPI and Pin themselves, the kernel:
  modelled from how the code uses them, as far as it does.
* In `json.hpp`: iterators as objects, conversions from and to C++ types, input
  adapters, allocators and Grisu2.
* Owners, urls, file names and zip contents are data that no modelled step
  branches on, except that a bundle can fail with a `UserError`.
* Examples, benchmarks, tests and build files are not part of the running
  system; tests were read as statements about it.
