# A verification of ssl-autoref-evaluation in TLA+

The repository evaluates automatic referees of the RoboCup Small Size League.
A *logger* records the packets of vision, of the human referee box and of the
automatic referees; an *evaluator* reads a log, finds the events each referee
called and compares every autoref with the human; *playback* sends a log's
packets again. A few shared files hold their sockets, locks and helpers. This
directory holds TLA+ models of them, TLC configurations that check the models on
small instances, and proofs that TLAPS checks for every instance. Source paths below are relative to `src/src/` of the
checkout (`evaluate_main.cpp`, ...).

## The system

| part | state | operations | interacts with |
|---|---|---|---|
| evaluator: loading (`evaluate_main.cpp` 167-259) | `referee_map`, `referee_ports`, `referee_commands`, `referee_events` | `ReadUDPMessageWrapper`, `LoadRefereeCommands` | reads the logger's file |
| evaluator: indexing (261-295) | `referee_events`, the last STOP | `IndexRefereeEvents` | the lists of the loader |
| evaluator: matching (297-307, 451-526) | two indexes, two flags, the evaluations | `Before`, `Overlaps`, `EvaluateAutorefs` | hands a list to the next part |
| evaluator: annotations and scores (86-153, 309-449) | the `.eval` file, the evaluations | `MergeEvaluations`, `LoadEvaluations`, `SaveEvaluations` | a human edits the file between runs |
| logger (`logger_main.cpp`) | `run_`, `log_file_`, `logging_mutex_`, one thread and one socket per stream | `main`, `SigIntHandler`, `LoggerThread` | kernel sockets; writes the log |
| playback (`playback_main.cpp`) | the times of the last record and the last publication | `PlayLogFile`, `PublishMessage` | reads the log, sends datagrams |
| sockets (`shared/netraw.*`) | file descriptor, counters | `open`, `addMulticast`, `send`, `recv`, `wait`, `close` | kernel |
| locks (`shared/pthread_utils.*`) | a mutex; `ThreadSafe`: a value and the flag `locked_` | `ScopedLock`, `ScopedTryLock`, `ThreadSafe` | the logger uses `ScopedLock` only |
| files and time (`shared/misc_util.*`) | a `FILE*` | `ScopedFile`, `GetTimeUSec`, `FileExists`, `StringPrintf` | everybody |
| echo programs (`netraw.cpp` 228-290) | a line, a message, the counters of two sockets | `EchoServer`, `EchoClient` | each other, through the network |
| helpers (`shared/util.h`) | a caller's arrays and their sizes | `gcd`, `lcm`, angles, `alloc_array`, `resize_array`, `alloc_array2`, ... | no caller but for `mzero` |

What is hard in each part, and what makes it correct:

* **Loading.** UDP repeats, loses and reorders packets, several referees appear
  in any order, referees restart. Correct: each referee has its slot, the human
  the first; each slot holds the newest commands of its referee in order.
* **Indexing.** A one-pass state machine over commands. Correct: the event list
  is the one the command list determines, ordered in time, with counters that
  identify its events.
* **Matching.** A loop in a loop with two indexes that move under different
  conditions, over unsigned times. Correct: every autoref event is judged once,
  a human event is in at most one evaluation, matches agree in command and
  time, misses are reported before what follows them, and the pass ends.
* **Annotations.** State that survives runs, kills and a human editor. Correct:
  a half-written file is never taken for an annotated one, an inconsistent one
  is not used, a consistent one is not overwritten, a run ends.
* **Logger.** Threads that share a file, a signal, a main thread that does not
  wait. Correct: no interleaving breaks a record, nothing received is lost or
  doubled, records are out of order by little, SIGINT ends the process, and
  nothing but the shutdown may crash it.
* **Playback.** Signed differences of unsigned times, a pause of 32 bits, a clock
  that is read at two places and may be set, a log that may be torn or still
  growing. Correct: the records of the log in its order, each once, as far apart as
  they were received, and an end.
* **Echo programs.** A reply may be late, lost or doubled, and the client pairs
  lines and replies by order alone. Correct: a reply is that of its line unless
  one was late or doubled, the two fall apart by a bounded number, the client never
  waits for good.
* **Locks.** `ThreadSafe` writes its flag after unlocking. Correct: updates are atomic
  however the lock was taken, a failed DCHECK has that write as its cause, nobody
  waits forever.
* **Helpers.** Signs, halves, turns and early returns. Correct: the mathematical
  function where the comment names one, and no element of an array lost or out
  of bounds.

`PROJECT.json` lists under `hazards` the places where each of these can go
wrong, line by line, and the properties that would notice.

## The modules

| module | models | how |
|---|---|---|
| `RefereeEvents` | the data: commands, events, `Before`, `Overlaps` | timestamps wrap at `TimeModulus` (2^64 in the code) |
| `RefereeLog` | referees, network, log, `LoadRefereeCommands`, `IndexRefereeEvents` | one action per record read and per command indexed; phases `record`, `load`, `index`, `done` |
| `Scoring` | what `EvaluateAutorefs` promises: both lists walked side by side, a verdict per step | abstract: no loop, no flags, no indexes into memory |
| `Matching` | `EvaluateAutorefs` for one autoref | `j`, `k`, `match_found`, `evaluated` are the code's variables; `pc` tells the `for` head, the `do` body and the judgement behind it apart |
| `LogFile` | what a log is to a reader: whole records, and at most one without its payload | abstract: `Logger` implements it, `Playback` reads it |
| `Logger` | `logger_main.cpp` with the mutex, the sockets and the kernel | one action per blocking call, lock operation and `fwrite`; the threads' program counters are `main` and `thread` |
| `Annotations` | `MergeEvaluations` over many runs | one action per line read or written, one that kills the run, and the human's edits |
| `Playback` | `PlayLogFile` on a `LogFile`, a clock, pauses and delays | one action per `fread`, one for `usleep`'s argument, one each for publishing and for remembering the times; extends `LogFile` |
| `Echo` | `EchoServer`, `EchoClient` and two `Net::UDP` sockets | one action per socket call; the network loses, repeats and reorders |
| `ThreadSafe` | `ThreadSafe<T>`, `ScopedLock`, `ScopedTryLock` | one action per lock operation and per access to `value_` or `locked_` |
| `NumericUtil` | `gcd` step by step; `lcm` and the angle functions as operators | C's division, an `int` of `IntModulus` values, `Circle` units in a turn |
| `Arrays` | the array functions and a caller with a list and a table | one action per call; arrays are sequences or `NULL` |
| `MC*` | small instances | logs, streams and memory contents as definitions |
| `MatchingProofs` | theorems about `Matching` | ends with the refinement of `Scoring` and the loop's variant |
| `RefereeLogProofs` | theorems about `RefereeLog` | first the slots and the loader, then the indexer, then what was issued |
| `LoggerProofs` | theorems about `Logger` | the file and the refinement of `LogFile`, then order and loss |
| `PlaybackProofs`, `ThreadSafeProofs`, `AnnotationsProofs`, `EchoProofs` | theorems about the module of that name | |
| `UtilProofs` | theorems about `NumericUtil` and `Arrays` | of `NumbersSpec` and `ArraysSpec`; `MCHelpers` runs them, and `ThreadSafe`, one after the other |

`RefereeLog` and `Matching` share the data of `RefereeEvents`: `Matching` takes
lists from `EventLists` (its `LogsAssumption`), and `EventsIdentified` of
`RefereeLog` says that the loader makes such lists (theorem
`EventsAreIdentified`). That the lists are ordered in
time, which `MCMatching` builds in, is `EventsOrdered` (theorem
`EventsStayOrdered`). `Annotations` takes
from `Matching` that every evaluation has the value `kUnknown` (the constructor
drops its argument, line 101) and that no two evaluations hold the same events.

Two refinements tie modules together. `Matching` implements `Scoring`
(`ImplementsScoring`): the two lists map to themselves, `judged` to the autoref
events with a verdict, `passed` to `k`, the verdicts to the evaluations without
their values. `Logger` implements `LogFile` (`ImplementsLogFile`): each pair of
chunks is a record, and a last odd chunk is the half record. `Playback` extends
`LogFile`, so that what it is shown to do on any such log, growing or torn, it
does on what the logger leaves behind or is still writing. The evaluator's
`ReadUDPMessageWrapper` is the same function as playback's; `RefereeLog` lets a log
end anywhere, which is all a torn tail does to it.

What stands for undefined or external behaviour:

* A read behind `human_referee` yields an element of `HeapContents` or stops the
  process (`ReadFaults`). Two reads of the same place may differ: the program
  appends to another vector in between.
* A write to a `FILE` that `fclose` has freed is lost or crashes; one to NULL
  crashes.
* The kernel delivers a datagram to every socket bound to its port once any
  socket of the host has joined the group (Linux' default for sockets bound to
  `INADDR_ANY`), unless the socket's buffer is full.
* Referees issue any commands at times that do not go back, and may restart.
* A logger thread reads its logger's address and port after the logger may have
  been deleted: the values have no effect by then, the read may crash.
* The wall clock of the logger (`clock`) may stand still, go on or be set back between any
  two readings, by the members of `ClockSteps`, but never to 1970. `setBack` only
  records by how much it was set back in all.
* In `Playback` the wall clock is `now + skew`; `skew` changes when somebody sets the clock, but
  never to 1970 (the guard of `SetClock`), as 0 means "nothing published yet" in
  `playback_main.cpp` lines 108 and 110. Signed
  differences of times are exact: timestamps are far below 2^63.
* `msg[-1] = 0` (`netraw.cpp` line 277) writes before the array: nothing
  happens, or the process crashes.
* Datagrams between the echo programs may be lost, delivered twice or in
  another order; the server may be started late or never.
* `new` throws instead of returning NULL, which ends the program. The elements of a
  new array hold anything (`Junk`).
* A killed run leaves its file as a prefix, possibly with a torn last line. A
  line that lacks only its newline counts as whole; one that lacks digits of its
  last field parses with another command and is rejected, as if it did not parse.

Each module also contains the mutants of some definitions: variants with a
plausible bug, marked as such, which the next state relation does not use. With
the mutant in place of the definition TLC finds the property violated that
`PROJECT.json` names with it, so no property holds for want of interesting
behaviours.

## The checks

| run | configuration | shows |
|---|---|---|
| `matching` | `Matching.cfg` | the loop over two lists; 1.3 million states |
| `referee` | `Referee.cfg` | one referee with long logs, three with short ones; 6.1 million states |
| `logger` | `Logger.cfg` | two threads, three datagrams each, a clock that is set; 1.1 million states |
| `annotations` | `Annotations.cfg` | four evaluations, three runs, two edits; 78,000 states |
| `playback` | `Playback.cfg` | three records, a clock that is set once; 330,000 states |
| `echo` | `Echo.cfg` | three lines, a network that repeats once; 124,000 states |
| `helpers` | `Helpers.cfg` | three threads, four operations; all pairs of numbers from -9 to 9; all sequences of array calls; 214,000 states |

and five that end in a counterexample (next section). Deadlock is not checked:
each of these programs ends, or waits for good for a datagram that may never come.
The type invariants of `RefereeLog` and `Logger` are proved and not run again.

**`matching`.** `AutorefsJudgedOnce`: in list order, whatever memory reads
return. `HumansReportedOnce`, `TruePositivesAgree`, `MissedEventsPrecede`,
`NoSilentDrop`: while the scan is inside the human's list. `Termination`.
`ImplementsScoring`: no interleaving of the loop's conditions and flags gives a
verdict that the two events at hand do not justify; behind the human's list,
where memory is read, only that a verdict is given.
Bounds: up to three human and two autoref events, four instants, two commands,
events with and without a STOP. The allowance is two, so that instants differ by
less, exactly and more than it; only the subtraction from a missing STOP wraps,
as with microseconds since 1970. Two autoref events suffice for a decision to
depend on the one before; three human events let one be skipped between a
missed and a matched one.

**`referee`.** `KeepsTheNewer` compares the loader, which looks at the last
kept command only, with the definition "newer than everything heard before";
`NewestLoaded` relates what the referee issued to what is kept.
`EventsFollowCommands` compares the indexer with a definition without running
state; `EventsIdentified` and `EventsOrdered` are what the comparison presumes of its lists.
`SlotsAligned` relates the four tables and the map: a slot for each key, not for each port.
The run has two sizes at once (`Small` in `MCRefereeLog`). One referee: three commands of
three kinds at two instants, four records, which is room
for a repetition and a reordering in one log, and for a STOP with two events. Three
referees: two goals each and three records, so that slots are allocated in every order; two of
the ports have the same key, and so share a slot.
Counters wrap at three, so that a restart and a wrap happen.

**`logger`.** `RecordsWhole`, `StreamOrder`, `ReceivedIsLogged`,
`LateRecordsBounded`, `CrashesOnlyInShutdown`, `SigIntEndsLogger` and
`ImplementsLogFile`, with SIGINT at any moment, one
datagram in three empty, and `fopen`, `pthread_create`, `socket`, `bind` and the
join failing at will. Two threads are enough for every race on the file; three
datagrams let a thread be overtaken by two records of the other. From one reading to the
next the clock goes on by one, stands still or is set back by one, so that times of one stream
repeat and step back as well. `StreamOrder` and `LateRecordsBounded` compare the times at which
records were read from the clock, its settings taken into account (`ReadAt`).

**`annotations`.** `KilledSaveRepaired` and `RunEnds`. `CountedFileAgrees`: also of a file
that was renumbered past the end of the list, where the code compares a line with the
memory behind the vector. `ConsistentFileKept`: the file of a human who only set
ignore flags is never overwritten, after any number of killed runs. The index
limit (1000 in the code) is three, so that a list of four has lines that cannot
be parsed.

**`playback`.** `PublishesTheLog` and `EndsAtTheEnd`: the log's records and no
others, up to the first that is not whole when it is read. `NeverFaster` compares
any two publications, not only neighbours: a record that steps back in
time makes its successor wait longer, never shorter. `KeepsPace`: a pause is no
longer than the log's gap. Both allow exactly for what the clock was set, and for
pauses cut to 32 bits; `drift` keeps that account. Bounds: three records at any of
four instants, so that times grow, step back and repeat and a gap of 7 exceeds the
`SleepModulus` of 6; one step of the clock by 2 in either direction; two units of
delay anywhere.

**`echo`.** `StaleReplyHasCause`, `LateRepliesBounded`, `ClientEnds`; the last allows for the
process being stopped by its write to `msg[-1]`, after a line without a reply. Three lines let
a late reply shift two later ones; buffers of two can be full; one repetition is
enough for a reply that nobody was silent before.

**`helpers`.** `NoLostUpdate`, `AbortNeedsLateClear`, `EveryoneFinishes`. Three
threads: one clears the flag late while a second is inside and a third waits
to be next. With four operations a thread comes back.
`GcdIsGreatest` over both signs and 0; an `int` of 16 values cuts
remainders, as arguments wider than an `int` do in the code. `AnglesNormalized` and
`AverageHalfway` on a circle of 8, with every half, quarter and eighth of a turn;
arguments up to more than one turn in both directions. `KeepsItems` over sizes up
to four and two values, so that an element can be found twice and a table of area
four has three shapes. Threads, numbers and arrays do not interact, so they come one
after the other: gcd is called, or an array allocated, where four calls of `Get` have left the
`ThreadSafe` as it was.

**Fairness.** `Matching` and `Annotations` are one thread that never waits: weak
fairness of its steps. In `Logger` only the main thread is assumed to be
scheduled (`WF_vars(MainNext)`); nothing is assumed of the logger threads, of
the network or of the user, so `SigIntEndsLogger` covers threads that wait in
`recv` forever. In `Playback` the player and the end of its pauses are fair
(`usleep` returns), the writing logger is not; in `Echo` only the client is, whose
`wait` ends by the clock: not the server and not the network. In `ThreadSafe` each
thread is scheduled and no more is assumed of the mutex than that a free one can
be taken: with a bounded number of operations nobody can be overtaken for good.

## Where code and documentation disagree

| run | what happens |
|---|---|
| `matching_reads_past_end` | an autoref event behind the last human event is compared with `human_referee[size]` (line 482; the test of `k` is in line 503) |
| `matching_skips_after_false_positive` | line 502 moves on after a false positive too, so the human event is not there for the next autoref event, which is then called a false positive though a human event overlaps it |
| `events_without_stop` | a free kick or goal that no STOP came before, or whose STOP another event has used up, is an event too, with `stop_timestamp` 0 (line 280); line 49 says "a stop command, followed by one of" |
| `lcm` | `lcm` divides both arguments by the gcd (`util.h` line 283): it is the least common multiple only of coprime numbers |
| `annotations_unknown` | every evaluation is `kUnknown` (line 101), so counting one exits (line 422): an autoref with events never gets a score |

Others the models contain without a run of their own:

* `stop_timestamp - td` wraps for an event without a STOP (`evaluate_main.cpp` line
  300): everything is before it. Human events behind the last autoref event are in
  no evaluation.
* A restarted referee's commands are dropped until its counter passes the old one
  (`NewestLoaded` excludes exactly this).
* `fclose` (`logger_main.cpp` line 256) can fall between the two writes of a
  record; the destructor of a logger does not wait as its comment says; a unicast
  stream's thread returns at once. With the README's example of two groups on one
  port each logger records both groups as its own.
* Ignore flags of the `.eval` file have no effect, though the comments at lines 137 and
  396 speak of using a human's annotations, and a corrected value makes the
  next run overwrite the file. Of a list of more than 1000 evaluations the file is overwritten by
  every run.
* `locked_` is cleared after `pthread_mutex_unlock` (`pthread_utils.h` lines 120 and
  129), so that a DCHECK can fail in a thread that holds the lock.
* When no reply came in time the echo client prints its own line as the reply, and
  every reply that is late shifts the ones after it.
* `gcd` is wrong of a second argument that does not fit an `int`. `angle_pos` is negative below minus one turn (its comment
  says [0,2*PI]). `avg_angle` of `M_PI` and `-M_PI`, both of which `angle_mod` can
  return, is the opposite direction. `alloc_array2` keeps the width and height of
  an earlier call if the area is the same.

## The proofs

Every invariant and action property that a passing run checks is also a theorem; only the
six liveness properties are left to TLC alone. The theorems say `Spec => []P`, four of them
`Spec => [][A]_v`, and two that a detailed specification implements an abstract one.
They hold for every value of the constants: any lists of events, any widths of
timestamps, ports, counters, pauses and `int`s, any number of referees, streams,
threads, evaluations, runs, edits and lines, any bound on the log or on a buffer, any
behaviour of the wall clock that does not set it back to 1970, and any of the network. They rest on the
assumptions the modules declare and TLC evaluates in the runs, and on nothing
else:

* `TimeAssumption`: moduli are positive, the delay is a timestamp;
* `LogsAssumption`: events carry event commands, counters increase along a list,
  heap contents have the type of an event;
* `PortsAssumption`: the refbox's port fits the key;
* `StreamsAssumption`: one address per stream, the logger's clock starts above 0 and is set by
  whole numbers;
* `TimesAssumption`: records and the wall clock have a time above 0, which the code
  takes for "none"; the width of a pause is positive;
* `NumericAssumption`: `gcd` is called with integers, an `int` has at least one value, a turn has
  four quarters on the grid;
* `ArraysAssumption`: what an unset element holds is none of the caller's values,
  and NULL is no array;
* `ThreadsAssumption`, `AnnotationsAssumption`, `EchoAssumption`: their bounds are natural
  numbers, and a socket has room for a datagram.

The times in a list need not be ordered for any theorem about `Matching`.

| module | theorem | property |
|---|---|---|
| `MatchingProofs` | `MatchingTypeOK` | `TypeOK` |
| | `JudgedOnce` | `AutorefsJudgedOnce` |
| | `ReportedOnce` | `HumansReportedOnce` |
| | `MatchesAgree` | `TruePositivesAgree` |
| | `MissedPrecede` | `MissedEventsPrecede` |
| | `NothingDropped` | `NoSilentDrop` |
| | `MatchingIsScoring` | `ImplementsScoring` |
| | `MatchingGetsOn` | (variant of `Termination`) |
| `RefereeLogProofs` | `RefereeLogTypeOK` | `TypeOK` |
| | `SlotsStayAligned` | `SlotsAligned` |
| | `KeepsNewer` | `KeepsTheNewer` |
| | `EventsAreIdentified` | `EventsIdentified` |
| | `EventsFollow` | `EventsFollowCommands` |
| | `EventsStayOrdered` | `EventsOrdered` |
| | `NewestStays` | `NewestLoaded` |
| `LoggerProofs` | `LoggerTypeOK` | `TypeOK` |
| | `RecordsStayWhole` | `RecordsWhole` |
| | `NoEarlyCrash` | `CrashesOnlyInShutdown` |
| | `LoggerIsLogFile` | `ImplementsLogFile` |
| | `StreamsInOrder` | `StreamOrder` |
| | `NothingLost` | `ReceivedIsLogged` |
| | `TimesStepBackOnce` | `LateRecordsBounded` |
| `PlaybackProofs` | `LogIsPublished` | `PublishesTheLog` |
| | `EndIsTheEnd` | `EndsAtTheEnd` |
| | `NotFaster` | `NeverFaster` |
| | `PaceIsKept` | `KeepsPace` |
| `ThreadSafeProofs` | `UpdatesAreKept` | `NoLostUpdate` |
| | `AbortsAreForeign` | `AbortNeedsLateClear` |
| `AnnotationsProofs` | `AnnotationsTypeOK` | `TypeOK` |
| | `SaveRepaired` | `KilledSaveRepaired` |
| | `CountedAgrees` | `CountedFileAgrees` |
| | `FlagsAreKept` | `ConsistentFileKept` |
| | `RunsGetOn` | (variant of `RunEnds`) |
| `EchoProofs` | `StaleReplies` | `StaleReplyHasCause` |
| | `FallsBehindBounded` | `LateRepliesBounded` |
| | `ClientsGetOn` | (variant of `ClientEnds`) |
| `UtilProofs` | `GcdReturnsGreatest` | `GcdIsGreatest` |
| | `AnglesAreNormalized` | `AnglesNormalized` |
| | `AverageIsHalfway` | `AverageHalfway` |
| | `ItemsAreKept` | `KeepsItems` |

**Matching.** `LoopInv` is `TypeOK` with `Control`, which says what the flags and
indexes can be at each place of the loop; `TypeOK` alone is not inductive,
because the bound of `k` by the size plus the autoref events judged holds only
as one iteration moves `k` past the end at most once. `OrderInv` says that the
evaluations follow the lists, each side up to its index: the properties speak of
the reported events only, and a step needs to know that the event it reports
next is not among them. `AgreeInv` carries from the comparison to the report
that the pair is the same one, which is what the second read of
`human_referee[k]` puts in question. `MissedInv` says of the last missed event
what the comparison found, until the autoref event at hand is judged.
For `Scoring`, `LeftInv` says that the judgement that no human event is left is made
only where none is; with `AgreeInv` each step of the loop is then a verdict
that `Scoring` allows, a human event left behind, or a stutter.
`LoopGetsOn` gives the loop a variant: three steps for each autoref event and one
for each human event that is left. Since a scan goes on only if a human event is
left behind it, k running past the end adds no step.

**Loading.** `SlotsInv` adds to `SlotsAligned` what holds before the log is
opened. `Kept` states of one slot, for any log and position, what the loader's
test of the last kept command amounts to: the list holds the newer records and
its last counter bounds all that was heard. The second half is the
strengthening: without it a record that is not newer than the last one kept
could be newer than all that was heard. `KeptOther`, `KeptOlder` and `KeptNewer` are
lemmas about one record of any log; `KeptInv` lifts them to all slots, where
`SlotsAligned` is needed so that a record changes one slot only.
`EventInv` says of the list being indexed that the counter of each event is one of
the commands passed; with the increasing counters from `Kept` the next event is
new.

**Indexing.** `EventsFollowCommands` speaks of lists that are complete. `FollowInv` says
the same of the part of a list up to `j`, and that the one variable of the loop,
`t_last_stop`, is the time that the definition without running state would take for an event
of command `j`: that of the last STOP before it, or 0. `LogInv` follows a record back to
its referee: it does not parse, or was issued, and each referee issues in the order of
time (`IssuedInTime`). For a referee that did not restart
the increasing counters of `Kept` are then increasing times (`SlotTimes`), and
`FollowOrdered` carries that order from the commands to the events.
`NewestLoaded` needs the second half of `Kept`: the list's last counter bounds
all that was heard, and the newest logged command was heard.

**Logger.** `LoggerInv` is `TypeOK` with the facts that a thread beyond `recv`
holds a datagram and that a logger not constructed has no thread. `Shutdown`
says that the main thread is past its wait, and that loggers are deleted and the log
closed, only after SIGINT: none of the places that can crash is reached
before. `WholeInv` is
the argument that the mutex is enough: whoever is between the two writes holds it
(`MutexInv`), so the last chunk is a size exactly when somebody is
there (`LastRecord`) and all before it are pairs (`Pairs`). `FlowInv` numbers a
stream's datagrams through socket, hands and file (`QueueInv`, `HandInv`,
`WrittenInv`): what is written is below what is held, and that below what is
queued. `LateInv` bounds how far times step back: once a logger has written
behind a record, all it writes later was stamped after that record; so each other
logger contributes at most one older record, a count by an injection
into the other loggers. For `LogFile`, `WholeInv` says that the last chunk is the half
record and who completes it, so only the two writes are no stutters; `StampInv` adds
that times are above 0.

**Playback.** `LogInv` is `PublishesTheLog` with `HandInv`: the record in hand is the
last one read, and all before it are published. `PaceInv` follows the time since the
last publication through the loop: behind the publication it is near `now`, then
`t_last_publish` on the clock as it is set stands for it, and during the pause `wake` is
neither before nor long after the gap, each up to what the account of drift shows
since. It has three parts as the clock is read after the publication (line 115) and
again before the pause (110). `KeepsPace` and `NeverFaster` compare one publication with the next when
it is made; `NeverFaster` is carried back to all earlier ones.

**ThreadSafe.** `TypeOK` holds mutual exclusion, `Fresh` says that what the holder has
read is still the value. `FlagInv` says who set the flag, and that a thread which
set it finds it set unless another one wrote it since.

**Annotations.** `SavedInv` is the argument that a killed save is repaired: a line that is
whole is its evaluation's (`Untouched`, which a kill keeps wherever it cuts, and only an
edit breaks), and a run that counts without having written has read to the end. What
makes that hold is `ReadInv`: the loop index is one more than the number in the line
that was read last, so it reaches the number of evaluations only behind a line that names
the last one or one past the end. `KeptInv` says that of a consistent file the loop index is
the number of lines read: each line then meets its own evaluation (`ConsistentLine`), so
the reading is never given up. `RunsGetOn` counts the lines behind `pos` and not the loop
index, which the file may set back.

**Echo.** `BehindInv` and `CountersInv` count datagrams where they are: on their way, in a
queue, or in the server's hands. Each step moves one or adds it on both sides
of the bound. `SoloInv` is the strengthening for `StaleReplyHasCause`: until a line had
no reply in time or a datagram was repeated, whatever is under way carries the
line that was read last; so the first reply that is not the line's own has a cause
before it. `ReplyInv` ties the number of replies to the number of lines.

**Helpers.** `GcdInv` is Bezout's identity as an invariant of the loop: `x` and `y` are
combinations of the two arguments, and what divides `x` and `y` divides both arguments;
it holds while no remainder is cut, which is so if the second argument fits an `int`. For
the angles `OneAngle` says that two angles within half a turn and a whole number of
turns apart are the same, so a function that keeps direction and range has
one result. `ListInv` and `TableInv` say what the size variables mean
for the arrays behind them. That `find_item` finds the first of equal items takes a
least index, which the library's well-foundedness of < on Nat gives.

**Only model-checked.** `Termination`, `SigIntEndsLogger`, `RunEnds`,
`PlaybackEnds`, `ClientEnds` and `EveryoneFinishes`: liveness under fairness is out of
the proof system's reach. Of three of them the safety half is proved, the variant: no step
goes round. That a step is possible (ENABLED) while something is left to do, and is
taken, is TLC's part. The loops of the logger's main thread only count up, a thread of `ThreadSafe`
has none but the bound on its calls, and playback's ends only as a log stops growing.
What a recursive definition computes for every input could not be proved either
(the induction theorems of the library take an operator as a parameter); no
module declares a RECURSIVE operator, and where an argument by induction was needed it is
made by a least counterexample or as an invariant.

## Not modelled

* The bytes of a log and stdio's buffer: a record is its size and its payload, and
  both are in the file when `fwrite` returns. A size field of foreign bytes. A
  logger that is killed.
* File names (`GetFileName`), command lines (`ParseAddressAndPort`), the bytes of a
  `Net::Address`, the byte counters of `Net::UDP`: each is a function without
  state that no property here depends on.
* The divisions that make precision, recall and F1 (floating point), and all output on the screen.
* Of `util.h`: `mod`, `sort`, bit tests, ramps, `mset`, `mzero` and one-line selections
  such as `min3` and `sign`, which no program here calls.
* Vision messages: the evaluator parses and drops them.
* The autorefs together: `Matching` and `Annotations` are about one, the outer loop
  runs them one after the other on separate data.

## The plan

Done: the modules, runs and proofs above; every invariant that a run checks is proved.
Next:

1. `Evaluator`: loading, indexing, matching and annotations of several autorefs in
   one process, as a composition of the modules above, whose proofs cite the
   theorems about the parts.
2. That `LogFile`'s reader in the evaluator (`RefereeLog`) reads what `Logger` leaves
   behind, as `Playback` does, rather than a log of its own.

New questions are put to existing runs where their bounds suffice, so that the
list of runs stays short.
