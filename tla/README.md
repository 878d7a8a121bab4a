# A verification of the system-programming exercises in `src/`

The repository is a collection of small, stand-alone Linux programs in C: each
file in `src/` has its own `main` and shows one part of the system-call
interface. They share no code. They interact through the kernel: two runs of
one program through a file and its lock, three programs through one message
queue, two processes through a pipe, a program and the users of the directory it
reads. The behaviours worth checking lie there, and in what the programs do when
a call fails or does less than it was asked.

This directory holds TLA+ models of these programs, TLC configurations that check
them on small instances, and TLAPS proofs, for every value of the constants, of all
the safety properties that the runs check. The modules are written from the code;
comments in the sources (many in Russian) are used only for what the code is *meant*
to do, and five runs show where the two part.

- [1 Inventory](#1-inventory)
- [2 Modules](#2-modules)
- [3 Runs](#3-runs)
- [4 Proofs](#4-proofs)
- [5 Findings](#5-findings)
- [6 What is not modelled](#6-what-is-not-modelled)
- [7 Plan](#7-plan)

`tlc -config <run>.cfg MC<Module>.tla` repeats a run, `tlapm <Module>Proofs.tla`
the proofs of a module.

## 1 Inventory

For each part: the state it keeps, its operations, whom it meets, what is hard
about it and what makes it correct.

**Run counter — `11.c`.** State: `data.txt`, a number as text, and the `flock`
on it; per run the local `cnt`. Operations: open, lock, `fscanf`, `cnt++`,
`asprintf`, `pwrite` at offset 0 without truncation, unlock, close, and an error
branch with its own exit status after each. Runs meet in the file and the lock.
Hard: the read-modify-write of concurrent runs; a run that fails or dies while it
holds the lock; text that grows by a digit, or that is shorter than what was
there; the difference between `fscanf` returning 0 and EOF. Correct if: no two
runs are between the lock calls, no update is lost, the status tells whether the
run was counted, every run ends, and the file behaves as one atomic counter.

**Message queue — `17_server.c`, `17_client.c`, `16.c`.** State: the name, the
queues (a queue outlives its name as long as it is open somewhere), descriptors;
in the server a one-message buffer and `last_signal`; in the client `result`.
Operations: the server creates the queue exclusively, prints what it receives
until `mq_receive` fails, closes and unlinks; the client opens, sends one
message, closes; `16.c` opens or creates, sends without waiting, closes and
unlinks. Hard: two servers on one name; `mq_unlink` is given a name, not a
queue; SIGINT stops a server only inside `mq_receive`; full queues; failures
after which the name stays. Correct if: one server at a time, names removed by
their owners only, messages printed once and in order, none lost by a server that
goes on, no sender starved by a server that goes on, truthful exit statuses.

**Pipelines — `14.3.c`, `14.3.1.c`, `14.4.c`, `14_2.c`.** State: two descriptor
tables and a pipe. Operations: `pipe`, `fork`, then in each process `close`,
`dup2`, `close`, `exec`. The two processes meet in the pipe and in *who still
has which end open*. Hard: a forgotten end means waiting for ever; one side may
fail or die at any point; a shell may start the program with stdin or stdout
closed, and then `pipe` hands out 0 and 1. Correct if: what `wc` prints is the
number of lines the producer wrote, only redirected ends are left at `exec`, both
processes end.

**Copying a regular file — `03_copy.c`, `03.2_copy.c`, `04_metadata.c`,
`05_allmetadata.c`, `3*.c`.** State: two files, two descriptors, the buffer and
how much of it is written; attributes of the files. Operations: opens, a loop
of `read` and `write_all` (`pwrite_all` in 03.2), closes, `copy_metadata`. Hard:
short reads and writes, a failure in the middle, statuses that a later failure
replaces, the source named as the output, attributes that a later call resets.
Correct if: status 0 means an equal copy, a partial copy is a beginning of the
source, the source is untouched, 05 copies mode, times and owner, every copy
ends.

**Copying fifos, devices, links — `copy_fifo.c`, `copy_node.c`, `3*.c`.** State:
the `stat` buffer of the source, the two names, the node made. Operations: look
up the source, look up the destination (but for a link), make the node. Hard:
other processes create and remove both names between any two of these; a mode
read from a buffer that a failed `lstat` never filled (`3*.c:83`). Correct if
status 0 after an absent destination means that this program made a node of the
right type, and a fifo has the mode of the source.

**Copying a directory — `7.1.c`.** State: the directory stream, one pair of
descriptors at a time. Hard: after a failed read both descriptors are closed and the
loop continues (`7.1.c:49`); entries that are not regular files, that come and go,
or that cannot be opened, which ends the whole copy. Correct if each regular file is
reported, and as copied only when it was copied whole.

**Directory watcher — `10_inotify.c`.** State: the inotify queue, a 4096-byte
buffer, the poll set, the cookie of `handle_event`. Operations: `handle_event` for
every event of a read; input on stdin ends the program. Hard: several events in
one read (the loop variable `ptr` advances, the event is taken from `buf`, line
51); a rename whose two events come in two calls; the kernel's queue at its
limit; input while events keep coming. Correct if every file that appears is
printed once and in order, and input ends the program.

**Child supervision — `13.1.c`, `14.1.c`.** State: parent, child, the child's
unreported change of state, the child's descriptors. Operations: `fork`, `waitpid`
with stops and continuations, `wait` for a child that redirects its output into
`1.txt`. Hard: changes between two calls are merged; a parent that ignores
SIGCHLD; a start with stdout closed. Correct if the loop ends exactly when the
child has, prints only what happened, and the child's line is in the file.

**Signal waiting — `15_1.c`.** State: pending signals, `g_last_signal`, the
`siginfo_t`. Operations: `sigwaitinfo`, `sig_handler` as a function and as a
handler. Hard: the signals are not blocked, so the handler may run between any
two steps, and `sigwaitinfo` may fail. Correct if a printed line is about a signal
that was sent, by the process that sent it.

**Threads — `19_4.c`, `19_test.c`, `19_test2.c`.** State: a shared counter or
stderr, the threads' loop variables. Operations: `cnt++`, `fputc`, create, join.
Hard: unsynchronised access, which only the join before the next create makes
safe; nobody looks at the result of `pthread_create`. Correct if the result is
what the threads that ran counted.

**Directory listings — `6.1_readdir.c`, `6.2_readdir.c`, `6.3_getdents.c`,
`6.4_recurs.c`.** State: the stream, an entry. Operations: `readdir` or
`getdents64`, `lstat` where the type is not told, a line. Hard: others change the
directory meanwhile; the end of a directory and an error of `readdir` differ in
`errno` only, and 6.1 looks at a local variable of that name (line 42). Correct if
every entry that stays is listed once, with its type; 6.3, which takes one record
for another, shows it with the byte of its type before the name.

**Writing a text — `02.1_write.c`, `02.2_write.c`.** The `write_all` loop of the
copying programs applied to a string, and `dprintf` for the same. Correct if
status 0 means that the whole string is in the file.

**Printers — `01_stat.c`, `09_statfs.c`, `12.c`.** System calls and their
results as text; no state, nobody to meet. `15_1.exe` is a compiled program.

## 2 Modules

| module | code | contents |
|---|---|---|
| `DecimalText` | `11.c` | what `%d` of `asprintf` and `fscanf`, and a `pwrite` without truncation, do to text |
| `RunCounter` | `11.c` | any number of concurrent runs |
| `AtomicCounter` | — | abstract: a number that each run adds one to, indivisibly |
| `RunCounterProofs` | `11.c` | theorems |
| `MessageQueue` | `17_server.c`, `17_client.c`, `16.c` | servers, clients and trial programs over one name |
| `Mailbox` | — | abstract: what is accepted is printed once, in order, at most a queue behind |
| `MessageQueueProofs` | the same | theorems |
| `Pipeline` | `14.3.c`, `14.3.1.c`, `14.4.c`, `14_2.c` | the two processes of each, over descriptor tables |
| `PipelineProofs` | the same | theorems |
| `FileCopy` | `03_copy.c`, `03.2_copy.c`, `04_metadata.c`, `05_allmetadata.c`, `3*.c`, `reg_file_cpy` of `7.1.c`; `02.1_write.c`, `02.2_write.c` | one copy of a regular file; one text written |
| `FileCopyProofs` | the same | theorems |
| `DirectoryWatch` | `10_inotify.c` | the watcher, the kernel's queue, the directory's users, stdin |
| `DirectoryLoop` | `6.1_readdir.c`, `6.2_readdir.c`, `6.3_getdents.c`, `6.4_recurs.c`, `7.1.c` | a loop over a directory that others change |
| `NodeCopy` | `copy_fifo.c`, `copy_node.c`, `3*.c` | one copy of a fifo, device or link, beside a process that uses the names |
| `ChildWait` | `13.1.c`, `14.1.c` | parent, child and the signals sent to the child |
| `Threads` | `19_4.c`, `19_test.c` | main and its threads |
| `SignalWait` | `15_1.c` | the loop, its handler and the senders of signals |
| `SmallPrograms` | the six above | one of these programs, chosen by `prog` |
| `SmallProgramsProofs` | the six; `copy_fifo.c`, `copy_node.c`, `3*.c`, `13.1.c`, `14.1.c`, `10_inotify.c` | whose step a step is; theorems about `NodeCopy`, `ChildWait`, `DirectoryWatch` |
| `DirectoryLoopProofs` | those of `DirectoryLoop` | theorems |
| `ThreadsProofs` | those of `Threads` | theorems |
| `SignalWaitProofs` | `15_1.c`; the six | theorems about `SignalWait`, and the types of all six |
| `ExitStatus` | — | exit statuses as a parent sees them |
| `MC…` | | constants of the TLC instances |

Conventions shared by the modules:

- **One action is one system call**, or a stretch of library calls that touches
  nothing shared. `pc` names the next call. A call that fails takes its error
  branch to the end in the same action (`End(p, status)`): between the failed
  call and the exit the code only prints and closes.
- **Failures are a constant.** `Faults` is the set of calls that may fail, with
  `"kill"` for a signal between any two calls. Runs choose it; proofs hold for
  any set unless they say otherwise.
- **The kernel** — `flock`, queues and their name, pipes, descriptor tables,
  `scanf` — is not in `src/`. Each module models the part its programs
  use, in separate operators that say which call they stand for.
- **Exit statuses** are the code's numbers. 256 (`Running`; 255 in the modules of
  the message queue and the pipelines, -1 in `RunCounter`) stands for "has not
  ended", 137 for "killed" and 139 for a crash.
- **History variables** (`counted`, `sent`, `written`, `original`, …) record
  what the kernel accepted or what once was so; no guard reads them.
- **Others**: where a program meets the users of its directory or its names, their
  actions are part of `Next`, and no fairness is asked of them.
- An operator marked *Mutant* is a variant of the definition after it with a
  plausible bug. `Next` never uses it; substituted for the original it must
  break a property, which shows that the property depends on that line of code.

### RunCounter and DecimalText

`Open`, `Lock`, `Scan`, `Write`, `Unlock`, `Close` are the straight line of
`main`. `Scan` joins `fscanf` and `cnt++` (the lock is held and both touch only
the run's own variables and a file that nobody else writes then); `Write` joins
`asprintf` and `pwrite`. `CallFails`, `ScanRejects`, `ScanReadError`,
`FormatFails` and `WriteShort` are the ways a call can go wrong, among them those
the code does not notice: `if(!fscanf(…))` lets EOF (-1) through, and only -1
counts as a failed `pwrite`.

The file is a sequence of characters, because that is where the hazard is:
`pwrite` does not truncate, so a shorter number would leave the tail of a longer
one. A digit is itself; a sign, white space and "anything else" are three
further codes. `ScanInt` is the *set* of values `fscanf` may store: empty if the
text is no number, every int if the number does not fit (undefined in C).
`IntMax` is the width of an int, a constant, so that the largest int is three
digits long in a TLC instance and 2147483647 is covered by the proofs. `cnt++`
past it wraps, as the build's code does.

### MessageQueue

A queue is named by the process that creates it, a message by its sender
(everyone creates and sends at most once). `linked` is the queue the name stands
for; `fd` the queue a process has open. `Create` is `mq_open` with `O_CREAT |
O_EXCL`, `TesterOpen` without `O_EXCL`, `ClientOpen` without either. `Receive`
takes from the queue of the descriptor, `Unlink` acts on the name. `Interrupt` is
the SIGINT handler: it stores `last_signal`, which nothing reads, and makes
`mq_receive` fail only when the server sleeps in it with nothing to receive.
`Sleep` exists for that distinction. All sends have priority 0, so a queue is
first-in first-out.

### Pipeline

A record per program holds what differs: exit statuses, whether the producer
prints anything, whether the parent redirects its input. `fds[p]` is a
descriptor table of five entries; `LowestFree` gives out descriptors as the
kernel does, so the model covers a start with stdin or stdout closed. A line is
the unit of what the pipe carries. `wc` ends when the pipe is empty *and no table
holds a write end*; the producer dies of SIGPIPE when no table holds a read end. A
`wc` without a stdin reports the error with status 1, and prints the 0 it has counted
all the same (`CountFails`): that is what becomes of a start with stdin closed, where
`pipe` returns 0, `dup2(0, 0)` does nothing and the `close` after it closes the read
end.

### FileCopy

A record per program gives its calls in order and the exit status after the
failure of each; `After` finds the next call. `Read` and `Write` may transfer any
positive number of bytes up to what was asked. `PositionedWrite` is
`pwrite_all` of 03.2 as written: it starts from the first byte of the buffer
again after a short write. `GoesOn` is 03's habit of closing both files
after a failure and returning the last status, `MistakenForSuccess` the 1 that
03.2's `pwrite_all` returns for an error and its caller takes for a byte count.
Attributes are abstract values; the one rule about them is that a change of
owner clears the set-user-ID bit, as a write does unless it is by root.

Both files may hold anything at the start (`original`): an output that exists is
what `O_TRUNC` is for, and what is left of it when a copy fails before the `open`.

The program `"7.1"` is `reg_file_cpy`, whose order differs (the mode before the
writes) and which tells its caller -1, here 255, when something fails after the
file was opened, but ends the process with 1 before that. `"02.1"` and `"02.2"`
have no source file: their data is the argument, all of it in `data` from the
start, and an empty text makes no `write` call (`After`).

### DirectoryWatch

`FileAppears`, `FileLeaves` and `FileRenamed` are the directory's users, and
`Notify` the kernel's queue with its limit and its overflow event. Events are
numbered in the order in which the kernel saw the changes, which makes "in order" a
matter of numbers. An event has a length, since that decides how many a `read`
returns: `Ends(n)` tells where in the buffer the first `n` events end, and `Read`
takes the largest `n` for which they all have room. `Handle` is the body of
`handle_event`'s loop as written: `ptr` advances by the length of the first event in
the buffer, and each time that first event is handled. So a read of one event does
the right thing, and a batch repeats its first event. The variable `cookie` starts
at 0 in each call of `handle_event`, in `Poll`. `Poll` follows the order of the
code: input first. `stdin` may be closed before the start, in which case
`inotify_init1` returns descriptor 0 and the program takes events for input.

### DirectoryLoop

`steady` are the names that were in the directory all the time since it was
opened, `known` those that were in it at some time. POSIX promises that a stream
returns the first once, and may return the others: `ReadEntry` takes any of
`known` that it has not returned, and `EndOfDirectory` waits for `steady`. The
programs differ in what they do with an entry: 6.1 and 6.2 list it (`ListEntry`)
or ask `lstat` (`LookUpEntry`, when the file system does not fill `d_type`); 6.3
takes the records of `getdents64` for those of `getdents` (`ListRecord`); 6.4
leaves its loop (`LeaveLoop`); 7.1 asks `lstat` and copies, makes a directory or
does neither (`Dispatch`). What a line shows as the name is a sequence: the entry's
name alone in 6.1 and 6.2, the byte of the type followed by the name in 6.3, and
nothing there when that byte is 0, which ends a string.

The copy of one file is an outcome here and the program `"7.1"` of `FileCopy` in
detail: it is `"whole"` when `reg_file_cpy` got to its end, and also when only the
last `fsync` or `futimens` failed, which is reported as a failed copy; `"part"` when
a read, a write or `fchmod` failed.

### NodeCopy

`OthersChange` is another process that creates the destination or removes either
name, between any two calls. `MakeModes` says which modes the node may be made
with: the source's in `copy_fifo.c`, any in `3*.c`, whose structure was not filled,
and for devices the fixed one of each program, 0777 or 0644, told apart by
`Execute`.

### ChildWait

`report` is the one change of state the kernel keeps for `waitpid`; a later one
replaces it. `WaitpidFails` is `waitpid` after the end of a child nobody is told of
(SIGCHLD ignored): the loop looks at the previous status again. The child of
14.1 goes through `open`, `dup2` and `close` with descriptor 1 open or closed at
the start; what `printf` buffered is written at its exit.

### Threads and SignalWait

A thread's `cnt++` is a `Load` and a `Store`. It goes through its loop `Limit(t)`
times: `N` in 19_4.c, the `cnt` of its own parameters in 19_test.c (`Characters`).
`main` is `Create`, `Join`, `Finish`. `CreateFails` leaves an identifier that was
not written to `pthread_join`, which returns an error or crashes.

In `SignalWait` a signal is a number and its sender; one of a kind is pending at
most. `Take` is a `sigwaitinfo` that returns it, `Interrupted` one that fails
because the handler ran, `Handle` the handler between two steps of the loop, the
`printf` and the next `sigwaitinfo` among them: a signal it takes there, of the mask
or not, is in no line.

### SmallPrograms

These six modules are small and share no state, and the questions asked of them
are alike, so one state machine holds all: `prog` is the program that runs, the
variables of the other modules are `Off`, and a step is a step of that program's
module, taken in with `INSTANCE`. It adds no behaviour; each of its properties is
the module's property of the same name, claimed when that program runs.

## 3 Runs

| run | instance | checks |
|---|---|---|
| `counter_faults` | 2 runs, 8 initial files, all faults | `TypeOK`, `LockInv`, `StatusTellsCounted`, `EveryRunEnds` |
| `counter_exact` | 3 runs, 6 initial files, reported faults and kills | `NoStaleWrite`, `CountsItsRuns` |
| `counter_read_error` | 3 runs, read errors | `CountsItsRuns` — violated |
| `mq_safety` | 2 servers, 3 clients, queue of 1, 2 SIGINTs, all faults | `TypeOK`, `ServerKeepsName`, `OnlyOwnNameRemoved`, `StatusTellsAccepted`, `LeftNameIsReported` |
| `mq_shared_name` | 2 servers, 2 clients, one `16.c`, queue of 2, 1 SIGINT, failing opens | `ServesInOrder`, `AcceptedIsPrinted`, `SendReturns`, `TesterEnds` |
| `pipe_all` | 4 programs, pipe of 2 lines, up to 4 lines, all faults, any of 0 and 1 closed | `TypeOK`, `CountsProducer`, `NoStrayEnds`, `StatusZeroMeansCounted`, `BothEnd`, `ProducerEndsWithWc` |
| `pipe_no_stdin` | `14.3.c`, stdin closed | `LastIntoWc` — violated |
| `copy_all` | 8 programs, sources of 0, 1, 3 and 5 bytes, reads of at most 3, all faults, output may be the source | `TypeOK`, `CopyFaithful`, `PrefixOfSource`, `SourceKept`, `AttributesCopied`, `CopyEnds` |
| `copy_metadata` | `04_metadata.c` | `MetadataCopied` — violated |
| `copy_positioned` | `03.2_copy.c` | `PositionedCopyFaithful` — violated |
| `small_programs` | 14 programs, all faults; constants below | `TypeOK`; `NothingMissed`, `InputEnds`; `AllListed`, `TreeCopied`; `StatusZeroMeansMade`, `FifoModeCopied`; `NoticesHappened`, `LineInFile`, `ParentEnds`; `ResultRight`; `PairTrue`, `EachLineHasSignal` |
| `watch_batches` | `10_inotify.c` alone, 2 events | `NewFilesPrinted` — violated |

**Bounds and why they suffice.** Two runs of `11.c` are enough to exclude each
other, and for a waiting one to find a failed one's lock; the third shows
that updates add up. Initial files include an absent file, one about to grow a
digit (`9`, `99`), one saved by an editor with a newline, padded and negative
ones, the largest int, and one that is no number. Two servers and three clients
on a queue of one message give a server in possession and one that is refused,
a client whose message is received, one that sleeps on the full queue and one
that finds no queue. `MaxSignals` bounds SIGINTs; one already finds every state
of a server. A pipe of two lines with a producer of four makes the producer wait
twice. Five bytes with reads of three give a full and a partial chunk, and every
split of each by short writes. None but the empty content is the beginning of
another, so a wrong byte is not taken for a right one.

In `small_programs`: events of two or three units in a buffer of four make reads
of one and of two events; a queue of two and three events (`MaxEvents`) make it
overflow, and hold a file that appears before, between and after the two halves
of a rename. The directory has `.`, a regular file, a directory and a fifo, each
there from the start, created, removed, or both; names are used once, which
bounds it. The child gets up to four changes of state (`MaxSignals`): stop,
continue, stop again and the end, with `waitpid` between or not. Four threads of
three rounds are two more than an interleaving needs; those of 19_test.c print three
and two characters, as its 30000 and 20000 differ. Three signals (`MaxSent`)
of two kinds in the mask and one outside are one in `sigwaitinfo`, one in the
handler between two steps, and one more that meets a signal of its kind pending.

**Which faults in which run.** `mq_safety` and `counter_faults` have all of them.
`counter_exact` leaves out read errors (they are the finding), short writes and
`asprintf` failures: a short write that counts as a success makes the count wrong
by design of that code, which claims nothing about it. `mq_shared_name` checks
liveness and a refinement with the third program in play; its processes may
already meet each other at every point, and one failing call is kept so that a
client may give up.

**Symmetry** is used in `mq_safety` alone, over clients, which differ in nothing
and name no queue, and whose properties are all safety properties.

**Deadlock** is not checked: every program ends, and a server without messages,
a watcher without events and a parent without news rightly wait.

**Fairness.** `WF` on the step of each process: the scheduler runs a process that
can run, and the kernel wakes a sleeper whose condition holds. It is asked of
successful steps only — no failure, signal or kill is ever *forced* to happen —
and never of the user at the terminal. `flock` and `mq_send` promise nothing
about the order of waiters; weak fairness gives none either, and the properties
do not need it, as each process of these programs passes a contended call once.
With unboundedly many clients a sender could starve; that is why `SendReturns`
speaks of a queue that comes to rest. In `SmallPrograms` each process and each
thread is scheduled on its own: parent and child are two conditions, a step of one
does not stand for a step of the other. `InputEnds` rests on a premise the bound
`MaxEvents` supplies: events come to an end. Files created faster than they are
read would keep `handle_event` in its loop, and input unread; the code does nothing
against that.

**Two refinements.** `CountsItsRuns` maps the characters of `data.txt` to the number
they denote and shows that `RunCounter` implements `AtomicCounter`. `ServesInOrder`
maps what each queue accepted and each server printed to `Mailbox`, and holds also
when `16.c` takes a server's name away and a second server starts beside the first.
TLC checks both on the instances above; `CounterIsAtomic` and `ServerIsMailbox`
prove them.

**What the properties leave out**, each because the code does: `SendReturns`
excludes clients whose server has left its loop (the code gives them no way out: see
the hazards); `AttributesCopied` excludes the set-user-ID bit, which `lchown` clears
after `fchmod` set it, and a failed `stat`, for which `copy_metadata` returns 0 on
purpose; `SourceKept` excludes a source named as the output, which `O_TRUNC`
empties; `StatusTellsAccepted` says nothing of the client's status 2, with which a
failed `mq_close` hides how `mq_send` went; `CountsProducer` and
`StatusZeroMeansCounted` name the programs they speak of, and `CountsProducer`
speaks of status 0 (`LastIntoWc`, without that condition, is the finding);
`NothingMissed` holds while no read returned two events (`NewFilesPrinted`, without
that condition, is the finding); `AllListed` excludes errors of `readdir`, which the
listings take for the end, 6.4, which lists nothing, the type column of 6.3, a byte
that nobody wrote, and all of 6.3 on a file system that does not fill `d_type`,
where its names are empty; for the others it claims of 6.3 what that prints, the
byte of the type and then the name; `TreeCopied` excludes a copy that did not reach
the end of the directory, and says nothing of the target of a file reported as
failed; `StatusZeroMeansMade` excludes a destination that existed or could not be
looked up, for which status 0 is the code's answer; `FifoModeCopied` speaks of
`copy_fifo.c`, since `3*.c` passes a mode that nobody wrote; `NoticesHappened` and
`ParentEnds` exclude a parent that ignores SIGCHLD, and `LineInFile` a child started
without stdout, which closes the file it just got as descriptor 1; `PairTrue`
excludes lines printed after the handler ran between the store and the `printf`, and
those for which `sigwaitinfo` failed, whose process number is that of the signal
before. A signal that the handler took before `sigwaitinfo` has no line, and no
property asks for one.

## 4 Proofs

Every invariant that a passing run checks is proved, and both refinements are,
for all values of the constants: any processes, capacities, sizes and bounds, and
any set of faults. A theorem with a further hypothesis says so below. The
assumptions are the `ASSUME`s of the modules, which say of the constants what
sort of thing they are, that the kinds of process are distinct, and that what the
code divides by or waits for is not zero.

Each proof has the same shape: an inductive invariant, the property as one of its
parts or a consequence; a lemma for `Init`; for `Next` one lemma per action, or per
group of actions that leave the same things alone; a temporal step. Where the
property says less than what keeps it true, the parts that were added are the
argument of why the code is right, and they are what follows.

**`RunCounterProofs`** (of `IntMax` only 9 ≤ `IntMax` ≤ 2147483647, and that
`data.txt` holds a sequence of characters):

- `TypeCorrect`: most of the work is in lemmas about the text: digits are digits
  (`DigitsAtType`), every int has between 1 and 10 of them (`WidthSpec`),
  `FormatInt`, `Overwrite` and `ScanInt` stay among characters and ints, and
  `Increment` wraps inside the type.
- `LockSafety`: `LockInv` is inductive over the types because it is stated as an
  equivalence: "who is between the calls holds the lock" alone would not exclude
  a lock held by a run that ended.
- `NoLostUpdate`: *if reads do not fail*, `NoStaleWrite`, over `LockInv`: only the
  holder writes, so the file cannot change between a run's `fscanf` and its `pwrite`.
- `StatusIsTrue`: `StatusTellsCounted` speaks of runs that ended;
  `CountedAfterWrite` adds where the others are: a run is counted from its
  `pwrite` on.
- `CounterIsAtomic`: the refinement `CountsItsRuns`. It assumes that no read fails
  and no `pwrite` is short (the two faults the code does not notice), that there are
  finitely many runs, and `PlainStart`: each initial `data.txt` holds no number, or
  is empty or blank, or begins with a number as `11.c` writes it with no digit
  anywhere after it, and with room below `IntMax` for every run. Outside of that the
  refinement is false of the code: one run makes `98` of ` 8` or `08`, and `01` of
  `-1`. The argument is `HoldsNumber`: at any time `data.txt` has that form. It is
  kept because `fscanf` reads back from it the number that was written (`ScanHolds`,
  from `ValueOfText`: the digits of a number add up to it), and because a number
  that grows never gets fewer digits (`WidthGrows`), so the next text covers all
  digits of the one before (`OverwriteHolds`) — the one fact that a `pwrite` without
  truncation rests on. `PlainStart` holds of the initial files of `counter_exact`.

**`MessageQueueProofs`** (the three kinds of process are distinct):

- `TypeCorrect`: not inductive alone. That a message comes from a queue at all
  needs `Descriptors` (a server between `mq_open` and `mq_close` has its own queue
  open, a sender some queue), and that what is printed is a message needs
  `Buffered`. The inductive invariant is the conjunction, `TypeInv`.
- `OneServerAtATime`: *without `16.c`*, `ServerKeepsName`: `O_EXCL` refuses the second
  server while the name is taken, and the server that unlinks has the name itself.
  `ServerNameStep` and `NameStep` first reduce the system's steps to four ways of
  touching the name.
- `NameIsItsOwn`: under the same hypothesis the action property
  `OnlyOwnNameRemoved`, from the same invariant.
- `ServerIsMailbox`: the refinement `ServesInOrder`, also with `16.c`. `Pending` says
  that what was accepted and is not yet printed is exactly the buffer followed by
  the queue; `NextMailStep` reduces every step to a deposit, a withdrawal, a
  delivery or none of them, and `RestAppend` and `RestTail` are the two facts
  about sequences it takes.
- `ClientStatusIsTrue`: `StatusTellsAccepted`, from `ClientKnows`: before its `mq_send`
  a client has sent nothing, after it `result` tells how the call went. A step of
  anybody else leaves what a client has sent as it is (`OthersKeepKnowledge`).
- `LeftNameTold`: `LeftNameIsReported`, from `NameReported`: a server whose queue has
  the name is past its `mq_open`, so only a later call can fail, and its own
  `mq_unlink`, with which it ends with 0, takes the name away.

**`PipelineProofs`** (`PipelineInvariant`): `PipeInv` says, call by call, which
descriptors of each process stand for an end of the pipe (`Tables`), that no line
is lost or made up between the producer, the pipe and `wc` (`Lines`), and that once
`wc` has printed and ended with 0 no table of the child holds a write end, so nothing
more can be written (`Printed`). `TypeCorrect` needs `ForkOrder`: `pipe` finds two free
descriptors because nothing was opened before it. `NoEndsLeft`, `NumberIsTrue` and
`StatusZeroIsTrue` are `NoStrayEnds`, `CountsProducer` and `StatusZeroMeansCounted`.
The proof found a case that is easy to overlook: when the shell left the standard
descriptor closed, the end to be redirected already has its number, the `close` that
follows `dup2` closes it, and the program starts without that descriptor. In the
parent that makes `wc` print 0 while the child may still write, but its status is
then 1 and stays so (`StatusStays`), which is why the theorem holds with status 0 and
`pipe_no_stdin` finds what is wrong without it.

**`FileCopyProofs`** (`CopyInvariant`): in the loop, `Copying` says that the output
holds the first `out_off` bytes of the source and that `data` holds those that come
next, of which `bytes_written` are already there; `AtEnd` that the output ends where
the next byte goes, which `O_TRUNC` starts and every write keeps; `Untouched` and
`SelfCopy` what is so before the loop and for a source named as the output.
`Control` and the six lemmas `Order…` tell in which order each program makes its
calls. `TypeCorrect`, `SourceIsKept`, `CopyIsFaithful`, `OutputIsPrefix` follow for
any contents, any size of a read and any short transfers. `AttributesAreCopied`
needs a second invariant, `AttributesInv`, since a later call may undo an earlier
one: it says after which call which attribute is already right, and stays right.

**`SmallProgramsProofs`**: `ProgramStays` and `OwnSteps` reduce a step of the union
to one of the module whose program runs; the three proof modules below use them
too. Then:

- `NodeIsMade`, `FifoModeIsCopied` (`NodeInv`): what `lstat` returned stays true of the
  source as long as that exists, since others only remove it.
- `NoticesAreTrue` (`WaitInv`): the unreported change is the last that happened, and
  what was printed is a subsequence of those before it; merging changes only
  drops some. `LineIsInFile`: where descriptor 1 points from the child's `dup2` to
  its exit.
- `NothingIsMissed` (`WatchInv`): as long as no read returned two events, the printed
  numbers increase, are smaller than those of all events that wait, and each file
  that appeared is among the ones or the others. That none is *withheld* needs the
  cookie: it is older than every event that waits, so a file moved in from outside,
  whose cookie is new, is never taken for the second half of a rename. `QueueInv`
  also bounds the queue: one event more than the limit, the overflow's.

**`DirectoryLoopProofs`**: `EntriesAreListed` and `TreeIsCopied`, from `LoopInv`: the
entries returned but for the one in hand are those listed, each once (`EachListed`),
with their letters (`LinesRight`), and of two entries no program shows the same
name; and each regular file that 7.1 has come to was reported, as copied only when it
is whole (`Judged`).

**`ThreadsProofs`**: `ResultIsRight`, from `ThreadInv`: a thread at work is the last
one created and `main` is in its `pthread_join` (`OneAtATime`), which makes what a
thread loaded still the value when it stores (`Rounds`), and the total `N` times
the threads that ended plus the rounds of the one at work; in 19_test.c each thread
has printed as many characters as it went through its loop (`Counted`).

**`SignalWaitProofs`**: `PairIsTrue` and `LinesHaveSignals`, from `SignalInv`: what
`sigwaitinfo` returned was sent, is no longer pending and is in no line yet
(`Returned`), and stays in `g_last_signal` unless the handler ran (`StoredSignal`).
`TypesAreKept` collects the type invariants of the six modules.

**Only model-checked** are the liveness properties — `EveryRunEnds`,
`AcceptedIsPrinted`, `SendReturns`, `TesterEnds`, `BothEnd`, `ProducerEndsWithWc`,
`CopyEnds`, `InputEnds`, `ParentEnds` — which rest on fairness, and so on `ENABLED`,
which the prover does not handle. What the five findings say is shown by a
counterexample each and needs no proof.

## 5 Findings

| run | where | what |
|---|---|---|
| `counter_read_error` | `11.c:38` | a read error makes `fscanf` return EOF, which the test lets through; the count starts again at 1 |
| `pipe_no_stdin` | `14.3.c:54` | started with stdin closed, `pipe` returns 0 and the `close` after `dup2(0, 0)` closes it: `wc` has no input and prints 0, though `last` may have written lines. `14.3.1.c` has the same lines |
| `copy_metadata` | `04_metadata.c:105` | the source is closed before `fstat`, so no attribute is copied, and the status is 0 |
| `copy_positioned` | `03.2_copy.c:20` | status 0 with a wrong copy: an error counts as one byte, and a short write starts over |
| `watch_batches` | `10_inotify.c:51` | the events of one read are all handled as the first: of two files that appear together one is printed twice and one never |

Remarks without a run of their own, each visible in the model where it says so:

- `17_client.c:14` says the queue is created; the call has no `O_CREAT`
  (`ClientOpen`).
- `6.4_recurs.c:87` leaves the loop for every entry that is there, so nothing is
  ever listed and the recursion not reached (`LeaveLoop`); an error of the first
  `readdir` dereferences NULL (`ReadFails`).
- `6.3_getdents.c` declares the record of `getdents` for `getdents64`: names begin
  with the type byte, and are empty where the file system does not fill it
  (`ListRecord`).
- `6.1_readdir.c:42` declares a local `errno`, so its test of `errno` never sees an
  error (`ReadFails`).
- `7.1.c:140` prints "has been copied" when `mkdir` failed (`MakeSubdirectory`),
  and main returns 1 in any case (`NormalStatus`).
- `3*.c:83` passes the mode of a structure that the failed `lstat` did not fill
  (`MakeModes`).
- `13.1.c:48` does not look at the result of `waitpid`: a parent that ignores
  SIGCHLD and has seen a stop loops for ever (`WaitpidFails`).
- `15_1.c` prints -1 as the signal after an interrupted `sigwaitinfo`, and pairs a
  signal with the sender of another when the handler runs before the `printf`; a
  signal of the mask that comes between the `printf` and the next `sigwaitinfo` goes to
  the handler and is not printed (`Interrupted`, `Handle`).
- `14_2.c:46` runs `wc` without the parent's `dup2`, so that it counts what is typed and
  not what `last` writes (`Redirects`, `UserTypes`); it is the pipeline half done, and
  14.3.c the whole.
- `copy_node.c:27` and `3*.c:98` call `mknod` with device 0, whatever device the
  source is.
- `14.1.c` started with stdout closed loses the child's line (`ChildRedirects`).

## 6 What is not modelled

Wording and layout of output. `15_1.exe` (a binary). `01_stat.c`, `09_statfs.c` and
`12.c`, which print what system calls returned and keep no state (`12.c` sets its
own umask and sets it back before anything else runs). `19_test2.c`, which does not
compile. Inside the modelled programs: `PATH_MAX`, file sizes beyond the bounds of a
run, permissions (an `open` or `mq_open` that is refused is a failing call), `EINTR`
where no handler is installed, signals other than those named, the device number of
`mknod` (0 in every call, see the remarks), and the recursion of `6.4_recurs.c`,
which the code never reaches. That `main` of `14.4.c` returns 0 when `wc` could not
be started is in the model of `Pipeline`, and no property speaks of it.

## 7 Plan

Done, in this order: `RunCounter` (with `DecimalText`, `AtomicCounter`),
`MessageQueue` (with `Mailbox`), `Pipeline`, `FileCopy`, then `DirectoryWatch`,
`DirectoryLoop`, `NodeCopy`, `ChildWait`, `Threads`, `SignalWait` and their union;
then the proofs of all invariants and of both refinements. Every program that keeps
state or meets another is modelled.

What would add to it, in this order, are proofs of the safety side of what TLC
checks as liveness:

1. `Pipeline`: nobody waits for ever because somebody *can* go on. Whenever `wc` waits
   for a line the producer's program runs or no table holds a write end, and whenever
   the producer waits for room `wc` runs or no table holds a read end. `Tables`
   has what it takes.
2. `FileCopy`: a measure that each step of the loop decreases (the bytes still to be
   read, then those still to be written), as an action property.
3. `MessageQueue`: whoever sleeps in `mq_send` on the queue of a server that has not
   left its loop does so on a queue from which that server can receive.
4. `DirectoryLoop`: the entries that are still to come decrease with each `readdir`,
   unless others create more.
