---------------------------- MODULE SmallPrograms ----------------------------
(***************************************************************************)
(* One of the programs that meet nothing but the kernel and its users: the *)
(* modules DirectoryWatch, DirectoryLoop, NodeCopy, ChildWait, Threads and *)
(* SignalWait.  prog says which of them runs; the variables of the others  *)
(* are off.  A property of a module is claimed when its program runs.      *)
(***************************************************************************)
EXTENDS ExitStatus, Integers, Sequences

CONSTANTS
    Programs,       \* those that may run
    Faults,         \* the calls that may fail
    Sizes, SIZEOF_BUF, QueueLimit, MaxEvents,   \* DirectoryWatch
    Entries, Kind,                              \* DirectoryLoop
    Permissions, Execute, Umask,                \* NodeCopy
    MaxSignals,                                 \* ChildWait
    N_THREADS, N, Characters,                   \* Threads
    MaskSignals, OtherSignals, MaxSent          \* SignalWait

VARIABLES
    prog, pc, exit,
    stdin, queue, caused, renaming, cookie, lines, arrivals, batched,
    present, known, steady, typed, seen, entry, listed, target, reported, complete, misread,
    src, dst, sb_src, absent, made,
    child_pc, child, report, ignored, status, notices, stdout, file_fd, output, changes,
    created, thread, i, loaded, cnt, out, printed,
    pending, sent, g_last_signal, signum, si_pid, printed_lines, handled, arrived

watchVars == <<stdin, queue, caused, renaming, cookie, lines, arrivals, batched>>
directoryVars == <<present, known, steady, typed, seen, entry, listed, target, reported,
                   complete, misread>>
nodeVars == <<src, dst, sb_src, absent, made>>
childVars == <<child_pc, child, report, ignored, status, notices, stdout, file_fd, output,
               changes>>
threadVars == <<created, thread, i, loaded, cnt, out, printed>>
signalVars == <<pending, sent, g_last_signal, signum, si_pid, printed_lines, handled, arrived>>

Watch   == INSTANCE DirectoryWatch
Loop    == INSTANCE DirectoryLoop
Copy    == INSTANCE NodeCopy
Wait    == INSTANCE ChildWait
Pool    == INSTANCE Threads
Signals == INSTANCE SignalWait

ASSUME WatchAssumption  == Watch!WatchConstants
ASSUME LoopAssumption   == Loop!LoopConstants
ASSUME NodeAssumption   == Copy!NodeConstants
ASSUME WaitAssumption   == Wait!WaitConstants
ASSUME ThreadAssumption == Pool!ThreadConstants
ASSUME SignalAssumption == Signals!SignalConstants

Watching  == prog = "10"
Looping   == prog \in Loop!LoopPrograms
Copying   == prog \in Copy!NodePrograms
Waiting   == prog \in Wait!WaitPrograms
Threading == prog \in Pool!ThreadPrograms
Signalled == prog = "15_1"

vars == <<prog, pc, exit, watchVars, directoryVars, nodeVars, childVars, threadVars, signalVars>>

-----------------------------------------------------------------------------
Off == "off"

WatchOff ==
    /\ stdin = Off /\ queue = Off /\ caused = Off /\ renaming = Off /\ cookie = Off
    /\ lines = Off /\ arrivals = Off /\ batched = Off

LoopOff ==
    /\ present = Off /\ known = Off /\ steady = Off /\ typed = Off /\ seen = Off
    /\ entry = Off /\ listed = Off /\ target = Off /\ reported = Off /\ complete = Off
    /\ misread = Off

CopyOff ==
    /\ src = Off /\ dst = Off /\ sb_src = Off /\ absent = Off /\ made = Off

WaitOff ==
    /\ child_pc = Off /\ child = Off /\ report = Off /\ ignored = Off /\ status = Off
    /\ notices = Off /\ stdout = Off /\ file_fd = Off /\ output = Off /\ changes = Off

PoolOff ==
    /\ created = Off /\ thread = Off /\ i = Off /\ loaded = Off /\ cnt = Off /\ out = Off
    /\ printed = Off

SignalsOff ==
    /\ pending = Off /\ sent = Off /\ g_last_signal = Off /\ signum = Off /\ si_pid = Off
    /\ printed_lines = Off /\ handled = Off /\ arrived = Off

Init ==
    /\ prog \in Programs
    /\ IF Watching THEN Watch!Init ELSE WatchOff
    /\ IF Looping THEN Loop!Init ELSE LoopOff
    /\ IF Copying THEN Copy!Init ELSE CopyOff
    /\ IF Waiting THEN Wait!Init ELSE WaitOff
    /\ IF Threading THEN Pool!Init ELSE PoolOff
    /\ IF Signalled THEN Signals!Init ELSE SignalsOff

OnlyWatch == Watching /\ UNCHANGED <<directoryVars, nodeVars, childVars, threadVars, signalVars>>
OnlyLoop == Looping /\ UNCHANGED <<watchVars, nodeVars, childVars, threadVars, signalVars>>
OnlyCopy == Copying /\ UNCHANGED <<watchVars, directoryVars, childVars, threadVars, signalVars>>
OnlyWait == Waiting /\ UNCHANGED <<watchVars, directoryVars, nodeVars, threadVars, signalVars>>
OnlyPool == Threading /\ UNCHANGED <<watchVars, directoryVars, nodeVars, childVars, signalVars>>
OnlySignals == Signalled /\ UNCHANGED <<watchVars, directoryVars, nodeVars, childVars, threadVars>>

Next ==
    \/ OnlyWatch /\ Watch!Next
    \/ OnlyLoop /\ Loop!Next
    \/ OnlyCopy /\ Copy!Next
    \/ OnlyWait /\ Wait!Next
    \/ OnlyPool /\ Pool!Next
    \/ OnlySignals /\ Signals!Next

\* Each process and each thread is scheduled.
Fairness ==
    /\ WF_vars(OnlyWatch /\ Watch!Step)
    /\ WF_vars(OnlyLoop /\ Loop!Step)
    /\ WF_vars(OnlyCopy /\ Copy!Step)
    /\ WF_vars(OnlyWait /\ Wait!Parent)
    /\ WF_vars(OnlyWait /\ Wait!Child)
    /\ WF_vars(OnlyPool /\ Pool!Main)
    /\ \A t \in Pool!Thread : WF_vars(OnlyPool /\ Pool!Run(t))
    /\ WF_vars(OnlySignals /\ Signals!Step)

Spec == Init /\ [][Next]_vars /\ Fairness

-----------------------------------------------------------------------------
\* The type invariants of the programs.
TypeOK ==
    /\ prog \in Programs
    /\ Watching  => Watch!TypeOK
    /\ Looping   => Loop!TypeOK
    /\ Copying   => Copy!TypeOK
    /\ Waiting   => Wait!TypeOK
    /\ Threading => Pool!TypeOK
    /\ Signalled => Signals!TypeOK

\* 10_inotify.c prints each file that appears once, in order, as long as no read
\* returns more than one event.
NothingMissed == Watching => Watch!NothingMissed

\* 10_inotify.c prints each file that appears once, in order.
NewFilesPrinted == Watching => Watch!NewFilesPrinted

\* Input ends 10_inotify.c, whatever events come with it.
InputEnds == Watching => Watch!InputEnds

\* A listing that ends with 0 has every entry that was there all the time, once.
AllListed == Looping => Loop!AllListed

\* 7.1.c tells of each regular file truthfully whether it was copied.
TreeCopied == Looping => Loop!TreeCopied

\* Status 0 of a program that found no destination: it made the node.
StatusZeroMeansMade == Copying => Copy!StatusZeroMeansMade

\* copy_fifo.c copies the mode.
FifoModeCopied == Copying => Copy!FifoModeCopied

\* 13.1.c prints what happened to its child, and ends with it.
NoticesHappened == Waiting => Wait!NoticesHappened

\* 14.1.c ends after its child, whose line is then in 1.txt.
LineInFile == Waiting => Wait!LineInFile

\* 13.1.c and 14.1.c end once their child has ended.
ParentEnds == Waiting => Wait!ParentEnds

\* The threads of 19_4.c and 19_test.c do not disturb each other.
ResultRight == Threading => Pool!ResultRight

\* What 15_1.c prints is a signal that was sent and its sender.
PairTrue == Signalled => Signals!PairTrue

\* 15_1.c prints a line for a signal only.
EachLineHasSignal == Signalled => Signals!EachLineHasSignal
=============================================================================
