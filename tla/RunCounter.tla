------------------------------ MODULE RunCounter ------------------------------
(***************************************************************************)
(* 11.c, the program that counts its own runs in data.txt.  Any number of  *)
(* runs may be in progress at once; they share the file and synchronise    *)
(* with flock alone.  One action stands for one system call, or for the    *)
(* stretch of library calls between two of them that touches nothing       *)
(* shared; a failing call takes its error branch to the end, which closes  *)
(* the file and therefore drops the lock.                                  *)
(***************************************************************************)
EXTENDS DecimalText

CONSTANTS
    Runs,          \* the runs of the program
    NoRun,         \* the lock's holder when it is free
    InitialFiles,  \* what data.txt may hold before the first run
    Faults         \* the calls that may fail, and "kill"

FaultNames == {"open", "lock", "write", "unlock", "read", "asprintf", "short", "kill"}

ASSUME RunsAssumption    == NoRun \notin Runs
ASSUME FilesAssumption   == InitialFiles \subseteq Seq(Char)
ASSUME FaultsAssumption  == Faults \subseteq FaultNames

VARIABLES
    pc,        \* the next call of each run
    file,      \* the bytes of data.txt; empty and absent are the same to open
    holder,    \* the run that holds the exclusive lock, or NoRun
    cnt,       \* the local variable cnt of each run
    exit,      \* the exit status of each run that ended
    counted    \* history: the runs whose pwrite stored their number

vars == <<pc, file, holder, cnt, exit, counted>>

Running == -1      \* exit status of a run that has not ended
Killed  == 137     \* ended by a signal

Locations == {"open", "lock", "scan", "write", "unlock", "close", "done"}

Init ==
    /\ pc = [r \in Runs |-> "open"]
    /\ file \in InitialFiles
    /\ holder = NoRun
    /\ cnt = [r \in Runs |-> 0]
    /\ exit = [r \in Runs |-> Running]
    /\ counted = {}

-----------------------------------------------------------------------------
\* Mutant: an unbounded counter.
IncrementPastMax(n) == n + 1

\* cnt++ : past INT_MAX the build's two's complement int wraps.
Increment(n) == IF n = IntMax THEN -IntMax - 1 ELSE n + 1

\* The process ends: the kernel closes its descriptors and frees its lock.
End(r, status) ==
    /\ pc' = [pc EXCEPT ![r] = "done"]
    /\ exit' = [exit EXCEPT ![r] = status]
    /\ holder' = IF holder = r THEN NoRun ELSE holder

Goto(r, to) == pc' = [pc EXCEPT ![r] = to] /\ UNCHANGED exit

\* open(O_RDWR | O_CREAT) and fdopen.
Open(r) ==
    /\ pc[r] = "open"
    /\ Goto(r, "lock")
    /\ UNCHANGED <<file, holder, cnt, counted>>

\* Mutant: LOCK_SH instead of LOCK_EX.
LockShared(r) ==
    /\ pc[r] = "lock"
    /\ holder' = r
    /\ Goto(r, "scan")
    /\ UNCHANGED <<file, cnt, counted>>

\* flock(fd, LOCK_EX) returns once no other run holds the lock.
Lock(r) ==
    /\ pc[r] = "lock"
    /\ holder = NoRun
    /\ holder' = r
    /\ Goto(r, "scan")
    /\ UNCHANGED <<file, cnt, counted>>

\* fscanf and cnt++.  At the end of the file fscanf returns EOF, which is not
\* the 0 that "if(!fscanf(...))" rejects, and cnt is still 0.
Scan(r) ==
    /\ pc[r] = "scan"
    /\ \E n \in ScanInt(file, 0) : cnt' = [cnt EXCEPT ![r] = Increment(n)]
    /\ Goto(r, "write")
    /\ UNCHANGED <<file, holder, counted>>

\* Mutant: wait for the file to hold a number.
ScanRetries(r) ==
    /\ pc[r] = "scan"
    /\ ScanInt(file, 0) = {}
    /\ UNCHANGED vars

\* The file does not start with a number.
ScanRejects(r) ==
    /\ pc[r] = "scan"
    /\ ScanInt(file, 0) = {}
    /\ End(r, 3)
    /\ UNCHANGED <<file, cnt, counted>>

\* A read error inside fscanf: EOF again, taken for an empty file.
ScanReadError(r) ==
    /\ "read" \in Faults /\ pc[r] = "scan"
    /\ cnt' = [cnt EXCEPT ![r] = Increment(0)]
    /\ Goto(r, "write")
    /\ UNCHANGED <<file, holder, counted>>

\* asprintf fails and newcnt, which it may not have set, is freed: the run
\* reports 4 or dies in free().
FormatFails(r) ==
    /\ "asprintf" \in Faults /\ pc[r] = "write"
    /\ \E status \in {4, Killed} : End(r, status)
    /\ UNCHANGED <<file, cnt, counted>>

\* pwrite stores the whole text.
Write(r) ==
    /\ pc[r] = "write"
    /\ file' = Overwrite(file, FormatInt(cnt[r]))
    /\ counted' = counted \cup {r}
    /\ Goto(r, "unlock")
    /\ UNCHANGED <<holder, cnt>>

\* pwrite stores only the head of the text; only -1 counts as a failure.
WriteShort(r) ==
    /\ "short" \in Faults /\ pc[r] = "write"
    /\ \E k \in 1 .. Len(FormatInt(cnt[r])) - 1 :
           file' = Overwrite(file, SubSeq(FormatInt(cnt[r]), 1, k))
    /\ counted' = counted \cup {r}
    /\ Goto(r, "unlock")
    /\ UNCHANGED <<holder, cnt>>

\* flock(fd, LOCK_UN).
Unlock(r) ==
    /\ pc[r] = "unlock"
    /\ holder' = IF holder = r THEN NoRun ELSE holder
    /\ Goto(r, "close")
    /\ UNCHANGED <<file, cnt, counted>>

\* fclose and return 0.
Close(r) ==
    /\ pc[r] = "close"
    /\ End(r, 0)
    /\ UNCHANGED <<file, cnt, counted>>

\* Mutant: the last two statuses swapped.
FailureStatusSwapped == [open |-> 1, lock |-> 2, write |-> 6, unlock |-> 5]

\* A call returns -1: the status its branch returns.
FailureStatus == [open |-> 1, lock |-> 2, write |-> 5, unlock |-> 6]

CallFails(r) ==
    /\ pc[r] \in Faults \cap DOMAIN FailureStatus
    /\ End(r, FailureStatus[pc[r]])
    /\ UNCHANGED <<file, cnt, counted>>

\* A signal ends the run between any two calls.
Kill(r) ==
    /\ "kill" \in Faults /\ pc[r] # "done"
    /\ End(r, Killed)
    /\ UNCHANGED <<file, cnt, counted>>

\* The steps of a run whose calls succeed.
Step(r) == Open(r) \/ Lock(r) \/ Scan(r) \/ ScanRejects(r) \/ Write(r)
               \/ Unlock(r) \/ Close(r)

\* The steps the environment forces on it.
Fault(r) == CallFails(r) \/ ScanReadError(r) \/ FormatFails(r) \/ WriteShort(r) \/ Kill(r)

Next == \E r \in Runs : Step(r) \/ Fault(r)

\* The scheduler runs every process that can run.
Fairness == \A r \in Runs : WF_vars(Step(r))

Spec == Init /\ [][Next]_vars /\ Fairness

-----------------------------------------------------------------------------
\* The type invariant of 11.c's state.
TypeOK ==
    /\ pc \in [Runs -> Locations]
    /\ file \in Seq(Char)
    /\ holder \in Runs \cup {NoRun}
    /\ cnt \in [Runs -> CInt]
    /\ exit \in [Runs -> {Running, Killed} \cup 0 .. 6]
    /\ counted \subseteq Runs

\* Between flock(LOCK_EX) and flock(LOCK_UN).
InCriticalSection(r) == pc[r] \in {"scan", "write", "unlock"}

\* The lock and the runs agree: whoever is between the two flock calls of
\* 11.c holds the lock, so at most one run is, and the lock is never left
\* with a run that has ended or not yet asked for it.
LockInv == \A r \in Runs : InCriticalSection(r) <=> holder = r

\* What a run is about to write is one more than what the file says now: no
\* other run of 11.c has written between its fscanf and its pwrite.
NoStaleWrite ==
    \A r \in Runs : pc[r] = "write" =>
        \E n \in ScanInt(file, 0) : cnt[r] = Increment(n)

\* The exit status of 11.c tells whether the run was counted: statuses 0 and
\* 6 come after the pwrite, statuses 1 to 5 before it.
StatusTellsCounted ==
    \A r \in Runs : /\ exit[r] \in {0, 6} => r \in counted
                    /\ exit[r] \in 1 .. 5 => r \notin counted

\* Every run of 11.c ends, however the runs interleave and whichever of them
\* fail or are killed while they hold the lock.
EveryRunEnds == \A r \in Runs : <>(pc[r] = "done")

\* 11.c implements the indivisible counter: data.txt, read as a number, goes
\* up by exactly one whenever a run is counted, and changes at no other time.
Number == [text \in Seq(Char) |->
              IF ScanInt(text, 0) = {} THEN 0 ELSE CHOOSE n \in ScanInt(text, 0) : TRUE]
Abstract == INSTANCE AtomicCounter WITH value <- Number[file]
CountsItsRuns == Abstract!Spec
=============================================================================
