------------------------------ MODULE ChildWait ------------------------------
(***************************************************************************)
(* A parent that waits for its child: 13.1.c, which reports each stop and  *)
(* continuation until the child has ended, and 14.1.c, whose child prints  *)
(* into 1.txt.  Both processes run and signals come at any time.  One      *)
(* action is one system call, or one signal.                               *)
(***************************************************************************)
EXTENDS ExitStatus, Sequences, SequencesExt, FiniteSets

CONSTANTS
    MaxSignals,     \* bound: the signals that others send to the child
    Faults          \* the calls that may fail

WaitConstants == MaxSignals \in Nat

VARIABLES
    prog, pc, exit,     \* those of the parent
    child_pc,           \* the child's next call
    child,              \* its state; "exited" is with 0, "failed" with 1
    report,             \* the change of the child's state that waitpid has not
                        \* returned yet, "none" if there is none
    ignored,            \* SIGCHLD was ignored when the program started
    status,             \* the local variable status
    notices,            \* what the parent printed
    stdout,             \* what the child's descriptor 1 is
    file_fd,            \* the child's descriptor of 1.txt
    output,             \* the file that got the child's line
    changes             \* history: the changes of the child's state

parentVars == <<pc, exit, status, notices>>
childVars == <<child_pc, child, report, changes, stdout, file_fd, output>>
vars == <<prog, parentVars, childVars, ignored>>

WaitPrograms == {"13.1", "14.1"}
Closed == 0
Stdout == 1     \* fileno(stdout)

Init ==
    /\ prog \in WaitPrograms
    /\ pc = "fork" /\ exit = Running
    /\ child_pc = "none" /\ child = "none" /\ report = "none"
    /\ ignored \in BOOLEAN
    /\ status = "exited" /\ notices = << >>
    /\ stdout \in {"terminal", "closed"} /\ file_fd = Closed /\ output = "none"
    /\ changes = << >>

-----------------------------------------------------------------------------
(* The child *)

\* A change replaces the report of the one before.
Change(state, what) ==
    /\ child' = state
    /\ report' = what
    /\ changes' = Append(changes, what)

\* 13.1's child sleeps; that of 14.1 goes through open, dup2 and close, where
\* a closed descriptor 1 is the one that open returns.
ChildRedirects ==
    /\ child = "running" /\ prog = "14.1"
    /\ \/ /\ child_pc = "open" /\ child_pc' = "dup2"
          /\ file_fd' = IF stdout = "closed" THEN Stdout ELSE 3
          /\ stdout' = IF stdout = "closed" THEN "1.txt" ELSE stdout
       \/ /\ child_pc = "dup2" /\ child_pc' = "close"
          /\ stdout' = "1.txt"
          /\ UNCHANGED file_fd
       \/ /\ child_pc = "close" /\ child_pc' = "exit"
          /\ stdout' = IF file_fd = Stdout THEN "closed" ELSE stdout
          /\ file_fd' = Closed
    /\ UNCHANGED <<prog, parentVars, child, report, changes, output, ignored>>

\* What was printed is written when the process exits; nobody looks at the
\* result of that write.
ChildExits ==
    /\ child = "running" /\ child_pc = "exit"
    /\ child_pc' = "done"
    /\ Change("exited", "exited")
    /\ output' = IF stdout = "closed" THEN "none" ELSE stdout
    /\ UNCHANGED <<prog, parentVars, stdout, file_fd, ignored>>

\* open or dup2 fails, and the child returns 1.
ChildFails ==
    /\ child = "running" /\ child_pc \in Faults \cap {"open", "dup2"}
    /\ child_pc' = "done"
    /\ Change("failed", "failed")
    /\ UNCHANGED <<prog, parentVars, stdout, file_fd, output, ignored>>

Signal ==
    /\ Len(changes) < MaxSignals
    /\ \/ child = "running" /\ Change("stopped", "stopped") /\ UNCHANGED child_pc
       \/ child = "stopped" /\ Change("running", "continued") /\ UNCHANGED child_pc
       \/ child \in {"running", "stopped"} /\ Change("killed", "killed") /\ child_pc' = "done"
    /\ UNCHANGED <<prog, parentVars, stdout, file_fd, output, ignored>>

-----------------------------------------------------------------------------
(* The parent *)

Ended == {"exited", "failed", "killed"}

End(s) == pc' = "done" /\ exit' = s

Fork ==
    /\ pc = "fork"
    /\ pc' = "wait" /\ UNCHANGED exit
    /\ child' = "running"
    /\ child_pc' = IF prog = "14.1" THEN "open" ELSE "exit"
    /\ UNCHANGED <<prog, status, notices, report, changes, stdout, file_fd, output, ignored>>

ForkFails ==
    /\ pc = "fork" /\ "fork" \in Faults
    /\ End(1)
    /\ UNCHANGED <<prog, status, notices, childVars, ignored>>

\* A parent that ignores SIGCHLD gets no status of the end: waitpid fails.
Reportable == report # "none" /\ ~(ignored /\ report \in Ended)

\* Mutant: the body of the loop is skipped after a continuation.
PrintsUnlessContinued(what) == IF what = "continued" THEN << >> ELSE <<what>>

\* What the parent prints about a status.
Prints(what) == <<what>>

\* Mutant: the loop looks at WIFEXITED only.
LeavesLoopOnExit(what) == what \in {"exited", "failed"}

\* WIFEXITED or WIFSIGNALED: the loop of 13.1 is left.
LeavesLoop(what) == what \in Ended

Waitpid ==
    /\ pc = "wait" /\ prog = "13.1" /\ Reportable
    /\ status' = report
    /\ report' = "none"
    /\ notices' = notices \o Prints(report)
    /\ IF LeavesLoop(report) THEN End(0) ELSE UNCHANGED <<pc, exit>>
    /\ UNCHANGED <<prog, child_pc, child, changes, stdout, file_fd, output, ignored>>

\* When the child has gone without a report, waitpid returns -1 and status is
\* what it was, 0 at first: "exited".  After a stop the loop prints it for ever.
WaitpidFails ==
    /\ pc = "wait" /\ prog = "13.1" /\ ~Reportable /\ child \in Ended
    /\ IF LeavesLoop(status)
         THEN notices' = notices \o Prints(status) /\ End(0)
         ELSE UNCHANGED <<notices, pc, exit>>
    /\ UNCHANGED <<prog, status, childVars, ignored>>

\* Mutant: wait(NULL) left out.
WaitReturnsAtOnce ==
    /\ pc = "wait" /\ prog = "14.1"
    /\ End(0)
    /\ UNCHANGED <<prog, status, notices, childVars, ignored>>

\* wait(NULL) of 14.1 returns when the child has ended, ignored or not.
Wait ==
    /\ pc = "wait" /\ prog = "14.1" /\ child \in Ended
    /\ End(0)
    /\ UNCHANGED <<prog, status, notices, childVars, ignored>>

Parent == Fork \/ Waitpid \/ WaitpidFails \/ Wait
Child == ChildRedirects \/ ChildExits

Next == Parent \/ Child \/ ForkFails \/ ChildFails \/ Signal

\* Both processes are scheduled.
Spec == Init /\ [][Next]_vars /\ WF_vars(Parent) /\ WF_vars(Child)

-----------------------------------------------------------------------------
What == {"stopped", "continued"} \cup Ended

\* The type invariant of the two processes.
TypeOK ==
    /\ prog \in WaitPrograms /\ pc \in {"fork", "wait", "done"}
    /\ exit \in {Running, 0, 1}
    /\ child_pc \in {"none", "open", "dup2", "close", "exit", "done"}
    /\ child \in {"none", "running", "stopped"} \cup Ended
    /\ report \in What \cup {"none"} /\ status \in What
    /\ {notices, changes} \subseteq Seq(What)
    /\ stdout \in {"terminal", "closed", "1.txt"} /\ file_fd \in {Closed, Stdout, 3}
    /\ output \in {"none", "terminal", "1.txt"}
    /\ ignored \in BOOLEAN

\* Some of t's elements, in their order.
IsSubsequence(s, t) ==
    \E at \in [DOMAIN s -> DOMAIN t] :
        \A i \in DOMAIN s : s[i] = t[at[i]] /\ \A j \in 1 .. i - 1 : at[j] < at[i]

\* 13.1.c prints changes that happened, in their order and none twice; the last
\* one is missing only while waitpid is to return it.  So it ends with the
\* child's end.
NoticesHappened ==
    prog = "13.1" /\ ~ignored =>
        /\ IsSubsequence(notices, changes)
        /\ changes # << >> /\ report = "none" => notices # << >> /\ Last(notices) = Last(changes)
        /\ exit = 0 => child \in Ended /\ Last(notices) = child

\* When 14.1.c ends, its child has ended; if nothing failed and descriptor 1
\* was open at the start, the child's line is in 1.txt.
LineInFile ==
    prog = "14.1" /\ exit = 0 =>
        /\ child \in Ended
        /\ child = "exited" /\ stdout # "closed" => output = "1.txt"

\* The parent ends with its child; 13.1.c not when it ignores SIGCHLD and has
\* printed a stop or a continuation.
ParentEnds == child \in Ended /\ (prog = "13.1" /\ ignored => status = "exited") ~> pc = "done"
=============================================================================
