-------------------------------- MODULE Pipeline --------------------------------
(***************************************************************************)
(* 14.3.c, 14.3.1.c, 14.4.c and 14_2.c build the shell's "producer | wc    *)
(* -l": pipe, fork, and then in each process a few close and dup2 calls    *)
(* before it becomes the program it is to run.  The four differ in the     *)
(* producer, in their exit statuses, and in whether the parent redirects   *)
(* its input at all; a record describes each.                              *)
(*                                                                         *)
(* One action is one system call, on descriptor tables that fork copies.   *)
(* What the pipe carries is counted in lines.                              *)
(***************************************************************************)
EXTENDS Naturals, FiniteSets

CONSTANTS
    Programs,     \* which of the four sources run
    OpenAtStart,  \* the sets of standard descriptors the shell may leave open
    Capacity,     \* lines the pipe holds
    MaxLines,     \* bound: lines a producer prints, or a user types
    Faults        \* the calls that may fail, and "kill"

ASSUME BoundsAssumption == Capacity \in Nat \ {0} /\ MaxLines \in Nat
ASSUME StartAssumption  == OpenAtStart \subseteq SUBSET {0, 1}
ASSUME FaultsAssumption == Faults \subseteq {"pipe", "fork", "dup2", "exec", "kill"}

\* Mutant: 14.3.c without the parent's dup2, as 14_2.c.
P14_3_NoRedirect == [redirects |-> FALSE, lines |-> 0 .. MaxLines, fork |-> 1,
                     childDup2 |-> 1, childExec |-> 1, wcExec |-> 1]

\* Mutant: 14.3.c that ends with "return 0", as 14.4.c.
P14_3_ReturnsZero == [redirects |-> TRUE, lines |-> 0 .. MaxLines, fork |-> 1,
                      childDup2 |-> 1, childExec |-> 1, wcExec |-> 0]

\* last | wc -l
P14_3 == [redirects |-> TRUE, lines |-> 0 .. MaxLines, fork |-> 1,
          childDup2 |-> 1, childExec |-> 1, wcExec |-> 1]

\* grep 'model name' /proc/cpuinfo | wc -l
P14_3_1 == [redirects |-> TRUE, lines |-> 0 .. MaxLines, fork |-> 1,
            childDup2 |-> 1, childExec |-> 1, wcExec |-> 1]

\* gzip '<' 1.txt | wc -l: given file names, gzip prints nothing.
P14_4 == [redirects |-> TRUE, lines |-> {0}, fork |-> 1,
          childDup2 |-> 1, childExec |-> 1, wcExec |-> 0]

\* last | wc -l once more, the parent's half left out.
P14_2 == [redirects |-> FALSE, lines |-> 0 .. MaxLines, fork |-> 2,
          childDup2 |-> 3, childExec |-> 4, wcExec |-> 0]

Program == [p \in {"14.3", "14.3.1", "14.4", "14_2"} |->
               CASE p = "14.3"   -> P14_3
                 [] p = "14.3.1" -> P14_3_1
                 [] p = "14.4"   -> P14_4
                 [] p = "14_2"   -> P14_2]

ASSUME ProgramsAssumption == Programs \subseteq DOMAIN Program

VARIABLES
    prog,      \* the program that runs
    pc,        \* the next call of the parent and the child
    fds,       \* their descriptor tables
    pipe_fds,  \* the descriptors of the pipe, the same in both
    buf,       \* how many lines are in the pipe
    todo,      \* how many lines the producer has not written
    written,   \* history: how many lines it has
    counted,   \* how many lines wc has read
    printed,   \* the number wc printed, or NoCount
    exit       \* their exit statuses

vars == <<prog, pc, fds, pipe_fds, buf, todo, written, counted, printed, exit>>
dataVars == <<buf, todo, written, counted, printed>>

Process == {"parent", "child"}
Fd == 0 .. 4                 \* 2 is stderr, always open and never touched
File == {"none", "tty", "rd", "wr"}
NoCount == MaxLines + 1
Running == 255
Killed  == 137

Locations == {"absent", "pipe", "fork", "close_other", "dup2", "close_own", "exec",
              "run", "done"}

Init ==
    /\ prog \in Programs
    /\ pc = [p \in Process |-> IF p = "parent" THEN "pipe" ELSE "absent"]
    /\ \E std \in OpenAtStart :
           fds = [p \in Process |->
                     [d \in Fd |-> IF p = "parent" /\ d \in std \cup {2} THEN "tty" ELSE "none"]]
    /\ pipe_fds = [rd |-> 0, wr |-> 0]
    /\ buf = 0
    /\ todo = 0
    /\ written = 0
    /\ counted = 0
    /\ printed = NoCount
    /\ exit = [p \in Process |-> Running]

-----------------------------------------------------------------------------
(* The kernel's part of the calls. *)

Goto(p, to) == pc' = [pc EXCEPT ![p] = to] /\ UNCHANGED exit

Closed == [d \in Fd |-> "none"]

\* The process ends and its descriptors are closed.
End(p, status) ==
    /\ pc' = [pc EXCEPT ![p] = "done"]
    /\ exit' = [exit EXCEPT ![p] = status]
    /\ fds' = [fds EXCEPT ![p] = Closed]

CloseFd(p, d) == fds' = [fds EXCEPT ![p][d] = "none"]

Dup2(p, from, to) == fds' = [fds EXCEPT ![p][to] = fds[p][from]]

\* A new descriptor is the lowest one that is free.
LowestFree(table, taken) ==
    CHOOSE d \in Fd \ taken :
        /\ table[d] = "none"
        /\ \A e \in Fd \ taken : table[e] = "none" => d <= e

EndsOpen(file) == {p \in Process : \E d \in Fd : fds[p][d] = file}

-----------------------------------------------------------------------------
(* main, before and in fork *)

MakePipe ==
    /\ pc["parent"] = "pipe"
    /\ LET rd == LowestFree(fds["parent"], {})
           wr == LowestFree(fds["parent"], {rd})
       IN /\ pipe_fds' = [rd |-> rd, wr |-> wr]
          /\ fds' = [fds EXCEPT !["parent"][rd] = "rd", !["parent"][wr] = "wr"]
    /\ Goto("parent", "fork")
    /\ UNCHANGED <<prog, dataVars>>

MakePipeFails ==
    /\ "pipe" \in Faults /\ pc["parent"] = "pipe"
    /\ End("parent", 1)
    /\ UNCHANGED <<prog, pipe_fds, dataVars>>

Fork ==
    /\ pc["parent"] = "fork"
    /\ fds' = [fds EXCEPT !["child"] = fds["parent"]]
    /\ pc' = [p \in Process |-> "close_other"]
    /\ UNCHANGED <<prog, pipe_fds, dataVars, exit>>

ForkFails ==
    /\ "fork" \in Faults /\ pc["parent"] = "fork"
    /\ End("parent", Program[prog].fork)
    /\ UNCHANGED <<prog, pipe_fds, dataVars>>

-----------------------------------------------------------------------------
(* Either process, up to exec: close the end it does not use, put the other *)
(* in the place of a standard descriptor, close the original.               *)

Own(p)      == IF p = "parent" THEN pipe_fds.rd ELSE pipe_fds.wr
Other(p)    == IF p = "parent" THEN pipe_fds.wr ELSE pipe_fds.rd
Standard(p) == IF p = "parent" THEN 0 ELSE 1

Redirects(p) == p = "child" \/ Program[prog].redirects

\* Mutant: the parent keeps the write end.
CloseOtherInChild(p) ==
    /\ pc[p] = "close_other"
    /\ IF p = "child" THEN CloseFd(p, Other(p)) ELSE UNCHANGED fds
    /\ Goto(p, IF Redirects(p) THEN "dup2" ELSE "exec")
    /\ UNCHANGED <<prog, pipe_fds, dataVars>>

\* Mutant: the child keeps the read end.
CloseOtherInParent(p) ==
    /\ pc[p] = "close_other"
    /\ IF p = "parent" THEN CloseFd(p, Other(p)) ELSE UNCHANGED fds
    /\ Goto(p, IF Redirects(p) THEN "dup2" ELSE "exec")
    /\ UNCHANGED <<prog, pipe_fds, dataVars>>

CloseOther(p) ==
    /\ pc[p] = "close_other"
    /\ CloseFd(p, Other(p))
    /\ Goto(p, IF Redirects(p) THEN "dup2" ELSE "exec")
    /\ UNCHANGED <<prog, pipe_fds, dataVars>>

Redirect(p) ==
    /\ pc[p] = "dup2"
    /\ Dup2(p, Own(p), Standard(p))
    /\ Goto(p, "close_own")
    /\ UNCHANGED <<prog, pipe_fds, dataVars>>

RedirectFails(p) ==
    /\ "dup2" \in Faults /\ pc[p] = "dup2"
    /\ End(p, IF p = "parent" THEN 1 ELSE Program[prog].childDup2)
    /\ UNCHANGED <<prog, pipe_fds, dataVars>>

\* Mutant: the original of the redirected descriptor is not closed.
CloseOwnForgotten(p) ==
    /\ pc[p] = "close_own"
    /\ Goto(p, "exec")
    /\ UNCHANGED <<prog, fds, pipe_fds, dataVars>>

CloseOwn(p) ==
    /\ pc[p] = "close_own"
    /\ CloseFd(p, Own(p))
    /\ Goto(p, "exec")
    /\ UNCHANGED <<prog, pipe_fds, dataVars>>

\* exec keeps the descriptors; the producer has some number of lines to print.
Exec(p) ==
    /\ pc[p] = "exec"
    /\ IF p = "child" THEN todo' \in Program[prog].lines ELSE UNCHANGED todo
    /\ Goto(p, "run")
    /\ UNCHANGED <<prog, fds, pipe_fds, buf, written, counted, printed>>

\* Mutant: the status is errno, here EACCES.
ExecFailsErrno(p) ==
    /\ "exec" \in Faults /\ pc[p] = "exec"
    /\ End(p, 13)
    /\ UNCHANGED <<prog, pipe_fds, dataVars>>

ExecFails(p) ==
    /\ "exec" \in Faults /\ pc[p] = "exec"
    /\ End(p, IF p = "parent" THEN Program[prog].wcExec ELSE Program[prog].childExec)
    /\ UNCHANGED <<prog, pipe_fds, dataVars>>

-----------------------------------------------------------------------------
(* The producer. *)

ProduceLine ==
    /\ pc["child"] = "run" /\ todo > 0
    /\ fds["child"][1] = "wr" /\ EndsOpen("rd") # {}
    /\ buf < Capacity
    /\ buf' = buf + 1
    /\ todo' = todo - 1
    /\ written' = written + 1
    /\ UNCHANGED <<prog, pc, fds, pipe_fds, counted, printed, exit>>

\* SIGPIPE when nobody can read, an error when stdout is closed, or the end.
ProducerEnds ==
    /\ pc["child"] = "run"
    /\ \/ /\ todo > 0 /\ fds["child"][1] = "wr" /\ EndsOpen("rd") = {}
          /\ End("child", Killed)
       \/ /\ todo > 0 /\ fds["child"][1] = "none"
          /\ End("child", 1)
       \/ /\ todo = 0
          /\ End("child", 0)
    /\ UNCHANGED <<prog, pipe_fds, dataVars>>

-----------------------------------------------------------------------------
(* wc -l *)

CountLine ==
    /\ pc["parent"] = "run" /\ fds["parent"][0] = "rd" /\ buf > 0
    /\ buf' = buf - 1
    /\ counted' = counted + 1
    /\ UNCHANGED <<prog, pc, fds, pipe_fds, todo, written, printed, exit>>

\* wc prints its number, unless it has no stdout.
PrintNumber == printed' = IF fds["parent"][1] = "tty" THEN counted ELSE printed

Report == PrintNumber /\ End("parent", IF fds["parent"][1] = "tty" THEN 0 ELSE 1)

\* The pipe is at its end once it is empty and nobody can write to it.
CountEnds ==
    /\ pc["parent"] = "run" /\ fds["parent"][0] = "rd"
    /\ buf = 0 /\ EndsOpen("wr") = {}
    /\ Report
    /\ UNCHANGED <<prog, pipe_fds, buf, todo, written, counted>>

\* Without a stdin wc reports the error, but prints the 0 it has counted too.
CountFails ==
    /\ pc["parent"] = "run" /\ fds["parent"][0] = "none"
    /\ PrintNumber /\ End("parent", 1)
    /\ UNCHANGED <<prog, pipe_fds, buf, todo, written, counted>>

\* stdin is still the terminal: the user types a line, or the end of input.
UserTypes ==
    /\ pc["parent"] = "run" /\ fds["parent"][0] = "tty"
    /\ \/ /\ counted < MaxLines
          /\ counted' = counted + 1
          /\ UNCHANGED <<pc, fds, printed, exit>>
       \/ /\ Report
          /\ UNCHANGED counted
    /\ UNCHANGED <<prog, pipe_fds, buf, todo, written>>

-----------------------------------------------------------------------------
Kill(p) ==
    /\ "kill" \in Faults /\ pc[p] \notin {"absent", "done"}
    /\ End(p, Killed)
    /\ UNCHANGED <<prog, pipe_fds, dataVars>>

Setup(p) == CloseOther(p) \/ Redirect(p) \/ CloseOwn(p) \/ Exec(p)

ParentStep == MakePipe \/ Fork \/ Setup("parent") \/ CountLine \/ CountEnds \/ CountFails
ChildStep  == Setup("child") \/ ProduceLine \/ ProducerEnds

Fault == \/ MakePipeFails \/ ForkFails
         \/ \E p \in Process : RedirectFails(p) \/ ExecFails(p) \/ Kill(p)

Next == ParentStep \/ ChildStep \/ UserTypes \/ Fault

\* The scheduler runs a process that can run; the user need never type.
Fairness == WF_vars(ParentStep) /\ WF_vars(ChildStep)

Spec == Init /\ [][Next]_vars /\ Fairness

-----------------------------------------------------------------------------
\* The type invariant of the two processes and the pipe.
TypeOK ==
    /\ prog \in Programs
    /\ pc \in [Process -> Locations]
    /\ fds \in [Process -> [Fd -> File]]
    /\ pipe_fds \in [rd : Fd, wr : Fd]
    /\ buf \in 0 .. Capacity
    /\ {todo, written, counted} \subseteq 0 .. MaxLines
    /\ printed \in 0 .. NoCount
    /\ exit \in [Process -> {Running, Killed} \cup 0 .. 4]

NumberIsRight == printed # NoCount => printed = written

\* When the pipeline ends with 0, what wc printed is the number of lines the
\* producer put into the pipe, all of them, also when the producer failed or was
\* killed meanwhile.
CountsProducer == prog # "14_2" /\ exit["parent"] = 0 => NumberIsRight

\* The same of 14.3.c whatever its status: the shell's "last | wc -l" prints the
\* number of lines also when it is started without a stdin.
LastIntoWc == prog = "14.3" => NumberIsRight

\* Nothing but the redirected standard descriptors refers to the pipe once a
\* process runs its program: a forgotten write end would keep wc waiting, a
\* forgotten read end would keep the producer from dying of SIGPIPE.
NoStrayEnds ==
    \A p \in Process : pc[p] = "run" /\ Redirects(p) =>
        \A d \in Fd : fds[p][d] \in {"rd", "wr"} =>
            d = Standard(p) /\ fds[p][d] = IF p = "parent" THEN "rd" ELSE "wr"

\* Both processes end, whichever of them fails or is killed first (wc of
\* 14_2.c waits for the user).
BothEnd == /\ prog # "14_2" ~> pc["parent"] = "done"
           /\ prog # "14_2" /\ pc["child"] # "absent" ~> pc["child"] = "done"

\* A producer does not outlive wc for long, in any of the four programs: its
\* next write finds no reader.
ProducerEndsWithWc == pc["parent"] = "done" ~> pc["child"] \in {"absent", "done"}

\* Status 0 of the pipeline means that a number was printed.  (In 14.4.c it
\* also means that wc could not be started.  A number may be printed with
\* status 1.)
StatusZeroMeansCounted ==
    exit["parent"] = 0 /\ prog \in {"14.3", "14.3.1"} => printed # NoCount
=============================================================================
