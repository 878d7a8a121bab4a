---------------------------- MODULE PipelineProofs ----------------------------
(***************************************************************************)
(* Proofs about Pipeline for any of the four programs, any descriptors the *)
(* shell left open, any capacity of the pipe, any number of lines and any  *)
(* set of faults.                                                          *)
(***************************************************************************)
EXTENDS Pipeline, TLAPS

-----------------------------------------------------------------------------
(* The inductive invariant. *)

OwnEnd(p)   == IF p = "parent" THEN "rd" ELSE "wr"
OtherEnd(p) == IF p = "parent" THEN "wr" ELSE "rd"

\* The descriptors of p that stand for one end of the pipe.
At(p, file) == {d \in Fd : fds[p][d] = file}

\* The child starts as a copy of the parent, after the pipe was made.
ForkOrder ==
    /\ pc["parent"] # "absent" /\ pc["child"] \notin {"pipe", "fork"}
    /\ pc["parent"] \in {"pipe", "fork"} => pc["child"] = "absent"
    /\ pc["parent"] = "pipe" => fds["parent"][3] = "none" /\ fds["parent"][4] = "none"

\* Which descriptors stand for the pipe, at each call of a process.  When the
\* end a process keeps already has the standard descriptor's number (the shell
\* left that one closed), closing "the original" closes it: it is then closed
\* when the program runs, but never the terminal.
TableOf(p) ==
    /\ pc[p] \in {"absent", "pipe", "done"} => At(p, "rd") = {} /\ At(p, "wr") = {}
    /\ pc[p] \in {"fork", "close_other"} =>
           At(p, OwnEnd(p)) = {Own(p)} /\ At(p, OtherEnd(p)) = {Other(p)}
    /\ pc[p] \in {"dup2", "close_own", "exec", "run"} => At(p, OtherEnd(p)) = {}
    /\ pc[p] = "dup2" => At(p, OwnEnd(p)) = {Own(p)}
    /\ pc[p] = "close_own" => At(p, OwnEnd(p)) = {Own(p), Standard(p)}
    /\ pc[p] \in {"exec", "run"} /\ Redirects(p) =>
           /\ At(p, OwnEnd(p)) = {Standard(p)} \ {Own(p)}
           /\ fds[p][Standard(p)] # "tty"

Tables == \A p \in Process : TableOf(p)

\* No line is lost or made up on the way to wc, unless wc reads the terminal.
Lines ==
    /\ written + todo <= MaxLines /\ buf <= written
    /\ pc["child"] \notin {"run", "done"} => written = 0 /\ todo = 0
    /\ pc["parent"] \notin {"run", "done"} => counted = 0 /\ buf = written
    /\ Program[prog].redirects \/ (pc["parent"] = "run" /\ fds["parent"][0] = "rd")
           => written = counted + buf

\* Once wc has printed its number the parent is at its end.  With status 0 the
\* child can write no more; with status 1, without a stdin, it still may.
Final == printed = written /\ At("child", "wr") = {}

Printed ==
    printed # NoCount =>
        /\ pc["parent"] = "done"
        /\ Program[prog].redirects /\ exit["parent"] = 0 => Final

PipeInv == TypeOK /\ ForkOrder /\ Tables /\ Lines /\ Printed /\ StatusZeroMeansCounted

-----------------------------------------------------------------------------
(* The four programs, and the lowest free descriptor. *)

LEMMA ProgramFacts ==
    ASSUME NEW g \in Programs
    PROVE  /\ Program[g].redirects <=> g # "14_2"
           /\ Program[g].lines \subseteq 0 .. MaxLines
           /\ Program[g].fork \in 1 .. 2
           /\ Program[g].childDup2 \in 1 .. 3
           /\ Program[g].childExec \in 1 .. 4
           /\ Program[g].wcExec \in 0 .. 1
           /\ g \in {"14.3", "14.3.1"} => Program[g].wcExec = 1
<1>. g \in {"14.3", "14.3.1", "14.4", "14_2"} /\ MaxLines \in Nat
  BY ProgramsAssumption, BoundsAssumption DEF Program
<1>1. CASE g = "14.3"
  <2>1. Program[g] = P14_3
    BY <1>1 DEF Program
  <2>. QED
    BY <1>1, <2>1 DEF P14_3
<1>2. CASE g = "14.3.1"
  <2>1. Program[g] = P14_3_1
    BY <1>2 DEF Program
  <2>. QED
    BY <1>2, <2>1 DEF P14_3_1
<1>3. CASE g = "14.4"
  <2>1. Program[g] = P14_4
    BY <1>3 DEF Program
  <2>. QED
    BY <1>3, <2>1 DEF P14_4
<1>4. CASE g = "14_2"
  <2>1. Program[g] = P14_2
    BY <1>4 DEF Program
  <2>. QED
    BY <1>4, <2>1 DEF P14_2
<1>. QED
  BY <1>1, <1>2, <1>3, <1>4

\* pipe finds two descriptors as long as two are free.
LEMMA LowestFreeIsFree ==
    ASSUME NEW table, NEW taken,
           \E d \in Fd \ taken : table[d] = "none"
    PROVE  LowestFree(table, taken) \in Fd \ taken /\ table[LowestFree(table, taken)] = "none"
<1> DEFINE Free(d) == d \in Fd \ taken /\ table[d] = "none"
<1>1. \E d : Free(d) /\ \A e \in Fd \ taken : table[e] = "none" => d <= e
  <2>1. Free(0) \/ Free(1) \/ Free(2) \/ Free(3) \/ Free(4)
    BY DEF Fd
  <2>2. \A e \in Fd : Free(e) => e \in {0, 1, 2, 3, 4}
    BY DEF Fd
  <2>. QED
    BY <2>1, <2>2
<1>2. \E d \in Fd \ taken : /\ table[d] = "none"
                            /\ \A e \in Fd \ taken : table[e] = "none" => d <= e
  BY <1>1
<1>. QED
  BY <1>2 DEF LowestFree

-----------------------------------------------------------------------------
(* Types. *)

LEMMA InvInit == Init => PipeInv
<1>. SUFFICES ASSUME Init PROVE PipeInv
  OBVIOUS
<1>1. PICK std \in OpenAtStart :
          fds = [p \in Process |->
                    [d \in Fd |-> IF p = "parent" /\ d \in std \cup {2} THEN "tty" ELSE "none"]]
  BY DEF Init
<1>2. /\ std \subseteq {0, 1}
      /\ \A p \in Process, d \in Fd : fds[p][d] \in {"tty", "none"}
      /\ fds["parent"][3] = "none" /\ fds["parent"][4] = "none"
      /\ fds \in [Process -> [Fd -> File]]
  BY <1>1, StartAssumption DEF Process, Fd, File
<1>3. /\ pc["parent"] = "pipe" /\ pc["child"] = "absent"
      /\ exit["parent"] = Running /\ written = 0 /\ todo = 0 /\ counted = 0 /\ buf = 0
      /\ printed = NoCount /\ fds["parent"][0] # "rd"
  BY <1>2 DEF Init, Process, Fd
<1>4. TypeOK
  <2>1. NoCount \in 0 .. NoCount /\ 0 \in 0 .. Capacity /\ 0 \in 0 .. MaxLines
    BY BoundsAssumption DEF NoCount
  <2>2. /\ pc \in [Process -> Locations] /\ exit \in [Process -> {Running, Killed} \cup 0 .. 4]
        /\ pipe_fds \in [rd : Fd, wr : Fd] /\ prog \in Programs
    BY DEF Init, Process, Locations, Fd
  <2>. QED
    BY <1>2, <1>3, <2>1, <2>2 DEF TypeOK
<1>5. ForkOrder
  BY <1>2, <1>3 DEF ForkOrder
<1>6. Tables
  <2>1. \A p \in Process : At(p, "rd") = {} /\ At(p, "wr") = {}
    BY <1>2 DEF At
  <2>. QED
    BY <1>3, <2>1 DEF Tables, TableOf, Process
<1>7. Lines
  BY <1>3, BoundsAssumption DEF Lines
<1>8. Printed /\ StatusZeroMeansCounted
  BY <1>3 DEF Printed, StatusZeroMeansCounted, Running
<1>. QED
  BY <1>4, <1>5, <1>6, <1>7, <1>8 DEF PipeInv

LEMMA GotoTypes ==
    ASSUME TypeOK, NEW p \in Process, NEW to \in Locations, Goto(p, to)
    PROVE  pc' \in [Process -> Locations] /\ exit' \in [Process -> {Running, Killed} \cup 0 .. 4]
BY DEF TypeOK, Goto

LEMMA EndTypes ==
    ASSUME TypeOK, NEW p \in Process, NEW status \in {Killed} \cup 0 .. 4, End(p, status)
    PROVE  /\ pc' \in [Process -> Locations]
           /\ exit' \in [Process -> {Running, Killed} \cup 0 .. 4]
           /\ fds' \in [Process -> [Fd -> File]]
BY DEF TypeOK, End, Closed, Locations, File

\* close and dup2 change one entry of one table.
LEMMA CloseFdTable ==
    ASSUME TypeOK, NEW p \in Process, NEW d \in Fd, CloseFd(p, d)
    PROVE  /\ fds' \in [Process -> [Fd -> File]]
           /\ fds'[p][d] = "none"
           /\ \A e \in Fd \ {d} : fds'[p][e] = fds[p][e]
           /\ \A q \in Process \ {p} : fds'[q] = fds[q]
<1>1. fds' = [fds EXCEPT ![p] = [fds[p] EXCEPT ![d] = "none"]]
  BY DEF CloseFd, TypeOK
<1>. QED
  BY <1>1 DEF TypeOK, File

LEMMA Dup2Table ==
    ASSUME TypeOK, NEW p \in Process, NEW from \in Fd, NEW to \in Fd, Dup2(p, from, to)
    PROVE  /\ fds' \in [Process -> [Fd -> File]]
           /\ fds'[p][to] = fds[p][from]
           /\ \A e \in Fd \ {to} : fds'[p][e] = fds[p][e]
           /\ \A q \in Process \ {p} : fds'[q] = fds[q]
<1>1. fds' = [fds EXCEPT ![p] = [fds[p] EXCEPT ![to] = fds[p][from]]]
  BY DEF Dup2, TypeOK
<1>. QED
  BY <1>1 DEF TypeOK

\* The faults, and every end of a process that leaves the lines alone.
LEMMA FaultTypes ==
    ASSUME TypeOK, Fault PROVE TypeOK'
<1>. USE ProgramFacts DEF TypeOK
<1>1. CASE MakePipeFails
  BY <1>1, EndTypes DEF MakePipeFails, dataVars, Process
<1>2. CASE ForkFails
  BY <1>2, EndTypes DEF ForkFails, dataVars, Process
<1>3. ASSUME NEW p \in Process, RedirectFails(p) PROVE TypeOK'
  BY <1>3, EndTypes DEF RedirectFails, dataVars
<1>4. ASSUME NEW p \in Process, ExecFails(p) PROVE TypeOK'
  BY <1>4, EndTypes DEF ExecFails, dataVars
<1>5. ASSUME NEW p \in Process, Kill(p) PROVE TypeOK'
  BY <1>5, EndTypes DEF Kill, dataVars
<1>. QED
  BY <1>1, <1>2, <1>3, <1>4, <1>5 DEF Fault

\* The descriptors that pipe finds are free and not the same.
LEMMA PipeEnds ==
    ASSUME TypeOK, ForkOrder, MakePipe
    PROVE  /\ pipe_fds'.rd \in Fd /\ pipe_fds'.wr \in Fd
           /\ pipe_fds' = [rd |-> pipe_fds'.rd, wr |-> pipe_fds'.wr]
           /\ pipe_fds'.rd # pipe_fds'.wr
           /\ fds' = [fds EXCEPT !["parent"] =
                         [fds["parent"] EXCEPT ![pipe_fds'.rd] = "rd", ![pipe_fds'.wr] = "wr"]]
<1> DEFINE rd == LowestFree(fds["parent"], {})
           wr == LowestFree(fds["parent"], {rd})
<1>1. fds["parent"][3] = "none" /\ fds["parent"][4] = "none" /\ 3 \in Fd /\ 4 \in Fd
  BY DEF ForkOrder, MakePipe, Fd
<1>2. rd \in Fd
  BY <1>1, LowestFreeIsFree
<1>3. wr \in Fd \ {rd}
  BY <1>1, LowestFreeIsFree
<1>4. /\ pipe_fds' = [rd |-> rd, wr |-> wr]
      /\ fds' = [fds EXCEPT !["parent"][rd] = "rd", !["parent"][wr] = "wr"]
  BY DEF MakePipe
<1> HIDE DEF rd, wr
<1>5. fds \in [Process -> [Fd -> File]] /\ "parent" \in Process
  BY DEF TypeOK, Process
<1>. QED
  BY <1>2, <1>3, <1>4, <1>5

LEMMA TypeNext == PipeInv /\ [Next]_vars => TypeOK'
<1>. SUFFICES ASSUME PipeInv, [Next]_vars PROVE TypeOK'
  OBVIOUS
<1>. TypeOK /\ "parent" \in Process /\ "child" \in Process /\ MaxLines \in Nat /\ Capacity \in Nat
  BY BoundsAssumption DEF PipeInv, Process
<1>1. CASE MakePipe
  <2>1. pipe_fds' \in [rd : Fd, wr : Fd] /\ fds' \in [Process -> [Fd -> File]]
    BY <1>1, PipeEnds DEF PipeInv, TypeOK, File
  <2>. QED
    BY <1>1, <2>1, GotoTypes DEF MakePipe, TypeOK, dataVars, Locations
<1>2. CASE Fork
  BY <1>2 DEF Fork, TypeOK, dataVars, Locations
<1>3. ASSUME NEW p \in Process, Setup(p) PROVE TypeOK'
  <2>1. Own(p) \in Fd /\ Other(p) \in Fd /\ Standard(p) \in Fd
    BY DEF TypeOK, Own, Other, Standard, Fd
  <2>2. /\ \A d \in Fd : CloseFd(p, d) => fds' \in [Process -> [Fd -> File]]
        /\ \A d, e \in Fd : Dup2(p, d, e) => fds' \in [Process -> [Fd -> File]]
    BY CloseFdTable, Dup2Table
  <2>3. {"dup2", "close_own", "exec", "run"} \subseteq Locations
    BY DEF Locations
  <2>4. CASE CloseOther(p)
    BY <2>1, <2>2, <2>3, <2>4, GotoTypes DEF CloseOther, TypeOK, dataVars
  <2>5. CASE Redirect(p)
    BY <2>1, <2>2, <2>3, <2>5, GotoTypes DEF Redirect, TypeOK, dataVars
  <2>6. CASE CloseOwn(p)
    BY <2>1, <2>2, <2>3, <2>6, GotoTypes DEF CloseOwn, TypeOK, dataVars
  <2>7. CASE Exec(p)
    <3>1. todo' \in 0 .. MaxLines
      BY <2>7, ProgramFacts DEF Exec, TypeOK
    <3>. QED
      BY <2>3, <2>7, <3>1, GotoTypes DEF Exec, TypeOK
  <2>. QED
    BY <1>3, <2>4, <2>5, <2>6, <2>7 DEF Setup
<1>4. CASE ProduceLine
  <2>1. buf' \in 0 .. Capacity /\ todo' \in 0 .. MaxLines /\ written' \in 0 .. MaxLines
    BY <1>4 DEF ProduceLine, TypeOK, PipeInv, Lines
  <2>. QED
    BY <1>4, <2>1 DEF ProduceLine, TypeOK
<1>5. CASE ProducerEnds
  <2>1. \E status \in {Killed} \cup 0 .. 4 : End("child", status)
    BY <1>5 DEF ProducerEnds
  <2>. QED
    BY <1>5, <2>1, EndTypes DEF ProducerEnds, TypeOK, dataVars
<1>6. CASE CountLine
  <2>1. buf' \in 0 .. Capacity /\ counted' \in 0 .. MaxLines
    BY <1>6 DEF CountLine, TypeOK, PipeInv, Lines
  <2>. QED
    BY <1>6, <2>1 DEF CountLine, TypeOK
<1>7. ASSUME Report, UNCHANGED <<prog, pipe_fds, buf, todo, written, counted>> PROVE TypeOK'
  <2>1. printed' \in 0 .. NoCount
    BY <1>7 DEF Report, PrintNumber, TypeOK, NoCount
  <2>2. \E status \in {Killed} \cup 0 .. 4 : End("parent", status)
    BY <1>7 DEF Report
  <2>. QED
    BY <1>7, <2>1, <2>2, EndTypes DEF TypeOK
<1>8. CASE CountEnds
  BY <1>7, <1>8 DEF CountEnds
<1>9. CASE CountFails
  <2>1. printed' \in 0 .. NoCount
    BY <1>9 DEF CountFails, PrintNumber, TypeOK, NoCount
  <2>. QED
    BY <1>9, <2>1, EndTypes DEF CountFails, TypeOK
<1>10. CASE UserTypes
  BY <1>7, <1>10 DEF UserTypes, TypeOK
<1>11. CASE UNCHANGED vars
  BY <1>11 DEF vars, TypeOK
<1>. QED
  BY <1>1, <1>2, <1>3, <1>4, <1>5, <1>6, <1>8, <1>9, <1>10, <1>11, FaultTypes
  DEF Next, ParentStep, ChildStep, PipeInv

-----------------------------------------------------------------------------
(* The order of the calls, and the descriptor tables. *)

\* Every step of a process leaves the other one's place and table alone; all
\* but pipe, fork and a user's line are of this form.
ProcessStep(p) ==
    /\ \A q \in Process \ {p} : pc'[q] = pc[q] /\ fds'[q] = fds[q]
    /\ UNCHANGED <<prog, pipe_fds>>

LEMMA TableOfOthers ==
    ASSUME Tables, NEW p \in Process, ProcessStep(p), TableOf(p)'
    PROVE  Tables'
<1>. SUFFICES ASSUME NEW q \in Process, q # p PROVE TableOf(q)'
  BY DEF Tables
<1>1. /\ pc'[q] = pc[q] /\ fds'[q] = fds[q]
      /\ Own(q)' = Own(q) /\ Other(q)' = Other(q) /\ Redirects(q)' = Redirects(q)
  BY DEF ProcessStep, Own, Other, Redirects
<1>2. \A file : At(q, file)' = At(q, file)
  BY <1>1 DEF At
<1>3. TableOf(q)
  BY DEF Tables
<1>. QED
  BY <1>1, <1>2, <1>3 DEF TableOf, OwnEnd, OtherEnd, Standard

\* A process that ended holds no end of the pipe.
LEMMA EndTable ==
    ASSUME TypeOK, Tables, NEW p \in Process, NEW status, End(p, status),
           UNCHANGED <<prog, pipe_fds>>
    PROVE  ProcessStep(p) /\ Tables' /\ pc'[p] = "done"
<1>1. /\ ProcessStep(p) /\ pc'[p] = "done"
      /\ \A d \in Fd : fds'[p][d] = "none"
  BY DEF End, ProcessStep, TypeOK, Closed
<1>2. TableOf(p)'
  BY <1>1 DEF TableOf, At
<1>. QED
  BY <1>1, <1>2, TableOfOthers

\* Which actions end a process, and which leave every table alone.
Ends(p) ==
    /\ pc[p] # "absent"
    /\ \E status : End(p, status)
    /\ UNCHANGED <<prog, pipe_fds>>

LEMMA StepKinds ==
    ASSUME [Next]_vars
    PROVE  \/ MakePipe \/ Fork
           \/ \E p \in Process : Setup(p) \/ Ends(p)
           \/ UNCHANGED <<prog, pc, fds, pipe_fds>>
BY DEF Next, ParentStep, ChildStep, Fault, MakePipeFails, ForkFails, RedirectFails, ExecFails,
       Kill, ProduceLine, ProducerEnds, CountLine, CountEnds, CountFails, UserTypes, Report,
       Ends, vars, Process

LEMMA SetupTable ==
    ASSUME TypeOK, Tables, NEW p \in Process, Setup(p)
    PROVE  ProcessStep(p) /\ TableOf(p)'
<1>1. /\ Own(p) \in Fd /\ Other(p) \in Fd /\ Standard(p) \in Fd
      /\ OwnEnd(p) # OtherEnd(p) /\ {OwnEnd(p), OtherEnd(p)} = {"rd", "wr"}
      /\ OwnEnd(p) \notin {"none", "tty"} /\ OtherEnd(p) \notin {"none", "tty"}
  BY DEF TypeOK, Own, Other, Standard, Fd, OwnEnd, OtherEnd, Process
<1>2. TableOf(p)
  BY DEF Tables
<1>3. CASE CloseOther(p)
  <2>1. /\ pc[p] = "close_other"
        /\ pc' = [pc EXCEPT ![p] = IF Redirects(p) THEN "dup2" ELSE "exec"]
        /\ CloseFd(p, Other(p)) /\ UNCHANGED <<prog, pipe_fds>>
    BY <1>3 DEF CloseOther, Goto
  <2>2. ProcessStep(p) /\ pc'[p] = IF Redirects(p) THEN "dup2" ELSE "exec"
    BY <1>1, <2>1, CloseFdTable DEF ProcessStep, TypeOK
  <2>3. \A d \in Fd : /\ fds'[p][d] # OtherEnd(p)
                      /\ fds'[p][d] = OwnEnd(p) <=> d = Own(p)
    BY <1>1, <1>2, <2>1, CloseFdTable DEF TableOf, At
  <2>4. Own(p)' = Own(p) /\ Redirects(p)' = Redirects(p)
    BY <2>1 DEF Own, Redirects
  <2>. QED
    BY <1>1, <2>2, <2>3, <2>4 DEF TableOf, At
<1>4. CASE Redirect(p)
  <2>1. /\ pc[p] = "dup2" /\ pc' = [pc EXCEPT ![p] = "close_own"]
        /\ Dup2(p, Own(p), Standard(p)) /\ UNCHANGED <<prog, pipe_fds>>
    BY <1>4 DEF Redirect, Goto
  <2>2. ProcessStep(p) /\ pc'[p] = "close_own"
    BY <1>1, <2>1, Dup2Table DEF ProcessStep, TypeOK
  <2>3. \A d \in Fd : /\ fds'[p][d] # OtherEnd(p)
                      /\ fds'[p][d] = OwnEnd(p) <=> d \in {Own(p), Standard(p)}
    BY <1>1, <1>2, <2>1, Dup2Table DEF TableOf, At
  <2>4. Own(p)' = Own(p)
    BY <2>1 DEF Own
  <2>. QED
    BY <1>1, <2>2, <2>3, <2>4 DEF TableOf, At
<1>5. CASE CloseOwn(p)
  <2>1. /\ pc[p] = "close_own" /\ pc' = [pc EXCEPT ![p] = "exec"]
        /\ CloseFd(p, Own(p)) /\ UNCHANGED <<prog, pipe_fds>>
    BY <1>5 DEF CloseOwn, Goto
  <2>2. ProcessStep(p) /\ pc'[p] = "exec"
    BY <1>1, <2>1, CloseFdTable DEF ProcessStep, TypeOK
  <2>3. \A d \in Fd : /\ fds'[p][d] # OtherEnd(p)
                      /\ fds'[p][d] = OwnEnd(p) <=> d \in {Standard(p)} \ {Own(p)}
    BY <1>1, <1>2, <2>1, CloseFdTable DEF TableOf, At
  <2>4. fds'[p][Standard(p)] # "tty"
    BY <1>1, <1>2, <2>1, CloseFdTable DEF TableOf, At
  <2>5. Own(p)' = Own(p)
    BY <2>1 DEF Own
  <2>. QED
    BY <1>1, <2>2, <2>3, <2>4, <2>5 DEF TableOf, At
<1>6. CASE Exec(p)
  <2>1. /\ pc[p] = "exec" /\ pc' = [pc EXCEPT ![p] = "run"] /\ fds' = fds
        /\ UNCHANGED <<prog, pipe_fds>>
    BY <1>6 DEF Exec, Goto
  <2>2. ProcessStep(p) /\ pc'[p] = "run"
    BY <2>1 DEF ProcessStep, TypeOK
  <2>3. Own(p)' = Own(p) /\ Redirects(p)' = Redirects(p) /\ \A file : At(p, file)' = At(p, file)
    BY <2>1 DEF Own, Redirects, At
  <2>. QED
    BY <1>2, <2>1, <2>2, <2>3 DEF TableOf
<1>. QED
  BY <1>3, <1>4, <1>5, <1>6 DEF Setup

LEMMA TablesNext == PipeInv /\ [Next]_vars => ForkOrder' /\ Tables'
<1>. SUFFICES ASSUME PipeInv, [Next]_vars PROVE ForkOrder' /\ Tables'
  OBVIOUS
<1>. TypeOK /\ ForkOrder /\ Tables /\ "parent" \in Process /\ "child" \in Process
  BY DEF PipeInv, Process
<1>1. CASE MakePipe
  <2>1. /\ pc' = [pc EXCEPT !["parent"] = "fork"] /\ prog' = prog
        /\ pc["parent"] = "pipe" /\ pc["child"] = "absent"
    BY <1>1 DEF MakePipe, Goto, ForkOrder
  <2>2. pc'["parent"] = "fork" /\ pc'["child"] = "absent"
    BY <2>1 DEF TypeOK
  <2>3. At("child", "rd")' = {} /\ At("child", "wr")' = {}
    BY <1>1, <2>1, PipeEnds DEF TypeOK, Tables, TableOf, At
  <2>4. \A d \in Fd : /\ fds'["parent"][d] = "rd" <=> d = pipe_fds'.rd
                      /\ fds'["parent"][d] = "wr" <=> d = pipe_fds'.wr
    <3>1. \A d \in Fd : fds["parent"][d] \notin {"rd", "wr"}
      BY <2>1 DEF Tables, TableOf, At
    <3>2. fds["parent"] \in [Fd -> File]
      BY DEF TypeOK
    <3>3. fds'["parent"] = [fds["parent"] EXCEPT ![pipe_fds'.rd] = "rd", ![pipe_fds'.wr] = "wr"]
      BY <1>1, PipeEnds DEF TypeOK
    <3>. QED
      BY <1>1, <3>1, <3>2, <3>3, PipeEnds
  <2>5. TableOf("parent")' /\ TableOf("child")'
    BY <1>1, <2>2, <2>3, <2>4, PipeEnds DEF TableOf, At, OwnEnd, OtherEnd, Own, Other
  <2>. QED
    BY <2>2, <2>5 DEF Tables, ForkOrder, Process
<1>2. CASE Fork
  <2>1. /\ pc["parent"] = "fork" /\ UNCHANGED <<prog, pipe_fds>>
        /\ \A p \in Process : pc'[p] = "close_other" /\ fds'[p] = fds["parent"]
    BY <1>2 DEF Fork, TypeOK, Process
  <2>2. \A d \in Fd : /\ fds["parent"][d] = "rd" <=> d = pipe_fds.rd
                      /\ fds["parent"][d] = "wr" <=> d = pipe_fds.wr
    BY <2>1 DEF Tables, TableOf, At, OwnEnd, OtherEnd, Own, Other, TypeOK
  <2>3. ASSUME NEW p \in Process PROVE TableOf(p)'
    <3>1. At(p, "rd")' = {pipe_fds.rd} /\ At(p, "wr")' = {pipe_fds.wr}
      BY <2>1, <2>2 DEF At, TypeOK
    <3>. QED
      BY <2>1, <3>1 DEF TableOf, OwnEnd, OtherEnd, Own, Other
  <2>. QED
    BY <2>1, <2>3 DEF Tables, ForkOrder
<1>3. ASSUME NEW p \in Process, Setup(p) PROVE ForkOrder' /\ Tables'
  <2>1. ProcessStep(p) /\ Tables'
    BY <1>3, SetupTable, TableOfOthers
  <2>2. pc[p] \in {"close_other", "dup2", "close_own", "exec"}
        /\ pc'[p] \in {"dup2", "close_own", "exec", "run"}
    BY <1>3 DEF Setup, CloseOther, Redirect, CloseOwn, Exec, Goto, TypeOK
  <2>. QED
    BY <2>1, <2>2 DEF ForkOrder, ProcessStep, Process
<1>4. ASSUME NEW p \in Process, Ends(p) PROVE ForkOrder' /\ Tables'
  <2>1. ProcessStep(p) /\ Tables' /\ pc[p] # "absent" /\ pc'[p] = "done"
    BY <1>4, EndTable DEF Ends
  <2>. QED
    BY <2>1 DEF ForkOrder, ProcessStep, Process
<1>5. CASE UNCHANGED <<prog, pc, fds, pipe_fds>>
  BY <1>5 DEF ForkOrder, Tables, TableOf, At, Own, Other, OwnEnd, OtherEnd, Standard, Redirects
<1>. QED
  BY <1>1, <1>2, <1>3, <1>4, <1>5, StepKinds

-----------------------------------------------------------------------------
(* The lines in the pipe, and the number. *)

\* The user is asked for lines by 14_2.c only.
LEMMA OnlyUnfinishedAsks == PipeInv /\ UserTypes => ~Program[prog].redirects
BY DEF PipeInv, UserTypes, Tables, TableOf, Redirects, Standard, Process

\* A process that ends moves no lines.
LEMMA EndLines ==
    ASSUME TypeOK, Lines, NEW p \in Process, NEW status, End(p, status),
           UNCHANGED <<prog, buf, todo, written, counted>>
    PROVE  Lines'
<1>1. pc'[p] = "done" /\ \A q \in Process \ {p} : pc'[q] = pc[q] /\ fds'[q] = fds[q]
  BY DEF End, TypeOK
<1>. QED
  BY <1>1 DEF Lines, Process

LEMMA LinesNext == PipeInv /\ [Next]_vars => Lines'
<1>. SUFFICES ASSUME PipeInv, [Next]_vars PROVE Lines'
  OBVIOUS
<1>. /\ TypeOK /\ ForkOrder /\ Tables /\ Lines /\ "parent" \in Process /\ "child" \in Process
     /\ {todo, written, counted} \subseteq Nat /\ buf \in Nat /\ MaxLines \in Nat
  BY BoundsAssumption DEF PipeInv, Process, TypeOK
<1>1. CASE MakePipe
  <2>1. /\ pc["parent"] = "pipe" /\ pc'["parent"] = "fork" /\ pc'["child"] = pc["child"]
        /\ UNCHANGED <<prog, dataVars>>
    BY <1>1 DEF MakePipe, Goto, TypeOK
  <2>. QED
    BY <2>1 DEF Lines, dataVars
<1>2. CASE Fork
  <2>1. /\ pc["parent"] = "fork" /\ pc["child"] = "absent"
        /\ pc'["parent"] = "close_other" /\ pc'["child"] = "close_other"
        /\ UNCHANGED <<prog, dataVars>>
    BY <1>2 DEF Fork, ForkOrder
  <2>. QED
    BY <2>1 DEF Lines, dataVars
<1>3. ASSUME NEW p \in Process, CloseOther(p) \/ Redirect(p) \/ CloseOwn(p) PROVE Lines'
  <2>1. /\ pc[p] \in {"close_other", "dup2", "close_own"}
        /\ pc'[p] \in {"dup2", "close_own", "exec"}
        /\ \A q \in Process \ {p} : pc'[q] = pc[q]
        /\ UNCHANGED <<prog, dataVars>>
    BY <1>3 DEF CloseOther, Redirect, CloseOwn, Goto, TypeOK
  <2>2. \A q \in Process \ {p} : fds'[q] = fds[q]
    BY <1>3, SetupTable DEF Setup, ProcessStep
  <2>. QED
    BY <2>1, <2>2 DEF Lines, dataVars, Process
<1>4. CASE Exec("parent")
  <2>1. /\ pc["parent"] = "exec" /\ pc'["parent"] = "run" /\ pc'["child"] = pc["child"]
        /\ UNCHANGED <<prog, fds, buf, written, counted, todo>>
    BY <1>4 DEF Exec, Goto, TypeOK
  <2>. QED
    BY <2>1 DEF Lines
<1>5. CASE Exec("child")
  <2>1. PICK n \in 0 .. MaxLines : todo' = n
    BY <1>5, ProgramFacts DEF Exec, TypeOK
  <2>2. /\ pc["child"] = "exec" /\ pc'["child"] = "run" /\ pc'["parent"] = pc["parent"]
        /\ UNCHANGED <<prog, fds, buf, written, counted>>
    BY <1>5 DEF Exec, Goto, TypeOK
  <2>3. written = 0
    BY <2>2 DEF Lines
  <2>. QED
    BY <2>1, <2>2, <2>3 DEF Lines
<1>6. CASE ProduceLine
  BY <1>6 DEF ProduceLine, Lines
<1>7. CASE CountLine
  BY <1>7 DEF CountLine, Lines
<1>8. CASE UserTypes
  <2>1. ~Program[prog].redirects /\ pc["parent"] = "run" /\ fds["parent"][0] = "tty"
    BY <1>8, OnlyUnfinishedAsks DEF UserTypes
  <2>2. CASE UNCHANGED <<pc, fds>>
    BY <1>8, <2>1, <2>2 DEF UserTypes, Lines
  <2>3. CASE Report /\ UNCHANGED counted
    <3>1. PICK status : End("parent", status)
      BY <2>3 DEF Report
    <3>. QED
      BY <1>8, <2>3, <3>1, EndLines DEF UserTypes
  <2>. QED
    BY <1>8, <2>2, <2>3 DEF UserTypes
<1>9. CASE ProducerEnds \/ CountFails \/ CountEnds
  <2>1. /\ UNCHANGED <<prog, buf, todo, written, counted>>
        /\ \E p \in Process : \E status : End(p, status)
    BY <1>9 DEF ProducerEnds, CountFails, CountEnds, Report, dataVars
  <2>. QED
    BY <2>1, EndLines
<1>10. CASE Fault
  <2>1. /\ UNCHANGED <<prog, buf, todo, written, counted>>
        /\ \E p \in Process : \E status : End(p, status)
    BY <1>10 DEF Fault, MakePipeFails, ForkFails, RedirectFails, ExecFails, Kill, dataVars
  <2>. QED
    BY <2>1, EndLines
<1>11. CASE UNCHANGED vars
  BY <1>11 DEF vars, Lines
<1>. QED
  BY <1>1, <1>2, <1>3, <1>4, <1>5, <1>6, <1>7, <1>8, <1>9, <1>10, <1>11
  DEF Next, ParentStep, ChildStep, Setup, Process

\* The number is printed once, by a parent that ends with it: with 0 at the end
\* of its input, with 1 when it has no stdin.
LEMMA NumberPrinted ==
    ASSUME PipeInv, [Next]_vars
    PROVE  \/ printed' = printed
           \/ /\ CountEnds \/ UserTypes
              /\ pc["parent"] = "run" /\ End("parent", 0)
              /\ printed' = counted /\ printed' # NoCount
              /\ UNCHANGED <<prog, written>>
           \/ CountFails /\ pc["parent"] = "run" /\ End("parent", 1)
<1>1. counted # NoCount
  BY BoundsAssumption DEF PipeInv, TypeOK, NoCount
<1>2. CASE CountEnds
  BY <1>1, <1>2 DEF CountEnds, Report, PrintNumber
<1>3. CASE UserTypes
  BY <1>1, <1>3 DEF UserTypes, Report, PrintNumber
<1>4. CASE CountFails
  BY <1>4 DEF CountFails
<1>5. CASE UNCHANGED printed
  BY <1>5
<1>. QED
  BY <1>2, <1>3, <1>4, <1>5
  DEF Next, ParentStep, ChildStep, Fault, Setup, MakePipe, Fork, CloseOther, Redirect, CloseOwn,
      Exec, ProduceLine, ProducerEnds, CountLine, MakePipeFails, ForkFails, RedirectFails,
      ExecFails, Kill, dataVars, vars

\* The status of a process that is done stays.
LEMMA StatusStays ==
    ASSUME PipeInv, [Next]_vars, pc["parent"] = "done"
    PROVE  exit'["parent"] = exit["parent"]
<1>. /\ TypeOK /\ ForkOrder /\ "parent" \in Process
     /\ pc["parent"] \notin {"pipe", "fork", "close_other", "dup2", "close_own", "exec", "run"}
  BY DEF PipeInv, Process
<1>1. ASSUME NEW p \in Process, NEW status, p # "parent", End(p, status)
      PROVE  exit'["parent"] = exit["parent"]
  BY <1>1 DEF End, TypeOK
<1>2. ASSUME NEW p \in Process, RedirectFails(p) \/ ExecFails(p) \/ Kill(p)
      PROVE  exit'["parent"] = exit["parent"]
  BY <1>1, <1>2 DEF RedirectFails, ExecFails, Kill
<1>3. CASE ProducerEnds
  BY <1>1, <1>3 DEF ProducerEnds, Process
<1>4. CASE UNCHANGED exit
  BY <1>4
<1>. QED
  BY <1>2, <1>3, <1>4
  DEF Next, ParentStep, ChildStep, Fault, Setup, MakePipe, Fork, CloseOther, Redirect, CloseOwn,
      Exec, ProduceLine, CountLine, CountEnds, CountFails, UserTypes, MakePipeFails, ForkFails,
      Goto, vars

LEMMA PrintedNext == PipeInv /\ [Next]_vars => Printed'
<1>. SUFFICES ASSUME PipeInv, [Next]_vars, printed' # NoCount
     PROVE  /\ pc'["parent"] = "done"
            /\ Program[prog'].redirects /\ exit'["parent"] = 0 => Final'
  BY DEF Printed, NoCount
<1>. /\ TypeOK /\ ForkOrder /\ Tables /\ Lines /\ Printed
     /\ "parent" \in Process /\ "child" \in Process
  BY DEF PipeInv, Process
<1>1. CASE CountFails /\ End("parent", 1)
  <2>1. pc'["parent"] = "done" /\ exit'["parent"] = 1
    BY <1>1 DEF End, TypeOK
  <2>. QED
    BY <2>1
<1>2. CASE printed' # printed /\ ~CountFails
  <2>1. /\ CountEnds \/ UserTypes
        /\ pc["parent"] = "run" /\ End("parent", 0)
        /\ printed' = counted /\ UNCHANGED <<prog, written>>
    BY <1>2, NumberPrinted
  <2>2. pc'["parent"] = "done" /\ fds'["child"] = fds["child"]
    BY <2>1 DEF End, TypeOK, Process
  <2>3. ASSUME Program[prog].redirects PROVE printed' = written /\ At("child", "wr") = {}
    <3>1. CountEnds
      BY <2>1, <2>3, OnlyUnfinishedAsks
    <3>2. buf = 0 /\ EndsOpen("wr") = {}
      BY <3>1 DEF CountEnds
    <3>3. written = counted
      BY <2>3, <3>2 DEF Lines, TypeOK
    <3>. QED
      BY <2>1, <3>2, <3>3 DEF EndsOpen, At
  <2>. QED
    BY <2>1, <2>2, <2>3 DEF At, Final
<1>3. CASE printed' = printed /\ ~CountFails
  <2>1. /\ pc["parent"] = "done"
        /\ Program[prog].redirects /\ exit["parent"] = 0 => Final
        /\ exit'["parent"] = exit["parent"]
    BY <1>3, StatusStays DEF Printed
  <2>2. CASE \E p \in Process : Setup(p)
    <3>1. Setup("child")
      BY <2>1, <2>2 DEF Process, Setup, CloseOther, Redirect, CloseOwn, Exec
    <3>2. UNCHANGED <<prog, written>> /\ pc'["parent"] = pc["parent"]
      BY <3>1 DEF Setup, CloseOther, Redirect, CloseOwn, Exec, Goto, dataVars, TypeOK
    <3>3. ASSUME At("child", "wr") = {} PROVE fds' = fds
      <4>1. pc["child"] \notin {"close_other", "dup2", "close_own"}
        BY <2>1, <3>3 DEF Tables, TableOf, OwnEnd
      <4>. QED
        BY <3>1, <4>1 DEF Setup, CloseOther, Redirect, CloseOwn, Exec
    <3>. QED
      BY <1>3, <2>1, <3>2, <3>3 DEF At, Final
  <2>3. CASE ProduceLine
    <3>1. fds["child"][1] = "wr" /\ 1 \in Fd
      BY <2>3 DEF ProduceLine, Fd
    <3>2. ~Final
      BY <3>1 DEF At, Final
    <3>. QED
      BY <2>1, <2>3, <3>2 DEF ProduceLine
  <2>4. CASE (\E p \in Process : Ends(p)) /\ UNCHANGED written
    <3>1. PICK p \in Process : Ends(p) /\ UNCHANGED <<prog, written>>
      BY <2>4 DEF Ends
    <3>2. pc'["parent"] = "done" /\ \A d \in Fd : fds'["child"][d] \in {fds["child"][d], "none"}
      BY <2>1, <3>1 DEF Ends, End, TypeOK, Closed
    <3>. QED
      BY <1>3, <2>1, <3>1, <3>2 DEF At, Final
  <2>5. CASE UNCHANGED vars
    BY <2>1, <2>5 DEF vars, At, Final
  <2>6. \/ \E p \in Process : Setup(p)
        \/ ProduceLine \/ UNCHANGED vars
        \/ (\E p \in Process : Ends(p)) /\ UNCHANGED written
    BY <2>1, Zenon
    DEF Next, ParentStep, ChildStep, Fault, MakePipe, Fork, CountLine, CountEnds, CountFails,
        UserTypes, MakePipeFails, ForkFails, RedirectFails, ExecFails, Kill, ProducerEnds,
        Ends, dataVars
  <2>. QED
    BY <2>2, <2>3, <2>4, <2>5, <2>6
<1>. QED
  BY <1>1, <1>2, <1>3 DEF CountFails

-----------------------------------------------------------------------------
(* The exit status of the pipeline. *)

\* In 14.3.c and 14.3.1.c only wc ends with 0, and only after printing.
LEMMA StatusNext == PipeInv /\ [Next]_vars => StatusZeroMeansCounted'
<1>. SUFFICES ASSUME PipeInv, [Next]_vars, exit'["parent"] = 0, prog' \in {"14.3", "14.3.1"}
     PROVE  printed' # NoCount
  BY DEF StatusZeroMeansCounted, NoCount
<1>. TypeOK /\ "parent" \in Process
  BY DEF PipeInv, Process
<1>1. prog' = prog
  BY DEF Next, ParentStep, ChildStep, Fault, Setup, MakePipe, Fork, CloseOther, Redirect, CloseOwn,
      Exec, ProduceLine, ProducerEnds, CountLine, CountEnds, CountFails, UserTypes,
      MakePipeFails, ForkFails, RedirectFails, ExecFails, Kill, vars
<1>2. CASE exit'["parent"] = exit["parent"]
  <2>1. printed # NoCount
    BY <1>1, <1>2 DEF PipeInv, StatusZeroMeansCounted
  <2>2. ~CountFails
    BY <1>2 DEF CountFails, End, TypeOK
  <2>. QED
    BY <2>1, <2>2, NumberPrinted
<1>3. CASE exit'["parent"] # exit["parent"]
  <2>1. \A status : End("parent", status) => status = 0
    BY DEF End, TypeOK
  <2>2. \A p \in Process : \A status : End(p, status) => p = "parent"
    BY <1>3 DEF End, TypeOK
  <2>3. Program[prog].wcExec = 1 /\ Program[prog].fork \in 1 .. 2
    BY <1>1, ProgramFacts DEF TypeOK
  <2>4. ~MakePipeFails /\ ~ForkFails /\ ~CountFails
    BY <2>1, <2>3 DEF MakePipeFails, ForkFails, CountFails
  <2>5. ASSUME NEW p \in Process PROVE ~RedirectFails(p) /\ ~ExecFails(p) /\ ~Kill(p)
    BY <2>1, <2>2, <2>3 DEF RedirectFails, ExecFails, Kill, Killed
  <2>6. ~ProducerEnds
    BY <2>2 DEF ProducerEnds, Process
  <2>7. CASE CountEnds \/ UserTypes
    <3>1. Report
      BY <1>3, <2>7 DEF CountEnds, UserTypes
    <3>2. printed' = counted
      BY <2>1, <3>1 DEF Report, PrintNumber
    <3>. QED
      BY <3>2, BoundsAssumption DEF TypeOK, NoCount
  <2>8. CASE UNCHANGED exit
    BY <1>3, <2>8
  <2>. QED
    BY <2>4, <2>5, <2>6, <2>7, <2>8
    DEF Next, ParentStep, ChildStep, Fault, Setup, MakePipe, Fork, CloseOther, Redirect, CloseOwn,
        Exec, ProduceLine, CountLine, Goto, vars
<1>. QED
  BY <1>2, <1>3

-----------------------------------------------------------------------------
(* The theorems. *)

\* All parts of the invariant hold in every state of the four programs.
THEOREM PipelineInvariant == Spec => []PipeInv
<1>1. PipeInv /\ [Next]_vars => PipeInv'
  BY TypeNext, TablesNext, LinesNext, PrintedNext, StatusNext DEF PipeInv
<1>. QED
  BY InvInit, <1>1, PTL DEF Spec

\* The two processes and the pipe always have the states of the type invariant:
\* in particular pipe always finds two descriptors, and the lines fit.
THEOREM TypeCorrect == Spec => []TypeOK
BY PipelineInvariant, PTL DEF PipeInv

\* Once a process runs its program, nothing but the redirected standard
\* descriptor refers to the pipe, whichever standard descriptors the shell had
\* closed: wc sees the end of the pipe, and a producer without a reader dies.
THEOREM NoEndsLeft == Spec => []NoStrayEnds
<1>1. PipeInv => NoStrayEnds
  <2>. SUFFICES ASSUME Tables, NEW p \in Process, pc[p] = "run", Redirects(p),
                       NEW d \in Fd, fds[p][d] \in {"rd", "wr"}
       PROVE  d = Standard(p) /\ fds[p][d] = IF p = "parent" THEN "rd" ELSE "wr"
    BY DEF NoStrayEnds, PipeInv
  <2>1. At(p, OtherEnd(p)) = {} /\ At(p, OwnEnd(p)) \subseteq {Standard(p)}
    BY DEF Tables, TableOf
  <2>. QED
    BY <2>1 DEF At, OwnEnd, OtherEnd, Process
<1>. QED
  BY PipelineInvariant, <1>1, PTL

\* When a pipeline ends with 0, what wc printed is the number of lines that the
\* producer put into the pipe, also when a call of the producer failed or it was
\* killed, in the three programs that redirect wc's input.
THEOREM NumberIsTrue == Spec => []CountsProducer
<1>1. PipeInv => CountsProducer
  BY ProgramFacts DEF PipeInv, TypeOK, Printed, Final, CountsProducer, NumberIsRight
<1>. QED
  BY PipelineInvariant, <1>1, PTL

\* Status 0 of 14.3.c and 14.3.1.c means that a number was printed.
THEOREM StatusZeroIsTrue == Spec => []StatusZeroMeansCounted
BY PipelineInvariant, PTL DEF PipeInv
=============================================================================
