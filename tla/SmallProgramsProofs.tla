-------------------------- MODULE SmallProgramsProofs --------------------------
(***************************************************************************)
(* Proofs about SmallPrograms, for any choice of programs and of faults:   *)
(* what the programs have in common, and the properties of NodeCopy,       *)
(* ChildWait and DirectoryWatch.  Each invariant is one of the module of   *)
(* the program; a step of SmallPrograms is a step of that module while its *)
(* program runs.                                                           *)
(***************************************************************************)
EXTENDS SmallPrograms, SequenceTheorems, TLAPS

-----------------------------------------------------------------------------
(* The programs have nothing to do with each other. *)

LEMMA ProgramStays ==
    ASSUME [Next]_vars
    PROVE  prog' = prog
<1>1. CASE UNCHANGED vars
  BY <1>1 DEF vars
<1>2. CASE OnlyWatch /\ Watch!Next
  BY <1>2
  DEF Watch!Next, Watch!Step, Watch!Setup, Watch!Poll, Watch!Read, Watch!NoMoreEvents,
      Watch!Drain, Watch!End, Watch!CallFails, Watch!FileAppears, Watch!FileLeaves,
      Watch!FileRenamed, Watch!Notify, Watch!UserTypes
<1>3. CASE OnlyLoop /\ Loop!Next
  BY <1>3
  DEF Loop!Next, Loop!Step, Loop!OpenDirectory, Loop!MakeTarget, Loop!ListEntry,
      Loop!ListRecord, Loop!LeaveLoop, Loop!LookUpEntry, Loop!ReadEntry, Loop!EndOfDirectory,
      Loop!ListLookedUp, Loop!Dispatch, Loop!LstatFails, Loop!CopyFile, Loop!CopyFileExits,
      Loop!MakeSubdirectory, Loop!CloseDirectory, Loop!ReadFails, Loop!CallFails,
      Loop!OthersCreate, Loop!OthersRemove
<1>4. CASE OnlyCopy /\ Copy!Next
  BY <1>4
  DEF Copy!Next, Copy!Step, Copy!Lookup, Copy!LookupDestination, Copy!ReadLink, Copy!Make,
      Copy!MakeLink, Copy!LookupDestinationFails, Copy!CallFails, Copy!OthersChange
<1>5. CASE OnlyWait /\ Wait!Next
  BY <1>5
  DEF Wait!Next, Wait!Parent, Wait!Child, Wait!Fork, Wait!Waitpid, Wait!WaitpidFails,
      Wait!Wait, Wait!ChildRedirects, Wait!ChildExits, Wait!ForkFails, Wait!ChildFails,
      Wait!Signal
<1>6. CASE OnlyPool /\ Pool!Next
  BY <1>6
  DEF Pool!Next, Pool!Main, Pool!Create, Pool!Join, Pool!Finish, Pool!CreateFails, Pool!Run
<1>7. CASE OnlySignals /\ Signals!Next
  BY <1>7
  DEF Signals!Next, Signals!Step, Signals!Install, Signals!Handle, Signals!Take,
      Signals!Interrupted, Signals!Store, Signals!Printf, Signals!Send,
      Signals!DefaultAction, Signals!Kill
<1>. QED
  BY <1>1, <1>2, <1>3, <1>4, <1>5, <1>6, <1>7 DEF Next

\* Which program runs decides whose step it is.
LEMMA OwnSteps ==
    ASSUME [Next]_vars
    PROVE  /\ Watching'  => Watching  /\ (Watch!Next \/ UNCHANGED vars)
           /\ Looping'   => Looping   /\ (Loop!Next \/ UNCHANGED vars)
           /\ Copying'   => Copying   /\ (Copy!Next \/ UNCHANGED vars)
           /\ Waiting'   => Waiting   /\ (Wait!Next \/ UNCHANGED vars)
           /\ Threading' => Threading /\ (Pool!Next \/ UNCHANGED vars)
           /\ Signalled' => Signalled /\ (Signals!Next \/ UNCHANGED vars)
BY ProgramStays
DEF Next, OnlyWatch, OnlyLoop, OnlyCopy, OnlyWait, OnlyPool, OnlySignals,
    Watching, Looping, Copying, Waiting, Threading, Signalled,
    Loop!LoopPrograms, Loop!Listings, Copy!NodePrograms, Wait!WaitPrograms, Pool!ThreadPrograms

-----------------------------------------------------------------------------
(* NodeCopy. *)

\* What the source was when it was looked up, if it is still there; and
\* whether a node was made.
NodeControl ==
    /\ pc # "done" => exit = Running
    /\ pc \notin {"lookup", "done"} \/ made # Copy!NoNode => src \in {Copy!NoNode, sb_src}
    /\ pc \in {"lookup", "lookup_dst", "readlink"} => ~absent
    /\ pc # "done" => made = Copy!NoNode
    /\ prog = "copy_fifo" /\ pc # "done" => pc \notin {"readlink", "symlink"}

NodeMade ==
    /\ pc = "done" /\ exit = 0 /\ absent => made # Copy!NoNode
    /\ made # Copy!NoNode => made.type = sb_src.type
    /\ made # Copy!NoNode /\ prog = "copy_fifo" => made.mode = sb_src.mode \ Umask
    /\ made # Copy!NoNode => pc = "done"

NodeInv == Copy!TypeOK /\ NodeControl /\ NodeMade

LEMMA FailureStatuses ==
    ASSUME NEW call PROVE Copy!FailureStatus(call) \in 1 .. 4
<1>1. CASE prog = "3*"
  BY <1>1 DEF Copy!FailureStatus
<1>2. CASE prog # "3*" /\ call = "lookup"
  BY <1>2 DEF Copy!FailureStatus
<1>3. CASE prog # "3*" /\ call # "lookup" /\ call = "mknod" /\ sb_src.type = "chr"
  BY <1>3 DEF Copy!FailureStatus
<1>4. CASE prog # "3*" /\ call # "lookup" /\ ~(call = "mknod" /\ sb_src.type = "chr")
  BY <1>4 DEF Copy!FailureStatus
<1>. QED
  BY <1>1, <1>2, <1>3, <1>4

LEMMA NodeStart ==
    ASSUME Copy!Init, Copying PROVE NodeInv
<1>. USE DEF Copy!Init, Copying, Copy!NoNode, Copy!Others
<1>1. Copy!TypeOK
  <2>1. src \in Copy!Node /\ dst \in Copy!Node /\ sb_src \in Copy!Node /\ made \in Copy!Node
    BY DEF Copy!Node, Copy!Types
  <2>. QED
    BY <2>1 DEF Copy!TypeOK, Copy!Calls, Copy!Running
<1>2. NodeControl /\ NodeMade
  BY DEF NodeControl, NodeMade, Running, Copy!Running
<1>. QED
  BY <1>1, <1>2 DEF NodeInv

LEMMA NodeStep ==
    ASSUME NodeInv, Copy!Next
    PROVE  NodeInv'
<1>1. /\ Copy!TypeOK /\ prog \in Copy!NodePrograms /\ src \in Copy!Node /\ dst \in Copy!Node
      /\ sb_src \in Copy!Node /\ made \in Copy!Node /\ Copy!NoNode \in Copy!Node
      /\ \A call : Copy!FailureStatus(call) \in 1 .. 4
  BY FailureStatuses DEF NodeInv, Copy!TypeOK, Copy!Node, Copy!NoNode
<1>. USE DEF Copy!End, Copy!GoTo, Copy!Running, Running, Copy!historyVars, Copy!nodeVars
<1>2. CASE Copy!OthersChange
  <2>1. /\ Copy!Others("reg", {}) \in Copy!Node /\ pc # "done" /\ made = Copy!NoNode
        /\ UNCHANGED <<prog, pc, exit, sb_src, absent, made>>
        /\ src' \in {src, Copy!NoNode}
        /\ dst' \in {dst, Copy!NoNode, Copy!Others("reg", {})}
    BY <1>2 DEF Copy!OthersChange, Copy!Others, Copy!Node, NodeInv, NodeControl
  <2>. QED
    BY <1>1, <2>1 DEF NodeInv, Copy!TypeOK, NodeControl, NodeMade, Copy!NoNode
<1>3. CASE Copy!Lookup
  <2>1. pc = "lookup" /\ made = Copy!NoNode /\ ~absent /\ UNCHANGED <<prog, src, dst, absent, made>>
    BY <1>3 DEF Copy!Lookup, NodeInv, NodeControl
  <2>2. /\ sb_src' \in {sb_src, src} /\ (pc' # "done" => sb_src' = src)
        /\ pc' \in {"readlink", "lookup_dst", "done"} /\ exit' \in {Running} \cup 0 .. 4
        /\ pc' # "done" => exit' = exit
        /\ prog = "copy_fifo" => pc' # "readlink"
    BY <1>1, <1>3, <2>1 DEF Copy!Lookup, Copy!Handled, Copy!TypeOK
  <2>. QED
    BY <1>1, <2>1, <2>2 DEF NodeInv, Copy!TypeOK, Copy!Calls, NodeControl, NodeMade, Copy!NoNode
<1>4. CASE Copy!LookupDestination \/ Copy!LookupDestinationFails
  <2>1. /\ pc = "lookup_dst" /\ ~absent /\ made = Copy!NoNode
        /\ UNCHANGED <<prog, src, dst, sb_src, made>>
        /\ pc' \in {"mkfifo", "mknod", "done"} /\ exit' \in {0, exit}
        /\ pc' # "done" => exit' = exit
        /\ absent' \in BOOLEAN /\ (pc' = "done" => ~absent')
    <3>. USE DEF Copy!MakeCall, NodeInv, NodeControl
    <3>1. CASE Copy!LookupDestination /\ dst = Copy!NoNode
      <4>1. absent' = TRUE /\ pc' \in {"mkfifo", "mknod"}
        BY <3>1 DEF Copy!LookupDestination
      <4>. QED
        BY <3>1, <4>1 DEF Copy!LookupDestination
    <3>2. CASE Copy!LookupDestination /\ dst # Copy!NoNode
      <4>1. absent' = FALSE /\ pc' = "done"
        BY <3>2 DEF Copy!LookupDestination
      <4>. QED
        BY <3>2, <4>1 DEF Copy!LookupDestination
    <3>3. CASE Copy!LookupDestinationFails
      <4>1. absent' = absent /\ absent \in BOOLEAN
        BY <1>1, <3>3 DEF Copy!LookupDestinationFails, Copy!TypeOK
      <4>2. pc = "lookup_dst" /\ ~absent /\ made = Copy!NoNode
        BY <3>3 DEF Copy!LookupDestinationFails
      <4>3. /\ UNCHANGED <<prog, src, dst, sb_src, made>>
            /\ \/ pc' = "done" /\ exit' = 0
               \/ pc' \in {"mkfifo", "mknod"} /\ exit' = exit
        BY <3>3 DEF Copy!LookupDestinationFails
      <4>. QED
        BY <4>1, <4>2, <4>3
    <3>. QED
      BY <1>4, <3>1, <3>2, <3>3
  <2>. QED
    BY <1>1, <2>1 DEF NodeInv, Copy!TypeOK, Copy!Calls, NodeControl, NodeMade, Copy!NoNode
<1>5. CASE Copy!ReadLink
  <2>1. /\ pc = "readlink" /\ ~absent /\ made = Copy!NoNode /\ prog # "copy_fifo"
        /\ UNCHANGED <<prog, src, dst, sb_src, made>>
        /\ \/ pc' = "symlink" /\ exit' = exit
           \/ pc' = "done" /\ exit' \in 1 .. 4
        /\ absent' \in BOOLEAN
    BY <1>1, <1>5 DEF Copy!ReadLink, NodeInv, NodeControl
  <2>. QED
    BY <1>1, <2>1 DEF NodeInv, Copy!TypeOK, Copy!Calls, NodeControl, NodeMade, Copy!NoNode
<1>6. CASE Copy!Make \/ Copy!MakeLink
  <2>1. /\ pc \in {"mkfifo", "mknod", "symlink"} /\ made = Copy!NoNode
        /\ UNCHANGED <<prog, src, sb_src, absent>>
        /\ src \in {Copy!NoNode, sb_src}
    BY <1>6 DEF Copy!Make, Copy!MakeLink, NodeInv, NodeControl
  <2>2. CASE pc' = "done" /\ exit' \in 1 .. 4 /\ UNCHANGED <<dst, made>>
    BY <1>1, <2>1, <2>2 DEF NodeInv, Copy!TypeOK, NodeControl, NodeMade
  <2>3. CASE \E m \in SUBSET Permissions :
                 /\ made' = [type |-> sb_src.type, mode |-> m, by |-> "us"] /\ dst' = made'
                 /\ pc' = "done" /\ exit' = 0
                 /\ prog = "copy_fifo" => m = sb_src.mode \ Umask
    <3>1. made' \in Copy!Node
      BY <1>1, <2>3 DEF Copy!Node
    <3>2. made'.type = sb_src.type /\ (prog = "copy_fifo" => made'.mode = sb_src.mode \ Umask)
      BY <2>3
    <3>3. made' # Copy!NoNode
      BY <2>3 DEF Copy!NoNode
    <3>. QED
      BY <1>1, <2>1, <2>3, <3>1, <3>2, <3>3 DEF NodeInv, Copy!TypeOK, NodeControl, NodeMade
  <2>4. \/ pc' = "done" /\ exit' \in 1 .. 4 /\ UNCHANGED <<dst, made>>
        \/ \E m \in SUBSET Permissions :
               /\ made' = [type |-> sb_src.type, mode |-> m, by |-> "us"] /\ dst' = made'
               /\ pc' = "done" /\ exit' = 0
               /\ prog = "copy_fifo" => m = sb_src.mode \ Umask
    <3>1. CASE Copy!Make
      BY <1>1, <3>1 DEF Copy!Make, Copy!MakeNode, Copy!MakeModes
    <3>2. CASE Copy!MakeLink
      BY <1>1, <3>2 DEF Copy!MakeLink, Copy!MakeNode, NodeInv, NodeControl
    <3>. QED
      BY <1>6, <3>1, <3>2
  <2>. QED
    BY <2>2, <2>3, <2>4
<1>7. CASE Copy!CallFails
  <2>1. /\ pc # "done" /\ pc' = "done" /\ exit' \in 1 .. 4 /\ made = Copy!NoNode
        /\ UNCHANGED <<prog, src, dst, sb_src, absent, made>>
    BY <1>1, <1>7 DEF Copy!CallFails, Copy!Calls, NodeInv, NodeControl
  <2>. QED
    BY <1>1, <2>1 DEF NodeInv, Copy!TypeOK, NodeControl, NodeMade
<1>. QED
  BY <1>2, <1>3, <1>4, <1>5, <1>6, <1>7 DEF Copy!Next, Copy!Step

LEMMA NodeInvariant == Spec => [](Copying => NodeInv)
<1>1. Init => (Copying => NodeInv)
  BY NodeStart DEF Init
<1>2. (Copying => NodeInv) /\ [Next]_vars => (Copying => NodeInv)'
  <2>. SUFFICES ASSUME Copying => NodeInv, [Next]_vars, Copying' PROVE NodeInv'
    OBVIOUS
  <2>1. CASE Copy!Next
    BY <2>1, OwnSteps, NodeStep
  <2>2. CASE UNCHANGED vars
    BY <2>2, OwnSteps
    DEF vars, nodeVars, NodeInv, Copy!TypeOK, NodeControl, NodeMade
  <2>. QED
    BY <2>1, <2>2, OwnSteps
<1>. QED
  BY <1>1, <1>2, PTL DEF Spec

\* A program that looked the destination up in vain and returns 0 has made a
\* node of the source's type, whatever others do to both names.
THEOREM NodeIsMade == Spec => []StatusZeroMeansMade
<1>1. (Copying => NodeInv) => StatusZeroMeansMade
  BY DEF NodeInv, NodeControl, NodeMade, Running, StatusZeroMeansMade, Copy!StatusZeroMeansMade
<1>. QED
  BY <1>1, NodeInvariant, PTL

\* copy_fifo.c makes a fifo with the mode that lstat returned, less the umask;
\* it is that of the source as long as the source is there.
THEOREM FifoModeIsCopied == Spec => []FifoModeCopied
<1>1. (Copying => NodeInv) => FifoModeCopied
  BY DEF NodeInv, NodeControl, NodeMade, FifoModeCopied, Copy!FifoModeCopied
<1>. QED
  BY <1>1, NodeInvariant, PTL

-----------------------------------------------------------------------------
(* ChildWait. *)

\* A report is of the last change, and what was printed came before it.
ChildControl ==
    /\ pc # "done" => exit = Running
    /\ pc = "fork" => child = "none" /\ changes = << >>
    /\ child = "none" => changes = << >>
    /\ child \in Wait!Ended => changes # << >> /\ Wait!Last(changes) = child
    /\ report # "none" => changes # << >> /\ Wait!Last(changes) = report
    /\ report \in Wait!Ended => child = report

NoticesInv ==
    prog = "13.1" /\ ~ignored =>
        /\ Wait!IsSubsequence(notices, changes)
        /\ report # "none" => Wait!IsSubsequence(notices, Wait!Front(changes))
        /\ changes # << >> /\ report = "none" =>
               notices # << >> /\ Wait!Last(notices) = Wait!Last(changes)
        /\ child \in Wait!Ended /\ report = "none" => pc = "done"
        /\ exit = 0 => child \in Wait!Ended /\ report = "none"

\* Where the child's line goes.
LineInv ==
    prog = "14.1" =>
        /\ exit = 0 => child \in Wait!Ended
        /\ child_pc = "close" => stdout = "1.txt"
        /\ child_pc = "exit" \/ child = "exited" => stdout \in {"1.txt", "closed"}
        /\ child = "exited" => output = IF stdout = "closed" THEN "none" ELSE stdout

WaitInv == Wait!TypeOK /\ ChildControl /\ NoticesInv /\ LineInv

LEMMA FrontAndLast ==
    ASSUME NEW S, NEW s \in Seq(S), NEW x \in S
    PROVE  /\ Append(s, x) # << >> /\ Append(s, x) \in Seq(S)
           /\ Wait!Last(Append(s, x)) = x
           /\ Wait!Front(Append(s, x)) = s
<1>1. /\ Append(s, x) \in Seq(S) /\ Len(Append(s, x)) = Len(s) + 1
      /\ Append(s, x)[Len(s) + 1] = x
      /\ \A k \in 1 .. Len(s) : Append(s, x)[k] = s[k]
  OBVIOUS
<1>2. SubSeq(Append(s, x), 1, Len(s)) = s
  <2>1. PICK t \in Seq(S) : t = SubSeq(Append(s, x), 1, Len(s))
    BY <1>1
  <2>2. Len(t) = Len(s) /\ \A k \in 1 .. Len(t) : t[k] = s[k]
    BY <1>1, <2>1
  <2>. QED
    BY <2>1, <2>2, SeqEqual
<1>. QED
  BY <1>1, <1>2 DEF Wait!Last, Wait!Front

LEMMA FrontThenLast ==
    ASSUME NEW S, NEW s \in Seq(S), s # << >>
    PROVE  /\ Wait!Front(s) \in Seq(S) /\ Wait!Last(s) \in S
           /\ Append(Wait!Front(s), Wait!Last(s)) = s
<1>1. Len(s) \in Nat /\ Len(s) # 0
  OBVIOUS
<1>2. PICK n \in Nat : Len(s) = n + 1
  <2>1. Len(s) - 1 \in Nat /\ Len(s) = (Len(s) - 1) + 1
    BY <1>1
  <2>. QED
    BY <2>1
<1>3. PICK f : f = SubSeq(s, 1, n)
  OBVIOUS
<1>4. f \in Seq(S) /\ Len(f) = n /\ \A k \in 1 .. n : f[k] = s[k]
  BY <1>2, <1>3
<1>5. PICK t : t = Append(f, s[n + 1])
  OBVIOUS
<1>6. s[n + 1] \in S /\ t \in Seq(S) /\ Len(t) = n + 1 /\ \A k \in 1 .. n + 1 : t[k] = s[k]
  BY <1>2, <1>4, <1>5
<1>7. t = s
  BY <1>2, <1>6, SeqEqual
<1>8. Wait!Front(s) = f /\ Wait!Last(s) = s[n + 1]
  BY <1>2, <1>3 DEF Wait!Front, Wait!Last
<1>. QED
  BY <1>4, <1>5, <1>6, <1>7, <1>8

LEMMA StillSubsequence ==
    ASSUME NEW S, NEW s \in Seq(S), NEW t \in Seq(S), NEW x \in S, Wait!IsSubsequence(s, t)
    PROVE  Wait!IsSubsequence(s, Append(t, x))
<1>1. PICK at \in [DOMAIN s -> DOMAIN t] :
          \A k \in DOMAIN s : s[k] = t[at[k]] /\ \A j \in 1 .. k - 1 : at[j] < at[k]
  BY DEF Wait!IsSubsequence
<1>2. /\ DOMAIN t \subseteq DOMAIN Append(t, x)
      /\ \A k \in DOMAIN t : Append(t, x)[k] = t[k]
  OBVIOUS
<1>3. at \in [DOMAIN s -> DOMAIN Append(t, x)]
  BY <1>2
<1>4. \A k \in DOMAIN s : s[k] = Append(t, x)[at[k]] /\ \A j \in 1 .. k - 1 : at[j] < at[k]
  BY <1>1, <1>2
<1>. QED
  BY <1>3, <1>4 DEF Wait!IsSubsequence

LEMMA LongerSubsequence ==
    ASSUME NEW S, NEW s \in Seq(S), NEW t \in Seq(S), NEW x \in S, Wait!IsSubsequence(s, t)
    PROVE  Wait!IsSubsequence(Append(s, x), Append(t, x))
<1>1. PICK at \in [DOMAIN s -> DOMAIN t] :
          \A k \in DOMAIN s : s[k] = t[at[k]] /\ \A j \in 1 .. k - 1 : at[j] < at[k]
  BY DEF Wait!IsSubsequence
<1>2. PICK n \in Nat, m \in Nat : n = Len(s) /\ m = Len(t)
  OBVIOUS
<1>3. /\ DOMAIN s = 1 .. n /\ DOMAIN t = 1 .. m
      /\ DOMAIN Append(s, x) = 1 .. n + 1 /\ DOMAIN Append(t, x) = 1 .. m + 1
      /\ Append(s, x)[n + 1] = x /\ Append(t, x)[m + 1] = x
      /\ \A k \in 1 .. n : Append(s, x)[k] = s[k]
      /\ \A k \in 1 .. m : Append(t, x)[k] = t[k]
  BY <1>2
<1>4. \A k \in 1 .. n : at[k] \in 1 .. m
  BY <1>1, <1>3
<1>5. PICK ax : /\ ax \in [1 .. n + 1 -> 1 .. m + 1] /\ ax[n + 1] = m + 1
                /\ \A k \in 1 .. n : ax[k] = at[k]
  <2> DEFINE f == [k \in 1 .. n + 1 |-> IF k = n + 1 THEN m + 1 ELSE at[k]]
  <2>1. \A k \in 1 .. n + 1 : f[k] \in 1 .. m + 1
    <3>. SUFFICES ASSUME NEW k \in 1 .. n + 1 PROVE f[k] \in 1 .. m + 1
      OBVIOUS
    <3>1. CASE k = n + 1
      BY <3>1
    <3>2. CASE k \in 1 .. n
      BY <1>4, <3>2
    <3>. QED
      BY <3>1, <3>2
  <2>2. f \in [1 .. n + 1 -> 1 .. m + 1] /\ f[n + 1] = m + 1 /\ \A k \in 1 .. n : f[k] = at[k]
    BY <2>1
  <2>. QED
    BY <2>2
<1>6. ASSUME NEW k \in 1 .. n + 1
      PROVE  Append(s, x)[k] = Append(t, x)[ax[k]] /\ \A j \in 1 .. k - 1 : ax[j] < ax[k]
  <2>1. CASE k = n + 1
    <3>1. ASSUME NEW j \in 1 .. k - 1 PROVE ax[j] < ax[k]
      <4>1. j \in 1 .. n
        BY <2>1
      <4>2. ax[j] = at[j] /\ at[j] \in 1 .. m
        BY <1>4, <1>5, <4>1
      <4>. QED
        BY <1>5, <2>1, <4>2
    <3>. QED
      BY <1>3, <1>5, <2>1, <3>1
  <2>2. CASE k \in 1 .. n
    <3>1. ax[k] = at[k] /\ at[k] \in 1 .. m
      BY <1>4, <1>5, <2>2
    <3>2. s[k] = t[at[k]] /\ \A j \in 1 .. k - 1 : at[j] < at[k]
      BY <1>1, <1>3, <2>2
    <3>3. ASSUME NEW j \in 1 .. k - 1 PROVE ax[j] < ax[k]
      <4>1. j \in 1 .. n
        BY <2>2
      <4>. QED
        BY <1>5, <3>1, <3>2, <4>1
    <3>. QED
      BY <1>3, <2>2, <3>1, <3>2, <3>3
  <2>3. k = n + 1 \/ k \in 1 .. n
    BY <1>2
  <2>. QED
    BY <2>1, <2>2, <2>3
<1>. QED
  BY <1>3, <1>5, <1>6 DEF Wait!IsSubsequence

LEMMA WaitStart ==
    ASSUME Wait!Init PROVE WaitInv
<1>. USE DEF Wait!Init, Wait!Running, Running
<1>1. << >> \in Seq(Wait!What)
  OBVIOUS
<1>2. Wait!TypeOK
  BY <1>1 DEF Wait!TypeOK, Wait!What, Wait!Ended, Wait!Closed, Wait!Stdout
<1>3. Wait!IsSubsequence(<< >>, << >>)
  <2>1. DOMAIN << >> = {} /\ [k \in {} |-> 0] \in [{} -> {}]
    OBVIOUS
  <2>. QED
    BY <2>1 DEF Wait!IsSubsequence
<1>4. ChildControl /\ NoticesInv /\ LineInv
  BY <1>3 DEF ChildControl, NoticesInv, LineInv, Wait!Ended
<1>. QED
  BY <1>2, <1>4 DEF WaitInv

\* A change of the child's state.
LEMMA ChangeStep ==
    ASSUME WaitInv, NEW state, NEW what \in Wait!What, Wait!Change(state, what),
           child \in {"running", "stopped"},
           \/ state \in Wait!Ended /\ what = state
           \/ state \in {"running", "stopped"} /\ what \notin Wait!Ended,
           UNCHANGED <<prog, pc, exit, status, notices, stdout, file_fd, ignored>>,
           child_pc' \in {child_pc, "done"},
           output' \in {"none", "terminal", "1.txt"},
           state = "exited" => /\ prog = "14.1" => child_pc = "exit"
                               /\ output' = IF stdout = "closed" THEN "none" ELSE stdout
    PROVE  WaitInv'
<1>1. /\ child' = state /\ report' = what /\ changes' = Append(changes, what)
      /\ changes \in Seq(Wait!What) /\ notices \in Seq(Wait!What) /\ Wait!TypeOK
      /\ what # "none"
  BY DEF Wait!Change, Wait!TypeOK, WaitInv, Wait!What, Wait!Ended
<1>2. /\ changes' # << >> /\ changes' \in Seq(Wait!What)
      /\ Wait!Last(changes') = what /\ Wait!Front(changes') = changes
  BY <1>1, FrontAndLast
<1>3. Wait!TypeOK'
  BY <1>1, <1>2 DEF Wait!TypeOK
<1>4. ChildControl'
  BY <1>1, <1>2 DEF ChildControl, WaitInv, Wait!Ended
<1>5. NoticesInv'
  <2>1. SUFFICES ASSUME prog = "13.1", ~ignored
                 PROVE  /\ Wait!IsSubsequence(notices, Append(changes, what))
                        /\ Wait!IsSubsequence(notices, changes)
                        /\ exit # 0
    BY <1>1, <1>2 DEF NoticesInv
  <2>2. Wait!IsSubsequence(notices, changes) /\ exit # 0
    BY <2>1 DEF WaitInv, NoticesInv, Wait!Ended
  <2>. QED
    BY <1>1, <2>2, StillSubsequence
<1>6. LineInv'
  BY <1>1 DEF WaitInv, LineInv, Wait!Ended
<1>. QED
  BY <1>3, <1>4, <1>5, <1>6 DEF WaitInv

LEMMA WaitStep ==
    ASSUME WaitInv, Wait!Next
    PROVE  WaitInv'
<1>1. /\ Wait!TypeOK /\ prog \in {"13.1", "14.1"} /\ ChildControl /\ NoticesInv /\ LineInv
      /\ changes \in Seq(Wait!What) /\ notices \in Seq(Wait!What) /\ status \in Wait!What
  BY DEF Wait!TypeOK, WaitInv, Wait!WaitPrograms
<1>. USE DEF Wait!Running, Running, Wait!parentVars, Wait!childVars
<1>2. CASE Wait!ChildRedirects
  <2>1. /\ Wait!TypeOK' /\ prog = "14.1" /\ child = "running"
        /\ UNCHANGED <<prog, pc, exit, status, notices, child, report, changes, output, ignored>>
        /\ child_pc' = "close" => stdout' = "1.txt"
        /\ child_pc' = "exit" => stdout' \in {"1.txt", "closed"}
    BY <1>1, <1>2
    DEF Wait!ChildRedirects, Wait!TypeOK, Wait!Closed, Wait!Stdout, LineInv
  <2>. QED
    BY <1>1, <2>1 DEF WaitInv, ChildControl, NoticesInv, LineInv, Wait!Ended
<1>3. CASE Wait!ChildExits
  BY <1>1, <1>3, ChangeStep DEF Wait!ChildExits, Wait!What, Wait!Ended, Wait!TypeOK
<1>4. CASE Wait!ChildFails
  BY <1>1, <1>4, ChangeStep DEF Wait!ChildFails, Wait!What, Wait!Ended, Wait!TypeOK
<1>5. CASE Wait!Signal
  <2>1. CASE child = "running" /\ Wait!Change("stopped", "stopped") /\ UNCHANGED child_pc
    BY <1>1, <1>5, <2>1, ChangeStep DEF Wait!Signal, Wait!What, Wait!Ended, Wait!TypeOK
  <2>2. CASE child = "stopped" /\ Wait!Change("running", "continued") /\ UNCHANGED child_pc
    BY <1>1, <1>5, <2>2, ChangeStep DEF Wait!Signal, Wait!What, Wait!Ended, Wait!TypeOK
  <2>3. CASE child \in {"running", "stopped"} /\ Wait!Change("killed", "killed") /\ child_pc' = "done"
    BY <1>1, <1>5, <2>3, ChangeStep DEF Wait!Signal, Wait!What, Wait!Ended, Wait!TypeOK
  <2>. QED
    BY <1>5, <2>1, <2>2, <2>3 DEF Wait!Signal
<1>6. CASE Wait!Fork
  <2>1. /\ pc = "fork" /\ pc' = "wait" /\ exit' = exit /\ child' = "running"
        /\ child_pc' \in {"open", "exit"} /\ (prog = "14.1" => child_pc' = "open")
        /\ UNCHANGED <<prog, status, notices, report, changes, stdout, file_fd, output, ignored>>
        /\ child = "none"
    BY <1>1, <1>6 DEF Wait!Fork, ChildControl
  <2>. QED
    BY <1>1, <2>1 DEF WaitInv, Wait!TypeOK, ChildControl, NoticesInv, LineInv, Wait!Ended
<1>7. CASE Wait!ForkFails
  BY <1>1, <1>7
  DEF Wait!ForkFails, Wait!End, WaitInv, Wait!TypeOK, ChildControl, NoticesInv, LineInv, Wait!Ended
<1>8. CASE Wait!Waitpid
  <2>1. /\ pc = "wait" /\ prog = "13.1" /\ report # "none" /\ report \in Wait!What
        /\ report' = "none" /\ status' = report /\ notices' = Append(notices, report)
        /\ \/ report \in Wait!Ended /\ pc' = "done" /\ exit' = 0
           \/ report \notin Wait!Ended /\ UNCHANGED <<pc, exit>>
        /\ UNCHANGED <<prog, child_pc, child, changes, stdout, file_fd, output, ignored>>
    BY <1>1, <1>8
    DEF Wait!Waitpid, Wait!Reportable, Wait!TypeOK, Wait!LeavesLoop, Wait!End, Wait!Prints
  <2>2. /\ changes # << >> /\ Wait!Last(changes) = report
        /\ child \in Wait!Ended <=> report \in Wait!Ended
    BY <1>1, <2>1 DEF ChildControl
  <2>3. notices' \in Seq(Wait!What) /\ notices' # << >> /\ Wait!Last(notices') = report
    BY <1>1, <2>1, FrontAndLast
  <2>4. ~ignored => Wait!IsSubsequence(notices', changes)
    <3>1. /\ Wait!Front(changes) \in Seq(Wait!What)
          /\ changes = Append(Wait!Front(changes), report)
      BY <1>1, <2>2, FrontThenLast
    <3>2. ~ignored => Wait!IsSubsequence(notices, Wait!Front(changes))
      BY <1>1, <2>1 DEF NoticesInv
    <3>. QED
      BY <1>1, <2>1, <3>1, <3>2, LongerSubsequence
  <2>5. Wait!TypeOK' /\ ChildControl' /\ LineInv'
    BY <1>1, <2>1, <2>3 DEF Wait!TypeOK, ChildControl, LineInv, Wait!Ended
  <2>6. NoticesInv'
    BY <1>1, <2>1, <2>2, <2>3, <2>4 DEF NoticesInv
  <2>. QED
    BY <2>5, <2>6 DEF WaitInv
<1>9. CASE Wait!WaitpidFails
  <2>1. /\ pc = "wait" /\ prog = "13.1" /\ child \in Wait!Ended
        /\ ~(report # "none" /\ ~(ignored /\ report \in Wait!Ended))
        /\ \/ notices' = Append(notices, status) /\ pc' = "done" /\ exit' = 0
           \/ UNCHANGED <<notices, pc, exit>>
        /\ UNCHANGED <<prog, status, child_pc, child, report, changes, stdout, file_fd,
                       output, ignored>>
    BY <1>1, <1>9
    DEF Wait!WaitpidFails, Wait!Reportable, Wait!LeavesLoop, Wait!End, Wait!Prints
  <2>2. ignored
    BY <1>1, <2>1 DEF NoticesInv
  <2>3. Wait!TypeOK'
    <3>1. notices' \in Seq(Wait!What)
      BY <1>1, <2>1, FrontAndLast
    <3>. QED
      BY <1>1, <2>1, <3>1 DEF Wait!TypeOK
  <2>. QED
    BY <1>1, <2>1, <2>2, <2>3 DEF WaitInv, ChildControl, NoticesInv, LineInv
<1>10. CASE Wait!Wait
  BY <1>1, <1>10
  DEF Wait!Wait, Wait!End, WaitInv, Wait!TypeOK, ChildControl, NoticesInv, LineInv
<1>. QED
  BY <1>2, <1>3, <1>4, <1>5, <1>6, <1>7, <1>8, <1>9, <1>10
  DEF Wait!Next, Wait!Parent, Wait!Child

LEMMA WaitInvariant == Spec => [](Waiting => WaitInv)
<1>1. Init => (Waiting => WaitInv)
  BY WaitStart DEF Init
<1>2. (Waiting => WaitInv) /\ [Next]_vars => (Waiting => WaitInv)'
  <2>. SUFFICES ASSUME Waiting => WaitInv, [Next]_vars, Waiting' PROVE WaitInv'
    OBVIOUS
  <2>1. CASE Wait!Next
    BY <2>1, OwnSteps, WaitStep
  <2>2. CASE UNCHANGED vars
    BY <2>2, OwnSteps
    DEF vars, childVars, WaitInv, Wait!TypeOK, ChildControl, NoticesInv, LineInv
  <2>. QED
    BY <2>1, <2>2, OwnSteps
<1>. QED
  BY <1>1, <1>2, PTL DEF Spec

\* However its signals come, 13.1.c prints changes of the child's state that
\* happened, in their order, none twice, and ends with the child's end, unless
\* SIGCHLD was ignored when it started.
THEOREM NoticesAreTrue == Spec => []NoticesHappened
<1>1. (Waiting => WaitInv) => NoticesHappened
  BY DEF WaitInv, NoticesInv, ChildControl, NoticesHappened, Wait!NoticesHappened, Wait!Ended
<1>. QED
  BY <1>1, WaitInvariant, PTL

\* 14.1.c ends after its child, whose line is then in 1.txt.
THEOREM LineIsInFile == Spec => []LineInFile
<1>1. (Waiting => WaitInv) => LineInFile
  BY DEF WaitInv, LineInv, LineInFile, Wait!LineInFile
<1>. QED
  BY <1>1, WaitInvariant, PTL

-----------------------------------------------------------------------------
(* DirectoryWatch.  An event's number is its place in the order in which   *)
(* the kernel saw the changes, so the order of the queue and of the lines  *)
(* is the order of the numbers; the number 0 is the overflow's.            *)

\* What the kernel queues, and that the cookie of a rename which began in the
\* same handle_event is older than any event that waits.
Waits(event) ==
    /\ event.id <= caused
    /\ event.id = 0 <=> event.kind = "overflow"
    /\ event.id # 0 => cookie < event.id
    /\ event.kind = "moved_from" => event.cookie = event.id
    /\ event.id \in arrivals => event.kind # "moved_from"
    /\ event.id \in arrivals /\ event.kind = "moved_to" => event.cookie = event.id

QueueInv ==
    /\ arrivals \subseteq 1 .. caused /\ renaming \subseteq 1 .. caused /\ cookie <= caused
    /\ Len(queue) > QueueLimit => \E a \in 1 .. Len(queue) : queue[a] = Watch!Overflow
    /\ \A a \in 1 .. Len(queue) : Waits(queue[a])
    /\ \A a, b \in 1 .. Len(queue) :
          a < b /\ queue[a].id # 0 /\ queue[b].id # 0 => queue[a].id < queue[b].id

\* As long as each read returned one event: the lines are in order and before the
\* events that wait, and each arrival is among the ones or the others.
LinesInOrder ==
    ~batched =>
       /\ \A a \in 1 .. Len(lines) :
             /\ lines[a] <= caused
             /\ \A b \in 1 .. Len(queue) : queue[b].id # 0 => lines[a] < queue[b].id
       /\ \A a, b \in 1 .. Len(lines) : a < b => lines[a] < lines[b]
       /\ \A id \in arrivals : \/ \E a \in 1 .. Len(lines) : lines[a] = id
                               \/ \E b \in 1 .. Len(queue) : queue[b].id = id

WatchInv == Watch!TypeOK /\ QueueInv /\ LinesInOrder

\* The types, in the form in which the steps use them.
LEMMA WatchFacts ==
    ASSUME WatchInv
    PROVE  /\ MaxEvents \in Nat /\ QueueLimit \in Nat /\ SIZEOF_BUF \in Nat
           /\ Sizes \subseteq 1 .. SIZEOF_BUF
           /\ caused \in 0 .. MaxEvents /\ cookie \in 0 .. MaxEvents
           /\ queue \in Seq(Watch!Event) /\ Len(queue) \in Nat /\ Len(queue) <= QueueLimit + 1
           /\ \A a \in 1 .. Len(queue) : queue[a].id \in Nat /\ queue[a] \in Watch!Event
           /\ lines \in Seq(1 .. MaxEvents) /\ Len(lines) \in Nat
           /\ \A a \in 1 .. Len(lines) : lines[a] \in 1 .. MaxEvents
<1>1. Watch!TypeOK
  BY DEF WatchInv
<1>2. /\ MaxEvents \in Nat /\ QueueLimit \in Nat /\ SIZEOF_BUF \in Nat
      /\ Sizes \subseteq 1 .. SIZEOF_BUF
  BY WatchAssumption DEF Watch!WatchConstants
<1>3. caused \in 0 .. MaxEvents /\ cookie \in 0 .. MaxEvents
  BY <1>1 DEF Watch!TypeOK
<1>4. queue \in Seq(Watch!Event) /\ Len(queue) \in Nat /\ Len(queue) <= QueueLimit + 1
  BY <1>1 DEF Watch!TypeOK
<1>5. \A a \in 1 .. Len(queue) : queue[a].id \in Nat /\ queue[a] \in Watch!Event
  <2>1. \A a \in 1 .. Len(queue) : queue[a] \in Watch!Event
    BY <1>4
  <2>2. \A event \in Watch!Event : event.id \in Nat
    BY <1>2 DEF Watch!Event
  <2>. QED
    BY <2>1, <2>2
<1>6. lines \in Seq(1 .. MaxEvents) /\ Len(lines) \in Nat
  BY <1>1 DEF Watch!TypeOK
<1>7. \A a \in 1 .. Len(lines) : lines[a] \in 1 .. MaxEvents
  BY <1>6, ElementOfSeq
<1>. QED
  BY <1>2, <1>3, <1>4, <1>5, <1>6, <1>7

LEMMA WatchStart ==
    ASSUME Watch!Init
    PROVE  WatchInv
<1>1. /\ queue \in Seq(Watch!Event) /\ Len(queue) = 0
      /\ lines \in Seq(1 .. MaxEvents) /\ Len(lines) = 0
      /\ 0 \in 0 .. MaxEvents /\ 0 <= QueueLimit + 1 /\ ~(0 > QueueLimit)
  BY WatchAssumption DEF Watch!Init, Watch!WatchConstants
<1>2. batched \in BOOLEAN /\ exit = Watch!Running /\ pc \in Watch!Calls
  BY Zenon DEF Watch!Init, Watch!Calls
<1>3. Watch!TypeOK
  BY <1>1, <1>2 DEF Watch!Init, Watch!TypeOK
<1>4. QueueInv /\ LinesInOrder
  BY <1>1 DEF Watch!Init, QueueInv, LinesInOrder
<1>. QED
  BY <1>3, <1>4 DEF WatchInv

\* An event that is queued.
LEMMA EventQueued ==
    ASSUME WatchInv, NEW event \in Watch!Event, queue' = Append(queue, event),
           caused' = caused + 1, caused < MaxEvents, renaming' \subseteq 1 .. caused',
           \/ event.id = caused' /\ Len(queue) < QueueLimit
           \/ event = Watch!Overflow /\ Len(queue) <= QueueLimit,
           \/ arrivals' = arrivals
           \/ event.id = caused' /\ arrivals' = arrivals \cup {caused'},
           Waits(event)', UNCHANGED <<prog, pc, exit, stdin, cookie, lines, batched>>
    PROVE  WatchInv'
<1>. USE WatchFacts
<1>1. /\ Len(queue') = Len(queue) + 1
      /\ queue'[Len(queue) + 1] = event
      /\ \A a \in 1 .. Len(queue) : queue'[a] = queue[a]
      /\ queue' \in Seq(Watch!Event)
  OBVIOUS
<1>2. \A a \in 1 .. Len(queue') : a \in 1 .. Len(queue) \/ a = Len(queue) + 1
  BY <1>1
<1>3. /\ caused' \in 1 .. MaxEvents /\ caused' = caused + 1
      /\ event.id = 0 \/ event.id = caused'
      /\ \A id \in arrivals : id \in 1 .. caused
      /\ \A id \in arrivals' : id \in arrivals \/ id = caused'
      /\ \A c \in renaming' : c \in 1 .. caused'
  <2>1. event.id = 0 \/ event.id = caused'
    BY DEF Watch!Overflow
  <2>2. arrivals \subseteq 1 .. caused
    BY DEF WatchInv, QueueInv
  <2>3. caused' \in 1 .. MaxEvents
    OBVIOUS
  <2>4. \A id \in arrivals' : id \in arrivals \/ id = caused'
    OBVIOUS
  <2>5. \A c \in renaming' : c \in 1 .. caused'
    BY Zenon
  <2>6. \A id \in arrivals : id \in 1 .. caused
    BY <2>2, Zenon
  <2>. QED
    BY <2>1, <2>3, <2>4, <2>5, <2>6, Zenon
<1>4. Watch!TypeOK'
  <2>1. Len(queue') <= QueueLimit + 1
    BY <1>1
  <2>2. arrivals' \subseteq 1 .. MaxEvents
    BY <1>3
  <2>3. caused' \in 0 .. MaxEvents /\ cookie' \in 0 .. MaxEvents /\ renaming' \subseteq 1 .. MaxEvents
    BY <1>3
  <2>. QED
    BY <1>1, <2>1, <2>2, <2>3 DEF WatchInv, Watch!TypeOK
<1>5. \A a \in 1 .. Len(queue) : Waits(queue[a])'
  <2>1. \A a \in 1 .. Len(queue) : Waits(queue[a]) /\ queue[a].id # caused'
    BY DEF WatchInv, QueueInv, Waits
  <2>2. \A a \in 1 .. Len(queue) : queue[a].id \in arrivals' <=> queue[a].id \in arrivals
    BY <2>1
  <2>. QED
    BY <1>1, <2>1, <2>2 DEF Waits
<1>6. QueueInv'
  <2>0. arrivals' \subseteq 1 .. caused'
    BY <1>3
  <2>1. cookie' <= caused'
    BY <1>3 DEF WatchInv, QueueInv
  <2>2. Len(queue') > QueueLimit => \E a \in 1 .. Len(queue') : queue'[a] = Watch!Overflow
    BY <1>1
  <2>3. \A a \in 1 .. Len(queue') : Waits(queue[a])'
    BY <1>1, <1>2, <1>5
  <2>4. ASSUME NEW a \in 1 .. Len(queue'), NEW b \in 1 .. Len(queue'),
               a < b, queue'[a].id # 0, queue'[b].id # 0
        PROVE  queue'[a].id < queue'[b].id
    <3>1. a \in 1 .. Len(queue) /\ queue[a].id <= caused
      BY <1>1, <1>2, <2>4 DEF WatchInv, QueueInv, Waits
    <3>2. CASE b \in 1 .. Len(queue)
      BY <1>1, <2>4, <3>1, <3>2 DEF WatchInv, QueueInv
    <3>3. CASE b = Len(queue) + 1
      BY <1>1, <1>3, <2>4, <3>1, <3>3
    <3>. QED
      BY <1>2, <3>2, <3>3
  <2>. QED
    BY <2>0, <2>1, <2>2, <2>3, <2>4 DEF QueueInv
<1>7. LinesInOrder'
  <2>. SUFFICES ASSUME ~batched PROVE LinesInOrder'
    BY DEF LinesInOrder
  <2>1. \A a \in 1 .. Len(lines) : lines[a] <= caused'
    BY DEF WatchInv, LinesInOrder
  <2>2. ASSUME NEW a \in 1 .. Len(lines), NEW b \in 1 .. Len(queue'), queue'[b].id # 0
        PROVE  lines[a] < queue'[b].id
    <3>1. CASE b \in 1 .. Len(queue)
      BY <1>1, <2>2, <3>1 DEF WatchInv, LinesInOrder
    <3>2. CASE b = Len(queue) + 1
      BY <1>1, <1>3, <2>2, <3>2 DEF WatchInv, LinesInOrder
    <3>. QED
      BY <1>2, <3>1, <3>2
  <2>3. ASSUME NEW id \in arrivals'
        PROVE  \/ \E a \in 1 .. Len(lines) : lines[a] = id
               \/ \E b \in 1 .. Len(queue') : queue'[b].id = id
    <3>1. CASE id \in arrivals
      BY <1>1, <3>1 DEF WatchInv, LinesInOrder
    <3>2. CASE id \notin arrivals
      <4>1. event.id = id
        BY <2>3, <3>2
      <4>2. Len(queue) + 1 \in 1 .. Len(queue')
        BY <1>1
      <4>. QED
        BY <1>1, <4>1, <4>2
    <3>. QED
      BY <3>1, <3>2
  <2>. QED
    BY <2>1, <2>2, <2>3 DEF WatchInv, LinesInOrder
<1>. QED
  BY <1>4, <1>6, <1>7 DEF WatchInv

\* An event that is not: an overflow event waits already.
LEMMA EventDropped ==
    ASSUME WatchInv, caused' = caused + 1, caused < MaxEvents, renaming' \subseteq 1 .. caused',
           UNCHANGED <<prog, pc, exit, stdin, queue, cookie, lines, batched, arrivals>>
    PROVE  WatchInv'
<1>. USE WatchFacts
<1>1. Watch!TypeOK'
  <2>1. caused' \in 1 .. MaxEvents /\ cookie' \in 0 .. MaxEvents
    OBVIOUS
  <2>2. renaming' \subseteq 1 .. MaxEvents
    BY <2>1
  <2>. QED
    BY <2>1, <2>2 DEF WatchInv, Watch!TypeOK
<1>2. QueueInv'
  <2>1. cookie' <= caused'
    BY DEF WatchInv, QueueInv
  <2>2. \A a \in 1 .. Len(queue) : Waits(queue[a])'
    BY DEF WatchInv, QueueInv, Waits
  <2>3. arrivals' \subseteq 1 .. caused'
    BY DEF WatchInv, QueueInv
  <2>. QED
    BY <2>1, <2>2, <2>3 DEF WatchInv, QueueInv
<1>3. LinesInOrder'
  <2>1. \A a \in 1 .. Len(lines) : lines[a] <= caused => lines[a] <= caused'
    OBVIOUS
  <2>. QED
    BY <2>1 DEF WatchInv, LinesInOrder
<1>. QED
  BY <1>1, <1>2, <1>3 DEF WatchInv

\* What others do to the directory.
LEMMA NotifyStep ==
    ASSUME WatchInv, NEW kind \in {"create", "moved_from", "moved_to"},
           NEW c \in 0 .. caused + 1, NEW appears \in BOOLEAN,
           Watch!Notify(kind, c, appears), renaming' \subseteq 1 .. caused + 1,
           kind = "moved_from" => c = caused + 1 /\ ~appears,
           kind = "moved_to" /\ appears => c = caused + 1
    PROVE  WatchInv'
<1>1. /\ caused' = caused + 1 /\ caused < MaxEvents /\ renaming' \subseteq 1 .. caused'
      /\ UNCHANGED <<prog, pc, exit, stdin, cookie, lines, batched>>
  BY DEF Watch!Notify, Watch!reportVars
<1>2. CASE Len(queue) < QueueLimit
  <2>1. PICK size \in Sizes :
            queue' = Append(queue, [id |-> caused', kind |-> kind, cookie |-> c, size |-> size])
    BY <1>2 DEF Watch!Notify
  <2>2. caused' \in 1 .. MaxEvents /\ c \in 0 .. MaxEvents
    BY <1>1, WatchFacts
  <2>3. PICK event \in Watch!Event :
            event = [id |-> caused', kind |-> kind, cookie |-> c, size |-> size]
    <3>1. [id |-> caused', kind |-> kind, cookie |-> c, size |-> size] \in Watch!Event
      BY <2>2 DEF Watch!Event
    <3>. QED
      BY <3>1, Zenon
  <2>4. event.id = caused' /\ event.kind = kind /\ event.cookie = c
    BY <2>3
  <2>5. arrivals' = IF appears THEN arrivals \cup {caused'} ELSE arrivals
    BY <1>2 DEF Watch!Notify
  <2>6. arrivals \subseteq 1 .. caused /\ cookie <= caused
    BY DEF WatchInv, QueueInv
  <2>7. Waits(event)'
    BY <1>1, <2>2, <2>4, <2>5, <2>6, WatchFacts DEF Waits
  <2>. QED
    BY <1>1, <1>2, <2>1, <2>3, <2>4, <2>5, <2>7, EventQueued
<1>3. CASE ~(Len(queue) < QueueLimit)
  <2>1. /\ UNCHANGED arrivals
        /\ queue' = IF Watch!Contains(queue, Watch!Overflow) THEN queue
                    ELSE Append(queue, Watch!Overflow)
    BY <1>3 DEF Watch!Notify
  <2>2. CASE Watch!Contains(queue, Watch!Overflow)
    BY <1>1, <2>1, <2>2, EventDropped
  <2>3. CASE ~Watch!Contains(queue, Watch!Overflow)
    <3>1. Len(queue) <= QueueLimit
      <4>1. Len(queue) > QueueLimit => Watch!Contains(queue, Watch!Overflow)
        BY DEF WatchInv, QueueInv, Watch!Contains
      <4>. QED
        BY <2>3, <4>1, WatchFacts
    <3>2. Watch!Overflow \in Watch!Event /\ Watch!Overflow.id = 0
      BY WatchFacts DEF Watch!Overflow, Watch!Event
    <3>3. Waits(Watch!Overflow)'
      <4>1. caused' \in Nat /\ 0 \notin arrivals
        BY <1>1, WatchFacts DEF WatchInv, QueueInv
      <4>. QED
        BY <2>1, <4>1 DEF Waits, Watch!Overflow
    <3>. QED
      BY <1>1, <2>1, <2>3, <3>1, <3>2, <3>3, EventQueued
  <2>. QED
    BY <2>2, <2>3
<1>. QED
  BY <1>2, <1>3

LEMMA OthersChange ==
    ASSUME WatchInv, Watch!FileAppears \/ Watch!FileLeaves \/ Watch!FileRenamed
    PROVE  WatchInv'
<1>1. /\ renaming \subseteq 1 .. caused /\ caused \in Nat
      /\ 0 \in 0 .. caused + 1 /\ caused + 1 \in 0 .. caused + 1
      /\ renaming \subseteq 1 .. caused + 1 /\ caused + 1 \in 1 .. caused + 1
      /\ \A c \in renaming : c \in 0 .. caused + 1
  <2>1. renaming \subseteq 1 .. caused
    BY DEF WatchInv, QueueInv
  <2>. QED
    BY <2>1, WatchFacts
<1>2. CASE Watch!FileAppears
  BY <1>1, <1>2, NotifyStep DEF Watch!FileAppears
<1>3. CASE Watch!FileLeaves
  <2>1. renaming' \subseteq 1 .. caused + 1
    BY <1>1, <1>3 DEF Watch!FileLeaves
  <2>. QED
    BY <1>1, <1>3, <2>1, NotifyStep DEF Watch!FileLeaves
<1>4. CASE Watch!FileRenamed
  <2>1. PICK c \in renaming : Watch!Notify("moved_to", c, FALSE) /\ renaming' = renaming \ {c}
    BY <1>4 DEF Watch!FileRenamed
  <2>2. renaming' \subseteq 1 .. caused + 1 /\ c \in 0 .. caused + 1
    BY <1>1, <2>1
  <2>. QED
    BY <2>1, <2>2, NotifyStep
<1>. QED
  BY <1>2, <1>3, <1>4

\* The program's steps but for its read.
LEMMA WatcherMoves ==
    ASSUME WatchInv, pc' \in Watch!Calls \cup {"drain", "done"}, exit' \in {Watch!Running, 0, 1},
           stdin' \in {"quiet", "partial", "ended", "hup", "closed"}, cookie' \in {0, cookie},
           UNCHANGED <<prog, queue, caused, renaming, lines, arrivals, batched>>
    PROVE  WatchInv'
<1>. USE WatchFacts
<1>1. cookie' \in 0 .. MaxEvents
  OBVIOUS
<1>2. Watch!TypeOK'
  BY <1>1 DEF WatchInv, Watch!TypeOK
<1>3. QueueInv'
  BY DEF WatchInv, QueueInv, Waits
<1>4. LinesInOrder'
  BY DEF WatchInv, LinesInOrder
<1>. QED
  BY <1>2, <1>3, <1>4 DEF WatchInv

\* What is left of a sequence without its first n elements.
LEMMA AfterFirst ==
    ASSUME NEW S, NEW s \in Seq(S), NEW n \in 1 .. Len(s)
    PROVE  /\ SubSeq(s, n + 1, Len(s)) \in Seq(S)
           /\ Len(SubSeq(s, n + 1, Len(s))) = Len(s) - n
           /\ \A a \in 1 .. Len(s) - n : /\ SubSeq(s, n + 1, Len(s))[a] = s[a + n]
                                         /\ a + n \in 1 .. Len(s)
<1>1. SubSeq(s, n + 1, Len(s)) \in Seq(S)
  OBVIOUS
<1>2. Len(SubSeq(s, n + 1, Len(s))) = Len(s) - n
  OBVIOUS
<1>3. \A a \in 1 .. Len(s) - n : SubSeq(s, n + 1, Len(s))[a] = s[a + n] /\ a + n \in 1 .. Len(s)
  OBVIOUS
<1>. QED
  BY <1>1, <1>2, <1>3, Zenon

\* The first event that waits is handled, and all that the read returned go.
LEMMA ReadsEvents ==
    ASSUME WatchInv, Watch!Read
    PROVE  WatchInv'
<1>. USE WatchFacts
<1>1. PICK n \in 1 .. Len(queue) :
          /\ \E end \in Watch!Ends(n) : Watch!Handle(Head(queue), end[n])
          /\ queue' = SubSeq(queue, n + 1, Len(queue))
          /\ batched' = (batched \/ n > 1)
  BY DEF Watch!Read
<1>2. PICK end \in Watch!Ends(n) : Watch!Handle(Head(queue), end[n])
  BY <1>1
<1> DEFINE event == queue[1]
<1>3. /\ Head(queue) = event /\ event \in Watch!Event /\ Waits(event)
      /\ event.id \in 0 .. MaxEvents /\ event.cookie \in 0 .. MaxEvents /\ event.size \in Nat
      /\ event.size >= 1
      /\ end[n] \in Nat
      /\ n = 1 => end[n] = event.size
  <2>1. 1 \in 1 .. Len(queue) /\ Head(queue) = event /\ event \in Watch!Event
    OBVIOUS
  <2>2. Waits(event)
    BY <2>1 DEF WatchInv, QueueInv
  <2>3. /\ event.id \in 0 .. MaxEvents /\ event.cookie \in 0 .. MaxEvents /\ event.size \in Nat
        /\ event.size >= 1
    BY <2>1 DEF Watch!Event
  <2>4. end[n] \in Nat
    BY DEF Watch!Ends
  <2>5. n = 1 => end[n] = event.size
    BY <2>3 DEF Watch!Ends
  <2>. QED
    BY <2>1, <2>2, <2>3, <2>4, <2>5
<1>. HIDE DEF event
<1>4. /\ UNCHANGED <<prog, pc, exit, stdin, caused, renaming, arrivals>>
      /\ cookie' \in {cookie, event.cookie}
      /\ event.kind # "moved_from" => cookie' = cookie
  BY <1>2, <1>3 DEF Watch!Read, Watch!Handle
<1>5. /\ queue' \in Seq(Watch!Event) /\ Len(queue') = Len(queue) - n
      /\ \A a \in 1 .. Len(queue') : queue'[a] = queue[a + n] /\ a + n \in 1 .. Len(queue)
  <2> DEFINE rest == SubSeq(queue, n + 1, Len(queue))
  <2>1. /\ rest \in Seq(Watch!Event) /\ Len(rest) = Len(queue) - n
        /\ \A a \in 1 .. Len(queue) - n : rest[a] = queue[a + n] /\ a + n \in 1 .. Len(queue)
    BY AfterFirst, Zenon
  <2>2. queue' = rest
    BY <1>1, Zenon
  <2>. HIDE DEF rest
  <2>. QED
    BY <2>1, <2>2, Zenon
<1>6. event.id # 0 => \A a \in 1 .. Len(queue') : queue'[a].id # 0 => event.id < queue'[a].id
  <2>1. \A b \in 1 .. Len(queue) :
           1 < b /\ event.id # 0 /\ queue[b].id # 0 => event.id < queue[b].id
    <3>1. 1 \in 1 .. Len(queue)
      OBVIOUS
    <3>. QED
      BY <3>1, Zenon DEF WatchInv, QueueInv, event
  <2>2. \A a \in 1 .. Len(queue') : 1 < a + n
    OBVIOUS
  <2>. QED
    BY <1>5, <2>1, <2>2, Zenon
<1>7. /\ lines' \in Seq(1 .. MaxEvents)
      /\ n = 1 /\ Watch!Printed(event) => event.id # 0 /\ lines' = Append(lines, event.id)
      /\ ~Watch!Printed(event) => lines' = lines
  <2>1. CASE Watch!Printed(event)
    <3>1. PICK times \in 1 .. end[n] :
              /\ (times - 1) * event.size < end[n]
              /\ lines' = lines \o [k \in 1 .. times |-> event.id]
      BY <1>2, <1>3, <2>1 DEF Watch!Handle
    <3>2. event.id \in 1 .. MaxEvents
      BY <1>3, <2>1 DEF Watch!Printed, Waits
    <3>3. lines' \in Seq(1 .. MaxEvents)
      BY <1>3, <3>1, <3>2
    <3>4. ASSUME n = 1
          PROVE  lines' = Append(lines, event.id)
      <4>1. (times - 1) * event.size < event.size
        BY <1>3, <3>1, <3>4
      <4>2. times \in Nat /\ times >= 1
        BY <1>3, <3>1
      <4>3. times = 1
        BY <1>3, <4>1, <4>2, SMT
      <4>. QED
        BY <3>1, <4>3
    <3>. QED
      BY <2>1, <3>2, <3>3, <3>4
  <2>2. CASE ~Watch!Printed(event)
    BY <1>2, <1>3, <2>2 DEF Watch!Handle
  <2>. QED
    BY <2>1, <2>2
<1>8. cookie' <= caused
  BY <1>3, <1>4 DEF WatchInv, QueueInv, Waits
<1>9. Watch!TypeOK'
  <2>1. batched' \in BOOLEAN
    BY <1>1, Zenon
  <2>2. cookie' \in 0 .. MaxEvents
    BY <1>3, <1>4
  <2>3. Len(queue') <= QueueLimit + 1
    BY <1>1, <1>5
  <2>. QED
    BY <1>4, <1>5, <1>7, <2>1, <2>2, <2>3 DEF WatchInv, Watch!TypeOK
<1>10. QueueInv'
  <2>1. Len(queue') <= QueueLimit
    BY <1>1, <1>5
  <2>2. ASSUME NEW a \in 1 .. Len(queue')
        PROVE  Waits(queue[a])'
    <3>1. Waits(queue[a + n]) /\ queue'[a] = queue[a + n] /\ queue'[a].id \in Nat
      BY <1>5, <2>2 DEF WatchInv, QueueInv
    <3>2. queue'[a].id # 0 => cookie' < queue'[a].id
      BY <1>3, <1>4, <1>6, <2>2, <3>1 DEF Waits
    <3>. QED
      BY <1>4, <3>1, <3>2 DEF Waits
  <2>3. ASSUME NEW a \in 1 .. Len(queue'), NEW b \in 1 .. Len(queue'),
               a < b, queue'[a].id # 0, queue'[b].id # 0
        PROVE  queue'[a].id < queue'[b].id
    <3>1. a + n < b + n
      BY <1>5, <2>3
    <3>. QED
      BY <1>5, <2>3, <3>1 DEF WatchInv, QueueInv
  <2>4. arrivals' \subseteq 1 .. caused' /\ renaming' \subseteq 1 .. caused'
    BY <1>4, Zenon DEF WatchInv, QueueInv
  <2>5. Len(queue') \in Nat /\ ~(Len(queue') > QueueLimit) /\ cookie' <= caused'
    BY <1>4, <1>5, <1>8, <2>1
  <2>. QED
    BY <2>2, <2>3, <2>4, <2>5, Zenon DEF QueueInv
<1>11. LinesInOrder'
  <2>. SUFFICES ASSUME ~batched' PROVE LinesInOrder'
    BY DEF LinesInOrder
  <2>0. ~batched /\ ~(n > 1)
    BY <1>1, Zenon
  <2>1. n = 1 /\ ~batched
    BY <2>0
  <2>2. /\ \A a \in 1 .. Len(lines) :
              /\ lines[a] <= caused
              /\ \A b \in 1 .. Len(queue) : queue[b].id # 0 => lines[a] < queue[b].id
        /\ \A a, b \in 1 .. Len(lines) : a < b => lines[a] < lines[b]
        /\ \A id \in arrivals : \/ \E a \in 1 .. Len(lines) : lines[a] = id
                                \/ \E b \in 1 .. Len(queue) : queue[b].id = id
    BY <2>1 DEF WatchInv, LinesInOrder
  <2>3. /\ \A a \in 1 .. Len(lines) : \A b \in 1 .. Len(queue') :
              queue'[b].id # 0 => lines[a] < queue'[b].id
        /\ \A b \in 1 .. Len(queue) :
              queue[b] = event \/ (b - 1 \in 1 .. Len(queue') /\ queue'[b - 1] = queue[b])
    <3>1. \A b \in 1 .. Len(queue') : b + 1 \in 1 .. Len(queue) /\ queue'[b] = queue[b + 1]
      BY <1>5, <2>1
    <3>2. ASSUME NEW b \in 1 .. Len(queue), b # 1
          PROVE  b - 1 \in 1 .. Len(queue') /\ queue'[b - 1] = queue[b]
      <4>1. b - 1 \in 1 .. Len(queue') /\ b - 1 + 1 = b
        BY <1>5, <2>1, <3>2
      <4>. QED
        BY <3>1, <4>1
    <3>3. queue[1] = event
      BY DEF event
    <3>4. \A a \in 1 .. Len(lines) : \A b \in 1 .. Len(queue') :
             queue'[b].id # 0 => lines[a] < queue'[b].id
      BY <2>2, <3>1
    <3>. QED
      BY <3>2, <3>3, <3>4, Zenon
  <2>4. CASE ~Watch!Printed(event)
    <3>1. event.id \notin arrivals
      BY <1>3, <2>4 DEF Waits, Watch!Printed, Watch!Event, WatchInv, QueueInv
    <3>2. \A id \in arrivals : \/ \E a \in 1 .. Len(lines) : lines[a] = id
                               \/ \E b \in 1 .. Len(queue') : queue'[b].id = id
      BY <2>2, <2>3, <3>1
    <3>. QED
      BY <1>4, <1>7, <2>2, <2>3, <2>4, <3>2 DEF LinesInOrder
  <2>5. CASE Watch!Printed(event)
    <3>1. /\ event.id # 0 /\ Len(lines') = Len(lines) + 1
          /\ lines'[Len(lines) + 1] = event.id
          /\ \A a \in 1 .. Len(lines) : lines'[a] = lines[a]
          /\ \A a \in 1 .. Len(lines') : a \in 1 .. Len(lines) \/ a = Len(lines) + 1
      <4>1. event.id # 0 /\ lines' = Append(lines, event.id) /\ event.id \in 1 .. MaxEvents
        BY <1>3, <1>7, <2>1, <2>5
      <4>2. /\ Len(lines') = Len(lines) + 1
            /\ lines'[Len(lines) + 1] = event.id
            /\ \A a \in 1 .. Len(lines) : lines'[a] = lines[a]
        BY <4>1, AppendProperties
      <4>. QED
        BY <4>1, <4>2
    <3>2. \A a \in 1 .. Len(lines) : lines[a] < event.id
      <4>1. 1 \in 1 .. Len(queue) /\ queue[1] = event
        BY <1>1 DEF event
      <4>. QED
        BY <2>2, <3>1, <4>1
    <3>3. event.id <= caused
      BY <1>3 DEF Waits
    <3>4. \A a \in 1 .. Len(lines') :
             /\ lines'[a] <= caused
             /\ \A b \in 1 .. Len(queue') : queue'[b].id # 0 => lines'[a] < queue'[b].id
      BY <1>6, <2>2, <2>3, <3>1, <3>3
    <3>5. ASSUME NEW a \in 1 .. Len(lines'), NEW b \in 1 .. Len(lines'), a < b
          PROVE  lines'[a] < lines'[b]
      <4>1. a \in 1 .. Len(lines) /\ lines'[a] = lines[a]
        <5>1. a \in Int /\ b \in Int /\ b <= Len(lines) + 1 /\ a <= Len(lines) /\ 1 <= a
          BY <3>1, <3>5
        <5>. QED
          BY <3>1, <5>1
      <4>2. CASE b \in 1 .. Len(lines)
        BY <2>2, <3>1, <3>5, <4>1, <4>2
      <4>3. CASE b = Len(lines) + 1
        BY <3>1, <3>2, <4>1, <4>3
      <4>. QED
        BY <3>1, <4>2, <4>3
    <3>6. ASSUME NEW id \in arrivals
          PROVE  \/ \E a \in 1 .. Len(lines') : lines'[a] = id
                 \/ \E b \in 1 .. Len(queue') : queue'[b].id = id
      <4>1. CASE \E a \in 1 .. Len(lines) : lines[a] = id
        BY <3>1, <4>1
      <4>2. CASE id = event.id
        <5>1. Len(lines) + 1 \in 1 .. Len(lines')
          BY <3>1
        <5>. QED
          BY <3>1, <4>2, <5>1
      <4>3. CASE id # event.id /\ \E b \in 1 .. Len(queue) : queue[b].id = id
        BY <2>3, <4>3
      <4>. QED
        BY <2>2, <4>1, <4>2, <4>3
    <3>. QED
      BY <1>4, <3>4, <3>5, <3>6 DEF LinesInOrder
  <2>. QED
    BY <2>4, <2>5
<1>. QED
  BY <1>9, <1>10, <1>11 DEF WatchInv

LEMMA WatchStep ==
    ASSUME WatchInv, Watch!Next
    PROVE  WatchInv'
<1>1. /\ pc \in Watch!Calls \cup {"drain", "done"} /\ exit \in {Watch!Running, 0, 1}
      /\ stdin \in {"quiet", "partial", "ended", "hup", "closed"}
  BY DEF WatchInv, Watch!TypeOK
<1>. USE DEF Watch!queueVars, Watch!reportVars, Watch!Calls
<1>2. CASE Watch!Setup
  BY <1>1, <1>2, WatcherMoves DEF Watch!Setup
<1>3. CASE Watch!Poll
  BY <1>1, <1>3, WatcherMoves DEF Watch!Poll
<1>4. CASE Watch!Read
  BY <1>4, ReadsEvents
<1>5. CASE Watch!NoMoreEvents
  BY <1>1, <1>5, WatcherMoves DEF Watch!NoMoreEvents
<1>6. CASE Watch!Drain \/ Watch!CallFails
  BY <1>1, <1>6, WatcherMoves DEF Watch!Drain, Watch!CallFails, Watch!End
<1>7. CASE Watch!UserTypes
  BY <1>1, <1>7, WatcherMoves DEF Watch!UserTypes
<1>8. CASE Watch!FileAppears \/ Watch!FileLeaves \/ Watch!FileRenamed
  BY <1>8, OthersChange
<1>. QED
  BY <1>2, <1>3, <1>4, <1>5, <1>6, <1>7, <1>8 DEF Watch!Next, Watch!Step

LEMMA WatchInvariant == Spec => [](Watching => WatchInv)
<1>1. Init => (Watching => WatchInv)
  BY WatchStart DEF Init
<1>2. (Watching => WatchInv) /\ [Next]_vars => (Watching => WatchInv)'
  <2>. SUFFICES ASSUME Watching => WatchInv, [Next]_vars, Watching' PROVE WatchInv'
    OBVIOUS
  <2>1. WatchInv /\ (Watch!Next \/ UNCHANGED vars)
    BY OwnSteps
  <2>2. CASE Watch!Next
    BY <2>1, <2>2, WatchStep
  <2>3. CASE UNCHANGED vars
    BY <2>1, <2>3
    DEF vars, watchVars, WatchInv, Watch!TypeOK, QueueInv, Waits, LinesInOrder
  <2>. QED
    BY <2>1, <2>2, <2>3
<1>. QED
  BY <1>1, <1>2, PTL DEF Spec

\* 10_inotify.c prints each file that appears once and in order, as long as no
\* read returns more than one event: whatever the sizes of the buffer and of the
\* kernel's queue, and however files come, go and are renamed.
THEOREM NothingIsMissed == Spec => []NothingMissed
<1>1. WatchInv => Watch!NothingMissed
  <2>. SUFFICES ASSUME WatchInv, ~batched PROVE Watch!EachArrivalOnce
    BY DEF Watch!NothingMissed
  <2>. USE WatchFacts
  <2> DEFINE waiting == [k \in DOMAIN queue |-> queue[k].id]
             told == lines \o waiting
  <2>1. /\ \A a \in 1 .. Len(lines) :
             \A b \in 1 .. Len(queue) : queue[b].id # 0 => lines[a] < queue[b].id
        /\ \A a, b \in 1 .. Len(lines) : a < b => lines[a] < lines[b]
        /\ \A id \in arrivals : \/ \E a \in 1 .. Len(lines) : lines[a] = id
                                \/ \E b \in 1 .. Len(queue) : queue[b].id = id
        /\ \A a, b \in 1 .. Len(queue) :
             a < b /\ queue[a].id # 0 /\ queue[b].id # 0 => queue[a].id < queue[b].id
    BY DEF WatchInv, LinesInOrder, QueueInv
  <2>2. waiting \in Seq(Nat) /\ Len(waiting) = Len(queue)
        /\ \A b \in 1 .. Len(queue) : waiting[b] = queue[b].id
    OBVIOUS
  <2>3. 0 \notin arrivals
    BY DEF WatchInv, QueueInv
  <2>. HIDE DEF waiting
  <2>4. /\ DOMAIN told = 1 .. Len(lines) + Len(queue)
        /\ \A k \in 1 .. Len(lines) : told[k] = lines[k] /\ k \in DOMAIN told
        /\ \A b \in 1 .. Len(queue) : /\ Len(lines) + b \in DOMAIN told
                                      /\ told[Len(lines) + b] = queue[b].id
        /\ \A k \in DOMAIN told : \/ k \in 1 .. Len(lines)
                                  \/ \E b \in 1 .. Len(queue) : k = Len(lines) + b
    <3>1. DOMAIN told = 1 .. Len(lines) + Len(queue)
      <4>1. lines \in Seq(Int) /\ waiting \in Seq(Int)
        BY <2>2
      <4>2. told \in Seq(Int) /\ Len(told) = Len(lines) + Len(waiting)
        BY <4>1, ConcatProperties, Zenon
      <4>. HIDE DEF told
      <4>. QED
        BY <2>2, <4>2
    <3>2. \A k \in 1 .. Len(lines) : told[k] = lines[k] /\ k \in DOMAIN told
      BY <2>2
    <3>3. \A b \in 1 .. Len(queue) : /\ Len(lines) + b \in DOMAIN told
                                     /\ told[Len(lines) + b] = queue[b].id
      BY <2>2
    <3>4. ASSUME NEW k \in 1 .. Len(lines) + Len(queue), k \notin 1 .. Len(lines)
          PROVE  \E b \in 1 .. Len(queue) : k = Len(lines) + b
      <4>1. k - Len(lines) \in 1 .. Len(queue) /\ k = Len(lines) + (k - Len(lines))
        BY <3>4
      <4>. QED
        BY <4>1
    <3>. HIDE DEF told
    <3>. QED
      BY <3>1, <3>2, <3>3, <3>4
  <2>. HIDE DEF told
  <2>5. \A id \in arrivals : \E k \in DOMAIN told : told[k] = id
    BY <2>1, <2>4
  <2>6. ASSUME NEW j \in DOMAIN told, NEW k \in DOMAIN told, j < k,
               told[j] \in arrivals, told[k] \in arrivals
        PROVE  told[j] < told[k]
    <3>1. CASE k \in 1 .. Len(lines)
      BY <2>1, <2>4, <2>6, <3>1
    <3>2. CASE \E b \in 1 .. Len(queue) : k = Len(lines) + b
      <4>1. PICK b \in 1 .. Len(queue) : k = Len(lines) + b
        BY <3>2
      <4>2. told[k] = queue[b].id /\ queue[b].id # 0
        BY <2>3, <2>4, <2>6, <4>1
      <4>3. CASE j \in 1 .. Len(lines)
        BY <2>1, <2>4, <4>2, <4>3
      <4>4. CASE \E a \in 1 .. Len(queue) : j = Len(lines) + a
        <5>1. PICK a \in 1 .. Len(queue) : j = Len(lines) + a
          BY <4>4
        <5>2. told[j] = queue[a].id /\ queue[a].id # 0 /\ a < b
          BY <2>3, <2>4, <2>6, <4>1, <5>1
        <5>. QED
          BY <2>1, <4>2, <5>2
      <4>. QED
        BY <2>4, <2>6, <4>3, <4>4
    <3>. QED
      BY <2>4, <2>6, <3>1, <3>2
  <2>7. \A j, k \in DOMAIN told :
           j < k /\ {told[j], told[k]} \subseteq arrivals => told[j] < told[k]
    BY <2>6
  <2>. QED
    BY <2>5, <2>7 DEF Watch!EachArrivalOnce, told, waiting
<1>2. Spec => [](Watching => WatchInv)
  BY WatchInvariant
<1>. QED
  BY <1>1, <1>2, PTL DEF NothingMissed
=============================================================================
