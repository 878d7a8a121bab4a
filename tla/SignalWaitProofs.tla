---------------------------- MODULE SignalWaitProofs ----------------------------
(***************************************************************************)
(* Proofs about SignalWait as a part of SmallPrograms, for any signals     *)
(* and any number of senders; and at the end, from the invariants of all   *)
(* six modules, that every program keeps its types.                        *)
(***************************************************************************)
EXTENDS DirectoryLoopProofs, ThreadsProofs

-----------------------------------------------------------------------------
(* The inductive invariant. *)

\* Each sender sends one signal; a signal that was delivered is not delivered
\* again.
Senders ==
    /\ IsFiniteSet(sent) /\ pending \subseteq sent
    /\ Cardinality(sent) <= MaxSent
    /\ \A s \in sent : s.pid <= Cardinality(sent)
    /\ \A s1, s2 \in sent : s1.pid = s2.pid => s1 = s2
    /\ arrived + Cardinality(pending) <= Cardinality(sent)

\* A line that claims to be about a signal.
Claims(line) == ~line.mixed /\ line.sig # -1

\* Each claim is true, and about a signal that is no longer pending.
Told(n) == [sig |-> printed_lines[n].sig, pid |-> printed_lines[n].pid] \in sent \ pending

Truths ==
    \A n \in 1 .. Len(printed_lines) : Claims(printed_lines[n]) =>
        /\ Told(n)
        /\ \A m \in 1 .. n - 1 :
               Claims(printed_lines[m]) => printed_lines[m].pid # printed_lines[n].pid

\* What sigwaitinfo returned is not told yet.
Returned ==
    pc \in {"store", "printf"} /\ signum # -1 =>
        /\ [sig |-> signum, pid |-> si_pid] \in sent \ pending
        /\ \A m \in 1 .. Len(printed_lines) :
               Claims(printed_lines[m]) => printed_lines[m].pid # si_pid

\* The handler may replace what Store stored, which handled tells.
StoredSignal == pc = "printf" /\ ~handled => g_last_signal = signum

LinesCounted ==
    Len(printed_lines) + (IF pc \in {"store", "printf"} THEN 1 ELSE 0) <= arrived

SignalInv ==
    Signals!TypeOK /\ Senders /\ Truths /\ Returned /\ StoredSignal /\ LinesCounted

-----------------------------------------------------------------------------
(* Facts that the steps share. *)

LEMMA SignalFacts ==
    /\ MaxSent \in Nat /\ Signals!Signals \subseteq Nat \ {0}
    /\ -1 \notin Signals!Signals /\ 0 \notin Signals!Signals
    /\ \A S : Signals!Cardinality(S) = Cardinality(S)
BY SignalAssumption
DEF Signals!SignalConstants, Signals!Signals, Signals!Cardinality, Cardinality

LEMMA SignalTypes ==
    ASSUME SignalInv
    PROVE  /\ IsFiniteSet(sent) /\ IsFiniteSet(pending)
           /\ Cardinality(sent) \in Nat /\ Cardinality(pending) \in Nat
           /\ pending \subseteq sent /\ sent \subseteq Signals!Signal
           /\ arrived \in Nat /\ si_pid \in 0 .. MaxSent
           /\ {g_last_signal, signum} \subseteq Signals!Signals \cup {-1, 0}
           /\ printed_lines \in Seq([pid : 0 .. MaxSent, sig : Signals!Signals \cup {-1, 0},
                                     mixed : BOOLEAN])
           /\ Len(printed_lines) \in Nat
           /\ \A s \in sent : s.pid \in Nat /\ s.sig \in Signals!Signals
                              /\ s = [sig |-> s.sig, pid |-> s.pid]
<1>1. /\ Signals!TypeOK /\ IsFiniteSet(sent) /\ pending \subseteq sent
      /\ sent \subseteq Signals!Signal
  BY DEF SignalInv, Senders, Signals!TypeOK
<1>2. /\ IsFiniteSet(pending) /\ Cardinality(sent) \in Nat /\ Cardinality(pending) \in Nat
  BY <1>1, FS_Subset, FS_CardinalityType
<1>. QED
  BY <1>1, <1>2, SignalFacts DEF Signals!TypeOK, Signals!Signal

\* A signal that is delivered leaves the pending ones.
LEMMA Delivered ==
    ASSUME SignalInv, NEW signal \in pending,
           sent' = sent, pending' = pending \ {signal}, arrived' = arrived + 1
    PROVE  /\ Senders' /\ arrived' \in 0 .. MaxSent
           /\ {pending, sent}' \subseteq SUBSET Signals!Signal
<1>1. PICK k \in Nat, p \in Nat : k = Cardinality(sent) /\ p = Cardinality(pending)
  BY SignalTypes
<1>2. /\ arrived + p <= k /\ k <= MaxSent /\ arrived \in Nat /\ MaxSent \in Nat
      /\ IsFiniteSet(pending)
  BY <1>1, SignalTypes, SignalFacts DEF SignalInv, Senders
<1>3. Cardinality(pending') = p - 1
  BY <1>1, <1>2, FS_RemoveElement
<1>4. arrived' + Cardinality(pending') <= k /\ arrived' \in 0 .. MaxSent
  <2>1. p # 0
    BY <1>1, <1>2, FS_EmptySet
  <2>. QED
    BY <1>1, <1>2, <1>3, <2>1
<1>. QED
  BY <1>1, <1>4, SignalTypes DEF SignalInv, Senders

\* What was told stays true while no line is printed.
LEMMA TruthsStay ==
    ASSUME SignalInv, printed_lines' = printed_lines,
           sent \subseteq sent', pending' \cap sent \subseteq pending
    PROVE  Truths'
BY DEF SignalInv, Truths, Told, Claims

LEMMA SignalStart ==
    ASSUME Signals!Init PROVE SignalInv
<1>. USE DEF Signals!Init, Signals!Running, Running
<1>1. Signals!TypeOK
  <2>1. printed_lines \in Seq([pid : 0 .. MaxSent, sig : Signals!Signals \cup {-1, 0},
                               mixed : BOOLEAN])
    OBVIOUS
  <2>2. si_pid \in 0 .. MaxSent /\ arrived \in 0 .. MaxSent
    BY SignalFacts
  <2>. QED
    BY <2>1, <2>2 DEF Signals!TypeOK
<1>2. Senders
  BY FS_EmptySet, SignalFacts DEF Senders
<1>3. Truths /\ Returned /\ StoredSignal /\ LinesCounted
  BY DEF Truths, Returned, StoredSignal, LinesCounted
<1>. QED
  BY <1>1, <1>2, <1>3 DEF SignalInv

-----------------------------------------------------------------------------
(* The steps. *)

\* A new signal has a sender of its own.
LEMMA SendStep ==
    ASSUME SignalInv, Signals!Send
    PROVE  SignalInv'
<1>1. PICK k \in Nat, p \in Nat : k = Cardinality(sent) /\ p = Cardinality(pending)
  BY SignalTypes
<1>2. /\ arrived + p <= k /\ arrived \in Nat /\ MaxSent \in Nat
      /\ IsFiniteSet(pending) /\ IsFiniteSet(sent) /\ pending \subseteq sent
      /\ \A s \in sent : s.pid \in Nat /\ s.pid <= k
      /\ \A s1, s2 \in sent : s1.pid = s2.pid => s1 = s2
  BY <1>1, SignalTypes, SignalFacts DEF SignalInv, Senders
<1>3. PICK sig \in Signals!Signals :
          LET signal == [sig |-> sig, pid |-> k + 1]
          IN /\ sent' = sent \cup {signal}
             /\ pending' = pending \/ pending' = pending \cup {signal}
  BY <1>1, SignalFacts DEF Signals!Send
<1>4. PICK signal \in Signals!Signal :
          /\ signal.pid = k + 1 /\ sent' = sent \cup {signal}
          /\ pending' = pending \/ pending' = pending \cup {signal}
  <2>1. k < MaxSent
    BY <1>1, SignalFacts DEF Signals!Send
  <2>2. k + 1 \in 1 .. MaxSent
    BY <1>2, <2>1
  <2>3. [sig |-> sig, pid |-> k + 1] \in Signals!Signal
    BY <2>2 DEF Signals!Signal
  <2>. QED
    BY <1>3, <2>3
<1>5. signal \notin sent /\ signal \notin pending
  BY <1>2, <1>4
<1>6. Cardinality(sent') = k + 1 /\ IsFiniteSet(sent') /\ k + 1 <= MaxSent
  <2>1. Cardinality(sent') = k + 1 /\ IsFiniteSet(sent')
    BY <1>1, <1>2, <1>4, <1>5, FS_AddElement
  <2>2. k < MaxSent
    BY <1>1, SignalFacts DEF Signals!Send
  <2>. QED
    BY <1>2, <2>1, <2>2
<1>7. Cardinality(pending') \in {p, p + 1}
  BY <1>1, <1>2, <1>4, <1>5, FS_AddElement
<1>8. /\ UNCHANGED <<prog, pc, exit, g_last_signal, signum, si_pid, printed_lines, handled,
                     arrived>>
      /\ Signals!TypeOK
  BY DEF Signals!Send, Signals!loopVars, SignalInv
<1>9. Signals!TypeOK'
  BY <1>4, <1>8 DEF Signals!TypeOK
<1>10. Senders'
  <2>1. arrived' + Cardinality(pending') <= Cardinality(sent')
    BY <1>2, <1>6, <1>7, <1>8
  <2>2. \A s \in sent' : s.pid <= k + 1
    BY <1>2, <1>4
  <2>3. \A s1, s2 \in sent' : s1.pid = s2.pid => s1 = s2
    <3>1. \A s \in sent : s.pid # signal.pid
      BY <1>2, <1>4
    <3>. QED
      BY <1>2, <1>4, <3>1
  <2>. QED
    BY <1>2, <1>4, <1>6, <2>1, <2>2, <2>3 DEF Senders
<1>11. Truths'
  BY <1>4, <1>5, <1>8, TruthsStay
<1>12. Returned'
  BY <1>4, <1>5, <1>8 DEF SignalInv, Returned, Claims
<1>13. StoredSignal' /\ LinesCounted'
  BY <1>8 DEF SignalInv, StoredSignal, LinesCounted
<1>. QED
  BY <1>9, <1>10, <1>11, <1>12, <1>13 DEF SignalInv

LEMMA LoopStep ==
    ASSUME SignalInv, Signals!Step
    PROVE  SignalInv'
<1>. USE DEF Signals!loopVars, Signals!Running, Running
<1>1. /\ Signals!TypeOK /\ Senders /\ Truths /\ Returned /\ StoredSignal /\ LinesCounted
      /\ arrived \in Nat /\ Len(printed_lines) \in Nat
  BY SignalTypes DEF SignalInv
<1>2. CASE Signals!Install
  BY <1>1, <1>2
  DEF Signals!Install, SignalInv, Signals!TypeOK, Senders, Truths, Told, Claims, Returned,
      StoredSignal, LinesCounted
<1>3. CASE Signals!Handle
  <2>1. PICK signal \in pending :
            /\ pending' = pending \ {signal} /\ g_last_signal' = signal.sig
            /\ handled' = TRUE /\ arrived' = arrived + 1
            /\ UNCHANGED <<prog, pc, exit, sent, signum, si_pid, printed_lines>>
    BY <1>3 DEF Signals!Handle
  <2>2. /\ Senders' /\ arrived' \in 0 .. MaxSent
        /\ {pending, sent}' \subseteq SUBSET Signals!Signal
    BY <2>1, Delivered
  <2>3. Signals!TypeOK'
    <3>1. g_last_signal' \in Signals!Signals
      BY <2>1, SignalTypes
    <3>. QED
      BY <1>1, <2>1, <2>2, <3>1 DEF Signals!TypeOK
  <2>4. Truths'
    BY <2>1, TruthsStay
  <2>5. Returned' /\ StoredSignal' /\ LinesCounted'
    BY <1>1, <2>1 DEF Returned, Claims, StoredSignal, LinesCounted
  <2>. QED
    BY <2>2, <2>3, <2>4, <2>5 DEF SignalInv
<1>4. CASE Signals!Take
  <2>1. PICK signal \in pending :
            /\ pending' = pending \ {signal} /\ signum' = signal.sig /\ si_pid' = signal.pid
            /\ pc = "sigwaitinfo" /\ pc' = "store" /\ arrived' = arrived + 1
            /\ UNCHANGED <<prog, exit, sent, g_last_signal, printed_lines, handled>>
    BY <1>4 DEF Signals!Take
  <2>2. /\ Senders' /\ arrived' \in 0 .. MaxSent
        /\ {pending, sent}' \subseteq SUBSET Signals!Signal
    BY <2>1, Delivered
  <2>3. Signals!TypeOK'
    <3>1. signum' \in Signals!Signals /\ si_pid' \in 0 .. MaxSent
      BY <2>1, SignalTypes, SignalFacts DEF Signals!Signal
    <3>. QED
      BY <1>1, <2>1, <2>2, <3>1 DEF Signals!TypeOK
  <2>4. Truths'
    BY <2>1, TruthsStay
  <2>5. Returned'
    <3>1. signal \in sent /\ signal = [sig |-> signum', pid |-> si_pid']
      BY <2>1, SignalTypes
    <3>2. ASSUME NEW m \in 1 .. Len(printed_lines), Claims(printed_lines[m])
          PROVE  printed_lines[m].pid # signal.pid
      <4>1. Told(m)
        BY <1>1, <3>2 DEF Truths
      <4>. QED
        BY <1>1, <2>1, <3>1, <4>1 DEF Told, Senders
    <3>. QED
      BY <2>1, <3>1, <3>2 DEF Returned, Claims
  <2>6. StoredSignal' /\ LinesCounted'
    BY <1>1, <2>1 DEF StoredSignal, LinesCounted
  <2>. QED
    BY <2>2, <2>3, <2>4, <2>5, <2>6 DEF SignalInv
<1>5. CASE Signals!Interrupted
  <2>1. PICK signal \in pending :
            /\ pending' = pending \ {signal} /\ g_last_signal' = signal.sig /\ signum' = -1
            /\ pc = "sigwaitinfo" /\ pc' = "store" /\ arrived' = arrived + 1
            /\ UNCHANGED <<prog, exit, sent, si_pid, printed_lines, handled>>
    BY <1>5 DEF Signals!Interrupted
  <2>2. /\ Senders' /\ arrived' \in 0 .. MaxSent
        /\ {pending, sent}' \subseteq SUBSET Signals!Signal
    BY <2>1, Delivered
  <2>3. Signals!TypeOK'
    <3>1. g_last_signal' \in Signals!Signals
      BY <2>1, SignalTypes
    <3>. QED
      BY <1>1, <2>1, <2>2, <3>1 DEF Signals!TypeOK
  <2>4. Truths'
    BY <2>1, TruthsStay
  <2>5. Returned' /\ StoredSignal' /\ LinesCounted'
    BY <1>1, <2>1 DEF Returned, StoredSignal, LinesCounted
  <2>. QED
    BY <2>2, <2>3, <2>4, <2>5 DEF SignalInv
<1>6. CASE Signals!Store
  <2>1. /\ g_last_signal' = signum /\ handled' = FALSE /\ pc = "store" /\ pc' = "printf"
        /\ UNCHANGED <<prog, exit, pending, sent, signum, si_pid, printed_lines, arrived>>
    BY <1>6 DEF Signals!Store
  <2>2. Signals!TypeOK' /\ Senders'
    BY <1>1, <2>1 DEF Signals!TypeOK, Senders
  <2>3. Truths' /\ Returned' /\ StoredSignal' /\ LinesCounted'
    BY <1>1, <2>1 DEF Truths, Told, Claims, Returned, StoredSignal, LinesCounted
  <2>. QED
    BY <2>2, <2>3 DEF SignalInv
<1>7. CASE Signals!Printf
  <2>1. PICK line \in [pid : 0 .. MaxSent, sig : Signals!Signals \cup {-1, 0},
                       mixed : BOOLEAN] :
            /\ line = [pid |-> si_pid, sig |-> g_last_signal, mixed |-> handled]
            /\ printed_lines' = Append(printed_lines, line)
            /\ pc = "printf" /\ pc' = "sigwaitinfo"
            /\ UNCHANGED <<prog, exit, pending, sent, g_last_signal, signum, si_pid, handled,
                           arrived>>
    BY <1>1, <1>7 DEF Signals!Printf, Signals!TypeOK
  <2>2. /\ printed_lines' \in Seq([pid : 0 .. MaxSent, sig : Signals!Signals \cup {-1, 0},
                                   mixed : BOOLEAN])
        /\ Len(printed_lines') = Len(printed_lines) + 1
        /\ printed_lines'[Len(printed_lines) + 1] = line
        /\ \A m \in 1 .. Len(printed_lines) : printed_lines'[m] = printed_lines[m]
    BY <2>1, SignalTypes
  <2>3. Signals!TypeOK' /\ Senders'
    BY <1>1, <2>1, <2>2 DEF Signals!TypeOK, Senders
  <2>4. Truths'
    <3>1. SUFFICES ASSUME NEW n \in 1 .. Len(printed_lines'), Claims(printed_lines'[n])
                   PROVE  /\ Told(n)'
                          /\ \A m \in 1 .. n - 1 :
                                 Claims(printed_lines'[m])
                                     => printed_lines'[m].pid # printed_lines'[n].pid
      BY DEF Truths, Claims
    <3>2. n \in 1 .. Len(printed_lines) \/ n = Len(printed_lines) + 1
      BY <1>1, <2>2
    <3>3. CASE n \in 1 .. Len(printed_lines)
      <4>1. printed_lines'[n] = printed_lines[n]
        BY <2>2, <3>3
      <4>2. \A m \in 1 .. n - 1 : printed_lines'[m] = printed_lines[m]
        BY <1>1, <2>2, <3>3
      <4>3. Told(n)
        BY <1>1, <3>1, <3>3, <4>1 DEF Truths
      <4>. QED
        BY <1>1, <2>1, <3>1, <3>3, <4>1, <4>2, <4>3 DEF Truths, Told
    <3>4. CASE n = Len(printed_lines) + 1
      <4>1. printed_lines'[n] = line /\ ~handled /\ g_last_signal = signum /\ signum # -1
        BY <1>1, <2>1, <2>2, <3>1, <3>4 DEF Claims, StoredSignal
      <4>2. /\ [sig |-> signum, pid |-> si_pid] \in sent \ pending
            /\ \A m \in 1 .. Len(printed_lines) :
                   Claims(printed_lines[m]) => printed_lines[m].pid # si_pid
        BY <1>1, <2>1, <4>1 DEF Returned
      <4>3. 1 .. n - 1 = 1 .. Len(printed_lines)
        BY <1>1, <3>4
      <4>. QED
        BY <2>1, <2>2, <4>1, <4>2, <4>3 DEF Told
    <3>. QED
      BY <3>2, <3>3, <3>4
  <2>5. Returned' /\ StoredSignal'
    BY <2>1 DEF Returned, StoredSignal
  <2>6. LinesCounted'
    BY <1>1, <2>1, <2>2 DEF LinesCounted
  <2>. QED
    BY <2>3, <2>4, <2>5, <2>6 DEF SignalInv
<1>. QED
  BY <1>2, <1>3, <1>4, <1>5, <1>6, <1>7 DEF Signals!Step

LEMMA EndStep ==
    ASSUME SignalInv, Signals!DefaultAction \/ Signals!Kill
    PROVE  SignalInv'
<1>1. /\ pc' = "done" /\ exit' = Signals!Killed
      /\ UNCHANGED <<prog, pending, sent, g_last_signal, signum, si_pid, printed_lines,
                     handled, arrived>>
  BY DEF Signals!DefaultAction, Signals!Kill, Signals!End, Signals!loopVars
<1>2. Signals!TypeOK' /\ Senders'
  BY <1>1 DEF SignalInv, Signals!TypeOK, Senders
<1>3. Truths' /\ Returned' /\ StoredSignal'
  BY <1>1 DEF SignalInv, Truths, Told, Claims, Returned, StoredSignal
<1>4. LinesCounted'
  BY <1>1, SignalTypes DEF SignalInv, LinesCounted
<1>. QED
  BY <1>2, <1>3, <1>4 DEF SignalInv

LEMMA SignalInvariant == Spec => [](Signalled => SignalInv)
<1>1. Init => (Signalled => SignalInv)
  BY SignalStart DEF Init
<1>2. (Signalled => SignalInv) /\ [Next]_vars => (Signalled => SignalInv)'
  <2>. SUFFICES ASSUME Signalled => SignalInv, [Next]_vars, Signalled' PROVE SignalInv'
    OBVIOUS
  <2>1. CASE Signals!Next
    BY <2>1, OwnSteps, SendStep, LoopStep, EndStep DEF Signals!Next
  <2>2. CASE UNCHANGED vars
    BY <2>2, OwnSteps
    DEF vars, signalVars, SignalInv, Signals!TypeOK, Senders, Truths, Told, Claims, Returned,
        StoredSignal, LinesCounted
  <2>. QED
    BY <2>1, <2>2, OwnSteps
<1>. QED
  BY <1>1, <1>2, PTL DEF Spec

\* A line of 15_1.c that names a signal names one that was sent, its sender,
\* and no signal that another such line names, unless the handler ran between
\* the store and the printf or sigwaitinfo failed.
THEOREM PairIsTrue == Spec => []PairTrue
<1>1. ASSUME Signalled => SignalInv PROVE PairTrue
  <2>1. SUFFICES ASSUME SignalInv PROVE Signals!PairTrue
    BY <1>1 DEF PairTrue
  <2>2. DOMAIN printed_lines = 1 .. Len(printed_lines) /\ Len(printed_lines) \in Nat
    BY <2>1, SignalTypes
  <2>3. ASSUME NEW n \in 1 .. Len(printed_lines)
        PROVE  \A m \in 1 .. n - 1 : m \in 1 .. Len(printed_lines)
    BY <2>2
  <2>. QED
    BY <2>1, <2>2, <2>3 DEF SignalInv, Truths, Told, Claims, Signals!PairTrue
<1>. QED
  BY <1>1, SignalInvariant, PTL

\* 15_1.c prints no more lines than signals were delivered to it, also when
\* sigwaitinfo fails.
THEOREM LinesHaveSignals == Spec => []EachLineHasSignal
<1>1. ASSUME Signalled => SignalInv PROVE EachLineHasSignal
  BY <1>1, SignalTypes
  DEF SignalInv, LinesCounted, EachLineHasSignal, Signals!EachLineHasSignal
<1>. QED
  BY <1>1, SignalInvariant, PTL

-----------------------------------------------------------------------------
(* The types are a part of the invariant of each module. *)

\* Each of the fourteen programs keeps the types of its variables, whatever runs
\* with it and whichever of its calls fail.
THEOREM TypesAreKept == Spec => []TypeOK
<1>1. Init => prog \in Programs
  BY DEF Init
<1>2. prog \in Programs /\ [Next]_vars => (prog \in Programs)'
  BY ProgramStays
<1>3. Spec => [](prog \in Programs)
  BY <1>1, <1>2, PTL DEF Spec
<1>4. /\ WatchInv => Watch!TypeOK
      /\ LoopInv => Loop!TypeOK
      /\ NodeInv => Copy!TypeOK
      /\ WaitInv => Wait!TypeOK
      /\ ThreadInv => Pool!TypeOK
      /\ SignalInv => Signals!TypeOK
  BY DEF WatchInv, LoopInv, NodeInv, WaitInv, ThreadInv, SignalInv
<1>5. /\ Spec => [](Watching => WatchInv)
      /\ Spec => [](Looping => LoopInv)
      /\ Spec => [](Copying => NodeInv)
      /\ Spec => [](Waiting => WaitInv)
      /\ Spec => [](Threading => ThreadInv)
      /\ Spec => [](Signalled => SignalInv)
  BY WatchInvariant, LoopInvariant, NodeInvariant, WaitInvariant, ThreadInvariant,
     SignalInvariant
<1>. QED
  BY <1>3, <1>4, <1>5, PTL DEF TypeOK
=============================================================================
