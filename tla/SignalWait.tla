------------------------------ MODULE SignalWait ------------------------------
(***************************************************************************)
(* 15_1.c: installs one handler for every signal, none of which it blocks, *)
(* and waits with sigwaitinfo for four of them.  A signal of these that    *)
(* comes while the program sleeps there is returned; any other, and one    *)
(* that comes between two steps of the loop, reaches the handler.  One     *)
(* action is one such step, one run of the handler, or one signal sent.    *)
(***************************************************************************)
EXTENDS ExitStatus, Integers, Sequences, FiniteSets

CONSTANTS
    MaskSignals,    \* those of the mask
    OtherSignals,   \* those that only have a handler
    MaxSent         \* bound: the signals sent; each by a sender of its own

SignalConstants ==
    /\ MaskSignals \cup OtherSignals \subseteq Nat \ {0}
    /\ MaskSignals \cap OtherSignals = {}
    /\ MaxSent \in Nat

VARIABLES
    prog, pc, exit,
    pending,        \* the signals that wait to be delivered
    sent,           \* history: the signals sent so far
    g_last_signal, signum,
    si_pid,         \* info.si_pid, 0 as long as nothing was written there
    printed_lines,  \* the lines printed, with what is to be known of them
    handled,        \* history: the handler ran since g_last_signal was stored
    arrived         \* history: the signals that were delivered

loopVars == <<g_last_signal, signum, si_pid, printed_lines>>
vars == <<prog, pc, exit, pending, sent, loopVars, handled, arrived>>

Signals == MaskSignals \cup OtherSignals

Init ==
    /\ prog = "15_1"
    /\ pc = "sigaction" /\ exit = Running
    /\ pending = {} /\ sent = {}
    /\ g_last_signal = 0 /\ signum = 0 /\ si_pid = 0
    /\ printed_lines = << >>
    /\ handled = FALSE /\ arrived = 0

End(status) == pc' = "done" /\ exit' = status

-----------------------------------------------------------------------------
\* A signal that is already pending is not queued again.
Send ==
    /\ pc # "done" /\ Cardinality(sent) < MaxSent
    /\ \E s \in Signals :
           LET signal == [sig |-> s, pid |-> Cardinality(sent) + 1]
           IN /\ sent' = sent \cup {signal}
              /\ pending' = IF \E other \in pending : other.sig = s
                              THEN pending ELSE pending \cup {signal}
    /\ UNCHANGED <<prog, pc, exit, loopVars, handled, arrived>>

\* Before the handlers are there a signal ends the process.
DefaultAction ==
    /\ pc = "sigaction" /\ pending # {}
    /\ End(Killed)
    /\ UNCHANGED <<prog, pending, sent, loopVars, handled, arrived>>

Kill ==
    /\ pc # "done"
    /\ End(Killed)
    /\ UNCHANGED <<prog, pending, sent, loopVars, handled, arrived>>

\* The loop that installs the handlers; for SIGKILL, SIGSTOP and beyond the
\* last signal it fails, which is printed only.
Install ==
    /\ pc = "sigaction" /\ pending = {}
    /\ pc' = "sigwaitinfo"
    /\ UNCHANGED <<prog, exit, pending, sent, loopVars, handled, arrived>>

\* sig_handler as a handler, between two steps of the loop.  Before the call
\* of sigwaitinfo it takes a signal of the mask, too, which no line tells then;
\* while the program sleeps in it, see Interrupted.
Handle ==
    /\ pc \in {"sigwaitinfo", "store", "printf"}
    /\ \E signal \in pending :
           /\ pending' = pending \ {signal}
           /\ g_last_signal' = signal.sig
    /\ handled' = TRUE /\ arrived' = arrived + 1
    /\ UNCHANGED <<prog, pc, exit, sent, signum, si_pid, printed_lines>>

\* sigwaitinfo returns a signal of the mask.
Take ==
    /\ pc = "sigwaitinfo"
    /\ \E signal \in pending :
           /\ signal.sig \in MaskSignals
           /\ pending' = pending \ {signal}
           /\ signum' = signal.sig /\ si_pid' = signal.pid
    /\ pc' = "store"
    /\ arrived' = arrived + 1
    /\ UNCHANGED <<prog, exit, sent, g_last_signal, printed_lines, handled>>

\* Mutant: the mask is polled without waiting.
Poll ==
    /\ pc = "sigwaitinfo" /\ pending = {}
    /\ signum' = -1
    /\ pc' = "store"
    /\ UNCHANGED <<prog, exit, pending, sent, g_last_signal, si_pid, printed_lines, handled, arrived>>

\* EINTR: another signal ran the handler; info is as it was.
Interrupted ==
    /\ pc = "sigwaitinfo"
    /\ \A signal \in pending : signal.sig \in OtherSignals
    /\ \E signal \in pending :
           /\ pending' = pending \ {signal}
           /\ g_last_signal' = signal.sig
    /\ signum' = -1
    /\ pc' = "store"
    /\ arrived' = arrived + 1
    /\ UNCHANGED <<prog, exit, sent, si_pid, printed_lines, handled>>

\* Mutant: the call of sig_handler in the loop is forgotten.
StoreNothing ==
    /\ pc = "store"
    /\ pc' = "printf"
    /\ handled' = FALSE
    /\ UNCHANGED <<prog, exit, pending, sent, loopVars, arrived>>

\* sig_handler as a function.
Store ==
    /\ pc = "store"
    /\ g_last_signal' = signum
    /\ pc' = "printf"
    /\ handled' = FALSE
    /\ UNCHANGED <<prog, exit, pending, sent, signum, si_pid, printed_lines, arrived>>

Printf ==
    /\ pc = "printf"
    /\ printed_lines' = Append(printed_lines, [pid |-> si_pid, sig |-> g_last_signal, mixed |-> handled])
    /\ pc' = "sigwaitinfo"
    /\ UNCHANGED <<prog, exit, pending, sent, g_last_signal, signum, si_pid, handled, arrived>>

Step == Install \/ Handle \/ Take \/ Interrupted \/ Store \/ Printf

Next == Step \/ Send \/ DefaultAction \/ Kill

\* The process is scheduled, and signals are delivered.
Spec == Init /\ [][Next]_vars /\ WF_vars(Step)
-----------------------------------------------------------------------------
Signal == [sig : Signals, pid : 1 .. MaxSent]

\* The type invariant of the program and the signals sent to it.
TypeOK ==
    /\ prog = "15_1" /\ pc \in {"sigaction", "sigwaitinfo", "store", "printf", "done"}
    /\ exit \in {Running, Killed}
    /\ {pending, sent} \subseteq SUBSET Signal
    /\ {g_last_signal, signum} \subseteq Signals \cup {-1, 0}
    /\ si_pid \in 0 .. MaxSent
    /\ printed_lines \in Seq([pid : 0 .. MaxSent, sig : Signals \cup {-1, 0}, mixed : BOOLEAN])
    /\ handled \in BOOLEAN /\ arrived \in 0 .. MaxSent

\* A line that names a signal names one that was sent and its sender, and no
\* other line does, unless the handler ran between the store and the printf or
\* sigwaitinfo returned -1.
PairTrue ==
    \A n \in DOMAIN printed_lines : ~printed_lines[n].mixed /\ printed_lines[n].sig # -1 =>
        /\ [sig |-> printed_lines[n].sig, pid |-> printed_lines[n].pid] \in sent
        /\ \A m \in 1 .. n - 1 :
               ~printed_lines[m].mixed /\ printed_lines[m].sig # -1 => printed_lines[m].pid # printed_lines[n].pid

\* No line is printed without a signal of its own.
EachLineHasSignal == Len(printed_lines) <= arrived
=============================================================================
