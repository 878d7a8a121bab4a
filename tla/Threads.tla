------------------------------- MODULE Threads -------------------------------
(***************************************************************************)
(* 19_4.c, whose threads add to a shared counter, and 19_test.c, whose     *)
(* threads print a character each.  main joins each thread before it       *)
(* creates the next.  One action is one load, store, character or call.    *)
(***************************************************************************)
EXTENDS ExitStatus, Sequences, SequencesExt, FiniteSets

CONSTANTS
    N_THREADS,  \* threads of 19_4.c; 19_test.c has two
    N,          \* times that each thread of 19_4.c goes through its loop
    Characters, \* how many characters the first and the second of 19_test.c print
    Faults      \* "pthread_create", which may fail, or none

ThreadConstants ==
    /\ {N_THREADS, N} \subseteq Nat \ {0}
    /\ Characters \in [1 .. 2 -> Nat \ {0}]

VARIABLES
    prog, pc, exit,
    created,    \* the threads that main has created
    thread,     \* what each does next: "none", "load", "store", "fputc", "done"
    i,          \* its local variable i
    loaded,     \* what it loaded from cnt
    cnt,        \* the shared counter
    out,        \* the characters on stderr, each the thread that printed it
    printed     \* the result that 19_4.c printed

threadVars == <<thread, i, loaded, cnt, out>>
vars == <<prog, pc, exit, created, threadVars, printed>>

ThreadPrograms == {"19_4", "19_test"}
Count == IF prog = "19_4" THEN N_THREADS ELSE 2
Thread == 1 .. N_THREADS + 2

Init ==
    /\ prog \in ThreadPrograms
    /\ pc = "create" /\ exit = Running
    /\ created = 0
    /\ thread = [t \in Thread |-> "none"]
    /\ i = [t \in Thread |-> 0] /\ loaded = [t \in Thread |-> 0]
    /\ cnt = 0 /\ out = << >> /\ printed = 0

End(status) == pc' = "done" /\ exit' = status

-----------------------------------------------------------------------------
(* The threads: thread_foo and char_print *)

\* The times that a thread goes through its loop.
Limit(t) == IF prog = "19_4" THEN N ELSE Characters[t]

FirstStep == IF prog = "19_4" THEN "load" ELSE "fputc"

\* cnt++ is a load and a store.
Load(t) ==
    /\ thread[t] = "load"
    /\ loaded' = [loaded EXCEPT ![t] = cnt]
    /\ thread' = [thread EXCEPT ![t] = "store"]
    /\ UNCHANGED <<i, cnt, out>>

\* Mutant: the condition of the loop is i <= N, or i <= p->cnt.
NextRoundOneMore(t) ==
    /\ i' = [i EXCEPT ![t] = @ + 1]
    /\ thread' = [thread EXCEPT ![t] = IF i'[t] > Limit(t) THEN "done" ELSE FirstStep]

\* The end of a round of the loop.
NextRound(t) ==
    /\ i' = [i EXCEPT ![t] = @ + 1]
    /\ thread' = [thread EXCEPT ![t] = IF i'[t] = Limit(t) THEN "done" ELSE FirstStep]

Store(t) ==
    /\ thread[t] = "store"
    /\ cnt' = loaded[t] + 1
    /\ NextRound(t)
    /\ UNCHANGED <<loaded, out>>

Fputc(t) ==
    /\ thread[t] = "fputc"
    /\ out' = Append(out, t)
    /\ NextRound(t)
    /\ UNCHANGED <<loaded, cnt>>

Run(t) ==
    /\ pc # "done"
    /\ Load(t) \/ Store(t) \/ Fputc(t)
    /\ UNCHANGED <<prog, pc, exit, created, printed>>

-----------------------------------------------------------------------------
(* main *)

Create ==
    /\ pc = "create"
    /\ created' = created + 1
    /\ thread' = [thread EXCEPT ![created'] = FirstStep]
    /\ pc' = "join"
    /\ UNCHANGED <<prog, exit, i, loaded, cnt, out, printed>>

\* Nobody looks at the result of pthread_create: pthread_join is given an
\* identifier that was not written, and returns an error or crashes.
CreateFails ==
    /\ pc = "create" /\ "pthread_create" \in Faults
    /\ created' = created + 1
    /\ \/ pc' = (IF created' = Count THEN "print" ELSE "create") /\ UNCHANGED exit
       \/ End(Crashed)
    /\ UNCHANGED <<prog, threadVars, printed>>

\* Mutant: as in the code under "#if 0", all threads are created, then joined.
JoinLater ==
    /\ pc = "join"
    /\ created < Count \/ \A t \in 1 .. created : thread[t] = "done"
    /\ pc' = IF created = Count THEN "print" ELSE "create"
    /\ UNCHANGED <<prog, exit, created, threadVars, printed>>

Join ==
    /\ pc = "join" /\ thread[created] = "done"
    /\ pc' = IF created = Count THEN "print" ELSE "create"
    /\ UNCHANGED <<prog, exit, created, threadVars, printed>>

\* The result, of 19_4.c only, and the end of the process.
Finish ==
    /\ pc = "print"
    /\ printed' = IF prog = "19_4" THEN cnt ELSE printed
    /\ End(0)
    /\ UNCHANGED <<prog, created, threadVars>>

Main == Create \/ Join \/ Finish

Next == Main \/ CreateFails \/ \E t \in Thread : Run(t)

\* Each thread is scheduled.
Spec == Init /\ [][Next]_vars /\ WF_vars(Main) /\ \A t \in Thread : WF_vars(Run(t))

-----------------------------------------------------------------------------
\* The type invariant of main and its threads.
TypeOK ==
    /\ prog \in ThreadPrograms /\ pc \in {"create", "join", "print", "done"}
    /\ exit \in {Running, Crashed, 0}
    /\ created \in 0 .. Count
    /\ thread \in [Thread -> {"none", "load", "store", "fputc", "done"}]
    /\ i \in [Thread -> Nat] /\ \A t \in 1 .. created : i[t] <= Limit(t)
    /\ {cnt, printed} \subseteq Nat /\ loaded \in [Thread -> Nat]
    /\ out \in Seq(Thread)

\* The threads that were created.
Started == {t \in 1 .. created : thread[t] # "none"}

CharactersOf(t) == {a \in DOMAIN out : out[a] = t}

\* 19_4.c prints as many as its threads counted, none lost between a load and
\* a store; 19_test.c prints all characters of each thread that was created,
\* and those of the first before those of the second.
ResultRight ==
    exit = 0 =>
        /\ prog = "19_4" => printed = Cardinality(Started) * N
        /\ prog = "19_test" =>
               /\ \A t \in Started : Cardinality(CharactersOf(t)) = Characters[t]
               /\ \A a \in DOMAIN out : out[a] \in Started
               /\ \A a, b \in DOMAIN out : a < b => out[a] <= out[b]
=============================================================================
