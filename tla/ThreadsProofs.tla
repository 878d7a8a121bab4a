----------------------------- MODULE ThreadsProofs -----------------------------
(***************************************************************************)
(* Proofs about Threads as a part of SmallPrograms, for any number of      *)
(* threads and of rounds.                                                  *)
(***************************************************************************)
EXTENDS SmallProgramsProofs, FiniteSetTheorems

-----------------------------------------------------------------------------
(* The inductive invariant. *)

Working == {"load", "store", "fputc"}

\* The thread that main waits for has not ended.
Active == pc = "join" /\ thread[created] # "done"

Finished == {t \in 1 .. created : thread[t] = "done"}

\* Where the characters of a thread are.
Of(t) == {a \in 1 .. Len(out) : out[a] = t}

\* No thread but the last one created is at work: main joins each.  This is
\* all that protects cnt.
OneAtATime ==
    /\ pc # "done" => exit = Running
    /\ pc = "create" => created < Pool!Count
    /\ pc = "join" => created > 0 /\ thread[created] \in Working \cup {"done"}
    /\ \A t \in Pool!Thread :
           /\ t > created => thread[t] = "none"
           /\ thread[t] \in Working => t = created /\ pc = "join"

\* The rounds of each thread, and what it loaded.
Rounds ==
    \A t \in Pool!Thread :
        /\ thread[t] = "none" => i[t] = 0
        /\ thread[t] = "done" => i[t] = Pool!Limit(t)
        /\ thread[t] \in Working => i[t] < Pool!Limit(t)
        /\ thread[t] \in {"load", "store"} => prog = "19_4"
        /\ thread[t] = "fputc" => prog = "19_test"
        /\ thread[t] = "store" => loaded[t] = cnt

\* Each thread that ended has counted N times; each character printed is one
\* round of its thread.
Counted ==
    /\ prog = "19_4" => cnt = Cardinality(Finished) * N + (IF Active THEN i[created] ELSE 0)
    /\ prog = "19_test" => \A t \in Pool!Thread : Cardinality(Of(t)) = i[t]

\* The characters of a thread come before those of the next.
Ordered ==
    /\ \A a \in 1 .. Len(out) : out[a] <= created /\ thread[out[a]] # "none"
    /\ \A a, b \in 1 .. Len(out) : a < b => out[a] <= out[b]

Printed == exit = 0 /\ prog = "19_4" => printed = cnt

ThreadInv == Pool!TypeOK /\ OneAtATime /\ Rounds /\ Counted /\ Ordered /\ Printed

-----------------------------------------------------------------------------
(* Facts that the steps share. *)

LEMMA PoolConstants ==
    /\ N_THREADS \in Nat \ {0} /\ N \in Nat \ {0}
    /\ Characters \in [1 .. 2 -> Nat \ {0}]
    /\ \A S : Pool!Cardinality(S) = Cardinality(S)
BY ThreadAssumption DEF Pool!ThreadConstants, Pool!Cardinality, Cardinality

LEMMA PoolTypes ==
    ASSUME ThreadInv
    PROVE  /\ created \in Nat /\ created <= Pool!Count /\ Pool!Count \in Nat \ {0}
           /\ created > 0 => created \in Pool!Thread
           /\ created < Pool!Count => created + 1 \in Pool!Thread
           /\ \A t \in 1 .. created : t \in Pool!Thread
           /\ \A t \in 1 .. Pool!Count : Pool!Limit(t) \in Nat \ {0}
           /\ thread \in [Pool!Thread -> {"none", "load", "store", "fputc", "done"}]
           /\ i \in [Pool!Thread -> Nat] /\ loaded \in [Pool!Thread -> Nat]
           /\ cnt \in Nat /\ Len(out) \in Nat /\ out \in Seq(Pool!Thread)
           /\ prog \in {"19_4", "19_test"}
<1>1. /\ created \in 0 .. Pool!Count /\ prog \in {"19_4", "19_test"}
      /\ thread \in [Pool!Thread -> {"none", "load", "store", "fputc", "done"}]
      /\ i \in [Pool!Thread -> Nat] /\ loaded \in [Pool!Thread -> Nat]
      /\ cnt \in Nat /\ out \in Seq(Pool!Thread)
  BY DEF ThreadInv, Pool!TypeOK, Pool!ThreadPrograms
<1>2. Pool!Count \in Nat \ {0} /\ Pool!Count <= N_THREADS + 2 /\ Pool!Count \in {N_THREADS, 2}
  BY PoolConstants DEF Pool!Count
<1>3. \A t \in 1 .. Pool!Count : Pool!Limit(t) \in Nat \ {0}
  BY <1>1, PoolConstants DEF Pool!Limit, Pool!Count
<1>4. Len(out) \in Nat
  BY <1>1
<1>. QED
  BY <1>1, <1>2, <1>3, <1>4, PoolConstants DEF Pool!Thread

LEMMA FinishedFinite ==
    ASSUME ThreadInv
    PROVE  IsFiniteSet(Finished) /\ Cardinality(Finished) \in Nat
<1>1. IsFiniteSet(1 .. created) /\ Finished \subseteq 1 .. created
  BY PoolTypes, 1 \in Int, FS_Interval DEF Finished
<1>. QED
  BY <1>1, FS_Subset, FS_CardinalityType

LEMMA CharactersFinite ==
    ASSUME ThreadInv, NEW t
    PROVE  IsFiniteSet(Of(t)) /\ Of(t) \subseteq 1 .. Len(out)
<1>1. IsFiniteSet(1 .. Len(out)) /\ Of(t) \subseteq 1 .. Len(out)
  BY PoolTypes, 1 \in Int, FS_Interval DEF Of
<1>. QED
  BY <1>1, FS_Subset

\* The limit of a thread is a matter of the program.
LEMMA LimitStays ==
    ASSUME prog' = prog
    PROVE  Pool!Count' = Pool!Count /\ \A t : Pool!Limit(t)' = Pool!Limit(t)
BY DEF Pool!Count, Pool!Limit

\* A thread at work is the last one created, and main waits for it.
LEMMA TheWorker ==
    ASSUME ThreadInv, NEW t \in Pool!Thread, thread[t] \in Working
    PROVE  /\ t = created /\ pc = "join" /\ Active /\ exit = Running
           /\ created \notin Finished
BY DEF ThreadInv, OneAtATime, Active, Finished, Working

LEMMA ThreadStart ==
    ASSUME Pool!Init PROVE ThreadInv
<1>. USE DEF Pool!Init, Pool!Running, Running
<1>1. N_THREADS \in Nat \ {0} /\ N \in Nat \ {0} /\ Pool!Count \in Nat \ {0}
  BY PoolConstants DEF Pool!Count
<1>2. Pool!TypeOK
  <2>1. \A t \in 1 .. created : FALSE
    OBVIOUS
  <2>. QED
    BY <1>1, <2>1 DEF Pool!TypeOK, Pool!ThreadPrograms
<1>3. OneAtATime
  BY <1>1 DEF OneAtATime, Working
<1>4. Rounds
  BY <1>1 DEF Rounds, Working
<1>5. Counted
  <2>1. Finished = {}
    BY DEF Finished
  <2>2. cnt = 0 /\ ~Active
    BY DEF Active
  <2>3. \A t \in Pool!Thread : Of(t) = {} /\ i[t] = 0
    BY DEF Of
  <2>4. cnt = Cardinality(Finished) * N + 0
    BY <1>1, <2>1, <2>2, FS_EmptySet
  <2>5. ASSUME NEW t \in Pool!Thread PROVE Cardinality(Of(t)) = i[t]
    BY <2>3, FS_EmptySet
  <2>. QED
    BY <2>2, <2>4, <2>5 DEF Counted
<1>6. Ordered /\ Printed
  BY DEF Ordered, Printed
<1>. QED
  BY <1>2, <1>3, <1>4, <1>5, <1>6 DEF ThreadInv

-----------------------------------------------------------------------------
(* The steps. *)

\* A round of the loop ends: one thread has counted or printed once more.
LEMMA RoundStep ==
    ASSUME ThreadInv, NEW t \in Pool!Thread, thread[t] \in Working,
           Pool!NextRound(t),
           prog = "19_4" => cnt' = cnt + 1,
           prog = "19_test" => out' = Append(out, t),
           UNCHANGED <<prog, pc, exit, created, loaded>>
    PROVE  /\ thread' \in [Pool!Thread -> {"none", "load", "store", "fputc", "done"}]
           /\ i' \in [Pool!Thread -> Nat] /\ \A t2 \in 1 .. created : i'[t2] <= Pool!Limit(t2)
           /\ \A t2 \in Pool!Thread : thread[t2] # "none" => thread'[t2] # "none"
           /\ OneAtATime' /\ Rounds' /\ Counted'
<1>1. /\ t = created /\ pc = "join" /\ exit = Running /\ created \notin Finished
      /\ Active /\ OneAtATime /\ Rounds /\ Counted
      /\ N \in Nat /\ created \in Nat /\ created > 0
  BY TheWorker, PoolConstants, PoolTypes DEF ThreadInv, OneAtATime
<1>2. /\ thread \in [Pool!Thread -> {"none", "load", "store", "fputc", "done"}]
      /\ i \in [Pool!Thread -> Nat] /\ prog \in {"19_4", "19_test"} /\ cnt \in Nat
      /\ out \in Seq(Pool!Thread) /\ Len(out) \in Nat
      /\ \A t2 \in 1 .. created : t2 \in Pool!Thread /\ i[t2] <= Pool!Limit(t2)
  BY PoolTypes DEF ThreadInv, Pool!TypeOK
<1>3. PICK k \in Nat, limit \in Nat : k = i[t] /\ limit = Pool!Limit(t) /\ k < limit
  <2>1. i[t] \in Nat /\ i[t] < Pool!Limit(t)
    BY <1>1, <1>2 DEF Rounds
  <2>2. Pool!Limit(t) \in Nat
    BY <1>1, PoolTypes
  <2>. QED
    BY <2>1, <2>2
<1>4. /\ i' = [i EXCEPT ![t] = k + 1]
      /\ thread' = [thread EXCEPT ![t] = IF k + 1 = limit THEN "done" ELSE Pool!FirstStep]
  <2>1. i' = [i EXCEPT ![t] = k + 1]
    BY <1>2, <1>3 DEF Pool!NextRound
  <2>2. i'[t] = k + 1
    BY <1>2, <2>1
  <2>. QED
    BY <1>3, <2>1, <2>2 DEF Pool!NextRound
<1>5. /\ Pool!FirstStep \in {"load", "fputc"}
      /\ Pool!FirstStep = "load" => prog = "19_4"
      /\ Pool!FirstStep = "fputc" => prog = "19_test"
  BY <1>2 DEF Pool!FirstStep
<1>6. /\ i' \in [Pool!Thread -> Nat] /\ i'[t] = k + 1
      /\ thread' \in [Pool!Thread -> {"none", "load", "store", "fputc", "done"}]
      /\ \A t2 \in Pool!Thread \ {t} : thread'[t2] = thread[t2] /\ i'[t2] = i[t2]
      /\ thread'[t] = IF k + 1 = limit THEN "done" ELSE Pool!FirstStep
  BY <1>1, <1>2, <1>3, <1>4, <1>5
<1>7. /\ \A t2 \in Pool!Thread \ {t} : thread[t2] \notin Working
      /\ Pool!Count' = Pool!Count /\ \A t2 : Pool!Limit(t2)' = Pool!Limit(t2)
      /\ prog' = prog /\ created' = created
  BY <1>1, TheWorker, LimitStays
<1>8. OneAtATime'
  BY <1>1, <1>5, <1>6 DEF OneAtATime, Working, Pool!Count, Pool!Thread
<1>9. Rounds'
  <2>1. SUFFICES ASSUME NEW t2 \in Pool!Thread
                 PROVE  /\ thread'[t2] = "none" => i'[t2] = 0
                        /\ thread'[t2] = "done" => i'[t2] = Pool!Limit(t2)
                        /\ thread'[t2] \in Working => i'[t2] < Pool!Limit(t2)
                        /\ thread'[t2] \in {"load", "store"} => prog = "19_4"
                        /\ thread'[t2] = "fputc" => prog = "19_test"
                        /\ thread'[t2] # "store"
    BY <1>7 DEF Rounds, Pool!Thread
  <2>2. CASE t2 = t
    BY <1>1, <1>3, <1>5, <1>6, <2>2 DEF Working
  <2>3. CASE t2 # t
    BY <1>1, <1>6, <1>7, <2>1, <2>3 DEF Rounds, Working
  <2>. QED
    BY <2>2, <2>3
<1>10. /\ \A t2 \in 1 .. created : i'[t2] <= Pool!Limit(t2)
       /\ \A t2 \in Pool!Thread : thread[t2] # "none" => thread'[t2] # "none"
  <2>1. k + 1 <= limit
    BY <1>3
  <2>. QED
    BY <1>2, <1>3, <1>5, <1>6, <2>1
<1>11. CASE prog = "19_4"
  <2>0. prog' # "19_test"
    BY <1>7, <1>11
  <2>1. PICK c \in Nat : c = Cardinality(Finished)
    BY FinishedFinite
  <2>2. cnt = c * N + k /\ limit = N
    BY <1>1, <1>3, <1>11, <2>1 DEF Counted, Pool!Limit
  <2>3. ASSUME k + 1 = N PROVE Counted'
    <3>1. Finished' = Finished \cup {created} /\ ~Active'
      BY <1>1, <1>2, <1>6, <2>2, <2>3 DEF Finished, Active
    <3>2. Cardinality(Finished') = c + 1
      BY <1>1, <2>1, <3>1, FinishedFinite, FS_AddElement
    <3>3. c * N + k + 1 = (c + 1) * N
      BY <1>1, <2>3
    <3>4. cnt' = (c + 1) * N + 0
      BY <1>1, <1>11, <2>2, <3>3
    <3>5. cnt' = Cardinality(Finished') * N + 0
      BY <3>2, <3>4
    <3>. QED
      BY <2>0, <3>1, <3>5 DEF Counted
  <2>4. ASSUME k + 1 # N PROVE Counted'
    <3>1. Finished' = Finished /\ Active'
      BY <1>1, <1>2, <1>5, <1>6, <2>2, <2>4 DEF Finished, Active
    <3>2. cnt' = c * N + (k + 1)
      BY <1>1, <1>11, <2>2
    <3>3. i'[created'] = k + 1
      BY <1>1, <1>6, <1>7
    <3>4. cnt' = Cardinality(Finished') * N + i'[created']
      BY <2>1, <3>1, <3>2, <3>3
    <3>. QED
      BY <2>0, <3>1, <3>4 DEF Counted
  <2>5. Counted'
    BY <2>3, <2>4
  <2>. QED
    BY <1>6, <1>8, <1>9, <1>10, <2>5
<1>12. CASE prog = "19_test"
  <2>1. /\ Len(out') = Len(out) + 1 /\ out'[Len(out) + 1] = t
        /\ \A a \in 1 .. Len(out) : out'[a] = out[a]
    BY <1>2, <1>12
  <2>2. Of(t)' = Of(t) \cup {Len(out) + 1} /\ Len(out) + 1 \notin Of(t)
    BY <1>2, <2>1 DEF Of
  <2>3. Cardinality(Of(t)') = k + 1
    <3>1. Cardinality(Of(t)) = k /\ IsFiniteSet(Of(t))
      BY <1>1, <1>3, <1>12, CharactersFinite DEF Counted
    <3>. QED
      BY <2>2, <3>1, FS_AddElement
  <2>4. ASSUME NEW t2 \in Pool!Thread \ {t} PROVE Of(t2)' = Of(t2)
    BY <1>2, <2>1 DEF Of
  <2>5. ASSUME NEW t2 \in Pool!Thread PROVE Cardinality(Of(t2)') = i'[t2]
    BY <1>1, <1>6, <1>12, <2>3, <2>4 DEF Counted
  <2>6. Counted'
    BY <1>7, <1>12, <2>5 DEF Counted, Pool!Thread, Of
  <2>. QED
    BY <1>6, <1>8, <1>9, <1>10, <2>6
<1>. QED
  BY <1>2, <1>11, <1>12

LEMMA RunStep ==
    ASSUME ThreadInv, NEW t \in Pool!Thread, Pool!Run(t)
    PROVE  ThreadInv'
<1>1. /\ Pool!TypeOK /\ UNCHANGED <<prog, pc, exit, created, printed>> /\ pc # "done"
      /\ OneAtATime /\ Rounds /\ Counted /\ Ordered /\ Printed /\ exit = Running
      /\ thread[t] \in Working
  BY DEF ThreadInv, Pool!Run, Pool!Load, Pool!Store, Pool!Fputc, OneAtATime, Working
<1>2. /\ thread \in [Pool!Thread -> {"none", "load", "store", "fputc", "done"}]
      /\ i \in [Pool!Thread -> Nat] /\ loaded \in [Pool!Thread -> Nat]
      /\ cnt \in Nat /\ out \in Seq(Pool!Thread) /\ Len(out) \in Nat
      /\ t = created /\ created \in Nat
  BY <1>1, PoolTypes, TheWorker
<1>3. /\ Pool!Count' = Pool!Count /\ \A t2 : Pool!Limit(t2)' = Pool!Limit(t2)
      /\ Printed'
  BY <1>1, LimitStays DEF Printed, Running
<1>4. CASE Pool!Load(t)
  <2>1. /\ loaded' = [loaded EXCEPT ![t] = cnt] /\ thread' = [thread EXCEPT ![t] = "store"]
        /\ i' = i /\ cnt' = cnt /\ out' = out /\ thread[t] = "load"
    BY <1>4 DEF Pool!Load
  <2>2. /\ loaded' \in [Pool!Thread -> Nat] /\ loaded'[t] = cnt /\ thread'[t] = "store"
        /\ thread' \in [Pool!Thread -> {"none", "load", "store", "fputc", "done"}]
        /\ \A t2 \in Pool!Thread \ {t} : thread'[t2] = thread[t2] /\ loaded'[t2] = loaded[t2]
    BY <1>2, <2>1
  <2>3. Pool!TypeOK'
    BY <1>1, <1>3, <2>1, <2>2 DEF Pool!TypeOK
  <2>4. OneAtATime'
    BY <1>1, <1>2, <1>3, <2>1, <2>2 DEF OneAtATime, Working
  <2>5. Rounds'
    BY <1>1, <1>2, <1>3, <2>1, <2>2 DEF Rounds, Working
  <2>6. Counted'
    <3>1. \A t2 \in 1 .. created : t2 \in Pool!Thread
      BY PoolTypes
    <3>2. Finished' = Finished /\ Active' = Active
      BY <1>1, <1>2, <2>1, <2>2, <3>1 DEF Finished, Active
    <3>. QED
      BY <1>1, <2>1, <3>2 DEF Counted, Of, Pool!Thread
  <2>7. Ordered'
    BY <1>1, <1>2, <2>1, <2>2 DEF Ordered
  <2>. QED
    BY <1>3, <2>3, <2>4, <2>5, <2>6, <2>7 DEF ThreadInv
<1>5. CASE Pool!Store(t)
  <2>1. /\ cnt' = cnt + 1 /\ Pool!NextRound(t) /\ loaded' = loaded /\ out' = out
        /\ prog = "19_4"
    BY <1>1, <1>5 DEF Pool!Store, Rounds
  <2>2. /\ thread' \in [Pool!Thread -> {"none", "load", "store", "fputc", "done"}]
        /\ i' \in [Pool!Thread -> Nat] /\ \A t2 \in 1 .. created : i'[t2] <= Pool!Limit(t2)
        /\ \A t2 \in Pool!Thread : thread[t2] # "none" => thread'[t2] # "none"
        /\ OneAtATime' /\ Rounds' /\ Counted'
    BY <1>1, <2>1, RoundStep
  <2>3. cnt' \in Nat
    BY <1>2, <2>1
  <2>4. Pool!TypeOK'
    BY <1>1, <1>3, <2>1, <2>2, <2>3 DEF Pool!TypeOK
  <2>5. Ordered'
    <3>1. \A a \in 1 .. Len(out) : out[a] \in Pool!Thread
      BY <1>2
    <3>. QED
      BY <1>1, <2>1, <2>2, <3>1 DEF Ordered
  <2>. QED
    BY <1>3, <2>2, <2>4, <2>5 DEF ThreadInv
<1>6. CASE Pool!Fputc(t)
  <2>1. /\ out' = Append(out, t) /\ Pool!NextRound(t) /\ loaded' = loaded /\ cnt' = cnt
        /\ prog = "19_test"
    BY <1>1, <1>6 DEF Pool!Fputc, Rounds
  <2>2. /\ out' \in Seq(Pool!Thread) /\ Len(out') = Len(out) + 1
        /\ out'[Len(out) + 1] = created
        /\ \A a \in 1 .. Len(out) : out'[a] = out[a]
    BY <1>2, <2>1
  <2>3. /\ thread' \in [Pool!Thread -> {"none", "load", "store", "fputc", "done"}]
        /\ i' \in [Pool!Thread -> Nat] /\ \A t2 \in 1 .. created : i'[t2] <= Pool!Limit(t2)
        /\ \A t2 \in Pool!Thread : thread[t2] # "none" => thread'[t2] # "none"
        /\ OneAtATime' /\ Rounds' /\ Counted'
    BY <1>1, <2>1, RoundStep
  <2>4. Pool!TypeOK'
    BY <1>1, <1>3, <2>1, <2>2, <2>3 DEF Pool!TypeOK
  <2>5. Ordered'
    <3>1. \A a \in 1 .. Len(out) : out[a] <= created
      BY <1>1 DEF Ordered
    <3>2. \A a \in 1 .. Len(out') : a \in 1 .. Len(out) \/ a = Len(out) + 1
      BY <1>2, <2>2
    <3>3. ASSUME NEW a \in 1 .. Len(out')
          PROVE  out'[a] <= created' /\ thread'[out'[a]] # "none"
      <4>1. CASE a \in 1 .. Len(out)
        <5>1. out[a] \in Pool!Thread /\ out[a] <= created /\ thread[out[a]] # "none"
          BY <1>1, <1>2, <4>1 DEF Ordered
        <5>. QED
          BY <1>1, <2>2, <2>3, <4>1, <5>1
      <4>2. CASE a = Len(out) + 1
        BY <1>1, <1>2, <2>2, <2>3, <4>2 DEF Working
      <4>. QED
        BY <3>2, <4>1, <4>2
    <3>4. ASSUME NEW a \in 1 .. Len(out'), NEW b \in 1 .. Len(out'), a < b
          PROVE  out'[a] <= out'[b]
      <4>1. a \in 1 .. Len(out)
        BY <1>2, <2>2, <3>4
      <4>2. CASE b \in 1 .. Len(out)
        BY <1>1, <2>2, <3>4, <4>1, <4>2 DEF Ordered
      <4>3. CASE b = Len(out) + 1
        BY <2>2, <3>1, <4>1, <4>3
      <4>. QED
        BY <3>2, <4>2, <4>3
    <3>. QED
      BY <3>3, <3>4 DEF Ordered
  <2>. QED
    BY <1>3, <2>3, <2>4, <2>5 DEF ThreadInv
<1>. QED
  BY <1>4, <1>5, <1>6 DEF Pool!Run

LEMMA MainStep ==
    ASSUME ThreadInv, Pool!Main \/ Pool!CreateFails
    PROVE  ThreadInv'
<1>1. /\ Pool!TypeOK /\ OneAtATime /\ Rounds /\ Counted /\ Ordered /\ Printed
      /\ thread \in [Pool!Thread -> {"none", "load", "store", "fputc", "done"}]
      /\ i \in [Pool!Thread -> Nat] /\ created \in Nat /\ created <= Pool!Count
      /\ Pool!Count \in Nat /\ cnt \in Nat /\ prog \in {"19_4", "19_test"}
      /\ \A t \in 1 .. created : t \in Pool!Thread
      /\ N \in Nat \ {0} /\ Cardinality(Finished) \in Nat
      /\ \A t \in 1 .. Pool!Count : Pool!Limit(t) \in Nat \ {0}
      /\ \A t \in 1 .. created : i[t] <= Pool!Limit(t)
  BY PoolTypes, PoolConstants, FinishedFinite DEF ThreadInv, Pool!TypeOK
<1>. USE DEF Pool!Running, Running, Pool!End, Pool!threadVars
<1>2. CASE Pool!Create \/ Pool!CreateFails
  <2>1. PICK c \in Nat : c = created + 1
    BY <1>1
  <2>2. /\ pc = "create" /\ exit = Running /\ created' = c /\ c <= Pool!Count
        /\ c \in Pool!Thread /\ UNCHANGED <<prog, i, loaded, cnt, out, printed>>
        /\ thread[c] = "none" /\ i[c] = 0 /\ c \notin Finished
        /\ \A t \in Pool!Thread : thread[t] \notin Working
    BY <1>1, <1>2, <2>1, PoolTypes
    DEF Pool!Create, Pool!CreateFails, OneAtATime, Rounds, Finished
  <2>3. /\ Pool!Count' = Pool!Count /\ \A t : Pool!Limit(t)' = Pool!Limit(t)
        /\ \A t \in 1 .. c : i[t] <= Pool!Limit(t)
    BY <1>1, <2>1, <2>2, LimitStays
  <2>4. ASSUME \A t \in Pool!Thread : thread[t] # "none" => thread'[t] # "none"
        PROVE  Ordered'
    <3>1. created < c
      BY <1>1, <2>1
    <3>2. \A a \in 1 .. Len(out) :
              out[a] \in Pool!Thread /\ out[a] <= created /\ thread'[out[a]] # "none"
      BY <1>1, <2>4, PoolTypes DEF Ordered
    <3>3. \A a \in 1 .. Len(out) : out[a] <= c
      BY <1>1, <2>1, <3>1, <3>2 DEF Pool!Thread
    <3>. QED
      BY <1>1, <2>2, <3>2, <3>3 DEF Ordered
  <2>5. CASE Pool!Create
    <3>1. /\ thread' = [thread EXCEPT ![c] = Pool!FirstStep] /\ pc' = "join" /\ exit' = exit
      BY <2>2, <2>5 DEF Pool!Create
    <3>2. /\ Pool!FirstStep \in {"load", "fputc"}
          /\ Pool!FirstStep = "load" => prog = "19_4"
          /\ Pool!FirstStep = "fputc" => prog = "19_test"
      BY <1>1 DEF Pool!FirstStep
    <3>3. /\ thread' \in [Pool!Thread -> {"none", "load", "store", "fputc", "done"}]
          /\ thread'[c] = Pool!FirstStep
          /\ \A t \in Pool!Thread \ {c} : thread'[t] = thread[t]
      BY <1>1, <2>2, <3>1, <3>2
    <3>4. Pool!TypeOK'
      BY <1>1, <2>1, <2>2, <2>3, <3>1, <3>3 DEF Pool!TypeOK
    <3>5. OneAtATime'
      BY <1>1, <2>1, <2>2, <2>3, <3>1, <3>2, <3>3 DEF OneAtATime, Working, Pool!Thread
    <3>6. Rounds'
      BY <1>1, <2>2, <2>3, <3>2, <3>3 DEF Rounds, Working, Pool!Thread
    <3>7. Finished' = Finished /\ Active' /\ ~Active
      BY <1>1, <2>1, <2>2, <3>1, <3>2, <3>3 DEF Finished, Active
    <3>8. Counted' /\ Printed'
      BY <1>1, <2>2, <3>1, <3>7 DEF Counted, Printed, Of, Pool!Thread
    <3>9. Ordered'
      BY <2>4, <3>2, <3>3
    <3>. QED
      BY <3>4, <3>5, <3>6, <3>8, <3>9 DEF ThreadInv
  <2>6. CASE Pool!CreateFails
    <3>1. /\ thread' = thread
          /\ \/ pc' = (IF c = Pool!Count THEN "print" ELSE "create") /\ exit' = exit
             \/ pc' = "done" /\ exit' = Pool!Crashed
      BY <2>2, <2>6 DEF Pool!CreateFails
    <3>2. Pool!TypeOK'
      BY <1>1, <2>1, <2>2, <2>3, <3>1 DEF Pool!TypeOK
    <3>3. OneAtATime' /\ Rounds'
      BY <1>1, <2>1, <2>2, <2>3, <3>1 DEF OneAtATime, Rounds, Working, Pool!Thread
    <3>4. Finished' = Finished /\ ~Active' /\ ~Active
      BY <1>1, <2>1, <2>2, <3>1 DEF Finished, Active
    <3>5. Counted' /\ Printed'
      BY <1>1, <2>2, <3>1, <3>4 DEF Counted, Printed, Pool!Crashed, Of, Pool!Thread
    <3>6. Ordered'
      BY <2>4, <3>1
    <3>. QED
      BY <3>2, <3>3, <3>5, <3>6 DEF ThreadInv
  <2>. QED
    BY <1>2, <2>5, <2>6
<1>3. CASE Pool!Join
  <2>1. /\ pc = "join" /\ thread[created] = "done"
        /\ pc' = (IF created = Pool!Count THEN "print" ELSE "create")
        /\ UNCHANGED <<prog, exit, created, thread, i, loaded, cnt, out, printed>>
    BY <1>3 DEF Pool!Join
  <2>2. /\ Pool!Count' = Pool!Count /\ \A t : Pool!Limit(t)' = Pool!Limit(t)
        /\ Finished' = Finished /\ ~Active /\ ~Active'
    BY <2>1, LimitStays DEF Finished, Active
  <2>3. \A t \in Pool!Thread : thread[t] \notin Working
    BY <1>1, <2>1 DEF OneAtATime, Working
  <2>4. Pool!TypeOK' /\ OneAtATime' /\ Rounds'
    BY <1>1, <2>1, <2>2, <2>3 DEF Pool!TypeOK, OneAtATime, Rounds, Pool!Thread, Working
  <2>5. Counted' /\ Ordered' /\ Printed'
    BY <1>1, <2>1, <2>2 DEF Counted, Ordered, Printed, Of, Pool!Thread
  <2>. QED
    BY <2>4, <2>5 DEF ThreadInv
<1>4. CASE Pool!Finish
  <2>1. /\ pc = "print" /\ pc' = "done" /\ exit' = 0
        /\ printed' = IF prog = "19_4" THEN cnt ELSE printed
        /\ UNCHANGED <<prog, created, thread, i, loaded, cnt, out>>
    BY <1>4 DEF Pool!Finish
  <2>2. /\ Pool!Count' = Pool!Count /\ \A t : Pool!Limit(t)' = Pool!Limit(t)
        /\ Finished' = Finished /\ ~Active /\ ~Active'
    BY <2>1, LimitStays DEF Finished, Active
  <2>3. \A t \in Pool!Thread : thread[t] \notin Working
    BY <1>1, <2>1 DEF OneAtATime, Working
  <2>4. Pool!TypeOK' /\ OneAtATime' /\ Rounds'
    BY <1>1, <2>1, <2>2, <2>3 DEF Pool!TypeOK, OneAtATime, Rounds, Pool!Thread, Working
  <2>5. Counted' /\ Ordered' /\ Printed'
    BY <1>1, <2>1, <2>2 DEF Counted, Ordered, Printed, Of, Pool!Thread
  <2>. QED
    BY <2>4, <2>5 DEF ThreadInv
<1>. QED
  BY <1>2, <1>3, <1>4 DEF Pool!Main

LEMMA ThreadInvariant == Spec => [](Threading => ThreadInv)
<1>1. Init => (Threading => ThreadInv)
  BY ThreadStart DEF Init
<1>2. (Threading => ThreadInv) /\ [Next]_vars => (Threading => ThreadInv)'
  <2>. SUFFICES ASSUME Threading => ThreadInv, [Next]_vars, Threading' PROVE ThreadInv'
    OBVIOUS
  <2>1. CASE Pool!Next
    BY <2>1, OwnSteps, RunStep, MainStep DEF Pool!Next
  <2>2. CASE UNCHANGED vars
    BY <2>2, OwnSteps
    DEF vars, threadVars, ThreadInv, Pool!TypeOK, OneAtATime, Rounds, Counted, Ordered, Printed,
        Pool!Count, Pool!Limit, Pool!Thread, Of, Finished, Active
  <2>. QED
    BY <2>1, <2>2, OwnSteps
<1>. QED
  BY <1>1, <1>2, PTL DEF Spec

\* 19_4.c prints what its threads counted, and 19_test.c prints all characters of
\* each thread and does not mix them, although neither protects what the threads
\* share.
THEOREM ResultIsRight == Spec => []ResultRight
<1>1. ASSUME Threading => ThreadInv PROVE ResultRight
  <2>1. SUFFICES ASSUME ThreadInv, exit = 0
                 PROVE  /\ prog = "19_4" => printed = Pool!Cardinality(Pool!Started) * N
                        /\ prog = "19_test" =>
                               /\ \A t \in Pool!Started :
                                      Pool!Cardinality(Pool!CharactersOf(t)) = Characters[t]
                               /\ \A a \in DOMAIN out : out[a] \in Pool!Started
                               /\ \A a, b \in DOMAIN out : a < b => out[a] <= out[b]
    BY <1>1 DEF ResultRight, Pool!ResultRight
  <2>2. pc = "done"
    BY <2>1 DEF ThreadInv, OneAtATime, Running
  <2>3. /\ thread \in [Pool!Thread -> {"none", "load", "store", "fputc", "done"}]
        /\ \A t \in 1 .. created : t \in Pool!Thread
        /\ \A t \in Pool!Thread : thread[t] \notin Working
        /\ out \in Seq(Pool!Thread) /\ created \in Nat
        /\ Rounds /\ Counted /\ Ordered /\ Printed
    BY <2>1, <2>2, PoolTypes DEF ThreadInv, OneAtATime
  <2>4. Pool!Started = Finished
    BY <2>3 DEF Pool!Started, Finished, Working
  <2>5. prog = "19_4" => cnt = Cardinality(Finished) * N
    <3>1. prog = "19_4" => cnt = Cardinality(Finished) * N + 0
      BY <2>2, <2>3 DEF Counted, Active
    <3>2. Cardinality(Finished) * N \in Nat
      BY <2>1, FinishedFinite, PoolConstants
    <3>. QED
      BY <3>1, <3>2
  <2>6. ASSUME prog = "19_test", NEW t \in Pool!Started
        PROVE  Pool!Cardinality(Pool!CharactersOf(t)) = Characters[t]
    <3>1. t \in Pool!Thread /\ thread[t] = "done"
      BY <2>3, <2>4, <2>6 DEF Finished
    <3>2. i[t] = Characters[t] /\ Cardinality(Of(t)) = i[t]
      BY <2>3, <2>6, <3>1 DEF Rounds, Counted, Pool!Limit
    <3>3. Pool!CharactersOf(t) = Of(t)
      BY <2>3 DEF Pool!CharactersOf, Of
    <3>. QED
      BY <3>2, <3>3, PoolConstants
  <2>7. \A a \in 1 .. Len(out) : out[a] \in Pool!Started
    <3>1. ASSUME NEW a \in 1 .. Len(out)
          PROVE  out[a] \in 1 .. created /\ thread[out[a]] # "none"
      <4>1. out[a] \in Pool!Thread /\ out[a] <= created /\ thread[out[a]] # "none"
        BY <2>3 DEF Ordered
      <4>. QED
        BY <2>3, <4>1, PoolConstants DEF Pool!Thread
    <3>. QED
      BY <3>1 DEF Pool!Started
  <2>. QED
    BY <2>1, <2>3, <2>4, <2>5, <2>6, <2>7, PoolConstants DEF Printed, Ordered
<1>. QED
  BY <1>1, ThreadInvariant, PTL
=============================================================================
