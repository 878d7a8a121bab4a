--------------------------- MODULE RunCounterProofs ---------------------------
(***************************************************************************)
(* Proofs about RunCounter for any number of runs, any initial data.txt    *)
(* and any set of faults.                                                  *)
(***************************************************************************)
EXTENDS RunCounter, SequenceTheorems, FiniteSetTheorems, TLAPS

-----------------------------------------------------------------------------
(* The text of an int is a sequence of characters. *)

LEMMA Pow10Type == \A j \in 1 .. MaxDigits : Pow10[j] \in Nat \ {0}
BY SMT DEF MaxDigits, Pow10

LEMMA DigitsAtType ==
    ASSUME NEW n \in Int, NEW k \in 1 .. MaxDigits
    PROVE  DigitsAt(n, k) \in Seq(Digit)
<1>1. \A i \in 1 .. k : k - i + 1 \in 1 .. MaxDigits
  BY DEF MaxDigits
<1>2. \A i \in 1 .. k : (n \div Pow10[k - i + 1]) % 10 \in Digit
  BY <1>1, Pow10Type DEF Digit
<1>3. k \in Nat
  BY DEF MaxDigits
<1>. QED
  BY <1>2, <1>3 DEF DigitsAt

\* asprintf gives a number as many digits as it has.
LEMMA WidthSpec ==
    ASSUME NEW n \in Nat, n <= 2147483648
    PROVE  /\ Width(n) \in 1 .. MaxDigits
           /\ Width(n) = 1 \/ n >= Pow10[Width(n)]
           /\ Width(n) = MaxDigits \/ n < Pow10[Width(n) + 1]
<1>1. \E k \in 1 .. MaxDigits : /\ k = 1 \/ n >= Pow10[k]
                                /\ k = MaxDigits \/ n < Pow10[k + 1]
  <2>1. CASE n < 10            BY <2>1, SMT DEF MaxDigits, Pow10
  <2>2. CASE n >= 10 /\ n <= 99    BY <2>2, SMT DEF MaxDigits, Pow10
  <2>3. CASE n >= 100 /\ n <= 999    BY <2>3, SMT DEF MaxDigits, Pow10
  <2>4. CASE n >= 1000 /\ n <= 9999
    BY <2>4, SMT DEF MaxDigits, Pow10
  <2>5. CASE n >= 10000 /\ n <= 99999
    BY <2>5, SMT DEF MaxDigits, Pow10
  <2>6. CASE n >= 100000 /\ n <= 999999
    BY <2>6, SMT DEF MaxDigits, Pow10
  <2>7. CASE n >= 1000000 /\ n <= 9999999
    BY <2>7, SMT DEF MaxDigits, Pow10
  <2>8. CASE n >= 10000000 /\ n <= 99999999
    BY <2>8, SMT DEF MaxDigits, Pow10
  <2>9. CASE n >= 100000000 /\ n <= 999999999
    BY <2>9, SMT DEF MaxDigits, Pow10
  <2>10. CASE n >= 1000000000
    BY <2>10, SMT DEF MaxDigits, Pow10
  <2>. QED
    BY <2>1, <2>2, <2>3, <2>4, <2>5, <2>6, <2>7, <2>8, <2>9, <2>10, SMT
<1>. QED
  BY <1>1, SMT DEF Width

LEMMA FormatIntType ==
    ASSUME NEW n \in CInt
    PROVE  FormatInt(n) \in Seq(Char)
<1>1. CASE n < 0
  <2> DEFINE m == -n
  <2>1. m \in Nat /\ m <= 2147483648
    BY <1>1, IntMaxAssumption, SMT DEF CInt
  <2> HIDE DEF m
  <2>2. DigitsAt(m, Width(m)) \in Seq(Digit)
    BY <2>1, WidthSpec, DigitsAtType, SMT
  <2>3. DigitsAt(m, Width(m)) \in Seq(Char) /\ <<Minus>> \in Seq(Char)
    BY <2>2 DEF Char
  <2>. QED
    BY <1>1, <2>3 DEF FormatInt, m
<1>2. CASE ~(n < 0)
  <2>1. n \in Nat /\ n <= 2147483648
    BY <1>2, IntMaxAssumption, SMT DEF CInt
  <2>2. DigitsAt(n, Width(n)) \in Seq(Digit)
    BY <2>1, WidthSpec, DigitsAtType, SMT
  <2>. QED
    BY <1>2, <2>2 DEF FormatInt, Char
<1>. QED
  BY <1>1, <1>2

LEMMA OverwriteType ==
    ASSUME NEW old \in Seq(Char), NEW text \in Seq(Char)
    PROVE  Overwrite(old, text) \in Seq(Char)
BY DEF Overwrite

LEMMA ScanIntType ==
    ASSUME NEW s
    PROVE  ScanInt(s, 0) \subseteq CInt
<1>1. 0 \in CInt
  BY IntMaxAssumption, SMT DEF CInt
<1>. QED
  BY <1>1 DEF ScanInt

LEMMA IncrementType ==
    ASSUME NEW n \in CInt
    PROVE  Increment(n) \in CInt
BY IntMaxAssumption, SMT DEF Increment, CInt

-----------------------------------------------------------------------------
(* Init and every step of 11.c keep the types. *)

LEMMA TypeInit == Init => TypeOK
<1>. SUFFICES ASSUME Init PROVE TypeOK
  OBVIOUS
<1>1. 0 \in CInt
  BY IntMaxAssumption, SMT DEF CInt
<1>2. file \in Seq(Char)
  BY FilesAssumption DEF Init
<1>. QED
  BY <1>1, <1>2 DEF Init, TypeOK, Locations, Running

LEMMA GotoType ==
    ASSUME TypeOK, NEW r \in Runs, NEW to \in Locations, Goto(r, to)
    PROVE  pc' \in [Runs -> Locations] /\ exit' \in [Runs -> {Running, Killed} \cup 0 .. 6]
BY DEF Goto, TypeOK

LEMMA EndType ==
    ASSUME TypeOK, NEW r \in Runs, NEW status \in {Running, Killed} \cup 0 .. 6,
           End(r, status)
    PROVE  /\ pc' \in [Runs -> Locations]
           /\ exit' \in [Runs -> {Running, Killed} \cup 0 .. 6]
           /\ holder' \in Runs \cup {NoRun}
BY DEF End, TypeOK, Locations

LEMMA TypeStep == TypeOK /\ [Next]_vars => TypeOK'
<1>. SUFFICES ASSUME TypeOK, [Next]_vars PROVE TypeOK'
  OBVIOUS
<1>1. CASE UNCHANGED vars
  BY <1>1 DEF TypeOK, vars
<1>2. ASSUME NEW r \in Runs, Open(r) PROVE TypeOK'
  BY <1>2, GotoType DEF Open, TypeOK, Locations
<1>3. ASSUME NEW r \in Runs, Lock(r) PROVE TypeOK'
  BY <1>3, GotoType DEF Lock, TypeOK, Locations
<1>4. ASSUME NEW r \in Runs, Scan(r) PROVE TypeOK'
  <2>1. PICK n \in ScanInt(file, 0) : cnt' = [cnt EXCEPT ![r] = Increment(n)]
    BY <1>4 DEF Scan
  <2>2. Increment(n) \in CInt
    BY ScanIntType, IncrementType
  <2>. QED
    BY <1>4, <2>1, <2>2, GotoType DEF Scan, TypeOK, Locations
<1>5. ASSUME NEW r \in Runs, ScanRejects(r) PROVE TypeOK'
  BY <1>5, EndType DEF ScanRejects, TypeOK
<1>6. ASSUME NEW r \in Runs, Write(r) PROVE TypeOK'
  <2>1. Overwrite(file, FormatInt(cnt[r])) \in Seq(Char)
    BY FormatIntType, OverwriteType DEF TypeOK
  <2>. QED
    BY <1>6, <2>1, GotoType DEF Write, TypeOK, Locations
<1>7. ASSUME NEW r \in Runs, Unlock(r) PROVE TypeOK'
  BY <1>7, GotoType DEF Unlock, TypeOK, Locations
<1>8. ASSUME NEW r \in Runs, Close(r) PROVE TypeOK'
  BY <1>8, EndType DEF Close, TypeOK
<1>9. ASSUME NEW r \in Runs, CallFails(r) PROVE TypeOK'
  BY <1>9, EndType DEF CallFails, FailureStatus, TypeOK
<1>10. ASSUME NEW r \in Runs, ScanReadError(r) PROVE TypeOK'
  <2>1. 0 \in CInt
    BY IntMaxAssumption, SMT DEF CInt
  <2>2. Increment(0) \in CInt
    BY <2>1, IncrementType
  <2>. QED
    BY <1>10, <2>2, GotoType DEF ScanReadError, TypeOK, Locations
<1>11. ASSUME NEW r \in Runs, FormatFails(r) PROVE TypeOK'
  BY <1>11, EndType DEF FormatFails, TypeOK
<1>12. ASSUME NEW r \in Runs, WriteShort(r) PROVE TypeOK'
  <2> DEFINE text == FormatInt(cnt[r])
  <2>1. PICK k \in 1 .. Len(text) - 1 : file' = Overwrite(file, SubSeq(text, 1, k))
    BY <1>12 DEF WriteShort
  <2>2. text \in Seq(Char)
    BY FormatIntType DEF TypeOK
  <2> HIDE DEF text
  <2>3. SubSeq(text, 1, k) \in Seq(Char)
    BY <2>2, SubSeqProperties
  <2>4. file' \in Seq(Char)
    BY <2>1, <2>3, OverwriteType DEF TypeOK
  <2>. QED
    BY <1>12, <2>4, GotoType DEF WriteShort, TypeOK, Locations
<1>13. ASSUME NEW r \in Runs, Kill(r) PROVE TypeOK'
  BY <1>13, EndType DEF Kill, TypeOK
<1>. QED
  BY <1>1, <1>2, <1>3, <1>4, <1>5, <1>6, <1>7, <1>8, <1>9, <1>10, <1>11,
     <1>12, <1>13 DEF Next, Step, Fault

\* 11.c's variables keep their types, for any number of runs, whatever
\* data.txt held before and whichever calls fail.
THEOREM TypeCorrect == Spec => []TypeOK
<1>. QED
  BY TypeInit, TypeStep, PTL DEF Spec
-----------------------------------------------------------------------------
(* The lock.  LockInv is inductive once the types are known: a step either *)
(* leaves both the lock and a run's place between the two flock calls      *)
(* alone, or moves them together.                                          *)

LEMMA LockInit == Init => LockInv
BY RunsAssumption DEF Init, LockInv, InCriticalSection

\* A step that stays on its side of the two flock calls.
LEMMA LockGoto ==
    ASSUME TypeOK, LockInv, NEW r \in Runs, NEW to \in Locations, Goto(r, to),
           UNCHANGED holder,
           to \in {"scan", "write", "unlock"} <=> InCriticalSection(r)
    PROVE  LockInv'
BY DEF Goto, TypeOK, LockInv, InCriticalSection

\* The end of a run, wherever it was.
LEMMA LockEnd ==
    ASSUME TypeOK, LockInv, NEW r \in Runs, NEW status, End(r, status)
    PROVE  LockInv'
<1>1. \A q \in Runs : pc'[q] = IF q = r THEN "done" ELSE pc[q]
  BY DEF End, TypeOK
<1>2. CASE holder = r
  BY <1>1, <1>2, RunsAssumption DEF End, LockInv, InCriticalSection
<1>3. CASE holder # r
  BY <1>1, <1>3 DEF End, LockInv, InCriticalSection
<1>. QED
  BY <1>2, <1>3

LEMMA LockStep == TypeOK /\ LockInv /\ [Next]_vars => LockInv'
<1>. SUFFICES ASSUME TypeOK, LockInv, [Next]_vars PROVE LockInv'
  OBVIOUS
<1>1. CASE UNCHANGED vars
  BY <1>1 DEF LockInv, InCriticalSection, vars
<1>2. ASSUME NEW r \in Runs, Open(r) PROVE LockInv'
  BY <1>2, LockGoto DEF Open, Locations, InCriticalSection
<1>3. ASSUME NEW r \in Runs, Lock(r) PROVE LockInv'
  <2>1. \A q \in Runs : pc'[q] = IF q = r THEN "scan" ELSE pc[q]
    BY <1>3 DEF Lock, Goto, TypeOK
  <2>2. \A q \in Runs : ~InCriticalSection(q)
    BY <1>3, RunsAssumption DEF Lock, LockInv
  <2>. QED
    BY <1>3, <2>1, <2>2 DEF Lock, LockInv, InCriticalSection
<1>4. ASSUME NEW r \in Runs, Scan(r) \/ ScanReadError(r) PROVE LockInv'
  BY <1>4, LockGoto DEF Scan, ScanReadError, Locations, InCriticalSection
<1>5. ASSUME NEW r \in Runs, Write(r) \/ WriteShort(r) PROVE LockInv'
  BY <1>5, LockGoto DEF Write, WriteShort, Locations, InCriticalSection
<1>6. ASSUME NEW r \in Runs, Unlock(r) PROVE LockInv'
  <2>1. holder = r
    BY <1>6 DEF Unlock, LockInv, InCriticalSection
  <2>2. \A q \in Runs : pc'[q] = IF q = r THEN "close" ELSE pc[q]
    BY <1>6 DEF Unlock, Goto, TypeOK
  <2>. QED
    BY <1>6, <2>1, <2>2, RunsAssumption DEF Unlock, LockInv, InCriticalSection
<1>7. ASSUME NEW r \in Runs,
             \/ ScanRejects(r) \/ Close(r) \/ CallFails(r) \/ FormatFails(r)
             \/ Kill(r)
      PROVE  LockInv'
  BY <1>7, LockEnd DEF ScanRejects, Close, CallFails, FormatFails, Kill
<1>. QED
  BY <1>1, <1>2, <1>3, <1>4, <1>5, <1>6, <1>7 DEF Next, Step, Fault

\* At most one run of 11.c is between its two flock calls, and it holds the
\* lock: for any number of runs, failures and kills.
THEOREM LockSafety == Spec => []LockInv
<1>1. Spec => []TypeOK
  BY TypeCorrect
<1>. QED
  BY <1>1, LockInit, LockStep, PTL DEF Spec

-----------------------------------------------------------------------------
(* What the lock is for: the number a run read is still in the file when   *)
(* the run writes.  Only a run in the critical section writes, so a write  *)
(* by one run finds no other run between its fscanf and its pwrite.        *)

LEMMA NoStaleWriteStep ==
    ASSUME "read" \notin Faults
    PROVE  TypeOK /\ LockInv /\ NoStaleWrite /\ [Next]_vars => NoStaleWrite'
<1>. SUFFICES ASSUME TypeOK, LockInv, NoStaleWrite, [Next]_vars PROVE NoStaleWrite'
  OBVIOUS
<1>1. CASE UNCHANGED vars
  BY <1>1 DEF NoStaleWrite, vars
<1>2. ASSUME NEW r \in Runs, NEW to \in Locations \ {"write"}, Goto(r, to),
             UNCHANGED <<file, cnt>>
      PROVE  NoStaleWrite'
  BY <1>2 DEF Goto, TypeOK, NoStaleWrite
<1>3. ASSUME NEW r \in Runs, NEW status, End(r, status), UNCHANGED <<file, cnt>>
      PROVE  NoStaleWrite'
  BY <1>3 DEF End, TypeOK, NoStaleWrite
<1>4. ASSUME NEW r \in Runs, Scan(r) PROVE NoStaleWrite'
  <2>1. PICK n \in ScanInt(file, 0) : cnt' = [cnt EXCEPT ![r] = Increment(n)]
    BY <1>4 DEF Scan
  <2>2. \A q \in Runs : /\ cnt'[q] = IF q = r THEN Increment(n) ELSE cnt[q]
                        /\ pc'[q] = IF q = r THEN "write" ELSE pc[q]
    BY <1>4, <2>1 DEF Scan, Goto, TypeOK
  <2>. QED
    BY <1>4, <2>2 DEF Scan, NoStaleWrite
<1>5. ASSUME NEW r \in Runs, Write(r) \/ WriteShort(r) PROVE NoStaleWrite'
  <2>1. \A q \in Runs : pc[q] = "write" => q = r
    BY <1>5 DEF Write, WriteShort, LockInv, InCriticalSection
  <2>2. \A q \in Runs : pc'[q] = IF q = r THEN "unlock" ELSE pc[q]
    BY <1>5 DEF Write, WriteShort, Goto, TypeOK
  <2>. QED
    BY <2>1, <2>2 DEF NoStaleWrite
<1>6. ASSUME NEW r \in Runs, Step(r) PROVE NoStaleWrite'
  BY <1>2, <1>3, <1>4, <1>5, <1>6
  DEF Step, Open, Lock, ScanRejects, Unlock, Close, Locations
<1>7. ASSUME NEW r \in Runs, Fault(r) PROVE NoStaleWrite'
  BY <1>3, <1>5, <1>7
  DEF Fault, CallFails, ScanReadError, FormatFails, Kill
<1>. QED
  BY <1>1, <1>6, <1>7 DEF Next

\* Unless a read error passes for an empty file, no run of 11.c overwrites a
\* count that another run stored after this one read data.txt.
THEOREM NoLostUpdate ==
    ASSUME "read" \notin Faults
    PROVE  Spec => []NoStaleWrite
<1>1. Init => NoStaleWrite
  BY DEF Init, NoStaleWrite
<1>2. Spec => []TypeOK /\ []LockInv
  BY TypeCorrect, LockSafety
<1>. QED
  BY <1>1, <1>2, NoStaleWriteStep, PTL DEF Spec

-----------------------------------------------------------------------------
(* The exit status.  StatusTellsCounted speaks of runs that ended; what    *)
(* makes it true is where the others are: a run is counted from its pwrite *)
(* on, and each failing call has a status of its own.                      *)

BeforeWrite(r) == pc[r] \in {"open", "lock", "scan", "write"}
AfterWrite(r)  == pc[r] \in {"unlock", "close"}

CountedAfterWrite ==
    \A r \in Runs : /\ BeforeWrite(r) => r \notin counted
                    /\ AfterWrite(r) => r \in counted
                    /\ pc[r] # "done" => exit[r] = Running

CountInv == CountedAfterWrite /\ StatusTellsCounted

LEMMA CountInit == Init => CountInv
BY DEF Init, CountInv, CountedAfterWrite, StatusTellsCounted, BeforeWrite, AfterWrite, Running

\* A step that stays on its side of the pwrite.
LEMMA CountGoto ==
    ASSUME TypeOK, CountInv, NEW r \in Runs, NEW to \in Locations \ {"done"}, Goto(r, to),
           pc[r] # "done", UNCHANGED counted,
           to \in {"unlock", "close"} <=> AfterWrite(r)
    PROVE  CountInv'
BY DEF Goto, TypeOK, Locations, CountInv, CountedAfterWrite, StatusTellsCounted,
       BeforeWrite, AfterWrite

\* The end of a run, with a status that fits its side of the pwrite.
LEMMA CountEnd ==
    ASSUME TypeOK, CountInv, NEW r \in Runs, NEW status, End(r, status),
           UNCHANGED counted,
           status \in {0, 6} => r \in counted,
           status \in 1 .. 5 => r \notin counted
    PROVE  CountInv'
BY DEF End, TypeOK, Locations, CountInv, CountedAfterWrite, StatusTellsCounted,
       BeforeWrite, AfterWrite

LEMMA CountStep == TypeOK /\ CountInv /\ [Next]_vars => CountInv'
<1>. SUFFICES ASSUME TypeOK, CountInv, [Next]_vars PROVE CountInv'
  OBVIOUS
<1>. USE DEF BeforeWrite, AfterWrite
<1>1. CASE UNCHANGED vars
  BY <1>1 DEF CountInv, CountedAfterWrite, StatusTellsCounted, vars
<1>2. ASSUME NEW r \in Runs, Open(r) \/ Lock(r) \/ Scan(r) \/ ScanReadError(r) \/ Unlock(r)
      PROVE  CountInv'
  BY <1>2, CountGoto DEF Open, Lock, Scan, ScanReadError, Unlock, Locations
<1>3. ASSUME NEW r \in Runs, Write(r) \/ WriteShort(r) PROVE CountInv'
  <2>1. /\ pc[r] = "write" /\ Goto(r, "unlock")
        /\ counted' = counted \cup {r}
    BY <1>3 DEF Write, WriteShort
  <2>. QED
    BY <2>1 DEF Goto, TypeOK, CountInv, CountedAfterWrite, StatusTellsCounted, Running
<1>4. ASSUME NEW r \in Runs, ScanRejects(r) \/ FormatFails(r) PROVE CountInv'
  <2>1. PICK status \in {3, 4, Killed} : End(r, status)
    BY <1>4 DEF ScanRejects, FormatFails
  <2>2. r \notin counted /\ UNCHANGED counted
    BY <1>4 DEF ScanRejects, FormatFails, CountInv, CountedAfterWrite
  <2>. QED
    BY <2>1, <2>2, CountEnd DEF Killed
<1>5. ASSUME NEW r \in Runs, Close(r) PROVE CountInv'
  BY <1>5, CountEnd DEF Close, CountInv, CountedAfterWrite
<1>6. ASSUME NEW r \in Runs, CallFails(r) PROVE CountInv'
  BY <1>6, CountEnd DEF CallFails, FailureStatus, CountInv, CountedAfterWrite
<1>7. ASSUME NEW r \in Runs, Kill(r) PROVE CountInv'
  BY <1>7, CountEnd DEF Kill, Killed
<1>. QED
  BY <1>1, <1>2, <1>3, <1>4, <1>5, <1>6, <1>7 DEF Next, Step, Fault

\* The exit status of 11.c tells whether the run was counted, whichever calls
\* of whichever runs fail, and however the runs interleave.
THEOREM StatusIsTrue == Spec => []StatusTellsCounted
<1>1. Spec => []CountInv
  BY TypeCorrect, CountInit, CountStep, PTL DEF Spec
<1>. QED
  BY <1>1, PTL DEF CountInv

-----------------------------------------------------------------------------
(* What fscanf("%d") reads from a text that asprintf("%d") wrote. *)

LEMMA Pow10Values ==
    /\ Pow10[1] = 1 /\ Pow10[2] = 10 /\ Pow10[3] = 100 /\ Pow10[4] = 1000 /\ Pow10[5] = 10000
    /\ Pow10[6] = 100000 /\ Pow10[7] = 1000000 /\ Pow10[8] = 10000000
    /\ Pow10[9] = 100000000 /\ Pow10[10] = 1000000000
BY SMT DEF Pow10

\* The powers grow.
LEMMA Pow10Grows ==
    ASSUME NEW i \in 1 .. MaxDigits, NEW j \in 1 .. MaxDigits, i <= j
    PROVE  Pow10[i] <= Pow10[j]
<1>1. i \in {1,2,3,4,5,6,7,8,9,10} /\ j \in {1,2,3,4,5,6,7,8,9,10}
  BY SMT DEF MaxDigits
<1>. QED
  BY <1>1, Pow10Values, SMT

\* Dividing by ten takes the last digit off.
LEMMA LastDigit ==
    ASSUME NEW n \in Nat
    PROVE  \E q \in Nat, d \in Digit : n = 10 * q + d /\ n % 10 = d /\ n \div 10 = q
<1>1. n \div 10 \in Nat /\ n % 10 \in 0 .. 9 /\ n = 10 * (n \div 10) + (n % 10)
  BY SMT
<1>. QED
  BY <1>1 DEF Digit

\* A number is the sum of its digits' values.
LEMMA DigitSum ==
    ASSUME NEW n \in Nat, n <= 2147483647
    PROVE  ((n \div 1) % 10) * 1
             + ((n \div 10) % 10) * 10
             + ((n \div 100) % 10) * 100
             + ((n \div 1000) % 10) * 1000
             + ((n \div 10000) % 10) * 10000
             + ((n \div 100000) % 10) * 100000
             + ((n \div 1000000) % 10) * 1000000
             + ((n \div 10000000) % 10) * 10000000
             + ((n \div 100000000) % 10) * 100000000
             + ((n \div 1000000000) % 10) * 1000000000 = n
<1>1. PICK q1 \in Nat, d1 \in Digit : n = 10 * q1 + d1 /\ n % 10 = d1
  BY LastDigit
<1>2. PICK q2 \in Nat, d2 \in Digit : q1 = 10 * q2 + d2 /\ q1 % 10 = d2
  BY LastDigit
<1>3. PICK q3 \in Nat, d3 \in Digit : q2 = 10 * q3 + d3 /\ q2 % 10 = d3
  BY LastDigit
<1>4. PICK q4 \in Nat, d4 \in Digit : q3 = 10 * q4 + d4 /\ q3 % 10 = d4
  BY LastDigit
<1>5. PICK q5 \in Nat, d5 \in Digit : q4 = 10 * q5 + d5 /\ q4 % 10 = d5
  BY LastDigit
<1>6. PICK q6 \in Nat, d6 \in Digit : q5 = 10 * q6 + d6 /\ q5 % 10 = d6
  BY LastDigit
<1>7. PICK q7 \in Nat, d7 \in Digit : q6 = 10 * q7 + d7 /\ q6 % 10 = d7
  BY LastDigit
<1>8. PICK q8 \in Nat, d8 \in Digit : q7 = 10 * q8 + d8 /\ q7 % 10 = d8
  BY LastDigit
<1>9. PICK q9 \in Nat, d9 \in Digit : q8 = 10 * q9 + d9 /\ q8 % 10 = d9
  BY LastDigit
<1>. USE DEF Digit
<1>10. n \div 10 = q1
  BY <1>1, SMT
<1>11. n \div 100 = q2
  BY <1>1, <1>2, SMT
<1>12. n \div 1000 = q3
  BY <1>1, <1>2, <1>3, SMT
<1>13. n \div 10000 = q4
  BY <1>1, <1>2, <1>3, <1>4, SMT
<1>14. n \div 100000 = q5
  BY <1>1, <1>2, <1>3, <1>4, <1>5, SMT
<1>15. n \div 1000000 = q6
  BY <1>1, <1>2, <1>3, <1>4, <1>5, <1>6, SMT
<1>16. n \div 10000000 = q7
  BY <1>1, <1>2, <1>3, <1>4, <1>5, <1>6, <1>7, SMT
<1>17. n \div 100000000 = q8
  BY <1>1, <1>2, <1>3, <1>4, <1>5, <1>6, <1>7, <1>8, SMT
<1>18. n \div 1000000000 = q9
  BY <1>1, <1>2, <1>3, <1>4, <1>5, <1>6, <1>7, <1>8, <1>9, SMT
<1>19. q9 < 10
  BY <1>1, <1>2, <1>3, <1>4, <1>5, <1>6, <1>7, <1>8, <1>9, SMT
<1>20. (n \div 1000000000) % 10 = q9
  BY <1>18, <1>19, SMT
<1>21. (n \div 1) % 10 = d1
  BY <1>1, SMT
<1>22. /\ (n \div 10) % 10 = d2
       /\ (n \div 100) % 10 = d3
       /\ (n \div 1000) % 10 = d4
       /\ (n \div 10000) % 10 = d5
       /\ (n \div 100000) % 10 = d6
       /\ (n \div 1000000) % 10 = d7
       /\ (n \div 10000000) % 10 = d8
       /\ (n \div 100000000) % 10 = d9
  BY <1>2, <1>3, <1>4, <1>5, <1>6, <1>7, <1>8, <1>9, <1>10, <1>11, <1>12, <1>13, <1>14, <1>15,
     <1>16, <1>17, SMT
<1>23. n = 1 * d1 + 10 * d2 + 100 * d3 + 1000 * d4 + 10000 * d5
             + 100000 * d6 + 1000000 * d7 + 10000000 * d8 + 100000000 * d9 + 1000000000 * q9
  BY <1>1, <1>2, <1>3, <1>4, <1>5, <1>6, <1>7, <1>8, <1>9, SMT
<1>. QED
  BY <1>20, <1>21, <1>22, <1>23, SMT

\* A number never has fewer digits than the one before it.
LEMMA WidthGrows ==
    ASSUME NEW n \in 0 .. IntMax, n + 1 <= IntMax
    PROVE  Width(n) <= Width(n + 1)
<1>1. /\ Width(n) \in 1 .. MaxDigits /\ Width(n + 1) \in 1 .. MaxDigits
      /\ Width(n) = 1 \/ n >= Pow10[Width(n)]
      /\ Width(n + 1) = MaxDigits \/ n + 1 < Pow10[Width(n + 1) + 1]
  <2>1. n \in Nat /\ n <= 2147483648 /\ n + 1 \in Nat /\ n + 1 <= 2147483648
    BY IntMaxAssumption, SMT
  <2>. QED
    BY <2>1, WidthSpec, SMT
<1>2. SUFFICES ASSUME Width(n + 1) < Width(n) PROVE FALSE
  BY <1>1, SMT DEF MaxDigits
<1>3. Width(n + 1) + 1 \in 1 .. MaxDigits /\ Width(n + 1) + 1 <= Width(n)
  BY <1>1, <1>2, SMT DEF MaxDigits
<1>4. Pow10[Width(n + 1) + 1] <= Pow10[Width(n)]
  BY <1>1, <1>3, Pow10Grows
<1>5. Pow10[Width(n + 1) + 1] \in Nat /\ Pow10[Width(n)] \in Nat
  BY <1>1, <1>3, Pow10Type
<1>. QED
  BY <1>1, <1>2, <1>4, <1>5, SMT DEF MaxDigits

\* What asprintf writes, read as a number again.
LEMMA ValueOfText ==
    ASSUME NEW n \in 0 .. IntMax
    PROVE  DigitsValue(DigitsAt(n, Width(n))) = n
<1> DEFINE w == Width(n)
           run == DigitsAt(n, w)
           d(j) == IF j <= Len(run) THEN run[Len(run) + 1 - j] * Pow10[j] ELSE 0
<1>1. /\ w \in 1 .. MaxDigits
      /\ w = MaxDigits \/ n < Pow10[w + 1]
  <2>1. n \in Nat /\ n <= 2147483648
    BY IntMaxAssumption, SMT
  <2>. QED
    BY <2>1, WidthSpec, SMT
<1>. HIDE DEF w
<1>2. Len(run) = w
  BY <1>1 DEF DigitsAt, MaxDigits
<1>3. ASSUME NEW j \in 1 .. MaxDigits, j <= w
      PROVE  d(j) = ((n \div Pow10[j]) % 10) * Pow10[j]
  <2>1. w + 1 - j \in 1 .. w /\ w - (w + 1 - j) + 1 = j
    BY <1>1, <1>3, SMT DEF MaxDigits
  <2>. QED
    BY <1>2, <1>3, <2>1 DEF DigitsAt
<1>4. ASSUME NEW j \in 1 .. MaxDigits, ~(j <= w)
      PROVE  d(j) = 0 /\ n < Pow10[j]
  <2>1. w + 1 \in 1 .. MaxDigits /\ w + 1 <= j
    BY <1>1, <1>4, SMT DEF MaxDigits
  <2>2. Pow10[w + 1] <= Pow10[j] /\ Pow10[w + 1] \in Nat /\ Pow10[j] \in Nat
    BY <2>1, Pow10Grows, Pow10Type
  <2>3. n < Pow10[w + 1]
    BY <1>1, <2>1, SMT DEF MaxDigits
  <2>. QED
    BY <1>2, <1>4, <2>2, <2>3, SMT
<1>. HIDE DEF d
<1>5. 1 .. MaxDigits = {1, 2, 3, 4, 5, 6, 7, 8, 9, 10}
  BY SMT DEF MaxDigits
<1>6. d(1) = ((n \div 1) % 10) * 1
  BY <1>3, <1>4, <1>5, Pow10Values, SMT
<1>7. d(2) = ((n \div 10) % 10) * 10
  BY <1>3, <1>4, <1>5, Pow10Values, SMT
<1>8. d(3) = ((n \div 100) % 10) * 100
  BY <1>3, <1>4, <1>5, Pow10Values, SMT
<1>9. d(4) = ((n \div 1000) % 10) * 1000
  BY <1>3, <1>4, <1>5, Pow10Values, SMT
<1>10. d(5) = ((n \div 10000) % 10) * 10000
  BY <1>3, <1>4, <1>5, Pow10Values, SMT
<1>11. d(6) = ((n \div 100000) % 10) * 100000
  BY <1>3, <1>4, <1>5, Pow10Values, SMT
<1>12. d(7) = ((n \div 1000000) % 10) * 1000000
  BY <1>3, <1>4, <1>5, Pow10Values, SMT
<1>13. d(8) = ((n \div 10000000) % 10) * 10000000
  BY <1>3, <1>4, <1>5, Pow10Values, SMT
<1>14. d(9) = ((n \div 100000000) % 10) * 100000000
  BY <1>3, <1>4, <1>5, Pow10Values, SMT
<1>15. d(10) = ((n \div 1000000000) % 10) * 1000000000
  BY <1>3, <1>4, <1>5, Pow10Values, SMT
<1>16. DigitsValue(run) = d(1) + d(2) + d(3) + d(4) + d(5) + d(6) + d(7) + d(8) + d(9) + d(10)
  BY Zenon DEF DigitsValue, d
<1>17. n \in Nat /\ n <= 2147483647
  BY IntMaxAssumption, SMT
<1>18. DigitsValue(run) = n
  BY <1>6, <1>7, <1>8, <1>9, <1>10, <1>11, <1>12, <1>13, <1>14, <1>15, <1>16,
     <1>17, DigitSum, SMT
<1>. QED
  BY <1>18 DEF w

-----------------------------------------------------------------------------
(* What a run finds in data.txt is what the last one stored there: the     *)
(* text of a number, with no digit after it.                               *)

Text(n) == DigitsAt(n, Width(n))

\* The file holds the number n as 11.c leaves it, or no number yet: whatever
\* follows the text of n, a digit does not.
Holds(s, n) ==
    \/ n = 0 /\ \A k \in 1 .. Len(s) : s[k] = Blank
    \/ /\ Width(n) <= Len(s)
       /\ \A k \in 1 .. Width(n) : s[k] = Text(n)[k]
       /\ \A k \in Width(n) + 1 .. Len(s) : s[k] \notin Digit

LEMMA TextProperties ==
    ASSUME NEW n \in 0 .. IntMax
    PROVE  /\ Width(n) \in 1 .. MaxDigits
           /\ Text(n) \in Seq(Digit)
           /\ Len(Text(n)) = Width(n)
           /\ FormatInt(n) = Text(n)
           /\ DigitsValue(Text(n)) = n
<1>1. n \in Nat /\ n <= 2147483648 /\ ~(n < 0)
  BY IntMaxAssumption, SMT
<1>2. Width(n) \in 1 .. MaxDigits
  BY <1>1, WidthSpec, SMT
<1>3. Text(n) \in Seq(Digit)
  BY <1>1, <1>2, DigitsAtType, SMT DEF Text
<1>4. Len(Text(n)) = Width(n)
  BY <1>2, SMT DEF Text, DigitsAt, MaxDigits
<1>5. FormatInt(n) = Text(n)
  BY <1>1, SMT DEF FormatInt, Text
<1>6. DigitsValue(Text(n)) = n
  BY ValueOfText, Zenon DEF Text
<1>. QED
  BY <1>2, <1>3, <1>4, <1>5, <1>6

\* Where SelectInSeq stops, when it is known.
LEMMA MinIs ==
    ASSUME NEW S \in SUBSET Int, NEW m \in S, \A k \in S : m <= k
    PROVE  Min(S) = m
<1>1. \A x \in S : (\A y \in S : x <= y) => x = m
  BY SMT
<1>. QED
  BY <1>1, Zenon DEF Min

LEMMA SkipBlanksHere ==
    ASSUME NEW s \in Seq(Char), Len(s) > 0, s[1] # Blank
    PROVE  SkipBlanks(s) = s
<1> DEFINE I == {k \in 1 .. Len(s) : s[k] # Blank}
<1>1. I \in SUBSET Int /\ 1 \in I /\ \A k \in I : 1 <= k
  BY SMT
<1>2. Min(I) = 1 /\ I # {}
  BY <1>1, MinIs
<1>3. 1 # 0
  OBVIOUS
<1>4. SkipBlanks(s) = SubSeq(s, 1, Len(s))
  BY <1>2, <1>3, Zenon DEF SkipBlanks, SelectInSeq
<1>. QED
  BY <1>4, SubSeqFull

LEMMA SkipBlanksToEnd ==
    ASSUME NEW s \in Seq(Char), \A k \in 1 .. Len(s) : s[k] = Blank
    PROVE  SkipBlanks(s) = << >>
BY DEF SkipBlanks, SelectInSeq

LEMMA DigitRunHere ==
    ASSUME NEW s \in Seq(Char), NEW w \in 1 .. Len(s),
           \A k \in 1 .. w : s[k] \in Digit,
           \A k \in w + 1 .. Len(s) : s[k] \notin Digit
    PROVE  DigitRun(s) = SubSeq(s, 1, w)
<1> DEFINE I == {k \in 1 .. Len(s) : s[k] \notin Digit}
<1>1. CASE w = Len(s)
  <2>1. I = {}
    BY <1>1
  <2>2. DigitRun(s) = s
    BY <2>1 DEF DigitRun, SelectInSeq
  <2>. QED
    BY <1>1, <2>2, SubSeqFull
<1>2. CASE w < Len(s)
  <2>1. I \in SUBSET Int /\ w + 1 \in I /\ \A k \in I : w + 1 <= k
    BY <1>2, SMT
  <2>2. Min(I) = w + 1 /\ I # {}
    BY <2>1, MinIs
  <2>3. w + 1 # 0 /\ (w + 1) - 1 = w
    BY SMT
  <2>. QED
    BY <2>2, <2>3 DEF DigitRun, SelectInSeq
<1>. QED
  BY <1>1, <1>2

\* fscanf reads the number the file holds, and nothing else.
LEMMA ScanHolds ==
    ASSUME NEW s \in Seq(Char), NEW n \in 0 .. IntMax, Holds(s, n)
    PROVE  ScanInt(s, 0) = {n}
<1>1. CASE n = 0 /\ \A k \in 1 .. Len(s) : s[k] = Blank
  BY <1>1, SkipBlanksToEnd DEF ScanInt
<1>2. CASE /\ Width(n) <= Len(s)
           /\ \A k \in 1 .. Width(n) : s[k] = Text(n)[k]
           /\ \A k \in Width(n) + 1 .. Len(s) : s[k] \notin Digit
  <2> DEFINE w == Width(n)
  <2>1. w \in 1 .. Len(s) /\ w <= MaxDigits /\ Len(Text(n)) = w /\ Text(n) \in Seq(Digit)
    BY <1>2, TextProperties, SMT DEF MaxDigits
  <2>2. \A k \in 1 .. w : s[k] \in Digit
    BY <1>2, <2>1
  <2>. HIDE DEF w
  <2>3. s[1] \in Digit /\ Len(s) > 0
    BY <2>1, <2>2
  <2>4. SkipBlanks(s) = s /\ ~Signed(s)
    BY <2>3, SkipBlanksHere DEF Digit, Blank, Signed, Minus
  <2>5. NumberText(s) = SubSeq(s, 1, w)
    BY <1>2, <2>1, <2>2, <2>4, DigitRunHere DEF NumberText, w
  <2>6. SubSeq(s, 1, w) = Text(n)
    BY <1>2, <2>1 DEF w
  <2>7. DigitsValue(NumberText(s)) = n
    BY <2>5, <2>6, TextProperties
  <2>8. NumberText(s) # << >> /\ Len(NumberText(s)) <= MaxDigits
    BY <2>1, <2>5, <2>6
  <2>9. 1 * n = n /\ n \in CInt
    BY IntMaxAssumption, SMT DEF CInt
  <2>10. s # << >>
    BY <2>3
  <2>. QED
    BY <2>4, <2>7, <2>8, <2>9, <2>10 DEF ScanInt
<1>. QED
  BY <1>1, <1>2 DEF Holds

\* pwrite over a number leaves the next one, because that is no shorter.
LEMMA OverwriteHolds ==
    ASSUME NEW s \in Seq(Char), NEW n \in 0 .. IntMax, n + 1 <= IntMax, Holds(s, n)
    PROVE  Holds(Overwrite(s, FormatInt(n + 1)), n + 1)
<1> DEFINE w == Width(n)
           v == Width(n + 1)
           text == Text(n + 1)
           new == Overwrite(s, text)
<1>1. n + 1 \in 0 .. IntMax
  BY IntMaxAssumption, SMT
<1>2. /\ FormatInt(n + 1) = text /\ text \in Seq(Digit) /\ Len(text) = v
      /\ v \in 1 .. MaxDigits /\ w \in 1 .. MaxDigits
  BY <1>1, TextProperties
<1>3. w <= v
  BY WidthGrows
<1>. HIDE DEF text, w, v
<1>4. \A k \in v + 1 .. Len(s) : s[k] \notin Digit
  <2>1. CASE \A k \in 1 .. Len(s) : s[k] = Blank
    BY <1>2, <2>1 DEF Blank, Digit, MaxDigits
  <2>2. CASE \A k \in w + 1 .. Len(s) : s[k] \notin Digit
    BY <1>2, <1>3, <2>2 DEF MaxDigits
  <2>. QED
    BY <2>1, <2>2 DEF Holds, w
<1>5. /\ Len(new) = IF v > Len(s) THEN v ELSE Len(s)
      /\ \A k \in 1 .. Len(new) : new[k] = IF k <= v THEN text[k] ELSE s[k]
  BY <1>2 DEF Overwrite, MaxDigits
<1>. HIDE DEF new
<1>6. v <= Len(new) /\ \A k \in 1 .. v : new[k] = text[k]
  BY <1>2, <1>5 DEF MaxDigits
<1>7. \A k \in v + 1 .. Len(new) : new[k] \notin Digit
  BY <1>2, <1>4, <1>5 DEF MaxDigits
<1>. QED
  BY <1>2, <1>6, <1>7 DEF Holds, new, text, v

-----------------------------------------------------------------------------
(* 11.c implements the indivisible counter.  The abstract number is what   *)
(* fscanf would read; HoldsNumber says that it can be read, and that the   *)
(* runs still to be counted cannot take it past INT_MAX.                   *)

HoldsNumber ==
    \/ ScanInt(file, 0) = {}
    \/ \E n \in 0 .. IntMax : /\ Holds(file, n)
                              /\ n + Cardinality(Runs \ counted) <= IntMax

\* data.txt before the first run: no number, or one as 11.c writes it that has
\* room for every run.
PlainStart ==
    \A s \in InitialFiles :
        \/ ScanInt(s, 0) = {}
        \/ \E n \in 0 .. IntMax : Holds(s, n) /\ n + Cardinality(Runs) <= IntMax

NumberInv == TypeOK /\ LockInv /\ NoStaleWrite /\ CountInv /\ HoldsNumber

LEMMA NumberOf ==
    ASSUME NEW s \in Seq(Char), NEW n, ScanInt(s, 0) = {n}
    PROVE  Number[s] = n
BY DEF Number

LEMMA NumberInit ==
    ASSUME PlainStart
    PROVE  Init => HoldsNumber /\ Abstract!Init
<1>. SUFFICES ASSUME Init PROVE HoldsNumber /\ Abstract!Init
  OBVIOUS
<1>1. file \in InitialFiles /\ counted = {} /\ Runs \ counted = Runs
  BY DEF Init
<1>2. HoldsNumber
  BY <1>1 DEF PlainStart, HoldsNumber
<1>3. Number[file] \in Int
  <2>1. ScanInt(file, 0) \subseteq Int
    BY ScanIntType, IntMaxAssumption, SMT DEF CInt
  <2>2. Number[file] = IF ScanInt(file, 0) = {} THEN 0 ELSE CHOOSE n \in ScanInt(file, 0) : TRUE
    BY <1>1, FilesAssumption DEF Number
  <2>. QED
    BY <2>1, <2>2
<1>. QED
  BY <1>1, <1>2, <1>3 DEF Abstract!Init

\* The pwrite of a run is one step of the abstract counter.
LEMMA WriteCounts ==
    ASSUME NumberInv, IsFiniteSet(Runs), NEW r \in Runs, Write(r)
    PROVE  HoldsNumber' /\ Abstract!Count(r)
<1>1. /\ pc[r] = "write" /\ file \in Seq(Char) /\ r \notin counted
      /\ counted' = counted \cup {r}
      /\ file' = Overwrite(file, FormatInt(cnt[r]))
  BY DEF NumberInv, TypeOK, CountInv, CountedAfterWrite, BeforeWrite, Write
<1>2. PICK m \in ScanInt(file, 0) : cnt[r] = Increment(m)
  BY <1>1 DEF NumberInv, NoStaleWrite
<1>3. PICK n \in 0 .. IntMax : /\ Holds(file, n)
                               /\ n + Cardinality(Runs \ counted) <= IntMax
  BY <1>2 DEF NumberInv, HoldsNumber
<1>4. ScanInt(file, 0) = {n} /\ m = n
  BY <1>1, <1>2, <1>3, ScanHolds
<1>5. /\ Cardinality(Runs \ counted') = Cardinality(Runs \ counted) - 1
      /\ Cardinality(Runs \ counted) \in Nat /\ Cardinality(Runs \ counted') \in Nat
  <2>1. IsFiniteSet(Runs \ counted) /\ r \in Runs \ counted
    BY <1>1, FS_Difference
  <2>2. Runs \ counted' = (Runs \ counted) \ {r}
    BY <1>1
  <2>. QED
    BY <2>1, <2>2, FS_RemoveElement, FS_CardinalityType
<1>6. /\ n + 1 \in 0 .. IntMax /\ n + 1 <= IntMax
      /\ n + 1 + Cardinality(Runs \ counted') <= IntMax
  BY <1>3, <1>5, IntMaxAssumption, SMT
<1>7. cnt[r] = n + 1
  BY <1>2, <1>4, <1>6, SMT DEF Increment
<1>8. file' \in Seq(Char)
  <2>1. cnt[r] \in CInt
    BY DEF NumberInv, TypeOK
  <2>. QED
    BY <1>1, <2>1, FormatIntType, OverwriteType
<1>9. Holds(file', n + 1)
  BY <1>1, <1>3, <1>6, <1>7, OverwriteHolds
<1>10. HoldsNumber'
  BY <1>6, <1>9 DEF HoldsNumber
<1>11. Number[file] = n /\ Number[file'] = n + 1
  BY <1>1, <1>4, <1>6, <1>8, <1>9, ScanHolds, NumberOf
<1>. QED
  BY <1>1, <1>10, <1>11 DEF Abstract!Count

\* Every other step leaves the number and the counted runs alone.
LEMMA NumberStep ==
    ASSUME "short" \notin Faults, IsFiniteSet(Runs)
    PROVE  NumberInv /\ [Next]_vars => HoldsNumber' /\ [Abstract!Next]_(Abstract!vars)
<1>. SUFFICES ASSUME NumberInv, [Next]_vars
              PROVE  HoldsNumber' /\ [Abstract!Next]_(Abstract!vars)
  OBVIOUS
<1>1. CASE UNCHANGED <<file, counted>>
  BY <1>1 DEF NumberInv, HoldsNumber, Abstract!vars
<1>2. ASSUME NEW r \in Runs, Write(r)
      PROVE  HoldsNumber' /\ [Abstract!Next]_(Abstract!vars)
  BY <1>2, WriteCounts DEF Abstract!Next
<1>. QED
  BY <1>1, <1>2
  DEF vars, Next, Step, Fault, Open, Lock, Scan, ScanRejects, Unlock, Close, CallFails,
      ScanReadError, FormatFails, WriteShort, Kill

\* Any number of runs of 11.c at once, failing and killed at any call but for
\* a read error and a short pwrite, count as one indivisible counter would:
\* data.txt, read as a number, goes up by exactly one with each run that is
\* counted, and by nothing else.
THEOREM CounterIsAtomic ==
    ASSUME "read" \notin Faults, "short" \notin Faults, IsFiniteSet(Runs), PlainStart
    PROVE  Spec => CountsItsRuns
<1>1. Spec => []TypeOK /\ []LockInv /\ []NoStaleWrite
  BY TypeCorrect, LockSafety, NoLostUpdate
<1>2. Spec => []CountInv
  BY TypeCorrect, CountInit, CountStep, PTL DEF Spec
<1>3. NumberInv /\ [Next]_vars => HoldsNumber' /\ [Abstract!Next]_(Abstract!vars)
  BY NumberStep
<1>4. Init => HoldsNumber /\ Abstract!Init
  BY NumberInit
<1>5. TypeOK /\ LockInv /\ NoStaleWrite /\ CountInv /\ HoldsNumber <=> NumberInv
  BY DEF NumberInv
<1>. QED
  BY <1>1, <1>2, <1>3, <1>4, <1>5, PTL DEF Spec, CountsItsRuns, Abstract!Spec
=============================================================================
