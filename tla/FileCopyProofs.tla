---------------------------- MODULE FileCopyProofs ----------------------------
(***************************************************************************)
(* Proofs about FileCopy for any of the eight programs, any contents of    *)
(* the two files, any permissions, any size of a read and any faults.      *)
(***************************************************************************)
EXTENDS FileCopy, SequenceTheorems, TLAPS

-----------------------------------------------------------------------------
(* The inductive invariant. *)

Source == original["src"]

\* The phases of a copy: before the output is opened and emptied, before the
\* loop of reads and writes, the loop, and after it.
Unopened  == {"lookup", "open_in", "open_out"} \cup (IF prog = "7.1" THEN {"stat"} ELSE {})
Opened    == IF prog = "7.1" THEN {"fchmod"} ELSE {"malloc"}
Loop      == {"read", "write"}
Finishing == {"fsync", "futimens", "lchown", "close_in", "close_out"}
                \cup (IF prog = "7.1" THEN {} ELSE {"stat", "fchmod"})

Calls == ToSet(Program[prog].calls) \cup {"write"}

\* What the type invariant does not say of the control: each program is at one
\* of its calls, and ends with a status of its own.
Control ==
    /\ pc \in Calls
    /\ prog \in Writers \cup {"7.1"} => out = "dst"
    /\ pc # "done" => exit = Running

\* Until the output is opened it is as it was, then empty; nothing is read.
Untouched ==
    /\ pc \in Unopened => file[out] = original[out]
    /\ pc \in Opened => file[out] = << >>
    /\ pc \in Unopened \cup Opened =>
           /\ in_off = 0 /\ out_off = 0 /\ bytes_written = 0
           /\ data = (IF prog \in Writers THEN Source ELSE << >>)

\* A source named as the output too is empty when the loop starts: nothing is
\* read from it.
SelfCopy ==
    out = "src" =>
        /\ pc \in Loop => in_off = 0 /\ pc # "write"
        /\ pc \in Loop \cup Finishing => file["src"] = << >>
        /\ file["src"] \in {Source, << >>}

\* The output grows at its end.  Without this WriteAt would leave a hole, or
\* overwrite what it wrote before.
AtEnd == pc \in Loop => out_off = Len(file[out])

\* f holds the first bytes of the source.
Begins(f) ==
    /\ Len(f) <= Len(Source)
    /\ \A i \in 1 .. Len(f) : f[i] = Source[i]

Whole(f) == Begins(f) /\ Len(f) = Len(Source)

\* data are the bytes of the source from where it was read, and the output
\* holds those of them that are written.
DataIsNext ==
    /\ bytes_written <= out_off
    /\ out_off - bytes_written + Len(data) <= Len(Source)
    /\ \A i \in 1 .. Len(data) : data[i] = Source[out_off - bytes_written + i]

\* The programs that use write_all.
Copying ==
    prog # "03.2" /\ out = "dst" =>
        /\ pc \in Loop => Begins(file["dst"])
        /\ pc = "read" => prog \notin Writers /\ in_off = out_off
        /\ pc = "write" =>
               /\ bytes_written < Len(data) /\ DataIsNext
               /\ prog \notin Writers => in_off = out_off - bytes_written + Len(data)
               /\ prog \in Writers => Len(Source) = out_off - bytes_written + Len(data)
        /\ pc \in Finishing => Begins(file["dst"]) /\ (result = 0 => Whole(file["dst"]))
        /\ pc = "done" => /\ file["dst"] = original["dst"] \/ Begins(file["dst"])
                          /\ exit = 0 => Whole(file["dst"])

CopyInv == TypeOK /\ Control /\ SourceKept /\ Untouched /\ SelfCopy /\ AtEnd /\ Copying

\* The attributes, for the programs that copy all of them.
ModeCopied  == sb_src.mode # "4755" => attr[out].mode = sb_src.mode
TimesCopied == attr[out].times = sb_src.times
OwnerCopied == attr[out].owner = sb_src.owner

\* 7.1 asks for the attributes first, sets the mode before the loop, whose
\* writes can only take the set-user-ID bit away, and the times after it.
Attributes7_1 ==
    /\ pc \notin {"open_in", "stat", "done"} => sb_src = attr["src"]
    /\ pc \in Loop \cup Finishing => ModeCopied
    /\ pc \in {"close_in", "close_out"} /\ result = 0 => TimesCopied
    /\ pc = "done" /\ exit = 0 => sb_src = attr["src"] /\ ModeCopied /\ TimesCopied

\* 05 copies them at the end.  When stat failed, sb_src holds what no stat
\* returned; the owner tells.
Attributes05 ==
    /\ pc \notin {"fchmod", "futimens", "lchown", "close_out", "done"} => sb_src.owner = "caller"
    /\ pc \in {"fchmod", "futimens", "lchown"} => sb_src = attr["src"]
    /\ pc \in {"futimens", "lchown"} => ModeCopied
    /\ pc = "lchown" => TimesCopied
    /\ pc = "close_out" \/ (pc = "done" /\ exit = 0) =>
           sb_src.owner = "caller" \/ (ModeCopied /\ TimesCopied /\ OwnerCopied)
    /\ result = 0

AttributesInv ==
    out = "dst" =>
        /\ attr["src"].owner = "author"
        /\ prog = "7.1" => Attributes7_1
        /\ prog = "05" => Attributes05

-----------------------------------------------------------------------------
(* The order of the calls of each program. *)

LEMMA FollowingInOrder ==
    ASSUME NEW calls, calls = Program[prog].calls, NEW n \in Nat, Len(calls) = n,
           \A i, j \in 1 .. n : calls[i] = calls[j] => i = j
    PROVE  \A i \in 1 .. n : Following(calls[i]) = calls[i + 1]
<1>. SUFFICES ASSUME NEW i \in 1 .. n PROVE Following(calls[i]) = calls[i + 1]
  OBVIOUS
<1> DEFINE I == {j \in 1 .. Len(calls) : calls[j] = calls[i]}
<1>1. I = {i}
  OBVIOUS
<1>2. Min(I) = i
  <2>1. \A x \in {i} : \A y \in {i} : x <= y
    OBVIOUS
  <2>. QED
    BY <1>1, <2>1 DEF Min
<1>3. SelectInSeq(calls, LAMBDA c : c = calls[i]) = i
  BY <1>1, <1>2 DEF SelectInSeq
<1>. QED
  BY <1>3 DEF Following

LEMMA Order03 ==
    ASSUME prog = "03"
    PROVE  /\ Head(Program[prog].calls) = "open_in"
           /\ Following("open_in") = "open_out" /\ Following("open_out") = "malloc"
           /\ Following("malloc") = "read" /\ Following("read") = "close_in"
           /\ Following("close_in") = "close_out" /\ Following("close_out") = "done"
           /\ ToSet(Program[prog].calls) =
                  {"open_in", "open_out", "malloc", "read", "close_in", "close_out",
                   "done"}
<1>1. PICK c : c = Program[prog].calls
  OBVIOUS
<1>2. c = <<"open_in", "open_out", "malloc", "read", "close_in", "close_out", "done">>
  BY <1>1 DEF Program, P03
<1>3. Len(c) = 7 /\ \A i, j \in 1 .. 7 : c[i] = c[j] => i = j
  BY <1>2
<1>4. \A i \in 1 .. 7 : Following(c[i]) = c[i + 1]
  BY <1>1, <1>3, 7 \in Nat, FollowingInOrder
<1>5. ToSet(c) = {c[i] : i \in 1 .. 7}
  BY <1>2 DEF ToSet
<1>6. Head(c) = c[1]
  BY <1>2
<1>. QED
  BY <1>1, <1>2, <1>4, <1>5, <1>6

LEMMA Order03_2 ==
    ASSUME prog = "03.2"
    PROVE  /\ Head(Program[prog].calls) = "lookup"
           /\ Following("lookup") = "open_in" /\ Following("open_in") = "open_out"
           /\ Following("open_out") = "read" /\ Following("read") = "close_in"
           /\ Following("close_in") = "close_out" /\ Following("close_out") = "done"
           /\ ToSet(Program[prog].calls) =
                  {"lookup", "open_in", "open_out", "read", "close_in", "close_out",
                   "done"}
<1>1. PICK c : c = Program[prog].calls
  OBVIOUS
<1>2. c = <<"lookup", "open_in", "open_out", "read", "close_in", "close_out", "done">>
  BY <1>1 DEF Program, P03_2
<1>3. Len(c) = 7 /\ \A i, j \in 1 .. 7 : c[i] = c[j] => i = j
  BY <1>2
<1>4. \A i \in 1 .. 7 : Following(c[i]) = c[i + 1]
  BY <1>1, <1>3, 7 \in Nat, FollowingInOrder
<1>5. ToSet(c) = {c[i] : i \in 1 .. 7}
  BY <1>2 DEF ToSet
<1>6. Head(c) = c[1]
  BY <1>2
<1>. QED
  BY <1>1, <1>2, <1>4, <1>5, <1>6

LEMMA Order04 ==
    ASSUME prog = "04"
    PROVE  /\ Head(Program[prog].calls) = "open_in"
           /\ Following("open_in") = "open_out" /\ Following("open_out") = "malloc"
           /\ Following("malloc") = "read" /\ Following("read") = "close_in"
           /\ Following("close_in") = "stat" /\ Following("stat") = "fchmod"
           /\ Following("fchmod") = "futimens" /\ Following("futimens") = "close_out"
           /\ Following("close_out") = "done"
           /\ ToSet(Program[prog].calls) =
                  {"open_in", "open_out", "malloc", "read", "close_in", "stat",
                   "fchmod", "futimens", "close_out", "done"}
<1>1. PICK c : c = Program[prog].calls
  OBVIOUS
<1>2. c = <<"open_in", "open_out", "malloc", "read", "close_in", "stat", "fchmod",
           "futimens", "close_out", "done">>
  BY <1>1 DEF Program, P04
<1>3. Len(c) = 10 /\ \A i, j \in 1 .. 10 : c[i] = c[j] => i = j
  BY <1>2
<1>4. \A i \in 1 .. 10 : Following(c[i]) = c[i + 1]
  BY <1>1, <1>3, 10 \in Nat, FollowingInOrder
<1>5. ToSet(c) = {c[i] : i \in 1 .. 10}
  BY <1>2 DEF ToSet
<1>6. Head(c) = c[1]
  BY <1>2
<1>. QED
  BY <1>1, <1>2, <1>4, <1>5, <1>6

LEMMA Order05 ==
    ASSUME prog = "05"
    PROVE  /\ Head(Program[prog].calls) = "open_in"
           /\ Following("open_in") = "open_out" /\ Following("open_out") = "malloc"
           /\ Following("malloc") = "read" /\ Following("read") = "close_in"
           /\ Following("close_in") = "stat" /\ Following("stat") = "fchmod"
           /\ Following("fchmod") = "futimens" /\ Following("futimens") = "lchown"
           /\ Following("lchown") = "close_out" /\ Following("close_out") = "done"
           /\ ToSet(Program[prog].calls) =
                  {"open_in", "open_out", "malloc", "read", "close_in", "stat",
                   "fchmod", "futimens", "lchown", "close_out", "done"}
<1>1. PICK c : c = Program[prog].calls
  OBVIOUS
<1>2. c = <<"open_in", "open_out", "malloc", "read", "close_in", "stat", "fchmod",
           "futimens", "lchown", "close_out", "done">>
  BY <1>1 DEF Program, P05
<1>3. Len(c) = 11 /\ \A i, j \in 1 .. 11 : c[i] = c[j] => i = j
  BY <1>2
<1>4. \A i \in 1 .. 11 : Following(c[i]) = c[i + 1]
  BY <1>1, <1>3, 11 \in Nat, FollowingInOrder
<1>5. ToSet(c) = {c[i] : i \in 1 .. 11}
  BY <1>2 DEF ToSet
<1>6. Head(c) = c[1]
  BY <1>2
<1>. QED
  BY <1>1, <1>2, <1>4, <1>5, <1>6

LEMMA Order3star ==
    ASSUME prog = "3*"
    PROVE  /\ Head(Program[prog].calls) = "lookup"
           /\ Following("lookup") = "open_in" /\ Following("open_in") = "open_out"
           /\ Following("open_out") = "malloc" /\ Following("malloc") = "read"
           /\ Following("read") = "close_in" /\ Following("close_in") = "close_out"
           /\ Following("close_out") = "done"
           /\ ToSet(Program[prog].calls) =
                  {"lookup", "open_in", "open_out", "malloc", "read", "close_in",
                   "close_out", "done"}
<1>1. PICK c : c = Program[prog].calls
  OBVIOUS
<1>2. c = <<"lookup", "open_in", "open_out", "malloc", "read", "close_in", "close_out",
           "done">>
  BY <1>1 DEF Program, P3_star
<1>3. Len(c) = 8 /\ \A i, j \in 1 .. 8 : c[i] = c[j] => i = j
  BY <1>2
<1>4. \A i \in 1 .. 8 : Following(c[i]) = c[i + 1]
  BY <1>1, <1>3, 8 \in Nat, FollowingInOrder
<1>5. ToSet(c) = {c[i] : i \in 1 .. 8}
  BY <1>2 DEF ToSet
<1>6. Head(c) = c[1]
  BY <1>2
<1>. QED
  BY <1>1, <1>2, <1>4, <1>5, <1>6

LEMMA Order7_1 ==
    ASSUME prog = "7.1"
    PROVE  /\ Head(Program[prog].calls) = "open_in"
           /\ Following("open_in") = "stat" /\ Following("stat") = "open_out"
           /\ Following("open_out") = "fchmod" /\ Following("fchmod") = "read"
           /\ Following("read") = "fsync" /\ Following("fsync") = "futimens"
           /\ Following("futimens") = "close_in" /\ Following("close_in") = "close_out"
           /\ Following("close_out") = "done"
           /\ ToSet(Program[prog].calls) =
                  {"open_in", "stat", "open_out", "fchmod", "read", "fsync", "futimens",
                   "close_in", "close_out", "done"}
<1>1. PICK c : c = Program[prog].calls
  OBVIOUS
<1>2. c = <<"open_in", "stat", "open_out", "fchmod", "read", "fsync", "futimens",
           "close_in", "close_out", "done">>
  BY <1>1 DEF Program, P7_1
<1>3. Len(c) = 10 /\ \A i, j \in 1 .. 10 : c[i] = c[j] => i = j
  BY <1>2
<1>4. \A i \in 1 .. 10 : Following(c[i]) = c[i + 1]
  BY <1>1, <1>3, 10 \in Nat, FollowingInOrder
<1>5. ToSet(c) = {c[i] : i \in 1 .. 10}
  BY <1>2 DEF ToSet
<1>6. Head(c) = c[1]
  BY <1>2
<1>. QED
  BY <1>1, <1>2, <1>4, <1>5, <1>6

LEMMA Order02 ==
    ASSUME prog \in Writers
    PROVE  /\ Head(Program[prog].calls) = "open_out"
           /\ Following("open_out") = "write" /\ Following("write") = "close_out"
           /\ Following("close_out") = "done"
           /\ ToSet(Program[prog].calls) = {"open_out", "write", "close_out", "done"}
<1>1. PICK c : c = Program[prog].calls
  OBVIOUS
<1>2. c = <<"open_out", "write", "close_out", "done">>
  BY <1>1 DEF Program, P02_1, P02_2, Writers
<1>3. Len(c) = 4 /\ \A i, j \in 1 .. 4 : c[i] = c[j] => i = j
  BY <1>2
<1>4. \A i \in 1 .. 4 : Following(c[i]) = c[i + 1]
  BY <1>1, <1>3, 4 \in Nat, FollowingInOrder
<1>5. ToSet(c) = {c[i] : i \in 1 .. 4}
  BY <1>2 DEF ToSet
<1>6. Head(c) = c[1]
  BY <1>2
<1>. QED
  BY <1>1, <1>2, <1>4, <1>5, <1>6

LEMMA SomeProgram ==
    ASSUME prog \in Programs
    PROVE  prog \in {"03", "03.2", "04", "05", "3*", "7.1"} \cup Writers
BY ProgramsAssumption DEF Program

\* What the proofs need of all this: a copying program goes from phase to phase.
LEMMA NextPhase ==
    ASSUME prog \in Programs, prog \notin Writers, NEW call \in Calls, call # "done"
    PROVE  /\ call \in Unopened \cup Opened \cup Loop \cup Finishing
           /\ call # "write" => After(call) \in Calls
           /\ call \in Unopened \ {"open_out"} => After(call) \in Unopened
           /\ call = "open_out" => After(call) \in Opened \cup {"read"}
           /\ call \in Opened => After(call) = "read"
           /\ call = "read" => After(call) \in Finishing
           /\ call \in Finishing => After(call) \in Finishing \cup {"done"}
           /\ {"read", "close_in", "close_out"} \subseteq Calls
<1>. USE DEF Calls, Unopened, Opened, Loop, Finishing, After
<1>1. CASE prog = "03"
  BY <1>1, Order03
<1>2. CASE prog = "03.2"
  BY <1>2, Order03_2
<1>3. CASE prog = "04"
  BY <1>3, Order04
<1>4. CASE prog = "05"
  BY <1>4, Order05
<1>5. CASE prog = "3*"
  BY <1>5, Order3star
<1>6. CASE prog = "7.1"
  BY <1>6, Order7_1
<1>. QED
  BY <1>1, <1>2, <1>3, <1>4, <1>5, <1>6, SomeProgram

\* A writing program skips the loop when there is nothing to write.
LEMMA NextWriterPhase ==
    ASSUME prog \in Writers
    PROVE  /\ Calls = {"open_out", "write", "close_out", "done"}
           /\ After("open_out") = IF data = << >> THEN "close_out" ELSE "write"
           /\ After("write") = "close_out" /\ After("close_out") = "done"
BY Order02 DEF Calls, After

LEMMA FailureStatuses ==
    ASSUME prog \in Programs, NEW call \in DOMAIN Program[prog].fails
    PROVE  Program[prog].fails[call] \in 1 .. 8 \cup {255}
<1>1. CASE prog = "03"
  BY <1>1 DEF Program, P03
<1>2. CASE prog = "03.2"
  BY <1>2 DEF Program, P03_2
<1>3. CASE prog = "04"
  BY <1>3 DEF Program, P04
<1>4. CASE prog = "05"
  BY <1>4 DEF Program, P05
<1>5. CASE prog = "3*"
  BY <1>5 DEF Program, P3_star
<1>6. CASE prog = "7.1"
  BY <1>6 DEF Program, P7_1
<1>7. CASE prog \in Writers
  BY <1>7 DEF Program, Writers, P02_1, P02_2
<1>. QED
  BY <1>1, <1>2, <1>3, <1>4, <1>5, <1>6, <1>7, SomeProgram

-----------------------------------------------------------------------------
(* What a write does to a file, and to its attributes. *)

LEMMA WriteAtEnd ==
    ASSUME NEW S, NEW f \in Seq(S), NEW b \in Seq(S)
    PROVE  /\ WriteAt(f, Len(f), b) \in Seq(S)
           /\ Len(WriteAt(f, Len(f), b)) = Len(f) + Len(b)
           /\ \A i \in 1 .. Len(f) : WriteAt(f, Len(f), b)[i] = f[i]
           /\ \A i \in 1 .. Len(b) : WriteAt(f, Len(f), b)[Len(f) + i] = b[i]
<1> DEFINE n == Len(f) + Len(b)
           g == [i \in 1 .. n |-> IF i > Len(f) /\ i <= n THEN b[i - Len(f)] ELSE f[i]]
<1>1. Len(f) \in Nat /\ Len(b) \in Nat /\ n \in Nat
  OBVIOUS
<1>2. Max({Len(f), n}) = n
  <2>1. n \in {Len(f), n} /\ \A y \in {Len(f), n} : n >= y
    BY <1>1
  <2>2. \A x \in {Len(f), n} : (\A y \in {Len(f), n} : x >= y) => x = n
    BY <1>1
  <2>. QED
    BY <2>1, <2>2 DEF Max
<1>3. WriteAt(f, Len(f), b) = g
  BY <1>2 DEF WriteAt
<1>4. \A i \in 1 .. n : g[i] \in S
  BY <1>1
<1>5. g \in Seq(S) /\ Len(g) = n
  BY <1>1, <1>4
<1>. QED
  BY <1>1, <1>3, <1>5

LEMMA SetuidCleared == \A m \in Mode : ClearSetuid(m) \in Mode
BY DEF Mode, ClearSetuid

\* Whatever the file, only its own attributes change.
LEMMA TouchTypes ==
    ASSUME TypeOK, Touch
    PROVE  /\ attr' \in [Inodes -> Attributes]
           /\ \A f \in Inodes \ {out} : attr'[f] = attr[f]
           /\ attr'[out].owner = attr[out].owner
           /\ attr'[out].mode \in {attr[out].mode, ClearSetuid(attr[out].mode)}
<1>1. PICK m \in {attr[out].mode, ClearSetuid(attr[out].mode)} :
          attr' = [attr EXCEPT ![out] = [attr[out] EXCEPT !.times = "now", !.mode = m]]
  BY DEF Touch
<1>2. out \in Inodes /\ attr \in [Inodes -> Attributes]
  BY OutputsAssumption DEF TypeOK, Inodes
<1>3. attr[out].mode \in Mode /\ m \in Mode
  BY <1>2, SetuidCleared DEF Attributes
<1>. QED
  BY <1>1, <1>2, <1>3 DEF Attributes

LEMMA SetAttributeTypes ==
    ASSUME TypeOK, SetAttribute
    PROVE  /\ attr' \in [Inodes -> Attributes]
           /\ \A f \in Inodes \ {out} : attr'[f] = attr[f]
<1>1. out \in Inodes /\ attr \in [Inodes -> Attributes] /\ sb_src \in Attributes
  BY OutputsAssumption DEF TypeOK, Inodes
<1>2. ClearSetuid(attr[out].mode) \in Mode
  BY <1>1, SetuidCleared DEF Attributes
<1>. QED
  BY <1>1, <1>2 DEF SetAttribute, Attributes

-----------------------------------------------------------------------------
(* The initial states. *)

LEMMA CallsAreLocations ==
    ASSUME prog \in Programs PROVE Calls \subseteq Locations
<1>1. prog \in DOMAIN Program
  BY ProgramsAssumption
<1>2. ToSet(Program[prog].calls) \in {ToSet(Program[p].calls) : p \in DOMAIN Program}
  BY <1>1
<1>. QED
  BY <1>2 DEF Calls, Locations

LEMMA FirstCall ==
    ASSUME prog \in Programs
    PROVE  Head(Program[prog].calls) \in Calls \cap Unopened
<1>. USE DEF Calls, Unopened
<1>1. CASE prog = "03"
  BY <1>1, Order03
<1>2. CASE prog = "03.2"
  BY <1>2, Order03_2
<1>3. CASE prog = "04"
  BY <1>3, Order04
<1>4. CASE prog = "05"
  BY <1>4, Order05
<1>5. CASE prog = "3*"
  BY <1>5, Order3star
<1>6. CASE prog = "7.1"
  BY <1>6, Order7_1
<1>7. CASE prog \in Writers
  BY <1>7, Order02
<1>. QED
  BY <1>1, <1>2, <1>3, <1>4, <1>5, <1>6, <1>7, SomeProgram

\* The phases have no call in common.
LEMMA PhasesApart ==
    /\ Unopened \cap Opened = {} /\ Unopened \cap Loop = {} /\ Opened \cap Loop = {}
    /\ Finishing \cap (Unopened \cup Opened \cup Loop) = {}
    /\ "done" \notin Unopened \cup Opened \cup Loop \cup Finishing
    /\ {"open_in", "open_out", "lookup"} \subseteq Unopened
    /\ {"close_in", "close_out"} \subseteq Finishing
BY DEF Unopened, Opened, Loop, Finishing

LEMMA ContentsAreSeqs ==
    ASSUME TypeOK
    PROVE  /\ Source \in Seq(Byte) /\ original["dst"] \in Seq(Byte)
           /\ file["src"] \in Seq(Byte) /\ file["dst"] \in Seq(Byte)
           /\ file \in [Inodes -> Seq(Byte)] /\ out \in Inodes
           /\ data \in Seq(Byte) /\ in_off \in Nat /\ out_off \in Nat /\ bytes_written \in Nat
BY ContentsAssumption, OutputsAssumption DEF TypeOK, Source, Inodes

LEMMA InvInit == Init => CopyInv
<1>. SUFFICES ASSUME Init PROVE CopyInv
  OBVIOUS
<1>1. /\ prog \in Programs /\ out \in Outputs /\ out \in Inodes
      /\ original \in [Inodes -> Contents] /\ file = original
      /\ original["src"] \in Seq(Byte)
  BY ContentsAssumption, OutputsAssumption DEF Init, Inodes
<1>2. pc \in Calls /\ pc \in Unopened /\ pc \in Locations
  BY <1>1, FirstCall, CallsAreLocations DEF Init
<1>3. attr \in [Inodes -> Attributes] /\ attr["src"].times = "before"
  <2>1. PICK m \in Modes :
            attr = [src |-> [mode |-> m, times |-> "before", owner |-> "author"],
                    dst |-> [mode |-> "0644", times |-> "before", owner |-> "caller"]]
    BY DEF Init
  <2>2. m \in Mode /\ "0644" \in Mode
    BY DEF Mode
  <2>. QED
    BY <2>1, <2>2 DEF Inodes, Attributes
<1>4. TypeOK
  <2>1. << >> \in Seq(Byte) /\ Len(<< >>) <= Chunk
    BY ChunkAssumption
  <2>2. data \in Seq(Byte) /\ (Len(data) <= Chunk \/ prog \in Writers)
    BY <1>1, <2>1 DEF Init
  <2>3. sb_src \in Attributes
    BY <1>3 DEF Init, Inodes
  <2>4. file \in [Inodes -> Seq(Byte)]
    BY <1>1, ContentsAssumption
  <2>. QED
    BY <1>1, <1>2, <1>3, <2>2, <2>3, <2>4 DEF Init, TypeOK, Running
<1>5. Control
  BY <1>2 DEF Init, Control
<1>6. pc \notin Opened \cup Loop \cup Finishing /\ pc # "read" /\ pc # "write" /\ pc # "done"
  BY <1>2, PhasesApart DEF Loop
<1>7. SourceKept /\ SelfCopy
  BY <1>1, <1>3, <1>6 DEF SourceKept, SelfCopy, Source
<1>8. Untouched
  BY <1>1, <1>6 DEF Init, Untouched, Source
<1>9. AtEnd /\ Copying
  BY <1>6 DEF AtEnd, Copying
<1>. QED
  BY <1>4, <1>5, <1>7, <1>8, <1>9 DEF CopyInv

-----------------------------------------------------------------------------
(* Steps that touch neither file nor offsets. *)

LEMMA EveryProgramEnds ==
    ASSUME prog \in Programs PROVE "done" \in Calls
BY SomeProgram, Order03, Order03_2, Order04, Order05, Order3star, Order7_1, Order02 DEF Calls

\* The process ends early, with a status that is not 0.
LEMMA FailStep ==
    ASSUME CopyInv, NEW status \in {Killed, 255} \cup 1 .. 8, End(status),
           UNCHANGED <<args, file, attr, transferVars, sb_src>>
    PROVE  CopyInv'
<1>1. /\ pc' = "done" /\ exit' = status /\ exit' # 0 /\ open' = {} /\ result' = result
      /\ prog' = prog /\ out' = out /\ original' = original /\ file' = file /\ attr' = attr
      /\ in_off' = in_off /\ out_off' = out_off /\ data' = data
      /\ bytes_written' = bytes_written /\ sb_src' = sb_src
  BY DEF End, args, transferVars, Killed
<1>2. TypeOK /\ prog \in Programs /\ Calls' = Calls
  BY <1>1 DEF CopyInv, TypeOK, Calls
<1>3. "done" \in Calls /\ "done" \in Locations
  BY <1>2, EveryProgramEnds, CallsAreLocations
<1>4. TypeOK'
  BY <1>1, <1>2, <1>3 DEF TypeOK, Killed
<1>5. Control' /\ SourceKept'
  BY <1>1, <1>2, <1>3 DEF Control, SourceKept, CopyInv
<1>6. pc' \notin (Unopened \cup Opened \cup Loop \cup Finishing)'
  BY <1>1 DEF Unopened, Opened, Loop, Finishing
<1>7. Untouched' /\ AtEnd' /\ SelfCopy'
  BY <1>1, <1>6 DEF Untouched, AtEnd, SelfCopy, Source, CopyInv
<1>8. ASSUME prog # "03.2", out = "dst"
      PROVE  file["dst"] = original["dst"] \/ Begins(file["dst"])
  <2>1. pc = "done" \/ pc \in Unopened \cup Opened \cup Loop \cup Finishing
    <3>1. CASE prog \in Writers
      BY <3>1, NextWriterPhase DEF CopyInv, Control, Unopened, Loop, Finishing
    <3>2. CASE prog \notin Writers
      BY <1>2, <3>2, NextPhase DEF CopyInv, Control
    <3>. QED
      BY <3>1, <3>2
  <2>2. Begins(<< >>)
    BY <1>2, ContentsAreSeqs DEF Begins
  <2>. QED
    BY <1>8, <2>1, <2>2 DEF CopyInv, Untouched, Copying
<1>9. Copying'
  BY <1>1, <1>6, <1>8 DEF Copying, Begins, Source, Loop
<1>. QED
  BY <1>4, <1>5, <1>7, <1>9 DEF CopyInv

\* A step to a later call of the same phase or to the next phase, or, after a
\* failure that result records, out of the loop.
Quiet(to) ==
    /\ UNCHANGED <<args, file, transferVars>>
    /\ Proceed(to) /\ to \in Calls
    /\ attr' \in [Inodes -> Attributes] /\ (out # "src" => attr'["src"] = attr["src"])
    /\ open' \subseteq {"in", "out"} /\ sb_src' \in Attributes
    /\ result' \in 0 .. 8 \cup {255}
    /\ \/ pc \in Unopened /\ to \in Unopened
       \/ pc \in Opened /\ to = "read" /\ prog \notin Writers
       \/ pc \in Finishing /\ to \in Finishing \cup {"done"} /\ (result' = 0 => result = 0)
       \/ pc \in Opened \cup Loop /\ to \in Finishing /\ result' # 0

LEMMA QuietStep ==
    ASSUME CopyInv, NEW to, Quiet(to)
    PROVE  CopyInv'
<1>1. /\ pc' = to /\ exit' = (IF to = "done" THEN result' ELSE exit)
      /\ prog' = prog /\ out' = out /\ original' = original /\ file' = file
      /\ in_off' = in_off /\ out_off' = out_off /\ data' = data
      /\ bytes_written' = bytes_written
  BY DEF Quiet, Proceed, args, transferVars
<1>2. /\ TypeOK /\ prog \in Programs
      /\ Calls' = Calls /\ Unopened' = Unopened /\ Opened' = Opened
      /\ Loop' = Loop /\ Finishing' = Finishing /\ Source' = Source
  BY <1>1 DEF CopyInv, TypeOK, Calls, Unopened, Opened, Loop, Finishing, Source
<1>3. \A f : Begins(f)' <=> Begins(f)
  BY <1>2 DEF Begins
<1>4. to \in Locations
  BY <1>2, CallsAreLocations DEF Quiet
<1>5. TypeOK'
  BY <1>1, <1>2, <1>4 DEF TypeOK, Quiet
<1>6. pc # "done"
  BY PhasesApart DEF Quiet
<1>7. Control' /\ SourceKept'
  BY <1>1, <1>2, <1>6 DEF Control, SourceKept, CopyInv, Quiet
<1>8. /\ << >> \in Seq(Byte) /\ Len(<< >>) = 0 /\ Begins(<< >>)
      /\ "read" \in Loop /\ "write" \in Loop /\ "done" \notin Loop
  BY <1>2, ContentsAreSeqs DEF Begins, Loop
<1>9. CASE pc \in Unopened /\ to \in Unopened
  <2>1. pc' \notin Opened \cup Loop \cup Finishing /\ pc' # "done"
    BY <1>1, <1>9, PhasesApart
  <2>2. Untouched'
    BY <1>1, <1>2, <1>9, <2>1 DEF CopyInv, Untouched
  <2>3. SelfCopy' /\ AtEnd' /\ Copying'
    BY <1>1, <1>2, <1>8, <2>1 DEF CopyInv, SelfCopy, AtEnd, Copying
  <2>. QED
    BY <1>5, <1>7, <2>2, <2>3 DEF CopyInv
<1>10. CASE pc \in Opened /\ to = "read" /\ prog \notin Writers
  <2>1. /\ pc' \notin Unopened \cup Opened \cup Finishing /\ pc' # "done" /\ pc' # "write"
        /\ file[out] = << >> /\ in_off = 0 /\ out_off = 0
    BY <1>1, <1>8, <1>10, PhasesApart DEF CopyInv, Untouched
  <2>2. Untouched' /\ SelfCopy'
    BY <1>1, <1>2, <2>1 DEF CopyInv, Untouched, SelfCopy
  <2>3. AtEnd' /\ Copying'
    BY <1>1, <1>2, <1>3, <1>8, <1>10, <2>1 DEF AtEnd, Copying
  <2>. QED
    BY <1>5, <1>7, <2>2, <2>3 DEF CopyInv
<1>11. CASE pc \in Finishing /\ to \in Finishing \cup {"done"} /\ (result' = 0 => result = 0)
  <2>1. pc' \notin Unopened \cup Opened \cup Loop
    BY <1>1, <1>11, PhasesApart
  <2>2. Untouched' /\ SelfCopy' /\ AtEnd'
    BY <1>1, <1>2, <1>11, <2>1 DEF CopyInv, Untouched, SelfCopy, AtEnd
  <2>3. Copying'
    BY <1>1, <1>2, <1>3, <1>8, <1>11, <2>1, PhasesApart DEF CopyInv, Copying, Whole
  <2>. QED
    BY <1>5, <1>7, <2>2, <2>3 DEF CopyInv
<1>12. CASE pc \in Opened \cup Loop /\ to \in Finishing /\ result' # 0
  <2>1. pc' \notin Unopened \cup Opened \cup Loop /\ pc' # "done"
    BY <1>1, <1>12, PhasesApart
  <2>2. Untouched' /\ SelfCopy' /\ AtEnd'
    BY <1>1, <1>2, <1>12, <2>1 DEF CopyInv, Untouched, SelfCopy, AtEnd
  <2>3. Copying'
    BY <1>1, <1>2, <1>3, <1>8, <1>12, <2>1, PhasesApart DEF CopyInv, Copying, Untouched
  <2>. QED
    BY <1>5, <1>7, <2>2, <2>3 DEF CopyInv
<1>. QED
  BY <1>9, <1>10, <1>11, <1>12 DEF Quiet

\* The call that follows one which is neither the opening of the output nor in
\* the loop.
LEMMA QuietPhases ==
    ASSUME CopyInv, pc \notin {"done", "open_out", "read", "write"}
    PROVE  /\ After(pc) \in Calls
           /\ \/ pc \in Unopened /\ After(pc) \in Unopened
              \/ pc \in Opened /\ After(pc) = "read" /\ prog \notin Writers
              \/ pc \in Finishing /\ After(pc) \in Finishing \cup {"done"}
<1>1. prog \in Programs /\ pc \in Calls
  BY DEF CopyInv, TypeOK, Control
<1>2. CASE prog \in Writers
  BY <1>1, <1>2, NextWriterPhase DEF Finishing
<1>3. CASE prog \notin Writers
  BY <1>1, <1>3, NextPhase DEF Loop
<1>. QED
  BY <1>2, <1>3

LEMMA QuietActions ==
    ASSUME CopyInv, Prepare \/ OpenIn \/ Close \/ Stat \/ SetAttribute
    PROVE  CopyInv'
<1>1. TypeOK /\ prog \in Programs /\ pc \in Calls /\ result \in 0 .. 8 \cup {255}
      /\ attr \in [Inodes -> Attributes] /\ open \subseteq {"in", "out"}
      /\ sb_src \in Attributes /\ attr["src"] \in Attributes
  BY DEF CopyInv, TypeOK, Control, Inodes
<1>2. CASE Prepare \/ OpenIn \/ Close
  <2>1. /\ pc \notin {"done", "open_out", "read", "write"}
        /\ Proceed(After(pc)) /\ UNCHANGED <<args, file, transferVars, attr, sb_src, result>>
        /\ open' \subseteq {"in", "out"}
    BY <1>1, <1>2 DEF Prepare, OpenIn, Close
  <2>2. Quiet(After(pc))
    BY <1>1, <2>1, QuietPhases DEF Quiet
  <2>. QED
    BY <2>2, QuietStep
<1>3. CASE SetAttribute
  <2>1. /\ pc \notin {"done", "open_out", "read", "write"}
        /\ Proceed(After(pc)) /\ UNCHANGED <<args, file, transferVars, open, sb_src, result>>
    BY <1>3 DEF SetAttribute
  <2>2. attr' \in [Inodes -> Attributes] /\ (out # "src" => attr'["src"] = attr["src"])
    BY <1>1, <1>3, SetAttributeTypes DEF Inodes
  <2>3. Quiet(After(pc))
    BY <1>1, <2>1, <2>2, QuietPhases DEF Quiet
  <2>. QED
    BY <2>3, QuietStep
<1>4. CASE Stat
  <2>1. pc = "stat" /\ UNCHANGED <<args, file, attr, open, transferVars, result>>
        /\ sb_src' \in Attributes
    BY <1>1, <1>4 DEF Stat
  <2>2. CASE Proceed(After("stat"))
    <3>1. Quiet(After(pc))
      BY <1>1, <2>1, <2>2, QuietPhases DEF Quiet
    <3>. QED
      BY <3>1, QuietStep
  <2>3. CASE prog # "7.1" /\ Proceed("close_out")
    <3>1. prog \notin Writers
      BY <1>1, <2>1, NextWriterPhase
    <3>2. "close_out" \in Calls /\ "close_out" \in Finishing /\ pc \in Finishing
      BY <1>1, <2>1, <2>3, <3>1, NextPhase DEF Finishing
    <3>3. Quiet("close_out")
      BY <1>1, <2>1, <2>3, <3>2 DEF Quiet
    <3>. QED
      BY <3>3, QuietStep
  <2>. QED
    BY <1>4, <2>2, <2>3 DEF Stat
<1>. QED
  BY <1>2, <1>3, <1>4

\* 03.2_copy.c goes on to read after a pwrite that failed.
LEMMA MistakenStep ==
    ASSUME CopyInv, MistakenForSuccess, Proceed("read"),
           UNCHANGED <<open, result, args, file, attr, transferVars, sb_src>>
    PROVE  CopyInv'
<1>1. /\ prog = "03.2" /\ pc = "write" /\ pc' = "read" /\ exit' = exit
      /\ prog' = prog /\ out' = out /\ original' = original /\ file' = file /\ attr' = attr
      /\ in_off' = in_off /\ out_off' = out_off /\ data' = data
      /\ bytes_written' = bytes_written /\ open' = open /\ sb_src' = sb_src /\ result' = result
  BY DEF MistakenForSuccess, Proceed, args, transferVars
<1>2. "read" \in Calls /\ "read" \in Locations /\ TypeOK
  BY <1>1, NextPhase, CallsAreLocations DEF CopyInv, TypeOK, Control, Writers
<1>3. TypeOK' /\ Control' /\ SourceKept'
  BY <1>1, <1>2 DEF TypeOK, CopyInv, Control, SourceKept, Calls
<1>4. Untouched' /\ SelfCopy' /\ AtEnd' /\ Copying'
  BY <1>1 DEF CopyInv, Untouched, SelfCopy, AtEnd, Copying, Unopened, Opened, Loop, Finishing,
              Source
<1>. QED
  BY <1>3, <1>4 DEF CopyInv

LEMMA CallFailsStep ==
    ASSUME CopyInv, CallFails
    PROVE  CopyInv'
<1>1. /\ prog \in Programs /\ pc \in Calls /\ pc \in DOMAIN Program[prog].fails
      /\ attr \in [Inodes -> Attributes] /\ open \subseteq {"in", "out"} /\ sb_src \in Attributes
      /\ UNCHANGED <<args, file, attr, transferVars, sb_src>>
  BY DEF CopyInv, TypeOK, Control, CallFails
<1>2. Program[prog].fails[pc] \in 1 .. 8 \cup {255}
  BY <1>1, FailureStatuses
<1>3. CASE GoesOn
  <2>1. /\ result' = Program[prog].fails[pc] /\ result' # 0 /\ open' \subseteq open
        /\ Proceed(IF pc \in {"malloc", "read", "write"} THEN "close_in" ELSE After(pc))
    BY <1>2, <1>3 DEF CallFails, MistakenForSuccess, GoesOn
  <2>2. prog \notin Writers /\ pc \notin {"open_out", "done"}
    <3>1. "done" \notin DOMAIN Program[prog].fails
      BY <1>3 DEF GoesOn, Program, P03, P7_1
    <3>. QED
      BY <1>1, <1>3, <3>1 DEF GoesOn, Writers
  <2>3. CASE pc \in {"malloc", "read", "write"}
    <3>1. "close_in" \in Calls /\ "close_in" \in Finishing
      BY <1>1, <2>2, NextPhase, PhasesApart
    <3>2. pc \in Opened \cup Loop
      BY <1>3, <2>3 DEF GoesOn, Opened, Loop
    <3>3. Quiet("close_in")
      BY <1>1, <1>2, <2>1, <2>3, <3>1, <3>2 DEF Quiet
    <3>. QED
      BY <3>3, QuietStep
  <2>4. CASE pc \notin {"malloc", "read", "write"}
    <3>1. pc \in Finishing
      <4>1. CASE prog = "03"
        BY <1>1, <1>3, <2>2, <2>4, <4>1, Order03 DEF GoesOn, Calls, Finishing
      <4>2. CASE prog = "7.1"
        BY <1>3, <4>2 DEF GoesOn, Finishing
      <4>. QED
        BY <1>3, <4>1, <4>2 DEF GoesOn
    <3>2. After(pc) \in Calls /\ After(pc) \in Finishing \cup {"done"}
      BY <2>2, <2>4, <3>1, QuietPhases, PhasesApart
    <3>3. Quiet(After(pc))
      BY <1>1, <1>2, <2>1, <2>4, <3>1, <3>2 DEF Quiet
    <3>. QED
      BY <3>3, QuietStep
  <2>. QED
    BY <2>3, <2>4
<1>4. CASE ~GoesOn /\ MistakenForSuccess
  BY <1>1, <1>4, MistakenStep DEF CallFails
<1>5. CASE ~GoesOn /\ ~MistakenForSuccess
  BY <1>1, <1>2, <1>5, FailStep DEF CallFails
<1>. QED
  BY <1>3, <1>4, <1>5

-----------------------------------------------------------------------------
(* The steps that open, read and write. *)

LEMMA OpenOutStep ==
    ASSUME CopyInv, OpenOut
    PROVE  CopyInv'
<1>1. /\ pc = "open_out" /\ pc' = After("open_out")
      /\ exit' = (IF After("open_out") = "done" THEN result' ELSE exit)
      /\ open' = open \cup {"out"} /\ file' = [file EXCEPT ![out] = << >>] /\ Touch
      /\ prog' = prog /\ out' = out /\ original' = original
      /\ in_off' = in_off /\ out_off' = out_off /\ data' = data
      /\ bytes_written' = bytes_written /\ sb_src' = sb_src /\ result' = result
  BY DEF OpenOut, Proceed, args, transferVars
<1>2. /\ TypeOK /\ prog \in Programs /\ "open_out" \in Calls
      /\ Calls' = Calls /\ Unopened' = Unopened /\ Opened' = Opened
      /\ Loop' = Loop /\ Finishing' = Finishing /\ Source' = Source
  BY <1>1 DEF CopyInv, TypeOK, Control, Calls, Unopened, Opened, Loop, Finishing, Source
<1>3. \A f : Begins(f)' <=> Begins(f)
  BY <1>2 DEF Begins
<1>4. /\ << >> \in Seq(Byte) /\ Len(<< >>) = 0 /\ Begins(<< >>)
      /\ file \in [Inodes -> Seq(Byte)] /\ out \in Inodes /\ Source \in Seq(Byte)
  BY <1>2, ContentsAreSeqs DEF Begins
<1>5. /\ file' \in [Inodes -> Seq(Byte)] /\ file'[out] = << >>
      /\ out # "src" => file'["src"] = file["src"] /\ attr'["src"] = attr["src"]
      /\ attr' \in [Inodes -> Attributes]
  BY <1>1, <1>2, <1>4, TouchTypes DEF Inodes
<1>6. /\ in_off = 0 /\ out_off = 0 /\ bytes_written = 0
      /\ data = (IF prog \in Writers THEN Source ELSE << >>)
  BY <1>1, PhasesApart DEF CopyInv, Untouched
<1>7. /\ pc' \in Calls /\ pc' # "done"
      /\ \/ prog \notin Writers /\ pc' \in Opened \cup {"read"}
         \/ prog \in Writers /\ pc' = IF data = << >> THEN "close_out" ELSE "write"
  <2>1. CASE prog \in Writers
    BY <1>1, <2>1, NextWriterPhase
  <2>2. CASE prog \notin Writers
    BY <1>1, <1>2, <2>2, NextPhase, PhasesApart
  <2>. QED
    BY <2>1, <2>2
<1>8. TypeOK'
  BY <1>1, <1>2, <1>5, <1>7, CallsAreLocations DEF TypeOK
<1>9. Control' /\ SourceKept'
  BY <1>1, <1>2, <1>5, <1>7 DEF CopyInv, Control, SourceKept, Source
<1>10. CASE pc' \in Opened
  <2>1. pc' \notin Unopened \cup Loop \cup Finishing /\ pc' # "write" /\ pc' # "read"
    BY <1>10, PhasesApart DEF Loop
  <2>. QED
    BY <1>1, <1>2, <1>5, <1>6, <1>7, <1>8, <1>9, <2>1
    DEF CopyInv, Untouched, SelfCopy, AtEnd, Copying
<1>11. CASE pc' = "read" /\ prog \notin Writers
  <2>1. pc' \notin Unopened \cup Opened \cup Finishing
    BY <1>11, PhasesApart DEF Loop
  <2>2. Untouched' /\ SelfCopy' /\ AtEnd'
    BY <1>1, <1>2, <1>4, <1>5, <1>6, <1>11, <2>1 DEF Untouched, SelfCopy, AtEnd
  <2>3. Copying'
    BY <1>1, <1>2, <1>3, <1>4, <1>5, <1>6, <1>11, <2>1 DEF Copying
  <2>. QED
    BY <1>8, <1>9, <2>2, <2>3 DEF CopyInv
<1>12. CASE prog \in Writers /\ data # << >> /\ pc' = "write"
  <2>1. pc' \notin Unopened \cup Opened \cup Finishing /\ out = "dst"
    BY <1>12, PhasesApart DEF Loop, CopyInv, Control
  <2>2. Untouched' /\ SelfCopy' /\ AtEnd'
    BY <1>1, <1>2, <1>4, <1>5, <1>6, <1>12, <2>1 DEF Untouched, SelfCopy, AtEnd
  <2>3. 0 < Len(Source)
    BY <1>4, <1>6, <1>12
  <2>4. DataIsNext'
    BY <1>1, <1>2, <1>4, <1>6, <1>12 DEF DataIsNext
  <2>5. Copying'
    BY <1>1, <1>2, <1>3, <1>4, <1>5, <1>6, <1>12, <2>1, <2>3, <2>4 DEF Copying
  <2>. QED
    BY <1>8, <1>9, <2>2, <2>5 DEF CopyInv
<1>13. CASE prog \in Writers /\ data = << >> /\ pc' = "close_out"
  <2>1. pc' \notin Unopened \cup Opened \cup Loop /\ pc' # "done" /\ out = "dst"
    BY <1>13, PhasesApart DEF CopyInv, Control
  <2>2. Untouched' /\ SelfCopy' /\ AtEnd'
    BY <1>1, <1>2, <2>1 DEF Untouched, SelfCopy, AtEnd
  <2>3. Len(Source) = 0
    BY <1>4, <1>6, <1>13
  <2>4. Copying'
    BY <1>1, <1>2, <1>3, <1>4, <1>5, <2>1, <2>3 DEF Copying, Whole, Loop
  <2>. QED
    BY <1>8, <1>9, <2>2, <2>4 DEF CopyInv
<1>. QED
  BY <1>7, <1>10, <1>11, <1>12, <1>13

LEMMA SomeBytes ==
    ASSUME NEW left \in Nat \ {0}, NEW k \in 1 .. Min({left, Chunk})
    PROVE  k <= left /\ k <= Chunk
<1>1. Chunk \in Nat /\ left \in Nat
  BY ChunkAssumption
<1>2. CASE left <= Chunk
  <2>1. Min({left, Chunk}) = left
    <3>1. left \in {left, Chunk} /\ \A y \in {left, Chunk} : left <= y
      BY <1>1, <1>2
    <3>2. \A x \in {left, Chunk} : (\A y \in {left, Chunk} : x <= y) => x = left
      BY <1>1, <1>2
    <3>. QED
      BY <3>1, <3>2 DEF Min
  <2>. QED
    BY <1>1, <1>2, <2>1
<1>3. CASE ~(left <= Chunk)
  <2>1. Min({left, Chunk}) = Chunk
    <3>1. Chunk \in {left, Chunk} /\ \A y \in {left, Chunk} : Chunk <= y
      BY <1>1, <1>3
    <3>2. \A x \in {left, Chunk} : (\A y \in {left, Chunk} : x <= y) => x = Chunk
      BY <1>1, <1>3
    <3>. QED
      BY <3>1, <3>2 DEF Min
  <2>. QED
    BY <1>1, <1>3, <2>1
<1>. QED
  BY <1>2, <1>3

LEMMA NextBytes ==
    ASSUME NEW S, NEW D \in Seq(S), NEW from \in Nat, NEW k \in Nat, from + k <= Len(D)
    PROVE  /\ SubSeq(D, from + 1, from + k) \in Seq(S)
           /\ Len(SubSeq(D, from + 1, from + k)) = k
           /\ \A i \in 1 .. k : SubSeq(D, from + 1, from + k)[i] = D[from + i]
OBVIOUS

LEMMA ReadStep ==
    ASSUME CopyInv, Read
    PROVE  CopyInv'
<1>1. /\ TypeOK /\ prog \in Programs /\ pc \in Calls /\ pc = "read" /\ pc \in Loop
      /\ pc \notin Unopened \cup Opened \cup Finishing
      /\ prog' = prog /\ out' = out /\ original' = original /\ file' = file /\ attr' = attr
      /\ open' = open /\ sb_src' = sb_src /\ result' = result
  BY PhasesApart DEF CopyInv, TypeOK, Control, Read, Loop, args
<1>2. /\ Calls' = Calls /\ Unopened' = Unopened /\ Opened' = Opened
      /\ Loop' = Loop /\ Finishing' = Finishing /\ Source' = Source
      /\ \A f : Begins(f)' <=> Begins(f)
  BY <1>1 DEF Calls, Unopened, Opened, Loop, Finishing, Source, Begins
<1>3. prog \notin Writers
  BY <1>1, NextWriterPhase
<1>4. /\ Source \in Seq(Byte) /\ Len(Source) \in Nat /\ in_off \in Nat /\ out_off \in Nat
      /\ file \in [Inodes -> Seq(Byte)] /\ out \in {"src", "dst"}
      /\ Len(file["src"]) \in Nat /\ Len(file["dst"]) \in Nat
  BY <1>1, ContentsAreSeqs DEF Inodes
<1>5. IF out = "src" THEN file["src"] = << >> /\ in_off = 0 ELSE file["src"] = Source
  BY <1>1, <1>4 DEF CopyInv, SelfCopy, SourceKept, Source
<1>6. ASSUME prog # "03.2", out = "dst"
      PROVE  Begins(file["dst"]) /\ in_off = out_off /\ out_off = Len(file["dst"])
  BY <1>1, <1>6 DEF CopyInv, Copying, AtEnd
<1>7. CASE Len(file["src"]) - in_off <= 0
  <2>1. Proceed(After("read")) /\ UNCHANGED transferVars
    BY <1>7 DEF Read
  <2>2. /\ pc' = After("read") /\ exit' = (IF pc' = "done" THEN result' ELSE exit)
        /\ in_off' = in_off /\ out_off' = out_off /\ data' = data
        /\ bytes_written' = bytes_written
    BY <2>1 DEF Proceed, transferVars
  <2>3. pc' \in Calls /\ pc' \in Finishing
    BY <1>1, <1>3, <2>2, NextPhase
  <2>4. pc' \notin Unopened \cup Opened \cup Loop /\ pc' # "done" /\ pc' \in Locations
    BY <1>1, <2>3, PhasesApart, CallsAreLocations
  <2>5. TypeOK' /\ Control' /\ SourceKept'
    BY <1>1, <1>2, <2>2, <2>3, <2>4 DEF CopyInv, TypeOK, Control, SourceKept
  <2>6. Untouched' /\ SelfCopy' /\ AtEnd'
    BY <1>1, <1>2, <1>4, <1>5, <2>2, <2>4 DEF Untouched, SelfCopy, AtEnd
  <2>7. ASSUME prog # "03.2", out = "dst" PROVE Whole(file["dst"])
    BY <1>4, <1>5, <1>6, <1>7, <2>7 DEF Whole, Begins
  <2>8. Copying'
    BY <1>1, <1>2, <1>6, <2>2, <2>3, <2>4, <2>7 DEF Copying, Whole, Loop
  <2>. QED
    BY <2>5, <2>6, <2>8 DEF CopyInv
<1>8. CASE ~(Len(file["src"]) - in_off <= 0)
  <2>1. out = "dst" /\ file["src"] = Source
    BY <1>4, <1>5, <1>8
  <2>2. PICK left \in Nat \ {0} : left = Len(file["src"]) - in_off
    <3>1. Len(file["src"]) - in_off \in Nat \ {0}
      BY <1>4, <1>8
    <3>. QED
      BY <3>1
  <2>3. PICK k \in 1 .. Min({left, Chunk}) :
            /\ data' = SubSeq(Source, in_off + 1, in_off + k)
            /\ in_off' = in_off + k /\ bytes_written' = 0 /\ out_off' = out_off
            /\ Proceed("write")
    BY <1>8, <2>1, <2>2 DEF Read
  <2>4. k \in Nat /\ 1 <= k /\ k <= left /\ k <= Chunk /\ in_off + k <= Len(Source)
    <3>1. k \in Int /\ 1 <= k
      OBVIOUS
    <3>. QED
      BY <1>4, <2>1, <2>2, <3>1, SomeBytes
  <2>5. /\ data' \in Seq(Byte) /\ Len(data') = k
        /\ \A i \in 1 .. k : data'[i] = Source[in_off + i]
    <3>1. PICK D \in Seq(Byte) : D = Source
      BY <1>4
    <3>2. in_off + k <= Len(D) /\ data' = SubSeq(D, in_off + 1, in_off + k)
      BY <2>3, <2>4, <3>1
    <3>. QED
      BY <1>4, <2>4, <3>1, <3>2, NextBytes
  <2>6. pc' = "write" /\ exit' = exit /\ "write" \in Calls /\ "write" \in Locations
    BY <2>3 DEF Proceed, Calls, Locations
  <2>7. TypeOK'
    BY <1>1, <1>4, <2>3, <2>4, <2>5, <2>6 DEF TypeOK
  <2>8. Control' /\ SourceKept'
    BY <1>1, <1>2, <2>6 DEF CopyInv, Control, SourceKept
  <2>9. pc' \notin Unopened \cup Opened \cup Finishing /\ pc' \in Loop
    BY <2>6, PhasesApart DEF Loop
  <2>10. Untouched' /\ SelfCopy' /\ AtEnd'
    BY <1>1, <1>2, <2>1, <2>3, <2>9 DEF CopyInv, Untouched, SelfCopy, AtEnd
  <2>11. Copying'
    <3>1. ASSUME prog # "03.2" PROVE DataIsNext'
      <4>1. /\ out_off' - bytes_written' = in_off /\ bytes_written' <= out_off'
            /\ Source' = Source /\ in_off \in Int
        BY <1>2, <1>4, <1>6, <2>1, <2>3, <3>1
      <4>. QED
        BY <2>4, <2>5, <4>1 DEF DataIsNext
    <3>. QED
      BY <1>1, <1>2, <1>3, <1>4, <1>6, <2>1, <2>3, <2>4, <2>5, <2>6, <2>9, <3>1 DEF Copying
  <2>. QED
    BY <2>7, <2>8, <2>10, <2>11 DEF CopyInv
<1>. QED
  BY <1>7, <1>8

\* A write of the bytes that come next keeps the output a beginning of D.
LEMMA GoesOnWith ==
    ASSUME NEW D \in Seq(Byte), NEW f \in Seq(Byte), NEW b \in Seq(Byte),
           Len(f) + Len(b) <= Len(D),
           \A i \in 1 .. Len(f) : f[i] = D[i],
           \A i \in 1 .. Len(b) : b[i] = D[Len(f) + i]
    PROVE  \A i \in 1 .. Len(f) + Len(b) : WriteAt(f, Len(f), b)[i] = D[i]
<1>. SUFFICES ASSUME NEW i \in 1 .. Len(f) + Len(b) PROVE WriteAt(f, Len(f), b)[i] = D[i]
  OBVIOUS
<1>1. Len(f) \in Nat /\ Len(b) \in Nat
  OBVIOUS
<1>2. CASE i \in 1 .. Len(f)
  BY <1>2, WriteAtEnd
<1>3. CASE i \notin 1 .. Len(f)
  <2>1. PICK j \in 1 .. Len(b) : i = Len(f) + j
    <3>1. i - Len(f) \in 1 .. Len(b) /\ i = Len(f) + (i - Len(f))
      BY <1>1, <1>3
    <3>. QED
      BY <3>1
  <2>2. WriteAt(f, Len(f), b)[Len(f) + j] = b[j]
    BY WriteAtEnd
  <2>. QED
    BY <2>1, <2>2
<1>. QED
  BY <1>2, <1>3

LEMMA WriteStep ==
    ASSUME CopyInv, Write
    PROVE  CopyInv'
<1>1. /\ TypeOK /\ prog \in Programs /\ pc \in Calls /\ pc = "write" /\ pc \in Loop
      /\ prog # "03.2" /\ pc \notin Unopened \cup Opened \cup Finishing /\ exit = Running
  BY PhasesApart DEF CopyInv, TypeOK, Control, Write, Loop
<1>2. /\ Source \in Seq(Byte) /\ Len(Source) \in Nat /\ in_off \in Nat /\ out_off \in Nat
      /\ bytes_written \in Nat /\ data \in Seq(Byte) /\ Len(data) \in Nat
      /\ file \in [Inodes -> Seq(Byte)] /\ out \in {"src", "dst"}
      /\ file["dst"] \in Seq(Byte) /\ Len(file["dst"]) \in Nat
  BY <1>1, ContentsAreSeqs DEF Inodes
<1>3. out = "dst"
  BY <1>1, <1>2 DEF CopyInv, SelfCopy
<1>4. /\ out_off = Len(file["dst"]) /\ Begins(file["dst"])
      /\ bytes_written < Len(data) /\ DataIsNext
      /\ prog \notin Writers => in_off = out_off - bytes_written + Len(data)
      /\ prog \in Writers => Len(Source) = out_off - bytes_written + Len(data)
  BY <1>1, <1>3 DEF CopyInv, AtEnd, Copying
<1>5. PICK rest : rest = SubSeq(data, bytes_written + 1, Len(data))
  OBVIOUS
<1>6. /\ rest \in Seq(Byte) /\ Len(rest) = Len(data) - bytes_written
      /\ \A i \in 1 .. Len(rest) : rest[i] = data[bytes_written + i]
  <2>1. PICK n \in Nat : n = Len(data) - bytes_written
    <3>1. Len(data) - bytes_written \in Nat
      BY <1>2, <1>4
    <3>. QED
      BY <3>1
  <2>2. bytes_written + n = Len(data)
    BY <1>2, <2>1
  <2>. QED
    BY <1>2, <1>5, <2>1, <2>2, NextBytes
<1>7. PICK k \in 1 .. Len(rest) :
          /\ Transfer(rest, k)
          /\ Proceed(IF k = Len(rest) THEN AfterWrites ELSE "write")
  BY <1>5 DEF Write
<1>8. PICK b : b = SubSeq(rest, 1, k)
  OBVIOUS
<1>9. k \in Nat /\ 1 <= k /\ k <= Len(data) - bytes_written
  BY <1>2, <1>6
<1>10. b \in Seq(Byte) /\ Len(b) = k /\ \A i \in 1 .. k : b[i] = data[bytes_written + i]
  BY <1>6, <1>8, <1>9
<1>11. /\ file' = [file EXCEPT !["dst"] = WriteAt(file["dst"], out_off, b)] /\ Touch
       /\ out_off' = out_off + k /\ bytes_written' = bytes_written + k
       /\ prog' = prog /\ out' = out /\ original' = original
       /\ open' = open /\ in_off' = in_off /\ data' = data /\ sb_src' = sb_src
       /\ result' = result
  BY <1>3, <1>7, <1>8 DEF Transfer, args
<1>12. /\ Calls' = Calls /\ Unopened' = Unopened /\ Opened' = Opened
       /\ Loop' = Loop /\ Finishing' = Finishing /\ Source' = Source
       /\ \A f : Begins(f)' <=> Begins(f)
  BY <1>11 DEF Calls, Unopened, Opened, Loop, Finishing, Source, Begins
<1>13. /\ file' \in [Inodes -> Seq(Byte)] /\ file'["src"] = file["src"]
       /\ Len(file'["dst"]) = out_off + k
       /\ file'["dst"] = WriteAt(file["dst"], Len(file["dst"]), b)
  <2>1. /\ WriteAt(file["dst"], out_off, b) \in Seq(Byte)
        /\ Len(WriteAt(file["dst"], out_off, b)) = out_off + k
    BY <1>2, <1>4, <1>10, WriteAtEnd
  <2>. QED
    BY <1>2, <1>4, <1>11, <2>1 DEF Inodes
<1>14. Begins(file'["dst"])
  <2>1. out_off + k <= Len(Source)
    BY <1>2, <1>4, <1>9 DEF DataIsNext
  <2>2. ASSUME NEW i \in 1 .. k PROVE b[i] = Source[out_off + i]
    <3>1. PICK j \in 1 .. Len(data) : j = bytes_written + i
      <4>1. bytes_written + i \in 1 .. Len(data)
        BY <1>2, <1>9
      <4>. QED
        BY <4>1
    <3>2. b[i] = data[j] /\ data[j] = Source[out_off - bytes_written + j]
      BY <1>4, <1>10, <3>1 DEF DataIsNext
    <3>3. out_off - bytes_written + j = out_off + i
      BY <1>2, <3>1
    <3>. QED
      BY <3>2, <3>3
  <2>3. \A i \in 1 .. Len(file["dst"]) : file["dst"][i] = Source[i]
    BY <1>4 DEF Begins
  <2>4. \A i \in 1 .. out_off + k : file'["dst"][i] = Source[i]
    <3>1. PICK D \in Seq(Byte), f \in Seq(Byte) : D = Source /\ f = file["dst"]
      BY <1>2
    <3>2. /\ Len(f) = out_off /\ Len(f) + Len(b) <= Len(D)
          /\ \A i \in 1 .. Len(f) : f[i] = D[i]
          /\ \A i \in 1 .. Len(b) : b[i] = D[Len(f) + i]
      BY <1>4, <1>10, <2>1, <2>2, <2>3, <3>1
    <3>3. \A i \in 1 .. Len(f) + Len(b) : WriteAt(f, Len(f), b)[i] = D[i]
      <4>1. b \in Seq(Byte)
        BY <1>10
      <4>. QED
        BY <3>2, <4>1, GoesOnWith, Zenon
    <3>. QED
      BY <1>10, <1>13, <3>1, <3>2, <3>3
  <2>. QED
    BY <1>13, <2>1, <2>4 DEF Begins
<1>15. /\ attr' \in [Inodes -> Attributes] /\ attr'["src"] = attr["src"]
  BY <1>1, <1>3, <1>11, TouchTypes DEF Inodes
<1>16. SourceKept'
  BY <1>3, <1>11, <1>13, <1>15 DEF CopyInv, SourceKept
<1>17. ASSUME pc' \in Calls, pc' # "done" PROVE TypeOK' /\ Control'
  <2>1. pc' \in Locations /\ exit' = exit
    BY <1>1, <1>7, <1>17, CallsAreLocations DEF Proceed
  <2>2. out_off' \in Nat /\ bytes_written' \in Nat
    BY <1>2, <1>9, <1>11
  <2>. QED
    BY <1>1, <1>11, <1>12, <1>13, <1>15, <1>17, <2>1, <2>2 DEF TypeOK, CopyInv, Control
<1>18. CASE k # Len(rest)
  <2>1. pc' = "write" /\ pc' \in Calls
    BY <1>7, <1>18 DEF Proceed, Calls
  <2>2. bytes_written' < Len(data)
    BY <1>2, <1>6, <1>9, <1>11, <1>18
  <2>3. Untouched' /\ SelfCopy' /\ AtEnd'
    BY <1>1, <1>3, <1>11, <1>12, <1>13, <2>1 DEF Untouched, SelfCopy, AtEnd
  <2>4. out_off' - bytes_written' = out_off - bytes_written /\ bytes_written' <= out_off'
    BY <1>2, <1>4, <1>9, <1>11 DEF DataIsNext
  <2>5. DataIsNext'
    BY <1>4, <1>11, <1>12, <2>4 DEF DataIsNext
  <2>6. Copying'
    BY <1>1, <1>4, <1>11, <1>12, <1>14, <2>1, <2>2, <2>4, <2>5 DEF Copying
  <2>. QED
    BY <1>16, <1>17, <2>1, <2>3, <2>6 DEF CopyInv
<1>19. CASE k = Len(rest) /\ prog \notin Writers
  <2>1. pc' = "read" /\ pc' \in Calls
    BY <1>1, <1>7, <1>19, NextPhase DEF Proceed, AfterWrites
  <2>2. in_off' = out_off'
    BY <1>2, <1>4, <1>6, <1>11, <1>19
  <2>3. Untouched' /\ SelfCopy' /\ AtEnd'
    BY <1>3, <1>11, <1>12, <1>13, <2>1, PhasesApart DEF Untouched, SelfCopy, AtEnd, Loop
  <2>4. Copying'
    BY <1>11, <1>12, <1>14, <1>19, <2>1, <2>2, PhasesApart DEF Copying, Loop
  <2>. QED
    BY <1>16, <1>17, <2>1, <2>3, <2>4 DEF CopyInv
<1>20. CASE k = Len(rest) /\ prog \in Writers
  <2>1. pc' = "close_out" /\ pc' \in Calls
    BY <1>7, <1>20, NextWriterPhase DEF Proceed, AfterWrites
  <2>2. pc' \notin Unopened \cup Opened \cup Loop
    BY <2>1, PhasesApart
  <2>3. Len(file'["dst"]) = Len(Source)
    BY <1>2, <1>4, <1>6, <1>13, <1>20
  <2>4. Untouched' /\ SelfCopy' /\ AtEnd'
    BY <1>3, <1>11, <1>12, <2>2 DEF Untouched, SelfCopy, AtEnd
  <2>5. Copying'
    BY <1>11, <1>12, <1>14, <2>1, <2>2, <2>3 DEF Copying, Whole, Loop
  <2>. QED
    BY <1>16, <1>17, <2>1, <2>4, <2>5 DEF CopyInv
<1>. QED
  BY <1>18, <1>19, <1>20

\* 03.2_copy.c may write the wrong bytes, but each write is at the end, too.
LEMMA PositionedWriteStep ==
    ASSUME CopyInv, PositionedWrite
    PROVE  CopyInv'
<1>1. /\ TypeOK /\ prog \in Programs /\ pc \in Calls /\ pc = "write" /\ pc \in Loop
      /\ prog = "03.2" /\ pc \notin Unopened \cup Opened \cup Finishing /\ exit = Running
      /\ prog \notin Writers
  BY PhasesApart DEF CopyInv, TypeOK, Control, PositionedWrite, Loop, Writers
<1>2. /\ out_off \in Nat /\ bytes_written \in Nat /\ data \in Seq(Byte) /\ Len(data) \in Nat
      /\ file \in [Inodes -> Seq(Byte)] /\ out \in {"src", "dst"}
      /\ file["dst"] \in Seq(Byte) /\ Len(file["dst"]) \in Nat
  BY <1>1, ContentsAreSeqs DEF Inodes
<1>3. out = "dst" /\ out_off = Len(file["dst"])
  BY <1>1, <1>2 DEF CopyInv, SelfCopy, AtEnd
<1>4. PICK k \in 1 .. Len(data) :
          /\ file' = [file EXCEPT !["dst"] = WriteAt(@, out_off, SubSeq(data, 1, k))]
          /\ out_off' = out_off + k /\ bytes_written' = bytes_written + k
          /\ \/ End(Program[prog].fails.write)
             \/ /\ Proceed(IF bytes_written' = Len(data) THEN "read" ELSE "write")
                /\ UNCHANGED <<open, result>>
  BY <1>3 DEF PositionedWrite
<1>5. /\ Touch /\ prog' = prog /\ out' = out /\ original' = original
      /\ in_off' = in_off /\ data' = data /\ sb_src' = sb_src
  BY DEF PositionedWrite, args
<1>6. PICK b \in Seq(Byte) : b = SubSeq(data, 1, k) /\ Len(b) = k
  <2>1. SubSeq(data, 1, k) \in Seq(Byte) /\ Len(SubSeq(data, 1, k)) = k
    BY <1>2
  <2>. QED
    BY <2>1
<1>7. k \in Nat /\ out_off' \in Nat /\ bytes_written' \in Nat
  BY <1>2, <1>4
<1>8. /\ file' \in [Inodes -> Seq(Byte)] /\ file'["src"] = file["src"]
      /\ Len(file'["dst"]) = out_off'
  <2>1. /\ WriteAt(file["dst"], out_off, b) \in Seq(Byte)
        /\ Len(WriteAt(file["dst"], out_off, b)) = out_off + k
    <3>1. PICK f \in Seq(Byte) : f = file["dst"]
      BY <1>2
    <3>. QED
      <4>1. /\ WriteAt(f, Len(f), b) \in Seq(Byte)
            /\ Len(WriteAt(f, Len(f), b)) = Len(f) + Len(b)
        BY WriteAtEnd
      <4>. QED
        BY <1>3, <1>6, <3>1, <4>1
  <2>. QED
    BY <1>2, <1>4, <1>6, <2>1 DEF Inodes
<1>9. /\ attr' \in [Inodes -> Attributes] /\ attr'["src"] = attr["src"]
  BY <1>1, <1>3, <1>5, TouchTypes DEF Inodes
<1>10. /\ Calls' = Calls /\ Unopened' = Unopened /\ Opened' = Opened
       /\ Loop' = Loop /\ Finishing' = Finishing /\ Source' = Source
  BY <1>5 DEF Calls, Unopened, Opened, Loop, Finishing, Source
<1>11. /\ pc' \in {"read", "write", "done"} /\ pc' \in Calls /\ pc' \in Locations
       /\ pc' # "done" => exit' = Running
       /\ exit' \in {Running, Killed, 255} \cup 0 .. 8
       /\ open' \subseteq {"in", "out"} /\ result' = result
  <2>1. {"read", "write", "done"} \subseteq Calls \cap Locations
    BY <1>1, NextPhase, EveryProgramEnds, CallsAreLocations DEF Calls
  <2>2. CASE End(Program[prog].fails.write)
    <3>1. "write" \in DOMAIN Program[prog].fails
      BY <1>1 DEF Program, P03_2
    <3>2. Program[prog].fails.write \in 1 .. 8 \cup {255}
      BY <1>1, <3>1, FailureStatuses
    <3>. QED
      BY <2>1, <2>2, <3>2 DEF End
  <2>3. CASE /\ Proceed(IF bytes_written' = Len(data) THEN "read" ELSE "write")
             /\ UNCHANGED <<open, result>>
    BY <1>1, <2>1, <2>3 DEF Proceed, TypeOK
  <2>. QED
    BY <1>4, <2>2, <2>3
<1>12. TypeOK'
  BY <1>1, <1>5, <1>7, <1>8, <1>9, <1>11 DEF TypeOK
<1>13. Control' /\ SourceKept'
  BY <1>3, <1>5, <1>8, <1>9, <1>10, <1>11 DEF CopyInv, Control, SourceKept
<1>14. pc' \notin Unopened \cup Opened \cup Finishing
  BY <1>11, PhasesApart DEF Loop
<1>15. Untouched' /\ SelfCopy' /\ AtEnd' /\ Copying'
  BY <1>1, <1>3, <1>5, <1>8, <1>10, <1>14 DEF Untouched, SelfCopy, AtEnd, Copying
<1>. QED
  BY <1>12, <1>13, <1>15 DEF CopyInv

-----------------------------------------------------------------------------
(* The theorems on the bytes. *)

LEMMA InvNext ==
    ASSUME CopyInv, [Next]_vars
    PROVE  CopyInv'
<1>1. CASE Prepare \/ OpenIn \/ Close \/ Stat \/ SetAttribute
  BY <1>1, QuietActions
<1>2. CASE OpenOut
  BY <1>2, OpenOutStep
<1>3. CASE Read
  BY <1>3, ReadStep
<1>4. CASE Write
  BY <1>4, WriteStep
<1>5. CASE PositionedWrite
  BY <1>5, PositionedWriteStep
<1>6. CASE NotRegular
  BY <1>6, FailStep DEF NotRegular
<1>7. CASE CallFails
  BY <1>7, CallFailsStep
<1>8. CASE Kill
  BY <1>8, FailStep DEF Kill
<1>9. CASE UNCHANGED vars
  BY <1>9 DEF vars, args, transferVars, CopyInv, TypeOK, Control, SourceKept, Untouched, SelfCopy,
              AtEnd, Copying, DataIsNext, Whole, Begins, Source, Calls, Unopened, Opened, Loop,
              Finishing
<1>. QED
  BY <1>1, <1>2, <1>3, <1>4, <1>5, <1>6, <1>7, <1>8, <1>9 DEF Next, Step

\* The offsets and bytes of every reachable state are where a copy has them:
\* the output grows at its end, by the bytes of the source that come next.
THEOREM CopyInvariant == Spec => []CopyInv
<1>1. Init => CopyInv
  BY InvInit
<1>2. CopyInv /\ [Next]_vars => CopyInv'
  BY InvNext
<1>. QED
  BY <1>1, <1>2, PTL DEF Spec

\* Every reachable state of every program has its type: no read exceeds the
\* buffer, and every exit status is one of those the sources return.
THEOREM TypeCorrect == Spec => []TypeOK
<1>1. CopyInv => TypeOK
  BY DEF CopyInv
<1>. QED
  BY <1>1, CopyInvariant, PTL

\* No program changes the file it copies, unless its name was given twice.
THEOREM SourceIsKept == Spec => []SourceKept
<1>1. CopyInv => SourceKept
  BY DEF CopyInv
<1>. QED
  BY <1>1, CopyInvariant, PTL

LEMMA WholeIsSource ==
    ASSUME TypeOK, NEW f \in Seq(Byte), Whole(f)
    PROVE  f = Source
<1>1. PICK D \in Seq(Byte) : D = Source
  BY ContentsAreSeqs
<1>2. Len(f) = Len(D) /\ \A i \in 1 .. Len(f) : f[i] = D[i]
  BY <1>1 DEF Whole, Begins
<1>3. f = D
  BY <1>2, SeqEqual
<1>. QED
  BY <1>1, <1>3

LEMMA BeginningIsPrefix ==
    ASSUME TypeOK, NEW f \in Seq(Byte), Begins(f)
    PROVE  IsPrefix(f, Source)
<1>1. PICK D \in Seq(Byte) : D = Source
  BY ContentsAreSeqs
<1>2. Len(f) <= Len(D) /\ \A i \in 1 .. Len(f) : f[i] = D[i]
  BY <1>1 DEF Begins
<1>3. /\ SubSeq(D, 1, Len(f)) \in Seq(Byte) /\ Len(SubSeq(D, 1, Len(f))) = Len(f)
      /\ \A i \in 1 .. Len(f) : SubSeq(D, 1, Len(f))[i] = D[i]
  BY <1>2
<1>4. f = SubSeq(D, 1, Len(f))
  BY <1>2, <1>3, SeqEqual
<1>. QED
  BY <1>1, <1>2, <1>4 DEF IsPrefix

\* Status 0 of a program that uses write_all means that the copy is complete,
\* for any contents and any pattern of short reads, short writes and failures.
THEOREM CopyIsFaithful == Spec => []CopyFaithful
<1>1. ASSUME CopyInv PROVE CopyFaithful
  <2>1. SUFFICES ASSUME prog # "03.2", exit = 0 PROVE file[out] = file["src"]
    BY DEF CopyFaithful, CopyIsRight
  <2>2. TypeOK /\ out \in {"src", "dst"} /\ file["dst"] \in Seq(Byte)
    BY <1>1, ContentsAreSeqs DEF CopyInv, Inodes
  <2>3. CASE out = "dst"
    <3>1. pc = "done"
      BY <1>1, <2>1 DEF CopyInv, Control, Running
    <3>2. Whole(file["dst"])
      BY <1>1, <2>1, <2>3, <3>1 DEF CopyInv, Copying
    <3>3. file["src"] = Source
      BY <1>1, <2>3 DEF CopyInv, SourceKept, Source
    <3>. QED
      BY <2>2, <2>3, <3>2, <3>3, WholeIsSource
  <2>. QED
    BY <2>2, <2>3
<1>. QED
  BY <1>1, CopyInvariant, PTL

\* Whenever such a program stops, also when it fails or is killed, the output
\* is as it was or a beginning of the source.
THEOREM OutputIsPrefix == Spec => []PrefixOfSource
<1>1. ASSUME CopyInv PROVE PrefixOfSource
  <2>1. SUFFICES ASSUME prog # "03.2"
                 PROVE  file[out] = original[out] \/ IsPrefix(file[out], Source)
    BY DEF PrefixOfSource, Source
  <2>2. /\ TypeOK /\ prog \in Programs /\ pc \in Calls /\ out \in {"src", "dst"}
        /\ file["dst"] \in Seq(Byte)
    BY <1>1, ContentsAreSeqs DEF CopyInv, TypeOK, Control, Inodes
  <2>3. << >> \in Seq(Byte) /\ Begins(<< >>)
    BY <2>2, ContentsAreSeqs DEF Begins
  <2>4. CASE out = "src"
    <3>1. file["src"] \in {Source, << >>}
      BY <1>1, <2>4 DEF CopyInv, SelfCopy
    <3>. QED
      BY <2>2, <2>3, <2>4, <3>1, BeginningIsPrefix DEF Source
  <2>5. CASE out = "dst"
    <3>1. pc = "done" \/ pc \in Unopened \cup Opened \cup Loop \cup Finishing
      <4>1. CASE prog \in Writers
        BY <2>2, <4>1, NextWriterPhase DEF Unopened, Loop, Finishing
      <4>2. CASE prog \notin Writers
        BY <2>2, <4>2, NextPhase
      <4>. QED
        BY <4>1, <4>2
    <3>2. file["dst"] = original["dst"] \/ Begins(file["dst"])
      BY <1>1, <2>1, <2>3, <2>5, <3>1 DEF CopyInv, Untouched, Copying
    <3>. QED
      BY <2>2, <2>5, <3>2, BeginningIsPrefix
  <2>. QED
    BY <2>2, <2>4, <2>5
<1>. QED
  BY <1>1, CopyInvariant, PTL

-----------------------------------------------------------------------------
(* The attributes. *)

LEMMA SourceAttributesStay ==
    ASSUME CopyInv, Next, out = "dst"
    PROVE  /\ prog' = prog /\ out' = out /\ attr'["src"] = attr["src"]
           /\ attr \in [Inodes -> Attributes] /\ attr' \in [Inodes -> Attributes]
<1>1. TypeOK /\ attr \in [Inodes -> Attributes] /\ "src" \in Inodes \ {"dst"}
  BY DEF CopyInv, TypeOK, Inodes
<1>2. CASE OpenOut \/ Write \/ PositionedWrite
  <2>1. Touch /\ UNCHANGED args
    BY <1>2 DEF OpenOut, Write, Transfer, PositionedWrite
  <2>. QED
    BY <1>1, <2>1, TouchTypes DEF args
<1>3. CASE SetAttribute
  BY <1>1, <1>3, SetAttributeTypes DEF SetAttribute, args
<1>4. CASE Prepare \/ OpenIn \/ Read \/ Close \/ Stat \/ NotRegular \/ CallFails \/ Kill
  BY <1>1, <1>4
  DEF Prepare, OpenIn, Read, Close, Stat, NotRegular, CallFails, Kill, args
<1>. QED
  BY <1>2, <1>3, <1>4 DEF Next, Step

\* A failure that ends the program leaves a status that is not 0.
LEMMA FailureEnds ==
    ASSUME CopyInv, NotRegular \/ Kill \/ (CallFails /\ ~GoesOn /\ ~MistakenForSuccess)
    PROVE  pc' = "done" /\ exit' # 0 /\ result' = result
<1>1. prog \in Programs
  BY DEF CopyInv, TypeOK
<1>2. CASE NotRegular \/ Kill
  BY <1>2 DEF NotRegular, Kill, End, Killed
<1>3. CASE CallFails /\ ~GoesOn /\ ~MistakenForSuccess
  <2>1. End(Program[prog].fails[pc]) /\ Program[prog].fails[pc] \in 1 .. 8 \cup {255}
    BY <1>1, <1>3, FailureStatuses DEF CallFails
  <2>. QED
    BY <2>1 DEF End
<1>. QED
  BY <1>2, <1>3

\* The mode of the source, once set, stays set unless it has the bit.
LEMMA TouchKeepsMode ==
    ASSUME TypeOK, Touch, ModeCopied, out' = out, sb_src' = sb_src
    PROVE  ModeCopied'
BY TouchTypes DEF ModeCopied, ClearSetuid

LEMMA AttributesStep7_1 ==
    ASSUME CopyInv, Next, out = "dst", prog = "7.1", Attributes7_1
    PROVE  Attributes7_1'
<1>1. /\ TypeOK /\ prog' = prog /\ out' = out /\ attr'["src"] = attr["src"] /\ exit' \in Int
      /\ attr \in [Inodes -> Attributes] /\ out \in Inodes /\ sb_src \in Attributes
      /\ pc # "done" => exit = Running
  <2>1. exit' \in Int
    BY InvNext DEF CopyInv, TypeOK, Running, Killed
  <2>. QED
    BY <2>1, SourceAttributesStay DEF CopyInv, TypeOK, Control, Inodes
<1>2. pc \in {"open_in", "stat", "open_out", "fchmod", "read", "write", "fsync", "futimens",
              "close_in", "close_out", "done"}
  BY Order7_1 DEF CopyInv, Control, Calls
<1>3. /\ After("open_in") = "stat" /\ After("stat") = "open_out" /\ After("open_out") = "fchmod"
      /\ After("fchmod") = "read" /\ After("read") = "fsync" /\ After("fsync") = "futimens"
      /\ After("futimens") = "close_in" /\ After("close_in") = "close_out"
      /\ After("close_out") = "done"
  BY Order7_1 DEF After
<1>. USE DEF Attributes7_1, Loop, Finishing
<1>4. CASE OpenIn
  BY <1>1, <1>3, <1>4 DEF OpenIn, Proceed
<1>5. CASE Stat
  BY <1>1, <1>3, <1>5 DEF Stat, Proceed
<1>6. CASE OpenOut
  BY <1>1, <1>3, <1>6 DEF OpenOut, Proceed
<1>7. CASE SetAttribute
  <2>1. CASE pc = "fchmod"
    <3>1. /\ pc' = "read" /\ sb_src' = sb_src
          /\ attr' = [attr EXCEPT !["dst"].mode = sb_src.mode]
      BY <1>3, <1>7, <2>1 DEF SetAttribute, Proceed
    <3>2. attr'["dst"].mode = sb_src.mode
      BY <1>1, <3>1 DEF Inodes, Attributes
    <3>. QED
      BY <1>1, <2>1, <3>1, <3>2 DEF ModeCopied
  <2>2. CASE pc = "futimens"
    <3>1. /\ pc' = "close_in" /\ sb_src' = sb_src
          /\ attr' = [attr EXCEPT !["dst"].times = sb_src.times]
      BY <1>3, <1>7, <2>2 DEF SetAttribute, Proceed
    <3>2. attr'["dst"].times = sb_src.times /\ attr'["dst"].mode = attr["dst"].mode
      BY <1>1, <3>1 DEF Inodes, Attributes
    <3>. QED
      BY <1>1, <2>2, <3>1, <3>2 DEF ModeCopied, TimesCopied
  <2>. QED
    BY <1>2, <1>7, <2>1, <2>2 DEF SetAttribute
<1>8. CASE Read
  <2>1. pc = "read" /\ pc' \in {"write", "fsync"} /\ UNCHANGED <<attr, sb_src>>
    BY <1>3, <1>8 DEF Read, Proceed
  <2>. QED
    BY <1>1, <2>1 DEF ModeCopied
<1>9. CASE Write
  <2>1. pc = "write" /\ pc' \in {"write", "read"} /\ Touch /\ sb_src' = sb_src
    BY <1>9 DEF Write, Transfer, Proceed, AfterWrites, Writers
  <2>2. ModeCopied'
    BY <1>1, <2>1, TouchKeepsMode
  <2>. QED
    BY <1>1, <2>1, <2>2
<1>10. CASE Prepare
  <2>1. pc = "fsync" /\ pc' = "futimens" /\ UNCHANGED <<attr, sb_src>>
    BY <1>2, <1>3, <1>10 DEF Prepare, Proceed
  <2>. QED
    BY <1>1, <2>1 DEF ModeCopied
<1>11. CASE Close
  <2>1. /\ \/ pc = "close_in" /\ pc' = "close_out"
           \/ pc = "close_out" /\ pc' = "done" /\ exit' = result
        /\ UNCHANGED <<attr, sb_src, result>>
    BY <1>3, <1>11 DEF Close, Proceed
  <2>. QED
    BY <1>1, <2>1 DEF ModeCopied, TimesCopied
<1>12. CASE CallFails /\ GoesOn
  <2>1. /\ \/ pc = "fsync" /\ pc' = "futimens"
           \/ pc = "futimens" /\ pc' = "close_in"
        /\ UNCHANGED <<attr, sb_src>> /\ result' = Program[prog].fails[pc]
    BY <1>3, <1>12 DEF CallFails, GoesOn, MistakenForSuccess, Proceed
  <2>2. result' # 0
    BY <2>1 DEF Program, P7_1
  <2>. QED
    BY <1>1, <2>1, <2>2 DEF ModeCopied
<1>13. CASE NotRegular \/ Kill \/ (CallFails /\ ~GoesOn /\ ~MistakenForSuccess)
  BY <1>13, FailureEnds
<1>. QED
  BY <1>4, <1>5, <1>6, <1>7, <1>8, <1>9, <1>10, <1>11, <1>12, <1>13
  DEF Next, Step, PositionedWrite, MistakenForSuccess

LEMMA AttributesStep05 ==
    ASSUME CopyInv, Next, out = "dst", prog = "05", Attributes05
    PROVE  Attributes05'
<1>1. /\ TypeOK /\ prog' = prog /\ out' = out /\ attr'["src"] = attr["src"]
      /\ attr \in [Inodes -> Attributes] /\ out \in Inodes /\ sb_src \in Attributes
      /\ pc # "done" => exit = Running
  BY SourceAttributesStay DEF CopyInv, TypeOK, Control, Inodes
<1>2. pc \in {"open_in", "open_out", "malloc", "read", "write", "close_in", "stat", "fchmod",
              "futimens", "lchown", "close_out", "done"}
  BY Order05 DEF CopyInv, Control, Calls
<1>3. /\ After("open_in") = "open_out" /\ After("open_out") = "malloc"
      /\ After("malloc") = "read" /\ After("read") = "close_in" /\ After("close_in") = "stat"
      /\ After("stat") = "fchmod" /\ After("fchmod") = "futimens"
      /\ After("futimens") = "lchown" /\ After("lchown") = "close_out"
      /\ After("close_out") = "done"
  BY Order05 DEF After
<1>. USE DEF Attributes05
<1>4. CASE Prepare \/ OpenIn \/ OpenOut \/ Read \/ Write
  <2>1. /\ pc \notin {"stat", "fchmod", "futimens", "lchown", "close_in", "close_out", "done"}
        /\ pc' \in {"open_out", "malloc", "read", "write", "close_in"}
        /\ UNCHANGED <<sb_src, result>>
    BY <1>2, <1>3, <1>4
    DEF Prepare, OpenIn, OpenOut, Read, Write, Transfer, Proceed, AfterWrites, Writers
  <2>. QED
    BY <2>1
<1>5. CASE Close
  <2>1. /\ \/ pc = "close_in" /\ pc' = "stat"
           \/ pc = "close_out" /\ pc' = "done"
        /\ UNCHANGED <<attr, sb_src, result>>
    BY <1>3, <1>5 DEF Close, Proceed
  <2>. QED
    BY <1>1, <2>1 DEF ModeCopied, TimesCopied, OwnerCopied
<1>6. CASE Stat
  <2>1. /\ pc = "stat" /\ UNCHANGED <<attr, result>>
        /\ \/ pc' = "fchmod" /\ sb_src' = attr["src"]
           \/ pc' = "close_out" /\ sb_src' = sb_src
    BY <1>3, <1>6 DEF Stat, Proceed
  <2>. QED
    BY <1>1, <2>1
<1>7. CASE SetAttribute
  <2>1. sb_src' = sb_src /\ result' = result /\ pc' = After(pc)
    BY <1>7 DEF SetAttribute, Proceed
  <2>2. CASE pc = "fchmod"
    <3>1. attr' = [attr EXCEPT !["dst"].mode = sb_src.mode]
      BY <1>7, <2>2 DEF SetAttribute
    <3>2. attr'["dst"].mode = sb_src.mode
      BY <1>1, <3>1 DEF Inodes, Attributes
    <3>. QED
      BY <1>1, <1>3, <2>1, <2>2, <3>2 DEF ModeCopied
  <2>3. CASE pc = "futimens"
    <3>1. attr' = [attr EXCEPT !["dst"].times = sb_src.times]
      BY <1>7, <2>3 DEF SetAttribute
    <3>2. attr'["dst"].times = sb_src.times /\ attr'["dst"].mode = attr["dst"].mode
      BY <1>1, <3>1 DEF Inodes, Attributes
    <3>. QED
      BY <1>1, <1>3, <2>1, <2>3, <3>2 DEF ModeCopied, TimesCopied
  <2>4. CASE pc = "lchown"
    <3>1. attr' = [attr EXCEPT !["dst"].owner = sb_src.owner, !["dst"].mode = ClearSetuid(@)]
      BY <1>7, <2>4 DEF SetAttribute
    <3>2. /\ attr'["dst"].times = attr["dst"].times /\ attr'["dst"].owner = sb_src.owner
          /\ attr'["dst"].mode = ClearSetuid(attr["dst"].mode)
      BY <1>1, <3>1 DEF Inodes, Attributes
    <3>. QED
      BY <1>1, <1>3, <2>1, <2>4, <3>2 DEF ModeCopied, TimesCopied, OwnerCopied, ClearSetuid
  <2>. QED
    BY <1>7, <2>2, <2>3, <2>4 DEF SetAttribute
<1>8. CASE NotRegular \/ Kill \/ (CallFails /\ ~GoesOn /\ ~MistakenForSuccess)
  <2>1. pc' = "done" /\ exit' # 0 /\ result' = result
    BY <1>8, FailureEnds
  <2>. QED
    BY <2>1
<1>. QED
  BY <1>4, <1>5, <1>6, <1>7, <1>8
  DEF Next, Step, PositionedWrite, GoesOn, MistakenForSuccess

LEMMA AttributesInit == Init => AttributesInv
<1>. SUFFICES ASSUME Init, out = "dst" PROVE AttributesInv
  BY DEF AttributesInv
<1>1. PICK m \in Modes :
          attr = [src |-> [mode |-> m, times |-> "before", owner |-> "author"],
                  dst |-> [mode |-> "0644", times |-> "before", owner |-> "caller"]]
  BY DEF Init
<1>2. /\ attr["src"].owner = "author" /\ sb_src.owner = "caller" /\ result = 0
      /\ pc = Head(Program[prog].calls)
  BY <1>1 DEF Init
<1>3. prog = "7.1" => pc = "open_in"
  BY <1>2, Order7_1
<1>4. prog = "05" => pc = "open_in"
  BY <1>2, Order05
<1>. QED
  BY <1>2, <1>3, <1>4 DEF AttributesInv, Attributes7_1, Attributes05, Loop, Finishing

LEMMA AttributesNext ==
    ASSUME CopyInv, AttributesInv, [Next]_vars
    PROVE  AttributesInv'
<1>1. CASE UNCHANGED vars
  BY <1>1 DEF vars, AttributesInv, Attributes7_1, Attributes05, ModeCopied, TimesCopied,
              OwnerCopied, Loop, Finishing
<1>2. CASE Next
  <2>1. CASE out = "dst"
    BY <1>2, <2>1, SourceAttributesStay, AttributesStep7_1, AttributesStep05 DEF AttributesInv
  <2>2. CASE out # "dst"
    <3>1. out' = out
      BY <1>2 DEF Next, Step, Prepare, OpenIn, OpenOut, Read, Write, Transfer, PositionedWrite,
                  Close, Stat, SetAttribute, NotRegular, CallFails, Kill, args
    <3>. QED
      BY <2>2, <3>1 DEF AttributesInv
  <2>. QED
    BY <2>1, <2>2
<1>. QED
  BY <1>1, <1>2

\* Status 0 of 05_allmetadata.c and result 0 of reg_file_cpy mean that the
\* permissions, the times and, for 05, the owner are those that stat told.
THEOREM AttributesAreCopied == Spec => []AttributesCopied
<1>1. Init => CopyInv /\ AttributesInv
  BY InvInit, AttributesInit
<1>2. CopyInv /\ AttributesInv /\ [Next]_vars => (CopyInv /\ AttributesInv)'
  BY InvNext, AttributesNext
<1>3. ASSUME CopyInv, AttributesInv PROVE AttributesCopied
  <2>1. SUFFICES ASSUME exit = 0, prog \in {"05", "7.1"}, sb_src = attr["src"],
                        sb_src.mode # "4755"
                 PROVE  SameAttributes
    BY DEF AttributesCopied
  <2>2. out \in {"src", "dst"} /\ pc = "done"
    BY <1>3, <2>1, OutputsAssumption DEF CopyInv, TypeOK, Control, Running
  <2>3. CASE out = "src"
    BY <2>3 DEF SameAttributes
  <2>4. CASE out = "dst"
    <3>1. CASE prog = "7.1"
      BY <1>3, <2>1, <2>2, <2>4, <3>1
      DEF AttributesInv, Attributes7_1, ModeCopied, TimesCopied, SameAttributes
    <3>2. CASE prog = "05"
      BY <1>3, <2>1, <2>2, <2>4, <3>2
      DEF AttributesInv, Attributes05, ModeCopied, TimesCopied, OwnerCopied, SameAttributes
    <3>. QED
      BY <2>1, <3>1, <3>2
  <2>. QED
    BY <2>2, <2>3, <2>4
<1>. QED
  BY <1>1, <1>2, <1>3, PTL DEF Spec
=============================================================================
