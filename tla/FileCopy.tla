-------------------------------- MODULE FileCopy --------------------------------
(***************************************************************************)
(* The programs that copy a regular file: 03_copy.c, 03.2_copy.c,          *)
(* 04_metadata.c, 05_allmetadata.c, the regular-file branch of "3*.c" and  *)
(* reg_file_cpy of 7.1.c; and 02.1_write.c and 02.2_write.c, which write   *)
(* a text.  All alternate a read with a loop of writes that copes with     *)
(* short ones; 04, 05 and 7.1 also copy attributes.  They differ in the    *)
(* calls they make, in the status each failed call leads to, and in        *)
(* whether they go on after a failure.                                     *)
(*                                                                         *)
(* One action is one system call of one run.  A read or a write may        *)
(* transfer fewer bytes than asked for; any call may fail.                 *)
(***************************************************************************)
EXTENDS ExitStatus, Sequences, SequencesExt, FiniteSetsExt

CONSTANTS
    Programs,   \* which of the sources run
    Contents,   \* what the source file, and one that is overwritten, may hold
    Modes,      \* its permissions
    Outputs,    \* the file the second argument names: "dst", or "src" itself
    Chunk,      \* bytes asked of one read
    Faults      \* the calls that may fail, "irregular" and "kill"

\* A program: its calls in order ("read" stands for the loop of reads and
\* writes), and the exit status that follows the failure of each.
P03 == [calls |-> <<"open_in", "open_out", "malloc", "read", "close_in", "close_out", "done">>,
        fails |-> [open_in |-> 2, open_out |-> 3, malloc |-> 4, read |-> 4, write |-> 4,
                   close_in |-> 5, close_out |-> 6]]

P03_2 == [calls |-> <<"lookup", "open_in", "open_out", "read", "close_in", "close_out", "done">>,
          fails |-> [lookup |-> 2, open_in |-> 4, open_out |-> 5, read |-> 1, write |-> 6,
                     close_in |-> 7, close_out |-> 8]]

P04 == [calls |-> <<"open_in", "open_out", "malloc", "read", "close_in", "stat", "fchmod",
                    "futimens", "close_out", "done">>,
        fails |-> [open_in |-> 2, open_out |-> 3, malloc |-> 4, read |-> 4, write |-> 4,
                   close_in |-> 6, fchmod |-> 5, futimens |-> 5, close_out |-> 7]]

P05 == [calls |-> <<"open_in", "open_out", "malloc", "read", "close_in", "stat", "fchmod",
                    "futimens", "lchown", "close_out", "done">>,
        fails |-> [open_in |-> 2, open_out |-> 3, malloc |-> 4, read |-> 4, write |-> 4,
                   close_in |-> 6, fchmod |-> 5, futimens |-> 5, lchown |-> 5, close_out |-> 7]]

P3_star == [calls |-> <<"lookup", "open_in", "open_out", "malloc", "read", "close_in",
                        "close_out", "done">>,
            fails |-> [lookup |-> 1, open_in |-> 1, open_out |-> 1, malloc |-> 1, read |-> 1,
                       write |-> 1, close_in |-> 1, close_out |-> 1]]

\* reg_file_cpy: its result is -1, here 255, or it ends the program with 1.
\* Nobody looks at its close calls.  A read that fails closes both files, and
\* is followed by a write of (size_t)-1 bytes, which fails.
P7_1 == [calls |-> <<"open_in", "stat", "open_out", "fchmod", "read", "fsync", "futimens",
                     "close_in", "close_out", "done">>,
         fails |-> [open_in |-> 1, stat |-> 1, open_out |-> 1, fchmod |-> 1, read |-> 255,
                    write |-> 255, fsync |-> 255, futimens |-> 255]]

\* The text of the argument, here the bytes of "src", is written by write_all.
P02_1 == [calls |-> <<"open_out", "write", "close_out", "done">>,
          fails |-> [open_out |-> 2, write |-> 3, close_out |-> 4]]

\* dprintf writes until all is written, too.
P02_2 == P02_1

Writers == {"02.1", "02.2"}

Program == [p \in {"03", "03.2", "04", "05", "3*", "7.1"} \cup Writers |->
               CASE p = "03" -> P03 [] p = "03.2" -> P03_2 [] p = "04" -> P04
                 [] p = "05" -> P05 [] p = "3*" -> P3_star [] p = "7.1" -> P7_1
                 [] p = "02.1" -> P02_1 [] p = "02.2" -> P02_2]

Locations == {"write"} \cup UNION {ToSet(Program[p].calls) : p \in DOMAIN Program}

ASSUME ProgramsAssumption == Programs \subseteq DOMAIN Program
ASSUME OutputsAssumption  == Outputs \subseteq {"src", "dst"}
ASSUME ChunkAssumption    == Chunk \in Nat \ {0}
ASSUME FaultsAssumption   == Faults \subseteq (Locations \ {"done"}) \cup {"irregular", "kill"}

Inodes == {"src", "dst"}
Byte == UNION {ToSet(c) : c \in Contents}
ASSUME ContentsAssumption == Contents \subseteq Seq(Byte)

\* chown takes the set-user-ID bit away.
ClearSetuid(mode) == IF mode = "4755" THEN "0755" ELSE mode
Mode  == Modes \cup {ClearSetuid(m) : m \in Modes} \cup {"0644"}
Attributes == [mode : Mode, times : {"before", "now"}, owner : {"author", "caller"}]

VARIABLES
    prog,           \* the program that runs
    out,            \* the file that its second argument names
    pc,             \* its next call
    file,           \* the bytes of the two files
    attr,           \* their permissions, times and owner
    original,       \* history: the two files as they were at the start
    open,           \* which of in_fd and out_fd are open
    in_off, out_off, \* the offsets of the next read and write
    data,           \* the bytes of the last read
    bytes_written,  \* how many of them are written
    sb_src,         \* the attributes that stat returned
    result,         \* the local variable result of 03_copy.c, err of 7.1.c
    exit            \* the exit status

vars == <<prog, out, pc, file, attr, original, open, in_off, out_off, data,
          bytes_written, sb_src, result, exit>>
args == <<prog, out, original>>
transferVars == <<in_off, out_off, data, bytes_written>>

Init ==
    /\ prog \in Programs
    /\ out \in Outputs /\ (prog \in Writers \cup {"7.1"} => out = "dst")
    /\ pc = Head(Program[prog].calls)
    /\ original \in [Inodes -> Contents]
    /\ file = original
    /\ \E m \in Modes :
           attr = [src |-> [mode |-> m, times |-> "before", owner |-> "author"],
                   dst |-> [mode |-> "0644", times |-> "before", owner |-> "caller"]]
    /\ open = {}
    /\ in_off = 0 /\ out_off = 0
    /\ data = (IF prog \in Writers THEN original["src"] ELSE << >>) /\ bytes_written = 0
    /\ sb_src = attr["dst"]
    /\ result = 0
    /\ exit = Running

-----------------------------------------------------------------------------
\* The call that follows in the program's order; a write of nothing is none.
Following(call) == LET calls == Program[prog].calls
                   IN calls[SelectInSeq(calls, LAMBDA c : c = call) + 1]

After(call) == IF Following(call) = "write" /\ data = << >> THEN Following("write")
                                                            ELSE Following(call)

\* All the bytes are written.
AfterWrites == IF prog \in Writers THEN After("write") ELSE "read"

\* The last call leaves main with its result.
Proceed(to) ==
    /\ pc' = to
    /\ exit' = IF to = "done" THEN result' ELSE exit

End(status) ==
    /\ pc' = "done"
    /\ exit' = status
    /\ open' = {}
    /\ UNCHANGED result

\* write and pwrite at an offset.
WriteAt(content, offset, bytes) ==
    [i \in 1 .. Max({Len(content), offset + Len(bytes)}) |->
        IF i > offset /\ i <= offset + Len(bytes) THEN bytes[i - offset] ELSE content[i]]

\* The file is changed; unless by root, this takes the set-user-ID bit away.
Touch == \E m \in {attr[out].mode, ClearSetuid(attr[out].mode)} :
             attr' = [attr EXCEPT ![out].times = "now", ![out].mode = m]

\* lstat, whose type is S_IFREG, malloc, and fsync.
Prepare ==
    /\ pc \in {"lookup", "malloc", "fsync"}
    /\ UNCHANGED <<args, file, attr, open, transferVars, sb_src, result>>
    /\ Proceed(After(pc))

\* 03.2_copy.c refuses what is not a regular file.
NotRegular ==
    /\ "irregular" \in Faults /\ pc = "lookup" /\ prog = "03.2"
    /\ End(3)
    /\ UNCHANGED <<args, file, attr, transferVars, sb_src>>

\* Mutant: the flags of the two files swapped.
OpenInTruncates ==
    /\ pc = "open_in"
    /\ open' = open \cup {"in"}
    /\ file' = [file EXCEPT !["src"] = << >>]
    /\ attr' = [attr EXCEPT !["src"].times = "now"]
    /\ UNCHANGED <<args, transferVars, sb_src, result>>
    /\ Proceed(After(pc))

OpenIn ==
    /\ pc = "open_in"
    /\ open' = open \cup {"in"}
    /\ UNCHANGED <<args, file, attr, transferVars, sb_src, result>>
    /\ Proceed(After(pc))

\* O_CREAT | O_TRUNC.
OpenOut ==
    /\ pc = "open_out"
    /\ open' = open \cup {"out"}
    /\ file' = [file EXCEPT ![out] = << >>]
    /\ Touch
    /\ UNCHANGED <<args, transferVars, sb_src, result>>
    /\ Proceed(After(pc))

\* Mutant: a read longer than the buffer.
ReadUnbounded ==
    /\ pc = "read"
    /\ LET left == Len(file["src"]) - in_off
       IN IF left <= 0
            THEN Proceed(After("read")) /\ UNCHANGED transferVars
            ELSE /\ data' = SubSeq(file["src"], in_off + 1, in_off + left)
                 /\ in_off' = in_off + left
                 /\ bytes_written' = 0
                 /\ Proceed("write")
                 /\ UNCHANGED out_off
    /\ UNCHANGED <<args, file, attr, open, sb_src, result>>

\* Mutant: the end of the source taken for an empty read.
ReadAgain ==
    /\ pc = "read"
    /\ LET left == Len(file["src"]) - in_off
       IN /\ left > 0
          /\ \E k \in 1 .. Min({left, Chunk}) :
                 /\ data' = SubSeq(file["src"], in_off + 1, in_off + k)
                 /\ in_off' = in_off + k
                 /\ bytes_written' = 0
                 /\ Proceed("write")
                 /\ UNCHANGED out_off
    /\ UNCHANGED <<args, file, attr, open, sb_src, result>>

\* At the end of the source the loop is left.
Read ==
    /\ pc = "read"
    /\ LET left == Len(file["src"]) - in_off
       IN IF left <= 0
            THEN Proceed(After("read")) /\ UNCHANGED transferVars
            ELSE \E k \in 1 .. Min({left, Chunk}) :
                     /\ data' = SubSeq(file["src"], in_off + 1, in_off + k)
                     /\ in_off' = in_off + k
                     /\ bytes_written' = 0
                     /\ Proceed("write")
                     /\ UNCHANGED out_off
    /\ UNCHANGED <<args, file, attr, open, sb_src, result>>

\* k bytes from the given ones reach the file.
Transfer(bytes, k) ==
    /\ file' = [file EXCEPT ![out] = WriteAt(@, out_off, SubSeq(bytes, 1, k))]
    /\ Touch
    /\ out_off' = out_off + k
    /\ bytes_written' = bytes_written + k
    /\ UNCHANGED <<args, open, in_off, data, sb_src, result>>

\* Mutant: a short write is not continued.
WriteOnce ==
    /\ pc = "write" /\ prog # "03.2"
    /\ \E k \in 1 .. Len(data) : Transfer(data, k)
    /\ Proceed(AfterWrites)

\* Mutant: the rest is written from the first byte again, as in 03.2_copy.c.
WriteFromStart ==
    /\ pc = "write" /\ prog # "03.2"
    /\ \E k \in 1 .. Len(data) - bytes_written :
           /\ Transfer(data, k)
           /\ Proceed(IF bytes_written + k = Len(data) THEN AfterWrites ELSE "write")

\* write_all goes on with the bytes that are left.
Write ==
    /\ pc = "write" /\ prog # "03.2"
    /\ LET rest == SubSeq(data, bytes_written + 1, Len(data))
       IN \E k \in 1 .. Len(rest) :
              /\ Transfer(rest, k)
              /\ Proceed(IF k = Len(rest) THEN AfterWrites ELSE "write")

\* pwrite_all writes from the first byte again, and asks for all of them; its
\* caller compares what it returns with the bytes read.
PositionedWrite ==
    /\ pc = "write" /\ prog = "03.2"
    /\ \E k \in 1 .. Len(data) :
           /\ file' = [file EXCEPT ![out] = WriteAt(@, out_off, SubSeq(data, 1, k))]
           /\ out_off' = out_off + k
           /\ bytes_written' = bytes_written + k
           /\ IF bytes_written' > Len(data)
                THEN End(Program[prog].fails.write)
                ELSE /\ Proceed(IF bytes_written' = Len(data) THEN "read" ELSE "write")
                     /\ UNCHANGED <<open, result>>
    /\ Touch
    /\ UNCHANGED <<args, in_off, data, sb_src>>

ClosedBy(call) == IF call = "close_in" THEN {"in"}
                  ELSE IF call = "close_out" THEN {"out"} ELSE {}

Close ==
    /\ pc \in {"close_in", "close_out"}
    /\ open' = open \ ClosedBy(pc)
    /\ UNCHANGED <<args, file, attr, transferVars, sb_src, result>>
    /\ Proceed(After(pc))

-----------------------------------------------------------------------------
(* copy_metadata *)

\* 04 asks fstat of in_fd, 05 stat of the name; when it fails the attributes
\* are left alone and 0 is returned.  7.1 asks lstat of the name, and ends.
StatSucceeds == prog # "04" \/ "in" \in open

Stat ==
    /\ pc = "stat"
    /\ \/ /\ StatSucceeds
          /\ sb_src' = attr["src"]
          /\ Proceed(After("stat"))
       \/ /\ prog # "7.1"
          /\ ~StatSucceeds \/ "stat" \in Faults
          /\ Proceed("close_out")
          /\ UNCHANGED sb_src
    /\ UNCHANGED <<args, file, attr, open, transferVars, result>>

\* Mutant: futimens(dest_fd, NULL).
SetAttributeNow ==
    /\ \/ pc = "fchmod"   /\ attr' = [attr EXCEPT ![out].mode = sb_src.mode]
       \/ pc = "futimens" /\ attr' = [attr EXCEPT ![out].times = "now"]
       \/ /\ pc = "lchown"
          /\ attr' = [attr EXCEPT ![out].owner = sb_src.owner, ![out].mode = ClearSetuid(@)]
    /\ UNCHANGED <<args, file, open, transferVars, sb_src, result>>
    /\ Proceed(After(pc))

SetAttribute ==
    /\ \/ pc = "fchmod"   /\ attr' = [attr EXCEPT ![out].mode = sb_src.mode]
       \/ pc = "futimens" /\ attr' = [attr EXCEPT ![out].times = sb_src.times]
       \/ /\ pc = "lchown"
          /\ attr' = [attr EXCEPT ![out].owner = sb_src.owner, ![out].mode = ClearSetuid(@)]
    /\ UNCHANGED <<args, file, open, transferVars, sb_src, result>>
    /\ Proceed(After(pc))

-----------------------------------------------------------------------------
(* Failures *)

\* 03_copy.c remembers the status, which a later failure replaces, and goes on
\* to close both files; 7.1.c goes on when the copy is complete.
GoesOn == \/ prog = "03" /\ pc \notin {"open_in", "open_out"}
          \/ prog = "7.1" /\ pc \in {"fsync", "futimens"}

\* 03.2_copy.c: pwrite_all returns 1 when pwrite fails, which its caller takes
\* for success if one byte was read.
MistakenForSuccess == prog = "03.2" /\ pc = "write" /\ Len(data) = 1

CallFails ==
    /\ pc \in Faults \cap DOMAIN Program[prog].fails
    /\ \/ /\ GoesOn
          /\ result' = Program[prog].fails[pc]
          /\ open' = open \ ClosedBy(pc)
          /\ Proceed(IF pc \in {"malloc", "read", "write"} THEN "close_in" ELSE After(pc))
       \/ /\ MistakenForSuccess
          /\ Proceed("read")
          /\ UNCHANGED <<open, result>>
       \/ /\ ~GoesOn /\ ~MistakenForSuccess
          /\ End(Program[prog].fails[pc])
    /\ UNCHANGED <<args, file, attr, transferVars, sb_src>>

Kill ==
    /\ "kill" \in Faults /\ pc # "done"
    /\ End(Killed)
    /\ UNCHANGED <<args, file, attr, transferVars, sb_src>>

Step == Prepare \/ OpenIn \/ OpenOut \/ Read \/ Write \/ PositionedWrite \/ Close
           \/ Stat \/ SetAttribute

Next == Step \/ NotRegular \/ CallFails \/ Kill

\* The process is scheduled.
Spec == Init /\ [][Next]_vars /\ WF_vars(Step)

-----------------------------------------------------------------------------
\* The type invariant of a copying process and the two files.
TypeOK ==
    /\ prog \in Programs /\ out \in Outputs /\ pc \in Locations
    /\ file \in [Inodes -> Seq(Byte)]
    /\ attr \in [Inodes -> Attributes]
    /\ original \in [Inodes -> Contents]
    /\ open \subseteq {"in", "out"}
    /\ {in_off, out_off, bytes_written} \subseteq Nat
    /\ data \in Seq(Byte) /\ (Len(data) <= Chunk \/ prog \in Writers)
    /\ sb_src \in Attributes
    /\ result \in 0 .. 8 \cup {255}
    /\ exit \in {Running, Killed, 255} \cup 0 .. 8

CopyIsRight == exit = 0 => file[out] = file["src"]

\* Status 0 of a program that uses write_all means that the copy equals the
\* source, whatever was short or failed on the way.
CopyFaithful == prog # "03.2" => CopyIsRight

\* Status 0 of 03.2_copy.c, whose pwrite_all should do the same.
PositionedCopyFaithful == prog = "03.2" => CopyIsRight

\* At any moment, so also after a failure or a kill, the output is as it was or
\* holds a beginning of the source: write_all neither skips nor repeats bytes,
\* and nothing of what it held before is left behind them.
PrefixOfSource ==
    prog # "03.2" => file[out] = original[out] \/ IsPrefix(file[out], original["src"])

\* The source is not touched, unless it was named as the output too.
SourceKept == out # "src" => file["src"] = original["src"] /\ attr["src"].times = "before"

\* Every copy ends, however short its reads and writes are.
CopyEnds == <>(pc = "done")

SameAttributes == /\ attr[out].mode = attr["src"].mode
                  /\ attr[out].times = attr["src"].times
                  /\ prog = "05" => attr[out].owner = attr["src"].owner

\* Status 0 of 05_allmetadata.c and result 0 of reg_file_cpy mean that the
\* attributes are those of the source, if stat told them and the set-user-ID
\* bit was not among them.
AttributesCopied ==
    exit = 0 /\ prog \in {"05", "7.1"} /\ sb_src = attr["src"] /\ sb_src.mode # "4755" => SameAttributes

\* What 04_metadata.c says of copy_metadata: "copy mode", "copy atime, mtime".
MetadataCopied == exit = 0 /\ prog = "04" => SameAttributes
=============================================================================
