---------------------------- MODULE DirectoryLoop ----------------------------
(***************************************************************************)
(* The programs that read a directory to its end while others change it:   *)
(* the listings 6.1_readdir.c, 6.2_readdir.c, 6.3_getdents.c and           *)
(* 6.4_recurs.c, and 7.1.c, which copies what it finds (the copy of one    *)
(* regular file is the program "7.1" of FileCopy and has only its outcome  *)
(* here).  One action is one system call and what is done with its result. *)
(***************************************************************************)
EXTENDS ExitStatus, Sequences, SequencesExt, FiniteSets

CONSTANTS
    Entries,    \* the names that the directory may hold
    Kind,       \* what each of them is: "dir", "reg" or "fifo"
    Faults      \* the calls that may fail

LoopConstants ==
    /\ Kind \in [Entries -> {"dir", "reg", "fifo"}]
    /\ "." \in Entries /\ Kind["."] = "dir"

VARIABLES
    prog, pc, exit,
    present,        \* the names in the directory
    known,          \* those that were in it at some time since it was opened
    steady,         \* those that were in it all the time
    typed,          \* the file system fills d_type, which 6.4 and 7.1 do not use
    seen,           \* the names that the stream has returned
    entry,          \* the last of them
    listed,         \* the lines of a listing
    target,         \* 7.1: what the new directory holds for each name
    reported,       \* 7.1: what was printed about each name
    complete,       \* history: the loop was left at its end
    misread         \* history: an error of readdir

directoryVars == <<present, known, steady, typed>>
resultVars == <<listed, target, reported>>
historyVars == <<complete, misread>>
vars == <<prog, pc, exit, directoryVars, seen, entry, resultVars, historyVars>>

Listings == {"6.1", "6.2", "6.3", "6.4"}
LoopPrograms == Listings \cup {"7.1"}
Calls == {"opendir", "mkdir", "readdir", "lstat", "copy", "mkdir_entry", "closedir"}

Init ==
    /\ prog \in LoopPrograms
    /\ pc = "opendir" /\ exit = Running
    /\ present \in {names \in SUBSET Entries : "." \in names}
    /\ known = present /\ steady = present
    /\ typed \in BOOLEAN /\ (prog \in {"6.4", "7.1"} => typed)
    /\ seen = {} /\ entry = "."
    /\ listed = << >>
    /\ target = [n \in Entries |-> "nothing"]
    /\ reported = [n \in Entries |-> "nothing"]
    /\ complete = FALSE /\ misread = FALSE

-----------------------------------------------------------------------------
(* The directory: a stream returns each name that stays in it once, and may *)
(* return those that come or go.  Others use a name once.                   *)

OthersCreate ==
    /\ pc # "done"
    /\ \E n \in Entries \ known :
           /\ present' = present \cup {n}
           /\ known' = known \cup {n}
           /\ steady' = IF pc = "opendir" THEN steady \cup {n} ELSE steady
    /\ UNCHANGED <<prog, pc, exit, typed, seen, entry, resultVars, historyVars>>

OthersRemove ==
    /\ pc # "done"
    /\ \E n \in present \ {"."} : present' = present \ {n} /\ steady' = steady \ {n}
    /\ known' = IF pc = "opendir" THEN present' ELSE known
    /\ UNCHANGED <<prog, pc, exit, typed, seen, entry, resultVars, historyVars>>

-----------------------------------------------------------------------------
(* The programs *)

GoTo(call) == pc' = call /\ UNCHANGED exit
End(status) == pc' = "done" /\ exit' = status

OpenDirectory ==
    /\ pc = "opendir"
    /\ GoTo(IF prog = "7.1" THEN "mkdir" ELSE "readdir")
    /\ UNCHANGED <<prog, directoryVars, seen, entry, resultVars, historyVars>>

MakeTarget ==
    /\ pc = "mkdir"
    /\ GoTo("readdir")
    /\ UNCHANGED <<prog, directoryVars, seen, entry, resultVars, historyVars>>

Letter == [dir |-> "d", reg |-> "-", fifo |-> "p"]
Letters == {Letter[k] : k \in DOMAIN Letter} \cup {"?", "*"}

\* A line of a listing about the entry n.  What it shows as the name is a
\* sequence, as 6.3 prints more than the name.
List(n, name, letter) == listed' = Append(listed, [entry |-> n, name |-> name, letter |-> letter])

\* readdir returns the entry n.
ReadEntry(n) ==
    /\ pc = "readdir" /\ n \in known \ seen
    /\ seen' = seen \cup {n} /\ entry' = n
    /\ UNCHANGED <<prog, directoryVars, target, reported, historyVars>>

\* 6.1 and 6.2 list an entry whose type readdir told.
ListEntry ==
    /\ prog \in {"6.1", "6.2"} /\ typed
    /\ \E n \in Entries : ReadEntry(n) /\ List(n, <<n>>, Letter[Kind[n]])
    /\ GoTo("readdir")

\* 6.3 reads the records of getdents64 as those of getdents: the d_name it
\* prints is the byte of the type and then the name, and is empty when that byte
\* is the 0 of DT_UNKNOWN.  The type it shows is the last byte of the record,
\* the end of the name or padding that nobody wrote (*).
ListRecord ==
    /\ prog = "6.3"
    /\ \E n \in Entries :
           ReadEntry(n) /\ List(n, IF typed THEN <<Kind[n], n>> ELSE << >>, "*")
    /\ GoTo("readdir")

\* 6.4 leaves its loop at the first entry: the condition is inverted.
LeaveLoop ==
    /\ prog = "6.4"
    /\ \E n \in Entries : ReadEntry(n)
    /\ GoTo("closedir") /\ UNCHANGED listed

\* 7.1, and 6.1 and 6.2 without a type, ask lstat about the entry.
LookUpEntry ==
    /\ prog = "7.1" \/ (prog \in {"6.1", "6.2"} /\ ~typed)
    /\ \E n \in Entries : ReadEntry(n)
    /\ GoTo("lstat") /\ UNCHANGED listed

\* The status of a listing; 7.1 returns 1 in any case.
NormalStatus == IF prog = "7.1" THEN 1 ELSE 0

EndOfDirectory ==
    /\ pc = "readdir" /\ prog # "6.4"
    /\ steady \subseteq seen
    /\ End(NormalStatus)
    /\ complete' = TRUE
    /\ UNCHANGED <<prog, directoryVars, seen, entry, resultVars, misread>>

\* readdir returns NULL for an error as for the end: 6.1 looks at errno, but at
\* a local variable of that name; 6.2 and 7.1 do not; 6.4 uses the entry.
ReadFails ==
    /\ pc = "readdir" /\ "readdir" \in Faults
    /\ \/ prog = "6.3" /\ End(1)
       \/ prog = "6.4" /\ End(Crashed)
       \/ prog \notin {"6.3", "6.4"} /\ End(NormalStatus)
    /\ misread' = TRUE
    /\ UNCHANGED <<prog, directoryVars, seen, entry, resultVars, complete>>

ListLookedUp ==
    /\ pc = "lstat" /\ prog \in Listings /\ entry \in present
    /\ List(entry, <<entry>>, Letter[Kind[entry]])
    /\ GoTo("readdir")
    /\ UNCHANGED <<prog, directoryVars, seen, entry, target, reported, historyVars>>

\* 7.1 leaves out what is neither a file nor a directory.
Dispatch ==
    /\ pc = "lstat" /\ prog = "7.1" /\ entry \in present
    /\ \/ Kind[entry] = "reg" /\ GoTo("copy")
       \/ Kind[entry] = "dir" /\ GoTo("mkdir_entry")
       \/ Kind[entry] = "fifo" /\ GoTo("readdir")
    /\ UNCHANGED <<prog, directoryVars, seen, entry, resultVars, historyVars>>

\* Mutant: an entry that lstat does not find is taken for the end.
LstatFailsEnds ==
    /\ pc = "lstat" /\ (entry \notin present \/ "lstat" \in Faults)
    /\ End(NormalStatus)
    /\ complete' = TRUE
    /\ UNCHANGED <<prog, directoryVars, seen, entry, resultVars, misread>>

\* The listings keep '?', 7.1 reports and continues.
LstatFails ==
    /\ pc = "lstat" /\ (entry \notin present \/ "lstat" \in Faults)
    /\ GoTo("readdir")
    /\ IF prog \in Listings
         THEN List(entry, <<entry>>, "?") /\ UNCHANGED reported
         ELSE reported' = [reported EXCEPT ![entry] = "failed"] /\ UNCHANGED listed
    /\ UNCHANGED <<prog, directoryVars, seen, entry, target, historyVars>>

\* What 7.1 prints about the entry.
Report(what) == reported' = [reported EXCEPT ![entry] = what]

\* Mutant: "has been copied" whatever reg_file_cpy returned.
CopyFileAlwaysCopied ==
    /\ pc = "copy"
    /\ \/ /\ entry \in present
          /\ target' = [target EXCEPT ![entry] = "whole"]
       \/ /\ entry \in present /\ "copy" \in Faults
          /\ target' = [target EXCEPT ![entry] = "part"]
    /\ Report("copied")
    /\ GoTo("readdir")
    /\ UNCHANGED <<prog, directoryVars, seen, entry, listed, historyVars>>

Leave(copy) == target' = [target EXCEPT ![entry] = copy]

\* reg_file_cpy returned: a read, a write, or fsync and futimens after the last
\* write, that fails gives -1.
CopyFile ==
    /\ pc = "copy" /\ entry \in present
    /\ \/ Leave("whole") /\ Report("copied")
       \/ "copy" \in Faults /\ (Leave("part") \/ Leave("whole")) /\ Report("failed")
    /\ GoTo("readdir")
    /\ UNCHANGED <<prog, directoryVars, seen, entry, listed, historyVars>>

\* It did not: a file that cannot be opened any more ends the whole program, as
\* does a failure of fchmod, when the new file is there and is empty.
CopyFileExits ==
    /\ pc = "copy"
    /\ \/ (entry \notin present \/ "copy" \in Faults) /\ UNCHANGED target
       \/ entry \in present /\ "copy" \in Faults /\ Leave("part")
    /\ End(1)
    /\ UNCHANGED <<prog, directoryVars, seen, entry, listed, reported, historyVars>>

\* The message is that of a success, in the branch of the failure; "." is such
\* a one, as the target exists.
MakeSubdirectory ==
    /\ pc = "mkdir_entry"
    /\ \/ entry # "." /\ target' = [target EXCEPT ![entry] = "whole"] /\ UNCHANGED reported
       \/ (entry = "." \/ "mkdir_entry" \in Faults) /\ Report("copied") /\ UNCHANGED target
    /\ GoTo("readdir")
    /\ UNCHANGED <<prog, directoryVars, seen, entry, listed, historyVars>>

CloseDirectory ==
    /\ pc = "closedir"
    /\ End(0)
    /\ UNCHANGED <<prog, directoryVars, seen, entry, resultVars, historyVars>>

CallFails ==
    /\ pc \in Faults \cap {"opendir", "mkdir", "closedir"}
    /\ End(IF pc = "closedir" THEN 3 ELSE 1)
    /\ UNCHANGED <<prog, directoryVars, seen, entry, resultVars, historyVars>>

Step == OpenDirectory \/ MakeTarget \/ ListEntry \/ ListRecord \/ LeaveLoop \/ LookUpEntry
           \/ EndOfDirectory \/ ListLookedUp \/ Dispatch \/ LstatFails \/ CopyFile \/ CopyFileExits \/ MakeSubdirectory \/ CloseDirectory

Next == Step \/ ReadFails \/ CallFails \/ OthersCreate \/ OthersRemove

\* The process is scheduled; a step of it is possible whatever fails.
Spec == Init /\ [][Next]_vars /\ WF_vars(Step)

-----------------------------------------------------------------------------
Results == {"nothing", "whole", "part"}
Names == {<< >>} \cup {<<n>> : n \in Entries} \cup {<<Kind[n], n>> : n \in Entries}
Line == [entry : Entries, name : Names, letter : Letters]

\* The type invariant of the loop and of the directory it reads.
TypeOK ==
    /\ prog \in LoopPrograms /\ pc \in Calls \cup {"done"}
    /\ exit \in {Running, Crashed, 0, 1, 3}
    /\ {present, known, steady, seen} \subseteq SUBSET Entries /\ entry \in Entries
    /\ listed \in Seq(Line)
    /\ target \in [Entries -> Results]
    /\ reported \in [Entries -> {"nothing", "copied", "failed"}]
    /\ {typed, complete, misread} \subseteq BOOLEAN

\* Exactly one line of the listing shows this name.
ListedOnce(name) == Cardinality({i \in DOMAIN listed : listed[i].name = name}) = 1

\* A listing that ended with 0, and met no error of readdir, names every entry
\* that was there all the time, once, and shows no wrong letter.  6.3 shows it
\* with the byte of its type before the name, if the file system fills d_type.
AllListed ==
    exit = 0 /\ ~misread =>
        /\ prog \in {"6.1", "6.2"} =>
               /\ \A n \in steady : ListedOnce(<<n>>)
               /\ \A i \in DOMAIN listed :
                      listed[i].letter \in {"?", Letter[Kind[listed[i].entry]]}
        /\ prog = "6.3" /\ typed => \A n \in steady : ListedOnce(<<Kind[n], n>>)

\* When 7.1 has gone through the directory, each regular file that was there
\* all the time was reported: failed, or copied, and then it is whole.
TreeCopied ==
    complete /\ prog = "7.1" =>
        \A n \in steady : Kind[n] = "reg" =>
            \/ reported[n] = "copied" /\ target[n] = "whole"
            \/ reported[n] = "failed"
=============================================================================
