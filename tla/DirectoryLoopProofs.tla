-------------------------- MODULE DirectoryLoopProofs --------------------------
(***************************************************************************)
(* Proofs about DirectoryLoop as a part of SmallPrograms, for any names,   *)
(* any kinds of entries and any faults.                                    *)
(***************************************************************************)
EXTENDS SmallProgramsProofs, FiniteSetTheorems

-----------------------------------------------------------------------------
(* The inductive invariant. *)

\* Who is where, and when a loop has seen what was there all the time.
LoopControl ==
    /\ pc # "done" => exit = Running /\ ~complete /\ ~misread
    /\ pc \in {"mkdir", "copy", "mkdir_entry"} => prog = "7.1"
    /\ pc = "lstat" => prog = "7.1" \/ (prog \in {"6.1", "6.2"} /\ ~typed)
    /\ pc = "closedir" => prog = "6.4"
    /\ pc \in {"lstat", "copy", "mkdir_entry"} => entry \in seen
    /\ pc = "copy" => Kind[entry] = "reg"
    /\ pc = "mkdir_entry" => Kind[entry] = "dir"
    /\ exit = 0 /\ ~misread /\ prog \in {"6.1", "6.2", "6.3"} => complete
    /\ complete => steady \subseteq seen

\* The entry that was read and is not dealt with yet.
Open == IF pc \in {"lstat", "copy"} THEN {entry} ELSE {}

\* A listing has each entry that was dealt with, and has it once.
Entry(a) == listed[a].entry

EachListed ==
    prog \in {"6.1", "6.2", "6.3"} =>
        /\ \A a \in 1 .. Len(listed) : Entry(a) \in seen \ Open
        /\ \A n \in seen \ Open : \E a \in 1 .. Len(listed) : Entry(a) = n
        /\ \A a, b \in 1 .. Len(listed) : Entry(a) = Entry(b) => a = b

LinesRight ==
    \A a \in 1 .. Len(listed) :
        /\ prog = "6.3" /\ typed => listed[a].name = <<Kind[Entry(a)], Entry(a)>>
        /\ prog # "6.3" =>
               /\ listed[a].name = <<Entry(a)>>
               /\ listed[a].letter \in {"?", Loop!Letter[Kind[Entry(a)]]}

\* What 7.1 did with each regular file it has come to.  A file that ends the
\* program is not judged.
Judged ==
    prog = "7.1" /\ (pc # "done" \/ complete) =>
        \A n \in seen \ Open : Kind[n] = "reg" =>
            \/ reported[n] = "copied" /\ target[n] = "whole"
            \/ reported[n] = "failed"

LoopInv == Loop!TypeOK /\ LoopControl /\ EachListed /\ LinesRight /\ Judged

-----------------------------------------------------------------------------
(* Facts that the steps share. *)

LEMMA LoopFacts ==
    /\ Kind \in [Entries -> {"dir", "reg", "fifo"}]
    /\ "." \in Entries /\ Kind["."] = "dir"
    /\ \A n \in Entries : Loop!Letter[Kind[n]] \in Loop!Letters
    /\ {"?", "*"} \subseteq Loop!Letters
<1>1. /\ Kind \in [Entries -> {"dir", "reg", "fifo"}]
      /\ "." \in Entries /\ Kind["."] = "dir"
  BY LoopAssumption DEF Loop!LoopConstants
<1>2. \A k \in {"dir", "reg", "fifo"} : Loop!Letter[k] \in Loop!Letters
  BY DEF Loop!Letter, Loop!Letters
<1>3. {"?", "*"} \subseteq Loop!Letters
  BY DEF Loop!Letters
<1>. QED
  BY <1>1, <1>2, <1>3

LEMMA LoopTypes ==
    ASSUME LoopInv
    PROVE  /\ prog \in {"6.1", "6.2", "6.3", "6.4", "7.1"}
           /\ pc \in {"opendir", "mkdir", "readdir", "lstat", "copy", "mkdir_entry",
                      "closedir", "done"}
           /\ present \subseteq Entries /\ known \subseteq Entries /\ steady \subseteq Entries
           /\ seen \subseteq Entries /\ entry \in Entries
           /\ listed \in Seq(Loop!Line) /\ Len(listed) \in Nat
           /\ target \in [Entries -> Loop!Results]
           /\ reported \in [Entries -> {"nothing", "copied", "failed"}]
<1>1. /\ prog \in {"6.1", "6.2", "6.3", "6.4", "7.1"}
      /\ pc \in {"opendir", "mkdir", "readdir", "lstat", "copy", "mkdir_entry", "closedir",
                 "done"}
  BY DEF LoopInv, Loop!TypeOK, Loop!LoopPrograms, Loop!Listings, Loop!Calls
<1>2. listed \in Seq(Loop!Line)
  BY DEF LoopInv, Loop!TypeOK
<1>3. Len(listed) \in Nat
  BY <1>2
<1>4. /\ present \subseteq Entries /\ known \subseteq Entries /\ steady \subseteq Entries
      /\ seen \subseteq Entries /\ entry \in Entries
      /\ target \in [Entries -> Loop!Results]
      /\ reported \in [Entries -> {"nothing", "copied", "failed"}]
  BY DEF LoopInv, Loop!TypeOK
<1>. QED
  BY <1>1, <1>2, <1>3, <1>4

\* The next line of a listing is about an entry that it does not have.
LEMMA LineAdded ==
    ASSUME LoopInv, NEW line \in Loop!Line, listed' = Append(listed, line),
           UNCHANGED <<prog, typed>>, prog \in {"6.1", "6.2", "6.3"},
           line.entry \notin seen \ Open, (seen \ Open)' = (seen \ Open) \cup {line.entry},
           prog = "6.3" /\ typed => line.name = <<Kind[line.entry], line.entry>>,
           prog # "6.3" => /\ line.name = <<line.entry>>
                           /\ line.letter \in {"?", Loop!Letter[Kind[line.entry]]}
    PROVE  listed' \in Seq(Loop!Line) /\ EachListed' /\ LinesRight'
<1>1. listed \in Seq(Loop!Line) /\ Len(listed) \in Nat
  BY LoopTypes
<1>2. /\ listed' \in Seq(Loop!Line) /\ Len(listed') = Len(listed) + 1
      /\ listed'[Len(listed) + 1] = line
      /\ \A a \in 1 .. Len(listed) : listed'[a] = listed[a]
  BY <1>1
<1>3. \A a \in 1 .. Len(listed') : a \in 1 .. Len(listed) \/ a = Len(listed) + 1
  BY <1>2
<1>4. /\ \A a \in 1 .. Len(listed) : listed[a].entry \in seen \ Open
      /\ \A e \in seen \ Open : \E a \in 1 .. Len(listed) : listed[a].entry = e
      /\ \A a, b \in 1 .. Len(listed) : listed[a].entry = listed[b].entry => a = b
  BY DEF LoopInv, EachListed, Entry
<1>5. EachListed'
  <2>1. ASSUME NEW a \in 1 .. Len(listed')
        PROVE  listed'[a].entry \in (seen \ Open)'
    BY <1>1, <1>2, <1>3, <1>4
  <2>2. ASSUME NEW e \in (seen \ Open)'
        PROVE  \E a \in 1 .. Len(listed') : listed'[a].entry = e
    <3>1. CASE e \in seen \ Open
      <4>1. PICK a \in 1 .. Len(listed) : listed[a].entry = e
        BY <1>4, <3>1
      <4>2. a \in 1 .. Len(listed') /\ listed'[a].entry = e
        BY <1>2, <4>1
      <4>. QED
        BY <4>2
    <3>2. CASE e = line.entry
      <4>1. Len(listed) + 1 \in 1 .. Len(listed')
        BY <1>2
      <4>. QED
        BY <1>1, <1>2, <3>2, <4>1
    <3>. QED
      BY <2>2, <3>1, <3>2
  <2>3. ASSUME NEW a \in 1 .. Len(listed'), NEW b \in 1 .. Len(listed'),
               listed'[a].entry = listed'[b].entry
        PROVE  a = b
    <3>1. CASE a \in 1 .. Len(listed) /\ b \in 1 .. Len(listed)
      BY <1>2, <1>4, <2>3, <3>1
    <3>2. CASE a = Len(listed) + 1 /\ b \in 1 .. Len(listed)
      BY <1>1, <1>2, <1>4, <2>3, <3>2
    <3>3. CASE a \in 1 .. Len(listed) /\ b = Len(listed) + 1
      BY <1>1, <1>2, <1>4, <2>3, <3>3
    <3>. QED
      BY <1>3, <3>1, <3>2, <3>3
  <2>. QED
    BY <2>1, <2>2, <2>3 DEF EachListed, Entry
<1>6. LinesRight'
  <2>1. SUFFICES ASSUME NEW a \in 1 .. Len(listed')
                 PROVE  /\ prog = "6.3" /\ typed =>
                               listed'[a].name = <<Kind[listed'[a].entry], listed'[a].entry>>
                        /\ prog # "6.3" =>
                               /\ listed'[a].name = <<listed'[a].entry>>
                               /\ listed'[a].letter \in
                                      {"?", Loop!Letter[Kind[listed'[a].entry]]}
    BY DEF LinesRight, Entry
  <2>2. CASE a \in 1 .. Len(listed)
    BY <1>2, <2>2 DEF LoopInv, LinesRight, Entry
  <2>3. CASE a = Len(listed) + 1
    BY <1>1, <1>2, <2>3
  <2>. QED
    BY <1>3, <2>2, <2>3
<1>. QED
  BY <1>2, <1>5, <1>6

\* Nothing is listed.
LEMMA ListingStays ==
    ASSUME LoopInv, UNCHANGED <<prog, typed, listed>>,
           prog \in {"6.1", "6.2", "6.3"} => (seen \ Open)' = seen \ Open
    PROVE  EachListed' /\ LinesRight'
BY DEF LoopInv, EachListed, LinesRight, Entry

\* Nothing is copied or reported.
LEMMA JudgementStays ==
    ASSUME LoopInv, pc # "done", UNCHANGED <<prog, target, reported>>,
           (seen \ Open)' = seen \ Open
    PROVE  Judged'
BY DEF LoopInv, Judged

LEMMA LoopStart ==
    ASSUME Loop!Init PROVE LoopInv
<1>. USE DEF Loop!Init, Loop!Running, Running
<1>1. listed = << >> /\ listed \in Seq(Loop!Line)
  OBVIOUS
<1>2. Loop!TypeOK
  BY <1>1, LoopFacts DEF Loop!TypeOK, Loop!Calls, Loop!Results
<1>3. LoopControl /\ EachListed /\ LinesRight /\ Judged
  BY <1>1 DEF LoopControl, EachListed, LinesRight, Judged
<1>. QED
  BY <1>2, <1>3 DEF LoopInv

-----------------------------------------------------------------------------
(* The steps. *)

\* The entries that come and go while the program runs.
LEMMA OthersStep ==
    ASSUME LoopInv, Loop!OthersCreate \/ Loop!OthersRemove
    PROVE  LoopInv'
<1>. USE DEF Loop!resultVars, Loop!historyVars
<1>1. /\ pc # "done"
      /\ UNCHANGED <<prog, pc, exit, typed, seen, entry, listed, target, reported, complete,
                     misread>>
      /\ present' \subseteq Entries /\ known' \subseteq Entries /\ steady' \subseteq Entries
  BY LoopTypes DEF Loop!OthersCreate, Loop!OthersRemove
<1>2. Loop!TypeOK'
  BY <1>1 DEF LoopInv, Loop!TypeOK
<1>3. LoopControl'
  BY <1>1 DEF LoopInv, LoopControl
<1>4. EachListed' /\ LinesRight' /\ Judged'
  BY <1>1, ListingStays, JudgementStays DEF Open
<1>. QED
  BY <1>2, <1>3, <1>4 DEF LoopInv

\* The calls about the whole directory.
LEMMA DirectoryStep ==
    ASSUME LoopInv,
           \/ Loop!OpenDirectory \/ Loop!MakeTarget \/ Loop!EndOfDirectory \/ Loop!ReadFails
           \/ Loop!CloseDirectory \/ Loop!CallFails
    PROVE  LoopInv'
<1>. USE DEF Loop!resultVars, Loop!historyVars, Loop!directoryVars, Loop!GoTo, Loop!End,
             Loop!Running, Running
<1>1. /\ pc \in {"opendir", "mkdir", "readdir", "closedir"}
      /\ UNCHANGED <<prog, present, known, steady, typed, seen, entry, listed, target, reported>>
      /\ \/ /\ pc' \in {"mkdir", "readdir"} /\ (pc' = "mkdir" => prog = "7.1")
            /\ UNCHANGED <<exit, complete, misread>>
         \/ /\ pc' = "done"
            /\ exit' \in {Loop!Crashed, 0, 1, 3}
            /\ \/ complete' = TRUE /\ steady \subseteq seen /\ misread' = misread
               \/ complete' = complete /\ misread' = TRUE
               \/ /\ complete' = complete /\ misread' = misread
                  /\ exit' \in {1, 3} \/ pc = "closedir"
  BY DEF Loop!OpenDirectory, Loop!MakeTarget, Loop!EndOfDirectory, Loop!ReadFails,
         Loop!CloseDirectory, Loop!CallFails, Loop!NormalStatus
<1>2. /\ Loop!TypeOK /\ LoopControl
  BY DEF LoopInv
<1>3. /\ pc' \in Loop!Calls \cup {"done"} /\ exit' \in {Running, Loop!Crashed, 0, 1, 3}
      /\ {typed, complete, misread}' \subseteq BOOLEAN
  <2>1. pc' \in Loop!Calls \cup {"done"} /\ exit' \in {Running, Loop!Crashed, 0, 1, 3}
    BY <1>1, <1>2 DEF Loop!TypeOK, Loop!Calls
  <2>2. typed \in BOOLEAN /\ complete \in BOOLEAN /\ misread \in BOOLEAN
    BY <1>2 DEF Loop!TypeOK
  <2>3. /\ typed' = typed
        /\ complete' = TRUE \/ complete' = complete
        /\ misread' = TRUE \/ misread' = misread
    BY <1>1
  <2>4. typed' \in BOOLEAN /\ complete' \in BOOLEAN /\ misread' \in BOOLEAN
    BY <2>2, <2>3, Zenon
  <2>. QED
    BY <2>1, <2>4
<1>4. Loop!TypeOK'
  BY <1>1, <1>2, <1>3 DEF Loop!TypeOK
<1>5. LoopControl'
  BY <1>1, <1>2 DEF LoopControl
<1>6. (seen \ Open)' = seen \ Open
  BY <1>1 DEF Open
<1>7. EachListed' /\ LinesRight' /\ Judged'
  BY <1>1, <1>6, ListingStays, JudgementStays
<1>. QED
  BY <1>4, <1>5, <1>7 DEF LoopInv

\* readdir returns an entry.
LEMMA ReadStep ==
    ASSUME LoopInv,
           Loop!ListEntry \/ Loop!ListRecord \/ Loop!LeaveLoop \/ Loop!LookUpEntry
    PROVE  LoopInv'
<1>. USE DEF Loop!historyVars, Loop!directoryVars, Loop!GoTo, Loop!Running, Running
<1>1. PICK n \in Entries :
          /\ Loop!ReadEntry(n)
          /\ \/ /\ prog \in {"6.1", "6.2"} /\ typed /\ pc' = "readdir"
                /\ Loop!List(n, <<n>>, Loop!Letter[Kind[n]])
             \/ /\ prog = "6.3" /\ pc' = "readdir"
                /\ Loop!List(n, IF typed THEN <<Kind[n], n>> ELSE << >>, "*")
             \/ prog = "6.4" /\ pc' = "closedir" /\ listed' = listed
             \/ /\ prog = "7.1" \/ (prog \in {"6.1", "6.2"} /\ ~typed)
                /\ pc' = "lstat" /\ listed' = listed
          /\ exit' = exit
  BY DEF Loop!ListEntry, Loop!ListRecord, Loop!LeaveLoop, Loop!LookUpEntry
<1>2. /\ pc = "readdir" /\ n \notin seen /\ seen' = seen \cup {n} /\ entry' = n
      /\ UNCHANGED <<prog, present, known, steady, typed, target, reported, complete, misread>>
  BY <1>1 DEF Loop!ReadEntry
<1>3. /\ Loop!TypeOK /\ LoopControl /\ Judged /\ exit = Running /\ ~complete /\ ~misread
      /\ listed \in Seq(Loop!Line)
  BY <1>2, LoopTypes DEF LoopInv, LoopControl
<1>4. LoopControl'
  BY <1>1, <1>2, <1>3 DEF LoopControl
<1>5. /\ Open = {}
      /\ pc' = "lstat" => (seen \ Open)' = seen \ Open
      /\ pc' # "lstat" => (seen \ Open)' = (seen \ Open) \cup {n}
  BY <1>1, <1>2 DEF Open
<1>6. listed' \in Seq(Loop!Line) /\ EachListed' /\ LinesRight'
  <2>1. CASE prog \in {"6.1", "6.2"} /\ typed
    <3>1. PICK line \in Loop!Line :
              /\ line = [entry |-> n, name |-> <<n>>, letter |-> Loop!Letter[Kind[n]]]
              /\ listed' = Append(listed, line)
      BY <1>1, <2>1, LoopFacts DEF Loop!List, Loop!Line, Loop!Names
    <3>. QED
      BY <1>1, <1>2, <1>5, <2>1, <3>1, LineAdded
  <2>2. CASE prog = "6.3"
    <3>1. PICK line \in Loop!Line :
              /\ line = [entry |-> n, name |-> IF typed THEN <<Kind[n], n>> ELSE << >>,
                         letter |-> "*"]
              /\ listed' = Append(listed, line)
      BY <1>1, <2>2, LoopFacts DEF Loop!List, Loop!Line, Loop!Names
    <3>. QED
      BY <1>1, <1>2, <1>5, <2>2, <3>1, LineAdded
  <2>3. CASE prog = "6.4" \/ pc' = "lstat"
    BY <1>1, <1>2, <1>3, <1>5, <2>3, ListingStays
  <2>. QED
    BY <1>1, <2>1, <2>2, <2>3
<1>7. Loop!TypeOK'
  <2>1. pc' \in Loop!Calls \cup {"done"} /\ seen' \subseteq Entries /\ entry' \in Entries
    BY <1>1, <1>2, <1>3 DEF Loop!TypeOK, Loop!Calls
  <2>2. UNCHANGED <<prog, exit, present, known, steady, target, reported, typed, complete, misread>>
    BY <1>1, <1>2
  <2>. QED
    BY <1>3, <1>6, <2>1, <2>2 DEF Loop!TypeOK
<1>8. Judged'
  <2>1. CASE prog = "7.1"
    BY <1>1, <1>2, <1>5, <2>1, JudgementStays
  <2>2. CASE prog # "7.1"
    BY <1>2, <2>2 DEF Judged
  <2>. QED
    BY <2>1, <2>2
<1>. QED
  BY <1>4, <1>6, <1>7, <1>8 DEF LoopInv

\* 7.1 is done with an entry.
LEMMA EntryJudged ==
    ASSUME LoopInv, pc # "done", prog' = prog,
           (seen \ Open)' = (seen \ Open) \cup {entry},
           \A n \in Entries \ {entry} : target'[n] = target[n] /\ reported'[n] = reported[n],
           Kind[entry] = "reg" =>
               \/ reported'[entry] = "copied" /\ target'[entry] = "whole"
               \/ reported'[entry] = "failed"
    PROVE  Judged'
BY LoopTypes DEF LoopInv, Judged

\* lstat tells what the entry is, or fails.
LEMMA LookUpStep ==
    ASSUME LoopInv, Loop!ListLookedUp \/ Loop!Dispatch \/ Loop!LstatFails
    PROVE  LoopInv'
<1>. USE DEF Loop!historyVars, Loop!directoryVars, Loop!resultVars, Loop!GoTo,
             Loop!Running, Running
<1>1. /\ pc = "lstat" /\ exit' = exit
      /\ UNCHANGED <<prog, present, known, steady, typed, seen, entry, target, complete, misread>>
      /\ \/ /\ prog \in Loop!Listings /\ pc' = "readdir" /\ reported' = reported
            /\ \/ Loop!List(entry, <<entry>>, Loop!Letter[Kind[entry]])
               \/ Loop!List(entry, <<entry>>, "?")
         \/ /\ prog = "7.1" /\ listed' = listed /\ reported' = reported
            /\ \/ Kind[entry] = "reg" /\ pc' = "copy"
               \/ Kind[entry] = "dir" /\ pc' = "mkdir_entry"
               \/ Kind[entry] = "fifo" /\ pc' = "readdir"
         \/ /\ prog \notin Loop!Listings /\ listed' = listed /\ pc' = "readdir"
            /\ reported' = [reported EXCEPT ![entry] = "failed"]
  BY DEF Loop!ListLookedUp, Loop!Dispatch, Loop!LstatFails
<1>2. /\ Loop!TypeOK /\ LoopControl /\ Judged /\ entry \in seen /\ entry \in Entries
      /\ Kind \in [Entries -> {"dir", "reg", "fifo"}]
      /\ listed \in Seq(Loop!Line) /\ reported \in [Entries -> {"nothing", "copied", "failed"}]
  BY <1>1, LoopTypes, LoopFacts DEF LoopInv, LoopControl
<1>3. LoopControl'
  BY <1>1, <1>2 DEF LoopControl
<1>4. /\ Open = {entry} /\ entry \notin seen \ Open
      /\ pc' = "copy" => (seen \ Open)' = seen \ Open
      /\ pc' # "copy" => (seen \ Open)' = (seen \ Open) \cup {entry}
  BY <1>1, <1>2 DEF Open
<1>5. listed' \in Seq(Loop!Line) /\ EachListed' /\ LinesRight'
  <2>1. CASE prog \in Loop!Listings
    <3>1. PICK line \in Loop!Line :
              /\ line.entry = entry /\ line.name = <<entry>>
              /\ line.letter \in {"?", Loop!Letter[Kind[entry]]}
              /\ listed' = Append(listed, line)
      BY <1>1, <1>2, <2>1, LoopFacts DEF Loop!List, Loop!Line, Loop!Names, Loop!Listings
    <3>2. prog \in {"6.1", "6.2"} /\ pc' = "readdir"
      BY <1>1, <1>2, <2>1 DEF LoopControl, Loop!Listings
    <3>. QED
      BY <1>1, <1>4, <3>1, <3>2, LineAdded
  <2>2. CASE prog \notin Loop!Listings
    BY <1>1, <1>2, <2>2, ListingStays DEF Loop!Listings
  <2>. QED
    BY <2>1, <2>2
<1>6. Loop!TypeOK'
  <2>1. pc' \in Loop!Calls \cup {"done"} /\ reported' \in [Entries -> {"nothing", "copied", "failed"}]
    BY <1>1, <1>2 DEF Loop!Calls
  <2>. QED
    BY <1>1, <1>2, <1>5, <2>1 DEF Loop!TypeOK
<1>7. Judged'
  <2>1. CASE prog # "7.1"
    BY <1>1, <2>1 DEF Judged
  <2>2. CASE prog = "7.1" /\ pc' = "copy"
    BY <1>1, <1>4, <2>2, JudgementStays DEF Loop!Listings
  <2>3. CASE prog = "7.1" /\ Kind[entry] # "reg" /\ reported' = reported /\ pc' # "copy"
    BY <1>1, <1>4, <2>3, EntryJudged DEF Loop!Listings
  <2>4. CASE prog = "7.1" /\ reported' = [reported EXCEPT ![entry] = "failed"] /\ pc' = "readdir"
    <3>1. /\ reported'[entry] = "failed"
          /\ \A n \in Entries \ {entry} : reported'[n] = reported[n] /\ target'[n] = target[n]
      BY <1>1, <1>2, <2>4
    <3>. QED
      BY <1>1, <1>4, <2>4, <3>1, EntryJudged
  <2>. QED
    BY <1>1, <2>1, <2>2, <2>3, <2>4 DEF Loop!Listings
<1>. QED
  BY <1>3, <1>5, <1>6, <1>7 DEF LoopInv

\* 7.1 copies the entry.
LEMMA CopyStep ==
    ASSUME LoopInv, Loop!CopyFile \/ Loop!CopyFileExits \/ Loop!MakeSubdirectory
    PROVE  LoopInv'
<1>. USE DEF Loop!historyVars, Loop!directoryVars, Loop!resultVars, Loop!GoTo, Loop!End,
             Loop!Report, Loop!Running, Running
<1>1. /\ pc \in {"copy", "mkdir_entry"}
      /\ UNCHANGED <<prog, present, known, steady, typed, seen, entry, listed, complete, misread>>
      /\ \/ /\ pc = "copy" /\ pc' = "readdir" /\ exit' = exit
            /\ target' = [target EXCEPT ![entry] = "whole"]
            /\ reported' = [reported EXCEPT ![entry] = "copied"]
         \/ /\ pc = "copy" /\ pc' = "readdir" /\ exit' = exit
            /\ target' \in {[target EXCEPT ![entry] = copy] : copy \in {"part", "whole"}}
            /\ reported' = [reported EXCEPT ![entry] = "failed"]
         \/ /\ pc = "copy" /\ pc' = "done" /\ exit' = 1
            /\ target' \in {target, [target EXCEPT ![entry] = "part"]} /\ reported' = reported
         \/ /\ pc = "mkdir_entry" /\ pc' = "readdir" /\ exit' = exit
            /\ target' \in {target, [target EXCEPT ![entry] = "whole"]}
            /\ reported' \in {reported, [reported EXCEPT ![entry] = "copied"]}
  BY DEF Loop!CopyFile, Loop!CopyFileExits, Loop!MakeSubdirectory, Loop!Leave
<1>2. /\ Loop!TypeOK /\ LoopControl /\ prog = "7.1" /\ entry \in seen /\ entry \in Entries
      /\ ~complete
      /\ target \in [Entries -> Loop!Results]
      /\ reported \in [Entries -> {"nothing", "copied", "failed"}]
  BY <1>1, LoopTypes DEF LoopInv, LoopControl
<1>3. /\ target' \in [Entries -> Loop!Results]
      /\ reported' \in [Entries -> {"nothing", "copied", "failed"}]
      /\ \A n \in Entries \ {entry} : target'[n] = target[n] /\ reported'[n] = reported[n]
  BY <1>1, <1>2 DEF Loop!Results
<1>4. Loop!TypeOK'
  <2>1. pc' \in Loop!Calls \cup {"done"} /\ exit' \in {Running, Loop!Crashed, 0, 1, 3}
    BY <1>1, <1>2 DEF Loop!TypeOK, Loop!Calls
  <2>. QED
    BY <1>1, <1>2, <1>3, <2>1 DEF Loop!TypeOK
<1>5. LoopControl'
  BY <1>1, <1>2 DEF LoopControl
<1>6. EachListed' /\ LinesRight'
  BY <1>1, <1>2, ListingStays
<1>7. Judged'
  <2>1. CASE pc' = "done"
    BY <1>1, <1>2, <2>1 DEF Judged
  <2>2. CASE pc' = "readdir"
    <3>1. (seen \ Open)' = (seen \ Open) \cup {entry}
      BY <1>1, <1>2, <2>2 DEF Open
    <3>2. Kind[entry] = "reg" =>
              \/ reported'[entry] = "copied" /\ target'[entry] = "whole"
              \/ reported'[entry] = "failed"
      BY <1>1, <1>2, <2>2 DEF LoopControl
    <3>. QED
      BY <1>1, <1>3, <3>1, <3>2, EntryJudged
  <2>. QED
    BY <1>1, <2>1, <2>2
<1>. QED
  BY <1>4, <1>5, <1>6, <1>7 DEF LoopInv

LEMMA LoopInvariant == Spec => [](Looping => LoopInv)
<1>1. Init => (Looping => LoopInv)
  BY LoopStart DEF Init
<1>2. (Looping => LoopInv) /\ [Next]_vars => (Looping => LoopInv)'
  <2>. SUFFICES ASSUME Looping => LoopInv, [Next]_vars, Looping' PROVE LoopInv'
    OBVIOUS
  <2>1. CASE Loop!Next
    BY <2>1, OwnSteps, OthersStep, DirectoryStep, ReadStep, LookUpStep, CopyStep
    DEF Loop!Next, Loop!Step
  <2>2. CASE UNCHANGED vars
    BY <2>2, OwnSteps
    DEF vars, directoryVars, LoopInv, Loop!TypeOK, LoopControl, EachListed, LinesRight,
        Judged, Open, Entry
  <2>. QED
    BY <2>1, <2>2, OwnSteps
<1>. QED
  BY <1>1, <1>2, PTL DEF Spec

\* A listing that ends with 0, and met no error of readdir, shows each entry that
\* was there all the time in exactly one line, whatever else comes and goes while
\* it runs: 6.1 and 6.2 by its name and under no wrong letter, 6.3, on a file
\* system that fills d_type, by the byte of the type followed by the name.
THEOREM EntriesAreListed == Spec => []AllListed
<1>1. ASSUME Looping => LoopInv PROVE AllListed
  <2>1. SUFFICES ASSUME LoopInv, exit = 0, ~misread, prog \in {"6.1", "6.2", "6.3"}
                 PROVE  Loop!AllListed
    BY <1>1 DEF AllListed, Loop!AllListed
  <2>2. /\ DOMAIN listed = 1 .. Len(listed)
        /\ steady \subseteq seen \ Open
        /\ EachListed /\ LinesRight
    BY <2>1, LoopTypes DEF LoopInv, LoopControl, Open, Running
  <2>3. ASSUME NEW n \in steady, NEW name,
               \A a \in 1 .. Len(listed) : listed[a].name = name <=> Entry(a) = n
        PROVE  Loop!ListedOnce(name)
    <3>1. PICK b \in 1 .. Len(listed) : Entry(b) = n
      BY <2>1, <2>2 DEF EachListed
    <3>2. \A a \in 1 .. Len(listed) : listed[a].name = name <=> a = b
      BY <2>1, <2>2, <2>3, <3>1 DEF EachListed
    <3>3. {a \in DOMAIN listed : listed[a].name = name} = {b}
      BY <2>2, <3>2
    <3>4. Cardinality({b}) = 1
      BY FS_Singleton
    <3>. QED
      BY <3>3, <3>4 DEF Loop!ListedOnce, Loop!Cardinality, Cardinality
  <2>4. CASE prog # "6.3"
    <3>1. ASSUME NEW n \in steady, NEW a \in 1 .. Len(listed)
          PROVE  listed[a].name = <<n>> <=> Entry(a) = n
      BY <2>2, <2>4 DEF LinesRight
    <3>2. \A n \in steady : Loop!ListedOnce(<<n>>)
      BY <2>3, <3>1
    <3>. QED
      BY <2>1, <2>2, <2>4, <3>2 DEF Loop!AllListed, LinesRight, Entry
  <2>5. CASE prog = "6.3"
    <3>1. ASSUME typed, NEW n \in steady, NEW a \in 1 .. Len(listed)
          PROVE  listed[a].name = <<Kind[n], n>> <=> Entry(a) = n
      BY <2>2, <2>5, <3>1 DEF LinesRight
    <3>2. typed => \A n \in steady : Loop!ListedOnce(<<Kind[n], n>>)
      BY <2>3, <3>1
    <3>. QED
      BY <2>5, <3>2 DEF Loop!AllListed
  <2>. QED
    BY <2>1, <2>4, <2>5
<1>. QED
  BY <1>1, LoopInvariant, PTL

\* When 7.1.c has gone through its directory, it has reported each regular file
\* that was there all the time, and those it reported copied are whole.
THEOREM TreeIsCopied == Spec => []TreeCopied
<1>1. ASSUME Looping => LoopInv PROVE TreeCopied
  <2>1. SUFFICES ASSUME LoopInv, complete, prog = "7.1" PROVE Loop!TreeCopied
    BY <1>1 DEF TreeCopied, Loop!TreeCopied
  <2>2. pc = "done" /\ steady \subseteq seen \ Open /\ steady \subseteq Entries
    BY <2>1, LoopTypes DEF LoopInv, LoopControl, Open
  <2>. QED
    BY <2>1, <2>2 DEF LoopInv, Judged, Loop!TreeCopied
<1>. QED
  BY <1>1, LoopInvariant, PTL
=============================================================================
