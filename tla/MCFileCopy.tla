------------------------------ MODULE MCFileCopy ------------------------------
(* Instances of FileCopy for TLC. *)
EXTENDS FileCopy

MCAll == DOMAIN Program
MCPositioned == {"03.2"}
MC04 == {"04"}

\* Bytes that differ show a skipped or a repeated one; one content is empty,
\* one is a byte, one just fills a read, one needs two reads.  None but the
\* empty one is the beginning of another.
MCContents == {<< >>, <<1>>, <<2, 1, 3>>, <<3, 1, 2, 4, 5>>}

MCModes == {"0600", "4755"}

MCBoth == {"src", "dst"}
MCOther == {"dst"}

MCAllFaults == (Locations \ {"done"}) \cup {"irregular", "kill"}
=============================================================================
