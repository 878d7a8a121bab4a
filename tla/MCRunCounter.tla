----------------------------- MODULE MCRunCounter -----------------------------
(* Instances of RunCounter for TLC. *)
EXTENDS RunCounter

\* data.txt: absent, a number about to grow a digit, one typed with an editor
\* (a newline at its end), one padded on the left, a negative one, INT_MAX of
\* the instance, and no number at all.
MCInitialFiles == {<< >>, <<9>>, <<9, 9>>, <<9, Blank>>, <<Blank, 0, 8>>,
                   <<Minus, 1>>, <<1, 2, 0>>, <<Letter>>}

\* The same without what 11.c never writes: padding and a sign.
MCPlainFiles == {<< >>, <<9>>, <<9, 9>>, <<9, Blank>>, <<9, 9, Blank>>, <<Letter>>}

\* Every call may fail and every run may be killed at any point.
MCAllFaults == FaultNames

\* Failures 11.c notices, before and after its pwrite, and kills.
MCReportedFaults == {"write", "unlock", "kill"}

MCReadFault == {"read"}
=============================================================================
