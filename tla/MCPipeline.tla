------------------------------ MODULE MCPipeline ------------------------------
(* Instances of Pipeline for TLC. *)
EXTENDS Pipeline

MCAll == DOMAIN Program
MCLast == {"14.3"}

\* Started by a shell as usual, or with stdin or stdout closed (<&- and >&-).
MCAnyStart == SUBSET {0, 1}
MCNoStdin == {{1}}

MCAllFaults == {"pipe", "fork", "dup2", "exec", "kill"}
=============================================================================
