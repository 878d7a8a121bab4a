---- MODULE ExitStatus ----
(***************************************************************************)
(* What wait tells a parent of a process of these programs.  The code ends *)
(* with the numbers it passes to exit or returns from main; a shell shows  *)
(* 128 + the signal of a process that one ended.                           *)
(***************************************************************************)
EXTENDS Naturals

\* What exit can pass on to the parent.
Status == 0 .. 255

\* Ended by SIGKILL or SIGSEGV, or not ended yet.
Killed  == 128 + 9
Crashed == 128 + 11
Running == 256
====
