------------------------------ MODULE NodeCopy ------------------------------
(***************************************************************************)
(* The programs that copy what is not a regular file: copy_fifo.c,         *)
(* copy_node.c, and "3*.c" for fifos, devices and symbolic links.  Each    *)
(* looks up the source, then (but for a link) the destination, and makes   *)
(* a node if the destination seems to be absent, while another process may *)
(* create or remove either name.  One action is one system call.           *)
(***************************************************************************)
EXTENDS ExitStatus

CONSTANTS
    Permissions,    \* the permission bits
    Execute,        \* those to execute: 0777 has them and 0644 has not
    Umask,          \* those that the process takes away
    Faults          \* the calls that may fail for other reasons

NodeConstants == Execute \cup Umask \subseteq Permissions

VARIABLES
    prog, pc, exit,
    src, dst,       \* what the two names stand for
    sb_src,         \* what lstat said of the source
    absent,         \* history: the destination must be made: it was looked up
                    \* and not there, or is that of a link
    made            \* history: the node that the program made

nodeVars == <<src, dst>>
historyVars == <<absent, made>>
vars == <<prog, pc, exit, nodeVars, sb_src, historyVars>>

NodePrograms == {"copy_fifo", "copy_node", "3*"}
Calls == {"lookup", "lookup_dst", "mkfifo", "mknod", "readlink", "symlink"}

Types == {"fifo", "blk", "chr", "lnk", "dir"}
Node == [type : Types \cup {"reg", "none"}, mode : SUBSET Permissions, by : {"others", "us"}]
NoNode == [type |-> "none", mode |-> {}, by |-> "others"]
Others(type, mode) == [type |-> type, mode |-> mode, by |-> "others"]

Init ==
    /\ prog \in NodePrograms
    /\ pc = "lookup" /\ exit = Running
    /\ \E t \in Types, m \in SUBSET Permissions : src = Others(t, m)
    /\ dst \in {NoNode, Others("reg", {})}
    /\ sb_src = NoNode
    /\ absent = FALSE /\ made = NoNode

-----------------------------------------------------------------------------
\* Another process creates or removes the destination, or removes the source.
OthersChange ==
    /\ pc # "done"
    /\ \/ src' = NoNode /\ UNCHANGED dst
       \/ dst = NoNode /\ dst' = Others("reg", {}) /\ UNCHANGED src
       \/ dst' = NoNode /\ UNCHANGED src
    /\ UNCHANGED <<prog, pc, exit, sb_src, historyVars>>

GoTo(call) == pc' = call /\ UNCHANGED exit
End(status) == pc' = "done" /\ exit' = status

\* The exit status after the failure of a call; main of "3*.c" ends with 1.
FailureStatus(call) ==
    CASE prog = "3*" -> 1
      [] call = "lookup" -> 2
      [] call = "mknod" /\ sb_src.type = "chr" -> 4
      [] OTHER -> 3

\* The types that a program deals with; of others it makes nothing.
Handled(type) == \/ prog = "copy_fifo" /\ type = "fifo"
                 \/ prog = "copy_node" /\ type \in {"blk", "chr"}
                 \/ prog = "3*" /\ type \in {"fifo", "blk", "chr", "lnk"}

Lookup ==
    /\ pc = "lookup"
    /\ \/ src = NoNode /\ End(FailureStatus(pc)) /\ UNCHANGED sb_src
       \/ /\ src # NoNode /\ sb_src' = src
          /\ \/ ~Handled(src.type) /\ End(0)
             \/ /\ Handled(src.type)
                /\ GoTo(IF src.type = "lnk" THEN "readlink" ELSE "lookup_dst")
    /\ UNCHANGED <<prog, nodeVars, historyVars>>

MakeCall == IF sb_src.type = "fifo" THEN "mkfifo" ELSE "mknod"

\* If the destination exists, nothing is made and 0 returned.
LookupDestination ==
    /\ pc = "lookup_dst"
    /\ IF dst # NoNode THEN End(0) ELSE GoTo(MakeCall)
    /\ absent' = (dst = NoNode)
    /\ UNCHANGED <<prog, nodeVars, sb_src, made>>

\* An error other than ENOENT: for a fifo nothing is made and 0 returned.
LookupDestinationFails ==
    /\ pc = "lookup_dst" /\ pc \in Faults
    /\ IF MakeCall = "mkfifo" THEN End(0) ELSE GoTo(MakeCall)
    /\ UNCHANGED <<prog, nodeVars, sb_src, historyVars>>

\* The target is read from the source that lstat saw, if it still is there.
ReadLink ==
    /\ pc = "readlink"
    /\ IF src.type = "lnk" THEN GoTo("symlink") ELSE End(FailureStatus(pc))
    /\ absent' = (src.type = "lnk")
    /\ UNCHANGED <<prog, nodeVars, sb_src, made>>

\* Mutant: the mode of the buffer that the failed lstat did not fill.
MakeModesUnread == SUBSET Permissions

\* The modes that mkfifo or mknod may be asked for.  copy_fifo passes that of
\* the source, "3*.c" that of a structure that its lstat did not fill; devices
\* have a fixed one in each program.
MakeModes ==
    {m \in SUBSET Permissions :
        /\ prog = "copy_fifo" => m = sb_src.mode
        /\ prog = "copy_node" => m = Permissions
        /\ prog = "3*" /\ sb_src.type # "fifo" => m = Permissions \ Execute}

\* The node is made with one of the modes.
MakeNode(modes) ==
    /\ \E m \in modes :
           /\ made' = [type |-> sb_src.type, mode |-> m, by |-> "us"]
           /\ dst' = made'
    /\ End(0)

\* Mutant: an existing destination counts as a success.
MakeOverExisting ==
    /\ pc \in {"mkfifo", "mknod"}
    /\ \/ dst = NoNode /\ MakeNode({m \ Umask : m \in MakeModes})
       \/ dst # NoNode /\ End(0) /\ UNCHANGED <<dst, made>>
    /\ UNCHANGED <<prog, src, sb_src, absent>>

\* mkfifo and mknod fail if the name exists by now.
Make ==
    /\ pc \in {"mkfifo", "mknod"}
    /\ \/ dst = NoNode /\ MakeNode({m \ Umask : m \in MakeModes})
       \/ dst # NoNode /\ End(FailureStatus(pc)) /\ UNCHANGED <<dst, made>>
    /\ UNCHANGED <<prog, src, sb_src, absent>>

\* So does symlink, which was not preceded by a look at the destination.
MakeLink ==
    /\ pc = "symlink"
    /\ \/ dst = NoNode /\ MakeNode({Permissions})
       \/ dst # NoNode /\ End(FailureStatus(pc)) /\ UNCHANGED <<dst, made>>
    /\ UNCHANGED <<prog, src, sb_src, absent>>

\* A mode that nobody wrote may have bits that mkfifo refuses.
CallFails ==
    /\ pc # "lookup_dst"
    /\ pc \in Faults \cap Calls \/ (pc = "mkfifo" /\ prog = "3*")
    /\ End(FailureStatus(pc))
    /\ UNCHANGED <<prog, nodeVars, sb_src, historyVars>>

Step == Lookup \/ LookupDestination \/ ReadLink \/ Make \/ MakeLink

Next == Step \/ LookupDestinationFails \/ CallFails \/ OthersChange

\* The process is scheduled.
Spec == Init /\ [][Next]_vars /\ WF_vars(Step)

-----------------------------------------------------------------------------
\* The type invariant of a copying process and the two names.
TypeOK ==
    /\ prog \in NodePrograms /\ pc \in Calls \cup {"done"}
    /\ exit \in {Running} \cup 0 .. 4
    /\ {src, dst, sb_src, made} \subseteq Node
    /\ absent \in BOOLEAN

\* Status 0 after the destination was found absent means that the program made
\* a node of the source's type: one that another process made in between is
\* reported as a failure.
StatusZeroMeansMade ==
    exit = 0 /\ absent => made.type = sb_src.type

\* A fifo made by copy_fifo.c has the mode of the source, if that is still
\* there, less the umask.
FifoModeCopied ==
    prog = "copy_fifo" /\ made # NoNode /\ src # NoNode => made.mode = src.mode \ Umask
=============================================================================
