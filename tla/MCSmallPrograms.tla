--------------------------- MODULE MCSmallPrograms ---------------------------
(* Instances of SmallPrograms for TLC. *)
EXTENDS SmallPrograms, TLC

MCAll == {"10", "6.1", "6.2", "6.3", "6.4", "7.1", "copy_fifo", "copy_node", "3*",
          "13.1", "14.1", "19_4", "19_test", "15_1"}

MCFaults == {"inotify_init1", "inotify_add_watch", "poll", "read",
             "opendir", "mkdir", "readdir", "lstat", "copy", "mkdir_entry", "closedir",
             "lookup", "lookup_dst", "mkfifo", "mknod", "readlink", "symlink",
             "fork", "open", "dup2", "pthread_create"}

\* A buffer of four holds one or two events of two or three units.
MCSizes == {2, 3}

MCEntries == {".", "a", "b", "c"}
MCKind == [n \in MCEntries |-> CASE n \in {".", "b"} -> "dir" [] n = "a" -> "reg" [] OTHER -> "fifo"]

MCPermissions == {"user", "group"}
MCExecute == {"user"}
MCUmask == {"group"}

\* 19_test.c prints 30000 times x and 20000 times 0.
MCCharacters == <<3, 2>>

\* SIGINT and SIGQUIT; SIGUSR1.
MCMaskSignals == {2, 3}
MCOtherSignals == {10}
=============================================================================
