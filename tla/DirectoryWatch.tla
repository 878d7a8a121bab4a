--------------------------- MODULE DirectoryWatch ---------------------------
(***************************************************************************)
(* 10_inotify.c: prints the files that appear in a directory until there   *)
(* is input.  The kernel queues an event for each file created in the      *)
(* directory, moved into it or moved out of it; a rename inside it is two  *)
(* events with one cookie.  One action is one system call of the program   *)
(* and what it does with the result, or one event, or a change of stdin.   *)
(***************************************************************************)
EXTENDS ExitStatus, Sequences, SequencesExt

CONSTANTS
    Sizes,       \* lengths of an event with its name, in units of its header
    SIZEOF_BUF,  \* in the same units
    QueueLimit,  \* events that the kernel keeps
    MaxEvents,   \* bound: the events that others cause
    Faults       \* the calls that may fail

WatchConstants ==
    /\ Sizes \subseteq 1 .. SIZEOF_BUF
    /\ {SIZEOF_BUF, QueueLimit} \subseteq Nat \ {0}
    /\ MaxEvents \in Nat

VARIABLES
    prog, pc, exit,
    stdin,      \* "quiet", "partial" (no newline yet), "ended" (newline or end
                \* of input), "hup" (a pipe that was closed), or "closed" before
                \* the start: then inotify_init1 returns the descriptor 0
    queue,      \* the events that wait to be read
    caused,     \* the number of events so far
    renaming,   \* the cookies of renames half done
    cookie,     \* the local variable of handle_event
    lines,      \* the events whose file was printed
    arrivals,   \* history: the events queued for files that appeared
    batched     \* history: some read returned more than one event

queueVars == <<queue, caused, renaming, arrivals>>
reportVars == <<cookie, lines, batched>>
vars == <<prog, pc, exit, stdin, queueVars, reportVars>>

Calls == {"inotify_init1", "inotify_add_watch", "poll", "read"}

Init ==
    /\ prog = "10"
    /\ pc = "inotify_init1" /\ exit = Running
    /\ stdin \in {"quiet", "partial", "ended", "closed"}
    /\ queue = << >> /\ caused = 0 /\ renaming = {}
    /\ cookie = 0 /\ lines = << >>
    /\ arrivals = {} /\ batched = FALSE

-----------------------------------------------------------------------------
(* The directory, the kernel's queue, and the user *)

Overflow == [id |-> 0, kind |-> "overflow", cookie |-> 0, size |-> 1]

\* An event for which there is no room is replaced by one overflow event.
Notify(kind, c, appears) ==
    /\ pc \in {"poll", "read", "drain"} /\ caused < MaxEvents
    /\ caused' = caused + 1
    /\ IF Len(queue) < QueueLimit
         THEN /\ \E s \in Sizes :
                    queue' = Append(queue, [id |-> caused', kind |-> kind, cookie |-> c, size |-> s])
              /\ arrivals' = IF appears THEN arrivals \cup {caused'} ELSE arrivals
         ELSE /\ queue' = IF Contains(queue, Overflow) THEN queue ELSE Append(queue, Overflow)
              /\ UNCHANGED arrivals
    /\ UNCHANGED <<prog, pc, exit, stdin, reportVars>>

FileAppears ==
    /\ Notify("create", 0, TRUE) \/ Notify("moved_to", caused + 1, TRUE)
    /\ UNCHANGED renaming

FileLeaves ==
    /\ Notify("moved_from", caused + 1, FALSE)
    /\ renaming' \in {renaming, renaming \cup {caused + 1}}

FileRenamed ==
    \E c \in renaming : Notify("moved_to", c, FALSE) /\ renaming' = renaming \ {c}

UserTypes ==
    /\ \/ stdin = "quiet" /\ stdin' \in {"partial", "ended", "hup"}
       \/ stdin = "partial" /\ stdin' = "ended"
    /\ pc # "done"
    /\ UNCHANGED <<prog, pc, exit, queueVars, reportVars>>

-----------------------------------------------------------------------------
(* The program *)

Setup ==
    /\ \/ pc = "inotify_init1" /\ pc' = "inotify_add_watch"
       \/ pc = "inotify_add_watch" /\ pc' = "poll"
    /\ UNCHANGED <<prog, exit, stdin, queueVars, reportVars>>

\* POLLIN on descriptor 0.  A pipe that was closed empty is POLLHUP only: poll
\* returns at once and the loop goes round, which changes nothing.
InputReady == stdin \in {"partial", "ended"} \/ (stdin = "closed" /\ queue # << >>)

\* Input comes first.  EINTR is a step that changes nothing.
Poll ==
    /\ pc = "poll"
    /\ \/ InputReady /\ pc' = "drain" /\ UNCHANGED cookie
       \/ ~InputReady /\ queue # << >> /\ pc' = "read" /\ cookie' = 0
    /\ UNCHANGED <<prog, exit, stdin, queueVars, lines, batched>>

\* Where in the buffer each of the first n events ends; nowhere if one has no room.
Ends(n) == {end \in [1 .. n -> 1 .. SIZEOF_BUF] :
               \A k \in 1 .. n : end[k] = queue[k].size + (IF k = 1 THEN 0 ELSE end[k - 1])}

\* Mutant: the comparison of the cookies inverted.
PrintedIfMatched(event) ==
    event.kind = "create" \/ (event.kind = "moved_to" /\ event.cookie = cookie)

Printed(event) ==
    event.kind = "create" \/ (event.kind = "moved_to" /\ event.cookie # cookie)

\* The loop over the len units of a read: ptr advances by the length of the first
\* event, which is handled each time.
Handle(event, len) ==
    /\ \/ /\ Printed(event)
          /\ \E times \in 1 .. len :
                /\ (times - 1) * event.size < len /\ len <= times * event.size
                /\ lines' = lines \o [k \in 1 .. times |-> event.id]
       \/ ~Printed(event) /\ UNCHANGED lines
    /\ cookie' = IF event.kind = "moved_from" THEN event.cookie ELSE cookie

\* handle_event reads until there are no more events: each time as many as have
\* room in its buffer.
Read ==
    /\ pc = "read"
    /\ \E n \in 1 .. Len(queue) :
           /\ n < Len(queue) => Ends(n + 1) = {}
           /\ \E end \in Ends(n) : Handle(Head(queue), end[n])
           /\ queue' = SubSeq(queue, n + 1, Len(queue))
           /\ batched' = (batched \/ n > 1)
    /\ UNCHANGED <<prog, pc, exit, stdin, caused, renaming, arrivals>>

\* Mutant: without IN_NONBLOCK the read waits for another event.
NoMoreEventsBlocks == FALSE /\ UNCHANGED vars

\* EAGAIN.
NoMoreEvents ==
    /\ pc = "read" /\ queue = << >>
    /\ pc' = "poll"
    /\ UNCHANGED <<prog, exit, stdin, queueVars, reportVars>>

End(status) ==
    /\ pc' = "done" /\ exit' = status
    /\ UNCHANGED <<prog, stdin, queueVars, reportVars>>

\* The input is read to the newline or to its end; events are left in the queue.
Drain == pc = "drain" /\ stdin # "partial" /\ End(0)

CallFails == pc \in Faults \cap Calls /\ End(1)

Step == Setup \/ Poll \/ Read \/ NoMoreEvents \/ Drain

Next == Step \/ CallFails \/ FileAppears \/ FileLeaves \/ FileRenamed \/ UserTypes

\* The process is scheduled.
Spec == Init /\ [][Next]_vars /\ WF_vars(Step)

-----------------------------------------------------------------------------
Event == [id : 0 .. MaxEvents, kind : {"create", "moved_from", "moved_to", "overflow"},
          cookie : 0 .. MaxEvents, size : Sizes \cup {1}]

\* The type invariant of the watcher and its queue.
TypeOK ==
    /\ prog = "10" /\ pc \in Calls \cup {"drain", "done"}
    /\ exit \in {Running, 0, 1}
    /\ stdin \in {"quiet", "partial", "ended", "hup", "closed"}
    /\ queue \in Seq(Event) /\ Len(queue) <= QueueLimit + 1
    /\ caused \in 0 .. MaxEvents /\ cookie \in 0 .. MaxEvents /\ renaming \subseteq 1 .. MaxEvents
    /\ lines \in Seq(1 .. MaxEvents) /\ arrivals \subseteq 1 .. MaxEvents
    /\ batched \in BOOLEAN

\* Each file that appeared was printed once, in order, or its event is still
\* in the queue.  A file renamed inside the directory may be printed, if the
\* second event came after the first was handled.
EachArrivalOnce ==
    LET told == lines \o [k \in DOMAIN queue |-> queue[k].id]
    IN /\ \A id \in arrivals : \E k \in DOMAIN told : told[k] = id
       /\ \A j, k \in DOMAIN told :
              j < k /\ {told[j], told[k]} \subseteq arrivals => told[j] < told[k]

\* As long as every read returned one event, the watcher misses no file that
\* appears and prints none twice.
NothingMissed == ~batched => EachArrivalOnce

\* Without that condition: "the appearance of new files in the directory".
NewFilesPrinted == EachArrivalOnce

\* A line of input ends the program, whatever events come with it.
InputEnds == stdin = "ended" ~> pc = "done"
=============================================================================
