------------------------------ MODULE MessageQueue ------------------------------
(***************************************************************************)
(* The three programs that talk over a POSIX message queue, all given the  *)
(* same name: the server 17_server.c, its client 17_client.c, and 16.c,    *)
(* which tries a queue out and removes it.  The kernel keeps a queue as    *)
(* long as it has its name or a descriptor, so a name may be removed and   *)
(* given to a new queue while processes still use the old one.             *)
(*                                                                         *)
(* One action is one system call.  A message is named by its sender: every *)
(* process sends at most one.  All are sent with priority 0.               *)
(***************************************************************************)
EXTENDS Naturals, Sequences

CONSTANTS
    Servers, Clients, Testers,   \* the processes running 17_server, 17_client, 16
    NoQueue, NoMessage,
    MaxMsg,                      \* mq_maxmsg of a new queue
    MaxSignals,                  \* bound: SIGINTs sent to servers in a behaviour
    Faults                       \* the calls that may fail, and "kill"

Processes == Servers \cup Clients \cup Testers
Creators  == Servers \cup Testers   \* mq_open with O_CREAT; a queue is named by its creator
Senders   == Clients \cup Testers

FaultNames == {"sigaction", "open", "getattr", "malloc", "receive", "send",
               "close", "unlink", "kill"}

ASSUME ProcessesAssumption ==
    /\ Servers \cap Clients = {} /\ Servers \cap Testers = {} /\ Clients \cap Testers = {}
    /\ NoQueue \notin Processes /\ NoMessage \notin Processes
ASSUME BoundsAssumption == MaxMsg \in Nat \ {0} /\ MaxSignals \in Nat
ASSUME FaultsAssumption == Faults \subseteq FaultNames

VARIABLES
    pc,          \* the next call of each process
    linked,      \* the queue the name stands for, or NoQueue
    queue,       \* the messages in each queue
    fd,          \* the queue each process has open, or NoQueue
    buff,        \* the message each server received and has not printed
    lastSignal,  \* last_signal of each server
    result,      \* the local variable result of each client
    exit,        \* the exit status of each process that ended
    sent,        \* history: the messages each queue accepted, in order
    printed,     \* what each server printed
    signals      \* bookkeeping: how many SIGINTs were sent

kernelVars  == <<linked, queue, sent>>
serverVars  == <<buff, lastSignal, printed, signals>>
processVars == <<pc, fd, exit>>
vars == <<processVars, kernelVars, serverVars, result>>

Running == 255
Killed  == 137
SIGINT  == 2

Locations == {"sigaction", "open", "getattr", "malloc", "receive", "wait",
              "print", "send", "close", "unlink", "done"}

Init ==
    /\ pc = [p \in Processes |-> IF p \in Servers THEN "sigaction" ELSE "open"]
    /\ linked = NoQueue
    /\ queue = [q \in Creators |-> << >>]
    /\ fd = [p \in Processes |-> NoQueue]
    /\ buff = [s \in Servers |-> NoMessage]
    /\ lastSignal = [s \in Servers |-> 0]
    /\ result = [c \in Clients |-> 0]
    /\ exit = [p \in Processes |-> Running]
    /\ sent = [q \in Creators |-> << >>]
    /\ printed = [s \in Servers |-> << >>]
    /\ signals = 0

-----------------------------------------------------------------------------
(* The kernel's part of a call, and how a process moves on. *)

Goto(p, to) == pc' = [pc EXCEPT ![p] = to] /\ UNCHANGED exit

\* The process ends and its descriptor is closed; a name stays.
End(p, status) ==
    /\ pc' = [pc EXCEPT ![p] = "done"]
    /\ exit' = [exit EXCEPT ![p] = status]
    /\ fd' = [fd EXCEPT ![p] = NoQueue]

OpenQueue(p, q) == fd' = [fd EXCEPT ![p] = q]

CloseQueue(p) == fd' = [fd EXCEPT ![p] = NoQueue]

Full(q) == Len(queue[q]) = MaxMsg

\* mq_send on a queue that has room.
Enqueue(p) ==
    /\ ~Full(fd[p])
    /\ queue' = [queue EXCEPT ![fd[p]] = Append(@, p)]
    /\ sent' = [sent EXCEPT ![fd[p]] = Append(@, p)]
    /\ UNCHANGED linked

-----------------------------------------------------------------------------
(* 17_server.c *)

Install(s) ==
    /\ pc[s] = "sigaction"
    /\ Goto(s, "open")
    /\ UNCHANGED <<fd, kernelVars, serverVars, result>>

\* Mutant: O_CREAT without O_EXCL.
CreateAnyway(s) ==
    /\ pc[s] = "open"
    /\ linked' = IF linked = NoQueue THEN s ELSE linked
    /\ OpenQueue(s, linked')
    /\ Goto(s, "getattr")
    /\ UNCHANGED <<queue, sent, serverVars, result>>

\* O_CREAT | O_EXCL: only a name that is free.
Create(s) ==
    /\ pc[s] = "open"
    /\ linked = NoQueue
    /\ linked' = s
    /\ OpenQueue(s, s)
    /\ Goto(s, "getattr")
    /\ UNCHANGED <<queue, sent, serverVars, result>>

\* Mutant: the error path cleans up, unlinking the other server's name.
NameTakenCleanup(s) ==
    /\ pc[s] = "open"
    /\ linked # NoQueue
    /\ linked' = NoQueue
    /\ End(s, 3)
    /\ UNCHANGED <<queue, sent, serverVars, result>>

NameTaken(s) ==
    /\ pc[s] = "open"
    /\ linked # NoQueue
    /\ End(s, 3)
    /\ UNCHANGED <<kernelVars, serverVars, result>>

Prepare(s) ==
    /\ \/ pc[s] = "getattr" /\ Goto(s, "malloc")
       \/ pc[s] = "malloc" /\ Goto(s, "receive")
    /\ UNCHANGED <<fd, kernelVars, serverVars, result>>

\* Mutant: the newest message first.
ReceiveNewest(s) ==
    /\ pc[s] \in {"receive", "wait"}
    /\ queue[fd[s]] # << >>
    /\ buff' = [buff EXCEPT ![s] = queue[fd[s]][Len(queue[fd[s]])]]
    /\ queue' = [queue EXCEPT ![fd[s]] = SubSeq(@, 1, Len(@) - 1)]
    /\ Goto(s, "print")
    /\ UNCHANGED <<fd, linked, sent, lastSignal, printed, signals, result>>

\* Mutant: a message does not wake a sleeping server.
ReceiveAwake(s) ==
    /\ pc[s] = "receive"
    /\ queue[fd[s]] # << >>
    /\ buff' = [buff EXCEPT ![s] = Head(queue[fd[s]])]
    /\ queue' = [queue EXCEPT ![fd[s]] = Tail(@)]
    /\ Goto(s, "print")
    /\ UNCHANGED <<fd, linked, sent, lastSignal, printed, signals, result>>

\* mq_receive finds a message, at once or after sleeping.
Receive(s) ==
    /\ pc[s] \in {"receive", "wait"}
    /\ queue[fd[s]] # << >>
    /\ buff' = [buff EXCEPT ![s] = Head(queue[fd[s]])]
    /\ queue' = [queue EXCEPT ![fd[s]] = Tail(@)]
    /\ Goto(s, "print")
    /\ UNCHANGED <<fd, linked, sent, lastSignal, printed, signals, result>>

Sleep(s) ==
    /\ pc[s] = "receive"
    /\ queue[fd[s]] = << >>
    /\ Goto(s, "wait")
    /\ UNCHANGED <<fd, kernelVars, serverVars, result>>

\* Mutant: an interrupted server goes on without printing.
PrintUnlessSignalled(s) ==
    /\ pc[s] = "print"
    /\ printed' = IF lastSignal[s] = SIGINT THEN printed
                  ELSE [printed EXCEPT ![s] = Append(@, buff[s])]
    /\ buff' = [buff EXCEPT ![s] = NoMessage]
    /\ Goto(s, "receive")
    /\ UNCHANGED <<fd, kernelVars, lastSignal, signals, result>>

PrintMessage(s) ==
    /\ pc[s] = "print"
    /\ printed' = [printed EXCEPT ![s] = Append(@, buff[s])]
    /\ buff' = [buff EXCEPT ![s] = NoMessage]
    /\ Goto(s, "receive")
    /\ UNCHANGED <<fd, kernelVars, lastSignal, signals, result>>

\* mq_receive fails with something else than EINTR: the loop ends all the same.
ReceiveFails(s) ==
    /\ "receive" \in Faults /\ pc[s] = "receive"
    /\ Goto(s, "close")
    /\ UNCHANGED <<fd, kernelVars, serverVars, result>>

\* Mutant: a handler that only counts, last_signal++.
InterruptCounts(s) ==
    /\ pc[s] \notin {"sigaction", "done"}
    /\ signals < MaxSignals
    /\ signals' = signals + 1
    /\ lastSignal' = [lastSignal EXCEPT ![s] = @ + 1]
    /\ IF pc[s] = "wait" /\ queue[fd[s]] = << >>
         THEN Goto(s, "close")
         ELSE UNCHANGED <<pc, exit>>
    /\ UNCHANGED <<fd, kernelVars, buff, printed, result>>

\* SIGINT runs the handler.  Only a server asleep in mq_receive notices: the
\* call fails with EINTR.  A message already handed to the sleeper wins.
Interrupt(s) ==
    /\ pc[s] \notin {"sigaction", "done"}
    /\ signals < MaxSignals
    /\ signals' = signals + 1
    /\ lastSignal' = [lastSignal EXCEPT ![s] = SIGINT]
    /\ IF pc[s] = "wait" /\ queue[fd[s]] = << >>
         THEN Goto(s, "close")
         ELSE UNCHANGED <<pc, exit>>
    /\ UNCHANGED <<fd, kernelVars, buff, printed, result>>
\* Mutant: a server that closes its queue and returns 0.
CloseOnly(s) ==
    /\ pc[s] = "close"
    /\ End(s, 0)
    /\ UNCHANGED <<kernelVars, serverVars, result>>

Close(s) ==
    /\ pc[s] = "close"
    /\ CloseQueue(s)
    /\ Goto(s, "unlink")
    /\ UNCHANGED <<kernelVars, serverVars, result>>

\* mq_unlink takes a name, not a queue: whatever has the name loses it.
Unlink(s) ==
    /\ pc[s] = "unlink"
    /\ linked' = NoQueue
    /\ End(s, IF linked = NoQueue THEN 7 ELSE 0)
    /\ UNCHANGED <<queue, sent, serverVars, result>>

\* The exit status of the call that failed; no branch removes the name.
FailureStatus == [sigaction |-> 2, open |-> 3, getattr |-> 4, malloc |-> 5,
                  close |-> 6, unlink |-> 7]

ServerFails(s) ==
    /\ pc[s] \in Faults \cap DOMAIN FailureStatus
    /\ End(s, FailureStatus[pc[s]])
    /\ UNCHANGED <<kernelVars, serverVars, result>>

ServerStep(s) == Install(s) \/ Create(s) \/ NameTaken(s) \/ Prepare(s) \/ Receive(s)
                    \/ Sleep(s) \/ PrintMessage(s) \/ Close(s) \/ Unlink(s)

-----------------------------------------------------------------------------
(* 17_client.c *)

ClientOpen(c) ==
    /\ pc[c] = "open"
    /\ linked # NoQueue
    /\ OpenQueue(c, linked)
    /\ Goto(c, "send")
    /\ UNCHANGED <<kernelVars, serverVars, result>>

\* No such queue, or one this user may not open.
ClientOpenFails(c) ==
    /\ pc[c] = "open"
    /\ linked = NoQueue \/ "open" \in Faults
    /\ End(c, 1)
    /\ UNCHANGED <<kernelVars, serverVars, result>>

\* mq_send sleeps while the queue is full.
ClientSend(c) ==
    /\ pc[c] = "send"
    /\ Enqueue(c)
    /\ Goto(c, "close")
    /\ UNCHANGED <<fd, serverVars, result>>

\* Mutant: the failure is printed and result stays 0.
ClientSendIgnored(c) ==
    /\ "send" \in Faults /\ pc[c] = "send"
    /\ Goto(c, "close")
    /\ UNCHANGED <<fd, kernelVars, serverVars, result>>

ClientSendFails(c) ==
    /\ "send" \in Faults /\ pc[c] = "send"
    /\ result' = [result EXCEPT ![c] = 1]
    /\ Goto(c, "close")
    /\ UNCHANGED <<fd, kernelVars, serverVars>>

ClientClose(c) ==
    /\ pc[c] = "close"
    /\ End(c, result[c])
    /\ UNCHANGED <<kernelVars, serverVars, result>>

\* The failed close hides how mq_send went.
ClientCloseFails(c) ==
    /\ "close" \in Faults /\ pc[c] = "close"
    /\ result' = [result EXCEPT ![c] = 2]
    /\ End(c, 2)
    /\ UNCHANGED <<kernelVars, serverVars>>

ClientStep(c) == ClientOpen(c) \/ ClientOpenFails(c) \/ ClientSend(c) \/ ClientClose(c)

-----------------------------------------------------------------------------
(* 16.c *)

\* O_CREAT without O_EXCL: the queue that has the name, or a new one.
TesterOpen(t) ==
    /\ pc[t] = "open"
    /\ LET q == IF linked = NoQueue THEN t ELSE linked
       IN linked' = q /\ OpenQueue(t, q)
    /\ Goto(t, "send")
    /\ UNCHANGED <<queue, sent, serverVars, result>>

TesterOpenFails(t) ==
    /\ "open" \in Faults /\ pc[t] = "open"
    /\ End(t, 1)
    /\ UNCHANGED <<kernelVars, serverVars, result>>

\* Mutant: opened without O_NONBLOCK.
TesterSendBlocks(t) ==
    /\ pc[t] = "send"
    /\ Enqueue(t)
    /\ Goto(t, "close")
    /\ UNCHANGED <<fd, serverVars, result>>

\* O_NONBLOCK: a full queue is an error like any other, printed and ignored.
TesterSend(t) ==
    /\ pc[t] = "send"
    /\ \/ Enqueue(t)
       \/ /\ Full(fd[t]) \/ "send" \in Faults
          /\ UNCHANGED kernelVars
    /\ Goto(t, "close")
    /\ UNCHANGED <<fd, serverVars, result>>

\* The results of mq_close and mq_unlink are ignored.
TesterClose(t) ==
    /\ pc[t] = "close"
    /\ CloseQueue(t)
    /\ Goto(t, "unlink")
    /\ UNCHANGED <<kernelVars, serverVars, result>>

TesterUnlink(t) ==
    /\ pc[t] = "unlink"
    /\ \/ linked' = NoQueue
       \/ "unlink" \in Faults /\ UNCHANGED linked
    /\ End(t, 0)
    /\ UNCHANGED <<queue, sent, serverVars, result>>

TesterStep(t) == TesterOpen(t) \/ TesterSend(t) \/ TesterClose(t) \/ TesterUnlink(t)

-----------------------------------------------------------------------------
\* A signal other than a handled SIGINT ends a process between two calls.
Kill(p) ==
    /\ "kill" \in Faults /\ pc[p] # "done"
    /\ End(p, Killed)
    /\ UNCHANGED <<kernelVars, serverVars, result>>

Next ==
    \/ \E s \in Servers : ServerStep(s) \/ ReceiveFails(s) \/ ServerFails(s) \/ Interrupt(s)
    \/ \E c \in Clients : ClientStep(c) \/ ClientSendFails(c) \/ ClientCloseFails(c)
    \/ \E t \in Testers : TesterStep(t) \/ TesterOpenFails(t)
    \/ \E p \in Processes : Kill(p)

\* The scheduler runs every process that can run, and the kernel wakes one
\* that waits for a message or for room.
Fairness ==
    /\ \A s \in Servers : WF_vars(ServerStep(s))
    /\ \A c \in Clients : WF_vars(ClientStep(c))
    /\ \A t \in Testers : WF_vars(TesterStep(t))

Spec == Init /\ [][Next]_vars /\ Fairness

-----------------------------------------------------------------------------
\* The type invariant of the three programs' and the kernel's state.
TypeOK ==
    /\ pc \in [Processes -> Locations]
    /\ linked \in Creators \cup {NoQueue}
    /\ queue \in [Creators -> Seq(Senders)]
    /\ fd \in [Processes -> Creators \cup {NoQueue}]
    /\ buff \in [Servers -> Senders \cup {NoMessage}]
    /\ lastSignal \in [Servers -> {0, SIGINT}]
    /\ result \in [Clients -> 0 .. 2]
    /\ exit \in [Processes -> {Running, Killed} \cup 0 .. 7]
    /\ sent \in [Creators -> Seq(Senders)]
    /\ printed \in [Servers -> Seq(Senders)]
    /\ signals \in 0 .. MaxSignals

\* From its mq_open to its mq_unlink.
HasQueue(s) == pc[s] \in {"getattr", "malloc", "receive", "wait", "print", "close", "unlink"}

\* While no other program removes names, a server keeps the name from its
\* mq_open to its mq_unlink, so two servers never serve at once.
ServerKeepsName == \A s \in Servers : HasQueue(s) => linked = s

\* ... and the mq_unlink of a server, which is given a name, takes it from no
\* queue but its own; nobody else takes it either.
OnlyOwnNameRemoved ==
    [][\A s \in Servers : linked = s /\ linked' # s =>
           pc[s] = "unlink" /\ pc'[s] = "done"]_vars

Accepted(p) == \E q \in Creators : \E i \in 1 .. Len(sent[q]) : sent[q][i] = p

\* The exit status of 17_client.c tells whether a queue accepted its message;
\* status 2, a failed mq_close, tells nothing.
StatusTellsAccepted ==
    \A c \in Clients : /\ exit[c] = 0 => Accepted(c)
                       /\ exit[c] = 1 => ~Accepted(c)

\* A server that leaves its name behind, so that no later server can start,
\* says so with its exit status: 0 means the name is free again.
LeftNameIsReported ==
    \A s \in Servers : linked = s /\ pc[s] = "done" => exit[s] \in {4, 5, 6, 7, Killed}

\* Each server implements the mailbox: it prints what its queue accepted, in
\* order, each message once, at most a queue and a buffer behind.
Abstract == INSTANCE Mailbox WITH Owners <- Servers, Messages <- Senders,
                                  Capacity <- MaxMsg,
                                  accepted <- [s \in Servers |-> sent[s]]
ServesInOrder == Abstract!Spec

LeftLoop(s) == pc[s] \in {"close", "unlink", "done"}

\* A message is lost only if the server that should print it stops: SIGINTs
\* that find it outside mq_receive do it no harm, nor does losing its name.
\* (As every process sends once, the queues come to rest.)
AcceptedIsPrinted == <>[](\A s \in Servers : LeftLoop(s) \/ printed[s] = sent[s])

\* A client waits in mq_send for ever only if nobody serves its queue any more
\* or ever did: no server starves one of its senders.
SendReturns ==
    <>[](\A s \in Servers : LeftLoop(s) \/ \A c \in Clients : ~(pc[c] = "send" /\ fd[c] = s))

\* 16.c never waits, whoever else uses the queue and however full it is.
TesterEnds == \A t \in Testers : <>(pc[t] = "done")
=============================================================================
