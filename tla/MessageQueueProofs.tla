-------------------------- MODULE MessageQueueProofs --------------------------
(***************************************************************************)
(* Proofs about MessageQueue for any sets of servers, clients and testers, *)
(* any capacity, any number of signals and any set of faults.              *)
(***************************************************************************)
EXTENDS MessageQueue, SequenceTheorems, TLAPS

-----------------------------------------------------------------------------
(* Types, and whose queue a descriptor stands for. *)

\* From its mq_open to its mq_close.
HasOpen(s) == pc[s] \in {"getattr", "malloc", "receive", "wait", "print", "close"}

\* A server has its own queue open, a sender a queue.  TypeOK needs it: a
\* message is put into and taken from the queue the descriptor stands for.
Descriptors ==
    /\ \A s \in Servers : HasOpen(s) => fd[s] = s
    /\ \A p \in Senders : pc[p] = "send" => fd[p] \in Creators

\* The buffer of a running server holds a message exactly while it is about to
\* print it; without this it might print what is not a message.
Buffered ==
    \A s \in Servers : /\ pc[s] = "print" => buff[s] # NoMessage
                       /\ pc[s] \notin {"print", "done"} => buff[s] = NoMessage

TypeInv == TypeOK /\ Descriptors /\ Buffered

LEMMA TypeInit == Init => TypeInv
<1>. SUFFICES ASSUME Init PROVE TypeInv
  OBVIOUS
<1>1. TypeOK
  BY BoundsAssumption DEF Init, TypeOK, Locations, Running
<1>2. Descriptors
  BY ProcessesAssumption
  DEF Init, Descriptors, HasOpen, Processes, Senders, Creators
<1>3. Buffered
  BY ProcessesAssumption DEF Init, Buffered, Processes
<1>. QED
  BY <1>1, <1>2, <1>3 DEF TypeInv

\* Every exit status is one the type allows.
LEMMA ServerStatusType ==
    ASSUME NEW l \in DOMAIN FailureStatus
    PROVE  FailureStatus[l] \in 2 .. 7
BY DEF FailureStatus

\* A process that ends has closed its descriptor.
LEMMA EndType ==
    ASSUME TypeInv, NEW p \in Processes, NEW status \in {Killed} \cup 0 .. 7,
           End(p, status), UNCHANGED <<kernelVars, serverVars, result>>
    PROVE  TypeInv'
<1>1. TypeOK'
  BY DEF TypeInv, TypeOK, End, Locations, kernelVars, serverVars
<1>2. Descriptors'
  BY DEF TypeInv, TypeOK, Descriptors, HasOpen, End, Processes, Senders
<1>3. Buffered'
  BY DEF TypeInv, TypeOK, Buffered, End, serverVars
<1>. QED
  BY <1>1, <1>2, <1>3 DEF TypeInv

LEMMA EnqueueType ==
    ASSUME TypeInv, NEW p \in Senders, pc[p] = "send", Enqueue(p)
    PROVE  /\ queue' \in [Creators -> Seq(Senders)]
           /\ sent' \in [Creators -> Seq(Senders)]
           /\ linked' \in Creators \cup {NoQueue}
BY DEF TypeInv, TypeOK, Descriptors, Enqueue

LEMMA ServerType ==
    ASSUME TypeInv, NEW s \in Servers,
           ServerStep(s) \/ ReceiveFails(s) \/ ServerFails(s) \/ Interrupt(s)
    PROVE  TypeInv'
<1>. s \in Processes /\ s \in Creators
  BY DEF Processes, Creators
<1>1. CASE NameTaken(s)
  <2>1. End(s, 3) /\ UNCHANGED <<kernelVars, serverVars, result>>
    BY <1>1 DEF NameTaken
  <2>. QED
    BY <2>1, EndType
<1>2. CASE ServerFails(s)
  <2>1. FailureStatus[pc[s]] \in 2 .. 7
    BY <1>2, ServerStatusType DEF ServerFails
  <2>2. /\ FailureStatus[pc[s]] \in {Killed} \cup 0 .. 7
        /\ End(s, FailureStatus[pc[s]])
        /\ UNCHANGED <<kernelVars, serverVars, result>>
    BY <1>2, <2>1 DEF ServerFails
  <2>. QED
    BY <2>2, EndType
<1>. USE DEF TypeInv, TypeOK, Descriptors, Buffered, HasOpen, Locations, Goto, Processes,
             Senders, kernelVars, serverVars
<1>3. CASE Install(s)
  BY <1>3, ProcessesAssumption DEF Install
<1>4. CASE Create(s)
  BY <1>4, ProcessesAssumption DEF Create, OpenQueue
<1>5. CASE Prepare(s)
  <2>1. CASE pc[s] = "getattr" /\ Goto(s, "malloc")
    BY <1>5, <2>1, ProcessesAssumption DEF Prepare
  <2>2. CASE pc[s] = "malloc" /\ Goto(s, "receive")
    BY <1>5, <2>2, ProcessesAssumption DEF Prepare
  <2>. QED
    BY <1>5, <2>1, <2>2 DEF Prepare
<1>6. CASE Receive(s)
  <2>1. /\ Head(queue[s]) \in Senders
        /\ Tail(queue[s]) \in Seq(Senders)
    BY <1>6 DEF Receive
  <2>. QED
    BY <1>6, <2>1, ProcessesAssumption DEF Receive
<1>7. CASE Sleep(s)
  BY <1>7, ProcessesAssumption DEF Sleep
<1>8. CASE PrintMessage(s)
  <2>1. buff[s] \in Senders
    BY <1>8 DEF PrintMessage
  <2>. QED
    BY <1>8, <2>1, ProcessesAssumption DEF PrintMessage
<1>9. CASE Close(s)
  BY <1>9, ProcessesAssumption DEF Close, CloseQueue
<1>10. CASE Unlink(s)
  BY <1>10, ProcessesAssumption DEF Unlink, End
<1>11. CASE ReceiveFails(s)
  BY <1>11, ProcessesAssumption DEF ReceiveFails
<1>12. CASE Interrupt(s)
  <2>1. /\ lastSignal' \in [Servers -> {0, SIGINT}]
        /\ signals' \in 0 .. MaxSignals
        /\ UNCHANGED <<fd, kernelVars, buff, printed, result>>
    BY <1>12, BoundsAssumption DEF Interrupt
  <2>2. CASE pc[s] = "wait" /\ Goto(s, "close")
    BY <2>1, <2>2, ProcessesAssumption
  <2>3. CASE UNCHANGED <<pc, exit>>
    BY <2>1, <2>3, ProcessesAssumption
  <2>. QED
    BY <1>12, <2>2, <2>3 DEF Interrupt
<1>. QED
  BY <1>1, <1>2, <1>3, <1>4, <1>5, <1>6, <1>7, <1>8, <1>9, <1>10, <1>11, <1>12
  DEF ServerStep

LEMMA ClientType ==
    ASSUME TypeInv, NEW c \in Clients,
           ClientStep(c) \/ ClientSendFails(c) \/ ClientCloseFails(c)
    PROVE  TypeInv'
<1>. c \in Processes /\ c \in Senders
  BY DEF Processes, Senders
<1>1. CASE ClientOpenFails(c)
  <2>1. End(c, 1) /\ UNCHANGED <<kernelVars, serverVars, result>>
    BY <1>1 DEF ClientOpenFails
  <2>. QED
    BY <2>1, EndType
<1>2. CASE ClientClose(c)
  <2>1. /\ result[c] \in {Killed} \cup 0 .. 7
        /\ End(c, result[c]) /\ UNCHANGED <<kernelVars, serverVars, result>>
    BY <1>2 DEF ClientClose, TypeInv, TypeOK
  <2>. QED
    BY <2>1, EndType
<1>3. CASE ClientSend(c)
  <2>1. /\ queue' \in [Creators -> Seq(Senders)]
        /\ sent' \in [Creators -> Seq(Senders)]
        /\ linked' \in Creators \cup {NoQueue}
    BY <1>3, EnqueueType DEF ClientSend
  <2>2. /\ pc[c] = "send" /\ Goto(c, "close")
        /\ UNCHANGED <<fd, serverVars, result>>
    BY <1>3 DEF ClientSend
  <2>3. TypeOK'
    BY <2>1, <2>2 DEF TypeInv, TypeOK, Locations, Goto, serverVars
  <2>4. Descriptors' /\ Buffered'
    BY <2>2, ProcessesAssumption
    DEF TypeInv, TypeOK, Descriptors, Buffered, HasOpen, Goto, Processes, Senders,
        serverVars
  <2>. QED
    BY <2>3, <2>4 DEF TypeInv
<1>. USE DEF TypeInv, TypeOK, Descriptors, Buffered, HasOpen, Locations, Goto,
             Processes, Senders, kernelVars, serverVars
<1>4. CASE ClientOpen(c)
  BY <1>4, ProcessesAssumption DEF ClientOpen, OpenQueue
<1>5. CASE ClientSendFails(c)
  BY <1>5, ProcessesAssumption DEF ClientSendFails
<1>6. CASE ClientCloseFails(c)
  BY <1>6, ProcessesAssumption DEF ClientCloseFails, End
<1>. QED
  BY <1>1, <1>2, <1>3, <1>4, <1>5, <1>6 DEF ClientStep

LEMMA TesterType ==
    ASSUME TypeInv, NEW t \in Testers, TesterStep(t) \/ TesterOpenFails(t)
    PROVE  TypeInv'
<1>. t \in Processes /\ t \in Senders /\ t \in Creators
  BY DEF Processes, Senders, Creators
<1>1. CASE TesterOpenFails(t)
  <2>1. End(t, 1) /\ UNCHANGED <<kernelVars, serverVars, result>>
    BY <1>1 DEF TesterOpenFails
  <2>. QED
    BY <2>1, EndType
<1>2. CASE TesterSend(t)
  <2>1. /\ queue' \in [Creators -> Seq(Senders)]
        /\ sent' \in [Creators -> Seq(Senders)]
        /\ linked' \in Creators \cup {NoQueue}
    BY <1>2, EnqueueType DEF TesterSend, TypeInv, TypeOK, kernelVars
  <2>2. /\ pc[t] = "send" /\ Goto(t, "close")
        /\ UNCHANGED <<fd, serverVars, result>>
    BY <1>2 DEF TesterSend
  <2>3. TypeOK'
    BY <2>1, <2>2 DEF TypeInv, TypeOK, Locations, Goto, serverVars
  <2>4. Descriptors' /\ Buffered'
    BY <2>2, ProcessesAssumption
    DEF TypeInv, TypeOK, Descriptors, Buffered, HasOpen, Goto, Processes, Senders,
        serverVars
  <2>. QED
    BY <2>3, <2>4 DEF TypeInv
<1>. USE DEF TypeInv, TypeOK, Descriptors, Buffered, HasOpen, Locations, Goto,
             Processes, Senders, kernelVars, serverVars
<1>3. CASE TesterOpen(t)
  <2>1. linked' \in Creators /\ fd' = [fd EXCEPT ![t] = linked']
    BY <1>3 DEF TesterOpen, OpenQueue
  <2>. QED
    BY <1>3, <2>1, ProcessesAssumption DEF TesterOpen
<1>4. CASE TesterClose(t)
  BY <1>4, ProcessesAssumption DEF TesterClose, CloseQueue
<1>5. CASE TesterUnlink(t)
  BY <1>5, ProcessesAssumption DEF TesterUnlink, End
<1>. QED
  BY <1>1, <1>2, <1>3, <1>4, <1>5 DEF TesterStep

LEMMA TypeNext == TypeInv /\ [Next]_vars => TypeInv'
<1>. SUFFICES ASSUME TypeInv, [Next]_vars PROVE TypeInv'
  OBVIOUS
<1>1. CASE \E s \in Servers :
               ServerStep(s) \/ ReceiveFails(s) \/ ServerFails(s) \/ Interrupt(s)
  BY <1>1, ServerType
<1>2. CASE \E c \in Clients : ClientStep(c) \/ ClientSendFails(c) \/ ClientCloseFails(c)
  BY <1>2, ClientType
<1>3. CASE \E t \in Testers : TesterStep(t) \/ TesterOpenFails(t)
  BY <1>3, TesterType
<1>4. CASE \E p \in Processes : Kill(p)
  <2>1. PICK p \in Processes : Kill(p)
    BY <1>4
  <2>2. End(p, Killed) /\ UNCHANGED <<kernelVars, serverVars, result>>
    BY <2>1 DEF Kill
  <2>. QED
    BY <2>2, EndType
<1>5. CASE UNCHANGED vars
  BY <1>5 DEF TypeInv, TypeOK, Descriptors, Buffered, HasOpen, vars, processVars,
              kernelVars, serverVars
<1>. QED
  BY <1>1, <1>2, <1>3, <1>4, <1>5 DEF Next

LEMMA TypeInvariant == Spec => []TypeInv
BY TypeInit, TypeNext, PTL DEF Spec

\* Whatever the processes do and whichever calls fail, the state of the three
\* programs and of the kernel keeps its types.
THEOREM TypeCorrect == Spec => []TypeOK
<1>1. TypeInv => TypeOK
  BY DEF TypeInv
<1>. QED
  BY <1>1, TypeInvariant, PTL

-----------------------------------------------------------------------------
(* While 16.c does not run, a server keeps its name.  With TypeInv the     *)
(* property is inductive: a second server cannot create the queue, since   *)
(* the name is taken, and the one that unlinks it has the name itself.     *)

LEMMA KeepsInit == Init => ServerKeepsName
BY ProcessesAssumption DEF Init, ServerKeepsName, HasQueue, Processes

\* What a server's step does to the name and to the other servers.
LEMMA ServerNameStep ==
    ASSUME TypeInv, ServerKeepsName, NEW s \in Servers,
           ServerStep(s) \/ ReceiveFails(s) \/ ServerFails(s) \/ Interrupt(s)
    PROVE  /\ \A o \in Servers : o # s => pc'[o] = pc[o]
           /\ \/ pc[s] = "open" /\ linked = NoQueue /\ linked' = s
              \/ HasQueue(s)' /\ HasQueue(s) /\ linked' = linked
              \/ ~HasQueue(s)' /\ linked' = linked
              \/ pc[s] = "unlink" /\ pc'[s] = "done" /\ linked' = NoQueue
<1>. s \in Processes
  BY DEF Processes
<1>. USE DEF TypeInv, TypeOK, HasQueue, Goto, End, Processes, kernelVars
<1>1. CASE Install(s)
  BY <1>1 DEF Install
<1>2. CASE Create(s)
  BY <1>2 DEF Create
<1>3. CASE NameTaken(s)
  BY <1>3 DEF NameTaken
<1>4. CASE Prepare(s)
  BY <1>4 DEF Prepare
<1>5. CASE Receive(s)
  BY <1>5 DEF Receive
<1>6. CASE Sleep(s)
  BY <1>6 DEF Sleep
<1>7. CASE PrintMessage(s)
  BY <1>7 DEF PrintMessage
<1>8. CASE Close(s)
  BY <1>8 DEF Close
<1>9. CASE Unlink(s)
  BY <1>9 DEF Unlink
<1>10. CASE ReceiveFails(s)
  BY <1>10 DEF ReceiveFails
<1>11. CASE ServerFails(s)
  BY <1>11 DEF ServerFails
<1>12. CASE Interrupt(s)
  <2>1. linked' = linked
    BY <1>12 DEF Interrupt
  <2>2. CASE pc[s] = "wait" /\ Goto(s, "close")
    BY <2>1, <2>2
  <2>3. CASE UNCHANGED <<pc, exit>>
    BY <2>1, <2>3
  <2>. QED
    BY <1>12, <2>2, <2>3 DEF Interrupt
<1>. QED
  BY <1>1, <1>2, <1>3, <1>4, <1>5, <1>6, <1>7, <1>8, <1>9, <1>10, <1>11, <1>12
  DEF ServerStep

\* A client changes neither the name nor the servers.
LEMMA ClientNameStep ==
    ASSUME TypeInv, NEW c \in Clients,
           ClientStep(c) \/ ClientSendFails(c) \/ ClientCloseFails(c)
    PROVE  linked' = linked /\ \A o \in Servers : pc'[o] = pc[o]
<1>. \A o \in Servers : o # c /\ o \in Processes
  BY ProcessesAssumption DEF Processes
<1>. QED
  BY DEF TypeInv, TypeOK, ClientStep, ClientOpen, ClientOpenFails, ClientSend,
         ClientSendFails, ClientClose, ClientCloseFails, Goto, End, Enqueue, kernelVars

\* A step of the system without testers is one of these.
LEMMA NameStep ==
    ASSUME Testers = {}, TypeInv, ServerKeepsName, [Next]_vars
    PROVE  \/ \E s \in Servers :
                 /\ \A o \in Servers : o # s => pc'[o] = pc[o]
                 /\ \/ pc[s] = "open" /\ linked = NoQueue /\ linked' = s
                    \/ HasQueue(s)' /\ HasQueue(s) /\ linked' = linked
                    \/ ~HasQueue(s)' /\ linked' = linked
                    \/ pc[s] = "unlink" /\ pc'[s] = "done" /\ linked' = NoQueue
           \/ linked' = linked /\ \A o \in Servers : pc'[o] = pc[o] \/ pc'[o] = "done"
<1>1. CASE \E s \in Servers :
               ServerStep(s) \/ ReceiveFails(s) \/ ServerFails(s) \/ Interrupt(s)
  BY <1>1, ServerNameStep
<1>2. CASE \E c \in Clients : ClientStep(c) \/ ClientSendFails(c) \/ ClientCloseFails(c)
  BY <1>2, ClientNameStep
<1>3. CASE \E p \in Processes : Kill(p)
  BY <1>3 DEF Kill, End, TypeInv, TypeOK, Processes, kernelVars
<1>4. CASE UNCHANGED vars
  BY <1>4 DEF vars, processVars, kernelVars
<1>. QED
  BY <1>1, <1>2, <1>3, <1>4 DEF Next

LEMMA KeepsNext ==
    ASSUME Testers = {}, TypeInv, ServerKeepsName, [Next]_vars
    PROVE  ServerKeepsName'
<1>. \A s \in Servers : s # NoQueue
  BY ProcessesAssumption DEF Processes
<1>. QED
  BY NameStep DEF ServerKeepsName, HasQueue

LEMMA OwnNameStep ==
    ASSUME Testers = {}, TypeInv, ServerKeepsName, [Next]_vars,
           NEW s \in Servers, linked = s, linked' # s
    PROVE  pc[s] = "unlink" /\ pc'[s] = "done"
<1>. \A o \in Servers : o # NoQueue
  BY ProcessesAssumption DEF Processes
<1>. QED
  BY NameStep DEF ServerKeepsName, HasQueue

LEMMA NameInvariant ==
    ASSUME Testers = {}
    PROVE  Spec => [](TypeInv /\ ServerKeepsName)
<1>1. Init => TypeInv /\ ServerKeepsName
  BY TypeInit, KeepsInit
<1>2. TypeInv /\ ServerKeepsName /\ [Next]_vars => (TypeInv /\ ServerKeepsName)'
  BY TypeNext, KeepsNext
<1>. QED
  BY <1>1, <1>2, PTL DEF Spec

\* As long as only 17_server and 17_client use the name, a server has it from
\* its mq_open(O_CREAT | O_EXCL) to its mq_unlink, whichever calls fail and
\* whoever is killed: two servers never serve at once.
THEOREM OneServerAtATime ==
    ASSUME Testers = {}
    PROVE  Spec => []ServerKeepsName
BY NameInvariant, PTL

\* ... and the only step that takes its name away is its own mq_unlink, though
\* mq_unlink says a name and not a queue.
THEOREM NameIsItsOwn ==
    ASSUME Testers = {}
    PROVE  Spec => OnlyOwnNameRemoved
<1>1. TypeInv /\ ServerKeepsName /\ [Next]_vars =>
          [\A s \in Servers : linked = s /\ linked' # s =>
               pc[s] = "unlink" /\ pc'[s] = "done"]_vars
  BY OwnNameStep
<1>. QED
  BY <1>1, NameInvariant, PTL DEF Spec, OnlyOwnNameRemoved

-----------------------------------------------------------------------------
(* The server implements the mailbox.  What its queue accepted and it has  *)
(* not printed is, in this order, the message in its buffer and the        *)
(* messages in the queue.                                                  *)

\* b is what follows the first n elements of a.
Rest(a, n, b) ==
    /\ Len(a) = n + Len(b)
    /\ \A i \in 1 .. Len(b) : b[i] = a[n + i]

LEMMA RestAppend ==
    ASSUME NEW S, NEW a \in Seq(S), NEW b \in Seq(S), NEW n \in Nat, NEW m \in S,
           Rest(a, n, b)
    PROVE  /\ Rest(Append(a, m), n, Append(b, m))
           /\ \A i \in 1 .. Len(a) : Append(a, m)[i] = a[i]
<1>1. Len(a) \in Nat /\ Len(b) \in Nat /\ Len(a) = n + Len(b)
  BY DEF Rest
<1>2. /\ Len(Append(a, m)) = Len(a) + 1
      /\ Append(a, m)[Len(a) + 1] = m
      /\ \A i \in 1 .. Len(a) : Append(a, m)[i] = a[i]
  OBVIOUS
<1>3. /\ Len(Append(b, m)) = Len(b) + 1
      /\ Append(b, m)[Len(b) + 1] = m
      /\ \A i \in 1 .. Len(b) : Append(b, m)[i] = b[i]
  OBVIOUS
<1>4. ASSUME NEW i \in 1 .. Len(b) + 1
      PROVE  Append(b, m)[i] = Append(a, m)[n + i]
  <2>1. CASE i = Len(b) + 1
    <3>1. n + i = Len(a) + 1
      BY <1>1, <2>1
    <3>. QED
      BY <1>2, <1>3, <2>1, <3>1
  <2>2. CASE i \in 1 .. Len(b)
    <3>1. n + i \in 1 .. Len(a)
      BY <1>1, <2>2
    <3>2. b[i] = a[n + i]
      BY <2>2 DEF Rest
    <3>. QED
      BY <1>2, <1>3, <2>2, <3>1, <3>2
  <2>. QED
    BY <1>1, <2>1, <2>2
<1>5. Len(Append(a, m)) = n + Len(Append(b, m))
  BY <1>1, <1>2, <1>3
<1>. QED
  BY <1>2, <1>3, <1>4, <1>5 DEF Rest

LEMMA RestTail ==
    ASSUME NEW S, NEW a \in Seq(S), NEW b \in Seq(S), NEW n \in Nat,
           Rest(a, n, b), b # << >>
    PROVE  Head(b) = a[n + 1] /\ Rest(a, n + 1, Tail(b))
<1>1. Len(b) \in Nat /\ Len(b) > 0 /\ Len(Tail(b)) = Len(b) - 1 /\ Head(b) = b[1]
  OBVIOUS
<1>2. ASSUME NEW i \in 1 .. Len(Tail(b))
      PROVE  Tail(b)[i] = a[(n + 1) + i]
  <2>1. i + 1 \in 1 .. Len(b) /\ n + (i + 1) = (n + 1) + i
    BY <1>1
  <2>2. Tail(b)[i] = b[i + 1]
    OBVIOUS
  <2>3. b[i + 1] = a[n + (i + 1)]
    BY <2>1 DEF Rest
  <2>. QED
    BY <2>1, <2>2, <2>3
<1>3. b[1] = a[n + 1]
  BY <1>1 DEF Rest
<1>. QED
  BY <1>1, <1>2, <1>3 DEF Rest

Held(s) == IF buff[s] = NoMessage THEN 0 ELSE 1

Pending ==
    \A s \in Servers :
        /\ Rest(sent[s], Len(printed[s]) + Held(s), queue[s])
        /\ Len(queue[s]) <= MaxMsg
        /\ buff[s] # NoMessage => buff[s] = sent[s][Len(printed[s]) + 1]

\* The three ways in which a step can change what is pending.
Deposit(q, m) ==
    /\ Len(queue[q]) # MaxMsg
    /\ queue' = [queue EXCEPT ![q] = Append(@, m)]
    /\ sent' = [sent EXCEPT ![q] = Append(@, m)]
    /\ UNCHANGED <<buff, printed>>

Withdraw(s) ==
    /\ queue[s] # << >> /\ buff[s] = NoMessage
    /\ buff' = [buff EXCEPT ![s] = Head(queue[s])]
    /\ queue' = [queue EXCEPT ![s] = Tail(@)]
    /\ UNCHANGED <<sent, printed>>

Deliver(s) ==
    /\ buff[s] # NoMessage
    /\ printed' = [printed EXCEPT ![s] = Append(@, buff[s])]
    /\ buff' = [buff EXCEPT ![s] = NoMessage]
    /\ UNCHANGED <<queue, sent>>

MailVars == <<queue, sent, buff, printed>>

MailStep ==
    \/ \E q \in Creators, m \in Senders : Deposit(q, m)
    \/ \E s \in Servers : Withdraw(s) \/ Deliver(s)
    \/ UNCHANGED MailVars

LEMMA NextMailStep == TypeInv /\ [Next]_vars => MailStep
<1>. SUFFICES ASSUME TypeInv, [Next]_vars PROVE MailStep
  OBVIOUS
<1>. USE DEF MailVars, kernelVars, serverVars
<1>1. ASSUME NEW s \in Servers,
             ServerStep(s) \/ ReceiveFails(s) \/ ServerFails(s) \/ Interrupt(s)
      PROVE  MailStep
  <2>1. CASE Receive(s)
    <3>1. fd[s] = s /\ buff[s] = NoMessage
      BY <2>1 DEF Receive, TypeInv, Descriptors, Buffered, HasOpen
    <3>. QED
      BY <2>1, <3>1 DEF Receive, MailStep, Withdraw
  <2>2. CASE PrintMessage(s)
    <3>1. buff[s] # NoMessage
      BY <2>2 DEF PrintMessage, TypeInv, Buffered
    <3>. QED
      BY <2>2, <3>1 DEF PrintMessage, MailStep, Deliver
  <2>3. CASE \/ Install(s) \/ Create(s) \/ NameTaken(s) \/ Prepare(s) \/ Sleep(s)
             \/ Close(s) \/ Unlink(s) \/ ReceiveFails(s) \/ ServerFails(s)
             \/ Interrupt(s)
    BY <2>3 DEF MailStep, Install, Create, NameTaken, Prepare, Sleep, Close, Unlink,
                ReceiveFails, ServerFails, Interrupt
  <2>. QED
    BY <1>1, <2>1, <2>2, <2>3 DEF ServerStep
<1>2. ASSUME NEW c \in Clients,
             ClientStep(c) \/ ClientSendFails(c) \/ ClientCloseFails(c)
      PROVE  MailStep
  <2>1. CASE ClientSend(c)
    <3>1. c \in Senders /\ fd[c] \in Creators
      BY <2>1 DEF ClientSend, TypeInv, Descriptors, Senders
    <3>. QED
      BY <2>1, <3>1 DEF ClientSend, Enqueue, Full, MailStep, Deposit
  <2>2. CASE \/ ClientOpen(c) \/ ClientOpenFails(c) \/ ClientClose(c)
             \/ ClientSendFails(c) \/ ClientCloseFails(c)
    BY <2>2 DEF MailStep, ClientOpen, ClientOpenFails, ClientClose, ClientSendFails,
                ClientCloseFails
  <2>. QED
    BY <1>2, <2>1, <2>2 DEF ClientStep
<1>3. ASSUME NEW t \in Testers, TesterStep(t) \/ TesterOpenFails(t)
      PROVE  MailStep
  <2>1. CASE TesterSend(t)
    <3>1. t \in Senders /\ fd[t] \in Creators
      BY <2>1 DEF TesterSend, TypeInv, Descriptors, Senders
    <3>. QED
      BY <2>1, <3>1 DEF TesterSend, Enqueue, Full, MailStep, Deposit
  <2>2. CASE TesterOpen(t) \/ TesterClose(t) \/ TesterUnlink(t) \/ TesterOpenFails(t)
    BY <2>2 DEF MailStep, TesterOpen, TesterClose, TesterUnlink, TesterOpenFails
  <2>. QED
    BY <1>3, <2>1, <2>2 DEF TesterStep
<1>4. ASSUME NEW p \in Processes, Kill(p)
      PROVE  MailStep
  BY <1>4 DEF Kill, MailStep
<1>5. CASE UNCHANGED vars
  BY <1>5 DEF vars, MailStep
<1>. QED
  BY <1>1, <1>2, <1>3, <1>4, <1>5 DEF Next

LEMMA PendingInit == Init => Pending
<1>. SUFFICES ASSUME Init, NEW s \in Servers
     PROVE  /\ Rest(sent[s], Len(printed[s]) + Held(s), queue[s])
            /\ Len(queue[s]) <= MaxMsg
            /\ buff[s] # NoMessage => buff[s] = sent[s][Len(printed[s]) + 1]
  BY DEF Pending
<1>1. /\ sent[s] = << >> /\ printed[s] = << >> /\ queue[s] = << >>
      /\ buff[s] = NoMessage
  BY DEF Init, Creators
<1>. QED
  BY <1>1, BoundsAssumption DEF Rest, Held

LEMMA PendingNext ==
    ASSUME TypeInv, Pending, MailStep
    PROVE  Pending'
<1>. SUFFICES ASSUME NEW s \in Servers
     PROVE  (/\ Rest(sent[s], Len(printed[s]) + Held(s), queue[s])
             /\ Len(queue[s]) <= MaxMsg
             /\ buff[s] # NoMessage => buff[s] = sent[s][Len(printed[s]) + 1])'
  BY DEF Pending
<1>1. /\ s \in Creators
      /\ sent[s] \in Seq(Senders) /\ printed[s] \in Seq(Senders)
      /\ queue[s] \in Seq(Senders) /\ buff[s] \in Senders \cup {NoMessage}
      /\ queue \in [Creators -> Seq(Senders)] /\ sent \in [Creators -> Seq(Senders)]
      /\ buff \in [Servers -> Senders \cup {NoMessage}]
      /\ printed \in [Servers -> Seq(Senders)]
      /\ MaxMsg \in Nat /\ NoMessage \notin Senders
  BY BoundsAssumption, ProcessesAssumption
  DEF TypeInv, TypeOK, Creators, Processes, Senders
<1>2. /\ Rest(sent[s], Len(printed[s]) + Held(s), queue[s])
      /\ Len(queue[s]) <= MaxMsg
      /\ buff[s] # NoMessage => buff[s] = sent[s][Len(printed[s]) + 1]
  BY DEF Pending
<1>3. /\ Len(sent[s]) \in Nat /\ Len(printed[s]) \in Nat /\ Len(queue[s]) \in Nat
      /\ Held(s) \in {0, 1} /\ (buff[s] # NoMessage <=> Held(s) = 1)
      /\ Len(printed[s]) + Held(s) \in Nat
  BY <1>1 DEF Held
<1>4. CASE \E q \in Creators, m \in Senders : Deposit(q, m)
  <2>1. PICK q \in Creators, m \in Senders : Deposit(q, m)
    BY <1>4
  <2>2. CASE q = s
    <3>1. /\ queue'[s] = Append(queue[s], m) /\ sent'[s] = Append(sent[s], m)
          /\ Held(s)' = Held(s) /\ buff'[s] = buff[s] /\ printed'[s] = printed[s]
          /\ Len(queue[s]) # MaxMsg
      BY <1>1, <2>1, <2>2 DEF Deposit, Held
    <3>2. /\ Rest(sent'[s], Len(printed[s]) + Held(s), queue'[s])
          /\ \A i \in 1 .. Len(sent[s]) : sent'[s][i] = sent[s][i]
      BY <1>1, <1>2, <1>3, <3>1, RestAppend
    <3>3. Len(queue'[s]) <= MaxMsg
      BY <1>1, <1>2, <3>1
    <3>4. buff[s] # NoMessage => Len(printed[s]) + 1 \in 1 .. Len(sent[s])
      <4>1. Len(sent[s]) = Len(printed[s]) + Held(s) + Len(queue[s])
        BY <1>2 DEF Rest
      <4>. QED
        BY <1>3, <4>1
    <3>5. buff'[s] # NoMessage => buff'[s] = sent'[s][Len(printed[s]) + 1]
      BY <1>2, <3>1, <3>2, <3>4
    <3>. QED
      BY <3>1, <3>2, <3>3, <3>5
  <2>3. CASE q # s
    BY <1>1, <1>2, <2>1, <2>3 DEF Deposit, Held
  <2>. QED
    BY <2>2, <2>3
<1>5. CASE \E o \in Servers : Withdraw(o)
  <2>1. PICK o \in Servers : Withdraw(o)
    BY <1>5
  <2>2. CASE o = s
    <3>1. /\ queue[s] # << >> /\ buff[s] = NoMessage /\ buff'[s] = Head(queue[s])
          /\ queue'[s] = Tail(queue[s]) /\ sent'[s] = sent[s] /\ printed'[s] = printed[s]
      BY <1>1, <2>1, <2>2 DEF Withdraw
    <3>2. buff'[s] \in Senders /\ Len(queue'[s]) <= MaxMsg
      BY <1>1, <1>2, <3>1
    <3>3. Held(s) = 0 /\ Held(s)' = 1
      BY <1>1, <3>1, <3>2 DEF Held
    <3>4. /\ Head(queue[s]) = sent[s][Len(printed[s]) + 1]
          /\ Rest(sent[s], Len(printed[s]) + 1, Tail(queue[s]))
      BY <1>1, <1>2, <1>3, <3>1, <3>3, RestTail
    <3>. QED
      BY <3>1, <3>2, <3>3, <3>4
  <2>3. CASE o # s
    BY <1>1, <1>2, <2>1, <2>3 DEF Withdraw, Held
  <2>. QED
    BY <2>2, <2>3
<1>6. CASE \E o \in Servers : Deliver(o)
  <2>1. PICK o \in Servers : Deliver(o)
    BY <1>6
  <2>2. CASE o = s
    <3>1. /\ buff[s] # NoMessage /\ buff'[s] = NoMessage
          /\ printed'[s] = Append(printed[s], buff[s])
          /\ queue'[s] = queue[s] /\ sent'[s] = sent[s]
      BY <1>1, <2>1, <2>2 DEF Deliver
    <3>2. Held(s) = 1 /\ Held(s)' = 0
      BY <3>1 DEF Held
    <3>3. Len(printed'[s]) + Held(s)' = Len(printed[s]) + Held(s)
      BY <1>1, <1>3, <3>1, <3>2
    <3>. QED
      BY <1>2, <3>1, <3>3
  <2>3. CASE o # s
    BY <1>1, <1>2, <2>1, <2>3 DEF Deliver, Held
  <2>. QED
    BY <2>2, <2>3
<1>7. CASE UNCHANGED MailVars
  BY <1>2, <1>7 DEF MailVars, Held
<1>. QED
  BY <1>4, <1>5, <1>6, <1>7 DEF MailStep

\* Every step of the programs is one of the mailbox or does not concern it.
LEMMA MailboxStep ==
    ASSUME TypeInv, Pending, MailStep
    PROVE  [Abstract!Next]_(Abstract!vars)
<1>1. CASE \E q \in Creators, m \in Senders : Deposit(q, m)
  <2>1. PICK q \in Creators, m \in Senders : Deposit(q, m)
    BY <1>1
  <2>2. CASE q \in Servers
    <3>1. Len(sent[q]) - Len(printed[q]) < MaxMsg + 1
      <4>1. /\ sent[q] \in Seq(Senders) /\ printed[q] \in Seq(Senders)
            /\ queue[q] \in Seq(Senders) /\ MaxMsg \in Nat
        BY <2>2, BoundsAssumption DEF TypeInv, TypeOK
      <4>2. /\ Len(sent[q]) = Len(printed[q]) + Held(q) + Len(queue[q])
            /\ Len(queue[q]) <= MaxMsg /\ Len(queue[q]) # MaxMsg
            /\ Held(q) \in {0, 1}
        BY <2>1, <2>2 DEF Deposit, Pending, Rest, Held
      <4>. QED
        BY <4>1, <4>2
    <3>2. [s \in Servers |-> sent'[s]]
             = [[s \in Servers |-> sent[s]] EXCEPT ![q] = Append(@, m)]
      BY <2>1, <2>2 DEF Deposit, TypeInv, TypeOK, Creators
    <3>. QED
      BY <2>1, <2>2, <3>1, <3>2 DEF Deposit, Abstract!Next, Abstract!Accept
  <2>3. CASE q \notin Servers
    <3>1. [s \in Servers |-> sent'[s]] = [s \in Servers |-> sent[s]]
      BY <2>1, <2>3 DEF Deposit, TypeInv, TypeOK, Creators
    <3>. QED
      BY <2>1, <3>1 DEF Deposit, Abstract!vars
  <2>. QED
    BY <2>2, <2>3
<1>2. CASE \E s \in Servers : Deliver(s)
  <2>1. PICK s \in Servers : Deliver(s)
    BY <1>2
  <2>2. Len(printed[s]) < Len(sent[s]) /\ buff[s] = sent[s][Len(printed[s]) + 1]
    BY <2>1 DEF Deliver, Pending, Rest, Held, TypeInv, TypeOK, Creators
  <2>. QED
    BY <2>1, <2>2 DEF Deliver, TypeInv, TypeOK, Abstract!Next, Abstract!PrintNext
<1>3. CASE (\E s \in Servers : Withdraw(s)) \/ UNCHANGED MailVars
  BY <1>3 DEF Withdraw, MailVars, Abstract!vars
<1>. QED
  BY <1>1, <1>2, <1>3 DEF MailStep

\* Each server prints the messages its queue accepted, each once and in the
\* order of acceptance, and is at most a full queue and a buffer behind; SIGINT,
\* failing calls, kill and another program that removes the name change nothing.
THEOREM ServerIsMailbox == Spec => ServesInOrder
<1>1. Init => Abstract!Init
  BY DEF Init, Creators, Abstract!Init
<1>2. Init => TypeInv /\ Pending
  BY TypeInit, PendingInit
<1>3. TypeInv /\ Pending /\ [Next]_vars => (TypeInv /\ Pending)'
  BY TypeNext, NextMailStep, PendingNext
<1>4. TypeInv /\ Pending /\ [Next]_vars => [Abstract!Next]_(Abstract!vars)
  BY NextMailStep, MailboxStep
<1>. QED
  BY <1>1, <1>2, <1>3, <1>4, PTL DEF Spec, ServesInOrder, Abstract!Spec

-----------------------------------------------------------------------------
(* The client's exit status.  Until its mq_send a client has sent nothing; *)
(* from then on result tells how the call went, unless mq_close replaced   *)
(* it with 2.                                                              *)

ClientKnows(c) ==
    /\ pc[c] \in {"open", "send"} => result[c] = 0 /\ ~Accepted(c)
    /\ pc[c] = "close" => (result[c] = 0 /\ Accepted(c)) \/ (result[c] = 1 /\ ~Accepted(c))
    /\ pc[c] # "done" => pc[c] \in {"open", "send", "close"} /\ exit[c] = Running
    /\ exit[c] = 0 => Accepted(c)
    /\ exit[c] = 1 => ~Accepted(c)

ClientsKnow == \A c \in Clients : ClientKnows(c)

LEMMA KnowInit == Init => ClientsKnow
BY ProcessesAssumption
DEF Init, ClientsKnow, ClientKnows, Accepted, Processes, Senders, Running

\* What a queue accepted stays accepted, and only an mq_send adds to it.
LEMMA EnqueueAccepts ==
    ASSUME TypeInv, NEW p \in Senders, pc[p] = "send", Enqueue(p)
    PROVE  /\ Accepted(p)'
           /\ \A q : q # p => (Accepted(q)' <=> Accepted(q))
<1> DEFINE Q == fd[p]
<1>1. Q \in Creators /\ sent[Q] \in Seq(Senders) /\ sent \in [Creators -> Seq(Senders)]
  BY DEF TypeInv, TypeOK, Descriptors
<1>2. sent' = [sent EXCEPT ![Q] = Append(sent[Q], p)]
  BY DEF Enqueue
<1> HIDE DEF Q
<1>3. /\ sent'[Q] = Append(sent[Q], p)
      /\ \A r \in Creators \ {Q} : sent'[r] = sent[r]
  BY <1>1, <1>2
<1>4. /\ Len(sent'[Q]) = Len(sent[Q]) + 1
      /\ Len(sent[Q]) \in Nat
      /\ sent'[Q][Len(sent[Q]) + 1] = p
      /\ \A i \in 1 .. Len(sent[Q]) : sent'[Q][i] = sent[Q][i]
  BY <1>1, <1>3, AppendProperties, LenProperties
<1>5. Accepted(p)'
  <2>1. Len(sent[Q]) + 1 \in 1 .. Len(sent'[Q])
    BY <1>4
  <2>. QED
    BY <1>1, <1>4, <2>1 DEF Accepted
<1>6. ASSUME NEW q, q # p PROVE Accepted(q)' <=> Accepted(q)
  <2>1. ASSUME NEW r \in Creators
        PROVE  (\E i \in 1 .. Len(sent'[r]) : sent'[r][i] = q)
                   <=> \E i \in 1 .. Len(sent[r]) : sent[r][i] = q
    <3>1. CASE r # Q
      BY <1>3, <3>1
    <3>2. CASE r = Q
      <4>1. \A i \in 1 .. Len(sent'[Q]) : i \in 1 .. Len(sent[Q]) \/ i = Len(sent[Q]) + 1
        BY <1>4
      <4>2. \A i \in 1 .. Len(sent[Q]) : i \in 1 .. Len(sent'[Q])
        BY <1>4
      <4>. QED
        BY <1>4, <1>6, <3>2, <4>1, <4>2
    <3>. QED
      BY <3>1, <3>2
  <2>. QED
    BY <2>1 DEF Accepted
<1>. QED
  BY <1>5, <1>6

\* A step that is not c's leaves what c knows alone.
LEMMA OthersKeepKnowledge ==
    ASSUME NEW c \in Clients, ClientKnows(c),
           UNCHANGED <<pc[c], exit[c], result[c]>>, Accepted(c)' <=> Accepted(c)
    PROVE  ClientKnows(c)'
BY DEF ClientKnows

\* Only what a process does to the accepted messages and its own place matters
\* to others.
LEMMA OthersStep ==
    ASSUME TypeInv, [Next]_vars, NEW c \in Clients,
           ~(ClientStep(c) \/ ClientSendFails(c) \/ ClientCloseFails(c)), ~Kill(c)
    PROVE  UNCHANGED <<pc[c], exit[c], result[c]>> /\ (Accepted(c)' <=> Accepted(c))
<1>. c \in Processes /\ c \notin Servers /\ c \notin Testers
  BY ProcessesAssumption DEF Processes
<1>. USE DEF TypeInv, TypeOK
<1>1. CASE UNCHANGED vars
  BY <1>1 DEF vars, processVars, kernelVars, Accepted
<1>2. ASSUME NEW s \in Servers,
             ServerStep(s) \/ ReceiveFails(s) \/ ServerFails(s) \/ Interrupt(s)
      PROVE  UNCHANGED <<pc[c], exit[c], result[c]>> /\ (Accepted(c)' <=> Accepted(c))
  <2>1. sent' = sent /\ result' = result
    BY <1>2 DEF ServerStep, Install, Create, NameTaken, Prepare, Receive, Sleep,
                PrintMessage, Close, Unlink, ReceiveFails, ServerFails, Interrupt, kernelVars
  <2>2. pc'[c] = pc[c] /\ exit'[c] = exit[c]
    BY <1>2 DEF ServerStep, Install, Create, NameTaken, Prepare, Receive, Sleep,
                PrintMessage, Close, Unlink, ReceiveFails, ServerFails, Interrupt, Goto, End
  <2>. QED
    BY <2>1, <2>2 DEF Accepted
<1>3. ASSUME NEW d \in Clients, d # c,
             ClientStep(d) \/ ClientSendFails(d) \/ ClientCloseFails(d)
      PROVE  UNCHANGED <<pc[c], exit[c], result[c]>> /\ (Accepted(c)' <=> Accepted(c))
  <2>1. UNCHANGED <<pc[c], exit[c], result[c]>>
    BY <1>3 DEF ClientStep, ClientOpen, ClientOpenFails, ClientSend, ClientClose,
                ClientSendFails, ClientCloseFails, Goto, End
  <2>2. CASE ClientSend(d)
    BY <2>1, <2>2, <1>3, EnqueueAccepts DEF ClientSend, Senders
  <2>3. CASE ~ClientSend(d)
    <3>1. sent' = sent
      BY <1>3, <2>3 DEF ClientStep, ClientOpen, ClientOpenFails, ClientClose,
                        ClientSendFails, ClientCloseFails, kernelVars
    <3>. QED
      BY <2>1, <3>1 DEF Accepted
  <2>. QED
    BY <2>2, <2>3
<1>4. ASSUME NEW t \in Testers, TesterStep(t) \/ TesterOpenFails(t)
      PROVE  UNCHANGED <<pc[c], exit[c], result[c]>> /\ (Accepted(c)' <=> Accepted(c))
  <2>1. UNCHANGED <<pc[c], exit[c], result[c]>>
    BY <1>4 DEF TesterStep, TesterOpen, TesterOpenFails, TesterSend, TesterClose,
                TesterUnlink, Goto, End
  <2>2. CASE pc[t] = "send" /\ Enqueue(t)
    <3>1. t # c /\ t \in Senders
      BY DEF Senders
    <3>. QED
      BY <2>1, <2>2, <3>1, EnqueueAccepts
  <2>3. CASE ~(pc[t] = "send" /\ Enqueue(t))
    <3>1. sent' = sent
      BY <1>4, <2>3 DEF TesterStep, TesterOpen, TesterOpenFails, TesterSend, TesterClose,
                        TesterUnlink, kernelVars
    <3>. QED
      BY <2>1, <3>1 DEF Accepted
  <2>. QED
    BY <2>2, <2>3
<1>5. ASSUME NEW p \in Processes, p # c, Kill(p)
      PROVE  UNCHANGED <<pc[c], exit[c], result[c]>> /\ (Accepted(c)' <=> Accepted(c))
  BY <1>5 DEF Kill, End, kernelVars, Accepted
<1>. QED
  BY <1>1, <1>2, <1>3, <1>4, <1>5 DEF Next

\* c's own steps.
LEMMA OwnStepKnows ==
    ASSUME TypeInv, NEW c \in Clients, ClientKnows(c),
           ClientStep(c) \/ ClientSendFails(c) \/ ClientCloseFails(c) \/ Kill(c)
    PROVE  ClientKnows(c)'
<1>. c \in Processes /\ c \in Senders
  BY DEF Processes, Senders
<1>1. CASE ClientSend(c)
  <2>1. pc[c] = "send" /\ Enqueue(c) /\ Goto(c, "close") /\ result' = result
    BY <1>1 DEF ClientSend
  <2>2. Accepted(c)'
    BY <2>1, EnqueueAccepts
  <2>. QED
    BY <2>1, <2>2 DEF Goto, ClientKnows, TypeInv, TypeOK, Running
<1>2. CASE ~ClientSend(c)
  <2>1. Accepted(c)' <=> Accepted(c)
    BY <1>2 DEF ClientStep, ClientOpen, ClientOpenFails, ClientClose, ClientSendFails,
                ClientCloseFails, Kill, kernelVars, Accepted
  <2>. QED
    BY <1>2, <2>1
    DEF ClientStep, ClientOpen, ClientOpenFails, ClientClose, ClientSendFails,
        ClientCloseFails, Kill, Goto, End, ClientKnows, TypeInv, TypeOK, Running, Killed
<1>. QED
  BY <1>1, <1>2

LEMMA KnowNext == TypeInv /\ ClientsKnow /\ [Next]_vars => ClientsKnow'
<1>. SUFFICES ASSUME TypeInv, ClientsKnow, [Next]_vars, NEW c \in Clients
     PROVE  ClientKnows(c)'
  BY DEF ClientsKnow
<1>1. ClientKnows(c)
  BY DEF ClientsKnow
<1>2. CASE ClientStep(c) \/ ClientSendFails(c) \/ ClientCloseFails(c) \/ Kill(c)
  BY <1>1, <1>2, OwnStepKnows
<1>3. CASE ~(ClientStep(c) \/ ClientSendFails(c) \/ ClientCloseFails(c) \/ Kill(c))
  BY <1>1, <1>3, OthersStep, OthersKeepKnowledge
<1>. QED
  BY <1>2, <1>3

\* Status 0 of 17_client.c means that a queue accepted its message, status 1
\* that none did, whatever the others do and whichever calls fail.
THEOREM ClientStatusIsTrue == Spec => []StatusTellsAccepted
<1>1. Spec => []ClientsKnow
  BY TypeInvariant, KnowInit, KnowNext, PTL DEF Spec
<1>2. ClientsKnow => StatusTellsAccepted
  BY DEF ClientsKnow, ClientKnows, StatusTellsAccepted
<1>. QED
  BY <1>1, <1>2, PTL

-----------------------------------------------------------------------------
(* The name that is left.  LeftNameIsReported speaks of a server that ended *)
(* while its queue had the name.  A server whose queue has the name has     *)
(* created it, so it can fail with the status of a later call only; and its *)
(* mq_unlink takes the name, so it does not end with 0.                     *)

NameReported ==
    \A s \in Servers : linked = s =>
        /\ pc[s] \notin {"sigaction", "open"}
        /\ pc[s] = "done" => exit[s] \in {4, 5, 6, 7, Killed}

LEMMA ReportedInit == Init => NameReported
BY ProcessesAssumption DEF Init, NameReported, Processes

\* A step of one process leaves the name with the server that has it, or takes
\* it away: what the invariant says of a server depends on its own steps only.
LEMMA ReportedByOthers ==
    ASSUME NameReported, NEW s \in Servers, linked' = s => linked = s,
           UNCHANGED <<pc[s], exit[s]>>
    PROVE  linked' = s => /\ pc'[s] \notin {"sigaction", "open"}
                          /\ pc'[s] = "done" => exit'[s] \in {4, 5, 6, 7, Killed}
BY DEF NameReported

LEMMA ReportedServer ==
    ASSUME TypeInv, NameReported, NEW o \in Servers,
           ServerStep(o) \/ ReceiveFails(o) \/ ServerFails(o) \/ Interrupt(o)
    PROVE  NameReported'
<1>. SUFFICES ASSUME NEW s \in Servers, linked' = s
     PROVE  /\ pc'[s] \notin {"sigaction", "open"}
            /\ pc'[s] = "done" => exit'[s] \in {4, 5, 6, 7, Killed}
  BY DEF NameReported
<1>0. /\ s \in Processes /\ o \in Processes /\ NoQueue \notin Processes
      /\ pc \in [Processes -> Locations]
      /\ exit \in [Processes -> {Running, Killed} \cup 0 .. 7]
      /\ linked = s => /\ pc[s] \notin {"sigaction", "open"}
                       /\ pc[s] = "done" => exit[s] \in {4, 5, 6, 7, Killed}
  BY ProcessesAssumption DEF TypeInv, TypeOK, Processes, NameReported
<1>1. CASE o # s
  <2>1. UNCHANGED <<pc[s], exit[s]>>
    BY <1>0, <1>1 DEF ServerStep, Install, Create, NameTaken, Prepare, Receive, Sleep,
            PrintMessage, Close, Unlink, ReceiveFails, ServerFails, Interrupt, Goto, End
  <2>2. linked = s
    BY <1>0, <1>1 DEF ServerStep, Install, Create, NameTaken, Prepare, Receive, Sleep,
            PrintMessage, Close, Unlink, ReceiveFails, ServerFails, Interrupt, kernelVars
  <2>. QED
    BY <2>1, <2>2, ReportedByOthers
<1>2. CASE o = s
  <2>1. CASE Create(o)
    BY <1>0, <1>2, <2>1 DEF Create, Goto
  <2>2. CASE Unlink(o)
    BY <1>0, <1>2, <2>2 DEF Unlink
  <2>3. CASE ServerFails(o)
    <3>1. /\ linked = s /\ pc[s] \in DOMAIN FailureStatus
          /\ pc'[s] = "done" /\ exit'[s] = FailureStatus[pc[s]]
      BY <1>0, <1>2, <2>3 DEF ServerFails, End, kernelVars
    <3>2. pc[s] \in {"getattr", "malloc", "close", "unlink"}
      BY <1>0, <3>1 DEF FailureStatus
    <3>3. /\ FailureStatus["getattr"] = 4 /\ FailureStatus["malloc"] = 5
          /\ FailureStatus["close"] = 6 /\ FailureStatus["unlink"] = 7
      BY DEF FailureStatus
    <3>. QED
      BY <3>1, <3>2, <3>3
  <2>4. CASE NameTaken(o)
    BY <1>0, <1>2, <2>4 DEF NameTaken, kernelVars
  <2>5. CASE Install(o)
    BY <1>0, <1>2, <2>5 DEF Install, Goto, kernelVars
  <2>6. CASE Prepare(o) \/ Receive(o) \/ Sleep(o) \/ PrintMessage(o) \/ Close(o)
                \/ ReceiveFails(o) \/ Interrupt(o)
    BY <1>0, <1>2, <2>6 DEF Prepare, Receive, Sleep, PrintMessage, Close, ReceiveFails,
                          Interrupt, Goto, kernelVars
  <2>. QED
    BY <2>1, <2>2, <2>3, <2>4, <2>5, <2>6 DEF ServerStep
<1>. QED
  BY <1>1, <1>2

LEMMA ReportedNext == TypeInv /\ NameReported /\ [Next]_vars => NameReported'
<1>. SUFFICES ASSUME TypeInv, NameReported, [Next]_vars PROVE NameReported'
  OBVIOUS
<1>1. CASE UNCHANGED vars
  <2>1. linked' = linked /\ pc' = pc /\ exit' = exit
    BY <1>1 DEF vars, processVars, kernelVars
  <2>. QED
    BY <2>1 DEF NameReported
<1>2. CASE \E s \in Servers : ServerStep(s) \/ ReceiveFails(s) \/ ServerFails(s) \/ Interrupt(s)
  BY <1>2, ReportedServer
<1>3. CASE \E c \in Clients : ClientStep(c) \/ ClientSendFails(c) \/ ClientCloseFails(c)
  <2>1. PICK c \in Clients : ClientStep(c) \/ ClientSendFails(c) \/ ClientCloseFails(c)
    BY <1>3
  <2>2. c \notin Servers
    BY ProcessesAssumption
  <2>3. linked' = linked
    BY <2>1 DEF ClientStep, ClientOpen, ClientOpenFails, ClientSend, ClientClose,
                ClientSendFails, ClientCloseFails, Enqueue, kernelVars
  <2>4. \A s \in Servers : pc'[s] = pc[s] /\ exit'[s] = exit[s]
    BY <2>1, <2>2 DEF ClientStep, ClientOpen, ClientOpenFails, ClientSend, ClientClose,
                      ClientSendFails, ClientCloseFails, Goto, End, TypeInv, TypeOK, Processes
  <2>. QED
    BY <2>3, <2>4 DEF NameReported
<1>4. CASE \E t \in Testers : TesterStep(t) \/ TesterOpenFails(t)
  <2>1. PICK t \in Testers : TesterStep(t) \/ TesterOpenFails(t)
    BY <1>4
  <2>2. t \notin Servers /\ NoQueue \notin Servers
    BY ProcessesAssumption DEF Processes
  <2>3. linked' \in {linked, t, NoQueue}
    BY <2>1 DEF TesterStep, TesterOpen, TesterOpenFails, TesterSend, TesterClose,
                TesterUnlink, Enqueue, kernelVars
  <2>4. \A s \in Servers : pc'[s] = pc[s] /\ exit'[s] = exit[s]
    BY <2>1, <2>2 DEF TesterStep, TesterOpen, TesterOpenFails, TesterSend, TesterClose,
                      TesterUnlink, Goto, End, TypeInv, TypeOK, Processes
  <2>. QED
    BY <2>2, <2>3, <2>4 DEF NameReported
<1>5. CASE \E p \in Processes : Kill(p)
  <2>1. PICK p \in Processes : Kill(p)
    BY <1>5
  <2>2. linked' = linked
    BY <2>1 DEF Kill, kernelVars
  <2>3. \A s \in Servers : IF s = p THEN pc'[s] = "done" /\ exit'[s] = Killed
                                    ELSE pc'[s] = pc[s] /\ exit'[s] = exit[s]
    BY <2>1 DEF Kill, End, TypeInv, TypeOK, Processes
  <2>. QED
    BY <2>2, <2>3 DEF NameReported
<1>. QED
  BY <1>1, <1>2, <1>3, <1>4, <1>5 DEF Next

\* A server that ends while its queue still has the name, so that no later
\* server can start, ends with the status of a call after its mq_open or is
\* killed; in particular not with 0.
THEOREM LeftNameTold == Spec => []LeftNameIsReported
<1>1. Spec => []NameReported
  BY TypeInvariant, ReportedInit, ReportedNext, PTL DEF Spec
<1>2. NameReported => LeftNameIsReported
  BY DEF NameReported, LeftNameIsReported
<1>. QED
  BY <1>1, <1>2, PTL
=============================================================================
