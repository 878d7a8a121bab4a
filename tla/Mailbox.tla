-------------------------------- MODULE Mailbox --------------------------------
(***************************************************************************)
(* What 17_server.c promises to the clients of its queue: every server     *)
(* prints the messages that were accepted for it, each once and in the     *)
(* order of acceptance, and never falls more than a queue behind them.     *)
(***************************************************************************)
EXTENDS Naturals, Sequences

CONSTANTS Owners, Messages, Capacity

VARIABLES accepted, printed

vars == <<accepted, printed>>

Init ==
    /\ accepted = [o \in Owners |-> << >>]
    /\ printed = [o \in Owners |-> << >>]

\* Besides the queue, the receiver's buffer holds one message.
Accept(o, m) ==
    /\ Len(accepted[o]) - Len(printed[o]) < Capacity + 1
    /\ accepted' = [accepted EXCEPT ![o] = Append(@, m)]
    /\ UNCHANGED printed

PrintNext(o) ==
    /\ Len(printed[o]) < Len(accepted[o])
    /\ printed' = [printed EXCEPT ![o] = Append(@, accepted[o][Len(@) + 1])]
    /\ UNCHANGED accepted

Next == \E o \in Owners : PrintNext(o) \/ \E m \in Messages : Accept(o, m)

Spec == Init /\ [][Next]_vars
=============================================================================
