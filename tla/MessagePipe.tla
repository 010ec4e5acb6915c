---------------------------- MODULE MessagePipe ----------------------------
(***************************************************************************)
(* What the control socket promises to the daemon and to the session: each *)
(* handles the other's messages whole, in the order of sending and at most *)
(* once, and misses messages only when its own connection goes away, the   *)
(* oldest first.  ControlSocket is built on this promise; LineSocket shows *)
(* that the byte stream keeps it.                                          *)
(***************************************************************************)
EXTENDS Integers, Sequences

VARIABLES
    holds,      \* the end has a connection
    sent,       \* messages the end has sent
    queue,      \* the numbers of those under way, oldest first
    delivered   \* the numbers of those the other end has handled

pipeVars == <<holds, sent, queue, delivered>>

Ends == {"daemon", "session"}

Peer(e) == IF e = "daemon" THEN "session" ELSE "daemon"

Init ==
    /\ holds = [e \in Ends |-> FALSE]
    /\ sent = [e \in Ends |-> 0]
    /\ queue = [e \in Ends |-> <<>>]
    /\ delivered = [e \in Ends |-> <<>>]

Attach(e) ==
    /\ ~holds[e]
    /\ holds' = [holds EXCEPT ![e] = TRUE]
    /\ UNCHANGED <<sent, queue, delivered>>

Send(e) ==
    /\ holds[e]
    /\ sent' = [sent EXCEPT ![e] = @ + 1]
    /\ queue' = [queue EXCEPT ![e] = Append(@, sent[e] + 1)]
    /\ UNCHANGED <<holds, delivered>>

\* The other end handles the oldest message of e.
Deliver(e) ==
    /\ queue[e] # <<>>
    /\ queue' = [queue EXCEPT ![e] = Tail(@)]
    /\ delivered' = [delivered EXCEPT ![e] = Append(@, Head(queue[e]))]
    /\ UNCHANGED <<holds, sent>>

\* End r is left without a connection; the first k messages meant for it are lost.
Detach(r) ==
    /\ holds' = [holds EXCEPT ![r] = FALSE]
    /\ \E k \in 0 .. Len(queue[Peer(r)]) :
         queue' = [queue EXCEPT ![Peer(r)] = SubSeq(@, k + 1, Len(@))]
    /\ UNCHANGED <<sent, delivered>>

Next == \E e \in Ends : Attach(e) \/ Send(e) \/ Deliver(e) \/ Detach(e)

\* Every message is handled, unless the end it is for loses its connection again
\* and again.
Fairness == \A e \in Ends : WF_pipeVars(Deliver(e))

\* What may happen, without what must.
Safety == Init /\ [][Next]_pipeVars

Spec == Safety /\ Fairness

Increasing(s) == \A i, j \in 1 .. Len(s) : i < j => s[i] < s[j]

\* Nothing is handled twice or out of order.
InOrder == \A e \in Ends : Increasing(delivered[e])
=============================================================================
