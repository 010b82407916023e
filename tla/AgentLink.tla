----------------------------- MODULE AgentLink -----------------------------
(***************************************************************************)
(* AgentClient: the requests of one application share one connection, one  *)
(* at a time in the order they were made (the CONN mutex is fair), and an  *)
(* answer is posted to the application's message queue.                    *)
(***************************************************************************)
EXTENDS Naturals, Sequences, FiniteSets

NewLink(requests) == [waiting |-> requests, reply |-> <<>>, inbox |-> <<>>]

Enqueue(l, requests) == [l EXCEPT !.waiting = @ \o requests]
\* The agent answers the request on the connection ...
CanServe(l) == l.waiting # <<>> /\ l.reply = <<>>
Answered(l, r) == [l EXCEPT !.waiting = Tail(@), !.reply = <<r>>]
\* ... the task that made it reads the answer and posts a message.
Delivered(l) == [l EXCEPT !.reply = <<>>, !.inbox = @ \o l.reply]
PostMessage(l, m) == [l EXCEPT !.inbox = Append(@, m)]
Taken(l) == [l EXCEPT !.inbox = Tail(@)]

\* The elements of s at the positions in K, in their order.
Keeping(s, K) ==
    [k \in 1 .. Cardinality(K) |-> s[CHOOSE i \in K : Cardinality({j \in K : j <= i}) = k]]

Pending(l) == Len(l.waiting) + Len(l.reply) + Len(l.inbox)
Idle(l) == Pending(l) = 0
=============================================================================
