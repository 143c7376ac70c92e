--------------------------- MODULE MessageChannel ---------------------------
(***************************************************************************)
(* What the two ends of a reliable port may expect of it, one direction.   *)
(*                                                                         *)
(* Messages handed over one after another may be put on the channel in any *)
(* order: every send is a task of its own. From then on they arrive whole, *)
(* once and in the order they were put on, except that a cut loses what    *)
(* was not yet put on and any number of messages from the end of the queue.*)
(* While the promise is void, nothing is said of the channel.              *)
(***************************************************************************)
EXTENDS Integers, Sequences

CONSTANT Messages

VARIABLES void,       \* the promise does not hold (any more)
          outbox,     \* messages handed over, not yet on the channel
          queue,      \* messages on the channel
          received    \* messages taken off it, in order

vars == <<void, outbox, queue, received>>

Init == ~void /\ outbox = {} /\ queue = <<>> /\ received = <<>>

Send(m) == outbox' = outbox \cup {m} /\ UNCHANGED <<queue, received>>

Commit(m) ==
    /\ m \in outbox
    /\ outbox' = outbox \ {m}
    /\ queue' = Append(queue, m)
    /\ UNCHANGED received

Deliver ==
    /\ UNCHANGED outbox
    /\ \E k \in 1..Len(queue) :
          /\ received' = received \o SubSeq(queue, 1, k)
          /\ queue' = SubSeq(queue, k + 1, Len(queue))

Cut ==
    /\ outbox' = {}
    /\ \E k \in 0..Len(queue) : queue' = SubSeq(queue, 1, k)
    /\ UNCHANGED received

Kept == void' = FALSE /\ (Deliver \/ Cut \/ \E m \in Messages : Send(m) \/ Commit(m))

Next == void \/ void' = TRUE \/ Kept

\* The lock is handed on and the receiver keeps looking.
Fairness ==
    /\ WF_vars(~void /\ void' = FALSE /\ Deliver)
    /\ \A m \in Messages : WF_vars(~void /\ void' = FALSE /\ Commit(m))

Spec == Init /\ [][Next]_vars /\ Fairness
=============================================================================
