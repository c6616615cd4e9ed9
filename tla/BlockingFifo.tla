---------------------------- MODULE BlockingFifo ----------------------------
(***************************************************************************)
(* What SafeQueue promises to the thread pool and to the connection pool,  *)
(* whatever the interleaving of its callers: values leave in the order in  *)
(* which they came, each is handed to one caller, and a caller is turned   *)
(* away only once the queue has been aborted.  A value that has not been   *)
(* handed out when the queue is aborted may still be handed out by a call  *)
(* that was already under way.                                             *)
(***************************************************************************)
EXTENDS Sequences

CONSTANTS Consumers,  \* the threads that take values
          Values,     \* what is stored
          Nothing,    \* the result of a call that has not ended
          Refused     \* the result of a call that was turned away

VARIABLES items,      \* the values stored, oldest first
          closed,     \* the queue has been aborted
          outcome     \* outcome[c]: how the call of c has ended, Nothing before

fifoVars == <<items, closed, outcome>>

Init ==
    /\ items = <<>>
    /\ closed = FALSE
    /\ outcome = [c \in Consumers |-> Nothing]

Put(v) ==
    /\ items' = Append(items, v)
    /\ UNCHANGED <<closed, outcome>>

Close ==
    /\ closed' = TRUE
    /\ UNCHANGED <<items, outcome>>

Take(c) ==
    /\ outcome[c] = Nothing
    /\ items # <<>>
    /\ outcome' = [outcome EXCEPT ![c] = Head(items)]
    /\ items' = Tail(items)
    /\ UNCHANGED closed

TurnAway(c) ==
    /\ outcome[c] = Nothing
    /\ closed
    /\ outcome' = [outcome EXCEPT ![c] = Refused]
    /\ UNCHANGED <<items, closed>>

\* The caller comes back with a new call.
CallAgain(c) ==
    /\ outcome[c] # Nothing
    /\ outcome' = [outcome EXCEPT ![c] = Nothing]
    /\ UNCHANGED <<items, closed>>

Next ==
    \/ \E v \in Values : Put(v)
    \/ Close
    \/ \E c \in Consumers : Take(c) \/ TurnAway(c) \/ CallAgain(c)

Spec == Init /\ [][Next]_fifoVars
=============================================================================
