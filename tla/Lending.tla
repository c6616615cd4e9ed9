------------------------------ MODULE Lending ------------------------------
(***************************************************************************)
(* What a connection pool promises: a connection is idle or lent to one    *)
(* borrower, a borrower has at most one, and a connection appears only     *)
(* when the pool is stocked or when a borrower finds nothing to borrow and *)
(* gets one of its own.                                                    *)
(***************************************************************************)
CONSTANTS Borrowers,
          Connections,
          NoConnection

VARIABLES idle,  \* the connections nobody uses
          lent   \* lent[b]: the connection b uses, or NoConnection

lendingVars == <<idle, lent>>

InUse == {lent[b] : b \in Borrowers} \ {NoConnection}

Init ==
    /\ idle = {}
    /\ lent = [b \in Borrowers |-> NoConnection]

\* A connection nobody has joins the idle ones before anybody borrows.
Stock(c) ==
    /\ InUse = {}
    /\ c \notin idle
    /\ idle' = idle \cup {c}
    /\ UNCHANGED lent

Lend(b, c) ==
    /\ lent[b] = NoConnection
    /\ c \in idle
    /\ idle' = idle \ {c}
    /\ lent' = [lent EXCEPT ![b] = c]

\* A new connection goes to b right away.
Make(b, c) ==
    /\ lent[b] = NoConnection
    /\ c \notin idle \cup InUse
    /\ lent' = [lent EXCEPT ![b] = c]
    /\ UNCHANGED idle

Return(b) ==
    /\ lent[b] # NoConnection
    /\ idle' = idle \cup {lent[b]}
    /\ lent' = [lent EXCEPT ![b] = NoConnection]

\* The connection is broken, or its borrower was unwound by an exception.
Lose(b) ==
    /\ lent[b] # NoConnection
    /\ lent' = [lent EXCEPT ![b] = NoConnection]
    /\ UNCHANGED idle

\* The pool goes away once every connection is back.
Dispose ==
    /\ InUse = {}
    /\ idle' = {}
    /\ UNCHANGED lent

Next ==
    \/ \E c \in Connections : Stock(c)
    \/ \E b \in Borrowers, c \in Connections : Lend(b, c) \/ Make(b, c)
    \/ \E b \in Borrowers : Return(b) \/ Lose(b)
    \/ Dispose

Spec == Init /\ [][Next]_lendingVars
=============================================================================
