--------------------------- MODULE TablePublication ---------------------------
(***************************************************************************)
(* What NetworkInterfaceHelper promises its observers: each has a mirror of *)
(* the table, complete when it registers, replaced with the table and the   *)
(* other mirrors in a single step, and gone when it unregisters.            *)
(***************************************************************************)
CONSTANTS Observers, Tables, Empty

VARIABLES
    table,   \* the interfaces the library knows
    mirror   \* the interfaces each registered observer knows

vars == <<table, mirror>>

Init ==
    /\ table = Empty
    /\ mirror = [o \in {} |-> table]

\* A change of the table reaches every observer.
Publish ==
    \E t \in Tables :
        /\ table' = t
        /\ mirror' = [o \in DOMAIN mirror |-> t]

\* A new observer gets the whole table, the others are not disturbed.
Subscribe ==
    \E o \in Observers \ DOMAIN mirror :
        /\ mirror' = [p \in DOMAIN mirror \cup {o} |->
                        IF p = o THEN table ELSE mirror[p]]
        /\ UNCHANGED table

Unsubscribe ==
    \E o \in DOMAIN mirror :
        /\ mirror' = [p \in DOMAIN mirror \ {o} |-> mirror[p]]
        /\ UNCHANGED table

Next == Publish \/ Subscribe \/ Unsubscribe

Spec == Init /\ [][Next]_vars

=============================================================================
