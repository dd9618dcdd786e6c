------------------------ MODULE NetworkInterfaceHelper ------------------------
(***************************************************************************)
(* The platform independent half of the library: NetworkInterfaceHelperImpl *)
(* (networkInterfaceHelper_common.cpp), the table of interfaces it keeps    *)
(* and the observers it tells about every change of that table.             *)
(*                                                                          *)
(* Everything below happens under the recursive lock of the class, so one   *)
(* thread at a time is inside an operation.  The operation is nevertheless  *)
(* not one step: it calls the observers one by one, and a callback may call *)
(* back into the class, because the lock is recursive.  A step of this      *)
(* specification is one callback, or the code between two callbacks.        *)
(*                                                                          *)
(* The replica of an observer is the table it builds from its callbacks,    *)
(* the way the observer of tests/src/networkInterfaceHelper_tests.cpp does. *)
(* The fields no callback reports (id, description, macAddress, type,       *)
(* isVirtual) are left out of an Interface.                                 *)
(***************************************************************************)
EXTENDS Naturals

CONSTANTS
    Observers,  \* addresses of the observer objects: std::set<Observer*> is ordered
    Names,      \* names of network interfaces
    Values,     \* values of the fields of an interface
    Reports,    \* the lists an OS-dependent delegate can report
    Nested      \* the calls observers make from inside of a callback

-----------------------------------------------------------------------------
(* The data. *)

\* The fields a change of which is reported, in the order onNewInterfacesList
\* compares them.
Position == [isEnabled |-> 1, isConnected |-> 2, alias |-> 3,
             ipAddressInfos |-> 4, gateways |-> 5]
Fields == {"isEnabled", "isConnected", "alias", "ipAddressInfos", "gateways"}
NoField == "none"

Interface == [Fields -> Values]
Tables == UNION {[S -> Interface] : S \in SUBSET Names}
NoTable == [n \in {} |-> {}]

NestedCalls == {"register", "unregisterOther", "unregisterSelf"}

ASSUME ObserversAssumption == Observers \subseteq Nat \ {0}
ASSUME ReportsAssumption == Reports \subseteq Tables
ASSUME NestedAssumption == Nested \subseteq NestedCalls

\* The arguments of a callback.
Added(n, i) == [kind |-> "added", name |-> n, field |-> NoField, intfc |-> i]
Removed(n, i) == [kind |-> "removed", name |-> n, field |-> NoField, intfc |-> i]
Changed(n, f, i) == [kind |-> "changed", name |-> n, field |-> f, intfc |-> i]

Events == {Added(n, i) : n \in Names, i \in Interface}
            \cup {Removed(n, i) : n \in Names, i \in Interface}
            \cup {Changed(n, f, i) : n \in Names, f \in Fields, i \in Interface}
NoEvent == [kind |-> "none"]

\* Mutant: the comparison of the gateways is forgotten.
Changes_NotGateways(old, new) ==
    {Removed(n, old[n]) : n \in DOMAIN old \ DOMAIN new}
      \cup {Added(n, new[n]) : n \in DOMAIN new \ DOMAIN old}
      \cup {Changed(p[1], p[2], new[p[1]]) :
              p \in {q \in (DOMAIN old \cap DOMAIN new) \X (Fields \ {"gateways"}) :
                       old[q[1]][q[2]] # new[q[1]][q[2]]}}

\* What onNewInterfacesList notifies when `old` is replaced by `new`.
Changes(old, new) ==
    {Removed(n, old[n]) : n \in DOMAIN old \ DOMAIN new}
      \cup {Added(n, new[n]) : n \in DOMAIN new \ DOMAIN old}
      \cup {Changed(p[1], p[2], new[p[1]]) :
              p \in {q \in (DOMAIN old \cap DOMAIN new) \X Fields :
                       old[q[1]][q[2]] # new[q[1]][q[2]]}}

With(t, n, i) == [m \in DOMAIN t \cup {n} |-> IF m = n THEN i ELSE t[m]]
Without(t, n) == [m \in DOMAIN t \ {n} |-> t[m]]

\* What a callback does to the replica of the observer called.
Apply(v, e) ==
    CASE e.kind = "added"   -> With(v, e.name, e.intfc)
      [] e.kind = "removed" -> Without(v, e.name)
      [] e.kind = "changed" ->
            [m \in DOMAIN v |-> IF m = e.name
                THEN [v[m] EXCEPT ![e.field] = e.intfc[e.field]]
                ELSE v[m]]

-----------------------------------------------------------------------------
VARIABLES
    observers,  \* _observers
    table,      \* _networkInterfaces
    op,         \* the operation that holds _lock, "idle" when _lock is free
    pending,    \* the notifications this operation has still to make
    call,       \* the notification being made, or the last one made
    cursor,     \* the observer called last for it, 0 before the first
    guest,      \* the observer being registered
    result,     \* the table when the operation is over
    published,  \* the table as of the last operation (history variable)
    late,       \* the observers registered from inside of the notification of
                \* a change (history variable)
    view        \* the replica of each registered observer (history variable)

job == <<op, pending, call, cursor, guest, result, published>>
vars == <<observers, table, job, late, view>>

Operations == {"idle", "list", "added", "removed", "changed", "register"}

TypeOK ==
    /\ observers \subseteq Observers
    /\ table \in Tables
    /\ op \in Operations
    /\ pending \subseteq Events
    /\ call \in Events \cup {NoEvent}
    /\ cursor \in Observers \cup {0}
    /\ guest \in Observers \cup {0}
    /\ result \in Tables
    /\ published \in Tables
    /\ late \subseteq Observers
    /\ view \in [Observers -> Tables]

Init ==
    /\ observers = {}
    /\ table = NoTable
    /\ op = "idle"
    /\ pending = {}
    /\ call = NoEvent
    /\ cursor = 0
    /\ guest = 0
    /\ result = NoTable
    /\ published = NoTable
    /\ late = {}
    /\ view = [o \in Observers |-> NoTable]

-----------------------------------------------------------------------------
(* Operations: each takes the lock, and leaves the callbacks to the steps   *)
(* below.  An early return (an unknown name, a value that is the present    *)
(* one, an observer that is or is not registered) changes nothing.          *)

\* Take the lock for operation `o`, owing the notifications `es`; the table is
\* `now` during the callbacks and `end` when the operation returns.
Begin(o, es, now, end) ==
    /\ op = "idle"
    /\ op' = o
    /\ pending' = es
    /\ table' = now
    /\ result' = end
    /\ call' = NoEvent
    /\ cursor' = 0
    /\ UNCHANGED published

\* The table keeps the old list until every observer has been called.
OnNewInterfacesList ==
    \E interfaces \in Reports :
        /\ Begin("list", Changes(table, interfaces), table, interfaces)
        /\ UNCHANGED <<observers, guest, late, view>>

OnInterfaceAdded ==
    \E interfaces \in Reports : \E n \in DOMAIN interfaces \ DOMAIN table :
        LET t == With(table, n, interfaces[n]) IN
        /\ Begin("added", {Added(n, interfaces[n])}, t, t)
        /\ UNCHANGED <<observers, guest, late, view>>

\* Notifies first, erases after.
OnInterfaceRemoved ==
    \E n \in DOMAIN table :
        /\ Begin("removed", {Removed(n, table[n])}, table, Without(table, n))
        /\ UNCHANGED <<observers, guest, late, view>>

\* Mutant: the handlers do not compare with the present value.
OnFieldChanged_Always ==
    \E interfaces \in Reports : \E n \in DOMAIN interfaces \cap DOMAIN table :
    \E f \in Fields :
        LET i == [table[n] EXCEPT ![f] = interfaces[n][f]]
            t == With(table, n, i)
        IN  /\ Begin("changed", {Changed(n, f, i)}, t, t)
            /\ UNCHANGED <<observers, guest, late, view>>

\* onEnabledStateChanged, onConnectedStateChanged, onAliasChanged,
\* onIPAddressInfosChanged and onGatewaysChanged are the same code, each for
\* its field.
OnFieldChanged ==
    \E interfaces \in Reports : \E n \in DOMAIN interfaces \cap DOMAIN table :
    \E f \in Fields :
        LET i == [table[n] EXCEPT ![f] = interfaces[n][f]]
            t == With(table, n, i)
        IN  /\ table[n][f] # i[f]
            /\ Begin("changed", {Changed(n, f, i)}, t, t)
            /\ UNCHANGED <<observers, guest, late, view>>

RegisterObserver ==
    \E o \in Observers \ observers :
        /\ Begin("register", {Added(n, table[n]) : n \in DOMAIN table}, table, table)
        /\ guest' = o
        /\ observers' = observers \cup {o}
        /\ view' = [view EXCEPT ![o] = NoTable]
        /\ UNCHANGED late

Unregister(o) ==
    /\ observers' = observers \ {o}
    /\ late' = late \ {o}
    /\ view' = [view EXCEPT ![o] = NoTable]
    /\ UNCHANGED <<table, job>>

UnregisterObserver == op = "idle" /\ \E o \in observers : Unregister(o)

-----------------------------------------------------------------------------
(* The loops that call the observers. *)

\* registerObserver calls the new observer alone; notifyObserversMethod walks
\* the set, in the order of the addresses.
Recipients == IF op = "register" THEN {guest} ELSE observers
Ahead == {o \in Recipients : o > cursor}
CallDone == call = NoEvent \/ Ahead = {}

Phase(e) == CASE e.kind = "removed" -> 1
              [] e.kind = "added"   -> 2
              [] e.kind = "changed" -> 3

\* `e` comes next: all removals, then all additions, then the changes, those
\* of one interface together and in the order of the fields.  The interfaces
\* themselves come in any order, the table being an unordered_map.
Turn(e) ==
    \A x \in pending :
        /\ Phase(e) <= Phase(x)
        /\ e.kind = "changed" /\ x.kind = "changed" =>
            /\ x.name = e.name => Position[e.field] <= Position[x.field]
            /\ call.kind = "changed" /\ x.name = call.name => e.name = call.name

\* Mutant: the loop does not advance.
Notify_Again ==
    /\ op # "idle"
    /\ CallDone
    /\ \E e \in pending :
        /\ Turn(e)
        /\ call' = e
    /\ cursor' = 0
    /\ UNCHANGED <<observers, table, op, pending, guest, result, published, late, view>>

\* Go on to the next notification.
Notify ==
    /\ op # "idle"
    /\ CallDone
    /\ \E e \in pending :
        /\ Turn(e)
        /\ call' = e
        /\ pending' = pending \ {e}
    /\ cursor' = 0
    /\ UNCHANGED <<observers, table, op, guest, result, published, late, view>>

\* Call the next observer.
Callback ==
    /\ call # NoEvent
    /\ \E o \in Ahead :
        /\ \A p \in Ahead : o <= p
        /\ cursor' = o
        /\ view' = [view EXCEPT ![o] = Apply(@, call)]
    /\ UNCHANGED <<observers, table, op, pending, call, guest, result, published, late>>

\* Mutant: the operation returns without storing its result.
Finish_NotStored ==
    /\ op # "idle"
    /\ pending = {}
    /\ CallDone
    /\ op' = "idle"
    /\ call' = NoEvent
    /\ cursor' = 0
    /\ guest' = 0
    /\ published' = table
    /\ UNCHANGED <<observers, table, pending, result, late, view>>

\* Return: store the new list, erase the removed interface, unlock.
Finish ==
    /\ op # "idle"
    /\ pending = {}
    /\ CallDone
    /\ table' = result
    /\ op' = "idle"
    /\ call' = NoEvent
    /\ cursor' = 0
    /\ guest' = 0
    /\ published' = result
    /\ UNCHANGED <<observers, pending, result, late, view>>

-----------------------------------------------------------------------------
(* Calls made from inside of a callback, by the observer at the cursor.     *)

InCallback == cursor # 0

\* The nested loop over the table is one step: it makes no further calls.
NestedRegister ==
    /\ "register" \in Nested
    /\ InCallback
    /\ \E o \in Observers \ observers :
        /\ observers' = observers \cup {o}
        /\ view' = [view EXCEPT ![o] = table]
        /\ late' = IF op = "register" THEN late ELSE late \cup {o}
    /\ UNCHANGED <<table, job>>

\* Erasing another element of the set being walked is fine.
NestedUnregisterOther ==
    /\ "unregisterOther" \in Nested
    /\ InCallback
    /\ \E o \in observers \ {cursor} : Unregister(o)

\* Erasing the element the walk is at invalidates its iterator, so this is
\* only done from the loop of registerObserver, which walks the table and goes
\* on to call an observer that has unregistered itself.
NestedUnregisterSelf ==
    /\ "unregisterSelf" \in Nested
    /\ InCallback
    /\ op = "register"
    /\ cursor \in observers
    /\ Unregister(cursor)

-----------------------------------------------------------------------------
Operation ==
    \/ OnNewInterfacesList \/ OnInterfaceAdded \/ OnInterfaceRemoved
    \/ OnFieldChanged \/ RegisterObserver \/ UnregisterObserver

Continue == Notify \/ Callback \/ Finish

NestedCall == NestedRegister \/ NestedUnregisterOther \/ NestedUnregisterSelf

Next == Operation \/ Continue \/ NestedCall

Spec == Init /\ [][Next]_vars

\* The thread that holds the lock keeps running, and observers return.
FairSpec == Spec /\ WF_vars(Continue)

-----------------------------------------------------------------------------
(* Properties. *)

\* Whenever the lock is free, the replica of every registered observer is the
\* table: registerObserver hands over all of the table, and no later change
\* of it is lost, told twice or told wrongly on the way through the loops of
\* onNewInterfacesList and the on...Changed handlers.
\* An observer registered from inside of the notification of a change is not
\* covered: it is handed the table onNewInterfacesList is about to replace, and
\* the walk may have passed it.  It does not disturb those that are.
Mirror == op = "idle" => \A o \in observers \ late : view[o] = table

\* A callback that tells the observer with replica `v` something it can make
\* sense of: an addition of an interface it did not know, a removal of one it
\* knew, a change of a field to a value it did not have.
Sensible(v, e) ==
    CASE e.kind = "added"   -> e.name \notin DOMAIN v
      [] e.kind = "removed" -> e.name \in DOMAIN v
      [] e.kind = "changed" -> /\ e.name \in DOMAIN v
                               /\ v[e.name][e.field] # e.intfc[e.field]

\* No observer is called with news that is no news to it: no interface is
\* added twice, none is removed or changed that it was never told of.  Left
\* out are those registered from inside of a notification, which may be handed
\* a table and then reached by the walk, and the one that registerObserver is
\* handing the table, which may unregister and register itself meanwhile.
NoSpuriousCallback ==
    [][\A o \in Observers \ (late \cup {guest}) :
          Callback /\ cursor' = o => Sensible(view[o], call)]_vars

\* Every operation returns: the loops over the table and over the observers
\* end even when the callbacks register and unregister observers.
OperationsReturn == op # "idle" ~> op = "idle"

\* Seen from the outside every operation is one step that replaces the table
\* and all replicas together, those of the observers Mirror does not cover
\* apart.
Publication == INSTANCE TablePublication WITH
    Empty <- NoTable,
    table <- published,
    mirror <- [o \in observers \ (late \cup {guest}) |->
                  IF op = "idle" THEN view[o] ELSE published]

PublishesAtomically == Publication!Spec

=============================================================================
