-------------------- MODULE NetworkInterfaceHelper_proofs --------------------
(***************************************************************************)
(* Proofs about NetworkInterfaceHelper, for any set of observers, names and *)
(* field values, any lists reported and any nested calls: what observers    *)
(* know, the callbacks they are made, and that it implements                *)
(* TablePublication.                                                        *)
(***************************************************************************)
EXTENDS NetworkInterfaceHelper, TLAPS

-----------------------------------------------------------------------------
(* Tables, and the events that lead from one to another.                    *)

LEMMA TableIntro ==
    ASSUME NEW S \in SUBSET Names, NEW v \in [S -> Interface]
    PROVE  v \in Tables
  BY DEF Tables

LEMMA TableElim ==
    ASSUME NEW v \in Tables
    PROVE  /\ DOMAIN v \in SUBSET Names
           /\ v \in [DOMAIN v -> Interface]
  <1>1. PICK S \in SUBSET Names : v \in [S -> Interface]
    BY DEF Tables
  <1>2. DOMAIN v = S
    BY <1>1
  <1> QED
    BY <1>1, <1>2

LEMMA TableEqual ==
    ASSUME NEW v \in Tables, NEW w \in Tables,
           DOMAIN v = DOMAIN w, \A n \in DOMAIN v : v[n] = w[n]
    PROVE  v = w
  <1>1. v \in [DOMAIN v -> Interface] /\ w \in [DOMAIN v -> Interface]
    BY TableElim
  <1> QED
    BY <1>1

LEMMA NoTableType == NoTable \in Tables
  <1>1. NoTable \in [{} -> Interface]
    BY DEF NoTable
  <1> QED
    BY <1>1, TableIntro

LEMMA WithType ==
    ASSUME NEW t \in Tables, NEW n \in Names, NEW i \in Interface
    PROVE  With(t, n, i) \in Tables
  <1>1. With(t, n, i) \in [DOMAIN t \cup {n} -> Interface]
    BY TableElim DEF With
  <1>2. DOMAIN t \cup {n} \in SUBSET Names
    BY TableElim
  <1> QED
    BY <1>1, <1>2, TableIntro

LEMMA WithoutType ==
    ASSUME NEW t \in Tables, NEW n \in Names
    PROVE  Without(t, n) \in Tables
  <1>1. Without(t, n) \in [DOMAIN t \ {n} -> Interface]
    BY TableElim DEF Without
  <1>2. DOMAIN t \ {n} \in SUBSET Names
    BY TableElim
  <1> QED
    BY <1>1, <1>2, TableIntro

LEMMA SetFieldType ==
    ASSUME NEW i \in Interface, NEW j \in Interface, NEW f \in Fields
    PROVE  [i EXCEPT ![f] = j[f]] \in Interface
  BY DEF Interface

LEMMA EventType ==
    ASSUME NEW e \in Events
    PROVE  /\ e.kind \in {"added", "removed", "changed"}
           /\ e.name \in Names
           /\ e.intfc \in Interface
           /\ e.kind = "changed" => e.field \in Fields
           /\ e # NoEvent
  <1>1. CASE \E n \in Names, i \in Interface : e = Added(n, i)
    BY <1>1 DEF Added, NoEvent
  <1>2. CASE \E n \in Names, i \in Interface : e = Removed(n, i)
    BY <1>2 DEF Removed, NoEvent
  <1>3. CASE \E n \in Names, f \in Fields, i \in Interface : e = Changed(n, f, i)
    BY <1>3 DEF Changed, NoEvent
  <1> QED
    BY <1>1, <1>2, <1>3 DEF Events

LEMMA ApplyType ==
    ASSUME NEW v \in Tables, NEW e \in Events
    PROVE  Apply(v, e) \in Tables
  <1>1. CASE e.kind = "added"
    BY <1>1, EventType, WithType DEF Apply
  <1>2. CASE e.kind = "removed"
    BY <1>2, EventType, WithoutType DEF Apply
  <1>3. CASE e.kind = "changed"
    <2> DEFINE w == [m \in DOMAIN v |-> IF m = e.name
                       THEN [v[m] EXCEPT ![e.field] = e.intfc[e.field]]
                       ELSE v[m]]
    <2>1. Apply(v, e) = w
      BY <1>3 DEF Apply
    <2>2. \A m \in DOMAIN v : v[m] \in Interface
      BY TableElim
    <2>3. \A m \in DOMAIN v : [v[m] EXCEPT ![e.field] = e.intfc[e.field]] \in Interface
      BY <1>3, <2>2, EventType, SetFieldType
    <2>4. w \in [DOMAIN v -> Interface]
      BY <2>2, <2>3
    <2> QED
      BY <2>1, <2>4, TableElim, TableIntro
  <1> QED
    BY <1>1, <1>2, <1>3, EventType

LEMMA ChangesType ==
    ASSUME NEW v \in Tables, NEW r \in Tables
    PROVE  Changes(v, r) \subseteq Events
  <1>1. /\ DOMAIN v \subseteq Names /\ \A n \in DOMAIN v : v[n] \in Interface
        /\ DOMAIN r \subseteq Names /\ \A n \in DOMAIN r : r[n] \in Interface
    BY TableElim
  <1>2. ASSUME NEW e \in Changes(v, r) PROVE e \in Events
    <2>1. CASE \E n \in DOMAIN v \ DOMAIN r : e = Removed(n, v[n])
      BY <1>1, <2>1 DEF Events
    <2>2. CASE \E n \in DOMAIN r \ DOMAIN v : e = Added(n, r[n])
      BY <1>1, <2>2 DEF Events
    <2>3. CASE \E p \in (DOMAIN v \cap DOMAIN r) \X Fields :
                  e = Changed(p[1], p[2], r[p[1]])
      <3>1. PICK p \in (DOMAIN v \cap DOMAIN r) \X Fields :
                  e = Changed(p[1], p[2], r[p[1]])
        BY <2>3
      <3>2. p[1] \in Names /\ p[2] \in Fields /\ r[p[1]] \in Interface
        BY <1>1, <3>1
      <3> QED
        BY <3>1, <3>2 DEF Events
    <2> QED
      BY <2>1, <2>2, <2>3 DEF Changes
  <1> QED
    BY <1>2

LEMMA ChangesCases ==
    ASSUME NEW v, NEW r, NEW e
    PROVE  e \in Changes(v, r) <=>
             \/ \E n \in DOMAIN v \ DOMAIN r : e = Removed(n, v[n])
             \/ \E n \in DOMAIN r \ DOMAIN v : e = Added(n, r[n])
             \/ \E n \in DOMAIN v \cap DOMAIN r, f \in Fields :
                    v[n][f] # r[n][f] /\ e = Changed(n, f, r[n])
  <1>1. ASSUME NEW n \in DOMAIN v \cap DOMAIN r, NEW f \in Fields,
               v[n][f] # r[n][f], e = Changed(n, f, r[n])
        PROVE  e \in Changes(v, r)
    <2>1. <<n, f>> \in {q \in (DOMAIN v \cap DOMAIN r) \X Fields :
                           v[q[1]][q[2]] # r[q[1]][q[2]]}
      BY <1>1
    <2> QED
      BY <1>1, <2>1 DEF Changes
  <1>2. ASSUME e \in Changes(v, r),
               ~ \E n \in DOMAIN v \ DOMAIN r : e = Removed(n, v[n]),
               ~ \E n \in DOMAIN r \ DOMAIN v : e = Added(n, r[n])
        PROVE  \E n \in DOMAIN v \cap DOMAIN r, f \in Fields :
                    v[n][f] # r[n][f] /\ e = Changed(n, f, r[n])
    <2>1. PICK p \in (DOMAIN v \cap DOMAIN r) \X Fields :
                  v[p[1]][p[2]] # r[p[1]][p[2]] /\ e = Changed(p[1], p[2], r[p[1]])
      BY <1>2 DEF Changes
    <2> QED
      BY <2>1
  <1> QED
    BY <1>1, <1>2 DEF Changes

\* Nothing left to tell means nothing left to differ.
LEMMA NoChanges ==
    ASSUME NEW v \in Tables, NEW r \in Tables, Changes(v, r) = {}
    PROVE  v = r
  <1>1. DOMAIN v = DOMAIN r
    BY ChangesCases
  <1>2. ASSUME NEW n \in DOMAIN v PROVE v[n] = r[n]
    <2>1. v[n] \in [Fields -> Values] /\ r[n] \in [Fields -> Values]
      BY <1>1, TableElim DEF Interface
    <2>2. ASSUME NEW f \in Fields, v[n][f] # r[n][f] PROVE FALSE
      <3>1. \E m \in DOMAIN v \cap DOMAIN r, g \in Fields :
               v[m][g] # r[m][g] /\ Changed(n, f, r[n]) = Changed(m, g, r[m])
        BY <1>1, <2>2
      <3>2. Changed(n, f, r[n]) \in Changes(v, r)
        BY <3>1, ChangesCases
      <3> QED
        BY <3>2
    <2> QED
      BY <2>1, <2>2
  <1> QED
    BY <1>1, <1>2, TableEqual

\* The callbacks whose news are true of the table `r`.
Toward(r) ==
    {e \in Events :
        IF e.kind = "removed" THEN e.name \notin DOMAIN r
                              ELSE e.name \in DOMAIN r /\ e.intfc = r[e.name]}

LEMMA ChangesToward ==
    ASSUME NEW v \in Tables, NEW r \in Tables
    PROVE  Changes(v, r) \subseteq Toward(r)
  <1>1. ASSUME NEW e \in Changes(v, r) PROVE e \in Toward(r)
    <2>1. e \in Events
      BY ChangesType
    <2> QED
      BY <2>1, ChangesCases DEF Toward, Removed, Added, Changed
  <1> QED
    BY <1>1

\* A true callback settles its own difference and makes no new one.
LEMMA ApplyShrinks ==
    ASSUME NEW v \in Tables, NEW r \in Tables, NEW e \in Toward(r)
    PROVE  Changes(Apply(v, e), r) \subseteq Changes(v, r) \ {e}
  <1>0. e \in Events
    BY DEF Toward
  <1>1. CASE e.kind = "removed"
    <2>1. Apply(v, e) = Without(v, e.name)
      BY <1>1 DEF Apply
    <2>2. e.name \notin DOMAIN r
      BY <1>1 DEF Toward
    <2>3. ASSUME NEW x \in Changes(Without(v, e.name), r)
          PROVE  x \in Changes(v, r) /\ x.name # e.name
      BY <2>2, <2>3, ChangesCases DEF Without, Removed, Added, Changed
    <2> QED
      BY <2>1, <2>3
  <1>2. CASE e.kind = "added"
    <2>1. Apply(v, e) = With(v, e.name, r[e.name])
      BY <1>2 DEF Apply, Toward
    <2>2. e.name \in DOMAIN r
      BY <1>2 DEF Toward
    <2>3. ASSUME NEW x \in Changes(With(v, e.name, r[e.name]), r)
          PROVE  x \in Changes(v, r) /\ x.name # e.name
      BY <2>2, <2>3, ChangesCases DEF With, Removed, Added, Changed
    <2> QED
      BY <2>1, <2>3
  <1>3. CASE e.kind = "changed"
    <2> DEFINE w == [m \in DOMAIN v |-> IF m = e.name
                       THEN [v[m] EXCEPT ![e.field] = r[m][e.field]]
                       ELSE v[m]]
    <2>1. e.name \in DOMAIN r /\ e.intfc = r[e.name] /\ e.field \in Fields
      BY <1>0, <1>3, EventType DEF Toward
    <2>2. Apply(v, e) = w
      BY <1>3, <2>1 DEF Apply
    <2>3. \A m \in DOMAIN v : v[m] \in [Fields -> Values]
      BY TableElim DEF Interface
    <2>4. \A m \in DOMAIN v, f \in Fields :
             w[m][f] = IF m = e.name /\ f = e.field THEN r[m][f] ELSE v[m][f]
      BY <2>1, <2>3
    <2>5. ASSUME NEW x \in Changes(w, r)
          PROVE  x \in Changes(v, r) /\ x # e
      <3>0. DOMAIN w = DOMAIN v
        OBVIOUS
      <3>1. CASE \E n \in DOMAIN w \ DOMAIN r : x = Removed(n, w[n])
        BY <1>3, <2>1, <3>0, <3>1, ChangesCases DEF Removed
      <3>2. CASE \E n \in DOMAIN r \ DOMAIN w : x = Added(n, r[n])
        BY <1>3, <3>0, <3>2, ChangesCases DEF Added
      <3>3. CASE \E n \in DOMAIN w \cap DOMAIN r, f \in Fields :
                    w[n][f] # r[n][f] /\ x = Changed(n, f, r[n])
        <4>1. PICK n \in DOMAIN v \cap DOMAIN r, f \in Fields :
                    w[n][f] # r[n][f] /\ x = Changed(n, f, r[n])
          BY <3>0, <3>3
        <4>2. ~(n = e.name /\ f = e.field) /\ v[n][f] # r[n][f]
          BY <2>4, <4>1
        <4>3. x \in Changes(v, r)
          BY <4>1, <4>2, ChangesCases
        <4> QED
          BY <4>1, <4>2, <4>3 DEF Changed
      <3>4. \/ \E n \in DOMAIN w \ DOMAIN r : x = Removed(n, w[n])
            \/ \E n \in DOMAIN r \ DOMAIN w : x = Added(n, r[n])
            \/ \E n \in DOMAIN w \cap DOMAIN r, f \in Fields :
                  w[n][f] # r[n][f] /\ x = Changed(n, f, r[n])
        <4> HIDE DEF w
        <4> QED
          BY <2>5, ChangesCases
      <3> QED
        BY <3>1, <3>2, <3>3, <3>4
    <2> QED
      BY <2>2, <2>5
  <1> QED
    BY <1>0, <1>1, <1>2, <1>3, EventType

-----------------------------------------------------------------------------
(* The inductive invariant.                                                 *)

\* What the operation in progress has still to tell observer `o`.
Owed(o) == pending \cup (IF call # NoEvent /\ o > cursor THEN {call} ELSE {})

\* The operation owes only news that are true of the table it will leave, and
\* owes each observer at least all that its replica still lacks.
Progress ==
    op # "idle" =>
        /\ pending \subseteq Toward(result)
        /\ call # NoEvent => call \in Toward(result)
        /\ op # "register" =>
              \A o \in observers \ late : Changes(view[o], result) \subseteq Owed(o)
        /\ op = "register" =>
              /\ guest \in Observers
              /\ table = result
              /\ \A o \in observers \ late :
                    IF o = guest THEN Changes(view[o], result) \subseteq Owed(o)
                                 ELSE view[o] = result

AtRest == op = "idle" => table = result /\ call = NoEvent

IInv == TypeOK /\ Progress /\ AtRest /\ Mirror

-----------------------------------------------------------------------------
(* Type correctness.                                                        *)

LEMMA BeginType ==
    ASSUME TypeOK,
           NEW o \in Operations, NEW es \in SUBSET Events,
           NEW now \in Tables, NEW end \in Tables, Begin(o, es, now, end)
    PROVE  /\ op' \in Operations /\ pending' \subseteq Events
           /\ table' \in Tables /\ result' \in Tables /\ published' \in Tables
           /\ call' = NoEvent /\ cursor' = 0
  BY DEF TypeOK, Begin

LEMMA AddedEvent ==
    ASSUME NEW n \in Names, NEW i \in Interface
    PROVE  Added(n, i) \in Events
  BY DEF Events

LEMMA OnNewInterfacesListType ==
    TypeOK /\ OnNewInterfacesList => TypeOK'
  <1> SUFFICES ASSUME TypeOK, OnNewInterfacesList PROVE TypeOK'
    OBVIOUS
  <1>1. PICK l \in Reports : /\ Begin("list", Changes(table, l), table, l)
                             /\ UNCHANGED <<observers, guest, late, view>>
    BY DEF OnNewInterfacesList
  <1>2. l \in Tables /\ table \in Tables
    BY ReportsAssumption DEF TypeOK
  <1>3. Changes(table, l) \in SUBSET Events
    BY <1>2, ChangesType
  <1>4. "list" \in Operations
    BY DEF Operations
  <1> QED
    BY <1>1, <1>2, <1>3, <1>4, BeginType DEF TypeOK

LEMMA OnInterfaceAddedType ==
    TypeOK /\ OnInterfaceAdded => TypeOK'
  <1> SUFFICES ASSUME TypeOK, OnInterfaceAdded PROVE TypeOK'
    OBVIOUS
  <1>0. PICK l \in Reports : \E n \in DOMAIN l \ DOMAIN table :
          LET t == With(table, n, l[n]) IN
          /\ Begin("added", {Added(n, l[n])}, t, t)
          /\ UNCHANGED <<observers, guest, late, view>>
    BY DEF OnInterfaceAdded
  <1>1. PICK n \in DOMAIN l \ DOMAIN table :
          /\ Begin("added", {Added(n, l[n])}, With(table, n, l[n]), With(table, n, l[n]))
          /\ UNCHANGED <<observers, guest, late, view>>
    BY <1>0
  <1>2. n \in Names /\ l[n] \in Interface /\ table \in Tables
    BY ReportsAssumption, TableElim DEF TypeOK
  <1>3. With(table, n, l[n]) \in Tables /\ {Added(n, l[n])} \in SUBSET Events
    BY <1>2, WithType, AddedEvent
  <1>4. "added" \in Operations
    BY DEF Operations
  <1> QED
    BY <1>1, <1>3, <1>4, BeginType DEF TypeOK

LEMMA OnInterfaceRemovedType ==
    TypeOK /\ OnInterfaceRemoved => TypeOK'
  <1> SUFFICES ASSUME TypeOK, OnInterfaceRemoved PROVE TypeOK'
    OBVIOUS
  <1>1. PICK n \in DOMAIN table :
          /\ Begin("removed", {Removed(n, table[n])}, table, Without(table, n))
          /\ UNCHANGED <<observers, guest, late, view>>
    BY DEF OnInterfaceRemoved
  <1>2. n \in Names /\ table[n] \in Interface /\ table \in Tables
    BY TableElim DEF TypeOK
  <1>3. Without(table, n) \in Tables /\ {Removed(n, table[n])} \in SUBSET Events
    BY <1>2, WithoutType DEF Events
  <1>4. "removed" \in Operations
    BY DEF Operations
  <1> QED
    BY <1>1, <1>2, <1>3, <1>4, BeginType DEF TypeOK

\* The step of one of the five on...Changed handlers.
FieldStep(n, f, i) ==
    /\ n \in DOMAIN table /\ n \in Names
    /\ table[n][f] # i[f] /\ \A g \in Fields \ {f} : i[g] = table[n][g]
    /\ Begin("changed", {Changed(n, f, i)}, With(table, n, i), With(table, n, i))
    /\ UNCHANGED <<observers, guest, late, view>>

LEMMA FieldStepExists ==
    ASSUME TypeOK, OnFieldChanged
    PROVE  \E n \in Names, f \in Fields, i \in Interface : FieldStep(n, f, i)
  <1>0. PICK l \in Reports : \E n \in DOMAIN l \cap DOMAIN table : \E f \in Fields :
          LET i == [table[n] EXCEPT ![f] = l[n][f]]
              t == With(table, n, i)
          IN  /\ table[n][f] # i[f]
              /\ Begin("changed", {Changed(n, f, i)}, t, t)
              /\ UNCHANGED <<observers, guest, late, view>>
    BY DEF OnFieldChanged
  <1>1. PICK n \in DOMAIN l \cap DOMAIN table, f \in Fields :
          LET i == [table[n] EXCEPT ![f] = l[n][f]] IN
          /\ table[n][f] # i[f]
          /\ Begin("changed", {Changed(n, f, i)}, With(table, n, i), With(table, n, i))
          /\ UNCHANGED <<observers, guest, late, view>>
    BY <1>0
  <1> DEFINE i == [table[n] EXCEPT ![f] = l[n][f]]
  <1>2. n \in Names /\ table[n] \in Interface /\ l[n] \in Interface
    BY ReportsAssumption, TableElim DEF TypeOK
  <1>3. i \in Interface
    BY <1>2, SetFieldType
  <1>4. \A g \in Fields \ {f} : i[g] = table[n][g]
    BY <1>2 DEF Interface
  <1>5. FieldStep(n, f, i)
    BY <1>1, <1>2, <1>4 DEF FieldStep
  <1> HIDE DEF i
  <1> QED
    BY <1>2, <1>3, <1>5

LEMMA OnFieldChangedType ==
    TypeOK /\ OnFieldChanged => TypeOK'
  <1> SUFFICES ASSUME TypeOK, OnFieldChanged PROVE TypeOK'
    OBVIOUS
  <1>1. PICK n \in Names, f \in Fields, i \in Interface : FieldStep(n, f, i)
    BY FieldStepExists
  <1>2. With(table, n, i) \in Tables /\ {Changed(n, f, i)} \in SUBSET Events
    BY <1>1, WithType DEF Events, TypeOK
  <1>3. "changed" \in Operations
    BY DEF Operations
  <1> QED
    BY <1>1, <1>2, <1>3, BeginType DEF TypeOK, FieldStep

LEMMA RegisterObserverType ==
    TypeOK /\ RegisterObserver => TypeOK'
  <1> SUFFICES ASSUME TypeOK, RegisterObserver PROVE TypeOK'
    OBVIOUS
  <1>1. PICK o \in Observers \ observers :
          /\ Begin("register", {Added(n, table[n]) : n \in DOMAIN table}, table, table)
          /\ guest' = o
          /\ observers' = observers \cup {o}
          /\ view' = [view EXCEPT ![o] = NoTable]
          /\ UNCHANGED late
    BY DEF RegisterObserver
  <1>2. table \in Tables
    BY DEF TypeOK
  <1>3. {Added(n, table[n]) : n \in DOMAIN table} \in SUBSET Events
    BY <1>2, TableElim, AddedEvent
  <1>4. "register" \in Operations
    BY DEF Operations
  <1>5. view' \in [Observers -> Tables]
    BY <1>1, NoTableType DEF TypeOK
  <1> QED
    BY <1>1, <1>2, <1>3, <1>4, <1>5, BeginType DEF TypeOK

LEMMA UnregisterType ==
    ASSUME TypeOK, NEW o, Unregister(o)
    PROVE  TypeOK'
  BY NoTableType DEF TypeOK, Unregister, job

LEMMA NotifyType ==
    TypeOK /\ Notify => TypeOK'
  BY DEF TypeOK, Notify

LEMMA CallbackType ==
    TypeOK /\ Callback => TypeOK'
  <1> SUFFICES ASSUME TypeOK, Callback PROVE TypeOK'
    OBVIOUS
  <1>1. PICK o \in Ahead : cursor' = o /\ view' = [view EXCEPT ![o] = Apply(@, call)]
    BY DEF Callback
  <1>2. cursor' \in Observers \cup {0}
    BY <1>1 DEF Ahead, Recipients, TypeOK
  <1>3. view' \in [Observers -> Tables]
    <2>1. call \in Events /\ view \in [Observers -> Tables]
      BY DEF Callback, TypeOK
    <2>2. \A p \in Observers : Apply(view[p], call) \in Tables
      BY <2>1, ApplyType
    <2> QED
      BY <1>1, <2>1, <2>2
  <1> QED
    BY <1>2, <1>3 DEF TypeOK, Callback

LEMMA FinishType ==
    TypeOK /\ Finish => TypeOK'
  BY DEF TypeOK, Finish, Operations

LEMMA NestedRegisterType ==
    TypeOK /\ NestedRegister => TypeOK'
  BY DEF TypeOK, NestedRegister, job

LEMMA TypeStep ==
    TypeOK /\ [Next]_vars => TypeOK'
  <1> SUFFICES ASSUME TypeOK, [Next]_vars PROVE TypeOK'
    OBVIOUS
  <1>1. CASE OnNewInterfacesList
    BY <1>1, OnNewInterfacesListType
  <1>2. CASE OnInterfaceAdded
    BY <1>2, OnInterfaceAddedType
  <1>3. CASE OnInterfaceRemoved
    BY <1>3, OnInterfaceRemovedType
  <1>4. CASE OnFieldChanged
    BY <1>4, OnFieldChangedType
  <1>5. CASE RegisterObserver
    BY <1>5, RegisterObserverType
  <1>6. CASE UnregisterObserver
    BY <1>6, UnregisterType DEF UnregisterObserver
  <1>7. CASE Notify
    BY <1>7, NotifyType
  <1>8. CASE Callback
    BY <1>8, CallbackType
  <1>9. CASE Finish
    BY <1>9, FinishType
  <1>10. CASE NestedRegister
    BY <1>10, NestedRegisterType
  <1>11. CASE NestedUnregisterOther
    BY <1>11, UnregisterType DEF NestedUnregisterOther
  <1>12. CASE NestedUnregisterSelf
    BY <1>12, UnregisterType DEF NestedUnregisterSelf
  <1>13. CASE UNCHANGED vars
    BY <1>13 DEF TypeOK, vars, job
  <1> QED
    BY <1>1, <1>2, <1>3, <1>4, <1>5, <1>6, <1>7, <1>8, <1>9, <1>10, <1>11,
       <1>12, <1>13 DEF Next, Operation, Continue, NestedCall

LEMMA TypeInit == Init => TypeOK
  BY NoTableType DEF Init, TypeOK, Operations

\* The table, the observer set, the operation in progress and every replica
\* of NetworkInterfaceHelperImpl keep their types.
THEOREM TypeCorrect == Spec => []TypeOK
  BY TypeInit, TypeStep, PTL DEF Spec

-----------------------------------------------------------------------------
(* What each operation owes when it begins.                                 *)

LEMMA SameTable ==
    ASSUME NEW t
    PROVE  Changes(t, t) = {}
  BY ChangesCases

LEMMA AddedChanges ==
    ASSUME NEW t \in Tables, NEW n \in Names, n \notin DOMAIN t, NEW i \in Interface
    PROVE  /\ Changes(t, With(t, n, i)) \subseteq {Added(n, i)}
           /\ {Added(n, i)} \subseteq Toward(With(t, n, i))
  <1> DEFINE w == With(t, n, i)
  <1>1. /\ DOMAIN w = DOMAIN t \cup {n} /\ w[n] = i
        /\ \A m \in DOMAIN t : w[m] = t[m]
    BY DEF With
  <1>2. Added(n, i) \in Toward(w)
    BY <1>1, AddedEvent DEF Toward, Added
  <1> HIDE DEF w
  <1>3. ASSUME NEW e \in Changes(t, w) PROVE e = Added(n, i)
    BY <1>1, <1>3, ChangesCases
  <1> QED
    BY <1>2, <1>3 DEF w

LEMMA RemovedChanges ==
    ASSUME NEW t \in Tables, NEW n \in DOMAIN t
    PROVE  /\ Changes(t, Without(t, n)) \subseteq {Removed(n, t[n])}
           /\ {Removed(n, t[n])} \subseteq Toward(Without(t, n))
  <1> DEFINE w == Without(t, n)
  <1>1. /\ DOMAIN w = DOMAIN t \ {n}
        /\ \A m \in DOMAIN w : w[m] = t[m]
    BY DEF Without
  <1>2. n \in Names /\ t[n] \in Interface
    BY TableElim
  <1>3. Removed(n, t[n]) \in Events
    BY <1>2 DEF Events
  <1>4. Removed(n, t[n]) \in Toward(w)
    BY <1>1, <1>3 DEF Toward, Removed
  <1> HIDE DEF w
  <1>5. ASSUME NEW e \in Changes(t, w) PROVE e = Removed(n, t[n])
    BY <1>1, <1>5, ChangesCases
  <1> QED
    BY <1>4, <1>5 DEF w

LEMMA FieldChanges ==
    ASSUME NEW t \in Tables, NEW n \in DOMAIN t, NEW f \in Fields,
           NEW i \in Interface, \A g \in Fields \ {f} : i[g] = t[n][g]
    PROVE  /\ Changes(t, With(t, n, i)) \subseteq {Changed(n, f, i)}
           /\ {Changed(n, f, i)} \subseteq Toward(With(t, n, i))
  <1> DEFINE w == With(t, n, i)
  <1>1. /\ DOMAIN w = DOMAIN t /\ w[n] = i
        /\ \A m \in DOMAIN t \ {n} : w[m] = t[m]
    BY DEF With
  <1>2. n \in Names
    BY TableElim
  <1>3. Changed(n, f, i) \in Events
    BY <1>2 DEF Events
  <1>4. Changed(n, f, i) \in Toward(w)
    BY <1>1, <1>3 DEF Toward, Changed
  <1> HIDE DEF w
  <1>5. ASSUME NEW e \in Changes(t, w) PROVE e = Changed(n, f, i)
    <2>1. PICK m \in DOMAIN t \cap DOMAIN w, g \in Fields :
            t[m][g] # w[m][g] /\ e = Changed(m, g, w[m])
      BY <1>1, ChangesCases
    <2>2. m = n /\ g = f
      BY <1>1, <2>1
    <2> QED
      BY <1>1, <2>1, <2>2
  <1> QED
    BY <1>4, <1>5 DEF w

LEMMA RegisterChanges ==
    ASSUME NEW t \in Tables
    PROVE  /\ Changes(NoTable, t) \subseteq {Added(n, t[n]) : n \in DOMAIN t}
           /\ {Added(n, t[n]) : n \in DOMAIN t} \subseteq Toward(t)
  <1>1. ASSUME NEW e \in Changes(NoTable, t)
        PROVE  e \in {Added(n, t[n]) : n \in DOMAIN t}
    <2>1. DOMAIN NoTable = {}
      BY DEF NoTable
    <2>2. PICK n \in DOMAIN t : e = Added(n, t[n])
      BY <2>1, ChangesCases
    <2> QED
      BY <2>2
  <1>2. ASSUME NEW n \in DOMAIN t PROVE Added(n, t[n]) \in Toward(t)
    <2>1. Added(n, t[n]) \in Events
      BY TableElim, AddedEvent
    <2> QED
      BY <2>1 DEF Toward, Added
  <1> QED
    BY <1>1, <1>2

\* The common part of the operations that change the table.
LEMMA BeginChange ==
    ASSUME IInv,
           NEW o \in {"list", "added", "removed", "changed"},
           NEW es, NEW now, NEW end, Begin(o, es, now, end),
           UNCHANGED <<observers, guest, late, view>>,
           Changes(table, end) \subseteq es, es \subseteq Toward(end)
    PROVE  Progress' /\ AtRest' /\ Mirror'
  <1>1. op = "idle" /\ op' = o /\ pending' = es /\ result' = end /\ call' = NoEvent
    BY DEF Begin
  <1>2. \A p \in observers \ late : view[p] = table
    BY <1>1 DEF IInv, Mirror
  <1>3. op' # "idle" /\ op' # "register"
    BY <1>1
  <1>4. \A p \in observers' \ late' : Changes(view'[p], result') \subseteq Owed(p)'
    BY <1>1, <1>2 DEF Owed
  <1> QED
    BY <1>1, <1>3, <1>4 DEF Progress, AtRest, Mirror

-----------------------------------------------------------------------------
(* Every step keeps the invariant.                                          *)

LEMMA OnNewInterfacesListStep ==
    IInv /\ OnNewInterfacesList => Progress' /\ AtRest' /\ Mirror'
  <1> SUFFICES ASSUME IInv, OnNewInterfacesList PROVE Progress' /\ AtRest' /\ Mirror'
    OBVIOUS
  <1>1. PICK l \in Reports : /\ Begin("list", Changes(table, l), table, l)
                             /\ UNCHANGED <<observers, guest, late, view>>
    BY DEF OnNewInterfacesList
  <1>2. Changes(table, l) \subseteq Toward(l)
    BY ReportsAssumption, ChangesToward DEF IInv, TypeOK
  <1> QED
    BY <1>1, <1>2, BeginChange

LEMMA OnInterfaceAddedStep ==
    IInv /\ OnInterfaceAdded => Progress' /\ AtRest' /\ Mirror'
  <1> SUFFICES ASSUME IInv, OnInterfaceAdded PROVE Progress' /\ AtRest' /\ Mirror'
    OBVIOUS
  <1>1. PICK l \in Reports : \E n \in DOMAIN l \ DOMAIN table :
          LET t == With(table, n, l[n]) IN
          /\ Begin("added", {Added(n, l[n])}, t, t)
          /\ UNCHANGED <<observers, guest, late, view>>
    BY DEF OnInterfaceAdded
  <1>2. PICK n \in DOMAIN l \ DOMAIN table :
          /\ Begin("added", {Added(n, l[n])}, With(table, n, l[n]), With(table, n, l[n]))
          /\ UNCHANGED <<observers, guest, late, view>>
    BY <1>1
  <1>3. n \in Names /\ l[n] \in Interface /\ table \in Tables
    BY ReportsAssumption, TableElim DEF IInv, TypeOK
  <1> QED
    BY <1>2, <1>3, AddedChanges, BeginChange

LEMMA OnInterfaceRemovedStep ==
    IInv /\ OnInterfaceRemoved => Progress' /\ AtRest' /\ Mirror'
  <1> SUFFICES ASSUME IInv, OnInterfaceRemoved PROVE Progress' /\ AtRest' /\ Mirror'
    OBVIOUS
  <1>1. PICK n \in DOMAIN table :
          /\ Begin("removed", {Removed(n, table[n])}, table, Without(table, n))
          /\ UNCHANGED <<observers, guest, late, view>>
    BY DEF OnInterfaceRemoved
  <1> QED
    BY <1>1, RemovedChanges, BeginChange DEF IInv, TypeOK

LEMMA OnFieldChangedStep ==
    IInv /\ OnFieldChanged => Progress' /\ AtRest' /\ Mirror'
  <1> SUFFICES ASSUME IInv, OnFieldChanged PROVE Progress' /\ AtRest' /\ Mirror'
    OBVIOUS
  <1>1. PICK n \in Names, f \in Fields, i \in Interface : FieldStep(n, f, i)
    BY FieldStepExists DEF IInv
  <1> QED
    BY <1>1, FieldChanges, BeginChange DEF FieldStep, IInv, TypeOK

LEMMA RegisterObserverStep ==
    IInv /\ RegisterObserver => Progress' /\ AtRest' /\ Mirror'
  <1> SUFFICES ASSUME IInv, RegisterObserver PROVE Progress' /\ AtRest' /\ Mirror'
    OBVIOUS
  <1>1. PICK o \in Observers \ observers :
          /\ Begin("register", {Added(n, table[n]) : n \in DOMAIN table}, table, table)
          /\ guest' = o
          /\ observers' = observers \cup {o}
          /\ view' = [view EXCEPT ![o] = NoTable]
          /\ UNCHANGED late
    BY DEF RegisterObserver
  <1>2. /\ op = "idle" /\ op' = "register" /\ table' = table /\ result' = table
        /\ pending' = {Added(n, table[n]) : n \in DOMAIN table} /\ call' = NoEvent
    BY <1>1 DEF Begin
  <1>3. table \in Tables /\ view \in [Observers -> Tables] /\ observers \subseteq Observers
    BY DEF IInv, TypeOK
  <1>4. pending' \subseteq Toward(result')
    <2>1. {Added(n, table[n]) : n \in DOMAIN table} \subseteq Toward(table)
      BY <1>3, RegisterChanges
    <2> QED
      BY <1>2, <2>1 DEF Toward, Events
  <1>5. Changes(view'[o], result') \subseteq Owed(o)'
    BY <1>1, <1>2, <1>3, RegisterChanges DEF Owed
  <1>6. \A p \in (observers' \ late') \ {o} : view'[p] = result'
    BY <1>1, <1>2, <1>3 DEF IInv, Mirror
  <1> QED
    BY <1>1, <1>2, <1>4, <1>5, <1>6 DEF Progress, AtRest, Mirror

LEMMA UnregisterStep ==
    ASSUME IInv, NEW o, Unregister(o)
    PROVE  Progress' /\ AtRest' /\ Mirror'
  <1>1. /\ UNCHANGED <<table, job>>
        /\ observers' \ late' \subseteq observers \ late
        /\ \A p \in observers' \ late' : view'[p] = view[p]
    BY DEF Unregister, IInv, TypeOK
  <1>2. \A p : Owed(p)' = Owed(p)
    BY <1>1 DEF Owed, job
  <1>3. UNCHANGED <<table, op, pending, call, guest, result>>
    BY <1>1 DEF job
  <1>4. Progress'
    <2>1. Toward(result)' = Toward(result)
      BY <1>3
    <2> QED
      BY <1>1, <1>2, <1>3, <2>1 DEF IInv, Progress
  <1> QED
    BY <1>1, <1>3, <1>4 DEF IInv, AtRest, Mirror

LEMMA NotifyStep ==
    IInv /\ Notify => Progress' /\ AtRest' /\ Mirror'
  <1> SUFFICES ASSUME IInv, Notify PROVE Progress' /\ AtRest' /\ Mirror'
    OBVIOUS
  <1>1. /\ op # "idle" /\ op' = op /\ cursor' = 0
        /\ UNCHANGED <<observers, table, guest, result, late, view>>
    BY DEF Notify
  <1>2. PICK e \in pending : call' = e /\ pending' = pending \ {e}
    BY DEF Notify
  <1>3. e # NoEvent
    BY EventType DEF IInv, TypeOK
  <1>4. ASSUME NEW o \in observers, op = "register" => o = guest
        PROVE  Owed(o) \subseteq Owed(o)'
    <2>1. o \in Observers /\ o > 0
      BY ObserversAssumption DEF IInv, TypeOK
    <2>2. o \in Recipients
      BY <1>4 DEF Recipients
    <2>3. call = NoEvent \/ ~(o > cursor)
      BY <2>2 DEF Notify, CallDone, Ahead
    <2>4. Owed(o) = pending
      BY <2>3 DEF Owed
    <2>5. Owed(o)' = (pending \ {e}) \cup {e}
      BY <1>1, <1>2, <1>3, <2>1 DEF Owed
    <2> QED
      BY <2>4, <2>5
  <1>5. pending \subseteq Toward(result) /\ Toward(result)' = Toward(result)
    BY <1>1 DEF IInv, Progress
  <1> QED
    BY <1>1, <1>2, <1>4, <1>5 DEF IInv, Progress, AtRest, Mirror

LEMMA CallbackStep ==
    IInv /\ Callback => Progress' /\ AtRest' /\ Mirror'
  <1> SUFFICES ASSUME IInv, Callback PROVE Progress' /\ AtRest' /\ Mirror'
    OBVIOUS
  <1>1. /\ op # "idle" /\ call # NoEvent
        /\ UNCHANGED <<observers, table, op, pending, call, guest, result, late>>
    BY DEF Callback, IInv, AtRest
  <1>2. PICK o \in Ahead : /\ \A p \in Ahead : o <= p
                           /\ cursor' = o
                           /\ view' = [view EXCEPT ![o] = Apply(@, call)]
    BY DEF Callback
  <1>3. /\ view \in [Observers -> Tables] /\ result \in Tables
        /\ observers \subseteq Observers /\ cursor \in Nat /\ Observers \subseteq Nat
        /\ guest \in Observers \cup {0}
    BY ObserversAssumption DEF IInv, TypeOK
  <1>4. op = "register" => o = guest /\ guest \in Observers
    BY <1>1, <1>2 DEF Ahead, Recipients, IInv, Progress
  <1>5. o \in Observers /\ o > cursor
    BY <1>2, <1>3, <1>4 DEF Ahead, Recipients
  <1>6. call \in Toward(result)
    BY <1>1 DEF IInv, Progress
  <1>7. Changes(view[o], result) \subseteq Owed(o)
            => Changes(view'[o], result) \subseteq Owed(o)'
    <2>1. Changes(Apply(view[o], call), result) \subseteq Changes(view[o], result) \ {call}
      BY <1>3, <1>5, <1>6, ApplyShrinks
    <2>2. Owed(o) = pending \cup {call} /\ Owed(o)' = pending
      BY <1>1, <1>2, <1>3, <1>5 DEF Owed
    <2>3. view'[o] = Apply(view[o], call)
      BY <1>2, <1>3, <1>5
    <2> QED
      BY <2>1, <2>2, <2>3
  <1>8. ASSUME NEW p \in observers, p # o, op # "register"
        PROVE  view'[p] = view[p] /\ Owed(p)' = Owed(p)
    <2>1. p \in Ahead <=> p > cursor
      BY <1>8 DEF Ahead, Recipients
    <2>2. p > cursor <=> p > o
      BY <1>2, <1>3, <1>5, <1>8, <2>1
    <2> QED
      BY <1>1, <1>2, <1>3, <1>8, <2>2 DEF Owed
  <1>9. ASSUME NEW p \in observers, p # o PROVE view'[p] = view[p]
    BY <1>2, <1>3, <1>9
  <1>10. Toward(result)' = Toward(result)
    BY <1>1
  <1>11. Progress'
    <2>1. CASE op = "register"
      BY <1>1, <1>4, <1>7, <1>9, <1>10, <2>1 DEF IInv, Progress
    <2>2. CASE op # "register"
      BY <1>1, <1>7, <1>8, <1>10, <2>2 DEF IInv, Progress
    <2> QED
      BY <2>1, <2>2
  <1> QED
    BY <1>1, <1>11 DEF AtRest, Mirror

LEMMA FinishStep ==
    IInv /\ Finish => Progress' /\ AtRest' /\ Mirror'
  <1> SUFFICES ASSUME IInv, Finish PROVE Progress' /\ AtRest' /\ Mirror'
    OBVIOUS
  <1>1. /\ op # "idle" /\ op' = "idle" /\ pending = {} /\ CallDone
        /\ table' = result /\ result' = result /\ call' = NoEvent
        /\ UNCHANGED <<observers, late, view>>
    BY DEF Finish
  <1>2. ASSUME NEW o \in observers \ late PROVE view[o] = result
    <2>1. CASE op = "register" /\ o # guest
      BY <1>1, <2>1 DEF IInv, Progress
    <2>2. CASE op = "register" => o = guest
      <3>1. o \in Recipients
        BY <2>2 DEF Recipients
      <3>2. call = NoEvent \/ ~(o > cursor)
        BY <1>1, <3>1 DEF CallDone, Ahead
      <3>3. Owed(o) = {}
        BY <1>1, <3>2 DEF Owed
      <3>4. Changes(view[o], result) = {}
        BY <1>1, <2>2, <3>3 DEF IInv, Progress
      <3>5. view[o] \in Tables /\ result \in Tables
        BY DEF IInv, TypeOK
      <3> QED
        BY <3>4, <3>5, NoChanges
    <2> QED
      BY <2>1, <2>2
  <1> QED
    BY <1>1, <1>2 DEF Progress, AtRest, Mirror

LEMMA NestedRegisterStep ==
    IInv /\ NestedRegister => Progress' /\ AtRest' /\ Mirror'
  <1> SUFFICES ASSUME IInv, NestedRegister PROVE Progress' /\ AtRest' /\ Mirror'
    OBVIOUS
  <1>1. UNCHANGED <<table, op, pending, call, cursor, guest, result>>
    BY DEF NestedRegister, job
  <1>2. PICK o \in Observers \ observers :
          /\ observers' = observers \cup {o}
          /\ view' = [view EXCEPT ![o] = table]
          /\ late' = IF op = "register" THEN late ELSE late \cup {o}
    BY DEF NestedRegister
  <1>3. view \in [Observers -> Tables] /\ observers \subseteq Observers
    BY DEF IInv, TypeOK
  <1>4. view'[o] = table /\ \A p \in observers : view'[p] = view[p]
    BY <1>2, <1>3
  <1>5. \A p : Owed(p)' = Owed(p)
    BY <1>1 DEF Owed
  <1>6. Toward(result)' = Toward(result)
    BY <1>1
  <1>7. CASE op = "register"
    <2>1. table = result /\ Changes(table, result) = {}
      BY <1>7, SameTable DEF IInv, Progress
    <2>2. observers' \ late' \subseteq (observers \ late) \cup {o}
      BY <1>2, <1>7
    <2> QED
      BY <1>1, <1>4, <1>5, <1>6, <1>7, <2>1, <2>2 DEF IInv, Progress, AtRest, Mirror
  <1>8. CASE op # "register"
    <2>1. observers' \ late' \subseteq observers \ late
      BY <1>2, <1>8
    <2> QED
      BY <1>1, <1>4, <1>5, <1>6, <1>8, <2>1 DEF IInv, Progress, AtRest, Mirror
  <1> QED
    BY <1>7, <1>8

LEMMA InvStep ==
    IInv /\ [Next]_vars => IInv'
  <1> SUFFICES ASSUME IInv, [Next]_vars PROVE Progress' /\ AtRest' /\ Mirror'
    BY TypeStep DEF IInv
  <1>1. CASE OnNewInterfacesList
    BY <1>1, OnNewInterfacesListStep
  <1>2. CASE OnInterfaceAdded
    BY <1>2, OnInterfaceAddedStep
  <1>3. CASE OnInterfaceRemoved
    BY <1>3, OnInterfaceRemovedStep
  <1>4. CASE OnFieldChanged
    BY <1>4, OnFieldChangedStep
  <1>5. CASE RegisterObserver
    BY <1>5, RegisterObserverStep
  <1>6. CASE UnregisterObserver
    BY <1>6, UnregisterStep DEF UnregisterObserver
  <1>7. CASE Notify
    BY <1>7, NotifyStep
  <1>8. CASE Callback
    BY <1>8, CallbackStep
  <1>9. CASE Finish
    BY <1>9, FinishStep
  <1>10. CASE NestedRegister
    BY <1>10, NestedRegisterStep
  <1>11. CASE NestedUnregisterOther
    BY <1>11, UnregisterStep DEF NestedUnregisterOther
  <1>12. CASE NestedUnregisterSelf
    BY <1>12, UnregisterStep DEF NestedUnregisterSelf
  <1>13. CASE UNCHANGED vars
    BY <1>13 DEF vars, job, IInv, Progress, AtRest, Mirror, Owed, Toward
  <1> QED
    BY <1>1, <1>2, <1>3, <1>4, <1>5, <1>6, <1>7, <1>8, <1>9, <1>10, <1>11,
       <1>12, <1>13 DEF Next, Operation, Continue, NestedCall

LEMMA InvInit == Init => IInv
  BY TypeInit DEF Init, IInv, Progress, AtRest, Mirror

\* Whatever lists the operating system reports, and whatever observers do in
\* their callbacks, an observer that was not registered from inside of the
\* notification of a change has, whenever the lock is free, a replica equal to
\* the table.
THEOREM MirrorCorrect == Spec => []Mirror
  <1>1. IInv => Mirror
    BY DEF IInv
  <1> QED
    BY <1>1, InvInit, InvStep, PTL DEF Spec

-----------------------------------------------------------------------------
(* A callback that is news settles its own difference and no other.         *)

LEMMA ApplyKeeps ==
    ASSUME NEW v \in Tables, NEW r \in Tables, NEW e \in Changes(v, r)
    PROVE  Changes(v, r) \ {e} \subseteq Changes(Apply(v, e), r)
  <1>1. CASE \E n \in DOMAIN v \ DOMAIN r : e = Removed(n, v[n])
    <2>1. PICK n \in DOMAIN v \ DOMAIN r : e = Removed(n, v[n])
      BY <1>1
    <2> DEFINE w == Without(v, n)
    <2>2. Apply(v, e) = w
      BY <2>1 DEF Apply, Removed
    <2>3. DOMAIN w = DOMAIN v \ {n} /\ \A m \in DOMAIN w : w[m] = v[m]
      BY DEF Without
    <2> HIDE DEF w
    <2>4. ASSUME NEW x \in Changes(v, r), x # e PROVE x \in Changes(w, r)
      <3>1. CASE \E m \in DOMAIN v \ DOMAIN r : x = Removed(m, v[m])
        BY <2>1, <2>3, <2>4, <3>1, ChangesCases
      <3>2. CASE \E m \in DOMAIN r \ DOMAIN v : x = Added(m, r[m])
        BY <2>3, <3>2, ChangesCases
      <3>3. CASE \E m \in DOMAIN v \cap DOMAIN r, f \in Fields :
                    v[m][f] # r[m][f] /\ x = Changed(m, f, r[m])
        BY <2>1, <2>3, <3>3, ChangesCases
      <3> QED
        BY <2>4, <3>1, <3>2, <3>3, ChangesCases
    <2> QED
      BY <2>2, <2>4
  <1>2. CASE \E n \in DOMAIN r \ DOMAIN v : e = Added(n, r[n])
    <2>1. PICK n \in DOMAIN r \ DOMAIN v : e = Added(n, r[n])
      BY <1>2
    <2> DEFINE w == With(v, n, r[n])
    <2>2. Apply(v, e) = w
      BY <2>1 DEF Apply, Added
    <2>3. DOMAIN w = DOMAIN v \cup {n} /\ \A m \in DOMAIN v : w[m] = v[m]
      BY <2>1 DEF With
    <2> HIDE DEF w
    <2>4. ASSUME NEW x \in Changes(v, r), x # e PROVE x \in Changes(w, r)
      <3>1. CASE \E m \in DOMAIN v \ DOMAIN r : x = Removed(m, v[m])
        BY <2>1, <2>3, <3>1, ChangesCases
      <3>2. CASE \E m \in DOMAIN r \ DOMAIN v : x = Added(m, r[m])
        BY <2>1, <2>3, <2>4, <3>2, ChangesCases
      <3>3. CASE \E m \in DOMAIN v \cap DOMAIN r, f \in Fields :
                    v[m][f] # r[m][f] /\ x = Changed(m, f, r[m])
        BY <2>3, <3>3, ChangesCases
      <3> QED
        BY <2>4, <3>1, <3>2, <3>3, ChangesCases
    <2> QED
      BY <2>2, <2>4
  <1>3. CASE \E n \in DOMAIN v \cap DOMAIN r, f \in Fields :
                v[n][f] # r[n][f] /\ e = Changed(n, f, r[n])
    <2>1. PICK n \in DOMAIN v \cap DOMAIN r, f \in Fields :
                v[n][f] # r[n][f] /\ e = Changed(n, f, r[n])
      BY <1>3
    <2> DEFINE w == [m \in DOMAIN v |-> IF m = n
                       THEN [v[m] EXCEPT ![f] = r[n][f]]
                       ELSE v[m]]
    <2>2. Apply(v, e) = w
      BY <2>1 DEF Apply, Changed
    <2>3. DOMAIN w = DOMAIN v
      OBVIOUS
    <2>4. \A m \in DOMAIN v : v[m] \in [Fields -> Values]
      BY TableElim DEF Interface
    <2>5. \A m \in DOMAIN v, g \in Fields : m # n \/ g # f => w[m][g] = v[m][g]
      BY <2>4
    <2>6. \A m \in DOMAIN v : m # n => w[m] = v[m]
      OBVIOUS
    <2> HIDE DEF w
    <2>7. ASSUME NEW x \in Changes(v, r), x # e PROVE x \in Changes(w, r)
      <3>1. CASE \E m \in DOMAIN v \ DOMAIN r : x = Removed(m, v[m])
        BY <2>1, <2>3, <2>6, <3>1, ChangesCases
      <3>2. CASE \E m \in DOMAIN r \ DOMAIN v : x = Added(m, r[m])
        BY <2>3, <3>2, ChangesCases
      <3>3. CASE \E m \in DOMAIN v \cap DOMAIN r, g \in Fields :
                    v[m][g] # r[m][g] /\ x = Changed(m, g, r[m])
        <4>1. PICK m \in DOMAIN v \cap DOMAIN r, g \in Fields :
                    v[m][g] # r[m][g] /\ x = Changed(m, g, r[m])
          BY <3>3
        <4>2. w[m][g] = v[m][g]
          BY <2>1, <2>5, <2>7, <4>1
        <4> QED
          BY <2>3, <4>1, <4>2, ChangesCases
      <3> QED
        BY <2>7, <3>1, <3>2, <3>3, ChangesCases
    <2> QED
      BY <2>2, <2>7
  <1> QED
    BY <1>1, <1>2, <1>3, ChangesCases

LEMMA ChangesSensible ==
    ASSUME NEW v, NEW r, NEW e \in Changes(v, r)
    PROVE  Sensible(v, e)
  <1>1. CASE \E n \in DOMAIN v \ DOMAIN r : e = Removed(n, v[n])
    BY <1>1 DEF Sensible, Removed
  <1>2. CASE \E n \in DOMAIN r \ DOMAIN v : e = Added(n, r[n])
    BY <1>2 DEF Sensible, Added
  <1>3. CASE \E n \in DOMAIN v \cap DOMAIN r, f \in Fields :
                v[n][f] # r[n][f] /\ e = Changed(n, f, r[n])
    BY <1>3 DEF Sensible, Changed
  <1> QED
    BY <1>1, <1>2, <1>3, ChangesCases

-----------------------------------------------------------------------------
(* No callback is spurious.                                                 *)

\* What the walk of a change still owes an observer is news to it, and no
\* notification is owed twice.  With Progress: it is exactly what the replica
\* of the observer lacks.
News ==
    /\ op \notin {"idle", "register"} =>
          \A o \in observers \ late : Owed(o) \subseteq Changes(view[o], result)
    /\ call \notin pending

\* The common part of the operations that change the table.
LEMMA BeginNews ==
    ASSUME IInv,
           NEW o \in {"list", "added", "removed", "changed"},
           NEW es \in SUBSET Events, NEW now, NEW end, Begin(o, es, now, end),
           UNCHANGED <<observers, guest, late, view>>,
           es \subseteq Changes(table, end)
    PROVE  News'
  <1>1. op = "idle" /\ op' = o /\ pending' = es /\ result' = end /\ call' = NoEvent
    BY DEF Begin
  <1>2. \A p \in observers \ late : view[p] = table
    BY <1>1 DEF IInv, Mirror
  <1>3. NoEvent \notin es
    BY EventType
  <1>4. \A p \in observers' \ late' : Owed(p)' \subseteq Changes(view'[p], result')
    BY <1>1, <1>2 DEF Owed
  <1> QED
    BY <1>1, <1>3, <1>4 DEF News

LEMMA OnNewInterfacesListNews ==
    IInv /\ OnNewInterfacesList => News'
  <1> SUFFICES ASSUME IInv, OnNewInterfacesList PROVE News'
    OBVIOUS
  <1>1. PICK l \in Reports : /\ Begin("list", Changes(table, l), table, l)
                             /\ UNCHANGED <<observers, guest, late, view>>
    BY DEF OnNewInterfacesList
  <1>2. Changes(table, l) \in SUBSET Events
    BY ReportsAssumption, ChangesType DEF IInv, TypeOK
  <1> QED
    BY <1>1, <1>2, BeginNews

LEMMA OnInterfaceAddedNews ==
    IInv /\ OnInterfaceAdded => News'
  <1> SUFFICES ASSUME IInv, OnInterfaceAdded PROVE News'
    OBVIOUS
  <1>1. PICK l \in Reports : \E n \in DOMAIN l \ DOMAIN table :
          LET t == With(table, n, l[n]) IN
          /\ Begin("added", {Added(n, l[n])}, t, t)
          /\ UNCHANGED <<observers, guest, late, view>>
    BY DEF OnInterfaceAdded
  <1>2. PICK n \in DOMAIN l \ DOMAIN table :
          /\ Begin("added", {Added(n, l[n])}, With(table, n, l[n]), With(table, n, l[n]))
          /\ UNCHANGED <<observers, guest, late, view>>
    BY <1>1
  <1>3. {Added(n, l[n])} \in SUBSET Events
    BY ReportsAssumption, TableElim, AddedEvent
  <1>4. n \in DOMAIN With(table, n, l[n]) \ DOMAIN table /\ With(table, n, l[n])[n] = l[n]
    BY DEF With
  <1>5. Added(n, l[n]) \in Changes(table, With(table, n, l[n]))
    BY <1>4, ChangesCases
  <1> QED
    BY <1>2, <1>3, <1>5, BeginNews

LEMMA OnInterfaceRemovedNews ==
    IInv /\ OnInterfaceRemoved => News'
  <1> SUFFICES ASSUME IInv, OnInterfaceRemoved PROVE News'
    OBVIOUS
  <1>1. PICK n \in DOMAIN table :
          /\ Begin("removed", {Removed(n, table[n])}, table, Without(table, n))
          /\ UNCHANGED <<observers, guest, late, view>>
    BY DEF OnInterfaceRemoved
  <1>2. n \in Names /\ table[n] \in Interface
    BY TableElim DEF IInv, TypeOK
  <1>3. {Removed(n, table[n])} \in SUBSET Events
    BY <1>2 DEF Events
  <1>4. n \in DOMAIN table \ DOMAIN Without(table, n)
    BY DEF Without
  <1>5. Removed(n, table[n]) \in Changes(table, Without(table, n))
    BY <1>4, ChangesCases
  <1> QED
    BY <1>1, <1>3, <1>5, BeginNews

LEMMA OnFieldChangedNews ==
    IInv /\ OnFieldChanged => News'
  <1> SUFFICES ASSUME IInv, OnFieldChanged PROVE News'
    OBVIOUS
  <1>1. PICK n \in Names, f \in Fields, i \in Interface : FieldStep(n, f, i)
    BY FieldStepExists DEF IInv
  <1>2. {Changed(n, f, i)} \in SUBSET Events
    BY DEF Events
  <1>3. n \in DOMAIN table \cap DOMAIN With(table, n, i) /\ With(table, n, i)[n] = i
    BY <1>1 DEF With, FieldStep
  <1>4. Changed(n, f, i) \in Changes(table, With(table, n, i))
    BY <1>1, <1>3, ChangesCases DEF FieldStep
  <1> QED
    BY <1>1, <1>2, <1>4, BeginNews DEF FieldStep

LEMMA RegisterObserverNews ==
    IInv /\ RegisterObserver => News'
  <1> SUFFICES ASSUME IInv, RegisterObserver PROVE News'
    OBVIOUS
  <1>1. /\ op' = "register" /\ call' = NoEvent
        /\ pending' = {Added(n, table[n]) : n \in DOMAIN table}
    BY DEF RegisterObserver, Begin
  <1>2. \A n \in DOMAIN table : Added(n, table[n]) \in Events
    BY TableElim, AddedEvent DEF IInv, TypeOK
  <1> QED
    BY <1>1, <1>2, EventType DEF News

\* An observer that leaves is owed nothing, and the others are not disturbed.
LEMMA UnregisterNews ==
    ASSUME IInv, News, NEW o, Unregister(o)
    PROVE  News'
  <1>1. /\ UNCHANGED <<table, job>>
        /\ observers' \ late' \subseteq observers \ late
        /\ \A p \in observers' \ late' : view'[p] = view[p]
    BY DEF Unregister, IInv, TypeOK
  <1>2. UNCHANGED <<op, pending, call, cursor, result>>
    BY <1>1 DEF job
  <1> QED
    BY <1>1, <1>2 DEF News, Owed

LEMMA NotifyNews ==
    IInv /\ News /\ Notify => News'
  <1> SUFFICES ASSUME IInv, News, Notify PROVE News'
    OBVIOUS
  <1>1. /\ op # "idle" /\ op' = op /\ cursor' = 0
        /\ UNCHANGED <<observers, result, late, view>>
    BY DEF Notify
  <1>2. PICK e \in pending : call' = e /\ pending' = pending \ {e}
    BY DEF Notify
  <1>3. \A o : Owed(o)' \subseteq Owed(o)
    BY <1>2 DEF Owed
  <1> QED
    BY <1>1, <1>2, <1>3 DEF News

LEMMA CallbackNews ==
    IInv /\ News /\ Callback => News'
  <1> SUFFICES ASSUME IInv, News, Callback PROVE News'
    OBVIOUS
  <1>1. call # NoEvent /\ UNCHANGED <<observers, op, pending, call, result, late>>
    BY DEF Callback
  <1>2. PICK o \in Ahead : /\ \A p \in Ahead : o <= p
                           /\ cursor' = o
                           /\ view' = [view EXCEPT ![o] = Apply(@, call)]
    BY DEF Callback
  <1>3. call \notin pending'
    BY <1>1 DEF News
  <1>4. ASSUME op \notin {"idle", "register"}, NEW p \in observers \ late
        PROVE  Owed(p)' \subseteq Changes(view'[p], result)
    <2>1. /\ view \in [Observers -> Tables] /\ result \in Tables
          /\ o \in Observers /\ p \in Observers /\ o > cursor
          /\ cursor \in Nat /\ Observers \subseteq Nat
      BY <1>2, <1>4, ObserversAssumption DEF IInv, TypeOK, Ahead, Recipients
    <2>2. Owed(p) \subseteq Changes(view[p], result)
      BY <1>4 DEF News
    <2>3. CASE p = o
      <3>1. Owed(p) = pending \cup {call} /\ Owed(p)' = pending
        BY <1>1, <1>2, <2>1, <2>3 DEF Owed
      <3>2. view'[p] = Apply(view[p], call)
        BY <1>2, <2>1, <2>3
      <3>3. Changes(view[p], result) \ {call} \subseteq Changes(view'[p], result)
        BY <2>1, <2>2, <3>1, <3>2, ApplyKeeps
      <3> QED
        BY <1>1, <1>3, <2>2, <3>1, <3>3
    <2>4. CASE p # o
      <3>1. view'[p] = view[p]
        BY <1>2, <2>1, <2>4
      <3>2. p > o => p > cursor
        BY <2>1
      <3>3. Owed(p)' \subseteq Owed(p)
        BY <1>1, <1>2, <3>2 DEF Owed
      <3> QED
        BY <2>2, <3>1, <3>3
    <2> QED
      BY <2>3, <2>4
  <1> QED
    BY <1>1, <1>3, <1>4 DEF News

LEMMA NestedRegisterNews ==
    IInv /\ News /\ NestedRegister => News'
  <1> SUFFICES ASSUME IInv, News, NestedRegister PROVE News'
    OBVIOUS
  <1>1. UNCHANGED <<op, pending, call, cursor, result>>
    BY DEF NestedRegister, job
  <1>2. PICK o \in Observers \ observers :
          /\ observers' = observers \cup {o}
          /\ view' = [view EXCEPT ![o] = table]
          /\ late' = IF op = "register" THEN late ELSE late \cup {o}
    BY DEF NestedRegister
  <1>3. view \in [Observers -> Tables] /\ observers \subseteq Observers
    BY DEF IInv, TypeOK
  <1>4. ASSUME op \notin {"idle", "register"}, NEW p \in observers' \ late'
        PROVE  p \in observers \ late /\ view'[p] = view[p]
    BY <1>2, <1>3, <1>4
  <1> QED
    BY <1>1, <1>4 DEF News, Owed

LEMMA NewsStep ==
    IInv /\ News /\ [Next]_vars => News'
  <1> SUFFICES ASSUME IInv, News, [Next]_vars PROVE News'
    OBVIOUS
  <1>1. CASE OnNewInterfacesList
    BY <1>1, OnNewInterfacesListNews
  <1>2. CASE OnInterfaceAdded
    BY <1>2, OnInterfaceAddedNews
  <1>3. CASE OnInterfaceRemoved
    BY <1>3, OnInterfaceRemovedNews
  <1>4. CASE OnFieldChanged
    BY <1>4, OnFieldChangedNews
  <1>5. CASE RegisterObserver
    BY <1>5, RegisterObserverNews
  <1>6. CASE UnregisterObserver
    BY <1>6, UnregisterNews DEF UnregisterObserver
  <1>7. CASE Notify
    BY <1>7, NotifyNews
  <1>8. CASE Callback
    BY <1>8, CallbackNews
  <1>9. CASE Finish
    <2>1. op' = "idle" /\ call' = NoEvent /\ pending' = {}
      BY <1>9 DEF Finish
    <2> QED
      BY <2>1 DEF News
  <1>10. CASE NestedRegister
    BY <1>10, NestedRegisterNews
  <1>11. CASE NestedUnregisterOther
    BY <1>11, UnregisterNews DEF NestedUnregisterOther
  <1>12. CASE NestedUnregisterSelf
    BY <1>12, UnregisterNews DEF NestedUnregisterSelf
  <1>13. CASE UNCHANGED vars
    BY <1>13 DEF vars, job, News, Owed
  <1> QED
    BY <1>1, <1>2, <1>3, <1>4, <1>5, <1>6, <1>7, <1>8, <1>9, <1>10, <1>11,
       <1>12, <1>13 DEF Next, Operation, Continue, NestedCall

\* Whatever the operating system reports and whatever observers do in their
\* callbacks, the loops of onNewInterfacesList and the on...Changed handlers
\* never tell an observer what it knows already, nor of a change to an
\* interface it was never told of.
THEOREM CallbacksAreNews == Spec => NoSpuriousCallback
  <1>1. Init => News
    BY DEF Init, News
  <1>2. IInv /\ News /\ [Next]_vars =>
          [\A o \in Observers \ (late \cup {guest}) :
              Callback /\ cursor' = o => Sensible(view[o], call)]_vars
    <2> SUFFICES ASSUME IInv, News, Callback,
                        NEW o \in Observers \ (late \cup {guest}), cursor' = o
                 PROVE  Sensible(view[o], call)
      OBVIOUS
    <2>1. call # NoEvent /\ o \in Ahead
      BY DEF Callback
    <2>2. o \in observers /\ op # "register" /\ op # "idle" /\ o > cursor
      BY <2>1 DEF Ahead, Recipients, IInv, AtRest
    <2>3. call \in Owed(o)
      BY <2>1, <2>2 DEF Owed
    <2>4. call \in Changes(view[o], result)
      BY <2>2, <2>3 DEF News
    <2> QED
      BY <2>4, ChangesSensible
  <1> QED
    BY <1>1, <1>2, InvInit, InvStep, NewsStep, PTL DEF Spec, NoSpuriousCallback

-----------------------------------------------------------------------------
(* NetworkInterfaceHelper implements TablePublication.                      *)

\* Between two operations, and all through registerObserver, the table is the
\* one published last; an observer is a guest only while it is being handed
\* the table.
Held ==
    /\ op = "idle" => published = table /\ cursor = 0
    /\ op = "register" => published = table
    /\ op # "register" => guest = 0

LEMMA HeldStep ==
    IInv /\ Held /\ [Next]_vars => Held'
  <1> SUFFICES ASSUME IInv, Held, [Next]_vars PROVE Held'
    OBVIOUS
  <1>1. CASE OnNewInterfacesList
    BY <1>1 DEF OnNewInterfacesList, Begin, Held
  <1>2. CASE OnInterfaceAdded
    BY <1>2 DEF OnInterfaceAdded, Begin, Held
  <1>3. CASE OnInterfaceRemoved
    BY <1>3 DEF OnInterfaceRemoved, Begin, Held
  <1>4. CASE OnFieldChanged
    BY <1>4 DEF OnFieldChanged, Begin, Held
  <1>5. CASE RegisterObserver
    BY <1>5 DEF RegisterObserver, Begin, Held
  <1>6. CASE Notify
    BY <1>6 DEF Notify, Held
  <1>7. CASE Callback
    BY <1>7 DEF Callback, Held, IInv, AtRest
  <1>8. CASE Finish
    BY <1>8 DEF Finish, Held
  <1>9. CASE UNCHANGED <<table, job>>
    BY <1>9 DEF job, Held
  <1>10. UnregisterObserver \/ NestedCall => UNCHANGED <<table, job>>
    BY DEF UnregisterObserver, NestedCall, NestedRegister, NestedUnregisterOther,
           NestedUnregisterSelf, Unregister
  <1> QED
    BY <1>1, <1>2, <1>3, <1>4, <1>5, <1>6, <1>7, <1>8, <1>9, <1>10
       DEF Next, Operation, Continue, vars

\* The observers whose mirror the abstract specification knows, and that mirror.
Listed == observers \ (late \cup {guest})
MirrorBar == [o \in Listed |-> IF op = "idle" THEN view[o] ELSE published]

Bar == <<published, MirrorBar>>

\* Outside of the operations a replica is the table, inside of them it is taken
\* to be the table published last: one and the same.
LEMMA MirrorBarIs ==
    IInv /\ Held => MirrorBar = [o \in Listed |-> published]
  <1> SUFFICES ASSUME IInv, Held
               PROVE  MirrorBar = [o \in Listed |-> published]
    OBVIOUS
  <1>1. CASE op = "idle"
    <2>1. \A o \in Listed : view[o] = published
      BY <1>1 DEF IInv, Mirror, Held, Listed
    <2> QED
      BY <1>1, <2>1 DEF MirrorBar
  <1>2. CASE op # "idle"
    BY <1>2 DEF MirrorBar
  <1> QED
    BY <1>1, <1>2

LEMMA MirrorBarWillBe ==
    (IInv /\ Held => MirrorBar = [o \in Listed |-> published])'
  BY MirrorBarIs, PTL

\* So a step is seen through `published` and through who is listed.
LEMMA SeenAs ==
    ASSUME IInv, Held, IInv', Held',
           \/ UNCHANGED <<published, Listed>>
           \/ /\ UNCHANGED Listed
              /\ published' \in Tables
           \/ /\ UNCHANGED published
              /\ \E o \in Observers \ Listed : Listed' = Listed \cup {o}
           \/ /\ UNCHANGED published
              /\ \E o \in Listed : Listed' = Listed \ {o}
    PROVE  [Publication!Next]_Bar
  <1>1. /\ MirrorBar = [o \in Listed |-> published]
        /\ MirrorBar' = [o \in Listed' |-> published']
    BY MirrorBarIs, MirrorBarWillBe
  <1>2. DOMAIN MirrorBar = Listed /\ \A o \in Listed : MirrorBar[o] = published
    BY <1>1
  <1>3. CASE UNCHANGED <<published, Listed>>
    BY <1>1, <1>3 DEF Bar
  <1>4. CASE UNCHANGED Listed /\ published' \in Tables
    BY <1>1, <1>2, <1>4
       DEF Publication!Next, Publication!Publish, MirrorBar, Listed
  <1>5. CASE UNCHANGED published /\ \E o \in Observers \ Listed : Listed' = Listed \cup {o}
    BY <1>1, <1>2, <1>5
       DEF Publication!Next, Publication!Subscribe, MirrorBar, Listed
  <1>6. CASE UNCHANGED published /\ \E o \in Listed : Listed' = Listed \ {o}
    BY <1>1, <1>2, <1>6
       DEF Publication!Next, Publication!Unsubscribe, MirrorBar, Listed
  <1> QED
    BY <1>3, <1>4, <1>5, <1>6

\* An operation that is beginning, and the calls it makes to observers, show
\* nothing: registerObserver has not listed its guest yet.
LEMMA InsideShowsNothing ==
    ASSUME IInv, Held,
           \/ OnNewInterfacesList \/ OnInterfaceAdded \/ OnInterfaceRemoved
           \/ OnFieldChanged \/ RegisterObserver \/ Notify \/ Callback
    PROVE  UNCHANGED <<published, Listed>>
  <1>1. CASE OnNewInterfacesList
    BY <1>1 DEF OnNewInterfacesList, Begin, Listed
  <1>2. CASE OnInterfaceAdded
    BY <1>2 DEF OnInterfaceAdded, Begin, Listed
  <1>3. CASE OnInterfaceRemoved
    BY <1>3 DEF OnInterfaceRemoved, Begin, Listed
  <1>4. CASE OnFieldChanged
    BY <1>4 DEF OnFieldChanged, Begin, Listed
  <1>5. CASE RegisterObserver
    <2>1. PICK o \in Observers \ observers :
            /\ guest' = o /\ observers' = observers \cup {o} /\ late' = late
            /\ op = "idle" /\ published' = published
      BY <1>5 DEF RegisterObserver, Begin
    <2>2. guest = 0 /\ 0 \notin observers
      BY <2>1, ObserversAssumption DEF Held, IInv, TypeOK
    <2> QED
      BY <2>1, <2>2 DEF Listed
  <1>6. CASE Notify
    BY <1>6 DEF Notify, Listed
  <1>7. CASE Callback
    BY <1>7 DEF Callback, Listed
  <1> QED
    BY <1>1, <1>2, <1>3, <1>4, <1>5, <1>6, <1>7

\* An observer that unregisters is struck off, unless it was not listed.
LEMMA UnregisterShows ==
    ASSUME NEW o \in observers, Unregister(o)
    PROVE  /\ UNCHANGED published
           /\ Listed' = Listed \/ (o \in Listed /\ Listed' = Listed \ {o})
  BY DEF Unregister, job, Listed

\* registerObserver lists its guest when it returns, the other operations
\* publish the table; a guest that has unregistered itself is not listed.
LEMMA FinishShows ==
    ASSUME IInv, Held, Finish
    PROVE  \/ UNCHANGED Listed /\ published' \in Tables
           \/ /\ UNCHANGED published
              /\ \E o \in Observers \ Listed : Listed' = Listed \cup {o}
  <1>1. /\ op # "idle" /\ published' = result /\ result \in Tables
        /\ guest' = 0 /\ observers' = observers /\ late' = late
        /\ observers \subseteq Observers /\ 0 \notin Observers
    BY ObserversAssumption DEF Finish, IInv, TypeOK
  <1>2. Listed' = observers \ late
    BY <1>1 DEF Listed
  <1>3. CASE op = "register" /\ guest \in observers \ late
    <2>1. published = result
      BY <1>3 DEF IInv, Progress, Held
    <2>2. guest \in Observers \ Listed /\ Listed' = Listed \cup {guest}
      BY <1>1, <1>2, <1>3 DEF Listed
    <2> QED
      BY <1>1, <2>1, <2>2
  <1>4. CASE ~(op = "register" /\ guest \in observers \ late)
    <2>1. Listed' = Listed
      BY <1>1, <1>2, <1>4 DEF Listed, Held
    <2> QED
      BY <1>1, <2>1
  <1> QED
    BY <1>3, <1>4

\* Registered from the callback of another one's registration, an observer is
\* listed at once: it has been handed all of the table.
LEMMA NestedRegisterShows ==
    ASSUME IInv, Held, NestedRegister
    PROVE  /\ UNCHANGED published
           /\ \/ UNCHANGED Listed
              \/ \E o \in Observers \ Listed : Listed' = Listed \cup {o}
  <1>1. PICK o \in Observers \ observers :
          /\ observers' = observers \cup {o}
          /\ late' = IF op = "register" THEN late ELSE late \cup {o}
    BY DEF NestedRegister
  <1>2. UNCHANGED <<published, guest>>
    BY DEF NestedRegister, job
  <1>3. Listed' = Listed \/ Listed' = Listed \cup {o}
    BY <1>1, <1>2 DEF Listed
  <1> QED
    BY <1>1, <1>2, <1>3 DEF Listed

LEMMA PublicationStep ==
    ASSUME IInv, Held, IInv', Held', [Next]_vars
    PROVE  [Publication!Next]_Bar
  <1>1. CASE \/ OnNewInterfacesList \/ OnInterfaceAdded \/ OnInterfaceRemoved
             \/ OnFieldChanged \/ RegisterObserver \/ Notify \/ Callback
    BY <1>1, InsideShowsNothing, SeenAs
  <1>2. CASE Finish
    BY <1>2, FinishShows, SeenAs
  <1>3. CASE UnregisterObserver \/ NestedUnregisterOther \/ NestedUnregisterSelf
    <2>1. PICK o \in observers : Unregister(o)
      BY <1>3 DEF UnregisterObserver, NestedUnregisterOther, NestedUnregisterSelf
    <2> QED
      BY <2>1, UnregisterShows, SeenAs
  <1>4. CASE NestedRegister
    BY <1>4, NestedRegisterShows, SeenAs
  <1>5. CASE UNCHANGED vars
    <2>1. UNCHANGED <<published, Listed>>
      BY <1>5 DEF vars, job, Listed
    <2> QED
      BY <2>1, SeenAs
  <1> QED
    BY <1>1, <1>2, <1>3, <1>4, <1>5 DEF Next, Operation, Continue, NestedCall

\* Seen from the outside the library replaces its table and the replicas of
\* all listed observers in a single step, hands a new observer all of the table,
\* and forgets one that leaves, although it calls the observers one by one and
\* they call back.
THEOREM Refinement == Spec => PublishesAtomically
  <1>1. Init => Held
    BY DEF Init, Held
  <1>2. Init => Publication!Init
    BY DEF Init, Publication!Init
  <1>3. IInv /\ Held /\ IInv' /\ Held' /\ [Next]_vars => [Publication!Next]_Bar
    BY PublicationStep
  <1>4. [Publication!Next]_Bar => [Publication!Next]_(Publication!vars)
    BY DEF Bar, MirrorBar, Listed, Publication!vars
  <1> QED
    BY <1>1, <1>2, <1>3, <1>4, InvInit, InvStep, HeldStep, PTL
       DEF Spec, PublishesAtomically, Publication!Spec

=============================================================================
