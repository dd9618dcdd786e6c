-------------------------- MODULE MacDelegate_proofs --------------------------
(***************************************************************************)
(* Safety of the delegate for macOS for any clients, observers and          *)
(* interfaces, any systems and any changes and failures.                    *)
(***************************************************************************)
EXTENDS MacDelegate, TLAPS

-----------------------------------------------------------------------------
(* Types. *)

LEMMA EmptyType == Empty \in Tables
<1>1. Empty \in [{} -> Interface]  BY DEF Empty
<1>2. {} \in SUBSET Interfaces  OBVIOUS
<1> QED BY <1>1, <1>2 DEF Tables

LEMMA ReadType ==
    ASSUME NEW S \in SUBSET Interfaces, NEW m
    PROVE  [i \in S |-> [isConnected |-> IsInterfaceConnected(i), alias |-> Alias(i),
                         ipAddressInfos |-> GetIPAddressInfo(i, m)]] \in Tables
<1>1. ASSUME NEW i \in S
      PROVE  [isConnected |-> IsInterfaceConnected(i), alias |-> Alias(i),
              ipAddressInfos |-> GetIPAddressInfo(i, m)] \in Interface
  <2>1. IsInterfaceConnected(i) \in BOOLEAN  BY DEF IsInterfaceConnected
  <2>2. Alias(i) \in {"user defined", "default"}  BY DEF Alias
  <2>3. GetIPAddressInfo(i, m) \in {"none", "state", "setup"}  BY DEF GetIPAddressInfo
  <2> QED BY <2>1, <2>2, <2>3 DEF Interface
<1>2. [i \in S |-> [isConnected |-> IsInterfaceConnected(i), alias |-> Alias(i),
                    ipAddressInfos |-> GetIPAddressInfo(i, m)]] \in [S -> Interface]
  BY <1>1
<1> QED BY <1>2 DEF Tables

\* The callback has something to tell when it is about to.
Telling == pc[RunLoop] = "notify" => news \in News

LEMMA NewsType ==
    ASSUME NEW i \in Interfaces, NEW m
    PROVE  /\ <<i, "isConnected", IsInterfaceConnected(i)>> \in News
           /\ <<i, "alias", Alias(i)>> \in News
           /\ <<i, "ipAddressInfos", GetIPAddressInfo(i, m)>> \in News
<1>1. IsInterfaceConnected(i) \in BOOLEAN  BY DEF IsInterfaceConnected
<1>2. Alias(i) \in {"user defined", "default"}  BY DEF Alias
<1>3. GetIPAddressInfo(i, m) \in {"none", "state", "setup"}  BY DEF GetIPAddressInfo
<1> QED BY <1>1, <1>2, <1>3 DEF News

LEMMA Updated ==
    ASSUME NEW S, NEW R, NEW f \in [S -> R], NEW a, NEW b \in R
    PROVE  [f EXCEPT ![a] = b] \in [S -> R]
OBVIOUS

LEMMA ToldType ==
    ASSUME NEW t \in Tables, NEW n \in News, n[1] \in DOMAIN t
    PROVE  [t EXCEPT ![n[1]][n[2]] = n[3]] \in Tables
<1>1. PICK S \in SUBSET Interfaces : t \in [S -> Interface]
  BY DEF Tables
<1>2. DOMAIN t = S
  BY <1>1
<1>3. \A j \in S : t[j] \in Interface
  BY <1>1
<1>4. t[n[1]] \in Interface
  BY <1>2, <1>3
<1>5. [t[n[1]] EXCEPT ![n[2]] = n[3]] \in Interface
  <2> DEFINE i == t[n[1]]
  <2> HIDE DEF i
  <2>1. i \in Interface
    BY <1>4 DEF i
  <2>2. [i EXCEPT ![n[2]] = n[3]] \in Interface
    BY <2>1 DEF News, Interface
  <2> QED BY <2>2 DEF i
<1>6. [t EXCEPT ![n[1]] = [t[n[1]] EXCEPT ![n[2]] = n[3]]] \in [S -> Interface]
  BY <1>1, <1>5, Updated, Zenon
<1> QED BY <1>6, Zenon DEF Tables

\* Interfaces are read with or without losses.
LEMMA Reads ==
    ASSUME NEW t \in Threads, ReadInterfaces(t) \/ ReadFails(t)
    PROVE  \E lost \in SUBSET found[t] : Read(t, lost)
BY Zenon DEF ReadInterfaces, ReadFails

LEMMA RefreshTypeStep ==
    ASSUME TypeOK, Telling, NEW t \in Threads, Refresh(t)
    PROVE  TypeOK' /\ Telling'
<1> USE ClientsAssumption
    DEF TypeOK, Telling, Locations, Handling, Refreshing, environment, common, refreshing,
        kit, dynamicStore, thread, history, Goto, Threads
<1>1. CASE ClearMapping(t)
  BY <1>1 DEF ClearMapping
<1>2. CASE ListFails(t)
  <2>1. failures' \in 0 .. MaxFailures
    BY <1>2, BoundsAssumption DEF ListFails
  <2>2. list' \in [Threads -> Tables]
    BY <1>2, EmptyType DEF ListFails
  <2>3. pc' \in [Threads -> Locations] /\ Telling'
    BY <1>2 DEF ListFails
  <2>4. unseen' \subseteq Keys
    BY <1>2 DEF ListFails
  <2>5. UNCHANGED <<system, changes, common, todo, arg, found, mapping, enumeratedOnce,
                    kit, dynamicStore, thread, crashed, torn>>
    BY <1>2 DEF ListFails
  <2> HIDE <1>2
  <2> QED BY <2>1, <2>2, <2>3, <2>4, <2>5
<1>3. CASE ListServices(t)
  <2> DEFINE services == {i \in Interfaces : <<i, "service">> \in system}
  <2>1. services \subseteq Interfaces  OBVIOUS
  <2> HIDE DEF services
  <2>2. found' = [found EXCEPT ![t] = services] /\ mapping' = mapping \cup services
    BY <1>3 DEF ListServices, services
  <2> QED BY <1>3, <2>1, <2>2 DEF ListServices
<1>4. ASSUME NEW lost \in SUBSET found[t], Read(t, lost), failures' \in 0 .. MaxFailures
      PROVE  TypeOK' /\ Telling'
  <2> DEFINE S == {j \in found[t] \ lost : <<j, "adapter">> \in system}
             l == [i \in S |-> [isConnected |-> IsInterfaceConnected(i), alias |-> Alias(i),
                                ipAddressInfos |-> GetIPAddressInfo(i, mapping)]]
  <2>1. S \in SUBSET Interfaces  OBVIOUS
  <2>2. l \in Tables
    BY <2>1, ReadType
  <2>3. list' = [list EXCEPT ![t] = l]
    BY <1>4 DEF Read
  <2> HIDE DEF S, l
  <2>4. list' \in [Threads -> Tables]
    BY <2>2, <2>3
  <2>5. unseen' \subseteq Keys
    <3>1. \A i \in Interfaces : <<i, "setupIP">> \in Keys
      BY DEF Keys, Kinds
    <3>2. (found[t] \ mapping) \X {"setupIP"} \subseteq Keys
      BY <3>1
    <3>3. lost \X {"adapter"} \subseteq Keys
      BY DEF Keys, Kinds
    <3>4. unseen' \subseteq unseen \cup ((found[t] \ mapping) \X {"setupIP"})
                               \cup (lost \X {"adapter"})
      BY <1>4, Zenon DEF Read
    <3> QED BY <3>2, <3>3, <3>4, Zenon
  <2>6. pc' \in [Threads -> Locations] /\ Telling'
    BY <1>4 DEF Read
  <2>7. UNCHANGED <<system, changes, common, todo, arg, found, mapping, enumeratedOnce,
                    kit, dynamicStore, thread, crashed, torn>>
    BY <1>4 DEF Read
  <2>8. failures' \in 0 .. MaxFailures
    BY <1>4
  <2> HIDE <1>4
  <2> QED BY <2>4, <2>5, <2>6, <2>7, <2>8
<1>5. CASE Publish(t)
  <2>1. list' \in [Threads -> Tables] /\ table' \in Tables
    BY <1>5, EmptyType DEF Publish
  <2>2. pc' \in [Threads -> Locations] /\ Telling'
    BY <1>5 DEF Publish
  <2>3. found' \in [Threads -> SUBSET Interfaces] /\ torn' \subseteq Threads
    BY <1>5 DEF Publish
  <2>4. UNCHANGED <<environment, observers, todo, arg, mapping, enumeratedOnce, kit,
                    dynamicStore, thread, crashed, unseen>>
    BY <1>5 DEF Publish
  <2> HIDE <1>5
  <2> QED BY <2>1, <2>2, <2>3, <2>4
<1>6. CASE ReadInterfaces(t) \/ ReadFails(t)
  <2>1. failures' \in 0 .. MaxFailures
    BY <1>6, BoundsAssumption DEF ReadInterfaces, ReadFails
  <2> QED BY <1>4, <1>6, <2>1, Reads
<1> QED BY <1>1, <1>2, <1>3, <1>5, <1>6 DEF Refresh

LEMMA ClientTypeStep ==
    ASSUME TypeOK, Telling, NEW t \in Clients, Call(t) \/ (Proceed(t) /\ ~Refresh(t))
    PROVE  TypeOK' /\ Telling'
<1> USE ClientsAssumption
    DEF TypeOK, Telling, Locations, Handling, Refreshing, environment, common, refreshing,
        kit, dynamicStore, thread, history, Goto, Threads
<1>1. CASE Call(t)
  <2>1. ASSUME NEW op \in {"idle", "register"}, Start(t, op), arg' \in [Clients -> Observers]
        PROVE  TypeOK' /\ Telling'
    BY <2>1 DEF Start
  <2>2. CASE CallLookup(t)             BY <2>1, <2>2 DEF CallLookup
  <2>3. CASE CallRegisterObserver(t)   BY <2>1, <2>3 DEF CallRegisterObserver
  <2>4. CASE CallUnregisterObserver(t) BY <2>4 DEF CallUnregisterObserver
  <2>5. CASE CallDestroy(t)            BY <2>5 DEF CallDestroy
  <2> QED BY <1>1, <2>2, <2>3, <2>4, <2>5 DEF Call
<1>2. CASE Enumerated(t)         BY <1>2 DEF Enumerated
<1>3. CASE RegisterObserver(t)   BY <1>3 DEF RegisterObserver
<1>4. CASE ArmPort(t)
  <2>1. failures' \in 0 .. MaxFailures
    BY <1>4, BoundsAssumption DEF ArmPort
  <2>2. port' \in BOOLEAN /\ iterators' \subseteq Iterators \X Interfaces
    BY <1>4, Zenon DEF ArmPort
  <2>3. pc' \in [Threads -> Locations] /\ Telling'
    BY <1>4 DEF ArmPort
  <2> QED BY <1>4, <2>1, <2>2, <2>3, Zenon DEF ArmPort
<1>5. CASE CreateStore(t)
  <2>1. failures' \in 0 .. MaxFailures
    BY <1>5, BoundsAssumption DEF CreateStore
  <2>2. pc' \in [Threads -> Locations] /\ Telling'
    BY <1>5 DEF CreateStore
  <2>3. store' \in BOOLEAN /\ threadReady' \in {"none", "open", "set", "gone"}
    BY <1>5 DEF CreateStore
  <2> QED BY <1>5, <2>1, <2>2, <2>3, Zenon DEF CreateStore
<1>6. CASE WaitReady(t)          BY <1>6 DEF WaitReady
<1>7. CASE UnregisterObserver(t) BY <1>7 DEF UnregisterObserver
<1>8. CASE ReleasePort(t)
  <2>1. unseen' \subseteq Keys
    BY <1>8 DEF ReleasePort, Keys, Kinds
  <2> QED BY <1>8, <2>1 DEF ReleasePort
<1>9. CASE StopRunLoop(t)        BY <1>9 DEF StopRunLoop
<1>10. CASE Join(t)              BY <1>10 DEF Join
<1>11. CASE ReleaseStore(t)      BY <1>11 DEF ReleaseStore
<1> QED
  BY <1>1, <1>2, <1>3, <1>4, <1>5, <1>6, <1>7, <1>8, <1>9, <1>10, <1>11 DEF Proceed

LEMMA LoopTypeStep ==
    ASSUME TypeOK, Telling, Loop, ~Refresh(RunLoop)
    PROVE  TypeOK' /\ Telling'
<1> USE ClientsAssumption
    DEF TypeOK, Telling, Locations, Handling, Refreshing, environment, common, refreshing,
        kit, dynamicStore, thread, history, Goto, Threads
<1>1. CASE LoopStarts            BY <1>1 DEF LoopStarts
<1>2. CASE LoopIsReady           BY <1>2 DEF LoopIsReady
<1>3. CASE LoopRuns              BY <1>3 DEF LoopRuns
<1>4. CASE LoopEnds              BY <1>4 DEF LoopEnds
<1>5. CASE StoreCalls            BY <1>5 DEF StoreCalls
<1>6. CASE LockNotification(RunLoop) BY <1>6 DEF LockNotification
<1>7. CASE HandleByRefresh       BY <1>7 DEF HandleByRefresh
<1>8. CASE HandleKey
  <2>1. PICK k \in changedKeys :
          /\ changedKeys' = changedKeys \ {k}
          /\ news' = CASE k[2] = "link" -> <<k[1], "isConnected", IsInterfaceConnected(k[1])>>
                       [] k[2] = "alias" -> <<k[1], "alias", Alias(k[1])>>
                       [] OTHER -> <<k[1], "ipAddressInfos", GetIPAddressInfo(k[1], mapping)>>
          /\ unseen' = unseen \cup (IF Rebuilding(RunLoop) /\ k[1] \notin mapping
                                    THEN {<<k[1], "setupIP">>} ELSE {})
    BY <1>8 DEF HandleKey
  <2>2. k[1] \in Interfaces
    BY DEF Keys
  <2>3. news' \in News
    BY <2>1, <2>2, NewsType
  <2>4. unseen' \subseteq Keys
    BY <2>1, <2>2 DEF Keys, Kinds
  <2>5. pc' \in [Threads -> Locations]
    BY <1>8 DEF HandleKey
  <2> QED BY <1>8, <2>1, <2>3, <2>4, <2>5, Zenon DEF HandleKey
<1>9. CASE NotifyNews
  <2>1. news \in News /\ table' \in Tables
    BY <1>9, ToldType DEF NotifyNews
  <2> QED BY <1>9, <2>1 DEF NotifyNews
<1>10. CASE Handled              BY <1>10 DEF Handled
<1> QED
  BY <1>1, <1>2, <1>3, <1>4, <1>5, <1>6, <1>7, <1>8, <1>9, <1>10 DEF Loop

LEMMA TypeStep == TypeOK /\ Telling /\ [Next]_vars => TypeOK' /\ Telling'
<1> SUFFICES ASSUME TypeOK, Telling, [Next]_vars PROVE TypeOK' /\ Telling'
    OBVIOUS
<1> USE ClientsAssumption
    DEF TypeOK, Telling, Locations, Handling, Refreshing, environment, common, refreshing,
        kit, dynamicStore, thread, history, Goto, Threads
<1>1. CASE SystemChanges
  <2>1. PICK k \in Changing :
          /\ changes < MaxChanges /\ changes' = changes + 1
          /\ system' = Toggle(system, {k})
          /\ \/ /\ iterators' = iterators \cup (IF port THEN {<<Arrival(k), k[1]>>} ELSE {})
                /\ UNCHANGED pending
             \/ /\ pending' = pending \cup (IF store THEN {k} ELSE {})
                /\ UNCHANGED iterators
          /\ unseen' = unseen \cup (IF Overlooked(k) THEN {k} ELSE {})
    BY <1>1 DEF SystemChanges
  <2>2. k \in Keys /\ k[1] \in Interfaces
    BY SystemsAssumption DEF Keys
  <2>3. changes' \in 0 .. MaxChanges
    BY <2>1, BoundsAssumption
  <2>4. system' \subseteq Keys
    BY <2>1, <2>2 DEF Toggle
  <2>5. iterators' \subseteq Iterators \X Interfaces
    BY <2>1, <2>2 DEF Arrival, Iterators
  <2>6. pending' \subseteq Keys /\ unseen' \subseteq Keys
    BY <2>1, <2>2
  <2>7. UNCHANGED <<failures, common, pc, todo, arg, refreshing, enumeratedOnce,
                    port, iterator, store, changedKeys, news, thread, crashed, torn>>
    BY <1>1 DEF SystemChanges
  <2> HIDE <1>1, <2>1
  <2> QED BY <2>3, <2>4, <2>5, <2>6, <2>7
<1>2. CASE Loop
  BY <1>2, LoopTypeStep, RefreshTypeStep
<1>3. CASE Handler
  <2>1. CASE IOKitCalls               BY <2>1 DEF IOKitCalls, Iterators
  <2>2. CASE LockNotification(IOKit)  BY <2>2 DEF LockNotification
  <2>3. CASE Drain                    BY <2>3 DEF Drain, Iterators
  <2> QED BY <1>3, <2>1, <2>2, <2>3, RefreshTypeStep DEF Handler
<1>4. ASSUME NEW t \in Clients, Call(t) \/ Proceed(t) PROVE TypeOK' /\ Telling'
  BY <1>4, ClientTypeStep, RefreshTypeStep
<1>5. CASE UNCHANGED vars
  BY <1>5 DEF vars
<1> QED BY <1>1, <1>2, <1>3, <1>4, <1>5 DEF Next

LEMMA TypeInit == Init => TypeOK /\ Telling
<1> SUFFICES ASSUME Init PROVE TypeOK /\ Telling  OBVIOUS
<1>1. (CHOOSE o \in Observers : TRUE) \in Observers  BY ObserversAssumption
<1>2. arg \in [Clients -> Observers]  BY <1>1, Zenon DEF Init
<1>3. /\ pc \in [Threads -> Locations] /\ todo \in [Clients -> Locations]
      /\ pc[RunLoop] # "notify"
  BY ClientsAssumption DEF Init, Threads, Locations
<1>4. list \in [Threads -> Tables] /\ table \in Tables
  BY EmptyType DEF Init
<1>5. 0 \in 0 .. MaxChanges /\ 0 \in 0 .. MaxFailures
  BY BoundsAssumption
<1>6. system \in SUBSET Keys
  BY SystemsAssumption DEF Init
<1>7. found \in [Threads -> SUBSET Interfaces]
  BY DEF Init
<1> QED
  BY <1>2, <1>3, <1>4, <1>5, <1>6, <1>7 DEF Init, TypeOK, Telling, Iterators

\* The type invariant, for any values of the constants: among others, what a
\* callback tells fits the field it is about.
THEOREM TypeCorrect == Spec => []TypeOK
BY TypeInit, TypeStep, PTL DEF Spec

-----------------------------------------------------------------------------
(* Lifetimes. *)

\* Where the client that registers observers can be, and the others.
Registering == {"register", "port", "store", "ready", "unregister", "terminate",
                "stop", "join", "release", "destroyed"}
Looking == Refreshing \cup {"idle", "enumerated"}

Places ==
    /\ \A t \in Clients :
          /\ pc[t] \in Looking \/ (t \in Registrars /\ pc[t] \in Registering)
          /\ todo[t] = "idle" \/ (t \in Registrars /\ todo[t] \in {"register", "destroyed"})
    /\ pc[IOKit] \in Refreshing \cup {"none", "lock", "drain"}
    /\ pc[RunLoop] \in Refreshing \cup
          {"none", "started", "promise", "run", "waiting", "lock", "finished",
           "handle", "notify"}

\* The thread of the run loop is there from CreateStore to Join, the store
\* longer, the promise until it was waited for, and the run loop from the
\* thread's first step to its last, which only a client that joins makes it do.
Nested ==
    /\ \A t \in Registrars :
          /\ pc[t] = "release" => pc[RunLoop] = "none"
          /\ pc[t] \in {"stop", "join"} => pc[RunLoop] # "none"
    /\ pc[RunLoop] # "none" => store
    /\ pc[RunLoop] \in {"started", "promise"} => threadReady \in {"open", "gone"}
    /\ threadReady \in {"open", "set"} => \E t \in Registrars : pc[t] = "ready"
    /\ stopped \/ pc[RunLoop] = "finished" => \E t \in Registrars : pc[t] = "join"
    /\ pc[RunLoop] \notin {"none", "started", "finished"} => runLoopRef
    /\ crashed => threadReady = "gone"

LEMMA LifetimesInit == Init => Places /\ Nested
BY ClientsAssumption DEF Init, Places, Nested, Looking, Refreshing, Threads

LEMMA TheThreads ==
    /\ RunLoop # IOKit /\ RunLoop \in Threads /\ IOKit \in Threads
    /\ RunLoop \notin Clients /\ IOKit \notin Clients
BY ClientsAssumption DEF RunLoop, IOKit, Threads

LEMMA RefreshLifetimes ==
    ASSUME TypeOK, Places, Nested, NEW t \in Threads, Refresh(t)
    PROVE  Places' /\ Nested'
<1> USE ClientsAssumption
    DEF Places, Nested, Looking, Registering, Refreshing, TypeOK, Threads, Goto,
        environment, common, refreshing, kit, dynamicStore, thread, history
<1>1. CASE ClearMapping(t)    BY <1>1 DEF ClearMapping
<1>2. CASE ListFails(t)       BY <1>2 DEF ListFails
<1>3. CASE ListServices(t)    BY <1>3 DEF ListServices
<1>4. CASE ReadInterfaces(t) \/ ReadFails(t)
  <2>1. PICK lost \in SUBSET found[t] : Read(t, lost)  BY <1>4, Reads
  <2> QED BY <2>1 DEF Read
<1>5. CASE Publish(t)
  <2>1. pc' = [pc EXCEPT ![t] = IF t = RunLoop THEN "waiting"
                                ELSE IF t = IOKit THEN "drain" ELSE "enumerated"]
    BY <1>5, TheThreads DEF Publish
  <2>2. /\ pc[t] = "publish" /\ ~crashed
        /\ UNCHANGED <<todo, store, threadReady, stopped, runLoopRef, crashed>>
    BY <1>5 DEF Publish
  <2>3. CASE t = RunLoop  BY <2>1, <2>2, <2>3, TheThreads
  <2>4. CASE t = IOKit    BY <2>1, <2>2, <2>4, TheThreads
  <2>5. CASE t \in Clients
    <3>1. pc' = [pc EXCEPT ![t] = "enumerated"]
      BY <2>1, <2>5, TheThreads
    <3> QED BY <2>2, <2>5, <3>1, TheThreads
  <2> QED BY <2>3, <2>4, <2>5
<1> QED BY <1>1, <1>2, <1>3, <1>4, <1>5 DEF Refresh

LEMMA ClientLifetimes ==
    ASSUME TypeOK, Places, Nested, NEW t \in Clients,
           Call(t) \/ (Proceed(t) /\ ~Refresh(t))
    PROVE  Places' /\ Nested'
<1> USE ClientsAssumption, RegistrarsAssumption
    DEF Places, Nested, Looking, Registering, Refreshing, TypeOK, Threads, Goto,
        environment, common, refreshing, kit, dynamicStore, thread, history
<1>1. CASE CallLookup(t)  BY <1>1 DEF CallLookup, Start
<1>2. CASE t \in Registrars /\ CallRegisterObserver(t)
  BY <1>2 DEF CallRegisterObserver, Start
<1>3. CASE t \in Registrars /\ CallUnregisterObserver(t)
  BY <1>3 DEF CallUnregisterObserver
<1>4. CASE t \in Registrars /\ CallDestroy(t)  BY <1>4 DEF CallDestroy
<1>5. CASE Enumerated(t)         BY <1>5 DEF Enumerated
<1>6. CASE RegisterObserver(t)   BY <1>6 DEF RegisterObserver
<1>7. CASE ArmPort(t)            BY <1>7 DEF ArmPort
<1>8. CASE CreateStore(t)
  <2>1. t \in Registrars /\ pc[t] = "store" /\ ~crashed
    BY <1>8 DEF CreateStore
  <2>2. CASE pc' = [pc EXCEPT ![t] = "ready", ![RunLoop] = "started"]
    <3>1. store' /\ threadReady' = "open"
      BY <1>8, <2>1, <2>2, TheThreads DEF CreateStore
    <3>2. /\ pc'[t] = "ready" /\ pc'[RunLoop] = "started" /\ pc'[IOKit] = pc[IOKit]
          /\ \A u \in Clients \ {t} : pc'[u] = pc[u]
      BY <2>2, TheThreads
    <3>3. UNCHANGED <<todo, stopped, runLoopRef, crashed>>
      BY <1>8 DEF CreateStore
    <3>4. Places'
      BY <2>1, <3>2, <3>3
    <3> QED BY <2>1, <3>1, <3>2, <3>3, <3>4
  <2>3. CASE pc' = [pc EXCEPT ![t] = "idle"] /\ UNCHANGED <<store, threadReady>>
    BY <1>8, <2>1, <2>3, TheThreads DEF CreateStore
  <2> QED BY <1>8, <2>2, <2>3 DEF CreateStore
<1>9. CASE WaitReady(t)          BY <1>9 DEF WaitReady
<1>10. CASE UnregisterObserver(t) BY <1>10 DEF UnregisterObserver
<1>11. CASE ReleasePort(t)       BY <1>11 DEF ReleasePort
<1>12. CASE StopRunLoop(t)       BY <1>12 DEF StopRunLoop
<1>13. CASE Join(t)              BY <1>13 DEF Join
<1>14. CASE ReleaseStore(t)      BY <1>14 DEF ReleaseStore
<1> QED
  BY <1>1, <1>2, <1>3, <1>4, <1>5, <1>6, <1>7, <1>8, <1>9, <1>10, <1>11, <1>12,
     <1>13, <1>14 DEF Call, Proceed

LEMMA LoopLifetimes ==
    ASSUME TypeOK, Places, Nested, (Loop /\ ~Refresh(RunLoop)) \/ (Handler /\ ~Refresh(IOKit))
    PROVE  Places' /\ Nested'
<1> USE ClientsAssumption
    DEF Places, Nested, Looking, Registering, Refreshing, TypeOK, Threads, Goto,
        environment, common, refreshing, kit, dynamicStore, thread, history
<1>1. CASE LoopStarts            BY <1>1 DEF LoopStarts
<1>2. CASE LoopIsReady           BY <1>2 DEF LoopIsReady
<1>3. CASE LoopRuns              BY <1>3 DEF LoopRuns
<1>4. CASE LoopEnds              BY <1>4 DEF LoopEnds
<1>5. CASE StoreCalls            BY <1>5 DEF StoreCalls
<1>6. CASE LockNotification(RunLoop)
  BY <1>6, TheThreads DEF LockNotification
<1>13. CASE LockNotification(IOKit)
  BY <1>13, TheThreads DEF LockNotification
<1>7. CASE HandleByRefresh       BY <1>7 DEF HandleByRefresh
<1>8. CASE HandleKey             BY <1>8 DEF HandleKey
<1>9. CASE NotifyNews            BY <1>9 DEF NotifyNews
<1>10. CASE Handled              BY <1>10 DEF Handled
<1>11. CASE IOKitCalls           BY <1>11, TheThreads DEF IOKitCalls
<1>12. CASE Drain                BY <1>12 DEF Drain
<1> QED
  BY <1>1, <1>2, <1>3, <1>4, <1>5, <1>6, <1>7, <1>8, <1>9, <1>10, <1>11, <1>12,
     <1>13 DEF Loop, Handler

LEMMA LifetimesStep == TypeOK /\ Places /\ Nested /\ [Next]_vars => Places' /\ Nested'
<1> SUFFICES ASSUME TypeOK, Places, Nested, [Next]_vars PROVE Places' /\ Nested'
    OBVIOUS
<1>1. CASE SystemChanges
  BY <1>1 DEF SystemChanges, Places, Nested, common, refreshing, thread
<1>2. CASE Loop
  BY <1>2, LoopLifetimes, RefreshLifetimes DEF Threads
<1>3. CASE Handler
  BY <1>3, LoopLifetimes, RefreshLifetimes DEF Threads
<1>4. ASSUME NEW t \in Clients, Call(t) \/ Proceed(t) PROVE Places' /\ Nested'
  BY <1>4, ClientLifetimes, RefreshLifetimes DEF Threads
<1>5. CASE UNCHANGED vars
  BY <1>5 DEF vars, Places, Nested, common, refreshing, kit, dynamicStore, thread
<1> QED BY <1>1, <1>2, <1>3, <1>4, <1>5 DEF Next

\* The thread is joined before the store it is called back with is released,
\* CFRunLoopStop finds a run loop, and the program ends abnormally only when
\* the wait for the thread was over before the thread was ready
\* (terminateObserverThread, onFirstObserverRegistered).
THEOREM LifetimesAreNested == Spec => []LifetimesNest
<1>1. Places /\ Nested => LifetimesNest
  BY DEF Nested, LifetimesNest
<1> QED
  BY <1>1, LifetimesInit, LifetimesStep, TypeInit, TypeStep, PTL DEF Spec

-----------------------------------------------------------------------------
(* What a list, a field or the table says, and what there is. *)

\* On a system with the keys `s`, but for the keys `u`, about which nothing is
\* known, the interface may have a key of a kind, and may lack it.
MayHave(i, kind, s, u) == <<i, kind>> \in s \cup u
MayLack(i, kind, s, u) == <<i, kind>> \notin s \ u

FitsAddress(a, i, s, u) ==
    /\ a = "state" => MayHave(i, "stateIP", s, u)
    /\ a # "state" => MayLack(i, "stateIP", s, u)
    /\ a = "setup" => MayHave(i, "setupIP", s, u)
    /\ a = "none" => MayLack(i, "setupIP", s, u)

\* What an interface of a list says is true of it.
FitsInterface(r, i, s, u) ==
    /\ MayHave(i, "adapter", s, u) /\ MayHave(i, "service", s, u)
    /\ IF r.isConnected THEN MayHave(i, "link", s, u) ELSE MayLack(i, "link", s, u)
    /\ IF r.alias = "default" THEN MayLack(i, "alias", s, u) ELSE MayHave(i, "alias", s, u)
    /\ FitsAddress(r.ipAddressInfos, i, s, u)

Fits(l, s, u) ==
    \A i \in Interfaces :
        IF i \in DOMAIN l THEN FitsInterface(l[i], i, s, u)
        ELSE MayLack(i, "adapter", s, u) \/ MayLack(i, "service", s, u)

\* What a callback is about to tell is true: without a service it need not be.
FitsNews(n, s, u) ==
    CASE n[2] = "isConnected" ->
            IF n[3] THEN MayHave(n[1], "link", s, u) ELSE MayLack(n[1], "link", s, u)
      [] n[2] = "alias" ->
            IF n[3] = "default" THEN MayLack(n[1], "alias", s, u)
                                ELSE MayHave(n[1], "alias", s, u)
      [] OTHER -> \/ FitsAddress(n[3], n[1], s, u)
                  \/ /\ n[3] = "none" /\ MayLack(n[1], "stateIP", s, u)
                     /\ MayLack(n[1], "service", s, u)

\* The keys the field told is read from.
Subject(n) ==
    CASE n[2] = "isConnected" -> {<<n[1], "link">>}
      [] n[2] = "alias" -> {<<n[1], "alias">>}
      [] OTHER -> {<<n[1], "stateIP">>, <<n[1], "setupIP">>}

\* `s2` and `u2` leave open what `s` and `u` do.
Weaker(s, u, s2, u2) ==
    \A k \in Keys : /\ k \in s \cup u => k \in s2 \cup u2
                    /\ k \notin s \ u => k \notin s2 \ u2

LEMMA KeysOf ==
    \A i \in Interfaces : \A kind \in Kinds : <<i, kind>> \in Keys
BY DEF Keys

LEMMA FitsWeaker ==
    ASSUME NEW l, NEW s, NEW u, NEW s2, NEW u2, Fits(l, s, u), Weaker(s, u, s2, u2)
    PROVE  Fits(l, s2, u2)
<1> SUFFICES ASSUME NEW i \in Interfaces
             PROVE  IF i \in DOMAIN l THEN FitsInterface(l[i], i, s2, u2)
                    ELSE MayLack(i, "adapter", s2, u2) \/ MayLack(i, "service", s2, u2)
    BY DEF Fits
<1>1. ASSUME NEW kind \in Kinds
      PROVE  /\ MayHave(i, kind, s, u) => MayHave(i, kind, s2, u2)
             /\ MayLack(i, kind, s, u) => MayLack(i, kind, s2, u2)
  BY KeysOf DEF Weaker, MayHave, MayLack
<1>2. /\ "adapter" \in Kinds /\ "service" \in Kinds /\ "alias" \in Kinds
      /\ "link" \in Kinds /\ "stateIP" \in Kinds /\ "setupIP" \in Kinds
  BY DEF Kinds
<1>3. IF i \in DOMAIN l THEN FitsInterface(l[i], i, s, u)
      ELSE MayLack(i, "adapter", s, u) \/ MayLack(i, "service", s, u)
  BY DEF Fits
<1> QED BY <1>1, <1>2, <1>3 DEF FitsInterface, FitsAddress

LEMMA NewsWeaker ==
    ASSUME NEW n \in News, NEW s, NEW u, NEW s2, NEW u2,
           FitsNews(n, s, u), Weaker(s, u, s2, u2)
    PROVE  FitsNews(n, s2, u2)
<1>1. ASSUME NEW kind \in Kinds
      PROVE  /\ MayHave(n[1], kind, s, u) => MayHave(n[1], kind, s2, u2)
             /\ MayLack(n[1], kind, s, u) => MayLack(n[1], kind, s2, u2)
  <2>1. n[1] \in Interfaces
    BY DEF News
  <2> QED BY <2>1, KeysOf DEF Weaker, MayHave, MayLack
<1>2. /\ "service" \in Kinds /\ "alias" \in Kinds
      /\ "link" \in Kinds /\ "stateIP" \in Kinds /\ "setupIP" \in Kinds
  BY DEF Kinds
<1> QED BY <1>1, <1>2 DEF FitsNews, FitsAddress

LEMMA WeakerMore ==
    ASSUME NEW s, NEW u, NEW u2, u \subseteq u2
    PROVE  Weaker(s, u, s, u2)
BY DEF Weaker

LEMMA WeakerChange ==
    ASSUME NEW s, NEW u, NEW u2, NEW k \in u2, u \subseteq u2
    PROVE  Weaker(s, u, Toggle(s, {k}), u2)
BY DEF Weaker, Toggle

LEMMA UnknownGrows ==
    ASSUME NEW v, NEW v2, v \subseteq v2
    PROVE  Unknown(v) \subseteq Unknown(v2) /\ v2 \subseteq Unknown(v2)
BY DEF Unknown

\* Nothing is wrong where nothing is known.
LEMMA FitsAll ==
    ASSUME NEW l, NEW s \in SUBSET Keys, NEW u, Keys \subseteq u
    PROVE  Fits(l, s, u)
<1>1. ASSUME NEW i \in Interfaces, NEW kind \in Kinds
      PROVE  MayHave(i, kind, s, u) /\ MayLack(i, kind, s, u)
  BY KeysOf DEF MayHave, MayLack
<1>2. /\ "adapter" \in Kinds /\ "service" \in Kinds /\ "alias" \in Kinds
      /\ "link" \in Kinds /\ "stateIP" \in Kinds /\ "setupIP" \in Kinds
  BY DEF Kinds
<1> QED BY <1>1, <1>2 DEF Fits, FitsInterface, FitsAddress

\* A list that fits is what the system would be without some of the changes
\* nothing is known of.
LEMMA FitsPresent ==
    ASSUME NEW l \in Tables, NEW s \in SUBSET Keys, NEW u, Fits(l, s, u)
    PROVE  \E ks \in SUBSET u : l = Present(Toggle(s, ks))
<1> DEFINE
      Says(i, kind) ==
        CASE kind \in {"adapter", "service"} -> TRUE
          [] kind = "link" -> l[i].isConnected
          [] kind = "alias" -> l[i].alias # "default"
          [] kind = "stateIP" -> l[i].ipAddressInfos = "state"
          [] OTHER -> \/ l[i].ipAddressInfos = "setup"
                      \/ l[i].ipAddressInfos = "state" /\ <<i, kind>> \in s
      Said == {k \in Keys : IF k[1] \in DOMAIN l THEN Says(k[1], k[2]) ELSE k \in s \ u}
      ks == {k \in Keys : ~(k \in s <=> k \in Said)}
<1>1. PICK S \in SUBSET Interfaces : l \in [S -> Interface]
  BY DEF Tables
<1>2. DOMAIN l = S
  BY <1>1
<1>3. \A i \in S : /\ l[i].isConnected \in BOOLEAN
                   /\ l[i].alias \in {"user defined", "default"}
                   /\ l[i].ipAddressInfos \in {"none", "state", "setup"}
  BY <1>1 DEF Interface
<1>4. Toggle(s, ks) = Said
  BY DEF Toggle
<1>5. ks \subseteq u
  <2> SUFFICES ASSUME NEW i \in Interfaces, NEW kind \in Kinds,
                      ~(<<i, kind>> \in s <=> <<i, kind>> \in Said)
               PROVE  <<i, kind>> \in u
      BY DEF Keys
  <2>1. CASE i \notin DOMAIN l
    BY <2>1, KeysOf
  <2>2. CASE i \in DOMAIN l
    <3>1. FitsInterface(l[i], i, s, u)
      BY <2>2 DEF Fits
    <3>2. <<i, kind>> \in Said <=> Says(i, kind)
      BY <2>2, KeysOf
    <3>3. ~(<<i, kind>> \in s <=> Says(i, kind))
      BY <3>2
    <3> HIDE DEF Said
    <3>4. CASE kind \in {"adapter", "service"}
      BY <3>1, <3>3, <3>4 DEF FitsInterface, MayHave
    <3>5. CASE kind = "link"
      <4>1. ~(<<i, "link">> \in s <=> l[i].isConnected)
        BY <3>3, <3>5
      <4>2. IF l[i].isConnected THEN <<i, "link">> \in s \cup u ELSE <<i, "link">> \notin s \ u
        BY <3>1 DEF FitsInterface, MayHave, MayLack
      <4> HIDE DEF Says
      <4>3. l[i].isConnected = TRUE \/ l[i].isConnected = FALSE
        BY <1>2, <1>3, <2>2
      <4> QED BY <3>5, <4>1, <4>2, <4>3
    <3>6. CASE kind = "alias"
      BY <3>1, <3>3, <3>6 DEF FitsInterface, MayHave, MayLack
    <3>7. CASE kind = "stateIP"
      BY <3>1, <3>3, <3>7 DEF FitsInterface, FitsAddress, MayHave, MayLack
    <3>8. CASE kind = "setupIP"
      <4>1. ~(<<i, "setupIP">> \in s <=>
                \/ l[i].ipAddressInfos = "setup"
                \/ l[i].ipAddressInfos = "state" /\ <<i, "setupIP">> \in s)
        BY <3>3, <3>8
      <4>2. /\ l[i].ipAddressInfos = "setup" => <<i, "setupIP">> \in s \cup u
            /\ l[i].ipAddressInfos = "none" => <<i, "setupIP">> \notin s \ u
        BY <3>1 DEF FitsInterface, FitsAddress, MayHave, MayLack
      <4> HIDE DEF Says
      <4>3. l[i].ipAddressInfos \in {"none", "state", "setup"}
        BY <1>2, <1>3, <2>2
      <4> QED BY <3>8, <4>1, <4>2, <4>3
    <3> QED BY <3>4, <3>5, <3>6, <3>7, <3>8 DEF Kinds
  <2> QED BY <2>1, <2>2
<1>6. l = Present(Said)
  <2>1. ASSUME NEW i \in Interfaces
        PROVE  i \in S <=> {<<i, "adapter">>, <<i, "service">>} \subseteq Said
    <3>1. <<i, "adapter">> \in Keys /\ <<i, "service">> \in Keys
      BY KeysOf DEF Kinds
    <3>2. CASE i \in S
      BY <1>2, <3>1, <3>2
    <3>3. CASE i \notin S
      BY <1>2, <3>3 DEF Fits, MayLack
    <3> QED BY <3>2, <3>3
  <2>2. ASSUME NEW i \in S
        PROVE  l[i] = [isConnected |-> <<i, "link">> \in Said,
                       alias |-> IF <<i, "alias">> \in Said THEN "user defined" ELSE "default",
                       ipAddressInfos |-> IF <<i, "stateIP">> \in Said THEN "state"
                                          ELSE IF <<i, "setupIP">> \in Said THEN "setup"
                                          ELSE "none"]
    <3>1. \A kind \in Kinds : <<i, kind>> \in Said <=> Says(i, kind)
      BY <1>2, KeysOf
    <3> HIDE DEF Said
    <3>2. /\ "link" \in Kinds /\ "alias" \in Kinds
          /\ "stateIP" \in Kinds /\ "setupIP" \in Kinds
      BY DEF Kinds
    <3>3. <<i, "link">> \in Said <=> l[i].isConnected
      BY <3>1, <3>2
    <3>4. <<i, "alias">> \in Said <=> l[i].alias # "default"
      BY <3>1, <3>2
    <3>5. <<i, "stateIP">> \in Said <=> l[i].ipAddressInfos = "state"
      BY <3>1, <3>2
    <3>6. <<i, "setupIP">> \in Said <=> 
             (\/ l[i].ipAddressInfos = "setup"
              \/ l[i].ipAddressInfos = "state" /\ <<i, "setupIP">> \in s)
      BY <3>1, <3>2
    <3>7. l[i] \in Interface
      BY <1>1
    <3> HIDE DEF Says
    <3>8. l[i].isConnected = (<<i, "link">> \in Said)
      <4>1. l[i].isConnected = TRUE \/ l[i].isConnected = FALSE
        BY <1>3
      <4> DEFINE b == <<i, "link">> \in Said
      <4>2. b <=> l[i].isConnected
        BY <3>3
      <4>3. b \in BOOLEAN
        OBVIOUS
      <4> HIDE DEF b
      <4>4. l[i].isConnected = b
        BY <4>1, <4>2, <4>3
      <4> QED BY <4>4 DEF b
    <3>9. l[i].alias = IF <<i, "alias">> \in Said THEN "user defined" ELSE "default"
      BY <1>3, <3>4
    <3>10. l[i].ipAddressInfos = IF <<i, "stateIP">> \in Said THEN "state"
                                 ELSE IF <<i, "setupIP">> \in Said THEN "setup" ELSE "none"
      BY <1>3, <3>5, <3>6
    <3> QED BY <3>7, <3>8, <3>9, <3>10, Zenon DEF Interface
  <2> HIDE DEF Said
  <2>3. S = {j \in Interfaces : {<<j, "adapter">>, <<j, "service">>} \subseteq Said}
    BY <2>1
  <2> QED BY <1>1, <2>2, <2>3 DEF Present
<1> QED BY <1>4, <1>5, <1>6

-----------------------------------------------------------------------------
(* What is still to be told, and who may change what it is told to. *)

\* Of the dynamic store, and of IOKit: its handler discards in the end what the
\* iterator it was called with has to tell.
OfStore == pending \cup changedKeys
Tells(e) == e \in iterators /\ ~(pc[IOKit] \in {"publish", "drain"} /\ e[1] = iterator)
OfIOKit == {<<e[2], "adapter">> : e \in {x \in iterators : Tells(x)}}
Doubts == Unknown(unseen \cup OfStore \cup OfIOKit)

\* The port is armed and the thread runs when there are observers, and neither
\* before the first one has got it made.
Armed ==
    /\ ~port => iterators = {}
    /\ port => observers # {} \/ \E t \in Registrars : pc[t] = "terminate"
    /\ pc[RunLoop] # "none" =>
         observers # {} \/ \E t \in Registrars : pc[t] \in {"terminate", "stop", "join"}
    /\ \A t \in Registrars :
          /\ pc[t] = "port" => ~port
          /\ pc[t] \in {"port", "store"} => pc[RunLoop] = "none" /\ observers # {}

\* The two callbacks exclude one another, changed keys are those of the store,
\* and are handled before the loop goes on.
Excluding ==
    /\ pc[RunLoop] \in Handling => pc[IOKit] \notin Handling
    /\ pc[RunLoop] \notin {"lock", "handle", "notify"} => changedKeys = {}
    /\ \A k \in pending \cup changedKeys : k[2] # "adapter"

LEMMA OrderInit == Init => Armed /\ Excluding
BY ClientsAssumption, TheThreads DEF Init, Armed, Excluding, Handling, Refreshing, Threads

LEMMA RefreshOrder ==
    ASSUME TypeOK, Places, Armed, Excluding, NEW t \in Threads, Refresh(t)
    PROVE  Armed' /\ Excluding'
<1> USE ClientsAssumption, TheThreads
    DEF Armed, Excluding, Handling, Refreshing, TypeOK, Goto, Threads,
        environment, common, refreshing, kit, dynamicStore, thread, history
<1>1. CASE ClearMapping(t)    BY <1>1 DEF ClearMapping
<1>2. CASE ListFails(t)       BY <1>2 DEF ListFails
<1>3. CASE ListServices(t)    BY <1>3 DEF ListServices
<1>4. CASE ReadInterfaces(t) \/ ReadFails(t)
  <2>1. PICK lost \in SUBSET found[t] : Read(t, lost)  BY <1>4, Reads
  <2> QED BY <2>1 DEF Read
<1>5. CASE Publish(t)
  <2>1. PICK to \in {"waiting", "drain", "enumerated"} :
          /\ pc' = [pc EXCEPT ![t] = to]
          /\ t = RunLoop => to = "waiting"
          /\ t = IOKit => to = "drain"
    BY <1>5 DEF Publish
  <2>2. /\ pc[t] = "publish"
        /\ UNCHANGED <<port, iterators, observers, changedKeys, pending>>
    BY <1>5 DEF Publish
  <2>3. CASE t = RunLoop  BY <2>1, <2>2, <2>3
  <2>4. CASE t # RunLoop  BY <2>1, <2>2, <2>4
  <2> QED BY <2>3, <2>4
<1> QED BY <1>1, <1>2, <1>3, <1>4, <1>5 DEF Refresh

LEMMA ClientOrder ==
    ASSUME TypeOK, Places, Armed, Excluding, NEW t \in Clients,
           Call(t) \/ (Proceed(t) /\ ~Refresh(t))
    PROVE  Armed' /\ Excluding'
<1> USE ClientsAssumption, RegistrarsAssumption, TheThreads
    DEF Armed, Excluding, Places, Looking, Registering, Handling, Refreshing, TypeOK,
        Goto, Threads, environment, common, refreshing, kit, dynamicStore, thread, history
<1>1. CASE CallLookup(t)  BY <1>1 DEF CallLookup, Start
<1>2. CASE t \in Registrars /\ CallRegisterObserver(t)
  BY <1>2 DEF CallRegisterObserver, Start
<1>3. CASE t \in Registrars /\ CallUnregisterObserver(t)
  BY <1>3 DEF CallUnregisterObserver
<1>4. CASE t \in Registrars /\ CallDestroy(t)  BY <1>4 DEF CallDestroy
<1>5. CASE Enumerated(t)         BY <1>5 DEF Enumerated
<1>6. CASE RegisterObserver(t)   BY <1>6 DEF RegisterObserver
<1>7. CASE ArmPort(t)            BY <1>7 DEF ArmPort
<1>8. CASE CreateStore(t)
  <2>1. /\ t \in Registrars /\ pc[t] = "store"
        /\ UNCHANGED <<port, iterators, observers, changedKeys, pending>>
    BY <1>8 DEF CreateStore
  <2>2. CASE pc' = [pc EXCEPT ![t] = "ready", ![RunLoop] = "started"]  BY <2>1, <2>2
  <2>3. CASE pc' = [pc EXCEPT ![t] = "idle"]  BY <2>1, <2>3
  <2> QED BY <1>8, <2>2, <2>3 DEF CreateStore
<1>9. CASE WaitReady(t)          BY <1>9 DEF WaitReady
<1>10. CASE UnregisterObserver(t) BY <1>10 DEF UnregisterObserver
<1>11. CASE ReleasePort(t)       BY <1>11 DEF ReleasePort
<1>12. CASE StopRunLoop(t)       BY <1>12 DEF StopRunLoop
<1>13. CASE Join(t)              BY <1>13 DEF Join
<1>14. CASE ReleaseStore(t)      BY <1>14 DEF ReleaseStore
<1> QED
  BY <1>1, <1>2, <1>3, <1>4, <1>5, <1>6, <1>7, <1>8, <1>9, <1>10, <1>11, <1>12,
     <1>13, <1>14 DEF Call, Proceed

LEMMA LoopOrder ==
    ASSUME TypeOK, Places, Armed, Excluding,
           (Loop /\ ~Refresh(RunLoop)) \/ (Handler /\ ~Refresh(IOKit))
    PROVE  Armed' /\ Excluding'
<1> USE ClientsAssumption, TheThreads
    DEF Armed, Excluding, Places, Handling, Refreshing, TypeOK, Goto, Threads,
        environment, common, refreshing, kit, dynamicStore, thread, history
<1>1. CASE LoopStarts            BY <1>1 DEF LoopStarts
<1>2. CASE LoopIsReady           BY <1>2 DEF LoopIsReady
<1>3. CASE LoopRuns              BY <1>3 DEF LoopRuns
<1>4. CASE LoopEnds              BY <1>4 DEF LoopEnds
<1>5. CASE StoreCalls            BY <1>5 DEF StoreCalls
<1>6. CASE LockNotification(RunLoop)
  BY <1>6 DEF LockNotification, NotificationLock
<1>7. CASE LockNotification(IOKit)
  BY <1>7 DEF LockNotification, NotificationLock
<1>8. CASE HandleByRefresh       BY <1>8 DEF HandleByRefresh
<1>9. CASE HandleKey             BY <1>9 DEF HandleKey
<1>10. CASE NotifyNews           BY <1>10 DEF NotifyNews
<1>11. CASE Handled              BY <1>11 DEF Handled
<1>12. CASE IOKitCalls           BY <1>12 DEF IOKitCalls
<1>13. CASE Drain                BY <1>13 DEF Drain
<1> QED
  BY <1>1, <1>2, <1>3, <1>4, <1>5, <1>6, <1>7, <1>8, <1>9, <1>10, <1>11, <1>12,
     <1>13 DEF Loop, Handler

LEMMA OrderStep ==
    TypeOK /\ Places /\ Armed /\ Excluding /\ [Next]_vars => Armed' /\ Excluding'
<1> SUFFICES ASSUME TypeOK, Places, Armed, Excluding, [Next]_vars
             PROVE  Armed' /\ Excluding'
    OBVIOUS
<1>1. CASE SystemChanges
  <2>1. PICK k \in Changing :
          /\ \/ /\ k[2] = "adapter" /\ UNCHANGED pending
                /\ iterators' = iterators \cup (IF port THEN {<<Arrival(k), k[1]>>} ELSE {})
             \/ /\ k[2] # "adapter" /\ UNCHANGED iterators
                /\ pending' = pending \cup (IF store THEN {k} ELSE {})
    BY <1>1 DEF SystemChanges
  <2>2. UNCHANGED <<pc, port, observers, changedKeys>>
    BY <1>1 DEF SystemChanges, common
  <2> QED BY <2>1, <2>2 DEF Armed, Excluding
<1>2. CASE Loop
  BY <1>2, LoopOrder, RefreshOrder DEF Threads
<1>3. CASE Handler
  BY <1>3, LoopOrder, RefreshOrder DEF Threads
<1>4. ASSUME NEW t \in Clients, Call(t) \/ Proceed(t) PROVE Armed' /\ Excluding'
  BY <1>4, ClientOrder, RefreshOrder DEF Threads
<1>5. CASE UNCHANGED vars
  BY <1>5 DEF vars, Armed, Excluding, common, refreshing, kit, dynamicStore, thread
<1> QED BY <1>1, <1>2, <1>3, <1>4, <1>5 DEF Next

-----------------------------------------------------------------------------
(* What is read fits, and what is published fits when all is told. *)

Services == {i \in Interfaces : <<i, "service">> \in system}

ListsFit ==
    /\ \A t \in Clients : pc[t] = "publish" => Fits(list[t], system, Unknown(unseen))
    /\ \A t \in {RunLoop, IOKit} : pc[t] = "publish" => Fits(list[t], system, Doubts)

NewsFits == pc[RunLoop] = "notify" => FitsNews(news, system, Doubts)

\* While somebody is about to publish the table need not fit.
TableFits ==
    \/ \E t \in Threads : pc[t] \in Refreshing
    \/ Fits(table, system,
            Doubts \cup IF pc[RunLoop] = "notify" THEN Subject(news) ELSE {})

\* A service that is not in the map is one that is about to be listed, or that
\* came since, or another thread took out of the map.
Mapped ==
    /\ \A i \in Services \ mapping :
          \/ \E u \in Threads : pc[u] = "list"
          \/ pc[RunLoop] = "clear"
          \/ <<i, "service">> \in unseen \cup OfStore
          \/ <<i, "setupIP">> \in unseen \cup OfStore
    /\ \A t \in Threads : pc[t] = "read" /\ t \notin torn => found[t] \subseteq mapping

\* The services listed are those there are, but for those that change after.
Found ==
    \A t \in Threads : pc[t] = "read" =>
        \A i \in Interfaces :
            \/ i \in found[t] <=> i \in Services
            \/ <<i, "service">> \in unseen \cup (IF t \in Clients THEN {} ELSE OfStore)

Consistent == ListsFit /\ NewsFits /\ TableFits /\ Mapped /\ Found

\* Steps that change nothing of this, but more may be to be told, and a thread
\* may begin to refresh.
Quiet ==
    /\ UNCHANGED <<system, table, list, found, mapping, torn, news>>
    /\ unseen \subseteq unseen'
    /\ unseen \cup OfStore \subseteq (unseen \cup OfStore)'
    /\ \A e \in iterators : Tells(e) => <<e[2], "adapter">> \in unseen' \/ Tells(e)'
    /\ \A t \in Threads :
          /\ pc[t] \in Refreshing \cup {"notify"} => pc'[t] = pc[t]
          /\ pc'[t] \in {"list", "read", "publish", "notify"} => pc'[t] = pc[t]

LEMMA DoubtsGrow ==
    ASSUME unseen \cup OfStore \subseteq (unseen \cup OfStore)',
           \A e \in iterators : Tells(e) => <<e[2], "adapter">> \in unseen' \/ Tells(e)'
    PROVE  Doubts \subseteq Doubts'
<1>1. OfIOKit \subseteq unseen' \cup OfIOKit'
  BY DEF OfIOKit, Tells
<1>2. unseen \cup OfStore \cup OfIOKit \subseteq (unseen \cup OfStore \cup OfIOKit)'
  BY <1>1
<1> QED BY <1>2, UnknownGrows DEF Doubts

LEMMA QuietStep ==
    ASSUME TypeOK, Telling, Consistent, Quiet
    PROVE  Consistent'
<1>1. Doubts \subseteq Doubts'
  BY DoubtsGrow DEF Quiet
<1>2. Unknown(unseen) \subseteq Unknown(unseen')
  BY UnknownGrows DEF Quiet
<1>3. ListsFit'
  <2>1. ASSUME NEW t \in Clients, pc'[t] = "publish"
        PROVE  Fits(list[t], system, Unknown(unseen'))
    <3>1. Fits(list[t], system, Unknown(unseen))
      BY <2>1 DEF Quiet, Consistent, ListsFit, Threads
    <3> QED BY <3>1, <1>2, WeakerMore, FitsWeaker
  <2>2. ASSUME NEW t \in {RunLoop, IOKit}, pc'[t] = "publish"
        PROVE  Fits(list[t], system, Doubts')
    <3>1. Fits(list[t], system, Doubts)
      BY <2>2 DEF Quiet, Consistent, ListsFit, Threads
    <3> QED BY <3>1, <1>1, WeakerMore, FitsWeaker
  <2> QED BY <2>1, <2>2 DEF ListsFit, Quiet
<1>4. NewsFits'
  <2> SUFFICES ASSUME pc'[RunLoop] = "notify" PROVE FitsNews(news, system, Doubts')
      BY DEF NewsFits, Quiet
  <2>1. pc[RunLoop] = "notify"
    BY TheThreads DEF Quiet
  <2>2. FitsNews(news, system, Doubts) /\ news \in News
    BY <2>1 DEF Telling, Consistent, NewsFits
  <2> QED BY <2>2, <1>1, WeakerMore, NewsWeaker
<1>5. TableFits'
  <2>1. CASE \E t \in Threads : pc[t] \in Refreshing
    BY <2>1 DEF Quiet, TableFits
  <2>2. CASE Fits(table, system,
                  Doubts \cup IF pc[RunLoop] = "notify" THEN Subject(news) ELSE {})
    <3> DEFINE u == Doubts \cup IF pc[RunLoop] = "notify" THEN Subject(news) ELSE {}
    <3>1. pc[RunLoop] = "notify" => pc'[RunLoop] = "notify"
      BY TheThreads DEF Quiet
    <3>2. UNCHANGED <<news, system, table>>
      BY DEF Quiet
    <3>3. u' = Doubts' \cup IF pc'[RunLoop] = "notify" THEN Subject(news) ELSE {}
      BY <3>2 DEF Subject
    <3>4. u \subseteq u'
      BY <3>1, <3>3, <1>1
    <3>5. Fits(table, system, u')
      <4> HIDE DEF u
      <4> QED BY <2>2, <3>4, WeakerMore, FitsWeaker DEF u
    <3> QED BY <3>2, <3>5 DEF TableFits
  <2> QED BY <2>1, <2>2 DEF Consistent, TableFits
<1>6. Mapped'
  BY TheThreads DEF Consistent, Mapped, Quiet, Services, Refreshing
<1>7. Found'
  <2>1. OfStore \subseteq unseen' \cup OfStore'
    BY DEF Quiet
  <2> QED BY <2>1 DEF Consistent, Found, Quiet, Services
<1> QED BY <1>3, <1>4, <1>5, <1>6, <1>7 DEF Consistent

LEMMA ClientQuiet ==
    ASSUME TypeOK, Places, Armed, NEW t \in Clients,
           Call(t) \/ (Proceed(t) /\ ~Refresh(t))
    PROVE  Quiet
<1> USE ClientsAssumption, TheThreads
    DEF Quiet, OfStore, Tells, Places, Looking, Registering, Refreshing, TypeOK,
        Goto, Threads, environment, common, refreshing, kit, dynamicStore, thread, history
<1>1. CASE CallLookup(t)  BY <1>1 DEF CallLookup, Start
<1>2. CASE t \in Registrars /\ CallRegisterObserver(t)
  BY <1>2 DEF CallRegisterObserver, Start
<1>3. CASE t \in Registrars /\ CallUnregisterObserver(t)
  BY <1>3 DEF CallUnregisterObserver
<1>4. CASE t \in Registrars /\ CallDestroy(t)  BY <1>4 DEF CallDestroy
<1>5. CASE Enumerated(t)         BY <1>5 DEF Enumerated
<1>6. CASE RegisterObserver(t)   BY <1>6 DEF RegisterObserver
<1>7. CASE ArmPort(t)            BY <1>7 DEF ArmPort, Armed
<1>8. CASE CreateStore(t)        BY <1>8 DEF CreateStore, Armed
<1>9. CASE WaitReady(t)          BY <1>9 DEF WaitReady
<1>10. CASE UnregisterObserver(t) BY <1>10 DEF UnregisterObserver
<1>11. CASE ReleasePort(t)       BY <1>11 DEF ReleasePort
<1>12. CASE StopRunLoop(t)       BY <1>12 DEF StopRunLoop
<1>13. CASE Join(t)              BY <1>13 DEF Join
<1>14. CASE ReleaseStore(t)      BY <1>14 DEF ReleaseStore
<1> QED
  BY <1>1, <1>2, <1>3, <1>4, <1>5, <1>6, <1>7, <1>8, <1>9, <1>10, <1>11, <1>12,
     <1>13, <1>14 DEF Call, Proceed

LEMMA LoopQuiet ==
    ASSUME TypeOK, Places, Excluding,
           \/ LoopStarts \/ LoopIsReady \/ LoopRuns \/ LoopEnds \/ StoreCalls
           \/ LockNotification(RunLoop) \/ LockNotification(IOKit) \/ Handled
           \/ IOKitCalls \/ Drain
    PROVE  Quiet
<1> USE ClientsAssumption, TheThreads
    DEF Quiet, OfStore, Tells, Places, Refreshing, TypeOK, Goto, Threads,
        environment, common, refreshing, kit, dynamicStore, thread, history
<1>1. CASE LoopStarts            BY <1>1 DEF LoopStarts
<1>2. CASE LoopIsReady           BY <1>2 DEF LoopIsReady
<1>3. CASE LoopRuns              BY <1>3 DEF LoopRuns
<1>4. CASE LoopEnds              BY <1>4 DEF LoopEnds
<1>5. CASE StoreCalls            BY <1>5 DEF StoreCalls, Excluding
<1>6. CASE LockNotification(RunLoop)  BY <1>6 DEF LockNotification
<1>7. CASE LockNotification(IOKit)    BY <1>7 DEF LockNotification
<1>8. CASE Handled               BY <1>8 DEF Handled
<1>9. CASE IOKitCalls            BY <1>9 DEF IOKitCalls
<1>10. CASE Drain                BY <1>10 DEF Drain
<1> QED BY <1>1, <1>2, <1>3, <1>4, <1>5, <1>6, <1>7, <1>8, <1>9, <1>10

\* A change is noted where it will be told from, or is one that is not known of.
LEMMA ChangeStep ==
    ASSUME TypeOK, Telling, Nested, Consistent, SystemChanges
    PROVE  Consistent'
<1> USE TheThreads
<1>1. PICK k \in Changing :
        /\ system' = Toggle(system, {k})
        /\ \/ /\ k[2] = "adapter" /\ UNCHANGED pending
              /\ iterators' = iterators \cup (IF port THEN {<<Arrival(k), k[1]>>} ELSE {})
           \/ /\ k[2] # "adapter" /\ UNCHANGED iterators
              /\ pending' = pending \cup (IF store THEN {k} ELSE {})
        /\ unseen' = unseen \cup (IF Overlooked(k) THEN {k} ELSE {})
  BY DEF SystemChanges
<1>2. UNCHANGED <<table, list, found, mapping, torn, news, pc, iterator, changedKeys>>
  BY DEF SystemChanges, common, refreshing
<1>3. k \in Keys /\ k = <<k[1], k[2]>>
  BY SystemsAssumption DEF Keys
<1>4. /\ unseen \subseteq unseen'
      /\ unseen \cup OfStore \subseteq (unseen \cup OfStore)'
  BY <1>1, <1>2 DEF OfStore
<1>5. Doubts \subseteq Doubts'
  <2>1. \A e \in iterators : Tells(e) => Tells(e)'
    BY <1>1, <1>2 DEF Tells
  <2> QED BY <2>1, <1>4, DoubtsGrow
<1>6. k[2] # "adapter" => k \in (unseen \cup OfStore)'
  BY <1>1 DEF OfStore, Overlooked
<1>7. k \in Doubts'
  <2>1. CASE k[2] # "adapter"
    BY <2>1, <1>6, UnknownGrows DEF Doubts
  <2>2. CASE k[2] = "adapter" /\ Overlooked(k)
    BY <2>2, <1>1, UnknownGrows DEF Doubts
  <2>3. CASE k[2] = "adapter" /\ ~Overlooked(k)
    <3>0. PICK e : e = <<Arrival(k), k[1]>>
      OBVIOUS
    <3>1. e \in iterators'
      BY <2>3, <1>1, <3>0 DEF Overlooked
    <3>2. ~(pc[IOKit] \in {"publish", "drain"} /\ iterator = Arrival(k))
      BY <2>3 DEF Overlooked
    <3>3. e[1] = Arrival(k) /\ <<e[2], "adapter">> = k
      BY <1>3, <2>3, <3>0
    <3>4. Tells(e)'
      BY <1>2, <3>1, <3>2, <3>3 DEF Tells
    <3>5. k \in OfIOKit'
      BY <3>3, <3>4 DEF OfIOKit, Tells
    <3> QED BY <3>5, UnknownGrows DEF Doubts
  <2> QED BY <2>1, <2>2, <2>3
<1>8. ASSUME NEW l, NEW u, NEW u2, Fits(l, system, u), u \subseteq u2, k \in u2
      PROVE  Fits(l, system', u2)
  BY <1>1, <1>8, WeakerChange, FitsWeaker
<1>9. ListsFit'
  <2>1. ASSUME NEW t \in Clients, pc'[t] = "publish"
        PROVE  Fits(list'[t], system', Unknown(unseen'))
    <3>1. Fits(list[t], system, Unknown(unseen))
      BY <2>1, <1>2 DEF Consistent, ListsFit
    <3>2. k \in unseen'
      BY <2>1, <1>1, <1>2 DEF Overlooked
    <3>3. Unknown(unseen) \subseteq Unknown(unseen') /\ k \in Unknown(unseen')
      BY <3>2, <1>4, UnknownGrows
    <3> QED BY <3>1, <3>3, <1>2, <1>8
  <2>2. ASSUME NEW t \in {RunLoop, IOKit}, pc'[t] = "publish"
        PROVE  Fits(list'[t], system', Doubts')
    BY <2>2, <1>2, <1>5, <1>7, <1>8 DEF Consistent, ListsFit
  <2> QED BY <2>1, <2>2 DEF ListsFit
<1>10. NewsFits'
  <2> SUFFICES ASSUME pc'[RunLoop] = "notify" PROVE FitsNews(news', system', Doubts')
      BY DEF NewsFits
  <2>1. FitsNews(news, system, Doubts) /\ news \in News
    BY <1>2 DEF Telling, Consistent, NewsFits
  <2> QED BY <2>1, <1>1, <1>2, <1>5, <1>7, WeakerChange, NewsWeaker
<1>11. TableFits'
  <2>1. CASE \E t \in Threads : pc[t] \in Refreshing
    BY <2>1, <1>2 DEF TableFits
  <2>2. CASE Fits(table, system,
                  Doubts \cup IF pc[RunLoop] = "notify" THEN Subject(news) ELSE {})
    <3> DEFINE n == IF pc[RunLoop] = "notify" THEN Subject(news) ELSE {}
    <3>1. (Doubts \cup n)' = Doubts' \cup n
      BY <1>2 DEF Subject
    <3> HIDE DEF n
    <3>2. Doubts \cup n \subseteq Doubts' \cup n /\ k \in Doubts' \cup n
      BY <1>5, <1>7
    <3>3. Fits(table, system, Doubts \cup n)
      BY <2>2 DEF n
    <3>4. Fits(table', system', (Doubts \cup n)')
      BY <3>1, <3>2, <3>3, <1>2, <1>8
    <3> QED BY <3>4 DEF TableFits, n
  <2> QED BY <2>1, <2>2 DEF Consistent, TableFits
<1>12. ASSUME NEW i \in Interfaces, k # <<i, "service">>
       PROVE  i \in Services' <=> i \in Services
  BY <1>1, <1>12 DEF Services, Toggle
<1>13. Mapped'
  <2>1. ASSUME NEW i \in Services' \ mapping'
        PROVE  \/ \E u \in Threads : pc'[u] = "list"
               \/ pc'[RunLoop] = "clear"
               \/ <<i, "service">> \in (unseen \cup OfStore)'
               \/ <<i, "setupIP">> \in (unseen \cup OfStore)'
    <3>1. CASE k = <<i, "service">>
      BY <3>1, <1>6
    <3>2. CASE k # <<i, "service">>
      <4>1. i \in Services \ mapping
        BY <3>2, <1>2, <1>12 DEF Services
      <4> QED BY <4>1, <1>2, <1>4 DEF Consistent, Mapped
    <3> QED BY <3>1, <3>2
  <2>2. \A t \in Threads : pc'[t] = "read" /\ t \notin torn' => found'[t] \subseteq mapping'
    BY <1>2 DEF Consistent, Mapped
  <2> QED BY <2>1, <2>2 DEF Mapped
<1>14. Found'
  <2> SUFFICES ASSUME NEW t \in Threads, pc'[t] = "read", NEW i \in Interfaces
               PROVE  \/ i \in found'[t] <=> i \in Services'
                      \/ <<i, "service">> \in unseen' \cup (IF t \in Clients THEN {} ELSE OfStore')
      BY DEF Found
  <2>1. CASE k = <<i, "service">>
    <3>1. t \in Clients => k \in unseen'
      BY <2>1, <1>1, <1>2 DEF Overlooked
    <3> QED BY <2>1, <3>1, <1>6
  <2>2. CASE k # <<i, "service">>
    <3>1. \/ i \in found[t] <=> i \in Services
          \/ <<i, "service">> \in unseen \cup (IF t \in Clients THEN {} ELSE OfStore)
      BY <1>2 DEF Consistent, Found
    <3> QED BY <2>2, <3>1, <1>2, <1>4, <1>12
  <2> QED BY <2>1, <2>2
<1> QED BY <1>9, <1>10, <1>11, <1>13, <1>14 DEF Consistent

\* The keys need not be handled when all is listed again.
LEMMA HandleByRefreshStep ==
    ASSUME TypeOK, Places, Excluding, Consistent, HandleByRefresh
    PROVE  Consistent'
<1> USE TheThreads
<1>1. /\ pc' = [pc EXCEPT ![RunLoop] = "clear"] /\ pc[RunLoop] = "handle"
      /\ UNCHANGED <<system, table, list, found, mapping, torn, unseen>>
  BY DEF HandleByRefresh, Goto, environment, common, refreshing, history
<1>2. pc'[RunLoop] = "clear" /\ \A t \in Threads \ {RunLoop} : pc'[t] = pc[t]
  BY <1>1 DEF TypeOK
<1>3. pc[IOKit] \notin Handling
  BY <1>1 DEF Excluding, Handling
<1>4. Unknown(unseen)' = Unknown(unseen)
  BY <1>1 DEF Unknown
<1>5. ListsFit'
  BY <1>1, <1>2, <1>3, <1>4 DEF Consistent, ListsFit, Threads, Handling, Refreshing
<1>6. NewsFits' /\ TableFits' /\ Mapped'
  <2>1. \A t \in Threads : pc'[t] = "read" => pc[t] = "read"
    BY <1>2
  <2> QED BY <1>1, <1>2, <2>1 DEF Consistent, NewsFits, TableFits, Mapped, Refreshing
<1>7. Found'
  <2>1. ASSUME NEW t \in Threads, pc'[t] = "read" PROVE t \in Clients /\ pc[t] = "read"
    BY <2>1, <1>2, <1>3 DEF Threads, Handling, Refreshing
  <2> QED BY <2>1, <1>1 DEF Consistent, Found, Services
<1> QED BY <1>5, <1>6, <1>7 DEF Consistent

\* What is read is true, and of the key that was handled the table may be wrong
\* until it is told.
LEMMA HandleKeyStep ==
    ASSUME TypeOK, Places, Excluding, Consistent, HandleKey
    PROVE  Consistent'
<1> USE TheThreads
<1>1. PICK k \in changedKeys :
        /\ ~NeedsFullRefresh(k)
        /\ changedKeys' = changedKeys \ {k}
        /\ news' = CASE k[2] = "link" -> <<k[1], "isConnected", IsInterfaceConnected(k[1])>>
                     [] k[2] = "alias" -> <<k[1], "alias", Alias(k[1])>>
                     [] OTHER -> <<k[1], "ipAddressInfos", GetIPAddressInfo(k[1], mapping)>>
        /\ unseen' = unseen \cup (IF Rebuilding(RunLoop) /\ k[1] \notin mapping
                                  THEN {<<k[1], "setupIP">>} ELSE {})
  BY DEF HandleKey
<1>2. /\ pc' = [pc EXCEPT ![RunLoop] = "notify"] /\ pc[RunLoop] = "handle"
      /\ UNCHANGED <<system, table, list, found, mapping, torn, pending, iterators, iterator>>
  BY DEF HandleKey, Goto, environment, common, refreshing, kit, history
<1>3. /\ pc'[RunLoop] = "notify" /\ \A t \in Threads \ {RunLoop} : pc'[t] = pc[t]
      /\ \A t \in Threads : pc'[t] \in {"list", "read", "publish"} => pc'[t] = pc[t]
      /\ \A t \in Threads : pc[t] \in {"list", "read", "publish", "clear"} => pc'[t] = pc[t]
  BY <1>2 DEF TypeOK
<1>4. pc[IOKit] \notin Handling
  BY <1>2 DEF Excluding, Handling
<1>5. k \in Keys /\ k = <<k[1], k[2]>> /\ k[1] \in Interfaces
  BY DEF TypeOK, Keys
<1>6. k[2] \in {"alias", "link", "stateIP", "setupIP"}
  <2>1. k[2] \in Kinds /\ k[2] # "adapter"
    BY <1>5 DEF Keys, Excluding
  <2>2. k[2] # "service"
    BY <1>1 DEF NeedsFullRefresh
  <2> QED BY <2>1, <2>2 DEF Kinds
<1>7. news' \in News /\ news'[1] = k[1]
  BY <1>1, <1>5, NewsType
<1>8. k \in Subject(news')
  BY <1>1, <1>5, <1>6 DEF Subject
<1>9. unseen \subseteq unseen'
  BY <1>1
<1>10. \A x \in unseen \cup OfStore : x # k => x \in (unseen \cup OfStore)'
  BY <1>1, <1>2 DEF OfStore
<1>11. OfIOKit' = OfIOKit
  <2>1. \A e \in iterators : Tells(e)' <=> Tells(e)
    BY <1>2, <1>3 DEF Tells, Threads
  <2> QED BY <2>1, <1>2 DEF OfIOKit
<1>12. Doubts \subseteq Doubts' \cup {k}
  <2> DEFINE v == unseen \cup OfStore \cup OfIOKit
  <2>1. v \subseteq v' \cup {k}
    BY <1>10, <1>11
  <2> HIDE DEF v
  <2>2. Unknown(v) \subseteq Unknown(v') \cup {k}
    BY <2>1, <1>6 DEF Unknown
  <2> QED BY <2>2 DEF Doubts, v
\* A service that is not in the map has nothing known of its setup.
<1>13. ASSUME NEW i \in Services \ mapping, i = k[1]
       PROVE  \/ <<i, "service">> \in (unseen \cup OfStore)'
              \/ <<i, "setupIP">> \in (unseen \cup OfStore)'
  <2>1. <<i, "setupIP">> # k /\ <<i, "service">> # k
    BY <1>1, <1>13 DEF NeedsFullRefresh
  <2>2. CASE \E u \in Threads : pc[u] = "list"
    <3>1. Rebuilding(RunLoop)
      BY <2>2, <1>2 DEF Rebuilding
    <3> QED BY <3>1, <1>1, <1>13
  <2>3. CASE <<i, "service">> \in unseen \cup OfStore \/ <<i, "setupIP">> \in unseen \cup OfStore
    BY <2>1, <2>3, <1>10
  <2> QED BY <2>2, <2>3, <1>2 DEF Consistent, Mapped, Services
<1>14. ListsFit'
  <2>1. ASSUME NEW t \in Clients, pc'[t] = "publish"
        PROVE  Fits(list[t], system, Unknown(unseen'))
    <3>1. Fits(list[t], system, Unknown(unseen))
      BY <2>1, <1>3 DEF Consistent, ListsFit, Threads
    <3> QED BY <3>1, <1>9, UnknownGrows, WeakerMore, FitsWeaker
  <2>2. \A t \in {RunLoop, IOKit} : pc'[t] # "publish"
    BY <1>3, <1>4 DEF Threads, Handling, Refreshing
  <2> QED BY <2>1, <2>2, <1>2 DEF ListsFit
<1>15. NewsFits'
  <2> DEFINE i == k[1]
  <2>1. GetIPAddressInfo(i, mapping) = "none" =>
          \/ <<i, "setupIP">> \notin system
          \/ <<i, "setupIP">> \in Doubts'
          \/ <<i, "service">> \notin system
    <3> SUFFICES ASSUME GetIPAddressInfo(i, mapping) = "none",
                        <<i, "setupIP">> \in system, <<i, "service">> \in system
                 PROVE  <<i, "setupIP">> \in Doubts'
        OBVIOUS
    <3>1. i \notin mapping
      BY DEF GetIPAddressInfo
    <3>2. i \in Services \ mapping
      BY <3>1, <1>5 DEF Services
    <3> DEFINE v == unseen \cup OfStore \cup OfIOKit
    <3>3. <<i, "service">> \in v' \/ <<i, "setupIP">> \in v'
      BY <3>2, <1>13
    <3> HIDE DEF v
    <3>4. <<i, "setupIP">> \in Unknown(v')
      BY <3>3 DEF Unknown
    <3> QED BY <3>4 DEF Doubts, v
  <2>2. CASE k[2] = "link"
    <3>1. news' = <<i, "isConnected", <<i, "link">> \in system>>
      BY <2>2, <1>1 DEF IsInterfaceConnected
    <3>2. news'[3] <=> <<i, "link">> \in system
      BY <3>1
    <3> QED BY <3>1, <3>2, <1>2 DEF FitsNews, NewsFits, MayHave, MayLack
  <2>3. CASE k[2] = "alias"
    <3>1. news' = <<i, "alias", Alias(i)>>
      BY <2>3, <1>1
    <3>2. Alias(i) = "default" <=> <<i, "alias">> \notin system
      BY DEF Alias
    <3> QED BY <3>1, <3>2, <1>2 DEF FitsNews, NewsFits, MayHave, MayLack
  <2>4. CASE k[2] \in {"stateIP", "setupIP"}
    <3>1. news' = <<i, "ipAddressInfos", GetIPAddressInfo(i, mapping)>>
      BY <2>4, <1>1
    <3>2. /\ GetIPAddressInfo(i, mapping) = "state" => <<i, "stateIP">> \in system
          /\ GetIPAddressInfo(i, mapping) # "state" => <<i, "stateIP">> \notin system
          /\ GetIPAddressInfo(i, mapping) = "setup" => <<i, "setupIP">> \in system
      BY DEF GetIPAddressInfo
    <3> QED BY <2>1, <3>1, <3>2, <1>2
            DEF FitsNews, NewsFits, FitsAddress, MayHave, MayLack
  <2> QED BY <2>2, <2>3, <2>4, <1>6, <1>2
<1>16. TableFits'
  <2>1. CASE \E t \in Threads : pc[t] \in Refreshing
    BY <2>1, <1>3 DEF TableFits, Refreshing
  <2>2. CASE Fits(table, system, Doubts \cup {})
    <3>1. Doubts \subseteq Doubts' \cup Subject(news')
      BY <1>8, <1>12
    <3>2. Fits(table, system, Doubts' \cup Subject(news'))
      BY <2>2, <3>1, WeakerMore, FitsWeaker
    <3> QED BY <3>2, <1>2, <1>3 DEF TableFits
  <2> QED BY <2>1, <2>2, <1>2 DEF Consistent, TableFits
<1>17. Mapped'
  <2>1. ASSUME NEW i \in Services \ mapping
        PROVE  \/ \E u \in Threads : pc'[u] = "list"
               \/ <<i, "service">> \in (unseen \cup OfStore)'
               \/ <<i, "setupIP">> \in (unseen \cup OfStore)'
    <3>1. CASE i = k[1]
      BY <3>1, <1>13
    <3>2. CASE i # k[1]
      BY <3>2, <1>2, <1>3, <1>10 DEF Consistent, Mapped
    <3> QED BY <3>1, <3>2
  <2>2. \A t \in Threads : pc'[t] = "read" /\ t \notin torn' => found'[t] \subseteq mapping'
    BY <1>2, <1>3 DEF Consistent, Mapped
  <2> QED BY <2>1, <2>2, <1>2 DEF Mapped, Services
<1>18. Found'
  <2>1. ASSUME NEW t \in Threads, pc'[t] = "read" PROVE t \in Clients /\ pc[t] = "read"
    BY <2>1, <1>3, <1>4 DEF Threads, Handling, Refreshing
  <2> QED BY <2>1, <1>2, <1>9 DEF Consistent, Found, Services
<1> QED BY <1>14, <1>15, <1>16, <1>17, <1>18 DEF Consistent

\* What is told of an interface replaces what may be wrong of it.
LEMMA FitsTold ==
    ASSUME NEW l \in Tables, NEW n \in News, NEW s, NEW v,
           FitsNews(n, s, Unknown(v)), Fits(l, s, Unknown(v) \cup Subject(n))
    PROVE  Fits(IF n[1] \notin DOMAIN l THEN l ELSE [l EXCEPT ![n[1]][n[2]] = n[3]],
                s, Unknown(v))
<1> DEFINE told == IF n[1] \notin DOMAIN l THEN l ELSE [l EXCEPT ![n[1]][n[2]] = n[3]]
           u == Unknown(v)
           w == u \cup Subject(n)
<1>1. PICK S \in SUBSET Interfaces : l \in [S -> Interface]
  BY DEF Tables
<1>2. DOMAIN l = S /\ DOMAIN told = S
  BY <1>1
<1>3. \A i \in S : i # n[1] => told[i] = l[i]
  BY <1>1
<1>4. n[1] \in S => l[n[1]] \in Interface /\ told[n[1]] = [l[n[1]] EXCEPT ![n[2]] = n[3]]
  BY <1>1
<1>5. n \in (Interfaces \X {"isConnected"} \X BOOLEAN)
        \/ n \in (Interfaces \X {"alias"} \X {"user defined", "default"})
        \/ n \in (Interfaces \X {"ipAddressInfos"} \X {"none", "state", "setup"})
  BY DEF News
<1> HIDE DEF told
<1>6. ASSUME NEW i \in Interfaces, NEW kind, <<i, kind>> \notin Subject(n)
      PROVE  /\ MayHave(i, kind, s, w) <=> MayHave(i, kind, s, u)
             /\ MayLack(i, kind, s, w) <=> MayLack(i, kind, s, u)
  BY <1>6 DEF MayHave, MayLack
<1>7. \A i \in Interfaces : <<i, "adapter">> \notin Subject(n) /\ <<i, "service">> \notin Subject(n)
  BY <1>5 DEF Subject
<1>8. ASSUME NEW i \in Interfaces, i \notin S
      PROVE  MayLack(i, "adapter", s, u) \/ MayLack(i, "service", s, u)
  BY <1>2, <1>6, <1>7, <1>8 DEF Fits
<1>9. ASSUME NEW i \in S, i # n[1]
      PROVE  FitsInterface(told[i], i, s, u)
  <2>1. FitsInterface(l[i], i, s, w)
    BY <1>2 DEF Fits
  <2>2. \A kind : <<i, kind>> \notin Subject(n)
    BY <1>9 DEF Subject
  <2> HIDE DEF u, w
  <2>3. \A kind : /\ MayHave(i, kind, s, w) <=> MayHave(i, kind, s, u)
                  /\ MayLack(i, kind, s, w) <=> MayLack(i, kind, s, u)
    BY <1>6, <2>2
  <2>4. FitsAddress(l[i].ipAddressInfos, i, s, u)
    BY <2>1, <2>3 DEF FitsInterface, FitsAddress
  <2> QED BY <2>1, <2>3, <2>4, <1>3, <1>9 DEF FitsInterface
<1>10. ASSUME NEW i \in S, i = n[1]
       PROVE  FitsInterface(told[i], i, s, u)
  <2>1. FitsInterface(l[i], i, s, w) /\ FitsNews(n, s, u)
    BY <1>2 DEF Fits
  <2>2. l[i] \in Interface /\ told[i] = [l[i] EXCEPT ![n[2]] = n[3]]
    BY <1>4, <1>10
  <2>3. <<i, "service">> \in u => <<i, "setupIP">> \in u
    BY DEF Unknown
  <2> HIDE DEF u, w
  <2>4. MayHave(i, "adapter", s, u) /\ MayHave(i, "service", s, u)
    BY <2>1, <1>6, <1>7 DEF FitsInterface
  <2>5. CASE n[2] = "isConnected"
    <3>1. /\ told[i].isConnected = n[3] /\ told[i].alias = l[i].alias
          /\ told[i].ipAddressInfos = l[i].ipAddressInfos
      BY <2>2, <2>5 DEF Interface
    <3>2. \A kind : kind # "link" => <<i, kind>> \notin Subject(n)
      BY <2>5 DEF Subject
    <3>3. IF n[3] THEN MayHave(i, "link", s, u) ELSE MayLack(i, "link", s, u)
      BY <2>1, <2>5, <1>10 DEF FitsNews
    <3>4. FitsAddress(l[i].ipAddressInfos, i, s, u)
      BY <2>1, <3>2, <1>6 DEF FitsInterface, FitsAddress
    <3>5. IF l[i].alias = "default" THEN MayLack(i, "alias", s, u) ELSE MayHave(i, "alias", s, u)
      BY <2>1, <3>2, <1>6 DEF FitsInterface
    <3> QED BY <2>4, <3>1, <3>3, <3>4, <3>5 DEF FitsInterface
  <2>6. CASE n[2] = "alias"
    <3>1. /\ told[i].isConnected = l[i].isConnected /\ told[i].alias = n[3]
          /\ told[i].ipAddressInfos = l[i].ipAddressInfos
      BY <2>2, <2>6 DEF Interface
    <3>2. \A kind : kind # "alias" => <<i, kind>> \notin Subject(n)
      BY <2>6 DEF Subject
    <3>3. IF n[3] = "default" THEN MayLack(i, "alias", s, u) ELSE MayHave(i, "alias", s, u)
      BY <2>1, <2>6, <1>10 DEF FitsNews
    <3>4. FitsAddress(l[i].ipAddressInfos, i, s, u)
      BY <2>1, <3>2, <1>6 DEF FitsInterface, FitsAddress
    <3>5. IF l[i].isConnected THEN MayHave(i, "link", s, u) ELSE MayLack(i, "link", s, u)
      BY <2>1, <3>2, <1>6 DEF FitsInterface
    <3> QED BY <2>4, <3>1, <3>3, <3>4, <3>5 DEF FitsInterface
  <2>7. CASE n[2] = "ipAddressInfos"
    <3>1. /\ told[i].isConnected = l[i].isConnected /\ told[i].alias = l[i].alias
          /\ told[i].ipAddressInfos = n[3]
      BY <2>2, <2>7 DEF Interface
    <3>2. <<i, "link">> \notin Subject(n) /\ <<i, "alias">> \notin Subject(n)
      BY <2>7 DEF Subject
    \* Nothing is known of the setup of a service that may and may not be there.
    <3>3. FitsAddress(n[3], i, s, u)
      <4>1. CASE n[3] = "none" /\ MayLack(i, "stateIP", s, u) /\ MayLack(i, "service", s, u)
        <5>1. <<i, "service">> \in u
          BY <2>4, <4>1 DEF MayHave, MayLack
        <5>2. MayLack(i, "setupIP", s, u)
          BY <5>1, <2>3 DEF MayLack
        <5> QED BY <4>1, <5>2 DEF FitsAddress
      <4> QED BY <2>1, <2>7, <4>1, <1>10 DEF FitsNews
    <3>4. IF l[i].isConnected THEN MayHave(i, "link", s, u) ELSE MayLack(i, "link", s, u)
      BY <2>1, <3>2, <1>6 DEF FitsInterface
    <3>5. IF l[i].alias = "default" THEN MayLack(i, "alias", s, u) ELSE MayHave(i, "alias", s, u)
      BY <2>1, <3>2, <1>6 DEF FitsInterface
    <3> QED BY <2>4, <3>1, <3>3, <3>4, <3>5 DEF FitsInterface
  <2> QED BY <2>5, <2>6, <2>7, <1>5
<1> QED BY <1>2, <1>8, <1>9, <1>10 DEF Fits, told

LEMMA NotifyNewsStep ==
    ASSUME TypeOK, Telling, Consistent, NotifyNews
    PROVE  Consistent'
<1> USE TheThreads
<1>1. /\ table' = IF news[1] \notin DOMAIN table THEN table
                  ELSE [table EXCEPT ![news[1]][news[2]] = news[3]]
      /\ pc' = [pc EXCEPT ![RunLoop] = "handle"] /\ pc[RunLoop] = "notify"
      /\ UNCHANGED <<system, list, found, mapping, torn, pending, changedKeys,
                     iterators, iterator, unseen>>
  BY DEF NotifyNews, Goto, environment, refreshing, kit, history
<1>2. /\ pc'[RunLoop] = "handle" /\ \A t \in Threads \ {RunLoop} : pc'[t] = pc[t]
      /\ \A t \in Threads : pc'[t] \in Refreshing <=> pc[t] \in Refreshing
      /\ \A t \in Threads : pc[t] \in Refreshing => pc'[t] = pc[t]
  BY <1>1 DEF TypeOK, Refreshing
<1>3. Doubts' = Doubts /\ OfStore' = OfStore /\ Services' = Services
  <2>1. pc'[IOKit] = pc[IOKit]
    BY <1>2
  <2>2. OfIOKit' = OfIOKit
    BY <2>1, <1>1 DEF OfIOKit, Tells
  <2> QED BY <2>2, <1>1 DEF Doubts, Unknown, OfStore, Services
<1>4. ListsFit'
  BY <1>1, <1>2, <1>3 DEF Consistent, ListsFit, Unknown, Refreshing, Threads
<1>5. NewsFits'
  BY <1>2 DEF NewsFits
<1>6. TableFits'
  <2>1. CASE \E t \in Threads : pc[t] \in Refreshing
    BY <2>1, <1>2 DEF TableFits
  <2>2. CASE Fits(table, system, Doubts \cup Subject(news))
    <3>1. FitsNews(news, system, Doubts) /\ news \in News /\ table \in Tables
      BY <1>1 DEF Telling, Consistent, NewsFits, TypeOK
    <3>2. Fits(table', system, Doubts)
      BY <2>2, <3>1, <1>1, FitsTold DEF Doubts
    <3>3. Doubts \cup {} = Doubts
      OBVIOUS
    <3> QED BY <3>2, <3>3, <1>1, <1>2, <1>3 DEF TableFits
  <2> QED BY <2>1, <2>2, <1>1 DEF Consistent, TableFits
<1>7. Mapped'
  <2>1. \A t \in Threads : pc'[t] \in {"list", "read"} <=> pc[t] \in {"list", "read"}
    BY <1>1, <1>2
  <2> QED BY <2>1, <1>1, <1>2, <1>3 DEF Consistent, Mapped, Refreshing
<1>8. Found'
  BY <1>1, <1>2, <1>3 DEF Consistent, Found, Refreshing
<1> QED BY <1>4, <1>5, <1>6, <1>7, <1>8 DEF Consistent

LEMMA ClearMappingStep ==
    ASSUME TypeOK, Consistent, NEW t \in Threads, ClearMapping(t)
    PROVE  Consistent'
<1> USE TheThreads
<1>1. /\ pc' = [pc EXCEPT ![t] = "list"] /\ pc[t] = "clear"
      /\ mapping' = {}
      /\ torn' = (torn \cup {u \in Threads : pc[u] = "read"}) \ {t}
      /\ UNCHANGED <<system, table, list, found, news, pending, changedKeys,
                     iterators, iterator, unseen>>
  BY DEF ClearMapping, Goto, environment, common, kit, dynamicStore
<1>2. pc'[t] = "list" /\ \A u \in Threads \ {t} : pc'[u] = pc[u]
  BY <1>1 DEF TypeOK
<1>3. Doubts' = Doubts /\ OfStore' = OfStore /\ Services' = Services
  <2>1. pc'[IOKit] \in {"publish", "drain"} <=> pc[IOKit] \in {"publish", "drain"}
    BY <1>1, <1>2
  <2>2. OfIOKit' = OfIOKit
    BY <2>1, <1>1 DEF OfIOKit, Tells
  <2> QED BY <2>2, <1>1 DEF Doubts, Unknown, OfStore, Services
<1>4. \A u \in Threads : pc'[u] \in {"read", "publish", "notify"} => pc'[u] = pc[u]
  BY <1>2
<1>5. ListsFit' /\ NewsFits'
  BY <1>1, <1>3, <1>4 DEF Consistent, ListsFit, NewsFits, Unknown, Threads
<1>6. TableFits'
  BY <1>2 DEF TableFits, Refreshing
<1>7. Mapped'
  <2>1. ASSUME NEW u \in Threads, pc'[u] = "read" PROVE u \in torn'
    BY <2>1, <1>1, <1>2
  <2> QED BY <2>1, <1>2 DEF Mapped
<1>8. Found'
  BY <1>1, <1>3, <1>4 DEF Consistent, Found
<1> QED BY <1>5, <1>6, <1>7, <1>8 DEF Consistent

LEMMA ListFailsStep ==
    ASSUME TypeOK, Telling, Consistent, NEW t \in Threads, ListFails(t)
    PROVE  Consistent'
<1> USE TheThreads
<1>1. /\ pc' = [pc EXCEPT ![t] = "publish"] /\ pc[t] = "list"
      /\ unseen' = Keys
      /\ UNCHANGED <<system, found, mapping, torn, news>>
  BY DEF ListFails, Goto, dynamicStore
<1>2. pc'[t] = "publish" /\ \A u \in Threads \ {t} : pc'[u] = pc[u]
  BY <1>1 DEF TypeOK
<1>3. Keys \subseteq Unknown(unseen') /\ Keys \subseteq Doubts'
  BY <1>1, UnknownGrows DEF Doubts
<1>4. ListsFit'
  BY <1>1, <1>3, FitsAll DEF ListsFit, TypeOK
<1>5. NewsFits'
  <2> SUFFICES ASSUME pc'[RunLoop] = "notify" PROVE FitsNews(news, system, Doubts')
      BY <1>1 DEF NewsFits
  <2>1. FitsNews(news, system, Doubts) /\ news \in News
    BY <1>2 DEF Telling, Consistent, NewsFits
  <2>2. Weaker(system, Doubts, system, Doubts')
    BY <1>3 DEF Weaker
  <2> QED BY <2>1, <2>2, NewsWeaker
<1>6. TableFits'
  BY <1>2 DEF TableFits, Refreshing
<1>7. \A i \in Interfaces : <<i, "service">> \in unseen'
  BY <1>1 DEF Keys, Kinds
<1>8. Mapped'
  <2>1. \A u \in Threads : pc'[u] = "read" => pc[u] = "read"
    BY <1>2
  <2>2. Services' \subseteq Interfaces
    BY DEF Services
  <2> QED BY <2>1, <2>2, <1>1, <1>7 DEF Consistent, Mapped
<1>9. Found'
  BY <1>7 DEF Found
<1> QED BY <1>4, <1>5, <1>6, <1>8, <1>9 DEF Consistent

LEMMA ListServicesStep ==
    ASSUME TypeOK, Consistent, NEW t \in Threads, ListServices(t)
    PROVE  Consistent'
<1> USE TheThreads
<1>1. /\ pc' = [pc EXCEPT ![t] = "read"] /\ pc[t] = "list"
      /\ found' = [found EXCEPT ![t] = Services]
      /\ mapping' = mapping \cup Services
      /\ UNCHANGED <<system, table, list, torn, news, pending, changedKeys,
                     iterators, iterator, unseen>>
  BY DEF ListServices, Goto, Services, environment, common, kit, dynamicStore, history
<1>2. /\ pc'[t] = "read" /\ found'[t] = Services
      /\ \A u \in Threads \ {t} : pc'[u] = pc[u] /\ found'[u] = found[u]
  BY <1>1 DEF TypeOK
<1>3. Doubts' = Doubts /\ OfStore' = OfStore /\ Services' = Services
  <2>1. pc'[IOKit] \in {"publish", "drain"} <=> pc[IOKit] \in {"publish", "drain"}
    BY <1>1, <1>2
  <2>2. OfIOKit' = OfIOKit
    BY <2>1, <1>1 DEF OfIOKit, Tells
  <2> QED BY <2>2, <1>1 DEF Doubts, Unknown, OfStore, Services
<1>4. \A u \in Threads : pc'[u] \in {"publish", "notify"} => pc'[u] = pc[u]
  BY <1>2
<1>5. ListsFit' /\ NewsFits'
  BY <1>1, <1>3, <1>4 DEF Consistent, ListsFit, NewsFits, Unknown, Threads
<1>6. TableFits'
  BY <1>2 DEF TableFits, Refreshing
<1>7. Mapped'
  <2>1. Services' \ mapping' = {}
    BY <1>1, <1>3
  <2>2. ASSUME NEW u \in Threads, pc'[u] = "read", u \notin torn'
        PROVE  found'[u] \subseteq mapping'
    <3>1. CASE u = t  BY <3>1, <1>1, <1>2
    <3>2. CASE u # t  BY <3>2, <2>2, <1>1, <1>2 DEF Consistent, Mapped
    <3> QED BY <3>1, <3>2
  <2> QED BY <2>1, <2>2 DEF Mapped
<1>8. Found'
  <2> SUFFICES ASSUME NEW u \in Threads, pc'[u] = "read", NEW i \in Interfaces
               PROVE  \/ i \in found'[u] <=> i \in Services'
                      \/ <<i, "service">> \in unseen' \cup (IF u \in Clients THEN {} ELSE OfStore')
      BY DEF Found
  <2>1. CASE u = t  BY <2>1, <1>2, <1>3
  <2>2. CASE u # t  BY <2>2, <1>1, <1>2, <1>3 DEF Consistent, Found
  <2> QED BY <2>1, <2>2
<1> QED BY <1>5, <1>6, <1>7, <1>8 DEF Consistent

LEMMA PublishStep ==
    ASSUME TypeOK, Consistent, Excluding, NEW t \in Threads, Publish(t)
    PROVE  Consistent'
<1> USE TheThreads
<1>1. PICK to \in {"waiting", "drain", "enumerated"} :
        /\ pc' = [pc EXCEPT ![t] = to]
        /\ t = IOKit <=> to = "drain"
  BY DEF Publish, Goto
<1>2. /\ pc[t] = "publish"
      /\ table' = list[t] /\ list' = [list EXCEPT ![t] = Empty]
      /\ found' = [found EXCEPT ![t] = {}] /\ torn' = torn \ {t}
      /\ UNCHANGED <<system, mapping, news, pending, changedKeys, iterators, iterator,
                     unseen>>
  BY DEF Publish, Goto, environment, kit, dynamicStore
<1>3. /\ pc'[t] = to
      /\ \A u \in Threads \ {t} :
            pc'[u] = pc[u] /\ list'[u] = list[u] /\ found'[u] = found[u]
  BY <1>1, <1>2 DEF TypeOK
<1>4. Doubts' = Doubts /\ OfStore' = OfStore /\ Services' = Services
  <2>1. pc'[IOKit] \in {"publish", "drain"} <=> pc[IOKit] \in {"publish", "drain"}
    BY <1>1, <1>2, <1>3
  <2>2. OfIOKit' = OfIOKit
    BY <2>1, <1>2 DEF OfIOKit, Tells
  <2> QED BY <2>2, <1>2 DEF Doubts, Unknown, OfStore, Services
<1>5. \A u \in Threads : pc'[u] \in Refreshing \cup {"notify"} => u # t /\ pc'[u] = pc[u]
  BY <1>3 DEF Refreshing
<1>6. ListsFit' /\ NewsFits'
  BY <1>2, <1>3, <1>4, <1>5 DEF Consistent, ListsFit, NewsFits, Unknown, Refreshing, Threads
<1>7. TableFits'
  <2>1. Fits(list[t], system, Doubts)
    <3>1. CASE t \in Clients
      <4>1. Unknown(unseen) \subseteq Doubts
        BY UnknownGrows DEF Doubts
      <4> QED BY <3>1, <4>1, <1>2, WeakerMore, FitsWeaker DEF Consistent, ListsFit
    <3>2. CASE t \in {RunLoop, IOKit}
      BY <3>2, <1>2 DEF Consistent, ListsFit
    <3> QED BY <3>1, <3>2 DEF Threads
  <2>2. Fits(list[t], system, Doubts \cup IF pc'[RunLoop] = "notify" THEN Subject(news) ELSE {})
    BY <2>1, WeakerMore, FitsWeaker
  <2> QED BY <2>2, <1>2, <1>4 DEF TableFits
<1>8. Mapped'
  <2>1. \A u \in Threads : pc[u] = "list" => pc'[u] = "list"
    BY <1>2, <1>3
  <2>2. pc[RunLoop] = "clear" => pc'[RunLoop] = "clear"
    BY <1>2, <1>3
  <2> QED BY <2>1, <2>2, <1>2, <1>3, <1>4, <1>5 DEF Consistent, Mapped, Refreshing
<1>9. Found'
  BY <1>2, <1>3, <1>4, <1>5 DEF Consistent, Found, Refreshing
<1> QED BY <1>6, <1>7, <1>8, <1>9 DEF Consistent

\* What is read is true but for what changed since the services were listed, for
\* the setup of a service that another thread took out of the map, and for the
\* interfaces that are lost.
LEMMA ReadFits ==
    ASSUME NEW S \in SUBSET Interfaces, NEW lost, NEW w,
           \A i \in Interfaces : (i \in S <=> i \in Services) \/ <<i, "service">> \in w,
           \A i \in S \ mapping : <<i, "setupIP">> \in w,
           \A i \in lost : <<i, "adapter">> \in w
    PROVE  Fits([i \in {j \in S \ lost : <<j, "adapter">> \in system} |->
                   [isConnected |-> IsInterfaceConnected(i), alias |-> Alias(i),
                    ipAddressInfos |-> GetIPAddressInfo(i, mapping)]],
                system, w)
<1> DEFINE l == [i \in {j \in S \ lost : <<j, "adapter">> \in system} |->
                   [isConnected |-> IsInterfaceConnected(i), alias |-> Alias(i),
                    ipAddressInfos |-> GetIPAddressInfo(i, mapping)]]
<1>1. ASSUME NEW i \in Interfaces, i \notin DOMAIN l
      PROVE  MayLack(i, "adapter", system, w) \/ MayLack(i, "service", system, w)
  BY <1>1 DEF MayLack, Services
<1>2. ASSUME NEW i \in Interfaces, i \in DOMAIN l
      PROVE  FitsInterface(l[i], i, system, w)
  <2>1. i \in S \ lost /\ <<i, "adapter">> \in system
    BY <1>2
  <2>2. /\ l[i].isConnected <=> <<i, "link">> \in system
        /\ l[i].alias = Alias(i)
        /\ l[i].ipAddressInfos = GetIPAddressInfo(i, mapping)
    BY <2>1 DEF IsInterfaceConnected
  <2> HIDE DEF l
  <2>3. MayHave(i, "adapter", system, w) /\ MayHave(i, "service", system, w)
    BY <2>1 DEF MayHave, Services
  <2>4. IF l[i].isConnected THEN MayHave(i, "link", system, w) ELSE MayLack(i, "link", system, w)
    BY <2>2 DEF MayHave, MayLack
  <2>5. IF l[i].alias = "default" THEN MayLack(i, "alias", system, w)
                                  ELSE MayHave(i, "alias", system, w)
    BY <2>2 DEF MayHave, MayLack, Alias
  <2>6. i \notin mapping => <<i, "setupIP">> \in w
    BY <2>1
  <2>7. FitsAddress(GetIPAddressInfo(i, mapping), i, system, w)
    BY <2>6 DEF FitsAddress, MayHave, MayLack, GetIPAddressInfo
  <2> QED BY <2>2, <2>3, <2>4, <2>5, <2>7 DEF FitsInterface
<1> HIDE DEF l
<1>3. Fits(l, system, w)
  BY <1>1, <1>2 DEF Fits
<1> QED BY <1>3 DEF l

LEMMA ReadStep ==
    ASSUME TypeOK, Excluding, Telling, Consistent, NEW t \in Threads,
           NEW lost \in SUBSET found[t], Read(t, lost)
    PROVE  Consistent'
<1> USE TheThreads
<1> DEFINE l == [i \in {j \in found[t] \ lost : <<j, "adapter">> \in system} |->
                   [isConnected |-> IsInterfaceConnected(i), alias |-> Alias(i),
                    ipAddressInfos |-> GetIPAddressInfo(i, mapping)]]
           w == unseen' \cup (IF t \in Clients THEN {} ELSE OfStore)
           Busy == \E u \in Threads \ {t} : pc[u] \in Refreshing \cup {"notify"}
<1>1. /\ pc' = [pc EXCEPT ![t] = "publish"] /\ pc[t] = "read"
      /\ list' = [list EXCEPT ![t] = l]
      /\ unseen' =
           (IF Busy THEN unseen
            ELSE {k \in unseen : k[2] = "service" /\ (k[1] \in found[t] <=> k \notin system)})
           \cup (IF t \in torn THEN (found[t] \ mapping) \X {"setupIP"} ELSE {})
           \cup (lost \X {"adapter"})
      /\ UNCHANGED <<system, table, found, mapping, torn, news, pending, changedKeys,
                     iterators, iterator>>
  BY DEF Read, Goto, common, kit, dynamicStore
<1>2. /\ pc'[t] = "publish" /\ list'[t] = l
      /\ \A u \in Threads \ {t} : pc'[u] = pc[u] /\ list'[u] = list[u]
  BY <1>1 DEF TypeOK
<1>3. OfStore' = OfStore /\ Services' = Services
  BY <1>1 DEF OfStore, Services
<1>4. Busy => unseen \subseteq unseen'
  BY <1>1
<1>5. ASSUME Busy, pc[RunLoop] \in Handling \/ pc[IOKit] \in Handling, t \in Clients
      PROVE  Doubts \subseteq Doubts'
  <2>1. pc'[IOKit] = pc[IOKit]
    BY <1>2, <1>5
  <2>2. \A e \in iterators : Tells(e) => Tells(e)'
    BY <1>1, <2>1 DEF Tells
  <2>3. unseen \cup OfStore \subseteq (unseen \cup OfStore)'
    BY <1>3, <1>4, <1>5
  <2> QED BY <2>2, <2>3, DoubtsGrow
<1>6. ASSUME NEW i \in Interfaces
      PROVE  (i \in found[t] <=> i \in Services) \/ <<i, "service">> \in w
  <2> SUFFICES ASSUME ~(i \in found[t] <=> i \in Services) PROVE <<i, "service">> \in w
      OBVIOUS
  <2>1. <<i, "service">> \in unseen \cup (IF t \in Clients THEN {} ELSE OfStore)
    BY <1>1 DEF Consistent, Found
  <2>2. i \in found[t] <=> <<i, "service">> \notin system
    BY DEF Services
  <2>3. <<i, "service">> \in unseen => <<i, "service">> \in unseen'
    BY <1>1, <2>2
  <2> QED BY <2>1, <2>3
<1>7. \A i \in found[t] \ mapping : <<i, "setupIP">> \in unseen'
  <2>1. t \in torn \/ found[t] \ mapping = {}
    BY <1>1 DEF Consistent, Mapped
  <2>2. t \in torn => (found[t] \ mapping) \X {"setupIP"} \subseteq unseen'
    BY <1>1
  <2> QED BY <2>1, <2>2
<1>8. found[t] \in SUBSET Interfaces
  BY DEF TypeOK
<1>9. Fits(l, system, w)
  <2>1. \A i \in lost : <<i, "adapter">> \in w
    BY <1>1
  <2> QED BY <1>6, <1>7, <1>8, <2>1, ReadFits
<1> HIDE DEF l
<1>10. ListsFit'
  <2>1. ASSUME NEW u \in Clients, pc'[u] = "publish"
        PROVE  Fits(list'[u], system, Unknown(unseen'))
    <3>1. CASE u = t
      <4>1. w \subseteq Unknown(unseen')
        BY <3>1, UnknownGrows
      <4> QED BY <3>1, <4>1, <1>2, <1>9, WeakerMore, FitsWeaker
    <3>2. CASE u # t
      <4>1. Busy /\ Fits(list[u], system, Unknown(unseen)) /\ list'[u] = list[u]
        BY <2>1, <3>2, <1>2 DEF Consistent, ListsFit, Threads, Refreshing
      <4>2. Unknown(unseen) \subseteq Unknown(unseen')
        BY <4>1, <1>4, UnknownGrows
      <4> QED BY <4>1, <4>2, WeakerMore, FitsWeaker
    <3> QED BY <3>1, <3>2
  <2>2. ASSUME NEW u \in {RunLoop, IOKit}, pc'[u] = "publish"
        PROVE  Fits(list'[u], system, Doubts')
    <3>1. CASE u = t
      <4>1. w \subseteq Doubts'
        BY <3>1, <1>3, UnknownGrows DEF Doubts
      <4> QED BY <3>1, <4>1, <1>2, <1>9, WeakerMore, FitsWeaker
    <3>2. CASE u # t
      <4>1. u \in Threads \ {t} /\ pc[u] = "publish" /\ list'[u] = list[u]
        BY <2>2, <3>2, <1>2
      <4>2. t \in Clients
        BY <4>1, <1>1 DEF Excluding, Handling, Refreshing, Threads
      <4>3. Busy /\ (pc[RunLoop] \in Handling \/ pc[IOKit] \in Handling)
        BY <4>1 DEF Handling, Refreshing
      <4>4. Doubts \subseteq Doubts'
        BY <4>2, <4>3, <1>5
      <4>5. Fits(list[u], system, Doubts)
        BY <4>1 DEF Consistent, ListsFit
      <4> QED BY <4>1, <4>4, <4>5, WeakerMore, FitsWeaker
    <3> QED BY <3>1, <3>2
  <2> QED BY <2>1, <2>2, <1>1 DEF ListsFit
<1>11. NewsFits'
  <2> SUFFICES ASSUME pc'[RunLoop] = "notify" PROVE FitsNews(news, system, Doubts')
      BY <1>1 DEF NewsFits
  <2>1. RunLoop # t /\ pc[RunLoop] = "notify"
    BY <1>2
  <2>2. t \in Clients
    BY <2>1, <1>1 DEF Excluding, Handling, Refreshing, Threads
  <2>3. Busy /\ pc[RunLoop] \in Handling
    BY <2>1 DEF Handling
  <2>4. Doubts \subseteq Doubts'
    BY <2>2, <2>3, <1>5
  <2>5. FitsNews(news, system, Doubts) /\ news \in News
    BY <2>1 DEF Telling, Consistent, NewsFits
  <2> QED BY <2>4, <2>5, WeakerMore, NewsWeaker
<1>12. TableFits'
  BY <1>2 DEF TableFits, Refreshing
<1>13. Mapped'
  <2>1. ASSUME NEW i \in Services \ mapping
        PROVE  \/ <<i, "service">> \in (unseen \cup OfStore)'
               \/ <<i, "setupIP">> \in (unseen \cup OfStore)'
    <3>1. i \in Interfaces
      BY DEF Services
    <3>2. CASE i \in found[t]
      BY <3>2, <1>7
    <3>3. CASE i \notin found[t]
      BY <3>1, <3>3, <1>3, <1>6
    <3> QED BY <3>2, <3>3
  <2>2. \A u \in Threads : pc'[u] = "read" => pc[u] = "read"
    BY <1>2
  <2> QED BY <2>1, <2>2, <1>1, <1>3 DEF Consistent, Mapped
<1>14. Found'
  <2>1. ASSUME NEW u \in Threads, pc'[u] = "read"
        PROVE  Busy /\ pc[u] = "read"
    BY <2>1, <1>2 DEF Refreshing
  <2> QED BY <2>1, <1>1, <1>3, <1>4 DEF Consistent, Found
<1> QED BY <1>10, <1>11, <1>12, <1>13, <1>14 DEF Consistent

-----------------------------------------------------------------------------
LEMMA ConsistentStep ==
    TypeOK /\ Telling /\ Places /\ Nested /\ Armed /\ Excluding /\ Consistent /\ [Next]_vars
        => Consistent'
<1> SUFFICES ASSUME TypeOK, Telling, Places, Nested, Armed, Excluding, Consistent,
                    [Next]_vars
             PROVE  Consistent'
    OBVIOUS
<1>1. ASSUME NEW t \in Threads, Refresh(t) PROVE Consistent'
  BY <1>1, ClearMappingStep, ListFailsStep, ListServicesStep, Reads, ReadStep,
     PublishStep DEF Refresh
<1>2. CASE SystemChanges
  BY <1>2, ChangeStep
<1>3. CASE Loop
  BY <1>1, <1>3, LoopQuiet, QuietStep, HandleByRefreshStep, HandleKeyStep,
     NotifyNewsStep, TheThreads DEF Loop
<1>4. CASE Handler
  BY <1>1, <1>4, LoopQuiet, QuietStep, TheThreads DEF Handler
<1>5. ASSUME NEW t \in Clients, Call(t) \/ Proceed(t) PROVE Consistent'
  BY <1>1, <1>5, ClientQuiet, QuietStep DEF Threads
<1>6. CASE UNCHANGED vars
  <2>1. Quiet
    BY <1>6, TheThreads
       DEF vars, Quiet, OfStore, Tells, environment, common, refreshing, kit, dynamicStore,
           history
  <2> QED BY <2>1, QuietStep
<1> QED BY <1>2, <1>3, <1>4, <1>5, <1>6 DEF Next

LEMMA ConsistentInit == Init => Consistent
<1> SUFFICES ASSUME Init PROVE Consistent  OBVIOUS
<1>1. \A t \in Threads : pc[t] \in {"idle", "none"}
  BY DEF Init
<1>2. system \in SUBSET Keys /\ unseen = Keys
  BY SystemsAssumption DEF Init
<1>3. Keys \subseteq Doubts
  BY <1>2, UnknownGrows DEF Doubts
<1>4. TableFits
  BY <1>2, <1>3, FitsAll DEF TableFits
<1>5. \A i \in Services : <<i, "service">> \in unseen
  BY <1>2 DEF Services
<1> QED BY <1>1, <1>4, <1>5, TheThreads
        DEF Consistent, ListsFit, NewsFits, Mapped, Found, Threads

\* Whatever changes, fails and is called meanwhile, when nothing is left to tell
\* and nobody is about to publish, the table is what the system would be without
\* the changes that could not be seen: the lists of clients, of the handler of
\* IOKit and of the callback of the store, and the fields told one by one, add
\* up (refreshInterfaces, dynamicStoreChangedCallback, onIONetworkInterfaceChanged).
THEOREM UpToDateOnceSettled == Spec => []UpToDateWhenSettled
<1>1. TypeOK /\ Places /\ Excluding /\ Consistent => UpToDateWhenSettled
  <2> SUFFICES ASSUME TypeOK, Places, Excluding, Consistent, Settled PROVE UpToDate
      BY DEF UpToDateWhenSettled
  <2>1. \A t \in Threads : pc[t] \notin Refreshing
    BY DEF Settled, Threads, Handling, Refreshing
  <2>2. pc[RunLoop] # "notify" /\ changedKeys = {}
    BY DEF Settled, Excluding, Handling
  <2>3. Doubts = Unknown(unseen)
    <3>1. OfStore = {} /\ OfIOKit = {}
      BY <2>2 DEF Settled, OfStore, OfIOKit
    <3>2. unseen \cup {} \cup {} = unseen
      OBVIOUS
    <3> QED BY <3>1, <3>2 DEF Doubts
  <2>4. Fits(table, system, Unknown(unseen))
    <3>1. Doubts \cup {} = Doubts
      OBVIOUS
    <3> QED BY <2>1, <2>2, <2>3, <3>1 DEF Consistent, TableFits
  <2>5. table \in Tables /\ system \in SUBSET Keys
    BY DEF TypeOK
  <2> QED BY <2>4, <2>5, FitsPresent DEF UpToDate
<1> QED
  BY <1>1, TypeInit, TypeStep, LifetimesInit, LifetimesStep, OrderInit, OrderStep,
     ConsistentInit, ConsistentStep, PTL DEF Spec

=============================================================================
