------------------------------ MODULE MacDelegate ------------------------------
(***************************************************************************)
(* The whole library on macOS: client threads inside of                     *)
(* NetworkInterfaceHelperImpl, and OsDependentDelegate_MacOS                *)
(* (networkInterfaceHelper_mac.mm), which does not poll but is told of      *)
(* changes: by the dynamic store, on the thread whose run loop it made, and *)
(* by IOKit, on a dispatch queue.  What a notification says is not the new  *)
(* value but that there is one: the value is read afterwards.               *)
(*                                                                          *)
(* The system is the set of the keys that are present.  A service is named  *)
(* by the interface it is attached to.  What a new list or value does to    *)
(* the observers is the business of NetworkInterfaceHelper: here a          *)
(* publication is one step.                                                 *)
(***************************************************************************)
EXTENDS Naturals

CONSTANTS
    Clients,      \* threads of the program that use the library
    Registrars,   \* those that register and unregister observers
    Observers,    \* observer objects
    Interfaces,   \* names of network interfaces
    Systems,      \* the systems the program may be started on
    Changing,     \* the keys that change
    MaxChanges,   \* bound: changes of the system
    MaxFailures   \* bound: failures of the system: of the dynamic store, of
                  \* IOKit, of getifaddrs and ioctl

\* An adapter IOKit knows; of the dynamic store, Setup:/Network/Service/ with
\* /Interface, the UserDefinedName and /IPv4 or /IPv6, and of
\* State:/Network/Interface/ with /Link and /IPv4 or /IPv6.
Kinds == {"adapter", "service", "alias", "setupIP", "link", "stateIP"}
Keys == Interfaces \X Kinds

RunLoop == "run loop"   \* _observerThread
IOKit == "IOKit"        \* the dispatch queue of _notificationPort
Threads == Clients \cup {RunLoop, IOKit}

ASSUME ClientsAssumption ==
    Registrars \subseteq Clients /\ Clients \cap {RunLoop, IOKit} = {}
\* What several of them do to a delegate is shown by PollingDelegate.
ASSUME RegistrarsAssumption == \A t, u \in Registrars : t = u
ASSUME ObserversAssumption == Observers # {}
ASSUME SystemsAssumption == Systems \subseteq SUBSET Keys /\ Changing \subseteq Keys
ASSUME BoundsAssumption == MaxChanges \in Nat /\ MaxFailures \in Nat

\* An Interface, the fields the notifications are about.
Interface == [isConnected: BOOLEAN, alias: {"user defined", "default"},
              ipAddressInfos: {"none", "state", "setup"}]
Tables == UNION {[S -> Interface] : S \in SUBSET Interfaces}
Empty == [i \in {} |-> {}]

VARIABLES
    system,         \* the keys that are present
    changes,        \* how often it has changed
    failures,       \* how often the system has failed
    observers,      \* _observers
    table,          \* _networkInterfaces
    pc,             \* where each thread is
    todo,           \* where a client goes when the delegate returns
    arg,            \* the observer a client passed
    found,          \* the services a thread has listed
    list,           \* the list it has read
    mapping,        \* _interfaceToServiceMapping
    enumeratedOnce, \* _enumeratedOnce
    port,           \* _notificationPort, with its notifications armed
    iterators,      \* what _controllerMatchIterator and
                    \* _controllerTerminateIterator have to tell
    iterator,       \* the one IOKit calls the handler with
    store,          \* _dynamicStore, with its notification keys set
    pending,        \* the changed keys it has to tell
    changedKeys,    \* those the callback has still to handle
    news,           \* what the callback is about to tell
    runLoopRef,     \* _threadRunLoopRef is not null
    stopped,        \* CFRunLoopStop reached the run loop
    threadReady,    \* the promise threadReady
    crashed,        \* the program has ended abnormally
    torn,           \* the threads that have listed the services and lost the
                    \* mapping to another thread (history variable)
    unseen          \* keys the library need not know the present state of
                    \* (history variable)

environment == <<system, changes, failures>>
common == <<observers, table>>
refreshing == <<found, list, mapping>>
kit == <<port, iterators, iterator>>
dynamicStore == <<store, pending, changedKeys, news>>
thread == <<runLoopRef, stopped, threadReady>>
history == <<torn, unseen>>
vars == <<environment, common, pc, todo, arg, refreshing, enumeratedOnce, kit,
          dynamicStore, thread, crashed, history>>

Refreshing == {"clear", "list", "read", "publish"}
Handling == Refreshing \cup {"handle", "notify", "drain"}
Locations == Handling \cup
    {"idle", "enumerated", "register", "port", "store", "ready", "unregister",
     "terminate", "stop", "join", "release", "destroyed",
     "none", "started", "promise", "run", "waiting", "lock", "finished"}

\* What a callback tells of one field of an interface.
News == (Interfaces \X {"isConnected"} \X BOOLEAN)
          \cup (Interfaces \X {"alias"} \X {"user defined", "default"})
          \cup (Interfaces \X {"ipAddressInfos"} \X {"none", "state", "setup"})
NoNews == <<>>
Iterators == {"match", "terminate"}

TypeOK ==
    /\ system \in SUBSET Keys
    /\ changes \in 0 .. MaxChanges /\ failures \in 0 .. MaxFailures
    /\ observers \subseteq Observers
    /\ table \in Tables
    /\ pc \in [Threads -> Locations] /\ todo \in [Clients -> Locations]
    /\ arg \in [Clients -> Observers]
    /\ found \in [Threads -> SUBSET Interfaces]
    /\ list \in [Threads -> Tables]
    /\ mapping \subseteq Interfaces
    /\ enumeratedOnce \in BOOLEAN /\ crashed \in BOOLEAN
    /\ port \in BOOLEAN /\ store \in BOOLEAN
    /\ runLoopRef \in BOOLEAN /\ stopped \in BOOLEAN
    /\ iterators \subseteq Iterators \X Interfaces /\ iterator \in Iterators
    /\ pending \subseteq Keys /\ changedKeys \subseteq Keys
    /\ news \in News \cup {NoNews}
    /\ threadReady \in {"none", "open", "set", "gone"}
    /\ torn \subseteq Threads
    /\ unseen \subseteq Keys

Init ==
    /\ system \in Systems
    /\ changes = 0 /\ failures = 0
    /\ observers = {} /\ table = Empty
    /\ pc = [t \in Threads |-> IF t \in Clients THEN "idle" ELSE "none"]
    /\ todo = [t \in Clients |-> "idle"]
    /\ arg = [t \in Clients |-> CHOOSE o \in Observers : TRUE]
    /\ found = [t \in Threads |-> {}]
    /\ list = [t \in Threads |-> Empty]
    /\ mapping = {}
    /\ enumeratedOnce = FALSE
    /\ port = FALSE /\ iterators = {} /\ iterator = "match"
    /\ store = FALSE /\ pending = {} /\ changedKeys = {} /\ news = NoNews
    /\ runLoopRef = FALSE /\ stopped = FALSE /\ threadReady = "none"
    /\ crashed = FALSE
    /\ torn = {}
    /\ unseen = Keys

Goto(t, from, to) ==
    /\ ~crashed
    /\ pc[t] = from
    /\ pc' = [pc EXCEPT ![t] = to]

-----------------------------------------------------------------------------
(* The system, and what it notes down to tell. *)

Toggle(s, ks) == (s \ ks) \cup (ks \ s)

\* The iterator that gets to know that the adapter of a key comes or goes.
Arrival(k) == IF k \in system THEN "terminate" ELSE "match"

\* Changes the delegate cannot know of, or undoes: nobody listens; a client has
\* read its list before and publishes it later; the handler of IOKit has read
\* its list before and then discards what its iterator has to tell.
Overlooked(k) ==
    \/ ~(IF k[2] = "adapter" THEN port ELSE store)
    \/ \E t \in Clients :
          pc[t] = "publish" \/ (pc[t] = "read" /\ k[2] = "service")
    \/ /\ k[2] = "adapter"
       /\ pc[IOKit] \in {"publish", "drain"}
       /\ iterator = Arrival(k)

SystemChanges ==
    \E k \in Changing :
        /\ ~crashed
        /\ changes < MaxChanges
        /\ changes' = changes + 1
        /\ system' = Toggle(system, {k})
        /\ IF k[2] = "adapter"
           THEN /\ iterators' = iterators \cup
                                (IF port THEN {<<Arrival(k), k[1]>>} ELSE {})
                /\ UNCHANGED pending
           ELSE /\ pending' = pending \cup (IF store THEN {k} ELSE {})
                /\ UNCHANGED iterators
        /\ unseen' = unseen \cup (IF Overlooked(k) THEN {k} ELSE {})
        /\ UNCHANGED <<failures, common, pc, todo, arg, refreshing, enumeratedOnce,
                       port, iterator, store, changedKeys, news, thread, crashed, torn>>

-----------------------------------------------------------------------------
(* Reading the system. *)

\* getUserDefinedName with its fall back to the description.
Alias(i) == IF <<i, "alias">> \in system THEN "user defined" ELSE "default"

IsInterfaceConnected(i) == <<i, "link">> \in system

\* getIPAddressInfo: "In case there is no cable or it was just plugged in we
\* won't have any IP information available in the State keys, so try to get it
\* from the Setup keys".
GetIPAddressInfo(i, m) ==
    CASE <<i, "stateIP">> \in system -> "state"
      [] <<i, "stateIP">> \notin system /\ i \in m /\ <<i, "setupIP">> \in system -> "setup"
      [] OTHER -> "none"

\* Another thread has cleared the map of services and not yet filled it again.
Rebuilding(t) == \E u \in Threads \ {t} : pc[u] = "list"

\* refreshInterfaces, first step.
ClearMapping(t) ==
    /\ Goto(t, "clear", "list")
    /\ mapping' = {}
    /\ torn' = (torn \cup {u \in Threads : pc[u] = "read"}) \ {t}
    /\ UNCHANGED <<environment, common, todo, arg, found, list, enumeratedOnce, kit,
                   dynamicStore, thread, crashed, unseen>>

\* Without a dynamic store, or a list of its keys, nothing is listed.
ListFails(t) ==
    /\ Goto(t, "list", "publish")
    /\ failures < MaxFailures
    /\ failures' = failures + 1
    /\ list' = [list EXCEPT ![t] = Empty]
    /\ unseen' = Keys
    /\ UNCHANGED <<system, changes, common, todo, arg, found, mapping, enumeratedOnce,
                   kit, dynamicStore, thread, crashed, torn>>

ListServices(t) ==
    /\ Goto(t, "list", "read")
    /\ LET services == {i \in Interfaces : <<i, "service">> \in system} IN
       /\ found' = [found EXCEPT ![t] = services]
       /\ mapping' = mapping \cup services
    /\ UNCHANGED <<environment, common, todo, arg, list, enumeratedOnce, kit,
                   dynamicStore, thread, crashed, history>>

\* What is read of the services, and of the adapters through ioctl: without one
\* the interface has no MAC address and is removed, and so are the interfaces
\* whose addresses are `lost`, by setOtherFieldsFromIOCTL returning early or by
\* an ioctl that fails.
Read(t, lost) ==
    /\ Goto(t, "read", "publish")
    /\ list' = [list EXCEPT ![t] =
         [i \in {j \in found[t] \ lost : <<j, "adapter">> \in system} |->
            [isConnected |-> IsInterfaceConnected(i), alias |-> Alias(i),
             ipAddressInfos |-> GetIPAddressInfo(i, mapping)]]]
    /\ unseen' =
         (IF \E u \in Threads \ {t} : pc[u] \in Refreshing \cup {"notify"} THEN unseen
          ELSE {k \in unseen : k[2] = "service" /\ (k[1] \in found[t] <=> k \notin system)})
         \cup (IF t \in torn THEN (found[t] \ mapping) \X {"setupIP"} ELSE {})
         \cup (lost \X {"adapter"})
    /\ UNCHANGED <<system, changes, common, todo, arg, found, mapping, enumeratedOnce, kit,
                   dynamicStore, thread, crashed, torn>>

ReadInterfaces(t) == Read(t, {}) /\ UNCHANGED failures

ReadFails(t) ==
    /\ failures < MaxFailures
    /\ failures' = failures + 1
    /\ \E lost \in SUBSET found[t] : lost # {} /\ Read(t, lost)

\* onNewInterfacesList; the list is moved from.
Publish(t) ==
    /\ Goto(t, "publish", CASE t = RunLoop -> "waiting"
                            [] t = IOKit -> "drain"
                            [] OTHER -> "enumerated")
    /\ table' = list[t]
    /\ list' = [list EXCEPT ![t] = Empty]
    /\ found' = [found EXCEPT ![t] = {}]
    /\ torn' = torn \ {t}
    /\ UNCHANGED <<environment, observers, todo, arg, mapping, enumeratedOnce, kit,
                   dynamicStore, thread, crashed, unseen>>

Refresh(t) ==
    \/ ClearMapping(t) \/ ListFails(t) \/ ListServices(t)
    \/ ReadInterfaces(t) \/ ReadFails(t) \/ Publish(t)

-----------------------------------------------------------------------------
(* Calls of a client, and waitForFirstEnumeration. *)

\* Every call but unregisterObserver begins with waitForFirstEnumeration.
Start(t, op) ==
    /\ Goto(t, "idle", IF enumeratedOnce THEN op ELSE "clear")
    /\ todo' = [todo EXCEPT ![t] = op]
    /\ UNCHANGED <<environment, common, refreshing, enumeratedOnce, kit, dynamicStore,
                   thread, crashed, history>>

CallRegisterObserver(t) ==
    /\ Start(t, "register")
    /\ \E o \in Observers : arg' = [arg EXCEPT ![t] = o]

\* enumerateInterfaces and getInterfaceByName.
CallLookup(t) == Start(t, "idle") /\ UNCHANGED arg

CallUnregisterObserver(t) ==
    \E o \in observers :
        /\ Goto(t, "idle", "unregister")
        /\ arg' = [arg EXCEPT ![t] = o]
        /\ todo' = [todo EXCEPT ![t] = "idle"]
        /\ UNCHANGED <<environment, common, refreshing, enumeratedOnce, kit,
                       dynamicStore, thread, crashed, history>>

\* The singleton is destroyed at the end of the program: `t` is the last
\* client in it.
CallDestroy(t) ==
    /\ \A u \in Clients : pc[u] = "idle"
    /\ Goto(t, "idle", "terminate")
    /\ todo' = [todo EXCEPT ![t] = "destroyed"]
    /\ UNCHANGED <<environment, common, arg, refreshing, enumeratedOnce, kit,
                   dynamicStore, thread, crashed, history>>

Call(t) ==
    \/ CallLookup(t)
    \/ t \in Registrars /\
         (CallRegisterObserver(t) \/ CallUnregisterObserver(t) \/ CallDestroy(t))

Enumerated(t) ==
    /\ Goto(t, "enumerated", todo[t])
    /\ enumeratedOnce' = TRUE
    /\ UNCHANGED <<environment, common, todo, arg, refreshing, kit, dynamicStore,
                   thread, crashed, history>>

RegisterObserver(t) ==
    /\ Goto(t, "register",
            IF arg[t] \notin observers /\ observers = {} THEN "port" ELSE "idle")
    /\ observers' = observers \cup {arg[t]}
    /\ UNCHANGED <<environment, table, todo, arg, refreshing, enumeratedOnce, kit,
                   dynamicStore, thread, crashed, history>>

UnregisterObserver(t) ==
    /\ Goto(t, "unregister", IF observers = {arg[t]} THEN "terminate" ELSE todo[t])
    /\ observers' = observers \ {arg[t]}
    /\ UNCHANGED <<environment, table, todo, arg, refreshing, enumeratedOnce, kit,
                   dynamicStore, thread, crashed, history>>

-----------------------------------------------------------------------------
(* onFirstObserverRegistered *)

\* "Clear the iterators discarding already discovered adapters, we'll manually
\* list them anyway": the handler is called for what comes afterwards.  Without
\* a port the delegate goes on and is told of no adapter.
ArmPort(t) ==
    /\ Goto(t, "port", "store")
    /\ \/ port' = TRUE /\ iterators' = {} /\ UNCHANGED failures
       \/ /\ failures < MaxFailures
          /\ failures' = failures + 1
          /\ UNCHANGED <<port, iterators>>
    /\ UNCHANGED <<system, changes, common, todo, arg, refreshing, enumeratedOnce,
                   iterator, dynamicStore, thread, crashed, history>>

\* There is no thread if the store cannot be created or be given the keys; in
\* the latter case a store is kept that tells nothing, which is as good as none.
CreateStore(t) ==
    /\ ~crashed
    /\ pc[t] = "store"
    /\ \/ /\ pc' = [pc EXCEPT ![t] = "ready", ![RunLoop] = "started"]
          /\ store' = TRUE
          /\ threadReady' = "open"
          /\ UNCHANGED failures
       \/ /\ failures < MaxFailures
          /\ failures' = failures + 1
          /\ pc' = [pc EXCEPT ![t] = "idle"]
          /\ UNCHANGED <<store, threadReady>>
    /\ UNCHANGED <<system, changes, common, todo, arg, refreshing, enumeratedOnce, kit,
                   pending, changedKeys, news, runLoopRef, stopped, crashed, history>>

\* "Wait for thread to be ready (don't really care if it times out ...)": the
\* promise is gone when the method returns.
WaitReady(t) ==
    /\ Goto(t, "ready", "idle")
    /\ threadReady' = IF threadReady = "set" THEN "none" ELSE "gone"
    /\ UNCHANGED <<environment, common, todo, arg, refreshing, enumeratedOnce, kit,
                   dynamicStore, runLoopRef, stopped, crashed, history>>

-----------------------------------------------------------------------------
(* terminateObserverThread *)

\* Mutant: the dynamic store is released together with the port.
ReleasePort_AndStore(t) ==
    /\ Goto(t, "terminate", IF pc[RunLoop] = "none" THEN "release" ELSE "stop")
    /\ port' = FALSE /\ iterators' = {}
    /\ store' = FALSE /\ pending' = {}
    /\ unseen' = unseen \cup pending \cup {<<e[2], "adapter">> : e \in iterators}
    /\ UNCHANGED <<environment, common, todo, arg, refreshing, enumeratedOnce,
                   iterator, changedKeys, news, thread, crashed, torn>>

\* The observer thread is joinable unless it was never made or was joined.
ReleasePort(t) ==
    /\ Goto(t, "terminate", IF pc[RunLoop] = "none" THEN "release" ELSE "stop")
    /\ port' = FALSE
    /\ iterators' = {}
    /\ unseen' = unseen \cup {<<e[2], "adapter">> : e \in iterators}
    /\ UNCHANGED <<environment, common, todo, arg, refreshing, enumeratedOnce,
                   iterator, dynamicStore, thread, crashed, torn>>

\* CFRunLoopStop needs a run loop, and is noticed by one that runs.
StopRunLoop(t) ==
    /\ Goto(t, "stop", "join")
    /\ crashed' = ~runLoopRef
    /\ stopped' = runLoopRef
    /\ UNCHANGED <<environment, common, todo, arg, refreshing, enumeratedOnce, kit,
                   dynamicStore, runLoopRef, threadReady, history>>

\* Mutant: the thread is detached instead of joined.
Join_Detaches(t) ==
    /\ ~crashed
    /\ pc[t] = "join"
    /\ pc' = [pc EXCEPT ![t] = "release", ![RunLoop] = "detached"]
    /\ stopped' = FALSE
    /\ threadReady' = "none"
    /\ enumeratedOnce' = FALSE
    /\ UNCHANGED <<environment, common, todo, arg, refreshing, kit, dynamicStore,
                   runLoopRef, crashed, history>>

Join(t) ==
    /\ ~crashed
    /\ pc[t] = "join"
    /\ pc[RunLoop] = "finished"
    /\ pc' = [pc EXCEPT ![t] = "release", ![RunLoop] = "none"]
    /\ stopped' = FALSE
    /\ threadReady' = "none"
    /\ enumeratedOnce' = FALSE
    /\ UNCHANGED <<environment, common, todo, arg, refreshing, kit, dynamicStore,
                   runLoopRef, crashed, history>>

ReleaseStore(t) ==
    /\ Goto(t, "release", todo[t])
    /\ store' = FALSE
    /\ pending' = {}
    /\ unseen' = unseen \cup pending
    /\ UNCHANGED <<environment, common, todo, arg, refreshing, enumeratedOnce, kit,
                   changedKeys, news, thread, crashed, torn>>

Proceed(t) ==
    \/ Refresh(t) \/ Enumerated(t)
    \/ RegisterObserver(t) \/ ArmPort(t) \/ CreateStore(t) \/ WaitReady(t)
    \/ UnregisterObserver(t) \/ ReleasePort(t) \/ StopRunLoop(t) \/ Join(t)
    \/ ReleaseStore(t)

-----------------------------------------------------------------------------
(* The thread of the run loop. *)

LoopStarts ==
    /\ Goto(RunLoop, "started", "promise")
    /\ runLoopRef' = TRUE
    /\ UNCHANGED <<environment, common, todo, arg, refreshing, enumeratedOnce, kit,
                   dynamicStore, stopped, threadReady, crashed, history>>

\* "Notify we are ready (the thread can safely be stopped from now on)".
\* Setting a promise that is gone is undefined: it may pass or not.
LoopIsReady ==
    /\ Goto(RunLoop, "promise", "run")
    /\ IF threadReady = "open"
       THEN threadReady' = "set" /\ UNCHANGED crashed
       ELSE crashed' \in BOOLEAN /\ UNCHANGED threadReady
    /\ UNCHANGED <<environment, common, todo, arg, refreshing, enumeratedOnce, kit,
                   dynamicStore, runLoopRef, stopped, history>>

\* CFRunLoopRun, which begins as a loop that nobody has stopped.
LoopRuns ==
    /\ Goto(RunLoop, "run", "waiting")
    /\ stopped' = FALSE
    /\ UNCHANGED <<environment, common, todo, arg, refreshing, enumeratedOnce, kit,
                   dynamicStore, runLoopRef, threadReady, crashed, history>>

LoopEnds ==
    /\ Goto(RunLoop, "waiting", "finished")
    /\ stopped
    /\ runLoopRef' = FALSE
    /\ UNCHANGED <<environment, common, todo, arg, refreshing, enumeratedOnce, kit,
                   dynamicStore, stopped, threadReady, crashed, history>>

-----------------------------------------------------------------------------
(* dynamicStoreChangedCallback *)

\* The keys are copied before the callback takes _notificationLock, and the
\* loop may still call it when it has been stopped.
StoreCalls ==
    /\ Goto(RunLoop, "waiting", "lock")
    /\ pending # {}
    /\ changedKeys' = pending
    /\ pending' = {}
    /\ UNCHANGED <<environment, common, todo, arg, refreshing, enumeratedOnce, kit,
                   store, news, thread, crashed, history>>

\* Mutant: the two callbacks do not share a lock.
NotificationLock_None == TRUE

NotificationLock == \A t \in {RunLoop, IOKit} : pc[t] \notin Handling

LockNotification(t) ==
    /\ Goto(t, "lock", IF t = RunLoop THEN "handle" ELSE "clear")
    /\ NotificationLock
    /\ UNCHANGED <<environment, common, todo, arg, refreshing, enumeratedOnce, kit,
                   dynamicStore, thread, crashed, history>>

\* A service came or went, or is not known: everything is listed again, and
\* the other keys need not be handled.
NeedsFullRefresh(k) ==
    \/ k[2] = "service"
    \/ k[2] \in {"alias", "setupIP"} /\ k[1] \notin mapping

HandleByRefresh ==
    /\ Goto(RunLoop, "handle", "clear")
    /\ \E k \in changedKeys : NeedsFullRefresh(k)
    /\ changedKeys' = {}
    /\ UNCHANGED <<environment, common, todo, arg, refreshing, enumeratedOnce, kit,
                   store, pending, news, thread, crashed, history>>

\* Mutant: the loop over the keys ends with the first one.
HandleKey_First ==
    /\ Goto(RunLoop, "handle", "notify")
    /\ \E k \in changedKeys : LET i == k[1] IN
        /\ ~NeedsFullRefresh(k)
        /\ changedKeys' = {}
        /\ news' = CASE k[2] = "link" -> <<i, "isConnected", IsInterfaceConnected(i)>>
                     [] k[2] = "alias" -> <<i, "alias", Alias(i)>>
                     [] OTHER -> <<i, "ipAddressInfos", GetIPAddressInfo(i, mapping)>>
    /\ UNCHANGED <<environment, common, todo, arg, refreshing, enumeratedOnce, kit,
                   store, pending, thread, crashed, history>>

\* The present value is read, of one key after the other in any order ...
HandleKey ==
    /\ Goto(RunLoop, "handle", "notify")
    /\ \E k \in changedKeys : LET i == k[1] IN
        /\ ~NeedsFullRefresh(k)
        /\ changedKeys' = changedKeys \ {k}
        /\ news' = CASE k[2] = "link" -> <<i, "isConnected", IsInterfaceConnected(i)>>
                     [] k[2] = "alias" -> <<i, "alias", Alias(i)>>
                     [] OTHER -> <<i, "ipAddressInfos", GetIPAddressInfo(i, mapping)>>
        /\ unseen' = unseen \cup (IF Rebuilding(RunLoop) /\ i \notin mapping
                                  THEN {<<i, "setupIP">>} ELSE {})
    /\ UNCHANGED <<environment, common, todo, arg, refreshing, enumeratedOnce, kit,
                   store, pending, thread, crashed, torn>>

\* ... and told: onConnectedStateChanged, onAliasChanged and
\* onIPAddressInfosChanged ignore an interface that is not in the table.
NotifyNews ==
    /\ Goto(RunLoop, "notify", "handle")
    /\ table' = IF news[1] \notin DOMAIN table THEN table
                ELSE [table EXCEPT ![news[1]][news[2]] = news[3]]
    /\ news' = NoNews
    /\ UNCHANGED <<environment, observers, todo, arg, refreshing, enumeratedOnce, kit,
                   store, pending, changedKeys, thread, crashed, history>>

Handled ==
    /\ Goto(RunLoop, "handle", "waiting")
    /\ changedKeys = {}
    /\ UNCHANGED <<environment, common, todo, arg, refreshing, enumeratedOnce, kit,
                   dynamicStore, thread, crashed, history>>

Loop ==
    \/ LoopStarts \/ LoopIsReady \/ LoopRuns \/ LoopEnds
    \/ StoreCalls \/ LockNotification(RunLoop) \/ HandleByRefresh \/ HandleKey
    \/ NotifyNews \/ Handled \/ Refresh(RunLoop)

-----------------------------------------------------------------------------
(* onIONetworkInterfaceChanged.  One handler at a time: IOKit calls them from *)
(* one source.                                                                *)

IOKitCalls ==
    /\ Goto(IOKit, "none", "lock")
    /\ \E e \in iterators : iterator' = e[1]
    /\ UNCHANGED <<environment, common, todo, arg, refreshing, enumeratedOnce, port,
                   iterators, dynamicStore, thread, crashed, history>>

\* Mutant: the handler does not release _notificationLock.
Drain_KeepsLock ==
    /\ Goto(IOKit, "drain", "drain")
    /\ iterators' = {e \in iterators : e[1] # iterator}
    /\ UNCHANGED <<environment, common, todo, arg, refreshing, enumeratedOnce, port,
                   iterator, dynamicStore, thread, crashed, history>>

\* clearIterator, after the enumeration.
Drain ==
    /\ Goto(IOKit, "drain", "none")
    /\ iterators' = {e \in iterators : e[1] # iterator}
    /\ iterator' = "match"
    /\ UNCHANGED <<environment, common, todo, arg, refreshing, enumeratedOnce, port,
                   dynamicStore, thread, crashed, history>>

Handler == IOKitCalls \/ LockNotification(IOKit) \/ Refresh(IOKit) \/ Drain

-----------------------------------------------------------------------------
Next ==
    \/ SystemChanges
    \/ Loop
    \/ Handler
    \/ \E t \in Clients : Call(t) \/ Proceed(t)

Spec == Init /\ [][Next]_vars

\* Threads that can run are run; no client need call, no key need change.
FairSpec ==
    /\ Spec
    /\ WF_vars(Loop)
    /\ WF_vars(Handler)
    /\ \A t \in Clients : WF_vars(Proceed(t))

-----------------------------------------------------------------------------
(* Properties. *)

\* The interfaces there are on a system with the keys `s`.
Present(s) ==
    [i \in {j \in Interfaces : {<<j, "adapter">>, <<j, "service">>} \subseteq s} |->
        [isConnected |-> <<i, "link">> \in s,
         alias |-> IF <<i, "alias">> \in s THEN "user defined" ELSE "default",
         ipAddressInfos |-> IF <<i, "stateIP">> \in s THEN "state"
                            ELSE IF <<i, "setupIP">> \in s THEN "setup" ELSE "none"]]

\* Nor need it know what is in the setup of a service that it need not know of.
Unknown(ks) == ks \cup {<<k[1], "setupIP">> : k \in {j \in ks : j[2] = "service"}}

\* The table is what the system would be without the changes that could not
\* be seen.
UpToDate == \E ks \in SUBSET Unknown(unseen) : table = Present(Toggle(system, ks))

\* Nothing is left to tell, and nobody is about to publish.
Settled ==
    /\ iterators = {} /\ pending = {}
    /\ pc[IOKit] = "none" /\ pc[RunLoop] \notin Handling \cup {"lock"}
    /\ \A t \in Clients : pc[t] \notin Refreshing

\* Once all is told the table is up to date: the callbacks, which each read a
\* bit of the system, the lists they make when a bit does not suffice, and the
\* lists of IOKit and of clients add up, whatever changes while they do.
UpToDateWhenSettled == Settled => UpToDate

\* And all is told in the end, whoever registers and unregisters meanwhile.
ChangesAreTold == ~UpToDate ~> UpToDate \/ crashed

\* CFRunLoopStop came between the promise and CFRunLoopRun, and the thread
\* runs a loop nobody will stop.
StopLost(t) == pc[t] = "join" /\ ~stopped /\ pc[RunLoop] # "finished"

\* Every call returns, the callbacks under _notificationLock and the joined
\* thread not being in one another's way, unless the stop is lost.
CallsReturn ==
    \A t \in Clients :
        pc[t] \in {"clear", "unregister"} ~>
            pc[t] \in {"idle", "destroyed"} \/ crashed \/ StopLost(t)

\* "Release the dynamic store" (mac.mm:680) comes last: the thread is called
\* back with it until it is joined.  CFRunLoopStop finds a run loop and the
\* thread its promise, unless the two seconds' wait for it was over first.
LifetimesNest ==
    /\ pc[RunLoop] # "none" => store
    /\ crashed => threadReady = "gone"

=============================================================================
