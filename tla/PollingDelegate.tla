--------------------------- MODULE PollingDelegate ---------------------------
(***************************************************************************)
(* The whole library on a platform whose delegate polls: client threads     *)
(* inside of NetworkInterfaceHelperImpl, OsDependentDelegate_Unix           *)
(* (networkInterfaceHelper_unix.cpp; the delegate for iOS is the same code) *)
(* and its observer thread.  A step is the code between two accesses to     *)
(* state that another thread can reach.                                     *)
(*                                                                          *)
(* A list of interfaces is the version of the system's configuration it was *)
(* read from.  What one list does to the observers under the lock is the    *)
(* business of NetworkInterfaceHelper: here a publication is one step.      *)
(***************************************************************************)
EXTENDS Naturals

CONSTANTS
    Clients,      \* threads of the program that use the library
    Registrars,   \* those that register and unregister observers
    Observers,    \* observer objects
    MaxVersion,   \* bound: changes of the system's configuration
    MaxFailures,  \* bound: failures of getifaddrs or socket
    Nested        \* the callbacks in which observers are unregistered

NestedCalls == {"enumerateInterfaces", "onInterfaceAdded"}

ASSUME ClientsAssumption == Registrars \subseteq Clients
ASSUME BoundsAssumption == MaxVersion \in Nat \ {0} /\ MaxFailures \in Nat
ASSUME NestedAssumption == Nested \subseteq NestedCalls

ASSUME ObserversAssumption == Observers # {}

NoClient == "no client"
ASSUME NoClientAssumption == NoClient \notin Clients

\* No list at all, which is what _networkInterfaces holds at first and what
\* refreshInterfaces returns when it fails.
Empty == 0
Lists == 0 .. MaxVersion

VARIABLES
    system,          \* the version of the system's configuration
    failures,        \* how often reading it has failed
    observers,       \* _observers
    table,           \* _networkInterfaces
    holder,          \* the client that holds _lock from one step to the next
    pc,              \* where each client is
    todo,            \* where it goes when the delegate returns
    arg,             \* the observer it passed
    list,            \* the list it has read
    shouldTerminate, \* _shouldTerminate
    thread,          \* _observerThread; joinable unless "none"
    poller,          \* where the observer thread is
    polled,          \* the list it has read
    enumeratedOnce,  \* _enumeratedOnce
    crashed,         \* std::terminate was called
    restarted,       \* the last observer is gone, nothing was going on then nor
                     \* was called since (history variable)
    floor            \* the oldest list a client may be shown (history variable)

environment == <<system, failures>>
common == <<observers, table, holder>>
locals == <<todo, arg, list>>
delegate == <<shouldTerminate, thread, poller, polled, enumeratedOnce>>
history == <<restarted, floor>>
vars == <<environment, common, pc, locals, delegate, crashed, history>>

Locations == {"idle", "wait", "refresh", "publish", "enumerated", "register",
              "first", "start", "lookup", "unregister", "terminate", "joinable",
              "join", "clear", "reset", "unlock", "unlockFirst", "destroyed"}

TypeOK ==
    /\ system \in 1 .. MaxVersion
    /\ failures \in 0 .. MaxFailures
    /\ observers \subseteq Observers
    /\ table \in Lists
    /\ holder \in Clients \cup {NoClient}
    /\ pc \in [Clients -> Locations]
    /\ todo \in [Clients -> Locations]
    /\ arg \in [Clients -> Observers]
    /\ list \in [Clients -> Lists]
    /\ shouldTerminate \in BOOLEAN
    /\ thread \in {"none", "running", "finished"}
    /\ poller \in {"check", "refresh", "publish"}
    /\ polled \in Lists
    /\ enumeratedOnce \in BOOLEAN
    /\ crashed \in BOOLEAN
    /\ restarted \in BOOLEAN
    /\ floor \in [Clients -> Lists]

Init ==
    /\ system = 1
    /\ failures = 0
    /\ observers = {}
    /\ table = Empty
    /\ holder = NoClient
    /\ pc = [t \in Clients |-> "idle"]
    /\ todo = [t \in Clients |-> "idle"]
    /\ arg = [t \in Clients |-> CHOOSE o \in Observers : TRUE]
    /\ list = [t \in Clients |-> Empty]
    /\ shouldTerminate = FALSE
    /\ thread = "none"
    /\ poller = "check"
    /\ polled = Empty
    /\ enumeratedOnce = FALSE
    /\ crashed = FALSE
    /\ restarted = FALSE
    /\ floor = [t \in Clients |-> Empty]

-----------------------------------------------------------------------------
(* The environment and helpers. *)

SystemChanges ==
    /\ ~crashed
    /\ system < MaxVersion
    /\ system' = system + 1
    /\ UNCHANGED <<failures, common, pc, locals, delegate, crashed, history>>

\* refreshInterfaces: `l` is the list read; a call that fails leaves it empty.
RefreshInterfaces(l) ==
    /\ UNCHANGED system
    /\ \/ l = system /\ UNCHANGED failures
       \/ /\ l = Empty
          /\ failures < MaxFailures
          /\ failures' = failures + 1

Goto(t, from, to) ==
    /\ ~crashed
    /\ pc[t] = from
    /\ pc' = [pc EXCEPT ![t] = to]

\* _lock is recursive: the client that holds it may take it again.
Locked(t) == holder \in {NoClient, t}

Joinable == thread # "none"

\* std::terminate ends the program.
Crash ==
    /\ ~crashed
    /\ crashed' = TRUE
    /\ UNCHANGED <<environment, common, pc, locals, delegate, history>>

-----------------------------------------------------------------------------
(* Calls of a client.                                                       *)

Start(t, op) ==
    /\ Goto(t, "idle", "wait")
    /\ todo' = [todo EXCEPT ![t] = op]
    /\ floor' = [floor EXCEPT ![t] = IF restarted THEN system ELSE Empty]
    /\ restarted' = FALSE
    /\ UNCHANGED <<environment, common, list, delegate, crashed>>

\* registerObserver waits for the first enumeration before it does anything.
CallRegisterObserver(t) ==
    /\ Start(t, "register")
    /\ \E o \in Observers : arg' = [arg EXCEPT ![t] = o]

\* Mutant: the destructor does not terminate the thread.
CallDestroy_Directly(t) ==
    /\ \A u \in Clients : pc[u] = "idle"
    /\ Goto(t, "idle", "destroyed")
    /\ todo' = [todo EXCEPT ![t] = "destroyed"]
    /\ UNCHANGED <<environment, common, arg, list, delegate, crashed, history>>

\* The singleton is destroyed at the end of the program: `t` is the last
\* thread in it.
CallDestroy(t) ==
    /\ \A u \in Clients : pc[u] = "idle"
    /\ Goto(t, "idle", "terminate")
    /\ todo' = [todo EXCEPT ![t] = "destroyed"]
    /\ UNCHANGED <<environment, common, arg, list, delegate, crashed, history>>

\* enumerateInterfaces and getInterfaceByName.
CallLookup(t) == Start(t, "lookup") /\ UNCHANGED arg

CallUnregisterObserver(t) ==
    \E o \in observers :
        /\ Goto(t, "idle", "unregister")
        /\ arg' = [arg EXCEPT ![t] = o]
        /\ todo' = [todo EXCEPT ![t] = "idle"]
        /\ UNCHANGED <<environment, common, list, delegate, crashed, history>>

-----------------------------------------------------------------------------
(* OsDependentDelegate_Unix::waitForFirstEnumeration *)

\* Mutant: the test is the wrong way around.
Wait_Inverted(t) ==
    /\ Goto(t, "wait", IF enumeratedOnce THEN "refresh" ELSE todo[t])
    /\ UNCHANGED <<environment, common, locals, delegate, crashed, history>>

Wait(t) ==
    /\ Goto(t, "wait", IF enumeratedOnce THEN todo[t] ELSE "refresh")
    /\ UNCHANGED <<environment, common, locals, delegate, crashed, history>>

Refresh(t) ==
    /\ Goto(t, "refresh", "publish")
    /\ \E l \in Lists :
        /\ RefreshInterfaces(l)
        /\ list' = [list EXCEPT ![t] = l]
    /\ UNCHANGED <<common, todo, arg, delegate, crashed, history>>

\* Mutant: the lock is taken and never released.
Publish_KeepsLock(t) ==
    /\ Goto(t, "publish", "enumerated")
    /\ Locked(t)
    /\ table' = list[t]
    /\ holder' = t
    /\ UNCHANGED <<environment, observers, locals, delegate, crashed, history>>

\* The list is moved from.
Publish(t) ==
    /\ Goto(t, "publish", "enumerated")
    /\ Locked(t)
    /\ table' = list[t]
    /\ list' = [list EXCEPT ![t] = Empty]
    /\ UNCHANGED <<environment, observers, holder, todo, arg, delegate, crashed, history>>

Enumerated(t) ==
    /\ Goto(t, "enumerated", todo[t])
    /\ enumeratedOnce' = TRUE
    /\ UNCHANGED <<environment, common, locals, shouldTerminate, thread, poller,
                   polled, crashed, history>>

-----------------------------------------------------------------------------
(* NetworkInterfaceHelperImpl, under the lock *)

Lookup(t) ==
    /\ Goto(t, "lookup", "idle")
    /\ Locked(t)
    /\ UNCHANGED <<environment, common, locals, delegate, crashed, history>>

\* The handler runs under the lock and calls unregisterObserver.
LookupUnregisters(t) ==
    /\ "enumerateInterfaces" \in Nested
    /\ Goto(t, "lookup", "unregister")
    /\ Locked(t)
    /\ table # Empty
    /\ holder' = t
    /\ todo' = [todo EXCEPT ![t] = "unlock"]
    /\ \E o \in Observers : arg' = [arg EXCEPT ![t] = o]
    /\ UNCHANGED <<environment, observers, table, list, delegate, crashed, history>>

\* Mutant: every registration is taken for the first.
RegisterObserver_Always(t) ==
    /\ Goto(t, "register", "first")
    /\ Locked(t)
    /\ observers' = observers \cup {arg[t]}
    /\ UNCHANGED <<environment, table, holder, locals, delegate, crashed, history>>

RegisterObserver(t) ==
    /\ Goto(t, "register",
            IF arg[t] \notin observers /\ observers = {} THEN "first" ELSE "idle")
    /\ Locked(t)
    /\ observers' = observers \cup {arg[t]}
    /\ UNCHANGED <<environment, table, holder, locals, delegate, crashed, history>>

\* The new observer unregisters itself in the onInterfaceAdded it is given.
RegisterUnregisters(t) ==
    /\ "onInterfaceAdded" \in Nested
    /\ Goto(t, "register", "unregister")
    /\ Locked(t)
    /\ table # Empty
    /\ arg[t] \notin observers
    /\ observers' = observers \cup {arg[t]}
    /\ holder' = t
    /\ todo' = [todo EXCEPT ![t] = IF observers = {} THEN "unlockFirst" ELSE "unlock"]
    /\ UNCHANGED <<environment, table, arg, list, delegate, crashed, history>>

\* Mutant: whether it is the last one is seen before it is erased.
UnregisterObserver_Early(t) ==
    /\ Goto(t, "unregister", IF observers = {} THEN "terminate" ELSE todo[t])
    /\ Locked(t)
    /\ observers' = observers \ {arg[t]}
    /\ UNCHANGED <<environment, table, holder, locals, delegate, crashed, history>>

UnregisterObserver(t) ==
    /\ Goto(t, "unregister", IF observers = {arg[t]} THEN "terminate" ELSE todo[t])
    /\ Locked(t)
    /\ observers' = observers \ {arg[t]}
    /\ UNCHANGED <<environment, table, holder, locals, delegate, crashed, history>>

Unlock(t) ==
    /\ \/ Goto(t, "unlock", "idle")
       \/ Goto(t, "unlockFirst", "first")
    /\ holder' = NoClient
    /\ UNCHANGED <<environment, observers, table, locals, delegate, crashed, history>>

-----------------------------------------------------------------------------
(* OsDependentDelegate_Unix::onFirstObserverRegistered *)

\* Mutant: the flag stays as the last termination left it.
OnFirstObserverRegistered_FlagKept(t) ==
    /\ Goto(t, "first", "start")
    /\ UNCHANGED <<environment, common, locals, delegate, crashed, history>>

OnFirstObserverRegistered(t) ==
    /\ Goto(t, "first", "start")
    /\ shouldTerminate' = FALSE
    /\ UNCHANGED <<environment, common, locals, thread, poller, polled,
                   enumeratedOnce, crashed, history>>

\* Assigning to a std::thread that is joinable calls std::terminate.
StartThread(t) ==
    \/ pc[t] = "start" /\ Joinable /\ Crash
    \/ /\ Goto(t, "start", "idle")
       /\ ~Joinable
       /\ thread' = "running"
       /\ poller' = "check"
       /\ UNCHANGED <<environment, common, locals, shouldTerminate, polled,
                      enumeratedOnce, crashed, history>>

-----------------------------------------------------------------------------
(* OsDependentDelegate_Unix::terminateObserverThread *)

\* Mutant: the thread is joined without being told to end.
Terminate_NotTold(t) ==
    /\ Goto(t, "terminate", "joinable")
    /\ UNCHANGED <<environment, common, locals, delegate, crashed, history>>

Terminate(t) ==
    /\ Goto(t, "terminate", "joinable")
    /\ shouldTerminate' = TRUE
    /\ UNCHANGED <<environment, common, locals, thread, poller, polled,
                   enumeratedOnce, crashed, history>>

CheckJoinable(t) ==
    /\ Goto(t, "joinable", IF Joinable THEN "join" ELSE todo[t])
    /\ UNCHANGED <<environment, common, locals, delegate, crashed, history>>

\* Mutant: the thread is detached instead of joined.
Join_Detaches(t) ==
    /\ Goto(t, "join", "clear")
    /\ thread' = "detached"
    /\ UNCHANGED <<environment, common, locals, shouldTerminate, poller, polled,
                   enumeratedOnce, crashed, history>>

\* Joining a std::thread that is not joinable throws, out of a noexcept method.
Join(t) ==
    \/ pc[t] = "join" /\ ~Joinable /\ Crash
    \/ /\ Goto(t, "join", "clear")
       /\ thread = "finished"
       /\ thread' = "none"
       /\ UNCHANGED <<environment, common, locals, shouldTerminate, poller, polled,
                      enumeratedOnce, crashed, history>>

ClearThread(t) ==
    \/ pc[t] = "clear" /\ Joinable /\ Crash
    \/ /\ Goto(t, "clear", "reset")
       /\ ~Joinable
       /\ UNCHANGED <<environment, common, locals, delegate, crashed, history>>

\* Mutant: the next call does not enumerate again.
ResetEnumerated_Not(t) ==
    /\ Goto(t, "reset", todo[t])
    /\ restarted' = \A u \in Clients \ {t} : pc[u] = "idle"
    /\ UNCHANGED <<environment, common, locals, delegate, crashed, floor>>

ResetEnumerated(t) ==
    /\ Goto(t, "reset", todo[t])
    /\ enumeratedOnce' = FALSE
    /\ restarted' = \A u \in Clients \ {t} : pc[u] = "idle"
    /\ UNCHANGED <<environment, common, locals, shouldTerminate, thread, poller,
                   polled, crashed, floor>>

-----------------------------------------------------------------------------
(* The observer thread.  Sleeping is not modelled: between two polls it      *)
(* only looks at _shouldTerminate.                                           *)

PollerAt(from, to) ==
    /\ ~crashed
    /\ thread = "running"
    /\ poller = from
    /\ poller' = to

PollerChecks ==
    /\ \/ PollerAt("check", "check") /\ shouldTerminate /\ thread' = "finished"
       \/ PollerAt("check", "refresh") /\ ~shouldTerminate /\ UNCHANGED thread
    /\ UNCHANGED <<environment, common, pc, locals, shouldTerminate, polled,
                   enumeratedOnce, crashed, history>>

PollerRefreshes ==
    /\ PollerAt("refresh", "publish")
    /\ \E l \in Lists : RefreshInterfaces(l) /\ polled' = l
    /\ UNCHANGED <<common, pc, locals, shouldTerminate, thread, enumeratedOnce,
                   crashed, history>>

PollerPublishes ==
    /\ PollerAt("publish", "check")
    /\ holder = NoClient
    /\ table' = polled
    /\ polled' = Empty
    /\ UNCHANGED <<environment, observers, holder, pc, locals, shouldTerminate,
                   thread, enumeratedOnce, crashed, history>>

Poller == PollerChecks \/ PollerRefreshes \/ PollerPublishes

-----------------------------------------------------------------------------
\* No call is made once the singleton is being destroyed.
Destroying == \E t \in Clients : "destroyed" \in {pc[t], todo[t]}

Call(t) ==
    /\ ~Destroying
    /\ \/ CallLookup(t)
       \/ t \in Registrars /\ (CallRegisterObserver(t) \/ CallUnregisterObserver(t))
       \/ t \in Registrars /\ CallDestroy(t)

\* What a client does by itself once it has called.
Proceed(t) ==
    \/ Wait(t) \/ Refresh(t) \/ Publish(t) \/ Enumerated(t)
    \/ Lookup(t) \/ LookupUnregisters(t)
    \/ RegisterObserver(t) \/ RegisterUnregisters(t) \/ UnregisterObserver(t)
    \/ Unlock(t)
    \/ OnFirstObserverRegistered(t) \/ StartThread(t)
    \/ Terminate(t) \/ CheckJoinable(t) \/ Join(t) \/ ClearThread(t)
    \/ ResetEnumerated(t)

\* Those of its steps that wait for _lock.
Locks(t) == Publish(t) \/ Lookup(t) \/ RegisterObserver(t) \/ UnregisterObserver(t)

Next ==
    \/ SystemChanges
    \/ Poller
    \/ \E t \in Clients : Call(t) \/ Proceed(t)

Spec == Init /\ [][Next]_vars

\* Threads that can run are run, and a mutex that is free again and again is
\* obtained in the end; clients need not call, the system need not change.
FairSpec ==
    /\ Spec
    /\ WF_vars(Poller)
    /\ \A t \in Clients : WF_vars(Proceed(t)) /\ SF_vars(Locks(t))

-----------------------------------------------------------------------------
(* Properties. *)

\* std::thread is never assigned while joinable nor joined while not.
NoCrash == ~crashed

\* While nobody is registering or unregistering, the observer thread runs if
\* and only if somebody observes.
PollsWhenObserved ==
    (\A t \in Registrars : pc[t] = "idle") =>
        IF observers = {} THEN thread = "none"
                          ELSE thread = "running" /\ ~shouldTerminate

\* tests/src/networkInterfaceHelper_tests.cpp:59: "check for valid enumeration
\* after the engine has been restarted": the first thing done after the last
\* observer was unregistered shows the system as it is then, not as it was.
FreshAfterRestart ==
    \A t \in Clients : pc[t] \in {"register", "lookup"} =>
        table >= floor[t] \/ failures > 0

\* common.hpp:70: "Must block until the first enumeration occured since
\* creation": whoever is past waitForFirstEnumeration sees a list.
WaitsForEnumeration ==
    \A t \in Clients : pc[t] \in {"register", "lookup"} =>
        table # Empty \/ failures > 0

\* common.cpp:198 and 232: "Notify OS-dependent code outside the lock".
OutsideTheLock ==
    \A t \in Clients :
        pc[t] \in {"first", "start", "terminate", "joinable", "join"} => holder # t

\* While there are observers, whatever the system is like is told to them:
\* failures of a poll are made up for, and the thread is not lost.
ObserversCatchUp ==
    observers # {} ~> (table = system \/ observers = {} \/ Destroying)

\* Every call returns, or ends the program; the one that unregisters the last
\* observer in particular gets the observer thread to end.
CallsReturn ==
    \A t \in Clients :
        pc[t] # "idle" ~> (pc[t] \in {"idle", "destroyed"} \/ crashed)

\* A lookup is never held up for good by other clients, whatever they do to the
\* observer thread, save by one that waits for its end with the lock held.
LookupsReturn ==
    \A t \in Clients :
        todo[t] = "lookup" /\ pc[t] = "wait" ~>
            \/ pc[t] = "idle"
            \/ crashed
            \/ \E u \in Clients : pc[u] = "join" /\ holder = u

\* common.cpp:109: destroying the delegate prevents "any new events from
\* triggering after we get destroyed".
SilentOnceDestroyed ==
    (\E t \in Clients : pc[t] = "destroyed") => thread = "none"

=============================================================================
