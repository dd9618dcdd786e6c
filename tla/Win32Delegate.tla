---------------------------- MODULE Win32Delegate ----------------------------
(***************************************************************************)
(* The whole library on Windows: client threads inside of                   *)
(* NetworkInterfaceHelperImpl, OsDependentDelegate_Win32                    *)
(* (networkInterfaceHelper_win32.cpp) and its observer thread.  Unlike on   *)
(* the other platforms all enumerations are made by that thread, because    *)
(* COM is initialised in it: it is created by the first call of any kind,   *)
(* which waits on a condition variable for the first enumeration.           *)
(*                                                                          *)
(* A list of interfaces is the version of the system's configuration it was *)
(* read from, as in PollingDelegate, and a publication is one step.         *)
(***************************************************************************)
EXTENDS Naturals

CONSTANTS
    Clients,     \* threads of the program that use the library
    Registrars,  \* those that register and unregister observers
    Observers,   \* observer objects
    MaxVersion,  \* bound: changes of the system's configuration
    MaxFailures  \* bound: failures of WMI, and of GetAdaptersAddresses

ASSUME ClientsAssumption == Registrars \subseteq Clients
ASSUME BoundsAssumption == MaxVersion \in Nat \ {0} /\ MaxFailures \in Nat

NoClient == "no client"
ASSUME ObserversAssumption == Observers # {}
ASSUME NoClientAssumption == NoClient \notin Clients

Empty == 0
Lists == 0 .. MaxVersion

VARIABLES
    system,          \* the version of the system's configuration
    failures,        \* how often WMI has failed
    blanks,          \* how often GetAdaptersAddresses has failed
    observers,       \* _observers
    table,           \* _networkInterfaces
    pc,              \* where each client is
    todo,            \* what it called for and has still to do
    arg,             \* the observer it passed
    shouldTerminate, \* _shouldTerminate
    created,         \* _observerThreadCreated
    thread,          \* _observerThread; joinable unless "none"
    poller,          \* where the observer thread is
    polled,          \* the list it has read
    enumeratedOnce,  \* _enumeratedOnce
    syncLock,        \* the client that holds _syncLock
    comGuard,        \* _comGuard has a value
    crashed,         \* std::terminate was called
    born,            \* the version of the system when the latest observer thread
                     \* was about to be made (history variable)
    floor,           \* the same when a client last found or made a thread: the
                     \* oldest list it may be shown (history variable)
    hasty            \* the clients that found _enumeratedOnce set after another
                     \* one had reset _observerThreadCreated and before it
                     \* reset _enumeratedOnce as well (history variable)

environment == <<system, failures, blanks>>
common == <<observers, table>>
locals == <<todo, arg>>
delegate == <<shouldTerminate, created, thread, enumeratedOnce, syncLock>>
polling == <<poller, polled, comGuard>>
history == <<born, floor, hasty>>
vars == <<environment, common, pc, locals, delegate, polling, crashed, history>>

Locations == {"idle", "create", "setFlag", "spawn", "check", "lock", "test",
              "sleep", "asleep", "register", "lookup", "unregister",
              "terminate", "joinable", "join", "clear", "uncreate", "reset",
              "destroyed"}
Tasks == {"idle", "register", "lookup", "destroyed"}

TypeOK ==
    /\ system \in 1 .. MaxVersion
    /\ failures \in 0 .. MaxFailures
    /\ blanks \in 0 .. MaxFailures
    /\ observers \subseteq Observers
    /\ table \in Lists
    /\ pc \in [Clients -> Locations]
    /\ todo \in [Clients -> Tasks]
    /\ arg \in [Clients -> Observers]
    /\ shouldTerminate \in BOOLEAN
    /\ created \in BOOLEAN
    /\ thread \in {"none", "running", "finished"}
    /\ poller \in {"init", "check", "refresh", "publish", "set", "notify"}
    /\ polled \in Lists
    /\ enumeratedOnce \in BOOLEAN
    /\ syncLock \in Clients \cup {NoClient}
    /\ comGuard \in BOOLEAN
    /\ crashed \in BOOLEAN
    /\ born \in Lists
    /\ floor \in [Clients -> Lists]
    /\ hasty \subseteq Clients

Init ==
    /\ system = 1
    /\ failures = 0
    /\ blanks = 0
    /\ observers = {}
    /\ table = Empty
    /\ pc = [t \in Clients |-> "idle"]
    /\ todo = [t \in Clients |-> "idle"]
    /\ arg = [t \in Clients |-> CHOOSE o \in Observers : TRUE]
    /\ shouldTerminate = FALSE
    /\ created = FALSE
    /\ thread = "none"
    /\ poller = "init"
    /\ polled = Empty
    /\ enumeratedOnce = FALSE
    /\ syncLock = NoClient
    /\ comGuard = FALSE
    /\ crashed = FALSE
    /\ born = Empty
    /\ floor = [t \in Clients |-> Empty]
    /\ hasty = {}

-----------------------------------------------------------------------------
SystemChanges ==
    /\ ~crashed
    /\ system < MaxVersion
    /\ system' = system + 1
    /\ UNCHANGED <<failures, blanks, common, pc, locals, delegate, polling, crashed,
                   history>>

Goto(t, from, to) ==
    /\ ~crashed
    /\ pc[t] = from
    /\ pc' = [pc EXCEPT ![t] = to]

Joinable == thread # "none"

-----------------------------------------------------------------------------
(* Calls of a client. *)

Start(t, o, op) ==
    /\ Goto(t, "idle", "create")
    /\ todo' = [todo EXCEPT ![t] = op]
    /\ arg' = [arg EXCEPT ![t] = o]
    /\ UNCHANGED <<environment, common, delegate, polling, crashed, history>>

CallRegisterObserver(t) == \E o \in Observers : Start(t, o, "register")

CallLookup(t) == Start(t, arg[t], "lookup")

CallUnregisterObserver(t) ==
    \E o \in observers :
        /\ Goto(t, "idle", "unregister")
        /\ arg' = [arg EXCEPT ![t] = o]
        /\ UNCHANGED <<environment, common, todo, delegate, polling, crashed, history>>

\* The singleton is destroyed at the end of the program: `t` is the last
\* thread in it.
CallDestroy(t) ==
    /\ \A u \in Clients : pc[u] = "idle"
    /\ Goto(t, "idle", "terminate")
    /\ todo' = [todo EXCEPT ![t] = "destroyed"]
    /\ UNCHANGED <<environment, common, arg, delegate, polling, crashed, history>>

Destroying == \E t \in Clients : "destroyed" \in {pc[t], todo[t]}

Call(t) ==
    /\ ~Destroying
    /\ \/ CallLookup(t)
       \/ t \in Registrars /\ (CallRegisterObserver(t) \/ CallUnregisterObserver(t))
       \/ t \in Registrars /\ CallDestroy(t)

-----------------------------------------------------------------------------
(* OsDependentDelegate_Win32::createObserverThread *)

\* waitForFirstEnumeration goes on with its test, onFirstObserverRegistered
\* returns.
AfterCreate(t) == IF todo[t] = "idle" THEN "idle" ELSE "check"

\* The list to wait for is one read since the thread there is was made, or by
\* the one that is made now.
Await(t, made) ==
    /\ born' = IF made THEN born ELSE system
    /\ floor' = [floor EXCEPT ![t] = born']
    /\ UNCHANGED hasty

\* Mutant: what the exchange returns is ignored.
Create_Always(t) ==
    /\ Goto(t, "create", "setFlag")
    /\ created' = TRUE
    /\ Await(t, FALSE)
    /\ UNCHANGED <<environment, common, locals, shouldTerminate, thread,
                   enumeratedOnce, syncLock, polling, crashed>>

Create(t) ==
    /\ Goto(t, "create", IF created THEN AfterCreate(t) ELSE "setFlag")
    /\ created' = TRUE
    /\ Await(t, created)
    /\ UNCHANGED <<environment, common, locals, shouldTerminate, thread,
                   enumeratedOnce, syncLock, polling, crashed>>

ClearFlag(t) ==
    /\ Goto(t, "setFlag", "spawn")
    /\ shouldTerminate' = FALSE
    /\ UNCHANGED <<environment, common, locals, created, thread, enumeratedOnce,
                   syncLock, polling, crashed, history>>

\* Assigning to a std::thread that is joinable, or joining one that is not,
\* calls std::terminate, the methods being noexcept, and ends the program.
SpawnThread(t) ==
    /\ Goto(t, "spawn", AfterCreate(t))
    /\ crashed' = Joinable
    /\ thread' = "running"
    /\ poller' = "init"
    /\ UNCHANGED <<environment, common, locals, shouldTerminate, created,
                   enumeratedOnce, syncLock, polled, comGuard, history>>

-----------------------------------------------------------------------------
(* OsDependentDelegate_Win32::waitForFirstEnumeration *)

\* terminateObserverThread is between its last two lines.
HalfReset == \E u \in Clients : pc[u] = "reset"

CheckEnumerated(t) ==
    /\ Goto(t, "check", IF enumeratedOnce THEN todo[t] ELSE "lock")
    /\ hasty' = IF enumeratedOnce /\ HalfReset THEN hasty \cup {t} ELSE hasty
    /\ UNCHANGED <<environment, common, locals, delegate, polling, crashed, born, floor>>

LockSync(t) ==
    /\ Goto(t, "lock", "test")
    /\ syncLock = NoClient
    /\ syncLock' = t
    /\ UNCHANGED <<environment, common, locals, shouldTerminate, created, thread,
                   enumeratedOnce, polling, crashed, history>>

\* The predicate of condition_variable::wait.
TestEnumerated(t) ==
    /\ Goto(t, "test", IF enumeratedOnce THEN todo[t] ELSE "sleep")
    /\ syncLock' = IF enumeratedOnce THEN NoClient ELSE t
    /\ UNCHANGED <<environment, common, locals, shouldTerminate, created, thread,
                   enumeratedOnce, polling, crashed, history>>

\* Only from here on does notify_all reach the client.
Sleep(t) ==
    /\ Goto(t, "sleep", "asleep")
    /\ syncLock' = NoClient
    /\ UNCHANGED <<environment, common, locals, shouldTerminate, created, thread,
                   enumeratedOnce, polling, crashed, history>>

SpuriousWakeup(t) ==
    /\ Goto(t, "asleep", "lock")
    /\ UNCHANGED <<environment, common, locals, delegate, polling, crashed, history>>

-----------------------------------------------------------------------------
(* NetworkInterfaceHelperImpl, under the lock *)

Lookup(t) ==
    /\ Goto(t, "lookup", "idle")
    /\ todo' = [todo EXCEPT ![t] = "idle"]
    /\ floor' = [floor EXCEPT ![t] = Empty]
    /\ hasty' = hasty \ {t}
    /\ UNCHANGED <<environment, common, arg, delegate, polling, crashed, born>>

\* onFirstObserverRegistered is createObserverThread.
RegisterObserver(t) ==
    /\ Goto(t, "register",
            IF arg[t] \notin observers /\ observers = {} THEN "create" ELSE "idle")
    /\ observers' = observers \cup {arg[t]}
    /\ todo' = [todo EXCEPT ![t] = "idle"]
    /\ floor' = [floor EXCEPT ![t] = Empty]
    /\ hasty' = hasty \ {t}
    /\ UNCHANGED <<environment, table, arg, delegate, polling, crashed, born>>

\* Mutant: the thread is terminated whoever is left.
UnregisterObserver_Always(t) ==
    /\ Goto(t, "unregister", "terminate")
    /\ observers' = observers \ {arg[t]}
    /\ UNCHANGED <<environment, table, locals, delegate, polling, crashed, history>>

UnregisterObserver(t) ==
    /\ Goto(t, "unregister", IF observers = {arg[t]} THEN "terminate" ELSE "idle")
    /\ observers' = observers \ {arg[t]}
    /\ UNCHANGED <<environment, table, locals, delegate, polling, crashed, history>>

-----------------------------------------------------------------------------
(* OsDependentDelegate_Win32::terminateObserverThread *)

Terminate(t) ==
    /\ Goto(t, "terminate", "joinable")
    /\ shouldTerminate' = TRUE
    /\ UNCHANGED <<environment, common, locals, created, thread, enumeratedOnce,
                   syncLock, polling, crashed, history>>

CheckJoinable(t) ==
    /\ Goto(t, "joinable", IF Joinable THEN "join" ELSE todo[t])
    /\ UNCHANGED <<environment, common, locals, delegate, polling, crashed, history>>

Join(t) ==
    /\ Goto(t, "join", "clear")
    /\ thread # "running"
    /\ crashed' = ~Joinable
    /\ thread' = "none"
    /\ UNCHANGED <<environment, common, locals, shouldTerminate, created,
                   enumeratedOnce, syncLock, polling, history>>

ClearThread(t) ==
    /\ Goto(t, "clear", "uncreate")
    /\ crashed' = Joinable
    /\ UNCHANGED <<environment, common, locals, delegate, polling, history>>

ResetCreated(t) ==
    /\ Goto(t, "uncreate", "reset")
    /\ created' = FALSE
    /\ UNCHANGED <<environment, common, locals, shouldTerminate, thread,
                   enumeratedOnce, syncLock, polling, crashed, history>>

\* Mutant: the next call does not wait for an enumeration.
ResetEnumerated_Not(t) ==
    /\ Goto(t, "reset", todo[t])
    /\ UNCHANGED <<environment, common, locals, delegate, polling, crashed, history>>

ResetEnumerated(t) ==
    /\ Goto(t, "reset", todo[t])
    /\ enumeratedOnce' = FALSE
    /\ UNCHANGED <<environment, common, locals, shouldTerminate, created, thread,
                   syncLock, polling, crashed, history>>

-----------------------------------------------------------------------------
(* The observer thread. *)

PollerAt(from, to) ==
    /\ ~crashed
    /\ thread = "running"
    /\ poller = from
    /\ poller' = to

\* CoInitializeEx may fail: COM may already be initialised another way.
PollerInitialises ==
    /\ PollerAt("init", "check")
    /\ comGuard' \in BOOLEAN
    /\ UNCHANGED <<environment, common, pc, locals, delegate, polled, crashed, history>>

\* Mutant: COM is not released when the thread ends.
PollerChecks_KeepsCom ==
    /\ \/ PollerAt("check", "check") /\ shouldTerminate /\ thread' = "finished"
       \/ PollerAt("check", "refresh") /\ ~shouldTerminate /\ UNCHANGED thread
    /\ UNCHANGED <<environment, common, pc, locals, shouldTerminate, created,
                   enumeratedOnce, syncLock, polled, comGuard, crashed, history>>

PollerChecks ==
    /\ \/ /\ PollerAt("check", "check") /\ shouldTerminate
          /\ thread' = "finished"
          /\ comGuard' = FALSE
       \/ /\ PollerAt("check", "refresh") /\ ~shouldTerminate
          /\ UNCHANGED <<thread, comGuard>>
    /\ UNCHANGED <<environment, common, pc, locals, shouldTerminate, created,
                   enumeratedOnce, syncLock, polled, crashed, history>>

\* refreshInterfaces: WMI if there is COM ...
PollerUsesWMI ==
    /\ PollerAt("refresh", "publish")
    /\ comGuard
    /\ polled' = system
    /\ UNCHANGED <<environment, common, pc, locals, delegate, comGuard, crashed, history>>

\* ... which this thread does without once WMI has failed ...
PollerGivesUpWMI ==
    /\ PollerAt("refresh", "refresh")
    /\ comGuard
    /\ failures < MaxFailures
    /\ failures' = failures + 1
    /\ comGuard' = FALSE
    /\ UNCHANGED <<system, blanks, common, pc, locals, delegate, polled, crashed, history>>

\* ... and the plain API if there is none.  If it fails the list is empty.
PollerUsesWinAPI ==
    /\ PollerAt("refresh", "publish")
    /\ ~comGuard
    /\ \/ polled' = system /\ UNCHANGED blanks
       \/ /\ polled' = Empty
          /\ blanks < MaxFailures
          /\ blanks' = blanks + 1
    /\ UNCHANGED <<system, failures, common, pc, locals, delegate, comGuard, crashed,
                   history>>

\* The list is moved from.
PollerPublishes ==
    /\ PollerAt("publish", "set")
    /\ table' = polled
    /\ polled' = Empty
    /\ UNCHANGED <<environment, observers, pc, locals, delegate, comGuard,
                   crashed, history>>

PollerSetsEnumerated ==
    /\ PollerAt("set", "notify")
    /\ enumeratedOnce' = TRUE
    /\ UNCHANGED <<environment, common, pc, locals, shouldTerminate, created, thread,
                   syncLock, polled, comGuard, crashed, history>>

\* Mutant: nobody is notified.
PollerNotifies_Nobody ==
    /\ PollerAt("notify", "check")
    /\ UNCHANGED <<environment, common, pc, locals, delegate, polled, comGuard,
                   crashed, history>>

\* notify_all, called without _syncLock.
PollerNotifies ==
    /\ PollerAt("notify", "check")
    /\ pc' = [t \in Clients |-> IF pc[t] = "asleep" THEN "lock" ELSE pc[t]]
    /\ UNCHANGED <<environment, common, locals, delegate, polled, comGuard,
                   crashed, history>>

Poller ==
    \/ PollerInitialises \/ PollerChecks \/ PollerUsesWMI \/ PollerGivesUpWMI
    \/ PollerUsesWinAPI
    \/ PollerPublishes \/ PollerSetsEnumerated \/ PollerNotifies

-----------------------------------------------------------------------------
\* What a client does by itself once it has called.
Proceed(t) ==
    \/ Create(t) \/ ClearFlag(t) \/ SpawnThread(t)
    \/ CheckEnumerated(t) \/ LockSync(t) \/ TestEnumerated(t) \/ Sleep(t)
    \/ Lookup(t) \/ RegisterObserver(t) \/ UnregisterObserver(t)
    \/ Terminate(t) \/ CheckJoinable(t) \/ Join(t) \/ ClearThread(t)
    \/ ResetCreated(t) \/ ResetEnumerated(t)

Next ==
    \/ SystemChanges
    \/ Poller
    \/ \E t \in Clients : Call(t) \/ Proceed(t) \/ SpuriousWakeup(t)

Spec == Init /\ [][Next]_vars

\* Threads that can run are run, and a mutex that is free again and again is
\* obtained in the end; no client need call, no wakeup need be spurious.
FairSpec ==
    /\ Spec
    /\ WF_vars(Poller)
    /\ \A t \in Clients : WF_vars(Proceed(t)) /\ SF_vars(LockSync(t))

-----------------------------------------------------------------------------
(* Properties. *)

\* _observerThreadCreated keeps the threads apart: whatever clients do, the
\* one that won the exchange finds no observer thread, running or unjoined.
SpawnsAlone == \A t \in Clients : pc[t] = "spawn" => ~Joinable

\* While nobody is registering or unregistering, somebody who observes is
\* served by a thread that goes on polling.
PollsWhenObserved ==
    (\A t \in Registrars : pc[t] = "idle") /\ observers # {} =>
        created /\ thread = "running" /\ ~shouldTerminate

\* tests/src/networkInterfaceHelper_tests.cpp:59: "check for valid enumeration
\* after the engine has been restarted", and win32.cpp:608: "Must block until the
\* first enumeration occured since creation".  Whoever is past
\* waitForFirstEnumeration, whoever else calls at the same time, is shown a list
\* read since the thread was made that it made or found there.  Excepted are
\* those that are hasty: they test _enumeratedOnce between the two lines of
\* terminateObserverThread that reset the flags, find what the last thread left,
\* and may be shown its table.
FreshAfterRestart ==
    \A t \in Clients \ hasty : pc[t] \in {"register", "lookup"} =>
        table >= floor[t] \/ blanks > 0

\* A client that waits while another one terminates the thread it waits for.
Abandoned(t) ==
    /\ pc[t] \in {"check", "lock", "test", "sleep", "asleep"}
    /\ \E u \in Clients : pc[u] \in {"joinable", "join", "clear", "uncreate", "reset"}

\* Every client that waits for an enumeration is woken, though the thread that
\* enumerates notifies without the mutex: a wakeup that is lost is repeated
\* after the next poll.  Every call returns or ends the program, save those
\* that are abandoned, which may never be woken.
CallsReturn ==
    \A t \in Clients :
        pc[t] \in {"create", "unregister"} ~>
            pc[t] \in {"idle", "destroyed"} \/ crashed \/ Abandoned(t)

\* win32.cpp:746: "ComGuard to be sure CoUninitialize is called upon program
\* termination", and by the thread that initialised COM.
ComReleased == comGuard => thread = "running"

=============================================================================
