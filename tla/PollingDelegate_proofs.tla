------------------------ MODULE PollingDelegate_proofs ------------------------
(***************************************************************************)
(* Safety of the delegate that polls for any clients, registrars and        *)
(* observers, any number of changes of the system and of failures.          *)
(***************************************************************************)
EXTENDS PollingDelegate, TLAPS

-----------------------------------------------------------------------------
(* Types. *)

LEMMA RefreshType ==
    ASSUME TypeOK, NEW l \in Lists, RefreshInterfaces(l)
    PROVE  system' \in 1 .. MaxVersion /\ failures' \in 0 .. MaxFailures
<1>1. CASE UNCHANGED failures
  BY <1>1 DEF RefreshInterfaces, TypeOK
<1>2. CASE failures < MaxFailures /\ failures' = failures + 1
  BY <1>2, BoundsAssumption DEF RefreshInterfaces, TypeOK
<1> QED BY <1>1, <1>2 DEF RefreshInterfaces

LEMMA TypeStep == TypeOK /\ [Next]_vars => TypeOK'
<1> SUFFICES ASSUME TypeOK, [Next]_vars PROVE TypeOK'
    OBVIOUS
<1> USE ClientsAssumption, BoundsAssumption, NoClientAssumption
<1> USE DEF TypeOK, Locations, Lists, Empty, environment, common, locals, delegate,
            history, Goto, PollerAt
<1>1. CASE SystemChanges
  BY <1>1 DEF SystemChanges
<1>2. CASE Poller
  <2>1. CASE PollerChecks       BY <2>1 DEF PollerChecks
  <2>2. CASE PollerRefreshes
    <3>1. PICK l \in Lists : RefreshInterfaces(l) /\ polled' = l
      BY <2>2 DEF PollerRefreshes
    <3>2. system' \in 1 .. MaxVersion /\ failures' \in 0 .. MaxFailures
      BY <3>1, RefreshType
    <3> QED BY <2>2, <3>1, <3>2, Zenon DEF PollerRefreshes
  <2>3. CASE PollerPublishes    BY <2>3 DEF PollerPublishes
  <2> QED BY <1>2, <2>1, <2>2, <2>3 DEF Poller
<1>3. ASSUME NEW t \in Clients, Call(t) PROVE TypeOK'
  <2>1. ASSUME NEW op \in Locations, Start(t, op), arg' \in [Clients -> Observers]
        PROVE  TypeOK'
    <3>1. (IF restarted THEN system ELSE Empty) \in Lists  OBVIOUS
    <3>2. floor' \in [Clients -> Lists]  BY <2>1, <3>1, Zenon DEF Start
    <3>3. pc' \in [Clients -> Locations] /\ todo' \in [Clients -> Locations]
      BY <2>1 DEF Start
    <3> QED BY <2>1, <3>2, <3>3, Zenon DEF Start
  <2>2. CASE CallLookup(t)             BY <2>1, <2>2 DEF CallLookup
  <2>3. CASE CallRegisterObserver(t)   BY <2>1, <2>3 DEF CallRegisterObserver
  <2>4. CASE CallUnregisterObserver(t) BY <2>4 DEF CallUnregisterObserver
  <2>5. CASE CallDestroy(t)            BY <2>5 DEF CallDestroy
  <2> QED BY <1>3, <2>2, <2>3, <2>4, <2>5 DEF Call
<1>4. ASSUME NEW t \in Clients, Proceed(t) PROVE TypeOK'
  <2>1. CASE Wait(t)             BY <2>1 DEF Wait
  <2>2. CASE Refresh(t)
    <3>1. PICK l \in Lists : RefreshInterfaces(l) /\ list' = [list EXCEPT ![t] = l]
      BY <2>2 DEF Refresh
    <3>2. system' \in 1 .. MaxVersion /\ failures' \in 0 .. MaxFailures
      BY <3>1, RefreshType
    <3>3. pc' \in [Clients -> Locations] /\ list' \in [Clients -> Lists]
      BY <2>2, <3>1 DEF Refresh
    <3> QED BY <2>2, <3>2, <3>3, Zenon DEF Refresh
  <2>3. CASE Publish(t)          BY <2>3 DEF Publish
  <2>4. CASE Enumerated(t)       BY <2>4 DEF Enumerated
  <2>5. CASE Lookup(t)           BY <2>5 DEF Lookup
  <2>6. CASE LookupUnregisters(t) BY <2>6 DEF LookupUnregisters
  <2>7. CASE RegisterObserver(t) BY <2>7 DEF RegisterObserver
  <2>8. CASE RegisterUnregisters(t) BY <2>8 DEF RegisterUnregisters
  <2>9. CASE UnregisterObserver(t) BY <2>9 DEF UnregisterObserver
  <2>10. CASE Unlock(t)          BY <2>10 DEF Unlock
  <2>11. CASE OnFirstObserverRegistered(t) BY <2>11 DEF OnFirstObserverRegistered
  <2>12. CASE StartThread(t)     BY <2>12 DEF StartThread, Crash
  <2>13. CASE Terminate(t)       BY <2>13 DEF Terminate
  <2>14. CASE CheckJoinable(t)   BY <2>14 DEF CheckJoinable
  <2>15. CASE Join(t)            BY <2>15 DEF Join, Crash
  <2>16. CASE ClearThread(t)     BY <2>16 DEF ClearThread, Crash
  <2>17. CASE ResetEnumerated(t) BY <2>17 DEF ResetEnumerated
  <2> QED
    BY <1>4, <2>1, <2>2, <2>3, <2>4, <2>5, <2>6, <2>7, <2>8, <2>9, <2>10, <2>11,
       <2>12, <2>13, <2>14, <2>15, <2>16, <2>17 DEF Proceed
<1>5. CASE UNCHANGED vars
  BY <1>5 DEF vars
<1> QED BY <1>1, <1>2, <1>3, <1>4, <1>5 DEF Next

LEMMA InitTypeOK == Init => TypeOK
<1> SUFFICES ASSUME Init PROVE TypeOK  OBVIOUS
<1>1. (CHOOSE o \in Observers : TRUE) \in Observers  BY ObserversAssumption
<1>2. /\ system \in 1 .. MaxVersion
      /\ 0 \in 0 .. MaxFailures /\ Empty \in Lists
  BY BoundsAssumption DEF Init, Lists, Empty
<1>3. /\ pc \in [Clients -> Locations] /\ todo \in [Clients -> Locations]
      /\ arg \in [Clients -> Observers] /\ list \in [Clients -> Lists]
      /\ floor \in [Clients -> Lists]
  BY <1>1, <1>2, Zenon DEF Init, Locations
<1> QED BY <1>2, <1>3, Zenon DEF Init, TypeOK

\* The type invariant, for any values of the constants.
THEOREM TypeCorrect == Spec => []TypeOK
BY InitTypeOK, TypeStep, PTL DEF Spec

-----------------------------------------------------------------------------
(* Once destroyed *)

\* The client that destroys the singleton is the last one: nobody is left who
\* could start the thread it has joined.
Ending ==
    /\ \A t \in Clients : todo[t] = "destroyed" =>
          /\ \A u \in Clients \ {t} : pc[u] = "idle"
          /\ pc[t] \in {"terminate", "joinable", "join", "clear", "reset", "destroyed"}
          /\ pc[t] \in {"clear", "reset", "destroyed"} => thread = "none"
    /\ \A t \in Clients : pc[t] = "destroyed" => todo[t] = "destroyed"

\* Clients that have not been told to end do nothing that shows in Ending.
LEMMA EndingElsewhere ==
    ASSUME TypeOK, Ending, NEW t \in Clients, pc[t] # "idle", todo[t] # "destroyed",
           NEW to \in Locations \ {"destroyed"},
           pc' = [pc EXCEPT ![t] = to],
           \A u \in Clients : todo'[u] = "destroyed" => todo[u] = "destroyed"
    PROVE  Ending'
<1>1. \A u \in Clients : todo[u] # "destroyed"
  BY DEF Ending
<1> QED BY <1>1 DEF Ending, TypeOK

LEMMA EndingStep == TypeOK /\ Ending /\ [Next]_vars => Ending'
<1> SUFFICES ASSUME TypeOK, Ending, [Next]_vars PROVE Ending'
    OBVIOUS
<1> USE DEF environment, common, locals, delegate, history, Goto, PollerAt, TypeOK
<1>1. CASE SystemChanges \/ UNCHANGED vars
  BY <1>1 DEF SystemChanges, vars, Ending
<1>2. CASE Poller
  <2>1. pc' = pc /\ todo' = todo /\ (thread = "none" => thread' = "none")
    BY <1>2 DEF Poller, PollerChecks, PollerRefreshes, PollerPublishes
  <2> QED BY <2>1 DEF Ending
<1>3. ASSUME NEW t \in Clients, Call(t) PROVE Ending'
  <2>1. \A u \in Clients : todo[u] # "destroyed" /\ pc[u] # "destroyed"
    BY <1>3 DEF Call, Destroying
  <2>2. CASE CallDestroy(t)
    BY <2>1, <2>2 DEF CallDestroy, Ending
  <2>3. CASE ~CallDestroy(t)
    <3>1. \A u \in Clients : todo'[u] # "destroyed" /\ pc'[u] # "destroyed"
      BY <1>3, <2>1, <2>3 DEF Call, CallLookup, CallRegisterObserver,
         CallUnregisterObserver, Start
    <3> QED BY <3>1 DEF Ending
  <2> QED BY <2>2, <2>3
<1>4. ASSUME NEW t \in Clients, Proceed(t) PROVE Ending'
  <2>1. CASE todo[t] = "destroyed"
    <3>1. /\ \A u \in Clients \ {t} : pc[u] = "idle" /\ todo[u] # "destroyed"
          /\ pc[t] \in {"terminate", "joinable", "join", "clear", "reset", "destroyed"}
          /\ pc[t] \in {"clear", "reset", "destroyed"} => thread = "none"
      BY <2>1 DEF Ending
    <3>2. \/ Terminate(t) \/ CheckJoinable(t) \/ Join(t) \/ ClearThread(t)
          \/ ResetEnumerated(t)
      BY <1>4, <3>1 DEF Proceed, Wait, Refresh, Publish, Enumerated, Lookup,
         LookupUnregisters, RegisterObserver, RegisterUnregisters,
         UnregisterObserver, Unlock, OnFirstObserverRegistered, StartThread, Crash
    <3>3. /\ todo' = todo
          /\ \A u \in Clients \ {t} : pc'[u] = pc[u]
          /\ pc'[t] \in {"joinable", "join", "clear", "reset", "destroyed"}
          /\ pc'[t] \in {"clear", "reset", "destroyed"} => thread' = "none"
      BY <2>1, <3>1, <3>2 DEF Terminate, CheckJoinable, Join, ClearThread,
         ResetEnumerated, Crash, Joinable
    <3> QED BY <2>1, <3>1, <3>3 DEF Ending
  <2>2. CASE todo[t] # "destroyed"
    <3>1. CASE /\ crashed' /\ UNCHANGED <<pc, todo, thread>>
      BY <3>1 DEF Ending
    <3>2. CASE \E to \in Locations \ {"destroyed"} : /\ pc[t] # "idle"
                                     /\ pc' = [pc EXCEPT ![t] = to]
                                     /\ \A u \in Clients : todo'[u] = "destroyed" => todo[u] = "destroyed"
      BY <2>2, <3>2, EndingElsewhere
    <3>3. \/ crashed' /\ UNCHANGED <<pc, todo, thread>>
          \/ \E to \in Locations \ {"destroyed"} :
                /\ pc[t] # "idle"
                /\ pc' = [pc EXCEPT ![t] = to]
                /\ \A u \in Clients : todo'[u] = "destroyed" => todo[u] = "destroyed"
      BY <1>4, <2>2 DEF Proceed, Wait, Refresh, Publish, Enumerated, Lookup,
         LookupUnregisters, RegisterObserver, RegisterUnregisters,
         UnregisterObserver, Unlock, OnFirstObserverRegistered, StartThread, Crash,
         Terminate, CheckJoinable, Join, ClearThread, ResetEnumerated, Locations
    <3> QED BY <3>1, <3>2, <3>3
  <2> QED BY <2>1, <2>2
<1> QED BY <1>1, <1>2, <1>3, <1>4 DEF Next

\* No event is triggered after the singleton was destroyed, whatever the
\* clients did before: there is no observer thread any more.
THEOREM Silence == Spec => []SilentOnceDestroyed
<1>1. Init => Ending
  BY DEF Init, Ending
<1>2. Ending => SilentOnceDestroyed
  BY DEF Ending, SilentOnceDestroyed
<1> QED BY <1>1, <1>2, InitTypeOK, TypeStep, EndingStep, PTL DEF Spec

-----------------------------------------------------------------------------
(* How old a list can be *)

Waiting == {"wait", "refresh", "publish", "enumerated"}
Asking == Waiting \cup {"register", "lookup"}
Leaving == {"unregister", "terminate", "joinable", "join", "clear", "reset"}

\* A client waits for the first enumeration in order to register or to look at
\* the table, and does neither when it has unregistered an observer; the
\* observer thread begins with its test.
Routes ==
    /\ \A t \in Clients :
          /\ todo[t] \in {"idle", "register", "lookup", "unlock", "unlockFirst",
                          "destroyed"}
          /\ pc[t] \in Leaving => todo[t] \notin {"register", "lookup"}
          /\ pc[t] \in Waiting => todo[t] \in {"register", "lookup"}
    /\ thread # "running" => poller = "check"

LEMMA RoutesStep == TypeOK /\ Routes /\ [Next]_vars => Routes'
<1> SUFFICES ASSUME TypeOK, Routes, [Next]_vars PROVE Routes'
    OBVIOUS
<1> USE DEF environment, common, locals, delegate, history, Goto, PollerAt, TypeOK,
            Routes, Leaving, Waiting
<1>1. CASE SystemChanges \/ UNCHANGED vars
  BY <1>1 DEF SystemChanges, vars
<1>2. CASE Poller
  BY <1>2 DEF Poller, PollerChecks, PollerRefreshes, PollerPublishes
<1>3. ASSUME NEW t \in Clients, Call(t) PROVE Routes'
  BY <1>3 DEF Call, CallLookup, CallRegisterObserver, CallUnregisterObserver,
     CallDestroy, Start
<1>4. ASSUME NEW t \in Clients, Proceed(t) PROVE Routes'
  <2>1. CASE Wait(t) \/ Refresh(t) \/ Publish(t) \/ Enumerated(t) \/ Lookup(t)
    BY <2>1 DEF Wait, Refresh, Publish, Enumerated, Lookup
  <2>2. CASE LookupUnregisters(t) \/ RegisterUnregisters(t)
    BY <2>2 DEF LookupUnregisters, RegisterUnregisters
  <2>3. CASE RegisterObserver(t) \/ UnregisterObserver(t) \/ Unlock(t)
             \/ OnFirstObserverRegistered(t)
    BY <2>3 DEF RegisterObserver, UnregisterObserver, Unlock, OnFirstObserverRegistered
  <2>4. CASE StartThread(t) \/ Join(t) \/ ClearThread(t)
    BY <2>4 DEF StartThread, Join, ClearThread, Crash
  <2>5. CASE Terminate(t)
    BY <2>5 DEF Terminate
  <2>6. CASE CheckJoinable(t)
    BY <2>6 DEF CheckJoinable
  <2>7. CASE ResetEnumerated(t)
    BY <2>7 DEF ResetEnumerated
  <2> QED BY <1>4, <2>1, <2>2, <2>3, <2>4, <2>5, <2>6, <2>7 DEF Proceed
<1> QED BY <1>1, <1>2, <1>3, <1>4 DEF Next

\* No list older than `v` can show any more: neither those that have been read
\* and not published nor, once it is what a client is shown, the table.
NoOlder(v) ==
    /\ enumeratedOnce => table >= v
    /\ poller = "publish" => polled >= v
    /\ \A u \in Clients : /\ pc[u] = "publish" => list[u] >= v
                          /\ pc[u] = "enumerated" => table >= v
Shown(t, v) == pc[t] \in {"register", "lookup"} => table >= v

\* As long as no reading fails ...
LEMMA RefreshReads ==
    ASSUME TypeOK, NEW l, RefreshInterfaces(l), failures' = 0
    PROVE  l = system /\ failures = 0
BY DEF RefreshInterfaces, TypeOK

LEMMA FailuresGrow == TypeOK /\ [Next]_vars /\ failures' = 0 => failures = 0
<1> SUFFICES ASSUME TypeOK, [Next]_vars, failures' = 0, failures # 0 PROVE FALSE
    OBVIOUS
<1>1. failures' = failures
  BY RefreshReads
  DEF environment, Next, SystemChanges, vars, Poller, PollerChecks, PollerRefreshes,
      PollerPublishes, Call, CallLookup, CallRegisterObserver, CallUnregisterObserver,
      CallDestroy, Start, Proceed, Wait, Refresh, Publish, Enumerated, Lookup,
      LookupUnregisters, RegisterObserver, RegisterUnregisters,
      UnregisterObserver, Unlock, OnFirstObserverRegistered, StartThread, Crash,
      Terminate, CheckJoinable, Join, ClearThread, ResetEnumerated
<1> QED BY <1>1

LEMMA SystemGrows == TypeOK /\ [Next]_vars => system' \in Nat /\ system' >= system
<1> SUFFICES ASSUME TypeOK, [Next]_vars PROVE system' \in Nat /\ system' >= system
    OBVIOUS
<1>1. system' = system \/ system' = system + 1
  BY DEF environment, Next, SystemChanges, vars, Poller, PollerChecks, PollerRefreshes,
      PollerPublishes, RefreshInterfaces, Call, CallLookup, CallRegisterObserver,
      CallUnregisterObserver, CallDestroy, Start, Proceed, Wait, Refresh, Publish,
      Enumerated, Lookup, LookupUnregisters, RegisterObserver, RegisterUnregisters,
      UnregisterObserver, Unlock, OnFirstObserverRegistered, StartThread, Crash,
      Terminate, CheckJoinable, Join, ClearThread, ResetEnumerated
<1> QED BY <1>1, BoundsAssumption DEF TypeOK

\* ... what could not show once never will.
LEMMA NoOlderStep ==
    ASSUME TypeOK, Routes, NEW v \in Nat, v <= system, NoOlder(v),
           [Next]_vars, failures' = 0
    PROVE  NoOlder(v)' /\ \A t \in Clients : Shown(t, v) => Shown(t, v)'
<1> USE DEF environment, common, locals, delegate, history, Goto, PollerAt, TypeOK,
            Routes, Leaving, NoOlder, Shown, Lists, Empty
<1> USE BoundsAssumption
<1>1. CASE SystemChanges \/ UNCHANGED vars
  BY <1>1 DEF SystemChanges, vars
<1>2. CASE PollerChecks
  BY <1>2 DEF PollerChecks
<1>3. CASE PollerRefreshes
  BY <1>3, RefreshReads DEF PollerRefreshes
<1>4. CASE PollerPublishes
  BY <1>4 DEF PollerPublishes
<1>5. ASSUME NEW t \in Clients, Call(t)
      PROVE  NoOlder(v)' /\ \A u \in Clients : Shown(u, v) => Shown(u, v)'
  BY <1>5 DEF Call, CallLookup, CallRegisterObserver, CallUnregisterObserver,
     CallDestroy, Start
<1>6. ASSUME NEW t \in Clients, Proceed(t)
      PROVE  NoOlder(v)' /\ \A u \in Clients : Shown(u, v) => Shown(u, v)'
  <2>1. CASE Wait(t) \/ Enumerated(t) \/ Lookup(t)
    BY <2>1 DEF Wait, Enumerated, Lookup
  <2>2. CASE Refresh(t)
    BY <2>2, RefreshReads DEF Refresh
  <2>3. CASE Publish(t)
    BY <2>3 DEF Publish
  <2>4. CASE LookupUnregisters(t) \/ RegisterUnregisters(t)
    BY <2>4 DEF LookupUnregisters, RegisterUnregisters
  <2>5. CASE RegisterObserver(t) \/ UnregisterObserver(t) \/ Unlock(t)
             \/ OnFirstObserverRegistered(t)
    BY <2>5 DEF RegisterObserver, UnregisterObserver, Unlock, OnFirstObserverRegistered
  <2>6. CASE StartThread(t) \/ Join(t) \/ ClearThread(t)
    BY <2>6 DEF StartThread, Join, ClearThread, Crash
  <2>7. CASE Terminate(t)
    BY <2>7 DEF Terminate
  <2>8. CASE CheckJoinable(t)
    BY <2>8 DEF CheckJoinable
  <2>9. CASE ResetEnumerated(t)
    BY <2>9 DEF ResetEnumerated
  <2> QED BY <1>6, <2>1, <2>2, <2>3, <2>4, <2>5, <2>6, <2>7, <2>8, <2>9 DEF Proceed
<1> QED BY <1>1, <1>2, <1>3, <1>4, <1>5, <1>6 DEF Next, Poller

\* The oldest list of all is the first.
Waited ==
    failures = 0 => NoOlder(1) /\ \A t \in Clients : Shown(t, 1)

\* Whoever is past waitForFirstEnumeration sees a list, whatever the others do
\* to the observer thread meanwhile.
THEOREM FirstEnumerationAwaited == Spec => []WaitsForEnumeration
<1>1. Init => Routes /\ Waited
  BY DEF Init, Routes, Waited, NoOlder, Shown, Leaving, Waiting
<1>2. TypeOK /\ Routes /\ Waited /\ [Next]_vars => Waited'
  <2> SUFFICES ASSUME TypeOK, Routes, Waited, [Next]_vars, failures' = 0
               PROVE  NoOlder(1)' /\ \A t \in Clients : Shown(t, 1)'
    BY DEF Waited
  <2>1. failures = 0 /\ 1 <= system
    BY FailuresGrow DEF TypeOK
  <2> QED BY <2>1, NoOlderStep DEF Waited
<1>3. TypeOK /\ Waited => WaitsForEnumeration
  BY BoundsAssumption DEF TypeOK, Waited, Shown, WaitsForEnumeration, Empty
<1> QED
  BY <1>1, <1>2, <1>3, InitTypeOK, TypeStep, RoutesStep, PTL DEF Spec

-----------------------------------------------------------------------------
(* One registering client *)

\* What the delegate needs of the program: a single thread registers and
\* unregisters observers, and does not do so from inside of a callback.  With
\* two such threads, or with a callback that unregisters, the theorems below do
\* not hold.
OneRegistrar == Nested = {} /\ \A t, u \in Registrars : t = u

\* Where that client is, and what it found there.
Ring(t) ==
    /\ pc[t] \in Asking \cup Leaving \cup {"idle", "first", "start", "destroyed"}
    /\ pc[t] = "unregister" => todo[t] = "idle"
    /\ pc[t] \in Leaving => todo[t] \in {"idle", "destroyed"}
    /\ pc[t] \in Leaving \ {"unregister"} /\ todo[t] = "idle" => observers = {}
    /\ pc[t] \in {"first", "start"} => thread = "none" /\ observers # {}
    /\ pc[t] = "start" => ~shouldTerminate
    /\ pc[t] = "join" => thread # "none"
    /\ pc[t] \in {"clear", "reset"} => thread = "none"

\* It is not in the middle of starting or ending the observer thread.
Calm == \A t \in Registrars : pc[t] \in Asking \cup {"idle", "unregister"}

Matched == IF observers = {} THEN thread = "none"
                             ELSE thread = "running" /\ ~shouldTerminate

Steady ==
    /\ OneRegistrar
    /\ ~crashed
    /\ \A t \in Registrars : Ring(t)
    /\ \A t \in Clients \ Registrars :
          /\ pc[t] \in (Asking \ {"register"}) \cup {"idle"}
          /\ todo[t] \in {"idle", "lookup"}
    /\ Calm => Matched

\* A step of a client that neither is nor was at the observers or the thread.
LEMMA SteadyElsewhere ==
    ASSUME TypeOK, Steady, NEW t \in Clients,
           NEW from \in Asking \cup {"idle"},
           NEW to \in Asking \cup {"idle"}, pc[t] = from,
           t \notin Registrars => to # "register",
           pc' = [pc EXCEPT ![t] = to],
           \/ todo' = todo
           \/ \E op \in {"register", "lookup"} : /\ todo' = [todo EXCEPT ![t] = op]
                                                 /\ t \notin Registrars => op = "lookup",
           UNCHANGED <<observers, thread, shouldTerminate, crashed>>
    PROVE  Steady'
<1> USE ClientsAssumption DEF TypeOK
<1>1. CASE t \in Registrars
  <2>1. \A u \in Registrars : u = t
    BY <1>1 DEF Steady, OneRegistrar
  <2>2. Ring(t)'
    BY <1>1 DEF Ring, Asking, Waiting, Leaving
  <2>3. Calm /\ Matched /\ Matched'
    BY <1>1, <2>1 DEF Steady, Calm, Matched
  <2> QED BY <1>1, <2>1, <2>2, <2>3 DEF Steady, OneRegistrar
<1>2. CASE t \notin Registrars
  <2>1. \A u \in Registrars : Ring(u)'
    BY <1>2 DEF Steady, Ring
  <2>2. /\ pc'[t] \in (Asking \ {"register"}) \cup {"idle"}
        /\ todo'[t] \in {"idle", "lookup"}
    BY <1>2 DEF Steady
  <2>3. Calm' => Matched'
    BY <1>2 DEF Steady, Calm, Matched
  <2> QED BY <1>2, <2>1, <2>2, <2>3 DEF Steady, OneRegistrar
<1> QED BY <1>1, <1>2

\* A step of the registering client.
LEMMA SteadyRegistrar ==
    ASSUME TypeOK, Steady, NEW t \in Registrars, NEW to,
           pc' = [pc EXCEPT ![t] = to],
           \A u \in Clients \ {t} : todo'[u] = todo[u],
           Ring(t)', Matched' \/ to \notin Asking \cup {"idle", "unregister"}, ~crashed'
    PROVE  Steady'
<1> USE ClientsAssumption DEF TypeOK
<1>1. \A u \in Registrars : u = t
  BY DEF Steady, OneRegistrar
<1>2. pc'[t] = to /\ \A u \in Clients \ {t} : pc'[u] = pc[u]
  OBVIOUS
<1>3. Calm' => Matched'
  BY <1>2 DEF Calm
<1> QED BY <1>1, <1>2, <1>3 DEF Steady, OneRegistrar

\* Asking for interfaces does not touch the observers nor the thread.
LEMMA AskingStep ==
    ASSUME TypeOK, Routes, Steady, NEW t \in Clients,
           \/ CallLookup(t) \/ (t \in Registrars /\ CallRegisterObserver(t))
           \/ Wait(t) \/ Refresh(t) \/ Publish(t) \/ Enumerated(t) \/ Lookup(t)
    PROVE  Steady'
<1> USE DEF Goto, common, locals, delegate
<1>1. ASSUME NEW op \in {"register", "lookup"}, Start(t, op),
             op = "register" => t \in Registrars
      PROVE  Steady'
  <2>1. todo'[t] = op
    BY <1>1 DEF Start, TypeOK
  <2> QED BY <1>1, <2>1, SteadyElsewhere DEF Start, Asking, Waiting
<1>2. CASE CallLookup(t) \/ (t \in Registrars /\ CallRegisterObserver(t))
  BY <1>1, <1>2 DEF CallLookup, CallRegisterObserver
<1>3. CASE Wait(t) \/ Refresh(t) \/ Publish(t) \/ Enumerated(t) \/ Lookup(t)
  <2>1. /\ pc[t] \in Asking /\ todo' = todo
        /\ UNCHANGED <<observers, thread, shouldTerminate, crashed>>
    BY <1>3 DEF Wait, Refresh, Publish, Enumerated, Lookup, Asking, Waiting
  <2>2. pc[t] \in Waiting =>
          todo[t] \in Asking /\ (t \notin Registrars => todo[t] # "register")
    BY DEF Routes, Steady, Asking
  <2>3. \E to \in Asking \cup {"idle"} : /\ t \notin Registrars => to # "register"
                                         /\ pc' = [pc EXCEPT ![t] = to]
    BY <1>3, <2>2 DEF Wait, Refresh, Publish, Enumerated, Lookup, Asking, Waiting
  <2> QED BY <2>1, <2>3, SteadyElsewhere
<1> QED BY <1>2, <1>3

\* The registering client starts the thread for its first observer ...
LEMMA RegisteringStep ==
    ASSUME TypeOK, Steady, NEW t \in Registrars,
           RegisterObserver(t) \/ OnFirstObserverRegistered(t) \/ StartThread(t)
    PROVE  Steady'
<1> USE ClientsAssumption
    DEF Goto, common, locals, delegate, TypeOK, Ring, Asking, Waiting, Leaving, Matched
<1>1. Ring(t) /\ ~crashed /\ \A u \in Registrars : u = t
  BY DEF Steady, OneRegistrar
<1>2. pc[t] = "register" => Matched
  BY <1>1 DEF Steady, Calm
<1>3. CASE RegisterObserver(t)
  BY <1>1, <1>2, <1>3, SteadyRegistrar DEF RegisterObserver
<1>4. CASE OnFirstObserverRegistered(t)
  BY <1>1, <1>4, SteadyRegistrar DEF OnFirstObserverRegistered
<1>5. CASE StartThread(t)
  BY <1>1, <1>5, SteadyRegistrar DEF StartThread, Joinable
<1> QED BY <1>3, <1>4, <1>5

\* ... and ends it for its last one.
LEMMA LeavingStep ==
    ASSUME TypeOK, Steady, NEW t \in Registrars,
           \/ CallUnregisterObserver(t) \/ CallDestroy(t) \/ UnregisterObserver(t)
           \/ Terminate(t) \/ CheckJoinable(t) \/ Join(t) \/ ClearThread(t)
           \/ ResetEnumerated(t)
    PROVE  Steady'
<1> USE ClientsAssumption
    DEF Goto, common, locals, delegate, TypeOK, Ring, Asking, Waiting, Leaving, Matched
<1>1. Ring(t) /\ ~crashed /\ \A u \in Registrars : u = t
  BY DEF Steady, OneRegistrar
<1>2. pc[t] \in {"idle", "unregister"} => Matched
  BY <1>1 DEF Steady, Calm
<1>3. CASE CallUnregisterObserver(t)
  <2>1. pc' = [pc EXCEPT ![t] = "unregister"] /\ todo' = [todo EXCEPT ![t] = "idle"]
    BY <1>3 DEF CallUnregisterObserver
  <2>2. Ring(t)' /\ Matched' /\ ~crashed'
    BY <1>1, <1>2, <1>3, <2>1 DEF CallUnregisterObserver
  <2> QED BY <2>1, <2>2, SteadyRegistrar
<1>4. CASE CallDestroy(t)
  BY <1>1, <1>4, SteadyRegistrar DEF CallDestroy
<1>5. CASE UnregisterObserver(t)
  BY <1>1, <1>2, <1>5, SteadyRegistrar DEF UnregisterObserver
<1>6. CASE Terminate(t)
  BY <1>1, <1>6, SteadyRegistrar DEF Terminate
<1>7. CASE CheckJoinable(t)
  BY <1>1, <1>7, SteadyRegistrar DEF CheckJoinable, Joinable
<1>8. CASE Join(t)
  BY <1>1, <1>8, SteadyRegistrar DEF Join, Joinable
<1>9. CASE ClearThread(t)
  BY <1>1, <1>9, SteadyRegistrar DEF ClearThread, Joinable
<1>10. CASE ResetEnumerated(t)
  BY <1>1, <1>10, SteadyRegistrar DEF ResetEnumerated
<1> QED BY <1>3, <1>4, <1>5, <1>6, <1>7, <1>8, <1>9, <1>10

LEMMA SteadyStep == TypeOK /\ Routes /\ Steady /\ [Next]_vars => Steady'
<1> SUFFICES ASSUME TypeOK, Routes, Steady, [Next]_vars PROVE Steady'
    OBVIOUS
<1> USE DEF common, locals, delegate
<1>1. CASE SystemChanges \/ UNCHANGED vars
  BY <1>1 DEF SystemChanges, vars, Steady, OneRegistrar, Ring, Calm, Matched
<1>2. CASE Poller
  <2>1. /\ UNCHANGED <<pc, todo, observers, shouldTerminate, crashed>>
        /\ thread' = thread \/ (thread = "running" /\ shouldTerminate /\ thread' = "finished")
    BY <1>2 DEF Poller, PollerChecks, PollerRefreshes, PollerPublishes, PollerAt
  <2> QED BY <2>1 DEF TypeOK, Steady, OneRegistrar, Ring, Calm, Matched
<1>3. ASSUME NEW t \in Clients, Call(t) PROVE Steady'
  BY <1>3, AskingStep, LeavingStep DEF Call
<1>4. ASSUME NEW t \in Clients, Proceed(t) PROVE Steady'
  <2>1. ~LookupUnregisters(t) /\ ~RegisterUnregisters(t)
    BY DEF Steady, OneRegistrar, LookupUnregisters, RegisterUnregisters
  <2>2. ~Unlock(t)
    BY DEF Steady, Ring, Asking, Waiting, Leaving, Unlock, Goto
  <2>3. t \in Registrars \/ pc[t] \in (Asking \ {"register"}) \cup {"idle"}
    BY DEF Steady
  <2>4. \/ Wait(t) \/ Refresh(t) \/ Publish(t) \/ Enumerated(t) \/ Lookup(t)
        \/ t \in Registrars
    BY <1>4, <2>1, <2>2, <2>3 DEF Asking, Waiting, Goto, Proceed, RegisterObserver,
       UnregisterObserver, OnFirstObserverRegistered, StartThread, Terminate,
       CheckJoinable, Join, ClearThread, ResetEnumerated
  <2> QED
    BY <1>4, <2>1, <2>2, <2>4, AskingStep, RegisteringStep, LeavingStep DEF Proceed
<1> QED BY <1>1, <1>2, <1>3, <1>4 DEF Next

LEMMA SteadyInit == OneRegistrar /\ Init => Steady
<1> SUFFICES ASSUME OneRegistrar, Init PROVE Steady
    OBVIOUS
<1>1. \A t \in Clients : pc[t] = "idle" /\ todo[t] = "idle"
  BY DEF Init
<1> QED
  BY <1>1, ClientsAssumption DEF Init, Steady, Ring, Matched, Asking, Waiting, Leaving

\* A single registering client never has the program ended: the thread is not
\* assigned while joinable, and not joined while not.
THEOREM NeverCrashes == OneRegistrar /\ Spec => []NoCrash
<1>1. Steady => NoCrash
  BY DEF Steady, NoCrash
<1>2. Init => Routes
  BY DEF Init, Routes, Leaving, Waiting
<1> QED
  BY <1>1, <1>2, InitTypeOK, TypeStep, RoutesStep, SteadyInit, SteadyStep, PTL DEF Spec

\* Its thread runs exactly as long as there are observers.
THEOREM PollsAsLongAsObserved == OneRegistrar /\ Spec => []PollsWhenObserved
<1>1. Steady => PollsWhenObserved
  BY DEF Steady, Calm, Matched, PollsWhenObserved
<1>2. Init => Routes
  BY DEF Init, Routes, Leaving, Waiting
<1> QED
  BY <1>1, <1>2, InitTypeOK, TypeStep, RoutesStep, SteadyInit, SteadyStep, PTL DEF Spec

-----------------------------------------------------------------------------
(* After a restart *)

\* From the moment the thread has ended to the next call nothing is read nor
\* is anybody about to show what was read; from then on nothing shows that is
\* older than the configuration that call found.
Fresh ==
    /\ restarted =>
          /\ thread = "none" /\ ~enumeratedOnce
          /\ \A t \in Clients : pc[t] \in Leaving \cup {"idle", "destroyed"}
    /\ failures = 0 =>
          \A t \in Clients : pc[t] \in Asking =>
              floor[t] <= system /\ NoOlder(floor[t]) /\ Shown(t, floor[t])

\* Only a call makes a client ask, and only that call sets its floor.
LEMMA AskedByCall ==
    ASSUME TypeOK, Routes, [Next]_vars, NEW t \in Clients, pc'[t] \in Asking
    PROVE  \/ pc[t] \in Asking /\ floor'[t] = floor[t]
           \/ \E op : Start(t, op)
<1> USE DEF Goto, TypeOK, Asking, Waiting, Leaving, Routes, history
<1>1. CASE SystemChanges \/ Poller \/ UNCHANGED vars
  BY <1>1 DEF SystemChanges, vars, Poller, PollerChecks, PollerRefreshes, PollerPublishes
<1>2. ASSUME NEW u \in Clients, Call(u)
      PROVE  (pc[t] \in Asking /\ floor'[t] = floor[t]) \/ \E op : Start(t, op)
  BY <1>2 DEF Call, CallLookup, CallRegisterObserver, CallUnregisterObserver,
     CallDestroy, Start
<1>3. ASSUME NEW u \in Clients, Proceed(u)
      PROVE  pc[t] \in Asking /\ floor'[t] = floor[t]
  <2>1. CASE Wait(u) \/ Refresh(u) \/ Publish(u) \/ Enumerated(u) \/ Lookup(u)
    BY <2>1 DEF Wait, Refresh, Publish, Enumerated, Lookup
  <2>2. CASE LookupUnregisters(u) \/ RegisterUnregisters(u)
    BY <2>2 DEF LookupUnregisters, RegisterUnregisters
  <2>3. CASE RegisterObserver(u) \/ UnregisterObserver(u) \/ Unlock(u)
             \/ OnFirstObserverRegistered(u)
    BY <2>3 DEF RegisterObserver, UnregisterObserver, Unlock, OnFirstObserverRegistered
  <2>4. CASE StartThread(u) \/ Join(u) \/ ClearThread(u)
    BY <2>4 DEF StartThread, Join, ClearThread, Crash
  <2>5. CASE Terminate(u) \/ CheckJoinable(u) \/ ResetEnumerated(u)
    BY <2>5 DEF Terminate, CheckJoinable, ResetEnumerated
  <2> QED BY <1>3, <2>1, <2>2, <2>3, <2>4, <2>5 DEF Proceed
<1> QED BY <1>1, <1>2, <1>3 DEF Next

\* The first call after a restart finds nothing left over.
LEMMA StartFresh ==
    ASSUME TypeOK, TypeOK', Routes, Fresh, NEW t \in Clients, NEW op, Start(t, op)
    PROVE  /\ floor'[t] <= system' /\ NoOlder(floor[t])' /\ Shown(t, floor[t])'
<1> USE DEF Start, Goto, TypeOK, environment, common, delegate
<1>1. pc'[t] = "wait" /\ \A u \in Clients \ {t} : pc'[u] = pc[u]
  OBVIOUS
<1>2. CASE restarted
  <2>1. floor'[t] = system /\ system' = system
    BY <1>2
  <2>2. ~enumeratedOnce' /\ poller' = "check"
    BY <1>2 DEF Fresh, Routes
  <2>3. \A u \in Clients : pc'[u] \notin {"publish", "enumerated"}
    BY <1>1, <1>2 DEF Fresh, Leaving
  <2> QED
    BY <1>1, <2>1, <2>2, <2>3, BoundsAssumption DEF NoOlder, Shown
<1>3. CASE ~restarted
  <2>1. floor'[t] = 0 /\ system' \in Nat
    BY <1>3, BoundsAssumption DEF Empty
  <2>2. table' >= 0 /\ polled' >= 0 /\ \A u \in Clients : list'[u] >= 0
    BY BoundsAssumption DEF Lists
  <2> QED BY <2>1, <2>2 DEF NoOlder, Shown
<1> QED BY <1>2, <1>3

LEMMA RestartedStep ==
    ASSUME TypeOK, Routes, Steady, Fresh, [Next]_vars, restarted'
    PROVE  /\ thread' = "none" /\ ~enumeratedOnce'
           /\ \A t \in Clients : pc'[t] \in Leaving \cup {"idle", "destroyed"}
<1> USE DEF TypeOK, Goto, PollerAt, delegate, history
<1>1. CASE \E t \in Clients : ResetEnumerated(t)
  <2>1. PICK t \in Clients : ResetEnumerated(t)
    BY <1>1
  <2>2. pc[t] = "reset" /\ t \in Registrars /\ Ring(t)
    BY <2>1 DEF ResetEnumerated, Steady, Asking, Waiting
  <2>3. thread = "none" /\ todo[t] \in {"idle", "destroyed"}
    BY <2>2 DEF Ring, Leaving
  <2> QED BY <2>1, <2>3 DEF ResetEnumerated
<1>2. CASE ~ \E t \in Clients : ResetEnumerated(t)
  <2>1. restarted
    BY <1>2 DEF Next, vars, SystemChanges, Poller, PollerChecks, PollerRefreshes,
       PollerPublishes, Call, CallLookup, CallRegisterObserver, CallUnregisterObserver,
       CallDestroy, Start, Proceed, Wait, Refresh, Publish, Enumerated, Lookup,
       LookupUnregisters, RegisterObserver, RegisterUnregisters, UnregisterObserver,
       Unlock, OnFirstObserverRegistered, StartThread, Crash, Terminate, CheckJoinable,
       Join, ClearThread
  <2>2. /\ thread = "none" /\ ~enumeratedOnce
        /\ \A t \in Clients : pc[t] \in Leaving \cup {"idle", "destroyed"}
    BY <2>1 DEF Fresh
  <2>3. \A t \in Clients : pc[t] \in Leaving => todo[t] \in {"idle", "destroyed"}
    BY DEF Steady, Ring, Asking, Waiting, Leaving
  <2>4. CASE SystemChanges \/ Poller \/ UNCHANGED vars
    <3>1. ~Poller
      BY <2>2 DEF Poller, PollerChecks, PollerRefreshes, PollerPublishes
    <3>2. UNCHANGED <<thread, enumeratedOnce, pc>>
      BY <2>4, <3>1 DEF SystemChanges, vars
    <3> QED BY <2>2, <3>2
  <2>5. ASSUME NEW t \in Clients, Call(t) \/ Proceed(t)
        PROVE  /\ thread' = "none" /\ ~enumeratedOnce'
               /\ \A u \in Clients : pc'[u] \in Leaving \cup {"idle", "destroyed"}
    <3>1. \/ CallUnregisterObserver(t) \/ CallDestroy(t) \/ UnregisterObserver(t)
          \/ Terminate(t) \/ CheckJoinable(t) \/ Join(t) \/ ClearThread(t)
      BY <1>2, <2>2, <2>5 DEF Leaving, Call, CallLookup, CallRegisterObserver, Start,
         Proceed, Wait, Refresh, Publish, Enumerated, Lookup, LookupUnregisters,
         RegisterObserver, RegisterUnregisters, Unlock, OnFirstObserverRegistered,
         StartThread, Crash
    <3>2. enumeratedOnce' = enumeratedOnce /\ thread' = "none"
      BY <2>2, <3>1 DEF CallUnregisterObserver, CallDestroy, UnregisterObserver,
         Terminate, CheckJoinable, Join, ClearThread, Crash
    <3>3. \A u \in Clients : pc'[u] \in Leaving \cup {"idle", "destroyed"}
      BY <2>2, <2>3, <3>1 DEF Leaving, CallUnregisterObserver, CallDestroy,
         UnregisterObserver, Terminate, CheckJoinable, Join, ClearThread, Crash, Joinable
    <3> QED BY <2>2, <3>2, <3>3
  <2> QED BY <2>4, <2>5 DEF Next
<1> QED BY <1>1, <1>2

LEMMA FreshStep ==
    TypeOK /\ TypeOK' /\ Routes /\ Steady /\ Fresh /\ [Next]_vars => Fresh'
<1> SUFFICES ASSUME TypeOK, TypeOK', Routes, Steady, Fresh, [Next]_vars PROVE Fresh'
    OBVIOUS
<1>1. ASSUME failures' = 0, NEW t \in Clients, pc'[t] \in Asking
      PROVE  floor'[t] <= system' /\ NoOlder(floor[t])' /\ Shown(t, floor[t])'
  <2>1. CASE pc[t] \in Asking /\ floor'[t] = floor[t]
    <3>1. failures = 0
      BY <1>1, FailuresGrow
    <3>2. floor[t] <= system /\ NoOlder(floor[t]) /\ Shown(t, floor[t])
      BY <2>1, <3>1 DEF Fresh
    <3>3. PICK v \in Nat : v = floor[t]
      BY BoundsAssumption DEF TypeOK, Lists
    <3>4. NoOlder(v)' /\ Shown(t, v)'
      BY <1>1, <3>2, <3>3, NoOlderStep
    <3>5. v <= system'
      BY <3>2, <3>3, SystemGrows DEF TypeOK
    <3>6. floor'[t] = v
      BY <2>1, <3>3
    <3> QED BY <3>4, <3>5, <3>6 DEF NoOlder, Shown
  <2>2. CASE \E op : Start(t, op)
    BY <2>2, StartFresh
  <2> QED BY <1>1, <2>1, <2>2, AskedByCall
<1> QED BY <1>1, RestartedStep DEF Fresh

\* After the last observer was unregistered with nothing else going on, the
\* first client to ask sees the system as it is by then.
THEOREM RestartIsFresh == OneRegistrar /\ Spec => []FreshAfterRestart
<1>1. Init => Routes /\ Fresh
  BY DEF Init, Routes, Fresh, Leaving, Asking, Waiting
<1>2. TypeOK /\ Fresh => FreshAfterRestart
  BY BoundsAssumption DEF TypeOK, Fresh, Shown, Asking, FreshAfterRestart
<1> QED
  BY <1>1, <1>2, InitTypeOK, TypeStep, RoutesStep, SteadyInit, SteadyStep, FreshStep,
     PTL DEF Spec

=============================================================================
