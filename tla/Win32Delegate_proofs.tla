------------------------- MODULE Win32Delegate_proofs -------------------------
(***************************************************************************)
(* Safety of the delegate for Windows for any clients, registrars and       *)
(* observers, any number of changes and failures.                           *)
(***************************************************************************)
EXTENDS Win32Delegate, TLAPS

-----------------------------------------------------------------------------
(* Types. *)

\* Every assignment keeps to the types: a step changes a few variables, and a
\* location to one of Locations.
LEMMA TypeStep == TypeOK /\ [Next]_vars => TypeOK'
<1> SUFFICES ASSUME TypeOK, [Next]_vars PROVE TypeOK'
    OBVIOUS
<1> USE ObserversAssumption, ClientsAssumption, BoundsAssumption, NoClientAssumption
<1> USE DEF TypeOK, Locations, Tasks, Lists, Empty, environment, common, locals, delegate,
            polling, history, Goto, PollerAt
<1>1. CASE SystemChanges
  BY <1>1 DEF SystemChanges
<1>2. CASE Poller
  <2>1. CASE PollerInitialises  BY <2>1 DEF PollerInitialises
  <2>2. CASE PollerChecks       BY <2>2 DEF PollerChecks
  <2>3. CASE PollerUsesWMI      BY <2>3 DEF PollerUsesWMI
  <2>4. CASE PollerGivesUpWMI
    <3>1. failures' \in 0 .. MaxFailures  BY <2>4 DEF PollerGivesUpWMI
    <3> QED BY <2>4, <3>1, Zenon DEF PollerGivesUpWMI
  <2>5. CASE PollerUsesWinAPI   BY <2>5 DEF PollerUsesWinAPI
  <2>6. CASE PollerPublishes    BY <2>6 DEF PollerPublishes
  <2>7. CASE PollerSetsEnumerated BY <2>7 DEF PollerSetsEnumerated
  <2>8. CASE PollerNotifies     BY <2>8 DEF PollerNotifies
  <2> QED BY <1>2, <2>1, <2>2, <2>3, <2>4, <2>5, <2>6, <2>7, <2>8 DEF Poller
<1>3. ASSUME NEW t \in Clients, Call(t) PROVE TypeOK'
  <2>1. ASSUME NEW o \in Observers, NEW op \in Tasks, Start(t, o, op) PROVE TypeOK'
    <3>1. /\ pc' \in [Clients -> Locations]
          /\ todo' \in [Clients -> Tasks]
          /\ arg' \in [Clients -> Observers]
      BY <2>1 DEF Start
    <3>2. UNCHANGED <<environment, common, delegate, polling, crashed, history>>
      BY <2>1 DEF Start
    <3> HIDE <1>3, <2>1
    <3> QED BY <3>1, <3>2
  <2>2. CASE CallLookup(t)             BY <2>1, <2>2 DEF CallLookup
  <2>3. CASE CallRegisterObserver(t)   BY <2>1, <2>3 DEF CallRegisterObserver
  <2>4. CASE CallUnregisterObserver(t) BY <2>4 DEF CallUnregisterObserver
  <2>5. CASE CallDestroy(t)            BY <2>5 DEF CallDestroy
  <2> QED BY <1>3, <2>2, <2>3, <2>4, <2>5 DEF Call
<1>4. ASSUME NEW t \in Clients, Proceed(t) PROVE TypeOK'
  <2>0. AfterCreate(t) \in Locations  BY DEF AfterCreate
  <2>1. CASE Create(t)
    <3>1. born' \in Lists  BY <2>1 DEF Create, Await
    <3>2. pc' \in [Clients -> Locations]  BY <2>0, <2>1 DEF Create
    <3>3. floor' = [floor EXCEPT ![t] = born']  BY <2>1 DEF Create, Await
    <3>4. floor' \in [Clients -> Lists]  BY <3>1, <3>3
    <3> QED BY <2>1, <3>1, <3>2, <3>4, Zenon DEF Create, Await
  <2>2. CASE ClearFlag(t)        BY <2>2 DEF ClearFlag
  <2>3. CASE SpawnThread(t)      BY <2>0, <2>3 DEF SpawnThread, Joinable
  <2>4. CASE CheckEnumerated(t)  BY <2>4 DEF CheckEnumerated
  <2>5. CASE LockSync(t)         BY <2>5 DEF LockSync
  <2>6. CASE TestEnumerated(t)   BY <2>6 DEF TestEnumerated
  <2>7. CASE Sleep(t)            BY <2>7 DEF Sleep
  <2>8. CASE Lookup(t)           BY <2>8 DEF Lookup
  <2>9. CASE RegisterObserver(t) BY <2>9 DEF RegisterObserver
  <2>10. CASE UnregisterObserver(t) BY <2>10 DEF UnregisterObserver
  <2>11. CASE Terminate(t)       BY <2>11 DEF Terminate
  <2>12. CASE CheckJoinable(t)   BY <2>12 DEF CheckJoinable
  <2>13. CASE Join(t)            BY <2>13 DEF Join, Joinable
  <2>14. CASE ClearThread(t)     BY <2>14 DEF ClearThread, Joinable
  <2>15. CASE ResetCreated(t)    BY <2>15 DEF ResetCreated
  <2>16. CASE ResetEnumerated(t) BY <2>16 DEF ResetEnumerated
  <2> QED
    BY <1>4, <2>1, <2>2, <2>3, <2>4, <2>5, <2>6, <2>7, <2>8, <2>9, <2>10, <2>11,
       <2>12, <2>13, <2>14, <2>15, <2>16 DEF Proceed
<1>5. ASSUME NEW t \in Clients, SpuriousWakeup(t) PROVE TypeOK'
  BY <1>5 DEF SpuriousWakeup
<1>6. CASE UNCHANGED vars
  BY <1>6 DEF vars
<1> QED BY <1>1, <1>2, <1>3, <1>4, <1>5, <1>6 DEF Next

LEMMA InitTypeOK == Init => TypeOK
<1> SUFFICES ASSUME Init PROVE TypeOK  OBVIOUS
<1>1. (CHOOSE o \in Observers : TRUE) \in Observers  BY ObserversAssumption
<1>2. /\ system \in 1 .. MaxVersion
      /\ 0 \in 0 .. MaxFailures /\ Empty \in Lists
  BY BoundsAssumption DEF Init, Lists, Empty
<1>3. /\ pc \in [Clients -> Locations] /\ todo \in [Clients -> Tasks]
      /\ arg \in [Clients -> Observers] /\ floor \in [Clients -> Lists]
  BY <1>1, <1>2, Zenon DEF Init, Locations, Tasks
<1> QED BY <1>2, <1>3, Zenon DEF Init, TypeOK

\* The type invariant, for any values of the constants.
THEOREM TypeCorrect == Spec => []TypeOK
BY InitTypeOK, TypeStep, PTL DEF Spec

-----------------------------------------------------------------------------
(* COM *)

\* COM is released by the thread that initialised it: the flag falls with the
\* thread, and a client only joins a thread that has ended.
THEOREM ComReleasedByItsThread == Spec => []ComReleased
<1>1. Init => ComReleased
  BY DEF Init, ComReleased
<1>2. ComReleased /\ [Next]_vars => ComReleased'
  <2> SUFFICES ASSUME ComReleased, [Next]_vars PROVE ComReleased'
      OBVIOUS
  <2> USE DEF ComReleased, delegate, polling, PollerAt
  <2>1. CASE Poller
    BY <2>1 DEF Poller, PollerInitialises, PollerChecks, PollerUsesWMI, PollerGivesUpWMI,
                PollerUsesWinAPI, PollerPublishes, PollerSetsEnumerated, PollerNotifies
  <2>2. ASSUME NEW t \in Clients, Proceed(t) PROVE ComReleased'
    BY <2>2 DEF Proceed, Create, ClearFlag, SpawnThread, CheckEnumerated, LockSync,
                TestEnumerated, Sleep, Lookup, RegisterObserver, UnregisterObserver,
                Terminate, CheckJoinable, Join, ClearThread, ResetCreated,
                ResetEnumerated
  <2>3. ASSUME NEW t \in Clients, Call(t) \/ SpuriousWakeup(t) PROVE ComReleased'
    BY <2>3 DEF Call, CallLookup, CallRegisterObserver, CallUnregisterObserver,
                CallDestroy, Start, SpuriousWakeup
  <2>4. CASE SystemChanges \/ UNCHANGED vars
    BY <2>4 DEF SystemChanges, vars
  <2> QED BY <2>1, <2>2, <2>3, <2>4 DEF Next
<1> QED BY <1>1, <1>2, PTL DEF Spec

-----------------------------------------------------------------------------
(* One thread at a time *)

\* A client that is making the thread, having won the exchange, or that is
\* clearing it away, having joined it.
Owns(t) == pc[t] \in {"setFlag", "spawn", "clear", "uncreate"}

\* SpawnsAlone says nothing of the client that is still to come to "spawn".
\* What keeps the threads apart: while somebody makes or clears away the thread
\* there is none, nobody else does, and _observerThreadCreated is set; it is
\* also set while there is a thread, so that the exchange fails.
Apart ==
    /\ \A t, u \in Clients : Owns(t) /\ Owns(u) => t = u
    /\ (\E t \in Clients : Owns(t)) => thread = "none" /\ created
    /\ thread # "none" => created

\* Two clients may both join one thread, which ends the program.
IInv == TypeOK /\ SpawnsAlone /\ (crashed \/ Apart)

\* A step of a client that changes neither the thread nor the flag, and after
\* which the client owns no more than before.
LEMMA Bystander ==
    ASSUME IInv, TypeOK', NEW t \in Clients, NEW to \in Locations,
           ~crashed, pc' = [pc EXCEPT ![t] = to],
           thread' = thread, created' = created, crashed' = crashed,
           to \in {"setFlag", "spawn", "clear", "uncreate"} => Owns(t)
    PROVE  IInv'
<1>1. \A u \in Clients : Owns(u)' => Owns(u)
  BY DEF IInv, TypeOK, Owns
<1>2. Apart'
  BY <1>1 DEF IInv, Apart
<1>3. SpawnsAlone'
  BY <1>1, <1>2 DEF Apart, SpawnsAlone, Joinable, Owns
<1> QED BY <1>2, <1>3 DEF IInv

\* A step that changes neither the thread nor the flag nor who owns it.
LEMMA Onlooker ==
    ASSUME IInv, TypeOK', thread' = thread \/ (thread # "none" /\ thread' # "none"),
           created' = created, crashed' = crashed,
           \A u \in Clients : Owns(u)' <=> Owns(u),
           \A u \in Clients : pc'[u] = "spawn" => pc[u] = "spawn"
    PROVE  IInv'
BY DEF IInv, Apart, SpawnsAlone, Joinable

LEMMA CreateStep ==
    ASSUME IInv, TypeOK', NEW t \in Clients, Create(t)
    PROVE  IInv'
<1> USE DEF Create, Goto, IInv
<1>1. AfterCreate(t) \in {"idle", "check"}
  BY DEF AfterCreate
<1>2. CASE created
  BY <1>1, <1>2, Bystander DEF Locations, TypeOK
<1>3. CASE ~created
  <2>1. /\ ~crashed /\ Apart /\ thread = "none"
        /\ \A u \in Clients : ~Owns(u)
    BY <1>3 DEF Apart
  <2>2. /\ pc' = [pc EXCEPT ![t] = "setFlag"]
        /\ created' /\ thread' = "none" /\ ~crashed'
    BY <1>3, <2>1 DEF delegate
  <2>3. \A u \in Clients : Owns(u)' => u = t
    BY <2>1, <2>2 DEF Owns, TypeOK
  <2>4. Apart'
    BY <2>2, <2>3 DEF Apart
  <2> QED BY <2>2, <2>4 DEF SpawnsAlone, Joinable
<1> QED BY <1>2, <1>3

LEMMA SpawnThreadStep ==
    ASSUME IInv, TypeOK', NEW t \in Clients, SpawnThread(t)
    PROVE  IInv'
<1> USE DEF SpawnThread, Goto, IInv
<1>1. /\ ~crashed /\ Apart /\ Owns(t)
      /\ thread = "none" /\ created
  BY DEF Apart, Owns
<1>2. /\ AfterCreate(t) \in {"idle", "check"}
      /\ pc' = [pc EXCEPT ![t] = AfterCreate(t)]
      /\ created' /\ thread' = "running"
  BY <1>1 DEF AfterCreate
<1>3. \A u \in Clients : ~Owns(u)'
  BY <1>1, <1>2 DEF Apart, Owns, TypeOK
<1> QED BY <1>2, <1>3 DEF Apart, SpawnsAlone, Owns

LEMMA JoinStep ==
    ASSUME IInv, TypeOK', NEW t \in Clients, Join(t)
    PROVE  IInv'
<1> USE DEF Join, Goto, IInv
<1>1. SpawnsAlone'
  BY DEF SpawnsAlone, Joinable
<1>2. CASE thread = "none"
  BY <1>1, <1>2 DEF Joinable
<1>3. CASE thread # "none"
  <2>1. \A u \in Clients : ~Owns(u)
    BY <1>3 DEF Apart
  <2>2. \A u \in Clients : Owns(u)' => u = t
    BY <2>1 DEF Owns, TypeOK
  <2>3. created' /\ thread' = "none"
    BY <1>3 DEF Apart
  <2> QED BY <1>1, <2>2, <2>3 DEF Apart
<1> QED BY <1>2, <1>3

LEMMA ResetCreatedStep ==
    ASSUME IInv, TypeOK', NEW t \in Clients, ResetCreated(t)
    PROVE  IInv'
<1> USE DEF ResetCreated, Goto, IInv
<1>1. ~crashed /\ Apart /\ Owns(t) /\ thread = "none"
  BY DEF Apart, Owns
<1>2. \A u \in Clients : ~Owns(u)'
  BY <1>1 DEF Apart, Owns, TypeOK
<1>3. thread' = "none" /\ ~crashed'
  BY <1>1
<1> QED BY <1>2, <1>3 DEF Apart, SpawnsAlone, Joinable

LEMMA ClearThreadStep ==
    ASSUME IInv, TypeOK', NEW t \in Clients, ClearThread(t)
    PROVE  IInv'
<1> USE DEF ClearThread, Goto
<1>1. ~crashed /\ Owns(t) /\ thread = "none"
  BY DEF IInv, Apart, Owns
<1>2. crashed' = crashed /\ thread' = thread /\ created' = created
  BY <1>1 DEF Joinable, delegate, IInv, TypeOK
<1>3. pc' = [pc EXCEPT ![t] = "uncreate"] /\ "uncreate" \in Locations
  BY DEF Locations
<1> QED BY <1>1, <1>2, <1>3, Bystander

LEMMA IInvStep == IInv /\ [Next]_vars => IInv'
<1> SUFFICES ASSUME IInv, [Next]_vars PROVE IInv'
    OBVIOUS
<1>0. TypeOK'
  BY TypeStep DEF IInv
<1>1. CASE Poller
  <2> USE DEF Poller, PollerAt, delegate, polling
  <2>1. CASE PollerNotifies
    <3>1. \A u \in Clients : /\ Owns(u)' <=> Owns(u)
                             /\ pc'[u] = "spawn" => pc[u] = "spawn"
      BY <2>1 DEF PollerNotifies, Owns
    <3> QED BY <1>0, <2>1, <3>1, Onlooker DEF PollerNotifies
  <2>2. CASE ~PollerNotifies
    <3>1. /\ pc' = pc /\ created' = created /\ crashed' = crashed
          /\ thread' = thread \/ (thread # "none" /\ thread' # "none")
      BY <1>1, <2>2 DEF PollerInitialises, PollerChecks, PollerUsesWMI, PollerGivesUpWMI,
               PollerUsesWinAPI, PollerPublishes, PollerSetsEnumerated
    <3> QED BY <1>0, <3>1, Onlooker DEF Owns
  <2> QED BY <2>1, <2>2
<1>2. ASSUME NEW t \in Clients, Call(t) \/ SpuriousWakeup(t) PROVE IInv'
  <2>1. \E to \in {"create", "unregister", "terminate", "lock"} :
            /\ pc' = [pc EXCEPT ![t] = to]
            /\ ~crashed /\ thread' = thread /\ created' = created /\ crashed' = crashed
    BY <1>2 DEF Call, CallLookup, CallRegisterObserver, CallUnregisterObserver,
                CallDestroy, Start, SpuriousWakeup, Goto, delegate
  <2> QED BY <1>0, <2>1, Bystander DEF Locations
<1>3. ASSUME NEW t \in Clients, Proceed(t) PROVE IInv'
  <2> USE DEF Goto, delegate
  <2>0. IInv => TypeOK
    BY DEF IInv
  <2>1. CASE Create(t)           BY <1>0, <2>1, CreateStep
  <2>2. CASE SpawnThread(t)      BY <1>0, <2>2, SpawnThreadStep
  <2>3. CASE Join(t)             BY <1>0, <2>3, JoinStep
  <2>4. CASE ClearThread(t)      BY <1>0, <2>4, ClearThreadStep
  <2>5. CASE ResetCreated(t)     BY <1>0, <2>5, ResetCreatedStep
  <2>6. CASE ClearFlag(t)
    BY <1>0, <2>6, Bystander DEF ClearFlag, Locations, Owns
  <2>7. CASE CheckEnumerated(t) \/ TestEnumerated(t) \/ CheckJoinable(t) \/ ResetEnumerated(t)
    <3>1. PICK to \in {todo[t], "lock", "sleep", "join"} :
             /\ pc' = [pc EXCEPT ![t] = to]
             /\ ~crashed /\ thread' = thread /\ created' = created /\ crashed' = crashed
      BY <2>7 DEF CheckEnumerated, TestEnumerated, CheckJoinable, ResetEnumerated
    <3>2. todo[t] \in {"idle", "register", "lookup", "destroyed"}
      BY <2>0 DEF TypeOK, Tasks
    <3> QED BY <1>0, <3>1, <3>2, Bystander DEF Locations
  <2>8. CASE LockSync(t) \/ Sleep(t) \/ Lookup(t) \/ Terminate(t)
    <3>1. PICK to \in {"test", "asleep", "idle", "joinable"} :
             /\ pc' = [pc EXCEPT ![t] = to]
             /\ ~crashed /\ thread' = thread /\ created' = created /\ crashed' = crashed
      BY <2>8 DEF LockSync, Sleep, Lookup, Terminate
    <3> QED BY <1>0, <3>1, Bystander DEF Locations
  <2>9. CASE RegisterObserver(t) \/ UnregisterObserver(t)
    <3>1. PICK to \in {"create", "idle", "terminate"} :
             /\ pc' = [pc EXCEPT ![t] = to]
             /\ ~crashed /\ thread' = thread /\ created' = created /\ crashed' = crashed
      BY <2>9 DEF RegisterObserver, UnregisterObserver
    <3> QED BY <1>0, <3>1, Bystander DEF Locations
  <2> QED
    BY <1>3, <2>1, <2>2, <2>3, <2>4, <2>5, <2>6, <2>7, <2>8, <2>9 DEF Proceed
<1>4. CASE SystemChanges \/ UNCHANGED vars
  <2>1. pc' = pc /\ created' = created /\ crashed' = crashed /\ thread' = thread
    BY <1>4 DEF SystemChanges, vars, delegate
  <2> QED BY <1>0, <2>1, Onlooker DEF Owns
<1> QED BY <1>1, <1>2, <1>3, <1>4 DEF Next

LEMMA IInvInit == Init => IInv
<1> SUFFICES ASSUME Init PROVE IInv  OBVIOUS
<1>1. \A t \in Clients : ~Owns(t) /\ pc[t] # "spawn"
  BY DEF Init, Owns
<1>2. Apart /\ SpawnsAlone
  BY <1>1 DEF Init, Apart, SpawnsAlone, Joinable
<1> QED BY <1>2, InitTypeOK DEF IInv

\* Whatever any number of clients do, the one that won the exchange finds no
\* observer thread, neither a running one nor one that is still to be joined.
THEOREM SpawnsAloneHolds == Spec => []SpawnsAlone
<1>1. IInv => SpawnsAlone
  BY DEF IInv
<1> QED BY <1>1, IInvInit, IInvStep, PTL DEF Spec

-----------------------------------------------------------------------------
(* What clients are doing *)

Waiting == {"check", "lock", "test", "sleep", "asleep"}
Asking == Waiting \cup {"create", "setFlag", "spawn", "register", "lookup"}
Leaving == {"terminate", "joinable", "join", "clear", "uncreate", "reset"}

\* What a client called for is still to be done while it asks for interfaces,
\* and nothing is while it unregisters an observer.  createObserverThread is
\* also called for the first observer, when all else is done.
Tasked ==
    \A t \in Clients :
        /\ pc[t] \in Waiting => todo[t] \in {"register", "lookup"}
        /\ pc[t] \in {"idle", "unregister"} => todo[t] = "idle"
        /\ pc[t] \in Leaving => todo[t] \in {"idle", "destroyed"}
        /\ pc[t] \in Asking => todo[t] # "destroyed"

LEMMA TaskedInit == Init => Tasked
BY DEF Init, Tasked, Waiting, Asking, Leaving

LEMMA TaskedStep == TypeOK /\ Tasked /\ [Next]_vars => Tasked'
<1> SUFFICES ASSUME TypeOK, Tasked, [Next]_vars PROVE Tasked'
    OBVIOUS
<1> USE DEF TypeOK, Tasks, Tasked, Waiting, Asking, Leaving, Goto, locals
<1>1. CASE SystemChanges \/ UNCHANGED vars
  BY <1>1 DEF SystemChanges, vars
<1>2. CASE Poller
  <2>1. /\ todo' = todo
        /\ \A t \in Clients : pc'[t] = pc[t] \/ (pc[t] = "asleep" /\ pc'[t] = "lock")
    BY <1>2 DEF Poller, PollerInitialises, PollerChecks, PollerUsesWMI, PollerGivesUpWMI,
       PollerUsesWinAPI, PollerPublishes, PollerSetsEnumerated, PollerNotifies
  <2> QED BY <2>1
<1>3. ASSUME NEW t \in Clients, Call(t) PROVE Tasked'
  BY <1>3 DEF Call, CallLookup, CallRegisterObserver, CallUnregisterObserver,
     CallDestroy, Start
<1>4. ASSUME NEW t \in Clients, Proceed(t) \/ SpuriousWakeup(t) PROVE Tasked'
  <2>1. CASE Create(t) \/ ClearFlag(t) \/ SpawnThread(t)
    BY <2>1 DEF Create, ClearFlag, SpawnThread, AfterCreate
  <2>2. CASE CheckEnumerated(t) \/ LockSync(t) \/ TestEnumerated(t) \/ Sleep(t)
             \/ SpuriousWakeup(t)
    BY <2>2 DEF CheckEnumerated, LockSync, TestEnumerated, Sleep, SpuriousWakeup
  <2>3. CASE Lookup(t) \/ RegisterObserver(t) \/ UnregisterObserver(t)
    BY <2>3 DEF Lookup, RegisterObserver, UnregisterObserver
  <2>4. CASE Terminate(t) \/ CheckJoinable(t) \/ Join(t) \/ ClearThread(t)
             \/ ResetCreated(t) \/ ResetEnumerated(t)
    BY <2>4 DEF Terminate, CheckJoinable, Join, ClearThread, ResetCreated, ResetEnumerated
  <2> QED BY <1>4, <2>1, <2>2, <2>3, <2>4 DEF Proceed
<1> QED BY <1>1, <1>2, <1>3, <1>4 DEF Next

-----------------------------------------------------------------------------
(* After a restart *)

\* Without a thread nothing was enumerated, but for what a client that is about
\* to say so has not said yet.
Forgotten == enumeratedOnce => created \/ HalfReset

\* What the thread has read it has read since it was made.
PolledSince ==
    /\ born <= system
    /\ thread = "running" /\ poller = "publish" => polled >= born
    /\ thread = "running" /\ poller = "set" => table >= born
    /\ enumeratedOnce => table >= born \/ HalfReset

\* What a client may be shown, from the time it waits for an enumeration: it
\* only does so when none was made.
ShownSince(t) ==
    /\ floor[t] <= born
    /\ pc[t] \in {"lock", "test", "sleep", "asleep"} /\ enumeratedOnce => table >= floor[t]
    /\ pc[t] \in {"register", "lookup"} /\ t \notin hasty => table >= floor[t]

Fresh == blanks = 0 => PolledSince /\ \A t \in Clients : ShownSince(t)

LEMMA ForgottenStep == IInv /\ Tasked /\ Forgotten /\ [Next]_vars => Forgotten'
<1> SUFFICES ASSUME IInv, Tasked, Forgotten, [Next]_vars PROVE Forgotten'
    OBVIOUS
<1> USE DEF TypeOK, Goto, PollerAt, delegate, history, Forgotten, HalfReset
<1>0. TypeOK
  BY DEF IInv
<1>1. CASE SystemChanges \/ UNCHANGED vars
  BY <1>1 DEF SystemChanges, vars
<1>2. CASE Poller
  <2>1. CASE PollerSetsEnumerated
    BY <2>1 DEF PollerSetsEnumerated, IInv, Apart
  <2>2. CASE ~PollerSetsEnumerated
    <3>1. /\ UNCHANGED <<enumeratedOnce, created>>
          /\ \A t \in Clients : pc[t] = "reset" => pc'[t] = "reset"
      BY <1>0, <1>2, <2>2
         DEF Poller, PollerInitialises, PollerChecks, PollerUsesWMI, PollerGivesUpWMI,
             PollerUsesWinAPI, PollerPublishes, PollerNotifies
    <3> QED BY <3>1
  <2> QED BY <2>1, <2>2
<1>3. ASSUME NEW t \in Clients, Call(t) \/ Proceed(t) \/ SpuriousWakeup(t)
      PROVE  Forgotten'
  <2>1. CASE ResetEnumerated(t)
    BY <2>1 DEF ResetEnumerated
  <2>2. CASE ResetCreated(t)
    BY <1>0, <2>2 DEF ResetCreated
  <2>3. CASE ~ResetEnumerated(t) /\ ~ResetCreated(t)
    <3>1. /\ enumeratedOnce' = enumeratedOnce /\ (created => created')
          /\ \E to : pc[t] # "reset" /\ pc' = [pc EXCEPT ![t] = to]
      BY <1>3, <2>3
         DEF Call, CallLookup, CallRegisterObserver, CallUnregisterObserver, CallDestroy,
             Start, SpuriousWakeup, Proceed, Create, ClearFlag, SpawnThread,
             CheckEnumerated, LockSync, TestEnumerated, Sleep, Lookup, RegisterObserver,
             UnregisterObserver, Terminate, CheckJoinable, Join, ClearThread
    <3> QED BY <1>0, <3>1
  <2> QED BY <2>1, <2>2, <2>3
<1> QED BY <1>1, <1>2, <1>3 DEF Next

\* The thread reads the system, unless GetAdaptersAddresses fails.
LEMMA PollerFresh ==
    ASSUME TypeOK, TypeOK', Poller, PolledSince, \A t \in Clients : ShownSince(t),
           blanks' = 0
    PROVE  PolledSince' /\ \A t \in Clients : ShownSince(t)'
<1> USE BoundsAssumption DEF TypeOK, Lists, PolledSince, ShownSince, PollerAt, HalfReset,
        environment, common, delegate, history
<1>1. CASE PollerInitialises \/ PollerChecks
  BY <1>1 DEF PollerInitialises, PollerChecks
<1>2. CASE PollerUsesWMI \/ PollerGivesUpWMI \/ PollerUsesWinAPI
  BY <1>2 DEF PollerUsesWMI, PollerGivesUpWMI, PollerUsesWinAPI
<1>3. CASE PollerPublishes
  BY <1>3 DEF PollerPublishes
<1>4. CASE PollerSetsEnumerated
  BY <1>4 DEF PollerSetsEnumerated
<1>5. CASE PollerNotifies
  <2>1. /\ UNCHANGED <<system, born, floor, hasty, table, polled, thread, enumeratedOnce>>
        /\ poller' = "check"
    BY <1>5 DEF PollerNotifies, polling
  <2>2. \A t \in Clients : pc'[t] = pc[t] \/ (pc[t] = "asleep" /\ pc'[t] = "lock")
    BY <1>5 DEF PollerNotifies
  <2>3. HalfReset' <=> HalfReset
    BY <2>2
  <2> QED BY <2>1, <2>2, <2>3
<1> QED BY <1>1, <1>2, <1>3, <1>4, <1>5 DEF Poller

\* Steps of a client that leave the thread and the table alone, and after which
\* it is no nearer to them.
LEMMA AwayFresh ==
    ASSUME TypeOK, PolledSince, \A u \in Clients : ShownSince(u), NEW t \in Clients,
           UNCHANGED <<system, table, polled, born, floor, hasty>>,
           thread' = "running" => (thread = "running" /\ poller' = poller) \/ poller' = "init",
           NEW to, pc' = [pc EXCEPT ![t] = to],
           pc[t] # "reset", enumeratedOnce' = enumeratedOnce,
           to \in {"lock", "test", "sleep", "asleep"} =>
               pc[t] \in {"lock", "test", "sleep", "asleep"},
           to \notin {"register", "lookup"}
    PROVE  PolledSince' /\ \A u \in Clients : ShownSince(u)'
<1>1. /\ pc'[t] = to /\ \A u \in Clients \ {t} : pc'[u] = pc[u]
      /\ HalfReset => HalfReset'
  BY DEF TypeOK, HalfReset
<1> HIDE DEF HalfReset
<1>2. PolledSince'
  BY <1>1 DEF PolledSince
<1>3. ASSUME NEW u \in Clients PROVE ShownSince(u)'
  BY <1>1 DEF ShownSince
<1> QED BY <1>2, <1>3

\* A client gets past waitForFirstEnumeration only when there was one.
LEMMA CheckFresh ==
    ASSUME TypeOK, PolledSince, \A u \in Clients : ShownSince(u), NEW t \in Clients,
           CheckEnumerated(t) \/ TestEnumerated(t)
    PROVE  PolledSince' /\ \A u \in Clients : ShownSince(u)'
<1> USE BoundsAssumption DEF TypeOK, Lists, Goto, common, environment, delegate, polling, history
<1>1. /\ pc' = [pc EXCEPT ![t] = pc'[t]] /\ pc[t] \in {"check", "test"}
      /\ UNCHANGED <<system, table, polled, poller, thread, enumeratedOnce, born, floor>>
      /\ hasty \subseteq hasty'
      /\ enumeratedOnce => pc[t] = "test" \/ t \in hasty' \/ ~HalfReset
      /\ pc'[t] \in {"lock", "sleep"} \/ enumeratedOnce
      /\ pc'[t] \in {"lock", "test", "sleep", "asleep"} => ~enumeratedOnce \/ pc'[t] = todo[t]
  BY DEF CheckEnumerated, TestEnumerated
<1>2. \A u \in Clients \ {t} : pc'[u] = pc[u]
  BY <1>1
<1>3. HalfReset => HalfReset'
  BY <1>1, <1>2 DEF HalfReset
<1>4. PolledSince'
  BY <1>1, <1>3 DEF PolledSince
<1>5. ASSUME NEW u \in Clients, u # t PROVE ShownSince(u)'
  BY <1>1, <1>2, <1>5 DEF ShownSince
<1>6. ShownSince(t)'
  <2>1. todo[t] \notin {"lock", "test", "sleep", "asleep"}
    BY DEF Tasks
  <2>2. pc'[t] \in {"register", "lookup"} /\ t \notin hasty' => table >= floor[t]
    BY <1>1 DEF PolledSince, ShownSince
  <2> QED BY <1>1, <2>1, <2>2 DEF ShownSince
<1> QED BY <1>4, <1>5, <1>6

\* The client that makes the thread has it read what is there by then.
LEMMA CreateFresh ==
    ASSUME IInv, TypeOK', Forgotten, PolledSince, \A u \in Clients : ShownSince(u),
           NEW t \in Clients, Create(t)
    PROVE  PolledSince' /\ \A u \in Clients : ShownSince(u)'
<1> USE BoundsAssumption
<1>0. TypeOK
  BY DEF IInv
<1>1. /\ ~crashed /\ pc[t] = "create" /\ pc'[t] \in {"idle", "check", "setFlag"}
      /\ \A u \in Clients \ {t} : pc'[u] = pc[u]
      /\ UNCHANGED <<system, table, polled, poller, thread, enumeratedOnce, hasty>>
      /\ born' = IF created THEN born ELSE system
      /\ floor' = [floor EXCEPT ![t] = born']
  BY <1>0 DEF TypeOK, Create, AfterCreate, Await, Goto, environment, common, polling
<1>2. HalfReset => HalfReset'
  BY <1>1 DEF HalfReset
<1>3. /\ born \in Nat /\ born' \in Nat /\ system \in Nat /\ table \in Nat
      /\ \A u \in Clients : floor[u] \in Nat
  BY <1>0 DEF TypeOK, Lists
<1>4. born <= born' /\ born' <= system
  BY <1>1, <1>3 DEF PolledSince
<1>5. ~created => thread = "none" /\ (enumeratedOnce => HalfReset)
  BY <1>1 DEF IInv, Apart, Forgotten
<1>6. PolledSince'
  BY <1>1, <1>2, <1>4, <1>5 DEF PolledSince
<1>7. ASSUME NEW u \in Clients PROVE ShownSince(u)'
  <2>1. CASE u = t
    BY <1>0, <1>1, <1>3, <2>1 DEF ShownSince, TypeOK
  <2>2. CASE u # t
    <3>1. floor'[u] = floor[u]
      BY <1>0, <1>1, <2>2 DEF TypeOK
    <3> QED BY <1>1, <1>3, <1>4, <2>2, <3>1 DEF ShownSince
  <2> QED BY <2>1, <2>2
<1> QED BY <1>6, <1>7

\* What a client was shown it may forget.
LEMMA DoneFresh ==
    ASSUME TypeOK, PolledSince, \A u \in Clients : ShownSince(u), NEW t \in Clients,
           Lookup(t) \/ RegisterObserver(t)
    PROVE  PolledSince' /\ \A u \in Clients : ShownSince(u)'
<1> USE BoundsAssumption
<1>1. /\ pc[t] \in {"lookup", "register"} /\ pc'[t] \in {"idle", "create"}
      /\ \A u \in Clients \ {t} : pc'[u] = pc[u]
      /\ UNCHANGED <<system, table, polled, poller, thread, enumeratedOnce, born>>
      /\ floor' = [floor EXCEPT ![t] = 0] /\ hasty' = hasty \ {t}
  BY DEF TypeOK, Lookup, RegisterObserver, Goto, environment, common, delegate, polling, Empty
<1>2. HalfReset => HalfReset'
  BY <1>1 DEF HalfReset
<1>3. PolledSince'
  BY <1>1, <1>2 DEF PolledSince
<1>4. ASSUME NEW u \in Clients PROVE ShownSince(u)'
  <2>1. CASE u = t
    BY <1>1, <2>1 DEF ShownSince, TypeOK, Lists
  <2>2. CASE u # t
    <3>1. floor'[u] = floor[u]
      BY <1>1, <2>2 DEF TypeOK
    <3> QED BY <1>1, <2>2, <3>1 DEF ShownSince
  <2> QED BY <2>1, <2>2
<1> QED BY <1>3, <1>4

\* _enumeratedOnce is reset.
LEMMA ResetFresh ==
    ASSUME TypeOK, Tasked, PolledSince, \A u \in Clients : ShownSince(u), NEW t \in Clients,
           ResetEnumerated(t)
    PROVE  PolledSince' /\ \A u \in Clients : ShownSince(u)'
<1>1. /\ pc'[t] \in {"idle", "destroyed"} /\ \A u \in Clients \ {t} : pc'[u] = pc[u]
      /\ UNCHANGED <<system, table, polled, poller, thread, born, floor, hasty>>
      /\ ~enumeratedOnce'
  BY DEF TypeOK, ResetEnumerated, Goto, environment, common, polling, history, Tasked, Leaving
<1>2. PolledSince'
  BY <1>1 DEF PolledSince
<1>3. ASSUME NEW u \in Clients PROVE ShownSince(u)'
  BY <1>1 DEF ShownSince
<1> QED BY <1>2, <1>3

LEMMA FreshStep ==
    IInv /\ TypeOK' /\ Tasked /\ Forgotten /\ Fresh /\ [Next]_vars => Fresh'
<1> SUFFICES ASSUME IInv, TypeOK', Tasked, Forgotten, Fresh, [Next]_vars, blanks' = 0
             PROVE  PolledSince' /\ \A t \in Clients : ShownSince(t)'
    BY DEF Fresh
<1>0. TypeOK
  BY DEF IInv
<1>1. blanks = 0
  <2>1. blanks' = blanks \/ blanks' = blanks + 1
    BY DEF Next, vars, environment, SystemChanges, Poller, PollerInitialises, PollerChecks,
       PollerUsesWMI, PollerGivesUpWMI, PollerUsesWinAPI, PollerPublishes,
       PollerSetsEnumerated, PollerNotifies, Call, CallLookup, CallRegisterObserver,
       CallUnregisterObserver, CallDestroy, Start, SpuriousWakeup, Proceed, Create,
       ClearFlag, SpawnThread, CheckEnumerated, LockSync, TestEnumerated, Sleep, Lookup,
       RegisterObserver, UnregisterObserver, Terminate, CheckJoinable, Join, ClearThread,
       ResetCreated, ResetEnumerated
  <2> QED BY <1>0, <2>1, BoundsAssumption DEF TypeOK
<1>2. PolledSince /\ \A t \in Clients : ShownSince(t)
  BY <1>1 DEF Fresh
<1>3. CASE SystemChanges \/ UNCHANGED vars
  <2>1. /\ UNCHANGED <<table, polled, poller, thread, enumeratedOnce, born, floor, hasty, pc>>
        /\ system' = system \/ system' = system + 1
    BY <1>3 DEF SystemChanges, vars, environment, common, delegate, polling, history
  <2>2. system \in Nat /\ born \in Nat
    BY <1>0, BoundsAssumption DEF TypeOK, Lists
  <2>3. PolledSince'
    BY <1>2, <2>1, <2>2 DEF PolledSince, HalfReset
  <2>4. ASSUME NEW t \in Clients PROVE ShownSince(t)'
    BY <1>2, <2>1 DEF ShownSince
  <2> QED BY <2>3, <2>4
<1>4. CASE Poller
  BY <1>0, <1>2, <1>4, PollerFresh
<1>5. ASSUME NEW t \in Clients, Call(t) \/ Proceed(t) \/ SpuriousWakeup(t)
      PROVE  PolledSince' /\ \A u \in Clients : ShownSince(u)'
  <2> DEFINE Nearer == \/ CheckEnumerated(t) \/ TestEnumerated(t) \/ Create(t)
                       \/ Lookup(t) \/ RegisterObserver(t) \/ ResetEnumerated(t)
  <2>1. CASE Nearer
    BY <1>0, <1>2, <2>1, CheckFresh, CreateFresh, DoneFresh, ResetFresh
  <2>2. CASE ~Nearer
    <3>1. /\ UNCHANGED <<system, table, polled, born, floor, hasty, enumeratedOnce>>
          /\ thread' = "running" => (thread = "running" /\ poller' = poller) \/ poller' = "init"
      BY <1>5, <2>2
         DEF Call, CallLookup, CallRegisterObserver, CallUnregisterObserver, CallDestroy,
             Start, SpuriousWakeup, Proceed, ClearFlag, SpawnThread, LockSync, Sleep,
             UnregisterObserver, Terminate, CheckJoinable, Join, ClearThread, ResetCreated,
             environment, common, delegate, polling, history
    <3>2. \E to :
            /\ pc' = [pc EXCEPT ![t] = to] /\ pc[t] # "reset"
            /\ to \in {"lock", "test", "sleep", "asleep"} =>
                 pc[t] \in {"lock", "test", "sleep", "asleep"}
            /\ to \notin {"register", "lookup"}
      BY <1>5, <2>2
         DEF Call, CallLookup, CallRegisterObserver, CallUnregisterObserver, CallDestroy,
             Start, SpuriousWakeup, Proceed, ClearFlag, SpawnThread, AfterCreate, LockSync,
             Sleep, UnregisterObserver, Terminate, CheckJoinable, Join, ClearThread,
             ResetCreated, Goto, Tasked, Leaving
    <3> QED BY <1>0, <1>2, <3>1, <3>2, AwayFresh
  <2> QED BY <2>1, <2>2
<1> QED BY <1>3, <1>4, <1>5 DEF Next

\* Whoever is past waitForFirstEnumeration is shown a list that was read since
\* the thread was made that it made or found, however many clients register and
\* unregister - but for a client that finds _enumeratedOnce set between the two
\* resets of terminateObserverThread: it may be shown the table of the thread before.
THEOREM RestartIsFresh == Spec => []FreshAfterRestart
<1>1. Init => Forgotten /\ Fresh
  <2> SUFFICES ASSUME Init PROVE Forgotten /\ Fresh  OBVIOUS
  <2>1. \A t \in Clients : floor[t] = 0 /\ pc[t] = "idle"
    BY DEF Init, Empty
  <2> QED BY <2>1 DEF Init, Empty, Forgotten, Fresh, PolledSince, ShownSince
<1>2. TypeOK /\ Fresh => FreshAfterRestart
  BY BoundsAssumption DEF TypeOK, Fresh, ShownSince, FreshAfterRestart
<1>3. IInv => TypeOK
  BY DEF IInv
<1> QED
  BY <1>1, <1>2, <1>3, IInvInit, IInvStep, TypeStep, TaskedInit, TaskedStep, ForgottenStep,
     FreshStep, PTL DEF Spec

-----------------------------------------------------------------------------
(* One client that registers *)

\* Registrars has one member at most.
OneRegistrar == \A t, u \in Registrars : t = u

\* A client that terminates the thread.
Ending == {"joinable", "join", "clear", "uncreate", "destroyed"}

\* What the client that registers knows of the thread and of the observers.
Ring(t) ==
    /\ pc[t] = "register" => thread = "running"
    /\ pc[t] = "unregister" \/ (pc[t] = "create" /\ todo[t] = "idle") => observers # {}
    /\ pc[t] \in Leaving \cup {"destroyed"} =>
          IF todo[t] = "idle" THEN observers = {} /\ pc[t] # "destroyed"
          ELSE \A u \in Clients \ {t} : pc[u] = "idle"
    /\ pc[t] = "terminate" /\ todo[t] = "idle" => thread = "running"
    /\ pc[t] = "joinable" /\ todo[t] = "idle" => thread # "none"
    /\ pc[t] = "join" => thread # "none"

Steady ==
    /\ OneRegistrar /\ ~crashed
    /\ \A t \in Clients \ Registrars :
          pc[t] \in (Asking \ {"register"}) \cup {"idle"} /\ todo[t] \in {"idle", "lookup"}
    /\ \A t \in Registrars : Ring(t)
    /\ (\A t \in Registrars : pc[t] \notin Ending) =>
          /\ thread # "finished"
          /\ thread = "running" \/ (\E u \in Clients : pc[u] = "spawn") => ~shouldTerminate
    /\ (\A t \in Registrars : pc[t] \notin Ending \cup {"reset"}) =>
          (enumeratedOnce \/ observers # {} => thread = "running")

\* A step of a client that asks for interfaces, or begins to, and leaves the
\* thread alone.
LEMMA SteadyElsewhere ==
    ASSUME TypeOK, Tasked, Steady, NEW t \in Clients, NEW to \in Asking \cup {"idle"},
           pc' = [pc EXCEPT ![t] = to], \A u \in Clients \ {t} : todo'[u] = todo[u],
           UNCHANGED <<thread, enumeratedOnce, observers, crashed>>,
           shouldTerminate' => shouldTerminate,
           pc[t] = "idle" => ~Destroying,
           t \notin Registrars => to # "register" /\ todo'[t] \in {"idle", "lookup"},
           to = "register" => thread = "running",
           to = "create" /\ todo'[t] = "idle" => observers # {},
           to = "spawn" => ~shouldTerminate',
           pc[t] \in Asking \cup {"idle"}
    PROVE  Steady'
<1> USE ClientsAssumption DEF TypeOK, Asking, Waiting
<1>1. pc'[t] = to /\ \A u \in Clients \ {t} : pc'[u] = pc[u]
  OBVIOUS
<1>2. ASSUME NEW u \in Registrars PROVE Ring(u)'
  <2>1. CASE u = t
    BY <1>1, <2>1 DEF Ring, Leaving
  <2>2. CASE u # t
    <3>1. /\ Ring(u) /\ pc'[u] = pc[u] /\ todo'[u] = todo[u] /\ observers' = observers
          /\ thread' = thread
      BY <1>1, <2>2 DEF Steady
    <3>2. CASE pc[u] \in Leaving \cup {"destroyed"}
      <4>1. CASE todo[u] = "idle"
        BY <3>1, <4>1 DEF Ring
      <4>2. CASE todo[u] # "idle"
        <5>1. pc[t] = "idle"
          BY <2>2, <3>1, <3>2, <4>2 DEF Ring
        <5>2. todo[u] = "destroyed" \/ pc[u] = "destroyed"
          BY <3>2, <4>2 DEF Tasked
        <5> QED BY <5>1, <5>2 DEF Destroying
      <4> QED BY <4>1, <4>2
    <3>3. CASE pc[u] \notin Leaving \cup {"destroyed"}
      BY <3>1, <3>3 DEF Ring, Leaving
    <3> QED BY <3>2, <3>3
  <2> QED BY <2>1, <2>2
<1>3. \A u \in Clients \ Registrars :
          pc'[u] \in (Asking \ {"register"}) \cup {"idle"} /\ todo'[u] \in {"idle", "lookup"}
  BY <1>1 DEF Steady
<1>4. \A u \in Registrars : /\ pc'[u] \in Ending => pc[u] \in Ending
                            /\ pc'[u] = "reset" => pc[u] = "reset"
                            /\ pc[u] \in Ending \cup {"reset"} => pc'[u] = pc[u]
  BY <1>1 DEF Ending
<1>5. (\E u \in Clients : pc'[u] = "spawn") => (\E u \in Clients : pc[u] = "spawn") \/ ~shouldTerminate'
  BY <1>1
<1>6. ASSUME \A u \in Registrars : pc'[u] \notin Ending
      PROVE  /\ thread' # "finished"
             /\ thread' = "running" \/ (\E u \in Clients : pc'[u] = "spawn") => ~shouldTerminate'
  BY <1>4, <1>5, <1>6 DEF Steady
<1>7. ASSUME \A u \in Registrars : pc'[u] \notin Ending \cup {"reset"}
      PROVE  enumeratedOnce' \/ observers' # {} => thread' = "running"
  BY <1>4, <1>7 DEF Steady
<1> QED BY <1>2, <1>3, <1>6, <1>7 DEF Steady, OneRegistrar

\* A step of the client that registers.
LEMMA SteadyRegistrar ==
    ASSUME TypeOK, Steady, NEW t \in Registrars, NEW to,
           pc' = [pc EXCEPT ![t] = to], \A u \in Clients \ {t} : todo'[u] = todo[u],
           Ring(t)', ~crashed',
           to \notin Ending =>
             /\ thread' # "finished"
             /\ thread' = "running" \/ (\E u \in Clients : pc'[u] = "spawn") => ~shouldTerminate',
           to \notin Ending \cup {"reset"} =>
             (enumeratedOnce' \/ observers' # {} => thread' = "running")
    PROVE  Steady'
<1> USE ClientsAssumption DEF TypeOK
<1>1. \A u \in Registrars : u = t
  BY DEF Steady, OneRegistrar
<1>2. pc'[t] = to /\ \A u \in Clients \ {t} : pc'[u] = pc[u]
  OBVIOUS
<1>3. \A u \in Clients \ Registrars :
          pc'[u] \in (Asking \ {"register"}) \cup {"idle"} /\ todo'[u] \in {"idle", "lookup"}
  BY <1>2 DEF Steady
<1> QED BY <1>1, <1>2, <1>3 DEF Steady, OneRegistrar

LEMMA AskingStep ==
    ASSUME TypeOK, IInv, Tasked, Steady, NEW t \in Clients,
           \/ ~Destroying /\ CallLookup(t)
           \/ ~Destroying /\ t \in Registrars /\ CallRegisterObserver(t)
           \/ Create(t) \/ ClearFlag(t) \/ CheckEnumerated(t) \/ LockSync(t)
           \/ TestEnumerated(t) \/ Sleep(t) \/ SpuriousWakeup(t) \/ Lookup(t)
    PROVE  Steady'
<1> USE ClientsAssumption DEF Goto, common, locals, delegate
<1>1. CASE ~Destroying /\ (CallLookup(t) \/ (t \in Registrars /\ CallRegisterObserver(t)))
  <2>1. PICK op \in {"lookup", "register"} :
          /\ pc' = [pc EXCEPT ![t] = "create"] /\ todo' = [todo EXCEPT ![t] = op]
          /\ t \notin Registrars => op = "lookup"
          /\ UNCHANGED <<thread, enumeratedOnce, observers, crashed, shouldTerminate>>
          /\ pc[t] = "idle"
    BY <1>1 DEF CallLookup, CallRegisterObserver, Start
  <2>2. todo'[t] = op /\ \A u \in Clients \ {t} : todo'[u] = todo[u]
    BY <2>1 DEF TypeOK
  <2> QED BY <1>1, <2>1, <2>2, SteadyElsewhere DEF Asking
<1>2. CASE Create(t)
  <2>1. AfterCreate(t) = "idle" \/ (AfterCreate(t) = "check" /\ todo[t] # "idle")
    BY DEF AfterCreate
  <2>2. PICK to \in {"idle", "check", "setFlag"} : pc' = [pc EXCEPT ![t] = to]
    BY <1>2, <2>1 DEF Create
  <2>3. /\ UNCHANGED <<todo, thread, enumeratedOnce, observers, crashed, shouldTerminate>>
        /\ pc[t] = "create"
    BY <1>2 DEF Create
  <2>4. t \notin Registrars => todo[t] \in {"idle", "lookup"}
    BY DEF Steady
  <2> QED BY <2>2, <2>3, <2>4, SteadyElsewhere DEF Asking, Waiting
<1>3. CASE ClearFlag(t)
  <2>1. /\ pc' = [pc EXCEPT ![t] = "spawn"] /\ pc[t] = "setFlag" /\ ~shouldTerminate'
        /\ UNCHANGED <<todo, thread, enumeratedOnce, observers, crashed>>
    BY <1>3 DEF ClearFlag
  <2>2. t \notin Registrars => todo[t] \in {"idle", "lookup"}
    BY DEF Steady
  <2> QED BY <2>1, <2>2, SteadyElsewhere DEF Asking, Waiting
<1>4. CASE \/ CheckEnumerated(t) \/ LockSync(t) \/ TestEnumerated(t) \/ Sleep(t)
           \/ SpuriousWakeup(t)
  <2>1. /\ UNCHANGED <<todo, thread, enumeratedOnce, observers, crashed, shouldTerminate>>
        /\ pc[t] \in Waiting
    BY <1>4 DEF CheckEnumerated, LockSync, TestEnumerated, Sleep, SpuriousWakeup, Waiting
  <2>2. PICK to \in Waiting \cup {todo[t]} :
          /\ pc' = [pc EXCEPT ![t] = to]
          /\ to \notin Waiting => enumeratedOnce
    BY <1>4 DEF CheckEnumerated, LockSync, TestEnumerated, Sleep, SpuriousWakeup, Waiting
  <2>3. /\ todo[t] \in {"register", "lookup"}
        /\ t \notin Registrars => todo[t] = "lookup"
    BY <2>1 DEF Tasked, Steady
  <2>4. to = "register" => thread = "running"
    <3>1. SUFFICES ASSUME to = "register" PROVE thread = "running"
      OBVIOUS
    <3>2. t \in Registrars /\ enumeratedOnce
      BY <2>2, <2>3, <3>1 DEF Waiting
    <3>3. \A u \in Registrars : pc[u] \notin Ending \cup {"reset"}
      BY <2>1, <3>2 DEF Steady, OneRegistrar, Waiting, Ending
    <3> QED BY <3>2, <3>3 DEF Steady
  <2> QED BY <2>1, <2>2, <2>3, <2>4, SteadyElsewhere DEF Asking, Waiting
<1>5. CASE Lookup(t)
  <2>1. /\ pc' = [pc EXCEPT ![t] = "idle"] /\ pc[t] = "lookup"
        /\ todo' = [todo EXCEPT ![t] = "idle"]
        /\ UNCHANGED <<thread, enumeratedOnce, observers, crashed, shouldTerminate>>
    BY <1>5 DEF Lookup
  <2>2. todo'[t] = "idle" /\ \A u \in Clients \ {t} : todo'[u] = todo[u]
    BY <2>1 DEF TypeOK
  <2> QED BY <2>1, <2>2, SteadyElsewhere DEF Asking
<1> QED BY <1>1, <1>2, <1>3, <1>4, <1>5

\* The client that won the exchange makes the thread: nobody ends it meanwhile.
LEMMA SpawnSteady ==
    ASSUME TypeOK, IInv, Tasked, Steady, NEW t \in Clients, SpawnThread(t)
    PROVE  Steady'
<1> USE ClientsAssumption DEF Goto, common, locals, delegate, TypeOK, SpawnThread
<1>1. thread = "none" /\ Owns(t) /\ thread' = "running" /\ ~crashed'
  BY DEF IInv, SpawnsAlone, Joinable, Owns
<1>2. \A u \in Registrars : pc[u] \notin Ending
  <2> SUFFICES ASSUME NEW u \in Registrars, pc[u] \in Ending PROVE FALSE
      OBVIOUS
  <2>1. u # t /\ ~Owns(u)
    BY <1>1 DEF IInv, Apart, Steady, Ending, Owns
  <2>2. pc[u] \in {"joinable", "destroyed"} /\ Ring(u)
    BY <1>1, <2>1 DEF Ending, Owns, Steady, Ring
  <2> QED BY <1>1, <2>1, <2>2 DEF Ring, Leaving
<1>3. ~shouldTerminate
  BY <1>2 DEF Steady
<1>4. /\ pc' = [pc EXCEPT ![t] = AfterCreate(t)] /\ todo[t] # "idle" => AfterCreate(t) = "check"
      /\ todo[t] = "idle" => AfterCreate(t) = "idle"
      /\ UNCHANGED <<todo, observers, shouldTerminate>>
  BY DEF AfterCreate
<1>5. pc'[t] \in {"idle", "check"} /\ \A u \in Clients \ {t} : pc'[u] = pc[u]
  BY <1>4
<1>6. \A u \in Registrars : Ring(u)'
  BY <1>1, <1>2, <1>4, <1>5 DEF Steady, Ring, Leaving, Ending
<1>7. \A u \in Clients \ Registrars :
          pc'[u] \in (Asking \ {"register"}) \cup {"idle"} /\ todo'[u] \in {"idle", "lookup"}
  BY <1>4, <1>5 DEF Steady, Asking, Waiting
<1> QED BY <1>1, <1>3, <1>4, <1>6, <1>7 DEF Steady, OneRegistrar

\* The client that registers the first observer finds the thread, and it ends
\* the thread for the last one.
LEMMA RegistrarStep ==
    ASSUME TypeOK, IInv, Tasked, Steady, NEW t \in Registrars,
           \/ RegisterObserver(t) \/ CallUnregisterObserver(t) \/ CallDestroy(t)
           \/ UnregisterObserver(t) \/ Terminate(t) \/ CheckJoinable(t) \/ Join(t)
           \/ ClearThread(t) \/ ResetCreated(t) \/ ResetEnumerated(t)
    PROVE  Steady'
<1> USE ClientsAssumption
    DEF Goto, common, locals, delegate, TypeOK, Ring, Leaving, Ending
<1>1. /\ Ring(t) /\ ~crashed /\ \A u \in Registrars : u = t
      /\ Apart /\ t \in Clients
  BY DEF Steady, OneRegistrar, IInv
<1>2. pc[t] \notin Ending =>
        /\ thread # "finished"
        /\ thread = "running" \/ (\E u \in Clients : pc[u] = "spawn") => ~shouldTerminate
  BY <1>1 DEF Steady
<1>3. pc[t] \notin Ending \cup {"reset"} =>
        (enumeratedOnce \/ observers # {} => thread = "running")
  BY <1>1 DEF Steady
<1>4. \A to : pc' = [pc EXCEPT ![t] = to] /\ to # "spawn" =>
        ((\E u \in Clients : pc'[u] = "spawn") => \E u \in Clients : pc[u] = "spawn")
  OBVIOUS
<1>5. pc[t] \in {"idle", "unregister"} => todo[t] = "idle"
  BY <1>1 DEF Tasked
<1>6. CASE RegisterObserver(t)
  BY <1>1, <1>2, <1>3, <1>4, <1>6, SteadyRegistrar DEF RegisterObserver
<1>7. CASE CallUnregisterObserver(t)
  <2>1. pc' = [pc EXCEPT ![t] = "unregister"] /\ pc[t] = "idle" /\ observers # {}
    BY <1>7 DEF CallUnregisterObserver
  <2>2. UNCHANGED <<todo, thread, shouldTerminate, enumeratedOnce, observers, crashed>>
    BY <1>7 DEF CallUnregisterObserver
  <2>3. Ring(t)'
    BY <1>1, <2>1, <2>2
  <2> QED BY <1>1, <1>2, <1>3, <1>4, <2>1, <2>2, <2>3, SteadyRegistrar
<1>8. CASE CallDestroy(t)
  <2>1. /\ pc' = [pc EXCEPT ![t] = "terminate"] /\ todo' = [todo EXCEPT ![t] = "destroyed"]
        /\ pc[t] = "idle" /\ \A u \in Clients : pc[u] = "idle"
    BY <1>8 DEF CallDestroy
  <2>2. UNCHANGED <<thread, shouldTerminate, enumeratedOnce, observers, crashed>>
    BY <1>8 DEF CallDestroy
  <2>3. Ring(t)'
    BY <1>1, <2>1, <2>2
  <2> QED BY <1>1, <1>2, <1>3, <1>4, <2>1, <2>2, <2>3, SteadyRegistrar
<1>9. CASE UnregisterObserver(t)
  <2>1. PICK to \in {"terminate", "idle"} :
          /\ pc' = [pc EXCEPT ![t] = to] /\ pc[t] = "unregister"
          /\ to = "terminate" => observers' = {}
    BY <1>9 DEF UnregisterObserver
  <2>2. UNCHANGED <<todo, thread, shouldTerminate, enumeratedOnce, crashed>>
    BY <1>9 DEF UnregisterObserver
  <2>3. thread = "running" /\ todo[t] = "idle"
    BY <1>1, <1>3, <1>5, <2>1
  <2>4. Ring(t)'
    BY <1>1, <2>1, <2>2, <2>3
  <2> QED BY <1>1, <1>2, <1>4, <2>1, <2>2, <2>3, <2>4, SteadyRegistrar
<1>10. CASE Terminate(t)
  BY <1>1, <1>10, SteadyRegistrar DEF Terminate
<1>11. CASE CheckJoinable(t)
  BY <1>1, <1>11, SteadyRegistrar DEF CheckJoinable, Joinable, Tasked
<1>12. CASE Join(t)
  BY <1>1, <1>12, SteadyRegistrar DEF Join, Joinable
<1>13. CASE ClearThread(t)
  <2>1. thread = "none"
    BY <1>1, <1>13 DEF ClearThread, Apart, Owns
  <2> QED BY <1>1, <1>13, <2>1, SteadyRegistrar DEF ClearThread, Joinable
<1>14. CASE ResetCreated(t)
  <2>1. thread = "none" /\ \A u \in Clients : pc[u] # "spawn"
    BY <1>1, <1>14 DEF ResetCreated, Apart, Owns
  <2>2. /\ pc' = [pc EXCEPT ![t] = "reset"] /\ pc[t] = "uncreate"
        /\ UNCHANGED <<todo, thread, shouldTerminate, observers, crashed>>
    BY <1>14 DEF ResetCreated
  <2>3. Ring(t)'
    BY <1>1, <2>2
  <2> QED BY <1>1, <1>4, <2>1, <2>2, <2>3, SteadyRegistrar
<1>15. CASE ResetEnumerated(t)
  <2>1. /\ pc' = [pc EXCEPT ![t] = todo[t]] /\ pc[t] = "reset" /\ ~enumeratedOnce'
        /\ UNCHANGED <<todo, thread, shouldTerminate, observers, crashed>>
    BY <1>15 DEF ResetEnumerated
  <2>2. todo[t] \in {"idle", "destroyed"}
    BY <1>1, <2>1 DEF Tasked
  <2>3. Ring(t)'
    BY <1>1, <2>1, <2>2
  <2>4. todo[t] = "idle" => observers = {}
    BY <1>1, <2>1
  <2> QED BY <1>1, <1>2, <1>4, <2>1, <2>2, <2>3, <2>4, SteadyRegistrar
<1> QED
  BY <1>6, <1>7, <1>8, <1>9, <1>10, <1>11, <1>12, <1>13, <1>14, <1>15

LEMMA PollerSteady == ASSUME TypeOK, Steady, Poller PROVE Steady'
<1> USE ClientsAssumption DEF TypeOK, PollerAt, common, locals, delegate
<1>1. \A t \in Clients : pc'[t] = pc[t] \/ (pc[t] = "asleep" /\ pc'[t] = "lock")
  BY DEF Poller, PollerInitialises, PollerChecks, PollerUsesWMI, PollerGivesUpWMI,
     PollerUsesWinAPI, PollerPublishes, PollerSetsEnumerated, PollerNotifies
<1>2. /\ UNCHANGED <<todo, observers, shouldTerminate, crashed>>
      /\ thread = "running"
      /\ thread' = thread \/ (shouldTerminate /\ thread' = "finished")
      /\ enumeratedOnce' = enumeratedOnce \/ thread' = "running"
  BY DEF Poller, PollerInitialises, PollerChecks, PollerUsesWMI, PollerGivesUpWMI,
     PollerUsesWinAPI, PollerPublishes, PollerSetsEnumerated, PollerNotifies
<1>3. (\A t \in Registrars : pc'[t] \notin Ending) => thread' = "running" /\ ~shouldTerminate'
  BY <1>1, <1>2 DEF Steady, Ending
<1>4. ASSUME NEW t \in Registrars PROVE Ring(t)'
  <2>1. Ring(t)
    BY DEF Steady
  <2>2. pc'[t] \notin Ending => thread' = "running"
    BY <1>3 DEF Steady, OneRegistrar
  <2>3. CASE pc'[t] # pc[t]
    BY <1>1, <2>3 DEF Ring, Leaving
  <2>4. CASE pc'[t] = pc[t]
    BY <1>1, <1>2, <2>1, <2>2, <2>4 DEF Ring, Leaving, Ending
  <2> QED BY <2>3, <2>4
<1>5. \A t \in Clients \ Registrars :
          pc'[t] \in (Asking \ {"register"}) \cup {"idle"} /\ todo'[t] \in {"idle", "lookup"}
  BY <1>1, <1>2 DEF Steady, Asking, Waiting
<1> QED BY <1>2, <1>3, <1>4, <1>5 DEF Steady, OneRegistrar

LEMMA SteadyStep == IInv /\ Tasked /\ Steady /\ [Next]_vars => Steady'
<1> SUFFICES ASSUME IInv, Tasked, Steady, [Next]_vars PROVE Steady'
    OBVIOUS
<1>0. TypeOK
  BY DEF IInv
<1>1. CASE SystemChanges \/ UNCHANGED vars
  BY <1>1 DEF SystemChanges, vars, common, locals, delegate, Steady, OneRegistrar, Ring
<1>2. CASE Poller
  BY <1>0, <1>2, PollerSteady
<1>3. ASSUME NEW t \in Clients, Call(t) PROVE Steady'
  BY <1>0, <1>3, AskingStep, RegistrarStep DEF Call
<1>4. ASSUME NEW t \in Clients, Proceed(t) \/ SpuriousWakeup(t) PROVE Steady'
  <2>1. t \in Registrars \/ pc[t] \in (Asking \ {"register"}) \cup {"idle"}
    BY DEF Steady
  <2>2. \/ Create(t) \/ ClearFlag(t) \/ SpawnThread(t) \/ CheckEnumerated(t)
        \/ LockSync(t) \/ TestEnumerated(t) \/ Sleep(t) \/ SpuriousWakeup(t) \/ Lookup(t)
        \/ t \in Registrars
    BY <1>4, <2>1 DEF Asking, Waiting, Goto, Proceed, RegisterObserver,
       UnregisterObserver, Terminate, CheckJoinable, Join, ClearThread, ResetCreated,
       ResetEnumerated
  <2> QED
    BY <1>0, <1>4, <2>2, AskingStep, SpawnSteady, RegistrarStep DEF Proceed
<1> QED BY <1>1, <1>2, <1>3, <1>4 DEF Next

LEMMA SteadyInit == OneRegistrar /\ Init => Steady
BY ClientsAssumption DEF Init, Steady, Ring, Asking, Waiting, Leaving, Ending

\* With a single registering client, whoever else looks interfaces up, the
\* thread polls whenever somebody observes and nobody is registering.
THEOREM PollsAsLongAsObserved == OneRegistrar /\ Spec => []PollsWhenObserved
<1>1. IInv /\ Steady => PollsWhenObserved
  BY DEF IInv, Apart, Steady, Ending, PollsWhenObserved
<1>2. IInv => TypeOK
  BY DEF IInv
<1> QED
  BY <1>1, <1>2, IInvInit, IInvStep, TaskedInit, TaskedStep, SteadyInit, SteadyStep,
     PTL DEF Spec

\* Nor does the program end: the thread is not assigned while joinable, and not
\* joined while not.
THEOREM NeverCrashes == OneRegistrar /\ Spec => []~crashed
<1>1. Steady => ~crashed
  BY DEF Steady
<1>2. IInv => TypeOK
  BY DEF IInv
<1> QED
  BY <1>1, <1>2, IInvInit, IInvStep, TaskedInit, TaskedStep, SteadyInit, SteadyStep,
     PTL DEF Spec

=============================================================================
