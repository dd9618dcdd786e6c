# Specifications of networkInterfaceHelper

TLA+ modules that model the library *networkInterfaceHelper* from its source,
TLC configurations that check them on small instances, and theorems with proofs
checked by TLAPS. Paths below are relative to the root of the repository;
`common.cpp`, `unix.cpp`, ... abbreviate `src/networkInterfaceHelper_common.cpp`
and so on, `hpp` and `h` the public headers
`include/la/networkInterfaceHelper/networkInterfaceHelper.hpp` and `.h`,
`common.hpp` the internal `src/networkInterfaceHelper_common.hpp`, and `c.cpp`
`src/bindings/c/networkInterfaceHelper_c.cpp`.

Contents: [the system](#the-system), [the modules](#the-modules),
[the runs](#the-runs), [findings](#findings), [the proofs](#the-proofs),
[what is left out](#what-is-left-out), [the plan](#the-plan),
[how to run](#how-to-run).

## The system

The library keeps a table of the network interfaces of the machine and tells
registered observers of every change of it. Programs use a singleton,
`NetworkInterfaceHelper::getInstance()`, from any thread.

| Component | State | Operations |
|---|---|---|
| `NetworkInterfaceHelperImpl` (common.cpp) | `_networkInterfaces`, `_observers`, a recursive mutex `_lock`, the delegate | client calls: `enumerateInterfaces`, `getInterfaceByName`, `registerObserver`, `unregisterObserver`, destructor; calls of the delegate: `onNewInterfacesList`, `onInterfaceAdded`, `onInterfaceRemoved`, five `on...Changed` |
| `OsDependentDelegate_Unix` (unix.cpp) | `_observerThread`, `_shouldTerminate`, `_enumeratedOnce` | `waitForFirstEnumeration`, `onFirstObserverRegistered`, `onLastObserverUnregistered`, the polling thread |
| `OsDependentDelegate_IOS` (ios.mm) | the same; the build is fixed to polling (`USE_POLLING`, ios.mm:74) | the same |
| `OsDependentDelegate_Win32` (win32.cpp) | as above and `_observerThreadCreated`, `_syncLock`, `_syncCondVar`, `_comGuard` | `createObserverThread`, `terminateObserverThread`, `waitForFirstEnumeration`, the observer thread |
| `OsDependentDelegate_MacOS` (mac.mm) | `_observerThread` and its run loop, `_dynamicStore`, `_notificationPort` with two iterators, `_interfaceToServiceMapping`, `_notificationLock` | the same methods, the run loop's thread, `dynamicStoreChangedCallback`, `onIONetworkInterfaceChanged` |
| Enumeration (`refreshInterfaces` of each delegate) | the list being read | `getifaddrs`; WMI, then `GetAdaptersAddresses`; the dynamic store and ioctl |
| C bindings (c.cpp) | none of their own; copies on the heap that the program holds | enumerate, get by name, free, MAC address to string |
| MAC helpers (common.cpp) | none | to string and back |
| `IPAddressInfo` and netmasks (ipAddressInfo.cpp, common.hpp, ipAddress.cpp) | an address and a netmask | make, validate and convert masks; network base, broadcast, private range |
| `IPAddress` (ipAddress.cpp) | type, bytes or groups, displayed string | parse, display, pack, `+ - ++ --`, `<`, embedded IPV4s |
| SWIG bindings, `windowsHelper`, library information, build files, examples | none of their own | |

**How they interact.** A client calls the singleton. Before it looks at the table
or at the observers it calls `waitForFirstEnumeration` of the delegate, which
(Unix) enumerates in the caller's thread or (Windows) has a thread do so and
waits on a condition variable. `registerObserver` and `unregisterObserver` take
`_lock`, change the set, find out whether the observer was the first or the last,
release `_lock`, and only then call the delegate, which creates or joins its
thread. The thread reads the system's configuration and hands the list to
`onNewInterfacesList`, which takes `_lock`, compares with the table, calls every
observer for every difference, and stores the new list last. Observers run inside
of that lock and may call back, since the mutex is recursive. On macOS nobody polls:
the dynamic store calls back on a thread with a run loop, IOKit on a dispatch queue;
both say that something changed, and the callback reads what is now and hands on a
single field, or a whole list, under `_notificationLock`.

**What is hard about it.** Decisions taken under the lock and acted upon outside
of it (`isFirst`, `isLast`); joining a thread that may want the lock of the joining
one; a table that is replaced only after all callbacks; sets and tables that are
changed by callbacks while they are walked; flags that have to be reset in the
right order for the next thread; a notification without the mutex; a failing
enumeration that looks like an empty machine; a list put together by several calls
of a system that changes in between; notifications that are read late, and told in
bits and as a whole by two threads; a wait with a timeout for a promise on the stack;
copies made of many blocks of memory that another language gives back; numbers at
the boundary of two words, shifts by their full width, unsigned subtractions that
wrap.

**What makes each part correct.**

- *Core*: between operations every observer's picture is the table; nobody is told
  what is no news to it; operations return.
- *Delegates*: exactly while there are observers a thread polls, one at a time; a list
  that is shown is no older than a restart, or than the thread it is awaited from; every
  call returns; nothing runs after the destruction.
- *The delegate for macOS*: once all notifications are told the table is what the
  system is; all are told; what the run loop's thread uses outlives it.
- *Enumeration*: what does not change while it is read is in the list, with its own
  addresses; a list is read in one way only.
- *C bindings*: a copy stays whole until it is given back, and is given back as a whole.
- *Netmasks*: what is accepted is contiguous; a mask has the prefix length it was
  made for; base and broadcast delimit the network.
- *Addresses*: arithmetic is exact and agrees with the order; what is displayed is
  read back; strings mean what they spell.

The hazards, at their lines, with the properties that cover them, are in
`PROJECT.json`; those of code that is not modelled are under
[what is left out](#what-is-left-out).

## The modules

| Module | Models |
|---|---|
| `TablePublication` | abstract: what the core promises its observers |
| `NetworkInterfaceHelper` | `NetworkInterfaceHelperImpl`, callback by callback |
| `PollingDelegate` | client threads, the core's locking, `OsDependentDelegate_Unix` and its thread |
| `Win32Delegate` | the same with `OsDependentDelegate_Win32` |
| `MacDelegate` | the same with `OsDependentDelegate_MacOS`, its run loop, the dynamic store and IOKit |
| `Enumeration` | `refreshInterfaces` on Unix, iOS and Windows, call by call |
| `CBindings` | the C bindings over the table that `Enumeration` publishes; MAC addresses |
| `IPAddressInfo` | netmasks and networks |
| `IPAddress` | packing, arithmetic, order, embeddings |
| `IPAddressText` | the constructor from a string and `buildIPString` |
| `MC...` | instances for TLC |
| `..._proofs` | theorems: of the module they are named after, and `CBindings_proofs` of `Enumeration` as well |

Each operator that models code is mapped to its lines in `PROJECT.json`. Operators named
`Something_Variant` and preceded by a comment `Mutant:` are not part of the model:
each is a form of `Something` with a plausible mistake in it, under which one of
the properties must fail, as a check that the property can.

### NetworkInterfaceHelper and TablePublication

State: `observers` and `table` are the members of the class. The other variables
are the locals of the operation in progress: `op` (which one, `"idle"` when `_lock`
is free), `pending` (the notifications it has still to make), `call` (the one being
made), `cursor` (the observer called last), `guest` (the one being registered) and
`result` (the table it will leave). `view` is a history variable: what each
observer has built from its callbacks, as the observer in
`tests/src/networkInterfaceHelper_tests.cpp` does.

`OnNewInterfacesList`, `OnInterfaceAdded`, `OnInterfaceRemoved`, `OnFieldChanged`
(five handlers with the same code), `RegisterObserver` and `UnregisterObserver` start
an operation with the table as it is during the callbacks - old in
`onNewInterfacesList` and `onInterfaceRemoved`, new in the others. `Notify` goes on
to the next notification in an order the code allows, `Callback` calls the next
observer in the order of the set, `Finish` stores the result and returns. Between
these steps `NestedRegister`, `NestedUnregisterOther` and `NestedUnregisterSelf` are
the calls observers make; the constant `Nested` says which of them they do. An
observer that erases itself from the set being walked is undefined behaviour and
is left out (the action says so); from inside of `registerObserver`, where the
walk is over the table, it is included.

A list is a function from names to the five fields whose changes are reported;
`Changes(old, new)` is the set of notifications `onNewInterfacesList` makes.

`TablePublication` says that a publication replaces the table and all mirrors in
one step. The refinement mapping takes the table of the last finished operation
for the table, and for each observer that is not just being registered its replica
when idle and that table while an operation is in progress.

### PollingDelegate

Client threads are program counters: `pc` names the code the client runs next,
`todo` where it continues when `waitForFirstEnumeration` or
`terminateObserverThread` returns. A step is the code between two accesses to
state another thread can reach, so testing `_enumeratedOnce`, reading the system,
publishing and setting the flag are four steps, and so are the parts of
`terminateObserverThread`. `holder` is the client that keeps `_lock` from one step
to the next; only callbacks need that. A list is the number of the version of the
system's configuration it was read from, `Empty` for none; what the list does to
observers is the business of the module above. Assigning a `std::thread` that is
joinable and joining one that is not end the program (`crashed`): the methods are
`noexcept`.

`restarted` and `floor` are history: once the last observer is gone, the next call
may only be shown a list at least as new as the system is at that moment.

`_shouldTerminate` is a plain `bool` that two threads use without a lock, formally a
data race. The model reads it afresh in every round of the loop: the loop calls
functions whose bodies the compiler does not see, so builds do the same.

The delegate for iOS under `USE_POLLING` is the same code, line by line, and is
covered by the same module.

### Win32Delegate

The same structure, for a delegate whose thread does all enumerations.
`Create`, `ClearFlag`, `SpawnThread` are `createObserverThread` with its atomic
exchange; `CheckEnumerated`, `LockSync`, `TestEnumerated`, `Sleep` and
`SpuriousWakeup` are `waitForFirstEnumeration` and the condition variable's wait, in
which testing the predicate and falling asleep are two steps under `_syncLock`.
The thread sets `_enumeratedOnce` and notifies *without* that mutex: the
notification may fall between the two. `PollerUsesWMI` and `PollerGivesUpWMI` are
`refreshInterfaces` with WMI succeeding and failing, `PollerUsesWinAPI` the fall
back, which may fail too (`blanks`).

`born`, `floor` and `hasty` are history: how new the system was when the latest thread was
about to be made, the same as each client found it at the exchange (`Await`), which is the
oldest list it may be shown, and the clients that found `_enumeratedOnce` set while another
one was between the two resets of `terminateObserverThread` (`HalfReset`).

### MacDelegate

Clients are program counters again. The system is a set of keys: for each interface an
adapter (IOKit), and in the dynamic store a service, a user defined name, addresses in
the setup, a link, and addresses in the state. `SystemChanges` toggles a key and notes
it down for those who asked: in `pending` for the dynamic store, in `iterators` for
IOKit (`"match"` or `"terminate"`). A notification carries no value; `HandleKey` and
`ReadInterfaces` read what the system is by then.

`ClearMapping`, `ListServices`, `ReadInterfaces` and `Publish` are `refreshInterfaces` and
`onNewInterfacesList`, run by clients without `_notificationLock` and by the two handlers
with it; `mapping` is the map of services they share. `StoreCalls`, `LockNotification`,
`HandleKey` with `NotifyNews` for each key, `HandleByRefresh` and `Handled` are
`dynamicStoreChangedCallback`; `IOKitCalls`, the enumeration and `Drain` (`clearIterator`) are
`onIONetworkInterfaceChanged`. `ArmPort`, `CreateStore` and `WaitReady` are
`onFirstObserverRegistered`; `ReleasePort`, `StopRunLoop`, `Join` and `ReleaseStore` are
`terminateObserverThread`; `LoopStarts` to `LoopEnds` the thread. The two seconds' wait is
a choice: the promise is set, or it is `"gone"` when the thread comes to set it, which
is undefined and may end the program or not. `CFRunLoopStop` reaches a loop that runs;
before that it has no effect on the loop to come.

Calls of the system may fail, `failures` of them: no list of services (`ListFails`), no
addresses of some interfaces or of all (`ReadFails`: `getifaddrs`, the socket or an ioctl;
an interface without a MAC address is removed from the list, while the map of services
is filled), no notification port (`ArmPort`), no dynamic store or keys (`CreateStore`).

`unseen` is history: the keys whose present value the library need not know, because
something named under [Exceptions](#the-runs) swallowed the news; `torn` marks the
threads whose map was rebuilt by another one.

### Enumeration and CBindings

`Enumeration` is the loop of a delegate that reads and publishes for ever, with every
call of the system a step of its own, so that adapters come, go and change in
between. An adapter is a name, a type, a sequence of addresses and whether it is active.
`getifaddrs` gives everything at once: `RefreshIfaddrs` folds the body of the loop,
`Record`, over what it gives. Windows takes up to three passes: `Query`, `NextAdapter` and
`AdapterFails` (WMI), `AskSize` and `ReadAddresses` (`GetAdaptersAddresses`, called once for
the size and once for the contents), and, when WMI is given up, the size and the
contents once more without it. `pass` keeps which of them listed an adapter, in
place of the fields each of them fills. `cut` and `steady` are history: a call failed
and left something out; adapters that have not changed since the enumeration began.

`CBindings` extends it with a C program. Every block of memory that `new` or `strdup`
makes has a name, (structure, field, place); `heap` says what is in it. `Make` is
`make_nih_network_interface`, in which any `strdup` may find no memory, `Released` the
blocks that the loops of `delete_nih_network_interface` reach. `LA_NIH_enumerateInterfaces`
holds the lock until the last interface is handed out, one by one, while the program
gives back, keeps or asks for others. A single thread makes these calls; the delegate
publishes whenever the lock is free. MAC addresses are six bytes, their strings
sequences of digits and separators, letters of either case being the same digit.

### IPAddressInfo

Unsigned integers are sets of bit positions, at their real widths: `&` and `|` are
intersection and union, and nothing has to be counted to compare. The state is an
`IPAddressInfo`, whose members are public, and the actions are the ways the
delegates fill it: masks as `getifaddrs` reports them, `makePackedMaskV4` and
`makePackedMaskV6` on Windows, `packedV6FromPrefixLength` on macOS. A shift by the
full width of the integer, undefined in C++, is a choice between the two outcomes
of builds (everything or nothing shifted out).

### IPAddress and IPAddressText

`IPAddress` keeps digits as digits but lets a byte have `ByteSize` values: with two
of them an IPV6 has 16 bits, and every carry of the code is within a few steps of
every start; the theorems are about bytes of any size. `Number` and `Digits` are the
shifts of `pack` and `unpack`. The state is an address that walks through a range and
is embedded and extracted on its way.

`IPAddressText` takes strings as the tokens between colons (what
`utils::tokenizeString` returns): nothing, a group, or a dotted part of any number of
bytes. `Trims`, `SanityChecks`, `EmptyTokens`, `PackPosition` and `Packed` are the
stages of the constructor; `buildIPString` yields tokens again. For the string `":"`
the code reads the element before the first one; the model allows both outcomes
of that read.

## The runs

Runs marked with a cross are expected to violate their property: see
[Findings](#findings). All others pass.

| Run | Properties | Bounds and why they are enough |
|---|---|---|
| `Core` | `Mirror`, `NoSpuriousCallback`, `PublishesAtomically`, `OperationsReturn` | Three observers: one before, one at, one after the cursor. Two interfaces; lists add and remove either or both, remove one while they change the other, change two fields at once. The handlers of single fields have two of the five to change, `isEnabled` and `gateways`, the first and the last that are compared; the theorems are about all five. All nested calls. |
| `Polling_lookups` | `TypeOK`, `NoCrash`, `PollsWhenObserved`, `FreshAfterRestart`, `ObserversCatchUp`, `CallsReturn` | One client registers, another looks up: the intended use of several threads. Two observers, so that unregistering one is not always the last; two versions of the system, one failure; restarts without limit, destruction. |
| `Polling_reentrant` | `WaitsForEnumeration`, `SilentOnceDestroyed`, `LookupsReturn` | Two clients that both register, and handlers and observers that unregister: little more is true of the delegate then (see [Findings](#findings)). |
| `Polling_nested_unregister` ✗ | `OutsideTheLock` | One client and one observer suffice. |
| `Win32_lookups` | `SpawnsAlone`, `PollsWhenObserved`, `FreshAfterRestart`, `ComReleased`, `CallsReturn` | As `Polling_lookups`, with a failure of WMI and one of the fall back: a client is awake, between test and sleep, or asleep when the notification is made or missed; one looks up at every step of the other's restart. For two clients that both make and terminate the thread, and any number, `SpawnsAlone` and `FreshAfterRestart` are theorems. |
| `Mac` | `TypeOK`, `UpToDateWhenSettled`, `LifetimesNest`, `ChangesAreTold`, `CallsReturn` | One interface with all its keys, of which any two change, one after the other or together; three threads (a client, the run loop, IOKit); one failing call, of any of those above; restarts without limit. |
| `Bindings` | `TypeOK`, `SteadyAdaptersListed`, `NeverMixed`, `CopiesAreWhole`, `MacAddressesReadBack`, `FreedAsAWhole` | The three platforms; an adapter like any other, a loopback, one WMI hides, one of no supported type, with no address or with two, the first of which IPAddress may not accept; one change and one failing call between any two steps, one `strdup` without memory. One structure at a time, whose name is used again when it is freed. |
| `Netmask` | `OnlyContiguous`, `PrefixLengthKept`, `NetworkDelimited`, `PrivateAsAWhole` | Widths of 32 and 2 x 64 bits, all prefix lengths a byte can hold, masks with gaps inside a half and between halves, addresses at both ends of the private ranges. |
| `Netmask_windows` ✗ | `WindowsPrefixLengthKept` | The same. |
| `Walk` | `WalkIsExact`, `WalkIsOrdered`, `EmbeddingCommutes` | Walks of up to six steps of at most one from both sides of every carry, including the ends. |
| `Walk_by_more` ✗ | `WalkIsExact` | Steps of up to three. |
| `Text` | `RoundTrip`, `Canonical`, `MeansWhatItSpells` | All 3^8 addresses of groups 0, 1 and all ones; all strings of up to nine tokens that are empty, a group, or dotted with four or three parts. The longest valid string has nine tokens. |

A client does not have to call, and after the destruction nobody can, so systems
at rest deadlock in TLC's sense; the runs of the delegates, of the bindings and of the
strings switch the check off. It stays on for the core, whose operations are always possible, for
the netmasks and for the walks.

**Bounds in guards.** `MaxVersion` and `MaxFailures` bound the changes and failures
of the system, `MaxOffset` a walk, `MaxTokens` a string. Versions are only
compared with one another, and a list is old or new with two of them; one failure
is enough to be made up for or not. `MaxChanges` bounds the changes of a system of
keys or adapters: two on macOS, so that one may undo or overtake the other; one in
`Bindings`, which has to fall between two calls of one enumeration. `MaxExhausted` bounds
the calls of `strdup` that fail. No lists, no restarts and no calls are counted.

**Fairness.** Liveness is checked under `FairSpec`. In the core, `WF(Continue)`: the
thread that holds the lock keeps running and observers return, which the
documentation of the callbacks asks of them. In the delegates, `WF(Poller)` and
`WF(Proceed(t))`: the scheduler runs threads that can run. `SF(Locks(t))` in
`PollingDelegate` and `SF(LockSync(t))` in `Win32Delegate`: a mutex released again and
again by short sections is obtained in the end; without it a client could be
overtaken for ever. In `MacDelegate`, `WF(Loop)`, `WF(Handler)` and `WF(Proceed(t))`: the run
loop delivers what its source has to tell, the dispatch queue runs its handlers, and
clients inside of a call go on. `_notificationLock` is only wanted by two threads, each
of which waits for a new notification before it wants it again; with finitely many
changes weak fairness is enough. Nothing is assumed of clients (they need not call), of the
system (it need not change) or of spurious wakeups.

**Exceptions named by the properties.** Some properties hold only with an
exception, and each exception is something the code does:

- `Mirror`, `NoSpuriousCallback` and the refinement mapping leave out `late`
  observers, those registered from inside of another's notification: they are
  handed the old table and may or may not be reached by the walk in progress.
- No property says that nobody is called after it was unregistered: an observer that
  unregisters itself in the first `onInterfaceAdded` of its registration is called for the
  rest of the table (common.cpp:185). Otherwise the walk is over the set, and erasing
  from that is what unregistering is.
- `PublishesAtomically` is about observers. A lookup from inside of a callback of
  `onNewInterfacesList` still finds the old table, which is stored last.
- `NoCrash` and `PollsWhenObserved` need a single registering client. With two,
  `isFirst` and `isLast` may be stale when they are acted upon: the thread is
  stopped while somebody observes, or a `std::thread` is assigned while joinable
  and the program ends. An observer that unregisters itself while it is the first
  to be registered has the same effect: a thread starts that nobody needs, and
  the next registration ends the program.
- `LookupsReturn` excepts a client that joins the thread with the lock held
  (finding 1), `CallsReturn` of `Win32Delegate` clients that are `Abandoned`: if the
  thread they wait for is terminated before it enumerates, nobody wakes them until
  some other thread has enumerated.
- `FreshAfterRestart` of `Win32Delegate` leaves out clients that are `hasty`: they test
  `_enumeratedOnce` between win32.cpp:534 and 535, which reset `_observerThreadCreated` and
  `_enumeratedOnce` for the next thread. They call while the unregistration that ends the
  thread has not returned, make the next one themselves or find it made, do not wait for it,
  and are shown the table that the last thread left. Nor does it say anything once the plain
  API has failed (`blanks`): an empty list is then published. `FreshAfterRestart` of
  `PollingDelegate` is about calls that begin after the unregistration of the last observer
  has returned; those that overlap with it may be shown the old table.
- `UpToDateWhenSettled` and `ChangesAreTold` leave out `unseen` keys. The library need not
  know of a change that happened while nobody was registered for it (also between the first
  enumeration and `onFirstObserverRegistered`: mac.mm:718 discards the adapters "already
  discovered" on the ground that they are listed manually, which nobody does); while a
  client was between reading and publishing a list; while the handler of IOKit was between
  reading its list and emptying its iterator (mac.mm:658); while another thread was
  rebuilding the map of services (mac.mm:416); when the port or the dynamic store could not
  be created or be given its keys (mac.mm:711, 740, 745), so that nobody is told; or when a
  reading failed: without a list of keys (mac.mm:419, 428) the table is empty, and if
  `getifaddrs`, the socket or an ioctl fails (mac.mm:358, 366, 403) the interfaces it leaves
  without a MAC address are erased (mac.mm:500) although the map of services is filled, so
  that news of their single fields finds no interface in the table and is ignored
  (common.cpp:355). The next full list makes up for each of them. Nor need it know what is
  in the setup of a service it need not know of (`Unknown`): whether addresses are looked
  for there is decided by the map of services (mac.mm:148), which by then may be another
  client's. The run loop's callback reads map and keys in one step (`HandleKey`): a map that
  a client clears between its two look-ups, of the service (mac.mm:579) and of its interface
  (mac.mm:319, 335), loses addresses of the setup as one that is cleared before does, a case
  of the rebuilding above.
- `CallsReturn` of `MacDelegate` excepts a client whose stop is lost (`StopLost`):
  `CFRunLoopStop` came after the promise and before `CFRunLoopRun`, although the comment at
  mac.mm:758 says "the thread can safely be stopped from now on". `LifetimesNest`
  allows the end of the program if the thread was not ready within two seconds. Observers
  of `MacDelegate` do not call back: unregistering the last one from inside a callback,
  which joins the
  run loop's thread from that thread itself, or from the handler of IOKit with `_notificationLock`
  held, is outside its `CallsReturn` (finding 1 has the same join with the core's lock held).
- `LifetimesNest` says nothing of a handler that IOKit has already called when the
  port is destroyed (mac.mm:666): nobody waits for it.
- `SteadyAdaptersListed` leaves out lists that are `cut`: if `Next` or the fall back fails,
  what has been read so far is published as if it were all. It also leaves out
  addresses that are `Unreadable`: on Unix the constructor of `IPAddress` throws for a
  link-local address on an adapter with a dot in its name (`fe80::1%eth0.100`: the dot
  makes the last group look like an IPV4), and unix.cpp:189 ignores it.
- `CopiesAreWhole` and `FreedAsAWhole` leave out what is behind a `strdup` that found no
  memory: the NULL in its place ends the array for whoever walks it.
- `MeansWhatItSpells` leaves out strings that spell out more than eight groups: with
  nine and a double colon they are accepted, and `MaxTokensV6 - tokensV6.size() + 1`
  (ipAddress.cpp:267) wraps below zero.
- No property says that lists are shown in the order in which they were read: two
  enumerations at the same time may publish the older list last. Nor that WMI is not
  tried again after a failure: it is, by the next thread.

## Findings

Three disagreements between the code and what its comments, headers or tests say,
each the counterexample of one run. Lines and quotations are in `PROJECT.json`.

1. `Polling_nested_unregister`: unregistering the last observer from inside of a
   callback joins the thread with the recursive lock still held; if the thread
   wants the lock, neither goes on.
2. `Netmask_windows`: `makePackedMaskV6` does not make the mask of the prefix length.
3. `Walk_by_more`: adding more than one over the boundary of the two words of an IPV6
   adds the rest to the upper word and clears the lower one.

Others met on the way have no run of their own and are named as exceptions above or
here: the adapters that mac.mm:718 discards; the stop that mac.mm:758 calls safe; the
order of the resets at win32.cpp:534 and 535, on account of which
`waitForFirstEnumeration` may not "block until the first enumeration occured since
creation" (win32.cpp:608) of the next thread, as it would in the other order; nine
groups and a double colon, accepted as an address; the function `LA_NIH_freeString`,
which h:88 tells C programs to call and which does not exist (the program frees the
string itself).

## The proofs

TLC checks an instance, the theorems hold for every value of the constants that
satisfies the named assumptions of the module. No theorem uses other assumptions, but
some have a hypothesis of their own, named where they are listed. The type invariant
of a module that has theorems is one of them; the runs repeat it where it says more
than the types of the variables, the others leave it to the proof. The invariants below
were checked by TLC on the runs' instances before they were proved.

**`NetworkInterfaceHelper_proofs`** - for any observers, names, values, lists and
nested calls:

- `TypeCorrect`: `Spec => []TypeOK`.
- `MirrorCorrect`: `Spec => []Mirror`. `Mirror` speaks only of the moments when the
  lock is free, and says nothing of how the replicas get there, so it is not
  inductive. The invariant is `IInv == TypeOK /\ Progress /\ AtRest /\ Mirror`.
  `AtRest`: when idle, the table is the last operation's result. `Progress`: while an
  operation is in progress, it owes only notifications that are true of the table it
  will leave, and owes each observer that is not late at least
  `Changes(view[o], result)`: `pending` if the walk has passed the observer, `pending`
  and the current `call` if it is still ahead. While an observer is being registered,
  all others already have the table. The lemmas about `Changes` and `Apply`
  carry it: applying a true notification takes it off the changes that are lacking and
  adds none (`ApplyShrinks`), and no changes means equal tables (`NoChanges`). One lemma per
  action (`OnNewInterfacesListStep`, ..., `NestedRegisterStep`) shows that it is kept.

In the same module, what the core promises its observers:

- `CallbacksAreNews`: `Spec => NoSpuriousCallback`. The invariant adds `News` to `IInv`: the
  walk of a change owes an observer that is not late nothing but changes its replica
  lacks, and no notification is owed twice. With `Progress`, which bounds what is owed from
  below, it is exactly what is lacking.
- `Refinement`: `Spec => PublishesAtomically`. Two facts carry it: `Held`, the table of the
  last finished operation is the one in memory when the lock is free and all through
  `registerObserver`; and `MirrorBarIs`, the replicas of the observers that are not late are,
  as the refinement mapping sees them, all that one table. Hence `Finish` is the
  publication, the end of `registerObserver` a registration, what takes an observer
  away an unregistration, and all other steps stutter.

**`IPAddressInfo_proofs`** - for any widths, addresses, masks and private ranges whose
masks are prefixes:

- `TypeCorrect`: `Spec => []TypeOK`.
- `MasksAreContiguous`: what `validateNetmaskV4` and `validateNetmaskV6` accept are
  prefixes.
- `PrefixLengthsAreKept`: masks made from a prefix length have it.
- `NetworksAreIntervals`: an address is in the network if and only if it is between
  base and broadcast.
- `PrivateNetworks`: if `isPrivateNetworkAddress` holds, the whole network is private.

`IInv == TypeOK /\ Made`, where `Made` ties the netmask to the helper that made it.
The rest is about words as sets of bits: a set of bits has a least and a greatest
element (by the well-foundedness of the natural numbers), hence a prefix has one
length, the numerical order contains inclusion and is asymmetric, and between
masks that are prefixes greater means longer.

**`PollingDelegate_proofs`** - for any clients, observers, versions and failures:

- `TypeCorrect`, `Silence` (`[]SilentOnceDestroyed`) and `FirstEnumerationAwaited`
  (`[]WaitsForEnumeration`) hold for any number of registering clients and whatever
  handlers and observers call. `Ending`: the client that destroys the object is the only one
  in it, and past the join there is no thread. `Waited`: as long as no reading fails, no list
  that has been read, or can be looked at, is older than the first.
- `NeverCrashes`, `PollsAsLongAsObserved` and `RestartIsFresh` are
  `OneRegistrar /\ Spec => []...`. `OneRegistrar` says that one client registers and
  unregisters and that callbacks do not: without it the properties are false, as the
  exceptions above say. The invariant `Steady` gives, for each location of that client,
  what it found there (`Ring`: no thread when it starts one, one when it joins it), keeps the
  other clients to lookups, and says that unless it is in the middle of starting or ending the
  thread (`Calm`), a thread runs exactly if there are observers (`Matched`). `Fresh`: after
  the end of the thread nothing is read nor about to be shown until the next call, and from
  then on nothing shows that is older than what that call found.

**`Win32Delegate_proofs`** - for any clients, registrars and observers, any number of
versions and failures:

- `TypeCorrect`: `Spec => []TypeOK`.
- `ComReleasedByItsThread`: `Spec => []ComReleased`, inductive as it stands.
- `SpawnsAloneHolds`: `Spec => []SpawnsAlone`, however many clients register and
  unregister at the same time. `SpawnsAlone` speaks of the client at the assignment of
  the `std::thread` and says nothing of those on their way to it, so it is not inductive.
  The invariant is `IInv == TypeOK /\ SpawnsAlone /\ (crashed \/ Apart)`. `Apart`: at most
  one client owns the thread, by having won the exchange or joined it; while one does,
  there is no thread and `_observerThreadCreated` is set; it is also set while there is a
  thread. `crashed` is there because two clients may both join the same thread, which
  ends the program. Most steps are those of an `Onlooker` or of a `Bystander`; the five
  that touch the thread or the flag have a lemma each.
- `RestartIsFresh`: `Spec => []FreshAfterRestart`, again for any number of registering
  clients. `Forgotten`: `_enumeratedOnce` is set only while `_observerThreadCreated` is, or
  while somebody is between the two resets. `PolledSince`: what the thread has read is no older
  than `born`, and neither is the table whenever the flag is set, but between the resets.
  `ShownSince`: no client awaits more than `born`, and the table is as new as what is awaited
  by clients past their wait that are not hasty. Most lemmas are about one step that
  makes, ends or hears of a thread; `Tasked` says what each client was called for.
- `PollsAsLongAsObserved` and `NeverCrashes` are `OneRegistrar /\ Spec => []...`, as for
  `PollingDelegate`, with an invariant of the same make.

**`MacDelegate_proofs`** - for any clients, one of which registers (an assumption of the
module), any interfaces, systems, changes and failures:

- `TypeCorrect`: `Spec => []TypeOK`; what is told is a piece of news whenever the callback
  is about to tell (`Telling`).
- `LifetimesAreNested`: `Spec => []LifetimesNest`. `Places` says where clients that
  only look up, the run loop and the queue can be at all. `Nested`: the thread is there from
  `CreateStore` to `Join`, the store longer, the promise until it was waited for, the run loop
  from the thread's first step to its last, which only a client that joins makes it take.
- `UpToDateOnceSettled`: `Spec => []UpToDateWhenSettled`. The property speaks only of the
  moments when nothing is left to tell. In between, the invariant `Consistent` says for every
  key who will still tell of it: `Doubts` are the keys that are unseen, or noted down in the
  store, in the callback, or in an iterator that nobody is about to empty, and what is said of
  any other key is true - of a list about to be published (`ListsFit`), of a field about
  to be told (`NewsFits`), and of the table unless somebody is refreshing (`TableFits`). A
  client's list may be wrong in what is unseen only, since what is noted down may be
  told before it is published. `Found` and `Mapped` say the same of the services listed and of the
  map, from which the callback decides where addresses are looked for. `Excluding` (the two
  callbacks never run together) and `Armed` (nothing is discarded that has been noted
  down) are what `_notificationLock` and the order of `onFirstObserverRegistered` and
  `terminateObserverThread` are for. `FitsPresent` turns a table that fits into one the
  system would have without some changes; most steps are `Quiet`.

**`CBindings_proofs`** - for any adapters, configurations and addresses, any changes and
failing calls, any number of structures at a time and of strings without memory:

- `PassesNeverMixed`: `Spec => []NeverMixed`, and `ListsWhatIsSteady`:
  `Spec => []SteadyAdaptersListed`. Both are about the moment of publication; the
  invariant says what the list is on the way there. `Passing`: at every call, which passes
  have filled the list and whether COM is still there. `Returned`: an adapter that has
  stayed as it was is in the list if and only if WMI returns adapters like it and has
  returned this one. On Unix the list is a fold over the entries of `getifaddrs`; that it is
  what it should be is shown by `IfaddrsRecorded`.
- `TypeCorrect`: `Spec => []TypeOK`, of the enumeration and of the bindings.
- `CopiesStayWhole`: `Spec => []CopiesAreWhole`, and `FreedWhole`:
  `Spec => FreedAsAWhole`. The invariant `Whole` says of each structure that its blocks
  are allocated and hold what was copied, that its arrays end with NULL, and that
  whatever block bears its name is found from it; hence a walk reads what was copied,
  and what is freed is all there is, up to a string that could not be made.
- `MacAddressesAreReadBack`: `Spec => []MacAddressesReadBack`. `Spells` and `Separates` say
  what a string of two digits for each byte is, with and without colons; the loops that
  make, erase and cut it are followed byte by byte.

**`IPAddress_proofs`** - for bytes of any size of at least two, 256 among them, any origins
and walks of any length:

- `TypeCorrect`: `Spec => []TypeOK` (here `TypeOK` is defined with the proof: the two words
  stay words and the groups groups, by whatever is added).
- `WalkIsExactByOne`: `Spec => []WalkIsExact` under the hypothesis `ByOne`, that nothing
  but 0 and 1 is added and subtracted - what `operator++` and `operator--` do; by more it is
  false (finding 3). `WalkOfIPV4IsExact` does without the hypothesis for an IPV4. The
  invariant `Exact` is both of them: the types and the distance from the origin are
  inductive as they stand, and `StepsOfWords` is the step, by the cases of the carry.
- `WalkUpIsUp`: `Spec => WalkIsOrdered`, and `EmbeddingsCommute`: `Spec => EmbeddingCommutes`,
  properties of steps from any address that has its type. `OrderOfWords`: groups compare
  from the first on as the two words do. `StepUnderPrefix`: a carry out of the embedded
  part changes the prefix.

Everything rests on the uniqueness of quotient and remainder (`Unique`), which is itself
a consequence of the order of numbers by their quotients (`Dominates`): packing and
unpacking are inverse (`DigitsOfNumber`, `NumberOfDigits`).

**`IPAddressText_proofs`** - for bytes of any bits, any groups and strings of any length:

- `ReadBack`: `Spec => []RoundTrip`, `Shortest`: `Spec => []Canonical`, and `Meant`:
  `Spec => []MeansWhatItSpells`. The invariant `IInv` is `TypeOK` (defined with the proof, as
  for `IPAddress`) and that `ipString` is what `buildIPString` makes of `ip`; `TypeCorrect` says of
  the constructor that what it accepts is an address. The work is in the operators.
- Both directions meet in `ReadAs`: a string is read as an address if every token is packed
  into the place of that address's group and the groups without a token are zero.
  `PlacesAround` says where the code's `packPosition` puts the tokens before and after
  the one that is empty. `ReadBackElided` applies it to what is displayed (`ElidedIs`,
  `TrimsElided`),
  `MeansAround` to what is spelled.
- `ElidedSpells` counts what is displayed: eight groups without the ones elided. With
  `LongestIs`, the first of the longest sequences exists and is the one chosen, this is `Shortest`.
- `MeansAround` shows where the hypothesis of `MeansWhatItSpells` is used: the number of zeros,
  `EmptyTokens`, is not negative. With nine groups it is, and places overlap.
- `StringsDistinguish`: no two addresses have the same string. A consequence of what `ReadBack`
  rests on, which the runs do not check.
- `PackPositionAsserted`: the assertion of ipAddress.cpp:326 never fails: in every string that
  passes the checks an IPV4 is packed from group 6 on.

*Loops* (`CBindings_proofs`). `FoldFunction` and `FlattenSeq` stand for loops over all
elements, and an
induction scheme over an operator is out of reach of the installed provers. The proofs do
without: `LoopExists` and `FlattenLoop` give a *function* with the values after each
element, and a statement about all of them is proved by looking at the first
element after which it fails (`First`, from the well-foundedness of the natural numbers).

**Not proved, model-checked only.**

- Liveness and everything else that needs `ENABLED`: `OperationsReturn`,
  `ObserversCatchUp`, `CallsReturn`, `LookupsReturn`, `ChangesAreTold`. It is out of the
  prover's reach. All other properties of the runs that pass are theorems.

**Assumptions.** Besides types and bounds, the modules assume that there is an observer
to register (`ObserversAssumption` of `PollingDelegate` and `MacDelegate`), that one client
registers on macOS (`RegistrarsAssumption`), that a machine has finitely many adapters
(`AdaptersAssumption` of `Enumeration`), that lists of addresses and gateways are sequences
(`AddressesAssumption`, `GatewaysAssumption`), and that a null pointer is not a block
(`NullAssumption` of `CBindings`). TLC evaluates all of them on every run.

## What is left out

- The code of ios.mm under `USE_REACHABILITY`: compiled out (ios.mm:73), it would only
  log.
- Of the enumerations, the fields that are copied one by one, the second pass for WiFi
  on iOS, the fake MAC addresses there, and how a netmask comes about (see
  `IPAddressInfo`). Only Windows lists gateways.
- The fields no callback reports, exceptions thrown by observers (caught and
  ignored, so that a throwing callback is like any other), the 1 s period and the
  10 ms sleeps of the polling loops (a poll may come at any time).
- A handler of `enumerateInterfaces` that unregisters the last observer and then looks
  something up: `_networkInterfaces` is replaced under the loop that walks it, and what
  follows is undefined. Likewise an observer destroyed while it is being called
  (`~Observer` unregisters when the derived part is gone).
- What a single call does with memory or null pointers on platforms' interfaces: the
  string of `DeviceID` that leaks (win32.cpp:217), a service without `UserDefinedName`
  (mac.mm:463), the constructor of `IPAddress` without `try` (ios.mm:227).
- How digits are spelled, `std::hash` and `operator|` of `IPAddress`, operators on an
  address without a type (they throw), `isMacAddressValid`, and strings without any digit
  given to `stringToMacAddress` (they throw).
- C programs with several threads: the bindings keep no state, and their threads meet
  in the library, where `PollingDelegate` and its siblings have them.
- SWIG bindings (input of a generator), `windowsHelper` (two conversions, each one call of
  the system), library information, build files, examples.

## The plan

Modules in the order of writing, all done:

1. `NetworkInterfaceHelper` with `TablePublication`: the core.
2. `PollingDelegate`: client threads, the core's locking and the Unix delegate.
3. `Win32Delegate`: the same with the Windows delegate.
4. `IPAddressInfo`: netmasks.
5. `IPAddress`: arithmetic, order, embeddings.
6. `IPAddressText`: strings.
7. `MacDelegate`: run loop, dynamic store and IOKit.
8. `Enumeration` and `CBindings`: lists read in several calls, copies for C programs.

All theorems planned are proved: every property of a run that passes, but for liveness. What
could be added: the spelling of one token (how its digits are read and written), the order
in which two enumerations publish, and the exceptions of observers as steps of their own.

## How to run

    tlc -config Core.cfg MCNetworkInterfaceHelper.tla
    tlapm NetworkInterfaceHelper_proofs.tla

Each run's module and configuration are listed in `PROJECT.json`. With two workers
`Core`, `Polling_reentrant`, `Win32_lookups`, `Mac` and `Bindings` take one to three
minutes, all others less than a minute.
