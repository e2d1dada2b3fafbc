# niLang: a TLA+ verification project

TLA+ models of the concurrent core of niLang and of the parts around it whose
state is shared between threads, callbacks or message handlers, the TLC
configurations that check them on small instances, and TLAPS proofs about them.
Paths below are relative to the repository; `Concurrent.cpp`, `Threads.cpp`,
`MemoryAllocator.cpp`, `HStringTable.cpp` and `DeviceResourceManager.cpp` are in
`sources/niLang/src`, `IConcurrent.h` in its `API/niLang`, `UnixThread.h` in
`API/niLang/Platforms/Unix`, `TimerManager.h` in `API/niLang/Utils`, `CURL.cpp` in
`sources/niCURL/src`, `Widget.cpp` and `UIContext*.cpp` in `sources/niUI/src`.

Contents: 1 the system, 2 the models, 3 the plan, 4 what is checked, 5 bounds and
fairness, 6 what the configurations leave out, 7 what is proved, 8 what is not
modelled.

## 1. The system

niLang is a C++ framework: a core library (`sources/niLang`), a scripting
language (`sources/niScript`), a UI and graphics library (`sources/niUI`), sound
(`sources/niSound`), HTTP through libcurl (`sources/niCURL`), tools and bindings.
Most of it is sequential.  The part that schedules everything else is small and
concurrent: an executor interface with three implementations, futures, threads,
events, message queues, and reference counted objects with weak pointers.  Around
it are components that are shared in other ways: tables of uncounted pointers,
HTTP transfers that report from a worker to the thread that asked, and containers
and widgets that a callback may change while they are being walked.

### Inventory

| Component | State it keeps | Operations | What makes it correct |
|---|---|---|---|
| Thread pool executor (`ExecutorThreadPool`, `RunnableQueue`) | per thread a queue, its manual-reset event, a busy flag; shutdown mode, count of ended threads, the event the last one sets | `Execute`, `Submit`, `Shutdown`, `ShutdownNow`, destructor; each worker drains its queue, steals, sleeps | an accepted runnable runs once, none is lost without `ShutdownNow`, true answers mean terminated, the pool outlives its threads |
| Cooperative executor (`ExecutorCooperative`) | queue, shutdown mode, interruption flag, and the owner's call stack | `Submit`, `Update` (nested), `InterruptUpdate`, `Wait` and `Cancel` of its futures, both shutdowns | order of starts, one start each, `Wait` returns, interruption |
| Message queues (`MessageQueue`, table `_mqs` of `sConcurrent`) | table from threads to queues and its mutex; per queue contents, capacity, mutex, event, count | `CreateMessageQueue`, `GetMessageQueue`, `SendMessage`, `QueueMessage`, `WaitForMessage`, `PollAndDispatch`, `Invalidate`, release | one open queue for each thread, order, no lost wakeup, senders return |
| `ThreadRun` futures (`sThreadRun`, `ThreadImpl`) | two auto-reset events, the thread handle, counts of future and thread object | first `AddRef`, `Wait`, `GetIsDone`, `Release`; the native thread | true means done, one join, nothing freed is touched |
| Future values, pool futures (`sFutureValue`, `sFutureRunnable`) | value, set event, cancelled flag | `SetValue`, `Reset`, `GetValue`, `Wait`, `Cancel`, `Run` | a value that was set is seen, `Cancel` against `Run` |
| Weak pointers (`MemoryAllocator.cpp`) | count, weak pointer object | `get_weak_ptr`, `Deref`, `Release` | no access after the last release |
| Lazy singletons (`GetConcurrent`, `GetExecutorCPU`/`IO`/`Main`) | a pointer | get or create | one instance |
| Interned strings (`HStringTable.cpp`) | table of uncounted pointers | `CreateHString`, destructor | one live object for each text |
| Sink lists (`SinkList.h`) | immutable list behind a mutex | add, remove, iterate | a loop sees one version of the list |
| Timers (`TimerManager.h`) | map from handler and id to timer | set, get, invalidate, clear, update with callbacks | callbacks may change the map |
| Device resources (`DeviceResourceManager.cpp`) | named map, unnamed list | register, unregister, clear | no resource listed after it died |
| Script VM pool (`ScriptVM_Concurrent.cpp`) | map from threads to VMs | attach, detach, startup, shutdown | a thread has its own VM while it runs |
| Script collector (`sqstate.cpp`) | chain of objects, marks in the counts | mark, sweep | live objects survive |
| HTTP transfers (`CURL.cpp`) | runnable's state, code and future; the requester's queue; ready state, status and files of the request | the callbacks of libcurl, the messages they send, their handler, the end of a transfer | one outcome, nothing after it, nobody sees the future before the outcome |
| Widgets (`Widget.cpp`, `UIContext.cpp`, `UIContext_Focus.cpp`) | tree, focus, active and top widget, stacks of exclusive and capturing widgets, flags | focus, show, hide, capture, exclusivity, destruction, each with messages whose handlers may call any of them | no destroyed widget is kept, flags and stacks agree, no lost context is used |
| Interpreter, files, parsers, strings, sound, sockets, bindings | | | sequential or I/O: section 8 |

### How they interact

- An executor is shared by its callers, its own threads and whoever shuts it
  down; they meet in queues under a mutex each, in atomics that nothing groups,
  and in events.
- A future is signalled by the runnable that an executor runs, and its `Wait`
  blocks (pool, `ThreadRun`) or updates the executor (cooperative).
- A message goes from any thread through the table of `sConcurrent` into the
  queue of the handler's thread, which polls it; `niAppLib.cpp` creates the queue
  of the main thread, and updates the cooperative executor once a frame (:185).
- A fetch runs on the IO executor and tells the requester through its message
  queue; the future and the messages are two ways to learn of its end.
- Texts, weak pointers and device resources reach objects by pointers that are not
  counted; the destructors take them out again.
- A widget's operation sends messages in the middle; the UI context updates its
  timers once a frame, whose handlers set and invalidate timers.
- Script runnables and thread callbacks attach a VM to each thread of a pool.

### What is hard

Interleavings of workers, thieves, callers and stoppers over queues, atomics and
events; events that are reset by somebody else than who waits on them; timeouts
that race with the signal; a shutdown that races with a call; locks that nest
both ways; a count that reaches 0 while somebody looks the object up; runnables
that call back into the executor that runs them, and handlers that call back into
the operation that called them.  `PROJECT.json` lists each of
these hazards at its line, with the properties that cover it.

## 2. The models

`Executor`, `Mailboxes` and `FetchRequest` are abstract: they say what a component
promises and nothing of how.  The others are translations of the code, and four of
them implement an abstract module by a refinement mapping (`... == INSTANCE ...`).

| Module | Models | Implements |
|---|---|---|
| `Executor` | `iExecutor`: the life of a runnable | |
| `ThreadPool` | `ExecutorThreadPool`, `RunnableQueue`, the events of its threads | `Executor` |
| `CooperativeExecutor` | `ExecutorCooperative` and its futures | `Executor` |
| `Mailboxes` | one bounded box for each thread | |
| `MessageQueues` | `MessageQueue` and the table of `sConcurrent` | `Mailboxes` |
| `ThreadRun` | `sThreadRun`, `ThreadImpl` on POSIX, the auto-reset event | |
| `FutureValue` | `sFutureValue` | |
| `FutureRunnable` | `sFutureRunnable`, with what the pool does to it | |
| `HStringTable` | `CreateHString`, the counts and the destructor of `cHString` | |
| `WeakPointers` | `sWeakPtrImpl`, `ni_object_get_weak_ptr`, `ni_object_free` | |
| `DeviceResources` | the manager, and the resources that register | |
| `Timers` | `TimerManager` and its handlers | |
| `FetchRequest` | what a fetch promises its sink | |
| `Fetch` | `CURLRunnable`, `cCURL::_Fetch` and the message handler | `FetchRequest` |
| `Widgets` | focus, capture, exclusivity and destruction of widgets | |
| `Components` | the components that share no state, side by side, with the program's contracts | |
| `MCComponents` | the same for TLC: one of them moves in each behaviour | |
| `MC...` | the values of the constants for TLC | |
| `...Proofs` | the proofs about the module they are named after (section 7); `ObjectsProofs` about the strings, weak pointers and resources of `Components` | |

**A step** is what a thread does between two points where another thread can
change what it sees.  A method that holds one mutex from its first to its last
line is one step.  Every read and every write of an atomic is a step of its own:
`Execute` reads the mode (`ExecuteBegin`, `ExecuteRefused`), scans the queues one
at a time (`ExecuteLook`) and adds (`ExecuteAdd`).

**`ThreadPool`.**  `wpc[w]` is the place of worker `w` in `_Run`, `hand[w]` its
local `r`, `victim[w]` its scan in `_GetLeastAvailableQueue`.  A worker goes
`wait` (`blocked`), `reset`, `check`, then `poll`, `polled`, `run`, `running` and
back to `poll`, or `recheck`, `look` and a steal, and in the end `idle`, `again`,
`count`, `leaving`, `ended`.  Two details carry the findings: `StealPoll` resets
the event of the victim's queue before it looks (:260), and `AgainOrEnd` tests
the mode without another look at the queue (:934).  `SignalWorker` follows
`SetEvent`: the flag is set and a thread that already waits is released, whatever
is done to the flag afterwards.  A stopper runs `Shutdown`, `ShutdownNow` or the
destructor: mode, loop over the threads, wait.  `Posix` says whether `GetIsAlive`
ever sees that a thread ended.  `starts`, `finished`, `sawNow`, `early` and `late`,
the runnables a worker took since `ShutdownNow` set its mode, are history.

**`CooperativeExecutor`.**  One thread runs everything, so its state is a stack of
calls: a runnable on top may call `Update`, `Wait`, a shutdown or
`InterruptUpdate`.  `Submit`, `Cancel` and another thread's `ShutdownNow` may
happen between any two steps.  Time is a choice: a slice may be used up or not.
`GetIsTerminated` is the code's, the mode (:568), as `GetIsShutdown` is; so of
`Executor` this is the kind whose "terminated" waits for nothing (`AwaitsRunning`),
and what a finished shutdown does promise is a property of its own,
`StoppedStaysIdle`.

**`MessageQueues`.**  `tableLock` and `lock[q]` are the two mutexes.  `FindQueue`
takes the first and keeps it while `Add` waits for the second; `Close` takes the
second and keeps it while `Unregister` waits for the first.  A release that
reaches 0 makes the thread run the destructor, which calls `Invalidate`; the
table holds an uncounted pointer until then.  The references of one thread to one
queue count as one.  A queue is full when a release build says so (:356): the
assertion on the line before (:355, and :196 of `RunnableQueue`) fails one message
earlier, at one that would be accepted, and is no part of the model.

**`ThreadRun`.**  The waiters hold a future whose first `AddRef` starts the native
thread.  `completed` is the auto-reset event that thread signals twice, for
`Start` and for `Join`; every return from a wait clears it (`ClearEvent`), also
one that timed out.  `implRefs` are the references to the `ThreadImpl`, which the
thread takes through a weak pointer in two steps (`Deref`, `AddRefImpl`).

**`FutureValue`, `FutureRunnable`.**  The manual-reset event and the value are two
pieces of state.  In the first, any thread sets and resets both under a mutex, and
`GetValue` looks at the event before it takes the mutex (:79).  `had[t]` collects
the values of the future during `t`'s call, so that an answer can be held against
them.  In the second, the runnable is on its way through a pool (`worker`), may be
cancelled before or thrown away by `ShutdownNow`.

**`HStringTable`, `WeakPointers`.**  A count is the set of the threads that hold a
reference.  The release that empties it and what the destructor then does are
steps of their own, and that is where a lookup or a `Deref` comes in between.
`CreateHString` keeps its mutex and is one step; `ni_object_get_weak_ptr` has none
and is four: the test of the header (`Ask`), `Make`, `Own`, `Take`.

**`DeviceResources`.**  `Clear` keeps the recursive mutex and goes through a copy of
the listed pointers, one at a time; what it invalidates unregisters from inside.
A destructor tests whether it has to unregister (`Destroy`, without the mutex), and
waits for the mutex afterwards (`InvalidateEnds`): `Clear` may have been faster.

**`Timers`.**  The map is ordered, so timers are numbers and `at` is the iterator.
The handler of `at` may set, invalidate and clear before `HandlerReturns` takes a
period off.  `triggers` counts up to the limit of triggers in one update
(`TimerManager.h:101-108`), a constant here and 100 in the code, where `TooOften`
leaves the loop.  `elapsed`, `fired` and `cut`, that the limit was met, are history.

**`Fetch`.**  libcurl is external: it makes any callbacks in any order, none at all if
it fails early, post data and header lines at any time (a redirection, a trailer),
but no data before the first header line.  A callback decides which messages to send
from `state` and `code` (`StateMessages`, `CodeMessages`) and leaves them in `out`; each
`Send` is a step, and so is each `Dispatch` by the requester.  The two threads share the header file,
with one position for both.  `lost` are the kinds of messages that were refused,
`trailed` that a header line came after data.  `FetchRequest` does not promise that
`Loading` comes after `HeadersReceived`: every progress message says `Loading`
(`CURL.cpp:1180`), before the first header too, although `IFetch.h:17-26` numbers the
states in that order.

**`Widgets`.**  One thread, but reentrant: `todo` is the stack of the statements still
to be done.  The first is replaced by those it consists of.  At a `Send` to a valid
widget its handler may call operations, one after the other and each interrupted by
further handlers; `Handling` stands for the rest of a handler that has called one.
With `Careful` a call leaves alone what an interrupted operation is at: it neither
hides nor switches a widget whose capture or exclusivity is being switched, and
destroys no widget that is, or is above one that is, being switched or destroyed or
about to get the focus or become active (`Switching`, `Giving`, `Destroying`).  All
else is allowed, also on the widgets of interrupted operations: a widget may be
focused, hidden or made a captor while it is told of its own destruction, or change
its visibility again in the message of it.  A broadcast (`SendDestroy`) goes down the
tree as it was when it began.

**`Components`** extends `ThreadRun` and instantiates the seven modules above that
share no state, each over variables of its own, with the contracts under which the
program uses them, and states their properties.  Their product would say nothing
more than each alone, so in `MCComponents` the initial state picks the `part` that
moves and the others keep still: each is explored to the end and their invariants
are checked in one run.  The theorems are about the instances of `Components`,
which do without `part`.

## 3. The plan

Done, in this order: the executors with their abstract specification, the message
queues and theirs, `ThreadRun`; then futures, interned strings, weak pointers,
timers, device resources, the fetch with its abstract specification, widgets; the
safety proofs of all of them, and the four refinements.

Left, proofs: those of the compositions below, once they are modelled.

Left, models: `ThreadPool` composed with `FutureRunnable` by `RunBegins` and
`RunReturns`, so that waits inside of the pool are covered; the multi interface of
the transfers (`_RunMulti`); the lazily created executors; the VM pool of the
script library and the collector's marks.

## 4. What is checked

| Run | Question | Result |
|---|---|---|
| `ThreadPool_safety` | two stealing workers, two runnables, a stopper that makes two calls of any kind: is anything run twice or lost, is a true answer true, is it an `Executor`, how many runnables start after `ShutdownNow`, is the proofs' invariant one | holds, 1.7 million states up to symmetry |
| `ThreadPool_one_worker` | one worker, two concurrent `Shutdown`s, spurious wakeups: does every accepted runnable run, does every `Shutdown` return | holds, 98 thousand states |
| `ThreadPool_stranded` | with two workers: does every accepted runnable run | violated |
| `ThreadPool_early` | does `Shutdown` execute what was submitted before it | violated |
| `Cooperative_safety` | nested updates and waits, shutdowns, a cancelled future, another thread's `ShutdownNow`: is it an `Executor`, in which order do runnables start, do waits return, is it idle for good after a shutdown | holds, 67 thousand states |
| `Cooperative_drains` | does `Shutdown` execute what was submitted before it | violated |
| `MessageQueues_safety` | two threads, two queues, four messages, a thread that closes its queue and creates it again: are these `Mailboxes`, is a wakeup lost, is a message left | holds, 437 thousand states |
| `MessageQueues_deadlock` | do senders return while a queue is closed | violated |
| `ThreadRun_lost_join` | does `GetIsDone` see that the thread ended | violated |
| `Components_safety` | each small component by itself: do futures tell the truth, are strings unique, weak pointers told, resources listed, timers on time, transfers reported once, and do waits return | holds, 544 thousand states |
| `Strings_revived` | does the destructor of a string find its text | violated |
| `Widgets_safety` | four widgets, any operation of the program; without the sibling, two more operations from any of the handlers it calls: are the dead forgotten, do flags and stacks agree between operations, and whenever a handler may ask, is a lost context used | holds, 1.6 million states |

The properties, where the name does not say it, are explained in the comments that
precede them.  Some say more, or less, than they seem to.  `DoneMeansTold` holds
whoever looks at the future first, because `SetValue` comes after the last message,
and covers the header file, which both threads use; each of its three parts names
the messages that must not have been refused and the transfers it is about: with a
callback before the end, without headers after data.  `OnTime` has the exceptions
that the code has: a timer set by a handler (up to a frame early), one that sets
itself (a period late, :109), and what the limit of triggers left for the next
update.  `NowHaltsWaiting` is what there is of `ShutdownNow`'s "halts the processing
of waiting tasks" (`IConcurrent.h:228-229`): a worker that is past its test of the
mode (:918) may still steal one (:923) and run it, but no second.  `GettersAgree`
is the assertion of `GetCapture` and `GetExclusive` at every moment at which a
handler can call them.

Every property of a passing run has a mutant: a plausible slip in the mapped
code (a peek for a poll, a reset too many, a missing test of the mode, the
youngest for the oldest) under which TLC finds it violated.  They are the
definitions that a comment `Mutant:` precedes.

What the violated runs show:

- **`ThreadPool_stranded`** (`Concurrent.cpp:260`).  A runnable is added to worker
  0's queue and its event is set, but worker 0 is still on its way to the wait.
  Worker 1, which found its own queue empty, picks queue 0 as its victim, resets
  the event and takes one of two runnables.  Worker 0 then waits on an event that
  is not set, over a queue that is not empty.  Nothing wakes it until somebody
  submits again, or for ever.
- **`ThreadPool_early`** (`:934`).  A worker has found every queue empty and is
  about to test the mode.  A runnable is accepted into its queue, then `Shutdown`
  is called: the worker ends, the pool terminates and the runnable never ran,
  although it was submitted before the shutdown.
- **`Cooperative_drains`** (`:550`).  `Shutdown` sets the mode first; the `Update`
  it then makes ends after one runnable because of it, and the queue is cleared.
- **`MessageQueues_deadlock`** (`:1241`).  A sender holds the table's mutex and
  wants the queue's, the thread that invalidates the queue holds the queue's and
  wants the table's.
- **`ThreadRun_lost_join`** (`Threads.cpp:77`).  The thread ends before `Start`
  tests its event.  One flag cannot count two signals: `Start` consumes it and
  `GetIsDone`, which is `Join(0)`, says false from then on.
- **`Strings_revived`** (`HStringTable.cpp:230`).  The last holder of a string releases
  it and its destructor waits for the table's mutex.  A lookup that has the mutex
  finds the string and makes a reference, from a count of 0.  The caller's release
  then runs the destructor a second time, and the second `_UnregisterHString` does
  not find the text, which its assertion says cannot be.

## 5. Bounds and fairness

Two workers are enough to steal from each other, and are what makes the first
finding; three runnables are what it takes to have two in the victim's queue
while a third draws the thief.  Two calls of one stopper give every pair of
`Shutdown`, `ShutdownNow` and the destructor in a row.  In the cooperative model
a depth of three is an update in a wait in an update.  In the queues' model three
messages for a queue of two meet the capacity, and two queues let a thread create
one after it closed one.  There are no other counters: `MaxCalls`, `MaxWaits`,
`MaxDepth`, `Messages`, `Queues` and `Runnables` are the bounds, each a constant
with a comment.

In `Components_safety` three threads are one that looks up, one that releases and one
that has the object meanwhile; three objects for two texts let a text have a dying
and a live string.  A transfer of four callbacks has a header, a second code, data
and a progress, and sends more messages than a queue of three holds.  Timers of 1
and 3 under frames of 2 and 3 expire several times in a frame, once in several, and
exactly at its end; a limit of `MaxTriggers = 3`, two triggers in an update, stands
for 100 and is met by a timer of 1 in a frame of 3; three updates are two after a
handler's change.  Two values and two sets make a `Reset` between two sets.  In
`MCWidgets` a parent and child are destroyed together while a sibling competes; when
the sibling is gone, `MaxCalls = 2` lets two handlers interrupt an operation at any
of its messages, one after the other, nested, or one handler twice.

`CHECK_DEADLOCK` is off everywhere: a pool that has ended, a
thread that was joined and messages that were all sent are ends, not deadlocks.
The properties about returning are checked as liveness instead.

Fairness is weak, per thread: a thread that can take its next step takes it.  It
covers the steps inside a call and the loop of a worker, never the decision to
call, a timeout nobody asked for, or a spurious wakeup.  Mutexes are taken when
free; no run relies on their order.  `CooperativeExecutor` assumes that the
application goes on updating (strong fairness of an update with an empty stack),
which `niAppLib.cpp:185` does in each frame, and that a `Run` returns although
its runnable may make calls for some time.  `MessageQueues` assumes that a thread
outside of a call polls while its queue is not empty.  `MCFairness` is that of the
parts with liveness: the native thread and its waiters, a pool's worker and the
holders it wakes, the runnable of a transfer (libcurl is given time limits and
returns) and the requester that dispatches its queue.

## 6. What the configurations leave out

Some constants can be set so that a property fails; the runs keep to the values
for which it holds, and these are the reasons, found by TLC with the model as it
is.  Some promises of the documentation are stated beside the properties that hold
instead (`NowHaltsAllWaiting`, `TerminatedMeansCompleted`, `ErrorIsTold`, `HeadersWhole`,
`LoadingHasHeaders`); TLC refutes each on the module, with an instance as small as
those of the runs.

- What `ShutdownNow` says of waiting runnables: `NowHaltsAllWaiting` of `ThreadPool`,
  that no worker takes one any more, fails with two workers and two runnables (:923).
- `ShutdownNow` with a timeout (`Calls` of `MCThreadPool`).  After one that timed
  out, the next one and the destructor's find mode 2 and return true at once
  (:841), while workers still run: `YesMeansTerminated` and `FreedAfterEnd` fail.
- Two stoppers, one in `Shutdown` and one in `ShutdownNow`: test and set of the
  mode are two steps (:822), so 2 can become 1 again and waiting runnables are
  started after all: `NowHaltsWaiting` fails.
- `Posix = FALSE`: a second stopper counts a thread that already counted itself
  (:828); with two workers `TerminatedMeansEnded` fails.
- `SpuriousWakeups = TRUE` with `YesMeansTerminated`: `_event.Wait` returns true
  (`UnixThread.h:136`).
- Two workers with `ShutdownReturns`: the thief's reset (:260) can also eat the
  signal by which `Shutdown` ends a worker; one runnable and one stopper do.
- `GetIsTerminated` of a cooperative executor is true as soon as a shutdown was
  asked for (:568), while the runnable that asked, and those under it, still run,
  although "all tasks have completed" (`IConcurrent.h:193`): `TerminatedMeansCompleted`
  fails as soon as `OwnerStops` has a call.
- A runnable of a cooperative executor that interrupts and then updates: its
  `Update` clears the interruption (:582); `InterruptHolds` says so in its
  statement.  Futures that wait for each other in a circle, or for a runnable
  that was dropped, make `Wait` spin; `Waits` has no circle and `WaitReturns` is
  about executors nobody shut down.
- The assertions at :355 and :196: a debug build stops at a queue that has one
  place left, and a release build is told to assume that there are two
  (`niAssume`, `Types.h:1069`), after which it need not refuse at all.  The models are
  of the code without them.
- `Gets` with a queue whose owner releases it: `GetMessageQueue` (:1199) counts up
  from 0, a second destructor runs and `FreedIsUnused` fails.  In the run, `t1` gets
  the queue of `t2`, and only `t1` closes and releases.
- `Patient = FALSE` in `ThreadRun`: a holder that releases a future that is not
  done frees the `ThreadImpl` between `Deref` and `AddRefImpl`, and
  `NothingFreedIsTouched` fails.
- `Serial = FALSE` in `ThreadRun`: two holders in `Join` at once join twice
  (`Threads.cpp:111`), and `JoinedOnce` fails.  Of waiters in turn `JoinsOK` of the proofs
  says it.
- `Careful = FALSE` in `HStringTable`: a text is looked up while its string dies, which
  is what `Strings_revived` shows.
- `Serial = FALSE` in `WeakPointers`: of two threads that ask for an object's first weak
  pointer at once (`MemoryAllocator.cpp:411`), one may free it before the header's
  reference is counted, or two are made and one is never told: `WeakIsTold` fails.
- A transfer that ends before libcurl's first callback: the first state that is
  reported is `Started` whatever it is (`CURL.cpp:422`), so the requester hears of a
  start and never of a failure.  `ErrorIsTold`, what `IFetch.h:66` says of
  `GetHasFailed`, fails; `DoneMeansTold` and `FetchEnds` say which transfers they
  are about.
- A header line after data: the requester rewinds the header file when the first
  data comes (:1174), and the line is written over the first.  `HeadersWhole`
  (`IFetch.h:58`) fails; `DoneMeansTold` leaves these out.
- Progress before the first header: `LoadingHasHeaders`, the order of the ready
  states, fails (:1180).
- The limit of triggers in a timer's update: the line before it asserts that it is
  not reached (`TimerManager.h:104`), which a frame time of 10 (:92) and a duration of
  a tenth do.  `Timers` is the code without the assertion, as for the queues.
- A handler of `Timers` that clears all timers and then sets one: the walk ends on an
  empty map, but goes on from an erased iterator if the map was filled again.
  `MayChange` leaves it out, and nothing else that a handler may do.
- `Careful = FALSE` in `Widgets`.  The code tests little again after a message.  With
  one call by a handler `GettersAgree` fails: `SetExclusive` puts the widget on the
  stack, which focuses and activates it, and sets the flag last (`Widget.cpp:950-955`,
  and :904-909 for capture), so a handler of the Activate message that switches it
  back meets the assertion of the getter (:959), and the widget becomes exclusive
  although the last call said it should not be (`StacksAgree` fails likewise when
  the call hides it).  A widget destroyed again in its own destruction, or in the
  messages of its hiding, uses a context it has lost (:177, :983), `NoNullContext`; one
  destroyed in the Deactivate
  message of `SetActiveWidget` becomes active all the same
  (`UIContext.cpp:1257-1268`), `DeadAreForgotten`.
- The top widget can be the root while another widget is exclusive, after a widget and
  its exclusive parent were destroyed together (`UIContext_Focus.cpp:283`);
  `StacksAgree` allows for it.
- A timed wait of `FutureValue` that is woken spuriously returns true
  (`UnixThread.h:136`), which is left out there.
- `Cancel` of a pool's future while `Run` copies the counted pointer (:675) is a data
  race; in `FutureRunnable` the copy is one step.
- A future that `ShutdownNow` threw away is never signalled (:905): `WaitEnds` is about
  the others.
- When a transfer is completed the ready state is stored before `_UpdateReadyState`
  compares it (`CURL.cpp:1188`), so the sink's `OnFetchSink_ReadyStateChange` is not
  called for `Done`.  Which other methods of the sink are called is not modelled.

## 7. What is proved

`ThreadPoolProofs` proves, for any finite number of threads, runnables and
stoppers and any set of calls, under `PoolAssumption` only:

- `TypeCorrect`: `Spec => []TypeOK`.
- `AtMostOnce`: `Spec => []RunsAtMostOnce`.
- `NothingLost`: `Spec => []NothingDropped`.
- `TerminatedOnPosix`: if `Posix`, `Spec => []TerminatedMeansEnded`.

None of these is inductive.  The invariant `IInv` is `TypeOK` with
`PoolInvariant`, whose parts are needed for each other:

- `HandsMatch`: only a worker between its poll and the end of `Run` holds a
  runnable.  Without it `hand[w]` could be overwritten.
- `OnePlace`: a runnable is in one slot of one queue, or in one hand, and was
  accepted; what is queued was not started.  This is where stealing comes in: the
  thief's take is a move from one place to another.  The lemmas `TakeHead`,
  `PushOne`, `FewerPlaces` and `Elsewhere` are the four ways in which steps change
  places.
- `StartsMatch`: a started runnable is in a running worker's hand or finished.
- `NowMatches`: mode 2 was asked for whenever a worker drops its hand, and a
  shutdown is never forgotten (the mode does not return to 0).
- `NothingDropped` itself, for the places of accepted runnables.
- `CountMatches`: on POSIX `_doneCount` is the number of workers that ended, so
  the event is set exactly when all did.

The proof of each part goes over the actions of `Next`; `Invariance` combines
them by PTL.  `PoolInvariant` is also an invariant of `ThreadPool_safety`.

`PlacesAgree` states the latter.  `PoolIsExecutor` is the refinement `Spec =>
ImplementsExecutor`, if `Posix`: the status of a runnable in `Executor` follows from the
one place it has, so the step that changes its place is the step of `Executor`, and
every other step is a stutter; `ClosedMatches`, that a queue is closed only after a
shutdown, is what refusals need.  `NowHalts` states `NowHaltsWaiting` for a pool that
one thread shuts down (`OneStopper`): after `ShutdownNow` a worker takes one more
runnable at most.  Its invariants are `ModeStays`, that a thread about to set the mode
1 has read 0, which nobody else has changed since, and `LateMatches`, that a worker
which has taken one is on the way that ends at the next test of the mode.

Two more theorems, `YesIsTerminated` and
`FreedWhenEnded` (`YesMeansTerminated`; `FreedAfterEnd`, that the destructor frees the
pool only after its last worker, which no run repeats), need a contract: POSIX, no
spurious wakeups, one stopper, and timeouts only for `Shutdown`.  Each clause is a
case of section 6.  Their invariant `AnswersOK` says that the mode 2, at the sight
of which `ShutdownNow` says yes, is seen only by a stopper whose first call has
waited for the event.

`CooperativeExecutorProofs` needs no contract and bounds no depth.  `StackOK`: what an
update has in its hand was accepted and is not queued, and only the innermost call
can be an update that was interrupted, and then its runnable is running or has just
returned.  `OrderOK`: the queue is always the end of the list of what was accepted.
With it `OldestFirst` (`StartsInOrder`) and `InterruptIsKept` (`InterruptHolds`) follow
although updates nest.  `CooperativeIsExecutor` is the refinement.  It also needs
`HandsOK`, that no two nested updates hold one runnable and that what was started and
has not ended is in the hand of an update on the stack, and `ShutOK`, that a closed
queue and a call of a shutdown further down the stack mean a mode that is set.  The
refinement promises nothing of what still runs when `GetIsTerminated` is true, since
the code does not; `StoppedIsIdle` (`StoppedStaysIdle`) says instead that once a
`Shutdown` of the owner has returned and no update is busy, none ever is again.

`MessageQueuesProofs` proves `OneQueueEach`, `NoLostMessage` and the refinement
`Spec => Abstract!Spec` for any program.  The hard part is that a message's way holds
the table's mutex and waits for the queue's, and closing does the reverse.
`CallOK` says what each thread's call knows of the queue it is about, `QueueOK` that a
closed queue that the table still has is in the hands of the thread that will
unregister it, `EntriesOK` whose the entries are, `ItemsOK` that the event of an open
queue tells whether it is empty.  `FreedQueuesAreUnused` adds who holds references
(`RefsOK`, `UsesOK`, `FreedOK`), under the contract that whoever gets another thread's
queue gets it of one that does not give it up.

`ThreadRunProofs`: `YesMeansRan` and `NothingFreedIsTouched` for any number of
waiters and waits, with timeouts and spurious wakeups, if waits come one at a time
and the future is dropped when it is done (`Serial`, `Patient`).  The two signals on
one event tell nothing reliable; the argument is that every yes goes through
`pthread_join` (`AliveOK`), which is reached by one at a time (`SerialOK`, `JoinsOK`).

`ObjectsProofs` is about the three components of `Components` in which references or
tables reach an object that dies.

- Strings (`StringsAreUnique`, `DestructorsAreSafe`): strings are unique, destructors find
  their text and each string is freed once, as `Careful` holds.  `DyingMatch`: a string
  in its destructor has no holder, no second destructor, and is in the table until it
  unregisters.  That a lookup breaks this when it is not careful is the finding above,
  and here is why nothing else can.
- Weak pointers (`WeakPointersAreTold`): `WeakIsTold`, as `Serial` holds.  Whoever makes the
  first weak pointer is alone with the header (`MakerAlone`), all weak pointers are the
  header's (`FromHeader`), which owns one reference until the memory is freed
  (`OwnedOnce`).
- Resources (`ListsAreTrue`): `ListIsTrue` without a contract.  Only valid resources are
  listed and all that are valid are, up to names given again; what `Clear` still has to
  visit is listed, because others wait for the mutex (`ClearMatches`), also those that tested
  before `Clear` began that they have to unregister.

`FetchProofs`: `Fetch` implements `FetchRequest`, whatever libcurl calls, the queue refuses,
or the executor throws away.  Messages reach the sink from the queue and then from
`out`; `InOrder` says which may come before which in both, `SaysTrue` that a final one
means the runnable is past the transfer, `Ends` that nothing is on its way before the
first callback or after the outcome.  `DoneIsTold` proves `DoneMeansTold` of every
transfer, under the conditions of the property.  Its invariant
`TInv` is about `Travels`, the messages of the queue and of `out` in a row: a dispatch
and a send leave it what it is or shorten it by its head, and a refusal takes one out
of its middle, which only matters to what that kind of message tells, so "the last code told is
the last code there was" (`CodeTold`), "the outcome was told or is on its way"
(`OutcomeTold`) and "the file is rewound, or will be" (`RewindTold`) are kept by both.
`FetchIsTyped` is type correctness.

`ComponentsProofs` has the rest of `Components`:

- `FuturesAreTrue`: `FuturesTellTrue` of the future value and of a pool's future, for any
  number of threads and values.  `EventOK`: the event says whether there is a value.
  `CallsOK`: what a call under way may still return is a value the future had in the
  meantime, of a waiter that was woken even if it was reset before it went on.
- `TimersAreOnTime`: `OnTime` for any frames, durations and limit of triggers, and for
  handlers that set nothing after they cleared all timers.  `BalanceOK` counts:
  the time a timer has been set, less its periods it was triggered for, is what its
  `start` says, up to a handler's changes; `ExpiredOK`: no other timer than the one the
  walk is at, and those the limit cut off, has a period left to take off; `WalkOK`:
  that one is in the map.
- `RequestsAreKept`, `RequestsAreTold`: the two theorems of `FetchProofs` for the instance
  of `Components`, under no condition but those in the property.
- `ComponentsAreTyped`: `AllTyped`, if the future's holders keep `Contract` of `ThreadRunProofs`.

`WidgetsProofs` proves four invariants of `Widgets` (`WidgetsAreTyped`,
`DeadWidgetsAreForgotten`, `FlagsAgreeWithStacks`, `ContextIsThere`), for any finite tree
and any number of calls by handlers, nested or in a row, under `Careful`.  Three of
them only speak of the moments when `todo` is empty; the invariant has to say at
every step what the statements in `todo` will still do.

- `InOrder`: which statement may wait while another is done (`MayFollow`).  Below a
  statement that destroys `w`, what waits and needs its widget (`Firm`) is a later one
  of the four statements of the same destruction (`BlockOrder`), or about a widget that
  `w` is not above (`After`); while a widget is switched, no other switch of it waits
  (`Alone`).  `Careful` gives it for the calls of handlers, the order of the statements
  in `Destroy`, `SetCapture` and `SetExclusive` for the rest.  Since a widget that is
  taken out of the tree is above less than before (`PathShrinks`), the order is never
  lost.
- `WidgetOK`: how far a destruction is.  An invalid widget is still to be forgotten, one
  with a parent still to be taken from it, and the child of an invalid widget is
  about to be destroyed, before its parent leaves the context.
- `Held`: focus and active widget are valid, or their `InvalidateTarget` waits.
- `Agrees`, once for capture and once for exclusivity: if the flag of a widget and its
  entry in the stack differ, which statement in `todo` will make them equal; and a
  hidden widget with the flag has a `CheckCapture`, or what it calls, to come.

The first lemmas are about the tree: `Path` is the way up, it has no cycles
(`Acyclic`), of two widgets on it one is above the other (`PathChain`), so that the
climbing loops of the code find a nearest one (`NearestIs`).  `QuietStep`, `StackStep` and
`KillStep` say what a step about the focus, about a stack, and of a destruction has to
show; each action is one lemma that shows it.

The contracts above are hypotheses of the theorems: `Posix`, `OneStopper`, `Contract`,
`Distinct`, for the fetch `ZeroCode` and `Bounds`, and `Careful` for the widgets, which
with the instance's constants `Careful` of the strings and `Serial` of the weak pointers
are what the program has to keep to (section 6 says why); nothing else is assumed than the assumptions of the modules on their constants, which TLC evaluates.

Only model-checked: liveness (the prover has no rule for fairness: `AcceptedRuns`,
`ShutdownReturns`, `WaitReturns`, `AcceptedIsHandled`, `AllWaitsReturn`, `FetchEnds`);
`GettersAgree`.

## 8. What is not modelled, and why

- The constructor's handshake with its threads, and the thread start and end
  callbacks: over before, and started after, all the model has.
- The immediate executor: it runs the runnable in the caller and keeps no state.
- Win32 threads and events.  `Posix = FALSE` only changes `GetIsAlive`.
- Payloads: values, results, priorities, error messages, the time a slice takes.
- `RunnableQueue`'s item limit, which is `~0`; starting from a failed
  `pthread_create`.
- `CURLRunnable::_RunMulti`: the same callbacks, polled; and which of the sink's methods
  are called besides the two final ones.
- The locale tables of the interned strings; fingers, drag and drop, layout, drawing,
  the order of the widgets on the screen (the maps of `mFreeWidgets`) and the dispatch
  of input in the UI.
- The lazily created executors and `GetConcurrent`: a test of a pointer and a creation
  without a mutex (:1145), which is all there is to say; the models begin after it.
- Sink lists: sequential, the loop copies the list.  The ID generator: nothing uses it.
- The VM pool and the collector of the script library: their state is the graph of
  the running script.
- The script interpreter, the parsers and serializers, the math, string and time
  functions, the file, archive, socket and process layers, the graphics and sound
  pipelines, generated bindings, and all vendored code: sequential or I/O, or over
  domains that a model checker cannot enumerate.  `PROJECT.json` names them one
  by one.
