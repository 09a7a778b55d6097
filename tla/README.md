# libjoe: models, model checks and proofs

libjoe is a small C library in two halves. `src/linux` holds objects for
Linux programs (System V message queues, semaphores and shared memory, a
condition variable, a mutex, a linked list, timers, options, a serial port);
`src/rtos` holds two pieces for bare systems (a heap over one buffer, and an
intrusive ordered list, both derived from FreeRTOS). This directory models the
parts of it that are hard to test, checks them with TLC, and proves what it can
with TLAPS.

Every "object" of the library is a C struct of data and method pointers that a
`*_new` function fills in; applications call the methods. What calls what:

    test_msgQ.c clients --send/recv, request_event/monitor_event--+
                                                                  v
                           msgQ.c  <---- kernel queues ---->  msgQ.c (server)
                                                                  ^
    test_msgQ.c server --recv/send, monitor_request, send_event---+
    linklist.c -> mutex.c, mem.c        cond.c -> POSIX mutex and condition
    sema.c, shm.c -> key files, kernel objects      sema.c -> timer.c
    memory_manager.c, rtos list.c: no callee but memset

## 1. Inventory

| component | source | state | operations | modelled |
|---|---|---|---|---|
| memory manager | `rtos/src/memory_manager.c` | free list in the buffer, `end_of_list`, `byte_left`, `mini_byte_left` | static_init, allocate, free, memory_left, remaining | yes, and proved about |
| message queue, client | `linux/src/msgQ.c` 29-378 | server queue id, private queue id, server pid, handler, `tout_cnt` | init, send, recv, request_event, monitor_event, destroy | yes, and proved about |
| message queue, server | `linux/src/msgQ.c` 380-end | queue id, pid of the asker, list of clients, `clt_amt` | init, clear, recv, send, monitor_request, send_event, destroy | yes, and proved about |
| message queue test program | `linux/src/test/test_msgQ.c` | loops, `ask_timer`, `event_timer` | the client's and the server's loop | yes, as the control flow around the calls |
| RTOS list | `rtos/src/list.c`, `rtos/include/list.h` | rings of items, walk index, count | both initialisers, insert, insert_end, remove, value and walk macros | yes, and proved about |
| semaphore | `linux/src/sema.c` | key file, System V semaphore | init in four modes, lock, tmlock, unlock, destroy | yes, and proved about |
| shared memory | `linux/src/shm.c` | key file, segment | init, destroy | yes, and proved about |
| timer | `linux/src/timer.c` | a deadline | set_ms, intv_ms, is_timeout, and what calls them | these; not the conversions to text and time of day |
| condition variable | `linux/src/cond.c` | mutex, condition, status | init, changed, broadcast, wait, timewait, destroy | yes, and proved about |
| linked list | `linux/src/linklist.c` | first, tail, node_cnt, nodes, mutex | len, get_*, rm_*, add_*, destroy | yes, but for list_header_init and list_header_delete; proved about |
| mutex | `linux/src/mutex.c` | pthread mutex | lock, unlock, tmlock, destroy | as the list uses it; not tmlock |
| memory accounting | `linux/src/mem.c` | table of 200 entries | omalloc, ofree | as the list uses it: a block or NULL |
| options | `linux/src/opt.c` | list of options | register, run over getopt, usage, free | no: sequential |
| serial port, helpers, socket, object notation | `linux/src/serial.c`, `misc.c`, `sock.c`, headers | device, none | input and output only | no |

What makes each of them correct, and what makes that hard:

* **Memory manager.** Blocks, free and allocated, tile the buffer; two free
  neighbours are always merged; `byte_left` is what the list holds; an
  allocation fails only when nothing could hold it; nobody's payload overlaps
  anybody else's. Sequential, but a mistake shows only after a particular
  sequence of splits and merges, at a particular size, or on a second `free`.
* **Message queue.** Answers reach the client that asked, in order and once;
  the server's list has every client that believes to be registered, no client
  twice, and no more than its limit; events arrive in order; nobody blocks for
  ever; a server that is replaced gets its clients back. All clients and the
  server run concurrently; any may be killed and the server started again;
  answers are late (a timeout), lost (a full queue), or meet a queue that
  somebody has removed; two processes may use one key.
* **RTOS list.** Each list is one ring, counted, in the order of the values; a
  walk returns everybody once before anybody twice, although items are
  removed, inserted and moved to another list behind and under its index.
* **Semaphore, shared memory.** Processes agree on one object of each,
  initialised once; one at a time is in its critical section, whatever was
  killed, restarted or destroyed before; `tmlock` waits for its time and returns.
  The inits are sequences of system calls that nothing makes atomic, so the
  first of these hold outside a few windows only, and the model says which.
* **Timer.** The deadline and the comparison are right for every clock, at
  every carry, within the width of an int.
* **Condition variable.** The mutex is where POSIX and the caller expect it, a
  broadcast reaches all that waited, no call blocks for ever.
* **Linked list, mutex.** The links agree with each other and with the count,
  and methods called by several threads act as if one at a time, each with the
  answer of its method and arguments; no path leaves the lock behind.

`PROJECT.json` lists the hazards of the code by file and line, with the
properties that would catch each, or why none does.

## 2. Modules

| module | what it is |
|---|---|
| `AbstractHeap` | what the memory manager promises its caller: disjoint aligned byte ranges |
| `MemoryManager`, `MCMemoryManager` | memory_manager.c with the application that uses it; the requests of its run |
| `MemoryManagerProofs`, `MemoryManagerPromises` | its inductive invariant and what follows for the heap; what follows for the caller |
| `SysVMsg` | the kernel's queues as msgQ.c uses them, and `msgQ_get_qid` (the kernel part is external) |
| `MsgQCommon` | packages, types, length checks, the variables of both sides |
| `MsgQClient`, `MsgQServer` | `msgQ_clt_*` with the client loop, `msgQ_srv_*` with the server loop |
| `MsgQ`, `MCMsgQ` | their composition: scheduling, kills, restarts, fairness, properties; ids and keys for the runs |
| `MsgQProofs` | types, the client list, registrations, the order of answers and events, what clients leave behind |
| `AbstractRing` | what a list of list.c promises: a sequence and a cursor in it |
| `RtosList`, `RtosListProofs` | list.c and list.h; the proofs |
| `Timer`, `TimerProofs` | the arithmetic of timer.c as operators; lemmas about it for every clock |
| `KeyFile` | the first half of `sema_init` and `shm_init`, which they have in common |
| `Sema`, `Shm` | sema.c over `KeyFile` and `Timer`; shm.c over `KeyFile` |
| `Ipc`, `IpcProofs` | their composition in processes that start, work, destroy, end and are killed; the proofs |
| `Cond`, `CondProofs` | cond.c with its threads; the proofs |
| `AbstractDeque` | what the linked list promises threads: a sequence, on which each call acts at one instant as its method and arguments say |
| `Linklist`, `LinklistProofs` | linklist.c with its mutex and its calling threads; the proofs |

### How state and actions correspond to the code

**MemoryManager.** A block is the address of its header. `size` and `next` are
the header words `xBlockSize` (without its top bit) and `pxNextFreeBlock`, kept
for *every* aligned address, so stale headers keep stale values; `owned` is the
set of blocks whose top bit is set; `endOfList = Null` is a heap not yet
initialised. `free` is the set of blocks on the list: the two list walks of the
C code are choices from that set, and `FreeListExact` checks that following
`next` from `start_block` visits exactly that set in address order (a theorem, too). One action
is one call: `AllocateOk` and `AllocateFail` (each with the lazy `prv_heap_init`
when it is the first), `FreeOk`, `FreeIgnored`, `StaticInit`. `AppFill` is the
application writing all of a payload it owns, over whatever stale header words
lie in it. `live` is the application's view, the pointers it holds and the
bytes it asked for; it is the refinement mapping to `AbstractHeap`. Sizes are
numbers modulo `Word`, so the overflow guard of line 146 matters.

**SysVMsg, MsgQClient, MsgQServer, MsgQ.** A queue is a sequence of messages;
`msgrcv` takes the first of a type, or fails on one that is too long; a caller
that would block in `msgsnd` is an action that is not enabled. Between any two
kernel calls of a function other processes may run, so each kernel call of a
method is an action of its own, and `pc` says which call the process is in;
what a method does to its own struct after a call belongs to that action. A
polling loop (msgrcv with IPC_NOWAIT until a timeout) is an action when a
message is there and a timeout action when none is. A message's data is the
pair (who, n): the n-th question of a client, the answer to it, or the n-th
event. `hist` is history, used by properties only. `msgQ_get_qid` is one step.

**RtosList.** A list is named by its end marker, which is a node like the items.
`next`, `prev`, `container`, `index`, `num` and `value` are the words of the
structs; an item that is on no list keeps its stale links. One action is one
function or macro, as the header asks for a critical section around each:
`SetValue`, `Insert`, `InsertEnd`, `Remove`, `GetNext`. The loop of `vListInsert`
is `Iterator`, the last node that the loop can come to from the end marker over
values not larger than the new one; reachability is said with sets, not by
recursion, so that it can be proved about. `due` is history: for each item, the
items that the walk has to return before it may return that one again.

**KeyFile, Sema, Shm, Timer, Ipc.** A system call is an action, as other
processes run between any two: `access`, `open`, `semget` and `semctl` of
`sema_init`, `access`, `open`, `shmget`, `shmat` and `memset` of `shm_init`;
`pc` names the call the process is about to make. What is the same in both
files, `access` and `open`, is in `KeyFile`. `creat` is the IPC_CREAT that `flag`
carries from one call to the next. The semaphore is its value; a segment is a
number, and it lives until it is removed and nobody has it attached. `tmlock`'s
loop is `TmlockTry` and `TmlockCheck`, the clock is `now` in nanoseconds and the
deadline a `timespec` by `Timer!SetMs`. The processes do what test_sema.c does
with the semaphore, around a read and a write of a counter in the memory. `End`
is both exit and kill, at any point; kernel objects and key files survive it,
and nothing the process did is undone (no SEM_UNDO). `Start` has no guard but that
the process is not running, as main of test_sema.c has none: a process may start
at any time and in any of the four modes. `races` is history: which of
four windows (`Meets`) a step was taken in. They are `sema` and `shm`, two processes
that both find the key file missing (sema.c:132, shm.c:51), so that both create;
`set`, a SETVAL that forces the semaphore free while another process is inside, or
between another's semget and its first SETVAL (sema.c:160-166); and `attach`, a
shmat of a segment whose creator has still to clear it (shm.c:78-88).

**Cond.** A thread's `pc` goes through the pthread calls of a method;
pthread_cond_wait is a step that gives the mutex back and blocks, a wakeup
(by a signal, a broadcast, spurious, or by the deadline) and a step that takes
the mutex again. `changed` and `broadcast` signal after they have unlocked. `due`
is history: the threads that a broadcast under way has to wake.

**Linklist.** `Call`, `Lock`, `Read`, `Write`, `Return` are the phases of a
method; `Read` works out the whole effect of the method on the list as it is at
that moment (operators named after the C functions) and `Write` stores the
words that change. With the mutex held the two act as one; without it another
thread comes between. `crashed` is set by a method that dereferences NULL.

## 3. Runs

Passing runs:

| run | question and what it shows |
|---|---|
| `memory_manager` | All sequences of calls on a heap of a few blocks: the invariants of section 5, the exactness of the list (`FreeListExact`), no refusal of what fits (`NoFalseFailure`), and that the manager implements `AbstractHeap`. |
| `msgq_ask` | Questions and answers, two clients (one may be killed), two servers, missed, lost, refused and late answers, lengths that send accepts and no msgrcv takes, the queue removed by either side's destroy: answers are each client's own and in order; a client lags by no more than the receives it gave up on; what it leaves on the server's queue is bounded the same way; a server that starts gets through init or comes to one of the two states (`Spins`) in which `clear` never ends. |
| `msgq_events` | Registration and broadcast, two processes with one key and so one private queue, a server replaced once, full queues, the server's queue removed by a client's destroy: types hold, the list stays duplicate-free, counted and within its limit; a client holding the running server's pid is on its list, a full queue does not cost it its place; no event reaches a handler twice or out of order. |
| `msgq_recover` | A server replaced twice: the timeout count of monitor_event brings every running client back on the list, which stays sound although registrations time out while the server is about to add them. |
| `rtos_list` | Items inserted in order or at the end of two lists, walked over, removed and moved between them: each list is one ring with its index on it, counted and sorted, walked fairly, and implements `AbstractRing`. |
| `ipc` | Two processes that start and are killed at any time, in every mode: outside the windows in `races` one at a time is in the critical section, no addition is lost and there is one segment for all; always, `tmlock` waits its time and returns although the semaphore may stay taken for ever. |
| `cond` | Three threads in any mix of the four methods: the mutex is held in the middle of a method only, a broadcast reaches all that were blocked and calls return, all until a timewait has returned. |
| `linklist_shared` | Two threads, the lock held around the rm methods, add_middle at index 0: links and count sound, each call atomic on `AbstractDeque`, mutex always given back, types right to the end of the program (destroy of an empty list, or add_first without memory, crashes it). |

Runs that exhibit a disagreement between the code and what the repository says
of it (each a finding in `PROJECT.json`, quoted there):

| run | finding |
|---|---|
| `msgq_stuck` | `monitor_request` answers with a blocking msgsnd, whatever timeout it was given |
| `rtos_list_order` | `vListInsert` sorts ascending where list.h:377 (and 35, 160, 210) says descending |
| `cond_timewait` | `timewait` returns before its unlock in both branches: the mutex stays locked |
| `linklist_add_middle` | `add_middle` leaves the new node's item uninitialised, and at index `node_cnt` adds two nodes |

### Disagreements met that have no run

* msgQ.c:100-106: `clt->send` calls msgsnd without IPC_NOWAIT, so that its branch
  for EAGAIN is unreachable and it blocks on a full queue, for ever if what
  fills the queue is the client's own unread answers (`BacklogBounded` counts them).
* msgQ.c:284: `request_event` takes any first message for the answer: an event
  there is lost and the pid becomes 0. `EventsInOrder` therefore speaks of the
  events that reach a handler.
* msgQ.c:86 and 467-471: `send` accepts 2033 to 2040 bytes, which with the xid no
  msgrcv of the library can take, and `clear` ignores what msgrcv returns. With
  such a message at the head of the queue, or when the queue has been removed
  and `len` is -1, it never ends. `InitTerminates` says that nothing else keeps a
  server in init; `msgq_ask` reaches both.
* Inits of semaphore and memory. Nothing in the code, and no word of it, keeps
  processes from meeting in the four windows above. What happens then: two that
  both create the semaphore both set it, the later one after the earlier one has
  locked; a forced value lets a second process in; a destroy between two that
  both create the memory leaves them with two segments; a process that attaches
  before the creator's memset loses what it has added. Each window is needed:
  with any one of them left out of `MutualExclusion`, `NoLostUpdate` or `OneSegment`
  where it stands, TLC finds the property violated.
* sema.c:152: a process that ends between `open` and `semget` leaves a key file
  without a semaphore, and every later init fails. The same in shm.c.
* timer.c: a timer of a day or more is reported as expired at once
  (`TIMER_MAX_INTERVAL`); `tm_add_ns`, which nothing calls, does not carry a sum of
  exactly one second.
* cond.c:119 and mutex.c:37 take a deadline from CLOCK_MONOTONIC and wait for it
  on CLOCK_REALTIME: the wait is over at once, or in many years.
* cond.c: the object comes from omalloc and goes back by `free()`: its entry in
  mem.c's table stays.
* list.h:396 says of vListInsertEnd that "every other item" is returned before the
  new one. The item that the index is on, which has just been returned, is not: the
  new one goes in just before it. `NoOvertaking` speaks of the others.
* linklist.c:79-100: `add_middle` with an index beyond `node_cnt + 1` gets a node from
  omalloc, finds no place for it and does not give it back. Where add_middle is
  called with 0 only nothing leaks: `ImplementsDeque` has an add_end refused only
  when as many items are on the list as there is memory for.
* linklist.c: `destroy` of an empty list calls `mutex->destroy`, which `mutex_new`
  leaves NULL.
  `list_header_delete` (linklist.c:233) has its loop's condition the wrong way round:
  it never ends on an empty list and loses the nodes of any other.
* msgQ.h:44 says of `monitor_request` that it may need a thread of its own; it and
  `send_event` change the client list, which has no lock.
* msgQ.c:37: `mkdir` after a test for the directory: of two processes one may fail.
* mem.c's table has no lock, although threads share it.

### Bounds, and why they are enough

* *Memory manager.* 92 bytes from address 13 (misaligned), 8-byte headers,
  `AllocBit` 32768, and requests 0, 8, 17, 32768 and 65530. The heap holds up to
  five blocks: enough for a free block with a free, an allocated or no
  neighbour on either side, for splits that are just and just not worth it, for
  exact fits, and for the end marker as neighbour. 32768 sets the top bit,
  65530 would wrap. The theorems remove the bound for what they cover.
* *Message queues.* Two clients are enough to interfere, on one queue of 2 or 4
  messages (`Cap`, counted in messages rather than bytes) that really fills.
  `MaxStarts` 1 to 3 server processes; `MaxClient` 2 or 4 for the code's 10;
  `ToutLimit` 0 or 1 for the code's 10; lengths are one that fits, 2036, which
  `send` accepts and no msgrcv of the library takes, and an answer without data;
  `MaxAsk` and `MaxEvents` bound questions and events; `MaxSlow` bounds the
  registrations that time out although an answer is due. `MaxQid` bounds ids known
  at one time. Queue ids are not reused by the kernel; an id nobody remembers is
  renamed to the least unused one, which keeps the state space finite and is sound
  because ids are only compared with each other. In `msgq_events` no
  client is killed: to an invariant a killed client is one that takes no further
  step, and every prefix of a behaviour is checked. `msgq_recover` has one
  client, of which nothing would be asked if it were killed; `msgq_ask` and
  `msgq_stuck` have one that is.
* *RTOS list.* Three items on two lists, one of them sorted only. Three items have a
  first, a last and a middle one and the index on any of them; values 0 to 2 with
  the end marker's at 2 give equal values and items as large as the marker. The
  theorems remove the bound.
* *Semaphore and memory.* Two processes, three starts (so a process that was killed
  starts again beside or after the other), in any order and mode, two segments (the
  second is what two creators and a destroy make), one completed critical section
  after which nobody starts another (a process killed inside leaves its own
  uncounted). A millisecond has 2 nanoseconds and a second 3 milliseconds; the clock
  begins at 2, so that deadlines carry into the seconds, and goes to `MaxNow` 8;
  `LockMs` 2 and 3 against `MaxInterval` 3 is a time below and one at the limit of a
  day; `IntRange` 16 is the width of an int. The theorems remove all of these.
* *Condition variable.* Three threads are two waiters and a signaller, or one
  waiter and two; two calls each let a thread come back to a mutex that a
  timewait has left locked.
* *Linked list.* Two threads and three nodes (two items), four in the run of
  add_middle. Three nodes have a first, a last and a middle; memory runs out at
  the next. Index 5 is any index far beyond the end, a negative one converted to
  unsigned included. `Junk` or any item is what an uninitialised word holds.
  `omalloc` gives the least free node, as the code never compares addresses.

Deadlock is checked in the runs of the memory manager and of the RTOS list and in
all passing runs of the queues but `msgq_events`, where the server may block for
ever in its answer (`msgq_stuck` is that finding). In `ipc` and `cond` it is not:
calls are bounded there, a process may wait for ever for a semaphore whose owner
was killed, and a thread for a mutex that timewait has kept. The linked-list
program may stop because it has crashed.

### Fairness

* *MsgQ.* Weak fairness of each client's own steps and of the server's, because
  each is a process the kernel schedules, whose loops poll with timeouts and
  never wait for each other except in msgsnd, where fairness asks for nothing
  while the queue is full. Kills, destroys and what the test's timers decide
  (asking, sending an event) are not forced.
* *Ipc.* Weak fairness of each process's steps inside a call, and of the clock.
  Starting, locking, destroying and ending are the application's business. No
  strong fairness: nothing says who gets a semaphore that comes free, and
  `TmlockReturns` needs nothing of the kind, since the clock ends the loop.
* *Cond.* Weak fairness of each thread's steps inside a method. A mutex gives more
  to none of its waiters, but each thread makes a bounded number of calls, so
  that a thread at the mutex is in the end the only one. Wakeups without cause
  and deadlines are not forced.
* *Linklist.* Weak fairness of the steps inside a method: a thread that has called
  goes on; whether it calls again is its own business, and nothing is assumed of
  who gets the mutex.

## 4. Abstract specifications

`ImplementsAbstractHeap`: with `live` as the mapping, every step of the manager
is an allocation of unused, aligned bytes inside the buffer, a free, a reset,
or a stutter. `ImplementsDeque`: with `seq` the items from `first` along `next`, `call` what each
thread has called and not yet got done, and `last` the answer on its way to a thread,
`Call` is an Invoke with the method and its arguments, every `Write` is the one
operation of that method on the sequence, at the place and with the item of the
arguments and with that operation's answer, `Return` is Return, and every other step a
stutter. An rm_first that took the last item, a get_end that read the first, or
an add_first of another item would be no step of it. So every call takes effect
between call and return, as its method and arguments say, which is linearizability.
It is for an application that takes `ll->lock` around the rm methods and calls
add_middle at index 0 only. A second call of a thread waits for the answer of the first.
`ImplementsRing`: for each list, with the items from the end marker along `next`
and the position of `index` among them as the mapping, an insertion puts the item
after the last one not larger than it, an insertion at the end just before the
cursor, a removal takes it out with the cursor on the one before if it was there,
and the walk moves the cursor on by one, past the marker.

## 5. Proofs

Eight modules hold theorems. What they assume of the constants is in the named
assumptions of the modules they extend, and each is no more than what a struct, a
clock or a caller guarantees. Nothing else is assumed, but `KeptTo` in
`LinklistProofs`, which stands in the theorems.

| theorem | says, for every value of the constants |
|---|---|
| `MemoryManagerProofs!Inductive` | `Spec => []IInv` |
| `TypeCorrect` | every variable has its type; in particular the counters never go below 0 |
| `TilingHolds` | blocks cover the heap, no gap, no overlap |
| `CoalescedHolds` | no two free blocks are neighbours |
| `ByteLeftExactHolds` | `byte_left` is the number of free bytes, `mini_byte_left` not above it |
| `BoundedWasteHolds` | a block is at most `prv_mini_block_size` larger than its request needs |
| `FullRecoveryHolds` | with everything freed the heap is one block again |
| `MemoryManagerPromises!NoFalseFailureHolds` | allocate refuses nothing that some run of unallocated bytes could hold |
| `HeapImplemented` | `Spec => ImplementsAbstractHeap` |
| `FreeListExactHolds` | `next` from `start_block` visits exactly the free blocks, in address order, to the end marker |
| `MsgQProofs!ServerListSound` | the client list has nobody twice, `clt_amt` counts it, and it is within its limit |
| `ClientsAreListed` | a client that holds the running server's pid is on its list |
| `AnswersAreInOrder` | the answers that wait for a client are its own, newer than any it had, and in order |
| `ClientsLagIsBounded`, `BacklogIsBounded` | a client lags, and leaves messages behind, by no more than the receives it gave up on |
| `EventsAreInOrder` | events reach a handler in order and at most once |
| `LinklistProofs!ShapeKept` | `ASSUME KeptTo PROVE Spec => []ListShape`: the nodes are linked both ways and counted |
| `DequeImplemented` | `ASSUME KeptTo PROVE Spec => ImplementsDeque` |
| `RtosListProofs!RingsKept` | each list is one ring through its marker, its index on it |
| `CountExact`, `StaysSorted` | the count is right; a list filled by vListInsert is sorted, its least value first |
| `WalkIsFair` | the walk returns no item twice before all the others that were there |
| `RingImplemented` | `Spec => ImplementsRing` |
| `TimerProofs!SetMsExact` | the deadline is a proper timespec, exactly ms milliseconds away |
| `IntvIsFloor`, `TimeoutExact` | the interval is rounded down; a timer below a day is over from its deadline on and not a millisecond before |
| `IpcProofs!Excludes`, `LosesNothing`, `OneForAll`, `IsPatient` | the four safety properties of `Ipc`, for any processes, starts, kills, modes and clock; the first three each outside its windows |
| `CondProofs!MutexKept`, `LeftForEver` | `LockKept`; and a mutex that a timewait has left stays locked for ever |
| `TypeCorrect` of each module with runs | every variable has its type |

**MemoryManagerProofs.** *The invariant.* None of the properties is inductive
alone. Merging is only right if the list is in address order; the order is only
kept if `Iterator` finds the predecessor; that needs the chain of `next` words,
which needs that the header words of free blocks are not overwritten, which needs
the tiling. `IInv` is therefore `TypeInv /\ Held /\ HeapInv`, where

* `HeapOK(h, O)` says of a heap `h` and the owned blocks `O`: they tile (`Tiles`,
  local: each block ends where a block or the end marker begins), `next` is a
  chain in address order (`Chain`, also local: each element's successor is
  later, with no free block in between), and no free pair is adjacent;
* `Accounted` adds that the byte counters are the cardinality of the union of
  the free blocks (`Cover`);
* `Held` says that every owned block is large enough for what was asked.

Both are stated without counting along the list, so no induction is needed.
*The argument.* The operators are treated first, each in its own lemma: what
`Iterator` returns, what `InsertBlock` does in its four cases (merge with
neither, the previous, the next, both), what `Unlink` and `Split` do, and that
`Want` neither wraps nor rounds below its request. Then one lemma per action
shows that it keeps `IInv`, conjunct by conjunct, and `Inductive` puts them
together. The theorems are consequences of the invariant. They hold for every
buffer, header size, word size and set of requests that satisfy `SizesAssumption`
and `RequestsAssumption` (the buffer has room for the end marker and one header
and is smaller than half the address space; requests are words).

**MemoryManagerPromises.** For `NoFalseFailure`: the block that holds the first of the
unallocated bytes is free (`LargestBelow`, tiling), and behind it comes an allocated
block or the end (`NoPair`), so it holds them all (`OneFreeBlock`); and no free block
is larger than `byte_left` (`BlockWithinLeft`). For the refinement: payloads are
within their blocks and blocks do not overlap, in the state after the step, so that
each `AllocateOk` is an `Alloc`, each `FreeOk` a `Free`, and the rest stutters or resets.
`FreeListExact` walks the list by a recursive function. `Marker` says that the end
marker keeps its next and size of nothing. A block's `Rank` is the number of free
blocks up to it; along the chain it goes up by one (`Ranks`), no two blocks have
the same (`RankInjective`) and every number up to their count occurs (`EveryRank`).
The function that gives each number the block of that rank solves the equation of
the walk, so the walk is defined, and it is that function at every number because
there is no least one where it is not.

**RtosListProofs.** A ring is said without walking it: `next` and `prev` are
inverse on the nodes of the list, and no proper set of them that holds the marker
is closed under `next`. `LinkRing` and `UnlinkRing` show that linking a node in or
out keeps that, with the set of the old ring that a set of the new one
corresponds to as the witness. `IteratorFound` shows that vListInsert's loop ends
and where. For the walk, `Ahead` is the set of nodes from the index on to an item,
again as what every closed set contains: `WalkPart` says that what an item waits
for (`due`) is ahead of it, so that an item with something due is not the next one.
Lemmas say how `Ahead` changes with each kind of step.
The refinement needs the sequences themselves: `Threaded` says that each list has
one, `s`, and a place `c` of it, so that `next` leads from the marker over `s` and
back and the index is at `c` (`Viewed`). `ThreadInserted` and `ThreadTakenOut` say
what an item linked in or out does to `s`, and to the place of every other;
`InsertPlace` that vListInsert's loop stops behind the last item before the first
larger one. `WalkFacts` shows that the mapping's walk, a recursive function, is `s`, as
`NthFacts` does for the linked list below. So every call is the operation of
`AbstractRing` of its name, with the places counted out.

**TimerProofs.** Arithmetic of division with remainder, by uniqueness of the
quotient (`DivUnique`), for every number of nanoseconds in a millisecond and
milliseconds in a second.

**IpcProofs.** The theorems are of `Spec`, in which nothing orders the processes; what
the properties except is stated in them with `races`. `KeyPart` says that unless two
have both found the key file missing at most one process creates the semaphore,
and that nobody has it before. `ExcludesPart` is the induction behind `MutualExclusion`: the
value is 0 while somebody is inside and from the creator's semget to its SETVAL, so
that a SETVAL in an EXCEP mode comes when nobody is inside, and one in a forced
mode does too, or it is the window `set`. `OnePart` is `KeyPart` for the segments: at
most one is ever made, because the key file outlives it and an init that finds the
file does not create. `CountPart` says that while a creator has not cleared its
segment nobody else has it, or the window `attach` was entered, and relates the copy of
a process inside to the counter; it needs `ExcludesPart`. `SemaPart` and `ShmPart` say how
far each process has come. `TimerPart` relates the timer to the call, which
with `TimerProofs` gives `IsPatient`. One lemma per action.

**MsgQProofs.** The kernel comes first: what a send, a receive, a removal and a
`msgQ_get_qid` do to the queues (`QueueFound` and its neighbours), and then that
every step of the system is, to the queues, one of those (`Sent`, `Received` ...), and
to a client, one of a few changes of its record. `TypeInv` is inductive alone, and
`ListInv` with it: no queue twice on the list or on what is left of a broadcast, the
second part of the first, nothing listed before init is through. Everything else
stands on `QueueInv`. `KeysInv`: a key leads to one queue, and an id that somebody
remembers of a queue that exists is the id of his key; it needs that ids of forgotten
queues only are given again (`KnownQids`). `PackagesInv`: what can be on the server's
queue and on a private one, so that an answer is no event and a reply no question.
`ProcessInv`: pids. On these,

* `RegisteredIsListed` needs `RepliedIsListed`, that a reply of the running server
  waits for listed clients only, since taking it is what makes a client registered;
* `AnswersInOrder` needs `AskInv`: for each client the questions on the server's
  queue, the one the server holds and the answers on the queue are one sequence of
  numbers (`Trace`, `Held`): answers before the question held, before the questions
  left. It survives a kill of the server, because the question held is lost then
  and not repeated. `LagBounded` is inductive on it: every answer is of a question
  that is counted;
* `BacklogBounded` follows: all that is left of a client has different numbers between
  what it got and what it asked, so that there is no more of it than `LagBounded` allows;
* `EventsInOrder` needs `EventInv`: on every private queue events are in order, and a
  queue that a broadcast has still to come to does not have its event yet, although
  other clients with the same key may have handled earlier ones.

The clients, keys, limits, queue lengths and numbers of events and servers are
constants. `KernelAssumption`, `ClientAssumption`, `ServerAssumption` and
`PidsAssumption` only ask them to be numbers, and pids to differ from each other
and from the two reserved types; `KeysAssumption` and `FlagsAssumption`, that no
client has the server's key and that the test program is called with `-a` or `-b`. For these proofs `AnswersInOrder` and `EventsInOrder` are said
with the places of the messages rather than with the sequences selected.

**LinklistProofs.** `Linked(l, s)` says that the nodes `s`, a sequence without
repetition, are all nodes in use and linked both ways from first to tail; there is no
counting along the list in it. What each C function makes of such a list is one lemma
per function, from two about the nodes: `AppendedSound` with `PrependedSound`, and
`UnlinkedSound`, which renumbers the nodes behind the one taken off. They also say
what becomes of the sequence of items (`Content`), so that every function of a sound list
crashes or is the operation of the deque that its method and arguments name (`BodyOK`). The rest is the mutex: `InMethod`
says that a thread which has read the list has the mutex, so that the list is still
what it has read, and writing the words that differ makes it what the function worked
out (`WrittenFacts`). `NthFacts` shows that the walk along next, a recursive function, is the
sequence `s`: by an explicit solution of its equation and the least number at which
the two would differ. With that, the shape and the refinement follow from
the invariant: every call is an Invoke of `AbstractDeque`, every write the operation of
the method and arguments of that call, every return its Return, every other step
a stutter. `KeptTo` is what the application has to keep to. The
rm methods do not take the mutex, so that it either calls none or holds `ll->lock`
around them; and `add_middle` is called at index 0 only, as at any other its item is
lost (`linklist_add_middle`). Without either the theorems are false, and TLC says so.

**CondProofs.** `TypeOK /\ LockKept` is inductive as it stands; `LeftForEver` is an
action property of it.

*Only model-checked.* All liveness (`BroadcastReaches`, `CallsReturn`, `TmlockReturns`, `InitTerminates`,
`EventuallyListed`, `Released`), which the prover does not treat under fairness.

## 6. What is left out, and what is assumed

* *Memory manager.* The buffer is large enough (the code subtracts without a
  test), there is one caller (the original's scheduler lock is gone from this
  port), the application passes to `free` NULL, a pointer it holds, or one
  whose block is still on the list, and writes only inside its payloads.
  `init` and `destroy` are empty in the code.
* *Message queue.* Calls block only in msgsnd: the test program passes a timeout
  to every receive, and blocking receives (`tout = 0`) are left out.
  Failures of `omalloc`, of mkdir and of ftok are left out, and `msgQ_get_qid` is
  atomic, although two processes can collide in its mkdir. The server handles its
  calls in one loop, as the test does. `client->next` is read
  after `ofree(client)` in `send_event`: the model takes the value it had.
* *RTOS list.* Every call is inside a critical section, an item that is inserted is
  on no list, its value is changed only then, and the walk macro is used on a list
  that is not empty: the header's conditions. The integrity-check words are
  compiled out.
* *Semaphore, shared memory.* ftok gives the two files different keys and the same
  key to all. `sema_destroy` frees the process's own object. System calls fail for
  the reasons the code has branches for: open at any time, get without the object,
  attach of a removed segment.
* *Timer.* The conversions to and from text, UTC and the system's time, and
  `tm_add_ns`, which nothing calls.
* *Condition variable.* `destroy` is called when no thread is in a method, as POSIX
  asks. The deadline of timewait may come at any time (see its clocks above).
* *Linked list.* The rm methods do not take the mutex; in the shared run the
  application takes `ll->lock` around them, as the code offers.
  `add_middle` is shared with index 0 only, the one index at which it keeps its
  promise; `linklist_add_middle` has the others. destroy is called by any thread.
  Its leak of a node when the index is beyond the end is in the model and in no
  property (section 3). The order in which a method writes its words is not modelled: a method
  reads all, then writes all.
* *Mutex.* `tmlock`: its deadline is of one clock and its wait by another, so that
  its timeout means nothing a property could state.
* *Not modelled at all.* Options, serial port, helpers: sequential input and
  output. mem.c's table beyond "a block, or NULL when it is full": only `mem_show`
  prints it. Socket and object notation have no function body.

## 7. Plan

Done, in this order: memory manager, its abstract heap and its invariant's proof;
message queue, both sides, composed; linked list and its abstract deque; RTOS list
with its abstract ring and its proof; timer, semaphore and shared memory, composed,
with theirs; condition variable with its; then the theorems of the queues, of the free
list, and the two refinements of the linked list and the RTOS list.

Left:

1. `MsgQServer` with `monitor_request` in a thread of its own: the client list
   walked by `send_event` while another thread adds and deletes.
2. mem.c's table, shared by threads.

## 8. Running it

    tlc -workers 2 -config MsgQEvents.cfg MCMsgQ
    tlc -workers 2 -config MCMemoryManager.cfg MCMemoryManager
    tlc -workers 2 -config LinklistShared.cfg Linklist
    tlapm IpcProofs.tla

`MsgQ*.cfg` go with `MCMsgQ`, `Linklist*.cfg` with `Linklist`, `Cond*.cfg` with
`Cond`, `Ipc.cfg` with `Ipc`, `RtosList*.cfg` with `RtosList`. The largest run,
`MsgQEvents`, has 1.7 million states and takes two to three minutes; the longest
proof, `MsgQProofs`, takes four.
