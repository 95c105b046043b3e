# A TLA+ model of View-OS

View-OS gives every process its own view of files, network, time and devices. A
hypervisor, *umview* (on `ptrace`) or *kmview* (on a kernel module), captures the system
calls of the processes it runs and passes them to service modules or lets the kernel
execute them. The network of a view may be a user-level TCP/IP stack, *LWIPv6*.

This directory models the parts of it that keep state which several parties change: the
tree of views, the table of services, their use counts, the file tables, the kernel
module and its tracer, and the threads and timers of LWIPv6. `PROJECT.json` maps every
definition to the lines it stands for.

Run a model with `tlc -config X.cfg M`, the proofs with `tlapm M.tla`.

## The parts and how they interact

```
   traced processes
        |  utrace callbacks                     KmModule
   kmview kernel module ---- thread table       Kmpid, KmpidSpec
        |  event queue, ioctls
   tracer (capture_km.c, kmview.c)              Kmview (extends KmModule)
        |  wrap_in ... kernel ... wrap_out
   file tables, lfd_tab (umproc.c, um_*.c)      FdTable
        |  which service?
   table of services (hashtab.c)                HashTab
        |  does it belong to my view?           |  may it be removed?
   tree of views (treepoch.c)                   use counts (services.c, um_plusio.c)
     Treepoch, BitStr                             UseCount
   ...
   LWIPv6: program threads, tcpip thread, netif thread   Tcpip
           timeouts of a thread                          SysTimeouts
```

Kmview composes the kernel module with its tracer. The other modules are coupled by
interfaces that one module proves or checks and the next one assumes:

* HashTab takes the result of `tst_matchingepoch` as a field of the element; Treepoch says
  what it is.
* Treepoch takes a bit string as a function; BitStr has it on machine words.
* KmModule takes the thread table as a function from numbers to threads; Kmpid has the
  pages and the free list and implements KmpidSpec.
* FdTable takes an open file as one unit of use of a mount; UseCount counts those.
* Tcpip lets the handler of a message do anything; SysTimeouts has what it may do to the
  timers of its thread.

## Modules

**Treepoch** (`xmview/treepoch.c`). State: the nodes with their fields, the node of every
process, the timestamp of every mounted service. Actions: first process, new process,
end of a process, fork of a view, mount, unmount, and the two loops of
`tst_matchingepoch`. A loop or tail recursion of the C code takes one step per iteration
(`inc`, `dec`, `hgt`, `upd`, `look`), so invariants can be stated in the middle of a walk.
The history variable `sees` is the set of views entitled to a mount. A search on
behalf of no process runs the loops as well and matches everything.

**BitStr** (`getbit`, `setbit`, `diffbitstr`). Words are functions from positions to bits
and the constant `1` of the code is an `int`: shifts count modulo its width, the sign bit
is extended.

**HashTab** (`xmview/hashtab.c`). State: the chain of elements, the search in progress and
its carrot. Actions: add, renew, invalidate, delete, and the search: the scan over the
prefixes of a pathname, `carrot_insert` entry by entry, the confirm functions one by one.

**UseCount** (`ht_count_plus1`, `ht_count_minus1` and their callers, with what the mount,
umount, open and close functions of viewfs, umdev and umnet do to the counts). A module
element counts two for each mount, because it is its own service element, and one per open
file. A mount has an element for its pathname and may have a second one (the sockets of
umnet, the device of umdev); a module may add elements when it is loaded. Files and sockets
are opened through any of them. An umount looks at the count of the pathname's element and
deletes both: umdev has `inuse` against that, umnet has nothing, so sockets may be left with
a pointer to freed memory. `stale` records that this happened; the properties speak of the
states before, since after it the code reads what another element has written.

**FdTable** (`umproc.c`, `um_basicio.c`, `um_plusio.c`). Open, close, dup, dup2, dup3,
F_DUPFD, fork, CLONE_FILES, execve and exit. Each call is three actions: `wrap_in`, the
kernel (external), `wrap_out`; the calls of other threads come in between. The kernel's
file table is part of the state because `lfdlist` has to agree with it. `addfd` of the
kernel module is taken to succeed: it fails for descriptors from `__FD_SETSIZE` on and for a
thread of another tracer.

**KmModule, Kmview** (`kmview-kernel-module/`, `capture_km.c`, `kmview.c`). Every section
under a lock is one step. A thread's life is `st`; `kmstop` is the semaphore it waits on;
`queue` and `event` are the queue of the tracer and what `magicpoll` copied. The tracer
handles one event per step. What a wrap function decides is a free choice among the values
it may return. Tasks may be killed, the tracer may die and start again. A signal that ends
the tracer while processes are left is its crash.

**Kmpid, KmpidSpec** (`kmview_alloc.c`). KmpidSpec says what the module expects: a number
nobody else has, kept until it is given back. Kmpid has `km_head`, the pages and the list
of free numbers through the elements; an element that was never written contains GARBAGE.

**SysTimeouts** (`core/sys.c`). State: the delta list as head and next pointers, the loops
of `sys_timeout` and `sys_untimeout`, and the stack of waits the thread is in, since a
handler may itself wait and run other handlers. `due` and `arm` are history: when a
timeout must run and in which order it was armed.

**Tcpip** (`api/tcpip.c`, `core/netif.c`). State: the queue (a bounded pipe), the places of
the tcpip thread, the netif thread and the program's threads, the interfaces, the
semaphores. Actions: one per message type, per step of the shutdown and of the poll loop,
and the calls for which `memp_malloc` finds no message. The caller of an API message
may go on at once, where in the code it waits in the mailbox of its connection: that only
adds behaviours. `late` is history: the interfaces set up after
`tcpip_set_down_interfaces`.

The `MC` modules only add symmetry sets and constant values. A definition `x_slip` (or
another suffix) next to `x` is `x` with a plausible mistake; `PROJECT.json` says which
property notices it.

## Runs

| run | checks | states |
|---|---|---|
| treepoch | the tree is full, its counters, depths and heights are right between operations, only leaves are taken out, `tst_matchingepoch` does not run off the root, and while all views last a search finds exactly what the view is entitled to | 104,474 |
| treepoch_live | no view lies deeper than the bit string is long; every walk over the tree ends | 578,043 |
| treepoch_leak | *violated*: a mount of a view that ended is found from its sibling | |
| bitstr | strings shorter than an `int` read back and compare correctly, whatever stale bits lie above their length | 1,024 |
| hashtab | the scan meets every layer over the pathname, the carrot is the sorted list of layers its comment promises, the newest one that confirms wins | 2,000,537 |
| usecount | an open file keeps its element and an element its module; counts are exact but for renewed mounts | 326,323 |
| fdtable | threads that share a table, with kills inside calls, execve and kmview's traced descriptors: no lfd in use is freed, the free list is right, a service's file is closed once | 1,935,969 |
| fdtable_own | processes with their own tables: counts are exact, a file closed in the service is out of reach, `lfdlist` agrees with the kernel | 747,592 |
| kmview | an event leads to the pcb of its process, every stop gets exactly one answer, the answer decides the call, the tracer leaves after its last process, every reported call is answered | 41,551 |
| kmpid | the table finds the right thread, stays in its pages, grows only when full, and implements KmpidSpec | 190,643 |
| timeouts | the first timeout is the next one due with exactly its time, handlers run in order and on time, the timeout of a wait does not outlive it | 9.39 million |
| tcpip | the stack is freed when both threads have finished, a call queued before the shutdown is answered, the shutdown ends unless the threads wait for each other in one of the ways below | 349,213 |

`treepoch_leak` is a finding: `te_delproc` links a dead leaf to its surviving sibling and
the next search moves the timestamps of the dead view's services there, so the sibling
sees services that were never mounted for it. (`treepoch.c:142`, `:146` and `:161` say
otherwise.)

### Bounds, and why they are enough

* treepoch: four processes and seven nodes give every shape with up to three forks, with
  any order of ends, the chain of depth 3 included. The run treepoch_live has no symmetry
  and strings of two bits, so that the depth test refuses forks. The safety properties also
  hold with five processes and nine nodes (323,870 states).
* bitstr: a word of 8 and an `int` of 4 bits keep the ratio of 64 and 32. Lengths stay
  below the width of an `int`, where the code is right (see below).
* hashtab: three layers of five kinds (with exceptions, trailing numbers, another view)
  over `/`, `/a`, `/a/b`: three is what it takes to insert before, between and after.
* usecount: one module of each kind, which compete for three elements and two files: a
  mount with both its elements next to another one, two files on either of them. Behaviours
  are cut off after the step that sets `stale` (`BeforeStale`), where nothing is claimed.
* fdtable: one table shared by two threads; two descriptors, lfds and files, so that an
  lfd is freed and used again while the other one is in use. fdtable_own: two tables, and
  files that are virtual, rewritten and real.
* kmview: two tasks and two numbers, which are reused as tasks come and go; one tracer
  that may die and start again; `MagicCnt = 1` as `capture_km.c` asks for.
* kmpid: five threads, pages of two: the array of pages grows too.
* timeouts: three elements, two callers, times 0 to 2, four calls of `sys_timeout`, waits
  three deep, so that a handler waits inside a handler that waits. Insertion before,
  between, after and at equal times all happen.
* tcpip: two threads, one interface (whose driver may call the tcpip thread back), a queue
  of two messages so that it fills, five calls, two packets.

### Fairness

* Treepoch: weak fairness of `LoopStep`. A loop of a single-threaded program goes on.
* Kmview: weak fairness of each step of a traced task that can run and of the tracer's
  poll and handling of an event. Nothing is assumed of suspended calls, which `Answered`
  excludes, nor that a process makes calls or ends.
* Tcpip: weak fairness of the two threads of the stack and of the return from a call that
  was answered. Program threads need not call anything, nor write to the queue.

## What is proved

Each theorem holds for every value of the constants under the named `ASSUME`s of its
module (bounds are naturals, `NULL` is no element, sets are finite where they are counted).

* **TreepochLemmas, TreepochCollapse, TreepochProofs**: types, `TreeShape`,
  `CollapseOnlyLeaf`, `NprocCounts`, `ProcsAtLeaves`, `DepthBound`, `MatchStaysInTree`. The
  inductive invariant `IInv` (in Treepoch) says what holds in the middle of a walk: a count
  is off by the decrement or increment that has not arrived yet (`CountInv` with `Debt`
  and `Credit`), lengths are at least what they will be (`LenInv`), a node without parent
  is as old as the first view (`RiseInv`), which is why the loop without a NULL test stops.
* **HashTabProofs**: types, `TimesDiffer`, `CarrotIsLayers`, `NewestLayerWins`. The carrot
  is described by its last entry (`CarrotOK`), which is what makes dropping older layers
  safe; that no element is met twice is `ScanInv`.
* **UseCountProofs**: `FilesKeepMounts`, `MountsKeepModules` and `CountsCover`, inductive
  only together: the counts protect the elements, and because they are protected the
  counts stay right. `RemovableWithoutRenewal`: a module that is not permanent, does not
  renew its mounts and has nothing mounted or open counts 0, so `um_del_service` removes it.
  All of these speak of the states before `stale`.
* **FdTableProofs**: types and `CountCovers`, with shared tables, forks, kills and execve.
  The invariant adds that the free list links free elements, no two of them to the same
  one (`FreeInv`), and what the calls in progress say about the threads (`CallInv`).
* **SysTimeoutsProofs**: `EarliestFirst`, the action property `OnTime`, and `NoDangling` for
  every depth of nested waits. That the first element is the earliest is not kept by taking
  it out; the invariant says of every link that nothing belongs between an element and the
  next one and that the next one holds the difference of their times, also while the loops
  of insertion and removal are on their way.
* **KmpidProofs**: `SearchRight`, `InPages`, `GrowsWhenFull` and the refinement
  `Implements`. The invariant says who owns each element (`OwnerInv`) and that the list has
  every free element once, by its place counted from the end (`ListInv`, on the history
  variable `pos`): that nothing is lost from the list is what `GrowsWhenFull` needs.

Only model-checked: all liveness (`WalksEnd`, `Answered`, `Served`,
`ShutdownEnds`), which the prover does not handle; `DepthAndHeight` and
`VisibleWhileViewsLast`, which need an induction over the height of the tree;
`ScanMeetsAll` (an induction over pathnames) and the bit strings; `FreeListRight`, whose
list is a recursive function; `ServiceClosesOnce` and the properties of `fdtable_own`;
everything about Kmview and Tcpip.

## Other disagreements between code and text

Met while modelling, without a run of their own. Each is a property of a module that the
given constants violate (others as in the named configuration).

| where | property, instance | what happens |
|---|---|---|
| `treepoch.c:163` | `ViewKeepsMounts`, TreepochLeak with three processes, `MaxNode = 5` | a timestamp moved to an inner node that is taken out later keeps a length that is too long: the mount is not found by the view that made it (`treepoch.c:142`) |
| `treepoch.c:190` | `SameViewIsSameLeaf`, Treepoch | `de_update_substr` rewrites only the last bit of the nodes below a survivor, so `te_sameview_or_next` holds between different views (`treepoch.c:399`) |
| `treepoch.c:115` | `DiffUpToLen`, BitStr with `MaxLen = 8` | strings of 32 bits or more are compared with a mask computed in an `int` (`treepoch.c:111`) |
| `hashtab.c:211` | `ScanMeetsAll`, HashTab with `DiskMounts`, `DiskSearches`, `MaxElem = 1` | `trailnum` is false for a suffix of zeros: `/dev/hda0` is not served (`hashtab.c:195`) |
| `um_plusio.c:746` | `UnusedCanGo`, UseCount | a renewed mount is counted once more and never uncounted: the module cannot be removed (`um_del_service.1:30`) |
| `um_basicio.c:186` | `RegisteredMatchesKernel`, FdTableOwn with `Sharing = TRUE` | the kernel reuses a descriptor between the close and `wrap_out_close`; the table then disagrees with the kernel (`umproc.c:723`) |
| `umnet.c:645` | `FilesKeepMounts` without `~stale =>`, UseCount | umounting a network deletes the element of its open sockets: only the count of the pathname is looked at (`um_plusio.c:746`) |
| `um_plusio.c:541` | `RegisteredMatchesKernel`, FdTableOwn with `Sharing = TRUE` | F_DUPFD of a file the service has closed fails with EBADF, and `wrap_out_fcntl` then unregisters the descriptor an earlier call left in `outevent` (`umproc.c:723`) |
| `umproc.c:402` | `CountExact`, FdTableOwn with `Killing = TRUE` | a process killed after `wrap_in_open` leaves its lfd in use for ever (`umproc.c:81`) |
| `um_plusio.c:361` | `RegisteredMatchesKernel`, FdTableOwn with `CloseOnExec = TRUE` | FD_CLOEXEC is recorded and not acted upon: the entry outlives the descriptor (`umproc.c:428`) |
| `um_plusio.c:353` | `VirtualAreTraced`, FdTableOwn with `Km = TRUE` | dup2 adds the descriptor to the traced ones and then deletes it (`INTERFACE:377`) |
| `kmview_main.c:500` | `UmpidKnown`, Kmview with `MagicCnt = 2` | the NONE terminator of a longer array overwrites a NEWTHREAD event |
| `kmview-kernel-module/INTERFACE` | `OnePending`, `KilledEnds`, Kmview; `OrphansKilled`, Kmview with `OldKernel = FALSE` | a process may have two pending events; a process with a suspended call does not end when killed; from Linux 2.6.32 on the processes of a tracer that dies are not killed |

The properties of the last row are at the end of Kmview. In Tcpip the exceptions of
`Served` and `ShutdownEnds` are themselves the disagreements:

* The tcpip thread writes to the queue it empties (`loopif_output`), and with a full pipe
  it waits for itself (`SelfFull`).
* `netif_shutdown` waits for the netif thread, which may wait for the tcpip thread: in a
  synchronous callback of slirp (`lwslirp.c:116`) behind the SHUTDOWN message, or for room
  in the queue.
* An interface that another thread sets up after `tcpip_set_down_interfaces` makes
  `netif_cleanup` notify, and wait for, its own thread.
* A synchronous call behind SHUTDOWN never returns, where `tcpip.c:75` says "any call has
  no effect".

## Not modelled, and why

* **What a service does with a call** (viewfs, umfuse, umdev, umnet, umbinfmt, ummisc,
  umpyew and their modules): their state is that of the host or of third-party code behind
  a FUSE or socket interface.
* **Translation**: pathnames (`canonicalize.c`), arguments of calls (`um_*.c`, purelibc,
  capture_nested), marshalling (um_rsc, mostly generated), user commands.
* **capture_um**: the `ptrace` stops and signals of umview. The phases of a call are the
  same as in kmview and are in FdTable; the order of the stops is not.
* **Protocols of LWIPv6**: TCP, UDP, IP, DHCP, ARP, NAT, PPP. Of these only the timers and
  threads they run on.
* **select, poll and the main loop** beyond the suspension and resumption of a call.
* **Host code**: the kernel patches, FUSE file systems and slirpvde6.
* **Memory that has been freed**: the name of a service read after its umount
  (`um_plusio.c:763`), a tracer freed under a callback (`kmview_main.c:118`), drivers freed
  while the netif thread polls (`netif.c:274`), the free list of carrots under a read lock
  (`hashtab.c:132`). `PROJECT.json` lists them as hazards with the reason.
* In Kmview: an event or a thread for which the kernel has no memory (the event is dropped
  and its process waits for ever), a poll interrupted while it waits for
  the tracer's semaphore (its -EIO looks like readiness, and the tracer would read the
  events of its last poll again), memory accesses, the report of execve and the sets that
  select which calls are reported. In HashTab: the keys that are not pathnames. In SysTimeouts: the raw
  timeouts, which nothing calls, and an allocation that fails; waits are counted in the
  milliseconds the code reports, so that a flood of messages that postpones the timers
  (`sys.c:93`) is outside the model. `count` of an lfd is unbounded where the code has a
  `short` (`umproc.c:81`).
