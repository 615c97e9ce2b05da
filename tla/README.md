# TLA+ models of Pedigree's kernel code

This directory holds the model-checking project for the repository's kernel
code. The core is the EHCI USB host-controller driver
`src/src/modules/drivers/common/usb-hcd/Ehci.cc`, where threads, an interrupt
handler and a DMA engine share state. Beside it are the kernel pieces that
have concurrent or stateful behaviour of their own:
- the buffer pool `MemoryPool.cc`;
- the reader/exclusive lock `UnlikelyLock.h`;
- the chained `HashTable.h`, checked against the map its comments promise;
- the keyboard input dispatcher `InputManager.cc`;
- the Beagle board's timer `GPTimer.cc`;
- the TUI terminal emulator's escape-sequence parser and screen windows,
  `user/applications/TUI/Xterm.cc`.

Each module is checked on its own: the components do not call one another in
this repository.

## 1. Inventory of the system

| Component | Source | State | Operations | Status |
|---|---|---|---|---|
| Transfer submission | `Ehci.cc` 180-255, 257-333 | QH list, qTD list, transfer pages, `m_QHBitmap`, `m_TransferPagesAllocator`, CMD/ASYNCLP/FRINDEX registers, `m_Mutex` | `doAsync`, `addInterruptInHandler` | modelled |
| Interrupt handler | `Ehci.cc` 105-158 | STS register, the same lists | `irq`: USBINT scan, PORTCH queueing | USBINT modelled; PORTCH planned |
| Run/halt handshake | `Ehci.cc` 160-178 | CMD.RUN, STS.HALTED | `pause`, `resume` | modelled |
| Ports | `Ehci.cc` 83-97, 110-113, 335-353 | PORTSC per port, request queue | constructor loop, `executeRequest` | planned |
| Transfer-page allocator | RangeList (not in repository) | free ranges of 0x5000 bytes | `allocate`, `free` | modelled from its interface |
| Slot bitmap | ExtensibleBitmap (not in repository) | 128 bits | `getFirstClear`, `set`, `clear`, `test` | modelled from its interface |
| USB hub sync layer | `UsbHub.h` (header only) | `m_SyncMutex`, `m_SyncSemaphore`, `m_SyncRet` | `doSync` with a 5000 ms timeout, `syncCallback` | waiting caller modelled; timeout planned |
| MemoryPool | `MemoryPool.cc` | semaphore, allocation bitmap | `initialise`, `allocate`, `allocateNow`, `free` | modelled |
| UnlikelyLock | `UnlikelyLock.h` | `m_Atomic`, `m_Lock` | `enter`, `leave`, `acquire`, `release` | modelled |
| HashTable | `HashTable.h` | bucket chains | `insert`, `lookup`, `remove` | modelled; `initialise` not |
| InputManager | `InputManager.cc` | key queue, spinlock, semaphore, callback list | `keyPressed`, `installCallback`, `mainThread` | modelled |
| GPTimer | `GPTimer.cc`, `Beagle.cc` | handler table, alarm list, tick count | `initialise`, `registerHandler`, `unregisterHandler`, `addAlarm`, `removeAlarm`, `interrupt` | modelled; SyncTimer not |
| TUI Xterm | `TUI/Xterm.cc`, `Xterm.h` | `m_Flags`, `m_Cmd`, `m_OsCtl`, `m_Modes`, saved cursor, `m_TabStops`, two Windows (cursor, scroll region, margins, buffer extent) | `write` (every branch), the Window operations it calls, `resize` | partly: no cell contents, colours, rendering, replies or `processKey` |
| Window manager | `winman/winman.cc` | container tree, `g_Windows`, focus, `g_PendingWindows`, resize mode, status, cursor, input queue, sockets and pipe | `handleMessage` (every code), `queueInputCallback` (every branch), `systemInputCallback`, `checkForMessages`, the render loop, `startClient` | partly: no geometry or drawing |
| Dynamic loader | `libload/loader.cc` | search path, `g_LoadedObjects`, object metas with their preloads and objects lists, GOT/PLT slots | `main`, `findObject`, `loadObject`, `loadSharedObjectHelper`, `lookupSymbol`, `findSymbol`, `doRelocation`, `doThisRelocation`, `_libload_dofixup` | partly: ELF images abstracted, no addresses |
| Configuration database | `modules/system/config/main.cc` | `g_pFile`, `g_FileSz` | `init`, `xOpen`'s choice of methods, `xRead`, `xWrite`, `xReadFail` | partly: page-sized data; SQLite and the no-op methods not |
| UHCI, other applications, headers | `Uhci.h`, `user/applications/*`, ELF | | | not modelled: header-only, or rendering and I/O with no shared concurrent state |

### How the EHCI parts interact

- A submitter takes `m_Mutex` and pauses the controller: it clears RUN, then
  spins until HALTED.
- It then takes a buffer and a slot and fills the QH and the qTD with status
  0x80 (Active). It points ASYNCLP at the QH, or writes the frame-list entry
  and FRINDEX, and resumes.
- The controller executes Active qTDs that are reachable while it runs:
  - it sets the Ping bit (0x81) of OUT qTDs;
  - it retires a qTD by clearing Active and setting error bits, and the bytes
    left;
  - it raises USBINT.
- The interrupt handler does not take `m_Mutex`. It reads STS, pauses, and
  scans every set slot whose status is not exactly 0x80. For each one it:
  - computes the result;
  - copies IN data back;
  - calls the callback;
  - frees the slot, or re-arms a periodic slot.
  Then it resumes and writes STS back.

## 2. The modules

### `EhciHcd.tla`: the driver, the interrupt handler and the controller

- **Interleaving.** The machine is a uniprocessor. Submitters are the
  `Threads`. The handler is the process `"irq"`. While `pc["irq"] # "idle"`,
  no thread takes a step, but the controller still does. Each thread and
  handler action is guarded by `OnCpu(a)`, which encodes this rule. After FATAL (`fatal`), no action is enabled.
- **State.**
  - `qh` and `td` per slot.
  - `bitmap`, the slot bitmap.
  - `freeCnt` per transfer-page unit. A count rather than a boolean, so that
    a double free would show.
  - `pool`: the tag of the data in each unit.
  - `cmdRun`, `halted`, `sched` (the enabled schedules), `asyncLP` and
    `stsInt`.
  - `mutex` and the program counters `pc`.
  - History variables for what the controller did (`hwDone`, `hwRet`,
    `sentData`) and what callers saw (`cbCount`, `lastCb`, `gotData`).
- **Data.**
  - A payload is the transfer's id written into the units it occupies.
  - The qTD status is the real status byte, tested with `Bitwise`: 0x80
    Active, 0x01 Ping, and the error mask 0x7c.
- **Actions.**

  | Action | Source |
  |---|---|
  | `Submit` | call and `LockGuard` |
  | `Pause`, `PauseSpin` | `pause()`, with its early return and its spin |
  | `Alloc` | schedule enable, `allocate`, FATAL, staging memcpy |
  | `GetSlot` | `getFirstClear`, FATAL, `set`, and the periodic frame-list write through `m_pFrameList` |
  | `WriteQH` | QH fill |
  | `WriteTD` | qTD fill, status 0x80, overlay copy, ASYNCLP write |
  | `Resume`, `ResumeSpin` | `resume()`, with its early return and its spin |
  | `Unlock` | guard release |
  | `WaitDone` | a `doSync` caller returning after its callback |
  | `IrqEnter` | STS read |
  | `IrqScan` | one iteration of the slot loop (`Result`, `Copied`, `Rearm`) |
  | `IrqAck` | STS write-back |
  | `HcHalt`, `HcRun` | the controller's side of the handshake |
  | `HwPing`, `HwRetire` | the controller executing a reachable qTD |

  The trailing steps of each handler stay inside its action sequence. No step
  is optional.
- **Undefined behaviour.** The hardware frame list at `phys+0x2000` is never
  written: the write goes through the mis-scaled `m_pFrameList`. Which frame
  entries happen to designate QHs is therefore left to the constant
  `FrameListHits`, a set of slots.

### `MCEhciHcd.tla`

`MCEhciHcd.tla` supplies set-valued constants for the cfgs.

### `MemoryPool.tla`: the kernel buffer pool

- **State.** The semaphore value `sem`, `bufferSize`, `poolBytes`,
  `initialised`, and the set bits of `m_AllocBitmap` as `bitmap`. Per thread:
  the program counter `pc`, the bit `pick` that `allocateDoer` found, and the
  bag `held` of buffers `allocate` returned to it. A bag is used so that a
  buffer returned twice shows.
- **Actions.** Each step a preemptible kernel thread may be interrupted
  between is an action:

  | Action | Source |
  |---|---|
  | `Initialise` | the argument checks, sizes and semaphore units of `initialise`, and the `false` return when `allocateRegion` fails (after `m_BufferSize` is set) |
  | `Allocate`, `Acquire` | `allocate` and its semaphore acquire |
  | `AllocateNow` | `tryAcquire` |
  | `DoerTest` | the bitmap scan, with FATAL when no bit is clear |
  | `DoerSet` | `set` and the returned address |
  | `Free` | `free` |

- **Addresses.** An address is an offset from the pool base. It is computed
  as the code computes it, `n * 0x1000`.

### `HashTable.tla` and `HashMap.tla`: the chained table and its contract

- **`HashTable`.**
  - The lazily allocated bucket array is `allocated`.
  - A chain is a sequence of heap nodes, and `node` holds each node's key and
    value.
  - Nodes come from `nextNode` (`new struct bucket`). `deletes` counts every
    `delete` of a node.
  - Index `NumBuckets` of `buckets` stands for the word just past the array.
    The code's `hash > m_MaxBucket` test lets it through.
  - `Insert`, `RemoveKey` and `Lookup` are the three methods, each with its
    early returns. `Find` is the chain walk.
- **`HashMap`.** The abstract specification: the map the comments of
  `HashTable.h` describe. Every operation is visible in `lastOp`, so an
  operation the table ignores is not a stutter.
- **Refinement.** `HashTable` instantiates `HashMap` with
  `map <- [k \in {j : Stored(j)} |-> StoredVal(k)]`: the contents are
  what the chains hold. The property `HashMapSpec` is `HashMap`'s `Spec`.

### `UnlikelyLock.tla`: the enter/acquire lock

- **Threads.** Entrants call `enter` and, on success, `leave`. Acquirers call
  `acquire` then `release`.
- **CPUs.** Every thread runs on a CPU of its own. `setInterrupts` masks only
  the local CPU, so it orders nothing between threads. It is kept as the flag
  `intr`.
- **Atomic steps.** Each access to `m_Atomic` or `m_Lock` is one step:
  - `EnterCheck`: the `m_Lock` test;
  - `EnterRead`, `EnterCas`: the read and the compare-and-swap retry loop;
  - `Leave`;
  - `AcqLock`, `AcqDec`, `AcqSpin`: the `m_Lock` swap, the decrement, and the
    spin's exit;
  - `Release1`, `Release2`.
- **Arithmetic.** `m_Atomic` is computed modulo `2^Width`.
- **The constructor.** It is declared but defined nowhere in the repository.
  `Init` takes the counter of 1 from the class comment and leaves `m_Lock`
  open.
- **The loop variable.** The retry loop of line 67 names the loop body's `v`.
  The model reads it as that value, the only reading under which the loop
  compiles.

### `InputManager.tla`: key dispatch

- **Single steps.** `KeyPressed` and `InstallCallback` are each one step, for
  their whole `m_QueueLock` critical section. So are `Acquire` (the semaphore)
  and `Pop`.
- **The walk.** The worker's unlocked emptiness `Test` is a step of its own.
  So is each element of its unlocked walk of `m_KeyCallbacks`: `Deliver`, and
  `WalkDone` at `end()`. An installation can therefore land in the middle of
  a walk. `it++` reads the element's next pointer, so an append made while
  the iterator is on the last element is walked. Once the iterator is
  `end()` (the `End` position), later appends are not.
- **Data.** A key is the ordinal of its press. A sent event is the key
  appended to the callback's `delivered` sequence. `regAt` records, for each
  key, the callbacks installed when it was pressed.

### `GPTimer.tla`: the Beagle timer

- **`Initialise`.** Its `allocateRegion` failure path, and the base-to-IRQ
  table of its `switch`. `ArmBeagle::initialise` calls it once, with
  `0x49032000`.
- **Handler registration.** `registerHandler` and `unregisterHandler` scan
  `m_Handlers` without a lock:
  - one step per slot test (`RegTest`, `UnregTest`);
  - one step per store (`RegSet`, `UnregClear`).
- **`Interrupt`.** Counts the tick and calls every handler in the table. On
  the single-core board it runs to completion.
- **Alarms.**
  - `AddAlarm` computes `secs*1000000 + usecs + getTickCount()`. The model
    takes `getTickCount` to be `m_TickCount`, since `GPTimer.h` is not in the
    repository.
  - `RemoveAlarm` and `RemoveAlarmRet` erase the first alarm of the event.
    The second also returns the time left.

### `Xterm.tla`: the terminal emulator's parser and windows

`Xterm::write(utf32)` is a state machine over `m_Flags`. It is one action per
branch, consuming one character of the word a program has written:

- **`WriteGround`.** The ground branch: control characters and `addChar`.
- **`WriteCsi`, `WriteCsiParam`, `WriteCsiMode`, `WriteCsiSave`,
  `WriteCsiTabClear`.** The control-sequence branch: window calls (`CsiOp`),
  parameter digits and `;`, the `h`/`l` mode loop with the alternate screen
  (`SwitchBuffer`), `s`/`u` and `g`.
- **`WriteEsc`, `WriteOsc`, `WriteSkip`.** The escape, OS-command and
  application-command branches; `WriteSkip` also takes a character when no
  branch matches.
- **`Output(wd)`, `ResizeXterm(sz)`.** The environment: the next word, once
  the last is consumed, and `Xterm::resize` between two characters.

Each Window operation (`cursorDown`, `scrollRegionUp`, `deleteCharacters`,
...) is an operator on a window record that keeps the cursor, the scroll
region, the margins and the buffer's length, in `size_t` arithmetic
(negative values stand for 2^64 + v, compared with `ULt`). Cell contents are
not kept. Every buffer access the code makes (`setChar`, `getChar`, each
`memmove`, each blanking loop, `m_TabStops[...]`, `params[cur_param]`) is
checked against the array's extent instead, and an access outside it is
recorded in `faults` under the function's name. A `memmove` is checked the
way the code calls it: source and destination index TermChars (8 bytes),
the length counts bytes. Every move but `insertCharacters`' passes
count*sizeof(TermChar); `insertCharacters` passes the count alone.

### `WinMan.tla`: the window manager

`winman.cc` runs one main loop: `select` on the client socket and a pipe,
then the handling of what arrived, then a render of the pending windows. A
second thread, the input callback, queues input and writes a byte into the
pipe. Clients are the environment. Each sends Create, Sync, RequestRedraw,
SetTitle or Destroy for a handle of its own.

- **State.** The window tree is `kind`, `parent`, `children` and `layout`
  over object numbers. `windows` is `g_Windows` (handle to window) and
  `focus` is `g_pFocusWindow`. `pending` is `g_PendingWindows` and
  `inputQueue` is `g_PendingInputs`. `mpc` is the main loop's position
  (select, pipe, render).
- **Clients and messages.** `CreateMsg`, `RedrawMsg` and `DestroyMsg`
  translate the branches of `handleMessage`. Destroy is the whole branch:
  - the choice of a sibling;
  - the one-level container collapse (266-278);
  - the `getFocusWindow` descent;
  - the switch of focus;
  - the `g_Windows` erase.
- **Input.** `QueueInput(n)` is `queueInputCallback`, with one operator per
  branch: ALT-Q (`QSafe`), ALT-Enter (`StartClient`, whose `fork` may fail),
  ALT-v/h (`Split`), ALT-r, the arrows (`Navigate`), resize mode
  (`ResizeKey`), mouse (`MouseOrForward`) and forwarding to the focus.
- **Main loop.** `SystemInput(n)` is the callback thread's push, one atomic
  step that may come between any two main-loop steps. `Select`, `ReadPipe`
  and `Render` are the main loop.
- **Window and Container.** `winman.h` is not in the repository, so these
  classes are modelled from the calls winman.cc makes:
  - a window joins its parent's children when it is constructed;
  - siblings are neighbours in that sequence;
  - `getLeft`/`getRight`/`getUp`/`getDown` pick any other window or nothing;
  - `getFocusWindow` picks a window of the subtree, and finds none in an
    empty container.
- **Faults.** A null dereference the code can reach is recorded in `faults`,
  and every action is guarded by `faults = {}`: the process has crashed.

### `Loader.tla`: the dynamic loader

`libload` is one thread. `pc` walks main's phases:

- **Search path.** `ParsePath` is one turn of the `strtok` loop of lines
  150-156. `Token` and `Strtok` model what `strtok` does to the buffer.
  Because the buffer is passed again on every call, the first entry comes
  back for ever.
- **Loading.** `LoadMain`, `LoadPreload` and `DepsNext` are main's loads.
  `HelperLoad` is `loadSharedObjectHelper`: it loads `cur` and then follows
  only the first unloaded need (`FirstUnloaded`).
- **`loadObject`** is reduced to its outcome, `LoadOutcomes`:
  - `FindObject` tries the name as given, then every search path but the
    last, as the do-while does;
  - the header checks refuse an invalid image;
  - with `MayFail`, `mmap` or `request_mem` may also fail.
- **`CopyNeeded`** is the `DT_NEEDED` copy loop of lines 545-554, as a
  RECURSIVE operator. It erases the copied element and then increments the
  returned iterator. It wraps at `end()` as the build's `std::list` does.
- **Relocation.** `Relocate` is `doRelocation` for the next object in
  `RelocOrder` (preloads, libraries, program). `Resolve` is the symbol
  search of `doThisRelocation`, over `LookupSymbol` and `FindSymbol`.
  On x86_64, a relocated object with JMPREL slots faults at line 718. A
  COPY whose lookup failed or found only a weak symbol reads `*(S)` with
  `S = 0` (lines 828, 916) and faults.
- **Entry and lazy binding.** `Enter` is the jump to the entry point.
  `Call(m, s)` is the first call through a PLT slot (`_libload_dofixup`).
  A symbol resolved to 0 makes it jump to address 0, recorded as `crashed`.

An ELF image is a record in `Image`:
- validity and position independence;
- the `DT_NEEDED` names;
- the GLOBAL and WEAK dynamic symbols;
- the symbols named by REL/RELA, COPY and JMPREL relocations.

A slot's resolution is the definer's meta, `Weak` or `Missing`.

### `ConfigVfs.tla`: the configuration database's VFS

The config module keeps the database image in one buffer and gives SQLite a
VFS over it. The module models it at page granularity. The pager moves one
page per call, so every offset and length of the code is a count of pages
here, and a page's content is a value of `Vals`. The code's comparisons give
the same answers in either unit.

| Definition | Code |
|---|---|
| `buf`, `size` | `g_pFile` (its allocation) and `g_FileSz` |
| `ModuleInit` | `init()`: the FATAL and panic exits, the ERROR that goes on after `allocateRegion` fails (a fault), the copy, and `sqlite3_open` |
| `xRead` | `xRead`; a read ending at `g_FileSz` takes the short-read branch, whose memset hits `&ptr` (a fault) |
| `xWrite`, `Grow` | `xWrite`: one doubling when the write reaches the end, then the store |
| `xReadFail` | the journal's methods: zeroes, nothing stored |

`file` is not program state. It is the file SQLite has written, and each
read is judged against it. The pager is the environment: it reads pages
inside `xFileSize` and extends the file by at most one page per write.

## 3. Runs

PROJECT.json lists twelve runs. Each passing run fires every action of its
module.

### EHCI

All EHCI runs use 2 slots. Transfer sizes are in units of the page pool. Error
statuses are {0x40 babble, 0x48 babble+xact}.

| Run | Expect | Setting | What it shows |
|---|---|---|---|
| `sync_control` | pass | One thread; OUT/IN/SETUP; 3 transfers; caller waits for each (as `doSync`); 2 units | `TypeOK`. `BusyBuffersHeld`: an armed qTD owns its slot and its units, with no overlap. `DataIntact`: a transfer only ever sends or receives its own data. `CallbackReportsHardware`: every callback follows a completion and reports its result. `EditWhileHalted`: QHs are edited and qTDs armed only while the controller is halted. `AsyncCallbackEventually`: every async transfer gets its callback. |
| `interrupt_in_polling` | pass | One interrupt-IN registration; frame entry 0 designated; 3 polls | `DataIntact` and `CallbackReportsHardware` across re-arms. |
| `irq_submit_race` | violation | two threads | `BusyBuffersHeld`: an IRQ during a submitter's resume spin reaps a running QH (Ehci.cc:122,163). |

The passing runs use the driver the way its callers use it:

- in `sync_control`, one enumeration thread waits for each transfer;
- in `interrupt_in_polling`, a single HID registration is polled.

### Kernel utilities

| Run | Expect | Setting | What it shows |
|---|---|---|---|
| `pool_single` | pass | one thread; `initialise` offered 4096 pages of 4096-byte buffers, which line 40 accepts, and 16 pages of 1024-byte buffers, which it refuses because it compares the byte size with the page count; allocateRegion may fail; up to 5 buffers held | `TypeOK`. `BuffersExclusive`: every buffer handed out lies in the pool and overlaps no other. `SemCountsFree`: the semaphore counts the free buffers. |
| `hashtable_refines_map` | pass | keys k1, k2 hashed to bucket 0, k3 out of range; 2 buckets; 4 nodes | `TypeOK`. `NodesAccounted`: every node is linked once or deleted. `HashMapSpec`: the table refines `HashMap`. |
| `lock_enter_acquire` | pass | two entrants, one acquirer, 3-bit counter, entrant symmetry | `LockExcludes`: `acquire` never returns with a thread inside. `CounterTracksEntries`: `m_Atomic` is 1 plus the threads inside, minus the acquirer's unit. |
| `input_delivery` | pass | 3 key presses; callbacks c1, c2 of type Key or Mouse | `TypeOK`. `SemCountsQueue`: the semaphore counts the queued keys, so the `continue` of line 124 is dead. `DeliveredInOrder`: each callback gets consecutive keys in press order. `KeyDelivered`: every key reaches every callback installed before its press. |
| `gptimer_handlers` | pass | one registering thread, 3 handlers, 2 slots, 2 ticks, alarms of 1000 us and 1 s | `RegisteredOnce`: a handler whose registration returned true sits in exactly one slot. The alarm calls run in between; no property is stated about `removeAlarm`'s result, which only restates lines 219-220. |

### Xterm

| Run | Expect | Setting | What it shows |
|---|---|---|---|
| `xterm_screen` | pass | 2 columns x 3 rows; 25 words: text, LF, CR, BS, HT, CSI A/D/2;2H/2J/3g/?1049h/?1049l/2;3r/r/L/M/s/@/P, ESC 7/8/M/H, an OSC and an APC | `NoBufferOverrun`: no access of `write` leaves its buffer. `CursorOnScreen`: the active cursor stays on the screen. `WordsEndInGround`: every complete sequence returns the parser to ground. |

Every property of a passing run has a mutant in `PROJECT.json`: a plausible
slip in the mapped definition, which TLC catches.

`UnlikelyLock` and `GPTimer` have no type invariant. All of their arithmetic
is reduced modulo the word, and their labels are fixed by their actions, so
no slip in the code could break one.

### Window manager

| Run | Expect | Setting | What it shows |
|---|---|---|---|
| `winman_tiling` | pass | handles h1-h3, 3 client starts, 3 inputs, queue of 2, 2x2 screen; ALT-Enter/v/h/left/r, Esc, a plain key and a mouse click | `TypeOK`, which includes the mouse cursor staying on the screen. `WindowsTracked`: `g_Windows` maps each live handle to its own window of the tree, and every window of the tree is mapped. `FocusValid`: the focus is a window of the tree exactly when one exists. `TreeConsistent`: parent pointers agree with the child lists, each object listed once. |

### Dynamic loader

| Run | Expect | Setting | What it shows |
|---|---|---|---|
| `loader_resolution` | pass | program needing liba, libx (absent) and libb; liba and libb need each other; preload `pre`; both builds; LD_PRELOAD and LD_LIBRARY_PATH set or unset; mmap may fail | `TypeOK`. `PreloadInterposesMain`: a symbol the preload defines wins for the program's own slots. `MainResolves`: each program reference to a symbol some loaded object defines binds to a definer. `BoundBeforeEntry`: the entry runs only after every loaded object's eager slots are bound. `TerminatesWithoutLibPath`: with LD_LIBRARY_PATH unset the loader reaches the entry, an exit or a crash, despite the dependency cycle. |

### Configuration database

| Run | Expect | Setting | What it shows |
|---|---|---|---|
| `config_vfs` | pass | images of 1 and 2 pages, page values {0,1,2}, `g_FileSz` up to 4 pages, every bootstrap outcome | `NoOverflow`: page-at-a-time writes never store past `g_pFile`, through two doublings. `ReadsSeeWrites`: every page `xRead` returns is the page last written there, or zero: the reallocation keeps the old contents and zeroes the new half. |

### Further counterexamples

PROJECT.json holds at most twelve runs. These configurations are kept beside
them. Each is checked the same way, `tlc -config X.cfg MCModule`, and TLC
finds its property violated:

| Config | Module | Property | What the code does |
|---|---|---|---|
| `periodic_lost_interrupt.cfg` | MCEhciHcd | `PeriodicRearmed` | `irq` writes STS back after `resume()` (Ehci.cc:156). A periodic qTD that retires in between has its USBINT cleared unseen, and is never re-armed. |
| `async_ring_replaced.cfg` | MCEhciHcd | `AsyncQueued` | Each `doAsync` makes its QH the whole async ring (Ehci.cc:209,249). A transfer still armed is unlinked and never completes. |
| `periodic_unscheduled.cfg` | MCEhciHcd | `PeriodicScheduled` | `m_pFrameList + 0x2000` scales by four (Ehci.cc:43). The entry written at 285 never reaches the controller's frame list. |
| `framelist_alias.cfg` | MCEhciHcd | `DataIntact` | The same mis-scaled frame list lands in the last transfer page (Ehci.cc:285). An IN transfer there returns the frame-list word. |
| `pool_small_buffers.cfg` | MCMemoryPool | `BuffersExclusive` | Buffers are handed out at `n*0x1000` whatever the buffer size (MemoryPool.cc:99). With 4-byte buffers in a 4-page pool, the fifth buffer lies past the region. |
| `hashtable_hash_edge.cfg` | MCHashTable | `HashMapSpec` | `hash > m_MaxBucket` (HashTable.h:128) stores a key with hash 2 of 2 buckets, one past the array, where the comment says it is ignored. |
| `hashtable_null_value.cfg` | MCHashTable | `HashMapSpec` | Presence is `lookup(k) != 0` (HashTable.h:114,154). A key stored with a NULL value cannot be removed. |
| `lock_two_acquirers.cfg` | MCUnlikelyLock | `LockExcludes` | A second `acquire` ignores the failed `m_Lock` swap and decrements too (UnlikelyLock.h:83,85). The first acquirer returns while an entrant is inside. |
| `lock_enter_fail_interrupts.cfg` | MCUnlikelyLock | `InterruptsRestored` | The `m_Lock` failure path of `enter` masks interrupts instead of restoring them (UnlikelyLock.h:54). |
| `hashtable_double_delete.cfg` | MCHashTable | `NoDoubleDelete` | Removing the second key of a chain deletes its node at line 179 and again at 183 (HashTable.h). |
| `xterm_cursor_right.cfg` | MCXterm | `NoBufferOverrun` | `cursorRightWithinMargin` assigns `m_CursorY` (Xterm.cc:1489). After `a`, `ESC[C`, LF, `a`, `getChar` and `setChar` touch the cell one past the buffer. |
| `xterm_region_inverted.cfg` | MCXterm | `NoBufferOverrun` | `setScrollRegion` stores `ESC[3;1r` unchecked (Xterm.cc:1356). The next line feed moves a negative count of rows in `scrollRegionUp`. |
| `xterm_resize_restore.cfg` | MCXterm | `NoBufferOverrun` | A cursor saved on a 2x3 screen is restored unclamped after a resize to 2x2 (Xterm.cc:948). |
| `xterm_malformed_wedge.cfg` | MCXterm | `ParserDispatchable` | `ESC [ ]` sets two branch bits and no branch of `write` matches again (Xterm.cc:413). The terminal ignores all later input. |
| `pool_doer_race.cfg` | MCMemoryPool | `BuffersExclusive` | Two threads pass the semaphore and find the same clear bit before either sets it (MemoryPool.cc:96). Both get the same buffer. |
| `winman_null_focus.cfg` | MCWinMan | `NoNullDeref` | Destroying the only window leaves `newFocus` null, and `newFocus->focus()` dereferences it (winman.cc:302). ALT-r then Esc with no sibling also inserts 0 into `g_PendingWindows` (664), and render dereferences it (1065). |
| `winman_empty_container.cfg` | MCWinMan | `NoEmptyContainer` | The collapse in Destroy goes up one level only (winman.cc:266-278). After ALT-v, a create, ALT-h and two destroys, a nested container is left empty. |
| `lock_acquire_starved.cfg` | MCUnlikelyLock | `AcquireEventually` | Two entrants taking turns keep the counter above zero for ever. The inverted test at UnlikelyLock.h:52 admits them exactly while `m_Lock` is set. |
| `xterm_insert_count.cfg` | MCXterm | `NoBufferOverrun` | `insertCharacters` computes `m_Width - (x + n)` in `size_t` (Xterm.cc:2223, moved at 2226). `a` then `ESC[2@` at the last column moves a count of -1, that is 2^64-1 bytes. |
| `loader_needed_dropped.cfg` | MCLoader | `NeededLoaded` | The `DT_NEEDED` copy loop (loader.cc:551) skips the entry after each one it copies. A program needing liba and libb starts with libb unloaded. |
| `loader_libpath_hang.cfg` | MCLoader | `Terminates` | `strtok(ld_libpath, ":")` is given the buffer on every call (loader.cc:153). With LD_LIBRARY_PATH set, the search path grows for ever. |
| `loader_library_scope.cfg` | MCLoader | `AllResolve` | `findSymbol` searches a library's preloads (none) and the libraries, never the program (loader.cc:637-666). A library's call to a symbol only the program defines is bound to 0. |
| `pause_spin_hang.cfg` | MCEhciHcd | `AsyncCallbackEventually` | An interrupt's `resume()` inside the pause spin (Ehci.cc:167) sets RUN again. The submitter spins for ever holding `m_Mutex`. |
| `config_last_page.cfg` | MCConfigVfs | `ReadsReturn` | `iOfst+iAmt >= g_FileSz` (config/main.cc:59) sends a read that ends exactly at the end into the short-read branch. Its memset clears `&ptr`, the parameter's own stack slot. The first read of a one-page image clobbers the stack. |
| `gptimer_register_race.cfg` | MCGPTimer | `RegisteredOnce` | Two registering threads find slot 0 empty before either stores (GPTimer.cc:148,150). One handler is overwritten, though its registration returned true. |

### Bounds

- **EHCI.**
  - Two slots give a free slot, a busy slot, and the slot `getFirstClear`
    reuses.
  - Two or three pool units let a buffer be reused after a free, let two live
    buffers sit next to each other, and let the aliased last unit be handed
    out.
  - Three submissions give reuse of a freed slot and buffer.
  - `MaxPolls` bounds the controller's retirements per transfer, and
    `nextId <= MaxSubmits` bounds submissions.
- **MemoryPool.**
  - `MaxHeld` = 5 exceeds the 4 buffers of the small pool, so the pool runs
    dry and `allocateNow` fails.
  - The two pool shapes cover buffers equal to and smaller than a page.
- **HashTable.**
  - Two colliding keys give chains of two, and so the non-head removal.
  - A third key tests the range check.
  - Four nodes allow removal and re-insertion.
- **UnlikelyLock.** Two entrants are the least that can overlap inside the
  section. Three bits hold every counter value a single acquirer reaches.
- **InputManager.** Three presses leave a queue of two behind the key being
  walked, so the order of the pops is observable.
- **GPTimer.**
  - Three handlers for two slots make `registerHandler` fail when the table
    is full.
  - Two ticks fall between registrations.
  - Two alarms of one event show that only the first is removed.

- **Xterm.**
  - A 2x3 screen has a last column, a last row and a region smaller than the
    screen. It is also small enough that the wrap, the scroll and the
    off-by-one accesses all happen.
  - The words of `xterm_screen` are chosen so that every action and every
    window operation fires. Each CSI has at most two parameters, which keeps
    the state space at about two million states.
  - `MCView` hides `params`, `curParam` and `osCur` in the ground state. This
    is sound because they are dead there: the ESC `[` or ESC `]` that leads
    back to them zeroes them first.

- **WinMan.**
  - Three handles make a split with three windows possible.
  - Three inputs allow a split, a move and a resize.
  - A queue of 2 lets a second input arrive before the first is read.
  - A 2x2 screen gives the mouse clamp both of its edges.
  - `winman_empty_container` needs three windows open at once, and a fourth
    input for the second split, so it takes 7 objects and 4 inputs. With
    those bounds the passing run would take about 5 minutes.

- **Loader.**
  - Four images cover every branch of the loader: a missing library, a
    cycle, a preload that shadows both the program and a library, a weak
    reference, a COPY, and an undefined lazy call.
  - `MaxPaths = 3` stops the `strtok` loop one entry after it starts. It
    pushes the same entry for ever anyway.
  - `MaxMetas = 5` is one more than the objects a correct run can load, so
    only a loop that reloads objects reaches it.

- **Configuration database.** Images of one and two pages reach both the
  doubling from 1 and the doubling from 2. Four pages let a write reach the
  end twice. Larger images only repeat these cases. The empty image is left
  out: there `g_FileSz*2` is 0, the first write overflows, and the boot
  loader never hands over an empty database.

### Fairness

| Process | Fairness | Why |
|---|---|---|
| EHCI thread steps other than `Submit` | weak | A scheduled kernel thread runs. |
| EHCI interrupt-handler steps | weak | The interrupt is taken when enabled. |
| `HcHalt`, `HcRun` | weak | The controller honours RUN. |
| Retirement of the async QH at ASYNCLP | strong | A device answers a control transfer eventually, though the QH is reachable only while RUN is set. |
| Periodic retirement | none | An interrupt endpoint may NAK for ever. |
| MemoryPool `Acquire`, `DoerTest`, `DoerSet` | weak | A thread inside `allocate` runs until it returns. |
| UnlikelyLock steps inside a call, `Leave`, the release steps | weak | A running thread finishes its call; an entrant leaves; the holder releases. |
| UnlikelyLock `AcqSpin` | strong | The acquirer polls `m_Atomic` without pause, so it sees a zero that recurs. |
| InputManager worker steps | weak | The worker is a kernel thread the scheduler runs. |
| Loader steps (`LoaderStep`) | weak | The loader is the process's only thread until the entry. |
| The program's PLT calls | none | The program calls what it likes. |
| Calls (`Submit`, `Allocate`, `enter`, `acquire`, `keyPressed`, `installCallback`, the HashTable and GPTimer methods) | none | Calls are the callers' choice. |

The EHCI and MemoryPool runs, and `input_delivery`, say
`CHECK_DEADLOCK FALSE`, because these systems really do stop:
- the kernel idles once every caller is done, and FATAL halts it;
- the input worker blocks on its semaphore when no key comes.

`config_vfs` says `CHECK_DEADLOCK FALSE`: FATAL and a fault halt the kernel, and the bounded pager stops. It assumes no fairness, because the pager calls when it likes. `loader_resolution` says `CHECK_DEADLOCK FALSE`: the loader's work ends at the entry, an exit or a crash. `xterm_screen` has no fairness: a program writes when it likes. `winman_tiling` has none either, because clients and the user act when they like. It says `CHECK_DEADLOCK FALSE`: the bounded environment runs out, and a fault ends the process. The other runs keep deadlock checking: a lookup, a removal or an `enter`
attempt is always enabled.

## 4. Not modelled

- EHCI: port handling (PORTCH, `executeRequest`, the constructor's port reset
  loop), the `doSync` timeout, and callbacks that re-enter the driver.
- `HashTable::initialise` and the destructor: a run fixes `NumBuckets`.
- Missing parts of the repository:
  - the `UnlikelyLock` constructor;
  - `GPTimer.h` (`getTickCount`, `MAX_TIMER_HANDLERS`);
  - `InputManager.h`;
  - the List, Semaphore, Spinlock and Thread classes.

  Their behaviour is stated in each module's header comment, and a model
  constant stands where a value is needed.
- SyncTimer, the timer's MMIO register programming, and InputEvent
  serialisation: MMIO accesses and formatting, with no state of their own.
- Xterm: cell contents, colours and attributes (`m`), rendering and
  `renderAll`, the replies sent through `addToQueue` (`c`, `n`, `x`), and
  `processKey`. None of them changes the cursor, the region or the parser.
- Winman: geometry and sizes, cairo drawing, the info panel, the protocol
  structs, and main's font and framebuffer setup. The data race on
  `std::queue` (743 against 387) is modelled as atomic pushes.
- Loader:
  - the byte layout of ELF headers, section and program headers, and the
    dynamic table;
  - segment `mmap`/`mprotect`, load addresses and the relocation
    arithmetic, including x86_64's missing load base at 857-860 and
    RELATIVE at 923;
  - the ELF hash walk, and its null `hash` for objects with only
    `.gnu.hash`;
  - the fields `new object_meta_t` leaves uninitialised. Every modelled
    image has the tables a linker emits.
- Configuration database: SQLite itself, the `pedigree_callback` SQL function
  (it calls a code address given as text), and the methods that only return 0
  (`xTruncate`, `xSync`, the locks, `xWriteFail`). No hazard entry covers
  the `allocateRegion` failure at line 316: `ModuleInit` makes the fault,
  and no property is stated about it.
- The other user applications (login, init) and the ELF linker. They are rendering and I/O driven by one
  thread each.

## 5. Plan for later sittings

1. `EhciPorts.tla`: PORTSC connect-status-change, and the request queue of
   `addAsyncRequest` and `executeRequest`. The property is that each connect
   is reported once.
2. `UsbTransfer.tla`: an abstract transfer service (submit, then exactly one
   completion with the device's result). `EhciHcd` is to be shown to refine
   it under `CallerWaits`.
3. `UsbHubSync.tla`: `doSync` with a timeout racing a late `syncCallback`.
4. Winman: a collapse property for the recursive case, once `winman.h` behaviour is settled, and liveness of rendering under a fair main loop.
5. Loader: the preload's own dependencies, and a preload given by path that a library also needs by name (loaded twice).
6. Xterm: the OS-command parameter overflow with longer words, and
   `processKey`.
