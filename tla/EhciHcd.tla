------------------------------ MODULE EhciHcd ------------------------------
(***************************************************************************)
(* The EHCI host-controller driver of modules/drivers/common/usb-hcd/     *)
(* Ehci.cc: the transfer submission engine (doAsync,                      *)
(* addInterruptInHandler), the interrupt completion engine (irq), the     *)
(* controller run/halt handshake (pause, resume) and, as the environment, *)
(* the controller's DMA engine walking the schedules.                     *)
(*                                                                         *)
(* Caller threads run the submission steps under m_Mutex.  The interrupt  *)
(* handler does not take m_Mutex: it preempts whichever thread is running *)
(* (uniprocessor kernel), so while it runs no thread step happens, while  *)
(* the hardware keeps running between its register accesses.              *)
(*                                                                         *)
(* Data is abstracted to tags: a pool unit holds the tag of the transfer  *)
(* whose payload it carries (0 = nothing, FrameTag = a frame-list entry). *)
(* Sizes and offsets are in pool units (pages of the 0x5000-byte pool).   *)
(***************************************************************************)
EXTENDS Integers, FiniteSets, FiniteSetsExt, Bitwise

CONSTANTS
    Threads,        \* caller threads (device drivers, enumeration thread)
    NSlots,         \* QH/qTD slot pairs (128 in Ehci.cc)
    PoolUnits,      \* units of the transfer-page pool (0x5000 bytes)
    Sizes,          \* transfer lengths callers request, in units
    Pids,           \* packet ids callers pass to doAsync
    Kinds,          \* which entry points callers use
    MaxSubmits,     \* bound on submissions over a behaviour
    MaxPolls,       \* bound on hardware retirements of one transfer
    ErrStatuses,    \* error status bytes the controller may write back
    CallerWaits,    \* callers block until their async callback (doSync use)
    FrameListHits,  \* slots the never-written hardware frame list designates
    NoThread        \* m_Mutex is free

Slots == 0..(NSlots - 1)
Units == 0..(PoolUnits - 1)
Transfers == 1..MaxSubmits
NoCb == 0                  \* a null callback / param
FrameTag == -1             \* payload tag of a frame-list entry
Tags == {0, FrameTag} \cup Transfers

ASSUME
    /\ NSlots \in Nat \ {0}
    /\ PoolUnits \in Nat \ {0}
    /\ Sizes \subseteq 1..PoolUnits
    /\ Pids \subseteq {"OUT", "IN", "SETUP"}
    /\ Kinds \subseteq {"async", "periodic"}
    /\ MaxSubmits \in Nat /\ MaxPolls \in Nat \ {0}
    /\ ErrStatuses \subseteq 1..127
    /\ CallerWaits \in BOOLEAN
    /\ FrameListHits \subseteq Slots
    /\ NoThread \notin Threads

\* qTD status byte: bit 0x80 is Active, bit 0x01 the Ping state, 0x7c errors.
Active == 128
PingBit == 1
ErrMask == 124

VARIABLES
    pc,         \* [Threads \cup {"irq"} -> label]
    cur,        \* per thread: the submission in progress (locals of doAsync)
    mutex,      \* holder of m_Mutex
    cmdRun,     \* EHCI_CMD run bit
    halted,     \* EHCI_STS halted bit
    sched,      \* schedules enabled in EHCI_CMD: subset of {"async","periodic"}
    asyncLP,    \* slot the EHCI_ASYNCLP register designates (-1: none)
    bitmap,     \* m_QHBitmap
    qh,         \* m_pQHList: hardware fields abstracted + software sidecar
    td,         \* m_pqTDList (the overlay is copied in the same step)
    freeCnt,    \* m_TransferPagesAllocator: how many times a unit is free
    pool,       \* contents of the transfer pages
    stsInt,     \* EHCI_STS USBINT bit
    scanIdx,    \* loop index i of the irq scan
    nextId,     \* next transfer identity (callback/param pair)
    fatal,      \* FATAL() was called
    \* history of what the hardware and the callbacks did, per transfer
    kindOf, polls, hwDone, hwRet, cbCount, lastCb, sentData, gotData

vars == <<pc, cur, mutex, cmdRun, halted, sched, asyncLP, bitmap, qh, td,
          freeCnt, pool, stsInt, scanIdx, nextId, fatal,
          kindOf, polls, hwDone, hwRet, cbCount, lastCb, sentData, gotData>>

Span(o, k) == o..(o + k - 1)

ZeroQH == [ep |-> NoCb, cb |-> NoCb, buf |-> FALSE, periodic |-> FALSE,
           size |-> 0, offset |-> 0]
ZeroTD == [status |-> 0, nBytes |-> 0, pid |-> "OUT", offset |-> 0]

(***************************************************************************)
(* The range allocator m_TransferPagesAllocator(0, 0x5000).  Its code is  *)
(* not in the repository; it is modelled from the specification: allocate *)
(* fails when no contiguous free range exists, free returns a range       *)
(* without checking it was allocated, so a range freed twice is handed    *)
(* out twice.                                                             *)
(***************************************************************************)
Fits(o, k) == o + k <= PoolUnits /\ \A u \in Span(o, k) : freeCnt[u] > 0
FirstFit(k) == Min({o \in Units : Fits(o, k)})
AllocRange(o, k) ==
    [u \in Units |-> IF u \in Span(o, k) THEN freeCnt[u] - 1 ELSE freeCnt[u]]
FreeRange(o, k) ==
    [u \in Units |-> IF u \in Span(o, k) THEN freeCnt[u] + 1 ELSE freeCnt[u]]

\* m_QHBitmap.getFirstClear(): NSlots when every bit is set.
GetFirstClear == IF bitmap = Slots THEN NSlots ELSE Min(Slots \ bitmap)

\* The software frame list m_pFrameList is uint32_t*, so "+0x2000" lands
\* 0x8000 bytes into the region: inside the transfer pages, at their last
\* page, while EHCI_PERIODICLP is given the physical address +0x2000.
FrameAliasUnit == PoolUnits - 1

-----------------------------------------------------------------------------
(* pause() and resume(), shared by the threads and the interrupt handler.  *)

Goto(a, l) == pc' = [pc EXCEPT ![a] = l]

\* A uniprocessor: a thread runs only while no interrupt handler is active;
\* nothing runs after FATAL.
OnCpu(a) == ~fatal /\ (a = "irq" \/ pc["irq"] = "idle")

\* pause(): return if halted, else clear the run bit.
PauseNoWait(a, spin, next) == cmdRun' = FALSE /\ Goto(a, next)
Pause(a, spin, next) ==
    IF halted THEN Goto(a, next) /\ UNCHANGED cmdRun
    ELSE cmdRun' = FALSE /\ Goto(a, spin)

\* resume(): return if running, else set the run bit.
ResumeNoRun(a, spin, next) == Goto(a, next) /\ UNCHANGED cmdRun
Resume(a, spin, next) ==
    IF ~halted THEN Goto(a, next) /\ UNCHANGED cmdRun
    ELSE cmdRun' = TRUE /\ Goto(a, spin)

\* The busy-wait loops of pause() and resume().
PauseSpin(a, next) == halted /\ Goto(a, next) /\ UNCHANGED cmdRun
ResumeSpin(a, next) == ~halted /\ Goto(a, next) /\ UNCHANGED cmdRun

-----------------------------------------------------------------------------
(* Submission: doAsync and addInterruptInHandler, one action per step.     *)

ThreadVars == <<stsInt, scanIdx, polls, hwDone, hwRet, cbCount, lastCb,
                sentData, gotData>>

\* The call and LockGuard<Mutex> guard(m_Mutex).
Submit(t) ==
    /\ pc[t] = "idle" /\ OnCpu(t) /\ mutex = NoThread /\ nextId <= MaxSubmits
    /\ \E kind \in Kinds, pid \in Pids, size \in Sizes :
         /\ cur' = [cur EXCEPT ![t] = [id |-> nextId, kind |-> kind,
                      pid |-> IF kind = "periodic" THEN "IN" ELSE pid,
                      size |-> size, offset |-> 0, slot |-> 0]]
         /\ kindOf' = [kindOf EXCEPT ![nextId] = kind]
    /\ mutex' = t /\ nextId' = nextId + 1
    /\ Goto(t, "pause")
    /\ UNCHANGED <<cmdRun, halted, sched, asyncLP, bitmap, qh, td, freeCnt,
                   pool, fatal, ThreadVars>>

\* doAsync, lines 196-197: OUT/SETUP payload memcpy'd into the buffer.
StageNone(c, o) == pool
Stage(c, o) ==
    IF c.kind = "async" /\ c.pid # "IN"
    THEN [u \in Units |-> IF u \in Span(o, c.size) THEN c.id ELSE pool[u]]
    ELSE pool

\* m_QHBitmap.set(nQHIndex).
MarkSlotNone(i) == bitmap
MarkSlot(i) == bitmap \cup {i}

\* Enable the schedule, take a buffer (FATAL when full), stage OUT/SETUP data.
Alloc(t) ==
    LET c == cur[t] IN
    /\ pc[t] = "alloc" /\ OnCpu(t)
    /\ sched' = sched \cup {c.kind}
    /\ IF \E o \in Units : Fits(o, c.size)
       THEN LET o == FirstFit(c.size) IN
            /\ freeCnt' = AllocRange(o, c.size)
            /\ cur' = [cur EXCEPT ![t].offset = o]
            /\ pool' = Stage(c, o)
            /\ Goto(t, "slot") /\ UNCHANGED fatal
       ELSE fatal' = TRUE /\ UNCHANGED <<freeCnt, cur, pool, pc>>
    /\ UNCHANGED <<mutex, cmdRun, halted, asyncLP, bitmap, qh, td, nextId,
                   kindOf, ThreadVars>>

\* Take the first clear bitmap slot (FATAL when full); the periodic entry
\* point then writes the frame-list entry through the aliased m_pFrameList.
GetSlot(t) ==
    LET i == GetFirstClear IN
    /\ pc[t] = "slot" /\ OnCpu(t)
    /\ IF i > NSlots - 1
       THEN fatal' = TRUE /\ UNCHANGED <<bitmap, cur, pool, pc>>
       ELSE /\ bitmap' = MarkSlot(i)
            /\ cur' = [cur EXCEPT ![t].slot = i]
            /\ pool' = IF cur[t].kind = "periodic"
                       THEN [pool EXCEPT ![FrameAliasUnit] = FrameTag]
                       ELSE pool
            /\ Goto(t, "qh") /\ UNCHANGED fatal
    /\ UNCHANGED <<mutex, cmdRun, halted, sched, asyncLP, qh, td, freeCnt,
                   nextId, kindOf, ThreadVars>>

\* memset the QH and fill it; the sidecar keeps callback, buffer, size, offset.
WriteQH(t) ==
    LET c == cur[t] IN
    /\ pc[t] = "qh" /\ OnCpu(t)
    /\ qh' = [qh EXCEPT ![c.slot] = [ep |-> c.id, cb |-> c.id, buf |-> TRUE,
                periodic |-> c.kind = "periodic", size |-> c.size,
                offset |-> c.offset]]
    /\ Goto(t, "td")
    /\ UNCHANGED <<cur, mutex, cmdRun, halted, sched, asyncLP, bitmap, td,
                   freeCnt, pool, nextId, fatal, kindOf, ThreadVars>>

\* memset the qTD, arm it (status 0x80), copy it into the overlay, then
\* write EHCI_ASYNCLP (async) or EHCI_FRINDEX (periodic).
WriteTD(t) ==
    LET c == cur[t] IN
    /\ pc[t] = "td" /\ OnCpu(t)
    /\ td' = [td EXCEPT ![c.slot] = [status |-> Active, nBytes |-> c.size,
                pid |-> c.pid, offset |-> c.offset]]
    /\ asyncLP' = IF c.kind = "async" THEN c.slot ELSE asyncLP
    /\ Goto(t, "resume")
    /\ UNCHANGED <<cur, mutex, cmdRun, halted, sched, bitmap, qh, freeCnt,
                   pool, nextId, fatal, kindOf, ThreadVars>>

\* End of the call: the LockGuard releases m_Mutex.
Unlock(t) ==
    /\ pc[t] = "unlock" /\ OnCpu(t)
    /\ mutex' = NoThread
    /\ Goto(t, IF CallerWaits /\ cur[t].kind = "async" THEN "wait" ELSE "idle")
    /\ UNCHANGED <<cur, cmdRun, halted, sched, asyncLP, bitmap, qh, td,
                   freeCnt, pool, nextId, fatal, kindOf, ThreadVars>>

\* A synchronous caller returns once its callback ran.
WaitDone(t) ==
    /\ pc[t] = "wait" /\ OnCpu(t) /\ cbCount[cur[t].id] > 0
    /\ Goto(t, "idle")
    /\ UNCHANGED <<cur, mutex, cmdRun, halted, sched, asyncLP, bitmap, qh, td,
                   freeCnt, pool, nextId, fatal, kindOf, ThreadVars>>

ThreadRegs(t) ==
    /\ OnCpu(t)
    /\ \/ pc[t] = "pause" /\ Pause(t, "pausewait", "alloc")
       \/ PauseSpin(t, "alloc") /\ pc[t] = "pausewait"
       \/ pc[t] = "resume" /\ Resume(t, "resumewait", "unlock")
       \/ ResumeSpin(t, "unlock") /\ pc[t] = "resumewait"
    /\ UNCHANGED <<cur, mutex, halted, sched, asyncLP, bitmap, qh, td, freeCnt,
                   pool, nextId, fatal, kindOf, ThreadVars>>

ThreadStep(t) ==
    \/ ThreadRegs(t) \/ Alloc(t) \/ GetSlot(t) \/ WriteQH(t) \/ WriteTD(t)
    \/ Unlock(t) \/ WaitDone(t)

-----------------------------------------------------------------------------
(* The interrupt handler Ehci::irq.                                        *)

IrqVars == <<cur, mutex, sched, asyncLP, nextId, fatal, kindOf, polls, hwRet,
             sentData>>

\* The controller raises its line while USBINT is set (EHCI_INTR = 0x3f);
\* the handler reads EHCI_STS, whose USBINT bit it will write back.
IrqEnter ==
    /\ pc["irq"] = "idle" /\ OnCpu("irq") /\ stsInt
    /\ scanIdx' = 0 /\ Goto("irq", "pause")
    /\ UNCHANGED <<cmdRun, halted, bitmap, qh, td, freeCnt, pool, stsInt,
                   hwDone, cbCount, lastCb, gotData, IrqVars>>

\* Line 125: bytes moved, or minus the error bits of the status byte.
ResultBytesLeft(q, d) ==
    IF (d.status & ErrMask) # 0 THEN -((d.status & ErrMask) \div 4)
    ELSE d.nBytes
Result(q, d) ==
    IF (d.status & ErrMask) # 0 THEN -((d.status & ErrMask) \div 4)
    ELSE q.size - d.nBytes

\* Line 127: the payload memcpy'd back into the caller's buffer.
CopiedWhole(q, ret) == {pool[u] : u \in Span(q.offset, q.size)}
Copied(q, ret) == {pool[u] : u \in Span(q.offset, ret)}

\* Lines 141-151: the qTD of a periodic slot armed again, overlay refreshed.
RearmKeepCount(q, d) == [d EXCEPT !.status = Active, !.offset = q.offset]
Rearm(q, d) ==
    [d EXCEPT !.status = Active, !.nBytes = q.size, !.offset = q.offset]

\* Line 116: the loop runs over every slot index of the QH list.
InScanPastEnd(i) == i <= NSlots
InScan(i) == i < NSlots

\* One iteration of the loop over the 128 slots (lines 116-153).
IrqScan ==
    LET i == scanIdx
        q == qh[i]
        d == td[i]
        ret == Result(q, d)
        copied == d.pid = "IN" /\ q.buf /\ ret > 0
        called == q.cb # NoCb /\ (ret > 0 \/ ~q.periodic)
    IN
    /\ pc["irq"] = "scan" /\ OnCpu("irq") /\ InScan(i)
    /\ scanIdx' = i + 1
    /\ IF i \notin bitmap \/ d.status = Active
       THEN UNCHANGED <<bitmap, td, freeCnt, hwDone, cbCount, lastCb, gotData>>
       ELSE
         /\ hwDone' = IF q.cb # NoCb THEN [hwDone EXCEPT ![q.cb] = FALSE]
                      ELSE hwDone
         /\ gotData' = IF copied THEN [gotData EXCEPT ![q.cb] = Copied(q, ret)]
                       ELSE gotData
         /\ cbCount' = IF called THEN [cbCount EXCEPT ![q.cb] = @ + 1]
                       ELSE cbCount
         /\ lastCb' = IF called THEN [lastCb EXCEPT ![q.cb] = ret] ELSE lastCb
         /\ IF ~q.periodic
            THEN /\ freeCnt' = FreeRange(q.offset, q.size)
                 /\ bitmap' = bitmap \ {i}
                 /\ UNCHANGED td
            ELSE /\ td' = [td EXCEPT ![i] = Rearm(q, d)]
                 /\ UNCHANGED <<freeCnt, bitmap>>
    /\ UNCHANGED <<pc, cmdRun, halted, qh, pool, stsInt, IrqVars>>

\* Write the saved status back: USBINT is write-one-to-clear.
IrqAck ==
    /\ pc["irq"] = "ack" /\ OnCpu("irq")
    /\ stsInt' = FALSE /\ Goto("irq", "idle")
    /\ UNCHANGED <<cmdRun, halted, bitmap, qh, td, freeCnt, pool, scanIdx,
                   hwDone, cbCount, lastCb, gotData, IrqVars>>

IrqRegs ==
    /\ OnCpu("irq")
    /\ \/ pc["irq"] = "pause" /\ Pause("irq", "pausewait", "scan")
       \/ pc["irq"] = "pausewait" /\ PauseSpin("irq", "scan")
       \/ pc["irq"] = "scan" /\ scanIdx = NSlots
          /\ Resume("irq", "resumewait", "ack")
       \/ pc["irq"] = "resumewait" /\ ResumeSpin("irq", "ack")
    /\ UNCHANGED <<halted, bitmap, qh, td, freeCnt, pool, stsInt, scanIdx,
                   hwDone, cbCount, lastCb, gotData, IrqVars>>

IrqStep == IrqEnter \/ IrqScan \/ IrqRegs \/ IrqAck

-----------------------------------------------------------------------------
(* The controller: run/halt handshake and the DMA engine.                  *)

HwVars == <<pc, cur, mutex, cmdRun, sched, asyncLP, bitmap, qh, scanIdx,
            nextId, fatal, kindOf, cbCount, lastCb, gotData>>

HcHalt == ~fatal /\ ~cmdRun /\ ~halted /\ halted' = TRUE
HcRun == ~fatal /\ cmdRun /\ halted /\ halted' = FALSE

\* The async schedule is the ring of one QH at EHCI_ASYNCLP; the periodic
\* schedule is whatever the hardware frame list designates.
Reachable(s) ==
    /\ ~fatal /\ ~halted
    /\ \/ s = asyncLP /\ "async" \in sched
       \/ s \in FrameListHits /\ "periodic" \in sched

\* A high-speed OUT that meets NAK/NYET enters the Ping state, still Active.
HwPing(s) ==
    /\ Reachable(s) /\ td[s].status = Active /\ td[s].pid = "OUT"
    /\ td' = [td EXCEPT ![s].status = Active + PingBit]
    /\ UNCHANGED <<halted, freeCnt, pool, stsInt, polls, hwDone, hwRet,
                   sentData>>

\* The controller retires the qTD: writes status and bytes left, moves the
\* payload, and raises USBINT (ioc = 1).
HwRetire(s) ==
    LET d == td[s]
        ep == qh[s].ep
    IN
    /\ Reachable(s) /\ (d.status & Active) # 0 /\ ep # NoCb
    /\ polls[ep] < MaxPolls
    /\ \E st \in {0} \cup ErrStatuses, r \in 0..d.nBytes :
         LET moved == d.nBytes - r IN
         /\ st = 0 /\ d.pid # "IN" => r = 0
         /\ td' = [td EXCEPT ![s].status = st, ![s].nBytes = r]
         /\ pool' = IF d.pid = "IN"
                    THEN [u \in Units |-> IF u \in Span(d.offset, moved)
                                          THEN ep ELSE pool[u]]
                    ELSE pool
         /\ sentData' = IF d.pid # "IN"
                        THEN [sentData EXCEPT ![ep] =
                                {pool[u] : u \in Span(d.offset, moved)}]
                        ELSE sentData
         /\ hwRet' = [hwRet EXCEPT ![ep] =
                        IF (st & ErrMask) # 0 THEN -((st & ErrMask) \div 4)
                        ELSE moved]
    /\ hwDone' = [hwDone EXCEPT ![ep] = TRUE]
    /\ polls' = [polls EXCEPT ![ep] = @ + 1]
    /\ stsInt' = TRUE
    /\ UNCHANGED <<halted, freeCnt>>

Hardware ==
    \/ HcHalt /\ UNCHANGED <<td, freeCnt, pool, stsInt, polls, hwDone, hwRet,
                             sentData, HwVars>>
    \/ HcRun /\ UNCHANGED <<td, freeCnt, pool, stsInt, polls, hwDone, hwRet,
                            sentData, HwVars>>
    \/ \E s \in Slots : (HwPing(s) \/ HwRetire(s)) /\ UNCHANGED HwVars

-----------------------------------------------------------------------------

Init ==
    /\ pc = [a \in Threads \cup {"irq"} |-> "idle"]
    /\ cur = [t \in Threads |-> [id |-> NoCb, kind |-> "async", pid |-> "OUT",
                                 size |-> 0, offset |-> 0, slot |-> 0]]
    /\ mutex = NoThread
    \* the constructor has reset the controller, enabled interrupts and
    \* resumed it, with no schedule enabled yet
    /\ cmdRun = TRUE /\ halted = FALSE
    /\ sched = {} /\ asyncLP = -1
    /\ bitmap = {}
    /\ qh = [s \in Slots |-> ZeroQH]
    /\ td = [s \in Slots |-> ZeroTD]
    /\ freeCnt = [u \in Units |-> 1]
    /\ pool = [u \in Units |-> IF u = FrameAliasUnit THEN FrameTag ELSE 0]
    /\ stsInt = FALSE /\ scanIdx = 0
    /\ nextId = 1 /\ fatal = FALSE
    /\ kindOf = [t \in Transfers |-> "none"]
    /\ polls = [t \in Transfers |-> 0]
    /\ hwDone = [t \in Transfers |-> FALSE]
    /\ hwRet = [t \in Transfers |-> 0]
    /\ cbCount = [t \in Transfers |-> 0]
    /\ lastCb = [t \in Transfers |-> 0]
    /\ sentData = [t \in Transfers |-> {}]
    /\ gotData = [t \in Transfers |-> {}]

Next ==
    \/ \E t \in Threads : Submit(t) \/ ThreadStep(t)
    \/ IrqStep
    \/ Hardware

\* Threads are scheduled, the interrupt is delivered, the controller obeys
\* its run bit, and a device answers an async transfer (or it errors out).
\* Periodic polls get no fairness: an interrupt endpoint may NAK forever.
HwRetireAsync == \E s \in Slots : s = asyncLP /\ HwRetire(s) /\ UNCHANGED HwVars

Fairness ==
    /\ \A t \in Threads : WF_vars(ThreadStep(t))
    /\ WF_vars(IrqStep)
    /\ WF_vars(HcHalt /\ UNCHANGED <<td, freeCnt, pool, stsInt, polls,
                                     hwDone, hwRet, sentData, HwVars>>)
    /\ WF_vars(HcRun /\ UNCHANGED <<td, freeCnt, pool, stsInt, polls,
                                    hwDone, hwRet, sentData, HwVars>>)
    /\ SF_vars(HwRetireAsync)

Spec == Init /\ [][Next]_vars /\ Fairness

-----------------------------------------------------------------------------
(* Properties.                                                             *)

Labels == {"idle", "pause", "pausewait", "alloc", "slot", "qh", "td",
           "resume", "resumewait", "unlock", "wait", "scan", "ack"}
QHs == [ep : {NoCb} \cup Transfers, cb : {NoCb} \cup Transfers, buf : BOOLEAN,
        periodic : BOOLEAN, size : 0..PoolUnits, offset : Units]
TDs == [status : 0..255, nBytes : 0..PoolUnits, pid : {"OUT", "IN", "SETUP"},
        offset : Units]

TypeOK ==
    /\ pc \in [Threads \cup {"irq"} -> Labels]
    /\ mutex \in Threads \cup {NoThread}
    /\ cmdRun \in BOOLEAN /\ halted \in BOOLEAN /\ stsInt \in BOOLEAN
    /\ sched \subseteq {"async", "periodic"}
    /\ asyncLP \in Slots \cup {-1}
    /\ bitmap \subseteq Slots
    /\ qh \in [Slots -> QHs] /\ td \in [Slots -> TDs]
    /\ freeCnt \in [Units -> Nat]
    /\ pool \in [Units -> Tags]
    /\ scanIdx \in 0..NSlots
    /\ cbCount \in [Transfers -> Nat] /\ polls \in [Transfers -> 0..MaxPolls]

\* While the controller owns a qTD (Active bit set), its slot is marked in
\* m_QHBitmap and its buffer units are held by the allocator and by no other
\* owned qTD: the irq loop may only recycle a slot and a buffer the hardware
\* is done with (lines 122-138), and doAsync must not arm a slot it lost.
BusyBuffersHeld ==
    \A s \in Slots : (td[s].status & Active) # 0 =>
        /\ s \in bitmap
        /\ \A u \in Span(td[s].offset, td[s].nBytes) : freeCnt[u] = 0
        /\ \A s2 \in Slots \ {s} : (td[s2].status & Active) # 0 =>
              Span(td[s].offset, td[s].nBytes)
                \cap Span(td[s2].offset, td[s2].nBytes) = {}

\* A callback runs only for a transfer whose qTD the controller retired
\* since it was last reaped, and it is handed the byte count or error the
\* controller wrote back (the ret of line 125).
CallbackReportsHardware ==
    [][\A t \in Transfers :
         cbCount'[t] # cbCount[t] => hwDone[t] /\ lastCb'[t] = hwRet[t]]_vars

\* The bytes the controller sends for an OUT/SETUP transfer are the ones its
\* caller passed (staged at line 197), and the bytes copied back to an IN
\* caller's buffer (line 127) are the ones its device returned.
DataIntact ==
    \A t \in Transfers : sentData[t] \subseteq {t} /\ gotData[t] \subseteq {t}

\* Software arms a qTD or rewrites a QH only while the controller is halted:
\* pause() brackets every descriptor edit of doAsync,
\* addInterruptInHandler and the irq re-arm.
EditWhileHalted ==
    [][(qh' # qh \/ \E s \in Slots : td'[s] # td[s] /\ td'[s].status = Active)
         => halted]_vars

\* Every doAsync eventually has its callback invoked (spec 4.4 guarantee).
AsyncCallbackEventually ==
    \A t \in Transfers : kindOf[t] = "async" ~> cbCount[t] > 0

\* A retired poll of a registered interrupt-IN transfer is eventually
\* re-armed by the irq handler (lines 140-151).
PeriodicRearmed ==
    \A s \in Slots :
        (s \in bitmap /\ qh[s].periodic /\ td[s].status # Active)
            ~> td[s].status = Active

\* Every armed one-shot QH in use is on the async schedule: doAsync makes
\* each QH a ring of one (line 209) and points EHCI_ASYNCLP at it (line 249).
AsyncQueued ==
    \A s \in bitmap : ~qh[s].periodic /\ td[s].status = Active => s = asyncLP

\* An armed interrupt-IN QH in use is designated by the hardware's periodic
\* frame list, as addInterruptInHandler intends at line 285.
PeriodicScheduled ==
    \A s \in bitmap : qh[s].periodic /\ td[s].status = Active
        => s \in FrameListHits

=============================================================================
