---------------------------- MODULE UnlikelyLock ----------------------------
(***************************************************************************)
(* UnlikelyLock.h: any number of threads may be inside the critical        *)
(* section at once (enter/leave); acquire() locks everyone out and waits   *)
(* for those inside to leave.  m_Atomic counts 1 plus the threads inside;  *)
(* m_Lock is the secondary lock.  Each thread runs on a CPU of its own:    *)
(* Processor::setInterrupts masks only the local CPU, so it orders nothing *)
(* between threads and is kept only as the per-thread flag intr.  Every    *)
(* access to m_Atomic or m_Lock is one atomic step.                        *)
(***************************************************************************)
EXTENDS Integers, FiniteSets

CONSTANTS
    Entrants,   \* threads calling enter() and, on success, leave()
    Acquirers,  \* threads calling acquire() and then release()
    Width       \* bits of size_t (m_Atomic is an Atomic<size_t>)

ASSUME Entrants \cap Acquirers = {} /\ Width \in Nat \ {0}

Threads == Entrants \cup Acquirers
Modulus == 2^Width

VARIABLES
    atomic,  \* m_Atomic
    lock,    \* m_Lock
    pc,      \* per thread: where it is in the calls below
    v,       \* per entrant: the value enter() read from m_Atomic
    intr     \* per thread: its CPU's interrupt-enable flag

vars == <<atomic, lock, pc, v, intr>>

-----------------------------------------------------------------------------

\* size_t arithmetic on m_Atomic.
Wrap(x) == x % Modulus

Goto(t, l) == pc' = [pc EXCEPT ![t] = l]

\* enter(), lines 49-56: mask interrupts, then test m_Lock.  The test is
\* `m_Lock == false`, and that branch leaves interrupts masked (line 54).
EnterCheck(t) ==
    /\ pc[t] = "idle"
    /\ intr' = [intr EXCEPT ![t] = FALSE]
    /\ IF lock = FALSE THEN UNCHANGED pc ELSE Goto(t, "read")
    /\ UNCHANGED <<atomic, lock, v>>

\* Line 62: the read value admits the thread unless it is zero.
AdmitsAll(x) == TRUE
Admits(x) == x # 0

\* Lines 60-66: read m_Atomic; zero means locked, and enter() fails with
\* interrupts enabled again.
EnterRead(t) ==
    /\ pc[t] = "read"
    /\ v' = [v EXCEPT ![t] = atomic]
    /\ IF Admits(atomic)
       THEN Goto(t, "cas") /\ UNCHANGED intr
       ELSE Goto(t, "idle") /\ intr' = [intr EXCEPT ![t] = TRUE]
    /\ UNCHANGED <<atomic, lock>>

\* Line 67: m_Atomic.compareAndSwap(v, v+1).  The `v` of the loop condition
\* is the one declared in the loop body; the header names it out of scope,
\* and this is the only reading under which it compiles to a loop.
CasSucceedsAlways(x, old) == TRUE
CasSucceeds(x, old) == x = old

EnterCas(t) ==
    /\ pc[t] = "cas"
    /\ IF CasSucceeds(atomic, v[t])
       THEN atomic' = Wrap(v[t] + 1) /\ Goto(t, "inside")
       ELSE UNCHANGED atomic /\ Goto(t, "read")
    /\ UNCHANGED <<lock, v, intr>>

\* leave(), lines 74-76.
Leave(t) ==
    /\ pc[t] = "inside"
    /\ atomic' = Wrap(atomic - 1)
    /\ intr' = [intr EXCEPT ![t] = TRUE]
    /\ Goto(t, "idle")
    /\ UNCHANGED <<lock, v>>

\* acquire(), line 83: m_Lock.compareAndSwap(false, true); a failed swap
\* (m_Lock already true) is ignored.
AcqLock(a) ==
    /\ pc[a] = "idle"
    /\ lock' = TRUE
    /\ Goto(a, "dec")
    /\ UNCHANGED <<atomic, v, intr>>

\* Line 85: the acquirer gives up the unit the counter starts with.
TakeUnit(x) == Wrap(x - 1)

AcqDec(a) ==
    /\ pc[a] = "dec"
    /\ atomic' = TakeUnit(atomic)
    /\ Goto(a, "spin")
    /\ UNCHANGED <<lock, v, intr>>

\* Lines 86-87: spin until m_Atomic reads zero.  A read of a non-zero value
\* changes nothing, so only the exit is a step.
AcqSpin(a) ==
    /\ pc[a] = "spin" /\ atomic = 0
    /\ Goto(a, "locked")
    /\ UNCHANGED <<atomic, lock, v, intr>>

\* release(), line 93: give the unit back.
Release1(a) ==
    /\ pc[a] = "locked"
    /\ atomic' = Wrap(atomic + 1)
    /\ Goto(a, "rel")
    /\ UNCHANGED <<lock, v, intr>>

\* Line 95: clear the secondary lock.
Release2(a) ==
    /\ pc[a] = "rel"
    /\ lock' = FALSE
    /\ Goto(a, "idle")
    /\ UNCHANGED <<atomic, v, intr>>

\* The constructor is declared (line 39) but defined nowhere in the
\* repository; the class comment says the counter starts at 1, and m_Lock's
\* initial value is left open.
Init ==
    /\ atomic = 1
    /\ lock \in BOOLEAN
    /\ pc = [t \in Threads |-> "idle"]
    /\ v = [t \in Entrants |-> 0]
    /\ intr = [t \in Threads |-> TRUE]

Next ==
    \/ \E t \in Entrants : EnterCheck(t) \/ EnterRead(t) \/ EnterCas(t) \/ Leave(t)
    \/ \E a \in Acquirers : AcqLock(a) \/ AcqDec(a) \/ AcqSpin(a)
                           \/ Release1(a) \/ Release2(a)

\* Calls are the callers' choice; a thread inside a call keeps running, an
\* entrant leaves the section it entered, and the lock's holder releases
\* it.  The spinning acquirer reads m_Atomic continually, so it sees a zero
\* that recurs: strong fairness.
Fairness ==
    /\ \A t \in Entrants : WF_vars(EnterRead(t) \/ EnterCas(t) \/ Leave(t))
    /\ \A a \in Acquirers : WF_vars(AcqDec(a) \/ Release1(a) \/ Release2(a))
    /\ \A a \in Acquirers : SF_vars(AcqSpin(a))

Spec == Init /\ [][Next]_vars /\ Fairness

-----------------------------------------------------------------------------
(* Properties.                                                             *)

Inside == {t \in Entrants : pc[t] = "inside"}
Holding == {a \in Acquirers : pc[a] \in {"spin", "locked"}}

\* Once acquire() has returned, no thread is inside the critical section
\* until release(): "Will not return until all other threads have exited
\* the critical region" (lines 79-80), and enter() fails while locked.
LockExcludes == \A a \in Acquirers : pc[a] = "locked" => Inside = {}

\* m_Atomic is always 1, plus one for each thread enter() admitted and
\* leave() has not yet let out, minus one for each acquirer between its
\* decrement (line 85) and its release (line 93): the compare-and-swap of
\* line 67 loses no increment to a concurrent enter() or leave().
CounterTracksEntries ==
    atomic = Wrap(1 + Cardinality(Inside) - Cardinality(Holding))

\* An acquire() that has started returns: the secondary lock m_Lock exists
\* "to stop possible starvation of an acquire() call when it is innundated
\* with enter() calls" (lines 33-34).
AcquireEventually == \A a \in Acquirers : pc[a] = "dec" ~> pc[a] = "locked"

\* A thread that enter() turned away runs with interrupts enabled again, as
\* the failure path of line 64 leaves it; only a successful enter() keeps
\* them masked until leave().
InterruptsRestored == \A t \in Entrants : pc[t] = "idle" => intr[t]

=============================================================================
