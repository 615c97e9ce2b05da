------------------------------ MODULE GPTimer ------------------------------
(***************************************************************************)
(* The Beagle board's general-purpose timer, GPTimer.cc, on the board's   *)
(* single Cortex-A8 core.  Kernel threads call registerHandler,           *)
(* unregisterHandler, addAlarm and removeAlarm without any lock; the      *)
(* timer interrupt preempts them, counts a tick and calls every handler   *)
(* in m_Handlers, and is not itself preempted.  The handler scans are one *)
(* step per slot test and one per write, since a thread may be preempted  *)
(* between them.  The alarm list is used by one thread, one step per     *)
(* call.  getTickCount (in GPTimer.h, not in the repository) is taken to  *)
(* return m_TickCount.                                                    *)
(***************************************************************************)
EXTENDS Naturals, Sequences, SequencesExt, FiniteSets

CONSTANTS
    Registrars,   \* threads registering and unregistering timer handlers
    Handlers,     \* TimerHandler objects
    NoHandler,    \* the null TimerHandler*
    MaxHandlers,  \* MAX_TIMER_HANDLERS (GPTimer.h)
    Events,       \* Event objects alarms are set for
    AlarmArgs,    \* the (alarmSecs, alarmUsecs) arguments of addAlarm
    Bases,        \* the MMIO base initialise is called with
    MaxTicks,     \* timer interrupts at most (bounds the model)
    MaxAlarms     \* alarms pending at most (bounds the model)

ASSUME NoHandler \notin Handlers /\ AlarmArgs \subseteq [secs : Nat, usecs : Nat]

Slots == 0..(MaxHandlers - 1)

VARIABLES
    initState,  \* "none", "failed" or "done": initialise() has run
    irqOn,      \* registerInterruptHandler was called (line 132)
    handlers,   \* m_Handlers
    rpc,        \* per registrar: "idle", "rtest", "rset", "utest", "uclr"
    slot,       \* per registrar: nHandler
    hnd,        \* per registrar: the handler argument
    regd,       \* handlers whose registerHandler returned true, not since
                \* unregistered
    ticks,      \* m_TickCount
    calls,      \* per handler: the timer() calls it has received
    alarms,     \* m_Alarms: records [ev, time, setAt]; setAt is history
    lastRet     \* what the last removeAlarm(pEvent, bRetZero) returned

vars == <<initState, irqOn, handlers, rpc, slot, hnd, regd, ticks, calls,
          alarms, lastRet>>

regVars == <<handlers, rpc, slot, hnd, regd>>

-----------------------------------------------------------------------------

\* Lines 94-130: the interrupt line of each timer base; 0 for any other.
IrqTable ==
    (\h48318000 :> 37) @@ (\h49032000 :> 38) @@ (\h49034000 :> 39)
    @@ (\h49036000 :> 40) @@ (\h49038000 :> 41) @@ (\h4903A000 :> 42)
    @@ (\h4903C000 :> 43) @@ (\h4903E000 :> 44) @@ (\h49040000 :> 45)
    @@ (\h48086000 :> 46) @@ (\h48088000 :> 47)
IrqOf(base) == IF base \in DOMAIN IrqTable THEN IrqTable[base] ELSE 0

\* initialise(base), lines 54-140, called once by ArmBeagle::initialise.
\* allocateRegion may fail (line 57), and initialise returns at once.
Initialise ==
    /\ initState = "none"
    /\ \E base \in Bases, mapped \in BOOLEAN :
         IF ~mapped
         THEN initState' = "failed" /\ UNCHANGED irqOn
         ELSE initState' = "done" /\ irqOn' = (IrqOf(base) # 0)
    /\ UNCHANGED <<regVars, ticks, calls, alarms, lastRet>>

\* registerHandler(handler), lines 142-157: the call.  A caller registers
\* a handler it has not registered yet.
RegCall(t, h) ==
    /\ rpc[t] = "idle" /\ h \notin regd
    /\ \A u \in Registrars : rpc[u] = "idle" \/ hnd[u] # h
    /\ rpc' = [rpc EXCEPT ![t] = "rtest"]
    /\ slot' = [slot EXCEPT ![t] = 0]
    /\ hnd' = [hnd EXCEPT ![t] = h]
    /\ UNCHANGED <<handlers, regd, initState, irqOn, ticks, calls, alarms, lastRet>>

\* Lines 146-148 and 156: test one slot, or return false past the last.
RegTest(t) ==
    /\ rpc[t] = "rtest"
    /\ CASE slot[t] = MaxHandlers -> rpc' = [rpc EXCEPT ![t] = "idle"]
                                     /\ UNCHANGED slot
         [] handlers[slot[t]] = NoHandler -> rpc' = [rpc EXCEPT ![t] = "rset"]
                                            /\ UNCHANGED slot
         [] OTHER -> slot' = [slot EXCEPT ![t] = @ + 1] /\ UNCHANGED rpc
    /\ UNCHANGED <<handlers, hnd, regd, initState, irqOn, ticks, calls, alarms, lastRet>>

\* Line 151: where registerHandler goes once the handler is stored.
AfterSetContinue == "rtest"
AfterSet == "idle"

\* Lines 150-151: store the handler and return true.
RegSet(t) ==
    /\ rpc[t] = "rset"
    /\ handlers' = [handlers EXCEPT ![slot[t]] = hnd[t]]
    /\ regd' = regd \cup {hnd[t]}
    /\ rpc' = [rpc EXCEPT ![t] = AfterSet]
    /\ UNCHANGED <<slot, hnd, initState, irqOn, ticks, calls, alarms, lastRet>>

\* unregisterHandler(handler), lines 159-171: the call, for a handler the
\* caller registered.
UnregCall(t, h) ==
    /\ rpc[t] = "idle" /\ h \in regd
    /\ \A u \in Registrars : rpc[u] = "idle" \/ hnd[u] # h
    /\ rpc' = [rpc EXCEPT ![t] = "utest"]
    /\ slot' = [slot EXCEPT ![t] = 0]
    /\ hnd' = [hnd EXCEPT ![t] = h]
    /\ UNCHANGED <<handlers, regd, initState, irqOn, ticks, calls, alarms, lastRet>>

\* Lines 162-164 and 170: test one slot, or return false past the last.
UnregTest(t) ==
    /\ rpc[t] = "utest"
    /\ CASE slot[t] = MaxHandlers -> rpc' = [rpc EXCEPT ![t] = "idle"]
                                     /\ UNCHANGED slot
         [] handlers[slot[t]] = hnd[t] -> rpc' = [rpc EXCEPT ![t] = "uclr"]
                                         /\ UNCHANGED slot
         [] OTHER -> slot' = [slot EXCEPT ![t] = @ + 1] /\ UNCHANGED rpc
    /\ UNCHANGED <<handlers, hnd, regd, initState, irqOn, ticks, calls, alarms, lastRet>>

\* Lines 166-167: clear the slot and return true.
UnregClear(t) ==
    /\ rpc[t] = "uclr"
    /\ handlers' = [handlers EXCEPT ![slot[t]] = NoHandler]
    /\ regd' = regd \ {hnd[t]}
    /\ rpc' = [rpc EXCEPT ![t] = "idle"]
    /\ UNCHANGED <<slot, hnd, initState, irqOn, ticks, calls, alarms, lastRet>>

\* interrupt(), lines 235-249: count the tick, then call timer() on every
\* occupied slot.
Interrupt ==
    /\ irqOn /\ ticks < MaxTicks
    /\ ticks' = ticks + 1
    /\ calls' = [h \in Handlers |->
                   calls[h] + Cardinality({i \in Slots : handlers[i] = h})]
    /\ UNCHANGED <<regVars, initState, irqOn, alarms, lastRet>>

\* Line 176: the alarm's end time.
AlarmEnd(secs, usecs) == secs * 1000000 + usecs + ticks

\* addAlarm(pEvent, alarmSecs, alarmUsecs), lines 173-180.
AddAlarm(e, a) ==
    /\ Len(alarms) < MaxAlarms
    /\ alarms' = Append(alarms, [ev |-> e, time |-> AlarmEnd(a.secs, a.usecs),
                                 setAt |-> ticks])
    /\ UNCHANGED <<regVars, initState, irqOn, ticks, calls, lastRet>>

\* The position of the first alarm for event e, 0 if none (lines 185-189).
FirstFor(e) == SelectInSeq(alarms, LAMBDA al : al.ev = e)

\* removeAlarm(pEvent), lines 182-196: erase the first alarm for it.
RemoveAlarm(e) ==
    /\ alarms' = IF FirstFor(e) = 0 THEN alarms ELSE RemoveAt(alarms, FirstFor(e))
    /\ UNCHANGED <<regVars, initState, irqOn, ticks, calls, lastRet>>

\* Lines 212-221: what is left of an alarm ending at time, at tick now.
Remaining(time, now) == IF time < now THEN 0 ELSE (time - now) \div 1000 + 1

\* removeAlarm(pEvent, bRetZero), lines 198-233.
RemoveAlarmRet(e, bRetZero) ==
    /\ lastRet' = IF FirstFor(e) = 0 \/ bRetZero THEN 0
                  ELSE Remaining(alarms[FirstFor(e)].time, ticks)
    /\ alarms' = IF FirstFor(e) = 0 THEN alarms ELSE RemoveAt(alarms, FirstFor(e))
    /\ UNCHANGED <<regVars, initState, irqOn, ticks, calls>>

\* The object as constructed: every slot empty, no tick, no alarm.
Init ==
    /\ initState = "none" /\ irqOn = FALSE
    /\ handlers = [i \in Slots |-> NoHandler]
    /\ rpc = [t \in Registrars |-> "idle"]
    /\ slot = [t \in Registrars |-> 0]
    /\ hnd = [t \in Registrars |-> NoHandler]
    /\ regd = {}
    /\ ticks = 0 /\ calls = [h \in Handlers |-> 0]
    /\ alarms = <<>> /\ lastRet = 0

Next ==
    \/ Initialise \/ Interrupt
    \/ \E t \in Registrars :
          \/ \E h \in Handlers : RegCall(t, h) \/ UnregCall(t, h)
          \/ RegTest(t) \/ RegSet(t) \/ UnregTest(t) \/ UnregClear(t)
    \/ \E e \in Events :
          \/ \E a \in AlarmArgs : AddAlarm(e, a)
          \/ RemoveAlarm(e)
          \/ \E bRetZero \in BOOLEAN : RemoveAlarmRet(e, bRetZero)

Spec == Init /\ [][Next]_vars

-----------------------------------------------------------------------------
(* Properties.                                                             *)

\* A handler for which registerHandler returned true, and unregisterHandler
\* has not, sits in exactly one slot of m_Handlers, so interrupt() calls
\* it once per tick; any other handler sits in none.  Threads preempted
\* between the slot test (line 148) and the store (line 150) must not
\* lose or duplicate a registration.
RegisteredOnce ==
    \A h \in Handlers :
        Cardinality({i \in Slots : handlers[i] = h}) = IF h \in regd THEN 1 ELSE 0

=============================================================================
