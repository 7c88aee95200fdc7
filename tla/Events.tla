------------------------------- MODULE Events -------------------------------
(***************************************************************************)
(* The event scheduler of UAE/events.c: a cycle counter that wraps at      *)
(* 2^32, a table of slots (ev_cia, ev_blitter) with an absolute due time,  *)
(* and nextevent, the time of the earliest one.  The CIA process advances  *)
(* the counter in chunks (do_cycles_slow); the slots' owners arm and       *)
(* cancel them from handlers and from register writes.                     *)
(*                                                                         *)
(* What a handler decides is left open here: it re-arms its slot with one  *)
(* of the delays in Rearm or leaves it off.  Cia.tla decides it for        *)
(* ev_cia.  Every action is what one caller does between taking and        *)
(* releasing event_mx; ChipTasks.tla looks inside.                         *)
(***************************************************************************)
EXTENDS Integers

CONSTANTS
  Slots,     \* event slots in use: ev_cia, ev_blitter
  Modulus,   \* the counter wraps here (2^32 in the code)
  MaxChunk,  \* most cycles one call of do_cycles_slow adds
  ArmDelays, \* [Slots -> set of delays a register write arms the slot with]
  Rearm,     \* [Slots -> set of delays the slot's own handler re-arms it with]
  Polled     \* slots whose handler a register write may run early (maybe_blit)

Delay == 1..(Modulus - 1)
Counter == 0..(Modulus - 1)

ASSUME EventsAssumption ==
  /\ Modulus \in Nat /\ MaxChunk \in Nat
  /\ 0 < MaxChunk /\ MaxChunk < Modulus
  /\ Polled \subseteq Slots
  /\ ArmDelays \in [Slots -> SUBSET Delay]
  /\ Rearm \in [Slots -> SUBSET Delay]

VARIABLES
  cycles,     \* uint32_t cycles
  nextevent,  \* uint32_t nextevent
  active,     \* eventtab[s].active
  evtime,     \* eventtab[s].evtime
  polled      \* history: slots maybe_blit has run since the last events_schedule

vars == <<cycles, nextevent, active, evtime, polled>>

\* uint32_t arithmetic on two counter values.
Plus(a, b)  == IF a + b < Modulus THEN a + b ELSE a + b - Modulus
Minus(a, b) == IF b <= a THEN a - b ELSE a + Modulus - b

\* Handlers answer with a delay, or with Off: the slot is not re-armed.
Off == 0
Answers == (UNION {Rearm[s] : s \in Slots}) \cup {Off}

\* Mutant: due times are compared without wrapping, so one that lies beyond
\* the wrap does not count.
DistancesUnwrapped(act, evt, now) ==
  {Modulus - 1} \cup {evt[s] - now : s \in {t \in Slots : act[t] /\ evt[t] >= now}}

(***************************************************************************)
(* events_schedule: nextevent is the smallest distance of an active slot,  *)
(* or ~0 (one before now) when none is active.                             *)
(***************************************************************************)
Distances(act, evt, now) ==
  {Modulus - 1} \cup {Minus(evt[s], now) : s \in {t \in Slots : act[t]}}

EventsSchedule(act, evt, now) ==
  \E mintime \in Distances(act, evt, now) :
    /\ \A d \in Distances(act, evt, now) : mintime <= d
    /\ nextevent' = Plus(now, mintime)
    /\ polled' = {}

\* init_eventtab on the zero-initialised counter.
Init ==
  /\ cycles = 0
  /\ nextevent = Modulus - 1
  /\ active = [s \in Slots |-> FALSE]
  /\ evtime = [s \in Slots |-> 0]
  /\ polled = {}

(***************************************************************************)
(* A register write arms or cancels a slot and reschedules: CIA_calctimers *)
(* and do_blitter.                                                         *)
(***************************************************************************)
Arm(s, d) ==
  /\ active' = [active EXCEPT ![s] = TRUE]
  /\ evtime' = [evtime EXCEPT ![s] = Plus(cycles, d)]
  /\ EventsSchedule(active', evtime', cycles)
  /\ UNCHANGED cycles

Cancel(s) ==
  /\ active' = [active EXCEPT ![s] = FALSE]
  /\ EventsSchedule(active', evtime, cycles)
  /\ UNCHANGED <<cycles, evtime>>

\* Mutant: the delay is counted from the start of the chunk (cycles is only
\* advanced after the handlers).
HandlersRunFromChunkStart(due, at, answer) ==
  /\ \A s \in due : answer[s] \in Rearm[s] \cup {Off}
  /\ active' = [s \in Slots |-> IF s \in due THEN answer[s] # Off ELSE active[s]]
  /\ evtime' = [s \in Slots |-> IF s \in due /\ answer[s] # Off
                                THEN Plus(cycles, answer[s]) ELSE evtime[s]]

\* Effect of the handlers of the slots in due, run at time at: answer[s] is
\* the delay the handler of s re-arms it with, or Off.
HandlersRun(due, at, answer) ==
  /\ \A s \in due : answer[s] \in Rearm[s] \cup {Off}
  /\ active' = [s \in Slots |-> IF s \in due THEN answer[s] # Off ELSE active[s]]
  /\ evtime' = [s \in Slots |-> IF s \in due /\ answer[s] # Off
                                THEN Plus(at, answer[s]) ELSE evtime[s]]

\* maybe_blit: a register write runs the handler before the event is due, also
\* of a slot that is not armed, and does not reschedule.
RunEarly(s) ==
  /\ s \in Polled
  /\ \E d \in Rearm[s] \cup {Off} : HandlersRun({s}, cycles, [t \in Slots |-> d])
  /\ polled' = polled \cup {s}
  /\ UNCHANGED <<cycles, nextevent>>

\* Mutant: the chunk may end one cycle behind nextevent without stopping.
RunOutTooFar(n) ==
  /\ n <= Minus(nextevent, cycles) + 1
  /\ cycles' = Plus(cycles, n)
  /\ UNCHANGED <<active, evtime>>
  /\ EventsSchedule(active, evtime, cycles')

(***************************************************************************)
(* do_cycles_slow(n).  The chunk stops at most once, at nextevent, and     *)
(* only if nextevent lies strictly inside it; the handlers of the slots    *)
(* due at exactly that cycle run there, and the rest of the chunk is added *)
(* without looking at what they armed.                                     *)
(***************************************************************************)
RunOut(n) ==
  /\ n <= Minus(nextevent, cycles)
  /\ cycles' = Plus(cycles, n)
  /\ UNCHANGED <<active, evtime>>
  /\ EventsSchedule(active, evtime, cycles')

StopOnce(n) ==
  /\ n > Minus(nextevent, cycles)
  /\ LET due == {s \in Slots : active[s] /\ evtime[s] = nextevent}
     IN  \E answer \in [Slots -> Answers] :
           HandlersRun(due, nextevent, answer)
  /\ cycles' = Plus(cycles, n)
  /\ EventsSchedule(active', evtime', cycles')

DoCycles(n) == RunOut(n) \/ StopOnce(n)

Next ==
  \/ \E s \in Slots : \E d \in ArmDelays[s] : Arm(s, d)
  \/ \E s \in Slots : Cancel(s)
  \/ \E s \in Slots : RunEarly(s)
  \/ \E n \in 1..MaxChunk : DoCycles(n)

Spec == Init /\ [][Next]_vars

-----------------------------------------------------------------------------
TypeOK ==
  /\ cycles \in Counter
  /\ nextevent \in Counter
  /\ active \in [Slots -> BOOLEAN]
  /\ evtime \in [Slots -> Counter]
  /\ polled \subseteq Slots

Left(s) == Minus(evtime[s], cycles)

\* Between two calls nextevent is never later than the due time of an armed
\* slot, unless maybe_blit ran its handler since nextevent was last set: the
\* delay a blit is put off by there is not looked at.
NextNotLate ==
  \A s \in Slots :
    active[s] /\ s \notin polled => Minus(nextevent, cycles) <= Left(s)

\* The step adds more cycles than s has left, and leaves it armed as it was: its
\* due time now lies behind the counter, a whole turn of it away.
PassedBy(s) ==
  /\ active[s] /\ active'[s] /\ evtime'[s] = evtime[s]
  /\ Left(s) < Minus(cycles', cycles)

\* do_cycles_slow passes an armed slot's due time without running its handler for
\* two reasons only, whatever the delays and however late the process: the chunk
\* stopped before it, and stops once; or maybe_blit put it off, and nextevent was
\* set before that.
PassedForAReason ==
  [][\A s \in Slots :
       PassedBy(s) => Minus(nextevent, cycles) < Left(s) \/ s \in polled]_vars

\* The only slot does not stay armed for the same cycle for ever: the process
\* reaches it, if need be a whole turn of the counter later.  (Of two slots one may
\* be passed again and again, behind the stops for the other.)
EveryAlarmRings ==
  \A s \in Slots : \A t \in Counter : ~<>[](active[s] /\ evtime[s] = t)

\* The scheduler implements the promise of Countdown.tla: which of the slots due in
\* a chunk are answered, at exactly which cycle, and which wait for another turn.
Promised == INSTANCE Countdown
              WITH clock <- cycles,
                   left <- [s \in Slots |-> IF active[s] THEN Left(s) ELSE -1]
KeepsPromise == Promised!Spec
=============================================================================
