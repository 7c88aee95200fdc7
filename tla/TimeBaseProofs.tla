--------------------------- MODULE TimeBaseProofs ---------------------------
(* Theorems about Events.tla, for every counter width, chunk and delay, and *)
(* about Process.tla, which extends it, for every speed and accuracy too.   *)
EXTENDS Process, TLAPS

-----------------------------------------------------------------------------
(***************************************************************************)
(* The event table: Events.                                                *)
(***************************************************************************)

(***************************************************************************)
(* The counter's arithmetic.                                               *)
(***************************************************************************)
LEMMA PlusInCounter ==
  ASSUME NEW a \in Counter, NEW d \in Counter
  PROVE  Plus(a, d) \in Counter /\ Minus(Plus(a, d), a) = d
BY EventsAssumption DEF Counter, Plus, Minus

LEMMA MinusInCounter ==
  ASSUME NEW a \in Counter, NEW b \in Counter
  PROVE  Minus(a, b) \in Counter /\ Plus(b, Minus(a, b)) = a
BY EventsAssumption DEF Counter, Plus, Minus

\* The distance to a fixed time after n cycles have passed.
LEMMA MinusAfter ==
  ASSUME NEW t \in Counter, NEW now \in Counter, NEW n \in Counter
  PROVE  Minus(t, Plus(now, n)) = IF n <= Minus(t, now)
                                  THEN Minus(t, now) - n
                                  ELSE Minus(t, now) - n + Modulus
BY EventsAssumption DEF Counter, Plus, Minus

LEMMA DelayInCounter == Delay \subseteq Counter /\ 1..MaxChunk \subseteq Counter
BY EventsAssumption DEF Delay, Counter

-----------------------------------------------------------------------------
(***************************************************************************)
(* What events_schedule leaves in nextevent, whoever calls it.             *)
(***************************************************************************)
LEMMA ScheduleResult ==
  ASSUME NEW act \in [Slots -> BOOLEAN], NEW evt \in [Slots -> Counter],
         NEW now \in Counter, EventsSchedule(act, evt, now)
  PROVE  /\ nextevent' \in Counter
         /\ Minus(nextevent', now) \in Distances(act, evt, now)
         /\ \A s \in Slots : act[s] => Minus(nextevent', now) <= Minus(evt[s], now)
         /\ polled' = {}
<1>1. PICK m \in Distances(act, evt, now) :
        /\ \A d \in Distances(act, evt, now) : m <= d
        /\ nextevent' = Plus(now, m)
  BY DEF EventsSchedule
<1>2. m \in Counter
  <2>1. Modulus - 1 \in Counter
    BY EventsAssumption DEF Counter
  <2>2. \A s \in Slots : Minus(evt[s], now) \in Counter
    BY MinusInCounter
  <2>3. QED
    BY <2>1, <2>2 DEF Distances
<1>3. nextevent' \in Counter /\ Minus(nextevent', now) = m
  BY <1>1, <1>2, PlusInCounter
<1>4. \A s \in Slots : act[s] => Minus(evt[s], now) \in Distances(act, evt, now)
  BY DEF Distances
<1>5. QED
  BY <1>1, <1>3, <1>4 DEF EventsSchedule

\* The table after the handlers have run is again a table of due times, and
\* an untouched slot keeps its entry.
LEMMA HandlersResult ==
  ASSUME TypeOK, NEW due \in SUBSET Slots, NEW at \in Counter,
         NEW answer \in [Slots -> Answers],
         HandlersRun(due, at, answer)
  PROVE  /\ active' \in [Slots -> BOOLEAN]
         /\ evtime' \in [Slots -> Counter]
         /\ \A s \in Slots \ due : active'[s] = active[s] /\ evtime'[s] = evtime[s]
         /\ \A s \in due : active'[s] => /\ answer[s] \in Rearm[s]
                                         /\ evtime'[s] = Plus(at, answer[s])
<1>1. \A s \in Slots : answer[s] # Off => Plus(at, answer[s]) \in Counter
  BY PlusInCounter, DelayInCounter, EventsAssumption DEF Answers
<1>2. QED
  BY <1>1 DEF HandlersRun, TypeOK

-----------------------------------------------------------------------------
(***************************************************************************)
(* Type correctness: in particular the counter and every due time stay     *)
(* inside the counter's range whatever is armed when.                      *)
(***************************************************************************)
LEMMA TypeStep == TypeOK /\ [Next]_vars => TypeOK'
<1> SUFFICES ASSUME TypeOK, [Next]_vars PROVE TypeOK'
  OBVIOUS
<1>1. ASSUME NEW s \in Slots, NEW d \in ArmDelays[s], Arm(s, d) PROVE TypeOK'
  <2>1. Plus(cycles, d) \in Counter
    BY PlusInCounter, DelayInCounter, EventsAssumption DEF TypeOK
  <2>2. active' \in [Slots -> BOOLEAN] /\ evtime' \in [Slots -> Counter]
    BY <1>1, <2>1 DEF Arm, TypeOK
  <2>3. QED
    BY <1>1, <2>2, ScheduleResult DEF Arm, TypeOK
<1>2. ASSUME NEW s \in Slots, Cancel(s) PROVE TypeOK'
  <2>1. active' \in [Slots -> BOOLEAN]
    BY <1>2 DEF Cancel, TypeOK
  <2>2. QED
    BY <1>2, <2>1, ScheduleResult DEF Cancel, TypeOK
<1>3. ASSUME NEW s \in Slots, RunEarly(s) PROVE TypeOK'
  <2>1. PICK d \in Rearm[s] \cup {Off} : HandlersRun({s}, cycles, [t \in Slots |-> d])
    BY <1>3 DEF RunEarly
  <2>2. [t \in Slots |-> d] \in [Slots -> Answers] /\ {s} \in SUBSET Slots
    BY <2>1 DEF Answers
  <2>3. active' \in [Slots -> BOOLEAN] /\ evtime' \in [Slots -> Counter]
    BY <2>1, <2>2, HandlersResult DEF TypeOK
  <2>4. QED
    BY <1>3, <2>3 DEF RunEarly, TypeOK
<1>4. ASSUME NEW n \in 1..MaxChunk, RunOut(n) PROVE TypeOK'
  <2>1. cycles' \in Counter
    BY <1>4, PlusInCounter, DelayInCounter DEF RunOut, TypeOK
  <2>2. QED
    BY <1>4, <2>1, ScheduleResult DEF RunOut, TypeOK
<1>5. ASSUME NEW n \in 1..MaxChunk, StopOnce(n) PROVE TypeOK'
  <2>1. cycles' \in Counter
    BY <1>5, PlusInCounter, DelayInCounter DEF StopOnce, TypeOK
  <2>2. active' \in [Slots -> BOOLEAN] /\ evtime' \in [Slots -> Counter]
    BY <1>5, HandlersResult DEF StopOnce, TypeOK
  <2>3. QED
    BY <1>5, <2>1, <2>2, ScheduleResult DEF StopOnce, TypeOK
<1>6. CASE UNCHANGED vars
  BY <1>6 DEF vars, TypeOK
<1>7. QED
  BY <1>1, <1>2, <1>3, <1>4, <1>5, <1>6 DEF Next, DoCycles

THEOREM TypeCorrect == Spec => []TypeOK
<1>1. Init => TypeOK
  BY EventsAssumption DEF Init, TypeOK, Counter
<1>2. QED
  BY <1>1, TypeStep, PTL DEF Spec

-----------------------------------------------------------------------------
(***************************************************************************)
(* nextevent is never later than the due time of an armed slot that        *)
(* maybe_blit has left alone: the comparison in do_cycles_slow overlooks   *)
(* nothing else.  And while maybe_blit leaves all alone, nextevent is the  *)
(* due time of a slot, or as far away as can be.                           *)
(***************************************************************************)
NextIsDue ==
  polled = {} => \/ Minus(nextevent, cycles) = Modulus - 1
                 \/ \E s \in Slots : active[s] /\ evtime[s] = nextevent

\* Two counter values at the same distance from now are the same.
LEMMA SameDistance ==
  ASSUME NEW a \in Counter, NEW b \in Counter, NEW now \in Counter,
         Minus(a, now) = Minus(b, now)
  PROVE  a = b
BY EventsAssumption DEF Counter, Minus

LEMMA RightAfterSchedule ==
  ASSUME TypeOK', EventsSchedule(active', evtime', cycles')
  PROVE  NextNotLate' /\ NextIsDue'
<1>1. /\ active' \in [Slots -> BOOLEAN] /\ evtime' \in [Slots -> Counter]
      /\ cycles' \in Counter
  BY DEF TypeOK
<1>2. /\ nextevent' \in Counter
      /\ Minus(nextevent', cycles') \in Distances(active', evtime', cycles')
      /\ \A s \in Slots : active'[s] => Minus(nextevent', cycles') <= Minus(evtime'[s], cycles')
  BY <1>1, ScheduleResult
<1>3. NextNotLate'
  BY <1>2 DEF NextNotLate, Left
<1>4. ASSUME NEW s \in Slots, active'[s], Minus(nextevent', cycles') = Minus(evtime'[s], cycles')
      PROVE  evtime'[s] = nextevent'
  BY <1>1, <1>2, <1>4, SameDistance
<1>5. NextIsDue'
  BY <1>2, <1>4 DEF NextIsDue, Distances
<1>6. QED
  BY <1>3, <1>5

LEMMA NextStep ==
  ASSUME TypeOK, TypeOK', NextNotLate, NextIsDue, [Next]_vars
  PROVE  NextNotLate' /\ NextIsDue'
<1>1. ASSUME NEW s \in Slots, NEW d \in ArmDelays[s], Arm(s, d)
      PROVE  NextNotLate' /\ NextIsDue'
  BY <1>1, RightAfterSchedule DEF Arm
<1>2. ASSUME NEW s \in Slots, Cancel(s) PROVE NextNotLate' /\ NextIsDue'
  BY <1>2, RightAfterSchedule DEF Cancel
<1>3. ASSUME NEW s \in Slots, RunEarly(s) PROVE NextNotLate' /\ NextIsDue'
  <2>1. cycles' = cycles /\ nextevent' = nextevent /\ polled' = polled \cup {s}
    BY <1>3 DEF RunEarly
  <2>2. ASSUME NEW t \in Slots, t # s
        PROVE  active'[t] = active[t] /\ evtime'[t] = evtime[t]
    BY <1>3, <2>2 DEF RunEarly, HandlersRun
  <2>3. QED
    BY <2>1, <2>2 DEF NextNotLate, NextIsDue, Left
<1>4. ASSUME NEW n \in 1..MaxChunk, RunOut(n) PROVE NextNotLate' /\ NextIsDue'
  <2>1. EventsSchedule(active', evtime', cycles')
    BY <1>4 DEF RunOut
  <2>2. QED
    BY <2>1, RightAfterSchedule
<1>5. ASSUME NEW n \in 1..MaxChunk, StopOnce(n) PROVE NextNotLate' /\ NextIsDue'
  BY <1>5, RightAfterSchedule DEF StopOnce
<1>6. CASE UNCHANGED vars
  BY <1>6 DEF vars, NextNotLate, NextIsDue, Left
<1>7. QED
  BY <1>1, <1>2, <1>3, <1>4, <1>5, <1>6 DEF Next, DoCycles

LEMMA NextIsRight == Spec => [](NextNotLate /\ NextIsDue)
<1>1. Init => NextNotLate /\ NextIsDue
  <2>1. Init => Minus(nextevent, cycles) = Modulus - 1
    BY EventsAssumption DEF Init, Minus
  <2>2. QED
    BY <2>1 DEF Init, NextNotLate, NextIsDue
<1>2. TypeOK /\ TypeOK' /\ (NextNotLate /\ NextIsDue) /\ [Next]_vars => (NextNotLate /\ NextIsDue)'
  BY NextStep
<1>3. QED
  BY <1>1, <1>2, TypeCorrect, PTL DEF Spec

\* For any slots, any delays and chunks of any length: the comparison in
\* do_cycles_slow is never made against a time later than an armed slot's, but for a
\* slot maybe_blit has put off.
THEOREM NextNotLateHolds == Spec => []NextNotLate
BY NextIsRight, PTL

-----------------------------------------------------------------------------
(***************************************************************************)
(* A slot's due time is only ever passed behind an earlier stop of the     *)
(* same chunk, or after maybe_blit has put it off.                         *)
(***************************************************************************)
LEMMA PassedByStep ==
  ASSUME TypeOK, NextNotLate, [Next]_vars, NEW s \in Slots, PassedBy(s), s \notin polled
  PROVE  Minus(nextevent, cycles) < Left(s)
<1>0. /\ Minus(nextevent, cycles) \in Counter /\ Left(s) \in Counter
      /\ MaxChunk \in Nat /\ cycles \in Counter /\ Modulus \in Nat
  BY MinusInCounter, EventsAssumption DEF TypeOK, Left
<1>1. active[s] /\ active'[s] /\ evtime'[s] = evtime[s] /\ Left(s) < Minus(cycles', cycles)
  BY DEF PassedBy
<1>2. Minus(nextevent, cycles) <= Left(s)
  BY <1>1 DEF NextNotLate
<1>3. cycles' # cycles
  BY <1>0, <1>1, EventsAssumption DEF Minus, Counter
<1>4. PICK n \in 1..MaxChunk : DoCycles(n)
  BY <1>3 DEF Next, vars, Arm, Cancel, RunEarly
<1>5. Left(s) < n
  <2>1. cycles' = Plus(cycles, n)
    BY <1>4 DEF DoCycles, RunOut, StopOnce
  <2>2. Minus(cycles', cycles) = n
    BY <1>0, <2>1, PlusInCounter, DelayInCounter
  <2>3. QED
    BY <1>1, <2>2
<1>6. CASE RunOut(n)
  <2>1. n <= Minus(nextevent, cycles)
    BY <1>6 DEF RunOut
  <2>2. QED
    BY <2>1, <1>0, <1>2, <1>5 DEF Counter
<1>7. CASE StopOnce(n)
  <2>1. PICK answer \in [Slots -> Answers] :
          HandlersRun({t \in Slots : active[t] /\ evtime[t] = nextevent}, nextevent, answer)
    BY <1>7 DEF StopOnce
  <2>2. evtime[s] # nextevent
    <3>1. SUFFICES ASSUME evtime[s] = nextevent PROVE FALSE
      OBVIOUS
    <3>2. answer[s] \in Rearm[s] /\ evtime'[s] = Plus(nextevent, answer[s])
      BY <1>1, <2>1, <3>1 DEF HandlersRun
    <3>3. answer[s] \in Delay /\ nextevent \in Counter
      BY <3>2, EventsAssumption DEF TypeOK
    <3>4. evtime'[s] # nextevent
      BY <3>2, <3>3, EventsAssumption DEF Plus, Counter, Delay
    <3>5. QED
      BY <1>1, <3>1, <3>4
  <2>3. Minus(nextevent, cycles) # Left(s)
    BY <2>2, SameDistance DEF Left, TypeOK
  <2>4. QED
    BY <1>0, <1>2, <2>3 DEF Counter
<1>8. QED
  BY <1>4, <1>6, <1>7 DEF DoCycles

\* For any slots and delays, and however long the chunk: do_cycles_slow passes an
\* armed slot only behind its one stop, or if maybe_blit has put the slot off.
THEOREM PassedForAReasonHolds == Spec => PassedForAReason
<1>1. TypeOK /\ NextNotLate /\ [Next]_vars
        => [\A s \in Slots :
              PassedBy(s) => Minus(nextevent, cycles) < Left(s) \/ s \in polled]_vars
  BY PassedByStep
<1>2. QED
  BY <1>1, TypeCorrect, NextNotLateHolds, PTL DEF Spec, PassedForAReason

-----------------------------------------------------------------------------
(***************************************************************************)
(* The scheduler implements Countdown: whatever the delays and the sizes   *)
(* of the chunks, and wherever the counter wraps.                          *)
(***************************************************************************)
LeftMap == [s \in Slots |-> IF active[s] THEN Left(s) ELSE -1]

\* n cycles later, a due time that did not change is n cycles nearer, or a turn away.
LEMMA LeftAfter ==
  ASSUME TypeOK, NEW s \in Slots, NEW n \in 1..MaxChunk,
         evtime'[s] = evtime[s], cycles' = Plus(cycles, n)
  PROVE  Left(s)' = Promised!Turned(Left(s) - n)
<1>1. /\ n \in Counter /\ cycles \in Counter /\ evtime[s] \in Counter
      /\ Left(s) \in Counter /\ Modulus \in Nat
  BY DelayInCounter, MinusInCounter, EventsAssumption DEF TypeOK, Left
<1>2. Left(s)' = IF n <= Left(s) THEN Left(s) - n ELSE Left(s) - n + Modulus
  <2>1. Minus(evtime[s], Plus(cycles, n)) =
          IF n <= Minus(evtime[s], cycles) THEN Minus(evtime[s], cycles) - n
          ELSE Minus(evtime[s], cycles) - n + Modulus
    BY <1>1, MinusAfter
  <2>2. QED
    BY <2>1 DEF Left
<1>3. QED
  BY <1>1, <1>2 DEF Promised!Turned, Counter

\* A slot re-armed in mid-chunk, at nextevent, has its delay less the rest of the
\* chunk left when the chunk ends, or a turn more.
LEMMA LeftAfterRearm ==
  ASSUME TypeOK, NEW s \in Slots, NEW n \in 1..MaxChunk, NEW d \in Delay,
         Minus(nextevent, cycles) < n,
         evtime'[s] = Plus(nextevent, d), cycles' = Plus(cycles, n)
  PROVE  Left(s)' = Promised!Turned(d - (n - Minus(nextevent, cycles)))
BY EventsAssumption DEF Left, TypeOK, Plus, Minus, Counter, Delay, Promised!Turned

LEMMA PromiseStep ==
  ASSUME TypeOK, TypeOK', NextNotLate, NextIsDue, [Next]_vars
  PROVE  [Promised!Next]_<<cycles, LeftMap, polled>>
<1>0. /\ MaxChunk \in Nat /\ Modulus \in Nat
      /\ \A s \in Slots : Left(s) \in Counter /\ Left(s)' \in Counter
      /\ Minus(nextevent, cycles) \in Counter
  BY MinusInCounter, EventsAssumption DEF TypeOK, Left
<1>1. LeftMap' \in Promised!Promise
  BY <1>0 DEF LeftMap, Promised!Promise, Promised!Idle, Counter
<1>2. ASSUME NEW s \in Slots, NEW x, cycles' = cycles,
             LeftMap'[s] = x,
             \A t \in Slots \ {s} : active'[t] = active[t] /\ evtime'[t] = evtime[t]
      PROVE  LeftMap' = [LeftMap EXCEPT ![s] = x]
  <2>1. \A t \in Slots \ {s} : LeftMap'[t] = LeftMap[t]
    BY <1>2 DEF LeftMap, Left
  <2>2. LeftMap = [t \in Slots |-> LeftMap[t]] /\ LeftMap' = [t \in Slots |-> LeftMap'[t]]
    BY DEF LeftMap
  <2>3. QED
    BY <1>2, <2>1, <2>2
<1>3. ASSUME NEW s \in Slots, NEW d \in ArmDelays[s], Arm(s, d) PROVE Promised!Next
  <2>1. /\ d \in Delay /\ active'[s] /\ evtime'[s] = Plus(cycles, d) /\ cycles' = cycles
        /\ polled' = {}
        /\ \A t \in Slots \ {s} : active'[t] = active[t] /\ evtime'[t] = evtime[t]
    BY <1>3, EventsAssumption DEF Arm, TypeOK, EventsSchedule
  <2>2. LeftMap'[s] = d
    BY <2>1, PlusInCounter, DelayInCounter DEF LeftMap, Left, TypeOK
  <2>3. Promised!Set(s, d)
    BY <2>1, <2>2, <1>2 DEF Promised!Set, LeftMap
  <2>4. QED
    BY <2>3 DEF Promised!Next
<1>4. ASSUME NEW s \in Slots, Cancel(s) PROVE Promised!Next
  <2>1. /\ ~active'[s] /\ cycles' = cycles /\ polled' = {}
        /\ \A t \in Slots \ {s} : active'[t] = active[t] /\ evtime'[t] = evtime[t]
    BY <1>4 DEF Cancel, TypeOK, EventsSchedule
  <2>2. LeftMap'[s] = -1
    BY <2>1 DEF LeftMap
  <2>3. Promised!Clear(s)
    BY <2>1, <2>2, <1>2 DEF Promised!Clear, Promised!Set, Promised!Idle, LeftMap
  <2>4. QED
    BY <2>3 DEF Promised!Next
<1>5. ASSUME NEW s \in Slots, RunEarly(s) PROVE Promised!Next
  <2>1. PICK d \in Rearm[s] \cup {Off} : HandlersRun({s}, cycles, [t \in Slots |-> d])
    BY <1>5 DEF RunEarly
  <2>2. /\ cycles' = cycles /\ polled' = polled \cup {s}
        /\ \A t \in Slots \ {s} : active'[t] = active[t] /\ evtime'[t] = evtime[t]
    BY <1>5, <2>1 DEF RunEarly, HandlersRun
  <2>3. \E x \in Rearm[s] \cup {-1} : LeftMap'[s] = x
    <3>1. CASE d = Off
      <4>1. ~active'[s]
        BY <2>1, <3>1 DEF HandlersRun
      <4>2. QED
        BY <4>1 DEF LeftMap
    <3>2. CASE d # Off
      <4>1. active'[s] /\ evtime'[s] = Plus(cycles, d) /\ d \in Rearm[s] /\ d \in Delay
        BY <2>1, <3>2, EventsAssumption DEF HandlersRun
      <4>2. LeftMap'[s] = d
        BY <2>2, <4>1, PlusInCounter, DelayInCounter DEF LeftMap, Left, TypeOK
      <4>3. QED
        BY <4>1, <4>2
    <3>3. QED
      BY <3>1, <3>2
  <2>4. PICK x \in Rearm[s] \cup {-1} : LeftMap'[s] = x
    BY <2>3
  <2>5. Promised!Poll(s, x)
    BY <2>2, <2>4, <1>2 DEF Promised!Poll, LeftMap
  <2>6. QED
    BY <2>4, <2>5 DEF Promised!Next, Promised!Idle
<1>6. ASSUME NEW n \in 1..MaxChunk, cycles' = Plus(cycles, n)
      PROVE  cycles' \in {cycles + n, cycles + n - Modulus} \cap 0..(Modulus - 1)
  BY <1>6, PlusInCounter, DelayInCounter DEF TypeOK, Plus, Counter
<1>7. ASSUME NEW n \in 1..MaxChunk, RunOut(n) PROVE Promised!Next
  <2>1. /\ active' = active /\ evtime' = evtime /\ cycles' = Plus(cycles, n)
        /\ n <= Minus(nextevent, cycles) /\ polled' = {}
    BY <1>7 DEF RunOut, EventsSchedule
  <2>2. ASSUME NEW s \in Slots, LeftMap[s] \in 0..(n - 1) PROVE s \in polled
    <3>1. active[s] /\ Left(s) < n
      BY <2>2 DEF LeftMap
    <3>2. QED
      BY <1>0, <2>1, <3>1 DEF NextNotLate, Counter
  <2>3. ASSUME NEW s \in Slots
        PROVE  \/ LeftMap[s] = -1 /\ LeftMap'[s] = -1
               \/ LeftMap[s] # -1 /\ LeftMap'[s] = Promised!Turned(LeftMap[s] - n)
    <3>1. CASE ~active[s]
      BY <2>1, <3>1 DEF LeftMap
    <3>2. CASE active[s]
      <4>1. Left(s)' = Promised!Turned(Left(s) - n)
        BY <2>1, LeftAfter
      <4>2. QED
        BY <1>0, <2>1, <3>2, <4>1 DEF LeftMap, Counter
    <3>3. QED
      BY <3>1, <3>2
  <2>4. Promised!ElapseWithStop(n, n)
    BY <1>1, <1>6, <2>1, <2>2, <2>3 DEF Promised!ElapseWithStop, Promised!Idle, LeftMap
  <2>5. QED
    BY <2>4 DEF Promised!Next, Promised!Elapse
<1>8. ASSUME NEW n \in 1..MaxChunk, StopOnce(n) PROVE Promised!Next
  <2> DEFINE due == {t \in Slots : active[t] /\ evtime[t] = nextevent}
  <2>0. PICK at \in Counter : at = Minus(nextevent, cycles)
    BY <1>0
  <2>1. PICK answer \in [Slots -> Answers] : HandlersRun(due, nextevent, answer)
    BY <1>8 DEF StopOnce
  <2>2. cycles' = Plus(cycles, n) /\ polled' = {} /\ at \in 0..n /\ at < n
    BY <1>8, <1>0, <2>0 DEF StopOnce, EventsSchedule, Counter
  <2>3. ASSUME NEW s \in Slots, LeftMap[s] \in 0..(at - 1) PROVE s \in polled
    <3>1. active[s] /\ Left(s) < at
      BY <1>0, <2>3 DEF LeftMap, Counter
    <3>2. QED
      BY <1>0, <2>0, <3>1 DEF NextNotLate, Counter
  <2>4. ASSUME polled = {} PROVE \E s \in Slots : LeftMap[s] = at
    <3>1. at # Modulus - 1
      BY <1>0, <2>2, EventsAssumption
    <3>2. PICK s \in Slots : active[s] /\ evtime[s] = nextevent
      BY <2>0, <2>4, <3>1 DEF NextIsDue
    <3>3. QED
      BY <2>0, <3>2 DEF LeftMap, Left
  <2>5. ASSUME NEW s \in Slots
        PROVE  \/ LeftMap[s] = -1 /\ LeftMap'[s] = -1
               \/ /\ LeftMap[s] = at /\ at < n
                  /\ LeftMap'[s] \in {-1} \cup {Promised!Turned(d - (n - at)) : d \in Rearm[s]}
               \/ /\ LeftMap[s] # -1 /\ (LeftMap[s] # at \/ at = n)
                  /\ LeftMap'[s] = Promised!Turned(LeftMap[s] - n)
    <3>1. CASE ~active[s]
      BY <2>1, <3>1 DEF HandlersRun, LeftMap
    <3>2. CASE active[s] /\ s \notin due
      <4>1. active'[s] /\ evtime'[s] = evtime[s] /\ evtime[s] # nextevent
        BY <2>1, <3>2 DEF HandlersRun
      <4>2. Left(s)' = Promised!Turned(Left(s) - n)
        BY <2>2, <4>1, LeftAfter
      <4>3. Left(s) # at
        BY <2>0, <4>1, SameDistance DEF Left, TypeOK
      <4>4. QED
        BY <1>0, <3>2, <4>1, <4>2, <4>3 DEF LeftMap, Counter
    <3>3. CASE s \in due
      <4>1. active[s] /\ LeftMap[s] = at
        BY <2>0, <3>3 DEF LeftMap, Left
      <4>2. CASE ~active'[s]
        BY <2>2, <4>1, <4>2 DEF LeftMap
      <4>3. CASE active'[s]
        <5>1. answer[s] \in Rearm[s] /\ evtime'[s] = Plus(nextevent, answer[s])
          BY <2>1, <3>3, <4>3 DEF HandlersRun
        <5>2. answer[s] \in Delay
          BY <5>1, EventsAssumption
        <5>3. Left(s)' = Promised!Turned(answer[s] - (n - at))
          BY <2>0, <2>2, <5>1, <5>2, LeftAfterRearm
        <5>4. LeftMap'[s] = Promised!Turned(answer[s] - (n - at))
          BY <4>3, <5>3 DEF LeftMap
        <5>5. QED
          BY <2>2, <4>1, <5>1, <5>4
      <4>4. QED
        BY <4>2, <4>3
    <3>4. QED
      BY <3>1, <3>2, <3>3
  <2>6. Promised!ElapseWithStop(n, at)
    <3> HIDE DEF due
    <3>1. QED
      BY <1>1, <1>6, <2>2, <2>3, <2>4, <2>5
         DEF Promised!ElapseWithStop, Promised!Idle, LeftMap
  <2>7. Promised!Elapse(n)
    <3> HIDE DEF due
    <3>1. QED
      BY <2>2, <2>6 DEF Promised!Elapse
  <2>8. QED
    BY <2>7 DEF Promised!Next
<1>9. CASE UNCHANGED vars
  BY <1>9 DEF vars, LeftMap, Left
<1>10. QED
  BY <1>3, <1>4, <1>5, <1>7, <1>8, <1>9 DEF Next, DoCycles

\* The event table keeps the promise of Countdown.tla for any number of slots, any
\* delays and any chunks: who is answered at which cycle, and who has to wait for
\* another turn of the counter.
THEOREM KeepsPromiseHolds == Spec => KeepsPromise
<1>1. Init => Promised!Init
  BY DEF Init, Promised!Init, Promised!Idle
<1>2. TypeOK /\ TypeOK' /\ NextNotLate /\ NextIsDue /\ [Next]_vars
        => [Promised!Next]_<<cycles, LeftMap, polled>>
  BY PromiseStep
<1>3. QED
  BY <1>1, <1>2, TypeCorrect, NextIsRight, PTL
     DEF Spec, KeepsPromise, Promised!Spec, Promised!vars, LeftMap

-----------------------------------------------------------------------------
(***************************************************************************)
(* The process that moves the counter: Process.                            *)
(***************************************************************************)
(* Division.                                                               *)

\* The quotient and the rest of a division by a positive number.
LEMMA DivMod ==
  ASSUME NEW a \in Nat, NEW d \in Nat \ {0}
  PROVE  /\ a \div d \in Nat
         /\ a % d \in 0 .. d - 1
         /\ a = d * (a \div d) + (a % d)
  BY SMT

LEMMA DivBounds ==
  ASSUME NEW a \in Nat, NEW d \in Nat \ {0}
  PROVE  /\ a \div d \in Nat
         /\ d * (a \div d) <= a
         /\ a < d * (a \div d) + d
         /\ a % d \in 0 .. d - 1 /\ a % d <= a
<1> DEFINE q == a \div d
           r == a % d
           m == d * q
<1>1. q \in Nat /\ r \in 0 .. d - 1 /\ a = m + r
  BY DivMod
<1>2. m \in Nat
  BY <1>1
<1> HIDE DEF q, r, m
<1>3. m <= a /\ a < m + d /\ r <= a
  BY <1>1, <1>2
<1>4. QED
  BY <1>1, <1>3 DEF q, m, r

\* A smaller number of clocks takes less time.
LEMMA FewerTakeLess ==
  ASSUME NEW m \in Nat, NEW n \in Nat, m <= n, NEW t \in Nat
  PROVE  m * t <= n * t /\ m * t \in Nat /\ n * t \in Nat
  BY SMT

\* The constants, of what type they are.
LEMMA Widths ==
  /\ PerClock \in Nat \ {0} /\ CountMod \in Nat \ {0} /\ IntMod \in Nat \ {0}
  /\ MicroMod \in Nat \ {0} /\ Parts \in Nat \ {0} /\ MaxDrift \in Nat \ {0}
  /\ 2 * CountMod - 1 <= IntMod /\ Speeds \subseteq Nat \ {0}
  /\ Elapsed \cup Late \cup Dates \subseteq 0 .. MicroMod - 1
  BY ProcessAssumption

\* The conversion to 16 bits takes no more clocks than there are, and all of them
\* unless there are too many.
LEMMA CutIsSafe ==
  ASSUME NEW us \in Nat, cia_time_us \in Speeds
  PROVE  /\ Cut(us) \in 0 .. CountMod - 1
         /\ Cut(us) * cia_time_us \in Nat
         /\ Cut(us) * cia_time_us <= us * Parts
         /\ (us * Parts) \div cia_time_us < CountMod =>
              us * Parts < Cut(us) * cia_time_us + cia_time_us
         /\ CountMod * cia_time_us <= us * Parts =>
              Cut(us) * cia_time_us + CountMod * cia_time_us <= us * Parts
<1> DEFINE whole == (us * Parts) \div cia_time_us
<1>1. cia_time_us \in Nat \ {0} /\ us * Parts \in Nat
  BY Widths
<1>2. /\ whole \in Nat
      /\ cia_time_us * whole <= us * Parts
      /\ us * Parts < cia_time_us * whole + cia_time_us
  BY <1>1, DivBounds
<1>3. Cut(us) = IF whole < IntMod THEN whole % CountMod ELSE CountMod - 1
  BY DEF Cut
<1> HIDE DEF whole
<1>4. whole % CountMod \in 0 .. CountMod - 1 /\ whole % CountMod <= whole
      /\ (whole < CountMod => whole % CountMod = whole)
      /\ (CountMod <= whole => (whole % CountMod) + CountMod <= whole)
  <2>1. /\ whole \div CountMod \in Nat
        /\ whole % CountMod \in 0 .. CountMod - 1
        /\ whole = CountMod * (whole \div CountMod) + (whole % CountMod)
    BY <1>2, Widths, DivMod
  <2>2. CountMod * (whole \div CountMod) \in Nat
    BY <2>1, Widths
  <2>3. whole \div CountMod # 0 => CountMod <= CountMod * (whole \div CountMod)
    <3> DEFINE turns == whole \div CountMod
    <3>1. turns \in Nat /\ CountMod \in Nat
      BY <2>1, Widths
    <3> HIDE DEF turns
    <3>2. turns # 0 => 1 * CountMod <= turns * CountMod
      BY <3>1, FewerTakeLess
    <3>3. 1 * CountMod = CountMod /\ turns * CountMod = CountMod * turns
      BY <3>1
    <3>4. QED
      BY <3>2, <3>3 DEF turns
  <2>4. whole \div CountMod = 0 => CountMod * (whole \div CountMod) = 0
    BY Widths
  <2> DEFINE product == CountMod * (whole \div CountMod)
  <2> HIDE DEF product
  <2>5. QED
    BY <1>2, <2>1, <2>2, <2>3, <2>4, Widths, SMT DEF product
<1>5. Cut(us) \in 0 .. CountMod - 1 /\ Cut(us) <= whole
      /\ (whole < CountMod => Cut(us) = whole)
      /\ (CountMod <= whole => Cut(us) + CountMod <= whole)
  BY <1>2, <1>3, <1>4, Widths
<1>6. Cut(us) * cia_time_us <= whole * cia_time_us /\ Cut(us) * cia_time_us \in Nat
  BY <1>1, <1>2, <1>5, FewerTakeLess
<1>7. whole * cia_time_us = cia_time_us * whole
  BY <1>1, <1>2
<1>8. Cut(us) * cia_time_us <= us * Parts
  BY <1>1, <1>2, <1>6, <1>7
<1>9. whole < CountMod => us * Parts < Cut(us) * cia_time_us + cia_time_us
  BY <1>2, <1>5, <1>7
<1>10. ASSUME CountMod * cia_time_us <= us * Parts
       PROVE  Cut(us) * cia_time_us + CountMod * cia_time_us <= us * Parts
  <2>1. CountMod <= whole
    <3>1. SUFFICES ASSUME whole + 1 <= CountMod PROVE FALSE
      BY <1>2, Widths
    <3>2. (whole + 1) * cia_time_us <= CountMod * cia_time_us
      BY <1>1, <1>2, <3>1, Widths, FewerTakeLess
    <3>3. (whole + 1) * cia_time_us = whole * cia_time_us + cia_time_us
      BY <1>1, <1>2
    <3>4. /\ whole * cia_time_us \in Nat /\ CountMod * cia_time_us \in Nat
          /\ (whole + 1) * cia_time_us \in Nat
      BY <1>1, <1>2, Widths
    <3>5. QED
      BY <1>1, <1>2, <1>7, <1>10, <3>2, <3>3, <3>4
  <2>2. (Cut(us) + CountMod) * cia_time_us <= whole * cia_time_us
    BY <1>1, <1>2, <1>5, <2>1, Widths, FewerTakeLess
  <2>3. (Cut(us) + CountMod) * cia_time_us = Cut(us) * cia_time_us + CountMod * cia_time_us
    BY <1>1, <1>5, Widths
  <2>4. Cut(us) * cia_time_us + CountMod * cia_time_us <= cia_time_us * whole
    BY <1>7, <2>2, <2>3
  <2>5. /\ Cut(us) * cia_time_us \in Nat /\ CountMod * cia_time_us \in Nat
        /\ cia_time_us * whole \in Nat
    BY <1>1, <1>2, <1>6, Widths
  <2>6. QED
    BY <1>1, <1>2, <2>4, <2>5
<1>11. QED
  BY <1>5, <1>6, <1>8, <1>9, <1>10 DEF whole

\* What is left of a time that is not negative, in whole microseconds, is
\* not more than the time.
LEMMA WholeIsLess ==
  ASSUME NEW x \in Nat, NEW us \in 0 .. MicroMod - 1, x <= us * Parts
  PROVE  /\ Whole(x) \in 0 .. MicroMod - 1
         /\ Whole(x) * Parts <= x
         /\ x < Whole(x) * Parts + Parts
<1>1. Parts \in Nat \ {0} /\ MicroMod \in Nat \ {0} /\ us \in Nat /\ us * Parts \in Nat
  BY Widths
<1>2. /\ x \div Parts \in Nat /\ x % Parts \in 0 .. Parts - 1
      /\ x = Parts * (x \div Parts) + (x % Parts)
  BY <1>1, DivMod
<1>3. /\ Parts * (x \div Parts) <= x /\ Parts * (x \div Parts) \in Nat
      /\ x < Parts * (x \div Parts) + Parts
  BY <1>1, <1>2
<1>4. x \div Parts <= us
  <2>1. SUFFICES ASSUME us + 1 <= x \div Parts PROVE FALSE
    BY <1>1, <1>2
  <2>2. (us + 1) * Parts <= (x \div Parts) * Parts
    BY <1>1, <1>2, <2>1, FewerTakeLess
  <2>3. (us + 1) * Parts = us * Parts + Parts /\ (x \div Parts) * Parts = Parts * (x \div Parts)
    BY <1>1, <1>2
  <2>4. QED
    BY <1>1, <1>3, <2>2, <2>3
<1>5. (x \div Parts) % MicroMod = x \div Parts
  <2>1. /\ (x \div Parts) \div MicroMod \in Nat
        /\ (x \div Parts) % MicroMod \in 0 .. MicroMod - 1
        /\ x \div Parts = MicroMod * ((x \div Parts) \div MicroMod) + ((x \div Parts) % MicroMod)
    BY <1>1, <1>2, DivMod
  <2>2. x \div Parts \in 0 .. MicroMod - 1
    BY <1>1, <1>2, <1>4
  <2>3. QED
    BY <1>1, <1>2, <2>1, <2>2, SMT
<1>6. Whole(x) = x \div Parts
  BY <1>5 DEF Whole
<1>7. QED
  BY <1>1, <1>2, <1>3, <1>4, <1>6

-----------------------------------------------------------------------------
(* What the steps of a round do.                                           *)

LEMMA MeasureCounts ==
  ASSUME ProcessTypeOK, NEW us \in Elapsed \cup Late \cup Dates, Measure(us)
  PROVE  /\ microseconds' \in 0 .. MicroMod - 1
         /\ count' \in 0 .. CountMod - 1
         /\ count' * cia_time_us \in Nat
         /\ count' * cia_time_us <= microseconds' * Parts
         /\ ~cut' => microseconds' * Parts < count' * cia_time_us + cia_time_us
         /\ drift' \in -1 .. MaxDrift
         /\ drift' >= drift
<1> DEFINE sum == (microseconds + us) % MicroMod
<1>1. /\ us \in Nat /\ microseconds \in Nat /\ Parts \in Nat \ {0} /\ MicroMod \in Nat \ {0}
      /\ cia_time_us \in Speeds /\ drift \in -1 .. MaxDrift /\ MaxDrift \in Nat
  BY Widths DEF ProcessTypeOK
<1>2. sum \in 0 .. MicroMod - 1 /\ sum <= microseconds + us
  <2>1. microseconds + us \in Nat
    BY <1>1
  <2>2. QED
    BY <1>1, <2>1, DivBounds
<1>3. /\ microseconds' = sum /\ count' = Cut(sum)
      /\ drift' = Counted(us * Parts + Kept - sum * Parts)
      /\ ~cut' => ~((sum * Parts) \div cia_time_us >= CountMod)
  BY DEF Measure
<1> HIDE DEF sum
<1>4. sum \in Nat
  BY <1>1, <1>2
<1>5. /\ Cut(sum) \in 0 .. CountMod - 1 /\ Cut(sum) * cia_time_us \in Nat
      /\ Cut(sum) * cia_time_us <= sum * Parts
      /\ (sum * Parts) \div cia_time_us < CountMod =>
           sum * Parts < Cut(sum) * cia_time_us + cia_time_us
  BY <1>1, <1>4, CutIsSafe
<1>6. ~cut' => (sum * Parts) \div cia_time_us < CountMod
  <2>1. sum * Parts \in Nat /\ cia_time_us \in Nat \ {0} /\ CountMod \in Nat
    BY <1>1, <1>4, Widths
  <2>2. (sum * Parts) \div cia_time_us \in Nat
    BY <2>1, DivBounds
  <2>3. QED
    BY <1>3, <2>1, <2>2
<1>7. us * Parts + Kept - sum * Parts \in Nat
  <2>1. sum * Parts <= (microseconds + us) * Parts
    BY <1>1, <1>2, <1>4, FewerTakeLess
  <2>2. (microseconds + us) * Parts = Kept + us * Parts
    BY <1>1 DEF Kept
  <2>3. sum * Parts \in Nat /\ us * Parts \in Nat /\ Kept \in Nat
    BY <1>1, <1>4 DEF Kept
  <2>4. QED
    BY <2>1, <2>2, <2>3
<1>8. drift' \in -1 .. MaxDrift /\ drift' >= drift
  BY <1>1, <1>3, <1>7 DEF Counted
<1>9. QED
  BY <1>2, <1>3, <1>5, <1>6, <1>8

\* The invariant of the loop: a count never takes more time than there is, and,
\* unless it was cut, leaves less than a clock.
CountFits ==
  /\ ~changed => /\ drift >= 0
                 /\ pc = "counted" => count * cia_time_us <= Kept /\ count = Cut(microseconds)
  /\ ~cut /\ ~changed => IF pc = "counted" THEN Kept < count * cia_time_us + cia_time_us
                         ELSE Kept < cia_time_us

LEMMA AdvanceLeaves ==
  ASSUME ProcessTypeOK, CountFits, Advance
  PROVE  /\ microseconds' \in 0 .. MicroMod - 1
         /\ drift' \in -1 .. MaxDrift
         /\ ~changed => /\ drift' >= drift /\ drift' - drift < Parts
                        /\ microseconds' * Parts <= Kept - count * cia_time_us
                        /\ Kept - count * cia_time_us < microseconds' * Parts + Parts
<1> DEFINE x == Kept - count * cia_time_us
<1>1. /\ count \in Nat /\ cia_time_us \in Nat /\ microseconds \in 0 .. MicroMod - 1
      /\ Parts \in Nat \ {0} /\ MicroMod \in Nat \ {0}
      /\ drift \in -1 .. MaxDrift /\ MaxDrift \in Nat
  BY Widths DEF ProcessTypeOK
<1>2. Kept \in Nat /\ count * cia_time_us \in Nat /\ x \in Int
  BY <1>1 DEF Kept
<1>3. microseconds' = Whole(x) /\ drift' = Counted(x - Whole(x) * Parts)
  BY DEF Advance
<1> HIDE DEF x
<1>4. Whole(x) \in 0 .. MicroMod - 1
  <2>1. (IF x >= 0 THEN x \div Parts ELSE -((-x) \div Parts)) \in Int
    BY <1>1, <1>2, SMT
  <2>2. QED
    BY <1>1, <2>1, SMT DEF Whole
<1>5. drift' \in -1 .. MaxDrift
  <2>1. x - Whole(x) * Parts \in Int
    BY <1>1, <1>2, <1>4
  <2>2. QED
    BY <1>1, <1>3, <2>1 DEF Counted
<1>6. ASSUME ~changed
      PROVE  /\ drift' >= drift /\ drift' - drift < Parts
             /\ Whole(x) * Parts <= x /\ x < Whole(x) * Parts + Parts
  <2>1. drift >= 0 /\ x \in Nat /\ x <= microseconds * Parts
    <3>1. count * cia_time_us <= Kept /\ drift >= 0
      BY <1>6 DEF CountFits, Advance
    <3>2. QED
      BY <1>2, <3>1 DEF x, Kept
  <2>2. /\ Whole(x) * Parts <= x /\ Whole(x) * Parts \in Int
        /\ x < Whole(x) * Parts + Parts
    BY <1>1, <1>4, <2>1, WholeIsLess
  <2>3. x - Whole(x) * Parts \in 0 .. Parts - 1
    BY <1>1, <2>1, <2>2
  <2>4. drift' >= drift /\ drift' - drift < Parts
    BY <1>1, <1>3, <2>1, <2>3 DEF Counted
  <2>5. QED
    BY <2>2, <2>4
<1>7. QED
  BY <1>3, <1>4, <1>5, <1>6 DEF x

-----------------------------------------------------------------------------
(* The process as a user of the scheduler.                                 *)

\* A round advances the scheduler by no more than it is made for.
LEMMA ChunkFits ==
  ASSUME NEW n \in 0 .. CountMod - 1
  PROVE  CyclesOf(n) = 0 \/ CyclesOf(n) \in 1 .. MaxChunk
<1>1. PerClock \in Nat \ {0} /\ CountMod - 1 \in Nat /\ n \in Nat /\ n <= CountMod - 1
  BY Widths
<1>2. n * PerClock <= (CountMod - 1) * PerClock /\ n * PerClock \in Nat
  BY <1>1, FewerTakeLess
<1>3. (CountMod - 1) * PerClock = PerClock * (CountMod - 1)
  BY <1>1
<1>4. QED
  BY <1>1, <1>2, <1>3, ProcessAssumption, EventsAssumption DEF CyclesOf

LEMMA ProcessRefines == ProcessTypeOK /\ [ProcessNext]_allvars => [Next]_vars
<1> SUFFICES ASSUME ProcessTypeOK, [ProcessNext]_allvars PROVE [Next]_vars
  OBVIOUS
<1>1. CASE Advance
  <2>1. CyclesOf(count) = 0 \/ CyclesOf(count) \in 1 .. MaxChunk
    BY ChunkFits DEF ProcessTypeOK
  <2>2. CASE CyclesOf(count) = 0
    BY <1>1, <2>2 DEF Advance
  <2>3. CASE CyclesOf(count) # 0
    BY <1>1, <2>1, <2>3 DEF Advance, Next
  <2>4. QED
    BY <2>2, <2>3
<1>2. CASE Others
  BY <1>2 DEF Others, Next
<1>3. ASSUME NEW us \in Elapsed \cup Late \cup Dates, Measure(us) PROVE [Next]_vars
  BY <1>3 DEF Measure
<1>4. ASSUME NEW us \in Latencies, setCIATimingAccuracy(us) PROVE [Next]_vars
  BY <1>4 DEF setCIATimingAccuracy
<1>5. ASSUME NEW us \in Speeds, setCIAClockSpeed(us) PROVE [Next]_vars
  BY <1>5 DEF setCIAClockSpeed
<1>6. CASE UNCHANGED allvars
  BY <1>6 DEF allvars
<1>7. QED
  BY <1>1, <1>2, <1>3, <1>4, <1>5, <1>6 DEF ProcessNext

-----------------------------------------------------------------------------
(* The invariant, and the theorems.                                        *)

ProcessInv == ProcessTypeOK /\ CountFits

LEMMA ProcessInvStarts == ProcessInit => ProcessInv
<1> SUFFICES ASSUME ProcessInit PROVE ProcessInv
  OBVIOUS
<1>1. TypeOK
  BY EventsAssumption DEF ProcessInit, Init, TypeOK, Counter
<1>2. cia_time_us \in Nat \ {0} /\ Kept = 0
  BY Widths DEF ProcessInit, Kept
<1>3. ProcessTypeOK
  <2>1. {started, cut, changed} \subseteq BOOLEAN /\ pc \in {"asleep", "counted"}
    BY DEF ProcessInit
  <2>2. microseconds \in 0 .. MicroMod - 1 /\ count \in 0 .. CountMod - 1 /\ drift \in -1 .. MaxDrift
    <3>1. microseconds = 0 /\ count = 0 /\ drift = 0
      BY DEF ProcessInit
    <3>2. QED
      BY <3>1, Widths
  <2>3. QED
    BY <1>1, <2>1, <2>2 DEF ProcessInit, ProcessTypeOK
<1>4. CountFits
  BY <1>2 DEF ProcessInit, CountFits
<1>5. QED
  BY <1>3, <1>4 DEF ProcessInv

LEMMA ProcessInvStep == ProcessInv /\ [ProcessNext]_allvars => ProcessInv'
<1> SUFFICES ASSUME ProcessInv, [ProcessNext]_allvars PROVE ProcessInv'
  OBVIOUS
<1>0. ProcessTypeOK /\ CountFits
  BY DEF ProcessInv
<1>1. TypeOK'
  BY <1>0, ProcessRefines, TypeStep DEF ProcessTypeOK
<1>2. ASSUME NEW us \in Elapsed \cup Late \cup Dates, Measure(us) PROVE ProcessInv'
  <2>1. UNCHANGED <<cia_time_us, cia_latency_us, changed>> /\ pc' = "counted"
        /\ started' = TRUE /\ cut' \in BOOLEAN /\ pc = "asleep" /\ (~cut' => ~cut)
    BY <1>2 DEF Measure
  <2>2. /\ microseconds' \in 0 .. MicroMod - 1 /\ count' \in 0 .. CountMod - 1
        /\ count' * cia_time_us <= microseconds' * Parts
        /\ ~cut' => microseconds' * Parts < count' * cia_time_us + cia_time_us
        /\ drift' \in -1 .. MaxDrift /\ (drift >= 0 => drift' >= 0)
        /\ count' = Cut(microseconds')
    <3>1. /\ microseconds' \in 0 .. MicroMod - 1 /\ count' \in 0 .. CountMod - 1
          /\ count' * cia_time_us <= microseconds' * Parts
          /\ ~cut' => microseconds' * Parts < count' * cia_time_us + cia_time_us
          /\ drift' \in -1 .. MaxDrift /\ drift' >= drift
      BY <1>0, <1>2, MeasureCounts
    <3>2. count' = Cut(microseconds')
      BY <1>2 DEF Measure
    <3>3. drift \in -1 .. MaxDrift /\ MaxDrift \in Nat
      BY <1>0, Widths DEF ProcessTypeOK
    <3>4. QED
      BY <3>1, <3>2, <3>3
  <2>3. ProcessTypeOK'
    BY <1>0, <1>1, <2>1, <2>2 DEF ProcessTypeOK
  <2>4. CountFits'
    <3>1. Cut(microseconds)' = Cut(microseconds')
      BY <2>1 DEF Cut
    <3>2. QED
      BY <1>0, <2>1, <2>2, <3>1 DEF CountFits, Kept
  <2>5. QED
    BY <2>3, <2>4 DEF ProcessInv
<1>3. CASE Advance
  <2>1. UNCHANGED <<count, cia_time_us, cia_latency_us, started, cut, changed>>
        /\ pc' = "asleep" /\ pc = "counted"
    BY <1>3 DEF Advance
  <2>2. /\ microseconds' \in 0 .. MicroMod - 1 /\ drift' \in -1 .. MaxDrift
        /\ ~changed => drift' >= 0 /\ microseconds' * Parts <= Kept - count * cia_time_us
    <3>1. drift \in -1 .. MaxDrift /\ MaxDrift \in Nat /\ (~changed => drift >= 0)
      BY <1>0, Widths DEF ProcessTypeOK, CountFits
    <3>2. QED
      BY <1>0, <1>3, <3>1, AdvanceLeaves
  <2>3. ProcessTypeOK'
    BY <1>0, <1>1, <2>1, <2>2 DEF ProcessTypeOK
  <2>4. ASSUME ~cut, ~changed PROVE microseconds' * Parts < cia_time_us
    <3>1. Kept < count * cia_time_us + cia_time_us
      BY <1>0, <2>1, <2>4 DEF CountFits
    <3>2. /\ Kept \in Nat /\ count * cia_time_us \in Nat /\ cia_time_us \in Nat
          /\ microseconds' * Parts \in Nat
      <4>1. /\ count \in Nat /\ cia_time_us \in Nat /\ Parts \in Nat
            /\ microseconds \in Nat /\ microseconds' \in Nat
        BY <1>0, <2>2, Widths DEF ProcessTypeOK
      <4>2. microseconds * Parts \in Nat /\ count * cia_time_us \in Nat
        BY <4>1
      <4>3. \A m \in Nat : m * Parts \in Nat
        BY <4>1
      <4>4. QED
        BY <4>1, <4>2, <4>3 DEF Kept
    <3>3. QED
      BY <2>2, <2>4, <3>1, <3>2
  <2>5. CountFits'
    BY <2>1, <2>2, <2>4 DEF CountFits, Kept
  <2>6. QED
    BY <2>3, <2>5 DEF ProcessInv
<1>4. ASSUME NEW us \in Latencies, setCIATimingAccuracy(us) PROVE ProcessInv'
  <2>1. cia_latency_us' = us
        /\ UNCHANGED <<pc, microseconds, count, cia_time_us, started, drift, cut, changed>>
    BY <1>4 DEF setCIATimingAccuracy
  <2>2. QED
    BY <1>0, <1>1, <2>1 DEF ProcessInv, ProcessTypeOK, CountFits, Kept, Cut
<1>5. ASSUME NEW us \in Speeds, setCIAClockSpeed(us) PROVE ProcessInv'
  <2>1. /\ cia_time_us' = us
        /\ changed' = (changed \/ (us # cia_time_us /\ (pc = "counted" \/ Kept >= us)))
        /\ UNCHANGED <<pc, microseconds, count, cia_latency_us, started, drift, cut>>
    BY <1>5 DEF setCIAClockSpeed
  <2>2. ProcessTypeOK'
    BY <1>0, <1>1, <2>1 DEF ProcessTypeOK
  <2>3. changed \in BOOLEAN /\ changed' \in BOOLEAN
    BY <1>0, <2>2 DEF ProcessTypeOK
  <2>4. ASSUME changed' = TRUE PROVE CountFits'
    BY <2>4 DEF CountFits
  <2>5. ASSUME us = cia_time_us PROVE CountFits'
    <3>1. changed' = changed /\ cia_time_us' = cia_time_us
      BY <2>1, <2>3, <2>5
    <3>2. QED
      BY <1>0, <2>1, <3>1 DEF CountFits, Kept, Cut
  <2>6. ASSUME changed' = FALSE, us # cia_time_us PROVE CountFits'
    <3>1. pc # "counted" /\ ~(Kept >= us) /\ changed = FALSE
      BY <2>1, <2>3, <2>6
    <3>2. Kept \in Nat /\ us \in Nat
      <4>1. microseconds \in Nat /\ Parts \in Nat
        BY <1>0, Widths DEF ProcessTypeOK
      <4>2. QED
        BY <4>1, Widths DEF Kept
    <3>3. Kept < us /\ Kept' = Kept
      BY <2>1, <3>1, <3>2 DEF Kept
    <3>4. drift >= 0 /\ drift' = drift /\ pc' = pc /\ cut' = cut
      BY <1>0, <2>1, <3>1 DEF CountFits
    <3>5. QED
      BY <2>1, <2>6, <3>1, <3>3, <3>4 DEF CountFits
  <2>7. CountFits'
    BY <2>3, <2>4, <2>5, <2>6
  <2>8. QED
    BY <2>2, <2>7 DEF ProcessInv
<1>6. CASE Others \/ UNCHANGED allvars
  <2>1. UNCHANGED <<pc, microseconds, count, cia_time_us, cia_latency_us, started, drift, cut, changed>>
    BY <1>6 DEF Others, allvars, clocks
  <2>2. QED
    BY <1>0, <1>1, <2>1 DEF ProcessInv, ProcessTypeOK, CountFits, Kept, Cut
<1>7. QED
  BY <1>2, <1>3, <1>4, <1>5, <1>6 DEF ProcessNext

LEMMA ProcessInvHolds == ProcessSpec => []ProcessInv
  BY ProcessInvStarts, ProcessInvStep, PTL DEF ProcessSpec

\* Counts, times and lengths keep their widths, whatever the delays.
THEOREM ProcessTypeCorrect == ProcessSpec => []ProcessTypeOK
<1>1. ProcessInv => ProcessTypeOK
  BY DEF ProcessInv
<1>2. QED
  BY <1>1, ProcessInvHolds, PTL

\* Emulated time never runs ahead of measured time while the length of a clock does
\* not change within a round.
THEOREM NeverAheadHolds == ProcessSpec => []NeverAhead
<1>1. ProcessInv => NeverAhead
  BY DEF ProcessInv, CountFits, NeverAhead
<1>2. QED
  BY <1>1, ProcessInvHolds, PTL

\* A round keeps less than a clock for the next while no count exceeds 16 bits.
THEOREM KeepsLessThanAClockHolds == ProcessSpec => []KeepsLessThanAClock
<1>1. ProcessInv => KeepsLessThanAClock
  BY DEF ProcessInv, CountFits, KeepsLessThanAClock
<1>2. QED
  BY <1>1, ProcessInvHolds, PTL

\* The time base between two rounds, for every delay, rounding and length of a clock.
THEOREM KeepsTimeHolds == ProcessSpec => []KeepsTime
<1>1. ProcessTypeOK /\ NeverAhead /\ KeepsLessThanAClock => KeepsTime
  BY DEF KeepsTime
<1>2. QED
  BY <1>1, ProcessTypeCorrect, NeverAheadHolds, KeepsLessThanAClockHolds, PTL

\* For every length of a clock and every delay: a round loses less than a microsecond,
\* and no round makes up for what an earlier one has lost.
THEOREM LossesAddUpHolds == ProcessSpec => LossesAddUp
<1>1. ASSUME ProcessInv, [ProcessNext]_allvars, ~changed', changed => changed'
      PROVE  drift' >= drift /\ (pc = "counted" /\ pc' = "asleep" => drift' - drift < Parts)
  <2>0. ProcessTypeOK /\ CountFits /\ ~changed /\ drift \in Int
    BY <1>1 DEF ProcessInv, ProcessTypeOK
  <2>1. ASSUME NEW us \in Elapsed \cup Late \cup Dates, Measure(us)
        PROVE  drift' >= drift /\ pc' = "counted"
    BY <2>0, <2>1, MeasureCounts DEF Measure
  <2>2. CASE Advance
    BY <2>0, <2>2, AdvanceLeaves
  <2>3. CASE drift' = drift /\ pc' = pc
    BY <2>0, <2>3
  <2>4. QED
    BY <1>1, <2>1, <2>2, <2>3
       DEF ProcessNext, setCIATimingAccuracy, setCIAClockSpeed, Others, clocks, allvars
<1>2. ASSUME ProcessInv, [ProcessNext]_allvars PROVE changed => changed'
  BY <1>2 DEF ProcessInv, ProcessTypeOK, ProcessNext, Measure, Advance, setCIATimingAccuracy,
              setCIAClockSpeed, Others, clocks, allvars
<1>3. ProcessInv /\ [ProcessNext]_allvars
        => [~changed' => /\ drift' >= drift
                         /\ pc = "counted" /\ pc' = "asleep" => drift' - drift < Parts]_allvars
  BY <1>1, <1>2
<1>4. QED
  BY <1>3, ProcessInvHolds, PTL DEF ProcessSpec, LossesAddUp

\* For every delay and length of a clock: once 2^16 clocks behind, the process stays
\* so far behind.
THEOREM LateForGoodHolds == ProcessSpec => LateForGood
<1> DEFINE Excused == \/ pc = "asleep" /\ pc' = "counted" /\ microseconds' <= microseconds
                      \/ changed' \/ cia_time_us' # cia_time_us
<1>1. ASSUME ProcessInv, [ProcessNext]_allvars, Behind, ~Excused PROVE Behind'
  <2>0. /\ ProcessTypeOK /\ CountFits /\ cia_time_us' = cia_time_us
        /\ microseconds \in Nat /\ cia_time_us \in Nat /\ Parts \in Nat \ {0} /\ CountMod \in Nat
        /\ CountMod * cia_time_us \in Nat /\ Kept \in Nat
    <3>1. /\ ProcessTypeOK /\ CountFits /\ cia_time_us' = cia_time_us
          /\ microseconds \in Nat /\ cia_time_us \in Nat /\ Parts \in Nat \ {0} /\ CountMod \in Nat
      BY <1>1, Widths DEF ProcessInv, ProcessTypeOK
    <3>2. microseconds * Parts \in Nat /\ CountMod * cia_time_us \in Nat
      BY <3>1
    <3>3. QED
      BY <3>1, <3>2 DEF Kept
  <2>1. ASSUME NEW us \in Elapsed \cup Late \cup Dates, Measure(us) PROVE Behind'
    <3>1. pc = "asleep" /\ pc' = "counted" /\ microseconds' \in Nat
      BY <2>0, <2>1, Widths, MeasureCounts DEF Measure
    <3>2. PICK sum \in Nat : sum = microseconds'
      BY <3>1
    <3>3. microseconds + 1 <= sum
      BY <1>1, <2>0, <3>1, <3>2
    <3>4. (microseconds + 1) * Parts <= sum * Parts /\ sum * Parts \in Nat
      BY <2>0, <3>3, FewerTakeLess
    <3>5. (microseconds + 1) * Parts = microseconds * Parts + Parts
      BY <2>0
    <3>6. microseconds * Parts + Parts > CountMod * cia_time_us
      BY <1>1, <3>1 DEF Behind, Kept
    <3>7. sum * Parts >= CountMod * cia_time_us
      BY <2>0, <3>4, <3>5, <3>6 DEF Kept
    <3>8. QED
      BY <2>0, <3>1, <3>2, <3>7 DEF Behind, Kept
  <2>2. CASE Advance
    <3>1. pc = "counted" /\ pc' = "asleep" /\ ~changed
      BY <1>1, <2>2 DEF Advance
    <3>2. count = Cut(microseconds) /\ Kept >= CountMod * cia_time_us
      BY <1>1, <2>0, <3>1 DEF CountFits, Behind
    <3>3. /\ count * cia_time_us \in Nat
          /\ count * cia_time_us + CountMod * cia_time_us <= Kept
      <4>1. cia_time_us \in Speeds
        BY <2>0 DEF ProcessTypeOK
      <4>2. /\ Cut(microseconds) * cia_time_us \in Nat
            /\ CountMod * cia_time_us <= microseconds * Parts =>
                 Cut(microseconds) * cia_time_us + CountMod * cia_time_us <= microseconds * Parts
        BY <2>0, <4>1, CutIsSafe
      <4>3. QED
        BY <2>0, <3>2, <4>2 DEF Kept
    <3>4. Kept - count * cia_time_us < microseconds' * Parts + Parts /\ microseconds' \in Nat
      BY <2>0, <2>2, <3>1, Widths, AdvanceLeaves
    <3>5. PICK rest \in Nat : rest = microseconds'
      BY <3>4
    <3>6. rest * Parts \in Nat /\ Kept - count * cia_time_us < rest * Parts + Parts
      <4>1. rest * Parts \in Nat
        BY <2>0
      <4>2. rest * Parts = microseconds' * Parts
        BY <3>5
      <4>3. QED
        BY <3>4, <4>1, <4>2
    <3>7. rest * Parts + Parts > CountMod * cia_time_us
      BY <2>0, <3>3, <3>6
    <3>8. QED
      BY <2>0, <3>1, <3>5, <3>7 DEF Behind, Kept
  <2>3. CASE microseconds' = microseconds /\ pc' = pc
    BY <1>1, <2>0, <2>3 DEF Behind, Kept
  <2>4. QED
    BY <1>1, <2>1, <2>2, <2>3
       DEF ProcessNext, setCIATimingAccuracy, setCIAClockSpeed, Others, clocks, allvars
<1>2. ProcessInv /\ [ProcessNext]_allvars => [Behind => Behind' \/ Excused]_allvars
  BY <1>1
<1>3. QED
  BY <1>2, ProcessInvHolds, PTL DEF ProcessSpec, LateForGood

\* The process drives the scheduler as Events.tla assumes of its caller, so that the
\* promise of Countdown.tla is kept however late a round is.
THEOREM ProcessKeepsPromise == ProcessSpec => KeepsPromise
<1>1. ProcessInit => Init
  BY DEF ProcessInit
<1>2. ProcessInv /\ [ProcessNext]_allvars => [Next]_vars
  BY ProcessRefines DEF ProcessInv
<1>3. ProcessSpec => Spec
  BY <1>1, <1>2, ProcessInvHolds, PTL DEF ProcessSpec, Spec
<1>4. QED
  BY <1>3, KeepsPromiseHolds
=============================================================================
