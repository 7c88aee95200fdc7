------------------------------ MODULE Process ------------------------------
(***************************************************************************)
(* The time base: the process of cia_process.c measures how much real time *)
(* has gone by, turns it into CIA clocks and advances the scheduler of     *)
(* Events.tla by them.  Programs change its accuracy and the length of a   *)
(* clock at any moment (mem_api.c).                                        *)
(*                                                                         *)
(* The length of a clock, a double in the code, is counted in parts of a   *)
(* microsecond.  Conversions cut as the build does: to an int of 32 bits,  *)
(* which holds its largest value when it overflows, then to 16 bits.       *)
(***************************************************************************)
EXTENDS Events

CONSTANTS
  PerClock,   \* processor cycles to a clock, 10 in the code
  CountMod,   \* 2^16: the clocks of a round are counted in 16 bits
  IntMod,     \* 2^31
  MicroMod,   \* 2^32: microseconds are counted in 32 bits
  Parts,      \* parts of a microsecond
  Speeds,     \* lengths of a clock, in parts
  Latencies,  \* microseconds a round sleeps at least
  Elapsed,    \* microseconds a round may take
  Late,       \* microseconds of a round so late that its count is cut: bound, once
  Dates,      \* what the first difference may be, `start` being 0 or old
  MaxDrift    \* bound: parts of a microsecond lost, as far as they are counted

ASSUME ProcessAssumption ==
  /\ {PerClock, CountMod, IntMod, MicroMod, Parts, MaxDrift} \subseteq Nat \ {0}
  /\ 2 * CountMod - 1 <= IntMod
  /\ Speeds \subseteq Nat \ {0} /\ Speeds # {}
  /\ Latencies \subseteq Nat /\ Elapsed \cup Late \cup Dates \subseteq 0 .. MicroMod - 1
  /\ PerClock * (CountMod - 1) <= MaxChunk

VARIABLES
  pc,             \* "asleep"; "counted": between the count and do_cia
  microseconds,   \* measured and not yet emulated
  count,          \* clocks of this round
  cia_time_us, cia_latency_us,
  started,        \* is `start` a time? it is not before the first round
  drift,          \* history: parts measured, but neither emulated nor kept
  cut,            \* history: was a count ever more than 16 bits hold?
  changed         \* history: did the length of a clock change after a count?

clocks == <<pc, microseconds, count, cia_time_us, cia_latency_us, started, drift, cut, changed>>
allvars == <<vars, clocks>>

ProcessTypeOK ==
  /\ TypeOK
  /\ pc \in {"asleep", "counted"}
  /\ microseconds \in 0 .. MicroMod - 1
  /\ count \in 0 .. CountMod - 1
  /\ cia_time_us \in Speeds /\ cia_latency_us \in Latencies
  /\ {started, cut, changed} \subseteq BOOLEAN
  /\ drift \in -1 .. MaxDrift

\* The time kept but not emulated, in parts.
Kept == microseconds * Parts

\* The drift after so many parts more, as far as it is counted: below 0, emulated
\* time is ahead.
Counted(parts) ==
  IF drift + parts < 0 THEN -1 ELSE IF drift + parts > MaxDrift THEN MaxDrift ELSE drift + parts

ProcessInit ==
  /\ Init
  /\ pc = "asleep" /\ microseconds = 0 /\ count = 0
  /\ cia_time_us \in Speeds /\ cia_latency_us \in Latencies
  /\ started = FALSE
  /\ drift = 0 /\ cut = FALSE /\ changed = FALSE

\* Mutant: the number of clocks is rounded up.
CutUp(us) ==
  LET whole == (us * Parts + cia_time_us - 1) \div cia_time_us
  IN  IF whole < IntMod THEN whole % CountMod ELSE CountMod - 1

\* The clocks in a time: the conversion of a double to int16_t, then uint16_t.
Cut(us) ==
  LET whole == (us * Parts) \div cia_time_us
  IN  IF whole < IntMod THEN whole % CountMod ELSE CountMod - 1

\* Mutant: what was left of the last round is forgotten.
MeasureAnew(us) ==
  /\ pc = "asleep"
  /\ us \in IF started THEN Elapsed \cup (IF cut THEN {} ELSE Late) ELSE Dates
  /\ started => us >= cia_latency_us
  /\ microseconds' = us
  /\ count' = Cut(us)
  /\ pc' = "counted" /\ started' = TRUE
  /\ drift' = Counted(Kept)
  /\ cut' = (cut \/ (us * Parts) \div cia_time_us >= CountMod)
  /\ UNCHANGED <<vars, cia_time_us, cia_latency_us, changed>>

(***************************************************************************)
(* The sleep is over, and its time is measured.  In the first round        *)
(* `start` is 0, or when the last process has ended, and the difference is *)
(* anything.                                                               *)
(***************************************************************************)
Measure(us) ==
  LET sum == (microseconds + us) % MicroMod
  IN  /\ pc = "asleep"
      /\ us \in IF started THEN Elapsed \cup (IF cut THEN {} ELSE Late) ELSE Dates
      /\ started => us >= cia_latency_us
      /\ microseconds' = sum
      /\ count' = Cut(sum)
      /\ pc' = "counted" /\ started' = TRUE
      /\ drift' = Counted(us * Parts + Kept - sum * Parts)
      /\ cut' = (cut \/ sum # microseconds + us \/ (sum * Parts) \div cia_time_us >= CountMod)
      /\ UNCHANGED <<vars, cia_time_us, cia_latency_us, changed>>

\* 1 cia time = 10 cpu cycles
CyclesOf(n) == n * PerClock

\* The conversion of a double to uint32_t: towards 0, and what is negative wraps.
Whole(parts) ==
  (IF parts >= 0 THEN parts \div Parts ELSE -((-parts) \div Parts)) % MicroMod

\* Mutant: what is left of a clock is dropped.
DropsTheRest ==
  /\ pc = "counted"
  /\ microseconds' = 0
  /\ drift' = Counted(Kept - count * cia_time_us)
  /\ pc' = "asleep"
  /\ IF CyclesOf(count) = 0 THEN UNCHANGED vars ELSE DoCycles(CyclesOf(count))
  /\ UNCHANGED <<count, cia_time_us, cia_latency_us, started, cut, changed>>

(***************************************************************************)
(* The time of the clocks counted is taken away, and do_cia advances the   *)
(* scheduler.  cia_time_us is read again: if it is longer by now, the      *)
(* difference may be negative.                                             *)
(***************************************************************************)
Advance ==
  /\ pc = "counted"
  /\ microseconds' = Whole(Kept - count * cia_time_us)
  /\ drift' = Counted(Kept - count * cia_time_us - microseconds' * Parts)
  /\ pc' = "asleep"
  /\ IF CyclesOf(count) = 0 THEN UNCHANGED vars ELSE DoCycles(CyclesOf(count))
  /\ UNCHANGED <<count, cia_time_us, cia_latency_us, started, cut, changed>>

setCIATimingAccuracy(us) ==
  /\ cia_latency_us' = us
  /\ UNCHANGED <<vars, pc, microseconds, count, cia_time_us, started, drift, cut, changed>>

\* A new length comes too late for a count already made; and what was kept may be
\* a whole clock by the new length, which the next round counts.
setCIAClockSpeed(us) ==
  /\ cia_time_us' = us
  /\ changed' = (changed \/ (us # cia_time_us /\ (pc = "counted" \/ Kept >= us)))
  /\ UNCHANGED <<vars, pc, microseconds, count, cia_latency_us, started, drift, cut>>

\* The owners of the slots, and blits polled for, meanwhile.
Others ==
  /\ \/ \E s \in Slots : \E d \in ArmDelays[s] : Arm(s, d)
     \/ \E s \in Slots : Cancel(s)
     \/ \E s \in Slots : RunEarly(s)
  /\ UNCHANGED clocks

ProcessNext ==
  \/ \E us \in Elapsed \cup Late \cup Dates : Measure(us)
  \/ Advance
  \/ \E us \in Latencies : setCIATimingAccuracy(us)
  \/ \E us \in Speeds : setCIAClockSpeed(us)
  \/ Others

ProcessSpec == ProcessInit /\ [][ProcessNext]_allvars

\* The loop goes on: each sleep ends, and nothing keeps the process for ever from
\* the scheduler's lock.
FairProcess == ProcessSpec /\ WF_allvars(\E us \in Elapsed \cup Late \cup Dates : Measure(us))
                           /\ WF_allvars(Advance)

-----------------------------------------------------------------------------
(* Properties.                                                             *)

\* Emulated time never runs ahead of measured time, whatever the delays,
\* the accuracy and the lengths of a clock, unless the length is changed between the
\* two times a round reads it.
NeverAhead == ~changed => drift >= 0

\* What a round keeps for the next is less than a clock, as long as no count exceeded
\* 16 bits: a round says nothing of the time earlier rounds lost.
KeepsLessThanAClock == ~cut /\ ~changed /\ pc = "asleep" => Kept < cia_time_us

\* The time base between two rounds: within its widths, never ahead, and with less
\* than a clock in hand.
KeepsTime == ProcessTypeOK /\ NeverAhead /\ KeepsLessThanAClock

\* Each round loses less than a microsecond when the time kept is cut to whole ones,
\* also a round too late for its count, and what is lost is never made up: emulated
\* time falls behind by the losses of all rounds together, with no bound (README.md,
\* lines 38 to 40, has the overall timing not affected).
LossesAddUp ==
  [][~changed' => /\ drift' >= drift
                  /\ pc = "counted" /\ pc' = "asleep" => drift' - drift < Parts]_allvars

\* 2^16 clocks or more are kept that no count has reached; after a round, to within
\* the microsecond it cuts off.
Behind ==
  IF pc = "counted" THEN Kept >= CountMod * cia_time_us
                    ELSE Kept + Parts > CountMod * cia_time_us

\* A process that was ever late by 2^16 clocks stays so late: what a count cuts off is
\* kept from round to round, but no later count reaches it, until the sum of
\* microseconds wraps, a round takes no time at all, or the clock gets another length.
LateForGood ==
  [][Behind => \/ Behind'
               \/ pc = "asleep" /\ pc' = "counted" /\ microseconds' <= microseconds
               \/ changed' \/ cia_time_us' # cia_time_us]_allvars
=============================================================================
