----------------------------- MODULE CiaProofs -----------------------------
(* Theorems about Cia.tla, for every width, clock rate and program.        *)
EXTENDS Cia, TLAPS

Timer == [count : 0..LatchMax, latch : 0..LatchMax, start : BOOLEAN,
          oneshot : BOOLEAN, source : Sources]
TimerTable == [Chips -> [Timers -> Timer]]

(***************************************************************************)
(* Latches, clocks and the smallest of a set of times.                     *)
(***************************************************************************)
LEMMA LatchMaxNat == LatchMax \in Nat /\ LatchMax = Byte * Byte - 1
<1>1. Byte \in Nat /\ Byte >= 1
  BY CiaAssumption
<1>2. Byte * Byte \in Nat /\ Byte * Byte >= 1
  BY <1>1
<1> QED
  BY <1>2 DEF LatchMax

\* Either byte of a latch can be replaced.
LEMMA LatchBytes ==
  ASSUME NEW latch \in 0..LatchMax, NEW v \in 0..(Byte - 1)
  PROVE  /\ (latch \div Byte) * Byte + v \in 0..LatchMax
         /\ v * Byte + (latch % Byte) \in 0..LatchMax
<1>1. Byte \in Nat /\ Byte >= 1 /\ LatchMax = Byte * Byte - 1 /\ LatchMax \in Nat
  BY CiaAssumption, LatchMaxNat
<1> DEFINE q == latch \div Byte
           r == latch % Byte
<1>2. /\ q \in Int /\ r \in 0..(Byte - 1) /\ latch = Byte * q + r
  BY <1>1
<1>3. q >= 0
  <2>1. SUFFICES ASSUME q <= -1 PROVE FALSE
    BY <1>2
  <2>2. Byte * q <= Byte * (-1)
    BY <1>1, <1>2, <2>1
  <2> QED
    BY <1>1, <1>2, <2>2
<1>4. q <= Byte - 1
  <2>1. SUFFICES ASSUME q >= Byte PROVE FALSE
    BY <1>1, <1>2
  <2>2. Byte * q >= Byte * Byte
    BY <1>1, <1>2, <2>1
  <2> QED
    BY <1>1, <1>2, <2>2
<1>5. \A a, b \in 0..(Byte - 1) : a * Byte + b \in 0..LatchMax
  <2> SUFFICES ASSUME NEW a \in 0..(Byte - 1), NEW b \in 0..(Byte - 1)
               PROVE  a * Byte + b \in 0..LatchMax
    OBVIOUS
  <2>1. a * Byte <= (Byte - 1) * Byte /\ a * Byte >= 0
    BY <1>1
  <2>2. (Byte - 1) * Byte = Byte * Byte - Byte
    BY <1>1
  <2> QED
    BY <1>1, <2>1, <2>2
<1> QED
  BY <1>2, <1>3, <1>4, <1>5

LEMMA ClocksNat ==
  ASSUME TypeOK, NEW e \in Nat
  PROVE  Clocks(e) \in Nat /\ CCount(e) % DIV10 \in 0..(DIV10 - 1)
<1>1. CCountMod \in Nat \ {0} /\ DIV10 \in Nat \ {0} /\ lastdiv10 \in Nat
  BY CiaAssumption DEF TypeOK
<1>2. e % CCountMod \in Nat
  BY <1>1
<1>3. CCount(e) \in Nat
  BY <1>1, <1>2 DEF CCount
<1> QED
  BY <1>1, <1>3 DEF Clocks

\* The next due time is the smallest of at most six.
HasMin(S) == S = {} \/ \E x \in S : \A y \in S : x =< y

LEMMA PutBack ==
  ASSUME NEW S \in SUBSET Nat, NEW a, HasMin(S \ {a})
  PROVE  HasMin(S)
<1>1. CASE a \notin S
  <2>1. S \ {a} = S
    BY <1>1
  <2> QED
    BY <2>1
<1>2. CASE a \in S /\ S \ {a} = {}
  <2>1. S = {a} /\ a \in Nat
    BY <1>2
  <2> QED
    BY <2>1 DEF HasMin
<1>3. CASE a \in S /\ S \ {a} # {}
  <2>1. PICK x \in S \ {a} : \A y \in S \ {a} : x =< y
    BY <1>3 DEF HasMin
  <2>2. CASE a <= x
    <3>1. \A y \in S : a <= y
      BY <1>3, <2>1, <2>2
    <3> QED
      BY <1>3, <3>1 DEF HasMin
  <2>3. CASE ~(a <= x)
    <3>1. \A y \in S : x <= y
      BY <1>3, <2>1, <2>3
    <3> QED
      BY <2>1, <3>1 DEF HasMin
  <2> QED
    BY <2>2, <2>3
<1> QED
  BY <1>1, <1>2, <1>3

\* The operands of the arithmetic of CIA_calctimers.
LEMMA TimeOfClockedIs ==
  ASSUME NEW tm \in TimerTable, NEW d \in 0..(DIV10 - 1), NEW c \in Chips, NEW t \in Timers
  PROVE  /\ TimeOfClocked(tm, d, c, t) \in Nat
         /\ DIV10 * (tm[c][t].count + 1) \in Nat
         /\ TimeOfClocked(tm, d, c, t) = DIV10 * (tm[c][t].count + 1) - d
         /\ DIV10 * (tm[c][t].count + 1) < LongMod
<1>1. DIV10 \in Nat \ {0} /\ LatchMax \in Nat
  BY CiaAssumption, LatchMaxNat
<1>2. tm[c][t].count \in 0..LatchMax
  BY <1>1 DEF TimerTable, Timer
<1>3. DIV10 * tm[c][t].count \in Nat
  BY <1>1, <1>2
<1>4. DIV10 * (tm[c][t].count + 1) = DIV10 * tm[c][t].count + DIV10
  BY <1>1, <1>2
<1>5. DIV10 * (tm[c][t].count + 1) <= DIV10 * (LatchMax + 1)
  BY <1>1, <1>2
<1>6. DIV10 * (LatchMax + 1) < LongMod /\ DIV10 * (LatchMax + 1) \in Nat /\ LongMod \in Nat
  BY WidthAssumption, CiaAssumption, <1>1
<1> QED
  BY <1>1, <1>3, <1>4, <1>5, <1>6 DEF TimeOfClocked

\* A cascaded time is never nearer than that of its timer A, unless it is cut.
LEMMA TimeOfCascadedIs ==
  ASSUME NEW tm \in TimerTable, NEW d \in 0..(DIV10 - 1), NEW c \in Chips
  PROVE  /\ tm[c]["ta"].latch \in Nat /\ tm[c]["tb"].count \in Nat
         /\ TimeOfCascaded(tm, d, c) \in Nat
         /\ TimeOfClocked(tm, d, c, "ta") <= TimeOfCascaded(tm, d, c)
         /\ TimeOfCascaded(tm, d, c) % LongMod \in 0..(LongMod - 1)
         /\ CascadePredicted(tm, c) /\ ~Wraps(tm, d)
              => TimeOfCascaded(tm, d, c) % LongMod = TimeOfCascaded(tm, d, c)
<1> DEFINE time == TimeOfCascaded(tm, d, c)
<1>1. /\ DIV10 \in Nat \ {0} /\ LatchMax \in Nat /\ LongMod \in Nat \ {0}
      /\ "ta" \in Timers /\ "tb" \in Timers
  BY CiaAssumption, LatchMaxNat DEF Timers
<1>2. /\ tm[c]["ta"].latch \in Nat /\ tm[c]["tb"].count \in Nat
      /\ TimeOfClocked(tm, d, c, "ta") \in Nat
  <2>1. tm[c]["ta"] \in Timer /\ tm[c]["tb"] \in Timer
    BY <1>1 DEF TimerTable
  <2>2. tm[c]["ta"].latch \in Nat /\ tm[c]["tb"].count \in Nat
    BY <1>1, <2>1 DEF Timer
  <2> QED
    BY <1>1, <2>2, TimeOfClockedIs
<1>3. tm[c]["ta"].latch * DIV10 \in Nat
  BY <1>1, <1>2
<1>4. tm[c]["ta"].latch * DIV10 * tm[c]["tb"].count \in Nat
  BY <1>2, <1>3
<1>5. time \in Nat /\ TimeOfClocked(tm, d, c, "ta") <= time
  BY <1>2, <1>4 DEF TimeOfCascaded
<1>6. CascadePredicted(tm, c) /\ ~Wraps(tm, d) => time < LongMod - 1
  BY <1>1, <1>5 DEF Wraps
<1> HIDE DEF time
<1>7. time % LongMod \in 0..(LongMod - 1)
  BY <1>1, <1>5
<1>8. time < LongMod - 1 => time % LongMod = time
  BY <1>1, <1>5
<1> QED
  BY <1>2, <1>5, <1>6, <1>7, <1>8 DEF time

LEMMA DueTimesNat ==
  ASSUME NEW tm \in TimerTable, NEW d \in 0..(DIV10 - 1)
  PROVE  DueTimes(tm, d) \subseteq 0..(LongMod - 1)
<1>1. LongMod \in Nat \ {0} /\ DIV10 \in Nat
  BY CiaAssumption
<1>2. \A c \in Chips, t \in Timers : TimeOfClocked(tm, d, c, t) \in 0..(LongMod - 1)
  BY <1>1, TimeOfClockedIs
<1>3. \A c \in Chips : TimeOfCascaded(tm, d, c) % LongMod \in 0..(LongMod - 1)
  BY TimeOfCascadedIs
<1>4. \A x \in DueTimes(tm, d) :
        \/ \E c \in Chips, t \in Timers : x = TimeOfClocked(tm, d, c, t)
        \/ \E c \in Chips : x = TimeOfCascaded(tm, d, c) % LongMod
  BY DEF DueTimes
<1> QED
  BY <1>2, <1>3, <1>4

LEMMA CalcTimersNat ==
  ASSUME NEW tm \in TimerTable, NEW d \in 0..(DIV10 - 1)
  PROVE  /\ CalcTimers(tm, d) \in 0..(LongMod - 1) \cup {Idle}
         /\ CalcTimers(tm, d) \in DueTimes(tm, d) \cup {Idle}
         /\ \A x \in DueTimes(tm, d) : CalcTimers(tm, d) \in Nat /\ CalcTimers(tm, d) <= x
<1> DEFINE S == DueTimes(tm, d)
           at(c, t) == TimeOfClocked(tm, d, c, t)
           cascade(c) == TimeOfCascaded(tm, d, c) % LongMod
           S1 == S \ {at("A", "ta")}
           S2 == S1 \ {at("A", "tb")}
           S3 == S2 \ {at("B", "ta")}
           S4 == S3 \ {at("B", "tb")}
           S5 == S4 \ {cascade("A")}
           S6 == S5 \ {cascade("B")}
<1>1. S \subseteq Nat /\ S \subseteq 0..(LongMod - 1)
  BY DueTimesNat, CiaAssumption
<1>2. S6 = {}
  <2>1. Chips \subseteq {"A", "B"}
    BY CiaAssumption
  <2>2. \A x \in S : \/ x \in {at("A", "ta"), at("A", "tb"), at("B", "ta"), at("B", "tb")}
                     \/ x \in {cascade("A"), cascade("B")}
    <3>1. \A x \in S :
            \/ \E c \in Chips, t \in Timers : x = at(c, t)
            \/ \E c \in Chips : x = cascade(c)
      BY DEF DueTimes
    <3> HIDE DEF S, at, cascade
    <3> QED
      BY <2>1, <3>1 DEF Timers
  <2> HIDE DEF S, at, cascade
  <2> QED
    BY <2>2
<1> HIDE DEF S, at, cascade
<1>3. HasMin(S6)
  BY <1>2 DEF HasMin
<1>4. HasMin(S5)
  BY <1>1, <1>3, PutBack
<1>5. HasMin(S4)
  BY <1>1, <1>4, PutBack
<1>6. HasMin(S3)
  BY <1>1, <1>5, PutBack
<1>7. HasMin(S2)
  BY <1>1, <1>6, PutBack
<1>8. HasMin(S1)
  BY <1>1, <1>7, PutBack
<1>9. HasMin(S)
  BY <1>1, <1>8, PutBack
<1>10. S # {} => Min(S) \in S /\ \A x \in S : Min(S) <= x
  BY <1>9 DEF HasMin, Min
<1> QED
  BY <1>1, <1>10 DEF CalcTimers, S

-----------------------------------------------------------------------------
(***************************************************************************)
(* CIA_update and CIA_calctimers.                                          *)
(***************************************************************************)
LEMMA UnderflowsType ==
  ASSUME NEW k
  PROVE  Underflows(k) \subseteq Chips \X Timers
BY DEF Underflows, Timers

LEMMA TimersAfterType ==
  ASSUME TypeOK, NEW k \in Nat
  PROVE  TimersAfter(k, Underflows(k)) \in TimerTable
<1> DEFINE under == Underflows(k)
<1>1. tmr \in TimerTable
  BY DEF TypeOK, TimerTable, Timer
<1>2. LatchMax \in Nat
  BY LatchMaxNat
<1>3. \A c \in Chips, t \in Timers : CountAfter(c, t, k, under) \in 0..LatchMax
  <2> SUFFICES ASSUME NEW c \in Chips, NEW t \in Timers
               PROVE  CountAfter(c, t, k, under) \in 0..LatchMax
    OBVIOUS
  <2>1. tmr[c][t].count \in 0..LatchMax /\ tmr[c][t].latch \in 0..LatchMax
    BY <1>1 DEF TimerTable, Timer
  <2>2. t = "tb" /\ Cascaded(c) /\ <<c, "ta">> \in under /\ <<c, t>> \notin under
          => tmr[c][t].count # 0
    BY DEF Underflows, UnderflowB
  <2> HIDE DEF under
  <2> QED
    BY <1>2, <2>1, <2>2 DEF CountAfter
<1>4. \A c \in Chips, t \in Timers :
        [tmr[c][t] EXCEPT
           !.count = CountAfter(c, t, k, under),
           !.start = @ /\ ~(<<c, t>> \in under /\ tmr[c][t].oneshot)] \in Timer
  <2> SUFFICES ASSUME NEW c \in Chips, NEW t \in Timers
               PROVE  [tmr[c][t] EXCEPT
                         !.count = CountAfter(c, t, k, under),
                         !.start = @ /\ ~(<<c, t>> \in under /\ tmr[c][t].oneshot)]
                       \in Timer
    OBVIOUS
  <2>1. tmr[c][t] \in Timer
    BY <1>1 DEF TimerTable
  <2>2. CountAfter(c, t, k, under) \in 0..LatchMax
    BY <1>3
  <2>3. (tmr[c][t].start /\ ~(<<c, t>> \in under /\ tmr[c][t].oneshot)) \in BOOLEAN
    OBVIOUS
  <2> HIDE DEF under
  <2> QED
    BY <2>1, <2>2, <2>3 DEF Timer
<1> HIDE DEF under
<1> QED
  BY <1>4 DEF TimersAfter, TimerTable, under

LEMMA RethoughtType ==
  ASSUME TypeOK, NEW under, Rethought(under)
  PROVE  /\ icr' \in [Chips -> SUBSET Flags]
         /\ ir' \in [Chips -> BOOLEAN]
         /\ intreq' \in [Chips -> BOOLEAN]
<1> DEFINE flags == [c \in Chips |-> {Flag(t) : t \in {u \in Timers : <<c, u>> \in under}}]
           requests == {c \in Chips : flags[c] # {} /\ Requests(c, icr[c] \cup flags[c])}
<1>1. /\ icr' = [c \in Chips |-> icr[c] \cup flags[c]]
      /\ ir' = [c \in Chips |-> IF flags[c] # {} THEN c \in requests ELSE ir[c]]
      /\ intreq' = [c \in Chips |-> intreq[c] \/ c \in requests]
  BY DEF Rethought
<1>2. \A c \in Chips : flags[c] \subseteq {"TA", "TB"}
  BY DEF Flag
<1> HIDE DEF flags, requests
<1>3. icr' \in [Chips -> SUBSET Flags]
  BY <1>1, <1>2 DEF TypeOK, Flags
<1>4. ir' \in [Chips -> BOOLEAN]
  <2>1. \A c \in Chips : ir[c] \in BOOLEAN
    BY DEF TypeOK
  <2>2. \A c \in Chips : (c \in requests) \in BOOLEAN
    BY SMT
  <2>3. \A c \in Chips : (IF flags[c] # {} THEN c \in requests ELSE ir[c]) \in BOOLEAN
    BY <2>1, <2>2, Zenon
  <2> QED
    BY <1>1, <2>3, Zenon
<1>5. intreq' \in [Chips -> BOOLEAN]
  BY <1>1
<1> QED
  BY <1>3, <1>4, <1>5

LEMMA UpdateType ==
  ASSUME TypeOK, NEW e \in Nat, NEW rest \in 0..(LongMod - 1), NEW tm \in TimerTable,
         NEW history, NEW under, UpdateAndReschedule(e, tm, history, under, rest)
  PROVE  TypeOK'
<1>1. tmr' \in TimerTable
  BY DEF UpdateAndReschedule
<1>2. /\ icr' \in [Chips -> SUBSET Flags]
      /\ ir' \in [Chips -> BOOLEAN]
      /\ intreq' \in [Chips -> BOOLEAN]
  BY RethoughtType DEF UpdateAndReschedule
<1>3. /\ lastdiv10' \in 0..(DIV10 - 1)
      /\ div10' \in 0..(DIV10 - 1)
  BY ClocksNat DEF UpdateAndReschedule, Remainders, TypeOK
<1>4. CalcTimers(tm, div10') \in Nat \cup {Idle}
  BY <1>3, CalcTimersNat
<1>5. /\ due' \in 0..(LongMod - 1) \cup {Idle}
      /\ passed' \in BOOLEAN
  <2>1. /\ due' = IF CalcTimers(tm, div10') = Idle THEN Idle
                  ELSE (CalcTimers(tm, div10') - rest) % LongMod
        /\ passed' = (CalcTimers(tm, div10') # Idle /\ CalcTimers(tm, div10') < rest)
    BY DEF UpdateAndReschedule
  <2>2. LongMod \in Nat \ {0} /\ rest \in Int
    BY CiaAssumption
  <2>3. ASSUME NEW d \in Nat PROVE (d - rest) % LongMod \in 0..(LongMod - 1)
    BY <2>2
  <2> QED
    BY <1>4, <2>1, <2>3, Zenon
<1>6. /\ since' \in 0..(LongMod - 1)
      /\ imask' \in [Chips -> SUBSET Flags]
      /\ aborted' \in BOOLEAN
  BY DEF UpdateAndReschedule, TypeOK
<1> QED
  BY <1>1, <1>2, <1>3, <1>5, <1>6 DEF TypeOK, TimerTable, Timer

LEMMA AbortType ==
  ASSUME TypeOK, NEW e, Abort(e)
  PROVE  TypeOK'
BY DEF TypeOK, Abort

LEMMA TimerWriteType ==
  ASSUME TypeOK, NEW c \in Chips, NEW t \in Timers, NEW new, NEW history,
         Updated[c][t] \in Timer => new \in Timer,
         TimerWrite(c, t, new, history)
  PROVE  TypeOK'
<1> DEFINE k == Clocks(since)
<1>1. since \in Nat /\ k \in Nat /\ 0 \in 0..(LongMod - 1)
  BY ClocksNat, CiaAssumption DEF TypeOK
<1>2. CASE AssertFails(k) /\ Abort(since)
  BY <1>2, AbortType
<1>3. CASE UpdateAndReschedule(since, [Updated EXCEPT ![c][t] = new],
             [Elapsed EXCEPT ![c][t] = history], Underflows(k), 0)
  <2>1. Updated \in TimerTable
    BY <1>1, TimersAfterType DEF Updated
  <2>2. new \in Timer
    BY <2>1 DEF TimerTable
  <2>3. [Updated EXCEPT ![c][t] = new] \in TimerTable
    BY <2>1, <2>2 DEF TimerTable
  <2> QED
    BY <1>1, <1>3, <2>3, UpdateType
<1> QED
  BY <1>2, <1>3 DEF TimerWrite

HiWritten(tm, v) ==
  LET latch == v * Byte + (tm.latch % Byte)
  IN  [tm EXCEPT !.latch = latch,
                 !.count = IF ~tm.start \/ tm.oneshot THEN latch ELSE @,
                 !.start = @ \/ tm.oneshot]

LEMMA HiWrittenType ==
  ASSUME NEW tm \in Timer, NEW v \in 0..(Byte - 1)
  PROVE  HiWritten(tm, v) \in Timer
<1> DEFINE latch == v * Byte + (tm.latch % Byte)
<1>1. latch \in 0..LatchMax
  BY LatchBytes DEF Timer
<1>2. [tm EXCEPT !.latch = latch,
                 !.count = IF ~tm.start \/ tm.oneshot THEN latch ELSE @,
                 !.start = @ \/ tm.oneshot] \in Timer
  <2> HIDE DEF latch
  <2> QED
    BY <1>1 DEF Timer
<1> QED
  BY <1>2 DEF HiWritten

-----------------------------------------------------------------------------
(***************************************************************************)
(* The type invariant.                                                     *)
(***************************************************************************)
LEMMA InitType == Init => TypeOK
<1> SUFFICES ASSUME Init PROVE TypeOK
  OBVIOUS
<1>1. LatchMax \in Nat /\ DIV10 \in Nat \ {0}
  BY LatchMaxNat, CiaAssumption
<1>2. ResetTimer \in Timer
  BY <1>1 DEF ResetTimer, Timer, Sources
<1>3. tmr \in TimerTable
  BY <1>2 DEF Init, TimerTable
<1>4. /\ icr \in [Chips -> SUBSET Flags] /\ imask \in [Chips -> SUBSET Flags]
      /\ ir \in [Chips -> BOOLEAN] /\ intreq \in [Chips -> BOOLEAN]
  <2>1. {} \in SUBSET Flags /\ FALSE \in BOOLEAN
    OBVIOUS
  <2> QED
    BY <2>1 DEF Init
<1>5. /\ since \in 0..(LongMod - 1)
      /\ div10 \in 0..(DIV10 - 1) /\ lastdiv10 \in 0..(DIV10 - 1)
      /\ due \in 0..(LongMod - 1) \cup {Idle}
  BY <1>1, CiaAssumption DEF Init
<1>6. aborted \in BOOLEAN /\ passed \in BOOLEAN
  BY Zenon DEF Init
<1> QED
  BY <1>3, <1>4, <1>5, <1>6 DEF TypeOK, TimerTable, Timer

LEMMA ProgramType ==
  ASSUME TypeOK, Program
  PROVE  TypeOK'
<1>1. ASSUME NEW c \in Chips, NEW lo \in LoBytes, WriteLo(c, lo[1], lo[2])
      PROVE  TypeOK'
  <2>1. lo[1] \in Timers /\ lo[2] \in 0..(Byte - 1)
    BY CiaAssumption
  <2>2. Updated[c][lo[1]] \in Timer =>
          [Updated[c][lo[1]] EXCEPT !.latch = (@ \div Byte) * Byte + lo[2]] \in Timer
    BY <2>1, LatchBytes DEF Timer
  <2> QED
    BY <1>1, <2>1, <2>2, TimerWriteType DEF WriteLo
<1>2. ASSUME NEW c \in Chips, NEW hi \in HiBytes, WriteHi(c, hi[1], hi[2])
      PROVE  TypeOK'
  <2> DEFINE tm == Updated[c][hi[1]]
  <2>1. hi[1] \in Timers
    BY CiaAssumption
  <2>2. tm \in Timer => HiWritten(tm, hi[2]) \in Timer
    BY CiaAssumption, HiWrittenType
  <2> QED
    BY <1>2, <2>1, <2>2, TimerWriteType DEF WriteHi, HiWritten
<1>3. ASSUME NEW mode \in Modes, NEW start \in BOOLEAN, NEW load \in BOOLEAN,
             WriteCr(mode[1], mode[2], mode[3], mode[4], start, load)
      PROVE  TypeOK'
  <2> DEFINE tm  == Updated[mode[1]][mode[2]]
             new == [tm EXCEPT !.start = start, !.oneshot = mode[4], !.source = mode[3],
                               !.count = IF load THEN tm.latch ELSE @]
  <2>1. /\ mode[1] \in Chips /\ mode[2] \in Timers
        /\ mode[3] \in Sources /\ mode[4] \in BOOLEAN
    BY CiaAssumption
  <2>2. tm \in Timer => new \in Timer
    <3> HIDE DEF tm
    <3> QED
      BY <2>1 DEF Timer
  <2> QED
    BY <1>3, <2>1, <2>2, TimerWriteType DEF WriteCr
<1>4. ASSUME NEW c \in Chips, NEW f \in Masks, NEW enable \in BOOLEAN,
             WriteMask(c, f, enable)
      PROVE  TypeOK'
  <2>1. f \subseteq Flags
    BY CiaAssumption
  <2> QED
    BY <1>4, <2>1 DEF WriteMask, TypeOK
<1>5. ASSUME NEW c \in Chips, ReadIcr(c) PROVE TypeOK'
  BY <1>5 DEF ReadIcr, TypeOK
<1>6. CASE WritePrb
  BY <1>6 DEF WritePrb, TypeOK, Flags
<1>7. ASSUME NEW c \in Chips, ClearIntreq(c) PROVE TypeOK'
  BY <1>7 DEF ClearIntreq, TypeOK
<1>8. CASE RethinkCias
  <2>1. /\ ir' \in [Chips -> BOOLEAN]
        /\ intreq' \in [Chips -> BOOLEAN]
    BY <1>8 DEF RethinkCias, Requests
  <2> QED
    BY <1>8, <2>1 DEF RethinkCias, TypeOK
<1> QED
  BY <1>1, <1>2, <1>3, <1>4, <1>5, <1>6, <1>7, <1>8 DEF Program

LEMMA AdvanceType ==
  ASSUME TypeOK, Advance
  PROVE  TypeOK'
<1>1. PICK n \in Chunks : Passes(n) \/ EventRuns(n)
  BY DEF Advance
<1>2. /\ n \in 1..(LongMod - 1) /\ LongMod \in Nat \ {0} /\ since \in 0..(LongMod - 1)
      /\ due \in 0..(LongMod - 1) \cup {Idle}
  BY CiaAssumption DEF TypeOK
<1>3. CASE Passes(n)
  <2>1. since' \in 0..(LongMod - 1)
    BY <1>2, <1>3 DEF Passes
  <2>2. due' \in 0..(LongMod - 1) \cup {Idle}
    BY <1>2, <1>3 DEF Passes
  <2> QED
    BY <1>3, <2>1, <2>2 DEF Passes, TypeOK
<1>4. CASE EventRuns(n)
  <2> DEFINE e == since + due
             k == Clocks(e)
             under == Underflows(k)
  <2>1. due \in Nat /\ n > due
    BY <1>2, <1>4 DEF EventRuns
  <2>2. e \in Nat /\ n - due \in 0..(LongMod - 1)
    BY <1>2, <2>1
  <2>3. k \in Nat
    BY <2>2, ClocksNat
  <2>4. CASE Abort(e)
    BY <2>4, AbortType
  <2>5. CASE UpdateAndReschedule(e, TimersAfter(k, under), TimedAfter(e, under), under, n - due)
    <3>1. TimersAfter(k, under) \in TimerTable
      BY <2>3, TimersAfterType
    <3> HIDE DEF e, k, under
    <3> QED
      BY <2>2, <2>5, <3>1, UpdateType
  <2> QED
    BY <1>4, <2>4, <2>5 DEF EventRuns
<1> QED
  BY <1>1, <1>3, <1>4

\* Counters, latches and remainders stay inside their widths and the slot's
\* due time is a time, whatever the program writes and when (CIA_update,
\* CIA_calctimers and the register writes of both chips).
THEOREM TypeCorrect == Spec => []TypeOK
<1>1. Init => TypeOK
  BY InitType
<1>2. TypeOK /\ [Next]_vars => TypeOK'
  <2>1. TypeOK /\ UNCHANGED vars => TypeOK'
    BY DEF TypeOK, vars, ciavars
  <2> QED
    BY <2>1, ProgramType, AdvanceType DEF Next
<1> QED
  BY <1>1, <1>2, PTL DEF Spec

-----------------------------------------------------------------------------
(***************************************************************************)
(* Interrupts.  Only Rethought, WritePrb and the clearing actions touch    *)
(* the pending sources, and only Rethought adds a timer's.                 *)
(***************************************************************************)
NewFlags(under, c) == {Flag(t) : t \in {u \in Timers : <<c, u>> \in under}}

LEMMA RethoughtRequests ==
  ASSUME TypeOK, NEW under, Rethought(under), NEW c \in Chips
  PROVE  /\ icr'[c] = icr[c] \cup NewFlags(under, c)
         /\ NewFlags(under, c) = {} => ir'[c] = ir[c]
         /\ NewFlags(under, c) # {} => (ir'[c] <=> imask[c] \cap icr'[c] # {})
         /\ NewFlags(under, c) # {} /\ imask[c] \cap icr'[c] # {} => intreq'[c]
<1> DEFINE flags == [d \in Chips |-> NewFlags(under, d)]
           requests == {d \in Chips : flags[d] # {} /\ Requests(d, icr[d] \cup flags[d])}
<1>1. /\ icr' = [d \in Chips |-> icr[d] \cup flags[d]]
      /\ ir' = [d \in Chips |-> IF flags[d] # {} THEN d \in requests ELSE ir[d]]
      /\ intreq' = [d \in Chips |-> intreq[d] \/ d \in requests]
  BY DEF Rethought, NewFlags
<1>2. flags[c] = NewFlags(under, c)
  OBVIOUS
<1>3. c \in requests <=> flags[c] # {} /\ imask[c] \cap (icr[c] \cup flags[c]) # {}
  BY DEF Requests
<1> HIDE DEF flags, requests
<1>4. icr'[c] = icr[c] \cup flags[c]
  BY <1>1
<1>5. ir'[c] = IF flags[c] # {} THEN c \in requests ELSE ir[c]
  BY <1>1, Zenon
<1>6. intreq'[c] = (intreq[c] \/ c \in requests)
  BY <1>1, Zenon
<1> QED
  BY <1>2, <1>3, <1>4, <1>5, <1>6, Zenon

\* What a step can do to the pending sources and to bit 7.
LEMMA InterruptSteps ==
  ASSUME Next
  PROVE  \/ \E under \in SUBSET (Chips \X Timers) : Rethought(under) /\ imask' = imask
         \/ icr' = icr /\ ir' = ir
         \/ \E c \in Chips : ReadIcr(c)
         \/ WritePrb
         \/ RethinkCias
<1>1. ASSUME NEW e, NEW tm, NEW history, NEW k, NEW rest,
             UpdateAndReschedule(e, tm, history, Underflows(k), rest)
      PROVE  \E under \in SUBSET (Chips \X Timers) : Rethought(under) /\ imask' = imask
  <2>1. Rethought(Underflows(k)) /\ imask' = imask
    BY <1>1 DEF UpdateAndReschedule
  <2>2. Underflows(k) \in SUBSET (Chips \X Timers)
    BY UnderflowsType
  <2> QED
    BY <2>1, <2>2
<1>2. ASSUME NEW c, NEW t, NEW new, NEW history, TimerWrite(c, t, new, history)
      PROVE  \/ \E under \in SUBSET (Chips \X Timers) : Rethought(under) /\ imask' = imask
             \/ icr' = icr /\ ir' = ir
  <2>1. CASE Abort(since)
    BY <2>1 DEF Abort
  <2>2. CASE \E tm, h : UpdateAndReschedule(since, tm, h, Underflows(Clocks(since)), 0)
    BY <1>1, <2>2
  <2> QED
    BY <1>2, <2>1, <2>2 DEF TimerWrite
<1>3. CASE Program
  <2>1. CASE \E c \in Chips, lo \in LoBytes : WriteLo(c, lo[1], lo[2])
    BY <1>2, <2>1 DEF WriteLo
  <2>2. CASE \E c \in Chips, hi \in HiBytes : WriteHi(c, hi[1], hi[2])
    BY <1>2, <2>2 DEF WriteHi
  <2>3. CASE \E mode \in Modes, start, load \in BOOLEAN :
               WriteCr(mode[1], mode[2], mode[3], mode[4], start, load)
    BY <1>2, <2>3 DEF WriteCr
  <2>4. CASE \E c \in Chips, f \in Masks, enable \in BOOLEAN : WriteMask(c, f, enable)
    BY <2>4 DEF WriteMask
  <2>5. CASE \E c \in Chips : ClearIntreq(c)
    BY <2>5 DEF ClearIntreq
  <2> QED
    BY <1>3, <2>1, <2>2, <2>3, <2>4, <2>5 DEF Program
<1>4. CASE Advance
  <2>1. PICK n \in Chunks : Passes(n) \/ EventRuns(n)
    BY <1>4 DEF Advance
  <2>2. CASE Passes(n)
    BY <2>2 DEF Passes
  <2>3. CASE Abort(since + due)
    BY <2>3 DEF Abort
  <2>4. CASE \E tm, h : UpdateAndReschedule(since + due, tm, h,
                          Underflows(Clocks(since + due)), n - due)
    BY <1>1, <2>4
  <2> QED
    BY <2>1, <2>2, <2>3, <2>4 DEF EventRuns
<1> QED
  BY <1>3, <1>4 DEF Next

LEMMA IrHasSourceStep ==
  ASSUME TypeOK, IrHasSource, Next
  PROVE  IrHasSource'
<1> SUFFICES ASSUME NEW c \in Chips, ir'[c] PROVE icr'[c] # {}
  BY DEF IrHasSource
<1>1. icr \in [Chips -> SUBSET Flags] /\ ir \in [Chips -> BOOLEAN]
  BY DEF TypeOK
<1>2. ir[c] => icr[c] # {}
  BY DEF IrHasSource
<1>3. CASE \E under \in SUBSET (Chips \X Timers) : Rethought(under) /\ imask' = imask
  <2>1. PICK under \in SUBSET (Chips \X Timers) : Rethought(under)
    BY <1>3
  <2>2. CASE NewFlags(under, c) = {}
    BY <1>2, <2>1, <2>2, RethoughtRequests
  <2>3. CASE NewFlags(under, c) # {}
    BY <2>1, <2>3, RethoughtRequests
  <2> QED
    BY <2>2, <2>3
<1>4. CASE icr' = icr /\ ir' = ir
  BY <1>2, <1>4
<1>5. ASSUME NEW d \in Chips, ReadIcr(d) PROVE icr'[c] # {}
  <2>1. icr' = [icr EXCEPT ![d] = {}] /\ ir' = [ir EXCEPT ![d] = FALSE]
    BY <1>5 DEF ReadIcr
  <2>2. c # d
    BY <1>1, <2>1
  <2> QED
    BY <1>1, <1>2, <2>1, <2>2
<1>6. CASE WritePrb
  BY <1>1, <1>2, <1>6 DEF WritePrb
<1>7. CASE RethinkCias
  BY <1>7 DEF RethinkCias, Requests
<1> QED
  BY <1>3, <1>4, <1>5, <1>6, <1>7, InterruptSteps

\* Bit 7 of an icr is never read without a pending source (RethinkICRA,
\* RethinkICRB and the reads of ReadCIAA and ReadCIAB).
THEOREM IrHasSourceHolds == Spec => []IrHasSource
<1>1. Init => IrHasSource
  BY Zenon DEF Init, IrHasSource
<1>2. TypeOK /\ IrHasSource /\ [Next]_vars => IrHasSource'
  <2>1. IrHasSource /\ UNCHANGED vars => IrHasSource'
    BY DEF IrHasSource, vars, ciavars
  <2> QED
    BY <2>1, IrHasSourceStep
<1> QED
  BY <1>1, <1>2, TypeCorrect, PTL DEF Spec

LEMMA UnderflowRequestsStep ==
  ASSUME TypeOK, Next, NEW c \in Chips,
         (icr'[c] \ icr[c]) \cap imask[c] \cap {"TA", "TB"} # {}
  PROVE  ir'[c] /\ intreq'[c]
<1>1. icr \in [Chips -> SUBSET Flags] /\ ir \in [Chips -> BOOLEAN]
  BY DEF TypeOK
<1>2. CASE \E under \in SUBSET (Chips \X Timers) : Rethought(under) /\ imask' = imask
  <2>1. PICK under \in SUBSET (Chips \X Timers) : Rethought(under)
    BY <1>2
  <2>2. NewFlags(under, c) # {} /\ imask[c] \cap icr'[c] # {}
    BY <2>1, RethoughtRequests
  <2> QED
    BY <2>1, <2>2, RethoughtRequests
<1>3. CASE icr' = icr /\ ir' = ir
  BY <1>3
<1>4. ASSUME NEW d \in Chips, ReadIcr(d) PROVE FALSE
  BY <1>1, <1>4 DEF ReadIcr
<1>5. CASE WritePrb
  BY <1>1, <1>5 DEF WritePrb
<1>6. CASE RethinkCias
  BY <1>6 DEF RethinkCias
<1> QED
  BY <1>2, <1>3, <1>4, <1>5, <1>6, InterruptSteps

\* An enabled timer's underflow requests the interrupt in the step that
\* flags it, in the event or in any register write (CIA_update, lines 191-197).
THEOREM UnderflowRequestsHolds == Spec => UnderflowRequests
<1>1. TypeOK /\ [Next]_vars =>
        [\A c \in Chips :
           (icr'[c] \ icr[c]) \cap imask[c] \cap {"TA", "TB"} # {} =>
             ir'[c] /\ intreq'[c]]_vars
  BY UnderflowRequestsStep
<1> QED
  BY <1>1, TypeCorrect, PTL DEF Spec, UnderflowRequests

-----------------------------------------------------------------------------
(***************************************************************************)
(* One-shot timers.                                                        *)
(***************************************************************************)
LEMMA OneShotStep ==
  ASSUME TypeOK, Advance, NEW c \in Chips, NEW t \in Timers,
         Flag(t) \in icr'[c] \ icr[c]
  PROVE  tmr[c][t].start /\ (tmr[c][t].oneshot => ~tmr'[c][t].start)
<1>1. PICK n \in Chunks : Passes(n) \/ EventRuns(n)
  BY DEF Advance
<1> DEFINE k == Clocks(since + due)
           under == Underflows(k)
<1>2. Rethought(under) /\ tmr' = TimersAfter(k, under)
  <2>1. ~Passes(n)
    BY DEF Passes
  <2>2. ~Abort(since + due)
    BY DEF Abort
  <2> QED
    BY <1>1, <2>1, <2>2 DEF EventRuns, UpdateAndReschedule
<1>3. <<c, t>> \in under
  <2>1. Flag(t) \in NewFlags(under, c)
    BY <1>2, RethoughtRequests
  <2>2. \A u \in Timers : Flag(u) = Flag(t) => u = t
    BY DEF Flag, Timers
  <2> HIDE DEF under
  <2> QED
    BY <2>1, <2>2 DEF NewFlags
<1>4. tmr[c][t].start
  BY <1>3 DEF Underflows, UnderflowA, UnderflowB, Counting, Cascaded
<1>5. tmr'[c][t].start = (tmr[c][t].start /\ ~(<<c, t>> \in under /\ tmr[c][t].oneshot))
  <2>1. tmr'[c][t] = [tmr[c][t] EXCEPT
           !.count = CountAfter(c, t, k, under),
           !.start = @ /\ ~(<<c, t>> \in under /\ tmr[c][t].oneshot)]
    BY <1>2 DEF TimersAfter
  <2>2. tmr[c][t] \in Timer
    BY DEF TypeOK, Timer
  <2> HIDE DEF k, under
  <2> QED
    BY <2>1, <2>2 DEF Timer
<1> QED
  BY <1>3, <1>4, <1>5

\* The process flags only running timers, and a one-shot once per start
\* (CIA_update, lines 150-190).
THEOREM OneShotFiresOnceHolds == Spec => OneShotFiresOnce
<1>1. TypeOK /\ [Next]_vars =>
        [Advance =>
           \A c \in Chips, t \in Timers :
             Flag(t) \in icr'[c] \ icr[c] =>
               /\ tmr[c][t].start
               /\ tmr[c][t].oneshot => ~tmr'[c][t].start]_vars
  BY OneShotStep
<1> QED
  BY <1>1, TypeCorrect, PTL DEF Spec, OneShotFiresOnce

-----------------------------------------------------------------------------
(***************************************************************************)
(* The asserts of CIA_update.  CIA_calctimers makes RunningIsScheduled     *)
(* true, time keeps it, and from it no elapsed time that fits the uint16_t *)
(* reaches past an underflow.  A chunk that runs past the due time it has  *)
(* just set is one some clocked timer was too short for.                   *)
(***************************************************************************)
LEMMA ClockedIsPredicted ==
  ASSUME NEW tm, NEW d, NEW c \in Chips, NEW t \in Timers, Clocked(tm, c, t)
  PROVE  TimeOfClocked(tm, d, c, t) \in DueTimes(tm, d)
<1>1. <<c, t>> \in {x \in Chips \X Timers : Clocked(tm, x[1], x[2])}
  OBVIOUS
<1> QED
  BY <1>1 DEF DueTimes

LEMMA UpdateSchedules ==
  ASSUME TypeOK, NEW e \in Nat, NEW rest \in 0..(LongMod - 1), NEW tm \in TimerTable,
         NEW history, NEW under, UpdateAndReschedule(e, tm, history, under, rest)
  PROVE  RunningIsScheduled'
<1> SUFFICES ASSUME NEW c \in Chips, NEW t \in Timers, Clocked(tm, c, t), ~passed'
             PROVE  due' # Idle /\ since' + due' <= DIV10 * (tm[c][t].count + 1)
  BY DEF UpdateAndReschedule, RunningIsScheduled, Clocked
<1> DEFINE next == CalcTimers(tm, div10')
<1>1. LongMod \in Nat \ {0} /\ div10' \in 0..(DIV10 - 1)
  BY ClocksNat, CiaAssumption DEF UpdateAndReschedule, Remainders
<1>2. next \in Nat /\ next <= TimeOfClocked(tm, div10', c, t)
  BY <1>1, ClockedIsPredicted, CalcTimersNat
<1>3. /\ since' = rest
      /\ due' = IF next = Idle THEN Idle ELSE (next - rest) % LongMod
      /\ passed' = (next # Idle /\ next < rest)
  BY DEF UpdateAndReschedule
<1>4. next <= DIV10 * (tm[c][t].count + 1) /\ DIV10 * (tm[c][t].count + 1) < LongMod
  BY <1>1, <1>2, TimeOfClockedIs
<1>5. DIV10 * (tm[c][t].count + 1) \in Nat
  BY <1>1, TimeOfClockedIs
<1> HIDE DEF next
<1>6. next # Idle /\ next - rest \in 0..(LongMod - 1)
  <2>1. next # Idle
    BY <1>2 DEF Idle
  <2>2. ~(next < rest)
    BY <1>3, <2>1, Zenon
  <2> QED
    BY <1>1, <1>2, <1>4, <1>5, <2>1, <2>2
<1>7. \A x \in 0..(LongMod - 1) : x % LongMod = x
  BY <1>1
<1>8. due' = next - rest
  BY <1>3, <1>6, <1>7
<1> QED
  BY <1>2, <1>3, <1>4, <1>5, <1>6, <1>8 DEF Idle

LEMMA UpdatePassed ==
  ASSUME TypeOK, NEW e \in Nat, NEW rest \in 0..(LongMod - 1), NEW tm \in TimerTable,
         NEW history, NEW under, UpdateAndReschedule(e, tm, history, under, rest)
  PROVE  PassedOnlyIfShort'
<1> DEFINE next == CalcTimers(tm, div10')
           time(c) == TimeOfCascaded(tm, div10', c)
<1>1. div10' \in 0..(DIV10 - 1) /\ LongMod \in Nat \ {0} /\ DIV10 \in Nat
  BY ClocksNat, CiaAssumption DEF UpdateAndReschedule, Remainders
<1>2. /\ tmr' = tm /\ since' = rest
      /\ passed' = (next # Idle /\ next < rest)
      /\ Wraps(tm, div10') => wrapped'
  BY DEF UpdateAndReschedule
<1> SUFFICES ASSUME passed', ~Wraps(tm, div10')
             PROVE  \E c \in Chips, t \in Timers :
                      Clocked(tm, c, t) /\ DIV10 * (tm[c][t].count + 1) < rest + div10'
  BY <1>2 DEF PassedOnlyIfShort
<1>3. next \in Nat /\ next \in DueTimes(tm, div10') /\ next < rest
  BY <1>1, <1>2, CalcTimersNat
<1>4. SUFFICES \E c \in Chips, t \in Timers :
                 Clocked(tm, c, t) /\ TimeOfClocked(tm, div10', c, t) <= next
  <2>1. PICK c \in Chips, t \in Timers :
               Clocked(tm, c, t) /\ TimeOfClocked(tm, div10', c, t) <= next
    BY <1>4
  <2>2. /\ TimeOfClocked(tm, div10', c, t) \in Nat
        /\ DIV10 * (tm[c][t].count + 1) \in Nat
        /\ TimeOfClocked(tm, div10', c, t) = DIV10 * (tm[c][t].count + 1) - div10'
    BY <1>1, TimeOfClockedIs
  <2>3. DIV10 * (tm[c][t].count + 1) < rest + div10'
    <3> HIDE DEF next
    <3> QED
      BY <1>1, <1>3, <2>1, <2>2
  <2> QED
    BY <2>1, <2>3
<1>5. \/ \E c \in Chips, t \in Timers :
           Clocked(tm, c, t) /\ next = TimeOfClocked(tm, div10', c, t)
      \/ \E c \in Chips : CascadePredicted(tm, c) /\ next = time(c) % LongMod
  BY <1>3 DEF DueTimes
<1>6. ASSUME NEW c \in Chips, CascadePredicted(tm, c), next = time(c) % LongMod
      PROVE  \E b \in Chips, t \in Timers :
               Clocked(tm, b, t) /\ TimeOfClocked(tm, div10', b, t) <= next
  <2>1. "ta" \in Timers
    BY DEF Timers
  <2>2. next = time(c) /\ TimeOfClocked(tm, div10', c, "ta") <= time(c)
    BY <1>1, <1>6, TimeOfCascadedIs
  <2> QED
    BY <1>6, <2>1, <2>2 DEF CascadePredicted
<1>7. ASSUME NEW c \in Chips, NEW t \in Timers,
             Clocked(tm, c, t), next = TimeOfClocked(tm, div10', c, t)
      PROVE  TimeOfClocked(tm, div10', c, t) <= next
  BY <1>3, <1>7
<1> QED
  BY <1>5, <1>6, <1>7

LEMMA NoClockOverslept ==
  ASSUME TypeOK, NEW e \in Nat, AssertFails(Clocks(e)),
         \A c \in Chips, t \in Timers :
           Clocked(tmr, c, t) => e <= DIV10 * (tmr[c][t].count + 1)
  PROVE  Cut(e)
<1>1. SUFFICES ASSUME ~Cut(e) PROVE FALSE
  OBVIOUS
<1>2. PICK c \in Chips, t \in Timers :
        Counting(c, t) /\ tmr[c][t].count + 1 < Clocks(e)
  BY DEF AssertFails
<1> DEFINE n == tmr[c][t].count
           k == Clocks(e)
           total == e + lastdiv10
<1>3. /\ DIV10 \in Nat \ {0} /\ CCountMod \in Nat \ {0}
      /\ lastdiv10 \in 0..(DIV10 - 1) /\ k \in Nat /\ n \in Nat
  BY CiaAssumption, ClocksNat, LatchMaxNat DEF TypeOK
<1>4. e <= DIV10 * (n + 1)
  BY <1>2 DEF Counting, Clocked
<1>5. k = total \div DIV10
  <2>1. total \in Nat /\ total < CCountMod /\ e < CCountMod
    BY <1>1, <1>3 DEF Cut
  <2>2. \A x \in 0..(CCountMod - 1) : x % CCountMod = x
    BY <1>3
  <2>3. CCount(e) = total
    BY <1>3, <2>1, <2>2 DEF CCount
  <2> QED
    BY <2>3 DEF Clocks
<1>6. DIV10 * k <= total
  <2>1. total \in Nat
    BY <1>3
  <2> HIDE DEF total, k
  <2> QED
    BY <1>3, <1>5, <2>1
<1>7. k >= n + 2
  BY <1>2, <1>3
<1>8. DIV10 * k >= DIV10 * (n + 2)
  <2> HIDE DEF k, n
  <2> QED
    BY <1>3, <1>7
<1>9. DIV10 * (n + 2) = DIV10 * (n + 1) + DIV10
  <2> HIDE DEF n
  <2> QED
    BY <1>3
<1>10. /\ DIV10 * k \in Nat /\ DIV10 * (n + 1) \in Nat /\ DIV10 * (n + 2) \in Nat
  <2> HIDE DEF k, n
  <2> QED
    BY <1>3
<1> QED
  BY <1>3, <1>4, <1>6, <1>8, <1>9, <1>10

Asserted == RunningIsScheduled /\ PassedOnlyIfShort /\ AssertsFailOnlyIfCutOrPassed

LEMMA AbortOnlyIfCutOrPassed ==
  ASSUME TypeOK, Asserted, NEW e \in Nat, due # Idle => e <= since + due,
         AssertFails(Clocks(e)), Abort(e)
  PROVE  Asserted'
<1>1. /\ UNCHANGED <<tmr, since, div10, due, wrapped, passed>>
      /\ cut' = (cut \/ Cut(e))
  BY DEF Abort
<1>2. ASSUME ~cut, ~passed PROVE Cut(e)
  <2>1. ASSUME NEW c \in Chips, NEW t \in Timers, Clocked(tmr, c, t)
        PROVE  e <= DIV10 * (tmr[c][t].count + 1)
    <3>1. due # Idle /\ since + due <= DIV10 * (tmr[c][t].count + 1)
      BY <1>2, <2>1 DEF Asserted, RunningIsScheduled
    <3>2. since \in Nat /\ DIV10 \in Nat /\ due \in Int /\ tmr[c][t].count \in Nat
      BY CiaAssumption, LatchMaxNat DEF TypeOK, Idle
    <3>3. DIV10 * (tmr[c][t].count + 1) \in Nat
      BY <3>2
    <3> QED
      BY <3>1, <3>2, <3>3
  <2> QED
    BY <2>1, NoClockOverslept
<1>3. RunningIsScheduled' /\ PassedOnlyIfShort'
  BY <1>1 DEF Asserted, RunningIsScheduled, PassedOnlyIfShort, Clocked
<1> QED
  BY <1>1, <1>2, <1>3 DEF Asserted, AssertsFailOnlyIfCutOrPassed

LEMMA UpdateAsserted ==
  ASSUME TypeOK, ~aborted, NEW e \in Nat, NEW rest \in 0..(LongMod - 1), NEW tm \in TimerTable,
         NEW history, NEW under, UpdateAndReschedule(e, tm, history, under, rest)
  PROVE  Asserted'
<1>1. ~aborted'
  BY DEF UpdateAndReschedule
<1> QED
  BY <1>1, UpdateSchedules, UpdatePassed DEF Asserted, AssertsFailOnlyIfCutOrPassed

LEMMA TimerWriteAsserted ==
  ASSUME TypeOK, Asserted,
         NEW c \in Chips, NEW t \in Timers, NEW new, NEW history,
         Updated[c][t] \in Timer => new \in Timer,
         TimerWrite(c, t, new, history)
  PROVE  Asserted'
<1>1. /\ since \in Nat /\ Clocks(since) \in Nat /\ ~aborted
      /\ 0 \in 0..(LongMod - 1)
  BY ClocksNat, CiaAssumption DEF TypeOK, TimerWrite
<1>2. CASE AssertFails(Clocks(since)) /\ Abort(since)
  <2>1. due # Idle => since <= since + due
    BY <1>1 DEF TypeOK
  <2> QED
    BY <1>1, <1>2, <2>1, AbortOnlyIfCutOrPassed
<1>3. CASE UpdateAndReschedule(since, [Updated EXCEPT ![c][t] = new],
             [Elapsed EXCEPT ![c][t] = history], Underflows(Clocks(since)), 0)
  <2>1. Updated \in TimerTable
    BY <1>1, TimersAfterType DEF Updated
  <2>2. new \in Timer
    BY <2>1 DEF TimerTable
  <2>3. [Updated EXCEPT ![c][t] = new] \in TimerTable
    BY <2>1, <2>2 DEF TimerTable
  <2> QED
    BY <1>1, <1>3, <2>3, UpdateAsserted
<1> QED
  BY <1>2, <1>3 DEF TimerWrite

LEMMA UntouchedAsserted ==
  ASSUME Asserted, UNCHANGED <<tmr, since, div10, due, aborted, cut, wrapped, passed>>
  PROVE  Asserted'
BY DEF Asserted, RunningIsScheduled, PassedOnlyIfShort, AssertsFailOnlyIfCutOrPassed, Clocked

LEMMA ProgramAsserted ==
  ASSUME TypeOK, Asserted, Program
  PROVE  Asserted'
<1>1. ASSUME NEW c \in Chips, NEW lo \in LoBytes, WriteLo(c, lo[1], lo[2])
      PROVE  Asserted'
  <2>1. lo[1] \in Timers /\ lo[2] \in 0..(Byte - 1)
    BY CiaAssumption
  <2>2. Updated[c][lo[1]] \in Timer =>
          [Updated[c][lo[1]] EXCEPT !.latch = (@ \div Byte) * Byte + lo[2]] \in Timer
    BY <2>1, LatchBytes DEF Timer
  <2> QED
    BY <1>1, <2>1, <2>2, TimerWriteAsserted DEF WriteLo
<1>2. ASSUME NEW c \in Chips, NEW hi \in HiBytes, WriteHi(c, hi[1], hi[2])
      PROVE  Asserted'
  <2> DEFINE tm == Updated[c][hi[1]]
  <2>1. hi[1] \in Timers
    BY CiaAssumption
  <2>2. tm \in Timer => HiWritten(tm, hi[2]) \in Timer
    BY CiaAssumption, HiWrittenType
  <2> QED
    BY <1>2, <2>1, <2>2, TimerWriteAsserted DEF WriteHi, HiWritten
<1>3. ASSUME NEW mode \in Modes, NEW start \in BOOLEAN, NEW load \in BOOLEAN,
             WriteCr(mode[1], mode[2], mode[3], mode[4], start, load)
      PROVE  Asserted'
  <2> DEFINE tm  == Updated[mode[1]][mode[2]]
             new == [tm EXCEPT !.start = start, !.oneshot = mode[4], !.source = mode[3],
                               !.count = IF load THEN tm.latch ELSE @]
  <2>1. /\ mode[1] \in Chips /\ mode[2] \in Timers
        /\ mode[3] \in Sources /\ mode[4] \in BOOLEAN
    BY CiaAssumption
  <2>2. tm \in Timer => new \in Timer
    <3> HIDE DEF tm
    <3> QED
      BY <2>1 DEF Timer
  <2> QED
    BY <1>3, <2>1, <2>2, TimerWriteAsserted DEF WriteCr
<1>4. ASSUME NEW c \in Chips, NEW f \in Masks, NEW enable \in BOOLEAN,
             WriteMask(c, f, enable)
      PROVE  Asserted'
  BY <1>4, UntouchedAsserted DEF WriteMask
<1>5. ASSUME NEW c \in Chips, ReadIcr(c) PROVE Asserted'
  BY <1>5, UntouchedAsserted DEF ReadIcr
<1>6. CASE WritePrb
  BY <1>6, UntouchedAsserted DEF WritePrb
<1>7. ASSUME NEW c \in Chips, ClearIntreq(c) PROVE Asserted'
  BY <1>7, UntouchedAsserted DEF ClearIntreq
<1>8. CASE RethinkCias
  BY <1>8, UntouchedAsserted DEF RethinkCias
<1> QED
  BY <1>1, <1>2, <1>3, <1>4, <1>5, <1>6, <1>7, <1>8 DEF Program

LEMMA AdvanceAsserted ==
  ASSUME TypeOK, Asserted, Advance
  PROVE  Asserted'
<1>1. PICK n \in Chunks : Passes(n) \/ EventRuns(n)
  BY DEF Advance
<1>2. /\ n \in 1..(LongMod - 1) /\ LongMod \in Nat \ {0} /\ since \in 0..(LongMod - 1)
      /\ due \in 0..(LongMod - 1) \cup {Idle} /\ Idle = -1
      /\ div10 \in Nat
  BY CiaAssumption DEF TypeOK, Idle
<1>3. CASE Passes(n)
  <2>1. /\ UNCHANGED <<tmr, div10, aborted, wrapped, passed>> /\ ~aborted
        /\ cut' = (cut \/ since + n >= LongMod)
        /\ since' = (since + n) % LongMod
        /\ due' = IF due = Idle THEN Idle ELSE due - n
    BY <1>3 DEF Passes
  <2>2. ~cut' => since' = since + n
    <3>1. \A x \in 0..(LongMod - 1) : x % LongMod = x
      BY <1>2
    <3>2. ~(since + n >= LongMod) => since + n \in 0..(LongMod - 1)
      BY <1>2
    <3> QED
      BY <2>1, <3>1, <3>2, Zenon
  <2>3. due # Idle => due' # Idle /\ due' = due - n
    BY <1>2, <1>3, <2>1 DEF Passes
  <2>4. RunningIsScheduled'
    <3> SUFFICES ASSUME NEW c \in Chips, NEW t \in Timers, Clocked(tmr, c, t), ~cut', ~passed
                 PROVE  due' # Idle /\ since' + due' <= DIV10 * (tmr[c][t].count + 1)
      BY <2>1 DEF RunningIsScheduled, Clocked
    <3>1. due # Idle /\ since + due <= DIV10 * (tmr[c][t].count + 1)
      BY <2>1 DEF Asserted, RunningIsScheduled
    <3>2. since' + due' = since + due
      BY <1>2, <2>2, <2>3, <3>1
    <3> QED
      BY <2>3, <3>1, <3>2
  <2>5. PassedOnlyIfShort'
    <3> SUFFICES ASSUME passed, ~cut', ~wrapped
                 PROVE  \E c \in Chips, t \in Timers :
                          Clocked(tmr, c, t) /\ DIV10 * (tmr[c][t].count + 1) < since' + div10
      BY <2>1 DEF PassedOnlyIfShort, Clocked
    <3>1. PICK c \in Chips, t \in Timers :
            Clocked(tmr, c, t) /\ DIV10 * (tmr[c][t].count + 1) < since + div10
      BY <2>1 DEF Asserted, PassedOnlyIfShort
    <3>2. DIV10 * (tmr[c][t].count + 1) \in Nat
      <4>1. DIV10 \in Nat /\ tmr[c][t].count \in Nat
        BY CiaAssumption, LatchMaxNat DEF TypeOK
      <4> QED
        BY <4>1
    <3>3. DIV10 * (tmr[c][t].count + 1) < since' + div10
      BY <1>2, <2>2, <3>1, <3>2
    <3> QED
      BY <3>1, <3>3
  <2> QED
    BY <2>1, <2>4, <2>5 DEF Asserted, AssertsFailOnlyIfCutOrPassed
<1>4. CASE EventRuns(n)
  <2> DEFINE e == since + due
             k == Clocks(e)
             under == Underflows(k)
  <2>1. due \in Nat /\ n > due /\ ~aborted
    BY <1>2, <1>4 DEF EventRuns
  <2>2. e \in Nat /\ n - due \in 0..(LongMod - 1)
    BY <1>2, <2>1
  <2>3. k \in Nat
    BY <2>2, ClocksNat
  <2>4. CASE AssertFails(k) /\ Abort(e)
    BY <2>2, <2>4, AbortOnlyIfCutOrPassed
  <2>5. CASE UpdateAndReschedule(e, TimersAfter(k, under), TimedAfter(e, under), under, n - due)
    <3>1. TimersAfter(k, under) \in TimerTable
      BY <2>3, TimersAfterType
    <3> HIDE DEF e, k, under
    <3> QED
      BY <2>1, <2>2, <2>5, <3>1, UpdateAsserted
  <2> QED
    BY <1>4, <2>4, <2>5 DEF EventRuns
<1> QED
  BY <1>1, <1>3, <1>4

\* For all latches, clock rates, chunks and sequences of register writes: every
\* running timer keeps its underflow ahead of it until an elapsed time is cut or a
\* chunk runs past the due time, which takes an interval shorter than the chunk or
\* a due time cut to 32 bits; and the asserts of CIA_update (cia.c:152, 159, 169)
\* fail in no other case.
THEOREM UnderflowsArePredictedHolds == Spec => []UnderflowsArePredicted
<1>1. Init => Asserted
  <2>1. Init => \A c \in Chips, t \in Timers : ~Clocked(tmr, c, t)
    BY DEF Init, ResetTimer, Clocked
  <2>2. Init => ~aborted /\ ~passed
    BY DEF Init
  <2> QED
    BY <2>1, <2>2 DEF Asserted, RunningIsScheduled, PassedOnlyIfShort,
                      AssertsFailOnlyIfCutOrPassed
<1>2. TypeOK /\ Asserted /\ [Next]_vars => Asserted'
  <2>1. Asserted /\ UNCHANGED vars => Asserted'
    BY UntouchedAsserted DEF vars, ciavars
  <2> QED
    BY <2>1, ProgramAsserted, AdvanceAsserted DEF Next
<1>3. Asserted => UnderflowsArePredicted
  BY DEF Asserted, UnderflowsArePredicted
<1> QED
  BY <1>1, <1>2, <1>3, TypeCorrect, PTL DEF Spec

-----------------------------------------------------------------------------
(***************************************************************************)
(* How long an interval takes.  A chunk of the process is a whole number   *)
(* of clocks (cia_process adds 10 cycles at a time, DIV10 is 5), and then  *)
(* so is every time the slot is armed for: the remainders stay 0, and a    *)
(* running timer's age is what it has counted down since it was loaded.    *)
(***************************************************************************)
Multiple(x) == \E q \in Int : x = DIV10 * q

WholeClocks == \A n \in Chunks : Multiple(n)

\* No elapsed time and no due time was cut so far.
OnBeat == ~cut /\ ~wrapped

\* A due time that was passed comes after a whole turn of the counter only.
Whole ==
  WholeClocks /\ OnBeat =>
    /\ div10 = 0 /\ lastdiv10 = 0
    /\ Multiple(since)
    /\ due # Idle /\ ~passed => Multiple(due)
    /\ passed => due # Idle /\ since + due >= LongMod

LEMMA MultipleSum ==
  ASSUME NEW a, NEW b, Multiple(a), Multiple(b)
  PROVE  a \in Int /\ b \in Int /\ Multiple(a + b) /\ Multiple(a - b)
<1>1. DIV10 \in Nat \ {0}
  BY CiaAssumption
<1>2. PICK p \in Int : a = DIV10 * p
  BY DEF Multiple
<1>3. PICK q \in Int : b = DIV10 * q
  BY DEF Multiple
<1>4. DIV10 * (p + q) = DIV10 * p + DIV10 * q /\ DIV10 * (p - q) = DIV10 * p - DIV10 * q
  BY <1>1
<1>5. p + q \in Int /\ p - q \in Int /\ DIV10 * p \in Int /\ DIV10 * q \in Int
  BY <1>1
<1> QED
  BY <1>2, <1>3, <1>4, <1>5 DEF Multiple

\* An elapsed time of whole clocks that fits the uint16_t is counted exactly.
LEMMA WholeElapsed ==
  ASSUME TypeOK, lastdiv10 = 0, NEW e \in Nat, Multiple(e), ~Cut(e)
  PROVE  e = DIV10 * Clocks(e) /\ CCount(e) % DIV10 = 0
<1>1. DIV10 \in Nat \ {0} /\ CCountMod \in Nat \ {0}
  BY CiaAssumption
<1>2. CCount(e) = e
  <2>1. e < CCountMod
    BY <1>1 DEF Cut
  <2>2. \A x \in 0..(CCountMod - 1) : x % CCountMod = x
    BY <1>1
  <2> QED
    BY <1>1, <2>1, <2>2 DEF CCount
<1>3. PICK q \in Int : e = DIV10 * q
  BY DEF Multiple
<1> DEFINE p == e \div DIV10
           r == e % DIV10
<1>4. p \in Int /\ r \in 0..(DIV10 - 1) /\ e = DIV10 * p + r
  BY <1>1
<1> HIDE DEF p, r
<1>5. DIV10 * (q - p) = r
  BY <1>1, <1>3, <1>4
<1>6. q - p < 1
  <2>1. SUFFICES ASSUME q - p >= 1 PROVE FALSE
    BY <1>4
  <2>2. DIV10 * (q - p) >= DIV10 * 1
    BY <1>1, <1>4, <2>1
  <2> QED
    BY <1>1, <1>4, <1>5, <2>2
<1>7. q - p > -1
  <2>1. SUFFICES ASSUME q - p <= -1 PROVE FALSE
    BY <1>4
  <2>2. DIV10 * (q - p) <= DIV10 * (-1)
    BY <1>1, <1>4, <2>1
  <2> QED
    BY <1>1, <1>4, <1>5, <2>2
<1>8. p = q
  BY <1>4, <1>6, <1>7
<1>9. r = 0
  BY <1>1, <1>5, <1>8
<1> QED
  BY <1>2, <1>3, <1>8, <1>9 DEF Clocks, p, r

\* Without a remainder the slot is armed for a whole number of clocks.
LEMMA CalcTimersWhole ==
  ASSUME NEW tm \in TimerTable, CalcTimers(tm, 0) # Idle, ~Wraps(tm, 0)
  PROVE  Multiple(CalcTimers(tm, 0))
<1>1. DIV10 \in Nat \ {0} /\ LatchMax \in Nat /\ 0 \in 0..(DIV10 - 1)
  BY CiaAssumption, LatchMaxNat
<1>2. ASSUME NEW c \in Chips, NEW t \in Timers
      PROVE  /\ tm[c][t].count \in Nat /\ tm[c][t].latch \in Nat
             /\ TimeOfClocked(tm, 0, c, t) = DIV10 * (tm[c][t].count + 1)
  <2>1. tm[c][t].count \in Nat /\ tm[c][t].latch \in Nat
    BY <1>1 DEF TimerTable, Timer
  <2>2. DIV10 * (tm[c][t].count + 1) = DIV10 * tm[c][t].count + DIV10
    BY <1>1, <2>1
  <2>3. DIV10 * tm[c][t].count \in Nat
    BY <1>1, <2>1
  <2> QED
    BY <1>1, <2>1, <2>2, <2>3 DEF TimeOfClocked
<1>3. ASSUME NEW c \in Chips
      PROVE  Multiple(TimeOfCascaded(tm, 0, c))
  <2> DEFINE n == tm[c]["ta"].count
             l == tm[c]["ta"].latch
             m == tm[c]["tb"].count
  <2>1. n \in Nat /\ l \in Nat /\ m \in Nat
        /\ TimeOfClocked(tm, 0, c, "ta") = DIV10 * (n + 1)
    BY <1>2 DEF Timers
  <2> HIDE DEF n, l, m
  <2>2. l * DIV10 * m = DIV10 * (l * m) /\ l * m \in Int /\ n + 1 \in Int
    BY <1>1, <2>1
  <2>3. Multiple(DIV10 * (n + 1)) /\ Multiple(l * DIV10 * m)
    BY <2>2 DEF Multiple
  <2>4. Multiple(DIV10 * (n + 1) + l * DIV10 * m)
    BY <2>3, MultipleSum
  <2> QED
    BY <2>1, <2>4 DEF TimeOfCascaded, l, m
<1>4. CalcTimers(tm, 0) \in DueTimes(tm, 0)
  BY <1>1, CalcTimersNat
<1>5. CASE \E c \in Chips, t \in Timers : CalcTimers(tm, 0) = TimeOfClocked(tm, 0, c, t)
  <2>1. PICK c \in Chips, t \in Timers : CalcTimers(tm, 0) = TimeOfClocked(tm, 0, c, t)
    BY <1>5
  <2>2. tm[c][t].count + 1 \in Int
    BY <1>2
  <2> QED
    BY <1>2, <2>1, <2>2 DEF Multiple
<1>6. CASE \E c \in Chips : /\ CascadePredicted(tm, c)
                            /\ CalcTimers(tm, 0) = TimeOfCascaded(tm, 0, c) % LongMod
  BY <1>1, <1>3, <1>6, TimeOfCascadedIs
<1> QED
  BY <1>4, <1>5, <1>6 DEF DueTimes

\* An update that is not cut.
Exact(e) == WholeClocks /\ OnBeat /\ ~Cut(e)

LEMMA UpdateWhole ==
  ASSUME TypeOK, Whole, NEW e \in Nat, NEW rest \in 0..(LongMod - 1), NEW tm \in TimerTable,
         NEW history, NEW under, UpdateAndReschedule(e, tm, history, under, rest),
         Exact(e) => Multiple(e) /\ Multiple(rest)
  PROVE  Whole'
<1> SUFFICES ASSUME WholeClocks, ~cut', ~wrapped'
             PROVE  /\ div10' = 0 /\ lastdiv10' = 0
                    /\ Multiple(since')
                    /\ due' # Idle /\ ~passed' => Multiple(due')
                    /\ passed' => due' # Idle /\ since' + due' >= LongMod
  BY DEF Whole, WholeClocks, Multiple, OnBeat
<1>1. Exact(e) /\ OnBeat /\ ~Wraps(tm, div10')
  BY DEF UpdateAndReschedule, Exact, OnBeat
<1>2. div10 = 0 /\ lastdiv10 = 0
  BY <1>1 DEF Whole
<1>3. div10' = 0 /\ lastdiv10' = 0 /\ since' = rest
  BY <1>1, <1>2, WholeElapsed DEF UpdateAndReschedule, Remainders, Exact
<1> DEFINE next == CalcTimers(tm, 0)
<1>4. /\ due' = IF next = Idle THEN Idle ELSE (next - rest) % LongMod
      /\ passed' = (next # Idle /\ next < rest)
  BY <1>3 DEF UpdateAndReschedule
<1>5. next # Idle => Multiple(next - rest)
  BY <1>1, <1>3, CalcTimersWhole, MultipleSum
<1>6. next \in 0..(LongMod - 1) \cup {Idle} /\ LongMod \in Nat \ {0} /\ Idle = -1
  <2>1. 0 \in 0..(DIV10 - 1)
    BY CiaAssumption
  <2> QED
    BY <2>1, CalcTimersNat, CiaAssumption DEF Idle
<1> HIDE DEF next
<1>7. CASE next = Idle
  <2>1. due' = Idle /\ ~passed'
    BY <1>4, <1>7
  <2> QED
    BY <1>1, <1>3, <2>1
<1>8. CASE next # Idle /\ next < rest
  <2>1. passed' /\ due' = (next - rest) % LongMod
    BY <1>4, <1>8
  <2>2. (next - rest) % LongMod = next - rest + LongMod
    BY <1>6, <1>8
  <2>3. due' # Idle /\ since' + due' >= LongMod
    BY <1>3, <1>6, <1>8, <2>1, <2>2
  <2> QED
    BY <1>1, <1>3, <2>1, <2>3
<1>9. CASE next # Idle /\ ~(next < rest)
  <2>1. ~passed' /\ due' = (next - rest) % LongMod
    BY <1>4, <1>9
  <2>2. (next - rest) % LongMod = next - rest
    BY <1>6, <1>9
  <2> QED
    BY <1>1, <1>3, <1>5, <1>9, <2>1, <2>2
<1> QED
  BY <1>7, <1>8, <1>9

History == [loaded : 0..LatchMax, age : Nat]

\* What the history h of a running timer tm says of its counter, exactly as
\* long as no elapsed time was cut.
Keeps(tm, h, exact) ==
  \/ h = NotTimed
  \/ /\ tm.start /\ tm.source # "cnt"
     /\ h \in History
     /\ tm.source = "clock" /\ exact => h.age = DIV10 * (h.loaded - tm.count)
     /\ tm.source = "cascade" => h.age + tm.count = h.loaded

TimedInv ==
  /\ timed \in [Chips -> [Timers -> History \cup {NotTimed}]]
  /\ \A c \in Chips, t \in Timers : Keeps(tmr[c][t], timed[c][t], WholeClocks /\ OnBeat)

\* A timer just loaded and started.
LEMMA Reloaded ==
  ASSUME NEW tm \in Timer, tm.start, tm.source # "cnt", tm.count = tm.latch, NEW exact
  PROVE  /\ Keeps(tm, [loaded |-> tm.latch, age |-> 0], exact)
         /\ [loaded |-> tm.latch, age |-> 0] \in History
<1>1. tm.latch \in 0..LatchMax /\ tm.latch \in Nat /\ DIV10 \in Nat
  BY LatchMaxNat, CiaAssumption DEF Timer
<1>2. DIV10 * (tm.latch - tm.latch) = 0
  BY <1>1
<1> QED
  BY <1>1, <1>2 DEF Keeps, History

\* An update that is not cut lets k clocks pass in exactly as many cycles.
ExactUpdate(e) == Exact(e) => e = DIV10 * Clocks(e)

LEMMA ExactElapsed ==
  ASSUME TypeOK, Whole, NEW e \in Nat, Exact(e) => Multiple(e)
  PROVE  ExactUpdate(e)
BY WholeElapsed DEF Whole, ExactUpdate, Exact

\* A timer that does not underflow grows older by what its counter loses.
LEMMA StillTimed ==
  ASSUME TypeOK, TimedInv, NEW e \in Nat, ExactUpdate(e), ~AssertFails(Clocks(e)),
         NEW c \in Chips, NEW t \in Timers,
         <<c, t>> \notin Underflows(Clocks(e)), timed[c][t] # NotTimed,
         ~(tmr[c][t].source = "clock" /\ (cut \/ Cut(e)))
  PROVE  /\ TimedAfter(e, Underflows(Clocks(e)))[c][t] \in History
         /\ Keeps(TimersAfter(Clocks(e), Underflows(Clocks(e)))[c][t],
                  TimedAfter(e, Underflows(Clocks(e)))[c][t], Exact(e))
<1> DEFINE k == Clocks(e)
           under == Underflows(k)
           n == tmr[c][t].count
           h == timed[c][t]
           new == TimersAfter(k, under)[c][t]
           aged == TimedAfter(e, under)[c][t]
<1>1. /\ tmr[c][t] \in Timer /\ n \in 0..LatchMax /\ n \in Nat /\ k \in Nat
      /\ DIV10 \in Nat \ {0}
  BY ClocksNat, LatchMaxNat, CiaAssumption DEF TypeOK, Timer
<1>2. /\ tmr[c][t].start /\ tmr[c][t].source # "cnt" /\ h \in History
      /\ tmr[c][t].source = "clock" /\ WholeClocks /\ OnBeat => h.age = DIV10 * (h.loaded - n)
      /\ tmr[c][t].source = "cascade" => h.age + n = h.loaded
  BY DEF TimedInv, Keeps
<1>3. h.age \in Nat /\ h.loaded \in 0..LatchMax /\ h.loaded \in Nat
  BY <1>2, LatchMaxNat DEF History
<1>4. aged = [h EXCEPT !.age = Aged(c, t, e, under)]
  BY <1>2 DEF TimedAfter, Runs
<1>5. new = [tmr[c][t] EXCEPT !.count = CountAfter(c, t, k, under),
               !.start = @ /\ ~(<<c, t>> \in under /\ tmr[c][t].oneshot)]
  BY DEF TimersAfter
<1>6. <<c, t>> \notin under
  OBVIOUS
<1>7. /\ new.start /\ new.source = tmr[c][t].source
      /\ new.count = CountAfter(c, t, k, under)
  <2> HIDE DEF new, k, under
  <2> QED
    BY <1>1, <1>2, <1>5, <1>6 DEF Timer
<1>8. Aged(c, t, e, under) \in Nat
  <2> HIDE DEF under
  <2> QED
    BY <1>3 DEF Aged
<1>9. aged \in History /\ aged.age = Aged(c, t, e, under) /\ aged.loaded = h.loaded
  <2> HIDE DEF aged, under, h
  <2> QED
    BY <1>2, <1>4, <1>8 DEF History
<1>10. ASSUME tmr[c][t].source = "clock", Exact(e)
       PROVE  aged.age = DIV10 * (aged.loaded - new.count)
  <2>1. Counting(c, t)
    BY <1>2, <1>10 DEF Counting
  <2>2. n >= k
    <3>1. CASE <<c, t>> = <<"A", "ta">>
      <4>1. ~UnderflowA(c, k)
        BY <1>6, <3>1 DEF Underflows
      <4> QED
        BY <1>1, <2>1, <3>1, <4>1 DEF UnderflowA
    <3>2. CASE <<c, t>> # <<"A", "ta">>
      <4>1. ~(n + 1 < k)
        BY <2>1, <3>2 DEF AssertFails
      <4>2. n + 1 # k
        <5>1. CASE t = "ta"
          BY <1>6, <2>1, <3>2, <5>1 DEF Underflows, UnderflowA
        <5>2. CASE t = "tb"
          BY <1>6, <2>1, <5>2 DEF Underflows, UnderflowB
        <5> QED
          BY <5>1, <5>2 DEF Timers
      <4> HIDE DEF k, n
      <4> QED
        BY <1>1, <4>1, <4>2
    <3> QED
      BY <3>1, <3>2
  <2>3. new.count = n - k
    <3> HIDE DEF new, k, under
    <3> QED
      BY <1>1, <1>6, <1>7, <2>1, <2>2 DEF CountAfter
  <2>4. aged.age = h.age + e /\ h.age = DIV10 * (h.loaded - n) /\ e = DIV10 * k
    <3>1. Aged(c, t, e, under) = h.age + e
      BY <1>10 DEF Aged
    <3> QED
      BY <1>2, <1>9, <1>10, <3>1 DEF ExactUpdate, Exact
  <2>5. DIV10 * (h.loaded - (n - k)) = DIV10 * (h.loaded - n) + DIV10 * k
    <3> HIDE DEF k, n, h
    <3> QED
      BY <1>1, <1>3
  <2> HIDE DEF aged, new, h, k, n
  <2> QED
    BY <1>9, <2>3, <2>4, <2>5
<1>11. ASSUME tmr[c][t].source = "cascade"
       PROVE  aged.age + new.count = aged.loaded
  <2>1. ~Counting(c, t)
    BY <1>11 DEF Counting
  <2>2. CASE t = "tb" /\ <<c, "ta">> \in under
    <3>1. Cascaded(c)
      BY <1>2, <1>11, <2>2 DEF Cascaded
    <3>2. new.count = n - 1
      <4> HIDE DEF new, k, under
      <4> QED
        BY <1>6, <1>7, <2>1, <2>2, <3>1 DEF CountAfter
    <3>3. aged.age = h.age + 1
      BY <1>9, <1>11, <2>2 DEF Aged
    <3> HIDE DEF aged, new, h, k, n
    <3> QED
      BY <1>1, <1>2, <1>3, <1>9, <1>11, <3>2, <3>3
  <2>3. CASE ~(t = "tb" /\ <<c, "ta">> \in under)
    <3>1. <<c, "ta">> \notin under
      BY <1>6, <2>3 DEF Timers
    <3>2. new.count = n
      <4> HIDE DEF new, k, under
      <4> QED
        BY <1>6, <1>7, <2>1, <2>3 DEF CountAfter
    <3>3. aged.age = h.age
      <4>1. Aged(c, t, e, under) = h.age + 0
        BY <1>11, <3>1 DEF Aged
      <4> QED
        BY <1>3, <1>9, <4>1
    <3> HIDE DEF aged, new, h, k, n
    <3> QED
      BY <1>2, <1>9, <1>11, <3>2, <3>3
  <2> QED
    BY <2>2, <2>3
<1> QED
  BY <1>2, <1>7, <1>9, <1>10, <1>11 DEF Keeps

\* After an update every timer is timed, reloaded, or no longer timed.
LEMMA UpdateTimes ==
  ASSUME TypeOK, TimedInv, NEW e \in Nat, ExactUpdate(e), ~AssertFails(Clocks(e)),
         NEW c \in Chips, NEW t \in Timers
  PROVE  /\ TimedAfter(e, Underflows(Clocks(e)))[c][t] \in History \cup {NotTimed}
         /\ Keeps(TimersAfter(Clocks(e), Underflows(Clocks(e)))[c][t],
                  TimedAfter(e, Underflows(Clocks(e)))[c][t], Exact(e))
<1> DEFINE k == Clocks(e)
           under == Underflows(k)
           new == TimersAfter(k, under)[c][t]
           aged == TimedAfter(e, under)[c][t]
<1> DEFINE lost == tmr[c][t].source = "clock" /\ (cut \/ Cut(e))
<1>1. CASE timed[c][t] = NotTimed \/ ~Runs(c, t) \/ lost
  <2>1. aged = NotTimed
    BY <1>1 DEF TimedAfter
  <2> QED
    BY <2>1 DEF Keeps
<1>2. CASE timed[c][t] # NotTimed /\ Runs(c, t) /\ ~lost /\ <<c, t>> \notin under
  BY <1>2, StillTimed
<1>3. CASE timed[c][t] # NotTimed /\ Runs(c, t) /\ ~lost /\ <<c, t>> \in under
  <2>1. CASE tmr[c][t].oneshot
    <3>1. aged = NotTimed
      BY <1>3, <2>1 DEF TimedAfter
    <3> QED
      BY <3>1 DEF Keeps
  <2>2. CASE ~tmr[c][t].oneshot
    <3>1. tmr[c][t] \in Timer /\ tmr[c][t].start /\ tmr[c][t].source # "cnt"
      BY <1>3 DEF TypeOK, Timer, Runs
    <3>2. aged = [loaded |-> tmr[c][t].latch, age |-> 0]
      BY <1>3, <2>2 DEF TimedAfter
    <3>3. new = [tmr[c][t] EXCEPT !.count = CountAfter(c, t, k, under),
                   !.start = @ /\ ~(<<c, t>> \in under /\ tmr[c][t].oneshot)]
      BY DEF TimersAfter
    <3>4. new \in Timer
      BY ClocksNat, TimersAfterType DEF TimerTable
    <3>5. /\ new.start /\ new.source = tmr[c][t].source /\ new.latch = tmr[c][t].latch
          /\ new.count = tmr[c][t].latch
      <4>1. CountAfter(c, t, k, under) = tmr[c][t].latch
        BY <1>3 DEF CountAfter
      <4> HIDE DEF new, k, under
      <4> QED
        BY <2>2, <3>1, <3>3, <4>1 DEF Timer
    <3> HIDE DEF new, aged
    <3> QED
      BY <3>1, <3>2, <3>4, <3>5, Reloaded DEF new, aged
  <2> QED
    BY <2>1, <2>2
<1> QED
  BY <1>1, <1>2, <1>3

\* The intervals an update completes.
LEMMA EndedRight ==
  ASSUME TypeOK, TimedInv, NEW e \in Nat, ExactUpdate(e),
         NEW i \in Ended(e, Underflows(Clocks(e)))
  PROVE  /\ i.source = "cascade" => i.took = i.loaded + 1
         /\ i.late = passed
         /\ \E c \in Chips, t \in Timers :
              i.source = "clock" /\ Exact(e) =>
                /\ Clocked(tmr, c, t)
                /\ DIV10 * i.loaded <= i.took
                /\ <<c, t>> # <<"A", "ta">> => i.took = DIV10 * (i.loaded + 1)
                /\ e <= DIV10 * (tmr[c][t].count + 1) => i.took <= DIV10 * (i.loaded + 1)
<1> DEFINE k == Clocks(e)
           under == Underflows(k)
<1>1. PICK ct \in under :
        /\ timed[ct[1]][ct[2]] # NotTimed
        /\ i = [source |-> tmr[ct[1]][ct[2]].source,
                loaded |-> timed[ct[1]][ct[2]].loaded,
                took   |-> Aged(ct[1], ct[2], e, under),
                late   |-> passed]
  BY DEF Ended
<1>2. PICK c \in Chips, t \in Timers : ct = <<c, t>>
  BY <1>1, UnderflowsType
<1> DEFINE n == tmr[c][t].count
           h == timed[c][t]
<1>3. /\ h # NotTimed /\ i.source = tmr[c][t].source /\ i.loaded = h.loaded
      /\ i.late = passed
      /\ i.took = Aged(c, t, e, under) /\ <<c, t>> \in under
  BY <1>1, <1>2
<1>4. n \in Nat /\ k \in Nat /\ DIV10 \in Nat \ {0} /\ tmr[c][t].source \in Sources
  BY ClocksNat, LatchMaxNat, CiaAssumption DEF TypeOK
<1>5. /\ h \in History
      /\ tmr[c][t].source = "clock" /\ WholeClocks /\ OnBeat => h.age = DIV10 * (h.loaded - n)
      /\ tmr[c][t].source = "cascade" => h.age + n = h.loaded
  BY <1>3 DEF TimedInv, Keeps
<1>6. h.age \in Nat /\ h.loaded \in Nat
  BY <1>5, LatchMaxNat DEF History
<1>7. ASSUME i.source = "cascade" PROVE i.took = i.loaded + 1
  <2>1. ~Counting(c, t)
    BY <1>3, <1>7 DEF Counting
  <2>2. t = "tb" /\ <<c, "ta">> \in under /\ n = 0
    BY <1>3, <2>1 DEF Underflows, UnderflowA, UnderflowB, Timers
  <2>3. i.took = h.age + 1
    BY <1>3, <1>7, <2>2 DEF Aged
  <2> HIDE DEF h, n
  <2> QED
    BY <1>3, <1>5, <1>6, <1>7, <2>2, <2>3
<1>8. ASSUME i.source = "clock", Exact(e)
      PROVE  /\ Clocked(tmr, c, t)
             /\ DIV10 * i.loaded <= i.took
             /\ <<c, t>> # <<"A", "ta">> => i.took = DIV10 * (i.loaded + 1)
             /\ e <= DIV10 * (n + 1) => i.took <= DIV10 * (i.loaded + 1)
  <2>1. ~Cascaded(c) \/ t = "ta"
    BY <1>3, <1>8 DEF Cascaded, Timers
  <2>2. Counting(c, t) /\ Clocked(tmr, c, t)
    BY <1>3, <2>1 DEF Underflows, UnderflowA, UnderflowB, Counting, Clocked, Timers
  <2>3. <<c, t>> # <<"A", "ta">> => n + 1 = k
    BY <1>3, <2>1 DEF Underflows, UnderflowA, UnderflowB, Timers
  <2>4. <<c, t>> = <<"A", "ta">> => n <= k
    BY <1>3 DEF Underflows, UnderflowA
  <2>5. i.took = h.age + e /\ h.age = DIV10 * (h.loaded - n) /\ e = DIV10 * k
    <3>1. Aged(c, t, e, under) = h.age + e
      BY <1>3, <1>8 DEF Aged
    <3> QED
      BY <1>3, <1>5, <1>8, <3>1 DEF ExactUpdate, Exact
  <2>6. n <= k
    <3> HIDE DEF n, k
    <3> QED
      BY <1>4, <2>3, <2>4
  <2> HIDE DEF h, n, k, under
  <2>7. DIV10 * k >= DIV10 * n
    BY <1>4, <2>6
  <2>8. /\ DIV10 * (h.loaded - n) = DIV10 * h.loaded - DIV10 * n
        /\ DIV10 * (h.loaded + 1) = DIV10 * h.loaded + DIV10
        /\ DIV10 * (n + 1) = DIV10 * n + DIV10
        /\ DIV10 * h.loaded \in Nat /\ DIV10 * n \in Nat /\ DIV10 * k \in Nat
    BY <1>4, <1>6
  <2>9. <<c, t>> # <<"A", "ta">> => e = DIV10 * n + DIV10
    BY <2>3, <2>5, <2>8
  <2> QED
    BY <1>3, <1>4, <1>6, <2>2, <2>5, <2>7, <2>8, <2>9 DEF n
<1> QED
  BY <1>3, <1>7, <1>8

\* Timer A of CIA-A, which forgives a clock, is counting.
TolerantCounts == "A" \in Chips /\ Clocked(tmr, "A", "ta")

TimingStep ==
  /\ Whole' /\ TimedInv'
  /\ CascadeDivides'
  /\ WholeClocks /\ ~TolerantCounts => OnTheCycle'
  /\ WholeClocks /\ RunningIsScheduled => AtMostAClockEarly'

HistoryTable == [Chips -> [Timers -> History \cup {NotTimed}]]

LEMMA UpdateTiming ==
  ASSUME TypeOK, Whole, TimedInv, NEW e \in Nat, NEW rest \in 0..(LongMod - 1),
         NEW tm \in TimerTable, NEW history \in HistoryTable,
         UpdateAndReschedule(e, tm, history, Underflows(Clocks(e)), rest),
         Exact(e) => Multiple(e) /\ Multiple(rest),
         due # Idle => e <= since + due,
         \A c \in Chips, t \in Timers : Keeps(tm[c][t], history[c][t], Exact(e))
  PROVE  TimingStep
<1>1. Whole'
  BY UpdateWhole
<1>2. tmr' = tm /\ timed' = history /\ cut' = (cut \/ Cut(e))
      /\ ended' = Ended(e, Underflows(Clocks(e)))
  BY DEF UpdateAndReschedule
<1>3. TimedInv'
  <2>1. WholeClocks /\ OnBeat' => Exact(e)
    BY DEF UpdateAndReschedule, Exact, OnBeat
  <2>2. \A c \in Chips, t \in Timers : Keeps(tm[c][t], history[c][t], WholeClocks /\ OnBeat')
    BY <2>1 DEF Keeps
  <2> QED
    BY <1>2, <2>2 DEF TimedInv, HistoryTable, Keeps, History, LatchMax, NotTimed, WholeClocks, Multiple
<1>4. ExactUpdate(e)
  BY ExactElapsed
<1>5. \A i \in ended' :
         /\ i.source = "cascade" => i.took = i.loaded + 1
         /\ i.late = passed
         /\ \E c \in Chips, t \in Timers :
              i.source = "clock" /\ Exact(e) =>
                /\ Clocked(tmr, c, t)
                /\ DIV10 * i.loaded <= i.took
                /\ <<c, t>> # <<"A", "ta">> => i.took = DIV10 * (i.loaded + 1)
                /\ e <= DIV10 * (tmr[c][t].count + 1) => i.took <= DIV10 * (i.loaded + 1)
  BY <1>2, <1>4, EndedRight
<1>6. WholeClocks /\ ~cut' /\ ~wrapped' => Exact(e)
  BY DEF UpdateAndReschedule, Exact, OnBeat
<1>7. CascadeDivides'
  BY <1>5 DEF CascadeDivides
<1>8. ASSUME WholeClocks, ~TolerantCounts PROVE OnTheCycle'
  <2>1. \A c \in Chips, t \in Timers : Clocked(tmr, c, t) => <<c, t>> # <<"A", "ta">>
    BY <1>8 DEF TolerantCounts
  <2> QED
    BY <1>5, <1>6, <1>8, <2>1 DEF OnTheCycle
<1>9. ASSUME WholeClocks, RunningIsScheduled PROVE AtMostAClockEarly'
  <2>1. ASSUME Exact(e), ~passed, NEW c \in Chips, NEW t \in Timers, Clocked(tmr, c, t)
        PROVE  e <= DIV10 * (tmr[c][t].count + 1)
    <3>1. due # Idle /\ since + due <= DIV10 * (tmr[c][t].count + 1)
      BY <1>9, <2>1 DEF RunningIsScheduled, Exact, OnBeat
    <3>2. since \in Nat /\ DIV10 \in Nat /\ due \in Int /\ tmr[c][t].count \in Nat
      BY CiaAssumption, LatchMaxNat DEF TypeOK, Idle
    <3>3. DIV10 * (tmr[c][t].count + 1) \in Nat
      BY <3>2
    <3> QED
      BY <3>1, <3>2, <3>3
  <2> QED
    BY <1>5, <1>6, <1>9, <2>1 DEF AtMostAClockEarly
<1> QED
  BY <1>1, <1>3, <1>7, <1>8, <1>9 DEF TimingStep

\* Steps that leave the timers alone complete no interval.
LEMMA UntimedStep ==
  ASSUME Whole', TimedInv, UNCHANGED <<tmr, timed>>, ended' = {}, cut => cut', wrapped => wrapped'
  PROVE  TimingStep
<1>1. TimedInv'
  BY DEF OnBeat, TimedInv, Keeps, History, LatchMax, NotTimed, WholeClocks, Multiple
<1> QED
  BY <1>1 DEF TimingStep, CascadeDivides, OnTheCycle, AtMostAClockEarly

LEMMA AbortTiming ==
  ASSUME Whole, TimedInv, NEW e, Abort(e)
  PROVE  TimingStep
<1>1. Whole'
  BY DEF Whole, Abort, WholeClocks, Multiple, OnBeat
<1> QED
  BY <1>1, UntimedStep DEF Abort

LEMMA TimesType ==
  ASSUME TypeOK, TimedInv, NEW e \in Nat, ExactUpdate(e), ~AssertFails(Clocks(e))
  PROVE  TimedAfter(e, Underflows(Clocks(e))) \in HistoryTable
<1> DEFINE under == Underflows(Clocks(e))
           aged == TimedAfter(e, under)
<1>1. \A c \in Chips, t \in Timers : aged[c][t] \in History \cup {NotTimed}
  BY UpdateTimes
<1>2. /\ DOMAIN aged = Chips /\ aged = [c \in Chips |-> aged[c]]
      /\ \A c \in Chips : aged[c] = [t \in Timers |-> aged[c][t]]
  BY DEF TimedAfter
<1> HIDE DEF aged
<1>3. \A c \in Chips : aged[c] \in [Timers -> History \cup {NotTimed}]
  BY <1>1, <1>2
<1> QED
  BY <1>2, <1>3 DEF HistoryTable, aged

LEMMA TimerWriteTiming ==
  ASSUME TypeOK, Whole, TimedInv, NEW c \in Chips, NEW t \in Timers, NEW new, NEW history,
         Updated[c][t] \in Timer => new \in Timer,
         /\ Updated[c][t] \in Timer
         /\ Elapsed[c][t] \in History \cup {NotTimed}
         /\ Keeps(Updated[c][t], Elapsed[c][t], Exact(since))
         => /\ history \in History \cup {NotTimed}
            /\ Keeps(new, history, Exact(since)),
         TimerWrite(c, t, new, history)
  PROVE  TimingStep
<1> DEFINE k == Clocks(since)
           table == [Updated EXCEPT ![c][t] = new]
           times == [Elapsed EXCEPT ![c][t] = history]
<1>1. since \in Nat /\ k \in Nat /\ due \in Nat \cup {Idle} /\ 0 \in 0..(LongMod - 1)
  BY ClocksNat, CiaAssumption DEF TypeOK
<1>2. CASE AssertFails(k) /\ Abort(since)
  BY <1>2, AbortTiming
<1>3. CASE ~AssertFails(k) /\ UpdateAndReschedule(since, table, times, Underflows(k), 0)
  <2>1. Updated \in TimerTable
    BY <1>1, TimersAfterType DEF Updated
  <2>2. new \in Timer /\ Updated[c][t] \in Timer
    BY <2>1 DEF TimerTable
  <2>3. table \in TimerTable
    BY <2>1, <2>2 DEF TimerTable
  <2>4. Exact(since) => Multiple(since)
    BY DEF Whole, Exact
  <2>5. ExactUpdate(since)
    BY <1>1, <2>4, ExactElapsed
  <2>6. Elapsed \in HistoryTable
    BY <1>1, <1>3, <2>5, TimesType DEF Elapsed
  <2>7. \A d \in Chips, u \in Timers : Keeps(Updated[d][u], Elapsed[d][u], Exact(since))
    BY <1>1, <1>3, <2>5, UpdateTimes DEF Updated, Elapsed
  <2>8. history \in History \cup {NotTimed} /\ Keeps(new, history, Exact(since))
    BY <2>2, <2>6, <2>7 DEF HistoryTable
  <2>9. times \in HistoryTable
    BY <2>6, <2>8 DEF HistoryTable
  <2>10. \A d \in Chips, u \in Timers : Keeps(table[d][u], times[d][u], Exact(since))
    <3> SUFFICES ASSUME NEW d \in Chips, NEW u \in Timers
                 PROVE  Keeps(table[d][u], times[d][u], Exact(since))
      OBVIOUS
    <3>1. CASE d = c /\ u = t
      <4>1. table[d][u] = new /\ times[d][u] = history
        BY <2>1, <2>6, <3>1 DEF TimerTable, HistoryTable
      <4> QED
        BY <2>8, <4>1
    <3>2. CASE ~(d = c /\ u = t)
      <4>1. table[d][u] = Updated[d][u] /\ times[d][u] = Elapsed[d][u]
        BY <2>1, <2>6, <3>2 DEF TimerTable, HistoryTable
      <4> QED
        BY <2>7, <4>1
    <3> QED
      BY <3>1, <3>2
  <2>11. Multiple(0)
    <3>1. 0 = DIV10 * 0
      BY CiaAssumption
    <3> QED
      BY <3>1 DEF Multiple
  <2>12. due # Idle => since <= since + due
    BY <1>1
  <2> HIDE DEF table, times, k
  <2> QED
    BY <1>1, <1>3, <2>3, <2>4, <2>9, <2>10, <2>11, <2>12, UpdateTiming DEF k
<1> QED
  BY <1>2, <1>3 DEF TimerWrite

\* A new latch does not change what a running timer counts from, except that
\* writing the high byte of a one-shot loads and starts it.
LEMMA WriteLoTiming ==
  ASSUME TypeOK, Whole, TimedInv, NEW c \in Chips, NEW t \in Timers,
         NEW v \in 0..(Byte - 1), WriteLo(c, t, v)
  PROVE  TimingStep
<1> DEFINE tm == Updated[c][t]
           new == [tm EXCEPT !.latch = (@ \div Byte) * Byte + v]
<1>1. tm \in Timer => new \in Timer
  BY LatchBytes DEF Timer
<1>2. tm \in Timer => /\ new.start = tm.start /\ new.source = tm.source
                      /\ new.count = tm.count
  <2> HIDE DEF tm
  <2> QED
    BY DEF Timer
<1>3. tm \in Timer /\ Keeps(tm, Elapsed[c][t], Exact(since)) => Keeps(new, Elapsed[c][t], Exact(since))
  <2> HIDE DEF tm, new
  <2> QED
    BY <1>2 DEF Keeps
<1>4. TimerWrite(c, t, new, Elapsed[c][t])
  BY DEF WriteLo
<1> HIDE DEF new
<1> QED
  BY <1>1, <1>3, <1>4, TimerWriteTiming

LEMMA WriteHiTiming ==
  ASSUME TypeOK, Whole, TimedInv, NEW c \in Chips, NEW t \in Timers,
         NEW v \in 0..(Byte - 1), WriteHi(c, t, v)
  PROVE  TimingStep
<1> DEFINE tm == Updated[c][t]
           latch == v * Byte + (tm.latch % Byte)
           new == HiWritten(tm, v)
           history == IF tm.oneshot /\ tm.source # "cnt" THEN [loaded |-> latch, age |-> 0]
                      ELSE Elapsed[c][t]
<1>1. tm \in Timer => new \in Timer
  BY HiWrittenType
<1>2. tm \in Timer =>
        /\ new.source = tm.source /\ new.start = (tm.start \/ tm.oneshot)
        /\ new.latch = latch
        /\ new.count = IF ~tm.start \/ tm.oneshot THEN latch ELSE tm.count
  <2> HIDE DEF tm
  <2> QED
    BY DEF Timer, HiWritten
<1>3. ASSUME tm \in Timer, Elapsed[c][t] \in History \cup {NotTimed},
             Keeps(tm, Elapsed[c][t], Exact(since))
      PROVE  history \in History \cup {NotTimed} /\ Keeps(new, history, Exact(since))
  <2>1. CASE tm.oneshot /\ tm.source # "cnt"
    <3>1. /\ new \in Timer /\ new.start /\ new.source # "cnt" /\ new.count = new.latch
          /\ history = [loaded |-> new.latch, age |-> 0]
      <4> HIDE DEF tm, new, latch
      <4> QED
        BY <1>1, <1>2, <1>3, <2>1
    <3> HIDE DEF new, history
    <3> QED
      BY <3>1, Reloaded
  <2>2. CASE ~(tm.oneshot /\ tm.source # "cnt")
    <3>1. history = Elapsed[c][t]
      BY <2>2
    <3>2. CASE Elapsed[c][t] = NotTimed
      <4> HIDE DEF new, history
      <4> QED
        BY <3>1, <3>2 DEF Keeps
    <3>3. CASE Elapsed[c][t] # NotTimed
      <4>1. tm.start /\ tm.source # "cnt" /\ ~tm.oneshot
        BY <1>3, <2>2, <3>3 DEF Keeps
      <4>2. new.start /\ new.source = tm.source /\ new.count = tm.count
        <5> HIDE DEF tm, new, latch
        <5> QED
          BY <1>2, <1>3, <4>1
      <4> HIDE DEF tm, new, history, latch
      <4> QED
        BY <1>3, <3>1, <3>3, <4>1, <4>2 DEF Keeps
    <3> QED
      BY <3>2, <3>3
  <2> QED
    BY <2>1, <2>2
<1>4. TimerWrite(c, t, new, history)
  BY DEF WriteHi, HiWritten
<1> HIDE DEF new, history
<1> QED
  BY <1>1, <1>3, <1>4, TimerWriteTiming

LEMMA WriteCrTiming ==
  ASSUME TypeOK, Whole, TimedInv, NEW c \in Chips, NEW t \in Timers, NEW source \in Sources,
         NEW oneshot \in BOOLEAN, NEW start \in BOOLEAN, NEW load \in BOOLEAN,
         WriteCr(c, t, source, oneshot, start, load)
  PROVE  TimingStep
<1> DEFINE tm == Updated[c][t]
           new == [tm EXCEPT !.start = start, !.oneshot = oneshot, !.source = source,
                             !.count = IF load THEN tm.latch ELSE @]
           history == IF start /\ load /\ source # "cnt" THEN [loaded |-> tm.latch, age |-> 0]
                      ELSE NotTimed
<1>1. tm \in Timer => new \in Timer
  <2> HIDE DEF tm
  <2> QED
    BY DEF Timer
<1>2. tm \in Timer =>
        /\ new.source = source /\ new.start = start /\ new.latch = tm.latch
        /\ load => new.count = tm.latch
  <2> HIDE DEF tm
  <2> QED
    BY DEF Timer
<1>3. ASSUME tm \in Timer
      PROVE  history \in History \cup {NotTimed} /\ Keeps(new, history, Exact(since))
  <2>1. CASE start /\ load /\ source # "cnt"
    <3>1. /\ new \in Timer /\ new.start /\ new.source # "cnt" /\ new.count = new.latch
          /\ history = [loaded |-> new.latch, age |-> 0]
      <4> HIDE DEF tm, new
      <4> QED
        BY <1>1, <1>2, <1>3, <2>1
    <3> HIDE DEF new, history
    <3> QED
      BY <3>1, Reloaded
  <2>2. CASE ~(start /\ load /\ source # "cnt")
    <3>1. history = NotTimed
      BY <2>2
    <3> HIDE DEF new, history
    <3> QED
      BY <3>1 DEF Keeps
  <2> QED
    BY <2>1, <2>2
<1>4. TimerWrite(c, t, new, history)
  BY DEF WriteCr
<1> HIDE DEF new, history
<1> QED
  BY <1>1, <1>3, <1>4, TimerWriteTiming

LEMMA UntouchedWhole ==
  ASSUME Whole, UNCHANGED <<since, div10, lastdiv10, due, cut, wrapped, passed>>
  PROVE  Whole'
BY DEF Whole, WholeClocks, Multiple, OnBeat

LEMMA ProgramTiming ==
  ASSUME TypeOK, Whole, TimedInv, Program
  PROVE  TimingStep
<1>1. ASSUME NEW c \in Chips, NEW lo \in LoBytes, WriteLo(c, lo[1], lo[2])
      PROVE  TimingStep
  <2>1. lo[1] \in Timers /\ lo[2] \in 0..(Byte - 1)
    BY CiaAssumption
  <2> QED
    BY <1>1, <2>1, WriteLoTiming
<1>2. ASSUME NEW c \in Chips, NEW hi \in HiBytes, WriteHi(c, hi[1], hi[2])
      PROVE  TimingStep
  <2>1. hi[1] \in Timers /\ hi[2] \in 0..(Byte - 1)
    BY CiaAssumption
  <2> QED
    BY <1>2, <2>1, WriteHiTiming
<1>3. ASSUME NEW mode \in Modes, NEW start \in BOOLEAN, NEW load \in BOOLEAN,
             WriteCr(mode[1], mode[2], mode[3], mode[4], start, load)
      PROVE  TimingStep
  <2>1. /\ mode[1] \in Chips /\ mode[2] \in Timers
        /\ mode[3] \in Sources /\ mode[4] \in BOOLEAN
    BY CiaAssumption
  <2> QED
    BY <1>3, <2>1, WriteCrTiming
<1>4. ASSUME UNCHANGED <<tmr, since, div10, lastdiv10, due, timed, cut, wrapped, passed>>,
             ended' = {}
      PROVE  TimingStep
  BY <1>4, UntouchedWhole, UntimedStep
<1>5. \/ \E c \in Chips, f \in Masks, enable \in BOOLEAN : WriteMask(c, f, enable)
      \/ \E c \in Chips : ReadIcr(c) \/ ClearIntreq(c)
      \/ WritePrb \/ RethinkCias
      => /\ UNCHANGED <<tmr, since, div10, lastdiv10, due, timed, cut, wrapped, passed>>
         /\ ended' = {}
  BY DEF WriteMask, ReadIcr, ClearIntreq, WritePrb, RethinkCias
<1> QED
  BY <1>1, <1>2, <1>3, <1>4, <1>5 DEF Program

LEMMA AdvanceTiming ==
  ASSUME TypeOK, Whole, TimedInv, Advance
  PROVE  TimingStep
<1>1. PICK n \in Chunks : Passes(n) \/ EventRuns(n)
  BY DEF Advance
<1>2. /\ n \in 1..(LongMod - 1) /\ LongMod \in Nat \ {0} /\ since \in 0..(LongMod - 1)
      /\ due \in 0..(LongMod - 1) \cup {Idle} /\ Idle = -1
  BY CiaAssumption DEF TypeOK, Idle
<1>3. WholeClocks => Multiple(n)
  BY DEF WholeClocks
<1>4. CASE Passes(n)
  <2>1. /\ UNCHANGED <<tmr, timed, wrapped, passed, div10, lastdiv10>> /\ ended' = {}
        /\ cut' = (cut \/ since + n >= LongMod)
        /\ since' = (since + n) % LongMod
        /\ due' = IF due = Idle THEN Idle ELSE due - n
        /\ due = Idle \/ n <= due
    BY <1>4 DEF Passes
  <2>2. ~cut' => since' = since + n
    <3>1. \A x \in 0..(LongMod - 1) : x % LongMod = x
      BY <1>2
    <3>2. ~(since + n >= LongMod) => since + n \in 0..(LongMod - 1)
      BY <1>2
    <3> QED
      BY <2>1, <3>1, <3>2, Zenon
  <2>3. Whole'
    <3> SUFFICES ASSUME WholeClocks, ~cut', ~wrapped
                 PROVE  /\ div10 = 0 /\ lastdiv10 = 0
                        /\ Multiple(since')
                        /\ due' # Idle /\ ~passed => Multiple(due')
                        /\ passed => due' # Idle /\ since' + due' >= LongMod
      BY <2>1 DEF Whole, WholeClocks, Multiple, OnBeat
    <3>1. /\ div10 = 0 /\ lastdiv10 = 0
          /\ Multiple(since) /\ Multiple(n)
          /\ due # Idle /\ ~passed => Multiple(due)
          /\ passed => due # Idle /\ since + due >= LongMod
      BY <1>3, <2>1 DEF Whole, OnBeat
    <3>2. Multiple(since')
      BY <2>2, <3>1, MultipleSum
    <3>3. due' # Idle /\ ~passed => Multiple(due')
      <4>1. due' # Idle => due # Idle /\ due' = due - n
        BY <2>1
      <4> QED
        BY <3>1, <4>1, MultipleSum
    <3>4. passed => due' # Idle /\ since' + due' >= LongMod
      <4>1. ASSUME passed
            PROVE  due' # Idle /\ since' + due' >= LongMod
        <5>1. due # Idle /\ since + due >= LongMod
          BY <3>1, <4>1
        <5>2. due' = due - n /\ n <= due
          BY <2>1, <5>1
        <5> QED
          BY <1>2, <2>2, <5>1, <5>2
      <4> QED
        BY <4>1
    <3> QED
      BY <3>1, <3>2, <3>3, <3>4
  <2> QED
    BY <2>1, <2>3, UntimedStep
<1>5. CASE EventRuns(n)
  <2> DEFINE e == since + due
             k == Clocks(e)
             under == Underflows(k)
             table == TimersAfter(k, under)
             times == TimedAfter(e, under)
  <2>1. due \in Nat /\ n > due
    BY <1>2, <1>5 DEF EventRuns
  <2>2. e \in Nat /\ n - due \in 0..(LongMod - 1)
    BY <1>2, <2>1
  <2>3. k \in Nat
    BY <2>2, ClocksNat
  <2>4. Exact(e) => Multiple(e) /\ Multiple(n - due)
    <3> SUFFICES ASSUME Exact(e) PROVE Multiple(e) /\ Multiple(n - due)
      OBVIOUS
    <3>1. ~passed
      <4>1. SUFFICES ASSUME since + due >= LongMod PROVE Cut(e)
        BY DEF Whole, Exact
      <4>2. CCountMod <= LongMod /\ CCountMod \in Nat /\ lastdiv10 \in Nat
        BY CiaAssumption DEF TypeOK
      <4> QED
        BY <1>2, <2>1, <4>1, <4>2 DEF Cut
    <3>2. Multiple(since) /\ Multiple(n) /\ Multiple(due)
      BY <1>2, <1>3, <2>1, <3>1 DEF Whole, Exact
    <3> QED
      BY <3>2, MultipleSum
  <2>5. CASE AssertFails(k) /\ Abort(e)
    BY <2>5, AbortTiming
  <2>6. CASE ~AssertFails(k) /\ UpdateAndReschedule(e, table, times, under, n - due)
    <3>1. table \in TimerTable
      BY <2>3, TimersAfterType
    <3>2. ExactUpdate(e)
      BY <2>2, <2>4, ExactElapsed
    <3>3. times \in HistoryTable
      BY <2>2, <2>6, <3>2, TimesType
    <3>4. \A c \in Chips, t \in Timers : Keeps(table[c][t], times[c][t], Exact(e))
      BY <2>2, <2>6, <3>2, UpdateTimes
    <3>5. due # Idle => e <= since + due
      BY <2>2
    <3> HIDE DEF e, table, times
    <3> QED
      BY <2>2, <2>4, <2>6, <3>1, <3>3, <3>4, <3>5, UpdateTiming
  <2> QED
    BY <1>5, <2>5, <2>6 DEF EventRuns
<1> QED
  BY <1>1, <1>4, <1>5

LEMMA TimingInit ==
  ASSUME Init
  PROVE  Whole /\ TimedInv /\ ended = {}
<1>1. Multiple(0)
  <2>1. 0 = DIV10 * 0
    BY CiaAssumption
  <2> QED
    BY <2>1 DEF Multiple
<1>2. Whole
  BY <1>1 DEF Init, Whole
<1>3. timed = [c \in Chips |-> [t \in Timers |-> NotTimed]]
  BY DEF Init
<1>4. TimedInv
  BY <1>3 DEF TimedInv, Keeps
<1> QED
  BY <1>2, <1>4 DEF Init

LEMMA TimingNext ==
  ASSUME TypeOK, Whole, TimedInv, Next
  PROVE  TimingStep
BY ProgramTiming, AdvanceTiming DEF Next

LEMMA TimingStutters ==
  ASSUME UNCHANGED vars
  PROVE  /\ Whole => Whole'
         /\ TimedInv => TimedInv'
         /\ CascadeDivides => CascadeDivides'
         /\ OnTheCycle => OnTheCycle'
         /\ AtMostAClockEarly => AtMostAClockEarly'
BY DEF vars, ciavars, OnBeat, Whole, WholeClocks, Multiple, TimedInv, Keeps, History, LatchMax,
       NotTimed, CascadeDivides, OnTheCycle, AtMostAClockEarly

LEMMA TimingCorrect == Spec => [](Whole /\ TimedInv)
<1>1. Init => Whole /\ TimedInv
  BY TimingInit
<1>2. TypeOK /\ Whole /\ TimedInv /\ [Next]_vars => Whole' /\ TimedInv'
  BY TimingNext, TimingStutters DEF TimingStep
<1> QED
  BY <1>1, <1>2, TypeCorrect, PTL DEF Spec

\* A cascaded timer B divides the underflows of timer A by its latch plus one,
\* although CIA_update visits it only with timer A (cia.c:136-138, 162-163): for every
\* latch, clock, chunk and program, and even after an elapsed time was cut.
THEOREM CascadeDividesHolds == Spec => []CascadeDivides
<1>1. Init => CascadeDivides
  BY TimingInit DEF CascadeDivides
<1>2. /\ TypeOK /\ Whole /\ TimedInv /\ CascadeDivides /\ [Next]_vars
      => CascadeDivides'
  BY TimingNext, TimingStutters DEF TimingStep
<1> QED
  BY <1>1, <1>2, TypeCorrect, TimingCorrect, PTL DEF Spec

\* Every completed interval has exactly its length, plain or cascaded, whatever
\* was written meanwhile and as long as no elapsed time and no due time was cut,
\* when the process adds whole clocks (cia_process) and the program leaves alone
\* timer A of CIA-A, whose test is the looser one (cia.c:133): CIA_calctimers
\* predicts what CIA_update then finds.
THEOREM IntervalsAreRightHolds ==
  ASSUME WholeClocks
  PROVE  Spec /\ []~TolerantCounts => []IntervalsAreRight
<1>1. Init => OnTheCycle
  BY TimingInit DEF OnTheCycle
<1>2. TypeOK /\ Whole /\ TimedInv /\ ~TolerantCounts /\ OnTheCycle /\ [Next]_vars
      => OnTheCycle'
  BY TimingNext, TimingStutters DEF TimingStep
<1>3. CascadeDivides /\ OnTheCycle => IntervalsAreRight
  BY DEF IntervalsAreRight
<1> QED
  BY <1>1, <1>2, <1>3, TypeCorrect, TimingCorrect, CascadeDividesHolds, PTL DEF Spec

\* No timer, the tolerant one included, underflows more than one clock early, or
\* late without a chunk that ran past its due time, and bit 7 has a source, when
\* the process adds whole clocks (CIA_update, CIA_calctimers).
THEOREM NothingTooSoonHolds ==
  ASSUME WholeClocks
  PROVE  Spec => []NothingTooSoon
<1>1. Init => AtMostAClockEarly
  BY TimingInit DEF AtMostAClockEarly
<1>2. /\ TypeOK /\ Whole /\ TimedInv /\ UnderflowsArePredicted
      /\ AtMostAClockEarly /\ [Next]_vars
      => AtMostAClockEarly'
  BY TimingNext, TimingStutters DEF TimingStep, UnderflowsArePredicted
<1>3. IrHasSource /\ AtMostAClockEarly => NothingTooSoon
  BY DEF NothingTooSoon
<1> QED
  BY <1>1, <1>2, <1>3, TypeCorrect, TimingCorrect, IrHasSourceHolds,
     UnderflowsArePredictedHolds, PTL DEF Spec

=============================================================================
