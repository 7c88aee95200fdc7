--------------------------------- MODULE Cia ---------------------------------
(***************************************************************************)
(* The interval timers and interrupt control of the two CIA chips          *)
(* (UAE/cia.c), driven by the one event slot ev_cia of events.c.           *)
(*                                                                         *)
(* The counters are kept lazily: they are brought up to date by CIA_update *)
(* only when the slot's event runs or a timer register is written, and     *)
(* CIA_calctimers then computes when the next underflow is due.  cia.c     *)
(* reads the cycle counter only through differences, so the state keeps    *)
(* those: since = cycles - oldcycles and due = evtime - cycles, which turn *)
(* over as the code's do.                                                  *)
(*                                                                         *)
(* A 16-bit latch is two digits to the base Byte; the widths the code      *)
(* relies on (Byte = 256, CCountMod = 2^16, LongMod = 2^32) are constants. *)
(***************************************************************************)
EXTENDS Integers, FiniteSetsExt

CONSTANTS
  Chips,      \* subset of {"A", "B"}: the chips the program touches
  Byte,       \* values of a register byte
  DIV10,      \* cycles per timer clock
  CCountMod,  \* CIA_update keeps the elapsed cycles in a uint16_t
  LongMod,    \* values of the cycle counter and of a due time: 32 bits
  Chunks,     \* cycles one call of do_cycles_slow adds
  LoBytes, HiBytes,  \* <<timer, byte>>: what the program writes to a latch
  Modes,      \* <<chip, timer, source, oneshot>> the program selects in a control register
  Masks       \* sets of sources the program enables or disables

Timers  == {"ta", "tb"}
Sources == {"clock", "cascade", "cnt"}   \* what a control register counts
Flag(t) == IF t = "ta" THEN "TA" ELSE "TB"
Flags   == {"TA", "TB", "FLG"}
LatchMax == Byte * Byte - 1

ASSUME CiaAssumption ==
  /\ Chips \subseteq {"A", "B"}
  /\ Byte \in Nat \ {0} /\ DIV10 \in Nat \ {0} /\ CCountMod \in Nat \ {0}
  /\ LongMod \in Nat \ {0} /\ CCountMod <= LongMod
  /\ Chunks \subseteq 1..(LongMod - 1)
  /\ LoBytes \cup HiBytes \subseteq Timers \X (0..(Byte - 1))
  /\ Modes \subseteq Chips \X Timers \X Sources \X BOOLEAN
  /\ Masks \subseteq SUBSET Flags

\* 2^16 divides 2^32, and the due time of a timer that counts clocks fits.
ASSUME WidthAssumption ==
  /\ LongMod % CCountMod = 0
  /\ DIV10 * (LatchMax + 1) < LongMod

VARIABLES
  tmr,        \* tmr[chip][timer]: counter, latch and control register bits
  icr,        \* icr[chip]: pending sources (bits 0..6 of ciaaicr, ciabicr)
  ir,         \* ir[chip]: bit 7, set when an interrupt was requested
  imask,      \* imask[chip]: enabled sources
  intreq,     \* intreq[chip]: the chip's bit (PORTS, EXTER) of pd->m_INTREQ
  since,      \* cycles - eventtab[ev_cia].oldcycles
  div10,      \* cycles short of a clock at the last update
  lastdiv10,  \* div10 one update earlier
  due,        \* cycles until the slot's event, or Idle
  aborted,    \* an assert of CIA_update has failed
  timed,      \* history: the latch value a running timer counts from, and the
              \* cycles it had run at the last update
  ended,      \* history: the timer intervals the last step completed
  cut,        \* history: an elapsed time did not fit its type
  wrapped,    \* history: a predicted due time did not fit its 32 bits
  passed      \* history: the due time lies behind, a chunk ran past it

ciavars == <<tmr, icr, ir, imask, intreq, since, div10, lastdiv10, due, aborted>>
vars == <<ciavars, timed, ended, cut, wrapped, passed>>

Idle == -1      \* eventtab[ev_cia].active = 0
NotTimed == [loaded |-> -1, age |-> 0]

-----------------------------------------------------------------------------
(***************************************************************************)
(* CIA_update, e cycles after the previous one.                            *)
(***************************************************************************)
\* The uint16_t sum of lines 120 and 121, and the whole clocks in it.
CCount(e) == ((e % CCountMod) + lastdiv10) % CCountMod
Clocks(e) == CCount(e) \div DIV10
Cut(e)    == e + lastdiv10 >= CCountMod

Counting(c, t) == tmr[c][t].start /\ tmr[c][t].source = "clock"
Cascaded(c)    == tmr[c]["tb"].start /\ tmr[c]["tb"].source = "cascade"

\* All counters but timer A of CIA-A insist that no clock was overslept: k
\* clocks have passed.
AssertFails(k) ==
  \E c \in Chips, t \in Timers :
    /\ <<c, t>> # <<"A", "ta">>
    /\ Counting(c, t)
    /\ tmr[c][t].count + 1 < k

\* Mutant: the tolerant timer waits for a clock that has gone already.
UnderflowALate(c, k) ==
  /\ Counting(c, "ta")
  /\ IF c = "A" THEN k > 0 /\ tmr[c]["ta"].count + 1 < k
                ELSE tmr[c]["ta"].count + 1 = k

\* Mutant: the tolerant timer gives up a clock more.
UnderflowAEarly(c, k) ==
  /\ Counting(c, "ta")
  /\ IF c = "A" THEN k > 0 /\ tmr[c]["ta"].count <= k + 1
                ELSE tmr[c]["ta"].count + 1 = k

\* Timer A of CIA-A underflows when it has reached 0 or would pass it; the
\* others when exactly one clock more than their count has passed.
UnderflowA(c, k) ==
  /\ Counting(c, "ta")
  /\ IF c = "A" THEN k > 0 /\ tmr[c]["ta"].count <= k
                ELSE tmr[c]["ta"].count + 1 = k

\* Mutant: a cascaded timer B underflows when it reaches 0.
UnderflowBAtZero(c, k) ==
  \/ Counting(c, "tb") /\ tmr[c]["tb"].count + 1 = k
  \/ UnderflowA(c, k) /\ Cascaded(c) /\ tmr[c]["tb"].count <= 1

UnderflowB(c, k) ==
  \/ Counting(c, "tb") /\ tmr[c]["tb"].count + 1 = k
  \/ UnderflowA(c, k) /\ Cascaded(c) /\ tmr[c]["tb"].count = 0

\* Which timers underflow, as <<chip, timer>>.
Underflows(k) ==
  {<<c, "ta">> : c \in {d \in Chips : UnderflowA(d, k)}}
  \cup {<<c, "tb">> : c \in {d \in Chips : UnderflowB(d, k)}}

CountAfter(c, t, k, under) ==
  LET n == tmr[c][t].count IN
  IF <<c, t>> \in under THEN tmr[c][t].latch
  ELSE IF Counting(c, t) THEN IF n < k THEN 0 ELSE n - k
  ELSE IF t = "tb" /\ Cascaded(c) /\ <<c, "ta">> \in under THEN n - 1
  ELSE n

\* Mutant: a one-shot keeps running.
TimersAfterNoStop(k, under) ==
  [c \in Chips |-> [t \in Timers |-> [tmr[c][t] EXCEPT !.count = CountAfter(c, t, k, under)]]]

\* The timers after the update: an underflow reloads, and stops a one-shot.
TimersAfter(k, under) ==
  [c \in Chips |-> [t \in Timers |->
     [tmr[c][t] EXCEPT
        !.count = CountAfter(c, t, k, under),
        !.start = @ /\ ~(<<c, t>> \in under /\ tmr[c][t].oneshot)]]]

\* RethinkICRA, RethinkICRB: does chip c request, f being pending?
Requests(c, f) == imask[c] \cap f # {}

\* Mutant: the request is decided before the underflow is flagged.
RethoughtTooEarly(under) ==
  LET flags == [c \in Chips |-> {Flag(t) : t \in {u \in Timers : <<c, u>> \in under}}]
      requests == {c \in Chips : flags[c] # {} /\ Requests(c, icr[c])}
  IN /\ icr' = [c \in Chips |-> icr[c] \cup flags[c]]
     /\ ir' = [c \in Chips |-> IF flags[c] # {} THEN c \in requests ELSE ir[c]]
     /\ intreq' = [c \in Chips |-> intreq[c] \/ c \in requests]

\* The underflows are flagged, and only then does CIA_update rethink.
Rethought(under) ==
  LET flags == [c \in Chips |-> {Flag(t) : t \in {u \in Timers : <<c, u>> \in under}}]
      requests == {c \in Chips : flags[c] # {} /\ Requests(c, icr[c] \cup flags[c])}
  IN /\ icr' = [c \in Chips |-> icr[c] \cup flags[c]]
     /\ ir' = [c \in Chips |-> IF flags[c] # {} THEN c \in requests ELSE ir[c]]
     /\ intreq' = [c \in Chips |-> intreq[c] \/ c \in requests]

\* The remainder used next time is the one before the one just computed.
Remainders(e) ==
  /\ lastdiv10' = div10
  /\ div10' = CCount(e) % DIV10

(***************************************************************************)
(* CIA_calctimers: cycles until the next underflow of timers tm with the   *)
(* remainder d.                                                            *)
(***************************************************************************)
TimeOfClocked(tm, d, c, t) == (DIV10 - d) + DIV10 * tm[c][t].count

Clocked(tm, c, t) == tm[c][t].start /\ tm[c][t].source = "clock"

\* A cascaded timer B needs timer A to run, more than once if its count says so.
CascadePredicted(tm, c) ==
  /\ tm[c]["tb"].start /\ tm[c]["tb"].source = "cascade"
  /\ Clocked(tm, c, "ta")
  /\ tm[c]["tb"].count = 0 \/ ~tm[c]["ta"].oneshot

TimeOfCascaded(tm, d, c) ==
  TimeOfClocked(tm, d, c, "ta") + tm[c]["ta"].latch * DIV10 * tm[c]["tb"].count

\* The cascaded time is cut to 32 bits, and -1 stands for none.
DueTimes(tm, d) ==
  {TimeOfClocked(tm, d, ct[1], ct[2]) :
     ct \in {x \in Chips \X Timers : Clocked(tm, x[1], x[2])}}
  \cup
  ({TimeOfCascaded(tm, d, c) % LongMod : c \in {x \in Chips : CascadePredicted(tm, x)}}
     \ {LongMod - 1})

Wraps(tm, d) ==
  \E c \in Chips : CascadePredicted(tm, c) /\ TimeOfCascaded(tm, d, c) >= LongMod - 1

\* Mutant: the comparison of lines 246 to 253 is turned round.
CalcTimersLatest(tm, d) ==
  IF DueTimes(tm, d) = {} THEN Idle
  ELSE CHOOSE x \in DueTimes(tm, d) : \A y \in DueTimes(tm, d) : y <= x

CalcTimers(tm, d) == IF DueTimes(tm, d) = {} THEN Idle ELSE Min(DueTimes(tm, d))

-----------------------------------------------------------------------------
(***************************************************************************)
(* History: how long each interval of a timer really took, in cycles, or   *)
(* in underflows of timer A for a cascaded timer B.                        *)
(***************************************************************************)
Runs(c, t) == tmr[c][t].start /\ tmr[c][t].source # "cnt"
Aged(c, t, e, under) ==
  timed[c][t].age + IF tmr[c][t].source = "clock" THEN e
                    ELSE IF <<c, "ta">> \in under THEN 1 ELSE 0

TimedAfter(e, under) ==
  [c \in Chips |-> [t \in Timers |->
     IF timed[c][t] = NotTimed \/ ~Runs(c, t) THEN NotTimed
     ELSE IF tmr[c][t].source = "clock" /\ (cut \/ Cut(e)) THEN NotTimed
     ELSE IF <<c, t>> \notin under THEN [timed[c][t] EXCEPT !.age = Aged(c, t, e, under)]
     ELSE IF tmr[c][t].oneshot THEN NotTimed
     ELSE [loaded |-> tmr[c][t].latch, age |-> 0]]]

Ended(e, under) ==
  {[source |-> tmr[ct[1]][ct[2]].source,
    loaded |-> timed[ct[1]][ct[2]].loaded,
    took   |-> Aged(ct[1], ct[2], e, under),
    late   |-> passed] :
     ct \in {x \in under : timed[x[1]][x[2]] # NotTimed}}

-----------------------------------------------------------------------------
ResetTimer == [count |-> LatchMax, latch |-> LatchMax,
               start |-> FALSE, oneshot |-> FALSE, source |-> "clock"]

\* CIA_reset.
Init ==
  /\ tmr = [c \in Chips |-> [t \in Timers |-> ResetTimer]]
  /\ icr = [c \in Chips |-> {}]
  /\ ir = [c \in Chips |-> FALSE]
  /\ imask = [c \in Chips |-> {}]
  /\ intreq = [c \in Chips |-> FALSE]
  /\ since = 0 /\ div10 = 0 /\ lastdiv10 = 0
  /\ due = Idle
  /\ aborted = FALSE
  /\ timed = [c \in Chips |-> [t \in Timers |-> NotTimed]]
  /\ ended = {}
  /\ cut = FALSE /\ wrapped = FALSE /\ passed = FALSE

Abort(e) ==
  /\ aborted' = TRUE
  /\ cut' = (cut \/ Cut(e))
  /\ ended' = {}
  /\ UNCHANGED <<tmr, icr, ir, imask, intreq, since, div10, lastdiv10, due, timed,
                 wrapped, passed>>

(***************************************************************************)
(* CIA_update and CIA_calctimers, e cycles after the last time: tm are the *)
(* timers in between, rest cycles of the current chunk are still to add.   *)
(***************************************************************************)
UpdateAndReschedule(e, tm, history, under, rest) ==
  /\ tmr' = tm
  /\ timed' = history
  /\ ended' = Ended(e, under)
  /\ cut' = (cut \/ Cut(e))
  /\ Rethought(under)
  /\ Remainders(e)
  /\ since' = rest
  /\ LET d == CalcTimers(tm, div10')
     IN  /\ due' = IF d = Idle THEN Idle ELSE (d - rest) % LongMod
         /\ passed' = (d # Idle /\ d < rest)
  /\ wrapped' = (wrapped \/ Wraps(tm, div10'))
  /\ UNCHANGED <<imask, aborted>>

\* The timers as CIA_update leaves them for a register write now.
Updated == TimersAfter(Clocks(since), Underflows(Clocks(since)))
Elapsed == TimedAfter(since, Underflows(Clocks(since)))

\* A write of a register of timer t: CIA_update, the new contents of the
\* timer, CIA_calctimers.
TimerWrite(c, t, new, history) ==
  LET k == Clocks(since)
  IN /\ ~aborted
     /\ \/ AssertFails(k) /\ Abort(since)
        \/ /\ ~AssertFails(k)
           /\ UpdateAndReschedule(since, [Updated EXCEPT ![c][t] = new],
                [Elapsed EXCEPT ![c][t] = history], Underflows(k), 0)

\* talo, tblo: the low byte of the latch.
WriteLo(c, t, v) ==
  TimerWrite(c, t, [Updated[c][t] EXCEPT !.latch = (@ \div Byte) * Byte + v],
             Elapsed[c][t])

\* tahi, tbhi: the high byte; a stopped timer is loaded, a one-shot started.
WriteHi(c, t, v) ==
  LET tm    == Updated[c][t]
      latch == v * Byte + (tm.latch % Byte)
  IN  TimerWrite(c, t, [tm EXCEPT !.latch = latch,
                                  !.count = IF ~tm.start \/ tm.oneshot THEN latch ELSE @,
                                  !.start = @ \/ tm.oneshot],
                 IF tm.oneshot /\ tm.source # "cnt" THEN [loaded |-> latch, age |-> 0]
                 ELSE Elapsed[c][t])

\* cra, crb: the control register; the LOAD strobe copies the latch.
WriteCr(c, t, source, oneshot, start, load) ==
  LET tm == Updated[c][t]
  IN  TimerWrite(c, t, [tm EXCEPT !.start = start, !.oneshot = oneshot, !.source = source,
                                  !.count = IF load THEN tm.latch ELSE @],
                 IF start /\ load /\ source # "cnt" THEN [loaded |-> tm.latch, age |-> 0]
                 ELSE NotTimed)

\* icr written: setclr on the mask, without a rethink.
WriteMask(c, f, enable) ==
  /\ ~aborted
  /\ imask' = [imask EXCEPT ![c] = IF enable THEN @ \cup f ELSE @ \ f]
  /\ UNCHANGED <<tmr, icr, ir, intreq, since, div10, lastdiv10, due, aborted, timed,
                 cut, wrapped, passed>>
  /\ ended' = {}

\* icr read: the pending sources and bit 7 are returned and cleared.
ReadIcr(c) ==
  /\ ~aborted
  /\ icr' = [icr EXCEPT ![c] = {}]
  /\ ir' = [ir EXCEPT ![c] = FALSE]
  /\ UNCHANGED <<tmr, imask, intreq, since, div10, lastdiv10, due, aborted, timed,
                 cut, wrapped, passed>>
  /\ ended' = {}

\* prb of CIA-A written: the printer's acknowledge is flagged, no rethink.
WritePrb ==
  /\ ~aborted
  /\ "A" \in Chips
  /\ "FLG" \in UNION Masks
  /\ icr' = [icr EXCEPT !["A"] = @ \cup {"FLG"}]
  /\ UNCHANGED <<tmr, ir, imask, intreq, since, div10, lastdiv10, due, aborted, timed,
                 cut, wrapped, passed>>
  /\ ended' = {}

\* INTREQ of micro_sys/cpu.c, called when a blit has finished: both chips
\* rethink and request again what is still pending.
RethinkCias ==
  /\ ~aborted
  /\ Masks # {}
  /\ ir' = [c \in Chips |-> Requests(c, icr[c])]
  /\ intreq' = [c \in Chips |-> intreq[c] \/ Requests(c, icr[c])]
  /\ UNCHANGED <<tmr, icr, imask, since, div10, lastdiv10, due, aborted, timed,
                 cut, wrapped, passed>>
  /\ ended' = {}

\* The program acknowledges the chip's bit in INTREQ.
ClearIntreq(c) ==
  /\ ~aborted
  /\ intreq[c]
  /\ intreq' = [intreq EXCEPT ![c] = FALSE]
  /\ UNCHANGED <<tmr, icr, ir, imask, since, div10, lastdiv10, due, aborted, timed,
                 cut, wrapped, passed>>
  /\ ended' = {}

(***************************************************************************)
(* do_cycles_slow(n) with ev_cia as the only slot: either the event is not *)
(* inside the chunk, or CIA_handler runs at the event and the rest of the  *)
(* chunk is added afterwards, past the next event if that is nearer.       *)
(***************************************************************************)
Passes(n) ==
  /\ ~aborted
  /\ due = Idle \/ n <= due
  /\ since' = (since + n) % LongMod
  /\ due' = IF due = Idle THEN Idle ELSE due - n
  /\ cut' = (cut \/ since + n >= LongMod)
  /\ UNCHANGED <<tmr, icr, ir, imask, intreq, div10, lastdiv10, aborted, timed,
                 wrapped, passed>>
  /\ ended' = {}

EventRuns(n) ==
  /\ ~aborted
  /\ due # Idle /\ n > due
  /\ LET e     == since + due
         k     == Clocks(e)
         under == Underflows(k)
     IN \/ AssertFails(k) /\ Abort(e)
        \/ /\ ~AssertFails(k)
           /\ UpdateAndReschedule(e, TimersAfter(k, under), TimedAfter(e, under),
                                  under, n - due)

Advance == \E n \in Chunks : Passes(n) \/ EventRuns(n)

Program ==
  \/ \E c \in Chips, lo \in LoBytes : WriteLo(c, lo[1], lo[2])
  \/ \E c \in Chips, hi \in HiBytes : WriteHi(c, hi[1], hi[2])
  \/ \E mode \in Modes, start, load \in BOOLEAN :
       WriteCr(mode[1], mode[2], mode[3], mode[4], start, load)
  \/ \E c \in Chips, f \in Masks, enable \in BOOLEAN : WriteMask(c, f, enable)
  \/ \E c \in Chips : ReadIcr(c)
  \/ WritePrb
  \/ \E c \in Chips : ClearIntreq(c)
  \/ RethinkCias

Next == Advance \/ Program

Spec == Init /\ [][Next]_vars

\* The CIA process calls do_cycles_slow for as long as the library is open.
FairSpec == Spec /\ WF_vars(Advance)

-----------------------------------------------------------------------------
TypeOK ==
  /\ tmr \in [Chips -> [Timers -> [count : 0..LatchMax, latch : 0..LatchMax,
                                   start : BOOLEAN, oneshot : BOOLEAN,
                                   source : Sources]]]
  /\ icr \in [Chips -> SUBSET Flags] /\ imask \in [Chips -> SUBSET Flags]
  /\ ir \in [Chips -> BOOLEAN] /\ intreq \in [Chips -> BOOLEAN]
  /\ since \in 0..(LongMod - 1)
  /\ div10 \in 0..(DIV10 - 1) /\ lastdiv10 \in 0..(DIV10 - 1)
  /\ due \in 0..(LongMod - 1) \cup {Idle}
  /\ aborted \in BOOLEAN
  /\ passed \in BOOLEAN

\* A timer that counts clocks has its next underflow ahead of it: the slot is
\* armed, and due before the counter has run out, even when another timer or an
\* earlier update set the due time, or when that of a cascaded one was cut to 32
\* bits.  An elapsed time cut to 16 bits ends this, and a chunk that runs past
\* the due time suspends it.
RunningIsScheduled ==
  \A c \in Chips, t \in Timers :
    Clocked(tmr, c, t) /\ ~cut /\ ~passed
      => due # Idle /\ since + due <= DIV10 * (tmr[c][t].count + 1)

\* A chunk runs past the due time only where a running timer's interval is shorter
\* than what was left of the chunk, or where a due time was cut to 32 bits.
PassedOnlyIfShort ==
  passed /\ ~cut =>
    wrapped \/ \E c \in Chips, t \in Timers :
                 Clocked(tmr, c, t) /\ DIV10 * (tmr[c][t].count + 1) < since + div10

\* The asserts of CIA_update (cia.c:152, 159, 169) fail only where an elapsed
\* time was cut to 16 bits or the due time was passed inside a chunk: no
\* sequence of register writes alone gets a counter past its underflow.
AssertsFailOnlyIfCutOrPassed == aborted => cut \/ passed

\* What CIA_calctimers predicts is what CIA_update needs: all of these.
UnderflowsArePredicted ==
  RunningIsScheduled /\ PassedOnlyIfShort /\ AssertsFailOnlyIfCutOrPassed

\* Bit 7 is never read without a source to go with it.
IrHasSource == \A c \in Chips : ir[c] => icr[c] # {}

\* A source that an underflow flags while it is enabled requests the
\* interrupt in the same step, whoever triggered the update.
UnderflowRequests ==
  [][\A c \in Chips :
       (icr'[c] \ icr[c]) \cap imask[c] \cap {"TA", "TB"} # {} =>
         ir'[c] /\ intreq'[c]]_vars

\* An underflow found by the process belongs to a running timer, and a
\* one-shot does not survive it: one flag per start.
OneShotFiresOnce ==
  [][Advance =>
       \A c \in Chips, t \in Timers :
         Flag(t) \in icr'[c] \ icr[c] =>
           /\ tmr[c][t].start
           /\ tmr[c][t].oneshot => ~tmr'[c][t].start]_vars

\* As long as no elapsed time was cut to 16 bits and no due time to 32, an
\* interval takes one clock more than the latch said, to the cycle, whatever was
\* written in between and however late the process: a counter that was passed
\* stops the program at an assert instead.
OnTheCycle ==
  \A i \in ended :
    i.source = "clock" /\ ~cut /\ ~wrapped => i.took = DIV10 * (i.loaded + 1)

\* A cascaded timer B divides: it underflows at one underflow of timer A more
\* than its latch says, although nobody updates it in between.
CascadeDivides ==
  \A i \in ended : i.source = "cascade" => i.took = i.loaded + 1

\* Each interval has its length, plain or cascaded.
IntervalsAreRight == OnTheCycle /\ CascadeDivides

\* Timer A of CIA-A takes a clock early what a register write finds in its
\* last clock, but never more than that one clock; it is late only when a chunk
\* had run past its due time.
AtMostAClockEarly ==
  \A i \in ended :
    i.source = "clock" /\ ~cut /\ ~wrapped =>
      /\ DIV10 * i.loaded <= i.took
      /\ i.took <= DIV10 * (i.loaded + 1) \/ i.late

\* No interrupt without a source that is pending, and none before its time.
NothingTooSoon == IrHasSource /\ AtMostAClockEarly

\* Timer A of a chip runs, its counter a clock below the 16 bits of CIA_update.
ShortInterval(c) ==
  Clocked(tmr, c, "ta") /\ DIV10 * (tmr[c]["ta"].count + 2) <= CCountMod

\* A program that only polls the icr sees a running timer underflow again and
\* again (libtests/timeing.c waits this way), however late the process: after a
\* due time was passed, one turn of the cycle counter later.  Of timer A of CIA-A
\* only, the one without an assert, and only of short intervals: an elapsed time
\* that is cut to 16 bits may keep a longer one from ever being seen to end.
PollingSeesUnderflow ==
  \A c \in Chips \cap {"A"} :
    /\ <>[][Advance \/ ReadIcr(c)]_vars
    /\ <>[]ShortInterval(c)
    => []<>(Flag("ta") \in icr[c])
=============================================================================
