------------------------------- MODULE Blitter -------------------------------
(***************************************************************************)
(* The blitter (UAE/blitter.c, and its registers in UAE/custom_mini.c).    *)
(*                                                                         *)
(* A write of BLTSIZE starts a blit: it arms the slot ev_blitter, and the  *)
(* CIA process draws everything at once when the slot is due.  A program   *)
(* that writes a blitter register before that draws it itself, in          *)
(* maybe_blit.  Only events_schedule and do_cycles_slow take event_mx; the *)
(* registers, bltstate and the slot have no lock, and so every step below  *)
(* is one access to what both tasks share.                                 *)
(*                                                                         *)
(* What is drawn is left out, but not how often, and how a drawing ends.   *)
(* Program is the task that owns the blitter (chipOwnBlitter).  Times are  *)
(* relative to cycles, and ev_blitter is the only slot; Events.tla has the *)
(* others.                                                                 *)
(***************************************************************************)
EXTENDS Integers

CONSTANTS
  MaxSize,   \* bound: lines of a blit
  MaxChunk,  \* most cycles one call of do_cycles_slow adds
  LineTime,  \* cycles a line drawing is given
  Wait       \* cycles the handler waits for DMA

Program == "program"
Process == "cia process"
Tasks   == {Program, Process}
Other(t) == IF t = Program THEN Process ELSE Program

\* Cycles that a blit of n lines is given.
FastTime(n) == n

ASSUME BlitterAssumption == {MaxSize, MaxChunk, LineTime, Wait} \subseteq Nat \ {0}

VARIABLES
  pc,        \* pc[t]: what task t does next
  writing,   \* the register the program writes: "con", "mod", "size"
  time,      \* the program's blit_cycles
  left,      \* the process's cycles_to_add
  bltstate,  \* BLT_done, BLT_init, or any state of a drawing
  lines,     \* vblitsize, or Below when it is below zero
  line,      \* bltcon1 & 1
  blitline,  \* the same when the blit was started
  dma,       \* DMA_BLITTER and the master bit in m_DMACON
  audio,     \* DMA bit of one of the audio channels 1 to 3
  active,    \* eventtab[ev_blitter].active
  due,       \* eventtab[ev_blitter].evtime - cycles, or Far
  next,      \* nextevent - cycles, or Far
  drawn,     \* history: drawings of the last started blit
  cut,       \* history: a blit was started while do_cycles_slow was running
  late,      \* history: a chunk longer than Wait met the slot put off by the handler
  twice      \* history: both tasks were in blitter_handler

blit    == <<bltstate, lines, line, blitline, dma, audio>>
slot    == <<active, due, next>>
history == <<drawn, cut, late, twice>>
vars == <<pc, writing, time, left, blit, slot, history>>

Below == -1
Again == 2    \* drawn more than once
Far   == -1   \* further ahead than any delay: 2^32 minus a few cycles

Registers == {"con", "mod", "size"}
Handling  == {"enter", "reactivate", "rearm", "draw", "dot", "end", "off"}
Starting  == {"activate", "arm", "schedule"}
\* do_cycles_slow, which holds event_mx throughout.
Stepping  == Handling \cup {"due", "rest"}

Init ==
  /\ pc = [t \in Tasks |-> "idle"]
  /\ writing = "con" /\ time = 0 /\ left = 0
  /\ bltstate = "done" /\ lines = 0
  /\ line = FALSE /\ blitline = FALSE
  /\ dma = FALSE /\ audio = FALSE
  /\ active = FALSE /\ due = 0 /\ next = Far
  /\ drawn = 1 /\ cut = FALSE /\ late = FALSE /\ twice = FALSE

Goes(t, label) == pc' = [pc EXCEPT ![t] = label]

\* x cycles pass.
Later(d, x) == IF d = Far \/ d < x THEN Far ELSE d - x
Elapse(x) == due' = Later(due, x) /\ next' = Later(next, x)

\* events_schedule, with one slot.
EventsSchedule == next' = IF active THEN due ELSE Far

-----------------------------------------------------------------------------
(***************************************************************************)
(* The program.                                                            *)
(***************************************************************************)
Write(r) ==
  /\ pc[Program] = "idle"
  /\ writing' = r
  /\ Goes(Program, "test")
  /\ UNCHANGED <<time, left, blit, slot, history>>

\* Task t decides to run blitter_handler.
Handle(t) ==
  /\ Goes(t, "enter")
  /\ twice' = (twice \/ pc[Other(t)] \in Handling)

\* Mutant: a blit that is done is not left alone.
TestAlways ==
  /\ pc[Program] = "test"
  /\ \/ writing = "mod" /\ Goes(Program, "write") /\ UNCHANGED twice
     \/ Handle(Program)
  /\ UNCHANGED <<writing, time, left, blit, slot, drawn, cut, late>>

\* Mutant: any register may be written before the first line is over.
TestEarly ==
  /\ pc[Program] = "test"
  /\ \/ Goes(Program, "write") /\ UNCHANGED twice
     \/ bltstate # "done" /\ Handle(Program)
  /\ UNCHANGED <<writing, time, left, blit, slot, drawn, cut, late>>

\* maybe_blit.  A modulo may be written before the first line is over; the
\* comparison of the times does not survive the counter's wrap, so either
\* answer is possible at any time.
Test ==
  /\ pc[Program] = "test"
  /\ \/ /\ bltstate = "done" \/ writing = "mod"
        /\ Goes(Program, "write")
        /\ UNCHANGED twice
     \/ bltstate # "done" /\ Handle(Program)
  /\ UNCHANGED <<writing, time, left, blit, slot, drawn, cut, late>>

\* Bit 0 of BLTCON1 chooses line drawing.
WriteRegister ==
  /\ pc[Program] = "write" /\ writing # "size"
  /\ IF writing = "con" THEN line' \in BOOLEAN ELSE UNCHANGED line
  /\ Goes(Program, "idle")
  /\ UNCHANGED <<writing, time, left, bltstate, lines, blitline, dma, audio, slot, history>>

\* BLTSIZE and do_blitter up to blit_init: the time is chosen by the mode of
\* the blit before.
WriteSize ==
  /\ pc[Program] = "write" /\ writing = "size"
  /\ lines' \in 1..MaxSize
  /\ time' = IF blitline THEN LineTime ELSE FastTime(lines')
  /\ blitline' = line
  /\ bltstate' = "init"
  /\ drawn' = 0
  /\ Goes(Program, "activate")
  /\ UNCHANGED <<writing, left, line, dma, audio, slot, cut, late, twice>>

\* A blit started while the process is in do_cycles_slow.
Cuts == cut' = (cut \/ pc[Process] \in Stepping)

Activate ==
  /\ pc[Program] = "activate"
  /\ active' = TRUE
  /\ Cuts
  /\ Goes(Program, "arm")
  /\ UNCHANGED <<writing, time, left, blit, due, next, drawn, late, twice>>

Arm ==
  /\ pc[Program] = "arm"
  /\ due' = time
  /\ late' = FALSE
  /\ Cuts
  /\ Goes(Program, "schedule")
  /\ UNCHANGED <<writing, time, left, blit, active, next, drawn, twice>>

Schedule ==
  /\ pc[Program] = "schedule"
  /\ pc[Process] \notin Stepping
  /\ EventsSchedule
  /\ Goes(Program, "idle")
  /\ UNCHANGED <<writing, time, left, blit, active, due, history>>

\* PUHWrite(DMACON), for the bits the blitter looks at.
SetDma ==
  /\ pc[Program] = "idle"
  /\ dma' = ~dma
  /\ UNCHANGED <<pc, writing, time, left, bltstate, lines, line, blitline, audio, slot, history>>

\* The player of a piece of music, in any task.
SetAudio ==
  /\ audio' = ~audio
  /\ UNCHANGED <<pc, writing, time, left, bltstate, lines, line, blitline, dma, slot, history>>

\* chipWaitBlit tests DMACONR with DMAB_BLTDONE, a bit's number: 14, which
\* are the bits of the audio channels 1 to 3.
DmaconrMasked == audio

WaitBlit ==
  /\ pc[Program] = "idle"
  /\ Goes(Program, "wait")
  /\ UNCHANGED <<writing, time, left, blit, slot, history>>

Waited ==
  /\ pc[Program] = "wait"
  /\ ~DmaconrMasked
  /\ Goes(Program, "idle")
  /\ UNCHANGED <<writing, time, left, blit, slot, history>>

-----------------------------------------------------------------------------
(***************************************************************************)
(* blitter_handler, in the process or, from maybe_blit, in the program.    *)
(***************************************************************************)
Return(t) == Goes(t, IF t = Program THEN "write" ELSE "rest")

Enter(t) ==
  /\ pc[t] = "enter"
  /\ Goes(t, IF dma THEN "draw" ELSE "reactivate")
  /\ UNCHANGED <<writing, time, left, blit, slot, history>>

\* Mutant: without DMA the slot is turned off.
ReactivateOff(t) ==
  /\ pc[t] = "reactivate"
  /\ active' = FALSE
  /\ Goes(t, "rearm")
  /\ UNCHANGED <<writing, time, left, blit, due, next, history>>

Reactivate(t) ==
  /\ pc[t] = "reactivate"
  /\ active' = TRUE
  /\ Goes(t, "rearm")
  /\ UNCHANGED <<writing, time, left, blit, due, next, history>>

\* The wait may be shorter than what is left of the chunk: then it is over before
\* anything looks at the slot again.
Rearm(t) ==
  /\ pc[t] = "rearm"
  /\ due' = Wait
  /\ late' = (late \/ left > Wait)
  /\ Return(t)
  /\ UNCHANGED <<writing, time, left, blit, active, next, drawn, cut, twice>>

\* actually_do_blit: blitter_dofast, or the loop that draws a line.
Draw(t) ==
  /\ pc[t] = "draw"
  /\ drawn' = IF drawn = 0 THEN 1 ELSE Again
  /\ Goes(t, IF blitline THEN "dot" ELSE "end")
  /\ UNCHANGED <<writing, time, left, blit, slot, cut, late, twice>>

\* One round of the loop.  It ends on the count it has just stored, so a
\* count that another drawing takes to zero is passed.
Dot(t) ==
  /\ pc[t] = "dot"
  /\ lines' = IF lines > 0 THEN lines - 1 ELSE Below
  /\ bltstate' = "read"
  /\ Goes(t, IF lines' = 0 THEN "end" ELSE "dot")
  /\ UNCHANGED <<writing, time, left, line, blitline, dma, audio, slot, history>>

\* The end of blitter_dofast and of the loop.
End(t) ==
  /\ pc[t] = "end"
  /\ bltstate' = "done"
  /\ Goes(t, "off")
  /\ UNCHANGED <<writing, time, left, lines, line, blitline, dma, audio, slot, history>>

\* Mutant: the slot stays armed after the drawing.
TurnOffForgets(t) ==
  /\ pc[t] = "off"
  /\ Return(t)
  /\ UNCHANGED <<writing, time, left, blit, slot, history>>

TurnOff(t) ==
  /\ pc[t] = "off"
  /\ active' = FALSE
  /\ Return(t)
  /\ UNCHANGED <<writing, time, left, blit, due, next, history>>

Handler(t) ==
  \/ Enter(t) \/ Reactivate(t) \/ Rearm(t)
  \/ Draw(t) \/ Dot(t) \/ End(t) \/ TurnOff(t)

-----------------------------------------------------------------------------
(***************************************************************************)
(* The CIA process: do_cycles_slow and the events_schedule after it.       *)
(*                                                                         *)
(* maybe_blit does not reschedule after the handler has put the slot off,  *)
(* so nextevent can be later than the slot: a chunk longer than the wait   *)
(* may then run past it without a stop.                                    *)
(***************************************************************************)
Stop(n) ==
  /\ pc[Process] = "idle"
  /\ cut' = (cut \/ pc[Program] \in Starting)
  /\ late' = (late \/ (active /\ due # next /\ n > Wait))
  /\ IF next # Far /\ n > next
     THEN /\ Elapse(next)
          /\ left' = n - next
          /\ Goes(Process, "due")
     ELSE /\ left' = n
          /\ Goes(Process, "rest")
          /\ UNCHANGED <<due, next>>
  /\ UNCHANGED <<writing, time, blit, active, drawn, twice>>

Due ==
  /\ pc[Process] = "due"
  /\ IF active /\ due = 0
     THEN Handle(Process)
     ELSE Goes(Process, "rest") /\ UNCHANGED twice
  /\ UNCHANGED <<writing, time, left, blit, slot, drawn, cut, late>>

Rest ==
  /\ pc[Process] = "rest"
  /\ Elapse(left)
  /\ left' = 0
  /\ Goes(Process, "reschedule")
  /\ UNCHANGED <<writing, time, blit, active, history>>

Reschedule ==
  /\ pc[Process] = "reschedule"
  /\ EventsSchedule
  /\ Goes(Process, "idle")
  /\ UNCHANGED <<writing, time, left, blit, active, due, history>>

-----------------------------------------------------------------------------
Call == (\E r \in Registers : Write(r)) \/ SetDma \/ SetAudio \/ WaitBlit

ProgramStep ==
  \/ Test \/ WriteRegister \/ WriteSize \/ Activate \/ Arm \/ Schedule
  \/ Waited \/ Handler(Program)

ProcessStep ==
  \/ (\E n \in 1..MaxChunk : Stop(n)) \/ Due \/ Rest \/ Reschedule
  \/ Handler(Process)

Next == Call \/ ProgramStep \/ ProcessStep

Spec == Init /\ [][Next]_vars

\* Both tasks are scheduled; a program need never make a call.
FairSpec == Spec /\ WF_vars(ProgramStep) /\ WF_vars(ProcessStep)

-----------------------------------------------------------------------------
TypeOK ==
  /\ pc \in [Tasks -> Handling \cup Starting \cup
                      {"idle", "test", "write", "wait", "due", "rest", "reschedule"}]
  /\ writing \in Registers
  /\ time \in Nat /\ left \in 0..MaxChunk
  /\ bltstate \in {"done", "init", "read"}
  /\ lines \in 0..MaxSize \cup {Below}
  /\ {line, blitline, dma, audio, active, cut, late, twice} \subseteq BOOLEAN
  /\ due \in Nat \cup {Far} /\ next \in Nat \cup {Far}
  /\ drawn \in {0, 1, Again}

Quiet == pc[Program] \notin Handling \cup Starting /\ pc[Process] \notin Handling

\* A blit that is not done has its slot armed, and no armed slot is left over from a
\* done one, so nothing is drawn again: broken only by starting a blit while
\* do_cycles_slow runs, or by entering the handler twice.  Nor is the slot's time ever
\* behind the counter, where the blit would stay undrawn: do_blitter's is never passed,
\* the handler's only by a chunk longer than its wait (10 * CYCLE_UNIT in the code).
ArmedIffUnfinished ==
  Quiet /\ ~cut /\ ~twice =>
    /\ active <=> bltstate # "done"
    /\ active /\ ~late => due # Far

\* BLT_done, which the program sees as the blitter being free, means that the
\* blit was drawn, and drawn once, whoever drew it, also if its slot was
\* lost: broken only by the program and the process drawing together.
DoneIsDrawnOnce ==
  ~twice => /\ drawn <= 1
            /\ bltstate = "done" => drawn = 1

\* maybe_blit keeps a register write away from a blit that is not done as
\* long as there is DMA: the blit is drawn with the registers it was
\* started with (a modulo may be written early).
RegistersWaitForTheBlit ==
  pc[Program] = "write" /\ writing # "mod" /\ dma /\ ~twice => bltstate = "done"

\* With DMA on, no blit stays unfinished, unless one of these three has lost it.
BlitsFinish == ~<>[](bltstate # "done" /\ dma /\ ~cut /\ ~late /\ ~twice)
=============================================================================
