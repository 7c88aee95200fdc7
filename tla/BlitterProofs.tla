---------------------------- MODULE BlitterProofs ----------------------------
(***************************************************************************)
(* Theorems about Blitter.tla, for any sizes and times of blits, and about *)
(* BlitDraw.tla, for any memory and any blits that stay in it.             *)
(***************************************************************************)
EXTENDS Blitter, BlitDraw, TLAPS, WellFoundedInduction, FiniteSetTheorems

(***************************************************************************)
(* The type invariant.                                                     *)
(***************************************************************************)
Labels == Handling \cup Starting \cup
          {"idle", "test", "write", "wait", "due", "rest", "reschedule"}

LEMMA GoesType ==
  ASSUME pc \in [Tasks -> Labels], NEW t, NEW label \in Labels, Goes(t, label)
  PROVE  pc' \in [Tasks -> Labels]
BY DEF Goes

LEMMA LaterType ==
  ASSUME NEW d \in Nat \cup {Far}, NEW x \in Nat
  PROVE  Later(d, x) \in Nat \cup {Far}
BY DEF Later, Far

LEMMA ScheduleType ==
  ASSUME TypeOK, EventsSchedule
  PROVE  next' \in Nat \cup {Far}
BY DEF EventsSchedule, TypeOK

LEMMA HandlerType ==
  ASSUME TypeOK, NEW t \in Tasks, Handler(t)
  PROVE  TypeOK'
<1>1. {"draw", "reactivate", "rearm", "dot", "end", "off", "write", "rest"} \subseteq Labels
  BY DEF Labels, Handling
<1>2. pc' \in [Tasks -> Labels]
  <2>1. pc \in [Tasks -> Labels]
    BY DEF TypeOK, Labels
  <2>2. PICK label \in Labels : Goes(t, label)
    BY <1>1 DEF Handler, Enter, Reactivate, Rearm, Draw, Dot, End, TurnOff, Return
  <2> QED
    BY <2>1, <2>2, GoesType
<1>3. /\ active' \in BOOLEAN
      /\ due' \in Nat \cup {Far} /\ next' \in Nat \cup {Far}
  BY BlitterAssumption
  DEF TypeOK, Handler, Enter, Reactivate, Rearm, Draw, Dot, End, TurnOff, slot
<1>4. /\ lines' \in 0..MaxSize \cup {Below}
      /\ bltstate' \in {"done", "init", "read"}
      /\ drawn' \in {0, 1, Again}
  BY BlitterAssumption
  DEF TypeOK, Handler, Enter, Reactivate, Rearm, Draw, Dot, End, TurnOff, blit, history, Below
<1>5. /\ UNCHANGED <<writing, time, left, line, blitline, dma, audio, cut, twice>>
      /\ late' \in BOOLEAN
  BY DEF TypeOK, Handler, Enter, Reactivate, Rearm, Draw, Dot, End, TurnOff, blit, history
<1> QED
  BY <1>2, <1>3, <1>4, <1>5 DEF TypeOK, Labels

LEMMA ProgramType ==
  ASSUME TypeOK, Call \/ ProgramStep, ~Handler(Program)
  PROVE  TypeOK'
<1>1. CASE Call
  BY <1>1 DEF Call, TypeOK, Write, SetDma, SetAudio, WaitBlit, Goes, blit, slot, history
<1>2. CASE Test
  BY <1>2 DEF Test, Handle, TypeOK, Goes, Handling, blit, slot
<1>3. CASE WriteRegister
  BY <1>3 DEF WriteRegister, TypeOK, Goes, slot, history
<1>4. CASE WriteSize
  <2>1. time' \in Nat /\ lines' \in 0..MaxSize \cup {Below}
    BY <1>4, BlitterAssumption DEF WriteSize, FastTime
  <2>2. blitline' \in BOOLEAN
    BY <1>4 DEF WriteSize, TypeOK
  <2>3. pc' \in [Tasks -> Labels]
    BY <1>4, GoesType DEF WriteSize, TypeOK, Labels, Starting
  <2> QED
    BY <1>4, <2>1, <2>2, <2>3 DEF WriteSize, TypeOK, Labels, slot
<1>5. CASE Activate \/ Arm
  BY <1>5 DEF Activate, Arm, Cuts, TypeOK, Goes, Starting, blit
<1>6. CASE Schedule
  BY <1>6, ScheduleType DEF Schedule, TypeOK, Goes, blit, history
<1>7. CASE Waited
  BY <1>7 DEF Waited, TypeOK, Goes, blit, slot, history
<1> QED
  BY <1>1, <1>2, <1>3, <1>4, <1>5, <1>6, <1>7 DEF ProgramStep

LEMMA ProcessType ==
  ASSUME TypeOK, ProcessStep, ~Handler(Process)
  PROVE  TypeOK'
<1>1. ASSUME NEW n \in 1..MaxChunk, Stop(n)
      PROVE  TypeOK'
  <2>1. left' \in 0..MaxChunk
    BY <1>1, BlitterAssumption DEF Stop, TypeOK, Far
  <2>2. due' \in Nat \cup {Far} /\ next' \in Nat \cup {Far}
    BY <1>1, LaterType DEF Stop, Elapse, TypeOK, Far
  <2> QED
    BY <1>1, <2>1, <2>2 DEF Stop, TypeOK, Goes, blit
<1>2. CASE Due
  BY <1>2 DEF Due, Handle, TypeOK, Goes, Handling, blit, slot
<1>3. CASE Rest
  <2>0. left \in Nat
    BY BlitterAssumption DEF TypeOK
  <2>1. due' \in Nat \cup {Far} /\ next' \in Nat \cup {Far}
    BY <1>3, <2>0, LaterType DEF Rest, Elapse, TypeOK
  <2>2. left' \in 0..MaxChunk
    BY <1>3, BlitterAssumption DEF Rest
  <2> QED
    BY <1>3, <2>1, <2>2 DEF Rest, TypeOK, Goes, blit, history
<1>4. CASE Reschedule
  BY <1>4, ScheduleType DEF Reschedule, TypeOK, Goes, blit, history
<1> QED
  BY <1>1, <1>2, <1>3, <1>4 DEF ProcessStep

LEMMA TypeFromStart ==
  ASSUME Init
  PROVE  TypeOK
<1>1. left \in 0..MaxChunk /\ lines \in 0..MaxSize \cup {Below}
  BY BlitterAssumption DEF Init
<1>2. pc \in [Tasks -> Labels] /\ writing \in Registers
  BY DEF Init, Labels, Registers
<1> QED
  BY <1>1, <1>2 DEF Init, TypeOK, Labels

LEMMA TypeInStep ==
  ASSUME TypeOK, [Next]_vars
  PROVE  TypeOK'
<1>1. CASE Handler(Program) \/ Handler(Process)
  BY <1>1, HandlerType DEF Tasks
<1>2. CASE Next /\ ~Handler(Program) /\ ~Handler(Process)
  BY <1>2, ProgramType, ProcessType DEF Next
<1>3. CASE UNCHANGED vars
  BY <1>3 DEF vars, blit, slot, history, TypeOK
<1> QED
  BY <1>1, <1>2, <1>3

\* Every variable keeps its type: no blit has more lines than it may, and the
\* time left of a chunk never exceeds the chunk.
THEOREM TypeCorrect == Spec => []TypeOK
BY TypeFromStart, TypeInStep, PTL DEF Spec

(***************************************************************************)
(* Drawing once.  Without a lock, what keeps the two tasks from drawing    *)
(* the same blit is where each of them stands; the invariant says so for   *)
(* every pair of places, as long as they were not both in the handler.     *)
(***************************************************************************)
Drawing == {"draw", "dot", "end"}
In(labels) == pc[Program] \in labels \/ pc[Process] \in labels

Exclusive == ~(pc[Program] \in Handling /\ pc[Process] \in Handling)

\* The program stays in the handler while it has DMA off.
Deferring == pc[Program] \in {"reactivate", "rearm"} => ~dma

\* The handler is not entered for a blit that is done, and the history of
\* the drawing is the state of the task that draws.
DrawnOnce ==
  /\ drawn \in {0, 1}
  /\ bltstate = "done" => drawn = 1
  /\ In(Handling \ {"off"}) => bltstate # "done"
  /\ pc[Program] = "off" => bltstate = "done"
  /\ bltstate # "done" => (drawn = 1 <=> In({"dot", "end"}))

\* The slot of a blit that is done stays armed only until its drawer's last step.
NoneLeftOver == active /\ bltstate = "done" => In({"off"})

\* The process does not begin a drawing behind maybe_blit's back: it needs
\* the blit unfinished, and DMA, which only the program can turn on.
WritesWait ==
  pc[Program] = "write" /\ writing # "mod" =>
    bltstate = "done" \/ (~dma /\ pc[Process] \notin Drawing)

\* A blit starts with nobody drawing the one before.
StartsClean ==
  pc[Program] = "activate" =>
    /\ bltstate # "done"
    /\ pc[Process] \notin Drawing
    /\ dma => pc[Process] \notin Handling \ {"off"}
    /\ dma /\ active => pc[Process] = "off"

Parts == Exclusive /\ Deferring /\ DrawnOnce /\ NoneLeftOver /\ WritesWait /\ StartsClean
BlitInv == TypeOK /\ (~twice => Parts)

\* A step of one task leaves the other where it is.
LEMMA GoesAlone ==
  ASSUME TypeOK, NEW t \in Tasks, NEW label, Goes(t, label)
  PROVE  \/ t = Program /\ pc'[Program] = label /\ pc'[Process] = pc[Process]
         \/ t = Process /\ pc'[Process] = label /\ pc'[Program] = pc[Program]
BY DEF TypeOK, Goes, Tasks, Program, Process

LEMMA CallKeepsParts ==
  ASSUME TypeOK, ~twice, Parts, Call
  PROVE  Parts'
<1> Program \in Tasks /\ Program # Process
  BY DEF Tasks, Program, Process
<1> USE DEF Parts, Exclusive, Deferring, DrawnOnce, NoneLeftOver, WritesWait, StartsClean,
            Handling, Drawing, In
<1>1. ASSUME NEW r \in Registers, Write(r) PROVE Parts'
  BY <1>1, GoesAlone DEF Write, blit, slot, history
<1>2. CASE SetDma
  BY <1>2 DEF SetDma, slot, history
<1>3. CASE SetAudio
  BY <1>3 DEF SetAudio, slot, history
<1>4. CASE WaitBlit
  BY <1>4, GoesAlone DEF WaitBlit, blit, slot, history
<1> QED
  BY <1>1, <1>2, <1>3, <1>4 DEF Call

LEMMA ProgramKeepsParts ==
  ASSUME TypeOK, ~twice', ~twice, Parts, ProgramStep, ~Handler(Program)
  PROVE  Parts'
<1> Program \in Tasks /\ Program # Process
  BY DEF Tasks, Program, Process
<1> USE DEF Parts, Exclusive, Deferring, DrawnOnce, NoneLeftOver, WritesWait, StartsClean,
            Handling, Starting, Drawing, In
<1>1. CASE Test
  BY <1>1, GoesAlone DEF Test, Handle, Other, blit, slot
<1>2. CASE WriteRegister
  BY <1>2, GoesAlone DEF WriteRegister, slot, history
<1>3. CASE WriteSize
  BY <1>3, GoesAlone DEF WriteSize, slot
<1>4. CASE Activate
  BY <1>4, GoesAlone DEF Activate, blit
<1>5. CASE Arm
  BY <1>5, GoesAlone DEF Arm, blit
<1>6. CASE Schedule
  BY <1>6, GoesAlone DEF Schedule, blit, history
<1>7. CASE Waited
  BY <1>7, GoesAlone DEF Waited, blit, slot, history
<1> QED
  BY <1>1, <1>2, <1>3, <1>4, <1>5, <1>6, <1>7 DEF ProgramStep

LEMMA HandlerKeepsParts ==
  ASSUME TypeOK, ~twice, Parts, NEW t \in Tasks, Handler(t)
  PROVE  Parts'
<1> Program # Process
  BY DEF Program, Process
<1> USE DEF Parts, Exclusive, Deferring, DrawnOnce, NoneLeftOver, WritesWait, StartsClean,
            Return, Handling, Drawing, In
<1>1. CASE Enter(t)
  BY <1>1, GoesAlone DEF Enter, blit, slot, history
<1>2. CASE Reactivate(t)
  BY <1>2, GoesAlone DEF Reactivate, blit, history
<1>3. CASE Rearm(t)
  BY <1>3, GoesAlone DEF Rearm, blit, history
<1>4. CASE Draw(t)
  BY <1>4, GoesAlone DEF Draw, Again, blit, slot
<1>5. CASE Dot(t)
  BY <1>5, GoesAlone DEF Dot, slot, history
<1>6. CASE End(t)
  BY <1>6, GoesAlone DEF End, slot, history
<1>7. CASE TurnOff(t)
  BY <1>7, GoesAlone DEF TurnOff, blit, history
<1> QED
  BY <1>1, <1>2, <1>3, <1>4, <1>5, <1>6, <1>7 DEF Handler

LEMMA ProcessKeepsParts ==
  ASSUME TypeOK, ~twice', ~twice, Parts, ProcessStep, ~Handler(Process)
  PROVE  Parts'
<1> Process \in Tasks /\ Program # Process
  BY DEF Tasks, Program, Process
<1> USE DEF Parts, Exclusive, Deferring, DrawnOnce, NoneLeftOver, WritesWait, StartsClean,
            Handling, Drawing, In
<1>1. ASSUME NEW n \in 1..MaxChunk, Stop(n) PROVE Parts'
  BY <1>1, GoesAlone DEF Stop, blit
<1>2. CASE Due
  <2>1. /\ pc[Process] = "due"
        /\ UNCHANGED <<writing, bltstate, dma, active, drawn>>
    BY <1>2 DEF Due, blit, slot
  <2>2. CASE active /\ due = 0
    <3>1. Goes(Process, "enter") /\ pc[Program] \notin Handling
      BY <1>2, <2>2 DEF Due, Handle, Other
    <3> QED
      BY <2>1, <2>2, <3>1, GoesAlone
  <2>3. CASE ~(active /\ due = 0)
    BY <1>2, <2>1, <2>3, GoesAlone DEF Due
  <2> QED
    BY <2>2, <2>3
<1>3. CASE Rest
  BY <1>3, GoesAlone DEF Rest, blit, history
<1>4. CASE Reschedule
  BY <1>4, GoesAlone DEF Reschedule, blit, history
<1> QED
  BY <1>1, <1>2, <1>3, <1>4 DEF ProcessStep

\* What both tasks did together is not forgotten.
LEMMA TwiceStays ==
  ASSUME TypeOK, [Next]_vars, twice
  PROVE  twice'
BY DEF Next, vars, TypeOK, Call, Write, SetDma, SetAudio, WaitBlit, ProgramStep, Test,
       WriteRegister, WriteSize, Activate, Arm, Schedule, Waited, ProcessStep, Stop, Due,
       Rest, Reschedule, Handle, Handler, Enter, Reactivate, Rearm, Draw, Dot, End,
       TurnOff, history

LEMMA BlitInvHolds == Spec => []BlitInv
<1>1. Init => BlitInv
  <2> SUFFICES ASSUME Init PROVE Parts
    BY TypeFromStart DEF BlitInv
  <2>1. pc[Program] = "idle" /\ pc[Process] = "idle"
    BY DEF Init, Tasks
  <2> QED
    BY <2>1 DEF Init, Parts, Exclusive, Deferring, DrawnOnce, NoneLeftOver, WritesWait,
                StartsClean, Handling, In
<1>2. BlitInv /\ [Next]_vars => BlitInv'
  <2> SUFFICES ASSUME BlitInv, [Next]_vars, ~twice' PROVE Parts'
    BY TypeInStep DEF BlitInv
  <2>1. TypeOK /\ ~twice /\ Parts
    BY TwiceStays DEF BlitInv
  <2>2. CASE Call
    BY <2>1, <2>2, CallKeepsParts
  <2>3. CASE Handler(Program) \/ Handler(Process)
    BY <2>1, <2>3, HandlerKeepsParts DEF Tasks
  <2>4. CASE ProgramStep /\ ~Handler(Program)
    BY <2>1, <2>4, ProgramKeepsParts
  <2>5. CASE ProcessStep /\ ~Handler(Process)
    BY <2>1, <2>5, ProcessKeepsParts
  <2>6. CASE UNCHANGED vars
    BY <2>1, <2>6 DEF vars, blit, slot, history, Parts, Exclusive, Deferring, DrawnOnce,
                      NoneLeftOver, WritesWait, StartsClean, In
  <2> QED
    BY <2>2, <2>3, <2>4, <2>5, <2>6 DEF Next
<1> QED
  BY <1>1, <1>2, PTL DEF Spec

\* Whoever draws a blit, and in whatever order the two tasks take their steps,
\* a blit the program sees as done was drawn exactly once (blitter_handler,
\* maybe_blit), as long as the two never were in the handler together.
THEOREM DoneIsDrawnOnceHolds == Spec => []DoneIsDrawnOnce
<1>1. BlitInv => DoneIsDrawnOnce
  BY DEF BlitInv, Parts, DrawnOnce, DoneIsDrawnOnce
<1> QED
  BY <1>1, BlitInvHolds, PTL

\* With DMA on, maybe_blit lets no register but a modulo change before the
\* blit that reads it was drawn.
THEOREM RegistersWaitForTheBlitHolds == Spec => []RegistersWaitForTheBlit
<1>1. BlitInv => RegistersWaitForTheBlit
  BY DEF BlitInv, Parts, WritesWait, RegistersWaitForTheBlit
<1> QED
  BY <1>1, BlitInvHolds, PTL

(***************************************************************************)
(* The slot.  While no blit is started under do_cycles_slow, a blit that   *)
(* is not done is armed, and its time is never behind the counter: a chunk *)
(* stops there or ends before it, unless it is longer than the wait and    *)
(* the handler has put the slot off.                                       *)
(***************************************************************************)
Armed == bltstate # "done" /\ pc[Program] # "activate" => active

StartsApart == pc[Program] \in {"arm", "schedule"} => pc[Process] \notin Stepping

TurnsOffTheDone == pc[Process] = "off" /\ pc[Program] # "activate" => bltstate = "done"

Ahead ==
  active /\ ~late /\ pc[Program] \notin {"activate", "arm"} =>
    /\ due \in Nat
    /\ pc[Process] = "idle" /\ pc[Program] # "schedule" => due = next \/ due >= Wait
    /\ pc[Process] = "due" => due = 0 \/ due >= left
    /\ pc[Process] = "rest" => due >= left

SlotParts == Armed /\ StartsApart /\ TurnsOffTheDone /\ Ahead
SlotInv == ~cut /\ ~twice => SlotParts

LEMMA CallKeepsSlot ==
  ASSUME BlitInv, ~twice, SlotParts, Call
  PROVE  SlotParts'
<1> Program \in Tasks /\ Program # Process /\ TypeOK
  BY DEF Tasks, Program, Process, BlitInv
<1> USE DEF SlotParts, Armed, StartsApart, TurnsOffTheDone, Ahead
<1>1. ASSUME NEW r \in Registers, Write(r) PROVE SlotParts'
  BY <1>1, GoesAlone DEF Write, blit, slot, history
<1>2. CASE SetDma
  BY <1>2 DEF SetDma, slot, history
<1>3. CASE SetAudio
  BY <1>3 DEF SetAudio, slot, history
<1>4. CASE WaitBlit
  BY <1>4, GoesAlone DEF WaitBlit, blit, slot, history
<1> QED
  BY <1>1, <1>2, <1>3, <1>4 DEF Call

LEMMA ProgramKeepsSlot ==
  ASSUME BlitInv, ~twice, ~cut', SlotParts, ProgramStep, ~Handler(Program)
  PROVE  SlotParts'
<1> Program \in Tasks /\ Program # Process /\ TypeOK
  BY DEF Tasks, Program, Process, BlitInv
<1> USE DEF SlotParts, Armed, StartsApart, TurnsOffTheDone, Ahead
<1>1. CASE Test
  BY <1>1, GoesAlone DEF Test, Handle, blit, slot
<1>2. CASE WriteRegister
  BY <1>2, GoesAlone DEF WriteRegister, slot, history
<1>3. CASE WriteSize
  BY <1>3, GoesAlone DEF WriteSize, slot
<1>4. CASE Activate
  BY <1>4, GoesAlone DEF Activate, Cuts, blit, Stepping, Handling
<1>5. CASE Arm
  BY <1>5, GoesAlone DEF Arm, Cuts, blit, TypeOK, Stepping, Handling
<1>6. CASE Schedule
  BY <1>6, GoesAlone DEF Schedule, EventsSchedule, blit, history, Stepping, Handling
<1>7. CASE Waited
  BY <1>7, GoesAlone DEF Waited, blit, slot, history
<1> QED
  BY <1>1, <1>2, <1>3, <1>4, <1>5, <1>6, <1>7 DEF ProgramStep

LEMMA HandlerKeepsSlot ==
  ASSUME BlitInv, ~twice, SlotParts, NEW t \in Tasks, Handler(t)
  PROVE  SlotParts'
<1> Program # Process /\ TypeOK /\ Exclusive /\ DrawnOnce
  BY DEF Program, Process, BlitInv, Parts
<1>a. Wait \in Nat /\ MaxChunk \in Nat /\ left \in 0..MaxChunk /\ left \in Nat
  BY BlitterAssumption DEF TypeOK
<1> USE DEF SlotParts, Armed, StartsApart, TurnsOffTheDone, Ahead, Return,
            Exclusive, DrawnOnce, In, Handling, Stepping
<1>1. CASE Enter(t)
  BY <1>1, GoesAlone DEF Enter, blit, slot, history
<1>2. CASE Reactivate(t)
  BY <1>2, GoesAlone DEF Reactivate, blit, history
<1>3. CASE Rearm(t)
  <2>1. ~late' => ~late /\ ~(left > Wait)
    <3> DEFINE met == left > Wait
    <3>1. late' = (late \/ met)
      BY <1>3 DEF Rearm
    <3> HIDE DEF met
    <3>2. ~late' => ~late /\ ~met
      BY <3>1
    <3> QED
      BY <3>2 DEF met
  <2>2. ~late' => ~late /\ Wait >= left
    BY <1>a, <2>1
  <2>3. due' = Wait /\ UNCHANGED <<bltstate, active, left, next>>
    BY <1>3 DEF Rearm, blit
  <2> QED
    BY <1>3, <1>a, <2>2, <2>3, GoesAlone DEF Rearm
<1>4. CASE Draw(t)
  BY <1>4, GoesAlone DEF Draw, blit, slot
<1>5. CASE Dot(t)
  BY <1>5, GoesAlone DEF Dot, slot, history
<1>6. CASE End(t)
  BY <1>6, GoesAlone DEF End, slot, history
<1>7. CASE TurnOff(t)
  BY <1>7, GoesAlone DEF TurnOff, blit, history
<1> QED
  BY <1>1, <1>2, <1>3, <1>4, <1>5, <1>6, <1>7 DEF Handler

LEMMA ProcessKeepsSlot ==
  ASSUME BlitInv, ~twice, ~cut', SlotParts, ProcessStep, ~Handler(Process)
  PROVE  SlotParts'
<1> Process \in Tasks /\ Program # Process /\ TypeOK
  BY DEF Tasks, Program, Process, BlitInv
<1>a. /\ Wait \in Nat /\ MaxChunk \in Nat /\ left \in 0..MaxChunk
      /\ due \in Nat \cup {Far} /\ next \in Nat \cup {Far}
  BY BlitterAssumption DEF TypeOK
<1> USE DEF SlotParts, Armed, StartsApart, TurnsOffTheDone, Ahead, Handling, Stepping, Starting
<1>1. ASSUME NEW n \in 1..MaxChunk, Stop(n) PROVE SlotParts'
  <2>1. /\ pc[Process] = "idle" /\ pc[Program] \notin Starting
        /\ UNCHANGED <<bltstate, active>>
    BY <1>1 DEF Stop, blit
  <2>0. ~late' => ~late /\ ~(active /\ due # next /\ n > Wait)
    <3> DEFINE met == active /\ due # next /\ n > Wait
    <3>1. late' = (late \/ met)
      BY <1>1 DEF Stop
    <3> HIDE DEF met
    <3>2. ~late' => ~late /\ ~met
      BY <3>1
    <3> QED
      BY <3>2 DEF met
  <2>2. CASE next # Far /\ n > next
    <3>1. Elapse(next) /\ left' = n - next /\ Goes(Process, "due")
      BY <1>1, <2>2 DEF Stop
    <3>2. active /\ ~late' => ~late /\ (due = next \/ n <= Wait)
      BY <1>a, <2>0
    <3>3. active /\ ~late' => due' \in Nat /\ (due' = 0 \/ due' >= left')
      <4> SUFFICES ASSUME active, ~late'
                   PROVE  due' \in Nat /\ (due' = 0 \/ due' >= left')
        OBVIOUS
      <4>1. due \in Nat /\ (due = next \/ due >= n)
        BY <1>a, <2>1, <3>2
      <4>2. due' = Later(due, next) /\ left' = n - next /\ next \in Nat /\ n > next
        BY <1>a, <2>2, <3>1 DEF Elapse
      <4> QED
        BY <4>1, <4>2 DEF Later, Far
    <3> QED
      BY <2>1, <3>1, <3>3, GoesAlone
  <2>3. CASE ~(next # Far /\ n > next)
    <3>1. left' = n /\ Goes(Process, "rest") /\ UNCHANGED <<due, next>>
      BY <1>1, <2>3 DEF Stop
    <3>2. active /\ ~late' => ~late /\ (due = next \/ n <= Wait)
      BY <1>a, <2>0
    <3>3. active /\ ~late' => due' \in Nat /\ due' >= left'
      BY <1>a, <2>1, <2>3, <3>1, <3>2 DEF Far
    <3> QED
      BY <2>1, <3>1, <3>3, GoesAlone
  <2> QED
    BY <2>2, <2>3
<1>2. CASE Due
  BY <1>2, GoesAlone DEF Due, Handle, blit, slot
<1>3. CASE Rest
  <2>1. active /\ ~late /\ pc[Program] \notin {"activate", "arm"} => due' \in Nat
    BY <1>3, <1>a DEF Rest, Elapse, Later, Far
  <2> QED
    BY <1>3, <2>1, GoesAlone DEF Rest, blit, history
<1>4. CASE Reschedule
  BY <1>4, GoesAlone DEF Reschedule, EventsSchedule, blit, history
<1> QED
  BY <1>1, <1>2, <1>3, <1>4 DEF ProcessStep

\* A blit started while do_cycles_slow was running is not forgotten.
LEMMA CutStays ==
  ASSUME TypeOK, [Next]_vars, cut
  PROVE  cut'
BY DEF Next, vars, TypeOK, Call, Write, SetDma, SetAudio, WaitBlit, ProgramStep, Test,
       WriteRegister, WriteSize, Activate, Arm, Schedule, Waited, ProcessStep, Stop, Due,
       Rest, Reschedule, Cuts, Handler, Enter, Reactivate, Rearm, Draw, Dot, End,
       TurnOff, history

LEMMA SlotInvHolds == Spec => []SlotInv
<1>1. Init => SlotInv
  <2> SUFFICES ASSUME Init PROVE SlotParts
    BY DEF SlotInv
  <2>1. pc[Program] = "idle" /\ pc[Process] = "idle"
    BY DEF Init, Tasks
  <2> QED
    BY <2>1 DEF Init, SlotParts, Armed, StartsApart, TurnsOffTheDone, Ahead
<1>2. BlitInv /\ SlotInv /\ [Next]_vars => SlotInv'
  <2> SUFFICES ASSUME BlitInv, SlotInv, [Next]_vars, ~cut', ~twice' PROVE SlotParts'
    BY DEF SlotInv
  <2>1. ~twice /\ SlotParts
    BY TwiceStays, CutStays DEF BlitInv, SlotInv
  <2>2. CASE Call
    BY <2>1, <2>2, CallKeepsSlot
  <2>3. CASE Handler(Program) \/ Handler(Process)
    BY <2>1, <2>3, HandlerKeepsSlot DEF Tasks
  <2>4. CASE ProgramStep /\ ~Handler(Program)
    BY <2>1, <2>4, ProgramKeepsSlot
  <2>5. CASE ProcessStep /\ ~Handler(Process)
    BY <2>1, <2>5, ProcessKeepsSlot
  <2>6. CASE UNCHANGED vars
    BY <2>1, <2>6 DEF vars, blit, slot, history, SlotParts, Armed, StartsApart, TurnsOffTheDone, Ahead
  <2> QED
    BY <2>2, <2>3, <2>4, <2>5, <2>6 DEF Next
<1> QED
  BY <1>1, <1>2, BlitInvHolds, PTL DEF Spec

\* Unless a blit was started while do_cycles_slow ran, or both tasks were in the
\* handler, between their calls a slot is armed exactly when there is a blit to draw.
\* Its time is ahead, however long the chunks, as long as none longer than the
\* handler's wait has met a slot put off by it.
THEOREM ArmedIffUnfinishedHolds == Spec => []ArmedIffUnfinished
<1>1. BlitInv /\ SlotInv => ArmedIffUnfinished
  <2> SUFFICES ASSUME BlitInv, SlotInv, Quiet, ~cut, ~twice
               PROVE  (active <=> bltstate # "done") /\ (active /\ ~late => due # Far)
    BY DEF ArmedIffUnfinished
  <2>1. SlotParts /\ NoneLeftOver /\ active \in BOOLEAN
    BY DEF SlotInv, BlitInv, Parts, TypeOK
  <2>2. active => bltstate # "done"
    BY <2>1 DEF NoneLeftOver, In, Quiet, Handling
  <2>3. bltstate # "done" => active
    BY <2>1 DEF SlotParts, Armed, Quiet, Starting
  <2>4. active /\ ~late => due # Far
    BY <2>1 DEF SlotParts, Ahead, Quiet, Starting, Far
  <2> QED
    BY <2>1, <2>2, <2>3, <2>4
<1> QED
  BY <1>1, BlitInvHolds, SlotInvHolds, PTL

-----------------------------------------------------------------------------
(***************************************************************************)
(* Drawing. The registers and the memory are a record of fixed fields, a   *)
(* Machine. A special function leaves out the channels its minterm does    *)
(* not use: word by word the machine it drives stays Alike the one of the  *)
(* general loop, which differs only in the registers of those channels,    *)
(* and these change no bit of what is drawn.                               *)
(***************************************************************************)

\* Every set of numbers has a least one.
LEMMA LeastNumber ==
  ASSUME NEW S \in SUBSET Nat, S # {}
  PROVE  \E n \in S : \A m \in S : n <= m
<1>1. PICK n \in S : \A m \in S : ~(<<m, n>> \in OpToRel(<, Nat))
  BY NatLessThanWellFounded, WFMin
<1>2. \A m \in S : ~(m < n)
  BY <1>1 DEF OpToRel
<1> QED
  BY <1>2

\* A set with 0 and the successors of its numbers has them all.
LEMMA Induction ==
  ASSUME NEW S \in SUBSET Nat, 0 \in S, \A n \in S : n + 1 \in S
  PROVE  S = Nat
<1> SUFFICES ASSUME Nat \ S # {} PROVE FALSE
  OBVIOUS
<1>1. PICK n \in Nat \ S : \A m \in Nat \ S : n <= m
  <2>1. Nat \ S \in SUBSET Nat
    OBVIOUS
  <2> QED
    BY <2>1, LeastNumber
<1>2. n # 0 /\ n - 1 \in Nat /\ ~(n <= n - 1)
  BY <1>1
<1>3. n - 1 \in S
  BY <1>1, <1>2
<1> QED
  BY <1>2, <1>3

\* Words is the function its definition says, by induction on how many there are.
LEMMA WordsAre ==
  ASSUME NEW special, NEW s, NEW b, b.h * b.v \in Nat
  PROVE  /\ Words(special, s, b)[0] = Start(s, b)
         /\ \A p \in 0 .. b.h * b.v - 1 :
              Words(special, s, b)[p + 1] = BlockWord(special, Words(special, s, b)[p], b, p)
<1> DEFINE Is(g, n) == g = [p \in 0 .. n |-> IF p = 0 THEN Start(s, b)
                                             ELSE BlockWord(special, g[p - 1], b, p - 1)]
           S == {n \in Nat : \E g : Is(g, n)}
<1>1. 0 \in S
  <2>1. Is([p \in 0 .. 0 |-> Start(s, b)], 0)
    OBVIOUS
  <2> QED
    BY <2>1
<1>2. ASSUME NEW n \in S PROVE n + 1 \in S
  <2>1. PICK g : Is(g, n)
    OBVIOUS
  <2> DEFINE h == [p \in 0 .. n + 1 |-> IF p = n + 1 THEN BlockWord(special, g[n], b, n) ELSE g[p]]
  <2>2. Is(h, n + 1)
    <3>1. ASSUME NEW p \in 0 .. n + 1
          PROVE  h[p] = IF p = 0 THEN Start(s, b) ELSE BlockWord(special, h[p - 1], b, p - 1)
      <4>1. CASE p = n + 1
        <5>1. h[n] = g[n] /\ p # 0 /\ p - 1 = n
          BY <4>1
        <5> QED
          BY <4>1, <5>1
      <4>2. CASE p # n + 1
        <5>1. h[p] = g[p] /\ p \in 0 .. n
          BY <4>2
        <5>2. p # 0 => h[p - 1] = g[p - 1]
          BY <5>1
        <5> QED
          BY <5>1, <5>2, <2>1
      <4> QED
        BY <4>1, <4>2
    <3>2. h = [p \in 0 .. n + 1 |-> h[p]]
      OBVIOUS
    <3> HIDE DEF h
    <3> QED
      BY <3>1, <3>2
  <2>3. \E f : Is(f, n + 1)
    <3> HIDE DEF h, Is
    <3> QED
      BY <2>2
  <2>4. n + 1 \in Nat
    OBVIOUS
  <2> QED
    <3> HIDE DEF Is
    <3> QED
      BY <2>3, <2>4
<1>3. \E g : Is(g, b.h * b.v)
  <2>1. S = Nat
    <3> HIDE DEF S
    <3>1. S \in SUBSET Nat
      BY DEF S
    <3> QED
      BY <3>1, <1>1, <1>2, Induction
  <2> QED
    BY <2>1
<1>4. Is(Words(special, s, b), b.h * b.v)
  <2>1. Words(special, s, b) = CHOOSE g : Is(g, b.h * b.v)
    BY DEF Words
  <2> QED
    BY <1>3, <2>1
<1> QED
  BY <1>4

\* A record of the registers and the memory.
Fields == {"mem", "dat", "bhold", "zero", "pt", "at", "prev", "dstp", "fc",
           "shift", "lineb", "sign", "onedot"}
Machine(s) ==
  /\ s = [f \in Fields |-> s[f]]
  /\ \A f \in {"dat", "pt"} : s[f] = [ch \in Channels |-> s[f][ch]]

\* What a special function and the general loop have in common when each has drawn as much.
Alike(s, t, b) ==
  /\ Machine(s) /\ Machine(t)
  /\ \A f \in {"mem", "zero", "dstp", "pt", "fc", "shift", "lineb", "sign", "onedot"} : s[f] = t[f]
  /\ s.dat["d"] = t.dat["d"]
  /\ \A ch \in Used(b.mt) \cup {"d"} : s.at[ch] = t.at[ch]
  /\ \A ch \in Channels \ b.use : s.at[ch] = 0 /\ t.at[ch] = 0
  /\ \A ch \in Sources : ch \in Used(b.mt) \/ ch \notin b.use => s.dat[ch] = t.dat[ch]
  /\ "a" \in Used(b.mt) => s.prev.a = t.prev.a
  /\ "b" \in Used(b.mt) => s.prev.b = t.prev.b
  /\ "b" \in Used(b.mt) \/ "b" \notin b.use => s.bhold = t.bhold

\* Flipping a source's bit of a minterm number flips that source.
LEMMA FlipMinterm ==
  ASSUME NEW a \in BOOLEAN, NEW b \in BOOLEAN, NEW c \in BOOLEAN
  PROVE  /\ MintermOf(a, b, c) \in Minterm
         /\ Flip(MintermOf(a, b, c), 4) = MintermOf(~a, b, c)
         /\ Flip(MintermOf(a, b, c), 2) = MintermOf(a, ~b, c)
         /\ Flip(MintermOf(a, b, c), 1) = MintermOf(a, b, ~c)
<1>1. CASE a
  <2>1. CASE b
    <3>1. CASE c
      BY <1>1, <2>1, <3>1 DEF MintermOf, Flip, Minterm
    <3>2. CASE ~c
      BY <1>1, <2>1, <3>2 DEF MintermOf, Flip, Minterm
    <3> QED
      BY <3>1, <3>2
  <2>2. CASE ~b
    <3>1. CASE c
      BY <1>1, <2>2, <3>1 DEF MintermOf, Flip, Minterm
    <3>2. CASE ~c
      BY <1>1, <2>2, <3>2 DEF MintermOf, Flip, Minterm
    <3> QED
      BY <3>1, <3>2
  <2> QED
    BY <2>1, <2>2
<1>2. CASE ~a
  <2>1. CASE b
    BY <1>2, <2>1 DEF MintermOf, Flip, Minterm
  <2>2. CASE ~b
    BY <1>2, <2>2 DEF MintermOf, Flip, Minterm
  <2> QED
    BY <2>1, <2>2
<1> QED
  BY <1>1, <1>2

\* A source that a minterm does not use changes no bit, by the table of blitops.c.
LEMMA OneBit ==
  ASSUME NEW mt \in 0 .. 255, NEW a \in BOOLEAN, NEW b \in BOOLEAN, NEW c \in BOOLEAN,
         NEW x \in BOOLEAN, NEW y \in BOOLEAN, NEW z \in BOOLEAN,
         "a" \in Used(mt) => a = x, "b" \in Used(mt) => b = y, "c" \in Used(mt) => c = z,
         MintermOf(a, b, c) \in Bits(mt)
  PROVE  MintermOf(x, y, z) \in Bits(mt)
<1>0. /\ Weight["a"] = 4 /\ Weight["b"] = 2 /\ Weight["c"] = 1
      /\ \A s \in Sources \ Used(mt) : \A m \in Bits(mt) : Flip(m, Weight[s]) \in Bits(mt)
  <2>1. Weight["a"] = 4 /\ Weight["b"] = 2 /\ Weight["c"] = 1
    BY DEF Weight
  <2>2. \A s \in Sources \ Used(mt) : ~DependsOn(mt, s)
    BY TableAssumption
  <2> QED
    BY <2>1, <2>2 DEF DependsOn
<1>1. "a" \notin Used(mt) => \A m \in Bits(mt) : Flip(m, 4) \in Bits(mt)
  BY <1>0 DEF Sources
<1>2. "b" \notin Used(mt) => \A m \in Bits(mt) : Flip(m, 2) \in Bits(mt)
  BY <1>0 DEF Sources
<1>3. "c" \notin Used(mt) => \A m \in Bits(mt) : Flip(m, 1) \in Bits(mt)
  BY <1>0 DEF Sources
<1>4. MintermOf(x, b, c) \in Bits(mt)
  <2>1. CASE a = x
    BY <2>1
  <2>2. CASE a # x
    <3>1. x = ~a /\ Flip(MintermOf(a, b, c), 4) \in Bits(mt)
      BY <2>2, <1>1
    <3> QED
      BY <3>1, FlipMinterm
  <2> QED
    BY <2>1, <2>2
<1>5. MintermOf(x, y, c) \in Bits(mt)
  <2>1. CASE b = y
    BY <2>1, <1>4
  <2>2. CASE b # y
    <3>1. y = ~b /\ Flip(MintermOf(x, b, c), 2) \in Bits(mt)
      BY <2>2, <1>2, <1>4
    <3> QED
      BY <3>1, FlipMinterm
  <2> QED
    BY <2>1, <2>2
<1>6. CASE c = z
  BY <1>6, <1>5
<1>7. CASE c # z
  <2>1. z = ~c /\ Flip(MintermOf(x, y, c), 1) \in Bits(mt)
    BY <1>7, <1>3, <1>5
  <2> QED
    BY <2>1, FlipMinterm
<1> QED
  BY <1>6, <1>7

\* The same of bit k of three words.
LEMMA OneWay ==
  ASSUME NEW mt \in 0 .. 255, NEW k, NEW a1, NEW b1, NEW c1, NEW a2, NEW b2, NEW c2,
         "a" \in Used(mt) => a1 = a2, "b" \in Used(mt) => b1 = b2, "c" \in Used(mt) => c1 = c2,
         MintermOf(k \in a1, k \in b1, k \in c1) \in Bits(mt)
  PROVE  MintermOf(k \in a2, k \in b2, k \in c2) \in Bits(mt)
<1> DEFINE p1 == k \in a1
           q1 == k \in b1
           r1 == k \in c1
           p2 == k \in a2
           q2 == k \in b2
           r2 == k \in c2
<1>1. p1 \in BOOLEAN /\ q1 \in BOOLEAN /\ r1 \in BOOLEAN /\ p2 \in BOOLEAN /\ q2 \in BOOLEAN /\ r2 \in BOOLEAN
  OBVIOUS
<1>2. "a" \in Used(mt) => p1 = p2
  BY Zenon
<1>3. "b" \in Used(mt) => q1 = q2
  BY Zenon
<1>4. "c" \in Used(mt) => r1 = r2
  BY Zenon
<1>5. MintermOf(p1, q1, r1) \in Bits(mt)
  BY Zenon
<1> HIDE DEF p1, q1, r1, p2, q2, r2
<1>6. MintermOf(p2, q2, r2) \in Bits(mt)
  BY <1>1, <1>2, <1>3, <1>4, <1>5, OneBit, Zenon
<1> QED
  BY <1>6, Zenon DEF p2, q2, r2

\* The function of a minterm does not see the sources it does not use.
LEMMA UnusedSources ==
  ASSUME NEW mt \in blttbl, NEW all, NEW a1, NEW b1, NEW c1, NEW a2, NEW b2, NEW c2,
         "a" \in Used(mt) => a1 = a2, "b" \in Used(mt) => b1 = b2, "c" \in Used(mt) => c1 = c2
  PROVE  blit_func(a1, b1, c1, mt, all) = blit_func(a2, b2, c2, mt, all)
<1> DEFINE One == {k \in all : MintermOf(k \in a1, k \in b1, k \in c1) \in Bits(mt)}
           Two == {k \in all : MintermOf(k \in a2, k \in b2, k \in c2) \in Bits(mt)}
<1>1. mt \in 0 .. 255
  BY DEF blttbl
<1>0. "a" \in Used(mt) => a2 = a1
  OBVIOUS
<1>7. "b" \in Used(mt) => b2 = b1
  OBVIOUS
<1>8. "c" \in Used(mt) => c2 = c1
  OBVIOUS
<1>2. \A k : MintermOf(k \in a1, k \in b1, k \in c1) \in Bits(mt)
          => MintermOf(k \in a2, k \in b2, k \in c2) \in Bits(mt)
  BY <1>1, OneWay, Zenon
<1>3. \A k : MintermOf(k \in a2, k \in b2, k \in c2) \in Bits(mt)
          => MintermOf(k \in a1, k \in b1, k \in c1) \in Bits(mt)
  BY <1>0, <1>7, <1>8, <1>1, OneWay, Zenon
<1>4. One = Two
  BY <1>2, <1>3, Zenon
<1>5. blit_func(a1, b1, c1, mt, all) = One
  BY <1>1, TableAssumption DEF blit_func
<1>6. blit_func(a2, b2, c2, mt, all) = Two
  BY <1>1, TableAssumption DEF blit_func
<1> QED
  BY <1>4, <1>5, <1>6, Zenon

\* What a word leaves in the registers of data, the last words and the pointers.
PutDat(s, uses, data) ==
  [a |-> Got(s, uses, "a"), b |-> Got(s, uses, "b"), c |-> Got(s, uses, "c"), d |-> data]
PutPrev(s, uses, a) ==
  [a |-> a, b |-> IF On(s, uses, "b") THEN Got(s, uses, "b") ELSE s.prev.b]
PutAts(s, b, uses) ==
  [ch \in Channels |-> IF ch \in uses \cup {"d"} THEN Moved(s.at[ch], Dir(b)) ELSE s.at[ch]]

\* Writing a word, field by field.
LEMMA PutFields ==
  ASSUME NEW s, Machine(s), NEW b, NEW uses, NEW a, NEW bhold, NEW out
  PROVE  LET t == Put(s, b, uses, a, bhold, out)
         IN  /\ Machine(t)
             /\ t.dat = PutDat(s, uses, out.data) /\ t.prev = PutPrev(s, uses, a)
             /\ t.bhold = bhold
             /\ t.mem = IF s.dstp # 0 THEN wput(s.mem, s.dstp, s.dat["d"]) ELSE s.mem
             /\ t.zero = (s.zero /\ out.data = {})
             /\ t.fc = out.fc
             /\ t.dstp = IF s.at["d"] # 0 THEN s.at["d"] ELSE s.dstp
             /\ t.at = PutAts(s, b, uses)
             /\ \A f \in {"pt", "shift", "lineb", "sign", "onedot"} : t[f] = s[f]
<1> DEFINE t == Put(s, b, uses, a, bhold, out)
<1>1. t = [f \in Fields |-> t[f]]
  BY ZenonT(40) DEF Put, Machine, Fields
<1>2. t.bhold = bhold /\ t.fc = out.fc
  BY DEF Put, Machine, Fields
<1>3. \A f \in {"pt", "shift", "lineb", "sign", "onedot"} : t[f] = s[f]
  BY DEF Put, Machine, Fields
<1>4. t.dat = PutDat(s, uses, out.data)
  BY DEF Put, Machine, Fields, PutDat
<1>5. t.prev = PutPrev(s, uses, a)
  BY DEF Put, Machine, Fields, PutPrev
<1>6. t.mem = IF s.dstp # 0 THEN wput(s.mem, s.dstp, s.dat["d"]) ELSE s.mem
  BY DEF Put, Machine, Fields
<1>7. t.zero = (s.zero /\ out.data = {})
  BY DEF Put, Machine, Fields
<1>8. t.dstp = IF s.at["d"] # 0 THEN s.at["d"] ELSE s.dstp
  BY DEF Put, Machine, Fields
<1>9. t.at = PutAts(s, b, uses)
  BY DEF Put, Machine, Fields, PutAts
<1>10. Machine(t)
  <2>1. t.pt = [ch \in Channels |-> t.pt[ch]]
    BY <1>3 DEF Machine
  <2>2. t.dat = [ch \in Channels |-> t.dat[ch]]
    BY <1>4 DEF Channels, PutDat
  <2> HIDE DEF t
  <2> QED
    BY <1>1, <2>1, <2>2 DEF Machine
<1> QED
  BY <1>10, <1>2, <1>3, <1>4, <1>5, <1>6, <1>7, <1>8, <1>9

\* A word drawn by both functions leaves the machines alike.
LEMMA WordAlike ==
  ASSUME NEW s, NEW t, NEW b, NEW i, b.mt \in blttbl, ~b.fill, Alike(s, t, b)
  PROVE  Alike(SpecialWord(s, b, i, Used(b.mt)), DrawWord(t, b, i), b)
<1> DEFINE uses == Used(b.mt)
           as == Got(s, uses, "a") \cap blit_masktable(b, i)
           at == Got(t, Channels, "a") \cap blit_masktable(b, i)
           srca == IF "a" \in uses THEN Shifted(b, s.prev.a, as, b.ashift) ELSE {}
           ds == blit_func(srca, BHold(s, uses, b), Got(s, uses, "c"), b.mt, All)
           dt == blit_func(Shifted(b, t.prev.a, at, b.ashift), BHold(t, Channels, b),
                           Got(t, Channels, "c"), b.mt, All)
           os == [data |-> ds, fc |-> s.fc]
           ot == [data |-> dt, fc |-> t.fc]
           pa == IF "a" \in uses THEN as ELSE {}
<1>1. SpecialWord(s, b, i, Used(b.mt)) = Put(s, b, uses, pa, BHold(s, uses, b), os)
  BY DEF SpecialWord
<1>2. DrawWord(t, b, i) = Put(t, b, Channels, at, BHold(t, Channels, b), ot)
  BY DEF DrawWord
<1>3. \A ch \in Sources : ch \in uses \/ ch \notin b.use =>
        /\ Got(s, uses, ch) = Got(t, Channels, ch)
        /\ On(s, uses, ch) = On(t, Channels, ch)
  BY DEF Alike, Got, On, Sources, Channels
<1>4. "a" \in uses => as = at
  BY <1>3 DEF Sources
<1>5. "b" \in uses \/ "b" \notin b.use => BHold(s, uses, b) = BHold(t, Channels, b)
  BY <1>3 DEF Sources, BHold, Alike, On, Channels
<1>6. ds = dt
  <2>1. "a" \in uses => srca = Shifted(b, t.prev.a, at, b.ashift)
    BY <1>4 DEF Alike
  <2>2. "c" \in uses => Got(s, uses, "c") = Got(t, Channels, "c")
    BY <1>3 DEF Sources
  <2> HIDE DEF srca, as, at
  <2> QED
    BY <1>5, <2>1, <2>2, UnusedSources
<1> HIDE DEF uses, as, at, srca, ds, dt, pa
<1> DEFINE u == Put(s, b, uses, pa, BHold(s, uses, b), os)
           v == Put(t, b, Channels, at, BHold(t, Channels, b), ot)
<1>7. /\ Machine(u)
      /\ u.dat = PutDat(s, uses, ds) /\ u.prev = PutPrev(s, uses, pa)
      /\ u.bhold = BHold(s, uses, b)
      /\ u.mem = IF s.dstp # 0 THEN wput(s.mem, s.dstp, s.dat["d"]) ELSE s.mem
      /\ u.zero = (s.zero /\ ds = {})
      /\ u.fc = s.fc
      /\ u.dstp = IF s.at["d"] # 0 THEN s.at["d"] ELSE s.dstp
      /\ u.at = PutAts(s, b, uses)
      /\ \A f \in {"pt", "shift", "lineb", "sign", "onedot"} : u[f] = s[f]
  BY PutFields DEF Alike
<1>8. /\ Machine(v)
      /\ v.dat = PutDat(t, Channels, dt) /\ v.prev = PutPrev(t, Channels, at)
      /\ v.bhold = BHold(t, Channels, b)
      /\ v.mem = IF t.dstp # 0 THEN wput(t.mem, t.dstp, t.dat["d"]) ELSE t.mem
      /\ v.zero = (t.zero /\ dt = {})
      /\ v.fc = t.fc
      /\ v.dstp = IF t.at["d"] # 0 THEN t.at["d"] ELSE t.dstp
      /\ v.at = PutAts(t, b, Channels)
      /\ \A f \in {"pt", "shift", "lineb", "sign", "onedot"} : v[f] = t[f]
  BY PutFields DEF Alike
<1> HIDE DEF u, v, os, ot
<1>9. /\ Machine(u) /\ Machine(v)
      /\ \A f \in {"pt", "shift", "lineb", "sign", "onedot"} : u[f] = v[f]
      /\ u.fc = v.fc
  BY <1>7, <1>8 DEF Alike
<1>10. u.mem = v.mem /\ u.zero = v.zero /\ u.dstp = v.dstp
  BY <1>7, <1>8, <1>6 DEF Alike
<1>11. u.dat["d"] = v.dat["d"]
  BY <1>7, <1>8, <1>6 DEF PutDat
<1>12. uses \subseteq Channels
  BY DEF uses, Used, Sources, Channels
<1>13. \A ch \in uses \cup {"d"} : u.at[ch] = v.at[ch]
  <2> TAKE ch \in uses \cup {"d"}
  <2>1. ch \in Channels /\ s.at[ch] = t.at[ch]
    BY <1>12 DEF Alike, Channels, uses
  <2> QED
    BY <1>7, <1>8, <2>1 DEF PutAts
<1>14. \A ch \in Channels \ b.use : u.at[ch] = 0 /\ v.at[ch] = 0
  BY <1>7, <1>8 DEF Alike, Moved, PutAts
<1>15. \A ch \in Sources : ch \in uses \/ ch \notin b.use => u.dat[ch] = v.dat[ch]
  BY <1>7, <1>8, <1>3 DEF Sources, PutDat
<1>16. "a" \in uses => u.prev.a = v.prev.a
  BY <1>7, <1>8, <1>4 DEF pa, PutPrev
<1>17. "b" \in uses => u.prev.b = v.prev.b
  BY <1>7, <1>8, <1>3 DEF Sources, Alike, uses, PutPrev
<1>18. "b" \in uses \/ "b" \notin b.use => u.bhold = v.bhold
  BY <1>7, <1>8, <1>5
<1>19. Alike(u, v, b)
  BY <1>9, <1>10, <1>11, <1>13, <1>14, <1>15, <1>16, <1>17, <1>18 DEF Alike, uses
<1> QED
  BY <1>1, <1>2, <1>19 DEF u, v

\* Setting the fill carry changes nothing else.
LEMMA FcSet ==
  ASSUME NEW s, Machine(s), NEW e
  PROVE  LET t == [s EXCEPT !.fc = e]
         IN  Machine(t) /\ t.fc = e /\ \A f \in Fields \ {"fc"} : t[f] = s[f]
BY DEF Machine, Fields

\* The modulos change only the pointers.
LEMMA ModulosFields ==
  ASSUME NEW s, Machine(s), NEW b
  PROVE  /\ Machine(Modulos(s, b))
         /\ Modulos(s, b).at = [ch \in Channels |-> Moved(s.at[ch], Dir(b) * b.mod[ch])]
         /\ \A f \in Fields \ {"at"} : Modulos(s, b)[f] = s[f]
BY DEF Modulos, Machine, Fields

LEMMA ModulosAlike ==
  ASSUME NEW s, NEW t, NEW b, Alike(s, t, b)
  PROVE  Alike(Modulos(s, b), Modulos(t, b), b)
<1> DEFINE u == Modulos(s, b)
           v == Modulos(t, b)
<1>1. /\ Machine(u) /\ u.at = [ch \in Channels |-> Moved(s.at[ch], Dir(b) * b.mod[ch])]
      /\ \A f \in Fields \ {"at"} : u[f] = s[f]
  BY ModulosFields DEF Alike
<1>2. /\ Machine(v) /\ v.at = [ch \in Channels |-> Moved(t.at[ch], Dir(b) * b.mod[ch])]
      /\ \A f \in Fields \ {"at"} : v[f] = t[f]
  BY ModulosFields DEF Alike
<1> HIDE DEF u, v
<1>3. \A ch \in Used(b.mt) \cup {"d"} : u.at[ch] = v.at[ch]
  <2> TAKE ch \in Used(b.mt) \cup {"d"}
  <2>1. ch \in Channels /\ s.at[ch] = t.at[ch]
    BY DEF Alike, Channels, Used, Sources
  <2> QED
    BY <1>1, <1>2, <2>1
<1>4. \A ch \in Channels \ b.use : u.at[ch] = 0 /\ v.at[ch] = 0
  BY <1>1, <1>2 DEF Alike, Moved
<1>5. Alike(u, v, b)
  BY <1>1, <1>2, <1>3, <1>4 DEF Alike, Fields
<1> QED
  BY <1>5 DEF u, v

\* A word, with the carry of a row before it and the modulos after it.
LEMMA BlockWordAlike ==
  ASSUME NEW s, NEW t, NEW b, NEW p, b.mt \in blttbl, ~b.fill, Alike(s, t, b)
  PROVE  Alike(BlockWord(TRUE, s, b, p), BlockWord(FALSE, t, b, p), b)
<1> DEFINE i == p % b.h
           s1 == [s EXCEPT !.fc = IF i = 0 THEN b.fci ELSE s.fc]
           t1 == [t EXCEPT !.fc = IF i = 0 THEN b.fci ELSE t.fc]
<1> HIDE DEF i
<1>1. /\ Machine(s1) /\ s1.fc = IF i = 0 THEN b.fci ELSE s.fc
      /\ \A f \in Fields \ {"fc"} : s1[f] = s[f]
  BY FcSet DEF Alike
<1>2. /\ Machine(t1) /\ t1.fc = IF i = 0 THEN b.fci ELSE t.fc
      /\ \A f \in Fields \ {"fc"} : t1[f] = t[f]
  BY FcSet DEF Alike
<1> HIDE DEF s1, t1
<1>3. Alike(s1, t1, b)
  BY <1>1, <1>2 DEF Alike, Fields
<1>4. Alike(SpecialWord(s1, b, i, Used(b.mt)), DrawWord(t1, b, i), b)
  BY <1>3, WordAlike
<1>5. Alike(Modulos(SpecialWord(s1, b, i, Used(b.mt)), b), Modulos(DrawWord(t1, b, i), b), b)
  BY <1>4, ModulosAlike
<1>6. /\ BlockWord(TRUE, s, b, p) =
           IF i = b.h - 1 THEN Modulos(SpecialWord(s1, b, i, Used(b.mt)), b)
           ELSE SpecialWord(s1, b, i, Used(b.mt))
      /\ BlockWord(FALSE, t, b, p) = IF i = b.h - 1 THEN Modulos(DrawWord(t1, b, i), b)
                                     ELSE DrawWord(t1, b, i)
  BY DEF BlockWord, EndRow, s1, t1, i
<1> QED
  BY <1>4, <1>5, <1>6

\* Where a channel's pointer is to end.
EndOf(at, b, ch) == at + Dir(b) * (b.h + b.mod[ch]) * b.v

\* What a drawing function begins with.
LEMMA StartFields ==
  ASSUME NEW s, Machine(s), NEW b
  PROVE  LET t == Start(s, b)
         IN  /\ Machine(t)
             /\ t.at = [ch \in Channels |-> IF ch \in b.use THEN s.pt[ch] ELSE 0]
             /\ \A f \in Fields \ {"at", "pt", "zero"} : t[f] = s[f]
<1> DEFINE t == Start(s, b)
<1>1. Machine(t)
  BY DEF Start, Machine, Fields
<1>2. t.at = [ch \in Channels |-> IF ch \in b.use THEN s.pt[ch] ELSE 0]
  BY DEF Start, Machine, Fields
<1>3. \A f \in Fields \ {"at", "pt", "zero"} : t[f] = s[f]
  BY DEF Start, Machine, Fields
<1> QED
  BY <1>1, <1>2, <1>3

LEMMA StartEnds ==
  ASSUME NEW s, Machine(s), NEW b
  PROVE  Start(s, b).pt = [ch \in Channels |-> IF ch \in b.use THEN EndOf(s.pt[ch], b, ch) ELSE s.pt[ch]]
BY DEF Start, Machine, Fields, EndOf

LEMMA StartAlike ==
  ASSUME NEW s, Machine(s), NEW b
  PROVE  Alike(Start(s, b), Start(s, b), b)
<1> DEFINE t == Start(s, b)
<1>1. Machine(t) /\ t.at = [ch \in Channels |-> IF ch \in b.use THEN s.pt[ch] ELSE 0]
  BY StartFields
<1> HIDE DEF t
<1>2. Alike(t, t, b)
  BY <1>1 DEF Alike
<1> QED
  BY <1>2 DEF t

\* All the words of a block, by induction.
LEMMA WordsAlike ==
  ASSUME NEW s, Machine(s), NEW b, b.h * b.v \in Nat, b.mt \in blttbl, ~b.fill
  PROVE  Alike(Words(TRUE, s, b)[b.h * b.v], Words(FALSE, s, b)[b.h * b.v], b)
<1> DEFINE n == b.h * b.v
           W(p) == Words(TRUE, s, b)[p]
           V(p) == Words(FALSE, s, b)[p]
           P(p) == p <= n => Alike(W(p), V(p), b)
           S == {p \in Nat : P(p)}
<1>1. P(0)
  <2>1. W(0) = Start(s, b) /\ V(0) = Start(s, b)
    BY WordsAre
  <2> HIDE DEF W, V
  <2> QED
    BY <2>1, StartAlike
<1>2. ASSUME NEW p \in Nat, P(p) PROVE P(p + 1)
  <2> SUFFICES ASSUME p + 1 <= n PROVE Alike(W(p + 1), V(p + 1), b)
    OBVIOUS
  <2>1. p \in 0 .. n - 1 /\ p <= n
    OBVIOUS
  <2>2. Alike(W(p), V(p), b)
    BY <1>2, <2>1
  <2>3. Alike(BlockWord(TRUE, W(p), b, p), BlockWord(FALSE, V(p), b, p), b)
    <3> HIDE DEF W, V
    <3> QED
      BY <2>2, BlockWordAlike
  <2>4. W(p + 1) = BlockWord(TRUE, W(p), b, p) /\ V(p + 1) = BlockWord(FALSE, V(p), b, p)
    BY <2>1, WordsAre
  <2> QED
    BY <2>3, <2>4
<1> HIDE DEF P
<1>3. S = Nat
  <2>1. S \in SUBSET Nat /\ 0 \in S /\ \A p \in S : p + 1 \in S
    BY <1>1, <1>2
  <2> HIDE DEF S
  <2> QED
    BY <2>1, Induction
<1>4. n \in Nat /\ n <= n
  <2>1. n \in Nat
    OBVIOUS
  <2> HIDE DEF n
  <2> QED
    BY <2>1
<1>5. P(n)
  BY <1>3, <1>4
<1> QED
  <2>1. Alike(W(n), V(n), b)
    <3> HIDE DEF W, V, n
    <3> QED
      BY <1>4, <1>5 DEF P
  <2> QED
    BY <2>1

\* The last word is written when the loop has ended.
LEMMA LastWriteFields ==
  ASSUME NEW s, Machine(s)
  PROVE  /\ Machine(LastWrite(s))
         /\ LastWrite(s).mem = IF s.dstp # 0 THEN wput(s.mem, s.dstp, s.dat["d"]) ELSE s.mem
         /\ \A f \in Fields \ {"mem"} : LastWrite(s)[f] = s[f]
<1> DEFINE t == [s EXCEPT !.mem = wput(s.mem, s.dstp, s.dat["d"])]
<1>1. /\ Machine(t) /\ t.mem = wput(s.mem, s.dstp, s.dat["d"])
      /\ \A f \in Fields \ {"mem"} : t[f] = s[f]
  BY DEF Machine, Fields
<1>2. LastWrite(s) = IF s.dstp # 0 THEN t ELSE s
  BY DEF LastWrite
<1> HIDE DEF t
<1> QED
  BY <1>1, <1>2

LEMMA LastWriteAlike ==
  ASSUME NEW s, NEW t, NEW b, Alike(s, t, b)
  PROVE  Alike(LastWrite(s), LastWrite(t), b)
<1> DEFINE u == LastWrite(s)
           v == LastWrite(t)
<1>1. /\ Machine(u)
      /\ u.mem = IF s.dstp # 0 THEN wput(s.mem, s.dstp, s.dat["d"]) ELSE s.mem
      /\ \A f \in Fields \ {"mem"} : u[f] = s[f]
  BY LastWriteFields DEF Alike
<1>2. /\ Machine(v)
      /\ v.mem = IF t.dstp # 0 THEN wput(t.mem, t.dstp, t.dat["d"]) ELSE t.mem
      /\ \A f \in Fields \ {"mem"} : v[f] = t[f]
  BY LastWriteFields DEF Alike
<1> HIDE DEF u, v
<1>3. Alike(u, v, b)
  BY <1>1, <1>2 DEF Alike, Fields
<1> QED
  BY <1>3 DEF u, v

\* A special function and the general loop, from the same registers.
LEMMA BlocksAlike ==
  ASSUME NEW s, Machine(s), NEW b, b.h * b.v \in Nat, Special(b)
  PROVE  Alike(actually_do_blit(s, b), General(s, b), b)
<1>1. Alike(LastWrite(Words(TRUE, s, b)[b.h * b.v]), LastWrite(Words(FALSE, s, b)[b.h * b.v]), b)
  BY WordsAlike, LastWriteAlike DEF Special
<1>2. actually_do_blit(s, b) = LastWrite(Words(TRUE, s, b)[b.h * b.v])
  BY DEF actually_do_blit, Special, blitdofast, blitdofast_desc
<1>3. General(s, b) = LastWrite(Words(FALSE, s, b)[b.h * b.v])
  BY DEF General, blitter_dofast, blitter_dofast_desc
<1> QED
  BY <1>1, <1>2, <1>3

\* What the registers of a blit leave of those of the blit before.
LEMMA LoadFields ==
  ASSUME NEW s, Machine(s), NEW b, IsBlit(b)
  PROVE  LET t == Load(s, b)
         IN  /\ Machine(t)
             /\ t.at = [ch \in Channels |-> 0] /\ t.prev = [a |-> {}, b |-> {}] /\ t.dstp = 0
             /\ t.pt = b.pt
             /\ t.dat = [ch \in Channels |-> IF ch \in DOMAIN b.load THEN b.load[ch] ELSE s.dat[ch]]
             /\ t.bhold = IF "b" \in DOMAIN b.load
                            THEN Shifted(b, {}, b.load["b"], b.bshift) ELSE s.bhold
             /\ \A f \in {"mem", "zero", "fc", "shift", "lineb", "sign", "onedot"} : t[f] = s[f]
<1> DEFINE t == Load(s, b)
<1>0. b.pt \in [Channels -> Int]
  BY DEF IsBlit
<1>1. t = [f \in Fields |-> t[f]]
  BY DEF Load, Machine, Fields
<1>2. t.at = [ch \in Channels |-> 0] /\ t.prev = [a |-> {}, b |-> {}] /\ t.dstp = 0
  BY DEF Load, Machine, Fields
<1>3. t.pt = b.pt
  BY DEF Load, Machine, Fields
<1>4. t.dat = [ch \in Channels |-> IF ch \in DOMAIN b.load THEN b.load[ch] ELSE s.dat[ch]]
  BY DEF Load, Machine, Fields
<1>5. t.bhold = IF "b" \in DOMAIN b.load
                  THEN Shifted(b, {}, b.load["b"], b.bshift) ELSE s.bhold
  BY DEF Load, Machine, Fields
<1>6. \A f \in {"mem", "zero", "fc", "shift", "lineb", "sign", "onedot"} : t[f] = s[f]
  BY DEF Load, Machine, Fields
<1> HIDE DEF t
<1>7. Machine(t)
  BY <1>0, <1>1, <1>3, <1>4 DEF Machine
<1> QED
  BY <1>2, <1>3, <1>4, <1>5, <1>6, <1>7 DEF t

\* All that a blit finds of the one before.
Kept == Fields \ {"at", "prev", "dstp"}

\* Two machines that agree on what is kept begin the next blit alike.
LEMMA LoadSame ==
  ASSUME NEW s, NEW t, Machine(s), Machine(t), NEW b, IsBlit(b), \A f \in Kept : s[f] = t[f]
  PROVE  Load(s, b) = Load(t, b)
<1> DEFINE u == Load(s, b)
           v == Load(t, b)
<1>1. /\ Machine(u)
      /\ u.at = [ch \in Channels |-> 0] /\ u.prev = [a |-> {}, b |-> {}] /\ u.dstp = 0
      /\ u.pt = b.pt
      /\ u.dat = [ch \in Channels |-> IF ch \in DOMAIN b.load THEN b.load[ch] ELSE s.dat[ch]]
      /\ u.bhold = IF "b" \in DOMAIN b.load
                     THEN Shifted(b, {}, b.load["b"], b.bshift) ELSE s.bhold
      /\ \A f \in {"mem", "zero", "fc", "shift", "lineb", "sign", "onedot"} : u[f] = s[f]
  BY LoadFields
<1>2. /\ Machine(v)
      /\ v.at = [ch \in Channels |-> 0] /\ v.prev = [a |-> {}, b |-> {}] /\ v.dstp = 0
      /\ v.pt = b.pt
      /\ v.dat = [ch \in Channels |-> IF ch \in DOMAIN b.load THEN b.load[ch] ELSE t.dat[ch]]
      /\ v.bhold = IF "b" \in DOMAIN b.load
                     THEN Shifted(b, {}, b.load["b"], b.bshift) ELSE t.bhold
      /\ \A f \in {"mem", "zero", "fc", "shift", "lineb", "sign", "onedot"} : v[f] = t[f]
  BY LoadFields
<1> HIDE DEF u, v
<1>3. /\ s.dat = t.dat /\ s.bhold = t.bhold
      /\ \A f \in {"mem", "zero", "fc", "shift", "lineb", "sign", "onedot"} : s[f] = t[f]
  BY DEF Kept, Fields
<1>4. u.dat = v.dat /\ u.bhold = v.bhold
  BY <1>1, <1>2, <1>3
<1>5. \A f \in Fields : u[f] = v[f]
  BY <1>1, <1>2, <1>3, <1>4 DEF Fields
<1>6. u = v
  BY <1>1, <1>2, <1>5 DEF Machine
<1> QED
  BY <1>6 DEF u, v

-----------------------------------------------------------------------------
(***************************************************************************)
(* Lines. A step across or down moves the pointer of C and the shift of A: *)
(* together they say at which pixel the line is.                           *)
(***************************************************************************)

\* What a line begins with.
LEMMA LineStartFields ==
  ASSUME NEW s, Machine(s), NEW b
  PROVE  LET t == LineStart(s, b)
         IN  /\ Machine(t) /\ t.shift = b.ashift
             /\ \A f \in Fields \ {"lineb", "sign", "onedot", "shift", "zero"} : t[f] = s[f]
BY DEF LineStart, Machine, Fields

\* A step across goes to the next word at the end of one.
LEMMA MoveXFields ==
  ASSUME NEW s, Machine(s), NEW back
  PROVE  LET t == MoveX(s, back)
         IN  /\ Machine(t)
             /\ t.shift = IF back THEN IF s.shift = 0 THEN Word - 1 ELSE s.shift - 1
                          ELSE IF s.shift = Word - 1 THEN 0 ELSE s.shift + 1
             /\ t.pt["c"] = IF back THEN IF s.shift = 0 THEN s.pt["c"] - 1 ELSE s.pt["c"]
                            ELSE IF s.shift = Word - 1 THEN s.pt["c"] + 1 ELSE s.pt["c"]
             /\ \A ch \in Channels \ {"c"} : t.pt[ch] = s.pt[ch]
             /\ \A f \in Fields \ {"pt", "shift"} : t[f] = s[f]
<1> DEFINE t == MoveX(s, back)
<1>1. t = [f \in Fields |-> t[f]] /\ \A f \in Fields \ {"pt", "shift"} : t[f] = s[f]
  BY DEF MoveX, line_incx, line_decx, Machine, Fields
<1>2. t.shift = IF back THEN IF s.shift = 0 THEN Word - 1 ELSE s.shift - 1
                          ELSE IF s.shift = Word - 1 THEN 0 ELSE s.shift + 1
  BY DEF MoveX, line_incx, line_decx, Machine, Fields
<1>3. t.pt = [s.pt EXCEPT !["c"] = 
                IF back THEN IF s.shift = 0 THEN s.pt["c"] - 1 ELSE s.pt["c"]
                ELSE IF s.shift = Word - 1 THEN s.pt["c"] + 1 ELSE s.pt["c"]]
  BY DEF MoveX, line_incx, line_decx, Machine, Fields
<1> HIDE DEF t
<1>4. s.pt = [ch \in Channels |-> s.pt[ch]]
  BY DEF Machine
<1>5. t.dat = s.dat
  BY <1>1 DEF Fields
<1>6. Machine(t)
  BY <1>1, <1>3, <1>4, <1>5 DEF Machine
<1> QED
  BY <1>1, <1>2, <1>3, <1>4, <1>6 DEF t, Channels

\* The word in the next row, or in the one before.
RowFrom(at, modulo, back) == IF back THEN at - modulo ELSE at + modulo

\* A step down or up moves the pointer by a row, and the row has no dot yet.
LEMMA MoveYFields ==
  ASSUME NEW s, Machine(s), NEW b, NEW back
  PROVE  LET t == MoveY(s, b, back)
         IN  /\ Machine(t)
             /\ t.pt["c"] = RowFrom(s.pt["c"], b.mod["c"], back)
             /\ \A ch \in Channels \ {"c"} : t.pt[ch] = s.pt[ch]
             /\ \A f \in Fields \ {"pt", "onedot"} : t[f] = s[f]
<1> DEFINE t == MoveY(s, b, back)
<1>1. t = [f \in Fields |-> t[f]] /\ \A f \in Fields \ {"pt", "onedot"} : t[f] = s[f]
  BY DEF MoveY, line_incy, line_decy, Machine, Fields
<1>2. t.onedot = FALSE
  BY DEF MoveY, line_incy, line_decy, Machine, Fields
<1>3. t.pt = [s.pt EXCEPT !["c"] = RowFrom(s.pt["c"], b.mod["c"], back)]
  BY DEF RowFrom, MoveY, line_incy, line_decy, Machine, Fields
<1> HIDE DEF t
<1>4. s.pt = [ch \in Channels |-> s.pt[ch]]
  BY DEF Machine
<1>5. t.dat = s.dat
  BY <1>1 DEF Fields
<1>6. Machine(t)
  BY <1>1, <1>3, <1>4, <1>5 DEF Machine
<1> QED
  BY <1>1, <1>2, <1>3, <1>4, <1>6 DEF t, Channels

\* The error changes only the pointer of A.
LEMMA ErrorFields ==
  ASSUME NEW s, Machine(s), NEW b
  PROVE  LET t == Error(s, b)
         IN  /\ Machine(t)
             /\ \A ch \in Channels \ {"a"} : t.pt[ch] = s.pt[ch]
             /\ \A f \in Fields \ {"pt"} : t[f] = s[f]
<1> DEFINE t == Error(s, b)
<1>1. t = [f \in Fields |-> t[f]] /\ \A f \in Fields \ {"pt"} : t[f] = s[f]
  BY DEF Error, Machine, Fields
<1>3. t.pt = [s.pt EXCEPT !["a"] =
                IF "a" \in b.use THEN s.pt["a"] + (IF s.sign THEN b.mod.b ELSE b.mod.a) ELSE s.pt["a"]]
  BY DEF Error, Machine, Fields
<1> HIDE DEF t
<1>4. s.pt = [ch \in Channels |-> s.pt[ch]]
  BY DEF Machine
<1>5. t.dat = s.dat
  BY <1>1 DEF Fields
<1>6. Machine(t)
  BY <1>1, <1>3, <1>4, <1>5 DEF Machine
<1> QED
  BY <1>1, <1>3, <1>4, <1>6 DEF t, Channels

\* The step across and the step down after a dot.
Back(back) == IF back THEN -1 ELSE 1
AcrossBy(s, b) == IF b.sud THEN Back(b.aul) ELSE IF s.sign THEN 0 ELSE Back(b.sul)
DownBy(s, b) == IF ~b.sud THEN Back(b.aul) ELSE IF s.sign THEN 0 ELSE Back(b.sul)

\* So many pixels right of and rows below where the line began.
PlacedAt(s, b, x, y) ==
  /\ s.pt["c"] = b.pt["c"] + y * b.mod["c"] + (b.ashift + x) \div Word
  /\ s.shift = (b.ashift + x) % Word

\* The word and the bit of the next pixel and of the one before.
LEMMA NextPixel ==
  ASSUME NEW n \in Int, NEW w \in Nat \ {0}
  PROVE  /\ n % w = w - 1 => (n + 1) \div w = (n \div w) + 1 /\ (n + 1) % w = 0
         /\ n % w # w - 1 => (n + 1) \div w = n \div w /\ (n + 1) % w = (n % w) + 1
         /\ n % w = 0 => (n - 1) \div w = (n \div w) - 1 /\ (n - 1) % w = w - 1
         /\ n % w # 0 => (n - 1) \div w = n \div w /\ (n - 1) % w = (n % w) - 1
OBVIOUS

\* The sizes are positive.
LEMMA WordType == Word \in Nat \ {0} /\ ByteBits \in Nat \ {0} /\ Cells \in Nat \ {0}
BY BlitDrawAssumption DEF Word

\* A step across goes to the pixel beside.
LEMMA MoveXPlaced ==
  ASSUME NEW s, Machine(s), NEW b, IsBlit(b), NEW back, NEW x \in Int, NEW y \in Int, PlacedAt(s, b, x, y)
  PROVE  PlacedAt(MoveX(s, back), b, x + Back(back), y)
<1> DEFINE t == MoveX(s, back)
           n == b.ashift + x
<1>1. /\ t.shift = IF back THEN IF s.shift = 0 THEN Word - 1 ELSE s.shift - 1
                          ELSE IF s.shift = Word - 1 THEN 0 ELSE s.shift + 1
      /\ t.pt["c"] = IF back THEN IF s.shift = 0 THEN s.pt["c"] - 1 ELSE s.pt["c"]
                            ELSE IF s.shift = Word - 1 THEN s.pt["c"] + 1 ELSE s.pt["c"]
  BY MoveXFields
<1> HIDE DEF t
<1>2. b.ashift \in Int /\ n \in Int /\ b.pt["c"] \in Int /\ b.mod["c"] \in Int
  BY WordType DEF IsBlit, Channels
<1> DEFINE m == y * b.mod["c"]
           d == n \div Word
           r == n % Word
           d1 == (n - 1) \div Word
           d2 == (n + 1) \div Word
<1>3. m \in Int /\ d1 \in Int /\ d2 \in Int /\ d \in Int /\ r \in Int
  BY <1>2, WordType
<1>4. s.pt["c"] = b.pt["c"] + m + d /\ s.shift = r
  BY DEF PlacedAt
<1>5. /\ r = Word - 1 => d2 = d + 1 /\ (n + 1) % Word = 0
      /\ r # Word - 1 => d2 = d /\ (n + 1) % Word = r + 1
      /\ r = 0 => d1 = d - 1 /\ (n - 1) % Word = Word - 1
      /\ r # 0 => d1 = d /\ (n - 1) % Word = r - 1
  BY <1>2, WordType, NextPixel
<1>6. b.ashift + (x + Back(back)) = IF back THEN n - 1 ELSE n + 1
  BY <1>2 DEF Back
<1> HIDE DEF m, n, d, r, d1, d2
<1>7. /\ t.pt["c"] = b.pt["c"] + m + (IF back THEN n - 1 ELSE n + 1) \div Word
      /\ t.shift = (IF back THEN n - 1 ELSE n + 1) % Word
  <2>1. CASE back
    <3>1. t.pt["c"] = b.pt["c"] + m + d1
      BY <2>1, <1>1, <1>2, <1>3, <1>4, <1>5, WordType
    <3>2. t.shift = (n - 1) % Word
      BY <2>1, <1>1, <1>2, <1>3, <1>4, <1>5, WordType
    <3> QED
      BY <2>1, <3>1, <3>2 DEF d1
  <2>2. CASE ~back
    <3>0. t.pt["c"] = IF r = Word - 1 THEN s.pt["c"] + 1 ELSE s.pt["c"]
      BY <2>2, <1>1, <1>4
    <3>1. t.pt["c"] = b.pt["c"] + m + d2
      <4>1. CASE r = Word - 1
        BY <4>1, <3>0, <1>2, <1>3, <1>4, <1>5
      <4>2. CASE r # Word - 1
        BY <4>2, <3>0, <1>2, <1>3, <1>4, <1>5
      <4> QED
        BY <4>1, <4>2
    <3>2. t.shift = (n + 1) % Word
      BY <2>2, <1>1, <1>2, <1>3, <1>4, <1>5, WordType
    <3> QED
      BY <2>2, <3>1, <3>2 DEF d2
  <2> QED
    BY <2>1, <2>2
<1> QED
  BY <1>6, <1>7 DEF PlacedAt, t, m

\* The address one row up and one row down.
LEMMA NextRow ==
  ASSUME NEW k \in Int, NEW y \in Int, NEW m \in Int, NEW q \in Int
  PROVE  (k + y * m + q) - m = k + (y - 1) * m + q /\ (k + y * m + q) + m = k + (y + 1) * m + q
OBVIOUS

\* A step down goes to the pixel below.
LEMMA MoveYPlaced ==
  ASSUME NEW s, Machine(s), NEW b, IsBlit(b), NEW back, NEW x \in Int, NEW y \in Int, PlacedAt(s, b, x, y)
  PROVE  PlacedAt(MoveY(s, b, back), b, x, y + Back(back))
<1> DEFINE t == MoveY(s, b, back)
           m == b.mod["c"]
           q == (b.ashift + x) \div Word
<1>1. /\ t.pt["c"] = RowFrom(s.pt["c"], m, back)
      /\ \A f \in Fields \ {"pt", "onedot"} : t[f] = s[f]
  BY MoveYFields
<1>2. m \in Int /\ b.pt["c"] \in Int /\ q \in Int
  BY WordType DEF IsBlit, Channels
<1>3. s.pt["c"] = b.pt["c"] + y * m + q /\ s.shift = (b.ashift + x) % Word
  BY DEF PlacedAt
<1> HIDE DEF m, q, t
<1>4. t.shift = s.shift
  BY <1>1 DEF Fields
<1>5. t.pt["c"] = b.pt["c"] + (y + Back(back)) * m + q
  <2>1. CASE back
    <3>1. y + Back(back) = y - 1
      BY <2>1 DEF Back
    <3>2. t.pt["c"] = (b.pt["c"] + y * m + q) - m
      BY <2>1, <1>1, <1>3 DEF RowFrom
    <3> QED
      BY <3>1, <3>2, <1>2, NextRow
  <2>2. CASE ~back
    <3>1. y + Back(back) = y + 1
      BY <2>2 DEF Back
    <3>2. t.pt["c"] = (b.pt["c"] + y * m + q) + m
      BY <2>2, <1>1, <1>3 DEF RowFrom
    <3> QED
      BY <3>1, <3>2, <1>2, NextRow
  <2> QED
    BY <2>1, <2>2
<1> QED
  BY <1>3, <1>4, <1>5 DEF PlacedAt, t, m, q

\* After a dot drawn there, with the registers s.
MovedOn(t, s, b, x, y) == PlacedAt(t, b, x + AcrossBy(s, b), y + DownBy(s, b))

\* One dot of a line: what it reads, what it draws, and where it goes on.
DotC(s, b, n) == IF Reads(b, n) THEN wget(s.mem, s.pt["c"]) ELSE s.dat["c"]
DotA(s, b) == IF b.sing /\ s.onedot THEN {} ELSE {k \in All : k + s.shift \in s.dat["a"] \cap b.afwm}
DotD(s, b, n) == blit_func(DotA(s, b), IF 0 \in s.lineb THEN All ELSE {}, DotC(s, b, n), b.mt, All)

\* One dot of a line, field by field, and where the next one is.
LEMMA LineDotFields ==
  ASSUME NEW s, Machine(s), NEW b, IsBlit(b), NEW n, NEW x \in Int, NEW y \in Int,
         PlacedAt(s, b, x, y)
  PROVE  LET t == LineDot(s, b, n)
         IN  /\ Machine(t)
             /\ MovedOn(t, s, b, x, y)
             /\ t.mem = IF Writes(b, n) THEN wput(s.mem, s.pt["d"], DotD(s, b, n)) ELSE s.mem
             /\ t.dat = [s.dat EXCEPT !["c"] = DotC(s, b, n), !["d"] = DotD(s, b, n)]
             /\ t.pt["d"] = t.pt["c"]
             /\ t.zero = (s.zero /\ DotD(s, b, n) = {})
             /\ \A f \in {"bhold", "at", "prev", "dstp", "fc"} : t[f] = s[f]
<1> DEFINE s0 == [s EXCEPT !.onedot = TRUE]
           s1 == Sometimes(s0, b)
           s2 == Always(s1, b)
           s3 == Error(s2, b)
           t == LineDot(s, b, n)
<1>1. Machine(s0) /\ \A f \in Fields \ {"onedot"} : s0[f] = s[f]
  BY DEF Machine, Fields
<1>2. s0.sign = s.sign /\ s0.pt = s.pt /\ s0.shift = s.shift
  BY <1>1 DEF Fields
<1>3. PlacedAt(s0, b, x, y)
  BY <1>2 DEF PlacedAt
<1> HIDE DEF s0
<1>4. /\ Machine(s1)
      /\ \A f \in Fields \ {"onedot", "pt", "shift"} : s1[f] = s0[f]
      /\ PlacedAt(s1, b, IF ~b.sud /\ ~s.sign THEN x + Back(b.sul) ELSE x,
                         IF b.sud /\ ~s.sign THEN y + Back(b.sul) ELSE y)
  <2>1. CASE s.sign
    BY <2>1, <1>1, <1>2, <1>3 DEF Sometimes
  <2>2. CASE ~s.sign /\ b.sud
    <3>1. s1 = MoveY(s0, b, b.sul)
      BY <2>2, <1>2 DEF Sometimes
    <3>2. Machine(s1) /\ \A f \in Fields \ {"onedot", "pt"} : s1[f] = s0[f]
      BY <3>1, <1>1, MoveYFields
    <3>3. PlacedAt(s1, b, x, y + Back(b.sul))
      BY <3>1, <1>1, <1>3, MoveYPlaced
    <3> QED
      BY <2>2, <3>2, <3>3
  <2>3. CASE ~s.sign /\ ~b.sud
    <3>1. s1 = MoveX(s0, b.sul)
      BY <2>3, <1>2 DEF Sometimes
    <3>2. Machine(s1) /\ \A f \in Fields \ {"shift", "pt"} : s1[f] = s0[f]
      BY <3>1, <1>1, MoveXFields
    <3>3. PlacedAt(s1, b, x + Back(b.sul), y)
      BY <3>1, <1>1, <1>3, MoveXPlaced
    <3> QED
      BY <2>3, <3>2, <3>3
  <2> QED
    BY <2>1, <2>2, <2>3
<1> HIDE DEF s1
<1>5. /\ Machine(s2)
      /\ \A f \in Fields \ {"onedot", "pt", "shift"} : s2[f] = s1[f]
      /\ PlacedAt(s2, b, x + AcrossBy(s, b), y + DownBy(s, b))
  <2> DEFINE x1 == IF ~b.sud /\ ~s.sign THEN x + Back(b.sul) ELSE x
             y1 == IF b.sud /\ ~s.sign THEN y + Back(b.sul) ELSE y
  <2>0. x1 \in Int /\ y1 \in Int
    BY DEF Back
  <2>1. CASE b.sud
    <3>1. s2 = MoveX(s1, b.aul)
      BY <2>1 DEF Always
    <3>2. Machine(s2) /\ \A f \in Fields \ {"shift", "pt"} : s2[f] = s1[f]
      BY <3>1, <1>4, MoveXFields
    <3>3. PlacedAt(s2, b, x1 + Back(b.aul), y1)
      <4> HIDE DEF x1, y1
      <4> QED
        BY <3>1, <1>4, <2>0, MoveXPlaced DEF x1, y1
    <3>4. x1 + Back(b.aul) = x + AcrossBy(s, b) /\ y1 = y + DownBy(s, b)
      BY <2>1 DEF AcrossBy, DownBy, Back
    <3> QED
      BY <3>2, <3>3, <3>4
  <2>2. CASE ~b.sud
    <3>1. s2 = MoveY(s1, b, b.aul)
      BY <2>2 DEF Always
    <3>2. Machine(s2) /\ \A f \in Fields \ {"onedot", "pt"} : s2[f] = s1[f]
      BY <3>1, <1>4, MoveYFields
    <3>3. PlacedAt(s2, b, x1, y1 + Back(b.aul))
      BY <3>1, <1>4, <2>0, MoveYPlaced
    <3>4. x1 = x + AcrossBy(s, b) /\ y1 + Back(b.aul) = y + DownBy(s, b)
      BY <2>2 DEF AcrossBy, DownBy, Back
    <3> QED
      BY <3>2, <3>3, <3>4
  <2> QED
    BY <2>1, <2>2
<1> HIDE DEF s2
<1>6. /\ Machine(s3)
      /\ \A ch \in Channels \ {"a"} : s3.pt[ch] = s2.pt[ch]
      /\ \A f \in Fields \ {"pt"} : s3[f] = s2[f]
  BY <1>5, ErrorFields
<1>7. t = [s3 EXCEPT !.sign = s3.pt["a"] < 0,
                !.dat.c = DotC(s, b, n), !.dat.d = DotD(s, b, n),
                !.zero = @ /\ DotD(s, b, n) = {},
                !.mem = IF Writes(b, n) THEN wput(@, s.pt["d"], DotD(s, b, n)) ELSE @,
                !.pt.d = s3.pt["c"],
                !.lineb = {k \in All : (k - 1) % Word \in s.lineb}]
  BY DEF LineDot, DotC, DotA, DotD, s3, s2, s1, s0
<1> HIDE DEF s3, t
<1>8. t = [f \in Fields |-> t[f]]
  BY <1>6, <1>7 DEF Machine, Fields
<1>9. \A f \in {"bhold", "at", "prev", "dstp", "fc", "shift"} : t[f] = s3[f]
  BY <1>6, <1>7 DEF Machine, Fields
<1>10. t.mem = IF Writes(b, n) THEN wput(s3.mem, s.pt["d"], DotD(s, b, n)) ELSE s3.mem
  BY <1>6, <1>7 DEF Machine, Fields
<1>11. t.dat = [s3.dat EXCEPT !["c"] = DotC(s, b, n), !["d"] = DotD(s, b, n)]
  BY <1>6, <1>7 DEF Machine, Fields
<1>12. t.pt = [s3.pt EXCEPT !["d"] = s3.pt["c"]]
  BY <1>6, <1>7 DEF Machine, Fields
<1>13. t.zero = (s3.zero /\ DotD(s, b, n) = {})
  BY <1>6, <1>7 DEF Machine, Fields
<1>14. /\ s3.mem = s.mem /\ s3.dat = s.dat /\ s3.zero = s.zero
       /\ \A f \in {"bhold", "at", "prev", "dstp", "fc"} : s3[f] = s[f]
       /\ s3.shift = s2.shift
  BY <1>1, <1>4, <1>5, <1>6 DEF Fields
<1>15. Machine(t)
  BY <1>6, <1>8, <1>11, <1>12 DEF Machine, Channels
<1>16. t.pt["c"] = s2.pt["c"] /\ t.pt["d"] = t.pt["c"] /\ t.shift = s2.shift
  BY <1>6, <1>9, <1>12, <1>14 DEF Machine, Channels
<1>17. MovedOn(t, s, b, x, y)
  BY <1>5, <1>16 DEF PlacedAt, MovedOn
<1> QED
  BY <1>9, <1>10, <1>11, <1>13, <1>14, <1>15, <1>16, <1>17 DEF t

\* The blitter after so many dots of a line.
Dots(s, b) ==
  LET after[n \in 0 .. b.v] == IF n = 0 THEN LineStart(s, b) ELSE LineDot(after[n - 1], b, n - 1)
  IN  after

\* Dots is the function its definition says, by induction.
LEMMA DotsAre ==
  ASSUME NEW s, NEW b, b.v \in Nat
  PROVE  /\ Line(s, b) = Dots(s, b)[b.v]
         /\ Dots(s, b)[0] = LineStart(s, b)
         /\ \A p \in 0 .. b.v - 1 : Dots(s, b)[p + 1] = LineDot(Dots(s, b)[p], b, p)
<1> DEFINE Is(g, n) == g = [p \in 0 .. n |-> IF p = 0 THEN LineStart(s, b) ELSE LineDot(g[p - 1], b, p - 1)]
           S == {n \in Nat : \E g : Is(g, n)}
<1>1. 0 \in S
  <2>1. Is([p \in 0 .. 0 |-> LineStart(s, b)], 0)
    OBVIOUS
  <2> QED
    BY <2>1
<1>2. ASSUME NEW n \in S PROVE n + 1 \in S
  <2>1. PICK g : Is(g, n)
    OBVIOUS
  <2> DEFINE h == [p \in 0 .. n + 1 |-> IF p = n + 1 THEN LineDot(g[n], b, n) ELSE g[p]]
  <2>2. Is(h, n + 1)
    <3>1. ASSUME NEW p \in 0 .. n + 1
          PROVE  h[p] = IF p = 0 THEN LineStart(s, b) ELSE LineDot(h[p - 1], b, p - 1)
      <4>1. CASE p = n + 1
        <5>1. h[n] = g[n] /\ p # 0 /\ p - 1 = n
          BY <4>1
        <5> QED
          BY <4>1, <5>1
      <4>2. CASE p # n + 1
        <5>1. h[p] = g[p] /\ p \in 0 .. n
          BY <4>2
        <5>2. p # 0 => h[p - 1] = g[p - 1]
          BY <5>1
        <5> QED
          BY <5>1, <5>2, <2>1
      <4> QED
        BY <4>1, <4>2
    <3>2. h = [p \in 0 .. n + 1 |-> h[p]]
      OBVIOUS
    <3> HIDE DEF h
    <3> QED
      BY <3>1, <3>2
  <2>3. \E f : Is(f, n + 1)
    <3> HIDE DEF h, Is
    <3> QED
      BY <2>2
  <2>4. n + 1 \in Nat
    OBVIOUS
  <2> QED
    <3> HIDE DEF Is
    <3> QED
      BY <2>3, <2>4
<1>3. \E g : Is(g, b.v)
  <2>1. S = Nat
    <3> HIDE DEF S
    <3>1. S \in SUBSET Nat
      BY DEF S
    <3> QED
      BY <3>1, <1>1, <1>2, Induction
  <2> QED
    BY <2>1
<1>4. Is(Dots(s, b), b.v)
  <2>1. Dots(s, b) = CHOOSE g : Is(g, b.v)
    BY DEF Dots
  <2> QED
    BY <1>3, <2>1
<1>5. Line(s, b) = Dots(s, b)[b.v]
  BY DEF Line, Dots
<1> QED
  BY <1>4, <1>5

\* After n dots the line is at most n pixels away, each way.
LEMMA LinePlaced ==
  ASSUME NEW s, Machine(s), NEW b, IsBlit(b), s.pt["c"] = b.pt["c"]
  PROVE  \A n \in 0 .. b.v : /\ Machine(Dots(s, b)[n])
                             /\ \E x, y \in -n .. n : PlacedAt(Dots(s, b)[n], b, x, y)
<1> DEFINE D(n) == Dots(s, b)[n]
           P(n) == n <= b.v => Machine(D(n)) /\ \E x, y \in -n .. n : PlacedAt(D(n), b, x, y)
           S == {n \in Nat : P(n)}
<1>0. b.v \in Nat /\ b.ashift \in 0 .. Word - 1 /\ b.pt["c"] \in Int /\ b.mod["c"] \in Int
  BY WordType DEF IsBlit, Channels
<1>1. P(0)
  <2>1. D(0) = LineStart(s, b)
    BY <1>0, DotsAre
  <2>2. Machine(D(0)) /\ D(0).shift = b.ashift /\ D(0).pt = s.pt
    <3> HIDE DEF D
    <3> QED
      BY <2>1, LineStartFields DEF Fields
  <2>3. PlacedAt(D(0), b, 0, 0)
    <3> HIDE DEF D
    <3>1. 0 * b.mod["c"] = 0 /\ (b.ashift + 0) \div Word = 0 /\ (b.ashift + 0) % Word = b.ashift
      BY <1>0, WordType
    <3> QED
      BY <2>2, <3>1, <1>0 DEF PlacedAt
  <2> QED
    BY <2>2, <2>3
<1>2. ASSUME NEW n \in Nat, P(n) PROVE P(n + 1)
  <2> SUFFICES ASSUME n + 1 <= b.v
               PROVE  Machine(D(n + 1)) /\ \E x, y \in -(n + 1) .. n + 1 : PlacedAt(D(n + 1), b, x, y)
    OBVIOUS
  <2>1. n \in 0 .. b.v - 1 /\ n <= b.v
    BY <1>0
  <2>2. D(n + 1) = LineDot(D(n), b, n)
    BY <1>0, <2>1, DotsAre
  <2>3. PICK x \in -n .. n, y \in -n .. n : PlacedAt(D(n), b, x, y)
    BY <1>2, <2>1
  <2>4. Machine(D(n))
    BY <1>2, <2>1
  <2> HIDE DEF D
  <2> DEFINE u == D(n)
             v == D(n + 1)
  <2>5. Machine(D(n + 1)) /\ PlacedAt(D(n + 1), b, x + AcrossBy(D(n), b), y + DownBy(D(n), b))
    <3>0. Machine(u) /\ v = LineDot(u, b, n) /\ PlacedAt(u, b, x, y)
      BY <2>2, <2>3, <2>4
    <3>1. Machine(v) /\ MovedOn(v, u, b, x, y)
      <4>1. x \in Int /\ y \in Int
        OBVIOUS
      <4> HIDE DEF u, v
      <4> QED
        BY <3>0, <4>1, LineDotFields
    <3> QED
      BY <3>1 DEF MovedOn
  <2>6. AcrossBy(D(n), b) \in -1 .. 1 /\ DownBy(D(n), b) \in -1 .. 1
    BY DEF AcrossBy, DownBy, Back
  <2>7. x + AcrossBy(D(n), b) \in -(n + 1) .. n + 1 /\ y + DownBy(D(n), b) \in -(n + 1) .. n + 1
    BY <2>6
  <2> QED
    BY <2>5, <2>7
<1> HIDE DEF P
<1>3. S = Nat
  <2>1. S \in SUBSET Nat /\ 0 \in S /\ \A n \in S : n + 1 \in S
    BY <1>1, <1>2
  <2> HIDE DEF S
  <2> QED
    BY <2>1, Induction
<1>4. \A n \in 0 .. b.v : P(n)
  BY <1>0, <1>3
<1> QED
  BY <1>0, <1>4 DEF P

LEMMA ProductOfNats == \A x, y \in Nat : x * y \in Nat
OBVIOUS

\* The words of a blit can be counted.
LEMMA BlitSize == \A b : IsBlit(b) => b.h * b.v \in Nat
<1> TAKE b
<1>1. IsBlit(b) => b.h \in Nat /\ b.v \in Nat
  BY DEF IsBlit
<1> QED
  BY <1>1, ProductOfNats

\* The general loop leaves a machine.
LEMMA GeneralMachine ==
  ASSUME NEW s, Machine(s), NEW b, b.h * b.v \in Nat
  PROVE  Machine(General(s, b))
<1> DEFINE N0 == b.h * b.v
           V(p) == Words(FALSE, s, b)[p]
           P(p) == p <= N0 => Machine(V(p))
           S == {p \in Nat : P(p)}
<1>1. P(0)
  <2>1. V(0) = Start(s, b)
    BY WordsAre
  <2>2. Machine(Start(s, b))
    BY StartFields
  <2> HIDE DEF V
  <2> QED
    BY <2>1, <2>2
<1>2. ASSUME NEW p \in Nat, P(p) PROVE P(p + 1)
  <2> SUFFICES ASSUME p + 1 <= N0 PROVE Machine(V(p + 1))
    OBVIOUS
  <2>1. p \in 0 .. N0 - 1 /\ p <= N0
    OBVIOUS
  <2>2. Machine(V(p))
    BY <1>2, <2>1
  <2>3. V(p + 1) = BlockWord(FALSE, V(p), b, p)
    BY <2>1, WordsAre
  <2>4. Machine(BlockWord(FALSE, V(p), b, p))
    <3> HIDE DEF V
    <3> DEFINE t == [V(p) EXCEPT !.fc = IF p % b.h = 0 THEN b.fci ELSE V(p).fc]
               u == DrawWord(t, b, p % b.h)
    <3>1. Machine(t)
      BY <2>2, FcSet
    <3> HIDE DEF t
    <3>2. Machine(u)
      BY <3>1, PutFields DEF DrawWord
    <3> HIDE DEF u
    <3>3. BlockWord(FALSE, V(p), b, p) = IF p % b.h = b.h - 1 THEN Modulos(u, b) ELSE u
      BY DEF BlockWord, EndRow, t, u
    <3> QED
      BY <3>2, <3>3, ModulosFields
  <2> QED
    BY <2>3, <2>4
<1> HIDE DEF P
<1>3. S = Nat
  <2>1. S \in SUBSET Nat /\ 0 \in S /\ \A p \in S : p + 1 \in S
    BY <1>1, <1>2
  <2> HIDE DEF S
  <2> QED
    BY <2>1, Induction
<1>4. N0 \in Nat /\ N0 <= N0
  <2>1. N0 \in Nat
    OBVIOUS
  <2> HIDE DEF N0
  <2> QED
    BY <2>1
<1>5. Machine(V(N0))
  <2> HIDE DEF V, N0
  <2> QED
    BY <1>3, <1>4 DEF P
<1>6. General(s, b) = LastWrite(V(N0))
  BY DEF General, blitter_dofast, blitter_dofast_desc
<1> QED
  <2> HIDE DEF V, N0
  <2> QED
    BY <1>5, <1>6, LastWriteFields

\* The blit before the first has left out no channel.
LEMMA NoBlit == ~Skips(Nothing)
BY DEF Skips, Special, Nothing

\* A line leaves a machine.
LEMMA LineMachine ==
  ASSUME NEW s, Machine(s), NEW b, IsBlit(b)
  PROVE  Machine(Line(Load(s, b), b))
<1> DEFINE t == Load(s, b)
<1>0. Machine(t)
  BY LoadFields
<1>1. t.pt["c"] = b.pt["c"]
  BY DEF Load, Machine, Fields
<1> HIDE DEF t
<1>2. b.v \in Nat /\ b.v \in 0 .. b.v
  BY DEF IsBlit
<1>3. Machine(Dots(t, b)[b.v])
  BY <1>0, <1>1, <1>2, LinePlaced
<1> QED
  BY <1>2, <1>3, DotsAre DEF t

\* The registers of a blit make a machine of a machine.
LEMMA LoadMachine ==
  ASSUME NEW s, Machine(s), NEW b, IsBlit(b)
  PROVE  Machine(Load(s, b))
BY LoadFields

\* Where the special function leaves out nothing that is on, the registers are the same.
LEMMA AlikeKept ==
  ASSUME NEW s, NEW t, NEW b, Alike(s, t, b), Special(b), ~Skips(b)
  PROVE  \A f \in Kept : s[f] = t[f]
<1>1. \A ch \in Sources : ch \in Used(b.mt) \/ ch \notin b.use
  BY DEF Skips, Sources
<1>2. \A ch \in Channels : s.dat[ch] = t.dat[ch]
  BY <1>1 DEF Alike, Sources, Channels
<1>3. s.dat = t.dat
  BY <1>2 DEF Alike, Machine
<1>4. s.bhold = t.bhold
  BY <1>1 DEF Alike, Sources
<1> QED
  BY <1>3, <1>4 DEF Alike, Kept, Fields

\* The invariant: the machines agree on all a blit finds, unless a channel was left out.
SameMachines ==
  /\ Machine(code) /\ Machine(general) /\ blits \in Nat
  /\ ~skipped /\ ~Skips(last) => \A f \in Kept : code[f] = general[f]
  /\ SpecialIsGeneral

\* It holds at first.
LEMMA SameInit == DrawInit => SameMachines
<1> SUFFICES ASSUME DrawInit PROVE SameMachines
  OBVIOUS
<1>1. PICK mem \in Memories : code = Blank(mem)
  BY DEF DrawInit
<1>2. Machine(Blank(mem))
  <2> DEFINE s == Blank(mem)
  <2>1. s = [f \in Fields |-> s[f]]
    BY Zenon DEF Blank, Fields
  <2>2. s.dat = [ch \in Channels |-> {}] /\ s.pt = [ch \in Channels |-> 0]
    BY DEF Blank
  <2> HIDE DEF s
  <2>3. Machine(s)
    BY <2>1, <2>2 DEF Machine
  <2> QED
    BY <2>3 DEF s
<1> QED
  BY <1>1, <1>2 DEF DrawInit, SameMachines, SpecialIsGeneral

\* A blit keeps it.
LEMMA SameStep == SameMachines /\ [DrawNext]_drawVars => SameMachines'
<1> SUFFICES ASSUME SameMachines, [DrawNext]_drawVars PROVE SameMachines'
  OBVIOUS
<1>1. CASE UNCHANGED drawVars
  <2>1. /\ code' = code /\ general' = general /\ blits' = blits /\ last' = last
        /\ skipped' = skipped
    BY <1>1 DEF drawVars
  <2>2. SpecialIsGeneral'
    BY <2>1 DEF SameMachines, SpecialIsGeneral
  <2> QED
    BY <2>1, <2>2 DEF SameMachines
<1>2. CASE DrawNext
  <2>1. PICK b \in Blits[blits + 1] : Blit(b) /\ blits < Len(Blits)
    BY <1>2 DEF DrawNext
  <2>2. blits \in Nat /\ IsBlit(b)
    BY <2>1, BlitsAssumption DEF SameMachines
  <2> DEFINE c == Load(code, b)
             g == Load(general, b)
  <2>3. Machine(c) /\ Machine(g)
    BY <2>2, LoadMachine DEF SameMachines
  <2>4. b.h * b.v \in Nat
    BY <2>2, BlitSize
  <2>5. code' = actually_do_blit(c, b) /\ last' = b /\ blits' = blits + 1
    BY <2>1 DEF Blit
  <2>6. general' = IF b.kind = "line" THEN Line(g, b) ELSE General(g, b)
    BY <2>1 DEF Blit
  <2>7. ~skipped' => ~skipped /\ ~Skips(last)
    BY <2>1, NoBlit DEF Blit
  <2>8. ~skipped' => c = g
    BY <2>2, <2>7, LoadSame DEF SameMachines
  <2>9. Machine(Line(c, b)) /\ Machine(Line(g, b))
    BY <2>2, LineMachine DEF SameMachines
  <2> HIDE DEF c, g
  <2>10. Machine(General(c, b)) /\ Machine(General(g, b))
    BY <2>3, <2>4, GeneralMachine
  <2>11. Machine(general')
    BY <2>6, <2>9, <2>10
  <2>12. CASE ~Special(b)
    <3>1. code' = IF b.kind = "line" THEN Line(c, b) ELSE General(c, b)
      BY <2>5, <2>12 DEF actually_do_blit
    <3>2. Machine(code')
      BY <3>1, <2>9, <2>10
    <3>3. ~skipped' => code' = general'
      BY <3>1, <2>6, <2>8
    <3> QED
      BY <3>2, <3>3, <2>2, <2>5, <2>11 DEF SameMachines, SpecialIsGeneral
  <2>13. CASE Special(b)
    <3>1. Alike(code', General(c, b), b)
      BY <2>3, <2>4, <2>5, <2>13, BlocksAlike
    <3>2. Machine(code')
      BY <3>1 DEF Alike
    <3>3. ~skipped' => general' = General(c, b)
      BY <2>6, <2>8, <2>13 DEF Special
    <3>4. ~skipped' => Alike(code', general', b)
      BY <3>1, <3>3
    <3>5. ~skipped' /\ ~Skips(b) => \A f \in Kept : code'[f] = general'[f]
      BY <3>4, <2>13, AlikeKept
    <3>6. SpecialIsGeneral'
      <4> SUFFICES ASSUME ~skipped'
                   PROVE  /\ code'.mem = general'.mem /\ code'.zero = general'.zero
                          /\ code'.pt = general'.pt
                          /\ ~Skips(b) => /\ \A ch \in {"a", "b", "c"} : code'.dat[ch] = general'.dat[ch]
                                          /\ code'.bhold = general'.bhold
        BY <2>5 DEF SpecialIsGeneral
      <4>1. code'.mem = general'.mem /\ code'.zero = general'.zero /\ code'.pt = general'.pt
        BY <3>4 DEF Alike
      <4>2. ~Skips(b) => code'.dat = general'.dat /\ code'.bhold = general'.bhold
        BY <3>5 DEF Kept, Fields
      <4> QED
        BY <4>1, <4>2
    <3> QED
      BY <3>2, <3>5, <3>6, <2>2, <2>5, <2>11 DEF SameMachines
  <2> QED
    BY <2>12, <2>13
<1> QED
  BY <1>1, <1>2

\* A drawing function of the minterm's own (genblitter.c) draws what the general
\* loop of blitter_dofast draws, and finds the same BZERO, unless a blit before the last has
\* left out a channel that was on.
THEOREM SpecialIsGeneralHolds == DrawSpec => []SpecialIsGeneral
<1>1. SameMachines => SpecialIsGeneral
  BY DEF SameMachines
<1> QED
  BY SameInit, SameStep, <1>1, PTL DEF DrawSpec

-----------------------------------------------------------------------------
(***************************************************************************)
(* Filling. The carry in front of a bit is the parity of the ones below    *)
(* it, so that the two bytes of a word, looked up in the table one after   *)
(* the other, are filled as one.                                           *)
(***************************************************************************)

\* The parity of a number, and how it goes on.
Odd(n) == n % 2 = 1

\* The carry in front of bit k: each one below it has turned it round.
Carry(d, fc, k) == ~(fc <=> Odd(Cardinality({j \in d : j < k})))

\* Bit k of a filled word: inclusive, or exclusive.
Lit(d, ife, fc, k) == IF ife THEN k \in d \/ Carry(d, fc, k) ELSE ~(k \in d <=> Carry(d, fc, k))

\* One more turns the parity round.
LEMMA OddNext == \A n \in Nat : Odd(n + 1) <=> ~Odd(n)
BY DEF Odd

\* The ones below a bit are finitely many.
LEMMA OnesBelow ==
  ASSUME NEW n \in Nat, NEW d \in SUBSET (0 .. n - 1), NEW k \in Nat
  PROVE  IsFiniteSet({j \in d : j < k}) /\ Cardinality({j \in d : j < k}) \in Nat
<1>1. IsFiniteSet(0 .. n - 1)
  BY FS_Interval
<1>2. IsFiniteSet({j \in d : j < k})
  BY <1>1, FS_Subset
<1> QED
  BY <1>2, FS_CardinalityType

\* A one turns the carry round, a zero keeps it.
LEMMA CarryNext ==
  ASSUME NEW n \in Nat, NEW d \in SUBSET (0 .. n - 1), NEW fc \in BOOLEAN, NEW k \in Nat
  PROVE  Carry(d, fc, k + 1) <=> ~(Carry(d, fc, k) <=> k \in d)
<1> DEFINE S == {j \in d : j < k}
           T == {j \in d : j < k + 1}
<1>0. IsFiniteSet(S) /\ Cardinality(S) \in Nat
  BY OnesBelow
<1>1. \A j \in d : j \in Int
  OBVIOUS
<1>2. CASE k \in d
  <2>1. \A j \in d : j < k + 1 <=> j < k \/ j = k
    BY <1>1
  <2>2. T = S \cup {k} /\ k \notin S
    <3>1. \A j : j \in T <=> j \in S \cup {k}
      BY <1>2, <2>1
    <3>2. k \notin S
      BY <1>1, <1>2
    <3> HIDE DEF S, T
    <3> QED
      BY <3>1, <3>2
  <2> HIDE DEF S, T
  <2>3. Cardinality(T) = Cardinality(S) + 1
    BY <2>2, <1>0, FS_AddElement
  <2>4. Odd(Cardinality(T)) <=> ~Odd(Cardinality(S))
    BY <2>3, <1>0, OddNext
  <2> QED
    BY <2>4, <1>2 DEF Carry, S, T
<1>3. CASE k \notin d
  <2>1. \A j \in d : j < k + 1 <=> j < k
    BY <1>1, <1>3
  <2>2. T = S
    BY <2>1
  <2> QED
    BY <2>2, <1>3 DEF Carry
<1> QED
  BY <1>2, <1>3

\* The carry in front of the lowest bit is the one given.
LEMMA CarryFirst ==
  ASSUME NEW n \in Nat, NEW d \in SUBSET (0 .. n - 1), NEW fc \in BOOLEAN
  PROVE  Carry(d, fc, 0) <=> fc
<1>1. \A j \in d : ~(j < 0)
  OBVIOUS
<1>2. {j \in d : j < 0} = {}
  BY <1>1
<1>3. Cardinality({}) = 0 /\ ~Odd(0)
  BY FS_EmptySet DEF Odd
<1> QED
  BY <1>2, <1>3 DEF Carry

\* The first k bits are filled.
FilledTo(d, ife, fc, n, k) ==
  [data |-> {j \in 0 .. n - 1 : IF j < k THEN Lit(d, ife, fc, j) ELSE j \in d},
   fc |-> Carry(d, fc, k)]

\* A step of build_blitfilltable fills one more bit.
LEMMA FillBitIs ==
  ASSUME NEW n \in Nat, NEW d \in SUBSET (0 .. n - 1), NEW fc \in BOOLEAN, NEW ife \in BOOLEAN,
         NEW k \in 0 .. n - 1
  PROVE  FillBit(FilledTo(d, ife, fc, n, k), k, ife) = FilledTo(d, ife, fc, n, k + 1)
<1> DEFINE r == FilledTo(d, ife, fc, n, k)
           c == Carry(d, fc, k)
           e == FilledTo(d, ife, fc, n, k + 1)
<1>0. c \in BOOLEAN
  BY DEF Carry
<1>1. r.fc = c /\ (k \in r.data) = (k \in d)
  BY DEF FilledTo
<1>2. Carry(d, fc, k + 1) = (c # (k \in d))
  <2>1. k \in Nat
    OBVIOUS
  <2>2. Carry(d, fc, k + 1) <=> ~(c <=> k \in d)
    BY <2>1, CarryNext
  <2>3. Carry(d, fc, k + 1) \in BOOLEAN
    BY DEF Carry
  <2> DEFINE q == k \in d
             c1 == Carry(d, fc, k + 1)
  <2>4. q \in BOOLEAN
    OBVIOUS
  <2> HIDE DEF c, q, c1
  <2>5. c1 \in BOOLEAN /\ (c1 <=> ~(c <=> q))
    BY <2>2, <2>3 DEF c1, q
  <2>6. c1 = (c # q)
    BY <2>4, <2>5, <1>0
  <2> QED
    BY <2>6 DEF c1, q
<1>3. \A j : j # k => (j \in r.data <=> j \in e.data)
  <2>1. \A j \in 0 .. n - 1 : j # k => (j < k <=> j < k + 1)
    OBVIOUS
  <2> QED
    BY <2>1 DEF FilledTo
<1>4. k \in e.data <=> Lit(d, ife, fc, k)
  BY DEF FilledTo
<1>5. r.data \subseteq 0 .. n - 1 /\ e.data \subseteq 0 .. n - 1
  BY DEF FilledTo
<1>6. e = [data |-> e.data, fc |-> (c # (k \in d))]
  BY <1>2 DEF FilledTo
<1> HIDE DEF r, c, e
<1>7. CASE ~c
  <2>1. e.data = r.data
    <3>1. k \in e.data <=> k \in r.data
      BY <1>0, <1>1, <1>4, <1>7 DEF Lit, c
    <3> QED
      BY <3>1, <1>3
  <2> QED
    BY <2>1, <1>1, <1>6, <1>7 DEF FillBit, r, e
<1>8. CASE c /\ ife
  <2>1. e.data = r.data \cup {k}
    <3>1. k \in e.data
      BY <1>0, <1>1, <1>4, <1>8 DEF Lit, c
    <3>2. e.data \subseteq r.data \cup {k}
      BY <1>3, <1>5
    <3>3. r.data \subseteq e.data
      BY <3>1, <1>3, <1>5
    <3> QED
      BY <3>1, <3>2, <3>3
  <2> QED
    BY <2>1, <1>1, <1>6, <1>8 DEF FillBit, r, e
<1>9. CASE c /\ ~ife
  <2>1. e.data = SymDiff(r.data, {k})
    <3>1. k \in e.data <=> k \notin r.data
      BY <1>0, <1>1, <1>4, <1>9 DEF Lit, c
    <3> QED
      BY <3>1, <1>3 DEF SymDiff
  <2> QED
    BY <2>1, <1>1, <1>6, <1>9 DEF FillBit, r, e
<1> QED
  BY <1>7, <1>8, <1>9, <1>0

\* A byte of the table is filled.
LEMMA FillByteIs ==
  ASSUME NEW d \in SUBSET (0 .. ByteBits - 1), NEW fc \in BOOLEAN, NEW ife \in BOOLEAN
  PROVE  FillByte(d, ife, fc) = FilledTo(d, ife, fc, ByteBits, ByteBits)
<1> DEFINE F(k) == FilledTo(d, ife, fc, ByteBits, k)
           Is(g) == g = [k \in 0 .. ByteBits |-> IF k = 0 THEN [data |-> d, fc |-> fc]
                                                 ELSE FillBit(g[k - 1], k - 1, ife)]
           g0 == [k \in 0 .. ByteBits |-> F(k)]
           f == CHOOSE g : Is(g)
           P(k) == k <= ByteBits => f[k] = F(k)
           S == {k \in Nat : P(k)}
<1>0. ByteBits \in Nat
  BY BlitDrawAssumption
<1>1. F(0) = [data |-> d, fc |-> fc]
  <2>1. \A j \in 0 .. ByteBits - 1 : ~(j < 0)
    OBVIOUS
  <2>2. {j \in 0 .. ByteBits - 1 : IF j < 0 THEN Lit(d, ife, fc, j) ELSE j \in d} = d
    BY <2>1
  <2>3. Carry(d, fc, 0) = fc
    <3>1. Carry(d, fc, 0) <=> fc
      BY <1>0, CarryFirst
    <3> QED
      BY <3>1 DEF Carry
  <2> QED
    BY <2>2, <2>3 DEF FilledTo
<1>2. \A k \in 0 .. ByteBits - 1 : F(k + 1) = FillBit(F(k), k, ife)
  BY <1>0, FillBitIs
<1> HIDE DEF F
<1>3. Is(g0)
  <2>1. ASSUME NEW k \in 0 .. ByteBits
        PROVE  g0[k] = IF k = 0 THEN [data |-> d, fc |-> fc] ELSE FillBit(g0[k - 1], k - 1, ife)
    <3>1. CASE k = 0
      BY <3>1, <1>1
    <3>2. CASE k # 0
      <4>1. k - 1 \in 0 .. ByteBits - 1 /\ (k - 1) + 1 = k /\ g0[k - 1] = F(k - 1)
        BY <3>2, <1>0
      <4>2. F(k) = FillBit(F(k - 1), k - 1, ife)
        BY <4>1, <1>2
      <4> QED
        BY <3>2, <4>1, <4>2
    <3> QED
      BY <3>1, <3>2
  <2>2. g0 = [k \in 0 .. ByteBits |-> g0[k]]
    OBVIOUS
  <2> HIDE DEF g0
  <2> QED
    BY <2>1, <2>2
<1>4. Is(f)
  <2> HIDE DEF Is, g0
  <2> QED
    BY <1>3
<1> HIDE DEF f
<1>5. P(0)
  BY <1>0, <1>1, <1>4
<1>6. ASSUME NEW k \in Nat, P(k) PROVE P(k + 1)
  <2> SUFFICES ASSUME k + 1 <= ByteBits PROVE f[k + 1] = F(k + 1)
    OBVIOUS
  <2>1. k \in 0 .. ByteBits - 1 /\ k + 1 \in 0 .. ByteBits /\ k + 1 # 0 /\ (k + 1) - 1 = k
    BY <1>0
  <2>2. f[k + 1] = FillBit(f[k], k, ife)
    BY <1>4, <2>1
  <2>3. f[k] = F(k)
    BY <1>0, <1>6, <2>1
  <2> QED
    BY <1>2, <2>1, <2>2, <2>3
<1> HIDE DEF P
<1>7. S = Nat
  <2>1. S \in SUBSET Nat /\ 0 \in S /\ \A k \in S : k + 1 \in S
    BY <1>5, <1>6
  <2> HIDE DEF S
  <2> QED
    BY <2>1, Induction
<1>8. f[ByteBits] = F(ByteBits)
  BY <1>0, <1>7 DEF P
<1>9. FillByte(d, ife, fc) = f[ByteBits]
  BY DEF FillByte, f
<1> QED
  BY <1>8, <1>9 DEF F

\* The bits of the high byte, as the table of bytes has them.
High(d) == {k - ByteBits : k \in {k \in d : k >= ByteBits}}

\* The high byte of a word is a byte.
LEMMA HighBits ==
  ASSUME NEW d \in SUBSET All
  PROVE  High(d) \in SUBSET (0 .. ByteBits - 1) /\ \A k \in Nat : k \in High(d) <=> k + ByteBits \in d
<1>0. ByteBits \in Nat /\ Word = 2 * ByteBits
  BY BlitDrawAssumption DEF Word
<1>1. \A k \in d : k \in Nat /\ k <= Word - 1
  BY DEF All
<1>2. High(d) \in SUBSET (0 .. ByteBits - 1)
  BY <1>0, <1>1 DEF High
<1>3. ASSUME NEW k \in Nat PROVE k \in High(d) <=> k + ByteBits \in d
  <2>1. (k + ByteBits) - ByteBits = k /\ k + ByteBits >= ByteBits
    BY <1>0
  <2>2. \A j \in d : j - ByteBits = k => j = k + ByteBits
    BY <1>0, <1>1
  <2> QED
    BY <2>1, <2>2 DEF High
<1> QED
  BY <1>2, <1>3

\* The carry out of the low byte goes into the high one.
LEMMA CarryHigh ==
  ASSUME NEW d \in SUBSET All, NEW fc \in BOOLEAN, NEW k \in Nat
  PROVE  Carry(High(d), Carry(d, fc, ByteBits), k) <=> Carry(d, fc, k + ByteBits)
<1> DEFINE c == Carry(d, fc, ByteBits)
           P(j) == Carry(High(d), c, j) <=> Carry(d, fc, j + ByteBits)
           S == {j \in Nat : P(j)}
<1>0. /\ ByteBits \in Nat /\ Word \in Nat /\ d \in SUBSET (0 .. Word - 1) /\ c \in BOOLEAN
      /\ High(d) \in SUBSET (0 .. ByteBits - 1)
  BY WordType, HighBits DEF All, Carry
<1> HIDE DEF c
<1>1. P(0)
  <2>1. Carry(High(d), c, 0) <=> c
    BY <1>0, CarryFirst
  <2>2. 0 + ByteBits = ByteBits
    BY <1>0
  <2> QED
    BY <2>1, <2>2 DEF c
<1>2. ASSUME NEW j \in Nat, P(j) PROVE P(j + 1)
  <2>1. Carry(High(d), c, j + 1) <=> ~(Carry(High(d), c, j) <=> j \in High(d))
    BY <1>0, CarryNext
  <2>2. Carry(d, fc, (j + ByteBits) + 1) <=> ~(Carry(d, fc, j + ByteBits) <=> j + ByteBits \in d)
    <3>1. j + ByteBits \in Nat
      BY <1>0
    <3> QED
      BY <3>1, <1>0, CarryNext
  <2>3. (j + ByteBits) + 1 = (j + 1) + ByteBits
    BY <1>0
  <2>4. j \in High(d) <=> j + ByteBits \in d
    BY HighBits
  <2> QED
    BY <1>2, <2>1, <2>2, <2>3, <2>4
<1> HIDE DEF P
<1>3. S = Nat
  <2>1. S \in SUBSET Nat /\ 0 \in S /\ \A j \in S : j + 1 \in S
    BY <1>1, <1>2
  <2> HIDE DEF S
  <2> QED
    BY <2>1, Induction
<1> QED
  BY <1>3 DEF P, c

\* Both bytes together are the filled word, and the carry behind it.
LEMMA FillWordIs ==
  ASSUME NEW d \in SUBSET All, NEW fc \in BOOLEAN, NEW ife \in BOOLEAN
  PROVE  FillWord(d, ife, fc) = [data |-> {k \in All : Lit(d, ife, fc, k)}, fc |-> Carry(d, fc, Word)]
<1> DEFINE dl == {k \in d : k < ByteBits}
           c == Carry(d, fc, ByteBits)
           low == FillByte(dl, ife, fc)
           high == FillByte(High(d), ife, c)
<1>0. ByteBits \in Nat /\ Word = 2 * ByteBits /\ Word \in Nat /\ \A k \in d : k \in Nat
  BY WordType DEF Word, All
<1>1. \A k \in 0 .. ByteBits : Carry(dl, fc, k) <=> Carry(d, fc, k)
  <2> TAKE k \in 0 .. ByteBits
  <2>1. \A j \in d : j < k => j < ByteBits
    BY <1>0
  <2>2. {j \in dl : j < k} = {j \in d : j < k}
    BY <2>1
  <2> QED
    BY <2>2 DEF Carry
<1>2. low = FilledTo(dl, ife, fc, ByteBits, ByteBits)
  <2>1. dl \in SUBSET (0 .. ByteBits - 1)
    BY <1>0
  <2> QED
    BY <2>1, FillByteIs
<1>3. low.fc = c
  <2>1. Carry(dl, fc, ByteBits) <=> c
    BY <1>0, <1>1
  <2> QED
    BY <1>2, <2>1 DEF FilledTo, Carry
<1>4. \A k \in Nat : k \in low.data <=> k < ByteBits /\ Lit(d, ife, fc, k)
  <2> TAKE k \in Nat
  <2>1. low.data = {j \in 0 .. ByteBits - 1 : IF j < ByteBits THEN Lit(dl, ife, fc, j) ELSE j \in dl}
    BY <1>2 DEF FilledTo
  <2>2. k < ByteBits => (Lit(dl, ife, fc, k) <=> Lit(d, ife, fc, k))
    <3> SUFFICES ASSUME k < ByteBits PROVE Lit(dl, ife, fc, k) <=> Lit(d, ife, fc, k)
      OBVIOUS
    <3>1. (k \in dl <=> k \in d) /\ (Carry(dl, fc, k) <=> Carry(d, fc, k))
      BY <1>0, <1>1
    <3> HIDE DEF dl
    <3> QED
      BY <3>1 DEF Lit
  <2> HIDE DEF low, dl
  <2> QED
    BY <1>0, <2>1, <2>2
<1>5. high = FilledTo(High(d), ife, c, ByteBits, ByteBits)
  BY HighBits, FillByteIs DEF Carry
<1>6. high.fc = Carry(d, fc, Word)
  <2>1. Carry(High(d), c, ByteBits) <=> Carry(d, fc, ByteBits + ByteBits)
    BY <1>0, CarryHigh
  <2>2. ByteBits + ByteBits = Word
    BY <1>0
  <2>3. high.fc = Carry(High(d), c, ByteBits)
    BY <1>5 DEF FilledTo
  <2> HIDE DEF high, c
  <2> QED
    BY <2>1, <2>2, <2>3 DEF Carry
<1>7. \A k \in Nat : k \in high.data <=> k < ByteBits /\ Lit(d, ife, fc, k + ByteBits)
  <2> TAKE k \in Nat
  <2>1. high.data = {j \in 0 .. ByteBits - 1 : IF j < ByteBits THEN Lit(High(d), ife, c, j) ELSE j \in High(d)}
    BY <1>5 DEF FilledTo
  <2>2. Lit(High(d), ife, c, k) <=> Lit(d, ife, fc, k + ByteBits)
    <3>1. (k \in High(d) <=> k + ByteBits \in d) /\ (Carry(High(d), c, k) <=> Carry(d, fc, k + ByteBits))
      BY HighBits, CarryHigh
    <3> HIDE DEF c
    <3> QED
      BY <3>1 DEF Lit
  <2> HIDE DEF high, c
  <2> QED
    BY <1>0, <2>1, <2>2
<1>8. FillWord(d, ife, fc) = [data |-> low.data \cup {k + ByteBits : k \in high.data}, fc |-> high.fc]
  <2>1. FillByte(High(d), ife, low.fc) = high
    BY <1>3
  <2> QED
    BY <2>1 DEF FillWord, High
<1>9. low.data \cup {k + ByteBits : k \in high.data} = {k \in All : Lit(d, ife, fc, k)}
  <2>0. low.data \subseteq 0 .. ByteBits - 1 /\ high.data \subseteq 0 .. ByteBits - 1
    BY <1>2, <1>5 DEF FilledTo
  <2> HIDE DEF low, high
  <2>1. ASSUME NEW k \in All, Lit(d, ife, fc, k)
        PROVE  k \in low.data \cup {j + ByteBits : j \in high.data}
    <3>1. CASE k < ByteBits
      BY <2>1, <3>1, <1>4 DEF All
    <3>2. CASE ~(k < ByteBits)
      <4>1. k - ByteBits \in Nat /\ k - ByteBits < ByteBits /\ (k - ByteBits) + ByteBits = k
        BY <3>2, <1>0 DEF All
      <4>2. k - ByteBits \in high.data
        BY <2>1, <4>1, <1>7
      <4> QED
        BY <4>1, <4>2
    <3> QED
      BY <3>1, <3>2
  <2>2. ASSUME NEW k \in low.data PROVE k \in All /\ Lit(d, ife, fc, k)
    BY <2>0, <1>0, <1>4 DEF All
  <2>3. ASSUME NEW k \in high.data PROVE k + ByteBits \in All /\ Lit(d, ife, fc, k + ByteBits)
    BY <2>0, <1>0, <1>7 DEF All
  <2> DEFINE all == {k \in All : Lit(d, ife, fc, k)}
             parts == low.data \cup {k + ByteBits : k \in high.data}
  <2>4. all \subseteq parts
    BY <2>1
  <2>5. parts \subseteq all
    BY <2>2, <2>3
  <2> HIDE DEF all, parts
  <2>6. all = parts
    BY <2>4, <2>5
  <2> QED
    BY <2>6 DEF all, parts
<1> QED
  BY <1>6, <1>8, <1>9

-----------------------------------------------------------------------------
(***************************************************************************)
(* Where the words of a block are. As long as no pointer comes upon        *)
(* address 0, the pointer of a channel that is on is the address of the    *)
(* word, and it ends where the registers say.                              *)
(***************************************************************************)

\* Division by the words of a row.
LEMMA Rounds ==
  ASSUME NEW h \in Nat \ {0}, NEW v \in Nat
  PROVE  (h * v) \div h = v /\ (h * v) % h = 0
OBVIOUS

\* The address of the next word, in the row and in the next row.
LEMMA OneMore ==
  ASSUME NEW k \in Int, NEW d \in {-1, 1}, NEW q \in Int, NEW m \in Int, NEW r \in Int
  PROVE  /\ k + d * (q * m + (r + 1)) = (k + d * (q * m + r)) + d
         /\ \A h \in Int : k + d * ((q + 1) * (h + m) + 0) = (k + d * (q * (h + m) + (h - 1)) + d) + d * m
OBVIOUS

\* Addresses are integers.
LEMMA PlaceType ==
  ASSUME NEW b, IsBlit(b), NEW ch \in Channels, NEW p \in Nat
  PROVE  /\ Place(b, ch, p) \in Int /\ b.pt[ch] \in Int /\ b.mod[ch] \in Int /\ b.h \in Nat \ {0}
         /\ b.v \in Nat \ {0} /\ Dir(b) \in {-1, 1}
         /\ p \div b.h \in Nat /\ p % b.h \in 0 .. b.h - 1
<1>1. b.pt[ch] \in Int /\ b.mod[ch] \in Int /\ b.h \in Nat \ {0} /\ b.v \in Nat \ {0}
  BY DEF IsBlit
<1>2. Dir(b) \in {-1, 1}
  BY DEF Dir
<1>3. p \div b.h \in Nat /\ p % b.h \in 0 .. b.h - 1
  BY <1>1
<1> DEFINE q == p \div b.h
           r == p % b.h
<1> HIDE DEF q, r
<1>4. b.pt[ch] + Dir(b) * (q * (b.h + b.mod[ch]) + r) \in Int
  BY <1>1, <1>2, <1>3 DEF q, r
<1> QED
  BY <1>1, <1>2, <1>3, <1>4 DEF q, r, Place

\* The next word is beside the last, and the modulo further at the end of a row.
LEMMA NextPlace ==
  ASSUME NEW b, IsBlit(b), NEW ch \in Channels, NEW p \in Nat
  PROVE  /\ Place(b, ch, 0) = b.pt[ch]
         /\ p % b.h # b.h - 1 => Place(b, ch, p + 1) = Place(b, ch, p) + Dir(b)
         /\ p % b.h = b.h - 1 =>
              Place(b, ch, p + 1) = (Place(b, ch, p) + Dir(b)) + Dir(b) * b.mod[ch]
<1> DEFINE k == b.pt[ch]
           d == Dir(b)
           m == b.mod[ch]
           h == b.h
           q == p \div h
           r == p % h
<1>1. k \in Int /\ d \in {-1, 1} /\ m \in Int /\ h \in Nat \ {0} /\ q \in Nat /\ r \in 0 .. h - 1
  BY PlaceType
<1>2. Place(b, ch, 0) = k
  <2>1. 0 \div h = 0 /\ 0 % h = 0
    BY <1>1
  <2>2. 0 * (h + m) + 0 = 0
    BY <1>1
  <2>3. k + d * 0 = k
    BY <1>1
  <2> HIDE DEF k, d, m, h
  <2> QED
    BY <2>1, <2>2, <2>3 DEF Place, k, d, m, h
<1>3. /\ r = h - 1 => (p + 1) \div h = q + 1 /\ (p + 1) % h = 0
      /\ r # h - 1 => (p + 1) \div h = q /\ (p + 1) % h = r + 1
  <2>1. p \in Int
    OBVIOUS
  <2> HIDE DEF h
  <2> QED
    BY <1>1, <2>1, NextPixel
<1>4. Place(b, ch, p) = k + d * (q * (h + m) + r)
  BY DEF Place
<1>5. Place(b, ch, p + 1) = k + d * (((p + 1) \div h) * (h + m) + ((p + 1) % h))
  BY DEF Place
<1> HIDE DEF k, d, m, h, q, r
<1>6. r # h - 1 => Place(b, ch, p + 1) = Place(b, ch, p) + d
  <2>1. h + m \in Int
    BY <1>1
  <2>2. k + d * (q * (h + m) + (r + 1)) = (k + d * (q * (h + m) + r)) + d
    BY <1>1, <2>1, OneMore
  <2> QED
    BY <2>2, <1>3, <1>4, <1>5
<1>7. r = h - 1 => Place(b, ch, p + 1) = (Place(b, ch, p) + d) + d * m
  <2>1. k + d * ((q + 1) * (h + m) + 0) = (k + d * (q * (h + m) + (h - 1)) + d) + d * m
    BY <1>1, OneMore
  <2> QED
    BY <2>1, <1>3, <1>4, <1>5
<1> QED
  BY <1>2, <1>6, <1>7 DEF k, d, m, h, r

\* A word of the block is in one of its rows.
LEMMA InRows ==
  ASSUME NEW n \in Int, NEW h \in Nat \ {0}, NEW v \in Nat, n < h * v
  PROVE  n \div h < v
OBVIOUS

\* The pointer behind a row, before the modulo is added, is one NoZero speaks of.
LEMMA RowEnd ==
  ASSUME NEW b, IsBlit(b), NEW ch \in Channels, NEW p \in 0 .. b.h * b.v - 1, p % b.h = b.h - 1
  PROVE  \E j \in 1 .. b.v : Place(b, ch, p) + Dir(b) = b.pt[ch] + Dir(b) * (j * b.h + (j - 1) * b.mod[ch])
<1> DEFINE h == b.h
           v == b.v
           d == Dir(b)
           m == b.mod[ch]
           k == b.pt[ch]
           q == p \div h
<1>0. p \in Nat
  <2>1. b.h * b.v \in Nat
    BY BlitSize
  <2> QED
    BY <2>1
<1>1. k \in Int /\ d \in {-1, 1} /\ m \in Int /\ h \in Nat \ {0} /\ v \in Nat \ {0} /\ q \in Nat
  <2>1. /\ b.pt[ch] \in Int /\ b.mod[ch] \in Int /\ b.h \in Nat \ {0} /\ b.v \in Nat \ {0}
        /\ Dir(b) \in {-1, 1} /\ p \div b.h \in Nat
    BY <1>0, PlaceType
  <2> QED
    BY <2>1
<1>2. Place(b, ch, p) = k + d * (q * (h + m) + (h - 1))
  BY DEF Place
<1>3. q < v
  <2>1. p < h * v /\ p \in Int
    <3>1. b.h * b.v \in Nat
      BY BlitSize
    <3> QED
      BY <3>1
  <2> HIDE DEF h, v
  <2> QED
    BY <1>1, <2>1, InRows
<1> HIDE DEF h, v, d, m, k, q
<1>4. (k + d * (q * (h + m) + (h - 1))) + d = k + d * ((q + 1) * h + ((q + 1) - 1) * m)
  BY <1>1
<1>5. q + 1 \in 1 .. v
  BY <1>1, <1>3
<1> QED
  BY <1>2, <1>4, <1>5 DEF h, v, d, m, k

\* The address behind the block is where the pointer is to end.
LEMMA LastPlace ==
  ASSUME NEW b, IsBlit(b), NEW ch \in Channels
  PROVE  Place(b, ch, b.h * b.v) = EndOf(b.pt[ch], b, ch)
<1> DEFINE h == b.h
           v == b.v
           d == Dir(b)
           m == b.mod[ch]
           k == b.pt[ch]
<1>1. k \in Int /\ d \in {-1, 1} /\ m \in Int /\ h \in Nat \ {0} /\ v \in Nat \ {0}
  BY PlaceType
<1>2. (h * v) \div h = v /\ (h * v) % h = 0
  BY <1>1, Rounds
<1>3. Place(b, ch, h * v) = k + d * (v * (h + m) + 0)
  BY <1>2 DEF Place
<1> HIDE DEF h, v, d, m, k
<1>4. k + d * (v * (h + m) + 0) = k + d * (h + m) * v
  BY <1>1
<1> QED
  BY <1>3, <1>4 DEF h, v, d, m, k, EndOf

\* A pointer is at word p, or has come upon 0 and turned its channel off.
AtOk(at, b, ch, p) ==
  /\ at = 0 \/ at = Place(b, ch, p)
  /\ NoZero(b) => at = Place(b, ch, p)

\* The pointer is moved on to word p + 1.
LEMMA NextAt ==
  ASSUME NEW b, IsBlit(b), NEW ch \in Channels, ch \in b.use, NEW p \in Places(b), NEW at, AtOk(at, b, ch, p)
  PROVE  /\ p % b.h # b.h - 1 => AtOk(Moved(at, Dir(b)), b, ch, p + 1)
         /\ p % b.h = b.h - 1 => AtOk(Moved(Moved(at, Dir(b)), Dir(b) * b.mod[ch]), b, ch, p + 1)
<1> DEFINE x == Place(b, ch, p)
           d == Dir(b)
           e == d * b.mod[ch]
           at1 == Moved(at, d)
<1>0. p \in Nat /\ p \in 0 .. b.h * b.v - 1
  BY BlitSize DEF Places
<1>1. x \in Int /\ d \in Int /\ e \in Int
  <2>1. d \in Int /\ b.mod[ch] \in Int
    BY <1>0, PlaceType
  <2> HIDE DEF d
  <2> QED
    BY <2>1, <1>0, PlaceType
<1>2. /\ p % b.h # b.h - 1 => Place(b, ch, p + 1) = x + d
      /\ p % b.h = b.h - 1 => Place(b, ch, p + 1) = (x + d) + e
  BY <1>0, NextPlace
<1>3. NoZero(b) => x # 0
  BY DEF NoZero
<1>4. NoZero(b) /\ p % b.h = b.h - 1 => x + d # 0
  <2>1. p % b.h = b.h - 1 => \E j \in 1 .. b.v : x + d = b.pt[ch] + d * (j * b.h + (j - 1) * b.mod[ch])
    BY <1>0, RowEnd
  <2> QED
    BY <2>1 DEF NoZero
<1> HIDE DEF x, d, e
<1>5. (at = 0 \/ at = x) /\ (NoZero(b) => at = x)
  BY DEF AtOk, x
<1>6. (at1 = 0 \/ at1 = x + d) /\ (NoZero(b) => at1 = x + d)
  BY <1>3, <1>5 DEF Moved
<1> HIDE DEF at1
<1>7. p % b.h # b.h - 1 => AtOk(at1, b, ch, p + 1)
  BY <1>2, <1>6 DEF AtOk
<1>8. p % b.h = b.h - 1 =>
        /\ Moved(at1, e) = 0 \/ Moved(at1, e) = (x + d) + e
        /\ NoZero(b) => Moved(at1, e) = (x + d) + e
  BY <1>4, <1>6 DEF Moved
<1>9. p % b.h = b.h - 1 => AtOk(Moved(at1, e), b, ch, p + 1)
  BY <1>2, <1>8 DEF AtOk
<1> QED
  BY <1>7, <1>9 DEF at1, d, e

\* The registers and the memory hold words.
Typed(s) ==
  /\ s.mem \in [0 .. Cells - 1 -> SUBSET All] /\ s.bhold \subseteq All
  /\ \A ch \in Channels : s.dat[ch] \subseteq All
  /\ s.zero \in BOOLEAN /\ s.fc \in BOOLEAN /\ s.dstp \in 0 .. Cells - 1

\* The pointers of the channels in U are at the block's word p.
AtIs(s, b, p, U) ==
  /\ \A ch \in Channels \ b.use : s.at[ch] = 0
  /\ \A ch \in b.use \cap U : AtOk(s.at[ch], b, ch, p)

\* The channels a function reads.
Uses(special, b) == IF special THEN Used(b.mt) ELSE Channels

\* A word drawn by one of the two functions.
WordOf(special, s, b, i) == IF special THEN SpecialWord(s, b, i, Used(b.mt)) ELSE DrawWord(s, b, i)

\* A function reads channels.
LEMMA UsesChannels == \A special, b : Uses(special, b) \subseteq Channels
BY DEF Uses, Used, Sources, Channels

\* A function of words gives a word.
LEMMA FuncType ==
  ASSUME NEW a, NEW b, NEW c, NEW mt
  PROVE  blit_func(a, b, c, mt, All) \subseteq All
BY DEF blit_func

\* Filling gives a word.
LEMMA FillType ==
  ASSUME NEW d, d \subseteq All, NEW ife \in BOOLEAN, NEW fc \in BOOLEAN
  PROVE  FillWord(d, ife, fc).data \subseteq All /\ FillWord(d, ife, fc).fc \in BOOLEAN
<1>1. FillWord(d, ife, fc) = [data |-> {k \in All : Lit(d, ife, fc, k)}, fc |-> Carry(d, fc, Word)]
  BY FillWordIs
<1> QED
  BY <1>1 DEF Carry

\* A word drawn is a word put.
LEMMA WordPut ==
  ASSUME NEW special \in BOOLEAN, NEW s, Machine(s), s.fc \in BOOLEAN, NEW b, IsBlit(b), NEW i
  PROVE  \E a, out :
           /\ WordOf(special, s, b, i) =
                Put(s, b, Uses(special, b), a, BHold(s, Uses(special, b), b), out)
           /\ out.data \subseteq All /\ out.fc \in BOOLEAN
<1>0. b.fill \in BOOLEAN /\ b.ife \in BOOLEAN
  BY DEF IsBlit
<1>1. CASE special
  <2> DEFINE uses == Used(b.mt)
             a == Got(s, uses, "a") \cap blit_masktable(b, i)
             srca == IF "a" \in uses THEN Shifted(b, s.prev.a, a, b.ashift) ELSE {}
             d == blit_func(srca, BHold(s, uses, b), Got(s, uses, "c"), b.mt, All)
             pa == IF "a" \in uses THEN a ELSE {}
             out == [data |-> d, fc |-> s.fc]
  <2>1. WordOf(special, s, b, i) = Put(s, b, uses, pa, BHold(s, uses, b), out)
    BY <1>1 DEF WordOf, SpecialWord
  <2>2. d \subseteq All
    <3> HIDE DEF srca
    <3> QED
      BY FuncType
  <2>3. out.data \subseteq All /\ out.fc \in BOOLEAN
    <3> HIDE DEF d
    <3> QED
      BY <2>2
  <2> HIDE DEF out, pa
  <2> QED
    BY <1>1, <2>1, <2>3 DEF Uses
<1>2. CASE ~special
  <2> DEFINE a == Got(s, Channels, "a") \cap blit_masktable(b, i)
             raw == blit_func(Shifted(b, s.prev.a, a, b.ashift), BHold(s, Channels, b),
                              Got(s, Channels, "c"), b.mt, All)
             out == IF b.fill THEN FillWord(raw, b.ife, s.fc) ELSE [data |-> raw, fc |-> s.fc]
  <2>1. WordOf(special, s, b, i) = Put(s, b, Channels, a, BHold(s, Channels, b), out)
    BY <1>2 DEF WordOf, DrawWord
  <2>2. raw \subseteq All
    <3> HIDE DEF a
    <3> QED
      BY FuncType
  <2>3. out.data \subseteq All /\ out.fc \in BOOLEAN
    <3> HIDE DEF raw
    <3> QED
      BY <1>0, <2>2, FillType
  <2> HIDE DEF out, a
  <2> QED
    BY <1>2, <2>1, <2>3 DEF Uses
<1> QED
  BY <1>1, <1>2

\* What is read is a word of the memory.
LEMMA GotType ==
  ASSUME NEW s, Typed(s), NEW b, IsBlit(b), b.kind = "block", NEW p \in Places(b), NEW U, NEW uses, uses \subseteq U,
         AtIs(s, b, p, U), NEW ch \in Channels
  PROVE  Got(s, uses, ch) \subseteq All
<1>1. CASE On(s, uses, ch)
  <2>1. ch \in uses /\ s.at[ch] # 0
    BY <1>1 DEF On
  <2>2. ch \in b.use
    BY <2>1 DEF AtIs
  <2>3. s.at[ch] = Place(b, ch, p)
    BY <2>1, <2>2 DEF AtIs, AtOk
  <2>4. s.at[ch] \in 0 .. Cells - 1
    BY <2>2, <2>3 DEF IsBlit, Fits
  <2> QED
    BY <1>1, <2>4 DEF Got, wget, Typed
<1>2. CASE ~On(s, uses, ch)
  BY <1>2 DEF Got, Typed
<1> QED
  BY <1>1, <1>2

\* Writing a word keeps the types: its address is in the memory.
LEMMA PutTyped ==
  ASSUME NEW s, Machine(s), Typed(s), NEW b, IsBlit(b), b.kind = "block", NEW p \in Places(b),
         NEW uses, uses \subseteq Channels, AtIs(s, b, p, uses \cup {"d"}), NEW a, NEW out,
         out.data \subseteq All, out.fc \in BOOLEAN
  PROVE  Typed(Put(s, b, uses, a, BHold(s, uses, b), out))
<1> DEFINE t == Put(s, b, uses, a, BHold(s, uses, b), out)
<1>1. /\ t.dat = PutDat(s, uses, out.data)
      /\ t.bhold = BHold(s, uses, b)
      /\ t.mem = IF s.dstp # 0 THEN wput(s.mem, s.dstp, s.dat["d"]) ELSE s.mem
      /\ t.zero = (s.zero /\ out.data = {})
      /\ t.fc = out.fc
      /\ t.dstp = IF s.at["d"] # 0 THEN s.at["d"] ELSE s.dstp
  BY PutFields
<1>2. \A ch \in Channels : Got(s, uses, ch) \subseteq All
  <2> DEFINE U == uses \cup {"d"}
  <2>1. uses \subseteq U /\ AtIs(s, b, p, U)
    OBVIOUS
  <2> HIDE DEF U
  <2> QED
    BY <2>1, GotType
<1> HIDE DEF t
<1>3. \A ch \in Channels : t.dat[ch] \subseteq All
  BY <1>1, <1>2 DEF Channels, PutDat
<1>4. BHold(s, uses, b) \subseteq All
  BY DEF BHold, Shifted, Up, Down, Typed
<1>5. t.mem \in [0 .. Cells - 1 -> SUBSET All]
  BY <1>1 DEF wput, Typed, Channels
<1>6. t.dstp \in 0 .. Cells - 1
  <2>1. CASE s.at["d"] = 0
    BY <2>1, <1>1 DEF Typed
  <2>2. CASE s.at["d"] # 0
    <3>1. "d" \in b.use
      BY <2>2 DEF AtIs, Channels
    <3>2. s.at["d"] = Place(b, "d", p)
      BY <2>2, <3>1 DEF AtIs, AtOk
    <3> QED
      BY <3>1, <3>2, <2>2, <1>1 DEF IsBlit, Fits
  <2> QED
    BY <2>1, <2>2
<1>7. t.zero \in BOOLEAN
  BY <1>1 DEF Typed
<1>8. Typed(t)
  BY <1>1, <1>3, <1>4, <1>5, <1>6, <1>7 DEF Typed
<1> QED
  BY <1>8 DEF t

\* Writing a word moves the pointers on to the next.
LEMMA PutAt ==
  ASSUME NEW s, Machine(s), NEW b, IsBlit(b), NEW p \in Places(b), NEW uses, uses \subseteq Channels,
         AtIs(s, b, p, uses \cup {"d"}), NEW a, NEW bhold, NEW out
  PROVE  LET u == Put(s, b, uses, a, bhold, out)
         IN  /\ p % b.h # b.h - 1 => AtIs(u, b, p + 1, uses \cup {"d"})
             /\ p % b.h = b.h - 1 => AtIs(Modulos(u, b), b, p + 1, uses \cup {"d"})
<1> DEFINE u == Put(s, b, uses, a, bhold, out)
           v == Modulos(u, b)
           U == uses \cup {"d"}
<1>1. Machine(u) /\ u.at = PutAts(s, b, uses)
  BY PutFields
<1> HIDE DEF u
<1>2. v.at = [ch \in Channels |-> Moved(u.at[ch], Dir(b) * b.mod[ch])]
  BY <1>1, ModulosFields
<1> HIDE DEF v
<1>3. U \subseteq Channels
  BY DEF Channels
<1>4. \A ch \in Channels \ b.use : u.at[ch] = 0 /\ v.at[ch] = 0
  BY <1>1, <1>2 DEF AtIs, Moved, PutAts
<1>5. \A ch \in b.use \cap U :
        /\ p % b.h # b.h - 1 => AtOk(u.at[ch], b, ch, p + 1)
        /\ p % b.h = b.h - 1 => AtOk(v.at[ch], b, ch, p + 1)
  <2> TAKE ch \in b.use \cap U
  <2>1. ch \in Channels /\ ch \in b.use /\ AtOk(s.at[ch], b, ch, p)
    BY <1>3 DEF AtIs
  <2>2. u.at[ch] = Moved(s.at[ch], Dir(b)) /\ v.at[ch] = Moved(u.at[ch], Dir(b) * b.mod[ch])
    BY <1>1, <1>2, <2>1 DEF PutAts
  <2> QED
    BY <2>1, <2>2, NextAt
<1>6. /\ p % b.h # b.h - 1 => AtIs(u, b, p + 1, U)
      /\ p % b.h = b.h - 1 => AtIs(v, b, p + 1, U)
  BY <1>4, <1>5 DEF AtIs
<1> QED
  BY <1>6 DEF u, v

\* A word of the block keeps the types and the pointers.
LEMMA BlockWordTyped ==
  ASSUME NEW special \in BOOLEAN, NEW s, Machine(s), Typed(s), NEW b, IsBlit(b), b.kind = "block",
         NEW p \in Places(b), AtIs(s, b, p, Uses(special, b) \cup {"d"})
  PROVE  LET t == BlockWord(special, s, b, p)
         IN  /\ Machine(t) /\ Typed(t) /\ AtIs(t, b, p + 1, Uses(special, b) \cup {"d"})
             /\ t.pt = s.pt
<1> DEFINE i == p % b.h
           t == [s EXCEPT !.fc = IF i = 0 THEN b.fci ELSE s.fc]
           u == WordOf(special, t, b, i)
           v == Modulos(u, b)
           uses == Uses(special, b)
<1>1. /\ Machine(t) /\ t.fc = IF i = 0 THEN b.fci ELSE s.fc
      /\ \A f \in Fields \ {"fc"} : t[f] = s[f]
  BY FcSet, SMTT(20)
<1>2. BlockWord(special, s, b, p) = IF i = b.h - 1 THEN v ELSE u
  BY DEF BlockWord, EndRow, WordOf
<1> HIDE DEF t
<1>3. Typed(t)
  BY <1>1 DEF Typed, Fields, IsBlit
<1>4. AtIs(t, b, p, uses \cup {"d"})
  <2>1. t.at = s.at
    BY <1>1 DEF Fields
  <2> QED
    BY <2>1 DEF AtIs
<1>5. PICK a, out : /\ u = Put(t, b, uses, a, BHold(t, uses, b), out)
                    /\ out.data \subseteq All /\ out.fc \in BOOLEAN
  <2>1. t.fc \in BOOLEAN
    BY <1>3 DEF Typed
  <2> HIDE DEF i
  <2> QED
    BY <1>1, <2>1, WordPut
<1>6. uses \subseteq Channels
  BY UsesChannels
<1> HIDE DEF uses, u
<1>7. Machine(u)
  BY <1>1, <1>5, PutFields
<1>8. Typed(u)
  BY <1>1, <1>3, <1>4, <1>5, <1>6, PutTyped
<1>9. /\ i # b.h - 1 => AtIs(u, b, p + 1, uses \cup {"d"})
      /\ i = b.h - 1 => AtIs(v, b, p + 1, uses \cup {"d"})
  BY <1>1, <1>4, <1>5, <1>6, PutAt
<1>10. Machine(v) /\ \A f \in Fields \ {"at"} : v[f] = u[f]
  BY <1>7, ModulosFields
<1> HIDE DEF v, i
<1>11. Typed(v)
  BY <1>8, <1>10 DEF Typed, Fields
<1>12. u.pt = s.pt /\ v.pt = s.pt
  <2>1. u.pt = t.pt
    BY <1>1, <1>5, PutFields
  <2> QED
    BY <2>1, <1>1, <1>10 DEF Fields
<1> QED
  BY <1>2, <1>7, <1>8, <1>9, <1>10, <1>11, <1>12 DEF uses

\* The registers when a blit begins.
Fresh(s, b) == Machine(s) /\ Typed(s) /\ s.pt = b.pt

\* A block begins at its first word.
LEMMA StartTyped ==
  ASSUME NEW s, NEW b, IsBlit(b), Fresh(s, b), NEW U
  PROVE  /\ Machine(Start(s, b)) /\ Typed(Start(s, b)) /\ AtIs(Start(s, b), b, 0, U)
<1> DEFINE t == Start(s, b)
<1>1. Machine(t) /\ t.at = [ch \in Channels |-> IF ch \in b.use THEN s.pt[ch] ELSE 0]
  BY StartFields DEF Fresh
<1>2. \A f \in Fields \ {"at", "pt", "zero"} : t[f] = s[f]
  BY StartFields DEF Fresh
<1>3. t.zero \in BOOLEAN
  BY DEF Start, Machine, Fields, Fresh
<1> HIDE DEF t
<1>4. Typed(t)
  BY <1>2, <1>3 DEF Typed, Fields, Fresh
<1>5. b.use \subseteq Channels
  BY DEF IsBlit
<1>6. \A ch \in b.use : t.at[ch] = Place(b, ch, 0)
  <2> TAKE ch \in b.use
  <2>1. Place(b, ch, 0) = b.pt[ch]
    BY <1>5, NextPlace
  <2> QED
    BY <2>1, <1>1, <1>5 DEF Fresh
<1>7. AtIs(t, b, 0, U)
  BY <1>1, <1>5, <1>6 DEF AtIs, AtOk
<1> QED
  BY <1>1, <1>4, <1>7 DEF t

\* All the words of a block keep the types and the pointers, by induction.
LEMMA WordsTyped ==
  ASSUME NEW special \in BOOLEAN, NEW s, NEW b, IsBlit(b), b.kind = "block", Fresh(s, b)
  PROVE  \A p \in 0 .. b.h * b.v :
           LET t == Words(special, s, b)[p]
           IN  /\ Machine(t) /\ Typed(t) /\ AtIs(t, b, p, Uses(special, b) \cup {"d"})
               /\ t.pt = Start(s, b).pt
<1> DEFINE n == b.h * b.v
           U == Uses(special, b) \cup {"d"}
           W(p) == Words(special, s, b)[p]
           P(p) == p <= n => Machine(W(p)) /\ Typed(W(p)) /\ AtIs(W(p), b, p, U)
                             /\ W(p).pt = Start(s, b).pt
           S == {p \in Nat : P(p)}
<1>0. n \in Nat
  BY BlitSize
<1>1. P(0)
  <2>1. W(0) = Start(s, b)
    BY <1>0, WordsAre
  <2>2. Machine(Start(s, b)) /\ Typed(Start(s, b)) /\ AtIs(Start(s, b), b, 0, U)
    <3> HIDE DEF U
    <3> QED
      BY StartTyped
  <2> HIDE DEF W, U
  <2> QED
    BY <2>1, <2>2
<1>2. ASSUME NEW p \in Nat, P(p) PROVE P(p + 1)
  <2> SUFFICES ASSUME p + 1 <= n PROVE /\ Machine(W(p + 1)) /\ Typed(W(p + 1)) /\ AtIs(W(p + 1), b, p + 1, U)
                                        /\ W(p + 1).pt = Start(s, b).pt
    OBVIOUS
  <2>1. p \in 0 .. n - 1 /\ p <= n
    BY <1>0
  <2>2. Machine(W(p)) /\ Typed(W(p)) /\ AtIs(W(p), b, p, U) /\ W(p).pt = Start(s, b).pt
    BY <1>2, <2>1
  <2>3. p \in Places(b)
    BY <2>1 DEF Places
  <2>4. W(p + 1) = BlockWord(special, W(p), b, p)
    BY <1>0, <2>1, WordsAre
  <2> HIDE DEF W
  <2> QED
    BY <2>2, <2>3, <2>4, BlockWordTyped
<1> HIDE DEF P
<1>3. S = Nat
  <2>1. S \in SUBSET Nat /\ 0 \in S /\ \A p \in S : p + 1 \in S
    BY <1>1, <1>2
  <2> HIDE DEF S
  <2> QED
    BY <2>1, Induction
<1>4. \A p \in 0 .. n : P(p)
  BY <1>0, <1>3
<1>5. ASSUME NEW p \in 0 .. n
      PROVE  Machine(W(p)) /\ Typed(W(p)) /\ AtIs(W(p), b, p, U) /\ W(p).pt = Start(s, b).pt
  <2>1. p <= n
    BY <1>0
  <2> HIDE DEF W, U, n
  <2> QED
    BY <1>4, <2>1 DEF P
<1> QED
  BY <1>5

\* So does the last write.
LEMMA LastWriteTyped ==
  ASSUME NEW s, Machine(s), Typed(s)
  PROVE  Machine(LastWrite(s)) /\ Typed(LastWrite(s))
<1> DEFINE t == LastWrite(s)
<1>1. /\ Machine(t)
      /\ t.mem = IF s.dstp # 0 THEN wput(s.mem, s.dstp, s.dat["d"]) ELSE s.mem
      /\ \A f \in Fields \ {"mem"} : t[f] = s[f]
  BY LastWriteFields
<1> HIDE DEF t
<1>2. t.mem \in [0 .. Cells - 1 -> SUBSET All]
  BY <1>1 DEF Typed, wput, Channels
<1>3. Typed(t)
  BY <1>1, <1>2 DEF Typed, Fields
<1> QED
  BY <1>1, <1>3 DEF t

\* So does the general loop.
LEMMA GeneralTyped ==
  ASSUME NEW s, NEW b, IsBlit(b), b.kind = "block", Fresh(s, b)
  PROVE  Machine(General(s, b)) /\ Typed(General(s, b))
<1> DEFINE W == Words(FALSE, s, b)[b.h * b.v]
<1>1. b.h * b.v \in 0 .. b.h * b.v
  BY BlitSize
<1>2. Machine(W) /\ Typed(W)
  BY <1>1, WordsTyped
<1>3. General(s, b) = LastWrite(W)
  BY DEF General, blitter_dofast, blitter_dofast_desc
<1> HIDE DEF W
<1> QED
  BY <1>2, <1>3, LastWriteTyped

\* So does a special function.
LEMMA SpecialTyped ==
  ASSUME NEW s, NEW b, IsBlit(b), Fresh(s, b), Special(b)
  PROVE  Machine(actually_do_blit(s, b)) /\ Typed(actually_do_blit(s, b))
<1> DEFINE W == Words(TRUE, s, b)[b.h * b.v]
<1>1. b.h * b.v \in 0 .. b.h * b.v /\ b.kind = "block"
  BY BlitSize DEF Special
<1>2. Machine(W) /\ Typed(W)
  BY <1>1, WordsTyped
<1>3. actually_do_blit(s, b) = LastWrite(W)
  BY DEF actually_do_blit, Special, blitdofast, blitdofast_desc
<1> HIDE DEF W
<1> QED
  BY <1>2, <1>3, LastWriteTyped

\* At the end the pointers are where Start has said.
LEMMA GeneralMeets ==
  ASSUME NEW s, NEW b, IsBlit(b), b.kind = "block", Fresh(s, b), NoZero(b), NEW ch \in b.use
  PROVE  General(s, b).at[ch] = General(s, b).pt[ch]
<1> DEFINE W == Words(FALSE, s, b)[b.h * b.v]
           t == LastWrite(W)
<1>1. b.h * b.v \in 0 .. b.h * b.v /\ ch \in Channels
  BY BlitSize DEF IsBlit
<1>2. Machine(W) /\ AtIs(W, b, b.h * b.v, Uses(FALSE, b) \cup {"d"}) /\ W.pt = Start(s, b).pt
  BY <1>1, WordsTyped
<1>3. General(s, b) = t
  BY DEF General, blitter_dofast, blitter_dofast_desc
<1> HIDE DEF W
<1>4. \A f \in Fields \ {"mem"} : t[f] = W[f]
  BY <1>2, LastWriteFields
<1>5. W.at[ch] = Place(b, ch, b.h * b.v)
  BY <1>1, <1>2 DEF AtIs, AtOk, Uses
<1>6. W.pt[ch] = EndOf(b.pt[ch], b, ch)
  <2>1. Start(s, b).pt = [c \in Channels |-> IF c \in b.use THEN EndOf(s.pt[c], b, c) ELSE s.pt[c]]
    BY StartEnds DEF Fresh
  <2> QED
    BY <1>1, <1>2, <2>1 DEF Fresh
<1>7. Place(b, ch, b.h * b.v) = EndOf(b.pt[ch], b, ch)
  BY <1>1, LastPlace
<1> HIDE DEF t
<1> QED
  BY <1>3, <1>4, <1>5, <1>6, <1>7 DEF Fields

\* The registers of a blit are fresh.
LEMMA LoadFresh ==
  ASSUME NEW s, Machine(s), Typed(s), NEW b, IsBlit(b)
  PROVE  Fresh(Load(s, b), b)
<1> DEFINE t == Load(s, b)
<1>1. Machine(t)
  BY LoadMachine
<1>2. t.pt = b.pt /\ t.dstp = 0
  BY DEF Load, Machine, Fields
<1>3. /\ t.dat = [ch \in Channels |-> IF ch \in DOMAIN b.load THEN b.load[ch] ELSE s.dat[ch]]
      /\ t.bhold = IF "b" \in DOMAIN b.load
                     THEN Shifted(b, {}, b.load["b"], b.bshift) ELSE s.bhold
  BY DEF Load, Machine, Fields
<1>4. \A f \in {"mem", "zero", "fc"} : t[f] = s[f]
  BY DEF Load, Machine, Fields
<1> HIDE DEF t
<1>5. \A ch \in Channels : t.dat[ch] \subseteq All
  BY <1>3 DEF IsBlit, Typed
<1>6. t.bhold \subseteq All
  BY <1>3 DEF Shifted, Up, Down, Typed
<1>7. Typed(t)
  BY <1>2, <1>4, <1>5, <1>6, WordType DEF Typed
<1> QED
  BY <1>1, <1>2, <1>7 DEF Fresh, t

\* The dots of a line that fits are in the memory.
LEMMA LineInMemory ==
  ASSUME NEW s, NEW b, IsBlit(b), b.kind = "line", NEW n \in 0 .. b.v - 1,
         NEW x \in -n .. n, NEW y \in -n .. n, PlacedAt(s, b, x, y)
  PROVE  s.pt["c"] \in 0 .. Cells - 1
<1>1. b.v \in Nat
  BY DEF IsBlit
<1>2. x \in -(b.v - 1) .. b.v - 1 /\ y \in -(b.v - 1) .. b.v - 1
  BY <1>1
<1> QED
  BY <1>2 DEF PlacedAt, IsBlit, Fits

\* A dot keeps the types.
LEMMA LineDotTyped ==
  ASSUME NEW s, Machine(s), Typed(s), NEW b, IsBlit(b), NEW n, NEW x \in Int, NEW y \in Int,
         PlacedAt(s, b, x, y), s.pt["c"] \in 0 .. Cells - 1, s.pt["d"] \in 0 .. Cells - 1
  PROVE  Typed(LineDot(s, b, n))
<1> DEFINE t == LineDot(s, b, n)
<1>0. /\ Machine(t)
      /\ MovedOn(t, s, b, x, y)
      /\ t.mem = IF Writes(b, n) THEN wput(s.mem, s.pt["d"], DotD(s, b, n)) ELSE s.mem
      /\ t.dat = [s.dat EXCEPT !["c"] = DotC(s, b, n), !["d"] = DotD(s, b, n)]
      /\ t.pt["d"] = t.pt["c"]
      /\ t.zero = (s.zero /\ DotD(s, b, n) = {})
      /\ \A f \in {"bhold", "at", "prev", "dstp", "fc"} : t[f] = s[f]
  <2>1. Machine(s) /\ IsBlit(b) /\ x \in Int /\ y \in Int /\ PlacedAt(s, b, x, y)
    OBVIOUS
  <2> QED
    BY <2>1, LineDotFields
<1> HIDE DEF t
<1>1. Machine(t)
  BY <1>0
<1>2. t.mem = IF Writes(b, n) THEN wput(s.mem, s.pt["d"], DotD(s, b, n)) ELSE s.mem
  BY <1>0
<1>3. t.dat = [s.dat EXCEPT !["c"] = DotC(s, b, n), !["d"] = DotD(s, b, n)]
  BY <1>0
<1>4. t.zero = (s.zero /\ DotD(s, b, n) = {})
  BY <1>0
<1>5. \A f \in {"bhold", "at", "prev", "dstp", "fc"} : t[f] = s[f]
  BY <1>0
<1>6. DotC(s, b, n) \subseteq All
  BY DEF DotC, wget, Typed, Channels
<1>7. DotD(s, b, n) \subseteq All
  BY FuncType DEF DotD
<1>8. t.mem \in [0 .. Cells - 1 -> SUBSET All]
  BY <1>2, <1>7 DEF wput, Typed
<1>9. \A ch \in Channels : t.dat[ch] \subseteq All
  BY <1>3, <1>6, <1>7 DEF Typed, Machine, Channels
<1>10. t.zero \in BOOLEAN
  BY <1>4 DEF Typed
<1>11. Typed(t)
  BY <1>5, <1>8, <1>9, <1>10 DEF Typed
<1> QED
  BY <1>11 DEF t

\* So does a line.
LEMMA LineTyped ==
  ASSUME NEW s, NEW b, IsBlit(b), b.kind = "line", Fresh(s, b)
  PROVE  Typed(Line(s, b))
<1> DEFINE D(n) == Dots(s, b)[n]
           P(n) == n <= b.v => Typed(D(n)) /\ (n < b.v => D(n).pt["d"] \in 0 .. Cells - 1)
           S == {n \in Nat : P(n)}
<1>0. b.v \in Nat \ {0} /\ b.pt["d"] \in 0 .. Cells - 1
  BY DEF IsBlit, Fits
<1>1. P(0)
  <2>1. D(0) = LineStart(s, b)
    BY <1>0, DotsAre
  <2> DEFINE t == LineStart(s, b)
  <2>2. \A f \in Fields \ {"lineb", "sign", "onedot", "shift", "zero"} : t[f] = s[f]
    BY LineStartFields DEF Fresh
  <2>3. t.zero \in BOOLEAN
    BY DEF LineStart, Machine, Fields, Fresh
  <2> HIDE DEF t
  <2>4. Typed(t) /\ t.pt["d"] \in 0 .. Cells - 1
    BY <1>0, <2>2, <2>3 DEF Typed, Fields, Fresh
  <2> HIDE DEF D
  <2> QED
    BY <2>1, <2>4 DEF t
<1>2. ASSUME NEW n \in Nat, P(n) PROVE P(n + 1)
  <2> SUFFICES ASSUME n + 1 <= b.v
               PROVE  Typed(D(n + 1)) /\ (n + 1 < b.v => D(n + 1).pt["d"] \in 0 .. Cells - 1)
    OBVIOUS
  <2>1. n \in 0 .. b.v - 1 /\ n <= b.v /\ n < b.v /\ n \in 0 .. b.v /\ n + 1 \in 0 .. b.v
    BY <1>0
  <2>2. D(n + 1) = LineDot(D(n), b, n)
    BY <1>0, <2>1, DotsAre
  <2>3. Typed(D(n)) /\ D(n).pt["d"] \in 0 .. Cells - 1
    BY <1>2, <2>1
  <2>4. Machine(s) /\ s.pt["c"] = b.pt["c"]
    BY DEF Fresh
  <2>5. Machine(D(n)) /\ \E x, y \in -n .. n : PlacedAt(D(n), b, x, y)
    BY <2>1, <2>4, LinePlaced
  <2>6. \E x, y \in -(n + 1) .. n + 1 : PlacedAt(D(n + 1), b, x, y)
    BY <2>1, <2>4, LinePlaced
  <2> DEFINE u == D(n)
             v == D(n + 1)
  <2>7. Typed(u) /\ u.pt["d"] \in 0 .. Cells - 1 /\ Machine(u) /\ v = LineDot(u, b, n)
    BY <2>2, <2>3, <2>5
  <2>8. PICK x \in -n .. n, y \in -n .. n : PlacedAt(u, b, x, y)
    BY <2>5
  <2>9. n + 1 < b.v => v.pt["c"] \in 0 .. Cells - 1
    <3> SUFFICES ASSUME n + 1 < b.v PROVE v.pt["c"] \in 0 .. Cells - 1
      OBVIOUS
    <3>1. n + 1 \in 0 .. b.v - 1
      BY <1>0
    <3> HIDE DEF D
    <3> QED
      BY <2>6, <3>1, LineInMemory
  <2> HIDE DEF u, v, D
  <2>10. u.pt["c"] \in 0 .. Cells - 1 /\ x \in Int /\ y \in Int
    BY <2>1, <2>8, LineInMemory
  <2>11. Typed(v)
    BY <2>7, <2>8, <2>10, LineDotTyped
  <2>12. v.pt["d"] = v.pt["c"]
    <3> DEFINE t == LineDot(u, b, n)
    <3>1. /\ Machine(t)
          /\ MovedOn(t, u, b, x, y)
          /\ t.mem = IF Writes(b, n) THEN wput(u.mem, u.pt["d"], DotD(u, b, n)) ELSE u.mem
          /\ t.dat = [u.dat EXCEPT !["c"] = DotC(u, b, n), !["d"] = DotD(u, b, n)]
          /\ t.pt["d"] = t.pt["c"]
          /\ t.zero = (u.zero /\ DotD(u, b, n) = {})
          /\ \A f \in {"bhold", "at", "prev", "dstp", "fc"} : t[f] = u[f]
      BY <2>7, <2>8, <2>10, LineDotFields
    <3> QED
      BY <2>7, <3>1
  <2> QED
    BY <2>9, <2>11, <2>12 DEF v
<1> HIDE DEF P
<1>3. S = Nat
  <2>1. S \in SUBSET Nat /\ 0 \in S /\ \A n \in S : n + 1 \in S
    BY <1>1, <1>2
  <2> HIDE DEF S
  <2> QED
    BY <2>1, Induction
<1>4. P(b.v) /\ b.v <= b.v
  BY <1>0, <1>3
<1>5. Typed(D(b.v))
  BY <1>4 DEF P
<1> QED
  BY <1>0, <1>5, DotsAre

\* The type invariant, with the machines it is about.
DrawTyped ==
  /\ SameMachines /\ Typed(code) /\ Typed(general)
  /\ skipped \in BOOLEAN /\ blits \in 0 .. Len(Blits)

\* Either way of drawing keeps the types.
LEMMA DrawnTyped ==
  ASSUME NEW s, NEW b, IsBlit(b), Fresh(s, b)
  PROVE  /\ Typed(actually_do_blit(s, b))
         /\ Typed(IF b.kind = "line" THEN Line(s, b) ELSE General(s, b))
<1>1. b.kind = "block" \/ b.kind = "line"
  BY DEF IsBlit
<1>2. CASE b.kind = "line"
  <2>1. Typed(Line(s, b))
    BY <1>2, LineTyped
  <2> QED
    BY <1>2, <2>1 DEF actually_do_blit
<1>3. CASE b.kind = "block"
  <2>1. Typed(General(s, b))
    BY <1>3, GeneralTyped
  <2>2. Special(b) => Typed(actually_do_blit(s, b))
    BY SpecialTyped
  <2>3. ~Special(b) => actually_do_blit(s, b) = General(s, b)
    BY <1>3 DEF actually_do_blit
  <2> QED
    BY <1>3, <2>1, <2>2, <2>3
<1> QED
  BY <1>1, <1>2, <1>3

\* It holds at first.
LEMMA TypedInit == DrawInit => DrawTyped
<1> SUFFICES ASSUME DrawInit PROVE DrawTyped
  OBVIOUS
<1>1. PICK mem \in Memories : code = Blank(mem)
  BY DEF DrawInit
<1>2. mem \in [0 .. Cells - 1 -> SUBSET All]
  BY BlitDrawAssumption
<1>3. Typed(Blank(mem))
  BY <1>2, WordType DEF Blank, Typed
<1>4. 0 \in 0 .. Len(Blits)
  BY BlitsAssumption
<1> QED
  BY <1>1, <1>3, <1>4, SameInit DEF DrawInit, DrawTyped

\* A blit keeps it.
LEMMA TypedStep == DrawTyped /\ [DrawNext]_drawVars => DrawTyped'
<1> SUFFICES ASSUME DrawTyped, [DrawNext]_drawVars PROVE DrawTyped'
  OBVIOUS
<1>0. SameMachines'
  BY SameStep DEF DrawTyped
<1>1. CASE UNCHANGED drawVars
  <2>1. code' = code /\ general' = general /\ skipped' = skipped /\ blits' = blits
    BY <1>1 DEF drawVars
  <2> QED
    BY <1>0, <2>1 DEF DrawTyped
<1>2. CASE DrawNext
  <2>1. PICK b \in Blits[blits + 1] : Blit(b) /\ blits < Len(Blits)
    BY <1>2 DEF DrawNext
  <2>2. IsBlit(b) /\ blits + 1 \in 0 .. Len(Blits)
    BY <2>1, BlitsAssumption DEF DrawTyped
  <2>3. Fresh(Load(code, b), b) /\ Fresh(Load(general, b), b)
    BY <2>2, LoadFresh DEF DrawTyped, SameMachines
  <2>4. Typed(code')
    <3>1. code' = actually_do_blit(Load(code, b), b)
      BY <2>1 DEF Blit
    <3> QED
      BY <2>2, <2>3, <3>1, DrawnTyped
  <2>5. Typed(general')
    <3>1. general' = IF b.kind = "line" THEN Line(Load(general, b), b)
                     ELSE General(Load(general, b), b)
      BY <2>1 DEF Blit
    <3> QED
      BY <2>2, <2>3, <3>1, DrawnTyped
  <2>6. skipped' \in BOOLEAN /\ blits' = blits + 1
    BY <2>1 DEF Blit, DrawTyped
  <2> QED
    BY <1>0, <2>2, <2>4, <2>5, <2>6 DEF DrawTyped
<1> QED
  BY <1>1, <1>2

\* It implies the type invariant.
LEMMA TypedIsType == DrawTyped => DrawTypeOK
BY DEF DrawTyped, DrawTypeOK, Typed, Channels

\* The registers and the memory hold words, whatever is drawn: no address a drawing
\* function computes is outside chip memory, if the blits asked for fit in it.
THEOREM DrawTypeHolds == DrawSpec => []DrawTypeOK
BY TypedInit, TypedStep, TypedIsType, PTL DEF DrawSpec

\* Before the first blit there is nothing to meet.
LEMMA MeetInit == DrawInit => PointersMeet
BY DEF DrawInit, PointersMeet, Nothing

\* A block leaves the pointers where it said it would.
LEMMA MeetStep == DrawTyped /\ PointersMeet /\ [DrawNext]_drawVars => PointersMeet'
<1> SUFFICES ASSUME DrawTyped, PointersMeet, [DrawNext]_drawVars PROVE PointersMeet'
  OBVIOUS
<1>1. CASE UNCHANGED drawVars
  BY <1>1 DEF drawVars, PointersMeet
<1>2. CASE DrawNext
  <2>1. PICK b \in Blits[blits + 1] : Blit(b) /\ blits < Len(Blits)
    BY <1>2 DEF DrawNext
  <2>2. IsBlit(b)
    BY <2>1, BlitsAssumption DEF DrawTyped
  <2> DEFINE g == Load(general, b)
  <2>3. Fresh(g, b)
    BY <2>2, LoadFresh DEF DrawTyped, SameMachines
  <2>4. last' = b /\ (b.kind = "block" => general' = General(g, b))
    BY <2>1 DEF Blit
  <2> HIDE DEF g
  <2>5. b.kind = "block" /\ NoZero(b) => \A ch \in b.use : general'.at[ch] = general'.pt[ch]
    BY <2>2, <2>3, <2>4, GeneralMeets
  <2> QED
    BY <2>4, <2>5 DEF PointersMeet
<1> QED
  BY <1>1, <1>2

\* The pointers blitter_dofast writes back before it draws, height and width and modulo
\* multiplied out, are where its loops end: a program reads in the registers where
\* the blit has come to.
THEOREM PointersMeetHolds == DrawSpec => []PointersMeet
BY TypedInit, TypedStep, MeetInit, MeetStep, PTL DEF DrawSpec

-----------------------------------------------------------------------------
(***************************************************************************)
(* What a word is meant to be, from the words that are read: shifted,      *)
(* combined and filled it is what its bits are meant to be, each found in  *)
(* the streams of A and B. The last word drawn is written after the next   *)
(* is read, hence the words of a block are drawn as they are meant if none *)
(* is read that was drawn two words or more ago.                           *)
(***************************************************************************)

\* n is r places into word p.
Within(n, w, p, r) == n \div w = p /\ n % w = r /\ (p >= 0 => n >= 0) /\ (p < 0 => n < 0)

\* Division of a place in the stream.
LEMMA WithinWord ==
  ASSUME NEW w \in Nat \ {0}, NEW p \in Int, NEW r \in 0 .. w - 1, NEW n, n = p * w + r
  PROVE  Within(n, w, p, r)
BY DEF Within

\* The place in the stream that bit k of word p is shifted from, and its bit.
FromAt(b, p, k, shift) == p * Word + (IF b.desc THEN k ELSE Word - 1 - k) - shift

\* The bit of its word at that place.
BitAt(b, n) == IF b.desc THEN n % Word ELSE Word - 1 - (n % Word)

\* It is in the word itself or in the one before.
LEMMA FromWord ==
  ASSUME NEW b, NEW p \in Nat, NEW k \in All, NEW shift \in 0 .. Word - 1
  PROVE  LET n == FromAt(b, p, k, shift)
             m == IF b.desc THEN k ELSE Word - 1 - k
         IN  /\ m >= shift => n \div Word = p /\ n % Word = m - shift /\ n >= 0
             /\ m < shift => n \div Word = p - 1 /\ n % Word = m - shift + Word
                             /\ (n >= 0 <=> p >= 1)
<1> DEFINE m == IF b.desc THEN k ELSE Word - 1 - k
           n == FromAt(b, p, k, shift)
           r == m - shift
           r2 == m - shift + Word
<1>1. Word \in Nat \ {0} /\ m \in 0 .. Word - 1
  BY WordType DEF All
<1>2. n = p * Word + m - shift
  BY DEF FromAt
<1> HIDE DEF m
<1>3. m >= shift => r \in 0 .. Word - 1 /\ n = p * Word + r
  BY <1>1, <1>2
<1>4. m < shift => r2 \in 0 .. Word - 1 /\ n = (p - 1) * Word + r2
  <2>1. (p - 1) * Word = p * Word - Word
    BY <1>1
  <2>2. p * Word \in Int
    BY <1>1
  <2> QED
    BY <1>1, <1>2, <2>1, <2>2
<1> HIDE DEF n
<1>5. m >= shift => n \div Word = p /\ n % Word = r /\ n >= 0
  <2> SUFFICES ASSUME m >= shift PROVE n \div Word = p /\ n % Word = r /\ n >= 0
    OBVIOUS
  <2>1. p \in Int /\ p >= 0
    OBVIOUS
  <2> HIDE DEF r
  <2>2. Within(n, Word, p, r)
    BY <1>1, <1>3, <2>1, WithinWord
  <2> QED
    BY <2>1, <2>2 DEF Within
<1>6. m < shift => n \div Word = p - 1 /\ n % Word = r2 /\ (n >= 0 <=> p >= 1)
  <2>1. p - 1 \in Int /\ (p - 1 >= 0 <=> p >= 1) /\ (p - 1 < 0 <=> ~(p >= 1))
    OBVIOUS
  <2> SUFFICES ASSUME m < shift PROVE n \div Word = p - 1 /\ n % Word = r2 /\ (n >= 0 <=> p >= 1)
    OBVIOUS
  <2> DEFINE q == p - 1
  <2> HIDE DEF r2, q
  <2>2. Within(n, Word, q, r2)
    BY <1>1, <1>4, <2>1, WithinWord DEF q
  <2>3. n \in Int
    BY <1>1, <1>4 DEF r2
  <2> QED
    BY <2>1, <2>2, <2>3 DEF q, Within
<1> QED
  BY <1>5, <1>6 DEF m, n

\* A shifted word has that bit of the one or of the other.
LEMMA ShiftedBit ==
  ASSUME NEW b, b.desc \in BOOLEAN, NEW p \in Nat, NEW k \in All, NEW shift \in 0 .. Word - 1,
         NEW prev, prev \subseteq All, NEW now, now \subseteq All
  PROVE  LET n == FromAt(b, p, k, shift)
         IN  /\ n \div Word = p /\ n >= 0 => (k \in Shifted(b, prev, now, shift) <=> BitAt(b, n) \in now)
             /\ n \div Word = p - 1 /\ (n >= 0 <=> p >= 1) =>
                  (k \in Shifted(b, prev, now, shift) <=> BitAt(b, n) \in prev)
             /\ \/ n \div Word = p /\ n >= 0
                \/ n \div Word = p - 1 /\ (n >= 0 <=> p >= 1)
<1> DEFINE m == IF b.desc THEN k ELSE Word - 1 - k
           n == FromAt(b, p, k, shift)
<1>0. Word \in Nat \ {0} /\ m \in 0 .. Word - 1 /\ k \in 0 .. Word - 1
  BY WordType DEF All
<1>1. /\ m >= shift => n \div Word = p /\ n % Word = m - shift /\ n >= 0
      /\ m < shift => n \div Word = p - 1 /\ n % Word = m - shift + Word /\ (n >= 0 <=> p >= 1)
  BY FromWord
<1> HIDE DEF n
<1>2. \A j \in now \cup prev : j \in 0 .. Word - 1
  BY DEF All
<1>3. CASE m >= shift
  <2>1. k \in Shifted(b, prev, now, shift) <=> BitAt(b, n) \in now
    <3>1. CASE b.desc
      <4>1. BitAt(b, n) = k - shift
        BY <1>1, <1>3, <3>1 DEF BitAt
      <4>2. ~(k + Word - shift \in prev)
        BY <1>0, <1>2, <1>3, <3>1
      <4> QED
        BY <3>1, <4>1, <4>2 DEF Shifted, Down
    <3>2. CASE ~b.desc
      <4>1. BitAt(b, n) = k + shift
        BY <1>0, <1>1, <1>3, <3>2 DEF BitAt
      <4>2. ~(k + shift - Word \in prev)
        BY <1>0, <1>2, <1>3, <3>2
      <4> QED
        BY <3>2, <4>1, <4>2 DEF Shifted, Up
    <3> QED
      BY <3>1, <3>2
  <2> QED
    BY <1>1, <1>3, <2>1 DEF n
<1>4. CASE m < shift
  <2>1. k \in Shifted(b, prev, now, shift) <=> BitAt(b, n) \in prev
    <3>1. CASE b.desc
      <4>1. BitAt(b, n) = k + Word - shift
        BY <1>0, <1>1, <1>4, <3>1 DEF BitAt
      <4>2. ~(k - shift \in now)
        BY <1>0, <1>2, <1>4, <3>1
      <4> QED
        BY <3>1, <4>1, <4>2 DEF Shifted, Down
    <3>2. CASE ~b.desc
      <4>1. BitAt(b, n) = k + shift - Word
        BY <1>0, <1>1, <1>4, <3>2 DEF BitAt
      <4>2. ~(k + shift \in now)
        BY <1>0, <1>2, <1>4, <3>2
      <4> QED
        BY <3>2, <4>1, <4>2 DEF Shifted, Up
    <3> QED
      BY <3>1, <3>2
  <2> QED
    BY <1>1, <1>4, <2>1 DEF n
<1> QED
  BY <1>0, <1>3, <1>4

\* A word meant to be read is a word.
LEMMA InWordType ==
  ASSUME Typed(before), NEW b, IsBlit(b), b.kind = "block", NEW p \in Places(b), NEW ch \in Channels
  PROVE  InWord(b, ch, p) \subseteq All
<1>1. CASE ch \in b.use
  <2>1. Place(b, ch, p) \in 0 .. Cells - 1
    BY <1>1 DEF IsBlit, Fits
  <2> QED
    BY <1>1, <2>1 DEF InWord, Typed
<1>2. CASE ch \notin b.use
  BY <1>2 DEF InWord, Typed
<1> QED
  BY <1>1, <1>2

\* The first and last word masks apply where they are meant to.
LEMMA MaskedIs ==
  ASSUME Typed(before), NEW b, IsBlit(b), b.kind = "block", NEW p \in Places(b)
  PROVE  Masked(b, p) = InWord(b, "a", p) \cap blit_masktable(b, p % b.h) /\ Masked(b, p) \subseteq All
<1>1. InWord(b, "a", p) \subseteq All
  BY InWordType DEF Channels
<1>2. \A k \in All : k \in blit_masktable(b, p % b.h)
                       <=> (p % b.h = 0 => k \in b.afwm) /\ (p % b.h = b.h - 1 => k \in b.alwm)
  BY DEF blit_masktable
<1> QED
  BY <1>1, <1>2 DEF Masked

\* The words before.
LastA(b, p) == IF p = 0 THEN {} ELSE Masked(b, p - 1)

\* Of B.
LastB(b, p) == IF p = 0 THEN {} ELSE InWord(b, "b", p - 1)

\* The word before one of the block.
LEMMA Before ==
  ASSUME NEW b, IsBlit(b), NEW p \in Places(b), p # 0
  PROVE  p - 1 \in Places(b)
BY BlitSize DEF Places

\* A's shifter gives the stream of A.
LEMMA StreamOfA ==
  ASSUME Typed(before), NEW b, IsBlit(b), b.kind = "block", NEW p \in Places(b), NEW k \in All
  PROVE  k \in Shifted(b, LastA(b, p), Masked(b, p), b.ashift)
           <=> Stream(b, LAMBDA q : Masked(b, q), p, k, b.ashift)
<1> DEFINE n == FromAt(b, p, k, b.ashift)
<1>0. p \in Nat /\ b.ashift \in 0 .. Word - 1 /\ b.desc \in BOOLEAN
  BY BlitSize DEF Places, IsBlit
<1>1. Stream(b, LAMBDA q : Masked(b, q), p, k, b.ashift) <=> n >= 0 /\ BitAt(b, n) \in Masked(b, n \div Word)
  BY DEF Stream, FromAt, BitAt
<1>2. LastA(b, p) \subseteq All /\ Masked(b, p) \subseteq All
  BY Before, MaskedIs DEF LastA
<1>3. /\ n \div Word = p /\ n >= 0 =>
           (k \in Shifted(b, LastA(b, p), Masked(b, p), b.ashift) <=> BitAt(b, n) \in Masked(b, p))
      /\ n \div Word = p - 1 /\ (n >= 0 <=> p >= 1) =>
           (k \in Shifted(b, LastA(b, p), Masked(b, p), b.ashift) <=> BitAt(b, n) \in LastA(b, p))
      /\ \/ n \div Word = p /\ n >= 0
         \/ n \div Word = p - 1 /\ (n >= 0 <=> p >= 1)
  BY <1>0, <1>2, ShiftedBit, SMTT(20)
<1> HIDE DEF n
<1>4. p >= 1 <=> p # 0
  BY <1>0
<1> QED
  BY <1>1, <1>3, <1>4 DEF LastA

\* B's shifter gives the stream of B.
LEMMA StreamOfB ==
  ASSUME Typed(before), NEW b, IsBlit(b), b.kind = "block", NEW p \in Places(b), NEW k \in All
  PROVE  k \in Shifted(b, LastB(b, p), InWord(b, "b", p), b.bshift)
           <=> Stream(b, LAMBDA q : InWord(b, "b", q), p, k, b.bshift)
<1> DEFINE n == FromAt(b, p, k, b.bshift)
<1>0. p \in Nat /\ b.bshift \in 0 .. Word - 1 /\ b.desc \in BOOLEAN
  BY BlitSize DEF Places, IsBlit
<1>1. Stream(b, LAMBDA q : InWord(b, "b", q), p, k, b.bshift)
        <=> n >= 0 /\ BitAt(b, n) \in InWord(b, "b", n \div Word)
  BY DEF Stream, FromAt, BitAt
<1>2. LastB(b, p) \subseteq All /\ InWord(b, "b", p) \subseteq All
  BY Before, InWordType DEF LastB, Channels
<1>3. /\ n \div Word = p /\ n >= 0 =>
           (k \in Shifted(b, LastB(b, p), InWord(b, "b", p), b.bshift) <=> BitAt(b, n) \in InWord(b, "b", p))
      /\ n \div Word = p - 1 /\ (n >= 0 <=> p >= 1) =>
           (k \in Shifted(b, LastB(b, p), InWord(b, "b", p), b.bshift) <=> BitAt(b, n) \in LastB(b, p))
      /\ \/ n \div Word = p /\ n >= 0
         \/ n \div Word = p - 1 /\ (n >= 0 <=> p >= 1)
  BY <1>0, <1>2, ShiftedBit
<1> HIDE DEF n
<1>4. p >= 1 <=> p # 0
  BY <1>0
<1> QED
  BY <1>1, <1>3, <1>4 DEF LastB

\* What the holding register of B gives.
Held(b, p) ==
  IF "b" \in b.use THEN Shifted(b, LastB(b, p), InWord(b, "b", p), b.bshift) ELSE before.bhold

\* Equal bits have the same minterm.
LEMMA SameMinterm ==
  ASSUME NEW a \in BOOLEAN, NEW b \in BOOLEAN, NEW c \in BOOLEAN,
         NEW x \in BOOLEAN, NEW y \in BOOLEAN, NEW z \in BOOLEAN, a <=> x, b <=> y, c <=> z
  PROVE  MintermOf(a, b, c) = MintermOf(x, y, z)
BY DEF MintermOf

\* A word combined from what was read is what it is meant to be before filling.
LEMMA PlainIs ==
  ASSUME Typed(before), NEW b, IsBlit(b), b.kind = "block", NEW p \in Places(b)
  PROVE  blit_func(Shifted(b, LastA(b, p), Masked(b, p), b.ashift), Held(b, p), InWord(b, "c", p), b.mt, All)
           = Plain(b, p)
<1> DEFINE SA == Shifted(b, LastA(b, p), Masked(b, p), b.ashift)
           H == Held(b, p)
           W == InWord(b, "c", p)
           x(k) == Stream(b, LAMBDA q : Masked(b, q), p, k, b.ashift)
           y(k) == IF "b" \in b.use THEN Stream(b, LAMBDA q : InWord(b, "b", q), p, k, b.bshift)
                   ELSE k \in before.bhold
           F == blit_func(SA, H, W, b.mt, All)
<1>1. b.mt \in 0 .. 255
  BY DEF IsBlit
<1>2. F = {k \in All : MintermOf(k \in SA, k \in H, k \in W) \in Bits(b.mt)}
  BY <1>1, TableAssumption DEF blit_func
<1>3. Plain(b, p) = {k \in All : MintermOf(x(k), y(k), k \in W) \in Bits(b.mt)}
  BY DEF Plain
<1>4. \A k \in All : (k \in SA <=> x(k)) /\ x(k) \in BOOLEAN
  <2> TAKE k \in All
  <2>1. k \in SA <=> x(k)
    BY StreamOfA
  <2>2. x(k) \in BOOLEAN
    BY DEF Stream
  <2> QED
    BY <2>1, <2>2
<1>5. \A k \in All : (k \in H <=> y(k)) /\ y(k) \in BOOLEAN
  <2> TAKE k \in All
  <2>1. CASE "b" \in b.use
    <3>1. k \in H <=> y(k)
      BY <2>1, StreamOfB DEF Held
    <3>2. y(k) \in BOOLEAN
      BY <2>1 DEF Stream
    <3> QED
      BY <3>1, <3>2
  <2>2. CASE "b" \notin b.use
    BY <2>2 DEF Held
  <2> QED
    BY <2>1, <2>2
<1> HIDE DEF SA, H, W, x, y
<1>6. ASSUME NEW k \in All
      PROVE  MintermOf(k \in SA, k \in H, k \in W) = MintermOf(x(k), y(k), k \in W)
  <2> DEFINE a == k \in SA
             h == k \in H
             w == k \in W
             xx == x(k)
             yy == y(k)
  <2>1. a \in BOOLEAN /\ h \in BOOLEAN /\ w \in BOOLEAN /\ xx \in BOOLEAN /\ yy \in BOOLEAN
    BY <1>4, <1>5
  <2>2. (a <=> xx) /\ (h <=> yy) /\ (w <=> w)
    BY <1>4, <1>5
  <2> HIDE DEF a, h, w, xx, yy
  <2>3. MintermOf(a, h, w) = MintermOf(xx, yy, w)
    BY <2>1, <2>2, SameMinterm
  <2> QED
    BY <2>3 DEF a, h, w, xx, yy
<1> HIDE DEF F
<1>7. F = Plain(b, p)
  BY <1>2, <1>3, <1>6
<1> QED
  BY <1>7 DEF F, SA, H, W

\* The ones before bit k of word p, in its row.
OnesBefore(b, p, k) ==
  {x \in ((p \div b.h) * b.h .. p) \X All : (x[1] < p \/ x[2] < k) /\ x[2] \in Plain(b, x[1])}

\* Inside, by the parity of the ones before.
LEMMA InsideIs ==
  ASSUME NEW b, b.fci \in BOOLEAN, NEW p, NEW k
  PROVE  Inside(b, p, k) <=> ~(b.fci <=> Odd(Cardinality(OnesBefore(b, p, k))))
BY DEF Inside, OnesBefore, Odd

\* The first word of a row.
LEMMA FirstOfRow ==
  ASSUME NEW p \in Nat, NEW h \in Nat \ {0}
  PROVE  /\ (p \div h) * h \in Nat /\ (p \div h) * h <= p
         /\ p % h = 0 => (p \div h) * h = p
<1> DEFINE q == p \div h
           r == p % h
<1>1. q \in Nat /\ r \in 0 .. h - 1 /\ p = q * h + r
  OBVIOUS
<1>2. q * h \in Nat
  BY <1>1, ProductOfNats
<1> QED
  BY <1>1, <1>2

\* They are finitely many.
LEMMA OnesAreFinite ==
  ASSUME NEW b, IsBlit(b), NEW p \in Nat, NEW k
  PROVE  IsFiniteSet(OnesBefore(b, p, k)) /\ Cardinality(OnesBefore(b, p, k)) \in Nat
<1> DEFINE F == (p \div b.h) * b.h
           T == (F .. p) \X All
<1>1. F \in Nat
  BY FirstOfRow DEF IsBlit
<1> HIDE DEF F
<1>2. IsFiniteSet(F .. p)
  BY <1>1, FS_Interval
<1>3. IsFiniteSet(All)
  BY WordType, FS_Interval DEF All
<1>4. IsFiniteSet(T)
  BY <1>2, <1>3, FS_Product
<1>5. OnesBefore(b, p, k) \subseteq T
  BY DEF OnesBefore, F
<1> QED
  BY <1>4, <1>5, FS_Subset, FS_CardinalityType

\* A one takes the next bit from the inside to the outside, or back.
LEMMA InsideNext ==
  ASSUME NEW b, IsBlit(b), NEW p \in Nat, NEW k \in All
  PROVE  Inside(b, p, k + 1) <=> ~(Inside(b, p, k) <=> k \in Plain(b, p))
<1> DEFINE F == (p \div b.h) * b.h
           S == OnesBefore(b, p, k)
           T == OnesBefore(b, p, k + 1)
           P(q) == Plain(b, q)
           i == k \in P(p)
           c == Cardinality(S)
           d == Cardinality(T)
<1>0. b.h \in Nat \ {0} /\ b.fci \in BOOLEAN
  BY DEF IsBlit
<1>00. F \in Nat /\ F <= p /\ k \in Int
  BY <1>0, FirstOfRow, WordType DEF All
<1>1. IsFiniteSet(S) /\ c \in Nat
  BY OnesAreFinite
<1>2. S = {x \in (F .. p) \X All : (x[1] < p \/ x[2] < k) /\ x[2] \in P(x[1])}
  BY DEF OnesBefore
<1>3. T = {x \in (F .. p) \X All : (x[1] < p \/ x[2] < k + 1) /\ x[2] \in P(x[1])}
  BY DEF OnesBefore
<1>4. \A x \in (F .. p) \X All : x[1] \in Int /\ x[1] <= p /\ x[2] \in Int /\ x = <<x[1], x[2]>>
  BY <1>00, WordType DEF All
<1> HIDE DEF F, S, T, P
<1>9. \A x \in (F .. p) \X All : x[1] < p \/ x[2] < k + 1 <=> x[1] < p \/ x[2] < k \/ x = <<p, k>>
  <2> SUFFICES ASSUME NEW x \in (F .. p) \X All
      PROVE  x[1] < p \/ x[2] < k + 1 <=> x[1] < p \/ x[2] < k \/ x = <<p, k>>
    OBVIOUS
  <2>1. x[1] \in Int /\ x[1] <= p /\ x[2] \in Int /\ x = <<x[1], x[2]>>
    BY <1>4
  <2>2. x = <<p, k>> <=> x[1] = p /\ x[2] = k
    BY <2>1
  <2> QED
    BY <1>00, <2>1, <2>2
<1>5. CASE i
  <2>1. <<p, k>> \in (F .. p) \X All
    BY <1>00
  <2>2. T = S \cup {<<p, k>>}
    <3>1. T \subseteq S \cup {<<p, k>>}
      BY <1>2, <1>3, <1>9
    <3>2. <<p, k>> \in T
      BY <1>00, <1>3, <1>5, <2>1
    <3>3. S \subseteq T
      BY <1>2, <1>3, <1>9
    <3> QED
      BY <3>1, <3>2, <3>3
  <2>3. <<p, k>> \notin S
    BY <1>00, <1>2
  <2>4. d = c + 1
    BY <1>1, <2>2, <2>3, FS_AddElement
  <2>5. Odd(d) <=> ~Odd(c)
    BY <1>1, <2>4, OddNext
  <2> QED
    BY <1>0, <1>5, <2>5, InsideIs DEF S, T, P
<1>6. CASE ~i
  <2>1. T \subseteq S
    <3>1. <<p, k>>[1] = p /\ <<p, k>>[2] = k
      OBVIOUS
    <3> QED
      BY <1>2, <1>3, <1>6, <1>9, <3>1
  <2>2. S \subseteq T
    BY <1>2, <1>3, <1>9
  <2>3. d = c
    BY <2>1, <2>2
  <2> QED
    BY <1>0, <1>6, <2>3, InsideIs DEF S, T, P
<1> QED
  BY <1>5, <1>6

\* A row begins with the carry given.
LEMMA InsideFirst ==
  ASSUME NEW b, IsBlit(b), NEW p \in Nat, p % b.h = 0
  PROVE  Inside(b, p, 0) <=> b.fci
<1>1. b.h \in Nat \ {0} /\ b.fci \in BOOLEAN
  BY DEF IsBlit
<1>2. (p \div b.h) * b.h = p
  BY <1>1, FirstOfRow
<1>3. All \subseteq Nat
  BY WordType DEF All
<1>4. OnesBefore(b, p, 0) = {}
  <2>1. SUFFICES ASSUME NEW x \in OnesBefore(b, p, 0) PROVE FALSE
    OBVIOUS
  <2>2. x \in (p .. p) \X All /\ (x[1] < p \/ x[2] < 0)
    BY <1>2, <2>1 DEF OnesBefore
  <2>3. x[1] = p /\ x[2] \in Nat
    <3> DEFINE y == x[1]
               z == x[2]
    <3>1. y \in p .. p /\ z \in All
      BY <2>2
    <3> HIDE DEF y, z
    <3>2. y = p /\ z \in Nat
      BY <1>3, <3>1
    <3> QED
      BY <3>2 DEF y, z
  <2> QED
    BY <2>2, <2>3
<1>5. ~Odd(Cardinality(OnesBefore(b, p, 0)))
  BY <1>4, FS_EmptySet DEF Odd
<1> QED
  BY <1>1, <1>5, InsideIs

\* A word begins where the word before it has ended.
LEMMA InsideRow ==
  ASSUME NEW b, IsBlit(b), NEW p \in Nat, p % b.h # b.h - 1
  PROVE  Inside(b, p + 1, 0) <=> Inside(b, p, Word)
<1>1. b.h \in Nat \ {0} /\ b.fci \in BOOLEAN
  BY DEF IsBlit
<1> DEFINE q == (p + 1) \div b.h
           F == (p \div b.h) * b.h
<1>2. q = p \div b.h
  <2> DEFINE h == b.h
  <2>1. h \in Nat \ {0} /\ p % h # h - 1
    BY <1>1
  <2> HIDE DEF h
  <2>2. (p + 1) \div h = p \div h
    <3>1. p \in Int /\ h \in Nat \ {0}
      BY <2>1
    <3>2. p % h # h - 1 => (p + 1) \div h = p \div h /\ (p + 1) % h = (p % h) + 1
      BY <3>1, NextPixel
    <3> QED
      BY <2>1, <3>2
  <2> QED
    BY <2>2 DEF h
<1>3. \A k \in All : k \in Nat /\ k < Word
  BY WordType DEF All
<1>4. F \in Nat /\ F <= p
  BY <1>1, FirstOfRow
<1>5. OnesBefore(b, p + 1, 0) = {x \in (F .. p + 1) \X All : (x[1] < p + 1 \/ x[2] < 0) /\ x[2] \in Plain(b, x[1])}
  BY <1>2 DEF OnesBefore
<1>6. OnesBefore(b, p, Word) = {x \in (F .. p) \X All : (x[1] < p \/ x[2] < Word) /\ x[2] \in Plain(b, x[1])}
  BY DEF OnesBefore
<1> HIDE DEF q, F
<1>7. OnesBefore(b, p + 1, 0) \subseteq OnesBefore(b, p, Word)
  BY <1>3, <1>4, <1>5, <1>6
<1>8. OnesBefore(b, p, Word) \subseteq OnesBefore(b, p + 1, 0)
  BY <1>3, <1>4, <1>5, <1>6
<1>9. OnesBefore(b, p + 1, 0) = OnesBefore(b, p, Word)
  BY <1>7, <1>8
<1> QED
  BY <1>1, <1>9, InsideIs

\* In a word, the inside is the carry.
LEMMA InsideIsCarry ==
  ASSUME NEW b, IsBlit(b), NEW p \in Nat, Plain(b, p) \subseteq All
  PROVE  \A k \in 0 .. Word : Inside(b, p, k) <=> Carry(Plain(b, p), Inside(b, p, 0), k)
<1> DEFINE d == Plain(b, p)
           I(k) == Inside(b, p, k)
           P(k) == k <= Word => (I(k) <=> Carry(d, I(0), k))
           S == {k \in Nat : P(k)}
<1>0. Word \in Nat /\ d \in SUBSET (0 .. Word - 1)
  BY WordType DEF All
<1>1. I(0) \in BOOLEAN
  BY DEF Inside
<1>2. \A k \in All : I(k + 1) <=> ~(I(k) <=> k \in d)
  BY InsideNext
<1> HIDE DEF d, I
<1>3. P(0)
  BY <1>0, <1>1, CarryFirst
<1>4. ASSUME NEW k \in Nat, P(k)
      PROVE  P(k + 1)
  <2> SUFFICES ASSUME k + 1 <= Word PROVE I(k + 1) <=> Carry(d, I(0), k + 1)
    OBVIOUS
  <2>1. k \in All /\ k <= Word
    BY <1>0 DEF All
  <2>2. Carry(d, I(0), k + 1) <=> ~(Carry(d, I(0), k) <=> k \in d)
    BY <1>0, <1>1, CarryNext
  <2> QED
    BY <1>2, <1>4, <2>1, <2>2
<1> HIDE DEF P
<1>45. S \in SUBSET Nat /\ 0 \in S /\ \A k \in S : k + 1 \in S
  BY <1>3, <1>4
<1> HIDE DEF S
<1>5. S = Nat
  BY <1>45, Induction
<1>6. \A k \in Nat : P(k)
  BY <1>5 DEF S
<1>7. \A k \in 0 .. Word : P(k) /\ k <= Word
  BY <1>0, <1>6
<1> QED
  BY <1>7 DEF P, I, d

\* Filling a word gives what is meant, and the carry for the next word of the row.
LEMMA FillIsMeant ==
  ASSUME NEW b, IsBlit(b), NEW p \in Nat, Plain(b, p) \subseteq All, b.fill,
         NEW fc \in BOOLEAN, fc <=> Inside(b, p, 0)
  PROVE  LET out == FillWord(Plain(b, p), b.ife, fc)
         IN  out.data = Meant(b, p) /\ out.fc \in BOOLEAN /\ (out.fc <=> Inside(b, p, Word))
<1> DEFINE d == Plain(b, p)
           out == FillWord(d, b.ife, fc)
<1>1. fc = Inside(b, p, 0)
  BY DEF Inside
<1>2. \A k \in 0 .. Word : Inside(b, p, k) <=> Carry(d, fc, k)
  BY <1>1, InsideIsCarry
<1>3. out = [data |-> {k \in All : Lit(d, b.ife, fc, k)}, fc |-> Carry(d, fc, Word)]
  BY FillWordIs, ZenonT(40) DEF IsBlit
<1>4. Meant(b, p) = {k \in All : IF b.ife THEN k \in d \/ Inside(b, p, k)
                                 ELSE (k \in d) # Inside(b, p, k)}
  BY DEF Meant
<1>5. Word \in 0 .. Word /\ \A k \in All : k \in 0 .. Word
  BY WordType DEF All
<1>6. \A k : Inside(b, p, k) \in BOOLEAN /\ Carry(d, fc, k) \in BOOLEAN
  BY DEF Inside, Carry
<1>7. out.data = {k \in All : Lit(d, b.ife, fc, k)} /\ out.fc = Carry(d, fc, Word)
  BY <1>3
<1> HIDE DEF d, out
<1>8. \A k \in All : Lit(d, b.ife, fc, k)
        <=> IF b.ife THEN k \in d \/ Inside(b, p, k) ELSE (k \in d) # Inside(b, p, k)
  BY <1>2, <1>5, <1>6 DEF Lit
<1> QED
  BY <1>2, <1>4, <1>5, <1>6, <1>7, <1>8 DEF out, d

\* The words of the first n that are drawn at address x.
Hits(b, n, x) == {q \in 0 .. n - 1 : Place(b, "d", q) = x}

\* The memory after the first n words.
MemAfter(b, n) ==
  [x \in 0 .. Cells - 1 |->
     IF "d" \in b.use /\ Hits(b, n, x) # {} THEN Meant(b, Max(Hits(b, n, x))) ELSE before.mem[x]]

\* The greatest of a set.
LEMMA MaxIs ==
  ASSUME NEW S \in SUBSET Int, NEW n \in S, \A m \in S : m <= n
  PROVE  Max(S) = n
<1> DEFINE M == CHOOSE x \in S : \A y \in S : x >= y
<1>1. \A y \in S : n >= y
  OBVIOUS
<1>2. M \in S /\ \A y \in S : M >= y
  BY <1>1
<1>3. M = n
  <2> HIDE DEF M
  <2>1. M \in Int /\ n \in Int /\ M >= n /\ M <= n
    BY <1>2
  <2> QED
    BY <2>1
<1>4. Max(S) = M
  BY DEF Max
<1> QED
  BY <1>3, <1>4

\* After all the words the memory is what it is meant to be.
LEMMA MemAll ==
  ASSUME NEW b
  PROVE  MemAfter(b, b.h * b.v) = MeantMemory(b)
<1>1. \A x : Hits(b, b.h * b.v, x) = {p \in Places(b) : Place(b, "d", p) = x}
  BY DEF Hits, Places
<1> QED
  BY <1>1 DEF MemAfter, MeantMemory

\* Before them it is as it was.
LEMMA MemFirst ==
  ASSUME NEW b, Typed(before)
  PROVE  MemAfter(b, -1) = before.mem /\ MemAfter(b, 0) = before.mem
<1>1. \A x : Hits(b, -1, x) = {} /\ Hits(b, 0, x) = {}
  BY DEF Hits
<1>2. before.mem = [x \in 0 .. Cells - 1 |-> before.mem[x]]
  BY DEF Typed
<1> QED
  BY <1>1, <1>2 DEF MemAfter

\* It stays so when D is off.
LEMMA MemOff ==
  ASSUME NEW b, Typed(before), "d" \notin b.use, NEW n
  PROVE  MemAfter(b, n) = before.mem
<1>2. before.mem = [x \in 0 .. Cells - 1 |-> before.mem[x]]
  BY DEF Typed
<1> QED
  BY <1>2 DEF MemAfter

\* The next word is drawn over what was there.
LEMMA MemNext ==
  ASSUME NEW b, "d" \in b.use, NEW n \in Nat
  PROVE  MemAfter(b, n + 1) = wput(MemAfter(b, n), Place(b, "d", n), Meant(b, n))
<1> DEFINE at == Place(b, "d", n)
           w == Meant(b, n)
           old == MemAfter(b, n)
           new == MemAfter(b, n + 1)
           m(q) == Meant(b, q)
<1>1. ASSUME NEW x, x # at
      PROVE  Hits(b, n + 1, x) = Hits(b, n, x)
  BY <1>1 DEF Hits
<1>2. Hits(b, n + 1, at) # {} /\ Max(Hits(b, n + 1, at)) = n
  <2>1. Hits(b, n + 1, at) \in SUBSET Int /\ n \in Hits(b, n + 1, at)
    BY DEF Hits
  <2>2. \A q \in Hits(b, n + 1, at) : q <= n
    BY DEF Hits
  <2> QED
    BY <2>1, <2>2, MaxIs
<1> HIDE DEF at, m
<1>3. new = [x \in 0 .. Cells - 1 |-> IF x = at THEN w ELSE old[x]]
  <2>1. ASSUME NEW x \in 0 .. Cells - 1
        PROVE  (IF "d" \in b.use /\ Hits(b, n + 1, x) # {} THEN m(Max(Hits(b, n + 1, x))) ELSE before.mem[x])
                 = IF x = at THEN m(n)
                   ELSE IF "d" \in b.use /\ Hits(b, n, x) # {} THEN m(Max(Hits(b, n, x))) ELSE before.mem[x]
    <3>1. CASE x = at
      BY <1>2, <3>1
    <3>2. CASE x # at
      BY <1>1, <3>2
    <3> QED
      BY <3>1, <3>2
  <2> QED
    BY <2>1 DEF MemAfter, m
<1>4. wput(old, at, w) = [x \in 0 .. Cells - 1 |-> IF x = at THEN w ELSE old[x]]
  BY DEF wput, MemAfter
<1> QED
  BY <1>3, <1>4 DEF at

\* What is read for a word has not been drawn yet, but for the word before.
LEMMA MemRead ==
  ASSUME NEW b, IsBlit(b), b.kind = "block", InOrder(b), NEW ch \in b.use, ch # "d", NEW p \in Places(b)
  PROVE  MemAfter(b, p - 1)[Place(b, ch, p)] = before.mem[Place(b, ch, p)]
<1> DEFINE x == Place(b, ch, p)
<1>1. x \in 0 .. Cells - 1
  BY DEF IsBlit, Fits
<1>2. CASE "d" \in b.use
  <2>1. \A q \in Places(b) : q <= p - 2 => x # Place(b, "d", q)
    BY <1>2 DEF InOrder
  <2>2. \A q \in 0 .. (p - 1) - 1 : q \in Places(b) /\ q <= p - 2
    BY BlitSize DEF Places
  <2>3. Hits(b, p - 1, x) = {}
    BY <2>1, <2>2 DEF Hits
  <2> HIDE DEF x
  <2> QED
    BY <1>1, <2>3 DEF MemAfter, x
<1>3. CASE "d" \notin b.use
  <2> HIDE DEF x
  <2> QED
    BY <1>1, <1>3 DEF MemAfter, x
<1> QED
  BY <1>2, <1>3

\* The blitter, the first p words drawn, the last of them not yet written.
DrawnTo(s, b, p) ==
  /\ s.prev.a = LastA(b, p) /\ ("b" \in b.use => s.prev.b = LastB(b, p))
  /\ "b" \notin b.use => s.bhold = before.bhold
  /\ \A ch \in Sources \ b.use : s.dat[ch] = before.dat[ch]
  /\ b.fill /\ p % b.h # 0 => (s.fc <=> Inside(b, p, 0))
  /\ s.zero <=> \A q \in 0 .. p - 1 : Meant(b, q) = {}
  /\ s.mem = MemAfter(b, p - 1)
  /\ s.dstp = IF "d" \in b.use /\ p # 0 THEN Place(b, "d", p - 1) ELSE 0
  /\ p # 0 => s.dat["d"] = Meant(b, p - 1)

\* What is read for a word is what it is meant to be made from.
LEMMA GotIs ==
  ASSUME NEW s, NEW b, IsBlit(b), b.kind = "block", InOrder(b), NoZero(b), NEW p \in Places(b),
         AtIs(s, b, p, Channels), DrawnTo(s, b, p), NEW ch \in Sources
  PROVE  Got(s, Channels, ch) = InWord(b, ch, p) /\ (On(s, Channels, ch) <=> ch \in b.use)
<1>1. ch \in Channels /\ ch # "d"
  BY DEF Channels, Sources
<1>2. CASE ch \in b.use
  <2>1. s.at[ch] = Place(b, ch, p)
    BY <1>1, <1>2 DEF AtIs, AtOk
  <2>2. Place(b, ch, p) # 0
    BY <1>2 DEF NoZero
  <2>3. On(s, Channels, ch)
    BY <1>1, <2>1, <2>2 DEF On
  <2>4. s.mem[Place(b, ch, p)] = before.mem[Place(b, ch, p)]
    BY <1>1, <1>2, MemRead DEF DrawnTo
  <2> QED
    BY <1>2, <2>1, <2>3, <2>4 DEF Got, wget, InWord
<1>3. CASE ch \notin b.use
  <2>1. s.at[ch] = 0
    BY <1>1, <1>3 DEF AtIs
  <2>2. ~On(s, Channels, ch)
    BY <2>1 DEF On
  <2>3. s.dat[ch] = before.dat[ch]
    BY <1>3 DEF DrawnTo
  <2> QED
    BY <1>3, <2>2, <2>3 DEF Got, InWord
<1> QED
  BY <1>2, <1>3

\* What is meant is a word.
LEMMA PlainType ==
  ASSUME NEW b, NEW p
  PROVE  Plain(b, p) \subseteq All /\ Meant(b, p) \subseteq All
BY DEF Plain, Meant

\* A word is drawn as it is meant to be, with the last word of A that the next one needs.
LEMMA WordIsMeant ==
  ASSUME Typed(before), NEW s, Typed(s), NEW b, IsBlit(b), b.kind = "block", InOrder(b), NoZero(b),
         NEW p \in Places(b), AtIs(s, b, p, Channels), DrawnTo(s, b, p),
         b.fill => (s.fc <=> Inside(b, p, 0))
  PROVE  \E out : /\ DrawWord(s, b, p % b.h) =
                       Put(s, b, Channels, Masked(b, p), BHold(s, Channels, b), out)
                  /\ out.data = Meant(b, p)
                  /\ b.fill => (out.fc <=> Inside(b, p, Word))
<1> DEFINE a == Got(s, Channels, "a") \cap blit_masktable(b, p % b.h)
           raw == blit_func(Shifted(b, s.prev.a, a, b.ashift), BHold(s, Channels, b),
                            Got(s, Channels, "c"), b.mt, All)
           out == IF b.fill THEN FillWord(raw, b.ife, s.fc) ELSE [data |-> raw, fc |-> s.fc]
<1>1. DrawWord(s, b, p % b.h) = Put(s, b, Channels, a, BHold(s, Channels, b), out)
  BY DEF DrawWord
<1>2. /\ Got(s, Channels, "a") = InWord(b, "a", p)
      /\ Got(s, Channels, "b") = InWord(b, "b", p)
      /\ Got(s, Channels, "c") = InWord(b, "c", p)
      /\ On(s, Channels, "b") <=> "b" \in b.use
  BY GotIs DEF Sources
<1>3. a = Masked(b, p)
  BY <1>2, MaskedIs
<1>4. BHold(s, Channels, b) = Held(b, p)
  BY <1>2 DEF BHold, Held, DrawnTo
<1>5. s.prev.a = LastA(b, p)
  BY DEF DrawnTo
<1>6. raw = Plain(b, p)
  BY <1>2, <1>3, <1>4, <1>5, PlainIs
<1> HIDE DEF raw, a
<1>7. out.data = Meant(b, p) /\ (b.fill => (out.fc <=> Inside(b, p, Word)))
  <2>1. CASE b.fill
    <3>1. p \in Nat /\ s.fc \in BOOLEAN
      BY BlitSize DEF Places, Typed
    <3>2. LET o == FillWord(Plain(b, p), b.ife, s.fc)
          IN  o.data = Meant(b, p) /\ o.fc \in BOOLEAN /\ (o.fc <=> Inside(b, p, Word))
      BY <2>1, <3>1, PlainType, FillIsMeant
    <3> QED
      BY <1>6, <2>1, <3>2
  <2>2. CASE ~b.fill
    BY <1>6, <2>2 DEF Meant
  <2> QED
    BY <2>1, <2>2
<1> HIDE DEF out
<1> QED
  BY <1>1, <1>3, <1>7

\* The words drawn so far, when one more has been.
LEMMA PutDrawn ==
  ASSUME Typed(before), NEW s, Machine(s), Typed(s), NEW b, IsBlit(b), b.kind = "block",
         InOrder(b), NoZero(b), NEW p \in Places(b), AtIs(s, b, p, Channels), DrawnTo(s, b, p),
         NEW out, out.data = Meant(b, p), b.fill => (out.fc <=> Inside(b, p, Word))
  PROVE  DrawnTo(Put(s, b, Channels, Masked(b, p), BHold(s, Channels, b), out), b, p + 1)
<1> DEFINE u == Put(s, b, Channels, Masked(b, p), BHold(s, Channels, b), out)
<1>1. /\ u.dat = PutDat(s, Channels, out.data) /\ u.prev = PutPrev(s, Channels, Masked(b, p))
      /\ u.bhold = BHold(s, Channels, b)
      /\ u.mem = IF s.dstp # 0 THEN wput(s.mem, s.dstp, s.dat["d"]) ELSE s.mem
      /\ u.zero = (s.zero /\ out.data = {})
      /\ u.fc = out.fc
      /\ u.dstp = IF s.at["d"] # 0 THEN s.at["d"] ELSE s.dstp
  BY PutFields
<1> HIDE DEF u
<1>2. p \in Nat /\ p + 1 # 0 /\ (p + 1) - 1 = p
  BY BlitSize DEF Places
<1>3. \A ch \in Sources : Got(s, Channels, ch) = InWord(b, ch, p) /\ (On(s, Channels, ch) <=> ch \in b.use)
  BY GotIs
<1>4. u.prev.a = LastA(b, p + 1) /\ ("b" \in b.use => u.prev.b = LastB(b, p + 1))
  BY <1>1, <1>2, <1>3 DEF PutPrev, LastA, LastB, Sources
<1>5. "b" \notin b.use => u.bhold = before.bhold
  BY <1>1, <1>3 DEF BHold, DrawnTo, Sources
<1>6. \A ch \in Sources \ b.use : u.dat[ch] = before.dat[ch]
  <2>1. \A ch \in Sources : u.dat[ch] = InWord(b, ch, p)
    BY <1>1, <1>3 DEF PutDat, Sources
  <2> QED
    BY <2>1 DEF InWord
<1>7. b.fill /\ (p + 1) % b.h # 0 => (u.fc <=> Inside(b, p + 1, 0))
  <2> DEFINE h == b.h
  <2>1. h \in Nat \ {0} /\ p \in Int
    BY <1>2 DEF IsBlit
  <2> HIDE DEF h
  <2>2. p % h = h - 1 => (p + 1) % h = 0
    BY <2>1, NextPixel
  <2>3. (p + 1) % b.h # 0 => p % b.h # b.h - 1
    BY <2>2 DEF h
  <2> QED
    BY <1>1, <1>2, <2>3, InsideRow
<1>8. u.zero <=> \A q \in 0 .. (p + 1) - 1 : Meant(b, q) = {}
  <2>1. \A q \in 0 .. (p + 1) - 1 : q \in 0 .. p - 1 \/ q = p
    BY <1>2
  <2>2. p \in 0 .. (p + 1) - 1 /\ \A q \in 0 .. p - 1 : q \in 0 .. (p + 1) - 1
    BY <1>2
  <2>3. u.zero <=> s.zero /\ Meant(b, p) = {}
    BY <1>1
  <2> QED
    BY <2>1, <2>2, <2>3 DEF DrawnTo
<1>9. CASE "d" \in b.use
  <2>1. s.at["d"] = Place(b, "d", p) /\ Place(b, "d", p) # 0
    BY <1>9 DEF AtIs, AtOk, NoZero, Channels
  <2>2. u.dstp = Place(b, "d", p) /\ u.dat["d"] = Meant(b, p)
    BY <1>1, <2>1 DEF PutDat
  <2>3. u.mem = MemAfter(b, p)
    <3>1. CASE p = 0
      BY <1>1, <3>1, MemFirst DEF DrawnTo
    <3>2. CASE p # 0
      <4>1. p - 1 \in Nat /\ (p - 1) + 1 = p /\ p - 1 \in Places(b)
        BY <1>2, <3>2, Before
      <4>2. s.dstp = Place(b, "d", p - 1) /\ s.dstp # 0
        BY <1>9, <3>2, <4>1 DEF DrawnTo, NoZero
      <4>3. MemAfter(b, p) = wput(MemAfter(b, p - 1), Place(b, "d", p - 1), Meant(b, p - 1))
        <5> DEFINE n == p - 1
        <5>1. n \in Nat /\ n + 1 = p
          BY <4>1
        <5> HIDE DEF n
        <5>2. MemAfter(b, n + 1) = wput(MemAfter(b, n), Place(b, "d", n), Meant(b, n))
          BY <1>9, <5>1, MemNext
        <5> QED
          BY <5>1, <5>2 DEF n
      <4> QED
        BY <1>1, <3>2, <4>2, <4>3 DEF DrawnTo
    <3> QED
      BY <3>1, <3>2
  <2>4. DrawnTo(u, b, p + 1)
    BY <1>2, <1>4, <1>5, <1>6, <1>7, <1>8, <1>9, <2>2, <2>3 DEF DrawnTo
  <2> QED
    BY <2>4 DEF u
<1>10. CASE "d" \notin b.use
  <2>1. s.at["d"] = 0 /\ s.dstp = 0
    BY <1>10 DEF AtIs, DrawnTo, Channels
  <2>2. u.mem = MemAfter(b, p) /\ u.dstp = 0
    BY <1>1, <1>10, <2>1, MemOff DEF DrawnTo
  <2>3. u.dat["d"] = Meant(b, p)
    BY <1>1 DEF PutDat
  <2>4. DrawnTo(u, b, p + 1)
    BY <1>2, <1>4, <1>5, <1>6, <1>7, <1>8, <1>10, <2>2, <2>3 DEF DrawnTo
  <2> QED
    BY <2>4 DEF u
<1> QED
  BY <1>9, <1>10

\* One more word of the block, with the carry and the modulos.
LEMMA BlockWordDrawn ==
  ASSUME Typed(before), NEW s, Machine(s), Typed(s), NEW b, IsBlit(b), b.kind = "block",
         InOrder(b), NoZero(b), NEW p \in Places(b), AtIs(s, b, p, Channels), DrawnTo(s, b, p)
  PROVE  DrawnTo(BlockWord(FALSE, s, b, p), b, p + 1)
<1> DEFINE i == p % b.h
           t == [s EXCEPT !.fc = IF i = 0 THEN b.fci ELSE s.fc]
           u == DrawWord(t, b, i)
           v == Modulos(u, b)
<1>1. /\ Machine(t) /\ t.fc = IF i = 0 THEN b.fci ELSE s.fc
      /\ \A f \in Fields \ {"fc"} : t[f] = s[f]
  BY FcSet
<1>2. BlockWord(FALSE, s, b, p) = IF i = b.h - 1 THEN v ELSE u
  BY DEF BlockWord, EndRow
<1> HIDE DEF t
<1>3. Typed(t) /\ AtIs(t, b, p, Channels)
  <2>1. Typed(t)
    BY <1>1 DEF Typed, Fields, IsBlit
  <2>2. t.at = s.at
    BY <1>1 DEF Fields
  <2> QED
    BY <2>1, <2>2 DEF AtIs
<1>4. b.fill => (t.fc <=> Inside(b, p, 0))
  <2>1. p \in Nat
    BY BlitSize DEF Places
  <2>2. i = 0 => (Inside(b, p, 0) <=> b.fci)
    BY <2>1, InsideFirst
  <2> QED
    BY <1>1, <2>2 DEF DrawnTo
<1>5. DrawnTo(t, b, p)
  BY <1>1, <1>4 DEF DrawnTo, Fields
<1>6. PICK out : /\ u = Put(t, b, Channels, Masked(b, p), BHold(t, Channels, b), out)
                 /\ out.data = Meant(b, p)
                 /\ b.fill => (out.fc <=> Inside(b, p, Word))
  BY <1>3, <1>4, <1>5, WordIsMeant
<1> HIDE DEF u, i
<1>7. DrawnTo(u, b, p + 1) /\ Machine(u)
  <2>1. DrawnTo(u, b, p + 1)
    BY <1>1, <1>3, <1>5, <1>6, PutDrawn
  <2>2. Machine(u)
    BY <1>1, <1>6, PutFields
  <2> QED
    BY <2>1, <2>2
<1>8. \A f \in Fields \ {"at"} : v[f] = u[f]
  BY <1>7, ModulosFields
<1> HIDE DEF v
<1>9. DrawnTo(v, b, p + 1)
  BY <1>7, <1>8 DEF DrawnTo, Fields
<1> QED
  BY <1>2, <1>7, <1>9

\* The registers when a block begins: nothing has been read or drawn.
Loaded(s, b) == Fresh(s, b) /\ s.prev = [a |-> {}, b |-> {}] /\ s.dstp = 0

\* So they are when its registers have been written.
LEMMA LoadLoaded ==
  ASSUME NEW s, Machine(s), Typed(s), NEW b, IsBlit(b)
  PROVE  Loaded(Load(s, b), b)
<1>1. Fresh(Load(s, b), b)
  BY LoadFresh
<1>2. Load(s, b).prev = [a |-> {}, b |-> {}] /\ Load(s, b).dstp = 0
  BY DEF Load, Machine, Fields
<1> QED
  BY <1>1, <1>2 DEF Loaded

\* At first no word is drawn.
LEMMA StartDrawn ==
  ASSUME NEW b, IsBlit(b), Loaded(before, b)
  PROVE  DrawnTo(Start(before, b), b, 0)
<1> DEFINE t == Start(before, b)
<1>1. Machine(before) /\ Typed(before)
  BY DEF Loaded, Fresh
<1>2. \A f \in Fields \ {"at", "pt", "zero"} : t[f] = before[f]
  BY <1>1, StartFields
<1>3. t.zero
  BY <1>1 DEF Start, Machine, Fields
<1> HIDE DEF t
<1>4. 0 % b.h = 0
  <2>1. b.h \in Nat \ {0}
    BY DEF IsBlit
  <2> QED
    BY <2>1
<1>5. /\ t.prev.a = {} /\ t.prev.b = {} /\ t.bhold = before.bhold /\ t.dat = before.dat
      /\ t.mem = before.mem /\ t.dstp = 0
  BY <1>2 DEF Fields, Loaded
<1>6. t.mem = MemAfter(b, 0 - 1)
  <2>1. 0 - 1 = -1
    OBVIOUS
  <2> QED
    BY <1>1, <1>5, <2>1, MemFirst
<1>7. \A q \in 0 .. 0 - 1 : Meant(b, q) = {}
  OBVIOUS
<1>8. DrawnTo(t, b, 0)
  BY <1>3, <1>4, <1>5, <1>6, <1>7 DEF DrawnTo, LastA, LastB
<1> QED
  BY <1>8 DEF t

\* All of them are, by induction.
LEMMA WordsDrawn ==
  ASSUME NEW b, IsBlit(b), b.kind = "block", InOrder(b), NoZero(b), Loaded(before, b)
  PROVE  \A p \in 0 .. b.h * b.v : DrawnTo(Words(FALSE, before, b)[p], b, p)
<1> DEFINE n == b.h * b.v
           t(p) == Words(FALSE, before, b)[p]
           P(p) == p \in 0 .. n => DrawnTo(t(p), b, p)
           S == {p \in Nat : P(p)}
<1>0. n \in Nat /\ Fresh(before, b) /\ Typed(before)
  BY BlitSize DEF Loaded, Fresh
<1>1. t(0) = Start(before, b) /\ \A p \in 0 .. n - 1 : t(p + 1) = BlockWord(FALSE, t(p), b, p)
  BY <1>0, WordsAre
<1>2. \A p \in 0 .. n : Machine(t(p)) /\ Typed(t(p)) /\ AtIs(t(p), b, p, Uses(FALSE, b) \cup {"d"})
  BY <1>0, WordsTyped
<1>3. Uses(FALSE, b) \cup {"d"} = Channels
  BY DEF Uses, Channels
<1> HIDE DEF t
<1>4. P(0)
  BY <1>1, StartDrawn
<1>5. ASSUME NEW p \in Nat, P(p)
      PROVE  P(p + 1)
  <2> SUFFICES ASSUME p + 1 \in 0 .. n PROVE DrawnTo(t(p + 1), b, p + 1)
    OBVIOUS
  <2>1. p \in 0 .. n /\ p \in 0 .. n - 1
    BY <1>0
  <2>2. p \in Places(b)
    BY <2>1 DEF Places
  <2>3. Machine(t(p)) /\ Typed(t(p)) /\ AtIs(t(p), b, p, Channels) /\ DrawnTo(t(p), b, p)
    BY <1>2, <1>3, <1>5, <2>1
  <2>4. t(p + 1) = BlockWord(FALSE, t(p), b, p)
    BY <1>1, <2>1
  <2> QED
    BY <1>0, <2>2, <2>3, <2>4, BlockWordDrawn
<1> HIDE DEF P
<1>6. S \in SUBSET Nat /\ 0 \in S /\ \A p \in S : p + 1 \in S
  BY <1>4, <1>5
<1> HIDE DEF S
<1>7. S = Nat
  BY <1>6, Induction
<1>8. \A p \in Nat : P(p)
  BY <1>7 DEF S
<1>9. \A p \in 0 .. n : p \in Nat
  BY <1>0
<1> QED
  BY <1>8, <1>9 DEF P, t

\* The general loop draws what is meant.
LEMMA GeneralIsMeant ==
  ASSUME NEW b, IsBlit(b), b.kind = "block", InOrder(b), NoZero(b), Loaded(before, b)
  PROVE  /\ General(before, b).mem = MeantMemory(b)
         /\ General(before, b).zero <=> \A p \in Places(b) : Meant(b, p) = {}
<1> DEFINE n == b.h * b.v
           W == Words(FALSE, before, b)[n]
           t == LastWrite(W)
<1>0. n \in Nat /\ n \in 0 .. n /\ n # 0 /\ Fresh(before, b) /\ Typed(before)
  <2>1. n \in Nat
    BY BlitSize
  <2>2. n # 0
    <3> DEFINE h == b.h
               v == b.v
    <3>1. h \in Nat \ {0} /\ v \in Nat \ {0}
      BY DEF IsBlit
    <3> HIDE DEF h, v
    <3>2. h * v # 0
      BY <3>1
    <3> QED
      BY <3>2 DEF h, v
  <2> HIDE DEF n
  <2> QED
    BY <2>1, <2>2 DEF Loaded, Fresh
<1>1. DrawnTo(W, b, n) /\ Machine(W)
  BY <1>0, WordsDrawn, WordsTyped
<1>2. General(before, b) = t
  BY DEF General, blitter_dofast, blitter_dofast_desc
<1>3. MemAfter(b, n) = MeantMemory(b)
  BY MemAll
<1>4. Places(b) = 0 .. n - 1
  BY DEF Places
<1> HIDE DEF n, W
<1>5. /\ t.mem = IF W.dstp # 0 THEN wput(W.mem, W.dstp, W.dat["d"]) ELSE W.mem
      /\ \A f \in Fields \ {"mem"} : t[f] = W[f]
  BY <1>1, LastWriteFields
<1> HIDE DEF t
<1>6. t.zero <=> \A p \in Places(b) : Meant(b, p) = {}
  BY <1>1, <1>4, <1>5 DEF DrawnTo, Fields
<1>7. t.mem = MeantMemory(b)
  <2>1. CASE "d" \in b.use
    <3> DEFINE m == n - 1
    <3>1. m \in Nat /\ m + 1 = n /\ m \in Places(b)
      BY <1>0, <1>4
    <3>2. W.dstp = Place(b, "d", m) /\ W.dat["d"] = Meant(b, m) /\ W.mem = MemAfter(b, m)
      BY <1>0, <1>1, <2>1 DEF DrawnTo
    <3> HIDE DEF m
    <3>3. Place(b, "d", m) # 0
      BY <2>1, <3>1 DEF NoZero
    <3>4. MemAfter(b, m + 1) = wput(MemAfter(b, m), Place(b, "d", m), Meant(b, m))
      BY <2>1, <3>1, MemNext
    <3> QED
      BY <1>3, <1>5, <3>1, <3>2, <3>3, <3>4
  <2>2. CASE "d" \notin b.use
    <3>1. W.dstp = 0 /\ W.mem = MemAfter(b, n - 1)
      BY <1>1, <2>2 DEF DrawnTo
    <3>2. MemAfter(b, n - 1) = MemAfter(b, n)
      BY <1>0, <2>2, MemOff
    <3> QED
      BY <1>3, <1>5, <3>1, <3>2
  <2> QED
    BY <2>1, <2>2
<1> QED
  BY <1>2, <1>6, <1>7

\* The last blit was drawn by its own function from the registers it found.
DrawnFrom ==
  last = Nothing \/ (IsBlit(last) /\ Loaded(before, last) /\ code = actually_do_blit(before, last))

\* What was drawn from those registers is meant.
LEMMA DrawnIsMeant == DrawTyped /\ PointersMeet /\ DrawnFrom => BlocksAreMeant
<1> SUFFICES ASSUME DrawTyped, PointersMeet, DrawnFrom,
                    last.kind = "block", InOrder(last), NoZero(last)
             PROVE  /\ code.mem = MeantMemory(last)
                    /\ code.zero <=> \A p \in Places(last) : Meant(last, p) = {}
  BY TypedIsType DEF BlocksAreMeant
<1>1. last # Nothing
  BY DEF Nothing
<1>2. IsBlit(last) /\ Loaded(before, last) /\ code = actually_do_blit(before, last)
  BY <1>1 DEF DrawnFrom
<1> DEFINE g == General(before, last)
<1>3. g.mem = MeantMemory(last) /\ (g.zero <=> \A p \in Places(last) : Meant(last, p) = {})
  BY <1>2, GeneralIsMeant
<1>4. CASE Special(last)
  <2>1. Machine(before) /\ last.h * last.v \in Nat
    BY <1>2, BlitSize DEF Loaded, Fresh
  <2>2. Alike(code, g, last)
    BY <1>2, <1>4, <2>1, BlocksAlike
  <2>3. code.mem = g.mem /\ code.zero = g.zero
    BY <2>2 DEF Alike
  <2> QED
    BY <1>3, <2>3
<1>5. CASE ~Special(last)
  <2>1. code = g
    BY <1>2, <1>5 DEF actually_do_blit
  <2> QED
    BY <1>3, <2>1
<1> QED
  BY <1>4, <1>5

\* A blit is drawn from the registers it finds.
LEMMA DrawnFromStep == DrawTyped /\ DrawnFrom /\ [DrawNext]_drawVars => DrawnFrom'
<1> SUFFICES ASSUME DrawTyped, DrawnFrom, [DrawNext]_drawVars PROVE DrawnFrom'
  OBVIOUS
<1>1. CASE UNCHANGED drawVars
  BY <1>1 DEF drawVars, DrawnFrom
<1>2. CASE DrawNext
  <2>1. PICK b \in Blits[blits + 1] : Blit(b) /\ blits < Len(Blits)
    BY <1>2 DEF DrawNext
  <2>2. IsBlit(b)
    BY <2>1, BlitsAssumption DEF DrawTyped
  <2>3. Loaded(Load(code, b), b)
    BY <2>2, LoadLoaded DEF DrawTyped, SameMachines
  <2>4. last' = b /\ before' = Load(code, b) /\ code' = actually_do_blit(Load(code, b), b)
    BY <2>1 DEF Blit
  <2> QED
    BY <2>2, <2>3, <2>4 DEF DrawnFrom
<1> QED
  BY <1>1, <1>2

\* A block draws, bit for bit, what its registers say, in either direction, with shifts,
\* masks and filling, and BZERO says whether any bit was drawn (blitter_dofast and
\* blitter_dofast_desc), as long as it reads no word drawn two words or more ago.
THEOREM BlocksAreMeantHolds == DrawSpec => []BlocksAreMeant
<1>1. DrawInit => DrawnFrom
  BY DEF DrawInit, DrawnFrom
<1> QED
  BY <1>1, TypedInit, TypedStep, MeetInit, MeetStep, DrawnFromStep, DrawnIsMeant, PTL DEF DrawSpec

-----------------------------------------------------------------------------
(***************************************************************************)
(* The true line. The error has a closed form, and the sometimes steps are *)
(* made exactly where the true line, rounded, comes to the next row. No    *)
(* two dots are one pixel, and each is drawn from what the dots before it  *)
(* left.                                                                   *)
(***************************************************************************)

\* Division of a number a little further on.
LEMMA Further ==
  ASSUME NEW u \in Int, NEW d \in Nat \ {0}, NEW e \in 0 .. d
  PROVE  /\ (u % d) + e < d => (u + e) \div d = u \div d /\ (u + e) % d = (u % d) + e
         /\ (u % d) + e >= d => (u + e) \div d = (u \div d) + 1 /\ (u + e) % d = (u % d) + e - d
<1> DEFINE q == u \div d
           r == u % d
<1>1. q \in Int /\ r \in 0 .. d - 1 /\ u = q * d + r
  OBVIOUS
<1>2. q * d \in Int /\ (q + 1) * d = q * d + d
  BY <1>1
<1> HIDE DEF q, r
<1>3. CASE r + e < d
  <2>1. r + e \in 0 .. d - 1 /\ u + e = q * d + (r + e)
    BY <1>1, <1>2, <1>3
  <2>2. Within(u + e, d, q, r + e)
    BY <1>1, <2>1, WithinWord
  <2> QED
    BY <1>3, <2>2 DEF Within, q, r
<1>4. CASE r + e >= d
  <2>1. r + e - d \in 0 .. d - 1 /\ u + e = (q + 1) * d + (r + e - d) /\ q + 1 \in Int
    BY <1>1, <1>2, <1>4
  <2>2. Within(u + e, d, q + 1, r + e - d)
    BY <1>1, <2>1, WithinWord
  <2> QED
    BY <1>4, <2>2 DEF Within, q, r
<1> QED
  BY <1>1, <1>3, <1>4 DEF r

\* How far the next dot is past the middle of two rows, in the error's units.
ErrorAt(b, n) == 2 * (2 * b.dy + ((2 * n * b.dy + b.dx) % (2 * b.dx)) - 2 * b.dx)

\* The true line comes to the next row exactly when the error is not negative.
LEMMA MinorNext ==
  ASSUME NEW b, b.dx \in Nat \ {0}, b.dy \in 0 .. b.dx, NEW n \in Nat
  PROVE  /\ Minor(b, n) \in Int /\ ErrorAt(b, n) \in Int
         /\ ErrorAt(b, n) < 0 => Minor(b, n + 1) = Minor(b, n) /\ ErrorAt(b, n + 1) = ErrorAt(b, n) + 4 * b.dy
         /\ ErrorAt(b, n) >= 0 => /\ Minor(b, n + 1) = Minor(b, n) + 1
                                  /\ ErrorAt(b, n + 1) = ErrorAt(b, n) + 4 * (b.dy - b.dx)
<1> DEFINE dx == b.dx
           dy == b.dy
           u == 2 * n * dy + dx
           v == 2 * (n + 1) * dy + dx
           d == 2 * dx
           e == 2 * dy
<1>1. u \in Int /\ v = u + e /\ d \in Nat \ {0} /\ e \in 0 .. d /\ dx \in Int /\ dy \in Int
  <2> HIDE DEF dx, dy
  <2>1. dx \in Nat \ {0} /\ dy \in 0 .. dx
    BY DEF dx, dy
  <2> QED
    BY <2>1
<1>2. /\ Minor(b, n) = u \div d /\ Minor(b, n + 1) = v \div d
      /\ ErrorAt(b, n) = 2 * (e + (u % d) - d) /\ ErrorAt(b, n + 1) = 2 * (e + (v % d) - d)
  BY DEF Minor, ErrorAt
<1>3. 4 * dy = 2 * e /\ 4 * (dy - dx) = 2 * e - 2 * d
  <2> HIDE DEF dx, dy
  <2> QED
    BY <1>1
<1> HIDE DEF u, v, d, e
<1> DEFINE q == u \div d
           r == u % d
           q2 == v \div d
           r2 == v % d
<1>4. q \in Int /\ r \in Int
  BY <1>1
<1>5. /\ r + e < d => q2 = q /\ r2 = r + e
      /\ r + e >= d => q2 = q + 1 /\ r2 = r + e - d
  BY <1>1, Further
<1>6. Minor(b, n) = q /\ Minor(b, n + 1) = q2 /\ ErrorAt(b, n) = 2 * (e + r - d) /\ ErrorAt(b, n + 1) = 2 * (e + r2 - d)
  BY <1>2
<1> HIDE DEF q, r, q2, r2
<1>7. /\ ErrorAt(b, n) < 0 => r + e < d
      /\ ErrorAt(b, n) >= 0 => r + e >= d
  BY <1>1, <1>4, <1>6
<1>8. d \in Int /\ e \in Int
  BY <1>1
<1> HIDE DEF dx, dy
<1>9. /\ Minor(b, n) \in Int /\ ErrorAt(b, n) \in Int
      /\ ErrorAt(b, n) < 0 => Minor(b, n + 1) = Minor(b, n) /\ ErrorAt(b, n + 1) = ErrorAt(b, n) + 4 * dy
      /\ ErrorAt(b, n) >= 0 => /\ Minor(b, n + 1) = Minor(b, n) + 1
                               /\ ErrorAt(b, n + 1) = ErrorAt(b, n) + 4 * (dy - dx)
  BY <1>3, <1>4, <1>5, <1>6, <1>7, <1>8
<1> QED
  BY <1>9 DEF dx, dy

\* The error a program begins with.
LEMMA MinorFirst ==
  ASSUME NEW b, b.dx \in Nat \ {0}, b.dy \in 0 .. b.dx
  PROVE  Minor(b, 0) = 0 /\ ErrorAt(b, 0) = 4 * b.dy - 2 * b.dx
<1> DEFINE dx == b.dx
           dy == b.dy
<1>1. dx \in Nat \ {0} /\ dy \in 0 .. dx
  OBVIOUS
<1>2. Minor(b, 0) = (2 * 0 * dy + dx) \div (2 * dx)
      /\ ErrorAt(b, 0) = 2 * (2 * dy + ((2 * 0 * dy + dx) % (2 * dx)) - 2 * dx)
  BY DEF Minor, ErrorAt
<1> HIDE DEF dx, dy
<1>3. 2 * 0 * dy + dx = dx
  BY <1>1
<1>4. dx \div (2 * dx) = 0 /\ dx % (2 * dx) = dx
  BY <1>1
<1>5. Minor(b, 0) = 0 /\ ErrorAt(b, 0) = 4 * dy - 2 * dx
  BY <1>1, <1>2, <1>3, <1>4
<1> QED
  BY <1>5 DEF dx, dy

\* Where dot n is, from where the line begins.
AcrossTo(b, n) == IF b.sud THEN Signed(n, b.aul) ELSE Signed(Minor(b, n), b.sul)
DownTo(b, n) == IF b.sud THEN Signed(Minor(b, n), b.sul) ELSE Signed(n, b.aul)

\* The steps made after dot n lead to dot n + 1.
LEMMA NextDot ==
  ASSUME NEW b, b.dx \in Nat \ {0}, b.dy \in 0 .. b.dx, NEW n \in Nat, NEW s, s.sign <=> ErrorAt(b, n) < 0
  PROVE  /\ AcrossTo(b, n) \in Int /\ DownTo(b, n) \in Int
         /\ AcrossTo(b, n + 1) = AcrossTo(b, n) + AcrossBy(s, b)
         /\ DownTo(b, n + 1) = DownTo(b, n) + DownBy(s, b)
         /\ DownTo(b, n + 1) = DownTo(b, n) <=> b.sud /\ s.sign
<1> DEFINE m == Minor(b, n)
           m2 == Minor(b, n + 1)
<1>1. m \in Int /\ (s.sign => m2 = m) /\ (~s.sign => m2 = m + 1)
  BY MinorNext
<1> HIDE DEF m, m2
<1>2. \A back : /\ Signed(n, back) \in Int /\ Signed(m, back) \in Int
                /\ Signed(n + 1, back) = Signed(n, back) + Back(back)
                /\ Signed(m + 1, back) = Signed(m, back) + Back(back)
                /\ Back(back) \in Int /\ Back(back) # 0
  BY <1>1 DEF Signed, Back
<1> QED
  BY <1>1, <1>2 DEF AcrossTo, DownTo, AcrossBy, DownBy, m, m2

\* What else a dot leaves: the error, its sign, whether the row has its dot, the texture.
LEMMA LineDotRest ==
  ASSUME NEW s, Machine(s), NEW b, NEW n, "a" \in b.use
  PROVE  LET t == LineDot(s, b, n)
         IN  /\ t.pt["a"] = s.pt["a"] + (IF s.sign THEN b.mod["b"] ELSE b.mod["a"])
             /\ t.sign = (t.pt["a"] < 0)
             /\ t.onedot <=> b.sud /\ s.sign
             /\ t.lineb = {k \in All : (k - 1) % Word \in s.lineb}
<1> DEFINE s0 == [s EXCEPT !.onedot = TRUE]
           s1 == Sometimes(s0, b)
           s2 == Always(s1, b)
           s3 == Error(s2, b)
           t == LineDot(s, b, n)
<1>1. Machine(s0) /\ s0.onedot /\ \A f \in Fields \ {"onedot"} : s0[f] = s[f]
  BY DEF Machine, Fields
<1>2. s0.sign = s.sign /\ s0.pt = s.pt /\ s0.lineb = s.lineb
  BY <1>1 DEF Fields
<1> HIDE DEF s0
<1>3. /\ Machine(s1) /\ s1.sign = s.sign /\ s1.pt["a"] = s.pt["a"] /\ s1.lineb = s.lineb
      /\ s1.onedot <=> ~(b.sud /\ ~s.sign)
  <2>1. CASE s.sign
    BY <2>1, <1>1, <1>2 DEF Sometimes
  <2>2. CASE ~s.sign /\ b.sud
    <3>1. s1 = MoveY(s0, b, b.sul)
      BY <2>2, <1>2 DEF Sometimes
    <3>2. ~MoveY(s0, b, b.sul).onedot
      BY <1>1 DEF MoveY, line_incy, line_decy, Machine, Fields
    <3>3. /\ Machine(s1) /\ \A f \in Fields \ {"onedot", "pt"} : s1[f] = s0[f]
          /\ \A ch \in Channels \ {"c"} : s1.pt[ch] = s0.pt[ch]
      BY <3>1, <1>1, MoveYFields
    <3> HIDE DEF s1
    <3> QED
      BY <2>2, <1>2, <3>1, <3>2, <3>3 DEF Fields, Channels
  <2>3. CASE ~s.sign /\ ~b.sud
    <3>1. s1 = MoveX(s0, b.sul)
      BY <2>3, <1>2 DEF Sometimes
    <3>2. /\ Machine(s1) /\ \A f \in Fields \ {"shift", "pt"} : s1[f] = s0[f]
          /\ \A ch \in Channels \ {"c"} : s1.pt[ch] = s0.pt[ch]
      BY <3>1, <1>1, MoveXFields
    <3> HIDE DEF s1
    <3> QED
      BY <2>3, <1>1, <1>2, <3>2 DEF Fields, Channels
  <2> QED
    BY <2>1, <2>2, <2>3
<1> HIDE DEF s1
<1>4. /\ Machine(s2) /\ s2.sign = s.sign /\ s2.pt["a"] = s.pt["a"] /\ s2.lineb = s.lineb
      /\ s2.onedot <=> b.sud /\ s.sign
  <2>1. CASE b.sud
    <3>1. s2 = MoveX(s1, b.aul)
      BY <2>1 DEF Always
    <3>2. /\ Machine(s2) /\ \A f \in Fields \ {"shift", "pt"} : s2[f] = s1[f]
          /\ \A ch \in Channels \ {"c"} : s2.pt[ch] = s1.pt[ch]
      BY <3>1, <1>3, MoveXFields
    <3> HIDE DEF s2
    <3> QED
      BY <2>1, <1>3, <3>2 DEF Fields, Channels
  <2>2. CASE ~b.sud
    <3>1. s2 = MoveY(s1, b, b.aul)
      BY <2>2 DEF Always
    <3>2. ~MoveY(s1, b, b.aul).onedot
      BY <1>3 DEF MoveY, line_incy, line_decy, Machine, Fields
    <3>3. /\ Machine(s2) /\ \A f \in Fields \ {"onedot", "pt"} : s2[f] = s1[f]
          /\ \A ch \in Channels \ {"c"} : s2.pt[ch] = s1.pt[ch]
      BY <3>1, <1>3, MoveYFields
    <3> HIDE DEF s2
    <3> QED
      BY <2>2, <1>3, <3>1, <3>2, <3>3 DEF Fields, Channels
  <2> QED
    BY <2>1, <2>2
<1> HIDE DEF s2
<1>5. Machine(s3) /\ \A f \in Fields \ {"pt"} : s3[f] = s2[f]
  BY <1>4, ErrorFields
<1>6. s3.pt["a"] = s.pt["a"] + (IF s.sign THEN b.mod["b"] ELSE b.mod["a"])
  <2>1. s3.pt = [s2.pt EXCEPT !["a"] = s2.pt["a"] + (IF s2.sign THEN b.mod.b ELSE b.mod.a)]
    BY <1>4 DEF Error, Machine, Fields
  <2> HIDE DEF s3
  <2> QED
    BY <1>4, <2>1 DEF Machine, Channels
<1>7. t = [s3 EXCEPT !.sign = s3.pt["a"] < 0,
                !.dat.c = DotC(s, b, n), !.dat.d = DotD(s, b, n),
                !.zero = @ /\ DotD(s, b, n) = {},
                !.mem = IF Writes(b, n) THEN wput(@, s.pt["d"], DotD(s, b, n)) ELSE @,
                !.pt.d = s3.pt["c"],
                !.lineb = {k \in All : (k - 1) % Word \in s.lineb}]
  BY DEF LineDot, DotC, DotA, DotD, s3, s2, s1, s0
<1> HIDE DEF s3, t
<1>8. t.sign = (s3.pt["a"] < 0)
  BY <1>5, <1>7 DEF Machine, Fields
<1>9. t.onedot = s3.onedot
  BY <1>5, <1>7 DEF Machine, Fields
<1>10. t.lineb = {k \in All : (k - 1) % Word \in s.lineb}
  BY <1>5, <1>7 DEF Machine, Fields
<1>11. t.pt = [s3.pt EXCEPT !["d"] = s3.pt["c"]]
  BY <1>5, <1>7 DEF Machine, Fields
<1>12. t.pt["a"] = s3.pt["a"]
  BY <1>5, <1>11 DEF Machine, Channels
<1>13. s3.onedot = s2.onedot
  BY <1>5 DEF Fields
<1> QED
  BY <1>4, <1>6, <1>8, <1>9, <1>10, <1>12, <1>13 DEF t

\* A distance in pixels from a word and a bit.
LEMMA SplitPixel ==
  ASSUME NEW x \in Int, NEW e \in Int, NEW w \in Nat \ {0}
  PROVE  /\ (x \div w) + (((x % w) + e) \div w) = (x + e) \div w
         /\ ((x % w) + e) % w = (x + e) % w
<1> DEFINE q == x \div w
           r == x % w
           p == (r + e) \div w
           t == (r + e) % w
<1>1. q \in Int /\ r \in Int /\ x = q * w + r
  OBVIOUS
<1> HIDE DEF q, r
<1>2. p \in Int /\ t \in 0 .. w - 1 /\ r + e = p * w + t
  <2> DEFINE z == r + e
  <2>1. z \in Int
    BY <1>1
  <2> HIDE DEF z
  <2>2. z \div w \in Int /\ z % w \in 0 .. w - 1 /\ z = (z \div w) * w + (z % w)
    BY <2>1
  <2> QED
    BY <2>2 DEF z
<1> HIDE DEF p, t
<1>3. (q + p) * w = q * w + p * w /\ q * w \in Int /\ p * w \in Int
  BY <1>1, <1>2
<1>4. x + e = (q + p) * w + t /\ q + p \in Int
  BY <1>1, <1>2, <1>3
<1>5. Within(x + e, w, q + p, t)
  BY <1>2, <1>4, WithinWord
<1> QED
  BY <1>5 DEF Within, p, t, q, r

\* A distance in rows and words.
LEMMA Rearranged ==
  ASSUME NEW y \in Int, NEW m \in Int, NEW q \in Int, NEW e \in Int, NEW z \in Int
  PROVE  (1 + y * m + q) + e * m + z = 1 + (y + e) * m + (q + z)
OBVIOUS

\* The numbers of a line.
LEMMA LineType ==
  ASSUME NEW b, IsBlit(b), DrawsLine(b)
  PROVE  /\ b.dx \in Nat \ {0} /\ b.dy \in 0 .. b.dx /\ b.x \in Int /\ b.y \in Int
         /\ b.mod["c"] \in Int /\ b.pt["c"] = 1 + b.y * b.mod["c"] + b.x \div Word
         /\ b.ashift = b.x % Word /\ Word \in Nat \ {0}
         /\ \A n \in 0 .. b.dx :
              /\ AcrossTo(b, n) \in Int /\ DownTo(b, n) \in Int
              /\ DotX(b, n) = b.x + AcrossTo(b, n) /\ DotY(b, n) = b.y + DownTo(b, n)
<1>1. /\ b.dx \in Nat \ {0} /\ b.dy \in 0 .. b.dx /\ b.x \in Int /\ b.y \in Int
      /\ b.pt["c"] = 1 + b.y * b.mod["c"] + b.x \div Word /\ b.ashift = b.x % Word
  BY DEF DrawsLine
<1>2. b.mod["c"] \in Int /\ Word \in Nat \ {0}
  BY WordType DEF IsBlit, Channels
<1>3. ASSUME NEW n \in 0 .. b.dx
      PROVE  /\ AcrossTo(b, n) \in Int /\ DownTo(b, n) \in Int
             /\ DotX(b, n) = b.x + AcrossTo(b, n) /\ DotY(b, n) = b.y + DownTo(b, n)
  <2>1. n \in Nat
    BY <1>1
  <2>2. Minor(b, n) \in Int
    BY <1>1, <2>1, MinorNext
  <2>3. AcrossTo(b, n) \in Int /\ DownTo(b, n) \in Int
    BY <2>1, <2>2 DEF AcrossTo, DownTo, Signed
  <2> QED
    BY <2>3 DEF DotX, DotY, AcrossTo, DownTo
<1> QED
  BY <1>1, <1>2, <1>3

\* The pointer of C and the shift of A are the dot's cell and bit.
LEMMA DotIsAt ==
  ASSUME NEW s, NEW b, IsBlit(b), DrawsLine(b), NEW n \in 0 .. b.dx,
         PlacedAt(s, b, AcrossTo(b, n), DownTo(b, n))
  PROVE  s.pt["c"] = DotCell(b, n) /\ s.shift = DotX(b, n) % Word
<1> DEFINE m == b.mod["c"]
           x == b.x
           y == b.y
           e == AcrossTo(b, n)
           f == DownTo(b, n)
           q == x \div Word
           z == ((x % Word) + e) \div Word
<1>1. /\ m \in Int /\ x \in Int /\ y \in Int /\ e \in Int /\ f \in Int /\ Word \in Nat \ {0}
      /\ b.pt["c"] = 1 + y * m + q /\ b.ashift = x % Word
      /\ DotX(b, n) = x + e /\ DotY(b, n) = y + f
  BY LineType
<1>2. s.pt["c"] = b.pt["c"] + f * m + z /\ s.shift = ((x % Word) + e) % Word
  BY <1>1 DEF PlacedAt
<1> HIDE DEF m, x, y, e, f
<1>3. q \in Int /\ z \in Int
  BY <1>1
<1>4. q + z = (x + e) \div Word /\ ((x % Word) + e) % Word = (x + e) % Word
  BY <1>1, SplitPixel
<1>5. DotCell(b, n) = 1 + (y + f) * m + ((x + e) \div Word)
  BY <1>1 DEF DotCell, m
<1> HIDE DEF q, z
<1>6. (1 + y * m + q) + f * m + z = 1 + (y + f) * m + (q + z)
  BY <1>1, <1>3, Rearranged
<1>7. s.pt["c"] = DotCell(b, n)
  BY <1>1, <1>2, <1>4, <1>5, <1>6
<1> QED
  BY <1>1, <1>2, <1>4, <1>7

\* No two dots of a line are the same pixel.
LEMMA DotsApart ==
  ASSUME NEW b, IsBlit(b), DrawsLine(b), NEW m \in 0 .. b.dx, NEW n \in 0 .. b.dx,
         DotCell(b, m) = DotCell(b, n), DotBit(b, m) = DotBit(b, n)
  PROVE  m = n
<1> DEFINE c == b.mod["c"]
           X(k) == DotX(b, k)
           Y(k) == DotY(b, k)
           q(k) == X(k) \div Word
           r(k) == X(k) % Word
           D == 0 .. b.dx
<1>1. c \in Int /\ Word \in Nat \ {0} /\ b.dx \in Nat
  BY LineType
<1>2. \A k \in D : X(k) \in Int /\ Y(k) \in Int
  BY LineType
<1>3. \A k \in D : X(k) \in 0 .. c * Word - 1
  BY DEF DrawsLine
<1>4. \A k \in D : DotCell(b, k) = 1 + Y(k) * c + q(k) /\ DotBit(b, k) = Word - 1 - r(k)
  BY DEF DotCell, DotBit
<1> HIDE DEF X, Y, c
<1>5. c \in Nat \ {0}
  <2>1. X(n) \in 0 .. c * Word - 1
    BY <1>3
  <2>2. c * Word > 0
    BY <1>1, <2>1
  <2> QED
    BY <1>1, <2>2
<1>6. ASSUME NEW k \in D
      PROVE  /\ q(k) \in 0 .. c - 1 /\ r(k) \in 0 .. Word - 1 /\ X(k) = q(k) * Word + r(k)
             /\ (Y(k) * c + q(k)) \div c = Y(k) /\ Y(k) * c \in Int
  <2> DEFINE x == X(k)
             y == Y(k)
  <2>1. x \in Int /\ y \in Int /\ x >= 0 /\ x < Word * c
    <3>1. X(k) \in 0 .. c * Word - 1 /\ c * Word = Word * c /\ c * Word \in Int
      BY <1>1, <1>3
    <3> QED
      BY <1>2, <3>1
  <2> HIDE DEF x, y
  <2>2. x \div Word < c
    BY <1>1, <1>5, <2>1, InRows
  <2>3. x \div Word \in Nat /\ x % Word \in 0 .. Word - 1 /\ x = (x \div Word) * Word + (x % Word)
    BY <1>1, <2>1
  <2>4. x \div Word \in 0 .. c - 1
    BY <1>1, <2>2, <2>3
  <2> DEFINE w == x \div Word
             t == y * c + w
  <2>5. w \in 0 .. c - 1 /\ y \in Int /\ c \in Nat \ {0}
    BY <1>5, <2>1, <2>4
  <2> HIDE DEF w
  <2>6. Within(t, c, y, w)
    BY <2>5, WithinWord
  <2>7. y * c \in Int
    BY <2>5
  <2> QED
    BY <2>3, <2>4, <2>6, <2>7 DEF x, y, Within, w
<1> DEFINE Q(k) == q(k)
           R(k) == r(k)
<1>7. /\ Q(m) \in 0 .. c - 1 /\ Q(n) \in 0 .. c - 1 /\ R(m) \in 0 .. Word - 1 /\ R(n) \in 0 .. Word - 1
      /\ X(m) = Q(m) * Word + R(m) /\ X(n) = Q(n) * Word + R(n)
      /\ (Y(m) * c + Q(m)) \div c = Y(m) /\ (Y(n) * c + Q(n)) \div c = Y(n)
      /\ Y(m) * c \in Int /\ Y(n) * c \in Int
  BY <1>6
<1>8. /\ 1 + Y(m) * c + Q(m) = 1 + Y(n) * c + Q(n)
      /\ Word - 1 - R(m) = Word - 1 - R(n)
  BY <1>4
<1>79. Q(m) \in Int /\ Q(n) \in Int /\ R(m) \in Int /\ R(n) \in Int /\ Y(m) * c \in Int /\ Y(n) * c \in Int
  <2>1. \A k \in D : q(k) \in Int /\ r(k) \in Int
    BY <1>1, <1>2
  <2> QED
    BY <1>7, <2>1
<1> HIDE DEF Q, R, q, r
<1>9. Y(m) * c + Q(m) = Y(n) * c + Q(n) /\ R(m) = R(n)
  <2> DEFINE u == Y(m) * c
             v == Y(n) * c
             g == Q(m)
             h == Q(n)
  <2>1. u \in Int /\ v \in Int /\ g \in Int /\ h \in Int
    BY <1>79
  <2>2. 1 + u + g = 1 + v + h
    BY <1>8
  <2> HIDE DEF u, v, g, h
  <2>3. u + g = v + h
    BY <2>1, <2>2
  <2> DEFINE k == R(m)
             l == R(n)
  <2>4. Word \in Int /\ k \in Int /\ l \in Int /\ Word - 1 - k = Word - 1 - l
    BY <1>1, <1>8, <1>79
  <2> HIDE DEF k, l
  <2>5. k = l
    BY <2>4
  <2> QED
    BY <2>3, <2>5 DEF u, v, g, h, k, l
<1>10. Y(m) = Y(n)
  BY <1>7, <1>9
<1>11. Q(m) = Q(n)
  <2> DEFINE u == Y(m) * c
             g == Q(m)
             h == Q(n)
  <2>1. u \in Int /\ g \in Int /\ h \in Int
    BY <1>79
  <2>2. u + g = u + h
    BY <1>9, <1>10
  <2> HIDE DEF u, g, h
  <2>3. g = h
    BY <2>1, <2>2
  <2> QED
    BY <2>3 DEF g, h
<1>12. X(m) = X(n)
  BY <1>7, <1>9, <1>11
<1>13. m \in Int /\ n \in Int /\ b.x \in Int /\ b.y \in Int
  BY <1>1, LineType
<1>14. CASE b.sud
  <2>1. b.x + Signed(m, b.aul) = b.x + Signed(n, b.aul)
    BY <1>12, <1>14 DEF X, DotX
  <2> QED
    BY <1>13, <2>1 DEF Signed
<1>15. CASE ~b.sud
  <2>1. b.y + Signed(m, b.aul) = b.y + Signed(n, b.aul)
    BY <1>10, <1>15 DEF Y, DotY
  <2> QED
    BY <1>13, <2>1 DEF Signed
<1> QED
  BY <1>14, <1>15

\* The dots of the first n that mark a bit of a cell.
DotHits(b, n, x, k) == {m \in 0 .. n - 1 : Wanted(b, m) /\ DotCell(b, m) = x /\ DotBit(b, m) = k}

\* A bit, after the first n dots.
Marked(b, n, x, k) ==
  IF DotHits(b, n, x, k) = {} THEN k \in before.mem[x]
  ELSE MintermOf(TRUE, Texture(b, Min(DotHits(b, n, x, k))), k \in before.mem[x]) \in Bits(b.mt)

\* The memory after the first n dots.
LineAfter(b, n) == [x \in 0 .. Cells - 1 |-> {k \in All : Marked(b, n, x, k)}]

\* The blitter, the first n dots drawn.
LineTo(s, b, n) ==
  /\ PlacedAt(s, b, AcrossTo(b, n), DownTo(b, n))
  /\ s.pt["a"] = ErrorAt(b, n) /\ (s.sign <=> ErrorAt(b, n) < 0)
  /\ s.pt["d"] = s.pt["c"]
  /\ s.onedot <=> n # 0 /\ DotY(b, n) = DotY(b, n - 1)
  /\ s.lineb = {k \in All : (k + (b.bshift - n)) % Word \in before.dat["b"]}
  /\ s.dat["a"] = before.dat["a"]
  /\ s.mem = LineAfter(b, n)

\* A minterm that keeps C where A is off keeps C's bit.
LEMMA KeepsC ==
  ASSUME NEW mt, Bits(mt) \cap 0 .. 3 = {1, 3}, NEW t \in BOOLEAN, NEW c \in BOOLEAN
  PROVE  MintermOf(FALSE, t, c) \in Bits(mt) <=> c
<1>1. MintermOf(FALSE, t, c) \in 0 .. 3 /\ (c <=> MintermOf(FALSE, t, c) \in {1, 3})
  BY DEF MintermOf
<1> HIDE DEF MintermOf
<1> QED
  BY <1>1

\* The least of one.
LEMMA MinOfOne ==
  ASSUME NEW n \in Int
  PROVE  Min({n}) = n
<1>1. n <= n
  OBVIOUS
<1> QED
  BY <1>1 DEF Min

\* One more dot marks its own bit and no other.
LEMMA MarkedNext ==
  ASSUME NEW b, IsBlit(b), DrawsLine(b), NEW n \in 0 .. b.dx, NEW x, NEW k
  PROVE  Marked(b, n + 1, x, k) <=>
           IF Wanted(b, n) /\ DotCell(b, n) = x /\ DotBit(b, n) = k
             THEN MintermOf(TRUE, Texture(b, n), Marked(b, n, x, k)) \in Bits(b.mt)
             ELSE Marked(b, n, x, k)
<1> DEFINE Is(m) == Wanted(b, m) /\ DotCell(b, m) = x /\ DotBit(b, m) = k
           S == DotHits(b, n, x, k)
           T == DotHits(b, n + 1, x, k)
<1>0. b.dx \in Nat /\ n \in Nat /\ 0 .. (n + 1) - 1 = (0 .. n - 1) \cup {n}
  <2>1. b.dx \in Nat
    BY LineType
  <2>2. n \in Nat
    BY <2>1
  <2> QED
    BY <2>1, <2>2
<1>1. S = {m \in 0 .. n - 1 : Is(m)} /\ T = {m \in 0 .. (n + 1) - 1 : Is(m)}
  BY DEF DotHits
<1>2. Is(n) => S = {}
  <2> SUFFICES ASSUME Is(n), NEW m \in S PROVE FALSE
    OBVIOUS
  <2>1. m \in 0 .. n - 1 /\ Is(m)
    BY <1>1
  <2>2. m \in 0 .. b.dx /\ m # n
    BY <1>0, <2>1
  <2> QED
    BY <2>1, <2>2, DotsApart
<1> HIDE DEF Is, S, T
<1>3. CASE Is(n)
  <2>1. S = {} /\ T = {n}
    BY <1>0, <1>1, <1>2, <1>3
  <2>2. Min(T) = n
    BY <1>0, <2>1, MinOfOne
  <2>3. Marked(b, n, x, k) = (k \in before.mem[x])
    BY <2>1 DEF Marked, S
  <2>4. Marked(b, n + 1, x, k) = (MintermOf(TRUE, Texture(b, n), k \in before.mem[x]) \in Bits(b.mt))
    BY <2>1, <2>2 DEF Marked, T
  <2> QED
    BY <1>3, <2>3, <2>4 DEF Is
<1>4. CASE ~Is(n)
  <2>1. S = T
    BY <1>0, <1>1, <1>4
  <2>2. Marked(b, n + 1, x, k) = Marked(b, n, x, k)
    BY <2>1 DEF Marked, S, T
  <2> QED
    BY <1>4, <2>2 DEF Is
<1> QED
  BY <1>3, <1>4

\* One bit of a dot's word.
LEMMA DotBits ==
  ASSUME NEW s, NEW b, IsBlit(b), DrawsLine(b), NEW n \in 0 .. b.dx, LineTo(s, b, n),
         NEW k \in All, NEW x, x = DotCell(b, n), x \in 0 .. Cells - 1
  PROVE  k \in DotD(s, b, n) <=> Marked(b, n + 1, x, k)
<1> DEFINE da == DotA(s, b)
           dc == DotC(s, b, n)
           db == IF 0 \in s.lineb THEN All ELSE {}
           tex == Texture(b, n)
           w == Wanted(b, n) /\ DotBit(b, n) = k
           c == Marked(b, n, x, k)
<1>0. Word \in Nat \ {0} /\ k \in Int /\ b.dx \in Nat /\ b.bshift \in Int
  <2>1. Word \in Nat \ {0} /\ b.dx \in Nat
    BY LineType
  <2>2. b.bshift \in 0 .. Word - 1
    BY DEF IsBlit
  <2> QED
    BY <2>1, <2>2 DEF All
<1>1. s.pt["c"] = x /\ s.shift = DotX(b, n) % Word
  BY DotIsAt DEF LineTo
<1>2. k \in dc <=> c
  <2>1. dc = s.mem[x]
    BY <1>1 DEF DotC, wget, DrawsLine, Reads
  <2>2. s.mem[x] = {j \in All : Marked(b, n, x, j)}
    BY DEF LineTo, LineAfter
  <2> QED
    BY <2>1, <2>2
<1>3. k \in db <=> tex
  <2>1. 0 \in All
    BY <1>0 DEF All
  <2>2. 0 + (b.bshift - n) = b.bshift - n
    BY <1>0
  <2>3. 0 \in s.lineb <=> (b.bshift - n) % Word \in before.dat["b"]
    BY <2>1, <2>2 DEF LineTo
  <2> QED
    BY <2>3 DEF Texture
<1>4. k \in da <=> w
  <2>1. b.sing /\ s.onedot <=> ~Wanted(b, n)
    BY DEF LineTo, Wanted
  <2>2. DotBit(b, n) = Word - 1 - s.shift
    BY <1>1 DEF DotBit
  <2>3. s.shift \in Int
    <3>1. DotX(b, n) \in Int
      BY LineType
    <3> QED
      BY <1>0, <1>1, <3>1
  <2>4. s.dat["a"] \cap b.afwm = {Word - 1}
    <3>1. Word - 1 \in All
      BY <1>0 DEF All
    <3> QED
      BY <3>1 DEF LineTo, DrawsLine
  <2>5. k \in da <=> ~(b.sing /\ s.onedot) /\ k + s.shift = Word - 1
    BY <2>4 DEF DotA
  <2>6. k + s.shift = Word - 1 <=> DotBit(b, n) = k
    <3> DEFINE h == s.shift
               g == DotBit(b, n)
    <3>1. h \in Int /\ g = Word - 1 - h
      BY <2>2, <2>3
    <3> HIDE DEF h, g
    <3>2. k + h = Word - 1 <=> g = k
      BY <1>0, <3>1
    <3> QED
      BY <3>2 DEF h, g
  <2> QED
    BY <2>1, <2>5, <2>6
<1>5. tex \in BOOLEAN /\ w \in BOOLEAN /\ c \in BOOLEAN
  <2>1. tex \in BOOLEAN
    BY DEF Texture
  <2>2. w \in BOOLEAN
    OBVIOUS
  <2>3. c \in BOOLEAN
    <3>1. CASE DotHits(b, n, x, k) = {}
      BY <3>1 DEF Marked
    <3>2. CASE DotHits(b, n, x, k) # {}
      <4>1. c = (MintermOf(TRUE, Texture(b, Min(DotHits(b, n, x, k))), k \in before.mem[x]) \in Bits(b.mt))
        BY <3>2 DEF Marked
      <4> QED
        BY <4>1
    <3> QED
      BY <3>1, <3>2
  <2> QED
    BY <2>1, <2>2, <2>3
<1>6. k \in DotD(s, b, n) <=> MintermOf(k \in da, k \in db, k \in dc) \in Bits(b.mt)
  <2>1. b.mt \in 0 .. 255
    BY DEF IsBlit
  <2> QED
    BY <2>1, TableAssumption DEF DotD, blit_func
<1>7. Bits(b.mt) \cap 0 .. 3 = {1, 3}
  BY DEF DrawsLine
<1>8. Marked(b, n + 1, x, k) <=> IF w THEN MintermOf(TRUE, tex, c) \in Bits(b.mt) ELSE c
  BY MarkedNext
<1> HIDE DEF da, dc, db, tex, w, c
<1>9. MintermOf(k \in da, k \in db, k \in dc) = MintermOf(w, tex, c)
  <2> DEFINE ka == k \in da
             kh == k \in db
             kc == k \in dc
  <2>1. ka \in BOOLEAN /\ kh \in BOOLEAN /\ kc \in BOOLEAN /\ (ka <=> w) /\ (kh <=> tex) /\ (kc <=> c)
    BY <1>2, <1>3, <1>4
  <2> HIDE DEF ka, kh, kc
  <2>2. MintermOf(ka, kh, kc) = MintermOf(w, tex, c)
    BY <1>5, <2>1, SameMinterm
  <2> QED
    BY <2>2 DEF ka, kh, kc
<1>10. CASE w
  <2>1. w = TRUE
    BY <1>5, <1>10
  <2> QED
    BY <1>6, <1>8, <1>9, <1>10, <2>1
<1>11. CASE ~w
  <2>1. w = FALSE
    BY <1>5, <1>11
  <2>2. MintermOf(FALSE, tex, c) \in Bits(b.mt) <=> c
    BY <1>5, <1>7, KeepsC
  <2> QED
    BY <1>6, <1>8, <1>9, <1>11, <2>1, <2>2
<1> QED
  BY <1>10, <1>11

\* Writing a dot gives the memory after it.
LEMMA LineWritten ==
  ASSUME NEW s, NEW b, IsBlit(b), DrawsLine(b), NEW n \in 0 .. b.dx, LineTo(s, b, n),
         s.pt["c"] \in 0 .. Cells - 1
  PROVE  wput(LineAfter(b, n), s.pt["d"], DotD(s, b, n)) = LineAfter(b, n + 1)
<1> DEFINE at == DotCell(b, n)
           d == DotD(s, b, n)
           old == LineAfter(b, n)
           new == LineAfter(b, n + 1)
<1>1. s.pt["d"] = at /\ at \in 0 .. Cells - 1
  BY DotIsAt DEF LineTo
<1>2. d \subseteq All
  BY FuncType DEF DotD
<1>3. d = {k \in All : Marked(b, n + 1, at, k)}
  <2> DEFINE M(k) == Marked(b, n + 1, at, k)
  <2>1. \A k \in All : k \in d <=> M(k)
    BY <1>1, DotBits
  <2> HIDE DEF d, M
  <2>2. d = {k \in All : M(k)}
    BY <1>2, <2>1
  <2> QED
    BY <2>2 DEF M
<1>4. ASSUME NEW x \in 0 .. Cells - 1, x # at
      PROVE  {k \in All : Marked(b, n + 1, x, k)} = {k \in All : Marked(b, n, x, k)}
  <2>1. \A k \in All : Marked(b, n + 1, x, k) <=> Marked(b, n, x, k)
    BY <1>4, MarkedNext
  <2> QED
    BY <2>1
<1> HIDE DEF at, d
<1>5. new = [x \in 0 .. Cells - 1 |-> IF x = at THEN d ELSE old[x]]
  <2>1. ASSUME NEW x \in 0 .. Cells - 1
        PROVE  {k \in All : Marked(b, n + 1, x, k)}
                 = IF x = at THEN d ELSE {k \in All : Marked(b, n, x, k)}
    BY <1>3, <1>4
  <2> QED
    BY <2>1 DEF LineAfter
<1>6. wput(old, at, d) = [x \in 0 .. Cells - 1 |-> IF x = at THEN d ELSE old[x]]
  BY DEF wput, LineAfter
<1> QED
  BY <1>1, <1>5, <1>6 DEF d

\* At first no dot is drawn.
LEMMA LineBegun ==
  ASSUME NEW b, IsBlit(b), DrawsLine(b), Fresh(before, b)
  PROVE  LineTo(LineStart(before, b), b, 0)
<1> DEFINE t == LineStart(before, b)
<1>0. Machine(before) /\ before.pt = b.pt /\ Typed(before)
  BY DEF Fresh
<1>1. /\ Machine(t) /\ t.shift = b.ashift
      /\ \A f \in Fields \ {"lineb", "sign", "onedot", "shift", "zero"} : t[f] = before[f]
  BY <1>0, LineStartFields
<1>2. t.lineb = {k \in All : (k + b.bshift) % Word \in before.dat["b"]}
  BY <1>0 DEF LineStart, Machine, Fields
<1>3. t.sign = b.sign
  BY <1>0 DEF LineStart, Machine, Fields
<1>4. ~t.onedot
  BY <1>0 DEF LineStart, Machine, Fields
<1> HIDE DEF t
<1>5. t.pt = b.pt /\ t.mem = before.mem /\ t.dat = before.dat
  BY <1>0, <1>1 DEF Fields
<1>6. /\ Word \in Nat \ {0} /\ b.dx \in Nat \ {0} /\ b.dy \in 0 .. b.dx
      /\ b.mod["c"] \in Int /\ b.pt["c"] \in Int
      /\ b.ashift \in 0 .. Word - 1 /\ b.bshift \in 0 .. Word - 1
  <2>1. Word \in Nat \ {0} /\ b.dx \in Nat \ {0} /\ b.dy \in 0 .. b.dx /\ b.mod["c"] \in Int
    BY LineType
  <2> QED
    BY <2>1 DEF IsBlit, Channels
<1>7. Minor(b, 0) = 0 /\ ErrorAt(b, 0) = 4 * b.dy - 2 * b.dx
  BY <1>6, MinorFirst
<1>8. AcrossTo(b, 0) = 0 /\ DownTo(b, 0) = 0
  <2> DEFINE minus == -0
  <2>0. minus \in Int /\ minus <= 0 /\ minus >= 0
    OBVIOUS
  <2>1. \A back : Signed(0, back) = IF back THEN minus ELSE 0
    BY DEF Signed
  <2> HIDE DEF minus
  <2>2. minus = 0
    BY <2>0
  <2>3. \A back : Signed(0, back) = 0
    BY <2>1, <2>2
  <2> QED
    BY <1>7, <2>3 DEF AcrossTo, DownTo
<1>9. PlacedAt(t, b, 0, 0)
  <2>1. 0 * b.mod["c"] = 0 /\ (b.ashift + 0) \div Word = 0 /\ (b.ashift + 0) % Word = b.ashift
    BY <1>6
  <2>2. t.shift = (b.ashift + 0) % Word
    BY <1>1, <2>1
  <2>3. t.pt["c"] = b.pt["c"] + 0 * b.mod["c"] + ((b.ashift + 0) \div Word)
    <3>1. b.pt["c"] = b.pt["c"] + 0 + 0
      BY <1>6
    <3> QED
      BY <1>5, <2>1, <3>1
  <2> QED
    BY <2>2, <2>3 DEF PlacedAt
<1>10. t.pt["a"] = ErrorAt(b, 0) /\ (t.sign <=> ErrorAt(b, 0) < 0) /\ t.pt["d"] = t.pt["c"]
  BY <1>3, <1>5, <1>7 DEF DrawsLine
<1>11. t.lineb = {k \in All : (k + (b.bshift - 0)) % Word \in before.dat["b"]}
  <2>1. b.bshift - 0 = b.bshift
    BY <1>6
  <2> QED
    BY <1>2, <2>1
<1>12. LineAfter(b, 0) = before.mem
  <2>1. \A x, k : DotHits(b, 0, x, k) = {}
    BY DEF DotHits
  <2>2. \A x, k : Marked(b, 0, x, k) = (k \in before.mem[x])
    BY <2>1 DEF Marked
  <2>3. before.mem \in [0 .. Cells - 1 -> SUBSET All]
    BY <1>0 DEF Typed
  <2>4. LineAfter(b, 0) = [x \in 0 .. Cells - 1 |-> {k \in All : k \in before.mem[x]}]
    BY <2>2 DEF LineAfter
  <2>5. \A x \in 0 .. Cells - 1 : {k \in All : k \in before.mem[x]} = before.mem[x]
    BY <2>3
  <2> QED
    BY <2>3, <2>4, <2>5
<1>13. LineTo(t, b, 0)
  BY <1>4, <1>5, <1>8, <1>9, <1>10, <1>11, <1>12 DEF LineTo
<1> QED
  BY <1>13 DEF t

\* One more dot.
LEMMA LineGoesOn ==
  ASSUME NEW s, Machine(s), NEW b, IsBlit(b), DrawsLine(b), NEW n \in 0 .. b.dx, LineTo(s, b, n),
         s.pt["c"] \in 0 .. Cells - 1
  PROVE  LineTo(LineDot(s, b, n), b, n + 1)
<1> DEFINE t == LineDot(s, b, n)
           x == AcrossTo(b, n)
           y == DownTo(b, n)
<1>0. /\ Word \in Nat \ {0} /\ b.dx \in Nat \ {0} /\ b.dy \in 0 .. b.dx /\ n \in Nat
      /\ b.y \in Int /\ b.bshift \in Int /\ "a" \in b.use /\ "c" \in b.use
  <2>1. Word \in Nat \ {0} /\ b.dx \in Nat \ {0} /\ b.dy \in 0 .. b.dx /\ b.y \in Int
    BY LineType
  <2>2. b.bshift \in 0 .. Word - 1
    BY DEF IsBlit
  <2>3. n \in Nat /\ b.bshift \in Int
    BY <2>1, <2>2
  <2> QED
    BY <2>1, <2>3 DEF DrawsLine
<1>1. PlacedAt(s, b, x, y) /\ s.pt["a"] = ErrorAt(b, n) /\ (s.sign <=> ErrorAt(b, n) < 0)
  BY DEF LineTo
<1>2. /\ x \in Int /\ y \in Int
      /\ AcrossTo(b, n + 1) = x + AcrossBy(s, b) /\ DownTo(b, n + 1) = y + DownBy(s, b)
      /\ DownTo(b, n + 1) = y <=> b.sud /\ s.sign
  BY <1>0, <1>1, NextDot
<1>3. /\ Machine(t)
      /\ MovedOn(t, s, b, x, y)
      /\ t.mem = IF Writes(b, n) THEN wput(s.mem, s.pt["d"], DotD(s, b, n)) ELSE s.mem
      /\ t.dat = [s.dat EXCEPT !["c"] = DotC(s, b, n), !["d"] = DotD(s, b, n)]
      /\ t.pt["d"] = t.pt["c"]
      /\ t.zero = (s.zero /\ DotD(s, b, n) = {})
      /\ \A f \in {"bhold", "at", "prev", "dstp", "fc"} : t[f] = s[f]
  <2>1. x \in Int /\ y \in Int /\ PlacedAt(s, b, x, y)
    BY <1>1, <1>2
  <2> HIDE DEF x, y
  <2> QED
    BY <2>1, LineDotFields
<1>4. t.pt["a"] = s.pt["a"] + (IF s.sign THEN b.mod["b"] ELSE b.mod["a"])
  BY <1>0, LineDotRest
<1>5. t.sign = (t.pt["a"] < 0)
  BY <1>0, LineDotRest
<1>6. t.onedot <=> b.sud /\ s.sign
  BY <1>0, LineDotRest
<1>7. t.lineb = {k \in All : (k - 1) % Word \in s.lineb}
  BY <1>0, LineDotRest
<1> HIDE DEF t
<1>8. PlacedAt(t, b, AcrossTo(b, n + 1), DownTo(b, n + 1))
  BY <1>2, <1>3 DEF MovedOn
<1>9. t.pt["a"] = ErrorAt(b, n + 1)
  <2> DEFINE e == ErrorAt(b, n)
  <2>1. /\ e \in Int
        /\ e < 0 => ErrorAt(b, n + 1) = e + 4 * b.dy
        /\ e >= 0 => ErrorAt(b, n + 1) = e + 4 * (b.dy - b.dx)
    BY <1>0, MinorNext
  <2>2. b.mod["a"] = 4 * (b.dy - b.dx) /\ b.mod["b"] = 4 * b.dy
    BY DEF DrawsLine
  <2>3. s.pt["a"] = e /\ (s.sign <=> e < 0)
    BY <1>1
  <2> HIDE DEF e
  <2>4. CASE e < 0
    BY <1>4, <2>1, <2>2, <2>3, <2>4
  <2>5. CASE ~(e < 0)
    <3>1. e >= 0
      BY <2>1, <2>5
    <3> QED
      BY <1>4, <2>1, <2>2, <2>3, <2>5, <3>1
  <2> QED
    BY <2>4, <2>5
<1>10. t.sign <=> ErrorAt(b, n + 1) < 0
  BY <1>5, <1>9
<1>11. t.onedot <=> n + 1 # 0 /\ DotY(b, n + 1) = DotY(b, (n + 1) - 1)
  <2>1. n + 1 # 0 /\ (n + 1) - 1 = n
    BY <1>0
  <2>2. DotY(b, n) = b.y + y /\ DotY(b, n + 1) = b.y + DownTo(b, n + 1)
    BY DEF DotY, DownTo
  <2>3. DownTo(b, n + 1) \in Int
    <3>1. DownBy(s, b) \in Int
      BY DEF DownBy, Back
    <3> QED
      BY <1>2, <3>1
  <2> DEFINE z == DownTo(b, n + 1)
  <2>4. z \in Int /\ y \in Int /\ b.y \in Int
    BY <1>0, <1>2, <2>3
  <2> HIDE DEF y, z
  <2>5. b.y + z = b.y + y <=> z = y
    BY <2>4
  <2> QED
    BY <1>2, <1>6, <2>1, <2>2, <2>5 DEF y, z
<1>12. t.lineb = {k \in All : (k + (b.bshift - (n + 1))) % Word \in before.dat["b"]}
  <2>1. ASSUME NEW k \in All
        PROVE  (k - 1) % Word \in s.lineb <=> (k + (b.bshift - (n + 1))) % Word \in before.dat["b"]
    <3> DEFINE z == k - 1
               e == b.bshift - n
    <3>1. k \in Int /\ z \in Int /\ e \in Int /\ z + e = k + (b.bshift - (n + 1)) /\ z % Word \in All
      BY <1>0 DEF All
    <3> HIDE DEF z
    <3>2. z % Word \in s.lineb <=> ((z % Word) + e) % Word \in before.dat["b"]
      BY <3>1 DEF LineTo
    <3> HIDE DEF e
    <3>3. ((z % Word) + e) % Word = (z + e) % Word
      BY <1>0, <3>1, SplitPixel
    <3> QED
      BY <3>1, <3>2, <3>3 DEF z
  <2> QED
    BY <1>7, <2>1
<1>13. t.dat["a"] = before.dat["a"]
  <2>1. s.dat["a"] = before.dat["a"]
    BY DEF LineTo
  <2> QED
    BY <1>3, <2>1 DEF Machine, Channels
<1>14. t.mem = LineAfter(b, n + 1)
  <2>1. s.mem = LineAfter(b, n)
    BY DEF LineTo
  <2> QED
    <3>1. Writes(b, n)
      BY <1>0 DEF Writes, DrawsLine
    <3> QED
      BY <1>3, <2>1, <3>1, LineWritten
<1>15. LineTo(t, b, n + 1)
  BY <1>3, <1>8, <1>9, <1>10, <1>11, <1>12, <1>13, <1>14 DEF LineTo
<1> QED
  BY <1>15 DEF t

\* A line is drawn as it is meant to be.
LEMMA LineIsMeant ==
  ASSUME NEW b, IsBlit(b), DrawsLine(b), Fresh(before, b)
  PROVE  Line(before, b).mem = MeantLine(b)
<1> DEFINE D(n) == Dots(before, b)[n]
           P(n) == n <= b.v => LineTo(D(n), b, n)
           S == {n \in Nat : P(n)}
<1>0. b.v \in Nat /\ b.v = b.dx + 1 /\ b.dx \in Nat /\ b.kind = "line"
  BY LineType DEF DrawsLine, IsBlit
<1>1. D(0) = LineStart(before, b) /\ Line(before, b) = D(b.v)
      /\ \A n \in 0 .. b.v - 1 : D(n + 1) = LineDot(D(n), b, n)
  BY <1>0, DotsAre
<1>2. \A n \in 0 .. b.v : Machine(D(n)) /\ \E x, y \in -n .. n : PlacedAt(D(n), b, x, y)
  BY LinePlaced DEF Fresh
<1> HIDE DEF D
<1>3. P(0)
  BY <1>1, LineBegun
<1>4. ASSUME NEW n \in Nat, P(n) PROVE P(n + 1)
  <2> SUFFICES ASSUME n + 1 <= b.v PROVE LineTo(D(n + 1), b, n + 1)
    OBVIOUS
  <2>1. n \in 0 .. b.v /\ n \in 0 .. b.v - 1 /\ n \in 0 .. b.dx /\ n <= b.v
    BY <1>0
  <2>2. PICK x \in -n .. n, y \in -n .. n : PlacedAt(D(n), b, x, y)
    BY <1>2, <2>1
  <2>3. D(n).pt["c"] \in 0 .. Cells - 1
    BY <1>0, <2>1, <2>2, LineInMemory
  <2>4. Machine(D(n)) /\ LineTo(D(n), b, n) /\ D(n + 1) = LineDot(D(n), b, n)
    BY <1>1, <1>2, <1>4, <2>1
  <2> QED
    BY <2>1, <2>3, <2>4, LineGoesOn
<1> HIDE DEF P
<1>5. S \in SUBSET Nat /\ 0 \in S /\ \A n \in S : n + 1 \in S
  BY <1>3, <1>4
<1> HIDE DEF S
<1>6. S = Nat
  BY <1>5, Induction
<1>7. P(b.v) /\ b.v <= b.v
  BY <1>0, <1>6 DEF S
<1>8. D(b.v).mem = LineAfter(b, b.v)
  BY <1>7 DEF P, LineTo
<1>9. LineAfter(b, b.v) = MeantLine(b)
  <2>1. 0 .. b.v - 1 = 0 .. b.dx
    BY <1>0
  <2>2. \A x, k : DotHits(b, b.v, x, k) =
                    {n \in 0 .. b.dx : Wanted(b, n) /\ DotCell(b, n) = x /\ DotBit(b, n) = k}
    BY <2>1 DEF DotHits
  <2> QED
    BY <2>2 DEF LineAfter, Marked, MeantLine
<1> QED
  BY <1>1, <1>8, <1>9

\* What was drawn from those registers is meant.
LEMMA LineDrawn == DrawTyped /\ DrawnFrom => LinesAreMeant
<1> SUFFICES ASSUME DrawnFrom, DrawsLine(last) PROVE code.mem = MeantLine(last)
  BY DEF LinesAreMeant
<1>1. last.kind = "line" /\ last # Nothing
  BY DEF DrawsLine, Nothing
<1>2. IsBlit(last) /\ Fresh(before, last) /\ code = actually_do_blit(before, last)
  BY <1>1 DEF DrawnFrom, Loaded
<1>3. code = Line(before, last)
  BY <1>1, <1>2 DEF actually_do_blit
<1> QED
  BY <1>2, <1>3, LineIsMeant

\* A line whose registers a program has set up for it marks, bit for bit, the pixels nearest
\* to the true line, in any octant, textured and with one dot a row if asked for
\* (blitter_line and blitter_nxline).
THEOREM LinesAreMeantHolds == DrawSpec => []LinesAreMeant
<1>1. DrawInit => DrawnFrom
  BY DEF DrawInit, DrawnFrom
<1> QED
  BY <1>1, TypedInit, TypedStep, DrawnFromStep, LineDrawn, PTL DEF DrawSpec
=============================================================================
