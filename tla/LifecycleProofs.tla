--------------------------- MODULE LifecycleProofs ---------------------------
(***************************************************************************)
(* The safety of the library's life, for any number of programs that open  *)
(* and close it and of processes there can be at a time.                   *)
(***************************************************************************)
EXTENDS Lifecycle, FiniteSetTheorems, TLAPS

\* What init() acquires, in order.
LEMMA PartsInOrder ==
  /\ DOMAIN Parts = 1 .. 15
  /\ Parts[1] = "DOSBase" /\ Parts[2] = "IDOS" /\ Parts[3] = "NewLibBase" /\ Parts[4] = "INewlib"
  /\ Parts[5] = "UtilityBase" /\ Parts[6] = "IUtility" /\ Parts[7] = "AHImp" /\ Parts[8] = "AHIio"
  /\ Parts[9] = "AHIDevice" /\ Parts[10] = "IAHI" /\ Parts[11] = "pd" /\ Parts[12] = "AudioCtrl"
  /\ Parts[13] = "cia_mx" /\ Parts[14] = "event_mx" /\ Parts[15] = "blitter_mx"
  BY DEF Parts, Libraries, OpenAHI, AllocPUH, InstallPUH, init_nallepuh, lock_init

LEMMA PartsTogether ==
  /\ Mutexes = {"cia_mx", "event_mx", "blitter_mx"}
  /\ Range(init_nallepuh) = {"pd", "AudioCtrl"}
  /\ Range(OpenAHI) = {"AHImp", "AHIio", "AHIDevice", "IAHI"}
  /\ Range(Libraries) = {"DOSBase", "IDOS", "NewLibBase", "INewlib", "UtilityBase", "IUtility"}
<1>1. Mutexes = {"cia_mx", "event_mx", "blitter_mx"}
  BY DEF Mutexes, lock_init, Range
<1>2. Range(init_nallepuh) = {"pd", "AudioCtrl"}
  BY DEF init_nallepuh, AllocPUH, InstallPUH, Range
<1>3. Range(OpenAHI) = {"AHImp", "AHIio", "AHIDevice", "IAHI"}
  BY DEF OpenAHI, Range
<1>4. Range(Libraries) = {"DOSBase", "IDOS", "NewLibBase", "INewlib", "UtilityBase", "IUtility"}
  BY DEF Libraries, Range
<1> QED
  BY <1>1, <1>2, <1>3, <1>4

LEMMA PartsKnown == \A k \in 1 .. 15 : Parts[k] \in AllParts
  BY PartsInOrder DEF AllParts, Range

\* What a load has acquired when part k is missing.
LEMMA PartsBefore ==
  ASSUME NEW k \in DOMAIN Parts, NEW h, h = {Parts[j] : j \in 1 .. k - 1}
  PROVE  /\ h \subseteq AllParts /\ Parts[k] \in AllParts
         /\ "IDOS" \in h \/ Parts[k] \in {"DOSBase", "IDOS"}
         /\ "AudioCtrl" \in h => "IAHI" \in h
<1>1. k \in 1 .. 15
  BY PartsInOrder
<1>2. h \subseteq AllParts /\ Parts[k] \in AllParts
  BY <1>1, PartsKnown
<1>3. "IDOS" \in h \/ Parts[k] \in {"DOSBase", "IDOS"}
  <2>1. CASE k >= 3
    BY <1>1, <2>1, PartsInOrder
  <2>2. CASE k = 1 \/ k = 2
    BY <2>2, PartsInOrder
  <2> QED
    BY <1>1, <2>1, <2>2
<1>4. ASSUME "AudioCtrl" \in h PROVE "IAHI" \in h
  <2>1. PICK j \in 1 .. k - 1 : Parts[j] = "AudioCtrl"
    BY <1>4
  <2>2. j > 10
    BY <1>1, <2>1, PartsInOrder
  <2> QED
    BY <1>1, <2>2, PartsInOrder
<1> QED
  BY <1>2, <1>3, <1>4

-----------------------------------------------------------------------------
(***************************************************************************)
(* The open count is the number of programs that have the library open.    *)
(***************************************************************************)
Openers == {p \in Programs : pc[p] \in {"console", "in"}}
OpenInv == TypeOK /\ openCnt = Cardinality(Openers)

Flags ==
  /\ broken \in BOOLEAN /\ expunge_tasks \in BOOLEAN /\ timer_device_open \in BOOLEAN
  /\ reopened \in BOOLEAN /\ torn \in BOOLEAN /\ overlapped \in BOOLEAN

LEMMA OpenersFinite ==
  /\ IsFiniteSet(Openers) /\ Cardinality(Openers) \in Nat
  /\ Cardinality(Openers) =< Cardinality(Programs)
<1>1. Openers \in SUBSET Programs
  BY DEF Openers
<1> QED
  BY <1>1, LifecycleAssumption, FS_Subset, FS_CardinalityType

\* A program's step changes the number by its own coming or going.
LEMMA GoesCounted ==
  ASSUME NEW p \in Programs, NEW place, pc \in [Programs -> {"out", "console", "in", "wait"}], Goes(p, place)
  PROVE  /\ p \notin Openers /\ place \in {"console", "in"} => Cardinality(Openers') = Cardinality(Openers) + 1
         /\ p \in Openers /\ place \in {"console", "in"} => Openers' = Openers
         /\ p \in Openers /\ place \in {"out", "wait"} => Cardinality(Openers') = Cardinality(Openers) - 1
         /\ p \notin Openers /\ place \in {"out", "wait"} => Openers' = Openers
<1>1. pc'[p] = place /\ \A q \in Programs : q # p => pc'[q] = pc[q]
  BY DEF Goes
<1>2. place \in {"console", "in"} => Openers' = Openers \cup {p}
  BY <1>1 DEF Openers
<1>3. place \in {"out", "wait"} => Openers' = Openers \ {p}
  BY <1>1 DEF Openers
<1>4. p \notin Openers => Cardinality(Openers \cup {p}) = Cardinality(Openers) + 1
  BY OpenersFinite, FS_AddElement
<1>5. p \in Openers => Cardinality(Openers \ {p}) = Cardinality(Openers) - 1
  BY OpenersFinite, FS_RemoveElement
<1> QED
  BY <1>2, <1>3, <1>4, <1>5

LEMMA OpenInvStarts == Init => OpenInv
<1> SUFFICES ASSUME Init PROVE OpenInv
  OBVIOUS
<1>1. Flags
  BY Zenon DEF Init, Flags
<1>2. Openers = {}
  BY DEF Init, Openers
<1>3. openCnt = 0 /\ Cardinality(Openers) = 0 /\ Cardinality(Programs) \in Nat
  BY <1>2, FS_EmptySet, FS_CardinalityType, LifecycleAssumption DEF Init
<1>4. openCnt \in 0 .. Cardinality(Programs)
  BY <1>3
<1>5. /\ lib \in {"none", "ready", "unloaded"} \cup TearingDown
      /\ held \subseteq AllParts /\ lost \in AllParts \cup {"nothing"} /\ spawn_count \in Int
      /\ pc \in [Programs -> {"out", "console", "in", "wait"}]
      /\ proc \in [Procs -> {"none", "crashed"} \cup Stages] /\ loaded \in [Procs -> Int]
      /\ TimerMP \in {"NULL", "port", "freed"} /\ TimerIO \in {"NULL", "unopened", "open"}
      /\ forgotten \subseteq {"port", "request", "device"}
  BY DEF Init
<1> QED
  BY <1>1, <1>3, <1>4, <1>5 DEF OpenInv, TypeOK, Flags

\* Loading and unloading keep their types,
LEMMA LibTypes ==
  ASSUME OpenInv, Load \/ Expunge \/ close_libs \/ Remove
  PROVE  OpenInv'
<1> USE DEF OpenInv
<1>1. UNCHANGED <<openCnt, pc, proc, loaded, TimerMP, TimerIO, timer_device_open, forgotten, reopened, torn>>
  BY DEF Load, Expunge, close_libs, Remove, countVars, timerVars, history
<1>2. spawn_count' \in Int
  BY DEF Load, Expunge, close_libs, Remove, countVars, TypeOK
<1>3. broken' \in BOOLEAN /\ overlapped' \in BOOLEAN /\ expunge_tasks' \in BOOLEAN
  <2>1. CASE Load
    BY <2>1, Zenon DEF Load, countVars, history, TypeOK
  <2>2. CASE Expunge
    BY <2>2, Zenon DEF Expunge, countVars, history, TypeOK
  <2>3. CASE close_libs
    <3>1. broken' = broken \/ broken' = TRUE
      BY <2>3 DEF close_libs, FreeLocks, FreePuh, CloseAHI, CloseLibs, Release
    <3>2. UNCHANGED <<overlapped, expunge_tasks>>
      BY <2>3 DEF close_libs, countVars, history
    <3> QED
      BY <3>1, <3>2, Zenon DEF TypeOK
  <2>4. CASE Remove
    BY <2>4, Zenon DEF Remove, history, TypeOK
  <2> QED
    BY <2>1, <2>2, <2>3, <2>4
<1>4. /\ lib' \in {"none", "ready", "unloaded"} \cup TearingDown
      /\ held' \subseteq AllParts /\ lost' \in AllParts \cup {"nothing"}
  <2>1. CASE Load
    <3>1. CASE lib' = "ready" /\ held' = AllParts /\ lost' = "nothing"
      BY <3>1
    <3>2. ASSUME NEW k \in DOMAIN Parts, held' = {Parts[j] : j \in 1 .. k - 1}, lost' = Parts[k], lib' = "locks"
          PROVE  held' \subseteq AllParts /\ lost' \in AllParts /\ lib' = "locks"
      BY <3>2, PartsBefore
    <3>3. CASE held' = {} /\ lost' = "IAHI" /\ lib' = "locks"
      BY <3>3, PartsInOrder, PartsKnown DEF TearingDown
    <3> QED
      BY <2>1, <3>1, <3>2, <3>3 DEF Load, TearingDown
  <2>2. CASE Expunge
    BY <2>2 DEF Expunge, TypeOK, TearingDown
  <2>3. CASE close_libs
    BY <2>3 DEF close_libs, FreeLocks, FreePuh, CloseAHI, CloseLibs, Release, TypeOK, TearingDown
  <2>4. CASE Remove
    BY <2>4 DEF Remove, TypeOK
  <2> QED
    BY <2>1, <2>2, <2>3, <2>4
<1>5. Openers' = Openers
  BY <1>1 DEF Openers
<1> QED
  BY <1>1, <1>2, <1>3, <1>4, <1>5 DEF TypeOK

\* programs keep the count,
LEMMA ProgramTypes ==
  ASSUME OpenInv, NEW p \in Programs, Program(p)
  PROVE  OpenInv'
<1> USE DEF OpenInv
<1>0. pc \in [Programs -> {"out", "console", "in", "wait"}] /\ openCnt \in Int /\ spawn_count \in Int
  BY DEF TypeOK
<1>1. UNCHANGED <<lib, held, lost, broken, TimerMP, TimerIO, timer_device_open, forgotten, torn, loaded>>
  BY DEF Program, OpenFirst, OpenAgain, Spawn, Close, WaitEnds, libVars, timerVars, history
<1>2. expunge_tasks' \in BOOLEAN /\ reopened' \in BOOLEAN /\ overlapped' \in BOOLEAN
  BY Zenon DEF TypeOK, Program, OpenFirst, OpenAgain, Spawn, Close, WaitEnds, countVars, history
<1>3. proc' \in [Procs -> {"none", "crashed"} \cup Stages] /\ spawn_count' \in Int
  <2>1. CASE OpenFirst(p) \/ OpenAgain(p) \/ Close(p) \/ WaitEnds(p)
    BY <2>1 DEF OpenFirst, OpenAgain, Close, WaitEnds, countVars, TypeOK
  <2>2. CASE Spawn(p)
    BY <2>2, <1>0 DEF Spawn, Turns, Stages, TypeOK
  <2> QED
    BY <2>1, <2>2 DEF Program
<1>4. PICK place \in {"out", "console", "in", "wait"} : Goes(p, place) /\
        \/ p \notin Openers /\ place \in {"console", "in"} /\ openCnt' = openCnt + 1
        \/ p \in Openers /\ place \in {"console", "in"} /\ openCnt' = openCnt
        \/ p \in Openers /\ place \in {"out", "wait"} /\ openCnt' = openCnt - 1
        \/ p \notin Openers /\ place \in {"out", "wait"} /\ openCnt' = openCnt
  <2>1. CASE OpenFirst(p)
    BY <2>1 DEF OpenFirst, init_cia_process, Openers
  <2>2. CASE OpenAgain(p)
    BY <2>2 DEF OpenAgain, Openers
  <2>3. CASE Spawn(p)
    BY <2>3 DEF Spawn, Openers
  <2>4. CASE Close(p)
    BY <2>4 DEF Close, Openers
  <2>5. CASE WaitEnds(p)
    BY <2>5 DEF WaitEnds, Openers, countVars
  <2> QED
    BY <2>1, <2>2, <2>3, <2>4, <2>5 DEF Program
<1>5. pc' \in [Programs -> {"out", "console", "in", "wait"}]
  BY <1>0, <1>4 DEF Goes
<1>6. openCnt' = Cardinality(Openers')
  BY <1>0, <1>4, GoesCounted, OpenersFinite
<1>7. openCnt' \in 0 .. Cardinality(Programs)
  <2>1. Cardinality(Openers') \in Nat /\ Cardinality(Openers') =< Cardinality(Programs)
    <3>1. Openers' \in SUBSET Programs
      BY DEF Openers
    <3> QED
      BY <3>1, LifecycleAssumption, FS_Subset, FS_CardinalityType
  <2>2. Cardinality(Programs) \in Nat
    BY LifecycleAssumption, FS_CardinalityType
  <2> QED
    BY <2>1, <2>2, <1>6
<1> QED
  BY <1>1, <1>2, <1>3, <1>5, <1>6, <1>7 DEF TypeOK

\* and the process touches only what is its own.
LEMMA ProcessTypes ==
  ASSUME OpenInv, NEW i \in Procs, Process(i)
  PROVE  OpenInv'
<1> USE DEF OpenInv
<1>1. UNCHANGED <<lib, held, lost, broken, openCnt, expunge_tasks, pc, reopened, overlapped>>
  BY DEF Process, Starts, Sleeps, Wakes, ClosesTimer, Counts, Stores, Leaves, Falls, libVars, countVars, history
<1>2. timer_device_open' \in BOOLEAN /\ torn' \in BOOLEAN
  BY Zenon DEF TypeOK, Process, Starts, Sleeps, Wakes, ClosesTimer, Counts, Stores, Leaves, Falls, timerVars, history
<1>3. proc' \in [Procs -> {"none", "crashed"} \cup Stages]
  BY DEF TypeOK, Stages, Turns, Process, Starts, Sleeps, Wakes, ClosesTimer, Counts, Stores, Leaves, Falls
<1>4. spawn_count' \in Int /\ loaded' \in [Procs -> Int]
  BY DEF TypeOK, Process, Starts, Sleeps, Wakes, ClosesTimer, Counts, Stores, Leaves, Falls, countVars
<1>5. /\ TimerMP' \in {"NULL", "port", "freed"} /\ TimerIO' \in {"NULL", "unopened", "open"}
      /\ forgotten' \subseteq {"port", "request", "device"}
  BY DEF TypeOK, OldPort, OldRequest, Process, Starts, Sleeps, Wakes, ClosesTimer, Counts, Stores, Leaves, Falls, timerVars
<1>6. Openers' = Openers
  BY <1>1 DEF Openers
<1> QED
  BY <1>1, <1>2, <1>3, <1>4, <1>5, <1>6 DEF TypeOK

LEMMA OpenInvHolds == Spec => []OpenInv
<1>1. OpenInv /\ [Next]_vars => OpenInv'
  <2> SUFFICES ASSUME OpenInv, [Next]_vars PROVE OpenInv'
    OBVIOUS
  <2>1. CASE UNCHANGED vars
    BY <2>1 DEF vars, libVars, countVars, timerVars, history, OpenInv, TypeOK, Openers
  <2> QED
    BY <2>1, LibTypes, ProgramTypes, ProcessTypes DEF Next
<1> QED
  BY <1>1, OpenInvStarts, PTL DEF Spec

-----------------------------------------------------------------------------
(***************************************************************************)
(* The count of the processes, and what they have of the timer.            *)
(***************************************************************************)
Consoles == {p \in Programs : pc[p] = "console"}
NobodyWaits == \A p \in Programs : pc[p] # "wait"

\* A change of the count is overwritten only after a reopening; without one
\* there is one process, whose reading of the count is current, and none at
\* all while the console is opened.
CountOK ==
  /\ torn => reopened
  /\ ~torn => spawn_count = Cardinality(Counted)
  /\ ~torn /\ openCnt = 0 /\ NobodyWaits => Counted = {}
  /\ ~reopened =>
       /\ \A i, j \in Counted : i = j
       /\ \A p, q \in Consoles : p = q
       /\ Consoles # {} => Counted = {}
       /\ \A i \in Procs : proc[i] = "storing" => loaded[i] = spawn_count

\* Whoever has something of the timer has still to give it back.
TimerHeld == TimerMP # "NULL" \/ TimerIO # "NULL" \/ timer_device_open
TimerOK == TimerHeld => \E i \in Procs : proc[i] \in {"loop", "asleep", "closing", "crashed"}
\* Nothing is written over while there is one process: it finds nothing there.
KeepsAll == forgotten # {} => reopened
\* The code's data is gone when lib = "unloaded".
CountInv == (torn => reopened) /\ (lib # "unloaded" => CountOK) /\ TimerOK /\ KeepsAll

UseInv ==
  /\ expunge_tasks => openCnt = 0
  /\ lib = "ready" => held = AllParts
  /\ openCnt > 0 => lib = "ready" \/ overlapped

\* What is left at each step of close_libs.
StageInv ==
  /\ lib \in {"puh", "ahi", "libs", "remove", "none", "unloaded"} => held \cap Mutexes = {}
  /\ lib \in {"ahi", "libs", "remove", "none", "unloaded"} => held \cap Range(init_nallepuh) = {}
  /\ lib \in {"libs", "remove", "none", "unloaded"} => held \cap Range(OpenAHI) = {}
  /\ lib \in {"remove", "none", "unloaded"} => held = {}
  /\ lib \in {"ready", "locks", "puh"} /\ "AudioCtrl" \in held => "IAHI" \in held
  /\ lib \in {"ready", "locks"} => "IDOS" \in held \/ lost \in {"DOSBase", "IDOS", "IAHI"}
  /\ broken => lib \in {"locks", "puh", "ahi", "libs"} /\ lost \in {"DOSBase", "IDOS", "IAHI"}

-----------------------------------------------------------------------------
(***************************************************************************)
(* What an opener has, and what is left while it is given back.            *)
(***************************************************************************)

LEMMA UseStarts == Init => UseInv /\ StageInv
  BY DEF Init, UseInv, StageInv

\* Loading and unloading,
LEMMA UseLib ==
  ASSUME OpenInv, UseInv, Load \/ Expunge \/ close_libs \/ Remove
  PROVE  UseInv'
<1>0. openCnt \in Nat /\ openCnt' = openCnt
  BY DEF OpenInv, TypeOK, Load, Expunge, close_libs, Remove, countVars
<1>1. CASE Load
  <2>1. lib = "none" /\ (lib' = "ready" => held' = AllParts) /\ UNCHANGED <<expunge_tasks, overlapped>>
    BY <1>1 DEF Load, countVars, history
  <2> QED
    BY <1>0, <2>1 DEF UseInv
<1>2. CASE Expunge
  BY <1>0, <1>2 DEF Expunge, countVars, UseInv
<1>3. CASE close_libs
  <2>1. lib # "ready" /\ (lib' = lib \/ lib' # "ready") /\ UNCHANGED <<expunge_tasks, overlapped>>
    BY <1>3 DEF close_libs, FreeLocks, FreePuh, CloseAHI, CloseLibs, Release, countVars, history
  <2> QED
    BY <1>0, <2>1 DEF UseInv
<1>4. CASE Remove
  BY <1>0, <1>4 DEF Remove, history, UseInv
<1> QED
  BY <1>1, <1>2, <1>3, <1>4

\* programs, and the process.
LEMMA UseOthers ==
  ASSUME OpenInv, UseInv, (\E p \in Programs : Program(p)) \/ (\E i \in Procs : Process(i))
  PROVE  UseInv'
<1>0. openCnt \in Nat
  BY DEF OpenInv, TypeOK
<1>1. ASSUME NEW p \in Programs, Program(p) PROVE UseInv'
  <2>1. CASE OpenFirst(p)
    BY <1>0, <2>1 DEF OpenFirst, libVars, UseInv
  <2>2. CASE OpenAgain(p)
    <3>1. openCnt # 0 /\ UNCHANGED <<lib, held, expunge_tasks>>
      BY <1>0, <2>2 DEF OpenAgain, libVars
    <3>2. lib = "ready" \/ overlapped'
      BY <2>2, Zenon DEF OpenAgain
    <3> QED
      BY <1>0, <3>1, <3>2 DEF UseInv
  <2>3. CASE Spawn(p)
    BY <1>0, <2>3 DEF Spawn, libVars, history, UseInv
  <2>4. CASE Close(p)
    <3>1. openCnt' = openCnt - 1 /\ UNCHANGED <<lib, held, overlapped>>
      BY <2>4 DEF Close, libVars, history
    <3>2. openCnt # 1 => expunge_tasks' = expunge_tasks
      BY <2>4 DEF Close
    <3>3. openCnt # 0
      <4>1. p \in Openers
        BY <2>4 DEF Close, Openers
      <4> QED
        BY <4>1, OpenersFinite, FS_EmptySet DEF OpenInv
    <3> QED
      BY <1>0, <3>1, <3>2, <3>3 DEF UseInv
  <2>5. CASE WaitEnds(p)
    BY <1>0, <2>5 DEF WaitEnds, libVars, countVars, history, UseInv
  <2> QED
    BY <1>1, <2>1, <2>2, <2>3, <2>4, <2>5 DEF Program
<1>2. ASSUME NEW i \in Procs, Process(i) PROVE UseInv'
  <2>1. UNCHANGED <<lib, held, openCnt, expunge_tasks, overlapped>>
    BY <1>2 DEF Process, Starts, Sleeps, Wakes, ClosesTimer, Counts, Stores, Leaves, Falls, libVars, countVars, history
  <2> QED
    BY <2>1 DEF UseInv
<1> QED
  BY <1>1, <1>2

\* Only loading and close_libs touch what is held.
LEMMA StageLib ==
  ASSUME OpenInv, UseInv, StageInv, Load \/ Expunge \/ close_libs \/ Remove
  PROVE  StageInv'
<1>0. /\ lib \in {"none", "ready", "unloaded"} \cup TearingDown /\ held \subseteq AllParts
  BY DEF OpenInv, TypeOK
<1>1. CASE Load
  <2>0. lib = "none" /\ ~broken
    BY <1>1 DEF Load, StageInv
  <2>1. CASE lib' = "ready" /\ held' = AllParts /\ lost' = "nothing" /\ UNCHANGED broken
    <3>1. "IAHI" \in AllParts /\ "IDOS" \in AllParts
      BY PartsInOrder, PartsKnown
    <3> QED
      BY <2>0, <2>1, <3>1 DEF StageInv
  <2>2. ASSUME NEW k \in DOMAIN Parts, held' = {Parts[j] : j \in 1 .. k - 1},
               lost' = Parts[k], lib' = "locks", UNCHANGED broken
        PROVE  StageInv'
    BY <2>0, <2>2, PartsBefore DEF StageInv
  <2>3. CASE held' = {} /\ lost' = "IAHI" /\ lib' = "locks"
    BY <2>3 DEF StageInv
  <2> QED
    BY <1>1, <2>1, <2>2, <2>3 DEF Load
<1>2. CASE Expunge
  BY <1>2 DEF Expunge, StageInv
<1>3. CASE close_libs
  <2>0. lost' = lost
    BY <1>3 DEF close_libs
  <2>1. CASE FreeLocks
    <3>1. /\ lib = "locks" /\ ~broken
          /\ \/ held' = held \ Mutexes /\ lib' = "puh" /\ broken' = broken
             \/ held' = held /\ lib' = lib /\ "IDOS" \notin held
      BY <2>1 DEF FreeLocks, Release, MessageNeeds
    <3>2. CASE held' = held \ Mutexes /\ lib' = "puh" /\ broken' = broken
      BY <2>0, <3>1, <3>2, PartsTogether DEF StageInv
    <3>3. CASE held' = held /\ lib' = lib /\ "IDOS" \notin held
      BY <2>0, <3>1, <3>3 DEF StageInv
    <3> QED
      BY <3>1, <3>2, <3>3
  <2>2. CASE FreePuh
    <3>1. /\ lib = "puh" /\ ~broken
          /\ \/ held' = held \ Range(init_nallepuh) /\ lib' = "ahi" /\ broken' = broken
             \/ "AudioCtrl" \in held /\ "IAHI" \notin held
      BY <2>2 DEF FreePuh, Release
    <3> QED
      BY <2>0, <3>1, PartsTogether DEF StageInv
  <2>3. CASE CloseAHI
    BY <2>0, <2>3, PartsTogether DEF CloseAHI, Release, StageInv
  <2>4. CASE CloseLibs
    <3>1. lib = "libs" /\ ~broken /\ held' = held \ Range(Libraries) /\ UNCHANGED broken
          /\ lib' \in {"remove", "none"}
      BY <2>4 DEF CloseLibs, Release
    <3>2. AllParts = Mutexes \cup Range(init_nallepuh) \cup Range(OpenAHI) \cup Range(Libraries)
      <4>1. ASSUME NEW x \in AllParts
            PROVE  x \in Mutexes \cup Range(init_nallepuh) \cup Range(OpenAHI) \cup Range(Libraries)
        BY PartsInOrder, PartsTogether DEF AllParts, Range
      <4>2. Mutexes \cup Range(init_nallepuh) \cup Range(OpenAHI) \cup Range(Libraries) \subseteq AllParts
        BY PartsInOrder, PartsTogether, PartsKnown
      <4> QED
        BY <4>1, <4>2
    <3>3. held' = {}
      BY <1>0, <3>1, <3>2 DEF StageInv
    <3> QED
      BY <2>0, <3>1, <3>3 DEF StageInv
  <2> QED
    BY <1>3, <2>1, <2>2, <2>3, <2>4 DEF close_libs
<1>4. CASE Remove
  BY <1>4 DEF Remove, StageInv
<1> QED
  BY <1>1, <1>2, <1>3, <1>4

LEMMA StageOthers ==
  ASSUME StageInv, (\E p \in Programs : Program(p)) \/ (\E i \in Procs : Process(i))
  PROVE  StageInv'
<1>1. libVars' = libVars
  BY DEF Program, OpenFirst, OpenAgain, Spawn, Close, WaitEnds,
         Process, Starts, Sleeps, Wakes, ClosesTimer, Counts, Stores, Leaves, Falls
<1> QED
  BY <1>1 DEF libVars, StageInv

LEMMA UseHolds == Spec => [](UseInv /\ StageInv)
<1>1. OpenInv /\ UseInv /\ StageInv /\ [Next]_vars => UseInv' /\ StageInv'
  <2> SUFFICES ASSUME OpenInv, UseInv, StageInv, [Next]_vars PROVE UseInv' /\ StageInv'
    OBVIOUS
  <2>1. CASE UNCHANGED vars
    BY <2>1 DEF vars, libVars, countVars, history, UseInv, StageInv
  <2>2. CASE Load \/ Expunge \/ close_libs \/ Remove
    BY <2>2, UseLib, StageLib
  <2>3. CASE (\E p \in Programs : Program(p)) \/ (\E i \in Procs : Process(i))
    BY <2>3, UseOthers, StageOthers
  <2> QED
    BY <2>1, <2>2, <2>3 DEF Next
<1> QED
  BY <1>1, OpenInvHolds, UseStarts, PTL DEF Spec

-----------------------------------------------------------------------------
(***************************************************************************)
(* The count of the processes is kept.                                     *)
(***************************************************************************)

LEMMA CountStarts == Init => CountInv
<1> SUFFICES ASSUME Init PROVE CountInv
  OBVIOUS
<1>1. Counted = {} /\ Consoles = {} /\ spawn_count = 0
  BY DEF Init, Counted, Consoles, Stages
<1>2. spawn_count = Cardinality(Counted)
  BY <1>1, FS_EmptySet
<1>3. ~torn /\ \A i \in Procs : proc[i] # "storing"
  BY DEF Init
<1>4. CountOK
  BY <1>1, <1>2, <1>3 DEF CountOK
<1>5. TimerOK
  BY DEF Init, TimerOK, TimerHeld
<1>6. KeepsAll
  BY DEF Init, KeepsAll
<1> QED
  BY <1>3, <1>4, <1>5, <1>6 DEF CountInv

LEMMA CountedFinite == IsFiniteSet(Counted) /\ Cardinality(Counted) \in Nat
<1>1. Counted \in SUBSET Procs
  BY DEF Counted
<1> QED
  BY <1>1, LifecycleAssumption, FS_Subset, FS_CardinalityType

\* A step that leaves the count, the counted and the readings as they were.
LEMMA CountKept ==
  ASSUME CountOK, UNCHANGED <<spawn_count, torn, reopened>>,
         Counted' = Counted, Consoles' \subseteq Consoles,
         openCnt' = 0 /\ NobodyWaits' => openCnt = 0 /\ NobodyWaits,
         \A i \in Procs : proc'[i] = "storing" =>
            \/ proc[i] = "storing" /\ loaded'[i] = loaded[i]
            \/ loaded'[i] = spawn_count
  PROVE  CountOK'
<1>1. ~reopened => \A i \in Procs : proc'[i] = "storing" => loaded'[i] = spawn_count'
  BY DEF CountOK
<1>2. torn' => reopened'
  BY DEF CountOK
<1>3. ~torn' => spawn_count' = Cardinality(Counted')
  BY DEF CountOK
<1>4. ~torn' /\ openCnt' = 0 /\ NobodyWaits' => Counted' = {}
  BY DEF CountOK
<1>5. ~reopened' => /\ \A i, j \in Counted' : i = j
                    /\ \A p, q \in Consoles' : p = q
                    /\ Consoles' # {} => Counted' = {}
  BY DEF CountOK
<1> QED
  BY <1>1, <1>2, <1>3, <1>4, <1>5 DEF CountOK

LEMMA CountLib ==
  ASSUME CountInv, Load \/ Expunge \/ close_libs \/ Remove
  PROVE  CountInv'
<1>1. UNCHANGED <<openCnt, pc, proc, loaded, TimerMP, TimerIO, timer_device_open, forgotten, reopened, torn>>
  BY DEF Load, Expunge, close_libs, Remove, countVars, timerVars, history
<1>2. Counted' = Counted /\ Consoles' = Consoles /\ TimerHeld' = TimerHeld /\ NobodyWaits' = NobodyWaits
  BY <1>1 DEF Counted, Consoles, TimerHeld, NobodyWaits
<1>3. TimerOK' /\ KeepsAll' /\ (torn' => reopened')
  BY <1>1, <1>2 DEF CountInv, TimerOK, KeepsAll
<1>4. CASE Load \/ Expunge \/ close_libs
  <2>1. spawn_count' = spawn_count /\ lib # "unloaded"
    BY <1>4 DEF Load, Expunge, close_libs, FreeLocks, FreePuh, CloseAHI, CloseLibs, Release, countVars
  <2>2. CountOK'
    BY <1>1, <1>2, <2>1, CountKept DEF CountInv
  <2> QED
    BY <1>3, <2>2 DEF CountInv
<1>5. CASE Remove
  <2>1. CASE Deserted
    <3>1. Counted' = {} /\ Consoles' = {} /\ spawn_count' = 0
      BY <1>2, <1>5, <2>1 DEF Remove, Deserted, Counted, Consoles, Stages
    <3>2. spawn_count' = Cardinality(Counted')
      BY <3>1, FS_EmptySet
    <3>3. \A i \in Procs : proc'[i] # "storing"
      BY <1>1, <2>1 DEF Deserted
    <3>4. CountOK'
      BY <1>3, <3>1, <3>2, <3>3 DEF CountOK
    <3> QED
      BY <1>3, <3>4 DEF CountInv
  <2>2. CASE ~Deserted
    BY <1>3, <1>5, <2>2 DEF Remove, CountInv
  <2> QED
    BY <2>1, <2>2
<1> QED
  BY <1>4, <1>5

\* Programs: only a spawn adds to the count.
LEMMA CountProgram ==
  ASSUME OpenInv, CountInv, NEW p \in Programs, Program(p)
  PROVE  CountInv'
<1>0. pc \in [Programs -> {"out", "console", "in", "wait"}] /\ openCnt \in Nat /\ proc \in [Procs -> {"none", "crashed"} \cup Stages]
  BY DEF OpenInv, TypeOK
<1>1. UNCHANGED <<lib, TimerMP, TimerIO, timer_device_open, forgotten, torn, loaded>> /\ lib # "unloaded"
  BY DEF Program, OpenFirst, OpenAgain, Spawn, Close, WaitEnds, libVars, timerVars, history, Reachable
<1>2. CountOK
  BY <1>1 DEF CountInv
<1>3. TimerOK'
  <2>1. \A i \in Procs : proc[i] \in {"loop", "asleep", "closing", "crashed"} => proc'[i] = proc[i]
    BY <1>0 DEF Program, OpenFirst, OpenAgain, Spawn, Close, WaitEnds, Turns
  <2>2. TimerHeld' = TimerHeld
    BY <1>1 DEF TimerHeld
  <2>3. TimerOK
    BY DEF CountInv
  <2> QED
    BY <2>1, <2>2, <2>3 DEF TimerOK
<1>4. CountOK' => CountInv'
  <2>1. reopened => reopened'
    BY Zenon DEF Program, OpenFirst, OpenAgain, Spawn, Close, WaitEnds, history
  <2>2. KeepsAll'
    BY <1>1, <2>1 DEF CountInv, KeepsAll
  <2> QED
    BY <1>3, <2>2 DEF CountInv, CountOK
<1>5. CASE OpenFirst(p)
  <2>1. openCnt = 0 /\ openCnt' = 1 /\ UNCHANGED <<proc, spawn_count>> /\ Goes(p, "console")
    BY <1>5 DEF OpenFirst, init_cia_process
  <2>2. (reopened => reopened') /\ (~NobodyWaits => reopened')
    BY <1>5 DEF OpenFirst, NobodyWaits
  <2>3. Consoles = {}
    <3>1. Openers = {}
      BY <2>1, OpenersFinite, FS_EmptySet DEF OpenInv
    <3> QED
      BY <3>1 DEF Openers, Consoles
  <2>4. Consoles' \subseteq {p}
    BY <1>0, <2>1, <2>3 DEF Consoles, Goes
  <2>5. Counted' = Counted
    BY <2>1 DEF Counted
  <2>6. ~reopened' => Counted' = {}
    BY <1>2, <2>1, <2>2, <2>5 DEF CountOK
  <2>7. \A i \in Procs : proc'[i] = "storing" => i \in Counted'
    BY <2>1 DEF Counted, Stages
  <2>8. CountOK'
    BY <1>1, <1>2, <2>1, <2>2, <2>4, <2>5, <2>6, <2>7 DEF CountOK
  <2> QED
    BY <1>4, <2>8
<1>6. CASE OpenAgain(p)
  <2>1. openCnt' # 0 /\ UNCHANGED <<proc, spawn_count, reopened>> /\ Goes(p, "in")
    BY <1>0, <1>6 DEF OpenAgain
  <2>2. Consoles' \subseteq Consoles /\ Counted' = Counted
    BY <1>0, <2>1 DEF Consoles, Goes, Counted
  <2> QED
    BY <1>1, <1>2, <1>4, <2>1, <2>2, CountKept
<1>7. CASE Spawn(p)
  <2>1. p \in Consoles /\ openCnt # 0
    <3>1. p \in Openers /\ p \in Consoles
      BY <1>7 DEF Spawn, Openers, Consoles
    <3> QED
      BY <3>1, OpenersFinite, FS_EmptySet DEF OpenInv
  <2>2. Consoles' \subseteq Consoles \ {p} /\ UNCHANGED <<openCnt, reopened>>
    BY <1>0, <1>7 DEF Spawn, Consoles, Goes, history
  <2>3. CASE UNCHANGED <<proc, spawn_count>>
    <3>1. Counted' = Counted
      BY <2>3 DEF Counted
    <3> QED
      BY <1>1, <1>2, <1>4, <2>1, <2>2, <2>3, <3>1, CountKept
  <2>4. ASSUME NEW i \in Procs, proc[i] = "none", Turns(i, "start"), spawn_count' = spawn_count + 1
        PROVE  CountInv'
    <3>1. i \notin Counted /\ Counted' = Counted \cup {i}
      BY <1>0, <2>4 DEF Counted, Turns, Stages
    <3>2. Cardinality(Counted') = Cardinality(Counted) + 1
      BY <3>1, CountedFinite, FS_AddElement
    <3>3. ~torn' => spawn_count' = Cardinality(Counted')
      BY <1>1, <1>2, <2>4, <3>2 DEF CountOK
    <3>4. ASSUME ~reopened'
          PROVE  Counted' = {i} /\ Consoles' = {} /\ \A j \in Procs : proc'[j] # "storing"
      <4>1. Counted = {} /\ Consoles = {p}
        BY <1>2, <2>1, <2>2, <3>4 DEF CountOK
      <4>2. \A j \in Procs : proc'[j] # "storing"
        BY <1>0, <2>4, <4>1 DEF Turns, Counted, Stages
      <4> QED
        BY <2>2, <3>1, <4>1, <4>2
    <3>5. CountOK'
      BY <1>1, <1>2, <2>1, <2>2, <3>3, <3>4 DEF CountOK
    <3> QED
      BY <1>4, <3>5
  <2> QED
    BY <1>7, <2>3, <2>4 DEF Spawn
<1>8. CASE Close(p)
  <2>1. /\ UNCHANGED <<proc, spawn_count, reopened>>
        /\ \E place \in {"out", "wait"} : Goes(p, place)
    BY <1>8 DEF Close, history
  <2>2. Consoles' \subseteq Consoles /\ Counted' = Counted
    BY <1>0, <2>1 DEF Consoles, Goes, Counted
  <2>3. openCnt' = 0 => ~NobodyWaits'
    BY <1>0, <1>8 DEF Close, NobodyWaits, Goes
  <2> QED
    BY <1>1, <1>2, <1>4, <2>1, <2>2, <2>3, CountKept
<1>9. CASE WaitEnds(p)
  <2>1. UNCHANGED <<proc, spawn_count, reopened, openCnt>> /\ Goes(p, "out") /\ spawn_count = 0
    BY <1>9 DEF WaitEnds, history, countVars
  <2>2. Consoles' \subseteq Consoles /\ Counted' = Counted
    BY <1>0, <2>1 DEF Consoles, Goes, Counted
  <2>3. ~torn => Counted = {}
    BY <1>2, <2>1, CountedFinite, FS_EmptySet DEF CountOK
  <2>4. CountOK'
    BY <1>1, <1>2, <2>1, <2>2, <2>3 DEF CountOK
  <2> QED
    BY <1>4, <2>4
<1> QED
  BY <1>5, <1>6, <1>7, <1>8, <1>9 DEF Program

\* Processes: the count falls by one, with the reading that was taken of it.
LEMMA CountProcess ==
  ASSUME OpenInv, CountInv, NEW i \in Procs, Process(i)
  PROVE  CountInv'
<1>0. /\ proc \in [Procs -> {"none", "crashed"} \cup Stages] /\ loaded \in [Procs -> Int]
      /\ spawn_count \in Int
  BY DEF OpenInv, TypeOK
<1>1. UNCHANGED <<lib, openCnt, pc, reopened>>
  BY DEF Process, Starts, Sleeps, Wakes, ClosesTimer, Counts, Stores, Leaves, Falls, libVars, countVars, history
<1>2. Consoles' = Consoles /\ NobodyWaits' = NobodyWaits
  BY <1>1 DEF Consoles, NobodyWaits
<1>3. TimerOK'
  <2>1. TimerOK
    BY DEF CountInv
  <2>2. CASE ClosesTimer(i)
    BY <2>2 DEF ClosesTimer, TimerOK, TimerHeld
  <2>3. CASE Starts(i) \/ Sleeps(i) \/ Wakes(i) \/ Falls(i)
    <3>1. proc'[i] \in {"loop", "asleep", "closing", "crashed"}
      BY <1>0, <2>3 DEF Starts, Sleeps, Wakes, Falls, Turns
    <3> QED
      BY <3>1 DEF TimerOK
  <2>4. CASE Counts(i) \/ Stores(i) \/ Leaves(i)
    <3>1. TimerHeld' = TimerHeld
      BY <2>4 DEF Counts, Stores, Leaves, timerVars, TimerHeld
    <3>2. \A j \in Procs : proc[j] \in {"loop", "asleep", "closing", "crashed"} => proc'[j] = proc[j]
      BY <1>0, <2>4 DEF Counts, Stores, Leaves, Turns
    <3> QED
      BY <2>1, <3>1, <3>2 DEF TimerOK
  <2> QED
    BY <2>2, <2>3, <2>4 DEF Process
<1>4. KeepsAll'
  <2>1. ASSUME Starts(i), ~reopened PROVE forgotten' = forgotten
    <3>1. i \in Counted /\ proc[i] = "start" /\ lib # "unloaded"
      BY <2>1 DEF Starts, Counted, Stages
    <3>2. \A j \in Procs : proc[j] \in {"loop", "asleep", "closing", "crashed"} => j \in Counted
      BY DEF Counted, Stages
    <3>3. ~TimerHeld
      BY <2>1, <3>1, <3>2 DEF CountInv, CountOK, TimerOK
    <3> QED
      BY <2>1, <3>3 DEF Starts, TimerHeld, OldPort, OldRequest
  <2>2. Starts(i) \/ forgotten' = forgotten
    BY DEF Process, Sleeps, Wakes, ClosesTimer, Counts, Stores, Leaves, Falls, timerVars
  <2> QED
    BY <1>1, <2>1, <2>2 DEF CountInv, KeepsAll
<1>5. CASE Falls(i)
  BY <1>1, <1>3, <1>4, <1>5 DEF Falls, history, CountInv
<1>6. CASE Starts(i) \/ Sleeps(i) \/ Wakes(i) \/ ClosesTimer(i) \/ Counts(i) \/ Leaves(i)
  <2>1. UNCHANGED <<spawn_count, torn>> /\ lib # "unloaded"
    BY <1>6 DEF Starts, Sleeps, Wakes, ClosesTimer, Counts, Leaves, countVars, history
  <2>2. Counted' = Counted
    BY <1>0, <1>6 DEF Starts, Sleeps, Wakes, ClosesTimer, Counts, Leaves, Turns, Counted, Stages
  <2>3. \A j \in Procs : proc'[j] = "storing" =>
           (proc[j] = "storing" /\ loaded'[j] = loaded[j]) \/ loaded'[j] = spawn_count
    BY <1>0, <1>6 DEF Starts, Sleeps, Wakes, ClosesTimer, Counts, Leaves, Turns
  <2>4. CountOK'
    BY <1>1, <1>2, <2>1, <2>2, <2>3, CountKept DEF CountInv
  <2> QED
    BY <1>1, <1>3, <1>4, <2>1, <2>4 DEF CountInv
<1>7. CASE Stores(i)
  <2>1. /\ lib # "unloaded" /\ proc[i] = "storing" /\ Turns(i, "leaving")
        /\ spawn_count' = loaded[i] - 1 /\ loaded' = [loaded EXCEPT ![i] = 0]
    BY <1>7 DEF Stores
  <2>2. (~torn' => ~torn /\ spawn_count = loaded[i]) /\ (torn' => torn \/ spawn_count # loaded[i])
    BY <1>7 DEF Stores
  <2>3. CountOK
    BY <2>1 DEF CountInv
  <2>4. i \in Counted /\ Counted' = Counted \ {i}
    BY <1>0, <2>1 DEF Counted, Turns, Stages
  <2>5. Cardinality(Counted') = Cardinality(Counted) - 1
    BY <2>4, CountedFinite, FS_RemoveElement
  <2>6. ~torn' => spawn_count' = Cardinality(Counted')
    BY <2>1, <2>2, <2>3, <2>5 DEF CountOK
  <2>7. torn' => reopened'
    BY <1>1, <2>1, <2>2, <2>3 DEF CountOK
  <2>8. ASSUME ~reopened' PROVE Counted' = {} /\ \A j \in Procs : proc'[j] # "storing"
    <3>1. Counted = {i}
      BY <1>1, <2>3, <2>4, <2>8 DEF CountOK
    <3>2. \A j \in Procs : proc[j] = "storing" => j \in Counted
      BY DEF Counted, Stages
    <3>3. proc'[i] = "leaving" /\ \A j \in Procs : j # i => proc'[j] = proc[j]
      BY <1>0, <2>1 DEF Turns
    <3> QED
      BY <2>4, <3>1, <3>2, <3>3
  <2>9. ~torn' /\ openCnt' = 0 /\ NobodyWaits' => Counted' = {}
    BY <1>1, <1>2, <2>2, <2>3, <2>4 DEF CountOK
  <2>10. CountOK'
    BY <1>1, <1>2, <2>3, <2>6, <2>7, <2>8, <2>9 DEF CountOK
  <2> QED
    BY <1>3, <1>4, <2>7, <2>10 DEF CountInv
<1> QED
  BY <1>5, <1>6, <1>7 DEF Process

LEMMA CountInvHolds == Spec => []CountInv
<1>1. OpenInv /\ CountInv /\ [Next]_vars => CountInv'
  <2> SUFFICES ASSUME OpenInv, CountInv, [Next]_vars PROVE CountInv'
    OBVIOUS
  <2>1. CASE UNCHANGED vars
    <3>1. UNCHANGED <<lib, spawn_count, openCnt, torn, reopened, pc, proc, loaded, TimerMP, TimerIO, timer_device_open, forgotten>>
      BY <2>1 DEF vars, libVars, countVars, timerVars, history
    <3>2. TimerOK' = TimerOK /\ Counted' = Counted /\ Consoles' = Consoles /\ NobodyWaits' = NobodyWaits
                 /\ KeepsAll' = KeepsAll
      BY <3>1 DEF TimerOK, TimerHeld, Counted, Consoles, NobodyWaits, KeepsAll
    <3> QED
      BY <3>1, <3>2, CountKept DEF CountInv
  <2> QED
    BY <2>1, CountLib, CountProgram, CountProcess DEF Next
<1> QED
  BY <1>1, OpenInvHolds, CountStarts, PTL DEF Spec

-----------------------------------------------------------------------------
(* The properties.                                                         *)

\* There is one CIA process and the count is right, but for a reopening while
\* a program waits in libClose (spawn.c, init.c:94-148).
THEOREM ProcessesAreCountedHolds == Spec => []ProcessesAreCounted
<1>1. OpenInv /\ CountInv => ProcessesAreCounted
  BY DEF OpenInv, CountInv, CountOK, ProcessesAreCounted, OneProcess, CountsProcesses
<1> QED
  BY <1>1, OpenInvHolds, CountInvHolds, PTL

\* Once everybody is back from libClose the process is past its count, the variables
\* of the timer device are clear again, and unless the library was opened while a program
\* waited in libClose nothing was written over that had to be given back
\* (cia_process.c:120-128, timer_device.c).
THEOREM QuietWhenClosedHolds == Spec => []QuietWhenClosed
<1>1. OpenInv /\ CountInv => QuietWhenClosed
  <2> SUFFICES ASSUME OpenInv, CountInv, lib = "ready", \A p \in Programs : pc[p] = "out", ~torn
               PROVE  /\ \A i \in Procs : proc[i] \in {"none", "leaving"}
                      /\ TimerMP = "NULL" /\ TimerIO = "NULL" /\ ~timer_device_open
                      /\ forgotten = {} \/ reopened
    BY DEF QuietWhenClosed
  <2>1. Openers = {} /\ NobodyWaits
    BY DEF Openers, NobodyWaits
  <2>2. openCnt = 0
    BY <2>1, FS_EmptySet DEF OpenInv
  <2>3. Counted = {}
    BY <2>1, <2>2 DEF CountInv, CountOK
  <2>4. \A i \in Procs : proc[i] \in {"none", "leaving"}
    BY <2>3 DEF OpenInv, TypeOK, Counted, Stages
  <2>5. ~TimerHeld
    BY <2>4 DEF CountInv, TimerOK
  <2> QED
    BY <2>4, <2>5 DEF TimerHeld, CountInv, KeepsAll
<1> QED
  BY <1>1, OpenInvHolds, CountInvHolds, PTL

\* What a program has opened is complete, and is not taken away from it, unless
\* an expunge met somebody, nor is the process told to end (init.c:94-148 and 150-272).
THEOREM OpenMeansUsableHolds == Spec => []OpenMeansUsable
<1>1. OpenInv /\ UseInv => OpenMeansUsable
  <2> SUFFICES ASSUME OpenInv, UseInv, NEW p \in Programs, pc[p] \in {"console", "in"}
               PROVE  ((lib = "ready" /\ held = AllParts) \/ overlapped) /\ ~expunge_tasks
    BY DEF OpenMeansUsable
  <2>1. openCnt # 0
    <3>1. p \in Openers
      BY DEF Openers
    <3> QED
      BY <3>1, OpenersFinite, FS_EmptySet DEF OpenInv
  <2>2. openCnt > 0
    BY <2>1 DEF OpenInv, TypeOK
  <2> QED
    BY <2>2 DEF UseInv
<1> QED
  BY <1>1, OpenInvHolds, UseHolds, PTL

\* close_libs gives back what init() acquired and uses only what is there, but
\* for a missing dos.library and a missing AHI interface (init.c:150-272).
THEOREM UnloadIsCleanHolds == Spec => []UnloadIsClean
<1>1. StageInv => UnloadIsClean
  BY DEF StageInv, UnloadIsClean
<1> QED
  BY <1>1, UseHolds, PTL
=============================================================================
