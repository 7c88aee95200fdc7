----------------------------- MODULE Lifecycle -----------------------------
(***************************************************************************)
(* The life of the library: loading and its partial failures (init.c,      *)
(* lock.c, Nalle.c), opening and closing by programs, the CIA process that *)
(* the first opener starts and the last closer ends (spawn.c,              *)
(* cia_process.c, timer_device.c), and the expunge.                        *)
(*                                                                         *)
(* exec calls libOpen, libClose and libExpunge with task switching         *)
(* forbidden, but whatever waits lets other tasks run: the console opened  *)
(* by __init_cia_process__, the Delay in wait_spawns, the devices and      *)
(* libraries closed by the expunge.  A step here is what runs in between.  *)
(***************************************************************************)
EXTENDS Integers, FiniteSets, Sequences, Functions

CONSTANTS
  Programs,   \* the tasks that open and close the library
  Procs       \* the most CIA processes there can be at a time

ASSUME LifecycleAssumption == IsFiniteSet(Programs) /\ IsFiniteSet(Procs)

\* What the parts of init() acquire, in this order.  As built, setup_mem_banks,
\* the last of them, fills tables, acquires nothing and cannot fail.
Libraries == <<"DOSBase", "IDOS", "NewLibBase", "INewlib", "UtilityBase", "IUtility">>
OpenAHI == <<"AHImp", "AHIio", "AHIDevice", "IAHI">>
AllocPUH == <<"pd">>
InstallPUH == <<"AudioCtrl">>
init_nallepuh == AllocPUH \o InstallPUH
lock_init == <<"cia_mx", "event_mx", "blitter_mx">>
Parts == Libraries \o OpenAHI \o init_nallepuh \o lock_init

Mutexes == Range(lock_init)
AllParts == Range(Parts)

VARIABLES
  lib,          \* "none", "ready", a step of close_libs, or "unloaded"
  held,         \* the parts acquired and not yet released
  lost,         \* what init() could not acquire: a part, or "nothing"
  broken,       \* was a missing part used?
  openCnt,
  expunge_tasks,
  spawn_count,
  pc,           \* where each program is
  proc,         \* where each CIA process is
  loaded,       \* the spawn_count a dying process has read
  TimerMP, TimerIO, timer_device_open,
  forgotten,    \* history: what of the timer device no variable leads to any more
  reopened,     \* history: was the library opened while a program waited in libClose?
  torn,         \* history: was a change of spawn_count overwritten?
  overlapped    \* history: did an expunge meet a process or an opener?

libVars == <<lib, held, lost, broken>>
countVars == <<openCnt, expunge_tasks, spawn_count>>
timerVars == <<TimerMP, TimerIO, timer_device_open, forgotten>>
history == <<reopened, torn, overlapped>>
vars == <<libVars, countVars, timerVars, history, pc, proc, loaded>>

TearingDown == {"locks", "puh", "ahi", "libs", "remove"}
Stages == {"start", "loop", "asleep", "closing", "counting", "storing", "leaving"}

TypeOK ==
  /\ lib \in {"none", "ready", "unloaded"} \cup TearingDown
  /\ held \subseteq AllParts
  /\ lost \in AllParts \cup {"nothing"}
  /\ openCnt \in 0 .. Cardinality(Programs)
  /\ spawn_count \in Int
  /\ broken \in BOOLEAN /\ expunge_tasks \in BOOLEAN /\ timer_device_open \in BOOLEAN
  /\ reopened \in BOOLEAN /\ torn \in BOOLEAN /\ overlapped \in BOOLEAN
  /\ pc \in [Programs -> {"out", "console", "in", "wait"}]
  /\ proc \in [Procs -> {"none", "crashed"} \cup Stages]
  /\ loaded \in [Procs -> Int]
  /\ TimerMP \in {"NULL", "port", "freed"}
  /\ TimerIO \in {"NULL", "unopened", "open"}
  /\ forgotten \subseteq {"port", "request", "device"}

Init ==
  /\ lib = "none" /\ held = {} /\ lost = "nothing" /\ broken = FALSE
  /\ openCnt = 0 /\ expunge_tasks = FALSE /\ spawn_count = 0
  /\ pc = [p \in Programs |-> "out"]
  /\ proc = [i \in Procs |-> "none"] /\ loaded = [i \in Procs |-> 0]
  /\ TimerMP = "NULL" /\ TimerIO = "NULL" /\ timer_device_open = FALSE /\ forgotten = {}
  /\ reopened = FALSE /\ torn = FALSE /\ overlapped = FALSE

Alive(i) == proc[i] \in Stages
\* Those that have not yet given their count back.
Counted == {i \in Procs : proc[i] \in {"crashed"} \cup (Stages \ {"leaving"})}
\* Nobody's program counter is in the library's code.
Deserted == (\A i \in Procs : proc[i] = "none") /\ (\A p \in Programs : pc[p] = "out")
Goes(p, place) == pc' = [pc EXCEPT ![p] = place]
Turns(i, stage) == proc' = [proc EXCEPT ![i] = stage]

-----------------------------------------------------------------------------
(* Loading and unloading (init.c 150-272).                                 *)

\* libInit: init() acquires the parts in order until one is missing.
Load ==
  /\ lib = "none"
  /\ \/ lib' = "ready" /\ held' = AllParts /\ lost' = "nothing" /\ UNCHANGED broken
     \/ \E k \in DOMAIN Parts :
          /\ Parts[k] # "IAHI"
          /\ held' = {Parts[j] : j \in 1 .. k - 1}
          /\ lost' = Parts[k] /\ lib' = "locks" /\ UNCHANGED broken
     \* OpenAHI does not look whether it got the interface; InstallPUH calls it
     \/ held' = {} /\ lost' = "IAHI" /\ lib' = "locks" /\ broken' = TRUE
  /\ UNCHANGED <<countVars, timerVars, history, pc, proc, loaded>>

\* Mutant: the open count is not looked at.
ExpungeAlways ==
  /\ lib = "ready"
  /\ lib' = "locks"
  /\ overlapped' = (overlapped \/ \E i \in Procs : proc[i] # "none")
  /\ UNCHANGED <<held, lost, broken, countVars, timerVars, reopened, torn, pc, proc, loaded>>

\* libExpunge, for which only the open count matters.
Expunge ==
  /\ lib = "ready" /\ openCnt = 0
  /\ lib' = "locks"
  /\ overlapped' = (overlapped \/ ~Deserted)
  /\ UNCHANGED <<held, lost, broken, countVars, timerVars, reopened, torn, pc, proc, loaded>>

\* One step of close_libs: releases those of `parts` that are there, using
\* `needs` on the way, and goes on to `next`.
Release(step, parts, needs, next) ==
  /\ lib = step /\ ~broken
  /\ IF needs \subseteq held
       THEN held' = held \ parts /\ lib' = next /\ UNCHANGED broken
       ELSE broken' = TRUE /\ UNCHANGED <<held, lib>>

\* Without an AHI interface close_libs says so through IDOS.
MessageNeeds == IF "IAHI" \in held THEN {} ELSE {"IDOS"}

\* Mutant: blitter_mx is forgotten.
FreeLocksTwo == Release("locks", {"cia_mx", "event_mx"}, MessageNeeds, "puh")

\* close_libs begins with that message, and lock_cleanup.
FreeLocks == Release("locks", Mutexes, MessageNeeds, "puh")

\* cleanup_nallepuh: UninstallPUH frees the audio through the interface.
FreePuh == Release("puh", Range(init_nallepuh), IF "AudioCtrl" \in held THEN {"IAHI"} ELSE {}, "ahi")

CloseAHI == Release("ahi", Range(OpenAHI), {}, "libs")

CloseLibs ==
  Release("libs", Range(Libraries), {}, IF lost = "nothing" THEN "remove" ELSE "none")

close_libs ==
  /\ FreeLocks \/ FreePuh \/ CloseAHI \/ CloseLibs
  /\ UNCHANGED <<lost, countVars, timerVars, history, pc, proc, loaded>>

\* The end of libExpunge; exec unloads the code, and the next load finds
\* fresh data.  Whoever is still inside is inside code that is gone.
Remove ==
  /\ lib = "remove"
  /\ lib' = IF Deserted THEN "none" ELSE "unloaded"
  /\ expunge_tasks' = FALSE /\ spawn_count' = 0
  /\ UNCHANGED <<held, lost, broken, openCnt, timerVars, history, pc, proc, loaded>>

-----------------------------------------------------------------------------
(* Programs: libOpen and libClose (init.c 94-148, spawn.c 24-66).          *)

Reachable == lib \notin {"none", "unloaded"} /\ lost = "nothing" /\ ~broken

\* __init_cia_process__ opens the console, which waits, and then spawns.
init_cia_process(p) == Goes(p, "console")

\* The first opener makes the tasks run, and goes on to the process.
OpenFirst(p) ==
  /\ pc[p] = "out" /\ Reachable /\ openCnt = 0
  /\ openCnt' = 1 /\ expunge_tasks' = FALSE
  /\ init_cia_process(p)
  /\ reopened' = (reopened \/ \E q \in Programs : pc[q] = "wait")
  /\ overlapped' = (overlapped \/ lib # "ready")
  /\ UNCHANGED <<libVars, spawn_count, timerVars, torn, proc, loaded>>

OpenAgain(p) ==
  /\ pc[p] = "out" /\ Reachable /\ openCnt > 0
  /\ openCnt' = openCnt + 1
  /\ Goes(p, "in")
  /\ overlapped' = (overlapped \/ lib # "ready")
  /\ UNCHANGED <<libVars, expunge_tasks, spawn_count, timerVars, reopened, torn, proc, loaded>>

\* Mutant: a process that could not be made is counted.
SpawnCountsFailure(p) ==
  /\ pc[p] = "console" /\ lib # "unloaded"
  /\ Goes(p, "in")
  /\ spawn_count' = spawn_count + 1
  /\ \/ UNCHANGED proc
     \/ \E i \in Procs : proc[i] = "none" /\ Turns(i, "start")
  /\ UNCHANGED <<libVars, openCnt, expunge_tasks, timerVars, history, loaded>>

\* spawn: CreateNewProcTags succeeds or not; the library is open either way.
Spawn(p) ==
  /\ pc[p] = "console" /\ lib # "unloaded"
  /\ Goes(p, "in")
  /\ \/ UNCHANGED <<proc, spawn_count>>
     \/ \E i \in Procs :
          /\ proc[i] = "none"
          /\ Turns(i, "start")
          /\ spawn_count' = spawn_count + 1
  /\ UNCHANGED <<libVars, openCnt, expunge_tasks, timerVars, history, loaded>>

\* Mutant: the last one forgets to tell the tasks.
CloseUntold(p) ==
  /\ pc[p] = "in" /\ lib # "unloaded"
  /\ openCnt' = openCnt - 1
  /\ Goes(p, IF openCnt = 1 THEN "wait" ELSE "out")
  /\ UNCHANGED <<libVars, expunge_tasks, spawn_count, timerVars, history, proc, loaded>>

\* libClose: the last one tells the tasks to end and waits for them.
Close(p) ==
  /\ pc[p] = "in" /\ lib # "unloaded"
  /\ openCnt' = openCnt - 1
  /\ IF openCnt = 1
       THEN expunge_tasks' = TRUE /\ Goes(p, "wait")
       ELSE UNCHANGED expunge_tasks /\ Goes(p, "out")
  /\ UNCHANGED <<libVars, spawn_count, timerVars, history, proc, loaded>>

\* wait_spawns looks once a tick.
WaitEnds(p) ==
  /\ pc[p] = "wait" /\ lib # "unloaded" /\ spawn_count = 0
  /\ Goes(p, "out")
  /\ UNCHANGED <<libVars, countVars, timerVars, history, proc, loaded>>

-----------------------------------------------------------------------------
(* The CIA process (cia_process.c 99-129, timer_device.c, spawn.c 18-22).  *)

\* What is lost when init_timer_device writes over the port or the request that an
\* older process still has: a freed port is nothing to lose.
OldPort == IF TimerMP = "port" THEN {"port"} ELSE {}
OldRequest == (IF TimerIO # "NULL" THEN {"request"} ELSE {})
              \cup (IF TimerIO = "open" THEN {"device"} ELSE {})

\* init_timer_device: a port, a request and the device, or what came of it.
Starts(i) ==
  /\ proc[i] = "start" /\ lib # "unloaded"
  /\ Turns(i, "loop")
  /\ \/ /\ TimerMP' = "NULL" /\ forgotten' = forgotten \cup OldPort
        /\ UNCHANGED <<TimerIO, timer_device_open>>
     \/ /\ forgotten' = forgotten \cup OldPort \cup OldRequest
        /\ \/ TimerMP' = "freed" /\ TimerIO' = "NULL" /\ UNCHANGED timer_device_open
           \/ TimerMP' = "port" /\ TimerIO' = "unopened" /\ UNCHANGED timer_device_open
           \/ TimerMP' = "port" /\ TimerIO' = "open" /\ timer_device_open' = TRUE
  /\ UNCHANGED <<libVars, countVars, history, pc, loaded>>

\* DoIO needs an opened request that nobody else has under way.
Sleeps(i) ==
  /\ proc[i] = "loop" /\ lib # "unloaded"
  /\ \/ TimerIO = "open" /\ Turns(i, "asleep")
     \/ /\ TimerIO # "open" \/ \E j \in Procs \ {i} : proc[j] = "asleep"
        /\ Turns(i, "crashed")
  /\ UNCHANGED <<libVars, countVars, timerVars, history, pc, loaded>>

\* The request comes back, do_cia takes event_mx, the loop looks at expunge_tasks.
Wakes(i) ==
  /\ proc[i] = "asleep" /\ lib # "unloaded"
  /\ \/ /\ "event_mx" \in held
        /\ Turns(i, IF expunge_tasks THEN "closing" ELSE "loop")
     \/ /\ TimerIO # "open" \/ ~(Mutexes \subseteq held)
        /\ Turns(i, "crashed")
  /\ UNCHANGED <<libVars, countVars, timerVars, history, pc, loaded>>

\* Mutant: the request and its port are kept.
ClosesDeviceOnly(i) ==
  /\ proc[i] = "closing" /\ lib # "unloaded"
  /\ Turns(i, "counting")
  /\ timer_device_open' = FALSE
  /\ UNCHANGED <<TimerIO, TimerMP, forgotten, libVars, countVars, history, pc, loaded>>

\* close_timer_device: it closes the device with whatever request is there, and frees
\* again a port that init_timer_device has freed.
ClosesTimer(i) ==
  /\ proc[i] = "closing" /\ lib # "unloaded"
  /\ Turns(i, IF TimerMP = "freed" \/ (timer_device_open /\ TimerIO # "open")
                 THEN "crashed" ELSE "counting")
  /\ timer_device_open' = FALSE /\ TimerIO' = "NULL" /\ TimerMP' = "NULL"
  /\ UNCHANGED <<forgotten, libVars, countVars, history, pc, loaded>>

\* spawn_died: spawn_count-- is a read and a write, and the code goes on.
Counts(i) ==
  /\ proc[i] = "counting" /\ lib # "unloaded"
  /\ Turns(i, "storing")
  /\ loaded' = [loaded EXCEPT ![i] = spawn_count]
  /\ UNCHANGED <<libVars, countVars, timerVars, history, pc>>

Stores(i) ==
  /\ proc[i] = "storing" /\ lib # "unloaded"
  /\ Turns(i, "leaving")
  /\ spawn_count' = loaded[i] - 1
  /\ torn' = (torn \/ spawn_count # loaded[i])
  /\ loaded' = [loaded EXCEPT ![i] = 0]
  /\ UNCHANGED <<libVars, openCnt, expunge_tasks, timerVars, reopened, overlapped, pc>>

Leaves(i) ==
  /\ proc[i] = "leaving" /\ lib # "unloaded"
  /\ Turns(i, "none")
  /\ UNCHANGED <<libVars, countVars, timerVars, history, pc, loaded>>

\* What runs in unloaded code crashes.
Falls(i) ==
  /\ Alive(i) /\ lib = "unloaded"
  /\ Turns(i, "crashed")
  /\ UNCHANGED <<libVars, countVars, timerVars, history, pc, loaded>>

-----------------------------------------------------------------------------

Program(p) == OpenFirst(p) \/ OpenAgain(p) \/ Spawn(p) \/ Close(p) \/ WaitEnds(p)

Process(i) ==
  \/ Starts(i) \/ Sleeps(i) \/ Wakes(i) \/ ClosesTimer(i)
  \/ Counts(i) \/ Stores(i) \/ Leaves(i) \/ Falls(i)

Next ==
  \/ Load \/ Expunge \/ close_libs \/ Remove
  \/ \E p \in Programs : Program(p)
  \/ \E i \in Procs : Process(i)

\* exec schedules every process, and a program inside a call goes on with it.
Fairness ==
  /\ \A i \in Procs : WF_vars(Process(i))
  /\ \A p \in Programs : WF_vars(Spawn(p)) /\ WF_vars(WaitEnds(p))

Spec == Init /\ [][Next]_vars /\ Fairness

-----------------------------------------------------------------------------
(* Properties.                                                             *)

\* libClose and libOpen keep to one CIA process, unless the library is opened
\* while another program still waits in wait_spawns: then the old process is
\* told to go on and a second one is started (init.c:123 and 144).
OneProcess == \A i, j \in Counted : i = j \/ reopened

\* wait_spawns waits for the right number: spawn_count is the number of processes
\* that still have to end, unless one change of it overwrote another, which
\* takes a reopening too.
CountsProcesses ==
  /\ spawn_count = Cardinality(Counted) \/ torn
  /\ torn => reopened

\* Both, until the data went with the code.
ProcessesAreCounted == TypeOK /\ (lib # "unloaded" => OneProcess /\ CountsProcesses)

\* When everybody has closed the library and come back from it, the process is
\* out of it, but for its last instructions after the count, nothing of the timer device
\* is left in its variables, and nothing was lost on the way: broken only by an
\* overwritten change of spawn_count, and, as to the last, by opening the library while
\* a program waits in libClose: then the second process writes its port, request and
\* device over the first one's, and nobody gives those back (timer_device.c:18-40).
QuietWhenClosed ==
  (lib = "ready" /\ \A p \in Programs : pc[p] = "out") =>
    \/ torn
    \/ /\ \A i \in Procs : proc[i] \in {"none", "leaving"}
       /\ TimerMP = "NULL" /\ TimerIO = "NULL" /\ ~timer_device_open
       /\ forgotten = {} \/ reopened

\* While a program has the library open, init() has succeeded and nothing of
\* it has been released, unless the expunge met somebody; and no process is told to
\* end, also where the last closer told it and another opener came (init.c:123).
OpenMeansUsable ==
  (\E p \in Programs : pc[p] \in {"console", "in"}) =>
    /\ (lib = "ready" /\ held = AllParts) \/ overlapped
    /\ ~expunge_tasks

\* close_libs releases all that a complete or partial init() acquired, and
\* uses only what is there; the exceptions are a missing dos.library, for which
\* it has no way to say so, and a missing AHI interface.
UnloadIsClean ==
  /\ lib = "none" => held = {}
  /\ broken => lost \in {"DOSBase", "IDOS", "IAHI"}

\* Whoever closes the library comes back, unless the process fell for want of a
\* timer, the library was opened again meanwhile, or it was expunged.
Crashed == \E i \in Procs : proc[i] = "crashed"
CloseReturns ==
  \A p \in Programs :
    pc[p] = "wait" ~> (pc[p] = "out" \/ (Crashed /\ TimerIO # "open") \/ reopened \/ overlapped)
=============================================================================
