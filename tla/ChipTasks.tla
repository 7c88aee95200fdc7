------------------------------ MODULE ChipTasks ------------------------------
(***************************************************************************)
(* The CIA process and the programs that call the library, step by step.   *)
(*                                                                         *)
(* do_cycles_slow runs the handlers under event_mx, and CIA_handler takes  *)
(* cia_mx; a timer write takes cia_mx, and its events_schedule event_mx.   *)
(* The blitter's handler rethinks the interrupts without cia_mx.  A task   *)
(* is the sequence of steps it has still to do: a step is a lock           *)
(* operation or one access to shared memory, and a call is the sequence of *)
(* the function's steps.  One timer runs (timer A of CIA-A, repeating, one *)
(* cycle a clock); the program starts a blit only when the last is done.   *)
(*                                                                         *)
(* The absolute times of the code are kept relative to cycles.  Left out   *)
(* are bit 7 of the icr and m_INTREQ (Cia and Paula have them); the        *)
(* blitter always has DMA (Blitter has the rest), and evtime is read and   *)
(* stored in one step.                                                     *)
(***************************************************************************)
EXTENDS Integers, Sequences, FiniteSetsExt

CONSTANTS
  Clients,     \* the tasks of the programs
  CiaProcess,  \* the process of cia_process.c
  Calls,       \* what the clients call: "restart", "read", "print", "blit"
  Chunk,       \* cycles one do_cycles_slow adds
  Reload,      \* the timer's latch
  BlitTime,    \* cycles a blit takes
  MaxSince     \* bound: cycles without an update before the process rests

Tasks   == Clients \cup {CiaProcess}
Mutexes == {"event_mx", "cia_mx"}
Nobody  == "nobody"
Flags   == {"TA", "FLG"}

ASSUME ChipTasksAssumption ==
  /\ CiaProcess \notin Clients /\ Nobody \notin Clients /\ Nobody # CiaProcess
  /\ Calls \subseteq {"restart", "read", "print", "blit"}
  /\ {Chunk, Reload, BlitTime} \subseteq Nat \ {0}
  /\ MaxSince \in Nat

VARIABLES
  mutex,    \* mutex[m]: its owner and how often the owner obtained it
  todo,     \* todo[t]: the steps task t has still to do
  reg,      \* reg[t]: what task t holds in registers
  icr,      \* pending sources of CIA-A
  left,     \* the timer's counter at the last update
  since,    \* cycles - oldcycles
  due,      \* due[slot]: evtime - cycles, Off, or Passed
  next,     \* nextevent - cycles, or Passed
  busy,     \* bltstate is not BLT_done
  owed,     \* history: sources raised and not yet read by a program
  torn      \* history: the icr changed under an unlocked rethink

vars == <<mutex, todo, reg, icr, left, since, due, next, busy, owed, torn>>

Off    == -1
Passed == -2
NoReg  == [add |-> 0, icr |-> {}, min |-> 0]

-----------------------------------------------------------------------------
(***************************************************************************)
(* The functions, as the steps they take.                                  *)
(***************************************************************************)
Obtain(m)  == <<[step |-> "obtain", mutex |-> m]>>
Release(m) == <<[step |-> "release", mutex |-> m]>>
Do(name)   == <<[step |-> name]>>
Raise(f)   == <<[step |-> "load"], [step |-> "raise", flag |-> f]>>
Locked(m, steps) == Obtain(m) \o steps \o Release(m)

\* Mutant: the scan of the slots is not protected.
EventsScheduleUnlocked == Do("scan") \o Do("set")

EventsSchedule == Locked("event_mx", Do("scan") \o Do("set"))

\* RethinkICRA reads the pending sources and writes them back with bit 7.
Rethink == Do("load") \o Do("store")

\* CIA_calctimers: oldcycles, evtime, events_schedule.
CalcTimers == Do("mark") \o Do("arm") \o EventsSchedule

CiaHandler == Locked("cia_mx", Do("update") \o CalcTimers)

BlitterHandler == Do("finish") \o Rethink \o Do("off")

DoCyclesSlow ==
  Locked("event_mx", Do("stop") \o Do("rest")) \o EventsSchedule

\* Mutant: the sources are read before the lock is taken.
ReadEarly == Do("take") \o Locked("cia_mx", Do("clear") \o Rethink)

Read    == Locked("cia_mx", Do("take") \o Do("clear") \o Rethink)
Restart == Locked("cia_mx", Do("update") \o Do("change") \o CalcTimers)
WritePrb == Locked("cia_mx", Raise("FLG"))

\* Mutant: a blit is started, and the interrupts rethought, under the lock of the events.
BlitRethinks ==
  Locked("event_mx", Do("start") \o Locked("cia_mx", Rethink)) \o EventsSchedule

Blit    == Do("start") \o EventsSchedule

Code(call) ==
  CASE call = "read"    -> Read
    [] call = "restart" -> Restart
    [] call = "print"   -> WritePrb
    [] call = "blit"    -> Blit

-----------------------------------------------------------------------------
Init ==
  /\ mutex = [m \in Mutexes |-> [owner |-> Nobody, depth |-> 0]]
  /\ todo = [t \in Tasks |-> <<>>]
  /\ reg = [t \in Tasks |-> NoReg]
  /\ icr = {}
  /\ left = Reload /\ since = 0
  /\ due = [cia |-> Reload, blitter |-> Off]
  /\ next = Reload
  /\ busy = FALSE
  /\ owed = {} /\ torn = FALSE

At(t, name) == todo[t] # <<>> /\ Head(todo[t]).step = name

\* Task t goes on, calling the steps of call first.
Goes(t, call) == todo' = [todo EXCEPT ![t] = call \o Tail(@)]

\* x cycles pass.
Later(d, x) == IF d < 0 THEN d ELSE IF d < x THEN Passed ELSE d - x
Elapse(x) ==
  /\ since' = since + x
  /\ due' = [slot \in DOMAIN due |-> Later(due[slot], x)]
  /\ next' = Later(next, x)

Memory == <<icr, left, since, due, next, busy, owed, torn>>

-----------------------------------------------------------------------------
Call(c) ==
  /\ todo[c] = <<>>
  /\ \E call \in Calls :
       /\ call = "blit" => ~busy
       /\ todo' = [todo EXCEPT ![c] = Code(call)]
  /\ UNCHANGED <<mutex, reg, Memory>>

Wake ==
  /\ todo[CiaProcess] = <<>>
  /\ since + Chunk <= MaxSince
  /\ todo' = [todo EXCEPT ![CiaProcess] = DoCyclesSlow]
  /\ reg' = [reg EXCEPT ![CiaProcess].add = Chunk]
  /\ UNCHANGED <<mutex, Memory>>

\* Mutexes are recursive.
ObtainMutex(t) ==
  /\ At(t, "obtain")
  /\ LET m == Head(todo[t]).mutex IN
       /\ mutex[m].owner \in {Nobody, t}
       /\ mutex' = [mutex EXCEPT ![m] = [owner |-> t, depth |-> @.depth + 1]]
  /\ Goes(t, <<>>)
  /\ UNCHANGED <<reg, Memory>>

ReleaseMutex(t) ==
  /\ At(t, "release")
  /\ LET m == Head(todo[t]).mutex IN
       mutex' = [mutex EXCEPT ![m] =
                   [owner |-> IF @.depth = 1 THEN Nobody ELSE t, depth |-> @.depth - 1]]
  /\ Goes(t, <<>>)
  /\ UNCHANGED <<reg, Memory>>

\* Lines 83 to 107: the process stops at nextevent and looks at its slots.
Stop(t) ==
  /\ At(t, "stop")
  /\ IF next >= 0 /\ reg[t].add > next
     THEN /\ Elapse(next)
          /\ reg' = [reg EXCEPT ![t].add = @ - next]
          /\ Goes(t, Do("cia_due") \o Do("blitter_due"))
     ELSE /\ Goes(t, <<>>)
          /\ UNCHANGED <<reg, since, due, next>>
  /\ UNCHANGED <<mutex, icr, left, busy, owed, torn>>

CiaDue(t) ==
  /\ At(t, "cia_due")
  /\ Goes(t, IF due.cia = 0 THEN CiaHandler ELSE <<>>)
  /\ UNCHANGED <<mutex, reg, Memory>>

BlitterDue(t) ==
  /\ At(t, "blitter_due")
  /\ Goes(t, IF due.blitter = 0 THEN BlitterHandler ELSE <<>>)
  /\ UNCHANGED <<mutex, reg, Memory>>

Rest(t) ==
  /\ At(t, "rest")
  /\ Elapse(reg[t].add)
  /\ reg' = [reg EXCEPT ![t].add = 0]
  /\ Goes(t, <<>>)
  /\ UNCHANGED <<mutex, icr, left, busy, owed, torn>>

\* CIA_update: the counter, and the flag if it has run out.
Update(t) ==
  /\ At(t, "update")
  /\ left' = IF left <= since THEN Reload ELSE left - since
  /\ Goes(t, IF left <= since THEN Raise("TA") \o Rethink ELSE <<>>)
  /\ UNCHANGED <<mutex, reg, icr, since, due, next, busy, owed, torn>>

Mark(t) ==
  /\ At(t, "mark")
  /\ since' = 0
  /\ Goes(t, <<>>)
  /\ UNCHANGED <<mutex, reg, icr, left, due, next, busy, owed, torn>>

Arm(t) ==
  /\ At(t, "arm")
  /\ due' = [due EXCEPT !.cia = left]
  /\ Goes(t, <<>>)
  /\ UNCHANGED <<mutex, reg, icr, left, since, next, busy, owed, torn>>

\* The control register is written with the LOAD strobe.
Change(t) ==
  /\ At(t, "change")
  /\ left' = Reload
  /\ Goes(t, <<>>)
  /\ UNCHANGED <<mutex, reg, icr, since, due, next, busy, owed, torn>>

\* events_schedule: the smallest distance, then nextevent.
Ahead == {due[slot] : slot \in DOMAIN due} \ {Off, Passed}
Nearest == IF Ahead = {} THEN Passed ELSE Min(Ahead)

Scan(t) ==
  /\ At(t, "scan")
  /\ reg' = [reg EXCEPT ![t].min = Nearest]
  /\ Goes(t, <<>>)
  /\ UNCHANGED <<mutex, Memory>>

SetNext(t) ==
  /\ At(t, "set")
  /\ next' = reg[t].min
  /\ reg' = [reg EXCEPT ![t].min = 0]
  /\ Goes(t, <<>>)
  /\ UNCHANGED <<mutex, icr, left, since, due, busy, owed, torn>>

Load(t) ==
  /\ At(t, "load")
  /\ reg' = [reg EXCEPT ![t].icr = icr]
  /\ Goes(t, <<>>)
  /\ UNCHANGED <<mutex, Memory>>

\* The second half of icr |= flag, and of setting or clearing bit 7.
RaiseFlag(t) ==
  /\ At(t, "raise")
  /\ icr' = reg[t].icr \cup {Head(todo[t]).flag}
  /\ owed' = owed \cup {Head(todo[t]).flag}
  /\ reg' = [reg EXCEPT ![t].icr = {}]
  /\ Goes(t, <<>>)
  /\ UNCHANGED <<mutex, left, since, due, next, busy, torn>>

Store(t) ==
  /\ At(t, "store")
  /\ icr' = reg[t].icr
  /\ torn' = (torn \/ (mutex["cia_mx"].owner # t /\ icr # reg[t].icr))
  /\ reg' = [reg EXCEPT ![t].icr = {}]
  /\ Goes(t, <<>>)
  /\ UNCHANGED <<mutex, left, since, due, next, busy, owed>>

\* The program's read: tmp = icr, icr = 0.
Take(t) ==
  /\ At(t, "take")
  /\ owed' = owed \ icr
  /\ Goes(t, <<>>)
  /\ UNCHANGED <<mutex, reg, icr, left, since, due, next, busy, torn>>

Clear(t) ==
  /\ At(t, "clear")
  /\ icr' = {}
  /\ Goes(t, <<>>)
  /\ UNCHANGED <<mutex, reg, left, since, due, next, busy, owed, torn>>

\* do_blitter arms its slot; blitter_handler draws and turns it off.
Start(t) ==
  /\ At(t, "start")
  /\ busy' = TRUE
  /\ due' = [due EXCEPT !.blitter = BlitTime]
  /\ Goes(t, <<>>)
  /\ UNCHANGED <<mutex, reg, icr, left, since, next, owed, torn>>

Finish(t) ==
  /\ At(t, "finish")
  /\ busy' = FALSE
  /\ Goes(t, <<>>)
  /\ UNCHANGED <<mutex, reg, icr, left, since, due, next, owed, torn>>

TurnOff(t) ==
  /\ At(t, "off")
  /\ due' = [due EXCEPT !.blitter = Off]
  /\ Goes(t, <<>>)
  /\ UNCHANGED <<mutex, reg, icr, left, since, next, busy, owed, torn>>

Step(t) ==
  \/ ObtainMutex(t) \/ ReleaseMutex(t)
  \/ Stop(t) \/ CiaDue(t) \/ BlitterDue(t) \/ Rest(t)
  \/ Update(t) \/ Mark(t) \/ Arm(t) \/ Change(t)
  \/ Scan(t) \/ SetNext(t)
  \/ Load(t) \/ RaiseFlag(t) \/ Store(t) \/ Take(t) \/ Clear(t)
  \/ Start(t) \/ Finish(t) \/ TurnOff(t)

Next == Wake \/ (\E c \in Clients : Call(c)) \/ (\E t \in Tasks : Step(t))

Spec == Init /\ [][Next]_vars

\* Every task is scheduled, and exec hands a mutex to its waiters in turn.
Fairness ==
  \A t \in Tasks : WF_vars(Step(t)) /\ SF_vars(ObtainMutex(t))

FairSpec == Spec /\ Fairness

-----------------------------------------------------------------------------
TypeOK ==
  /\ mutex \in [Mutexes -> [owner : Tasks \cup {Nobody}, depth : Nat]]
  /\ icr \subseteq Flags /\ owed \subseteq Flags
  /\ left \in 1..Reload /\ since \in Nat
  /\ due \in [{"cia", "blitter"} -> Nat \cup {Off, Passed}]
  /\ next \in Nat \cup {Passed}
  /\ {busy, torn} \subseteq BOOLEAN

\* Obtains and releases match on every path through do_cycles_slow, its
\* handlers and the register functions: the depth of a mutex is what its
\* owner will still give back, and a task at rest owns nothing.
Gives(t, m) == Cardinality({i \in DOMAIN todo[t] :
                  todo[t][i].step = "release" /\ todo[t][i].mutex = m})
Takes(t, m) == Cardinality({i \in DOMAIN todo[t] :
                  todo[t][i].step = "obtain" /\ todo[t][i].mutex = m})
MutexesBalanced ==
  \A m \in Mutexes, t \in Tasks :
    Gives(t, m) - Takes(t, m) = IF mutex[m].owner = t THEN mutex[m].depth ELSE 0

\* Whenever no task is about to reschedule, nextevent is the nearest event,
\* although evtime is written without event_mx.
NextEventCurrent ==
  (\A t \in Tasks : \A i \in DOMAIN todo[t] : todo[t][i].step \notin {"scan", "set"})
  => next = Nearest

\* A raised source stays pending until one read returns it, and no second
\* read does: with nobody inside the registers, icr is what is still owed.  Only the
\* rethink after a blit, which takes no lock, can break this.
FlagsKept ==
  ~torn /\ (\A t \in Tasks : ~At(t, "store") /\ ~At(t, "raise") /\ ~At(t, "clear"))
  => icr = owed

\* Every call of the library returns, also if the process runs meanwhile.
CallsReturn == \A t \in Tasks : todo[t] # <<>> ~> todo[t] = <<>>

Waits(t, m) == At(t, "obtain") /\ Head(todo[t]).mutex = m /\ mutex[m].owner \notin {Nobody, t}

\* Only the process, within do_cycles_slow, and a timer write ever wait for each
\* other: programs do not block one another for good, nor the blitter's handler
\* anyone.
OnlyTheProcessEmbraces ==
  \A t, u \in Tasks, m, n \in Mutexes :
    Waits(t, m) /\ mutex[m].owner = u /\ Waits(u, n) /\ mutex[n].owner = t
      => /\ CiaProcess \in {t, u}
         /\ mutex["event_mx"].owner = CiaProcess

\* The locks in all: typed, balanced, and only ever in the one known embrace.
MutexesInOrder == TypeOK /\ MutexesBalanced /\ OnlyTheProcessEmbraces
=============================================================================
