# Verification of chipset.library

chipset.library emulates, for programs on AmigaOS 4, the parts of the Amiga's
custom chips that old programs poke directly: the two CIA chips with their
timers, the blitter, and Paula's sound. This directory holds TLA+ models of it,
the TLC configurations that check them, and proofs of their main properties.
Paths below are relative to `src/chipset_files/`.

1. [Inventory](#1-inventory) of the system
2. [Modules](#2-modules) and how they correspond to the code
3. [Runs](#3-runs): what each checks, its bounds, and what it shows
4. [Fairness](#4-fairness)
5. [Proofs](#5-proofs)
6. [Disagreements found](#6-disagreements-found)
7. [What is not modelled](#7-what-is-not-modelled)
8. [Plan](#8-plan)

To repeat a result, in this directory:

    tlc -config paula.cfg Paula          # any <run>.cfg with its module
    tlapm PaulaProofs.tla                # any *Proofs.tla

## 1. Inventory

### Who runs

| actor | what it runs | code |
|---|---|---|
| the programs' tasks | register reads and writes through the library's vectors, the 68k stubs or the custom memory bank | `main/*.c`, `68k_stubs.c`, `UAE/memory.c`, `NallePUH/src/api.c` |
| the CIA process | an endless loop: sleep for `cia_latency_us`, measure what has really gone by, add that many cycles | `cia_process.c` |
| AHI's callback | `PUHSoundFunc`, whenever a channel starts its sound anew; preempts tasks | `NallePUH/src/PUH.c` |
| the software interrupt | `PUHSoftInt`, raised with `Cause`; calls the program's audio interrupt handlers; preempts tasks | `NallePUH/src/PUH.c` |

All tasks have the same priority, and anything that prints or sleeps lets
another one run, so tasks interleave anywhere.

### Components

**Event scheduler** (`UAE/events.c`, table set up in `UAE/custom_mini.c`).
State: `cycles` (32 bits, wraps), `nextevent`, and a table of slots with
`active`, `evtime`, `oldcycles` and a handler. `events_schedule` computes the
nearest due time; `do_cycles_slow(n)` advances `cycles` by `n`, stopping at
`nextevent` to run the handlers due exactly there. Hard: the wrap of the
counter, and that a call stops at most once, while a late process asks for up to
655350 cycles in one call and a blit put off is due again after 5120. Correct when an
armed event is answered at its cycle, or passed for a reason that can be named.

**CIA timers and interrupt control** (`UAE/cia.c`). State per chip: timers A
and B with counter, latch and control register, the pending sources `icr` with
bit 7, the mask `imask`, and the two division remainders. Counters are not
counted: `CIA_update` brings them up to date when the slot `ev_cia` is due or a
timer register is written, and `CIA_calctimers` predicts the next underflow.
Hard: prediction and update have to agree whatever is written in between, with
elapsed times cut to 16 bits and remainders carried over; flags, mask and
requests have to keep in step. Correct when intervals have their length, no
enabled underflow goes without its request, and the four `assert`s hold.

**CIA time of day, battery clock** (`UAE/cia.c`). Per chip a counter of three
bytes, a latch for reading it, an alarm, and a flag whether it runs. Hard: reads
and writes are byte by byte, the counter may carry in between, there is one
latch for all readers, and reads take no lock. Correct when three bytes read
in order are those of one moment, three bytes written in order become the time at
once, and an alarm rings. The handlers that advance the counters are not called in this
version. The battery clock shows the system's time and stores three control bytes.

**Locks** (`lock.c`). Two recursive mutexes, `event_mx` and `cia_mx`, taken by
functions that call each other in both directions. Correct when every path gives
back what it took, nobody waits for ever, and what they protect is never torn.

**Blitter** (`UAE/blitter.c`, registers in `UAE/custom_mini.c`,
`main/chipWaitBlit.c`). State: the registers, `bltstate`, and the slot
`ev_blitter`. A write of `BLTSIZE` arms the slot; the handler draws everything
when it is due, in the CIA process; a program that writes a register before
that draws it itself (`maybe_blit`). No lock protects any of this. Correct when
each blit is drawn once, with the registers it was started with, and finishes.

**Paula audio** (`NallePUH/src/PUH.c`). State: `m_DMACON`, `m_INTENA`,
`m_INTREQ`, per channel the address in two halves, the length, period and
volume, and `m_CausePending`. Register writes become calls of AHI; AHI's callbacks
become the level 4 interrupt. Hard: the order of register writes, three contexts
on `m_INTREQ`, and a latch between them that could shut the interrupt out.
Correct when AHI plays what the registers say, and no end of a sound is lost.

**CIA process** (`cia_process.c`). Real time to cycles: `microseconds` measured and
not yet emulated, a `count` of clocks cut to 16 bits, the length of a clock and the
sleep, which programs set at any moment. Correct when emulated time never runs ahead
of measured time and what it falls behind can be accounted for.

**Library lifecycle** (`init.c`, `spawn.c`, `lock.c`, `timer_device.c`,
`NallePUH/src/Nalle.c`). The parts acquired by `init`, the open count, the flag
`expunge_tasks`, `spawn_count`, the timer request, and where programs and the
process stand. The first opener starts the process, the last closer ends it and
waits for it, exec expunges. Hard: whatever waits inside these calls lets others
run, each step of loading can fail, the count is not protected. Correct when there
is one process while the library is open and none when it is closed, closing
returns, and all that was acquired is released, once.

**Chip memory allocator** (`micro_sys/memory.c`). As built, `allocChip` is exec's
`AllocVec`. With `__virtual_chipram_yes__` it has 512 marks of blocks and a table of
allocations that grows by 20 entries, without a lock. Correct when no two
allocations overlap and the marks are those of what is allocated.

**Memory banks and bit operations** (`UAE/memory.c`, `mem_api.c`,
`NallePUH/src/api.c`, reads in `UAE/custom_mini.c`). A table of access functions
per 64 KB for chip memory, CIAs, clock and custom registers; calls for
reading, writing and changing a bit. Hard: byte order, registers of different widths
and addresses that share a value, reads that write, and read-modify-writes without
a lock. Correct when a bit changed is that bit and no other.

**Minterms** (`UAE/tools`). A table of an expression for each of the blitter's 256
functions, a program that searched them, one that writes drawing functions for 22
of them. Correct when an expression computes its number and the mask beside it
names the sources it needs, and a drawing function draws what the general loop
draws.

**The rest**: ownership of the blitter (one mutex, `main/chipOwnBlitter.c`), AHI
preferences, 68k stubs (they unpack registers and call the above), tables of
functions at the root of the repository, the older copy in `uade/`, tests and tools.

### How they interact

    program --register write--> CIA / blitter --arm--> event table
                                     |                     ^
                                     v                     | handlers, under event_mx
                             m_INTREQ, icr <------  CIA process: do_cycles_slow
                                     ^
    program --register write--> Paula --AHI_SetSound--> AHI
                                     ^                     |
                     software interrupt <---Cause--- PUHSoundFunc

The hazards met in the code are in PROJECT.json, each at its line, with the properties
that would catch it going wrong or the reason why none does. Where the code does go
wrong, the properties name the case as an exception, and the hazard's note says so.

## 2. Modules

| module | models | composed with |
|---|---|---|
| `Countdown` | the abstract scheduler: every slot counts down, and is answered at its very cycle or passed | implemented by `Events` (`INSTANCE ... WITH`) |
| `Events` | `events.c`: absolute due times modulo the counter's width | `MCEvents`, `TimeBaseProofs` |
| `Process` | `cia_process.c`: measuring, cutting and advancing; extends `Events`, which it drives | `MCProcess`, `TimeBaseProofs` |
| `Cia` | `cia.c`: timers, `icr`, mask, requests; one event slot | `MCCia`, `CiaProofs` |
| `Tod` | `cia.c`: time of day, latch and alarm | `TodProofs` |
| `ChipTasks` | the locks: scheduler, CIA handler and register calls, step by step in several tasks | `MCChipTasks`, `ChipTasksProofs` |
| `Paula` | `PUH.c`: audio registers and interrupts in four contexts | `PaulaProofs` |
| `Blitter` | `blitter.c`: start, early and late drawing in two tasks | `BlitterProofs` |
| `Minterms` | the table of expressions and its generators | extended by `BlitDraw` |
| `BlitDraw` | `blitter.c`: what a block or a line leaves in memory and registers | `MCBlitDraw`, `BlitterProofs` |
| `ChipAlloc` | `micro_sys/memory.c`: the allocator of both builds | extended by `ChipMemory`; `ChipMemoryProofs` |
| `ChipMemory` | banks, accesses and bit operations of programs that allocate | `MCChipMemory`, `ChipMemoryProofs` |
| `Lifecycle` | `init.c`, `spawn.c`, `timer_device.c`, `Nalle.c`: load, open, close, expunge, process | `LifecycleProofs` |

Mutants (operators introduced by a comment `Mutant:`) stand before the operator
they alter; nothing else uses them.

### Events and Countdown

`cycles`, `nextevent`, `active`, `evtime` are the variables of the code, with
`Modulus` for 2^32. `Plus` and `Minus` are `uint32_t` arithmetic. `RunOut` and
`StopOnce` are the two ways through `do_cycles_slow`; both end with the trailing
`events_schedule`. What a handler decides is left open (`Rearm`): the model
holds for any, however the delays compare with a chunk. `RunEarly` is `maybe_blit`, the
only place that re-arms a slot without rescheduling; `polled` is history: the slots it has
run since `nextevent` was last set.

`Countdown` says what the slots' owners may rely on, without due times, `nextevent` and the
counter's width: an advance answers the slots that are due first in it, at their cycle;
those due later in the same advance are passed and wait for a whole turn of the clock; and
polling a slot (`Poll`) spoils the next advance, which may pass that slot or stop where
nothing is due.

### Process

`Measure(us)` is the sleep and the count, `Advance` the subtraction and
`do_cia`; programs and owners of slots act in between. A `double` is a number of
`Parts` of a microsecond. `Cut` and `Whole` are what the build makes of
conversions to `int16_t` and `uint32_t`: a clock made longer between count
and subtraction gives a negative remainder, which wraps. `drift` is history: the time
measured and neither emulated nor kept. `changed` marks a clock length set at that
moment, `cut` a round so late that its count exceeds 16 bits. The only relation assumed
between time and scheduler is that of line 119: a count of 16 bits, at 10 cycles a clock, is
the longest chunk.

### Cia

The code reads the cycle counter only through differences, so the state is
`since` (`cycles - oldcycles`) and `due` (`evtime - cycles`). `Clocks`,
`UnderflowA`, `UnderflowB`, `CountAfter` are lines 115-198, `DueTimes` and
`CalcTimers` lines 200-257. Every write of a timer register is `TimerWrite`: update,
change, predict. `TimerWrite` and `EventRuns` abort (`Abort`) where an `assert` of
the code fails; that is a state to be shown unreachable, not an assumption.
Timer A of CIA-A is treated differently by the code (it tolerates being late and
takes its last clock early), and so it is here. A register byte takes `Byte`
values, a clock `DIV10` cycles, the elapsed time is cut to `CCountMod` and the product
of a cascaded due time to `LongMod`; the code has 256, 5, 2^16 and 2^32. `timed`, `ended`,
`cut`, `wrapped` and `passed` are history: how long intervals really took, whether an
elapsed time or a due time was ever cut, and whether a chunk ran past the due time.

### Tod

A time is a function from the three bytes to `Byte` values. One program keeps
to the order high, middle, low; everybody else does anything, even between a read's
closing of the latch and its filling (`CloseLatch`, `FillLatch`: two
assignments without the lock). A tick that meets the alarm flags it and calls
`RethinkICRA`/`RethinkICRB` (`Ring`), which with the alarm enabled in the mask sets bit 7
and requests. `alone` is history: nobody else has touched the latch,
or the bytes being set, since the program began. `why` says how the
counter came to show the alarm's time: by a ring that was heard, by a write, or in silence.

### ChipTasks

A task is the sequence of steps it has still to do; a call of a function is the
sequence of its steps, put in front. A step is one lock operation or one access
to what the tasks share. Clients call `read` (the icr), `restart` (a control
register), `print` (the printer port) and `blit` (BLTSIZE); the process calls
`do_cycles_slow`, whose handlers it only chooses when it has stopped. `owed` is
history: the sources raised and not yet read by anybody.

### Paula

Registers are sets of channels. A task's write of `m_INTREQ` is a `Load...` and
a `Store`, the test of `m_CausePending`, its setting and the `Cause` are
`Test`, `Mark`, `Cause`; callback, software interrupt and handler are single
steps, because they preempt tasks and are not preempted by them. `LoadSetclr` is
the CIA process setting other bits of the same word: it changes no audio bit, but
writes all of them back. `owed` and `stale` are history: ends of sounds not yet
served, and whether a task wrote back an outdated word. What the program's
interrupt handler does is external: it acknowledges its channel. Periods and volumes
(`WritePer`, `WriteVol`) go to AHI at once, in whatever state the channel is; only
the type invariant speaks of them.

### Blitter

One program counter per task; each step is one access to the unprotected state.
`blitter_handler` (`Handler(t)`) is the same code in both tasks and returns to
the register write or to `do_cycles_slow`. A drawing is counted, not drawn; a line
loop keeps its count, because the count is shared. `cut`, `late` and `twice` are history
and name the three ways in which a blit is lost or drawn again: it was started while
`do_cycles_slow` runs (or the reverse); the handler had put it off, without DMA, and a chunk
longer than that wait ran past it; or both tasks were in the handler. The second needs no
other task: `maybe_blit` puts a blit off without rescheduling, the handler in the middle of a
chunk does so without looking at the rest, and a late process adds up to 655350 cycles where
the wait is `10 * CYCLE_UNIT`. Whether the first
line is over (`maybe_blit(1)`) is left open, since the code's comparison does
not survive the wrap of the counter.

### BlitDraw and Minterms

A word is the set of its bits that are one. `blitter_dofast` and
`blitter_dofast_desc` take a choice of the minterm's own function (`Special`) or
the general loop. The loops are functions of the words drawn so far (`Words`), each by
`SpecialWord` or `DrawWord`; both end in `Put`, which writes the word before, because
the code writes a word when it has read the next. A line is the function `Line` of its dots
(`LineDot`), each with the test of the DMA channel before its read and its write
(`Reads`, `Writes`; the block loops have none): the field `off` of a blit says at which dots
DMA is off. A step of the specification is a whole blit, drawn both ways from what the last
one left in the registers. What a block is meant to be (`MeantMemory`) is said bit by bit,
without pointers, pipeline and order of words; a line by the exact
fraction, for the registers a program sets up for it and with DMA on (`DrawsLine`): the first error from
its lengths, a single bit in A, a minterm that leaves C alone where A is zero. The error is
an integer here; the code tests its lower 16 bits, which is the same, since a line has at most
1024 dots and its error stays within four times as much.
`Minterms` has the table, an expression as the sequence of its symbols with each operation
behind its operands (`Read` makes the tree of it), trees that carry what the generator's
recursive functions find of them, the cost function and the search, which TLC repeats up to
trees of three leaves.

### ChipAlloc and ChipMemory

Blocks are numbers, an allocation its first block and their number. A call of `allocChip` is
`Find`, `Take` and `Return`, between which other programs may run; `overlapped`
marks it. `astray` marks what the code itself loses: a table replaced while
in use, an entry freed that was not the last. With one or the other the code
does give memory twice; the properties say (`Orderly`) that nothing else
makes it. A new table's entries are left open (`Junk`).

The bytes of memory and the registers are `Places`, each the set of its one bits. `Reached`
says which an access of 1, 2 or 4 bytes means; `Reads` gives value and effect
of a read. A bit operation is `BitGet` and `BitPut`, as in the code. `meant` is
history: what the places would hold had each call been done at once and hit
its bit; `raced` the places where another came in between.

### Lifecycle

`lib` is the place in loading and in `close_libs`, `pc` and `proc` the places of
programs and CIA processes (there can be two). exec calls open, close and expunge
with task switching forbidden, which anything that waits breaks: the steps are
what runs between such waits. Unloading the code is `Remove`; who is then
inside falls (`Falls`). `spawn_count--` is a read and a write. Histories:
`reopened`, `torn`, `overlapped`, and `forgotten`: the port, request or opened device that
`init_timer_device` has written over while another process still had it.

## 3. Runs

Deadlock is checked unless noted.

| run | question | bounds |
|---|---|---|
| `process` | what time does the process lose, and does it reach every alarm, with one slot armed within a chunk or beyond it? | 1 cycle a clock, counts modulo 4 (chunks up to 3), clocks of 4 or 5 thirds of a microsecond, rounds up to 5 us, once 7 or 13; delays 1 and 4; counter modulo 7 |
| `events_two` | two slots: who is answered when, who is passed and why, and is that `Countdown`? | modulo 13, chunks up to 4, delays 1 to 7, shorter and longer than a chunk |
| `cia_b` | CIA-B, B cascaded on A, chunks longer than an interval, times beyond 16 and due times beyond 32 bits | latches 2 and 3 (`Byte` 2), 3 cycles a clock, elapsed times modulo 16, due times modulo 32, chunks of 12 |
| `cia_irq` | CIA-A's interrupts, all register writes in any order | latches 2 and 3, 3 cycles a clock, elapsed times modulo 12, chunks of 6 and 15 |
| `tod` | a reader and setter of the time among others | 2 values a byte |
| `tasks` | two programs reading the icr, writing the printer port, restarting the timer and blitting beside the process | timer of 2 cycles, blits of 3, chunks of 2, rest after 4 |
| `tasks_deadlock` | one program restarting the timer (it can block for ever) | timer of 3 cycles, chunks of 2, rest after 6 |
| `paula` | one channel, all contexts, all orders | two values per half of an address, lengths 0 and 2 (silence), periods 0 and 124 |
| `blitter` | a program that writes registers at any time | blits of 1 and 2 lines, chunks up to 3, waits of 2, line drawings of 3 cycles |
| `draw` | are blocks and lines drawn right, both ways? | 4 bits a word, blocks up to 3 by 2, lines up to 4 dots, some with DMA off for an access, two memories |
| `memory` | two programs allocate, and change bits of memory and registers | 4 blocks, tables growing by 2 up to 6 entries, 4 calls in all |
| `lifecycle` | two programs, two processes, every part missing once | none but these |

Why these bounds are enough to make the interesting cases happen:

* *Events.* The modulus is prime, so that every phase of the wrap meets every
  delay. Some delays end inside a chunk, at its end or far beyond it: a slot can be passed
  behind another's stop, behind its own, and after `maybe_blit`. The delays are few, so that
  a wrong one is not one of the others by chance. Two slots are all the code uses.
* *Cia.* Each run has chunks of several clocks and longer than an interval, and elapsed
  times beyond `CCountMod`. In `cia_b` that width is no multiple of a clock, as in the
  code, so that a time cut leaves a false remainder (in `cia_irq` it is one, and none
  occurs); and `LongMod` is less than the longest cascaded due time. In `cia_irq` an
  interval with latch 3 is as long as `CCountMod`: its end need not be seen by polling, as that
  of the reset's latch, 65535, need not in the code, and `PollingSeesUnderflow` is about those
  of latch 2 (with chunks longer than the interval). `cia_b` may stop, because a failed assert ends the program, hence
  `CHECK_DEADLOCK FALSE`.
  The two chips share no code path but the event slot; each run has one, and
  the proofs are for both.
* *Process.* A count is cut once (`Late`); after that the drift is
  bounded by `MaxDrift`, which stops the count of the drift and nothing else. Sleeps and
  rounds cover less than a clock, exactly one, several, and more than a count holds. Chunks
  are longer than one of the delays and shorter than the other.
* *Tod.* With two values a byte all carries happen within eight ticks; the theorem
  is for any width.
* *Draw.* All 256 minterms; every choice of channels for six of them; all
  masks that cut both ends of a word, shifts 0 to 3, fills and overlaps, up and
  down; lines in eight octants with slopes from 0 to 1. A second blit takes what the
  first left. Words of 4 bits have all the cases of 16: a shift across words, a
  first, a middle and a last word. It ends after two blits, hence
  `CHECK_DEADLOCK FALSE`.
* *Memory.* Two allocations of two sizes, a failed one, and two accesses, or any
  other four calls: a table that grows while it is in use needs three. The uses
  (`MCMemoryUses`, `MCDeviceUses`) have each bank, width and kind of operation at
  an address that tells the bytes apart. It ends after `MaxOps` calls
  (`CHECK_DEADLOCK FALSE`). The programs are alike, hence symmetric.
* *Lifecycle.* Two programs give each race of opening and closing; a third only
  repeats them, and the proofs are for any number. When the library is unloaded under somebody, that is the
  end (`CHECK_DEADLOCK FALSE`).
* *ChipTasks.* Two clients are enough for two readers of one flag. A chunk is
  shorter than the timer, so an event falls inside, at the end of, and beyond a
  chunk. The process rests at `MaxSince` until somebody updates (that
  is no deadlock, and in `tasks_deadlock` the deadlock is found as a call that
  never returns).
* *Paula.* One channel meets all contexts; a second one multiplies the states
  by twenty and adds the order of handlers only. It was run by hand (channels
  0 and 3, 1.7 million states) without error, and the proofs are for any set.
* *Blitter.* Two lines are needed for a count that passes zero. Chunks are shorter
  than, as long as and longer than the handler's wait and each blit's time, as they are in the
  code, where a wait is 5120 cycles and a chunk anything up to 655350.

The properties, by hazard rather than by module. Some are conjunctions of named
parts (in brackets); a part is what the text of its module says of it, and the
whole is what the run checks. Of type invariants only those of `ChipTasks`,
`ChipMemory`, `BlitDraw`, `Lifecycle` and `Process` are checked, as parts; the others are proved.

* *Nothing is lost without a reason.* `PassedForAReason`, `NextNotLate` (events);
  `LossesAddUp`, `LateForGood` (time);
  `UnderflowsArePredicted` (`RunningIsScheduled`, `PassedOnlyIfShort`,
  `AssertsFailOnlyIfCutOrPassed`) and
  `UnderflowRequests` (timers); `AlarmRings` (alarm); `FlagsKept` (icr between
  two readers); `EndsAreKept`, `RequestsAreCaused` (`PendingIsCaused`,
  `EnabledIsPending`; audio interrupts); `ArmedIffUnfinished` (blits);
  `BitsAreKept`, `KeepsToItself` (memory and registers).
* *Nothing happens twice or early.* `KeepsTime` (`NeverAhead`, `KeepsLessThanAClock`),
  `IntervalsAreRight` (`OnTheCycle`, `CascadeDivides`),
  `NothingTooSoon` (`AtMostAClockEarly`, `IrHasSource`), `OneShotFiresOnce`,
  `DoneIsDrawnOnce`, `RegistersWaitForTheBlit`, `PlaysTheRegisters`.
* *Bytes belong together.* `ReadIsWhole`, `SetIsWhole`.
* *What is computed is right.* `BlocksAreMeant` (with `PointersMeet`), `LinesAreMeant`,
  `SpecialIsGeneral`, `ExpressionsAreSound` (`ExpressionsAreRight`, `ExpressionsAreCheapest`).
* *Books balance.* `HeldApart`, `BooksAgree` (chip memory); `ProcessesAreCounted`
  (`OneProcess`, `CountsProcesses`), `QuietWhenClosed`, `OpenMeansUsable`,
  `UnloadIsClean` (lifecycle); `MutexesInOrder`
  (`MutexesBalanced`, `OnlyTheProcessEmbraces`), `NextEventCurrent`.
* *Something happens at all.* `EveryAlarmRings`, `PollingSeesUnderflow`,
  `CallsReturn`, `EndsAreServed`, `BlitsFinish`, `CloseReturns`, and the
  refinement `KeepsPromise`.

Several properties have a history variable as their hypothesis (`cut`, `late`,
`stale`, `twice`, `torn`, `astray`, ...). This is deliberate: the code does lose time, requests or
blits in those cases, and the property says that nothing else makes it do so. It does not
catch the case itself, which the hazard's note says.

`EveryAlarmRings` is about one slot. Of two, one may be passed again and again behind the
other's stops: no fairness of the process rules that out. A delay of 0 is not told
from one of a whole turn; no owner of a slot asks for either.

## 4. Fairness

* `Process`: weak fairness of `Measure` and of `Advance`: each sleep ends, and no
  one keeps `event_mx` for ever. `Events` alone has none.
* `Cia`: weak fairness of the advance of time. The CIA process calls
  `do_cycles_slow` in a loop for as long as the library is open.
* `ChipTasks`: weak fairness of each task's steps, since exec schedules all of
  them, and strong fairness of obtaining a mutex, since exec queues the waiters
  and hands the mutex on in turn. No fairness of calls: a program need not call.
* `Paula`: weak fairness of the software interrupt and its handlers, which
  exec runs before any task, and of the tasks inside `PUHWrite`.
* `Blitter`: weak fairness of the process and of the steps inside a call.
* `Lifecycle`: weak fairness of the processes and of programs inside a call; none of
  opening, closing or expunging.

## 5. Proofs

`tlapm` checks all theorems to the last leaf; the constants are arbitrary within
the named assumptions, which TLC evaluates for every run. The assumptions only say that
numbers are numbers and that the program's choices have their types, but for these, which
come from the code or its use: `MaxChunk < Modulus` and delays below `Modulus` (Events: a chunk
and a delay are less than a turn of the counter; nothing is assumed of one against the
other), `PerClock * (CountMod - 1) <= MaxChunk` and `2 * CountMod - 1 <= IntMod` (Process: a
chunk is a count of 16 bits, and an int is wider than that), `MemoryAssumption` (ChipMemory: programs stay within the first
block of what they were given, their other accesses are to other banks, and the chip memory ends
before the CIAs, as `setup_mem_banks` has it), `DeviceAssumption` (ChipMemory: what a
program means by an access to a register is the register the machine has at that address;
reads may go anywhere), `BlitsAssumption` (BlitDraw: registers have their width, and the
blits asked for stay in chip memory: the code checks no address), `TableAssumption` (Minterms: the
256 expressions compute their numbers, and no mask leaves out a source that counts, which TLC
evaluates for the whole table), and, for some theorems, the hypotheses named with them.

### TimeBaseProofs

Of `Events`:

* `TypeCorrect`: all times stay in the counter's range.
* `NextNotLateHolds`: a slot's distance only shrinks by what is added, the minimum
  over the slots is never beyond any of them, and who is put off after that is in `polled`.
* `PassedForAReasonHolds`: from `NextNotLate` and the effect of a chunk on each slot.
* `KeepsPromiseHolds`: the event table implements `Countdown` for any number of slots, any
  delays and chunks, with the distances as refinement mapping and no further hypothesis.
  The invariant is that without a slot polled `nextevent` is exactly the nearest distance
  (or far away). A stop in the middle of a chunk is then a stop of `Countdown` at the first
  slot due.

Of `Process`, for any length and number of parts of a clock, any widths and any delays:

* `KeepsTimeHolds`, `LossesAddUpHolds`, `LateForGoodHolds`: what is left after a round is
  what was measured and not emulated, less than a microsecond of it is dropped, and
  what no count has reached stays. `ProcessInv` says where the difference is at each place
  of the loop; the steps use only that a product of whole clocks is not above
  the time they were cut from (`WholeIsLess`, `MeasureCounts`).
* `ProcessKeepsPromise`: what `KeepsPromise` says of the scheduler is true under the process,
  however late it wakes.

### CiaProofs

* `TypeCorrect`: counters and latches keep to 16 bits and the due time is never a negative
  distance, for any DIV10, any widths and any program.
* `IrHasSourceHolds`, `UnderflowRequestsHolds`, `OneShotFiresOnceHolds`: for
  any masks and any order of the calls.
* `UnderflowsArePredictedHolds`, without hypotheses on chunks or latches. Prediction stays
  ahead of every counter until an elapsed time is cut or a chunk runs past the due
  time; the latter takes an interval shorter than what was left of the chunk, or a due time
  cut to 32 bits. The argument: `CIA_calctimers` makes `since + due <= DIV10 * (count + 1)`
  true for every counting timer, passing time leaves the sum as it is, and so an update
  never finds more than `count + 1` clocks gone, unless the sum of elapsed time
  and remainder was cut.
* `CascadeDividesHolds`, `IntervalsAreRightHolds`, `NothingTooSoonHolds`: how long
  intervals really take. None follows from what the timers are; `TimedInv` says of every
  timer that counts without a change by the program how its count and its history
  belong together: `DIV10` cycles for each clock counted, the latch plus one underflows
  of timer A for each of a cascaded timer B. `Whole` says that the remainders
  are none and that `since` and `due` are whole clocks. For this the last two
  theorems assume `WholeClocks`, every chunk a multiple of `DIV10`, which is so in
  the program (`cia_process_fn` adds 10 cycles a clock, `DIV10` is 5) and which `MCCia`
  asserts of the runs: with other chunks a write of a register in the
  middle of a clock leaves a remainder that belongs to another prediction. The further
  hypothesis is what the code does not give: `IntervalsAreRight` speaks of exact lengths,
  which timer A of CIA-A does not have (`[]~TolerantCounts`: its test takes the
  last clock early). `NothingTooSoon` speaks of it too: it is at most a clock early, and late
  only if a chunk ran past its due time. `CascadeDivides` needs neither, and holds even after
  an elapsed time was cut.

### ChipTasksProofs

For any set of programs, any kinds of calls and any times, all three safety
properties of `ChipTasks`. Tasks have no program counter but a sequence of steps left to do,
so the invariant speaks of such sequences: *what a task has left to do tells what
it holds*. `Held` counts in it the releases that lack an obtain; `Sound` says that
every access in it lies under the mutex it needs; each function of the code is a
`Piece` that takes as much as it gives, whatever follows it (`BeforeSound`, `Then`,
`LockedPiece`), so that a call put in front of what is left changes nothing else
(`GoesOn`). The invariant has five parts:

* `Owns`: a mutex is as deep as its owner has still to give back, and nobody else has
  any of it to give back. With `ClientsInv` (a client takes `cia_mx` first of all, holding
  no `event_mx`) this is `MutexesInOrderHolds`: a call that returned holds nothing,
  and two tasks wait for each other only if one is the process under `event_mx`, the known
  deadlock.
* `FlagsInv`: whoever is about to write back `icr` under `cia_mx` has read the current
  one, and `icr` is what is owed unless somebody has taken and not yet cleared
  it (`FlagsKeptHolds`). It holds until the rethink of `blitter_handler`, the one without a
  lock, writes back another word than it would now (`torn`).
* `EventsInv`: `nextevent` is the nearest time, or somebody has a scan still to do, or
  stands between the scan and the write with the current minimum
  (`NextEventCurrentHolds`). What makes it true although `CIA_calctimers` writes
  `evtime` without `event_mx` is that every such write has a scan behind it in the same
  sequence.

### PaulaProofs

* `TypeCorrect`, and `PlaysTheRegistersHolds` for every set of channels and every
  order of writes.
* `PendingIsCausedHolds`, `EnabledIsPendingHolds`, `EndsAreKeptHolds` follow
  from one inductive invariant, `IrqInv`. None of the three is inductive: a
  task may hold a word it has loaded, and an enabled request may have been
  looked at by nobody yet. `IrqInv` adds what a pending store will write
  compared with what it loaded (`StoresKeep`, `ProcessStores`) and that
  whoever made a request enabled will still test it (`LookedAfter`).

### BlitterProofs

Of `Blitter`, for any sizes and times of blits, any chunks and any wait for DMA:

* `TypeCorrect`: counts, times and the places of both tasks keep their ranges.
* `DoneIsDrawnOnceHolds`, `RegistersWaitForTheBlitHolds`: neither is inductive,
  since nothing is locked and what protects a blit is where both tasks
  stand. `BlitInv` adds, as long as the handler was never entered twice
  (`~twice`): only one task is in the handler; it was entered for an unfinished
  blit; a slot of a done blit is armed only until its drawer's last step
  (`NoneLeftOver`), so the process does not enter for a done blit;
  and a program about to write a register either saw the blit done, or has DMA off
  and the process cannot begin to draw (`WritesWait`).
* `ArmedIffUnfinishedHolds`: while in addition no blit was started under
  `do_cycles_slow` (`~cut`), `SlotInv` keeps the slot ahead of the counter:
  between chunks `nextevent` is its time, or the slot was put off in `maybe_blit` (which
  leaves `nextevent` as it was) and is at least a wait away; inside a
  chunk it is either due now or not before the rest. Without `late` no chunk that meets a slot
  put off, and no rest of one, is longer than the wait.

Of `BlitDraw`, for any width of words, any memory and any blits that stay in it:

* `SpecialIsGeneralHolds`: the special functions draw what the general loop draws. Between
  blits the two machines have all registers in common (`SameMachines`) until a
  channel that was on is left out. Within a blit they are `Alike`: they differ in the registers
  of the channels the minterm does not use, and these change no bit of a word
  (`UnusedSources`, from the table), so that each word, the modulos, the last
  write and hence the block keep them alike.
* `DrawTypeHolds`, `PointersMeetHolds`: while p words are drawn, the pointer of a channel
  that is on is the address of word p (`AtIs`, `NextAt`), or has come upon 0, which turns the
  channel off. So every access is to a place of the blit, and the pointers end where
  `blitter_dofast` has put them before it draws (`LastPlace`). For lines: after n dots
  the line is at most n pixels away, each way (`LinePlaced`).
* `BlocksAreMeantHolds`: `DrawnTo(s, b, p)` says what the blitter holds after p words: the
  last words of A and B, the last word of D not yet written, the memory with the
  p - 1 words before it (`MemAfter`), the fill carry and BZERO. A word read is
  one not yet drawn over (`MemRead`), which is where `InOrder` is used; the shifters give the
  streams (`StreamOfA`, `StreamOfB`), since a bit comes from this word or from the one
  before (`FromWord`); and the carry, which two lookups of a table of bytes hand on
  (`FillWordIs`), is the parity of the ones before it in the row (`InsideIsCarry`).
* `LinesAreMeantHolds`: the error after n dots has a closed form (`ErrorAt`): it is not
  negative exactly if the rounded true line comes to another row or column with the next dot
  (`MinorNext`). So after n dots pointer and shift are at the n-th pixel, and the memory has
  the first n dots and nothing else (`LineTo`), as DMA is on at each of them. That no two dots are the
  same pixel (`DotsApart`), since the line stays between the left and the right edge, is why each
  dot is drawn from what was there before the line.

A loop over words or dots is a function of how many are done, and a property of all of them is
shown by the least number for which it fails (`LeastNumber`, `Induction`), which
exists because the numbers are well-founded.

### TodProofs

For bytes of any size: `ReadIsWholeHolds`, `SetIsWholeHolds`, `AlarmRingsHolds`.
A read is whole because the latch keeps the moment of the first byte, a setting
because the counter stands still from the first byte to the last; the
invariants say which bytes are right at each place of the program.

### ChipMemoryProofs

For any finite set of programs and any number of blocks and entries:
`HeldApartHolds` and `BooksAgreeHolds`, of the programs of `ChipMemory`, which keep
out of the allocator's state (`ProgramsKeepOut`). The invariant `AllocInv` says that in
orderly use the entries of the table lie on each other like plates: each
begins where the last one ended, the marks go up to the top, so that the first
fit is the top (`FirstFit`), the entry freed is the last one, and closing up the
table behind its *last block* instead of its number moves nothing.
Each entry has one owner, but for the one just taken and not yet returned.

`KeepsToItselfHolds` goes on from there to what programs do with the memory. That
no call of another program comes between the read and the write of a bit operation on one's
own memory is not inductive. `KeepInv` adds that, in orderly use, an operation
under way is one its program may still make and that what it has read of the chip
memory is still there (`Unspoilt`). Another program's write leaves it so, because
an access to the chip memory lies in one block (`OneBlock`) of something its program has
(`OwnChip`), and allocations have no block in common (`NotShared`, from `HeldApart`).

`BitsAreKeptHolds` is about all uses of the allocator, also in disorder, and about all banks:
every place holds what the calls meant, but for those where a call came between another's
read and write (`raced`). It rests on three groups of lemmas.

* `AllTypedHolds`: even after wrong frees and overlapping calls no allocation leaves the chip memory;
  the least fit exists because the numbers of the blocks are well-founded (`SmallestNat`).
* `BytesPutTogether`, `ByteChanged`, `ByteOfOne`: a long or word put together from bytes has
  these bytes, and a bit changed in it is one bit of one of them, for each width.
* `UsesRight`: the bit a call means is at the place that the bank's decoding reaches
  (`BanksAre`, `CiaAddresses`, `ClockAddresses`, `CustomRight`; `MeansReached`). This is where the
  parity of the address, the order of the two words of a long and the ports' fixed bits
  have to fit.

`BitsInv` adds to the property what a call in the middle has in hand: the value it read is what
it saw in the places it reached (`Agrees`; a read leaves nothing else, `ReadsKept`), or it
read a long from write-only registers, and then those are in `raced`. The write then leaves the
meant bit in each bank (`PutChip`, `PutPort`, `PutCustom`), which is `BitPutKept`.

### LifecycleProofs

For any finite set of programs and of processes there can be at a time, all the safety
properties of `Lifecycle`:

* `ProcessesAreCountedHolds`, `QuietWhenClosedHolds` follow from `CountInv`. That there
  is one process is not inductive, since the opener is in the console when it is
  not yet there: `CountInv` adds that without a reopening nobody is in the
  console beside a process, and that a process about to write the count has
  read the current one; and, of reopenings too, that the library closed with nobody
  waiting has no process left, unless a write of the count overwrote another. The process
  that starts is then the only one and finds the timer's variables clear, since whoever has
  something of the timer has still to give it back (`TimerOK`): so nothing is `forgotten`
  without a reopening.
* `OpenMeansUsableHolds`: the open count is the number
  of programs inside (`OpenInv`), and the flag is set only at none (`UseInv`).
* `UnloadIsCleanHolds`: what can be left at each step of `close_libs` (`StageInv`),
  whatever part was missing when loading.

### Only model-checked

Liveness (all of it, under fairness): `PollingSeesUnderflow`, `EveryAlarmRings`, `BlitsFinish` and the other
properties that say what is reached. And `ExpressionsAreSound`: that
each expression of the table is right is checked for all 256, so that a proof would
only repeat it (and `TableAssumption` is a part of it); that it is not dearer than what the
search finds is about trees of a bounded size.

## 6. Disagreements found

One is a run that TLC must find violated, and an entry of `findings`:

* **Two mutexes in two orders** (`tasks_deadlock`, `UAE/events.c:100`). The timer
  event and a timer write can wait for each other for ever.

Others are visible in the models without a run of their own:

* **An event is overrun** (`UAE/events.c:85`). `do_cycles_slow` stops once. The
  second of two events in one chunk is not due again until the counter has
  wrapped, and so is one that `maybe_blit` has put off; the repository's README (lines
  38-40) has the overall timing not affected by how late the process
  runs. `PassedForAReason` says that nothing else loses an event.
* **Lost time is not made up** (`cia_process.c:116-117`). The same lines of the README
  hold for single delays at best: each round drops what is below a microsecond
  (`LossesAddUp`), and once a round is 2^16 clocks late (92 ms) the process stays that late,
  because each later count is cut by them again (`LateForGood`).
* **The timer device is leaked** (`timer_device.c:18-40`). A program that opens the library
  while another waits in `libClose` starts a second process, whose `init_timer_device` writes
  over the first one's port, request and device. Each then closes what the variables show:
  the first one's are never given back, and the process that comes second finds them gone.
  `QuietWhenClosed` says that this takes such a reopening.
* **A long latch never underflows** (`UAE/cia.c:120`). The elapsed time is cut to 16
  bits; from a latch of 13107 on, the timer's own event does not find the
  underflow. The runs of `Cia` have latches below that and, in `cia_irq`, one beyond it.
* **`chipWaitBlit` does not wait** (`main/chipWaitBlit.c:58`). It tests a bit's
  number as a mask, which are the audio channels' bits; so it is in `Blitter`
  (`WaitBlit`).
* **A long read of a custom register exchanges the halves**
  (`NallePUH/src/api.c:42`): the word at the higher address becomes the high half,
  while a long write puts the high half to the lower address.
* **Units of time.** `DIV10` is 5 cycles a clock, the process adds 10; a blit's
  time is multiplied by 512 where cycles are meant. No model depends on them.

The histories `stale`, `cut`, `late` and `twice` stand for further cases the models
reach: a lost or revived request in `m_INTREQ`, a blit that is not drawn before the counter
has turned, a blit drawn twice. Their lines are among the hazards.

## 7. What is not modelled

* AHI's preferences (`init.c`, `read_ahi_prefs`): read once, and passed on.
* Data direction and serial registers, disk index pulse, keyboard handshake of the CIA:
  plain storage, or unreachable from this library. What calls the time of day's
  handlers: nothing does in this version (`cia_process.c:61-73`); `Tod` lets
  them run at any time.
* The functions that show what registers hold (`_spyCIAA` and its kin), but for
  the way they read the time.
* Hooking of the system's interrupt vectors (`InstallPUH`, `UninstallPUH`).
* The numbers of real time. Every model takes a number of cycles as given;
  that the timers run at twice their speed (`DIV10` is 5, the process adds 10
  cycles a clock) and blits 512 times too slowly is listed as a hazard.
* Preferences, stubs, generated glue, the `uade/` copy, tests and tools.

## 8. Plan

Done: the modules of section 2, the runs of section 3 and the proofs of section 5.
Left, in this order:

1. Composition of `Events` with `Cia` and `Blitter`: the slots' handlers replace
   `Rearm`, so that a passed timer is followed through the turn of the counter after which it
   is due again.
