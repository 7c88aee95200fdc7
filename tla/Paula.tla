--------------------------------- MODULE Paula ---------------------------------
(***************************************************************************)
(* The audio half of Paula as NallePUH emulates it on AHI                  *)
(* (NallePUH/src/PUH.c): the channels' registers and DMA, and the level 4  *)
(* interrupt, which is a software interrupt raised with Cause.             *)
(*                                                                         *)
(* Registers are written by the program; AHI calls PUHSoundFunc when a     *)
(* channel starts its sound anew; the CIA process sets the bits of the     *)
(* blitter and the CIAs in the same m_INTREQ.  AHI and the software        *)
(* interrupt preempt the tasks and are not preempted by them, so a task's  *)
(* read and write of m_INTREQ are two steps, and so are its test of        *)
(* m_CausePending, its setting and the Cause.                              *)
(*                                                                         *)
(* The bits of the three registers that are not audio's are left out.      *)
(***************************************************************************)
EXTENDS Integers

CONSTANTS
  Channels,   \* subset of 0..3
  Halves,     \* values of one half of a sample's address
  Lengths,    \* sample lengths in bytes; 2 is SoundTracker's silence
  Periods,    \* values of a period, in cycles of the chips for each sample
  Volumes     \* values of a volume, of which 64 is full

Master  == 9               \* DMAF_MASTER
Program == "program"
Process == "cia process"
Tasks   == {Program, Process}

ASSUME PaulaAssumption ==
  /\ Channels \subseteq 0..3
  /\ 0 \in Halves /\ 0 \in Lengths
  /\ Periods \subseteq Nat /\ Volumes \subseteq Nat

VARIABLES
  dmacon,   \* m_DMACON: Master and channels
  on,       \* m_SoundOn
  reg,      \* m_SoundLocation (both halves) and m_SoundLength
  got,      \* m_GotDatHi and m_GotDatLo: halves written since the last pair
  told,     \* what AHI was last told to play on the channel
  freq, vol, \* the frequency, and the volume and side, AHI was told for the channel
  intena,   \* m_INTENA
  intreq,   \* m_INTREQ
  pending,  \* m_CausePending
  caused,   \* exec will run the software interrupt
  soft,     \* the running software interrupt and its mask
  job,      \* job[t]: what task t is doing to the interrupt registers
  owed,     \* history: sounds that ended and were not served or cleared
  stale     \* history: a task wrote back an m_INTREQ that had changed since

sound     == <<dmacon, on, reg, got, told, freq, vol>>
interrupt == <<intena, intreq, pending, caused, soft, job, owed, stale>>
vars == <<sound, interrupt>>

Registers == [hi : Halves, lo : Halves, length : Lengths]
Play(r)   == [silent |-> FALSE, registers |-> r]
NoSound   == [silent |-> TRUE]
Idle      == [at |-> "idle"]
NotRunning == [running |-> FALSE, mask |-> {}]

-----------------------------------------------------------------------------
(***************************************************************************)
(* Channels and DMA.                                                       *)
(***************************************************************************)
\* The channels that get DMA: none without the master bit.
Running(bits) == IF Master \in bits THEN bits \ {Master} ELSE {}

Sound(r) == IF r.length = 2 THEN NoSound ELSE Play(r)

\* Mutant: the master bit is taken for granted.
WriteDmaconNoMaster(bits, set) ==
  /\ ~soft.running /\ job[Program] = Idle
  /\ dmacon' = IF set THEN dmacon \cup bits ELSE dmacon \ bits
  /\ LET old     == dmacon \ {Master}
         new     == dmacon' \ {Master}
         changed == (old \ new) \cup (new \ old)
     IN /\ on' = [c \in Channels |-> IF c \in changed THEN c \in new ELSE on[c]]
        /\ told' = [c \in Channels |->
                      IF c \notin changed THEN told[c]
                      ELSE IF c \in new THEN Sound(reg[c]) ELSE NoSound]
  /\ UNCHANGED <<reg, got, freq, vol, interrupt>>

\* DMACON: the channels whose DMA this switches start or fall silent at once.
WriteDmacon(bits, set) ==
  /\ ~soft.running /\ job[Program] = Idle
  /\ dmacon' = IF set THEN dmacon \cup bits ELSE dmacon \ bits
  /\ LET old     == Running(dmacon)
         new     == Running(dmacon')
         changed == (old \ new) \cup (new \ old)
     IN /\ on' = [c \in Channels |-> IF c \in changed THEN c \in new ELSE on[c]]
        /\ told' = [c \in Channels |->
                      IF c \notin changed THEN told[c]
                      ELSE IF c \in new THEN Sound(reg[c]) ELSE NoSound]
  /\ UNCHANGED <<reg, got, freq, vol, interrupt>>

\* Tell AHI what to play next on channel c, if it is running.
Queue(c, r) == told' = [told EXCEPT ![c] = IF on[c] THEN Sound(r) ELSE @]

\* AUDxLCH and AUDxLCL: the address is passed on when both halves are there.
WriteHalf(c, half, v) ==
  LET r == IF half = "hi" THEN [reg[c] EXCEPT !.hi = v] ELSE [reg[c] EXCEPT !.lo = v]
  IN /\ ~soft.running /\ job[Program] = Idle
     /\ reg' = [reg EXCEPT ![c] = r]
     /\ IF got[c] \cup {half} = {"hi", "lo"}
        THEN got' = [got EXCEPT ![c] = {}] /\ Queue(c, r)
        ELSE got' = [got EXCEPT ![c] = @ \cup {half}] /\ UNCHANGED told
     /\ UNCHANGED <<dmacon, on, freq, vol, interrupt>>

\* AUDxLEN: passed on whatever half of the address is missing.
WriteLen(c, v) ==
  LET r == [reg[c] EXCEPT !.length = v]
  IN /\ ~soft.running /\ job[Program] = Idle
     /\ reg' = [reg EXCEPT ![c] = r]
     /\ Queue(c, r)
     /\ UNCHANGED <<dmacon, on, got, freq, vol, interrupt>>

ChipFreq == 3546895   \* m_ChipFreq of a PAL machine; nothing depends on it
Frequency(period) == ChipFreq \div (IF period = 0 THEN 65536 ELSE period)

\* 64 is full volume, 65536 to AHI, and so is the right side.
Volume(c, v) == <<v * 1024, IF c \in {0, 3} THEN 65536 ELSE 0>>

\* AUDxPER and AUDxVOL go to AHI at once, whether the channel plays or not.
WritePer(c, v) ==
  /\ ~soft.running /\ job[Program] = Idle
  /\ freq' = [freq EXCEPT ![c] = Frequency(v)]
  /\ UNCHANGED <<dmacon, on, reg, got, told, vol, interrupt>>

WriteVol(c, v) ==
  /\ ~soft.running /\ job[Program] = Idle
  /\ vol' = [vol EXCEPT ![c] = Volume(c, v)]
  /\ UNCHANGED <<dmacon, on, reg, got, told, freq, interrupt>>

-----------------------------------------------------------------------------
(***************************************************************************)
(* The interrupt registers.  A task first loads m_INTREQ, then stores it;  *)
(* clears is what it means to clear.                                       *)
(***************************************************************************)
Testing == [at |-> "test"]
Storing(loaded, value, clears, then) ==
  [at |-> "store", loaded |-> loaded, value |-> value, clears |-> clears, then |-> then]

\* Mutant: setting bits replaces the ones that are set.
LoadIntreqReplaces(bits, set) ==
  /\ ~soft.running /\ job[Program] = Idle
  /\ job' = [job EXCEPT ![Program] =
       IF set THEN Storing(intreq, bits, {}, Testing)
       ELSE Storing(intreq, intreq \ bits, bits, Testing)]
  /\ UNCHANGED <<sound, intena, intreq, pending, caused, soft, owed, stale>>

\* INTREQ written by the program.
LoadIntreq(bits, set) ==
  /\ ~soft.running /\ job[Program] = Idle
  /\ job' = [job EXCEPT ![Program] =
       IF set THEN Storing(intreq, intreq \cup bits, {}, Testing)
       ELSE Storing(intreq, intreq \ bits, bits, Testing)]
  /\ UNCHANGED <<sound, intena, intreq, pending, caused, soft, owed, stale>>

\* AUDxDAT written without DMA requests the channel's interrupt.
LoadDat(c) ==
  /\ ~soft.running /\ job[Program] = Idle
  /\ c \notin dmacon
  /\ job' = [job EXCEPT ![Program] = Storing(intreq, intreq \cup {c}, {}, [at |-> "test dat", channel |-> c])]
  /\ UNCHANGED <<sound, intena, intreq, pending, caused, soft, owed, stale>>

\* INTREQ_0 of micro_sys/cpu.c, called by the CIA process for other bits.
LoadSetclr ==
  /\ ~soft.running /\ job[Process] = Idle
  /\ job' = [job EXCEPT ![Process] = Storing(intreq, intreq, {}, Idle)]
  /\ UNCHANGED <<sound, intena, intreq, pending, caused, soft, owed, stale>>

Store(t) ==
  /\ ~soft.running
  /\ job[t].at = "store"
  /\ intreq' = job[t].value
  /\ stale' = (stale \/ intreq # job[t].loaded)
  /\ owed' = owed \ job[t].clears
  /\ job' = [job EXCEPT ![t] = @.then]
  /\ UNCHANGED <<sound, intena, pending, caused, soft>>

\* INTENA: only the program writes it.
WriteIntena(bits, set) ==
  /\ ~soft.running /\ job[Program] = Idle
  /\ intena' = IF set THEN intena \cup bits ELSE intena \ bits
  /\ job' = [job EXCEPT ![Program] = Testing]
  /\ UNCHANGED <<sound, intreq, pending, caused, soft, owed, stale>>

\* The test that follows each of the three.  AUDxDAT does not look at m_INTREQ.
Wanted ==
  \/ job[Program].at = "test" /\ intena \cap intreq # {}
  \/ job[Program].at = "test dat" /\ job[Program].channel \in intena

Test ==
  /\ ~soft.running
  /\ job[Program].at \in {"test", "test dat"}
  /\ job' = [job EXCEPT ![Program] =
               IF Wanted /\ ~pending THEN [at |-> "mark"] ELSE Idle]
  /\ UNCHANGED <<sound, intena, intreq, pending, caused, soft, owed, stale>>

Mark ==
  /\ ~soft.running
  /\ job[Program].at = "mark"
  /\ pending' = TRUE
  /\ job' = [job EXCEPT ![Program] = [at |-> "cause"]]
  /\ UNCHANGED <<sound, intena, intreq, caused, soft, owed, stale>>

Cause ==
  /\ ~soft.running
  /\ job[Program].at = "cause"
  /\ caused' = TRUE
  /\ job' = [job EXCEPT ![Program] = Idle]
  /\ UNCHANGED <<sound, intena, intreq, pending, soft, owed, stale>>

-----------------------------------------------------------------------------
(***************************************************************************)
(* Interrupt context.                                                      *)
(***************************************************************************)
\* PUHWrite and PUHSoundFunc where nothing comes in between.
Request(requests) ==
  IF intena \cap requests # {} /\ ~pending
  THEN pending' = TRUE /\ caused' = TRUE
  ELSE UNCHANGED <<pending, caused>>

\* Mutant: the requests are tested before the new one is among them.
SoundFuncTestsFirst(c) ==
  /\ ~soft.running
  /\ ~told[c].silent
  /\ intreq' = intreq \cup {c}
  /\ owed' = owed \cup {c}
  /\ Request(intreq)
  /\ UNCHANGED <<sound, intena, soft, job, stale>>

\* PUHSoundFunc: AHI starts the channel's sound anew.
SoundFunc(c) ==
  /\ ~soft.running
  /\ ~told[c].silent
  /\ intreq' = intreq \cup {c}
  /\ owed' = owed \cup {c}
  /\ Request(intreq')
  /\ UNCHANGED <<sound, intena, soft, job, stale>>

\* Mutant: the latch is opened after the mask has been read, at the end.
SoftIntOpensLate ==
  /\ caused /\ ~soft.running
  /\ caused' = FALSE
  /\ soft' = [running |-> intreq \cap intena # {}, mask |-> intreq \cap intena]
  /\ UNCHANGED <<sound, intena, intreq, pending, job, owed, stale>>

\* PUHSoftInt: the latch is opened before the requests are read.
SoftInt ==
  /\ caused /\ ~soft.running
  /\ caused' = FALSE
  /\ pending' = FALSE
  /\ soft' = [running |-> intreq \cap intena # {}, mask |-> intreq \cap intena]
  /\ UNCHANGED <<sound, intena, intreq, job, owed, stale>>

\* The order in which PUHSoftInt looks at the channels.
Before(c, d) == LET rank == [x \in 0..3 |-> CASE x = 1 -> 0 [] x = 3 -> 1 [] x = 0 -> 2 [] x = 2 -> 3]
                IN  rank[c] < rank[d]

\* CallInt: the program's handler, which acknowledges its channel, and the
\* mask for the next round.
Handler(c) ==
  /\ soft.running
  /\ c \in soft.mask
  /\ \A d \in soft.mask \ {c} : Before(c, d)
  /\ intreq' = intreq \ {c}
  /\ owed' = owed \ {c}
  /\ Request(intreq')
  /\ LET mask == intreq' \cap intena
     IN  soft' = [running |-> mask # {}, mask |-> mask]
  /\ UNCHANGED <<sound, intena, job, stale>>

-----------------------------------------------------------------------------
\* AllocPUH.
Init ==
  /\ dmacon = {Master}
  /\ on = [c \in Channels |-> FALSE]
  /\ reg = [c \in Channels |-> [hi |-> 0, lo |-> 0, length |-> 0]]
  /\ got = [c \in Channels |-> {}]
  /\ told = [c \in Channels |-> NoSound]
  /\ freq = [c \in Channels |-> 0] /\ vol = [c \in Channels |-> <<0, 0>>]
  /\ intena = {} /\ intreq = {}
  /\ pending = FALSE /\ caused = FALSE
  /\ soft = NotRunning
  /\ job = [t \in Tasks |-> Idle]
  /\ owed = {} /\ stale = FALSE

WriteAudio ==
  \/ \E bits \in SUBSET (Channels \cup {Master}), set \in BOOLEAN : WriteDmacon(bits, set)
  \/ \E c \in Channels, half \in {"hi", "lo"}, v \in Halves : WriteHalf(c, half, v)
  \/ \E c \in Channels, v \in Lengths : WriteLen(c, v)
  \/ \E c \in Channels, v \in Periods : WritePer(c, v)
  \/ \E c \in Channels, v \in Volumes : WriteVol(c, v)

WriteInterrupts ==
  \/ \E bits \in SUBSET Channels, set \in BOOLEAN : LoadIntreq(bits, set)
  \/ \E bits \in SUBSET Channels, set \in BOOLEAN : WriteIntena(bits, set)
  \/ \E c \in Channels : LoadDat(c)
  \/ LoadSetclr

Continue(t) == Store(t) \/ (t = Program /\ (Test \/ Mark \/ Cause))

Interrupts == SoftInt \/ \E c \in Channels : Handler(c)

Next ==
  \/ WriteAudio
  \/ WriteInterrupts
  \/ \E t \in Tasks : Continue(t)
  \/ Interrupts
  \/ \E c \in Channels : SoundFunc(c)

Spec == Init /\ [][Next]_vars

\* exec runs what was caused, and a task inside PUHWrite gets on with it.
FairSpec == Spec /\ WF_vars(Interrupts) /\ \A t \in Tasks : WF_vars(Continue(t))

-----------------------------------------------------------------------------
Jobs == {Idle, Testing, [at |-> "mark"], [at |-> "cause"]}
        \cup [at : {"test dat"}, channel : Channels]
Stores == [at : {"store"}, loaded : SUBSET Channels, value : SUBSET Channels,
           clears : SUBSET Channels, then : Jobs]
AhiVolumes == Nat \X {0, 65536}   \* for AHI

TypeOK ==
  /\ dmacon \subseteq Channels \cup {Master}
  /\ on \in [Channels -> BOOLEAN]
  /\ reg \in [Channels -> Registers]
  /\ got \in [Channels -> SUBSET {"hi", "lo"}]
  /\ told \in [Channels -> {NoSound} \cup [silent : {FALSE}, registers : Registers]]
  /\ freq \in [Channels -> Nat] /\ vol \in [Channels -> AhiVolumes]
  /\ intena \subseteq Channels /\ intreq \subseteq Channels /\ owed \subseteq Channels
  /\ pending \in BOOLEAN /\ caused \in BOOLEAN /\ stale \in BOOLEAN
  /\ soft \in [running : BOOLEAN, mask : SUBSET Channels]
  /\ job \in [Tasks -> Jobs \cup Stores]

\* AHI plays a channel exactly when it has DMA, and then what the registers
\* say, unless one half of an address is awaiting the other: no order of
\* DMACON, AUDxLCH, AUDxLCL and AUDxLEN writes leaves an old sample queued.
PlaysTheRegisters ==
  \A c \in Channels :
    /\ on[c] <=> c \in Running(dmacon)
    /\ ~on[c] => told[c] = NoSound
    /\ on[c] /\ got[c] = {} => told[c] = Sound(reg[c])

\* m_CausePending is only set while the software interrupt is coming or the
\* program is about to cause it: it never shuts the interrupt out for good.
PendingIsCaused == pending => caused \/ job[Program].at = "cause"

\* Outside PUHWrite, an enabled request is always on its way to be served,
\* as long as no task has written back an outdated m_INTREQ.
EnabledIsPending ==
  ~stale /\ ~soft.running /\ job[Program] = Idle =>
    intena \cap intreq = {} \/ (pending /\ caused)

\* The latch is shut exactly as long as it has to be: both of these.
RequestsAreCaused == PendingIsCaused /\ EnabledIsPending

\* A sound's end stays in m_INTREQ until it is served or cleared, as long as
\* no task has written back an outdated m_INTREQ.
EndsAreKept == ~stale => owed \subseteq intreq

\* And if its interrupt stays enabled, it is served or cleared.
EndsAreServed ==
  \A c \in Channels : c \in owed /\ c \in intena ~> c \notin owed \/ c \notin intena \/ stale
=============================================================================
