----------------------------- MODULE PaulaProofs -----------------------------
(* Theorems about Paula.tla, for any set of channels and any register values. *)
EXTENDS Paula, TLAPS

(***************************************************************************)
(* The type invariant.                                                     *)
(***************************************************************************)
LEMMA SoundOfRegisters ==
  ASSUME NEW r \in Registers
  PROVE  Sound(r) \in {NoSound} \cup [silent : {FALSE}, registers : Registers]
BY DEF Sound, Play, NoSound

LEMMA StoringType ==
  ASSUME NEW loaded \in SUBSET Channels, NEW value \in SUBSET Channels,
         NEW clears \in SUBSET Channels, NEW then \in Jobs
  PROVE  Storing(loaded, value, clears, then) \in Stores
BY DEF Storing, Stores

LEMMA WriteAudioType ==
  ASSUME TypeOK, WriteAudio
  PROVE  TypeOK'
<1>1. ASSUME NEW bits \in SUBSET (Channels \cup {Master}), NEW set \in BOOLEAN,
             WriteDmacon(bits, set)
      PROVE  TypeOK'
  <2>1. dmacon' \subseteq Channels \cup {Master}
    BY <1>1 DEF WriteDmacon, TypeOK
  <2>2. on' \in [Channels -> BOOLEAN]
    <3>1. PICK changed, new :
            on' = [c \in Channels |-> IF c \in changed THEN c \in new ELSE on[c]]
      BY <1>1 DEF WriteDmacon
    <3>2. \A c \in Channels : on[c] \in BOOLEAN
      BY DEF TypeOK
    <3>3. \A c \in Channels : (c \in new) \in BOOLEAN
      BY SMT
    <3>4. \A c \in Channels : (IF c \in changed THEN c \in new ELSE on[c]) \in BOOLEAN
      BY <3>2, <3>3, Zenon
    <3> QED
      BY <3>1, <3>4, Zenon
  <2>3. told' \in [Channels -> {NoSound} \cup [silent : {FALSE}, registers : Registers]]
    <3>1. PICK changed, new :
            told' = [c \in Channels |->
                       IF c \notin changed THEN told[c]
                       ELSE IF c \in new THEN Sound(reg[c]) ELSE NoSound]
      BY <1>1 DEF WriteDmacon
    <3>2. \A c \in Channels : reg[c] \in Registers
      BY DEF TypeOK
    <3> QED
      BY <3>1, <3>2, SoundOfRegisters DEF TypeOK
  <2> QED
    BY <1>1, <2>1, <2>2, <2>3 DEF WriteDmacon, TypeOK, interrupt
<1>2. ASSUME NEW c \in Channels, NEW half \in {"hi", "lo"}, NEW v \in Halves,
             WriteHalf(c, half, v)
      PROVE  TypeOK'
  <2> DEFINE r == IF half = "hi" THEN [reg[c] EXCEPT !.hi = v] ELSE [reg[c] EXCEPT !.lo = v]
  <2>1. r \in Registers
    BY DEF TypeOK, Registers
  <2>2. reg' = [reg EXCEPT ![c] = r]
    BY <1>2 DEF WriteHalf
  <2>3. Queue(c, r) \/ UNCHANGED told
    BY <1>2 DEF WriteHalf
  <2>4. got' \in [Channels -> SUBSET {"hi", "lo"}]
    BY <1>2 DEF WriteHalf, TypeOK
  <2> HIDE DEF r
  <2>5. told' \in [Channels -> {NoSound} \cup [silent : {FALSE}, registers : Registers]]
    BY <2>1, <2>3, SoundOfRegisters DEF Queue, TypeOK
  <2>6. reg' \in [Channels -> Registers]
    BY <2>1, <2>2 DEF TypeOK
  <2> QED
    BY <1>2, <2>4, <2>5, <2>6 DEF WriteHalf, TypeOK, interrupt
<1>3. ASSUME NEW c \in Channels, NEW v \in Lengths, WriteLen(c, v)
      PROVE  TypeOK'
  <2> DEFINE r == [reg[c] EXCEPT !.length = v]
  <2>1. r \in Registers
    BY DEF TypeOK, Registers
  <2>2. reg' = [reg EXCEPT ![c] = r] /\ Queue(c, r)
    BY <1>3 DEF WriteLen
  <2> HIDE DEF r
  <2>3. told' \in [Channels -> {NoSound} \cup [silent : {FALSE}, registers : Registers]]
    BY <2>1, <2>2, SoundOfRegisters DEF Queue, TypeOK
  <2>4. reg' \in [Channels -> Registers]
    BY <2>1, <2>2 DEF TypeOK
  <2> QED
    BY <1>3, <2>3, <2>4 DEF WriteLen, TypeOK, interrupt
<1>4. ASSUME NEW c \in Channels, NEW v \in Periods, WritePer(c, v)
      PROVE  TypeOK'
  <2>1. Frequency(v) \in Nat
    BY PaulaAssumption DEF Frequency, ChipFreq
  <2>2. freq' \in [Channels -> Nat]
    BY <1>4, <2>1 DEF WritePer, TypeOK
  <2> QED
    BY <1>4, <2>2 DEF WritePer, TypeOK, interrupt
<1>5. ASSUME NEW c \in Channels, NEW v \in Volumes, WriteVol(c, v)
      PROVE  TypeOK'
  <2>1. Volume(c, v) \in AhiVolumes
    BY PaulaAssumption DEF Volume, AhiVolumes
  <2>2. vol' \in [Channels -> AhiVolumes]
    BY <1>5, <2>1 DEF WriteVol, TypeOK
  <2> QED
    BY <1>5, <2>2 DEF WriteVol, TypeOK, interrupt
<1> QED
  BY <1>1, <1>2, <1>3, <1>4, <1>5 DEF WriteAudio

LEMMA WriteInterruptsType ==
  ASSUME TypeOK, WriteInterrupts
  PROVE  TypeOK'
<1>1. Testing \in Jobs /\ Idle \in Jobs
  BY DEF Jobs
<1>2. intreq \in SUBSET Channels
  BY DEF TypeOK
<1>3. ASSUME NEW bits \in SUBSET Channels, NEW set \in BOOLEAN, LoadIntreq(bits, set)
      PROVE  TypeOK'
  <2>1. Storing(intreq, intreq \cup bits, {}, Testing) \in Stores
    BY <1>1, <1>2, StoringType
  <2>2. Storing(intreq, intreq \ bits, bits, Testing) \in Stores
    BY <1>1, <1>2, StoringType
  <2> QED
    BY <1>3, <2>1, <2>2 DEF LoadIntreq, TypeOK, sound
<1>4. ASSUME NEW bits \in SUBSET Channels, NEW set \in BOOLEAN, WriteIntena(bits, set)
      PROVE  TypeOK'
  BY <1>1, <1>4 DEF WriteIntena, TypeOK, sound
<1>5. ASSUME NEW c \in Channels, LoadDat(c) PROVE TypeOK'
  <2>1. [at |-> "test dat", channel |-> c] \in Jobs
    BY DEF Jobs
  <2>2. Storing(intreq, intreq \cup {c}, {}, [at |-> "test dat", channel |-> c]) \in Stores
    BY <1>2, <2>1, StoringType
  <2> QED
    BY <1>5, <2>2 DEF LoadDat, TypeOK, sound
<1>6. CASE LoadSetclr
  <2>1. Storing(intreq, intreq, {}, Idle) \in Stores
    BY <1>1, <1>2, StoringType
  <2> QED
    BY <1>6, <2>1 DEF LoadSetclr, TypeOK, sound
<1> QED
  BY <1>3, <1>4, <1>5, <1>6 DEF WriteInterrupts

LEMMA StoreJob ==
  ASSUME TypeOK, NEW t \in Tasks, job[t].at = "store"
  PROVE  job[t] \in Stores
<1>1. job[t] \in Jobs \cup Stores
  BY DEF TypeOK
<1>2. ASSUME NEW x \in Jobs PROVE x.at # "store"
  <2>1. CASE x \in [at : {"test dat"}, channel : Channels]
    BY <2>1
  <2>2. CASE x = Idle \/ x = Testing
    BY <2>2 DEF Idle, Testing
  <2>3. CASE x = [at |-> "mark"] \/ x = [at |-> "cause"]
    BY <2>3
  <2> QED
    BY <2>1, <2>2, <2>3 DEF Jobs
<1> QED
  BY <1>1, <1>2

LEMMA ContinueType ==
  ASSUME TypeOK, NEW t \in Tasks, Continue(t)
  PROVE  TypeOK'
<1>1. Idle \in Jobs /\ [at |-> "mark"] \in Jobs /\ [at |-> "cause"] \in Jobs
  BY DEF Jobs
<1>2. CASE Store(t)
  <2>1. job[t].value \subseteq Channels /\ job[t].then \in Jobs
    BY <1>2, StoreJob DEF Store, Stores
  <2>2. stale' \in BOOLEAN
    BY <1>2, Zenon DEF Store, TypeOK
  <2> QED
    BY <1>2, <2>1, <2>2 DEF Store, TypeOK, sound
<1>3. CASE Test
  BY <1>1, <1>3 DEF Test, TypeOK, sound
<1>4. CASE Mark
  BY <1>1, <1>4 DEF Mark, TypeOK, sound
<1>5. CASE Cause
  BY <1>1, <1>5 DEF Cause, TypeOK, sound
<1> QED
  BY <1>2, <1>3, <1>4, <1>5 DEF Continue

LEMMA RequestType ==
  ASSUME TypeOK, NEW requests, Request(requests)
  PROVE  pending' \in BOOLEAN /\ caused' \in BOOLEAN
BY DEF Request, TypeOK

LEMMA InterruptType ==
  ASSUME TypeOK, Interrupts \/ \E c \in Channels : SoundFunc(c)
  PROVE  TypeOK'
<1>1. CASE SoftInt
  <2>1. soft' \in [running : BOOLEAN, mask : SUBSET Channels]
    BY <1>1 DEF SoftInt, TypeOK
  <2> QED
    BY <1>1, <2>1 DEF SoftInt, TypeOK, sound
<1>2. ASSUME NEW c \in Channels, Handler(c) PROVE TypeOK'
  <2>1. pending' \in BOOLEAN /\ caused' \in BOOLEAN
    BY <1>2, RequestType DEF Handler
  <2>2. soft' \in [running : BOOLEAN, mask : SUBSET Channels]
    BY <1>2 DEF Handler, TypeOK
  <2> QED
    BY <1>2, <2>1, <2>2 DEF Handler, TypeOK, sound
<1>3. ASSUME NEW c \in Channels, SoundFunc(c) PROVE TypeOK'
  <2>1. pending' \in BOOLEAN /\ caused' \in BOOLEAN
    BY <1>3, RequestType DEF SoundFunc
  <2> QED
    BY <1>3, <2>1 DEF SoundFunc, TypeOK, sound
<1> QED
  BY <1>1, <1>2, <1>3 DEF Interrupts

\* Every register and latch keeps to its values, whatever the order of
\* writes, callbacks and interrupts.
THEOREM TypeCorrect == Spec => []TypeOK
<1>1. Init => TypeOK
  <2> SUFFICES ASSUME Init PROVE TypeOK
    OBVIOUS
  <2>1. /\ dmacon \subseteq Channels \cup {Master}
        /\ got \in [Channels -> SUBSET {"hi", "lo"}]
        /\ told \in [Channels -> {NoSound} \cup [silent : {FALSE}, registers : Registers]]
        /\ intena \subseteq Channels /\ intreq \subseteq Channels /\ owed \subseteq Channels
    BY DEF Init
  <2>2. on \in [Channels -> BOOLEAN]
    <3>1. FALSE \in BOOLEAN
      OBVIOUS
    <3> QED
      BY <3>1, Zenon DEF Init
  <2>3. reg \in [Channels -> Registers]
    BY PaulaAssumption DEF Init, Registers
  <2>4. pending \in BOOLEAN /\ caused \in BOOLEAN /\ stale \in BOOLEAN
    BY Zenon DEF Init
  <2>5. soft \in [running : BOOLEAN, mask : SUBSET Channels]
    BY DEF Init, NotRunning
  <2>6. job \in [Tasks -> Jobs \cup Stores]
    BY DEF Init, Jobs
  <2>7. freq \in [Channels -> Nat] /\ vol \in [Channels -> AhiVolumes]
    BY DEF Init, AhiVolumes
  <2> QED
    BY <2>1, <2>2, <2>3, <2>4, <2>5, <2>6, <2>7 DEF TypeOK
<1>2. TypeOK /\ [Next]_vars => TypeOK'
  <2>1. TypeOK /\ UNCHANGED vars => TypeOK'
    BY DEF TypeOK, vars, sound, interrupt
  <2> QED
    BY <2>1, WriteAudioType, WriteInterruptsType, ContinueType, InterruptType DEF Next
<1> QED
  BY <1>1, <1>2, PTL DEF Spec

-----------------------------------------------------------------------------
(***************************************************************************)
(* What AHI plays.                                                         *)
(***************************************************************************)
LEMMA PlaysStep ==
  ASSUME TypeOK, PlaysTheRegisters, WriteAudio
  PROVE  PlaysTheRegisters'
<1>1. ASSUME NEW bits \in SUBSET (Channels \cup {Master}), NEW set \in BOOLEAN,
             WriteDmacon(bits, set)
      PROVE  PlaysTheRegisters'
  <2> DEFINE old     == Running(dmacon)
             new     == Running(dmacon')
             changed == (old \ new) \cup (new \ old)
  <2>1. /\ on' = [c \in Channels |-> IF c \in changed THEN c \in new ELSE on[c]]
        /\ told' = [c \in Channels |->
                      IF c \notin changed THEN told[c]
                      ELSE IF c \in new THEN Sound(reg[c]) ELSE NoSound]
        /\ reg' = reg /\ got' = got
    BY <1>1 DEF WriteDmacon
  <2> SUFFICES ASSUME NEW c \in Channels
               PROVE  /\ on'[c] <=> c \in new
                      /\ ~on'[c] => told'[c] = NoSound
                      /\ on'[c] /\ got'[c] = {} => told'[c] = Sound(reg'[c])
    BY DEF PlaysTheRegisters
  <2>2. /\ on[c] <=> c \in old
        /\ ~on[c] => told[c] = NoSound
        /\ on[c] /\ got[c] = {} => told[c] = Sound(reg[c])
    BY DEF PlaysTheRegisters
  <2>3. c \in changed <=> ~(c \in old <=> c \in new)
    OBVIOUS
  <2> HIDE DEF old, new, changed
  <2>4. on'[c] = IF c \in changed THEN c \in new ELSE on[c]
    BY <2>1, Zenon
  <2>5. told'[c] = IF c \notin changed THEN told[c]
                   ELSE IF c \in new THEN Sound(reg[c]) ELSE NoSound
    BY <2>1, Zenon
  <2>6. on'[c] <=> c \in new
    BY <2>2, <2>3, <2>4, Zenon
  <2> QED
    BY <2>1, <2>2, <2>3, <2>5, <2>6, Zenon
<1>2. ASSUME NEW d \in Channels, NEW r \in Registers, reg' = [reg EXCEPT ![d] = r],
             UNCHANGED <<dmacon, on>>,
             \/ Queue(d, r) /\ got' \in {got, [got EXCEPT ![d] = {}]}
             \/ UNCHANGED told /\ \E half : got' = [got EXCEPT ![d] = @ \cup {half}]
      PROVE  PlaysTheRegisters'
  <2> SUFFICES ASSUME NEW c \in Channels
               PROVE  /\ on[c] <=> c \in Running(dmacon)
                      /\ ~on[c] => told'[c] = NoSound
                      /\ on[c] /\ got'[c] = {} => told'[c] = Sound(reg'[c])
    BY <1>2 DEF PlaysTheRegisters
  <2>1. /\ on[c] <=> c \in Running(dmacon)
        /\ ~on[c] => told[c] = NoSound
        /\ on[c] /\ got[c] = {} => told[c] = Sound(reg[c])
    BY DEF PlaysTheRegisters
  <2>2. CASE c # d
    <3>1. reg'[c] = reg[c] /\ got'[c] = got[c] /\ told'[c] = told[c]
      BY <1>2, <2>2 DEF Queue, TypeOK
    <3> QED
      BY <2>1, <3>1
  <2>3. CASE c = d /\ Queue(d, r)
    <3>1. told'[c] = IF on[c] THEN Sound(r) ELSE told[c]
      BY <2>3 DEF Queue, TypeOK
    <3>2. reg'[c] = r
      BY <1>2, <2>3 DEF TypeOK
    <3> QED
      BY <2>1, <3>1, <3>2
  <2>4. CASE c = d /\ UNCHANGED told /\ \E half : got' = [got EXCEPT ![d] = @ \cup {half}]
    <3>1. got'[c] # {}
      BY <2>4 DEF TypeOK
    <3> QED
      BY <2>1, <2>4, <3>1
  <2> QED
    BY <1>2, <2>2, <2>3, <2>4
<1>3. ASSUME NEW c \in Channels, NEW half \in {"hi", "lo"}, NEW v \in Halves,
             WriteHalf(c, half, v)
      PROVE  PlaysTheRegisters'
  <2> DEFINE r == IF half = "hi" THEN [reg[c] EXCEPT !.hi = v] ELSE [reg[c] EXCEPT !.lo = v]
  <2>1. r \in Registers
    BY DEF TypeOK, Registers
  <2>2. /\ reg' = [reg EXCEPT ![c] = r] /\ UNCHANGED <<dmacon, on>>
        /\ \/ Queue(c, r) /\ got' = [got EXCEPT ![c] = {}]
           \/ UNCHANGED told /\ got' = [got EXCEPT ![c] = @ \cup {half}]
    BY <1>3 DEF WriteHalf
  <2> HIDE DEF r
  <2> QED
    BY <1>2, <2>1, <2>2
<1>4. ASSUME NEW c \in Channels, NEW v \in Lengths, WriteLen(c, v)
      PROVE  PlaysTheRegisters'
  <2> DEFINE r == [reg[c] EXCEPT !.length = v]
  <2>1. r \in Registers
    BY DEF TypeOK, Registers
  <2>2. /\ reg' = [reg EXCEPT ![c] = r] /\ UNCHANGED <<dmacon, on>>
        /\ Queue(c, r) /\ got' = got
    BY <1>4 DEF WriteLen
  <2> HIDE DEF r
  <2> QED
    BY <1>2, <2>1, <2>2
<1>5. ASSUME NEW c \in Channels, NEW v, WritePer(c, v) \/ WriteVol(c, v)
      PROVE  PlaysTheRegisters'
  BY <1>5 DEF WritePer, WriteVol, PlaysTheRegisters, Running
<1> QED
  BY <1>1, <1>3, <1>4, <1>5 DEF WriteAudio

\* The steps that leave the channels alone.
LEMMA SoundUntouched ==
  ASSUME WriteInterrupts \/ (\E t \in Tasks : Continue(t)) \/ Interrupts
           \/ \E c \in Channels : SoundFunc(c)
  PROVE  UNCHANGED sound
<1>1. WriteInterrupts => UNCHANGED sound
  BY DEF WriteInterrupts, LoadIntreq, WriteIntena, LoadDat, LoadSetclr
<1>2. \A t : Continue(t) => UNCHANGED sound
  BY DEF Continue, Store, Test, Mark, Cause
<1>3. Interrupts => UNCHANGED sound
  BY DEF Interrupts, SoftInt, Handler
<1>4. \A c : SoundFunc(c) => UNCHANGED sound
  BY DEF SoundFunc
<1> QED
  BY <1>1, <1>2, <1>3, <1>4

\* AHI plays what has DMA and what the registers say (PUHWrite, lines 518 to
\* 838), for any number of channels.
THEOREM PlaysTheRegistersHolds == Spec => []PlaysTheRegisters
<1>1. Init => PlaysTheRegisters
  BY DEF Init, PlaysTheRegisters, Running, Master, PaulaAssumption
<1>2. TypeOK /\ PlaysTheRegisters /\ [Next]_vars => PlaysTheRegisters'
  <2>1. PlaysTheRegisters /\ UNCHANGED sound => PlaysTheRegisters'
    BY DEF PlaysTheRegisters, sound, Running
  <2>2. UNCHANGED vars => UNCHANGED sound
    BY DEF vars
  <2> QED
    BY <2>1, <2>2, PlaysStep, SoundUntouched DEF Next
<1> QED
  BY <1>1, <1>2, TypeCorrect, PTL DEF Spec

-----------------------------------------------------------------------------
(***************************************************************************)
(* The interrupt.  Between its steps a task relies on little: what it is   *)
(* about to store keeps every request it does not mean to clear.           *)
(***************************************************************************)
StoresKeep ==
  \A t \in Tasks :
    job[t].at = "store" =>
      /\ job[t].loaded \ job[t].clears \subseteq job[t].value
      /\ t = Process => job[t].value = job[t].loaded /\ job[t].then = Idle
      /\ t = Program => \/ job[t].then = Testing
                        \/ /\ job[t].then.at = "test dat"
                           /\ job[t].value = job[t].loaded \cup {job[t].then.channel}

ProcessStores == job[Process] = Idle \/ job[Process].at = "store"

\* Where the enabled requests are looked after when the program is inside
\* PUHWrite: it has still to test them, or only its own channel's is new.
LookedAfter ==
  /\ soft.running => soft.mask = intena \cap intreq
  /\ ~stale /\ ~soft.running =>
       \/ intena \cap intreq = {}
       \/ pending
       \/ job[Program].at \in {"test", "mark"}
       \/ job[Program].at = "test dat" /\ intena \cap intreq \subseteq {job[Program].channel}

IrqInv == StoresKeep /\ ProcessStores /\ PendingIsCaused /\ LookedAfter /\ EndsAreKept

LEMMA IrqWriteAudio ==
  ASSUME IrqInv, UNCHANGED interrupt
  PROVE  IrqInv'
BY DEF IrqInv, interrupt, StoresKeep, ProcessStores, PendingIsCaused, LookedAfter, EndsAreKept

LEMMA Letters ==
  /\ Idle.at = "idle" /\ Testing.at = "test"
  /\ \A l, v, c, n : /\ Storing(l, v, c, n).at = "store"
                     /\ Storing(l, v, c, n).loaded = l
                     /\ Storing(l, v, c, n).value = v
                     /\ Storing(l, v, c, n).clears = c
                     /\ Storing(l, v, c, n).then = n
  /\ Program # Process /\ Program \in Tasks /\ Process \in Tasks
BY DEF Idle, Testing, Storing, Program, Process, Tasks

\* A task at rest begins to write m_INTREQ.
LEMMA IrqLoad ==
  ASSUME TypeOK, IrqInv, NEW t \in Tasks, job[t] = Idle, ~soft.running,
         NEW value, NEW clears, NEW then,
         job' = [job EXCEPT ![t] = Storing(intreq, value, clears, then)],
         intreq \ clears \subseteq value,
         t = Process => value = intreq /\ then = Idle,
         t = Program => \/ then = Testing
                        \/ then.at = "test dat" /\ value = intreq \cup {then.channel},
         UNCHANGED <<intena, intreq, pending, caused, soft, owed, stale>>
  PROVE  IrqInv'
<1>1. job'[t] = Storing(intreq, value, clears, then)
      /\ \A u \in Tasks \ {t} : job'[u] = job[u]
  BY DEF TypeOK
<1> DEFINE new == Storing(intreq, value, clears, then)
<1>a. /\ new.at = "store" /\ new.loaded = intreq /\ new.value = value
      /\ new.clears = clears /\ new.then = then
  BY DEF Storing
<1> HIDE DEF new
<1>2. StoresKeep'
  <2> SUFFICES ASSUME NEW u \in Tasks, job'[u].at = "store"
               PROVE  /\ job'[u].loaded \ job'[u].clears \subseteq job'[u].value
                      /\ u = Process => job'[u].value = job'[u].loaded /\ job'[u].then = Idle
                      /\ u = Program =>
                           \/ job'[u].then = Testing
                           \/ /\ job'[u].then.at = "test dat"
                              /\ job'[u].value = job'[u].loaded \cup {job'[u].then.channel}
    BY DEF StoresKeep
  <2>1. CASE u = t
    <3>1. job'[u] = new
      BY <1>1, <2>1 DEF new
    <3> QED
      BY <1>a, <2>1, <3>1
  <2>2. CASE u # t
    <3>1. job'[u] = job[u]
      BY <1>1, <2>2
    <3> QED
      BY <3>1 DEF IrqInv, StoresKeep
  <2> QED
    BY <2>1, <2>2
<1>3. ProcessStores'
  <2>1. CASE t = Process
    <3>1. job'[Process] = new
      BY <1>1, <2>1 DEF new
    <3> QED
      BY <1>a, <3>1 DEF ProcessStores
  <2>2. CASE t # Process
    <3>1. job'[Process] = job[Process]
      BY <1>1, <2>2, Letters
    <3> QED
      BY <3>1 DEF IrqInv, ProcessStores
  <2> QED
    BY <2>1, <2>2
<1>4. PendingIsCaused'
  BY <1>1, Letters DEF IrqInv, PendingIsCaused
<1>5. LookedAfter'
  BY <1>1, Letters DEF IrqInv, LookedAfter
<1>6. EndsAreKept'
  BY DEF IrqInv, EndsAreKept
<1> QED
  BY <1>2, <1>3, <1>4, <1>5, <1>6 DEF IrqInv

LEMMA IrqWriteInterrupts ==
  ASSUME TypeOK, IrqInv, WriteInterrupts
  PROVE  IrqInv'
<1>1. ASSUME NEW bits \in SUBSET Channels, NEW set \in BOOLEAN, LoadIntreq(bits, set)
      PROVE  IrqInv'
  <2>1. /\ job[Program] = Idle /\ ~soft.running /\ Program # Process /\ Program \in Tasks
        /\ UNCHANGED <<intena, intreq, pending, caused, soft, owed, stale>>
    BY <1>1, Letters DEF LoadIntreq
  <2>2. CASE set
    <3>1. job' = [job EXCEPT ![Program] = Storing(intreq, intreq \cup bits, {}, Testing)]
      BY <1>1, <2>2 DEF LoadIntreq
    <3>2. intreq \ {} \subseteq intreq \cup bits
      OBVIOUS
    <3> QED
      BY <2>1, <3>1, <3>2, IrqLoad
  <2>3. CASE ~set
    <3>1. job' = [job EXCEPT ![Program] = Storing(intreq, intreq \ bits, bits, Testing)]
      BY <1>1, <2>3 DEF LoadIntreq
    <3>2. intreq \ bits \subseteq intreq \ bits
      OBVIOUS
    <3> QED
      BY <2>1, <3>1, <3>2, IrqLoad
  <2> QED
    BY <2>2, <2>3
<1>2. ASSUME NEW c \in Channels, LoadDat(c) PROVE IrqInv'
  <2> DEFINE then == [at |-> "test dat", channel |-> c]
  <2>1. /\ job[Program] = Idle /\ ~soft.running /\ Program # Process /\ Program \in Tasks
        /\ UNCHANGED <<intena, intreq, pending, caused, soft, owed, stale>>
        /\ job' = [job EXCEPT ![Program] = Storing(intreq, intreq \cup {c}, {}, then)]
    BY <1>2, Letters DEF LoadDat
  <2>2. intreq \ {} \subseteq intreq \cup {c}
    OBVIOUS
  <2>3. then.at = "test dat" /\ then.channel = c
    OBVIOUS
  <2> HIDE DEF then
  <2> QED
    BY <2>1, <2>2, <2>3, IrqLoad
<1>3. CASE LoadSetclr
  BY <1>3, IrqLoad, Letters DEF LoadSetclr
<1>4. ASSUME NEW bits \in SUBSET Channels, NEW set \in BOOLEAN, WriteIntena(bits, set)
      PROVE  IrqInv'
  <2>1. job'[Program] = Testing /\ job'[Process] = job[Process]
    BY <1>4, Letters DEF WriteIntena, TypeOK
  <2>2. /\ UNCHANGED <<intreq, pending, caused, soft, owed, stale>> /\ ~soft.running
        /\ job[Program] = Idle
    BY <1>4 DEF WriteIntena
  <2>3. StoresKeep' /\ ProcessStores'
    BY <2>1, <2>2, Letters DEF IrqInv, StoresKeep, ProcessStores, Tasks
  <2>4. PendingIsCaused' /\ LookedAfter' /\ EndsAreKept'
    BY <2>1, <2>2, Letters DEF IrqInv, PendingIsCaused, LookedAfter, EndsAreKept
  <2> QED
    BY <2>3, <2>4 DEF IrqInv
<1> QED
  BY <1>1, <1>2, <1>3, <1>4 DEF WriteInterrupts

LEMMA IrqContinue ==
  ASSUME TypeOK, IrqInv, NEW t \in Tasks, Continue(t)
  PROVE  IrqInv'
<1>1. CASE Store(t) /\ t = Process
  <2>1. /\ job'[Process] = Idle /\ job'[Program] = job[Program]
        /\ intreq' = job[Process].loaded /\ stale' = (stale \/ intreq # job[Process].loaded)
        /\ owed' \subseteq owed
        /\ UNCHANGED <<intena, pending, caused, soft>> /\ ~soft.running
    BY <1>1, Letters DEF Store, IrqInv, StoresKeep, TypeOK
  <2>2. StoresKeep' /\ ProcessStores'
    <3>1. \A u \in Tasks : job'[u].at = "store" => u = Program
      BY <2>1, Letters DEF Tasks
    <3>2. StoresKeep'
      <4>1. /\ job[Program].loaded \ job[Program].clears \subseteq job[Program].value \/ job[Program].at # "store"
            /\ job[Program].at = "store" =>
                 \/ job[Program].then = Testing
                 \/ /\ job[Program].then.at = "test dat"
                    /\ job[Program].value = job[Program].loaded \cup {job[Program].then.channel}
        BY Letters DEF IrqInv, StoresKeep
      <4> QED
        BY <2>1, <3>1, <4>1, Letters DEF StoresKeep
    <3>3. ProcessStores'
      BY <2>1 DEF ProcessStores
    <3> QED
      BY <3>2, <3>3
  <2>3. ~stale' => ~stale /\ intreq' = intreq
    BY <2>1
  <2>4. PendingIsCaused' /\ LookedAfter' /\ EndsAreKept'
    BY <2>1, <2>3, Letters DEF IrqInv, PendingIsCaused, LookedAfter, EndsAreKept
  <2> QED
    BY <2>2, <2>4 DEF IrqInv
<1>2. CASE Store(t) /\ t = Program
  <2>1. /\ job'[Program] = job[Program].then /\ job'[Process] = job[Process]
        /\ intreq' = job[Program].value /\ stale' = (stale \/ intreq # job[Program].loaded)
        /\ owed' = owed \ job[Program].clears
        /\ job[Program].at = "store"
        /\ UNCHANGED <<intena, pending, caused, soft>> /\ ~soft.running
    BY <1>2, Letters DEF Store, TypeOK
  <2>2. /\ job[Program].loaded \ job[Program].clears \subseteq job[Program].value
        /\ \/ job'[Program] = Testing
           \/ /\ job'[Program].at = "test dat"
              /\ intreq' = job[Program].loaded \cup {job'[Program].channel}
    BY <2>1, Letters DEF IrqInv, StoresKeep
  <2>3. ~stale' => ~stale /\ intreq = job[Program].loaded
    BY <2>1
  <2>4. StoresKeep' /\ ProcessStores'
    BY <2>1, <2>2, Letters DEF IrqInv, StoresKeep, ProcessStores, Tasks
  <2>5. PendingIsCaused'
    BY <2>1, <2>2, Letters DEF IrqInv, PendingIsCaused
  <2>6. LookedAfter'
    BY <2>1, <2>2, <2>3, Letters DEF IrqInv, LookedAfter
  <2>7. EndsAreKept'
    BY <2>1, <2>2, <2>3 DEF IrqInv, EndsAreKept
  <2> QED
    BY <2>4, <2>5, <2>6, <2>7 DEF IrqInv
<1>3. CASE Test
  <2>1. /\ job'[Program] = (IF Wanted /\ ~pending THEN [at |-> "mark"] ELSE Idle)
        /\ job'[Process] = job[Process] /\ job[Program].at \in {"test", "test dat"}
        /\ UNCHANGED <<intena, intreq, pending, caused, soft, owed, stale>> /\ ~soft.running
    BY <1>3, Letters DEF Test, TypeOK
  <2>2. job'[Program].at \in {"mark", "idle"}
        /\ (job'[Program].at = "mark" <=> Wanted /\ ~pending)
    <3>1. CASE Wanted /\ ~pending
      <4>1. job'[Program] = [at |-> "mark"]
        BY <2>1, <3>1, Zenon
      <4> QED
        BY <3>1, <4>1
    <3>2. CASE ~(Wanted /\ ~pending)
      <4>1. job'[Program] = Idle
        BY <2>1, <3>2, Zenon
      <4> QED
        BY <3>2, <4>1, Letters
    <3> QED
      BY <3>1, <3>2
  <2>3. StoresKeep' /\ ProcessStores'
    BY <2>1, <2>2, Letters DEF IrqInv, StoresKeep, ProcessStores, Tasks
  <2>4. PendingIsCaused' /\ EndsAreKept'
    BY <2>1, <2>2 DEF IrqInv, PendingIsCaused, EndsAreKept
  <2>5. LookedAfter'
    BY <2>1, <2>2 DEF IrqInv, LookedAfter, Wanted
  <2> QED
    BY <2>3, <2>4, <2>5 DEF IrqInv
<1>4. CASE Mark
  <2>1. /\ job'[Program].at = "cause" /\ job'[Process] = job[Process]
        /\ pending' = TRUE
        /\ UNCHANGED <<intena, intreq, caused, soft, owed, stale>> /\ ~soft.running
    BY <1>4, Letters DEF Mark, TypeOK
  <2>2. StoresKeep' /\ ProcessStores'
    BY <2>1, Letters DEF IrqInv, StoresKeep, ProcessStores, Tasks
  <2>3. PendingIsCaused' /\ LookedAfter' /\ EndsAreKept'
    BY <2>1 DEF IrqInv, PendingIsCaused, LookedAfter, EndsAreKept
  <2> QED
    BY <2>2, <2>3 DEF IrqInv
<1>5. CASE Cause
  <2>1. /\ job'[Program] = Idle /\ job'[Process] = job[Process]
        /\ caused' = TRUE /\ job[Program].at = "cause"
        /\ UNCHANGED <<intena, intreq, pending, soft, owed, stale>> /\ ~soft.running
    BY <1>5, Letters DEF Cause, TypeOK
  <2>2. StoresKeep' /\ ProcessStores'
    BY <2>1, Letters DEF IrqInv, StoresKeep, ProcessStores, Tasks
  <2>3. PendingIsCaused' /\ LookedAfter' /\ EndsAreKept'
    BY <2>1 DEF IrqInv, PendingIsCaused, LookedAfter, EndsAreKept
  <2> QED
    BY <2>2, <2>3 DEF IrqInv
<1> QED
  BY <1>1, <1>2, <1>3, <1>4, <1>5, Letters DEF Continue, Tasks

LEMMA IrqInterrupt ==
  ASSUME TypeOK, IrqInv, Interrupts \/ \E c \in Channels : SoundFunc(c)
  PROVE  IrqInv'
<1>1. UNCHANGED job => StoresKeep' /\ ProcessStores'
  BY DEF IrqInv, StoresKeep, ProcessStores
<1>2. ASSUME NEW requests, Request(requests), UNCHANGED job
      PROVE  PendingIsCaused' /\ (intena \cap requests # {} => pending')
             /\ (pending => pending')
  BY <1>2 DEF Request, IrqInv, PendingIsCaused
<1>3. CASE SoftInt
  <2>1. /\ UNCHANGED <<intena, intreq, job, owed, stale>> /\ pending' = FALSE
        /\ soft' = [running |-> intreq \cap intena # {}, mask |-> intreq \cap intena]
    BY <1>3 DEF SoftInt
  <2>2. (soft.running)' <=> intreq \cap intena # {}
    BY <2>1, Zenon
  <2>3. PendingIsCaused' /\ EndsAreKept'
    BY <2>1 DEF IrqInv, PendingIsCaused, EndsAreKept
  <2>4. LookedAfter'
    BY <2>1, <2>2 DEF LookedAfter
  <2> QED
    BY <1>1, <2>1, <2>3, <2>4 DEF IrqInv
<1>4. ASSUME NEW c \in Channels, Handler(c) PROVE IrqInv'
  <2>1. /\ intreq' = intreq \ {c} /\ owed' = owed \ {c}
        /\ UNCHANGED <<intena, job, stale>> /\ Request(intreq')
        /\ soft' = [running |-> intreq' \cap intena # {}, mask |-> intreq' \cap intena]
    BY <1>4 DEF Handler
  <2>2. (soft.running)' <=> intreq' \cap intena # {}
    BY <2>1, Zenon
  <2>3. EndsAreKept'
    BY <2>1 DEF IrqInv, EndsAreKept
  <2>4. LookedAfter'
    BY <2>1, <2>2 DEF LookedAfter
  <2> QED
    BY <1>1, <1>2, <2>1, <2>3, <2>4 DEF IrqInv
<1>5. ASSUME NEW c \in Channels, SoundFunc(c) PROVE IrqInv'
  <2>1. /\ intreq' = intreq \cup {c} /\ owed' = owed \cup {c}
        /\ UNCHANGED <<intena, soft, job, stale>> /\ Request(intreq') /\ ~soft.running
    BY <1>5 DEF SoundFunc
  <2>2. EndsAreKept'
    BY <2>1 DEF IrqInv, EndsAreKept
  <2>3. LookedAfter'
    BY <1>2, <2>1 DEF LookedAfter
  <2> QED
    BY <1>1, <1>2, <2>1, <2>2, <2>3 DEF IrqInv
<1> QED
  BY <1>3, <1>4, <1>5 DEF Interrupts

LEMMA IrqInvariant == Spec => []IrqInv
<1>1. Init => IrqInv
  <2> SUFFICES ASSUME Init PROVE IrqInv
    OBVIOUS
  <2>1. /\ job = [t \in Tasks |-> Idle] /\ ~pending /\ ~soft.running
        /\ intena = {} /\ owed = {}
    BY DEF Init, NotRunning
  <2>2. StoresKeep /\ ProcessStores
    BY <2>1, Letters DEF StoresKeep, ProcessStores
  <2>3. PendingIsCaused /\ LookedAfter /\ EndsAreKept
    BY <2>1 DEF PendingIsCaused, LookedAfter, EndsAreKept
  <2> QED
    BY <2>2, <2>3 DEF IrqInv
<1>2. TypeOK /\ IrqInv /\ [Next]_vars => IrqInv'
  <2>1. IrqInv /\ UNCHANGED vars => IrqInv'
    BY IrqWriteAudio DEF vars
  <2>2. WriteAudio => UNCHANGED interrupt
    BY DEF WriteAudio, WriteDmacon, WriteHalf, WriteLen, WritePer, WriteVol
  <2> QED
    BY <2>1, <2>2, IrqWriteAudio, IrqWriteInterrupts, IrqContinue, IrqInterrupt DEF Next
<1> QED
  BY <1>1, <1>2, TypeCorrect, PTL DEF Spec

\* m_CausePending never shuts the interrupt out (PUHSoftInt, PUHSoundFunc and
\* the three tests of PUHWrite).
THEOREM PendingIsCausedHolds == Spec => []PendingIsCaused
<1>1. IrqInv => PendingIsCaused
  BY DEF IrqInv
<1> QED
  BY <1>1, IrqInvariant, PTL

\* Until a task writes back an outdated m_INTREQ, no enabled request is
\* forgotten, with any number of channels.
THEOREM EnabledIsPendingHolds == Spec => []EnabledIsPending
<1>1. IrqInv => EnabledIsPending
  BY Letters DEF IrqInv, EnabledIsPending, PendingIsCaused, LookedAfter
<1> QED
  BY <1>1, IrqInvariant, PTL

\* Both together: requests and interrupts go hand in hand.
THEOREM RequestsAreCausedHolds == Spec => []RequestsAreCaused
<1>1. PendingIsCaused /\ EnabledIsPending => RequestsAreCaused
  BY DEF RequestsAreCaused
<1> QED
  BY <1>1, PendingIsCausedHolds, EnabledIsPendingHolds, PTL

\* Until then, no sound's end leaves m_INTREQ unserved and uncleared.
THEOREM EndsAreKeptHolds == Spec => []EndsAreKept
<1>1. IrqInv => EndsAreKept
  BY DEF IrqInv
<1> QED
  BY <1>1, IrqInvariant, PTL
=============================================================================
