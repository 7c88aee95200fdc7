------------------------------ MODULE ChipMemory ------------------------------
(***************************************************************************)
(* The address space (UAE/memory.c, mem_api.c) and what programs do to it  *)
(* through the library: the table of banks, the accesses of the chip       *)
(* memory, of the CIAs' ports, of the battery clock's control registers    *)
(* and of the custom registers, and the calls that change one bit, which   *)
(* read and write without a lock.  Programs use chip memory they have been *)
(* given by allocChip.                                                     *)
(*                                                                         *)
(* A value is the set of its bits' numbers.  The CIAs' timers, time of day *)
(* and interrupt registers are in Cia and Tod, the blitter's answer to its *)
(* registers in Blitter, the audio registers in Paula.                     *)
(***************************************************************************)
EXTENDS ChipAlloc

CONSTANTS
  MemoryUses,   \* accesses of allocated memory: call, offset, width and bit
  DeviceUses,   \* accesses of registers: call, address, width and bit, and the register's bit meant
  MaxOps        \* bound: allocations and accesses in all

Bits == 0 .. 7
Word == 0 .. 15
Bytes == [byte |-> 1, word |-> 2, long |-> 4]

Cells == {<<"chip", n * BlockSize + i>> : n \in 0 .. Blocks - 1, i \in 0 .. 3}
Ports == ({"ciaa"} \X (0 .. 3)) \cup ({"ciab"} \X (0 .. 3))
Clock == {"clock"} \X {55, 59, 63}
\* BLTCON0 and BLTCON1, which cannot be read; DMACONR, INTENAR and INTREQR, which cannot be written.
WriteOnly == {"custom"} \X {64, 66}
ReadOnly == {"custom"} \X {2, 28, 30}
Custom == WriteOnly \cup ReadOnly
Places == Cells \cup Ports \cup Clock \cup Custom

VARIABLES
  content,   \* what the places hold
  last,      \* last_custom_value
  acc,       \* acc[p]: the bit operation p is in the middle of
  meant,     \* history: what the calls, each done at once, would have left
  raced,     \* history: places where a call could not do what it meant
  ops

memoryVars == <<content, last, acc, meant, raced, ops>>
vars == <<allocVars, memoryVars>>

NoAccess == [at |-> "none"]

-----------------------------------------------------------------------------
(* The banks.                                                              *)

map_banks(banks, bank, start, size) ==
  [n \in DOMAIN banks |-> IF n \in start .. start + size - 1 THEN bank ELSE banks[n]]

init_mem_banks(max) == [n \in 0 .. max - 1 |-> "dummy"]

setup_mem_banks ==
  map_banks(map_banks(map_banks(map_banks(init_mem_banks(255),
    "chipmem", 0, 255), "cia", 160, 32), "clock", 220, 1), "nallePuh", 223, 1)

mem_banks == setup_mem_banks
BankOf(addr) == mem_banks[addr \div 65536]

\* Programs stay within the first block of what they have been given; the other
\* addresses they use are registers.  The chip memory ends before the CIAs.
ASSUME MemoryAssumption ==
  /\ MaxOps \in Nat /\ Blocks * BlockSize =< 160 * 65536
  /\ \A u \in MemoryUses \cup DeviceUses : u.width \in DOMAIN Bytes /\ u.bit \in Nat
  /\ \A u \in MemoryUses :
       /\ u.op \in {"Chg", "Set", "Clr", "Read", "Write"}
       /\ u.offset \in Nat /\ u.offset + Bytes[u.width] =< BlockSize
  /\ \A u \in DeviceUses : u.op \in {"Chg", "Set", "Clr", "Read"} /\ u.addr \in Nat /\ BankOf(u.addr) # "chipmem"

\* The bytes of a value of n bytes, the highest first.
ByteOf(v, n, i) == {b \in Bits : 8 * (n - 1 - i) + b \in v}
OfBytes(n, bytes) == {k \in 0 .. 8 * n - 1 : k % 8 \in bytes[n - 1 - k \div 8]}

\* cia_lget, cia_wget and cia_bget: the last byte of the access chooses a chip and a register.
CiaPlace(addr, n) ==
  LET last_byte == addr + n - 1
      register  == (last_byte \div 256) % 16
      select    == (last_byte \div 4096) % 4
  IN  IF select = 2 /\ last_byte % 2 = 1 THEN <<"ciaa", register>>
      ELSE IF select = 1 /\ last_byte % 2 = 0 THEN <<"ciab", register>>
      ELSE <<"none", 0>>

\* The places an access of n bytes reaches.
Addressed(addr, n) ==
  CASE BankOf(addr) = "chipmem"  -> {<<"chip", addr + i>> : i \in 0 .. n - 1}
    [] BankOf(addr) = "cia"      -> {CiaPlace(addr, n)}
    [] BankOf(addr) = "clock"    -> {<<"clock", (addr + n - 1) % 64>>}
    [] BankOf(addr) = "nallePuh" -> {<<"custom", (addr + i) % 512>> : i \in {0, n - 2}}
    [] OTHER                     -> {}

Reached(addr, n) == Places \cap Addressed(addr, n)

-----------------------------------------------------------------------------
(* longget, wordget, byteget: what a read may return and leave.            *)

Plainly(v) == {[value |-> v, content |-> content, last |-> last]}

\* chipmem_lget and its kin.
ReadChip(addr, n) == Plainly(OfBytes(n, [i \in 0 .. n - 1 |-> content[<<"chip", addr + i>>]]))

\* ReadCIAA and ReadCIAB of a port: one byte.
ReadCia(addr, n) == Plainly(UNION {content[c] : c \in Reached(addr, n)})

\* clock_bget: a control register, or a digit of the time at this moment, here 0 or 9.
ReadClock(addr, n) ==
  IF Reached(addr, n) # {} THEN Plainly(UNION {content[c] : c \in Reached(addr, n)})
  ELSE IF (addr + n - 1) % 4 = 3 THEN Plainly({}) \cup Plainly({0, 3}) ELSE Plainly({})

\* custom_wget: a register that cannot be read is written with the last value on the bus.
ReadBus(addr) ==
  [value |-> last, content |-> [content EXCEPT ![<<"custom", addr % 512>>] = last], last |-> Word]

\* PUHRead answers the three readable registers itself.
PUHRead(addr) ==
  IF <<"custom", addr % 512>> \in ReadOnly
    THEN [value |-> content[<<"custom", addr % 512>>], content |-> content, last |-> last]
    ELSE ReadBus(addr)

\* nallePuh_lget reads two words, in either order, and takes the second for the high one.
ReadBusTwice(addr) ==
  {[value   |-> IF first = 0 THEN last \cup {16 + b : b \in Word} ELSE Word \cup {16 + b : b \in last},
    content |-> [content EXCEPT ![<<"custom", (addr + first) % 512>>] = last,
                                ![<<"custom", (addr + 2 - first) % 512>>] = Word],
    last    |-> Word] : first \in {0, 2}}

ReadCustom(addr, n) ==
  CASE n = 4 -> ReadBusTwice(addr)
    [] n = 2 -> {PUHRead(addr)}
    [] n = 1 -> Plainly({})

Reads(addr, n) ==
  CASE BankOf(addr) = "chipmem"  -> ReadChip(addr, n)
    [] BankOf(addr) = "cia"      -> ReadCia(addr, n)
    [] BankOf(addr) = "clock"    -> ReadClock(addr, n)
    [] BankOf(addr) = "nallePuh" -> ReadCustom(addr, n)
    [] OTHER                     -> Plainly({})

-----------------------------------------------------------------------------
(* longput, wordput, byteput.                                              *)

\* Mutant: the bytes of a word or long are stored the lowest first.
WriteChipSwapped(addr, n, v) ==
  /\ content' = [c \in Places |-> IF c \in Reached(addr, n) THEN ByteOf(v, n, n - 1 - (c[2] - addr)) ELSE content[c]]
  /\ UNCHANGED last

\* chipmem_lput and its kin.
WriteChip(addr, n, v) ==
  /\ content' = [c \in Places |-> IF c \in Reached(addr, n) THEN ByteOf(v, n, c[2] - addr) ELSE content[c]]
  /\ UNCHANGED last

\* The bits that a write can change: WriteCIAA keeps all but three of its port A.
Settable(place) == IF place = <<"ciaa", 0>> THEN {0, 1, 6} ELSE Bits

\* cia_lput and its kin, for the ports.
WriteCia(addr, n, v) ==
  /\ content' = [c \in Places |-> IF c \in Reached(addr, n)
                                  THEN (content[c] \ Settable(c)) \cup (v \cap Settable(c)) ELSE content[c]]
  /\ UNCHANGED last

\* clock_bput; clock_wput and clock_lput do nothing.
WriteClock(addr, n, v) ==
  /\ content' = [c \in Places |-> IF n = 1 /\ c \in Reached(addr, n) THEN v \cap Bits ELSE content[c]]
  /\ UNCHANGED last

\* nallePuh_lput and its kin: the high word first, to the lower register; no bytes.
\* The value stays on the bus even if the register is not to be written.
WriteCustom(addr, n, v) ==
  LET low  == v \cap Word
      high == {b \in Word : 16 + b \in v}
  IN  /\ content' = [c \in Places |->
           IF n = 1 \/ c \notin Reached(addr, n) \/ c \in ReadOnly THEN content[c]
           ELSE IF n = 4 /\ c[2] = addr % 512 THEN high ELSE low]
      /\ last' = IF n = 1 THEN last ELSE low

Write(addr, n, v) ==
  CASE BankOf(addr) = "chipmem"  -> WriteChip(addr, n, v)
    [] BankOf(addr) = "cia"      -> WriteCia(addr, n, v)
    [] BankOf(addr) = "clock"    -> WriteClock(addr, n, v)
    [] BankOf(addr) = "nallePuh" -> WriteCustom(addr, n, v)
    [] OTHER                     -> UNCHANGED <<content, last>>

-----------------------------------------------------------------------------
(* The calls.                                                              *)

\* Mutant: the number of the block is lost.
hostAddressToChipLost(b) == (b.start * BlockSize) % BlockSize

\* The address of an allocation for the other calls: start << 10 above chipmemory, which is subtracted again.
hostAddressToChip(b) == b.start * BlockSize

\* The place and number of bit `bit` of the n bytes at addr of chip memory.
BitOf(addr, n, bit) ==
  IF bit < 8 * n THEN {<<<<"chip", addr + n - 1 - bit \div 8>>, bit % 8>>} ELSE {}

\* What p may access: its allocations and the registers, by the library's calls or,
\* from a 68k program, by the stubs that take the same from processor registers.
Uses(p) ==
  {LET addr == hostAddressToChip(b) + u.offset
   IN  [op |-> u.op, addr |-> addr, n |-> Bytes[u.width], bit |-> u.bit, moves |-> BitOf(addr, Bytes[u.width], u.bit)]
     : b \in held[p], u \in MemoryUses}
  \cup {[op |-> u.op, addr |-> u.addr, n |-> Bytes[u.width], bit |-> u.bit, moves |-> u.moves] : u \in DeviceUses}

\* The bit of a register that an access means, if it is one of those that can be set;
\* a long access of the custom registers is one of two words, and bytes are not for them.
Moves(place, bits, b) == IF b \in bits THEN {<<place, b>>} ELSE {}
CustomMoves(r, n, b) ==
  LET writable(place) == IF place \in ReadOnly THEN {} ELSE Word
      move(place, at) == Moves(place, writable(place), at)
  IN  IF n = 1 \/ b >= 8 * n THEN {}
      ELSE IF b < 16 THEN move(<<"custom", r + n - 2>>, b) ELSE move(<<"custom", r>>, b - 16)

\* Registers are used where the machine has them: CIA-A's in the odd bytes from BFE001
\* and CIA-B's in the even ones from BFD000, 256 apart; the clock's in every fourth byte
\* from DC0003, to be written singly; the custom registers in the words from DFF000.
AtHardware(u, r, n) ==
  \/ /\ r < 16 /\ u.addr = \hBFE001 + 256 * r - (n - 1)
     /\ u.moves = Moves(<<"ciaa", r>>, Settable(<<"ciaa", r>>), u.bit)
  \/ /\ r < 16 /\ u.addr = \hBFD000 + 256 * r - (n - 1)
     /\ u.moves = Moves(<<"ciab", r>>, Bits, u.bit)
  \/ /\ r < 16 /\ u.addr = \hDC0003 + 4 * r - (n - 1)
     /\ u.moves = Moves(<<"clock", 3 + 4 * r>>, IF n = 1 THEN Bits ELSE {}, u.bit)
  \/ /\ u.addr = \hDFF000 + r
     /\ u.moves = CustomMoves(r, n, u.bit)

ASSUME DeviceAssumption ==
  \A u \in DeviceUses : u.op # "Read" => \E r \in 0 .. 508 : AtHardware(u, r, Bytes[u.width])

Changed(op, bits, b) ==
  CASE op = "Chg" -> (bits \ {b}) \cup ({b} \ bits)
    [] op = "Set" -> bits \cup {b}
    [] op = "Clr" -> bits \ {b}

\* _bitChgChipLong and its kin, first half: the value is read.  What the read itself
\* changes, and the halves nallePuh_lget exchanges, can not be as meant afterwards.
BitGet(p, u) ==
  /\ ~InCall(p) /\ acc[p] = NoAccess /\ ops < MaxOps
  /\ \E r \in Reads(u.addr, u.n) :
       /\ content' = r.content /\ last' = r.last
       /\ acc' = [acc EXCEPT ![p] = [at |-> "put", use |-> u, value |-> r.value,
                                     seen |-> [c \in Reached(u.addr, u.n) |-> r.content[c]]]]
       /\ raced' = raced \cup {c \in Reached(u.addr, u.n) :
                                 r.content[c] # content[c] \/ (c \in WriteOnly /\ u.n = 4)}
  /\ ops' = ops + 1
  /\ UNCHANGED <<meant, allocVars>>

\* Second half: the changed value is written.  What others changed meanwhile is undone.
BitPut(p) ==
  /\ acc[p] # NoAccess
  /\ LET a == acc[p]
         u == a.use
     IN  /\ Write(u.addr, u.n, Changed(u.op, a.value, u.bit))
         /\ meant' = [c \in Places |->
              IF \E b \in Word : <<c, b>> \in u.moves
              THEN Changed(u.op, meant[c], CHOOSE b \in Word : <<c, b>> \in u.moves) ELSE meant[c]]
         /\ raced' = raced \cup {c \in DOMAIN a.seen : content[c] # a.seen[c]}
  /\ acc' = [acc EXCEPT ![p] = NoAccess]
  /\ UNCHANGED <<ops, allocVars>>

\* writeChipLong, writeChipWord, writeChipByte of one's own memory.
WriteWhole(p, u) ==
  /\ ~InCall(p) /\ acc[p] = NoAccess /\ ops < MaxOps
  /\ Write(u.addr, u.n, {u.bit})
  /\ meant' = [c \in Places |-> IF c \in Reached(u.addr, u.n) THEN {b \in Bits : <<c, b>> \in u.moves} ELSE meant[c]]
  /\ raced' = raced \ Reached(u.addr, u.n)
  /\ ops' = ops + 1
  /\ UNCHANGED <<acc, allocVars>>

\* readChipLong, readChipWord, readChipByte: the read itself can change a register.
ReadWhole(p, u) ==
  /\ ~InCall(p) /\ acc[p] = NoAccess /\ ops < MaxOps
  /\ \E r \in Reads(u.addr, u.n) :
       /\ content' = r.content /\ last' = r.last
       /\ raced' = raced \cup {c \in Reached(u.addr, u.n) : r.content[c] # content[c]}
  /\ ops' = ops + 1
  /\ UNCHANGED <<acc, meant, allocVars>>

Access(p, u) ==
  CASE u.op = "Read"  -> ReadWhole(p, u)
    [] u.op = "Write" -> WriteWhole(p, u)
    [] OTHER          -> BitGet(p, u)

\* allocChip and freeChip.
Allocating(p) ==
  /\ acc[p] = NoAccess
  /\ \/ BeginAlloc(p) /\ ops < MaxOps /\ ops' = ops + 1
     \/ (Continue(p) \/ GiveBack(p)) /\ UNCHANGED ops
  /\ UNCHANGED <<content, last, acc, meant, raced>>

-----------------------------------------------------------------------------
\* CIA_reset sets the two ports A; what the readable custom registers show does not matter.
AtReset == [c \in Places |-> CASE c = <<"ciaa", 0>> -> {0, 1}
                               [] c = <<"ciab", 0>> -> {2, 3, 7}
                               [] c \in ReadOnly   -> {9}
                               [] OTHER            -> {}]

Init ==
  /\ AllocInit
  /\ content = AtReset /\ meant = AtReset
  /\ last = {} /\ raced = {} /\ ops = 0
  /\ acc = [p \in Programs |-> NoAccess]

Next == \E p \in Programs :
  \/ Allocating(p)
  \/ \E u \in Uses(p) : Access(p, u)
  \/ BitPut(p)

Spec == Init /\ [][Next]_vars

-----------------------------------------------------------------------------
(* Properties.                                                             *)

TypeOK ==
  /\ virtual \in BOOLEAN /\ overlapped \in BOOLEAN /\ astray \in BOOLEAN
  /\ tab \in [Indices -> Entries]
  /\ used \in 0 .. MaxEntries /\ allocated \in Nat
  /\ used_blocks \subseteq 0 .. Blocks - 1
  /\ \A c \in Places : content[c] \subseteq (IF c \in Custom THEN Word ELSE Bits)
  /\ DOMAIN content = Places /\ DOMAIN meant = Places
  /\ last \subseteq Word /\ raced \subseteq Places /\ ops \in 0 .. MaxOps

\* Every place holds what the calls that changed bits of it would have left
\* had each been done at once, but for those that another changed between a
\* call's read and its write and the write-only registers that a read wrote:
\* the banks, the choice of a CIA's register, the order of the bytes and the
\* width of the accesses all fit together.
BitsAreKept ==
  TypeOK /\ \A c \in Places \ raced : content[c] = meant[c]

\* Calls on one's own memory are never undone by others, without any lock,
\* as long as the allocator is used in order.
KeepsToItself ==
  Orderly => \A b \in Held : \A c \in raced : c[1] = "chip" => (c[2] \div BlockSize) \notin Region(b)
=============================================================================
