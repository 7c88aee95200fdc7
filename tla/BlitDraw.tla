------------------------------ MODULE BlitDraw ------------------------------
(***************************************************************************)
(* What the blitter draws (UAE/blitter.c, UAE/tools/genblitter.c): blocks  *)
(* by a drawing function of the minterm's own where there is one, or by    *)
(* the general loops, with shifts, masks and filling; and lines.           *)
(*                                                                         *)
(* A word is the set of its bits that are one.  Addresses count words; 0   *)
(* is the address the code takes for a channel that is off.  Two machines  *)
(* draw the same blits: `code` as the program does, `general` without the  *)
(* special functions.                                                      *)
(***************************************************************************)
EXTENDS Minterms

CONSTANTS
  ByteBits,   \* bits of a byte, 8 in the code
  Cells,      \* words of chip memory
  Memories,   \* what it may hold at first
  Blits       \* the blits a program may ask for: first, second and so on

Word == 2 * ByteBits
All == 0 .. Word - 1
Channels == {"a", "b", "c", "d"}

ASSUME BlitDrawAssumption ==
  /\ {ByteBits, Cells} \subseteq Nat \ {0}
  /\ Memories \subseteq [0 .. Cells - 1 -> SUBSET All]

VARIABLES
  code,      \* the blitter's registers and the chip memory
  general,   \* the same, without the special functions
  blits, last,
  before,    \* code, with last's registers written and nothing drawn
  skipped    \* history: did a blit before the last leave out a channel?

drawVars == <<code, general, blits, last, before, skipped>>

Nothing == [kind |-> "none", mt |-> 0]

DrawTypeOK ==
  /\ {code.mem, general.mem} \subseteq [0 .. Cells - 1 -> SUBSET All]
  /\ {code.dat[ch] : ch \in Channels} \cup {code.bhold} \subseteq SUBSET All
  /\ {code.zero, skipped} \subseteq BOOLEAN
  /\ blits \in 0 .. Len(Blits)

\* Addresses are not cut to the size of chip memory: the blits asked for stay in it.
wget(mem, at) == mem[at]
wput(mem, at, v) == [mem EXCEPT ![at] = v]

-----------------------------------------------------------------------------
(* Shifts, masks and filling.                                              *)

\* (prev << 16 | now) >> shift, and (now << 16 | prev) >> 16 - shift.
Up(prev, now, shift) == {k \in All : k + shift \in now \/ k + shift - Word \in prev}

Down(prev, now, shift) == {k \in All : k - shift \in now \/ k + Word - shift \in prev}
Shifted(b, prev, now, shift) == IF b.desc THEN Down(prev, now, shift) ELSE Up(prev, now, shift)

blit_masktable(b, i) ==
  (IF i = 0 THEN b.afwm ELSE All) \cap (IF i = b.h - 1 THEN b.alwm ELSE All)

\* build_blitfilltable: from the lowest bit up, each bit turns the carry round.
FillBit(r, k, ife) ==
  [data |-> IF ~r.fc THEN r.data
            ELSE IF ife THEN r.data \cup {k} ELSE SymDiff(r.data, {k}),
   fc |-> r.fc # (k \in r.data)]

FillByte(d, ife, fc) ==
  LET below[k \in 0 .. ByteBits] ==
        IF k = 0 THEN [data |-> d, fc |-> fc] ELSE FillBit(below[k - 1], k - 1, ife)
  IN  below[ByteBits]

FillWord(d, ife, fc) ==
  LET low == FillByte({k \in d : k < ByteBits}, ife, fc)
      high == FillByte({k - ByteBits : k \in {k \in d : k >= ByteBits}}, ife, low.fc)
  IN  [data |-> low.data \cup {k + ByteBits : k \in high.data}, fc |-> high.fc]

-----------------------------------------------------------------------------
(* The general loop of blitter_dofast and blitter_dofast_desc.             *)

Dir(b) == IF b.desc THEN -1 ELSE 1
Moved(at, n) == IF at = 0 THEN 0 ELSE at + n

\* The pointers of the channels in use are read, and set to where they will end.
Start(s, b) ==
  [s EXCEPT !.at = [ch \in Channels |-> IF ch \in b.use THEN s.pt[ch] ELSE 0],
            !.pt = [ch \in Channels |->
                      IF ch \in b.use THEN @[ch] + Dir(b) * (b.h + b.mod[ch]) * b.v ELSE @[ch]],
            !.zero = TRUE]

\* What is read of a channel, if the function uses it and it is on.
On(s, uses, ch) == ch \in uses /\ s.at[ch] # 0
Got(s, uses, ch) == IF On(s, uses, ch) THEN wget(s.mem, s.at[ch]) ELSE s.dat[ch]
BHold(s, uses, b) ==
  IF On(s, uses, "b") THEN Shifted(b, s.prev.b, Got(s, uses, "b"), b.bshift) ELSE s.bhold

\* Mutant: the word is written before the next one is read.
PutAtOnce(s, b, uses, a, bhold, out) ==
  [s EXCEPT !.dat = [a |-> Got(s, uses, "a"), b |-> Got(s, uses, "b"), c |-> Got(s, uses, "c"),
                     d |-> out.data],
            !.prev = [a |-> a, b |-> IF On(s, uses, "b") THEN Got(s, uses, "b") ELSE @.b],
            !.bhold = bhold,
            !.mem = IF s.at["d"] # 0 THEN wput(s.mem, s.at["d"], out.data) ELSE s.mem,
            !.zero = @ /\ out.data = {},
            !.fc = out.fc,
            !.at = [ch \in Channels |->
                      IF ch \in uses \cup {"d"} THEN Moved(@[ch], Dir(b)) ELSE @[ch]]]

\* A word is drawn, `out`.  It is written when the next word has been read.
Put(s, b, uses, a, bhold, out) ==
  [s EXCEPT !.dat = [a |-> Got(s, uses, "a"), b |-> Got(s, uses, "b"), c |-> Got(s, uses, "c"),
                     d |-> out.data],
            !.prev = [a |-> a, b |-> IF On(s, uses, "b") THEN Got(s, uses, "b") ELSE @.b],
            !.bhold = bhold,
            !.mem = IF s.dstp # 0 THEN wput(s.mem, s.dstp, s.dat["d"]) ELSE s.mem,
            !.zero = @ /\ out.data = {},
            !.fc = out.fc,
            !.dstp = IF s.at["d"] # 0 THEN s.at["d"] ELSE @,
            !.at = [ch \in Channels |->
                      IF ch \in uses \cup {"d"} THEN Moved(@[ch], Dir(b)) ELSE @[ch]]]

DrawWord(s, b, i) ==
  LET a == Got(s, Channels, "a") \cap blit_masktable(b, i)
      bhold == BHold(s, Channels, b)
      raw == blit_func(Shifted(b, s.prev.a, a, b.ashift), bhold, Got(s, Channels, "c"), b.mt, All)
  IN  Put(s, b, Channels, a, bhold,
          IF b.fill THEN FillWord(raw, b.ife, s.fc) ELSE [data |-> raw, fc |-> s.fc])

Modulos(s, b) == [s EXCEPT !.at = [ch \in Channels |-> Moved(@[ch], Dir(b) * b.mod[ch])]]

LastWrite(s) == IF s.dstp # 0 THEN [s EXCEPT !.mem = wput(@, s.dstp, s.dat["d"])] ELSE s

-----------------------------------------------------------------------------
(* The special functions: of the channels the minterm does not use,        *)
(* nothing is read and nothing kept.                                       *)

\* Mutant: the words of A are not kept for the shift.
SpecialWordNoPrev(s, b, i, uses) ==
  LET a == Got(s, uses, "a") \cap blit_masktable(b, i)
      bhold == BHold(s, uses, b)
      srca == IF "a" \in uses THEN Shifted(b, s.prev.a, a, b.ashift) ELSE {}
      dstd == blit_func(srca, bhold, Got(s, uses, "c"), b.mt, All)
  IN  Put(s, b, uses, s.prev.a, bhold, [data |-> dstd, fc |-> s.fc])

SpecialWord(s, b, i, uses) ==
  LET a == Got(s, uses, "a") \cap blit_masktable(b, i)
      bhold == BHold(s, uses, b)
      srca == IF "a" \in uses THEN Shifted(b, s.prev.a, a, b.ashift) ELSE {}
      dstd == blit_func(srca, bhold, Got(s, uses, "c"), b.mt, All)
  IN  Put(s, b, uses, IF "a" \in uses THEN a ELSE {}, bhold, [data |-> dstd, fc |-> s.fc])

-----------------------------------------------------------------------------
(* Blocks, by either function, one word after the other.                   *)

EndRow(s, b, i) == IF i = b.h - 1 THEN Modulos(s, b) ELSE s

\* Word p of the block: a row begins with the carry given, and ends with the modulos.
BlockWord(special, s, b, p) ==
  LET i == p % b.h
      t == [s EXCEPT !.fc = IF i = 0 THEN b.fci ELSE @]
  IN  EndRow(IF special THEN SpecialWord(t, b, i, Used(b.mt)) ELSE DrawWord(t, b, i), b, i)

\* The blitter after so many words.
Words(special, s, b) ==
  LET after[p \in 0 .. b.h * b.v] ==
        IF p = 0 THEN Start(s, b) ELSE BlockWord(special, after[p - 1], b, p - 1)
  IN  after

blitter_dofast(s, b) == LastWrite(Words(FALSE, s, b)[b.h * b.v])
blitter_dofast_desc(s, b) == LastWrite(Words(FALSE, s, b)[b.h * b.v])
blitdofast(s, b) == LastWrite(Words(TRUE, s, b)[b.h * b.v])
blitdofast_desc(s, b) == LastWrite(Words(TRUE, s, b)[b.h * b.v])

-----------------------------------------------------------------------------
(* Lines: a dot per step, the shift of A is its place in the word of C.    *)

line_incx(s) == IF s.shift = Word - 1 THEN [s EXCEPT !.shift = 0, !.pt.c = @ + 1]
                ELSE [s EXCEPT !.shift = @ + 1]
line_decx(s) == IF s.shift = 0 THEN [s EXCEPT !.shift = Word - 1, !.pt.c = @ - 1]
                ELSE [s EXCEPT !.shift = @ - 1]
line_incy(s, b) == [s EXCEPT !.pt.c = @ + b.mod.c, !.onedot = FALSE]
line_decy(s, b) == [s EXCEPT !.pt.c = @ - b.mod.c, !.onedot = FALSE]

MoveX(s, back) == IF back THEN line_decx(s) ELSE line_incx(s)
MoveY(s, b, back) == IF back THEN line_decy(s, b) ELSE line_incy(s, b)

\* The sometimes step, if the error is not negative, and the always step.
Sometimes(s, b) ==
  IF s.sign THEN s ELSE IF b.sud THEN MoveY(s, b, b.sul) ELSE MoveX(s, b.sul)
Always(s, b) == IF b.sud THEN MoveX(s, b.aul) ELSE MoveY(s, b, b.aul)

\* Mutant: the error is not carried on when no sometimes step is made.
ErrorSteep(s, b) ==
  IF "a" \in b.use /\ ~s.sign THEN [s EXCEPT !.pt.a = @ + b.mod.a] ELSE s

Error(s, b) ==
  IF "a" \in b.use THEN [s EXCEPT !.pt.a = @ + (IF s.sign THEN b.mod.b ELSE b.mod.a)] ELSE s

\* The tests of blitter_read and blitter_write for dot n: C is on, for D as well, and so is
\* DMA, which another task may turn off and on under the drawing; b.off has the
\* accesses that find it off.
Reads(b, n) == "c" \in b.use /\ <<n, "read">> \notin b.off
Writes(b, n) == "c" \in b.use /\ <<n, "write">> \notin b.off

\* blitter_read, blitter_line, blitter_write, blitter_nxline.
LineDot(s, b, n) ==
  LET c == IF Reads(b, n) THEN wget(s.mem, s.pt["c"]) ELSE s.dat["c"]
      a == IF b.sing /\ s.onedot THEN {} ELSE {k \in All : k + s.shift \in s.dat["a"] \cap b.afwm}
      d == blit_func(a, IF 0 \in s.lineb THEN All ELSE {}, c, b.mt, All)
      t == Error(Always(Sometimes([s EXCEPT !.onedot = TRUE], b), b), b)
  IN  [t EXCEPT !.sign = t.pt["a"] < 0,
                !.dat.c = c, !.dat.d = d,
                !.zero = @ /\ d = {},
                !.mem = IF Writes(b, n) THEN wput(@, s.pt["d"], d) ELSE @,
                !.pt.d = t.pt["c"],
                !.lineb = {k \in All : (k - 1) % Word \in s.lineb}]

LineStart(s, b) ==
  [s EXCEPT !.lineb = {k \in All : (k + b.bshift) % Word \in s.dat["b"]},
            !.sign = b.sign, !.onedot = FALSE, !.shift = b.ashift, !.zero = TRUE]

Line(s, b) ==
  LET after[n \in 0 .. b.v] == IF n = 0 THEN LineStart(s, b) ELSE LineDot(after[n - 1], b, n - 1)
  IN  after[b.v]

-----------------------------------------------------------------------------
(* One blit: the program writes the registers, the blitter draws.          *)

\* BLTBDAT shifts at once what it is given.  The drawing function begins with fresh
\* locals: the pointers it moves, the last words of A and B, where D is to be written.
Load(s, b) ==
  [s EXCEPT !.at = [ch \in Channels |-> 0], !.prev = [a |-> {}, b |-> {}], !.dstp = 0,
            !.pt = b.pt,
            !.dat = [ch \in Channels |-> IF ch \in DOMAIN b.load THEN b.load[ch] ELSE @[ch]],
            !.bhold = IF "b" \in DOMAIN b.load THEN Shifted(b, {}, b.load["b"], b.bshift) ELSE @]

Special(b) == b.kind = "block" /\ ~b.fill /\ b.mt \in blttbl

General(s, b) == IF b.desc THEN blitter_dofast_desc(s, b) ELSE blitter_dofast(s, b)

actually_do_blit(s, b) ==
  IF b.kind = "line" THEN Line(s, b)
  ELSE IF ~Special(b) THEN General(s, b)
  ELSE IF b.desc THEN blitdofast_desc(s, b) ELSE blitdofast(s, b)

\* A special function leaves the register of a channel it does not use as it was.
Skips(b) == Special(b) /\ (b.use \ {"d"}) \ Used(b.mt) # {}

Blit(b) ==
  /\ blits' = blits + 1
  /\ last' = b
  /\ before' = Load(code, b)
  /\ code' = actually_do_blit(Load(code, b), b)
  /\ general' = IF b.kind = "line" THEN Line(Load(general, b), b) ELSE General(Load(general, b), b)
  /\ skipped' = (skipped \/ (last # Nothing /\ Skips(last)))

Blank(mem) ==
  [mem |-> mem, dat |-> [ch \in Channels |-> {}], bhold |-> {}, zero |-> FALSE,
   pt |-> [ch \in Channels |-> 0], at |-> [ch \in Channels |-> 0],
   prev |-> [a |-> {}, b |-> {}], dstp |-> 0, fc |-> FALSE,
   shift |-> 0, lineb |-> {}, sign |-> FALSE, onedot |-> FALSE]

DrawInit ==
  /\ \E mem \in Memories : code = Blank(mem)
  /\ general = code /\ before = code
  /\ last = Nothing /\ skipped = FALSE /\ blits = 0

DrawNext == blits < Len(Blits) /\ \E b \in Blits[blits + 1] : Blit(b)

DrawSpec == DrawInit /\ [][DrawNext]_drawVars

-----------------------------------------------------------------------------
(* What a block is meant to be, without loops: words in the order drawn,   *)
(* each row a stream of bits that the shift moves on, rows included.       *)

Place(b, ch, p) == b.pt[ch] + Dir(b) * ((p \div b.h) * (b.h + b.mod[ch]) + (p % b.h))
Places(b) == 0 .. b.h * b.v - 1

InWord(b, ch, p) == IF ch \in b.use THEN before.mem[Place(b, ch, p)] ELSE before.dat[ch]
Masked(b, p) == {k \in InWord(b, "a", p) : (p % b.h = 0 => k \in b.afwm)
                                           /\ (p % b.h = b.h - 1 => k \in b.alwm)}

\* The bit `shift` places before bit k of word p.
Stream(b, In(_), p, k, shift) ==
  LET n == p * Word + (IF b.desc THEN k ELSE Word - 1 - k) - shift
      at == n % Word
  IN  n >= 0 /\ (IF b.desc THEN at ELSE Word - 1 - at) \in In(n \div Word)

Plain(b, p) ==
  {k \in All :
     LET a == Stream(b, LAMBDA q : Masked(b, q), p, k, b.ashift)
         d == IF "b" \in b.use THEN Stream(b, LAMBDA q : InWord(b, "b", q), p, k, b.bshift)
              ELSE k \in before.bhold
     IN  MintermOf(a, d, k \in InWord(b, "c", p)) \in Bits(b.mt)}

\* A bit is inside when an odd number of ones comes before it in its row.
Inside(b, p, k) ==
  LET ones == {x \in ((p \div b.h) * b.h .. p) \X All :
                 (x[1] < p \/ x[2] < k) /\ x[2] \in Plain(b, x[1])}
  IN  b.fci # (Cardinality(ones) % 2 = 1)

Meant(b, p) ==
  IF ~b.fill THEN Plain(b, p)
  ELSE {k \in All : IF b.ife THEN k \in Plain(b, p) \/ Inside(b, p, k)
                    ELSE (k \in Plain(b, p)) # Inside(b, p, k)}

MeantMemory(b) ==
  [x \in 0 .. Cells - 1 |->
     LET hits == {p \in Places(b) : Place(b, "d", p) = x}
     IN  IF "d" \in b.use /\ hits # {} THEN Meant(b, Max(hits)) ELSE before.mem[x]]

\* No word is read that was drawn two words or more ago.
InOrder(b) ==
  "d" \in b.use =>
    \A ch \in b.use \ {"d"} : \A p, q \in Places(b) :
      q <= p - 2 => Place(b, ch, p) # Place(b, "d", q)

\* No pointer comes upon address 0, which would turn its channel off.
NoZero(b) ==
  \A ch \in b.use :
    /\ \A p \in Places(b) : Place(b, ch, p) # 0
    /\ \A j \in 1 .. b.v : b.pt[ch] + Dir(b) * (j * b.h + (j - 1) * b.mod[ch]) # 0

\* A block is within chip memory, or the places that a line of as many dots can come to.
Fits(b) ==
  IF b.kind = "block"
    THEN \A ch \in b.use : \A p \in Places(b) : Place(b, ch, p) \in 0 .. Cells - 1
    ELSE /\ b.pt["d"] \in 0 .. Cells - 1
         /\ LET away == -(b.v - 1) .. b.v - 1
            IN  \A x \in away : \A y \in away :
                  b.pt["c"] + y * b.mod["c"] + (b.ashift + x) \div Word \in 0 .. Cells - 1

IsBlit(b) ==
  /\ b.kind \in {"block", "line"} /\ b.mt \in 0 .. 255 /\ b.use \subseteq Channels
  /\ {b.h, b.v} \subseteq Nat \ {0} /\ {b.ashift, b.bshift} \subseteq 0 .. Word - 1
  /\ {b.afwm, b.alwm} \subseteq SUBSET All /\ {b.desc, b.fill, b.ife, b.fci} \subseteq BOOLEAN
  /\ {b.pt, b.mod} \subseteq [Channels -> Int]
  /\ b.off \subseteq (0 .. b.v - 1) \X {"read", "write"}
  /\ \A ch \in DOMAIN b.load : ch \in {"a", "b", "c"} /\ b.load[ch] \subseteq All
  /\ Fits(b)

\* The registers have their width, and a program draws in chip memory.
ASSUME BlitsAssumption ==
  Len(Blits) \in Nat /\ \A n \in 1 .. Len(Blits) : \A b \in Blits[n] : IsBlit(b)

-----------------------------------------------------------------------------
(* What a line is meant to be: the dots next to the true line.             *)

Minor(b, n) == (2 * n * b.dy + b.dx) \div (2 * b.dx)
Signed(n, back) == IF back THEN -n ELSE n
DotX(b, n) == b.x + (IF b.sud THEN Signed(n, b.aul) ELSE Signed(Minor(b, n), b.sul))
DotY(b, n) == b.y + (IF b.sud THEN Signed(Minor(b, n), b.sul) ELSE Signed(n, b.aul))
Wanted(b, n) == ~b.sing \/ n = 0 \/ DotY(b, n) # DotY(b, n - 1)
DotCell(b, n) == 1 + DotY(b, n) * b.mod.c + (DotX(b, n) \div Word)
DotBit(b, n) == Word - 1 - (DotX(b, n) % Word)

\* The texture's bits go round from right to left.
Texture(b, n) == (b.bshift - n) % Word \in before.dat["b"]

\* The registers of a line of dx + 1 dots from (x, y), in rows of mod.c words: the error
\* starts at 4dy - 2dx, A is a single bit, and where it is zero the minterm gives C.  DMA
\* stays on.
DrawsLine(b) ==
  /\ b.kind = "line" /\ b.dx \in Nat \ {0} /\ b.dy \in 0 .. b.dx /\ b.v = b.dx + 1
  /\ {b.x, b.y} \subseteq Int /\ {b.sud, b.sul, b.aul, b.sing} \subseteq BOOLEAN
  /\ b.mod["a"] = 4 * (b.dy - b.dx) /\ b.mod["b"] = 4 * b.dy
  /\ b.pt["a"] = 4 * b.dy - 2 * b.dx /\ b.sign = (b.pt["a"] < 0)
  /\ b.pt["c"] = 1 + b.y * b.mod["c"] + b.x \div Word /\ b.ashift = b.x % Word
  /\ b.pt["d"] = b.pt["c"] /\ {"a", "c"} \subseteq b.use /\ b.off = {}
  /\ b.afwm = All /\ before.dat["a"] = {Word - 1} /\ Bits(b.mt) \cap 0 .. 3 = {1, 3}
  /\ \A n \in 0 .. b.dx : DotX(b, n) \in 0 .. b.mod["c"] * Word - 1

MeantLine(b) ==
  [x \in 0 .. Cells - 1 |->
     {k \in All :
        LET dots == {n \in 0 .. b.dx : Wanted(b, n) /\ DotCell(b, n) = x /\ DotBit(b, n) = k}
            old == k \in before.mem[x]
        IN  IF dots = {} THEN old
            ELSE MintermOf(TRUE, Texture(b, Min(dots)), old) \in Bits(b.mt)}]

-----------------------------------------------------------------------------
(* Properties.                                                             *)

\* A special function draws what the general loop draws, with the same zero
\* flag, and leaves the same registers, although it leaves out the channels its
\* minterm does not use.  The exception is what such a channel should have
\* left in its register for a later blit.
SpecialIsGeneral ==
  last # Nothing /\ ~skipped =>
    /\ code.mem = general.mem /\ code.zero = general.zero /\ code.pt = general.pt
    /\ ~Skips(last) =>
         /\ \A ch \in {"a", "b", "c"} : code.dat[ch] = general.dat[ch]
         /\ code.bhold = general.bhold

\* The registers, set in advance, point where the loop comes to its end, so that a
\* second blit goes on behind the first (blitter.c:117-132).
PointersMeet ==
  last.kind = "block" /\ NoZero(last) => \A ch \in last.use : general.at[ch] = general.pt[ch]

\* A block is, bit for bit, the minterm of its shifted and masked sources, filled
\* if wanted, also where it is drawn over its own sources, as long as no word
\* is read that was drawn two or more words before; and the zero flag says
\* whether anything was drawn, and the pointers meet.
BlocksAreMeant ==
  /\ DrawTypeOK /\ PointersMeet
  /\ last.kind = "block" /\ InOrder(last) /\ NoZero(last) =>
       /\ code.mem = MeantMemory(last)
       /\ code.zero <=> \A p \in Places(last) : Meant(last, p) = {}

\* A line, its registers set for one and DMA on all the while, is the dots next to the true
\* line in each octant, in the texture, and of each row the first dot only if single dots
\* are wanted.
LinesAreMeant == DrawsLine(last) => code.mem = MeantLine(last)

\* The expression a blit draws with is its minterm, needs the sources that are
\* read for it, and is the cheapest the generator finds.
ExpressionsAreSound == IsRight(last.mt) /\ IsCheapest(last.mt)
=============================================================================
