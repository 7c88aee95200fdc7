----------------------------- MODULE MCBlitDraw -----------------------------
(* Instances of BlitDraw for TLC: 4 bits a word, blits of up to 2 by 2.    *)
EXTENDS BlitDraw

\* Room for the largest block; lines have rows of two words.
CellsMC == 18
Patterns == << {}, {0, 2}, {1, 2, 3}, {0}, {3}, {0, 1, 2, 3}, {1}, {0, 3} >>
MemoriesMC == {[x \in 0 .. CellsMC - 1 |-> Patterns[((x * f) % 8) + 1]] : f \in {3, 5}}

Base ==
  [kind |-> "block", mt |-> 202, use |-> Channels, h |-> 2, v |-> 2, off |-> {},
   desc |-> FALSE, fill |-> FALSE, ife |-> FALSE, fci |-> FALSE,
   ashift |-> 1, bshift |-> 3, afwm |-> {0, 1, 2}, alwm |-> {1, 2, 3},
   mod |-> [a |-> 0, b |-> 1, c |-> 0, d |-> 0],
   pt |-> [a |-> 1, b |-> 4, c |-> 7, d |-> 11],
   load |-> [ch \in {"a", "b", "c"} |-> {0, 2}]]

Turned(b) == [b EXCEPT !.desc = TRUE, !.pt = [a |-> 5, b |-> 8, c |-> 12, d |-> 15]]

\* Every minterm; every choice of channels; sizes, shifts and masks; fills; overlaps.
ByMinterm == {[Base EXCEPT !.mt = n] : n \in 0 .. 255}
ByUse == {[Base EXCEPT !.use = u, !.mt = n, !.load = l] :
            u \in SUBSET Channels, n \in {10, 22, 170, 202, 240, 252},
            l \in {[ch \in {} |-> {}], [ch \in {"a", "b", "c"} |-> {0, 2}]}}
BySize == {[Base EXCEPT !.h = h, !.v = v, !.ashift = s, !.bshift = t, !.mt = n] :
             h \in 1 .. 3, v \in 1 .. 2, s \in {0, 2}, t \in {0, 3}, n \in {58, 150}}
ByFill == {[Base EXCEPT !.fill = TRUE, !.ife = i, !.fci = c, !.mt = n] :
             i, c \in BOOLEAN, n \in {0, 90, 202, 252}}
ByPlace == {[Base EXCEPT !.pt["d"] = d, !.mt = n, !.v = 1, !.h = 3] : d \in 6 .. 9, n \in {170, 234, 85}}
Blocks == LET up == ByMinterm \cup ByUse \cup BySize \cup ByFill \cup ByPlace
          IN  up \cup {Turned(b) : b \in up}

\* The registers of a line from (x, y): the error starts at 4dy - 2dx.
LineBlit(dx, dy, sud, sul, aul, sing, n, tex) ==
  [Base EXCEPT !.kind = "line", !.mt = n, !.use = {"a", "c", "d"}, !.h = 2, !.v = dx + 1,
               !.ashift = 0, !.bshift = 1, !.afwm = All,
               !.mod = [a |-> 4 * (dy - dx), b |-> 4 * dy, c |-> 2, d |-> 2],
               !.pt = [a |-> 4 * dy - 2 * dx, b |-> 0, c |-> 1 + 3 * 2 + 1, d |-> 1 + 3 * 2 + 1],
               !.load = [a |-> {Word - 1}, b |-> tex]]
  @@ [x |-> 4, y |-> 3, dx |-> dx, dy |-> dy, sud |-> sud, sul |-> sul, aul |-> aul,
      sing |-> sing, sign |-> 4 * dy - 2 * dx < 0]

Lines == {LineBlit(dx, dy, sud, sul, aul, sing, n, tex) :
            dx \in 1 .. 3, dy \in 0 .. 3, sud, sul, aul, sing \in BOOLEAN,
            n \in {74, 202}, tex \in {All, {1, 2}}}
\* DMA is turned off for a while under some of them.
LinesMC == LET lines == {b \in Lines : b.dy <= b.dx}
           IN  lines \cup {[b EXCEPT !.off = off] : b \in {b \in lines : b.mt = 74 /\ b.dx = 3},
                              off \in {{<<1, "read">>}, {<<2, "write">>, <<3, "read">>}}}

\* Any blit, and then one that takes what the first has left in the registers.
Takers == {[Base EXCEPT !.use = u, !.mt = n, !.load = [ch \in {} |-> {}]] :
             u \in {{"c", "d"}, {"a", "d"}}, n \in {22, 202}}
BlitsMC == << Blocks \cup LinesMC, Takers >>
=============================================================================
