------------------------------ MODULE Minterms ------------------------------
(***************************************************************************)
(* The minterms of the blitter: the table of expressions (blitops.c), the  *)
(* program that searches them (gengenblitter.c) and the list of those that *)
(* get a drawing function of their own (genblitter.c).                     *)
(*                                                                         *)
(* A function of the three sources is the set of minterms for which it is  *)
(* one, a number of 8 bits in the code: minterm 4a + 2b + c is a bit.      *)
(* Expressions are trees, a word is the set of its bits that are one.      *)
(***************************************************************************)
EXTENDS Integers, Sequences, FiniteSetsExt, SequencesExt

CONSTANTS MaxLeaves   \* bound: the leaves of the trees looked at, 20 in the code

ASSUME MintermsAssumption == MaxLeaves \in 2 .. 19

Minterm == 0 .. 7
Sources == {"a", "b", "c"}
Weight == [a |-> 4, b |-> 2, c |-> 1]
\* The minterms in which a source is one: 0xf0, 0xcc, 0xaa.
Truth == [s \in Sources |-> {m \in Minterm : (m \div Weight[s]) % 2 = 1}]
Bits(byte) == {m \in Minterm : (byte \div <<1, 2, 4, 8, 16, 32, 64, 128>>[m + 1]) % 2 = 1}

-----------------------------------------------------------------------------
(* Trees.  A tree is its operation and what the generator's recursive      *)
(* functions find for it: its function, the sources it uses, and its cost, *)
(* with the sources it takes plain and inverted.                           *)

Leaf(source) ==
  [op |-> source, fn |-> Truth[source], used |-> {source},
   cst |-> [cost |-> 0, src |-> {source}, notsrc |-> {}]]

Constant(op, fn) ==
  [op |-> op, fn |-> fn, used |-> {}, cst |-> [cost |-> 0, src |-> {}, notsrc |-> {}]]

Node(op, left, right) ==
  [op |-> op,
   fn |-> CASE op = "and" -> left.fn \cap right.fn
            [] op = "or"  -> left.fn \cup right.fn
            [] op = "xor" -> SymDiff(left.fn, right.fn),
   used |-> left.used \cup right.used,
   cst |-> [cost |-> 4 + left.cst.cost + right.cst.cost,
            src |-> left.cst.src \cup right.cst.src,
            notsrc |-> left.cst.notsrc \cup right.cst.notsrc]]

Not(t) ==
  [op |-> "not", fn |-> Minterm \ t.fn, used |-> t.used,
   cst |-> IF t.op \in Sources THEN [cost |-> 3, src |-> {}, notsrc |-> {t.op}]
           ELSE [t.cst EXCEPT !.cost = 3 + @]]

which_fn(t) == t.fn
tree_used_mask(t) == t.used
tree_cst(t) == t.cst
tree_cost(t) == LET c == tree_cst(t) IN c.cost + Cardinality(c.src \cap c.notsrc)

-----------------------------------------------------------------------------
(* The sources a minterm number needs (generate_expr): from every minterm  *)
(* not yet covered a cube is grown along 1, 2 and 4; what no growth        *)
(* succeeds for is needed.                                                 *)

Flip(m, j) == IF (m \div j) % 2 = 1 THEN m - j ELSE m + j

\* Mutant: only the first minterm of the cube is looked at.
GrowFirst(fn, cube, j) ==
  IF Flip(Min(cube.of), j) \in fn
    THEN [of |-> cube.of \cup {Flip(m, j) : m \in cube.of}, dontcare |-> cube.dontcare \cup {j}]
    ELSE cube

Grow(fn, cube, j) ==
  IF \A m \in cube.of : Flip(m, j) \in fn
    THEN [of |-> cube.of \cup {Flip(m, j) : m \in cube.of}, dontcare |-> cube.dontcare \cup {j}]
    ELSE cube

Cube(fn, m) ==
  FoldLeft(LAMBDA cube, j : Grow(fn, cube, j), [of |-> {m}, dontcare |-> {}], <<1, 2, 4>>)

generate_expr(fn) ==
  IF fn \in {{}, Minterm} THEN {}
  ELSE FoldLeft(LAMBDA r, m :
                  IF m \in fn /\ m \notin r.bits
                    THEN [bits |-> r.bits \cup Cube(fn, m).of,
                          needs |-> r.needs \cup {s \in Sources : Weight[s] \notin Cube(fn, m).dontcare}]
                    ELSE r,
                [bits |-> {}, needs |-> {}], [k \in 1 .. 8 |-> k - 1]).needs

-----------------------------------------------------------------------------
(* The search (find_best_trees): trees of each size are made of two of     *)
(* smaller sizes, and kept where they are not dearer than the best by 6.   *)

None == [op |-> "none"]
Worst == 65535

candidate(s, t) ==
  LET fn == which_fn(t)
  IN  [s EXCEPT !.best[fn] = IF tree_cost(t) < s.cost[fn] THEN t ELSE @,
                !.cost[fn] = IF tree_cost(t) < @ THEN tree_cost(t) ELSE @,
                !.new = Append(@, t)]

cand_and_not(s, t) == candidate(candidate(s, t), Not(t))

try_tree(s, op, left, right) ==
  LET t == IF left.op = op THEN Node(op, right, left) ELSE Node(op, left, right)
      fn == which_fn(t)
  IN  IF \/ left.op = op /\ right.op = op
         \/ fn \in {which_fn(left), which_fn(right), {}, Minterm}
         \/ ~(tree_used_mask(t) \subseteq generate_expr(fn))
         \/ s.cost[fn] + 6 < tree_cost(t)
        THEN s
        ELSE cand_and_not(s, t)

\* Op(s), with s computed first; TLC would otherwise put off the whole search.
First(Op(_), s) == CHOOSE r \in {Op(v) : v \in {s}} : TRUE

\* A tree with each of those from `first` on.
Combine(s, left, rights, first) ==
  LET With(u, right) ==
        FoldLeft(LAMBDA v, op : try_tree(v, op, left, right), u, <<"and", "or", "xor">>)
  IN  FoldLeft(LAMBDA u, right : First(LAMBDA v : With(v, right), u),
               s, SubSeq(rights, first, Len(rights)))

\* The trees of a size are made of one of `split` leaves and one of the others.
Split(s, size, split) ==
  LET lefts == s.vec[split]
      rights == s.vec[size - split]
      Each(u, i) == Combine(u, lefts[i], rights, IF 2 * split = size THEN i + 1 ELSE 1)
  IN  FoldLeft(LAMBDA u, i : First(LAMBDA v : Each(v, i), u), s, [i \in DOMAIN lefts |-> i])

Unknown(s) == {fn \in SUBSET Minterm \ {{}, Minterm} : s.best[fn] = None}

Grown(s) == [s EXCEPT !.vec = Append(@, s.new), !.new = <<>>]

\* Larger trees are tried until all functions are known.
find_best_trees ==
  LET empty == [vec |-> <<>>, new |-> <<>>,
                best |-> [fn \in SUBSET Minterm |-> None], cost |-> [fn \in SUBSET Minterm |-> Worst]]
      Size(s, size) ==
        IF Unknown(s) = {} THEN s
        ELSE Grown(FoldLeft(LAMBDA u, split : Split(u, size, split),
                            s, [k \in 1 .. size \div 2 |-> k]))
  IN  FoldLeft(LAMBDA u, size : First(LAMBDA v : Size(v, size), u),
               Grown(FoldLeft(cand_and_not, empty, <<Leaf("a"), Leaf("b"), Leaf("c")>>)),
               [k \in 1 .. MaxLeaves - 1 |-> k + 1])

Best == find_best_trees.best
BestCost == find_best_trees.cost

-----------------------------------------------------------------------------
(* The table: the expression of each minterm number and the mask of the    *)
(* sources it uses, 1 for A, 2 for B and 4 for C.  An expression is kept   *)
(* as the sequence of its sources and, behind its operands, operations.    *)

A == <<"a">>
B == <<"b">>
C == <<"c">>
x & y == x \o y \o <<"and">>
x | y == x \o y \o <<"or">>
x ++ y == x \o y \o <<"xor">>   \* exclusive or
N(x) == x \o <<"not">>
Zero == <<"zero">>
Ones == <<"ones">>

\* With one more symbol read: an operation takes its operands from the end of the trees.
Read(trees, symbol) ==
  LET n == Len(trees)
  IN  CASE symbol \in Sources -> Append(trees, Leaf(symbol))
        [] symbol = "zero" -> Append(trees, Constant(symbol, {}))
        [] symbol = "ones" -> Append(trees, Constant(symbol, Minterm))
        [] symbol = "not" -> [trees EXCEPT ![n] = Not(@)]
        [] OTHER -> Append(SubSeq(trees, 1, n - 2), Node(symbol, trees[n - 1], trees[n]))

BlitopsLow == <<
  <<Zero, 0>>, <<N(A | B | C), 7>>, <<C & N(A | B), 7>>, <<N(A | B), 3>>, <<B & N(A | C), 7>>,
  <<N(A | C), 5>>, <<N(A) & (B ++ C), 7>>, <<N(A | (B & C)), 7>>, <<N(A) & B & C, 7>>,
  <<N(A | (B ++ C)), 7>>, <<N(A) & C, 5>>, <<N(A | (B & N(C))), 7>>, <<N(A) & B, 3>>,
  <<N(A | (N(B) & C)), 7>>, <<N(A) & (B | C), 7>>, <<N(A), 1>>, <<A & N(B | C), 7>>,
  <<N(B | C), 6>>, <<N(B) & (A ++ C), 7>>, <<N(B | (A & C)), 7>>, <<N(C) & (A ++ B), 7>>,
  <<N(C | (A & B)), 7>>, <<A ++ ((A & B) | (B ++ C)), 7>>, <<N(A ++ ((A ++ B) & (A ++ C))), 7>>,
  <<(A ++ B) & (A ++ C), 7>>, <<B ++ (N(C) | (A & B)), 7>>, <<A ++ (C | (A & B)), 7>>,
  <<A ++ (C | N(A ++ B)), 7>>, <<A ++ (B | (A & C)), 7>>, <<A ++ (B | N(A ++ C)), 7>>,
  <<A ++ (B | C), 7>>, <<N(A & (B | C)), 7>>, <<A & N(B) & C, 7>>, <<N(B | (A ++ C)), 7>>,
  <<N(B) & C, 6>>, <<N(B | (A & N(C))), 7>>, <<(A ++ B) & (B ++ C), 7>>,
  <<A ++ (N(C) | (A & B)), 7>>, <<B ++ (C | (A & B)), 7>>, <<N(A ++ (C & (A ++ B))), 7>>,
  <<C & (A ++ B), 7>>, <<N(A ++ B ++ (C | (A & B))), 7>>, <<C & N(A & B), 7>>,
  <<N(A ++ ((A ++ B) & (B ++ C))), 7>>, <<B ++ (A & (B | C)), 7>>, <<A ++ (B | N(C)), 7>>,
  <<A ++ (B | (A ++ C)), 7>>, <<N(A & (B | N(C))), 7>>, <<A & N(B), 3>>,
  <<N(B | (N(A) & C)), 7>>, <<N(B) & (A | C), 7>>, <<N(B), 2>>, <<B ++ (A | (B & C)), 7>>,
  <<B ++ (A | N(B ++ C)), 7>>, <<B ++ (A | C), 7>>, <<N(B & (A | C)), 7>>,
  <<A ++ (B & (A | C)), 7>>, <<B ++ (A | N(C)), 7>>, <<B ++ (A | (B ++ C)), 7>>,
  <<N(B & (A | N(C))), 7>>, <<A ++ B, 3>>, <<A ++ (B | N(A | C)), 7>>,
  <<A ++ (B | (A ++ (A | C))), 7>>, <<N(A & B), 3>>, <<A & B & N(C), 7>>, <<N(C | (A ++ B)), 7>>,
  <<(A ++ C) & (B ++ C), 7>>, <<A ++ (N(B) | (A & C)), 7>>, <<B & N(C), 6>>,
  <<N(C | (A & N(B))), 7>>, <<C ++ (B | (A & C)), 7>>, <<N(A ++ (B & (A ++ C))), 7>>,
  <<B & (A ++ C), 7>>, <<N(A ++ C ++ (B | (A & C))), 7>>, <<C ++ (A & (B | C)), 7>>,
  <<A ++ (N(B) | C), 7>>, <<B & N(A & C), 7>>, <<A ++ ((A ++ B) | N(A ++ C)), 7>>,
  <<A ++ (C | (A ++ B)), 7>>, <<N(A & (N(B) | C)), 7>>, <<A & N(C), 5>>,
  <<N(C | (N(A) & B)), 7>>, <<C ++ (A | (B & C)), 7>>, <<N(B ++ (A & (B ++ C))), 7>>,
  <<N(C) & (A | B), 7>>, <<N(C), 4>>, <<C ++ (A | B), 7>>, <<N(C & (A | B)), 7>>,
  <<A ++ (C & (A | B)), 7>>, <<C ++ (A | N(B)), 7>>, <<A ++ C, 5>>, <<A ++ (C | N(A | B)), 7>>,
  <<C ++ (A | (B ++ C)), 7>>, <<N(C & (A | N(B))), 7>>, <<A ++ (C | (A ++ (A | B))), 7>>,
  <<N(A & C), 5>>, <<A & (B ++ C), 7>>, <<N(B ++ C ++ (A | (B & C))), 7>>,
  <<C ++ (B & (A | C)), 7>>, <<B ++ (N(A) | C), 7>>, <<B ++ (C & (A | B)), 7>>,
  <<C ++ (N(A) | B), 7>>, <<B ++ C, 6>>, <<B ++ (C | N(A | B)), 7>>,
  <<(A & B) ++ (C & (A | B)), 7>>, <<N(A ++ B ++ C), 7>>, <<C ++ (A & B), 7>>,
  <<N(A ++ B ++ (C & (A | B))), 7>>, <<B ++ (A & C), 7>>, <<N(A ++ C ++ (B & (A | C))), 7>>,
  <<(N(A) & B) | (B ++ C), 7>>, <<N(A) | (B ++ C), 7>>, <<A & N(B & C), 7>>,
  <<N(A ++ ((A ++ B) | (A ++ C))), 7>>, <<B ++ (C | (A ++ B)), 7>>, <<N(B & (N(A) | C)), 7>>,
  <<C ++ (B | (A ++ C)), 7>>, <<N(C & (N(A) | B)), 7>>, <<B ++ (C | (A ++ (A & B))), 7>>,
  <<N(B & C), 6>>, <<A ++ (B & C), 7>>, <<N(B ++ C ++ (A & (B | C))), 7>>,
  <<(A & N(B)) | (A ++ C), 7>>, <<N(B) | (A ++ C), 7>>, <<(A ++ B) | (A & N(C)), 7>>,
  <<N(C) | (A ++ B), 7>>, <<(A ++ B) | (A ++ C), 7>>, <<N(A & B & C), 7>> >>

BlitopsHigh == <<
  <<A & B & C, 7>>, <<N((A ++ B) | (A ++ C)), 7>>, <<C & N(A ++ B), 7>>,
  <<A ++ (N(B) | (A & N(C))), 7>>, <<B & N(A ++ C), 7>>, <<A ++ (N(C) | (A & N(B))), 7>>,
  <<B ++ C ++ (A & (B | C)), 7>>, <<N(A ++ (B & C)), 7>>, <<B & C, 6>>,
  <<B ++ (N(C) & (N(A) | B)), 7>>, <<C & (N(A) | B), 7>>, <<A ++ (N(B) | (A ++ C)), 7>>,
  <<B & (N(A) | C), 7>>, <<A ++ (N(C) | (A ++ B)), 7>>, <<A ++ ((A ++ B) | (A ++ C)), 7>>,
  <<N(A) | (B & C), 7>>, <<A & N(B ++ C), 7>>, <<B ++ (N(C) | (N(A) & B)), 7>>,
  <<A ++ C ++ (B & (A | C)), 7>>, <<N(B ++ (A & C)), 7>>, <<A ++ B ++ (C & (A | B)), 7>>,
  <<N(C ++ (A & B)), 7>>, <<A ++ B ++ C, 7>>, <<A ++ B ++ (C | N(A | B)), 7>>,
  <<B ++ (N(C) & (A | B)), 7>>, <<N(B ++ C), 6>>, <<C ++ (A & N(B)), 7>>,
  <<N(B ++ (C & (A | B))), 7>>, <<B ++ (A & N(C)), 7>>, <<N(C ++ (B & (A | C))), 7>>,
  <<B ++ C ++ (A | (B & C)), 7>>, <<N(A & (B ++ C)), 7>>, <<A & C, 5>>,
  <<A ++ (N(C) & (A | N(B))), 7>>, <<C & (A | N(B)), 7>>, <<B ++ (N(A) | (B ++ C)), 7>>,
  <<A ++ (N(C) & (A | B)), 7>>, <<N(A ++ C), 5>>, <<C ++ (N(A) & B), 7>>,
  <<N(A ++ (C & (A | B))), 7>>, <<C & (A | B), 7>>, <<N(C ++ (A | B)), 7>>, <<C, 4>>,
  <<C | N(A | B), 7>>, <<B ++ (A & (B ++ C)), 7>>, <<N(C ++ (A | (B & C))), 7>>,
  <<C | (N(A) & B), 7>>, <<N(A) | C, 5>>, <<A & (N(B) | C), 7>>, <<N(A ++ (C | (A ++ B))), 7>>,
  <<A ++ ((A ++ C) & (B ++ C)), 7>>, <<N(B) | (A & C), 7>>, <<A ++ (B & N(C)), 7>>,
  <<N(C ++ (A & (B | C))), 7>>, <<A ++ C ++ (B | (A & C)), 7>>, <<N(B & (A ++ C)), 7>>,
  <<A ++ (B & (A ++ C)), 7>>, <<N(C ++ (B | (A & C))), 7>>, <<C | (A & N(B)), 7>>,
  <<N(B) | C, 6>>, <<(A ++ B) | (A & C), 7>>, <<(A ++ B) | N(A ++ C), 7>>, <<C | (A ++ B), 7>>,
  <<C | N(A & B), 7>>, <<A & B, 3>>, <<A ++ (N(B) & (A | N(C))), 7>>,
  <<A ++ (N(B) & (A | C)), 7>>, <<N(A ++ B), 3>>, <<B & (A | N(C)), 7>>,
  <<N(B ++ (A | (B ++ C))), 7>>, <<B ++ (N(A) & C), 7>>, <<N(A ++ (B & (A | C))), 7>>,
  <<B & (A | C), 7>>, <<N(B ++ (A | C)), 7>>, <<C ++ (A & (B ++ C)), 7>>,
  <<N(B ++ (A | (B & C))), 7>>, <<B, 2>>, <<B | N(A | C), 7>>, <<B | (N(A) & C), 7>>,
  <<N(A) | B, 3>>, <<A & (B | N(C)), 7>>, <<N(A ++ (B | (A ++ C))), 7>>, <<A ++ (N(B) & C), 7>>,
  <<N(B ++ (A & (B | C))), 7>>, <<A ++ ((A ++ B) & (B ++ C)), 7>>, <<N(C) | (A & B), 7>>,
  <<A ++ B ++ (C | (A & B)), 7>>, <<N(C & (A ++ B)), 7>>, <<A ++ (C & (A ++ B)), 7>>,
  <<N(B ++ (C | (A & B))), 7>>, <<(A & B) | (A ++ C), 7>>, <<N((A ++ B) & (B ++ C)), 7>>,
  <<B | (A & N(C)), 7>>, <<B | N(C), 6>>, <<B | (A ++ C), 7>>, <<B | N(A & C), 7>>,
  <<A & (B | C), 7>>, <<N(A ++ (B | C)), 7>>, <<C ++ (B & (A ++ C)), 7>>,
  <<N(A ++ (B | (A & C))), 7>>, <<B ++ (C & (A ++ B)), 7>>, <<N(A ++ (C | (A & B))), 7>>,
  <<(A & B) | (B ++ C), 7>>, <<N((A ++ B) & (A ++ C)), 7>>, <<A ++ ((A ++ B) & (A ++ C)), 7>>,
  <<A ++ B ++ (N(C) | (A & B)), 7>>, <<C | (A & B), 7>>, <<C | N(A ++ B), 7>>,
  <<B | (A & C), 7>>, <<B | N(A ++ C), 7>>, <<B | C, 6>>, <<N(A) | B | C, 7>>, <<A, 1>>,
  <<A | N(B | C), 7>>, <<A | (N(B) & C), 7>>, <<A | N(B), 3>>, <<A | (B & N(C)), 7>>,
  <<A | N(C), 5>>, <<A | (B ++ C), 7>>, <<A | N(B & C), 7>>, <<A | (B & C), 7>>,
  <<A | N(B ++ C), 7>>, <<A | C, 5>>, <<A | N(B) | C, 7>>, <<A | B, 3>>, <<A | B | N(C), 7>>,
  <<A | B | C, 7>>, <<Ones, 0>> >>

Blitops(mt) == IF mt < 128 THEN BlitopsLow[mt + 1] ELSE BlitopsHigh[mt - 127]
Expressions == [mt \in 0 .. 255 |-> FoldLeft(Read, <<>>, Blitops(mt)[1])[1]]
Expression(mt) == Expressions[mt]
Used(mt) == {s \in Sources : (Blitops(mt)[2] \div [a |-> 1, b |-> 2, c |-> 4][s]) % 2 = 1}

\* The minterms with a drawing function of their own.
blttbl == {0, 10, 42, 48, 58, 60, 74, 106, 138, 140, 154, 168,
           170, 177, 202, 204, 216, 226, 234, 240, 250, 252}

\* The minterm of three bits.
MintermOf(a, b, c) == (IF a THEN 4 ELSE 0) + (IF b THEN 2 ELSE 0) + (IF c THEN 1 ELSE 0)

\* The expression of a minterm number, on words within `all`: C's operators work
\* on each bit as on the bits of a minterm number.
blit_func(a, b, c, mt, all) ==
  {k \in all : MintermOf(k \in a, k \in b, k \in c) \in which_fn(Expression(mt))}

-----------------------------------------------------------------------------
(* Properties, of a minterm number.                                        *)

\* Does the function of minterm number mt change with a source?
DependsOn(mt, s) == \E m \in Bits(mt) : Flip(m, Weight[s]) \notin Bits(mt)

\* The table as the program has it, for the proofs: an expression computes its
\* minterm, and what its mask leaves out its function does not depend on.
ASSUME TableAssumption ==
  \A mt \in 0 .. 255 :
    /\ which_fn(Expression(mt)) = Bits(mt)
    /\ \A s \in Sources \ Used(mt) : ~DependsOn(mt, s)

\* The expression computes the minterm, and its mask, as the generator finds it,
\* names exactly the sources it depends on: the drawing functions leave the
\* others out.
IsRight(mt) ==
  /\ which_fn(Expression(mt)) = Bits(mt)
  /\ tree_used_mask(Expression(mt)) = Used(mt)
  /\ Used(mt) = {s \in Sources : DependsOn(mt, s)}
  /\ generate_expr(Bits(mt)) = Used(mt)

\* What the search has found for a minterm is a tree of it that reads only
\* the sources it needs, and not a cheaper one than the table's.
IsCheapest(mt) ==
  LET t == Best[Bits(mt)]
  IN  t # None =>
        /\ which_fn(t) = Bits(mt) /\ tree_used_mask(t) = Used(mt)
        /\ BestCost[Bits(mt)] = tree_cost(t)
        /\ tree_cost(Expression(mt)) <= tree_cost(t)
=============================================================================
