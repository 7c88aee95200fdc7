------------------------------ MODULE ChipAlloc ------------------------------
(***************************************************************************)
(* The allocator of chip memory (micro_sys/memory.c).  As the Makefile     *)
(* builds it, the library passes allocChip on to exec.  Built with virtual *)
(* chip memory it allocates blocks from half a megabyte of its own: a mark *)
(* for every block and a table of what was allocated, without a lock.      *)
(* Both builds are modelled; an allocation is named by its first block.    *)
(***************************************************************************)
EXTENDS Integers, FiniteSets, FiniteSetsExt

CONSTANTS
  Programs,
  Blocks,      \* 512 in the code
  BlockSize,   \* 1024 in the code
  GrowBy,      \* entries added to the table at once, 20 in the code
  Sizes,       \* bytes that programs ask for
  Junk,        \* what entries of a new table may hold
  MaxEntries   \* bound: room of the table

NoBlock == -1
Entries == [start : {NoBlock} \cup (0 .. Blocks - 1), blocks : Nat]

ASSUME AllocAssumption ==
  /\ IsFiniteSet(Programs)
  /\ Blocks \in Nat /\ MaxEntries \in Nat
  /\ BlockSize \in Nat \ {0} /\ GrowBy \in Nat \ {0}
  /\ Sizes \subseteq Nat
  /\ Junk \subseteq Entries

VARIABLES
  virtual,      \* built with virtual chip memory
  tab,          \* mem_list.allocted_tab; its entries past the used ones hold old values
  used,         \* mem_list.used
  allocated,    \* mem_list.allocated
  used_blocks,  \* the blocks marked as used
  call,         \* call[p]: where p is in allocChip
  held,         \* held[p]: what p has been given and not given back
  overlapped,   \* history: two calls of the allocator overlapped
  astray        \* history: the table has lost what it knew of an allocation

allocVars == <<virtual, tab, used, allocated, used_blocks, call, held, overlapped, astray>>

Indices == 0 .. MaxEntries - 1
Region(b) == b.start .. b.start + b.blocks - 1
Held == UNION {held[p] : p \in Programs}

Outside == [at |-> "outside"]
Found(start, blocks) == [at |-> "found", start |-> start, blocks |-> blocks]
Taken(blocks) == [at |-> "taken", blocks |-> blocks]
InCall(p) == call[p] # Outside

\* A call overlaps another that has begun and not returned.
Overlaps == overlapped' = (overlapped \/ \E q \in Programs : InCall(q))

BlocksFor(size) == (IF size % BlockSize # 0 THEN 1 ELSE 0) + size \div BlockSize

\* Mutant: the first block of a run is not looked at.
find_free_blocksButFirst(blocks) ==
  LET fits == {n \in 0 .. Blocks - blocks - 1 : (n + 1 .. n + blocks - 1) \cap used_blocks = {}}
  IN  IF blocks = 0 \/ fits = {} THEN NoBlock ELSE Min(fits)

\* The first fit; a run that would end with the last block is not tried.
find_free_blocks(blocks) ==
  LET fits == {n \in 0 .. Blocks - blocks - 1 : Region([start |-> n, blocks |-> blocks]) \cap used_blocks = {}}
  IN  IF blocks = 0 \/ fits = {} THEN NoBlock ELSE Min(fits)

\* init_mem; the arrays are cleared when the library is loaded.
AllocInit ==
  /\ virtual \in BOOLEAN
  /\ tab = [i \in Indices |-> [start |-> NoBlock, blocks |-> 0]]
  /\ used = 0 /\ allocated = 0 /\ used_blocks = {}
  /\ call = [p \in Programs |-> Outside]
  /\ held = [p \in Programs |-> {}]
  /\ overlapped = FALSE /\ astray = FALSE

\* A larger table replaces the old one, whose entries are not copied.
grow_mem_list ==
  \/ \E junk \in Junk : /\ tab' = [i \in Indices |-> junk]
                        /\ allocated' = allocated + GrowBy
                        /\ astray' = (astray \/ used > 0)
  \/ UNCHANGED <<tab, allocated, astray>>

\* _allocChip: room in the table and in the memory is looked for,
Find(p, size) ==
  /\ virtual /\ ~InCall(p)
  /\ used + Cardinality(Programs) =< MaxEntries
  /\ IF used + 1 > allocated THEN grow_mem_list ELSE UNCHANGED <<tab, allocated, astray>>
  /\ LET start == find_free_blocks(BlocksFor(size))
     IN  call' = [call EXCEPT ![p] = IF used + 1 =< allocated' /\ start # NoBlock
                                       THEN Found(start, BlocksFor(size)) ELSE Outside]
  /\ Overlaps
  /\ UNCHANGED <<virtual, used, used_blocks, held>>

\* taken,
Take(p) ==
  /\ call[p].at = "found"
  /\ LET b == [start |-> call[p].start, blocks |-> call[p].blocks]
     IN  /\ tab' = [tab EXCEPT ![used] = b]
         /\ used_blocks' = used_blocks \cup Region(b)
  /\ used' = used + 1
  /\ call' = [call EXCEPT ![p] = Taken(@.blocks)]
  /\ UNCHANGED <<virtual, allocated, held, overlapped, astray>>

\* An address outside the chip memory is of no use to anybody.
Given(start, blocks) == IF start = NoBlock THEN {} ELSE {[start |-> start, blocks |-> blocks]}

\* and the start of the last entry, read again, is returned: anything if there is none by now.
Return(p) ==
  /\ call[p].at = "taken"
  /\ \E start \in IF used > 0 THEN {tab[used - 1].start} ELSE 0 .. Blocks - 1 :
       held' = [held EXCEPT ![p] = @ \cup Given(start, call[p].blocks)]
  /\ call' = [call EXCEPT ![p] = Outside]
  /\ UNCHANGED <<virtual, tab, used, allocated, used_blocks, overlapped, astray>>

\* Mutant: the last of the freed blocks stays marked.
FreeAllButOne(p, b) ==
  /\ virtual /\ ~InCall(p) /\ b \in held[p]
  /\ LET matching == {i \in 0 .. used - 1 : tab[i].start = b.start}
         n        == Min(matching)
         end      == tab[n].start + tab[n].blocks
     IN  IF matching = {} THEN astray' = TRUE /\ UNCHANGED <<tab, used, used_blocks>>
         ELSE /\ used_blocks' = used_blocks \ (tab[n].start .. end - 2)
              /\ used' = used - 1
              /\ tab' = [i \in Indices |-> IF end =< i /\ i < used - 1 THEN tab[i + 1] ELSE tab[i]]
              /\ astray' = (astray \/ n # used - 1)
  /\ held' = [held EXCEPT ![p] = @ \ {b}]
  /\ Overlaps
  /\ UNCHANGED <<virtual, allocated, call>>

\* _freeChip.  The blocks are counted with the variable that had the entry's
\* number, so that the table is closed up behind the entry's last block.
Free(p, b) ==
  /\ virtual /\ ~InCall(p) /\ b \in held[p]
  /\ LET matching == {i \in 0 .. used - 1 : tab[i].start = b.start}
         n        == Min(matching)
         end      == tab[n].start + tab[n].blocks
     IN  IF matching = {} THEN astray' = TRUE /\ UNCHANGED <<tab, used, used_blocks>>
         ELSE /\ used_blocks' = used_blocks \ Region(tab[n])
              /\ used' = used - 1
              /\ tab' = [i \in Indices |-> IF end =< i /\ i < used - 1 THEN tab[i + 1] ELSE tab[i]]
              /\ astray' = (astray \/ n # used - 1)
  /\ held' = [held EXCEPT ![p] = @ \ {b}]
  /\ Overlaps
  /\ UNCHANGED <<virtual, allocated, call>>

\* The other build: exec gives what nobody has, or nothing, and takes it back.
AllocVec(p, size) ==
  /\ ~virtual
  /\ \E start \in 0 .. Blocks - BlocksFor(size) :
       LET b == [start |-> start, blocks |-> BlocksFor(size)]
       IN  /\ b.blocks > 0 /\ \A c \in Held : Region(b) \cap Region(c) = {}
           /\ held' = [held EXCEPT ![p] = @ \cup {b}]
  /\ UNCHANGED <<virtual, tab, used, allocated, used_blocks, call, overlapped, astray>>

FreeVec(p, b) ==
  /\ ~virtual /\ b \in held[p]
  /\ held' = [held EXCEPT ![p] = @ \ {b}]
  /\ UNCHANGED <<virtual, tab, used, allocated, used_blocks, call, overlapped, astray>>

BeginAlloc(p) == \E size \in Sizes : Find(p, size) \/ AllocVec(p, size)
Continue(p) == Take(p) \/ Return(p)
GiveBack(p) == \E b \in held[p] : Free(p, b) \/ FreeVec(p, b)

AllocNext == \E p \in Programs : BeginAlloc(p) \/ Continue(p) \/ GiveBack(p)

AllocSpec == AllocInit /\ [][AllocNext]_allocVars

-----------------------------------------------------------------------------
(* Properties.                                                             *)

\* The allocator was used one call at a time, what was allocated last was
\* freed first, and the table did not grow while it was in use.
Orderly == ~overlapped /\ ~astray

\* What programs have been given lies in the chip memory and does not
\* overlap: allocChip's first fit, marks and table agree in orderly use.
HeldApart ==
  Orderly =>
    /\ \A b \in Held : Region(b) \subseteq 0 .. Blocks - 1
    /\ \A p, q \in Programs : \A b \in held[p], c \in held[q] :
         (p = q /\ b = c) \/ Region(b) \cap Region(c) = {}

\* While nobody is in the allocator, the marked blocks are those that
\* programs have: nothing leaks and nothing is free that somebody uses.
BooksAgree ==
  Orderly /\ virtual /\ (\A p \in Programs : ~InCall(p)) =>
    used_blocks = UNION {Region(b) : b \in Held}
=============================================================================
