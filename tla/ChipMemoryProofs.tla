--------------------------- MODULE ChipMemoryProofs ---------------------------
(***************************************************************************)
(* What the allocator of chip memory promises, and the memory and its      *)
(* banks to the programs that change bits of it, for any number of         *)
(* programs, blocks and table entries and any accesses.                    *)
(***************************************************************************)
EXTENDS ChipMemory, FiniteSetTheorems, WellFoundedInduction, TLAPS

Live == 0 .. used - 1
End(i) == tab[i].start + tab[i].blocks
Top == IF used = 0 THEN 0 ELSE End(used - 1)

Calls ==
  {Outside} \cup [at : {"found"}, start : Nat, blocks : Nat \ {0}] \cup [at : {"taken"}, blocks : Nat \ {0}]

Shape ==
  /\ tab \in [Indices -> Entries] /\ used \in 0 .. MaxEntries
  /\ call \in [Programs -> Calls]
  /\ held \in [Programs -> SUBSET Entries]

\* The entries of the table lie on each other like the plates of a stack,
Stack ==
  \A i \in Live :
    /\ tab[i].blocks >= 1 /\ tab[i].start >= i /\ End(i) =< Blocks
    /\ i = 0 => tab[i].start = 0
    /\ i > 0 => tab[i].start = End(i - 1)
    /\ \A j \in Live : j < i => End(j) =< tab[i].start

\* and the marks tell its height.
Marks ==
  /\ used_blocks = 0 .. Top - 1
  /\ \A n \in used_blocks : \E i \in Live : n \in Region(tab[i])

\* Every entry has one owner, but for the one that is about to be returned.
Owners ==
  /\ \A p \in Programs : \A b \in held[p] : \E i \in Live : b = tab[i]
  /\ \A p, q \in Programs : p # q => held[p] \cap held[q] = {}
  /\ \A i \in Live : \/ \E p \in Programs : tab[i] \in held[p]
                     \/ i = used - 1 /\ \E p \in Programs : call[p].at = "taken"

\* Only one call is under way, and what it knows is still true.
Calling ==
  /\ \A p, q \in Programs : InCall(p) /\ InCall(q) => p = q
  /\ \A p \in Programs : call[p].at = "found" =>
       call[p].start = Top /\ Top + call[p].blocks =< Blocks /\ used < MaxEntries
  /\ \A p \in Programs : call[p].at = "taken" =>
       used > 0 /\ call[p].blocks = tab[used - 1].blocks /\ \A q \in Programs : tab[used - 1] \notin held[q]

VirtInv == Shape /\ Stack /\ Marks /\ Owners /\ Calling

Apart ==
  /\ \A p \in Programs : \A b \in held[p] : b.blocks >= 1 /\ Region(b) \subseteq 0 .. Blocks - 1
  /\ \A p, q \in Programs : \A b \in held[p], c \in held[q] :
       (p = q /\ b = c) \/ Region(b) \cap Region(c) = {}

\* Exec's memory needs no order; the library's own does.
ExecInv == held \in [Programs -> SUBSET Entries] /\ call = [p \in Programs |-> Outside] /\ Apart

AllocInv == (~virtual => ExecInv) /\ (virtual /\ Orderly => VirtInv)

-----------------------------------------------------------------------------
\* A number of bytes is a number of blocks.
LEMMA BlocksForNat ==
  ASSUME NEW size \in Nat
  PROVE  BlocksFor(size) \in Nat
<1>1. size \div BlockSize \in Nat
  BY AllocAssumption
<1>2. (IF size % BlockSize # 0 THEN 1 ELSE 0) \in Nat
  OBVIOUS
<1> QED
  BY <1>1, <1>2 DEF BlocksFor

\* The first fit is at the top of the stack.
LEMMA FirstFit ==
  ASSUME NEW top \in Nat, used_blocks = 0 .. top - 1, NEW n \in Nat, find_free_blocks(n) # NoBlock
  PROVE  n # 0 /\ find_free_blocks(n) = top /\ top + n =< Blocks
<1> DEFINE fits == {k \in 0 .. Blocks - n - 1 : Region([start |-> k, blocks |-> n]) \cap used_blocks = {}}
<1>0. Blocks \in Nat
  BY AllocAssumption
<1>1. n # 0 /\ fits # {} /\ find_free_blocks(n) = Min(fits)
  BY DEF find_free_blocks
<1>2. \A k \in fits : k \in Int /\ k >= top /\ k + n =< Blocks
  <2> SUFFICES ASSUME NEW k \in fits PROVE k \in Int /\ k >= top /\ k + n =< Blocks
    OBVIOUS
  <2>1. k \in 0 .. Blocks - n - 1 /\ (k .. k + n - 1) \cap (0 .. top - 1) = {}
    BY DEF Region
  <2>2. k \in k .. k + n - 1
    BY <1>1, <2>1, <1>0
  <2>3. k \notin 0 .. top - 1
    BY <2>1, <2>2
  <2> QED
    BY <2>1, <2>3, <1>0
<1>3. top \in fits
  <2>1. PICK k \in fits : TRUE
    BY <1>1
  <2>2. k \in 0 .. Blocks - n - 1 /\ k >= top
    BY <2>1, <1>2
  <2>3. top \in 0 .. Blocks - n - 1
    BY <2>2, <1>0
  <2>4. (top .. top + n - 1) \cap (0 .. top - 1) = {}
    OBVIOUS
  <2> QED
    BY <2>3, <2>4 DEF Region
<1>4. Min(fits) = top
  <2>1. \A k \in fits : top =< k
    BY <1>2
  <2>2. Min(fits) \in fits /\ \A k \in fits : Min(fits) =< k
    BY <2>1, <1>3 DEF Min
  <2>3. Min(fits) =< top /\ top =< Min(fits) /\ Min(fits) \in Int
    BY <2>2, <2>1, <1>2, <1>3
  <2> QED
    BY <2>3
<1> QED
  BY <1>1, <1>2, <1>3, <1>4

-----------------------------------------------------------------------------
\* The steps of the allocator in orderly use: looking for room,
LEMMA FindVirt ==
  ASSUME VirtInv, NEW p \in Programs, NEW size \in Sizes, Find(p, size), Orderly'
  PROVE  VirtInv'
<1> DEFINE n == BlocksFor(size)
           start == find_free_blocks(n)
<1>1. n \in Nat
  BY BlocksForNat, AllocAssumption
<1>2. Top \in Nat /\ used \in Nat
  <2>1. used \in Nat /\ MaxEntries \in Nat
    BY AllocAssumption DEF VirtInv, Shape
  <2>2. CASE used = 0
    BY <2>1, <2>2 DEF Top
  <2>3. CASE used > 0
    <3>1. used - 1 \in Live /\ used - 1 \in Indices
      BY <2>1, <2>3, AllocAssumption DEF Live, Indices, VirtInv, Shape
    <3>2. tab[used - 1] \in Entries /\ tab[used - 1].start >= used - 1
      BY <3>1 DEF VirtInv, Shape, Stack
    <3> QED
      BY <2>1, <2>3, <3>2 DEF Top, End, Entries, NoBlock
  <2> QED
    BY <2>1, <2>2, <2>3
<1>3. start # NoBlock => n # 0 /\ start = Top /\ Top + n =< Blocks
  <2>1. used_blocks = 0 .. Top - 1
    BY DEF VirtInv, Marks
  <2> HIDE DEF n
  <2> QED
    BY <1>1, <1>2, <2>1, FirstFit
<1>4. used < MaxEntries
  <2>1. Cardinality(Programs) \in Nat /\ Cardinality(Programs) # 0
    BY AllocAssumption, FS_CardinalityType, FS_EmptySet
  <2> QED
    BY <2>1, <1>2, AllocAssumption DEF Find
<1>5. \A q \in Programs : ~InCall(q)
  BY DEF Find, Overlaps, Orderly
<1>6. UNCHANGED <<used, used_blocks, held>>
  BY DEF Find
<1>7. tab' \in [Indices -> Entries] /\ (used > 0 => tab' = tab)
  <2>1. CASE UNCHANGED tab
    BY <2>1 DEF VirtInv, Shape
  <2>2. CASE \E junk \in Junk : tab' = [i \in Indices |-> junk] /\ astray' = (astray \/ used > 0)
    BY <2>2, AllocAssumption DEF Orderly
  <2> QED
    BY <2>1, <2>2 DEF Find, grow_mem_list
<1>8. call' \in [Programs -> Calls]
  <2>1. Found(start, n) \in Calls \/ start = NoBlock
    BY <1>1, <1>2, <1>3 DEF Found, Calls
  <2>2. Outside \in Calls
    BY DEF Calls
  <2>3. call \in [Programs -> Calls]
    BY DEF VirtInv, Shape
  <2> HIDE DEF n, start
  <2>4. \/ call' = [call EXCEPT ![p] = Found(start, n)] /\ start # NoBlock
        \/ call' = [call EXCEPT ![p] = Outside]
    BY DEF Find, n, start
  <2> QED
    BY <2>1, <2>2, <2>3, <2>4
<1>9. \A q \in Programs :
        \/ call'[q] = Outside
        \/ q = p /\ call'[q] = Found(start, n) /\ start # NoBlock
  BY <1>5 DEF Find, InCall, VirtInv, Shape
<1>10. Live' = Live /\ Top' = Top /\ \A i \in Live : tab'[i] = tab[i] /\ End(i)' = End(i)
  <2>1. Live' = Live
    BY <1>6 DEF Live
  <2>2. used = 0 => Live = {} /\ Top = 0 /\ Top' = 0
    BY <1>6 DEF Live, Top
  <2>3. used > 0 => tab' = tab
    BY <1>7
  <2> QED
    BY <1>2, <1>6, <2>1, <2>2, <2>3 DEF Top, End
<1>11. Shape'
  BY <1>6, <1>7, <1>8 DEF VirtInv, Shape
<1>12. Stack'
  <2>1. used = 0 => Stack'
    BY <1>6 DEF Stack, Live
  <2>2. used > 0 => Stack'
    BY <1>6, <1>7 DEF VirtInv, Stack, End, Live
  <2> QED
    BY <2>1, <2>2, <1>2
<1>13. Marks'
  BY <1>6, <1>10 DEF VirtInv, Marks, Region
<1>14. Owners'
  <2>1. \A q \in Programs : call[q].at # "taken"
    BY <1>5 DEF InCall, Outside
  <2> QED
    BY <2>1, <1>6, <1>10 DEF VirtInv, Owners
<1>15. Calling'
  BY <1>3, <1>4, <1>6, <1>9, <1>10 DEF Calling, InCall, Outside, Found
<1> QED
  BY <1>11, <1>12, <1>13, <1>14, <1>15 DEF VirtInv

\* taking it,
LEMMA TakeVirt ==
  ASSUME VirtInv, NEW p \in Programs, Take(p)
  PROVE  VirtInv'
<1> DEFINE b == [start |-> call[p].start, blocks |-> call[p].blocks]
<1>1. call[p] \in Calls /\ call[p].at = "found"
  BY DEF Take, VirtInv, Shape
<1>2. /\ used \in Nat /\ used < MaxEntries /\ MaxEntries \in Nat /\ Blocks \in Nat
      /\ call[p].start = Top /\ call[p].start \in Nat
      /\ call[p].blocks \in Nat /\ call[p].blocks >= 1 /\ Top + call[p].blocks =< Blocks
  <2>1. call[p].start \in Nat /\ call[p].blocks \in Nat \ {0}
    BY <1>1 DEF Calls, Outside
  <2> QED
    BY <2>1, <1>1, AllocAssumption DEF VirtInv, Shape, Calling
<1>3. b \in Entries /\ b.start = Top /\ b.start \in Nat /\ b.blocks \in Nat /\ b.blocks >= 1 /\ b.start + b.blocks =< Blocks
  BY <1>2 DEF Entries
<1>4. used \in Indices /\ tab \in [Indices -> Entries]
  BY <1>2 DEF Indices, VirtInv, Shape
<1>5. /\ tab' = [tab EXCEPT ![used] = b] /\ used' = used + 1
      /\ used_blocks' = used_blocks \cup Region(b)
      /\ call' = [call EXCEPT ![p] = Taken(call[p].blocks)]
      /\ held' = held
  BY DEF Take
<1> HIDE DEF b
<1>6. Live' = Live \cup {used} /\ used \notin Live
  BY <1>2, <1>5 DEF Live
<1>7. tab'[used] = b /\ (\A i \in Live : tab'[i] = tab[i]) /\ \A i \in Live : i \in Indices /\ i \in Nat /\ i < used
  BY <1>2, <1>4, <1>5, <1>6 DEF Live, Indices
<1>8. Top' = b.start + b.blocks /\ \A i \in Live : End(i)' = End(i)
  BY <1>2, <1>5, <1>7 DEF End, Top
<1>9. \A i \in Live : tab[i] \in Entries /\ tab[i].start \in Nat /\ tab[i].blocks \in Nat /\ End(i) \in Nat /\ End(i) =< Top
  <2> SUFFICES ASSUME NEW i \in Live
               PROVE  tab[i] \in Entries /\ tab[i].start \in Nat /\ tab[i].blocks \in Nat /\ End(i) \in Nat /\ End(i) =< Top
    OBVIOUS
  <2>1. tab[i] \in Entries /\ tab[i].start >= i /\ i \in Nat
    BY <1>4, <1>7 DEF VirtInv, Stack
  <2>2. tab[i].start \in Nat /\ tab[i].blocks \in Nat /\ End(i) \in Nat
    BY <2>1 DEF Entries, NoBlock, End
  <2>3. used > 0 /\ used - 1 \in Live /\ Top = End(used - 1)
    BY <1>2, <1>7 DEF Live, Top
  <2>4. tab[used - 1] \in Entries /\ tab[used - 1].blocks >= 1
    BY <2>3, <1>4, <1>7 DEF VirtInv, Stack
  <2>5. i < used - 1 => End(i) =< tab[used - 1].start
    BY <2>3 DEF VirtInv, Stack
  <2>6. i = used - 1 \/ i < used - 1
    BY <1>7, <1>2
  <2> QED
    BY <2>1, <2>2, <2>3, <2>4, <2>5, <2>6, <1>2 DEF Entries, End, NoBlock
<1>10. Top >= used
  <2>1. used > 0 => used - 1 \in Live /\ Top = End(used - 1)
    BY <1>2 DEF Live, Top
  <2>2. used > 0 => tab[used - 1].start >= used - 1 /\ tab[used - 1].blocks >= 1
    BY <2>1 DEF VirtInv, Stack
  <2> QED
    BY <2>1, <2>2, <1>2, <1>9 DEF Top, End
<1>11. Shape'
  <2>1. Taken(call[p].blocks) \in Calls
    BY <1>2 DEF Taken, Calls
  <2>2. call' \in [Programs -> Calls]
    BY <2>1, <1>5 DEF VirtInv, Shape
  <2>3. used' \in 0 .. MaxEntries
    BY <1>2, <1>5
  <2> QED
    BY <2>2, <2>3, <1>3, <1>4, <1>5 DEF VirtInv, Shape
<1>12. Stack'
  <2> SUFFICES ASSUME NEW i \in Live \cup {used}
               PROVE  /\ tab'[i].blocks >= 1 /\ tab'[i].start >= i /\ End(i)' =< Blocks
                      /\ i = 0 => tab'[i].start = 0
                      /\ i > 0 => tab'[i].start = End(i - 1)'
                      /\ \A j \in Live \cup {used} : j < i => End(j)' =< tab'[i].start
    BY <1>6 DEF Stack, End
  <2>1. CASE i \in Live
    <3>1. i > 0 => i - 1 \in Live
      BY <2>1, <1>2 DEF Live
    <3>2. \A j \in Live \cup {used} : j < i => j \in Live
      BY <2>1, <1>7, <1>2
    <3> QED
      BY <2>1, <3>1, <3>2, <1>7, <1>8 DEF VirtInv, Stack
  <2>2. CASE i = used
    <3>1. i > 0 => i - 1 \in Live /\ Top = End(i - 1)
      BY <2>2, <1>2 DEF Live, Top
    <3>2. i = 0 => Top = 0
      BY <2>2 DEF Top
    <3>3. \A j \in Live \cup {used} : j < i => j \in Live
      BY <2>2, <1>2
    <3>4. End(i)' = b.start + b.blocks /\ tab'[i] = b
      BY <2>2, <1>7 DEF End
    <3>5. i > 0 => End(i - 1)' = Top
      BY <3>1, <1>8
    <3>6. \A j \in Live \cup {used} : j < i => End(j)' =< Top
      BY <3>3, <1>8, <1>9
    <3> QED
      BY <2>2, <3>2, <3>4, <3>5, <3>6, <1>2, <1>3, <1>10
  <2> QED
    BY <2>1, <2>2
<1>13. Marks'
  <2>1. used_blocks = 0 .. Top - 1 /\ \A k \in used_blocks : \E i \in Live : k \in Region(tab[i])
    BY DEF VirtInv, Marks
  <2>2. used_blocks' = 0 .. Top' - 1
    BY <2>1, <1>2, <1>3, <1>5, <1>8 DEF Region
  <2>3. \A k \in used_blocks' : \E i \in Live' : k \in Region(tab'[i])
    BY <2>1, <1>5, <1>6, <1>7
  <2> QED
    BY <2>2, <2>3 DEF Marks, Region
<1>14. \A q \in Programs : q = p \/ call[q] = Outside
  BY <1>1 DEF VirtInv, Calling, InCall, Outside
<1>15. call'[p] = Taken(call[p].blocks) /\ \A q \in Programs : q # p => call'[q] = Outside
  BY <1>5, <1>14 DEF VirtInv, Shape
<1>16. Owners'
  <2>1. \A q \in Programs : \A c \in held[q] : \E i \in Live : c = tab[i]
    BY DEF VirtInv, Owners
  <2>2. \A i \in Live : \E q \in Programs : tab[i] \in held[q]
    <3>1. \A q \in Programs : call[q].at # "taken"
      BY <1>1, <1>14 DEF Outside
    <3> QED
      BY <3>1 DEF VirtInv, Owners
  <2>3. used' - 1 = used /\ call'[p].at = "taken"
    BY <1>2, <1>5, <1>15 DEF Taken
  <2>4. \A q, r \in Programs : q # r => held[q] \cap held[r] = {}
    BY DEF VirtInv, Owners
  <2> QED
    BY <2>1, <2>2, <2>3, <2>4, <1>5, <1>6, <1>7 DEF Owners
<1>17. Calling'
  <2>1. \A q \in Programs : b \notin held[q]
    <3> SUFFICES ASSUME NEW q \in Programs, b \in held[q] PROVE FALSE
      OBVIOUS
    <3>1. PICK i \in Live : b = tab[i]
      BY DEF VirtInv, Owners
    <3>2. End(i) =< Top /\ tab[i].start = Top /\ tab[i].blocks >= 1 /\ tab[i].start \in Nat /\ tab[i].blocks \in Nat
      BY <3>1, <1>3, <1>9
    <3> QED
      BY <3>2 DEF End
  <2>2. used' - 1 = used /\ used' > 0
    BY <1>2, <1>5
  <2>3. b.blocks = call[p].blocks
    BY DEF b
  <2> QED
    BY <2>1, <2>2, <2>3, <1>5, <1>7, <1>15 DEF Calling, InCall, Outside, Taken
<1> QED
  BY <1>11, <1>12, <1>13, <1>16, <1>17 DEF VirtInv

\* and returning it.
LEMMA ReturnVirt ==
  ASSUME VirtInv, NEW p \in Programs, Return(p)
  PROVE  VirtInv'
<1> DEFINE b == tab[used - 1]
<1>1. call[p].at = "taken"
  BY DEF Return
<1>2. used \in Nat /\ used > 0 /\ used - 1 \in Live /\ used - 1 \in Indices
  BY <1>1, AllocAssumption DEF VirtInv, Shape, Calling, Live, Indices
<1>3. b \in Entries /\ b.start >= used - 1 /\ call[p].blocks = b.blocks /\ \A q \in Programs : b \notin held[q]
  BY <1>1, <1>2 DEF VirtInv, Shape, Stack, Calling
<1>4. Given(b.start, call[p].blocks) = {b}
  <2>1. b = [start |-> b.start, blocks |-> b.blocks]
    BY <1>3 DEF Entries
  <2>2. b.start # NoBlock
    BY <1>2, <1>3 DEF Entries, NoBlock
  <2> QED
    BY <2>1, <2>2, <1>3 DEF Given
<1>5. /\ held' = [held EXCEPT ![p] = held[p] \cup {b}]
      /\ call' = [call EXCEPT ![p] = Outside]
      /\ UNCHANGED <<tab, used, used_blocks>>
  BY <1>2, <1>4 DEF Return
<1> HIDE DEF b
<1>6. Shape'
  <2>1. held' \in [Programs -> SUBSET Entries]
    BY <1>3, <1>5 DEF VirtInv, Shape
  <2>2. call' \in [Programs -> Calls]
    BY <1>5 DEF VirtInv, Shape, Calls
  <2> QED
    BY <2>1, <2>2, <1>5 DEF VirtInv, Shape
<1>7. Live' = Live /\ Top' = Top
  BY <1>5 DEF Live, Top, End
<1>8. Stack' /\ Marks'
  BY <1>5, <1>7 DEF VirtInv, Stack, Marks, End, Region
<1>9. \A q \in Programs : call'[q] = Outside
  BY <1>1, <1>5 DEF VirtInv, Shape, Calling, InCall, Outside
<1>10. held'[p] = held[p] \cup {b} /\ \A q \in Programs : q # p => held'[q] = held[q]
  BY <1>5 DEF VirtInv, Shape
<1>11. Owners'
  <2>1. \A q \in Programs : \A c \in held'[q] : \E i \in Live : c = tab[i]
    BY <1>2, <1>10 DEF VirtInv, Owners, b
  <2>2. \A q, r \in Programs : q # r => held'[q] \cap held'[r] = {}
    BY <1>3, <1>10 DEF VirtInv, Owners
  <2>3. \A i \in Live : \E q \in Programs : tab[i] \in held'[q]
    BY <1>10 DEF VirtInv, Owners, b
  <2> QED
    BY <2>1, <2>2, <2>3, <1>5, <1>7 DEF Owners
<1>12. Calling'
  BY <1>9 DEF Calling, InCall, Outside
<1> QED
  BY <1>6, <1>8, <1>11, <1>12 DEF VirtInv

\* What is freed in order is the top of the stack.
LEMMA FreeVirt ==
  ASSUME VirtInv, NEW p \in Programs, NEW b \in held[p], Free(p, b), Orderly'
  PROVE  VirtInv'
<1> DEFINE last_entry == used - 1
           matching == {i \in 0 .. used - 1 : tab[i].start = b.start}
           n == Min(matching)
           end == tab[n].start + tab[n].blocks
<1>1. used \in Nat /\ MaxEntries \in Nat /\ Blocks \in Nat /\ tab \in [Indices -> Entries]
  BY AllocAssumption DEF VirtInv, Shape
<1>2. PICK k \in Live : b = tab[k]
  BY DEF VirtInv, Owners
<1>3. \A i \in Live : /\ i \in Nat /\ i < used /\ i \in Indices /\ tab[i] \in Entries
                     /\ tab[i].start \in Nat /\ tab[i].blocks \in Nat /\ tab[i].start >= i /\ tab[i].blocks >= 1
  <2> SUFFICES ASSUME NEW i \in Live
               PROVE  /\ i \in Nat /\ i < used /\ i \in Indices /\ tab[i] \in Entries
                      /\ tab[i].start \in Nat /\ tab[i].blocks \in Nat /\ tab[i].start >= i /\ tab[i].blocks >= 1
    OBVIOUS
  <2>1. i \in Nat /\ i < used /\ i \in Indices
    BY <1>1 DEF Live, Indices, VirtInv, Shape
  <2>2. tab[i] \in Entries /\ tab[i].start >= i /\ tab[i].blocks >= 1
    BY <1>1, <2>1 DEF VirtInv, Stack
  <2> QED
    BY <2>1, <2>2 DEF Entries, NoBlock
<1>4. \A i, j \in Live : i < j => tab[i].start < tab[j].start
  BY <1>3 DEF VirtInv, Stack, End
<1>5. matching = {k}
  <2>1. \A i \in Live : tab[i].start = tab[k].start => i = k
    <3> SUFFICES ASSUME NEW i \in Live, tab[i].start = tab[k].start PROVE i = k
      OBVIOUS
    <3>1. ~(i < k) /\ ~(k < i)
      BY <1>3, <1>4
    <3> QED
      BY <3>1, <1>3
  <2> QED
    BY <2>1, <1>2 DEF Live
<1>6. n = k
  <2>1. Min({k}) = k
    BY <1>3 DEF Min
  <2> QED
    BY <2>1, <1>5
<1>7. /\ used_blocks' = used_blocks \ Region(tab[k]) /\ used' = used - 1
      /\ tab' = [i \in Indices |-> IF end =< i /\ i < used - 1 THEN tab[i + 1] ELSE tab[i]]
      /\ astray' = (astray \/ k # used - 1)
  BY <1>5, <1>6 DEF Free
<1>8. /\ held' = [held EXCEPT ![p] = held[p] \ {b}] /\ call' = call
      /\ \A q \in Programs : ~InCall(q)
  BY DEF Free, Overlaps, Orderly
<1>9. k = used - 1
  BY <1>7 DEF Orderly
<1>10. end = tab[k].start + tab[k].blocks /\ end = Top /\ end >= used
  BY <1>3, <1>6, <1>9, <1>1 DEF Top, End
<1> HIDE DEF end, n, matching
<1>11. tab' = tab
  <2>1. \A i \in Indices : ~(end =< i /\ i < used - 1)
    BY <1>1, <1>3, <1>10 DEF Indices
  <2> QED
    BY <2>1, <1>1, <1>7
<1>12. Live = Live' \cup {k} /\ k \notin Live'
  BY <1>1, <1>3, <1>7, <1>9 DEF Live
<1>13. Top' = tab[k].start
  <2>1. CASE k = 0
    BY <2>1, <1>1, <1>7, <1>9 DEF Top, VirtInv, Stack
  <2>2. CASE k > 0
    <3>1. used' # 0 /\ used' - 1 = k - 1
      BY <2>2, <1>3, <1>7, <1>9
    <3>2. tab[k].start = End(k - 1)
      BY <2>2 DEF VirtInv, Stack
    <3> QED
      BY <3>1, <3>2, <1>11 DEF Top, End
  <2> QED
    BY <2>1, <2>2, <1>3
<1>14. Shape'
  <2>1. held' \in [Programs -> SUBSET Entries]
    BY <1>8 DEF VirtInv, Shape
  <2>2. used' \in 0 .. MaxEntries
    BY <1>1, <1>3, <1>7, <1>9 DEF VirtInv, Shape
  <2> QED
    BY <2>1, <2>2, <1>8, <1>11 DEF VirtInv, Shape
<1>15. Stack'
  <2>1. \A i \in Live' : i \in Live
    BY <1>12
  <2> QED
    BY <2>1, <1>11 DEF VirtInv, Stack, End
<1>16. Marks'
  <2>1. used_blocks = 0 .. Top - 1
    BY DEF VirtInv, Marks
  <2>2. Region(tab[k]) = tab[k].start .. Top - 1
    BY <1>3, <1>10 DEF Region
  <2>3. tab[k].start \in Nat /\ Top \in Nat /\ tab[k].start =< Top
    BY <1>3, <1>10
  <2>4. used_blocks' = 0 .. Top' - 1
    BY <2>1, <2>2, <2>3, <1>7, <1>13
  <2>5. \A m \in used_blocks' : \E i \in Live' : m \in Region(tab[i])
    BY <1>7, <1>12 DEF VirtInv, Marks
  <2> QED
    BY <2>4, <2>5, <1>11 DEF Marks, Region
<1>17. held'[p] = held[p] \ {b} /\ \A q \in Programs : q # p => held'[q] = held[q]
  BY <1>8 DEF VirtInv, Shape
<1>18. Owners'
  <2>1. \A q \in Programs : b \in held[q] => q = p
    BY DEF VirtInv, Owners
  <2>2. \A q \in Programs : \A c \in held'[q] : \E i \in Live' : c = tab[i]
    <3> SUFFICES ASSUME NEW q \in Programs, NEW c \in held'[q] PROVE \E i \in Live' : c = tab[i]
      OBVIOUS
    <3>1. c \in held[q] /\ c # b
      BY <2>1, <1>17
    <3>2. PICK i \in Live : c = tab[i]
      BY <3>1 DEF VirtInv, Owners
    <3>3. i \in Live'
      BY <3>1, <3>2, <1>2, <1>12
    <3> QED
      BY <3>2, <3>3
  <2>3. \A q, r \in Programs : q # r => held'[q] \cap held'[r] = {}
    BY <1>17 DEF VirtInv, Owners
  <2>4. \A i \in Live' : tab[i] # b
    <3> SUFFICES ASSUME NEW i \in Live', tab[i] = b PROVE FALSE
      OBVIOUS
    <3>1. i \in Live /\ i # k
      BY <1>12
    <3>2. i < k \/ k < i
      BY <3>1, <1>3
    <3> QED
      BY <3>1, <3>2, <1>2, <1>3, <1>4
  <2>5. \A i \in Live' : \E q \in Programs : tab[i] \in held[q]
    <3>1. \A q \in Programs : call[q].at # "taken"
      BY <1>8 DEF InCall, Outside
    <3> QED
      BY <3>1, <1>12 DEF VirtInv, Owners
  <2>6. \A i \in Live' : \E q \in Programs : tab[i] \in held'[q]
    BY <2>4, <2>5, <1>17
  <2> QED
    BY <2>2, <2>3, <2>6, <1>11 DEF Owners
<1>19. Calling'
  BY <1>8 DEF Calling, InCall, Outside
<1> QED
  BY <1>14, <1>15, <1>16, <1>18, <1>19 DEF VirtInv

-----------------------------------------------------------------------------
\* The other build: what exec gives is apart from what it has given.
LEMMA AllocVecApart ==
  ASSUME ExecInv, NEW p \in Programs, NEW size \in Sizes, AllocVec(p, size)
  PROVE  ExecInv'
<1> DEFINE n == BlocksFor(size)
<1>1. n \in Nat /\ Blocks \in Nat
  BY BlocksForNat, AllocAssumption
<1> HIDE DEF n
<1>2. PICK start \in 0 .. Blocks - n :
        /\ n > 0 /\ \A c \in Held : Region([start |-> start, blocks |-> n]) \cap Region(c) = {}
        /\ held' = [held EXCEPT ![p] = held[p] \cup {[start |-> start, blocks |-> n]}]
  BY DEF AllocVec, n
<1> DEFINE b == [start |-> start, blocks |-> n]
<1>3. b \in Entries /\ Region(b) \subseteq 0 .. Blocks - 1
  BY <1>1, <1>2 DEF Entries, Region
<1>4. \A q \in Programs : \A c \in held[q] : Region(b) \cap Region(c) = {}
  BY <1>2 DEF Held
<1>9. b.blocks >= 1
  BY <1>1, <1>2
<1> HIDE DEF b
<1>5. held' = [held EXCEPT ![p] = held[p] \cup {b}] /\ call' = call
  BY <1>2 DEF AllocVec, b
<1>6. held' \in [Programs -> SUBSET Entries]
  BY <1>3, <1>5 DEF ExecInv
<1>7. \A q \in Programs : \A c \in held'[q] : c \in held[q] \/ (q = p /\ c = b)
  BY <1>5 DEF ExecInv
<1>8. Apart'
  <2>1. \A q \in Programs : \A c \in held'[q] : c.blocks >= 1 /\ Region(c) \subseteq 0 .. Blocks - 1
    BY <1>3, <1>7, <1>9 DEF ExecInv, Apart
  <2>2. ASSUME NEW q \in Programs, NEW r \in Programs, NEW c \in held'[q], NEW d \in held'[r]
        PROVE  (q = r /\ c = d) \/ Region(c) \cap Region(d) = {}
    <3>1. CASE c \in held[q] /\ d \in held[r]
      BY <3>1 DEF ExecInv, Apart
    <3>2. CASE c \in held[q] /\ r = p /\ d = b
      BY <3>2, <1>4
    <3>3. CASE q = p /\ c = b /\ d \in held[r]
      BY <3>3, <1>4
    <3>4. CASE q = p /\ c = b /\ r = p /\ d = b
      BY <3>4
    <3> QED
      BY <3>1, <3>2, <3>3, <3>4, <1>7
  <2> QED
    BY <2>1, <2>2 DEF Apart, Region
<1> QED
  BY <1>5, <1>6, <1>8 DEF ExecInv

LEMMA FreeVecApart ==
  ASSUME ExecInv, NEW p \in Programs, NEW b \in held[p], FreeVec(p, b)
  PROVE  ExecInv'
<1>1. held' = [held EXCEPT ![p] = held[p] \ {b}] /\ call' = call
  BY DEF FreeVec
<1>2. held' \in [Programs -> SUBSET Entries]
  BY <1>1 DEF ExecInv
<1>3. \A q \in Programs : held'[q] \subseteq held[q]
  BY <1>1 DEF ExecInv
<1>4. Apart'
  BY <1>3 DEF ExecInv, Apart, Region
<1> QED
  BY <1>1, <1>2, <1>4 DEF ExecInv

-----------------------------------------------------------------------------
LEMMA AllocInvStarts == AllocInit => AllocInv
<1> SUFFICES ASSUME AllocInit PROVE ExecInv /\ VirtInv
  BY DEF AllocInv
<1>1. /\ tab = [i \in Indices |-> [start |-> NoBlock, blocks |-> 0]]
      /\ used = 0 /\ used_blocks = {}
      /\ call = [p \in Programs |-> Outside] /\ held = [p \in Programs |-> {}]
  BY DEF AllocInit
<1>2. ExecInv
  BY <1>1 DEF ExecInv, Apart
<1>3. Live = {} /\ Top = 0
  BY <1>1 DEF Live, Top
<1>4. Shape
  BY <1>1, AllocAssumption DEF Shape, Entries, Calls
<1>5. Stack /\ Marks
  BY <1>1, <1>3 DEF Stack, Marks
<1>6. Owners /\ Calling
  BY <1>1, <1>3 DEF Owners, Calling, InCall, Outside
<1> QED
  BY <1>2, <1>4, <1>5, <1>6 DEF VirtInv

LEMMA AllocInvStep == AllocInv /\ [AllocNext]_allocVars => AllocInv'
<1> SUFFICES ASSUME AllocInv, [AllocNext]_allocVars PROVE AllocInv'
  OBVIOUS
<1>1. CASE UNCHANGED allocVars
  BY <1>1 DEF allocVars, AllocInv, ExecInv, Apart, Orderly, VirtInv, Shape, Stack, Marks, Owners, Calling,
              Live, End, Top, InCall, Region
<1>2. CASE AllocNext
  <2>1. PICK p \in Programs : BeginAlloc(p) \/ Continue(p) \/ GiveBack(p)
    BY <1>2 DEF AllocNext
  <2>2. ASSUME NEW size \in Sizes, Find(p, size) PROVE AllocInv'
    <3>1. virtual /\ virtual' = virtual /\ (Orderly' => Orderly)
      BY <2>2 DEF Find, Orderly, Overlaps, grow_mem_list
    <3> QED
      BY <2>2, <3>1, FindVirt DEF AllocInv
  <2>3. ASSUME Take(p) PROVE AllocInv'
    <3>1. virtual' = virtual /\ Orderly' = Orderly /\ call[p] # Outside
      BY <2>3 DEF Take, Orderly, Outside
    <3> QED
      BY <2>3, <3>1, TakeVirt DEF AllocInv, ExecInv
  <2>4. ASSUME Return(p) PROVE AllocInv'
    <3>1. virtual' = virtual /\ Orderly' = Orderly /\ call[p] # Outside
      BY <2>4 DEF Return, Orderly, Outside
    <3> QED
      BY <2>4, <3>1, ReturnVirt DEF AllocInv, ExecInv
  <2>5. ASSUME NEW b \in held[p], Free(p, b) PROVE AllocInv'
    <3>1. virtual /\ virtual' = virtual /\ (Orderly' => Orderly)
      BY <2>5 DEF Free, Orderly, Overlaps
    <3> QED
      BY <2>5, <3>1, FreeVirt DEF AllocInv
  <2>6. ASSUME NEW size \in Sizes, AllocVec(p, size) PROVE AllocInv'
    <3>1. ~virtual /\ virtual' = virtual
      BY <2>6 DEF AllocVec
    <3> QED
      BY <2>6, <3>1, AllocVecApart DEF AllocInv
  <2>7. ASSUME NEW b \in held[p], FreeVec(p, b) PROVE AllocInv'
    <3>1. ~virtual /\ virtual' = virtual
      BY <2>7 DEF FreeVec
    <3> QED
      BY <2>7, <3>1, FreeVecApart DEF AllocInv
  <2> QED
    BY <2>1, <2>2, <2>3, <2>4, <2>5, <2>6, <2>7 DEF BeginAlloc, Continue, GiveBack
<1> QED
  BY <1>1, <1>2

\* Programs that use what they are given do not disturb the allocator.
LEMMA ProgramsKeepOut == [Next]_vars => [AllocNext]_allocVars
<1>1. ASSUME NEW p \in Programs, Allocating(p) PROVE AllocNext
  BY <1>1 DEF Allocating, AllocNext
<1>2. ASSUME NEW p \in Programs, NEW u \in Uses(p), Access(p, u) PROVE UNCHANGED allocVars
  BY <1>2 DEF Access, ReadWhole, WriteWhole, BitGet
<1>3. ASSUME NEW p \in Programs, BitPut(p) PROVE UNCHANGED allocVars
  BY <1>3 DEF BitPut
<1>4. UNCHANGED vars => UNCHANGED allocVars
  BY DEF vars
<1> QED
  BY <1>1, <1>2, <1>3, <1>4 DEF Next

LEMMA AllocInvHolds == Spec => []AllocInv
<1>1. Init => AllocInv
  BY AllocInvStarts DEF Init
<1>2. AllocInv /\ [Next]_vars => AllocInv'
  BY AllocInvStep, ProgramsKeepOut
<1> QED
  BY <1>1, <1>2, PTL DEF Spec

LEMMA VirtApart ==
  ASSUME VirtInv
  PROVE  Apart
<1>1. \A i \in Live : /\ tab[i] \in Entries /\ tab[i].start >= i /\ i \in Nat /\ End(i) =< Blocks
                   /\ tab[i].blocks >= 1
  BY AllocAssumption DEF VirtInv, Shape, Stack, Live, Indices
<1>2. \A i \in Live : tab[i].start \in Nat /\ tab[i].blocks \in Nat
  BY <1>1 DEF Entries, NoBlock
<1>3. \A i \in Live : Region(tab[i]) \subseteq 0 .. Blocks - 1
  BY <1>1, <1>2, AllocAssumption DEF Region, End
<1>4. \A i, j \in Live : j < i => Region(tab[i]) \cap Region(tab[j]) = {}
  <2> SUFFICES ASSUME NEW i \in Live, NEW j \in Live, j < i PROVE Region(tab[i]) \cap Region(tab[j]) = {}
    OBVIOUS
  <2>1. End(j) =< tab[i].start
    BY DEF VirtInv, Stack
  <2> QED
    BY <2>1, <1>2 DEF Region, End
<1>5. \A i, j \in Live : i = j \/ Region(tab[i]) \cap Region(tab[j]) = {}
  <2> SUFFICES ASSUME NEW i \in Live, NEW j \in Live, i # j PROVE Region(tab[i]) \cap Region(tab[j]) = {}
    OBVIOUS
  <2>1. i < j \/ j < i
    BY <1>1
  <2> QED
    BY <2>1, <1>4
<1>6. \A p, q \in Programs : \A b \in held[p], c \in held[q] :
        (p = q /\ b = c) \/ Region(b) \cap Region(c) = {}
  <2> SUFFICES ASSUME NEW p \in Programs, NEW q \in Programs, NEW b \in held[p], NEW c \in held[q], ~(p = q /\ b = c)
               PROVE  Region(b) \cap Region(c) = {}
    OBVIOUS
  <2>1. PICK i \in Live : b = tab[i]
    BY DEF VirtInv, Owners
  <2>2. PICK j \in Live : c = tab[j]
    BY DEF VirtInv, Owners
  <2>3. b # c
    BY DEF VirtInv, Owners
  <2> QED
    BY <2>1, <2>2, <2>3, <1>5
<1> QED
  BY <1>1, <1>3, <1>6 DEF VirtInv, Owners, Apart

LEMMA OrderlyApart ==
  AllocInv /\ Orderly => Apart
BY VirtApart DEF AllocInv, ExecInv

\* In orderly use no two allocations overlap, and none leaves the chip memory:
\* first fit, marks and table agree, however many programs and blocks there are.
THEOREM HeldApartHolds == Spec => []HeldApart
<1>1. Apart => HeldApart
  BY DEF Apart, HeldApart, Held
<1>2. AllocInv => HeldApart
  BY <1>1, OrderlyApart DEF HeldApart
<1> QED
  BY <1>2, AllocInvHolds, PTL

\* In orderly use the marks are those of what programs have: nothing leaks.
THEOREM BooksAgreeHolds == Spec => []BooksAgree
<1>1. AllocInv => BooksAgree
  <2> SUFFICES ASSUME VirtInv, \A p \in Programs : ~InCall(p)
               PROVE  used_blocks = UNION {Region(b) : b \in Held}
    BY DEF AllocInv, BooksAgree
  <2>1. \A i \in Live : \E p \in Programs : tab[i] \in held[p]
    <3>1. \A p \in Programs : call[p].at # "taken"
      BY DEF InCall, Outside
    <3> QED
      BY <3>1 DEF VirtInv, Owners
  <2>2. \A n \in used_blocks : \E b \in Held : n \in Region(b)
    BY <2>1 DEF VirtInv, Marks, Held
  <2>3. \A i \in Live : Region(tab[i]) \subseteq used_blocks
    <3> SUFFICES ASSUME NEW i \in Live PROVE Region(tab[i]) \subseteq used_blocks
      OBVIOUS
    <3>1. used \in Nat /\ used - 1 \in Live /\ Top = End(used - 1) /\ i \in Nat /\ i =< used - 1
      BY DEF VirtInv, Shape, Live, Top
    <3>2. \A j \in Live : tab[j].start \in Nat /\ tab[j].blocks \in Nat
      <4>1. \A j \in Live : tab[j] \in Entries /\ tab[j].start >= j /\ j \in Nat
        BY AllocAssumption DEF VirtInv, Shape, Stack, Live, Indices
      <4> QED
        BY <4>1 DEF Entries, NoBlock
    <3>3. i < used - 1 => End(i) =< tab[used - 1].start
      BY <3>1 DEF VirtInv, Stack
    <3>4. End(i) =< Top
      BY <3>1, <3>2, <3>3 DEF End
    <3>5. used_blocks = 0 .. Top - 1
      BY DEF VirtInv, Marks
    <3> QED
      BY <3>1, <3>2, <3>4, <3>5 DEF Region, End
  <2>4. \A b \in Held : Region(b) \subseteq used_blocks
    BY <2>3 DEF VirtInv, Owners, Held
  <2> QED
    BY <2>2, <2>4
<1> QED
  BY <1>1, AllocInvHolds, PTL

-----------------------------------------------------------------------------
(***************************************************************************)
(* What programs do to the chip memory.                                    *)
(***************************************************************************)
\* Only the bank of the chip memory reaches chip memory, at the bytes addressed.
LEMMA ChipReached ==
  ASSUME NEW addr, NEW n, NEW c \in Reached(addr, n), c[1] = "chip"
  PROVE  BankOf(addr) = "chipmem" /\ \E i \in 0 .. n - 1 : c = <<"chip", addr + i>>
<1>1. CASE BankOf(addr) = "chipmem"
  BY <1>1 DEF Reached, Addressed
<1>2. CASE BankOf(addr) = "cia"
  <2>1. c = CiaPlace(addr, n)
    BY <1>2 DEF Reached, Addressed
  <2>2. CiaPlace(addr, n)[1] # "chip"
    BY DEF CiaPlace
  <2> QED
    BY <2>1, <2>2
<1>3. CASE BankOf(addr) = "clock"
  BY <1>3 DEF Reached, Addressed
<1>4. CASE BankOf(addr) = "nallePuh"
  BY <1>4 DEF Reached, Addressed
<1>5. CASE BankOf(addr) \notin {"chipmem", "cia", "clock", "nallePuh"}
  BY <1>5 DEF Reached, Addressed
<1> QED
  BY <1>1, <1>2, <1>3, <1>4, <1>5

\* A byte lies in one block.
LEMMA OneBlock ==
  ASSUME NEW B \in Nat \ {0}, NEW k \in Nat, NEW s \in Nat, NEW t \in Nat,
         s * B =< k, k < s * B + B, t * B =< k, k < t * B + B
  PROVE  s = t
<1>1. ASSUME NEW a \in Nat, NEW b \in Nat, a < b PROVE a * B + B =< b * B
  <2> DEFINE d == b - a - 1
  <2>1. d \in Nat /\ b = (a + 1) + d
    BY <1>1
  <2> HIDE DEF d
  <2>2. b * B = (a + 1) * B + d * B
    BY <2>1
  <2>3. (a + 1) * B = a * B + B
    OBVIOUS
  <2>4. d * B \in Nat /\ a * B \in Nat /\ b * B \in Nat
    BY <2>1
  <2> QED
    BY <2>2, <2>3, <2>4
<1>2. s * B \in Nat /\ t * B \in Nat
  OBVIOUS
<1>3. ~(s < t)
  BY <1>1, <1>2
<1>4. ~(t < s)
  BY <1>1, <1>2
<1> QED
  BY <1>3, <1>4

\* The chip memory a program reaches is in the first block of something it holds.
LEMMA OwnChip ==
  ASSUME NEW p \in Programs, held[p] \subseteq Entries, Apart, NEW u \in Uses(p),
         NEW c \in Reached(u.addr, u.n), c[1] = "chip"
  PROVE  \E b \in held[p] : /\ b.start \in Region(b) /\ b.start \in Nat /\ c[2] \in Nat
                            /\ b.start * BlockSize =< c[2]
                            /\ c[2] < b.start * BlockSize + BlockSize
<1>1. BankOf(u.addr) = "chipmem" /\ \E i \in 0 .. u.n - 1 : c = <<"chip", u.addr + i>>
  BY ChipReached
<1>2. PICK i \in 0 .. u.n - 1 : c = <<"chip", u.addr + i>>
  BY <1>1
<1>3. PICK b \in held[p], v \in MemoryUses :
        u.addr = b.start * BlockSize + v.offset /\ u.n = Bytes[v.width]
  <2>1. \/ \E b \in held[p], v \in MemoryUses :
             u.addr = hostAddressToChip(b) + v.offset /\ u.n = Bytes[v.width]
        \/ \E v \in DeviceUses : u.addr = v.addr
    BY DEF Uses
  <2>2. \A v \in DeviceUses : BankOf(v.addr) # "chipmem"
    BY MemoryAssumption
  <2> QED
    BY <1>1, <2>1, <2>2 DEF hostAddressToChip
<1>4. Bytes[v.width] \in Nat /\ v.offset \in Nat /\ v.offset + Bytes[v.width] =< BlockSize
  BY MemoryAssumption DEF Bytes
<1>5. b.start \in Region(b) /\ b.start \in Nat
  <2>1. b \in Entries /\ b.blocks >= 1 /\ Region(b) \subseteq 0 .. Blocks - 1
    BY DEF Apart
  <2>2. b.start \in Int /\ b.blocks \in Nat
    BY <2>1, AllocAssumption DEF Entries, NoBlock
  <2>3. b.start \in Region(b)
    BY <2>1, <2>2 DEF Region
  <2> QED
    BY <2>1, <2>3
<1>6. c[2] = b.start * BlockSize + v.offset + i
  BY <1>2, <1>3
<1>7. b.start * BlockSize \in Nat /\ BlockSize \in Nat
  BY <1>5, AllocAssumption
<1>8. i \in Nat /\ v.offset + i < BlockSize
  BY <1>3, <1>4, <1>7
<1> HIDE DEF Bytes
<1> QED
  BY <1>4, <1>5, <1>6, <1>7, <1>8

\* so that two programs reach no chip memory in common.
LEMMA NotShared ==
  ASSUME NEW p \in Programs, NEW q \in Programs, p # q, held \in [Programs -> SUBSET Entries], Apart,
         NEW u \in Uses(p), NEW v \in Uses(q),
         NEW c \in Reached(u.addr, u.n), c \in Reached(v.addr, v.n)
  PROVE  c[1] # "chip"
<1> SUFFICES ASSUME c[1] = "chip" PROVE FALSE
  OBVIOUS
<1>1. held[p] \subseteq Entries /\ held[q] \subseteq Entries
  OBVIOUS
<1>2. PICK a \in held[p] : /\ a.start \in Region(a) /\ a.start \in Nat /\ c[2] \in Nat
                           /\ a.start * BlockSize =< c[2]
                           /\ c[2] < a.start * BlockSize + BlockSize
  BY <1>1, OwnChip
<1>3. PICK b \in held[q] : /\ b.start \in Region(b) /\ b.start \in Nat /\ c[2] \in Nat
                           /\ b.start * BlockSize =< c[2]
                           /\ c[2] < b.start * BlockSize + BlockSize
  BY <1>1, OwnChip
<1>4. a.start = b.start
  BY <1>2, <1>3, OneBlock, AllocAssumption
<1>5. Region(a) \cap Region(b) = {}
  BY DEF Apart
<1> QED
  BY <1>2, <1>3, <1>4, <1>5

\* A read changes no chip memory,
LEMMA ReadKeepsChip ==
  ASSUME DOMAIN content = Places, NEW addr, NEW n \in {1, 2, 4}, NEW r \in Reads(addr, n)
  PROVE  /\ DOMAIN r.content = Places
         /\ \A c \in Places : c[1] = "chip" => r.content[c] = content[c]
<1>1. \A v : \A x \in Plainly(v) : x.content = content
  BY DEF Plainly
<1>2. ASSUME NEW a PROVE DOMAIN ReadBus(a).content = Places /\
        \A c \in Places : c[1] = "chip" => ReadBus(a).content[c] = content[c]
  BY DEF ReadBus
<1>3. ASSUME NEW a PROVE DOMAIN PUHRead(a).content = Places /\
        \A c \in Places : c[1] = "chip" => PUHRead(a).content[c] = content[c]
  BY <1>2 DEF PUHRead
<1>4. ASSUME NEW a, NEW x \in ReadBusTwice(a)
      PROVE  DOMAIN x.content = Places /\ \A c \in Places : c[1] = "chip" => x.content[c] = content[c]
  <2> DEFINE after(first) == [content EXCEPT ![<<"custom", (a + first) % 512>>] = last,
                                             ![<<"custom", (a + 2 - first) % 512>>] = Word]
             seen(first) == IF first = 0 THEN last \cup {16 + b : b \in Word}
                            ELSE Word \cup {16 + b : b \in last}
  <2>1. ReadBusTwice(a) = {[value |-> seen(first), content |-> after(first), last |-> Word] : first \in {0, 2}}
    BY DEF ReadBusTwice
  <2>2. \A first : DOMAIN after(first) = Places
                  /\ \A c \in Places : c[1] = "chip" => after(first)[c] = content[c]
    OBVIOUS
  <2> HIDE DEF after, seen
  <2>3. PICK first \in {0, 2} : x = [value |-> seen(first), content |-> after(first), last |-> Word]
    BY <1>4, <2>1
  <2> QED
    BY <2>2, <2>3
<1>5. CASE BankOf(addr) = "chipmem"
  BY <1>1, <1>5 DEF Reads, ReadChip
<1>6. CASE BankOf(addr) = "cia"
  BY <1>1, <1>6 DEF Reads, ReadCia
<1>7. CASE BankOf(addr) = "clock"
  <2>1. r \in ReadClock(addr, n)
    BY <1>7 DEF Reads
  <2> QED
    BY <1>1, <2>1 DEF ReadClock
<1>8. CASE BankOf(addr) = "nallePuh"
  <2>1. r \in ReadCustom(addr, n)
    BY <1>8 DEF Reads
  <2>2. r \in ReadBusTwice(addr) \/ r = PUHRead(addr) \/ r \in Plainly({})
    <3> HIDE DEF ReadBusTwice, PUHRead, Plainly
    <3>1. n = 4 => r \in ReadBusTwice(addr)
      BY <2>1 DEF ReadCustom
    <3>2. n = 2 => r = PUHRead(addr)
      BY <2>1 DEF ReadCustom
    <3>3. n = 1 => r \in Plainly({})
      BY <2>1 DEF ReadCustom
    <3> QED
      BY <3>1, <3>2, <3>3
  <2> QED
    BY <1>1, <1>3, <1>4, <2>2
<1>9. CASE BankOf(addr) \notin {"chipmem", "cia", "clock", "nallePuh"}
  BY <1>1, <1>9 DEF Reads
<1> QED
  BY <1>5, <1>6, <1>7, <1>8, <1>9

\* and a write none but what it reaches.
LEMMA WriteKeepsChip ==
  ASSUME DOMAIN content = Places, NEW addr, NEW n, NEW v, Write(addr, n, v)
  PROVE  /\ DOMAIN content' = Places
         /\ \A c \in Places : c \notin Reached(addr, n) => content'[c] = content[c]
<1>1. CASE BankOf(addr) = "chipmem"
  BY <1>1 DEF Write, WriteChip
<1>2. CASE BankOf(addr) = "cia"
  BY <1>2 DEF Write, WriteCia
<1>3. CASE BankOf(addr) = "clock"
  BY <1>3 DEF Write, WriteClock
<1>4. CASE BankOf(addr) = "nallePuh"
  BY <1>4 DEF Write, WriteCustom
<1>5. CASE BankOf(addr) \notin {"chipmem", "cia", "clock", "nallePuh"}
  BY <1>5 DEF Write
<1> QED
  BY <1>1, <1>2, <1>3, <1>4, <1>5

LEMMA UsesWidth ==
  ASSUME NEW p \in Programs, NEW u \in Uses(p)
  PROVE  u.n \in {1, 2, 4}
<1>1. \E v \in MemoryUses \cup DeviceUses : u.n = Bytes[v.width]
  BY DEF Uses
<1>2. \A v \in MemoryUses \cup DeviceUses : v.width \in DOMAIN Bytes
  BY MemoryAssumption
<1>3. \A w \in DOMAIN Bytes : Bytes[w] \in {1, 2, 4}
  BY DEF Bytes
<1> QED
  BY <1>1, <1>2, <1>3

\* What a program is in the middle of is still its own affair: it holds the memory,
\* and what it has read there is what is there.
Unspoilt(p) ==
  acc[p] # NoAccess =>
    /\ acc[p].use \in Uses(p)
    /\ DOMAIN acc[p].seen = Reached(acc[p].use.addr, acc[p].use.n)
    /\ \A c \in DOMAIN acc[p].seen : c[1] = "chip" => content[c] = acc[p].seen[c]

KeepInv ==
  /\ DOMAIN content = Places /\ DOMAIN acc = Programs
  /\ Orderly => (\A c \in raced : c[1] # "chip") /\ \A p \in Programs : Unspoilt(p)

LEMMA ReachedPlaces ==
  ASSUME NEW addr, NEW n
  PROVE  Reached(addr, n) \subseteq Places
BY DEF Reached, Addressed

\* Others are not disturbed by a program that touches no chip memory but its own.
LEMMA OthersUnspoilt ==
  ASSUME NEW p \in Programs, NEW q \in Programs, p # q, held \in [Programs -> SUBSET Entries], Apart,
         Unspoilt(q), acc'[q] = acc[q], held' = held, NEW u \in Uses(p),
         \A c \in Places : c[1] = "chip" /\ c \notin Reached(u.addr, u.n) => content'[c] = content[c]
  PROVE  Unspoilt(q)'
<1> SUFFICES ASSUME acc[q] # NoAccess
             PROVE  /\ acc[q].use \in Uses(q)'
                    /\ DOMAIN acc[q].seen = Reached(acc[q].use.addr, acc[q].use.n)
                    /\ \A c \in DOMAIN acc[q].seen : c[1] = "chip" => content'[c] = acc[q].seen[c]
  BY DEF Unspoilt
<1> DEFINE a == acc[q]
<1>1. /\ a.use \in Uses(q) /\ DOMAIN a.seen = Reached(a.use.addr, a.use.n)
      /\ \A c \in DOMAIN a.seen : c[1] = "chip" => content[c] = a.seen[c]
  BY DEF Unspoilt
<1>2. Uses(q)' = Uses(q)
  BY DEF Uses
<1> HIDE DEF a
<1>3. \A c \in DOMAIN a.seen : c \in Places /\ (c[1] = "chip" => c \notin Reached(u.addr, u.n))
  BY <1>1, NotShared, ReachedPlaces
<1> QED
  BY <1>1, <1>2, <1>3 DEF a

LEMMA OrderlyBefore ==
  ASSUME [AllocNext]_allocVars, Orderly'
  PROVE  Orderly
<1>1. CASE UNCHANGED allocVars
  BY <1>1 DEF allocVars, Orderly
<1>2. CASE AllocNext
  <2>1. PICK p \in Programs : BeginAlloc(p) \/ Continue(p) \/ GiveBack(p)
    BY <1>2 DEF AllocNext
  <2>2. ASSUME NEW size \in Sizes, Find(p, size) PROVE Orderly
    BY <2>2 DEF Find, Orderly, Overlaps, grow_mem_list
  <2>3. ASSUME NEW b \in held[p], Free(p, b) PROVE Orderly
    BY <2>3 DEF Free, Orderly, Overlaps
  <2>4. ASSUME UNCHANGED <<overlapped, astray>> PROVE Orderly
    BY <2>4 DEF Orderly
  <2> QED
    BY <2>1, <2>2, <2>3, <2>4 DEF BeginAlloc, Continue, GiveBack, Take, Return, AllocVec, FreeVec
<1> QED
  BY <1>1, <1>2

LEMMA KeepInvInit ==
  ASSUME Init
  PROVE  KeepInv
BY DEF Init, KeepInv, AtReset, Unspoilt

LEMMA KeepInvStep ==
  ASSUME AllocInv, KeepInv, [Next]_vars
  PROVE  KeepInv'
<1>1. Orderly' => Orderly
  BY OrderlyBefore, ProgramsKeepOut
<1>2. Orderly => Apart /\ held \in [Programs -> SUBSET Entries]
  BY OrderlyApart DEF AllocInv, ExecInv, VirtInv, Shape
<1>3. ASSUME NEW p \in Programs, Allocating(p) PROVE KeepInv'
  <2>1. acc[p] = NoAccess /\ UNCHANGED <<content, acc, raced>>
    BY <1>3 DEF Allocating
  <2>2. ASSUME Orderly, NEW q \in Programs PROVE Unspoilt(q)'
    <3>1. CASE q = p
      BY <2>1, <3>1 DEF Unspoilt
    <3>2. CASE q # p
      <4>1. held'[q] = held[q]
        BY <1>2, <1>3, <2>2, <3>2 DEF Allocating, BeginAlloc, Continue, GiveBack, Find, Take, Return, Free,
                                     AllocVec, FreeVec
      <4>2. Uses(q)' = Uses(q)
        BY <4>1 DEF Uses
      <4> QED
        BY <2>1, <2>2, <4>2 DEF KeepInv, Unspoilt
    <3> QED
      BY <3>1, <3>2
  <2> QED
    BY <1>1, <2>1, <2>2 DEF KeepInv
<1>4. ASSUME NEW p \in Programs, NEW u \in Uses(p), UNCHANGED allocVars,
             DOMAIN content' = Places, DOMAIN acc' = Programs,
             \A q \in Programs \ {p} : acc'[q] = acc[q],
             \A c \in Places : c[1] = "chip" /\ c \notin Reached(u.addr, u.n) => content'[c] = content[c],
             Orderly => (\A c \in raced' : c[1] # "chip") /\ Unspoilt(p)'
      PROVE  KeepInv'
  <2>1. held' = held /\ Orderly' = Orderly
    BY <1>4 DEF allocVars, Orderly
  <2>2. ASSUME Orderly, NEW q \in Programs \ {p} PROVE Unspoilt(q)'
    BY <1>2, <1>4, <2>1, <2>2, OthersUnspoilt DEF KeepInv
  <2> QED
    BY <1>4, <2>1, <2>2 DEF KeepInv
<1>5. ASSUME NEW p \in Programs, NEW u \in Uses(p), BitGet(p, u) PROVE KeepInv'
  <2>1. PICK r \in Reads(u.addr, u.n) :
          /\ content' = r.content
          /\ acc' = [acc EXCEPT ![p] = [at |-> "put", use |-> u, value |-> r.value,
                                        seen |-> [c \in Reached(u.addr, u.n) |-> r.content[c]]]]
          /\ raced' = raced \cup {c \in Reached(u.addr, u.n) :
                                    r.content[c] # content[c] \/ (c \in WriteOnly /\ u.n = 4)}
    BY <1>5 DEF BitGet
  <2>2. UNCHANGED allocVars
    BY <1>5 DEF BitGet
  <2>3. DOMAIN content' = Places /\ \A c \in Places : c[1] = "chip" => content'[c] = content[c]
    BY <2>1, UsesWidth, ReadKeepsChip DEF KeepInv
  <2>4. \A c \in raced' : c[1] = "chip" => c \in raced
    <3>1. \A c \in WriteOnly : c[1] # "chip"
      BY DEF WriteOnly
    <3> QED
      BY <2>1, <2>3, <3>1, ReachedPlaces
  <2>5. /\ DOMAIN acc' = Programs /\ \A q \in Programs \ {p} : acc'[q] = acc[q]
        /\ acc'[p].use = u /\ acc'[p].seen = [c \in Reached(u.addr, u.n) |-> content'[c]]
    BY <2>1 DEF KeepInv
  <2>6. Uses(p)' = Uses(p)
    BY <2>2 DEF allocVars, Uses
  <2>7. Unspoilt(p)'
    BY <2>5, <2>6 DEF Unspoilt
  <2> QED
    BY <1>4, <2>2, <2>3, <2>4, <2>5, <2>7 DEF KeepInv
<1>6. ASSUME NEW p \in Programs, BitPut(p) PROVE KeepInv'
  <2> DEFINE a == acc[p]
             u == a.use
  <2>1. /\ a # NoAccess
        /\ Write(u.addr, u.n, Changed(u.op, a.value, u.bit))
        /\ raced' = raced \cup {c \in DOMAIN a.seen : content[c] # a.seen[c]}
        /\ acc' = [acc EXCEPT ![p] = NoAccess]
        /\ UNCHANGED allocVars
    BY <1>6 DEF BitPut
  <2>2. DOMAIN content' = Places /\ \A c \in Places : c \notin Reached(u.addr, u.n) => content'[c] = content[c]
    <3> HIDE DEF u
    <3> QED
      BY <2>1, WriteKeepsChip DEF KeepInv
  <2>3. /\ DOMAIN acc' = Programs /\ \A q \in Programs \ {p} : acc'[q] = acc[q]
        /\ Unspoilt(p)'
    BY <2>1 DEF KeepInv, Unspoilt
  <2>4. CASE Orderly
    <3>1. /\ u \in Uses(p) /\ \A c \in DOMAIN a.seen : c[1] = "chip" => content[c] = a.seen[c]
      BY <2>1, <2>4 DEF KeepInv, Unspoilt
    <3>2. \A c \in raced' : c[1] # "chip"
      BY <2>1, <2>4, <3>1 DEF KeepInv
    <3> HIDE DEF u, a
    <3> QED
      BY <1>4, <2>1, <2>2, <2>3, <3>1, <3>2
  <2>5. CASE ~Orderly
    <3>1. ~Orderly'
      BY <1>1, <2>5
    <3> QED
      BY <2>2, <2>3, <3>1 DEF KeepInv
  <2> QED
    BY <2>4, <2>5
<1>7. ASSUME NEW p \in Programs, NEW u \in Uses(p), WriteWhole(p, u) PROVE KeepInv'
  <2>1. /\ acc[p] = NoAccess /\ Write(u.addr, u.n, {u.bit})
        /\ raced' = raced \ Reached(u.addr, u.n)
        /\ UNCHANGED acc /\ UNCHANGED allocVars
    BY <1>7 DEF WriteWhole
  <2>2. DOMAIN content' = Places /\ \A c \in Places : c \notin Reached(u.addr, u.n) => content'[c] = content[c]
    BY <2>1, WriteKeepsChip DEF KeepInv
  <2>3. Unspoilt(p)'
    BY <2>1 DEF Unspoilt
  <2> QED
    BY <1>4, <2>1, <2>2, <2>3 DEF KeepInv
<1>8. ASSUME NEW p \in Programs, NEW u \in Uses(p), ReadWhole(p, u) PROVE KeepInv'
  <2>1. PICK r \in Reads(u.addr, u.n) :
          /\ content' = r.content
          /\ raced' = raced \cup {c \in Reached(u.addr, u.n) : r.content[c] # content[c]}
    BY <1>8 DEF ReadWhole
  <2>2. acc[p] = NoAccess /\ UNCHANGED acc /\ UNCHANGED allocVars
    BY <1>8 DEF ReadWhole
  <2>3. DOMAIN content' = Places /\ \A c \in Places : c[1] = "chip" => content'[c] = content[c]
    BY <2>1, UsesWidth, ReadKeepsChip DEF KeepInv
  <2>4. \A c \in raced' : c[1] = "chip" => c \in raced
    BY <2>1, <2>3, ReachedPlaces
  <2>5. Unspoilt(p)'
    BY <2>2 DEF Unspoilt
  <2> QED
    BY <1>4, <2>2, <2>3, <2>4, <2>5 DEF KeepInv
<1>9. CASE UNCHANGED vars
  <2>1. UNCHANGED <<content, acc, raced, held>> /\ Orderly' = Orderly
    BY <1>9 DEF vars, memoryVars, allocVars, Orderly
  <2>2. \A p \in Programs : Uses(p)' = Uses(p)
    BY <2>1 DEF Uses
  <2> QED
    BY <2>1, <2>2 DEF KeepInv, Unspoilt
<1>10. ASSUME NEW p \in Programs, NEW u \in Uses(p), Access(p, u) PROVE KeepInv'
  <2>1. ReadWhole(p, u) \/ WriteWhole(p, u) \/ BitGet(p, u)
    BY <1>10 DEF Access
  <2> QED
    BY <1>5, <1>7, <1>8, <2>1
<1> QED
  BY <1>3, <1>6, <1>9, <1>10 DEF Next

\* A program that changes a bit of its own chip memory reads and writes without a
\* lock; nobody comes between, since what the library's allocator, or exec's, has
\* given to two programs is never the same block: in orderly use no byte of chip
\* memory is ever written over with what another program has changed meanwhile.
THEOREM KeepsToItselfHolds == Spec => []KeepsToItself
<1>1. Init => KeepInv
  BY KeepInvInit
<1>2. AllocInv /\ KeepInv /\ [Next]_vars => KeepInv'
  BY KeepInvStep
<1>3. KeepInv => KeepsToItself
  BY DEF KeepInv, KeepsToItself
<1> QED
  BY <1>1, <1>2, <1>3, AllocInvHolds, PTL DEF Spec


-----------------------------------------------------------------------------
(***************************************************************************)
(* What the allocator never loses, not even in disorder: the types.        *)
(***************************************************************************)
Waiting == {p \in Programs : call[p].at = "found"}

AllTyped ==
  /\ virtual \in BOOLEAN /\ overlapped \in BOOLEAN /\ astray \in BOOLEAN
  /\ tab \in [Indices -> Entries] /\ used \in Nat /\ allocated \in Nat
  /\ used_blocks \subseteq 0 .. Blocks - 1
  /\ call \in [Programs -> Calls]
  /\ \A p \in Waiting : call[p].start + call[p].blocks =< Blocks
  /\ held \in [Programs -> SUBSET Entries]
  /\ \A p \in Programs : \A b \in held[p] : b.start # NoBlock
  /\ used + Cardinality(Waiting) =< MaxEntries

LEMMA WaitingNat ==
  /\ IsFiniteSet(Waiting) /\ Cardinality(Waiting) \in Nat
  /\ Cardinality(Waiting) =< Cardinality(Programs) /\ Cardinality(Programs) \in Nat
<1>1. Waiting \subseteq Programs /\ IsFiniteSet(Programs)
  BY AllocAssumption DEF Waiting
<1> QED
  BY <1>1, FS_Subset, FS_CardinalityType

LEMMA SmallestNat ==
  ASSUME NEW S \in SUBSET Nat, S # {}
  PROVE  Min(S) \in S
<1> DEFINE R == {ss \in Nat \X Nat : ss[1] < ss[2]}
<1>1. IsWellFoundedOn(R, Nat)
  BY NatLessThanWellFounded DEF OpToRel
<1> HIDE DEF R
<1>2. \E x \in S : \A y \in S : ~ (<<y, x>> \in R)
  BY <1>1, WFMin
<1>3. \A x, y \in S : ~ (<<y, x>> \in R) => x =< y
  BY DEF R
<1> QED
  BY <1>2, <1>3 DEF Min

LEMMA AnyFit ==
  ASSUME NEW n \in Nat, find_free_blocks(n) # NoBlock
  PROVE  n # 0 /\ find_free_blocks(n) \in Nat /\ find_free_blocks(n) + n =< Blocks
<1> DEFINE fits == {k \in 0 .. Blocks - n - 1 : Region([start |-> k, blocks |-> n]) \cap used_blocks = {}}
<1>1. n # 0 /\ fits # {} /\ find_free_blocks(n) = Min(fits)
  BY DEF find_free_blocks
<1>2. \A k \in fits : k \in Nat /\ k + n =< Blocks /\ k >= 0
  BY AllocAssumption
<1>3. Min(fits) \in fits
  <2>1. fits \subseteq Nat
    BY <1>2
  <2> HIDE DEF fits
  <2> QED
    BY <1>1, <2>1, SmallestNat
<1> QED
  BY <1>1, <1>2, <1>3

LEMMA FindTyped ==
  ASSUME AllTyped, NEW p \in Programs, NEW size \in Sizes, Find(p, size)
  PROVE  AllTyped'
<1> DEFINE n == BlocksFor(size)
           start == find_free_blocks(n)
<1>1. n \in Nat
  BY BlocksForNat, AllocAssumption
<1>2. start # NoBlock => n # 0 /\ start \in Nat /\ start + n =< Blocks
  <2> HIDE DEF n
  <2> QED
    BY <1>1, AnyFit
<1>3. \/ call' = [call EXCEPT ![p] = Found(start, n)] /\ start # NoBlock
      \/ call' = [call EXCEPT ![p] = Outside]
  BY DEF Find
<1> HIDE DEF n, start
<1>4. call' \in [Programs -> Calls]
  <2>1. start # NoBlock => Found(start, n) \in Calls
    BY <1>1, <1>2 DEF Found, Calls
  <2>2. Outside \in Calls
    BY DEF Calls
  <2> QED
    BY <1>3, <2>1, <2>2 DEF AllTyped
<1>5. \A q \in Waiting' : call'[q].start + call'[q].blocks =< Blocks
  <2> SUFFICES ASSUME NEW q \in Programs, call'[q].at = "found"
               PROVE  call'[q].start + call'[q].blocks =< Blocks
    BY DEF Waiting
  <2>1. CASE q # p
    <3>1. call'[q] = call[q]
      BY <1>3, <2>1 DEF AllTyped
    <3> QED
      BY <3>1 DEF AllTyped, Waiting
  <2>2. CASE q = p
    <3>1. call'[q] = Found(start, n) /\ start # NoBlock
      BY <1>3, <2>2 DEF AllTyped, Outside
    <3> QED
      BY <1>2, <3>1 DEF Found
  <2> QED
    BY <2>1, <2>2
<1>6. used' + Cardinality(Waiting') =< MaxEntries
  <2>1. Cardinality(Waiting') =< Cardinality(Programs) /\ Cardinality(Waiting') \in Nat /\ Cardinality(Programs) \in Nat
    <3>1. Waiting' \subseteq Programs /\ IsFiniteSet(Programs)
      BY AllocAssumption DEF Waiting
    <3> QED
      BY <3>1, FS_Subset, FS_CardinalityType
  <2>2. used' = used /\ used + Cardinality(Programs) =< MaxEntries /\ used \in Nat /\ MaxEntries \in Nat
    BY AllocAssumption DEF Find, AllTyped
  <2> QED
    BY <2>1, <2>2
<1>7. tab' \in [Indices -> Entries] /\ allocated' \in Nat /\ astray' \in BOOLEAN
  <2>1. CASE UNCHANGED <<tab, allocated, astray>>
    BY <2>1 DEF AllTyped
  <2>2. CASE grow_mem_list
    <3>1. CASE \E junk \in Junk : /\ tab' = [i \in Indices |-> junk]
                                  /\ allocated' = allocated + GrowBy
                                  /\ astray' = (astray \/ used > 0)
      <4>1. tab' \in [Indices -> Entries] /\ allocated' \in Nat
        BY <3>1, AllocAssumption DEF AllTyped
      <4>2. astray' \in BOOLEAN
        BY <3>1, Zenon
      <4> QED
        BY <4>1, <4>2
    <3> QED
      BY <2>1, <2>2, <3>1 DEF grow_mem_list
  <2> QED
    BY <2>1, <2>2 DEF Find
<1>8. virtual' \in BOOLEAN
  BY Zenon DEF Find, AllTyped
<1>9. overlapped' \in BOOLEAN
  BY Zenon DEF Find, Overlaps
<1>10. UNCHANGED <<used, used_blocks, held>>
  BY DEF Find
<1> QED
  BY <1>4, <1>5, <1>6, <1>7, <1>8, <1>9, <1>10 DEF AllTyped

LEMMA TakeTyped ==
  ASSUME AllTyped, NEW p \in Programs, Take(p)
  PROVE  AllTyped'
<1> DEFINE b == [start |-> call[p].start, blocks |-> call[p].blocks]
<1>1. call[p] \in Calls /\ call[p].at = "found" /\ p \in Waiting
  BY DEF Take, AllTyped, Waiting
<1>2. /\ call[p].start \in Nat /\ call[p].blocks \in Nat \ {0}
      /\ call[p].start + call[p].blocks =< Blocks
  BY <1>1 DEF Calls, Outside, AllTyped
<1>3. b \in Entries /\ Region(b) \subseteq 0 .. Blocks - 1
  BY <1>2, AllocAssumption DEF Entries, Region
<1>4. /\ tab' = [tab EXCEPT ![used] = b] /\ used_blocks' = used_blocks \cup Region(b)
      /\ used' = used + 1 /\ call' = [call EXCEPT ![p] = Taken(call[p].blocks)]
      /\ UNCHANGED <<virtual, allocated, held, overlapped, astray>>
  BY DEF Take
<1> HIDE DEF b
<1>5. tab' \in [Indices -> Entries] /\ used' \in Nat /\ used_blocks' \subseteq 0 .. Blocks - 1
  <2>1. tab \in [Indices -> Entries] /\ used \in Nat /\ used_blocks \subseteq 0 .. Blocks - 1
    BY DEF AllTyped
  <2>2. tab' \in [Indices -> Entries]
    BY <1>3, <1>4, <2>1
  <2>3. used_blocks' \subseteq 0 .. Blocks - 1
    BY <1>3, <1>4, <2>1, Zenon
  <2>4. used' \in Nat
    BY <1>4, <2>1
  <2> QED
    BY <2>2, <2>3, <2>4
<1>6. Taken(call[p].blocks) \in Calls /\ Taken(call[p].blocks).at # "found"
  BY <1>2 DEF Taken, Calls
<1>7. call' \in [Programs -> Calls]
  BY <1>4, <1>6 DEF AllTyped
<1>8. Waiting' = Waiting \ {p} /\ \A q \in Waiting' : call'[q] = call[q]
  BY <1>1, <1>4, <1>6 DEF Waiting, AllTyped
<1>9. Cardinality(Waiting') = Cardinality(Waiting) - 1
  <2> HIDE DEF Waiting
  <2> QED
    BY <1>1, <1>8, WaitingNat, FS_RemoveElement
<1>10. used' + Cardinality(Waiting') =< MaxEntries
  BY <1>4, <1>9, WaitingNat, AllocAssumption DEF AllTyped
<1>11. \A q \in Waiting' : call'[q].start + call'[q].blocks =< Blocks
  BY <1>8 DEF AllTyped
<1> QED
  BY <1>4, <1>5, <1>7, <1>10, <1>11 DEF AllTyped

LEMMA ReturnTyped ==
  ASSUME AllTyped, NEW p \in Programs, Return(p)
  PROVE  AllTyped'
<1>1. call[p] \in Calls /\ call[p].at = "taken"
  BY DEF Return, AllTyped
<1>2. call[p].blocks \in Nat
  BY <1>1 DEF Calls, Outside
<1>3. PICK start \in IF used > 0 THEN {tab[used - 1].start} ELSE 0 .. Blocks - 1 :
        held' = [held EXCEPT ![p] = held[p] \cup Given(start, call[p].blocks)]
  BY DEF Return
<1>4. start \in {NoBlock} \cup (0 .. Blocks - 1)
  <2>1. CASE used > 0
    <3>1. used - 1 \in Indices
      <4>1. used =< MaxEntries /\ used \in Nat /\ MaxEntries \in Nat
        BY WaitingNat, AllocAssumption DEF AllTyped
      <4> QED
        BY <2>1, <4>1 DEF Indices
    <3>2. tab[used - 1] \in Entries
      BY <3>1 DEF AllTyped
    <3> QED
      BY <1>3, <2>1, <3>2 DEF Entries
  <2> QED
    BY <1>3, <2>1
<1>5. \A b \in Given(start, call[p].blocks) : b \in Entries /\ b.start # NoBlock
  BY <1>2, <1>4 DEF Given, Entries
<1>6. held' \in [Programs -> SUBSET Entries] /\ \A q \in Programs : \A b \in held'[q] : b.start # NoBlock
  BY <1>3, <1>5 DEF AllTyped
<1>7. call' = [call EXCEPT ![p] = Outside] /\ UNCHANGED <<virtual, tab, used, allocated, used_blocks, overlapped, astray>>
  BY DEF Return
<1>8. call' \in [Programs -> Calls]
  BY <1>7 DEF AllTyped, Calls
<1>9. Waiting' = Waiting /\ \A q \in Waiting : call'[q] = call[q]
  BY <1>1, <1>7 DEF Waiting, AllTyped, Outside
<1> QED
  BY <1>6, <1>7, <1>8, <1>9 DEF AllTyped

LEMMA FreeTyped ==
  ASSUME AllTyped, NEW p \in Programs, NEW b \in held[p], Free(p, b)
  PROVE  AllTyped'
<1> DEFINE matching == {i \in 0 .. used - 1 : tab[i].start = b.start}
           n        == Min(matching)
           end      == tab[n].start + tab[n].blocks
<1>1. CASE matching = {}
  <2>1. astray' = TRUE /\ UNCHANGED <<tab, used, used_blocks>>
    BY <1>1 DEF Free
  <2>2. held' = [held EXCEPT ![p] = held[p] \ {b}] /\ UNCHANGED <<virtual, allocated, call>> /\ Overlaps
    BY DEF Free
  <2>3. overlapped' \in BOOLEAN
    BY <2>2, Zenon DEF Overlaps
  <2>4. held' \in [Programs -> SUBSET Entries] /\ \A q \in Programs : held'[q] \subseteq held[q]
    BY <2>2 DEF AllTyped
  <2> QED
    BY <2>1, <2>2, <2>3, <2>4 DEF AllTyped, Waiting
<1>2. CASE matching # {}
  <2>1. /\ used_blocks' = used_blocks \ Region(tab[n])
        /\ used' = used - 1
        /\ tab' = [i \in Indices |-> IF end =< i /\ i < used - 1 THEN tab[i + 1] ELSE tab[i]]
        /\ astray' = (astray \/ n # used - 1)
    BY <1>2 DEF Free
  <2>2. held' = [held EXCEPT ![p] = held[p] \ {b}] /\ UNCHANGED <<virtual, allocated, call>> /\ Overlaps
    BY DEF Free
  <2>3. used \in Nat /\ used > 0 /\ used =< MaxEntries /\ MaxEntries \in Nat
    <3>1. used =< MaxEntries /\ used \in Nat /\ MaxEntries \in Nat
      BY WaitingNat, AllocAssumption DEF AllTyped
    <3> QED
      BY <1>2, <3>1
  <2> HIDE DEF n, end, matching
  <2>4. overlapped' \in BOOLEAN /\ astray' \in BOOLEAN
    BY <2>1, <2>2, Zenon DEF Overlaps
  <2>5. held' \in [Programs -> SUBSET Entries] /\ \A q \in Programs : held'[q] \subseteq held[q]
    BY <2>2 DEF AllTyped
  <2>6. tab' \in [Indices -> Entries]
    <3>1. \A i \in Indices : i < used - 1 => i + 1 \in Indices
      BY <2>3 DEF Indices
    <3>2. \A i \in Indices : (IF end =< i /\ i < used - 1 THEN tab[i + 1] ELSE tab[i]) \in Entries
      BY <3>1 DEF AllTyped
    <3> QED
      BY <2>1, <3>2
  <2>7. Waiting' = Waiting
    BY <2>2 DEF Waiting
  <2>8. used' + Cardinality(Waiting') =< MaxEntries
    BY <2>1, <2>3, <2>7, WaitingNat DEF AllTyped
  <2>9. virtual' \in BOOLEAN
    BY <2>2, Zenon DEF AllTyped
  <2>10. used' \in Nat /\ allocated' \in Nat
    BY <2>1, <2>2, <2>3 DEF AllTyped
  <2>13. used_blocks' \subseteq 0 .. Blocks - 1
    BY <2>1, Zenon DEF AllTyped
  <2>11. call' \in [Programs -> Calls] /\ \A q \in Waiting' : call'[q].start + call'[q].blocks =< Blocks
    BY <2>2, <2>7 DEF AllTyped
  <2>12. \A q \in Programs : \A c \in held'[q] : c.start # NoBlock
    BY <2>5 DEF AllTyped
  <2> QED
    BY <2>4, <2>5, <2>6, <2>8, <2>9, <2>10, <2>11, <2>12, <2>13 DEF AllTyped
<1> QED
  BY <1>1, <1>2

LEMMA VecTyped ==
  ASSUME AllTyped, NEW p \in Programs,
         \/ \E size \in Sizes : AllocVec(p, size)
         \/ \E b \in held[p] : FreeVec(p, b)
  PROVE  AllTyped'
<1>1. UNCHANGED <<virtual, tab, used, allocated, used_blocks, call, overlapped, astray>>
  BY DEF AllocVec, FreeVec
<1>2. ASSUME NEW size \in Sizes, AllocVec(p, size)
      PROVE  held' \in [Programs -> SUBSET Entries] /\ \A q \in Programs : \A b \in held'[q] : b.start # NoBlock
  <2> DEFINE n == BlocksFor(size)
  <2>1. n \in Nat /\ Blocks \in Nat
    BY BlocksForNat, AllocAssumption
  <2> HIDE DEF n
  <2>2. PICK start \in 0 .. Blocks - n :
          n > 0 /\ held' = [held EXCEPT ![p] = held[p] \cup {[start |-> start, blocks |-> n]}]
    BY <1>2 DEF AllocVec, n
  <2>3. [start |-> start, blocks |-> n] \in Entries /\ start # NoBlock
    BY <2>1, <2>2 DEF Entries, NoBlock
  <2> QED
    BY <2>2, <2>3 DEF AllTyped
<1>3. ASSUME NEW b \in held[p], FreeVec(p, b)
      PROVE  held' \in [Programs -> SUBSET Entries] /\ \A q \in Programs : \A c \in held'[q] : c.start # NoBlock
  BY <1>3 DEF FreeVec, AllTyped
<1> QED
  BY <1>1, <1>2, <1>3 DEF AllTyped, Waiting

LEMMA AllTypedInit == AllocInit => AllTyped
<1> SUFFICES ASSUME AllocInit PROVE AllTyped
  OBVIOUS
<1>1. \A p \in Programs : call[p] = Outside
  BY DEF AllocInit
<1>2. Waiting = {}
  BY <1>1 DEF Waiting, Outside
<1>3. Cardinality(Waiting) = 0
  BY <1>2, FS_EmptySet
<1>4. tab \in [Indices -> Entries]
  BY DEF AllocInit, Entries, NoBlock
<1>5. Outside \in Calls
  BY DEF Calls
<1>6. virtual \in BOOLEAN /\ overlapped \in BOOLEAN /\ astray \in BOOLEAN
  BY Zenon DEF AllocInit
<1>7. /\ used = 0 /\ allocated = 0 /\ used_blocks = {} /\ MaxEntries \in Nat
      /\ call \in [Programs -> Calls]
      /\ held \in [Programs -> SUBSET Entries] /\ \A p \in Programs : held[p] = {}
  BY <1>5, AllocAssumption DEF AllocInit
<1> QED
  BY <1>2, <1>3, <1>4, <1>6, <1>7 DEF AllTyped

LEMMA AllTypedStep == AllTyped /\ [AllocNext]_allocVars => AllTyped'
<1> SUFFICES ASSUME AllTyped, [AllocNext]_allocVars PROVE AllTyped'
  OBVIOUS
<1>1. CASE UNCHANGED allocVars
  BY <1>1 DEF allocVars, AllTyped, Waiting
<1>2. CASE AllocNext
  <2>1. PICK p \in Programs : BeginAlloc(p) \/ Continue(p) \/ GiveBack(p)
    BY <1>2 DEF AllocNext
  <2> QED
    BY <2>1, FindTyped, TakeTyped, ReturnTyped, FreeTyped, VecTyped DEF BeginAlloc, Continue, GiveBack
<1> QED
  BY <1>1, <1>2

LEMMA AllTypedHolds == Spec => []AllTyped
<1>1. Init => AllTyped
  BY AllTypedInit DEF Init
<1>2. AllTyped /\ [Next]_vars => AllTyped'
  BY AllTypedStep, ProgramsKeepOut
<1> QED
  BY <1>1, <1>2, PTL DEF Spec

(***************************************************************************)
(* The bits of words and longs.                                            *)
(***************************************************************************)
Width == {1, 2, 4}

\* Bit b of byte i counted from the left is bit `at` of the whole, and no other.
LEMMA BitAt ==
  ASSUME NEW n \in Width, NEW i \in 0 .. n - 1, NEW b \in Bits, NEW bit \in Nat
  PROVE  /\ 8 * (n - 1 - i) + b \in 0 .. 8 * n - 1
         /\ (8 * (n - 1 - i) + b) % 8 = b /\ n - 1 - (8 * (n - 1 - i) + b) \div 8 = i
         /\ 8 * (n - 1 - i) + b = bit <=> bit < 8 * n /\ i = n - 1 - bit \div 8 /\ b = bit % 8
<1>1. CASE n = 1
  BY <1>1 DEF Bits
<1>2. CASE n = 2
  BY <1>2 DEF Bits
<1>3. CASE n = 4
  BY <1>3 DEF Bits
<1> QED
  BY <1>1, <1>2, <1>3 DEF Width

\* What is put together from bytes has these bytes.
LEMMA BytesPutTogether ==
  ASSUME NEW n \in Width, NEW i \in 0 .. n - 1, NEW bytes, bytes[i] \subseteq Bits
  PROVE  ByteOf(OfBytes(n, bytes), n, i) = bytes[i]
<1>1. ASSUME NEW b \in Bits PROVE 8 * (n - 1 - i) + b \in OfBytes(n, bytes) <=> b \in bytes[i]
  <2> DEFINE k == 8 * (n - 1 - i) + b
  <2>1. k \in 0 .. 8 * n - 1 /\ k % 8 = b /\ n - 1 - k \div 8 = i
    BY BitAt
  <2> HIDE DEF k
  <2>2. k \in OfBytes(n, bytes) <=> b \in bytes[i]
    BY <2>1 DEF OfBytes
  <2> QED
    BY <2>2 DEF k
<1> QED
  BY <1>1 DEF ByteOf

LEMMA HasChanged ==
  ASSUME NEW op \in {"Chg", "Set", "Clr"}, NEW v, NEW x, NEW b
  PROVE  b \in Changed(op, v, x) <=>
           IF b = x THEN op = "Set" \/ (op = "Chg" /\ b \notin v) ELSE b \in v
<1>1. CASE op = "Chg"
  <2>1. Changed(op, v, x) = (v \ {x}) \cup ({x} \ v)
    BY <1>1 DEF Changed
  <2> QED
    BY <1>1, <2>1
<1>2. CASE op = "Set"
  <2>1. Changed(op, v, x) = v \cup {x}
    BY <1>2 DEF Changed
  <2> QED
    BY <1>2, <2>1
<1>3. CASE op = "Clr"
  <2>1. Changed(op, v, x) = v \ {x}
    BY <1>3 DEF Changed
  <2> QED
    BY <1>3, <2>1
<1> QED
  BY <1>1, <1>2, <1>3

\* A changed bit is a changed bit of one of the bytes.
LEMMA ByteChanged ==
  ASSUME NEW n \in Width, NEW i \in 0 .. n - 1, NEW bit \in Nat, NEW v,
         NEW op \in {"Chg", "Set", "Clr"}
  PROVE  ByteOf(Changed(op, v, bit), n, i) =
           IF bit < 8 * n /\ i = n - 1 - bit \div 8 THEN Changed(op, ByteOf(v, n, i), bit % 8)
           ELSE ByteOf(v, n, i)
<1> DEFINE at(b) == 8 * (n - 1 - i) + b
           here == bit < 8 * n /\ i = n - 1 - bit \div 8
           x == bit % 8
<1>1. \A b \in Bits : at(b) = bit <=> here /\ b = x
  BY BitAt
<1>2. x \in Bits
  BY DEF Bits
<1>3. \A w, b : b \in ByteOf(w, n, i) <=> b \in Bits /\ at(b) \in w
  BY DEF ByteOf
<1>4. \A b : at(b) \in Changed(op, v, bit) <=>
               IF at(b) = bit THEN op = "Set" \/ (op = "Chg" /\ at(b) \notin v) ELSE at(b) \in v
  BY HasChanged
<1>5. \A b : b \in Changed(op, ByteOf(v, n, i), x) <=>
               IF b = x THEN op = "Set" \/ (op = "Chg" /\ b \notin ByteOf(v, n, i)) ELSE b \in ByteOf(v, n, i)
  BY HasChanged
<1> HIDE DEF at, here, x
<1>6. ASSUME here, NEW b
      PROVE  b \in ByteOf(Changed(op, v, bit), n, i) <=> b \in Changed(op, ByteOf(v, n, i), x)
  BY <1>1, <1>2, <1>3, <1>4, <1>5, <1>6
<1>7. ASSUME ~here, NEW b
      PROVE  b \in ByteOf(Changed(op, v, bit), n, i) <=> b \in ByteOf(v, n, i)
  BY <1>1, <1>3, <1>4, <1>7
<1>8. here => ByteOf(Changed(op, v, bit), n, i) = Changed(op, ByteOf(v, n, i), x)
  BY <1>6
<1>9. ~here => ByteOf(Changed(op, v, bit), n, i) = ByteOf(v, n, i)
  BY <1>7
<1> QED
  BY <1>8, <1>9 DEF here, x

LEMMA ByteOfOne ==
  ASSUME NEW n \in Width, NEW i \in 0 .. n - 1, NEW bit \in Nat
  PROVE  ByteOf({bit}, n, i) = {b \in Bits : bit < 8 * n /\ i = n - 1 - bit \div 8 /\ b = bit % 8}
<1>1. \A b \in Bits : 8 * (n - 1 - i) + b = bit <=> bit < 8 * n /\ i = n - 1 - bit \div 8 /\ b = bit % 8
  BY BitAt
<1> QED
  BY <1>1 DEF ByteOf

(***************************************************************************)
(* Which bit an access means, and which place it reaches.                  *)
(***************************************************************************)
\* What an access of the custom registers can mean.
CustomMeant(addr, n, bit, moves) ==
  /\ n = 1 => moves = {}
  /\ n = 2 => LET c == <<"custom", addr % 512>>
              IN  moves = Moves(c, IF c \in ReadOnly THEN {} ELSE Word, bit)
  /\ n = 4 => \A c \in Places, b \in Word : <<c, b>> \in moves => c \in Reached(addr, 4) \cap WriteOnly

\* What u means is the bit that the bank it reaches changes.
RightUse(u) ==
  /\ u.addr \in Nat /\ u.n \in Width /\ u.bit \in Nat /\ u.op \in {"Chg", "Set", "Clr", "Write"}
  /\ u.op = "Write" => BankOf(u.addr) = "chipmem"
  /\ BankOf(u.addr) = "chipmem" => u.moves = BitOf(u.addr, u.n, u.bit)
  /\ BankOf(u.addr) = "cia" =>
       u.moves = Moves(CiaPlace(u.addr, u.n), Settable(CiaPlace(u.addr, u.n)), u.bit)
  /\ BankOf(u.addr) = "clock" =>
       u.moves = Moves(<<"clock", (u.addr + u.n - 1) % 64>>, IF u.n = 1 THEN Bits ELSE {}, u.bit)
  /\ BankOf(u.addr) = "nallePuh" => CustomMeant(u.addr, u.n, u.bit, u.moves)
  /\ BankOf(u.addr) \in {"chipmem", "cia", "clock", "nallePuh"}

LEMMA BanksAre ==
  /\ \A k \in 0 .. 159 : mem_banks[k] = "chipmem"
  /\ \A k \in 160 .. 191 : mem_banks[k] = "cia"
  /\ mem_banks[220] = "clock" /\ mem_banks[223] = "nallePuh"
<1> DEFINE b0 == init_mem_banks(255)
           b1 == map_banks(b0, "chipmem", 0, 255)
           b2 == map_banks(b1, "cia", 160, 32)
           b3 == map_banks(b2, "clock", 220, 1)
           b4 == map_banks(b3, "nallePuh", 223, 1)
<1>1. mem_banks = b4
  BY DEF mem_banks, setup_mem_banks
<1>2. DOMAIN b0 = 0 .. 254
  BY DEF init_mem_banks
<1>3. ASSUME NEW banks, NEW bank, NEW start \in Nat, NEW size \in Nat, DOMAIN banks = 0 .. 254
      PROVE  /\ DOMAIN map_banks(banks, bank, start, size) = 0 .. 254
             /\ \A k \in 0 .. 254 : map_banks(banks, bank, start, size)[k] =
                                      IF start =< k /\ k < start + size THEN bank ELSE banks[k]
  BY <1>3 DEF map_banks
<1> HIDE DEF b0, b1, b2, b3, b4
<1>4. DOMAIN b1 = 0 .. 254
  BY <1>2, <1>3 DEF b1
<1>5. DOMAIN b2 = 0 .. 254
  BY <1>4, <1>3 DEF b2
<1>6. DOMAIN b3 = 0 .. 254
  BY <1>5, <1>3 DEF b3
<1>7. \A k \in 0 .. 254 : b1[k] = "chipmem"
  BY <1>2, <1>3 DEF b1
<1>8. \A k \in 0 .. 254 : b2[k] = IF 160 =< k /\ k < 192 THEN "cia" ELSE b1[k]
  BY <1>4, <1>3 DEF b2
<1>9. \A k \in 0 .. 254 : b3[k] = IF k = 220 THEN "clock" ELSE b2[k]
  BY <1>5, <1>3 DEF b3
<1>10. \A k \in 0 .. 254 : b4[k] = IF k = 223 THEN "nallePuh" ELSE b3[k]
  BY <1>6, <1>3 DEF b4
<1> QED
  BY <1>1, <1>7, <1>8, <1>9, <1>10

LEMMA BlockEnds ==
  ASSUME NEW B \in Nat, NEW a \in Nat, NEW b \in Nat, a < b
  PROVE  a * B + B =< b * B
<1> DEFINE d == b - a - 1
<1>1. d \in Nat /\ b = (a + 1) + d
  OBVIOUS
<1> HIDE DEF d
<1>2. b * B = (a + 1) * B + d * B
  BY <1>1
<1>3. (a + 1) * B = a * B + B
  OBVIOUS
<1>4. d * B \in Nat /\ a * B \in Nat /\ b * B \in Nat
  BY <1>1
<1> QED
  BY <1>2, <1>3, <1>4

\* The memory a program has been given is where the chip memory's bank is.
LEMMA MemoryRight ==
  ASSUME AllTyped, NEW p \in Programs, NEW b \in held[p], NEW v \in MemoryUses
  PROVE  /\ b.start * BlockSize + v.offset \in Nat
         /\ BankOf(b.start * BlockSize + v.offset) = "chipmem"
<1>1. b.start \in Nat /\ b.start < Blocks /\ Blocks \in Nat /\ BlockSize \in Nat
  BY AllocAssumption DEF AllTyped, Entries
<1>2. v.offset \in Nat /\ Bytes[v.width] \in Nat /\ Bytes[v.width] > 0 /\ v.offset + Bytes[v.width] =< BlockSize
  BY MemoryAssumption DEF Bytes
<1>3. v.offset < BlockSize
  <2> HIDE DEF Bytes
  <2> QED
    BY <1>1, <1>2
<1>4. b.start * BlockSize + BlockSize =< Blocks * BlockSize /\ b.start * BlockSize \in Nat /\ Blocks * BlockSize \in Nat
  BY <1>1, BlockEnds
<1> DEFINE addr == b.start * BlockSize + v.offset
<1>5. addr \in Nat /\ addr < 160 * 65536
  BY <1>1, <1>2, <1>3, <1>4, MemoryAssumption
<1> HIDE DEF addr
<1>6. addr \div 65536 \in 0 .. 159
  BY <1>5
<1> QED
  BY <1>5, <1>6, BanksAre DEF BankOf, addr

LEMMA ReachedIn ==
  ASSUME NEW addr, NEW n, NEW c \in Places
  PROVE  /\ BankOf(addr) = "chipmem"  => (c \in Reached(addr, n) <=> \E i \in 0 .. n - 1 : c = <<"chip", addr + i>>)
         /\ BankOf(addr) = "cia"      => (c \in Reached(addr, n) <=> c = CiaPlace(addr, n))
         /\ BankOf(addr) = "clock"    => (c \in Reached(addr, n) <=> c = <<"clock", (addr + n - 1) % 64>>)
         /\ BankOf(addr) = "nallePuh" => (c \in Reached(addr, n) <=> \E i \in {0, n - 2} : c = <<"custom", (addr + i) % 512>>)
<1>1. BankOf(addr) = "chipmem" => Addressed(addr, n) = {<<"chip", addr + i>> : i \in 0 .. n - 1}
  BY DEF Addressed
<1>2. BankOf(addr) = "cia" => Addressed(addr, n) = {CiaPlace(addr, n)}
  BY DEF Addressed
<1>3. BankOf(addr) = "clock" => Addressed(addr, n) = {<<"clock", (addr + n - 1) % 64>>}
  BY DEF Addressed
<1>4. BankOf(addr) = "nallePuh" => Addressed(addr, n) = {<<"custom", (addr + i) % 512>> : i \in {0, n - 2}}
  BY DEF Addressed
<1> QED
  BY <1>1, <1>2, <1>3, <1>4 DEF Reached

\* The registers of a CIA at their addresses.
LEMMA CiaAddresses ==
  ASSUME NEW r \in 0 .. 15, NEW n \in Width, NEW addr
  PROVE  /\ addr = \hBFE001 + 256 * r - (n - 1) => BankOf(addr) = "cia" /\ CiaPlace(addr, n) = <<"ciaa", r>>
         /\ addr = \hBFD000 + 256 * r - (n - 1) => BankOf(addr) = "cia" /\ CiaPlace(addr, n) = <<"ciab", r>>
<1>1. ASSUME NEW at \in {\hBFE001, \hBFD000}, addr = at + 256 * r - (n - 1)
      PROVE  addr + n - 1 = at + 256 * r /\ BankOf(addr) = "cia"
  <2>1. addr \in Nat /\ addr + n - 1 = at + 256 * r
    BY <1>1 DEF Width
  <2>2. 191 * 65536 =< addr /\ addr < 192 * 65536
    BY <1>1 DEF Width
  <2>3. addr \div 65536 = 191
    BY <2>1, <2>2
  <2> QED
    BY <2>1, <2>3, BanksAre DEF BankOf
<1>2. ASSUME addr = \hBFE001 + 256 * r - (n - 1) PROVE CiaPlace(addr, n) = <<"ciaa", r>>
  <2> DEFINE last_byte == \hBFE001 + 256 * r
  <2>1. addr + n - 1 = last_byte
    BY <1>2 DEF Width
  <2>2. (last_byte \div 256) % 16 = r /\ (last_byte \div 4096) % 4 = 2 /\ last_byte % 2 = 1
    OBVIOUS
  <2> HIDE DEF last_byte
  <2> QED
    BY <2>1, <2>2 DEF CiaPlace
<1>3. ASSUME addr = \hBFD000 + 256 * r - (n - 1) PROVE CiaPlace(addr, n) = <<"ciab", r>>
  <2> DEFINE last_byte == \hBFD000 + 256 * r
  <2>1. addr + n - 1 = last_byte
    BY <1>3 DEF Width
  <2>2. (last_byte \div 256) % 16 = r /\ (last_byte \div 4096) % 4 = 1 /\ last_byte % 2 = 0
    OBVIOUS
  <2> HIDE DEF last_byte
  <2> QED
    BY <2>1, <2>2 DEF CiaPlace
<1> QED
  BY <1>1, <1>2, <1>3, SMT

LEMMA ClockAddresses ==
  ASSUME NEW r \in 0 .. 15, NEW n \in Width, NEW addr, addr = \hDC0003 + 4 * r - (n - 1)
  PROVE  BankOf(addr) = "clock" /\ (addr + n - 1) % 64 = 3 + 4 * r
<1>1. addr \in Nat /\ addr + n - 1 = \hDC0003 + 4 * r
  BY DEF Width
<1>2. addr \div 65536 = 220
  <2>1. 220 * 65536 =< addr /\ addr < 221 * 65536
    BY DEF Width
  <2> QED
    BY <1>1, <2>1
<1>3. (\hDC0003 + 4 * r) % 64 = 3 + 4 * r
  OBVIOUS
<1> QED
  BY <1>1, <1>2, <1>3, BanksAre DEF BankOf

LEMMA CustomAddresses ==
  ASSUME NEW r \in 0 .. 508, NEW addr, addr = \hDFF000 + r
  PROVE  BankOf(addr) = "nallePuh" /\ addr % 512 = r /\ (addr + 2) % 512 = r + 2 /\ (addr + 0) % 512 = r
<1>1. addr \div 65536 = 223
  OBVIOUS
<1>2. addr % 512 = r /\ (addr + 2) % 512 = r + 2 /\ (addr + 0) % 512 = r
  OBVIOUS
<1> QED
  BY <1>1, <1>2, BanksAre DEF BankOf

customAddress(r) == \hDFF000 + r

LEMMA CustomRight ==
  ASSUME NEW r \in 0 .. 508, NEW n \in Width, NEW bit \in Nat
  PROVE  CustomMeant(customAddress(r), n, bit, CustomMoves(r, n, bit))
<1> DEFINE addr == customAddress(r)
           moves == CustomMoves(r, n, bit)
           writable(place) == IF place \in ReadOnly THEN {} ELSE Word
<1>1. n = 1 => moves = {}
  BY DEF CustomMoves
<1>2. n = 2 => moves = Moves(<<"custom", r>>, writable(<<"custom", r>>), bit)
  <2> SUFFICES ASSUME n = 2 PROVE moves = Moves(<<"custom", r>>, writable(<<"custom", r>>), bit)
    OBVIOUS
  <2>1. bit >= 16 => moves = {} /\ bit \notin Word
    BY DEF CustomMoves, Word
  <2>2. bit >= 16 => Moves(<<"custom", r>>, writable(<<"custom", r>>), bit) = {}
    BY <2>1 DEF Moves
  <2>3. bit < 16 => moves = Moves(<<"custom", r>>, writable(<<"custom", r>>), bit)
    BY DEF CustomMoves
  <2> QED
    BY <2>1, <2>2, <2>3
<1>3. n = 4 => \/ moves = {}
               \/ moves = Moves(<<"custom", r + 2>>, writable(<<"custom", r + 2>>), bit)
               \/ moves = Moves(<<"custom", r>>, writable(<<"custom", r>>), bit - 16)
  BY DEF CustomMoves
<1>4. BankOf(addr) = "nallePuh" /\ addr % 512 = r /\ (addr + 2) % 512 = r + 2 /\ (addr + 0) % 512 = r
  BY CustomAddresses DEF customAddress
<1> HIDE DEF addr
<1>5. ASSUME n = 4, NEW c \in Places, NEW b \in Word, <<c, b>> \in moves
      PROVE  c \in Reached(addr, 4) \cap WriteOnly
  <2>1. (c = <<"custom", r + 2>> \/ c = <<"custom", r>>) /\ c \notin ReadOnly
    BY <1>3, <1>5 DEF Moves
  <2>2. \E i \in {0, 4 - 2} : c = <<"custom", (addr + i) % 512>>
    BY <1>4, <2>1
  <2>3. c \in Reached(addr, 4)
    BY <1>4, <2>2, ReachedIn
  <2>4. c \in WriteOnly
    BY <2>1 DEF Places, Cells, Ports, Clock, Custom, WriteOnly
  <2> QED
    BY <2>3, <2>4
<1> HIDE DEF moves
<1>6. CustomMeant(addr, n, bit, moves)
  BY <1>1, <1>2, <1>4, <1>5 DEF CustomMeant
<1> QED
  BY <1>6 DEF moves, addr

LEMMA DeviceRight ==
  ASSUME NEW v \in DeviceUses, v.op # "Read", NEW u, NEW n,
         n = Bytes[v.width], u.n = n, u.op = v.op, u.addr = v.addr, u.bit = v.bit, u.moves = v.moves
  PROVE  RightUse(u)
<1>1. u.addr \in Nat /\ n \in Width /\ u.bit \in Nat /\ u.op \in {"Chg", "Set", "Clr"}
  <2>1. v.addr \in Nat /\ v.width \in DOMAIN Bytes /\ v.bit \in Nat /\ v.op \in {"Chg", "Set", "Clr"}
    BY MemoryAssumption
  <2>2. \A w \in DOMAIN Bytes : Bytes[w] \in Width
    BY DEF Bytes, Width
  <2> QED
    BY <2>1, <2>2
<1>2. PICK r \in 0 .. 508 : AtHardware(v, r, n)
  BY DeviceAssumption
<1> DEFINE A == r < 16 /\ u.addr = \hBFE001 + 256 * r - (n - 1)
           B == r < 16 /\ u.addr = \hBFD000 + 256 * r - (n - 1)
           C == r < 16 /\ u.addr = \hDC0003 + 4 * r - (n - 1)
           D == u.addr = \hDFF000 + r
<1>3. \/ A /\ u.moves = Moves(<<"ciaa", r>>, Settable(<<"ciaa", r>>), u.bit)
      \/ B /\ u.moves = Moves(<<"ciab", r>>, Bits, u.bit)
      \/ C /\ u.moves = Moves(<<"clock", 3 + 4 * r>>, IF n = 1 THEN Bits ELSE {}, u.bit)
      \/ D /\ u.moves = CustomMoves(r, n, u.bit)
  BY <1>2, SMT DEF AtHardware
<1>4. ASSUME A PROVE BankOf(u.addr) = "cia" /\ CiaPlace(u.addr, n) = <<"ciaa", r>>
  <2>1. r \in 0 .. 15
    BY <1>4, SMT
  <2> QED
    BY <1>1, <1>4, <2>1, CiaAddresses, SMT
<1>5. ASSUME B PROVE BankOf(u.addr) = "cia" /\ CiaPlace(u.addr, n) = <<"ciab", r>>
  <2>1. r \in 0 .. 15
    BY <1>5, SMT
  <2> QED
    BY <1>1, <1>5, <2>1, CiaAddresses, SMT
<1>6. ASSUME C PROVE BankOf(u.addr) = "clock" /\ (u.addr + n - 1) % 64 = 3 + 4 * r
  <2>1. r \in 0 .. 15
    BY <1>6, SMT
  <2> QED
    BY <1>1, <1>6, <2>1, ClockAddresses, SMT
<1>7. ASSUME D, u.moves = CustomMoves(r, n, u.bit)
      PROVE  BankOf(u.addr) = "nallePuh" /\ CustomMeant(u.addr, n, u.bit, u.moves)
  <2>1. BankOf(u.addr) = "nallePuh"
    BY <1>7, CustomAddresses, SMT
  <2>2. CustomMeant(customAddress(r), n, u.bit, CustomMoves(r, n, u.bit))
    BY <1>1, CustomRight
  <2>3. u.addr = customAddress(r)
    BY <1>7, SMT DEF customAddress
  <2> HIDE DEF D
  <2> QED
    BY <1>7, <2>1, <2>2, <2>3
<1> HIDE DEF A, B, C, D
<1>8. u.n = n /\ u.op # "Write" /\ Settable(<<"ciab", r>>) = Bits
  BY <1>1 DEF Settable
<1>9. CASE A /\ u.moves = Moves(<<"ciaa", r>>, Settable(<<"ciaa", r>>), u.bit)
  BY <1>1, <1>4, <1>8, <1>9 DEF RightUse
<1>10. CASE B /\ u.moves = Moves(<<"ciab", r>>, Bits, u.bit)
  BY <1>1, <1>5, <1>8, <1>10 DEF RightUse
<1>11. CASE C /\ u.moves = Moves(<<"clock", 3 + 4 * r>>, IF n = 1 THEN Bits ELSE {}, u.bit)
  BY <1>1, <1>6, <1>8, <1>11 DEF RightUse
<1>12. CASE D /\ u.moves = CustomMoves(r, n, u.bit)
  BY <1>1, <1>7, <1>8, <1>12 DEF RightUse
<1> QED
  BY <1>3, <1>9, <1>10, <1>11, <1>12

\* Every call that programs make reaches the bit it means.
LEMMA UsesRight ==
  ASSUME AllTyped, NEW p \in Programs, NEW u \in Uses(p), u.op # "Read"
  PROVE  RightUse(u)
<1> DEFINE use(b, v) == [op |-> v.op, addr |-> hostAddressToChip(b) + v.offset, n |-> Bytes[v.width], bit |-> v.bit,
                         moves |-> BitOf(hostAddressToChip(b) + v.offset, Bytes[v.width], v.bit)]
           direct(v) == [op |-> v.op, addr |-> v.addr, n |-> Bytes[v.width], bit |-> v.bit, moves |-> v.moves]
<1>1. Uses(p) = {use(b, v) : b \in held[p], v \in MemoryUses} \cup {direct(v) : v \in DeviceUses}
  BY DEF Uses
<1>2. ASSUME NEW b \in held[p], NEW v \in MemoryUses, u = use(b, v) PROVE RightUse(u)
  <2>1. /\ u.op = v.op /\ u.addr = b.start * BlockSize + v.offset /\ u.n = Bytes[v.width] /\ u.bit = v.bit
        /\ u.moves = BitOf(u.addr, u.n, u.bit)
    BY <1>2 DEF hostAddressToChip
  <2>2. v.width \in DOMAIN Bytes /\ v.bit \in Nat /\ v.op \in {"Chg", "Set", "Clr", "Write"}
    BY <2>1, MemoryAssumption
  <2>3. \A w \in DOMAIN Bytes : Bytes[w] \in Width
    BY DEF Bytes, Width
  <2>4. u.addr \in Nat /\ BankOf(u.addr) = "chipmem"
    BY <2>1, MemoryRight
  <2> QED
    BY <2>1, <2>2, <2>3, <2>4 DEF RightUse
<1>3. ASSUME NEW v \in DeviceUses, u = direct(v) PROVE RightUse(u)
  <2>1. v.op # "Read"
    BY <1>3
  <2> QED
    BY <1>3, <2>1, DeviceRight
<1> HIDE DEF use, direct
<1> QED
  BY <1>1, <1>2, <1>3

(***************************************************************************)
(* What a read leaves and returns.                                         *)
(***************************************************************************)
BitsOf(c) == IF c \in Custom THEN Word ELSE Bits

LEMMA UsesPlain ==
  ASSUME AllTyped, NEW p \in Programs, NEW u \in Uses(p)
  PROVE  u.addr \in Nat /\ u.n \in Width
<1> DEFINE addr(b, v) == hostAddressToChip(b) + v.offset
<1>1. (\E b \in held[p], v \in MemoryUses : u.addr = addr(b, v) /\ u.n = Bytes[v.width])
      \/ \E v \in DeviceUses : u.addr = v.addr /\ u.n = Bytes[v.width]
  BY DEF Uses
<1>2. \A v \in MemoryUses \cup DeviceUses : Bytes[v.width] \in Width
  BY MemoryAssumption DEF Bytes, Width
<1>3. \A b \in held[p], v \in MemoryUses : addr(b, v) \in Nat
  BY MemoryRight DEF hostAddressToChip
<1>4. \A v \in DeviceUses : v.addr \in Nat
  BY MemoryAssumption
<1> HIDE DEF addr
<1> QED
  BY <1>1, <1>2, <1>3, <1>4

LEMMA Kinds ==
  /\ \A x : <<"custom", x>> \in Places => <<"custom", x>> \in Custom
  /\ \A x : <<"chip", x>> \notin Custom
  /\ \A c \in Places : c \in Custom <=> c[1] = "custom"
BY DEF Places, Cells, Ports, Clock, Custom, WriteOnly, ReadOnly

\* A place of the memory, of a CIA or of the clock is not a custom register, and one of each is reached.
LEMMA ReachedKinds ==
  ASSUME NEW addr \in Nat, NEW n \in Width, NEW c \in Reached(addr, n)
  PROVE  /\ c \in Places
         /\ BankOf(addr) = "chipmem"  => \E i \in 0 .. n - 1 : c = <<"chip", addr + i>> /\ c[2] - addr = i
         /\ BankOf(addr) = "cia"      => Reached(addr, n) = {c} /\ c = CiaPlace(addr, n)
         /\ BankOf(addr) = "clock"    => Reached(addr, n) = {c} /\ c = <<"clock", (addr + n - 1) % 64>>
         /\ BankOf(addr) = "nallePuh" => c \in Custom
<1>1. c \in Places
  BY ReachedPlaces
<1>2. CASE BankOf(addr) = "chipmem"
  <2>1. PICK i \in 0 .. n - 1 : c = <<"chip", addr + i>>
    BY <1>1, <1>2, ReachedIn
  <2>2. c[2] - addr = i
    BY <2>1 DEF Width
  <2> QED
    BY <1>1, <1>2, <2>1, <2>2
<1>3. CASE BankOf(addr) = "cia"
  BY <1>1, <1>3, ReachedIn, ReachedPlaces
<1>4. CASE BankOf(addr) = "clock"
  BY <1>1, <1>4, ReachedIn, ReachedPlaces
<1>5. CASE BankOf(addr) = "nallePuh"
  BY <1>1, <1>5, ReachedIn, Kinds
<1> QED
  BY <1>1, <1>2, <1>3, <1>4, <1>5

\* What was read is what is there now; of two words taken in the wrong order nothing is known.
Agrees(u, value, seen) ==
  /\ BankOf(u.addr) = "chipmem" => \A c \in Reached(u.addr, u.n) : seen[c] = ByteOf(value, u.n, c[2] - u.addr)
  /\ BankOf(u.addr) \in {"cia", "clock"} \/ (BankOf(u.addr) = "nallePuh" /\ u.n = 2) =>
       \A c \in Reached(u.addr, u.n) : seen[c] = value

ContentTyped == DOMAIN content = Places /\ \A c \in Places : content[c] \subseteq BitsOf(c)

ReadKept(u, r) ==
  /\ DOMAIN r.content = Places /\ r.last \subseteq Word
  /\ \A c \in Places : r.content[c] \subseteq BitsOf(c)
  /\ \A c \in Places : c \notin Reached(u.addr, u.n) => r.content[c] = content[c]
  /\ Agrees(u, r.value, r.content)

LEMMA PlainKept ==
  ASSUME ContentTyped, last \subseteq Word, NEW u, NEW r, r.content = content, r.last = last, Agrees(u, r.value, content)
  PROVE  ReadKept(u, r)
BY DEF ReadKept, ContentTyped

LEMMA ReadChipKept ==
  ASSUME ContentTyped, last \subseteq Word, NEW u, u.addr \in Nat, u.n \in Width,
         BankOf(u.addr) = "chipmem", NEW r \in Reads(u.addr, u.n)
  PROVE  ReadKept(u, r)
<1> DEFINE bytes == [i \in 0 .. u.n - 1 |-> content[<<"chip", u.addr + i>>]]
           value == OfBytes(u.n, bytes)
<1>1. r.value = value /\ r.content = content /\ r.last = last
  BY DEF Reads, ReadChip, Plainly
<1>2. ASSUME NEW c \in Reached(u.addr, u.n) PROVE content[c] = ByteOf(value, u.n, c[2] - u.addr)
  <2>1. PICK i \in 0 .. u.n - 1 : c = <<"chip", u.addr + i>> /\ c[2] - u.addr = i
    BY ReachedKinds
  <2>2. bytes[i] = content[c]
    BY <2>1
  <2>3. content[c] \subseteq Bits
    BY <2>1, ReachedPlaces, Kinds DEF ContentTyped, BitsOf
  <2> HIDE DEF bytes
  <2>4. ByteOf(value, u.n, i) = bytes[i]
    BY <2>2, <2>3, BytesPutTogether
  <2> QED
    BY <2>1, <2>2, <2>4
<1> HIDE DEF value
<1>3. Agrees(u, r.value, content)
  BY <1>1, <1>2 DEF Agrees
<1> QED
  BY <1>1, <1>3, PlainKept

LEMMA ReadPortKept ==
  ASSUME ContentTyped, last \subseteq Word, NEW u, u.addr \in Nat, u.n \in Width,
         BankOf(u.addr) \in {"cia", "clock"}, NEW r \in Reads(u.addr, u.n)
  PROVE  ReadKept(u, r)
<1> DEFINE all == UNION {content[c] : c \in Reached(u.addr, u.n)}
<1>1. r.content = content /\ r.last = last /\ (Reached(u.addr, u.n) # {} => r.value = all)
  <2>1. CASE BankOf(u.addr) = "cia"
    BY <2>1 DEF Reads, ReadCia, Plainly
  <2>2. CASE BankOf(u.addr) = "clock"
    <3>1. r \in ReadClock(u.addr, u.n)
      BY <2>2 DEF Reads
    <3> QED
      BY <3>1 DEF ReadClock, Plainly
  <2> QED
    BY <2>1, <2>2
<1>2. ASSUME NEW c \in Reached(u.addr, u.n) PROVE content[c] = r.value
  <2>1. Reached(u.addr, u.n) = {c}
    BY ReachedKinds
  <2>2. all = content[c]
    BY <2>1
  <2> QED
    BY <1>1, <2>2
<1> HIDE DEF all
<1>3. Agrees(u, r.value, content)
  BY <1>2 DEF Agrees
<1> QED
  BY <1>1, <1>3, PlainKept

\* custom_wget writes only the register that it was to read,
LEMMA BusKept ==
  ASSUME ContentTyped, last \subseteq Word, NEW u, u.addr \in Nat, u.n = 2, BankOf(u.addr) = "nallePuh"
  PROVE  ReadKept(u, PUHRead(u.addr))
<1> DEFINE key == <<"custom", u.addr % 512>>
           after == [content EXCEPT ![key] = last]
           r == PUHRead(u.addr)
<1>1. ASSUME NEW c \in Places PROVE c \in Reached(u.addr, u.n) <=> c = key
  BY ReachedIn
<1>2. CASE key \in ReadOnly
  <2>1. r.value = content[key] /\ r.content = content /\ r.last = last
    BY <1>2 DEF PUHRead
  <2>2. \A c \in Reached(u.addr, u.n) : content[c] = r.value
    BY <1>1, <2>1, ReachedPlaces
  <2> HIDE DEF key, r
  <2>3. Agrees(u, r.value, content)
    BY <2>2 DEF Agrees
  <2>4. ReadKept(u, r)
    BY <2>1, <2>3, PlainKept
  <2> QED
    BY <2>4 DEF r
<1>3. CASE key \notin ReadOnly
  <2>1. r.value = last /\ r.content = after /\ r.last = Word
    BY <1>3 DEF PUHRead, ReadBus
  <2>2. DOMAIN after = Places /\ \A c \in Places : after[c] = IF c = key THEN last ELSE content[c]
    BY DEF ContentTyped
  <2>3. \A c \in Places : c = key => BitsOf(c) = Word
    BY Kinds DEF BitsOf
  <2>4. \A c \in Reached(u.addr, u.n) : after[c] = r.value
    BY <1>1, <2>1, <2>2, ReachedPlaces
  <2> HIDE DEF key, r, after
  <2>5. Agrees(u, r.value, after)
    BY <2>4 DEF Agrees
  <2>6. ReadKept(u, r)
    BY <1>1, <2>1, <2>2, <2>3, <2>5 DEF ReadKept, ContentTyped
  <2> QED
    BY <2>6 DEF r
<1> QED
  BY <1>2, <1>3

\* and nallePuh_lget the two that it was to read.
LEMMA BusTwiceKept ==
  ASSUME ContentTyped, last \subseteq Word, NEW u, u.addr \in Nat, u.n = 4, BankOf(u.addr) = "nallePuh",
         NEW r \in ReadBusTwice(u.addr)
  PROVE  ReadKept(u, r)
<1> DEFINE low(first)  == <<"custom", (u.addr + first) % 512>>
           high(first) == <<"custom", (u.addr + 2 - first) % 512>>
           after(first) == [content EXCEPT ![low(first)] = last, ![high(first)] = Word]
           seen(first) == IF first = 0 THEN last \cup {16 + b : b \in Word}
                          ELSE Word \cup {16 + b : b \in last}
<1>1. ReadBusTwice(u.addr) = {[value |-> seen(first), content |-> after(first), last |-> Word] : first \in {0, 2}}
  BY DEF ReadBusTwice
<1> HIDE DEF seen
<1>2. PICK first \in {0, 2} : r.content = after(first) /\ r.last = Word
  <2> HIDE DEF after
  <2> QED
    BY <1>1
<1>3. ASSUME NEW c \in Places PROVE (c = low(first) \/ c = high(first)) => c \in Reached(u.addr, u.n)
  <2>1. low(first) \in {<<"custom", (u.addr + i) % 512>> : i \in {0, u.n - 2}}
    OBVIOUS
  <2>2. high(first) \in {<<"custom", (u.addr + i) % 512>> : i \in {0, u.n - 2}}
    OBVIOUS
  <2> QED
    BY <2>1, <2>2, ReachedIn
<1>4. /\ DOMAIN after(first) = Places
      /\ \A c \in Places : after(first)[c] \in {last, Word, content[c]}
      /\ \A c \in Places : c # low(first) /\ c # high(first) => after(first)[c] = content[c]
  BY DEF ContentTyped
<1>5. \A c \in Places : c = low(first) \/ c = high(first) => BitsOf(c) = Word
  BY Kinds DEF BitsOf
<1> HIDE DEF low, high, after
<1>6. Agrees(u, r.value, r.content)
  BY DEF Agrees
<1>7. \A c \in Places : r.content[c] \subseteq BitsOf(c)
  BY <1>2, <1>4, <1>5 DEF ContentTyped
<1> QED
  BY <1>2, <1>3, <1>4, <1>6, <1>7 DEF ReadKept

LEMMA ReadsKept ==
  ASSUME ContentTyped, last \subseteq Word, NEW u, u.addr \in Nat, u.n \in Width, NEW r \in Reads(u.addr, u.n)
  PROVE  ReadKept(u, r)
<1>1. CASE BankOf(u.addr) = "nallePuh"
  <2>1. r \in ReadCustom(u.addr, u.n)
    BY <1>1 DEF Reads
  <2> HIDE DEF ReadBusTwice, PUHRead, Plainly
  <2>2. u.n = 4 => r \in ReadBusTwice(u.addr)
    BY <2>1 DEF ReadCustom
  <2>3. u.n = 2 => r = PUHRead(u.addr)
    BY <2>1 DEF ReadCustom
  <2>4. u.n = 1 => r \in Plainly({})
    BY <2>1 DEF ReadCustom
  <2>5. u.n = 1 => ReadKept(u, r)
    <3> SUFFICES ASSUME u.n = 1 PROVE ReadKept(u, r)
      OBVIOUS
    <3>1. r.content = content /\ r.last = last
      BY <2>4 DEF Plainly
    <3>2. Agrees(u, r.value, content)
      BY <1>1 DEF Agrees
    <3> QED
      BY <3>1, <3>2, PlainKept
  <2> QED
    BY <1>1, <2>2, <2>3, <2>5, BusKept, BusTwiceKept DEF Width
<1>2. CASE BankOf(u.addr) \notin {"chipmem", "cia", "clock", "nallePuh"}
  <2>1. r.content = content /\ r.last = last
    BY <1>2 DEF Reads, Plainly
  <2>2. Agrees(u, r.value, content)
    BY <1>2 DEF Agrees
  <2> QED
    BY <2>1, <2>2, PlainKept
<1> QED
  BY <1>1, <1>2, ReadChipKept, ReadPortKept

(***************************************************************************)
(* What a write leaves.                                                    *)
(***************************************************************************)
LEMMA WriteTyped ==
  ASSUME ContentTyped, last \subseteq Word, NEW addr \in Nat, NEW n \in Width, NEW v, Write(addr, n, v)
  PROVE  ContentTyped' /\ last' \subseteq Word
<1>1. DOMAIN content' = Places /\ \A c \in Places : c \notin Reached(addr, n) => content'[c] = content[c]
  BY WriteKeepsChip DEF ContentTyped
<1>2. ASSUME NEW c \in Reached(addr, n), BankOf(addr) # "nallePuh" PROVE content'[c] \subseteq BitsOf(c)
  <2>0. c \in Places
    BY ReachedPlaces
  <2>1. CASE BankOf(addr) = "chipmem"
    <3>1. content'[c] = ByteOf(v, n, c[2] - addr)
      BY <2>0, <2>1, WriteKeepsChip DEF Write, WriteChip
    <3>2. BitsOf(c) = Bits
      BY <2>1, ReachedKinds, Kinds DEF BitsOf
    <3> QED
      BY <3>1, <3>2 DEF ByteOf
  <2>2. CASE BankOf(addr) = "cia"
    <3>1. content'[c] = (content[c] \ Settable(c)) \cup (v \cap Settable(c))
      BY <2>0, <2>2 DEF Write, WriteCia
    <3>2. Settable(c) \subseteq Bits /\ Bits \subseteq BitsOf(c)
      BY DEF Settable, Bits, BitsOf, Word
    <3> QED
      BY <2>0, <3>1, <3>2 DEF ContentTyped
  <2>3. CASE BankOf(addr) = "clock"
    <3>1. content'[c] \in {v \cap Bits, content[c]}
      BY <2>0, <2>3 DEF Write, WriteClock
    <3>2. Bits \subseteq BitsOf(c)
      BY DEF Bits, BitsOf, Word
    <3> QED
      BY <2>0, <3>1, <3>2 DEF ContentTyped
  <2>4. CASE BankOf(addr) \notin {"chipmem", "cia", "clock", "nallePuh"}
    BY <2>0, <2>4 DEF Write, ContentTyped
  <2> QED
    BY <1>2, <2>1, <2>2, <2>3, <2>4
<1>3. ASSUME BankOf(addr) = "nallePuh"
      PROVE  last' \subseteq Word /\ \A c \in Reached(addr, n) : content'[c] \subseteq BitsOf(c)
  <2>1. WriteCustom(addr, n, v)
    BY <1>3 DEF Write
  <2>2. last' \subseteq Word
    BY <2>1 DEF WriteCustom
  <2>3. ASSUME NEW c \in Reached(addr, n) PROVE content'[c] \subseteq BitsOf(c)
    <3>1. c \in Places /\ BitsOf(c) = Word
      BY <1>3, ReachedKinds DEF BitsOf
    <3>2. content'[c] \in {content[c], v \cap Word, {b \in Word : 16 + b \in v}}
      BY <2>1, <3>1 DEF WriteCustom
    <3> QED
      BY <3>1, <3>2 DEF ContentTyped
  <2> QED
    BY <2>2, <2>3
<1>4. BankOf(addr) # "nallePuh" => last' = last
  BY DEF Write, WriteChip, WriteCia, WriteClock
<1>5. \A c \in Places : content'[c] \subseteq BitsOf(c)
  BY <1>1, <1>2, <1>3 DEF ContentTyped
<1> QED
  BY <1>1, <1>3, <1>4, <1>5 DEF ContentTyped, BitsOf

(***************************************************************************)
(* What a call that changes a bit leaves, if nobody came between.          *)
(***************************************************************************)
Means(u, c) == \E b \in Word : <<c, b>> \in u.moves
MeantBit(u, c) == CHOOSE b \in Word : <<c, b>> \in u.moves
Done(u, c, bits) == IF Means(u, c) THEN Changed(u.op, bits, MeantBit(u, c)) ELSE bits

LEMMA OneMove ==
  ASSUME NEW u, NEW place, NEW bit \in Word, u.moves = {<<place, bit>>}, NEW c
  PROVE  (Means(u, c) <=> c = place) /\ (c = place => MeantBit(u, c) = bit)
<1>1. Means(u, c) <=> c = place
  BY DEF Means
<1>2. \A b \in Word : <<place, b>> \in u.moves <=> b = bit
  OBVIOUS
<1>3. MeantBit(u, place) = bit
  BY <1>2 DEF MeantBit
<1> QED
  BY <1>1, <1>3

\* A bit of a register that can be set, or none.
LEMMA MovesMean ==
  ASSUME NEW u, NEW place, NEW bits \in SUBSET Word, u.bit \in Nat, u.moves = Moves(place, bits, u.bit), NEW c
  PROVE  /\ Means(u, c) <=> c = place /\ u.bit \in bits
         /\ Means(u, c) => MeantBit(u, c) = u.bit
<1>1. CASE u.bit \in bits
  BY <1>1, OneMove DEF Moves
<1>2. CASE u.bit \notin bits
  BY <1>2 DEF Moves, Means
<1> QED
  BY <1>1, <1>2

LEMMA ChipMean ==
  ASSUME NEW u, RightUse(u), BankOf(u.addr) = "chipmem", NEW c
  PROVE  /\ Means(u, c) <=> u.bit < 8 * u.n /\ c = <<"chip", u.addr + u.n - 1 - u.bit \div 8>>
         /\ Means(u, c) => MeantBit(u, c) = u.bit % 8
<1>1. u.moves = BitOf(u.addr, u.n, u.bit) /\ u.bit \in Nat
  BY DEF RightUse
<1>2. u.bit % 8 \in Word
  BY <1>1 DEF Word
<1>3. CASE u.bit < 8 * u.n
  BY <1>1, <1>2, <1>3, OneMove DEF BitOf
<1>4. CASE ~ (u.bit < 8 * u.n)
  BY <1>1, <1>4 DEF BitOf, Means
<1> QED
  BY <1>3, <1>4

\* Only a place that an access reaches can be meant.
LEMMA MeansReached ==
  ASSUME NEW u, RightUse(u), NEW c \in Places, Means(u, c)
  PROVE  c \in Reached(u.addr, u.n)
<1>1. u.n \in Width /\ u.bit \in Nat /\ u.addr \in Nat
  BY DEF RightUse
<1>2. Bits \subseteq Word
  BY DEF Bits, Word
<1>3. CASE BankOf(u.addr) = "chipmem"
  <2>1. u.bit < 8 * u.n /\ c = <<"chip", u.addr + u.n - 1 - u.bit \div 8>>
    BY <1>3, ChipMean
  <2> DEFINE i == u.n - 1 - u.bit \div 8
  <2>2. i \in 0 .. u.n - 1 /\ u.addr + u.n - 1 - u.bit \div 8 = u.addr + i
    BY <1>1, <2>1 DEF Width
  <2> HIDE DEF i
  <2> QED
    BY <1>3, <2>1, <2>2, ReachedIn
<1>4. CASE BankOf(u.addr) = "cia"
  <2> DEFINE place == CiaPlace(u.addr, u.n)
  <2>1. u.moves = Moves(place, Settable(place), u.bit) /\ Settable(place) \in SUBSET Word
    BY <1>2, <1>4 DEF RightUse, Settable, Word
  <2> HIDE DEF place
  <2>2. c = place
    BY <1>1, <2>1, MovesMean
  <2> QED
    BY <1>4, <2>2, ReachedIn DEF place
<1>5. CASE BankOf(u.addr) = "clock"
  <2> DEFINE place == <<"clock", (u.addr + u.n - 1) % 64>>
             bits == IF u.n = 1 THEN Bits ELSE {}
  <2>1. u.moves = Moves(place, bits, u.bit) /\ bits \in SUBSET Word
    BY <1>2, <1>5 DEF RightUse
  <2> HIDE DEF place, bits
  <2>2. c = place
    BY <1>1, <2>1, MovesMean
  <2> QED
    BY <1>5, <2>2, ReachedIn DEF place
<1>6. CASE BankOf(u.addr) = "nallePuh"
  <2>0. CustomMeant(u.addr, u.n, u.bit, u.moves)
    BY <1>6 DEF RightUse
  <2>1. u.n # 1
    BY <2>0 DEF CustomMeant, Means
  <2>2. CASE u.n = 2
    <3> DEFINE place == <<"custom", u.addr % 512>>
               bits == IF place \in ReadOnly THEN {} ELSE Word
    <3>1. u.moves = Moves(place, bits, u.bit) /\ bits \in SUBSET Word
      BY <2>0, <2>2 DEF CustomMeant
    <3>2. u.addr % 512 = (u.addr + 0) % 512 /\ 0 \in {0, u.n - 2}
      BY <1>1
    <3> HIDE DEF place, bits
    <3>3. c = place
      BY <1>1, <3>1, MovesMean
    <3> QED
      BY <1>6, <3>2, <3>3, ReachedIn DEF place
  <2>3. CASE u.n = 4
    BY <2>0, <2>3 DEF CustomMeant, Means
  <2> QED
    BY <1>1, <2>1, <2>2, <2>3 DEF Width
<1> QED
  BY <1>3, <1>4, <1>5, <1>6 DEF RightUse

LEMMA PutChip ==
  ASSUME NEW u, RightUse(u), u.op # "Write", BankOf(u.addr) = "chipmem", NEW value, NEW seen, Agrees(u, value, seen),
         Write(u.addr, u.n, Changed(u.op, value, u.bit)), NEW c \in Reached(u.addr, u.n), content[c] = seen[c]
  PROVE  content'[c] = Done(u, c, content[c])
<1>1. u.addr \in Nat /\ u.n \in Width /\ u.bit \in Nat /\ u.op \in {"Chg", "Set", "Clr"}
  BY DEF RightUse
<1>2. PICK i \in 0 .. u.n - 1 : c = <<"chip", u.addr + i>> /\ c[2] - u.addr = i
  BY <1>1, ReachedKinds
<1>3. content[c] = ByteOf(value, u.n, i)
  BY <1>2 DEF Agrees
<1>4. content'[c] = ByteOf(Changed(u.op, value, u.bit), u.n, i)
  BY <1>2, ReachedPlaces DEF Write, WriteChip
<1>5. Means(u, c) <=> u.bit < 8 * u.n /\ i = u.n - 1 - u.bit \div 8
  <2>1. c = <<"chip", u.addr + u.n - 1 - u.bit \div 8>> <=> i = u.n - 1 - u.bit \div 8
    BY <1>1, <1>2 DEF Width
  <2> QED
    BY <2>1, ChipMean
<1>6. Means(u, c) => MeantBit(u, c) = u.bit % 8
  BY ChipMean
<1>7. content'[c] = IF u.bit < 8 * u.n /\ i = u.n - 1 - u.bit \div 8 THEN Changed(u.op, content[c], u.bit % 8)
                    ELSE content[c]
  BY <1>1, <1>3, <1>4, ByteChanged
<1> QED
  BY <1>5, <1>6, <1>7 DEF Done

\* A register that keeps the bits it does not let change.
LEMMA OneBitChanged ==
  ASSUME NEW op \in {"Chg", "Set", "Clr"}, NEW v, NEW bits, NEW bit
  PROVE  (v \ bits) \cup (Changed(op, v, bit) \cap bits) = IF bit \in bits THEN Changed(op, v, bit) ELSE v
<1> DEFINE w == (v \ bits) \cup (Changed(op, v, bit) \cap bits)
<1>1. \A b : b \in Changed(op, v, bit) <=> IF b = bit THEN op = "Set" \/ (op = "Chg" /\ b \notin v) ELSE b \in v
  BY HasChanged
<1>2. \A b : b \in w <=> IF b \in bits THEN b \in Changed(op, v, bit) ELSE b \in v
  OBVIOUS
<1> HIDE DEF w
<1>3. CASE bit \in bits
  <2>1. \A b : b \in w <=> b \in Changed(op, v, bit)
    BY <1>1, <1>2, <1>3
  <2>2. w = Changed(op, v, bit)
    BY <2>1
  <2> QED
    BY <1>3, <2>2 DEF w
<1>4. CASE bit \notin bits
  <2>1. \A b : b \in w <=> b \in v
    BY <1>1, <1>2, <1>4
  <2>2. w = v
    BY <2>1
  <2> QED
    BY <1>4, <2>2 DEF w
<1> QED
  BY <1>3, <1>4

LEMMA PutRegister ==
  ASSUME NEW u, u.bit \in Nat, u.op \in {"Chg", "Set", "Clr"}, NEW c, NEW bits \in SUBSET Word,
         u.moves = Moves(c, bits, u.bit),
         content'[c] = (content[c] \ bits) \cup (Changed(u.op, content[c], u.bit) \cap bits)
  PROVE  content'[c] = Done(u, c, content[c])
<1>1. content'[c] = IF u.bit \in bits THEN Changed(u.op, content[c], u.bit) ELSE content[c]
  BY OneBitChanged
<1>2. (Means(u, c) <=> u.bit \in bits) /\ (Means(u, c) => MeantBit(u, c) = u.bit)
  BY MovesMean
<1> QED
  BY <1>1, <1>2 DEF Done

LEMMA PutPort ==
  ASSUME ContentTyped, NEW u, RightUse(u), u.op # "Write", BankOf(u.addr) \in {"cia", "clock"},
         NEW value, NEW seen, Agrees(u, value, seen), Write(u.addr, u.n, Changed(u.op, value, u.bit)),
         NEW c \in Reached(u.addr, u.n), content[c] = seen[c]
  PROVE  content'[c] = Done(u, c, content[c])
<1>1. u.addr \in Nat /\ u.n \in Width /\ u.bit \in Nat /\ u.op \in {"Chg", "Set", "Clr"} /\ Bits \in SUBSET Word
  BY DEF RightUse, Bits, Word
<1>2. content[c] = value /\ c \in Places
  BY ReachedPlaces DEF Agrees
<1>3. CASE BankOf(u.addr) = "cia"
  <2>1. u.moves = Moves(c, Settable(c), u.bit) /\ Settable(c) \in SUBSET Word
    BY <1>1, <1>3, ReachedKinds DEF RightUse, Settable, Word
  <2>2. content'[c] = (content[c] \ Settable(c)) \cup (Changed(u.op, value, u.bit) \cap Settable(c))
    BY <1>2, <1>3 DEF Write, WriteCia
  <2> QED
    BY <1>1, <1>2, <2>1, <2>2, PutRegister
<1>4. CASE BankOf(u.addr) = "clock"
  <2> DEFINE bits == IF u.n = 1 THEN Bits ELSE {}
  <2>1. u.moves = Moves(c, bits, u.bit) /\ bits \in SUBSET Word
    BY <1>1, <1>4, ReachedKinds DEF RightUse
  <2>2. content'[c] = IF u.n = 1 THEN Changed(u.op, value, u.bit) \cap Bits ELSE content[c]
    BY <1>2, <1>4 DEF Write, WriteClock
  <2>3. content[c] \subseteq Bits
    <3>1. c \notin Custom
      BY <1>1, <1>2, <1>4, ReachedKinds, Kinds
    <3> QED
      BY <1>2, <3>1 DEF ContentTyped, BitsOf
  <2>4. content'[c] = (content[c] \ bits) \cup (Changed(u.op, content[c], u.bit) \cap bits)
    BY <1>2, <2>2, <2>3
  <2> HIDE DEF bits
  <2> QED
    BY <1>1, <2>1, <2>4, PutRegister
<1> QED
  BY <1>3, <1>4

LEMMA PutCustom ==
  ASSUME ContentTyped, NEW u, RightUse(u), u.op # "Write", BankOf(u.addr) = "nallePuh",
         NEW value, NEW seen, Agrees(u, value, seen), Write(u.addr, u.n, Changed(u.op, value, u.bit)),
         NEW c \in Reached(u.addr, u.n), content[c] = seen[c], u.n = 4 => c \notin WriteOnly
  PROVE  content'[c] = Done(u, c, content[c])
<1>1. u.addr \in Nat /\ u.n \in Width /\ u.bit \in Nat /\ u.op \in {"Chg", "Set", "Clr"}
      /\ CustomMeant(u.addr, u.n, u.bit, u.moves)
  BY DEF RightUse
<1>2. c \in Places /\ c \in Custom /\ content[c] \subseteq Word
  BY <1>1, ReachedKinds DEF ContentTyped, BitsOf
<1> DEFINE v == Changed(u.op, value, u.bit)
<1>3. content'[c] = IF u.n = 1 \/ c \in ReadOnly THEN content[c]
                    ELSE IF u.n = 4 /\ c[2] = u.addr % 512 THEN {b \in Word : 16 + b \in v} ELSE v \cap Word
  <2>1. WriteCustom(u.addr, u.n, v)
    BY DEF Write
  <2> HIDE DEF v
  <2> QED
    BY <1>2, <2>1 DEF WriteCustom
<1>4. CASE u.n = 1
  <2>1. ~Means(u, c)
    BY <1>1, <1>4 DEF CustomMeant, Means
  <2> QED
    BY <1>3, <1>4, <2>1 DEF Done
<1>5. CASE u.n = 4
  <2>1. c \in ReadOnly
    BY <1>2, <1>5 DEF Custom
  <2>2. ~Means(u, c)
    BY <1>1, <1>2, <1>5 DEF CustomMeant, Means
  <2> QED
    BY <1>3, <2>1, <2>2 DEF Done
<1>6. CASE u.n = 2
  <2> DEFINE bits == IF c \in ReadOnly THEN {} ELSE Word
  <2>1. c = <<"custom", u.addr % 512>>
    <3>1. (u.addr + 0) % 512 = u.addr % 512
      BY <1>1
    <3> QED
      BY <1>2, <1>6, <3>1, ReachedIn
  <2>2. u.moves = Moves(c, bits, u.bit) /\ bits \in SUBSET Word
    BY <1>1, <1>6, <2>1 DEF CustomMeant
  <2>3. content[c] = value
    BY <1>6 DEF Agrees
  <2>4. content'[c] = (content[c] \ bits) \cup (Changed(u.op, content[c], u.bit) \cap bits)
    BY <1>2, <1>3, <1>6, <2>3
  <2> HIDE DEF bits
  <2> QED
    BY <1>1, <2>2, <2>4, PutRegister
<1> QED
  BY <1>1, <1>4, <1>5, <1>6 DEF Width

(***************************************************************************)
(* BitsAreKept.  What a call between its read and its write has in hand is *)
(* what it saw, unless it read a long from write-only registers, and then  *)
(* they are among the places that can not be as meant.                     *)
(***************************************************************************)
Pending(a, places) ==
  /\ RightUse(a.use) /\ a.use.op # "Write"
  /\ DOMAIN a.seen = Reached(a.use.addr, a.use.n) /\ Agrees(a.use, a.value, a.seen)
  /\ BankOf(a.use.addr) = "nallePuh" /\ a.use.n = 4 =>
       Reached(a.use.addr, a.use.n) \cap WriteOnly \subseteq places

AsMeant == DOMAIN meant = Places /\ raced \subseteq Places /\ \A c \in Places : c \notin raced => content[c] = meant[c]

BitsInv ==
  /\ ContentTyped /\ last \subseteq Word /\ ops \in 0 .. MaxOps
  /\ AsMeant
  /\ DOMAIN acc = Programs /\ \A p \in Programs : acc[p] # NoAccess => Pending(acc[p], raced)

LEMMA StillPending ==
  ASSUME NEW a, NEW before, NEW after, Pending(a, before), before \cap WriteOnly \subseteq after
  PROVE  Pending(a, after)
BY DEF Pending

LEMMA BitsInit == Init => BitsInv
<1> SUFFICES ASSUME Init PROVE BitsInv
  OBVIOUS
<1>1. content = AtReset /\ meant = AtReset /\ last = {} /\ raced = {} /\ ops = 0 /\ acc = [p \in Programs |-> NoAccess]
  BY DEF Init
<1>2. DOMAIN AtReset = Places
  BY DEF AtReset
<1>3. ASSUME NEW c \in Places PROVE AtReset[c] \subseteq BitsOf(c)
  <2>0. <<"ciaa", 0>> # <<"ciab", 0>> /\ <<"ciaa", 0>> \notin ReadOnly /\ <<"ciab", 0>> \notin ReadOnly
    BY DEF ReadOnly
  <2>1. CASE c = <<"ciaa", 0>>
    <3>1. AtReset[c] = {0, 1}
      BY <2>0, <2>1 DEF AtReset
    <3> QED
      BY <3>1 DEF BitsOf, Bits, Word
  <2>2. CASE c = <<"ciab", 0>>
    <3>1. AtReset[c] = {2, 3, 7}
      BY <2>0, <2>2 DEF AtReset
    <3> QED
      BY <3>1 DEF BitsOf, Bits, Word
  <2>3. CASE c \in ReadOnly /\ c # <<"ciaa", 0>> /\ c # <<"ciab", 0>>
    <3>1. AtReset[c] = {9}
      BY <2>3 DEF AtReset
    <3> QED
      BY <2>3, <3>1 DEF BitsOf, Custom, Word
  <2>4. CASE c \notin ReadOnly /\ c # <<"ciaa", 0>> /\ c # <<"ciab", 0>>
    BY <2>4 DEF AtReset
  <2> QED
    BY <2>1, <2>2, <2>3, <2>4
<1>4. ContentTyped /\ AsMeant
  BY <1>1, <1>2, <1>3 DEF ContentTyped, AsMeant
<1> QED
  BY <1>1, <1>4, MemoryAssumption DEF BitsInv

LEMMA BitGetKept ==
  ASSUME AllTyped, BitsInv, NEW p \in Programs, NEW u \in Uses(p), u.op \notin {"Read", "Write"}, BitGet(p, u)
  PROVE  BitsInv'
<1>1. PICK r \in Reads(u.addr, u.n) :
        /\ content' = r.content /\ last' = r.last
        /\ acc' = [acc EXCEPT ![p] = [at |-> "put", use |-> u, value |-> r.value,
                                      seen |-> [c \in Reached(u.addr, u.n) |-> r.content[c]]]]
        /\ raced' = raced \cup {c \in Reached(u.addr, u.n) :
                                  r.content[c] # content[c] \/ (c \in WriteOnly /\ u.n = 4)}
  BY DEF BitGet
<1>2. ops < MaxOps /\ ops' = ops + 1 /\ meant' = meant
  BY DEF BitGet
<1>3. RightUse(u) /\ u.addr \in Nat /\ u.n \in Width
  BY UsesRight, UsesPlain
<1>4. ReadKept(u, r)
  BY <1>3, ReadsKept DEF BitsInv
<1>5. ContentTyped' /\ last' \subseteq Word /\ ops' \in 0 .. MaxOps
  BY <1>1, <1>2, <1>4, MemoryAssumption DEF BitsInv, ContentTyped, ReadKept, BitsOf
<1>6. AsMeant'
  <2>1. ASSUME NEW c \in Places, c \notin raced' PROVE content'[c] = meant'[c]
    <3>1. c \notin raced /\ r.content[c] = content[c]
      BY <1>1, <1>4, <2>1 DEF ReadKept
    <3> QED
      BY <1>1, <1>2, <3>1 DEF BitsInv, AsMeant
  <2> QED
    BY <1>1, <1>2, <2>1, ReachedPlaces DEF BitsInv, AsMeant
<1>7. ASSUME NEW q \in Programs, acc'[q] # NoAccess PROVE Pending(acc'[q], raced')
  <2>1. CASE q = p
    <3> DEFINE seen == [c \in Reached(u.addr, u.n) |-> r.content[c]]
               a == acc'[p]
    <3>1. a = [at |-> "put", use |-> u, value |-> r.value, seen |-> seen]
      BY <1>1 DEF BitsInv
    <3>2. a.use = u /\ a.value = r.value /\ a.seen = seen
      BY <3>1
    <3>3. DOMAIN seen = Reached(u.addr, u.n) /\ \A c \in Reached(u.addr, u.n) : seen[c] = r.content[c]
      OBVIOUS
    <3> HIDE DEF a, seen
    <3>4. Agrees(u, r.value, seen)
      BY <1>4, <3>3 DEF ReadKept, Agrees
    <3>5. u.n = 4 => Reached(u.addr, u.n) \cap WriteOnly \subseteq raced'
      BY <1>1
    <3>6. Pending(a, raced')
      BY <1>3, <3>2, <3>3, <3>4, <3>5 DEF Pending
    <3> QED
      BY <2>1, <3>6 DEF a
  <2>2. CASE q # p
    <3>1. acc'[q] = acc[q]
      BY <1>1, <2>2 DEF BitsInv
    <3>2. raced \cap WriteOnly \subseteq raced'
      BY <1>1
    <3> QED
      BY <1>7, <3>1, <3>2, StillPending DEF BitsInv
  <2> QED
    BY <2>1, <2>2
<1>8. DOMAIN acc' = Programs
  BY <1>1 DEF BitsInv
<1> QED
  BY <1>5, <1>6, <1>7, <1>8 DEF BitsInv

LEMMA BitPutKept ==
  ASSUME BitsInv, NEW p \in Programs, BitPut(p)
  PROVE  BitsInv'
<1> DEFINE a == acc[p]
           u == a.use
<1>1. /\ acc[p] # NoAccess /\ Write(u.addr, u.n, Changed(u.op, a.value, u.bit))
      /\ meant' = [c \in Places |-> Done(u, c, meant[c])]
      /\ raced' = raced \cup {c \in DOMAIN a.seen : content[c] # a.seen[c]}
      /\ acc' = [acc EXCEPT ![p] = NoAccess] /\ ops' = ops
  BY DEF BitPut, Done, Means, MeantBit
<1>2. Pending(a, raced)
  BY <1>1 DEF BitsInv
<1> HIDE DEF a
<1>3. /\ RightUse(u) /\ u.op # "Write" /\ DOMAIN a.seen = Reached(u.addr, u.n) /\ Agrees(u, a.value, a.seen)
      /\ BankOf(u.addr) = "nallePuh" /\ u.n = 4 => Reached(u.addr, u.n) \cap WriteOnly \subseteq raced
  BY <1>2 DEF Pending
<1> HIDE DEF u
<1>4. u.addr \in Nat /\ u.n \in Width
  BY <1>3 DEF RightUse
<1>5. ContentTyped' /\ last' \subseteq Word
  BY <1>1, <1>4, WriteTyped DEF BitsInv
<1>6. ASSUME NEW c \in Places, c \notin raced' PROVE content'[c] = meant'[c]
  <2>1. content[c] = meant[c] /\ c \notin raced
    BY <1>1, <1>6 DEF BitsInv, AsMeant
  <2>2. meant'[c] = Done(u, c, meant[c])
    BY <1>1
  <2>3. CASE c \in Reached(u.addr, u.n)
    <3>1. content[c] = a.seen[c]
      BY <1>1, <1>3, <1>6, <2>3
    <3>2. BankOf(u.addr) = "nallePuh" /\ u.n = 4 => c \notin WriteOnly
      BY <1>3, <2>1, <2>3
    <3>3. BankOf(u.addr) \in {"chipmem", "cia", "clock", "nallePuh"}
      BY <1>3 DEF RightUse
    <3>4. content'[c] = Done(u, c, content[c])
      BY <1>1, <1>3, <2>3, <3>1, <3>2, <3>3, PutChip, PutPort, PutCustom DEF BitsInv
    <3> QED
      BY <2>1, <2>2, <3>4
  <2>4. CASE c \notin Reached(u.addr, u.n)
    <3>1. content'[c] = content[c]
      BY <1>1, <2>4, WriteKeepsChip DEF BitsInv, ContentTyped
    <3>2. ~Means(u, c)
      BY <1>3, <2>4, MeansReached
    <3> QED
      BY <2>1, <2>2, <3>1, <3>2 DEF Done
  <2> QED
    BY <2>3, <2>4
<1>7. AsMeant'
  BY <1>1, <1>3, <1>6, ReachedPlaces DEF BitsInv, AsMeant
<1>8. DOMAIN acc' = Programs /\ \A q \in Programs : acc'[q] # NoAccess => acc'[q] = acc[q]
  BY <1>1 DEF BitsInv
<1>9. \A q \in Programs : acc'[q] # NoAccess => Pending(acc'[q], raced')
  <2>1. raced \cap WriteOnly \subseteq raced'
    BY <1>1
  <2> QED
    BY <1>8, <2>1, StillPending DEF BitsInv
<1> QED
  BY <1>1, <1>5, <1>7, <1>8, <1>9 DEF BitsInv

LEMMA WriteWholeKept ==
  ASSUME AllTyped, BitsInv, NEW p \in Programs, NEW u \in Uses(p), u.op = "Write", WriteWhole(p, u)
  PROVE  BitsInv'
<1>1. /\ ops < MaxOps /\ ops' = ops + 1 /\ acc' = acc
      /\ Write(u.addr, u.n, {u.bit}) /\ raced' = raced \ Reached(u.addr, u.n)
      /\ meant' = [c \in Places |->
           IF c \in Reached(u.addr, u.n) THEN {b \in Bits : <<c, b>> \in u.moves} ELSE meant[c]]
  BY DEF WriteWhole
<1>2. RightUse(u) /\ u.addr \in Nat /\ u.n \in Width /\ u.bit \in Nat /\ BankOf(u.addr) = "chipmem"
      /\ u.moves = BitOf(u.addr, u.n, u.bit)
  BY UsesRight DEF RightUse
<1>3. ContentTyped' /\ last' \subseteq Word
  BY <1>1, <1>2, WriteTyped DEF BitsInv
<1>4. ASSUME NEW c \in Places, c \notin raced' PROVE content'[c] = meant'[c]
  <2>1. CASE c \in Reached(u.addr, u.n)
    <3>1. PICK i \in 0 .. u.n - 1 : c = <<"chip", u.addr + i>> /\ c[2] - u.addr = i
      BY <1>2, <2>1, ReachedKinds
    <3>2. content'[c] = ByteOf({u.bit}, u.n, i)
      BY <1>1, <1>2, <2>1, <3>1 DEF Write, WriteChip
    <3>3. content'[c] = {b \in Bits : u.bit < 8 * u.n /\ i = u.n - 1 - u.bit \div 8 /\ b = u.bit % 8}
      BY <1>2, <3>2, ByteOfOne
    <3>4. ASSUME NEW b \in Bits
          PROVE  <<c, b>> \in u.moves <=> u.bit < 8 * u.n /\ i = u.n - 1 - u.bit \div 8 /\ b = u.bit % 8
      <4> DEFINE at == u.addr + u.n - 1 - u.bit \div 8
      <4>1. <<c, b>> \in u.moves <=> u.bit < 8 * u.n /\ c = <<"chip", at>> /\ b = u.bit % 8
        BY <1>2 DEF BitOf
      <4>2. c = <<"chip", at>> <=> i = u.n - 1 - u.bit \div 8
        BY <1>2, <3>1 DEF Width
      <4> QED
        BY <4>1, <4>2
    <3>5. meant'[c] = {b \in Bits : <<c, b>> \in u.moves}
      BY <1>1, <2>1
    <3> QED
      BY <3>3, <3>4, <3>5
  <2>2. CASE c \notin Reached(u.addr, u.n)
    <3>1. content'[c] = content[c]
      BY <1>1, <2>2, WriteKeepsChip DEF BitsInv, ContentTyped
    <3> QED
      BY <1>1, <1>4, <2>2, <3>1 DEF BitsInv, AsMeant
  <2> QED
    BY <2>1, <2>2
<1>5. AsMeant'
  BY <1>1, <1>4 DEF BitsInv, AsMeant
<1>6. raced \cap WriteOnly \subseteq raced'
  <2>1. \A c \in Reached(u.addr, u.n) : c \notin WriteOnly
    BY <1>2, ReachedKinds, Kinds DEF Custom
  <2> QED
    BY <1>1, <2>1
<1>7. \A q \in Programs : acc'[q] # NoAccess => Pending(acc'[q], raced')
  BY <1>1, <1>6, StillPending DEF BitsInv
<1>8. ops' \in 0 .. MaxOps /\ DOMAIN acc' = Programs
  BY <1>1, MemoryAssumption DEF BitsInv
<1> QED
  BY <1>3, <1>5, <1>7, <1>8 DEF BitsInv

LEMMA ReadWholeKept ==
  ASSUME AllTyped, BitsInv, NEW p \in Programs, NEW u \in Uses(p), ReadWhole(p, u)
  PROVE  BitsInv'
<1>1. PICK r \in Reads(u.addr, u.n) :
        /\ content' = r.content /\ last' = r.last
        /\ raced' = raced \cup {c \in Reached(u.addr, u.n) : r.content[c] # content[c]}
  BY DEF ReadWhole
<1>2. ops < MaxOps /\ ops' = ops + 1 /\ meant' = meant /\ acc' = acc
  BY DEF ReadWhole
<1>3. ReadKept(u, r)
  BY UsesPlain, ReadsKept DEF BitsInv
<1>4. ContentTyped' /\ last' \subseteq Word /\ ops' \in 0 .. MaxOps
  BY <1>1, <1>2, <1>3, MemoryAssumption DEF BitsInv, ContentTyped, ReadKept, BitsOf
<1>5. ASSUME NEW c \in Places, c \notin raced' PROVE content'[c] = meant'[c]
  <2>1. c \notin raced /\ r.content[c] = content[c]
    BY <1>1, <1>3, <1>5 DEF ReadKept
  <2> QED
    BY <1>1, <1>2, <2>1 DEF BitsInv, AsMeant
<1>6. AsMeant'
  BY <1>1, <1>2, <1>5, ReachedPlaces DEF BitsInv, AsMeant
<1>7. \A q \in Programs : acc'[q] # NoAccess => Pending(acc'[q], raced')
  <2>1. raced \cap WriteOnly \subseteq raced'
    BY <1>1
  <2> QED
    BY <1>2, <2>1, StillPending DEF BitsInv
<1> QED
  BY <1>2, <1>4, <1>6, <1>7 DEF BitsInv

LEMMA BitsStep == AllTyped /\ BitsInv /\ [Next]_vars => BitsInv'
<1> SUFFICES ASSUME AllTyped, BitsInv, [Next]_vars PROVE BitsInv'
  OBVIOUS
<1>1. ASSUME content' = content, last' = last, acc' = acc, meant' = meant, raced' = raced, ops' \in 0 .. MaxOps
      PROVE  BitsInv'
  BY <1>1 DEF BitsInv, ContentTyped, AsMeant, BitsOf
<1>2. CASE UNCHANGED vars
  BY <1>1, <1>2 DEF vars, memoryVars, BitsInv
<1>3. ASSUME NEW p \in Programs, Allocating(p) PROVE BitsInv'
  <2>1. ops' \in 0 .. MaxOps
    BY <1>3, MemoryAssumption DEF Allocating, BitsInv
  <2> QED
    BY <1>1, <1>3, <2>1 DEF Allocating
<1>4. ASSUME NEW p \in Programs, NEW u \in Uses(p), Access(p, u) PROVE BitsInv'
  <2>1. u.op = "Read" => ReadWhole(p, u)
    BY <1>4 DEF Access
  <2>2. u.op = "Write" => WriteWhole(p, u)
    BY <1>4 DEF Access
  <2>3. u.op \notin {"Read", "Write"} => BitGet(p, u)
    BY <1>4 DEF Access
  <2> QED
    BY <2>1, <2>2, <2>3, ReadWholeKept, WriteWholeKept, BitGetKept
<1> QED
  BY <1>2, <1>3, <1>4, BitPutKept DEF Next

\* At every moment, whatever the number of programs, the size of the memory and the
\* calls made, every place holds what the calls that changed bits of it would have
\* left had each been done at once, but for those another changed between a call's
\* read and its write: the addresses, the order of the bytes, the width of the
\* accesses and the bits a register keeps fit together.
THEOREM BitsAreKeptHolds == Spec => []BitsAreKept
<1>1. Init => BitsInv
  BY BitsInit
<1>2. AllTyped /\ BitsInv /\ [Next]_vars => BitsInv'
  BY BitsStep
<1>3. AllTyped /\ BitsInv => BitsAreKept
  <2> SUFFICES ASSUME AllTyped, BitsInv PROVE BitsAreKept
    OBVIOUS
  <2>1. used \in 0 .. MaxEntries
    BY WaitingNat, AllocAssumption DEF AllTyped
  <2>2. \A c \in Places : content[c] \subseteq (IF c \in Custom THEN Word ELSE Bits)
    BY DEF BitsInv, ContentTyped, BitsOf
  <2>3. virtual \in BOOLEAN /\ overlapped \in BOOLEAN /\ astray \in BOOLEAN
    BY Zenon DEF AllTyped
  <2>4. TypeOK
    BY <2>1, <2>2, <2>3 DEF TypeOK, AllTyped, BitsInv, ContentTyped, AsMeant
  <2> QED
    BY <2>4 DEF BitsAreKept, BitsInv, AsMeant
<1> QED
  BY <1>1, <1>2, <1>3, AllTypedHolds, PTL DEF Spec
=============================================================================
