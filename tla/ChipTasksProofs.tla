-------------------------- MODULE ChipTasksProofs --------------------------
(* Theorems about ChipTasks.tla, for any number of tasks and any timing.   *)
EXTENDS ChipTasks, FiniteSetTheorems, SequenceTheorems, TLAPS

Instr ==
  [step : {"stop", "cia_due", "blitter_due", "rest", "update", "mark", "arm", "change",
           "scan", "set", "load", "store", "take", "clear", "start", "finish", "off"}]
  \cup [step : {"obtain", "release"}, mutex : Mutexes]
  \cup [step : {"raise"}, flag : Flags]

-----------------------------------------------------------------------------
(***************************************************************************)
(* Counting in what a task has still to do.  A call gives back every mutex *)
(* it takes, so that what is left of it tells what the task holds: Held    *)
(* is how often m is given back from step i on, less how often it is taken.*)
(***************************************************************************)
Taking(m) == [step |-> "obtain", mutex |-> m]
Giving(m) == [step |-> "release", mutex |-> m]

Count(s, i, x) == Cardinality({j \in i..Len(s) : s[j] = x})
Held(s, i, m) == Count(s, i, Giving(m)) - Count(s, i, Taking(m))

LEMMA CountFinite ==
  ASSUME NEW s \in Seq(Instr), NEW i \in Nat, NEW x
  PROVE  IsFiniteSet({j \in i..Len(s) : s[j] = x}) /\ Count(s, i, x) \in Nat
<1>1. Len(s) \in Nat
  BY LenProperties
<1>2. IsFiniteSet(i..Len(s))
  BY <1>1, FS_Interval
<1>3. {j \in i..Len(s) : s[j] = x} \in SUBSET (i..Len(s))
  OBVIOUS
<1>4. IsFiniteSet({j \in i..Len(s) : s[j] = x})
  BY <1>2, <1>3, FS_Subset
<1> QED
  BY <1>4, FS_CardinalityType DEF Count

LEMMA CountEnd ==
  ASSUME NEW s \in Seq(Instr), NEW x
  PROVE  Count(s, Len(s) + 1, x) = 0
<1>1. {j \in Len(s) + 1 .. Len(s) : s[j] = x} = {}
  BY LenProperties
<1> QED
  BY <1>1, FS_EmptySet DEF Count

LEMMA CountStep ==
  ASSUME NEW s \in Seq(Instr), NEW i \in 1..Len(s), NEW x
  PROVE  Count(s, i, x) = (IF s[i] = x THEN 1 ELSE 0) + Count(s, i + 1, x)
<1> DEFINE S == {j \in i + 1 .. Len(s) : s[j] = x}
<1>1. Len(s) \in Nat
  BY LenProperties
<1>2. IsFiniteSet(S) /\ Cardinality(S) = Count(s, i + 1, x) /\ Cardinality(S) \in Nat
  <2>1. i + 1 \in Nat
    BY <1>1
  <2>2. IsFiniteSet(S) /\ Count(s, i + 1, x) \in Nat
    BY <2>1, CountFinite
  <2> QED
    BY <2>2 DEF Count
<1>3. i \notin S
  OBVIOUS
<1>4. {j \in i..Len(s) : s[j] = x} = IF s[i] = x THEN S \cup {i} ELSE S
  BY <1>1
<1>5. Count(s, i, x) = Cardinality(IF s[i] = x THEN S \cup {i} ELSE S)
  BY <1>4 DEF Count
<1> HIDE DEF S
<1>6. Cardinality(S \cup {i}) = Cardinality(S) + 1
  BY <1>2, <1>3, FS_AddElement
<1>7. CASE s[i] = x
  BY <1>2, <1>5, <1>6, <1>7
<1>8. CASE s[i] # x
  BY <1>2, <1>5, <1>8
<1> QED
  BY <1>7, <1>8

\* Behind a the steps of b follow, only later.
LEMMA CountBehind ==
  ASSUME NEW a \in Seq(Instr), NEW b \in Seq(Instr), NEW i \in Nat \ {0}, NEW x
  PROVE  Count(a \o b, Len(a) + i, x) = Count(b, i, x)
<1> DEFINE S == {j \in i..Len(b) : b[j] = x}
           T == {j \in Len(a) + i .. Len(a \o b) : (a \o b)[j] = x}
           f == [j \in S |-> Len(a) + j]
<1>1. Len(a) \in Nat /\ Len(b) \in Nat
  BY LenProperties
<1>2. /\ Len(a \o b) = Len(a) + Len(b)
      /\ \A j \in 1 .. Len(a) + Len(b) :
           (a \o b)[j] = IF j <= Len(a) THEN a[j] ELSE b[j - Len(a)]
  BY ConcatProperties
<1>3. ASSUME NEW j \in S PROVE f[j] \in T
  <2>1. (a \o b)[Len(a) + j] = b[j]
    <3>1. Len(a) + j \in 1 .. Len(a) + Len(b) /\ ~(Len(a) + j <= Len(a))
          /\ (Len(a) + j) - Len(a) = j
      BY <1>1
    <3> QED
      BY <1>2, <3>1
  <2> QED
    BY <1>1, <1>2, <2>1
<1>4. ASSUME NEW j \in T PROVE \E k \in S : f[k] = j
  <2>1. j \in 1 .. Len(a) + Len(b) /\ ~(j <= Len(a)) /\ j - Len(a) \in i..Len(b)
    BY <1>1, <1>2
  <2>2. b[j - Len(a)] = x
    BY <1>2, <2>1
  <2>3. j - Len(a) \in S /\ f[j - Len(a)] = j
    BY <1>1, <2>1, <2>2
  <2> QED
    BY <2>3
<1>5. \A j, k \in S : f[j] = f[k] => j = k
  BY <1>1
<1>6. f \in [S -> T] /\ (\A j, k \in S : f[j] = f[k] => j = k) /\ (\A j \in T : \E k \in S : f[k] = j)
  BY <1>3, <1>4, <1>5
<1> HIDE DEF f, S, T
<1>7. ExistsBijection(S, T)
  <2>1. f \in Bijection(S, T)
    BY <1>6 DEF Bijection, Injection, Surjection, IsInjective
  <2> QED
    BY <2>1 DEF ExistsBijection
<1>8. IsFiniteSet(S)
  BY CountFinite DEF S
<1>9. Cardinality(T) = Cardinality(S)
  BY <1>7, <1>8, FS_Bijection
<1> QED
  BY <1>9 DEF Count, S, T

LEMMA CountBefore ==
  ASSUME NEW a \in Seq(Instr), NEW b \in Seq(Instr), NEW i \in 1 .. Len(a) + 1, NEW x
  PROVE  Count(a \o b, i, x) = Count(a, i, x) + Count(b, 1, x)
<1> DEFINE S == {j \in i..Len(a) : a[j] = x}
           T == {j \in Len(a) + 1 .. Len(a \o b) : (a \o b)[j] = x}
<1>1. Len(a) \in Nat /\ Len(b) \in Nat /\ a \o b \in Seq(Instr)
  BY LenProperties, ConcatProperties
<1>2. /\ Len(a \o b) = Len(a) + Len(b)
      /\ \A j \in 1 .. Len(a) + Len(b) :
           (a \o b)[j] = IF j <= Len(a) THEN a[j] ELSE b[j - Len(a)]
  BY ConcatProperties
<1>3. {j \in i .. Len(a \o b) : (a \o b)[j] = x} = S \cup T
  BY <1>1, <1>2
<1>4. S \cap T = {}
  BY <1>1
<1>5. IsFiniteSet(S) /\ IsFiniteSet(T)
  <2>1. i \in Nat /\ Len(a) + 1 \in Nat
    BY <1>1
  <2>2. IsFiniteSet(S)
    BY <2>1, CountFinite
  <2>3. IsFiniteSet(T)
    BY <1>1, <2>1, CountFinite
  <2> QED
    BY <2>2, <2>3
<1>6. Cardinality(S) \in Nat /\ Cardinality(T) \in Nat
  BY <1>5, FS_CardinalityType
<1>7. Cardinality(T) = Count(b, 1, x)
  <2>1. Count(a \o b, Len(a) + 1, x) = Count(b, 1, x)
    BY CountBehind
  <2>2. Count(a \o b, Len(a) + 1, x) = Cardinality(T)
    BY DEF Count
  <2> QED
    BY <2>1, <2>2
<1> HIDE DEF S, T
<1>8. Cardinality(S \cup T) = Cardinality(S) + Cardinality(T)
  <2>1. Cardinality(S \cup T) = Cardinality(S) + Cardinality(T) - Cardinality(S \cap T)
    BY <1>5, FS_Union
  <2>2. Cardinality({}) = 0
    BY FS_EmptySet
  <2>3. Cardinality(S \cap T) = 0
    BY <1>4, <2>2, Zenon
  <2> QED
    BY <1>6, <2>1, <2>3
<1>9. Count(a \o b, i, x) = Cardinality(S \cup T) /\ Count(a, i, x) = Cardinality(S)
  BY <1>3 DEF Count, S, T
<1> QED
  BY <1>7, <1>8, <1>9

\* What a step does to what is held.
Given(x, m) == IF x = Giving(m) THEN 1 ELSE IF x = Taking(m) THEN -1 ELSE 0

LEMMA HeldStep ==
  ASSUME NEW s \in Seq(Instr), NEW i \in 1..Len(s), NEW m
  PROVE  Held(s, i, m) = Given(s[i], m) + Held(s, i + 1, m)
<1>1. /\ Count(s, i, Giving(m)) = (IF s[i] = Giving(m) THEN 1 ELSE 0) + Count(s, i + 1, Giving(m))
      /\ Count(s, i, Taking(m)) = (IF s[i] = Taking(m) THEN 1 ELSE 0) + Count(s, i + 1, Taking(m))
  BY CountStep
<1>2. /\ Count(s, i + 1, Giving(m)) \in Nat /\ Count(s, i + 1, Taking(m)) \in Nat
  <2>1. i + 1 \in Nat
    BY LenProperties
  <2> QED
    BY <2>1, CountFinite
<1>3. Giving(m) # Taking(m)
  BY DEF Giving, Taking
<1> HIDE DEF Giving, Taking
<1> QED
  BY <1>1, <1>2, <1>3 DEF Held, Given

LEMMA HeldInt ==
  ASSUME NEW s \in Seq(Instr), NEW i \in Nat, NEW m
  PROVE  Held(s, i, m) \in Int
<1>1. Count(s, i, Giving(m)) \in Nat /\ Count(s, i, Taking(m)) \in Nat
  BY CountFinite
<1> QED
  BY <1>1 DEF Held

LEMMA HeldEnd ==
  ASSUME NEW s \in Seq(Instr), NEW m
  PROVE  Held(s, Len(s) + 1, m) = 0
BY CountEnd DEF Held

LEMMA HeldBehind ==
  ASSUME NEW a \in Seq(Instr), NEW b \in Seq(Instr), NEW i \in Nat \ {0}, NEW m
  PROVE  Held(a \o b, Len(a) + i, m) = Held(b, i, m)
BY CountBehind DEF Held

LEMMA HeldBefore ==
  ASSUME NEW a \in Seq(Instr), NEW b \in Seq(Instr), NEW i \in 1 .. Len(a) + 1, NEW m
  PROVE  Held(a \o b, i, m) = Held(a, i, m) + Held(b, 1, m)
<1>1. i \in Nat /\ 1 \in Nat
  BY LenProperties
<1>2. /\ Count(a, i, Giving(m)) \in Nat /\ Count(a, i, Taking(m)) \in Nat
      /\ Count(b, 1, Giving(m)) \in Nat /\ Count(b, 1, Taking(m)) \in Nat
  BY <1>1, CountFinite
<1>3. /\ Count(a \o b, i, Giving(m)) = Count(a, i, Giving(m)) + Count(b, 1, Giving(m))
      /\ Count(a \o b, i, Taking(m)) = Count(a, i, Taking(m)) + Count(b, 1, Taking(m))
  BY CountBefore
<1> QED
  BY <1>2, <1>3 DEF Held

LEMMA ConsTail ==
  ASSUME NEW s \in Seq(Instr), s # <<>>
  PROVE  /\ Tail(s) \in Seq(Instr) /\ Head(s) = s[1] /\ s[1] \in Instr /\ Len(s) \in Nat \ {0}
         /\ <<s[1]>> \in Seq(Instr) /\ Len(<<s[1]>>) = 1
         /\ s = <<s[1]>> \o Tail(s)
         /\ Len(Tail(s)) = Len(s) - 1
         /\ \A i \in 1..Len(Tail(s)) : Tail(s)[i] = s[i + 1]
<1>1. Len(s) \in Nat \ {0}
  BY EmptySeq
<1>2. Head(s) = s[1]
  OBVIOUS
<1>3. /\ Head(s) \in Instr
      /\ Tail(s) \in Seq(Instr)
      /\ Len(Tail(s)) = Len(s) - 1
      /\ \A i \in 1..Len(Tail(s)) : Tail(s)[i] = s[i + 1]
  BY HeadTailProperties
<1> DEFINE one == <<s[1]>>
           u == one \o Tail(s)
<1>4. one \in Seq(Instr) /\ Len(one) = 1 /\ one[1] = s[1]
  BY <1>2, <1>3
<1> HIDE DEF one
<1>5. /\ u \in Seq(Instr) /\ Len(u) = Len(s)
      /\ \A i \in 1..Len(s) : u[i] = IF i <= 1 THEN one[i] ELSE Tail(s)[i - 1]
  <2> DEFINE rest == Tail(s)
  <2>1. rest \in Seq(Instr) /\ Len(rest) = Len(s) - 1
    BY <1>3
  <2> HIDE DEF rest
  <2>2. /\ one \o rest \in Seq(Instr)
        /\ Len(one \o rest) = Len(one) + Len(rest)
        /\ \A i \in 1 .. Len(one) + Len(rest) :
             (one \o rest)[i] = IF i <= Len(one) THEN one[i] ELSE rest[i - Len(one)]
    BY <1>4, <2>1, ConcatProperties
  <2>3. Len(one) + Len(rest) = Len(s)
    BY <1>1, <1>4, <2>1
  <2> QED
    BY <1>4, <2>2, <2>3 DEF rest
<1> HIDE DEF u
<1>6. \A i \in 1..Len(s) : s[i] = u[i]
  BY <1>1, <1>3, <1>4, <1>5
<1>7. s = u
  BY <1>5, <1>6, SeqEqual
<1> QED
  BY <1>1, <1>2, <1>3, <1>4, <1>7 DEF one, u

LEMMA HeldTail ==
  ASSUME NEW s \in Seq(Instr), s # <<>>, NEW i \in Nat \ {0}, NEW m
  PROVE  Held(Tail(s), i, m) = Held(s, i + 1, m)
<1>1. /\ Tail(s) \in Seq(Instr) /\ <<s[1]>> \in Seq(Instr) /\ Len(<<s[1]>>) = 1
      /\ s = <<s[1]>> \o Tail(s)
  BY ConsTail
<1> DEFINE one == <<s[1]>>
           rest == Tail(s)
<1>2. one \in Seq(Instr) /\ rest \in Seq(Instr) /\ Len(one) = 1 /\ s = one \o rest
  BY <1>1
<1> HIDE DEF one, rest
<1>3. Held(one \o rest, Len(one) + i, m) = Held(rest, i, m)
  <2>1. \A a, b \in Seq(Instr) : Held(a \o b, Len(a) + i, m) = Held(b, i, m)
    BY HeldBehind
  <2> QED
    BY <1>2, <2>1
<1>4. Len(one) + i = i + 1
  BY <1>2
<1> QED
  BY <1>2, <1>3, <1>4, Zenon DEF rest

LEMMA HeldOne ==
  ASSUME NEW x \in Instr, NEW m
  PROVE  Held(<<x>>, 1, m) = Given(x, m)
<1> DEFINE s == <<x>>
<1>1. s \in Seq(Instr) /\ Len(s) = 1 /\ s[1] = x
  OBVIOUS
<1> HIDE DEF s
<1>2. 1 \in 1..Len(s)
  BY <1>1
<1>3. Held(s, 1, m) = Given(s[1], m) + Held(s, 1 + 1, m)
  BY <1>1, <1>2, HeldStep
<1>4. Held(s, Len(s) + 1, m) = 0
  BY <1>1, HeldEnd
<1> QED
  BY <1>1, <1>3, <1>4 DEF Given, s

-----------------------------------------------------------------------------
(***************************************************************************)
(* What the code of a task promises: Sound.  h is what the caller adds:    *)
(* mutexes it holds, and "scan" if it looks for the next event afterwards. *)
(***************************************************************************)
Needs(name) ==
  IF name \in {"update", "raise", "take", "clear"} THEN {"cia_mx"}
  ELSE IF name \in {"scan", "set"} THEN {"event_mx"} ELSE {}

\* The second steps of a read and a write, and what comes before them.
Seconds == {"clear", "raise", "store", "set"}
FirstOf(name) == IF name = "clear" THEN "take" ELSE IF name = "set" THEN "scan" ELSE "load"

\* The steps after which nextevent may not be the nearest event any more.
Moves == {"stop", "rest", "arm", "start", "off", "blitter_due"}

Scans(s) == \E i \in 1..Len(s) : s[i].step = "scan"

Paired(s) ==
  \A i \in 1..Len(s) :
    /\ i > 1 /\ s[i].step \in Seconds => s[i - 1].step = FirstOf(s[i].step)
    /\ s[i].step \in {"scan", "take"} =>
         i < Len(s) /\ s[i + 1].step \in Seconds /\ FirstOf(s[i + 1].step) = s[i].step

Sound(s, h) ==
  /\ s \in Seq(Instr)
  /\ \A i \in 1..Len(s), m \in Mutexes : Held(s, i, m) >= 0
  /\ \A i \in 1..Len(s) : \A m \in Needs(s[i].step) : m \in h \/ Held(s, i, m) >= 1
  /\ Paired(s)
  /\ \A i \in 1..Len(s) :
       s[i].step \in Moves => "scan" \in h \/ \E j \in (i + 1)..Len(s) : s[j].step = "scan"

\* A piece of code that can be called: it gives back what it takes.
Piece(s, h) ==
  /\ Sound(s, h)
  /\ Len(s) > 0 /\ s[1].step \notin Seconds
  /\ \A m \in Mutexes : Held(s, 1, m) = 0

LEMMA JoinedPairs ==
  ASSUME NEW a \in Seq(Instr), NEW b \in Seq(Instr), Paired(a), Paired(b),
         Len(b) > 0 => b[1].step \notin Seconds
  PROVE  Paired(a \o b)
<1> DEFINE s == a \o b
<1>1. /\ Len(a) \in Nat /\ Len(b) \in Nat /\ Len(s) = Len(a) + Len(b)
      /\ \A i \in 1 .. Len(a) + Len(b) : s[i] = IF i <= Len(a) THEN a[i] ELSE b[i - Len(a)]
  BY LenProperties, ConcatProperties
<1> HIDE DEF s
<1>2. ASSUME NEW i \in 1..Len(a)
      PROVE  /\ s[i] = a[i]
             /\ i > 1 => s[i - 1] = a[i - 1]
             /\ i < Len(a) => s[i + 1] = a[i + 1] /\ i < Len(s)
  BY <1>1
<1>3. ASSUME NEW j \in 1..Len(b)
      PROVE  /\ s[Len(a) + j] = b[j]
             /\ j > 1 => s[Len(a) + j - 1] = b[j - 1]
             /\ j < Len(b) => s[Len(a) + j + 1] = b[j + 1] /\ Len(a) + j < Len(s)
  <2>1. s[Len(a) + j] = b[j]
    <3>1. Len(a) + j \in 1 .. Len(a) + Len(b) /\ ~(Len(a) + j <= Len(a)) /\ (Len(a) + j) - Len(a) = j
      BY <1>1
    <3> QED
      BY <1>1, <3>1
  <2>2. ASSUME j > 1 PROVE s[Len(a) + j - 1] = b[j - 1]
    <3>1. /\ Len(a) + j - 1 \in 1 .. Len(a) + Len(b) /\ ~(Len(a) + j - 1 <= Len(a))
          /\ (Len(a) + j - 1) - Len(a) = j - 1
      BY <1>1, <2>2
    <3> QED
      BY <1>1, <3>1
  <2>3. ASSUME j < Len(b) PROVE s[Len(a) + j + 1] = b[j + 1]
    <3>1. /\ Len(a) + j + 1 \in 1 .. Len(a) + Len(b) /\ ~(Len(a) + j + 1 <= Len(a))
          /\ (Len(a) + j + 1) - Len(a) = j + 1
      BY <1>1, <2>3
    <3> QED
      BY <1>1, <3>1
  <2> QED
    BY <1>1, <2>1, <2>2, <2>3
<1>4. ASSUME NEW i \in 1..Len(s)
      PROVE  /\ i > 1 /\ s[i].step \in Seconds => s[i - 1].step = FirstOf(s[i].step)
             /\ s[i].step \in {"scan", "take"} =>
                  i < Len(s) /\ s[i + 1].step \in Seconds /\ FirstOf(s[i + 1].step) = s[i].step
  <2>1. CASE i <= Len(a)
    <3>1. i \in 1..Len(a)
      BY <1>1, <2>1
    <3> QED
      BY <1>2, <3>1 DEF Paired
  <2>2. CASE i > Len(a)
    <3>1. PICK j \in 1..Len(b) : i = Len(a) + j
      <4>1. i - Len(a) \in 1..Len(b) /\ i = Len(a) + (i - Len(a))
        BY <1>1, <2>2
      <4> QED
        BY <4>1
    <3>2. j = 1 => s[i].step \notin Seconds
      BY <1>3, <3>1
    <3>3. s[i] = b[j] /\ (j > 1 => s[i - 1] = b[j - 1])
          /\ (j < Len(b) => s[i + 1] = b[j + 1] /\ i < Len(s))
      BY <1>3, <3>1
    <3> QED
      BY <3>1, <3>2, <3>3 DEF Paired
  <2> QED
    BY <1>1, <2>1, <2>2
<1> QED
  BY <1>4 DEF Paired, s

\* Two stretches of code one after the other.
Fits(a, b, g) ==
  /\ a \in Seq(Instr) /\ Paired(a) /\ Sound(b, g)
  /\ Len(b) > 0 => b[1].step \notin Seconds
  /\ \A i \in 1..Len(a), m \in Mutexes : Held(a, i, m) + Held(b, 1, m) >= 0
  /\ \A i \in 1..Len(a) : \A m \in Needs(a[i].step) :
       m \in g \/ Held(a, i, m) + Held(b, 1, m) >= 1
  /\ \A i \in 1..Len(a) : a[i].step \in Moves =>
       "scan" \in g \/ (\E j \in (i + 1)..Len(a) : a[j].step = "scan") \/ Scans(b)

LEMMA Joined ==
  ASSUME NEW a, NEW b, NEW g, Fits(a, b, g)
  PROVE  /\ Sound(a \o b, g)
         /\ \A m : Held(a \o b, 1, m) = Held(a, 1, m) + Held(b, 1, m)
         /\ Scans(a) \/ Scans(b) => Scans(a \o b)
         /\ Len(a \o b) = Len(a) + Len(b)
         /\ Len(a) > 0 => (a \o b)[1] = a[1]
<1> DEFINE s == a \o b
<1>0. a \in Seq(Instr) /\ b \in Seq(Instr)
  BY DEF Fits, Sound
<1>1. /\ Len(a) \in Nat /\ Len(b) \in Nat /\ Len(s) = Len(a) + Len(b) /\ s \in Seq(Instr)
      /\ \A i \in 1 .. Len(a) + Len(b) : s[i] = IF i <= Len(a) THEN a[i] ELSE b[i - Len(a)]
  BY <1>0, LenProperties, ConcatProperties
<1>2. \A i \in 1 .. Len(a) + 1 : \A m : Held(s, i, m) = Held(a, i, m) + Held(b, 1, m)
  BY <1>0, HeldBefore
<1>3. \A j \in Nat \ {0} : \A m : Held(s, Len(a) + j, m) = Held(b, j, m)
  BY <1>0, HeldBehind
<1>4. Paired(s)
  BY <1>0, JoinedPairs DEF Fits, Sound
<1> HIDE DEF s
<1>5. \A i \in 1..Len(a) : s[i] = a[i]
  BY <1>1
<1>6. ASSUME NEW j \in 1..Len(b)
      PROVE  Len(a) + j \in 1..Len(s) /\ s[Len(a) + j] = b[j]
  <2>1. Len(a) + j \in 1 .. Len(a) + Len(b) /\ ~(Len(a) + j <= Len(a)) /\ (Len(a) + j) - Len(a) = j
    BY <1>1
  <2> QED
    BY <1>1, <2>1
<1>7. ASSUME NEW i \in 1..Len(s)
      PROVE  i \in 1..Len(a) \/ \E j \in 1..Len(b) : i = Len(a) + j
  <2>1. CASE i > Len(a)
    <3>1. i - Len(a) \in 1..Len(b) /\ i = Len(a) + (i - Len(a))
      BY <1>1, <2>1
    <3> QED
      BY <3>1
  <2>2. CASE i <= Len(a)
    BY <1>1, <2>2
  <2> QED
    BY <1>1, <2>1, <2>2
<1>8. ASSUME NEW i \in 1..Len(s), NEW m \in Mutexes PROVE Held(s, i, m) >= 0
  <2>1. CASE i \in 1..Len(a)
    <3>1. Held(s, i, m) = Held(a, i, m) + Held(b, 1, m)
      BY <1>1, <1>2, <2>1
    <3> QED
      BY <2>1, <3>1 DEF Fits
  <2>2. ASSUME NEW j \in 1..Len(b), i = Len(a) + j PROVE Held(s, i, m) >= 0
    <3>1. Held(s, i, m) = Held(b, j, m)
      BY <1>3, <2>2
    <3> QED
      BY <3>1 DEF Fits, Sound
  <2> QED
    BY <1>7, <2>1, <2>2
<1>9. ASSUME NEW i \in 1..Len(s), NEW m \in Needs(s[i].step)
      PROVE  m \in g \/ Held(s, i, m) >= 1
  <2>1. CASE i \in 1..Len(a)
    <3>1. Held(s, i, m) = Held(a, i, m) + Held(b, 1, m) /\ s[i] = a[i]
      BY <1>1, <1>2, <1>5, <2>1
    <3> QED
      BY <1>9, <2>1, <3>1 DEF Fits
  <2>2. ASSUME NEW j \in 1..Len(b), i = Len(a) + j PROVE m \in g \/ Held(s, i, m) >= 1
    <3>1. Held(s, i, m) = Held(b, j, m) /\ s[i] = b[j]
      BY <1>3, <1>6, <2>2
    <3> QED
      BY <1>9, <3>1 DEF Fits, Sound
  <2> QED
    BY <1>7, <2>1, <2>2
<1>10. ASSUME NEW i \in 1..Len(s), s[i].step \in Moves
       PROVE  "scan" \in g \/ \E j \in (i + 1)..Len(s) : s[j].step = "scan"
  <2>1. CASE i \in 1..Len(a)
    <3>1. \/ "scan" \in g
          \/ \E j \in (i + 1)..Len(a) : a[j].step = "scan"
          \/ Scans(b)
      BY <1>5, <1>10, <2>1 DEF Fits
    <3>2. ASSUME NEW j \in (i + 1)..Len(a), a[j].step = "scan"
          PROVE  j \in (i + 1)..Len(s) /\ s[j].step = "scan"
      BY <1>1, <1>5, <2>1, <3>2
    <3>3. ASSUME NEW j \in 1..Len(b), b[j].step = "scan"
          PROVE  Len(a) + j \in (i + 1)..Len(s) /\ s[Len(a) + j].step = "scan"
      <4>1. Len(a) + j \in (i + 1)..Len(s)
        BY <1>1, <2>1
      <4> QED
        BY <1>6, <3>3, <4>1
    <3> QED
      BY <3>1, <3>2, <3>3 DEF Scans
  <2>2. ASSUME NEW k \in 1..Len(b), i = Len(a) + k
        PROVE  "scan" \in g \/ \E j \in (i + 1)..Len(s) : s[j].step = "scan"
    <3>1. b[k].step \in Moves
      BY <1>6, <1>10, <2>2
    <3>2. CASE "scan" \in g
      BY <3>2
    <3>3. ASSUME NEW l \in (k + 1)..Len(b), b[l].step = "scan"
          PROVE  Len(a) + l \in (i + 1)..Len(s) /\ s[Len(a) + l].step = "scan"
      <4>1. Len(a) + l \in (i + 1)..Len(s) /\ l \in 1..Len(b)
        BY <1>1, <2>2
      <4> QED
        BY <1>6, <3>3, <4>1
    <3> QED
      BY <3>1, <3>2, <3>3 DEF Fits, Sound
  <2> QED
    BY <1>7, <2>1, <2>2
<1>11. Sound(s, g)
  BY <1>1, <1>4, <1>8, <1>9, <1>10 DEF Sound
<1>12. Scans(a) \/ Scans(b) => Scans(s)
  <2>1. ASSUME NEW i \in 1..Len(a), a[i].step = "scan"
        PROVE  i \in 1..Len(s) /\ s[i].step = "scan"
    BY <1>1, <1>5, <2>1
  <2> QED
    BY <1>6, <2>1 DEF Scans
<1>13. 1 \in 1 .. Len(a) + 1
  BY <1>1
<1> QED
  BY <1>1, <1>2, <1>5, <1>11, <1>12, <1>13 DEF s

\* What the code behind a piece has to offer it.
Offers(b, g, h) ==
  /\ \A m \in Mutexes : m \in h => m \in g \/ Held(b, 1, m) >= 1
  /\ "scan" \in h => "scan" \in g \/ Scans(b)

LEMMA BeforeSound ==
  ASSUME NEW a, NEW b, NEW g, NEW h, Piece(a, h), Sound(b, g), Offers(b, g, h),
         Len(b) > 0 => b[1].step \notin Seconds
  PROVE  /\ Sound(a \o b, g)
         /\ \A m \in Mutexes : Held(a \o b, 1, m) = Held(b, 1, m)
         /\ Scans(a) \/ Scans(b) => Scans(a \o b)
         /\ Len(a \o b) > 0 /\ (a \o b)[1].step \notin Seconds
<1>1. a \in Seq(Instr) /\ b \in Seq(Instr) /\ Len(a) \in Nat /\ Len(b) \in Nat
  BY LenProperties DEF Piece, Sound
<1>2. \A m \in Mutexes : Held(b, 1, m) >= 0 /\ Held(b, 1, m) \in Int
  <2>1. \A m : Held(b, 1, m) \in Int
    BY <1>1, HeldInt
  <2>2. CASE Len(b) = 0
    <3>1. \A m : Held(b, Len(b) + 1, m) = 0
      BY <1>1, HeldEnd
    <3> QED
      BY <2>1, <2>2, <3>1
  <2>3. CASE Len(b) > 0
    <3>1. 1 \in 1..Len(b)
      BY <1>1, <2>3
    <3> QED
      BY <2>1, <3>1 DEF Sound
  <2> QED
    BY <1>1, <2>2, <2>3
<1>3. \A i \in 1..Len(a), m \in Mutexes : Held(a, i, m) \in Int /\ Held(a, i, m) >= 0
  <2>1. \A i \in 1..Len(a) : \A m : Held(a, i, m) \in Int
    BY <1>1, HeldInt
  <2> QED
    BY <2>1 DEF Piece, Sound
<1>4. \A i \in 1..Len(a), m \in Mutexes : Held(a, i, m) + Held(b, 1, m) >= 0
  BY <1>2, <1>3
<1>5. ASSUME NEW i \in 1..Len(a), NEW m \in Needs(a[i].step)
      PROVE  m \in g \/ Held(a, i, m) + Held(b, 1, m) >= 1
  <2>1. m \in Mutexes
    BY DEF Needs, Mutexes
  <2>2. m \in h \/ Held(a, i, m) >= 1
    BY DEF Piece, Sound
  <2>3. m \in g \/ Held(b, 1, m) >= 1 \/ Held(a, i, m) >= 1
    BY <2>1, <2>2 DEF Offers
  <2> QED
    BY <1>2, <1>3, <2>1, <2>3
<1>6. \A i \in 1..Len(a) : a[i].step \in Moves =>
        "scan" \in g \/ (\E j \in (i + 1)..Len(a) : a[j].step = "scan") \/ Scans(b)
  BY DEF Piece, Sound, Offers
<1>7. Paired(a)
  BY DEF Piece, Sound
<1>8. /\ Sound(a \o b, g)
      /\ \A m : Held(a \o b, 1, m) = Held(a, 1, m) + Held(b, 1, m)
      /\ Scans(a) \/ Scans(b) => Scans(a \o b)
      /\ Len(a \o b) = Len(a) + Len(b)
      /\ Len(a) > 0 => (a \o b)[1] = a[1]
  <2>1. \A i \in 1..Len(a) : \A m \in Needs(a[i].step) :
          m \in g \/ Held(a, i, m) + Held(b, 1, m) >= 1
    BY <1>5
  <2>2. Sound(b, g) /\ (Len(b) > 0 => b[1].step \notin Seconds)
    OBVIOUS
  <2>3. Fits(a, b, g)
    BY ONLY <1>1, <1>4, <1>6, <1>7, <2>1, <2>2 DEF Fits
  <2> QED
    BY <2>3, Joined
<1> QED
  BY <1>1, <1>2, <1>8 DEF Piece

LEMMA Then ==
  ASSUME NEW a, NEW b, NEW g, NEW h, Piece(a, h), Piece(b, g), Offers(b, g, h)
  PROVE  Piece(a \o b, g) /\ (Scans(a) \/ Scans(b) => Scans(a \o b))
<1>1. Sound(b, g) /\ (Len(b) > 0 => b[1].step \notin Seconds)
      /\ \A m \in Mutexes : Held(b, 1, m) = 0
  BY DEF Piece
<1> QED
  BY <1>1, BeforeSound DEF Piece

LEMMA LockedPiece ==
  ASSUME NEW a, NEW h, NEW m \in Mutexes, Piece(a, h \cup {m})
  PROVE  Piece(Locked(m, a), h) /\ (Scans(a) => Scans(Locked(m, a)))
<1> DEFINE o == <<Taking(m)>>
           r == <<Giving(m)>>
           inner == a \o r
<1>1. Taking(m) \in Instr /\ Giving(m) \in Instr /\ a \in Seq(Instr)
  BY DEF Taking, Giving, Instr, Piece, Sound
<1>2. /\ o \in Seq(Instr) /\ Len(o) = 1 /\ o[1] = Taking(m)
      /\ r \in Seq(Instr) /\ Len(r) = 1 /\ r[1] = Giving(m)
  BY <1>1
<1>3. \A n : Held(o, 1, n) = Given(Taking(m), n) /\ Held(r, 1, n) = Given(Giving(m), n)
  BY <1>1, HeldOne
<1>4. \A n : /\ Given(Taking(m), n) = IF n = m THEN -1 ELSE 0
             /\ Given(Giving(m), n) = IF n = m THEN 1 ELSE 0
  BY DEF Given, Taking, Giving
<1>5. Taking(m).step = "obtain" /\ Giving(m).step = "release"
  BY DEF Taking, Giving
<1>6. (o \o a) \o r = o \o inner
  BY <1>1, <1>2, ConcatAssociative
<1>7. Locked(m, a) = o \o inner
  <2>1. Obtain(m) = o /\ Release(m) = r
    BY DEF Obtain, Release, Taking, Giving
  <2> HIDE DEF o, r
  <2> QED
    BY <1>6, <2>1 DEF Locked
<1> HIDE DEF o, r
<1>8. Sound(r, h) /\ ~Scans(r)
  <2>1. \A i \in 1..Len(r) : i = 1 /\ r[i] = Giving(m) /\ \A n : Held(r, i, n) >= 0
    BY <1>2, <1>3, <1>4
  <2> QED
    BY <1>2, <1>5, <2>1 DEF Sound, Paired, Needs, Seconds, Moves, Scans
<1>9. Offers(r, h, h \cup {m})
  <2>1. Held(r, 1, m) >= 1
    BY <1>3, <1>4
  <2>2. "scan" # m
    BY DEF Mutexes
  <2> QED
    BY <2>1, <2>2 DEF Offers
<1>10. /\ Sound(inner, h)
       /\ \A n \in Mutexes : Held(inner, 1, n) = Held(r, 1, n)
       /\ Scans(a) => Scans(inner)
       /\ Len(inner) > 0 /\ inner[1].step \notin Seconds
  <2>1. Len(r) > 0 => r[1].step \notin Seconds
    BY <1>2, <1>5 DEF Seconds
  <2> QED
    BY <1>8, <1>9, <2>1, BeforeSound
<1> HIDE DEF inner
<1>11. \A n \in Mutexes : Held(o, 1, n) + Held(inner, 1, n) = 0
  BY <1>3, <1>4, <1>10
<1>12. \A i \in 1..Len(o) : i = 1 /\ o[i].step = "obtain"
  BY <1>2, <1>5
<1>13. /\ \A i \in 1..Len(o), n \in Mutexes : Held(o, i, n) + Held(inner, 1, n) >= 0
       /\ \A i \in 1..Len(o) : \A n \in Needs(o[i].step) :
            n \in h \/ Held(o, i, n) + Held(inner, 1, n) >= 1
       /\ \A i \in 1..Len(o) : o[i].step \in Moves =>
            "scan" \in h \/ (\E j \in (i + 1)..Len(o) : o[j].step = "scan") \/ Scans(inner)
       /\ Paired(o)
  BY <1>11, <1>12 DEF Needs, Moves, Paired, Seconds
<1>14. /\ Sound(o \o inner, h)
       /\ \A n : Held(o \o inner, 1, n) = Held(o, 1, n) + Held(inner, 1, n)
       /\ Scans(o) \/ Scans(inner) => Scans(o \o inner)
       /\ Len(o \o inner) = Len(o) + Len(inner)
       /\ Len(o) > 0 => (o \o inner)[1] = o[1]
  BY <1>2, <1>10, <1>13, Joined DEF Fits
<1>15. Len(inner) \in Nat
  BY <1>10, LenProperties DEF Sound
<1> QED
  BY <1>2, <1>5, <1>7, <1>10, <1>11, <1>14, <1>15 DEF Piece, Seconds

-----------------------------------------------------------------------------
(***************************************************************************)
(* The pieces the calls are made of, and the calls.                        *)
(***************************************************************************)
\* Steps that take no mutex and give none back.
LEMMA CalmPiece ==
  ASSUME NEW s \in Seq(Instr), NEW h, Len(s) > 0, s[1].step \notin Seconds, Paired(s),
         \A i \in 1..Len(s) :
           /\ s[i].step \notin {"obtain", "release"}
           /\ Needs(s[i].step) \subseteq h
           /\ s[i].step \in Moves => "scan" \in h
  PROVE  Piece(s, h)
<1>1. \A i \in 1..Len(s) : \A m : s[i] # Taking(m) /\ s[i] # Giving(m)
  BY DEF Taking, Giving
<1>2. ASSUME NEW i \in 1..Len(s), NEW m PROVE Held(s, i, m) = 0
  <2>1. /\ {j \in i..Len(s) : s[j] = Giving(m)} = {}
        /\ {j \in i..Len(s) : s[j] = Taking(m)} = {}
    BY <1>1
  <2>2. Cardinality({}) = 0
    BY FS_EmptySet
  <2>3. Count(s, i, Giving(m)) = 0 /\ Count(s, i, Taking(m)) = 0
    BY <2>1, <2>2, Zenon DEF Count
  <2> QED
    BY <2>3 DEF Held
<1>3. 1 \in 1..Len(s)
  BY LenProperties
<1> QED
  BY <1>2, <1>3 DEF Piece, Sound

LEMMA OnePiece ==
  ASSUME NEW name \in {"stop", "cia_due", "blitter_due", "rest", "update", "mark", "arm",
                       "change", "start", "finish", "off"},
         NEW h, Needs(name) \subseteq h, name \in Moves => "scan" \in h
  PROVE  Piece(Do(name), h)
<1> DEFINE s == Do(name)
<1>1. s \in Seq(Instr) /\ Len(s) = 1 /\ s[1].step = name
  BY DEF Do, Instr
<1>2. name \notin Seconds /\ name \notin {"scan", "take", "obtain", "release"}
  BY DEF Seconds
<1> HIDE DEF s
<1>3. \A i \in 1..Len(s) : i = 1
  BY <1>1
<1>4. Paired(s)
  BY <1>1, <1>2, <1>3 DEF Paired
<1>5. Piece(s, h)
  BY <1>1, <1>2, <1>3, <1>4, CalmPiece
<1> QED
  BY <1>5 DEF s

LEMMA TwoPiece ==
  ASSUME NEW x \in Instr, NEW y \in Instr, NEW h,
         x.step \in {"take", "scan", "load"}, y.step \in Seconds, FirstOf(y.step) = x.step,
         Needs(x.step) \subseteq h, Needs(y.step) \subseteq h
  PROVE  /\ <<x>> \o <<y>> = <<x, y>>
         /\ Piece(<<x>> \o <<y>>, h)
         /\ x.step = "scan" => Scans(<<x>> \o <<y>>)
<1> DEFINE s == <<x, y>>
<1>1. s \in Seq(Instr) /\ Len(s) = 2 /\ s[1] = x /\ s[2] = y
  OBVIOUS
<1>2. <<x>> \o <<y>> = s
  <2> DEFINE a == <<x>>
             b == <<y>>
  <2>1. /\ a \in Seq(Instr) /\ Len(a) = 1 /\ a[1] = x
        /\ b \in Seq(Instr) /\ Len(b) = 1 /\ b[1] = y
    OBVIOUS
  <2> HIDE DEF a, b, s
  <2>2. /\ a \o b \in Seq(Instr) /\ Len(a \o b) = Len(a) + Len(b)
        /\ \A i \in 1 .. Len(a) + Len(b) :
             (a \o b)[i] = IF i <= Len(a) THEN a[i] ELSE b[i - Len(a)]
    BY <2>1, ConcatProperties
  <2>3. Len(a \o b) = 2 /\ (a \o b)[1] = x /\ (a \o b)[2] = y
    BY <2>1, <2>2
  <2>4. \A i \in 1..2 : i = 1 \/ i = 2
    OBVIOUS
  <2>5. a \o b = s
    BY <1>1, <2>2, <2>3, <2>4, SeqEqual
  <2> QED
    BY <2>5 DEF a, b
<1> HIDE DEF s
<1>3. /\ x.step \notin Seconds /\ x.step \notin Moves /\ y.step \notin Moves
      /\ y.step \notin {"scan", "take"}
      /\ x.step \notin {"obtain", "release"} /\ y.step \notin {"obtain", "release"}
  BY DEF Seconds, Moves
<1>4. \A i \in 1..Len(s) : i = 1 \/ i = 2
  BY <1>1
<1>5. Paired(s)
  <2>1. ASSUME NEW i \in 1..Len(s)
        PROVE  /\ i > 1 /\ s[i].step \in Seconds => s[i - 1].step = FirstOf(s[i].step)
               /\ s[i].step \in {"scan", "take"} =>
                    i < Len(s) /\ s[i + 1].step \in Seconds /\ FirstOf(s[i + 1].step) = s[i].step
    <3>1. CASE i = 1
      BY <1>1, <1>3, <3>1
    <3>2. CASE i = 2
      BY <1>1, <1>3, <3>2
    <3> QED
      BY <1>4, <3>1, <3>2
  <2> QED
    BY <2>1 DEF Paired
<1>6. Piece(s, h)
  <2>1. \A i \in 1..Len(s) :
          /\ s[i].step \notin {"obtain", "release"}
          /\ Needs(s[i].step) \subseteq h
          /\ s[i].step \in Moves => "scan" \in h
    BY <1>1, <1>3, <1>4
  <2>2. Len(s) > 0 /\ s[1].step \notin Seconds
    BY <1>1, <1>3
  <2> QED
    BY <1>1, <1>5, <2>1, <2>2, CalmPiece
<1>7. x.step = "scan" => Scans(s)
  BY <1>1 DEF Scans
<1> QED
  BY <1>2, <1>6, <1>7 DEF s

LEMMA WidePiece ==
  ASSUME NEW s, NEW g, NEW h, Piece(s, g), g \subseteq h
  PROVE  Piece(s, h)
BY DEF Piece, Sound

\* Two pieces of which the second asks for no more than what is around both.
LEMMA ThenPiece ==
  ASSUME NEW a, NEW b, NEW h, Piece(a, h), Piece(b, h)
  PROVE  Piece(a \o b, h) /\ (Scans(a) \/ Scans(b) => Scans(a \o b))
<1>1. Offers(b, h, h)
  BY DEF Offers
<1> QED
  BY <1>1, Then

\* The second piece looks for the next event.
LEMMA ThenScan ==
  ASSUME NEW a, NEW b, NEW h, Piece(a, h \cup {"scan"}), Piece(b, h), Scans(b)
  PROVE  Piece(a \o b, h)
<1>1. Offers(b, h, h \cup {"scan"})
  BY DEF Offers, Mutexes
<1> QED
  BY <1>1, Then

LEMMA SchedulePiece ==
  ASSUME NEW h
  PROVE  Piece(EventsSchedule, h) /\ Scans(EventsSchedule)
<1> DEFINE g == h \cup {"event_mx"}
<1>1. Piece(Do("scan") \o Do("set"), g) /\ Scans(Do("scan") \o Do("set"))
  <2> DEFINE x == [step |-> "scan"]
             y == [step |-> "set"]
  <2>1. /\ x \in Instr /\ y \in Instr /\ x.step = "scan" /\ y.step = "set"
        /\ x.step \in {"take", "scan", "load"} /\ y.step \in Seconds /\ FirstOf(y.step) = x.step
        /\ Needs(x.step) \subseteq g /\ Needs(y.step) \subseteq g
    BY DEF Instr, Seconds, FirstOf, Needs
  <2> HIDE DEF x, y
  <2>2. Piece(<<x>> \o <<y>>, g) /\ Scans(<<x>> \o <<y>>)
    BY <2>1, TwoPiece
  <2> QED
    BY <2>2 DEF Do, x, y
<1>2. "event_mx" \in Mutexes
  BY DEF Mutexes
<1> QED
  BY <1>1, <1>2, LockedPiece DEF EventsSchedule

LEMMA RethinkPiece ==
  ASSUME NEW h
  PROVE  Piece(Rethink, h)
<1> DEFINE x == [step |-> "load"]
           y == [step |-> "store"]
<1>1. /\ x \in Instr /\ y \in Instr
      /\ x.step \in {"take", "scan", "load"} /\ y.step \in Seconds /\ FirstOf(y.step) = x.step
      /\ Needs(x.step) \subseteq h /\ Needs(y.step) \subseteq h
  BY DEF Instr, Seconds, FirstOf, Needs
<1> HIDE DEF x, y
<1>2. Piece(<<x>> \o <<y>>, h)
  BY <1>1, TwoPiece
<1> QED
  BY <1>2 DEF Rethink, Do, x, y

LEMMA TakePiece ==
  ASSUME NEW h, "cia_mx" \in h
  PROVE  Piece(Do("take") \o Do("clear"), h)
<1> DEFINE x == [step |-> "take"]
           y == [step |-> "clear"]
<1>1. /\ x \in Instr /\ y \in Instr
      /\ x.step \in {"take", "scan", "load"} /\ y.step \in Seconds /\ FirstOf(y.step) = x.step
      /\ Needs(x.step) \subseteq h /\ Needs(y.step) \subseteq h
  BY DEF Instr, Seconds, FirstOf, Needs
<1> HIDE DEF x, y
<1>2. Piece(<<x>> \o <<y>>, h)
  BY <1>1, TwoPiece
<1> QED
  BY <1>2 DEF Do, x, y

LEMMA RaisePiece ==
  ASSUME NEW h, "cia_mx" \in h, NEW f \in Flags
  PROVE  Piece(Raise(f), h)
<1> DEFINE x == [step |-> "load"]
           y == [step |-> "raise", flag |-> f]
<1>1. /\ x \in Instr /\ y \in Instr
      /\ x.step \in {"take", "scan", "load"} /\ y.step \in Seconds /\ FirstOf(y.step) = x.step
      /\ Needs(x.step) \subseteq h /\ Needs(y.step) \subseteq h
  BY DEF Instr, Seconds, FirstOf, Needs
<1> HIDE DEF x, y
<1>2. <<x>> \o <<y>> = <<x, y>> /\ Piece(<<x>> \o <<y>>, h)
  BY <1>1, TwoPiece
<1> QED
  BY <1>2 DEF Raise, x, y

LEMMA CalcTimersPiece ==
  ASSUME NEW h
  PROVE  Piece(CalcTimers, h)
<1> DEFINE g == h \cup {"scan"}
<1>1. Piece(Do("mark"), g) /\ Piece(Do("arm"), g)
  BY OnePiece DEF Needs, Moves
<1>2. Piece(Do("mark") \o Do("arm"), g)
  BY <1>1, ThenPiece
<1> QED
  BY <1>2, SchedulePiece, ThenScan DEF CalcTimers

LEMMA CiaHandlerPiece ==
  ASSUME NEW h
  PROVE  Piece(CiaHandler, h)
<1> DEFINE g == h \cup {"cia_mx"}
<1>1. Piece(Do("update"), g)
  BY OnePiece DEF Needs, Moves
<1>2. Piece(Do("update") \o CalcTimers, g)
  BY <1>1, CalcTimersPiece, ThenPiece
<1>3. "cia_mx" \in Mutexes
  BY DEF Mutexes
<1> QED
  BY <1>2, <1>3, LockedPiece DEF CiaHandler

LEMMA BlitterHandlerPiece ==
  ASSUME NEW h, "scan" \in h
  PROVE  Piece(BlitterHandler, h)
<1>1. Piece(Do("finish"), h) /\ Piece(Do("off"), h)
  BY OnePiece DEF Needs, Moves
<1>2. Piece(Do("finish") \o Rethink, h)
  BY <1>1, RethinkPiece, ThenPiece
<1> QED
  BY <1>1, <1>2, ThenPiece DEF BlitterHandler

LEMMA DuePiece ==
  ASSUME NEW h, "scan" \in h
  PROVE  Piece(Do("cia_due") \o Do("blitter_due"), h)
<1>1. Piece(Do("cia_due"), h) /\ Piece(Do("blitter_due"), h)
  BY OnePiece DEF Needs, Moves
<1> QED
  BY <1>1, ThenPiece

LEMMA RunOutPiece ==
  ASSUME NEW h, "cia_mx" \in h
  PROVE  Piece(Raise("TA") \o Rethink, h)
BY RaisePiece, RethinkPiece, ThenPiece DEF Flags

LEMMA DoCyclesPiece ==
  Piece(DoCyclesSlow, {})
<1> DEFINE a == Do("stop") \o Do("rest")
           g == ({} \cup {"scan"}) \cup {"event_mx"}
<1>1. Piece(Do("stop"), g) /\ Piece(Do("rest"), g)
  BY OnePiece DEF Needs, Moves
<1>2. Piece(a, g)
  BY <1>1, ThenPiece
<1> HIDE DEF a
<1>3. "event_mx" \in Mutexes
  BY DEF Mutexes
<1>4. Piece(Locked("event_mx", a), {} \cup {"scan"})
  BY <1>2, <1>3, LockedPiece
<1> QED
  BY <1>4, SchedulePiece, ThenScan DEF DoCyclesSlow, a

LEMMA CodePiece ==
  ASSUME NEW call \in Calls
  PROVE  Piece(Code(call), {})
<1> DEFINE g == {} \cup {"cia_mx"}
<1>0. "cia_mx" \in Mutexes
  BY DEF Mutexes
<1>1. Piece(Read, {})
  <2>1. Piece(Do("take") \o Do("clear") \o Rethink, g)
    BY TakePiece, RethinkPiece, ThenPiece
  <2> QED
    BY <1>0, <2>1, LockedPiece DEF Read
<1>2. Piece(Restart, {})
  <2>1. Piece(Do("update"), g) /\ Piece(Do("change"), g)
    BY OnePiece DEF Needs, Moves
  <2>2. Piece(Do("update") \o Do("change"), g)
    BY <2>1, ThenPiece
  <2>3. Piece(Do("update") \o Do("change") \o CalcTimers, g)
    BY <2>2, CalcTimersPiece, ThenPiece
  <2> QED
    BY <1>0, <2>3, LockedPiece DEF Restart
<1>3. Piece(WritePrb, {})
  <2>1. Piece(Raise("FLG"), g)
    BY RaisePiece DEF Flags
  <2> QED
    BY <1>0, <2>1, LockedPiece DEF WritePrb
<1>4. Piece(Blit, {})
  <2>1. Piece(Do("start"), {} \cup {"scan"})
    BY OnePiece DEF Needs, Moves
  <2> QED
    BY <2>1, SchedulePiece, ThenScan DEF Blit
<1> QED
  BY <1>1, <1>2, <1>3, <1>4, ChipTasksAssumption DEF Code

-----------------------------------------------------------------------------
(***************************************************************************)
(* Going on: what a step leaves of the code of its task.                   *)
(***************************************************************************)
Firsts == {"take", "scan", "load"}

LEMMA RestSound ==
  ASSUME NEW s, s # <<>>, Sound(s, {})
  PROVE  /\ Sound(Tail(s), {})
         /\ s \in Seq(Instr) /\ s[1] \in Instr /\ Head(s) = s[1] /\ 1 \in 1..Len(s)
         /\ \A m \in Mutexes : Held(s, 1, m) = Given(s[1], m) + Held(Tail(s), 1, m)
         /\ \A m \in Mutexes : Held(Tail(s), 1, m) \in Int /\ Held(Tail(s), 1, m) >= 0
         /\ Len(Tail(s)) > 0 /\ Tail(s)[1].step \in Seconds => s[1].step = FirstOf(Tail(s)[1].step)
         /\ s[1].step \in {"scan", "take"} =>
              Len(Tail(s)) > 0 /\ Tail(s)[1].step \in Seconds /\ FirstOf(Tail(s)[1].step) = s[1].step
         /\ Scans(s) => s[1].step = "scan" \/ Scans(Tail(s))
         /\ s[1].step \in Moves => Scans(Tail(s))
<1> DEFINE r == Tail(s)
<1>0. s \in Seq(Instr)
  BY DEF Sound
<1>1. /\ r \in Seq(Instr) /\ Head(s) = s[1] /\ s[1] \in Instr /\ Len(s) \in Nat \ {0}
      /\ Len(r) = Len(s) - 1
      /\ \A i \in 1..Len(r) : r[i] = s[i + 1]
  BY <1>0, ConsTail
<1>2. \A i \in Nat \ {0} : \A m : Held(r, i, m) = Held(s, i + 1, m)
  BY <1>0, HeldTail
<1> HIDE DEF r
<1>3. \A i \in 1..Len(r) : i \in Nat \ {0} /\ i + 1 \in 1..Len(s) /\ r[i] = s[i + 1]
  BY <1>1
<1>4. \A i \in 1..Len(r) : \A m : Held(r, i, m) = Held(s, i + 1, m)
  BY <1>2, <1>3
<1>5. \A i \in 1..Len(r), m \in Mutexes : Held(r, i, m) >= 0
  BY <1>3, <1>4 DEF Sound
<1>6. \A i \in 1..Len(r) : \A m \in Needs(r[i].step) : m \in {} \/ Held(r, i, m) >= 1
  BY <1>3, <1>4 DEF Sound
<1>7. Paired(r)
  <2>1. ASSUME NEW i \in 1..Len(r)
        PROVE  /\ i > 1 /\ r[i].step \in Seconds => r[i - 1].step = FirstOf(r[i].step)
               /\ r[i].step \in {"scan", "take"} =>
                    i < Len(r) /\ r[i + 1].step \in Seconds /\ FirstOf(r[i + 1].step) = r[i].step
    <3>1. i + 1 \in 1..Len(s) /\ r[i] = s[i + 1] /\ i + 1 > 1 /\ (i + 1) - 1 = i
      BY <1>3
    <3>2. i > 1 => r[i - 1] = s[i]
      <4>1. i > 1 => i - 1 \in 1..Len(r) /\ (i - 1) + 1 = i
        BY <1>1
      <4> QED
        BY <1>3, <4>1
    <3>3. i < Len(r) => r[i + 1] = s[(i + 1) + 1]
      <4>1. i < Len(r) => i + 1 \in 1..Len(r)
        BY <1>1
      <4> QED
        BY <1>3, <4>1
    <3>4. i + 1 < Len(s) => i < Len(r)
      BY <1>1
    <3>5. Paired(s)
      BY DEF Sound
    <3>6. /\ s[i + 1].step \in Seconds => s[i].step = FirstOf(s[i + 1].step)
          /\ s[i + 1].step \in {"scan", "take"} =>
               i + 1 < Len(s) /\ s[(i + 1) + 1].step \in Seconds
               /\ FirstOf(s[(i + 1) + 1].step) = s[i + 1].step
      BY <3>1, <3>5 DEF Paired
    <3> QED
      BY <3>1, <3>2, <3>3, <3>4, <3>6
  <2> QED
    BY <2>1 DEF Paired
<1>8. ASSUME NEW i \in 1..Len(r), r[i].step \in Moves
      PROVE  \E j \in (i + 1)..Len(r) : r[j].step = "scan"
  <2>1. PICK j \in ((i + 1) + 1)..Len(s) : s[j].step = "scan"
    BY <1>3, <1>8 DEF Sound
  <2>2. j - 1 \in (i + 1)..Len(r) /\ j - 1 \in 1..Len(r) /\ (j - 1) + 1 = j
    BY <1>1, <1>3
  <2> QED
    BY <1>3, <2>1, <2>2
<1>9. Sound(r, {})
  BY <1>1, <1>5, <1>6, <1>7, <1>8 DEF Sound
<1>10. 1 \in 1..Len(s)
  BY <1>1
<1>11. ASSUME NEW m \in Mutexes
       PROVE  /\ Held(s, 1, m) = Given(s[1], m) + Held(r, 1, m)
              /\ Held(r, 1, m) \in Int /\ Held(r, 1, m) >= 0
  <2>1. Held(s, 1, m) = Given(s[1], m) + Held(s, 1 + 1, m)
    BY <1>0, <1>10, HeldStep
  <2>2. Held(r, 1, m) = Held(s, 1 + 1, m)
    BY <1>2
  <2>3. Held(r, 1, m) \in Int
    BY <1>1, HeldInt
  <2>4. CASE Len(r) = 0
    <3>1. Held(r, Len(r) + 1, m) = 0
      BY <1>1, HeldEnd
    <3>2. Held(r, 1, m) = 0
      BY <2>4, <3>1
    <3> QED
      BY <2>1, <2>2, <3>2
  <2>5. CASE Len(r) > 0
    BY <1>1, <1>5, <2>1, <2>2, <2>3, <2>5
  <2> QED
    BY <1>1, <2>4, <2>5
<1>12. Len(r) > 0 => r[1] = s[2] /\ 2 \in 1..Len(s) /\ 2 > 1 /\ 2 - 1 = 1
  BY <1>1
<1>13. 1 < Len(s) => Len(r) > 0
  BY <1>1
<1>14. /\ Len(r) > 0 /\ r[1].step \in Seconds => s[1].step = FirstOf(r[1].step)
       /\ s[1].step \in {"scan", "take"} =>
            Len(r) > 0 /\ r[1].step \in Seconds /\ FirstOf(r[1].step) = s[1].step
  <2>1. Paired(s)
    BY DEF Sound
  <2>2. s[1 + 1] = s[2]
    OBVIOUS
  <2> QED
    <3>1. s[1].step \in {"scan", "take"} =>
            1 < Len(s) /\ s[2].step \in Seconds /\ FirstOf(s[2].step) = s[1].step
      BY <1>10, <2>1, <2>2 DEF Paired
    <3>2. Len(r) > 0 /\ s[2].step \in Seconds => s[1].step = FirstOf(s[2].step)
      <4>1. \A i \in 1..Len(s) : i > 1 /\ s[i].step \in Seconds => s[i - 1].step = FirstOf(s[i].step)
        BY <2>1 DEF Paired
      <4> QED
        BY <1>12, <4>1
    <3> QED
      BY <1>12, <1>13, <3>1, <3>2
<1>15. ASSUME NEW j \in 2..Len(s), s[j].step = "scan" PROVE Scans(r)
  <2>1. j - 1 \in 1..Len(r) /\ (j - 1) + 1 = j
    BY <1>1
  <2> QED
    BY <1>3, <1>15, <2>1 DEF Scans
<1>16. Scans(s) => s[1].step = "scan" \/ Scans(r)
  <2>1. \A j \in 1..Len(s) : j = 1 \/ j \in 2..Len(s)
    BY <1>1
  <2> QED
    BY <1>15, <2>1 DEF Scans
<1>17. s[1].step \in Moves => Scans(r)
  <2>1. s[1].step \in Moves => \E j \in (1 + 1)..Len(s) : s[j].step = "scan"
    BY <1>10 DEF Sound
  <2> QED
    BY <1>15, <2>1
<1> QED
  BY <1>0, <1>1, <1>9, <1>10, <1>11, <1>14, <1>16, <1>17 DEF r

\* Every task has sound code left, and calls it on its own behalf.
Coded == todo \in [Tasks -> Seq(Instr)] /\ \A t \in Tasks : Sound(todo[t], {})

\* What a step of task t does to the code that is left, whatever else it does.
GoesOn(t) ==
  /\ Coded'
  /\ todo[t] # <<>> /\ Head(todo[t]) = todo[t][1] /\ todo[t][1] \in Instr
  /\ 1 \in 1..Len(todo[t]) /\ Sound(todo[t], {})
  /\ \A u \in Tasks \ {t} : todo'[u] = todo[u]
  /\ \A m \in Mutexes :
       /\ Held(todo[t], 1, m) = Given(todo[t][1], m) + Held(todo'[t], 1, m)
       /\ Held(todo'[t], 1, m) \in Int /\ Held(todo'[t], 1, m) >= 0
  /\ \A n \in Seconds : todo'[t] # <<>> /\ Head(todo'[t]).step = n => todo[t][1].step = FirstOf(n)
  /\ todo[t][1].step \in {"scan", "take"} =>
       /\ todo'[t] # <<>> /\ Head(todo'[t]).step \in Seconds
       /\ FirstOf(Head(todo'[t]).step) = todo[t][1].step
  /\ Scans(todo[t]) => todo[t][1].step = "scan" \/ Scans(todo'[t])
  /\ todo[t][1].step \in Moves => Scans(todo'[t])

LEMMA NotEmpty ==
  ASSUME NEW s \in Seq(Instr)
  PROVE  (Len(s) > 0 <=> s # <<>>) /\ (s # <<>> => Head(s) = s[1])
BY EmptySeq

LEMMA GoesPlain ==
  ASSUME Coded, NEW t \in Tasks, todo[t] # <<>>, Goes(t, <<>>)
  PROVE  GoesOn(t) /\ todo'[t] = Tail(todo[t])
<1> DEFINE s == todo[t]
           r == Tail(s)
<1>1. Sound(s, {}) /\ s # <<>>
  BY DEF Coded
<1>2. /\ Sound(r, {})
      /\ s \in Seq(Instr) /\ s[1] \in Instr /\ Head(s) = s[1] /\ 1 \in 1..Len(s)
      /\ \A m \in Mutexes : Held(s, 1, m) = Given(s[1], m) + Held(r, 1, m)
      /\ \A m \in Mutexes : Held(r, 1, m) \in Int /\ Held(r, 1, m) >= 0
      /\ Len(r) > 0 /\ r[1].step \in Seconds => s[1].step = FirstOf(r[1].step)
      /\ s[1].step \in {"scan", "take"} =>
           Len(r) > 0 /\ r[1].step \in Seconds /\ FirstOf(r[1].step) = s[1].step
      /\ Scans(s) => s[1].step = "scan" \/ Scans(r)
      /\ s[1].step \in Moves => Scans(r)
  <2> HIDE DEF s
  <2> QED
    BY <1>1, RestSound
<1>3. r \in Seq(Instr)
  BY <1>2 DEF Sound
<1>4. <<>> \o r = r
  <2> HIDE DEF r
  <2> QED
    BY <1>3, ConcatEmptySeq
<1>5. todo' = [todo EXCEPT ![t] = r]
  BY <1>4 DEF Goes
<1> HIDE DEF s, r
<1>6. todo'[t] = r /\ \A u \in Tasks \ {t} : todo'[u] = todo[u]
  BY <1>5 DEF Coded
<1>7. Coded'
  BY <1>2, <1>3, <1>5, <1>6 DEF Coded
<1>8. (Len(r) > 0 <=> r # <<>>) /\ (r # <<>> => Head(r) = r[1])
  BY <1>3, NotEmpty
<1>9. s = todo[t]
  BY DEF s
<1> QED
  BY <1>1, <1>2, <1>6, <1>7, <1>8, <1>9 DEF GoesOn, r

LEMMA GoesCall ==
  ASSUME Coded, NEW t \in Tasks, todo[t] # <<>>, NEW call, NEW h, Goes(t, call),
         Piece(call, h), Offers(Tail(todo[t]), {}, h), todo[t][1].step \notin Firsts
  PROVE  GoesOn(t)
<1> DEFINE s == todo[t]
           r == Tail(s)
           w == call \o r
<1>1. Sound(s, {}) /\ s # <<>>
  BY DEF Coded
<1>2. /\ Sound(r, {})
      /\ s \in Seq(Instr) /\ s[1] \in Instr /\ Head(s) = s[1] /\ 1 \in 1..Len(s)
      /\ \A m \in Mutexes : Held(s, 1, m) = Given(s[1], m) + Held(r, 1, m)
      /\ \A m \in Mutexes : Held(r, 1, m) \in Int /\ Held(r, 1, m) >= 0
      /\ Len(r) > 0 /\ r[1].step \in Seconds => s[1].step = FirstOf(r[1].step)
      /\ Scans(s) => s[1].step = "scan" \/ Scans(r)
      /\ s[1].step \in Moves => Scans(r)
  <2> HIDE DEF s
  <2> QED
    BY <1>1, RestSound
<1>3. Len(r) > 0 => r[1].step \notin Seconds
  <2>1. \A n \in Seconds : FirstOf(n) \in Firsts
    BY DEF Seconds, FirstOf, Firsts
  <2> QED
    BY <1>2, <2>1
<1>4. /\ Sound(w, {})
      /\ \A m \in Mutexes : Held(w, 1, m) = Held(r, 1, m)
      /\ Scans(call) \/ Scans(r) => Scans(w)
      /\ Len(w) > 0 /\ w[1].step \notin Seconds
  BY <1>2, <1>3, BeforeSound
<1>5. todo' = [todo EXCEPT ![t] = w]
  BY DEF Goes
<1>6. w \in Seq(Instr)
  BY <1>4 DEF Sound
<1> HIDE DEF s, r, w
<1>7. todo'[t] = w /\ \A u \in Tasks \ {t} : todo'[u] = todo[u]
  BY <1>5 DEF Coded
<1>8. Coded'
  BY <1>4, <1>5, <1>6, <1>7 DEF Coded
<1>9. (Len(w) > 0 <=> w # <<>>) /\ (w # <<>> => Head(w) = w[1])
  BY <1>6, NotEmpty
<1>10. s = todo[t] /\ s[1].step \notin {"scan", "take"}
  BY DEF s, Firsts
<1> QED
  BY <1>1, <1>2, <1>4, <1>7, <1>8, <1>9, <1>10 DEF GoesOn

\* A task at rest is called or woken.
LEMMA Started ==
  ASSUME Coded, NEW t \in Tasks, todo[t] = <<>>, NEW call, Piece(call, {}),
         todo' = [todo EXCEPT ![t] = call]
  PROVE  /\ Coded'
         /\ \A u \in Tasks \ {t} : todo'[u] = todo[u]
         /\ \A m \in Mutexes : Held(todo[t], 1, m) = 0 /\ Held(todo'[t], 1, m) = 0
         /\ \A n \in Seconds : ~(todo'[t] # <<>> /\ Head(todo'[t]).step = n)
         /\ ~Scans(todo[t])
<1>1. todo'[t] = call /\ call \in Seq(Instr) /\ \A u \in Tasks \ {t} : todo'[u] = todo[u]
  BY DEF Coded, Piece, Sound
<1>2. Coded'
  BY <1>1 DEF Coded, Piece
<1>3. \A m \in Mutexes : Held(todo[t], 1, m) = 0
  <2> DEFINE e == todo[t]
  <2>1. e \in Seq(Instr) /\ Len(e) = 0
    BY DEF Coded
  <2> HIDE DEF e
  <2>2. \A m : Held(e, Len(e) + 1, m) = 0
    BY <2>1, HeldEnd
  <2> QED
    BY <2>1, <2>2 DEF e
<1>4. call # <<>> => Head(call) = call[1]
  BY <1>1, NotEmpty
<1>5. ~Scans(todo[t])
  BY DEF Scans
<1> QED
  BY <1>1, <1>2, <1>3, <1>4, <1>5 DEF Piece

\* Every step of a task leaves sound code.
LEMMA StepGoesOn ==
  ASSUME Coded, NEW t \in Tasks, Step(t)
  PROVE  GoesOn(t)
<1> DEFINE s == todo[t]
           r == Tail(s)
<1>1. todo[t] # <<>>
  BY DEF Step, ObtainMutex, ReleaseMutex, Stop, CiaDue, BlitterDue, Rest, Update, Mark, Arm,
         Change, Scan, SetNext, Load, RaiseFlag, Store, Take, Clear, Start, Finish, TurnOff, At
<1>2. Goes(t, <<>>) => GoesOn(t)
  BY <1>1, GoesPlain
<1>3. /\ Sound(s, {}) /\ Sound(r, {}) /\ Head(s) = s[1] /\ 1 \in 1..Len(s)
      /\ \A m \in Mutexes : Held(s, 1, m) = Given(s[1], m) + Held(r, 1, m)
      /\ \A m \in Mutexes : Held(r, 1, m) \in Int
      /\ s[1].step \in Moves => Scans(r)
  <2>1. s # <<>> /\ Sound(s, {})
    BY <1>1 DEF Coded
  <2> HIDE DEF s
  <2> QED
    BY <2>1, RestSound
<1>4. ASSUME NEW call, NEW h, Goes(t, call), Piece(call, h), Offers(r, {}, h),
             s[1].step \notin Firsts
      PROVE  GoesOn(t)
  BY <1>1, <1>4, GoesCall
<1>5. s[1].step \in Moves => Offers(r, {}, {"scan"})
  BY <1>3 DEF Offers, Mutexes
<1>6. CASE Stop(t)
  <2>1. s[1].step = "stop"
    BY <1>3, <1>6 DEF Stop, At
  <2>2. s[1].step \in Moves /\ s[1].step \notin Firsts
    BY <2>1 DEF Moves, Firsts
  <2>3. Piece(Do("cia_due") \o Do("blitter_due"), {"scan"})
    BY DuePiece
  <2>4. Goes(t, <<>>) \/ Goes(t, Do("cia_due") \o Do("blitter_due"))
    BY <1>6 DEF Stop
  <2> QED
    BY <1>2, <1>4, <1>5, <2>2, <2>3, <2>4
<1>7. CASE CiaDue(t)
  <2>1. s[1].step \notin Firsts
    BY <1>3, <1>7 DEF CiaDue, At, Firsts
  <2>2. Piece(CiaHandler, {}) /\ Offers(r, {}, {})
    BY CiaHandlerPiece DEF Offers
  <2>3. Goes(t, <<>>) \/ Goes(t, CiaHandler)
    BY <1>7 DEF CiaDue
  <2> QED
    BY <1>2, <1>4, <2>1, <2>2, <2>3
<1>8. CASE BlitterDue(t)
  <2>1. s[1].step = "blitter_due"
    BY <1>3, <1>8 DEF BlitterDue, At
  <2>2. s[1].step \in Moves /\ s[1].step \notin Firsts
    BY <2>1 DEF Moves, Firsts
  <2>3. Piece(BlitterHandler, {"scan"})
    BY BlitterHandlerPiece
  <2>4. Goes(t, <<>>) \/ Goes(t, BlitterHandler)
    BY <1>8 DEF BlitterDue
  <2> QED
    BY <1>2, <1>4, <1>5, <2>2, <2>3, <2>4
<1>9. CASE Update(t)
  <2>1. s[1].step = "update"
    BY <1>3, <1>9 DEF Update, At
  <2>2. s[1].step \notin Firsts /\ Needs(s[1].step) = {"cia_mx"}
    BY <2>1 DEF Firsts, Needs
  <2>3. Held(s, 1, "cia_mx") >= 1
    BY <1>3, <2>2 DEF Sound
  <2>4. Given(s[1], "cia_mx") = 0
    BY <2>1 DEF Given, Giving, Taking
  <2>5. Held(r, 1, "cia_mx") >= 1
    BY <1>3, <2>3, <2>4 DEF Mutexes
  <2>6. Offers(r, {}, {"cia_mx"})
    BY <2>5 DEF Offers, Mutexes
  <2>7. Piece(Raise("TA") \o Rethink, {"cia_mx"})
    BY RunOutPiece
  <2>8. Goes(t, <<>>) \/ Goes(t, Raise("TA") \o Rethink)
    BY <1>9 DEF Update
  <2> QED
    BY <1>2, <1>4, <2>2, <2>6, <2>7, <2>8
<1>10. CASE ~(Stop(t) \/ CiaDue(t) \/ BlitterDue(t) \/ Update(t))
  <2>1. Goes(t, <<>>)
    BY <1>10 DEF Step, ObtainMutex, ReleaseMutex, Rest, Mark, Arm,
         Change, Scan, SetNext, Load, RaiseFlag, Store, Take, Clear, Start, Finish, TurnOff
  <2> QED
    BY <1>2, <2>1
<1> QED
  BY <1>6, <1>7, <1>8, <1>9, <1>10

-----------------------------------------------------------------------------
(***************************************************************************)
(* The mutexes: a task holds what it has still to give back, no more.      *)
(***************************************************************************)
MutexType == mutex \in [Mutexes -> [owner : Tasks \cup {Nobody}, depth : Nat]]

Owns ==
  \A m \in Mutexes :
    /\ mutex[m].owner = Nobody <=> mutex[m].depth = 0
    /\ \A t \in Tasks : Held(todo[t], 1, m) = IF mutex[m].owner = t THEN mutex[m].depth ELSE 0

\* The step of a task that needs a mutex has it.
LEMMA NeedsOwner ==
  ASSUME Coded, MutexType, Owns, NEW t \in Tasks, todo[t] # <<>>,
         NEW m \in Needs(Head(todo[t]).step)
  PROVE  m \in Mutexes /\ mutex[m].owner = t
<1>1. m \in Mutexes
  BY DEF Needs, Mutexes
<1>2. todo[t] \in Seq(Instr) /\ Sound(todo[t], {})
  BY DEF Coded
<1>3. 1 \in 1..Len(todo[t]) /\ Head(todo[t]) = todo[t][1]
  <2> DEFINE s == todo[t]
  <2>1. s \in Seq(Instr) /\ s # <<>>
    BY <1>2
  <2> HIDE DEF s
  <2>2. Len(s) > 0 /\ Head(s) = s[1] /\ Len(s) \in Nat
    BY <2>1, NotEmpty, LenProperties
  <2> QED
    BY <2>2 DEF s
<1>4. Held(todo[t], 1, m) >= 1
  BY <1>2, <1>3 DEF Sound
<1> QED
  BY <1>1, <1>4 DEF Owns

LEMMA GivenNothing ==
  ASSUME NEW x, x.step \notin {"obtain", "release"}
  PROVE  \A m : Given(x, m) = 0
BY DEF Given, Giving, Taking

LEMMA LockInstr ==
  ASSUME NEW x \in Instr
  PROVE  /\ x.step = "obtain" => x.mutex \in Mutexes /\ x = Taking(x.mutex)
         /\ x.step = "release" => x.mutex \in Mutexes /\ x = Giving(x.mutex)
BY DEF Instr, Taking, Giving

LEMMA OwnsInit ==
  ASSUME Init
  PROVE  Coded /\ MutexType /\ Owns
<1>1. <<>> \in Seq(Instr) /\ Len(<<>>) = 0
  OBVIOUS
<1>2. Sound(<<>>, {})
  BY <1>1 DEF Sound, Paired
<1>3. Coded
  BY <1>1, <1>2 DEF Init, Coded
<1>4. \A m : Held(<<>>, 1, m) = 0
  <2> DEFINE e == <<>>
  <2>1. e \in Seq(Instr) /\ Len(e) = 0
    BY <1>1
  <2> HIDE DEF e
  <2>2. \A m : Held(e, Len(e) + 1, m) = 0
    BY <2>1, HeldEnd
  <2> QED
    BY <2>1, <2>2 DEF e
<1>5. MutexType
  BY DEF Init, MutexType
<1>6. Owns
  BY <1>4 DEF Init, Owns
<1> QED
  BY <1>3, <1>5, <1>6

LEMMA OwnsStep ==
  ASSUME Coded, MutexType, Owns, [Next]_vars
  PROVE  Coded' /\ MutexType' /\ Owns'
<1>1. CASE Wake
  <2>1. CiaProcess \in Tasks /\ todo[CiaProcess] = <<>> /\ UNCHANGED mutex
        /\ todo' = [todo EXCEPT ![CiaProcess] = DoCyclesSlow]
    BY <1>1 DEF Wake, Tasks
  <2>2. /\ Coded' /\ \A u \in Tasks \ {CiaProcess} : todo'[u] = todo[u]
        /\ \A m \in Mutexes : Held(todo[CiaProcess], 1, m) = 0 /\ Held(todo'[CiaProcess], 1, m) = 0
    BY <2>1, DoCyclesPiece, Started
  <2> QED
    BY <2>1, <2>2 DEF MutexType, Owns
<1>2. ASSUME NEW c \in Clients, Call(c) PROVE Coded' /\ MutexType' /\ Owns'
  <2>1. PICK call \in Calls : todo' = [todo EXCEPT ![c] = Code(call)]
    BY <1>2 DEF Call
  <2>2. c \in Tasks /\ todo[c] = <<>> /\ UNCHANGED mutex
    BY <1>2 DEF Call, Tasks
  <2>3. /\ Coded' /\ \A u \in Tasks \ {c} : todo'[u] = todo[u]
        /\ \A m \in Mutexes : Held(todo[c], 1, m) = 0 /\ Held(todo'[c], 1, m) = 0
    BY <2>1, <2>2, CodePiece, Started
  <2> QED
    BY <2>2, <2>3 DEF MutexType, Owns
<1>3. ASSUME NEW t \in Tasks, Step(t) PROVE Coded' /\ MutexType' /\ Owns'
  <2>1. GoesOn(t)
    BY <1>3, StepGoesOn
  <2>2. Coded'
    BY <2>1 DEF GoesOn
  <2> DEFINE x == todo[t][1]
  <2>3. /\ x \in Instr /\ Head(todo[t]) = x
        /\ \A u \in Tasks \ {t} : todo'[u] = todo[u]
        /\ \A m \in Mutexes :
             /\ Held(todo[t], 1, m) = Given(x, m) + Held(todo'[t], 1, m)
             /\ Held(todo'[t], 1, m) \in Int /\ Held(todo'[t], 1, m) >= 0
    BY <2>1 DEF GoesOn
  <2> HIDE DEF x
  <2>4. t # Nobody
    BY ChipTasksAssumption DEF Tasks
  <2>5. CASE ObtainMutex(t)
    <3>1. PICK m \in Mutexes : m = x.mutex /\ x = Taking(m)
      BY <2>3, <2>5, LockInstr DEF ObtainMutex, At
    <3>2. /\ mutex[m].owner \in {Nobody, t}
          /\ mutex' = [mutex EXCEPT ![m] = [owner |-> t, depth |-> @.depth + 1]]
      BY <2>3, <2>5, <3>1 DEF ObtainMutex
    <3>3. \A n \in Mutexes : Given(x, n) = IF n = m THEN -1 ELSE 0
      BY <3>1 DEF Given, Giving, Taking
    <3>4. MutexType' /\ mutex'[m].owner = t /\ mutex'[m].depth = mutex[m].depth + 1
          /\ \A n \in Mutexes \ {m} : mutex'[n] = mutex[n]
      BY <3>2 DEF MutexType
    <3>5. mutex[m].depth \in Nat
      BY DEF MutexType
    <3>6. ASSUME NEW u \in Tasks
          PROVE Held(todo'[u], 1, m) = IF mutex'[m].owner = u THEN mutex'[m].depth ELSE 0
      <4>1. CASE u = t
        <5>1. Held(todo[t], 1, m) = mutex[m].depth
          BY <3>2, <2>4 DEF Owns
        <5> QED
          BY <2>3, <3>3, <3>4, <3>5, <4>1, <5>1
      <4>2. CASE u # t
        BY <2>3, <2>4, <3>2, <3>4, <4>2, ChipTasksAssumption DEF Owns, Tasks
      <4> QED
        BY <4>1, <4>2
    <3>7. ASSUME NEW n \in Mutexes \ {m}, NEW u \in Tasks
          PROVE  Held(todo'[u], 1, n) = Held(todo[u], 1, n)
      <4>1. CASE u = t
        BY <2>3, <3>3, <4>1
      <4>2. CASE u # t
        BY <2>3, <4>2
      <4> QED
        BY <4>1, <4>2
    <3>8. Owns'
      BY <2>4, <3>4, <3>5, <3>6, <3>7 DEF Owns
    <3> QED
      BY <2>2, <3>4, <3>8
  <2>6. CASE ReleaseMutex(t)
    <3>1. PICK m \in Mutexes : m = x.mutex /\ x = Giving(m)
      BY <2>3, <2>6, LockInstr DEF ReleaseMutex, At
    <3>2. mutex' = [mutex EXCEPT ![m] =
                      [owner |-> IF @.depth = 1 THEN Nobody ELSE t, depth |-> @.depth - 1]]
      BY <2>3, <2>6, <3>1 DEF ReleaseMutex
    <3>3. \A n \in Mutexes : Given(x, n) = IF n = m THEN 1 ELSE 0
      BY <3>1 DEF Given, Giving, Taking
    <3>4. mutex[m].depth \in Nat
      BY DEF MutexType
    <3>5. Held(todo[t], 1, m) = 1 + Held(todo'[t], 1, m) /\ Held(todo[t], 1, m) >= 1
      BY <2>3, <3>3
    <3>6. mutex[m].owner = t /\ mutex[m].depth = Held(todo[t], 1, m) /\ mutex[m].depth - 1 \in Nat
      BY <3>4, <3>5 DEF Owns
    <3>7. /\ mutex'[m].owner = IF mutex[m].depth = 1 THEN Nobody ELSE t
          /\ mutex'[m].depth = mutex[m].depth - 1
          /\ \A n \in Mutexes \ {m} : mutex'[n] = mutex[n]
      BY <3>2 DEF MutexType
    <3>8. MutexType'
      BY <3>2, <3>6 DEF MutexType
    <3>9. ASSUME NEW u \in Tasks
          PROVE Held(todo'[u], 1, m) = IF mutex'[m].owner = u THEN mutex'[m].depth ELSE 0
      <4>1. CASE u = t
        BY <2>3, <2>4, <3>4, <3>5, <3>6, <3>7, <4>1
      <4>2. CASE u # t
        <5>1. Held(todo'[u], 1, m) = 0
          BY <2>3, <3>6, <4>2 DEF Owns
        <5>2. mutex'[m].owner # u
          BY <3>7, <4>2, ChipTasksAssumption DEF Tasks
        <5> QED
          BY <5>1, <5>2
      <4> QED
        BY <4>1, <4>2
    <3>10. ASSUME NEW n \in Mutexes \ {m}, NEW u \in Tasks
           PROVE  Held(todo'[u], 1, n) = Held(todo[u], 1, n)
      <4>1. CASE u = t
        BY <2>3, <3>3, <4>1
      <4>2. CASE u # t
        BY <2>3, <4>2
      <4> QED
        BY <4>1, <4>2
    <3>11. mutex'[m].owner = Nobody <=> mutex'[m].depth = 0
      BY <2>4, <3>4, <3>7
    <3>12. Owns'
      <4>1. \A n \in Mutexes \ {m} :
              /\ mutex'[n].owner = Nobody <=> mutex'[n].depth = 0
              /\ \A u \in Tasks :
                   Held(todo'[u], 1, n) = IF mutex'[n].owner = u THEN mutex'[n].depth ELSE 0
        BY <3>7, <3>10 DEF Owns
      <4> QED
        BY <3>9, <3>11, <4>1 DEF Owns
    <3> QED
      BY <2>2, <3>8, <3>12
  <2>7. CASE ~ObtainMutex(t) /\ ~ReleaseMutex(t)
    <3>1. UNCHANGED mutex
      BY <1>3, <2>7 DEF Step, Stop, CiaDue, BlitterDue, Rest, Update, Mark, Arm,
         Change, Scan, SetNext, Load, RaiseFlag, Store, Take, Clear, Start, Finish, TurnOff
    <3>2. x.step \notin {"obtain", "release"}
      BY <1>3, <2>3, <2>7 DEF Step, Stop, CiaDue, BlitterDue, Rest, Update, Mark, Arm,
         Change, Scan, SetNext, Load, RaiseFlag, Store, Take, Clear, Start, Finish, TurnOff, At
    <3>3. \A m : Given(x, m) = 0
      BY <3>2, GivenNothing
    <3>4. ASSUME NEW n \in Mutexes, NEW u \in Tasks
          PROVE  Held(todo'[u], 1, n) = Held(todo[u], 1, n)
      <4>1. CASE u = t
        BY <2>3, <3>3, <4>1
      <4>2. CASE u # t
        BY <2>3, <4>2
      <4> QED
        BY <4>1, <4>2
    <3>5. MutexType' /\ Owns'
      BY <3>1, <3>4 DEF MutexType, Owns
    <3> QED
      BY <2>2, <3>5
  <2> QED
    BY <2>5, <2>6, <2>7
<1>4. CASE UNCHANGED vars
  BY <1>4 DEF vars, Coded, MutexType, Owns
<1> QED
  BY <1>1, <1>2, <1>3, <1>4 DEF Next

-----------------------------------------------------------------------------
(***************************************************************************)
(* Types.                                                                  *)
(***************************************************************************)
Distance == Nat \cup {Passed}

Registers == [add : Nat, icr : SUBSET Flags, min : Distance]

RestType ==
  /\ icr \subseteq Flags /\ owed \subseteq Flags
  /\ left \in 1..Reload /\ since \in Nat
  /\ due \in [{"cia", "blitter"} -> Nat \cup {Off, Passed}]
  /\ next \in Distance
  /\ busy \in BOOLEAN /\ torn \in BOOLEAN
  /\ reg \in [Tasks -> Registers]

LEMMA NearestType ==
  ASSUME due \in [{"cia", "blitter"} -> Nat \cup {Off, Passed}]
  PROVE  Nearest \in Distance
<1>1. Ahead = {due["cia"], due["blitter"]} \ {Off, Passed}
  BY DEF Ahead
<1>2. Ahead \subseteq Nat
  BY <1>1
<1>3. CASE Ahead = {}
  BY <1>3 DEF Nearest, Distance
<1>4. CASE Ahead # {}
  <2>1. \E x \in Ahead : \A y \in Ahead : x <= y
    <3>1. \E a \in Ahead, b \in Ahead : Ahead = {a, b}
      BY <1>1, <1>4
    <3>2. PICK a \in Ahead, b \in Ahead : Ahead = {a, b}
      BY <3>1
    <3>3. a <= b \/ b <= a
      BY <1>2
    <3> QED
      BY <1>2, <3>2, <3>3
  <2>2. Min(Ahead) \in Ahead
    BY <2>1 DEF Min
  <2> QED
    BY <1>2, <1>4, <2>2 DEF Nearest, Distance
<1> QED
  BY <1>3, <1>4

LEMMA LaterType ==
  ASSUME NEW d \in Nat \cup {Off, Passed}, NEW x \in Nat
  PROVE  /\ Later(d, x) \in Nat \cup {Off, Passed}
         /\ d \in Distance => Later(d, x) \in Distance
BY DEF Later, Off, Passed, Distance

LEMMA ElapseType ==
  ASSUME RestType, NEW x \in Nat, Elapse(x)
  PROVE  /\ since' \in Nat
         /\ due' \in [{"cia", "blitter"} -> Nat \cup {Off, Passed}]
         /\ next' \in Distance
<1>1. since' \in Nat
  BY DEF RestType, Elapse
<1>2. next' \in Distance
  BY LaterType DEF RestType, Elapse, Distance
<1>3. \A slot \in DOMAIN due : Later(due[slot], x) \in Nat \cup {Off, Passed}
  BY LaterType DEF RestType
<1>4. due' \in [{"cia", "blitter"} -> Nat \cup {Off, Passed}]
  BY <1>3 DEF RestType, Elapse
<1> QED
  BY <1>1, <1>2, <1>4

\* Writing one register of a task.
LEMMA RegType ==
  ASSUME reg \in [Tasks -> Registers], NEW t \in Tasks
  PROVE  /\ \A n \in Nat : [reg EXCEPT ![t].add = n] \in [Tasks -> Registers]
         /\ \A f \in SUBSET Flags : [reg EXCEPT ![t].icr = f] \in [Tasks -> Registers]
         /\ \A d \in Distance : [reg EXCEPT ![t].min = d] \in [Tasks -> Registers]
         /\ reg[t].add \in Nat /\ reg[t].icr \in SUBSET Flags /\ reg[t].min \in Distance
<1> DEFINE D == Distance
           F == SUBSET Flags
<1>1. Registers = [add : Nat, icr : F, min : D]
  BY DEF Registers
<1> HIDE DEF D, F
<1>2. reg[t] \in [add : Nat, icr : F, min : D]
  BY <1>1
<1>3. reg[t].add \in Nat /\ reg[t].icr \in F /\ reg[t].min \in D
  BY <1>2
<1>4. /\ \A n \in Nat : [reg[t] EXCEPT !.add = n] \in [add : Nat, icr : F, min : D]
      /\ \A f \in F : [reg[t] EXCEPT !.icr = f] \in [add : Nat, icr : F, min : D]
      /\ \A d \in D : [reg[t] EXCEPT !.min = d] \in [add : Nat, icr : F, min : D]
  BY <1>2
<1> QED
  BY <1>1, <1>3, <1>4 DEF D, F

LEMMA RestTypeInit ==
  ASSUME Init
  PROVE  RestType
<1>1. NoReg \in Registers
  BY DEF NoReg, Registers, Distance
<1>2. reg \in [Tasks -> Registers]
  BY <1>1 DEF Init
<1>3. Reload \in Nat \ {0}
  BY ChipTasksAssumption
<1>4. due \in [{"cia", "blitter"} -> Nat \cup {Off, Passed}]
  BY <1>3 DEF Init
<1>5. /\ icr \subseteq Flags /\ owed \subseteq Flags
      /\ left \in 1..Reload /\ since \in Nat
  BY <1>3 DEF Init
<1>7. busy \in BOOLEAN /\ torn \in BOOLEAN
  BY Zenon DEF Init
<1>6. next \in Distance
  BY <1>3 DEF Init, Distance
<1> QED
  BY <1>2, <1>4, <1>5, <1>6, <1>7 DEF RestType

LEMMA RestTypeStep ==
  ASSUME RestType, Coded, [Next]_vars
  PROVE  RestType'
<1> USE DEF Memory
<1>0. Reload \in Nat \ {0} /\ BlitTime \in Nat /\ Chunk \in Nat
  BY ChipTasksAssumption
<1>1. CASE Wake
  <2>1. CiaProcess \in Tasks
    BY DEF Tasks
  <2>2. reg' \in [Tasks -> Registers]
    BY <1>0, <1>1, <2>1, RegType DEF Wake, RestType
  <2> QED
    BY <1>1, <2>2 DEF Wake, RestType
<1>2. ASSUME NEW c \in Clients, Call(c) PROVE RestType'
  BY <1>2 DEF Call, RestType
<1>3. ASSUME NEW t \in Tasks, Step(t) PROVE RestType'
  <2>0. /\ \A n \in Nat : [reg EXCEPT ![t].add = n] \in [Tasks -> Registers]
        /\ \A f \in SUBSET Flags : [reg EXCEPT ![t].icr = f] \in [Tasks -> Registers]
        /\ \A d \in Distance : [reg EXCEPT ![t].min = d] \in [Tasks -> Registers]
        /\ reg[t].add \in Nat /\ reg[t].icr \in SUBSET Flags /\ reg[t].min \in Distance
    BY RegType DEF RestType
  <2>1. CASE ObtainMutex(t) \/ ReleaseMutex(t) \/ CiaDue(t) \/ BlitterDue(t)
    BY <2>1 DEF ObtainMutex, ReleaseMutex, CiaDue, BlitterDue, RestType
  <2>2. CASE Stop(t)
    <3>1. CASE next >= 0 /\ reg[t].add > next
      <4>1. next \in Nat /\ reg[t].add - next \in Nat
        BY <2>0, <3>1 DEF RestType, Distance, Passed
      <4>2. Elapse(next) /\ reg' = [reg EXCEPT ![t].add = reg[t].add - next]
        BY <2>2, <3>1 DEF Stop
      <4>3. UNCHANGED <<icr, left, busy, owed, torn>>
        BY <2>2 DEF Stop
      <4>4. reg' \in [Tasks -> Registers]
        BY <2>0, <4>1, <4>2
      <4> QED
        BY <4>1, <4>2, <4>3, <4>4, ElapseType DEF RestType
    <3>2. CASE ~(next >= 0 /\ reg[t].add > next)
      BY <2>2, <3>2 DEF Stop, RestType
    <3> QED
      BY <3>1, <3>2
  <2>3. CASE Rest(t)
    <3>1. Elapse(reg[t].add) /\ reg' = [reg EXCEPT ![t].add = 0]
          /\ UNCHANGED <<icr, left, busy, owed, torn>>
      BY <2>3 DEF Rest
    <3>2. reg' \in [Tasks -> Registers]
      BY <2>0, <3>1
    <3> QED
      BY <2>0, <3>1, <3>2, ElapseType DEF RestType
  <2>4. CASE Update(t)
    <3>1. left' \in 1..Reload
      BY <1>0, <2>4 DEF Update, RestType
    <3> QED
      BY <2>4, <3>1 DEF Update, RestType
  <2>5. CASE Mark(t)
    BY <2>5 DEF Mark, RestType
  <2>6. CASE Arm(t)
    BY <2>6, <1>0 DEF Arm, RestType
  <2>7. CASE Change(t)
    BY <2>7, <1>0 DEF Change, RestType
  <2>8. CASE Scan(t)
    <3>1. reg' \in [Tasks -> Registers]
      BY <2>0, <2>8, NearestType DEF Scan, RestType
    <3> QED
      BY <2>8, <3>1 DEF Scan, RestType
  <2>9. CASE SetNext(t)
    <3>1. reg' \in [Tasks -> Registers]
      <4>1. 0 \in Distance
        BY DEF Distance
      <4> QED
        BY <2>0, <2>9, <4>1 DEF SetNext
    <3> QED
      BY <2>0, <2>9, <3>1 DEF SetNext, RestType
  <2>10. CASE Load(t)
    <3>1. reg' \in [Tasks -> Registers]
      BY <2>0, <2>10 DEF Load, RestType
    <3> QED
      BY <2>10, <3>1 DEF Load, RestType
  <2>11. CASE RaiseFlag(t)
    <3>1. reg' \in [Tasks -> Registers]
      BY <2>0, <2>11 DEF RaiseFlag
    <3>2. Head(todo[t]).flag \in Flags
      <4>1. todo[t] \in Seq(Instr) /\ todo[t] # <<>> /\ Head(todo[t]).step = "raise"
        BY <2>11 DEF Coded, RaiseFlag, At
      <4>2. Head(todo[t]) \in Instr
        BY <4>1, HeadTailProperties
      <4> HIDE DEF At
      <4> QED
        BY <4>1, <4>2 DEF Instr
    <3> QED
      BY <2>0, <2>11, <3>1, <3>2 DEF RaiseFlag, RestType
  <2>12. CASE Store(t)
    <3>1. reg' \in [Tasks -> Registers]
      BY <2>0, <2>12 DEF Store
    <3>2. torn' \in BOOLEAN
      BY <2>12 DEF Store, RestType
    <3> QED
      BY <2>0, <2>12, <3>1, <3>2 DEF Store, RestType
  <2>13. CASE Take(t)
    BY <2>13 DEF Take, RestType
  <2>14. CASE Clear(t)
    BY <2>14 DEF Clear, RestType
  <2>15. CASE Start(t)
    BY <2>15, <1>0 DEF Start, RestType
  <2>16. CASE Finish(t)
    BY <2>16 DEF Finish, RestType
  <2>17. CASE TurnOff(t)
    BY <2>17 DEF TurnOff, RestType
  <2> QED
    BY <1>3, <2>1, <2>2, <2>3, <2>4, <2>5, <2>6, <2>7, <2>8, <2>9, <2>10, <2>11, <2>12,
       <2>13, <2>14, <2>15, <2>16, <2>17 DEF Step
<1>4. CASE UNCHANGED vars
  BY <1>4 DEF vars, RestType
<1> QED
  BY <1>1, <1>2, <1>3, <1>4 DEF Next

-----------------------------------------------------------------------------
(***************************************************************************)
(* Where the tasks are.                                                    *)
(***************************************************************************)
LEMMA AtStep ==
  ASSUME Coded, NEW t \in Tasks, Step(t)
  PROVE  /\ \A u \in Tasks \ {t} : \A n : At(u, n)' <=> At(u, n)
         /\ \A n \in Seconds : At(t, n)' => At(t, FirstOf(n))
         /\ At(t, "take") => At(t, "clear")'
         /\ At(t, "scan") => At(t, "set")'
<1>1. GoesOn(t)
  BY StepGoesOn
<1>2. todo[t] # <<>> /\ Head(todo[t]) = todo[t][1] /\ \A u \in Tasks \ {t} : todo'[u] = todo[u]
  BY <1>1 DEF GoesOn
<1>3. \A n \in Seconds : At(t, n)' => At(t, FirstOf(n))
  BY <1>1, <1>2 DEF GoesOn, At
<1>4. At(t, "take") => At(t, "clear")'
  <2>1. \A n \in Seconds : FirstOf(n) = "take" => n = "clear"
    BY DEF FirstOf, Seconds
  <2> QED
    BY <1>1, <1>2, <2>1 DEF GoesOn, At
<1>5. At(t, "scan") => At(t, "set")'
  <2>1. \A n \in Seconds : FirstOf(n) = "scan" => n = "set"
    BY DEF FirstOf, Seconds
  <2> QED
    BY <1>1, <1>2, <2>1 DEF GoesOn, At
<1>6. \A u \in Tasks \ {t} : \A n : At(u, n)' <=> At(u, n)
  BY <1>2 DEF At
<1> QED
  BY <1>3, <1>4, <1>5, <1>6

LEMMA AtStart ==
  ASSUME Coded, NEW t \in Tasks, todo[t] = <<>>, NEW call, Piece(call, {}),
         todo' = [todo EXCEPT ![t] = call]
  PROVE  \A u \in Tasks, n \in Seconds : At(u, n)' <=> At(u, n)
<1>1. /\ \A u \in Tasks \ {t} : todo'[u] = todo[u]
      /\ \A n \in Seconds : ~(todo'[t] # <<>> /\ Head(todo'[t]).step = n)
  BY Started
<1> QED
  BY <1>1 DEF At

\* Only one task is inside the registers of the CIA, only one in events_schedule.
LEMMA Alone ==
  ASSUME Coded, MutexType, Owns, NEW t \in Tasks, NEW u \in Tasks
  PROVE  /\ \A n \in {"update", "raise", "take", "clear"} : At(t, n) => mutex["cia_mx"].owner = t
         /\ \A n \in {"scan", "set"} : At(t, n) => mutex["event_mx"].owner = t
         /\ \A n, k \in {"raise", "take", "clear"} : At(t, n) /\ At(u, k) => t = u
         /\ \A n, k \in {"scan", "set"} : At(t, n) /\ At(u, k) => t = u
<1>1. ASSUME NEW v \in Tasks
      PROVE  /\ \A n \in {"update", "raise", "take", "clear"} : At(v, n) => mutex["cia_mx"].owner = v
             /\ \A n \in {"scan", "set"} : At(v, n) => mutex["event_mx"].owner = v
  <2>1. \A n : At(v, n) => \A m \in Needs(n) : mutex[m].owner = v
    BY NeedsOwner DEF At
  <2> QED
    BY <2>1 DEF Needs
<1> QED
  BY <1>1

\* A register that is not written keeps its value.
LEMMA RegOther ==
  ASSUME reg \in [Tasks -> Registers], NEW t \in Tasks, NEW x
  PROVE  /\ reg' = [reg EXCEPT ![t].add = x] =>
              \A u \in Tasks : reg'[u].icr = reg[u].icr /\ reg'[u].min = reg[u].min
         /\ reg' = [reg EXCEPT ![t].min = x] =>
              /\ \A u \in Tasks : reg'[u].icr = reg[u].icr
              /\ \A u \in Tasks \ {t} : reg'[u].min = reg[u].min
              /\ reg'[t].min = x
         /\ reg' = [reg EXCEPT ![t].icr = x] =>
              /\ \A u \in Tasks : reg'[u].min = reg[u].min
              /\ \A u \in Tasks \ {t} : reg'[u].icr = reg[u].icr
              /\ reg'[t].icr = x
<1> DEFINE D == Distance
           F == SUBSET Flags
<1>1. reg \in [Tasks -> [add : Nat, icr : F, min : D]]
  BY DEF Registers
<1> HIDE DEF D, F
<1> QED
  BY <1>1

-----------------------------------------------------------------------------
(***************************************************************************)
(* The pending sources.                                                    *)
(***************************************************************************)
\* A task about to write back the icr under the lock.
Writing(t) == At(t, "raise") \/ (At(t, "store") /\ mutex["cia_mx"].owner = t)

FlagsInv ==
  ~torn => /\ \A t \in Tasks : Writing(t) => reg[t].icr = icr
           /\ owed = IF \E t \in Tasks : At(t, "clear") THEN {} ELSE icr

\* Nothing happens to the pending sources, the registers they are in or the lock.
LEMMA FlagsSame ==
  ASSUME FlagsInv, UNCHANGED <<icr, owed, torn>>,
         \A u \in Tasks : reg'[u].icr = reg[u].icr,
         \A u \in Tasks : (At(u, "clear")' <=> At(u, "clear")) /\ (Writing(u)' => Writing(u))
  PROVE  FlagsInv'
BY DEF FlagsInv

LEMMA FlagsStep ==
  ASSUME Coded, MutexType, Owns, RestType, FlagsInv, [Next]_vars
  PROVE  FlagsInv'
<1> USE DEF Memory
<1>1. \A n \in {"clear", "raise", "store"} : n \in Seconds
  BY DEF Seconds
<1>2. CASE Wake
  <2>1. CiaProcess \in Tasks /\ UNCHANGED <<icr, owed, torn, mutex>>
    BY <1>2 DEF Wake, Tasks
  <2>2. \A u \in Tasks : reg'[u].icr = reg[u].icr
    BY <1>2, <2>1, RegOther DEF Wake, RestType
  <2>3. \A u \in Tasks, n \in Seconds : At(u, n)' <=> At(u, n)
    BY <1>2, <2>1, DoCyclesPiece, AtStart DEF Wake
  <2>4. \A u \in Tasks : (At(u, "clear")' <=> At(u, "clear")) /\ (Writing(u)' => Writing(u))
    BY <1>1, <2>1, <2>3 DEF Writing
  <2> QED
    BY <2>1, <2>2, <2>4, FlagsSame
<1>3. ASSUME NEW c \in Clients, Call(c) PROVE FlagsInv'
  <2>1. c \in Tasks /\ todo[c] = <<>> /\ UNCHANGED <<icr, owed, torn, mutex, reg>>
    BY <1>3 DEF Call, Tasks
  <2>2. PICK call \in Calls : todo' = [todo EXCEPT ![c] = Code(call)]
    BY <1>3 DEF Call
  <2>3. \A u \in Tasks, n \in Seconds : At(u, n)' <=> At(u, n)
    BY <2>1, <2>2, CodePiece, AtStart
  <2>4. \A u \in Tasks : (At(u, "clear")' <=> At(u, "clear")) /\ (Writing(u)' => Writing(u))
    BY <1>1, <2>1, <2>3 DEF Writing
  <2> QED
    BY <2>1, <2>4, FlagsSame
<1>4. ASSUME NEW t \in Tasks, Step(t) PROVE FlagsInv'
  <2>1. /\ \A u \in Tasks \ {t} : \A n : At(u, n)' <=> At(u, n)
        /\ \A n \in Seconds : At(t, n)' => At(t, FirstOf(n))
        /\ At(t, "take") => At(t, "clear")'
    BY <1>4, AtStep
  <2>2. /\ At(t, "clear")' => At(t, "take")
        /\ At(t, "raise")' => At(t, "load")
        /\ At(t, "store")' => At(t, "load")
    BY <1>1, <2>1 DEF FirstOf
  <2>3. \A n, k : At(t, n) /\ At(t, k) => n = k
    BY DEF At
  <2>4. \A u \in Tasks : \A n \in {"raise", "take", "clear"} : At(u, n) => mutex["cia_mx"].owner = u
    BY Alone
  <2>5. reg \in [Tasks -> Registers]
    BY DEF RestType
  <2>6. CASE Load(t)
    <3>1. /\ At(t, "load") /\ reg' = [reg EXCEPT ![t].icr = icr]
          /\ UNCHANGED <<icr, owed, torn, mutex>>
      BY <2>6 DEF Load
    <3>2. reg'[t].icr = icr /\ \A u \in Tasks \ {t} : reg'[u].icr = reg[u].icr
      BY <2>5, <3>1, RegOther
    <3>3. \A u \in Tasks : At(u, "clear")' <=> At(u, "clear")
      BY <2>1, <2>2, <2>3, <3>1
    <3>4. \A u \in Tasks \ {t} : Writing(u)' => Writing(u)
      BY <2>1, <3>1 DEF Writing
    <3> QED
      BY <3>1, <3>2, <3>3, <3>4 DEF FlagsInv
  <2>7. CASE RaiseFlag(t)
    <3>1. /\ At(t, "raise") /\ mutex["cia_mx"].owner = t
          /\ icr' = reg[t].icr \cup {Head(todo[t]).flag}
          /\ owed' = owed \cup {Head(todo[t]).flag}
          /\ UNCHANGED <<torn, mutex>>
      BY <2>4, <2>7 DEF RaiseFlag
    <3>2. \A u \in Tasks : ~At(u, "clear") /\ ~At(u, "clear")'
      BY <2>1, <2>2, <2>3, <2>4, <3>1
    <3>3. \A u \in Tasks : ~Writing(u)'
      BY <2>1, <2>2, <2>3, <2>4, <3>1 DEF Writing
    <3>4. ~torn => reg[t].icr = icr /\ owed = icr
      BY <3>1, <3>2 DEF FlagsInv, Writing
    <3> QED
      BY <3>1, <3>2, <3>3, <3>4 DEF FlagsInv
  <2>8. CASE Store(t)
    <3>1. /\ At(t, "store")
          /\ icr' = reg[t].icr
          /\ torn' = (torn \/ (mutex["cia_mx"].owner # t /\ icr # reg[t].icr))
          /\ reg' = [reg EXCEPT ![t].icr = {}]
          /\ UNCHANGED <<mutex, owed>>
      BY <2>8 DEF Store
    <3>2. ~torn' => ~torn /\ icr' = icr
      BY <3>1 DEF FlagsInv, Writing
    <3>3. \A u \in Tasks \ {t} : reg'[u].icr = reg[u].icr
      BY <2>5, <3>1, RegOther
    <3>4. \A u \in Tasks : At(u, "clear")' <=> At(u, "clear")
      BY <2>1, <2>2, <2>3, <3>1
    <3>5. ~Writing(t)' /\ \A u \in Tasks \ {t} : Writing(u)' => Writing(u)
      BY <2>1, <2>2, <2>3, <3>1 DEF Writing
    <3> QED
      BY <3>1, <3>2, <3>3, <3>4, <3>5 DEF FlagsInv
  <2>9. CASE Take(t)
    <3>1. At(t, "take") /\ mutex["cia_mx"].owner = t /\ owed' = owed \ icr
          /\ UNCHANGED <<mutex, reg, icr, torn>>
      BY <2>4, <2>9 DEF Take
    <3>2. \A u \in Tasks : ~At(u, "clear")
      BY <2>3, <2>4, <3>1
    <3>3. At(t, "clear")' /\ \A u \in Tasks : Writing(u)' => Writing(u)
      BY <2>1, <2>2, <2>3, <3>1 DEF Writing
    <3> QED
      BY <3>1, <3>2, <3>3 DEF FlagsInv
  <2>10. CASE Clear(t)
    <3>1. At(t, "clear") /\ mutex["cia_mx"].owner = t /\ icr' = {}
          /\ UNCHANGED <<mutex, reg, owed, torn>>
      BY <2>4, <2>10 DEF Clear
    <3>2. \A u \in Tasks : ~At(u, "clear")' /\ ~Writing(u)'
      BY <2>1, <2>2, <2>3, <2>4, <3>1 DEF Writing
    <3> QED
      BY <3>1, <3>2 DEF FlagsInv
  <2>11. CASE ObtainMutex(t) \/ ReleaseMutex(t)
    <3>1. /\ At(t, "obtain") \/ At(t, "release")
          /\ UNCHANGED <<icr, owed, torn, reg>>
      BY <2>11 DEF ObtainMutex, ReleaseMutex
    <3>2. mutex' = [mutex EXCEPT !["cia_mx"] = mutex'["cia_mx"], !["event_mx"] = mutex'["event_mx"]]
          /\ (mutex'["cia_mx"].owner \in {t, Nobody} \/ mutex'["cia_mx"] = mutex["cia_mx"])
      BY <2>11 DEF ObtainMutex, ReleaseMutex, MutexType, Mutexes
    <3>3. t # Nobody /\ \A u \in Tasks : u # Nobody
      BY ChipTasksAssumption DEF Tasks
    <3>4. ~Writing(t)' /\ \A u \in Tasks \ {t} : Writing(u)' => Writing(u)
      BY <2>1, <2>2, <2>3, <3>1, <3>2, <3>3 DEF Writing
    <3>5. \A u \in Tasks : At(u, "clear")' <=> At(u, "clear")
      BY <2>1, <2>2, <2>3, <3>1
    <3> QED
      BY <3>1, <3>4, <3>5, FlagsSame
  <2>12. CASE ~(\/ Load(t) \/ RaiseFlag(t) \/ Store(t) \/ Take(t) \/ Clear(t)
                \/ ObtainMutex(t) \/ ReleaseMutex(t))
    <3>1. \E n \in {"stop", "cia_due", "blitter_due", "rest", "update", "mark", "arm", "change",
                    "scan", "set", "start", "finish", "off"} : At(t, n)
      BY <1>4, <2>12 DEF Step, Stop, CiaDue, BlitterDue, Rest, Update, Mark, Arm,
         Change, Scan, SetNext, Start, Finish, TurnOff
    <3>2. UNCHANGED <<icr, owed, torn, mutex>>
      BY <1>4, <2>12 DEF Step, Stop, CiaDue, BlitterDue, Rest, Update, Mark, Arm,
         Change, Scan, SetNext, Start, Finish, TurnOff
    <3>3. \/ UNCHANGED reg
          \/ \E x : reg' = [reg EXCEPT ![t].add = x]
          \/ \E x : reg' = [reg EXCEPT ![t].min = x]
      BY <1>4, <2>12 DEF Step, Stop, CiaDue, BlitterDue, Rest, Update, Mark, Arm,
         Change, Scan, SetNext, Start, Finish, TurnOff
    <3>4. \A u \in Tasks : reg'[u].icr = reg[u].icr
      BY <2>5, <3>3, RegOther
    <3>5. ~At(t, "clear") /\ ~At(t, "take") /\ ~At(t, "load")
      BY <2>3, <3>1
    <3>6. \A u \in Tasks : (At(u, "clear")' <=> At(u, "clear")) /\ (Writing(u)' => Writing(u))
      BY <2>1, <2>2, <3>2, <3>5 DEF Writing
    <3> QED
      BY <3>2, <3>4, <3>6, FlagsSame
  <2> QED
    BY <2>6, <2>7, <2>8, <2>9, <2>10, <2>11, <2>12
<1>5. CASE UNCHANGED vars
  BY <1>5 DEF vars, FlagsInv, Writing, At
<1> QED
  BY <1>2, <1>3, <1>4, <1>5 DEF Next

-----------------------------------------------------------------------------
(***************************************************************************)
(* The next event.                                                         *)
(***************************************************************************)
\* Some task will still look for the nearest event.
ScanPending == \E t \in Tasks : Scans(todo[t])

EventsInv ==
  /\ \A t \in Tasks : At(t, "set") => reg[t].min = Nearest \/ ScanPending
  /\ next = Nearest \/ ScanPending \/ \E t \in Tasks : At(t, "set")

\* Nothing happens to the events, and nobody stops looking for them.
LEMMA EventsSame ==
  ASSUME EventsInv, UNCHANGED <<due, next>>, ScanPending => ScanPending',
         \A u \in Tasks : reg'[u].min = reg[u].min,
         \A u \in Tasks : At(u, "set")' <=> At(u, "set")
  PROVE  EventsInv'
<1>1. Nearest' = Nearest
  BY DEF Nearest, Ahead
<1> QED
  BY <1>1 DEF EventsInv

LEMMA EventsStep ==
  ASSUME Coded, MutexType, Owns, RestType, EventsInv, [Next]_vars
  PROVE  EventsInv'
<1> USE DEF Memory
<1>1. "set" \in Seconds
  BY DEF Seconds
<1>2. CASE Wake
  <2>1. CiaProcess \in Tasks /\ todo[CiaProcess] = <<>> /\ UNCHANGED <<due, next>>
        /\ todo' = [todo EXCEPT ![CiaProcess] = DoCyclesSlow]
    BY <1>2 DEF Wake, Tasks
  <2>2. \A u \in Tasks : reg'[u].min = reg[u].min
    BY <1>2, <2>1, RegOther DEF Wake, RestType
  <2>3. \A u \in Tasks : At(u, "set")' <=> At(u, "set")
    BY <1>1, <2>1, DoCyclesPiece, AtStart
  <2>4. /\ \A u \in Tasks \ {CiaProcess} : todo'[u] = todo[u]
        /\ ~Scans(todo[CiaProcess])
    BY <2>1, DoCyclesPiece, Started
  <2>5. ScanPending => ScanPending'
    BY <2>4 DEF ScanPending
  <2> QED
    BY <2>1, <2>2, <2>3, <2>5, EventsSame
<1>3. ASSUME NEW c \in Clients, Call(c) PROVE EventsInv'
  <2>1. c \in Tasks /\ todo[c] = <<>> /\ UNCHANGED <<due, next, reg>>
    BY <1>3 DEF Call, Tasks
  <2>2. PICK call \in Calls : todo' = [todo EXCEPT ![c] = Code(call)]
    BY <1>3 DEF Call
  <2>3. \A u \in Tasks : At(u, "set")' <=> At(u, "set")
    BY <1>1, <2>1, <2>2, CodePiece, AtStart
  <2>4. /\ \A u \in Tasks \ {c} : todo'[u] = todo[u]
        /\ ~Scans(todo[c])
    BY <2>1, <2>2, CodePiece, Started
  <2>5. ScanPending => ScanPending'
    BY <2>4 DEF ScanPending
  <2> QED
    BY <2>1, <2>3, <2>5, EventsSame
<1>4. ASSUME NEW t \in Tasks, Step(t) PROVE EventsInv'
  <2>1. /\ \A u \in Tasks \ {t} : \A n : At(u, n)' <=> At(u, n)
        /\ \A n \in Seconds : At(t, n)' => At(t, FirstOf(n))
        /\ At(t, "scan") => At(t, "set")'
    BY <1>4, AtStep
  <2>2. At(t, "set")' => At(t, "scan")
    BY <1>1, <2>1 DEF FirstOf
  <2>3. \A n, k : At(t, n) /\ At(t, k) => n = k
    BY DEF At
  <2>4. \A u \in Tasks : At(t, "scan") \/ At(t, "set") => (At(u, "set") => u = t)
    BY Alone
  <2>5. GoesOn(t)
    BY <1>4, StepGoesOn
  <2>6. /\ \A u \in Tasks \ {t} : todo'[u] = todo[u]
        /\ Scans(todo[t]) => At(t, "scan") \/ Scans(todo'[t])
        /\ \A n \in Moves : At(t, n) => Scans(todo'[t])
    BY <2>5 DEF GoesOn, At
  <2>7. ScanPending => At(t, "scan") \/ ScanPending'
    BY <2>6 DEF ScanPending
  <2>8. reg \in [Tasks -> Registers]
    BY DEF RestType
  <2>9. CASE \E n \in Moves : At(t, n)
    <3>1. ScanPending'
      BY <2>6, <2>9 DEF ScanPending
    <3> QED
      BY <3>1 DEF EventsInv
  <2>10. CASE Scan(t)
    <3>1. At(t, "scan") /\ reg' = [reg EXCEPT ![t].min = Nearest] /\ UNCHANGED <<due, next>>
      BY <2>10 DEF Scan
    <3>2. reg'[t].min = Nearest
      BY <2>8, <3>1, RegOther
    <3>3. Nearest' = Nearest
      BY <3>1 DEF Nearest, Ahead
    <3>4. \A u \in Tasks : At(u, "set")' => u = t
      BY <2>1, <2>4, <3>1
    <3> QED
      BY <2>1, <3>1, <3>2, <3>3, <3>4 DEF EventsInv
  <2>11. CASE SetNext(t)
    <3>1. At(t, "set") /\ next' = reg[t].min /\ UNCHANGED due
      BY <2>11 DEF SetNext
    <3>2. Nearest' = Nearest
      BY <3>1 DEF Nearest, Ahead
    <3>3. \A u \in Tasks : ~At(u, "set")'
      BY <2>1, <2>2, <2>3, <2>4, <3>1
    <3>4. ScanPending => ScanPending'
      BY <2>3, <2>7, <3>1
    <3> QED
      BY <3>1, <3>2, <3>3, <3>4 DEF EventsInv
  <2>12. CASE ~(\E n \in Moves : At(t, n)) /\ ~Scan(t) /\ ~SetNext(t)
    <3>1. ~At(t, "scan") /\ ~At(t, "set")
      BY <1>4, <2>3, <2>12 DEF Step, ObtainMutex, ReleaseMutex, Stop, CiaDue, BlitterDue, Rest, Update, Mark, Arm,
         Change, Load, RaiseFlag, Store, Take, Clear, Start, Finish, TurnOff
    <3>2. UNCHANGED <<due, next>>
      BY <1>4, <2>12 DEF Step, ObtainMutex, ReleaseMutex, Stop, CiaDue, BlitterDue, Rest, Update, Mark, Arm,
         Change, Load, RaiseFlag, Store, Take, Clear, Start, Finish, TurnOff, Moves
    <3>3. \/ UNCHANGED reg
          \/ \E x : reg' = [reg EXCEPT ![t].icr = x]
      BY <1>4, <2>12 DEF Step, ObtainMutex, ReleaseMutex, Stop, CiaDue, BlitterDue, Rest, Update, Mark, Arm,
         Change, Load, RaiseFlag, Store, Take, Clear, Start, Finish, TurnOff, Moves
    <3>4. \A u \in Tasks : reg'[u].min = reg[u].min
      BY <2>8, <3>3, RegOther
    <3>5. \A u \in Tasks : At(u, "set")' <=> At(u, "set")
      BY <2>1, <2>2, <3>1
    <3> QED
      BY <2>7, <3>1, <3>2, <3>4, <3>5, EventsSame
  <2> QED
    BY <2>9, <2>10, <2>11, <2>12
<1>5. CASE UNCHANGED vars
  <2>1. ScanPending' = ScanPending
    BY <1>5 DEF vars, ScanPending
  <2> QED
    BY <1>5, <2>1 DEF vars, EventsInv, Nearest, Ahead, At
<1> QED
  BY <1>2, <1>3, <1>4, <1>5 DEF Next

-----------------------------------------------------------------------------
(***************************************************************************)
(* The code of a program: it takes cia_mx first of all, if at all.         *)
(***************************************************************************)
Foreign == {"stop", "cia_due", "blitter_due"}

NoCia(s) == \A i \in 1..Len(s) : s[i].step \notin Foreign /\ s[i] # Taking("cia_mx")

ClientCode(s) ==
  \A i \in 1..Len(s) :
    /\ s[i].step \notin Foreign
    /\ s[i] = Taking("cia_mx") => i = 1 /\ Held(s, 1, "event_mx") = 0

Plain(s) == s \in Seq(Instr) /\ NoCia(s)

LEMMA PlainThen ==
  ASSUME NEW a, NEW b, Plain(a), Plain(b)
  PROVE  Plain(a \o b)
<1>1. a \in Seq(Instr) /\ b \in Seq(Instr) /\ Len(a) \in Nat /\ Len(b) \in Nat
  BY LenProperties DEF Plain
<1>2. /\ a \o b \in Seq(Instr) /\ Len(a \o b) = Len(a) + Len(b)
      /\ \A i \in 1 .. Len(a) + Len(b) :
           (a \o b)[i] = IF i <= Len(a) THEN a[i] ELSE b[i - Len(a)]
  BY <1>1, ConcatProperties
<1>3. ASSUME NEW i \in 1 .. Len(a) + Len(b)
      PROVE  (a \o b)[i].step \notin Foreign /\ (a \o b)[i] # Taking("cia_mx")
  <2>1. CASE i <= Len(a)
    <3>1. i \in 1..Len(a) /\ (a \o b)[i] = a[i]
      BY <1>1, <1>2, <2>1
    <3> QED
      BY <3>1 DEF Plain, NoCia
  <2>2. CASE ~(i <= Len(a))
    <3>1. i - Len(a) \in 1..Len(b) /\ (a \o b)[i] = b[i - Len(a)]
      BY <1>1, <1>2, <2>2
    <3> QED
      BY <3>1 DEF Plain, NoCia
  <2> QED
    BY <2>1, <2>2
<1> QED
  BY <1>2, <1>3 DEF Plain, NoCia

LEMMA PlainOne ==
  ASSUME NEW x \in Instr, x.step \notin Foreign, x # Taking("cia_mx")
  PROVE  Plain(<<x>>)
BY DEF Plain, NoCia

LEMMA PlainSteps ==
  /\ \A n \in {"rest", "update", "mark", "arm", "change", "scan", "set", "load", "store", "take",
               "clear", "start", "finish", "off"} : Plain(Do(n))
  /\ \A m \in Mutexes : Plain(Release(m))
  /\ Plain(Obtain("event_mx"))
  /\ \A f \in Flags : Plain(Raise(f))
<1>1. ASSUME NEW n \in {"rest", "update", "mark", "arm", "change", "scan", "set", "load", "store",
                        "take", "clear", "start", "finish", "off"}
      PROVE  Plain(Do(n))
  <2> DEFINE x == [step |-> n]
  <2>1. x \in Instr /\ x.step \notin Foreign /\ x # Taking("cia_mx")
    BY DEF Instr, Foreign, Taking
  <2> HIDE DEF x
  <2>2. Plain(<<x>>)
    BY <2>1, PlainOne
  <2> QED
    BY <2>2 DEF Do, x
<1>2. ASSUME NEW m \in Mutexes PROVE Plain(Release(m))
  <2>1. Giving(m) \in Instr /\ Giving(m).step \notin Foreign /\ Giving(m) # Taking("cia_mx")
    BY DEF Instr, Foreign, Taking, Giving
  <2>2. Plain(<<Giving(m)>>)
    BY <2>1, PlainOne
  <2> QED
    BY <2>2 DEF Release, Giving
<1>3. Plain(Obtain("event_mx"))
  <2> DEFINE x == Taking("event_mx")
  <2>1. x \in Instr /\ x.step \notin Foreign /\ x # Taking("cia_mx")
    BY DEF Instr, Foreign, Taking, Mutexes
  <2> HIDE DEF x
  <2>2. Plain(<<x>>)
    BY <2>1, PlainOne
  <2> QED
    BY <2>2 DEF Obtain, Taking, x
<1>4. ASSUME NEW f \in Flags PROVE Plain(Raise(f))
  <2> DEFINE x == [step |-> "load"]
             y == [step |-> "raise", flag |-> f]
             s == <<x, y>>
  <2>1. x \in Instr /\ y \in Instr /\ x.step \notin Foreign /\ y.step \notin Foreign
        /\ x # Taking("cia_mx") /\ y # Taking("cia_mx")
    BY DEF Instr, Foreign, Taking
  <2> HIDE DEF x, y
  <2>2. s \in Seq(Instr) /\ Len(s) = 2 /\ s[1] = x /\ s[2] = y
    BY <2>1
  <2> HIDE DEF s
  <2>3. Plain(s)
    <3>1. \A i \in 1..Len(s) : i = 1 \/ i = 2
      BY <2>2
    <3> QED
      BY <2>1, <2>2, <3>1 DEF Plain, NoCia
  <2> QED
    BY <2>3 DEF Raise, s, x, y
<1> QED
  BY <1>1, <1>2, <1>3, <1>4

LEMMA PlainParts ==
  /\ Plain(EventsSchedule) /\ Plain(Rethink) /\ Plain(CalcTimers)
  /\ Plain(Raise("TA") \o Rethink)
<1>1. "event_mx" \in Mutexes /\ "TA" \in Flags
  BY DEF Mutexes, Flags
<1>2. Plain(EventsSchedule)
  <2>1. Plain(Do("scan") \o Do("set"))
    BY PlainSteps, PlainThen
  <2>2. Plain(Obtain("event_mx") \o (Do("scan") \o Do("set")))
    BY <2>1, PlainSteps, PlainThen
  <2>3. Plain(Obtain("event_mx") \o (Do("scan") \o Do("set")) \o Release("event_mx"))
    BY <1>1, <2>2, PlainSteps, PlainThen
  <2> QED
    BY <2>3 DEF EventsSchedule, Locked
<1>3. Plain(Rethink)
  BY PlainSteps, PlainThen DEF Rethink
<1>4. Plain(CalcTimers)
  <2>1. Plain(Do("mark") \o Do("arm"))
    BY PlainSteps, PlainThen
  <2> QED
    BY <1>2, <2>1, PlainThen DEF CalcTimers
<1>5. Plain(Raise("TA") \o Rethink)
  BY <1>1, <1>3, PlainSteps, PlainThen
<1> QED
  BY <1>2, <1>3, <1>4, <1>5

LEMMA PlainClient ==
  ASSUME NEW s, Plain(s)
  PROVE  ClientCode(s)
BY DEF Plain, NoCia, ClientCode

\* A call under the lock of the registers.
LEMMA LockedClient ==
  ASSUME NEW a, Plain(a), Piece(Locked("cia_mx", a), {})
  PROVE  ClientCode(Locked("cia_mx", a))
<1> DEFINE x == Taking("cia_mx")
           o == <<x>>
           inner == a \o Release("cia_mx")
           s == o \o inner
<1>1. "cia_mx" \in Mutexes /\ "event_mx" \in Mutexes
  BY DEF Mutexes
<1>2. Plain(inner)
  BY <1>1, PlainSteps, PlainThen
<1>3. x \in Instr /\ x.step \notin Foreign
  BY <1>1 DEF Taking, Instr, Foreign
<1>4. /\ o \in Seq(Instr) /\ Len(o) = 1 /\ o[1] = x
      /\ a \in Seq(Instr) /\ Release("cia_mx") \in Seq(Instr)
  BY <1>1, <1>3, PlainSteps DEF Plain
<1>5. Locked("cia_mx", a) = s
  <2>1. Obtain("cia_mx") = o
    BY DEF Obtain, Taking
  <2> HIDE DEF o
  <2>2. (o \o a) \o Release("cia_mx") = o \o inner
    <3>1. \A b, c, d \in Seq(Instr) : (b \o c) \o d = b \o (c \o d)
      BY ConcatAssociative
    <3> QED
      BY <1>4, <3>1, Zenon
  <2>3. Locked("cia_mx", a) = (o \o a) \o Release("cia_mx")
    BY <2>1, Zenon DEF Locked
  <2> QED
    BY <2>2, <2>3, Zenon
<1> HIDE DEF x, o, inner
<1>6. inner \in Seq(Instr) /\ Len(inner) \in Nat
  BY <1>2, LenProperties DEF Plain
<1>7. /\ Len(s) = Len(o) + Len(inner)
      /\ \A i \in 1 .. Len(o) + Len(inner) : s[i] = IF i <= Len(o) THEN o[i] ELSE inner[i - Len(o)]
  BY <1>4, <1>6, ConcatProperties
<1>8. Held(s, 1, "event_mx") = 0
  BY <1>1, <1>5 DEF Piece
<1> HIDE DEF s
<1>9. ASSUME NEW i \in 1..Len(s)
      PROVE  s[i].step \notin Foreign /\ (s[i] = Taking("cia_mx") => i = 1)
  <2>1. CASE i = 1
    <3>1. 1 \in 1 .. Len(o) + Len(inner) /\ 1 <= Len(o)
      BY <1>4, <1>6
    <3>2. s[1] = x
      BY <1>4, <1>7, <3>1
    <3> QED
      BY <1>3, <2>1, <3>2
  <2>2. CASE i # 1
    <3>1. i - 1 \in 1..Len(inner) /\ s[i] = inner[i - 1]
      BY <1>4, <1>6, <1>7, <2>2
    <3> QED
      BY <1>2, <3>1 DEF Plain, NoCia
  <2> QED
    BY <2>1, <2>2
<1>10. ClientCode(s)
  BY <1>8, <1>9 DEF ClientCode
<1> QED
  BY <1>5, <1>10

LEMMA CodeClient ==
  ASSUME NEW call \in Calls
  PROVE  ClientCode(Code(call))
<1>1. Piece(Code(call), {})
  BY CodePiece
<1>2. CASE call = "read"
  <2>1. Plain(Do("take") \o Do("clear"))
    BY PlainSteps, PlainThen
  <2>2. Plain(Do("take") \o Do("clear") \o Rethink)
    BY <2>1, PlainParts, PlainThen
  <2>3. Code(call) = Locked("cia_mx", Do("take") \o Do("clear") \o Rethink)
    BY <1>2 DEF Code, Read
  <2> QED
    BY <1>1, <2>2, <2>3, LockedClient
<1>3. CASE call = "restart"
  <2>1. Plain(Do("update") \o Do("change"))
    BY PlainSteps, PlainThen
  <2>2. Plain(Do("update") \o Do("change") \o CalcTimers)
    BY <2>1, PlainParts, PlainThen
  <2>3. Code(call) = Locked("cia_mx", Do("update") \o Do("change") \o CalcTimers)
    BY <1>3 DEF Code, Restart
  <2> QED
    BY <1>1, <2>2, <2>3, LockedClient
<1>4. CASE call = "print"
  <2>1. Plain(Raise("FLG"))
    BY PlainSteps DEF Flags
  <2>2. Code(call) = Locked("cia_mx", Raise("FLG"))
    BY <1>4 DEF Code, WritePrb
  <2> QED
    BY <1>1, <2>1, <2>2, LockedClient
<1>5. CASE call = "blit"
  <2>1. Plain(Do("start") \o EventsSchedule)
    BY PlainSteps, PlainParts, PlainThen
  <2>2. Code(call) = Do("start") \o EventsSchedule
    BY <1>5 DEF Code, Blit
  <2> QED
    BY <2>1, <2>2, PlainClient
<1> QED
  BY <1>2, <1>3, <1>4, <1>5, ChipTasksAssumption

ClientsInv == \A c \in Clients : ClientCode(todo[c])

LEMMA ClientRest ==
  ASSUME NEW s \in Seq(Instr), s # <<>>, ClientCode(s)
  PROVE  Plain(Tail(s)) /\ s[1].step \notin Foreign
         /\ (s[1] = Taking("cia_mx") => Held(s, 1, "event_mx") = 0)
<1> DEFINE r == Tail(s)
<1>1. /\ r \in Seq(Instr) /\ Len(s) \in Nat \ {0} /\ Len(r) = Len(s) - 1
      /\ \A i \in 1..Len(r) : r[i] = s[i + 1]
  BY ConsTail
<1> HIDE DEF r
<1>2. \A i \in 1..Len(r) : i + 1 \in 1..Len(s) /\ i + 1 # 1
  BY <1>1
<1>3. Plain(r)
  BY <1>1, <1>2 DEF Plain, NoCia, ClientCode
<1>4. 1 \in 1..Len(s)
  BY <1>1
<1> QED
  BY <1>3, <1>4 DEF ClientCode, r

LEMMA ClientsStep ==
  ASSUME Coded, ClientsInv, [Next]_vars
  PROVE  ClientsInv'
<1>0. Clients \subseteq Tasks /\ CiaProcess \notin Clients
  BY ChipTasksAssumption DEF Tasks
<1>1. CASE Wake
  <2>1. \A c \in Clients : todo'[c] = todo[c]
    BY <1>0, <1>1 DEF Wake, Coded
  <2> QED
    BY <2>1 DEF ClientsInv
<1>2. ASSUME NEW c \in Clients, Call(c) PROVE ClientsInv'
  <2>1. PICK call \in Calls : todo' = [todo EXCEPT ![c] = Code(call)]
    BY <1>2 DEF Call
  <2>2. todo'[c] = Code(call) /\ \A d \in Clients \ {c} : todo'[d] = todo[d]
    BY <1>0, <2>1 DEF Coded
  <2> QED
    BY <2>2, CodeClient DEF ClientsInv
<1>3. ASSUME NEW t \in Tasks, Step(t) PROVE ClientsInv'
  <2>1. GoesOn(t)
    BY <1>3, StepGoesOn
  <2>2. \A u \in Tasks \ {t} : todo'[u] = todo[u]
    BY <2>1 DEF GoesOn
  <2>3. CASE t \notin Clients
    BY <1>0, <2>2, <2>3 DEF ClientsInv
  <2>4. CASE t \in Clients
    <3> DEFINE s == todo[t]
    <3>1. s \in Seq(Instr) /\ s # <<>> /\ Head(s) = s[1] /\ ClientCode(s)
      BY <2>1, <2>4 DEF GoesOn, Coded, ClientsInv
    <3>2. Plain(Tail(s)) /\ s[1].step \notin Foreign
      <4> HIDE DEF s
      <4> QED
        BY <3>1, ClientRest
    <3>3. Goes(t, <<>>) \/ Goes(t, Raise("TA") \o Rethink)
      BY <1>3, <3>1, <3>2 DEF Step, ObtainMutex, ReleaseMutex, Stop, CiaDue, BlitterDue, Rest, Update,
         Mark, Arm, Change, Scan, SetNext, Load, RaiseFlag, Store, Take, Clear, Start, Finish, TurnOff,
         At, Foreign
    <3>4. ClientCode(todo'[t])
      <4>1. CASE Goes(t, <<>>)
        <5>1. todo'[t] = Tail(s)
          BY <2>1, <4>1, GoesPlain DEF GoesOn
        <5> QED
          BY <3>2, <5>1, PlainClient
      <4>2. CASE Goes(t, Raise("TA") \o Rethink)
        <5>1. todo'[t] = (Raise("TA") \o Rethink) \o Tail(s)
          BY <4>2 DEF Goes, Coded
        <5> QED
          BY <3>2, <5>1, PlainParts, PlainThen, PlainClient
      <4> QED
        BY <3>3, <4>1, <4>2
    <3> QED
      BY <1>0, <2>2, <3>4 DEF ClientsInv
  <2> QED
    BY <2>3, <2>4
<1>4. CASE UNCHANGED vars
  BY <1>4 DEF vars, ClientsInv
<1> QED
  BY <1>1, <1>2, <1>3, <1>4 DEF Next

-----------------------------------------------------------------------------
(***************************************************************************)
(* The inductive invariant and the theorems.                               *)
(***************************************************************************)
Inv ==
  Coded /\ MutexType /\ Owns /\ RestType /\ FlagsInv /\ EventsInv /\ ClientsInv

LEMMA InvInit ==
  ASSUME Init
  PROVE  Inv
<1>1. Coded /\ MutexType /\ Owns
  BY OwnsInit
<1>2. RestType
  BY RestTypeInit
<1>3. \A t \in Tasks : todo[t] = <<>>
  BY DEF Init
<1>4. FlagsInv
  <2>1. \A t \in Tasks : ~Writing(t) /\ ~At(t, "clear")
    BY <1>3 DEF Writing, At
  <2>2. icr = {} /\ owed = {}
    BY DEF Init
  <2> QED
    BY <2>1, <2>2 DEF FlagsInv
<1>5. EventsInv
  <2>1. \A t \in Tasks : ~At(t, "set")
    BY <1>3 DEF At
  <2>2. Reload \in Nat /\ next = Reload
    BY ChipTasksAssumption DEF Init
  <2>3. Ahead = {Reload}
    BY <2>2 DEF Init, Ahead, Off, Passed
  <2>4. Min({Reload}) = Reload
    BY <2>2 DEF Min
  <2>5. Nearest = Reload
    BY <2>3, <2>4 DEF Nearest
  <2> QED
    BY <2>1, <2>2, <2>5 DEF EventsInv
<1>6. ClientsInv
  <2>1. Clients \subseteq Tasks
    BY DEF Tasks
  <2> QED
    BY <1>3, <2>1 DEF ClientsInv, ClientCode
<1> QED
  BY <1>1, <1>2, <1>4, <1>5, <1>6 DEF Inv

LEMMA InvHolds ==
  Spec => []Inv
<1>1. Init => Inv
  BY InvInit
<1>2. Inv /\ [Next]_vars => Inv'
  <2> SUFFICES ASSUME Inv, [Next]_vars PROVE Inv'
    OBVIOUS
  <2>1. Coded /\ MutexType /\ Owns /\ RestType /\ FlagsInv /\ EventsInv /\ ClientsInv
    BY DEF Inv
  <2>2. Coded' /\ MutexType' /\ Owns'
    BY <2>1, OwnsStep
  <2>3. RestType'
    BY <2>1, RestTypeStep
  <2>4. FlagsInv'
    BY <2>1, FlagsStep
  <2>5. EventsInv'
    BY <2>1, EventsStep
  <2>6. ClientsInv'
    BY <2>1, ClientsStep
  <2> QED
    BY <2>2, <2>3, <2>4, <2>5, <2>6 DEF Inv
<1> QED
  BY <1>1, <1>2, PTL DEF Spec

\* What is still given back and taken, counted as the property counts it.
LEMMA Counted ==
  ASSUME Coded, NEW t \in Tasks, NEW m \in Mutexes
  PROVE  Gives(t, m) - Takes(t, m) = Held(todo[t], 1, m)
<1> DEFINE s == todo[t]
<1>1. s \in Seq(Instr)
  BY DEF Coded
<1> HIDE DEF s
<1>2. \A i \in 1..Len(s) :
        /\ (s[i].step = "release" /\ s[i].mutex = m) <=> s[i] = Giving(m)
        /\ (s[i].step = "obtain" /\ s[i].mutex = m) <=> s[i] = Taking(m)
  <2>1. ASSUME NEW i \in 1..Len(s)
        PROVE  /\ (s[i].step = "release" /\ s[i].mutex = m) <=> s[i] = Giving(m)
               /\ (s[i].step = "obtain" /\ s[i].mutex = m) <=> s[i] = Taking(m)
    <3>1. s[i] \in Instr
      BY <1>1
    <3>2. /\ s[i].step = "release" => s[i] = Giving(s[i].mutex)
          /\ s[i].step = "obtain" => s[i] = Taking(s[i].mutex)
      BY <3>1, LockInstr
    <3>3. /\ Giving(m).step = "release" /\ Giving(m).mutex = m
          /\ Taking(m).step = "obtain" /\ Taking(m).mutex = m
      BY DEF Giving, Taking
    <3> QED
      BY <3>2, <3>3
  <2> QED
    BY <2>1
<1>3. DOMAIN s = 1..Len(s)
  BY <1>1, LenProperties
<1>4. /\ {i \in DOMAIN s : s[i].step = "release" /\ s[i].mutex = m} = {j \in 1..Len(s) : s[j] = Giving(m)}
      /\ {i \in DOMAIN s : s[i].step = "obtain" /\ s[i].mutex = m} = {j \in 1..Len(s) : s[j] = Taking(m)}
  BY <1>2, <1>3
<1>5. /\ Gives(t, m) = Cardinality({i \in DOMAIN s : s[i].step = "release" /\ s[i].mutex = m})
      /\ Takes(t, m) = Cardinality({i \in DOMAIN s : s[i].step = "obtain" /\ s[i].mutex = m})
  BY Zenon DEF Gives, Takes, s
<1>6. Gives(t, m) = Count(s, 1, Giving(m)) /\ Takes(t, m) = Count(s, 1, Taking(m))
  BY <1>4, <1>5, Zenon DEF Count
<1> QED
  BY <1>6 DEF Held, s

\* Two tasks wait for each other's mutex only when the process, holding event_mx
\* in do_cycles_slow, has met a timer write that holds cia_mx.
LEMMA Embrace ==
  ASSUME Inv
  PROVE  OnlyTheProcessEmbraces
<1> SUFFICES ASSUME NEW t \in Tasks, NEW u \in Tasks, NEW m \in Mutexes, NEW n \in Mutexes,
                    Waits(t, m), mutex[m].owner = u, Waits(u, n), mutex[n].owner = t
             PROVE  CiaProcess \in {t, u} /\ mutex["event_mx"].owner = CiaProcess
  BY DEF OnlyTheProcessEmbraces
<1>1. m # n
  BY DEF Waits
<1>2. ASSUME NEW v \in Tasks, Waits(v, "cia_mx"), mutex["event_mx"].owner = v
      PROVE  v = CiaProcess
  <2> SUFFICES ASSUME v \in Clients PROVE FALSE
    BY DEF Tasks
  <2> DEFINE s == todo[v]
  <2>1. s \in Seq(Instr) /\ Sound(s, {}) /\ s # <<>> /\ ClientCode(s)
    BY <1>2 DEF Inv, Coded, ClientsInv, Waits, At
  <2>2. Head(s) \in Instr /\ Head(s) = s[1]
    BY <2>1, HeadTailProperties
  <2>3. s[1] = Taking("cia_mx")
    BY <1>2, <2>2, LockInstr DEF Waits, At
  <2>4. Held(s, 1, "event_mx") = 0
    <3> HIDE DEF s
    <3> QED
      BY <2>1, <2>3, ClientRest
  <2>5. mutex["event_mx"].depth = 0
    BY <1>2, <2>4 DEF Inv, Owns, Mutexes
  <2>6. v # Nobody
    BY ChipTasksAssumption DEF Tasks
  <2> QED
    BY <1>2, <2>5, <2>6 DEF Inv, Owns, Mutexes
<1> QED
  BY <1>1, <1>2 DEF Mutexes

\* In whatever order the process and the programs come to them, the mutexes stay in
\* order: each is as deep as its owner has still to give it back, on every path
\* through do_cycles_slow, CIA_handler, blitter_handler and the register functions, so
\* that a call that has returned holds none; and the only two tasks that can ever wait
\* for each other are the process inside do_cycles_slow, which runs the handlers under
\* event_mx, and a timer write, whose events_schedule wants event_mx under cia_mx.
THEOREM MutexesInOrderHolds ==
  Spec => []MutexesInOrder
<1>1. Inv => TypeOK
  <2>1. Inv => busy \in BOOLEAN /\ torn \in BOOLEAN
    BY DEF Inv, RestType
  <2>2. Inv => {busy, torn} \subseteq BOOLEAN
    BY <2>1, Zenon
  <2> QED
    BY <2>2 DEF Inv, MutexType, RestType, Distance, TypeOK
<1>2. Inv => MutexesBalanced
  BY Counted DEF Inv, Owns, MutexesBalanced
<1>3. Inv => OnlyTheProcessEmbraces
  BY Embrace
<1>4. Inv => MutexesInOrder
  BY <1>1, <1>2, <1>3 DEF MutexesInOrder
<1> QED
  BY <1>4, InvHolds, PTL

\* A source that CIA_update or a write of the printer port raises stays pending until
\* one read of the ICR returns it, and no second read does, whichever tasks read and
\* write the registers at once: cia_mx makes each read-modify-write of icr one.  Only
\* the rethink of blitter_handler, which does not take cia_mx, can write back an icr
\* that has changed meanwhile, and then torn says so.
THEOREM FlagsKeptHolds ==
  Spec => []FlagsKept
<1>1. Inv => FlagsKept
  BY DEF Inv, FlagsInv, FlagsKept
<1> QED
  BY <1>1, InvHolds, PTL

\* When no task is on its way to events_schedule or in it, nextevent is the smallest
\* evtime that is still ahead.  CIA_calctimers and do_blitter write evtime without
\* event_mx, so a scan may miss the new time: what makes it right is that each of them
\* scans again afterwards, and that only one task at a time is between the scan and
\* the store of nextevent.
THEOREM NextEventCurrentHolds ==
  Spec => []NextEventCurrent
<1>1. Inv => NextEventCurrent
  <2> SUFFICES ASSUME Inv, \A t \in Tasks : \A i \in DOMAIN todo[t] : todo[t][i].step \notin {"scan", "set"}
               PROVE  next = Nearest
    BY DEF NextEventCurrent
  <2>1. ASSUME NEW t \in Tasks PROVE ~Scans(todo[t]) /\ ~At(t, "set")
    <3> DEFINE s == todo[t]
    <3>1. s \in Seq(Instr) /\ DOMAIN s = 1..Len(s)
      BY LenProperties DEF Inv, Coded
    <3>2. s # <<>> => Head(s) = s[1] /\ 1 \in 1..Len(s)
      <4> HIDE DEF s
      <4> QED
        BY <3>1, NotEmpty, LenProperties
    <3> QED
      BY <3>1, <3>2 DEF Scans, At
  <2> QED
    BY <2>1 DEF Inv, EventsInv, ScanPending
<1> QED
  BY <1>1, InvHolds, PTL
=============================================================================
