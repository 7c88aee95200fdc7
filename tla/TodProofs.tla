------------------------------ MODULE TodProofs ------------------------------
(* Theorems about Tod.tla, for bytes of any size. *)
EXTENDS Tod, TLAPS

(***************************************************************************)
(* The type invariant.                                                     *)
(***************************************************************************)
Clock == {tod, tol, alarm, val} \subseteq Times
Flags == {tlatch, todon, setsAlarm, icr, imask, ir, right, alone} \subseteq BOOLEAN
Stages ==
  /\ pc \in {"idle", "latched", "gotHi", "gotMid", "read", "setHi", "setMid"}
  /\ why \in {"different", "rang", "put"}

LEMMA MidnightIsATime == Midnight \in Times
BY TodAssumption DEF Midnight, Times, Bytes

\* The carry keeps every byte a byte.
LEMMA AdvanceIsATime ==
  ASSUME NEW t \in Times
  PROVE  Advance(t) \in Times
BY TodAssumption DEF Advance, Times, Bytes, Hi, Mid, Lo

LEMMA ByteIsWritten ==
  ASSUME Clock, NEW b \in {Hi, Mid, Lo}, NEW v \in Bytes, WriteByte(b, v)
  PROVE  {tod', alarm'} \subseteq Times
BY DEF WriteByte, Times, Clock

LEMMA ClockKept ==
  ASSUME Clock, [Next]_vars
  PROVE  Clock'
<1>1. CASE Tick
  BY <1>1, AdvanceIsATime DEF Tick, program, Clock
<1>2. CASE \E t \in Times : BeginSet(t)
  <2>1. PICK t \in Times : BeginSet(t)
    BY <1>2
  <2>2. t[Hi] \in Bytes
    BY DEF Times, Hi
  <2> QED
    BY <2>1, <2>2, ByteIsWritten DEF BeginSet, Clock, WriteByte
<1>3. CASE SetMid
  <2>1. val[Mid] \in Bytes
    BY DEF Times, Mid, Clock
  <2> QED
    BY <1>3, <2>1, ByteIsWritten DEF SetMid, Clock, WriteByte
<1>4. CASE SetLo
  <2>1. val[Lo] \in Bytes
    BY DEF Times, Lo, Clock
  <2> QED
    BY <1>4, <2>1, ByteIsWritten, MidnightIsATime DEF SetLo, Clock, WriteByte
<1>5. CASE \E b \in {Hi, Mid, Lo}, v \in Bytes : OtherWrites(b, v)
  BY <1>5, ByteIsWritten DEF OtherWrites, Clock, WriteByte, program
<1>6. CASE ReadIcr \/ WriteMask \/ BeginRead \/ ReadHi \/ ReadMid \/ ReadLo
  BY <1>6, MidnightIsATime
     DEF ReadIcr, WriteMask, BeginRead, ReadHi, ReadMid, ReadLo, CloseLatch, FillLatch, OpenLatch,
              Clock, clock, program
<1>7. CASE OtherReadsHi \/ OtherReadsLo \/ \E to \in BOOLEAN : Redirects(to)
  BY <1>7 DEF OtherReadsHi, OtherReadsLo, Redirects, Redirect, CloseLatch, FillLatch, OpenLatch,
              Clock, program
<1>8. CASE UNCHANGED vars
  BY <1>8 DEF vars, clock, program, Clock
<1> QED
  BY <1>1, <1>2, <1>3, <1>4, <1>5, <1>6, <1>7, <1>8 DEF Next

LEMMA FlagsKept ==
  ASSUME Flags, [Next]_vars
  PROVE  Flags'
BY DEF Flags, Next, vars, clock, program, Tick, Ring, ReadIcr, WriteMask, BeginRead, ReadHi,
       ReadMid, ReadLo, interrupt,
       BeginSet, SetMid, SetLo, OtherWrites, OtherReadsHi, OtherReadsLo, Redirects, Redirect,
       WriteByte, CloseLatch, FillLatch, OpenLatch

LEMMA StagesKept ==
  ASSUME Stages, [Next]_vars
  PROVE  Stages'
BY DEF Stages, Next, vars, clock, program, Tick, Ring, ReadIcr, WriteMask, BeginRead, ReadHi,
       ReadMid, ReadLo, interrupt,
       BeginSet, SetMid, SetLo, OtherWrites, OtherReadsHi, OtherReadsLo, Redirects, Redirect,
       WriteByte, CloseLatch, FillLatch, OpenLatch

\* Every byte of the counter, the latch and the alarm stays a byte, whatever
\* is written and however often the counter is advanced.
THEOREM TypeCorrect == Spec => []TypeOK
<1>1. Init => TypeOK
  BY MidnightIsATime DEF Init, TypeOK
<1>2. TypeOK /\ [Next]_vars => TypeOK'
  <2>1. TypeOK <=> Clock /\ Flags /\ Stages
    BY DEF TypeOK, Clock, Flags, Stages
  <2>2. TypeOK' <=> Clock' /\ Flags' /\ Stages'
    BY DEF TypeOK, Clock, Flags, Stages
  <2> QED
    BY <2>1, <2>2, ClockKept, FlagsKept, StagesKept
<1> QED
  BY <1>1, <1>2, PTL DEF Spec

(***************************************************************************)
(* Reading: while nobody else touches the latch, it holds the time of the  *)
(* program's read of the high byte.                                        *)
(***************************************************************************)
LatchHolds ==
  alone =>
    /\ pc \in {"latched", "gotHi", "gotMid"} => tlatch
    /\ pc \in {"gotHi", "gotMid"} => tol = val
    /\ pc \in {"gotHi", "gotMid", "read"} => right

LEMMA LatchHoldsOn ==
  ASSUME TypeOK, LatchHolds, [Next]_vars
  PROVE  LatchHolds'
<1>1. CASE Tick \/ ReadIcr \/ WriteMask
  <2>1. UNCHANGED <<tlatch, tol, pc, val, right, alone>>
    BY <1>1 DEF Tick, ReadIcr, WriteMask, program
  <2> QED
    BY <2>1 DEF LatchHolds
<1>7. CASE BeginRead
  BY <1>7 DEF LatchHolds, BeginRead, CloseLatch
<1>8. CASE ReadHi
  BY <1>8 DEF LatchHolds, ReadHi, FillLatch
<1>9. CASE ReadMid
  BY <1>9 DEF LatchHolds, ReadMid, Shown, clock
<1>10. CASE ReadLo
  BY <1>10 DEF LatchHolds, ReadLo, Shown, OpenLatch
<1>2. CASE (\E t \in Times : BeginSet(t)) \/ SetMid \/ SetLo
  BY <1>2 DEF LatchHolds, BeginSet, SetMid, SetLo
<1>3. CASE \E b \in {Hi, Mid, Lo}, v \in Bytes : OtherWrites(b, v)
  <2>1. UNCHANGED <<tlatch, tol, pc, val, right>>
    BY <1>3 DEF OtherWrites, WriteByte, program
  <2>2. alone' => alone
    BY <1>3 DEF OtherWrites
  <2> QED
    BY <2>1, <2>2 DEF LatchHolds
<1>4. CASE OtherReadsHi \/ OtherReadsLo
  BY <1>4 DEF LatchHolds, OtherReadsHi, OtherReadsLo, CloseLatch, FillLatch, OpenLatch,
              Reading, program, TypeOK
<1>5. CASE \E to \in BOOLEAN : Redirects(to)
  <2>1. UNCHANGED <<tlatch, tol, pc, val, right>>
    BY <1>5 DEF Redirects, Redirect, program
  <2>2. alone' => alone
    BY <1>5 DEF Redirects
  <2> QED
    BY <2>1, <2>2 DEF LatchHolds
<1>6. CASE UNCHANGED vars
  BY <1>6 DEF LatchHolds, vars, clock, program
<1> QED
  BY <1>1, <1>2, <1>3, <1>4, <1>5, <1>6, <1>7, <1>8, <1>9, <1>10 DEF Next

\* The three bytes a program reads high to low are the counter as it was
\* when the latch was filled, as long as nobody else reads the high or low byte.
THEOREM ReadIsWholeHolds == Spec => []ReadIsWhole
<1>1. Init => LatchHolds
  BY DEF Init, LatchHolds
<1>2. TypeOK /\ LatchHolds /\ [Next]_vars => LatchHolds'
  BY LatchHoldsOn
<1>3. LatchHolds => ReadIsWhole
  BY DEF LatchHolds, ReadIsWhole
<1> QED
  BY <1>1, <1>2, <1>3, TypeCorrect, PTL DEF Spec

(***************************************************************************)
(* Setting: between the first and the last byte the counter stands still,  *)
(* and what has been written stays.                                        *)
(***************************************************************************)
Target == IF setsAlarm THEN alarm ELSE tod

WrittenStays ==
  alone =>
    /\ Setting => Target[Hi] = val[Hi] /\ (setsAlarm \/ ~todon)
    /\ pc = "setMid" => Target[Mid] = val[Mid]

LEMMA TargetWritten ==
  ASSUME TypeOK, NEW b \in {Hi, Mid, Lo}, NEW v \in Bytes, WriteByte(b, v)
  PROVE  /\ Target' = [Target EXCEPT ![b] = v]
         /\ setsAlarm \/ (todon' <=> b = Lo)
         /\ setsAlarm' = setsAlarm
BY DEF WriteByte, Target, TypeOK

LEMMA WrittenStaysOn ==
  ASSUME TypeOK, WrittenStays, [Next]_vars
  PROVE  WrittenStays'
<1> USE DEF WrittenStays
<1>1. CASE Tick
  BY <1>1 DEF Tick, Target, Setting, program
<1>2. CASE \E t \in Times : BeginSet(t)
  <2>1. PICK t \in Times : BeginSet(t)
    BY <1>2
  <2>2. t[Hi] \in Bytes /\ val' = t /\ pc' = "setHi"
    BY <2>1 DEF BeginSet, Times, Hi
  <2>3. Target' = [Target EXCEPT ![Hi] = t[Hi]] /\ (setsAlarm' \/ ~todon')
    BY <2>1, <2>2, TargetWritten DEF BeginSet, Hi, Lo
  <2>4. Target \in Times
    BY DEF Target, TypeOK
  <2> QED
    BY <2>2, <2>3, <2>4 DEF Setting, Times
<1>3. CASE SetMid
  <2>1. val[Mid] \in Bytes /\ val' = val /\ pc = "setHi" /\ pc' = "setMid" /\ alone' = alone
    BY <1>3 DEF SetMid, Times, Mid, TypeOK
  <2>2. Target' = [Target EXCEPT ![Mid] = val[Mid]] /\ (setsAlarm' \/ ~todon')
    BY <1>3, <2>1, TargetWritten DEF SetMid, Mid, Lo
  <2>3. Target \in Times
    BY DEF Target, TypeOK
  <2> QED
    BY <2>1, <2>2, <2>3 DEF Setting, Times, Hi, Mid
<1>4. CASE SetLo \/ BeginRead \/ ReadHi \/ ReadMid \/ ReadLo
  BY <1>4 DEF SetLo, BeginRead, ReadHi, ReadMid, ReadLo, Setting
<1>5. CASE ReadIcr \/ WriteMask \/ OtherReadsHi \/ OtherReadsLo
  <2>1. UNCHANGED <<tod, alarm, setsAlarm, todon, pc, val>>
    BY <1>5 DEF ReadIcr, WriteMask, OtherReadsHi, OtherReadsLo, CloseLatch, FillLatch,
                OpenLatch, program
  <2>2. alone' => alone
    BY <1>5 DEF ReadIcr, WriteMask, OtherReadsHi, OtherReadsLo
  <2> QED
    BY <2>1, <2>2 DEF Target, Setting
<1>6. CASE \E b \in {Hi, Mid, Lo}, v \in Bytes : OtherWrites(b, v)
  BY <1>6 DEF OtherWrites, program, Setting
<1>7. CASE \E to \in BOOLEAN : Redirects(to)
  BY <1>7 DEF Redirects, program, Setting
<1>8. CASE UNCHANGED vars
  BY <1>8 DEF vars, clock, program, Target, Setting
<1> QED
  BY <1>1, <1>2, <1>3, <1>4, <1>5, <1>6, <1>7, <1>8 DEF Next

\* With its last byte the whole time is what the program wanted, although the
\* bytes were written one by one while the counter's interrupts went on.
THEOREM SetIsWholeHolds == Spec => SetIsWhole
<1>1. Init => WrittenStays
  BY DEF Init, WrittenStays, Setting
<1>2. TypeOK /\ WrittenStays /\ [Next]_vars => WrittenStays'
  BY WrittenStaysOn
<1>3. TypeOK /\ WrittenStays =>
        (SetLo /\ alone => (IF setsAlarm THEN alarm' = val ELSE tod' = val /\ todon'))
  <2> SUFFICES ASSUME TypeOK, WrittenStays, SetLo, alone
               PROVE  IF setsAlarm THEN alarm' = val ELSE tod' = val /\ todon'
    OBVIOUS
  <2>1. val \in Times /\ Target \in Times /\ val[Lo] \in Bytes
    BY DEF TypeOK, Target, Times, Lo
  <2>2. Target[Hi] = val[Hi] /\ Target[Mid] = val[Mid]
    BY DEF WrittenStays, SetLo, Setting
  <2>3. Target' = [Target EXCEPT ![Lo] = val[Lo]]
        /\ (setsAlarm \/ todon') /\ setsAlarm' = setsAlarm
    BY <2>1, TargetWritten DEF SetLo
  <2>4. [Target EXCEPT ![Lo] = val[Lo]] = val
    BY <2>1, <2>2 DEF Times, Hi, Mid, Lo
  <2> QED
    BY <2>3, <2>4 DEF Target
<1> QED
  BY <1>1, <1>2, <1>3, TypeCorrect, PTL DEF Spec, SetIsWhole

\* Whenever the clock shows the alarm's time, it has rung, and requested if it is
\* enabled, or the time was put there by a write.
THEOREM AlarmRingsHolds == Spec => []AlarmRings
<1>1. Init => AlarmRings
  BY DEF Init, AlarmRings
<1>2. AlarmRings /\ [Next]_vars => AlarmRings'
  <2> SUFFICES ASSUME AlarmRings, [Next]_vars
               PROVE  AlarmRings'
    OBVIOUS
  <2>1. CASE Tick
    <3> DEFINE now == IF todon THEN Advance(tod) ELSE tod
    <3>1. tod' = now /\ alarm' = alarm /\ Ring(now = alarm)
          /\ why' = IF now # alarm THEN "different" ELSE IF Heard THEN "rang" ELSE why
      BY <2>1 DEF Tick
    <3>2. now = alarm => Heard
      BY <3>1 DEF Ring, Heard
    <3> QED
      BY <3>1, <3>2 DEF AlarmRings
  <2>2. CASE (\E t \in Times : BeginSet(t)) \/ SetMid \/ SetLo
             \/ \E b \in {Hi, Mid, Lo}, v \in Bytes : OtherWrites(b, v)
    BY <2>2 DEF AlarmRings, BeginSet, SetMid, SetLo, OtherWrites, WriteByte
  <2>3. CASE ReadIcr \/ WriteMask \/ BeginRead \/ ReadHi \/ ReadMid \/ ReadLo
             \/ OtherReadsHi \/ OtherReadsLo \/ (\E to \in BOOLEAN : Redirects(to))
             \/ UNCHANGED vars
    <3>1. UNCHANGED <<tod, alarm, why>>
      BY <2>3 DEF ReadIcr, WriteMask, BeginRead, ReadHi, ReadMid, ReadLo, OtherReadsHi,
                  OtherReadsLo, Redirects, Redirect, CloseLatch, FillLatch, OpenLatch, vars, clock
    <3> QED
      BY <3>1 DEF AlarmRings
  <2> QED
    BY <2>1, <2>2, <2>3 DEF Next
<1> QED
  BY <1>1, <1>2, PTL DEF Spec
=============================================================================
