-------------------------------- MODULE Tod --------------------------------
(***************************************************************************)
(* The time of day of a CIA (UAE/cia.c): a counter of three bytes that the *)
(* vertical sync of CIA-A and the horizontal sync of CIA-B advance, an     *)
(* alarm, and one latch for reading.  Reading the high byte latches the    *)
(* counter and reading the low byte lets go of it; writing the high or     *)
(* middle byte stops the counter and writing the low byte starts it.  Bit  *)
(* 7 of control register B directs writes to the alarm.                    *)
(*                                                                         *)
(* One program reads and sets the time byte by byte, as these rules ask    *)
(* for.  All others do anything with the registers at any time.  Writes    *)
(* hold cia_mx, reads do not.  Of the icr and its mask only the alarm's    *)
(* bit is here, the other sources are Cia's.                               *)
(***************************************************************************)
EXTENDS Integers

CONSTANTS Byte   \* the values of a byte, 256 in the code

ASSUME TodAssumption == Byte \in Nat \ {0}

Hi == 2
Mid == 1
Lo == 0
Bytes == 0 .. Byte - 1
Times == [{Hi, Mid, Lo} -> Bytes]
Midnight == [b \in {Hi, Mid, Lo} |-> 0]

VARIABLES
  tod, tol, alarm,   \* the counter, the latched counter, the alarm
  tlatch, todon,
  setsAlarm,         \* crb & 0x80
  icr, imask,        \* the alarm's bit of the icr and of its mask
  ir,                \* bit 7 of the icr; whenever it is set, INTREQ_0 is called as well
  pc,                \* what the program is doing
  val,               \* the time it means to set, or the time when it latched; Midnight for neither
  right,             \* were the bytes it has read those of val?
  alone,             \* history: has nobody else touched what it is using?
  why                \* history: how the counter came to show the alarm's time

interrupt == <<icr, imask, ir>>
clock == <<tod, tol, alarm, tlatch, todon, setsAlarm, interrupt>>
program == <<pc, val, right>>
vars == <<clock, program, alone, why>>

TypeOK ==
  /\ {tod, tol, alarm, val} \subseteq Times
  /\ {tlatch, todon, setsAlarm, icr, imask, ir, right, alone} \subseteq BOOLEAN
  /\ pc \in {"idle", "latched", "gotHi", "gotMid", "read", "setHi", "setMid"}
  /\ why \in {"different", "rang", "put"}

\* CIA_reset; the alarm keeps the zero it was loaded with.
Init ==
  /\ tod = Midnight /\ tol = Midnight /\ alarm = Midnight
  /\ tlatch = FALSE /\ todon = FALSE /\ setsAlarm = FALSE
  /\ icr = FALSE /\ imask = FALSE /\ ir = FALSE
  /\ pc = "idle" /\ val = Midnight /\ right = TRUE
  /\ alone = TRUE /\ why = "put"

\* The counter's successor: a carry from byte to byte, 24 bits in all.
Advance(t) ==
  IF t[Lo] < Byte - 1 THEN [t EXCEPT ![Lo] = @ + 1]
  ELSE IF t[Mid] < Byte - 1 THEN [t EXCEPT ![Lo] = 0, ![Mid] = @ + 1]
  ELSE [t EXCEPT ![Lo] = 0, ![Mid] = 0, ![Hi] = (@ + 1) % Byte]

Reading == pc \in {"latched", "gotHi", "gotMid"}
Setting == pc \in {"setHi", "setMid"}

-----------------------------------------------------------------------------
(* CIA_vsync_handler, CIA_hsync_handler.                                   *)

\* Mutant: the alarm's bit is set and nothing is rethought.
RingUnheard(match) == icr' = (icr \/ match) /\ UNCHANGED <<imask, ir>>

\* The alarm's bit, and RethinkICRA or RethinkICRB: bit 7 and a request if the alarm
\* is enabled, no bit 7 if it is not.
Ring(match) ==
  /\ icr' = (icr \/ match)
  /\ ir' = IF match THEN imask ELSE ir
  /\ UNCHANGED imask

\* Has the alarm been heard: flagged, and requested if it is enabled?
Heard == icr' /\ (imask => ir')

Tick ==
  LET now == IF todon THEN Advance(tod) ELSE tod
  IN  /\ tod' = now
      /\ Ring(now = alarm)
      /\ why' = IF now # alarm THEN "different" ELSE IF Heard THEN "rang" ELSE why
      /\ UNCHANGED <<tol, alarm, tlatch, todon, setsAlarm, program, alone>>

-----------------------------------------------------------------------------
(* The registers, as ReadCIAA, ReadCIAB, WriteCIAA and WriteCIAB treat     *)
(* them.                                                                   *)

\* Mutant: the middle byte is read past the latch.
ShownLive(b) == IF tlatch /\ b # Mid THEN tol[b] ELSE tod[b]

\* What a read of byte b returns.
Shown(b) == IF tlatch THEN tol[b] ELSE tod[b]

\* Mutant: only a write of the high byte stops the counter, and any other starts it.
WriteByteStarts(b, v) ==
  /\ IF setsAlarm
       THEN alarm' = [alarm EXCEPT ![b] = v] /\ UNCHANGED <<tod, todon>>
       ELSE tod' = [tod EXCEPT ![b] = v] /\ todon' = (b # Hi) /\ UNCHANGED alarm
  /\ why' = IF tod' = alarm' THEN (IF why = "different" THEN "put" ELSE why) ELSE "different"
  /\ UNCHANGED <<tol, tlatch, setsAlarm, interrupt>>

\* A write of byte b.  A match made by a write does not ring.
WriteByte(b, v) ==
  /\ IF setsAlarm
       THEN alarm' = [alarm EXCEPT ![b] = v] /\ UNCHANGED <<tod, todon>>
       ELSE tod' = [tod EXCEPT ![b] = v] /\ todon' = (b = Lo) /\ UNCHANGED alarm
  /\ why' = IF tod' = alarm' THEN (IF why = "different" THEN "put" ELSE why) ELSE "different"
  /\ UNCHANGED <<tol, tlatch, setsAlarm, interrupt>>

\* A write of control register B; its other bits are the timers'.
Redirect(to) ==
  /\ setsAlarm' = to
  /\ UNCHANGED <<tod, tol, alarm, tlatch, todon, interrupt, why>>

\* A read of the icr takes all its bits, bit 7 with them.
ReadIcr ==
  /\ icr' = FALSE /\ ir' = FALSE
  /\ UNCHANGED <<imask, tod, tol, alarm, tlatch, todon, setsAlarm, program, alone, why>>

\* A write of the icr sets or clears bits of the mask, without a rethink.
WriteMask ==
  /\ imask' \in BOOLEAN
  /\ UNCHANGED <<icr, ir, tod, tol, alarm, tlatch, todon, setsAlarm, program, alone, why>>

\* A read of the high byte: the latch is closed, then filled; no lock is held.
CloseLatch == tlatch' = TRUE /\ UNCHANGED <<tod, tol, alarm, todon, setsAlarm, interrupt, why>>
FillLatch == tol' = tod /\ UNCHANGED <<tod, alarm, tlatch, todon, setsAlarm, interrupt, why>>

\* A read of the low byte.
OpenLatch == tlatch' = FALSE /\ UNCHANGED <<tod, tol, alarm, todon, setsAlarm, interrupt, why>>

-----------------------------------------------------------------------------
(* The program: high, middle, low.                                         *)

BeginRead ==
  /\ ~Reading /\ ~Setting
  /\ CloseLatch
  /\ pc' = "latched" /\ right' = TRUE /\ alone' = TRUE
  /\ UNCHANGED val

ReadHi ==
  /\ pc = "latched"
  /\ FillLatch
  /\ pc' = "gotHi" /\ val' = tod
  /\ right' = TRUE
  /\ UNCHANGED alone

ReadMid ==
  /\ pc = "gotHi"
  /\ pc' = "gotMid" /\ right' = (right /\ Shown(Mid) = val[Mid])
  /\ UNCHANGED <<clock, val, alone, why>>

ReadLo ==
  /\ pc = "gotMid"
  /\ OpenLatch
  /\ pc' = "read" /\ right' = (right /\ Shown(Lo) = val[Lo])
  /\ val' = Midnight
  /\ UNCHANGED alone

BeginSet(t) ==
  /\ ~Reading /\ ~Setting
  /\ WriteByte(Hi, t[Hi])
  /\ pc' = "setHi" /\ val' = t /\ right' = TRUE /\ alone' = TRUE

SetMid ==
  /\ pc = "setHi"
  /\ WriteByte(Mid, val[Mid])
  /\ pc' = "setMid"
  /\ UNCHANGED <<val, right, alone>>

SetLo ==
  /\ pc = "setMid"
  /\ WriteByte(Lo, val[Lo])
  /\ pc' = "idle" /\ val' = Midnight /\ alone' = TRUE
  /\ UNCHANGED right

-----------------------------------------------------------------------------
(* Everybody else.                                                         *)

OtherReadsHi == (CloseLatch \/ FillLatch) /\ alone' = (alone /\ ~Reading) /\ UNCHANGED program
OtherReadsLo == OpenLatch /\ alone' = (alone /\ ~Reading) /\ UNCHANGED program

OtherWrites(b, v) == WriteByte(b, v) /\ alone' = (alone /\ ~Setting) /\ UNCHANGED program

\* The program, too, turns bit 7 over, but not while it sets a time.
Redirects(to) == Redirect(to) /\ alone' = (alone /\ ~Setting) /\ UNCHANGED program

-----------------------------------------------------------------------------

Next ==
  \/ Tick \/ ReadIcr \/ WriteMask
  \/ BeginRead \/ ReadHi \/ ReadMid \/ ReadLo
  \/ (\E t \in Times : BeginSet(t)) \/ SetMid \/ SetLo
  \/ OtherReadsHi \/ OtherReadsLo
  \/ (\E b \in {Hi, Mid, Lo}, v \in Bytes : OtherWrites(b, v))
  \/ (\E to \in BOOLEAN : Redirects(to))

Spec == Init /\ [][Next]_vars

-----------------------------------------------------------------------------
(* Properties.                                                             *)

\* Three bytes read high to low are those of one moment, however the counter
\* carries meanwhile, as long as nobody else reads the high or the low byte:
\* there is one latch for all (cia.c:380-393).
ReadIsWhole == pc = "read" /\ alone => right

\* Three bytes written high to low become the time (or the alarm) at once with
\* the last: the counter stands still in between (cia.c:627-662), unless
\* others write too or turn bit 7 over.
SetIsWhole ==
  [][SetLo /\ alone => (IF setsAlarm THEN alarm' = val ELSE tod' = val /\ todon')]_vars

\* The clock never comes to show the alarm's time without ringing (and, where the
\* alarm is enabled, without a request), unless a program put it there: a write of
\* the counter or of the alarm does not compare, so that an alarm set on the present
\* time is passed in silence (cia.c:627-662).
AlarmRings == tod = alarm => why # "different"
=============================================================================
