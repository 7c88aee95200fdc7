----------------------------- MODULE Countdown -----------------------------
(***************************************************************************)
(* What the event scheduler promises, without due times: every armed slot  *)
(* has a number of emulated cycles left, and time takes the same amount    *)
(* off all of them.  An advance answers the slots due first in it, at      *)
(* exactly their cycle; slots due later in the same advance are passed and *)
(* wait for a whole turn of the clock.  Polling a slot spoils the next     *)
(* advance: the polled slot may be passed, or the advance may stop where   *)
(* nothing is due.  Events.tla (events.c) implements this for any number   *)
(* of slots, any delays and any advances.                                  *)
(***************************************************************************)
EXTENDS Integers

CONSTANTS
  Slots,     \* the event slots in use
  Modulus,   \* the clock shows the time modulo this
  MaxChunk,  \* the most cycles one advance may cover
  ArmDelays, \* [Slots -> the delays its owner may set it to]
  Rearm      \* [Slots -> the delays its handler may answer with]

VARIABLES
  clock,     \* emulated time
  left,      \* left[s]: Idle, or the cycles until slot s is due
  polled     \* the slots polled since the last advance or setting

vars == <<clock, left, polled>>

Idle == -1

Promise == [Slots -> {Idle} \cup 0..(Modulus - 1)]

\* A number of cycles below 0 is reached a whole turn of the clock later.
Turned(n) == IF n >= 0 THEN n ELSE n + Modulus

Init ==
  /\ clock = 0
  /\ left = [s \in Slots |-> Idle]
  /\ polled = {}

Set(s, d) ==
  /\ left' = [left EXCEPT ![s] = d]
  /\ polled' = {}
  /\ UNCHANGED clock

Clear(s) == Set(s, Idle)

\* The slot's handler is asked before its time.
Poll(s, d) ==
  /\ left' = [left EXCEPT ![s] = d]
  /\ polled' = polled \cup {s}
  /\ UNCHANGED clock

(***************************************************************************)
(* n cycles pass, with a stop after `at` of them unless that is all: at    *)
(* the first cycle any slot is due, as long as none was polled.  The slots *)
(* due there are answered: they go idle, or their next delay starts there  *)
(* and has already lost the rest of the advance.                           *)
(***************************************************************************)
ElapseWithStop(n, at) ==
  /\ \A s \in Slots : left[s] \in 0..(at - 1) => s \in polled
  /\ polled = {} => at = n \/ \E s \in Slots : left[s] = at
  /\ clock' \in {clock + n, clock + n - Modulus} \cap 0..(Modulus - 1)
  /\ left' \in Promise
  /\ \A s \in Slots :
       \/ left[s] = Idle /\ left'[s] = Idle
       \/ /\ left[s] = at /\ at < n
          /\ left'[s] \in {Idle} \cup {Turned(d - (n - at)) : d \in Rearm[s]}
       \/ /\ left[s] # Idle /\ (left[s] # at \/ at = n)
          /\ left'[s] = Turned(left[s] - n)
  /\ polled' = {}

Elapse(n) == \E at \in 0..n : ElapseWithStop(n, at)

Next ==
  \/ \E s \in Slots : \E d \in ArmDelays[s] : Set(s, d)
  \/ \E s \in Slots : Clear(s)
  \/ \E s \in Slots : \E d \in Rearm[s] \cup {Idle} : Poll(s, d)
  \/ \E n \in 1..MaxChunk : Elapse(n)

Spec == Init /\ [][Next]_vars
=============================================================================
