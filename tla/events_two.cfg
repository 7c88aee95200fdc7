SPECIFICATION Spec
CONSTANTS
  ev_cia = ev_cia
  ev_blitter = ev_blitter
  Slots <- TwoSlots
  Modulus = 13
  MaxChunk = 4
  ArmDelays <- FewArm
  Rearm <- FewRearm
  Polled = {ev_blitter}
INVARIANTS NextNotLate
PROPERTIES PassedForAReason KeepsPromise
