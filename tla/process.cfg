SPECIFICATION FairProcess
CONSTANTS
  ev_cia = ev_cia
  Slots = {ev_cia}
  Modulus = 7
  MaxChunk = 3
  ArmDelays <- FewArm
  Rearm <- FewRearm
  Polled = {ev_cia}
  PerClock = 1
  CountMod = 4
  IntMod = 8
  MicroMod = 16
  Parts = 3
  Speeds = {4, 5}
  Latencies = {0, 2}
  Elapsed = {1, 2, 5}
  Late = {7, 13}
  Dates = {0, 15}
  MaxDrift = 3
INVARIANTS KeepsTime
PROPERTIES LossesAddUp LateForGood EveryAlarmRings
