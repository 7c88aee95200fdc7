------------------------------- MODULE MCCia -------------------------------
(* Instances of Cia for TLC: which timers the program uses, and how.       *)
EXTENDS Cia

\* Timer A of CIA-A counts clocks, over and over or once.
ABoth == {<<"A", "ta", "clock", oneshot>> : oneshot \in BOOLEAN}

\* On CIA-B, timer B counts the underflows of timer A.
BCascade == {<<"B", "ta", "clock", FALSE>>, <<"B", "tb", "cascade", FALSE>>}

\* Bytes written to the latches: with Byte = 2 the latch is 2 or 3.
LoTa == {<<"ta", 0>>}
HiTa == {<<"ta", 1>>}

\* The process adds whole clocks at a time, as cia_process_fn does.
ASSUME WholeClocksAdded == \A n \in Chunks : n % DIV10 = 0
=============================================================================
