------------------------------- MODULE MCSbDma -------------------------------
(* Instances of SbDma for TLC: a ring of two or four bytes whose indices     *)
(* wrap at five or nine, and a driver per run.                              *)
EXTENDS SbDma

OnlyOne   == {1}
OnlyTwo   == {2}
OnlyThree == {3}

\* drivers
JustSingle  == {"single"}
Polling     == {"single", "poll"}
AutoDriver  == {"auto", "status"}
Changing    == CommandNames \ {"status"}

\* The handlers only compare indices, so states that differ by a rotation of
\* the ring are one.
Turned == <<[dsp EXCEPT !.atq = Behind(q, @)], dma, Behind(q, p), phase, pin, core0,
            [core1 EXCEPT !.p = IF core1.pc = "play" THEN Behind(q, @) ELSE 0], drv>>
=============================================================================
