----------------------------- MODULE I8259Nesting -----------------------------
(***************************************************************************)
(* What a non-specific end of interrupt retires.                            *)
(*                                                                         *)
(* A guest's handler ends "the interrupt" without naming it (OCW2 command   *)
(* 1), and trusts the controller to retire the one it is in: the last one   *)
(* accepted and not yet ended.  The code picks the pin of highest priority  *)
(* in isr (src/src/i8259.c:272-282).  The two agree only because nothing of *)
(* equal or lower priority is ever accepted over a pin in service.          *)
(*                                                                         *)
(* nest is a history of I8259: per controller, the pairs <<j, k>> of pins   *)
(* in service such that k was accepted while j was.  It does not restrict   *)
(* the steps; NestSpec is I8259's Spec under its fairness, with this        *)
(* history.                                                                *)
(***************************************************************************)
EXTENDS I8259

VARIABLE nest

nvars == <<vars, nest>>

Entered(c) == pics'[c].isr \ pics[c].isr

\* what enters the register goes on top of all it holds; what leaves it leaves
\* the history
Renest(c) ==
    (nest[c] \cup (pics[c].isr \X Entered(c))) \cap (pics'[c].isr \X pics'[c].isr)

NestInit == Init /\ nest = [c \in Pic |-> {}]
NestNext == Next /\ nest' = [c \in Pic |-> Renest(c)]
NestSpec == NestInit /\ [][NestNext]_nvars /\ Fairness

\* pin k is the innermost of those in service: accepted over every other
Innermost(c, k) ==
    /\ k \in pics[c].isr
    /\ \A j \in pics[c].isr \ {k} : <<j, k>> \in nest[c]

\* The handlers of a guest that only uses non-specific ends of interrupt and
\* never turns special mask or rotation on return in the reverse order of
\* their entry: each end retires the interrupt accepted last.
EndRetiresLatest ==
    [][\A c \in Pic : \A cmd \in Ocw2 :
         EndOfInterrupt(c, cmd) /\ pics[c].isr # {} =>
           \E k \in Pins : Innermost(c, k) /\ pics'[c].isr = pics[c].isr \ {k}]_nvars

\* A pin accepted while another is in service outranks it.
NestedByRank ==
    \A c \in Pic : \A j, k \in Pins :
        <<j, k>> \in nest[c] => Rank(pics[c], k) < Rank(pics[c], j)

\* Neither is a request of the slave stranded behind the cascade, nor a handler
\* entered over one of higher priority.
InRank == SlaveCascaded /\ NestedByRank
=============================================================================
