------------------------------ MODULE Contexts ------------------------------
(***************************************************************************)
(* What interrupts, faults and calls promise the program they come upon:    *)
(* it goes on where it stopped, as if nothing had happened; a service it     *)
(* called may change its flags and its data segment, and nothing else.      *)
(***************************************************************************)
EXTENDS Sequences

VARIABLES cur,      \* what the program that runs can tell of the CPU
          beyond,   \* the same behind its present instruction
          saved     \* [ctx, call] of the programs that wait, the last one first

\* a program computes, or system software that runs for it
Work == UNCHANGED saved

\* it is interrupted or faults, to go on with this instruction, or it asks for
\* a service, to go on with the next one
Enter == \E c \in {cur, beyond}, k \in BOOLEAN :
            saved' = <<[ctx |-> c, call |-> k]>> \o saved

\* it goes on
Leave ==
    /\ saved # <<>> /\ saved' = Tail(saved)
    /\ LET w == Head(saved).ctx
       IN  cur' = IF Head(saved).call
                  THEN [w EXCEPT !.ds = cur'.ds, !.ifl = cur.ifl, !.arith = cur.arith]
                  ELSE w

ContextsSpec == saved = <<>> /\ [][Work \/ Enter \/ Leave]_<<cur, beyond, saved>>
=============================================================================
