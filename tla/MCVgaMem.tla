----------------------------- MODULE MCVgaMem -----------------------------
(* Instances of VgaMem for TLC: windows of eight bytes, four banks.          *)
EXTENDS VgaMem

SomeLatches == {[p \in 0 .. 3 |-> IF p = 1 THEN {1, 3} ELSE {7}]}
SomePatterns == {[i \in 1 .. 4 |-> {i - 1, 6}]}

SomeSequencer == {[chain4 |-> c, planes |-> ps] : c \in BOOLEAN, ps \in {{0, 1, 2, 3}, {2}}}
SomeGraphics == {[evenodd |-> g[1], chained |-> g[2], wmode |-> g[3], map |-> g[4],
                  plane |-> g[5]] :
                    g \in {<<FALSE, FALSE, 0, 0, 0>>, <<TRUE, FALSE, 0, 1, 2>>,
                          <<FALSE, FALSE, 3, 2, 0>>,
                          <<FALSE, TRUE, 0, 3, 0>>}}
SomeAlu == {[func |-> 0, rotate |-> 0, set |-> {}, value |-> {}, mask |-> 0 .. 7],
            [func |-> 3, rotate |-> 1, set |-> {2}, value |-> {}, mask |-> 0 .. 3]}
=============================================================================
