------------------------------- MODULE MCPaging -------------------------------
(* Instances for TLC of three parts of the emulated CPU, side by side: a         *)
(* behaviour is one of the paging unit, of the cache of translated code, or of   *)
(* the transfers of control between programs and their system.                   *)
EXTENDS Paging, JitCache, Transfers

VARIABLE which
cpuvars == <<which, vars, jvars, tvars>>

-----------------------------------------------------------------------------
(* Transfers: the roles of segments and vectors, and seven guest systems.       *)

Segment(exec, conf, dpl) == [code |-> exec, conforming |-> conf, dpl |-> dpl]
TheGdt == [kernel |-> Segment(TRUE, FALSE, 0), shared |-> Segment(TRUE, TRUE, 0),
           app |-> Segment(TRUE, FALSE, 3), lib |-> Segment(TRUE, FALSE, 3),
           stack0 |-> Segment(FALSE, FALSE, 0), data0 |-> Segment(FALSE, FALSE, 0),
           stack3 |-> Segment(FALSE, FALSE, 3), data3 |-> Segment(FALSE, FALSE, 3)]

Gate0 == [cs |-> "kernel", trap |-> FALSE, dpl |-> 0]
TheIdt == [hw |-> Gate0, np |-> Gate0, gp |-> Gate0, pf |-> Gate0,
           sys |-> [Gate0 EXCEPT !.trap = TRUE, !.dpl = 3],
           own |-> [cs |-> "app", trap |-> TRUE, dpl |-> 3]]

Kind(real, vm, iopl, wide, big, inner) ==
    [real |-> real, vm |-> vm, iopl |-> iopl, wide |-> wide, big |-> big, top |-> inner, start |-> 34]
KernelBig == {"kernel", "stack0"}
AllBig == {"kernel", "shared", "app", "lib", "stack0", "stack3"}

RealMode == Kind(TRUE, FALSE, 0, FALSE, {}, 0)
SomeSystems == {RealMode,
                Kind(FALSE, FALSE, 0, FALSE, {}, 31),
                Kind(FALSE, FALSE, 0, TRUE, AllBig, 40),
                Kind(FALSE, FALSE, 0, TRUE, KernelBig, 40),
                Kind(FALSE, FALSE, 0, TRUE, AllBig \ {"stack0"}, 8),
                Kind(FALSE, TRUE, 0, TRUE, KernelBig, 40),
                Kind(FALSE, TRUE, 3, TRUE, KernelBig, 40)}

SomeCalled == {"hw", "sys", "own"}
SomeMovable == {"lib", "data3"}

-----------------------------------------------------------------------------
CpuInit == /\ which \in {"paging", "jit", "transfers"}
           /\ Init /\ JInit /\ TInit
           /\ which # "jit" => mode = "real"
           /\ which # "transfers" => os = RealMode

CpuNext == \/ which = "paging" /\ Next /\ UNCHANGED <<which, jvars, tvars>>
           \/ which = "jit" /\ JNext /\ UNCHANGED <<which, vars, tvars>>
           \/ which = "transfers" /\ TNext /\ UNCHANGED <<which, vars, jvars>>

CpuSpec == CpuInit /\ [][CpuNext]_cpuvars

-----------------------------------------------------------------------------
(* Paging. *)

OneRoot == {0}

\* read-only for the guest's programs, writable for its system alone
TwoEntries == {[p |-> TRUE, rw |-> FALSE, us |-> TRUE],
               [p |-> TRUE, rw |-> TRUE, us |-> FALSE]}

-----------------------------------------------------------------------------
(* JitCache: two pages of two bytes. *)

TwoPages == {0, 1}
AllModes == {"real", "a20", "v86"}
Virtual == {"v86"}

\* with the A20 gate closed page 1 is page 0 again
Masked == [m \in {"real", "a20"} |-> [l \in TwoPages |-> IF m = "a20" THEN 0 ELSE l]]
Gate == [m \in AllModes |-> IF m = "real" THEN {"a20"} ELSE IF m = "a20" THEN {"real"} ELSE {}]

\* one set of two ways
TwoWays == {0, 1}
OneSet == [x \in Heads \X AllModes |-> TwoWays]

\* one trace crosses into the second page, one stores in it
SomeTraces == {[head |-> <<0, 1>>, len |-> 2, data |-> {}, mem |-> TRUE, words |-> {2}],
               [head |-> <<0, 0>>, len |-> 1, data |-> {<<1, 1>>}, mem |-> FALSE, words |-> {1}]}

AnyStore == [page: TwoPages, off: {0, 1}, len: {1}] \cup [page : {0}, off : {1}, len : {2}]
OneByte == [page: TwoPages, off: {0, 1}, len: {1}]

\* The two ways of the set are alike: states that differ by their exchange are one.
Likewise == <<which, vars, tvars, marks, arena, guarding, world, at, asked,
              {code[w] : w \in Live(code)}, running # NoWay,
              IF running = NoWay THEN NoBlock ELSE code[running]>>
===============================================================================
