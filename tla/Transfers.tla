------------------------------ MODULE Transfers ------------------------------
(***************************************************************************)
(* Interrupts, faults, far calls and their returns (src/src/i386.c: call_isr,*)
(* pmcall, pmret, set_seg and the instructions that use them), in real mode, *)
(* in protected mode within and between levels, and from and to virtual      *)
(* 8086 mode.  A transfer pushes what the return must find: its frame is one *)
(* element of memory here, at the place the stack pointer gives it.         *)
(*                                                                         *)
(* The guest is an operating system of one of several kinds with a program.  *)
(* It keeps its own handlers, its inner stack and the program's stack        *)
(* present, moves other segments out of memory and back, and ends what it    *)
(* enters: a handler drops the error code, restores the data segment of the  *)
(* program and returns with the instruction that fits its frame.             *)
(*                                                                         *)
(* Left out: task switches, far jumps, transfers that fail half-way (a stack *)
(* that is absent aborts the emulator or loses ESP), nested-task and trap    *)
(* flags, the words a call gate copies (they take their place on the stack), *)
(* and RET n, which must not name those words across levels: pmret leaves    *)
(* them on the outer stack.                                                 *)
(***************************************************************************)
EXTENDS Integers, Sequences

CONSTANTS R,        \* 2^16 in the code: 16-bit registers count modulo R
          Systems,  \* kinds of guest: real, vm and iopl of the program, wide gates and
                    \* TSS or narrow ones, big, the segments with B or D, and where
                    \* the inner stack (top) and the program's (start) begin
          Gdt,      \* [code, conforming, dpl] of its segments
          Idt,      \* [cs, trap, dpl] of its vectors
          Called,   \* those INT names
          PARAMS,   \* words the call gate copies
          Movable,  \* segments that may be absent
          DEPTH     \* bound: programs that wait

VARIABLES os,       \* the guest, fixed
          cpu,      \* registers and flags; lazy is the flag still held in cc
          frames,   \* what transfers have put on the stacks
          absent,   \* segments whose descriptor says so
          waits     \* history: [ctx, how, wide, code] of the programs that wait

tvars == <<os, cpu, frames, absent, waits>>

Sel(s, l) == [seg |-> s, rpl |-> l]
Null == Sel("null", 0)
Para == Sel("para", 0)      \* a paragraph of real or virtual 8086 mode
ByParagraph == os.real \/ cpu.vm   \* segments are paragraphs

Dpl(s) == IF s.seg \in DOMAIN Gdt THEN Gdt[s.seg].dpl ELSE 0
Modulus(s) == IF s.seg \in os.big THEN R * R ELSE R
Units(wide) == IF wide THEN 2 ELSE 1     \* a stack is counted in words of 16 bits
Cut(wide, n) == IF wide THEN n ELSE n % R

\* set_sp
WithSp(c, v) == LET m == Modulus(c.ss)
                IN  [c EXCEPT !.esp = (v % m) + (@ \div m) * m]

\* the flag as the getters tell it, and refresh_flags
Arith(c) == IF c.lazy = <<>> THEN c.arith ELSE c.lazy[1]
Refreshed(c) == [c EXCEPT !.arith = Arith(c), !.lazy = <<>>]

\* the address of the next instruction, as cpu_exec1 cuts it
Ip(c) == c.ip % Modulus(c.cs)
Past(c) == [c EXCEPT !.ip = Ip(c) + 1]

\* what the program can tell
Context(c) == [cs |-> c.cs, ip |-> Ip(c), ss |-> c.ss, sp |-> c.esp % Modulus(c.ss),
               ds |-> c.ds, ifl |-> c.ifl, vm |-> c.vm, iopl |-> c.iopl, arith |-> Arith(c)]

-----------------------------------------------------------------------------
(* What the guest is taken to be. *)

\* two levels, a stack and data of each
Levels == {0, 3}

Segments ==
    /\ \A s \in DOMAIN Gdt : Gdt[s].dpl \in Levels /\ Gdt[s].conforming \in BOOLEAN
    /\ "null" \notin DOMAIN Gdt /\ "para" \notin DOMAIN Gdt
    /\ {"app", "stack0", "stack3", "data0", "data3"} \subseteq DOMAIN Gdt
    /\ Gdt["app"].dpl = 3 /\ Gdt["stack3"].dpl = 3 /\ Gdt["data3"].dpl = 3
    /\ Gdt["stack0"].dpl = 0 /\ Gdt["data0"].dpl = 0

\* handlers of its own for interrupts and faults, which never leave memory
FaultVectors == {"hw", "np", "gp", "pf"}

Vectors ==
    /\ \A v \in DOMAIN Idt : Idt[v].cs \in DOMAIN Gdt
    /\ FaultVectors \subseteq DOMAIN Idt /\ Called \subseteq DOMAIN Idt
    /\ \A v \in FaultVectors : /\ Gdt[Idt[v].cs].dpl = 0 /\ ~Gdt[Idt[v].cs].conforming
                               /\ Idt[v].cs \notin Movable

Kinds == \A o \in Systems : o.real \in BOOLEAN /\ o.vm \in BOOLEAN /\ ~(o.real /\ o.vm)

GuestSystem == Segments /\ Vectors /\ Kinds

\* the words and units one transfer may push on a stack, and what the stack has
StackSegs == {"para", "stack0", "stack3"}
PushWords(o, seg) == IF seg # "stack0" THEN 3 ELSE IF o.vm THEN 10 + PARAMS ELSE 6 + PARAMS
MostPushed(o, seg) == PushWords(o, seg) * Units(o.wide)
Width(o, seg) == IF seg \in o.big THEN R * R ELSE R

Numbers == R \in Nat \ {0} /\ PARAMS \in Nat /\ DEPTH \in Nat

\* 16-bit systems have no 32-bit segments, and stacks hold all the programs that wait
Plain(o) ==
    /\ o.iopl \in 0 .. 3 /\ o.top \in Nat /\ o.start \in Nat /\ o.wide \in BOOLEAN
    /\ (~o.wide => o.big = {}) /\ (o.real => ~o.wide) /\ (o.vm => o.wide) /\ "para" \notin o.big
    /\ \A s \in StackSegs : ~(s = "stack0" /\ o.real) => MostPushed(o, s) * DEPTH < Width(o, s)

\* an interrupt gate of a program could not give it back a masked flag: IRET keeps it
Ample == /\ Numbers
         /\ \A o \in Systems : Plain(o)
         /\ \A v \in Called : Gdt[Idt[v].cs].conforming \/ Gdt[Idt[v].cs].dpl = 3 => Idt[v].trap

ASSUME GuestAssumption == GuestSystem /\ Ample

\* ESP of the TSS and of the program are registers
ASSUME RegistersAssumption ==
    R > 1 /\ \A o \in Systems : {o.top, o.start} \subseteq 0 .. R * R - 1

-----------------------------------------------------------------------------
(* Stacks. *)

\* g begins within f
Within(f, g) == (g.at - f.at) % f.mod < f.size
Overlap(f, g) == f.ss = g.ss /\ (Within(f, g) \/ Within(g, f))

\* n words below the stack pointer of c
Frame(c, how, wide, n, of) ==
    LET m == Modulus(c.ss)
    IN  [how |-> how, wide |-> wide, ss |-> c.ss.seg, mod |-> m, size |-> n * Units(wide),
         at |-> (c.esp - n * Units(wide)) % m,
         cs |-> of.cs, ip |-> Cut(wide, of.ip), ofss |-> of.ss, esp |-> Cut(wide, of.esp),
         ds |-> of.ds, ifl |-> of.ifl, vm |-> of.vm, iopl |-> of.iopl, arith |-> Arith(of)]

Put(fs, f) == {g \in fs : ~Overlap(f, g)} \cup {f}

\* what a return finds; what is no frame of its kind it takes for one
Found(c, how, wide) ==
    LET here == {f \in frames : /\ f.how = how /\ f.wide = wide
                                /\ f.ss = c.ss.seg /\ f.at = c.esp % Modulus(c.ss)}
    IN  IF here # {} THEN CHOOSE f \in here : TRUE
        ELSE Frame(c, how, wide, 1, [c EXCEPT !.cs = Null])

-----------------------------------------------------------------------------
(* set_seg, where it does not throw. *)

LoadCs(c, s) == [c EXCEPT !.cs = s, !.cpl = IF os.real THEN 0 ELSE IF c.vm THEN 3 ELSE s.rpl]

MovedOut(s) == ~os.real /\ s.seg \in absent

\* clear_segs, and the same before the new level is known
BadCleared(c) == IF Dpl(c.ds) < cpu.cpl THEN [c EXCEPT !.ds = Null] ELSE c
Cleared(c) == IF Dpl(c.ds) < c.cpl THEN [c EXCEPT !.ds = Null] ELSE c

-----------------------------------------------------------------------------
(* call_isr: what it makes of the CPU and of memory, or why it refuses. *)

Fails(exc) == [exc |-> exc]
Moves(c, fs) == [exc |-> "none", cpu |-> c, frames |-> fs]

Flags(c, trap) == [c EXCEPT !.ifl = @ /\ trap]

\* the frame, and the error code below it
Pushed(c, how, wide, n, of, code) ==
    LET f == Frame(c, how, wide, n, of)
        d == WithSp(c, c.esp - f.size)
        g == Frame(d, "code", wide, 1, of)
    IN  IF code THEN Moves(WithSp(d, d.esp - g.size), Put(Put(frames, f), g))
        ELSE Moves(d, Put(frames, f))

\* into the handler
Entered(c, s, trap) == Flags(Refreshed([LoadCs(c, s) EXCEPT !.ip = 0]), trap)

\* REAL-ADDRESS-MODE
RealIsr(c) ==
    LET p == Pushed(c, "int", FALSE, 3, c, FALSE)
        d == [p.cpu EXCEPT !.esp = p.cpu.esp % R]
    IN  Moves(Entered(d, Para, FALSE), p.frames)

\* intra PVL
SameIsr(c, v, code) ==
    LET p == Pushed(c, "int", os.wide, 3, c, code)
    IN  Moves(Entered(p.cpu, Sel(Idt[v].cs, c.cpl), Idt[v].trap), p.frames)

\* inter PVL: the stack of the TSS; a wide gate takes ESP whole
InnerStack(c, l) == [c EXCEPT !.ss = Sel("stack0", l), !.esp = os.top]
InnerIsr(c, v, code) ==
    LET l == Gdt[Idt[v].cs].dpl
        p == Pushed(InnerStack(c, l), "int", os.wide, 5, c, code)
        n == IF code THEN 6 ELSE 5
        sp == IF os.wide THEN (os.top - 2 * n) % (R * R) ELSE p.cpu.esp
        d == [p.cpu EXCEPT !.esp = sp]
    IN  Moves(Entered(d, Sel(Idt[v].cs, l), Idt[v].trap), p.frames)

\* from v8086
VirtualIsr(c, v, code) ==
    LET p == Pushed([InnerStack(c, 0) EXCEPT !.vm = FALSE], "int", TRUE, 9, c, code)
        d == [p.cpu EXCEPT !.ds = Null]
    IN  Moves(Entered(d, Sel(Idt[v].cs, 0), Idt[v].trap), p.frames)

CallIsr(c, v, code, ext) ==
    LET s == Gdt[Idt[v].cs] IN
    IF os.real THEN RealIsr(c)
    ELSE IF ~ext /\ Idt[v].dpl < c.cpl THEN Fails("gp")
    ELSE IF s.dpl > c.cpl THEN Fails("gp")
    ELSE IF MovedOut(Sel(Idt[v].cs, 0)) THEN Fails("np")
    ELSE IF ~s.conforming /\ s.dpl < c.cpl
         THEN IF c.vm THEN VirtualIsr(c, v, code) ELSE InnerIsr(c, v, code)
    ELSE IF c.vm THEN Fails("gp")
    ELSE SameIsr(c, v, code)

-----------------------------------------------------------------------------
(* The instructions. *)

Free == Len(waits) < DEPTH
Remember(ctx, how, wide, code) ==
    waits' = <<[ctx |-> ctx, how |-> how, wide |-> wide, code |-> code]>> \o waits
Stays == UNCHANGED <<os, frames, absent, waits>>

Takes(r) == cpu' = r.cpu /\ frames' = r.frames

\* an instruction throws, and cpui386_step delivers it
Throws(exc) ==
    /\ Free
    /\ Takes(CallIsr(cpu, exc, TRUE, TRUE))
    /\ Remember(Context(cpu), "int", os.wide, ~os.real)
    /\ UNCHANGED <<os, absent>>

\* cpui386_step
Interrupt ==
    /\ cpu.ifl /\ Free
    /\ Takes(CallIsr(cpu, "hw", FALSE, TRUE))
    /\ Remember(Context(cpu), "int", os.wide, FALSE)
    /\ UNCHANGED <<os, absent>>

\* any instruction may touch a page that is absent
PageFault == ~os.real /\ Throws("pf")

\* INT
IntN(v) ==
    /\ Free
    /\ IF cpu.vm /\ cpu.iopl < 3 THEN Throws("gp")
       ELSE LET r == CallIsr(Past(cpu), v, FALSE, FALSE)
            IN  IF r.exc # "none" THEN Throws(r.exc)
                ELSE /\ Takes(r)
                     /\ Remember(Context(Past(cpu)), "int", os.wide, FALSE)
                     /\ UNCHANGED <<os, absent>>

\* MOV DS and POP DS
LoadDs(s) ==
    IF ~ByParagraph /\ MovedOut(s) THEN Throws("np")
    ELSE cpu' = [cpu EXCEPT !.ds = s] /\ Stays

Compute(b) == cpu' = [cpu EXCEPT !.lazy = <<b>>] /\ Stays
Sti == cpu.cpl = 0 /\ cpu' = [cpu EXCEPT !.ifl = TRUE] /\ Stays

\* the program goes on, and round
Advance == /\ waits = <<>>
           /\ cpu' = IF Ip(cpu) = R - 1 THEN Past(cpu) ELSE [cpu EXCEPT !.ip = R - 1]
           /\ Stays

Calls(c, how, wide, n, to) ==
    /\ Free
    /\ LET p == Pushed(c, how, wide, n, Past(cpu), FALSE)
       IN  cpu' = [LoadCs(p.cpu, to) EXCEPT !.ip = 0] /\ frames' = p.frames
    /\ Remember(Context(Past(cpu)), how, wide, FALSE)
    /\ UNCHANGED <<os, absent>>

\* CALLFAR, and the first half of pmcall
CallFar(s) ==
    LET d == Gdt[s] IN
    IF ByParagraph THEN Calls(cpu, "far", FALSE, 2, Para)
    ELSE IF s \in absent THEN Throws("np")
    ELSE IF IF d.conforming THEN d.dpl > cpu.cpl ELSE d.dpl # cpu.cpl THEN Throws("gp")
    ELSE Calls(cpu, "far", cpu.cs.seg \in os.big, 2, Sel(s, cpu.cpl))

\* pmcall through a call gate
CallGate(s) ==
    LET d == Gdt[s]
    IN  /\ ~ByParagraph
        /\ IF s \in absent THEN Throws("np")
           ELSE IF d.dpl > cpu.cpl THEN Throws("gp")
           ELSE IF ~d.conforming /\ d.dpl < cpu.cpl
           THEN Calls(InnerStack(cpu, d.dpl), "gate", os.wide, 4 + PARAMS, Sel(s, d.dpl))
           ELSE Calls(cpu, "far", os.wide, 2, Sel(s, cpu.cpl))

-----------------------------------------------------------------------------
(* pmret and its real-mode forms. *)

Ends(c, f) ==
    /\ cpu' = c
    /\ frames' = frames \ {f}
    /\ waits' = Tail(waits)
    /\ UNCHANGED <<os, absent>>

\* the flags an IRET takes from its frame, and the same with the held one kept
BadIretFlags(c, f) == [c EXCEPT !.arith = f.arith, !.ifl = IF c.iopl < c.cpl THEN @ ELSE f.ifl,
                                !.iopl = IF c.cpl > 0 THEN @ ELSE f.iopl]
IretFlags(c, f) == [c EXCEPT !.arith = f.arith, !.lazy = <<>>,
                             !.ifl = IF c.iopl < c.cpl THEN @ ELSE f.ifl,
                             !.iopl = IF c.cpl > 0 THEN @ ELSE f.iopl]

\* a handler gives the program its data segment back, unless the CPU will
Done == waits # <<>> /\ ~Head(waits).code
Restored == Head(waits).ctx.vm \/ cpu.ds = Head(waits).ctx.ds

\* __pmiret_check_cs_same and _outer
MayEnter(s) == /\ s.seg \in DOMAIN Gdt
           /\ IF Gdt[s.seg].conforming THEN Dpl(s) <= s.rpl ELSE Dpl(s) = s.rpl

\* return to v8086
ToVirtual(c, f) ==
    LET d == [IretFlags(c, f) EXCEPT !.vm = TRUE, !.ip = f.ip, !.ss = f.ofss,
                                     !.ds = f.ds, !.esp = f.esp]
    IN  Ends(LoadCs(d, f.cs), f)

\* return to same level
ToSame(c, f) == Ends(LoadCs([WithSp(c, cpu.esp + f.size) EXCEPT !.ip = f.ip], f.cs), f)

\* return to outer level
ToOuter(c, f) ==
    LET d == [LoadCs(c, f.cs) EXCEPT !.ip = f.ip, !.ss = f.ofss]
    IN  Ends(Cleared(WithSp(d, f.esp)), f)

PmRet(c, f) ==
    IF f.cs.rpl < cpu.cpl \/ ~MayEnter(f.cs) THEN Throws("gp")
    ELSE IF MovedOut(f.cs) THEN Throws("np")
    ELSE IF f.cs.rpl = cpu.cpl THEN ToSame(c, f) ELSE ToOuter(c, f)

Iret ==
    /\ Done /\ Head(waits).how = "int" /\ Restored
    /\ ~cpu.vm     \* handlers of a virtual program are the system's
    /\ LET f == Found(cpu, "int", Head(waits).wide)
           c == IretFlags(cpu, f)
       IN  IF os.real THEN ToSame(c, f)
           ELSE IF f.vm THEN ToVirtual(cpu, f)
           ELSE PmRet(c, f)

RetFar ==
    /\ Done /\ Head(waits).how \in {"far", "gate"}
    /\ LET f == Found(cpu, Head(waits).how, Head(waits).wide)
       IN  IF ByParagraph THEN ToSame(cpu, f) ELSE PmRet(cpu, f)

\* a handler drops the error code
DropCode ==
    /\ waits # <<>> /\ Head(waits).code
    /\ cpu' = WithSp(cpu, cpu.esp + Units(os.wide))
    /\ waits' = [waits EXCEPT ![1].code = FALSE]
    /\ frames' = frames \ {Found(cpu, "code", os.wide)}
    /\ UNCHANGED <<os, absent>>

\* the system moves a segment out of memory, and back
Swap(s) ==
    /\ ~os.real /\ cpu.cpl = 0
    /\ absent' = IF s \in absent THEN {} ELSE {s}
    /\ UNCHANGED <<os, cpu, frames, waits>>

-----------------------------------------------------------------------------
TInit ==
    /\ os \in Systems
    /\ cpu = [cs |-> IF os.real \/ os.vm THEN Para ELSE Sel("app", 3), ip |-> R - 1,
              ss |-> IF os.real \/ os.vm THEN Para ELSE Sel("stack3", 3), esp |-> os.start,
              ds |-> IF os.real \/ os.vm THEN Para ELSE Sel("data3", 3),
              cpl |-> IF os.real THEN 0 ELSE 3, ifl |-> TRUE, vm |-> os.vm,
              iopl |-> os.iopl, arith |-> FALSE, lazy |-> <<>>]
    /\ frames = {} /\ absent = {} /\ waits = <<>>

\* what the guest may load into DS where it is
DsChoices == IF ByParagraph THEN {Para}
             ELSE {Sel("data3", 3)} \cup (IF cpu.cpl = 0 THEN {Sel("data0", 0), Null} ELSE {})

Once == Ip(cpu) \in {0, R - 1}   \* where the guest calls

TNext ==
    \/ Interrupt \/ PageFault \/ Sti \/ Advance \/ DropCode \/ Iret \/ RetFar
    \/ Compute(waits = <<>>)    \* programs set the flag, handlers clear it
    \/ \E s \in DsChoices : LoadDs(s)
    \/ \E v \in Called : Once /\ IntN(v)
    \/ \E s \in DOMAIN Gdt : Once /\ Gdt[s].code /\ CallFar(s)
    \/ \E s \in DOMAIN Gdt : Once /\ Gdt[s].code /\ CallGate(s)
    \/ \E s \in Movable : Swap(s)

TSpec == TInit /\ [][TNext]_tvars

-----------------------------------------------------------------------------
TTypeOK ==
    /\ os \in Systems /\ absent \subseteq Movable
    /\ cpu.esp \in 0 .. R * R - 1 /\ cpu.ip \in 0 .. R * R - 1 /\ cpu.cpl \in {0, 3}
    /\ Len(waits) <= DEPTH

\* The privilege level is that of the code segment, the stack is one of that level,
\* and no data segment of an inner level is left to the program: call_isr and pmcall
\* change level and stack in several steps, and pmret changes the level under
\* segments loaded by someone else (clear_segs, set_seg).
LevelsAgree ==
    /\ cpu.cpl = IF os.real THEN 0 ELSE IF cpu.vm THEN 3 ELSE cpu.cs.rpl
    /\ ~ByParagraph => /\ MayEnter(cpu.cs)
                       /\ cpu.ss.rpl = cpu.cpl /\ Dpl(cpu.ss) = cpu.cpl
                       /\ cpu.ds # Null => Dpl(cpu.ds) >= cpu.cpl

\* Interrupts, faults and calls give the program back as it was (Contexts), whatever
\* nests in them: through stacks of 16 and 32 bits and gates of either, with a flag
\* still held lazily in cc, a segment moved out meanwhile, between levels and from
\* virtual 8086 mode. call_isr, pmcall and pmret each compute the place of the frame
\* from the mask of the stack of the moment.
Nest == INSTANCE Contexts WITH cur <- Context(cpu), beyond <- Context(Past(cpu)),
                               saved <- [i \in DOMAIN waits |->
                                           [ctx |-> waits[i].ctx, call |-> waits[i].how # "int"]]
Resumes == Nest!ContextsSpec
=============================================================================
