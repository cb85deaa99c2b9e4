------------------------------ MODULE LinkSlave ------------------------------
(***************************************************************************)
(* The low-latency link (src/link/link_fast.c): the FIFOs between the two   *)
(* chips and linkf_serve on the slave, one 32-bit word at a time.           *)
(*                                                                         *)
(* The master's transmit FIFO (tx) is clocked out to the slave's receive    *)
(* FIFO (rx) with no flow control: a word that arrives on a full rx is lost *)
(* (link_bus.pio, link_rx).  Back to the master, down is its receive FIFO;   *)
(* what the slave puts into its transmit FIFO is on the way at once.        *)
(*                                                                         *)
(* A word is a tuple.  What the slave takes a word for depends only on      *)
(* where it is: a sector's data is the guest's and may look like anything.  *)
(***************************************************************************)
EXTENDS Integers, Sequences

CONSTANTS
    TX, RX, DOWN,  \* FIFO depths
    MEM,           \* words the slave serves
    COUNTS,        \* bound: the largest burst a misread count word asks for
    Overrun,       \* the master may outrun the slave's receive FIFO
    Pauses         \* the master may fall silent in mid-burst for longer
                   \* than lf_wait_rx waits

ASSUME LinkAssumption == /\ {TX, RX, DOWN} \subseteq Nat \ {0}
                         /\ MEM \in Nat /\ COUNTS \in Nat
                         /\ {Overrun, Pauses} \subseteq BOOLEAN

VARIABLES tx, rx, down, mem, slave

linkVars == <<tx, rx, down, mem, slave>>

Zero  == <<"zero">>
Magic == <<"magic">>
Req(op, addr) == <<op, addr>>
Num(n) == <<"count", n>>

Operations == {"read32", "write32", "ping", "readBurst", "writeBurst"}

\* a count or a zero has opcode 0, a magic word 0xA
Requests(w) ==
    IF w[1] \in Operations THEN {w}
    ELSE IF w[1] = "data" THEN {Req(op, a) : op \in Operations, a \in 0 .. MEM - 1}
    ELSE {Req("unknown", 0)}

Numbers(w) == IF w[1] = "count" THEN {w[2]} ELSE 0 .. COUNTS

At(a) == IF a \in DOMAIN mem THEN mem[a] ELSE Zero
Store(a, w) == mem' = IF a \in DOMAIN mem THEN [mem EXCEPT ![a] = w] ELSE mem

Waiting == [at |-> "idle", op |-> "none", addr |-> 0, left |-> 0]

\* what arrives on a full receive FIFO is lost
Reply(w) == down' = IF Len(down) < DOWN THEN Append(down, w) ELSE down

\* the wire, and the receive program's autopush
Ship ==
    /\ tx # <<>>
    /\ Len(rx) < RX \/ Overrun
    /\ tx' = Tail(tx)
    /\ rx' = IF Len(rx) < RX THEN Append(rx, Head(tx)) ELSE rx
    /\ UNCHANGED <<down, mem, slave>>

Takes == rx # <<>> /\ rx' = Tail(rx) /\ UNCHANGED tx

\* the head of the loop, and the operations that are over at once
Serve ==
    /\ slave.at = "idle" /\ Takes
    /\ \E req \in Requests(Head(rx)) :
         LET op == req[1]  addr == req[2] IN
         \/ /\ op \in {"read32", "ping", "unknown"}
            /\ Reply(CASE op = "read32" -> At(addr)
                       [] op = "ping" -> Magic
                       [] OTHER -> Zero)
            /\ UNCHANGED slave
         \/ /\ op \in {"write32", "readBurst", "writeBurst"}
            /\ slave' = [at |-> IF op = "write32" THEN "value" ELSE "count",
                         op |-> op, addr |-> addr, left |-> 0]
            /\ UNCHANGED down
    /\ UNCHANGED mem

TakeValue ==
    /\ slave.at = "value" /\ Takes
    /\ Store(slave.addr, Head(rx))
    /\ slave' = Waiting
    /\ UNCHANGED down

TakeCount ==
    /\ slave.at = "count" /\ Takes
    /\ \E n \in Numbers(Head(rx)) :
         slave' = IF n = 0 THEN Waiting
                  ELSE [slave EXCEPT !.left = n,
                                     !.at = IF slave.op = "readBurst" THEN "send" ELSE "recv"]
    /\ UNCHANGED <<down, mem>>

NextWord == IF slave.left = 1 THEN Waiting
            ELSE [slave EXCEPT !.addr = @ + 1, !.left = @ - 1]

Receive ==
    /\ slave.at = "recv" /\ Takes
    /\ Store(slave.addr, Head(rx))
    /\ slave' = NextWord
    /\ UNCHANGED down

\* the master, while it listens, "can always drain faster than the wire
\* delivers" (link_fast.h:63-64); one that has given up does not
Send(listening) ==
    /\ slave.at = "send" /\ (Len(down) < DOWN \/ ~listening)
    /\ Reply(At(slave.addr))
    /\ slave' = NextWord
    /\ UNCHANGED <<tx, rx, mem>>

\* lf_wait_rx runs out; sending says whether the master is in mid-burst
GiveUp(sending) ==
    /\ slave.at \in {"value", "count", "recv"} /\ rx = <<>>
    /\ tx = <<>> /\ (Pauses \/ ~sending)
    /\ slave' = Waiting
    /\ UNCHANGED <<tx, rx, down, mem>>

SlaveNext(sending, listening) ==
    \/ Ship \/ Serve \/ TakeValue \/ TakeCount \/ Receive
    \/ Send(listening) \/ GiveUp(sending)

\* the slave serves before the master's handshake; its memory holds a pattern
LinkInit ==
    /\ tx = <<>> /\ rx = <<>> /\ down = <<>>
    /\ mem = [a \in 0 .. MEM - 1 |-> Zero]
    /\ slave = Waiting
=============================================================================
