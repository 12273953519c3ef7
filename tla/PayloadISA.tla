------------------------------ MODULE PayloadISA -----------------------------
(***************************************************************************)
(* The instruction set of the payload executor: what the Decoder extracts  *)
(* from a 32-bit word, which programs are well formed, and what a program  *)
(* means: the command on the DRAM bus in every clock cycle of its run.     *)
(* Rank, bank, row and column addresses do not influence control and are   *)
(* left out.                                                               *)
(***************************************************************************)
EXTENDS Integers, Sequences

CONSTANTS
  Depth,                 \* words of the payload memory, a power of two
  LoopMod                \* LOOP counts are taken modulo LoopMod (2^12)

ASSUME DepthAssumption == Depth \in Nat /\ Depth >= 2
ASSUME LoopModAssumption == LoopMod \in Nat /\ LoopMod >= 2

DfiOps == {"NOOP", "ACT", "PRE", "REF", "ZQC", "READ"}

Words == 0 .. Depth - 1

\* Decoded instructions; fields an op code does not use are 0.
Dfi(op, ts) == [op |-> op, timeslice |-> ts, count |-> 0, jump |-> 0]
Loop(c, j) == [op |-> "LOOP", timeslice |-> 0, count |-> c, jump |-> j]
Stop == Dfi("NOOP", 0)

Instructions ==
  [op : DfiOps \cup {"LOOP"}, timeslice : Nat, count : 0 .. LoopMod - 1, jump : Nat]

IsLoop(i) == i.op = "LOOP"
IsStop(i) == i.op = "NOOP" /\ i.timeslice = 0
\* An instruction that makes the executor wait in its IDLE state.
IsLong(i) == ~IsLoop(i) /\ i.timeslice >= 2

(***************************************************************************)
(* "There should be no STOP or LOOP instructions inside loop body"         *)
(* (get_expected_execution_cycles), the body lies inside the memory, and   *)
(* the last word is neither a LOOP nor a command of several cycles.        *)
(***************************************************************************)
WellFormed(m) ==
  /\ \A i \in Words : IsLoop(m[i]) =>
       /\ m[i].jump <= i
       /\ \A k \in i - m[i].jump .. i - 1 : ~IsLoop(m[k]) /\ ~IsStop(m[k])
  /\ ~IsLoop(m[Depth - 1])
  /\ ~IsLong(m[Depth - 1])
=============================================================================
