---------------------------- MODULE PayloadMachine ---------------------------
(***************************************************************************)
(* What the payload executor promises, as the documentation of the         *)
(* instruction set puts it (Decoder, payload_executor.py:38-72): a run     *)
(* puts on the bus, cycle by cycle, the commands of the unrolled program.  *)
(* An instruction takes TIMESLICE cycles, a LOOP takes one cycle each time *)
(* it is met and jumps COUNT times, STOP finishes the run.                 *)
(***************************************************************************)
EXTENDS PayloadISA, SequencesExt

CONSTANT Programs

VARIABLES
  program,               \* the memory image
  phase,                 \* "ready", "waiting" for the bus, "running"
  todo,                  \* commands still to be sent, one per cycle
  bus                    \* command on the bus

machineVars == <<program, phase, todo, bus>>

NoopCycles(n) == [k \in 1 .. n |-> "NOOP"]

\* The cycles of a DFI instruction: the command, then waiting.
Cycles(i) == <<i.op>> \o NoopCycles(IF i.timeslice >= 2 THEN i.timeslice - 1 ELSE 0)

Body(m, i) == FlattenSeq([k \in 1 .. m[i].jump |-> Cycles(m[i - m[i].jump + k - 1])])

\* `n' more jumps of the LOOP at i, and the cycle in which it is left.
Jumps(m, i, n) ==
  FlattenSeq([k \in 1 .. n |-> <<"NOOP">> \o Body(m, i)]) \o <<"NOOP">>

Block(m, i) == IF IsLoop(m[i]) THEN Jumps(m, i, m[i].count) ELSE Cycles(m[i])

\* The first STOP, or the last word.
End(m) ==
  CHOOSE i \in Words :
    /\ i = Depth - 1 \/ IsStop(m[i])
    /\ \A k \in 0 .. i - 1 : ~IsStop(m[k])

Timeline(m) == FlattenSeq([k \in 1 .. End(m) + 1 |-> Block(m, k - 1)])

MachineInit ==
  /\ program \in Programs
  /\ phase = "ready"
  /\ todo = <<>>
  /\ bus = "NOOP"

LoadProgram ==
  /\ phase = "ready"
  /\ program' \in Programs
  /\ UNCHANGED <<phase, todo, bus>>

Waiting ==
  /\ phase # "running"
  /\ phase' \in IF phase = "ready" THEN {"ready", "waiting"} ELSE {"waiting", "running"}
  /\ todo' = IF phase' = "running" THEN Timeline(program) ELSE <<>>
  /\ bus' = "NOOP"
  /\ UNCHANGED program

Running ==
  /\ phase = "running"
  /\ bus' = Head(todo)
  /\ todo' = Tail(todo)
  /\ phase' = IF todo' = <<>> THEN "ready" ELSE "running"
  /\ UNCHANGED program

MachineNext == LoadProgram \/ Waiting \/ Running

\* A program that runs is run to its end.
MachineSpec ==
  MachineInit /\ [][MachineNext]_machineVars /\ WF_machineVars(Running)
=============================================================================
