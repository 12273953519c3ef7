-------------------------- MODULE PayloadRefinement --------------------------
(***************************************************************************)
(* The cycle-accurate executor implements the abstract PayloadMachine.     *)
(* The mapping computes, from the program counter, the loop counter and    *)
(* the idle counter, the commands that are still to be sent.               *)
(***************************************************************************)
EXTENDS PayloadExecutor, SequencesExt

\* The definitions of PayloadMachine that do not depend on its variables.
M == INSTANCE PayloadMachine
       WITH program <- mem, phase <- "ready", todo <- <<>>, bus <- "NOOP"

\* What is left from word `first' on: the jumps already taken count for the
\* first LOOP that is met.
BlockLeft(first, i) ==
  IF IsLoop(mem[i]) /\ \A k \in first .. i - 1 : ~IsLoop(mem[k])
    THEN M!Jumps(mem, i, mem[i].count - loop_counter)
    ELSE M!Block(mem, i)

Remaining(first) ==
  FlattenSeq([k \in 1 .. M!End(mem) - first + 1 |-> BlockLeft(first, first + k - 1)])

AbstractPhase ==
  CASE state = "READY" -> "ready"
    [] state = "WAIT-DFI" -> "waiting"
    [] OTHER -> "running"

AbstractTodo ==
  CASE state = "RUN" -> Remaining(program_counter)
    [] state = "IDLE" ->
         M!NoopCycles(idle_counter + 1) \o Remaining(program_counter + 1)
    [] OTHER -> <<>>

Machine == INSTANCE PayloadMachine
             WITH program <- mem, phase <- AbstractPhase, todo <- AbstractTodo,
                  bus <- dfi_cmd

(***************************************************************************)
(* The executor sends exactly the unrolled program: every command, in its  *)
(* cycle, COUNT+1 times for a loop body, nothing before and nothing after, *)
(* and runs it to the end.                                                 *)
(***************************************************************************)
ImplementsMachine == Machine!MachineSpec
=============================================================================
