--------------------------- MODULE PayloadExecutor ---------------------------
(***************************************************************************)
(* The payload executor (gateware/payload_executor.py, class               *)
(* PayloadExecutor) with the command registers of DFIExecutor, composed    *)
(* with the DFI switch.  All of it is one clock domain: a Tick steps the   *)
(* executor and the switch together, each reading the other's registers.   *)
(* The host acts between ticks; its `start' and `refresh_update' writes    *)
(* are one-cycle pulses and so inputs of a Tick.                           *)
(*                                                                         *)
(* The scratchpad that WAIT-DFI resets and READ fills is added by module   *)
(* PayloadReadPath.                                                        *)
(***************************************************************************)
EXTENDS PayloadISA

CONSTANTS
  RefMod,                \* see DFISwitch
  RdPhase,               \* DFI phase on which READ is sent
  Programs               \* memory images the host loads

ASSUME RefModAssumption == RefMod \in Nat /\ RefMod >= 2
ASSUME RdPhaseAssumption == RdPhase \in Nat
ASSUME ProgramsAssumption == Programs \subseteq [Words -> Instructions]

VARIABLES
  mem,                   \* payload memory
  state,                 \* FSM: "READY", "WAIT-DFI", "RUN", "IDLE"
  wants_dfi,
  program_counter,
  loop_counter,
  idle_counter,
  instruction,           \* output of the synchronous read port of mem
  dfi_cmd,               \* command on the registered DFI outputs, "NOOP" for none
  rddata_en,             \* phases whose rddata_en register is set
  sw_state, refresh_counter, mc_ongoing_d, refresh_count, at_refresh, with_refresh

Switch == INSTANCE DFISwitch

execVars == <<state, wants_dfi, program_counter, loop_counter, idle_counter,
              instruction, dfi_cmd, rddata_en>>
switchVars == <<sw_state, refresh_counter, mc_ongoing_d, refresh_count, at_refresh,
                with_refresh>>
vars == <<mem, execVars, switchVars>>

TypeOK ==
  /\ mem \in Programs
  /\ state \in {"READY", "WAIT-DFI", "RUN", "IDLE"}
  /\ wants_dfi \in BOOLEAN
  /\ program_counter \in Words
  /\ loop_counter \in 0 .. LoopMod - 1
  /\ idle_counter \in Nat
  /\ instruction \in Instructions
  /\ dfi_cmd \in DfiOps
  /\ rddata_en \in SUBSET {0, RdPhase}
  /\ Switch!SwitchTypeOK

Init ==
  /\ mem \in Programs
  /\ state = "READY"
  /\ wants_dfi = FALSE
  /\ program_counter = 0
  /\ loop_counter = 0
  /\ idle_counter = 0
  /\ instruction = Stop
  /\ dfi_cmd = "NOOP"
  /\ rddata_en = {}
  /\ Switch!SwitchInit
-----------------------------------------------------------------------------
\* The memory port is synchronous: the word at `adr' is decoded in the next cycle.
Fetch(adr) == instruction' = mem[adr]

NextAddress == (program_counter + 1) % Depth

ContinueAt(adr) == Fetch(adr) /\ program_counter' = adr

\* DFIExecutor: the command registers.  Without exec they fall back to NOOP;
\* the rddata_en registers are only written together with a command.
NoCommand == dfi_cmd' = "NOOP" /\ UNCHANGED rddata_en

SendCommand ==
  /\ dfi_cmd' = instruction.op
  /\ rddata_en' = IF instruction.op = "READ" THEN rddata_en \cup {RdPhase}
                                             ELSE rddata_en \ {0}

\* Mutant: only a STOP ends a program.
MutantEndsAtStopOnly == IsStop(instruction)

Terminates == program_counter = Depth - 1 \/ IsStop(instruction)

\* RUN, first If: release the bus; `s' is the state chosen otherwise.
ReleaseOr(s) ==
  /\ wants_dfi' = (wants_dfi /\ ~Terminates)
  /\ state' = IF Terminates THEN "READY" ELSE s

Ready(start) ==
  /\ state = "READY"
  /\ IF start THEN state' = "WAIT-DFI" /\ wants_dfi' = TRUE
              ELSE UNCHANGED <<state, wants_dfi>>
  /\ Fetch(0)
  /\ NoCommand
  /\ UNCHANGED <<program_counter, loop_counter, idle_counter>>

\* Mutant: the bus is taken without waiting for the switch.
MutantWaitsForNothing ==
  /\ state = "WAIT-DFI"
  /\ Fetch(0)
  /\ state' = "RUN" /\ program_counter' = 0
  /\ NoCommand
  /\ UNCHANGED <<wants_dfi, loop_counter, idle_counter>>

WaitDfi ==
  /\ state = "WAIT-DFI"
  /\ Fetch(0)
  /\ IF Switch!dfi_ready THEN state' = "RUN" /\ program_counter' = 0
                         ELSE UNCHANGED <<state, program_counter>>
  /\ NoCommand
  /\ UNCHANGED <<wants_dfi, loop_counter, idle_counter>>

RunLoopJump ==
  /\ state = "RUN"
  /\ IsLoop(instruction)
  /\ loop_counter # instruction.count
  /\ ReleaseOr("RUN")
  /\ ContinueAt((program_counter - instruction.jump) % Depth)
  /\ loop_counter' = (loop_counter + 1) % LoopMod
  /\ NoCommand
  /\ UNCHANGED idle_counter

\* Mutant: a finished loop leaves its counter behind.
MutantExitKeepsCounter ==
  /\ state = "RUN"
  /\ IsLoop(instruction)
  /\ loop_counter = instruction.count
  /\ ReleaseOr("RUN")
  /\ ContinueAt(NextAddress)
  /\ NoCommand
  /\ UNCHANGED <<loop_counter, idle_counter>>

RunLoopExit ==
  /\ state = "RUN"
  /\ IsLoop(instruction)
  /\ loop_counter = instruction.count
  /\ ReleaseOr("RUN")
  /\ ContinueAt(NextAddress)
  /\ loop_counter' = 0
  /\ NoCommand
  /\ UNCHANGED idle_counter

RunShort ==
  /\ state = "RUN"
  /\ ~IsLoop(instruction)
  /\ ~IsLong(instruction)
  /\ ReleaseOr("RUN")
  /\ ContinueAt(NextAddress)
  /\ SendCommand
  /\ UNCHANGED <<loop_counter, idle_counter>>

\* Mutant: one cycle too many in IDLE.
MutantWaitsOneMore ==
  /\ state = "RUN"
  /\ IsLong(instruction)
  /\ wants_dfi' = (wants_dfi /\ ~Terminates)
  /\ state' = "IDLE"
  /\ idle_counter' = instruction.timeslice - 1
  /\ Fetch(0)
  /\ SendCommand
  /\ UNCHANGED <<program_counter, loop_counter>>

\* NextState("IDLE") comes after NextState("READY") in the code and overrides
\* it, while wants_dfi is released all the same.
RunLong ==
  /\ state = "RUN"
  /\ IsLong(instruction)
  /\ wants_dfi' = (wants_dfi /\ ~Terminates)
  /\ state' = "IDLE"
  /\ idle_counter' = instruction.timeslice - 2
  /\ Fetch(0)
  /\ SendCommand
  /\ UNCHANGED <<program_counter, loop_counter>>

Idle ==
  /\ state = "IDLE"
  /\ IF idle_counter = 0
       THEN state' = "RUN" /\ ContinueAt(NextAddress) /\ UNCHANGED idle_counter
       ELSE /\ idle_counter' = idle_counter - 1
            /\ Fetch(0)
            /\ UNCHANGED <<state, program_counter>>
  /\ NoCommand
  /\ UNCHANGED <<wants_dfi, loop_counter>>

ExecutorStep(start) ==
  \/ Ready(start) \/ WaitDfi \/ Idle
  \/ RunLoopJump \/ RunLoopExit \/ RunShort \/ RunLong

\* REF on phase 0 of the DFI master: the executor's in "PE", the controller's in "MC".
Refresh(mc_ref) == IF Switch!dfi_ready THEN dfi_cmd = "REF" ELSE mc_ref

Tick(start, mc_ref, update) ==
  /\ ExecutorStep(start)
  /\ Switch!SwitchStep(wants_dfi, Refresh(mc_ref), update)
  /\ UNCHANGED mem
-----------------------------------------------------------------------------
\* The host prepares the next execution while the executor is ready.
Load(m) == state = "READY" /\ mem' = m /\ UNCHANGED <<execVars, switchVars>>

SetAtRefresh(n) ==
  state = "READY" /\ Switch!SetAtRefresh(n) /\ UNCHANGED <<mem, execVars>>

SetWithRefresh(b) ==
  state = "READY" /\ Switch!SetWithRefresh(b) /\ UNCHANGED <<mem, execVars>>

\* A memory controller with refresh disabled sends none.
Clock ==
  \E start, update \in BOOLEAN, mc_ref \in {FALSE, with_refresh} :
    Tick(start, mc_ref, update)

Host ==
  \/ \E m \in Programs : Load(m)
  \/ \E n \in 0 .. RefMod - 1 : SetAtRefresh(n)
  \/ \E b \in BOOLEAN : SetWithRefresh(b)

Next == Clock \/ Host

Spec == Init /\ [][Next]_vars

\* The clock runs, and a controller with refresh enabled keeps sending REF.
ControllerRefreshes == \E start, update \in BOOLEAN : with_refresh /\ Tick(start, TRUE, update)

FairSpec == Spec /\ WF_vars(Clock) /\ WF_vars(ControllerRefreshes)
-----------------------------------------------------------------------------
\* Is the executor running a payload (signal `executing')?
Executing == state \in {"RUN", "IDLE"}

(***************************************************************************)
(* While a payload runs the executor owns the DFI bus: the switch is in    *)
(* PAYLOAD-EXECUTION and nobody has asked for the bus back ("temporarily   *)
(* disconnects the DRAM controller from PHY, executes the instructions",   *)
(* docs/source/general.md).                                                *)
(***************************************************************************)
OwnsBus == Executing => sw_state = "PE" /\ wants_dfi

(***************************************************************************)
(* The command registers are one cycle behind the FSM, so the last command *)
(* is on them after the executor has left RUN.  The switch still connects  *)
(* them in that cycle: no command is lost at the handover.                 *)
(***************************************************************************)
NoCommandLost == dfi_cmd # "NOOP" => sw_state = "PE"

(***************************************************************************)
(* The word decoded in RUN is the one the program counter points at, over  *)
(* jumps and IDLE waits that let fetch_address fall back to 0.             *)
(***************************************************************************)
FetchCoherent == state = "RUN" => instruction = mem[program_counter]

(***************************************************************************)
(* Every execution starts with a loop counter of 0 ("Set loop_counter to 0 *)
(* so that next loop instruction will start properly",                     *)
(* payload_executor.py:441); nothing resets it on start.                   *)
(***************************************************************************)
StartsClean == state = "WAIT-DFI" => loop_counter = 0

(***************************************************************************)
(* When the executor starts running, the refresh_count CSR holds the       *)
(* number of the refresh the switch happened at, which is at_refresh if    *)
(* that is set ("mode transition MC -> PE will be peformed only when the   *)
(* value of this register matches the current refresh commands count",     *)
(* payload_executor.py:347).                                               *)
(***************************************************************************)
SwitchedAtRefresh ==
  [][state = "WAIT-DFI" /\ state' = "RUN" =>
       /\ refresh_count' = refresh_counter'
       /\ with_refresh /\ at_refresh # 0 => refresh_count' = at_refresh]_vars

(***************************************************************************)
(* A started execution ends: the executor becomes ready again ("Terminate  *)
(* after executing the whole program or when STOP instruction is           *)
(* encountered", payload_executor.py:426).                                 *)
(***************************************************************************)
Completes == (state # "READY") ~> (state = "READY")
=============================================================================
