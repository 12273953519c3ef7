------------------------------ MODULE DFISwitch ------------------------------
(***************************************************************************)
(* The multiplexer that hands the DFI bus of the DRAM PHY from the memory  *)
(* controller (MC) to the payload executor (PE) and back, with the counter *)
(* of refresh commands it synchronises on (gateware/payload_executor.py,   *)
(* classes DFISwitch and RefreshCounter).                                  *)
(*                                                                         *)
(* The circuit is clocked.  Step(wants, ref, update) is one clock edge:    *)
(* `wants' is the executor's wants_dfi, `ref' says that a REF command is   *)
(* on phase 0 of the DFI master in this cycle, `update' that the host      *)
(* writes the refresh_update CSR.                                          *)
(***************************************************************************)
EXTENDS Naturals

CONSTANT
  RefMod                 \* the refresh counter counts modulo RefMod (2^32)

VARIABLES
  sw_state,              \* FSM: "MC" (MEMORY-CONTROLLER), "PE" (PAYLOAD-EXECUTION)
  refresh_counter,       \* REF commands seen on the DFI master
  mc_ongoing_d,          \* was the FSM in "MC" in the previous cycle?
  refresh_count,         \* CSR: latched copy of refresh_counter
  at_refresh,            \* CSR: refresh number to switch at, 0 for any
  with_refresh           \* CSR: does the controller send refreshes?

SwitchTypeOK ==
  /\ sw_state \in {"MC", "PE"}
  /\ refresh_counter \in 0 .. RefMod - 1
  /\ mc_ongoing_d \in BOOLEAN
  /\ refresh_count \in 0 .. RefMod - 1
  /\ at_refresh \in 0 .. RefMod - 1
  /\ with_refresh \in BOOLEAN

SwitchInit ==
  /\ sw_state = "MC"
  /\ refresh_counter = 0
  /\ mc_ongoing_d = FALSE
  /\ refresh_count = 0
  /\ at_refresh = 0
  /\ with_refresh = TRUE

\* Mutant: the refresh being sent is not counted.
MutantMatchesCounter == at_refresh = 0 \/ at_refresh = refresh_counter

\* The sum is one bit wider than the counter: it does not wrap.
refresh_matches == at_refresh = 0 \/ at_refresh = refresh_counter + 1

dfi_ready == sw_state = "PE"

\* Mutant: a refresh sent by the payload gives the bus back.
MutantReturnsAtRefresh(wants, ref) ==
  sw_state' =
    IF sw_state = "MC"
      THEN IF wants /\ (with_refresh => ref /\ refresh_matches) THEN "PE" ELSE "MC"
      ELSE IF wants /\ ~ref THEN "PE" ELSE "MC"

SwitchFsm(wants, ref) ==
  sw_state' =
    IF sw_state = "MC"
      THEN IF wants /\ (with_refresh => ref /\ refresh_matches) THEN "PE" ELSE "MC"
      ELSE IF wants THEN "PE" ELSE "MC"

\* Mutant: the counter is wider than its register.
MutantCounterGrows(ref) ==
  refresh_counter' = IF ref THEN refresh_counter + 1 ELSE refresh_counter

\* ref: the command pins of the phase, or for DDR5 the first five bits of its address, are
\* those of REF.
RefreshCounter(ref) ==
  refresh_counter' = IF ref THEN (refresh_counter + 1) % RefMod ELSE refresh_counter

LatchRefreshCount(update) ==
  /\ mc_ongoing_d' = (sw_state = "MC")
  /\ refresh_count' = IF (mc_ongoing_d /\ sw_state = "PE") \/ update
                        THEN refresh_counter ELSE refresh_count

SwitchStep(wants, ref, update) ==
  /\ SwitchFsm(wants, ref)
  /\ RefreshCounter(ref)
  /\ LatchRefreshCount(update)
  /\ UNCHANGED <<at_refresh, with_refresh>>

\* Host writes to the CSRs.
SetAtRefresh(n) ==
  /\ at_refresh' = n
  /\ UNCHANGED <<sw_state, refresh_counter, mc_ongoing_d, refresh_count, with_refresh>>

SetWithRefresh(b) ==
  /\ with_refresh' = b
  /\ UNCHANGED <<sw_state, refresh_counter, mc_ongoing_d, refresh_count, at_refresh>>
=============================================================================
