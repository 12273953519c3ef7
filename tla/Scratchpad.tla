----------------------------- MODULE Scratchpad ------------------------------
(***************************************************************************)
(* The memory that collects the data of READ commands                      *)
(* (gateware/payload_executor.py, class Scratchpad).  The write port is    *)
(* registered: data that is valid in one cycle is presented to the memory  *)
(* in the next one and written at its end, and only then the counter       *)
(* moves on.                                                               *)
(***************************************************************************)
EXTENDS Naturals

CONSTANT ScratchDepth    \* words, a power of two

VARIABLES
  scratch,               \* the memory
  counter, overflow,
  wr_adr, wr_dat, wr_we  \* registers in front of the write port

\* Data is a natural number; 0 is also the value of a cleared register.
ScratchInit ==
  /\ scratch = [a \in 0 .. ScratchDepth - 1 |-> 0]
  /\ counter = 0 /\ overflow = FALSE
  /\ wr_adr = 0 /\ wr_dat = 0 /\ wr_we = FALSE

WritePort(valid, data) ==
  wr_adr' = counter /\ wr_dat' = data /\ wr_we' = valid

\* Mutant: overflow is not sticky.
MutantOverflowForgets ==
  IF wr_we THEN counter' = (counter + 1) % ScratchDepth /\ overflow' = (counter = ScratchDepth - 1)
           ELSE UNCHANGED <<counter, overflow>>

CountWrites ==
  IF wr_we THEN /\ counter' = (counter + 1) % ScratchDepth
                /\ overflow' = (overflow \/ counter = ScratchDepth - 1)
           ELSE UNCHANGED <<counter, overflow>>

\* ResetInserter: all registers of the module, not the memory.
Reset ==
  /\ counter' = 0 /\ overflow' = FALSE
  /\ wr_adr' = 0 /\ wr_dat' = 0 /\ wr_we' = FALSE

\* One clock edge.
ScratchStep(reset, valid, data) ==
  /\ scratch' = IF wr_we THEN [scratch EXCEPT ![wr_adr] = wr_dat] ELSE scratch
  /\ IF reset THEN Reset ELSE WritePort(valid, data) /\ CountWrites
=============================================================================
