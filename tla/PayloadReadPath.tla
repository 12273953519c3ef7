--------------------------- MODULE PayloadReadPath ---------------------------
(***************************************************************************)
(* The payload executor with its scratchpad and the read path of the PHY.  *)
(* The PHY is external: it answers a cycle with rddata_en on the DFI       *)
(* master ReadLatency cycles later with rddata_valid, which only reaches   *)
(* the scratchpad while the switch connects it.                            *)
(* `reads' numbers the READ commands of an execution; the data of a READ   *)
(* is its number, and NoRead for a cycle in which rddata_en was set        *)
(* without a READ command.                                                 *)
(***************************************************************************)
EXTENDS PayloadExecutor

CONSTANTS ScratchDepth, ReadLatency

ASSUME ReadPathAssumption == ScratchDepth \in Nat \ {0} /\ ReadLatency \in Nat \ {0}

VARIABLES scratch, counter, overflow, wr_adr, wr_dat, wr_we, phy, reads

Scratch == INSTANCE Scratchpad

readVars == <<scratch, counter, overflow, wr_adr, wr_dat, wr_we, phy, reads>>
pathVars == <<vars, readVars>>

NoRead == 0
NotValid == -1

ReadPathInit ==
  /\ Init
  /\ Scratch!ScratchInit
  /\ phy = [k \in 1 .. ReadLatency |-> NotValid]
  /\ reads = 0

\* What the master sees of the executor's registers in this cycle.
ReadOnBus == Switch!dfi_ready /\ dfi_cmd = "READ"
ReadEnable == Switch!dfi_ready /\ rddata_en # {}

PhyStep ==
  phy' = Append(Tail(phy),
                IF ReadOnBus THEN reads + 1 ELSE IF ReadEnable THEN NoRead ELSE NotValid)

rddata_valid == Switch!dfi_ready /\ Head(phy) # NotValid

ReadPathStep ==
  /\ PhyStep
  /\ Scratch!ScratchStep(state = "WAIT-DFI", rddata_valid, Head(phy))
  /\ reads' = IF state = "WAIT-DFI" THEN 0 ELSE IF ReadOnBus THEN reads + 1 ELSE reads
=============================================================================
