----------------------------- MODULE BISTWriter ------------------------------
(***************************************************************************)
(* The DMA writer that fills DRAM with the pattern (gateware/bist.py,      *)
(* class Writer).  One Tick is one clock edge.  The DMA (LiteDRAM) is      *)
(* external: it takes the word it is offered in any cycle it likes.        *)
(***************************************************************************)
EXTENDS BISTCommon

CONSTANT WriterConfigs   \* configurations the host sets

VARIABLES
  cfg, state, cmd_counter, mem_addr, dram_addr, wait_counter,
  addr_dat, data_dat,    \* outputs of the synchronous pattern ports
  inv,                   \* registers of the inverter
  sent                   \* <<address, data>> pairs the DMA has taken since the start

fsmVars == <<state, cmd_counter, mem_addr, dram_addr, wait_counter, sent>>
vars == <<cfg, fsmVars, addr_dat, data_dat, inv>>

Init ==
  /\ cfg \in WriterConfigs
  /\ state = "READY"
  /\ cmd_counter = 0 /\ mem_addr = 0 /\ dram_addr = 0 /\ wait_counter = 0
  /\ addr_dat = 0 /\ data_dat = 0 /\ inv = InverterReset
  /\ sent = <<>>

\* The pattern ports and the inverter are clocked in every state.
Pipeline ==
  /\ addr_dat' = cfg.addr[mem_addr]
  /\ data_dat' = cfg.data[mem_addr]
  /\ inv' = InverterNext(cfg, inv, dram_addr, data_dat)

Ready(start) ==
  /\ state = "READY"
  /\ IF start THEN /\ state' = "COMPUTE_MEM_ADDR"
                   /\ cmd_counter' = 0 /\ mem_addr' = 0
                   /\ sent' = <<>>
              ELSE UNCHANGED <<state, cmd_counter, mem_addr, sent>>
  /\ UNCHANGED <<dram_addr, wait_counter>>

ComputeMemAddr ==
  /\ state = "COMPUTE_MEM_ADDR"
  /\ mem_addr' = IF cfg.modulo THEN mem_addr ELSE cmd_counter % cfg.data_mod
  /\ state' = IF cmd_counter >= cfg.count THEN "READY" ELSE "WAIT_FOR_DRAM_ADDR"
  /\ UNCHANGED <<cmd_counter, dram_addr, wait_counter, sent>>

WaitForDramAddr ==
  /\ state = "WAIT_FOR_DRAM_ADDR"
  /\ state' = "COMPUTE_DRAM_ADDR"
  /\ UNCHANGED <<cmd_counter, mem_addr, dram_addr, wait_counter, sent>>

ComputeDramAddr ==
  /\ state = "COMPUTE_DRAM_ADDR"
  /\ wait_counter' = 0
  /\ dram_addr' = (addr_dat + (cmd_counter % cfg.mem_mod)) % AddrSpace
  /\ state' = "INVERT_COMPUTE"
  /\ UNCHANGED <<cmd_counter, mem_addr, sent>>

\* Mutant: the inverter is given one cycle less.
MutantInvertsEarly ==
  /\ state = "INVERT_COMPUTE"
  /\ state' = IF wait_counter = 1 THEN "SEND" ELSE state
  /\ wait_counter' = wait_counter + 1
  /\ UNCHANGED <<cmd_counter, mem_addr, dram_addr, sent>>

InvertCompute ==
  /\ state = "INVERT_COMPUTE"
  /\ state' = IF wait_counter = 2 THEN "SEND" ELSE state
  /\ wait_counter' = wait_counter + 1
  /\ UNCHANGED <<cmd_counter, mem_addr, dram_addr, sent>>

\* dma.sink.valid is set; the DMA takes the word if `taken'.
Send(taken) ==
  /\ state = "SEND"
  /\ IF taken THEN /\ sent' = Append(sent, <<dram_addr, inv.out>>)
                   /\ cmd_counter' = cmd_counter + 1
                   /\ mem_addr' = NextWord(cfg, mem_addr)
                   /\ state' = "COMPUTE_MEM_ADDR"
              ELSE UNCHANGED <<sent, cmd_counter, mem_addr, state>>
  /\ UNCHANGED <<dram_addr, wait_counter>>

Step(start, taken) ==
  \/ Ready(start) \/ ComputeMemAddr \/ WaitForDramAddr \/ ComputeDramAddr
  \/ InvertCompute \/ Send(taken)

Tick(start, taken) == Step(start, taken) /\ Pipeline /\ UNCHANGED cfg

\* The host sets CSRs and pattern while the writer is ready.
Configure(c) ==
  /\ state = "READY"
  /\ cfg' = c
  /\ UNCHANGED <<fsmVars, addr_dat, data_dat, inv>>

Clock == \E start, taken \in BOOLEAN : Tick(start, taken)

Next == Clock \/ \E c \in WriterConfigs : Configure(c)

Spec == Init /\ [][Next]_vars

\* The clock runs and the DMA does not refuse a word for ever.
DmaTakes == state = "SEND" /\ Tick(FALSE, TRUE)

FairSpec == Spec /\ WF_vars(Clock) /\ WF_vars(DmaTakes)
-----------------------------------------------------------------------------
(***************************************************************************)
(* What the DMA has been given is the pattern: transfer k has the address  *)
(* and the data, inverted in the selected rows, that the documentation of  *)
(* BISTModule and RowDataInverter defines.  The registers of the pattern   *)
(* ports and of the inverter are 1 and 3 cycles behind; the wait states    *)
(* must cover them for every change of configuration and address.          *)
(***************************************************************************)
WritesPattern ==
  state # "READY" =>
    /\ Len(sent) = cmd_counter
    /\ \A k \in 1 .. Len(sent) :
         sent[k] = <<TransferAddr(cfg, k - 1), TransferData(cfg, k - 1)>>

(***************************************************************************)
(* A started transfer ends, with exactly `count' words sent (hw_memset     *)
(* polls writer_ready without a limit).                                    *)
(***************************************************************************)
Finishes == (state # "READY") ~> (state = "READY" /\ Len(sent) = cfg.count)
=============================================================================
