----------------------------- MODULE BISTReader ------------------------------
(***************************************************************************)
(* The DMA reader that compares DRAM with the pattern (gateware/bist.py,   *)
(* class Reader).  Three FSMs run in one clock domain:                     *)
(*   - the address FSM computes addresses and pushes each first into       *)
(*     address_fifo, then to the DMA;                                      *)
(*   - the pattern FSM computes the expected data of the address at the    *)
(*     head of address_fifo and compares it with the data the DMA returns; *)
(*   - the error FSM takes errors out of the buffered error_fifo into the  *)
(*     register the host reads.                                            *)
(* The DMA (LiteDRAM) is external: it accepts an address in any cycle it   *)
(* likes and returns the data in order, in any later cycle.                *)
(***************************************************************************)
EXTENDS BISTCommon

CONSTANTS
  AddressFifoDepth,      \* 4
  ErrorFifoDepth,        \* 2, plus the output register of a buffered FIFO
  ReaderConfigs,         \* configurations the host sets
  Contents               \* what DRAM may hold: functions from Addresses to Bit

ASSUME ReaderAssumption ==
  /\ AddressFifoDepth \in Nat \ {0} /\ ErrorFifoDepth \in Nat \ {0}
  /\ ReaderConfigs \subseteq Configs
  /\ Contents \subseteq [Addresses -> Bit]

VARIABLES
  cfg, dram, skip_fifo,
  a_state, counter_addr, mem_addr, addr_dat, dram_addr,      \* address FSM
  address_fifo, dma,                                         \* addresses under way
  p_state, counter_gen, data_mem_addr, data_dat, wait_counter, inv,
  error_count, sink,                                         \* pattern FSM
  error_fifo, error_out,                                     \* buffered error FIFO
  e_state, error_reg                                         \* error FSM

addrVars == <<a_state, counter_addr, mem_addr, addr_dat, dram_addr>>
patternVars == <<p_state, counter_gen, data_mem_addr, data_dat, wait_counter, inv,
                 error_count, sink>>
errorVars == <<error_fifo, error_out, e_state, error_reg>>
vars == <<cfg, dram, skip_fifo, addrVars, address_fifo, dma, patternVars, errorVars>>

NoError == [offset |-> 0, data |-> 0, expected |-> 0]

Init ==
  /\ cfg \in ReaderConfigs /\ dram \in Contents /\ skip_fifo = FALSE
  /\ a_state = "READY" /\ counter_addr = 0 /\ mem_addr = 0
  /\ addr_dat = 0 /\ dram_addr = 0 /\ address_fifo = <<>> /\ dma = <<>>
  /\ p_state = "READY" /\ counter_gen = 0 /\ data_mem_addr = 0 /\ data_dat = 0
  /\ wait_counter = 0 /\ inv = InverterReset /\ error_count = 0 /\ sink = NoError
  /\ error_fifo = <<>> /\ error_out = <<>>
  /\ e_state = "INVALID" /\ error_reg = NoError
-----------------------------------------------------------------------------

\* Handshakes of this cycle.
PushFifo == a_state = "PUSH_TO_FIFO" /\ Len(address_fifo) < AddressFifoDepth
PushDma(accept) == a_state = "PUSH_TO_DMA" /\ accept
TakeData(answer) == p_state = "RD_DATA" /\ dma # <<>> /\ answer
PushError == p_state = "WR_ERR" /\ Len(error_fifo) < ErrorFifoDepth

AddrStep(start, accept) ==
  /\ addr_dat' = cfg.addr[mem_addr]
  /\ \/ /\ a_state = "READY"
        /\ IF start THEN a_state' = "COMPUTE_MEM_ADDR" /\ counter_addr' = 0 /\ mem_addr' = 0
                    ELSE UNCHANGED <<a_state, counter_addr, mem_addr>>
        /\ UNCHANGED dram_addr
     \/ /\ a_state = "COMPUTE_MEM_ADDR"
        /\ mem_addr' = IF cfg.modulo THEN mem_addr ELSE counter_addr % cfg.data_mod
        /\ a_state' = IF counter_addr >= cfg.count THEN "READY" ELSE "WAIT_FOR_DRAM_ADDR"
        /\ UNCHANGED <<counter_addr, dram_addr>>
     \/ /\ a_state = "WAIT_FOR_DRAM_ADDR"
        /\ a_state' = "COMPUTE_DRAM_ADDR"
        /\ UNCHANGED <<counter_addr, mem_addr, dram_addr>>
     \/ /\ a_state = "COMPUTE_DRAM_ADDR"
        /\ dram_addr' = (addr_dat + (counter_addr % cfg.mem_mod)) % AddrSpace
        /\ a_state' = "PUSH_TO_FIFO"
        /\ UNCHANGED <<counter_addr, mem_addr>>
     \/ /\ a_state = "PUSH_TO_FIFO"
        /\ a_state' = IF PushFifo THEN "PUSH_TO_DMA" ELSE a_state
        /\ UNCHANGED <<counter_addr, mem_addr, dram_addr>>
     \/ /\ a_state = "PUSH_TO_DMA"
        /\ IF PushDma(accept)
             THEN /\ counter_addr' = counter_addr + 1
                  /\ mem_addr' = NextWord(cfg, mem_addr)
                  /\ a_state' = "COMPUTE_MEM_ADDR"
             ELSE UNCHANGED <<counter_addr, mem_addr, a_state>>
        /\ UNCHANGED dram_addr

\* The head of an empty FIFO is whatever its memory holds; only the inverter
\* looks at it, and not for a result that is used.
FifoHead == IF address_fifo = <<>> THEN 0 ELSE Head(address_fifo)

\* Mutant: the address is dropped before its data has come.
MutantPopsEarly(accept, answer) ==
  /\ address_fifo' =
       LET rest == IF p_state = "INVERT_COMPUTE" /\ wait_counter = 2
                     THEN Tail(address_fifo) ELSE address_fifo
       IN  IF PushFifo THEN Append(rest, dram_addr) ELSE rest
  /\ dma' = LET rest == IF TakeData(answer) THEN Tail(dma) ELSE dma
            IN  IF PushDma(accept) THEN Append(rest, dram_addr) ELSE rest

QueueStep(accept, answer) ==
  /\ address_fifo' =
       LET rest == IF TakeData(answer) THEN Tail(address_fifo) ELSE address_fifo
       IN  IF PushFifo THEN Append(rest, dram_addr) ELSE rest
  /\ dma' = LET rest == IF TakeData(answer) THEN Tail(dma) ELSE dma
            IN  IF PushDma(accept) THEN Append(rest, dram_addr) ELSE rest

\* Mutant: errors that are not kept are not counted.
MutantCountsKeptErrors ==
  LET read == dram[Head(dma)] IN
  /\ counter_gen' = counter_gen + 1
  /\ IF read # inv.out /\ ~skip_fifo
       THEN /\ error_count' = error_count + 1
            /\ sink' = [offset |-> FifoHead, data |-> read, expected |-> inv.out]
            /\ p_state' = "WR_ERR"
       ELSE /\ p_state' = "COMPUTE_MEM_ADDR"
            /\ UNCHANGED <<error_count, sink>>

\* RD_DATA when the DMA has data.
Compare ==
  LET read == dram[Head(dma)] IN
  /\ counter_gen' = counter_gen + 1
  /\ IF read # inv.out
       THEN /\ error_count' = error_count + 1
            /\ sink' = [offset |-> FifoHead, data |-> read, expected |-> inv.out]
            /\ p_state' = IF skip_fifo THEN "COMPUTE_MEM_ADDR" ELSE "WR_ERR"
       ELSE /\ p_state' = "COMPUTE_MEM_ADDR"
            /\ UNCHANGED <<error_count, sink>>

\* In modulo mode nothing advances data_mem_addr.
PatternStep(start, answer) ==
  /\ data_dat' = cfg.data[data_mem_addr]
  /\ inv' = InverterNext(cfg, inv, FifoHead, data_dat)
  /\ \/ /\ p_state = "READY"
        /\ IF start
             THEN /\ p_state' = "COMPUTE_MEM_ADDR"
                  /\ counter_gen' = 0 /\ data_mem_addr' = 0 /\ error_count' = 0
             ELSE UNCHANGED <<p_state, counter_gen, data_mem_addr, error_count>>
        /\ UNCHANGED <<wait_counter, sink>>
     \/ /\ p_state = "COMPUTE_MEM_ADDR"
        /\ data_mem_addr' = IF cfg.modulo THEN data_mem_addr ELSE counter_gen % cfg.data_mod
        /\ p_state' = IF counter_gen >= cfg.count THEN "READY" ELSE "WAIT_FOR_DRAM_ADDR"
        /\ UNCHANGED <<counter_gen, wait_counter, error_count, sink>>
     \/ /\ p_state = "WAIT_FOR_DRAM_ADDR"
        /\ IF address_fifo # <<>> THEN p_state' = "INVERT_COMPUTE" /\ wait_counter' = 0
                                  ELSE UNCHANGED <<p_state, wait_counter>>
        /\ UNCHANGED <<counter_gen, data_mem_addr, error_count, sink>>
     \/ /\ p_state = "INVERT_COMPUTE"
        /\ p_state' = IF wait_counter = 2 THEN "RD_DATA" ELSE p_state
        /\ wait_counter' = wait_counter + 1
        /\ UNCHANGED <<counter_gen, data_mem_addr, error_count, sink>>
     \/ /\ p_state = "RD_DATA"
        /\ IF TakeData(answer) THEN Compare
                               ELSE UNCHANGED <<p_state, counter_gen, error_count, sink>>
        /\ UNCHANGED <<data_mem_addr, wait_counter>>
     \/ /\ p_state = "WR_ERR"
        /\ p_state' = IF PushError \/ skip_fifo THEN "COMPUTE_MEM_ADDR" ELSE p_state
        /\ UNCHANGED <<counter_gen, data_mem_addr, wait_counter, error_count, sink>>

\* Mutants: the register is only filled by a continue; it is overwritten before
\* the host has read it.
MutantTakesOnContinue(cont) == error_out # <<>> /\ e_state = "VALID" /\ cont
MutantTakesAlways(cont) == error_out # <<>>

\* Does the error FSM take the head of the FIFO?  `cont' is error_continue.
TakeError(cont) == error_out # <<>> /\ (e_state = "INVALID" \/ cont)

\* SyncFIFOBuffered: the output register is refilled when it is empty or read.
ErrorFifoStep(cont) ==
  LET refill == error_fifo # <<>> /\ (error_out = <<>> \/ TakeError(cont))
      rest == IF refill THEN Tail(error_fifo) ELSE error_fifo
  IN  /\ error_out' = IF refill THEN <<Head(error_fifo)>>
                      ELSE IF TakeError(cont) THEN <<>> ELSE error_out
      /\ error_fifo' = IF PushError THEN Append(rest, sink) ELSE rest

\* With skip_fifo an error is taken and dropped; a VALID register is not touched.
ErrorStep(cont) ==
  \/ /\ e_state = "INVALID"
     /\ IF TakeError(cont) /\ ~skip_fifo
          THEN e_state' = "VALID" /\ error_reg' = error_out[1]
          ELSE UNCHANGED <<e_state, error_reg>>
  \/ /\ e_state = "VALID"
     /\ IF TakeError(cont) /\ ~skip_fifo
          THEN error_reg' = error_out[1] /\ UNCHANGED e_state
          ELSE e_state' = (IF cont THEN "INVALID" ELSE e_state) /\ UNCHANGED error_reg

Tick(start, cont, accept, answer) ==
  /\ AddrStep(start, accept)
  /\ QueueStep(accept, answer)
  /\ PatternStep(start, answer)
  /\ ErrorFifoStep(cont)
  /\ ErrorStep(cont)
  /\ UNCHANGED <<cfg, dram, skip_fifo>>

Ready == p_state = "READY"

\* The host sets CSRs and pattern; DRAM cells may have changed since.
Configure(c, d) ==
  /\ Ready
  /\ cfg' = c /\ dram' = d
  /\ UNCHANGED <<skip_fifo, addrVars, address_fifo, dma, patternVars, errorVars>>

SetSkipFifo(b) ==
  /\ skip_fifo' = b
  /\ UNCHANGED <<cfg, dram, addrVars, address_fifo, dma, patternVars, errorVars>>

Host ==
  \/ \E c \in ReaderConfigs, d \in Contents : Configure(c, d)
  \/ \E b \in BOOLEAN : SetSkipFifo(b)

\* The host starts a transfer when the reader is ready, as the documentation of
\* BISTModule asks for.
Starts == {FALSE, Ready}

Clock ==
  \E start \in Starts, cont, accept, answer \in BOOLEAN : Tick(start, cont, accept, answer)

Next == Clock \/ Host

Spec == Init /\ [][Next]_vars
-----------------------------------------------------------------------------
Mismatches(n) ==
  {k \in 0 .. n - 1 : dram[TransferAddr(cfg, k)] # TransferData(cfg, k)}

(***************************************************************************)
(* The data the DMA returns next belongs to the address at the head of     *)
(* address_fifo: the two queues stay in step over stalls of either side.   *)
(* When the pattern FSM is ready, which is the `ready' of the module, both *)
(* are empty and the address FSM is ready too, so a start reaches both     *)
(* FSMs and leaves none behind ("Write to the register starts the transfer *)
(* (if ready=1)", bist.py:124).                                            *)
(***************************************************************************)
QueuesInStep ==
  /\ address_fifo = dma \o (IF a_state = "PUSH_TO_DMA" THEN <<dram_addr>> ELSE <<>>)
  /\ Ready => a_state = "READY" /\ dma = <<>>

(***************************************************************************)
(* error_count is the number of transfers whose data differs from the      *)
(* pattern ("compares the data read to `data` from the pattern",           *)
(* bist.py:19; "this value represents the number of erroneous DMA          *)
(* transfers", bist.py:282).                                               *)
(***************************************************************************)
ErrorCountExact == ~Ready => error_count = Cardinality(Mismatches(counter_gen))

(***************************************************************************)
(* A started transfer ends, with every transfer compared.                  *)
(***************************************************************************)
Finishes == ~Ready ~> (Ready /\ counter_gen = cfg.count)
=============================================================================
