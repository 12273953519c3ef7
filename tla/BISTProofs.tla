----------------------------- MODULE BISTProofs ------------------------------
(***************************************************************************)
(* Proofs about the BIST modules, for every configuration, memory, depth   *)
(* of the FIFOs, stall of the DMAs and timing of the host: the queues of   *)
(* the reader, what the writer writes, and what a clock cycle does to the  *)
(* errors on their way from the reader to hw_memtest.                      *)
(***************************************************************************)
EXTENDS MemtestHost, TLAPS
-----------------------------------------------------------------------------
(***************************************************************************)
(* The pattern of BISTModule, which the writer computes in the same way.   *)
(***************************************************************************)
\* Division with remainder, and that it has one result.
LEMMA DivMod ==
  ASSUME NEW a \in Int, NEW n \in Nat \ {0}
  PROVE  a \div n \in Int /\ a % n \in 0 .. n - 1 /\ a = n * (a \div n) + (a % n)
  OBVIOUS

\* A multiple of n strictly between -n and n is 0.
LEMMA SmallMultiple ==
  ASSUME NEW n \in Nat \ {0}, NEW d \in Int, n * d < n, 0 - n < n * d
  PROVE  d = 0
  <1>1. CASE d >= 1
    <2>1. n * d >= n
      BY <1>1
    <2> QED
      BY <2>1
  <1>2. CASE d <= -1
    <2>1. n * d <= -n
      BY <1>2
    <2> QED
      BY <2>1
  <1> QED
    BY <1>1, <1>2

\* The remainder of n * q + r is r.
LEMMA ModUnique ==
  ASSUME NEW n \in Nat \ {0}, NEW q \in Int, NEW r \in 0 .. n - 1
  PROVE  (n * q + r) % n = r
  <1> DEFINE a == n * q + r
             d == (a \div n) - q
  <1>0. a \in Int
    OBVIOUS
  <1>1. a \div n \in Int /\ a % n \in 0 .. n - 1 /\ a = n * (a \div n) + (a % n)
    BY <1>0, DivMod, SMTT(30)
  <1>2. n * d = r - (a % n)
    BY <1>1
  <1>3. d = 0
    BY <1>1, <1>2, SmallMultiple
  <1> QED
    BY <1>1, <1>2, <1>3

\* Counting modulo n, which modulo mode does without a division.
LEMMA ModNext ==
  ASSUME NEW k \in Nat, NEW n \in Nat \ {0}
  PROVE  (k + 1) % n = IF k % n = n - 1 THEN 0 ELSE (k % n) + 1
  <1> DEFINE q == k \div n
             r == k % n
  <1>1. q \in Int /\ r \in 0 .. n - 1 /\ k = n * q + r
    BY DivMod
  <1> HIDE DEF q, r
  <1>2. CASE r = n - 1
    <2>1. k + 1 = n * (q + 1) + 0
      BY <1>1, <1>2
    <2>2. (n * (q + 1) + 0) % n = 0
      BY <1>1, ModUnique
    <2> QED
      BY <1>2, <2>1, <2>2 DEF r
  <1>3. CASE r # n - 1
    <2>1. k + 1 = n * q + (r + 1) /\ r + 1 \in 0 .. n - 1
      BY <1>1, <1>3
    <2>2. (n * q + (r + 1)) % n = r + 1
      BY <1>1, <2>1, ModUnique
    <2> QED
      BY <1>3, <2>1, <2>2 DEF r
  <1> QED
    BY <1>2, <1>3

\* A remainder is below its divisor.
LEMMA ModRange ==
  ASSUME NEW a \in Int, NEW n \in Nat \ {0}
  PROVE  a % n \in 0 .. n - 1
  BY DivMod

\* What a configuration holds.
Fields(c) ==
  /\ c.count \in Nat /\ c.modulo \in BOOLEAN
  /\ c.data_div \in PatternWords /\ c.data_div \in Nat /\ c.data_div < PatternDepth
  /\ c.data_mod \in Nat \ {0} /\ c.data_mod <= PatternDepth
  /\ c.mem_mod \in Nat \ {0} /\ c.divisor \in Nat \ {0}
  /\ \A w \in PatternWords : c.addr[w] \in Addresses /\ c.data[w] \in Bit
  /\ 0 \in PatternWords

\* Every configuration of the host holds that.
LEMMA ConfigTyped ==
  ASSUME NEW c \in Configs
  PROVE  Fields(c)
  BY BISTAssumption DEF Configs, PatternWords, Fields

\* A transfer takes its word from the pattern memory and its address from DRAM.
LEMMA TransferTyped ==
  ASSUME NEW c \in Configs, NEW k \in Nat
  PROVE  /\ TransferWord(c, k) \in PatternWords
         /\ TransferAddr(c, k) \in Addresses
         /\ TransferData(c, k) \in Bit
  <1>0. Fields(c)
    BY ConfigTyped
  <1>1. TransferWord(c, k) \in PatternWords
    <2>1. ASSUME NEW n \in Nat \ {0}, n <= PatternDepth PROVE k % n \in PatternWords
      <3>1. k % n \in 0 .. n - 1
        BY ModRange
      <3> QED
        BY <2>1, <3>1, BISTAssumption DEF PatternWords
    <2>2. c.data_div + 1 \in Nat \ {0} /\ c.data_div + 1 <= PatternDepth
      BY <1>0, BISTAssumption DEF Fields
    <2>3. c.data_mod \in Nat \ {0} /\ c.data_mod <= PatternDepth
      BY <1>0 DEF Fields
    <2>4. k % (c.data_div + 1) \in PatternWords /\ k % c.data_mod \in PatternWords
      BY <2>1, <2>2, <2>3
    <2> QED
      BY <2>4 DEF TransferWord
  <1>2. c.addr[TransferWord(c, k)] \in Nat /\ c.data[TransferWord(c, k)] \in {0, 1}
    BY <1>0, <1>1 DEF Addresses, Bit, Fields
  <1>3. k % c.mem_mod \in Nat
    <2>1. c.mem_mod \in Nat \ {0}
      BY <1>0 DEF Fields
    <2>2. k % c.mem_mod \in 0 .. c.mem_mod - 1
      BY <2>1, ModRange, SMTT(30)
    <2> QED
      BY <2>1, <2>2
  <1>4. TransferAddr(c, k) \in Addresses
    <2> DEFINE a == c.addr[TransferWord(c, k)] + (k % c.mem_mod)
    <2>1. a \in Int
      BY <1>2, <1>3
    <2> HIDE DEF a
    <2>2. a % AddrSpace \in 0 .. AddrSpace - 1
      BY <2>1, BISTAssumption, ModRange
    <2> QED
      BY <2>2 DEF TransferAddr, Addresses, a
  <1>5. TransferData(c, k) \in Bit
    BY <1>2 DEF TransferData, Invert, Bit
  <1> QED
    BY <1>1, <1>4, <1>5

\* The first transfer takes the first word, in either mode.
LEMMA FirstWord ==
  ASSUME NEW c \in Configs
  PROVE  TransferWord(c, 0) = 0
  <1>1. \A n \in Nat \ {0} : 0 % n = 0
    OBVIOUS
  <1>2. c.data_div + 1 \in Nat \ {0} /\ c.data_mod \in Nat \ {0}
    BY ConfigTyped DEF Fields
  <1> QED
    BY <1>1, <1>2 DEF TransferWord

\* NextWord goes from the word of a transfer to the word of the next in modulo mode.
LEMMA NextWordRight ==
  ASSUME NEW c \in Configs, NEW k \in Nat, NEW w \in PatternWords,
         c.modulo => w = TransferWord(c, k)
  PROVE  /\ NextWord(c, w) \in PatternWords
         /\ c.modulo => NextWord(c, w) = TransferWord(c, k + 1)
  <1>0. Fields(c)
    BY ConfigTyped
  <1>1. CASE ~c.modulo
    BY <1>1 DEF NextWord
  <1>2. CASE c.modulo
    <2> DEFINE n == c.data_div + 1
    <2>1. /\ n \in Nat \ {0} /\ c.data_div = n - 1 /\ n <= PatternDepth
          /\ w = k % n /\ TransferWord(c, k + 1) = (k + 1) % n
      BY <1>0, <1>2, BISTAssumption DEF Fields, TransferWord
    <2> HIDE DEF n
    <2>2. (k + 1) % n = IF w = n - 1 THEN 0 ELSE w + 1
      BY <2>1, ModNext, Zenon
    <2>3. w \in 0 .. n - 1
      <3>1. n \in Nat \ {0}
        BY <2>1
      <3>2. k % n \in 0 .. n - 1
        BY <3>1, ModRange
      <3> QED
        BY <2>1, <3>2
    <2>4. w # n - 1 => (w + 1) % PatternDepth = w + 1
      <3>1. w # n - 1 => w + 1 \in 0 .. PatternDepth - 1
        BY <2>1, <2>3, BISTAssumption
      <3>2. w # n - 1 => (PatternDepth * 0 + (w + 1)) % PatternDepth = w + 1
        BY <3>1, ModUnique, BISTAssumption
      <3> QED
        BY <2>1, <2>3, <3>2, BISTAssumption
    <2>5. NextWord(c, w) = (k + 1) % n
      BY <1>2, <2>1, <2>2, <2>4 DEF NextWord
    <2> QED
      BY <2>1, <2>5, TransferTyped
  <1> QED
    BY <1>1, <1>2
-----------------------------------------------------------------------------
(***************************************************************************)
(* The reader.                                                             *)
(***************************************************************************)
AddrStates == {"READY", "COMPUTE_MEM_ADDR", "WAIT_FOR_DRAM_ADDR", "COMPUTE_DRAM_ADDR",
               "PUSH_TO_FIFO", "PUSH_TO_DMA"}
PatternStates == {"READY", "COMPUTE_MEM_ADDR", "WAIT_FOR_DRAM_ADDR", "INVERT_COMPUTE", "RD_DATA",
                  "WR_ERR"}

ReaderTypes ==
  /\ cfg \in Configs /\ dram \in [Addresses -> Bit] /\ skip_fifo \in BOOLEAN
  /\ a_state \in AddrStates /\ counter_addr \in Nat /\ mem_addr \in PatternWords
  /\ dram_addr \in Addresses /\ address_fifo \in Seq(Addresses) /\ dma \in Seq(Addresses)
  /\ p_state \in PatternStates /\ counter_gen \in Nat /\ data_mem_addr \in PatternWords
  /\ wait_counter \in Nat /\ error_count \in Nat

\* The address FSM, in each state of transfer counter_addr.
AddrInv ==
  /\ a_state # "READY" /\ cfg.modulo => mem_addr = TransferWord(cfg, counter_addr)
  /\ a_state \notin {"READY", "COMPUTE_MEM_ADDR"} => mem_addr = TransferWord(cfg, counter_addr)
  /\ a_state \in {"COMPUTE_DRAM_ADDR", "PUSH_TO_FIFO", "PUSH_TO_DMA"} =>
       addr_dat = cfg.addr[mem_addr]
  /\ a_state \in {"PUSH_TO_FIFO", "PUSH_TO_DMA"} => dram_addr = TransferAddr(cfg, counter_addr)

\* The pattern FSM is as many transfers behind the address FSM as are under way in the
\* DMA, so it cannot be ready before the address FSM is.
CountInv ==
  /\ ~Ready =>
       /\ counter_addr = counter_gen + Len(dma) /\ counter_addr <= cfg.count
       /\ a_state \notin {"READY", "COMPUTE_MEM_ADDR"} => counter_addr < cfg.count
       /\ a_state = "READY" => counter_addr = cfg.count
  /\ p_state \in {"INVERT_COMPUTE", "RD_DATA"} => address_fifo # <<>>

FifoInv ==
  \A i \in 1 .. Len(address_fifo) : address_fifo[i] = TransferAddr(cfg, counter_gen + i - 1)

\* The pattern FSM, in each state of transfer counter_gen: the data port is one cycle
\* behind and the inverter three.
PatternInv ==
  LET decoder == Row(TransferAddr(cfg, counter_gen)) % cfg.divisor
      waited(n) == p_state = "RD_DATA" \/ wait_counter >= n
  IN  /\ ~Ready /\ cfg.modulo => data_mem_addr = 0
      /\ p_state \in {"WAIT_FOR_DRAM_ADDR", "INVERT_COMPUTE", "RD_DATA"} =>
           data_mem_addr = TransferWord(cfg, counter_gen)
      /\ p_state \in {"INVERT_COMPUTE", "RD_DATA"} =>
           /\ data_dat = cfg.data[data_mem_addr]
           /\ waited(1) => inv.decoder = decoder
           /\ waited(2) => inv.selected = (decoder \in cfg.selection)
           /\ waited(3) => inv.out = TransferData(cfg, counter_gen)

QueueInv == ReaderTypes /\ AddrInv /\ CountInv /\ FifoInv /\ QueuesInStep

\* The reader never advances the data of the pattern in modulo mode, so there is one word.
OneWord == cfg.modulo => cfg.data_div = 0

ReaderInv == QueueInv /\ OneWord /\ PatternInv
-----------------------------------------------------------------------------
\* The address FSM is the writer's without the inverter.
LEMMA AddrTick ==
  ASSUME QueueInv, NEW start \in BOOLEAN, start => Ready, NEW accept \in BOOLEAN,
         AddrStep(start, accept), UNCHANGED cfg
  PROVE  AddrInv' /\ mem_addr' \in PatternWords /\ dram_addr' \in Addresses
         /\ a_state' \in AddrStates /\ counter_addr' \in Nat
  <1> USE DEF QueueInv, ReaderTypes, AddrInv, AddrStates
  <1>0. Fields(cfg)
    BY ConfigTyped
  <1>1. addr_dat' = cfg.addr[mem_addr]
    BY DEF AddrStep
  <1>2. CASE a_state = "READY"
    <2>1. TransferWord(cfg, 0) = 0 /\ 0 \in PatternWords
      BY <1>0, FirstWord DEF Fields
    <2> QED
      BY <1>1, <1>2, <2>1 DEF AddrStep
  <1>3. CASE a_state = "COMPUTE_MEM_ADDR"
    <2>1. TransferWord(cfg, counter_addr) \in PatternWords
      BY TransferTyped
    <2>2. mem_addr' = TransferWord(cfg, counter_addr)
      BY <1>3 DEF AddrStep, TransferWord
    <2> QED
      BY <1>1, <1>3, <2>1, <2>2 DEF AddrStep
  <1>4. CASE a_state = "WAIT_FOR_DRAM_ADDR"
    BY <1>1, <1>4 DEF AddrStep
  <1>5. CASE a_state = "COMPUTE_DRAM_ADDR"
    <2>1. dram_addr' = TransferAddr(cfg, counter_addr)
      BY <1>5 DEF AddrStep, TransferAddr
    <2>2. dram_addr' \in Addresses
      BY <2>1, TransferTyped
    <2> QED
      BY <1>1, <1>5, <2>1, <2>2 DEF AddrStep
  <1>6. CASE a_state = "PUSH_TO_FIFO"
    BY <1>1, <1>6 DEF AddrStep
  <1>7. CASE a_state = "PUSH_TO_DMA"
    <2>1. /\ NextWord(cfg, mem_addr) \in PatternWords
          /\ cfg.modulo => NextWord(cfg, mem_addr) = TransferWord(cfg, counter_addr + 1)
      BY <1>7, NextWordRight
    <2> QED
      BY <1>1, <1>7, <2>1 DEF AddrStep
  <1> QED
    BY <1>2, <1>3, <1>4, <1>5, <1>6, <1>7

\* Sequences: what a queue is after it is popped and pushed.
LEMMA TailConcat ==
  ASSUME NEW S, NEW s \in Seq(S), s # <<>>, NEW t \in Seq(S)
  PROVE  Tail(s \o t) = Tail(s) \o t /\ Head(s \o t) = Head(s) /\ s \o t # <<>>
  OBVIOUS

\* What is left of a sequence when its head is taken.
LEMMA TailProperties ==
  ASSUME NEW S, NEW s \in Seq(S), s # <<>>
  PROVE  /\ Tail(s) \in Seq(S) /\ Len(Tail(s)) = Len(s) - 1 /\ Head(s) \in S /\ Head(s) = s[1]
         /\ Len(s) >= 1
         /\ \A i \in 1 .. Len(Tail(s)) : Tail(s)[i] = s[i + 1]
  OBVIOUS

\* A sequence with one more element.
LEMMA AppendProperties ==
  ASSUME NEW S, NEW s \in Seq(S), NEW x \in S
  PROVE  /\ Append(s, x) \in Seq(S) /\ Len(Append(s, x)) = Len(s) + 1
         /\ Append(s, x) = s \o <<x>> /\ Append(s, x) # <<>>
         /\ \A i \in 1 .. Len(s) : Append(s, x)[i] = s[i]
         /\ Append(s, x)[Len(s) + 1] = x
  OBVIOUS

\* What a clock edge does to the pattern FSM's place in the transfers.
LEMMA PatternPlace ==
  ASSUME QueueInv, NEW start \in BOOLEAN, NEW answer \in BOOLEAN, PatternStep(start, answer), UNCHANGED cfg
  PROVE  /\ p_state' \in PatternStates /\ counter_gen' \in Nat /\ data_mem_addr' \in PatternWords
         /\ wait_counter' \in Nat /\ error_count' \in Nat
         /\ TakeData(answer) => counter_gen' = counter_gen + 1 /\ p_state' \in {"COMPUTE_MEM_ADDR", "WR_ERR"}
         /\ ~TakeData(answer) /\ ~(Ready /\ start) => counter_gen' = counter_gen
         /\ Ready /\ start => counter_gen' = 0 /\ p_state' = "COMPUTE_MEM_ADDR"
         /\ Ready /\ ~start => Ready'
         /\ Ready' /\ ~Ready => p_state = "COMPUTE_MEM_ADDR" /\ counter_gen >= cfg.count
         /\ p_state' \in {"INVERT_COMPUTE", "RD_DATA"} => address_fifo # <<>> /\ ~TakeData(answer)
  <1> USE DEF PatternStates
  <1>0. Fields(cfg)
    BY ConfigTyped DEF QueueInv, ReaderTypes
  <1>1. counter_gen % cfg.data_mod \in PatternWords
    <2>1. cfg.data_mod \in Nat \ {0} /\ cfg.data_mod <= PatternDepth /\ counter_gen \in Nat
      BY <1>0 DEF Fields, QueueInv, ReaderTypes
    <2>2. counter_gen % cfg.data_mod \in 0 .. cfg.data_mod - 1
      BY <2>1, ModRange, SMTT(30)
    <2> QED
      BY <2>1, <2>2, BISTAssumption DEF PatternWords
  <1>2. CASE Ready
    BY <1>0, <1>2 DEF QueueInv, ReaderTypes, PatternStep, Ready, TakeData, Fields
  <1>3. CASE p_state = "COMPUTE_MEM_ADDR"
    BY <1>1, <1>3 DEF QueueInv, ReaderTypes, PatternStep, Ready, TakeData
  <1>4. CASE p_state = "WAIT_FOR_DRAM_ADDR"
    BY <1>4 DEF QueueInv, ReaderTypes, PatternStep, Ready, TakeData
  <1>5. CASE p_state = "INVERT_COMPUTE"
    BY <1>5 DEF QueueInv, ReaderTypes, CountInv, PatternStep, Ready, TakeData
  <1>6. CASE p_state = "RD_DATA"
    BY <1>6, SMTT(30), Z3 DEF QueueInv, ReaderTypes, CountInv, PatternStep, Ready, TakeData, Compare
  <1>7. CASE p_state = "WR_ERR"
    BY <1>7 DEF QueueInv, ReaderTypes, PatternStep, Ready, TakeData
  <1> QED
    BY <1>2, <1>3, <1>4, <1>5, <1>6, <1>7 DEF QueueInv, ReaderTypes, Ready

\* How many: one if b, else none.
Count(b) == IF b THEN 1 ELSE 0

\* Both queues are popped together, and pushed in two cycles between which the address
\* waits in dram_addr.
LEMMA QueueTick ==
  ASSUME QueueInv, NEW start \in BOOLEAN, start => Ready, NEW accept \in BOOLEAN,
         NEW answer \in BOOLEAN, AddrStep(start, accept), QueueStep(accept, answer)
  PROVE  /\ address_fifo' \in Seq(Addresses) /\ dma' \in Seq(Addresses)
         /\ address_fifo' = dma' \o (IF a_state' = "PUSH_TO_DMA" THEN <<dram_addr'>> ELSE <<>>)
         /\ Len(dma') = Len(dma) - Count(TakeData(answer))
                                 + Count(PushDma(accept))
         /\ Len(address_fifo') = Len(address_fifo) - Count(TakeData(answer))
                                                   + Count(PushFifo)
         /\ ~TakeData(answer) /\ address_fifo # <<>> => address_fifo' # <<>>
  <1> DEFINE rest(q) == IF TakeData(answer) THEN Tail(q) ELSE q
             waiting == IF a_state = "PUSH_TO_DMA" THEN <<dram_addr>> ELSE <<>>
  <1>1. /\ address_fifo' = IF PushFifo THEN Append(rest(address_fifo), dram_addr) ELSE rest(address_fifo)
        /\ dma' = IF PushDma(accept) THEN Append(rest(dma), dram_addr) ELSE rest(dma)
    BY DEF QueueStep
  <1>2. /\ address_fifo \in Seq(Addresses) /\ dma \in Seq(Addresses) /\ waiting \in Seq(Addresses)
        /\ dram_addr \in Addresses
    BY DEF QueueInv, ReaderTypes
  <1>3. address_fifo = dma \o waiting
    BY DEF QueueInv, QueuesInStep
  <1>4. /\ rest(dma) \in Seq(Addresses) /\ rest(address_fifo) \in Seq(Addresses)
        /\ rest(address_fifo) = rest(dma) \o waiting
        /\ Len(rest(dma)) = Len(dma) - Count(TakeData(answer))
        /\ Len(rest(address_fifo)) = Len(address_fifo) - Count(TakeData(answer))
    <2>1. CASE TakeData(answer)
      <3>1. dma # <<>> /\ Count(TakeData(answer)) = 1
        BY <2>1 DEF TakeData, Count
      <3>2. address_fifo # <<>> /\ Tail(address_fifo) = Tail(dma) \o waiting
        BY <1>2, <1>3, <3>1, TailConcat
      <3> QED
        BY <1>2, <2>1, <3>1, <3>2, TailProperties, Zenon
    <2>2. CASE ~TakeData(answer)
      <3>1. Count(TakeData(answer)) = 0
        BY <2>2 DEF Count
      <3> QED
        BY <1>2, <1>3, <2>2, <3>1
    <2> QED
      BY <2>1, <2>2, Zenon
  <1> HIDE DEF rest
  <1>c. /\ Count(TakeData(answer)) \in {0, 1}
        /\ Count(PushFifo) = IF PushFifo THEN 1 ELSE 0
        /\ Count(PushDma(accept)) = IF PushDma(accept) THEN 1 ELSE 0
    BY DEF Count
  <1>5. CASE PushFifo
    <2>1. waiting = <<>> /\ ~PushDma(accept) /\ a_state' = "PUSH_TO_DMA" /\ dram_addr' = dram_addr
      BY <1>5 DEF PushFifo, PushDma, AddrStep
    <2>2. rest(address_fifo) = rest(dma)
      BY <1>4, <2>1
    <2>3. dma' = rest(dma) /\ address_fifo' = Append(rest(dma), dram_addr)
      BY <1>1, <1>5, <2>1, <2>2
    <2>4. /\ address_fifo' \in Seq(Addresses) /\ address_fifo' = dma' \o <<dram_addr>>
          /\ Len(address_fifo') = Len(rest(dma)) + 1 /\ address_fifo' # <<>>
      BY <1>2, <1>4, <2>3, AppendProperties, SMTT(30)
    <2>5. Len(dma) \in Nat /\ Len(address_fifo) \in Nat
      BY <1>2
    <2>6. Len(dma') = Len(dma) - Count(TakeData(answer)) + Count(PushDma(accept))
      BY <1>c, <1>4, <2>1, <2>3, <2>5
    <2>7. Len(address_fifo') = Len(address_fifo) - Count(TakeData(answer))
                               + Count(PushFifo)
      BY <1>c, <1>4, <1>5, <2>2, <2>4, <2>5
    <2> QED
      BY <1>4, <2>1, <2>3, <2>4, <2>6, <2>7
  <1>6. CASE PushDma(accept)
    <2>1. waiting = <<dram_addr>> /\ ~PushFifo /\ a_state' = "COMPUTE_MEM_ADDR"
      BY <1>6 DEF PushFifo, PushDma, AddrStep
    <2>2. rest(address_fifo) = Append(rest(dma), dram_addr)
      BY <1>2, <1>4, <2>1, AppendProperties
    <2>3. dma' = Append(rest(dma), dram_addr) /\ address_fifo' = rest(address_fifo)
      BY <1>1, <1>6, <2>1
    <2>4. dma' \in Seq(Addresses) /\ Len(dma') = Len(rest(dma)) + 1 /\ dma' # <<>> /\ address_fifo' = dma'
      BY <1>2, <1>4, <2>2, <2>3, AppendProperties
    <2>5. Len(dma) \in Nat /\ Len(address_fifo) \in Nat /\ Len(address_fifo') = Len(rest(address_fifo))
      BY <1>2, <2>3
    <2>6. /\ Len(dma') = Len(dma) - Count(TakeData(answer)) + Count(PushDma(accept))
          /\ Len(address_fifo') = Len(address_fifo) - Count(TakeData(answer)) + Count(PushFifo)
      BY <1>c, <1>4, <1>6, <2>1, <2>4, <2>5
    <2>7. address_fifo' = dma' \o <<>>
      BY <2>4
    <2> QED
      BY <2>1, <2>4, <2>6, <2>7
  <1>7. CASE ~PushFifo /\ ~PushDma(accept)
    <2>1. (a_state' = "PUSH_TO_DMA") = (a_state = "PUSH_TO_DMA")
      BY <1>7 DEF AddrStep, QueueInv, ReaderTypes
    <2>2. a_state = "PUSH_TO_DMA" => dram_addr' = dram_addr
      BY DEF AddrStep
    <2>3. address_fifo' = rest(address_fifo) /\ dma' = rest(dma)
      BY <1>1, <1>7
    <2>4. waiting = IF a_state' = "PUSH_TO_DMA" THEN <<dram_addr'>> ELSE <<>>
      BY <2>1, <2>2
    <2>5. ~TakeData(answer) => address_fifo' = address_fifo
      BY <2>3 DEF rest
    <2>6. address_fifo' = dma' \o waiting
      BY <1>4, <2>3
    <2>7. address_fifo' = dma' \o (IF a_state' = "PUSH_TO_DMA" THEN <<dram_addr'>> ELSE <<>>)
      BY <2>4, <2>6, Zenon
    <2>8. Len(dma) \in Nat /\ Len(address_fifo) \in Nat
      BY <1>2
    <2>9. /\ Len(dma') = Len(dma) - Count(TakeData(answer))
                                 + Count(PushDma(accept))
          /\ Len(address_fifo') = Len(address_fifo) - Count(TakeData(answer))
                                                   + Count(PushFifo)
      BY <1>c, <1>4, <1>7, <2>3, <2>8
    <2>10. address_fifo' \in Seq(Addresses) /\ dma' \in Seq(Addresses)
      BY <1>4, <2>3
    <2> QED
      BY <2>5, <2>7, <2>9, <2>10
  <1> QED
    BY <1>5, <1>6, <1>7

\* A clock cycle of the reader keeps its queues in step.
LEMMA QueueInvTick ==
  ASSUME QueueInv, NEW start \in BOOLEAN, start => Ready, NEW cont \in BOOLEAN,
         NEW accept \in BOOLEAN, NEW answer \in BOOLEAN, Tick(start, cont, accept, answer)
  PROVE  QueueInv'
  <1> USE DEF Tick
  <1> DEFINE taken == Count(TakeData(answer))
             pushed == Count(PushDma(accept))
  <1>0. Fields(cfg) /\ UNCHANGED <<cfg, dram, skip_fifo>>
    BY ConfigTyped DEF QueueInv, ReaderTypes
  <1>1. /\ AddrInv' /\ mem_addr' \in PatternWords /\ dram_addr' \in Addresses
        /\ a_state' \in AddrStates /\ counter_addr' \in Nat
    BY <1>0, AddrTick
  <1>2. /\ p_state' \in PatternStates /\ counter_gen' \in Nat /\ data_mem_addr' \in PatternWords
        /\ wait_counter' \in Nat /\ error_count' \in Nat
        /\ TakeData(answer) => counter_gen' = counter_gen + 1 /\ p_state' \in {"COMPUTE_MEM_ADDR", "WR_ERR"}
        /\ ~TakeData(answer) /\ ~(Ready /\ start) => counter_gen' = counter_gen
        /\ Ready /\ start => counter_gen' = 0 /\ p_state' = "COMPUTE_MEM_ADDR"
        /\ Ready /\ ~start => Ready'
        /\ Ready' /\ ~Ready => p_state = "COMPUTE_MEM_ADDR" /\ counter_gen >= cfg.count
        /\ p_state' \in {"INVERT_COMPUTE", "RD_DATA"} => address_fifo # <<>> /\ ~TakeData(answer)
    BY <1>0, PatternPlace
  <1>3. /\ address_fifo' \in Seq(Addresses) /\ dma' \in Seq(Addresses)
        /\ address_fifo' = dma' \o (IF a_state' = "PUSH_TO_DMA" THEN <<dram_addr'>> ELSE <<>>)
        /\ Len(dma') = Len(dma) - taken + pushed
        /\ Len(address_fifo') = Len(address_fifo) - taken + Count(PushFifo)
        /\ ~TakeData(answer) /\ address_fifo # <<>> => address_fifo' # <<>>
    BY QueueTick
  <1>4. ReaderTypes'
    BY <1>0, <1>1, <1>2, <1>3 DEF QueueInv, ReaderTypes
  <1>5. Len(dma) \in Nat /\ Len(address_fifo) \in Nat /\ counter_addr \in Nat /\ counter_gen \in Nat
        /\ cfg.count \in Nat /\ a_state \in AddrStates
    BY <1>0 DEF QueueInv, ReaderTypes, Fields
  <1>c. /\ taken = IF TakeData(answer) THEN 1 ELSE 0
        /\ pushed = IF PushDma(accept) THEN 1 ELSE 0
        /\ Count(PushFifo) \in {0, 1}
    BY DEF Count
  <1>t. taken \in {0, 1} /\ pushed \in {0, 1}
    BY DEF Count
  <1> HIDE DEF taken, pushed
  <1>6. CASE Ready
    <2>1. a_state = "READY" /\ dma = <<>> /\ address_fifo = <<>> /\ ~TakeData(answer) /\ ~PushFifo
          /\ ~PushDma(accept)
      BY <1>6 DEF QueueInv, QueuesInStep, TakeData, PushFifo, PushDma, Ready
    <2>2. dma' = <<>> /\ address_fifo' = <<>>
      BY <2>1 DEF QueueStep
    <2>3. CASE start
      <3>1. a_state' = "COMPUTE_MEM_ADDR" /\ counter_addr' = 0
        BY <2>1, <2>3 DEF AddrStep
      <3>2. counter_gen' = 0 /\ p_state' = "COMPUTE_MEM_ADDR"
        BY <1>2, <1>6, <2>3
      <3> QED
        BY <1>0, <1>1, <1>3, <1>4, <1>5, <2>2, <3>1, <3>2
           DEF QueueInv, CountInv, FifoInv, QueuesInStep, Ready
    <2>4. CASE ~start
      <3>1. a_state' = "READY"
        BY <2>1, <2>4 DEF AddrStep
      <3> QED
        BY <1>1, <1>2, <1>3, <1>4, <1>6, <2>2, <2>4, <3>1
           DEF QueueInv, CountInv, FifoInv, QueuesInStep, Ready
    <2> QED
      BY <2>3, <2>4
  <1>7. CASE ~Ready
    <2>1. ~start /\ counter_gen' = counter_gen + taken
      BY <1>2, <1>5, <1>7, <1>c
    <2>2. /\ counter_addr = counter_gen + Len(dma) /\ counter_addr <= cfg.count
          /\ a_state \notin {"READY", "COMPUTE_MEM_ADDR"} => counter_addr < cfg.count
          /\ a_state = "READY" => counter_addr = cfg.count
      BY <1>7 DEF QueueInv, CountInv
    <2>2a. \/ /\ a_state = "READY" /\ a_state' = "READY" /\ counter_addr' = counter_addr /\ ~PushDma(accept)
           \/ /\ a_state = "COMPUTE_MEM_ADDR" /\ counter_addr' = counter_addr /\ ~PushDma(accept)
              /\ a_state' = IF counter_addr >= cfg.count THEN "READY" ELSE "WAIT_FOR_DRAM_ADDR"
           \/ /\ a_state \in {"WAIT_FOR_DRAM_ADDR", "COMPUTE_DRAM_ADDR", "PUSH_TO_FIFO", "PUSH_TO_DMA"}
              /\ a_state' \in {"COMPUTE_DRAM_ADDR", "PUSH_TO_FIFO", "PUSH_TO_DMA"}
              /\ counter_addr' = counter_addr /\ ~PushDma(accept)
           \/ /\ a_state = "PUSH_TO_DMA" /\ a_state' = "COMPUTE_MEM_ADDR"
              /\ counter_addr' = counter_addr + 1 /\ PushDma(accept)
      BY <2>1, ZenonT(30) DEF AddrStep, PushDma
    <2>3. /\ counter_addr' = counter_addr + pushed
          /\ counter_addr' <= cfg.count
          /\ a_state' \notin {"READY", "COMPUTE_MEM_ADDR"} => counter_addr' < cfg.count
          /\ a_state' = "READY" => counter_addr' = cfg.count
          /\ a_state \in {"READY", "COMPUTE_MEM_ADDR"} /\ counter_addr >= cfg.count => a_state' = "READY"
      BY <1>5, <1>c, <2>2, <2>2a
    <2>4. counter_addr' = counter_gen' + Len(dma')
      BY <1>3, <1>5, <1>t, <2>1, <2>2, <2>3
    <2>5. CountInv'
      BY <1>0, <1>2, <1>3, <2>3, <2>4, SMTT(30) DEF CountInv
    <2>6. ASSUME Ready' PROVE a_state' = "READY" /\ dma' = <<>>
      <3>1. counter_gen >= cfg.count /\ ~TakeData(answer)
        BY <1>2, <1>7, <2>6 DEF TakeData
      <3>2. Len(dma) = 0 /\ counter_addr >= cfg.count
        BY <1>5, <2>2, <3>1
      <3>3. a_state \in {"READY", "COMPUTE_MEM_ADDR"} /\ a_state' = "READY"
        BY <1>5, <2>2, <2>3, <3>2 DEF AddrStates
      <3>4. Len(dma') = 0
        BY <1>3, <1>c, <3>1, <3>2, <3>3 DEF PushDma
      <3> QED
        BY <1>3, <3>3, <3>4
    <2>7. FifoInv'
      <3> DEFINE rest == IF TakeData(answer) THEN Tail(address_fifo) ELSE address_fifo
      <3>1. address_fifo \in Seq(Addresses) /\ dram_addr \in Addresses
        BY DEF QueueInv, ReaderTypes
      <3>2. TakeData(answer) => address_fifo # <<>>
        BY DEF TakeData, QueueInv, CountInv
      <3>3. /\ rest \in Seq(Addresses) /\ Len(rest) = Len(address_fifo) - taken
            /\ \A i \in 1 .. Len(rest) : rest[i] = address_fifo[i + taken]
        BY <1>5, <1>c, <3>1, <3>2, TailProperties
      <3>4. ASSUME NEW i \in 1 .. Len(rest)
            PROVE  rest[i] = TransferAddr(cfg, counter_gen' + i - 1)
        <4>1. i + taken \in 1 .. Len(address_fifo)
          BY <1>5, <1>t, <3>3
        <4>2. address_fifo[i + taken] = TransferAddr(cfg, counter_gen + (i + taken) - 1)
          BY <4>1 DEF QueueInv, FifoInv
        <4>3. counter_gen + (i + taken) - 1 = counter_gen' + i - 1
          BY <1>5, <1>t, <2>1, <3>3
        <4> QED
          BY <3>3, <4>2, <4>3
      <3>5. CASE ~PushFifo
        BY <1>0, <3>4, <3>5 DEF QueueStep, FifoInv
      <3>6. CASE PushFifo
        <4>1. a_state = "PUSH_TO_FIFO" /\ dram_addr = TransferAddr(cfg, counter_addr)
          BY <3>6 DEF PushFifo, QueueInv, AddrInv
        <4>2. Len(address_fifo) = Len(dma)
          BY <4>1 DEF QueueInv, QueuesInStep, ReaderTypes
        <4>3. address_fifo' = Append(rest, dram_addr)
          BY <3>6 DEF QueueStep
        <4> HIDE DEF rest
        <4>4. counter_addr = counter_gen' + (Len(rest) + 1) - 1
          BY <1>5, <1>t, <2>1, <2>2, <3>3, <4>2
        <4>5. /\ Len(address_fifo') = Len(rest) + 1 /\ Len(rest) \in Nat
              /\ \A i \in 1 .. Len(rest) : address_fifo'[i] = rest[i]
              /\ address_fifo'[Len(rest) + 1] = dram_addr
          BY <3>1, <3>3, <4>3, AppendProperties
        <4>6. ASSUME NEW i \in 1 .. Len(address_fifo')
              PROVE  address_fifo'[i] = TransferAddr(cfg, counter_gen' + i - 1)
          <5>1. CASE i = Len(rest) + 1
            BY <4>1, <4>4, <4>5, <5>1
          <5>2. CASE i # Len(rest) + 1
            <6>1. i \in 1 .. Len(rest)
              BY <4>5, <5>2
            <6> QED
              BY <3>4, <4>5, <6>1
          <5> QED
            BY <5>1, <5>2
        <4> QED
          BY <1>0, <4>6 DEF FifoInv
      <3> QED
        BY <3>5, <3>6
    <2> QED
      BY <1>1, <1>3, <1>4, <2>5, <2>6, <2>7 DEF QueueInv, QueuesInStep
  <1> QED
    BY <1>6, <1>7
-----------------------------------------------------------------------------
\* The address the inverter looks at, while its result counts.
LEMMA HeadAddress ==
  ASSUME QueueInv, p_state \in {"INVERT_COMPUTE", "RD_DATA"}
  PROVE  FifoHead = TransferAddr(cfg, counter_gen)
  <1>1. address_fifo # <<>> /\ address_fifo \in Seq(Addresses) /\ counter_gen \in Nat
    BY DEF QueueInv, CountInv, ReaderTypes
  <1>2. 1 \in 1 .. Len(address_fifo) /\ Head(address_fifo) = address_fifo[1]
    BY <1>1, TailProperties
  <1>3. address_fifo[1] = TransferAddr(cfg, counter_gen + 1 - 1)
    BY <1>2 DEF QueueInv, FifoInv
  <1>4. counter_gen + 1 - 1 = counter_gen
    BY <1>1
  <1> QED
    BY <1>1, <1>2, <1>3, <1>4 DEF FifoHead

\* A clock edge of the pattern FSM keeps the expected data right.
LEMMA PatternTick ==
  ASSUME QueueInv, OneWord, PatternInv, NEW start \in BOOLEAN, start => Ready, NEW answer \in BOOLEAN,
         PatternStep(start, answer), UNCHANGED cfg
  PROVE  PatternInv'
  <1>0. cfg \in Configs /\ counter_gen \in Nat /\ wait_counter \in Nat /\ p_state \in PatternStates
    BY DEF QueueInv, ReaderTypes
  <1>1. cfg.modulo => TransferWord(cfg, counter_gen) = 0
    <2>1. counter_gen % 1 = 0
      BY <1>0
    <2> QED
      BY <2>1 DEF OneWord, TransferWord
  <1>2. /\ data_dat' = cfg.data[data_mem_addr]
        /\ inv'.decoder = Row(FifoHead) % cfg.divisor
        /\ inv'.selected = (inv.decoder \in cfg.selection)
        /\ inv'.out = Invert(data_dat, inv.selected)
    BY ZenonT(30) DEF PatternStep, InverterNext
  <1>3. CASE Ready
    BY <1>3, Zenon DEF PatternStep, PatternInv, Ready
  <1>4. CASE p_state = "COMPUTE_MEM_ADDR"
    <2>1. ~cfg.modulo => TransferWord(cfg, counter_gen) = counter_gen % cfg.data_mod
      BY DEF TransferWord
    <2> QED
      BY <1>1, <1>4, <2>1, Zenon DEF PatternStep, PatternInv, Ready
  <1>5. CASE p_state = "WAIT_FOR_DRAM_ADDR"
    <2>1. /\ p_state' \in {"WAIT_FOR_DRAM_ADDR", "INVERT_COMPUTE"}
          /\ p_state' = "INVERT_COMPUTE" => wait_counter' = 0
          /\ data_mem_addr' = data_mem_addr /\ counter_gen' = counter_gen
      BY <1>5, ZenonT(30) DEF PatternStep
    <2>2. (cfg.modulo => data_mem_addr = 0) /\ data_mem_addr = TransferWord(cfg, counter_gen)
      BY <1>5, ZenonT(30) DEF PatternInv, Ready
    <2>3. /\ p_state' # "RD_DATA"
          /\ p_state' = "INVERT_COMPUTE" =>
               ~ (wait_counter' >= 1) /\ ~ (wait_counter' >= 2) /\ ~ (wait_counter' >= 3)
      BY <2>1, SMTT(30)
    <2>4. data_dat' = cfg.data[data_mem_addr']
      BY <1>2, <2>1, Zenon
    <2> QED
      BY <2>1, <2>2, <2>3, <2>4, Zenon DEF PatternInv
  <1>6. CASE p_state = "INVERT_COMPUTE"
    <2>1. FifoHead = TransferAddr(cfg, counter_gen)
      BY <1>6, HeadAddress
    <2>2. data_dat = cfg.data[TransferWord(cfg, counter_gen)]
      BY <1>6 DEF PatternInv
    <2>3. /\ wait_counter' = wait_counter + 1 /\ data_mem_addr' = data_mem_addr /\ counter_gen' = counter_gen
          /\ p_state' = IF wait_counter = 2 THEN "RD_DATA" ELSE "INVERT_COMPUTE"
      BY <1>6, ZenonT(30) DEF PatternStep
    <2> DEFINE a == TransferAddr(cfg, counter_gen)
               decoder == Row(a) % cfg.divisor
    <2>4. /\ (cfg.modulo => data_mem_addr = 0) /\ data_mem_addr = TransferWord(cfg, counter_gen)
          /\ data_dat = cfg.data[data_mem_addr]
          /\ wait_counter >= 1 => inv.decoder = decoder
          /\ wait_counter >= 2 => inv.selected = (decoder \in cfg.selection)
      BY <1>6, ZenonT(30) DEF PatternInv, Ready
    <2>5. inv'.decoder = decoder
      BY <1>2, <2>1, Zenon
    <2>6. wait_counter' >= 2 => inv'.selected = (decoder \in cfg.selection)
      <3>1. wait_counter' >= 2 => wait_counter >= 1
        BY <1>0, <2>3, SMTT(30)
      <3> QED
        BY <1>2, <2>4, <3>1, Zenon
    <2>7. wait_counter' >= 3 => inv'.out = TransferData(cfg, counter_gen)
      <3>1. wait_counter' >= 3 => wait_counter >= 2
        BY <1>0, <2>3, SMTT(30)
      <3> QED
        BY <1>2, <2>2, <2>4, <3>1, Zenon DEF TransferData
    <2>8. p_state' = "RD_DATA" => wait_counter' >= 2 /\ wait_counter' >= 3
      BY <2>3, SMTT(30)
    <2>9. data_dat' = cfg.data[data_mem_addr']
      BY <1>2, <2>3, Zenon
    <2> QED
      BY <2>3, <2>4, <2>5, <2>6, <2>7, <2>8, <2>9, Zenon DEF PatternInv
  <1>7. CASE p_state = "RD_DATA" /\ p_state' = "RD_DATA"
    <2>1. FifoHead = TransferAddr(cfg, counter_gen) /\ counter_gen' = counter_gen
      BY <1>7, HeadAddress, ZenonT(30) DEF PatternStep, Compare, TakeData
    <2>2. data_dat = cfg.data[TransferWord(cfg, counter_gen)]
      BY <1>7, ZenonT(30) DEF PatternInv
    <2> QED
      BY <1>0, <1>2, <1>7, <2>1, <2>2, Zenon DEF PatternStep, PatternInv, Ready, TransferData
  <1>8. CASE p_state = "RD_DATA" /\ p_state' # "RD_DATA"
    BY <1>8, Zenon DEF PatternStep, PatternInv, Ready, Compare
  <1>9. CASE p_state = "WR_ERR"
    BY <1>9, Zenon DEF PatternStep, PatternInv, Ready
  <1> QED
    BY <1>0, <1>3, <1>4, <1>5, <1>6, <1>7, <1>8, <1>9 DEF PatternStates, Ready

\* What a comparison compares.
LEMMA Compared ==
  ASSUME ReaderInv, NEW answer \in BOOLEAN, TakeData(answer)
  PROVE  /\ inv.out = TransferData(cfg, counter_gen)
         /\ FifoHead = TransferAddr(cfg, counter_gen) /\ Head(dma) = TransferAddr(cfg, counter_gen)
  <1>1. p_state = "RD_DATA" /\ dma # <<>>
    BY DEF TakeData
  <1>2. inv.out = TransferData(cfg, counter_gen)
    BY <1>1, ZenonT(30) DEF ReaderInv, PatternInv
  <1>3. FifoHead = TransferAddr(cfg, counter_gen) /\ address_fifo # <<>>
    BY <1>1, HeadAddress DEF ReaderInv, QueueInv, CountInv
  <1>4. Head(address_fifo) = Head(dma)
    <2>1. dma \in Seq(Addresses) /\ dram_addr \in Addresses
      BY DEF ReaderInv, QueueInv, ReaderTypes
    <2>2. (IF a_state = "PUSH_TO_DMA" THEN <<dram_addr>> ELSE <<>>) \in Seq(Addresses)
      BY <2>1
    <2> QED
      BY <1>1, <2>1, <2>2, TailConcat DEF ReaderInv, QueueInv, QueuesInStep
  <1> QED
    BY <1>2, <1>3, <1>4 DEF FifoHead

\* The invariant of the reader over a clock edge, a new configuration while it is ready
\* and a write of skip_fifo.
LEMMA ReaderTick ==
  ASSUME ReaderInv, NEW start \in BOOLEAN, start => Ready, NEW cont \in BOOLEAN,
         NEW accept \in BOOLEAN, NEW answer \in BOOLEAN, Tick(start, cont, accept, answer)
  PROVE  ReaderInv'
  <1>1. PatternStep(start, answer) /\ UNCHANGED <<cfg, dram>>
    BY DEF Tick
  <1>2. QueueInv'
    BY QueueInvTick DEF ReaderInv
  <1>3. PatternInv'
    BY <1>1, PatternTick DEF ReaderInv
  <1> QED
    BY <1>1, <1>2, <1>3 DEF ReaderInv, OneWord

\* New CSR values reach a reader whose queues are empty.
LEMMA QueueConfigure ==
  ASSUME QueueInv, NEW c \in Configs, NEW d \in [Addresses -> Bit], Configure(c, d)
  PROVE  QueueInv'
  <1>1. a_state = "READY" /\ dma = <<>> /\ address_fifo = <<>> /\ p_state = "READY"
    BY DEF Configure, Ready, QueueInv, QueuesInStep
  <1> QED
    BY <1>1 DEF QueueInv, ReaderTypes, AddrInv, CountInv, FifoInv, QueuesInStep, Ready,
                Configure, addrVars, patternVars

\* The same with the state of the data pattern.
LEMMA ReaderConfigure ==
  ASSUME ReaderInv, NEW c \in Configs, c.modulo => c.data_div = 0, NEW d \in [Addresses -> Bit],
         Configure(c, d)
  PROVE  ReaderInv'
  <1>1. QueueInv'
    BY QueueConfigure DEF ReaderInv
  <1>2. p_state = "READY" /\ p_state' = "READY" /\ cfg' = c
    BY DEF Configure, Ready, patternVars
  <1> QED
    BY <1>1, <1>2, ZenonT(30) DEF ReaderInv, PatternInv, OneWord, Ready

\* Nothing but skip_fifo and the errors depends on skip_fifo.
LEMMA SkipFifoKeeps ==
  ASSUME ReaderInv, UNCHANGED <<cfg, dram, addrVars, address_fifo, dma, patternVars>>,
         skip_fifo' \in BOOLEAN
  PROVE  ReaderInv'
  BY ZenonT(30) DEF ReaderInv, OneWord, PatternInv, QueueInv, ReaderTypes, AddrInv, CountInv,
         FifoInv, QueuesInStep, Ready, addrVars, patternVars

\* Setting skip_fifo alone disturbs no queue.
LEMMA QueueKeeps ==
  ASSUME QueueInv, UNCHANGED <<cfg, dram, addrVars, address_fifo, dma, patternVars>>,
         skip_fifo' \in BOOLEAN
  PROVE  QueueInv'
  BY ZenonT(30) DEF QueueInv, ReaderTypes, AddrInv, CountInv, FifoInv, QueuesInStep, Ready, addrVars, patternVars

\* The reader as the FPGA starts it.
LEMMA QueueInit ==
  ASSUME Init
  PROVE  QueueInv
  <1>1. Fields(cfg)
    BY ReaderAssumption, ConfigTyped DEF Init
  <1>2. 0 \in Addresses
    BY BISTAssumption DEF Addresses
  <1>3. ReaderTypes
    <2>1. cfg \in Configs /\ dram \in [Addresses -> Bit] /\ 0 \in PatternWords
      BY <1>1, ReaderAssumption DEF Init, Fields
    <2>2. address_fifo \in Seq(Addresses) /\ dma \in Seq(Addresses)
      BY DEF Init
    <2> QED
      BY <1>2, <2>1, <2>2 DEF Init, ReaderTypes, AddrStates, PatternStates
  <1>4. QueuesInStep
    BY DEF Init, QueuesInStep, Ready
  <1>5. AddrInv /\ CountInv /\ FifoInv
    BY DEF Init, AddrInv, CountInv, FifoInv, Ready
  <1> QED
    BY <1>3, <1>4, <1>5 DEF QueueInv

\* The reader as the FPGA starts it, with the state of the data pattern.
LEMMA ReaderInit ==
  ASSUME Init, OneWord
  PROVE  ReaderInv
  BY QueueInit, Zenon DEF Init, ReaderInv, PatternInv, Ready

(***************************************************************************)
(* The data the DMA returns next is the data of the address whose pattern  *)
(* it is compared with, and a ready reader is ready as a whole.            *)
(***************************************************************************)
THEOREM QueuesStayInStep == Spec => []QueuesInStep
  <1>1. Init => QueueInv
    BY QueueInit
  <1>2. QueueInv /\ [Next]_vars => QueueInv'
    <2> SUFFICES ASSUME QueueInv, [Next]_vars PROVE QueueInv'
      OBVIOUS
    <2>1. CASE Clock
      BY <2>1, QueueInvTick, ZenonT(30) DEF Clock, Starts, Ready
    <2>2. ASSUME NEW c \in ReaderConfigs, NEW d \in Contents, Configure(c, d) PROVE QueueInv'
      BY <2>2, ReaderAssumption, QueueConfigure
    <2>3. ASSUME NEW b \in BOOLEAN, SetSkipFifo(b) PROVE QueueInv'
      BY <2>3, QueueKeeps DEF SetSkipFifo
    <2>4. CASE UNCHANGED vars
      BY <2>4, QueueKeeps DEF vars, QueueInv, ReaderTypes
    <2> QED
      BY <2>1, <2>2, <2>3, <2>4 DEF Next, Host
  <1>3. QueueInv => QueuesInStep
    BY DEF QueueInv
  <1> QED
    BY <1>1, <1>2, <1>3, PTL DEF Spec
-----------------------------------------------------------------------------
(***************************************************************************)
(* The writer.                                                             *)
(***************************************************************************)
WriterStates == {"READY", "COMPUTE_MEM_ADDR", "WAIT_FOR_DRAM_ADDR", "COMPUTE_DRAM_ADDR",
                 "INVERT_COMPUTE", "SEND"}

WriterTypes ==
  /\ w_cfg \in Configs /\ w_state \in WriterStates
  /\ cmd_counter \in Nat /\ w_mem_addr \in PatternWords /\ w_wait_counter \in Nat
  /\ sent \in Seq(Addresses \X Bit)

(***************************************************************************)
(* What the registers of the writer hold in each state of the transfer     *)
(* cmd_counter: the pattern ports follow w_mem_addr after one cycle, and   *)
(* the inverter follows w_dram_addr after three, which w_wait_counter      *)
(* counts.                                                                 *)
(***************************************************************************)
InverterInv ==
  LET a == TransferAddr(w_cfg, cmd_counter)
      decoder == Row(a) % w_cfg.divisor
      waited(n) == w_state = "SEND" \/ w_wait_counter >= n
  IN  w_state \in {"INVERT_COMPUTE", "SEND"} =>
        /\ w_dram_addr = a
        /\ waited(1) => w_inv.decoder = decoder
        /\ waited(2) => w_inv.selected = (decoder \in w_cfg.selection)
        /\ waited(3) => w_inv.out = TransferData(w_cfg, cmd_counter)

WordInv ==
  /\ w_state # "READY" /\ w_cfg.modulo => w_mem_addr = TransferWord(w_cfg, cmd_counter)
  /\ w_state \notin {"READY", "COMPUTE_MEM_ADDR"} => w_mem_addr = TransferWord(w_cfg, cmd_counter)
  /\ w_state \in {"COMPUTE_DRAM_ADDR", "INVERT_COMPUTE", "SEND"} =>
       w_addr_dat = w_cfg.addr[w_mem_addr] /\ w_data_dat = w_cfg.data[w_mem_addr]

\* WritesPattern of the writer, with the operators of the reader.
Written ==
  w_state # "READY" =>
    /\ Len(sent) = cmd_counter
    /\ \A k \in 1 .. Len(sent) :
         sent[k] = <<TransferAddr(w_cfg, k - 1), TransferData(w_cfg, k - 1)>>

WriterInv == WriterTypes /\ WordInv /\ InverterInv /\ Written

\* What the writer calls a transfer is what the reader does, and so is the inverter.
LEMMA SameTransfer ==
  ASSUME NEW c, NEW k
  PROVE  /\ W!TransferAddr(c, k) = TransferAddr(c, k) /\ W!TransferData(c, k) = TransferData(c, k)
         /\ W!NextWord(c, k) = NextWord(c, k)
  BY ZenonT(30) DEF W!TransferAddr, TransferAddr, W!TransferData, TransferData, W!TransferWord, TransferWord,
         W!Invert, Invert, W!Row, Row, W!NextWord, NextWord

\* The writer's inverter is the reader's.
LEMMA SameInverter ==
  ASSUME NEW c, NEW i, NEW a, NEW word
  PROVE  W!InverterNext(c, i, a, word) = InverterNext(c, i, a, word)
  BY ZenonT(30) DEF W!InverterNext, InverterNext, W!Row, Row, W!Invert, Invert

\* A clock edge keeps w_mem_addr and the pattern ports right.
LEMMA WordTick ==
  ASSUME WriterTypes, WordInv, NEW start, NEW taken, W!Tick(start, taken)
  PROVE  WordInv' /\ w_mem_addr' \in PatternWords
  <1>1. UNCHANGED w_cfg /\ w_addr_dat' = w_cfg.addr[w_mem_addr] /\ w_data_dat' = w_cfg.data[w_mem_addr]
    BY DEF W!Tick, W!Pipeline
  <1>2. CASE W!Ready(start)
    <2>1. TransferWord(w_cfg, 0) = 0 /\ 0 \in PatternWords
      BY FirstWord, ConfigTyped DEF WriterTypes, Fields
    <2> QED
      BY <1>1, <1>2, <2>1, ZenonT(30) DEF W!Ready, WordInv, WriterTypes
  <1>3. CASE W!ComputeMemAddr
    <2>1. TransferWord(w_cfg, cmd_counter) \in PatternWords
      BY TransferTyped DEF WriterTypes
    <2>2. w_mem_addr' = TransferWord(w_cfg, cmd_counter)
      BY <1>3 DEF W!ComputeMemAddr, WordInv, TransferWord
    <2> QED
      BY <1>1, <1>3, <2>1, <2>2 DEF W!ComputeMemAddr, WordInv
  <1>4. CASE W!WaitForDramAddr \/ W!ComputeDramAddr \/ W!InvertCompute
    BY <1>1, <1>4, ZenonT(30) DEF W!WaitForDramAddr, W!ComputeDramAddr, W!InvertCompute, WordInv, WriterTypes
  <1>5. CASE W!Send(taken)
    <2>1. /\ NextWord(w_cfg, w_mem_addr) \in PatternWords
          /\ w_cfg.modulo => NextWord(w_cfg, w_mem_addr) = TransferWord(w_cfg, cmd_counter + 1)
      BY <1>5, NextWordRight, Zenon DEF W!Send, WordInv, WriterTypes
    <2> QED
      BY <1>1, <1>5, <2>1, SameTransfer, ZenonT(30) DEF W!Send, WordInv, WriterTypes
  <1> QED
    BY <1>2, <1>3, <1>4, <1>5 DEF W!Tick, W!Step

\* ... and the inverter, one register after the other.
LEMMA InverterTick ==
  ASSUME WriterTypes, WordInv, InverterInv, NEW start, NEW taken, W!Tick(start, taken)
  PROVE  InverterInv'
  <1>1. UNCHANGED w_cfg /\ w_inv' = InverterNext(w_cfg, w_inv, w_dram_addr, w_data_dat)
    BY SameInverter, ZenonT(30) DEF W!Tick, W!Pipeline
  <1>2. /\ w_inv'.decoder = Row(w_dram_addr) % w_cfg.divisor
        /\ w_inv'.selected = (w_inv.decoder \in w_cfg.selection)
        /\ w_inv'.out = Invert(w_data_dat, w_inv.selected)
    BY <1>1, ZenonT(30) DEF InverterNext
  <1>3. CASE w_state' \notin {"INVERT_COMPUTE", "SEND"}
    BY <1>3, ZenonT(30) DEF InverterInv
  <1>4. CASE W!ComputeDramAddr
    <2>1. w_dram_addr' = TransferAddr(w_cfg, cmd_counter)
      BY <1>4 DEF W!ComputeDramAddr, WordInv, TransferAddr
    <2>2. w_state' = "INVERT_COMPUTE" /\ w_wait_counter' = 0 /\ cmd_counter' = cmd_counter
      BY <1>4, Zenon DEF W!ComputeDramAddr
    <2>3. /\ w_state' # "SEND"
          /\ ~ (w_wait_counter' >= 1) /\ ~ (w_wait_counter' >= 2) /\ ~ (w_wait_counter' >= 3)
      BY <2>2, SMTT(30)
    <2> QED
      BY <1>1, <2>1, <2>2, <2>3, Zenon DEF InverterInv
  <1>5. CASE W!InvertCompute
    <2>1. w_data_dat = w_cfg.data[TransferWord(w_cfg, cmd_counter)]
      BY <1>5 DEF W!InvertCompute, WordInv
    <2>2. /\ w_wait_counter' = w_wait_counter + 1 /\ w_dram_addr' = w_dram_addr /\ cmd_counter' = cmd_counter
          /\ w_state = "INVERT_COMPUTE" /\ w_state' = IF w_wait_counter = 2 THEN "SEND" ELSE w_state
      BY <1>5, Zenon DEF W!InvertCompute
    <2>3. w_wait_counter \in Nat
      BY SMTT(30) DEF WriterTypes
    <2> DEFINE a == TransferAddr(w_cfg, cmd_counter)
               decoder == Row(a) % w_cfg.divisor
    <2>4. /\ w_dram_addr = a
          /\ w_wait_counter >= 1 => w_inv.decoder = decoder
          /\ w_wait_counter >= 2 => w_inv.selected = (decoder \in w_cfg.selection)
      BY <2>2, Zenon DEF InverterInv
    <2>5. w_inv'.decoder = decoder
      BY <1>2, <2>4, Zenon
    <2>6. w_wait_counter' >= 2 => w_inv'.selected = (decoder \in w_cfg.selection)
      <3>1. w_wait_counter' >= 2 => w_wait_counter >= 1
        BY <2>2, <2>3, SMTT(30)
      <3> QED
        BY <1>2, <2>4, <3>1, Zenon
    <2>7. w_wait_counter' >= 3 => w_inv'.out = TransferData(w_cfg, cmd_counter)
      <3>1. w_wait_counter' >= 3 => w_wait_counter >= 2
        BY <2>2, <2>3, SMTT(30)
      <3> QED
        BY <1>2, <2>1, <2>4, <3>1, Zenon DEF TransferData
    <2>8. w_state' = "SEND" => w_wait_counter' >= 2 /\ w_wait_counter' >= 3
      BY <2>2, SMTT(30)
    <2> QED
      BY <1>1, <2>2, <2>4, <2>5, <2>6, <2>7, <2>8, Zenon DEF InverterInv
  <1>6. CASE W!Send(taken) /\ w_state' = "SEND"
    <2>1. w_data_dat = w_cfg.data[TransferWord(w_cfg, cmd_counter)]
      BY <1>6 DEF W!Send, WordInv
    <2> QED
      BY <1>1, <1>2, <1>6, <2>1, Zenon DEF W!Send, InverterInv, TransferData
  <1> QED
    BY <1>3, <1>4, <1>5, <1>6 DEF W!Tick, W!Step, W!Ready, W!ComputeMemAddr, W!WaitForDramAddr, W!Send

\* A clock cycle of the writer keeps its invariant.
LEMMA WriterTick ==
  ASSUME WriterInv, NEW start \in BOOLEAN, NEW taken \in BOOLEAN, W!Tick(start, taken)
  PROVE  WriterInv'
  <1> USE DEF WriterInv
  <1>1. WordInv' /\ InverterInv' /\ w_mem_addr' \in PatternWords /\ UNCHANGED w_cfg
    BY WordTick, InverterTick DEF W!Tick
  <1>2. ASSUME w_state = "SEND", taken
        PROVE  /\ sent' = Append(sent, <<TransferAddr(w_cfg, cmd_counter), TransferData(w_cfg, cmd_counter)>>)
               /\ cmd_counter' = cmd_counter + 1 /\ w_state' = "COMPUTE_MEM_ADDR" /\ UNCHANGED w_wait_counter
    BY <1>2, ZenonT(30) DEF W!Tick, W!Step, W!Send, W!Ready, W!ComputeMemAddr, W!WaitForDramAddr, W!ComputeDramAddr,
                W!InvertCompute, InverterInv
  <1>3. ASSUME ~(w_state = "SEND" /\ taken), ~(w_state = "READY" /\ start)
        PROVE  UNCHANGED <<sent, cmd_counter>> /\ w_state' \in WriterStates /\ w_wait_counter' \in Nat
               /\ (w_state = "READY" => w_state' = "READY")
    BY <1>3 DEF W!Tick, W!Step, W!Send, W!Ready, W!ComputeMemAddr, W!WaitForDramAddr, W!ComputeDramAddr,
                W!InvertCompute, WriterTypes, WriterStates
  <1>4. CASE w_state = "SEND" /\ taken
    <2> DEFINE t == <<TransferAddr(w_cfg, cmd_counter), TransferData(w_cfg, cmd_counter)>>
    <2>1. t \in Addresses \X Bit
      BY TransferTyped DEF WriterTypes
    <2>2. Len(sent) = cmd_counter /\ sent \in Seq(Addresses \X Bit) /\ cmd_counter \in Nat
      BY <1>4, ZenonT(30) DEF Written, WriterTypes
    <2>3. WriterTypes'
      BY <1>1, <1>2, <1>4, <2>1, <2>2, SMTT(30) DEF WriterTypes, WriterStates
    <2>4. Len(sent') = cmd_counter'
      BY <1>2, <1>4, <2>1, <2>2
    <2>5. ASSUME NEW k \in 1 .. Len(sent')
          PROVE  sent'[k] = <<TransferAddr(w_cfg, k - 1), TransferData(w_cfg, k - 1)>>
      <3>1. CASE k = Len(sent')
        BY <1>2, <1>4, <2>1, <2>2, <2>4, <3>1
      <3>2. CASE k # Len(sent')
        <4>1. k \in 1 .. Len(sent) /\ sent'[k] = sent[k]
          BY <1>2, <1>4, <2>1, <2>2, <2>4, <3>2, SMTT(30)
        <4> QED
          BY <1>4, <4>1, ZenonT(30) DEF Written
      <3> QED
        BY <3>1, <3>2
    <2> QED
      BY <1>1, <2>3, <2>4, <2>5, Zenon DEF Written
  <1>5. CASE w_state = "READY" /\ start
    <2>1. sent' = <<>> /\ cmd_counter' = 0 /\ w_state' = "COMPUTE_MEM_ADDR" /\ UNCHANGED w_wait_counter
      BY <1>5 DEF W!Tick, W!Step, W!Send, W!Ready, W!ComputeMemAddr, W!WaitForDramAddr, W!ComputeDramAddr, W!InvertCompute
    <2>2. Len(sent') = cmd_counter' /\ \A k \in 1 .. Len(sent') : FALSE
      BY <2>1
    <2>3. WriterTypes'
      BY <1>1, <2>1 DEF WriterTypes, WriterStates
    <2> QED
      BY <1>1, <2>2, <2>3, Zenon DEF Written
  <1>6. CASE ~(w_state = "SEND" /\ taken) /\ ~(w_state = "READY" /\ start)
    BY <1>1, <1>3, <1>6, Zenon DEF Written, WriterTypes
  <1> QED
    BY <1>4, <1>5, <1>6

\* The host may set another configuration while the writer is ready.
LEMMA WriterConfigure ==
  ASSUME WriterInv, NEW c \in Configs, W!Configure(c)
  PROVE  WriterInv'
  BY Zenon DEF WriterInv, WriterTypes, WordInv, InverterInv, Written, W!Configure, W!fsmVars

\* The writer as the FPGA starts it.
LEMMA WriterStart ==
  ASSUME W!Init
  PROVE  WriterInv
  <1>1. w_cfg \in Configs /\ w_state = "READY"
    BY ReaderAssumption DEF W!Init
  <1>2. 0 \in PatternWords
    BY BISTAssumption DEF PatternWords
  <1>3. WriterTypes
    BY <1>1, <1>2 DEF W!Init, WriterTypes, WriterStates
  <1>4. WordInv /\ InverterInv
    BY <1>1, ZenonT(30) DEF WordInv, InverterInv
  <1>5. Written
    BY <1>1, Zenon DEF Written
  <1> QED
    BY <1>3, <1>4, <1>5 DEF WriterInv

\* What the invariant of the writer is for.
LEMMA WriterRight ==
  ASSUME WriterInv
  PROVE  WritesPattern
  BY SameTransfer, ZenonT(30) DEF WriterInv, Written, WritesPattern, W!WritesPattern

(***************************************************************************)
(* What the DMA is given is the pattern: each transfer, at its address,    *)
(* with its data, inverted or not, whatever the configurations, the starts *)
(* and the stalls of the DMA are, for a host that sets what it likes.      *)
(***************************************************************************)
THEOREM PatternWritten == W!Spec => []WritesPattern
  <1>1. W!Init => WriterInv
    BY WriterStart
  <1>2. WriterInv /\ [W!Next]_W!vars => WriterInv'
    <2> SUFFICES ASSUME WriterInv, [W!Next]_W!vars PROVE WriterInv'
      OBVIOUS
    <2>1. CASE UNCHANGED W!vars
      BY <2>1, Zenon DEF WriterInv, WriterTypes, WordInv, InverterInv, Written, W!vars, W!fsmVars
    <2>2. CASE W!Clock
      BY <2>2, WriterTick DEF W!Clock
    <2>3. ASSUME NEW c \in ReaderConfigs, W!Configure(c) PROVE WriterInv'
      BY <2>3, ReaderAssumption, WriterConfigure
    <2> QED
      BY <2>1, <2>2, <2>3 DEF W!Next
  <1>3. WriterInv => WritesPattern
    BY WriterRight
  <1> QED
    BY <1>1, <1>2, <1>3, PTL DEF W!Spec

\* A clock edge sends the word of transfer cmd_counter or leaves DRAM as it is.
LEMMA WriterMoves ==
  ASSUME WriterInv, NEW start \in BOOLEAN, NEW taken \in BOOLEAN, WriterCycle(start, taken)
  PROVE  /\ WriterInv' /\ w_cfg' = w_cfg /\ UNCHANGED <<cfg, fifoVars>>
         /\ w_state = "READY" /\ ~start => w_state' = "READY" /\ UNCHANGED <<dram, cmd_counter>>
         /\ w_state = "READY" /\ start => w_state' # "READY" /\ cmd_counter' = 0 /\ dram' = dram
         /\ w_state = "SEND" /\ taken =>
              /\ w_state' # "READY" /\ cmd_counter' = cmd_counter + 1
              /\ dram' = [dram EXCEPT ![TransferAddr(w_cfg, cmd_counter)] =
                                           TransferData(w_cfg, cmd_counter)]
         /\ w_state # "READY" /\ ~(w_state = "SEND" /\ taken) =>
              /\ UNCHANGED <<dram, cmd_counter>>
              /\ w_state' = "READY" => cmd_counter >= w_cfg.count
  <1>1. W!Tick(start, taken) /\ w_cfg' = w_cfg /\ UNCHANGED <<cfg, fifoVars>>
    BY DEF WriterCycle, W!Tick
  <1>2. WriterInv'
    BY <1>1, WriterTick
  <1>3. w_state = "SEND" => /\ w_dram_addr = TransferAddr(w_cfg, cmd_counter)
                            /\ w_inv.out = TransferData(w_cfg, cmd_counter)
    BY ZenonT(30) DEF WriterInv, InverterInv
  <1>4. w_state \in WriterStates
    BY DEF WriterInv, WriterTypes
  <1> QED
    BY <1>1, <1>2, <1>3, <1>4, Zenon
       DEF WriterCycle, W!Tick, W!Step, W!Ready, W!ComputeMemAddr, W!WaitForDramAddr,
           W!ComputeDramAddr, W!InvertCompute, W!Send, WriterStates

\* The words written so far are in DRAM: a word that is written again is the same.
LEMMA FilledMore ==
  ASSUME NEW c \in ScriptConfigs, NEW d \in [Addresses -> Bit], NEW n \in Nat, NEW e,
         \A k \in 0 .. n - 1 : d[TransferAddr(c, k)] = TransferData(c, k),
         e = [d EXCEPT ![TransferAddr(c, n)] = TransferData(c, n)]
  PROVE  \A k \in 0 .. (n + 1) - 1 : e[TransferAddr(c, k)] = TransferData(c, k)
  <1>1. c \in Configs /\ c.data_mod = 1 /\ c.data_div = 0
    BY ReaderAssumption DEF ScriptConfigs
  <1>2. \A k \in Nat : TransferWord(c, k) = 0
    <2>1. \A k \in Nat : k % 1 = 0
      OBVIOUS
    <2> QED
      BY <1>1, <2>1 DEF TransferWord
  <1>3. ASSUME NEW k \in Nat, TransferAddr(c, k) = TransferAddr(c, n)
        PROVE  TransferData(c, k) = TransferData(c, n)
    BY <1>2, <1>3, ZenonT(30) DEF TransferData
  <1>4. \A k \in Nat : TransferAddr(c, k) \in Addresses
    BY <1>1, TransferTyped
  <1> QED
    BY <1>3, <1>4
-----------------------------------------------------------------------------
(***************************************************************************)
(* The errors, from the comparison to the host.                            *)
(***************************************************************************)
Errors == [offset : Addresses, data : Bit, expected : Bit]

ErrorTypes ==
  /\ error_fifo \in Seq(Errors) /\ error_out \in Seq(Errors) /\ Len(error_out) <= 1
  /\ error_reg \in Errors /\ sink \in Errors /\ e_state \in {"INVALID", "VALID"}

\* No error is left anywhere between the comparison and the host.
NoErrorLeft == Ready /\ e_state = "INVALID" /\ error_out = <<>> /\ error_fifo = <<>>

\* The errors found, from the host back to the comparison.
Unread == IF e_state = "VALID" /\ h_pc # "continue" THEN <<error_reg>> ELSE <<>>
Unkept == IF p_state = "WR_ERR" THEN <<sink>> ELSE <<>>
Path == error_out \o (error_fifo \o Unkept)
Found == errors \o (Unread \o Path)

ErrorOf(k) ==
  [offset |-> TransferAddr(cfg, k), data |-> dram[TransferAddr(cfg, k)], expected |-> TransferData(cfg, k)]

Wrong(k) == dram[TransferAddr(cfg, k)] # TransferData(cfg, k)

\* The offset of an error is the address of its transfer.
LEMMA OffsetOf ==
  ASSUME NEW k
  PROVE  ErrorOf(k).offset = TransferAddr(cfg, k)
  BY DEF ErrorOf

\* A list of errors grows by the error of the next transfer that is wrong.
LEMMA ReportsMore ==
  ASSUME NEW n \in Nat, NEW list \in Seq(Errors), Reports(list, Mismatches(n)), ErrorOf(n) \in Errors
  PROVE  /\ ~Wrong(n) => Reports(list, Mismatches(n + 1))
         /\ Wrong(n) => Reports(Append(list, ErrorOf(n)), Mismatches(n + 1))
  <1>1. /\ ~Wrong(n) => Mismatches(n + 1) = Mismatches(n)
        /\ Wrong(n) => Mismatches(n + 1) = Mismatches(n) \cup {n}
        /\ Mismatches(n) \subseteq 0 .. n - 1
    BY DEF Mismatches, Wrong
  <1>2. CASE Wrong(n)
    <2> DEFINE m == Len(list)
               longer == Append(list, ErrorOf(n))
    <2>1. PICK k \in [1 .. m -> Mismatches(n)] :
            /\ Mismatches(n) = {k[i] : i \in 1 .. m}
            /\ \A i, j \in 1 .. m : i < j => k[i] < k[j]
            /\ \A i \in 1 .. m : list[i] = ErrorOf(k[i])
      BY Zenon DEF Reports, ErrorOf
    <2> DEFINE l == [i \in 1 .. m + 1 |-> IF i = m + 1 THEN n ELSE k[i]]
    <2>2. m \in Nat /\ Len(longer) = m + 1
      BY AppendProperties
    <2>3. l \in [1 .. m + 1 -> Mismatches(n + 1)]
      BY <1>1, <1>2, <2>2
    <2>4. Mismatches(n + 1) = {l[i] : i \in 1 .. m + 1}
      <3>1. ASSUME NEW x \in Mismatches(n + 1) PROVE \E i \in 1 .. m + 1 : l[i] = x
        <4>1. CASE x = n
          BY <2>2, <4>1
        <4>2. CASE x # n
          <5>1. x \in Mismatches(n)
            BY <1>1, <1>2, <4>2
          <5>2. PICK i \in 1 .. m : k[i] = x
            BY <2>1, <5>1
          <5> QED
            BY <2>2, <5>2
        <4> QED
          BY <4>1, <4>2
      <3> QED
        BY <2>3, <3>1, ZenonT(30)
    <2>5. ASSUME NEW i \in 1 .. m + 1, NEW j \in 1 .. m + 1, i < j
          PROVE  l[i] < l[j]
      <3>1. i \in 1 .. m /\ k[i] \in 0 .. n - 1
        BY <1>1, <2>2, <2>5
      <3>2. l[i] = k[i] /\ l[j] = IF j = m + 1 THEN n ELSE k[j]
        BY <2>2, <3>1
      <3>3. CASE j = m + 1
        BY <3>1, <3>2, <3>3
      <3>4. CASE j # m + 1
        <4>1. j \in 1 .. m
          BY <2>2, <3>4
        <4>2. k[i] < k[j]
          BY <2>1, <2>5, <3>1, <4>1
        <4> QED
          BY <3>2, <3>4, <4>2
      <3> QED
        BY <3>3, <3>4
    <2>6. ASSUME NEW i \in 1 .. m + 1
          PROVE  longer[i] = ErrorOf(l[i])
      <3>1. /\ \A j \in 1 .. m : longer[j] = list[j]
            /\ longer[m + 1] = ErrorOf(n)
        BY AppendProperties
      <3>2. CASE i = m + 1
        BY <2>2, <3>1, <3>2
      <3>3. CASE i # m + 1
        <4>1. i \in 1 .. m
          BY <2>2, <3>3
        <4>2. longer[i] = list[i] /\ list[i] = ErrorOf(k[i]) /\ l[i] = k[i]
          BY <2>1, <3>1, <3>3, <4>1
        <4> QED
          BY <4>2
      <3> QED
        BY <3>2, <3>3
    <2> HIDE DEF l, longer
    <2>7. Reports(longer, Mismatches(n + 1))
      BY <2>2, <2>3, <2>4, <2>5, <2>6, Zenon DEF Reports, ErrorOf
    <2> QED
      BY <1>2, <2>7 DEF longer
  <1> QED
    BY <1>1, <1>2

\* The error of this cycle, in the place of the one that waits to be pushed.
Newer(answer) == IF TakeData(answer) /\ Wrong(counter_gen) THEN <<ErrorOf(counter_gen)>> ELSE Unkept

Lengthened(answer) == error_out \o (error_fifo \o Newer(answer))

\* Sequences: a queue and its head; concatenation.
LEMMA HeadAndTail ==
  ASSUME NEW S, NEW s \in Seq(S), s # <<>>
  PROVE  Tail(s) \in Seq(S) /\ Head(s) \in S /\ s = <<Head(s)>> \o Tail(s)
  OBVIOUS

\* Concatenation is associative and has a unit.
LEMMA Concat ==
  ASSUME NEW S, NEW s \in Seq(S), NEW t \in Seq(S), NEW u \in Seq(S)
  PROVE  s \o t \in Seq(S) /\ (s \o t) \o u = s \o (t \o u) /\ <<>> \o s = s /\ s \o <<>> = s
  BY SMTT(30)

\* The same, from right to left.
LEMMA Regroup ==
  ASSUME NEW S, NEW s \in Seq(S), NEW t \in Seq(S), NEW u \in Seq(S)
  PROVE  s \o (t \o u) = (s \o t) \o u
  BY SMTT(30)

\* A sequence of at most one element.
LEMMA AtMostOne ==
  ASSUME NEW S, NEW s \in Seq(S), Len(s) <= 1
  PROVE  s = <<>> \/ (s[1] \in S /\ s = <<s[1]>>)
  <1>1. s # <<>> => Len(s) = 1 /\ s[1] \in S
    OBVIOUS
  <1> QED
    BY <1>1

\* The pattern FSM keeps an error until there is room in the FIFO.
LEMMA PushStep ==
  ASSUME ReaderInv, ErrorTypes, ~skip_fifo, NEW answer \in BOOLEAN, PatternStep(FALSE, answer),
         NEW rest \in Seq(Errors), UNCHANGED <<cfg, dram>>,
         error_fifo' = IF PushError THEN Append(rest, sink) ELSE rest
  PROVE  /\ Newer(answer) \in Seq(Errors) /\ error_fifo' \in Seq(Errors) /\ Unkept' \in Seq(Errors)
         /\ error_fifo' \o Unkept' = rest \o Newer(answer) /\ sink' \in Errors
  <1>0. p_state \in PatternStates /\ counter_gen \in Nat /\ cfg \in Configs /\ dram \in [Addresses -> Bit]
    BY DEF ReaderInv, QueueInv, ReaderTypes
  <1>1. ErrorOf(counter_gen) \in Errors
    <2>1. TransferAddr(cfg, counter_gen) \in Addresses /\ TransferData(cfg, counter_gen) \in Bit
      BY <1>0, TransferTyped
    <2>2. dram[TransferAddr(cfg, counter_gen)] \in Bit
      BY <1>0, <2>1
    <2> QED
      BY <2>1, <2>2 DEF ErrorOf, Errors
  <1>2. sink \in Errors
    BY DEF ErrorTypes
  <1>3. CASE PushError
    <2>1. p_state = "WR_ERR" /\ p_state' = "COMPUTE_MEM_ADDR" /\ sink' = sink /\ ~TakeData(answer)
      BY <1>3, Zenon DEF PushError, PatternStep, TakeData
    <2>2. Unkept' = <<>> /\ Newer(answer) = <<sink>> /\ error_fifo' = Append(rest, sink)
      BY <1>3, <2>1 DEF Unkept, Newer
    <2> QED
      BY <1>2, <2>1, <2>2, SMTT(30), Z3
  <1>4. CASE p_state = "WR_ERR" /\ ~PushError
    <2>1. p_state' = "WR_ERR" /\ sink' = sink /\ ~TakeData(answer)
      BY <1>4, Zenon DEF PatternStep, TakeData
    <2>2. Unkept' = <<sink>> /\ Newer(answer) = <<sink>> /\ error_fifo' = rest
      BY <1>4, <2>1 DEF Unkept, Newer
    <2>3. <<sink>> \in Seq(Errors)
      BY <1>2
    <2> QED
      BY <1>2, <2>1, <2>2, <2>3, Zenon
  <1>5. CASE TakeData(answer)
    <2>1. p_state = "RD_DATA" /\ Compare
      BY <1>5, ZenonT(30) DEF TakeData, PatternStep
    <2>2. /\ inv.out = TransferData(cfg, counter_gen)
          /\ FifoHead = TransferAddr(cfg, counter_gen) /\ Head(dma) = TransferAddr(cfg, counter_gen)
      BY <1>5, Compared
    <2>3. /\ Wrong(counter_gen) => p_state' = "WR_ERR" /\ sink' = ErrorOf(counter_gen)
          /\ ~Wrong(counter_gen) => p_state' = "COMPUTE_MEM_ADDR" /\ sink' = sink
      BY <2>1, <2>2, Zenon DEF Compare, Wrong, ErrorOf
    <2>4. Unkept' = Newer(answer) /\ error_fifo' = rest
      BY <1>5, <2>1, <2>3 DEF Unkept, Newer, PushError
    <2>5. Newer(answer) \in Seq(Errors) /\ sink' \in Errors
      BY <1>1, <1>2, <2>1, <2>3 DEF Newer, Unkept
    <2> QED
      BY <2>4, <2>5, Zenon
  <1>6. CASE p_state # "WR_ERR" /\ ~TakeData(answer)
    <2>1. p_state' # "WR_ERR" /\ sink' = sink
      BY <1>0, <1>6, Zenon DEF PatternStep, PatternStates
    <2>2. Unkept' = <<>> /\ Newer(answer) = <<>> /\ error_fifo' = rest
      BY <1>6, <2>1 DEF Unkept, Newer, PushError
    <2> QED
      BY <1>2, <2>1, <2>2
  <1> QED
    BY <1>3, <1>4, <1>5, <1>6, Zenon

\* No error is lost, doubled or overtaken on its way through the FIFO and its output
\* register to the register the host reads.
LEMMA PathStep ==
  ASSUME ReaderInv, ErrorTypes, ~skip_fifo, NEW cont \in BOOLEAN, cont => e_state = "VALID",
         NEW accept \in BOOLEAN, NEW answer \in BOOLEAN, Tick(FALSE, cont, accept, answer)
  PROVE  /\ ErrorTypes' /\ Lengthened(answer) \in Seq(Errors) /\ Path' \in Seq(Errors)
         /\ e_state = "VALID" /\ ~cont =>
              e_state' = "VALID" /\ error_reg' = error_reg /\ Path' = Lengthened(answer)
         /\ e_state = "INVALID" \/ cont =>
              Lengthened(answer) = (IF e_state' = "VALID" THEN <<error_reg'>> ELSE <<>>) \o Path'
  <1> DEFINE took == TakeError(cont)
             refill == error_fifo # <<>> /\ (error_out = <<>> \/ took)
             rest == IF refill THEN Tail(error_fifo) ELSE error_fifo
             newer == Newer(answer)
             before == Lengthened(answer)
             after == Path'
  <1>0. /\ error_fifo \in Seq(Errors) /\ error_out \in Seq(Errors) /\ Len(error_out) <= 1
        /\ error_reg \in Errors /\ e_state \in {"INVALID", "VALID"}
    BY DEF ErrorTypes
  <1>1. /\ error_out' = IF refill THEN <<Head(error_fifo)>> ELSE IF took THEN <<>> ELSE error_out
        /\ error_fifo' = IF PushError THEN Append(rest, sink) ELSE rest
    BY DEF Tick, ErrorFifoStep
  <1>2. /\ rest \in Seq(Errors) /\ error_out' \in Seq(Errors) /\ Len(error_out') <= 1
        /\ error_out' \o rest = IF took THEN error_fifo ELSE error_out \o error_fifo
    <2>1. CASE refill
      <3>1. /\ rest = Tail(error_fifo) /\ rest \in Seq(Errors) /\ Head(error_fifo) \in Errors
            /\ error_fifo = <<Head(error_fifo)>> \o rest
        BY <1>0, <2>1, HeadAndTail
      <3>2. error_out' = <<Head(error_fifo)>>
        BY <1>1, <2>1
      <3>3. ~took => error_out \o error_fifo = error_fifo
        BY <1>0, <2>1, SMTT(30)
      <3>4. Len(error_out') <= 1 /\ error_out' \in Seq(Errors) /\ error_out' \o rest = error_fifo
        BY <3>1, <3>2
      <3> HIDE DEF rest, took
      <3> QED
        BY <3>1, <3>3, <3>4, Zenon
    <2>2. CASE ~refill /\ took
      <3>1. error_fifo = <<>> /\ error_out' = <<>> /\ rest = <<>>
        BY <1>1, <2>2
      <3>2. error_out' \o rest = error_fifo
        BY <1>0, <3>1, Concat
      <3> HIDE DEF rest
      <3> QED
        BY <1>0, <2>2, <3>1, <3>2
    <2>3. CASE ~refill /\ ~took
      BY <1>0, <1>1, <2>3, Zenon
    <2> QED
      BY <2>1, <2>2, <2>3, ZenonT(30)
  <1> HIDE DEF rest
  <1>3. /\ newer \in Seq(Errors) /\ error_fifo' \in Seq(Errors) /\ Unkept' \in Seq(Errors)
        /\ error_fifo' \o Unkept' = rest \o newer /\ sink' \in Errors
    <2>1. PatternStep(FALSE, answer) /\ UNCHANGED <<cfg, dram>>
      BY Zenon DEF Tick
    <2> QED
      BY <1>1, <1>2, <2>1, PushStep, Zenon
  <1> HIDE DEF newer
  <1>n. before = error_out \o (error_fifo \o newer) /\ after = error_out' \o (error_fifo' \o Unkept')
    BY DEF newer, Lengthened, Path
  <1> HIDE DEF before, after
  <1>4. /\ after \in Seq(Errors) /\ after = (error_out' \o rest) \o newer
        /\ before \in Seq(Errors) /\ before = (error_out \o error_fifo) \o newer
    <2>1. /\ rest \o newer \in Seq(Errors) /\ error_fifo \o newer \in Seq(Errors)
      BY <1>0, <1>2, <1>3, Concat
    <2>2. after = error_out' \o (rest \o newer)
      BY <1>3, <1>n
    <2>3. error_out' \o (rest \o newer) \in Seq(Errors) /\ error_out \o (error_fifo \o newer) \in Seq(Errors)
      BY <1>0, <1>2, <2>1, Concat
    <2>4. error_out' \o (rest \o newer) = (error_out' \o rest) \o newer
      <3>1. error_out' \in Seq(Errors) /\ rest \in Seq(Errors) /\ newer \in Seq(Errors)
        BY <1>2, <1>3
      <3> QED
        BY <3>1, Regroup, SMTT(30)
    <2>5. error_out \o (error_fifo \o newer) = (error_out \o error_fifo) \o newer
      <3>1. error_out \in Seq(Errors) /\ error_fifo \in Seq(Errors) /\ newer \in Seq(Errors)
        BY <1>0, <1>3
      <3> QED
        BY <3>1, Regroup, SMTT(30)
    <2> QED
      BY <1>n, <2>2, <2>3, <2>4, <2>5
  <1>5. CASE took
    <2>1. error_out = <<error_out[1]>> /\ error_out[1] \in Errors /\ (e_state = "INVALID" \/ cont)
      BY <1>0, <1>5, AtMostOne DEF TakeError
    <2>2. e_state' = "VALID" /\ error_reg' = error_out[1]
      BY <1>0, <1>5 DEF Tick, ErrorStep
    <2>3. after = error_fifo \o newer
      BY <1>2, <1>4, <1>5
    <2>4. before = <<error_reg'>> \o after
      BY <1>n, <2>1, <2>2, <2>3, Zenon
    <2>5. ErrorTypes'
      BY <1>0, <1>2, <1>3, <2>1, <2>2 DEF ErrorTypes
    <2> QED
      BY <1>4, <2>1, <2>2, <2>4, <2>5 DEF before, after
  <1>6. CASE ~took
    <2>1. after = before
      BY <1>2, <1>4, <1>6
    <2>2. /\ error_reg' = error_reg
          /\ e_state = "VALID" /\ ~cont => e_state' = "VALID"
          /\ e_state = "INVALID" \/ cont => e_state' = "INVALID"
      BY <1>0, <1>6 DEF Tick, ErrorStep
    <2>3. <<>> \o after = after
      BY <1>4, Concat
    <2>4. ErrorTypes'
      BY <1>0, <1>2, <1>3, <2>2 DEF ErrorTypes
    <2>5. before \in Seq(Errors) /\ after \in Seq(Errors)
      BY <1>4
    <2> QED
      BY <1>0, <2>1, <2>2, <2>3, <2>4, <2>5 DEF before, after
  <1> QED
    BY <1>5, <1>6

\* Appending to the second of two sequences.
LEMMA ConcatAppend ==
  ASSUME NEW S, NEW s \in Seq(S), NEW t \in Seq(S), NEW x \in S
  PROVE  s \o Append(t, x) = Append(s \o t, x) /\ s \o t \in Seq(S)
  OBVIOUS

\* What Reports says only depends on the configuration and on DRAM.
LEMMA ReportsKept ==
  ASSUME UNCHANGED <<cfg, dram>>
  PROVE  /\ Reports(Found', Mismatches(counter_gen')) => Reports(Found, Mismatches(counter_gen))'
         /\ Reports(errors', Mismatches(cfg'.count)) => Reports(errors, Mismatches(cfg.count))'
<1>1. Mismatches(counter_gen)' = Mismatches(counter_gen')
  BY ZenonT(30) DEF Mismatches, TransferAddr, TransferData
<1>2. Mismatches(cfg.count)' = Mismatches(cfg'.count)
  BY ZenonT(30) DEF Mismatches, TransferAddr, TransferData
<1>3. Reports(Found, Mismatches(counter_gen))' <=> Reports(Found', Mismatches(counter_gen)')
  BY ZenonT(30) DEF Reports, TransferAddr, TransferData
<1>4. Reports(errors, Mismatches(cfg.count))' <=> Reports(errors', Mismatches(cfg.count)')
  BY SMTT(30), ZenonT(30) DEF Reports, TransferAddr, TransferData
<1> QED  BY <1>1, <1>2, <1>3, <1>4

\* A cycle of the reader during the scan: the errors on their way to the host and those
\* it has read are the errors of the transfers compared so far.
LEMMA FoundStep ==
  ASSUME ReaderInv, ErrorTypes, errors \in Seq(Errors), ~skip_fifo, Reports(Found, Mismatches(counter_gen)),
         h_pc = "continue" => e_state = "VALID", NEW cont \in BOOLEAN,
         cont => h_pc = "continue" /\ h_pc' # "continue", ~cont => h_pc' = h_pc, errors' = errors,
         NEW accept \in BOOLEAN, NEW answer \in BOOLEAN, Tick(FALSE, cont, accept, answer)
  PROVE  Reports(Found', Mismatches(counter_gen')) /\ ErrorTypes'
  <1> DEFINE before == Lengthened(answer)
             after == Path'
             reg == IF e_state' = "VALID" THEN <<error_reg'>> ELSE <<>>
  <1>0. counter_gen \in Nat /\ QueueInv /\ cfg \in Configs /\ dram \in [Addresses -> Bit]
    BY DEF ReaderInv, QueueInv, ReaderTypes
  <1>1. /\ ErrorTypes' /\ before \in Seq(Errors) /\ after \in Seq(Errors)
        /\ e_state = "VALID" /\ ~cont => e_state' = "VALID" /\ error_reg' = error_reg /\ after = before
        /\ e_state = "INVALID" \/ cont => before = reg \o after
    <2>1. cont => e_state = "VALID"
      OBVIOUS
    <2> QED
      BY <2>1, PathStep, Zenon
  <1>2. e_state \in {"INVALID", "VALID"} /\ error_fifo \in Seq(Errors) /\ error_out \in Seq(Errors)
        /\ Unread \in Seq(Errors) /\ Unkept \in Seq(Errors)
    BY DEF ErrorTypes, Unread, Unkept
  <1> HIDE DEF before, after, reg
  <1>3. Unread' \o after = Unread \o before
    <2>1. CASE e_state = "VALID" /\ ~cont
      BY <1>1, <2>1 DEF Unread
    <2>2. CASE e_state = "INVALID" \/ cont
      <3>1. Unread = <<>> /\ Unread' = reg
        BY <1>2, <2>2 DEF Unread, reg
      <3> QED
        BY <1>1, <2>2, <3>1, Concat
    <2> QED
      BY <1>2, <2>1, <2>2, Zenon
  <1>4. Found' = errors \o (Unread \o before)
    BY <1>3 DEF Found, after
  <1>5. /\ TakeData(answer) => counter_gen' = counter_gen + 1
        /\ ~TakeData(answer) => counter_gen' = counter_gen
    BY <1>0, PatternPlace, Zenon DEF Tick
  <1>6. Found \in Seq(Errors) /\ ErrorOf(counter_gen) \in Errors
    <2>1. TransferAddr(cfg, counter_gen) \in Addresses /\ TransferData(cfg, counter_gen) \in Bit
      BY <1>0, TransferTyped
    <2>2. dram[TransferAddr(cfg, counter_gen)] \in Bit
      BY <1>0, <2>1
    <2>3. ErrorOf(counter_gen) \in Errors
      BY <2>1, <2>2, ZenonT(30) DEF ErrorOf, Errors
    <2>4. Found \in Seq(Errors)
      <3>1. error_fifo \o Unkept \in Seq(Errors)
        BY <1>2, Concat
      <3>2. error_out \o (error_fifo \o Unkept) \in Seq(Errors)
        BY <1>2, <3>1, Concat
      <3>3. Unread \o (error_out \o (error_fifo \o Unkept)) \in Seq(Errors)
        BY <1>2, <3>2, Concat
      <3> QED
        BY <3>3, Concat DEF Found, Path
    <2> QED
      BY <2>3, <2>4
  <1>7. CASE TakeData(answer) /\ Wrong(counter_gen)
    <2>1. Newer(answer) = <<ErrorOf(counter_gen)>> /\ Unkept = <<>>
      BY <1>7 DEF Newer, Unkept, TakeData
    <2>2. Found' = errors \o (Unread \o (error_out \o (error_fifo \o <<ErrorOf(counter_gen)>>)))
      BY <1>4, <2>1 DEF before, Lengthened
    <2>3. Found = errors \o (Unread \o (error_out \o (error_fifo \o <<>>)))
      BY <2>1 DEF Found, Path
    <2>4. Found' = Append(Found, ErrorOf(counter_gen))
      <3> DEFINE x == ErrorOf(counter_gen)
      <3>1. /\ errors \in Seq(Errors) /\ Unread \in Seq(Errors) /\ error_out \in Seq(Errors)
            /\ error_fifo \in Seq(Errors) /\ x \in Errors
        BY <1>2, <1>6
      <3> HIDE DEF x
      <3>2. errors \o (Unread \o (error_out \o Append(error_fifo, x))) =
              Append(errors \o (Unread \o (error_out \o error_fifo)), x)
        <4>1. /\ error_out \o Append(error_fifo, x) = Append(error_out \o error_fifo, x)
              /\ error_out \o error_fifo \in Seq(Errors)
          BY <3>1, ConcatAppend, SMTT(30)
        <4>2. /\ Unread \o Append(error_out \o error_fifo, x) = Append(Unread \o (error_out \o error_fifo), x)
              /\ Unread \o (error_out \o error_fifo) \in Seq(Errors)
          BY <3>1, <4>1, ConcatAppend, ZenonT(30)
        <4> DEFINE t == Unread \o (error_out \o error_fifo)
        <4>t. t \in Seq(Errors) /\ errors \in Seq(Errors)
          BY <3>1, <4>2
        <4> HIDE DEF t
        <4>3. errors \o Append(t, x) = Append(errors \o t, x)
          BY <3>1, <4>t, ConcatAppend, SMTT(30)
        <4> USE DEF t
        <4> QED
          BY <4>1, <4>2, <4>3
      <3>3. error_fifo \o <<x>> = Append(error_fifo, x) /\ error_fifo \o <<>> = error_fifo
        BY <3>1
      <3> QED
        BY <2>2, <2>3, <3>2, <3>3, Zenon DEF x
    <2> QED
      BY <1>0, <1>1, <1>5, <1>6, <1>7, <2>4, ReportsMore, ZenonT(30)
  <1>8. CASE ~(TakeData(answer) /\ Wrong(counter_gen))
    <2>1. Found' = Found
      BY <1>4, <1>8, Zenon DEF Found, Path, before, Lengthened, Newer
    <2>2. CASE TakeData(answer)
      BY <1>0, <1>1, <1>5, <1>6, <1>8, <2>1, <2>2, ReportsMore, ZenonT(30)
    <2>3. CASE ~TakeData(answer)
      BY <1>1, <1>5, <2>1, <2>3
    <2> QED
      BY <2>2, <2>3
  <1> QED
    BY <1>7, <1>8
-----------------------------------------------------------------------------
(***************************************************************************)
(* What a cycle of the reader does to what is left in the FIFO.            *)
(***************************************************************************)
\* Nothing happens to an idle reader without a start.
LEMMA IdleTick ==
  ASSUME QueueInv, ErrorTypes, NoErrorLeft, NEW accept \in BOOLEAN, NEW answer \in BOOLEAN,
         Tick(FALSE, FALSE, accept, answer)
  PROVE  QueueInv' /\ ErrorTypes' /\ NoErrorLeft' /\ UNCHANGED <<cfg, dram, skip_fifo>>
  <1>1. QueueInv' /\ UNCHANGED <<cfg, dram, skip_fifo>>
    BY QueueInvTick, Zenon DEF Tick
  <1>2. /\ p_state = "READY" /\ e_state = "INVALID" /\ error_out = <<>> /\ error_fifo = <<>>
        /\ ~PushError /\ ~TakeError(FALSE)
    BY DEF NoErrorLeft, Ready, PushError, TakeError
  <1>3. p_state' = "READY" /\ sink' = sink
    BY <1>2, Zenon DEF Tick, PatternStep
  <1>4. error_out' = <<>> /\ error_fifo' = <<>> /\ e_state' = "INVALID" /\ error_reg' = error_reg
    BY <1>2 DEF Tick, ErrorFifoStep, ErrorStep
  <1> QED
    BY <1>1, <1>3, <1>4 DEF NoErrorLeft, Ready, ErrorTypes

\* A start finds the FIFO empty and leaves it so.
LEMMA StartTick ==
  ASSUME ReaderInv, ErrorTypes, NoErrorLeft, NEW accept \in BOOLEAN, NEW answer \in BOOLEAN,
         Tick(TRUE, FALSE, accept, answer)
  PROVE  /\ ReaderInv' /\ ErrorTypes' /\ UNCHANGED <<cfg, dram, skip_fifo>>
         /\ ~Ready' /\ counter_gen' = 0 /\ Path' = <<>> /\ e_state' = "INVALID"
  <1>1. ReaderInv' /\ UNCHANGED <<cfg, dram, skip_fifo>>
    BY ReaderTick, Zenon DEF Tick, NoErrorLeft
  <1>2. /\ p_state = "READY" /\ e_state = "INVALID" /\ error_out = <<>> /\ error_fifo = <<>>
        /\ ~PushError /\ ~TakeError(FALSE)
    BY DEF NoErrorLeft, Ready, PushError, TakeError
  <1>3. p_state' = "COMPUTE_MEM_ADDR" /\ sink' = sink /\ counter_gen' = 0
    BY <1>2, Zenon DEF Tick, PatternStep
  <1>4. error_out' = <<>> /\ error_fifo' = <<>> /\ e_state' = "INVALID" /\ error_reg' = error_reg
    BY <1>2 DEF Tick, ErrorFifoStep, ErrorStep
  <1>5. Path' = <<>>
    BY <1>3, <1>4 DEF Path, Unkept
  <1> QED
    BY <1>1, <1>3, <1>4, <1>5 DEF Ready, ErrorTypes

\* An error that is left when the reader gets ready, or while it is, moves on.
LEMMA DrainTick ==
  ASSUME QueueInv, ErrorTypes, ~skip_fifo, Ready /\ error_out = <<>> => error_fifo = <<>>,
         Ready => counter_gen = cfg.count, NEW cont \in BOOLEAN,
         NEW accept \in BOOLEAN, NEW answer \in BOOLEAN, Tick(FALSE, cont, accept, answer)
  PROVE  /\ Ready' /\ error_out' = <<>> => error_fifo' = <<>>
         /\ Ready => Ready'
         /\ Ready /\ ~cont /\ e_state' = "INVALID" => error_out' = <<>>
         /\ Ready' => counter_gen' = cfg.count
  <1>0. /\ error_fifo \in Seq(Errors) /\ error_out \in Seq(Errors)
        /\ e_state \in {"INVALID", "VALID"} /\ UNCHANGED cfg
    BY DEF ErrorTypes, Tick
  <1>1. /\ Ready => Ready' /\ counter_gen' = counter_gen
        /\ Ready' /\ ~Ready => p_state = "COMPUTE_MEM_ADDR" /\ counter_gen >= cfg.count /\ counter_gen' = counter_gen
    BY <1>0, PatternPlace, Zenon DEF Tick, TakeData, Ready
  <1>2. Ready' => ~PushError
    BY <1>1 DEF PushError, Ready
  <1>3. Ready' => counter_gen' = cfg.count
    <2>1. ~Ready => counter_gen <= cfg.count
      <3>1. Len(dma) \in Nat /\ counter_gen \in Nat /\ cfg.count \in Nat
        BY ConfigTyped, SMTT(30), Z3 DEF QueueInv, ReaderTypes, Fields
      <3> QED
        BY <3>1 DEF QueueInv, CountInv
    <2>2. counter_gen \in Nat /\ cfg.count \in Nat
      BY ConfigTyped, ZenonT(30) DEF QueueInv, ReaderTypes, Fields
    <2> QED
      BY <1>1, <2>1, <2>2
  <1>4. Ready' /\ error_out' = <<>> => error_fifo' = <<>>
    BY <1>0, <1>2 DEF Tick, ErrorFifoStep
  <1>5. Ready /\ ~cont /\ e_state' = "INVALID" => error_out' = <<>>
    <2>1. Ready /\ ~cont /\ e_state' = "INVALID" => e_state = "INVALID" /\ ~TakeError(cont)
      BY <1>0 DEF Tick, ErrorStep
    <2>2. Ready /\ ~cont /\ e_state' = "INVALID" => error_out = <<>> /\ error_fifo = <<>>
      BY <2>1 DEF TakeError
    <2> QED
      BY <2>1, <2>2 DEF Tick, ErrorFifoStep
  <1> QED
    BY <1>1, <1>3, <1>4, <1>5
=============================================================================
