--------------------------- MODULE MemtestProofs -----------------------------
(***************************************************************************)
(* Proofs about hw_memset and hw_memtest with the modules they drive, for  *)
(* every memory, range, pattern, disturbance, depth of the FIFOs, stall of *)
(* the DMAs and delay of the host; and about the reader's error counter,   *)
(* for every configuration of the reader.                                  *)
(***************************************************************************)
EXTENDS BISTProofs, FiniteSetTheorems

\* Where the reader is idle: all of the script but the scan.
Setting == {"idle", "ms_assert", "ms_configure", "ms_start", "ms_poll", "disturb",
            "flush", "enable", "assert", "configure", "start", "returned"}
Scan == {"poll", "error_ready", "read_error", "continue", "final"}

\* From the disturbance to the end of the call; with the reader configured.
Disturbed == Scan \cup {"flush", "enable", "assert", "configure", "start", "returned"}
Configured == Scan \cup {"start", "returned"}

HostTypes ==
  /\ h_pc \in Setting \cup Scan
  /\ args \in ScriptConfigs /\ flipped \subseteq Addresses /\ polled \in BOOLEAN /\ gap \in Nat
  /\ errors \in Seq(Errors)

\* The modules run when the script waits for them and at no other time.  The reader is
\* ready a cycle after it has pushed its last error, which is then out of the memory of
\* the FIFO or behind another one.
ModulesInv ==
  /\ h_pc # "ms_poll" => w_state = "READY"
  /\ h_pc \in Setting \cup {"final"} => NoErrorLeft
  /\ h_pc \in Setting \ {"idle", "returned"} => errors = <<>> /\ ~polled
  /\ h_pc \in Scan => ~skip_fifo /\ (polled => Ready)
  /\ h_pc \in {"assert", "configure", "start"} => ~skip_fifo
  /\ h_pc \in {"read_error", "continue"} => e_state = "VALID"
  /\ Ready /\ error_out = <<>> => error_fifo = <<>>
  /\ h_pc = "error_ready" /\ polled /\ gap >= 1 /\ e_state = "INVALID" => error_out = <<>>

ErrorsInv ==
  /\ h_pc \in Configured => cfg = args /\ ReaderInv
  /\ h_pc \in Scan =>
       /\ Reports(Found, Mismatches(counter_gen))
       /\ Ready => counter_gen = cfg.count
  /\ h_pc = "returned" => Reports(errors, Mismatches(cfg.count))

\* The words hw_memset has written, and what the disturbance makes of them.
Filled(n) == \A k \in 0 .. n - 1 : dram[TransferAddr(args, k)] = TransferData(args, k)

MemoryInv ==
  /\ h_pc \in {"ms_start", "ms_poll"} => w_cfg = args
  /\ h_pc = "ms_poll" =>
       Filled(cmd_counter) /\ (w_state = "READY" => cmd_counter >= args.count)
  /\ h_pc = "disturb" => Filled(args.count)
  /\ h_pc \in Disturbed =>
       \A k \in 0 .. args.count - 1 :
         TransferAddr(args, k) \in flipped
           <=> dram[TransferAddr(args, k)] # TransferData(args, k)

HostInv == HostTypes /\ ErrorTypes /\ QueueInv /\ WriterInv /\ ModulesInv /\ ErrorsInv /\ MemoryInv
-----------------------------------------------------------------------------
(***************************************************************************)
(* The steps of the script.                                                *)
(***************************************************************************)
\* An access that only reads.
LEMMA ModulesKept ==
  ASSUME QueueInv, WriterInv, ErrorTypes, UNCHANGED moduleVars
  PROVE  /\ QueueInv' /\ WriterInv' /\ ErrorTypes' /\ (ReaderInv => ReaderInv')
         /\ UNCHANGED <<cfg, dram, skip_fifo, p_state, counter_gen, sink, error_fifo, error_out,
                        e_state, error_reg, w_cfg, w_state, cmd_counter>>
  <1>1. /\ UNCHANGED <<cfg, dram, skip_fifo, addrVars, address_fifo, dma, patternVars, errorVars>>
        /\ UNCHANGED <<w_cfg, w_state, cmd_counter, w_mem_addr, w_dram_addr, w_wait_counter,
                       w_addr_dat, w_data_dat, w_inv, sent>>
    BY DEF moduleVars, readerVars, fifoVars, writerVars, transferVars
  <1>2. skip_fifo' \in BOOLEAN
    BY <1>1 DEF QueueInv, ReaderTypes
  <1>3. QueueInv' /\ (ReaderInv => ReaderInv')
    BY <1>1, <1>2, QueueKeeps, SkipFifoKeeps, SMTT(30)
  <1>4. WriterInv'
    BY <1>1 DEF WriterInv, WriterTypes, WordInv, InverterInv, Written
  <1>5. UNCHANGED <<p_state, counter_gen, sink, error_fifo, error_out, e_state, error_reg>>
    BY <1>1 DEF patternVars, errorVars
  <1> QED
    BY <1>1, <1>3, <1>4, <1>5, SMTT(30) DEF ErrorTypes

\* The parts of HostInv that a step leaves alone.
LEMMA ScanKept ==
  ASSUME HostInv, UNCHANGED <<moduleVars, callVars>>, h_pc' \in Scan, h_pc \in Scan
  PROVE  /\ MemoryInv' /\ cfg' = args' /\ ReaderInv'
         /\ (Ready' => counter_gen' = cfg'.count)
  <1>1. /\ ReaderInv' /\ UNCHANGED <<cfg, dram, p_state, counter_gen, args, flipped>>
    BY ModulesKept DEF HostInv, ErrorsInv, Configured, callVars
  <1> QED
    BY <1>1 DEF HostInv, ErrorsInv, MemoryInv, Configured, Disturbed, Scan, Ready

\* The script waits for a module or asserts that it is ready.
LEMMA CheckStep ==
  ASSUME HostInv, MemsetAssert \/ MemsetPoll \/ AssertReady \/ Return
  PROVE  HostInv'
  <1>1. UNCHANGED <<moduleVars, callVars, polled, errors>> /\ UNCHANGED <<args, flipped>>
    BY DEF MemsetAssert, MemsetPoll, AssertReady, Return, callVars
  <1>2. /\ QueueInv' /\ WriterInv' /\ ErrorTypes'
        /\ UNCHANGED <<cfg, dram, skip_fifo, p_state, error_fifo, error_out, e_state, w_cfg, w_state, cmd_counter>>
    BY <1>1, ModulesKept, SMTT(30) DEF HostInv
  <1>3. gap' \in Nat
    BY DEF MemsetAssert, MemsetPoll, AssertReady, Return, Access, HostInv, HostTypes
  <1>4. \/ h_pc = "ms_assert" /\ h_pc' = "ms_configure"
        \/ h_pc = "ms_poll" /\ h_pc' = IF w_state = "READY" THEN "disturb" ELSE "ms_poll"
        \/ h_pc = "assert" /\ h_pc' = "configure"
        \/ h_pc = "returned" /\ h_pc' = "idle"
    BY DEF MemsetAssert, MemsetPoll, AssertReady, Return, Access, HostInv, HostTypes, ModulesInv,
           NoErrorLeft, Setting, Scan
  <1>5. HostTypes'
    BY <1>1, <1>3, <1>4, SMTT(30) DEF HostInv, HostTypes, Setting
  <1>6. ModulesInv'
    BY <1>1, <1>2, <1>4 DEF HostInv, ModulesInv, NoErrorLeft, Setting, Scan, Ready
  <1>7. ErrorsInv'
    BY <1>4, SMTT(30) DEF ErrorsInv, Configured, Scan
  <1>8. MemoryInv'
    <2>1. args.count \in Nat /\ cmd_counter \in Nat
      BY ReaderAssumption, ConfigTyped
         DEF HostInv, HostTypes, ScriptConfigs, Fields, WriterInv, WriterTypes
    <2>2. \A n : Filled(n) <=> Filled(n)'
      BY <1>1, <1>2, SMTT(30) DEF Filled
    <2>3. h_pc = "ms_poll" /\ w_state = "READY" => Filled(args.count)
      BY <2>1 DEF HostInv, MemoryInv, Filled
    <2> QED
      BY <1>1, <1>2, <1>4, <2>2, <2>3, SMTT(30) DEF HostInv, MemoryInv, Disturbed, Scan
  <1> QED
    BY <1>2, <1>5, <1>6, <1>7, <1>8, SMTT(30) DEF HostInv

\* hw_memtest polls, and finds an error in the register or none.
LEMMA PollStep ==
  ASSUME HostInv, PollReady \/ ReadErrorReady
  PROVE  HostInv'
  <1>1. UNCHANGED <<moduleVars, callVars, errors>> /\ UNCHANGED <<args, flipped>>
    BY DEF PollReady, ReadErrorReady, callVars
  <1>2. /\ QueueInv' /\ WriterInv' /\ ErrorTypes'
        /\ UNCHANGED <<cfg, dram, skip_fifo, p_state, counter_gen, sink, error_fifo, error_out, e_state,
                       error_reg, w_cfg, w_state, cmd_counter>>
    BY <1>1, ModulesKept DEF HostInv
  <1>3. /\ gap' = 0 /\ gap = HostGap /\ HostGap >= 1
    BY HostAssumption DEF PollReady, ReadErrorReady, Access
  <1>4. \/ h_pc = "poll" /\ h_pc' = "error_ready" /\ polled' = Ready
        \/ /\ h_pc = "error_ready" /\ polled' = polled
           /\ h_pc' = IF e_state = "VALID" THEN "read_error" ELSE IF polled THEN "final" ELSE "poll"
    BY DEF PollReady, ReadErrorReady, Access
  <1>5. polled' \in BOOLEAN /\ h_pc' \in Scan /\ h_pc \in Scan /\ h_pc # "continue" /\ h_pc' # "continue"
    BY <1>4, Zenon DEF HostInv, HostTypes, Ready, Scan
  <1>6. HostTypes'
    BY <1>1, <1>3, <1>5, SMTT(30) DEF HostInv, HostTypes
  <1>7. ModulesInv'
    <2>1. h_pc' = "final" => NoErrorLeft
      BY <1>3, <1>4 DEF HostInv, ModulesInv, ErrorTypes, NoErrorLeft, Scan
    <2>2. polled' => Ready
      BY <1>4, Zenon DEF HostInv, ModulesInv, Scan
    <2> QED
      BY <1>2, <1>3, <1>4, <1>5, <2>1, <2>2, SMTT(30) DEF HostInv, ModulesInv, NoErrorLeft, Setting, Scan, Ready
  <1>8. ErrorsInv'
    <2>1. Found' = Found
      BY <1>1, <1>2, <1>5, Zenon DEF Found, Path, Unread, Unkept
    <2>2. Reports(Found, Mismatches(counter_gen))'
      BY <1>2, <1>5, <2>1, ReportsKept, SMTT(30) DEF HostInv, ErrorsInv
    <2> QED
      BY <1>1, <1>5, <2>2, ScanKept, SMTT(30) DEF ErrorsInv, Scan
  <1>9. MemoryInv'
    BY <1>1, <1>5, ScanKept, SMTT(30)
  <1> QED
    BY <1>2, <1>6, <1>7, <1>8, <1>9, SMTT(30) DEF HostInv

\* hw_memtest reads the error that is in the register.
LEMMA ReadStep ==
  ASSUME HostInv, ReadError
  PROVE  HostInv'
  <1>1. /\ UNCHANGED <<moduleVars, callVars, polled>> /\ UNCHANGED <<args, flipped>>
        /\ errors' = Append(errors, error_reg) /\ gap' = 0 /\ h_pc = "read_error" /\ h_pc' = "continue"
    BY SMTT(30) DEF ReadError, Access, callVars
  <1>2. /\ QueueInv' /\ WriterInv' /\ ErrorTypes'
        /\ UNCHANGED <<cfg, dram, skip_fifo, p_state, counter_gen, sink, error_fifo, error_out, e_state,
                       error_reg, w_cfg, w_state, cmd_counter>>
    BY <1>1, ModulesKept, SMTT(30) DEF HostInv
  <1>3. h_pc \in Scan /\ h_pc' \in Scan /\ e_state = "VALID"
    BY <1>1 DEF Scan, HostInv, ModulesInv
  <1>4. errors \in Seq(Errors) /\ error_reg \in Errors
    BY SMTT(30) DEF HostInv, HostTypes, ErrorTypes
  <1>5. HostTypes'
    BY <1>1, <1>3, <1>4, SMTT(30) DEF HostInv, HostTypes
  <1>6. ModulesInv'
    BY <1>1, <1>2, SMTT(30) DEF HostInv, ModulesInv, NoErrorLeft, Setting, Scan, Ready
  <1>7. Found' = Found
    <2>1. Path \in Seq(Errors) /\ Path' = Path
      <3>1. Unkept \in Seq(Errors) /\ error_fifo \in Seq(Errors) /\ error_out \in Seq(Errors)
        BY DEF HostInv, ErrorTypes, Unkept
      <3>2. error_fifo \o Unkept \in Seq(Errors)
        BY <3>1, Concat, SMTT(30)
      <3> QED
        BY <1>2, <3>1, <3>2, Concat, SMTT(30) DEF Path, Unkept
    <2>2. Unread = <<error_reg>> /\ Unread' = <<>> /\ errors' = errors \o <<error_reg>>
      BY <1>1, <1>2, <1>3, <1>4, SMTT(30) DEF Unread
    <2>3. (errors \o <<error_reg>>) \o Path = errors \o (<<error_reg>> \o Path)
      <3>1. <<error_reg>> \in Seq(Errors)
        BY <1>4
      <3> QED
        BY <1>4, <2>1, <3>1, Concat, SMTT(30)
    <2>4. <<>> \o Path = Path
      BY <2>1, Concat, SMTT(30)
    <2> QED
      BY <2>1, <2>2, <2>3, <2>4, SMTT(30) DEF Found
  <1>8. ErrorsInv'
    <2>1. Reports(Found, Mismatches(counter_gen))'
      BY <1>2, <1>3, <1>7, ReportsKept, SMTT(30) DEF HostInv, ErrorsInv
    <2> QED
      BY <1>1, <1>3, <2>1, ScanKept, SMTT(30) DEF ErrorsInv, Scan
  <1>9. MemoryInv'
    BY <1>1, <1>3, ScanKept, SMTT(30)
  <1> QED
    BY <1>2, <1>5, <1>6, <1>8, <1>9, SMTT(30) DEF HostInv

\* The last assertions hold, and every error found has been read.
LEMMA FinalStep ==
  ASSUME HostInv, FinalAsserts
  PROVE  HostInv'
  <1>1. /\ UNCHANGED <<moduleVars, callVars, polled, errors>> /\ UNCHANGED <<args, flipped>>
        /\ gap' = 0 /\ h_pc = "final"
    BY DEF FinalAsserts, Access, callVars
  <1>2. /\ QueueInv' /\ WriterInv' /\ ErrorTypes' /\ (ReaderInv => ReaderInv')
        /\ UNCHANGED <<cfg, dram, skip_fifo, p_state, counter_gen, sink, error_fifo, error_out, e_state,
                       error_reg, w_cfg, w_state, cmd_counter>>
    BY <1>1, ModulesKept, SMTT(30) DEF HostInv
  <1>3. NoErrorLeft
    BY <1>1 DEF HostInv, ModulesInv
  <1>4. h_pc' = "returned"
    BY <1>3, SMTT(30) DEF FinalAsserts, Access, NoErrorLeft
  <1>5. HostTypes'
    BY <1>1, <1>4, SMTT(30) DEF HostInv, HostTypes, Setting
  <1>6. ModulesInv'
    BY <1>1, <1>2, <1>3, <1>4, SMTT(30) DEF HostInv, ModulesInv, NoErrorLeft, Setting, Scan, Ready
  <1>7. ErrorsInv'
    <2>1. Found = errors
      <3>1. Unread = <<>> /\ error_out = <<>> /\ error_fifo = <<>> /\ Unkept = <<>> /\ errors \in Seq(Errors)
        BY <1>3, SMTT(30) DEF NoErrorLeft, Unread, Unkept, Ready, HostInv, HostTypes
      <3> QED
        BY <3>1 DEF Found, Path
    <2>2. cfg = args /\ ReaderInv /\ Reports(Found, Mismatches(counter_gen)) /\ counter_gen = cfg.count
      BY <1>1, <1>3, SMTT(30) DEF HostInv, ErrorsInv, NoErrorLeft, Scan, Configured
    <2>3. Reports(errors, Mismatches(cfg.count))'
      BY <1>1, <1>2, <2>1, <2>2, ReportsKept, SMTT(30)
    <2> QED
      BY <1>1, <1>2, <1>4, <2>2, <2>3, SMTT(30) DEF ErrorsInv, Scan
  <1>8. MemoryInv'
    BY <1>1, <1>2, <1>4, SMTT(30) DEF HostInv, MemoryInv, Disturbed, Scan
  <1> QED
    BY <1>2, <1>5, <1>6, <1>7, <1>8, SMTT(30) DEF HostInv

\* The script writes CSRs and pattern memories of modules that are ready.
LEMMA ScriptConfig ==
  ASSUME NEW c \in Configs, NEW a \in ScriptConfigs
  PROVE  a \in Configs /\ Inverters(c, a) \in Configs /\ PatternOf(c, a) \in Configs
  <1>1. a \in Configs
    BY ReaderAssumption, SMTT(30) DEF ScriptConfigs
  <1> QED
    BY <1>1, Zenon DEF Inverters, PatternOf, Configs

\* The host sets CSRs of a reader that is ready.
LEMMA ReaderSet ==
  ASSUME QueueInv, Ready, cfg' \in Configs, dram' \in [Addresses -> Bit], skip_fifo' \in BOOLEAN,
         UNCHANGED <<addrVars, address_fifo, dma, patternVars>>
  PROVE  QueueInv' /\ Ready'
  <1>1. a_state = "READY" /\ dma = <<>> /\ address_fifo = <<>> /\ p_state = "READY"
    BY DEF Ready, QueueInv, QueuesInStep
  <1>2. UNCHANGED <<a_state, counter_addr, mem_addr, addr_dat, dram_addr, p_state, counter_gen,
                    data_mem_addr, wait_counter, error_count>>
    BY SMTT(30) DEF addrVars, patternVars
  <1>3. ReaderTypes'
    BY <1>2, SMTT(30) DEF QueueInv, ReaderTypes
  <1>4. AddrInv' /\ CountInv'
    BY <1>1, <1>2, SMTT(30) DEF AddrInv, CountInv, Ready
  <1>5. FifoInv' /\ QueuesInStep'
    BY <1>1, <1>2, SMTT(30) DEF FifoInv, QueuesInStep
  <1> QED
    BY <1>2, <1>3, <1>4, <1>5, SMTT(30) DEF QueueInv, Ready

\* The host sets CSRs of a writer that is ready.
LEMMA WriterSet ==
  ASSUME WriterInv, w_state = "READY", w_cfg' \in Configs, UNCHANGED transferVars
  PROVE  WriterInv' /\ w_state' = "READY"
  <1>1. w_cfg' \in Configs
    BY SMTT(30) DEF Configs, Configs, PatternWords, PatternWords, Addresses, Addresses, Bit, Bit
  <1> QED
    BY <1>1, ZenonT(30) DEF WriterInv, WriterTypes, WordInv, InverterInv, Written, transferVars

\* What the host may rely on between two uses of the modules.
LEMMA Settled ==
  ASSUME HostInv
  PROVE  /\ cfg \in Configs /\ w_cfg \in Configs /\ dram \in [Addresses -> Bit] /\ skip_fifo \in BOOLEAN
         /\ args \in ScriptConfigs
         /\ h_pc \in Setting => NoErrorLeft
         /\ h_pc # "ms_poll" => w_state = "READY"
  <1>1. w_cfg \in Configs
    BY SMTT(30) DEF HostInv, WriterInv, WriterTypes
  <1>2. w_cfg \in Configs
    BY <1>1, SMTT(30) DEF Configs, Configs, PatternWords, PatternWords, Addresses, Addresses, Bit, Bit
  <1> QED
    BY <1>2 DEF HostInv, HostTypes, QueueInv, ReaderTypes, ModulesInv

\* The errors, when only CSRs, pattern memories and DRAM change.
LEMMA ErrorsSet ==
  ASSUME ErrorTypes, NoErrorLeft, UNCHANGED <<patternVars, errorVars>>
  PROVE  ErrorTypes' /\ NoErrorLeft'
  BY DEF ErrorTypes, NoErrorLeft, Ready, patternVars, errorVars

\* A script sets the CSRs of the data inverters.
LEMMA SetupStep ==
  ASSUME HostInv, NEW a \in ScriptConfigs, SetupInverters(a)
  PROVE  HostInv'
  <1>1. /\ h_pc = "idle" /\ h_pc' = "ms_assert" /\ args' = a /\ flipped' = {} /\ ~polled' /\ polled' \in BOOLEAN
        /\ errors' = <<>> /\ gap' = gap
        /\ cfg' = Inverters(cfg, a) /\ w_cfg' = Inverters(w_cfg, a) /\ UNCHANGED <<dram, fifoVars, transferVars>>
    BY Zenon DEF SetupInverters
  <1>2. UNCHANGED <<skip_fifo, addrVars, address_fifo, dma, patternVars, errorVars>>
    BY <1>1, SMTT(30) DEF fifoVars
  <1>3. NoErrorLeft /\ w_state = "READY"
    BY <1>1, Settled, SMTT(30) DEF Setting
  <1>4. cfg' \in Configs /\ w_cfg' \in Configs /\ dram' \in [Addresses -> Bit] /\ skip_fifo' \in BOOLEAN
    BY <1>1, <1>2, Settled, ScriptConfig, SMTT(30)
  <1>5. QueueInv' /\ WriterInv' /\ w_state' = "READY"
    BY <1>1, <1>2, <1>3, <1>4, ReaderSet, WriterSet, SMTT(30) DEF HostInv, NoErrorLeft
  <1>6. ErrorTypes' /\ NoErrorLeft'
    BY <1>2, <1>3, ErrorsSet, SMTT(30) DEF HostInv
  <1>7. HostTypes'
    BY <1>1, SMTT(30) DEF HostInv, HostTypes, Setting
  <1>8. ModulesInv'
    BY <1>1, <1>5, <1>6, SMTT(30) DEF ModulesInv, NoErrorLeft, Setting, Scan
  <1>9. ErrorsInv' /\ MemoryInv'
    BY <1>1, SMTT(30) DEF ErrorsInv, MemoryInv, Configured, Disturbed, Scan
  <1> QED
    BY <1>5, <1>6, <1>7, <1>8, <1>9, SMTT(30) DEF HostInv

\* hw_memset sets the CSRs of the writer.
LEMMA MemsetConfigureStep ==
  ASSUME HostInv, MemsetConfigure
  PROVE  HostInv'
  <1>1. /\ h_pc = "ms_configure" /\ h_pc' = "ms_start" /\ gap' = 0 /\ UNCHANGED <<args, flipped, polled, errors>>
        /\ cfg' = PatternOf(cfg, args) /\ w_cfg' = args /\ UNCHANGED <<dram, fifoVars, transferVars>>
    BY SMTT(30) DEF MemsetConfigure, Access, callVars, W!Configure, W!fsmVars, transferVars
  <1>2. UNCHANGED <<skip_fifo, addrVars, address_fifo, dma, patternVars, errorVars>>
    BY <1>1, SMTT(30) DEF fifoVars
  <1>3. NoErrorLeft /\ w_state = "READY"
    BY <1>1, Settled, SMTT(30) DEF Setting
  <1>4. cfg' \in Configs /\ w_cfg' \in Configs /\ dram' \in [Addresses -> Bit] /\ skip_fifo' \in BOOLEAN
    BY <1>1, <1>2, Settled, ScriptConfig, SMTT(30)
  <1>5. QueueInv' /\ WriterInv' /\ w_state' = "READY"
    BY <1>1, <1>2, <1>3, <1>4, ReaderSet, WriterSet, SMTT(30) DEF HostInv, NoErrorLeft
  <1>6. ErrorTypes' /\ NoErrorLeft'
    BY <1>2, <1>3, ErrorsSet, SMTT(30) DEF HostInv
  <1>7. HostTypes'
    BY <1>1, SMTT(30) DEF HostInv, HostTypes, Setting
  <1>8. ModulesInv'
    BY <1>1, <1>5, <1>6, SMTT(30) DEF HostInv, ModulesInv, NoErrorLeft, Setting, Scan
  <1>9. ErrorsInv' /\ MemoryInv'
    BY <1>1, SMTT(30) DEF ErrorsInv, MemoryInv, Configured, Disturbed, Scan
  <1> QED
    BY <1>5, <1>6, <1>7, <1>8, <1>9, SMTT(30) DEF HostInv

\* After the disturbance the words that differ from the pattern are those that flipped.
LEMMA DisturbStep ==
  ASSUME HostInv, NEW d \in Disturbances, Disturb(d)
  PROVE  HostInv'
  <1>1. /\ h_pc = "disturb" /\ h_pc' = "flush" /\ flipped' = d
        /\ dram' = [a \in Addresses |-> Invert(dram[a], a \in d)]
        /\ UNCHANGED <<cfg, fifoVars, w_cfg, transferVars, args, polled, errors, gap>>
    BY SMTT(30) DEF Disturb, writerVars
  <1>2. UNCHANGED <<skip_fifo, addrVars, address_fifo, dma, patternVars, errorVars>>
    BY <1>1, SMTT(30) DEF fifoVars
  <1>3. NoErrorLeft /\ w_state = "READY" /\ dram \in [Addresses -> Bit] /\ args \in Configs
    BY <1>1, Settled, ScriptConfig, SMTT(30) DEF Setting
  <1>4. cfg' \in Configs /\ w_cfg' \in Configs /\ dram' \in [Addresses -> Bit] /\ skip_fifo' \in BOOLEAN
    <2>1. \A a \in Addresses : Invert(dram[a], a \in d) \in Bit
      BY <1>3, SMTT(30) DEF Invert, Bit
    <2> QED
      BY <1>1, <1>2, <2>1, Settled, SMTT(30)
  <1>5. QueueInv' /\ WriterInv' /\ w_state' = "READY"
    BY <1>1, <1>2, <1>3, <1>4, ReaderSet, WriterSet, SMTT(30) DEF HostInv, NoErrorLeft
  <1>6. ErrorTypes' /\ NoErrorLeft'
    BY <1>2, <1>3, ErrorsSet, SMTT(30) DEF HostInv
  <1>7. HostTypes'
    BY <1>1, HostAssumption, SMTT(30) DEF HostInv, HostTypes, Setting
  <1>8. ModulesInv'
    BY <1>1, <1>5, <1>6, SMTT(30) DEF HostInv, ModulesInv, NoErrorLeft, Setting, Scan
  <1>9. ErrorsInv'
    BY <1>1, SMTT(30) DEF ErrorsInv, Configured, Scan
  <1>10. MemoryInv'
    <2>1. ASSUME NEW k \in 0 .. args.count - 1
          PROVE  TransferAddr(args, k) \in d <=> dram'[TransferAddr(args, k)] # TransferData(args, k)
      <3>1. args.count \in Nat
        BY <1>3, ConfigTyped, SMTT(30) DEF Fields
      <3>2. k \in Nat
        BY <3>1, SMTT(30)
      <3>3. TransferAddr(args, k) \in Addresses /\ TransferData(args, k) \in Bit
        BY <1>3, <3>2, TransferTyped, SMTT(30)
      <3>4. dram[TransferAddr(args, k)] = TransferData(args, k)
        BY <1>1, SMTT(30) DEF HostInv, MemoryInv, Filled
      <3>5. dram'[TransferAddr(args, k)] = Invert(TransferData(args, k), TransferAddr(args, k) \in d)
        BY <1>1, <3>3, <3>4, SMTT(30)
      <3> QED
        BY <3>3, <3>5, SMTT(30) DEF Invert, Bit
    <2> QED
      BY <1>1, <2>1, SMTT(30) DEF MemoryInv, Disturbed, Scan
  <1> QED
    BY <1>5, <1>6, <1>7, <1>8, <1>9, <1>10, SMTT(30) DEF HostInv

\* hw_memtest sets skip_fifo and clears it again before it starts the reader.
LEMMA FlushStep ==
  ASSUME HostInv, FlushErrorFifo \/ EnableErrorFifo
  PROVE  HostInv'
  <1>1. /\ \/ h_pc = "flush" /\ h_pc' = "enable"
           \/ h_pc = "enable" /\ h_pc' = "assert" /\ ~skip_fifo'
        /\ gap' = 0 /\ skip_fifo' \in BOOLEAN /\ UNCHANGED <<args, flipped, polled, errors, w_cfg, transferVars>>
        /\ UNCHANGED <<cfg, dram, addrVars, address_fifo, dma, patternVars, errorVars>>
    <2>1. CASE FlushErrorFifo
      <3>1. skip_fifo' \in BOOLEAN
        BY <2>1, SMTT(30) DEF FlushErrorFifo, SetSkipFifo
      <3> QED
        BY <2>1, <3>1, SMTT(30) DEF FlushErrorFifo, SetSkipFifo, Access, callVars, writerVars
    <2>2. CASE EnableErrorFifo
      <3>1. skip_fifo' \in BOOLEAN /\ ~skip_fifo'
        BY <2>2, Zenon DEF EnableErrorFifo, SetSkipFifo
      <3> QED
        BY <2>2, <3>1 DEF EnableErrorFifo, SetSkipFifo, Access, callVars, writerVars
    <2> QED
      BY <2>1, <2>2, SMTT(30)
  <1>2. NoErrorLeft /\ w_state = "READY"
    BY <1>1, Settled, SMTT(30) DEF Setting
  <1>3. cfg' \in Configs /\ w_cfg' \in Configs /\ dram' \in [Addresses -> Bit]
    BY <1>1, Settled, SMTT(30)
  <1>4. QueueInv' /\ WriterInv' /\ w_state' = "READY"
    BY <1>1, <1>2, <1>3, ReaderSet, WriterSet, SMTT(30) DEF HostInv, NoErrorLeft
  <1>5. ErrorTypes' /\ NoErrorLeft'
    BY <1>1, <1>2, ErrorsSet, SMTT(30) DEF HostInv
  <1>6. HostTypes'
    BY <1>1, SMTT(30) DEF HostInv, HostTypes, Setting
  <1>7. ModulesInv'
    BY <1>1, <1>4, <1>5, SMTT(30) DEF HostInv, ModulesInv, NoErrorLeft, Setting, Scan
  <1>8. ErrorsInv' /\ MemoryInv'
    BY <1>1, ZenonT(30) DEF HostInv, ErrorsInv, MemoryInv, Configured, Disturbed, Scan
  <1> QED
    BY <1>4, <1>5, <1>6, <1>7, <1>8, SMTT(30) DEF HostInv

\* hw_memtest sets the CSRs of the reader.
LEMMA ConfigureReaderStep ==
  ASSUME HostInv, ConfigureReader
  PROVE  HostInv'
  <1>1. /\ h_pc = "configure" /\ h_pc' = "start" /\ gap' = 0 /\ UNCHANGED <<args, flipped, polled, errors>>
        /\ cfg' = args /\ w_cfg' = PatternOf(w_cfg, args) /\ dram' = dram /\ UNCHANGED transferVars
        /\ UNCHANGED <<skip_fifo, addrVars, address_fifo, dma, patternVars, errorVars>>
    BY SMTT(30) DEF ConfigureReader, Configure, Access, callVars
  <1>2. NoErrorLeft /\ w_state = "READY"
    BY <1>1, Settled, SMTT(30) DEF Setting
  <1>3. cfg' \in Configs /\ w_cfg' \in Configs /\ dram' \in [Addresses -> Bit] /\ skip_fifo' \in BOOLEAN
    BY <1>1, Settled, ScriptConfig, SMTT(30)
  <1>4. QueueInv' /\ WriterInv' /\ w_state' = "READY"
    BY <1>1, <1>2, <1>3, ReaderSet, WriterSet, SMTT(30) DEF HostInv, NoErrorLeft
  <1>5. ErrorTypes' /\ NoErrorLeft'
    BY <1>1, <1>2, ErrorsSet, SMTT(30) DEF HostInv
  <1>6. HostTypes'
    BY <1>1, SMTT(30) DEF HostInv, HostTypes, Setting
  <1>7. ModulesInv'
    BY <1>1, <1>4, <1>5, ZenonT(30) DEF HostInv, ModulesInv, NoErrorLeft, Setting, Scan
  <1>8. ErrorsInv'
    <2>1. args.data_div = 0
      BY DEF HostInv, HostTypes, ScriptConfigs
    <2>2. ReaderInv'
      BY <1>1, <1>4, <1>5, <2>1, Zenon DEF ReaderInv, PatternInv, OneWord, NoErrorLeft, Ready
    <2> QED
      BY <1>1, <2>2, SMTT(30) DEF ErrorsInv, Configured, Scan
  <1>9. MemoryInv'
    BY <1>1, SMTT(30) DEF HostInv, MemoryInv, Disturbed, Scan
  <1> QED
    BY <1>4, <1>5, <1>6, <1>7, <1>8, <1>9, SMTT(30) DEF HostInv

\* A cycle of the writer while hw_memset runs.
LEMMA FillStep ==
  ASSUME HostInv, InMemset, NEW start \in BOOLEAN, NEW taken \in BOOLEAN, WriterCycle(start, taken),
         \/ start /\ h_pc = "ms_start" /\ h_pc' = "ms_poll"
         \/ ~start /\ h_pc' = h_pc,
         gap' \in Nat, UNCHANGED <<callVars, polled, errors>>
  PROVE  HostInv'
  <1>1. /\ WriterInv' /\ w_cfg' = w_cfg /\ UNCHANGED <<cfg, fifoVars>>
        /\ w_state = "READY" /\ ~start => w_state' = "READY" /\ UNCHANGED <<dram, cmd_counter>>
        /\ w_state = "READY" /\ start => w_state' # "READY" /\ cmd_counter' = 0 /\ dram' = dram
        /\ w_state = "SEND" /\ taken =>
             /\ w_state' # "READY" /\ cmd_counter' = cmd_counter + 1
             /\ dram' = [dram EXCEPT ![TransferAddr(w_cfg, cmd_counter)] = TransferData(w_cfg, cmd_counter)]
        /\ w_state # "READY" /\ ~(w_state = "SEND" /\ taken) =>
             /\ UNCHANGED <<dram, cmd_counter>>
             /\ w_state' = "READY" => cmd_counter >= w_cfg.count
    BY WriterMoves, SMTT(30) DEF HostInv
  <1>2. UNCHANGED <<skip_fifo, addrVars, address_fifo, dma, patternVars, errorVars>> /\ UNCHANGED <<args, flipped>>
    BY <1>1, SMTT(30) DEF fifoVars, callVars
  <1>3. /\ cfg \in Configs /\ w_cfg \in Configs /\ dram \in [Addresses -> Bit] /\ skip_fifo \in BOOLEAN
        /\ args \in ScriptConfigs /\ NoErrorLeft /\ cmd_counter \in Nat
        /\ h_pc # "ms_poll" => w_state = "READY"
    BY Settled, SMTT(30) DEF InMemset, Setting, HostInv, WriterInv, WriterTypes
  <1>4. dram' \in [Addresses -> Bit]
    <2>1. TransferAddr(w_cfg, cmd_counter) \in Addresses /\ TransferData(w_cfg, cmd_counter) \in Bit
      BY <1>3, TransferTyped, SMTT(30)
    <2> QED
      BY <1>1, <1>3, <2>1, SMTT(30)
  <1>5. QueueInv'
    BY <1>1, <1>2, <1>3, <1>4, ReaderSet, ZenonT(30) DEF HostInv, NoErrorLeft
  <1>6. ErrorTypes' /\ NoErrorLeft'
    BY <1>2, <1>3, ErrorsSet, SMTT(30) DEF HostInv
  <1>7. HostTypes'
    BY <1>2, SMTT(30) DEF HostInv, HostTypes, Setting
  <1>8. h_pc' \in {"ms_assert", "ms_configure", "ms_start", "ms_poll"}
    BY SMTT(30) DEF InMemset
  <1>9. ModulesInv'
    <2>1. h_pc' # "ms_poll" => w_state' = "READY"
      BY <1>1, <1>3, SMTT(30)
    <2> QED
      BY <1>6, <1>8, <2>1, ZenonT(30) DEF HostInv, ModulesInv, InMemset, NoErrorLeft, Setting, Scan
  <1>10. ErrorsInv'
    BY <1>8, SMTT(30) DEF ErrorsInv, Configured, Scan
  <1>11. MemoryInv'
    <2>1. h_pc' \in {"ms_start", "ms_poll"} => w_cfg' = args'
      BY <1>1, <1>2, ZenonT(30) DEF HostInv, MemoryInv, InMemset
    <2>2. ASSUME h_pc' = "ms_poll"
          PROVE  Filled(cmd_counter)' /\ (w_state' = "READY" => cmd_counter' >= args'.count)
      <3>1. w_cfg = args
        BY <2>2, SMTT(30) DEF HostInv, MemoryInv, InMemset
      <3>2. CASE start
        BY <1>1, <1>3, <3>2, SMTT(30) DEF Filled
      <3>3. CASE ~start
        <4>1. h_pc = "ms_poll" /\ Filled(cmd_counter) /\ (w_state = "READY" => cmd_counter >= args.count)
          BY <2>2, <3>3 DEF HostInv, MemoryInv
        <4>2. CASE w_state = "SEND" /\ taken
          <5>1. \A k \in 0 .. (cmd_counter + 1) - 1 : dram'[TransferAddr(args, k)] = TransferData(args, k)
            <6>1. \A k \in 0 .. cmd_counter - 1 : dram[TransferAddr(args, k)] = TransferData(args, k)
              BY <4>1, SMTT(30) DEF Filled
            <6>2. dram' = [dram EXCEPT ![TransferAddr(args, cmd_counter)] = TransferData(args, cmd_counter)]
              BY <1>1, <3>1, <4>2, SMTT(30)
            <6> QED
              BY <1>3, <6>1, <6>2, FilledMore, SMTT(30)
          <5> QED
            BY <1>1, <1>2, <4>2, <5>1, Zenon DEF Filled
        <4>3. CASE ~(w_state = "SEND" /\ taken)
          BY <1>1, <1>2, <3>1, <3>3, <4>1, <4>3, SMTT(30) DEF Filled
        <4> QED
          BY <4>2, <4>3, SMTT(30)
      <3> QED
        BY <3>2, <3>3, SMTT(30)
    <2> QED
      BY <1>8, <2>1, <2>2, SMTT(30) DEF MemoryInv, Disturbed, Scan
  <1> QED
    BY <1>1, <1>5, <1>6, <1>7, <1>9, <1>10, <1>11, SMTT(30) DEF HostInv

\* The writer while the reader is clocked.
LEMMA WriterKept ==
  ASSUME WriterInv, UNCHANGED writerVars
  PROVE  WriterInv' /\ UNCHANGED <<w_cfg, w_state, cmd_counter>>
  BY Zenon DEF WriterInv, WriterTypes, WordInv, InverterInv, Written, writerVars, transferVars

\* A cycle of the reader that nobody waits for.
LEMMA IdleStep ==
  ASSUME HostInv, ~InMemset, h_pc \in Setting, NEW accept \in BOOLEAN, NEW answer \in BOOLEAN,
         ReaderCycle(FALSE, FALSE, accept, answer), gap' \in Nat, UNCHANGED <<h_pc, callVars, polled, errors>>
  PROVE  HostInv'
  <1>1. NoErrorLeft /\ UNCHANGED <<args, flipped>>
    BY Settled DEF callVars
  <1>2. QueueInv' /\ ErrorTypes' /\ NoErrorLeft' /\ UNCHANGED <<cfg, dram, skip_fifo>>
    BY <1>1, IdleTick, Zenon DEF HostInv, ReaderCycle
  <1>3. WriterInv' /\ UNCHANGED <<w_cfg, w_state, cmd_counter>>
    BY WriterKept, SMTT(30) DEF HostInv, ReaderCycle
  <1>4. HostTypes'
    BY <1>1, SMTT(30) DEF HostInv, HostTypes
  <1>5. ModulesInv'
    BY <1>2, <1>3, SMTT(30) DEF HostInv, ModulesInv, NoErrorLeft, Setting, Scan
  <1>6. ErrorsInv'
    <2>1. ReaderInv => ReaderInv'
      BY ReaderTick, Zenon DEF ReaderCycle
    <2>2. h_pc \notin Scan
      BY SMTT(30) DEF Setting, Scan
    <2>3. h_pc = "returned" => Reports(errors, Mismatches(cfg.count))'
      BY <1>2, ReportsKept, SMTT(30) DEF HostInv, ErrorsInv
    <2> QED
      BY <1>1, <1>2, <2>1, <2>2, <2>3, SMTT(30) DEF HostInv, ErrorsInv
  <1>7. MemoryInv'
    BY <1>1, <1>2, <1>3, Zenon DEF HostInv, MemoryInv, InMemset, Filled
  <1> QED
    BY <1>2, <1>3, <1>4, <1>5, <1>6, <1>7, SMTT(30) DEF HostInv

\* A cycle of the reader during the scan, with or without a continue.
LEMMA ScanStep ==
  ASSUME HostInv, h_pc \in Scan, NEW cont \in BOOLEAN, NEW accept \in BOOLEAN, NEW answer \in BOOLEAN,
         ReaderCycle(FALSE, cont, accept, answer), gap' \in Nat,
         \/ cont /\ h_pc = "continue" /\ h_pc' = "error_ready" /\ gap' = 0
         \/ ~cont /\ h_pc' = h_pc,
         UNCHANGED <<callVars, polled, errors>>
  PROVE  HostInv'
  <1>1. /\ Tick(FALSE, cont, accept, answer) /\ UNCHANGED <<args, flipped>> /\ h_pc' \in Scan
        /\ UNCHANGED <<cfg, dram, skip_fifo>>
    BY Zenon DEF ReaderCycle, callVars, Scan, Tick
  <1>2. /\ ReaderInv /\ ErrorTypes /\ cfg = args /\ errors \in Seq(Errors) /\ ~skip_fifo
        /\ Reports(Found, Mismatches(counter_gen)) /\ (Ready => counter_gen = cfg.count)
        /\ h_pc = "continue" => e_state = "VALID"
        /\ Ready /\ error_out = <<>> => error_fifo = <<>>
    BY DEF HostInv, HostTypes, ErrorsInv, ModulesInv, Configured
  <1>3. ReaderInv' /\ QueueInv' /\ QueueInv
    BY <1>1, <1>2, ReaderTick, Zenon DEF ReaderInv
  <1>4. Reports(Found', Mismatches(counter_gen')) /\ ErrorTypes'
    BY <1>1, <1>2, FoundStep, Zenon
  <1>5. /\ Ready' /\ error_out' = <<>> => error_fifo' = <<>>
        /\ Ready => Ready'
        /\ Ready /\ ~cont /\ e_state' = "INVALID" => error_out' = <<>>
        /\ Ready' => counter_gen' = cfg.count
    BY <1>1, <1>2, <1>3, DrainTick, Zenon
  <1>6. WriterInv' /\ UNCHANGED <<w_cfg, w_state, cmd_counter>>
    BY WriterKept, SMTT(30) DEF HostInv, ReaderCycle
  <1>7. HostTypes'
    BY <1>1, SMTT(30) DEF HostInv, HostTypes
  <1>8. ModulesInv'
    <2>1. polled' => Ready /\ Ready'
      BY <1>5, SMTT(30) DEF HostInv, ModulesInv
    <2>2. w_state' = "READY" /\ ~skip_fifo'
      BY <1>1, <1>2, <1>6, SMTT(30) DEF HostInv, ModulesInv, Scan
    <2>3. h_pc' \in {"read_error", "continue"} => e_state' = "VALID"
      <3>1. h_pc' \in {"read_error", "continue"} => e_state = "VALID" /\ ~cont
        BY DEF HostInv, ModulesInv
      <3> QED
        BY <1>1, <3>1, SMTT(30) DEF Tick, ErrorStep
    <2>4. h_pc' = "final" => NoErrorLeft'
      <3>1. h_pc' = "final" => NoErrorLeft /\ ~cont
        BY SMTT(30) DEF HostInv, ModulesInv
      <3> QED
        BY <1>1, <1>2, <1>3, <3>1, IdleTick, Zenon
    <2>5. h_pc' = "error_ready" /\ polled' /\ gap' >= 1 /\ e_state' = "INVALID" => error_out' = <<>>
      BY <1>5, <2>1, SMTT(30)
    <2> QED
      BY <1>1, <1>5, <2>1, <2>2, <2>3, <2>4, <2>5, ZenonT(30) DEF ModulesInv, Setting, Scan
  <1>9. ErrorsInv'
    <2>1. Reports(Found, Mismatches(counter_gen))'
      BY <1>1, <1>4, ReportsKept, SMTT(30)
    <2> QED
      BY <1>1, <1>2, <1>3, <1>5, <2>1, SMTT(30) DEF ErrorsInv, Scan
  <1>10. MemoryInv'
    BY <1>1, <1>6, ZenonT(30) DEF HostInv, MemoryInv, Disturbed, Scan
  <1> QED
    BY <1>3, <1>4, <1>6, <1>7, <1>8, <1>9, <1>10, SMTT(30) DEF HostInv

\* reader_start is written when nothing is left of an earlier test.
LEMMA StartStep ==
  ASSUME HostInv, StartReader
  PROVE  HostInv'
  <1>1. /\ h_pc = "start" /\ h_pc' = "poll" /\ gap' = 0 /\ UNCHANGED <<args, flipped, polled, errors>>
        /\ \E accept, answer \in BOOLEAN : ReaderCycle(TRUE, FALSE, accept, answer)
    BY Zenon DEF StartReader, Access, callVars
  <1>2. PICK accept, answer \in BOOLEAN : ReaderCycle(TRUE, FALSE, accept, answer)
    BY <1>1, Zenon
  <1>3. /\ NoErrorLeft /\ ReaderInv /\ ErrorTypes /\ cfg = args /\ errors = <<>> /\ ~polled /\ ~skip_fifo
    BY <1>1 DEF HostInv, ModulesInv, ErrorsInv, Setting, Configured
  <1>4. /\ ReaderInv' /\ ErrorTypes' /\ UNCHANGED <<cfg, dram, skip_fifo>>
        /\ ~Ready' /\ counter_gen' = 0 /\ Path' = <<>> /\ e_state' = "INVALID"
    BY <1>2, <1>3, StartTick, Zenon DEF ReaderCycle
  <1>5. WriterInv' /\ UNCHANGED <<w_cfg, w_state, cmd_counter>>
    BY <1>2, WriterKept, SMTT(30) DEF HostInv, ReaderCycle
  <1>6. HostTypes'
    BY <1>1, SMTT(30) DEF HostInv, HostTypes, Scan
  <1>7. ModulesInv'
    BY <1>1, <1>3, <1>4, <1>5, ZenonT(30) DEF HostInv, ModulesInv, Setting, Scan
  <1>8. ErrorsInv'
    <2>1. Found' = <<>>
      BY <1>1, <1>3, <1>4, SMTT(30) DEF Found, Unread
    <2>2. Reports(Found', Mismatches(counter_gen'))
      <3>1. Mismatches(0) = {}
        BY DEF Mismatches
      <3>2. Reports(<<>>, {})
        <4> DEFINE k == [i \in 1 .. Len(<<>>) |-> 0]
        <4>1. Len(<<>>) = 0 /\ 1 .. 0 = {}
          OBVIOUS
        <4>2. k \in [1 .. Len(<<>>) -> {}]
          BY <4>1, SMTT(30)
        <4> QED
          BY <4>1, <4>2, ZenonT(30) DEF Reports
      <3> QED
        BY <1>4, <2>1, <3>1, <3>2, SMTT(30)
    <2>3. Reports(Found, Mismatches(counter_gen))'
      BY <1>4, <2>2, ReportsKept, SMTT(30)
    <2> QED
      BY <1>1, <1>3, <1>4, <2>3, SMTT(30) DEF ErrorsInv, Scan
  <1>9. MemoryInv'
    BY <1>1, <1>4, <1>5, SMTT(30) DEF HostInv, MemoryInv, Disturbed, Scan
  <1> QED
    BY <1>4, <1>5, <1>6, <1>7, <1>8, <1>9, SMTT(30) DEF HostInv, ReaderInv
-----------------------------------------------------------------------------
\* The modules as the FPGA starts them, before the first script runs.
LEMMA HostStart ==
  ASSUME HostInit("idle")
  PROVE  HostInv
  <1>1. Init /\ W!Init /\ h_pc = "idle" /\ args \in ScriptConfigs /\ flipped = {} /\ polled = FALSE
        /\ errors = <<>> /\ gap = HostGap
    BY SMTT(30) DEF HostInit
  <1>2. QueueInv
    BY <1>1, QueueInit, SMTT(30)
  <1>3. ErrorTypes /\ NoErrorLeft
    <2>1. NoError \in Errors
      BY BISTAssumption, SMTT(30) DEF NoError, Errors, Addresses, Bit
    <2> QED
      BY <1>1, <2>1, SMTT(30) DEF Init, ErrorTypes, NoErrorLeft, Ready
  <1>4. WriterInv
    BY <1>1, WriterStart, SMTT(30)
  <1>5. HostTypes
    <2>1. polled \in BOOLEAN /\ ~polled
      BY <1>1, Zenon
    <2>2. gap \in Nat /\ errors \in Seq(Errors) /\ flipped \subseteq Addresses
      BY <1>1, HostAssumption, SMTT(30)
    <2> QED
      BY <1>1, <2>1, <2>2, SMTT(30) DEF HostTypes, Setting
  <1>6. ModulesInv
    BY <1>1, <1>3 DEF ModulesInv, W!Init, NoErrorLeft, Setting, Scan
  <1>7. ErrorsInv /\ MemoryInv
    BY <1>1, SMTT(30) DEF ErrorsInv, MemoryInv, Configured, Disturbed, Scan
  <1> QED
    BY <1>2, <1>3, <1>4, <1>5, <1>6, <1>7, SMTT(30) DEF HostInv

\* Every step of the scripts and of the hardware keeps the invariant.
LEMMA HostStep ==
  ASSUME HostInv, [Wait \/ Script]_memtestVars
  PROVE  HostInv'
  <1>1. CASE Wait
    <2>1. gap' \in Nat /\ UNCHANGED <<h_pc, callVars, polled, errors>>
      <3>1. gap \in Nat /\ HostGap \in Nat
        BY HostAssumption, SMTT(30) DEF HostInv, HostTypes
      <3> QED
        BY <1>1, <3>1, SMTT(30) DEF Wait, QuietCycle
    <2>2. CASE InMemset
      <3>1. PICK taken \in BOOLEAN : WriterCycle(FALSE, taken)
        BY <1>1, <2>2, Zenon DEF Wait, QuietCycle
      <3> QED
        BY <2>1, <2>2, <3>1, FillStep, Zenon
    <2>3. CASE ~InMemset
      <3>1. PICK accept, answer \in BOOLEAN : ReaderCycle(FALSE, FALSE, accept, answer)
        BY <1>1, <2>3, Zenon DEF Wait, QuietCycle
      <3>2. h_pc \in Setting \/ h_pc \in Scan
        BY DEF HostInv, HostTypes
      <3> QED
        BY <2>1, <2>3, <3>1, <3>2, IdleStep, ScanStep, Zenon
    <2> QED
      BY <2>2, <2>3, SMTT(30)
  <1>2. CASE MemsetStart
    <2>1. /\ h_pc = "ms_start" /\ h_pc' = "ms_poll" /\ gap' \in Nat /\ UNCHANGED <<callVars, polled, errors>>
          /\ \E taken \in BOOLEAN : WriterCycle(TRUE, taken)
      BY <1>2, Zenon DEF MemsetStart, Access
    <2>2. PICK taken \in BOOLEAN : WriterCycle(TRUE, taken)
      BY <2>1, Zenon
    <2>3. InMemset
      BY <2>1 DEF InMemset
    <2> QED
      BY <2>1, <2>2, <2>3, FillStep, Zenon
  <1>3. CASE ContinueReading
    <2>1. /\ h_pc = "continue" /\ h_pc' = "error_ready" /\ gap' = 0 /\ gap' \in Nat
          /\ UNCHANGED <<callVars, polled, errors>>
          /\ \E accept, answer \in BOOLEAN : ReaderCycle(FALSE, TRUE, accept, answer)
      BY <1>3, Zenon DEF ContinueReading, Access
    <2>2. PICK accept, answer \in BOOLEAN : ReaderCycle(FALSE, TRUE, accept, answer)
      BY <2>1, Zenon
    <2>3. h_pc \in Scan
      BY <2>1, SMTT(30) DEF Scan
    <2> QED
      BY <2>1, <2>2, <2>3, ScanStep, Zenon
  <1>4. CASE UNCHANGED memtestVars
    <2>1. UNCHANGED <<moduleVars, h_pc, args, flipped, polled, errors, gap>>
      BY <1>4, SMTT(30) DEF memtestVars, hostVars, callVars
    <2>2. /\ QueueInv' /\ WriterInv' /\ ErrorTypes' /\ (ReaderInv => ReaderInv')
          /\ UNCHANGED <<cfg, dram, skip_fifo, p_state, counter_gen, sink, error_fifo, error_out,
                         e_state, error_reg, w_cfg, w_state, cmd_counter>>
      BY <2>1, ModulesKept, SMTT(30) DEF HostInv
    <2>3. HostTypes' /\ ModulesInv'
      BY <2>1, <2>2, Zenon DEF HostInv, HostTypes, ModulesInv, NoErrorLeft, Ready
    <2>4. Found' = Found
      BY <2>1, <2>2, SMTT(30) DEF Found, Path, Unread, Unkept
    <2>5. ErrorsInv'
      BY <2>1, <2>2, <2>4, ReportsKept, ZenonT(30) DEF HostInv, ErrorsInv, Ready
    <2>6. MemoryInv'
      BY <2>1, <2>2, ZenonT(30) DEF HostInv, MemoryInv, Filled
    <2> QED
      BY <2>2, <2>3, <2>5, <2>6, SMTT(30) DEF HostInv
  <1> QED
    BY <1>1, <1>2, <1>3, <1>4, SetupStep, CheckStep, MemsetConfigureStep, DisturbStep, FlushStep,
       ConfigureReaderStep, StartStep, PollStep, ReadStep, FinalStep, SMTT(30) DEF Script

\* Every behaviour of the experiment satisfies the invariant.
LEMMA HostInvariant == HostSpec => []HostInv
  <1>1. HostInit("idle") => HostInv
    BY HostStart
  <1>2. HostInv /\ [Wait \/ Script]_memtestVars => HostInv'
    BY HostStep, SMTT(30)
  <1> QED
    BY <1>1, <1>2, PTL DEF HostSpec

(***************************************************************************)
(* The assertions of hw_memset and hw_memtest hold: the modules are ready  *)
(* whenever the script says they are, and no error is left behind when it  *)
(* says it has read them all (utils.py:380, 433, 483, 484).                *)
(***************************************************************************)
THEOREM AssertionsNeverFail == HostSpec => []AssertionsHold
  <1>1. HostInv => AssertionsHold
    BY SMTT(30) DEF HostInv, HostTypes, AssertionsHold, Setting, Scan
  <1> QED
    BY <1>1, HostInvariant, PTL

(***************************************************************************)
(* hw_memtest returns exactly the words that were disturbed since          *)
(* hw_memset filled the same range, each of them once, in the order of     *)
(* their transfers, with the data that was read and the data that was      *)
(* expected, inverted rows included.                                       *)
(***************************************************************************)
THEOREM AllErrorsReturned == HostSpec => []ReturnsAllErrors
  <1>1. ASSUME HostInv, h_pc = "returned"
        PROVE  {errors[i].offset : i \in 1 .. Len(errors)} =
                 flipped \cap {TransferAddr(args, k) : k \in 0 .. args.count - 1}
    <2>1. /\ cfg = args /\ Reports(errors, Mismatches(args.count))
          /\ \A k \in 0 .. args.count - 1 :
               TransferAddr(args, k) \in flipped <=> dram[TransferAddr(args, k)] # TransferData(args, k)
      BY <1>1, SMTT(30) DEF HostInv, ErrorsInv, MemoryInv, Configured, Disturbed
    <2>2. PICK b \in [1 .. Len(errors) -> Mismatches(args.count)] :
            /\ Mismatches(args.count) = {b[i] : i \in 1 .. Len(errors)}
            /\ \A i \in 1 .. Len(errors) : errors[i] = ErrorOf(b[i])
      BY <2>1, ZenonT(30) DEF Reports, ErrorOf
    <2>3. Mismatches(args.count) = {k \in 0 .. args.count - 1 : TransferAddr(args, k) \in flipped}
      BY <2>1, SMTT(30) DEF Mismatches
    <2>4. ASSUME NEW i \in 1 .. Len(errors)
          PROVE  errors[i].offset = TransferAddr(args, b[i])
      BY <2>1, <2>2, OffsetOf, Zenon
    <2>5. ASSUME NEW i \in 1 .. Len(errors)
          PROVE  errors[i].offset \in flipped \cap {TransferAddr(args, k) : k \in 0 .. args.count - 1}
      <3>1. b[i] \in 0 .. args.count - 1 /\ TransferAddr(args, b[i]) \in flipped
        BY <2>2, <2>3, SMTT(30), Z3
      <3> QED
        BY <2>4, <3>1, SMTT(30)
    <2>6. ASSUME NEW k \in 0 .. args.count - 1, TransferAddr(args, k) \in flipped
          PROVE  \E i \in 1 .. Len(errors) : TransferAddr(args, k) = errors[i].offset
      <3>1. k \in {b[i] : i \in 1 .. Len(errors)}
        BY <2>2, <2>3, <2>6, SMTT(30)
      <3>2. PICK i \in 1 .. Len(errors) : b[i] = k
        BY <3>1
      <3> QED
        BY <2>4, <3>2
    <2> QED
      BY <2>5, <2>6, SMTT(30)
  <1>2. HostInv => ReturnsAllErrors
    BY <1>1, Zenon DEF ReturnsAllErrors, HostInv, ErrorsInv
  <1> QED
    BY <1>2, HostInvariant, PTL

(***************************************************************************)
(* What hw_memset has the writer write is the pattern.                     *)
(***************************************************************************)
THEOREM MemsetWritesPattern == HostSpec => []WritesPattern
  <1>1. HostInv => WritesPattern
    BY WriterRight DEF HostInv
  <1> QED
    BY <1>1, HostInvariant, PTL
-----------------------------------------------------------------------------
\* The error counter of the reader.
CountedInv == ReaderInv /\ ErrorCountExact

\* One more transfer, one more mismatch or none.
LEMMA OneMoreMismatch ==
  ASSUME NEW n \in Nat
  PROVE  /\ Cardinality(Mismatches(0)) = 0 /\ Cardinality(Mismatches(n)) \in Nat
         /\ Cardinality(Mismatches(n + 1)) =
              IF dram[TransferAddr(cfg, n)] # TransferData(cfg, n)
                THEN Cardinality(Mismatches(n)) + 1 ELSE Cardinality(Mismatches(n))
  <1>1. IsFiniteSet(Mismatches(n))
    <2>1. IsFiniteSet(0 .. n - 1)
      BY FS_Interval
    <2> QED
      BY <2>1, FS_Subset, SMTT(30) DEF Mismatches
  <1>2. Mismatches(0) = {} /\ n \notin Mismatches(n)
    BY DEF Mismatches
  <1>3. Mismatches(n + 1) = IF dram[TransferAddr(cfg, n)] # TransferData(cfg, n)
                              THEN Mismatches(n) \cup {n} ELSE Mismatches(n)
    BY DEF Mismatches
  <1> HIDE DEF Mismatches
  <1>4. Cardinality(Mismatches(0)) = 0
    BY <1>2, FS_EmptySet, SMTT(30)
  <1>5. Cardinality(Mismatches(n)) \in Nat
    BY <1>1, FS_CardinalityType, SMTT(30)
  <1>6. Cardinality(Mismatches(n) \cup {n}) = Cardinality(Mismatches(n)) + 1
    BY <1>1, <1>2, FS_AddElement, SMTT(30)
  <1> QED
    BY <1>3, <1>4, <1>5, <1>6, SMTT(30)

\* A comparison counts an error if and only if the transfer is a mismatch.
LEMMA ErrorCountTick ==
  ASSUME ReaderInv, ErrorCountExact, NEW start \in BOOLEAN, start => Ready, NEW answer \in BOOLEAN,
         PatternStep(start, answer), UNCHANGED <<cfg, dram>>
  PROVE  ErrorCountExact'
  <1>0. counter_gen \in Nat /\ p_state \in PatternStates
    BY DEF ReaderInv, QueueInv, ReaderTypes
  <1>1. \A n : Mismatches(n)' = Mismatches(n)
    BY SMTT(30) DEF Mismatches
  <1>2. CASE Ready
    <2>1. \/ counter_gen' = 0 /\ error_count' = 0
          \/ p_state' = "READY"
      <3>1. p_state = "READY" /\ PatternStep(start, answer)
        BY <1>2 DEF Ready
      <3> QED
        BY <3>1, Zenon DEF PatternStep
    <2>2. Cardinality(Mismatches(0)) = 0
      BY OneMoreMismatch
    <2>3. ~Ready' => error_count' = Cardinality(Mismatches(counter_gen'))
      BY <2>1, <2>2, Zenon DEF Ready
    <2> QED
      BY <1>1, <2>3, Zenon DEF ErrorCountExact
  <1>3. CASE TakeData(answer)
    <2>1. p_state = "RD_DATA" /\ dma # <<>>
      BY <1>3, Zenon DEF TakeData
    <2>2. error_count = Cardinality(Mismatches(counter_gen))
      <3>1. ~Ready
        BY <2>1 DEF Ready
      <3> QED
        BY <3>1, Zenon DEF ErrorCountExact
    <2>3. inv.out = TransferData(cfg, counter_gen) /\ Head(dma) = TransferAddr(cfg, counter_gen)
      BY <1>3, Compared, Zenon
    <2>4. Compare
      BY <1>3, <2>1, Zenon DEF PatternStep
    <2>5. /\ counter_gen' = counter_gen + 1
          /\ error_count' = IF dram[TransferAddr(cfg, counter_gen)] # TransferData(cfg, counter_gen)
                               THEN error_count + 1 ELSE error_count
      BY <2>3, <2>4, Zenon DEF Compare
    <2> QED
      BY <1>0, <1>1, <2>2, <2>5, OneMoreMismatch, Zenon DEF ErrorCountExact
  <1>4. CASE ~Ready /\ ~TakeData(answer)
    <2>1. counter_gen' = counter_gen /\ error_count' = error_count
      <3>1. p_state # "READY"
        BY <1>4 DEF Ready
      <3> QED
        BY <1>4, <3>1, Zenon DEF PatternStep
    <2> QED
      BY <1>1, <1>4, <2>1, Zenon DEF ErrorCountExact
  <1> QED
    BY <1>2, <1>3, <1>4, Zenon

(***************************************************************************)
(* error_count is the number of transfers whose data differs from the      *)
(* pattern, at any time of a run, as long as modulo mode is used with one  *)
(* pattern word: in that mode the reader does not go on to the next.       *)
(***************************************************************************)
THEOREM ErrorsCounted ==
  ASSUME \A c \in ReaderConfigs : c.modulo => c.data_div = 0
  PROVE  Spec => []ErrorCountExact
  <1>1. Init => CountedInv
    <2> SUFFICES ASSUME Init PROVE CountedInv
      BY SMTT(30)
    <2>1. OneWord
      BY DEF Init, OneWord
    <2> QED
      BY <2>1, ReaderInit, Zenon DEF CountedInv, ErrorCountExact, Init, Ready
  <1>2. CountedInv /\ [Next]_vars => CountedInv'
    <2> SUFFICES ASSUME CountedInv, [Next]_vars PROVE CountedInv'
      OBVIOUS
    <2>0. ReaderInv /\ ErrorCountExact
      BY DEF CountedInv
    <2>1. CASE Clock
      <3>1. PICK start \in Starts, cont, accept, answer \in BOOLEAN : Tick(start, cont, accept, answer)
        BY <2>1, SMTT(30) DEF Clock
      <3>2. start \in BOOLEAN /\ (start => Ready) /\ PatternStep(start, answer) /\ UNCHANGED <<cfg, dram>>
        BY <3>1, Zenon DEF Starts, Ready, Tick
      <3>3. ReaderInv'
        BY <2>0, <3>1, <3>2, ReaderTick, SMTT(30)
      <3>4. ErrorCountExact'
        BY <2>0, <3>1, <3>2, ErrorCountTick, SMTT(30)
      <3> QED
        BY <3>3, <3>4, SMTT(30) DEF CountedInv
    <2>2. ASSUME NEW c \in ReaderConfigs, NEW d \in Contents, Configure(c, d) PROVE CountedInv'
      <3>1. ReaderInv'
        BY <2>0, <2>2, ReaderAssumption, ReaderConfigure, SMTT(30)
      <3>2. ErrorCountExact'
        BY <2>2, SMTT(30) DEF Configure, Ready, patternVars, ErrorCountExact
      <3> QED
        BY <3>1, <3>2, SMTT(30) DEF CountedInv
    <2>3. ASSUME UNCHANGED <<cfg, dram, addrVars, address_fifo, dma, patternVars>>, skip_fifo' \in BOOLEAN
          PROVE  CountedInv'
      <3>1. ReaderInv'
        BY <2>0, <2>3, SkipFifoKeeps, SMTT(30)
      <3>2. ErrorCountExact'
        BY <2>0, <2>3, SMTT(30) DEF ErrorCountExact, Mismatches, Ready, patternVars
      <3> QED
        BY <3>1, <3>2, SMTT(30) DEF CountedInv
    <2>4. ASSUME NEW b \in BOOLEAN, SetSkipFifo(b) PROVE CountedInv'
      BY <2>3, <2>4, SMTT(30) DEF SetSkipFifo
    <2>5. CASE UNCHANGED vars
      BY <2>0, <2>3, <2>5, SMTT(30) DEF vars, ReaderInv, QueueInv, ReaderTypes
    <2> QED
      BY <2>1, <2>2, <2>4, <2>5, SMTT(30) DEF Next, Host
  <1>3. CountedInv => ErrorCountExact
    BY DEF CountedInv
  <1> QED
    BY <1>1, <1>2, <1>3, PTL DEF Spec
=============================================================================
