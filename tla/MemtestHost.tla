----------------------------- MODULE MemtestHost -----------------------------
(***************************************************************************)
(* An experiment of the scripts (scripts/utils.py): setup_inverters and    *)
(* hw_memset fill a range of DRAM with the BIST writer, something disturbs *)
(* DRAM, and hw_memtest reads the range back with the BIST reader.  The    *)
(* modules are clocked on while the host waits: two CSR accesses are at    *)
(* least HostGap clock cycles apart (an access is a round trip over the    *)
(* network).  The accesses that configure an idle module are one step; the *)
(* registers of the module that is not in use hold their values.           *)
(***************************************************************************)
EXTENDS BISTReader

CONSTANTS
  HostGap,
  Disturbances           \* sets of addresses whose words may flip together

ASSUME HostAssumption == HostGap \in Nat \ {0} /\ Disturbances \subseteq SUBSET Addresses

VARIABLES
  w_cfg, w_state, cmd_counter, w_mem_addr, w_dram_addr, w_wait_counter,
  w_addr_dat, w_data_dat, w_inv, sent                        \* the writer

W == INSTANCE BISTWriter
       WITH WriterConfigs <- ReaderConfigs, cfg <- w_cfg, state <- w_state,
            mem_addr <- w_mem_addr, dram_addr <- w_dram_addr,
            wait_counter <- w_wait_counter, addr_dat <- w_addr_dat,
            data_dat <- w_data_dat, inv <- w_inv

VARIABLES
  h_pc,                  \* next access of the script
  args,                  \* offset, size and pattern it was called with
  flipped,               \* the words that were disturbed since hw_memset
  polled,                \* has reader_ready been seen after the start?
  errors,                \* the list hw_memtest returns
  gap                    \* cycles since the last access, up to HostGap

callVars == <<args, flipped>>
hostVars == <<h_pc, callVars, polled, errors, gap>>
fifoVars == <<skip_fifo, addrVars, address_fifo, dma, patternVars, errorVars>>
readerVars == <<cfg, dram, fifoVars>>
transferVars == <<w_state, cmd_counter, w_mem_addr, w_dram_addr, w_wait_counter,
                  w_addr_dat, w_data_dat, w_inv, sent>>
writerVars == <<w_cfg, transferVars>>
moduleVars == <<readerVars, writerVars>>
memtestVars == <<moduleVars, hostVars>>

\* The scripts set the data mask to 0 and leave data_div at 0: always word 0.
ScriptConfigs == {c \in ReaderConfigs : c.data_mod = 1 /\ c.data_div = 0}

HostInit(pc) ==
  /\ Init /\ W!Init
  /\ h_pc = pc /\ args \in ScriptConfigs /\ flipped = {}
  /\ polled = FALSE /\ errors = <<>> /\ gap = HostGap

\* A clock cycle of the writer: DRAM gets the word the DMA takes.
WriterCycle(start, taken) ==
  /\ W!Tick(start, taken)
  /\ dram' = IF w_state = "SEND" /\ taken THEN [dram EXCEPT ![w_dram_addr] = w_inv.out]
                                          ELSE dram
  /\ UNCHANGED <<cfg, fifoVars>>

ReaderCycle(start, cont, accept, answer) ==
  Tick(start, cont, accept, answer) /\ UNCHANGED writerVars

InMemset == h_pc \in {"ms_assert", "ms_configure", "ms_start", "ms_poll"}

\* An access at `at', after which the script goes on at `to'.
Access(at, to) == h_pc = at /\ gap = HostGap /\ gap' = 0 /\ h_pc' = to

\* A cycle without a write pulse.  `served': no DMA refuses or delays anything.
QuietCycle(served) ==
  /\ IF InMemset THEN \E taken \in {served, TRUE} : WriterCycle(FALSE, taken)
                 ELSE \E accept, answer \in {served, TRUE} :
                        ReaderCycle(FALSE, FALSE, accept, answer)
  /\ gap' = IF gap < HostGap THEN gap + 1 ELSE gap
  /\ UNCHANGED <<h_pc, callVars, polled, errors>>

Wait == QuietCycle(FALSE)
-----------------------------------------------------------------------------
(***************************************************************************)
(* setup_inverters and hw_memset.                                          *)
(***************************************************************************)
Inverters(c, a) == [c EXCEPT !.divisor = a.divisor, !.selection = a.selection]

\* Both pattern memories are written by hw_memset and by hw_memtest.
PatternOf(c, a) == [c EXCEPT !.addr = a.addr, !.data = a.data]

SetupInverters(a) ==
  /\ h_pc = "idle"
  /\ h_pc' = "ms_assert" /\ args' = a /\ flipped' = {} /\ polled' = FALSE /\ errors' = <<>>
  /\ cfg' = Inverters(cfg, a) /\ w_cfg' = Inverters(w_cfg, a)
  /\ UNCHANGED <<dram, fifoVars, transferVars, gap>>

\* assert writer_ready == 1
MemsetAssert ==
  /\ Access("ms_assert", IF w_state = "READY" THEN "ms_configure" ELSE "failed")
  /\ UNCHANGED <<moduleVars, callVars, polled, errors>>

MemsetConfigure ==
  /\ Access("ms_configure", "ms_start")
  /\ W!Configure(args) /\ cfg' = PatternOf(cfg, args)
  /\ UNCHANGED <<dram, fifoVars, callVars, polled, errors>>

MemsetStart ==
  /\ Access("ms_start", "ms_poll")
  /\ \E taken \in BOOLEAN : WriterCycle(TRUE, taken)
  /\ UNCHANGED <<callVars, polled, errors>>

\* while True: if writer_ready: break
MemsetPoll ==
  /\ Access("ms_poll", IF w_state = "READY" THEN "disturb" ELSE "ms_poll")
  /\ UNCHANGED <<moduleVars, callVars, polled, errors>>

\* Rows are hammered, time passes, or mem_bist.py changes words to see them found.
Disturb(d) ==
  /\ h_pc = "disturb" /\ h_pc' = "flush"
  /\ flipped' = d
  /\ dram' = [a \in Addresses |-> Invert(dram[a], a \in d)]
  /\ UNCHANGED <<cfg, fifoVars, writerVars, args, polled, errors, gap>>
-----------------------------------------------------------------------------
(***************************************************************************)
(* hw_memtest.                                                             *)
(***************************************************************************)
FlushErrorFifo ==
  /\ Access("flush", "enable") /\ SetSkipFifo(TRUE)
  /\ UNCHANGED <<writerVars, callVars, polled, errors>>

EnableErrorFifo ==
  /\ Access("enable", "assert") /\ SetSkipFifo(FALSE)
  /\ UNCHANGED <<writerVars, callVars, polled, errors>>

AssertReady ==
  /\ Access("assert", IF Ready THEN "configure" ELSE "failed")
  /\ UNCHANGED <<moduleVars, callVars, polled, errors>>

\* One pattern word and linear addresses; the words of the test are all equal.
ConfigureReader ==
  /\ Access("configure", "start")
  /\ Configure(args, dram) /\ w_cfg' = PatternOf(w_cfg, args)
  /\ UNCHANGED <<transferVars, callVars, polled, errors>>

StartReader ==
  /\ Access("start", "poll")
  /\ \E accept, answer \in BOOLEAN : ReaderCycle(TRUE, FALSE, accept, answer)
  /\ UNCHANGED <<callVars, polled, errors>>

\* Mutant: the errors found since the last poll are left in the FIFO.
MutantForgetsLastErrors ==
  /\ Access("poll", IF Ready THEN "final" ELSE "error_ready")
  /\ polled' = Ready
  /\ UNCHANGED <<moduleVars, callVars, errors>>

\* while True: if reader_ready: break; append_errors(...)
PollReady ==
  /\ Access("poll", "error_ready")
  /\ polled' = Ready
  /\ UNCHANGED <<moduleVars, callVars, errors>>

\* append_errors: while reader_error_ready ...
ReadErrorReady ==
  /\ Access("error_ready", IF e_state = "VALID" THEN "read_error"
                           ELSE IF polled THEN "final" ELSE "poll")
  /\ UNCHANGED <<moduleVars, callVars, polled, errors>>

\* Offset, data and expected, one step: they only change after a continue.
ReadError ==
  /\ Access("read_error", "continue")
  /\ errors' = Append(errors, error_reg)
  /\ UNCHANGED <<moduleVars, callVars, polled>>

ContinueReading ==
  /\ Access("continue", "error_ready")
  /\ \E accept, answer \in BOOLEAN : ReaderCycle(FALSE, TRUE, accept, answer)
  /\ UNCHANGED <<callVars, polled, errors>>

\* assert reader_ready == 1; assert reader_error_ready == 0; return errors
FinalAsserts ==
  /\ Access("final", IF Ready /\ e_state = "INVALID" THEN "returned" ELSE "failed")
  /\ UNCHANGED <<moduleVars, callVars, polled, errors>>

Return == h_pc \in {"returned", "failed"} /\ h_pc' = "idle"
          /\ UNCHANGED <<moduleVars, callVars, polled, errors, gap>>

Script ==
  \/ \E a \in ScriptConfigs : SetupInverters(a)
  \/ MemsetAssert \/ MemsetConfigure \/ MemsetStart \/ MemsetPoll
  \/ \E d \in Disturbances : Disturb(d)
  \/ FlushErrorFifo \/ EnableErrorFifo \/ AssertReady \/ ConfigureReader
  \/ StartReader \/ PollReady \/ ReadErrorReady \/ ReadError \/ ContinueReading
  \/ FinalAsserts \/ Return

HostSpec == HostInit("idle") /\ [][Wait \/ Script]_memtestVars

\* The modules are clocked, the DMAs serve them, and the script goes on.
Served == QuietCycle(TRUE)

FairHostSpec == HostSpec /\ WF_memtestVars(Served) /\ SF_memtestVars(Script)
-----------------------------------------------------------------------------
\* `list' has an error for each transfer in `bad', in the order of the transfers.
Reports(list, bad) ==
  \E k \in [1 .. Len(list) -> bad] :
    /\ bad = {k[i] : i \in 1 .. Len(list)}
    /\ \A i, j \in 1 .. Len(list) : i < j => k[i] < k[j]
    /\ \A i \in 1 .. Len(list) :
         list[i] = [offset   |-> TransferAddr(cfg, k[i]),
                    data     |-> dram[TransferAddr(cfg, k[i])],
                    expected |-> TransferData(cfg, k[i])]

(***************************************************************************)
(* The writer writes the pattern of its configuration, whichever host set  *)
(* it (class Writer; WritesPattern of BISTWriter).                         *)
(***************************************************************************)
WritesPattern == W!WritesPattern

(***************************************************************************)
(* hw_memtest returns the words that were disturbed since hw_memset filled *)
(* the same range, inverted rows included: each of them once, in order,    *)
(* with its address and data, and no other, however DMA stalls, the FIFOs  *)
(* and the polling interleave ("Make sure we read all errors",             *)
(* utils.py:480; "Flush error fifo", utils.py:427).                        *)
(***************************************************************************)
ReturnsAllErrors ==
  h_pc = "returned" =>
    /\ Reports(errors, Mismatches(cfg.count))
    /\ {errors[i].offset : i \in 1 .. Len(errors)} =
         flipped \cap {TransferAddr(args, k) : k \in 0 .. args.count - 1}

(***************************************************************************)
(* The assertions of hw_memset and hw_memtest hold (utils.py:380, 433,     *)
(* 483, 484).                                                              *)
(***************************************************************************)
AssertionsHold == h_pc # "failed"

(***************************************************************************)
(* hw_memset and hw_memtest return, and a module that was started          *)
(* finishes, the writer after exactly `count' words: with a full error     *)
(* FIFO the reader waits for the script, which waits for the reader to be  *)
(* ready, but never both at once.                                          *)
(***************************************************************************)
Returns == Finishes /\ W!Finishes /\ ((h_pc = "ms_assert") ~> (h_pc = "returned"))
=============================================================================
