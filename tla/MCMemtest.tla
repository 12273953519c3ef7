------------------------------ MODULE MCMemtest ------------------------------
(***************************************************************************)
(* BIST writer and reader for TLC, driven by the experiment of the scripts *)
(* or, one of them, by any CSR accesses of another host that starts it     *)
(* when it is ready.                                                       *)
(***************************************************************************)
EXTENDS MemtestHost, TLC

\* As hw_memset and hw_memtest configure them: one pattern word, linear
\* addresses.
Linear(n, from, i) ==
  [count |-> n, modulo |-> FALSE, data_div |-> 0, data_mod |-> 1, mem_mod |-> 8,
   addr |-> [w \in PatternWords |-> from], data |-> [w \in PatternWords |-> 0],
   divisor |-> 2, selection |-> i]

\* Two pattern words with different data; p is modulo, data_div, data_mod.
Pattern(n, p, m, i) ==
  [count |-> n, modulo |-> p[1], data_div |-> p[2], data_mod |-> p[3], mem_mod |-> m,
   addr |-> 0 :> 2 @@ 1 :> 5, data |-> 0 :> 0 @@ 1 :> 1,
   divisor |-> 2, selection |-> i]

\* For the writer: masked and modulo pattern addressing, linear filling that wraps
\* around and fixed addresses, no, every other and all rows inverted.
MCWriterPatterns ==
  {Pattern(0, <<FALSE, 1, 1>>, 8, {})}
    \cup {Pattern(4, p, 8, i) : p \in {<<FALSE, 1, 2>>, <<TRUE, 1, 1>>}, i \in {{}, {1}}}
    \cup {Pattern(4, <<FALSE, 1, 2>>, 1, {0, 1})}

MCReaderPatterns == {Pattern(0, <<FALSE, 1, 1>>, 8, {}), Pattern(3, <<FALSE, 1, 2>>, 8, {1})}

MCLinear == {Linear(2, 0, {}), Linear(4, 4, {1})}
MCConfigs == MCLinear \cup MCReaderPatterns \cup MCWriterPatterns

MCContents == {[a \in Addresses |-> IF a \in w THEN 1 ELSE 0] : w \in {{2, 3, 6, 7}, 4 .. 7}}

\* No error in the first range and some in the second; one, and more in a row
\* than the error FIFO holds.
MCDisturbances == {{5, 6}, {0} \cup 4 .. 7}

AnyReader == h_pc = "any_reader"
AnyWriter == h_pc = "any_writer"

DirectReader ==
  /\ AnyReader /\ Next /\ cfg' \in MCReaderPatterns
  /\ UNCHANGED <<writerVars, hostVars>>

DirectWriter ==
  /\ AnyWriter
  /\ \/ \E start, taken \in BOOLEAN : WriterCycle(start, taken)
     \/ \E c \in MCWriterPatterns : W!Configure(c) /\ UNCHANGED readerVars
  /\ UNCHANGED hostVars

\* The other host reads the errors; the DMA takes the word.
DirectReads ==
  /\ AnyReader
  /\ \E start \in Starts, accept, answer \in BOOLEAN : ReaderCycle(start, TRUE, accept, answer)
  /\ UNCHANGED hostVars
DirectTakes == AnyWriter /\ WriterCycle(FALSE, TRUE) /\ UNCHANGED hostVars

MCInit ==
  /\ \E pc \in {"idle", "any_reader", "any_writer"} : HostInit(pc)
  /\ args = Linear(2, 0, {})
  /\ cfg \in (IF AnyReader THEN MCReaderPatterns ELSE {Linear(2, 0, {})})
  /\ w_cfg \in (IF AnyWriter THEN MCWriterPatterns ELSE {Linear(2, 0, {})})
  /\ AnyReader \/ dram = [a \in Addresses |-> IF a \in 4 .. 7 THEN 1 ELSE 0]

MCNext == DirectReader \/ DirectWriter \/ (~AnyReader /\ ~AnyWriter /\ (Wait \/ Script))

MCSpec ==
  /\ MCInit /\ [][MCNext]_memtestVars
  /\ WF_memtestVars(~AnyReader /\ ~AnyWriter /\ Served) /\ SF_memtestVars(Script)
  /\ WF_memtestVars(DirectReads) /\ WF_memtestVars(DirectTakes)
=============================================================================
