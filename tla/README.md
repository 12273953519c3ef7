# Verification of the rowhammer tester

TLA+ modules of the rowhammer tester: the gateware that executes payloads and
fills and tests the memory, the scripts that drive it, their logs and plots, the
generators and the verifier of payloads, the network server of the firmware. TLC
checks them on small instances; TLAPS proves, for every instance, the safety of the
payload executor, of memory fill and test, of the row hammer scripts, of the
Etherbone server, of read leveling and of the playbook. `PROJECT.json` maps every
definition to the lines it models and lists components, runs, hazards, findings
and theorems. Paths below are relative to `src/rowhammer_tester/`.

## The system

A rowhammer tester is an FPGA design (LiteX, Migen) and Python scripts on a host,
connected by an Etherbone bridge that gives the host the control registers (CSRs)
and memories of the design. An experiment fills the DRAM with a pattern (BIST
writer), disturbs it, and reads it back (BIST reader). It is disturbed in one of
three ways: the row hammer DMA reads two rows in turn until the host stops it; the
BIST reader reads rows in its modulo mode; or the payload executor takes the DRAM
bus from the memory controller and issues the commands of a small program.

| Part | Source | Module | State |
|---|---|---|---|
| Payload executor | `gateware/payload_executor.py` | `PayloadISA`, `PayloadExecutor` | FSM, program, loop and idle counters, fetched word, command registers |
| DFI switch, refresh counter | `gateware/payload_executor.py` | `DFISwitch` | owner of the bus, refresh counter and the CSRs of the switch |
| Instruction set | `gateware/payload_executor.py` | `PayloadMachine`, `PayloadRefinement` | the abstract machine: the commands of a program, cycle by cycle |
| Scratchpad, read path | `gateware/payload_executor.py` | `Scratchpad`, `PayloadReadPath` | counter, write address, data on their way through the PHY |
| Payload encoder | `gateware/payload_executor.py`, `scripts/utils.py` | `PayloadEncoder` | operators only |
| BIST writer | `gateware/bist.py` | `BISTCommon`, `BISTWriter` | FSM, counters, latches of pattern memories and inverter |
| BIST reader | `gateware/bist.py` | `BISTCommon`, `BISTReader` | three FSMs, address FIFO, DMA, error FIFO |
| Memory fill and test | `scripts/utils.py` (`setup_inverters`, `hw_memset`, `hw_memtest`), `scripts/mem_bist.py` | `MemtestHost` (extends `BISTReader`, instantiates `BISTWriter`) | next CSR access, the memory, the errors read |
| Payload execution | `scripts/utils.py` (`execute_payload`), `scripts/execute_payload.py` | `ExecutePayload` (extends `PayloadReadPath`) | next CSR access, the scratchpad as read |
| Etherbone server | `../firmware/zcu104/etherbone`, `scripts/utils.py` (`memfill`, `memcheck`), `scripts/mem.py` (`memtest`) | `Etherbone` | mapped memory, sockets, step of each script |
| Row hammer DMA | `gateware/rowhammer.py`, `scripts/rowhammer.py` (`attack`) | `RowHammerDMA` | counter, CSRs, the polling host |
| Row hammer scripts | `scripts/rowhammer.py`, `scripts/hw_rowhammer.py` | `RowHammer` (extends `RowHammerDMA`, `RowHammerLog`) | arguments, loop of `main`, `run`, refresh and modulo settings, flipped cells, log |
| Log and its plots | `scripts/rowhammer.py` (`display_errors`), `scripts/logs2dq.py`, `logs2plot.py`, `logs2vis.py` | `RowHammerLog` | operators only |
| Payload generation | `scripts/playbook/lib/__init__.py` | `PayloadLib`, `IdlePayload` | the payload as it grows, accumulated times |
| Playbook | `scripts/playbook/playbook.py`, `payload_generators/idle.py`, `row_mappings` | `Playbook`, `AddressConverter` | configuration, step of `main`, ranges filled and tested, address cache, log |
| Row list generators | `payload_generators/row_list.py`, `logged_row_list.py`, `row_generators` | `RowList` (instantiated by `Playbook`) | iteration |
| Half-Double analysis | `payload_generators/half_double_analysis.py` | `HalfDouble` (instantiated by `Playbook`) | search state, row list, histogram |
| Hammer tolerance | `payload_generators/hammer_tolerance.py` | `HammerTolerance` (instantiated by `Playbook`) | iteration, baseline, histograms |
| Read leveling | `scripts/read_level.py` | `ReadLeveling` | scan position, settings of the PHY, scores |
| Payload verifier | `payload/verify_payload.py`, `ddr3lib.py`, `ddr4lib.py` | `PayloadVerifier` | instruction pointer, tick, limits of rank, groups, banks |

`PROJECT.json` has the complete list of components.

## How code became actions

*Gateware.* A step is a clock edge. Combinational signals are operators over the
registers, synchronous assignments are primed variables, each FSM state is an
action, and the FSMs of a module step together (`Tick`). Memories with a
synchronous port deliver one cycle later: `PayloadExecutor.Fetch` and the latches
of `BISTCommon`. What lies outside is an input of the tick: `start`, the
controller's refresh commands, acceptance and answers of the DMA.

*Scripts.* A step is a CSR access or a phase between two decisions. In
`MemtestHost`, `ExecutePayload` and `RowHammerDMA` the gateware goes on between two accesses,
because there the interleaving matters; in `RowHammer` the DMA goes on between two
polls, for the same reason. Other transfers of `RowHammer` and `Playbook` are one
step, because their behaviour is the subject of another module. A command line or a
configuration is chosen in the initial state and does not change. The log is a
function, and the scripts that draw it are operators on it: what they count is
modelled, not how it looks.

*Data.* Words are 0 or 1, or the command they encode; addresses, rows and read
counts are small numbers. Counters and fields keep their width as a modulus
(`LoopMod`, `RefMod`, `NoopMod`, the masks of `PayloadEncoder.Encoded`) since
truncation is part of what is checked. Names beginning with `Mutant` are wrong
versions of the definition that follows them: with one put in its place, the
property it is listed for fails.

External behaviour is only what the code relies on: the DMA accepts addresses at
any time and answers in order, the PHY answers a READ after a fixed latency, a CSR
access takes at least `HostGap` cycles, and memory cells may flip as they like.

## Runs

Each run is `tlc -config <cfg> <module>`. The first eight pass, the last four show
disagreements of the code with its documentation or its own assertions.

**Payload** (`MCPayload`). Executor and switch over all well-formed programs of
four words from five instructions, and a few with timeslice 0, empty loops and
full memories. With a depth of four a program has room for a body, a loop, a
second loop and the end of memory; `LoopMod` and `RefMod` of four let both counters
wrap. The executor owns the bus whenever it runs (`OwnsBus`), its last command is
still connected (`NoCommandLost`), it starts with loop counter 0 although nothing resets it
(`StartsClean`), takes the bus at the refresh asked for (`SwitchedAtRefresh`), and
ends (`Completes`). `ImplementsMachine` is refinement: `PayloadRefinement` maps
executor and switch to `PayloadMachine`, whose `Timeline` unrolls a program into
the command of every cycle. Fairness: the clock runs, and a controller with
refresh enabled keeps refreshing; without refreshes a wait for one may last for
ever, as it does in the code. In the same model the script that runs payloads drives
executor, PHY and scratchpad, with fewer, as many and more READs than the scratchpad has
words, with and without a refresh to wait for: it returns with the bus back at the
controller (`ScriptReturns`), and what it reads back, `read_count` and the overflow flag
included, is the data of its own READs, also in a second execution (`SpacedReadsBack`).
That needs rdphase 0, and READs of one cycle with a NOOP behind each; the run ReadPath
is about the others. `HostGap` of three cycles is far below the round trip of an access;
the write port needs two. The script is fair as well.

**Memtest** (`MCMemtest`). An experiment: `setup_inverters` and `hw_memset` over the
writer, words that flip, `hw_memtest` over the reader, again and again; or one of
the modules with a host that configures it as it likes and does anything but start
the reader when it is not ready (the condition the register's description gives).
The writer writes the pattern through the latencies of memories and inverter under
any back pressure; the queues of the reader are in step and empty when it is
ready; the error count is exact; `hw_memtest` returns exactly the words of the
range that flipped since `hw_memset`, inverted rows included; the assertions of
the scripts hold; and all end although the reader waits for the script when its
error FIFO is full while the script waits for ready. FIFO depths of one and two,
and up to four errors in a row, fill every queue. Fairness: the clock and the DMAs
go on, the script takes its next access (strongly fair, as accesses wait for the
gap between them), another host reads errors.

**Etherbone** (`MCEtherbone`). The server with two scripts on neighbouring ranges,
two transfers each, a socket buffer of two datagrams, any loss, and a stray
datagram of each kind the server tells apart. One script writes a single pattern
(`memfill`), the other words that differ (`memtest` of `mem.py`), so that a word
written to the wrong place shows. `memcheck` reports exactly the words
whose write was lost (`MemcheckExact`); every script ends, with a result unless its
read was lost or the server ended, which without `--etherbone-abort` only a failing
socket causes (`ScriptsEnd`). Counts modulo three and transfers of two words
stand for counts of 8 bits and transfers of 255 words. Fairness: server and scripts go on; nothing is
assumed of delivery but order.

**PayloadLib** (`MCPayloadLib`). `generate_payload_from_row_list` for read counts
around the limit of a loop, one to five rows, with and without refresh, also
requests that it rejects; and `generate_idle_payload`. The payload is encoded with
its field widths and unrolled by `PayloadMachine`: rows are hammered as often as
asked (`HammersEachRow`), no row past the refresh interval (`HammersWithinInterval`),
tRAS, tRP and tRFC are kept (`KeepsTimings`), refreshes are counted and the printed time
is that of the executor but for the jumps (`ReportsMatch`), and the idle payload idles
for exactly the clocks asked for (`IdlesExactly`). Some requests have times beyond the
timeslice field, where the payload is hammered and refreshed as asked but the timings
and the printed time do not hold: those two are stated for times that fit.
`IdlesExactly` is stated for idle times with a rest.

**Playbook** (`MCPlaybook`). One experiment with each of five generators, the row
mappings and both values of `fill_local` (`MCConfigurations`; a field that a generator
does not read has one value), and with every outcome of each test: flips or none in
the Half-Double analysis, none, one or three flips per victim in the tolerance test,
up to two errors in four rows for the logs. The Half-Double search keeps to its limits
(`HammersBounded`) and to its victim (`HammersAroundVictim`); the tolerance test tests
every point, with a baseline of the same row (`TestsEveryPoint`), and its histograms of
flips and rows add up what the memory answered to each read count (`HistogramsExact`;
`initial_read_count` is not `read_count_step`); the rows tested were filled in the same
iteration, and so were the rows that the analysis and the row lists hammer, wherever the
range lies (`FillsWhatItHammers`); the logs list the errors of their iteration at their
rows and columns (`LogExact`); the loop ends (`ExperimentEnds`). Sixteen rows let every
range reach the last row and every sequence wrap around. The errors are in the bank of
the experiment. Fairness: the script goes on.

The code as it is (`Spec`) ends with a TypeError at the first payload of every generator
but the idle one: `get_payload` leaves out `nranks` and `rank`, which
`generate_payload_from_row_list` requires. `GeneratorSpec`, which the run and the proofs
use, has in addition a step (`PayloadGiven`) in which the call returns. Its behaviours
include those of `Spec`, and the properties also hold of the loop behind that call.

**ReadLeveling** (`MCReadLeveling`). Every eye of two modules with two bitslips
and three delays, from any setting left behind: the chosen setting reads correctly,
and leveling fails only for a module that reads nowhere.

**RowHammer** (`MCRowHammer`). Command lines of `rowhammer.py` and `hw_rowhammer.py`:
every way to choose rows, two read counts, with and without refresh, the DMA, the BIST
reader and the payload executor, the patterns, and arguments that are refused. The
DMA is stepped cycle by cycle under a polling host, with any back pressure. The memory
may flip any set of `MCFlips` in every attack: no cell, one, two in a word, two columns of
a row, the same row and column of two banks, more rows than a plot has groups. A check, a later run and the end of the
script find refresh on and the reader out of modulo mode (`SettingsRestored`); each way of hammering makes the reads
that were asked for, the DMA sharing them evenly (`HammersAsAsked`); the log has the rows, columns
and numbers of the flips that were in the memory (`SummaryExact`); each plot shows
every flip that is in the log, under the right label (`PlotsShowEveryFlip`, with column
groups of one to three columns, of which three do not fill a row); and the
script ends (`ScriptEnds`). `CountMod` of twelve is above all read counts and lets
the counter run past them. Fairness: the script and the clock go on, and the
controller serves a read of the DMA again and again.

**PayloadVerifier** (`MCPayloadVerifier`). The verifier over all short streams of
commands for DDR3 and DDR4, from states with several banks active, and over
programs with loops, nested ones included. What it accepts keeps the timings, tFAW with
five activates included, finds banks open and closed as RD and ACT need them, and has a
PRE before a refresh (`AcceptsOnlyLegal`); it rejects nothing legal (`AllowsLegal`); it
ends on programs without nested loops (`GivesVerdict`). Its ticks agree with
`PayloadMachine`, the abstract machine the executor implements, for programs whose
numbers fit the fields of the executor (`CyclesAgree`); the verifier accepts wider ones,
and the run has some.

**PlaybookLog** (violation). The cache of base addresses in `playbook.py` is keyed
by row, not by bank and row. With errors in two banks `assert row == _row` in
`idle.py` fails.

**RowHammerPads** (violation). `logs2dq.py` draws "bitflips grouped per DQ pad". The
log numbers flips from the first digit of a binary form as wide as the expected word;
with the pattern `all_0` that is one digit, and flips of different pads get on one bar.

**RowHammerExit** (violation). With `--all-rows`, `run` is called once for each pair and
resets `bitflip_found` when it finds nothing: flips of an earlier pair do not "exit tests
as soon as bitflip is found". `ExitsOnBitFlip` asks it of every read count; without
`--all-rows` TLC finds no such case.

**ReadPath** (violation, `MCPayload`). `rddata_en` of a phase changes only with the next
command on that phase. With an rdphase other than 0 no such command comes, and in a READ
of several cycles it comes late; every cycle until then is answered and stored, and the
scratchpad is not "filled with data from subsequent READ commands" only (`ReadsBack`).

States that may stop (`CHECK_DEADLOCK FALSE`) are those of scripts that end.

## Proofs

Eight modules hold proofs, each about the module it extends. A theorem holds for
every value of the constants that satisfies the named `ASSUME`s of the modules; what
more it needs is a hypothesis in its `ASSUME ... PROVE`. All follow one argument: an
invariant that the initial states satisfy, that every action keeps, and that implies
the property. TLC has also checked each invariant on the instance of the run.

**`PayloadExecutorProofs`**, for every memory depth, counter width and set of programs.

- `TypeCorrect`: `Spec => []TypeOK`.
- `BusOwnership` and `CommandsDelivered`: `OwnsBus` and `NoCommandLost`, if no
  program has a command of several cycles in the last word of the memory
  (`LastWordShort`). Neither is inductive. `HandoverInv` adds that the request for the
  bus follows the state of the executor and that the decoded word is the one in
  memory, since whether RUN ends the program or goes on depends on that word.
- `CleanStart`: `StartsClean`, if the programs are well formed. `LoopInv` says
  that a loop counter other than 0 belongs to one LOOP whose body the program
  counter is in; bodies without LOOP and STOP keep it there until the LOOP resets
  the counter.
- `SwitchAtRefresh`: the action property `SwitchedAtRefresh`, with no condition on
  the programs. `RefreshInv` says that in the one cycle between the switch and the
  first cycle of RUN the latch sees the edge, the counter is at the refresh asked for,
  and no REF of a payload is on the bus.

The conditions are needed: the first two limits below are what happens without them.

**`BISTProofs`**, for every memory, pattern, back pressure, FIFO depth and latency of the
DMA. It also has the lemmas about pattern memories and latches that writer and reader
share, and those about the errors on their way to the host.

- `PatternWritten` (`WritesPattern`): latches, counters and the word offered to the DMA
  belong to the same transfer (`WriterInv`), for a host that configures the writer as it
  likes while it is ready.
- `QueuesStayInStep` (`QueuesInStep`): `QueueInv` accounts for every transfer from the
  address FSM over address FIFO and DMA to the comparison, so that counts, heads and
  lengths of all queues agree.

**`MemtestProofs`** is about script, reader, writer and memory together. `HostInv`
consists of the invariants of both modules, of which of them may run at each access of
the script (`ModulesInv`), of the errors that are in the script's list, in the output
register, in the FIFO or still to come (`ErrorsInv`), and of what `hw_memset` has
written so far (`MemoryInv`).

- `AssertionsNeverFail` (`AssertionsHold`): the assertions of `hw_memset` and
  `hw_memtest`.
- `AllErrorsReturned` (`ReturnsAllErrors`): each word that differs is returned once and
  in order, although ready, error count and error registers are read one at a time while
  the reader runs.
- `MemsetWritesPattern` (`WritesPattern`), for the configurations that scripts write.

`HostAssumption` has the two conditions: an access takes at least one cycle, and what
disturbs the memory changes words of the memory. Scripts write data patterns of one word
(`ScriptConfigs`), so that modulo mode needs no hypothesis here.

The module also has `ErrorsCounted` (`ErrorCountExact`), about the reader under any host:
the count is the number of transfers compared so far that differ. There, in modulo mode
the data pattern must have one word; limit 6 below is what happens otherwise.

**`RowHammerProofs`**, for every set of command lines, rows, counts and flips.

- `RestoresSettings` (`SettingsRestored`): the phases of the script are tied to the
  settings made on the way to them. `OptionsAssumption` gives the types of the options,
  and that `--row-pairs const` has two rows, as the parser asks (`nargs=2`).
- `AttacksAsAsked` (`HammersAsAsked`): `DMAInv` says how the counter of the DMA, the
  row it reads next and the reads of both rows hang together, at any pace of DMA and
  polling. `CountsFit` says that the counter does not wrap while the script polls: a
  read count and the reads during two accesses stay below its modulus (2^32).

**`EtherboneProofs`**: `MemcheckReportsLosses` (`MemcheckExact`), for any number of
scripts, any range, transfer and buffer size, any loss. `EtherboneInv` says that each
word that was sent is in exactly one place, lost, in a socket, or in the memory; that
a script has at most one read under way, after all its writes; and that a word that
was compared does not change again. Hypotheses: each script has a range of its own
(`RangesDisjoint`), and stray datagrams come from elsewhere and write elsewhere
(`StraysHarmless`).

**`ReadLevelingProofs`**: `LevelingFindsEye` (`LeveledModulesRead`), for any number of
modules, bitslips and delays, any eyes and any setting before. `LevelingInv` says that
during the scan the counters of the PHY are the loop variables, although it can only
reset and increment them, and that the scores are the scanned part of the eye. The
lemmas about the choice show that a first longest window exists whenever some setting
is good, and that its middle is a good delay, also for the window that is one delay
long and the one at the last delay. `EyesAssumption`: eyes are sets of settings.

**`PlaybookProofs`**, for every configuration of the generators, over `GeneratorSpec`.

- `AnalysisHammersBounded` (`HammersBounded`) and `AnalysisAroundVictim`
  (`HammersAroundVictim`): `AnalysisInv` ties `read_count`, the length of the row list,
  the dilution and the total of the Half-Double analysis together, whatever it found
  before. A row list has at most `dilution` entries, each read `total \div dilution`
  times, so that no row gets more than the total. Until the analysis is done none of
  its five moduli takes effect, which keeps rows and victim in step.
- `EveryPointTested` (`TestsEveryPoint`): `ToleranceInv` lists the attacks by the
  iterations before this one; quotient and remainder of an iteration give its victim
  and its read count, so that no two iterations attack the same point. Hypothesis:
  `read_count_step` is not 0, without which the points of a victim are the same.
- `FillsWhatIsHammered` (`FillsWhatItHammers`), for every geometry: what any generator
  tests, and what the Half-Double analysis and the row lists hammer, was filled. It does
  not cover the rows that the hammer tolerance test hammers (limit 15). `FillInv` says that
  from the fill to the processing of the errors the ranges are those of the current
  state of the generator. The lemmas about `get_range_from_rows` show that the addresses
  are ordered by row, so that a range covers the rows from its first to its last one,
  also when the last one is the last of the memory. The row mapping only enters through
  the rows it yields, which have to exist (`RowsExist`, `ListConfiguration`).
  `GeometryAssumption` says that the widths are numbers and that 2 to their power is a
  positive number, as the prover has no arithmetic of powers.

**`PlaybookLogProofs`**: `LogIsExact` (`LogExact`), for every geometry, any errors in any
bank and any cached base addresses. A cached base is a whole number of rows of a bank, so
that it cancels out of the column, and the row that is decoded is the one the assertion
compares (`LogInv`). `WordAssumption`: a burst and a row are whole words of four bytes.

Left to TLC, and why:

- All liveness properties: fairness and `ENABLED` are beyond the prover.
- `ImplementsMachine`, and the properties of `PayloadLib`, `IdlePayload` and
  `PayloadVerifier`: they speak of unrolled programs, flattened sequences and sums over
  payloads, which are recursive, and the prover has no induction over data.
- `SummaryExact`, `PlotsShowEveryFlip`, `HistogramsExact`: they count and sum with folds,
  for the same reason.
- `SpacedReadsBack`: it depends on how far apart the READs of a program are, which is again
  a property of its unrolling.

## Not modelled

- The SoC targets put cores together at build time, and the PHYs, the memory controller
  and the CPU's firmware are libraries outside the repository.
- `spd_eeprom.py` and `decode_ddr5_dimms.py` are tables and formatting.
- The console, LED, register dump, benchmark, analyzer and simulation scripts are
  sequences of library calls and printing.
- `mem.py` waits for the firmware of the CPU to initialise the memory; what it
  waits for is a library. Its `memtest` is in `Etherbone`.
- The `sdram_*` functions of `utils.py` are fixed lists of register writes. The functions
  of `read_level.py` that set given results, or level writes, are called by no script.
- `prepare_memory` of `rowhammer.py` uses names that are not defined, so that `run` of the
  base class always fails there; the software check behind it is
  unreachable, and is one action, `BaseRun`, that raises.
- Colours, layout, annotations and files of the plots; parsing of JSON and of options.

## Limits of the code met while modelling

The properties that pass hold within these limits. Most were seen as counterexamples of
TLC when their case was let in, the others (27 to 40) while reading the code; each is a
condition on its use.

1. `payload_executor.py:426`: a payload whose last memory word lasts two or more
   cycles starts over instead of ending.
2. `payload_executor.py:441`: a LOOP in the last memory word leaves the loop
   counter set for the next payload.
3. `payload_executor.py:255`: `rddata_en` stays set until the next command on the phase
   of READ, so that a READ of several cycles counts as several, and on another rdphase
   than 0 it is never cleared (run ReadPath).
4. `payload_executor.py:218`: data of READs in consecutive cycles are stored over
   each other.
5. `bist.py:317`: a start before both FSMs are ready is taken by one of them only.
6. `bist.py:361`: in modulo mode every word is compared with the first word.
7. `utils.py:427`: the flush does not reach an error in the output register; after
   an interrupted test the next one returns it.
8. `payload_executor.py:181`: a tRAS, tRP or tRFC beyond the timeslice field is cut, and
   not kept; the printed time is then not that of the executor.
9. `lib/__init__.py:22`: refreshes that are "less than tREFI" apart are up to tREFI and a
   jump apart; what is hammered between them stays within tREFI.
10. `lib/__init__.py:154`: the printed execution time leaves out the jumps.
11. `lib/__init__.py:213`: an idle time without a rest encodes STOP before the
    final refresh.
12. `lib/__init__.py:204`: the loop over 8192 refreshes is cut to 4096.
13. `half_double_analysis.py:145`: the dilution can exceed `max_dilution`.
14. `half_double_analysis.py:167`: only the first row is tried at distance one only.
15. `hammer_tolerance.py:100`: the upper aggressor wraps around before the lower one,
    so that with `fill_local` it is hammered near the last row without having been
    filled, and so are the dummy rows of a baseline.
16. `hammer_tolerance.py:161`: labels leave out `initial_read_count`; they are the read
    counts only where it is `read_count_step`.
17. `read_level.py:206`: a window that reaches the last delay counts one less.
18. `hw_rowhammer.py:129`: with `--no-refresh`, a payload that is too large, or a row
    beyond the last one, ends the script with refresh off.
19. `hw_rowhammer.py:147`: with `--all-rows` a later clean pair hides a bit flip
    from `--exit-on-bit-flip` (run RowHammerExit).
20. `rowhammer.py:106`: the DMA reads on while it is polled, so rows get more reads
    than asked for.
21. `payload/ddr3lib.py:35`: nested loops are not rejected, and the verifier does not end
    on some of them.
22. `payload/ddr3lib.py:99`: one PRE lifts the bar of every ACT, so that REF passes with
    another bank still open.
23. `ddr4lib.py:136`: limits of bank groups are overwritten; harmless while the long
    distances are at most twice the short ones, as assumed in `PayloadVerifier`.
24. `row_mappings/__init__.py:44`: TypeB maps two physical rows to one logical row, and
    the log keeps the errors of one of them.
25. `etherbone.c:143`: a packet with writes and reads takes the addresses to read from
    the words to write; the scripts send one kind at a time.
26. `utils.py:169`: a lost write is not noticed by the script that sent it.
27. `rowhammer.py:219`: without `--hammer-only` the base class fails on an undefined
    name, unlike `docs/source/usage.md:107`.
28. `rowhammer.py:463`: random rows include `start_row + nrows`, which the messages
    (lines 453, 457) exclude.
29. `rowhammer.py:202`: flips in the same row and column of two banks are counted
    together but only one bank's are listed.
30. `hw_rowhammer.py:112`: when the first verification fails, the log has `null` for the
    attack, which the scripts that draw it do not expect.
31. `rowhammer.py`: `--hammer-only` with the payload executor reads each row
    `read_count` times, `run` reads all of them together `read_count` times.
32. `logs2plot.py:69`: an attack without flips cannot be plotted; columns beyond the last
    multiple of `col_step` are left out.
33. `logs2vis.py:61`: `--aggressors-vs-victims` writes the last read count only, and a tile
    for each column of a victim with flips, on top of each other.
34. `utils.py:573`: `validate_keys` looks at the first key only.
35. `hammer_tolerance.py`: a beat with all 64 bits flipped fails an assertion; the number
    of chips with errors per beat is always the number of chips.
36. `row_generators/row_seq.py`: `fill_local` with a given row sequence, and
    `half_double.py` with a single side, use names that are not defined.
37. `half_double_analysis.py`, `hammer_tolerance.py`, `row_list.py` and
    `logged_row_list.py`: `get_payload` leaves out `nranks` and `rank`, a TypeError.
38. `payload/ddr3lib.py`: the verifier accepts timeslices of 8 and 9 bits and loop counts of
    20, of which the executor has 5 and 12 (`payload_executor.py:77`).
39. `hw_rowhammer.py:134`: the early return for a number of rows that is no power of two is
    not reached from `main`, whose modes attack one or two rows at a time with the reader.
40. `payload_executor.py:286`: the refresh counter recognises a DDR5 refresh from its
    address bits; `DFISwitch` takes the recognised refresh as its input.

## Plan

1. `Etherbone` with repeated and reordered datagrams, once the client library's
   handling of them can be read; it is not part of the repository.
