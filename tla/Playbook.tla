------------------------------- MODULE Playbook ------------------------------
(***************************************************************************)
(* The playbook script: main() runs experiments with the payload generator *)
(* that the configuration names: the Half-Double analysis, the hammer      *)
(* tolerance test and the row lists, in modules of their own, and the idle *)
(* generator (row retention).  The decoding of the errors and the log that *)
(* the idle generator and LoggedRowListPayloadGenerator keep are here.     *)
(* The generators share `iteration': only one of them is used in a run.    *)
(***************************************************************************)
EXTENDS AddressConverter, Sequences, FiniteSets, FiniteSetsExt, TLC

CONSTANTS
  \* HalfDoubleAnalysisPayloadGenerator
  max_total_read_count, read_count_steps, initial_dilution, dilution_multiplier, max_dilution,
  attack_rows_start, max_attack_row_idx, decoy_rows_start,
  \* HammerTolerancePayloadGenerator
  nr_rows, read_count_step, iters_per_row, max_iteration, initial_read_count, distance,
  first_dummy_row, BaselineValues, Beats, nr_chips, TestErrors,
  \* RowListPayloadGenerator, LoggedRowListPayloadGenerator
  list_rows, max_row, row_seq,
  \* IdlePayloadGenerator
  idle_iterations,       \* its max_iteration, and the row lists'
  Configurations,        \* [pg, row_mapping, row_list_generator, fill_local, baseline]
  ErrorRows, ErrorBanks, \* where the memory loses its contents
  MaxErrors              \* bound on the errors of one test

VARIABLES
  pg,                    \* the payload generator
  at,                    \* step of main()
  iteration,
  state, total_read_count, dilution, read_count, row_generator, row_count, victim_list,
  baseline, run_baseline, baseline_flips, bit_errors, row_errors,
  beat_errors, chip_errors_per_read, chip_errors_per_beat, chips_with_errors_per_beat, tests,
  row_mapping, row_list_generator, fill_local,
  filled, tested,        \* the ranges of this iteration
  addresses_per_row,     \* base address of the rows seen: _addresses_per_row
  errors,                \* what hw_memtest returned: offsets
  err_summary,           \* the log
  history                \* the errors behind each entry of the log

hdVars == <<state, total_read_count, dilution, read_count, row_generator, row_count, victim_list>>
htVars == <<baseline, run_baseline, baseline_flips, bit_errors, row_errors, beat_errors,
            chip_errors_per_read, chip_errors_per_beat, chips_with_errors_per_beat, tests>>
logVars == <<addresses_per_row, errors, err_summary, history>>
config == <<pg, row_mapping, row_list_generator, fill_local>>
vars == <<config, at, iteration, hdVars, htVars, logVars, filled, tested>>

HD == INSTANCE HalfDouble
HT == INSTANCE HammerTolerance
RL == INSTANCE RowList

ASSUME ConfigAssumption ==
  /\ HD!AnalysisAssumption /\ HT!ToleranceAssumption /\ RL!ListAssumption
  /\ Configurations \subseteq
       [pg : {"HalfDouble", "HammerTolerance", "RowList", "LoggedRowList", "Idle"},
        row_mapping : {"Trivial", "TypeA", "TypeB"}, row_list_generator : {"EvenRow", "RowSequence"},
        fill_local : BOOLEAN, baseline : BOOLEAN]
  /\ ErrorBanks \subseteq 0 .. 2^bankbits - 1

\* Errors are counted in words of four bytes: a burst and a row of a bank are whole words.
ASSUME WordAssumption == dma_data_bytes % 4 = 0 /\ (2^colbits * 2^bus_shift) % 4 = 0

Physical(rows) == {RL!logical_to_physical(r) : r \in rows}
Elements(seq) == {seq[i] : i \in DOMAIN seq}

\* The rows of a configuration exist.
RowsExist ==
  LET rows == CASE pg = "HalfDouble" -> attack_rows_start .. attack_rows_start + max_attack_row_idx - 1
                                          \cup {decoy_rows_start + 1, decoy_rows_start + 2}
                [] pg = "HammerTolerance" -> 0 .. nr_rows - 1 \cup {first_dummy_row, first_dummy_row + 2 * distance}
                [] OTHER -> {0}
  IN  Physical(rows) \subseteq 0 .. 2^rowbits - 1

Init ==
  /\ \E c \in Configurations :
       /\ pg = c.pg /\ row_mapping = c.row_mapping /\ fill_local = c.fill_local
       /\ row_list_generator = c.row_list_generator /\ baseline = c.baseline
  /\ RowsExist
  /\ pg \in {"RowList", "LoggedRowList"} => RL!ListConfiguration
  /\ at = "loop"
  /\ HD!Init /\ HT!Init
  /\ filled = RL!WholeMemory /\ tested = RL!WholeMemory
  /\ addresses_per_row = [r \in {} |-> 0]
  /\ errors = {} /\ err_summary = <<>> /\ history = <<>>
-----------------------------------------------------------------------------
Address(e) == e * dma_data_bytes
RowsOf(es) == {decode_bus(Address(e)).row : e \in es}

\* Mutant: the cache holds the first error's address, not that of the row.
MutantCachesError(es) ==
  [r \in DOMAIN addresses_per_row \cup RowsOf(es) |->
     IF r \in DOMAIN addresses_per_row THEN addresses_per_row[r]
     ELSE Address(Min({e \in es : decode_bus(Address(e)).row = r}))]

\* A row's base address is computed for the bank of its first error, and kept.
Cached(es) ==
  [r \in DOMAIN addresses_per_row \cup RowsOf(es) |->
     IF r \in DOMAIN addresses_per_row THEN addresses_per_row[r]
     ELSE LET first == Min({e \in es : decode_bus(Address(e)).row = r})
          IN  encode_bus(decode_bus(Address(first)).bank, r, 0)]

\* decode_errors: for each row the words, relative to its base address.
decode_errors(es, cache) ==
  [r \in RowsOf(es) |->
     {(Address(e) - cache[r]) \div 4 : e \in {x \in es : decode_bus(Address(x)).row = r}}]

\* update_log: where a word is found again from the base address in bank 0.
Found(r, word) == decode_bus(encode_bus(0, r, 0) + 4 * word)

\* Rows that share a logical number overwrite each other, the last one stays.
err_desc(decoded) ==
  [l \in {RL!physical_to_logical(r) : r \in DOMAIN decoded} |->
     LET r == Max({q \in DOMAIN decoded : RL!physical_to_logical(q) = l})
     IN  [physical_row |-> r, col |-> {Found(r, w).col : w \in decoded[r]},
          bitflips |-> Cardinality(decoded[r])]]

\* Mutant: an iteration without errors is not counted.
MutantReturnsEarly ==
  LET decoded == decode_errors(errors, addresses_per_row') IN
  /\ addresses_per_row' = Cached(errors)
  /\ at' = "loop"
  /\ IF errors = {} THEN UNCHANGED <<err_summary, history, iteration>>
     ELSE /\ err_summary' = Append(err_summary, err_desc(decoded))
          /\ history' = Append(history, errors)
          /\ iteration' = iteration + 1
  /\ UNCHANGED errors

\* process_errors of the generators with a log_dir; a bit flips in every error.
LogErrors ==
  LET decoded == decode_errors(errors, addresses_per_row') IN
  /\ addresses_per_row' = Cached(errors)
  /\ IF \A r \in DOMAIN decoded : \A w \in decoded[r] : Found(r, w).row = r
       THEN /\ err_summary' = Append(err_summary, err_desc(decoded))
            /\ history' = Append(history, errors)
            /\ iteration' = iteration + 1
            /\ at' = "loop"
       ELSE /\ at' = "AssertionError"
            /\ iteration' = IF pg = "LoggedRowList" THEN iteration + 1 ELSE iteration
            /\ UNCHANGED <<err_summary, history>>
  /\ UNCHANGED errors
-----------------------------------------------------------------------------
done ==
  CASE pg = "HalfDouble" -> HD!done
    [] pg = "HammerTolerance" -> HT!done
    [] OTHER -> iteration >= idle_iterations

get_memset_range ==
  CASE pg = "HalfDouble" /\ fill_local ->
         RL!get_range_from_rows(Physical(Elements(HD!RowSequence) \cup {HD!get_logical_victim}))
    [] pg = "HammerTolerance" /\ fill_local -> RL!get_range_from_rows(Physical(HT!RowsToFill))
    [] pg \in {"RowList", "LoggedRowList"} -> RL!ListRange
    [] OTHER -> RL!WholeMemory

get_memtest_range ==
  CASE pg = "HalfDouble" -> RL!get_range_from_rows(Physical({HD!get_logical_victim}))
    [] pg = "HammerTolerance" -> RL!get_range_from_rows(Physical({HT!Victim}))
    [] pg \in {"RowList", "LoggedRowList"} -> RL!ListRange
    [] OTHER -> RL!WholeMemory

\* The memory is filled while the generator is not done ...
Fill ==
  /\ at = "loop" /\ ~done
  /\ filled' = get_memset_range
  /\ at' = "payload"
  /\ UNCHANGED <<config, iteration, hdVars, htVars, logVars, tested>>

\* ... the payload is generated: the idle generator's get_payload returns; the others call
\* generate_payload_from_row_list without nranks and rank, which it requires ...
GetPayload ==
  /\ at = "payload"
  /\ at' = IF pg = "Idle" THEN "execute" ELSE "TypeError"
  /\ UNCHANGED <<config, iteration, hdVars, htVars, logVars, filled, tested>>

\* ... which with these arguments would return the payload as well (GeneratorSpec).
PayloadGiven ==
  /\ at = "payload" /\ pg # "Idle"
  /\ at' = "execute"
  /\ UNCHANGED <<config, iteration, hdVars, htVars, logVars, filled, tested>>

\* The offsets of the memory that may be found changed.
Offsets ==
  {encode(b, r, c) \div 2^address_align :
     b \in ErrorBanks, r \in ErrorRows \cap RL!RowsIn(tested'), c \in 0 .. 2^colbits - 1}

\* ... and executed, and the memory is tested ...
ExecuteAndTest ==
  /\ at = "execute"
  /\ at' = "process"
  /\ tested' = get_memtest_range
  /\ errors' \in IF pg \in {"Idle", "LoggedRowList"}
                   THEN {{}} \cup {Elements(es) : es \in [1 .. MaxErrors -> Offsets]} ELSE {{}}
  /\ UNCHANGED <<config, iteration, hdVars, htVars, addresses_per_row, err_summary, history, filled>>

\* ... and the errors are processed.
ProcessErrors ==
  /\ at = "process"
  /\ \/ pg = "HalfDouble" /\ HD!Next /\ at' = "loop" /\ UNCHANGED <<htVars, logVars>>
     \/ pg = "HammerTolerance" /\ HT!Next /\ at' = "loop" /\ UNCHANGED <<hdVars, logVars>>
     \/ pg \in {"Idle", "LoggedRowList"} /\ LogErrors /\ UNCHANGED <<hdVars, htVars>>
     \/ /\ pg = "RowList" /\ RL!process_errors /\ at' = "loop"
        /\ UNCHANGED <<hdVars, htVars, logVars>>
  /\ UNCHANGED <<config, filled, tested>>

Summarize ==
  /\ at = "loop" /\ done
  /\ at' = "closed"
  /\ UNCHANGED <<config, iteration, hdVars, htVars, logVars, filled, tested>>

Next == Fill \/ GetPayload \/ ExecuteAndTest \/ ProcessErrors \/ Summarize

\* The script as it is.
Spec == Init /\ [][Next]_vars

\* The script, and beyond the TypeError the control of the generators: what holds of
\* GeneratorSpec holds of Spec, and still will when get_payload is given its arguments.
GeneratorNext == Next \/ PayloadGiven
GeneratorSpec == Init /\ [][GeneratorNext]_vars

\* A sequential script; the payload executor completes (PayloadExecutor).
FairSpec == Spec /\ WF_vars(Next)
FairGeneratorSpec == GeneratorSpec /\ WF_vars(GeneratorNext)
-----------------------------------------------------------------------------
(***************************************************************************)
(* "maximum number of hammers issued to any given row during an iteration" *)
(* (docs/source/playbook.md): whatever the Half-Double analysis went       *)
(* through, its row list and read_count keep to max_total_read_count.      *)
(***************************************************************************)
HammersBounded == pg = "HalfDouble" => HD!HammersBounded

(***************************************************************************)
(* The Half-Double analysis hammers around the row whose flips it looks    *)
(* at: the moduli of generate_rows and get_logical_victim stay in step.    *)
(***************************************************************************)
HammersAroundVictim == pg = "HalfDouble" => HD!HammersAroundVictim

(***************************************************************************)
(* The hammer tolerance test attacks every victim once with each read      *)
(* count, after a baseline of the same length.                             *)
(***************************************************************************)
TestsEveryPoint == pg = "HammerTolerance" => HT!TestsEveryPoint

(***************************************************************************)
(* The histograms of the hammer tolerance test add up what every test has  *)
(* over its own baseline.                                                  *)
(***************************************************************************)
HistogramsExact == pg = "HammerTolerance" => HT!HistogramsExact

\* The rows the payload of this iteration hammers.
Hammered ==
  CASE pg = "HalfDouble" -> Physical(Elements(HD!RowSequence))
    [] pg = "HammerTolerance" -> Physical(HT!Aggressors)
    [] pg \in {"RowList", "LoggedRowList"} -> Elements(RL!generate_rows)
    [] OTHER -> {}

(***************************************************************************)
(* fill_local, "permits shrinking the filled memory area to just the       *)
(* aggressors and the victim" (docs/source/playbook.md:73): whatever the   *)
(* iteration, the row mapping and the state of the generator, the rows     *)
(* that the Half-Double analysis and the row lists hammer were filled in   *)
(* this iteration, up to the last row of the memory.  Of the hammer        *)
(* tolerance test this says nothing: RowsToFill wraps around before the    *)
(* aggressors do, and a baseline hammers dummy rows that nobody fills.     *)
(* What is tested afterwards is not empty and was filled, whatever the     *)
(* generator.                                                              *)
(***************************************************************************)
FillsWhatItHammers ==
  /\ at = "execute" /\ pg # "HammerTolerance" => Hammered \subseteq RL!RowsIn(filled)
  /\ at = "process" => RL!RowsIn(tested) # {} /\ RL!RowsIn(tested) \subseteq RL!RowsIn(filled)

(***************************************************************************)
(* update_log of idle.py, process_errors of logged_row_list.py: an entry   *)
(* of the log lists errors of its iteration, at their row and column,      *)
(* though they were encoded relative to a base address cached in an        *)
(* earlier one and decoded relative to another; every row with errors is   *)
(* found under its logical number, and where the mapping is one-to-one,    *)
(* all errors are listed.                                                  *)
(***************************************************************************)
LogExact ==
  \A k \in DOMAIN err_summary :
    LET entry  == err_summary[k]
        Listed == UNION {{<<entry[l].physical_row, c>> : c \in entry[l].col} : l \in DOMAIN entry}
        Errors == {LET a == decode_bus(Address(e)) IN <<a.row, a.col>> : e \in history[k]}
    IN  /\ Listed \subseteq Errors
        /\ DOMAIN entry = {RL!physical_to_logical(p[1]) : p \in Errors}
        /\ row_mapping # "TypeB" => Listed = Errors
        /\ \A l \in DOMAIN entry : RL!physical_to_logical(entry[l].physical_row) = l

(***************************************************************************)
(* "assert row == _row" (idle.py:95): an address computed back from the    *)
(* cached base is in its row.                                              *)
(***************************************************************************)
LogAssertion == at # "AssertionError"

(***************************************************************************)
(* main's loop ends, whatever flips: every generator gets done, and main   *)
(* to the summary, unless get_payload raises its TypeError; the idle       *)
(* generator always does.                                                  *)
(***************************************************************************)
ExperimentEnds ==
  /\ <>(at \in {"closed", "TypeError"})
  /\ pg = "Idle" => <>(at = "closed")
=============================================================================
