--------------------------- MODULE HammerTolerance ---------------------------
(***************************************************************************)
(* The hammer tolerance test of the playbook                               *)
(* (HammerTolerancePayloadGenerator): double-sided hammering of one victim *)
(* after another with growing read counts, each test preceded by one on    *)
(* dummy rows (the retention baseline) if asked for.  Every iteration of   *)
(* the playbook's loop is one test, which finds a set of words of the      *)
(* victim with flips in them: [addr, flips], a flip being a beat of the    *)
(* burst, a chip and a data line of it.  Rows are logical.                 *)
(***************************************************************************)
EXTENDS Integers, FiniteSets, FiniteSetsExt

CONSTANTS
  nr_rows, read_count_step, iters_per_row, max_iteration,
  initial_read_count, distance, first_dummy_row,
  BaselineValues,        \* values of baseline
  Beats, nr_chips,       \* beats of a burst: 0 .. Beats - 1
  TestErrors             \* sets of words that a test may find

\* What a configuration has to be like.
ToleranceAssumption ==
  /\ distance \in Nat \ {0} /\ iters_per_row \in Nat \ {0} /\ BaselineValues \subseteq BOOLEAN
  /\ nr_rows \in Nat /\ nr_rows > 2 * distance
  /\ max_iteration \in Nat /\ max_iteration <= iters_per_row * (nr_rows - 2 * distance)
  /\ {read_count_step, initial_read_count, first_dummy_row, Beats, nr_chips} \subseteq Nat

VARIABLES
  baseline,                        \* of the configuration
  iteration, run_baseline, baseline_flips,
  bit_errors, row_errors,          \* per label: flipped bits, rows with flips
  beat_errors, chip_errors_per_read, chip_errors_per_beat, chips_with_errors_per_beat,
  tests                            \* the tests done, in the order of time (history)

histograms == <<beat_errors, chip_errors_per_read, chip_errors_per_beat, chips_with_errors_per_beat>>
vars == <<baseline, iteration, run_baseline, baseline_flips, bit_errors, row_errors, histograms, tests>>

step == iteration % iters_per_row

get_row_for_iter(row_idx) == ((iteration \div iters_per_row) + row_idx) % (nr_rows - row_idx)

\* What get_payload hammers.
Aggressors ==
  LET first == IF run_baseline THEN first_dummy_row ELSE get_row_for_iter(0)
  IN  {first, first + 2 * distance}

PayloadReadCount == initial_read_count + read_count_step * step

\* get_memtest_range.
Victim == get_row_for_iter(distance)

\* get_memset_range with fill_local: the rows whose span is filled.
RowsToFill == {get_row_for_iter(i) : i \in 0 .. 2 * distance}

Label == (step + 1) * read_count_step

Steps == 1 .. iters_per_row
Chips == 0 .. nr_chips - 1

\* Counts of the flips of a beat, of a chip in a beat, and of a chip in a word.
OfBeat(w, beat) == Cardinality({f \in w.flips : f.beat = beat})
OfChipInBeat(w, beat, chip) == Cardinality({f \in w.flips : f.beat = beat /\ f.chip = chip})
OfChip(w, chip) == Cardinality({f \in w.flips : f.chip = chip})
Counts == 1 .. Max({0} \cup UNION {{Cardinality(w.flips) : w \in es} : es \in TestErrors})

Init ==
  /\ baseline \in BaselineValues
  /\ iteration = 0
  /\ run_baseline = baseline
  /\ baseline_flips = 0
  /\ bit_errors = [s \in Steps |-> 0]
  /\ row_errors = [s \in Steps |-> 0]
  /\ beat_errors = [s \in Steps |-> [n \in Counts |-> 0]]
  /\ chip_errors_per_read = [s \in Steps |-> [c \in Chips |-> [n \in Counts |-> 0]]]
  /\ chip_errors_per_beat = [s \in Steps |-> [c \in Chips |-> [n \in Counts |-> 0]]]
  /\ chips_with_errors_per_beat = [s \in Steps |-> [n \in 0 .. nr_chips |-> 0]]
  /\ tests = {}

done == iteration >= max_iteration

\* Statistics are kept under Label, which differs from the read count of the test unless
\* initial_read_count = read_count_step; step + 1 stands for it here.
AddErrors(bits, row_has_error) ==
  /\ bit_errors' = [bit_errors EXCEPT ![step + 1] = @ + bits]
  /\ row_errors' = [row_errors EXCEPT ![step + 1] = @ + (IF row_has_error THEN 1 ELSE 0)]

FlipsOf(words) == MapThenSumSet(LAMBDA w : Cardinality(w.flips), words)

\* gather_full_stats: chip_count counts every chip, with flips or without.
gather_full_stats(words) ==
  LET BeatsWith(P(_, _)) == Cardinality({x \in words \X (0 .. Beats - 1) : P(x[1], x[2])}) IN
  /\ beat_errors' = [beat_errors EXCEPT ![step + 1] =
       [n \in Counts |-> @[n] + BeatsWith(LAMBDA w, beat : OfBeat(w, beat) = n)]]
  /\ chip_errors_per_beat' = [chip_errors_per_beat EXCEPT ![step + 1] =
       [c \in Chips |-> [n \in Counts |->
          @[c][n] + BeatsWith(LAMBDA w, beat : OfChipInBeat(w, beat, c) = n)]]]
  /\ chips_with_errors_per_beat' = [chips_with_errors_per_beat EXCEPT ![step + 1][nr_chips] =
       @ + BeatsWith(LAMBDA w, beat : OfBeat(w, beat) > 0)]
  /\ chip_errors_per_read' = [chip_errors_per_read EXCEPT ![step + 1] =
       [c \in Chips |-> [n \in Counts |-> @[c][n] + Cardinality({w \in words : OfChip(w, c) = n})]]]

Test(words) ==
  [victim |-> Victim, aggressors |-> Aggressors, reads |-> PayloadReadCount, label |-> Label,
   dummy |-> run_baseline, words |-> words]

\* Mutant: a test without flips leaves the last baseline in place.
MutantKeepsBaseline(words) ==
  /\ run_baseline
  /\ baseline_flips' = IF words = {} THEN baseline_flips ELSE FlipsOf(words)
  /\ run_baseline' = FALSE
  /\ UNCHANGED <<iteration, bit_errors, row_errors, histograms>>

\* process_errors after a test on the dummy rows.
BaselineTest(words) ==
  /\ run_baseline
  /\ baseline_flips' = FlipsOf(words)
  /\ run_baseline' = FALSE
  /\ UNCHANGED <<iteration, bit_errors, row_errors, histograms>>

\* Mutant: the next baseline is forgotten.
MutantNoNextBaseline(words) ==
  LET flipped_bits == IF ~baseline THEN FlipsOf(words) ELSE Max({FlipsOf(words) - baseline_flips, 0}) IN
  /\ ~run_baseline
  /\ iteration' = iteration + 1
  /\ AddErrors(flipped_bits, flipped_bits > 0)
  /\ IF baseline THEN UNCHANGED histograms ELSE gather_full_stats(words)
  /\ UNCHANGED <<run_baseline, baseline_flips>>

\* process_errors after a test on the aggressors.
AttackTest(words) ==
  LET flipped_bits == IF ~baseline THEN FlipsOf(words) ELSE Max({FlipsOf(words) - baseline_flips, 0}) IN
  /\ ~run_baseline
  /\ iteration' = iteration + 1
  /\ run_baseline' = baseline
  /\ AddErrors(flipped_bits, flipped_bits > 0)
  /\ IF baseline THEN UNCHANGED histograms ELSE gather_full_stats(words)
  /\ UNCHANGED baseline_flips

Next ==
  \E words \in TestErrors :
    /\ ~done
    /\ tests' = tests \cup {Test(words)}
    /\ BaselineTest(words) \/ AttackTest(words)
    /\ UNCHANGED baseline

Spec == Init /\ [][Next]_vars
-----------------------------------------------------------------------------
Attacks == {t \in tests : ~t.dummy}
Baselines == {t \in tests : t.dummy}

\* The flips a test has over those of its baseline.
ExtraFlips(t) ==
  LET base == {b \in Baselines : b.victim = t.victim /\ b.reads = t.reads}
  IN  IF baseline THEN Max({0, FlipsOf(t.words) - FlipsOf((CHOOSE b \in base : TRUE).words)})
      ELSE FlipsOf(t.words)

\* The flips a histogram of counts stands for.
Total(histogram) == MapThenSumSet(LAMBDA n : n * histogram[n], Counts)

(***************************************************************************)
(* Every victim is attacked exactly once with each read count, from both   *)
(* sides, and, if asked for, after a baseline of the same length ("a       *)
(* retention effect baseline is collected by hammering distant rows for    *)
(* the same amount of time that the aggressors would be hammered").        *)
(***************************************************************************)
TestsEveryPoint ==
  /\ \A t \in Attacks : t.aggressors = {t.victim - distance, t.victim + distance}
  /\ \A t, u \in Attacks : t.victim = u.victim /\ t.reads = u.reads => t = u
  /\ baseline => \A t \in Attacks : \E b \in Baselines : b.victim = t.victim /\ b.reads = t.reads
  /\ Cardinality(Attacks) = iteration

(***************************************************************************)
(* The histograms of the s-th read count add up what every test with it    *)
(* has over its own baseline: no flips of another victim, read count or    *)
(* baseline get in.  Without a baseline the flips are also broken down by  *)
(* beat and by chip, and each of beat_errors, chip_errors_per_read and     *)
(* chip_errors_per_beat stands for all of them.  The chips with errors in  *)
(* a beat are left out: gather_full_stats counts all chips.                *)
(***************************************************************************)
HistogramsExact ==
  \A s \in Steps :
    LET T == {t \in Attacks : t.reads = initial_read_count + (s - 1) * read_count_step} IN
    /\ bit_errors[s] = MapThenSumSet(ExtraFlips, T)
    /\ row_errors[s] = Cardinality({t \in T : ExtraFlips(t) > 0})
    /\ ~baseline =>
         /\ Total(beat_errors[s]) = bit_errors[s]
         /\ \A histogram \in {chip_errors_per_read, chip_errors_per_beat} :
              MapThenSumSet(LAMBDA c : Total(histogram[s][c]), Chips) = bit_errors[s]
         /\ \A c \in Chips :
              Total(chip_errors_per_read[s][c]) =
                MapThenSumSet(LAMBDA t : MapThenSumSet(LAMBDA w : OfChip(w, c), t.words), T)
=============================================================================
