----------------------------- MODULE HalfDouble ------------------------------
(***************************************************************************)
(* The Half-Double analysis of the playbook                                *)
(* (HalfDoubleAnalysisPayloadGenerator and HalfDoubleRowGenerator,         *)
(* double-sided).  Each iteration of the playbook's loop hammers the rows  *)
(* of RowSequence read_count times and hands the flips found to            *)
(* process_errors, whose state machine selects the next experiment.  What  *)
(* flips is the memory's choice: victim_flipped.  Rows are logical; the    *)
(* number of flipped bits is left out.                                     *)
(***************************************************************************)
EXTENDS Integers, Sequences, FiniteSets

CONSTANTS
  max_total_read_count, read_count_steps,
  initial_dilution, dilution_multiplier, max_dilution,
  attack_rows_start, max_attack_row_idx, decoy_rows_start

\* What a configuration has to be like.
AnalysisAssumption ==
  /\ read_count_steps \in Nat \ {0} /\ max_total_read_count \in Nat
  /\ read_count_steps <= max_total_read_count
  /\ initial_dilution \in Nat /\ initial_dilution >= 2 /\ dilution_multiplier \in Nat
  /\ dilution_multiplier >= 2 /\ max_dilution \in Nat /\ initial_dilution <= max_dilution
  /\ attack_rows_start \in Nat /\ decoy_rows_start \in Nat
  /\ max_attack_row_idx \in Nat /\ max_attack_row_idx > 4

VARIABLES
  state, iteration, total_read_count, dilution, read_count,
  row_generator,         \* its updatable parameters
  row_count,             \* rows recorded for each <<dilution, total_read_count>>
  victim_list            \* <<dilution, total_read_count, victim>>

vars == <<state, iteration, total_read_count, dilution, read_count, row_generator,
          row_count, victim_list>>

inf == max_dilution * dilution_multiplier + 1

\* Mutant: the modulus of the farthest attack row.
MutantWrapsEarly == attack_rows_start + ((iteration + 2) % (max_attack_row_idx - 4))

get_logical_victim == attack_rows_start + ((iteration + 2) % (max_attack_row_idx - 2))

\* generate_rows: attack or decoy rows in turn, then the neighbours of the victim.
RowSequence ==
  [i \in 1 .. row_generator.nr_rows - 2 |->
     IF row_generator.distance_two
       THEN attack_rows_start + (IF i % 2 = 0 THEN (iteration + 4) % max_attack_row_idx
                                              ELSE iteration % (max_attack_row_idx - 4))
       ELSE decoy_rows_start + (IF i % 2 = 0 THEN 2 ELSE 1)]
  \o (IF row_generator.distance_one
        THEN <<attack_rows_start + ((iteration + 1) % (max_attack_row_idx - 3)),
               attack_rows_start + ((iteration + 3) % (max_attack_row_idx - 1))>>
        ELSE <<>>)

done == iteration >= max_attack_row_idx - 4

Init ==
  /\ state = "NOFLIP_DISTANCE_ONE"
  /\ iteration = 0
  /\ total_read_count = max_total_read_count
  /\ dilution = initial_dilution
  /\ read_count = max_total_read_count \div initial_dilution
  /\ row_generator = [nr_rows |-> initial_dilution, distance_one |-> TRUE, distance_two |-> FALSE]
  /\ row_count = [point \in {} |-> 0]
  /\ victim_list = {}
-----------------------------------------------------------------------------
\* The next experiment: nr_rows and read_count follow dilution and total.
Dilute(d, total) ==
  /\ dilution' = d
  /\ total_read_count' = total
  /\ read_count' = total \div d

\* Mutant: the row generator keeps the length of the last experiment.
MutantKeepsRows ==
  /\ state' = "NOFLIP_DISTANCE_ONE"
  /\ Dilute(initial_dilution, max_total_read_count)
  /\ row_generator' = [row_generator EXCEPT !.distance_two = FALSE]
  /\ iteration' = iteration + 1

next_row ==
  /\ state' = "NOFLIP_DISTANCE_ONE"
  /\ Dilute(initial_dilution, max_total_read_count)
  /\ row_generator' = [row_generator EXCEPT !.distance_two = FALSE, !.nr_rows = initial_dilution]
  /\ iteration' = iteration + 1

noflip_distance_one(flipped) ==
  LET d == dilution * dilution_multiplier IN
  \/ /\ ~flipped
     /\ state' = "NOFLIP_DISTANCE_TWO"
     /\ row_generator' = [row_generator EXCEPT !.distance_two = TRUE, !.distance_one = FALSE]
     /\ UNCHANGED <<iteration, total_read_count, dilution, read_count>>
  \/ flipped /\ d > max_dilution /\ next_row
  \/ /\ flipped /\ d <= max_dilution
     /\ Dilute(d, total_read_count)
     /\ row_generator' = [row_generator EXCEPT !.nr_rows = d]
     /\ UNCHANGED <<state, iteration>>

noflip_distance_two(flipped) ==
  \/ /\ ~flipped
     /\ state' = "HAMMER_TOLERANCE"
     /\ row_generator' = [row_generator EXCEPT !.distance_one = TRUE]
     /\ UNCHANGED <<iteration, total_read_count, dilution, read_count>>
  \/ flipped /\ next_row

ReadCountStep == max_total_read_count \div read_count_steps

find_hammer_tolerance(flipped) ==
  LET last == ~flipped \/ total_read_count <= ReadCountStep IN
  \/ last /\ next_row
  \/ /\ ~last
     /\ Dilute(dilution * dilution_multiplier, total_read_count)
     /\ row_generator' = [row_generator EXCEPT !.nr_rows = dilution']
     /\ state' = "MAX_DILUTION"
     /\ UNCHANGED iteration

find_max_dilution(flipped) ==
  LET last  == ~flipped \/ dilution * dilution_multiplier > max_dilution
      total == total_read_count - ReadCountStep
  IN
  \/ /\ last
     /\ IF total > 0
          THEN /\ Dilute(initial_dilution, total)
               /\ row_generator' = [row_generator EXCEPT !.nr_rows = initial_dilution]
               /\ state' = "HAMMER_TOLERANCE"
               /\ UNCHANGED iteration
          ELSE next_row
  \/ /\ ~last
     /\ Dilute(dilution * dilution_multiplier, total_read_count)
     /\ row_generator' = [row_generator EXCEPT !.nr_rows = dilution']
     /\ UNCHANGED <<state, iteration>>

\* The statistics of process_errors, kept for a flip outside the first test.
Record(flipped) ==
  LET point == <<IF state = "NOFLIP_DISTANCE_TWO" THEN inf ELSE dilution, total_read_count>>
      rows == IF point \in DOMAIN row_count THEN row_count[point] + 1 ELSE 1
  IN  IF flipped /\ state # "NOFLIP_DISTANCE_ONE"
        THEN /\ row_count' = [p \in DOMAIN row_count \cup {point} |->
                                IF p = point THEN rows ELSE row_count[p]]
             /\ victim_list' = victim_list \cup {<<point[1], point[2], get_logical_victim>>}
        ELSE UNCHANGED <<row_count, victim_list>>

process_errors(flipped) ==
  /\ ~done
  /\ Record(flipped)
  /\ \/ state = "NOFLIP_DISTANCE_ONE" /\ noflip_distance_one(flipped)
     \/ state = "NOFLIP_DISTANCE_TWO" /\ noflip_distance_two(flipped)
     \/ state = "HAMMER_TOLERANCE" /\ find_hammer_tolerance(flipped)
     \/ state = "MAX_DILUTION" /\ find_max_dilution(flipped)

Next == \E victim_flipped \in BOOLEAN : process_errors(victim_flipped)

Spec == Init /\ [][Next]_vars
-----------------------------------------------------------------------------
Times(r, rows) == Cardinality({i \in DOMAIN rows : rows[i] = r})

(***************************************************************************)
(* "max_total_read_count - maximum number of hammers issued to any given   *)
(* row during an iteration" (docs/source/playbook.md): whatever the state  *)
(* machine went through, its row list and read_count keep to it.           *)
(***************************************************************************)
HammersBounded ==
  /\ row_generator.nr_rows = dilution
  /\ LET rows == RowSequence
     IN  \A i \in DOMAIN rows : Times(rows[i], rows) * read_count <= total_read_count
  /\ total_read_count <= max_total_read_count

(***************************************************************************)
(* Until it is done, the analysis hammers the rows one and two away from   *)
(* the row whose flips it looks at, or decoys: the different moduli of     *)
(* generate_rows and get_logical_victim stay in step.                      *)
(***************************************************************************)
HammersAroundVictim ==
  ~done =>
    LET rows == RowSequence IN
    \A i \in DOMAIN rows : \/ rows[i] - get_logical_victim \in {-2, -1, 1, 2}
                          \/ rows[i] \in {decoy_rows_start + 1, decoy_rows_start + 2}
=============================================================================
