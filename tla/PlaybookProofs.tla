---------------------------- MODULE PlaybookProofs ---------------------------
(***************************************************************************)
(* What the playbook's generators do, for every configuration and any      *)
(* number of iterations: the Half-Double analysis, the hammer tolerance    *)
(* test, and the memory they fill.                                         *)
(***************************************************************************)
EXTENDS Playbook, FiniteSetTheorems, TLAPS

\* The Half-Double analysis: an experiment has dilution rows, read_count times each.
AnalysisInv ==
  /\ iteration \in Nat
  /\ dilution \in Nat /\ dilution >= 2
  /\ total_read_count \in Nat /\ total_read_count <= max_total_read_count
  /\ read_count = total_read_count \div dilution
  /\ row_generator \in [nr_rows : Nat, distance_one : BOOLEAN, distance_two : BOOLEAN]
  /\ row_generator.nr_rows = dilution

\* Division with remainder.
LEMMA Division ==
  ASSUME NEW a \in Int, NEW b \in Nat \ {0}
  PROVE  a \div b \in Int /\ a % b \in 0 .. b - 1 /\ a = b * (a \div b) + (a % b)
  OBVIOUS

\* The quotient of natural numbers.
LEMMA Quotient ==
  ASSUME NEW a \in Nat, NEW b \in Nat \ {0}
  PROVE  a \div b \in Nat
  OBVIOUS

\* A number below the modulus is its own remainder.
LEMMA NoWrap ==
  ASSUME NEW a \in Nat, NEW b \in Nat, a < b
  PROVE  a % b = a
  OBVIOUS

\* The facts about the constants of the analysis.
LEMMA AnalysisConstants ==
  /\ read_count_steps \in Nat \ {0} /\ max_total_read_count \in Nat
  /\ initial_dilution \in Nat /\ initial_dilution >= 2 /\ dilution_multiplier \in Nat
  /\ dilution_multiplier >= 2 /\ max_dilution \in Nat
  /\ attack_rows_start \in Nat /\ decoy_rows_start \in Nat
  /\ max_attack_row_idx \in Nat /\ max_attack_row_idx > 4
  BY ConfigAssumption DEF HD!AnalysisAssumption

\* The first experiment.
LEMMA AnalysisInit ==
  ASSUME HD!Init
  PROVE  AnalysisInv
  BY AnalysisConstants DEF HD!Init, AnalysisInv

\* The next experiment of the same dilution or of a greater one.
LEMMA Diluted ==
  ASSUME AnalysisInv, NEW d \in Nat, d >= 2, NEW total \in Nat, total <= max_total_read_count,
         HD!Dilute(d, total), row_generator' = [row_generator EXCEPT !.nr_rows = d],
         iteration' = iteration
  PROVE  AnalysisInv'
  BY DEF AnalysisInv, HD!Dilute

\* The analysis of a row ends.
LEMMA NextRow ==
  ASSUME AnalysisInv, HD!next_row
  PROVE  AnalysisInv'
<1>1. /\ iteration' = iteration + 1 /\ iteration \in Nat /\ dilution' = initial_dilution
      /\ total_read_count' = max_total_read_count
      /\ read_count' = max_total_read_count \div initial_dilution
      /\ row_generator \in [nr_rows : Nat, distance_one : BOOLEAN, distance_two : BOOLEAN]
      /\ row_generator' = [row_generator EXCEPT !.distance_two = FALSE, !.nr_rows = initial_dilution]
  BY DEF AnalysisInv, HD!next_row, HD!Dilute
<1>2. /\ row_generator' \in [nr_rows : Nat, distance_one : BOOLEAN, distance_two : BOOLEAN]
      /\ row_generator'.nr_rows = initial_dilution
  BY <1>1, AnalysisConstants, Zenon
<1> QED  BY <1>1, <1>2, AnalysisConstants DEF AnalysisInv

\* Multiplying the dilution keeps it a number of at least two rows.
LEMMA Multiplied ==
  ASSUME AnalysisInv
  PROVE  dilution * dilution_multiplier \in Nat /\ dilution * dilution_multiplier >= 2
<1>1. dilution \in Nat /\ dilution >= 2 /\ dilution_multiplier \in Nat /\ dilution_multiplier >= 2
  BY AnalysisConstants DEF AnalysisInv
<1> QED  BY <1>1

\* The four states of process_errors.
LEMMA AnalysisStep ==
  ASSUME AnalysisInv, HD!Next
  PROVE  AnalysisInv'
<1>1. PICK flipped \in BOOLEAN : HD!process_errors(flipped)
  BY DEF HD!Next
<1>2. /\ total_read_count \in Nat /\ total_read_count <= max_total_read_count
      /\ row_generator \in [nr_rows : Nat, distance_one : BOOLEAN, distance_two : BOOLEAN]
  BY DEF AnalysisInv
<1>3. CASE HD!noflip_distance_one(flipped)
  <2>1. CASE HD!next_row
    BY <2>1, NextRow
  <2>2. CASE /\ row_generator' = [row_generator EXCEPT !.distance_two = TRUE, !.distance_one = FALSE]
             /\ UNCHANGED <<iteration, total_read_count, dilution, read_count>>
    <3>1. /\ row_generator' \in [nr_rows : Nat, distance_one : BOOLEAN, distance_two : BOOLEAN]
          /\ row_generator'.nr_rows = row_generator.nr_rows
      BY <1>2, <2>2, Zenon
    <3> QED  BY <2>2, <3>1 DEF AnalysisInv
  <2>3. CASE /\ HD!Dilute(dilution * dilution_multiplier, total_read_count)
             /\ row_generator' = [row_generator EXCEPT !.nr_rows = dilution * dilution_multiplier]
             /\ iteration' = iteration
    BY <1>2, <2>3, Multiplied, Diluted
  <2> QED  BY <1>3, <2>1, <2>2, <2>3 DEF HD!noflip_distance_one
<1>4. CASE HD!noflip_distance_two(flipped)
  <2>1. CASE HD!next_row
    BY <2>1, NextRow
  <2>2. CASE /\ row_generator' = [row_generator EXCEPT !.distance_one = TRUE]
             /\ UNCHANGED <<iteration, total_read_count, dilution, read_count>>
    <3>1. /\ row_generator' \in [nr_rows : Nat, distance_one : BOOLEAN, distance_two : BOOLEAN]
          /\ row_generator'.nr_rows = row_generator.nr_rows
      BY <1>2, <2>2, Zenon
    <3> QED  BY <2>2, <3>1 DEF AnalysisInv
  <2> QED  BY <1>4, <2>1, <2>2 DEF HD!noflip_distance_two
<1>5. CASE HD!find_hammer_tolerance(flipped)
  <2>1. CASE HD!next_row
    BY <2>1, NextRow
  <2>2. CASE /\ HD!Dilute(dilution * dilution_multiplier, total_read_count)
             /\ row_generator' = [row_generator EXCEPT !.nr_rows = dilution']
             /\ iteration' = iteration
    <3>1. dilution' = dilution * dilution_multiplier
      BY <2>2 DEF HD!Dilute
    <3> QED  BY <1>2, <2>2, <3>1, Multiplied, Diluted
  <2> QED  BY <1>5, <2>1, <2>2 DEF HD!find_hammer_tolerance
<1>6. CASE HD!find_max_dilution(flipped)
  <2> DEFINE total == total_read_count - HD!ReadCountStep
  <2>1. CASE HD!next_row
    BY <2>1, NextRow
  <2>2. CASE /\ HD!Dilute(dilution * dilution_multiplier, total_read_count)
             /\ row_generator' = [row_generator EXCEPT !.nr_rows = dilution']
             /\ iteration' = iteration
    <3>1. dilution' = dilution * dilution_multiplier
      BY <2>2 DEF HD!Dilute
    <3> QED  BY <1>2, <2>2, <3>1, Multiplied, Diluted
  <2>3. CASE /\ total > 0 /\ HD!Dilute(initial_dilution, total)
             /\ row_generator' = [row_generator EXCEPT !.nr_rows = initial_dilution]
             /\ iteration' = iteration
    <3>1. HD!ReadCountStep \in Nat
      BY AnalysisConstants, Quotient DEF HD!ReadCountStep
    <3>2. total \in Nat /\ total <= max_total_read_count
      BY <1>2, <2>3, <3>1, AnalysisConstants
    <3> HIDE DEF total
    <3> QED  BY <2>3, <3>2, AnalysisConstants, Diluted
  <2> QED  BY <1>6, <2>1, <2>2, <2>3 DEF HD!find_max_dilution
<1> QED  BY <1>1, <1>3, <1>4, <1>5, <1>6 DEF HD!process_errors

\* Dividing a number among rows and multiplying again does not exceed it.
LEMMA Share ==
  ASSUME NEW total \in Nat, NEW d \in Nat \ {0}, NEW times \in Nat, times <= d
  PROVE  times * (total \div d) <= total
<1> DEFINE q == total \div d
           r == total % d
<1>0. q \in Nat /\ r \in 0 .. d - 1 /\ total = d * q + r
  <2>1. total \in Int
    OBVIOUS
  <2>2. q \in Nat
    BY Quotient, Zenon
  <2>3. r \in 0 .. d - 1 /\ total = d * q + r
    BY <2>1, Division, Zenon
  <2> QED  BY <2>2, <2>3, Zenon
<1> HIDE DEF q, r
<1>1. q \in Nat /\ d * q <= total
  BY <1>0
<1>2. times * q <= d * q
  BY <1>1
<1>3. times * q \in Nat /\ d * q \in Nat
  BY <1>1
<1> QED  BY <1>1, <1>2, <1>3 DEF q

\* One list after another.
LEMMA Concatenated ==
  ASSUME NEW s \in Seq(Int), NEW t \in Seq(Int)
  PROVE  s \o t \in Seq(Int) /\ Len(s \o t) = Len(s) + Len(t)
  OBVIOUS

\* The two parts of the row list.
OuterRows ==
  [i \in 1 .. row_generator.nr_rows - 2 |->
     IF row_generator.distance_two
       THEN attack_rows_start + (IF i % 2 = 0 THEN (iteration + 4) % max_attack_row_idx
                                              ELSE iteration % (max_attack_row_idx - 4))
       ELSE decoy_rows_start + (IF i % 2 = 0 THEN 2 ELSE 1)]
Neighbours ==
  <<attack_rows_start + ((iteration + 1) % (max_attack_row_idx - 3)),
    attack_rows_start + ((iteration + 3) % (max_attack_row_idx - 1))>>
InnerRows == IF row_generator.distance_one THEN Neighbours ELSE <<>>

\* The row list consists of them, and has at most nr_rows entries, which are rows.
LEMMA RowListLength ==
  ASSUME AnalysisInv
  PROVE  /\ OuterRows \in Seq(Int) /\ InnerRows \in Seq(Int) /\ HD!RowSequence = OuterRows \o InnerRows
         /\ HD!RowSequence \in Seq(Int) /\ Len(HD!RowSequence) \in 0 .. dilution
<1>1. /\ iteration \in Nat /\ dilution \in Nat /\ dilution >= 2 /\ row_generator.nr_rows = dilution
      /\ attack_rows_start \in Nat /\ decoy_rows_start \in Nat
      /\ max_attack_row_idx \in Nat /\ max_attack_row_idx > 4
  BY AnalysisConstants DEF AnalysisInv
<1>2. /\ (iteration + 4) % max_attack_row_idx \in Int /\ iteration % (max_attack_row_idx - 4) \in Int
      /\ (iteration + 1) % (max_attack_row_idx - 3) \in Int /\ (iteration + 3) % (max_attack_row_idx - 1) \in Int
  BY <1>1
<1>3. OuterRows \in [1 .. dilution - 2 -> Int]
  BY <1>1, <1>2 DEF OuterRows
<1>4. OuterRows \in Seq(Int) /\ Len(OuterRows) = dilution - 2
  BY <1>1, <1>3
<1>5. Neighbours \in Seq(Int) /\ Len(Neighbours) = 2
  BY <1>1, <1>2 DEF Neighbours
<1>6. InnerRows \in Seq(Int) /\ Len(InnerRows) \in {0, 2}
  BY <1>5 DEF InnerRows
<1>7. HD!RowSequence = OuterRows \o InnerRows
  BY DEF HD!RowSequence, OuterRows, InnerRows, Neighbours
<1>8. /\ OuterRows \o InnerRows \in Seq(Int)
      /\ Len(OuterRows \o InnerRows) = Len(OuterRows) + Len(InnerRows)
  BY <1>4, <1>6, Concatenated, Zenon
<1>9. Len(HD!RowSequence) = (dilution - 2) + Len(InnerRows) /\ HD!RowSequence \in Seq(Int)
  BY <1>4, <1>7, <1>8, Zenon
<1>10. Len(HD!RowSequence) = (dilution - 2) + 0 \/ Len(HD!RowSequence) = (dilution - 2) + 2
  BY <1>6, <1>9, Zenon
<1>11. Len(HD!RowSequence) \in 0 .. dilution
  BY <1>1, <1>10
<1> QED  BY <1>4, <1>6, <1>7, <1>9, <1>11, Zenon

\* No row is in the list more often than it has entries.
LEMMA TimesBounded ==
  ASSUME NEW rows \in Seq(Int), NEW r, NEW n \in Nat, Len(rows) \in 0 .. n
  PROVE  HD!Times(r, rows) \in Nat /\ HD!Times(r, rows) <= n
<1> DEFINE S == {i \in DOMAIN rows : rows[i] = r}
<1>1. S \subseteq 1 .. n
  OBVIOUS
<1> HIDE DEF S
<1>2. IsFiniteSet(1 .. n) /\ Cardinality(1 .. n) = n
  BY FS_Interval
<1>3. IsFiniteSet(S) /\ Cardinality(S) <= n
  BY <1>1, <1>2, FS_Subset, ZenonT(30)
<1>4. Cardinality(S) \in Nat
  BY <1>3, FS_CardinalityType, Zenon
<1>5. HD!Times(r, rows) = Cardinality(S)
  BY Zenon DEF S, HD!Times, HD!Cardinality, Cardinality
<1> QED  BY <1>3, <1>4, <1>5

\* The hammers of an experiment.
LEMMA AnalysisBounded ==
  ASSUME AnalysisInv
  PROVE  HD!HammersBounded
<1> DEFINE rows == HD!RowSequence
<1>1. /\ dilution \in Nat \ {0} /\ total_read_count \in Nat /\ total_read_count <= max_total_read_count
      /\ read_count = total_read_count \div dilution /\ row_generator.nr_rows = dilution
  BY DEF AnalysisInv
<1>2. rows \in Seq(Int) /\ Len(rows) \in 0 .. dilution
  BY RowListLength
<1> HIDE DEF rows
<1>3. ASSUME NEW i \in DOMAIN rows PROVE HD!Times(rows[i], rows) * read_count <= total_read_count
  <2>1. HD!Times(rows[i], rows) \in Nat /\ HD!Times(rows[i], rows) <= dilution
    BY <1>1, <1>2, TimesBounded
  <2>2. HD!Times(rows[i], rows) * (total_read_count \div dilution) <= total_read_count
    BY <1>1, <2>1, Share, Zenon
  <2> QED  BY <1>1, <2>2, Zenon
<1> QED  BY <1>1, <1>3, Zenon DEF HD!HammersBounded, rows

\* An entry of two lists is an entry of one of them.
LEMMA EntryOf ==
  ASSUME NEW s \in Seq(Int), NEW t \in Seq(Int), NEW i \in DOMAIN (s \o t)
  PROVE  \/ \E j \in DOMAIN s : (s \o t)[i] = s[j]
         \/ \E j \in DOMAIN t : (s \o t)[i] = t[j]
<1>1. /\ Len(s) \in Nat /\ Len(t) \in Nat /\ i \in 1 .. Len(s) + Len(t)
      /\ DOMAIN s = 1 .. Len(s) /\ DOMAIN t = 1 .. Len(t)
  OBVIOUS
<1>2. CASE i <= Len(s)
  <2>1. (s \o t)[i] = s[i] /\ i \in DOMAIN s
    BY <1>1, <1>2
  <2> QED  BY <2>1
<1>3. CASE i > Len(s)
  <2>1. (s \o t)[i] = t[i - Len(s)] /\ i - Len(s) \in DOMAIN t
    BY <1>1, <1>3
  <2> QED  BY <2>1
<1> QED  BY <1>1, <1>2, <1>3

\* Until the analysis is done, none of its moduli does anything.
LEMMA AnalysisInStep ==
  ASSUME AnalysisInv, ~HD!done
  PROVE  /\ iteration % (max_attack_row_idx - 4) = iteration
         /\ (iteration + 1) % (max_attack_row_idx - 3) = iteration + 1
         /\ (iteration + 2) % (max_attack_row_idx - 2) = iteration + 2
         /\ (iteration + 3) % (max_attack_row_idx - 1) = iteration + 3
         /\ (iteration + 4) % max_attack_row_idx = iteration + 4
<1>1. /\ iteration \in Nat /\ max_attack_row_idx \in Nat /\ max_attack_row_idx > 4
      /\ iteration < max_attack_row_idx - 4
  BY AnalysisConstants DEF AnalysisInv, HD!done
<1> QED  BY <1>1, NoWrap

\* The rows of an experiment and its victim.
LEMMA AnalysisRows ==
  ASSUME AnalysisInv, ~HD!done, NEW i \in DOMAIN HD!RowSequence
  PROVE  /\ HD!get_logical_victim = attack_rows_start + (iteration + 2)
         /\ HD!RowSequence[i] \in
              {attack_rows_start + iteration, attack_rows_start + (iteration + 1),
               attack_rows_start + (iteration + 3), attack_rows_start + (iteration + 4),
               decoy_rows_start + 1, decoy_rows_start + 2}
<1>1. HD!get_logical_victim = attack_rows_start + (iteration + 2)
  BY AnalysisInStep DEF HD!get_logical_victim
<1>2. ASSUME NEW j \in DOMAIN OuterRows
      PROVE  OuterRows[j] \in {attack_rows_start + iteration, attack_rows_start + (iteration + 4),
                               decoy_rows_start + 1, decoy_rows_start + 2}
  BY AnalysisInStep, Zenon DEF OuterRows
<1>3. ASSUME NEW j \in DOMAIN InnerRows
      PROVE  InnerRows[j] \in {attack_rows_start + (iteration + 1), attack_rows_start + (iteration + 3)}
  BY AnalysisInStep DEF InnerRows, Neighbours
<1>4. \/ \E j \in DOMAIN OuterRows : HD!RowSequence[i] = OuterRows[j]
      \/ \E j \in DOMAIN InnerRows : HD!RowSequence[i] = InnerRows[j]
  <2>1. /\ OuterRows \in Seq(Int) /\ InnerRows \in Seq(Int) /\ HD!RowSequence = OuterRows \o InnerRows
        /\ i \in DOMAIN (OuterRows \o InnerRows)
    BY RowListLength, Zenon
  <2>2. \/ \E j \in DOMAIN OuterRows : (OuterRows \o InnerRows)[i] = OuterRows[j]
        \/ \E j \in DOMAIN InnerRows : (OuterRows \o InnerRows)[i] = InnerRows[j]
    BY <2>1, EntryOf, Zenon
  <2> QED  BY <2>1, <2>2, Zenon
<1> QED  BY <1>1, <1>2, <1>3, <1>4, Zenon

\* Each of them is next to the victim, one further away, or a decoy.
LEMMA AnalysisAround ==
  ASSUME AnalysisInv
  PROVE  HD!HammersAroundVictim
<1> SUFFICES ASSUME ~HD!done, NEW i \in DOMAIN HD!RowSequence
             PROVE  \/ HD!RowSequence[i] - HD!get_logical_victim \in {-2, -1, 1, 2}
                    \/ HD!RowSequence[i] \in {decoy_rows_start + 1, decoy_rows_start + 2}
  BY Zenon DEF HD!HammersAroundVictim
<1> DEFINE a == attack_rows_start
           n == iteration
           x == HD!RowSequence[i]
<1>1. a \in Nat /\ n \in Nat
  BY AnalysisConstants DEF AnalysisInv
<1>2. /\ HD!get_logical_victim = a + (n + 2)
      /\ x \in {a + n, a + (n + 1), a + (n + 3), a + (n + 4), decoy_rows_start + 1, decoy_rows_start + 2}
  BY AnalysisRows, Zenon
<1> HIDE DEF x
<1>3. CASE x \in {a + n, a + (n + 1), a + (n + 3), a + (n + 4)}
  <2>1. \/ x - (a + (n + 2)) = -2 \/ x - (a + (n + 2)) = -1
        \/ x - (a + (n + 2)) = 1 \/ x - (a + (n + 2)) = 2
    <3> HIDE DEF a, n
    <3>1. x = a + n \/ x = a + (n + 1) \/ x = a + (n + 3) \/ x = a + (n + 4)
      BY <1>3
    <3> QED  BY <1>1, <3>1
  <2> QED  BY <1>2, <2>1 DEF x
<1> QED  BY <1>2, <1>3 DEF x
-----------------------------------------------------------------------------
\* The victim and the read count of the n-th iteration of the hammer tolerance test.
VictimAt(n) == (n \div iters_per_row) + distance
ReadsAt(n) == initial_read_count + read_count_step * (n % iters_per_row)

\* The hammer tolerance test has attacked the points of the iterations before this one.
ToleranceInv ==
  /\ iteration \in Nat /\ baseline \in BOOLEAN /\ run_baseline \in BOOLEAN
  /\ \A t \in HT!Attacks :
       /\ \E n \in 0 .. iteration - 1 : t.victim = VictimAt(n) /\ t.reads = ReadsAt(n)
       /\ t.aggressors = {t.victim - distance, t.victim + distance}
  /\ \A t, u \in HT!Attacks : t.victim = u.victim /\ t.reads = u.reads => t = u
  /\ baseline => \A t \in HT!Attacks : \E b \in HT!Baselines : b.victim = t.victim /\ b.reads = t.reads
  /\ baseline /\ ~run_baseline =>
       \E b \in HT!Baselines : b.victim = VictimAt(iteration) /\ b.reads = ReadsAt(iteration)
  /\ IsFiniteSet(HT!Attacks) /\ Cardinality(HT!Attacks) = iteration

\* The facts about the constants of the test.
LEMMA ToleranceConstants ==
  /\ distance \in Nat \ {0} /\ iters_per_row \in Nat \ {0} /\ BaselineValues \subseteq BOOLEAN
  /\ nr_rows \in Nat /\ nr_rows > 2 * distance
  /\ max_iteration \in Nat /\ max_iteration <= iters_per_row * (nr_rows - 2 * distance)
  /\ read_count_step \in Nat /\ initial_read_count \in Nat
  BY ConfigAssumption DEF HT!ToleranceAssumption

\* A number below p * m has a quotient by p below m.
LEMMA QuotientBelow ==
  ASSUME NEW n \in Nat, NEW p \in Nat \ {0}, NEW m \in Nat, n < p * m
  PROVE  n \div p \in Nat /\ n \div p < m
<1> DEFINE q == n \div p
           r == n % p
<1>1. q \in Nat
  BY Quotient, Zenon
<1>2. r \in 0 .. p - 1 /\ n = p * q + r
  <2>1. n \in Int
    OBVIOUS
  <2> QED  BY <2>1, Division, Zenon
<1> HIDE DEF q, r
<1>3. p * q < p * m
  BY <1>1, <1>2
<1>4. q < m
  <2> SUFFICES ASSUME q >= m PROVE FALSE
    BY <1>1
  <2>1. p * q >= p * m
    BY <1>1
  <2> QED  BY <1>1, <1>3, <2>1
<1> QED  BY <1>1, <1>4 DEF q

\* Until the test is done, its victim and its aggressors are where they should be.
LEMMA ToleranceInStep ==
  ASSUME iteration \in Nat, ~HT!done
  PROVE  /\ HT!get_row_for_iter(0) = iteration \div iters_per_row
         /\ HT!Victim = VictimAt(iteration)
         /\ HT!PayloadReadCount = ReadsAt(iteration)
         /\ ~run_baseline => HT!Aggressors = {VictimAt(iteration) - distance, VictimAt(iteration) + distance}
<1> DEFINE q == iteration \div iters_per_row
<1>1. iteration < iters_per_row * (nr_rows - 2 * distance) /\ nr_rows - 2 * distance \in Nat
  <2> DEFINE top == iters_per_row * (nr_rows - 2 * distance)
  <2>1. top \in Int /\ max_iteration <= top /\ max_iteration \in Nat
    BY ToleranceConstants
  <2>2. iteration < max_iteration
    BY <2>1 DEF HT!done
  <2>3. iteration < top
    <3> HIDE DEF top
    <3> QED  BY <2>1, <2>2
  <2> QED  BY <2>3, ToleranceConstants
<1>2. q \in Nat /\ q < nr_rows - 2 * distance
  <2>1. iters_per_row \in Nat \ {0}
    BY ToleranceConstants
  <2> QED  BY <1>1, <2>1, QuotientBelow, Zenon
<1> HIDE DEF q
<1>3. q % nr_rows = q /\ (q + distance) % (nr_rows - distance) = q + distance
  <2>1. /\ q \in Nat /\ nr_rows \in Nat /\ q < nr_rows
        /\ q + distance \in Nat /\ nr_rows - distance \in Nat /\ q + distance < nr_rows - distance
    BY <1>2, ToleranceConstants
  <2> QED  BY <2>1, NoWrap, Zenon
<1>4. HT!get_row_for_iter(0) = q
  <2>1. q + 0 = q /\ nr_rows - 0 = nr_rows
    BY <1>2, ToleranceConstants
  <2> QED  BY <1>3, <2>1, Zenon DEF q, HT!get_row_for_iter
<1>5. HT!Victim = q + distance
  BY <1>3, Zenon DEF q, HT!Victim, HT!get_row_for_iter
<1>6. HT!PayloadReadCount = ReadsAt(iteration)
  BY Zenon DEF HT!PayloadReadCount, HT!step, ReadsAt
<1>7. VictimAt(iteration) = q + distance
  BY Zenon DEF VictimAt, q
<1>8. ~run_baseline => HT!Aggressors = {q, q + 2 * distance}
  BY <1>4, Zenon DEF HT!Aggressors
<1>9. q = (q + distance) - distance /\ q + 2 * distance = (q + distance) + distance
  BY <1>2, ToleranceConstants
<1> QED  BY <1>4, <1>5, <1>6, <1>7, <1>8, <1>9, Zenon DEF q

\* Iterations with the same victim and the same read count are the same.
LEMMA PointsDiffer ==
  ASSUME read_count_step # 0, NEW m \in Nat, NEW n \in Nat,
         VictimAt(m) = VictimAt(n), ReadsAt(m) = ReadsAt(n)
  PROVE  m = n
<1> DEFINE p == iters_per_row
<1>1. /\ p \in Nat \ {0} /\ m \in Int /\ n \in Int /\ distance \in Nat
      /\ read_count_step \in Nat \ {0} /\ initial_read_count \in Nat
  BY ToleranceConstants
<1>2. /\ m \div p \in Int /\ m % p \in 0 .. p - 1 /\ m = p * (m \div p) + (m % p)
      /\ n \div p \in Int /\ n % p \in 0 .. p - 1 /\ n = p * (n \div p) + (n % p)
  BY <1>1, Division, Zenon
<1> DEFINE a == m \div p
           b == n \div p
           r == m % p
           s == n % p
<1>3. /\ a \in Int /\ b \in Int /\ r \in Int /\ s \in Int /\ m = p * a + r /\ n = p * b + s
  BY <1>1, <1>2
<1>4. a + distance = b + distance /\ initial_read_count + read_count_step * r = initial_read_count + read_count_step * s
  BY Zenon DEF VictimAt, ReadsAt
<1> HIDE DEF a, b, r, s
<1>5. a = b
  BY <1>1, <1>3, <1>4
<1>6. read_count_step * r = read_count_step * s
  BY <1>1, <1>3, <1>4
<1>7. r = s
  BY <1>1, <1>3, <1>6
<1> QED  BY <1>3, <1>5, <1>7, Zenon

\* A test is an attack or a baseline.
LEMMA OneMoreTest ==
  ASSUME NEW words, tests' = tests \cup {HT!Test(words)}, run_baseline \in BOOLEAN
  PROVE  /\ run_baseline => HT!Attacks' = HT!Attacks /\ HT!Baselines' = HT!Baselines \cup {HT!Test(words)}
         /\ ~run_baseline => HT!Attacks' = HT!Attacks \cup {HT!Test(words)} /\ HT!Baselines' = HT!Baselines
<1> DEFINE t == HT!Test(words)
<1>1. t.dummy = run_baseline
  BY Zenon DEF HT!Test
<1> HIDE DEF t
<1>2. tests' = tests \cup {t}
  BY Zenon DEF t
<1> SUFFICES /\ run_baseline => HT!Attacks' = HT!Attacks /\ HT!Baselines' = HT!Baselines \cup {t}
             /\ ~run_baseline => HT!Attacks' = HT!Attacks \cup {t} /\ HT!Baselines' = HT!Baselines
  BY Zenon DEF t
<1> QED  BY <1>1, <1>2 DEF HT!Attacks, HT!Baselines

\* A test on the dummy rows: the attack that follows has its baseline.
LEMMA BaselineStep ==
  ASSUME ToleranceInv, ~HT!done, NEW words, tests' = tests \cup {HT!Test(words)},
         HT!BaselineTest(words), baseline' = baseline
  PROVE  ToleranceInv'
<1> DEFINE t == HT!Test(words)
           A == HT!Attacks
           B == HT!Baselines
<1>1. iteration' = iteration /\ run_baseline /\ run_baseline' = FALSE /\ iteration \in Nat
  BY DEF HT!BaselineTest, ToleranceInv
<1>2. HT!Attacks' = A /\ HT!Baselines' = B \cup {t}
  BY <1>1, OneMoreTest, Zenon
<1>3. t.victim = VictimAt(iteration) /\ t.reads = ReadsAt(iteration)
  BY <1>1, ToleranceInStep, Zenon DEF HT!Test
<1>4. VictimAt(iteration') = VictimAt(iteration) /\ ReadsAt(iteration') = ReadsAt(iteration)
  BY <1>1
<1> HIDE DEF t, A, B
<1>5. /\ \A x \in A :
           /\ \E n \in 0 .. iteration - 1 : x.victim = VictimAt(n) /\ x.reads = ReadsAt(n)
           /\ x.aggressors = {x.victim - distance, x.victim + distance}
      /\ \A x, u \in A : x.victim = u.victim /\ x.reads = u.reads => x = u
      /\ IsFiniteSet(A) /\ Cardinality(A) = iteration /\ baseline \in BOOLEAN
  BY Zenon DEF ToleranceInv, A
<1>6. baseline' => \A x \in A : \E b \in B \cup {t} : b.victim = x.victim /\ b.reads = x.reads
  BY Zenon DEF ToleranceInv, A, B
<1>7. \E b \in B \cup {t} : b.victim = VictimAt(iteration) /\ b.reads = ReadsAt(iteration)
  BY <1>3, Zenon
<1> QED  BY <1>1, <1>2, <1>4, <1>5, <1>6, <1>7, Zenon DEF ToleranceInv

\* A test on the aggressors: its point is a new one.
LEMMA AttackStep ==
  ASSUME read_count_step # 0, ToleranceInv, ~HT!done, NEW words, tests' = tests \cup {HT!Test(words)},
         HT!AttackTest(words), baseline' = baseline
  PROVE  ToleranceInv'
<1> DEFINE t == HT!Test(words)
           A == HT!Attacks
           B == HT!Baselines
<1>1. /\ iteration' = iteration + 1 /\ ~run_baseline /\ run_baseline' = baseline
      /\ iteration \in Nat /\ baseline \in BOOLEAN
  BY DEF HT!AttackTest, ToleranceInv
<1>2. HT!Attacks' = A \cup {t} /\ HT!Baselines' = B
  <2>1. run_baseline \in BOOLEAN
    BY Zenon DEF ToleranceInv
  <2> QED  BY <1>1, <2>1, OneMoreTest, Zenon
<1>3. /\ t.victim = VictimAt(iteration) /\ t.reads = ReadsAt(iteration)
      /\ t.aggressors = {t.victim - distance, t.victim + distance}
  BY <1>1, ToleranceInStep, Zenon DEF HT!Test
<1> HIDE DEF t, A, B
<1>4. /\ \A x \in A :
           /\ \E n \in 0 .. iteration - 1 : x.victim = VictimAt(n) /\ x.reads = ReadsAt(n)
           /\ x.aggressors = {x.victim - distance, x.victim + distance}
      /\ \A x, u \in A : x.victim = u.victim /\ x.reads = u.reads => x = u
      /\ IsFiniteSet(A) /\ Cardinality(A) = iteration
      /\ baseline => \A x \in A : \E b \in B : b.victim = x.victim /\ b.reads = x.reads
      /\ baseline => \E b \in B : b.victim = VictimAt(iteration) /\ b.reads = ReadsAt(iteration)
  BY <1>1, Zenon DEF ToleranceInv, A, B
<1>5. ASSUME NEW x \in A, x.victim = t.victim, x.reads = t.reads PROVE FALSE
  <2>1. PICK n \in 0 .. iteration - 1 : x.victim = VictimAt(n) /\ x.reads = ReadsAt(n)
    BY <1>4, Zenon
  <2>2. VictimAt(n) = VictimAt(iteration) /\ ReadsAt(n) = ReadsAt(iteration)
    BY <1>3, <1>5, <2>1, Zenon
  <2>3. n \in Nat /\ n # iteration
    BY <1>1
  <2> QED  BY <1>1, <2>2, <2>3, PointsDiffer, Zenon
<1>6. t \notin A
  BY <1>5, Zenon
<1>7. IsFiniteSet(A \cup {t}) /\ Cardinality(A \cup {t}) = iteration + 1
  BY <1>4, <1>6, FS_AddElement, Zenon
<1>8. ASSUME NEW x \in A \cup {t}
      PROVE  /\ \E n \in 0 .. (iteration + 1) - 1 : x.victim = VictimAt(n) /\ x.reads = ReadsAt(n)
             /\ x.aggressors = {x.victim - distance, x.victim + distance}
             /\ baseline => \E b \in B : b.victim = x.victim /\ b.reads = x.reads
  <2>1. 0 .. iteration - 1 \subseteq 0 .. (iteration + 1) - 1 /\ iteration \in 0 .. (iteration + 1) - 1
    BY <1>1
  <2> QED  BY <1>3, <1>4, <1>8, <2>1, Zenon
<1>9. \A x, u \in A \cup {t} : x.victim = u.victim /\ x.reads = u.reads => x = u
  BY <1>4, <1>5, Zenon
<1>10. iteration' \in Nat /\ run_baseline' \in BOOLEAN /\ baseline' \in BOOLEAN /\ baseline' = run_baseline'
  BY <1>1
<1>11. \A x \in A \cup {t} :
         /\ \E n \in 0 .. iteration' - 1 : x.victim = VictimAt(n) /\ x.reads = ReadsAt(n)
         /\ x.aggressors = {x.victim - distance, x.victim + distance}
  BY <1>1, <1>8, Zenon
<1>12. baseline' => \A x \in A \cup {t} : \E b \in B : b.victim = x.victim /\ b.reads = x.reads
  BY <1>8, Zenon
<1>13. IsFiniteSet(A \cup {t}) /\ Cardinality(A \cup {t}) = iteration'
  BY <1>1, <1>7, Zenon
<1>14. ~(baseline' /\ ~run_baseline')
  BY <1>10
<1> QED  BY <1>2, <1>9, <1>10, <1>11, <1>12, <1>13, <1>14, ZenonT(30) DEF ToleranceInv

\* Every test of the hammer tolerance test.
LEMMA ToleranceStep ==
  ASSUME read_count_step # 0, ToleranceInv, HT!Next
  PROVE  ToleranceInv'
<1>1. PICK words \in TestErrors :
        /\ ~HT!done /\ tests' = tests \cup {HT!Test(words)} /\ baseline' = baseline
        /\ HT!BaselineTest(words) \/ HT!AttackTest(words)
  BY Zenon DEF HT!Next
<1>2. CASE HT!BaselineTest(words)
  BY <1>1, <1>2, BaselineStep, Zenon
<1>3. CASE HT!AttackTest(words)
  BY <1>1, <1>3, AttackStep, Zenon
<1> QED  BY <1>1, <1>2, <1>3, Zenon

\* Before the first test.
LEMMA ToleranceInit ==
  ASSUME HT!Init
  PROVE  ToleranceInv
<1>1. iteration = 0 /\ tests = {} /\ run_baseline = baseline /\ baseline \in BOOLEAN
  BY ToleranceConstants DEF HT!Init
<1>2. HT!Attacks = {} /\ HT!Baselines = {}
  BY <1>1 DEF HT!Attacks, HT!Baselines
<1>3. IsFiniteSet({}) /\ Cardinality({}) = 0
  BY FS_EmptySet
<1>4. iteration \in Nat
  BY <1>1
<1> QED  BY <1>1, <1>2, <1>3, <1>4, Zenon DEF ToleranceInv

\* What the invariant says of the points.
LEMMA TolerancePoints ==
  ASSUME ToleranceInv
  PROVE  HT!TestsEveryPoint
<1>1. HT!Cardinality(HT!Attacks) = Cardinality(HT!Attacks)
  BY Zenon DEF HT!Cardinality, Cardinality
<1> QED  BY <1>1, Zenon DEF ToleranceInv, HT!TestsEveryPoint
-----------------------------------------------------------------------------
\* An action of main() other than process_errors leaves the generators alone.
LEMMA GeneratorsKept ==
  ASSUME UNCHANGED <<iteration, hdVars, htVars>>
  PROVE  (AnalysisInv => AnalysisInv') /\ (ToleranceInv => ToleranceInv')
<1>1. /\ iteration' = iteration /\ dilution' = dilution /\ total_read_count' = total_read_count
      /\ read_count' = read_count /\ row_generator' = row_generator
      /\ baseline' = baseline /\ run_baseline' = run_baseline /\ tests' = tests
  BY DEF hdVars, htVars
<1>2. AnalysisInv => AnalysisInv'
  BY <1>1 DEF AnalysisInv
<1>3. ToleranceInv => ToleranceInv'
  BY <1>1, Zenon DEF ToleranceInv, HT!Attacks, HT!Baselines
<1> QED  BY <1>2, <1>3, Zenon

\* A step of main() is one of its generator, or leaves both generators alone.
LEMMA GeneratorStep ==
  ASSUME [GeneratorNext]_vars
  PROVE  /\ pg' = pg
         /\ \/ pg = "HalfDouble" /\ HD!Next
            \/ pg = "HammerTolerance" /\ HT!Next
            \/ pg \in {"RowList", "LoggedRowList", "Idle"}
            \/ UNCHANGED <<iteration, hdVars, htVars>>
<1>1. CASE Fill
  BY <1>1, Zenon DEF Fill, config
<1>2. CASE GetPayload \/ PayloadGiven
  BY <1>2, Zenon DEF GetPayload, PayloadGiven, config
<1>3. CASE ExecuteAndTest
  BY <1>3, Zenon DEF ExecuteAndTest, config
<1>4. CASE ProcessErrors
  <2>1. pg' = pg
    BY <1>4, Zenon DEF ProcessErrors, config
  <2> QED  BY <1>4, <2>1, Zenon DEF ProcessErrors
<1>5. CASE Summarize
  BY <1>5, Zenon DEF Summarize, config
<1>6. CASE UNCHANGED vars
  BY <1>6, Zenon DEF vars, config
<1> QED  BY <1>1, <1>2, <1>3, <1>4, <1>5, <1>6, Zenon DEF GeneratorNext, Next

\* The Half-Double analysis, as the playbook runs it.
AnalysisRun == pg = "HalfDouble" => AnalysisInv

\* The hammer tolerance test, as the playbook runs it.
ToleranceRun == pg = "HammerTolerance" => ToleranceInv

\* The Half-Double analysis keeps its invariant.
LEMMA AnalysisInvariant == GeneratorSpec => []AnalysisRun
<1>1. Init => AnalysisRun
  BY AnalysisInit, Zenon DEF Init, AnalysisRun
<1>2. AnalysisRun /\ [GeneratorNext]_vars => AnalysisRun'
  <2> SUFFICES ASSUME AnalysisRun, [GeneratorNext]_vars, pg' = "HalfDouble" PROVE AnalysisInv'
    BY Zenon DEF AnalysisRun
  <2>1. pg = "HalfDouble" /\ (HD!Next \/ UNCHANGED <<iteration, hdVars, htVars>>)
    BY GeneratorStep
  <2>2. AnalysisInv
    BY <2>1, Zenon DEF AnalysisRun
  <2> QED  BY <2>1, <2>2, AnalysisStep, GeneratorsKept, Zenon
<1> QED  BY <1>1, <1>2, PTL DEF GeneratorSpec

\* "maximum number of hammers issued to any given row during an iteration" (docs/source/playbook.md):
\* whatever dilutions and read counts the Half-Double analysis goes through, no row is hammered more
\* than max_total_read_count times.
THEOREM AnalysisHammersBounded == GeneratorSpec => []HammersBounded
<1>1. AnalysisRun => HammersBounded
  BY AnalysisBounded, Zenon DEF AnalysisRun, HammersBounded
<1> QED  BY <1>1, AnalysisInvariant, PTL

\* generate_rows and get_logical_victim of the Half-Double analysis use different moduli, and stay in
\* step: the rows hammered lie around the row whose flips are looked at.
THEOREM AnalysisAroundVictim == GeneratorSpec => []HammersAroundVictim
<1>1. AnalysisRun => HammersAroundVictim
  BY AnalysisAround, Zenon DEF AnalysisRun, HammersAroundVictim
<1> QED  BY <1>1, AnalysisInvariant, PTL

\* The hammer tolerance test keeps its invariant, where the read counts differ.
LEMMA ToleranceInvariant ==
  ASSUME read_count_step # 0
  PROVE  GeneratorSpec => []ToleranceRun
<1>1. Init => ToleranceRun
  BY ToleranceInit, Zenon DEF Init, ToleranceRun
<1>2. ToleranceRun /\ [GeneratorNext]_vars => ToleranceRun'
  <2> SUFFICES ASSUME ToleranceRun, [GeneratorNext]_vars, pg' = "HammerTolerance" PROVE ToleranceInv'
    BY Zenon DEF ToleranceRun
  <2>1. pg = "HammerTolerance" /\ (HT!Next \/ UNCHANGED <<iteration, hdVars, htVars>>)
    BY GeneratorStep
  <2>2. ToleranceInv
    BY <2>1, Zenon DEF ToleranceRun
  <2> QED  BY <2>1, <2>2, ToleranceStep, GeneratorsKept, Zenon
<1> QED  BY <1>1, <1>2, PTL DEF GeneratorSpec

\* The hammer tolerance test attacks every victim once with each read count, after a baseline of the
\* same length; the read counts of a victim differ where read_count_step is not 0.
THEOREM EveryPointTested ==
  ASSUME read_count_step # 0
  PROVE  GeneratorSpec => []TestsEveryPoint
<1>1. ToleranceRun => TestsEveryPoint
  BY TolerancePoints, Zenon DEF ToleranceRun, TestsEveryPoint
<1> QED  BY <1>1, ToleranceInvariant, PTL
-----------------------------------------------------------------------------
\* The sizes that the widths stand for.
LEMMA Geometry ==
  /\ 2^rowbits \in Nat \ {0} /\ 2^bankbits \in Nat \ {0}
  /\ 2^colbits \in Nat \ {0} /\ 2^bus_shift \in Nat \ {0}
  BY GeometryAssumption, Zenon

\* A number is below another one when its leading digits are.
LEMMA LeadingDigits ==
  ASSUME NEW base \in Nat \ {0}, NEW x \in Nat, NEW y \in Nat, x < y,
         NEW c \in Nat, c < base, NEW d \in Nat
  PROVE  x * base + c < y * base + d
<1>1. PICK k \in Nat : y = x + 1 + k
  <2>1. y - x - 1 \in Nat /\ y = x + 1 + (y - x - 1)
    OBVIOUS
  <2> QED  BY <2>1
<1>2. k * base \in Nat
  OBVIOUS
<1>3. y * base = x * base + base + k * base
  BY <1>1
<1>4. x * base \in Nat
  OBVIOUS
<1> QED  BY <1>2, <1>3, <1>4

\* The bus address of a row, as the number it is.
LEMMA BusAddress ==
  ASSUME NEW bank, NEW row, NEW col
  PROVE  RL!encode_bus(bank, row, col) = ((row * 2^bankbits + bank) * 2^colbits + col) * 2^bus_shift
  BY Zenon DEF RL!encode_bus, RL!encode

\* It is an integer.
LEMMA AddressIsNumber ==
  ASSUME NEW b \in Int, NEW r \in Nat, NEW c \in Int
  PROVE  RL!encode_bus(b, r, c) \in Int
<1>1. 2^bankbits \in Int /\ 2^colbits \in Int /\ 2^bus_shift \in Int
  BY Geometry
<1>2. r * 2^bankbits + b \in Int
  BY <1>1
<1>3. (r * 2^bankbits + b) * 2^colbits + c \in Int
  BY <1>1, <1>2
<1>4. ((r * 2^bankbits + b) * 2^colbits + c) * 2^bus_shift \in Int
  BY <1>1, <1>3
<1> QED  BY <1>4, BusAddress, Zenon

\* Addresses are ordered by their rows first.
LEMMA RowOrder ==
  ASSUME NEW r \in Nat, NEW s \in Nat, r < s,
         NEW b \in 0 .. 2^bankbits - 1, NEW c \in 0 .. 2^colbits - 1,
         NEW d \in 0 .. 2^bankbits - 1, NEW e \in 0 .. 2^colbits - 1
  PROVE  RL!encode_bus(b, r, c) < RL!encode_bus(d, s, e)
<1> DEFINE B == 2^bankbits
           C == 2^colbits
           S == 2^bus_shift
<1>1. B \in Nat \ {0} /\ C \in Nat \ {0} /\ S \in Nat \ {0}
  BY Geometry, Zenon
<1>2. b \in Nat /\ b < B /\ c \in Nat /\ c < C /\ d \in Nat /\ e \in Nat
  BY <1>1
<1> HIDE DEF B, C, S
<1>3. r * B + b \in Nat /\ s * B + d \in Nat
  BY <1>1, <1>2
<1>4. r * B + b < s * B + d
  BY <1>1, <1>2, LeadingDigits, Zenon
<1>5. (r * B + b) * C + c < (s * B + d) * C + e
  BY <1>1, <1>2, <1>3, <1>4, LeadingDigits, Zenon
<1>6. (r * B + b) * C + c \in Nat /\ (s * B + d) * C + e \in Nat
  <2> DEFINE x == r * B + b
             y == s * B + d
  <2>1. x \in Nat /\ y \in Nat
    BY <1>3, Zenon
  <2> HIDE DEF x, y
  <2>2. x * C + c \in Nat /\ y * C + e \in Nat
    BY <1>1, <1>2, <2>1
  <2> QED  BY <2>2, Zenon DEF x, y
<1>7. ((r * B + b) * C + c) * S < ((s * B + d) * C + e) * S
  <2> DEFINE x == (r * B + b) * C + c
             y == (s * B + d) * C + e
  <2>1. x \in Nat /\ y \in Nat /\ x < y
    BY <1>5, <1>6, Zenon
  <2> HIDE DEF x, y
  <2>2. 0 \in Nat /\ 0 < S
    BY <1>1
  <2>3. x * S + 0 < y * S + 0
    BY <1>1, <2>1, <2>2, LeadingDigits, Zenon
  <2>4. x * S < y * S
    BY <1>1, <2>1, <2>3
  <2> QED  BY <2>4, Zenon DEF x, y
<1> QED  BY <1>7, BusAddress, Zenon DEF B, C, S

\* In a row, bank 0 comes first.
LEMMA BankOrder ==
  ASSUME NEW r \in Nat, NEW d \in 0 .. 2^bankbits - 1
  PROVE  RL!encode_bus(0, r, 0) <= RL!encode_bus(d, r, 0)
<1> DEFINE B == 2^bankbits
           C == 2^colbits
           S == 2^bus_shift
<1>1. B \in Nat \ {0} /\ C \in Nat \ {0} /\ S \in Nat \ {0} /\ d \in Nat
  BY Geometry
<1> HIDE DEF B, C, S
<1>2. PICK x \in Nat : x = r * B
  BY <1>1
<1>3. PICK y \in Nat : y = x * C
  BY <1>1
<1>4. PICK k \in Nat : k = d * C
  BY <1>1
<1>5. PICK z \in Nat : z = y * S
  BY <1>1
<1>6. PICK m \in Nat : m = k * S
  BY <1>1
<1>7. (x + 0) * C + 0 = y /\ (x + d) * C + 0 = y + k
  BY <1>1, <1>2, <1>3, <1>4
<1>8. y * S <= (y + k) * S
  BY <1>1, <1>5, <1>6
<1>9. ((r * B + 0) * C + 0) * S <= ((r * B + d) * C + 0) * S
  BY <1>2, <1>7, <1>8, Zenon
<1> QED  BY <1>9, BusAddress, Zenon DEF B, C, S

\* A range that starts where a row starts, and ends where another one does, covers the rows in between.
LEMMA RowsBetween ==
  ASSUME NEW range, NEW lo \in Nat, NEW hi \in Nat,
         range.offset = RL!encode_bus(0, lo, 0),
         range.offset + range.size = RL!encode_bus(0, hi, 0)
  PROVE  RL!RowsIn(range) = {r \in 0 .. 2^rowbits - 1 : lo <= r /\ r < hi}
<1> DEFINE E(b, r, c) == RL!encode_bus(b, r, c)
<1>1. 0 \in 0 .. 2^bankbits - 1 /\ 0 \in 0 .. 2^colbits - 1 /\ 2^colbits - 1 \in 0 .. 2^colbits - 1
  BY Geometry
<1>2. \A b \in Int, r \in Nat, c \in Int : E(b, r, c) \in Int
  BY AddressIsNumber, Zenon
<1>2a. /\ 0 .. 2^bankbits - 1 \subseteq Int /\ 0 .. 2^colbits - 1 \subseteq Int
  BY Geometry
<1>3. ASSUME NEW r \in 0 .. 2^rowbits - 1
      PROVE  (\A bank \in 0 .. 2^bankbits - 1 :
                /\ E(0, lo, 0) <= E(bank, r, 0)
                /\ E(bank, r, 2^colbits - 1) < E(0, hi, 0)) <=> (lo <= r /\ r < hi)
  <2>1. r \in Nat
    BY Geometry
  <2>2. ASSUME NEW bank \in 0 .. 2^bankbits - 1, lo <= r
        PROVE  E(0, lo, 0) <= E(bank, r, 0)
    <3>1. CASE lo = r
      BY <3>1, <2>1, BankOrder, Zenon
    <3>2. CASE lo < r
      <4>1. E(0, lo, 0) < E(bank, r, 0)
        BY <1>1, <2>1, <3>2, RowOrder, Zenon
      <4>2. E(0, lo, 0) \in Int /\ E(bank, r, 0) \in Int
        BY <1>1, <1>2, <1>2a, <2>1, Zenon
      <4> HIDE DEF E
      <4> QED  BY <4>1, <4>2
    <3> QED  BY <2>1, <2>2, <3>1, <3>2
  <2>3. ASSUME NEW bank \in 0 .. 2^bankbits - 1, r < hi
        PROVE  E(bank, r, 2^colbits - 1) < E(0, hi, 0)
    BY <1>1, <2>1, <2>3, RowOrder, Zenon
  <2>4. ASSUME E(0, lo, 0) <= E(0, r, 0) PROVE lo <= r
    <3> SUFFICES ASSUME r < lo PROVE FALSE
      BY <2>1
    <3>1. E(0, r, 0) < E(0, lo, 0)
      BY <1>1, <2>1, RowOrder, Zenon
    <3>2. E(0, lo, 0) \in Int /\ E(0, r, 0) \in Int
      BY <1>1, <1>2, <1>2a, <2>1, Zenon
    <3> HIDE DEF E
    <3> QED  BY <2>4, <3>1, <3>2
  <2>5. ASSUME E(0, r, 2^colbits - 1) < E(0, hi, 0) PROVE r < hi
    <3> SUFFICES ASSUME hi <= r PROVE FALSE
      BY <2>1
    <3> DEFINE last == 2^colbits - 1
    <3>1. last \in 0 .. 2^colbits - 1
      BY <1>1, Zenon
    <3>2. E(0, hi, 0) \in Int /\ E(0, r, last) \in Int /\ E(0, r, 0) \in Int
      BY <1>1, <1>2, <1>2a, <2>1, <3>1, Zenon
    <3>3. E(0, hi, 0) <= E(0, r, 0)
      <4>1. CASE hi = r
        BY <3>2, <4>1
      <4>2. CASE hi < r
        <5>1. E(0, hi, 0) < E(0, r, 0)
          BY <1>1, <2>1, <4>2, RowOrder, Zenon
        <5> HIDE DEF E
        <5> QED  BY <3>2, <5>1
      <4> QED  BY <2>1, <4>1, <4>2
    <3>4. E(0, r, 0) <= E(0, r, last)
      <4>1. 2^bankbits \in Int /\ 2^colbits \in Int /\ 2^bus_shift \in Nat /\ last \in Nat /\ r \in Int
        BY Geometry
      <4> HIDE DEF last
      <4>2. PICK x \in Int : x = (r * 2^bankbits + 0) * 2^colbits
        <5>1. r * 2^bankbits + 0 \in Int
          BY <4>1
        <5> QED  BY <4>1, <5>1
      <4>3. PICK m \in Nat : m = last * 2^bus_shift
        BY <4>1
      <4>4. (x + 0) * 2^bus_shift <= (x + last) * 2^bus_shift
        BY <4>1, <4>3
      <4> QED  BY <4>2, <4>4, BusAddress, Zenon
    <3>5. E(0, r, last) < E(0, hi, 0)
      BY <2>5, Zenon
    <3> HIDE DEF E, last
    <3> QED  BY <3>2, <3>3, <3>4, <3>5
  <2> HIDE DEF E
  <2> QED  BY <1>1, <2>2, <2>3, <2>4, <2>5, Zenon
<1>4. RL!RowsIn(range) =
        {r \in 0 .. 2^rowbits - 1 : \A bank \in 0 .. 2^bankbits - 1 :
           E(0, lo, 0) <= E(bank, r, 0) /\ E(bank, r, 2^colbits - 1) < E(0, hi, 0)}
  BY Zenon DEF RL!RowsIn
<1> HIDE DEF E
<1> QED  BY <1>3, <1>4, Zenon

\* A nonempty set of natural numbers has a least element.
LEMMA Least ==
  ASSUME NEW T, T \subseteq Nat, T # {}
  PROVE  \E x \in T : \A y \in T : x <= y
<1> DEFINE R == {p \in Nat \X Nat : p[1] < p[2]}
<1>1. IsWellFoundedOn(R, Nat)
  BY NatLessThanWellFounded DEF OpToRel
<1>2. \A x, y \in Nat : <<y, x>> \in R <=> y < x
  OBVIOUS
<1> HIDE DEF R
<1>3. PICK x \in T : \A y \in T : ~ (<<y, x>> \in R)
  BY <1>1, WFMin, Zenon
<1>4. x \in Nat /\ \A y \in T : y \in Nat /\ ~ (y < x)
  BY <1>2, <1>3, Zenon
<1> QED  BY <1>4

\* Below a bound, it has a greatest one as well.
LEMMA Greatest ==
  ASSUME NEW n \in Nat, NEW T, T \subseteq 0 .. n - 1, T # {}
  PROVE  \E x \in T : \A y \in T : x >= y
<1> DEFINE U == {n - y : y \in T}
<1>1. U \subseteq Nat /\ U # {}
  OBVIOUS
<1>2. PICK u \in U : \A v \in U : u <= v
  <2> HIDE DEF U
  <2> QED  BY <1>1, Least, Zenon
<1>3. PICK x \in T : u = n - x
  BY <1>2
<1>4. ASSUME NEW y \in T PROVE x >= y
  <2>1. n - x <= n - y
    BY <1>2, <1>3
  <2>2. x \in 0 .. n - 1 /\ y \in 0 .. n - 1
    BY <1>4
  <2> QED  BY <2>1, <2>2
<1> QED  BY <1>4

\* What Min and Max are for rows of the memory.
LEMMA Extremes ==
  ASSUME NEW R, R \subseteq 0 .. 2^rowbits - 1, R # {}
  PROVE  /\ RL!Min(R) \in R /\ \A y \in R : RL!Min(R) <= y
         /\ RL!Max(R) \in R /\ \A y \in R : RL!Max(R) >= y
<1> DEFINE N == 2^rowbits
<1>1. N \in Nat /\ R \subseteq 0 .. N - 1
  BY Geometry, Zenon
<1> HIDE DEF N
<1>2. R \subseteq Nat
  BY <1>1
<1>3. \E x \in R : \A y \in R : x <= y
  BY <1>2, Least, Zenon
<1>4. \E x \in R : \A y \in R : x >= y
  BY <1>1, Greatest, Zenon
<1> QED  BY <1>3, <1>4, Zenon DEF RL!Min, RL!Max

\* get_range_from_rows covers the rows from the first to the last one, also at the end of the memory.
LEMMA RangeOfRows ==
  ASSUME NEW R, R \subseteq 0 .. 2^rowbits - 1, R # {}
  PROVE  RL!RowsIn(RL!get_range_from_rows(R)) =
           {r \in 0 .. 2^rowbits - 1 : RL!Min(R) <= r /\ r < RL!Max(R) + 1}
<1> DEFINE lo == RL!Min(R)
           hi == RL!Max(R) + 1
           N == 2^rowbits
           range == RL!get_range_from_rows(R)
           start == RL!encode_bus(0, lo, 0)
           stop == RL!encode_bus(0, hi, 0)
<1>1. N \in Nat /\ lo \in 0 .. N - 1 /\ RL!Max(R) \in 0 .. N - 1
  BY Geometry, Extremes, Zenon
<1>2. lo \in Nat /\ hi \in Nat /\ (~ (hi < N) => hi = N)
  <2> HIDE DEF lo, N
  <2> QED  BY <1>1
<1>3. range = [offset |-> start, size |-> stop - start]
  <2>1. CASE hi < N
    BY <2>1, Zenon DEF RL!get_range_from_rows
  <2>2. CASE ~ (hi < N)
    <3>1. RL!main_ram_size = stop
      BY <1>2, <2>2, Zenon DEF RL!main_ram_size
    <3> QED  BY <2>2, <3>1, Zenon DEF RL!get_range_from_rows
  <2> QED  BY <2>1, <2>2, Zenon
<1>4. start \in Int /\ stop \in Int
  <2>1. 0 \in Int
    OBVIOUS
  <2> QED  BY <1>2, <2>1, AddressIsNumber, Zenon
<1>5. range.offset = start /\ range.offset + range.size = stop
  <2> HIDE DEF range, start, stop
  <2> QED  BY <1>3, <1>4
<1> HIDE DEF range, lo, hi
<1>6. RL!RowsIn(range) = {r \in 0 .. 2^rowbits - 1 : lo <= r /\ r < hi}
  BY <1>2, <1>5, RowsBetween, Zenon
<1> QED  BY <1>6, Zenon DEF range, lo, hi

\* The rows are among them, and a range of more rows covers more.
LEMMA RangeGrows ==
  ASSUME NEW Q, Q \subseteq 0 .. 2^rowbits - 1, NEW R, R \subseteq Q, R # {}
  PROVE  /\ R \subseteq RL!RowsIn(RL!get_range_from_rows(R))
         /\ RL!RowsIn(RL!get_range_from_rows(R)) \subseteq RL!RowsIn(RL!get_range_from_rows(Q))
<1> DEFINE N == 2^rowbits
           Covered(T) == {r \in 0 .. N - 1 : RL!Min(T) <= r /\ r < RL!Max(T) + 1}
<1>1. N \in Nat /\ Q \subseteq 0 .. N - 1 /\ R \subseteq 0 .. N - 1 /\ Q # {}
  BY Geometry, Zenon
<1>2. /\ RL!RowsIn(RL!get_range_from_rows(R)) = Covered(R)
      /\ RL!RowsIn(RL!get_range_from_rows(Q)) = Covered(Q)
  BY <1>1, RangeOfRows, Zenon
<1>3. /\ RL!Min(R) \in R /\ (\A y \in R : RL!Min(R) <= y) /\ RL!Max(R) \in R /\ (\A y \in R : RL!Max(R) >= y)
      /\ RL!Min(Q) \in Q /\ (\A y \in Q : RL!Min(Q) <= y) /\ RL!Max(Q) \in Q /\ (\A y \in Q : RL!Max(Q) >= y)
  BY <1>1, Extremes, Zenon
<1> HIDE DEF N
<1>4. ASSUME NEW r \in R PROVE r \in Covered(R)
  <2>1. r \in 0 .. N - 1 /\ RL!Max(R) \in 0 .. N - 1 /\ RL!Min(R) <= r /\ RL!Max(R) >= r
    BY <1>1, <1>3, Zenon
  <2>2. r < RL!Max(R) + 1
    BY <1>1, <2>1
  <2> QED  BY <2>1, <2>2, Zenon
<1>5. Covered(R) \subseteq Covered(Q)
  <2>1. RL!Min(Q) <= RL!Min(R) /\ RL!Max(R) <= RL!Max(Q)
    BY <1>1, <1>3, Zenon
  <2>2. {RL!Min(Q), RL!Min(R), RL!Max(R), RL!Max(Q)} \subseteq 0 .. N - 1
    BY <1>1, <1>3, Zenon
  <2> QED  BY <1>1, <2>1, <2>2
<1> HIDE DEF Covered
<1> QED  BY <1>2, <1>4, <1>5, Zenon

\* WholeMemory covers every row.
LEMMA WholeCovered == RL!RowsIn(RL!WholeMemory) = 0 .. 2^rowbits - 1
<1> DEFINE N == 2^rowbits
           stop == RL!encode_bus(0, N, 0)
<1>1. N \in Nat
  BY Geometry
<1>2. RL!encode_bus(0, 0, 0) = 0
  <2>1. \A x, y, z \in Int : ((0 * x + 0) * y + 0) * z = 0
    OBVIOUS
  <2>2. 2^bankbits \in Int /\ 2^colbits \in Int /\ 2^bus_shift \in Int
    BY Geometry
  <2> QED  BY <2>1, <2>2, BusAddress, Zenon
<1>3. stop \in Int
  <2>1. 0 \in Int
    OBVIOUS
  <2> QED  BY <1>1, <2>1, AddressIsNumber, Zenon
<1>4. RL!WholeMemory = [offset |-> 0, size |-> stop]
  BY Zenon DEF RL!WholeMemory, RL!main_ram_size
<1>5. RL!WholeMemory.offset = 0 /\ RL!WholeMemory.offset + RL!WholeMemory.size = stop
  <2> HIDE DEF stop
  <2> QED  BY <1>3, <1>4
<1>6. RL!RowsIn(RL!WholeMemory) = {r \in 0 .. N - 1 : 0 <= r /\ r < N}
  <2> DEFINE whole == RL!WholeMemory
  <2>1. whole.offset = RL!encode_bus(0, 0, 0) /\ whole.offset + whole.size = RL!encode_bus(0, N, 0) /\ 0 \in Nat
    BY <1>2, <1>5
  <2> HIDE DEF whole
  <2>2. RL!RowsIn(whole) = {r \in 0 .. 2^rowbits - 1 : 0 <= r /\ r < N}
    BY <1>1, <2>1, RowsBetween, Zenon
  <2> QED  BY <2>2, Zenon DEF whole
<1>7. {r \in 0 .. N - 1 : 0 <= r /\ r < N} = 0 .. N - 1
  <2> HIDE DEF N
  <2> QED  BY <1>1
<1> QED  BY <1>6, <1>7, Zenon

\* Rows that a range was made for are filled, and so is the range of some of them; or all rows are.
LEMMA FilledRows ==
  ASSUME NEW Q, Q \subseteq 0 .. 2^rowbits - 1, NEW R, R \subseteq Q, R # {},
         NEW range, range \in {RL!get_range_from_rows(Q), RL!WholeMemory}
  PROVE  /\ Q \subseteq RL!RowsIn(range)
         /\ RL!RowsIn(RL!get_range_from_rows(R)) # {}
         /\ RL!RowsIn(RL!get_range_from_rows(R)) \subseteq RL!RowsIn(range)
<1>1. R \subseteq RL!RowsIn(RL!get_range_from_rows(R)) /\ Q \subseteq RL!RowsIn(RL!get_range_from_rows(Q))
  BY RangeGrows, Zenon
<1>2. RL!RowsIn(RL!get_range_from_rows(R)) \subseteq RL!RowsIn(RL!get_range_from_rows(Q))
  BY RangeGrows, Zenon
<1>3. RL!RowsIn(RL!get_range_from_rows(R)) \subseteq 0 .. 2^rowbits - 1
  BY Zenon DEF RL!RowsIn
<1> QED  BY <1>1, <1>2, <1>3, WholeCovered, Zenon
-----------------------------------------------------------------------------
\* From the fill to the processing of the errors, the generator is not done and the ranges are its
\* current ones: nothing in between moves the generator on.
FillInv ==
  /\ pg # "HalfDouble" => iteration \in Nat
  /\ fill_local \in BOOLEAN /\ row_list_generator \in {"EvenRow", "RowSequence"}
  /\ RowsExist
  /\ pg \in {"RowList", "LoggedRowList"} => RL!ListConfiguration
  /\ at \in {"payload", "execute", "process"} => ~done /\ filled = get_memset_range
  /\ at = "process" => tested = get_memtest_range

\* The ranges depend on the configuration and on the generators only.
LEMMA RangesKept ==
  ASSUME UNCHANGED <<config, iteration, hdVars, htVars>>
  PROVE  (done' <=> done) /\ get_memset_range' = get_memset_range /\ get_memtest_range' = get_memtest_range
<1>1. /\ pg' = pg /\ row_mapping' = row_mapping /\ fill_local' = fill_local
      /\ iteration' = iteration /\ row_generator' = row_generator
  BY Zenon DEF config, hdVars
<1>2. done' <=> done
  BY <1>1, Zenon DEF done, HD!done, HT!done
<1>3. /\ HD!RowSequence' = HD!RowSequence /\ HD!get_logical_victim' = HD!get_logical_victim
      /\ HT!Victim' = HT!Victim /\ HT!RowsToFill' = HT!RowsToFill
  BY <1>1, Zenon DEF HD!RowSequence, HD!get_logical_victim, HT!Victim, HT!RowsToFill, HT!get_row_for_iter
<1>4. RL!ListRange' = RL!ListRange
  BY <1>1, Zenon DEF RL!ListRange, RL!get_memory_range, RL!logical_to_physical
<1>5. get_memset_range' = get_memset_range
  BY <1>1, <1>3, <1>4, Zenon DEF get_memset_range, Physical, Elements, RL!logical_to_physical
<1>6. get_memtest_range' = get_memtest_range
  BY <1>1, <1>3, <1>4, Zenon DEF get_memtest_range, Physical, RL!logical_to_physical
<1> QED  BY <1>2, <1>5, <1>6, Zenon

\* No action changes the configuration.
LEMMA ConfigKept ==
  ASSUME [GeneratorNext]_vars
  PROVE  /\ UNCHANGED config
         /\ (RowsExist' <=> RowsExist) /\ (RL!ListConfiguration' <=> RL!ListConfiguration)
<1>1. UNCHANGED config
  <2>1. CASE UNCHANGED vars
    BY <2>1, Zenon DEF vars
  <2> QED  BY <2>1, Zenon DEF GeneratorNext, Next, Fill, GetPayload, PayloadGiven, ExecuteAndTest, ProcessErrors,
                              Summarize
<1>2. /\ pg' = pg /\ row_mapping' = row_mapping /\ fill_local' = fill_local
      /\ row_list_generator' = row_list_generator
  BY <1>1, Zenon DEF config
<1>3. RowsExist' <=> RowsExist
  BY <1>2, Zenon DEF RowsExist, Physical, RL!logical_to_physical
<1>4. RL!ListConfiguration' <=> RL!ListConfiguration
  BY <1>2, Zenon DEF RL!ListConfiguration, RL!logical_to_physical
<1> QED  BY <1>1, <1>3, <1>4, Zenon

\* The iteration of the other generators stays a number.
LEMMA IterationCounts ==
  ASSUME FillInv, [GeneratorNext]_vars, pg # "HalfDouble"
  PROVE  iteration' \in Nat
<1>1. iteration \in Nat
  BY Zenon DEF FillInv
<1>2. iteration' \in {iteration, iteration + 1}
  <2>1. CASE ProcessErrors
    <3>1. HT!Next => iteration' \in {iteration, iteration + 1}
      BY Zenon DEF HT!Next, HT!BaselineTest, HT!AttackTest
    <3>2. LogErrors => iteration' \in {iteration, iteration + 1}
      BY Zenon DEF LogErrors
    <3>3. RL!process_errors => iteration' \in {iteration, iteration + 1}
      BY Zenon DEF RL!process_errors
    <3> QED  BY <2>1, <3>1, <3>2, <3>3, Zenon DEF ProcessErrors
  <2>2. CASE UNCHANGED vars
    BY <2>2, Zenon DEF vars
  <2> QED  BY <2>1, <2>2, Zenon DEF GeneratorNext, Next, Fill, GetPayload, PayloadGiven, ExecuteAndTest, Summarize
<1> QED  BY <1>1, <1>2

\* The actions keep the invariant.
LEMMA FillStep ==
  ASSUME FillInv, [GeneratorNext]_vars
  PROVE  FillInv'
<1> DEFINE Busy == {"payload", "execute", "process"}
<1>1. /\ (pg' # "HalfDouble" => iteration' \in Nat)
      /\ fill_local' \in BOOLEAN /\ row_list_generator' \in {"EvenRow", "RowSequence"}
      /\ RowsExist' /\ (pg' \in {"RowList", "LoggedRowList"} => RL!ListConfiguration')
  <2>1. pg' = pg /\ fill_local' = fill_local /\ row_list_generator' = row_list_generator
    BY ConfigKept, Zenon DEF config
  <2>2. pg # "HalfDouble" => iteration' \in Nat
    BY IterationCounts, Zenon
  <2> QED  BY <2>1, <2>2, ConfigKept, Zenon DEF FillInv
<1>2. /\ at \in Busy => ~done /\ filled = get_memset_range
      /\ at = "process" => tested = get_memtest_range
  BY Zenon DEF FillInv
<1>3. /\ at' \in Busy => (~done)' /\ filled' = get_memset_range'
      /\ at' = "process" => tested' = get_memtest_range'
  <2>1. CASE Fill
    <3>1. at' = "payload" /\ ~done /\ filled' = get_memset_range /\ at' # "process"
      BY <2>1 DEF Fill
    <3>2. UNCHANGED <<config, iteration, hdVars, htVars>>
      BY <2>1, Zenon DEF Fill
    <3> QED  BY <3>1, <3>2, RangesKept, Zenon
  <2>2. CASE GetPayload \/ PayloadGiven
    <3>1. at = "payload" /\ at' \in {"execute", "TypeError"} /\ filled' = filled
      BY <2>2, Zenon DEF GetPayload, PayloadGiven
    <3>2. UNCHANGED <<config, iteration, hdVars, htVars>>
      BY <2>2, Zenon DEF GetPayload, PayloadGiven
    <3>3. at \in Busy /\ at' # "process"
      BY <3>1
    <3> QED  BY <1>2, <3>1, <3>2, <3>3, RangesKept, Zenon
  <2>3. CASE ExecuteAndTest
    <3>1. at = "execute" /\ at' = "process" /\ tested' = get_memtest_range /\ filled' = filled
      BY <2>3, Zenon DEF ExecuteAndTest
    <3>2. UNCHANGED <<config, iteration, hdVars, htVars>>
      BY <2>3, Zenon DEF ExecuteAndTest
    <3> QED  BY <1>2, <3>1, <3>2, RangesKept, Zenon
  <2>4. CASE ProcessErrors
    <3>1. at' \in {"loop", "AssertionError"}
      BY <2>4, Zenon DEF ProcessErrors, LogErrors
    <3> QED  BY <3>1
  <2>5. CASE Summarize
    <3>1. at' = "closed"
      BY <2>5, Zenon DEF Summarize
    <3> QED  BY <3>1
  <2>6. CASE UNCHANGED vars
    <3>1. at' = at /\ filled' = filled /\ tested' = tested /\ UNCHANGED <<config, iteration, hdVars, htVars>>
      BY <2>6, Zenon DEF vars
    <3> QED  BY <1>2, <3>1, RangesKept, Zenon
  <2> QED  BY <2>1, <2>2, <2>3, <2>4, <2>5, <2>6, Zenon DEF GeneratorNext, Next
<1> QED  BY <1>1, <1>3, Zenon DEF FillInv

\* It holds before the first iteration.
LEMMA FillInit ==
  ASSUME Init
  PROVE  FillInv
<1>1. PICK c \in Configurations : fill_local = c.fill_local /\ row_list_generator = c.row_list_generator
  BY Zenon DEF Init
<1>2. c.fill_local \in BOOLEAN /\ c.row_list_generator \in {"EvenRow", "RowSequence"}
  BY ConfigAssumption
<1>3. at = "loop" /\ iteration = 0 /\ RowsExist /\ (pg \in {"RowList", "LoggedRowList"} => RL!ListConfiguration)
  BY Zenon DEF Init, HT!Init
<1>4. iteration \in Nat /\ at \notin {"payload", "execute", "process"} /\ at # "process"
  BY <1>3
<1> QED  BY <1>1, <1>2, <1>3, <1>4, Zenon DEF FillInv

\* The rows of the Half-Double analysis are those of its configuration.
LEMMA AnalysisRowsExist ==
  ASSUME AnalysisInv, ~HD!done, pg = "HalfDouble", RowsExist
  PROVE  Physical(Elements(HD!RowSequence) \cup {HD!get_logical_victim}) \subseteq 0 .. 2^rowbits - 1
<1> DEFINE a == attack_rows_start
           n == iteration
           decoys == {decoy_rows_start + 1, decoy_rows_start + 2}
           rows == a .. a + max_attack_row_idx - 1 \cup decoys
           x == Elements(HD!RowSequence) \cup {HD!get_logical_victim}
<1>1. a \in Nat /\ n \in Nat /\ max_attack_row_idx \in Nat /\ n < max_attack_row_idx - 4
  BY AnalysisConstants DEF AnalysisInv, HD!done
<1>2. {a + n, a + (n + 1), a + (n + 2), a + (n + 3), a + (n + 4)} \subseteq a .. a + max_attack_row_idx - 1
  <2> HIDE DEF a, n
  <2> QED  BY <1>1
<1>3. HD!get_logical_victim \in rows
  <2>1. HD!get_logical_victim = a + (n + 2)
    BY AnalysisInStep DEF HD!get_logical_victim
  <2> QED  BY <1>2, <2>1, Zenon
<1>4. ASSUME NEW i \in DOMAIN HD!RowSequence
      PROVE  HD!RowSequence[i] \in rows
  <2>1. HD!RowSequence[i] \in {a + n, a + (n + 1), a + (n + 3), a + (n + 4), decoy_rows_start + 1, decoy_rows_start + 2}
    BY AnalysisRows, Zenon
  <2> QED  BY <1>2, <2>1, Zenon
<1>5. x \subseteq rows
  BY <1>3, <1>4, Zenon DEF Elements
<1>6. Physical(rows) \subseteq 0 .. 2^rowbits - 1
  BY Zenon DEF RowsExist
<1> HIDE DEF x, rows
<1>7. Physical(x) \subseteq Physical(rows)
  BY <1>5, Zenon DEF Physical
<1> QED  BY <1>6, <1>7, Zenon DEF x

\* So are those of the hammer tolerance test, though get_row_for_iter wraps around.
LEMMA ToleranceRowsExist ==
  ASSUME iteration \in Nat, pg = "HammerTolerance", RowsExist
  PROVE  Physical(HT!RowsToFill) \subseteq 0 .. 2^rowbits - 1
<1> DEFINE dummies == {first_dummy_row, first_dummy_row + 2 * distance}
           rows == 0 .. nr_rows - 1 \cup dummies
           q == iteration \div iters_per_row
<1>1. q \in Nat
  <2>1. iters_per_row \in Nat \ {0}
    BY ToleranceConstants
  <2> QED  BY <2>1, Quotient, Zenon
<1>2. ASSUME NEW i \in 0 .. 2 * distance
      PROVE  HT!get_row_for_iter(i) \in 0 .. nr_rows - 1
  <2> HIDE DEF q
  <2>1. q + i \in Nat /\ nr_rows - i \in Nat \ {0} /\ nr_rows \in Nat /\ i \in Nat
    BY <1>1, ToleranceConstants
  <2>2. (q + i) % (nr_rows - i) \in 0 .. (nr_rows - i) - 1
    <3> DEFINE x == q + i
               y == nr_rows - i
    <3>1. x \in Int /\ y \in Nat \ {0}
      BY <2>1
    <3> HIDE DEF x, y
    <3>2. x % y \in 0 .. y - 1
      BY <3>1, Division, Zenon
    <3> QED  BY <3>2, Zenon DEF x, y
  <2>3. 0 .. (nr_rows - i) - 1 \subseteq 0 .. nr_rows - 1
    BY <2>1
  <2> QED  BY <2>2, <2>3, Zenon DEF q, HT!get_row_for_iter
<1>3. HT!RowsToFill \subseteq rows
  BY <1>2, Zenon DEF HT!RowsToFill
<1>4. Physical(rows) \subseteq 0 .. 2^rowbits - 1
  BY Zenon DEF RowsExist
<1> HIDE DEF rows
<1>5. Physical(HT!RowsToFill) \subseteq Physical(rows)
  BY <1>3, Zenon DEF Physical
<1> QED  BY <1>4, <1>5, Zenon

\* The Half-Double analysis fills what it hammers and tests.
LEMMA AnalysisFills ==
  ASSUME FillInv, AnalysisRun, pg = "HalfDouble"
  PROVE  FillsWhatItHammers
<1> SUFFICES ASSUME at \in {"execute", "process"}
             PROVE  /\ Hammered \subseteq RL!RowsIn(filled)
                    /\ at = "process" => RL!RowsIn(tested) # {} /\ RL!RowsIn(tested) \subseteq RL!RowsIn(filled)
  BY Zenon DEF FillsWhatItHammers
<1> DEFINE Q == Physical(Elements(HD!RowSequence) \cup {HD!get_logical_victim})
           R == Physical({HD!get_logical_victim})
<1>1. ~done /\ filled = get_memset_range /\ (at = "process" => tested = get_memtest_range)
  BY DEF FillInv
<1>2. ~HD!done /\ AnalysisInv /\ RowsExist
  BY <1>1, Zenon DEF done, AnalysisRun, FillInv
<1>3. Q \subseteq 0 .. 2^rowbits - 1
  BY <1>2, AnalysisRowsExist, Zenon
<1>4. R \subseteq Q /\ R # {} /\ Physical(Elements(HD!RowSequence)) \subseteq Q
  BY Zenon DEF Physical
<1>5. filled \in {RL!get_range_from_rows(Q), RL!WholeMemory}
  BY <1>1 DEF get_memset_range
<1>6. at = "process" => tested = RL!get_range_from_rows(R)
  BY <1>1, Zenon DEF get_memtest_range
<1>7. Hammered = Physical(Elements(HD!RowSequence))
  BY Zenon DEF Hammered
<1> HIDE DEF Q, R
<1> QED  BY <1>3, <1>4, <1>5, <1>6, <1>7, FilledRows, Zenon

\* The hammer tolerance test fills what it tests.
LEMMA ToleranceFills ==
  ASSUME FillInv, pg = "HammerTolerance"
  PROVE  FillsWhatItHammers
<1> SUFFICES ASSUME at = "process"
             PROVE  RL!RowsIn(tested) # {} /\ RL!RowsIn(tested) \subseteq RL!RowsIn(filled)
  BY Zenon DEF FillsWhatItHammers
<1> DEFINE Q == Physical(HT!RowsToFill)
           R == Physical({HT!Victim})
<1>1. filled = get_memset_range /\ tested = get_memtest_range
  BY DEF FillInv
<1>2. iteration \in Nat /\ RowsExist
  BY DEF FillInv
<1>3. Q \subseteq 0 .. 2^rowbits - 1
  BY <1>2, ToleranceRowsExist, Zenon
<1>4. distance \in 0 .. 2 * distance
  BY ToleranceConstants
<1>5. HT!Victim \in HT!RowsToFill
  BY <1>4, Zenon DEF HT!Victim, HT!RowsToFill
<1>6. R \subseteq Q /\ R # {}
  BY <1>5, Zenon DEF Physical
<1>7. filled \in {RL!get_range_from_rows(Q), RL!WholeMemory}
  BY <1>1 DEF get_memset_range
<1>8. tested = RL!get_range_from_rows(R)
  BY <1>1 DEF get_memtest_range
<1> HIDE DEF Q, R
<1> QED  BY <1>3, <1>6, <1>7, <1>8, FilledRows, Zenon

\* The rows of a row list are in its range, whatever the row mapping.
LEMMA ListRowsCovered ==
  ASSUME iteration \in Nat, RL!ListConfiguration, fill_local \in BOOLEAN,
         row_list_generator \in {"EvenRow", "RowSequence"}
  PROVE  Elements(RL!generate_rows) \subseteq RL!RowsIn(RL!ListRange) /\ RL!RowsIn(RL!ListRange) # {}
<1> DEFINE N == 2^rowbits
           Q == {RL!logical_to_physical(row) : row \in 0 .. max_row - 1}
<1>1. max_row \in Nat \ {0} /\ list_rows \in Nat
  BY ConfigAssumption DEF RL!ListAssumption
<1>2. 0 \in 0 .. max_row - 1
  BY <1>1
<1>3. Q \subseteq 0 .. N - 1 /\ Q # {}
  BY <1>2, Zenon DEF RL!ListConfiguration
<1>4. RL!ListRange = IF fill_local THEN RL!get_range_from_rows(Q) ELSE RL!WholeMemory
  BY Zenon DEF RL!ListRange, RL!get_memory_range
<1>5. Q \subseteq RL!RowsIn(RL!ListRange)
  <2>1. RL!ListRange \in {RL!get_range_from_rows(Q), RL!WholeMemory}
    BY <1>4, Zenon
  <2> HIDE DEF Q
  <2> QED  BY <1>3, <2>1, FilledRows, Zenon
<1>6. CASE row_list_generator = "EvenRow"
  <2>1. RL!generate_rows = [i \in 1 .. list_rows |-> RL!logical_to_physical((iteration + 2 * (i - 1)) % max_row)]
    BY <1>6 DEF RL!generate_rows
  <2>2. ASSUME NEW i \in 1 .. list_rows
        PROVE  (iteration + 2 * (i - 1)) % max_row \in 0 .. max_row - 1
    <3> DEFINE x == iteration + 2 * (i - 1)
    <3>1. x \in Int
      BY <1>1
    <3> HIDE DEF x
    <3>2. x % max_row \in 0 .. max_row - 1
      BY <1>1, <3>1, Division, Zenon
    <3> QED  BY <3>2, Zenon DEF x
  <2>3. Elements(RL!generate_rows) \subseteq Q
    BY <2>1, <2>2, Zenon DEF Elements
  <2> QED  BY <1>3, <1>5, <2>3, Zenon
<1>7. CASE row_list_generator = "RowSequence"
  <2>1. RL!generate_rows = [i \in DOMAIN row_seq |-> RL!logical_to_physical(row_seq[i])]
    BY <1>7 DEF RL!generate_rows
  <2>2. ~fill_local /\ \A i \in DOMAIN row_seq : RL!logical_to_physical(row_seq[i]) \in 0 .. N - 1
    BY <1>7, Zenon DEF RL!ListConfiguration
  <2>3. RL!RowsIn(RL!ListRange) = 0 .. N - 1
    BY <1>4, <2>2, WholeCovered, Zenon
  <2>4. Elements(RL!generate_rows) \subseteq 0 .. N - 1
    BY <2>1, <2>2, Zenon DEF Elements
  <2> QED  BY <1>3, <1>5, <2>3, <2>4, Zenon
<1> QED  BY <1>6, <1>7, Zenon

\* What the invariant says of the rows filled.
LEMMA FillMeans ==
  ASSUME FillInv, AnalysisRun
  PROVE  FillsWhatItHammers
<1>1. CASE pg \in {"RowList", "LoggedRowList"}
  <2>1. RL!ListConfiguration /\ iteration \in Nat /\ fill_local \in BOOLEAN
        /\ row_list_generator \in {"EvenRow", "RowSequence"}
    BY <1>1 DEF FillInv
  <2>2. get_memset_range = RL!ListRange /\ get_memtest_range = RL!ListRange
        /\ Hammered = Elements(RL!generate_rows)
    BY <1>1 DEF get_memset_range, get_memtest_range, Hammered
  <2>3. /\ at = "execute" => filled = RL!ListRange
        /\ at = "process" => filled = RL!ListRange /\ tested = RL!ListRange
    BY <2>2, Zenon DEF FillInv
  <2> QED  BY <2>1, <2>2, <2>3, ListRowsCovered, Zenon DEF FillsWhatItHammers
<1>2. CASE pg \notin {"HalfDouble", "HammerTolerance", "RowList", "LoggedRowList"}
  <2>1. get_memset_range = RL!WholeMemory /\ get_memtest_range = RL!WholeMemory /\ Hammered = {}
    BY <1>2, Zenon DEF get_memset_range, get_memtest_range, Hammered
  <2>2. at = "process" => filled = RL!WholeMemory /\ tested = RL!WholeMemory
    BY <2>1, Zenon DEF FillInv
  <2>3. 0 .. 2^rowbits - 1 # {}
    BY Geometry
  <2> QED  BY <2>1, <2>2, <2>3, WholeCovered, Zenon DEF FillsWhatItHammers
<1> QED  BY <1>1, <1>2, AnalysisFills, ToleranceFills, Zenon

\* fill_local, "permits shrinking the filled memory area to just the aggressors and the victim"
\* (docs/source/playbook.md:73): for every geometry, row mapping and configuration whose rows exist, what an
\* iteration of the Half-Double analysis or of a row list hammers, and what an iteration of any generator
\* tests, was filled in the same iteration.
THEOREM FillsWhatIsHammered == GeneratorSpec => []FillsWhatItHammers
<1>1. Init => FillInv
  BY FillInit, Zenon
<1>2. FillInv /\ [GeneratorNext]_vars => FillInv'
  BY FillStep, Zenon
<1>3. FillInv /\ AnalysisRun => FillsWhatItHammers
  BY FillMeans, Zenon
<1> QED  BY <1>1, <1>2, <1>3, AnalysisInvariant, PTL DEF GeneratorSpec
=============================================================================
