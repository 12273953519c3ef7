----------------------------- MODULE RowHammerLog ----------------------------
(***************************************************************************)
(* What the rowhammer scripts make of the flips of a check: check_errors   *)
(* sorts them by row, display_errors makes the entry of the log, and       *)
(* logs2dq.py, logs2plot.py and logs2vis.py count and draw what the log    *)
(* lists.  A flip is [bank, row, col, bit]: the bit of the word the BIST   *)
(* reader fetches at that column, which starts a burst.                    *)
(***************************************************************************)
EXTENDS AddressConverter, FiniteSets, FiniteSetsExt, SequencesExt

CONSTANTS
  data_bits,             \* width of a word of the BIST reader
  DQ_PADS                \* pads of the memory bus; data_bits is a multiple of it

ASSUME LogAssumption ==
  /\ {colbits, rowbits, bankbits, address_align, bus_shift} \subseteq Nat
  /\ address_align <= colbits /\ address_align + bus_shift >= 2
  /\ {data_bits, DQ_PADS} \subseteq Nat \ {0} /\ data_bits % DQ_PADS = 0

Max0(S) == IF S = {} THEN 0 ELSE Max(S)
-----------------------------------------------------------------------------
\* min(addresses_per_row(row)): the first column of the row in the script's bank.
base_addr(bank, row) == encode_bus(bank, row, 0)

\* The words hw_memtest reports: their offset, and the bits that differ from the pattern.
memtest_errors(flips) ==
  {[offset |-> encode_bus(f.bank, f.row, f.col) \div dma_data_bytes,
    bits |-> {g.bit : g \in {h \in flips : h.bank = f.bank /\ h.row = f.row /\ h.col = f.col}}]
     : f \in flips}

\* Mutant: the offset of a word is taken from the row's first column in bank 0.
MutantFromBankZero(bank, flips) ==
  LET addr(e) == e.offset * dma_data_bytes
      row(e)  == decode_bus(addr(e)).row
      errors  == memtest_errors(flips)
  IN  [r \in {row(e) : e \in errors} |->
         {[i |-> (addr(e) - base_addr(0, r)) \div 4, bits |-> e.bits] : e \in {x \in errors : row(x) = r}}]

\* HwRowHammer.check_errors: the errors by row, at a distance in 32-bit words from
\* the row's first column in the script's bank.
check_errors(bank, flips) ==
  LET addr(e) == e.offset * dma_data_bytes
      row(e)  == decode_bus(addr(e)).row
      errors  == memtest_errors(flips)
  IN  [r \in {row(e) : e \in errors} |->
         {[i |-> (addr(e) - base_addr(bank, r)) \div 4, bits |-> e.bits] : e \in {x \in errors : row(x) = r}}]

\* Digits of bin(x), x being the set of its bits.
digits(x) == Max0(x) + 1

\* The places of the ones in the binary form of val ^ exp, which is padded to the
\* digits of exp and read from its first digit.
bitflip_list(bits, exp) ==
  LET width == Max({digits(bits), digits(exp)})
  IN  {width - 1 - b : b \in bits}

\* display_errors: a word replaces an earlier one of the same row and column.
display_errors(bank, row_errors, exp) ==
  [r \in DOMAIN row_errors |->
     LET at(e)  == decode_bus(base_addr(bank, r) + 4 * e.i)
         last(S) == CHOOSE e \in S : \A x \in S : x.i <= e.i
         errors == row_errors[r]
     IN  [row |-> at(last(errors)).row,
          col |-> [c \in {at(e).col : e \in errors} |->
                     bitflip_list(last({e \in errors : at(e).col = c}).bits, exp)],
          bitflips |-> MapThenSumSet(LAMBDA e : Cardinality(e.bits), errors)]]
-----------------------------------------------------------------------------
\* logs2dq.py, logs2plot.py (when a tile is clicked): flips of an attack per pad.
count_bitflips_per_dq(cols) ==
  [pad \in 0 .. DQ_PADS - 1 |->
     MapThenSumSet(LAMBDA c : Cardinality({l \in cols[c] : l % DQ_PADS = pad}), DOMAIN cols)]

attack_dq(errors) ==
  [pad \in 0 .. DQ_PADS - 1 |->
     MapThenSumSet(LAMBDA r : count_bitflips_per_dq(errors[r].col)[pad], DOMAIN errors)]

\* logs2vis.py: the cell of a row and of the columns from col to col + col_step - 1.
process_standard(errors, col_step) ==
  [cell \in (DOMAIN errors) \X {c \in 0 .. 2^colbits - 1 : c % col_step = 0} |->
     LET cols == errors[cell[1]].col
     IN  MapThenSumSet(LAMBDA c : Cardinality(cols[c]), (DOMAIN cols) \cap (cell[2] .. cell[2] + col_step - 1))]

\* Mutant: rows left over at the end get no label of their own.
MutantNoLeftOver(n, step) ==
  LET Row(acc, i) ==
        [begin  |-> IF acc.count = -1 THEN i ELSE acc.begin,
         edges  |-> IF acc.count = -1 THEN Append(acc.edges, i) ELSE acc.edges,
         labels |-> IF acc.count + 1 = step - 1
                      THEN Append(acc.labels, <<IF acc.count = -1 THEN i ELSE acc.begin, i>>)
                      ELSE acc.labels,
         count  |-> IF acc.count + 1 = step - 1 THEN -1 ELSE acc.count + 1]
      end == FoldLeft(Row, [begin |-> 0, edges |-> <<>>, labels |-> <<>>, count |-> -1],
                      [i \in 1 .. n |-> i])
  IN  [edges  |-> Append(end.edges, n + 1), labels |-> end.labels]

\* logs2plot.py, the rows of an attack by their position in the log: the first row of
\* each group is an edge of the histogram, and a group is labelled with its first and
\* last row.
row_groups(n, step) ==
  LET Row(acc, i) ==
        [begin  |-> IF acc.count = -1 THEN i ELSE acc.begin,
         edges  |-> IF acc.count = -1 THEN Append(acc.edges, i) ELSE acc.edges,
         labels |-> IF acc.count + 1 = step - 1
                      THEN Append(acc.labels, <<IF acc.count = -1 THEN i ELSE acc.begin, i>>)
                      ELSE acc.labels,
         count  |-> IF acc.count + 1 = step - 1 THEN -1 ELSE acc.count + 1]
      end == FoldLeft(Row, [begin |-> 0, edges |-> <<>>, labels |-> <<>>, count |-> -1],
                      [i \in 1 .. n |-> i])
  IN  [edges  |-> Append(end.edges, n + 1),
       labels |-> IF end.count > -1 THEN Append(end.labels, <<end.begin, n>>) ELSE end.labels]

row_step(n, max_row_cnt) == IF n <= max_row_cnt THEN 1 ELSE n \div max_row_cnt

\* The flips of each bin, of a group of rows and of the columns from a multiple of
\* col_step: numpy's last bin includes its last edge.
plot_single_attack(errors, col_step, max_row_cnt) ==
  LET rows == SetToSortSeq(DOMAIN errors, <)
      edge == row_groups(Len(rows), row_step(Len(rows), max_row_cnt)).edges
      last == (2^colbits \div col_step) * col_step
      hit(c, x) == c <= x /\ (x < c + col_step \/ (x = last /\ c + col_step = last))
      bin(k, c) ==
        MapThenSumSet(LAMBDA i :
          LET cols == errors[rows[i]].col
          IN  MapThenSumSet(LAMBDA x : Cardinality(cols[x]), {x \in DOMAIN cols : hit(c, x)}),
          edge[k] .. edge[k + 1] - 1)
  IN  [b \in (1 .. Len(edge) - 1) \X {c \in 0 .. last - col_step : c % col_step = 0} |-> bin(b[1], b[2])]
-----------------------------------------------------------------------------
\* --aggressors-vs-victims, of the attacks of a read count: it needs attacks on single rows.
SingleRows(attacks) == \A a \in DOMAIN attacks : Len(a) = 2 /\ a[1] = a[2]

\* Aggressors with the rows that have flips, from the log.
aggressors_vs_victims(attacks) ==
  [row \in {a[1] : a \in DOMAIN attacks} |-> attacks[<<row, row>>].errors]

\* logs2plot.py: the weight of the tile of each victim and aggressor.
plot_aggressors_vs_victims(data) ==
  [t \in UNION {{<<data[a][r].row, a>> : r \in DOMAIN data[a]} : a \in DOMAIN data} |->
     data[t[2]][t[1]].bitflips]

\* logs2vis.py: the tiles, as a bag: one for each aggressor, and for each victim of an
\* aggressor, which the loop over its columns appends once for every column.
process_aggr_vs_vict(data) ==
  LET target(a)  == [at |-> <<a, a>>, type |-> "TGT", label |-> 0]
      flip(a, r) == [at |-> <<data[a][r].row, a>>, type |-> "FLIP", label |-> data[a][r].bitflips]
      victims(a) == {r \in DOMAIN data[a] : DOMAIN data[a][r].col # {}}
  IN  [t \in {target(a) : a \in DOMAIN data}
               \cup UNION {{flip(a, r) : r \in victims(a)} : a \in DOMAIN data} |->
         IF t.type = "TGT" THEN 1
         ELSE Cardinality(UNION {DOMAIN data[t.at[2]][r].col :
                                   r \in {v \in victims(t.at[2]) : flip(t.at[2], v) = t}})]
=============================================================================
