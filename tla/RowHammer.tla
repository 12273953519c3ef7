------------------------------ MODULE RowHammer ------------------------------
(***************************************************************************)
(* The test scripts rowhammer.py and hw_rowhammer.py: main with its        *)
(* arguments and its loop over read counts and row pairs, RowHammer with   *)
(* its attack through the DMA (RowHammerDMA), and HwRowHammer.run, which   *)
(* fills and verifies the memory, switches the controller's refresh off,   *)
(* attacks pair after pair with the BIST reader or the payload executor,   *)
(* switches refresh on again, looks for flips and returns them for the     *)
(* log (RowHammerLog).  The transfers of hw_memset and hw_memtest and the  *)
(* runs of the reader and of a payload are single steps here; which flips  *)
(* an attack leaves is the memory's choice.                                *)
(***************************************************************************)
EXTENDS RowHammerDMA, RowHammerLog

CONSTANTS
  Options,               \* command lines: see Option
  Flips                  \* sets of flips that an attack may leave

\* Arguments, with their defaults; cls is the class given to main.
Option ==
  [cls |-> "HwRowHammer", mode |-> "const", start_row |-> 0, nrows |-> 2, distance |-> 2,
   jump |-> 1, rows |-> <<0, 2>>, read_count |-> <<3, 3, 1>>, no_refresh |-> FALSE,
   payload_executor |-> FALSE, pattern |-> "all_1", bank |-> 0, exit_on_bit_flip |-> FALSE]

\* What the parser of main gives: rows are one or more (nargs), two for a constant pair,
\* and counts are not negative.
ASSUME OptionsAssumption ==
  \A o \in Options :
    /\ o.rows \in Seq(Int) /\ Len(o.rows) > 0
    /\ o.mode = "const" => Len(o.rows) = 2
    /\ \A i \in 1 .. 3 : o.read_count[i] \in Nat
    /\ o.start_row \in Int /\ o.nrows \in Int /\ o.distance \in Int
    /\ o.jump \in Nat \ {0}

VARIABLES
  opt,
  row_pairs,
  pc,                    \* "args", "start", "main", "dma", "run", "verify", "attack",
                         \* "hammering", "check"; "usage", "exception", "exited", "done"
  count,                 \* read count of main's loop
  call,                  \* attacks or run() calls made for this read count
  pair,                  \* attacks made in this run
  reads,                 \* reads of the last attack of this run (history)
  refresh,               \* controller_settings_refresh
  modulo,                \* reader_modulo
  memory,                \* cells that do not hold the pattern
  bitflip_found,
  err_summary,           \* by read count (0: "no_attack_time"), then by attack
  checks                 \* what the memory held at each check (history)

scriptVars == <<opt, row_pairs, pc, count, call, pair, reads, refresh, modulo, memory,
                bitflip_found, err_summary, checks>>
vars == <<dmaVars, scriptVars>>

Empty == [x \in {} |-> 0]

Init ==
  /\ DMAInit
  /\ opt \in Options
  /\ opt.cls = "HwRowHammer" => ~enabled /\ counter = 0        \* nothing looks at them
  /\ row_pairs = <<>>
  /\ pc = "args" /\ count = 0 /\ call = 0 /\ pair = 0 /\ reads = 0
  /\ refresh = TRUE /\ modulo = FALSE
  /\ memory = {}
  /\ bitflip_found = FALSE
  /\ err_summary = Empty /\ checks = Empty
-----------------------------------------------------------------------------
\* The arguments main refuses.
UsageError ==
  \/ opt.mode = "all_rows" /\ opt.distance < 0
  \/ opt.mode \in {"sequential", "random"} /\ opt.nrows <= 0
  \/ opt.mode = "none"

\* range(first, stop, step)
range(first, stop, step) ==
  [i \in 1 .. (IF stop <= first THEN 0 ELSE (stop - first + step - 1) \div step) |->
     first + (i - 1) * step]

\* The pairs to attack: one of them for each list the random generator can give.
RowPairs ==
  CASE opt.mode \in {"hammer_only", "const"} -> {<<opt.rows>>}
    [] opt.mode = "all_rows" ->
         LET firsts == range(opt.start_row, opt.nrows - opt.distance, opt.jump)
         IN  {[i \in DOMAIN firsts |-> <<firsts[i], firsts[i] + opt.distance>>]}
    [] opt.mode = "sequential" ->
         {[i \in 1 .. opt.nrows |-> <<opt.start_row, opt.start_row + i - 1>>]}
    [] opt.mode = "random" ->
         LET rand_row == opt.start_row .. opt.start_row + opt.nrows
         IN  [1 .. opt.nrows -> rand_row \X rand_row]
    [] OTHER -> {<<>>}

Arguments ==
  /\ pc = "args"
  /\ \/ UsageError /\ pc' = "usage" /\ UNCHANGED row_pairs
     \/ ~UsageError /\ row_pairs' \in RowPairs /\ pc' = "start"
  /\ UNCHANGED <<dmaVars, opt, count, call, pair, reads, refresh, modulo, memory, bitflip_found,
                 err_summary, checks>>

\* The memory is initialised by mem.py if it was not; main ends when mem.py fails.
Start ==
  /\ pc = "start"
  /\ pc' \in {"main", "exception"}
  /\ count' = opt.read_count[1]
  /\ UNCHANGED <<dmaVars, opt, row_pairs, call, pair, reads, refresh, modulo, memory,
                 bitflip_found, err_summary, checks>>

\* attack() or run() calls for one read count; attacks of one run.
Calls == IF opt.mode = "all_rows" THEN Len(row_pairs) ELSE 1
Attacked == IF opt.mode = "all_rows" THEN <<row_pairs[call]>>
            ELSE IF opt.mode = "no_attack" THEN <<>> ELSE row_pairs

InRange(rows) == \A i \in DOMAIN rows : rows[i] < 2^rowbits

\* main: the attack of --hammer-only, with the DMA.
HammerDMA ==
  /\ opt.cls = "RowHammer" /\ ~opt.payload_executor
  /\ Attack(Len(row_pairs[1]), count)
  /\ pc' = "dma"
  /\ UNCHANGED <<pair, reads>>

\* ... with the BIST reader or the payload executor.
HammerOnly ==
  /\ ~(opt.cls = "RowHammer" /\ ~opt.payload_executor)
  /\ pair' = 0 /\ reads' = 0
  /\ pc' = "attack"
  /\ UNCHANGED dmaVars

Run ==
  /\ pair' = 0 /\ reads' = 0
  /\ pc' = "run"
  /\ UNCHANGED dmaVars

\* The first call for a read count finds its part of the log empty.
Opened == IF call = 0 THEN (count :> Empty) @@ err_summary ELSE err_summary

\* main: the next attack or run of this read count.
MainCall ==
  /\ pc = "main" /\ count <= opt.read_count[2] /\ call < Calls
  /\ call' = call + 1
  /\ err_summary' = Opened
  /\ IF opt.mode = "hammer_only" THEN HammerDMA \/ HammerOnly ELSE Run
  /\ UNCHANGED <<opt, row_pairs, count, refresh, modulo, memory, bitflip_found, checks>>

\* main: the end of the loop's body, and of the loop.
MainNext ==
  /\ pc = "main"
  /\ IF count > opt.read_count[2] THEN pc' = "done" /\ UNCHANGED <<count, call, err_summary>>
     ELSE /\ call = Calls
          /\ call' = 0
          /\ err_summary' = Opened
          /\ count' = count + opt.read_count[3]
          /\ pc' = IF bitflip_found /\ opt.exit_on_bit_flip THEN "done" ELSE "main"
  /\ UNCHANGED <<dmaVars, opt, row_pairs, pair, reads, refresh, modulo, memory, bitflip_found, checks>>

\* A cycle of the attack with the DMA, which may leave flips nobody looks for.
CycleDMA(accept) ==
  /\ pc = "dma"
  /\ Cycle(accept)
  /\ pc' = IF host' = "idle" THEN "main" ELSE IF host' = "assertion" THEN "exception" ELSE "dma"
  /\ UNCHANGED <<opt, row_pairs, count, call, pair, reads, refresh, modulo, memory, bitflip_found,
                 err_summary, checks>>
-----------------------------------------------------------------------------
\* The pattern of run(): of the first row of the first pair, as the set of its ones.
AllOnes == 0 .. data_bits - 1
Expected ==
  LET row == IF opt.mode = "no_attack" THEN 0 ELSE Attacked[1][1]
  IN  CASE opt.pattern = "all_0" -> {}
        [] opt.pattern = "all_1" -> AllOnes
        [] opt.pattern = "01_in_row" -> {b \in AllOnes : b % 2 = 1}
        [] opt.pattern = "01_per_row" -> IF row % 2 = 0 THEN AllOnes ELSE {}

\* RowHammer.run: data_inversion or not, it ends with an exception in prepare_memory,
\* which uses names it does not define.
BaseRun ==
  /\ pc = "run" /\ opt.cls = "RowHammer"
  /\ pc' = "exception"
  /\ UNCHANGED <<dmaVars, opt, row_pairs, count, call, pair, reads, refresh, modulo, memory,
                 bitflip_found, err_summary, checks>>

\* HwRowHammer.run: hw_memset of the whole memory.
Fill ==
  /\ pc = "run" /\ opt.cls = "HwRowHammer"
  /\ memory' = {}
  /\ pc' = "verify"
  /\ UNCHANGED <<dmaVars, opt, row_pairs, count, call, pair, reads, refresh, modulo, bitflip_found,
                 err_summary, checks>>

\* The name of the attack in the log.
AttackName ==
  CASE opt.mode = "all_rows" -> row_pairs[call]
    [] opt.mode = "const" -> row_pairs[1]
    [] OTHER -> <<>>

\* main: what run() returned goes into the log.
Log(entry) ==
  err_summary' = IF opt.mode = "no_attack" THEN 0 :> (AttackName :> entry)
                 ELSE [err_summary EXCEPT ![count] = (AttackName :> entry) @@ @]

\* verify_initial: run() returns None if the memory does not hold the pattern.
Verify ==
  /\ pc = "verify"
  /\ \/ /\ pc' = "attack"
        /\ refresh' = IF opt.no_refresh THEN FALSE ELSE refresh
        /\ UNCHANGED <<memory, err_summary>>
     \/ /\ memory' \in Flips \ {{}}
        /\ Log([returned |-> FALSE, errors |-> Empty])
        /\ pc' = "main"
        /\ UNCHANGED refresh
  /\ UNCHANGED <<dmaVars, opt, row_pairs, count, call, pair, reads, modulo, bitflip_found, checks>>

\* Attacks of HwRowHammer, in run() or alone.
MoreAttacks == pc = "attack" /\ pair < Len(Attacked)
row_tuple == Attacked[pair + 1]
AttackDone ==
  /\ \E F \in Flips : memory' = memory \cup F
  /\ pair' = pair + 1

\* attack with the BIST reader: modulo mode is set and the reader started ...  run()
\* would return here, with refresh off, when the number of rows is no power of two: the
\* rows main gives it are pairs.
AttackBIST ==
  /\ MoreAttacks /\ ~opt.payload_executor
  /\ \/ /\ InRange(row_tuple)
        /\ modulo' = TRUE
        /\ reads' = count
        /\ pc' = "hammering"
     \/ /\ ~InRange(row_tuple)                 \* assertion of DRAMAddressConverter._encode
        /\ pc' = "exception"
        /\ UNCHANGED <<modulo, reads>>
  /\ UNCHANGED <<dmaVars, opt, row_pairs, count, call, pair, refresh, memory, bitflip_found,
                 err_summary, checks>>

\* Mutant: the reader is left in modulo mode.
MutantLeavesModulo ==
  /\ pc = "hammering"
  /\ AttackDone
  /\ pc' = "attack"
  /\ UNCHANGED <<dmaVars, opt, row_pairs, count, call, reads, refresh, modulo, bitflip_found,
                 err_summary, checks>>

\* ... and when it is ready again, the mode is reset.
AttackEnds ==
  /\ pc = "hammering"
  /\ AttackDone
  /\ modulo' = FALSE
  /\ pc' = "attack"
  /\ UNCHANGED <<dmaVars, opt, row_pairs, count, call, reads, refresh, bitflip_found, err_summary,
                 checks>>

\* Mutant: the reads are not shared out to the rows.
MutantAllReads(rows) == count

\* A payload activates each row read_count times: run() shares its reads out.
PayloadReads(rows) ==
  IF opt.mode = "hammer_only" THEN count ELSE (count + rows - 1) \div rows

AttackPayload ==
  /\ MoreAttacks /\ opt.payload_executor
  /\ AttackDone
  /\ reads' = Len(row_tuple) * PayloadReads(Len(row_tuple))
  /\ UNCHANGED <<dmaVars, opt, row_pairs, pc, count, call, refresh, modulo, bitflip_found,
                 err_summary, checks>>

\* The payload does not fit the payload memory: sys.exit(1).
PayloadTooLarge ==
  /\ MoreAttacks /\ opt.payload_executor
  /\ pc' = "exited"
  /\ UNCHANGED <<dmaVars, opt, row_pairs, count, call, pair, reads, refresh, modulo, memory,
                 bitflip_found, err_summary, checks>>

\* --hammer-only looks for no flips.
HammerOnlyEnds ==
  /\ pc = "attack" /\ opt.mode = "hammer_only" /\ pair = Len(Attacked)
  /\ pc' = "main"
  /\ UNCHANGED <<dmaVars, opt, row_pairs, count, call, pair, reads, refresh, modulo, memory,
                 bitflip_found, err_summary, checks>>

\* no_attack_sleep: cells may lose their value while nothing is refreshed.
Sleep ==
  /\ pc = "attack" /\ opt.mode = "no_attack" /\ pair = 0
  /\ AttackDone
  /\ UNCHANGED <<dmaVars, opt, row_pairs, pc, count, call, reads, refresh, modulo, bitflip_found,
                 err_summary, checks>>

AttacksOver == pc = "attack" /\ pair = IF opt.mode = "no_attack" THEN 1 ELSE Len(Attacked)

Restore ==
  /\ AttacksOver /\ opt.mode # "hammer_only"
  /\ refresh' = IF opt.no_refresh THEN TRUE ELSE refresh
  /\ pc' = "check"
  /\ UNCHANGED <<dmaVars, opt, row_pairs, count, call, pair, reads, modulo, memory, bitflip_found,
                 err_summary, checks>>

\* Errors of the whole memory: none, or those of display_errors.
Check ==
  /\ pc = "check"
  /\ bitflip_found' = (memory # {})
  /\ Log([returned |-> TRUE,
          errors |-> display_errors(opt.bank, check_errors(opt.bank, memory), Expected)])
  /\ checks' = [k \in DOMAIN checks \cup {<<count, AttackName>>} |->
                  IF k = <<count, AttackName>> THEN [flips |-> memory, exp |-> Expected]
                                               ELSE checks[k]]
  /\ pc' = "main"
  /\ UNCHANGED <<dmaVars, opt, row_pairs, count, call, pair, reads, refresh, modulo, memory>>

Next ==
  \/ Arguments \/ Start \/ MainCall \/ MainNext
  \/ \E accept \in BOOLEAN : CycleDMA(accept)
  \/ BaseRun \/ Fill \/ Verify \/ AttackBIST \/ AttackEnds \/ AttackPayload \/ PayloadTooLarge
  \/ HammerOnlyEnds \/ Sleep \/ Restore \/ Check

Spec == Init /\ [][Next]_vars

\* The scripts go on, and the controller serves a read of the DMA once in a while.
FairSpec == Spec /\ WF_vars(Next) /\ SF_vars(enabled /\ CycleDMA(TRUE))
-----------------------------------------------------------------------------
(***************************************************************************)
(* "If refreshes were disabled, it reenables them" (rowhammer.py:248): the *)
(* memory is filled, verified and checked, the next run is started and the *)
(* script ends with the controller's refresh on and the reader out of the  *)
(* mode of the attack, so that no attack's settings get into a check.  A   *)
(* run that ends by an exception or by sys.exit is not covered.            *)
(***************************************************************************)
SettingsRestored ==
  pc \in {"main", "run", "verify", "check", "done"} => refresh /\ ~modulo

(***************************************************************************)
(* "Exit tests as soon as bitflip is found" (rowhammer.py:404): no read    *)
(* count is tried after one at which a check found flips, whether run()    *)
(* was called once for that read count or once for each pair (--all-rows). *)
(***************************************************************************)
ExitsOnBitFlip ==
  opt.exit_on_bit_flip /\ pc \notin {"main", "done"} =>
    \A k \in DOMAIN checks : checks[k].flips # {} => k[1] >= count

(***************************************************************************)
(* However the rows are hammered, by the DMA, by the BIST reader or by a   *)
(* payload, an attack of run() makes read_count reads, up to the last turn *)
(* of the rows ("To keep read_count consistent with BIST behaviour",       *)
(* hw_rowhammer.py:127), and the DMA's are shared evenly.                  *)
(***************************************************************************)
HammersAsAsked ==
  /\ HammersEvenly
  /\ pc = "attack" /\ pair > 0 /\ opt.mode \notin {"no_attack", "hammer_only"} =>
       reads \in count .. count + Len(Attacked[pair]) - 1

\* What the memory held when the entry of attack a, read count n, was made.
Truth(n, a) == checks[<<IF n = 0 THEN Max({k[1] : k \in DOMAIN checks}) ELSE n, a>>]

\* The entries of the log that list the flips of a check.
Entries ==
  {<<n, a>> : n \in DOMAIN err_summary, a \in UNION {DOMAIN err_summary[m] : m \in DOMAIN err_summary}}
Logged ==
  {k \in Entries : k[2] \in DOMAIN err_summary[k[1]] /\ err_summary[k[1]][k[2]].returned}

\* The flips of a word, at the places of its binary form from the first digit.
Places(flips) == {data_bits - 1 - f.bit : f \in flips}

(***************************************************************************)
(* The log that main writes has one entry for each check, and it is exact: *)
(* the rows with flips and no others, how many flips each has, the columns *)
(* they are in, and for each column the flips of one of its words, which   *)
(* is all of them unless two banks flipped there.  When the pattern starts *)
(* with a one, a flip is listed at its place in the word.                  *)
(***************************************************************************)
SummaryExact ==
  pc = "done" =>
    /\ opt.mode # "no_attack" => DOMAIN checks \subseteq Logged
    /\ \A k \in Logged :
         LET errors == err_summary[k[1]][k[2]].errors
             truth  == Truth(k[1], k[2])
             of(r)  == {f \in truth.flips : f.row = r}
         IN  /\ DOMAIN errors = {f.row : f \in truth.flips}
             /\ \A r \in DOMAIN errors :
                  /\ errors[r].row = r
                  /\ errors[r].bitflips = Cardinality(of(r))
                  /\ DOMAIN errors[r].col = {f.col : f \in of(r)}
                  /\ \A c \in DOMAIN errors[r].col : \E bank \in 0 .. 2^bankbits - 1 :
                       LET word == {f \in of(r) : f.col = c /\ f.bank = bank}
                       IN  /\ word # {} /\ Cardinality(errors[r].col[c]) = Cardinality(word)
                           /\ data_bits - 1 \in truth.exp => errors[r].col[c] = Places(word)

\* The flips the log lists for an attack.
Listed(errors) ==
  MapThenSumSet(LAMBDA r : MapThenSumSet(LAMBDA c : Cardinality(errors[r].col[c]), DOMAIN errors[r].col),
                DOMAIN errors)

Total(f) == MapThenSumSet(LAMBDA x : f[x], DOMAIN f)

\* No two banks have flips in the same row and column.
Alone(flips) == \A f, g \in flips : f.row = g.row /\ f.col = g.col => f.bank = g.bank

(***************************************************************************)
(* Nothing the log lists is lost or counted twice on the way to a plot:    *)
(* the bars of logs2dq.py, the cells of logs2vis.py and the bins of        *)
(* logs2plot.py have as many flips as the log, however the rows and the    *)
(* columns are grouped (the bins when the groups of columns fill the row:  *)
(* their edges leave out a last, shorter one), every bin is labelled with  *)
(* the rows that are in it, and, when the pattern starts with a one, a bar *)
(* has the flips of one pad (in reverse order).  With                      *)
(* --aggressors-vs-victims, for attacks on single rows, the tiles of       *)
(* logs2plot.py have all flips that were found; logs2vis.py puts a tile,   *)
(* or several on top of each other, at the same places and no others, and  *)
(* each says how many flips the victim has.                                *)
(***************************************************************************)
PlotsShowEveryFlip ==
  pc = "done" =>
    /\ \A k \in Logged, col_step \in {1, 2, 3}, max_row_cnt \in {1, 2} :
         LET errors == err_summary[k[1]][k[2]].errors
             truth  == Truth(k[1], k[2])
             listed == Listed(errors)
             rows   == Cardinality(DOMAIN errors)
             groups == row_groups(rows, row_step(rows, max_row_cnt))
             bars   == attack_dq(errors)
             cells  == process_standard(errors, col_step)
             bins   == plot_single_attack(errors, col_step, max_row_cnt)
         IN  listed > 0 =>
             /\ Total(bars) = listed /\ Total(cells) = listed
             /\ 2^colbits % col_step = 0 => Total(bins) = listed
             /\ groups.labels =
                  [i \in 1 .. Len(groups.edges) - 1 |-> <<groups.edges[i], groups.edges[i + 1] - 1>>]
             /\ Alone(truth.flips) /\ data_bits - 1 \in truth.exp =>
                  \A pad \in DOMAIN bars :
                    bars[DQ_PADS - 1 - pad] = Cardinality({f \in truth.flips : f.bit % DQ_PADS = pad})
    /\ \A n \in DOMAIN err_summary \ {0} :
         LET attacks == err_summary[n]
             data    == aggressors_vs_victims(attacks)
             tiles   == plot_aggressors_vs_victims(data)
         IN  SingleRows(attacks) /\ (\A a \in DOMAIN attacks : attacks[a].returned) =>
             /\ Total(tiles) = MapThenSumSet(LAMBDA a : Cardinality(Truth(n, a).flips), DOMAIN attacks)
             /\ {[at |-> t, type |-> "FLIP", label |-> tiles[t]] : t \in DOMAIN tiles}
                  = {t \in DOMAIN process_aggr_vs_vict(data) : t.type = "FLIP"}

(***************************************************************************)
(* "bitflips grouped per DQ pad" (logs2dq.py:4): in the plot of an attack  *)
(* there is one bar for each pad, and it counts the flips of that pad, the *)
(* data bits that go over it.                                              *)
(***************************************************************************)
GroupedPerPad ==
  pc = "done" =>
    \A k \in Logged :
      LET flips == Truth(k[1], k[2]).flips
          bars  == attack_dq(err_summary[k[1]][k[2]].errors)
          OnPad(pad) == Cardinality({f \in flips : f.bit % DQ_PADS = pad})
      IN  Alone(flips) =>
            \E bar \in Permutations(DOMAIN bars) : \A pad \in DOMAIN bars : bars[bar[pad]] = OnPad(pad)

(***************************************************************************)
(* The script ends: every attack's count is reached and seen by a poll,    *)
(* and every read count is done once.                                      *)
(***************************************************************************)
ScriptEnds == <>(pc \in {"usage", "exception", "exited", "done"})
=============================================================================
