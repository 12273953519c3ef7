--------------------------- MODULE RowHammerProofs ---------------------------
(***************************************************************************)
(* Proofs about the rowhammer scripts, for command lines, row lists, read  *)
(* counts and memories of any size.                                        *)
(***************************************************************************)
EXTENDS RowHammer, TLAPS

(***************************************************************************)
(* Refresh is off and modulo mode on in the attack only; --hammer-only     *)
(* leaves the attack without restoring anything, and has nothing to        *)
(* restore.                                                                *)
(***************************************************************************)
SettingsInv ==
  /\ pc \notin {"attack", "hammering", "exception", "exited"} => refresh
  /\ pc \notin {"hammering", "exception", "exited"} => ~modulo
  /\ pc \in {"attack", "hammering"} /\ ~refresh => opt.no_refresh
  /\ opt.mode = "hammer_only" => refresh /\ pc \notin {"run", "verify", "check"}
  
\* Every step keeps the settings of an attack inside the attack.
LEMMA SettingsStep ==
  ASSUME SettingsInv, [Next]_vars
  PROVE  SettingsInv'
  <1> USE DEF SettingsInv
  <1>1. CASE Arguments
    BY <1>1 DEF Arguments
  <1>2. CASE Start
    BY <1>2 DEF Start
  <1>3. CASE MainCall
    BY <1>3 DEF MainCall, HammerDMA, HammerOnly, Run
  <1>4. CASE MainNext
    BY <1>4 DEF MainNext
  <1>5. ASSUME NEW accept \in BOOLEAN, CycleDMA(accept) PROVE SettingsInv'
    BY <1>5 DEF CycleDMA
  <1>6. CASE BaseRun
    BY <1>6 DEF BaseRun
  <1>7. CASE Fill
    BY <1>7 DEF Fill
  <1>8. CASE Verify
    BY <1>8, Zenon DEF Verify
  <1>9. CASE AttackBIST
    BY <1>9 DEF AttackBIST, MoreAttacks
  <1>10. CASE AttackEnds
    BY <1>10 DEF AttackEnds
  <1>11. CASE AttackPayload
    BY <1>11 DEF AttackPayload, MoreAttacks
  <1>12. CASE PayloadTooLarge
    BY <1>12 DEF PayloadTooLarge, MoreAttacks
  <1>13. CASE HammerOnlyEnds
    BY <1>13 DEF HammerOnlyEnds
  <1>14. CASE Sleep
    BY <1>14 DEF Sleep
  <1>15. CASE Restore
    BY <1>15 DEF Restore, AttacksOver
  <1>16. CASE Check
    BY <1>16 DEF Check
  <1>17. CASE UNCHANGED vars
    BY <1>17 DEF vars, scriptVars
  <1> QED
    BY <1>1, <1>2, <1>3, <1>4, <1>5, <1>6, <1>7, <1>8, <1>9, <1>10, <1>11, <1>12, <1>13,
       <1>14, <1>15, <1>16, <1>17, Zenon DEF Next

(***************************************************************************)
(* No check, no later run and no end of a script finds the settings of an  *)
(* attack.                                                                 *)
(***************************************************************************)
THEOREM RestoresSettings == Spec => []SettingsRestored
  <1>1. Init => SettingsInv
    BY DEF Init, SettingsInv
  <1>2. SettingsInv => SettingsRestored
    BY DEF SettingsInv, SettingsRestored
  <1> QED
    BY <1>1, <1>2, SettingsStep, PTL DEF Spec
-----------------------------------------------------------------------------
\* The DMA's counter does not wrap while the host waits: the read counts leave room for
\* the reads between a poll and the write that stops the module.
CountsFit == \A o \in Options : o.read_count[2] + 2 * HostGap + 2 < CountMod

Alternate == hits[1] - hits[2] \in {0, 1}

DMAInv ==
  /\ enabled \in BOOLEAN /\ counter \in Nat /\ gap \in 0 .. HostGap
  /\ hits \in [Rows -> Nat] /\ addressed \subseteq Rows
  /\ read_count \in Nat /\ read_count + 2 * HostGap + 2 < CountMod
  /\ host \in {"clear", "address1", "address2", "enable", "finish"} => ~enabled
  /\ host \in {"address1", "address2", "enable"} => counter = 0
  /\ host = "address2" => 1 \in addressed
  /\ host \in {"enable", "poll", "stop"} => addressed = Rows
  /\ host \in {"poll", "stop"} => enabled /\ hits[1] + hits[2] = counter /\ Alternate
  /\ host = "poll" => counter <= read_count + gap
  /\ host = "stop" => read_count <= counter /\ counter <= read_count + HostGap + 1 + gap
  /\ host = "finish" => hits[1] + hits[2] >= read_count /\ Alternate
\* Remainders of a counter.
LEMMA ModRange ==
  ASSUME NEW a \in Nat, NEW b \in Nat, b >= 1
  PROVE  a % b \in Nat
  OBVIOUS

\* A counter below its modulus does not wrap.
LEMMA ModSmall ==
  ASSUME NEW a \in Nat, NEW b \in Nat, a < b
  PROVE  a % b = a
  OBVIOUS

\* The host's calls and accesses, and every cycle between them, keep the reads even.
LEMMA AttackStep ==
  ASSUME DMAInv, NEW rows, NEW n \in Nat, n + 2 * HostGap + 2 < CountMod, Attack(rows, n)
  PROVE  DMAInv'
  BY AttackerAssumption DEF DMAInv, Attack, Rows, Alternate

\* A cycle of the DMA keeps the reads even.
LEMMA CycleStep ==
  ASSUME DMAInv, NEW accept \in BOOLEAN, Cycle(accept)
  PROVE  DMAInv'
  <1> USE AttackerAssumption DEF Rows
  <1>1. counter' \in Nat
    BY ModRange DEF DMAInv, Cycle, Counter
  <1>2. hits' \in [Rows -> Nat]
    <2>1. hits[address] \in Nat /\ address \in Rows
      BY DEF DMAInv, address
    <2>2. (hits[address] + 1) % CountMod \in Nat
      BY <2>1, ModRange
    <2> QED
      BY <2>1, <2>2 DEF DMAInv, Cycle, Hits
  <1>3. ASSUME host \in {"poll", "stop"}
        PROVE  /\ counter' = IF accept THEN counter + 1 ELSE counter
               /\ hits'[1] + hits'[2] = counter'
               /\ Alternate'
    <2>1. enabled /\ counter + 1 < CountMod
      BY <1>3 DEF DMAInv
    <2>2. counter' = IF accept THEN counter + 1 ELSE counter
      BY <1>3, <2>1, ModSmall DEF DMAInv, Cycle, Counter
    <2>3. CASE ~accept
      <3>1. hits' = hits
        BY <1>3, <2>3 DEF Cycle, Hits
      <3> QED
        BY <1>3, <2>2, <2>3, <3>1 DEF DMAInv, Alternate
    <2>4. CASE accept
      <3>1. \A r \in Rows : hits[r] \in Nat /\ hits[r] + 1 < CountMod
        BY <1>3, <2>1 DEF DMAInv
      <3>2. \A r \in Rows : (hits[r] + 1) % CountMod = hits[r] + 1
        BY <3>1, ModSmall
      <3>3. hits' = [hits EXCEPT ![address] = hits[address] + 1]
        BY <2>1, <2>4, <3>2, Zenon DEF Cycle, Hits, address
      <3>4. CASE counter % 2 = 0
        <4>1. hits'[1] = hits[1] + 1 /\ hits'[2] = hits[2]
          BY <3>3, <3>4 DEF DMAInv, address
        <4>2. hits[1] = hits[2]
          BY <1>3, <3>1, <3>4 DEF DMAInv, Alternate
        <4> QED
          BY <1>3, <2>2, <2>4, <3>1, <4>1, <4>2 DEF DMAInv, Alternate
      <3>5. CASE counter % 2 # 0
        <4>1. hits'[1] = hits[1] /\ hits'[2] = hits[2] + 1
          BY <3>3, <3>5 DEF DMAInv, address
        <4>2. hits[1] = hits[2] + 1
          BY <1>3, <3>1, <3>5 DEF DMAInv, Alternate
        <4> QED
          BY <1>3, <2>2, <2>4, <3>1, <4>1, <4>2 DEF DMAInv, Alternate
      <3> QED
        BY <3>4, <3>5
    <2> QED
      BY <2>2, <2>3, <2>4
  <1>4. CASE Idle /\ Counter(accept, FALSE)
    <2>1. host \notin {"poll", "stop"} => (~enabled => counter' = counter) /\ (~enabled => hits' = hits)
      BY <1>4 DEF Idle, Counter, Hits, Cycle
    <2> QED
      BY <1>1, <1>2, <1>3, <1>4, <2>1 DEF DMAInv, Idle, Cycle, Alternate
  <1>5. CASE Access /\ Counter(accept, Reading)
    <2> read_count' = read_count
      BY DEF Cycle
    <2>1. CASE WriteEnabled("disable", FALSE, "clear")
      <3>1. /\ ~enabled' /\ enabled' \in BOOLEAN
            /\ host' = "clear" /\ gap' = 0 /\ addressed' = addressed
        BY <2>1, Zenon DEF WriteEnabled
      <3> QED
        BY <1>1, <1>2, <3>1 DEF DMAInv
    <2>2. CASE ReadToClear
      BY <1>1, <1>2, <1>5, <2>2 DEF DMAInv, ReadToClear, Counter, Reading
    <2>3. CASE WriteAddress("address1", 1, "address2") \/ WriteAddress("address2", 2, "enable")
      <3>1. ~enabled /\ counter = 0 /\ counter' = 0 /\ enabled' = enabled
        BY <1>5, <2>3 DEF DMAInv, WriteAddress, Counter, Reading
      <3>2. CASE WriteAddress("address1", 1, "address2")
        BY <1>1, <1>2, <3>1, <3>2 DEF DMAInv, WriteAddress
      <3>3. CASE WriteAddress("address2", 2, "enable")
        <4>1. 1 \in addressed /\ addressed \subseteq {1, 2} /\ addressed' = addressed \cup {2}
          BY <3>3 DEF DMAInv, WriteAddress
        <4>2. addressed' = {1, 2}
          BY <4>1, Zenon
        <4> QED
          BY <1>1, <1>2, <3>1, <3>3, <4>2 DEF DMAInv, WriteAddress
      <3> QED
        BY <2>3, <3>2, <3>3
    <2>4. CASE WriteEnabled("enable", TRUE, "poll")
      <3>1. /\ enabled' /\ enabled' \in BOOLEAN
            /\ host = "enable" /\ host' = "poll" /\ gap' = 0 /\ addressed' = addressed
        BY <2>4 DEF WriteEnabled
      <3>2. ~enabled /\ counter = 0 /\ addressed = Rows
        BY <3>1 DEF DMAInv
      <3>3. counter' = 0 /\ hits'[1] = 0 /\ hits'[2] = 0
        BY <1>5, <3>1, <3>2 DEF Counter, Reading, Cycle, Hits
      <3> QED
        BY <1>1, <1>2, <3>1, <3>2, <3>3 DEF DMAInv, Alternate
    <2>5. CASE Poll
      BY <1>1, <1>2, <1>3, <2>5 DEF DMAInv, Poll
    <2>6. CASE WriteEnabled("stop", FALSE, "finish")
      <3>1. /\ ~enabled' /\ enabled' \in BOOLEAN
            /\ host = "stop" /\ host' = "finish" /\ gap' = 0 /\ addressed' = addressed
        BY <2>6, Zenon DEF WriteEnabled
      <3>2. hits'[1] + hits'[2] >= read_count /\ Alternate'
        BY <1>3, <3>1 DEF DMAInv
      <3> QED
        BY <1>1, <1>2, <3>1, <3>2 DEF DMAInv
    <2>7. CASE Finish
      BY <1>1, <1>2, <2>7 DEF DMAInv, Finish
    <2> QED
      BY <1>5, <2>1, <2>2, <2>3, <2>4, <2>5, <2>6, <2>7, Zenon DEF Access
  <1> QED
    BY <1>4, <1>5, Zenon DEF Cycle

\* In the end each row has half of the reads.
LEMMA EvenInEveryState ==
  ASSUME DMAInv
  PROVE  HammersEvenly
  BY DEF DMAInv, HammersEvenly, Alternate, Rows
-----------------------------------------------------------------------------
\* The lists that are attacked, and where run() is in them.
Lists == {s \in Seq(Int) : Len(s) > 0}

Attacks == {"run", "verify", "attack", "hammering", "check"}

RowsInv ==
  /\ opt \in Options
  /\ row_pairs \in Seq(Lists)
  /\ count \in Nat /\ call \in Nat /\ pair \in Nat
  /\ opt.mode \in {"const", "hammer_only"} /\ pc \notin {"args", "usage"} => Len(row_pairs) = 1
  /\ pc \in {"dma"} \cup Attacks => count <= opt.read_count[2]
  /\ pc \in Attacks => call \in 1 .. Calls
  /\ pc \in {"run", "verify"} => pair = 0
  /\ pc = "attack" /\ opt.mode # "no_attack" => pair <= Len(Attacked)
  /\ pc = "hammering" => pair < Len(Attacked) /\ opt.mode # "no_attack"

ReadsInv ==
  /\ pc = "hammering" => reads = count
  /\ pc = "attack" /\ pair > 0 /\ opt.mode \notin {"no_attack", "hammer_only"} =>
       reads \in count .. count + Len(Attacked[pair]) - 1

\* A quotient is a natural number, and n rounds it up to fewer than n too many.
LEMMA DivNat ==
  ASSUME NEW a \in Nat, NEW n \in Nat \ {0}
  PROVE  a \div n \in Nat
  OBVIOUS

\* Rounding up to a multiple of n adds less than n.
LEMMA RoundUp ==
  ASSUME NEW a \in Nat, NEW n \in Nat \ {0}
  PROVE  n * ((a + n - 1) \div n) \in a .. a + n - 1
  OBVIOUS

\* Every way to choose the rows gives lists of at least one row.
LEMMA RowPairsTyped ==
  ASSUME opt \in Options, NEW pairs \in RowPairs
  PROVE  /\ pairs \in Seq(Lists)
         /\ opt.mode \in {"const", "hammer_only"} => Len(pairs) = 1
  <1> USE OptionsAssumption
  <1>0. \A a, b \in Int : <<a, b>> \in Lists
    BY DEF Lists
  <1>1. CASE opt.mode \in {"const", "hammer_only"}
    <2>1. pairs = <<opt.rows>>
      BY <1>1 DEF RowPairs
    <2> QED
      BY <2>1 DEF Lists
  <1>2. CASE opt.mode = "all_rows"
    <2> DEFINE firsts == range(opt.start_row, opt.nrows - opt.distance, opt.jump)
               n == IF opt.nrows - opt.distance <= opt.start_row THEN 0
                    ELSE (opt.nrows - opt.distance - opt.start_row + opt.jump - 1) \div opt.jump
    <2>1. pairs = [i \in DOMAIN firsts |-> <<firsts[i], firsts[i] + opt.distance>>]
      BY <1>2, Zenon DEF RowPairs
    <2>2. n \in Nat
      <3>1. CASE opt.nrows - opt.distance <= opt.start_row
        BY <3>1
      <3>2. CASE ~(opt.nrows - opt.distance <= opt.start_row)
        <4>1. opt.nrows - opt.distance - opt.start_row + opt.jump - 1 \in Nat
          BY <3>2
        <4> QED
          BY <3>2, <4>1, DivNat, SMTT(30)
      <3> QED
        BY <3>1, <3>2
    <2>3. DOMAIN firsts = 1 .. n /\ \A i \in 1 .. n : firsts[i] \in Int
      BY <2>2 DEF range
    <2> HIDE DEF firsts, n
    <2>4. \A i \in 1 .. n : <<firsts[i], firsts[i] + opt.distance>> \in Lists
      BY <1>0, <2>3
    <2> QED
      BY <1>2, <2>1, <2>2, <2>3, <2>4
  <1>3. CASE opt.mode = "sequential"
    <2>1. pairs = [i \in 1 .. opt.nrows |-> <<opt.start_row, opt.start_row + i - 1>>]
      BY <1>3, Zenon DEF RowPairs
    <2>2. \A i \in 1 .. opt.nrows : <<opt.start_row, opt.start_row + i - 1>> \in Lists
      BY <1>0
    <2>3. PICK n \in Nat : 1 .. opt.nrows = 1 .. n
      <3>1. CASE opt.nrows \in Nat
        BY <3>1
      <3>2. CASE opt.nrows \notin Nat
        <4>1. 1 .. opt.nrows = 1 .. 0
          BY <3>2
        <4> QED
          BY <4>1
      <3> QED
        BY <3>1, <3>2
    <2> QED
      BY <1>3, <2>1, <2>2, <2>3
  <1>4. CASE opt.mode = "random"
    <2> DEFINE rand_row == opt.start_row .. opt.start_row + opt.nrows
    <2>1. pairs \in [1 .. opt.nrows -> rand_row \X rand_row]
      <3>1. ~(opt.mode \in {"hammer_only", "const"}) /\ opt.mode # "all_rows" /\ opt.mode # "sequential"
        BY <1>4
      <3> QED
        BY <1>4, <3>1, Zenon DEF RowPairs
    <2>2. \A p \in rand_row \X rand_row : p \in Lists
      BY <1>0
    <2>3. PICK n \in Nat : 1 .. opt.nrows = 1 .. n
      <3>1. CASE opt.nrows \in Nat
        BY <3>1
      <3>2. CASE opt.nrows \notin Nat
        <4>1. 1 .. opt.nrows = 1 .. 0
          BY <3>2
        <4> QED
          BY <4>1
      <3> QED
        BY <3>1, <3>2
    <2> QED
      BY <1>4, <2>1, <2>2, <2>3, SMTT(30)
  <1>5. CASE opt.mode \notin {"const", "hammer_only", "all_rows", "sequential", "random"}
    <2>1. pairs = <<>>
      <3>1. /\ ~(opt.mode \in {"hammer_only", "const"}) /\ opt.mode # "all_rows"
            /\ opt.mode # "sequential" /\ opt.mode # "random"
        BY <1>5
      <3>2. RowPairs = {<<>>}
        BY <3>1, Zenon DEF RowPairs
      <3> QED
        BY <3>2
    <2> QED
      BY <1>5, <2>1
  <1> QED
    BY <1>1, <1>2, <1>3, <1>4, <1>5

\* What is attacked changes between runs only.
LEMMA AttackedSame ==
  ASSUME UNCHANGED <<opt, row_pairs, call>>
  PROVE  Attacked' = Attacked /\ Calls' = Calls
  BY DEF Attacked, Calls

\* The lists attacked by a run: each has a row.
LEMMA AttackedTyped ==
  ASSUME RowsInv, pc \in Attacks
  PROVE  Attacked \in Seq(Lists)
  <1>1. CASE opt.mode = "all_rows"
    BY <1>1 DEF RowsInv, Attacked, Calls
  <1>2. CASE opt.mode # "all_rows"
    BY <1>2 DEF RowsInv, Attacked
  <1> QED
    BY <1>1, <1>2

\* Every step keeps the place in the lists.
LEMMA RowsStep ==
  ASSUME RowsInv, [Next]_vars
  PROVE  RowsInv'
  <1> USE DEF RowsInv, Attacks
  <1>1. CASE Arguments
    BY <1>1, RowPairsTyped DEF Arguments
  <1>2. CASE Start
    BY <1>2, OptionsAssumption DEF Start
  <1>3. CASE MainCall
    <2>1. Calls' = Calls /\ Calls \in Nat
      BY <1>3 DEF MainCall, Calls
    <2>2. pair' \in Nat /\ pc' \in {"dma", "attack", "run"} /\ (pc' # "dma" => pair' = 0)
      BY <1>3 DEF MainCall, HammerDMA, HammerOnly, Run
    <2>3. UNCHANGED <<opt, row_pairs, count>> /\ call' = call + 1 /\ call < Calls
      BY <1>3 DEF MainCall
    <2>4. pc' = "attack" => opt.mode = "hammer_only"
      BY <1>3 DEF MainCall, HammerDMA, HammerOnly, Run
    <2>5. pc' = "attack" => Len(Attacked') = 1
      BY <1>3, <2>3, <2>4 DEF MainCall, Attacked
    <2> QED
      BY <1>3, <2>1, <2>2, <2>3, <2>5 DEF MainCall
  <1>4. CASE MainNext
    BY <1>4, OptionsAssumption, SMTT(30) DEF MainNext
  <1>5. ASSUME NEW accept \in BOOLEAN, CycleDMA(accept) PROVE RowsInv'
    BY <1>5, AttackedSame DEF CycleDMA
  <1>6. CASE BaseRun
    BY <1>6, AttackedSame DEF BaseRun
  <1>7. CASE Fill
    BY <1>7, AttackedSame DEF Fill
  <1>8. CASE Verify
    <2>1. Len(Attacked) \in Nat
      BY <1>8, AttackedTyped DEF Verify
    <2>2. /\ pc = "verify" /\ pc' \in {"attack", "main"}
          /\ UNCHANGED <<opt, row_pairs, count, call, pair>>
      BY <1>8, Zenon DEF Verify
    <2> QED
      BY <2>1, <2>2, AttackedSame
  <1>9. CASE AttackBIST
    <2>1. opt.mode = "no_attack" => Len(Attacked) = 0
      BY DEF Attacked
    <2> QED
      BY <1>9, <2>1, AttackedSame DEF AttackBIST, MoreAttacks
  <1>10. CASE AttackEnds
    BY <1>10, AttackedSame, AttackedTyped DEF AttackEnds, AttackDone
  <1>11. CASE AttackPayload
    BY <1>11, AttackedSame, AttackedTyped DEF AttackPayload, MoreAttacks, AttackDone
  <1>12. CASE PayloadTooLarge
    BY <1>12, AttackedSame DEF PayloadTooLarge, MoreAttacks
  <1>13. CASE HammerOnlyEnds
    BY <1>13, AttackedSame DEF HammerOnlyEnds
  <1>14. CASE Sleep
    BY <1>14, AttackedSame, AttackedTyped DEF Sleep, AttackDone
  <1>15. CASE Restore
    BY <1>15, AttackedSame DEF Restore, AttacksOver
  <1>16. CASE Check
    BY <1>16, AttackedSame DEF Check
  <1>17. CASE UNCHANGED vars
    BY <1>17, AttackedSame DEF vars, scriptVars
  <1> QED
    BY <1>1, <1>2, <1>3, <1>4, <1>5, <1>6, <1>7, <1>8, <1>9, <1>10, <1>11, <1>12, <1>13,
       <1>14, <1>15, <1>16, <1>17, Zenon
    DEF Next

\* An attack of run() reads as often as it is asked to.
LEMMA ReadsStep ==
  ASSUME RowsInv, ReadsInv, [Next]_vars
  PROVE  ReadsInv'
  <1> USE DEF ReadsInv
  <1>1. CASE AttackPayload
    <2> DEFINE n == Len(row_tuple)
    <2>1. Attacked \in Seq(Lists) /\ pair \in Nat /\ pair < Len(Attacked) /\ pc = "attack"
      BY <1>1, AttackedTyped DEF AttackPayload, MoreAttacks, RowsInv, Attacks
    <2>2. Attacked[pair + 1] \in Lists
      BY <2>1
    <2>3. n \in Nat \ {0}
      BY <2>2 DEF Lists, row_tuple
    <2>4. Attacked' = Attacked /\ UNCHANGED <<count, opt, pc>> /\ pair' = pair + 1
      BY <1>1, AttackedSame DEF AttackPayload, AttackDone
    <2>5. ASSUME opt.mode # "hammer_only" PROVE reads' = n * ((count + n - 1) \div n)
      BY <1>1, <2>5 DEF AttackPayload, PayloadReads
    <2>6. n * ((count + n - 1) \div n) \in count .. count + n - 1
      BY <2>3, RoundUp, Zenon DEF RowsInv
    <2>7. n = Len(Attacked'[pair'])
      BY <2>4 DEF row_tuple
    <2> HIDE DEF n
    <2> QED
      BY <2>1, <2>4, <2>5, <2>6, <2>7
  <1>2. CASE AttackEnds
    <2>1. Attacked \in Seq(Lists) /\ pair \in Nat /\ pair < Len(Attacked)
      BY <1>2, AttackedTyped DEF AttackEnds, RowsInv, Attacks
    <2>2. Len(Attacked[pair + 1]) \in Nat \ {0}
      <3>1. Attacked[pair + 1] \in Lists
        BY <2>1
      <3> QED
        BY <3>1 DEF Lists
    <2>3. Attacked' = Attacked /\ UNCHANGED <<count, reads>> /\ reads = count /\ pair' = pair + 1
          /\ pc' = "attack"
      BY <1>2, AttackedSame DEF AttackEnds, AttackDone
    <2> QED
      BY <2>2, <2>3 DEF RowsInv
  <1>3. CASE AttackBIST
    BY <1>3 DEF AttackBIST
  <1>4. CASE Verify
    <2>1. pc = "verify" /\ pc' \in {"attack", "main"} /\ pair' = pair
      BY <1>4, Zenon DEF Verify
    <2> QED
      BY <2>1 DEF RowsInv
  <1>5. CASE MainCall
    BY <1>5 DEF MainCall, HammerDMA, HammerOnly, Run
  <1>6. CASE Sleep
    BY <1>6 DEF Sleep
  <1>7. CASE Arguments \/ Start \/ MainNext \/ BaseRun \/ Fill \/ PayloadTooLarge \/ HammerOnlyEnds
             \/ Restore \/ Check \/ \E accept \in BOOLEAN : CycleDMA(accept)
    <2>1. pc' \notin {"attack", "hammering"}
      BY <1>7, Zenon DEF Arguments, Start, MainNext, BaseRun, Fill, PayloadTooLarge, HammerOnlyEnds,
                  Restore, Check, CycleDMA
    <2> QED
      BY <2>1
  <1>8. CASE UNCHANGED vars
    BY <1>8, AttackedSame DEF vars, scriptVars
  <1> QED
    BY <1>1, <1>2, <1>3, <1>4, <1>5, <1>6, <1>7, <1>8 DEF Next

\* The DMA moves in attacks of --hammer-only, whose read count fits its counter.
LEMMA DMAStep ==
  ASSUME CountsFit, RowsInv, DMAInv, [Next]_vars
  PROVE  DMAInv'
  <1>1. CASE MainCall
    <2>1. count \in Nat /\ count + 2 * HostGap + 2 < CountMod
      BY <1>1, OptionsAssumption, AttackerAssumption, SMTT(30) DEF MainCall, RowsInv, CountsFit
    <2>2. CASE Attack(Len(row_pairs[1]), count)
      BY <2>1, <2>2, AttackStep
    <2>3. CASE UNCHANGED dmaVars
      BY <2>3 DEF dmaVars, DMAInv, Alternate
    <2> QED
      BY <1>1, <2>2, <2>3, Zenon DEF MainCall, HammerDMA, HammerOnly, Run
  <1>2. ASSUME NEW accept \in BOOLEAN, CycleDMA(accept) PROVE DMAInv'
    BY <1>2, CycleStep DEF CycleDMA
  <1>3. CASE UNCHANGED dmaVars
    BY <1>3 DEF dmaVars, DMAInv, Alternate
  <1> QED
    BY <1>1, <1>2, <1>3, Zenon DEF Next, vars, Arguments, Start, MainNext, BaseRun, Fill, Verify, AttackBIST,
       AttackEnds, AttackPayload, PayloadTooLarge, HammerOnlyEnds, Sleep, Restore, Check

(***************************************************************************)
(* Whatever the lists, the rows and the read counts are, as long as the    *)
(* counts fit the DMA's counter: the DMA shares its reads evenly between   *)
(* the two rows and counts those of this attack only, and an attack of     *)
(* run() makes read_count reads, up to the last turn of the rows.          *)
(***************************************************************************)
THEOREM AttacksAsAsked ==
  ASSUME CountsFit
  PROVE  Spec => []HammersAsAsked
  <1> DEFINE HammerInv == DMAInv /\ RowsInv /\ ReadsInv
  <1>1. Init => HammerInv
    <2> SUFFICES ASSUME Init PROVE HammerInv
      OBVIOUS
    <2>1. RowsInv
      BY DEF Init, RowsInv, Attacks
    <2>2. DMAInv
      BY OptionsAssumption, AttackerAssumption, SMTT(30) DEF Init, DMAInit, DMAInv, CountsFit, Rows
    <2> QED
      BY <2>1, <2>2 DEF Init, ReadsInv
  <1>2. HammerInv /\ [Next]_vars => HammerInv'
    BY RowsStep, ReadsStep, DMAStep
  <1>3. HammerInv => HammersAsAsked
    BY EvenInEveryState DEF ReadsInv, HammersAsAsked
  <1> QED
    BY <1>1, <1>2, <1>3, PTL DEF Spec
=============================================================================
