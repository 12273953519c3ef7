----------------------------- MODULE MCPlaybook ------------------------------
(***************************************************************************)
(* Configurations of the playbook for TLC.                                 *)
(***************************************************************************)
EXTENDS Playbook

Flip(beat, chip) == [beat |-> beat, chip |-> chip, dq |-> 0]

\* No flips; one; three in two words, two of them on one chip.
MCTestErrors ==
  {{}, {[addr |-> 0, flips |-> {Flip(1, 0)}]},
   {[addr |-> 0, flips |-> {Flip(0, 1), Flip(1, 1)}], [addr |-> 1, flips |-> {Flip(0, 0)}]}}

Config(pgs, mappings, gens, fills, baselines) ==
  [pg : pgs, row_mapping : mappings, row_list_generator : gens, fill_local : fills, baseline : baselines]

\* A field that a generator does not use has one value.
MCConfigurations ==
  Config({"HalfDouble"}, {"Trivial"}, {"EvenRow"}, {FALSE}, {TRUE})
  \cup Config({"HalfDouble"}, {"TypeA"}, {"EvenRow"}, {TRUE}, {TRUE})
  \cup Config({"HammerTolerance"}, {"Trivial"}, {"EvenRow"}, {TRUE}, BOOLEAN)
  \cup Config({"HammerTolerance"}, {"TypeA", "TypeB"}, {"EvenRow"}, BOOLEAN, {FALSE})
  \cup Config({"RowList"}, {"Trivial", "TypeA"}, {"EvenRow"}, BOOLEAN, {TRUE})
  \cup Config({"LoggedRowList"}, {"TypeA"}, {"EvenRow"}, {TRUE}, {TRUE})
  \cup Config({"LoggedRowList"}, {"Trivial"}, {"RowSequence"}, {FALSE}, {TRUE})
  \cup Config({"Idle"}, {"Trivial", "TypeA", "TypeB"}, {"EvenRow"}, {FALSE}, {TRUE})

MCRowSeq == <<3, 5, 3>>
=============================================================================
