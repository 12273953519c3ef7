----------------------------- MODULE MCRowHammer -----------------------------
(***************************************************************************)
(* Command lines of rowhammer.py and hw_rowhammer.py for TLC, and flips.   *)
(***************************************************************************)
EXTENDS RowHammer

Flip(bank, row, col, bit) == [bank |-> bank, row |-> row, col |-> col, bit |-> bit]

\* No flip; one; one word with two; a row with two columns; two banks with the same row
\* and column; more rows than a plot has groups.
MCFlips ==
  {{}, {Flip(0, 1, 0, 0)}, {Flip(0, 1, 0, 2), Flip(0, 1, 2, 1)},
   {Flip(0, 1, 0, 0), Flip(0, 1, 0, 3), Flip(1, 2, 2, 1)},
   {Flip(0, 1, 2, 1), Flip(1, 1, 2, 2), Flip(1, 3, 0, 3)},
   {Flip(1, row, 2, 3) : row \in 2 .. 6}}

\* One flip in each of two words.
MCPadFlips == {{}, {Flip(0, 1, 0, 0)}, {Flip(0, 1, 0, 0), Flip(0, 2, 0, 1)}}

Two == [Option EXCEPT !.read_count = <<3, 4, 1>>]

\* Attacks with the BIST reader, and no attack at all.
MCBist ==
  {[Two EXCEPT !.mode = mode, !.no_refresh = no_refresh, !.exit_on_bit_flip = TRUE] :
     mode \in {"const", "no_attack"}, no_refresh \in BOOLEAN}
  \cup {[Option EXCEPT !.mode = "sequential", !.no_refresh = TRUE, !.bank = bank] : bank \in {0, 1}}
  \cup {[Two EXCEPT !.mode = "all_rows", !.nrows = 4, !.pattern = "01_per_row", !.no_refresh = TRUE],
        [Option EXCEPT !.mode = "random", !.start_row = 7, !.nrows = 1],
        [Option EXCEPT !.mode = "all_rows", !.nrows = 3, !.distance = 0, !.pattern = "01_in_row"]}

\* Attacks with the payload executor.
MCPayloads ==
  {[Option EXCEPT !.mode = mode, !.payload_executor = TRUE, !.no_refresh = no_refresh] :
     mode \in {"const", "sequential"}, no_refresh \in BOOLEAN}

\* The attack alone, with each way to hammer; what the base class cannot do; and usage.
MCOthers ==
  {[Two EXCEPT !.cls = cls, !.mode = "hammer_only", !.rows = rows, !.payload_executor = executor] :
     cls \in {"RowHammer", "HwRowHammer"}, rows \in {<<0, 2>>, <<0, 1, 3>>}, executor \in BOOLEAN}
  \cup {[Option EXCEPT !.cls = "RowHammer"],
        [Option EXCEPT !.cls = "RowHammer", !.mode = "hammer_only", !.read_count = <<0, 0, 1>>],
        [Option EXCEPT !.mode = "none"],
        [Option EXCEPT !.mode = "all_rows", !.distance = -1],
        [Option EXCEPT !.mode = "all_rows", !.nrows = 1],
        [Option EXCEPT !.mode = "random", !.nrows = 0]}

\* The pattern of zeros.
MCZeros == {[Option EXCEPT !.pattern = "all_0"]}

\* Several runs for each read count, ending as soon as flips are found.
MCExits == {[Two EXCEPT !.mode = "all_rows", !.nrows = 4, !.exit_on_bit_flip = TRUE]}

MCOptions == MCBist \cup MCPayloads \cup MCOthers
=============================================================================
