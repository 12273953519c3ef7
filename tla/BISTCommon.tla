----------------------------- MODULE BISTCommon ------------------------------
(***************************************************************************)
(* What Writer and Reader of gateware/bist.py share: the configuration     *)
(* CSRs and the pattern memory of BISTModule, and the RowDataInverter with *)
(* its AddressSelector.                                                    *)
(*                                                                         *)
(* A data word is a bit: inversion is all the circuit does with data.      *)
(* Masks are of the form 2^k - 1, as all scripts set them: ANDing with one *)
(* is taking the remainder modulo 2^k, the number the model keeps.         *)
(***************************************************************************)
EXTENDS Integers, Sequences, FiniteSets

CONSTANTS
  AddrSpace,             \* DRAM addresses are 0 .. AddrSpace - 1
  RowSize,               \* addresses per row: 2^row_shift
  PatternDepth           \* words of the pattern memory

ASSUME BISTAssumption ==
  /\ AddrSpace \in Nat \ {0}
  /\ RowSize \in Nat \ {0}
  /\ PatternDepth \in Nat \ {0}

Addresses == 0 .. AddrSpace - 1
Bit == {0, 1}
PatternWords == 0 .. PatternDepth - 1

\* The CSRs and the pattern memory, written by the host while the module is
\* ready.  `addr' and `data' are the pattern; `selection' the set of row
\* residues modulo `divisor' whose data is inverted.
Configs ==
  [count : Nat, modulo : BOOLEAN, data_div : PatternWords,
   data_mod : 1 .. PatternDepth, mem_mod : Nat \ {0},
   addr : [PatternWords -> Addresses], data : [PatternWords -> Bit],
   divisor : Nat \ {0}, selection : SUBSET Nat]

Invert(b, yes) == IF yes THEN 1 - b ELSE b

Row(a) == a \div RowSize

(***************************************************************************)
(* What transfer number k is meant to be: the pattern word, the address    *)
(* and the data (documentation of BISTModule and RowDataInverter).         *)
(***************************************************************************)
TransferWord(c, k) == IF c.modulo THEN k % (c.data_div + 1) ELSE k % c.data_mod

TransferAddr(c, k) == (c.addr[TransferWord(c, k)] + (k % c.mem_mod)) % AddrSpace

TransferData(c, k) ==
  Invert(c.data[TransferWord(c, k)], Row(TransferAddr(c, k)) % c.divisor \in c.selection)

(***************************************************************************)
(* The registers of the inverter, as functions of the cycle before:        *)
(* decoder input, row selected?, data.                                     *)
(***************************************************************************)
InverterReset == [decoder |-> 0, selected |-> FALSE, out |-> 0]

InverterNext(c, inv, a, word) ==
  [decoder  |-> Row(a) % c.divisor,
   selected |-> inv.decoder \in c.selection,
   out      |-> Invert(word, inv.selected)]

\* The pattern address register after a transfer.
NextWord(c, w) ==
  IF ~c.modulo THEN w ELSE IF w = c.data_div THEN 0 ELSE (w + 1) % PatternDepth
=============================================================================
