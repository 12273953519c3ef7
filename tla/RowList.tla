------------------------------- MODULE RowList -------------------------------
(***************************************************************************)
(* RowListPayloadGenerator of the playbook with its row generators         *)
(* EvenRowGenerator and RowSequenceGenerator, and the row mappings and     *)
(* memory ranges all generators use.  A range is an offset in the main     *)
(* memory and a size, in bytes.                                            *)
(***************************************************************************)
EXTENDS AddressConverter, Sequences, FiniteSets, FiniteSetsExt

CONSTANTS
  list_rows, max_row,    \* EvenRowGenerator: nr_rows and max_row
  row_seq                \* RowSequenceGenerator

\* What a configuration has to be like.
ListAssumption ==
  /\ {list_rows, max_row} \subseteq Nat \ {0}
  /\ row_seq \in Seq(Nat)

VARIABLES row_mapping, row_list_generator, fill_local, iteration

\* row ^ (bit << n), for a bit of 0 or 1.
XorBit(row, bit, n) == IF bit = 0 THEN row ELSE row + 2^n * (1 - 2 * ((row \div 2^n) % 2))

\* TypeA exchanges rows that differ in bits 1 and 2, where bit 3 is set.
TypeA(row) == LET bit3 == (row \div 8) % 2 IN XorBit(XorBit(row, bit3, 1), bit3, 2)

physical_to_logical(physical) ==
  CASE row_mapping = "Trivial" -> physical
    [] row_mapping = "TypeA" -> TypeA(physical)
    [] row_mapping = "TypeB" -> physical \div 2

logical_to_physical(logical) ==
  CASE row_mapping = "Trivial" -> logical
    [] row_mapping = "TypeA" -> TypeA(logical)
    [] row_mapping = "TypeB" -> logical * 2
-----------------------------------------------------------------------------
main_ram_size == encode_bus(0, 2^rowbits, 0)

WholeMemory == [offset |-> 0, size |-> main_ram_size]

\* Mutant: the last row is left out of the range.
MutantWithoutLast(rows) ==
  LET start == encode_bus(0, Min(rows), 0)
      stop  == IF Max(rows) < 2^rowbits THEN encode_bus(0, Max(rows), 0) ELSE main_ram_size
  IN  [offset |-> start, size |-> stop - start]

\* The span of the rows.
get_range_from_rows(rows) ==
  LET start == encode_bus(0, Min(rows), 0)
      stop  == IF Max(rows) + 1 < 2^rowbits THEN encode_bus(0, Max(rows) + 1, 0) ELSE main_ram_size
  IN  [offset |-> start, size |-> stop - start]

\* The rows a range covers, in all banks.
RowsIn(range) ==
  {r \in 0 .. 2^rowbits - 1 : \A bank \in 0 .. 2^bankbits - 1 :
     /\ range.offset <= encode_bus(bank, r, 0)
     /\ encode_bus(bank, r, 2^colbits - 1) < range.offset + range.size}
-----------------------------------------------------------------------------
\* The rows hammered in an iteration.
generate_rows ==
  CASE row_list_generator = "EvenRow" ->
         [i \in 1 .. list_rows |-> logical_to_physical((iteration + 2 * (i - 1)) % max_row)]
    [] row_list_generator = "RowSequence" ->
         [i \in DOMAIN row_seq |-> logical_to_physical(row_seq[i])]

\* EvenRowGenerator.get_memory_range
get_memory_range == get_range_from_rows({logical_to_physical(row) : row \in 0 .. max_row - 1})

\* get_memset_range and get_memtest_range.
ListRange == IF fill_local THEN get_memory_range ELSE WholeMemory

\* RowListPayloadGenerator.process_errors, for the log as well: the flips are printed.
process_errors == iteration' = iteration + 1

\* The configurations: all rows exist, and RowSequenceGenerator, whose get_memory_range
\* uses a max_row it does not have, fills the whole memory.
ListConfiguration ==
  /\ \A row \in 0 .. max_row - 1 : logical_to_physical(row) \in 0 .. 2^rowbits - 1
  /\ row_list_generator = "RowSequence" =>
       ~fill_local /\ \A i \in DOMAIN row_seq : logical_to_physical(row_seq[i]) \in 0 .. 2^rowbits - 1
=============================================================================
