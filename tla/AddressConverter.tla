--------------------------- MODULE AddressConverter --------------------------
(***************************************************************************)
(* DRAMAddressConverter of scripts/utils.py, for the address mapping       *)
(* ROW_BANK_COL: a DRAM address as seen on the bus, in bytes.  Addresses   *)
(* are relative to the base of the main memory.                            *)
(***************************************************************************)
EXTENDS Integers

CONSTANTS
  colbits, rowbits, bankbits,
  address_align,         \* log2 of the burst length
  bus_shift              \* log2 of the bytes of a column (_get_bus_shift, positive)

\* The widths are numbers, and so are the sizes they stand for.
ASSUME GeometryAssumption ==
  \A bits \in {colbits, rowbits, bankbits, bankbits + colbits, address_align, bus_shift, address_align + bus_shift} :
    bits \in Nat /\ 2^bits \in Nat \ {0}

encode(bank, row, col) == (row * 2^bankbits + bank) * 2^colbits + col

encode_bus(bank, row, col) == encode(bank, row, col) * 2^bus_shift

\* A field of the address; of a negative one too, as in two's complement.
extract(value, width, offset) == (value \div 2^offset) % 2^width

decode_bus(address) ==
  LET a == address \div 2^bus_shift
  IN  [bank |-> extract(a, bankbits, colbits),
       row  |-> extract(a, rowbits, bankbits + colbits),
       col  |-> extract(a, colbits, 0)]

\* Bytes of a transfer of the BIST modules: one burst.
dma_data_bytes == 2^(address_align + bus_shift)
=============================================================================
