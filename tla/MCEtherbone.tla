----------------------------- MODULE MCEtherbone -----------------------------
(***************************************************************************)
(* An instance of the Etherbone server for TLC: two scripts with ranges    *)
(* next to each other and two transfers each, the second one shorter.      *)
(***************************************************************************)
EXTENDS Etherbone, TLC

CONSTANTS c1, c2

MCBase == c1 :> 0 @@ c2 :> 12

\* The basic memtest with two words in turn, and a memfill with one word.
MCRefData ==
  c1 :> [i \in 0 .. NumWords - 1 |-> 1 + (i % 2)] @@ c2 :> [i \in 0 .. NumWords - 1 |-> 2]

StrayPacket(m, h, probe, bytes, w) ==
  [src |-> Other, magic |-> m, header |-> h, pf |-> probe, available |-> bytes,
   wcount |-> w, rcount |-> 0, base |-> 0, record |-> <<Old, Old>>]

\* No packet, half a header, a write cut short, one of another version, a probe.
MCStrays ==
  {StrayPacket(FALSE, TRUE, FALSE, 0, 0), StrayPacket(TRUE, TRUE, TRUE, 6, 0),
   StrayPacket(TRUE, TRUE, FALSE, 20, 2), StrayPacket(TRUE, FALSE, FALSE, 24, 2),
   StrayPacket(TRUE, TRUE, TRUE, 8, 0)}
=============================================================================
