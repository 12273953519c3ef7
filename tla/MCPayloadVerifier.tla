-------------------------- MODULE MCPayloadVerifier --------------------------
(***************************************************************************)
(* Instances of the payload verifier for TLC.                              *)
(***************************************************************************)
EXTENDS PayloadVerifier

\* Every timing binds: none follows from the others.  With bank groups the limit
\* ccd_l = 2 * ccd_s, rrd_l = 2 * rrd_s is met.
MCTimings ==
  LET ddr3 == [ras |-> 2, rp |-> 1, rfc |-> 3, rcd |-> 1, ccd_l |-> 2, ccd_s |-> 2, rtp |-> 2,
               rrd_l |-> 1, rrd_s |-> 1, faw |-> 5]
  IN  [d \in BOOLEAN |-> IF d THEN [ddr3 EXCEPT !.ccd_s = 1, !.rrd_l = 2] ELSE ddr3]

\* One bank with all commands, one with some, and more to be activated only, for
\* the window of four ACTs.
Bank0(ops, g) == {Mem(op, ts, g, 0) : op \in ops, ts \in {1, 2}}
Activated(g, banks) == {Mem("ACT", 1, g, b) : b \in banks}

MCStreams ==
  [d \in BOOLEAN |->
     IF d THEN UNION {Bank0({"RD", "ACT", "PRE"}, g) \cup Activated(g, {1}) : g \in Groups}
                 \cup {Mem("REF", 1, 0, 0)}
          ELSE Bank0(Opcodes, 0) \cup {Mem("PRE", 1, 0, 1), Mem("RD", 1, 0, 1)}
                 \cup Activated(0, 1 .. 4)]

\* Words of programs with loops: legal and illegal ones, with fields that fit the
\* words of the executor and fields that do not.
MCWords ==
  {Nop(0), Nop(4), Mem("ACT", 2, 0, 0), Mem("PRE", 1, 0, 0), Mem("RD", 2, 0, 0), Mem("RD", 4, 0, 0)}
    \cup {Jmp(o, c) : o \in 1 .. 3, c \in {0, 2, 3}}

MCPrograms == UNION {[1 .. n -> MCWords] : n \in 1 .. 4}
=============================================================================
