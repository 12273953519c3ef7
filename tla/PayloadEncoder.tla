---------------------------- MODULE PayloadEncoder ---------------------------
(***************************************************************************)
(* Programs as the scripts write them: instruction specifications          *)
(* (Encoder.I) and what Encoder and the transfer to the payload memory     *)
(* make of them.  A field only keeps the bits that fit.  The operators at  *)
(* the end observe the commands a program puts on the DRAM bus.            *)
(***************************************************************************)
EXTENDS PayloadISA, SequencesExt

CONSTANTS
  JumpMod,               \* 2^LOOP_JUMP
  SliceMod,              \* 2^TIMESLICE
  NoopMod                \* 2^TIMESLICE_NOOP

ASSUME FieldAssumption == {JumpMod, SliceMod, NoopMod} \subseteq Nat \ {0}

\* Rows are addresses of ACT; 0 for the other instructions.
I(op, ts, row) == Dfi(op, ts) @@ [row |-> row]
ILoop(count, jump) == Loop(count, jump) @@ [row |-> 0]

Encoded(i) ==
  [i EXCEPT !.timeslice = @ % (IF i.op = "NOOP" THEN NoopMod ELSE SliceMod),
            !.count = @ % LoopMod,
            !.jump = @ % JumpMod]

\* The payload memory after the transfer; p ends with STOP.
Image(p) == [i \in Words |-> IF i < Len(p) THEN Encoded(p[i + 1]) ELSE I("NOOP", 0, 0)]

SumSeq(s) == FoldSeq(LAMBDA x, y : x + y, 0, s)

get_expected_execution_cycles(p) ==
  LET Slices(q) == SumSeq([k \in DOMAIN q |-> q[k].timeslice])
      Spent(k) == CASE IsStop(p[k]) -> 1
                    [] IsLoop(p[k]) -> 1 + p[k].count * Slices(SubSeq(p, k - p[k].jump, k - 1))
                    [] OTHER -> p[k].timeslice
      stop == Min({k \in DOMAIN p : IsStop(p[k])})
  IN  SumSeq([k \in 1 .. stop |-> Spent(k)])
-----------------------------------------------------------------------------
M == INSTANCE PayloadMachine
       WITH Programs <- {}, program <- <<>>, phase <- "ready", todo <- <<>>, bus <- "NOOP"

\* Command by command, one for each cycle of the run.
BusTimeline(p) == M!Timeline(Image(p))

\* The program as seen by somebody who only knows the row r.
RowTimeline(p, r) ==
  M!Timeline([i \in Words |-> [Image(p)[i] EXCEPT
                                 !.op = IF @ = "ACT" /\ Image(p)[i].row # r THEN "PRE" ELSE @]])

Occurrences(x, s) == Cardinality({k \in DOMAIN s : s[k] = x})

\* Cycles from a command of `From' to the next command of `To'.
Distances(s, From, To) ==
  {Min({b \in DOMAIN s : b > a /\ s[b] \in To}) - a :
     a \in {k \in DOMAIN s : s[k] \in From /\ \E b \in DOMAIN s : b > k /\ s[b] \in To}}

Commands == DfiOps \ {"NOOP"}
=============================================================================
