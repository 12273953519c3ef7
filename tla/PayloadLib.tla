------------------------------ MODULE PayloadLib -----------------------------
(***************************************************************************)
(* The payload generator of scripts/playbook/lib: the program that         *)
(* activates a list of rows read_count times, with a refresh (or a NOOP as *)
(* long as one) every tREFI.  generate_payload_from_row_list emits a first *)
(* NOOP, the loops of two calls of encode_long_loop, and the end;          *)
(* encode_one_loop emits one loop, a row at a time.                        *)
(*                                                                         *)
(* `payload' holds instruction specifications; the properties are about    *)
(* the commands its encoding puts on the bus.                              *)
(***************************************************************************)
EXTENDS PayloadEncoder

CONSTANT Requests        \* what is asked for: see Request

VARIABLES
  req,                   \* the arguments of generate_payload_from_row_list
  pc,                    \* "begin", "loop", "unroll", "finish", "done", "failed"
  loops,                 \* calls of encode_one_loop to come: <<unrolled, rolled>>
  payload,
  done_acts,             \* rows emitted of the loop under way
  accum,                 \* cycles since the last refresh of the loop
  local_refreshes, refreshes

vars == <<req, pc, loops, payload, done_acts, accum, local_refreshes, refreshes>>

\* tras, trp, trefi, trfc: DRAM timings in cycles.
Request(n, rows, refresh, tras, trp, trefi, trfc) ==
  [read_count |-> n, rows |-> rows, refresh |-> refresh,
   tras |-> tras, trp |-> trp, trefi |-> trefi, trfc |-> trfc]

refresh_op == IF req.refresh THEN "REF" ELSE "NOOP"
-----------------------------------------------------------------------------
Gcd[x \in Nat, rem \in Nat] == IF rem = 0 THEN x ELSE Gcd[rem, x % rem]

least_common_multiple(x, y) == (x * y) \div Gcd[x, y]

acts_per_interval == (req.trefi - req.trfc) \div (req.trp + req.tras)

max_acts_in_loop == (JumpMod - 1) \div 2

repeatable_unit ==
  LET lcm == least_common_multiple(acts_per_interval, Len(req.rows))
  IN  IF lcm < max_acts_in_loop THEN lcm ELSE max_acts_in_loop

repetitions == repeatable_unit \div Len(req.rows)

CeilDiv(a, b) == (a + b - 1) \div b

\* Mutant: a loop of n rounds jumps n times.
MutantOneRoundMore(unrolled, rolled) ==
  [k \in 1 .. CeilDiv(rolled, LoopMod) |->
     <<unrolled, IF k = 1 /\ rolled % LoopMod # 0 THEN rolled % LoopMod ELSE LoopMod - 1>>]

\* The calls of encode_one_loop that encode_long_loop makes.  LOOP jumps `rolled'
\* times, so the body of the first runs rolled % LoopMod times, of the others
\* LoopMod times.
encode_long_loop(unrolled, rolled) ==
  [k \in 1 .. CeilDiv(rolled, LoopMod) |->
     <<unrolled, IF k = 1 /\ rolled % LoopMod # 0 THEN (rolled % LoopMod) - 1 ELSE LoopMod - 1>>]

Init ==
  /\ req \in Requests
  /\ pc = "begin"
  /\ loops = <<>> /\ payload = <<>>
  /\ done_acts = 0 /\ accum = 0 /\ local_refreshes = 0 /\ refreshes = 0

Begin ==
  /\ pc = "begin"
  /\ IF repeatable_unit < Len(req.rows)
       THEN pc' = "failed" /\ UNCHANGED <<payload, loops>>
       ELSE /\ payload' = <<I("NOOP", Max({1, req.trfc - 2, req.trefi - 2}), 0)>>
            /\ loops' = encode_long_loop(repetitions, req.read_count \div repetitions)
                          \o encode_long_loop(1, req.read_count % repetitions)
            /\ pc' = IF loops' = <<>> THEN "finish" ELSE "loop"
  /\ UNCHANGED <<req, done_acts, accum, local_refreshes, refreshes>>

\* encode_one_loop starts with a refresh; the extra cycle is for the jump.
OpenLoop ==
  /\ pc = "loop"
  /\ payload' = Append(payload, I(refresh_op, req.trfc, 0))
  /\ accum' = req.trfc + 1
  /\ local_refreshes' = 1
  /\ done_acts' = 0
  /\ pc' = "unroll"
  /\ UNCHANGED <<req, loops, refreshes>>

ActsInLoop == Head(loops)[1] * Len(req.rows)

\* Mutant: the times of the two commands are exchanged.
MutantExchangesTimes ==
  <<I("ACT", req.trp, req.rows[(done_acts % Len(req.rows)) + 1]), I("PRE", req.tras, 0)>>

HammerPair ==
  <<I("ACT", req.tras, req.rows[(done_acts % Len(req.rows)) + 1]), I("PRE", req.trp, 0)>>

\* Mutant: asks whether the interval is over, not whether the row fits.
MutantDueWhenOver == accum > req.trefi

\* The next row would not fit the interval any more.
RefreshDue == accum + req.tras + req.trp > req.trefi

HammerRow ==
  /\ pc = "unroll"
  /\ done_acts < ActsInLoop
  /\ payload' = payload \o (IF RefreshDue THEN <<I(refresh_op, req.trfc, 0)>> ELSE <<>>)
                        \o HammerPair
  /\ accum' = (IF RefreshDue THEN req.trfc ELSE accum) + req.tras + req.trp
  /\ local_refreshes' = IF RefreshDue THEN local_refreshes + 1 ELSE local_refreshes
  /\ done_acts' = done_acts + 1
  /\ UNCHANGED <<req, pc, loops, refreshes>>

\* Mutant: counts the LOOP itself.
MutantJumpsOverLoop == 2 * ActsInLoop + local_refreshes + 1

jump_target == 2 * ActsInLoop + local_refreshes

\* Mutant: one round less than the loop runs.
MutantCountsJumps == local_refreshes * Head(loops)[2]

LoopRefreshes == local_refreshes * (Head(loops)[2] + 1)

CloseLoop ==
  /\ pc = "unroll"
  /\ done_acts = ActsInLoop
  /\ IF jump_target < JumpMod
       THEN /\ payload' = Append(payload, ILoop(Head(loops)[2], jump_target))
            /\ refreshes' = refreshes + LoopRefreshes
            /\ loops' = Tail(loops)
            /\ pc' = IF loops' = <<>> THEN "finish" ELSE "loop"
       ELSE pc' = "failed" /\ UNCHANGED <<payload, refreshes, loops>>
  /\ UNCHANGED <<req, done_acts, accum, local_refreshes>>

\* A refresh in step with the controller's timer, STOP, and the size check.
Finish ==
  /\ pc = "finish"
  /\ payload' = payload \o <<I(refresh_op, 1, 0), I("NOOP", 0, 0)>>
  /\ pc' = IF Len(payload') > Depth THEN "failed" ELSE "done"
  /\ UNCHANGED <<req, loops, done_acts, accum, local_refreshes, refreshes>>

Next == Begin \/ OpenLoop \/ HammerRow \/ CloseLoop \/ Finish

Spec == Init /\ [][Next]_vars
-----------------------------------------------------------------------------
(***************************************************************************)
(* The program activates every row read_count times for each time it is in *)
(* the list, over unrolling, the split in loops of at most 2^LOOP_COUNT    *)
(* rounds and the remainder ("fill payload so that we have >= desired      *)
(* read_count", lib/__init__.py:46).                                       *)
(***************************************************************************)
HammersEachRow ==
  pc = "done" => \A r \in Range(req.rows) :
    Occurrences("ACT", RowTimeline(payload, r)) = req.read_count * Occurrences(r, req.rows)

(***************************************************************************)
(* The program is one the executor runs as intended: no LOOP or STOP in a  *)
(* loop body, no jump out of the memory, no LOOP or wait in the last word  *)
(* ("there should be no STOP or LOOP instructions inside loop body",       *)
(* utils.py:508).                                                          *)
(***************************************************************************)
GeneratedWellFormed == pc \in {"done", "idle done"} => WellFormed(Image(payload))

\* Do the timeslices fit their field?  A NOOP has a wider one.
SlicesFit == \A k \in DOMAIN payload : payload[k].op # "NOOP" => payload[k].timeslice < SliceMod

(***************************************************************************)
(* Commands keep the DRAM timings: tRAS from ACT to PRE, tRP from PRE and  *)
(* tRFC from REF to the next command ("TIMESLICE is the number of cycles   *)
(* the instruction will take", payload_executor.py:48), if they fit their  *)
(* fields, which are cut without an error otherwise.                       *)
(***************************************************************************)
KeepsTimings ==
  pc = "done" /\ SlicesFit =>
    LET s == BusTimeline(payload) IN
    /\ \A d \in Distances(s, {"ACT"}, {"PRE"}) : d >= req.tras
    /\ \A d \in Distances(s, {"PRE"}, Commands) : d >= req.trp
    /\ \A d \in Distances(s, {"REF"}, Commands) : d >= req.trfc

(***************************************************************************)
(* No row is hammered past its refresh interval: every ACT, over unrolled  *)
(* and rolled loops and the seams between them, comes so soon after the    *)
(* last REF that tRAS and tRP are over when tREFI is ("if accum + tras +   *)
(* trp > trefi", lib/__init__.py:20).  The next REF may follow a jump      *)
(* later: "time between the beginning of two refreshes is is less than     *)
(* tREFI" (lib/__init__.py:22) is not what the code achieves, for it also  *)
(* allows tREFI itself, and a jump on top of it.                           *)
(***************************************************************************)
HammersWithinInterval ==
  pc = "done" /\ req.refresh =>
    LET s == BusTimeline(payload) IN
    \A k \in DOMAIN s : s[k] = "ACT" =>
      \E u \in 1 .. k - 1 : s[u] = "REF" /\ k + req.tras + req.trp - u <= req.trefi

(***************************************************************************)
(* What is reported of a program is what the executor does: the number of  *)
(* refreshes ("returns the number of refreshes issued", lib/__init__.py:7; *)
(* one more ends the program) and, where no timeslice is cut, the          *)
(* "Expected execution time = {} cycles" (lib/__init__.py:154), which      *)
(* leaves out the cycle of every jump, over unrolled and rolled loops and  *)
(* the remainder.                                                          *)
(***************************************************************************)
ReportsMatch ==
  pc = "done" =>
    /\ req.refresh => Occurrences("REF", BusTimeline(payload)) = refreshes + 1
    /\ SlicesFit =>
         get_expected_execution_cycles(payload) + SumSeq([k \in DOMAIN payload |-> payload[k].count])
           = Len(BusTimeline(payload))
=============================================================================
