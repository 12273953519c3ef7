----------------------------- MODULE IdlePayload -----------------------------
(***************************************************************************)
(* generate_idle_payload of scripts/playbook/lib: refresh the whole memory,*)
(* leave it alone for idle_clocks cycles, refresh it again.                *)
(***************************************************************************)
EXTENDS PayloadLib

CONSTANT IdleRequests    \* [idle_clocks, trefi, trfc : Nat]

VARIABLE noop_actions    \* NOOPs of the greatest length still to be emitted

loopVars == <<loops, done_acts, accum, local_refreshes, refreshes>>

max_noop_time == NoopMod - 1

last_noop_time == req.idle_clocks % max_noop_time

\* 8192 refreshes (LOOP count 8191), twice what LOOP_COUNT's 12 bits allow for.
WholeMemory == 2 * LoopMod

RefreshAll == <<I("REF", req.trfc, 0), ILoop(WholeMemory - 1, 1)>>

IdleInit ==
  /\ req \in IdleRequests
  /\ pc = "idle begin"
  /\ noop_actions = 0
  /\ payload = <<>>
  /\ loops = <<>> /\ done_acts = 0 /\ accum = 0 /\ local_refreshes = 0 /\ refreshes = 0

IdleBegin ==
  /\ pc = "idle begin"
  /\ payload' = <<I("NOOP", Max({1, req.trfc - 2, req.trefi - 2}), 0)>> \o RefreshAll
  /\ noop_actions' = req.idle_clocks \div max_noop_time
  /\ pc' = "idle"
  /\ UNCHANGED <<req, loopVars>>

IdleLong ==
  /\ pc = "idle"
  /\ noop_actions > 0
  /\ payload' = Append(payload, I("NOOP", max_noop_time, 0))
  /\ noop_actions' = noop_actions - 1
  /\ UNCHANGED <<req, pc, loopVars>>

\* Mutant: the rest of the division by the longest NOOP is forgotten.
MutantForgetsRest ==
  /\ pc = "idle"
  /\ noop_actions = 0
  /\ payload' = Append(payload, I("NOOP", 1, 0))
  /\ pc' = "idle finish"
  /\ UNCHANGED <<req, noop_actions, loopVars>>

IdleRest ==
  /\ pc = "idle"
  /\ noop_actions = 0
  /\ payload' = Append(payload, I("NOOP", last_noop_time, 0))
  /\ pc' = "idle finish"
  /\ UNCHANGED <<req, noop_actions, loopVars>>

\* The generator's caller is verbose, and then the size is checked.
IdleFinish ==
  /\ pc = "idle finish"
  /\ payload' = payload \o RefreshAll \o <<I("NOOP", 0, 0)>>
  /\ pc' = IF Len(payload') > Depth THEN "failed" ELSE "idle done"
  /\ UNCHANGED <<req, noop_actions, loopVars>>

IdleNext == IdleBegin \/ IdleLong \/ IdleRest \/ IdleFinish

\* Both generators of the library.
LibSpec ==
  /\ (Init /\ noop_actions = 0) \/ IdleInit
  /\ [][(Next /\ UNCHANGED noop_actions) \/ IdleNext]_<<vars, noop_actions>>
-----------------------------------------------------------------------------
(***************************************************************************)
(* The memory is left alone for exactly the time asked for: between the    *)
(* two blocks of refreshes there are idle_clocks cycles, after the tRFC of *)
(* the last refresh and the cycle that leaves the LOOP, over the split in  *)
(* NOOPs of at most 2^29 - 1 cycles ("Refresh the whole memory again",     *)
(* lib/__init__.py:215).  An idle time without a rest is another matter:   *)
(* its last NOOP has 0 cycles, which is STOP, and no refresh follows.      *)
(***************************************************************************)
IdlesExactly ==
  pc = "idle done" /\ last_noop_time # 0 =>
    Max(Distances(BusTimeline(payload), {"REF"}, {"REF"})) = req.trfc + 1 + req.idle_clocks
=============================================================================
