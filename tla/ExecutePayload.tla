--------------------------- MODULE ExecutePayload ----------------------------
(***************************************************************************)
(* The scripts that run a payload (execute_payload of scripts/utils.py and *)
(* execute of scripts/execute_payload.py) over the executor and its read   *)
(* path: transfer the program, check that the executor is ready, start it, *)
(* poll until it is ready again, read the scratchpad.  The hardware is     *)
(* clocked on meanwhile: two accesses of the host are at least HostGap     *)
(* cycles apart.  Transfers to and from memories nobody else uses are one  *)
(* step; what the scripts print is left out.                               *)
(***************************************************************************)
EXTENDS PayloadReadPath

CONSTANTS
  HostGap,
  Payloads               \* what the scripts execute: some of Programs

ASSUME ScriptAssumption == HostGap \in Nat /\ Payloads \subseteq Programs

VARIABLES
  e_pc,                  \* next access of the script
  dump,                  \* what it has read of the scratchpad
  gap                    \* cycles since the last access, up to HostGap

scriptVars == <<e_pc, dump, gap>>
executeVars == <<pathVars, scriptVars>>

ExecuteInit ==
  /\ ReadPathInit
  /\ e_pc = "idle" /\ dump = scratch /\ gap = HostGap

\* A clock cycle with the write pulses of the host.
Cycle(start, update, refreshes) ==
  \E mc_ref \in refreshes : Tick(start, mc_ref, update) /\ ReadPathStep

Quiet(refreshes) ==
  /\ e_pc # "other"
  /\ Cycle(FALSE, FALSE, refreshes)
  /\ gap' = IF gap < HostGap THEN gap + 1 ELSE gap
  /\ UNCHANGED <<e_pc, dump>>

\* A memory controller with refresh disabled sends none.
Wait == Quiet({FALSE, with_refresh})

Access(at, to) == e_pc = at /\ gap = HostGap /\ gap' = 0 /\ e_pc' = to

\* Settings left by the caller.
Setting ==
  /\ e_pc = "idle"
  /\ \/ \E n \in 0 .. RefMod - 1 : SetAtRefresh(n)
     \/ \E b \in BOOLEAN : SetWithRefresh(b)
  /\ UNCHANGED <<readVars, scriptVars>>

\* The payload memory is written without asking for the executor's state.
Transfer(m) ==
  /\ Access("idle", "assert")
  /\ mem' = m
  /\ UNCHANGED <<execVars, switchVars, readVars, dump>>

AssertReady ==
  /\ Access("assert", IF state = "READY" THEN "start" ELSE "failed")
  /\ UNCHANGED <<pathVars, dump>>

StartExecutor ==
  /\ Access("start", "poll")
  /\ Cycle(TRUE, FALSE, {FALSE, with_refresh})
  /\ UNCHANGED dump

\* Mutant: the scratchpad is read without waiting for the executor.
MutantDoesNotWait ==
  /\ Access("poll", "read")
  /\ UNCHANGED <<pathVars, dump>>

\* while not ready(): with refreshes and a refresh to wait for, check_refresh_at
Poll ==
  /\ Access("poll", IF state = "READY" THEN "read"
                    ELSE IF with_refresh /\ at_refresh # 0 THEN "update" ELSE "poll")
  /\ UNCHANGED <<pathVars, dump>>

\* check_refresh_at latches the refresh count in order to report it.
CheckRefreshAt ==
  /\ Access("update", "poll")
  /\ Cycle(FALSE, TRUE, {FALSE, with_refresh})
  /\ UNCHANGED dump

ReadScratchpad ==
  /\ Access("read", "returned")
  /\ dump' = scratch
  /\ UNCHANGED pathVars

Return == e_pc = "returned" /\ e_pc' = "idle" /\ UNCHANGED <<pathVars, dump, gap>>

Script ==
  \/ \E m \in Payloads : Transfer(m)
  \/ AssertReady \/ StartExecutor \/ Poll \/ CheckRefreshAt \/ ReadScratchpad \/ Return

ExecuteNext == Wait \/ Setting \/ Script

\* The clock runs, the controller keeps refreshing, the script goes on.
ExecuteFairness == WF_executeVars(Quiet({with_refresh})) /\ WF_executeVars(Script)

ExecuteSpec == ExecuteInit /\ [][ExecuteNext]_executeVars /\ ExecuteFairness
-----------------------------------------------------------------------------
(***************************************************************************)
(* The script finds the data of its own READs in the scratchpad: the last  *)
(* words are the data of the last READs, and read_count and overflow tell  *)
(* how many there were ("Scratchpad memory filled with data from           *)
(* subsequent READ commands", payload_executor.py:207; "Number of data     *)
(* from READ commands that is stored in the scratchpad memory",            *)
(* payload_executor.py:486).                                               *)
(***************************************************************************)
ReadsBack ==
  e_pc = "returned" =>
    /\ counter = reads % ScratchDepth
    /\ overflow = (reads >= ScratchDepth)
    /\ \A k \in 1 .. reads : k > reads - ScratchDepth => dump[(k - 1) % ScratchDepth] = k

\* Each READ takes one cycle, and the NOOP that follows it outlasts the PHY's answer
\* and the write port.
Spaced(m) ==
  \A i \in Words : m[i].op = "READ" =>
    /\ m[i].timeslice <= 1
    /\ i + 1 \in Words /\ m[i + 1].op = "NOOP" /\ m[i + 1].timeslice > ReadLatency

(***************************************************************************)
(* What remains of ReadsBack: it holds where READ is sent on phase 0, the  *)
(* phase of all other commands, whose NOOP then clears rddata_en, and the  *)
(* scripts execute only payloads with the READs apart.  On another rdphase *)
(* nothing ever clears rddata_en, and during a READ of several cycles it   *)
(* stays set: every such cycle counts as data (run ReadPath).  Nothing but *)
(* the time its accesses take keeps the script from reading before the     *)
(* last word has left the write port.                                      *)
(***************************************************************************)
SpacedReadsBack == RdPhase = 0 /\ (\A m \in Payloads : Spaced(m)) => ReadsBack

(***************************************************************************)
(* A script that has transferred a program returns, its assertion holds    *)
(* (utils.py:542, execute_payload.py:79) and the bus is with the memory    *)
(* controller again.  The pulses that latch the refresh count while the    *)
(* switch waits for its refresh do not make it miss it.                    *)
(***************************************************************************)
ScriptReturns == (e_pc = "assert") ~> (e_pc = "returned" /\ sw_state = "MC")
=============================================================================
