---------------------------- MODULE ReadLeveling -----------------------------
(***************************************************************************)
(* Read leveling in software (scripts/read_level.py): for every byte       *)
(* module the script scans bitslips and delays with write/read tests,      *)
(* looks for the longest window of error-free delays and leaves the PHY in *)
(* its middle.  The PHY only knows reset and increment of the selected     *)
(* module, so script and PHY must stay in step.  `eye' is the memory's     *)
(* behaviour: the settings at which a module reads without errors.         *)
(***************************************************************************)
EXTENDS Integers, FiniteSets, FiniteSetsExt

CONSTANTS
  nmodules, bitslips, delays,
  Eyes                   \* sets of <<bitslip, delay>> a module may read at

ASSUME LevelingAssumption == {nmodules, bitslips, delays} \subseteq Nat \ {0}

\* There are no settings outside the PHY's counters.
ASSUME EyesAssumption == Eyes \subseteq SUBSET ((0 .. bitslips - 1) \X (0 .. delays - 1))

VARIABLES
  pc,                    \* "module", "bitslip", "scan", "choose", "done"
  module, bs, dly,       \* the loop variables
  selected,              \* dly_sel
  tap,                   \* the PHY's [bitslip, delay] of each module
  scores,                \* {bs: {dly: errors}}: the pairs tested without errors
  failed,                \* modules reported as "Read leveling failed"
  eye

vars == <<pc, module, bs, dly, selected, tap, scores, failed, eye>>

Modules == 0 .. nmodules - 1

Init ==
  /\ pc = "module" /\ module = 0 /\ bs = 0 /\ dly = 0
  /\ selected = 0
  /\ tap \in {[m \in Modules |-> [bitslip |-> b, delay |-> d]] :
                b \in {0, bitslips - 1}, d \in {0, delays - 1}}
  /\ scores = {} /\ failed = {}
  /\ eye \in [Modules -> Eyes]
-----------------------------------------------------------------------------
(* The PHY's registers: both counters wrap.                                *)
bitslip_inc(t) == [t EXCEPT ![selected].bitslip = (@ + 1) % bitslips]
delay_rst(t) == [t EXCEPT ![selected].delay = 0]
delay_inc(t) == [t EXCEPT ![selected].delay = (@ + 1) % delays]

\* The set functions: a reset and `value' increments.
BitslipDelaySet(t, b, d) ==
  [t EXCEPT ![selected] = [bitslip |-> b % bitslips, delay |-> d % delays]]

\* read_level_test: no errors.
TestPasses == <<tap[module].bitslip, tap[module].delay>> \in eye[module]

\* The windows of a bitslip: <<first delay, first delay with errors or last delay>>.
Windows(S, b) ==
  LET Good(d) == <<b, d>> \in S
      Starts == {d \in 0 .. delays - 1 : Good(d) /\ (d = 0 \/ ~Good(d - 1))}
      EndOf(d) == Min({delays - 1} \cup {e \in d .. delays - 1 : ~Good(e)})
  IN  {<<d, EndOf(d)>> : d \in Starts}

Length(w) == w[2] - w[1]

\* The first of the longest windows, and the first of the bitslips with the longest.
BestWindow(W) ==
  CHOOSE w \in W : \A v \in W : Length(v) < Length(w) \/ (Length(v) = Length(w) /\ w[1] <= v[1])

cmp_bs_windows(S, b) == IF Windows(S, b) = {} THEN -1 ELSE Length(BestWindow(Windows(S, b)))

BestBitslip(S) ==
  CHOOSE b \in 0 .. bitslips - 1 : \A c \in 0 .. bitslips - 1 :
    \/ cmp_bs_windows(S, c) < cmp_bs_windows(S, b)
    \/ cmp_bs_windows(S, c) = cmp_bs_windows(S, b) /\ b <= c

\* Mutant: the end of the window instead of its middle.
MutantTakesEnd(S) == BestWindow(Windows(S, BestBitslip(S)))[2]

BestDelay(S) == LET w == BestWindow(Windows(S, BestBitslip(S))) IN (w[1] + w[2]) \div 2
-----------------------------------------------------------------------------
\* delay_select_modules, then read_bitslip_rst.
StartModule ==
  /\ pc = "module"
  /\ IF module = nmodules
       THEN pc' = "done" /\ UNCHANGED <<bs, selected, tap, scores>>
       ELSE /\ selected' = module
            /\ tap' = [tap EXCEPT ![module].bitslip = 0]
            /\ scores' = {}
            /\ bs' = 0
            /\ pc' = "bitslip"
  /\ UNCHANGED <<module, dly, failed, eye>>

StartBitslip ==
  /\ pc = "bitslip"
  /\ IF bs = bitslips
       THEN pc' = "choose" /\ UNCHANGED <<dly, tap>>
       ELSE pc' = "scan" /\ dly' = 0 /\ tap' = delay_rst(tap)
  /\ UNCHANGED <<module, bs, selected, scores, failed, eye>>

ScanDelay ==
  /\ pc = "scan"
  /\ IF dly < delays
       THEN /\ scores' = IF TestPasses THEN scores \cup {<<bs, dly>>} ELSE scores
            /\ tap' = delay_inc(tap)
            /\ dly' = dly + 1
            /\ UNCHANGED <<pc, bs>>
       ELSE /\ tap' = bitslip_inc(tap)
            /\ bs' = bs + 1
            /\ pc' = "bitslip"
            /\ UNCHANGED <<scores, dly>>
  /\ UNCHANGED <<module, selected, failed, eye>>

Choose ==
  /\ pc = "choose"
  /\ IF scores = {}
       THEN failed' = failed \cup {module} /\ UNCHANGED tap
       ELSE /\ tap' = BitslipDelaySet(tap, BestBitslip(scores), BestDelay(scores))
            /\ UNCHANGED failed
  /\ module' = module + 1
  /\ pc' = "module"
  /\ UNCHANGED <<bs, dly, selected, scores, eye>>

Next == StartModule \/ StartBitslip \/ ScanDelay \/ Choose

Spec == Init /\ [][Next]_vars
-----------------------------------------------------------------------------
(***************************************************************************)
(* A module that is leveled reads without errors at its final setting, and *)
(* leveling only fails for a module that reads nowhere.  Whatever setting  *)
(* the PHY had before, the scan stays in step with it over all resets and  *)
(* wraps, and the middle of a window is in the window at the ends too.     *)
(***************************************************************************)
LeveledModulesRead ==
  \A m \in 0 .. module - 1 :
    IF m \in failed THEN eye[m] = {} ELSE <<tap[m].bitslip, tap[m].delay>> \in eye[m]
=============================================================================
