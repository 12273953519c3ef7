------------------------------ MODULE MCPayload ------------------------------
(***************************************************************************)
(* The payload executor for TLC: under a host that does as it likes, and   *)
(* with its read path under the scripts that execute payloads.             *)
(***************************************************************************)
EXTENDS PayloadRefinement, ExecutePayload

\* A small repertoire with short and long commands and loops on one and on two
\* instructions, up to the wrap-around of a two-bit loop counter.
MCInstructions == {Stop, Dfi("ACT", 1), Dfi("REF", 3), Loop(1, 1), Loop(3, 2)}

MCPrograms == {m \in [Words -> MCInstructions] : WellFormed(m)}

\* A few programs for which the host does all it can between and during the runs.
P(a, b, c, d) == [i \in Words |-> <<a, b, c, d>>[i + 1]]

MCFewPrograms ==
  {P(Dfi("REF", 2), Stop, Stop, Stop),
   P(Dfi("ACT", 1), Dfi("REF", 1), Loop(2, 2), Stop),
   P(Dfi("NOOP", 3), Dfi("ACT", 2), Loop(1, 1), Dfi("REF", 1))}

\* A timeslice of 0, and loops that jump nowhere and never.
MCOddPrograms ==
  {P(Dfi("READ", 0), Loop(2, 0), Dfi("PRE", 2), Stop), P(Loop(0, 0), Dfi("READ", 0), Loop(0, 1), Dfi("ACT", 0))}

MCAnyPrograms == MCPrograms \cup MCFewPrograms \cup MCOddPrograms

\* Payloads of the scripts with the READs apart: fewer READs than the scratchpad has
\* words, as many, and more.
MCOneRead == P(Dfi("READ", 1), Dfi("NOOP", 3), Stop, Stop)

MCSpacedReads ==
  {MCOneRead}
    \cup {P(Dfi("READ", 1), Dfi("NOOP", 3), Loop(n, 2), Stop) : n \in {1, 2}}

\* READs of several cycles too, as in the payload of execute_payload.py.
MCReads == MCSpacedReads \cup {P(Dfi("READ", 3), Dfi("NOOP", 3), Stop, Stop)}

MCAllPrograms == MCAnyPrograms \cup MCReads
-----------------------------------------------------------------------------
\* A host other than the scripts.  But for a few programs, it runs the same one again
\* and again: loading each after each other one would square the state space.
OtherHost == e_pc = "other" /\ UNCHANGED scriptVars
OtherClock == OtherHost /\ Clock /\ ReadPathStep
OtherRefreshes == OtherHost /\ ControllerRefreshes /\ ReadPathStep
OtherAccess == OtherHost /\ Host /\ {mem, mem'} \subseteq MCFewPrograms /\ UNCHANGED readVars

MCInit ==
  \/ ExecuteInit /\ mem = MCOneRead
  \/ ReadPathInit /\ mem \in MCAnyPrograms /\ e_pc = "other" /\ dump = scratch /\ gap = 0

MCSpec ==
  /\ MCInit /\ [][OtherClock \/ OtherAccess \/ ExecuteNext]_executeVars
  /\ WF_executeVars(OtherClock) /\ WF_executeVars(OtherRefreshes) /\ ExecuteFairness
=============================================================================
