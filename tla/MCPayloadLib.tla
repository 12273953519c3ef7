----------------------------- MODULE MCPayloadLib ----------------------------
(***************************************************************************)
(* Instances of the payload generators for TLC.                            *)
(***************************************************************************)
EXTENDS IdlePayload

\* No activation fits the interval, the jump does not fit LOOP, the program does
\* not fit the memory.
MCRejected ==
  {Request(3, <<1>>, TRUE, 2, 1, 5, 3),
   Request(3, <<1, 2, 3, 4, 5, 6>>, TRUE, 2, 1, 18, 3),
   Request(29, <<1, 2, 3, 4, 5>>, TRUE, 2, 1, 16, 3)}

\* tRFC, or tRAS too, beyond the field of a timeslice.
MCCut ==
  {Request(n, <<1, 2>>, refresh, tras, 1, 30, 9) :
     n \in {1, 5, 12}, refresh \in BOOLEAN, tras \in {2, 8}}

\* Read counts around the limit of a LOOP, one to five rows (one list
\* has a row twice), intervals that hold two to five activations.
MCRequests ==
  {Request(n, rows, refresh, 2, 1, trefi, 3) :
     n \in 0 .. 13, rows \in {<<1>>, <<1, 2>>, <<1, 2, 1>>, <<1, 2, 3, 4, 5>>}, refresh \in BOOLEAN,
     trefi \in {10, 12, 14, 18}} \cup MCCut \cup MCRejected

\* From one cycle to several of the longest NOOPs, and more of them than fit the
\* memory.
MCIdleRequests ==
  [idle_clocks : 1 .. 3 * max_noop_time, trefi : {2, 9}, trfc : {1, 3}]
    \cup {[idle_clocks |-> Depth * max_noop_time, trefi |-> 9, trfc |-> 3]}
=============================================================================
