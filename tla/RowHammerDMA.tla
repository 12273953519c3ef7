---------------------------- MODULE RowHammerDMA -----------------------------
(***************************************************************************)
(* The DMA attacker (gateware/rowhammer.py) and RowHammer.attack, the host *)
(* that drives it over the bridge (scripts/rowhammer.py).  A step is a     *)
(* clock cycle: the DMA may accept a read, and the host's next register    *)
(* access may arrive.  A register write shows in the next cycle.  `hits'   *)
(* counts the reads of this attack, as the memory sees them.               *)
(***************************************************************************)
EXTENDS Integers

CONSTANTS
  CountMod,              \* 2^32: the counter wraps
  HostGap                \* cycles the host may leave between two accesses

ASSUME AttackerAssumption ==
  /\ CountMod \in Nat /\ CountMod >= 2 /\ CountMod % 2 = 0
  /\ HostGap \in Nat

VARIABLES
  enabled, counter,
  addressed,             \* the address registers that hold this attack's rows
  host,                  \* the host's next access; "idle" outside of attack
  read_count, tuple,     \* arguments of attack: tuple is the length of row_tuple
  gap, hits

dmaVars == <<enabled, counter, addressed, host, read_count, tuple, gap, hits>>

Rows == {1, 2}

DMAInit ==
  /\ enabled \in BOOLEAN /\ counter \in {0, 1}       \* as an interrupted attack left them
  /\ addressed = {}
  /\ host = "idle"
  /\ read_count = 0 /\ tuple = 2
  /\ gap = 0
  /\ hits = [r \in Rows |-> 0]

\* attack(row_tuple, read_count) is called.
Attack(rows, reads) ==
  /\ host = "idle"
  /\ host' = "disable"
  /\ read_count' = reads /\ tuple' = rows
  /\ addressed' = {}
  /\ gap' = 0
  /\ UNCHANGED <<enabled, counter, hits>>

\* The row the DMA asks for.
address == IF counter % 2 = 0 THEN 1 ELSE 2

\* Mutant: a read of the register always clears it.
MutantClearsOnRead(accept, reading) ==
  counter' = IF reading THEN 0 ELSE IF enabled /\ accept THEN (counter + 1) % CountMod ELSE counter

Counter(accept, reading) ==
  IF enabled
    THEN counter' = IF accept THEN (counter + 1) % CountMod ELSE counter
    ELSE counter' = IF reading THEN 0 ELSE counter      \* clear on read

\* Accesses of the host: which follows, and what it does to the registers.
Idle ==
  /\ gap < HostGap
  /\ gap' = gap + 1
  /\ UNCHANGED <<enabled, addressed, host>>

WriteEnabled(at, value, then) ==
  /\ host = at
  /\ enabled' = value
  /\ host' = then
  /\ gap' = 0
  /\ UNCHANGED addressed

ReadToClear ==
  /\ host = "clear"
  /\ host' = IF tuple = 2 THEN "address1" ELSE "assertion"     \* "hammer ... rows than 2"
  /\ gap' = 0
  /\ UNCHANGED <<enabled, addressed>>

WriteAddress(at, r, then) ==
  /\ host = at
  /\ addressed' = addressed \cup {r}
  /\ host' = then
  /\ gap' = 0
  /\ UNCHANGED enabled

\* Wait for hammering to finish.
Poll ==
  /\ host = "poll"
  /\ host' = IF counter >= read_count THEN "stop" ELSE "poll"
  /\ gap' = 0
  /\ UNCHANGED <<enabled, addressed>>

\* The last read of attack.
Finish ==
  /\ host = "finish"
  /\ host' = "idle"
  /\ gap' = 0
  /\ UNCHANGED <<enabled, addressed>>

Reading == host \in {"clear", "poll", "finish"}

Access ==
  \/ WriteEnabled("disable", FALSE, "clear") \/ ReadToClear
  \/ WriteAddress("address1", 1, "address2") \/ WriteAddress("address2", 2, "enable")
  \/ WriteEnabled("enable", TRUE, "poll")
  \/ Poll
  \/ WriteEnabled("stop", FALSE, "finish") \/ Finish

\* The hits of an attack start with the write that enables the module.
Hits(accept) ==
  hits' = IF enabled /\ accept THEN [hits EXCEPT ![address] = (@ + 1) % CountMod]
          ELSE IF host = "enable" /\ host' # "enable" THEN [r \in Rows |-> 0]
          ELSE hits

Attacking == host \notin {"idle", "assertion"}

Cycle(accept) ==
  /\ Attacking
  /\ \/ Idle /\ Counter(accept, FALSE)
     \/ Access /\ Counter(accept, Reading)
  /\ Hits(accept)
  /\ UNCHANGED <<read_count, tuple>>
-----------------------------------------------------------------------------
(***************************************************************************)
(* The reads alternate: at no time has one row been read more than once    *)
(* more than the other, the counter is the number of reads of this attack, *)
(* whatever an earlier attack left behind, and in the end no row got fewer *)
(* than half of the reads ("each row will be hammered 1e5 times" for       *)
(* read_count = 2e5, rowhammer.py:77).                                     *)
(***************************************************************************)
HammersEvenly ==
  /\ enabled /\ host \in {"poll", "stop"} =>
       /\ hits[1] + hits[2] = counter
       /\ hits[1] - hits[2] \in {0, 1}
       /\ addressed = Rows
  /\ host = "finish" => \A r \in Rows : hits[r] >= read_count \div 2
=============================================================================
