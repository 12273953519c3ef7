--------------------------- MODULE PayloadVerifier ---------------------------
(***************************************************************************)
(* The offline payload verifier (verify_payload.py with ddr3lib.py and     *)
(* ddr4lib.py): it rejects illegal instructions, then walks through the    *)
(* payload and rejects a command that comes before the tick from which the *)
(* rank, the bank group or the bank allows it.  DDR3 has no bank groups:   *)
(* a single one without parameters stands for them.  The counters of       *)
(* executed instructions are only printed and are left out.                *)
(***************************************************************************)
EXTENDS Integers, Sequences, FiniteSets, FiniteSetsExt

CONSTANTS
  Groups, Banks,         \* addresses; a bank is <<group, bank>>
  Timings,               \* payload.timing, of a DDR3 and of a DDR4 payload
  Programs,              \* payload.instr of the payloads looked at
  Streams,               \* memory instructions of loop-free payloads, likewise
  MaxOffset, MaxCount,   \* limits of the fields of JMP
  MaxSlice,              \* limit of a timeslice
  SliceMod, LoopMod,     \* the same fields in the words of the payload executor
  StreamBound,           \* bound on the ticks of a loop-free payload
  TickBound              \* time is not told apart beyond TickBound

Opcodes == {"RD", "ACT", "PRE", "REF"}
Inf == 10 * TickBound

\* The limits of a bank group are overwritten, not raised: a long distance is
\* observed only if it is at most twice the short one.
ASSUME TimingAssumption ==
  /\ Timings \in [BOOLEAN -> [{"ras", "rp", "rfc", "rcd", "ccd_l", "ccd_s", "rtp", "rrd_l",
                               "rrd_s", "faw"} -> 0 .. TickBound]]
  /\ Timings[TRUE].ccd_l <= 2 * Timings[TRUE].ccd_s
  /\ Timings[TRUE].rrd_l <= 2 * Timings[TRUE].rrd_s
  /\ 0 \in Groups /\ \A i \in Streams[FALSE] : i.group = 0

Mem(op, ts, g, b) == [op |-> op, timeslice |-> ts, group |-> g, bank |-> b]
Nop(ts) == [op |-> "NOP", timeslice |-> ts]
Jmp(offset, count) == [op |-> "JMP", offset |-> offset, count |-> count]

VARIABLES
  ddr4,                  \* --dram=ddr4
  program,               \* payload.instr; <<>> for a loop-free payload
  phase,                 \* "verify", "run", or the verdict "OK" or "failed"
  ip, tick, loop,        \* State
  rank,                  \* Rank.next_tick
  prev_acts,             \* Rank.prev_acts
  group,                 \* BankGroup.next_tick
  bank,                  \* Bank.next_tick
  log                    \* history: the commands that were accepted

state == <<ip, tick, loop>>
dram == <<rank, prev_acts, group, bank>>
vars == <<ddr4, program, phase, state, dram, log>>

T == Timings[ddr4]
Commands == Streams[ddr4]

Init ==
  /\ ddr4 \in BOOLEAN
  /\ program \in (IF ddr4 THEN {} ELSE Programs) \cup {<<>>}
  /\ phase = "verify"
  /\ ip = 0 /\ tick = 0 /\ loop = 0
  /\ rank = [o \in Opcodes |-> 0]
  /\ prev_acts = <<>>
  /\ group = [g \in Groups |-> [o \in {"RD", "ACT"} |-> 0]]
  /\ bank = [b \in Groups \X Banks |-> [o \in Opcodes |-> IF o = "RD" THEN Inf ELSE 0]]
  /\ log = {}
-----------------------------------------------------------------------------
\* Parameters: <<command, later command, ticks between them>>.
RankParameters ==
  {<<"ACT", "REF", Inf>>, <<"PRE", "REF", T.rp>>}
    \cup {<<"REF", o, T.rfc>> : o \in {"ACT", "PRE", "REF"}}
    \cup IF ddr4 THEN {} ELSE {<<"RD", "RD", T.ccd_s>>, <<"ACT", "ACT", T.rrd_s>>}

BankParameters ==
  {<<"RD", "PRE", T.rtp>>,
   <<"ACT", "RD", T.rcd>>, <<"ACT", "ACT", Inf>>, <<"ACT", "PRE", T.ras>>,
   <<"PRE", "RD", Inf>>, <<"PRE", "ACT", T.rp>>}

\* [to the same bank group, to another one]
GroupParameters ==
  IF ddr4 THEN {<<"RD", T.ccd_l, T.ccd_s>>, <<"ACT", T.rrd_l, T.rrd_s>>} ELSE {}

Later(p) == IF p = Inf THEN Inf ELSE tick + p

\* The table after the command `op': limits only grow, but for math.inf.
MutantNeverUnlocks(next, parameters, op) ==
  [o \in DOMAIN next |->
     Max({next[o]} \cup {Later(p[3]) : p \in {q \in parameters : q[1] = op /\ q[2] = o}})]

Raised(next, parameters, op) ==
  [o \in DOMAIN next |->
     LET Limits == {Later(p[3]) : p \in {q \in parameters : q[1] = op /\ q[2] = o}}
     IN  Max(Limits \cup (IF Limits # {} /\ next[o] = Inf THEN {} ELSE {next[o]}))]

\* BankGroup.Execute of the addressed group, BankGroup.Update of the others.
GroupsAfter(i) ==
  [g \in Groups |-> [o \in {"RD", "ACT"} |->
     IF o = i.op /\ ddr4
       THEN LET p == CHOOSE q \in GroupParameters : q[1] = o
            IN  tick + (IF g = i.group THEN p[2] ELSE p[3])
       ELSE group[g][o]]]

\* The special case of tFAW: a deque of the last four ACTs.
MutantFawOneShort == Len(prev_acts) = 4 => tick - prev_acts[1] >= T.faw - 1
FawKept == Len(prev_acts) = 4 => tick - prev_acts[1] >= T.faw

Allowed(i) ==
  /\ tick >= rank[i.op]
  /\ i.op = "ACT" => FawKept
  /\ i.op \in {"RD", "ACT"} => tick >= group[i.group][i.op]
  /\ tick >= bank[<<i.group, i.bank>>][i.op]

Elapse(n) == tick' = Min({tick + n, TickBound})

Fail == phase' = "failed" /\ UNCHANGED <<ddr4, program, state, dram, log>>

\* Rank.Execute; a payload with a command that is not allowed is given up.
ExecuteMem(i) ==
  \/ ~Allowed(i) /\ Fail
  \/ /\ Allowed(i)
     /\ rank' = Raised(rank, RankParameters, i.op)
     /\ prev_acts' = IF i.op # "ACT" THEN prev_acts
                     ELSE Append(IF Len(prev_acts) = 4 THEN Tail(prev_acts) ELSE prev_acts, tick)
     /\ group' = GroupsAfter(i)
     /\ bank' = [bank EXCEPT ![<<i.group, i.bank>>] = Raised(@, BankParameters, i.op)]
     /\ log' = log \cup {[tick |-> tick, op |-> i.op, group |-> i.group, bank |-> i.bank]}
     /\ Elapse(i.timeslice)
     /\ ip' = ip + 1
     /\ UNCHANGED <<ddr4, program, phase, loop>>

ExecuteNop(i) ==
  /\ Elapse(i.timeslice)
  /\ ip' = ip + 1
  /\ UNCHANGED <<ddr4, program, phase, loop, dram, log>>

MutantKeepsLoop(i) ==
  /\ Elapse(1)
  /\ IF loop < i.count THEN ip' = ip - i.offset /\ loop' = loop + 1
                       ELSE ip' = ip + 1 /\ loop' = loop
  /\ UNCHANGED <<ddr4, program, phase, dram, log>>

MutantNeverCounts(i) ==
  /\ Elapse(1)
  /\ IF loop < i.count THEN ip' = ip - i.offset /\ loop' = loop
                       ELSE ip' = ip + 1 /\ loop' = 0
  /\ UNCHANGED <<ddr4, program, phase, dram, log>>

ExecuteJmp(i) ==
  /\ Elapse(1)
  /\ IF loop < i.count THEN ip' = ip - i.offset /\ loop' = loop + 1
                       ELSE ip' = ip + 1 /\ loop' = 0
  /\ UNCHANGED <<ddr4, program, phase, dram, log>>
-----------------------------------------------------------------------------
\* Addresses are in range by construction; reads are aligned.
VerifyInstr(k, i) ==
  IF i.op = "JMP" THEN i.offset \in 1 .. MaxOffset /\ k >= i.offset /\ i.count \in 1 .. MaxCount
                  ELSE i.timeslice \in 1 .. MaxSlice

\* The timings are positive and every instruction is legal.
VerifyPayload ==
  /\ phase = "verify"
  /\ IF /\ \A f \in DOMAIN T : T[f] > 0
        /\ \A k \in DOMAIN program : VerifyInstr(k - 1, program[k])
       THEN phase' = "run" /\ UNCHANGED <<ddr4, program, state, dram, log>>
       ELSE Fail

RunInstr ==
  /\ phase = "run"
  /\ ip < Len(program)
  /\ LET i == program[ip + 1]
     IN  CASE i.op = "NOP" -> ExecuteNop(i)
           [] i.op = "JMP" -> ExecuteJmp(i)
           [] OTHER -> ExecuteMem(i)

Accept ==
  /\ phase = "run" /\ program # <<>>
  /\ ip = Len(program)
  /\ phase' = "OK"
  /\ UNCHANGED <<ddr4, program, state, dram, log>>

\* The same walk over every payload without a loop: the next command is picked
\* when it is reached.
StreamCommand ==
  /\ phase = "run" /\ program = <<>>
  /\ tick < StreamBound
  /\ \E i \in Commands : ExecuteMem(i)

Next == VerifyPayload \/ RunInstr \/ Accept \/ StreamCommand

Spec == Init /\ [][Next]_vars
\* The verifier is a sequential program.
FairSpec == Spec /\ WF_vars(Next)
-----------------------------------------------------------------------------
\* The rules of the DRAM, read off the history.
Same(a, b) == a.group = b.group /\ a.bank = b.bank

\* Ticks from a command to a later one.
Distance(a, b) ==
  CASE a.op = "REF" /\ b.op # "RD" -> T.rfc
    [] a.op = "PRE" /\ b.op = "REF" -> T.rp
    [] a.op = "RD" /\ b.op = "RD" -> IF ddr4 /\ a.group = b.group THEN T.ccd_l ELSE T.ccd_s
    [] a.op = "ACT" /\ b.op = "ACT" -> IF ddr4 /\ a.group = b.group THEN T.rrd_l ELSE T.rrd_s
    [] Same(a, b) /\ a.op = "ACT" /\ b.op = "RD" -> T.rcd
    [] Same(a, b) /\ a.op = "ACT" /\ b.op = "PRE" -> T.ras
    [] Same(a, b) /\ a.op = "RD" /\ b.op = "PRE" -> T.rtp
    [] Same(a, b) /\ a.op = "PRE" /\ b.op = "ACT" -> T.rp
    [] OTHER -> 0

\* The last ACT or PRE of b's bank before b is an ACT.
Open(b, g, k) ==
  LET Earlier == {a \in log : a.tick < b.tick /\ a.group = g /\ a.bank = k /\ a.op \in {"ACT", "PRE"}}
  IN  Earlier # {} /\ (CHOOSE a \in Earlier : \A c \in Earlier : c.tick <= a.tick).op = "ACT"

(***************************************************************************)
(* Rank.Execute and Bank.Execute: in an accepted payload any two commands, *)
(* however far apart in the program, are as many ticks apart as the        *)
(* timings ask, no five ACTs fall into tFAW, an ACT finds its bank closed  *)
(* and an RD finds it open (activate_open_bank and read_closed_bank among  *)
(* the payloads are to be rejected).  Of a REF it asks that the last ACT   *)
(* or PRE before it is a PRE, which rejects refresh_open_bank; the limit   *)
(* of the rank stands for all banks, and a REF passes when another bank    *)
(* than the one of that PRE is still open.                                 *)
(***************************************************************************)
AcceptsOnlyLegal ==
  /\ \A a \in log, b \in log : a.tick < b.tick => b.tick - a.tick >= Distance(a, b)
  /\ \A b \in log :
       /\ b.op = "ACT" =>
            /\ Cardinality({a \in log : a.op = "ACT" /\ b.tick - a.tick \in 0 .. T.faw - 1}) <= 4
            /\ ~Open(b, b.group, b.bank)
       /\ b.op = "RD" => Open(b, b.group, b.bank)
       /\ b.op = "REF" => \A a \in log : a.op = "ACT" /\ a.tick < b.tick =>
            \E c \in log : c.op = "PRE" /\ a.tick < c.tick /\ c.tick < b.tick

(***************************************************************************)
(* Rank.Execute rejects nothing else: a command that keeps the timings to  *)
(* all earlier ones, and finds the banks as it needs them, is allowed.     *)
(***************************************************************************)
AllowsLegal ==
  phase = "run" /\ program = <<>> => \A i \in Commands :
    LET b == [tick |-> tick, op |-> i.op, group |-> i.group, bank |-> i.bank]
    IN  (/\ \A a \in log : tick - a.tick >= Distance(a, b)
         /\ i.op = "ACT" => /\ ~Open(b, b.group, b.bank)
                            /\ Cardinality({a \in log : a.op = "ACT" /\ tick - a.tick < T.faw}) < 4
         /\ i.op = "RD" => Open(b, b.group, b.bank)
         /\ i.op = "REF" => \A g \in Groups, k \in Banks : ~Open(b, g, k))
          => Allowed(i)
-----------------------------------------------------------------------------
\* What the payload executor makes of the same program: the Encoder masks each field
\* with the width the Decoder has for it; that of a NOP is as wide.
MaxLen == Max({Len(p) : p \in Programs})

M == INSTANCE PayloadMachine
       WITH Depth <- MaxLen + 1, Programs <- {},
            program <- <<>>, phase <- "ready", todo <- <<>>, bus <- "NOOP"

Executor(i) ==
  CASE i.op = "JMP" -> M!Loop(i.count % LoopMod, i.offset)
    [] i.op = "NOP" -> M!Dfi("NOOP", i.timeslice)
    [] OTHER -> M!Dfi(IF i.op = "RD" THEN "READ" ELSE i.op, i.timeslice % SliceMod)

Image == [k \in 0 .. MaxLen |-> IF k < Len(program) THEN Executor(program[k + 1]) ELSE M!Stop]

Nested(p) ==
  \E n \in DOMAIN p, k \in DOMAIN p :
    p[n].op = "JMP" /\ p[k].op = "JMP" /\ n \in k - p[k].offset .. k - 1

\* Do the fields fit the words of the payload executor?
FieldsFit(p) ==
  \A k \in DOMAIN p : CASE p[k].op = "JMP" -> p[k].count < LoopMod
                        [] p[k].op = "NOP" -> TRUE
                        [] OTHER -> p[k].timeslice < SliceMod

(***************************************************************************)
(* State.tick is "Elapsed cycles": the verifier and the payload executor   *)
(* agree on when a program issues its commands and when it ends, provided  *)
(* the fields fit the words of the executor: the verifier accepts          *)
(* timeslices of 8 or 9 bits and counts of 20, the executor has 5 and 12   *)
(* (payload_executor.py:77).                                               *)
(***************************************************************************)
CyclesAgree ==
  phase = "OK" /\ FieldsFit(program) =>
    LET timeline == M!Timeline(Image)
        Issued == {k \in DOMAIN timeline : timeline[k] # "NOOP"}
    IN  /\ tick = Len(timeline) - 1
        /\ {c.tick + 1 : c \in log} = Issued
        /\ \A c \in log : timeline[c.tick + 1] = IF c.op = "RD" THEN "READ" ELSE c.op

(***************************************************************************)
(* The verifier gives its verdict on every payload without nested loops    *)
(* ("Emulates a do-while loop. Nesting is prohibited.",                    *)
(* payload_ddr3.proto:81).  It does not reject nested loops, and does not  *)
(* end on some of them, for all jumps share one loop counter.              *)
(***************************************************************************)
GivesVerdict == (program # <<>> /\ ~Nested(program)) => <>(phase \in {"OK", "failed"})
=============================================================================
