------------------------ MODULE PayloadExecutorProofs ------------------------
(***************************************************************************)
(* Proofs about the payload executor and its bus handover, for payload     *)
(* memories, counters and sets of programs of any size.                    *)
(***************************************************************************)
EXTENDS PayloadExecutor, TLAPS

\* A remainder lies below the modulus.
LEMMA ModRange ==
  ASSUME NEW a \in Int, NEW b \in Nat, b >= 1
  PROVE  a % b \in 0 .. b - 1
  OBVIOUS

\* A number below the modulus is its own remainder.
LEMMA ModSmall ==
  ASSUME NEW b \in Nat, b >= 1, NEW a \in 0 .. b - 1
  PROVE  a % b = a
  OBVIOUS

-----------------------------------------------------------------------------
\* The memory port delivers an instruction.
LEMMA FetchType ==
  ASSUME TypeOK, NEW adr \in Words, Fetch(adr)
  PROVE  instruction' \in Instructions
  BY ProgramsAssumption DEF TypeOK, Fetch

\* The next and the jumped-to program counter are addresses of the payload memory.
LEMMA AddressTypes ==
  ASSUME TypeOK
  PROVE  /\ NextAddress \in Words
         /\ (program_counter - instruction.jump) % Depth \in Words
         /\ 0 \in Words
         /\ (loop_counter + 1) % LoopMod \in 0 .. LoopMod - 1
  <1>1. program_counter + 1 \in Int /\ program_counter - instruction.jump \in Int
    BY DEF TypeOK, Words, Instructions
  <1>2. loop_counter + 1 \in Int
    BY DEF TypeOK
  <1>3. 0 \in Words
    BY DepthAssumption DEF Words
  <1>4. NextAddress \in Words /\ (program_counter - instruction.jump) % Depth \in Words
    <2>1. Depth \in Nat /\ Depth >= 1
      BY DepthAssumption
    <2>2. (program_counter + 1) % Depth \in 0 .. Depth - 1
      BY <1>1, <2>1, ModRange
    <2>3. (program_counter - instruction.jump) % Depth \in 0 .. Depth - 1
      BY <1>1, <2>1, ModRange, Zenon
    <2> QED
      BY <2>2, <2>3 DEF NextAddress, Words
  <1>5. (loop_counter + 1) % LoopMod \in 0 .. LoopMod - 1
    <2>1. LoopMod \in Nat /\ LoopMod >= 1
      BY LoopModAssumption
    <2> QED
      BY <1>2, <2>1, ModRange
  <1> QED
    BY <1>3, <1>4, <1>5

\* One clock edge of the switch keeps its registers in range.
LEMMA SwitchType ==
  ASSUME Switch!SwitchTypeOK, NEW wants \in BOOLEAN, NEW ref \in BOOLEAN,
         NEW update \in BOOLEAN, Switch!SwitchStep(wants, ref, update)
  PROVE  Switch!SwitchTypeOK'
  <1>1. RefMod \in Nat /\ RefMod >= 1 /\ refresh_counter + 1 \in Int
    BY RefModAssumption DEF Switch!SwitchTypeOK
  <1>2. (refresh_counter + 1) % RefMod \in 0 .. RefMod - 1
    BY <1>1, ModRange
  <1>3. refresh_counter' \in 0 .. RefMod - 1
    BY <1>2 DEF Switch!SwitchTypeOK, Switch!SwitchStep, Switch!RefreshCounter
  <1>4. refresh_count' \in 0 .. RefMod - 1
    BY DEF Switch!SwitchTypeOK, Switch!SwitchStep, Switch!LatchRefreshCount
  <1>5. sw_state' \in {"MC", "PE"}
    BY DEF Switch!SwitchTypeOK, Switch!SwitchStep, Switch!SwitchFsm
  <1>6. mc_ongoing_d' \in BOOLEAN
    BY DEF Switch!SwitchStep, Switch!LatchRefreshCount
  <1>7. at_refresh' \in 0 .. RefMod - 1 /\ with_refresh' \in BOOLEAN
    BY DEF Switch!SwitchTypeOK, Switch!SwitchStep
  <1> QED
    BY <1>3, <1>4, <1>5, <1>6, <1>7 DEF Switch!SwitchTypeOK

\* The ranges of the registers of the executor.
ExecTypeOK ==
  /\ state \in {"READY", "WAIT-DFI", "RUN", "IDLE"}
  /\ wants_dfi \in BOOLEAN
  /\ program_counter \in Words
  /\ loop_counter \in 0 .. LoopMod - 1
  /\ idle_counter \in Nat
  /\ instruction \in Instructions
  /\ dfi_cmd \in DfiOps
  /\ rddata_en \in SUBSET {0, RdPhase}

\* One clock edge of the executor keeps its registers in range.
LEMMA ExecutorType ==
  ASSUME TypeOK, NEW start \in BOOLEAN, ExecutorStep(start)
  PROVE  ExecTypeOK'
  <1> USE DEF ExecTypeOK
  <1>0. ExecTypeOK
    BY DEF TypeOK
  <1>a. NoCommand => dfi_cmd' \in DfiOps /\ rddata_en' \in SUBSET {0, RdPhase}
    BY <1>0 DEF NoCommand, DfiOps
  <1>b. SendCommand /\ ~IsLoop(instruction)
          => dfi_cmd' \in DfiOps /\ rddata_en' \in SUBSET {0, RdPhase}
    <2>1. instruction.op \in DfiOps \cup {"LOOP"}
      BY <1>0 DEF Instructions
    <2> QED
      BY <1>0, <2>1, Zenon DEF SendCommand, IsLoop
  <1>c. \A adr \in Words : Fetch(adr) => instruction' \in Instructions
    BY FetchType
  <1>d. \A adr \in Words : ContinueAt(adr)
          => instruction' \in Instructions /\ program_counter' \in Words
    BY <1>c DEF ContinueAt
  <1>1. CASE Ready(start)
    BY <1>0, <1>1, <1>a, <1>c, AddressTypes, Zenon DEF Ready
  <1>2. CASE WaitDfi
    BY <1>0, <1>2, <1>a, <1>c, AddressTypes DEF WaitDfi
  <1>3. CASE Idle
    BY <1>0, <1>3, <1>a, <1>c, <1>d, AddressTypes DEF Idle
  <1>4. CASE RunLoopJump
    BY <1>0, <1>4, <1>a, <1>d, AddressTypes DEF RunLoopJump, ReleaseOr
  <1>5. CASE RunLoopExit
    BY <1>0, <1>5, <1>a, <1>d, AddressTypes, LoopModAssumption DEF RunLoopExit, ReleaseOr
  <1>6. CASE RunShort
    BY <1>0, <1>6, <1>b, <1>d, AddressTypes DEF RunShort, ReleaseOr
  <1>7. CASE RunLong
    <2>1. instruction.timeslice - 2 \in Nat
      BY <1>0, <1>7 DEF RunLong, IsLong, Instructions
    <2>2. ~IsLoop(instruction)
      BY <1>7 DEF RunLong, IsLong
    <2> QED
      BY <1>0, <1>7, <2>1, <2>2, <1>b, <1>c, AddressTypes DEF RunLong
  <1> QED
    BY <1>1, <1>2, <1>3, <1>4, <1>5, <1>6, <1>7 DEF ExecutorStep

\* The registers of the executor and of the switch stay in their ranges.
THEOREM TypeCorrect == Spec => []TypeOK
  <1>1. Init => TypeOK
    <2> SUFFICES ASSUME Init PROVE TypeOK
      OBVIOUS
    <2>1. Switch!SwitchTypeOK
      <3>1. mc_ongoing_d \in BOOLEAN /\ with_refresh \in BOOLEAN
        BY Zenon DEF Init, Switch!SwitchInit
      <3>2. 0 \in 0 .. RefMod - 1
        BY RefModAssumption
      <3> QED
        BY <3>1, <3>2, Zenon DEF Init, Switch!SwitchInit, Switch!SwitchTypeOK
    <2>2. instruction \in Instructions
      BY LoopModAssumption DEF Init, Stop, Dfi, Instructions, DfiOps
    <2> QED
      <3>1. 0 \in Words /\ 0 \in 0 .. LoopMod - 1 /\ 0 \in Nat
        BY DepthAssumption, LoopModAssumption DEF Words
      <3>2. wants_dfi \in BOOLEAN /\ rddata_en \in SUBSET {0, RdPhase}
        BY Zenon DEF Init
      <3>3. dfi_cmd \in DfiOps
        BY DEF Init, DfiOps
      <3> QED
        BY <2>1, <2>2, <3>1, <3>2, <3>3, Zenon DEF Init, TypeOK
  <1>2. TypeOK /\ [Next]_vars => TypeOK'
    <2> SUFFICES ASSUME TypeOK, [Next]_vars PROVE TypeOK'
      OBVIOUS
    <2>1. ASSUME NEW start \in BOOLEAN, NEW update \in BOOLEAN,
                 NEW mc_ref \in {FALSE, with_refresh}, Tick(start, mc_ref, update)
          PROVE  TypeOK'
      <3>1. ExecTypeOK'
        BY <2>1, ExecutorType DEF Tick
      <3>2. wants_dfi \in BOOLEAN /\ Refresh(mc_ref) \in BOOLEAN
        BY Zenon DEF TypeOK, Refresh, Switch!SwitchTypeOK
      <3>3. Switch!SwitchTypeOK'
        BY <2>1, <3>2, SwitchType DEF Tick, TypeOK
      <3> QED
        BY <2>1, <3>1, <3>3 DEF Tick, TypeOK, ExecTypeOK
    <2>2. ASSUME NEW m \in Programs, Load(m) PROVE TypeOK'
      BY <2>2 DEF Load, TypeOK, execVars, switchVars, Switch!SwitchTypeOK
    <2>3. ASSUME NEW n \in 0 .. RefMod - 1, SetAtRefresh(n) PROVE TypeOK'
      BY <2>3 DEF SetAtRefresh, Switch!SetAtRefresh, TypeOK, execVars, Switch!SwitchTypeOK
    <2>4. ASSUME NEW b \in BOOLEAN, SetWithRefresh(b) PROVE TypeOK'
      BY <2>4 DEF SetWithRefresh, Switch!SetWithRefresh, TypeOK, execVars, Switch!SwitchTypeOK
    <2>5. CASE UNCHANGED vars
      BY <2>5 DEF vars, execVars, switchVars, TypeOK, Switch!SwitchTypeOK
    <2> QED
      BY <2>1, <2>2, <2>3, <2>4, <2>5, Zenon DEF Next, Clock, Host
  <1> QED
    BY <1>1, <1>2, PTL DEF Spec
-----------------------------------------------------------------------------
\* Programs whose last word is not a command of several cycles.
LastWordShort == \A m \in Programs : ~IsLong(m[Depth - 1])

(***************************************************************************)
(* The inductive invariant of the handover.  OwnsBus and NoCommandLost     *)
(* hold because the request wants_dfi follows the state of the executor,   *)
(* and because RunLong, the one action that releases the bus and goes on,  *)
(* does not happen in the last word; that is a fact about the memory, so   *)
(* the decoded word has to be tied to it (FetchCoherent).                  *)
(***************************************************************************)
HandoverInv ==
  /\ OwnsBus
  /\ NoCommandLost
  /\ FetchCoherent
  /\ state = "READY" => ~wants_dfi
  /\ state = "WAIT-DFI" => wants_dfi
  /\ state = "IDLE" => IsLong(mem[program_counter])

\* While the executor asks for the bus the switch does not take it away.
LEMMA SwitchKeeps ==
  ASSUME NEW ref, NEW update, sw_state = "PE", wants_dfi,
         Switch!SwitchStep(wants_dfi, ref, update)
  PROVE  sw_state' = "PE"
  BY DEF Switch!SwitchStep, Switch!SwitchFsm

\* A clock edge keeps the bus with the executor while it executes, and ends with it.
LEMMA HandoverTick ==
  ASSUME LastWordShort, TypeOK, HandoverInv,
         NEW start \in BOOLEAN, NEW mc_ref, NEW update, Tick(start, mc_ref, update)
  PROVE  HandoverInv'
  <1> USE DEF HandoverInv, OwnsBus, NoCommandLost, FetchCoherent, Executing
  <1>s. sw_state = "PE" /\ wants_dfi => sw_state' = "PE"
    BY SwitchKeeps, Zenon DEF Tick
  <1>m. mem' = mem
    BY DEF Tick
  <1>1. CASE Ready(start)
    BY <1>1 DEF Ready, NoCommand
  <1>2. CASE WaitDfi
    BY <1>2, <1>s, <1>m DEF WaitDfi, NoCommand, Fetch, Switch!dfi_ready
  <1>3. CASE Idle
    BY <1>3, <1>s, <1>m DEF Idle, NoCommand, ContinueAt, Fetch
  <1>4. CASE RunLoopJump
    BY <1>4, <1>s, <1>m, Zenon DEF RunLoopJump, ReleaseOr, NoCommand, ContinueAt, Fetch
  <1>5. CASE RunLoopExit
    BY <1>5, <1>s, <1>m, Zenon DEF RunLoopExit, ReleaseOr, NoCommand, ContinueAt, Fetch
  <1>6. CASE RunShort
    BY <1>6, <1>s, <1>m, Zenon DEF RunShort, ReleaseOr, ContinueAt, Fetch
  <1>7. CASE RunLong
    <2>1. instruction = mem[program_counter] /\ IsLong(instruction)
      BY <1>7 DEF RunLong
    <2>2. program_counter # Depth - 1
      BY <2>1 DEF LastWordShort, TypeOK
    <2>3. ~IsStop(instruction)
      BY <2>1, <1>7 DEF IsLong, IsStop, TypeOK, Instructions
    <2>4. ~Terminates
      BY <2>2, <2>3 DEF Terminates
    <2> QED
      BY <1>7, <2>1, <2>4, <1>s, <1>m, Zenon DEF RunLong
  <1> QED
    BY <1>1, <1>2, <1>3, <1>4, <1>5, <1>6, <1>7 DEF Tick, ExecutorStep

\* The executor executes only in state PE of the switch, IDLE only on a long word.
LEMMA HandoverInvariant ==
  ASSUME LastWordShort
  PROVE  Spec => []HandoverInv
  <1>1. Init => HandoverInv
    BY DEF Init, HandoverInv, OwnsBus, NoCommandLost, FetchCoherent, Executing
  <1>2. TypeOK /\ HandoverInv /\ [Next]_vars => HandoverInv'
    <2> SUFFICES ASSUME TypeOK, HandoverInv, [Next]_vars PROVE HandoverInv'
      OBVIOUS
    <2> USE DEF HandoverInv, OwnsBus, NoCommandLost, FetchCoherent, Executing
    <2>1. CASE Clock
      BY <2>1, HandoverTick DEF Clock
    <2>2. ASSUME NEW m \in Programs, Load(m) PROVE HandoverInv'
      BY <2>2 DEF Load, execVars, switchVars
    <2>3. ASSUME NEW n, SetAtRefresh(n) PROVE HandoverInv'
      BY <2>3 DEF SetAtRefresh, Switch!SetAtRefresh, execVars
    <2>4. ASSUME NEW b, SetWithRefresh(b) PROVE HandoverInv'
      BY <2>4 DEF SetWithRefresh, Switch!SetWithRefresh, execVars
    <2>5. CASE UNCHANGED vars
      BY <2>5 DEF vars, execVars, switchVars
    <2> QED
      BY <2>1, <2>2, <2>3, <2>4, <2>5 DEF Next, Host
  <1> QED
    BY <1>1, <1>2, TypeCorrect, PTL DEF Spec

\* The executor runs only while it owns the DFI bus.
THEOREM BusOwnership ==
  ASSUME LastWordShort
  PROVE  Spec => []OwnsBus
  <1>1. HandoverInv => OwnsBus
    BY DEF HandoverInv
  <1> QED
    BY <1>1, HandoverInvariant, PTL

\* No command of a payload is on the registers while the bus is disconnected.
THEOREM CommandsDelivered ==
  ASSUME LastWordShort
  PROVE  Spec => []NoCommandLost
  <1>1. HandoverInv => NoCommandLost
    BY DEF HandoverInv
  <1> QED
    BY <1>1, HandoverInvariant, PTL
-----------------------------------------------------------------------------
AllWellFormed == \A m \in Programs : WellFormed(m)

\* A well-formed program ends in a word of one cycle or before it.
LEMMA WellFormedShort == ASSUME AllWellFormed PROVE LastWordShort
  BY DEF AllWellFormed, WellFormed, LastWordShort

(***************************************************************************)
(* The loop counter is shared by all LOOPs of a program.  While it is not  *)
(* 0 the program counter is inside one loop, whose count is not exceeded:  *)
(* this is what keeps it from leaking into another loop or into the next   *)
(* execution, and it needs the bodies to be free of LOOP and STOP.         *)
(***************************************************************************)
Inside(i) ==
  /\ IsLoop(mem[i])
  /\ i - mem[i].jump <= program_counter
  /\ program_counter <= i
  /\ loop_counter <= mem[i].count

LoopInv == loop_counter # 0 => Executing /\ \E i \in Words : Inside(i)

\* Not at its LOOP, a program inside a loop is at an instruction of the body.
LEMMA InsideBody ==
  ASSUME AllWellFormed, TypeOK, NEW i \in Words, Inside(i), program_counter # i
  PROVE  /\ ~IsLoop(mem[program_counter]) /\ ~IsStop(mem[program_counter])
         /\ program_counter + 1 <= i
  <1>1. program_counter \in i - mem[i].jump .. i - 1
    <2>1. mem[i].jump \in Nat
      BY ProgramsAssumption DEF TypeOK, Instructions
    <2> QED
      BY <2>1 DEF TypeOK, Inside, Words
  <1>2. WellFormed(mem)
    BY DEF AllWellFormed, TypeOK
  <1>3. ~IsLoop(mem[program_counter]) /\ ~IsStop(mem[program_counter])
    BY <1>1, <1>2 DEF WellFormed, Inside
  <1> QED
    BY <1>1, <1>3 DEF TypeOK, Words

\* No execution ends inside a loop.
LEMMA NoEndInside ==
  ASSUME AllWellFormed, TypeOK, HandoverInv, state = "RUN",
         NEW i \in Words, Inside(i)
  PROVE  ~Terminates
  <1>1. instruction = mem[program_counter]
    BY DEF HandoverInv, FetchCoherent
  <1>2. WellFormed(mem)
    BY DEF AllWellFormed, TypeOK
  <1>3. i # Depth - 1
    BY <1>2 DEF WellFormed, Inside
  <1>4. program_counter # Depth - 1
    BY <1>3, DepthAssumption DEF Inside, TypeOK, Words
  <1>5. CASE program_counter = i
    BY <1>1, <1>4, <1>5 DEF Terminates, Inside, IsLoop, IsStop
  <1>6. CASE program_counter # i
    BY <1>1, <1>4, <1>6, InsideBody DEF Terminates
  <1> QED
    BY <1>5, <1>6

\* A clock edge keeps a loop counter other than 0 inside the body of its LOOP.
LEMMA LoopTick ==
  ASSUME AllWellFormed, TypeOK, HandoverInv, LoopInv,
         NEW start \in BOOLEAN, ExecutorStep(start), mem' = mem
  PROVE  LoopInv'
  <1> USE DEF Executing
  <1>d. Depth \in Nat /\ Depth >= 1 /\ program_counter \in 0 .. Depth - 1
    BY DepthAssumption DEF TypeOK, Words
  <1>n. ASSUME program_counter + 1 <= Depth - 1 PROVE NextAddress = program_counter + 1
    <2>1. program_counter + 1 \in 0 .. Depth - 1
      BY <1>d, <1>n
    <2> QED
      BY <1>d, <2>1, ModSmall DEF NextAddress
  <1>f. \* an instruction of the body is followed by the next word of the loop
        ASSUME NEW i \in Words, Inside(i), program_counter # i,
               program_counter' = NextAddress, loop_counter' = loop_counter
        PROVE  Inside(i)'
    <2>1. program_counter + 1 <= i
      BY <1>f, InsideBody
    <2>2. program_counter' = program_counter + 1
      BY <1>d, <1>f, <1>n, <2>1 DEF Words
    <2>3. mem[i].jump \in Nat
      BY ProgramsAssumption DEF TypeOK, Instructions
    <2> QED
      BY <1>d, <1>f, <2>1, <2>2, <2>3 DEF Inside, Words
  <1>1. CASE Ready(start)
    BY <1>1 DEF Ready, LoopInv
  <1>2. CASE WaitDfi
    BY <1>2 DEF WaitDfi, LoopInv
  <1>3. CASE Idle
    <2> SUFFICES ASSUME loop_counter' # 0
                 PROVE  Executing' /\ \E i \in Words : Inside(i)'
      BY DEF LoopInv
    <2>1. PICK i \in Words : Inside(i)
      BY <1>3 DEF Idle, LoopInv
    <2>2. CASE idle_counter # 0
      BY <1>3, <2>1, <2>2 DEF Idle, Inside
    <2>3. CASE idle_counter = 0 /\ program_counter # i
      BY <1>3, <2>1, <2>3, <1>f DEF Idle, ContinueAt
    <2>4. program_counter # i
      BY <1>3, <2>1 DEF Idle, HandoverInv, Inside, IsLong
    <2> QED
      BY <2>2, <2>3, <2>4
  <1>4. CASE RunLoopJump
    <2>1. instruction = mem[program_counter] /\ IsLoop(mem[program_counter])
      BY <1>4 DEF RunLoopJump, HandoverInv, FetchCoherent
    <2>2. WellFormed(mem) /\ program_counter \in Words
      BY DEF AllWellFormed, TypeOK
    <2>3. mem[program_counter].jump \in Nat /\ mem[program_counter].count \in 0 .. LoopMod - 1
      BY ProgramsAssumption DEF TypeOK, Instructions
    <2>4. mem[program_counter].jump <= program_counter
      BY <2>1, <2>2 DEF WellFormed
    <2>5. loop_counter < mem[program_counter].count
      <3>1. CASE loop_counter = 0
        BY <1>4, <2>1, <2>3, <3>1 DEF RunLoopJump
      <3>2. CASE loop_counter # 0
        <4>1. PICK i \in Words : Inside(i)
          BY <3>2 DEF LoopInv
        <4>2. program_counter = i
          BY <2>1, <4>1, InsideBody
        <4> QED
          BY <1>4, <2>1, <2>3, <4>1, <4>2 DEF RunLoopJump, Inside, TypeOK
      <3> QED
        BY <3>1, <3>2
    <2>6. loop_counter' = loop_counter + 1
      <3>1. LoopMod \in Nat /\ LoopMod >= 1 /\ loop_counter + 1 \in 0 .. LoopMod - 1
        BY <2>3, <2>5, LoopModAssumption DEF TypeOK
      <3>2. (loop_counter + 1) % LoopMod = loop_counter + 1
        BY <3>1, ModSmall
      <3> QED
        BY <1>4, <3>2 DEF RunLoopJump
    <2>7. program_counter' = program_counter - mem[program_counter].jump
      <3>1. program_counter - mem[program_counter].jump \in 0 .. Depth - 1
        BY <1>d, <2>3, <2>4
      <3>2. (program_counter - mem[program_counter].jump) % Depth
              = program_counter - mem[program_counter].jump
        BY <1>d, <3>1, ModSmall
      <3> QED
        BY <1>4, <2>1, <3>2 DEF RunLoopJump, ContinueAt
    <2>8. ~Terminates
      <3>1. program_counter # Depth - 1
        BY <2>1, <2>2 DEF WellFormed
      <3>2. ~IsStop(instruction)
        BY <2>1 DEF IsLoop, IsStop
      <3> QED
        BY <3>1, <3>2 DEF Terminates
    <2>9. state' = "RUN"
      BY <1>4, <2>8 DEF RunLoopJump, ReleaseOr
    <2>10. \A i \in Words : i = program_counter => Inside(i)'
      BY <1>d, <2>1, <2>3, <2>5, <2>6, <2>7 DEF Inside, TypeOK
    <2> QED
      BY <2>2, <2>9, <2>10 DEF LoopInv
  <1>5. CASE RunLoopExit
    BY <1>5 DEF RunLoopExit, LoopInv
  <1>6. CASE RunShort
    <2> SUFFICES ASSUME loop_counter # 0
                 PROVE  Executing' /\ \E i \in Words : Inside(i)'
      BY <1>6 DEF RunShort, LoopInv
    <2>1. PICK i \in Words : Inside(i)
      BY DEF LoopInv
    <2>2. program_counter # i
      BY <1>6, <2>1 DEF RunShort, Inside, HandoverInv, FetchCoherent
    <2>3. state' = "RUN"
      BY <1>6, <2>1, NoEndInside DEF RunShort, ReleaseOr
    <2>4. Inside(i)'
      BY <1>6, <2>1, <2>2, <1>f DEF RunShort, ContinueAt
    <2> QED
      BY <2>3, <2>4
  <1>7. CASE RunLong
    BY <1>7 DEF RunLong, LoopInv, Inside
  <1> QED
    BY <1>1, <1>2, <1>3, <1>4, <1>5, <1>6, <1>7 DEF ExecutorStep

(***************************************************************************)
(* With well-formed programs every execution starts with a loop counter of *)
(* 0, although nothing resets it on start.                                 *)
(***************************************************************************)
THEOREM CleanStart ==
  ASSUME AllWellFormed
  PROVE  Spec => []StartsClean
  <1>1. Init => LoopInv
    BY DEF Init, LoopInv
  <1>2. TypeOK /\ HandoverInv /\ LoopInv /\ [Next]_vars => LoopInv'
    <2> SUFFICES ASSUME TypeOK, HandoverInv, LoopInv, [Next]_vars PROVE LoopInv'
      OBVIOUS
    <2>1. CASE Clock
      BY <2>1, LoopTick DEF Clock, Tick
    <2>2. ASSUME NEW m \in Programs, Load(m) PROVE LoopInv'
      BY <2>2 DEF Load, execVars, LoopInv, Executing
    <2>3. ASSUME NEW n, SetAtRefresh(n) PROVE LoopInv'
      BY <2>3 DEF SetAtRefresh, execVars, LoopInv, Executing, Inside
    <2>4. ASSUME NEW b, SetWithRefresh(b) PROVE LoopInv'
      BY <2>4 DEF SetWithRefresh, execVars, LoopInv, Executing, Inside
    <2>5. CASE UNCHANGED vars
      BY <2>5 DEF vars, execVars, LoopInv, Executing, Inside
    <2> QED
      BY <2>1, <2>2, <2>3, <2>4, <2>5 DEF Next, Host
  <1>3. LoopInv => StartsClean
    BY DEF LoopInv, StartsClean, Executing
  <1>4. Spec => []HandoverInv
    BY WellFormedShort, HandoverInvariant
  <1> QED
    BY <1>1, <1>2, <1>3, <1>4, TypeCorrect, PTL DEF Spec
-----------------------------------------------------------------------------
(***************************************************************************)
(* The inductive invariant of the switch at a refresh.  The executor       *)
(* leaves WAIT-DFI one cycle after the switch has changed its state: in    *)
(* that cycle the latch of refresh_count sees the edge (mc_ongoing_d), the *)
(* counter has just been advanced to at_refresh, and no REF of a payload   *)
(* is on the bus.  A start that comes while the switch has not returned    *)
(* the bus of the last execution yet finds wants_dfi low.                  *)
(***************************************************************************)
RefreshInv ==
  /\ state = "READY" => ~wants_dfi
  /\ state = "WAIT-DFI" =>
       /\ dfi_cmd = "NOOP"
       /\ sw_state = "PE" =>
            /\ mc_ongoing_d
            /\ with_refresh /\ at_refresh # 0 => refresh_counter = at_refresh

\* A clock edge keeps the switch and its latches in step with WAIT-DFI.
LEMMA RefreshTick ==
  ASSUME TypeOK, RefreshInv, NEW start \in BOOLEAN, NEW mc_ref, NEW update,
         Tick(start, mc_ref, update)
  PROVE  RefreshInv'
  <1> USE DEF RefreshInv
  <1>1. CASE Ready(start)
    BY <1>1 DEF Ready, NoCommand, Tick, Switch!SwitchStep, Switch!SwitchFsm
  <1>2. CASE WaitDfi
    <2>1. state' = "WAIT-DFI" => sw_state = "MC"
      BY <1>2 DEF WaitDfi, Switch!dfi_ready, TypeOK, Switch!SwitchTypeOK
    <2>2. sw_state = "MC" => mc_ongoing_d'
      BY Zenon DEF Tick, Switch!SwitchStep, Switch!LatchRefreshCount
    <2>3. ASSUME sw_state = "MC", sw_state' = "PE", with_refresh, at_refresh # 0
          PROVE  refresh_counter' = at_refresh
      <3>1. mc_ref /\ at_refresh = refresh_counter + 1
        BY <2>3 DEF Tick, Refresh, Switch!dfi_ready, Switch!SwitchStep, Switch!SwitchFsm,
                    Switch!refresh_matches
      <3>2. RefMod \in Nat /\ RefMod >= 1 /\ refresh_counter + 1 \in 0 .. RefMod - 1
        BY <3>1, RefModAssumption DEF TypeOK, Switch!SwitchTypeOK
      <3>3. (refresh_counter + 1) % RefMod = at_refresh
        BY <3>1, <3>2, ModSmall
      <3> QED
        BY <2>3, <3>1, <3>3 DEF Tick, Refresh, Switch!dfi_ready, Switch!SwitchStep,
                                Switch!RefreshCounter
    <2>4. UNCHANGED <<with_refresh, at_refresh>>
      BY DEF Tick, Switch!SwitchStep
    <2> QED
      BY <1>2, <2>1, <2>2, <2>3, <2>4 DEF WaitDfi, NoCommand
  <1>3. CASE Idle
    BY <1>3 DEF Idle
  <1>4. CASE RunLoopJump
    BY <1>4, Zenon DEF RunLoopJump, ReleaseOr
  <1>5. CASE RunLoopExit
    BY <1>5, Zenon DEF RunLoopExit, ReleaseOr
  <1>6. CASE RunShort
    BY <1>6, Zenon DEF RunShort, ReleaseOr
  <1>7. CASE RunLong
    BY <1>7 DEF RunLong
  <1> QED
    BY <1>1, <1>2, <1>3, <1>4, <1>5, <1>6, <1>7 DEF Tick, ExecutorStep

(***************************************************************************)
(* The executor starts running at the refresh the host asked for, and the  *)
(* refresh_count CSR says which one it was.  This needs no condition on    *)
(* the programs.                                                           *)
(***************************************************************************)
THEOREM SwitchAtRefresh == Spec => SwitchedAtRefresh
  <1> DEFINE A == state = "WAIT-DFI" /\ state' = "RUN" =>
                    /\ refresh_count' = refresh_counter'
                    /\ with_refresh /\ at_refresh # 0 => refresh_count' = at_refresh
  <1>1. Init => RefreshInv
    BY DEF Init, RefreshInv
  <1>2. TypeOK /\ RefreshInv /\ [Next]_vars => RefreshInv'
    <2> SUFFICES ASSUME TypeOK, RefreshInv, [Next]_vars PROVE RefreshInv'
      OBVIOUS
    <2>1. CASE Clock
      BY <2>1, RefreshTick DEF Clock
    <2>2. ASSUME NEW m \in Programs, Load(m) PROVE RefreshInv'
      BY <2>2 DEF Load, execVars, switchVars, RefreshInv
    <2>3. ASSUME NEW n, SetAtRefresh(n) PROVE RefreshInv'
      BY <2>3 DEF SetAtRefresh, execVars, RefreshInv
    <2>4. ASSUME NEW b, SetWithRefresh(b) PROVE RefreshInv'
      BY <2>4 DEF SetWithRefresh, execVars, RefreshInv
    <2>5. CASE UNCHANGED vars
      BY <2>5 DEF vars, execVars, switchVars, RefreshInv
    <2> QED
      BY <2>1, <2>2, <2>3, <2>4, <2>5 DEF Next, Host
  <1>3. TypeOK /\ RefreshInv /\ [Next]_vars => [A]_vars
    <2> SUFFICES ASSUME RefreshInv, Next, state = "WAIT-DFI", state' = "RUN"
                 PROVE  /\ refresh_count' = refresh_counter'
                        /\ with_refresh /\ at_refresh # 0 => refresh_count' = at_refresh
      OBVIOUS
    <2>1. PICK start \in BOOLEAN, update \in BOOLEAN, mc_ref \in {FALSE, with_refresh} :
            Tick(start, mc_ref, update)
      BY Zenon DEF Next, Clock, Host, Load, SetAtRefresh, SetWithRefresh, execVars
    <2>2. WaitDfi
      BY <2>1 DEF Tick, ExecutorStep, Ready, Idle, RunLoopJump, RunLoopExit, RunShort, RunLong
    <2>3. sw_state = "PE" /\ mc_ongoing_d /\ dfi_cmd = "NOOP"
      BY <2>2 DEF WaitDfi, Switch!dfi_ready, RefreshInv
    <2>4. refresh_count' = refresh_counter
      BY <2>1, <2>3 DEF Tick, Switch!SwitchStep, Switch!LatchRefreshCount
    <2>5. refresh_counter' = refresh_counter
      BY <2>1, <2>3 DEF Tick, Switch!SwitchStep, Switch!RefreshCounter, Refresh, Switch!dfi_ready
    <2> QED
      BY <2>3, <2>4, <2>5 DEF RefreshInv
  <1> QED
    BY <1>1, <1>2, <1>3, TypeCorrect, PTL DEF Spec, SwitchedAtRefresh
=============================================================================
