-------------------------- MODULE ReadLevelingProofs -------------------------
(***************************************************************************)
(* LeveledModulesRead for any number of modules, bitslips and delays and   *)
(* any eyes.  The inductive invariant says that while a module is scanned  *)
(* the PHY's counters are the loop variables and the scores are the        *)
(* scanned part of the eye; so the choice is made over the whole eye.      *)
(***************************************************************************)
EXTENDS ReadLeveling, WellFoundedInduction, TLAPS

Settings == (0 .. bitslips - 1) \X (0 .. delays - 1)

Types ==
  /\ pc \in {"module", "bitslip", "scan", "choose", "done"}
  /\ module \in 0 .. nmodules
  /\ bs \in 0 .. bitslips
  /\ dly \in 0 .. delays
  /\ selected \in Modules
  /\ tap \in [Modules -> [bitslip : 0 .. bitslips - 1, delay : 0 .. delays - 1]]
  /\ failed \subseteq 0 .. module - 1
  /\ eye \in [Modules -> SUBSET Settings]

\* The settings of the module that the loops have passed.
Scanned(b, d) == {p \in eye[module] : p[1] < b \/ (p[1] = b /\ p[2] < d)}

\* Script and PHY are in step.
InStep ==
  /\ pc \in {"bitslip", "scan", "choose"} => module \in Modules /\ selected = module
  /\ pc \in {"bitslip", "scan"} /\ bs < bitslips => tap[module].bitslip = bs
  /\ pc = "scan" => bs < bitslips
  /\ pc = "scan" /\ dly < delays => tap[module].delay = dly
  /\ pc = "bitslip" => scores = Scanned(bs, 0)
  /\ pc = "scan" => scores = Scanned(bs, dly)
  /\ pc = "choose" => scores = eye[module]

LevelingInv == Types /\ InStep /\ LeveledModulesRead
-----------------------------------------------------------------------------
\* The loops over bitslips and delays are not empty.
LEMMA Bounds == nmodules \in Nat \ {0} /\ bitslips \in Nat \ {0} /\ delays \in Nat \ {0}
BY LevelingAssumption

\* A counter does not wrap before its last value.
LEMMA SmallRemainder == \A n \in Nat \ {0} : \A x \in 0 .. n - 1 : x % n = x
OBVIOUS

\* A counter stays in its range.
LEMMA Remainder == \A n \in Nat \ {0} : \A x \in Nat : x % n \in 0 .. n - 1
OBVIOUS

\* A nonempty set of natural numbers has a least element.
LEMMA LeastNatural ==
  ASSUME NEW T, T \subseteq Nat, T # {}
  PROVE  \E x \in T : \A y \in T : x <= y
<1> DEFINE R == {ss \in Nat \X Nat : ss[1] < ss[2]}
<1>1. IsWellFoundedOn(R, Nat)
  BY NatLessThanWellFounded DEF OpToRel
<1>2. \A x, y \in Nat : <<y, x>> \in R <=> y < x
  OBVIOUS
<1> HIDE DEF R
<1>3. PICK x \in T : \A y \in T : ~ (<<y, x>> \in R)
  BY <1>1, WFMin, Zenon
<1>4. x \in Nat /\ \A y \in T : y \in Nat /\ ~ (y < x)
  BY <1>2, <1>3, Zenon
<1>5. \A y \in T : x <= y
  BY <1>4
<1> QED
  BY <1>5

\* The least element is the one that Min takes.
LEMMA MinIsLeast ==
  ASSUME NEW T, T \subseteq Nat, T # {}
  PROVE  Min(T) \in T /\ \A y \in T : Min(T) <= y
<1>1. \E x \in T : \A y \in T : x <= y
  BY LeastNatural, Zenon
<1> QED
  BY <1>1, Zenon DEF Min
-----------------------------------------------------------------------------
\* A window starts and ends in the range, and its middle is one of its good delays.
LEMMA WindowFacts ==
  ASSUME NEW S \in SUBSET Settings, NEW b \in 0 .. bitslips - 1, NEW w \in Windows(S, b)
  PROVE  /\ w[1] \in 0 .. delays - 1
         /\ w[2] \in w[1] .. delays - 1
         /\ (w[1] + w[2]) \div 2 \in 0 .. delays - 1
         /\ <<b, (w[1] + w[2]) \div 2>> \in S
<1> DEFINE Ends(d) == {delays - 1} \cup {e \in d .. delays - 1 : <<b, e>> \notin S}
<1>1. PICK d \in 0 .. delays - 1 : <<b, d>> \in S /\ w = <<d, Min(Ends(d))>>
  BY Zenon DEF Windows
<1> DEFINE e == Min(Ends(d))
<1>2. w[1] = d /\ w[2] = e
  BY <1>1
<1>3. Ends(d) \subseteq Nat /\ Ends(d) # {}
  BY Bounds
<1>4. e \in Ends(d) /\ \A y \in Ends(d) : e <= y
  <2> HIDE DEF Ends
  <2> QED
    BY <1>3, MinIsLeast
<1> HIDE DEF e
<1>5. e \in d .. delays - 1
  BY <1>4, Bounds
<1>6. \A x \in d .. e - 1 : <<b, x>> \in S
  BY <1>4, <1>5, Bounds
<1>7. (d + e) \div 2 \in d .. e /\ (d < e => (d + e) \div 2 < e)
  BY <1>5, Bounds
<1>8. <<b, (d + e) \div 2>> \in S
  <2> DEFINE mid == (d + e) \div 2
  <2>1. mid \in d .. e /\ (d < e => mid < e)
    BY <1>7
  <2> HIDE DEF mid
  <2>2. CASE d < e
    <3>1. mid \in d .. e - 1
      BY <2>1, <2>2, <1>5, Bounds
    <3> QED
      BY <3>1, <1>6 DEF mid
  <2>3. CASE ~ d < e
    <3>1. mid = d
      BY <2>1, <2>3, <1>5, Bounds
    <3> QED
      BY <3>1, <1>1 DEF mid
  <2> QED
    BY <2>2, <2>3
<1>9. (d + e) \div 2 \in 0 .. delays - 1
  BY <1>7, <1>5, Bounds
<1> QED
  BY <1>2, <1>5, <1>8, <1>9

\* The length of a window is a natural number below the number of delays.
LEMMA WindowLength ==
  ASSUME NEW S \in SUBSET Settings, NEW b \in 0 .. bitslips - 1, NEW w \in Windows(S, b)
  PROVE  Length(w) \in 0 .. delays - 1
<1>1. w[1] \in 0 .. delays - 1 /\ w[2] \in w[1] .. delays - 1
  BY WindowFacts, Zenon
<1> QED
  BY <1>1, Bounds DEF Length

\* A bitslip with a window has a first longest one.
LEMMA BestWindowExists ==
  ASSUME NEW S \in SUBSET Settings, NEW b \in 0 .. bitslips - 1, Windows(S, b) # {}
  PROVE  BestWindow(Windows(S, b)) \in Windows(S, b)
<1> DEFINE W == Windows(S, b)
<1>1. \A w \in W : Length(w) \in 0 .. delays - 1 /\ w[1] \in 0 .. delays - 1
  BY WindowFacts, WindowLength, Zenon
<1>2. W # {}
  OBVIOUS
<1> HIDE DEF W
<1> DEFINE Shortfalls == {delays - Length(w) : w \in W}
<1>3. Shortfalls \subseteq Nat /\ Shortfalls # {}
  BY <1>1, <1>2, Bounds
<1>4. PICK s \in Shortfalls : \A t \in Shortfalls : s <= t
  <2> HIDE DEF Shortfalls
  <2> QED
    BY <1>3, LeastNatural, Zenon
<1> DEFINE Longest == {w \in W : delays - Length(w) = s}
           Firsts == {w[1] : w \in Longest}
<1>5. Firsts \subseteq Nat /\ Firsts # {}
  BY <1>1, Bounds
<1>6. PICK f \in Firsts : \A t \in Firsts : f <= t
  <2> HIDE DEF Firsts
  <2> QED
    BY <1>5, LeastNatural, Zenon
<1>7. PICK w \in Longest : w[1] = f
  OBVIOUS
<1>8. \A v \in W : Length(v) < Length(w) \/ (Length(v) = Length(w) /\ w[1] <= v[1])
  <2> TAKE v \in W
  <2>1. s <= delays - Length(v) /\ s = delays - Length(w)
    BY <1>4, <1>7
  <2>2. Length(v) = Length(w) => w[1] <= v[1]
    BY <1>6, <1>7
  <2>3. Length(v) \in Int /\ Length(w) \in Int
    BY <1>1, <1>7
  <2> HIDE DEF Shortfalls, Longest, Firsts
  <2> QED
    BY <2>1, <2>2, <2>3, Bounds
<1>9. BestWindow(W) \in W
  BY <1>7, <1>8 DEF BestWindow
<1> QED
  BY <1>9 DEF W
-----------------------------------------------------------------------------
\* cmp_bs_windows compares integers.
LEMMA ComparedLength ==
  ASSUME NEW S \in SUBSET Settings, NEW b \in 0 .. bitslips - 1
  PROVE  /\ cmp_bs_windows(S, b) \in -1 .. delays - 1
         /\ cmp_bs_windows(S, b) >= 0 <=> Windows(S, b) # {}
<1>1. CASE Windows(S, b) = {}
  BY <1>1, Bounds DEF cmp_bs_windows
<1>2. CASE Windows(S, b) # {}
  <2>1. BestWindow(Windows(S, b)) \in Windows(S, b)
    BY <1>2, BestWindowExists
  <2>2. Length(BestWindow(Windows(S, b))) \in 0 .. delays - 1
    BY <2>1, WindowLength
  <2>3. cmp_bs_windows(S, b) = Length(BestWindow(Windows(S, b)))
    BY <1>2 DEF cmp_bs_windows
  <2> QED
    BY <1>2, <2>2, <2>3, Bounds
<1> QED
  BY <1>1, <1>2

\* A bitslip with a good delay has a window: one starts at its first good delay.
LEMMA GoodDelayHasWindow ==
  ASSUME NEW S \in SUBSET Settings, NEW b \in 0 .. bitslips - 1,
         NEW d \in 0 .. delays - 1, <<b, d>> \in S
  PROVE  Windows(S, b) # {}
<1> DEFINE Good == {x \in 0 .. delays - 1 : <<b, x>> \in S}
<1>1. Good \subseteq Nat /\ Good # {}
  BY Bounds
<1>2. PICK f \in Good : \A y \in Good : f <= y
  <2> HIDE DEF Good
  <2> QED
    BY <1>1, LeastNatural, Zenon
<1>3. f = 0 \/ <<b, f - 1>> \notin S
  <2> SUFFICES ASSUME f # 0, <<b, f - 1>> \in S
               PROVE  FALSE
    OBVIOUS
  <2>1. f - 1 \in 0 .. delays - 1
    BY Bounds
  <2> QED
    BY <2>1, <1>2, Bounds
<1> QED
  BY <1>3, Zenon DEF Windows

\* The chosen bitslip has a window when some setting is good.
LEMMA BestBitslipExists ==
  ASSUME NEW S \in SUBSET Settings, S # {}
  PROVE  BestBitslip(S) \in 0 .. bitslips - 1 /\ Windows(S, BestBitslip(S)) # {}
<1> DEFINE B == 0 .. bitslips - 1
           C(b) == cmp_bs_windows(S, b)
<1>1. \A b \in B : C(b) \in -1 .. delays - 1
  BY ComparedLength
<1>2. B # {} /\ B \subseteq Nat
  BY Bounds
<1>3. PICK g \in B : C(g) >= 0
  <2>1. PICK b \in 0 .. bitslips - 1, d \in 0 .. delays - 1 : <<b, d>> \in S
    BY DEF Settings
  <2>2. Windows(S, b) # {}
    BY <2>1, GoodDelayHasWindow
  <2> QED
    BY <2>2, ComparedLength
<1> HIDE DEF B, C
<1> DEFINE Shortfalls == {delays - C(b) : b \in B}
<1>4. Shortfalls \subseteq Nat /\ Shortfalls # {}
  BY <1>1, <1>2, Bounds
<1>5. PICK s \in Shortfalls : \A t \in Shortfalls : s <= t
  <2> HIDE DEF Shortfalls
  <2> QED
    BY <1>4, LeastNatural, Zenon
<1> DEFINE Longest == {b \in B : delays - C(b) = s}
<1>6. Longest \subseteq Nat /\ Longest # {}
  BY <1>2, Zenon
<1>7. PICK b \in Longest : \A c \in Longest : b <= c
  <2> HIDE DEF Longest
  <2> QED
    BY <1>6, LeastNatural, Zenon
<1>8. \A c \in B : C(c) < C(b) \/ (C(c) = C(b) /\ b <= c)
  <2> TAKE c \in B
  <2>1. s <= delays - C(c) /\ s = delays - C(b)
    BY <1>5, <1>7
  <2>2. C(c) = C(b) => b <= c
    BY <1>7
  <2>3. C(c) \in Int /\ C(b) \in Int
    BY <1>1, <1>7
  <2> HIDE DEF Shortfalls, Longest
  <2> QED
    BY <2>1, <2>2, <2>3, Bounds
<1>9. /\ BestBitslip(S) \in B
      /\ \A c \in B : C(c) < C(BestBitslip(S)) \/ (C(c) = C(BestBitslip(S)) /\ BestBitslip(S) <= c)
  BY <1>7, <1>8 DEF BestBitslip, B, C
<1>10. C(BestBitslip(S)) >= 0
  <2>1. C(g) < C(BestBitslip(S)) \/ C(g) = C(BestBitslip(S))
    BY <1>9
  <2>2. C(g) \in Int /\ C(BestBitslip(S)) \in Int
    BY <1>1, <1>9
  <2> QED
    BY <2>1, <2>2, <1>3
<1> QED
  BY <1>9, <1>10, ComparedLength DEF B, C

\* The chosen setting is one of the eye's.
LEMMA ChoiceIsGood ==
  ASSUME NEW S \in SUBSET Settings, S # {}
  PROVE  /\ BestBitslip(S) \in 0 .. bitslips - 1
         /\ BestDelay(S) \in 0 .. delays - 1
         /\ <<BestBitslip(S), BestDelay(S)>> \in S
<1>1. BestBitslip(S) \in 0 .. bitslips - 1 /\ Windows(S, BestBitslip(S)) # {}
  BY BestBitslipExists
<1>2. BestWindow(Windows(S, BestBitslip(S))) \in Windows(S, BestBitslip(S))
  BY <1>1, BestWindowExists
<1> QED
  BY <1>1, <1>2, WindowFacts DEF BestDelay
-----------------------------------------------------------------------------
\* The script starts with no module leveled.
LEMMA InvInitially == Init => LevelingInv
<1> SUFFICES ASSUME Init
             PROVE  LevelingInv
  OBVIOUS
<1>1. tap \in [Modules -> [bitslip : 0 .. bitslips - 1, delay : 0 .. delays - 1]]
  BY Bounds DEF Init
<1>2. eye \in [Modules -> SUBSET Settings]
  BY EyesAssumption DEF Init, Settings
<1>3. Types
  BY <1>1, <1>2, Bounds DEF Init, Types, Modules
<1>4. InStep
  BY DEF Init, InStep
<1>5. LeveledModulesRead
  BY DEF Init, LeveledModulesRead
<1> QED
  BY <1>3, <1>4, <1>5 DEF LevelingInv

\* Selecting a module resets its bitslip and changes no setting of an earlier one.
LEMMA StartModuleInv == LevelingInv /\ StartModule => LevelingInv'
<1> SUFFICES ASSUME LevelingInv, StartModule
             PROVE  LevelingInv'
  OBVIOUS
<1> USE DEF LevelingInv
<1>1. CASE module = nmodules
  BY <1>1 DEF StartModule, Types, InStep, LeveledModulesRead, Modules
<1>2. CASE module # nmodules
  <2>1. module \in Modules
    BY <1>2, Bounds DEF Types, Modules
  <2>2. /\ pc' = "bitslip" /\ selected' = module /\ scores' = {} /\ bs' = 0
        /\ tap' = [tap EXCEPT ![module].bitslip = 0]
        /\ UNCHANGED <<module, dly, failed, eye>>
    BY <1>2 DEF StartModule
  <2>3. Types'
    BY <2>1, <2>2, Bounds DEF Types
  <2>4. tap'[module].bitslip = 0
    BY <2>1, <2>2 DEF Types
  <2>5. Scanned(0, 0)' = {}
    <3>1. eye'[module] \subseteq Settings
      BY <2>1, <2>2 DEF Types
    <3> QED
      BY <3>1, <2>2, Bounds DEF Scanned, Settings
  <2>6. InStep'
    BY <2>1, <2>2, <2>4, <2>5 DEF InStep
  <2>7. \A m \in 0 .. module - 1 : m \in Modules /\ m # module /\ tap'[m] = tap[m]
    BY <2>1, <2>2, Bounds, SMTT(30) DEF Types, Modules
  <2>8. LeveledModulesRead'
    BY <2>2, <2>7 DEF LeveledModulesRead
  <2> QED
    BY <2>3, <2>6, <2>8
<1> QED
  BY <1>1, <1>2

\* After the last bitslip the scores are the whole eye; otherwise the scan starts at delay 0.
LEMMA StartBitslipInv == LevelingInv /\ StartBitslip => LevelingInv'
<1> SUFFICES ASSUME LevelingInv, StartBitslip
             PROVE  LevelingInv'
  OBVIOUS
<1> USE DEF LevelingInv
<1>0. module \in Modules /\ selected = module /\ scores = Scanned(bs, 0)
  BY DEF StartBitslip, InStep
<1>1. CASE bs = bitslips
  <2>1. pc' = "choose" /\ UNCHANGED <<dly, tap, module, bs, selected, scores, failed, eye>>
    BY <1>1 DEF StartBitslip
  <2>2. Scanned(bs, 0) = eye[module]
    <3>1. eye[module] \subseteq Settings
      BY <1>0 DEF Types
    <3> QED
      BY <3>1, <1>1, Bounds DEF Scanned, Settings
  <2>3. Types' /\ LeveledModulesRead'
    BY <2>1 DEF Types, LeveledModulesRead
  <2>4. InStep'
    BY <1>0, <2>1, <2>2 DEF InStep
  <2> QED
    BY <2>3, <2>4
<1>2. CASE bs # bitslips
  <2>1. /\ pc' = "scan" /\ dly' = 0 /\ tap' = [tap EXCEPT ![module].delay = 0]
        /\ UNCHANGED <<module, bs, selected, scores, failed, eye>>
    BY <1>0, <1>2 DEF StartBitslip, delay_rst
  <2>2. Types'
    BY <1>0, <2>1, Bounds DEF Types
  <2>3. bs < bitslips /\ tap[module].bitslip = bs
    BY <1>2, Bounds DEF StartBitslip, InStep, Types
  <2>4. tap'[module].bitslip = bs /\ tap'[module].delay = 0
    BY <1>0, <2>1, <2>3 DEF Types
  <2>5. Scanned(bs, dly)' = Scanned(bs, 0)
    BY <2>1 DEF Scanned
  <2>6. InStep'
    BY <1>0, <2>1, <2>3, <2>4, <2>5 DEF InStep
  <2>7. \A m \in 0 .. module - 1 : m \in Modules /\ m # module /\ tap'[m] = tap[m]
    BY <1>0, <2>1, Bounds, SMTT(30) DEF Types, Modules
  <2>8. LeveledModulesRead'
    BY <2>1, <2>7 DEF LeveledModulesRead
  <2> QED
    BY <2>2, <2>6, <2>8
<1> QED
  BY <1>1, <1>2

\* A test adds the setting it ran at; the counters follow the loop variables.
LEMMA ScanDelayInv == LevelingInv /\ ScanDelay => LevelingInv'
<1> SUFFICES ASSUME LevelingInv, ScanDelay
             PROVE  LevelingInv'
  OBVIOUS
<1> USE DEF LevelingInv
<1>0. /\ module \in Modules /\ selected = module /\ scores = Scanned(bs, dly)
      /\ bs < bitslips /\ tap[module].bitslip = bs
      /\ pc = "scan" /\ UNCHANGED <<module, selected, failed, eye>>
  BY DEF ScanDelay, InStep
<1>a. eye[module] \subseteq Settings
  BY <1>0 DEF Types
<1>b. bs \in Nat /\ dly \in Nat /\ dly <= delays
  BY Bounds DEF Types
<1>c. \A m \in 0 .. module - 1 : m \in Modules /\ m # module
  BY <1>0, Bounds DEF Modules
<1>1. CASE dly < delays
  <2>1. /\ scores' = IF TestPasses THEN scores \cup {<<bs, dly>>} ELSE scores
        /\ tap' = [tap EXCEPT ![module].delay = (@ + 1) % delays]
        /\ dly' = dly + 1 /\ UNCHANGED <<pc, bs>>
    BY <1>0, <1>1 DEF ScanDelay, delay_inc
  <2>2. tap[module].delay = dly
    BY <1>0, <1>1 DEF InStep
  <2>3. (dly + 1) % delays \in 0 .. delays - 1
    BY <1>b, Bounds, Remainder
  <2>4. dly + 1 < delays => (dly + 1) % delays = dly + 1
    BY <1>b, Bounds, SmallRemainder
  <2> DEFINE next == (dly + 1) % delays
  <2>5. tap' = [tap EXCEPT ![module].delay = next]
    BY <1>0, <2>1, <2>2 DEF Types
  <2> HIDE DEF next
  <2>6. tap' \in [Modules -> [bitslip : 0 .. bitslips - 1, delay : 0 .. delays - 1]]
    BY <1>0, <2>3, <2>5 DEF Types, next
  <2>7. tap'[module].bitslip = bs /\ tap'[module].delay = next
    BY <1>0, <2>5 DEF Types
  <2>8. Types'
    BY <1>0, <1>1, <1>b, <2>1, <2>6, Bounds DEF Types
  <2>9. TestPasses <=> <<bs, dly>> \in eye[module]
    BY <1>0, <2>2 DEF TestPasses
  <2>10. Scanned(bs, dly)' = {p \in eye[module] : p[1] < bs \/ (p[1] = bs /\ p[2] < dly + 1)}
    BY <1>0, <2>1 DEF Scanned
  <2>11. scores' = Scanned(bs, dly)'
    <3>1. ASSUME NEW p \in eye[module]
          PROVE  p[1] \in Nat /\ p[2] \in Nat /\ (p = <<bs, dly>> <=> p[1] = bs /\ p[2] = dly)
      BY <1>a, Bounds DEF Settings
    <3>2. ASSUME NEW p \in eye[module]
          PROVE  p \in scores' <=> p[1] < bs \/ (p[1] = bs /\ p[2] < dly + 1)
      <4>1. p \in scores <=> p[1] < bs \/ (p[1] = bs /\ p[2] < dly)
        BY <1>0 DEF Scanned
      <4>2. p \in scores' <=> p \in scores \/ p = <<bs, dly>>
        BY <2>1, <2>9
      <4>3. p[2] < dly + 1 <=> p[2] < dly \/ p[2] = dly
        BY <3>1, <1>b
      <4> QED
        BY <3>1, <4>1, <4>2, <4>3
    <3>3. scores' \subseteq eye[module]
      BY <1>0, <2>1, <2>9 DEF Scanned
    <3> QED
      BY <3>2, <3>3, <2>10
  <2>12. InStep'
    BY <1>0, <2>1, <2>4, <2>7, <2>11, Zenon DEF InStep, next
  <2>13. LeveledModulesRead'
    BY <1>0, <1>c, <2>5 DEF LeveledModulesRead, Types
  <2> QED
    BY <2>8, <2>12, <2>13
<1>2. CASE ~ dly < delays
  <2>1. /\ tap' = [tap EXCEPT ![module].bitslip = (@ + 1) % bitslips]
        /\ bs' = bs + 1 /\ pc' = "bitslip" /\ UNCHANGED <<scores, dly>>
    BY <1>0, <1>2 DEF ScanDelay, bitslip_inc
  <2>2. dly = delays
    BY <1>b, <1>2, Bounds
  <2>3. (bs + 1) % bitslips \in 0 .. bitslips - 1
    BY <1>b, Bounds, Remainder
  <2>4. bs + 1 < bitslips => (bs + 1) % bitslips = bs + 1
    BY <1>b, Bounds, SmallRemainder
  <2> DEFINE next == (bs + 1) % bitslips
  <2>5. tap' = [tap EXCEPT ![module].bitslip = next]
    BY <1>0, <2>1 DEF Types
  <2> HIDE DEF next
  <2>6. tap' \in [Modules -> [bitslip : 0 .. bitslips - 1, delay : 0 .. delays - 1]]
    BY <1>0, <2>3, <2>5 DEF Types, next
  <2>7. tap'[module].bitslip = next
    BY <1>0, <2>5 DEF Types
  <2>8. Types'
    BY <1>0, <1>b, <2>1, <2>6, Bounds DEF Types
  <2>9. scores' = Scanned(bs, 0)'
    <3>1. \A p \in eye[module] : p[1] \in Nat /\ p[2] \in 0 .. delays - 1
      BY <1>a, Bounds DEF Settings
    <3>2. Scanned(bs, 0)' = {p \in eye[module] : p[1] < bs + 1 \/ (p[1] = bs + 1 /\ p[2] < 0)}
      BY <1>0, <2>1 DEF Scanned
    <3>3. Scanned(bs, dly) = {p \in eye[module] : p[1] < bs \/ (p[1] = bs /\ p[2] < delays)}
      BY <2>2 DEF Scanned
    <3>4. \A p \in eye[module] : (p[1] < bs + 1 \/ (p[1] = bs + 1 /\ p[2] < 0))
                                   <=> (p[1] < bs \/ (p[1] = bs /\ p[2] < delays))
      BY <3>1, <1>b, Bounds
    <3> QED
      BY <3>2, <3>3, <3>4, <1>0, <2>1
  <2>10. InStep'
    BY <1>0, <2>1, <2>4, <2>7, <2>9 DEF InStep, next
  <2>11. LeveledModulesRead'
    BY <1>0, <1>c, <2>5 DEF LeveledModulesRead, Types
  <2> QED
    BY <2>8, <2>10, <2>11
<1> QED
  BY <1>1, <1>2

\* The choice leaves the module at a good setting, or fails it when it has none.
LEMMA ChooseInv == LevelingInv /\ Choose => LevelingInv'
<1> SUFFICES ASSUME LevelingInv, Choose
             PROVE  LevelingInv'
  OBVIOUS
<1> USE DEF LevelingInv
<1>0. /\ module \in Modules /\ selected = module /\ scores = eye[module]
      /\ pc' = "module" /\ module' = module + 1 /\ UNCHANGED <<bs, dly, selected, scores, eye>>
  BY DEF Choose, InStep
<1>a. scores \in SUBSET Settings
  BY <1>0 DEF Types
<1>b. module + 1 \in 0 .. nmodules /\ 0 .. module = 0 .. (module + 1) - 1
  BY <1>0, Bounds DEF Modules
<1>c. 0 .. module = (0 .. module - 1) \cup {module} /\ module \notin 0 .. module - 1
  BY <1>0, Bounds DEF Modules
<1>d. \A m \in 0 .. module - 1 : m \in Modules /\ m # module
  BY <1>0, Bounds DEF Modules
<1>e. InStep'
  BY <1>0 DEF InStep
<1>1. CASE scores = {}
  <2>1. failed' = failed \cup {module} /\ tap' = tap
    BY <1>1 DEF Choose
  <2>2. Types'
    BY <1>0, <1>b, <1>c, <2>1 DEF Types
  <2>3. LeveledModulesRead'
    BY <1>0, <1>1, <1>b, <1>c, <2>1, Zenon DEF LeveledModulesRead
  <2> QED
    BY <1>e, <2>2, <2>3
<1>2. CASE scores # {}
  <2> DEFINE b == BestBitslip(scores)
             d == BestDelay(scores)
  <2>1. b \in 0 .. bitslips - 1 /\ d \in 0 .. delays - 1 /\ <<b, d>> \in scores
    BY <1>2, <1>a, ChoiceIsGood
  <2> HIDE DEF b, d
  <2>2. b % bitslips = b
    BY <2>1, Bounds, SmallRemainder
  <2>3. d % delays = d
    BY <2>1, Bounds, SmallRemainder
  <2>4. failed' = failed /\ tap' = BitslipDelaySet(tap, b, d)
    BY <1>2 DEF Choose, b, d
  <2>5. tap' = [tap EXCEPT ![module] = [bitslip |-> b, delay |-> d]]
    BY <1>0, <2>2, <2>3, <2>4, Zenon DEF BitslipDelaySet
  <2>6. Types'
    BY <1>0, <1>b, <1>c, <2>1, <2>4, <2>5 DEF Types
  <2>7. tap'[module].bitslip = b /\ tap'[module].delay = d
    BY <1>0, <2>5 DEF Types
  <2>8. \A m \in 0 .. module - 1 : tap'[m] = tap[m]
    BY <1>0, <1>d, <2>5 DEF Types
  <2>9. module \notin failed
    BY <1>c DEF Types
  <2>10. LeveledModulesRead'
    BY <1>0, <1>b, <1>c, <2>1, <2>4, <2>7, <2>8, <2>9, SMTT(30) DEF LeveledModulesRead
  <2> QED
    BY <1>e, <2>6, <2>10
<1> QED
  BY <1>1, <1>2

\* LevelingInv is inductive.
LEMMA InvPreserved == LevelingInv /\ [Next]_vars => LevelingInv'
<1> SUFFICES ASSUME LevelingInv, [Next]_vars
             PROVE  LevelingInv'
  OBVIOUS
<1>1. CASE UNCHANGED vars
  BY <1>1 DEF vars, LevelingInv, Types, InStep, Scanned, LeveledModulesRead
<1>2. CASE Next
  BY <1>2, StartModuleInv, StartBitslipInv, ScanDelayInv, ChooseInv DEF Next
<1> QED
  BY <1>1, <1>2

(***************************************************************************)
(* read_level.py leaves every module it has leveled at a setting where it  *)
(* reads without errors and fails only modules that read nowhere, for any  *)
(* number of modules, bitslips and delays, any eyes and any setting of the *)
(* PHY before.                                                             *)
(***************************************************************************)
THEOREM LevelingFindsEye == Spec => []LeveledModulesRead
<1>1. LevelingInv => LeveledModulesRead
  BY DEF LevelingInv
<1> QED
  BY InvInitially, InvPreserved, <1>1, PTL DEF Spec
=============================================================================
