-------------------------- MODULE PlaybookLogProofs --------------------------
(***************************************************************************)
(* The playbook's log of errors is exact, for every geometry of the        *)
(* memory.                                                                 *)
(***************************************************************************)
EXTENDS PlaybookProofs

\* Bytes of a row of one bank.
RowBytes == 2^colbits * 2^bus_shift

\* Quotient and remainder are what they were put together from.
LEMMA Unique ==
  ASSUME NEW b \in Nat \ {0}, NEW x \in Int, NEW m \in 0 .. b - 1
  PROVE  (b * x + m) \div b = x /\ (b * x + m) % b = m
<1> DEFINE a == b * x + m
           y == a \div b
           n == a % b
<1>1. a \in Int
  OBVIOUS
<1>2. y \in Int /\ n \in 0 .. b - 1 /\ a = b * y + n
  BY <1>1, Division
<1>3. b * x + m = b * y + n
  BY <1>2
<1> HIDE DEF y, n
<1>4. PICK d \in Int : d = x - y
  BY <1>2
<1>5. b * d = n - m
  BY <1>2, <1>3, <1>4
<1>6. ~ (d >= 1)
  <2> SUFFICES ASSUME d >= 1 PROVE FALSE
    OBVIOUS
  <2>1. b * d >= b
    BY <1>4
  <2> QED  BY <1>2, <1>5, <2>1
<1>7. ~ (d <= -1)
  <2> SUFFICES ASSUME d <= -1 PROVE FALSE
    OBVIOUS
  <2>1. b * d <= -b
    BY <1>4
  <2> QED  BY <1>2, <1>5, <2>1
<1>8. d = 0
  BY <1>4, <1>6, <1>7
<1>9. x = y /\ m = n
  BY <1>2, <1>3, <1>4, <1>8
<1> QED  BY <1>9 DEF y, n

\* Whole rows further on, a column has the same number.
LEMMA ColumnRepeats ==
  ASSUME NEW a \in Int, NEW k \in Int, NEW C \in Nat \ {0}, NEW S \in Nat \ {0}
  PROVE  ((a + k * (C * S)) \div S) % C = (a \div S) % C
<1>1. PICK q \in Int : q = a \div S /\ \E m \in 0 .. S - 1 : a = S * q + m
  BY Division, Zenon
<1>1a. PICK m \in 0 .. S - 1 : a = S * q + m
  BY <1>1, Zenon
<1>2. PICK v \in 0 .. C - 1 : v = q % C /\ \E u \in Int : q = C * u + v
  BY Division, Zenon
<1>2a. PICK u \in Int : q = C * u + v
  BY <1>2, Zenon
<1>3. k * (C * S) = S * (k * C) /\ k * C \in Int
  OBVIOUS
<1>4. a + k * (C * S) = S * (q + k * C) + m
  <2>1. S * (q + k * C) = S * q + S * (k * C)
    BY <1>3
  <2>2. S * q \in Int /\ S * (k * C) \in Int /\ m \in Int
    BY <1>3
  <2> QED  BY <1>1a, <1>3, <2>1, <2>2
<1>5. (S * (q + k * C) + m) \div S = q + k * C
  <2>1. q + k * C \in Int
    BY <1>3
  <2> QED  BY <2>1, Unique, Zenon
<1>6. q + k * C = C * (u + k) + v /\ u + k \in Int
  <2>1. C * (u + k) = C * u + k * C
    OBVIOUS
  <2>2. C * u \in Int /\ v \in Int
    OBVIOUS
  <2> QED  BY <1>2a, <1>3, <2>1, <2>2
<1>7. (C * (u + k) + v) % C = v
  BY <1>6, Unique, Zenon
<1> QED  BY <1>1, <1>2, <1>4, <1>5, <1>6, <1>7, Zenon

\* The column that an address is decoded to.
LEMMA ColumnOf ==
  ASSUME NEW a \in Int
  PROVE  decode_bus(a).col = (a \div 2^bus_shift) % 2^colbits
<1>1. a \div 2^bus_shift \in Int
  BY Geometry, Division, Zenon
<1>2. 2^0 = 1
  OBVIOUS
<1>3. (a \div 2^bus_shift) \div 2^0 = a \div 2^bus_shift
  BY <1>1, <1>2
<1> QED  BY <1>3, Zenon DEF decode_bus, extract

\* The sizes of a burst and of a row, in words.
LEMMA WholeWords ==
  /\ RowBytes \in Int /\ dma_data_bytes \in Nat \ {0}
  /\ \E d \in Int : dma_data_bytes = 4 * d
  /\ \E d \in Int : RowBytes = 4 * d
<1>1. dma_data_bytes \in Nat \ {0}
  BY GeometryAssumption, Zenon DEF dma_data_bytes
<1>2. RowBytes \in Int
  BY Geometry DEF RowBytes
<1>3. \A x \in Int : x % 4 = 0 => x = 4 * (x \div 4) /\ x \div 4 \in Int
  OBVIOUS
<1>4. dma_data_bytes % 4 = 0 /\ RowBytes % 4 = 0
  BY WordAssumption, Zenon DEF RowBytes
<1>5. dma_data_bytes \in Int
  BY <1>1
<1> QED  BY <1>1, <1>2, <1>3, <1>4, <1>5, Zenon

\* A word is found again at the column of its error, from whatever row it was counted.
LEMMA ColumnFound ==
  ASSUME NEW r \in Nat, NEW e \in Nat, NEW k \in Int
  PROVE  Found(r, (Address(e) - k * RowBytes) \div 4).col = decode_bus(Address(e)).col
<1>1. PICK d \in Int : dma_data_bytes = 4 * d
  BY WholeWords, Zenon
<1>2. PICK b \in Int : RowBytes = 4 * b
  BY WholeWords, Zenon
<1> DEFINE A == Address(e)
           w == (A - k * RowBytes) \div 4
           h == r * 2^bankbits - k
<1>3. A = 4 * (e * d) /\ e * d \in Int
  BY <1>1 DEF Address
<1>4. k * RowBytes = 4 * (k * b) /\ k * b \in Int
  BY <1>2
<1>5. 4 * w = A - k * RowBytes /\ A \in Int
  <2> HIDE DEF A
  <2>1. PICK z \in Int : A - k * RowBytes = 4 * z
    <3>1. e * d - k * b \in Int /\ A - k * RowBytes = 4 * (e * d - k * b)
      BY <1>3, <1>4
    <3> QED  BY <3>1, Zenon
  <2>2. (4 * z) \div 4 = z
    OBVIOUS
  <2>3. w = z
    BY <2>1, <2>2, Zenon
  <2>4. A \in Int
    BY <1>3
  <2> HIDE DEF w
  <2> QED  BY <2>1, <2>3, <2>4
<1>6. r * 2^bankbits \in Int /\ h \in Int /\ RowBytes \in Int
  BY Geometry, WholeWords
<1>7. encode_bus(0, r, 0) = (r * 2^bankbits) * RowBytes
  <2>1. r * 2^bankbits + 0 = r * 2^bankbits
    BY <1>6
  <2>2. \A x \in Int : (x * 2^colbits + 0) * 2^bus_shift = x * (2^colbits * 2^bus_shift)
    BY Geometry
  <2> QED  BY <1>6, <2>1, <2>2, Zenon DEF encode_bus, encode, RowBytes
<1>8. encode_bus(0, r, 0) + 4 * w = A + h * RowBytes
  <2>1. h * RowBytes = (r * 2^bankbits) * RowBytes - k * RowBytes
    BY <1>6
  <2>2. (r * 2^bankbits) * RowBytes \in Int /\ k * RowBytes \in Int
    BY <1>6
  <2> HIDE DEF A, w, h
  <2> QED  BY <1>5, <1>7, <2>1, <2>2
<1>9. A + h * RowBytes \in Int
  <2> HIDE DEF A, h
  <2> QED  BY <1>5, <1>6
<1>10. ((A + h * (2^colbits * 2^bus_shift)) \div 2^bus_shift) % 2^colbits = (A \div 2^bus_shift) % 2^colbits
  <2> HIDE DEF A, h
  <2>1. A \in Int /\ h \in Int /\ 2^colbits \in Nat \ {0} /\ 2^bus_shift \in Nat \ {0}
    BY <1>5, <1>6, Geometry, Zenon
  <2>2. \A C, S \in Nat \ {0} : ((A + h * (C * S)) \div S) % C = (A \div S) % C
    BY <2>1, ColumnRepeats, Zenon
  <2> QED  BY <2>1, <2>2, Zenon
<1> QED
  <2> HIDE DEF h
  <2>1. Found(r, w) = decode_bus(A + h * RowBytes)
    BY <1>8, Zenon DEF Found
  <2> HIDE DEF w, A
  <2>2. decode_bus(A + h * RowBytes).col = decode_bus(A).col
    BY <1>5, <1>9, <1>10, ColumnOf, Zenon DEF RowBytes
  <2> QED  BY <2>1, <2>2, Zenon DEF w, A

\* The powers of two that TypeA uses.
LEMMA Powers == 2^1 = 2 /\ 2^2 = 4
  OBVIOUS

\* Bits 1, 2 and 3 of a row.
LEMMA LowBits ==
  ASSUME NEW q \in Nat, NEW m \in 0 .. 7
  PROVE  /\ (8 * q + m) \div 8 = q
         /\ ((8 * q + m) \div 2) % 2 = IF m \in {2, 3, 6, 7} THEN 1 ELSE 0
         /\ ((8 * q + m) \div 4) % 2 = IF m >= 4 THEN 1 ELSE 0
<1>1. (8 * q + m) \div 8 = q /\ (8 * q + m) \div 2 = 4 * q + m \div 2 /\ (8*q+m) \div 4 = 2 * q + m \div 4
  OBVIOUS
<1>2. (4 * q + m \div 2) % 2 = (m \div 2) % 2 /\ (2 * q + m \div 4) % 2 = m \div 4
  OBVIOUS
<1>3. (m \div 2) % 2 = IF m \in {2, 3, 6, 7} THEN 1 ELSE 0
  OBVIOUS
<1>4. m \div 4 = IF m >= 4 THEN 1 ELSE 0
  OBVIOUS
<1> QED  BY <1>1, <1>2, <1>3, <1>4

\* TypeA, by the low three bits and the rest.
LEMMA TypeAOf ==
  ASSUME NEW q \in Nat, NEW m \in 0 .. 7
  PROVE  RL!TypeA(8 * q + m) = IF q % 2 = 0 THEN 8 * q + m
         ELSE 8 * q + (m + (IF m \in {2, 3, 6, 7} THEN -2 ELSE 2) + (IF m >= 4 THEN -4 ELSE 4))
<1> DEFINE n == m + (IF m \in {2, 3, 6, 7} THEN -2 ELSE 2)
           row == 8 * q + m
<1>1. n \in 0 .. 7 /\ (n >= 4 <=> m >= 4)
  OBVIOUS
<1>2. (row \div 8) % 2 \in {0, 1} /\ (row \div 8) % 2 = q % 2
  BY LowBits
<1>3. RL!XorBit(row, 1, 1) = 8 * q + n
  BY LowBits, Powers, SMTT(60) DEF RL!XorBit
<1>4. RL!XorBit(8 * q + n, 1, 2) = 8 * q + (n + (IF m >= 4 THEN -4 ELSE 4))
  <2> HIDE DEF n
  <2>1. ((8 * q + n) \div 4) % 2 = IF m >= 4 THEN 1 ELSE 0
    BY <1>1, LowBits
  <2> QED  BY <1>1, <2>1, Powers DEF RL!XorBit
<1>5. RL!TypeA(row) = RL!XorBit(RL!XorBit(row, q % 2, 1), q % 2, 2)
  BY <1>2, Zenon DEF RL!TypeA
<1>6. \A x : RL!XorBit(x, 0, 1) = x /\ RL!XorBit(x, 0, 2) = x
  BY DEF RL!XorBit
<1>7. q % 2 = 0 \/ q % 2 = 1
  OBVIOUS
<1> HIDE DEF n, row
<1>8. CASE q % 2 = 0
  BY <1>5, <1>6, <1>8, Zenon DEF row
<1>9. CASE q % 2 = 1
  <2>1. q % 2 # 0
    BY <1>9
  <2>2. RL!TypeA(row) = RL!XorBit(8 * q + n, 1, 2)
    BY <1>3, <1>5, <1>9, Zenon
  <2> QED  BY <1>4, <2>1, <2>2, Zenon DEF row, n
<1> QED  BY <1>7, <1>8, <1>9

\* TypeA is one-to-one.
LEMMA TypeAOneToOne ==
  ASSUME NEW x \in Nat, NEW y \in Nat, RL!TypeA(x) = RL!TypeA(y)
  PROVE  x = y
<1>1. PICK q \in Nat, m \in 0 .. 7 : x = 8 * q + m
  <2>1. x \div 8 \in Nat /\ x % 8 \in 0 .. 7 /\ x = 8 * (x \div 8) + (x % 8)
    OBVIOUS
  <2> QED  BY <2>1, Zenon
<1>2. PICK p \in Nat, k \in 0 .. 7 : y = 8 * p + k
  <2>1. y \div 8 \in Nat /\ y % 8 \in 0 .. 7 /\ y = 8 * (y \div 8) + (y % 8)
    OBVIOUS
  <2> QED  BY <2>1, Zenon
<1> DEFINE u == m + (IF m \in {2, 3, 6, 7} THEN -2 ELSE 2) + (IF m >= 4 THEN -4 ELSE 4)
           v == k + (IF k \in {2, 3, 6, 7} THEN -2 ELSE 2) + (IF k >= 4 THEN -4 ELSE 4)
<1>3. /\ u \in 0 .. 7 /\ v \in 0 .. 7
      /\ u = v => m = k
  OBVIOUS
<1>4. /\ RL!TypeA(x) = IF q % 2 = 0 THEN 8 * q + m ELSE 8 * q + u
      /\ RL!TypeA(y) = IF p % 2 = 0 THEN 8 * p + k ELSE 8 * p + v
  BY <1>1, <1>2, TypeAOf, Zenon
<1> HIDE DEF u, v
<1>5. PICK s \in 0 .. 7, t \in 0 .. 7 : RL!TypeA(x) = 8 * q + s /\ RL!TypeA(y) = 8 * p + t
  BY <1>3, <1>4, Zenon
<1>6. q = p /\ s = t
  <2>1. 8 * q + s = 8 * p + t
    BY <1>5, Zenon
  <2> QED  BY <2>1
<1>7. m = k
  <2>1. CASE q % 2 = 0
    <3>1. 8 * q + m = 8 * q + k
      BY <1>4, <1>6, <2>1, Zenon
    <3> QED  BY <3>1
  <2>2. CASE q % 2 # 0
    <3>1. 8 * q + u = 8 * q + v
      BY <1>4, <1>6, <2>2, Zenon
    <3> QED  BY <1>3, <3>1
  <2> QED  BY <2>1, <2>2
<1> QED  BY <1>1, <1>2, <1>6, <1>7

\* Only TypeB gives two rows one number.
LEMMA MappingOneToOne ==
  ASSUME row_mapping \in {"Trivial", "TypeA"},
         NEW x \in Nat, NEW y \in Nat, RL!physical_to_logical(x) = RL!physical_to_logical(y)
  PROVE  x = y
<1>1. CASE row_mapping = "Trivial"
  BY <1>1, Zenon DEF RL!physical_to_logical
<1>2. CASE row_mapping = "TypeA"
  <2>1. \A r : RL!physical_to_logical(r) = RL!TypeA(r)
    BY <1>2 DEF RL!physical_to_logical
  <2> QED  BY <2>1, TypeAOneToOne, Zenon
<1> QED  BY <1>1, <1>2, Zenon
-----------------------------------------------------------------------------
\* Where an error is.
RowOf(e) == decode_bus(Address(e)).row
ColOf(e) == decode_bus(Address(e)).col

\* The address of a whole number of rows.
WholeRows(address) == address \in Int /\ address % RowBytes = 0

\* What LogExact says of one entry and its errors.
EntryExact(entry, es) ==
  LET Listed == UNION {{<<entry[l].physical_row, c>> : c \in entry[l].col} : l \in DOMAIN entry}
      Errors == {<<RowOf(e), ColOf(e)>> : e \in es}
  IN  /\ Listed \subseteq Errors
      /\ DOMAIN entry = {RL!physical_to_logical(RowOf(e)) : e \in es}
      /\ row_mapping # "TypeB" => Listed = Errors
      /\ \A l \in DOMAIN entry : RL!physical_to_logical(entry[l].physical_row) = l

\* An error decodes to numbers, its row to one of the memory.
LEMMA ErrorDecodes ==
  ASSUME NEW e \in Nat
  PROVE  Address(e) \in Int /\ decode_bus(Address(e)).bank \in Int /\ RowOf(e) \in 0 .. 2^rowbits - 1
<1>1. Address(e) \in Int
  BY WholeWords DEF Address
<1>2. 2^(bankbits + colbits) \in Nat \ {0}
  BY GeometryAssumption, Zenon
<1> DEFINE a == Address(e) \div 2^bus_shift
<1>3. a \in Int
  BY <1>1, Geometry, Division, Zenon
<1>4. a \div 2^(bankbits + colbits) \in Int /\ a \div 2^colbits \in Int
  <2> HIDE DEF a
  <2> QED  BY <1>2, <1>3, Geometry, Division, Zenon
<1>5. (a \div 2^(bankbits + colbits)) % 2^rowbits \in 0 .. 2^rowbits - 1
  <2> HIDE DEF a
  <2> QED  BY <1>4, Geometry, Division, Zenon
<1>6. (a \div 2^colbits) % 2^bankbits \in Int
  <2> HIDE DEF a
  <2>1. (a \div 2^colbits) % 2^bankbits \in 0 .. 2^bankbits - 1
    BY <1>4, Geometry, Division, Zenon
  <2> QED  BY <2>1
<1> QED  BY <1>1, <1>5, <1>6, Zenon DEF RowOf, decode_bus, extract

\* A base address is one of whole rows.
LEMMA BaseIsWhole ==
  ASSUME NEW bank \in Int, NEW r \in Nat
  PROVE  WholeRows(encode_bus(bank, r, 0))
<1>1. 2^bankbits \in Int /\ 2^colbits \in Int /\ 2^bus_shift \in Int /\ RowBytes \in Nat \ {0}
  BY Geometry DEF RowBytes
<1>2. r * 2^bankbits + bank \in Int
  BY <1>1
<1>3. \A x \in Int : (x * 2^colbits + 0) * 2^bus_shift = (2^colbits * 2^bus_shift) * x + 0
  BY <1>1
<1>4. \A x \in Int : RowBytes * x + 0 \in Int /\ 0 \in 0 .. RowBytes - 1
  BY <1>1
<1>5. \A x \in Int : (RowBytes * x + 0) % RowBytes = 0
  BY <1>1, <1>4, Unique, Zenon
<1> QED  BY <1>2, <1>3, <1>4, <1>5, Zenon DEF WholeRows, encode_bus, encode, RowBytes

\* The base addresses in the cache.
LEMMA CacheKept ==
  ASSUME NEW es, es \subseteq Nat,
         \A r \in DOMAIN addresses_per_row : WholeRows(addresses_per_row[r])
  PROVE  /\ RowsOf(es) \subseteq DOMAIN Cached(es)
         /\ \A r \in DOMAIN Cached(es) : WholeRows(Cached(es)[r])
<1>1. DOMAIN Cached(es) = DOMAIN addresses_per_row \cup RowsOf(es)
  BY Zenon DEF Cached
<1>2. ASSUME NEW r \in RowsOf(es), r \notin DOMAIN addresses_per_row
      PROVE  WholeRows(Cached(es)[r])
  <2> DEFINE T == {e \in es : decode_bus(Address(e)).row = r}
             first == Min(T)
  <2>1. T \subseteq Nat /\ T # {}
    BY <1>2, Zenon DEF RowsOf
  <2>2. first \in T
    <3> HIDE DEF T
    <3> QED  BY <2>1, Least, Zenon DEF Min
  <2>3. first \in Nat /\ RowOf(first) = r
    BY <2>1, <2>2, Zenon DEF RowOf
  <2>4. Cached(es)[r] = encode_bus(decode_bus(Address(first)).bank, r, 0)
    BY <1>2, Zenon DEF Cached
  <2> HIDE DEF first
  <2>5. decode_bus(Address(first)).bank \in Int /\ r \in Nat
    <3>1. decode_bus(Address(first)).bank \in Int /\ r \in 0 .. 2^rowbits - 1
      BY <2>3, ErrorDecodes, Zenon
    <3> QED  BY <3>1, Geometry
  <2> QED  BY <2>4, <2>5, BaseIsWhole, Zenon
<1>3. ASSUME NEW r \in DOMAIN addresses_per_row
      PROVE  WholeRows(Cached(es)[r])
  <2>1. Cached(es)[r] = addresses_per_row[r]
    BY <1>3, Zenon DEF Cached
  <2> QED  BY <2>1, Zenon
<1> QED  BY <1>1, <1>2, <1>3, Zenon

\* The columns of the words of a row, and of its errors.
FoundColumns(r, words) == {Found(r, w).col : w \in words}
ErrorColumns(r, es) == {ColOf(e) : e \in {x \in es : RowOf(x) = r}}

\* The words of a row are found at the columns of its errors.
LEMMA ColumnsFound ==
  ASSUME NEW es, es \subseteq Nat, NEW cache, NEW r \in RowsOf(es), WholeRows(cache[r])
  PROVE  FoundColumns(r, decode_errors(es, cache)[r]) = ErrorColumns(r, es)
<1> DEFINE T == {x \in es : RowOf(x) = r}
           word(e) == (Address(e) - cache[r]) \div 4
<1>1. decode_errors(es, cache)[r] = {word(e) : e \in T}
  BY Zenon DEF decode_errors, RowOf
<1>2. PICK k \in Int : cache[r] = k * RowBytes
  <2>1. RowBytes \in Nat \ {0}
    BY Geometry DEF RowBytes
  <2>2. \A a \in Int : a % RowBytes = 0 => a \div RowBytes \in Int /\ a = RowBytes * (a \div RowBytes) + 0
    BY <2>1, Division, Zenon
  <2>3. \A q \in Int : RowBytes * q + 0 = q * RowBytes
    BY <2>1
  <2> QED  BY <2>2, <2>3, Zenon DEF WholeRows
<1>3. r \in Nat
  <2>1. r \in 0 .. 2^rowbits - 1
    BY ErrorDecodes, Zenon DEF RowsOf, RowOf
  <2> QED  BY <2>1, Geometry
<1>4. \A e \in T : Found(r, word(e)).col = ColOf(e)
  BY <1>2, <1>3, ColumnFound, Zenon DEF ColOf
<1> HIDE DEF word, T
<1>5. {Found(r, w).col : w \in {word(e) : e \in T}} = {ColOf(e) : e \in T}
  BY <1>4, Zenon
<1> QED  BY <1>1, <1>5, Zenon DEF T, FoundColumns, ErrorColumns

\* The rows of one logical number, of which the last one is entered.
LEMMA LastRow ==
  ASSUME NEW rows, rows \subseteq 0 .. 2^rowbits - 1, NEW l \in {RL!physical_to_logical(r) : r \in rows}
  PROVE  LET last == Max({q \in rows : RL!physical_to_logical(q) = l})
         IN  last \in rows /\ RL!physical_to_logical(last) = l
<1> DEFINE T == {q \in rows : RL!physical_to_logical(q) = l}
<1>1. T \subseteq 0 .. 2^rowbits - 1 /\ T # {}
  BY Zenon
<1> HIDE DEF T
<1>2. Max(T) \in T
  BY <1>1, Extremes, Zenon DEF Max, RL!Max
<1> QED  BY <1>2, Zenon DEF T

\* The entry that is logged for the errors of an iteration.
LEMMA EntryIsExact ==
  ASSUME NEW es, es \subseteq Nat, NEW cache, \A r \in RowsOf(es) : WholeRows(cache[r]),
         row_mapping \in {"Trivial", "TypeA", "TypeB"}
  PROVE  EntryExact(err_desc(decode_errors(es, cache)), es)
<1> DEFINE D == decode_errors(es, cache)
           rows == RowsOf(es)
           entry == err_desc(D)
           last(l) == Max({q \in rows : RL!physical_to_logical(q) = l})
<1>1. DOMAIN D = rows /\ rows = {RowOf(e) : e \in es}
  BY Zenon DEF decode_errors, RowsOf, RowOf
<1>2. rows \subseteq 0 .. 2^rowbits - 1
  BY <1>1, ErrorDecodes, Zenon
<1>3. DOMAIN entry = {RL!physical_to_logical(r) : r \in rows}
  <2> HIDE DEF D, rows
  <2> QED  BY <1>1, Zenon DEF err_desc
<1>4. ASSUME NEW l \in DOMAIN entry
      PROVE  /\ last(l) \in rows /\ RL!physical_to_logical(last(l)) = l
             /\ entry[l].physical_row = last(l)
             /\ entry[l].col = {ColOf(e) : e \in {x \in es : RowOf(x) = last(l)}}
  <2>1. last(l) \in rows /\ RL!physical_to_logical(last(l)) = l
    <3> HIDE DEF rows
    <3> QED  BY <1>2, <1>3, <1>4, LastRow, Zenon
  <2>2. entry[l].physical_row = last(l) /\ entry[l].col = {Found(last(l), w).col : w \in D[last(l)]}
    <3> HIDE DEF D, rows
    <3>1. entry[l] = [physical_row |-> last(l), col |-> {Found(last(l), w).col : w \in D[last(l)]},
                      bitflips |-> Cardinality(D[last(l)])]
      BY <1>1, <1>3, <1>4, Zenon DEF err_desc
    <3> HIDE DEF last, entry
    <3> QED  BY <3>1
  <2>3. \A r \in rows : FoundColumns(r, D[r]) = ErrorColumns(r, es)
    BY ColumnsFound, Zenon
  <2> HIDE DEF D, rows, last, entry
  <2> QED  BY <2>1, <2>2, <2>3, Zenon DEF FoundColumns, ErrorColumns
<1> DEFINE Listed == UNION {{<<entry[l].physical_row, c>> : c \in entry[l].col} : l \in DOMAIN entry}
           Errors == {<<RowOf(e), ColOf(e)>> : e \in es}
<1> HIDE DEF D, rows, entry, last
<1>5. Listed \subseteq Errors
  <2>1. ASSUME NEW l \in DOMAIN entry, NEW c \in entry[l].col
        PROVE  <<entry[l].physical_row, c>> \in Errors
    <3>1. PICK e \in es : RowOf(e) = last(l) /\ c = ColOf(e)
      BY <1>4, <2>1, Zenon
    <3> QED  BY <1>4, <3>1, Zenon
  <2>2. ASSUME NEW p \in Listed
        PROVE  p \in Errors
    <3>1. PICK l \in DOMAIN entry : p \in {<<entry[l].physical_row, c>> : c \in entry[l].col}
      BY <2>2, Zenon
    <3>2. PICK c \in entry[l].col : p = <<entry[l].physical_row, c>>
      BY <3>1, Zenon
    <3> HIDE DEF Errors
    <3> QED  BY <2>1, <3>2, Zenon
  <2> QED  BY <2>2, Zenon
<1>6. DOMAIN entry = {RL!physical_to_logical(RowOf(e)) : e \in es}
  BY <1>1, <1>3, Zenon
<1>7. ASSUME row_mapping # "TypeB", NEW e \in es
      PROVE  <<RowOf(e), ColOf(e)>> \in Listed
  <2> DEFINE l == RL!physical_to_logical(RowOf(e))
  <2>1. l \in DOMAIN entry /\ RowOf(e) \in rows
    BY <1>1, <1>6, Zenon
  <2>2. last(l) = RowOf(e)
    <3>1. last(l) \in Nat /\ RowOf(e) \in Nat
      <4>1. last(l) \in 0 .. 2^rowbits - 1 /\ RowOf(e) \in 0 .. 2^rowbits - 1
        BY <1>2, <1>4, <2>1, Zenon
      <4> HIDE DEF l
      <4> QED  BY <4>1, Geometry
    <3>2. RL!physical_to_logical(last(l)) = RL!physical_to_logical(RowOf(e))
      BY <1>4, <2>1, Zenon
    <3>3. row_mapping \in {"Trivial", "TypeA"}
      BY <1>7, Zenon
    <3> QED  BY <3>1, <3>2, <3>3, MappingOneToOne, Zenon
  <2> HIDE DEF l
  <2>3. entry[l].physical_row = RowOf(e) /\ ColOf(e) \in entry[l].col
    BY <1>4, <1>7, <2>1, <2>2, Zenon
  <2>4. <<RowOf(e), ColOf(e)>> \in {<<entry[l].physical_row, c>> : c \in entry[l].col}
    BY <2>3, Zenon
  <2> QED  BY <2>1, <2>4, Zenon
<1>8. row_mapping # "TypeB" => Listed = Errors
  BY <1>5, <1>7, Zenon
<1>9. \A l \in DOMAIN entry : RL!physical_to_logical(entry[l].physical_row) = l
  BY <1>4, Zenon
<1> QED  BY <1>5, <1>6, <1>8, <1>9, Zenon DEF EntryExact, entry, D

\* The errors behind the log, the base addresses in the cache, and every entry as LogExact says.
LogInv ==
  /\ row_mapping \in {"Trivial", "TypeA", "TypeB"}
  /\ errors \subseteq Nat
  /\ \A r \in DOMAIN addresses_per_row : WholeRows(addresses_per_row[r])
  /\ err_summary \in Seq(Elements(err_summary)) /\ history \in Seq(Elements(history))
  /\ Len(err_summary) = Len(history)
  /\ \A k \in DOMAIN err_summary : EntryExact(err_summary[k], history[k])

\* LogExact, entry by entry.
LEMMA EntryByEntry ==
  LogExact <=> \A k \in DOMAIN err_summary : EntryExact(err_summary[k], history[k])
<1>1. ASSUME NEW es
      PROVE  {RL!physical_to_logical(p[1]) : p \in {<<RowOf(e), ColOf(e)>> : e \in es}} =
               {RL!physical_to_logical(RowOf(e)) : e \in es}
  <2>1. \A e \in es : <<RowOf(e), ColOf(e)>>[1] = RowOf(e)
    OBVIOUS
  <2> QED  BY <2>1, Zenon
<1>2. LogExact <=>
        \A k \in DOMAIN err_summary :
          LET entry  == err_summary[k]
              Listed == UNION {{<<entry[l].physical_row, c>> : c \in entry[l].col} : l \in DOMAIN entry}
              Errors == {<<RowOf(e), ColOf(e)>> : e \in history[k]}
          IN  /\ Listed \subseteq Errors
              /\ DOMAIN entry = {RL!physical_to_logical(p[1]) : p \in Errors}
              /\ row_mapping # "TypeB" => Listed = Errors
              /\ \A l \in DOMAIN entry : RL!physical_to_logical(entry[l].physical_row) = l
  BY Zenon DEF LogExact, RowOf, ColOf
<1> QED  BY <1>1, <1>2, Zenon DEF EntryExact

\* A sequence with one more element.
LEMMA Appended ==
  ASSUME NEW s, s \in Seq(Elements(s)), NEW x
  PROVE  LET t == Append(s, x)
         IN  /\ t \in Seq(Elements(t)) /\ Len(t) = Len(s) + 1
             /\ Len(s) \in Nat /\ DOMAIN s = 1 .. Len(s) /\ DOMAIN t = 1 .. Len(s) + 1
             /\ t[Len(s) + 1] = x /\ \A k \in DOMAIN s : t[k] = s[k]
<1> DEFINE t == Append(s, x)
           S == Elements(s) \cup {x}
<1> HIDE DEF S
<1>1. s \in Seq(S) /\ x \in S
  BY DEF S
<1>2. /\ t \in Seq(S) /\ Len(t) = Len(s) + 1 /\ Len(s) \in Nat
      /\ DOMAIN s = 1 .. Len(s) /\ DOMAIN t = 1 .. Len(s) + 1
      /\ t[Len(s) + 1] = x /\ \A k \in 1 .. Len(s) : t[k] = s[k]
  BY <1>1
<1>3. t \in Seq(Elements(t))
  <2> HIDE DEF t
  <2>1. t = [k \in 1 .. Len(t) |-> t[k]] /\ Len(t) \in Nat /\ DOMAIN t = 1 .. Len(t)
    BY <1>2
  <2>2. \A k \in 1 .. Len(t) : t[k] \in Elements(t)
    BY <2>1, Zenon DEF Elements
  <2> QED  BY <2>1, <2>2
<1> QED  BY <1>2, <1>3, Zenon

\* What an entry is compared with does not change.
LEMMA ExactKept ==
  ASSUME row_mapping' = row_mapping, NEW entry, NEW es, EntryExact(entry, es)
  PROVE  EntryExact(entry, es)'
<1>1. \A r : RL!physical_to_logical(r)' = RL!physical_to_logical(r)
  BY Zenon DEF RL!physical_to_logical
<1> QED  BY <1>1, Zenon DEF EntryExact

\* The offsets of errors are numbers.
LEMMA ErrorsAreNumbers ==
  ASSUME ExecuteAndTest
  PROVE  errors' \subseteq Nat
<1>1. ASSUME NEW b \in ErrorBanks, NEW r \in RL!RowsIn(tested'), NEW c \in 0 .. 2^colbits - 1
      PROVE  encode(b, r, c) \div 2^address_align \in Nat
  <2>1. r \in 0 .. 2^rowbits - 1
    BY <1>1, Zenon DEF RL!RowsIn
  <2>2. b \in 0 .. 2^bankbits - 1
    BY <1>1, ConfigAssumption, Zenon
  <2>3. b \in Nat /\ r \in Nat /\ c \in Nat /\ 2^bankbits \in Nat /\ 2^colbits \in Nat
    BY <1>1, <2>1, <2>2, Geometry
  <2>4. r * 2^bankbits + b \in Nat
    BY <2>3
  <2>5. (r * 2^bankbits + b) * 2^colbits \in Nat
    BY <2>3, <2>4
  <2>6. encode(b, r, c) \in Nat
    BY <2>3, <2>5 DEF encode
  <2>7. 2^address_align \in Nat \ {0}
    BY GeometryAssumption, Zenon
  <2> QED  BY <2>6, <2>7, Quotient, Zenon
<1>2. Offsets \subseteq Nat
  BY <1>1 DEF Offsets
<1>3. \A es \in [1 .. MaxErrors -> Offsets] : Elements(es) \subseteq Nat
  BY <1>2, Zenon DEF Elements
<1>4. errors' \in {{}} \cup {Elements(es) : es \in [1 .. MaxErrors -> Offsets]}
  BY Zenon DEF ExecuteAndTest
<1> QED  BY <1>3, <1>4, Zenon

\* process_errors keeps the invariant.
LEMMA LogErrorsStep ==
  ASSUME LogInv, LogErrors, row_mapping' = row_mapping
  PROVE  LogInv'
<1> DEFINE cache == addresses_per_row'
           entry == err_desc(decode_errors(errors, cache))
<1>1. cache = Cached(errors) /\ errors' = errors
  BY Zenon DEF LogErrors
<1>2. RowsOf(errors) \subseteq DOMAIN cache /\ \A r \in DOMAIN cache : WholeRows(cache[r])
  BY <1>1, CacheKept, Zenon DEF LogInv
<1>3. CASE UNCHANGED <<err_summary, history>>
  <2>1. \A k \in DOMAIN err_summary : EntryExact(err_summary[k], history[k])'
    BY <1>3, ExactKept, Zenon DEF LogInv
  <2> QED  BY <1>1, <1>2, <1>3, <2>1, Zenon DEF LogInv
<1>4. CASE err_summary' = Append(err_summary, entry) /\ history' = Append(history, errors)
  <2>1. EntryExact(entry, errors)
    BY <1>2, EntryIsExact, Zenon DEF LogInv
  <2> HIDE DEF entry, cache
  <2> DEFINE n == Len(err_summary)
  <2>2. /\ n \in Nat /\ DOMAIN err_summary = 1 .. n
        /\ err_summary' \in Seq(Elements(err_summary')) /\ Len(err_summary') = n + 1
        /\ DOMAIN err_summary' = 1 .. n + 1
        /\ err_summary'[n + 1] = entry /\ \A k \in DOMAIN err_summary : err_summary'[k] = err_summary[k]
    <3>1. err_summary \in Seq(Elements(err_summary))
      BY Zenon DEF LogInv
    <3> QED  BY <1>4, <3>1, Appended
  <2>2a. /\ Len(history) = n /\ DOMAIN history = 1 .. n
         /\ history' \in Seq(Elements(history')) /\ Len(history') = n + 1
         /\ history'[n + 1] = errors /\ \A k \in DOMAIN history : history'[k] = history[k]
    <3>1. history \in Seq(Elements(history)) /\ Len(history) = n
      BY Zenon DEF LogInv
    <3> HIDE DEF n
    <3> QED  BY <1>4, <3>1, Appended
  <2>3. ASSUME NEW k \in DOMAIN err_summary'
        PROVE  EntryExact(err_summary[k], history[k])'
    <3>1. k \in 1 .. n \/ k = n + 1
      BY <2>2, <2>3
    <3>2. CASE k \in 1 .. n
      <4>1. EntryExact(err_summary[k], history[k])
        BY <2>2, <3>2, Zenon DEF LogInv
      <4>2. err_summary'[k] = err_summary[k] /\ history'[k] = history[k]
        BY <2>2, <2>2a, <3>2, Zenon
      <4> QED  BY <4>1, <4>2, ExactKept, Zenon
    <3>3. CASE k = n + 1
      <4>1. err_summary'[k] = entry /\ history'[k] = errors
        BY <2>2, <2>2a, <3>3, Zenon
      <4> QED  BY <2>1, <4>1, ExactKept, Zenon
    <3> QED  BY <3>1, <3>2, <3>3, Zenon
  <2>4. Elements(err_summary)' = Elements(err_summary') /\ Elements(history)' = Elements(history')
    BY Zenon DEF Elements
  <2> QED  BY <1>1, <1>2, <2>2, <2>2a, <2>3, <2>4, Zenon DEF LogInv, cache
<1> QED  BY <1>3, <1>4, Zenon DEF LogErrors

\* The other steps leave the log alone.
LEMMA LogStep ==
  ASSUME LogInv, [GeneratorNext]_vars
  PROVE  LogInv'
<1>1. row_mapping' = row_mapping
  BY ConfigKept, Zenon DEF config
<1>2. CASE /\ UNCHANGED <<addresses_per_row, err_summary, history>> /\ errors' \subseteq Nat
  <2>1. \A k \in DOMAIN err_summary : EntryExact(err_summary[k], history[k])'
    BY <1>1, <1>2, ExactKept, Zenon DEF LogInv
  <2> QED  BY <1>1, <1>2, <2>1, Zenon DEF LogInv
<1>3. CASE UNCHANGED logVars
  BY <1>2, <1>3, Zenon DEF logVars, LogInv
<1>4. CASE ExecuteAndTest
  BY <1>2, <1>4, ErrorsAreNumbers, Zenon DEF ExecuteAndTest
<1>5. CASE ProcessErrors
  BY <1>1, <1>3, <1>5, LogErrorsStep, Zenon DEF ProcessErrors
<1>6. CASE UNCHANGED vars
  BY <1>3, <1>6, Zenon DEF vars
<1> QED  BY <1>3, <1>4, <1>5, <1>6, Zenon DEF GeneratorNext, Next, Fill, GetPayload, PayloadGiven, Summarize

\* The log is empty at first.
LEMMA LogInit ==
  ASSUME Init
  PROVE  LogInv
<1>1. PICK c \in Configurations : row_mapping = c.row_mapping
  BY Zenon DEF Init
<1>2. row_mapping \in {"Trivial", "TypeA", "TypeB"}
  BY <1>1, ConfigAssumption
<1>3. errors = {} /\ err_summary = <<>> /\ history = <<>> /\ addresses_per_row = [r \in {} |-> 0]
  BY Zenon DEF Init
<1>4. /\ DOMAIN addresses_per_row = {} /\ DOMAIN err_summary = {}
      /\ err_summary \in Seq(Elements(err_summary)) /\ history \in Seq(Elements(history))
      /\ Len(err_summary) = Len(history)
  BY <1>3
<1> QED  BY <1>2, <1>3, <1>4, Zenon DEF LogInv

\* update_log of idle.py, process_errors of logged_row_list.py: for every geometry and any errors, the log
\* lists the errors of each iteration at their row and column, whatever base address was cached before.
THEOREM LogIsExact == GeneratorSpec => []LogExact
<1>1. Init => LogInv
  BY LogInit, Zenon
<1>2. LogInv /\ [GeneratorNext]_vars => LogInv'
  BY LogStep, Zenon
<1>3. LogInv => LogExact
  BY EntryByEntry, Zenon DEF LogInv
<1> QED  BY <1>1, <1>2, <1>3, PTL DEF GeneratorSpec
=============================================================================
