-------------------------- MODULE EtherboneProofs ----------------------------
(***************************************************************************)
(* Proofs about the Etherbone server and the scripts that fill and check   *)
(* memory through it, for any number of scripts, words and transfers, any  *)
(* losses and any strays that write outside the ranges of the scripts.     *)
(***************************************************************************)
EXTENDS Etherbone, TLAPS

\* Each script has a range of its own.
RangesDisjoint == \A c, e \in Clients : c # e => RangeOf(c) \cap RangeOf(e) = {}

\* The strays are not from the scripts and do not write into their ranges.
StraysHarmless ==
  /\ Other \notin Clients
  /\ \A d \in Strays :
       /\ d.src = Other
       /\ Accepted(d, TRUE) /\ ~d.pf =>
            \A c \in Clients : {d.base + 4 * k : k \in 0 .. d.wcount - 1} \cap RangeOf(c) = {}

Indices == 0 .. NumWords - 1
Steps == {"fill", "check", "wait", "done", "failed"}
AllAddresses == UNION {RangeOf(c) : c \in Clients}
Requests ==
  Strays \cup {WritePacket(c, i) : c \in Clients, i \in Indices}
         \cup {ReadPacket(c, i) : c \in Clients, i \in Indices}

Types ==
  /\ mem \in [AllAddresses -> Int] /\ inbox \in Seq(Requests)
  /\ answers \in [Clients -> Seq(UNION {[1 .. n -> Int] : n \in Nat})]
  /\ pc \in [Clients -> Steps] /\ index \in [Clients -> Indices]
  /\ errors \in [Clients -> SUBSET Indices] /\ dropped \in [Clients -> SUBSET (Indices \cup {ReadLost})]

\* The words script c has sent, and those that wait in the socket of the server.
Sent(c) == IF pc[c] = "fill" THEN 0 .. index[c] - 1 ELSE Indices

WritesWord(d, c, w) == d.src = c /\ \E i \in Indices : d = WritePacket(c, i) /\ w \in Chunk(i)
Pending(c) == {w \in Indices : \E k \in 1 .. Len(inbox) : WritesWord(inbox[k], c, w)}

OnePacket(c) ==
  \A j, k \in 1 .. Len(inbox) : \A w \in Indices :
    WritesWord(inbox[j], c, w) /\ WritesWord(inbox[k], c, w) => j = k

\* A word that was sent is in one place: lost, in the socket or in memory.
WriteInv(c) ==
  /\ dropped[c] \subseteq Sent(c) \cup {ReadLost}
  /\ Pending(c) \subseteq Sent(c) \ dropped[c]
  /\ OnePacket(c)
  /\ \A w \in Indices :
       mem[Base[c] + 4 * w] =
         IF w \in Sent(c) /\ w \notin dropped[c] /\ w \notin Pending(c) THEN RefData[c][w] ELSE Old

NothingSent(c) == \A k \in 1 .. Len(inbox) : inbox[k].src # c
IsRead(d, c) == d.src = c /\ d.wcount = 0
ReadInSocket(c) == \E k \in 1 .. Len(inbox) : IsRead(inbox[k], c)

\* A read is the last packet of its script in the socket.
ReadsLast(c) ==
  \A k \in 1 .. Len(inbox) :
    IsRead(inbox[k], c) =>
      /\ inbox[k] = ReadPacket(c, index[c])
      /\ \A j \in 1 .. Len(inbox) : inbox[j].src = c => j <= k

\* A script has one read under way, behind its writes, and it is in one place: lost,
\* in the socket of the server or answered.
ReadInv(c) ==
  /\ ReadsLast(c)
  /\ ReadInSocket(c) =>
       pc[c] \in {"wait", "failed"} /\ answers[c] = <<>> /\ ReadLost \notin dropped[c]
  /\ answers[c] # <<>> =>
       /\ pc[c] \in {"wait", "failed"} /\ Len(answers[c]) = 1 /\ ReadLost \notin dropped[c] /\ NothingSent(c)
       /\ \A i \in Chunk(index[c]) :
            answers[c][1][i - index[c] + 1] # RefData[c][i] <=> i \in dropped[c]
  /\ ReadLost \in dropped[c] => pc[c] \in {"wait", "failed"}

\* What has been compared does not change any more.
ErrorInv(c) ==
  /\ pc[c] = "fill" => errors[c] = {}
  /\ pc[c] \in {"check", "wait"} =>
       errors[c] = dropped[c] \cap (0 .. index[c] - 1) /\ (index[c] > 0 => Pending(c) = {})
  /\ pc[c] = "done" => errors[c] = dropped[c] /\ NothingSent(c)

EtherboneInv == Types /\ \A c \in Clients : WriteInv(c) /\ ReadInv(c) /\ ErrorInv(c)
-----------------------------------------------------------------------------
\* A transfer has at least one word and its length fits the counts of the packet.
LEMMA ChunkSize ==
  ASSUME NEW i \in Indices
  PROVE  /\ i \in Nat /\ Size(i) \in Nat /\ Size(i) > 0
         /\ Size(i) \in 1 .. Burst /\ Size(i) % CountMod = Size(i)
         /\ Chunk(i) = i .. i + Size(i) - 1 /\ i + Size(i) <= NumWords
         /\ Chunk(i) \subseteq Indices
         /\ i + Burst < NumWords => Size(i) = Burst
         /\ ~(i + Burst < NumWords) => i + Size(i) = NumWords
<1>1. /\ i \in Nat /\ i < NumWords /\ NumWords \in Nat /\ Burst \in Nat /\ Burst >= 1
      /\ CountMod \in Nat /\ Burst < CountMod
  BY EtherboneAssumption DEF Indices
<1>2. /\ i + Burst < NumWords => Size(i) = Burst
      /\ ~(i + Burst < NumWords) => Size(i) = NumWords - i
  BY DEF Size
<1>3. Size(i) \in 1 .. Burst /\ Size(i) \in Nat /\ Size(i) > 0 /\ i + Size(i) <= NumWords
  BY <1>1, <1>2
<1>4. Size(i) % CountMod = Size(i)
  <2> DEFINE n == Size(i)
  <2>1. n \in Nat /\ n < CountMod
    BY <1>1, <1>3
  <2> HIDE DEF n
  <2>2. n % CountMod = n
    BY <2>1, <1>1
  <2> QED  BY <2>2 DEF n
<1>5. Chunk(i) = i .. i + Size(i) - 1
  BY DEF Chunk
<1>6. Chunk(i) \subseteq Indices
  BY <1>1, <1>3, <1>5 DEF Indices
<1>7. ~(i + Burst < NumWords) => i + Size(i) = NumWords
  BY <1>1, <1>2
<1> QED
  BY <1>1, <1>2, <1>3, <1>4, <1>5, <1>6, <1>7

\* What the server makes of a packet of memwrite.
LEMMA WriteFacts ==
  ASSUME NEW c \in Clients, NEW i \in Indices
  PROVE  LET d == WritePacket(c, i)
         IN  /\ d.src = c /\ ~d.pf /\ d.wcount = Size(i) /\ d.rcount = 0
             /\ d.base = Base[c] + 4 * i
             /\ \A k \in 1 .. Size(i) : d.record[k] = RefData[c][i + k - 1]
             /\ \A allocated \in BOOLEAN : Accepted(d, allocated) <=> allocated
             /\ ResponseLen(d) = 0
<1> DEFINE words == [k \in 1 .. Size(i) |-> RefData[c][i + k - 1]]
           d == WritePacket(c, i)
<1>1. Size(i) \in Nat /\ Size(i) >= 1 /\ Size(i) % CountMod = Size(i)
  BY ChunkSize, EtherboneAssumption
<1>2. CountMod \in Nat /\ CountMod > 0
  BY EtherboneAssumption
<1>3. 0 % CountMod = 0
  BY <1>2
<1>4. Len(words) = Size(i)
  BY <1>1
<1>5. d = [src |-> c, magic |-> TRUE, header |-> TRUE, pf |-> FALSE,
           available |-> 16 + 4 * Len(words), wcount |-> Size(i) % CountMod, rcount |-> 0 % CountMod,
           base |-> Base[c] + 4 * i, record |-> words]
  BY DEF WritePacket, Packet
<1>6. \A k \in 1 .. Size(i) : words[k] = RefData[c][i + k - 1]
  OBVIOUS
<1> HIDE DEF words, d
<1>7. /\ d.src = c /\ d.pf = FALSE /\ d.wcount = Size(i) /\ d.rcount = 0 /\ d.magic = TRUE /\ d.header = TRUE
      /\ d.base = Base[c] + 4 * i /\ d.record = words /\ d.available = 16 + 4 * Size(i)
  BY <1>1, <1>3, <1>4, <1>5
<1>8. PacketLen(d) = 16 + 4 * Size(i)
  BY <1>1, <1>7 DEF PacketLen
<1>9. ASSUME NEW allocated \in BOOLEAN PROVE Accepted(d, allocated) <=> allocated
  BY <1>1, <1>7, <1>8 DEF Accepted
<1>10. ResponseLen(d) = 0
  BY <1>7 DEF ResponseLen
<1> QED
  BY <1>6, <1>7, <1>9, <1>10 DEF d

\* What the server makes of a packet of memread.
LEMMA ReadFacts ==
  ASSUME NEW c \in Clients, NEW i \in Indices
  PROVE  LET d == ReadPacket(c, i)
         IN  /\ d.src = c /\ ~d.pf /\ d.wcount = 0 /\ d.rcount = Size(i)
             /\ \A k \in 1 .. Size(i) : d.record[k] = Base[c] + 4 * (i + k - 1)
             /\ \A allocated \in BOOLEAN : Accepted(d, allocated) <=> allocated
             /\ ResponseLen(d) > 0
<1> DEFINE words == [k \in 1 .. Size(i) |-> Base[c] + 4 * (i + k - 1)]
           d == ReadPacket(c, i)
<1>1. Size(i) \in Nat /\ Size(i) >= 1 /\ Size(i) % CountMod = Size(i)
  BY ChunkSize, EtherboneAssumption
<1>2. CountMod \in Nat /\ CountMod > 0
  BY EtherboneAssumption
<1>3. 0 % CountMod = 0
  BY <1>2
<1>4. Len(words) = Size(i)
  BY <1>1
<1>5. d = [src |-> c, magic |-> TRUE, header |-> TRUE, pf |-> FALSE,
           available |-> 16 + 4 * Len(words), wcount |-> 0 % CountMod, rcount |-> Size(i) % CountMod,
           base |-> 0, record |-> words]
  BY DEF ReadPacket, Packet
<1>6. \A k \in 1 .. Size(i) : words[k] = Base[c] + 4 * (i + k - 1)
  OBVIOUS
<1> HIDE DEF words, d
<1>7. /\ d.src = c /\ d.pf = FALSE /\ d.wcount = 0 /\ d.rcount = Size(i) /\ d.magic = TRUE /\ d.header = TRUE
      /\ d.record = words /\ d.available = 16 + 4 * Size(i)
  BY <1>1, <1>3, <1>4, <1>5
<1>8. PacketLen(d) = 16 + 4 * Size(i)
  BY <1>1, <1>7 DEF PacketLen
<1>9. ASSUME NEW allocated \in BOOLEAN PROVE Accepted(d, allocated) <=> allocated
  BY <1>1, <1>7, <1>8 DEF Accepted
<1>10. ResponseLen(d) > 0
  BY <1>1, <1>7 DEF ResponseLen
<1> QED
  BY <1>6, <1>7, <1>9, <1>10 DEF d
-----------------------------------------------------------------------------
\* Word addresses to word numbers.
LEMMA Quotient ==
  ASSUME NEW n \in Nat
  PROVE  (4 * n) \div 4 = n
OBVIOUS

\* The words of a script have an address each, and it is mapped.
LEMMA Addresses ==
  ASSUME NEW c \in Clients, NEW w \in Indices
  PROVE  /\ Base[c] \in Nat /\ Base[c] + 4 * w \in RangeOf(c) /\ Base[c] + 4 * w \in AllAddresses
         /\ RefData[c][w] \in Nat /\ RefData[c][w] # Old
<1>1. Base[c] \in Nat
  BY EtherboneAssumption
<1>2. Base[c] + 4 * w \in RangeOf(c)
  BY DEF RangeOf, Indices
<1>3. Base[c] + 4 * w \in AllAddresses
  BY <1>2 DEF AllAddresses
<1>4. RefData[c][w] \in Nat /\ RefData[c][w] # Old
  BY EtherboneAssumption DEF Indices, Old
<1> QED  BY <1>1, <1>2, <1>3, <1>4

\* A sequence that gets its first element.
LEMMA OneAppended ==
  ASSUME NEW x
  PROVE  Len(Append(<<>>, x)) = 1 /\ Append(<<>>, x)[1] = x
OBVIOUS

\* A packet of memwrite writes the words of its transfer and nothing else.
LEMMA WrittenByScript ==
  ASSUME RangesDisjoint, mem \in [AllAddresses -> Int], NEW c \in Clients, NEW i \in Indices
  PROVE  LET m == Written(WritePacket(c, i))
         IN  /\ m \in [AllAddresses -> Int]
             /\ \A w \in Chunk(i) : m[Base[c] + 4 * w] = RefData[c][w]
             /\ \A w \in Indices \ Chunk(i) : m[Base[c] + 4 * w] = mem[Base[c] + 4 * w]
             /\ \A e \in Clients \ {c} : \A w \in Indices : m[Base[e] + 4 * w] = mem[Base[e] + 4 * w]
<1> DEFINE d == WritePacket(c, i)
           m == Written(d)
           target == {d.base + 4 * k : k \in 0 .. d.wcount - 1}
<1>1. /\ d.wcount = Size(i) /\ d.base = Base[c] + 4 * i
      /\ \A k \in 1 .. Size(i) : d.record[k] = RefData[c][i + k - 1]
  BY WriteFacts
<1>0. Base[c] \in Nat
  BY EtherboneAssumption
<1>2. /\ i \in Nat /\ Size(i) \in Nat /\ Chunk(i) = i .. i + Size(i) - 1 /\ Chunk(i) \subseteq Indices
      /\ Base[c] \in Nat
  BY <1>0, ChunkSize
<1>3. m = [a \in AllAddresses |->
             IF a \in target THEN d.record[(a - d.base) \div 4 + 1] ELSE mem[a]]
  BY DEF Written
<1> HIDE DEF d, m
<1>4. \A w \in Indices : Base[c] + 4 * w \in target <=> w \in Chunk(i)
  <2> TAKE w \in Indices
  <2>1. w \in Nat
    BY EtherboneAssumption DEF Indices
  <2>2. ASSUME w \in Chunk(i) PROVE Base[c] + 4 * w \in target
    <3>1. w - i \in 0 .. d.wcount - 1 /\ Base[c] + 4 * w = d.base + 4 * (w - i)
      BY <1>1, <1>2, <2>1, <2>2, SMTT(30)
    <3> QED  BY <3>1
  <2>3. ASSUME Base[c] + 4 * w \in target PROVE w \in Chunk(i)
    <3>1. PICK k \in 0 .. d.wcount - 1 : Base[c] + 4 * w = d.base + 4 * k
      BY <2>3
    <3> QED  BY <1>1, <1>2, <2>1, <3>1, SMTT(30)
  <2> QED  BY <2>2, <2>3
<1>5. target \subseteq RangeOf(c)
  <2> SUFFICES ASSUME NEW k \in 0 .. d.wcount - 1 PROVE d.base + 4 * k \in RangeOf(c)
    OBVIOUS
  <2>1. d.wcount = Size(i) /\ d.base = Base[c] + 4 * i
    BY <1>1
  <2>2. k \in Nat /\ k <= Size(i) - 1
    BY <1>2, <2>1
  <2>3. i + k \in Chunk(i)
    BY <1>2, <2>2
  <2>4. d.base + 4 * k = Base[c] + 4 * (i + k)
    BY <1>2, <2>1, <2>2
  <2>5. i + k \in Indices
    BY <1>2, <2>3
  <2> QED  BY <2>4, <2>5, Addresses
<1>6. ASSUME NEW w \in Chunk(i) PROVE m[Base[c] + 4 * w] = RefData[c][w]
  <2>1. w \in Nat /\ w \in Indices /\ w - i + 1 \in 1 .. Size(i) /\ i + (w - i + 1) - 1 = w
    BY <1>2, SMTT(30)
  <2>2. ((Base[c] + 4 * w) - d.base) \div 4 + 1 = w - i + 1
    <3>1. (Base[c] + 4 * w) - d.base = 4 * (w - i) /\ w - i \in Nat
      BY <1>1, <1>2, <2>1, SMTT(30)
    <3> QED  BY <3>1, Quotient
  <2>3. d.record[w - i + 1] = RefData[c][w]
    BY <1>1, <2>1
  <2>4. Base[c] + 4 * w \in target /\ Base[c] + 4 * w \in AllAddresses
    BY <1>4, <2>1, Addresses
  <2> QED  BY <1>3, <2>2, <2>3, <2>4
<1>7. ASSUME NEW w \in Indices \ Chunk(i) PROVE m[Base[c] + 4 * w] = mem[Base[c] + 4 * w]
  BY <1>3, <1>4, Addresses
<1>8. ASSUME NEW e \in Clients \ {c}, NEW w \in Indices PROVE m[Base[e] + 4 * w] = mem[Base[e] + 4 * w]
  <2>1. Base[e] + 4 * w \in RangeOf(e) /\ Base[e] + 4 * w \in AllAddresses
    BY Addresses
  <2>2. Base[e] + 4 * w \notin target
    BY <1>5, <2>1 DEF RangesDisjoint
  <2> QED  BY <1>3, <2>1, <2>2
<1>9. m \in [AllAddresses -> Int]
  <2> SUFFICES ASSUME NEW a \in AllAddresses PROVE m[a] \in Int
    BY <1>3
  <2>1. CASE a \in target
    <3>1. PICK k \in 0 .. d.wcount - 1 : a = d.base + 4 * k
      BY <2>1
    <3>2. i + k \in Chunk(i) /\ a = Base[c] + 4 * (i + k)
      BY <1>1, <1>2, <3>1, SMTT(30)
    <3>3. m[a] = RefData[c][i + k]
      BY <1>6, <3>2
    <3>4. i + k \in Indices
      BY <1>2, <3>2, SMTT(30)
    <3>5. RefData[c][i + k] \in Nat
      BY <3>4, Addresses
    <3> QED  BY <3>3, <3>5
  <2>2. CASE a \notin target
    BY <1>3, <2>2
  <2> QED  BY <2>1, <2>2
<1> QED
  BY <1>6, <1>7, <1>8, <1>9 DEF m, d

\* A read writes nothing.
LEMMA WrittenByRead ==
  ASSUME mem \in [AllAddresses -> Int], NEW c \in Clients, NEW i \in Indices
  PROVE  Written(ReadPacket(c, i)) = mem
<1>1. ReadPacket(c, i).wcount = 0
  BY ReadFacts
<1> QED  BY <1>1 DEF Written

\* A stray that the server applies leaves the words of the scripts alone.
LEMMA WrittenByStray ==
  ASSUME StraysHarmless, mem \in [AllAddresses -> Int], NEW d \in Strays, NEW allocated \in BOOLEAN,
         Accepted(d, allocated), ~d.pf
  PROVE  Written(d) = mem
<1>1. Accepted(d, TRUE)
  BY DEF Accepted
<1>2. \A a \in AllAddresses : a \notin {d.base + 4 * k : k \in 0 .. d.wcount - 1}
  BY <1>1, ZenonT(30) DEF StraysHarmless, AllAddresses
<1>3. DOMAIN mem = AllAddresses
  OBVIOUS
<1> QED  BY <1>2, <1>3 DEF Written

\* What gets lost with the packets.
LEMMA LossFacts ==
  ASSUME StraysHarmless, NEW c \in Clients, NEW i \in Indices
  PROVE  /\ Loss(WritePacket(c, i)) = [dropped EXCEPT ![c] = @ \cup Chunk(i)]
         /\ Loss(ReadPacket(c, i)) = [dropped EXCEPT ![c] = @ \cup {ReadLost}]
         /\ \A d \in Strays : Loss(d) = dropped
<1>1. \A d \in Strays : Loss(d) = dropped
  BY Zenon DEF StraysHarmless, Loss
<1>2. c # Other
  BY DEF StraysHarmless
<1>3. Loss(ReadPacket(c, i)) = [dropped EXCEPT ![c] = @ \cup {ReadLost}]
  <2>1. ReadPacket(c, i).src = c /\ ReadPacket(c, i).wcount = 0
    BY ReadFacts
  <2> QED  BY <1>2, <2>1 DEF Loss
<1>4. Loss(WritePacket(c, i)) = [dropped EXCEPT ![c] = @ \cup Chunk(i)]
  <2> DEFINE d == WritePacket(c, i)
             lost == {(d.base - Base[c]) \div 4 + k : k \in 0 .. d.wcount - 1}
  <2>1. d.src = c /\ d.wcount = Size(i) /\ d.base = Base[c] + 4 * i
    BY WriteFacts
  <2>0. Base[c] \in Nat
    BY EtherboneAssumption
  <2>2. i \in Nat /\ Size(i) \in Nat /\ Size(i) > 0 /\ Chunk(i) = i .. i + Size(i) - 1
    BY ChunkSize
  <2> HIDE DEF d
  <2>3. (d.base - Base[c]) \div 4 = i
    <3>1. d.base - Base[c] = 4 * i
      BY <2>0, <2>1, <2>2
    <3> QED  BY <2>2, <3>1, Quotient
  <2>4. lost = Chunk(i)
    <3>1. lost = {i + k : k \in 0 .. Size(i) - 1}
      BY <2>1, <2>3
    <3>2. ASSUME NEW w \in Chunk(i) PROVE w \in {i + k : k \in 0 .. Size(i) - 1}
      <4>1. w - i \in 0 .. Size(i) - 1 /\ w = i + (w - i)
        BY <2>2
      <4> QED  BY <4>1
    <3>3. \A k \in 0 .. Size(i) - 1 : i + k \in Chunk(i)
      BY <2>2
    <3> QED  BY <3>1, <3>2, <3>3
  <2>5. Loss(d) = [dropped EXCEPT ![c] = @ \cup lost]
    BY <1>2, <2>1, <2>2 DEF Loss
  <2> QED  BY <2>4, <2>5, Zenon DEF d
<1> QED  BY <1>1, <1>3, <1>4
-----------------------------------------------------------------------------
\* Only the packets of memwrite write words of a script, and only of their own.
LEMMA WhoWrites ==
  ASSUME StraysHarmless, NEW c \in Clients, NEW i \in Indices, NEW e \in Clients, NEW w \in Indices
  PROVE  /\ WritesWord(WritePacket(c, i), e, w) <=> e = c /\ w \in Chunk(i)
         /\ ~WritesWord(ReadPacket(c, i), e, w)
         /\ \A d \in Strays : ~WritesWord(d, e, w)
<1>1. ~WritesWord(ReadPacket(c, i), e, w)
  <2> SUFFICES ASSUME NEW j \in Indices, ReadPacket(c, i) = WritePacket(e, j) PROVE FALSE
    BY DEF WritesWord
  <2>1. WritePacket(e, j).wcount = Size(j) /\ Size(j) > 0
    BY WriteFacts, ChunkSize, ZenonT(30)
  <2>2. ReadPacket(c, i).wcount = 0
    BY ReadFacts
  <2> QED  BY <2>1, <2>2
<1>2. ASSUME NEW d \in Strays PROVE ~WritesWord(d, e, w)
  BY Zenon DEF StraysHarmless, WritesWord
<1>3. ASSUME e = c, w \in Chunk(i) PROVE WritesWord(WritePacket(c, i), e, w)
  <2>1. WritePacket(c, i).src = c
    BY WriteFacts
  <2> QED  BY <1>3, <2>1 DEF WritesWord
<1>4. ASSUME WritesWord(WritePacket(c, i), e, w) PROVE e = c /\ w \in Chunk(i)
  <2>1. PICK j \in Indices : WritePacket(c, i) = WritePacket(e, j) /\ w \in Chunk(j)
    BY <1>4 DEF WritesWord
  <2>2. WritePacket(c, i).src = c /\ WritePacket(e, j).src = e
    BY WriteFacts
  <2>3. e = c
    BY <2>1, <2>2
  <2>4. WritePacket(c, i).base = Base[c] + 4 * i
    BY WriteFacts
  <2>5. WritePacket(c, j).base = Base[c] + 4 * j
    BY WriteFacts
  <2>6. Base[c] + 4 * i = Base[c] + 4 * j
    BY <2>1, <2>3, <2>4, <2>5
  <2>7. Base[c] \in Nat /\ i \in Nat /\ j \in Nat
    BY EtherboneAssumption, ChunkSize
  <2>8. i = j
    BY <2>6, <2>7
  <2> QED  BY <2>1, <2>3, <2>8
<1> QED  BY <1>1, <1>2, <1>3, <1>4

\* A datagram arrives.
LEMMA Arrives ==
  ASSUME inbox \in Seq(Requests), NEW d \in Requests, inbox' = Append(inbox, d)
  PROVE  /\ inbox' \in Seq(Requests) /\ Len(inbox) \in Nat /\ Len(inbox') = Len(inbox) + 1
         /\ \A k \in 1 .. Len(inbox) : inbox'[k] = inbox[k]
         /\ inbox'[Len(inbox) + 1] = d
OBVIOUS

\* A datagram is taken.
LEMMA Taken ==
  ASSUME inbox \in Seq(Requests), inbox # <<>>, inbox' = Tail(inbox)
  PROVE  /\ inbox' \in Seq(Requests) /\ Len(inbox) \in Nat /\ Len(inbox) > 0
         /\ Len(inbox') = Len(inbox) - 1
         /\ \A k \in 1 .. Len(inbox') : k + 1 \in 1 .. Len(inbox) /\ inbox'[k] = inbox[k + 1]
         /\ Head(inbox) = inbox[1] /\ Head(inbox) \in Requests
OBVIOUS

\* The words in the socket, with one more datagram.
LEMMA PendingArrives ==
  ASSUME inbox \in Seq(Requests), NEW d \in Requests, inbox' = Append(inbox, d), NEW c \in Clients
  PROVE  /\ Pending(c)' = Pending(c) \cup {w \in Indices : WritesWord(d, c, w)}
         /\ OnePacket(c) /\ Pending(c) \cap {w \in Indices : WritesWord(d, c, w)} = {} => OnePacket(c)'
<1> USE Arrives
<1> DEFINE n == Len(inbox)
<1>1. n \in Nat /\ Len(inbox') = n + 1 /\ (\A k \in 1 .. n : inbox'[k] = inbox[k]) /\ inbox'[n + 1] = d
  OBVIOUS
<1> HIDE DEF n
<1>2. ASSUME NEW w \in Indices
      PROVE  w \in Pending(c)' <=> w \in Pending(c) \/ WritesWord(d, c, w)
  <2>1. ASSUME w \in Pending(c) PROVE w \in Pending(c)'
    BY <1>1, <2>1 DEF Pending, WritesWord, n
  <2>2. ASSUME WritesWord(d, c, w) PROVE w \in Pending(c)'
    <3>1. n + 1 \in 1 .. Len(inbox') /\ WritesWord(inbox'[n + 1], c, w)
      BY <1>1, <2>2
    <3>2. Pending(c)' = {x \in Indices : \E k \in 1 .. Len(inbox') : WritesWord(inbox'[k], c, x)}
      BY DEF Pending, WritesWord
    <3> QED  BY <3>1, <3>2
  <2>3. ASSUME w \in Pending(c)' PROVE w \in Pending(c) \/ WritesWord(d, c, w)
    <3>1. PICK k \in 1 .. Len(inbox') : WritesWord(inbox'[k], c, w)
      BY <2>3 DEF Pending, WritesWord
    <3>2. CASE k = n + 1
      BY <1>1, <3>1, <3>2
    <3>3. CASE k # n + 1
      <4>1. k \in 1 .. n /\ WritesWord(inbox[k], c, w)
        BY <1>1, <3>1, <3>3
      <4> QED  BY <4>1 DEF Pending, n
    <3> QED  BY <3>2, <3>3
  <2> QED  BY <2>1, <2>2, <2>3
<1>3. Pending(c)' = Pending(c) \cup {w \in Indices : WritesWord(d, c, w)}
  <2>1. Pending(c)' \subseteq Indices /\ Pending(c) \subseteq Indices
    BY DEF Pending
  <2> QED  BY <1>2, <2>1
<1>4. ASSUME OnePacket(c), Pending(c) \cap {w \in Indices : WritesWord(d, c, w)} = {}
      PROVE  OnePacket(c)'
  <2>1. \A k \in 1 .. n, w \in Indices : WritesWord(inbox[k], c, w) => w \in Pending(c)
    BY DEF Pending, n
  <2>2. \A j, k \in 1 .. n : \A w \in Indices :
          WritesWord(inbox[j], c, w) /\ WritesWord(inbox[k], c, w) => j = k
    BY <1>4 DEF OnePacket, n
  <2>3. \A w \in Indices : ~(w \in Pending(c) /\ WritesWord(d, c, w))
    BY <1>4
  <2>4. ASSUME NEW j \in 1 .. n + 1, NEW k \in 1 .. n + 1, NEW w \in Indices,
               WritesWord(inbox'[j], c, w), WritesWord(inbox'[k], c, w)
        PROVE  j = k
    <3>1. j = n + 1 \/ (j \in 1 .. n /\ inbox'[j] = inbox[j])
      BY <1>1
    <3>2. k = n + 1 \/ (k \in 1 .. n /\ inbox'[k] = inbox[k])
      BY <1>1
    <3> QED  BY <1>1, <2>1, <2>2, <2>3, <2>4, <3>1, <3>2, SMTT(30)
  <2>5. OnePacket(c)' <=> \A j, k \in 1 .. Len(inbox') : \A w \in Indices :
          WritesWord(inbox'[j], c, w) /\ WritesWord(inbox'[k], c, w) => j = k
    BY DEF OnePacket, WritesWord
  <2> QED  BY <1>1, <2>4, <2>5
<1> QED  BY <1>3, <1>4

\* The words in the socket, with one datagram less.
LEMMA PendingTaken ==
  ASSUME inbox \in Seq(Requests), inbox # <<>>, inbox' = Tail(inbox), NEW c \in Clients, OnePacket(c)
  PROVE  /\ Pending(c)' = Pending(c) \ {w \in Indices : WritesWord(Head(inbox), c, w)}
         /\ {w \in Indices : WritesWord(Head(inbox), c, w)} \subseteq Pending(c)
         /\ OnePacket(c)'
<1> DEFINE n == Len(inbox)
<1>1. /\ n \in Nat /\ n > 0 /\ Len(inbox') = n - 1 /\ Head(inbox) = inbox[1]
      /\ \A k \in 1 .. n - 1 : k + 1 \in 1 .. n /\ inbox'[k] = inbox[k + 1]
  BY Taken
<1>2. OnePacket(c)' <=> \A j, k \in 1 .. Len(inbox') : \A w \in Indices :
        WritesWord(inbox'[j], c, w) /\ WritesWord(inbox'[k], c, w) => j = k
  BY DEF OnePacket, WritesWord
<1>3. Pending(c)' = {w \in Indices : \E k \in 1 .. Len(inbox') : WritesWord(inbox'[k], c, w)}
  BY DEF Pending, WritesWord
<1>4. \A j, k \in 1 .. n : \A w \in Indices :
        WritesWord(inbox[j], c, w) /\ WritesWord(inbox[k], c, w) => j = k
  BY DEF OnePacket
<1>5. Pending(c) = {w \in Indices : \E k \in 1 .. n : WritesWord(inbox[k], c, w)}
  BY DEF Pending
<1> HIDE DEF n
<1>6. OnePacket(c)'
  <2> SUFFICES ASSUME NEW j \in 1 .. n - 1, NEW k \in 1 .. n - 1, NEW w \in Indices,
                      WritesWord(inbox'[j], c, w), WritesWord(inbox'[k], c, w)
               PROVE  j = k
    BY <1>1, <1>2
  <2>1. j + 1 = k + 1
    BY <1>1, <1>4
  <2> QED  BY <1>1, <2>1
<1>7. {w \in Indices : WritesWord(Head(inbox), c, w)} \subseteq Pending(c)
  <2>1. 1 \in 1 .. n
    BY <1>1
  <2> QED  BY <1>1, <1>5, <2>1
<1>8. ASSUME NEW w \in Pending(c)' PROVE w \in Pending(c) /\ ~WritesWord(Head(inbox), c, w)
  <2>1. PICK k \in 1 .. n - 1 : WritesWord(inbox'[k], c, w)
    BY <1>1, <1>3, <1>8
  <2>2. k + 1 \in 1 .. n /\ WritesWord(inbox[k + 1], c, w) /\ w \in Indices /\ 1 \in 1 .. n /\ k + 1 # 1
    BY <1>1, <1>3, <2>1
  <2> QED  BY <1>1, <1>4, <1>5, <2>2
<1>9. ASSUME NEW w \in Pending(c), ~WritesWord(Head(inbox), c, w) PROVE w \in Pending(c)'
  <2>1. PICK k \in 1 .. n : WritesWord(inbox[k], c, w)
    BY <1>5, <1>9
  <2>2. k # 1
    BY <1>1, <1>9, <2>1
  <2>3. k - 1 \in 1 .. n - 1 /\ (k - 1) + 1 = k
    BY <1>1, <2>2
  <2>4. WritesWord(inbox'[k - 1], c, w)
    BY <1>1, <2>1, <2>3
  <2>5. w \in Indices
    BY <1>5, <1>9
  <2> QED  BY <1>1, <1>3, <2>3, <2>4, <2>5, Zenon
<1> QED
  <2>1. Pending(c)' \subseteq Indices /\ Pending(c) \subseteq Indices
    BY <1>3, <1>5
  <2> QED  BY <1>6, <1>7, <1>8, <1>9, <2>1

\* The order of the packets of a script, with one datagram less.
LEMMA OrderTaken ==
  ASSUME inbox \in Seq(Requests), inbox # <<>>, inbox' = Tail(inbox), NEW c \in Clients,
         ReadsLast(c), index'[c] = index[c]
  PROVE  /\ ReadsLast(c)' /\ (ReadInSocket(c)' => ReadInSocket(c)) /\ (NothingSent(c) => NothingSent(c)')
         /\ IsRead(Head(inbox), c) => NothingSent(c)'
<1> DEFINE n == Len(inbox)
<1>1. /\ n \in Nat /\ n > 0 /\ Len(inbox') = n - 1 /\ Head(inbox) = inbox[1]
      /\ \A k \in 1 .. n - 1 : k + 1 \in 1 .. n /\ inbox'[k] = inbox[k + 1]
  BY Taken
<1>2. \A k \in 1 .. n : IsRead(inbox[k], c) =>
        inbox[k] = ReadPacket(c, index[c]) /\ \A j \in 1 .. n : inbox[j].src = c => j <= k
  BY DEF ReadsLast
<1> HIDE DEF n
<1>3. ReadsLast(c)'
  <2>1. ASSUME NEW k \in 1 .. n - 1, IsRead(inbox'[k], c)
        PROVE  /\ inbox'[k] = ReadPacket(c, index'[c])
               /\ \A j \in 1 .. n - 1 : inbox'[j].src = c => j <= k
    <3>1. k + 1 \in 1 .. n /\ IsRead(inbox[k + 1], c) /\ inbox'[k] = inbox[k + 1]
      BY <1>1, <2>1
    <3>2. inbox'[k] = ReadPacket(c, index'[c])
      BY <1>2, <3>1, Zenon
    <3>3. ASSUME NEW j \in 1 .. n - 1, inbox'[j].src = c PROVE j <= k
      <4>1. j + 1 <= k + 1
        BY <1>1, <1>2, <3>1, <3>3, Zenon
      <4> QED  BY <4>1
    <3> QED  BY <3>2, <3>3, Zenon
  <2>2. ReadsLast(c)' <=> \A k \in 1 .. Len(inbox') : IsRead(inbox'[k], c) =>
          inbox'[k] = ReadPacket(c, index'[c]) /\ \A j \in 1 .. Len(inbox') : inbox'[j].src = c => j <= k
    BY SMTT(30) DEF ReadsLast, IsRead, ReadPacket, Packet
  <2> QED  BY <1>1, <2>1, <2>2
<1>4. ReadInSocket(c)' => ReadInSocket(c)
  <2>1. ReadInSocket(c)' => \E k \in 1 .. n - 1 : IsRead(inbox'[k], c)
    BY <1>1 DEF ReadInSocket, IsRead
  <2>2. (\E k \in 1 .. n : IsRead(inbox[k], c)) => ReadInSocket(c)
    BY DEF ReadInSocket, n
  <2> QED  BY <1>1, <2>1, <2>2
<1>5. NothingSent(c)' <=> \A k \in 1 .. n - 1 : inbox'[k].src # c
  BY <1>1, Zenon DEF NothingSent
<1>6. NothingSent(c) => NothingSent(c)'
  BY <1>1, <1>5 DEF NothingSent, n
<1>7. IsRead(Head(inbox), c) => NothingSent(c)'
  <2> SUFFICES ASSUME IsRead(inbox[1], c), NEW k \in 1 .. n - 1, inbox'[k].src = c PROVE FALSE
    BY <1>1, <1>5
  <2>1. 1 \in 1 .. n /\ k + 1 \in 1 .. n /\ inbox[k + 1].src = c
    BY <1>1
  <2>2. k + 1 <= 1
    BY <1>2, <2>1
  <2> QED  BY <2>2
<1> QED  BY <1>3, <1>4, <1>6, <1>7

\* The order of the packets of a script when a datagram of another sender arrives, or one
\* of its own behind its writes.
LEMMA OrderArrives ==
  ASSUME inbox \in Seq(Requests), NEW d \in Requests, inbox' = Append(inbox, d), NEW c \in Clients,
         ReadsLast(c), index'[c] = index[c] \/ ~ReadInSocket(c),
         d.src # c \/ ~ReadInSocket(c), IsRead(d, c) => d = ReadPacket(c, index'[c])
  PROVE  /\ ReadsLast(c)' /\ (ReadInSocket(c)' => ReadInSocket(c) \/ IsRead(d, c))
         /\ d.src # c => (NothingSent(c) => NothingSent(c)')
<1> DEFINE n == Len(inbox)
<1>1. n \in Nat /\ Len(inbox') = n + 1 /\ (\A k \in 1 .. n : inbox'[k] = inbox[k]) /\ inbox'[n + 1] = d
  BY Arrives
<1>2. \A k \in 1 .. n : IsRead(inbox[k], c) =>
        inbox[k] = ReadPacket(c, index[c]) /\ \A j \in 1 .. n : inbox[j].src = c => j <= k
  BY DEF ReadsLast
<1>3. (\E k \in 1 .. n : IsRead(inbox[k], c)) => ReadInSocket(c)
  BY SMTT(30) DEF ReadInSocket
<1> HIDE DEF n
<1>4. ReadsLast(c)'
  <2>1. ASSUME NEW k \in 1 .. n + 1, IsRead(inbox'[k], c)
        PROVE  /\ inbox'[k] = ReadPacket(c, index'[c])
               /\ \A j \in 1 .. n + 1 : inbox'[j].src = c => j <= k
    <3>1. CASE k = n + 1
      BY <1>1, <2>1, <3>1
    <3>2. CASE k \in 1 .. n
      <4>1. IsRead(inbox[k], c) /\ ReadInSocket(c) /\ d.src # c /\ index'[c] = index[c] /\ inbox'[k] = inbox[k]
        BY <1>1, <1>3, <2>1, <3>2
      <4>2. inbox'[k] = ReadPacket(c, index'[c]) /\ \A j \in 1 .. n : inbox[j].src = c => j <= k
        BY <1>2, <3>2, <4>1
      <4>3. ASSUME NEW j \in 1 .. n + 1, inbox'[j].src = c PROVE j <= k
        <5>1. j # n + 1
          BY <1>1, <4>1, <4>3
        <5>2. j \in 1 .. n /\ inbox[j].src = c
          BY <1>1, <4>3, <5>1, SMTT(30)
        <5> QED  BY <4>2, <5>2
      <4> QED  BY <4>2, <4>3, Zenon
    <3> QED  BY <1>1, <3>1, <3>2, SMTT(30)
  <2>2. ReadsLast(c)' <=> \A k \in 1 .. Len(inbox') : IsRead(inbox'[k], c) =>
          inbox'[k] = ReadPacket(c, index'[c]) /\ \A j \in 1 .. Len(inbox') : inbox'[j].src = c => j <= k
    BY DEF ReadsLast, IsRead, ReadPacket, Packet
  <2> QED  BY <1>1, <2>1, <2>2, SMTT(30)
<1>5. ReadInSocket(c)' => ReadInSocket(c) \/ IsRead(d, c)
  <2>1. ReadInSocket(c)' => \E k \in 1 .. n + 1 : IsRead(inbox'[k], c)
    BY <1>1 DEF ReadInSocket, IsRead
  <2>2. \A k \in 1 .. n + 1 : k = n + 1 \/ k \in 1 .. n
    BY <1>1
  <2> QED  BY <1>1, <1>3, <2>1, <2>2
<1>6. d.src # c => (NothingSent(c) => NothingSent(c)')
  <2>1. NothingSent(c)' <=> \A k \in 1 .. n + 1 : inbox'[k].src # c
    BY <1>1 DEF NothingSent
  <2>2. NothingSent(c) <=> \A k \in 1 .. n : inbox[k].src # c
    BY DEF NothingSent, n
  <2>3. \A k \in 1 .. n + 1 : k = n + 1 \/ k \in 1 .. n
    BY <1>1
  <2> QED  BY <1>1, <2>1, <2>2, <2>3
<1> QED  BY <1>4, <1>5, <1>6

\* A script with no packet in the socket has no word there either.
LEMMA NothingPending ==
  ASSUME NEW c \in Clients, NothingSent(c)
  PROVE  Pending(c) = {}
BY DEF NothingSent, Pending, WritesWord
-----------------------------------------------------------------------------
ClientInv(c) == WriteInv(c) /\ ReadInv(c) /\ ErrorInv(c)

SameScript(c) ==
  /\ pc'[c] = pc[c] /\ index'[c] = index[c] /\ errors'[c] = errors[c]
  /\ answers'[c] = answers[c] /\ dropped'[c] = dropped[c]
  /\ \A w \in Indices : mem'[Base[c] + 4 * w] = mem[Base[c] + 4 * w]

\* A script that a step leaves alone keeps its invariant.
LEMMA Unmoved ==
  ASSUME NEW c \in Clients, ClientInv(c), SameScript(c),
         Pending(c)' = Pending(c), OnePacket(c)', ReadsLast(c)',
         ReadInSocket(c)' => ReadInSocket(c), NothingSent(c) => NothingSent(c)'
  PROVE  ClientInv(c)'
<1>1. Sent(c)' = Sent(c)
  BY ZenonT(30) DEF Sent, SameScript
<1>2. WriteInv(c)'
  BY <1>1 DEF ClientInv, WriteInv, SameScript
<1>3. ReadInv(c)'
  BY Zenon DEF ClientInv, ReadInv, SameScript, Chunk, Size
<1>4. ErrorInv(c)'
  BY ZenonT(30) DEF ClientInv, ErrorInv, SameScript
<1> QED  BY <1>2, <1>3, <1>4, SMTT(30) DEF ClientInv

\* The three ways the socket of the server changes, seen by the script of no packet.
LEMMA UnmovedSame ==
  ASSUME NEW c \in Clients, ClientInv(c), SameScript(c), inbox' = inbox
  PROVE  ClientInv(c)'
<1>1. Pending(c)' = Pending(c)
  BY SMTT(30) DEF Pending, WritesWord
<1>2. OnePacket(c)'
  BY DEF ClientInv, WriteInv, OnePacket, WritesWord
<1>3. ReadsLast(c)'
  BY ZenonT(30) DEF ClientInv, ReadInv, ReadsLast, IsRead, ReadPacket, Packet, SameScript
<1>4. (ReadInSocket(c)' => ReadInSocket(c)) /\ (NothingSent(c) => NothingSent(c)')
  BY DEF ReadInSocket, NothingSent, IsRead
<1> QED  BY <1>1, <1>2, <1>3, <1>4, Unmoved

\* A packet of another sender arrives.
LEMMA UnmovedArrives ==
  ASSUME NEW c \in Clients, ClientInv(c), SameScript(c), inbox \in Seq(Requests),
         NEW d \in Requests, inbox' = Append(inbox, d), d.src # c
  PROVE  ClientInv(c)'
<1>1. {w \in Indices : WritesWord(d, c, w)} = {} /\ ~IsRead(d, c)
  BY DEF WritesWord, IsRead
<1>2. OnePacket(c) /\ ReadsLast(c) /\ index'[c] = index[c]
  BY Zenon DEF ClientInv, WriteInv, ReadInv, SameScript
<1>3. Pending(c)' = Pending(c) /\ OnePacket(c)'
  BY <1>1, <1>2, PendingArrives, Zenon
<1>4. ReadsLast(c)' /\ (ReadInSocket(c)' => ReadInSocket(c)) /\ (NothingSent(c) => NothingSent(c)')
  BY <1>1, <1>2, OrderArrives, ZenonT(30)
<1> QED  BY <1>3, <1>4, Unmoved

\* The server takes a packet of another sender.
LEMMA UnmovedTaken ==
  ASSUME NEW c \in Clients, ClientInv(c), SameScript(c), inbox \in Seq(Requests),
         inbox # <<>>, inbox' = Tail(inbox), Head(inbox).src # c
  PROVE  ClientInv(c)'
<1>1. {w \in Indices : WritesWord(Head(inbox), c, w)} = {}
  BY SMTT(30) DEF WritesWord
<1>2. OnePacket(c) /\ ReadsLast(c) /\ index'[c] = index[c]
  BY DEF ClientInv, WriteInv, ReadInv, SameScript
<1>3. Pending(c)' = Pending(c) /\ OnePacket(c)'
  BY <1>1, <1>2, PendingTaken, Zenon
<1>4. ReadsLast(c)' /\ (ReadInSocket(c)' => ReadInSocket(c)) /\ (NothingSent(c) => NothingSent(c)')
  BY <1>2, OrderTaken
<1> QED  BY <1>3, <1>4, Unmoved, SMTT(30)
-----------------------------------------------------------------------------
\* Nothing is sent, lost or compared at first.
LEMMA InitStep == Init => EtherboneInv
<1> SUFFICES ASSUME Init PROVE EtherboneInv
  OBVIOUS
<1> USE EtherboneAssumption DEF Init
<1>1. Types
  <2>1. mem \in [AllAddresses -> Int]
    BY DEF AllAddresses, Old
  <2>2. index \in [Clients -> Indices]
    BY DEF Indices
  <2> QED  BY <2>1, <2>2 DEF Types, Steps
<1>2. ASSUME NEW c \in Clients PROVE ClientInv(c)
  <2>1. pc[c] = "fill" /\ index[c] = 0 /\ errors[c] = {} /\ dropped[c] = {} /\ answers[c] = <<>> /\ Len(inbox) = 0
    OBVIOUS
  <2>2. Sent(c) = {} /\ Pending(c) = {} /\ OnePacket(c) /\ ReadsLast(c) /\ ~ReadInSocket(c)
    BY <2>1, SMTT(30) DEF Sent, Pending, OnePacket, ReadsLast, ReadInSocket
  <2>3. \A w \in Indices : mem[Base[c] + 4 * w] = Old
    BY Addresses DEF AllAddresses
  <2> QED
    BY <2>1, <2>2, <2>3, Zenon DEF ClientInv, WriteInv, ReadInv, ErrorInv
<1> QED  BY <1>1, <1>2 DEF EtherboneInv, ClientInv

\* A stray reaches the socket, or does not find room there.
LEMMA StrayStep ==
  ASSUME StraysHarmless, EtherboneInv, NEW d \in Strays, Stray(d)
  PROVE  EtherboneInv'
<1>1. /\ mem' = mem /\ answers' = answers /\ pc' = pc /\ index' = index /\ errors' = errors
      /\ Send(d, TRUE)
  BY Zenon DEF Stray, serverVars, scriptVars
<1>2. d.src = Other /\ Other \notin Clients /\ Loss(d) = dropped
  BY Zenon DEF StraysHarmless, Loss
<1>3. dropped' = dropped /\ (inbox' = inbox \/ inbox' = Append(inbox, d))
  BY <1>1, <1>2 DEF Send
<1>4. d \in Requests /\ inbox \in Seq(Requests)
  BY DEF Requests, EtherboneInv, Types
<1>5. ASSUME NEW c \in Clients PROVE ClientInv(c)'
  <2>1. SameScript(c) /\ ClientInv(c) /\ d.src # c
    BY <1>1, <1>2, <1>3 DEF SameScript, EtherboneInv, ClientInv
  <2> QED  BY <1>3, <1>4, <2>1, UnmovedSame, UnmovedArrives, SMTT(30)
<1>6. inbox' \in Seq(Requests)
  BY <1>3, <1>4
<1>7. Requests' = Requests /\ AllAddresses' = AllAddresses
  BY DEF Requests, AllAddresses
<1>8. Types'
  BY <1>1, <1>3, <1>6, <1>7, Zenon DEF Types, EtherboneInv, Steps, Indices
<1> QED  BY <1>5, <1>8 DEF EtherboneInv, ClientInv

\* What a step does to the datagrams of script c: the words it sent are in the socket, or lost.
LEMMA SentNow ==
  ASSUME StraysHarmless, EtherboneInv, NEW c \in Clients, NEW i \in Indices, NEW arrives \in BOOLEAN,
         Send(WritePacket(c, i), arrives)
  PROVE  /\ WritePacket(c, i) \in Requests /\ WritePacket(c, i).src = c
         /\ ~IsRead(WritePacket(c, i), c)
         /\ {w \in Indices : WritesWord(WritePacket(c, i), c, w)} = Chunk(i)
         /\ \/ inbox' = Append(inbox, WritePacket(c, i)) /\ dropped' = dropped
            \/ inbox' = inbox /\ dropped' = [dropped EXCEPT ![c] = @ \cup Chunk(i)]
<1>1. WritePacket(c, i) \in Requests
  BY SMTT(30) DEF Requests
<1>2. WritePacket(c, i).src = c /\ WritePacket(c, i).wcount = Size(i) /\ Size(i) > 0
  BY WriteFacts, ChunkSize
<1>3. {w \in Indices : WritesWord(WritePacket(c, i), c, w)} = Chunk(i)
  <2>1. Chunk(i) \subseteq Indices
    BY ChunkSize
  <2> QED  BY <2>1, WhoWrites
<1>4. Loss(WritePacket(c, i)) = [dropped EXCEPT ![c] = @ \cup Chunk(i)]
  BY LossFacts
<1> QED  BY <1>1, <1>2, <1>3, <1>4 DEF Send, IsRead

\* As long as the socket does not change, each word is in one packet of it.
LEMMA SameSocket ==
  ASSUME NEW c \in Clients, OnePacket(c), inbox' = inbox
  PROVE  OnePacket(c)'
<1> SUFFICES ASSUME NEW j \in 1 .. Len(inbox), NEW k \in 1 .. Len(inbox), NEW w \in Indices,
                    WritesWord(inbox[j], c, w), WritesWord(inbox[k], c, w)
             PROVE  j = k
  BY DEF OnePacket, WritesWord
<1> QED  BY SMTT(30) DEF OnePacket

\* memwrite: the script of the transfer.
LEMMA MemWriteOwn ==
  ASSUME StraysHarmless, EtherboneInv, NEW c \in Clients, NEW arrives \in BOOLEAN, MemWrite(c, arrives)
  PROVE  ClientInv(c)'
<1> DEFINE i == index[c]
           d == WritePacket(c, i)
<1>1. /\ mem' = mem /\ answers' = answers /\ errors' = errors /\ pc[c] = "fill"
      /\ Send(d, arrives) /\ Advance(c, "check")
  BY DEF MemWrite, serverVars
<1>2. Types /\ ClientInv(c)
  BY DEF EtherboneInv, ClientInv
<1>3. i \in Indices /\ pc \in [Clients -> Steps] /\ index \in [Clients -> Indices]
      /\ inbox \in Seq(Requests) /\ dropped \in [Clients -> SUBSET (Indices \cup {ReadLost})]
  BY <1>2 DEF Types
<1>4. /\ i \in Nat /\ Size(i) \in Nat /\ Size(i) > 0 /\ Chunk(i) = i .. i + Size(i) - 1
      /\ Chunk(i) \subseteq Indices /\ NumWords \in Nat /\ Burst \in Nat
      /\ i + Burst < NumWords => Size(i) = Burst
      /\ ~(i + Burst < NumWords) => i + Size(i) = NumWords
  BY <1>3, ChunkSize, EtherboneAssumption, SMTT(30)
<1>5. /\ d \in Requests /\ d.src = c /\ ~IsRead(d, c) /\ {w \in Indices : WritesWord(d, c, w)} = Chunk(i)
      /\ \/ inbox' = Append(inbox, d) /\ dropped' = dropped
         \/ inbox' = inbox /\ dropped' = [dropped EXCEPT ![c] = @ \cup Chunk(i)]
  BY <1>1, <1>3, SentNow
<1>6. \/ i + Burst < NumWords /\ index'[c] = i + Burst /\ pc'[c] = "fill"
      \/ ~(i + Burst < NumWords) /\ index'[c] = 0 /\ pc'[c] = "check"
  BY <1>1, <1>3, SMTT(30) DEF Advance
<1> HIDE DEF d, i
<1>7. Sent(c) = 0 .. i - 1
  BY <1>1, SMTT(30) DEF Sent, i
<1>8. Sent(c)' = Sent(c) \cup Chunk(i) /\ Sent(c) \cap Chunk(i) = {}
  <2>1. CASE i + Burst < NumWords
    <3>0. index'[c] = i + Burst /\ pc'[c] = "fill"
      BY <1>6, <2>1
    <3>1. Sent(c)' = 0 .. i + Burst - 1
      BY <1>4, <3>0 DEF Sent
    <3> QED  BY <1>4, <1>7, <2>1, <3>1
  <2>2. CASE ~(i + Burst < NumWords)
    <3>1. Sent(c)' = 0 .. NumWords - 1
      BY <1>6, <2>2, SMTT(30) DEF Sent, Indices
    <3> QED  BY <1>4, <1>7, <2>2, <3>1, SMTT(30)
  <2> QED  BY <2>1, <2>2, SMTT(30)
<1>9. Pending(c) \subseteq Sent(c) \ dropped[c] /\ dropped[c] \subseteq Sent(c) \cup {ReadLost}
  BY <1>2, SMTT(30) DEF ClientInv, WriteInv
<1>9a. OnePacket(c) /\ ReadsLast(c) /\ ~ReadInSocket(c)
  BY <1>1, <1>2, ZenonT(30) DEF ClientInv, WriteInv, ReadInv
<1>9b. answers[c] = <<>> /\ ReadLost \notin dropped[c] /\ errors[c] = {}
  BY <1>1, <1>2, SMTT(30) DEF ClientInv, ReadInv, ErrorInv
<1>9c. \A w \in Indices : mem[Base[c] + 4 * w] =
         IF w \in Sent(c) /\ w \notin dropped[c] /\ w \notin Pending(c) THEN RefData[c][w] ELSE Old
  BY <1>2 DEF ClientInv, WriteInv
<1>10. ReadLost \notin Chunk(i)
  BY <1>4 DEF ReadLost
<1>11. /\ OnePacket(c)' /\ ReadsLast(c)' /\ ~ReadInSocket(c)'
       /\ \/ Pending(c)' = Pending(c) \cup Chunk(i) /\ dropped'[c] = dropped[c]
          \/ Pending(c)' = Pending(c) /\ dropped'[c] = dropped[c] \cup Chunk(i)
  <2>1. CASE inbox' = Append(inbox, d) /\ dropped' = dropped
    <3>1. Pending(c)' = Pending(c) \cup Chunk(i)
      BY <1>3, <1>5, <2>1, PendingArrives, SMTT(30)
    <3>2. Pending(c) \cap {w \in Indices : WritesWord(d, c, w)} = {}
      BY <1>5, <1>8, <1>9, SMTT(30)
    <3>3. OnePacket(c)'
      <4>1. inbox \in Seq(Requests) /\ d \in Requests /\ inbox' = Append(inbox, d) /\ OnePacket(c)
        BY <1>3, <1>5, <1>9a, <2>1
      <4> QED  BY <3>2, <4>1, PendingArrives
    <3>4. ReadsLast(c)' /\ ~ReadInSocket(c)'
      <4>1. /\ inbox \in Seq(Requests) /\ d \in Requests /\ inbox' = Append(inbox, d)
            /\ ReadsLast(c) /\ ~ReadInSocket(c) /\ ~IsRead(d, c)
        BY <1>3, <1>5, <1>9a, <2>1, SMTT(30)
      <4> QED  BY <4>1, OrderArrives, Zenon
    <3> QED  BY <2>1, <3>1, <3>3, <3>4, Zenon
  <2>2. CASE inbox' = inbox /\ dropped' = [dropped EXCEPT ![c] = @ \cup Chunk(i)]
    <3>1. Pending(c)' = Pending(c)
      BY <2>2, SMTT(30) DEF Pending, WritesWord
    <3>2. OnePacket(c)'
      BY <1>9a, <2>2, SameSocket, SMTT(30)
    <3>3. ~ReadInSocket(c)'
      BY <1>9a, <2>2, SMTT(30) DEF ReadInSocket, IsRead
    <3>4. ReadsLast(c)'
      BY <3>3 DEF ReadInSocket, ReadsLast, IsRead
    <3>5. dropped'[c] = dropped[c] \cup Chunk(i)
      BY <1>3, <2>2, SMTT(30)
    <3> QED  BY <3>1, <3>2, <3>3, <3>4, <3>5
  <2> QED  BY <1>5, <2>1, <2>2, SMTT(30)
<1>11a. \/ Pending(c)' = Pending(c) \cup Chunk(i) /\ dropped'[c] = dropped[c]
        \/ Pending(c)' = Pending(c) /\ dropped'[c] = dropped[c] \cup Chunk(i)
  BY <1>11, SMTT(30)
<1>12. WriteInv(c)'
  <2>1. dropped'[c] \subseteq Sent(c)' \cup {ReadLost} /\ Pending(c)' \subseteq Sent(c)' \ dropped'[c]
    <3>1. CASE Pending(c)' = Pending(c) \cup Chunk(i) /\ dropped'[c] = dropped[c]
      BY <1>8, <1>9, <1>10, <3>1, SMTT(30)
    <3>2. CASE Pending(c)' = Pending(c) /\ dropped'[c] = dropped[c] \cup Chunk(i)
      BY <1>8, <1>9, <1>10, <3>2, SMTT(30)
    <3> QED  BY <1>11a, <3>1, <3>2, SMTT(30)
  <2>2. ASSUME NEW w \in Indices
        PROVE  mem'[Base[c] + 4 * w] =
                 IF w \in Sent(c)' /\ w \notin dropped'[c] /\ w \notin Pending(c)' THEN RefData[c][w] ELSE Old
    <3>1. (w \in Sent(c)' /\ w \notin dropped'[c] /\ w \notin Pending(c)')
            <=> (w \in Sent(c) /\ w \notin dropped[c] /\ w \notin Pending(c))
      BY <1>8, <1>9, <1>11a, SMTT(30)
    <3> QED  BY <1>1, <1>9c, <3>1, SMTT(30)
  <2> QED  BY <1>11, <2>1, <2>2, SMTT(30) DEF WriteInv
<1>13. ReadInv(c)'
  <2>1. answers'[c] = <<>> /\ ReadLost \notin dropped'[c]
    BY <1>1, <1>9b, <1>10, <1>11a, SMTT(30)
  <2> QED  BY <1>11, <2>1, ZenonT(30) DEF ReadInv
<1>14. ErrorInv(c)'
  <2>1. errors'[c] = {}
    BY <1>1, <1>9b, SMTT(30)
  <2>2. CASE pc'[c] = "fill"
    BY <2>1, <2>2, SMTT(30) DEF ErrorInv
  <2>3. CASE index'[c] = 0 /\ pc'[c] = "check"
    <3>1. 0 .. index'[c] - 1 = {}
      BY <2>3
    <3> QED  BY <2>1, <2>3, <3>1 DEF ErrorInv
  <2> QED  BY <1>6, <2>2, <2>3, SMTT(30)
<1> QED  BY <1>12, <1>13, <1>14, SMTT(30) DEF ClientInv

\* memwrite: the other scripts, and the types.
LEMMA MemWriteStep ==
  ASSUME StraysHarmless, EtherboneInv, NEW c \in Clients, NEW arrives \in BOOLEAN, MemWrite(c, arrives)
  PROVE  EtherboneInv'
<1> DEFINE i == index[c]
           d == WritePacket(c, i)
<1>1. /\ mem' = mem /\ answers' = answers /\ errors' = errors
      /\ Send(d, arrives) /\ Advance(c, "check")
  BY DEF MemWrite, serverVars
<1>2. Types
  BY DEF EtherboneInv
<1>3. i \in Indices /\ inbox \in Seq(Requests)
  BY <1>2, SMTT(30) DEF Types
<1>4. /\ d \in Requests /\ d.src = c /\ Chunk(i) \subseteq Indices
      /\ \/ inbox' = Append(inbox, d) /\ dropped' = dropped
         \/ inbox' = inbox /\ dropped' = [dropped EXCEPT ![c] = @ \cup Chunk(i)]
  BY <1>1, <1>3, SentNow, ChunkSize, ZenonT(30)
<1> HIDE DEF d
<1>5. ASSUME NEW e \in Clients \ {c} PROVE ClientInv(e)'
  <2>1. SameScript(e)
    BY <1>1, <1>2, <1>4, SMTT(30) DEF SameScript, Advance, Types
  <2>2. ClientInv(e) /\ d.src # e
    BY <1>4, ZenonT(30) DEF EtherboneInv, ClientInv
  <2> QED  BY <1>3, <1>4, <2>1, <2>2, UnmovedSame, UnmovedArrives, ZenonT(30)
<1>6. ClientInv(c)'
  BY MemWriteOwn
<1>7. Types'
  <2>1. inbox' \in Seq(Requests)
    BY <1>3, <1>4
  <2>2. dropped' \in [Clients -> SUBSET (Indices \cup {ReadLost})]
    BY <1>2, <1>4, SMTT(30) DEF Types
  <2>3. pc' \in [Clients -> Steps]
    BY <1>1, <1>2, SMTT(30) DEF Types, Steps, Advance
  <2>4. index' \in [Clients -> Indices]
    <3>1. index \in [Clients -> Indices] /\ 0 \in Indices
      BY <1>2, EtherboneAssumption DEF Types, Indices
    <3>2. i + Burst < NumWords => i + Burst \in Indices
      BY <1>3, EtherboneAssumption, SMTT(30), Z3 DEF Indices
    <3> QED  BY <1>1, <3>1, <3>2, SMTT(30) DEF Advance
  <2>5. Requests' = Requests /\ AllAddresses' = AllAddresses /\ Steps' = Steps /\ Indices' = Indices
    BY DEF Requests, AllAddresses, Steps, Indices
  <2> QED
    BY <1>1, <1>2, <2>1, <2>2, <2>3, <2>4, <2>5, SMTT(30) DEF Types
<1> QED  BY <1>5, <1>6, <1>7 DEF EtherboneInv, ClientInv

\* memread: the request goes out behind the writes of its script, or is lost.
LEMMA MemReadStep ==
  ASSUME StraysHarmless, EtherboneInv, NEW c \in Clients, NEW arrives \in BOOLEAN, MemRead(c, arrives)
  PROVE  EtherboneInv'
<1> DEFINE i == index[c]
           d == ReadPacket(c, i)
<1>1. /\ mem' = mem /\ answers' = answers /\ errors' = errors /\ index' = index
      /\ pc[c] = "check" /\ pc' = [pc EXCEPT ![c] = "wait"] /\ Send(d, arrives)
  BY SMTT(30) DEF MemRead, serverVars
<1>2. Types /\ ClientInv(c)
  BY DEF EtherboneInv, ClientInv
<1>3. /\ i \in Indices /\ inbox \in Seq(Requests) /\ pc \in [Clients -> Steps]
      /\ dropped \in [Clients -> SUBSET (Indices \cup {ReadLost})]
  BY <1>2, SMTT(30) DEF Types
<1>4. d \in Requests /\ d.src = c /\ IsRead(d, c) /\ {w \in Indices : WritesWord(d, c, w)} = {}
  <2>1. d \in Requests
    BY <1>3, SMTT(30) DEF Requests
  <2>2. d.src = c /\ d.wcount = 0
    BY <1>3, ReadFacts
  <2>3. {w \in Indices : WritesWord(d, c, w)} = {}
    BY <1>3, WhoWrites
  <2> QED  BY <2>1, <2>2, <2>3, SMTT(30) DEF IsRead
<1>5. Loss(d) = [dropped EXCEPT ![c] = @ \cup {ReadLost}]
  BY <1>3, LossFacts, Zenon
<1>6. \/ inbox' = Append(inbox, d) /\ dropped' = dropped
      \/ inbox' = inbox /\ dropped' = [dropped EXCEPT ![c] = @ \cup {ReadLost}]
  BY <1>1, <1>5 DEF Send
<1>7. d = ReadPacket(c, index'[c]) /\ index'[c] = index[c] /\ pc'[c] = "wait"
  BY <1>1, <1>3
<1>8. /\ WriteInv(c) /\ OnePacket(c) /\ ReadsLast(c) /\ ~ReadInSocket(c) /\ answers[c] = <<>>
      /\ ReadLost \notin dropped[c]
      /\ errors[c] = dropped[c] \cap (0 .. index[c] - 1) /\ (index[c] > 0 => Pending(c) = {})
  BY <1>1, <1>2, Zenon DEF ClientInv, WriteInv, ReadInv, ErrorInv
<1> HIDE DEF d, i
<1>9. /\ Pending(c)' = Pending(c) /\ OnePacket(c)' /\ ReadsLast(c)'
      /\ \/ dropped'[c] = dropped[c]
         \/ dropped'[c] = dropped[c] \cup {ReadLost} /\ ~ReadInSocket(c)'
  <2>1. CASE inbox' = Append(inbox, d) /\ dropped' = dropped
    <3>0. /\ Pending(c)' = Pending(c) \cup {w \in Indices : WritesWord(d, c, w)}
          /\ OnePacket(c) /\ Pending(c) \cap {w \in Indices : WritesWord(d, c, w)} = {} => OnePacket(c)'
      BY <1>3, <1>4, <2>1, PendingArrives, SMTT(30)
    <3>1. Pending(c)' = Pending(c) /\ OnePacket(c)'
      BY <1>4, <1>8, <3>0
    <3>2. ReadsLast(c)'
      BY <1>3, <1>4, <1>7, <1>8, <2>1, OrderArrives, Zenon
    <3> QED  BY <2>1, <3>1, <3>2
  <2>2. CASE inbox' = inbox /\ dropped' = [dropped EXCEPT ![c] = @ \cup {ReadLost}]
    <3>1. Pending(c)' = Pending(c)
      BY <2>2, SMTT(30) DEF Pending, WritesWord
    <3>2. OnePacket(c)'
      BY <1>8, <2>2, SMTT(30) DEF OnePacket, WritesWord
    <3>3. ~ReadInSocket(c)'
      BY <1>8, <2>2 DEF ReadInSocket, IsRead
    <3>4. ReadsLast(c)'
      BY <3>3 DEF ReadInSocket, ReadsLast, IsRead
    <3>5. dropped'[c] = dropped[c] \cup {ReadLost}
      BY <1>3, <2>2
    <3> QED  BY <3>1, <3>2, <3>3, <3>4, <3>5
  <2> QED  BY <1>6, <2>1, <2>2, SMTT(30)
<1>10. Sent(c)' = Sent(c)
  BY <1>1, <1>7, SMTT(30) DEF Sent
<1>11. \A w \in Indices : w \in dropped'[c] <=> w \in dropped[c]
  BY <1>9, EtherboneAssumption, SMTT(30) DEF Indices, ReadLost
<1>12. WriteInv(c)'
  <2>1. dropped'[c] \subseteq Sent(c)' \cup {ReadLost}
    BY <1>8, <1>9, <1>10, SMTT(30) DEF WriteInv
  <2>2. Pending(c)' \subseteq Sent(c)' \ dropped'[c]
    <3>1. Pending(c) \subseteq Indices
      BY DEF Pending
    <3> QED  BY <1>8, <1>9, <1>10, <1>11, <3>1, SMTT(30), Z3 DEF WriteInv
  <2>3. ASSUME NEW w \in Indices
        PROVE  mem'[Base[c] + 4 * w] =
                 IF w \in Sent(c)' /\ w \notin dropped'[c] /\ w \notin Pending(c)' THEN RefData[c][w] ELSE Old
    BY <1>1, <1>8, <1>9, <1>10, <1>11, ZenonT(30) DEF WriteInv
  <2> QED  BY <1>9, <2>1, <2>2, <2>3, SMTT(30) DEF WriteInv
<1>13. ReadInv(c)'
  BY <1>1, <1>7, <1>8, <1>9, Zenon DEF ReadInv
<1>14. ErrorInv(c)'
  <2>1. 0 .. index[c] - 1 \subseteq Indices
    BY <1>3, EtherboneAssumption, SMTT(30) DEF i, Indices
  <2>2. errors'[c] = dropped'[c] \cap (0 .. index'[c] - 1)
    BY <1>1, <1>8, <1>11, <2>1, Zenon
  <2> QED  BY <1>1, <1>7, <1>8, <1>9, <2>2, Zenon DEF ErrorInv
<1>15. ASSUME NEW e \in Clients \ {c} PROVE ClientInv(e)'
  <2>1. SameScript(e)
    BY <1>1, <1>2, <1>6, SMTT(30) DEF SameScript, Types
  <2>2. ClientInv(e) /\ d.src # e
    BY <1>4 DEF EtherboneInv, ClientInv
  <2> QED  BY <1>3, <1>4, <1>6, <2>1, <2>2, UnmovedSame, UnmovedArrives, SMTT(30)
<1>16. Types'
  <2>1. inbox' \in Seq(Requests)
    BY <1>3, <1>4, <1>6, SMTT(30)
  <2>2. dropped' \in [Clients -> SUBSET (Indices \cup {ReadLost})]
    BY <1>3, <1>6, SMTT(30)
  <2>3. pc' \in [Clients -> Steps]
    BY <1>1, <1>3 DEF Steps
  <2>4. Requests' = Requests /\ AllAddresses' = AllAddresses /\ Steps' = Steps /\ Indices' = Indices
    BY DEF Requests, AllAddresses, Steps, Indices
  <2> QED
    BY <1>1, <1>2, <2>1, <2>2, <2>3, <2>4, Zenon DEF Types
<1> QED  BY <1>12, <1>13, <1>14, <1>15, <1>16 DEF EtherboneInv, ClientInv

\* A sequence of no answers.
LEMMA NoAnswer ==
  ASSUME NEW S, NEW s \in Seq(S), Len(s) = 0
  PROVE  s = <<>>
OBVIOUS

\* What is left of one answer when it is taken.
LEMMA OneAnswer ==
  ASSUME NEW S, NEW s \in Seq(S), Len(s) = 1
  PROVE  Head(s) = s[1] /\ Tail(s) = <<>>
<1>1. s # <<>>
  BY SMTT(30)
<1>2. Tail(s) \in Seq(S) /\ Len(Tail(s)) = 0
  BY <1>1
<1>3. Tail(s) = <<>>
  <2> DEFINE t == Tail(s)
  <2>1. t \in Seq(S) /\ Len(t) = 0
    BY <1>2
  <2> HIDE DEF t
  <2>2. t = <<>>
    BY <2>1, NoAnswer
  <2> QED  BY <2>2 DEF t
<1>4. Head(s) = s[1]
  BY <1>1
<1> QED  BY <1>3, <1>4

\* The answer to memread is compared.
LEMMA ReceiveStep ==
  ASSUME EtherboneInv, NEW c \in Clients, Receive(c)
  PROVE  EtherboneInv'
<1> DEFINE i == index[c]
<1>1. /\ mem' = mem /\ inbox' = inbox /\ dropped' = dropped
      /\ pc[c] = "wait" /\ answers[c] # <<>> /\ answers' = [answers EXCEPT ![c] = Tail(@)]
      /\ errors' = [errors EXCEPT ![c] = @ \cup
           {j \in Chunk(i) : Head(answers[c])[j - i + 1] # RefData[c][j]}]
      /\ IF i + Burst < NumWords
           THEN index' = [index EXCEPT ![c] = @ + Burst] /\ pc' = [pc EXCEPT ![c] = "check"]
           ELSE pc' = [pc EXCEPT ![c] = "done"] /\ UNCHANGED index
  BY DEF Receive, serverVars
<1>2. Types /\ ClientInv(c)
  BY DEF EtherboneInv, ClientInv
<1>3. /\ i \in Indices /\ pc \in [Clients -> Steps] /\ index \in [Clients -> Indices]
      /\ errors \in [Clients -> SUBSET Indices]
      /\ answers \in [Clients -> Seq(UNION {[1 .. n -> Int] : n \in Nat})]
      /\ dropped[c] \subseteq Indices \cup {ReadLost}
  BY <1>2, SMTT(30) DEF Types
<1>4. /\ i \in Nat /\ Size(i) \in Nat /\ Size(i) > 0 /\ Chunk(i) = i .. i + Size(i) - 1
      /\ Chunk(i) \subseteq Indices /\ NumWords \in Nat /\ Burst \in Nat /\ Burst > 0
      /\ i + Burst < NumWords => Size(i) = Burst
      /\ ~(i + Burst < NumWords) => i + Size(i) = NumWords
  BY <1>3, ChunkSize, EtherboneAssumption, SMTT(30), Z3
<1>5. /\ WriteInv(c) /\ ReadsLast(c) /\ ~ReadInSocket(c) /\ Len(answers[c]) = 1 /\ ReadLost \notin dropped[c]
      /\ NothingSent(c) /\ \A j \in Chunk(i) : answers[c][1][j - i + 1] # RefData[c][j] <=> j \in dropped[c]
      /\ errors[c] = dropped[c] \cap (0 .. i - 1)
  <2>1. WriteInv(c) /\ ReadInv(c) /\ ErrorInv(c) /\ pc[c] = "wait" /\ answers[c] # <<>>
    BY <1>1, <1>2, SMTT(30) DEF ClientInv
  <2>2. /\ ReadsLast(c) /\ ~ReadInSocket(c) /\ Len(answers[c]) = 1 /\ ReadLost \notin dropped[c]
        /\ NothingSent(c) /\ \A j \in Chunk(i) : answers[c][1][j - i + 1] # RefData[c][j] <=> j \in dropped[c]
    BY <2>1, SMTT(30) DEF ReadInv
  <2>3. errors[c] = dropped[c] \cap (0 .. i - 1)
    BY <2>1, SMTT(30) DEF ErrorInv
  <2> QED  BY <2>1, <2>2, <2>3, SMTT(30)
<1>6. Head(answers[c]) = answers[c][1] /\ Tail(answers[c]) = <<>>
  <2>1. answers[c] \in Seq(UNION {[1 .. n -> Int] : n \in Nat})
    BY <1>3, SMTT(30)
  <2> QED  BY <1>5, <2>1, OneAnswer, ZenonT(30)
<1>7. \/ i + Burst < NumWords /\ index'[c] = i + Burst /\ pc'[c] = "check"
      \/ ~(i + Burst < NumWords) /\ index'[c] = i /\ pc'[c] = "done"
  BY <1>1, <1>3, SMTT(30)
<1>8. answers'[c] = <<>>
  BY <1>1, <1>3, <1>6, SMTT(30)
<1>9. errors'[c] = errors[c] \cup {j \in Chunk(i) : Head(answers[c])[j - i + 1] # RefData[c][j]}
  BY <1>1, <1>3, SMTT(30)
<1> HIDE DEF i
<1>10. errors'[c] = dropped[c] \cap (0 .. i + Size(i) - 1)
  <2>1. {j \in Chunk(i) : Head(answers[c])[j - i + 1] # RefData[c][j]} = dropped[c] \cap Chunk(i)
    BY <1>5, <1>6
  <2>2. 0 .. i + Size(i) - 1 = (0 .. i - 1) \cup Chunk(i)
    BY <1>4, SMTT(30)
  <2> QED  BY <1>5, <1>9, <2>1, <2>2, SMTT(30)
<1>11. Sent(c)' = Sent(c)
  BY <1>1, <1>7, SMTT(30) DEF Sent
<1>12. Pending(c)' = Pending(c) /\ Pending(c) = {}
  <2>1. Pending(c)' = Pending(c)
    BY <1>1, SMTT(30) DEF Pending, WritesWord
  <2> QED  BY <1>5, <2>1, NothingPending, ZenonT(30)
<1>13. WriteInv(c)'
  <2>1. OnePacket(c)'
    BY <1>1, <1>5, SameSocket, Zenon DEF WriteInv
  <2> QED  BY <1>1, <1>5, <1>11, <1>12, <2>1, ZenonT(30) DEF WriteInv
<1>14. ReadInv(c)'
  <2>1. ~ReadInSocket(c)'
    BY <1>1, <1>5, Zenon DEF ReadInSocket, IsRead
  <2>2. ReadsLast(c)'
    BY <2>1 DEF ReadInSocket, ReadsLast, IsRead
  <2> QED  BY <1>1, <1>5, <1>8, <2>1, <2>2, Zenon DEF ReadInv
<1>15. ErrorInv(c)'
  <2>1. NothingSent(c)'
    BY <1>1, <1>5, ZenonT(30) DEF NothingSent
  <2>2. CASE i + Burst < NumWords
    <3>1. index'[c] = i + Burst /\ pc'[c] = "check" /\ Size(i) = Burst
      BY <1>4, <1>7, <2>2, SMTT(30)
    <3>2. errors'[c] = dropped'[c] \cap (0 .. index'[c] - 1)
      BY <1>1, <1>4, <1>10, <3>1, SMTT(30)
    <3> QED  BY <1>12, <3>1, <3>2, SMTT(30) DEF ErrorInv
  <2>3. CASE ~(i + Burst < NumWords)
    <3>1. pc'[c] = "done" /\ i + Size(i) = NumWords
      BY <1>4, <1>7, <2>3, SMTT(30)
    <3>2. dropped[c] \subseteq Indices
      BY <1>3, <1>5, ZenonT(30)
    <3>3. errors'[c] = dropped'[c]
      <4>1. errors'[c] = dropped[c] \cap Indices
        BY <1>4, <1>10, <3>1, SMTT(30) DEF Indices
      <4> QED  BY <1>1, <3>2, <4>1, Zenon
    <3> QED  BY <2>1, <3>1, <3>3, SMTT(30) DEF ErrorInv
  <2> QED  BY <2>2, <2>3, SMTT(30)
<1>16. ASSUME NEW e \in Clients \ {c} PROVE ClientInv(e)'
  <2>1. SameScript(e)
    BY <1>1, <1>3, SMTT(30) DEF SameScript
  <2> QED  BY <1>1, <2>1, UnmovedSame, ZenonT(30) DEF EtherboneInv, ClientInv
<1>17. Types'
  <2>1. answers' \in [Clients -> Seq(UNION {[1 .. n -> Int] : n \in Nat})]
    <3>1. Tail(answers[c]) \in Seq(UNION {[1 .. n -> Int] : n \in Nat})
      BY <1>1, <1>3, SMTT(30)
    <3> QED  BY <1>1, <1>3, <3>1, SMTT(30)
  <2>2. pc' \in [Clients -> Steps]
    BY <1>1, <1>3, SMTT(30) DEF Steps
  <2>3. index' \in [Clients -> Indices]
    <3>1. i + Burst < NumWords => i + Burst \in Indices
      BY <1>4, SMTT(30) DEF Indices
    <3> QED  BY <1>1, <1>3, <3>1 DEF i
  <2>4. errors' \in [Clients -> SUBSET Indices]
    BY <1>1, <1>3, <1>4
  <2>5. Requests' = Requests /\ AllAddresses' = AllAddresses /\ Steps' = Steps /\ Indices' = Indices
    BY DEF Requests, AllAddresses, Steps, Indices
  <2> QED
    BY <1>1, <1>2, <2>1, <2>2, <2>3, <2>4, <2>5, SMTT(30) DEF Types
<1> QED  BY <1>13, <1>14, <1>15, <1>16, <1>17, SMTT(30) DEF EtherboneInv, ClientInv

\* The script gives up.
LEMMA TimeoutStep ==
  ASSUME EtherboneInv, NEW c \in Clients, Timeout(c)
  PROVE  EtherboneInv'
<1>1. /\ mem' = mem /\ inbox' = inbox /\ answers' = answers /\ index' = index /\ errors' = errors
      /\ dropped' = dropped /\ pc[c] = "wait" /\ pc' = [pc EXCEPT ![c] = "failed"]
  BY DEF Timeout, serverVars
<1>2. Types /\ ClientInv(c)
  BY DEF EtherboneInv, ClientInv
<1>3. pc'[c] = "failed"
  BY <1>1, <1>2, SMTT(30) DEF Types
<1>4. ASSUME NEW e \in Clients \ {c} PROVE ClientInv(e)'
  <2>1. SameScript(e)
    BY <1>1, <1>2, SMTT(30) DEF SameScript, Types
  <2> QED  BY <1>1, <2>1, UnmovedSame, SMTT(30) DEF EtherboneInv, ClientInv
<1>5. Sent(c)' = Sent(c) /\ Pending(c)' = Pending(c) /\ (OnePacket(c) => OnePacket(c)')
  BY <1>1, <1>3, SMTT(30) DEF Sent, Pending, OnePacket, WritesWord
<1>6. WriteInv(c)'
  BY <1>1, <1>2, <1>5 DEF ClientInv, WriteInv
<1>7. ReadInv(c)'
  <2>1. (ReadsLast(c) => ReadsLast(c)') /\ (ReadInSocket(c)' => ReadInSocket(c)) /\ (NothingSent(c) => NothingSent(c)')
    BY <1>1, ZenonT(30) DEF ReadsLast, ReadInSocket, NothingSent, IsRead, ReadPacket, Packet
  <2> QED  BY <1>1, <1>2, <1>3, <2>1, Zenon DEF ClientInv, ReadInv, Chunk, Size
<1>8. ErrorInv(c)'
  BY <1>3 DEF ErrorInv
<1>9. Types'
  <2>1. pc' \in [Clients -> Steps]
    BY <1>1, <1>2, SMTT(30) DEF Types, Steps
  <2>2. Requests' = Requests /\ AllAddresses' = AllAddresses /\ Steps' = Steps /\ Indices' = Indices
    BY DEF Requests, AllAddresses, Steps, Indices
  <2> QED  BY <1>1, <1>2, <2>1, <2>2, SMTT(30) DEF Types
<1> QED  BY <1>4, <1>6, <1>7, <1>8, <1>9, SMTT(30) DEF EtherboneInv, ClientInv

\* Steps that change neither memory, nor a socket, nor a script.
LEMMA QuietStep ==
  ASSUME EtherboneInv, mem' = mem, inbox' = inbox, answers' = answers, pc' = pc, index' = index,
         errors' = errors, dropped' = dropped
  PROVE  EtherboneInv'
<1>1. ASSUME NEW c \in Clients PROVE ClientInv(c)'
  <2>1. SameScript(c) /\ ClientInv(c)
    BY SMTT(30) DEF SameScript, EtherboneInv, ClientInv
  <2> QED  BY <2>1, UnmovedSame, SMTT(30)
<1>2. Types'
  <2>1. Requests' = Requests /\ AllAddresses' = AllAddresses /\ Steps' = Steps /\ Indices' = Indices
    BY DEF Requests, AllAddresses, Steps, Indices
  <2> QED  BY <2>1, SMTT(30) DEF EtherboneInv, Types
<1> QED  BY <1>1, <1>2 DEF EtherboneInv, ClientInv
-----------------------------------------------------------------------------
\* The server takes a stray: no script notices.
LEMMA ServeStray ==
  ASSUME StraysHarmless, EtherboneInv, NEW allocated \in BOOLEAN, NEW delivered \in BOOLEAN,
         Serve(allocated, delivered), Head(inbox) \in Strays
  PROVE  EtherboneInv'
<1> DEFINE d == Head(inbox)
<1>1. /\ inbox # <<>> /\ inbox' = Tail(inbox) /\ pc' = pc /\ index' = index /\ errors' = errors
      /\ mem' = IF Accepted(d, allocated) /\ ~d.pf THEN Written(d) ELSE mem
      /\ \/ d.src \in Clients
         \/ /\ dropped' = IF Accepted(d, allocated) /\ ~d.pf /\ d.wcount > 0 THEN dropped ELSE Loss(d)
            /\ answers' = answers
  BY DEF Serve, scriptVars
<1>2. Types
  BY DEF EtherboneInv
<1>3. d.src = Other /\ Other \notin Clients /\ Loss(d) = dropped
  BY Zenon DEF StraysHarmless, Loss
<1>4. mem' = mem
  BY <1>1, <1>2, WrittenByStray, SMTT(30) DEF Types
<1>5. dropped' = dropped /\ answers' = answers
  BY <1>1, <1>3, SMTT(30)
<1>6. ASSUME NEW c \in Clients PROVE ClientInv(c)'
  <2>1. SameScript(c) /\ ClientInv(c) /\ Head(inbox).src # c
    BY <1>1, <1>3, <1>4, <1>5, SMTT(30) DEF SameScript, EtherboneInv, ClientInv
  <2> QED  BY <1>1, <1>2, <2>1, UnmovedTaken, SMTT(30) DEF Types
<1>7. Types'
  <2>1. inbox' \in Seq(Requests)
    BY <1>1, <1>2, Taken DEF Types
  <2>2. Requests' = Requests /\ AllAddresses' = AllAddresses /\ Steps' = Steps /\ Indices' = Indices
    BY SMTT(30) DEF Requests, AllAddresses, Steps, Indices
  <2> QED  BY <1>1, <1>2, <1>4, <1>5, <2>1, <2>2, SMTT(30) DEF Types
<1> QED  BY <1>6, <1>7, SMTT(30) DEF EtherboneInv, ClientInv

\* What the server does with a packet of memwrite: it writes all words, or none and they are lost.
LEMMA ServeWriteEffect ==
  ASSUME StraysHarmless, NEW allocated \in BOOLEAN, NEW delivered \in BOOLEAN,
         Serve(allocated, delivered), NEW c \in Clients, NEW i \in Indices, Head(inbox) = WritePacket(c, i)
  PROVE  /\ answers' = answers
         /\ \/ mem' = Written(WritePacket(c, i)) /\ dropped' = dropped
            \/ mem' = mem /\ dropped' = [dropped EXCEPT ![c] = @ \cup Chunk(i)]
<1> DEFINE d == WritePacket(c, i)
<1>1. /\ d.src = c /\ d.pf = FALSE /\ d.wcount > 0 /\ (Accepted(d, allocated) <=> allocated)
      /\ ResponseLen(d) = 0
  <2>1. d.wcount = Size(i) /\ Size(i) > 0
    BY WriteFacts, ChunkSize, SMTT(30)
  <2>2. d.src = c /\ ~d.pf /\ ResponseLen(d) = 0
    BY WriteFacts, SMTT(30)
  <2>3. d.pf = FALSE
    BY SMTT(30) DEF WritePacket, Packet
  <2>4. Accepted(d, allocated) <=> allocated
    BY WriteFacts, SMTT(30)
  <2> QED  BY <2>1, <2>2, <2>3, <2>4, SMTT(30)
<1>2. Loss(d) = [dropped EXCEPT ![c] = @ \cup Chunk(i)]
  BY LossFacts
<1>3. /\ mem' = IF Accepted(d, allocated) /\ ~d.pf THEN Written(d) ELSE mem
      /\ IF Callback(d, allocated) > 0 /\ d.src \in Clients /\ delivered
           THEN answers' = [answers EXCEPT ![d.src] = Append(@, ReadValues(d, mem'))] /\ UNCHANGED dropped
           ELSE /\ dropped' = IF Accepted(d, allocated) /\ ~d.pf /\ d.wcount > 0 THEN dropped ELSE Loss(d)
                /\ UNCHANGED answers
  BY Zenon DEF Serve
<1> HIDE DEF d
<1>4. ~(Callback(d, allocated) > 0)
  <2>1. etherbone_callback(d, allocated) = 0 \/ etherbone_callback(d, allocated) = -1
    BY <1>1 DEF etherbone_callback
  <2>2. Callback(d, allocated) = 0 \/ Callback(d, allocated) = -1
    BY <2>1, SMTT(30) DEF Callback, etherbone_noerror_callback
  <2> QED  BY <2>2, SMTT(30)
<1>5. /\ answers' = answers
      /\ dropped' = IF Accepted(d, allocated) /\ ~d.pf /\ d.wcount > 0 THEN dropped ELSE Loss(d)
  BY <1>3, <1>4, SMTT(30)
<1>6. CASE allocated
  BY <1>1, <1>3, <1>5, <1>6, SMTT(30) DEF d
<1>7. CASE ~allocated
  BY <1>1, <1>2, <1>3, <1>5, <1>7, SMTT(30) DEF d
<1> QED  BY <1>6, <1>7, SMTT(30)

\* What the server does with a packet of memread: it answers, or the read is lost.
LEMMA ServeReadEffect ==
  ASSUME StraysHarmless, NEW allocated \in BOOLEAN, NEW delivered \in BOOLEAN, mem \in [AllAddresses -> Int],
         Serve(allocated, delivered), NEW c \in Clients, NEW i \in Indices, Head(inbox) = ReadPacket(c, i)
  PROVE  /\ mem' = mem
         /\ \/ /\ answers' = [answers EXCEPT ![c] = Append(@, ReadValues(ReadPacket(c, i), mem))]
               /\ dropped' = dropped
            \/ answers' = answers /\ dropped' = [dropped EXCEPT ![c] = @ \cup {ReadLost}]
<1> DEFINE d == ReadPacket(c, i)
<1>1. d.src = c /\ d.wcount = 0
  BY ReadFacts, SMTT(30)
<1>2. Loss(d) = [dropped EXCEPT ![c] = @ \cup {ReadLost}] /\ Written(d) = mem
  BY LossFacts, WrittenByRead
<1>3. /\ mem' = IF Accepted(d, allocated) /\ ~d.pf THEN Written(d) ELSE mem
      /\ IF Callback(d, allocated) > 0 /\ d.src \in Clients /\ delivered
           THEN answers' = [answers EXCEPT ![d.src] = Append(@, ReadValues(d, mem'))] /\ UNCHANGED dropped
           ELSE /\ dropped' = IF Accepted(d, allocated) /\ ~d.pf /\ d.wcount > 0 THEN dropped ELSE Loss(d)
                /\ UNCHANGED answers
  BY Zenon DEF Serve
<1> HIDE DEF d
<1>4. mem' = mem
  BY <1>2, <1>3, SMTT(30)
<1>5. CASE Callback(d, allocated) > 0 /\ d.src \in Clients /\ delivered
  BY <1>1, <1>3, <1>4, <1>5, SMTT(30) DEF d
<1>6. CASE ~(Callback(d, allocated) > 0 /\ d.src \in Clients /\ delivered)
  BY <1>1, <1>2, <1>3, <1>4, <1>6, SMTT(30) DEF d
<1> QED  BY <1>5, <1>6, SMTT(30)

\* The server takes a packet of memwrite.
LEMMA ServeWrite ==
  ASSUME StraysHarmless, RangesDisjoint, EtherboneInv, NEW allocated \in BOOLEAN, NEW delivered \in BOOLEAN,
         Serve(allocated, delivered), NEW c \in Clients, NEW i \in Indices, Head(inbox) = WritePacket(c, i)
  PROVE  EtherboneInv'
<1> DEFINE d == WritePacket(c, i)
           m == Written(d)
<1>1. inbox # <<>> /\ inbox' = Tail(inbox) /\ pc' = pc /\ index' = index /\ errors' = errors
  BY SMTT(30) DEF Serve, scriptVars
<1>2. /\ answers' = answers
      /\ \/ mem' = m /\ dropped' = dropped
         \/ mem' = mem /\ dropped' = [dropped EXCEPT ![c] = @ \cup Chunk(i)]
  BY ServeWriteEffect
<1>3. Types /\ ClientInv(c)
  BY DEF EtherboneInv, ClientInv
<1>4. /\ inbox \in Seq(Requests) /\ mem \in [AllAddresses -> Int]
      /\ dropped \in [Clients -> SUBSET (Indices \cup {ReadLost})] /\ index[c] \in Indices
  BY <1>3 DEF Types
<1>5. Chunk(i) \subseteq Indices /\ i \in Chunk(i) /\ ReadLost \notin Chunk(i)
  <2>1. i \in Nat /\ Size(i) \in Nat /\ Size(i) > 0 /\ Chunk(i) = i .. i + Size(i) - 1 /\ Chunk(i) \subseteq Indices
    BY ChunkSize, SMTT(30)
  <2> QED  BY <2>1, SMTT(30) DEF ReadLost
<1>6. d.src = c /\ {w \in Indices : WritesWord(Head(inbox), c, w)} = Chunk(i)
  BY <1>5, WhoWrites, WriteFacts, SMTT(30), Z3
<1>7. /\ m \in [AllAddresses -> Int]
      /\ \A w \in Chunk(i) : m[Base[c] + 4 * w] = RefData[c][w]
      /\ \A w \in Indices \ Chunk(i) : m[Base[c] + 4 * w] = mem[Base[c] + 4 * w]
      /\ \A e \in Clients \ {c} : \A w \in Indices : m[Base[e] + 4 * w] = mem[Base[e] + 4 * w]
  BY <1>4, WrittenByScript, SMTT(30)
<1>8. Head(inbox).src = c
  BY <1>6, SMTT(30)
<1> HIDE DEF m, d
<1>9. ASSUME NEW e \in Clients \ {c} PROVE ClientInv(e)'
  <2>1. dropped'[e] = dropped[e]
    BY <1>2, <1>4, SMTT(30)
  <2>2. \A w \in Indices : mem'[Base[e] + 4 * w] = mem[Base[e] + 4 * w]
    BY <1>2, <1>7, SMTT(30)
  <2>3. SameScript(e)
    <3>1. pc'[e] = pc[e] /\ index'[e] = index[e] /\ errors'[e] = errors[e] /\ answers'[e] = answers[e]
      BY <1>1, <1>2, ZenonT(30)
    <3> QED  BY <2>1, <2>2, <3>1, ZenonT(30) DEF SameScript
  <2>4. ClientInv(e) /\ Head(inbox).src # e
    BY <1>8 DEF EtherboneInv, ClientInv
  <2> QED  BY <1>1, <1>4, <2>3, <2>4, UnmovedTaken, SMTT(30)
<1>10. /\ WriteInv(c) /\ OnePacket(c) /\ ReadsLast(c) /\ index'[c] = index[c]
       /\ ReadInSocket(c) => pc[c] \in {"wait", "failed"} /\ answers[c] = <<>> /\ ReadLost \notin dropped[c]
       /\ ReadLost \in dropped[c] => pc[c] \in {"wait", "failed"}
  BY <1>1, <1>3, Zenon DEF ClientInv, WriteInv, ReadInv
<1>11. ~NothingSent(c)
  <2>1. 1 \in 1 .. Len(inbox) /\ inbox[1].src = c
    BY <1>1, <1>4, <1>8, Taken
  <2> QED  BY <2>1, SMTT(30) DEF NothingSent
<1>12. answers[c] = <<>> /\ pc[c] # "done"
  BY <1>3, <1>11, Zenon DEF ClientInv, ReadInv, ErrorInv
<1>13. /\ Pending(c)' = Pending(c) \ Chunk(i) /\ Chunk(i) \subseteq Pending(c) /\ OnePacket(c)'
  <2>1. /\ Pending(c)' = Pending(c) \ {w \in Indices : WritesWord(Head(inbox), c, w)}
        /\ {w \in Indices : WritesWord(Head(inbox), c, w)} \subseteq Pending(c)
        /\ OnePacket(c)'
    BY <1>1, <1>4, <1>10, PendingTaken, Zenon
  <2> QED  BY <1>6, <2>1
<1>14. ReadsLast(c)' /\ (ReadInSocket(c)' => ReadInSocket(c))
  BY <1>1, <1>4, <1>10, OrderTaken, Zenon
<1>15. Sent(c)' = Sent(c) /\ Pending(c) \subseteq Sent(c) \ dropped[c]
  BY <1>1, <1>10, ZenonT(30) DEF Sent, WriteInv
<1>16. \/ dropped'[c] = dropped[c] /\ mem' = m
       \/ dropped'[c] = dropped[c] \cup Chunk(i) /\ mem' = mem
  BY <1>2, <1>4
<1>17. WriteInv(c)'
  <2>1. dropped'[c] \subseteq Sent(c)' \cup {ReadLost}
    BY <1>10, <1>13, <1>15, <1>16, Zenon DEF WriteInv
  <2>2. Pending(c)' \subseteq Sent(c)' \ dropped'[c]
    BY <1>13, <1>15, <1>16, SMTT(30)
  <2>3. ASSUME NEW w \in Indices
        PROVE  mem'[Base[c] + 4 * w] =
                 IF w \in Sent(c)' /\ w \notin dropped'[c] /\ w \notin Pending(c)' THEN RefData[c][w] ELSE Old
    <3>1. mem[Base[c] + 4 * w] =
            IF w \in Sent(c) /\ w \notin dropped[c] /\ w \notin Pending(c) THEN RefData[c][w] ELSE Old
      BY <1>10, ZenonT(30) DEF WriteInv
    <3>2. CASE w \in Chunk(i)
      <4>1. w \in Pending(c) /\ w \in Sent(c)' /\ w \notin dropped[c] /\ w \notin Pending(c)'
        BY <1>13, <1>15, <3>2, SMTT(30)
      <4>2. mem[Base[c] + 4 * w] = Old
        BY <3>1, <4>1, SMTT(30)
      <4> QED  BY <1>7, <1>16, <3>2, <4>1, <4>2, SMTT(30)
    <3>3. CASE w \notin Chunk(i)
      <4>1. (w \in Sent(c)' /\ w \notin dropped'[c] /\ w \notin Pending(c)')
              <=> (w \in Sent(c) /\ w \notin dropped[c] /\ w \notin Pending(c))
        BY <1>13, <1>15, <1>16, <3>3, SMTT(30)
      <4>2. mem'[Base[c] + 4 * w] = mem[Base[c] + 4 * w]
        BY <1>7, <1>16, <3>3, SMTT(30)
      <4> QED  BY <3>1, <4>1, <4>2, SMTT(30)
    <3> QED  BY <3>2, <3>3, SMTT(30)
  <2> QED  BY <1>13, <2>1, <2>2, <2>3, Zenon DEF WriteInv
<1>18. ReadInv(c)'
  <2>1. (ReadLost \in dropped'[c] <=> ReadLost \in dropped[c]) /\ answers'[c] = <<>> /\ pc'[c] = pc[c]
    BY <1>1, <1>2, <1>5, <1>12, <1>16, SMTT(30)
  <2> QED  BY <1>10, <1>14, <2>1, ZenonT(30) DEF ReadInv
<1>19. ErrorInv(c)'
  <2>1. pc'[c] = pc[c] /\ index'[c] = index[c] /\ errors'[c] = errors[c]
    BY <1>1, SMTT(30)
  <2>2. CASE pc[c] \in {"check", "wait"}
    <3>1. Pending(c) # {}
      BY <1>5, <1>13, SMTT(30)
    <3>2. index[c] = 0 /\ errors[c] = dropped[c] \cap (0 .. index[c] - 1)
      BY <1>3, <1>4, <2>2, <3>1, EtherboneAssumption DEF ClientInv, ErrorInv, Indices
    <3>3. 0 .. index[c] - 1 = {}
      BY <3>2
    <3> QED  BY <2>1, <2>2, <3>2, <3>3 DEF ErrorInv
  <2>3. CASE pc[c] \notin {"check", "wait"}
    BY <1>3, <1>12, <2>1, <2>3, Zenon DEF ClientInv, ErrorInv
  <2> QED  BY <2>2, <2>3, SMTT(30)
<1>20. Types'
  <2>1. inbox' \in Seq(Requests)
    BY <1>1, <1>4, Taken, SMTT(30)
  <2>2. mem' \in [AllAddresses -> Int]
    BY <1>2, <1>4, <1>7, SMTT(30)
  <2>3. dropped' \in [Clients -> SUBSET (Indices \cup {ReadLost})]
    BY <1>2, <1>4, <1>5, SMTT(30)
  <2>4. Requests' = Requests /\ AllAddresses' = AllAddresses /\ Steps' = Steps /\ Indices' = Indices
    BY DEF Requests, AllAddresses, Steps, Indices
  <2> QED  BY <1>1, <1>2, <1>3, <2>1, <2>2, <2>3, <2>4, Zenon DEF Types
<1> QED  BY <1>9, <1>17, <1>18, <1>19, <1>20, SMTT(30) DEF EtherboneInv, ClientInv

\* The server takes a packet of memread.
LEMMA ServeRead ==
  ASSUME StraysHarmless, EtherboneInv, NEW allocated \in BOOLEAN, NEW delivered \in BOOLEAN,
         Serve(allocated, delivered), NEW c \in Clients, NEW j \in Indices, Head(inbox) = ReadPacket(c, j)
  PROVE  EtherboneInv'
<1> DEFINE i == index[c]
           d == ReadPacket(c, i)
           answer == ReadValues(d, mem)
<1>1. inbox # <<>> /\ inbox' = Tail(inbox) /\ pc' = pc /\ index' = index /\ errors' = errors
  BY DEF Serve, scriptVars
<1>2. Types /\ ClientInv(c)
  BY DEF EtherboneInv, ClientInv
<1>3. /\ inbox \in Seq(Requests) /\ mem \in [AllAddresses -> Int]
      /\ dropped \in [Clients -> SUBSET (Indices \cup {ReadLost})]
      /\ answers \in [Clients -> Seq(UNION {[1 .. n -> Int] : n \in Nat})]
      /\ i \in Indices
  <2>1. i \in Indices
    BY <1>2, SMTT(30) DEF Types
  <2> HIDE DEF i, d, answer
  <2> QED  BY <1>2, <2>1, Zenon DEF Types
<1>4. IsRead(Head(inbox), c)
  <2>1. ReadPacket(c, j).src = c /\ ReadPacket(c, j).wcount = 0
    BY ReadFacts
  <2> QED  BY <2>1, SMTT(30) DEF IsRead
<1>5. /\ WriteInv(c) /\ OnePacket(c) /\ ReadsLast(c) /\ index'[c] = index[c]
      /\ ReadInSocket(c) => pc[c] \in {"wait", "failed"} /\ answers[c] = <<>> /\ ReadLost \notin dropped[c]
  BY <1>1, <1>2, Zenon DEF ClientInv, WriteInv, ReadInv
<1>6. Head(inbox) = d /\ ReadInSocket(c)
  <2>1. 1 \in 1 .. Len(inbox) /\ inbox[1] = Head(inbox)
    BY <1>1, <1>3, Taken
  <2>2. IsRead(inbox[1], c)
    BY <1>4, <2>1, SMTT(30)
  <2> QED  BY <1>5, <2>1, <2>2, SMTT(30) DEF ReadsLast, ReadInSocket
<1>7. pc[c] \in {"wait", "failed"} /\ answers[c] = <<>> /\ ReadLost \notin dropped[c]
  BY <1>5, <1>6, SMTT(30)
<1>8. /\ mem' = mem
      /\ \/ answers' = [answers EXCEPT ![c] = Append(@, answer)] /\ dropped' = dropped
         \/ answers' = answers /\ dropped' = [dropped EXCEPT ![c] = @ \cup {ReadLost}]
  BY <1>3, <1>6, ServeReadEffect, SMTT(30)
<1>9. ReadsLast(c)' /\ NothingSent(c)'
  BY <1>1, <1>3, <1>4, <1>5, OrderTaken, Zenon
<1>10. ~ReadInSocket(c)' /\ Pending(c)' = {}
  BY <1>9, ZenonT(30) DEF NothingSent, ReadInSocket, IsRead, Pending, WritesWord
<1>11. Pending(c)' = Pending(c) /\ OnePacket(c)'
  <2>1. /\ Pending(c)' = Pending(c) \ {w \in Indices : WritesWord(Head(inbox), c, w)}
        /\ OnePacket(c)'
    BY <1>1, <1>3, <1>5, PendingTaken, Zenon
  <2>2. {w \in Indices : WritesWord(Head(inbox), c, w)} = {}
    BY WhoWrites, SMTT(30)
  <2> QED  BY <2>1, <2>2
<1>12. /\ i \in Nat /\ Size(i) \in Nat /\ Chunk(i) = i .. i + Size(i) - 1 /\ Chunk(i) \subseteq Indices
       /\ d.rcount = Size(i) /\ \A k \in 1 .. Size(i) : d.record[k] = Base[c] + 4 * (i + k - 1)
  <2>1. i \in Nat /\ Size(i) \in Nat /\ Chunk(i) = i .. i + Size(i) - 1 /\ Chunk(i) \subseteq Indices
    BY <1>3, ChunkSize, SMTT(30)
  <2>2. d.rcount = Size(i) /\ \A k \in 1 .. Size(i) : d.record[k] = Base[c] + 4 * (i + k - 1)
    BY <1>3, ReadFacts, SMTT(30), ZenonT(60)
  <2> QED  BY <2>1, <2>2, SMTT(30)
<1>13. answer = [k \in 1 .. Size(i) |-> mem[d.record[k]]]
  BY <1>12, SMTT(30) DEF ReadValues
<1>14. Sent(c) = Indices /\ Sent(c)' = Sent(c)
  BY <1>1, <1>7, SMTT(30) DEF Sent
<1> HIDE DEF i, d, answer
<1>15. ASSUME NEW w \in Chunk(i) PROVE answer[w - i + 1] = mem[Base[c] + 4 * w]
  <2>1. w - i + 1 \in 1 .. Size(i) /\ i + (w - i + 1) - 1 = w
    BY <1>12, SMTT(30)
  <2>2. d.record[w - i + 1] = Base[c] + 4 * w
    BY <1>12, <2>1, ZenonT(30)
  <2> QED  BY <1>13, <2>1, <2>2, SMTT(30)
<1>16. ASSUME NEW w \in Chunk(i) PROVE answer[w - i + 1] # RefData[c][w] <=> w \in dropped[c]
  <2>1. w \in Indices
    BY <1>12
  <2>2. mem[Base[c] + 4 * w] = IF w \notin dropped[c] THEN RefData[c][w] ELSE Old
    BY <1>5, <1>10, <1>11, <1>14, <2>1, Zenon DEF WriteInv
  <2>3. RefData[c][w] # Old
    BY <2>1, Addresses, SMTT(30)
  <2> QED  BY <1>15, <2>2, <2>3, SMTT(30)
<1>17. answer \in UNION {[1 .. n -> Int] : n \in Nat}
  <2>1. ASSUME NEW k \in 1 .. Size(i) PROVE answer[k] \in Int
    <3>1. i + k - 1 \in Indices /\ d.record[k] = Base[c] + 4 * (i + k - 1)
      BY <1>12, SMTT(30)
    <3>2. d.record[k] \in AllAddresses
      BY <3>1, Addresses, SMTT(30)
    <3> QED  BY <1>3, <1>13, <3>2, SMTT(30)
  <2>2. answer \in [1 .. Size(i) -> Int]
    BY <1>13, <2>1
  <2> QED  BY <1>12, <2>2, SMTT(30)
<1>18. ASSUME NEW e \in Clients \ {c} PROVE ClientInv(e)'
  <2>1. SameScript(e)
    BY <1>1, <1>3, <1>8, ZenonT(30) DEF SameScript
  <2>2. ClientInv(e) /\ Head(inbox).src # e
    BY <1>4, ZenonT(30) DEF EtherboneInv, ClientInv, IsRead
  <2> QED  BY <1>1, <1>3, <2>1, <2>2, UnmovedTaken, Zenon
<1>19. \/ dropped'[c] = dropped[c] /\ answers'[c] = Append(<<>>, answer)
       \/ dropped'[c] = dropped[c] \cup {ReadLost} /\ answers'[c] = <<>>
  BY <1>3, <1>7, <1>8, SMTT(30)
<1>20. \A w \in Indices : w \in dropped'[c] <=> w \in dropped[c]
  BY <1>19, EtherboneAssumption, SMTT(30) DEF Indices, ReadLost
<1>21. WriteInv(c)'
  <2>1. dropped'[c] \subseteq Sent(c)' \cup {ReadLost} /\ Pending(c)' \subseteq Sent(c)' \ dropped'[c]
    BY <1>5, <1>10, <1>14, <1>19, Zenon DEF WriteInv
  <2>2. ASSUME NEW w \in Indices
        PROVE  mem'[Base[c] + 4 * w] =
                 IF w \in Sent(c)' /\ w \notin dropped'[c] /\ w \notin Pending(c)' THEN RefData[c][w] ELSE Old
    BY <1>5, <1>8, <1>11, <1>14, <1>20, Zenon DEF WriteInv
  <2> QED  BY <1>11, <2>1, <2>2 DEF WriteInv
<1>22. ReadInv(c)'
  <2>1. pc'[c] \in {"wait", "failed"} /\ index'[c] = i
    BY <1>1, <1>7, ZenonT(30) DEF i
  <2>2. CASE dropped'[c] = dropped[c] /\ answers'[c] = Append(<<>>, answer)
    <3>1. Len(answers'[c]) = 1 /\ answers'[c][1] = answer
      BY <2>2, OneAppended, Zenon
    <3>2. \A w \in Chunk(index'[c]) : answers'[c][1][w - index'[c] + 1] # RefData[c][w] <=> w \in dropped'[c]
      BY <1>16, <2>1, <2>2, <3>1, Zenon
    <3>3. \A w \in Chunk(index[c])' : answers'[c][1][w - index'[c] + 1] # RefData[c][w] <=> w \in dropped'[c]
      BY <3>2, Zenon DEF Chunk, Size
    <3> QED  BY <1>7, <1>9, <1>10, <2>1, <2>2, <3>1, <3>3, Zenon DEF ReadInv
  <2>3. CASE dropped'[c] = dropped[c] \cup {ReadLost} /\ answers'[c] = <<>>
    BY <1>9, <1>10, <2>1, <2>3, Zenon DEF ReadInv
  <2> QED  BY <1>19, <2>2, <2>3, ZenonT(30)
<1>23. ErrorInv(c)'
  <2>1. pc'[c] = pc[c] /\ index'[c] = index[c] /\ errors'[c] = errors[c]
    BY <1>1, ZenonT(30)
  <2>2. 0 .. index[c] - 1 \subseteq Indices
    BY <1>3, EtherboneAssumption DEF i, Indices
  <2>3. pc[c] = "wait" => errors'[c] = dropped'[c] \cap (0 .. index'[c] - 1)
    BY <1>2, <1>20, <2>1, <2>2, Zenon DEF ClientInv, ErrorInv
  <2> QED  BY <1>7, <1>10, <2>1, <2>3, ZenonT(30) DEF ErrorInv
<1>24. Types'
  <2>1. inbox' \in Seq(Requests)
    BY <1>1, <1>3, Taken
  <2>2. answers' \in [Clients -> Seq(UNION {[1 .. n -> Int] : n \in Nat})]
    <3> DEFINE A == UNION {[1 .. n -> Int] : n \in Nat}
    <3>1. answers \in [Clients -> Seq(A)] /\ answer \in A
      BY <1>3, <1>17, SMTT(30)
    <3> HIDE DEF A
    <3>2. Append(answers[c], answer) \in Seq(A)
      BY <3>1
    <3>3. answers' \in [Clients -> Seq(A)]
      BY <1>8, <3>1, <3>2, Zenon
    <3> QED  BY <3>3, SMTT(30) DEF A
  <2>3. dropped' \in [Clients -> SUBSET (Indices \cup {ReadLost})]
    BY <1>3, <1>8, SMTT(30)
  <2>4. Requests' = Requests /\ AllAddresses' = AllAddresses /\ Steps' = Steps /\ Indices' = Indices
    BY DEF Requests, AllAddresses, Steps, Indices
  <2> QED  BY <1>1, <1>2, <1>8, <2>1, <2>2, <2>3, <2>4, Zenon DEF Types
<1> QED  BY <1>18, <1>21, <1>22, <1>23, <1>24, SMTT(30) DEF EtherboneInv, ClientInv

\* A step of the server, whatever it takes from its socket.
LEMMA ServeStep ==
  ASSUME StraysHarmless, RangesDisjoint, EtherboneInv, NEW allocated \in BOOLEAN, NEW delivered \in BOOLEAN,
         Serve(allocated, delivered)
  PROVE  EtherboneInv'
<1>1. inbox \in Seq(Requests) /\ inbox # <<>> /\ inbox' = Tail(inbox)
  BY ZenonT(30) DEF EtherboneInv, Types, Serve
<1>2. Head(inbox) \in Requests
  BY <1>1, Taken
<1>3. \/ Head(inbox) \in Strays
      \/ \E c \in Clients, i \in Indices : Head(inbox) = WritePacket(c, i)
      \/ \E c \in Clients, i \in Indices : Head(inbox) = ReadPacket(c, i)
  BY <1>2 DEF Requests
<1> QED  BY <1>3, ServeStray, ServeWrite, ServeRead, SMTT(30)

\* The inductive invariant of the server and its scripts.
LEMMA EtherboneInvariant ==
  ASSUME RangesDisjoint, StraysHarmless
  PROVE  Spec => []EtherboneInv
<1>1. EtherboneInv /\ [Next]_vars => EtherboneInv'
  <2> SUFFICES ASSUME EtherboneInv, [Next]_vars PROVE EtherboneInv'
    OBVIOUS
  <2>1. CASE ServerStep
    BY <2>1, ServeStep DEF ServerStep
  <2>2. CASE SocketFails
    <3>1. /\ mem' = mem /\ inbox' = inbox /\ answers' = answers /\ pc' = pc /\ index' = index
          /\ errors' = errors /\ dropped' = dropped
      BY <2>2 DEF SocketFails, scriptVars
    <3> QED  BY <3>1, QuietStep
  <2>3. CASE \E d \in Strays : Stray(d)
    BY <2>3, StrayStep
  <2>4. ASSUME NEW c \in Clients, ScriptStep(c) PROVE EtherboneInv'
    BY <2>4, MemWriteStep, MemReadStep, ReceiveStep, TimeoutStep, SMTT(30) DEF ScriptStep
  <2>5. CASE UNCHANGED vars
    <3>1. /\ mem' = mem /\ inbox' = inbox /\ answers' = answers /\ pc' = pc /\ index' = index
          /\ errors' = errors /\ dropped' = dropped
      BY <2>5 DEF vars, serverVars, scriptVars
    <3> QED  BY <3>1, QuietStep
  <2> QED  BY <2>1, <2>2, <2>3, <2>4, <2>5 DEF Next
<1> QED  BY <1>1, InitStep, PTL DEF Spec

(***************************************************************************)
(* For any number of scripts with ranges of their own, whatever datagrams  *)
(* are lost and whatever strays arrive that write elsewhere: memtest and   *)
(* memcheck that end report exactly the words whose write was lost         *)
(* (udp_server_run, etherbone_process_packet, memwrite, memread).          *)
(***************************************************************************)
THEOREM MemcheckReportsLosses ==
  ASSUME RangesDisjoint, StraysHarmless
  PROVE  Spec => []MemcheckExact
<1>1. EtherboneInv => MemcheckExact
  BY DEF EtherboneInv, ErrorInv, MemcheckExact
<1> QED  BY <1>1, EtherboneInvariant, PTL
=============================================================================
