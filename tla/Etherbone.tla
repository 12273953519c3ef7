------------------------------ MODULE Etherbone ------------------------------
(***************************************************************************)
(* The UDP server of the ZCU104 firmware that gives the scripts access to  *)
(* the memory of the FPGA (firmware/zcu104/etherbone), with scripts that   *)
(* fill a range of memory and check it (memtest of scripts/mem.py, memfill *)
(* and memcheck of scripts/utils.py), each from a socket of its own.       *)
(*                                                                         *)
(* UDP and the client library are external: a datagram may be lost, a full *)
(* socket buffer loses it, those that arrive do so in order; wb.write is   *)
(* not acknowledged, wb.read waits for its answer and raises when it does  *)
(* not come.  Words are in host order: the server converts what it reads   *)
(* from a packet and converts back what it puts into one.                  *)
(***************************************************************************)
EXTENDS Integers, Sequences

CONSTANTS
  Clients,               \* the scripts
  Base,                  \* byte address of the range of each script
  NumWords,              \* words of a range
  RefData,               \* of each script: the word it writes at each index
  CountMod,              \* wcount and rcount are modulo CountMod (2^8)
  Burst,                 \* words of a transfer of memwrite and memread (0xff)
  SocketBuffer,          \* datagrams the socket of the server holds
  Strays,                \* other datagrams that may arrive,
  StrayBound             \* and how many

ASSUME EtherboneAssumption ==
  /\ NumWords \in Nat \ {0} /\ CountMod \in Nat /\ Burst \in 1 .. CountMod - 1
  /\ SocketBuffer \in Nat \ {0} /\ StrayBound \in Nat
  /\ Base \in [Clients -> Nat]
  /\ RefData \in [Clients -> [0 .. NumWords - 1 -> Nat \ {0}]]

VARIABLES
  mem,                   \* the mapped memory: byte address -> word
  etherbone_abort,       \* option --etherbone-abort
  server,                \* "running", "aborted" or "socket_error"
  inbox,                 \* datagrams in the socket of the server
  answers,               \* answers in the socket of each client
  strays,                \* strays that have arrived
  pc, index, errors,     \* of each script: step, index of the next transfer, result
  dropped                \* of each script: the words whose write was lost, and
                         \* ReadLost if a read or its answer was

serverVars == <<etherbone_abort, mem, server>>
scriptVars == <<pc, index, errors>>
vars == <<serverVars, inbox, answers, strays, scriptVars, dropped>>

Other == "other"         \* the sender of the strays
Old == 0                 \* what memory holds before the scripts, in no reference data
ReadLost == -1

\* The transfer of memwrite and memread that starts at word i: its length and its words.
Size(i) == IF i + Burst < NumWords THEN Burst ELSE NumWords - i
Chunk(i) == i .. i + Size(i) - 1

RangeOf(c) == {Base[c] + 4 * i : i \in 0 .. NumWords - 1}

Init ==
  /\ mem = [a \in UNION {RangeOf(c) : c \in Clients} |-> Old]
  /\ etherbone_abort \in BOOLEAN /\ server = "running"
  /\ inbox = <<>> /\ answers = [c \in Clients |-> <<>>] /\ strays = 0
  /\ pc = [c \in Clients |-> "fill"] /\ index = [c \in Clients |-> 0]
  /\ errors = [c \in Clients |-> {}] /\ dropped = [c \in Clients |-> {}]
-----------------------------------------------------------------------------
(***************************************************************************)
(* The packet of a datagram.  `magic': is there one?  `available': bytes   *)
(* from the magic on; `header': are version and sizes right?               *)
(***************************************************************************)
PacketLen(d) ==
  8 + (IF d.pf THEN 0
       ELSE 4 + (IF d.wcount > 0 THEN (1 + d.wcount) * 4 ELSE 0)
              + (IF d.rcount > 0 THEN (1 + d.rcount) * 4 ELSE 0))

\* A packet of the client library: one base address, then the words.
Packet(c, w, r, base, words) ==
  [src |-> c, magic |-> TRUE, header |-> TRUE, pf |-> FALSE,
   available |-> 16 + 4 * Len(words), wcount |-> w % CountMod, rcount |-> r % CountMod,
   base |-> base, record |-> words]

WritePacket(c, i) ==
  Packet(c, Size(i), 0, Base[c] + 4 * i,
         [k \in 1 .. Size(i) |-> RefData[c][i + k - 1]])

ReadPacket(c, i) ==
  Packet(c, 0, Size(i), 0,
         [k \in 1 .. Size(i) |-> Base[c] + 4 * (i + k - 1)])

\* etherbone_callback and etherbone_check_header up to the first error.
Accepted(d, allocated) ==
  /\ d.magic /\ d.available >= 8 /\ d.available >= PacketLen(d)
  /\ allocated /\ d.header

\* Mutant: the address of the writes does not advance.
MutantWritesOneWord(d) ==
  LET written == IF d.wcount > 0 THEN {d.base} ELSE {}
  IN  [a \in DOMAIN mem |-> IF a \in written THEN d.record[1] ELSE mem[a]]

\* etherbone_process_packet: memory after the writes, and what the reads return.
Written(d) ==
  [a \in DOMAIN mem |->
     IF a \in {d.base + 4 * k : k \in 0 .. d.wcount - 1}
       THEN d.record[(a - d.base) \div 4 + 1] ELSE mem[a]]

ReadValues(d, m) == [k \in 1 .. d.rcount |-> m[d.record[k]]]

\* The length etherbone_process_packet returns.
ResponseLen(d) == IF d.pf THEN 8 ELSE IF d.rcount > 0 THEN 16 + 4 * d.rcount ELSE 0

etherbone_callback(d, allocated) == IF Accepted(d, allocated) THEN ResponseLen(d) ELSE -1

\* Mutant: errors reach the server loop with either callback.
MutantPassesErrors(d, allocated) == etherbone_callback(d, allocated)

etherbone_noerror_callback(d, allocated) ==
  IF etherbone_callback(d, allocated) < 0 THEN 0 ELSE etherbone_callback(d, allocated)

Callback(d, allocated) ==
  IF etherbone_abort THEN etherbone_callback(d, allocated)
                     ELSE etherbone_noerror_callback(d, allocated)

\* What is lost with a datagram of script c.
Loss(d) ==
  IF d.src = Other THEN dropped
  ELSE [dropped EXCEPT ![d.src] = @ \cup
          (IF d.wcount > 0 THEN {(d.base - Base[d.src]) \div 4 + k : k \in 0 .. d.wcount - 1}
                           ELSE {ReadLost})]

(***************************************************************************)
(* One round of udp_server_run: the next datagram, its callback and the    *)
(* answer to its sender, which may get lost.                               *)
(***************************************************************************)
Serve(allocated, delivered) ==
  LET d == Head(inbox)
      applied == Accepted(d, allocated) /\ ~d.pf
      after == IF applied THEN Written(d) ELSE mem
  IN  /\ server = "running" /\ inbox # <<>>
      /\ inbox' = Tail(inbox)
      /\ mem' = after
      /\ server' = IF Callback(d, allocated) < 0 THEN "aborted" ELSE server
      /\ IF Callback(d, allocated) > 0 /\ d.src \in Clients /\ delivered
           THEN /\ answers' = [answers EXCEPT ![d.src] = Append(@, ReadValues(d, after))]
                /\ UNCHANGED dropped
           ELSE /\ dropped' = IF applied /\ d.wcount > 0 THEN dropped ELSE Loss(d)
                /\ UNCHANGED answers
      /\ UNCHANGED <<etherbone_abort, strays, scriptVars>>

\* recvfrom or sendto fails.
SocketFails ==
  /\ server = "running" /\ server' = "socket_error"
  /\ UNCHANGED <<mem, etherbone_abort, inbox, answers, strays, scriptVars, dropped>>

\* A datagram goes to the server.
Send(d, arrives) ==
  IF arrives /\ Len(inbox) < SocketBuffer
    THEN inbox' = Append(inbox, d) /\ UNCHANGED dropped
    ELSE dropped' = Loss(d) /\ UNCHANGED inbox

Stray(d) ==
  /\ strays < StrayBound /\ strays' = strays + 1
  /\ Send(d, TRUE)
  /\ UNCHANGED <<serverVars, answers, scriptVars>>
-----------------------------------------------------------------------------
Advance(c, next) ==
  IF index[c] + Burst < NumWords
    THEN index' = [index EXCEPT ![c] = @ + Burst] /\ UNCHANGED pc
    ELSE index' = [index EXCEPT ![c] = 0] /\ pc' = [pc EXCEPT ![c] = next]

\* memtest and memfill: memwrite, transfer by transfer.
MemWrite(c, arrives) ==
  /\ pc[c] = "fill"
  /\ Send(WritePacket(c, index[c]), arrives)
  /\ Advance(c, "check")
  /\ UNCHANGED <<serverVars, answers, strays, errors>>

\* memtest and memcheck: memread, transfer by transfer.
MemRead(c, arrives) ==
  /\ pc[c] = "check"
  /\ Send(ReadPacket(c, index[c]), arrives)
  /\ pc' = [pc EXCEPT ![c] = "wait"]
  /\ UNCHANGED <<serverVars, answers, strays, index, errors>>

Receive(c) ==
  /\ pc[c] = "wait" /\ answers[c] # <<>>
  /\ answers' = [answers EXCEPT ![c] = Tail(@)]
  /\ errors' = [errors EXCEPT ![c] = @ \cup
       {i \in Chunk(index[c]) : Head(answers[c])[i - index[c] + 1] # RefData[c][i]}]
  /\ IF index[c] + Burst < NumWords
       THEN index' = [index EXCEPT ![c] = @ + Burst] /\ pc' = [pc EXCEPT ![c] = "check"]
       ELSE pc' = [pc EXCEPT ![c] = "done"] /\ UNCHANGED index
  /\ UNCHANGED <<serverVars, inbox, strays, dropped>>

\* The client library gives up: no answer is under way.
Timeout(c) ==
  /\ pc[c] = "wait" /\ answers[c] = <<>>
  /\ server # "running" \/ \A k \in 1 .. Len(inbox) : inbox[k].src # c
  /\ pc' = [pc EXCEPT ![c] = "failed"]
  /\ UNCHANGED <<serverVars, inbox, answers, strays, index, errors, dropped>>

ServerStep == \E allocated, delivered \in BOOLEAN : Serve(allocated, delivered)

ScriptStep(c) ==
  \/ \E arrives \in BOOLEAN : MemWrite(c, arrives) \/ MemRead(c, arrives)
  \/ Receive(c) \/ Timeout(c)

Next ==
  \/ ServerStep \/ SocketFails
  \/ \E d \in Strays : Stray(d)
  \/ \E c \in Clients : ScriptStep(c)

\* The server loop and the scripts go on.
Spec ==
  /\ Init /\ [][Next]_vars
  /\ WF_vars(ServerStep) /\ \A c \in Clients : WF_vars(ScriptStep(c))
-----------------------------------------------------------------------------
(***************************************************************************)
(* memtest and memcheck report exactly the words whose write was lost: a   *)
(* transfer is applied as a whole or not at all, each word at its own      *)
(* address, answers go to the script that asked, and neither another       *)
(* script nor a datagram that is malformed or not for memory disturbs it   *)
(* (etherbone_process_packet, udp_server_run, memwrite and memread).       *)
(***************************************************************************)
MemcheckExact == \A c \in Clients : pc[c] = "done" => errors[c] = dropped[c]

(***************************************************************************)
(* Every script ends, and with a result unless its own read or the answer  *)
(* to it was lost or the server ended; the server only ends when a socket  *)
(* fails or --etherbone-abort asks for it (cmdline.c, usage: "Abort on     *)
(* EtherBone packet errors (default: false)").                             *)
(***************************************************************************)
ScriptsEnd ==
  \A c \in Clients :
    <>(\/ pc[c] = "done"
       \/ /\ pc[c] = "failed"
          /\ \/ ReadLost \in dropped[c]
             \/ server = "socket_error"
             \/ server = "aborted" /\ etherbone_abort)
=============================================================================
