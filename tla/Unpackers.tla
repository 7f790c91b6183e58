----------------------------- MODULE Unpackers -----------------------------
(***************************************************************************)
(* The packet unpackers of HTTP/2, FastCGI and AJP: bytes_received is      *)
(* given whatever one read returned and cuts it into packets, each of      *)
(* which it hands to the handler at once.  A packet is read part by part,  *)
(* one iteration of the loop per part and read; what the loop keeps        *)
(* between two reads is the part it is at and how much of it it holds.     *)
(*                                                                         *)
(* The bytes of a connection are numbered.  A message of the client is     *)
(*   [len, pad, answer, wants]                                             *)
(* with the lengths its header declares, the action its handler returns    *)
(* and, for AJP, whether the handler then needs data.                      *)
(***************************************************************************)
EXTENDS Naturals, Sequences, SequencesExt

CONSTANT
  Streams,    \* [proto, msgs : Seq(message)]
  PrefaceLen, \* 24
  MaxRead     \* the longest read

VARIABLES
  stream,
  pos, end,   \* the next byte to look at; the last byte received
  part, got,  \* the part of the packet and how many bytes of it are held
  from,       \* the first byte of the packet
  need,       \* need_data, as it was read after the last packet
  suspend,    \* SUSPEND was answered to a packet of this read
  phase,      \* "idle", "reading", "failed", "closed"
  packets,    \* what was handed on: [from, to, data]
  dropped     \* history: the rest of a read was thrown away

vars == <<stream, pos, end, part, got, from, need, suspend, phase, packets, dropped>>

proto == stream.proto
msgs == stream.msgs

-----------------------------------------------------------------------------
(* What the client sent.                                                   *)

(* The parts in front of the length: an HTTP/2 frame header is read as     *)
(* four items, FastCGI and AJP read a preamble.                            *)
HeaderParts == [h2 |-> <<3, 1, 1, 4>>, fcgi |-> <<8>>, ajp |-> <<4>>]
HeaderLen == [h2 |-> 9, fcgi |-> 8, ajp |-> 4]

Greeting == IF proto = "h2" THEN PrefaceLen ELSE 0
Size(m) == HeaderLen[proto] + m.len + m.pad
Before(i) == FoldLeft(LAMBDA n, m : n + Size(m), Greeting, SubSeq(msgs, 1, i - 1))
Total == Before(Len(msgs) + 1)
Starting(p) == {i \in DOMAIN msgs : Before(i) = p - 1}

(* The lengths of the parts of the packet that begins at byte from.        *)
Lengths(m) == IF proto = "fcgi" THEN HeaderParts[proto] \o <<m.len, m.pad>>
              ELSE Append(HeaderParts[proto], m.len)

Current == msgs[CHOOSE i \in Starting(from) : TRUE]

-----------------------------------------------------------------------------
(* Part 0 is the preface of HTTP/2.                                        *)
FirstPart == 1
PartLen == IF part = 0 THEN PrefaceLen ELSE Lengths(Current)[part]

Init ==
  /\ stream \in Streams
  /\ part = IF stream.proto = "h2" THEN 0 ELSE FirstPart
  /\ pos = 1 /\ end = 0 /\ got = 0
  /\ from = (IF stream.proto = "h2" THEN PrefaceLen ELSE 0) + 1
  /\ need = FALSE /\ suspend = FALSE /\ phase = "idle"
  /\ packets = <<>> /\ dropped = FALSE

Read(n) ==
  /\ phase = "idle"
  /\ end + n <= Total
  /\ end' = end + n /\ phase' = "reading" /\ suspend' = FALSE
  /\ UNCHANGED <<stream, pos, part, got, from, need, packets, dropped>>

(* What follows a part that is complete.  FastCGI leaves out a content or  *)
(* padding of no bytes; AJP goes on to an empty body without asking for    *)
(* more bytes.  HTTP/2 comes to an empty payload only if the read holds    *)
(* another byte.  Mutant: FastCGI does not look for padding after an empty *)
(* content.                                                                *)
Rest(k) == {j \in (k + 1)..Len(Lengths(Current)) : Lengths(Current)[j] > 0}
LeastOf(S) == CHOOSE j \in S : \A i \in S : j <= i
PaddingForgotten(k) ==
  IF proto = "fcgi"
  THEN IF Rest(k) = {} \/ Lengths(Current)[2] = 0 THEN 0 ELSE LeastOf(Rest(k))
  ELSE IF k < Len(Lengths(Current)) THEN k + 1 ELSE 0
AfterPart(k) ==
  IF proto = "fcgi"
  THEN IF Rest(k) = {} THEN 0 ELSE LeastOf(Rest(k))
  ELSE IF k < Len(Lengths(Current)) THEN k + 1 ELSE 0

(* A packet is complete, its state reset: the answer of its handler.       *)
(* HTTP/2 and AJP leave at once for anything but CONTINUE and SUSPEND.     *)
(* FastCGI looks at its own state instead of at the answer: it always goes *)
(* on.                                                                     *)
Leaves(answer) == proto # "fcgi" /\ answer \notin {"CONTINUE", "SUSPEND"}

Deliver(upto) ==
  LET m == Current IN
  /\ packets' = Append(packets, [from |-> from, to |-> upto, data |-> proto = "ajp" /\ need])
  /\ part' = FirstPart /\ got' = 0 /\ need' = m.wants
  /\ suspend' = (suspend \/ (proto # "fcgi" /\ m.answer = "SUSPEND"))
  /\ IF Leaves(m.answer)
     THEN /\ phase' = (IF m.answer = "CLOSE" THEN "closed" ELSE "idle")
          /\ pos' = end + 1 /\ from' = end + 1
          /\ dropped' = (dropped \/ upto < end)
     ELSE /\ pos' = upto + 1 /\ from' = upto + 1
          /\ UNCHANGED <<phase, dropped>>

(* One part: as much of it as the read holds.  A header that does not      *)
(* begin where a message does declares anything; the model stops there.    *)
Aligned == part = 0 \/ Starting(from) # {}
Taken == IF PartLen - got < end + 1 - pos THEN PartLen - got ELSE end + 1 - pos
(* The loop goes on while the read holds bytes; the body of AJP is looked  *)
(* at in the iteration that completed the preamble.  Mutant: in the next.  *)
ReadsLazily == pos <= end
Reads == pos <= end \/ (proto = "ajp" /\ part > 1 /\ PartLen = got)

ReadPart ==
  /\ phase = "reading" /\ Reads /\ Aligned
  /\ IF got + Taken < PartLen
     THEN /\ got' = got + Taken /\ pos' = pos + Taken
          /\ UNCHANGED <<part, from, need, suspend, phase, packets, dropped>>
     ELSE IF part = 0
     THEN /\ part' = FirstPart /\ got' = 0 /\ pos' = pos + Taken
          /\ UNCHANGED <<from, need, suspend, phase, packets, dropped>>
     ELSE IF AfterPart(part) = 0
     THEN Deliver(pos + Taken - 1)
     ELSE /\ part' = AfterPart(part) /\ got' = 0 /\ pos' = pos + Taken
          /\ UNCHANGED <<from, need, suspend, phase, packets, dropped>>
  /\ UNCHANGED <<stream, end>>

(* A preamble of AJP that does not begin with its magic number raises.     *)
Garbled ==
  /\ phase = "reading" /\ pos <= end /\ ~Aligned
  /\ phase' = "failed"
  /\ UNCHANGED <<stream, pos, end, part, got, from, need, suspend, packets, dropped>>

(* The read is used up: SUSPEND if some packet of it was answered so.  The *)
(* ship is read again once it is resumed.                                  *)
Return ==
  /\ phase = "reading" /\ ~Reads
  /\ phase' = "idle"
  /\ UNCHANGED <<stream, pos, end, part, got, from, need, suspend, packets, dropped>>

Next == (\E n \in 1..MaxRead : Read(n)) \/ ReadPart \/ Garbled \/ Return

Spec == Init /\ [][Next]_vars

-----------------------------------------------------------------------------
(* Properties.                                                             *)

Message(i) == [from |-> Before(i) + 1, to |-> Before(i + 1), data |-> FALSE]

(* However the client's bytes are divided into reads, the packets are its  *)
(* messages, whole and in order, an AJP packet is read as data exactly if  *)
(* the handler of the packet before it needed data; until an answer other  *)
(* than CONTINUE and SUSPEND makes the unpacker throw the rest of a read   *)
(* away.  bytes_received keeps its place between reads for this.           *)
PacketsWhole ==
  /\ ~dropped => /\ Len(packets) <= Len(msgs)
                 /\ \A k \in DOMAIN packets :
                      packets[k] = [Message(k) EXCEPT !.data = proto = "ajp" /\ k > 1 /\ msgs[k - 1].wants]
  /\ phase = "failed" => dropped
  /\ dropped => /\ proto # "fcgi"
                /\ \E i \in DOMAIN msgs, k \in DOMAIN packets :
                     Message(i).from = packets[k].from /\ msgs[i].answer \in {"WRITE", "CLOSE"}

(* Between two reads no complete message waits in the unpacker - its       *)
(* client may not send another byte before it is answered - except an      *)
(* HTTP/2 frame without payload that ends the read, as the SETTINGS        *)
(* acknowledgement of every client does: it is held back until the next    *)
(* byte comes.  And a SUSPEND that was answered to any packet of a read is *)
(* what the read returns, but for FastCGI.                                 *)
NothingHeldBack ==
  phase = "idle" /\ ~dropped =>
    /\ LET n == Len(packets) IN
       n < Len(msgs) /\ Before(n + 2) <= end => proto = "h2" /\ msgs[n + 1].len = 0 /\ Before(n + 2) = end
    /\ \A k \in DOMAIN packets : packets[k].to = end /\ msgs[k].answer = "SUSPEND" =>
                                   suspend = (proto # "fcgi")
=============================================================================
