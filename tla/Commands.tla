----------------------------- MODULE Commands -----------------------------
(***************************************************************************)
(* How a command becomes the data of a packet and is read back: the AJP    *)
(* request and response headers, the FastCGI parameters, the HTTP/1        *)
(* header.  Each is packed by this server or by a peer that follows the    *)
(* protocol, and unpacked by this server.                                  *)
(*                                                                         *)
(* A byte is a number below Radix.  Of the characters, those below Ascii   *)
(* take one byte and Wide takes two; the delimiters of HTTP/1 are negative *)
(* numbers.  The tables are scaled with the byte: of the five strings of   *)
(* an AJP request two are kept.                                            *)
(***************************************************************************)
EXTENDS Integers, Sequences, SequencesExt

CONSTANTS Messages   \* [format, by, strings, headers, attrs, cut]

VARIABLES
  msg,      \* the command
  bytes,    \* the data of its packet
  pos,      \* the first byte not read
  part,     \* "pack", "fixed", "count", "headers", "attrs", or how it ended
  left,     \* headers still to read
  got       \* [strings, headers, attrs] read so far

vars == <<msg, bytes, pos, part, left, got>>

Radix == 8
Ascii == 4
Wide == 5
WideBytes == <<5, 6>>
Replaced == 7
SP == -1
COLON == -2
CR == -3
LF == -4

Nothing == [strings |-> <<>>, headers |-> <<>>, attrs |-> <<>>]

Init ==
  /\ msg \in Messages
  /\ bytes = <<>> /\ pos = 1 /\ part = "pack" /\ left = 0 /\ got = Nothing

-----------------------------------------------------------------------------
(* to_bytes and from_bytes: what is not UTF-8 is replaced.                 *)
ToBytes(s) == FlattenSeq([i \in DOMAIN s |-> IF s[i] = Wide THEN WideBytes ELSE <<s[i]>>])

FromBytes(b) ==
  LET whole(i) == i < Len(b) /\ SubSeq(b, i, i + 1) = WideBytes
      starts == SelectSeq([i \in DOMAIN b |-> i], LAMBDA i : i = 1 \/ ~whole(i - 1))
  IN [k \in DOMAIN starts |->
        LET i == starts[k] IN IF b[i] < Ascii THEN b[i] ELSE IF whole(i) THEN Wide ELSE Replaced]

-----------------------------------------------------------------------------
(* AjpAccessor.  The length of a string is that of its characters; a peer  *)
(* counts bytes.                                                           *)
NoString == Radix * Radix - 1      \* 0xFFFF
WellKnown == 5 * Radix             \* 0xA000
MaxLength == Radix * Radix         \* what a length of two bytes wraps at
QueryString == 1                   \* 0x05
ReqAttribute == 2                  \* 0x0A
SslKeySize == 3                    \* 0x0B
Terminator == Radix - 1            \* 0xFF
AttributeNames == 1..3             \* attribute_name_map

PutShort(n) == <<(n \div Radix) % Radix, n % Radix>>
PutCounted(s, n) == IF s = <<>> THEN PutShort(NoString) ELSE PutShort(n) \o ToBytes(s) \o <<0>>
PutString(s) == PutCounted(s, IF msg.by = "server" THEN Len(s) ELSE Len(ToBytes(s)))
PutStrings(ss) == FlattenSeq([i \in DOMAIN ss |-> PutString(ss[i])])

(* write_request_headers: a well-known name is its code.                   *)
PutHeaders ==
  PutShort(Len(msg.headers))
  \o FlattenSeq([i \in DOMAIN msg.headers |->
       LET h == msg.headers[i] IN
       (IF h.code > 0 THEN PutShort(WellKnown + h.code) ELSE PutString(h.text)) \o PutString(h.value)])

(* write_attributes: the warp side only sends the query string.            *)
PutAttributes ==
  FlattenSeq([i \in DOMAIN msg.attrs |->
    LET a == msg.attrs[i] IN
    <<a.code>> \o (IF a.code = ReqAttribute THEN PutString(a.text) ELSE <<>>)
               \o (IF a.code = SslKeySize THEN PutShort(Len(a.value)) ELSE PutString(a.value))])
  \o <<Terminator>>

(* CmdParams.write_length: seven bits, or thirty-one in four bytes.        *)
Short == Radix \div 2
WriteLengthTooSoon(n) ==
  IF n <= Short THEN <<n>>
  ELSE <<Short + ((n \div Radix^3) % Short), (n \div Radix^2) % Radix, (n \div Radix) % Radix, n % Radix>>
WriteLength(n) ==
  IF n < Short THEN <<n>>
  ELSE <<Short + ((n \div Radix^3) % Short), (n \div Radix^2) % Radix, (n \div Radix) % Radix, n % Radix>>

PutParams ==
  FlattenSeq([i \in DOMAIN msg.headers |->
    LET n == ToBytes(msg.headers[i].text)  v == ToBytes(msg.headers[i].value)
    IN WriteLength(Len(n)) \o WriteLength(Len(v)) \o n \o v])

(* CmdHeader.pack.                                                         *)
PutHeader ==
  ToBytes(msg.strings[1]) \o <<SP>> \o ToBytes(msg.strings[2]) \o <<SP>> \o ToBytes(msg.strings[3])
  \o <<CR, LF>>
  \o FlattenSeq([i \in DOMAIN msg.headers |->
       ToBytes(msg.headers[i].text) \o <<COLON>> \o ToBytes(msg.headers[i].value) \o <<CR, LF>>])
  \o <<CR, LF>>

Packed ==
  CASE msg.format = "forward" -> PutStrings(msg.strings) \o PutHeaders \o PutAttributes
    [] msg.format = "response" -> PutStrings(msg.strings) \o PutHeaders
    [] msg.format = "params" -> PutParams
    [] msg.format = "h1" -> PutHeader

(* The length in the header of an AJP packet or a FastCGI record has two   *)
(* bytes.  A peer may end a FastCGI record anywhere in its parameters.     *)
Received ==
  IF msg.format = "h1" THEN Packed
  ELSE IF msg.cut > 0 THEN SubSeq(Packed, 1, msg.cut)
  ELSE SubSeq(Packed, 1, Len(Packed) % MaxLength)

Pack ==
  /\ part = "pack"
  /\ bytes' = Received
  /\ part' = CASE msg.format \in {"forward", "response"} -> "fixed"
               [] msg.format = "params" -> "headers"
               [] msg.format = "h1" -> "line"
  /\ UNCHANGED <<msg, pos, left, got>>

-----------------------------------------------------------------------------
(* PacketPartAccessor.get_*: reading past the data is an IOError.          *)
Has(p, n) == p + n - 1 <= Len(bytes)
ShortAt(p) == bytes[p] * Radix + bytes[p + 1]
Fails(how) == part' = how /\ UNCHANGED <<msg, bytes, pos, left, got>>

(* get_string_by_len, as the place behind it and the text.                 *)
ByLen(p, n) == IF n = NoString THEN [ok |-> TRUE, next |-> p, text |-> <<>>]
               ELSE [ok |-> Has(p, n + 1), next |-> p + n + 1,
                     text |-> IF Has(p, n + 1) THEN FromBytes(SubSeq(bytes, p, p + n - 1)) ELSE <<>>]
StringAt(p) == IF Has(p, 2) THEN ByLen(p + 2, ShortAt(p)) ELSE [ok |-> FALSE, next |-> p, text |-> <<>>]

ReadFixed ==
  LET s == StringAt(pos)  last == Len(got.strings) + 1 = Len(msg.strings) IN
  /\ part = "fixed"
  /\ IF s.ok THEN /\ got' = [got EXCEPT !.strings = Append(@, s.text)]
                  /\ pos' = s.next /\ part' = (IF last THEN "count" ELSE part)
                  /\ UNCHANGED <<msg, bytes, left>>
     ELSE Fails("ioError")

AfterHeaders == IF msg.format = "forward" THEN "attrs" ELSE "read"

ReadCount ==
  /\ part = "count"
  /\ IF ~Has(pos, 2) THEN Fails("ioError")
     ELSE /\ left' = ShortAt(pos) /\ pos' = pos + 2
          /\ part' = (IF left' = 0 THEN AfterHeaders ELSE "headers")
          /\ UNCHANGED <<msg, bytes, got>>

(* A name is a code or the length of a text.  A request refuses a code it  *)
(* does not know, a response takes it for a length.                        *)
KnownCodes == {WellKnown + c : c \in 1..2}

ReadHeader ==
  LET code == ShortAt(pos)
      known == code \in KnownCodes
      name == IF known THEN [ok |-> TRUE, next |-> pos + 2, text |-> <<>>] ELSE ByLen(pos + 2, code)
      value == StringAt(name.next)
  IN
  /\ part = "headers" /\ msg.format # "params"
  /\ IF ~Has(pos, 2) THEN Fails("ioError")
     ELSE IF msg.format = "forward" /\ code >= WellKnown /\ ~known THEN Fails("protocol")
     ELSE IF ~name.ok \/ ~value.ok THEN Fails("ioError")
     ELSE /\ got' = [got EXCEPT !.headers = Append(@,
                       [code |-> IF known THEN code - WellKnown ELSE 0, text |-> name.text, value |-> value.text])]
          /\ pos' = value.next /\ left' = left - 1
          /\ part' = (IF left = 1 THEN AfterHeaders ELSE part)
          /\ UNCHANGED <<msg, bytes>>

(* A code that is not in the map is a KeyError, which nobody catches.      *)
ReadAttribute ==
  LET code == bytes[pos]
      name == IF code = ReqAttribute THEN StringAt(pos + 1) ELSE [ok |-> TRUE, next |-> pos + 1, text |-> <<>>]
      size == code = SslKeySize
      value == IF size THEN [ok |-> Has(name.next, 2), next |-> name.next + 2,
                             text |-> IF Has(name.next, 2) THEN [i \in 1..ShortAt(name.next) |-> 1] ELSE <<>>]
               ELSE StringAt(name.next)
  IN
  /\ part = "attrs"
  /\ IF ~Has(pos, 1) THEN Fails("ioError")
     ELSE IF code = Terminator THEN Fails("read")
     ELSE IF code \notin AttributeNames THEN Fails("keyError")
     ELSE IF ~name.ok \/ ~value.ok THEN Fails("ioError")
     ELSE /\ got' = [got EXCEPT !.attrs = Append(@, [code |-> code, text |-> name.text, value |-> value.text])]
          /\ pos' = value.next
          /\ UNCHANGED <<msg, bytes, part, left>>

(* read_length.                                                            *)
LengthAt(p) ==
  IF ~Has(p, 1) THEN [ok |-> FALSE, next |-> p, n |-> 0]
  ELSE IF bytes[p] < Short THEN [ok |-> TRUE, next |-> p + 1, n |-> bytes[p]]
  ELSE [ok |-> Has(p, 4), next |-> p + 4,
        n |-> IF ~Has(p, 4) THEN 0
              ELSE (bytes[p] - Short) * Radix^3 + bytes[p + 1] * Radix^2 + bytes[p + 2] * Radix + bytes[p + 3]]

ReadParam ==
  LET n == LengthAt(pos)  v == LengthAt(n.next) IN
  /\ part = "headers" /\ msg.format = "params"
  /\ IF pos > Len(bytes) THEN Fails("read")
     ELSE IF ~n.ok \/ ~v.ok \/ ~Has(v.next, n.n + v.n) THEN Fails("ioError")
     ELSE /\ got' = [got EXCEPT !.headers = Append(@,
                       [code |-> 0, text |-> FromBytes(SubSeq(bytes, v.next, v.next + n.n - 1)),
                        value |-> FromBytes(SubSeq(bytes, v.next + n.n, v.next + n.n + v.n - 1))])]
          /\ pos' = v.next + n.n + v.n
          /\ UNCHANGED <<msg, bytes, part, left>>

-----------------------------------------------------------------------------
(* CmdHeader.unpack: a line is cut at its LF and is as long as it has      *)
(* bytes that are not CR.                                                  *)
LineEnd == CHOOSE i \in pos..Len(bytes) : bytes[i] = LF /\ \A j \in pos..i - 1 : bytes[j] # LF
LineLen == Len(SelectSeq(SubSeq(bytes, pos, LineEnd - 1), LAMBDA b : b # CR))
Text == SubSeq(bytes, pos, pos + LineLen - 1)

(* Where the first i-th byte equal to b is, 0 if there is none.            *)
Split(t, b) == SelectSeq([i \in DOMAIN t |-> i], LAMBDA i : t[i] = b)

UnpackFirstLine ==
  LET sp == Split(Text, SP) IN
  IF Len(sp) # 2 THEN Fails("protocol")
  ELSE /\ got' = [got EXCEPT !.strings =
                    <<FromBytes(SubSeq(Text, 1, sp[1] - 1)), FromBytes(SubSeq(Text, sp[1] + 1, sp[2] - 1)),
                      FromBytes(SubSeq(Text, sp[2] + 1, Len(Text)))>>]
       /\ pos' = LineEnd + 1 /\ UNCHANGED <<msg, bytes, part, left>>

SkipSpaces(t) ==
  LET rest == {i \in DOMAIN t : t[i] # SP}
  IN IF rest = {} THEN <<>> ELSE SubSeq(t, CHOOSE i \in rest : \A j \in rest : i <= j, Len(t))

UnpackMessageHeader ==
  LET colon == Split(Text, COLON) IN
  IF colon = <<>> THEN Fails("protocol")
  ELSE /\ got' = [got EXCEPT !.headers = Append(@,
                    [code |-> 0, text |-> FromBytes(SkipSpaces(SubSeq(Text, 1, colon[1] - 1))),
                     value |-> FromBytes(SkipSpaces(SubSeq(Text, colon[1] + 1, Len(Text))))])]
       /\ pos' = LineEnd + 1 /\ UNCHANGED <<msg, bytes, part, left>>

ReadLine ==
  /\ part = "line"
  /\ IF LineLen = 0 THEN Fails("read")
     ELSE IF got.strings = <<>> THEN UnpackFirstLine ELSE UnpackMessageHeader

Next ==
  \/ Pack \/ ReadFixed \/ ReadCount \/ ReadHeader \/ ReadAttribute \/ ReadParam \/ ReadLine

Spec == Init /\ [][Next]_vars

-----------------------------------------------------------------------------
Narrow(s) == ~Contains(s, Wide)
Ended == part \in {"read", "ioError", "protocol", "keyError"}
Ends(i) == Len(FlattenSeq([k \in 1..i |->
             LET n == ToBytes(msg.headers[k].text)  v == ToBytes(msg.headers[k].value)
             IN WriteLength(Len(n)) \o WriteLength(Len(v)) \o n \o v]))

(* The commands that survive the way: texts that AJP would have to count   *)
(* in bytes do not when this server counts them, nor an attribute outside  *)
(* the map, a packet longer than its length can say, a parameter cut by    *)
(* the end of a record, a space in the first line of HTTP/1 or at the      *)
(* start of a value.                                                       *)
Plain ==
  CASE msg.format \in {"forward", "response"} ->
         /\ Len(Packed) < MaxLength
         /\ \A i \in DOMAIN msg.attrs : msg.attrs[i].code \in AttributeNames
         /\ msg.by = "server" =>
              /\ \A i \in DOMAIN msg.strings : Narrow(msg.strings[i])
              /\ \A i \in DOMAIN msg.headers : Narrow(msg.headers[i].text) /\ Narrow(msg.headers[i].value)
              /\ \A i \in DOMAIN msg.attrs : Narrow(msg.attrs[i].value)
    [] msg.format = "params" -> Len(Packed) < MaxLength /\ msg.cut \in {0, Len(Packed)}
    [] msg.format = "h1" ->
         /\ \A i \in DOMAIN msg.strings : ~Contains(msg.strings[i], SP)
         /\ \A i \in DOMAIN msg.headers : msg.headers[i].value = <<>> \/ Head(msg.headers[i].value) # SP

(* A command is read back as it was packed exactly when it is plain, and a *)
(* record of parameters cut between two of them is read up to the cut.     *)
CommandsAgree ==
  Ended =>
    /\ (part = "read" /\ got = [strings |-> msg.strings, headers |-> msg.headers, attrs |-> msg.attrs]) <=> Plain
    /\ \A i \in DOMAIN msg.headers :
         msg.format = "params" /\ Ends(i) = msg.cut /\ Len(Packed) < MaxLength
           => part = "read" /\ got.headers = SubSeq(msg.headers, 1, i)
=============================================================================
