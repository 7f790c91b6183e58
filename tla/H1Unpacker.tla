----------------------------- MODULE H1Unpacker -----------------------------
(***************************************************************************)
(* The unpacker of HTTP/1, which has no packets: bytes_received makes one  *)
(* of a request's header and one of each piece of its body, and asks the   *)
(* inbound handler after each whether the request is finished.             *)
(*                                                                         *)
(* The bytes of a connection are numbered.  A byte is [req, kind]: the     *)
(* request it belongs to and what it is,                                   *)
(*   "first"  a character of the request line,                             *)
(*   "length" a character of its content-length line,                      *)
(*   "CR", "LF", or "body".                                                *)
(***************************************************************************)
EXTENDS Integers, Sequences, FiniteSets

CONSTANTS
  Inputs,      \* what a client sends: sequences of bytes
  MaxDataLen,  \* H1Packet.MAX_DATA_LEN
  MaxLineLen   \* H1PacketUnPacker.MAX_LINE_LEN

VARIABLES
  bytes,
  pos, end,   \* the next byte to look at; the last byte received
  state,      \* STATE_READ_HEADERS, STATE_READ_CONTENT, STATE_END
  from,       \* tmp_buf holds the bytes from here up to pos
  line_len,   \* local to bytes_received
  want,       \* the handler: bytes_limit - bytes_posted of its tour
  cur,        \* the handler: the request of cur_tour, 0 without one
  refused,    \* requests refused at their header with a body to come
  phase,      \* "idle", "reading", "failed"
  packets,    \* what was handed on: [type, from, to, req]
  cut,        \* history: a read has ended inside a line, after its text
  dropped     \* history: the bytes thrown away

vars == <<bytes, pos, end, state, from, line_len, want, cur, refused, phase, packets, cut, dropped>>

Kind(p) == bytes[p].kind
Of(r, k) == {p \in DOMAIN bytes : bytes[p] = [req |-> r, kind |-> k]}
BodyLen(r) == Cardinality(Of(r, "body"))
FirstByte(r) == CHOOSE p \in DOMAIN bytes :
                  bytes[p].req = r /\ \A q \in DOMAIN bytes : bytes[q].req = r => p <= q

Init ==
  /\ bytes \in Inputs
  /\ pos = 1 /\ end = 0 /\ from = 1 /\ line_len = 0
  /\ state = "headers" /\ want = 0 /\ cur = 0 /\ refused = {} /\ phase = "idle"
  /\ packets = <<>> /\ cut = FALSE /\ dropped = {}

(* A read of n bytes: line_len starts from nothing.                        *)
Read(n) ==
  /\ phase = "idle" /\ end + n <= Len(bytes)
  /\ end' = end + n /\ line_len' = 0 /\ phase' = "reading"
  /\ UNCHANGED <<bytes, pos, state, from, want, cur, refused, packets, cut, dropped>>

-----------------------------------------------------------------------------
(* The header.                                                             *)

(* A byte that does not complete a header.  A read that ends here, between *)
(* the text of a line and its LF, forgets that the line had any.           *)
EndsHeader == Kind(pos) = "LF" /\ line_len = 0
HeaderByte ==
  /\ phase = "reading" /\ state = "headers" /\ pos <= end /\ ~EndsHeader
  /\ line_len' = CASE Kind(pos) = "CR" -> line_len
                   [] Kind(pos) = "LF" -> 0
                   [] OTHER -> line_len + 1
  /\ phase' = IF line_len' >= MaxLineLen THEN "failed" ELSE "reading"
  /\ cut' = (cut \/ (pos = end /\ pos < Len(bytes) /\ line_len' > 0 /\ Kind(pos + 1) \in {"CR", "LF"}))
  /\ pos' = pos + 1
  /\ UNCHANGED <<bytes, end, state, from, want, cur, refused, packets, dropped>>

(* What the handler makes of a header: it fails if the header does not     *)
(* begin with a request line; the content length counts if its line is in  *)
(* the header.                                                             *)
Understood == Kind(from) = "first" /\ from = FirstByte(bytes[from].req)
Posts(r) == IF \E p \in Of(r, "length") : p <= pos THEN BodyLen(r) ELSE 0

(* After a request with a body reading has not stopped: the response to it *)
(* may not have been written yet, and the header is not expected.          *)
MayBeEarly == packets # <<>> /\ packets[Len(packets)].type = "content"

Header == [type |-> "header", from |-> from, to |-> pos, req |-> bytes[from].req]

(* handle_header.  With a body to come the request goes on, and the error  *)
(* of a refused one waits in tour.error; without a body it is finished,    *)
(* whether it was started or refused.                                      *)
HeaderEnds ==
  /\ phase = "reading" /\ state = "headers" /\ pos <= end /\ EndsHeader
  /\ packets' = Append(packets, Header)
  /\ \/ /\ Understood
        /\ want' = Posts(bytes[from].req)
        /\ cur' = (IF want' > 0 THEN bytes[from].req ELSE 0)
        /\ state' = (IF want' > 0 THEN "content" ELSE "end")
        /\ \/ UNCHANGED refused
           \/ want' > 0 /\ refused' = refused \cup {bytes[from].req}
        /\ UNCHANGED phase
     \/ /\ ~Understood \/ MayBeEarly
        /\ phase' = "failed" /\ UNCHANGED <<want, cur, refused, state>>
  /\ pos' = pos + 1
  /\ UNCHANGED <<bytes, end, from, line_len, cut, dropped>>

-----------------------------------------------------------------------------
(* The body.                                                               *)

(* handle_content: the request is finished once its length is reached, or  *)
(* exceeded, which refuses it.  A further piece of the same read is then   *)
(* not expected.  Of a request refused before, the bytes are only counted: *)
(* it is finished at its very length, and never once that is exceeded.     *)
Piece == IF end + 1 - pos < MaxDataLen THEN end + 1 - pos ELSE MaxDataLen
Finished(left) == IF cur \in refused THEN left = 0 ELSE left <= 0

Content ==
  /\ phase = "reading" /\ state \in {"content", "end"} /\ pos <= end
  /\ state = "content" \/ packets[Len(packets)].type = "content"
  /\ packets' = Append(packets, [type |-> "content", from |-> pos, to |-> pos + Piece - 1, req |-> cur])
  /\ IF cur = 0
     THEN phase' = "failed" /\ UNCHANGED <<want, cur, state>>
     ELSE IF Finished(want - Piece)
     THEN want' = 0 /\ cur' = 0 /\ state' = "end" /\ UNCHANGED phase
     ELSE want' = want - Piece /\ UNCHANGED <<phase, cur, state>>
  /\ pos' = pos + Piece
  /\ UNCHANGED <<bytes, end, from, line_len, refused, cut, dropped>>

-----------------------------------------------------------------------------
(* The read is done.  After a request without a body the rest of the read  *)
(* is thrown away, whatever it is.  Mutant: reset_state leaves tmp_buf.    *)
Done == pos > end \/ (state = "end" /\ packets[Len(packets)].type = "header")

KeepBuffer == pos' = end + 1 /\ UNCHANGED from /\ dropped' = dropped \cup pos..end
ResetState == pos' = end + 1 /\ from' = end + 1 /\ dropped' = dropped \cup pos..end

Return ==
  /\ phase = "reading" /\ Done
  /\ phase' = "idle"
  /\ IF state = "end"
     THEN state' = "headers" /\ ResetState
     ELSE UNCHANGED <<state, pos, from, dropped>>
  /\ UNCHANGED <<bytes, end, line_len, want, cur, refused, packets, cut>>

Next == (\E n \in 1..Len(bytes) : Read(n)) \/ HeaderByte \/ HeaderEnds \/ Content \/ Return

Spec == Init /\ [][Next]_vars
-----------------------------------------------------------------------------
(* Properties.                                                             *)

HeaderEnd(r) == CHOOSE p \in Of(r, "LF") : \A q \in Of(r, "LF") : q <= p

(* However a client's bytes are divided into reads, but for a read that    *)
(* ends between the text of a header line and its LF, each header that is  *)
(* handed on is the header of one request; the pieces of a body follow it  *)
(* and each begins among its bytes, up to a piece that reaches into what   *)
(* was pipelined behind it, unless the request had been refused at its     *)
(* header: such a piece then never ends it, and all that follows is taken  *)
(* for more of its content; only what came in one read with the end of a   *)
(* request without a body is thrown away; and bytes_received fails only    *)
(* after one of these or at a header that is early.                        *)
Overshot(k) == /\ packets[k].type = "content" /\ packets[k].req \in refused
               /\ \E p \in packets[k].from..packets[k].to : bytes[p].req # packets[k].req
RequestsWhole ==
  ~cut =>
    /\ \A k \in DOMAIN packets :
         LET p == packets[k] IN
         (k < Len(packets) \/ phase # "failed") =>
           IF p.type = "header" THEN p.from = FirstByte(p.req) /\ p.to = HeaderEnd(p.req)
           ELSE /\ p.from = packets[k - 1].to + 1
                /\ p.from \in Of(p.req, "body") \/ (Overshot(k - 1) /\ packets[k - 1].req = p.req)
    /\ \A p \in dropped : \E k \in DOMAIN packets :
         packets[k].type = "header" /\ packets[k].to < p /\ BodyLen(packets[k].req) = 0
    /\ phase = "failed" => \/ dropped # {}
                           \/ \E k \in DOMAIN packets \ {1} : packets[k - 1].type = "content"

(* Between two reads the handler knows as much of a body as has come,      *)
(* unless it has counted bytes that are not of the body.                   *)
BodyInStep ==
  phase = "idle" /\ ~cut /\ cur # 0 =>
    \/ want = Cardinality({p \in Of(cur, "body") : p > end})
    \/ want < 0 /\ Overshot(Len(packets))

(* "generic-message: start-line (message-header CRLF)* CRLF [message-body]"*)
(* and "empty line (all headers are read)" (h1_packet_unpacker.py): what   *)
(* is handed on as a header ends with an empty line.                       *)
HeaderEndsAtEmptyLine ==
  \A k \in DOMAIN packets :
    packets[k].type = "header" /\ packets[k].from = FirstByte(packets[k].req) =>
      Kind(packets[k].to - 1) = "CR" /\ Kind(packets[k].to - 2) = "LF"
=============================================================================
