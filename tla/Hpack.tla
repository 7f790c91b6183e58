------------------------------- MODULE Hpack -------------------------------
(***************************************************************************)
(* The compressed headers of HTTP/2.  A client's encoder and the server's  *)
(* req_header_tbl each keep a table of fields that were sent to be kept;   *)
(* a field may be sent as an index into the static table followed by that  *)
(* one.  The server unpacks a HEADERS frame into blocks, then analyses     *)
(* them in turn; its responses use the static table alone, because nothing *)
(* is ever inserted into res_header_tbl.                                   *)
(*                                                                         *)
(* A frame is a sequence of tokens: [op, low] is the first byte of a block *)
(* with the bits of its prefix, [more, value] a further byte of a number,  *)
(* [text] a string with its length.                                        *)
(***************************************************************************)
EXTENDS Naturals, Sequences, SequencesExt

CONSTANTS
  Fields,     \* the fields clients send: [name, value]
  Static,     \* static_table: a sequence of fields
  Prefix,     \* for each operation, the largest number of its prefix bits
  Radix,      \* 128
  Sizes,      \* how many fields a client's table may hold
  MaxFrames,  \* bound: frames of a run
  MaxFields   \* bound: fields of a frame

VARIABLES
  kept,       \* the client's table, the newest field first
  room,       \* how many fields it holds
  idx_map,    \* req_header_tbl
  sent,       \* the fields of the frame
  frame, pos, \* its tokens, and the next of them
  blocks,     \* header_blocks unpacked so far
  fields,     \* what the analyzer made of them
  phase,      \* "idle", "unpacking", "analysing", "garbled"
  frames

vars == <<kept, room, idx_map, sent, frame, pos, blocks, fields, phase, frames>>

KNOWN_HEADERS == {"OVERLOAD_KNOWN_HEADER", "KNOWN_HEADER"}
NEW_HEADERS == {"NEW_HEADER", "UNKNOWN_HEADER"}

-----------------------------------------------------------------------------
(* put_hpack_int: the prefix, then the rest in digits.                     *)
Digits(n) ==
  LET d[k \in 0..n] == IF k < Radix THEN <<[more |-> FALSE, value |-> k]>>
                       ELSE <<[more |-> TRUE, value |-> k % Radix]>> \o d[k \div Radix]
  IN d[n]
PutInt(op, n) ==
  IF n < Prefix[op] THEN <<[op |-> op, low |-> n]>>
  ELSE <<[op |-> op, low |-> Prefix[op]]>> \o Digits(n - Prefix[op])

(* HeaderBlock.pack, and what a client's encoder does.                     *)
Pack(b) ==
  CASE b.op \in KNOWN_HEADERS -> PutInt(b.op, b.index) \o <<[text |-> b.value]>>
    [] b.op \in NEW_HEADERS -> <<[op |-> b.op, low |-> 0], [text |-> b.name], [text |-> b.value]>>
    [] OTHER -> PutInt(b.op, b.index)

(* get_hpack_int_rest: the tokens from i on up to the last digit.          *)
DigitsEnd(i) == CHOOSE j \in i..Len(frame) : ~frame[j].more /\ \A k \in i..(j - 1) : frame[k].more
RestOf(i) == FoldRight(LAMBDA t, n : n * Radix + t.value, SubSeq(frame, i, DigitsEnd(i)), 0)

(* The number of the block at i and the token behind it.  An INDEX block   *)
(* is taken to be a single byte.  Mutant: the prefix is not added.         *)
Continued(i) == frame[i].op # "INDEX" /\ frame[i].low = Prefix[frame[i].op]
GetRestOnly(i) ==
  IF Continued(i)
  THEN [value |-> RestOf(i + 1), next |-> DigitsEnd(i + 1) + 1]
  ELSE [value |-> frame[i].low, next |-> i + 1]
GetInt(i) ==
  IF Continued(i)
  THEN [value |-> frame[i].low + RestOf(i + 1), next |-> DigitsEnd(i + 1) + 1]
  ELSE [value |-> frame[i].low, next |-> i + 1]

-----------------------------------------------------------------------------
(* The tables.                                                             *)
At(table, i) == (Static \o table)[i]
InTable(table, i) == i > 0 /\ i <= Len(Static) + Len(table)

(* HeaderTable.insert: the newest field is the first.  Mutant: the last.   *)
InsertLast(table, f) == Append(table, f)
Insert(table, f) == <<f>> \o table

(* The blocks a client may send for a field.                               *)
Known(table, f) == {i \in 1..(Len(Static) + Len(table)) : At(table, i).name = f.name}
Encodings(f) ==
  {[op |-> "INDEX", index |-> i] : i \in {j \in Known(kept, f) : At(kept, j) = f}}
  \cup {[op |-> o, index |-> i, value |-> f.value] : o \in KNOWN_HEADERS, i \in Known(kept, f)}
  \cup {[op |-> o, name |-> f.name, value |-> f.value] : o \in NEW_HEADERS}

Keeps == {"OVERLOAD_KNOWN_HEADER", "NEW_HEADER"}
Evicted(table, n) == SubSeq(table, 1, IF Len(table) < n THEN Len(table) ELSE n)

-----------------------------------------------------------------------------
Init ==
  /\ kept = <<>> /\ room \in Sizes /\ idx_map = <<>>
  /\ sent = <<>> /\ frame = <<>> /\ pos = 1
  /\ blocks = <<>> /\ fields = <<>> /\ phase = "idle" /\ frames = 0

(* The client adds a field to the frame it is about to send,               *)
ClientAdds(f, b) ==
  /\ phase = "idle" /\ frames < MaxFrames /\ Len(sent) < MaxFields
  /\ b \in Encodings(f)
  /\ sent' = Append(sent, f) /\ frame' = frame \o Pack(b)
  /\ kept' = IF b.op \in Keeps THEN Evicted(<<f>> \o kept, room) ELSE kept
  /\ UNCHANGED <<room, idx_map, pos, blocks, fields, phase, frames>>

(* or the size its table has from now on, which set_size does not heed.    *)
ClientResizes(n) ==
  /\ phase = "idle" /\ frames < MaxFrames /\ sent = <<>> /\ frame = <<>>
  /\ room' = n /\ kept' = Evicted(kept, n)
  /\ frame' = PutInt("UPDATE_DYNAMIC_TABLE_SIZE", n)
  /\ UNCHANGED <<idx_map, sent, pos, blocks, fields, phase, frames>>

ClientSends ==
  /\ phase = "idle" /\ sent # <<>>
  /\ phase' = "unpacking" /\ pos' = 1 /\ frames' = frames + 1
  /\ UNCHANGED <<kept, room, idx_map, sent, frame, blocks, fields>>

(* read_header_block and HeaderBlock.unpack.  A token that is no first     *)
(* byte, or no string where one is due, is read as something it is not.    *)
IsHead(i) == "op" \in DOMAIN frame[i]
Unpacked ==
  LET op == frame[pos].op
      n == GetInt(pos)
  IN CASE op \in KNOWN_HEADERS -> [block |-> [op |-> op, index |-> n.value, value |-> frame[n.next].text],
                                   next |-> n.next + 1]
       [] op \in NEW_HEADERS -> [block |-> [op |-> op, name |-> frame[pos + 1].text, value |-> frame[pos + 2].text],
                                 next |-> pos + 3]
       [] OTHER -> [block |-> [op |-> op, index |-> n.value], next |-> n.next]

Unpack ==
  /\ phase = "unpacking" /\ pos <= Len(frame)
  /\ IF IsHead(pos)
     THEN blocks' = Append(blocks, Unpacked.block) /\ pos' = Unpacked.next /\ UNCHANGED phase
     ELSE phase' = "garbled" /\ UNCHANGED <<blocks, pos>>
  /\ UNCHANGED <<kept, room, idx_map, sent, frame, fields, frames>>

UnpackEnds ==
  /\ phase = "unpacking" /\ pos > Len(frame)
  /\ phase' = "analysing"
  /\ UNCHANGED <<kept, room, idx_map, sent, frame, pos, blocks, fields, frames>>

(* analyze_header_block: the field a block stands for.                     *)
FieldOf(b) ==
  CASE b.op = "INDEX" -> At(idx_map, b.index)
    [] b.op \in KNOWN_HEADERS -> [name |-> At(idx_map, b.index).name, value |-> b.value]
    [] OTHER -> [name |-> b.name, value |-> b.value]

Analyse ==
  /\ phase = "analysing" /\ blocks # <<>>
  /\ LET b == Head(blocks) IN
     IF b.op = "UPDATE_DYNAMIC_TABLE_SIZE"
     THEN blocks' = Tail(blocks) /\ UNCHANGED <<idx_map, fields, phase>>
     ELSE IF b.op \notin NEW_HEADERS /\ ~InTable(idx_map, b.index)
     THEN phase' = "garbled" /\ UNCHANGED <<blocks, idx_map, fields>>
     ELSE /\ blocks' = Tail(blocks)
          /\ fields' = Append(fields, FieldOf(b))
          /\ idx_map' = IF b.op \in Keeps THEN Insert(idx_map, FieldOf(b)) ELSE idx_map
          /\ UNCHANGED phase
  /\ UNCHANGED <<kept, room, sent, frame, pos, frames>>

(* The request is handled; the next frame.                                 *)
Handled ==
  /\ phase = "analysing" /\ blocks = <<>>
  /\ phase' = "idle" /\ sent' = <<>> /\ frame' = <<>> /\ fields' = <<>>
  /\ UNCHANGED <<kept, room, idx_map, pos, blocks, frames>>

Next ==
  \/ \E f \in Fields : \E b \in Encodings(f) : ClientAdds(f, b)
  \/ \E n \in Sizes : ClientResizes(n)
  \/ ClientSends \/ Unpack \/ UnpackEnds \/ Analyse \/ Handled

Spec == Init /\ [][Next]_vars
-----------------------------------------------------------------------------
(* Responses.                                                              *)

(* build_header_block over the static table: the first entry that is the   *)
(* field, else the first of its name, else both as strings.                *)
BuildBlock(f) ==
  LET same == SelectInSeq(Static, LAMBDA s : s = f)
      name == SelectInSeq(Static, LAMBDA s : s.name = f.name)
  IN IF same # 0 THEN [op |-> "INDEX", index |-> same]
     ELSE IF name # 0 THEN [op |-> "KNOWN_HEADER", index |-> name, value |-> f.value]
     ELSE [op |-> "UNKNOWN_HEADER", name |-> f.name, value |-> f.value]

-----------------------------------------------------------------------------
(* Properties.                                                             *)

(* An index of the client that does not fit the prefix of its byte.        *)
LongIndex == \E i \in DOMAIN frame : IsHead(i) /\ frame[i].op = "INDEX" /\ frame[i].low = Prefix["INDEX"]

(* What a client sent is what the handler gets, in this frame and in those *)
(* after it, whatever its encoder keeps, leaves out or evicts - the table  *)
(* of the server never evicts - unless an index is so long that a further  *)
(* byte carries its rest: HeaderBlock.unpack reads no number there, and    *)
(* takes that byte for the next block.                                     *)
DecodedAsSent ==
  /\ phase = "garbled" => LongIndex
  /\ ~LongIndex /\ phase = "analysing" => fields = SubSeq(sent, 1, Len(fields))
  /\ ~LongIndex /\ phase = "analysing" /\ blocks = <<>> => fields = sent

(* Between frames the client's table is the front part of the server's:    *)
(* an index means the same field in both.  Every field the server builds   *)
(* a block for is the one that block stands for to a client.               *)
TablesAgree ==
  /\ phase = "idle" /\ frame = <<>> => IsPrefix(kept, idx_map)
  /\ \A f \in Fields : LET b == BuildBlock(f) IN
       f = [name |-> IF b.op = "UNKNOWN_HEADER" THEN b.name ELSE Static[b.index].name,
            value |-> IF b.op = "INDEX" THEN Static[b.index].value ELSE b.value]
=============================================================================
