------------------------------ MODULE MCCodecs ------------------------------
(* The parts of the server that compute and do not wait: where a request   *)
(* goes, how bytes become packets, commands and HTTP/2 headers, and how a  *)
(* plan is read.  A behaviour is of one of them.                           *)
EXTENDS Integers, Sequences, FiniteSets

VARIABLES which,
  plan, request, city, match, outcome,
  stream, need, suspend,
  state, line_len, want, cur, refused, cut,
  kept, room, idx_map, sent, frame, blocks, fields, frames,
  lines, held, indents, levels,
  msg, left,
  text, bits, node, decoded,
  phase, end, from, packets, dropped, part, got, bytes, pos, tree, at, verdict

routing == <<plan, request, city, match, outcome>>
unpackers == <<stream, need, suspend>>
h1 == <<state, line_len, want, cur, refused, cut>>
hpack == <<kept, room, idx_map, sent, frame, blocks, fields, frames>>
planFile == <<lines, held, indents, levels>>
commands == <<msg, left>>
huffman == <<text, bits, node, decoded>>
cursor == <<end, from, packets, dropped>>
parsed == <<part, got>>
walked == <<tree, at, verdict>>

(* The variables of the other parts are idle.                              *)
NoRouting == plan = 0 /\ request = 0 /\ city = 0 /\ match = 0 /\ outcome = 0
NoUnpackers == stream = 0 /\ need = 0 /\ suspend = 0
NoH1 == state = 0 /\ line_len = 0 /\ want = 0 /\ cur = 0 /\ refused = 0 /\ cut = 0
NoHpack == kept = 0 /\ room = 0 /\ idx_map = 0 /\ sent = 0 /\ frame = 0 /\ blocks = 0 /\ fields = 0 /\ frames = 0
NoPlanFile == lines = 0 /\ held = 0 /\ indents = 0 /\ levels = 0
NoCommands == msg = 0 /\ left = 0
NoHuffman == text = 0 /\ bits = 0 /\ node = 0 /\ decoded = 0
NoCursor == end = 0 /\ from = 0 /\ packets = 0 /\ dropped = 0
NoParsed == part = 0 /\ got = 0
NoWalked == tree = 0 /\ at = 0 /\ verdict = 0

-----------------------------------------------------------------------------
(* Cities, towns, clubs and requests.                                      *)
Plain(n) == [name |-> n, ext |-> "none"]
Cgi == [name |-> "a", ext |-> "cgi"]
Html == [name |-> "i", ext |-> "html"]
Php == [name |-> "index", ext |-> "php"]
E == {Plain(""), Plain("a"), Cgi, Html}
Lost == Plain("lost")   \* no such file, and no club names it
Uris == UNION {[1..n -> E] : n \in 1..3}
        \cup {<<Lost>>, <<Lost, Cgi>>, <<Plain("a"), Lost>>}
        \cup {<<Plain("")>> \o u : u \in {<<Lost>>, <<Lost, Plain("")>>, <<Plain(""), Lost>>}}

Club(n, e, k) == [name |-> n, ext |-> e, kind |-> k]
TownClubs == {<<>>, <<Club("*", "none", "file"), Club("*", "cgi", "cgi")>>,
              <<Club("a", "none", "file"), Club("*", "*", "cgi")>>}
CityClubs == {<<>>, <<Club("*", "html", "file"), Club("a", "cgi", "cgi"), Club("*", "none", "cgi")>>}

Files == {<<Html>>, <<Cgi>>, <<Plain("a"), Html>>, <<Plain("a"), Cgi>>, <<Php>>}

NoPermission == <<>>
Admit(hs) == [admit |-> TRUE, hosts |-> hs]
Refuse(hs) == [admit |-> FALSE, hosts |-> hs]
All == {"near", "far"}
Permissions == {<<>>, <<[items |-> <<Admit({"near"}), Refuse(All)>>, groups |-> <<>>]>>,
                <<[items |-> <<Refuse({"near"}), Admit(All)>>, groups |-> <<>>]>>,
                <<[items |-> <<>>, groups |-> << <<{"u"}, {"v"}>> >>]>>}

Town(n, cs, ps, w, rr) == [name |-> n, clubs |-> cs, permissions |-> ps, welcome |-> w,
                           reroute |-> rr, files |-> Files]
Root(cs, ps, w, rr) == Town(<<>>, cs, ps, w, rr)
Deep(cs, ps, w) == Town(<<Plain("a")>>, cs, ps, w, FALSE)
City(n, ts, cs, ps) == [name |-> n, towns |-> ts, clubs |-> cs, permissions |-> ps]

Layouts ==
  {<<Root(cs, <<>>, w, rr)>> : cs \in TownClubs, w \in {Plain(""), Html}, rr \in BOOLEAN}
  \cup {<<Root(cs, <<>>, w, FALSE), Deep(ds, <<>>, w)>> :
          cs \in TownClubs, ds \in TownClubs, w \in {Plain(""), Html}}
Routed == {[port |-> <<>>, server |-> <<City("*", ts, cs, <<>>)>>] : ts \in Layouts, cs \in CityClubs}
Guarded == {[port |-> <<City("h", <<Root(<<>>, p, Html, FALSE)>>, <<>>, q)>>,
             server |-> <<City("*", <<Deep(<<>>, p, Html)>>, <<>>, <<>>)>>] :
             p \in Permissions, q \in Permissions}

Requests == {[host |-> h, uri |-> u, query |-> FALSE, remote |-> r, user |-> "u"] :
               h \in {"h"}, u \in Uris, r \in {"near"}}
            \cup {[host |-> h, uri |-> u, query |-> TRUE, remote |-> r, user |-> v] :
               h \in {"h", "k"}, u \in Uris \cap [1..2 -> E], r \in {"near", "far"}, v \in {"none", "u", "v"}}

Routing == INSTANCE Routing WITH Plans <- Routed \cup Guarded

-----------------------------------------------------------------------------
(* Messages of the three framed protocols.                                 *)
Msg(l, p, a, w) == [len |-> l, pad |-> p, answer |-> a, wants |-> w]
Of(proto, ms) == {[proto |-> proto, msgs |-> s] : s \in [1..2 -> ms]}
MCStreams ==
  Of("h2", {Msg(l, 0, a, FALSE) : l \in {0, 2}, a \in {"CONTINUE", "SUSPEND", "CLOSE"}})
  \cup Of("fcgi", {Msg(l, p, a, FALSE) : l \in {0, 2}, p \in {0, 1}, a \in {"CONTINUE", "SUSPEND", "CLOSE"}})
  \cup {s \in Of("ajp", {Msg(l, 0, a, w) : l \in {0, 2}, a \in {"CONTINUE", "SUSPEND", "WRITE", "CLOSE"}, w \in BOOLEAN}) :
          \A k \in 1..2 : s.msgs[k].len = 0 => k > 1 /\ s.msgs[k - 1].wants}

Unpackers == INSTANCE Unpackers WITH Streams <- MCStreams, PrefaceLen <- 24, MaxRead <- 45

-----------------------------------------------------------------------------
(* HTTP/1 requests with and without a body.                                *)
B(r, k) == [req |-> r, kind |-> k]
Line(r, k) == <<B(r, k), B(r, k), B(r, "CR"), B(r, "LF")>>
EmptyLine(r) == <<B(r, "CR"), B(r, "LF")>>
Get(r) == Line(r, "first") \o EmptyLine(r)
Post(r) == Line(r, "first") \o Line(r, "length") \o EmptyLine(r) \o [i \in 1..3 |-> B(r, "body")]
MCInputs == {f \o g \o h : f \in {Get(1), Post(1)}, g \in {Get(2), Post(2)}, h \in {<<>>, Get(3)}}

H1 == INSTANCE H1Unpacker WITH Inputs <- MCInputs, MaxDataLen <- 2, MaxLineLen <- 4

-----------------------------------------------------------------------------
F(n, v) == [name |-> n, value |-> v]
MCPrefix == [INDEX |-> 5, OVERLOAD_KNOWN_HEADER |-> 3, KNOWN_HEADER |-> 1, UPDATE_DYNAMIC_TABLE_SIZE |-> 2]

Hpack == INSTANCE Hpack WITH
  Fields <- {F("a", "0"), F("x", "1"), F("y", "1")}, Static <- <<F("a", "0"), F("x", "0")>>,
  Prefix <- MCPrefix, Radix <- 2, Sizes <- {1, 3}, MaxFrames <- 2, MaxFields <- 2

-----------------------------------------------------------------------------
(* The lines of a plan.                                                    *)
L(c, k) == [column |-> c, kind |-> k]
GoodLines == {L(c, k) : c \in 0..2, k \in {"element", "value"}} \cup {L(1, "comment")}
AnyLines == GoodLines \cup {L(0, "tab"), L(0, "broken"), L(1, "broken")}
MCFiles == UNION {[1..n -> GoodLines] : n \in 0..4} \cup UNION {[1..n -> AnyLines] : n \in 1..2}

PlanFile == INSTANCE PlanFile WITH Files <- MCFiles

-----------------------------------------------------------------------------
(* Commands of this server and of peers.  A text is a sequence of          *)
(* characters of one byte (1 to 3) and of two (5); -1 is a space and -2 a  *)
(* colon.                                                                  *)
Texts == {<<1>>, <<2, 5>>, <<1, 2, 3, 1>>}
Values == {<<>>, <<1>>, <<5>>, <<3, 5, 5>>}
Header(c, t, v) == [code |-> c, text |-> t, value |-> v]
Param(t, v) == Header(0, t, v)
Headers == {Header(1, <<>>, v) : v \in Values} \cup {Param(t, v) : t \in Texts, v \in Values}
Lists == {<<>>} \cup [1..1 -> Headers] \cup [1..2 -> Headers]
FewLists == {<<>>} \cup {<<h>> : h \in Headers} \cup {<<Header(2, <<>>, <<1>>), h>> : h \in Headers}
Message(f, b, ss, h, as, k) == [format |-> f, by |-> b, strings |-> ss, headers |-> h, attrs |-> as, cut |-> k]
Query == {<<>>} \cup {<<Header(1, <<>>, v)>> : v \in Values}
PeerAttrs == Query \cup {<<Header(2, <<1>>, <<5>>)>>, <<Header(3, <<>>, <<1, 1>>)>>, <<Header(6, <<>>, <<1>>)>>,
                         <<Header(1, <<>>, <<1>>), Header(3, <<>>, <<1>>)>>}
Long(n) == [i \in 1..n |-> 1]
Params == {Param(t, v) : t \in {<<1>>, <<2, 5>>, Long(3), Long(4)}, v \in Values \cup {Long(4), Long(8)}}
ParamLists == {<<>>} \cup [1..1 -> Params] \cup [1..2 -> Params]
             \cup {<<Param(<<1>>, Long(n))>> : n \in {55, 57, 58, 60, 70}}
H1Values == Values \cup {<<-1, 1>>, <<1, -1>>, <<-2>>}
MCMessages ==
  {Message("forward", "server", <<s, t>>, h, as, 0) : s \in {<<1>>, <<>>}, t \in Values, h \in FewLists, as \in Query}
  \cup {Message("forward", "peer", <<s, <<1>>>>, h, as, 0) : s \in Values, h \in FewLists, as \in PeerAttrs}
  \cup {Message("response", b, <<<<1>>>>, h, <<>>, 0) : b \in {"server", "peer"}, h \in Lists}
  \cup {Message("params", "server", <<>>, h, <<>>, 0) : h \in ParamLists}
  \cup {Message("params", "peer", <<>>, h, <<>>, k) :
          h \in [1..2 -> {Param(<<1>>, <<1>>), Param(Long(4), <<2>>)}], k \in 1..7}
  \cup {Message("h1", "server", <<<<1>>, u, <<2>>>>, h, <<>>, 0) :
          u \in {<<1>>, <<1, -1, 2>>, <<5>>},
          h \in {<<>>} \cup [1..2 -> {Param(t, v) : t \in Texts, v \in H1Values}]}

Commands == INSTANCE Commands WITH Messages <- MCMessages

-----------------------------------------------------------------------------
(* Every symbol by itself, and short texts with NUL, the end of a string   *)
(* and characters of two bytes.                                            *)
MCTexts == {<<>>} \cup {<<s>> : s \in 0..256} \cup {<<97, s>> : s \in {0, 10, 48, 122, 255, 256}}
           \cup {<<a, b, c>> : a \in {0, 47, 195}, b \in {97, 169, 10}, c \in {0, 119, 128, 256}}

Huffman == INSTANCE Huffman WITH Texts <- MCTexts

-----------------------------------------------------------------------------
MCInit ==
  \/ /\ which = "routing" /\ Routing!Init
     /\ NoUnpackers /\ NoH1 /\ NoHpack /\ NoPlanFile /\ NoCommands /\ NoHuffman
     /\ NoCursor /\ NoParsed /\ NoWalked /\ bytes = 0 /\ pos = 0
  \/ /\ which = "unpackers" /\ Unpackers!Init
     /\ NoRouting /\ NoH1 /\ NoHpack /\ NoPlanFile /\ NoCommands /\ NoHuffman /\ NoWalked /\ bytes = 0
  \/ /\ which = "h1" /\ H1!Init
     /\ NoRouting /\ NoUnpackers /\ NoHpack /\ NoPlanFile /\ NoCommands /\ NoHuffman /\ NoParsed /\ NoWalked
  \/ /\ which = "hpack" /\ Hpack!Init
     /\ NoRouting /\ NoUnpackers /\ NoH1 /\ NoPlanFile /\ NoCommands /\ NoHuffman
     /\ NoCursor /\ NoParsed /\ NoWalked /\ bytes = 0
  \/ /\ which = "planFile" /\ PlanFile!Init
     /\ NoRouting /\ NoUnpackers /\ NoH1 /\ NoHpack /\ NoCommands /\ NoHuffman
     /\ NoCursor /\ NoParsed /\ bytes = 0 /\ phase = 0 /\ pos = 0
  \/ /\ which = "commands" /\ Commands!Init
     /\ NoRouting /\ NoUnpackers /\ NoH1 /\ NoHpack /\ NoPlanFile /\ NoHuffman /\ NoCursor /\ NoWalked /\ phase = 0
  \/ /\ which = "huffman" /\ Huffman!Init
     /\ NoRouting /\ NoUnpackers /\ NoH1 /\ NoHpack /\ NoPlanFile /\ NoCommands
     /\ NoCursor /\ NoParsed /\ bytes = 0 /\ phase = 0 /\ pos = 0

MCNext ==
  /\ which' = which
  /\ \/ /\ which = "routing" /\ Routing!Next
        /\ UNCHANGED <<unpackers, h1, hpack, planFile, commands, huffman, cursor, parsed, walked, bytes, pos>>
     \/ /\ which = "unpackers" /\ Unpackers!Next
        /\ UNCHANGED <<routing, h1, hpack, planFile, commands, huffman, walked, bytes>>
     \/ /\ which = "h1" /\ H1!Next
        /\ UNCHANGED <<routing, unpackers, hpack, planFile, commands, huffman, parsed, walked>>
     \/ /\ which = "hpack" /\ Hpack!Next
        /\ UNCHANGED <<routing, unpackers, h1, planFile, commands, huffman, cursor, parsed, walked, bytes>>
     \/ /\ which = "planFile" /\ PlanFile!Next
        /\ UNCHANGED <<routing, unpackers, h1, hpack, commands, huffman, cursor, parsed, bytes, phase, pos>>
     \/ /\ which = "commands" /\ Commands!Next
        /\ UNCHANGED <<routing, unpackers, h1, hpack, planFile, huffman, cursor, walked, phase>>
     \/ /\ which = "huffman" /\ Huffman!Next
        /\ UNCHANGED <<routing, unpackers, h1, hpack, planFile, commands, cursor, parsed, bytes, phase, pos>>

vars == <<which, routing, unpackers, h1, hpack, planFile, commands, huffman,
          cursor, parsed, walked, bytes, phase, pos>>

MCSpec == MCInit /\ [][MCNext]_vars

-----------------------------------------------------------------------------
(* A request is served in the closest town by a club that claims it, and a *)
(* redirection leads where it says (get_town_and_club, club_maches); nobody *)
(* is served whom a list of permissions refuses (tour_admitted).           *)
RoutedAsDeclared == which = "routing" => Routing!RoutedAsDeclared /\ Routing!AdmittedFirst

(* However bytes are divided into reads, HTTP/2, FastCGI and AJP packets   *)
(* are the client's messages, whole and in order, and no complete message  *)
(* waits between two reads, but an HTTP/2 frame without payload            *)
(* (bytes_received); SUSPEND reaches the caller.                           *)
PacketsWhole == which = "unpackers" => Unpackers!PacketsWhole /\ Unpackers!NothingHeldBack

(* HTTP/1 requests are handed on whole, with their bodies, however they    *)
(* are divided into reads, but in the ways H1Unpacker names.               *)
RequestsWhole == which = "h1" => H1!RequestsWhole /\ H1!BodyInStep

(* Compressed headers are decoded as they were sent, the two tables agree, *)
(* and a string in Huffman code is what was encoded, but for NUL, the end  *)
(* of a string and what is not UTF-8 (HeaderBlock, HTree.decode).          *)
HeadersAgree ==
  /\ which = "hpack" => Hpack!DecodedAsSent /\ Hpack!TablesAgree
  /\ which = "huffman" => Huffman!HuffmanDecodes

(* A plan file becomes the elements its indentation says (BcfParser).      *)
PlanAsIndented == which = "planFile" => PlanFile!PlanAsIndented

(* A command is read back as it was packed, but in the ways Commands names *)
(* (pack and unpack of AjpCommand, FcgCommand and CmdHeader).              *)
CommandsAgree == which = "commands" => Commands!CommandsAgree
=============================================================================
