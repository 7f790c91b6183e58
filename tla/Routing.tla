------------------------------- MODULE Routing -------------------------------
(***************************************************************************)
(* Where a request goes: Tour.go finds a city by the host name, the city   *)
(* checks permissions, finds the town and the club of the URI, reroutes it *)
(* or adds the town's index file, and the club arrives at a file or script.*)
(*                                                                         *)
(* A path is the sequence of its elements: "/a/b.cgi" is <<a, b.cgi>>, a   *)
(* slash at the end leaves an empty last element, two slashes in a row an  *)
(* empty one between.  A town's name is the sequence in front of its last  *)
(* slash, so the town "/" is <<>>.                                         *)
(***************************************************************************)
EXTENDS Naturals, Sequences, FiniteSets, SequencesExt

CONSTANTS
  Plans,      \* configurations: [port, server : Seq(city)], as declared
  Requests    \* [host, uri, query, remote, user]

VARIABLES
  plan,       \* the configuration; its towns sorted once it is initialised
  phase,      \* "declared", "ready", "finding", "found", "entered", "done"
  request,
  city,       \* its city
  match,      \* [status, town, uri, match], as get_town_and_club returns it
  outcome

vars == <<plan, phase, request, city, match, outcome>>

None == "none"    \* no extension, no query, no user, no welcome file
Empty == [name |-> "", ext |-> None]
Query == [name |-> "query", ext |-> None]
IndexPhp == [name |-> "index", ext |-> "php"]

Unserved == [status |-> "unserved"]

-----------------------------------------------------------------------------
(* Choosing a city and initialising it.                                    *)

(* Cities.find_city: the first city of that name, else the last "*".       *)
FindCity(cities, host) ==
  LET named == SelectSeq(cities, LAMBDA c : c.name = host /\ c.name # "*")
      any == SelectSeq(cities, LAMBDA c : c.name = "*")
  IN IF named # <<>> THEN {Head(named)}
     ELSE IF any # <<>> THEN {Last(any)} ELSE {}

(* City.init: towns with longer names come first, those of one length in   *)
(* the order they were declared.  A name's length is counted in elements:  *)
(* of two towns around one URI the longer name has more of them.           *)
(* Mutant: shorter names come first.                                       *)
Sorted(towns, depths) ==
  FlattenSeq([i \in DOMAIN depths |-> SelectSeq(towns, LAMBDA t : Len(t.name) = depths[i])])
Depths(towns) == {Len(t.name) : t \in ToSet(towns)}
SortTownsUp(c) == [c EXCEPT !.towns = Sorted(@, SetToSortSeq(Depths(@), <))]
SortTowns(c) == [c EXCEPT !.towns = Sorted(@, SetToSortSeq(Depths(@), >))]

InitCity(cities) == [i \in DOMAIN cities |-> SortTowns(cities[i])]

-----------------------------------------------------------------------------
(* Permissions.                                                            *)

(* The item that decides is the first that matches; without one the client *)
(* is admitted.  Mutant: the last that matches.                            *)
LastAdmits(items, remote) ==
  LET hits == SelectSeq(items, LAMBDA it : remote \in it.hosts)
  IN hits = <<>> \/ Last(hits).admit
ItemsAdmit(items, remote) ==
  LET hits == SelectSeq(items, LAMBDA it : remote \in it.hosts)
  IN hits = <<>> \/ Head(hits).admit

(* A group line names several groups, but only the last one is appended;   *)
(* the groups of the lines are alternatives.                               *)
GroupsKept(p) == {Last(line) : line \in ToSet(p.groups)}
MemberAdmitted(p, user) == p.groups = <<>> \/ \E g \in GroupsKept(p) : user \in g

(* tour_admitted of a list of permission dockers: the first that refuses.  *)
Refusal(permissions, r) ==
  LET bad == SelectSeq(permissions, LAMBDA p : ~ItemsAdmit(p.items, r.remote)
                                               \/ ~MemberAdmitted(p, r.user))
  IN IF bad = <<>> THEN "admitted"
     ELSE IF ItemsAdmit(Head(bad).items, r.remote) THEN "unauthorized" ELSE "forbidden"

-----------------------------------------------------------------------------
(* Towns and clubs.                                                        *)

TownMatches(t, uri) ==
  IF IsStrictPrefix(t.name, uri) THEN "matched"
  ELSE IF uri = t.name /\ uri # <<>> THEN "close"
  ELSE "not"

(* club_base.matches.                                                      *)
ClubMatches(club, e) ==
  /\ (club.ext = None) <=> (e.ext = None)
  /\ club.ext \in {"*", e.ext}
  /\ club.name \in {"*", e.name}

(* The "any" club: the first "*" without an extension.                     *)
AnyClub(clubs) ==
  SelectInSeq(clubs, LAMBDA club : club.name = "*" /\ club.ext = None)

NoMatch == [club |-> [name |-> None]]

(* club_maches: the first element that some other club matches ends the    *)
(* script name; the any club takes the whole path.  Empty elements at the  *)
(* start are lost from the script name but not from the path it is         *)
(* measured against, so path_info then repeats the script's last           *)
(* characters.                                                             *)
ClubHit(clubs, any, e) ==
  LET others == {j \in DOMAIN clubs : j # any /\ ClubMatches(clubs[j], e)}
  IN IF others = {} THEN 0 ELSE CHOOSE j \in others : \A k \in others : j <= k

ClubMatch(clubs, rel) ==
  LET any == AnyClub(clubs)
      at == SelectInSeq(rel, LAMBDA e : ClubHit(clubs, any, e) # 0)
      cut == IF at = 0 THEN Len(rel) ELSE at
      named == {i \in 1..cut : rel[i] # Empty}
      lost == IF named = {} THEN cut ELSE (CHOOSE i \in named : \A k \in named : i <= k) - 1
      rest == SubSeq(rel, cut + 1, Len(rel))
  IN IF at = 0 /\ any = 0
     THEN NoMatch
     ELSE [club |-> clubs[IF at = 0 THEN any ELSE ClubHit(clubs, any, rel[at])],
           script |-> SubSeq(rel, lost + 1, cut),
           info |-> rest,
           repeated |-> lost]

-----------------------------------------------------------------------------
(* Files of a town, as the operating system names them.                    *)

Squeezed(path) == SelectSeq(path, LAMBDA e : e # Empty)
IsFile(t, path) == Squeezed(path) \in t.files /\ (path = <<>> \/ Last(path) # Empty)
IsDir(t, path) == \E f \in t.files : IsStrictPrefix(Squeezed(path), f)
Exists(t, path) == IsFile(t, path) \/ IsDir(t, path)

Rel(t, uri) == SubSeq(uri, Len(t.name) + 1, Len(uri))

(* WordPressDocker.reroute: a path none of whose prefixes exists is given  *)
(* to index.php.  One slash in front of it is left out of the prefixes; an *)
(* empty element that is still first is the directory of the town.         *)
Stripped(rel) == IF Len(rel) > 1 /\ Head(rel) = Empty THEN Tail(rel) ELSE rel
Reroute(t, uri) ==
  LET path == Stripped(Rel(t, uri)) IN
  IF t.reroute /\ \A i \in 1..Len(path) : ~Exists(t, SubSeq(path, 1, i))
  THEN t.name \o <<IndexPhp>> \o Rel(t, uri)
  ELSE uri

DefaultMatch == [club |-> [name |-> "*", ext |-> None, kind |-> "default"],
                 script |-> <<>>, info |-> <<>>, repeated |-> 0]

(* get_town_and_club for one town, once it has matched: a club of the town,*)
(* else one of the city, else the default one.                             *)
InTown(c, t, uri) ==
  LET u == Reroute(t, uri)
      own == ClubMatch(t.clubs, Rel(t, u))
      common == ClubMatch(c.clubs, Rel(t, u))
  IN [status |-> "found", town |-> t, uri |-> u,
      match |-> IF own # NoMatch THEN own
                ELSE IF common # NoMatch THEN common ELSE DefaultMatch]

(* The first town that matches.                                            *)
Find(c, uri) ==
  LET at == SelectInSeq(c.towns, LAMBDA t : TownMatches(t, uri) # "not") IN
  IF at = 0 THEN Unserved
  ELSE IF TownMatches(c.towns[at], uri) = "close"
  THEN [status |-> "redirect", town |-> c.towns[at], uri |-> Append(uri, Empty)]
  ELSE InTown(c, c.towns[at], uri)

(* The index file is looked for when no club matches a URI that ends with  *)
(* a slash; it is searched for again as a URI of its own.                  *)
NamesIndex(m) ==
  /\ m.status = "found" /\ m.match = DefaultMatch
  /\ Last(m.uri) = Empty /\ m.town.welcome # Empty
  /\ IsFile(m.town, Append(Rel(m.town, Front(m.uri)), m.town.welcome))

-----------------------------------------------------------------------------
Init ==
  /\ plan \in Plans /\ phase = "declared"
  /\ request = None /\ city = None /\ match = Unserved /\ outcome = Unserved

(* The plan is loaded: every city is initialised once.                     *)
Load ==
  /\ phase = "declared" /\ phase' = "ready"
  /\ plan' = [port |-> InitCity(plan.port), server |-> InitCity(plan.server)]
  /\ UNCHANGED <<request, city, match, outcome>>

Finishes(result) ==
  /\ phase' = "done" /\ outcome' = result
  /\ UNCHANGED <<plan, match>>

(* Tour.go: the port's own cities first, then those of the server.         *)
Cities(r) == LET own == FindCity(plan.port, r.host) IN
             IF own # {} THEN own ELSE FindCity(plan.server, r.host)

Go(r) ==
  /\ phase = "ready" /\ request' = r
  /\ \/ /\ Cities(r) = {} /\ Finishes([status |-> "notFound"]) /\ UNCHANGED city
     \/ /\ city' \in Cities(r) /\ phase' = "finding"
        /\ UNCHANGED <<plan, match, outcome>>

(* City.enter: whoever the city's permissions turn away goes no further.   *)
Turned(permissions) == Refusal(permissions, request) # "admitted"
Refuse ==
  /\ phase = "finding" /\ Turned(city.permissions)
  /\ Finishes([status |-> Refusal(city.permissions, request)])
  /\ UNCHANGED <<request, city>>

(* get_town_and_club, and once more for the index file.                    *)
GetTownAndClub ==
  /\ phase = "finding" /\ ~Turned(city.permissions)
  /\ match' = Find(city, request.uri)
  /\ phase' = "found"
  /\ UNCHANGED <<plan, request, city, outcome>>

GetIndex ==
  /\ phase = "found" /\ NamesIndex(match)
  /\ match' = Find(city, Append(Front(match.uri), match.town.welcome))
  /\ UNCHANGED <<plan, phase, request, city, outcome>>

(* Then the permissions of the town.                                       *)
Enter ==
  /\ phase = "found" /\ ~NamesIndex(match)
  /\ \/ /\ match = Unserved /\ Finishes([status |-> "notFound"])
     \/ /\ match # Unserved /\ Turned(match.town.permissions)
        /\ Finishes([status |-> Refusal(match.town.permissions, request)])
     \/ /\ match # Unserved /\ ~Turned(match.town.permissions)
        /\ phase' = "entered"
        /\ UNCHANGED <<plan, match, outcome>>
  /\ UNCHANGED <<request, city>>

(* The redirection leaves out the question mark before the query, which so *)
(* becomes an element of the path.                                         *)
Redirect ==
  /\ phase = "entered" /\ match.status = "redirect"
  /\ Finishes([status |-> "redirect",
               uri |-> IF request.query THEN Append(Front(match.uri), Query) ELSE match.uri])
  /\ UNCHANGED <<request, city>>

(* Arriving.  The default club and file clubs send the file the URI names  *)
(* in the town; a CGI club runs the script its script name names.          *)
IsScript == match.match.club.kind = "cgi"
Target == IF IsScript THEN match.match.script ELSE Rel(match.town, match.uri)
Arrive ==
  /\ phase = "entered" /\ match.status = "found"
  /\ \/ ~IsScript /\ IsDir(match.town, Target) /\ Finishes([status |-> "forbidden"])
     \/ /\ IsScript \/ ~IsDir(match.town, Target)
        /\ ~IsFile(match.town, Target) /\ Finishes([status |-> "notFound"])
     \/ /\ IsFile(match.town, Target)
        /\ Finishes([status |-> "served", file |-> Squeezed(Target)])
  /\ UNCHANGED <<request, city>>

Next ==
  \/ Load \/ (\E r \in Requests : Go(r))
  \/ Refuse \/ GetTownAndClub \/ GetIndex \/ Enter \/ Redirect \/ Arrive

Spec == Init /\ [][Next]_vars

-----------------------------------------------------------------------------
(* Properties.                                                             *)

Claims(clubs, rel) == \E i \in DOMAIN clubs, j \in DOMAIN rel : ClubMatches(clubs[i], rel[j])

(* A request is served in the closest town around it, by a club that       *)
(* claims it (the default one only if none does), and the script name and  *)
(* the path info together give back its URI, if no slash was doubled in    *)
(* front of the script.  Whoever is redirected without a query has arrived *)
(* there: the first town that matches the new URI matches what is in it.   *)
(* City.init, get_town_and_club and club_maches order towns, clubs and     *)
(* path elements so that this comes out.                                   *)
RoutedAsDeclared ==
  LET t == match.town
      m == match.match
      rel == Rel(t, match.uri)
  IN
  /\ outcome.status = "served" =>
       /\ IsStrictPrefix(t.name, request.uri) /\ IsStrictPrefix(t.name, match.uri)
       /\ \A u \in ToSet(city.towns) :
            IsStrictPrefix(u.name, request.uri) => Len(u.name) <= Len(t.name)
       /\ IF m.club.kind = "default"
          THEN ~Claims(t.clubs, rel) /\ ~Claims(city.clubs, rel) /\ outcome.file # <<>>
          ELSE /\ \/ m.club \in ToSet(t.clubs)
                  \/ m.club \in ToSet(city.clubs) /\ ~Claims(t.clubs, rel)
               /\ Head(rel) # Empty => t.name \o m.script \o m.info = match.uri /\ m.repeated = 0
  /\ outcome.status = "redirect" =>
       LET at == SelectInSeq(city.towns, LAMBDA u : TownMatches(u, outcome.uri) # "not") IN
       at # 0 /\ city.towns[at] = t /\ TownMatches(t, outcome.uri) = "matched"

(* Nobody gets further than a list of permissions that refuses him: for    *)
(* each refusing item that matches the client an admitting one stands      *)
(* before it, and where groups are named the user belongs to one of them.  *)
(* tour_admitted reads the lists of the city and of the town, in turn.     *)
AdmittedFirst ==
  outcome.status = "served" =>
    \A p \in ToSet(city.permissions) \cup ToSet(match.town.permissions) :
      /\ \A i \in DOMAIN p.items :
           ~p.items[i].admit /\ request.remote \in p.items[i].hosts =>
             \E j \in 1..(i - 1) : p.items[j].admit /\ request.remote \in p.items[j].hosts
      /\ p.groups # <<>> => \E l \in DOMAIN p.groups : \E g \in DOMAIN p.groups[l] :
                              request.user \in p.groups[l][g]
=============================================================================
