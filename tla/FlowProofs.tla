------------------------------ MODULE FlowProofs ------------------------------
(* Machine-checked facts about Flow, for every number of tours and every    *)
(* size of buffer, file and body.                                           *)
EXTENDS Flow, FiniteSetTheorems, TLAPS

(* How many elements of a sequence are in a set.                            *)
Count(s, S) == Cardinality({i \in DOMAIN s : s[i] \in S})
Reads(t) == {"read", "eof", "ioerror"} \X {t}

(* The parts of a body that wait: they are those of a tour whose consumer   *)
(* reports later, and have been posted.  FileContentHandler has reported    *)
(* whatever it got.                                                         *)
BodyWaits(t) ==
  /\ backend[t] # <<>> => kind[t] = "late"
  /\ \A i \in DOMAIN backend[t] : backend[t][i].to <= req[t].posted
  /\ kind[t] = "post" => req[t].posted = req[t].consumed

(* The agent is told that the file of a tour has been closed.               *)
Told(s, t) == \E i \in DOMAIN s : s[i] = <<"closed", t>>

(* Nothing of a file is sent before it is opened; a tour whose file is open *)
(* has not ended; a file that is read is open and its tour available, and   *)
(* whoever is available has room; only a file that is being closed is said  *)
(* to be.                                                                   *)
FileSent(t) ==
  /\ file[t].state = "none" =>
       /\ file[t] = NoFile /\ res[t].posted = 0 /\ res[t].consumed = 0
       /\ \A i \in DOMAIN net[t] : net[t][i] = "end"
  /\ file[t].state = "open" => state[t] \in {"reading", "running"}
  /\ state[t] \in {"reading", "running"} => \A i \in DOMAIN net[t] : net[t][i] # "end"
  /\ file[t].reading \/ file[t].state \in {"closing", "closed"} => res[t].available
  /\ file[t].reading => file[t].state = "open"
  /\ file[t].state # "none" /\ res[t].available => Room(res[t])
  /\ ~gzip[t] => \A i \in DOMAIN net[t] : net[t][i] # "part"
  /\ Told(letters, t) => file[t].state \in {"closing", "closed"}

(* The Spin multiplexer's reader never gets further than its first lap.     *)
Spins ==
  mpx = "spin" => /\ \A t \in Tours : taxis[t] = 0
                  /\ \A i \in DOMAIN letters : letters[i][1] = "fatal"

TourInv(t) ==
  /\ Reported(t) /\ WillBeResumed(t) /\ BodyWaits(t) /\ FileSent(t)
  /\ mpx = "taxi" /\ alive => ReadOnce(t)

(* The inductive invariant of both theorems.                                *)
FlowInv == TypeOK /\ Spins /\ \A t \in Tours : TourInv(t)

(* Counting in sequences.                                                   *)
LEMMA CountType ==
  ASSUME NEW E, NEW s \in Seq(E), NEW S
  PROVE  /\ IsFiniteSet({i \in DOMAIN s : s[i] \in S}) /\ Count(s, S) \in Nat
         /\ Count(s, S) = 0 <=> \A i \in DOMAIN s : s[i] \notin S
  <1>1. DOMAIN s = 1 .. Len(s) /\ Len(s) \in Int /\ 1 \in Int
    OBVIOUS
  <1>2. IsFiniteSet(DOMAIN s)
    BY <1>1, FS_Interval
  <1>3. {i \in DOMAIN s : s[i] \in S} \in SUBSET DOMAIN s
    OBVIOUS
  <1>4. IsFiniteSet({i \in DOMAIN s : s[i] \in S})
    BY <1>2, <1>3, FS_Subset
  <1>5. Count(s, S) = 0 <=> {i \in DOMAIN s : s[i] \in S} = {}
    BY <1>4, FS_EmptySet DEF Count
  <1> QED BY <1>4, <1>5, FS_CardinalityType DEF Count

(* One more is counted if it is in the set.                                 *)
LEMMA CountAppend ==
  ASSUME NEW E, NEW s \in Seq(E), NEW x \in E, NEW S
  PROVE  Count(Append(s, x), S) = IF x \in S THEN Count(s, S) + 1 ELSE Count(s, S)
  <1> DEFINE A == {i \in DOMAIN s : s[i] \in S}
             B == {i \in DOMAIN Append(s, x) : Append(s, x)[i] \in S}
  <1>1. /\ DOMAIN Append(s, x) = DOMAIN s \cup {Len(s) + 1} /\ Len(s) + 1 \notin DOMAIN s
        /\ Append(s, x)[Len(s) + 1] = x
        /\ \A i \in DOMAIN s : Append(s, x)[i] = s[i]
    OBVIOUS
  <1>2. IsFiniteSet(A)
    BY CountType
  <1>3. CASE x \in S
    <2>1. B = A \cup {Len(s) + 1} /\ Len(s) + 1 \notin A
      BY <1>1, <1>3
    <2> HIDE DEF A, B
    <2>2. Cardinality(B) = Cardinality(A) + 1
      BY <1>2, <2>1, FS_AddElement
    <2> QED BY <1>3, <2>2 DEF Count, A, B
  <1>4. CASE x \notin S
    <2>1. B = A
      BY <1>1, <1>4
    <2> QED BY <1>4, <2>1 DEF Count
  <1> QED BY <1>3, <1>4

(* One fewer is counted if the first was in it: the others move up.         *)
LEMMA CountTail ==
  ASSUME NEW E, NEW s \in Seq(E), s # <<>>, NEW S
  PROVE  Count(Tail(s), S) = IF Head(s) \in S THEN Count(s, S) - 1 ELSE Count(s, S)
  <1> DEFINE A == {i \in DOMAIN s : s[i] \in S}
             B == {i \in DOMAIN Tail(s) : Tail(s)[i] \in S}
             f == [i \in B |-> i + 1]
             T == A \ {1}
  <1>1. Len(s) \in Nat /\ Len(s) >= 1 /\ DOMAIN s = 1 .. Len(s) /\ DOMAIN Tail(s) = 1 .. Len(s) - 1
    OBVIOUS
  <1>2. \A i \in DOMAIN Tail(s) : Tail(s)[i] = s[i + 1] /\ i + 1 \in DOMAIN s /\ i + 1 # 1 /\ i \in Nat
    BY <1>1
  <1>3. \A i \in B : f[i] \in T
    BY <1>2
  <1>4. \A i, j \in B : f[i] = f[j] => i = j
    <2> SUFFICES ASSUME NEW i \in B, NEW j \in B, i + 1 = j + 1 PROVE i = j
      OBVIOUS
    <2>1. i \in Nat /\ j \in Nat
      BY <1>2
    <2> QED BY <2>1
  <1>5. \A j \in T : \E i \in B : f[i] = j
    <2> SUFFICES ASSUME NEW j \in T PROVE \E i \in B : i + 1 = j
      OBVIOUS
    <2>1. j \in 1 .. Len(s) /\ j # 1 /\ s[j] \in S
      BY <1>1
    <2>2. j - 1 \in 1 .. Len(s) - 1 /\ (j - 1) + 1 = j
      BY <1>1, <2>1
    <2>3. j - 1 \in B
      BY <1>1, <1>2, <2>1, <2>2
    <2> QED BY <2>2, <2>3
  <1>6. f \in Injection(B, T) /\ f \in Surjection(B, T)
    <2>1. f \in [B -> T]
      BY <1>3
    <2> QED BY <1>4, <1>5, <2>1 DEF Injection, IsInjective, Surjection
  <1>7. IsFiniteSet(A)
    BY CountType
  <1>8. 1 \in A <=> Head(s) \in S
    BY <1>1
  <1> HIDE DEF A, B, f
  <1>9. IsFiniteSet(T) /\ Cardinality(T) = IF 1 \in A THEN Cardinality(A) - 1 ELSE Cardinality(A)
    BY <1>7, FS_RemoveElement
  <1> HIDE DEF T
  <1>10. Cardinality(B) = Cardinality(T)
    BY <1>6, <1>9, FS_Injection
  <1> QED BY <1>8, <1>9, <1>10 DEF Count, A, B

(* The numbers of the properties as counts.                                 *)
LEMMA QueuedIs ==
  ASSUME NEW t
  PROVE  Queued(t) = Count(net[t], {"chunk"}) /\ Outstanding(t) = taxis[t] + Count(letters, Reads(t))
  <1>1. {i \in DOMAIN net[t] : net[t][i] = "chunk"} = {i \in DOMAIN net[t] : net[t][i] \in {"chunk"}}
    OBVIOUS
  <1> QED BY <1>1 DEF Queued, Outstanding, Count, Reads

(* Letters by name.                                                         *)
Words == {"read", "eof", "ioerror", "fatal", "closed"}
LetterSet == Words \X Tours

(* What the letter that is added, and the one that is taken, count for.     *)
LEMMA LetterAdded ==
  ASSUME NEW s \in Seq(LetterSet), NEW t \in Tours,
         NEW what \in Words
  PROVE  /\ Append(s, <<what, t>>) \in Seq(LetterSet)
         /\ \A u \in Tours : Count(s, Reads(u)) \in Nat
         /\ \A u \in Tours : u # t => Count(Append(s, <<what, t>>), Reads(u)) = Count(s, Reads(u))
         /\ Count(Append(s, <<what, t>>), Reads(t)) =
              IF what \in {"read", "eof", "ioerror"} THEN Count(s, Reads(t)) + 1 ELSE Count(s, Reads(t))
         /\ \A u \in Tours : Told(Append(s, <<what, t>>), u) => Told(s, u) \/ (u = t /\ what = "closed")
  <1>1. <<what, t>> \in LetterSet
    BY DEF LetterSet
  <1>2. \A u \in Tours : u # t => <<what, t>> \notin Reads(u)
    BY DEF Reads
  <1>3. <<what, t>> \in Reads(t) <=> what \in {"read", "eof", "ioerror"}
    BY DEF Reads
  <1>4. \A u \in Tours : Count(Append(s, <<what, t>>), Reads(u)) =
           IF <<what, t>> \in Reads(u) THEN Count(s, Reads(u)) + 1 ELSE Count(s, Reads(u))
    BY <1>1, CountAppend
  <1>5. \A u \in Tours : Count(s, Reads(u)) \in Nat
    BY CountType
  <1>6. Append(s, <<what, t>>) \in Seq(LetterSet)
    BY <1>1
  <1>7. \A u \in Tours : Told(Append(s, <<what, t>>), u) => Told(s, u) \/ (u = t /\ what = "closed")
    BY DEF Told
  <1> QED BY <1>2, <1>3, <1>4, <1>5, <1>6, <1>7

(* What taking the first letter does to those counts.                      *)
LEMMA LetterTaken ==
  ASSUME NEW s \in Seq(LetterSet), NEW t \in Tours, s # <<>>,
         NEW what \in Words, Head(s) = <<what, t>>
  PROVE  /\ Tail(s) \in Seq(LetterSet)
         /\ \A u \in Tours : Count(s, Reads(u)) \in Nat
         /\ \A u \in Tours : u # t => Count(Tail(s), Reads(u)) = Count(s, Reads(u))
         /\ Count(Tail(s), Reads(t)) =
              IF what \in {"read", "eof", "ioerror"} THEN Count(s, Reads(t)) - 1 ELSE Count(s, Reads(t))
         /\ what \in {"read", "eof", "ioerror"} => Count(s, Reads(t)) > 0
         /\ \A i \in DOMAIN Tail(s) : \E j \in DOMAIN s : Tail(s)[i] = s[j]
         /\ 1 \in DOMAIN s /\ s[1] = <<what, t>>
         /\ \A u \in Tours : Told(Tail(s), u) => Told(s, u)
         /\ what = "closed" => Told(s, t)
  <1>1. \A u \in Tours : u # t => <<what, t>> \notin Reads(u)
    BY DEF Reads
  <1>2. <<what, t>> \in Reads(t) <=> what \in {"read", "eof", "ioerror"}
    BY DEF Reads
  <1>3. \A u \in Tours : Count(Tail(s), Reads(u)) =
           IF <<what, t>> \in Reads(u) THEN Count(s, Reads(u)) - 1 ELSE Count(s, Reads(u))
    BY CountTail
  <1>4. 1 \in DOMAIN s /\ s[1] = <<what, t>>
    OBVIOUS
  <1>5. \A u \in Tours : Count(s, Reads(u)) \in Nat
    BY CountType
  <1>6. what \in {"read", "eof", "ioerror"} => Count(s, Reads(t)) # 0
    <2>1. Count(s, Reads(t)) = 0 <=> \A i \in DOMAIN s : s[i] \notin Reads(t)
      BY CountType
    <2> QED BY <1>2, <1>4, <2>1
  <1>7. Tail(s) \in Seq(LetterSet)
    OBVIOUS
  <1>8. \A i \in DOMAIN Tail(s) : \E j \in DOMAIN s : Tail(s)[i] = s[j]
    OBVIOUS
  <1>9. \A u \in Tours : Told(Tail(s), u) => Told(s, u)
    BY <1>8 DEF Told
  <1>10. what = "closed" => Told(s, t)
    BY <1>4 DEF Told
  <1> QED BY <1>1, <1>2, <1>3, <1>4, <1>5, <1>6, <1>7, <1>8, <1>9, <1>10

(* A step that is about one tour leaves the others alone: not a count of    *)
(* theirs is touched, nor a letter of theirs.                               *)
Aside(t) ==
  /\ UNCHANGED given /\ (alive' => alive)
  /\ \A u \in Tours : u # t =>
       /\ state'[u] = state[u] /\ req'[u] = req[u] /\ res'[u] = res[u] /\ conn'[u] = conn[u]
       /\ backend'[u] = backend[u] /\ net'[u] = net[u] /\ file'[u] = file[u] /\ taxis'[u] = taxis[u]
       /\ Count(letters', Reads(u)) = Count(letters, Reads(u)) /\ (Told(letters', u) => Told(letters, u))

(* The other tours keep their invariant.                                   *)
LEMMA AsideKeeps ==
  ASSUME FlowInv, NEW t \in Tours, Aside(t), TypeOK', Spins', TourInv(t)'
  PROVE  FlowInv'
  <1> SUFFICES ASSUME NEW u \in Tours, u # t PROVE TourInv(u)'
    BY DEF FlowInv
  <1>1. /\ kind' = kind /\ gzip' = gzip /\ mpx' = mpx /\ (alive' => alive)
        /\ state'[u] = state[u] /\ req'[u] = req[u] /\ res'[u] = res[u] /\ conn'[u] = conn[u]
        /\ backend'[u] = backend[u] /\ net'[u] = net[u] /\ file'[u] = file[u] /\ taxis'[u] = taxis[u]
        /\ Count(letters', Reads(u)) = Count(letters, Reads(u)) /\ (Told(letters', u) => Told(letters, u))
    BY DEF Aside, given
  <1>2. Queued(u)' = Queued(u)
    BY <1>1 DEF Queued
  <1>3. Outstanding(u)' = Outstanding(u)
    <2>1. Outstanding(u) = taxis[u] + Count(letters, Reads(u))
      BY QueuedIs
    <2>2. Outstanding(u)' = taxis'[u] + Count(letters', Reads(u))
      BY DEF Outstanding, Count, Reads
    <2> QED BY <1>1, <2>1, <2>2
  <1>4. TourInv(u)
    BY DEF FlowInv
  <1>5. Reported(u)'
    BY <1>1, <1>2, <1>4 DEF TourInv, Reported, WaitsInOrder
  <1>6. WillBeResumed(u)'
    BY <1>1, <1>2, <1>4 DEF TourInv, WillBeResumed, Incomplete, Listens
  <1>7. BodyWaits(u)'
    BY <1>1, <1>4 DEF TourInv, BodyWaits
  <1>8. FileSent(u)'
    BY <1>1, <1>4 DEF TourInv, FileSent
  <1>9. (mpx = "taxi" /\ alive)' => ReadOnce(u)'
    BY <1>1, <1>2, <1>3, <1>4 DEF TourInv, ReadOnce
  <1> QED BY <1>5, <1>6, <1>7, <1>8, <1>9 DEF TourInv

(* The sets of TypeOK by name.                                              *)
States == {"reading", "running", "ended", "returned"}
Conns == [open : BOOLEAN, reading : BOOLEAN]
Units == {"chunk", "part", "end"}
Rudders == [state : {"none", "open", "closing", "closed"}, reading : BOOLEAN, left : Nat]
Passes == 0 .. 1

(* What the invariant says of one tour, by those names.                    *)
LEMMA FlowTypes ==
  ASSUME FlowInv, NEW t \in Tours
  PROVE  /\ alive \in BOOLEAN /\ mpx \in {"taxi", "spin"}
         /\ state \in [Tours -> States] /\ req \in [Tours -> Counts] /\ res \in [Tours -> Counts]
         /\ conn \in [Tours -> Conns] /\ backend \in [Tours -> Seq(Parts)] /\ net \in [Tours -> Seq(Units)]
         /\ file \in [Tours -> Rudders] /\ taxis \in [Tours -> Passes]
         /\ lappers \subseteq Tours /\ letters \in Seq(LetterSet) /\ failed \subseteq Tours
         /\ kind[t] \in Kinds /\ state[t] \in States /\ req[t] \in Counts /\ res[t] \in Counts
         /\ conn[t] \in Conns /\ backend[t] \in Seq(Parts) /\ net[t] \in Seq(Units)
         /\ file[t] \in Rudders /\ taxis[t] \in Passes
         /\ req[t].consumed <= req[t].posted
         /\ ~gzip[t] => res[t].consumed <= res[t].posted
         /\ TourInv(t) /\ TypeOK
  <1>1. TypeOK /\ TourInv(t)
    BY DEF FlowInv
  <1>2. alive \in BOOLEAN /\ mpx \in {"taxi", "spin"} /\ lappers \subseteq Tours /\ failed \subseteq Tours
    BY <1>1 DEF TypeOK
  <1>4. state \in [Tours -> States] /\ req \in [Tours -> Counts] /\ res \in [Tours -> Counts]
    BY <1>1, Zenon DEF TypeOK, States
  <1>5. conn \in [Tours -> Conns] /\ backend \in [Tours -> Seq(Parts)] /\ net \in [Tours -> Seq(Units)]
    BY <1>1, Zenon DEF TypeOK, Conns, Units
  <1>6. file \in [Tours -> Rudders] /\ taxis \in [Tours -> Passes]
    BY <1>1, Zenon DEF TypeOK, Rudders, Passes
  <1>7. letters \in Seq(LetterSet) /\ kind \in [Tours -> Kinds]
    BY <1>1, Zenon DEF TypeOK, LetterSet, Words
  <1>3. req[t].consumed <= req[t].posted /\ (~gzip[t] => res[t].consumed <= res[t].posted)
    BY <1>1, Zenon DEF TypeOK
  <1> QED BY <1>1, <1>2, <1>3, <1>4, <1>5, <1>6, <1>7

(* The constants are numbers.                                              *)
LEMMA Numbers ==
  /\ Buffer \in Nat /\ Buffer > 0 /\ BodyLen \in Nat /\ BodyLen > 0 /\ FileLen \in Nat
  /\ \A n \in 1 .. MaxChunk : n \in Nat /\ n > 0
  BY FlowAssumption DEF FlowAssumption

(* At most one element of a function changes.                               *)
Sets(new, old, t, T) == new = old \/ \E x \in T : new = [old EXCEPT ![t] = x]

(* What that means for a function of the tours.                            *)
LEMMA SetsIs ==
  ASSUME NEW t, NEW T, NEW new, NEW old, old \in [Tours -> T], Sets(new, old, t, T)
  PROVE  new \in [Tours -> T] /\ \A u \in Tours : u # t => new[u] = old[u]
  <1>1. CASE new = old
    BY <1>1
  <1>2. CASE \E x \in T : new = [old EXCEPT ![t] = x]
    <2>1. PICK x \in T : new = [old EXCEPT ![t] = x]
      BY <1>2
    <2> QED BY <2>1
  <1> QED BY <1>1, <1>2 DEF Sets

(* A step that is about one tour is well typed if what it makes of that     *)
(* tour is, and leaves the others alone.                                    *)
LEMMA StepTypes ==
  ASSUME FlowInv, NEW t \in Tours, UNCHANGED given, alive' \in BOOLEAN, alive' => alive,
         Sets(state', state, t, States), Sets(req', req, t, Counts), Sets(res', res, t, Counts),
         Sets(conn', conn, t, Conns), Sets(backend', backend, t, Seq(Parts)), Sets(net', net, t, Seq(Units)),
         Sets(file', file, t, Rudders), Sets(taxis', taxis, t, Passes),
         lappers' \subseteq Tours, letters' \in Seq(LetterSet), failed' \subseteq Tours,
         req'[t].consumed <= req'[t].posted, ~gzip[t] => res'[t].consumed <= res'[t].posted,
         \A u \in Tours : u # t => /\ Count(letters', Reads(u)) = Count(letters, Reads(u))
                                   /\ Told(letters', u) => Told(letters, u)
  PROVE  TypeOK' /\ Aside(t)
  <1>1. state' \in [Tours -> States] /\ \A u \in Tours : u # t => state'[u] = state[u]
    <2>1. state \in [Tours -> States] /\ Sets(state', state, t, States)
      BY FlowTypes
    <2> QED BY <2>1, SetsIs
  <1>2. req' \in [Tours -> Counts] /\ \A u \in Tours : u # t => req'[u] = req[u]
    <2>1. req \in [Tours -> Counts] /\ Sets(req', req, t, Counts)
      BY FlowTypes
    <2> QED BY <2>1, SetsIs
  <1>3. res' \in [Tours -> Counts] /\ \A u \in Tours : u # t => res'[u] = res[u]
    <2>1. res \in [Tours -> Counts] /\ Sets(res', res, t, Counts)
      BY FlowTypes
    <2> QED BY <2>1, SetsIs
  <1>4. conn' \in [Tours -> Conns] /\ \A u \in Tours : u # t => conn'[u] = conn[u]
    <2>1. conn \in [Tours -> Conns] /\ Sets(conn', conn, t, Conns)
      BY FlowTypes
    <2> QED BY <2>1, SetsIs
  <1>5. backend' \in [Tours -> Seq(Parts)] /\ \A u \in Tours : u # t => backend'[u] = backend[u]
    <2>1. backend \in [Tours -> Seq(Parts)] /\ Sets(backend', backend, t, Seq(Parts))
      BY FlowTypes
    <2> QED BY <2>1, SetsIs
  <1>6. net' \in [Tours -> Seq(Units)] /\ \A u \in Tours : u # t => net'[u] = net[u]
    <2>1. net \in [Tours -> Seq(Units)] /\ Sets(net', net, t, Seq(Units))
      BY FlowTypes
    <2> QED BY <2>1, SetsIs
  <1>7. file' \in [Tours -> Rudders] /\ \A u \in Tours : u # t => file'[u] = file[u]
    <2>1. file \in [Tours -> Rudders] /\ Sets(file', file, t, Rudders)
      BY FlowTypes
    <2> QED BY <2>1, SetsIs
  <1>8. taxis' \in [Tours -> Passes] /\ \A u \in Tours : u # t => taxis'[u] = taxis[u]
    <2>1. taxis \in [Tours -> Passes] /\ Sets(taxis', taxis, t, Passes)
      BY FlowTypes
    <2> QED BY <2>1, SetsIs
  <1>9. mpx' = mpx /\ kind' = kind /\ gzip' = gzip
    BY DEF given
  <1>10. \A u \in Tours : req'[u].consumed <= req'[u].posted
    BY <1>2, FlowTypes
  <1>11. \A u \in Tours : ~gzip'[u] => res'[u].consumed <= res'[u].posted
    BY <1>3, <1>9, FlowTypes
  <1>12. mpx \in {"taxi", "spin"} /\ kind \in [Tours -> Kinds] /\ gzip \in [Tours -> BOOLEAN]
    BY DEF FlowInv, TypeOK
  <1>13. TypeOK'
    BY <1>1, <1>2, <1>3, <1>4, <1>5, <1>6, <1>7, <1>8, <1>9, <1>10, <1>11, <1>12, Zenon
       DEF TypeOK, States, Conns, Units, Rudders, Passes, LetterSet, Words
  <1> QED BY <1>1, <1>2, <1>3, <1>4, <1>5, <1>6, <1>7, <1>8, <1>13 DEF Aside

(* A letter about reading that the agent handles is the one read there is.  *)
LEMMA OneOutstanding ==
  ASSUME FlowInv, NEW t \in Tours, alive, letters # <<>>,
         NEW what \in {"read", "eof", "ioerror"}, Head(letters) = <<what, t>>
  PROVE  /\ mpx = "taxi" /\ file[t].reading /\ file[t].state = "open" /\ res[t].available
         /\ taxis[t] = 0 /\ Count(letters, Reads(t)) = 1
  <1>1. letters \in Seq(LetterSet) /\ mpx \in {"taxi", "spin"} /\ taxis[t] \in 0 .. 1 /\ TourInv(t)
    BY FlowTypes DEF Passes
  <1>2. Count(letters, Reads(t)) \in Nat /\ Count(letters, Reads(t)) > 0 /\ 1 \in DOMAIN letters /\ letters[1] = <<what, t>>
    BY <1>1, LetterTaken DEF Words
  <1>3. mpx = "taxi"
    BY <1>1, <1>2 DEF FlowInv, Spins
  <1>4. ReadOnce(t)
    BY <1>1, <1>3 DEF TourInv
  <1>5. Outstanding(t) = taxis[t] + Count(letters, Reads(t))
    BY QueuedIs
  <1>6. /\ taxis[t] + Count(letters, Reads(t)) = IF file[t].reading THEN 1 ELSE 0
        /\ file[t].reading => file[t].state = "open"
    BY <1>4, <1>5 DEF ReadOnce
  <1>7. file[t].reading /\ taxis[t] = 0 /\ Count(letters, Reads(t)) = 1
    BY <1>1, <1>2, <1>6
  <1> QED BY <1>1, <1>3, <1>6, <1>7 DEF TourInv, FileSent

(* What the counters are after a post, and after a report.                  *)
LEMMA PostIs ==
  ASSUME NEW c \in Counts, NEW n \in Nat
  PROVE  /\ Post(c, n) \in Counts
         /\ Post(c, n).posted = c.posted + n /\ Post(c, n).consumed = c.consumed
         /\ Post(c, n).available <=> c.available /\ c.posted + n < c.consumed + Buffer
  <1>1. /\ c.posted \in Nat /\ c.posted + n \in Nat
        /\ [c EXCEPT !.posted = @ + n] = [posted |-> c.posted + n, consumed |-> c.consumed, available |-> c.available]
    BY DEF Counts
  <1> DEFINE d == [posted |-> c.posted + n, consumed |-> c.consumed, available |-> c.available]
  <1>2. Post(c, n) = [d EXCEPT !.available = @ /\ Room(d)]
    BY <1>1 DEF Post
  <1>3. Post(c, n) = [posted |-> c.posted + n, consumed |-> c.consumed, available |-> c.available /\ Room(d)]
    BY <1>2
  <1>4. Room(d) <=> c.posted + n < c.consumed + Buffer
    BY DEF Room
  <1>5. c.available \in BOOLEAN /\ Room(d) \in BOOLEAN
    BY DEF Counts, Room
  <1>6. (c.available /\ Room(d)) \in BOOLEAN
    BY <1>5
  <1> HIDE DEF d
  <1>7. c.posted + n \in Nat /\ c.consumed \in Nat
    BY <1>1 DEF Counts
  <1>8. Post(c, n) \in Counts
    BY <1>3, <1>6, <1>7 DEF Counts
  <1>9. Post(c, n).posted = c.posted + n /\ Post(c, n).consumed = c.consumed
    BY <1>3
  <1> DEFINE b == c.available /\ Room(d)
  <1>10. Post(c, n).available = b /\ b \in BOOLEAN
    <2>1. b \in BOOLEAN
      BY <1>6
    <2> HIDE DEF b
    <2>2. Post(c, n) = [posted |-> c.posted + n, consumed |-> c.consumed, available |-> b]
      BY <1>3 DEF b
    <2> QED BY <2>1, <2>2
  <1>11. Post(c, n).available <=> b
    BY <1>10
  <1> QED BY <1>4, <1>8, <1>9, <1>11

(* What the counters are after a report.                                   *)
LEMMA ConsumeIs ==
  ASSUME NEW c \in Counts, NEW n \in Nat
  PROVE  /\ Consume(c, n) \in Counts
         /\ Consume(c, n).posted = c.posted /\ Consume(c, n).consumed = c.consumed + n
         /\ Consume(c, n).available <=> c.available \/ c.posted < c.consumed + n + Buffer
  <1>1. /\ c.consumed \in Nat /\ c.consumed + n \in Nat
        /\ [c EXCEPT !.consumed = @ + n] = [posted |-> c.posted, consumed |-> c.consumed + n, available |-> c.available]
    BY DEF Counts
  <1> DEFINE d == [posted |-> c.posted, consumed |-> c.consumed + n, available |-> c.available]
  <1>2. Consume(c, n) = [d EXCEPT !.available = @ \/ Room(d)]
    BY <1>1 DEF Consume
  <1>3. Consume(c, n) = [posted |-> c.posted, consumed |-> c.consumed + n, available |-> c.available \/ Room(d)]
    BY <1>2
  <1>4. Room(d) <=> c.posted < c.consumed + n + Buffer
    BY DEF Room
  <1>5. c.available \in BOOLEAN /\ Room(d) \in BOOLEAN
    BY DEF Counts, Room
  <1>6. (c.available \/ Room(d)) \in BOOLEAN
    BY <1>5
  <1> HIDE DEF d
  <1>7. c.posted \in Nat /\ c.consumed + n \in Nat
    BY <1>1 DEF Counts
  <1>8. Consume(c, n) \in Counts
    BY <1>3, <1>6, <1>7 DEF Counts
  <1>9. Consume(c, n).posted = c.posted /\ Consume(c, n).consumed = c.consumed + n
    BY <1>3
  <1> DEFINE b == c.available \/ Room(d)
  <1>10. Consume(c, n).available = b /\ b \in BOOLEAN
    <2>1. b \in BOOLEAN
      BY <1>6
    <2> HIDE DEF b
    <2>2. Consume(c, n) = [posted |-> c.posted, consumed |-> c.consumed + n, available |-> b]
      BY <1>3 DEF b
    <2> QED BY <2>1, <2>2
  <1>11. Consume(c, n).available <=> b
    BY <1>10
  <1> QED BY <1>4, <1>8, <1>9, <1>11

(* The two sides of a tour: the body of its request, and its response.      *)
ReqSide(t) ==
  /\ kind[t] = "late" => WaitsInOrder(t)
  /\ Incomplete(t) /\ conn[t].open /\ ~conn[t].reading => ~req[t].available /\ backend[t] # <<>>
  /\ BodyWaits(t)
ResSide(t) ==
  /\ file[t].state # "none" /\ ~gzip[t] => res[t].posted = res[t].consumed + Queued(t)
  /\ file[t].state = "open" /\ ~file[t].reading /\ Listens(t) /\ ~gzip[t]
       => ~res[t].available /\ Queued(t) > 0
  /\ FileSent(t)
  /\ mpx = "taxi" /\ alive => ReadOnce(t)

(* A tour that is right is right on both sides, and the converse after a   *)
(* step.                                                                   *)
LEMMA Sides ==
  ASSUME NEW t \in Tours, TourInv(t)
  PROVE  ReqSide(t) /\ ResSide(t)
  BY DEF TourInv, Reported, WillBeResumed, ReqSide, ResSide

(* A tour is right after a step if both its sides are.                     *)
LEMMA SidesNext ==
  ASSUME NEW t \in Tours, ReqSide(t)', ResSide(t)'
  PROVE  TourInv(t)'
  BY DEF TourInv, Reported, WillBeResumed, ReqSide, ResSide

(* The numbers of the properties as counts, after a step.                  *)
LEMMA QueuedNext ==
  ASSUME NEW t
  PROVE  /\ Queued(t)' = Count(net'[t], {"chunk"})
         /\ Outstanding(t)' = taxis'[t] + Count(letters', Reads(t))
  <1>1. {i \in DOMAIN net'[t] : net'[t][i] = "chunk"} = {i \in DOMAIN net'[t] : net'[t][i] \in {"chunk"}}
    OBVIOUS
  <1> QED BY <1>1 DEF Queued, Outstanding, Count, Reads

(* A step that leaves the request side alone, or completes the body.        *)
LEMMA ReqKept ==
  ASSUME FlowInv, NEW t \in Tours, UNCHANGED given, req'[t] = req[t], backend'[t] = backend[t],
         Incomplete(t)' => Incomplete(t),
         Incomplete(t)' /\ conn'[t].open /\ ~conn'[t].reading => conn[t].open /\ ~conn[t].reading
  PROVE  ReqSide(t)'
  <1>1. ReqSide(t)
    BY FlowTypes, Sides
  <1>2. kind' = kind
    BY DEF given
  <1>3. (kind[t] = "late" => WaitsInOrder(t))'
    BY <1>1, <1>2 DEF ReqSide, WaitsInOrder
  <1>4. BodyWaits(t)'
    BY <1>1, <1>2 DEF ReqSide, BodyWaits
  <1>5. (Incomplete(t) /\ conn[t].open /\ ~conn[t].reading => ~req[t].available /\ backend[t] # <<>>)'
    BY <1>1 DEF ReqSide
  <1> QED BY <1>3, <1>4, <1>5 DEF ReqSide

(* A tour whose file is not open yet has no letters and nothing read.       *)
LEMMA ResUnopened ==
  ASSUME FlowInv, NEW t \in Tours, UNCHANGED given, alive' => alive, file[t].state = "none",
         file'[t] = file[t], res'[t] = res[t], taxis'[t] = taxis[t],
         Count(letters', Reads(t)) = Count(letters, Reads(t)), Told(letters', t) => Told(letters, t),
         \A i \in DOMAIN net'[t] : net'[t][i] = "end",
         state'[t] \in {"ended", "returned"} \/ (state'[t] = state[t] /\ net'[t] = net[t])
  PROVE  ResSide(t)'
  <1>1. ResSide(t)
    BY FlowTypes, Sides
  <1>2. mpx' = mpx
    BY DEF given
  <1>3. FileSent(t)'
    BY <1>1 DEF ResSide, FileSent
  <1>4. (mpx = "taxi" /\ alive)' => ReadOnce(t)'
    <2>1. file[t] = NoFile /\ ~file[t].reading
      BY <1>1 DEF ResSide, FileSent, NoFile
    <2>2. Outstanding(t)' = Outstanding(t)
      BY QueuedIs, QueuedNext
    <2> QED BY <1>1, <1>2, <2>1, <2>2 DEF ResSide, ReadOnce
  <1> QED BY <1>3, <1>4 DEF ResSide

(* The counters of the response are the same: what is queued is, too.       *)
LEMMA ResKept ==
  ASSUME FlowInv, NEW t \in Tours, UNCHANGED given, alive' => alive,
         file'[t] = file[t], res'[t] = res[t], taxis'[t] = taxis[t], net'[t] = net[t], state'[t] = state[t],
         Count(letters', Reads(t)) = Count(letters, Reads(t)), Told(letters', t) => Told(letters, t)
  PROVE  ResSide(t)'
  <1>1. ResSide(t)
    BY FlowTypes, Sides
  <1>2. mpx' = mpx /\ gzip' = gzip
    BY DEF given
  <1>3. Queued(t)' = Queued(t) /\ Outstanding(t)' = Outstanding(t)
    BY QueuedIs, QueuedNext
  <1>4. FileSent(t)'
    BY <1>1, <1>2 DEF ResSide, FileSent
  <1>5. (mpx = "taxi" /\ alive)' => ReadOnce(t)'
    BY <1>1, <1>2, <1>3 DEF ResSide, ReadOnce
  <1> QED BY <1>1, <1>2, <1>3, <1>4, <1>5 DEF ResSide, Listens

(* What updates do to a tour.                                               *)
LEMMA Updates ==
  /\ \A c \in Conns, b \in BOOLEAN :
       [c EXCEPT !.reading = b] \in Conns /\ [c EXCEPT !.reading = b].open = c.open
         /\ [c EXCEPT !.reading = b].reading = b
  /\ \A f \in Rudders, b \in BOOLEAN :
       [f EXCEPT !.reading = b] \in Rudders /\ [f EXCEPT !.reading = b].state = f.state
         /\ [f EXCEPT !.reading = b].reading = b /\ [f EXCEPT !.reading = b].left = f.left
  /\ \A f \in Rudders, n \in Nat :
       [f EXCEPT !.left = n] \in Rudders /\ [f EXCEPT !.left = n].state = f.state
         /\ [f EXCEPT !.left = n].reading = f.reading
  <1>1. ASSUME NEW c \in Conns, NEW b \in BOOLEAN
        PROVE  [c EXCEPT !.reading = b] \in Conns /\ [c EXCEPT !.reading = b].open = c.open
                 /\ [c EXCEPT !.reading = b].reading = b
    BY DEF Conns
  <1>2. ASSUME NEW f \in Rudders, NEW b \in BOOLEAN
        PROVE  [f EXCEPT !.reading = b] \in Rudders /\ [f EXCEPT !.reading = b].state = f.state
                 /\ [f EXCEPT !.reading = b].reading = b /\ [f EXCEPT !.reading = b].left = f.left
    BY DEF Rudders
  <1>3. ASSUME NEW f \in Rudders, NEW n \in Nat
        PROVE  [f EXCEPT !.left = n] \in Rudders /\ [f EXCEPT !.left = n].state = f.state
                 /\ [f EXCEPT !.left = n].reading = f.reading
    BY DEF Rudders
  <1> QED BY <1>1, <1>2, <1>3

(* One element of a function is set.                                       *)
LEMMA SetsOne ==
  ASSUME NEW t \in Tours, NEW T, NEW old, old \in [Tours -> T], NEW x \in T, NEW new, new = [old EXCEPT ![t] = x]
  PROVE  Sets(new, old, t, T) /\ new[t] = x
  BY DEF Sets

(* A function is left alone.                                               *)
LEMMA SetsNone ==
  ASSUME NEW t, NEW T, NEW old, NEW new, new = old
  PROVE  Sets(new, old, t, T)
  BY DEF Sets

(* The end of a tour.                                                       *)
LEMMA AnswerIs ==
  ASSUME FlowInv, NEW t \in Tours, Answer(t)
  PROVE  /\ Sets(state', state, t, States) /\ state'[t] \in {"ended", "returned"}
         /\ Sets(net', net, t, Seq(Units))
         /\ net'[t] = net[t] \/ net'[t] = Append(net[t], "end")
  <1>1. state \in [Tours -> States] /\ net \in [Tours -> Seq(Units)] /\ net[t] \in Seq(Units)
    BY FlowTypes
  <1>2. CASE state[t] \in {"ended", "returned"}
    BY <1>1, <1>2, SetsNone DEF Answer
  <1>3. CASE state[t] \notin {"ended", "returned"} /\ conn[t].open
    <2>1. state' = [state EXCEPT ![t] = "ended"] /\ net' = [net EXCEPT ![t] = Append(net[t], "end")]
      BY <1>3 DEF Answer
    <2>2. "ended" \in States /\ Append(net[t], "end") \in Seq(Units)
      BY <1>1 DEF States, Units
    <2>3. Sets(state', state, t, States) /\ state'[t] = "ended"
      BY <1>1, <2>1, <2>2, SetsOne
    <2>4. Sets(net', net, t, Seq(Units)) /\ net'[t] = Append(net[t], "end")
      BY <1>1, <2>1, <2>2, SetsOne
    <2> QED BY <2>3, <2>4
  <1>4. CASE state[t] \notin {"ended", "returned"} /\ ~conn[t].open
    <2>1. state' = [state EXCEPT ![t] = "returned"] /\ net' = net
      BY <1>4 DEF Answer
    <2>2. "returned" \in States
      BY DEF States
    <2>3. Sets(state', state, t, States) /\ state'[t] = "returned"
      BY <1>1, <2>1, <2>2, SetsOne
    <2>4. Sets(net', net, t, Seq(Units))
      BY <2>1, SetsNone
    <2> QED BY <2>1, <2>3, <2>4
  <1> QED BY <1>2, <1>3, <1>4

(* The end of a response that is queued is neither a chunk nor a part.     *)
LEMMA EndAppended ==
  ASSUME NEW s \in Seq(Units), NEW r, r = s \/ r = Append(s, "end")
  PROVE  /\ Count(r, {"chunk"}) = Count(s, {"chunk"})
         /\ (\A i \in DOMAIN s : s[i] = "end") => (\A i \in DOMAIN r : r[i] = "end")
         /\ (\A i \in DOMAIN s : s[i] # "part") => (\A i \in DOMAIN r : r[i] # "part")
  <1>1. CASE r = s
    BY <1>1
  <1>2. CASE r = Append(s, "end")
    <2>1. Count(r, {"chunk"}) = Count(s, {"chunk"})
      <3>1. "end" \in Units /\ "end" \notin {"chunk"}
        BY DEF Units
      <3> QED BY <1>2, <3>1, CountAppend
    <2>2. \A i \in DOMAIN r : r[i] = "end" \/ (i \in DOMAIN s /\ r[i] = s[i])
      BY <1>2
    <2> QED BY <2>1, <2>2
  <1> QED BY <1>1, <1>2

(* A step about a tour, from what it does to it.                            *)
LEMMA Together ==
  ASSUME FlowInv, NEW t \in Tours, TypeOK', Aside(t), Spins', ReqSide(t)', ResSide(t)'
  PROVE  FlowInv'
  BY SidesNext, AsideKeeps

(* What holds when a body is received.                                      *)
LEMMA ReceivesIs ==
  ASSUME FlowInv, NEW t \in Tours, Receives(t)
  PROVE  /\ conn[t].open /\ conn[t].reading /\ state[t] = "reading" /\ kind[t] \in WithBody
         /\ file[t].state = "none" /\ file[t] = NoFile /\ res[t].posted = 0 /\ res[t].consumed = 0
         /\ \A i \in DOMAIN net[t] : net[t][i] = "end"
         /\ req[t].posted < BodyLen /\ ~Told(letters, t) /\ ReqSide(t) /\ ResSide(t)
         /\ net[t] = <<>>
  <1>1. ReqSide(t) /\ ResSide(t) /\ net[t] \in Seq(Units)
    BY FlowTypes, Sides
  <1>2. \A i \in DOMAIN net[t] : net[t][i] = "end" /\ net[t][i] # "end"
    BY <1>1 DEF Receives, Incomplete, ResSide, FileSent
  <1>3. net[t] = <<>>
    <2>1. 1 \notin DOMAIN net[t]
      BY <1>2
    <2> QED BY <1>1, <2>1
  <1> QED BY <1>1, <1>3 DEF Receives, Incomplete, ResSide, FileSent

(* A chunk for a refused request keeps the invariant: the counter only     *)
(* moves, and the end is all that is queued.                               *)
LEMMA BodyOfRefusedKeeps ==
  ASSUME FlowInv, NEW t \in Tours, NEW n \in 1 .. MaxChunk, BodyOfRefused(t, n)
  PROVE  FlowInv'
  <1> DEFINE r == [posted |-> req[t].posted + n, consumed |-> req[t].consumed, available |-> req[t].available]
             c == [conn[t] EXCEPT !.reading = FALSE]
  <1>1. /\ Receives(t) /\ kind[t] = "refused" /\ req' = [req EXCEPT ![t].posted = @ + n]
        /\ UNCHANGED given /\ alive' = alive /\ res' = res /\ backend' = backend /\ file' = file
        /\ taxis' = taxis /\ lappers' = lappers /\ letters' = letters /\ failed' = failed
    BY DEF BodyOfRefused, fileVars
  <1>2. n \in Nat /\ n > 0
    BY Numbers
  <1>3. req[t] \in Counts /\ req \in [Tours -> Counts] /\ conn \in [Tours -> Conns] /\ conn[t] \in Conns
    BY FlowTypes
  <1>4. r \in Counts /\ req' = [req EXCEPT ![t] = r]
    <2>1. req[t].posted \in Nat /\ req[t].consumed \in Nat /\ req[t].available \in BOOLEAN /\ req[t].posted + n \in Nat
      BY <1>2, <1>3 DEF Counts
    <2>2. [req[t] EXCEPT !.posted = @ + n] = r
      BY <1>3 DEF Counts
    <2>3. req' = [req EXCEPT ![t] = [req[t] EXCEPT !.posted = @ + n]]
      BY <1>1
    <2>4. r \in Counts
      BY <2>1 DEF Counts
    <2> QED BY <2>2, <2>3, <2>4
  <1>5. r.posted = req[t].posted + n /\ r.consumed = req[t].consumed
    OBVIOUS
  <1> HIDE DEF r
  <1>6. Sets(req', req, t, Counts) /\ req'[t] = r
    BY <1>3, <1>4, SetsOne
  <1>7. /\ Sets(state', state, t, States) /\ Sets(net', net, t, Seq(Units)) /\ Sets(conn', conn, t, Conns)
        /\ \A i \in DOMAIN net'[t] : net'[t][i] = "end"
        /\ state'[t] = "reading" => req[t].posted + n # BodyLen /\ conn' = conn
        /\ state'[t] \in {"ended", "returned"} \/ (state'[t] = state[t] /\ net'[t] = net[t])
    <2>1. CASE req[t].posted + n = BodyLen
      <3>1. Answer(t) /\ conn' = [conn EXCEPT ![t].reading = FALSE]
        BY <2>1 DEF BodyOfRefused
      <3>2. c \in Conns /\ conn' = [conn EXCEPT ![t] = c]
        BY <1>3, <3>1, Updates
      <3> HIDE DEF c
      <3>3. Sets(conn', conn, t, Conns)
        BY <1>3, <3>2, SetsOne
      <3>4. /\ Sets(state', state, t, States) /\ state'[t] \in {"ended", "returned"}
            /\ Sets(net', net, t, Seq(Units)) /\ (net'[t] = net[t] \/ net'[t] = Append(net[t], "end"))
        BY <3>1, AnswerIs
      <3>5. net[t] \in Seq(Units) /\ \A i \in DOMAIN net[t] : net[t][i] = "end"
        BY <1>1, ReceivesIs, FlowTypes
      <3>6. \A i \in DOMAIN net'[t] : net'[t][i] = "end"
        BY <3>4, <3>5, EndAppended
      <3> QED BY <3>3, <3>4, <3>6
    <2>2. CASE req[t].posted + n # BodyLen
      <3>1. state' = state /\ net' = net /\ conn' = conn
        BY <2>2 DEF BodyOfRefused
      <3> QED BY <1>1, <2>2, <3>1, SetsNone, ReceivesIs
    <2> QED BY <2>1, <2>2
  <1>8. TypeOK' /\ Aside(t)
    <2>1. /\ Sets(res', res, t, Counts) /\ Sets(backend', backend, t, Seq(Parts)) /\ Sets(file', file, t, Rudders)
          /\ Sets(taxis', taxis, t, Passes)
      BY <1>1, SetsNone
    <2>2. alive' \in BOOLEAN /\ lappers' \subseteq Tours /\ letters' \in Seq(LetterSet) /\ failed' \subseteq Tours
      BY <1>1, FlowTypes
    <2>3. req'[t].consumed <= req'[t].posted
      <3>1. req[t].consumed <= req[t].posted /\ req[t].consumed \in Nat /\ req[t].posted \in Nat
        BY <1>3, FlowTypes DEF Counts
      <3> QED BY <1>2, <1>5, <1>6, <3>1
    <2>4. ~gzip[t] => res'[t].consumed <= res'[t].posted
      BY <1>1, FlowTypes
    <2> QED BY <1>1, <1>6, <1>7, <2>1, <2>2, <2>3, <2>4, StepTypes
  <1>9. Spins'
    BY <1>1 DEF FlowInv, Spins, given
  <1>10. ReqSide(t)'
    <2>1. kind'[t] = "refused" /\ kind' = kind
      BY <1>1 DEF given
    <2>2. backend'[t] = <<>>
      BY <1>1, ReceivesIs DEF ReqSide, BodyWaits
    <2>3. Incomplete(t)' => conn'[t].reading
      BY <1>1, <1>7, ReceivesIs DEF Incomplete
    <2>4. BodyWaits(t)'
      BY <2>1, <2>2 DEF BodyWaits
    <2> QED BY <2>1, <2>3, <2>4 DEF ReqSide
  <1>11. ResSide(t)'
    BY <1>1, <1>7, ReceivesIs, ResUnopened
  <1> QED BY <1>8, <1>9, <1>10, <1>11, Together

(* So does a chunk that overshoots: the tour is over.                      *)
LEMMA BodyTooLongKeeps ==
  ASSUME FlowInv, NEW t \in Tours, NEW n \in 1 .. MaxChunk, BodyTooLong(t, n)
  PROVE  FlowInv'
  <1> DEFINE c == [conn[t] EXCEPT !.reading = FALSE]
  <1>1. /\ Receives(t) /\ conn' = [conn EXCEPT ![t].reading = FALSE]
        /\ UNCHANGED given /\ alive' = alive /\ req' = req /\ res' = res /\ backend' = backend /\ file' = file
        /\ taxis' = taxis /\ lappers' = lappers /\ letters' = letters /\ failed' = failed
    BY DEF BodyTooLong, fileVars
  <1>2. conn \in [Tours -> Conns] /\ conn[t] \in Conns /\ state \in [Tours -> States] /\ net[t] \in Seq(Units)
    BY FlowTypes
  <1>3. c \in Conns /\ conn' = [conn EXCEPT ![t] = c]
    BY <1>1, <1>2, Updates
  <1> HIDE DEF c
  <1>4. Sets(conn', conn, t, Conns)
    BY <1>2, <1>3, SetsOne
  <1>5. \A i \in DOMAIN net[t] : net[t][i] = "end"
    BY <1>1, ReceivesIs
  <1>6. /\ Sets(state', state, t, States) /\ state'[t] \in {"ended", "returned"} /\ Sets(net', net, t, Seq(Units))
        /\ net'[t] = net[t] \/ net'[t] = Append(net[t], "end")
    <2>1. CASE kind[t] = "post"
      <3>1. state' = [state EXCEPT ![t] = "returned"] /\ net' = net /\ "returned" \in States
        BY <2>1 DEF BodyTooLong, States
      <3>2. Sets(state', state, t, States) /\ state'[t] = "returned"
        BY <1>2, <3>1, SetsOne
      <3> QED BY <3>1, <3>2, SetsNone
    <2>2. CASE kind[t] # "post"
      <3>1. Answer(t)
        BY <2>2 DEF BodyTooLong
      <3> QED BY <3>1, AnswerIs
    <2> QED BY <2>1, <2>2
  <1>7. \A i \in DOMAIN net'[t] : net'[t][i] = "end"
    BY <1>2, <1>5, <1>6, EndAppended
  <1>8. TypeOK' /\ Aside(t)
    <2>1. /\ Sets(req', req, t, Counts) /\ Sets(res', res, t, Counts) /\ Sets(backend', backend, t, Seq(Parts))
          /\ Sets(file', file, t, Rudders) /\ Sets(taxis', taxis, t, Passes)
      BY <1>1, SetsNone
    <2>2. alive' \in BOOLEAN /\ lappers' \subseteq Tours /\ letters' \in Seq(LetterSet) /\ failed' \subseteq Tours
      BY <1>1, FlowTypes
    <2>3. req'[t].consumed <= req'[t].posted /\ (~gzip[t] => res'[t].consumed <= res'[t].posted)
      BY <1>1, FlowTypes
    <2> QED BY <1>1, <1>4, <1>6, <2>1, <2>2, <2>3, StepTypes
  <1>9. Spins'
    BY <1>1 DEF FlowInv, Spins, given
  <1>10. ReqSide(t)'
    <2>1. ~Incomplete(t)'
      BY <1>6 DEF Incomplete
    <2> QED BY <1>1, <2>1, ReqKept
  <1>11. ResSide(t)'
    BY <1>1, <1>6, <1>7, ReceivesIs, ResUnopened
  <1> QED BY <1>8, <1>9, <1>10, <1>11, Together

(* FileContentHandler has consumed what was posted, so the client goes on, *)
(* and the file that is opened is read once.                               *)
LEMMA BodyOfPostKeeps ==
  ASSUME FlowInv, NEW t \in Tours, NEW n \in 1 .. MaxChunk, BodyOfPost(t, n)
  PROVE  FlowInv'
  <1> DEFINE r == Post(Consume(req[t], n), n)
             a == [res[t] EXCEPT !.available = TRUE]
             c == [conn[t] EXCEPT !.reading = r.available]
  <1>1. /\ Receives(t) /\ kind[t] = "post" /\ req[t].posted + n <= BodyLen /\ req' = [req EXCEPT ![t] = r]
        /\ UNCHANGED given /\ alive' = alive /\ state' = state /\ backend' = backend
        /\ net' = net /\ letters' = letters /\ failed' = failed
    BY DEF BodyOfPost
  <1>2. n \in Nat /\ n > 0 /\ Buffer \in Nat /\ Buffer > 0 /\ FileLen \in Nat
    BY Numbers
  <1>3. /\ req[t] \in Counts /\ req \in [Tours -> Counts] /\ conn \in [Tours -> Conns] /\ conn[t] \in Conns
        /\ res \in [Tours -> Counts] /\ res[t] \in Counts /\ file \in [Tours -> Rudders]
        /\ taxis \in [Tours -> Passes] /\ taxis[t] \in Passes /\ lappers \subseteq Tours
    BY FlowTypes
  <1>4. /\ conn[t].reading /\ state[t] = "reading" /\ file[t] = NoFile /\ file[t].state = "none"
        /\ res[t].posted = 0 /\ res[t].consumed = 0 /\ (\A i \in DOMAIN net[t] : net[t][i] = "end")
        /\ ~Told(letters, t) /\ ReqSide(t) /\ ResSide(t) /\ net[t] \in Seq(Units)
    BY <1>1, ReceivesIs, FlowTypes
  <1>5. /\ r \in Counts /\ r.posted = req[t].posted + n /\ r.consumed = req[t].consumed + n
        /\ req[t].posted \in Nat /\ req[t].consumed \in Nat /\ req[t].available \in BOOLEAN
        /\ r.available <=> (req[t].available \/ req[t].posted < req[t].consumed + n + Buffer)
                             /\ req[t].posted + n < req[t].consumed + n + Buffer
    <2>1. Consume(req[t], n) \in Counts
      BY <1>2, <1>3, ConsumeIs
    <2>2. /\ Consume(req[t], n).posted = req[t].posted /\ Consume(req[t], n).consumed = req[t].consumed + n
          /\ Consume(req[t], n).available <=> req[t].available \/ req[t].posted < req[t].consumed + n + Buffer
      BY <1>2, <1>3, ConsumeIs
    <2>3. /\ r \in Counts
          /\ r.posted = Consume(req[t], n).posted + n /\ r.consumed = Consume(req[t], n).consumed
          /\ r.available <=> Consume(req[t], n).available
                               /\ Consume(req[t], n).posted + n < Consume(req[t], n).consumed + Buffer
      BY <1>2, <2>1, PostIs
    <2>4. req[t].posted \in Nat /\ req[t].consumed \in Nat /\ req[t].available \in BOOLEAN
      BY <1>3 DEF Counts
    <2> QED BY <2>2, <2>3, <2>4
  <1> HIDE DEF r
  <1>6. Sets(req', req, t, Counts) /\ req'[t] = r
    BY <1>1, <1>3, <1>5, SetsOne
  <1>7. req[t].posted = req[t].consumed /\ backend[t] = <<>>
    BY <1>1, <1>4 DEF ReqSide, BodyWaits
  <1>8. r.available = TRUE /\ r.posted = r.consumed
    BY <1>2, <1>5, <1>7 DEF Counts
  <1>9. Queued(t)' = 0 /\ Queued(t) = 0 /\ Outstanding(t)' = taxis'[t] + Count(letters, Reads(t))
        /\ Outstanding(t) = taxis[t] + Count(letters, Reads(t)) /\ Count(letters, Reads(t)) \in Nat
    <2>1. Count(net[t], {"chunk"}) = 0
      <3>1. \A i \in DOMAIN net[t] : net[t][i] \notin {"chunk"}
        BY <1>4
      <3> QED BY <1>4, <3>1, CountType
    <2>2. Count(letters, Reads(t)) \in Nat
      BY FlowTypes, CountType
    <2> QED BY <1>1, <2>1, <2>2, QueuedIs, QueuedNext
  <1>10. CASE r.posted = BodyLen
    <2>1. /\ res' = [res EXCEPT ![t].available = TRUE] /\ file' = [file EXCEPT ![t] = OpenFile] /\ conn' = conn
          /\ IF mpx = "taxi" THEN taxis' = [taxis EXCEPT ![t] = 1] /\ UNCHANGED lappers
             ELSE lappers' = lappers \cup {t} /\ UNCHANGED taxis
      BY <1>6, <1>10 DEF BodyOfPost
    <2>2. a \in Counts /\ a.posted = 0 /\ a.consumed = 0 /\ a.available /\ res' = [res EXCEPT ![t] = a]
      <3>1. a \in Counts /\ a.posted = res[t].posted /\ a.consumed = res[t].consumed /\ a.available
        BY <1>3 DEF Counts
      <3> QED BY <1>4, <2>1, <3>1
    <2> HIDE DEF a
    <2>3. Sets(res', res, t, Counts) /\ res'[t] = a
      BY <1>3, <2>2, SetsOne
    <2>4. OpenFile \in Rudders /\ OpenFile.state = "open" /\ OpenFile.reading
      BY <1>2 DEF OpenFile, Rudders
    <2>5. Sets(file', file, t, Rudders) /\ file'[t] = OpenFile
      BY <1>3, <2>1, <2>4, SetsOne
    <2>6. /\ Sets(taxis', taxis, t, Passes) /\ lappers' \subseteq Tours
          /\ mpx = "taxi" => taxis'[t] = 1
          /\ mpx # "taxi" => taxis' = taxis
      <3>1. CASE mpx = "taxi"
        <4>1. taxis' = [taxis EXCEPT ![t] = 1] /\ 1 \in Passes /\ lappers' = lappers
          BY <2>1, <3>1 DEF Passes
        <4> QED BY <1>3, <3>1, <4>1, SetsOne
      <3>2. CASE mpx # "taxi"
        <4>1. lappers' = lappers \cup {t} /\ taxis' = taxis
          BY <2>1, <3>2
        <4> QED BY <1>3, <3>2, <4>1, SetsNone
      <3> QED BY <3>1, <3>2
    <2>7. TypeOK' /\ Aside(t)
      <3>1. /\ Sets(state', state, t, States) /\ Sets(conn', conn, t, Conns)
            /\ Sets(backend', backend, t, Seq(Parts)) /\ Sets(net', net, t, Seq(Units))
        BY <1>1, <2>1, SetsNone
      <3>2. alive' \in BOOLEAN /\ letters' \in Seq(LetterSet) /\ failed' \subseteq Tours
        BY <1>1, FlowTypes
      <3>3. req'[t].consumed <= req'[t].posted
        BY <1>5, <1>6, <1>7
      <3>4. ~gzip[t] => res'[t].consumed <= res'[t].posted
        BY <2>2, <2>3
      <3> QED BY <1>1, <1>6, <2>3, <2>5, <2>6, <3>1, <3>2, <3>3, <3>4, StepTypes
    <2>8. Spins'
      <3>1. mpx' = mpx /\ letters' = letters /\ mpx \in {"taxi", "spin"}
        BY <1>1, FlowTypes DEF given
      <3> QED BY <2>6, <3>1 DEF FlowInv, Spins
    <2>9. ReqSide(t)'
      <3>1. ~Incomplete(t)'
        BY <2>4, <2>5 DEF Incomplete
      <3>2. kind'[t] = "post" /\ backend'[t] = <<>> /\ req'[t].posted = req'[t].consumed
        BY <1>1, <1>6, <1>7, <1>8 DEF given
      <3> QED BY <3>1, <3>2 DEF ReqSide, BodyWaits
    <2>10. ResSide(t)'
      <3>1. FileSent(t)'
        <4>1. Room(res'[t])
          BY <1>2, <2>2, <2>3 DEF Room
        <4>2. state'[t] = "reading" /\ net'[t] = <<>>
          <5>1. net[t] = <<>>
            BY <1>1, ReceivesIs
          <5> QED BY <1>1, <1>4, <5>1
        <4>3. ~Told(letters', t)
          BY <1>1, <1>4
        <4>4. \A i \in DOMAIN net'[t] : net'[t][i] # "end" /\ net'[t][i] # "part"
          BY <4>2
        <4> QED BY <2>2, <2>3, <2>4, <2>5, <4>1, <4>2, <4>3, <4>4 DEF FileSent
      <3>2. (mpx = "taxi" /\ alive)' => ReadOnce(t)'
        <4> SUFFICES ASSUME mpx' = "taxi", alive' PROVE ReadOnce(t)'
          OBVIOUS
        <4>1. mpx = "taxi" /\ alive
          BY <1>1 DEF given
        <4>2. Outstanding(t) = 0
          BY <1>4, <4>1 DEF ResSide, ReadOnce, NoFile
        <4>3. taxis[t] = 0 /\ Count(letters, Reads(t)) = 0
          BY <1>3, <1>9, <4>2 DEF Passes
        <4>4. Outstanding(t)' = 1
          BY <1>9, <2>6, <4>1, <4>3
        <4> QED BY <1>2, <1>9, <2>4, <2>5, <4>4 DEF ReadOnce
      <3> QED BY <1>9, <2>2, <2>3, <2>4, <2>5, <3>1, <3>2 DEF ResSide
    <2> QED BY <2>7, <2>8, <2>9, <2>10, Together
  <1>11. CASE r.posted # BodyLen
    <2>1. conn' = [conn EXCEPT ![t].reading = r.available] /\ res' = res /\ file' = file /\ taxis' = taxis /\ lappers' = lappers
      BY <1>6, <1>11 DEF BodyOfPost, fileVars
    <2>2. c \in Conns /\ c.reading = TRUE /\ conn' = [conn EXCEPT ![t] = c]
      BY <1>3, <1>8, <2>1, Updates
    <2> HIDE DEF c
    <2>3. Sets(conn', conn, t, Conns) /\ conn'[t] = c
      BY <1>3, <2>2, SetsOne
    <2>4. TypeOK' /\ Aside(t)
      <3>1. /\ Sets(state', state, t, States) /\ Sets(res', res, t, Counts) /\ Sets(file', file, t, Rudders)
            /\ Sets(taxis', taxis, t, Passes)
            /\ Sets(backend', backend, t, Seq(Parts)) /\ Sets(net', net, t, Seq(Units))
        BY <1>1, <2>1, SetsNone
      <3>2. alive' \in BOOLEAN /\ lappers' \subseteq Tours /\ letters' \in Seq(LetterSet) /\ failed' \subseteq Tours
        BY <1>1, <2>1, FlowTypes
      <3>3. req'[t].consumed <= req'[t].posted
        BY <1>5, <1>6, <1>7
      <3>4. ~gzip[t] => res'[t].consumed <= res'[t].posted
        BY <2>1, FlowTypes
      <3> QED BY <1>1, <1>6, <2>3, <3>1, <3>2, <3>3, <3>4, StepTypes
    <2>5. Spins'
      BY <1>1, <2>1 DEF FlowInv, Spins, given
    <2>6. ReqSide(t)'
      <3>1. kind'[t] = "post" /\ backend'[t] = <<>> /\ req'[t].posted = req'[t].consumed /\ conn'[t].reading
        BY <1>1, <1>6, <1>7, <1>8, <2>2, <2>3 DEF given
      <3> QED BY <3>1 DEF ReqSide, BodyWaits
    <2>7. ResSide(t)'
      BY <1>1, <1>4, <2>1, ResUnopened
    <2> QED BY <2>4, <2>5, <2>6, <2>7, Together
  <1> QED BY <1>10, <1>11

(* A part that is posted keeps the parts in order.                         *)
LEMMA PartPosted ==
  ASSUME NEW s \in Seq(Parts), NEW a \in Nat, NEW b \in Nat, NEW n \in Nat, n > 0, InOrder(s, a, b)
  PROVE  InOrder(Append(s, [from |-> b, to |-> b + n]), a, b + n)
  <1> DEFINE p == [from |-> b, to |-> b + n]
             r == Append(s, p)
  <1>1. p.from = b /\ p.to = b + n /\ p.from < p.to
    OBVIOUS
  <1> HIDE DEF p
  <1>2. /\ Len(s) \in Nat /\ r # <<>> /\ Len(r) = Len(s) + 1 /\ r[Len(s) + 1] = p
        /\ DOMAIN r = 1 .. Len(s) + 1 /\ \A i \in 1 .. Len(s) : r[i] = s[i]
    OBVIOUS
  <1> HIDE DEF r
  <1>3. CASE s = <<>>
    <2>1. Len(s) = 0 /\ a = b
      BY <1>3 DEF InOrder
    <2>2. r[1] = p /\ Len(r) = 1 /\ DOMAIN r = 1 .. 1
      BY <1>2, <2>1
    <2>3. InOrder(r, a, b + n)
      BY <1>1, <1>2, <2>1, <2>2 DEF InOrder
    <2> QED BY <2>3 DEF r, p
  <1>4. CASE s # <<>>
    <2>1. /\ s[1].from = a /\ s[Len(s)].to = b /\ Len(s) >= 1
          /\ \A i \in 1 .. Len(s) : s[i].from < s[i].to
          /\ \A i \in 1 .. Len(s) : i > 1 => s[i].from = s[i - 1].to
      BY <1>4 DEF InOrder
    <2>2. r[1].from = a /\ r[Len(r)].to = b + n
      BY <1>1, <1>2, <2>1
    <2>3. \A i \in DOMAIN r : r[i].from < r[i].to
      BY <1>1, <1>2, <2>1
    <2>4. ASSUME NEW i \in DOMAIN r, i > 1 PROVE r[i].from = r[i - 1].to
      <3>1. i - 1 \in 1 .. Len(s) /\ r[i - 1] = s[i - 1]
        BY <1>2, <2>4
      <3>2. CASE i = Len(s) + 1
        BY <1>1, <1>2, <2>1, <3>1, <3>2
      <3>3. CASE i # Len(s) + 1
        <4>1. i \in 1 .. Len(s) /\ r[i] = s[i]
          BY <1>2, <3>3
        <4> QED BY <2>1, <2>4, <3>1, <4>1
      <3> QED BY <3>2, <3>3
    <2>5. InOrder(r, a, b + n)
      BY <1>2, <2>2, <2>3, <2>4 DEF InOrder
    <2> QED BY <2>5 DEF r, p
  <1> QED BY <1>3, <1>4

(* So does taking the first, which begins where the consumer stands.       *)
LEMMA PartTaken ==
  ASSUME NEW s \in Seq(Parts), NEW a \in Nat, NEW b \in Nat, s # <<>>, InOrder(s, a, b)
  PROVE  /\ Head(s) = s[1] /\ 1 \in DOMAIN s /\ s[1] \in Parts
         /\ s[1].from = a /\ s[1].from \in Nat /\ s[1].to \in Nat /\ s[1].from < s[1].to
         /\ Tail(s) \in Seq(Parts) /\ InOrder(Tail(s), s[1].to, b)
         /\ \A i \in DOMAIN Tail(s) : \E j \in DOMAIN s : Tail(s)[i] = s[j]
  <1>1. /\ s[1].from = a /\ s[Len(s)].to = b /\ Len(s) >= 1 /\ Len(s) \in Nat
        /\ \A i \in 1 .. Len(s) : s[i].from < s[i].to
        /\ \A i \in 1 .. Len(s) : i > 1 => s[i].from = s[i - 1].to
    BY DEF InOrder
  <1>2. Head(s) = s[1] /\ 1 \in DOMAIN s /\ s[1] \in Parts
    BY <1>1
  <1>3. s[1].from \in Nat /\ s[1].to \in Nat /\ s[1].from < s[1].to
    BY <1>1, <1>2 DEF Parts
  <1> DEFINE r == Tail(s)
  <1>4. /\ r \in Seq(Parts) /\ Len(r) = Len(s) - 1 /\ DOMAIN r = 1 .. Len(s) - 1
        /\ \A i \in 1 .. Len(s) - 1 : r[i] = s[i + 1]
    BY <1>1
  <1>5. \A i \in DOMAIN r : i + 1 \in DOMAIN s /\ r[i] = s[i + 1]
    BY <1>4
  <1> HIDE DEF r
  <1>6. InOrder(r, s[1].to, b)
    <2>0. /\ r \in Seq(Parts) /\ Len(r) \in Nat /\ Len(s) = Len(r) + 1
          /\ r = <<>> <=> Len(r) = 0
      BY <1>1, <1>4
    <2>1. CASE r = <<>>
      <3>1. Len(s) = 1
        BY <2>0, <2>1
      <3> QED BY <1>1, <2>1, <3>1 DEF InOrder
    <2>2. CASE r # <<>>
      <3>0. Len(r) >= 1 /\ Len(s) >= 2
        BY <2>0, <2>2
      <3>2. r[1] = s[2] /\ s[2].from = s[1].to
        BY <1>1, <1>4, <3>0
      <3>3. r[Len(r)] = s[Len(s)]
        BY <1>4, <2>0, <3>0
      <3>4. ASSUME NEW i \in DOMAIN r PROVE r[i].from < r[i].to
        <4>1. i + 1 \in 1 .. Len(s) /\ r[i] = s[i + 1]
          BY <1>1, <1>4
        <4> QED BY <1>1, <4>1
      <3>5. ASSUME NEW i \in DOMAIN r, i > 1 PROVE r[i].from = r[i - 1].to
        <4>1. r[i] = s[i + 1] /\ r[i - 1] = s[i] /\ i + 1 \in 1 .. Len(s) /\ i + 1 > 1 /\ (i + 1) - 1 = i
          BY <1>1, <1>4, <3>5
        <4> QED BY <1>1, <4>1
      <3>6. r[1].from = s[1].to /\ r[Len(r)].to = b
        BY <1>1, <3>2, <3>3
      <3>7. \A i \in DOMAIN r : i > 1 => r[i].from = r[i - 1].to
        BY <3>5
      <3>8. \A i \in DOMAIN r : r[i].from < r[i].to
        BY <3>4
      <3> QED BY <2>2, <3>6, <3>7, <3>8, Zenon DEF InOrder
    <2> QED BY <2>1, <2>2, Zenon
  <1> QED BY <1>1, <1>2, <1>3, <1>4, <1>5, <1>6 DEF r

(* A chunk for a consumer that reports later: whoever is suspended by it   *)
(* has it in the queue.                                                    *)
LEMMA BodyOfLateKeeps ==
  ASSUME FlowInv, NEW t \in Tours, NEW n \in 1 .. MaxChunk, BodyOfLate(t, n)
  PROVE  FlowInv'
  <1> DEFINE r == Post(req[t], n)
             p == [from |-> req[t].posted, to |-> req[t].posted + n]
             b == Append(backend[t], p)
  <1>1. /\ Receives(t) /\ kind[t] = "late" /\ req' = [req EXCEPT ![t] = r]
        /\ backend' = [backend EXCEPT ![t] = b]
        /\ conn' = [conn EXCEPT ![t].reading = req'[t].available \/ req'[t].posted = BodyLen]
        /\ UNCHANGED given /\ alive' = alive /\ state' = state /\ res' = res /\ file' = file /\ taxis' = taxis
        /\ lappers' = lappers /\ net' = net /\ letters' = letters /\ failed' = failed
    BY DEF BodyOfLate, fileVars
  <1>2. n \in Nat /\ n > 0
    BY Numbers
  <1>3. /\ req[t] \in Counts /\ req \in [Tours -> Counts] /\ conn \in [Tours -> Conns] /\ conn[t] \in Conns
        /\ backend \in [Tours -> Seq(Parts)] /\ backend[t] \in Seq(Parts) /\ req[t].consumed <= req[t].posted
    BY FlowTypes
  <1>4. /\ r \in Counts /\ r.posted = req[t].posted + n /\ r.consumed = req[t].consumed
        /\ req[t].posted \in Nat /\ req[t].consumed \in Nat /\ r.available \in BOOLEAN
    <2>1. r \in Counts /\ r.posted = req[t].posted + n /\ r.consumed = req[t].consumed
      BY <1>2, <1>3, PostIs
    <2> HIDE DEF r
    <2> QED BY <1>3, <2>1 DEF Counts
  <1>5. p \in Parts /\ p.to = req[t].posted + n
    BY <1>2, <1>4 DEF Parts
  <1>6. ReqSide(t) /\ InOrder(backend[t], req[t].consumed, req[t].posted)
    BY <1>1, ReceivesIs DEF ReqSide, WaitsInOrder
  <1>7. b \in Seq(Parts) /\ b # <<>> /\ InOrder(b, r.consumed, r.posted)
        /\ \A i \in DOMAIN b : b[i] = p \/ (i \in DOMAIN backend[t] /\ b[i] = backend[t][i])
    <2>1. InOrder(b, req[t].consumed, req[t].posted + n)
      BY <1>2, <1>3, <1>4, <1>6, PartPosted
    <2> HIDE DEF p
    <2>2. b \in Seq(Parts) /\ b # <<>>
      BY <1>3, <1>5
    <2>3. \A i \in DOMAIN b : b[i] = p \/ (i \in DOMAIN backend[t] /\ b[i] = backend[t][i])
      BY <1>3
    <2> QED BY <1>4, <2>1, <2>2, <2>3
  <1> HIDE DEF r, p, b
  <1>8. Sets(req', req, t, Counts) /\ req'[t] = r
    BY <1>1, <1>3, <1>4, SetsOne
  <1>9. Sets(backend', backend, t, Seq(Parts)) /\ backend'[t] = b
    BY <1>1, <1>3, <1>7, SetsOne
  <1>10. Sets(conn', conn, t, Conns) /\ (conn'[t].reading <=> r.available \/ r.posted = BodyLen)
    <2> DEFINE x == r.available \/ r.posted = BodyLen
               c == [conn[t] EXCEPT !.reading = x]
    <2>1. x \in BOOLEAN /\ conn' = [conn EXCEPT ![t] = [conn[t] EXCEPT !.reading = x]]
      BY <1>1, <1>4, <1>8
    <2> HIDE DEF x
    <2>2. c \in Conns /\ c.reading = x
      BY <1>3, <2>1, Updates
    <2>3. conn' = [conn EXCEPT ![t] = c]
      BY <2>1
    <2> HIDE DEF c
    <2>4. Sets(conn', conn, t, Conns) /\ conn'[t] = c
      BY <1>3, <2>2, <2>3, SetsOne
    <2> QED BY <2>2, <2>4 DEF x
  <1>11. TypeOK' /\ Aside(t)
    <2>1. /\ Sets(state', state, t, States) /\ Sets(res', res, t, Counts) /\ Sets(file', file, t, Rudders)
          /\ Sets(taxis', taxis, t, Passes) /\ Sets(net', net, t, Seq(Units))
      BY <1>1, SetsNone
    <2>2. alive' \in BOOLEAN /\ lappers' \subseteq Tours /\ letters' \in Seq(LetterSet) /\ failed' \subseteq Tours
      BY <1>1, FlowTypes
    <2>3. req'[t].consumed <= req'[t].posted
      BY <1>2, <1>3, <1>4, <1>8
    <2>4. ~gzip[t] => res'[t].consumed <= res'[t].posted
      BY <1>1, FlowTypes
    <2> QED BY <1>1, <1>8, <1>9, <1>10, <2>1, <2>2, <2>3, <2>4, StepTypes
  <1>12. Spins'
    BY <1>1 DEF FlowInv, Spins, given
  <1>13. ReqSide(t)'
    <2>1. kind'[t] = "late"
      BY <1>1 DEF given
    <2>2. WaitsInOrder(t)'
      BY <1>7, <1>8, <1>9 DEF WaitsInOrder
    <2>3. (Incomplete(t) /\ conn[t].open /\ ~conn[t].reading)' => ~r.available
      BY <1>10
    <2>4. \A i \in DOMAIN b : b[i].to <= r.posted
      <3> SUFFICES ASSUME NEW i \in DOMAIN b PROVE b[i].to <= r.posted
        OBVIOUS
      <3>1. CASE b[i] = p
        BY <1>2, <1>4, <1>5, <3>1
      <3>2. CASE i \in DOMAIN backend[t] /\ b[i] = backend[t][i]
        <4>1. backend[t][i].to <= req[t].posted
          BY <1>6, <3>2 DEF ReqSide, BodyWaits
        <4>2. backend[t][i] \in Parts
          BY <1>3, <3>2
        <4>3. backend[t][i].to \in Nat
          BY <4>2 DEF Parts
        <4> QED BY <1>2, <1>4, <3>2, <4>1, <4>3
      <3> QED BY <1>7, <3>1, <3>2
    <2>5. BodyWaits(t)'
      BY <1>8, <1>9, <2>1, <2>4 DEF BodyWaits
    <2> QED BY <1>7, <1>8, <1>9, <2>2, <2>3, <2>5 DEF ReqSide
  <1>14. ResSide(t)'
    BY <1>1, ReceivesIs, ResUnopened
  <1> QED BY <1>11, <1>12, <1>13, <1>14, Together

(* A report: whoever is still suspended after it has another part in the   *)
(* queue.                                                                  *)
LEMMA BodyConsumedKeeps ==
  ASSUME FlowInv, NEW t \in Tours, BodyConsumed(t)
  PROVE  FlowInv'
  <1> DEFINE n == Unreported(t)
             r == Consume(req[t], n)
             b == Tail(backend[t])
             y == conn[t].reading \/ (conn[t].open /\ Resumes(req[t], n))
             c == [conn[t] EXCEPT !.reading = y]
             m == backend[t][1].to
  <1>1. /\ alive /\ backend[t] # <<>> /\ state[t] # "returned"
        /\ req' = [req EXCEPT ![t] = r] /\ conn' = [conn EXCEPT ![t] = c] /\ backend' = [backend EXCEPT ![t] = b]
        /\ UNCHANGED given /\ alive' = alive /\ state' = state /\ res' = res /\ file' = file /\ taxis' = taxis
        /\ lappers' = lappers /\ net' = net /\ letters' = letters /\ failed' = failed
    BY DEF BodyConsumed, fileVars
  <1>2. /\ req[t] \in Counts /\ req \in [Tours -> Counts] /\ conn \in [Tours -> Conns] /\ conn[t] \in Conns
        /\ backend \in [Tours -> Seq(Parts)] /\ backend[t] \in Seq(Parts)
    BY FlowTypes
  <1>3. ReqSide(t) /\ ResSide(t)
    BY FlowTypes, Sides
  <1>4. kind[t] = "late" /\ InOrder(backend[t], req[t].consumed, req[t].posted) /\ m <= req[t].posted
    <2>1. kind[t] = "late"
      BY <1>1, <1>3 DEF ReqSide, BodyWaits
    <2>2. 1 \in DOMAIN backend[t]
      BY <1>1, <1>2
    <2>3. m <= req[t].posted
      BY <1>3, <2>2 DEF ReqSide, BodyWaits
    <2> QED BY <1>3, <2>1, <2>3 DEF ReqSide, WaitsInOrder
  <1>5. req[t].posted \in Nat /\ req[t].consumed \in Nat /\ req[t].available \in BOOLEAN
    BY <1>2 DEF Counts
  <1>6. /\ Head(backend[t]) = backend[t][1] /\ backend[t][1].from = req[t].consumed
        /\ m \in Nat /\ req[t].consumed < m
        /\ b \in Seq(Parts) /\ InOrder(b, m, req[t].posted)
        /\ \A i \in DOMAIN b : \E j \in DOMAIN backend[t] : b[i] = backend[t][j]
    BY <1>1, <1>2, <1>4, <1>5, PartTaken
  <1>7. n = m - req[t].consumed /\ n \in Nat /\ req[t].consumed + n = m
    <2>1. n = m - req[t].consumed
      BY <1>6 DEF Unreported
    <2> HIDE DEF n, m
    <2> QED BY <1>5, <1>6, <2>1
  <1> HIDE DEF n, m, b
  <1>8. /\ r \in Counts /\ r.posted = req[t].posted /\ r.consumed = m
        /\ r.available <=> req[t].available \/ req[t].posted < m + Buffer
    BY <1>2, <1>7, ConsumeIs
  <1>9. y \in BOOLEAN /\ (y <=> conn[t].reading \/ (conn[t].open /\ ~req[t].available /\ r.available))
    BY <1>2 DEF Conns, Resumes
  <1> HIDE DEF r, y
  <1>10. c \in Conns /\ c.open = conn[t].open /\ c.reading = y
    BY <1>2, <1>9, Updates
  <1> HIDE DEF c
  <1>11. Sets(req', req, t, Counts) /\ req'[t] = r
    BY <1>1, <1>2, <1>8, SetsOne
  <1>12. Sets(backend', backend, t, Seq(Parts)) /\ backend'[t] = b
    BY <1>1, <1>2, <1>6, SetsOne
  <1>13. Sets(conn', conn, t, Conns) /\ conn'[t] = c
    BY <1>1, <1>2, <1>10, SetsOne
  <1>14. TypeOK' /\ Aside(t)
    <2>1. /\ Sets(state', state, t, States) /\ Sets(res', res, t, Counts) /\ Sets(file', file, t, Rudders)
          /\ Sets(taxis', taxis, t, Passes) /\ Sets(net', net, t, Seq(Units))
      BY <1>1, SetsNone
    <2>2. alive' \in BOOLEAN /\ lappers' \subseteq Tours /\ letters' \in Seq(LetterSet) /\ failed' \subseteq Tours
      BY <1>1, FlowTypes
    <2>3. req'[t].consumed <= req'[t].posted
      BY <1>4, <1>8, <1>11
    <2>4. ~gzip[t] => res'[t].consumed <= res'[t].posted
      BY <1>1, FlowTypes
    <2> QED BY <1>1, <1>11, <1>12, <1>13, <2>1, <2>2, <2>3, <2>4, StepTypes
  <1>15. Spins'
    BY <1>1 DEF FlowInv, Spins, given
  <1>16. ReqSide(t)'
    <2>1. kind'[t] = "late" /\ kind' = kind
      BY <1>1, <1>4 DEF given
    <2>2. WaitsInOrder(t)'
      BY <1>6, <1>8, <1>11, <1>12 DEF WaitsInOrder
    <2>3. BodyWaits(t)'
      <3>1. \A i \in DOMAIN b : b[i].to <= r.posted
        BY <1>3, <1>6, <1>8 DEF ReqSide, BodyWaits
      <3> QED BY <1>11, <1>12, <2>1, <3>1 DEF BodyWaits
    <2>4. (Incomplete(t) /\ conn[t].open /\ ~conn[t].reading)' => ~r.available /\ b # <<>>
      <3> SUFFICES ASSUME Incomplete(t)', conn'[t].open, ~conn'[t].reading PROVE ~r.available /\ b # <<>>
        OBVIOUS
      <3>1. Incomplete(t)
        BY <1>1, <1>8, <1>11, <2>1 DEF Incomplete
      <3>2. conn[t].open /\ ~y /\ ~conn[t].reading
        BY <1>9, <1>10, <1>13
      <3>3. ~req[t].available
        BY <1>3, <3>1, <3>2 DEF ReqSide
      <3>4. ~r.available
        BY <1>9, <3>2, <3>3
      <3>5. ~(req[t].posted < m + Buffer) /\ Buffer \in Nat /\ Buffer > 0
        BY <1>8, <3>4, Numbers
      <3>6. b # <<>>
        <4>1. req[t].posted # m
          BY <1>5, <1>6, <3>5
        <4> QED BY <1>6, <4>1 DEF InOrder
      <3> QED BY <3>4, <3>6
    <2> QED BY <1>11, <1>12, <2>2, <2>3, <2>4 DEF ReqSide
  <1>17. ResSide(t)'
    BY <1>1, ResKept
  <1> QED BY <1>14, <1>15, <1>16, <1>17, Together

(* A step of the file's: the request side is left alone.                    *)
LEMMA FileStep ==
  ASSUME FlowInv, NEW t \in Tours, UNCHANGED given, alive' \in BOOLEAN, alive' => alive,
         req' = req, backend' = backend, conn' = conn,
         Sets(state', state, t, States), state'[t] = state[t] \/ state'[t] \in {"ended", "returned"},
         Sets(res', res, t, Counts), Sets(net', net, t, Seq(Units)), Sets(file', file, t, Rudders),
         Sets(taxis', taxis, t, Passes), lappers' \subseteq Tours, letters' \in Seq(LetterSet), failed' \subseteq Tours,
         file'[t].state = "none" => file[t].state = "none",
         ~gzip[t] => res'[t].consumed <= res'[t].posted,
         \A u \in Tours : u # t => /\ Count(letters', Reads(u)) = Count(letters, Reads(u))
                                   /\ Told(letters', u) => Told(letters, u),
         Spins', ResSide(t)'
  PROVE  FlowInv'
  <1>1. TypeOK' /\ Aside(t)
    <2>1. Sets(req', req, t, Counts) /\ Sets(backend', backend, t, Seq(Parts)) /\ Sets(conn', conn, t, Conns)
      BY SetsNone
    <2>2. req'[t].consumed <= req'[t].posted
      BY FlowTypes
    <2> QED BY <2>1, <2>2, StepTypes
  <1>2. ReqSide(t)'
    <2>1. Incomplete(t)' => Incomplete(t)
      BY DEF Incomplete, given
    <2> QED BY <2>1, ReqKept
  <1> QED BY <1>1, <1>2, Together

(* A worker's read is the one read there is.                                *)
LEMMA OneTaxi ==
  ASSUME FlowInv, NEW t \in Tours, taxis[t] > 0
  PROVE  /\ mpx = "taxi" /\ taxis[t] = 1
         /\ alive => file[t].reading /\ file[t].state = "open" /\ Count(letters, Reads(t)) = 0
  <1>1. mpx \in {"taxi", "spin"} /\ taxis[t] \in 0 .. 1 /\ TourInv(t) /\ letters \in Seq(LetterSet)
    BY FlowTypes DEF Passes
  <1>2. mpx = "taxi" /\ taxis[t] = 1
    BY <1>1 DEF FlowInv, Spins
  <1>3. ASSUME alive PROVE file[t].reading /\ file[t].state = "open" /\ Count(letters, Reads(t)) = 0
    <2>1. ReadOnce(t)
      BY <1>1, <1>2, <1>3 DEF TourInv
    <2>2. Outstanding(t) = taxis[t] + Count(letters, Reads(t)) /\ Count(letters, Reads(t)) \in Nat
      BY <1>1, QueuedIs, CountType
    <2> QED BY <1>2, <2>1, <2>2 DEF ReadOnce
  <1> QED BY <1>2, <1>3

(* The file's counters and queue are the same; how much of it is left is    *)
(* told to nobody.                                                          *)
LEMMA ResRead ==
  ASSUME FlowInv, NEW t \in Tours, UNCHANGED given, alive' => alive,
         file'[t].state = file[t].state, file'[t].reading = file[t].reading,
         file[t].state = "none" => file'[t] = file[t],
         res'[t] = res[t], net'[t] = net[t], state'[t] = state[t],
         alive' => Outstanding(t)' = Outstanding(t), Told(letters', t) => Told(letters, t)
  PROVE  ResSide(t)'
  <1>1. ResSide(t)
    BY FlowTypes, Sides
  <1>2. mpx' = mpx /\ gzip' = gzip
    BY DEF given
  <1>3. Queued(t)' = Queued(t)
    BY QueuedIs, QueuedNext
  <1>4. FileSent(t)'
    BY <1>1, <1>2 DEF ResSide, FileSent
  <1>5. (mpx = "taxi" /\ alive)' => ReadOnce(t)'
    BY <1>1, <1>2, <1>3 DEF ResSide, ReadOnce
  <1> QED BY <1>1, <1>2, <1>3, <1>4, <1>5 DEF ResSide, Listens

(* A read by a worker becomes the letter that tells of it.                 *)
LEMMA TaxiReadsKeeps ==
  ASSUME FlowInv, NEW t \in Tours, TaxiReads(t)
  PROVE  FlowInv'
  <1> DEFINE f == [file[t] EXCEPT !.left = @ - 1]
  <1>1. /\ taxis[t] > 0 /\ taxis' = [taxis EXCEPT ![t] = @ - 1]
        /\ UNCHANGED given /\ alive' = alive /\ state' = state /\ req' = req /\ res' = res /\ conn' = conn
        /\ backend' = backend /\ net' = net /\ lappers' = lappers /\ failed' = failed
    BY DEF TaxiReads
  <1>2. /\ mpx = "taxi" /\ taxis[t] = 1 /\ letters \in Seq(LetterSet) /\ taxis \in [Tours -> Passes]
        /\ file \in [Tours -> Rudders] /\ file[t] \in Rudders
        /\ alive => file[t].reading /\ file[t].state = "open" /\ Count(letters, Reads(t)) = 0
    BY <1>1, OneTaxi, FlowTypes
  <1>3. Sets(taxis', taxis, t, Passes) /\ taxis'[t] = 0
    <2>1. taxis' = [taxis EXCEPT ![t] = 0] /\ 0 \in Passes
      BY <1>1, <1>2 DEF Passes
    <2> QED BY <1>2, <2>1, SetsOne
  <1>4. PICK what \in {"read", "eof", "fatal"} :
          /\ letters' = Append(letters, <<what, t>>)
          /\ file' = file \/ (file[t].state = "open" /\ file[t].left # 0 /\ file' = [file EXCEPT ![t] = f])
          /\ file[t].state = "open" => what # "fatal"
    <2>1. CASE file[t].state # "open"
      BY <2>1 DEF TaxiReads, Says
    <2>2. CASE file[t].state = "open" /\ file[t].left = 0
      BY <2>2 DEF TaxiReads, Says
    <2>3. CASE file[t].state = "open" /\ file[t].left # 0
      BY <2>3 DEF TaxiReads, Says
    <2> QED BY <2>1, <2>2, <2>3
  <1>5. file[t].left # 0 => f \in Rudders /\ f.state = file[t].state /\ f.reading = file[t].reading
    <2> SUFFICES ASSUME file[t].left # 0
                 PROVE  f \in Rudders /\ f.state = file[t].state /\ f.reading = file[t].reading
      OBVIOUS
    <2>1. file[t].left - 1 \in Nat
      BY <1>2 DEF Rudders
    <2> QED BY <1>2, <2>1, Updates
  <1> HIDE DEF f
  <1>6. /\ Sets(file', file, t, Rudders) /\ file'[t].state = file[t].state /\ file'[t].reading = file[t].reading
        /\ file[t].state = "none" => file'[t] = file[t]
    <2>1. CASE file' = file
      BY <2>1, SetsNone
    <2>2. CASE file[t].state = "open" /\ file[t].left # 0 /\ file' = [file EXCEPT ![t] = f]
      <3>1. Sets(file', file, t, Rudders) /\ file'[t] = f
        BY <1>2, <1>5, <2>2, SetsOne
      <3> QED BY <1>5, <2>2, <3>1
    <2> QED BY <1>4, <2>1, <2>2
  <1>7. /\ letters' \in Seq(LetterSet)
        /\ \A u \in Tours : u # t => /\ Count(letters', Reads(u)) = Count(letters, Reads(u))
                                     /\ Told(letters', u) => Told(letters, u)
        /\ Told(letters', t) => Told(letters, t)
        /\ Count(letters', Reads(t)) = IF what # "fatal" THEN Count(letters, Reads(t)) + 1 ELSE Count(letters, Reads(t))
        /\ Count(letters, Reads(t)) \in Nat
    <2>2. what \in {"read", "eof", "ioerror"} <=> what # "fatal"
      OBVIOUS
    <2>8. letters \in Seq(LetterSet) /\ what \in Words /\ what # "closed"
      BY <1>2 DEF Words
    <2>9. /\ Append(letters, <<what, t>>) \in Seq(LetterSet)
          /\ \A u \in Tours : Count(letters, Reads(u)) \in Nat
          /\ \A u \in Tours : u # t => Count(Append(letters, <<what, t>>), Reads(u)) = Count(letters, Reads(u))
          /\ Count(Append(letters, <<what, t>>), Reads(t)) =
               IF what \in {"read", "eof", "ioerror"} THEN Count(letters, Reads(t)) + 1 ELSE Count(letters, Reads(t))
          /\ \A u \in Tours : Told(Append(letters, <<what, t>>), u) => Told(letters, u) \/ (u = t /\ what = "closed")
      BY <2>8, LetterAdded
    <2> QED BY <1>4, <2>2, <2>8, <2>9
  <1>8. alive' => Outstanding(t)' = Outstanding(t)
    <2>1. /\ Outstanding(t)' = taxis'[t] + Count(letters', Reads(t))
          /\ Outstanding(t) = taxis[t] + Count(letters, Reads(t))
      BY QueuedIs, QueuedNext
    <2> QED BY <1>1, <1>2, <1>3, <1>4, <1>7, <2>1
  <1>9. Spins'
    BY <1>1, <1>2 DEF Spins, given
  <1>10. ResSide(t)'
    BY <1>1, <1>6, <1>7, <1>8, ResRead
  <1>11. /\ Sets(state', state, t, States) /\ Sets(res', res, t, Counts) /\ Sets(net', net, t, Seq(Units))
    BY <1>1, SetsNone
  <1>12. /\ alive' \in BOOLEAN /\ lappers' \subseteq Tours /\ failed' \subseteq Tours
         /\ ~gzip[t] => res'[t].consumed <= res'[t].posted
    BY <1>1, FlowTypes
  <1> QED BY <1>1, <1>3, <1>6, <1>7, <1>9, <1>10, <1>11, <1>12, FileStep

(* A read that fails becomes a letter, too.                                *)
LEMMA TaxiFailsKeeps ==
  ASSUME FlowInv, NEW t \in Tours, TaxiFails(t)
  PROVE  FlowInv'
  <1>1. /\ taxis[t] > 0 /\ taxis' = [taxis EXCEPT ![t] = @ - 1] /\ letters' = Append(letters, <<"ioerror", t>>)
        /\ failed' = failed \cup {t}
        /\ UNCHANGED given /\ alive' = alive /\ state' = state /\ req' = req /\ res' = res /\ conn' = conn
        /\ backend' = backend /\ net' = net /\ lappers' = lappers /\ file' = file
    BY DEF TaxiFails, Says
  <1>2. mpx = "taxi" /\ taxis[t] = 1 /\ letters \in Seq(LetterSet) /\ taxis \in [Tours -> Passes]
    BY <1>1, OneTaxi, FlowTypes
  <1>3. Sets(taxis', taxis, t, Passes) /\ taxis'[t] = 0
    <2>1. taxis' = [taxis EXCEPT ![t] = 0] /\ 0 \in Passes
      BY <1>1, <1>2 DEF Passes
    <2> QED BY <1>2, <2>1, SetsOne
  <1>4. /\ letters' \in Seq(LetterSet)
        /\ \A u \in Tours : u # t => /\ Count(letters', Reads(u)) = Count(letters, Reads(u))
                                     /\ Told(letters', u) => Told(letters, u)
        /\ Told(letters', t) => Told(letters, t)
        /\ Count(letters', Reads(t)) = Count(letters, Reads(t)) + 1 /\ Count(letters, Reads(t)) \in Nat
    <2>8. letters \in Seq(LetterSet) /\ "ioerror" \in Words /\ "ioerror" # "closed"
      BY <1>2 DEF Words
    <2>9. /\ Append(letters, <<"ioerror", t>>) \in Seq(LetterSet)
          /\ \A u \in Tours : Count(letters, Reads(u)) \in Nat
          /\ \A u \in Tours : u # t => Count(Append(letters, <<"ioerror", t>>), Reads(u)) = Count(letters, Reads(u))
          /\ Count(Append(letters, <<"ioerror", t>>), Reads(t)) =
               IF "ioerror" \in {"read", "eof", "ioerror"} THEN Count(letters, Reads(t)) + 1 ELSE Count(letters, Reads(t))
          /\ \A u \in Tours : Told(Append(letters, <<"ioerror", t>>), u) => Told(letters, u) \/ (u = t /\ "ioerror" = "closed")
      BY <2>8, LetterAdded
    <2> QED BY <1>1, <2>9
  <1>5. Outstanding(t)' = Outstanding(t)
    <2>1. /\ Outstanding(t)' = taxis'[t] + Count(letters', Reads(t))
          /\ Outstanding(t) = taxis[t] + Count(letters, Reads(t))
      BY QueuedIs, QueuedNext
    <2> QED BY <1>2, <1>3, <1>4, <2>1
  <1>6. Spins'
    BY <1>1, <1>2 DEF Spins, given
  <1>7. ResSide(t)'
    BY <1>1, <1>4, <1>5, ResRead
  <1>8. /\ Sets(state', state, t, States) /\ Sets(res', res, t, Counts) /\ Sets(net', net, t, Seq(Units))
        /\ Sets(file', file, t, Rudders)
    BY <1>1, SetsNone
  <1>9. /\ alive' \in BOOLEAN /\ lappers' \subseteq Tours /\ failed' \subseteq Tours
        /\ ~gzip[t] => res'[t].consumed <= res'[t].posted
    BY <1>1, FlowTypes
  <1> QED BY <1>1, <1>3, <1>4, <1>6, <1>7, <1>8, <1>9, FileStep

(* A lap of the spinning reader only adds a letter that ends the agent.    *)
LEMMA LapKeeps ==
  ASSUME FlowInv, NEW t \in Tours, Lap(t)
  PROVE  FlowInv'
  <1>1. /\ letters' = Append(letters, <<"fatal", t>>)
        /\ UNCHANGED given /\ alive' = alive /\ state' = state /\ req' = req /\ res' = res /\ conn' = conn
        /\ backend' = backend /\ net' = net /\ lappers' = lappers /\ file' = file /\ taxis' = taxis /\ failed' = failed
    BY DEF Lap, Says, fileVars
  <1>2. letters \in Seq(LetterSet)
    BY FlowTypes
  <1>3. /\ letters' \in Seq(LetterSet)
        /\ \A u \in Tours : u # t => /\ Count(letters', Reads(u)) = Count(letters, Reads(u))
                                     /\ Told(letters', u) => Told(letters, u)
        /\ Told(letters', t) => Told(letters, t)
        /\ Count(letters', Reads(t)) = Count(letters, Reads(t))
    <2>8. letters \in Seq(LetterSet) /\ "fatal" \in Words /\ "fatal" # "closed"
      BY <1>2 DEF Words
    <2>9. /\ Append(letters, <<"fatal", t>>) \in Seq(LetterSet)
          /\ \A u \in Tours : Count(letters, Reads(u)) \in Nat
          /\ \A u \in Tours : u # t => Count(Append(letters, <<"fatal", t>>), Reads(u)) = Count(letters, Reads(u))
          /\ Count(Append(letters, <<"fatal", t>>), Reads(t)) =
               IF "fatal" \in {"read", "eof", "ioerror"} THEN Count(letters, Reads(t)) + 1 ELSE Count(letters, Reads(t))
          /\ \A u \in Tours : Told(Append(letters, <<"fatal", t>>), u) => Told(letters, u) \/ (u = t /\ "fatal" = "closed")
      BY <2>8, LetterAdded
    <2> QED BY <1>1, <2>9
  <1>4. Outstanding(t)' = Outstanding(t)
    BY <1>1, <1>3, QueuedIs, QueuedNext
  <1>5. Spins'
    <2>1. \A i \in DOMAIN letters' : letters'[i] = <<"fatal", t>> \/ (i \in DOMAIN letters /\ letters'[i] = letters[i])
      BY <1>1, <1>2
    <2> QED BY <1>1, <2>1 DEF FlowInv, Spins, given
  <1>6. ResSide(t)'
    BY <1>1, <1>3, <1>4, ResRead
  <1>7. /\ Sets(state', state, t, States) /\ Sets(res', res, t, Counts) /\ Sets(net', net, t, Seq(Units))
        /\ Sets(file', file, t, Rudders) /\ Sets(taxis', taxis, t, Passes)
    BY <1>1, SetsNone
  <1>8. /\ alive' \in BOOLEAN /\ lappers' \subseteq Tours /\ failed' \subseteq Tours
        /\ ~gzip[t] => res'[t].consumed <= res'[t].posted
    BY <1>1, FlowTypes
  <1> QED BY <1>1, <1>3, <1>5, <1>6, <1>7, <1>8, FileStep

(* A file that grows does not disturb its transfer.                        *)
LEMMA GrowsKeeps ==
  ASSUME FlowInv, NEW t \in Tours, Grows(t)
  PROVE  FlowInv'
  <1> DEFINE f == [file[t] EXCEPT !.left = @ + 1]
  <1>1. /\ file[t].state = "open" /\ file' = [file EXCEPT ![t] = f]
        /\ UNCHANGED given /\ alive' = alive /\ state' = state /\ req' = req /\ res' = res /\ conn' = conn
        /\ backend' = backend /\ net' = net /\ lappers' = lappers /\ taxis' = taxis /\ letters' = letters /\ failed' = failed
    BY DEF Grows
  <1>2. file \in [Tours -> Rudders] /\ file[t] \in Rudders
    BY FlowTypes
  <1>3. f \in Rudders /\ f.state = file[t].state /\ f.reading = file[t].reading
    <2>1. file[t].left + 1 \in Nat
      BY <1>2 DEF Rudders
    <2> QED BY <1>2, <2>1, Updates
  <1> HIDE DEF f
  <1>4. Sets(file', file, t, Rudders) /\ file'[t] = f
    BY <1>1, <1>2, <1>3, SetsOne
  <1>5. Outstanding(t)' = Outstanding(t)
    BY <1>1, QueuedIs, QueuedNext
  <1>6. Spins'
    BY <1>1 DEF FlowInv, Spins, given
  <1>7. ResSide(t)'
    BY <1>1, <1>3, <1>4, <1>5, ResRead
  <1>8. /\ Sets(state', state, t, States) /\ Sets(res', res, t, Counts) /\ Sets(net', net, t, Seq(Units))
        /\ Sets(taxis', taxis, t, Passes)
    BY <1>1, SetsNone
  <1>9. /\ alive' \in BOOLEAN /\ lappers' \subseteq Tours /\ letters' \in Seq(LetterSet) /\ failed' \subseteq Tours
        /\ ~gzip[t] => res'[t].consumed <= res'[t].posted
    BY <1>1, FlowTypes
  <1> QED BY <1>1, <1>3, <1>4, <1>6, <1>7, <1>8, <1>9, FileStep

(* The agent dies of a letter.                                              *)
LEMMA DiesKeeps ==
  ASSUME FlowInv, NEW t \in Tours, NEW what \in {"read", "fatal"}, Handles(what, t), alive' = FALSE,
         UNCHANGED <<given, state, req, res, conn, backend, net, fileVars, failed>>
  PROVE  FlowInv'
  <1>1. /\ letters # <<>> /\ Head(letters) = <<what, t>> /\ letters' = Tail(letters)
        /\ UNCHANGED given /\ state' = state /\ req' = req /\ res' = res /\ conn' = conn
        /\ backend' = backend /\ net' = net /\ lappers' = lappers /\ file' = file /\ taxis' = taxis /\ failed' = failed
    BY DEF Handles, Gets, fileVars
  <1>2. letters \in Seq(LetterSet) /\ what \in Words
    BY FlowTypes DEF Words
  <1>3. /\ letters' \in Seq(LetterSet)
        /\ \A u \in Tours : u # t => /\ Count(letters', Reads(u)) = Count(letters, Reads(u))
                                     /\ Told(letters', u) => Told(letters, u)
        /\ Told(letters', t) => Told(letters, t)
        /\ \A i \in DOMAIN letters' : \E j \in DOMAIN letters : letters'[i] = letters[j]
    BY <1>1, <1>2, LetterTaken
  <1>4. Spins'
    BY <1>1, <1>3 DEF FlowInv, Spins, given
  <1>5. ResSide(t)'
    BY <1>1, <1>3, ResRead
  <1>6. /\ Sets(state', state, t, States) /\ Sets(res', res, t, Counts) /\ Sets(net', net, t, Seq(Units))
        /\ Sets(file', file, t, Rudders) /\ Sets(taxis', taxis, t, Passes)
    BY <1>1, SetsNone
  <1>7. /\ alive' \in BOOLEAN /\ lappers' \subseteq Tours /\ failed' \subseteq Tours
        /\ ~gzip[t] => res'[t].consumed <= res'[t].posted
    BY <1>1, FlowTypes
  <1> QED BY <1>1, <1>3, <1>4, <1>5, <1>6, <1>7, FileStep

(* The file of a tour that is told closed was being closed.                *)
LEMMA OnClosedKeeps ==
  ASSUME FlowInv, NEW t \in Tours, OnClosed(t)
  PROVE  FlowInv'
  <1> DEFINE f == [file[t] EXCEPT !.state = "closed"]
  <1>1. /\ letters # <<>> /\ Head(letters) = <<"closed", t>> /\ letters' = Tail(letters)
        /\ file' = [file EXCEPT ![t] = f]
        /\ UNCHANGED given /\ alive' = alive /\ state' = state /\ req' = req /\ res' = res /\ conn' = conn
        /\ backend' = backend /\ net' = net /\ lappers' = lappers /\ taxis' = taxis /\ failed' = failed
    BY DEF OnClosed, Handles, Gets
  <1>2. letters \in Seq(LetterSet) /\ "closed" \in Words /\ file \in [Tours -> Rudders] /\ file[t] \in Rudders
    BY FlowTypes DEF Words
  <1>3. ResSide(t)
    BY FlowTypes, Sides
  <1>4. /\ letters' \in Seq(LetterSet)
        /\ \A u \in Tours : u # t => /\ Count(letters', Reads(u)) = Count(letters, Reads(u))
                                     /\ Told(letters', u) => Told(letters, u)
        /\ Count(letters', Reads(t)) = Count(letters, Reads(t)) /\ Told(letters, t)
        /\ \A i \in DOMAIN letters' : \E j \in DOMAIN letters : letters'[i] = letters[j]
    <2>1. /\ Tail(letters) \in Seq(LetterSet)
          /\ \A u \in Tours : u # t => Count(Tail(letters), Reads(u)) = Count(letters, Reads(u))
          /\ Count(Tail(letters), Reads(t)) =
               IF "closed" \in {"read", "eof", "ioerror"} THEN Count(letters, Reads(t)) - 1 ELSE Count(letters, Reads(t))
          /\ \A u \in Tours : Told(Tail(letters), u) => Told(letters, u)
          /\ "closed" = "closed" => Told(letters, t)
      BY <1>1, <1>2, LetterTaken
    <2>2. \A i \in DOMAIN Tail(letters) : \E j \in DOMAIN letters : Tail(letters)[i] = letters[j]
      BY <1>1, <1>2
    <2> QED BY <1>1, <2>1, <2>2
  <1>5. file[t].state \in {"closing", "closed"} /\ ~file[t].reading /\ res[t].available
    BY <1>3, <1>4 DEF ResSide, FileSent
  <1>6. f \in Rudders /\ f.state = "closed" /\ f.reading = file[t].reading
    BY <1>2 DEF Rudders
  <1> HIDE DEF f
  <1>7. Sets(file', file, t, Rudders) /\ file'[t] = f
    BY <1>1, <1>2, <1>6, SetsOne
  <1>8. Spins'
    BY <1>1, <1>4 DEF FlowInv, Spins, given
  <1>9. ResSide(t)'
    <2>1. Queued(t)' = Queued(t) /\ Outstanding(t)' = Outstanding(t) /\ gzip' = gzip /\ mpx' = mpx
      BY <1>1, <1>4, QueuedIs, QueuedNext DEF given
    <2>2. FileSent(t)'
      BY <1>1, <1>3, <1>5, <1>6, <1>7, <2>1 DEF ResSide, FileSent
    <2>3. (mpx = "taxi" /\ alive)' => ReadOnce(t)'
      BY <1>1, <1>3, <1>5, <1>6, <1>7, <2>1 DEF ResSide, ReadOnce
    <2> QED BY <1>1, <1>3, <1>5, <1>6, <1>7, <2>1, <2>2, <2>3 DEF ResSide
  <1>10. /\ Sets(state', state, t, States) /\ Sets(res', res, t, Counts) /\ Sets(net', net, t, Seq(Units))
         /\ Sets(taxis', taxis, t, Passes)
    BY <1>1, SetsNone
  <1>11. /\ alive' \in BOOLEAN /\ lappers' \subseteq Tours /\ failed' \subseteq Tours
         /\ ~gzip[t] => res'[t].consumed <= res'[t].posted
    BY <1>1, FlowTypes
  <1> QED BY <1>1, <1>4, <1>6, <1>7, <1>8, <1>9, <1>10, <1>11, FileStep

(* The last read, or the one that failed, closes the file.                  *)
LEMMA ClosesKeeps ==
  ASSUME FlowInv, NEW t \in Tours, NEW what \in {"eof", "ioerror"}, Gets(what, t), Closes(t),
         UNCHANGED <<alive, given, req, res, conn, backend, taxis, lappers, failed>>,
         Sets(state', state, t, States), Sets(net', net, t, Seq(Units)),
         state'[t] \in {"ended", "returned"} \/ (state'[t] = state[t] /\ net'[t] = net[t]),
         ~gzip[t] => /\ Count(net'[t], {"chunk"}) = Count(net[t], {"chunk"})
                     /\ \A i \in DOMAIN net'[t] : net'[t][i] # "part"
  PROVE  FlowInv'
  <1> DEFINE f == [[file[t] EXCEPT !.state = "closing"] EXCEPT !.reading = FALSE]
             l == Tail(letters)
  <1>1. /\ alive /\ letters # <<>> /\ Head(letters) = <<what, t>>
        /\ letters' = Append(l, <<"closed", t>>)
        /\ UNCHANGED given /\ alive' = alive /\ req' = req /\ res' = res /\ conn' = conn
        /\ backend' = backend /\ lappers' = lappers /\ taxis' = taxis /\ failed' = failed
    BY DEF Gets, Closes
  <1>2. /\ letters \in Seq(LetterSet) /\ what \in Words /\ "closed" \in Words /\ what \in {"read", "eof", "ioerror"}
        /\ file \in [Tours -> Rudders] /\ file[t] \in Rudders
    BY FlowTypes DEF Words
  <1>3. ResSide(t)
    BY FlowTypes, Sides
  <1>4. /\ mpx = "taxi" /\ file[t].reading /\ file[t].state = "open" /\ res[t].available
        /\ taxis[t] = 0 /\ Count(letters, Reads(t)) = 1
    BY <1>1, <1>2, OneOutstanding
  <1>5. /\ l \in Seq(LetterSet)
        /\ \A u \in Tours : u # t => /\ Count(l, Reads(u)) = Count(letters, Reads(u))
                                     /\ Told(l, u) => Told(letters, u)
        /\ Count(l, Reads(t)) = Count(letters, Reads(t)) - 1
    BY <1>1, <1>2, LetterTaken
  <1> HIDE DEF l
  <1>6. /\ letters' \in Seq(LetterSet)
        /\ \A u \in Tours : u # t => /\ Count(letters', Reads(u)) = Count(l, Reads(u))
                                     /\ Told(letters', u) => Told(l, u)
        /\ Count(letters', Reads(t)) = Count(l, Reads(t))
    <2>1. /\ Append(l, <<"closed", t>>) \in Seq(LetterSet)
          /\ \A u \in Tours : u # t => Count(Append(l, <<"closed", t>>), Reads(u)) = Count(l, Reads(u))
          /\ Count(Append(l, <<"closed", t>>), Reads(t)) = Count(l, Reads(t))
          /\ \A u \in Tours : Told(Append(l, <<"closed", t>>), u) => Told(l, u) \/ (u = t /\ "closed" = "closed")
      BY <1>2, <1>5, LetterAdded
    <2> QED BY <1>1, <2>1
  <1>7. f \in Rudders /\ f.state = "closing" /\ f.reading = FALSE /\ file' = [file EXCEPT ![t] = f]
    <2>1. f \in Rudders /\ f.state = "closing" /\ f.reading = FALSE
      BY <1>2 DEF Rudders
    <2>2. file' = [file EXCEPT ![t] = f]
      BY <1>2 DEF Closes
    <2> QED BY <2>1, <2>2
  <1> HIDE DEF f
  <1>8. Sets(file', file, t, Rudders) /\ file'[t] = f
    BY <1>2, <1>7, SetsOne
  <1>9. Spins'
    BY <1>1, <1>4 DEF Spins, given
  <1>10. ResSide(t)'
    <2>1. /\ gzip' = gzip /\ mpx' = mpx /\ Queued(t) = Count(net[t], {"chunk"})
          /\ Queued(t)' = Count(net'[t], {"chunk"}) /\ Outstanding(t)' = taxis'[t] + Count(letters', Reads(t))
      BY <1>1, QueuedIs, QueuedNext DEF given
    <2>2. FileSent(t)'
      <3>1. res'[t] = res[t] /\ file'[t].state = "closing" /\ ~file'[t].reading
        BY <1>1, <1>7, <1>8
      <3>2. Room(res'[t])
        BY <1>3, <1>4, <3>1 DEF ResSide, FileSent
      <3>3. state'[t] \in {"reading", "running"} => \A i \in DOMAIN net'[t] : net'[t][i] # "end"
        BY <1>3 DEF ResSide, FileSent
      <3>4. ~gzip'[t] => \A i \in DOMAIN net'[t] : net'[t][i] # "part"
        BY <2>1
      <3> QED BY <1>4, <3>1, <3>2, <3>3, <3>4 DEF FileSent
    <2>3. (mpx = "taxi" /\ alive)' => ReadOnce(t)'
      <3>1. Outstanding(t)' = 0
        BY <1>1, <1>4, <1>5, <1>6, <2>1
      <3> QED BY <1>7, <1>8, <3>1 DEF ReadOnce
    <2>4. ~gzip[t] => res[t].posted = res[t].consumed + Queued(t)'
      BY <1>3, <1>4, <2>1 DEF ResSide
    <2> QED BY <1>1, <1>7, <1>8, <2>1, <2>2, <2>3, <2>4 DEF ResSide
  <1>11. /\ Sets(res', res, t, Counts) /\ Sets(taxis', taxis, t, Passes)
    BY <1>1, SetsNone
  <1>12. /\ alive' \in BOOLEAN /\ lappers' \subseteq Tours /\ failed' \subseteq Tours
         /\ ~gzip[t] => res'[t].consumed <= res'[t].posted
    BY <1>1, FlowTypes
  <1>13. \A u \in Tours : u # t => /\ Count(letters', Reads(u)) = Count(letters, Reads(u))
                                   /\ Told(letters', u) => Told(letters, u)
    BY <1>5, <1>6
  <1>14. file'[t].state # "none" /\ (state'[t] = state[t] \/ state'[t] \in {"ended", "returned"})
    BY <1>7, <1>8
  <1> QED BY <1>1, <1>6, <1>8, <1>9, <1>10, <1>11, <1>12, <1>13, <1>14, FileStep

(* A read that failed closes the file and leaves the response as it is.    *)
LEMMA OnIOErrorKeeps ==
  ASSUME FlowInv, NEW t \in Tours, OnIOError(t)
  PROVE  FlowInv'
  <1>1. /\ Gets("ioerror", t) /\ Closes(t) /\ state' = state /\ net' = net
        /\ UNCHANGED <<alive, given, req, res, conn, backend, taxis, lappers, failed>>
    BY DEF OnIOError
  <1>2. Sets(state', state, t, States) /\ Sets(net', net, t, Seq(Units))
    BY <1>1, SetsNone
  <1>3. ~gzip[t] => /\ Count(net'[t], {"chunk"}) = Count(net[t], {"chunk"})
                    /\ \A i \in DOMAIN net'[t] : net'[t][i] # "part"
    BY <1>1, FlowTypes, Sides DEF ResSide, FileSent
  <1> QED BY <1>1, <1>2, <1>3, ClosesKeeps

(* The end of the file ends the response and closes the file.              *)
LEMMA OnEofKeeps ==
  ASSUME FlowInv, NEW t \in Tours, OnEof(t)
  PROVE  FlowInv'
  <1>1. /\ Gets("eof", t) /\ Closes(t)
        /\ UNCHANGED <<alive, given, req, res, conn, backend, taxis, lappers, failed>>
    BY DEF OnEof
  <1>2. state \in [Tours -> States] /\ net \in [Tours -> Seq(Units)] /\ net[t] \in Seq(Units)
    BY FlowTypes
  <1>3. /\ Sets(state', state, t, States) /\ Sets(net', net, t, Seq(Units)) /\ state'[t] \in {"ended", "returned"}
        /\ ~gzip[t] => /\ Count(net'[t], {"chunk"}) = Count(net[t], {"chunk"})
                       /\ \A i \in DOMAIN net'[t] : net'[t][i] # "part"
    <2>1. CASE gzip[t] /\ conn[t].open /\ state[t] # "ended"
      <3> DEFINE x == net[t] \o <<"part", "end">>
      <3>1. state' = [state EXCEPT ![t] = "ended"] /\ net' = [net EXCEPT ![t] = x]
        BY <2>1 DEF OnEof
      <3>2. "ended" \in States /\ x \in Seq(Units)
        BY <1>2 DEF States, Units
      <3> HIDE DEF x
      <3>3. Sets(state', state, t, States) /\ state'[t] = "ended"
        BY <1>2, <3>1, <3>2, SetsOne
      <3>4. Sets(net', net, t, Seq(Units))
        BY <1>2, <3>1, <3>2, SetsOne
      <3> QED BY <2>1, <3>3, <3>4
    <2>2. CASE ~(gzip[t] /\ conn[t].open /\ state[t] # "ended")
      <3>1. Answer(t)
        BY <2>2 DEF OnEof
      <3>2. /\ Sets(state', state, t, States) /\ state'[t] \in {"ended", "returned"}
            /\ Sets(net', net, t, Seq(Units)) /\ (net'[t] = net[t] \/ net'[t] = Append(net[t], "end"))
        BY <3>1, AnswerIs
      <3>3. ~gzip[t] => \A i \in DOMAIN net[t] : net[t][i] # "part"
        BY FlowTypes, Sides DEF ResSide, FileSent
      <3>4. /\ Count(net'[t], {"chunk"}) = Count(net[t], {"chunk"})
            /\ (\A i \in DOMAIN net[t] : net[t][i] # "part") => (\A i \in DOMAIN net'[t] : net'[t][i] # "part")
        BY <1>2, <3>2, EndAppended
      <3> QED BY <3>2, <3>3, <3>4
    <2> QED BY <2>1, <2>2
  <1> QED BY <1>1, <1>3, ClosesKeeps

(* A chunk posted, as a record.                                            *)
LEMMA OnePosted ==
  ASSUME NEW c \in Counts
  PROVE  [c EXCEPT !.posted = @ + 1] = [posted |-> c.posted + 1, consumed |-> c.consumed, available |-> c.available]
  BY DEF Counts

(* A chunk of the file: it is queued or reported, and the file is read on  *)
(* if and only if there is room; if there is none, the queue is not empty. *)
LEMMA OnReadKeeps ==
  ASSUME FlowInv, NEW t \in Tours, OnRead(t)
  PROVE  FlowInv'
  <1> DEFINE r == [res[t] EXCEPT !.posted = @ + 1]
             l == Tail(letters)
             f == [file[t] EXCEPT !.reading = FALSE]
  <1>1. /\ alive /\ letters # <<>> /\ Head(letters) = <<"read", t>> /\ letters' = l
        /\ UNCHANGED given /\ alive' = alive /\ state' = state /\ req' = req /\ conn' = conn
        /\ backend' = backend /\ lappers' = lappers /\ failed' = failed
    BY DEF OnRead, Handles, Gets
  <1>2. /\ letters \in Seq(LetterSet) /\ "read" \in Words
        /\ file \in [Tours -> Rudders] /\ file[t] \in Rudders /\ taxis \in [Tours -> Passes]
        /\ res \in [Tours -> Counts] /\ res[t] \in Counts /\ net \in [Tours -> Seq(Units)] /\ net[t] \in Seq(Units)
        /\ ~gzip[t] => res[t].consumed <= res[t].posted
    BY FlowTypes DEF Words
  <1>3. ResSide(t)
    BY FlowTypes, Sides
  <1>4. /\ mpx = "taxi" /\ file[t].reading /\ file[t].state = "open" /\ res[t].available
        /\ taxis[t] = 0 /\ Count(letters, Reads(t)) = 1
    BY <1>1, OneOutstanding
  <1>5. /\ l \in Seq(LetterSet)
        /\ \A u \in Tours : u # t => /\ Count(l, Reads(u)) = Count(letters, Reads(u))
                                     /\ Told(l, u) => Told(letters, u)
        /\ Count(l, Reads(t)) = 0 /\ (Told(l, t) => Told(letters, t))
    <2>1. /\ Tail(letters) \in Seq(LetterSet)
          /\ \A u \in Tours : u # t => Count(Tail(letters), Reads(u)) = Count(letters, Reads(u))
          /\ Count(Tail(letters), Reads(t)) =
               IF "read" \in {"read", "eof", "ioerror"} THEN Count(letters, Reads(t)) - 1 ELSE Count(letters, Reads(t))
          /\ \A u \in Tours : Told(Tail(letters), u) => Told(letters, u)
      BY <1>1, <1>2, LetterTaken
    <2> QED BY <1>4, <2>1
  <1> HIDE DEF l
  <1>6. PICK out \in IF gzip[t] THEN {<<>>, <<"chunk">>} ELSE {<<"chunk">>} :
          /\ res' = [res EXCEPT ![t] = Post(IF out # <<>> /\ ~conn[t].open THEN Consume(r, 1) ELSE r, 0)]
          /\ net' = IF conn[t].open THEN [net EXCEPT ![t] = @ \o out] ELSE net
    BY DEF OnRead
  <1> DEFINE s == IF out # <<>> /\ ~conn[t].open THEN Consume(r, 1) ELSE r
             p == Post(s, 0)
             told == IF out # <<>> /\ ~conn[t].open THEN 1 ELSE 0
  <1>7. out = <<"chunk">> \/ (gzip[t] /\ out = <<>>)
    BY <1>6
  <1>8. /\ r \in Counts /\ r.posted = res[t].posted + 1 /\ r.consumed = res[t].consumed
        /\ r.available = TRUE /\ res[t].posted \in Nat /\ res[t].consumed \in Nat
    <2>1. res[t].posted \in Nat /\ res[t].consumed \in Nat /\ res[t].available = TRUE /\ res[t].posted + 1 \in Nat
      BY <1>2, <1>4 DEF Counts
    <2>2. r = [posted |-> res[t].posted + 1, consumed |-> res[t].consumed, available |-> res[t].available]
      BY <1>2, OnePosted
    <2> HIDE DEF r
    <2> QED BY <2>1, <2>2 DEF Counts
  <1> HIDE DEF r
  <1>9. /\ s \in Counts /\ s.posted = res[t].posted + 1 /\ s.consumed = res[t].consumed + told /\ s.available
        /\ told \in Nat
    <2>1. CASE out # <<>> /\ ~conn[t].open
      <3>1. /\ Consume(r, 1) \in Counts /\ Consume(r, 1).posted = r.posted /\ Consume(r, 1).consumed = r.consumed + 1
            /\ Consume(r, 1).available <=> r.available \/ r.posted < r.consumed + 1 + Buffer
        BY <1>8, ConsumeIs
      <3> QED BY <1>8, <2>1, <3>1
    <2>2. CASE ~(out # <<>> /\ ~conn[t].open)
      BY <1>8, <2>2
    <2> QED BY <2>1, <2>2
  <1>10. /\ p \in Counts /\ p.posted = res[t].posted + 1 /\ p.consumed = res[t].consumed + told
         /\ p.available <=> res[t].posted + 1 < res[t].consumed + told + Buffer
         /\ p.available \in BOOLEAN
    <2> HIDE DEF s, told
    <2>1. /\ Post(s, 0) \in Counts /\ Post(s, 0).posted = s.posted + 0 /\ Post(s, 0).consumed = s.consumed
          /\ Post(s, 0).available <=> s.available /\ s.posted + 0 < s.consumed + Buffer
      BY <1>9, PostIs
    <2>2. s.posted + 0 = res[t].posted + 1
      BY <1>8, <1>9
    <2> HIDE DEF p
    <2>3. /\ p \in Counts /\ p.posted = res[t].posted + 1 /\ p.consumed = res[t].consumed + told
          /\ p.available <=> res[t].posted + 1 < res[t].consumed + told + Buffer
      BY <1>9, <2>1, <2>2 DEF p
    <2>4. p.available \in BOOLEAN
      BY <2>3 DEF Counts
    <2> QED BY <2>3, <2>4
  <1> HIDE DEF s, p
  <1>11. Sets(res', res, t, Counts) /\ res'[t] = p
    <2>1. res' = [res EXCEPT ![t] = p]
      BY <1>6 DEF p, s
    <2> QED BY <1>2, <1>10, <2>1, SetsOne
  <1>12. /\ Sets(net', net, t, Seq(Units))
         /\ net'[t] = net[t] \/ net'[t] = Append(net[t], "chunk")
         /\ ~gzip[t] => net'[t] = IF conn[t].open THEN Append(net[t], "chunk") ELSE net[t]
    <2>1. CASE conn[t].open /\ out = <<"chunk">>
      <3>1. net' = [net EXCEPT ![t] = net[t] \o <<"chunk">>]
        BY <1>6, <2>1
      <3>2. net[t] \o <<"chunk">> = Append(net[t], "chunk") /\ Append(net[t], "chunk") \in Seq(Units)
        BY <1>2 DEF Units
      <3>3. net' = [net EXCEPT ![t] = Append(net[t], "chunk")]
        BY <3>1, <3>2
      <3>4. Sets(net', net, t, Seq(Units)) /\ net'[t] = Append(net[t], "chunk")
        BY <1>2, <3>2, <3>3, SetsOne
      <3> QED BY <2>1, <3>4
    <2>2. CASE conn[t].open /\ gzip[t] /\ out = <<>>
      <3>1. net' = [net EXCEPT ![t] = net[t] \o <<>>]
        BY <1>6, <2>2
      <3>2. net[t] \o <<>> = net[t]
        BY <1>2
      <3>3. net' = [net EXCEPT ![t] = net[t]]
        BY <3>1, <3>2
      <3>4. Sets(net', net, t, Seq(Units)) /\ net'[t] = net[t]
        BY <1>2, <3>3, SetsOne
      <3> QED BY <2>2, <3>4
    <2>3. CASE ~conn[t].open
      BY <1>6, <2>3, SetsNone
    <2> QED BY <1>7, <2>1, <2>2, <2>3
  <1>13. /\ \A i \in DOMAIN net'[t] : net'[t][i] = "chunk" \/ (i \in DOMAIN net[t] /\ net'[t][i] = net[t][i])
         /\ Count(net[t], {"chunk"}) \in Nat
         /\ ~gzip[t] => Count(net'[t], {"chunk"}) =
                          IF conn[t].open THEN Count(net[t], {"chunk"}) + 1 ELSE Count(net[t], {"chunk"})
    <2>1. Count(Append(net[t], "chunk"), {"chunk"}) = Count(net[t], {"chunk"}) + 1
      <3>1. "chunk" \in Units /\ "chunk" \in {"chunk"}
        BY DEF Units
      <3> QED BY <1>2, <3>1, CountAppend
    <2>2. \A i \in DOMAIN Append(net[t], "chunk") :
             Append(net[t], "chunk")[i] = "chunk" \/ (i \in DOMAIN net[t] /\ Append(net[t], "chunk")[i] = net[t][i])
      BY <1>2
    <2>3. Count(net[t], {"chunk"}) \in Nat
      BY <1>2, CountType
    <2> QED BY <1>12, <2>1, <2>2, <2>3
  <1>14. /\ Sets(taxis', taxis, t, Passes) /\ Sets(file', file, t, Rudders)
         /\ file'[t].state = "open"
         /\ p.available => file'[t].reading /\ taxis'[t] = 1
         /\ ~p.available => ~file'[t].reading /\ taxis'[t] = 0
    <2>1. CASE p.available
      <3>1. taxis' = [taxis EXCEPT ![t] = @ + 1] /\ file' = file
        BY <1>11, <2>1 DEF OnRead
      <3>2. taxis' = [taxis EXCEPT ![t] = 1] /\ 1 \in Passes
        BY <1>2, <1>4, <3>1 DEF Passes
      <3>3. Sets(taxis', taxis, t, Passes) /\ taxis'[t] = 1
        BY <1>2, <3>2, SetsOne
      <3> QED BY <1>4, <2>1, <3>1, <3>3, SetsNone
    <2>2. CASE ~p.available
      <3>1. file' = [file EXCEPT ![t] = f] /\ taxis' = taxis
        BY <1>11, <2>2 DEF OnRead
      <3>2. f \in Rudders /\ f.state = file[t].state /\ f.reading = FALSE
        BY <1>2, Updates
      <3> HIDE DEF f
      <3>3. Sets(file', file, t, Rudders) /\ file'[t] = f
        BY <1>2, <3>1, <3>2, SetsOne
      <3> QED BY <1>4, <2>2, <3>1, <3>2, <3>3, SetsNone
    <2> QED BY <2>1, <2>2
  <1>15. /\ ~gzip[t] => p.consumed <= p.posted /\ p.posted = p.consumed + Count(net'[t], {"chunk"})
         /\ Buffer \in Nat /\ Buffer > 0
    <2> SUFFICES ASSUME ~gzip[t] PROVE p.consumed <= p.posted /\ p.posted = p.consumed + Count(net'[t], {"chunk"})
      BY Numbers
    <2>1. res[t].posted = res[t].consumed + Count(net[t], {"chunk"})
      BY <1>3, <1>4, QueuedIs DEF ResSide
    <2>2. told = IF conn[t].open THEN 0 ELSE 1
      BY <1>7
    <2> HIDE DEF told
    <2> QED BY <1>8, <1>10, <1>13, <2>1, <2>2
  <1>16. Spins'
    BY <1>1, <1>4 DEF Spins, given
  <1>17. ResSide(t)'
    <2>1. /\ gzip' = gzip /\ mpx' = mpx /\ Queued(t)' = Count(net'[t], {"chunk"})
          /\ Outstanding(t)' = taxis'[t] + Count(letters', Reads(t))
      BY <1>1, QueuedNext DEF given
    <2>2. p.available => p.posted < p.consumed + Buffer
      BY <1>8, <1>9, <1>10
    <2>3. ~p.available => ~(p.posted < p.consumed + Buffer)
      BY <1>8, <1>9, <1>10
    <2>4. p.posted \in Nat /\ p.consumed \in Nat
      BY <1>10 DEF Counts
    <2>5. FileSent(t)'
      <3>1. file[t].reading /\ state'[t] \in {"reading", "running"} /\ \A i \in DOMAIN net[t] : net[t][i] # "end"
        BY <1>1, <1>3, <1>4 DEF ResSide, FileSent
      <3>2. \A i \in DOMAIN net'[t] : net'[t][i] # "end"
        BY <1>13, <3>1
      <3>3. ~gzip'[t] => \A i \in DOMAIN net'[t] : net'[t][i] # "part"
        BY <1>3, <1>13, <2>1 DEF ResSide, FileSent
      <3>4. ~Told(letters', t)
        BY <1>1, <1>3, <1>4, <1>5 DEF ResSide, FileSent
      <3>5. p.available => Room(p)
        BY <2>2 DEF Room
      <3> QED BY <1>11, <1>14, <3>1, <3>2, <3>3, <3>4, <3>5 DEF FileSent
    <2>6. ReadOnce(t)'
      <3>1. Outstanding(t)' = IF file'[t].reading THEN 1 ELSE 0
        BY <1>1, <1>5, <1>14, <2>1
      <3>2. file'[t].reading /\ ~gzip'[t] => Queued(t)' < Buffer
        <4> SUFFICES ASSUME file'[t].reading, ~gzip[t] PROVE Count(net'[t], {"chunk"}) < Buffer
          BY <2>1
        <4>1. p.posted < p.consumed + Buffer /\ p.posted = p.consumed + Count(net'[t], {"chunk"})
          BY <1>14, <1>15, <2>2
        <4>2. Count(net'[t], {"chunk"}) \in Int
          BY <1>13
        <4> QED BY <1>15, <2>4, <4>1, <4>2
      <3> QED BY <1>14, <3>1, <3>2 DEF ReadOnce
    <2>7. ~file'[t].reading /\ ~gzip[t] => ~p.available /\ Count(net'[t], {"chunk"}) > 0
      <3> SUFFICES ASSUME ~file'[t].reading, ~gzip[t] PROVE ~p.available /\ Count(net'[t], {"chunk"}) > 0
        OBVIOUS
      <3>1. ~p.available /\ ~(p.posted < p.consumed + Buffer) /\ p.posted = p.consumed + Count(net'[t], {"chunk"})
        BY <1>14, <1>15, <2>3
      <3>2. Count(net'[t], {"chunk"}) \in Int
        BY <1>13
      <3> QED BY <1>15, <2>4, <3>1, <3>2
    <2> QED BY <1>11, <1>15, <2>1, <2>5, <2>6, <2>7 DEF ResSide
  <1>18. /\ Sets(state', state, t, States) /\ alive' \in BOOLEAN /\ lappers' \subseteq Tours /\ failed' \subseteq Tours
         /\ state'[t] = state[t] /\ letters' \in Seq(LetterSet)
         /\ \A u \in Tours : u # t => /\ Count(letters', Reads(u)) = Count(letters, Reads(u))
                                      /\ Told(letters', u) => Told(letters, u)
    BY <1>1, <1>5, FlowTypes, SetsNone
  <1>19. (~gzip[t] => res'[t].consumed <= res'[t].posted) /\ file'[t].state # "none"
    BY <1>11, <1>14, <1>15
  <1> QED BY <1>1, <1>11, <1>12, <1>14, <1>16, <1>17, <1>18, <1>19, FileStep

(* Units are reported, one or many: the file is read again if it has to be. *)
LEMMA ReportsKeep ==
  ASSUME FlowInv, NEW t \in Tours, NEW n \in Nat, alive, Reports(t, n),
         UNCHANGED <<alive, given, req, backend, letters, failed>>,
         Sets(conn', conn, t, Conns), conn'[t].open => conn'[t] = conn[t],
         Sets(state', state, t, States), state'[t] = state[t] \/ state'[t] = "returned",
         file[t].state = "open" => state'[t] = state[t],
         Sets(net', net, t, Seq(Units)),
         \A i \in DOMAIN net'[t] : \E j \in DOMAIN net[t] : net'[t][i] = net[t][j],
         ~gzip[t] => /\ Count(net[t], {"chunk"}) = Count(net'[t], {"chunk"}) + n
                     /\ Count(net[t], {"chunk"}) > 0 => n > 0,
         file[t].state = "none" => n = 0
  PROVE  FlowInv'
  <1> DEFINE c == Consume(res[t], n)
             yes == n > 0 /\ Listens(t) /\ Resumes(res[t], n) /\ Resumable(file[t])
             f == [file[t] EXCEPT !.reading = TRUE]
             q == Count(net[t], {"chunk"})
             r == Count(net'[t], {"chunk"})
  <1>1. /\ res' = [res EXCEPT ![t] = c] /\ ReadFile(t, yes)
        /\ UNCHANGED given /\ alive' = alive /\ req' = req /\ backend' = backend /\ letters' = letters /\ failed' = failed
    BY DEF Reports
  <1>2. /\ file \in [Tours -> Rudders] /\ file[t] \in Rudders /\ taxis \in [Tours -> Passes] /\ taxis[t] \in Passes
        /\ res \in [Tours -> Counts] /\ res[t] \in Counts /\ net[t] \in Seq(Units) /\ lappers \subseteq Tours
        /\ letters \in Seq(LetterSet) /\ mpx \in {"taxi", "spin"}
    BY FlowTypes
  <1>3. ResSide(t) /\ ReqSide(t)
    BY FlowTypes, Sides
  <1>4. /\ res[t].posted \in Nat /\ res[t].consumed \in Nat /\ res[t].available \in BOOLEAN
        /\ Buffer \in Nat /\ Buffer > 0
    BY <1>2, Numbers DEF Counts
  <1>5. /\ c \in Counts /\ c.posted = res[t].posted /\ c.consumed = res[t].consumed + n
        /\ c.available <=> res[t].available \/ res[t].posted < res[t].consumed + n + Buffer
    BY <1>2, ConsumeIs
  <1>6. yes <=> n > 0 /\ Listens(t) /\ ~res[t].available /\ c.available
                  /\ file[t].state \in {"open", "closing"} /\ ~file[t].reading
    BY DEF Resumes, Resumable
  <1> HIDE DEF c, yes
  <1>7. Sets(res', res, t, Counts) /\ res'[t] = c
    BY <1>1, <1>2, <1>5, SetsOne
  <1>8. q \in Nat /\ r \in Nat
    <2>1. net'[t] \in Seq(Units)
      <3>1. net \in [Tours -> Seq(Units)]
        BY FlowTypes
      <3>2. net' \in [Tours -> Seq(Units)]
        BY <3>1, SetsIs
      <3> QED BY <3>2
    <2> QED BY <1>2, <2>1, CountType
  <1>9. ~gzip[t] => q = r + n /\ (q > 0 => n > 0)
    OBVIOUS
  <1> HIDE DEF q, r
  (* Only a file that is open is read again.                                *)
  <1>10. yes => file[t].state = "open" /\ c.available /\ ~file[t].reading
    BY <1>3, <1>6 DEF ResSide, FileSent
  <1>11. /\ Sets(file', file, t, Rudders) /\ file'[t].state = file[t].state
         /\ file'[t].reading <=> file[t].reading \/ yes
         /\ file[t].state = "none" => file'[t] = file[t]
    <2>1. CASE yes
      <3>1. file' = [file EXCEPT ![t] = f]
        BY <1>1, <2>1 DEF ReadFile
      <3>2. f \in Rudders /\ f.state = file[t].state /\ f.reading = TRUE
        BY <1>2, Updates
      <3> HIDE DEF f
      <3>3. Sets(file', file, t, Rudders) /\ file'[t] = f
        BY <1>2, <3>1, <3>2, SetsOne
      <3> QED BY <1>10, <2>1, <3>2, <3>3
    <2>2. CASE ~yes
      <3>1. file' = file
        BY <1>1, <2>2 DEF ReadFile, fileVars
      <3> QED BY <2>2, <3>1, SetsNone
    <2> QED BY <2>1, <2>2
  <1>12. /\ Sets(taxis', taxis, t, Passes) /\ lappers' \subseteq Tours
         /\ mpx = "taxi" => Outstanding(t)' = IF file'[t].reading THEN 1 ELSE 0
         /\ mpx = "spin" => taxis' = taxis
    <2>1. /\ Outstanding(t) = taxis[t] + Count(letters, Reads(t)) /\ Outstanding(t)' = taxis'[t] + Count(letters, Reads(t))
          /\ Count(letters, Reads(t)) \in Nat
      BY <1>1, <1>2, QueuedIs, QueuedNext, CountType
    <2>2. mpx = "taxi" => Outstanding(t) = IF file[t].reading THEN 1 ELSE 0
      BY <1>3 DEF ResSide, ReadOnce
    <2>3. CASE ~yes
      <3>1. taxis' = taxis /\ lappers' = lappers
        BY <1>1, <2>3 DEF ReadFile, fileVars
      <3> QED BY <1>2, <1>11, <2>1, <2>2, <2>3, <3>1, SetsNone
    <2>4. CASE yes /\ mpx = "taxi"
      <3>1. taxis' = [taxis EXCEPT ![t] = @ + 1] /\ lappers' = lappers
        BY <1>1, <2>4 DEF ReadFile
      <3>2. taxis[t] = 0 /\ Count(letters, Reads(t)) = 0
        BY <1>2, <1>10, <2>1, <2>2, <2>4 DEF Passes
      <3>3. taxis' = [taxis EXCEPT ![t] = 1] /\ 1 \in Passes
        BY <1>2, <3>1, <3>2 DEF Passes
      <3>4. Sets(taxis', taxis, t, Passes) /\ taxis'[t] = 1
        BY <1>2, <3>3, SetsOne
      <3> QED BY <1>2, <1>11, <2>1, <2>4, <3>1, <3>2, <3>4
    <2>5. CASE yes /\ mpx = "spin"
      <3>1. taxis' = taxis /\ lappers' = lappers \cup {t}
        BY <1>1, <2>5 DEF ReadFile
      <3> QED BY <1>2, <2>5, <3>1, SetsNone
    <2> QED BY <1>2, <2>3, <2>4, <2>5
  <1>13. file[t].state = "none" => res[t].posted = 0 /\ res[t].consumed = 0 /\ n = 0
    BY <1>3 DEF ResSide, FileSent
  <1>14. file[t].state # "none" /\ ~gzip[t] => res[t].posted = res[t].consumed + q
    BY <1>3, QueuedIs DEF ResSide, q
  <1>15. TypeOK' /\ Aside(t)
    <2>1. Sets(req', req, t, Counts) /\ Sets(backend', backend, t, Seq(Parts))
      BY <1>1, SetsNone
    <2>2. alive' \in BOOLEAN /\ letters' \in Seq(LetterSet) /\ failed' \subseteq Tours /\ req'[t].consumed <= req'[t].posted
      BY <1>1, FlowTypes
    <2>3. ~gzip[t] => res'[t].consumed <= res'[t].posted
      BY <1>4, <1>5, <1>7, <1>8, <1>9, <1>13, <1>14
    <2> QED BY <1>1, <1>7, <1>11, <1>12, <2>1, <2>2, <2>3, StepTypes
  <1>16. Spins'
    BY <1>1, <1>12 DEF FlowInv, Spins, given
  <1>17. ReqSide(t)'
    <2>1. Incomplete(t)' => Incomplete(t)
      BY <1>1, <1>11 DEF Incomplete, given
    <2> QED BY <1>1, <2>1, ReqKept
  <1>18. ResSide(t)'
    <2>1. gzip' = gzip /\ mpx' = mpx /\ Queued(t)' = r
      BY <1>1, QueuedNext DEF given, r
    <2>2. file[t].state # "none" /\ c.available => res[t].posted < res[t].consumed + n + Buffer
      <3>1. file[t].state # "none" /\ res[t].available => res[t].posted < res[t].consumed + Buffer
        BY <1>3 DEF ResSide, FileSent, Room
      <3> QED BY <1>4, <1>5, <3>1
    <2>3. FileSent(t)'
      <3>1. file'[t].state = "none" => /\ file'[t] = NoFile /\ res'[t].posted = 0 /\ res'[t].consumed = 0
                                       /\ \A i \in DOMAIN net'[t] : net'[t][i] = "end"
        <4>1. file[t].state = "none" => file[t] = NoFile /\ \A i \in DOMAIN net[t] : net[t][i] = "end"
          BY <1>3 DEF ResSide, FileSent
        <4> QED BY <1>5, <1>7, <1>11, <1>13, <4>1
      <3>2. /\ file'[t].state = "open" => state'[t] \in {"reading", "running"}
            /\ state'[t] \in {"reading", "running"} => \A i \in DOMAIN net'[t] : net'[t][i] # "end"
            /\ ~gzip'[t] => \A i \in DOMAIN net'[t] : net'[t][i] # "part"
        BY <1>3, <1>11, <2>1 DEF ResSide, FileSent
      <3>3. /\ file'[t].reading \/ file'[t].state \in {"closing", "closed"} => res'[t].available
            /\ file'[t].reading => file'[t].state = "open"
        BY <1>3, <1>5, <1>7, <1>10, <1>11 DEF ResSide, FileSent
      <3>4. file'[t].state # "none" /\ res'[t].available => Room(res'[t])
        BY <1>5, <1>7, <1>11, <2>2 DEF Room
      <3>5. Told(letters, t)' => file'[t].state \in {"closing", "closed"}
        BY <1>1, <1>3, <1>11 DEF ResSide, FileSent
      <3> QED BY <3>1, <3>2, <3>3, <3>4, <3>5 DEF FileSent
    <2>4. file'[t].state # "none" /\ ~gzip'[t] => res'[t].posted = res'[t].consumed + r
      <3> SUFFICES ASSUME file[t].state # "none", ~gzip[t] PROVE c.posted = c.consumed + r
        BY <1>7, <1>11, <2>1
      <3>1. res[t].posted = res[t].consumed + q /\ q = r + n
        BY <1>9, <1>14
      <3> QED BY <1>4, <1>5, <1>8, <3>1
    <2>5. file'[t].state # "none" /\ ~gzip[t] => (c.available <=> r < Buffer)
      <3> SUFFICES ASSUME file[t].state # "none", ~gzip[t] PROVE c.available <=> r < Buffer
        BY <1>11
      <3>1. res[t].posted = res[t].consumed + n + r
        BY <1>4, <1>8, <1>9, <1>14
      <3>2. c.available <=> res[t].posted < res[t].consumed + n + Buffer
        BY <1>5, <2>2
      <3> QED BY <1>4, <1>8, <3>1, <3>2
    <2>6. (mpx = "taxi" /\ alive)' => ReadOnce(t)'
      <3>1. file'[t].reading => file'[t].state = "open" /\ c.available
        BY <1>7, <2>3 DEF FileSent
      <3> QED BY <1>12, <2>1, <2>5, <3>1 DEF ReadOnce
    <2>7. ASSUME file'[t].state = "open", ~file'[t].reading, Listens(t)', ~gzip'[t]
          PROVE  ~c.available /\ r > 0
      <3>1. file[t].state = "open" /\ ~file[t].reading /\ ~yes /\ Listens(t) /\ ~gzip[t]
        BY <1>11, <2>1, <2>7 DEF Listens
      <3>2. ~res[t].available /\ q > 0
        BY <1>3, <3>1, QueuedIs DEF ResSide, q
      <3>3. ~c.available
        BY <1>6, <1>9, <3>1, <3>2
      <3>4. ~(r < Buffer)
        BY <1>11, <2>5, <3>1, <3>3
      <3> QED BY <1>4, <1>8, <3>3, <3>4
    <2> QED BY <1>7, <2>1, <2>3, <2>4, <2>6, <2>7 DEF ResSide
  <1> QED BY <1>15, <1>16, <1>17, <1>18, Together

(* The network writes the oldest unit.                                     *)
LEMMA NetWritesKeeps ==
  ASSUME FlowInv, NEW t \in Tours, NetWrites(t)
  PROVE  FlowInv'
  <1> DEFINE b == Tail(net[t])
  <1>1. /\ alive /\ net[t] # <<>> /\ net' = [net EXCEPT ![t] = b]
        /\ UNCHANGED <<alive, given, req, conn, backend, letters, failed>>
    BY DEF NetWrites
  <1>2. net \in [Tours -> Seq(Units)] /\ net[t] \in Seq(Units) /\ state \in [Tours -> States]
    BY FlowTypes
  <1>3. ResSide(t)
    BY FlowTypes, Sides
  <1>4. /\ b \in Seq(Units) /\ \A i \in DOMAIN b : \E j \in DOMAIN net[t] : b[i] = net[t][j]
        /\ 1 \in DOMAIN net[t] /\ Head(net[t]) = net[t][1] /\ net[t][1] \in Units
    BY <1>1, <1>2
  <1>5. /\ Count(net[t], {"chunk"}) \in Nat
        /\ Count(b, {"chunk"}) = IF Head(net[t]) \in {"chunk"} THEN Count(net[t], {"chunk"}) - 1 ELSE Count(net[t], {"chunk"})
    BY <1>1, <1>2, CountType, CountTail
  <1> HIDE DEF b
  <1>6. Sets(net', net, t, Seq(Units)) /\ net'[t] = b
    BY <1>1, <1>2, <1>4, SetsOne
  <1>7. Sets(conn', conn, t, Conns) /\ conn' = conn
    BY <1>1, SetsNone
  <1>8. CASE Head(net[t]) = "end"
    <2>1. state' = [state EXCEPT ![t] = "returned"] /\ res' = res /\ file' = file /\ taxis' = taxis /\ lappers' = lappers
      BY <1>8 DEF NetWrites, fileVars
    <2>2. "returned" \in States
      BY DEF States
    <2>3. Sets(state', state, t, States) /\ state'[t] = "returned"
      BY <1>2, <2>1, <2>2, SetsOne
    <2>4. file[t].state # "open"
      BY <1>3, <1>4, <1>8 DEF ResSide, FileSent
    <2>5. Spins'
      BY <1>1, <2>1 DEF FlowInv, Spins, given
    <2>6. ResSide(t)'
      <3>1. /\ gzip' = gzip /\ mpx' = mpx /\ alive' = alive /\ letters' = letters
            /\ Queued(t)' = Queued(t) /\ Outstanding(t)' = Outstanding(t)
        BY <1>1, <1>5, <1>6, <1>8, <2>1, QueuedIs, QueuedNext DEF given
      <3>2. FileSent(t)'
        BY <1>3, <1>4, <1>6, <2>1, <2>3, <2>4, <3>1 DEF ResSide, FileSent
      <3>3. (mpx = "taxi" /\ alive)' => ReadOnce(t)'
        BY <1>3, <2>1, <3>1 DEF ResSide, ReadOnce
      <3> QED BY <1>3, <2>1, <2>4, <3>1, <3>2, <3>3 DEF ResSide
    <2>7. /\ Sets(res', res, t, Counts) /\ Sets(file', file, t, Rudders) /\ Sets(taxis', taxis, t, Passes)
      BY <2>1, SetsNone
    <2>8. /\ alive' \in BOOLEAN /\ lappers' \subseteq Tours /\ letters' \in Seq(LetterSet) /\ failed' \subseteq Tours
          /\ ~gzip[t] => res'[t].consumed <= res'[t].posted
      BY <1>1, <2>1, FlowTypes
    <2> QED BY <1>1, <1>6, <2>1, <2>3, <2>5, <2>6, <2>7, <2>8, FileStep
  <1>9. CASE Head(net[t]) # "end"
    <2>1. Reports(t, 1) /\ state' = state
      BY <1>9 DEF NetWrites
    <2>2. Sets(state', state, t, States) /\ state'[t] = state[t]
      BY <2>1, SetsNone
    <2>3. file[t].state # "none"
      BY <1>3, <1>4, <1>9 DEF ResSide, FileSent
    <2>4. ~gzip[t] => /\ Count(net[t], {"chunk"}) = Count(net'[t], {"chunk"}) + 1
                      /\ Count(net[t], {"chunk"}) > 0 => 1 > 0
      <3>1. ~gzip[t] => Head(net[t]) = "chunk"
        BY <1>3, <1>4, <1>9 DEF ResSide, FileSent, Units
      <3> QED BY <1>5, <1>6, <3>1
    <2> HIDE DEF Reports
    <2>5. \A i \in DOMAIN net'[t] : \E j \in DOMAIN net[t] : net'[t][i] = net[t][j]
      BY <1>4, <1>6
    <2> QED BY <1>1, <1>6, <1>7, <2>1, <2>2, <2>3, <2>4, <2>5, ReportsKeep
  <1> QED BY <1>8, <1>9

(* The connection closes: all that was queued is reported at once.         *)
LEMMA DisconnectKeeps ==
  ASSUME FlowInv, NEW t \in Tours, Disconnect(t)
  PROVE  FlowInv'
  <1> DEFINE n == Drained(t)
             gone == Abortable(t) \/ "end" \in {net[t][i] : i \in DOMAIN net[t]}
             c == [open |-> FALSE, reading |-> FALSE]
  <1>1. /\ alive /\ conn' = [conn EXCEPT ![t] = c] /\ net' = [net EXCEPT ![t] = <<>>] /\ Reports(t, n)
        /\ state' = IF gone THEN [state EXCEPT ![t] = "returned"] ELSE state
        /\ UNCHANGED <<alive, given, req, backend, letters, failed>>
    BY DEF Disconnect
  <1>2. /\ net \in [Tours -> Seq(Units)] /\ net[t] \in Seq(Units) /\ state \in [Tours -> States]
        /\ conn \in [Tours -> Conns]
    BY FlowTypes
  <1>3. ResSide(t)
    BY FlowTypes, Sides
  <1>4. n = Count(net[t], {"chunk", "part"})
    <2>1. \A i \in DOMAIN net[t] : net[t][i] \in Units
      BY <1>2
    <2>2. {i \in DOMAIN net[t] : net[t][i] # "end"} = {i \in DOMAIN net[t] : net[t][i] \in {"chunk", "part"}}
      BY <2>1 DEF Units
    <2> QED BY <2>2 DEF Drained, Count
  <1>5. n \in Nat /\ (file[t].state = "none" => n = 0)
    <2>1. /\ Count(net[t], {"chunk", "part"}) \in Nat
          /\ Count(net[t], {"chunk", "part"}) = 0 <=> \A i \in DOMAIN net[t] : net[t][i] \notin {"chunk", "part"}
      BY <1>2, CountType
    <2> HIDE DEF n
    <2> QED BY <1>3, <1>4, <2>1 DEF ResSide, FileSent
  <1>6. ~gzip[t] => n = Count(net[t], {"chunk"})
    <2> SUFFICES ASSUME ~gzip[t] PROVE Count(net[t], {"chunk", "part"}) = Count(net[t], {"chunk"})
      BY <1>4
    <2>1. \A i \in DOMAIN net[t] : net[t][i] # "part"
      BY <1>3 DEF ResSide, FileSent
    <2>2. {i \in DOMAIN net[t] : net[t][i] \in {"chunk", "part"}} = {i \in DOMAIN net[t] : net[t][i] \in {"chunk"}}
      BY <2>1
    <2> QED BY <2>2 DEF Count
  <1>7. Sets(net', net, t, Seq(Units)) /\ net'[t] = <<>>
    <2>1. <<>> \in Seq(Units)
      OBVIOUS
    <2> QED BY <1>1, <1>2, <2>1, SetsOne
  <1>8. Sets(conn', conn, t, Conns) /\ conn'[t] = c
    <2>1. c \in Conns /\ conn' = [conn EXCEPT ![t] = c]
      BY <1>1 DEF Conns
    <2> HIDE DEF c
    <2> QED BY <1>2, <2>1, SetsOne
  <1>9. /\ Sets(state', state, t, States) /\ (state'[t] = state[t] \/ state'[t] = "returned")
        /\ file[t].state = "open" => state'[t] = state[t]
    <2>1. file[t].state = "open" => ~gone
      BY <1>3 DEF ResSide, FileSent, Abortable
    <2> HIDE DEF gone
    <2>2. CASE gone
      <3>1. state' = [state EXCEPT ![t] = "returned"] /\ "returned" \in States
        BY <1>1, <2>2 DEF States
      <3>2. Sets(state', state, t, States) /\ state'[t] = "returned"
        BY <1>2, <3>1, SetsOne
      <3> QED BY <2>1, <2>2, <3>2
    <2>3. CASE ~gone
      BY <1>1, <2>3, SetsNone
    <2> QED BY <2>2, <2>3
  <1>10. Count(net'[t], {"chunk"}) = 0 /\ Count(net[t], {"chunk"}) \in Nat
    <2>1. <<>> \in Seq(Units) /\ \A i \in DOMAIN <<>> : <<>>[i] \notin {"chunk"}
      OBVIOUS
    <2>2. Count(<<>>, {"chunk"}) = 0
      BY <2>1, CountType
    <2>3. Count(net[t], {"chunk"}) \in Nat
      BY <1>2, CountType
    <2> QED BY <1>7, <2>2, <2>3
  <1> HIDE DEF n
  <1>11. ~gzip[t] => /\ Count(net[t], {"chunk"}) = Count(net'[t], {"chunk"}) + n
                     /\ Count(net[t], {"chunk"}) > 0 => n > 0
    BY <1>5, <1>6, <1>10
  <1>12. conn'[t].open => conn'[t] = conn[t]
    BY <1>8
  <1>13. \A i \in DOMAIN net'[t] : \E j \in DOMAIN net[t] : net'[t][i] = net[t][j]
    BY <1>7
  <1> QED BY <1>1, <1>5, <1>7, <1>8, <1>9, <1>11, <1>12, <1>13, ReportsKeep

(* The invariant holds at first.                                           *)
LEMMA FlowInit ==
  ASSUME Init
  PROVE  FlowInv
  <1>1. alive = TRUE /\ mpx \in {"taxi", "spin"} /\ kind \in [Tours -> Kinds] /\ gzip \in [Tours -> BOOLEAN]
        /\ letters = <<>> /\ failed = {} /\ lappers \subseteq Tours
    BY DEF Init
  <1>2. FileLen \in Nat /\ Buffer \in Nat /\ Buffer > 0
    BY Numbers
  <1>3. state \in [Tours -> {"reading", "running", "ended", "returned"}]
    BY DEF Init
  <1>4. req \in [Tours -> Counts] /\ res \in [Tours -> Counts]
    <2>1. \A t \in Tours : [posted |-> 0, consumed |-> 0, available |-> kind[t] \in WithBody] \in Counts
      BY DEF Counts
    <2>2. \A t \in Tours : [posted |-> 0, consumed |-> 0, available |-> kind[t] = "get"] \in Counts
      BY DEF Counts
    <2> QED BY <2>1, <2>2 DEF Init
  <1>5. conn \in [Tours -> [open : BOOLEAN, reading : BOOLEAN]]
    <2>1. \A t \in Tours : [open |-> TRUE, reading |-> kind[t] \in WithBody] \in [open : BOOLEAN, reading : BOOLEAN]
      OBVIOUS
    <2> QED BY <2>1 DEF Init
  <1>6. backend \in [Tours -> Seq(Parts)] /\ net \in [Tours -> Seq({"chunk", "part", "end"})]
    BY DEF Init
  <1>7. OpenFile \in Rudders /\ NoFile \in Rudders
    BY <1>2 DEF OpenFile, NoFile, Rudders
  <1>8. file \in [Tours -> Rudders] /\ taxis \in [Tours -> 0 .. 1]
    BY <1>7 DEF Init
  <1>9. \A t \in Tours :
          /\ req[t].posted = 0 /\ req[t].consumed = 0 /\ (req[t].available <=> kind[t] \in WithBody)
          /\ res[t].posted = 0 /\ res[t].consumed = 0 /\ (res[t].available <=> kind[t] = "get")
          /\ conn[t].open /\ (conn[t].reading <=> kind[t] \in WithBody)
          /\ backend[t] = <<>> /\ net[t] = <<>>
          /\ state[t] = IF kind[t] \in WithBody THEN "reading" ELSE "running"
          /\ file[t] = IF kind[t] = "get" THEN OpenFile ELSE NoFile
          /\ taxis[t] = IF kind[t] = "get" /\ mpx = "taxi" THEN 1 ELSE 0
    BY DEF Init
  <1>10. TypeOK
    <2>1. \A t \in Tours : req[t].consumed <= req[t].posted /\ (~gzip[t] => res[t].consumed <= res[t].posted)
      BY <1>9
    <2>2. alive \in BOOLEAN /\ lappers \subseteq Tours /\ failed \subseteq Tours
          /\ letters \in Seq({"read", "eof", "ioerror", "fatal", "closed"} \X Tours)
      BY <1>1
    <2> QED BY <1>1, <1>3, <1>4, <1>5, <1>6, <1>8, <2>1, <2>2, Zenon DEF TypeOK, Rudders
  <1>11. Spins
    BY <1>1, <1>9 DEF Spins
  <1>12. ASSUME NEW t \in Tours PROVE TourInv(t)
    <2>1. Queued(t) = 0 /\ Outstanding(t) = taxis[t]
      <3>1. /\ <<>> \in Seq(Units) /\ <<>> \in Seq(LetterSet) /\ \A i \in DOMAIN <<>> : <<>>[i] \notin {"chunk"}
            /\ \A i \in DOMAIN <<>> : <<>>[i] \notin Reads(t)
        OBVIOUS
      <3>2. Count(<<>>, {"chunk"}) = 0 /\ Count(<<>>, Reads(t)) = 0
        BY <3>1, CountType
      <3>3. taxis[t] \in Int
        BY <1>9
      <3> QED BY <1>1, <1>9, <3>2, <3>3, QueuedIs
    <2>2. Reported(t)
      BY <1>9, <2>1 DEF Reported, WaitsInOrder, InOrder
    <2>3. file[t] = (IF kind[t] = "get" THEN [state |-> "open", reading |-> TRUE, left |-> FileLen]
                     ELSE [state |-> "none", reading |-> FALSE, left |-> 0])
      BY <1>9 DEF OpenFile, NoFile
    <2>4. WillBeResumed(t)
      BY <1>9, <2>3 DEF WillBeResumed, Incomplete
    <2>5. BodyWaits(t)
      BY <1>9 DEF BodyWaits
    <2>6. FileSent(t)
      <3>1. ~Told(letters, t)
        BY <1>1 DEF Told
      <3>2. Room(res[t])
        BY <1>2, <1>9 DEF Room
      <3> QED BY <1>9, <2>3, <3>1, <3>2 DEF FileSent, NoFile, WithBody
    <2>7. mpx = "taxi" => ReadOnce(t)
      BY <1>2, <1>9, <2>1, <2>3 DEF ReadOnce
    <2> QED BY <2>2, <2>4, <2>5, <2>6, <2>7 DEF TourInv
  <1> QED BY <1>10, <1>11, <1>12 DEF FlowInv

(* Every step keeps it.                                                    *)
LEMMA FlowStep ==
  ASSUME FlowInv, [Next]_vars
  PROVE  FlowInv'
  <1>1. CASE UNCHANGED vars
    <2>1. /\ UNCHANGED given /\ alive' = alive /\ state' = state /\ req' = req /\ res' = res /\ conn' = conn
          /\ backend' = backend /\ net' = net /\ file' = file /\ taxis' = taxis /\ lappers' = lappers
          /\ letters' = letters /\ failed' = failed /\ mpx' = mpx /\ kind' = kind /\ gzip' = gzip
      BY <1>1 DEF vars, given
    <2>2. TypeOK' /\ Spins'
      BY <2>1 DEF FlowInv, TypeOK, Spins
    <2>3. ASSUME NEW t \in Tours PROVE TourInv(t)'
      <3>1. ReqSide(t)'
        BY <2>1, ReqKept DEF Incomplete
      <3>2. ResSide(t)'
        BY <2>1, ResKept
      <3> QED BY <3>1, <3>2, SidesNext
    <2> QED BY <2>2, <2>3 DEF FlowInv
  <1>2. ASSUME NEW t \in Tours,
               \/ Body(t) \/ TaxiReads(t) \/ Agent(t) \/ BodyConsumed(t) \/ NetWrites(t)
               \/ TaxiFails(t) \/ Grows(t) \/ Disconnect(t)
        PROVE  FlowInv'
    <2>1. CASE Body(t)
      <3>1. PICK n \in 1 .. MaxChunk :
               BodyOfRefused(t, n) \/ BodyTooLong(t, n) \/ BodyOfPost(t, n) \/ BodyOfLate(t, n)
        BY <2>1 DEF Body
      <3> QED BY <3>1, BodyOfRefusedKeeps, BodyTooLongKeeps, BodyOfPostKeeps, BodyOfLateKeeps
    <2>2. CASE TaxiReads(t)
      BY <2>2, TaxiReadsKeeps
    <2>3. CASE Agent(t)
      <3>1. CASE Lap(t)
        BY <3>1, LapKeeps
      <3>2. CASE OnRead(t)
        BY <3>2, OnReadKeeps
      <3>3. CASE OnReadTooMuch(t)
        <4>1. /\ Handles("read", t) /\ alive' = FALSE
              /\ UNCHANGED <<given, state, req, res, conn, backend, net, fileVars, failed>>
          BY <3>3 DEF OnReadTooMuch
        <4> QED BY <4>1, DiesKeeps
      <3>4. CASE OnEof(t)
        BY <3>4, OnEofKeeps
      <3>5. CASE OnIOError(t)
        BY <3>5, OnIOErrorKeeps
      <3>6. CASE OnFatal(t)
        <4>1. /\ Handles("fatal", t) /\ alive' = FALSE
              /\ UNCHANGED <<given, state, req, res, conn, backend, net, fileVars, failed>>
          BY <3>6 DEF OnFatal
        <4> QED BY <4>1, DiesKeeps
      <3>7. CASE OnClosed(t)
        BY <3>7, OnClosedKeeps
      <3> QED BY <2>3, <3>1, <3>2, <3>3, <3>4, <3>5, <3>6, <3>7 DEF Agent
    <2>4. CASE BodyConsumed(t)
      BY <2>4, BodyConsumedKeeps
    <2>5. CASE NetWrites(t)
      BY <2>5, NetWritesKeeps
    <2>6. CASE TaxiFails(t)
      BY <2>6, TaxiFailsKeeps
    <2>7. CASE Grows(t)
      BY <2>7, GrowsKeeps
    <2>8. CASE Disconnect(t)
      BY <2>8, DisconnectKeeps
    <2> QED BY <1>2, <2>1, <2>2, <2>3, <2>4, <2>5, <2>6, <2>7, <2>8
  <1> QED BY <1>1, <1>2 DEF Next

(* The invariant holds in every reachable state.                           *)
LEMMA FlowAlways == Spec => []FlowInv
  <1>1. Init => FlowInv
    BY FlowInit
  <1>2. FlowInv /\ [Next]_vars => FlowInv'
    BY FlowStep
  <1> QED BY <1>1, <1>2, PTL DEF Spec

(* However bodies are posted, reported and cut off, what was posted and has *)
(* not been reported is what waits, and a file is read by one worker at a   *)
(* time, only while it is open and its tour's buffer has room.              *)
THEOREM TransfersAccounted == Spec => []Accounted
  <1>1. FlowInv => Accounted
    BY DEF FlowInv, TourInv, Accounted, ReportedOnce, OneReader
  <1> QED BY <1>1, FlowAlways, PTL

(* A client or a file that is suspended has something in a queue whose      *)
(* report resumes it: no order of reports, letters and closes loses the     *)
(* resumption.                                                              *)
THEOREM NobodyIsForgotten == Spec => []NoLostResume
  <1>1. FlowInv => NoLostResume
    BY DEF FlowInv, TourInv, NoLostResume
  <1> QED BY <1>1, FlowAlways, PTL
=============================================================================
