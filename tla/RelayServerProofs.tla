-------------------------- MODULE RelayServerProofs --------------------------
(***************************************************************************)
(* Safety of the relay server's threads, of RelayServer: where every       *)
(* datagram is, what the decoders get, and what a stop that comes too      *)
(* early leads to.                                                         *)
(***************************************************************************)
EXTENDS RelayServer, FiniteSetTheorems, SequenceTheorems, TLAPS

\* The datagrams that were kept, in the order of their places.
Kept == handled \o batch \o dataList

\* Only while it handles datagrams has the sender any in hand.
HandsEmpty == spc # "handle" => batch = <<>>

Nodes == [addr : Clients, chan : Chans, since : Nat, got : Seq(Nat)]

Increasing(s) == \A m, n \in DOMAIN s : m < n => s[m] < s[n]

\* What DataAfter is for datagrams r of which those of H have been handled.
DataOf(r, H, n, k) == {m \in H : /\ m > n /\ r[m].type = "data"
                                 /\ SelfMode \/ r[m].chan = k}

\* What the m-th of nodes has got then: some datagrams of H, in their order; all
\* the data if the session is open; and only what its predecessors have got.
Gets(nodes, m, r, H, open) ==
  /\ nodes[m].since \in H /\ ToSet(nodes[m].got) \subseteq H
  /\ open => ToSet(nodes[m].got) = DataOf(r, H, nodes[m].since, nodes[m].chan)
  /\ Increasing(nodes[m].got)
  /\ \A l \in 1 .. m - 1 : nodes[l].chan = nodes[m].chan =>
       ToSet(nodes[m].got) \subseteq ToSet(nodes[l].got)

DecodersGet ==
  /\ decoders \in Seq(Nodes)
  /\ \A m \in DOMAIN decoders :
       Gets(decoders, m, recvd, ToSet(handled), ~sendFailed /\ status = 1)

DataInv == TypeOK /\ HandsEmpty /\ OnePlaceInOrder /\ DecodersGet

\* The sender has not run yet or is at work.
SenderRuns == \/ spc \in {"none", "created"} /\ sendStatus = 0
              \/ spc \in {"pop", "handle", "test"} /\ sendStatus = 1

\* Until StopSend the sender is not over, and after one that overtook it
\* neither, so that the receiver never gets past WaitSend.
StopLost ==
  /\ rpc \in {"create send", "create broadcast", "receive", "exit recv",
              "stop send"} => SenderRuns
  /\ rpc = "create send" => spc = "none"
  /\ overtook => SenderRuns /\ rpc \in {"stop broadcast", "wait send"}

IInv == DataInv /\ StopLost

-----------------------------------------------------------------------------
(* Sequences. *)

LEMMA ToSetAppend ==
  ASSUME NEW S, NEW s \in Seq(S), NEW e \in S
  PROVE  ToSet(Append(s, e)) = ToSet(s) \cup {e}
<1>1. /\ DOMAIN s = 1 .. Len(s) /\ DOMAIN Append(s, e) = 1 .. Len(s) + 1
      /\ Len(s) \in Nat
  BY LenProperties, AppendProperties
<1>2. /\ \A i \in 1 .. Len(s) : Append(s, e)[i] = s[i]
      /\ Append(s, e)[Len(s) + 1] = e
  BY AppendProperties
<1>3. 1 .. Len(s) + 1 = (1 .. Len(s)) \cup {Len(s) + 1}  BY <1>1
<1> QED BY <1>1, <1>2, <1>3 DEF ToSet

LEMMA IncreasingAppend ==
  ASSUME NEW s \in Seq(Nat), NEW e \in Nat, Increasing(s),
         \A x \in ToSet(s) : x < e
  PROVE  Increasing(Append(s, e))
<1>1. /\ DOMAIN s = 1 .. Len(s) /\ DOMAIN Append(s, e) = 1 .. Len(s) + 1
      /\ Len(s) \in Nat
  BY LenProperties, AppendProperties
<1>2. /\ \A i \in 1 .. Len(s) : Append(s, e)[i] = s[i]
      /\ Append(s, e)[Len(s) + 1] = e
  BY AppendProperties
<1>3. \A i \in 1 .. Len(s) : s[i] < e  BY <1>1 DEF ToSet
<1> SUFFICES ASSUME NEW m \in 1 .. Len(s) + 1, NEW n \in 1 .. Len(s) + 1, m < n
             PROVE  Append(s, e)[m] < Append(s, e)[n]
  BY <1>1 DEF Increasing
<1>4. m \in 1 .. Len(s)  BY <1>1
<1>5. CASE n = Len(s) + 1  BY <1>2, <1>3, <1>4, <1>5
<1>6. CASE n # Len(s) + 1
  <2>1. n \in 1 .. Len(s)  BY <1>1, <1>6
  <2> QED BY <1>1, <1>2, <1>4, <2>1 DEF Increasing
<1> QED BY <1>5, <1>6

\* The first of the datagrams in hand comes after all that were handled, and
\* it does not matter to the order in which place it is.
FirstInHand(h, b, l) ==
  /\ Append(h, Head(b)) \o Tail(b) \o l = h \o b \o l
  /\ Len(h) + 1 \in DOMAIN (h \o b \o l)
  /\ (h \o b \o l)[Len(h) + 1] = Head(b)
  /\ \A i \in DOMAIN h : i \in DOMAIN (h \o b \o l) /\ (h \o b \o l)[i] = h[i]

LEMMA HandNext ==
  ASSUME NEW S, NEW h \in Seq(S), NEW b \in Seq(S), NEW l \in Seq(S), b # <<>>
  PROVE  FirstInHand(h, b, l)
<1>1. Head(b) \in S /\ Tail(b) \in Seq(S) /\ <<Head(b)>> \in Seq(S)
  BY HeadTailProperties
<1>2. <<Head(b)>> \o Tail(b) = b
  <2>1. Len(b) \in Nat \ {0} /\ DOMAIN b = 1 .. Len(b)
    BY EmptySeq, LenProperties
  <2>2. SubSeq(b, 1, Len(b)) = <<b[1]>> \o SubSeq(b, 2, Len(b))
    BY <2>1, SubSeqRecursiveFirst
  <2>3. SubSeq(b, 1, Len(b)) = b /\ SubSeq(b, 2, Len(b)) = Tail(b)
    BY SubSeqFull, TailIsSubSeq
  <2> QED BY <2>2, <2>3
<1>3. Append(h, Head(b)) = h \o <<Head(b)>>  BY <1>1, AppendIsConcat
<1>4. (h \o <<Head(b)>>) \o Tail(b) = h \o (<<Head(b)>> \o Tail(b))
  BY <1>1, ConcatAssociative, SMTT(30)
<1>5. Append(h, Head(b)) \o Tail(b) = h \o b  BY <1>2, <1>3, <1>4, Zenon
<1>6. /\ h \o b \in Seq(S) /\ Len(h \o b) = Len(h) + Len(b)
      /\ \A i \in 1 .. Len(h) + Len(b) :
           (h \o b)[i] = IF i <= Len(h) THEN h[i] ELSE b[i - Len(h)]
  BY ConcatProperties, Zenon
<1>7. /\ (h \o b) \o l \in Seq(S) /\ Len((h \o b) \o l) = Len(h \o b) + Len(l)
      /\ \A i \in 1 .. Len(h \o b) + Len(l) :
           ((h \o b) \o l)[i] = IF i <= Len(h \o b) THEN (h \o b)[i] ELSE l[i - Len(h \o b)]
  <2>1. h \o b \in Seq(S)  BY <1>6
  <2> QED BY <2>1, ConcatProperties, Zenon
<1>8. /\ Len(h) \in Nat /\ Len(b) \in Nat \ {0} /\ Len(l) \in Nat
      /\ DOMAIN h = 1 .. Len(h)
      /\ DOMAIN ((h \o b) \o l) = 1 .. Len((h \o b) \o l)
  BY <1>7, EmptySeq, LenProperties
<1>9. Head(b) = b[1]  OBVIOUS
<1> QED BY <1>5, <1>6, <1>7, <1>8, <1>9, SMTT(30) DEF FirstInHand

-----------------------------------------------------------------------------
(* What the decoders get. *)

LEMMA TurnMonotonic ==
  ASSUME NEW k, NEW l \in Nat, NEW m \in Nat, l <= m
  PROVE  Turn(l, k) \in Nat /\ Turn(m, k) \in Nat /\ Turn(l, k) <= Turn(m, k)
<1> DEFINE upto(j) == {i \in 1 .. j : IsFor(decoders[i], k)}
<1>1. IsFiniteSet(1 .. m)  BY FS_Interval
<1>2. upto(m) \subseteq 1 .. m /\ upto(l) \subseteq upto(m)  OBVIOUS
<1>3. IsFiniteSet(upto(m))  BY <1>1, <1>2, FS_Subset
<1>4. IsFiniteSet(upto(l)) /\ Cardinality(upto(l)) <= Cardinality(upto(m))
  BY <1>2, <1>3, FS_Subset
<1>5. Cardinality(upto(l)) \in Nat /\ Cardinality(upto(m)) \in Nat
  BY <1>3, <1>4, FS_CardinalityType
<1> QED BY <1>4, <1>5 DEF Turn

\* A registration, or whatever else is not data, changes nothing for the nodes
\* there are.
LEMMA NoData ==
  ASSUME NEW nodes \in Seq(Nodes), NEW m \in DOMAIN nodes, NEW new,
         \A l \in 1 .. m : new[l] = nodes[l],
         NEW r, NEW H \in SUBSET Nat, NEW n \in Nat, \A x \in H : x < n,
         NEW was, NEW open, open => was /\ r[n].type # "data",
         Gets(nodes, m, r, H, was)
  PROVE  Gets(new, m, r, H \cup {n}, open)
<1>1. m \in 1 .. Len(nodes) /\ Len(nodes) \in Nat  BY LenProperties
<1>2. new[m] = nodes[m] /\ \A l \in 1 .. m - 1 : new[l] = nodes[l]  BY <1>1
<1>3. r[n].type # "data" =>
        DataOf(r, H \cup {n}, nodes[m].since, nodes[m].chan)
          = DataOf(r, H, nodes[m].since, nodes[m].chan)
  <2> DEFINE s == nodes[m].since  k == nodes[m].chan
  <2> HIDE DEF s, k
  <2>1. r[n].type # "data" => DataOf(r, H \cup {n}, s, k) = DataOf(r, H, s, k)
    BY DEF DataOf
  <2> QED BY <2>1 DEF s, k
<1>4. Gets(new, m, r, H, was)  BY <1>1, <1>2 DEF Gets
<1> QED BY <1>2, <1>3, <1>4 DEF Gets

\* A node that is new has got nothing, and there is nothing yet for it.
LEMMA NewNode ==
  ASSUME NEW nodes, NEW m, nodes[m].got = <<>>,
         NEW r, NEW H \in SUBSET Nat, NEW n \in Nat, \A x \in H : x < n,
         nodes[m].since = n, NEW open
  PROVE  Gets(nodes, m, r, H \cup {n}, open)
<1>1. ToSet(nodes[m].got) = {} /\ DOMAIN nodes[m].got = {}  BY DEF ToSet
<1>2. DataOf(r, H \cup {n}, n, nodes[m].chan) = {}
  <2>1. ASSUME NEW x \in Nat, x < n PROVE ~(x > n)  BY <2>1
  <2>2. ~(n > n)  OBVIOUS
  <2>3. \A x \in H : x \in Nat /\ x < n  OBVIOUS
  <2> QED BY <2>1, <2>2, <2>3, Zenon DEF DataOf
<1> QED BY <1>1, <1>2 DEF Gets, Increasing

\* Data reaches the nodes it is for, up to some node; it reaches all of them if
\* the session is open.
LEMMA DataSent ==
  ASSUME NEW nodes \in Seq(Nodes), NEW m \in DOMAIN nodes, NEW new,
         NEW r, NEW H \in SUBSET Nat, NEW n \in Nat, \A x \in H : x < n,
         NEW Sent, \A l \in DOMAIN nodes : new[l] =
           IF l \in Sent THEN [nodes[l] EXCEPT !.got = Append(@, n)] ELSE nodes[l],
         r[n].type = "data",
         NEW was, NEW open, open => was,
         m \in Sent => SelfMode \/ nodes[m].chan = r[n].chan,
         open /\ (SelfMode \/ nodes[m].chan = r[n].chan) => m \in Sent,
         m \in Sent => \A l \in 1 .. m - 1 : nodes[l].chan = nodes[m].chan => l \in Sent,
         \A l \in DOMAIN nodes : Gets(nodes, l, r, H, was)
  PROVE  Gets(new, m, r, H \cup {n}, open)
<1>1. m \in 1 .. Len(nodes) /\ Len(nodes) \in Nat /\ DOMAIN nodes = 1 .. Len(nodes)
  BY LenProperties
<1>2. ASSUME NEW l \in 1 .. m
      PROVE  /\ new[l].since = nodes[l].since /\ new[l].chan = nodes[l].chan
             /\ ToSet(new[l].got) =
                  IF l \in Sent THEN ToSet(nodes[l].got) \cup {n} ELSE ToSet(nodes[l].got)
             /\ Increasing(new[l].got)
  <2>1. l \in DOMAIN nodes /\ nodes[l] \in Nodes  BY <1>1
  <2>2. nodes[l].got \in Seq(Nat)  BY <2>1 DEF Nodes
  <2>3. Increasing(nodes[l].got) /\ \A x \in ToSet(nodes[l].got) : x < n
    BY <2>1 DEF Gets
  <2>4. CASE l \in Sent
    <3>1. new[l] = [nodes[l] EXCEPT !.got = Append(nodes[l].got, n)]
      BY <2>1, <2>4
    <3>2. /\ new[l].since = nodes[l].since /\ new[l].chan = nodes[l].chan
          /\ new[l].got = Append(nodes[l].got, n)
      BY <2>1, <3>1 DEF Nodes
    <3>3. ToSet(new[l].got) = ToSet(nodes[l].got) \cup {n}
      BY <2>2, <3>2, ToSetAppend, SMTT(30)
    <3>4. Increasing(new[l].got)  BY <2>2, <2>3, <3>2, IncreasingAppend
    <3> QED BY <2>4, <3>2, <3>3, <3>4
  <2>5. CASE l \notin Sent  BY <2>1, <2>3, <2>5
  <2> QED BY <2>4, <2>5
<1>3. m \in 1 .. m /\ \A l \in 1 .. m - 1 : l \in 1 .. m /\ l \in DOMAIN nodes  BY <1>1
<1>4. /\ new[m].since = nodes[m].since /\ new[m].chan = nodes[m].chan
      /\ ToSet(new[m].got) =
           IF m \in Sent THEN ToSet(nodes[m].got) \cup {n} ELSE ToSet(nodes[m].got)
      /\ Increasing(new[m].got)
  BY <1>2, <1>3
<1>5. Gets(nodes, m, r, H, was)  OBVIOUS
<1>6. open => ToSet(new[m].got) = DataOf(r, H \cup {n}, new[m].since, new[m].chan)
  <2> DEFINE s == nodes[m].since  k == nodes[m].chan
  <2>1. s \in Nat /\ s < n  BY <1>5 DEF Gets
  <2>2. open => ToSet(nodes[m].got) = DataOf(r, H, s, k)  BY <1>5 DEF Gets
  <2> HIDE DEF s, k
  <2>3. DataOf(r, H \cup {n}, s, k) =
          IF s < n /\ r[n].type = "data" /\ (SelfMode \/ r[n].chan = k)
            THEN DataOf(r, H, s, k) \cup {n} ELSE DataOf(r, H, s, k)
    BY <2>1 DEF DataOf
  <2>4. open => (m \in Sent <=> SelfMode \/ r[n].chan = k)  BY DEF k
  <2>5. open => ToSet(new[m].got) = DataOf(r, H \cup {n}, s, k)
    BY <1>4, <2>1, <2>2, <2>3, <2>4
  <2> QED BY <1>4, <2>5 DEF s, k
<1>7. new[m].since \in H \cup {n} /\ ToSet(new[m].got) \subseteq H \cup {n}
  BY <1>4, <1>5 DEF Gets
<1>8. ASSUME NEW l \in 1 .. m - 1, new[l].chan = new[m].chan
      PROVE  ToSet(new[m].got) \subseteq ToSet(new[l].got)
  <2>1. l \in 1 .. m  BY <1>3
  <2>2. /\ new[l].chan = nodes[l].chan
        /\ ToSet(new[l].got) =
             IF l \in Sent THEN ToSet(nodes[l].got) \cup {n} ELSE ToSet(nodes[l].got)
    BY <1>2, <2>1
  <2>3. nodes[l].chan = nodes[m].chan  BY <1>4, <1>8, <2>2
  <2>4. ToSet(nodes[m].got) \subseteq ToSet(nodes[l].got)  BY <1>5, <2>3 DEF Gets
  <2>5. m \in Sent => l \in Sent  BY <2>3
  <2> QED BY <1>4, <2>2, <2>4, <2>5
<1> QED BY <1>4, <1>6, <1>7, <1>8 DEF Gets

\* The datagrams are numbered from 1.
LEMMA Numbers ==
  ASSUME TypeOK
  PROVE  /\ recvd \in Seq(Datagrams) /\ DOMAIN recvd = 1 .. Len(recvd)
         /\ Len(recvd) \in Nat /\ DOMAIN recvd \subseteq Nat
         /\ ToSet(handled) \subseteq DOMAIN recvd
<1>1. recvd \in Seq(Arrivals) /\ handled \in Seq(DOMAIN recvd)  BY DEF TypeOK
<1>2. recvd \in Seq(Datagrams)  BY <1>1, ServerAssumption, SeqMonotonic
<1>3. DOMAIN recvd = 1 .. Len(recvd) /\ Len(recvd) \in Nat  BY <1>1, LenProperties
<1>4. ToSet(handled) \subseteq DOMAIN recvd  BY <1>1, LenProperties DEF ToSet
<1> QED BY <1>2, <1>3, <1>4

\* A datagram that is handled leaves the decoders with what is theirs.
LEMMA HandleStream ==
  ASSUME TypeOK, DecodersGet, NEW n \in DOMAIN recvd, \A x \in ToSet(handled) : x < n,
         HandleDatagram(n, recvd[n]), handled' = Append(handled, n), recvd' = recvd
  PROVE  DecodersGet'
<1> DEFINE H   == ToSet(handled)
           was == ~sendFailed /\ status = 1
           now == ~sendFailed' /\ status' = 1
           d   == recvd[n]
<1>1. H \in SUBSET Nat /\ n \in Nat /\ d \in Datagrams
  BY Numbers, LenProperties
<1>2. ToSet(handled') = H \cup {n}
  BY ToSetAppend DEF TypeOK
<1>3. decoders \in Seq(Nodes) /\ \A m \in DOMAIN decoders : Gets(decoders, m, recvd, H, was)
  BY DEF DecodersGet
<1>4. DOMAIN decoders = 1 .. Len(decoders) /\ Len(decoders) \in Nat
  BY <1>3, LenProperties
<1> SUFFICES /\ decoders' \in Seq(Nodes)
             /\ \A m \in DOMAIN decoders' : Gets(decoders', m, recvd, H \cup {n}, now)
  BY <1>2 DEF DecodersGet
<1> HIDE DEF H, was, now
<1>5. ASSUME now => was /\ d.type # "data", NEW m \in DOMAIN decoders,
             \A l \in 1 .. m : decoders'[l] = decoders[l]
      PROVE  Gets(decoders', m, recvd, H \cup {n}, now)
  BY <1>1, <1>3, <1>5, NoData DEF H
<1>6. CASE RegDecoder(n, d)
  <2> DEFINE new == [addr |-> d.from, chan |-> d.chan, since |-> n, got |-> <<>>]
  <2>1. /\ d.type = "reg" /\ decoders' = Append(decoders, new)
        /\ now => was
    BY <1>6 DEF RegDecoder, now, was
  <2>2. new \in Nodes
    <3>1. d.from \in Clients /\ d.chan \in Chans  BY <1>1, <2>1 DEF Datagrams
    <3> QED BY <1>1, <3>1, EmptySeq DEF Nodes
  <2>3. new.since = n /\ new.got = <<>>  OBVIOUS
  <2> HIDE DEF new
  <2>4. /\ decoders' \in Seq(Nodes) /\ Len(decoders') = Len(decoders) + 1
        /\ \A i \in 1 .. Len(decoders) : decoders'[i] = decoders[i]
        /\ decoders'[Len(decoders) + 1] = new
    BY <1>3, <2>1, <2>2, AppendProperties
  <2>5. ASSUME NEW m \in DOMAIN decoders'
        PROVE  Gets(decoders', m, recvd, H \cup {n}, now)
    <3>1. m \in 1 .. Len(decoders) + 1  BY <2>4, LenProperties
    <3>2. CASE m = Len(decoders) + 1
      <4>1. decoders'[m].since = n /\ decoders'[m].got = <<>>  BY <2>3, <2>4, <3>2
      <4> QED BY <1>1, <4>1, NewNode DEF H
    <3>3. CASE m # Len(decoders) + 1
      <4>1. m \in DOMAIN decoders /\ \A l \in 1 .. m : decoders'[l] = decoders[l]
        BY <1>4, <2>4, <3>1, <3>3
      <4>2. d.type # "data"  BY <2>1
      <4> QED BY <1>5, <2>1, <4>1, <4>2
    <3> QED BY <3>2, <3>3
  <2> QED BY <2>4, <2>5
<1>7. CASE RelayData(n, d)
  <2>1. PICK sends \in 0 .. Turn(Len(decoders), d.chan) :
          /\ sendFailed' = (sendFailed \/ sends < Turn(Len(decoders), d.chan))
          /\ decoders' = [m \in DOMAIN decoders |->
               IF Reached(m, d.chan, sends)
                 THEN [decoders[m] EXCEPT !.got = Append(@, n)] ELSE decoders[m]]
    BY <1>7 DEF RelayData
  <2>2. d.type = "data" /\ status' = status  BY <1>7 DEF RelayData
  <2> DEFINE Sent == {m \in DOMAIN decoders : Reached(m, d.chan, sends)}
             all  == Turn(Len(decoders), d.chan)
  <2>3. all \in Nat /\ sends \in Int  BY <1>4, TurnMonotonic
  <2>4. now => was /\ sends = all
    <3>1. sends \in 0 .. all /\ sendFailed' = (sendFailed \/ sends < all)  BY <2>1
    <3> HIDE DEF all
    <3>2. ~sendFailed' => ~sendFailed /\ ~(sends < all)  BY <3>1, Zenon
    <3>3. ~(sends < all) => sends = all  BY <2>3, <3>1
    <3> QED BY <2>2, <3>2, <3>3, Zenon DEF now, was
  <2>5. ASSUME NEW m \in DOMAIN decoders
        PROVE  Gets(decoders', m, recvd, H \cup {n}, now)
    <3>1. m \in Nat /\ m <= Len(decoders)  BY <1>4
    <3>2. Turn(m, d.chan) \in Nat /\ Turn(m, d.chan) <= all
      BY <1>4, <3>1, TurnMonotonic
    <3>3. m \in Sent => SelfMode \/ decoders[m].chan = d.chan  BY DEF Reached, IsFor
    <3>4. now /\ (SelfMode \/ decoders[m].chan = d.chan) => m \in Sent
      BY <2>4, <3>2 DEF Reached, IsFor
    <3>5. ASSUME m \in Sent, NEW l \in 1 .. m - 1, decoders[l].chan = decoders[m].chan
          PROVE  l \in Sent
      <4>1. l \in DOMAIN decoders /\ l \in Nat /\ l <= m  BY <1>4, <3>1
      <4>2. /\ Turn(l, d.chan) \in Nat /\ Turn(m, d.chan) \in Nat
            /\ Turn(l, d.chan) <= Turn(m, d.chan)
        BY <3>1, <4>1, TurnMonotonic
      <4>3. IsFor(decoders[m], d.chan) /\ Turn(m, d.chan) <= sends
        BY <3>5 DEF Reached
      <4>4. IsFor(decoders[l], d.chan)  BY <3>5, <4>3 DEF IsFor
      <4>5. Turn(l, d.chan) <= sends  BY <2>3, <4>2, <4>3
      <4> QED BY <4>1, <4>4, <4>5 DEF Reached
    <3>6. \A l \in DOMAIN decoders : decoders'[l] =
            IF l \in Sent THEN [decoders[l] EXCEPT !.got = Append(@, n)] ELSE decoders[l]
      BY <2>1
    <3> HIDE DEF Sent
    <3> QED BY <1>1, <1>3, <2>2, <2>4, <3>3, <3>4, <3>5, <3>6, DataSent DEF H
  <2>6. decoders' \in Seq(Nodes) /\ DOMAIN decoders' = DOMAIN decoders
    <3>1. ASSUME NEW m \in DOMAIN decoders
          PROVE  [decoders[m] EXCEPT !.got = Append(@, n)] \in Nodes /\ decoders[m] \in Nodes
      <4>1. decoders[m] \in Nodes  BY <1>3
      <4>2. Append(decoders[m].got, n) \in Seq(Nat)
        BY <1>1, <4>1, AppendProperties DEF Nodes
      <4> QED BY <4>1, <4>2 DEF Nodes
    <3>2. decoders' \in [1 .. Len(decoders) -> Nodes]  BY <1>4, <2>1, <3>1
    <3> QED BY <1>4, <3>2, SeqDef
  <2> QED BY <2>5, <2>6
<1>8. CASE SessionClose(d)
  <2>1. decoders' = <<>>  BY <1>8 DEF SessionClose
  <2> QED BY <2>1, EmptySeq
<1>9. CASE RegNull(d) \/ NotOpen(d)
  <2>1. decoders' = decoders /\ (now => was /\ d.type # "data")
    BY <1>9 DEF RegNull, NotOpen, streamVars, now, was
  <2> QED BY <1>3, <1>5, <2>1
<1> QED BY <1>6, <1>7, <1>8, <1>9 DEF HandleDatagram

-----------------------------------------------------------------------------
(* Where the datagrams are. *)

\* Nothing has arrived in the beginning.
LEMMA InitData == Init => DataInv
<1> SUFFICES ASSUME Init PROVE DataInv  OBVIOUS
<1>1. Kept = <<>>
  BY EmptySeq, ConcatEmptySeq DEF Init, Kept
<1>2. OnePlaceInOrder
  <2>1. ToSet(Kept) = {} /\ DOMAIN Kept = {}  BY <1>1 DEF ToSet
  <2>2. dropped = {} /\ recvd = <<>>  BY DEF Init
  <2>3. DOMAIN recvd = {}  BY <2>2
  <2> QED BY <2>1, <2>2, <2>3 DEF OnePlaceInOrder, Kept
<1>3. TypeOK
  <2>1. \A S : <<>> \in Seq(S) /\ Len(<<>>) = 0  BY EmptySeq
  <2>2. 0 <= MaxDelay + 1  BY ServerAssumption
  <2>3. {recvStatus, sendStatus, bcStatus} \subseteq {-1, 0, 1}  BY DEF Init
  <2> QED BY <2>1, <2>2, <2>3 DEF Init, TypeOK
<1>4. HandsEmpty /\ DecodersGet
  <2>1. decoders = <<>>  BY DEF Init, StreamInit
  <2>2. decoders \in Seq(Nodes) /\ DOMAIN decoders = {}  BY <2>1, EmptySeq
  <2> QED BY <2>2 DEF Init, HandsEmpty, DecodersGet
<1> QED BY <1>2, <1>3, <1>4 DEF DataInv

\* A datagram arrives.
LEMMA ArriveData ==
  ASSUME DataInv, Arrive, UNCHANGED streamVars
  PROVE  DataInv'
<1> DEFINE n == Len(recvd) + 1
<1>1. PICK d \in Arrivals : recvd' = Append(recvd, d)  BY DEF Arrive
<1>2. recvd \in Seq(Arrivals)  BY DEF DataInv, TypeOK
<1>3. /\ recvd' \in Seq(Arrivals) /\ Len(recvd') = n
      /\ \A i \in 1 .. Len(recvd) : recvd'[i] = recvd[i]
  BY <1>1, <1>2, AppendProperties
<1>4. /\ DOMAIN recvd = 1 .. Len(recvd) /\ Len(recvd) \in Nat
      /\ DOMAIN recvd' = (DOMAIN recvd) \cup {n} /\ n \notin DOMAIN recvd
      /\ n \in Nat /\ \A x \in DOMAIN recvd : x < n /\ x \in Nat
  BY <1>2, <1>3, LenProperties
<1> HIDE DEF n
<1>5. /\ UNCHANGED <<handled, batch, spc, sendStatus, bcStatus, recvStatus, overtook>>
      /\ \/ Full /\ dropped' = dropped \cup {n} /\ dataList' = dataList
         \/ ~Full /\ dataList' = Append(dataList, n) /\ dropped' = dropped
  BY <1>3 DEF Arrive, sendVars
<1>6. {handled, batch, dataList} \subseteq Seq(DOMAIN recvd)  BY DEF DataInv, TypeOK
<1>7. {handled, batch, dataList} \subseteq Seq(DOMAIN recvd')
  BY <1>4, <1>6, SeqMonotonic
<1>8. /\ Kept \in Seq(DOMAIN recvd) /\ handled \o batch \in Seq(DOMAIN recvd')
  BY <1>6, <1>7, ConcatProperties DEF Kept
<1>9. dataList' \in Seq(DOMAIN recvd') /\ Len(dataList') <= MaxDelay + 1
  <2>1. Len(dataList) \in Nat /\ MaxDelay \in Nat /\ Len(dataList) <= MaxDelay + 1
    BY <1>6, LenProperties, ServerAssumption DEF DataInv, TypeOK
  <2>2. CASE Full  BY <1>5, <1>7, <2>1, <2>2
  <2>3. CASE ~Full
    <3>1. dataList' = Append(dataList, n) /\ n \in DOMAIN recvd'  BY <1>4, <1>5, <2>3
    <3>2. dataList' \in Seq(DOMAIN recvd') /\ Len(dataList') = Len(dataList) + 1
      BY <1>7, <3>1, AppendProperties
    <3> QED BY <2>1, <2>3, <3>2 DEF Full
  <2> QED BY <2>2, <2>3
<1>10. TypeOK'
  BY <1>3, <1>4, <1>5, <1>7, <1>9 DEF DataInv, TypeOK
<1>11. OnePlaceInOrder'
  <2>1. /\ Increasing(Kept) /\ ToSet(Kept) \cup dropped = DOMAIN recvd
        /\ ToSet(Kept) \cap dropped = {}
    BY DEF DataInv, OnePlaceInOrder, Kept, Increasing
  <2>2. CASE Full
    <3>1. Kept' = Kept /\ dropped' = dropped \cup {n}  BY <1>5, <2>2 DEF Kept
    <3>2. /\ Increasing(Kept') /\ ToSet(Kept') \cup dropped' = DOMAIN recvd'
          /\ ToSet(Kept') \cap dropped' = {}
      BY <1>4, <2>1, <3>1
    <3> QED BY <3>2 DEF OnePlaceInOrder, Kept, Increasing
  <2>3. CASE ~Full
    <3>1. Kept' = Append(Kept, n) /\ dropped' = dropped
      <4>1. dataList' = dataList \o <<n>> /\ <<n>> \in Seq(DOMAIN recvd')
        <5>1. n \in DOMAIN recvd' /\ dataList \in Seq(DOMAIN recvd')  BY <1>4, <1>7
        <5>2. <<n>> \in Seq(DOMAIN recvd')  BY <5>1
        <5>3. Append(dataList, n) = dataList \o <<n>>  BY <5>1, AppendIsConcat
        <5> QED BY <1>5, <2>3, <5>2, <5>3
      <4>2. (handled \o batch) \o (dataList \o <<n>>) = ((handled \o batch) \o dataList) \o <<n>>
        <5> DEFINE t == <<n>>  hb == handled \o batch
        <5>1. t \in Seq(DOMAIN recvd') /\ hb \in Seq(DOMAIN recvd') /\ dataList \in Seq(DOMAIN recvd')
          BY <1>7, <1>8, <4>1
        <5> HIDE DEF t, hb
        <5>2. (hb \o dataList) \o t = hb \o (dataList \o t)  BY <5>1, ConcatAssociative, SMTT(30)
        <5> QED BY <5>2 DEF t, hb
      <4>3. Kept \in Seq(DOMAIN recvd')  BY <1>4, <1>8, SeqMonotonic
      <4>4. Append(Kept, n) = Kept \o <<n>>  BY <1>4, <4>3, AppendIsConcat
      <4> QED BY <1>5, <2>3, <4>1, <4>2, <4>4 DEF Kept
    <3>2. Kept \in Seq(Nat)  BY <1>4, <1>8, SeqMonotonic
    <3>3. ToSet(Kept') = ToSet(Kept) \cup {n}  BY <1>4, <3>1, <3>2, ToSetAppend
    <3>4. Increasing(Kept')
      BY <1>4, <2>1, <3>1, <3>2, IncreasingAppend
    <3>5. /\ ToSet(Kept') \cup dropped' = DOMAIN recvd'
          /\ ToSet(Kept') \cap dropped' = {}
      BY <1>4, <2>1, <3>1, <3>3
    <3> QED BY <3>4, <3>5 DEF OnePlaceInOrder, Kept, Increasing
  <2> QED BY <2>2, <2>3
<1>12. HandsEmpty'  BY <1>5 DEF DataInv, HandsEmpty
<1>13. DecodersGet'
  <2>1. \A x \in ToSet(handled) : recvd'[x] = recvd[x]
    BY <1>3, Numbers DEF DataInv
  <2>2. ASSUME NEW m \in DOMAIN decoders, NEW open,
               Gets(decoders, m, recvd, ToSet(handled), open)
        PROVE  Gets(decoders, m, recvd', ToSet(handled), open)
    <3>1. \A s, k : DataOf(recvd', ToSet(handled), s, k) = DataOf(recvd, ToSet(handled), s, k)
      BY <2>1 DEF DataOf
    <3> QED BY <2>2, <3>1 DEF Gets
  <2> QED BY <1>5, <2>2 DEF DataInv, DecodersGet, streamVars
<1> QED BY <1>10, <1>11, <1>12, <1>13 DEF DataInv

\* The sender takes the list.
LEMMA PopData ==
  ASSUME DataInv, Pop, UNCHANGED streamVars
  PROVE  DataInv'
<1>1. /\ batch' = dataList /\ dataList' = <<>>
      /\ spc = "pop" /\ spc' = IF dataList = <<>> THEN "test" ELSE "handle"
      /\ UNCHANGED <<recvd, handled, dropped, sendStatus, bcStatus, recvStatus, overtook>>
  BY DEF Pop, PopDataAll, SendStep, recvVars
<1>2. {handled, batch, dataList} \subseteq Seq(DOMAIN recvd) /\ batch = <<>>
  BY <1>1 DEF DataInv, TypeOK, HandsEmpty
<1>3. Kept' = Kept
  <2>1. handled \o batch = handled /\ handled \o dataList \in Seq(DOMAIN recvd)
    BY <1>2, ConcatEmptySeq, ConcatProperties
  <2>2. (handled \o dataList) \o <<>> = handled \o dataList
    BY <2>1, ConcatEmptySeq
  <2> QED BY <1>1, <2>1, <2>2 DEF Kept
<1>4. OnePlaceInOrder'
  BY <1>1, <1>3 DEF DataInv, OnePlaceInOrder, Kept
<1>5. TypeOK'
  <2>1. <<>> \in Seq(DOMAIN recvd) /\ Len(<<>>) = 0 /\ MaxDelay \in Nat
    BY EmptySeq, ServerAssumption
  <2> QED BY <1>1, <1>2, <2>1 DEF DataInv, TypeOK
<1>6. HandsEmpty' /\ DecodersGet'
  BY <1>1 DEF DataInv, HandsEmpty, DecodersGet, streamVars
<1> QED BY <1>4, <1>5, <1>6 DEF DataInv

\* The sender handles what it has in hand.
LEMMA HandleData ==
  ASSUME DataInv, Handle
  PROVE  DataInv'
<1>1. UNCHANGED <<recvd, dropped, dataList, sendStatus, bcStatus, recvStatus, overtook>>
  BY DEF Handle, recvVars
<1>2. CASE batch = <<>>
  <2>1. /\ UNCHANGED <<batch, handled>> /\ UNCHANGED streamVars
    BY <1>2 DEF Handle
  <2>2. TypeOK' /\ OnePlaceInOrder'
    BY <1>1, <2>1 DEF DataInv, TypeOK, OnePlaceInOrder
  <2> QED BY <1>1, <1>2, <2>1, <2>2 DEF DataInv, HandsEmpty, DecodersGet, streamVars
<1>3. CASE batch # <<>>
  <2> DEFINE n == Head(batch)
  <2>1. /\ HandleDatagram(n, recvd[n]) /\ handled' = Append(handled, n)
        /\ batch' = Tail(batch) /\ spc' = spc /\ spc = "handle"
    BY <1>3 DEF Handle
  <2>2. /\ {handled, batch, dataList} \subseteq Seq(DOMAIN recvd)
        /\ DOMAIN recvd \subseteq Nat
    BY Numbers DEF DataInv, TypeOK
  <2>3. n \in DOMAIN recvd /\ Tail(batch) \in Seq(DOMAIN recvd)
    BY <1>3, <2>2, HeadTailProperties
  <2> HIDE DEF n
  <2>4. /\ Append(handled, n) \o Tail(batch) \o dataList = Kept
        /\ Len(handled) + 1 \in DOMAIN Kept /\ Kept[Len(handled) + 1] = n
        /\ \A i \in DOMAIN handled : i \in DOMAIN Kept /\ Kept[i] = handled[i]
    <3> DEFINE S == DOMAIN recvd
    <3>1. handled \in Seq(S) /\ batch \in Seq(S) /\ dataList \in Seq(S)  BY <2>2
    <3> HIDE DEF S
    <3>2. FirstInHand(handled, batch, dataList)  BY <1>3, <3>1, HandNext
    <3> QED BY <3>2, Zenon DEF Kept, n, FirstInHand
  <2>5. \A x \in ToSet(handled) : x < n
    <3>1. Increasing(Kept)  BY DEF DataInv, OnePlaceInOrder, Kept, Increasing
    <3>2. \A i \in DOMAIN handled : i < Len(handled) + 1
      BY <2>2, LenProperties
    <3>3. \A i \in DOMAIN handled : handled[i] < n
      BY <2>4, <3>1, <3>2 DEF Increasing
    <3> QED BY <3>3 DEF ToSet
  <2>6. DecodersGet'
    BY <1>1, <2>1, <2>3, <2>5, HandleStream DEF DataInv
  <2>7. Kept' = Kept  BY <1>1, <2>1, <2>4 DEF Kept
  <2>8. OnePlaceInOrder'  BY <1>1, <2>7 DEF DataInv, OnePlaceInOrder, Kept
  <2>9. Append(handled, n) \in Seq(DOMAIN recvd)  BY <2>2, <2>3, AppendProperties
  <2>10. TypeOK'  BY <1>1, <2>1, <2>2, <2>3, <2>9 DEF DataInv, TypeOK
  <2>11. HandsEmpty'  BY <2>1 DEF HandsEmpty
  <2> QED BY <2>6, <2>8, <2>10, <2>11 DEF DataInv
<1> QED BY <1>2, <1>3

\* The other steps only move the threads, or give the session up.
LEMMA QuietData ==
  ASSUME DataInv, UNCHANGED <<batch, handled, dataList, recvd, dropped>>,
         GiveUp \/ UNCHANGED streamVars,
         {recvStatus', sendStatus', bcStatus'} \subseteq {-1, 0, 1},
         overtook' \in BOOLEAN, spc' = "handle" <=> spc = "handle"
  PROVE  DataInv'
<1>1. TypeOK' /\ OnePlaceInOrder' /\ HandsEmpty'
  BY DEF DataInv, TypeOK, OnePlaceInOrder, HandsEmpty
<1>2. DecodersGet'
  <2>1. decoders' = decoders /\ sendFailed' = sendFailed /\ (status' = 1 => status = 1)
    BY DEF GiveUp, streamVars
  <2>2. \A m \in DOMAIN decoders :
          Gets(decoders, m, recvd, ToSet(handled), ~sendFailed' /\ status' = 1)
    BY <2>1 DEF DataInv, DecodersGet, Gets
  <2> QED BY <2>1, <2>2 DEF DataInv, DecodersGet
<1> QED BY <1>1, <1>2 DEF DataInv

LEMMA StepData ==
  ASSUME IInv, [Next]_vars
  PROVE  DataInv'
<1> USE DEF IInv
<1>1. /\ {recvStatus, sendStatus, bcStatus} \subseteq {-1, 0, 1}
      /\ overtook \in BOOLEAN
  BY DEF DataInv, TypeOK
<1>2. CASE Receiver /\ UNCHANGED streamVars
  <2>1. CASE Arrive  BY <1>2, <2>1, ArriveData
  <2>2. CASE CreateSend
    <3>1. spc = "none" /\ spc' = "created"  BY <2>2 DEF CreateSend, RecvStep, StopLost
    <3> QED BY <1>1, <1>2, <2>2, <3>1, QuietData DEF CreateSend
  <2>3. CASE CreateBroadcast
    BY <1>1, <1>2, <2>3, QuietData DEF CreateBroadcast, sendVars
  <2>4. CASE RecvEmpty
    BY <1>1, <1>2, <2>4, QuietData DEF RecvEmpty, sendVars
  <2>5. CASE ExitRecv
    BY <1>1, <1>2, <2>5, QuietData DEF ExitRecv, sendVars
  <2>6. CASE StopSend
    <3>1. sendStatus' \in {-1, 0, 1} /\ overtook' \in BOOLEAN
      BY <1>1, <2>6 DEF StopSend, Stopped
    <3> QED BY <1>1, <1>2, <2>6, <3>1, QuietData DEF StopSend, sendVars
  <2>7. CASE StopBroadCast
    <3>1. bcStatus' \in {-1, 0, 1}  BY <1>1, <2>7 DEF StopBroadCast, Stopped
    <3> QED BY <1>1, <1>2, <2>7, <3>1, QuietData DEF StopBroadCast, sendVars
  <2>8. CASE WaitSend
    BY <1>1, <1>2, <2>8, QuietData DEF WaitSend, sendVars
  <2>9. CASE WaitBroadCast
    BY <1>1, <1>2, <2>9, QuietData DEF WaitBroadCast, sendVars
  <2> QED BY <1>2, <2>1, <2>2, <2>3, <2>4, <2>5, <2>6, <2>7, <2>8, <2>9
          DEF Receiver, Stopping
<1>3. CASE Sender
  <2>1. CASE Handle  BY <2>1, HandleData
  <2>2. CASE StartSending /\ UNCHANGED streamVars
    BY <1>1, <2>2, QuietData DEF StartSending, SendStep, recvVars
  <2>3. CASE Pop /\ UNCHANGED streamVars  BY <2>3, PopData
  <2>4. CASE TestSend /\ UNCHANGED streamVars
    BY <1>1, <2>4, QuietData DEF TestSend, SendStep, recvVars
  <2>5. CASE ExitSend /\ UNCHANGED streamVars
    BY <1>1, <2>5, QuietData DEF ExitSend, SendStep, recvVars
  <2> QED BY <1>3, <2>1, <2>2, <2>3, <2>4, <2>5 DEF Sender
<1>4. CASE Broadcaster
  <2>1. CASE TestBroadcast
    BY <1>1, <2>1, QuietData DEF TestBroadcast, recvVars, sendVars
  <2>2. CASE StartBroadcasting /\ UNCHANGED streamVars
    BY <1>1, <2>2, QuietData DEF StartBroadcasting, recvVars, sendVars
  <2>3. CASE ExitBroadCast /\ UNCHANGED streamVars
    BY <1>1, <2>3, QuietData DEF ExitBroadCast, recvVars, sendVars
  <2> QED BY <1>4, <2>1, <2>2, <2>3 DEF Broadcaster
<1>5. CASE UNCHANGED vars
  BY <1>1, <1>5, QuietData DEF vars, recvVars, sendVars
<1> QED BY <1>2, <1>3, <1>4, <1>5 DEF Next

-----------------------------------------------------------------------------
(* The stop that overtakes the sender. *)

LEMMA StepStop ==
  ASSUME IInv, [Next]_vars
  PROVE  StopLost'
<1>0. 1 > 0 /\ ~(0 < 0) /\ ~(1 < 0)  OBVIOUS
<1>1. overtook \in BOOLEAN  BY DEF IInv, DataInv, TypeOK
<1> USE DEF IInv, StopLost, SenderRuns
<1>2. CASE Receiver
  <2> USE DEF RecvStep, sendVars
  <2>1. CASE CreateSend  BY <2>1 DEF CreateSend
  <2>2. CASE CreateBroadcast  BY <2>2 DEF CreateBroadcast
  <2>3. CASE Arrive  BY <2>3 DEF Arrive
  <2>4. CASE RecvEmpty  BY <2>4 DEF RecvEmpty
  <2>5. CASE ExitRecv  BY <2>5 DEF ExitRecv
  <2>6. CASE StopSend  BY <2>6 DEF StopSend, Stopped
  <2>7. CASE StopBroadCast  BY <2>7 DEF StopBroadCast
  <2>8. CASE WaitSend
    <3>1. sendStatus # 0 /\ sendStatus # 1  BY <1>0, <2>8, Zenon DEF WaitSend
    <3>2. ~SenderRuns  BY <3>1, Zenon DEF SenderRuns
    <3> QED BY <2>8, <3>2, Zenon DEF WaitSend
  <2>9. CASE WaitBroadCast  BY <2>9 DEF WaitBroadCast
  <2> QED BY <1>2, <2>1, <2>2, <2>3, <2>4, <2>5, <2>6, <2>7, <2>8, <2>9
          DEF Receiver, Stopping
<1>3. CASE Sender
  <2> USE DEF SendStep, recvVars
  <2>1. CASE Handle
    <3>1. /\ UNCHANGED <<rpc, overtook, sendStatus>>
          /\ spc = "handle" /\ spc' \in {"handle", "test"}
      BY <2>1 DEF Handle
    <3> QED BY <3>1
  <2>2. CASE StartSending  BY <2>2 DEF StartSending
  <2>3. CASE Pop  BY <2>3 DEF Pop
  <2>4. CASE TestSend
    <3>1. /\ UNCHANGED <<rpc, overtook, sendStatus>> /\ spc = "test"
          /\ spc' = IF sendStatus > 0 THEN "pop" ELSE "exit"
      BY <2>4 DEF TestSend
    <3> QED BY <1>0, <3>1, Zenon
  <2>5. CASE ExitSend  BY <2>5 DEF ExitSend
  <2> QED BY <1>3, <2>1, <2>2, <2>3, <2>4, <2>5 DEF Sender
<1>4. CASE Broadcaster
  <2>1. UNCHANGED <<rpc, overtook, spc, sendStatus>>
    BY <1>4 DEF Broadcaster, TestBroadcast, StartBroadcasting, ExitBroadCast,
                recvVars, sendVars
  <2> QED BY <2>1
<1>5. CASE UNCHANGED vars
  <2>1. UNCHANGED <<rpc, overtook, spc, sendStatus>>
    BY <1>5 DEF vars, recvVars, sendVars
  <2> QED BY <2>1
<1> QED BY <1>2, <1>3, <1>4, <1>5 DEF Next

-----------------------------------------------------------------------------
\* The invariant holds whatever arrives and however the threads take turns.
THEOREM ServerInvariant == Spec => []IInv
<1>1. Init => IInv
  <2>1. Init => StopLost  BY DEF Init, StopLost, SenderRuns
  <2> QED BY <2>1, InitData DEF IInv
<1>2. IInv /\ [Next]_vars => IInv'  BY StepData, StepStop DEF IInv
<1> QED BY <1>1, <1>2, PTL DEF Spec

\* The status words stay what they are meant to be, and at most one datagram
\* more than MAX_DELAY_PKT_NUM waits (udpbase.c:589).
THEOREM TypeCorrect == Spec => []TypeOK
<1>1. IInv => TypeOK  BY DEF IInv, DataInv
<1> QED BY <1>1, ServerInvariant, PTL

\* No datagram is lost, handled twice or out of order where the receiver hands
\* the list over to the sender (udpbase.c:665, 683).
THEOREM HandedOverInOrder == Spec => []OnePlaceInOrder
<1>1. IInv => OnePlaceInOrder  BY DEF IInv, DataInv
<1> QED BY <1>1, ServerInvariant, PTL

\* A decoder gets all the data of its channel in order while the session is
\* open and no send has failed, and never more than the decoders before it
\* (RelayData, udpbase.c:1627-1663).
THEOREM StreamDelivered == Spec => []DecodersGetStream
<1>1. IInv => DecodersGetStream
  <2>1. \A n, k : DataOf(recvd, ToSet(handled), n, k) = DataAfter(n, k)
    BY DEF DataOf, DataAfter
  <2> QED BY <2>1 DEF IInv, DataInv, DecodersGet, Gets, DecodersGetStream, Increasing
<1> QED BY <1>1, ServerInvariant, PTL

\* server_main never returns when StopSend came before the sender had set its
\* status itself (udpbase.c:380, 1865): the safety half of StopReturns.
THEOREM LostStopStays == Spec => []NoLateReturn
<1>1. IInv => NoLateReturn  BY DEF IInv, StopLost, NoLateReturn
<1> QED BY <1>1, ServerInvariant, PTL

=============================================================================
