---------------------------- MODULE StunNetProofs ----------------------------
(***************************************************************************)
(* Safety of the STUN server and its clients, of StunNet: whose session is *)
(* whose, which list the members of a session are in, and that they all    *)
(* get to know each other.                                                 *)
(***************************************************************************)
EXTENDS MCStun, SequenceTheorems, WellFoundedInduction, TLAPS

Slots == [made : BOOLEAN, freed : BOOLEAN, session : Nat, nodes : Seq(S!Entries)]

Nodes == [session : Nat, self : Nat, addr : Clients, cnn : BOOLEAN, pings : Nat]

ClientLists == [made : BOOLEAN, session : Nat, nodes : Seq(Nodes)]

UpMsgs == [cmd : S!Cmds, session : Nat, self : Nat]

DownMsgs == [cmd : S!Cmds, es : Seq(S!Entries)]

PingMsgs == [to : Clients, from : Clients, ack : BOOLEAN, session : Nat, self : Nat]

Outs == [Clients -> Seq(DownMsgs)]

ServerTypes ==
  /\ globSession \in Nat \ {0} /\ wild \in BOOLEAN
  /\ slot \in [0 .. MaxOnline - 1 -> Slots]
  /\ down \in Outs

ClientTypes ==
  /\ session \in [Clients -> Nat] /\ self \in [Clients -> Nat]
  /\ list \in [Clients -> [Lists -> ClientLists]]
  /\ ping \in [Clients -> [Lists -> [pc : {"none", "created", "runs"}, self : Nat]]]
  /\ draft \in [Clients -> {NoDraft, "Reg", "Peers", "Exit"}]
  /\ turn \in [Clients -> Nat] /\ beats \in Nat
  /\ up \in [Clients -> Seq(UpMsgs)]
  /\ p2p \in SUBSET PingMsgs

FaultTypes == lost \in Nat /\ repeated \in Nat /\ overtaken \in Nat

Types == ServerTypes /\ ClientTypes /\ FaultTypes

-----------------------------------------------------------------------------
(* Sequences as sets. *)

LEMMA SetOfAppend ==
  ASSUME NEW T, NEW q \in Seq(T), NEW x \in T
  PROVE  ToSet(Append(q, x)) = ToSet(q) \cup {x}
<1>1. DOMAIN Append(q, x) = DOMAIN q \cup {Len(q) + 1}  OBVIOUS
<1>2. \A n \in DOMAIN q : Append(q, x)[n] = q[n]  OBVIOUS
<1>3. Append(q, x)[Len(q) + 1] = x  OBVIOUS
<1> QED BY <1>1, <1>2, <1>3 DEF ToSet

LEMMA SetOfTail ==
  ASSUME NEW T, NEW q \in Seq(T), q # <<>>
  PROVE  /\ Head(q) \in ToSet(q) /\ Tail(q) \in Seq(T) /\ Head(q) \in T
         /\ ToSet(q) = ToSet(Tail(q)) \cup {Head(q)}
<1>1. Len(q) \in Nat \ {0} /\ DOMAIN q = 1 .. Len(q)  OBVIOUS
<1>2. DOMAIN Tail(q) = 1 .. Len(q) - 1
      /\ \A n \in 1 .. Len(q) - 1 : Tail(q)[n] = q[n + 1]
  OBVIOUS
<1>3. Head(q) = q[1]  OBVIOUS
<1>4. \A n \in 1 .. Len(q) : n = 1 \/ (n - 1 \in 1 .. Len(q) - 1 /\ Tail(q)[n - 1] = q[n])
  BY <1>1, <1>2
<1>5. ASSUME NEW x \in ToSet(Tail(q)) PROVE x \in ToSet(q)
  <2>1. PICK n \in 1 .. Len(q) - 1 : x = Tail(q)[n]  BY <1>2, <1>5 DEF ToSet
  <2>2. n + 1 \in DOMAIN q /\ x = q[n + 1]  BY <1>1, <1>2, <2>1
  <2> QED BY <2>2 DEF ToSet
<1>6. ASSUME NEW x \in ToSet(q) PROVE x \in ToSet(Tail(q)) \cup {Head(q)}
  <2>1. PICK n \in 1 .. Len(q) : x = q[n]  BY <1>1, <1>6 DEF ToSet
  <2> QED BY <1>2, <1>3, <1>4, <2>1 DEF ToSet
<1>7. Head(q) \in ToSet(q)  BY <1>1, <1>3 DEF ToSet
<1>8. Tail(q) \in Seq(T) /\ Head(q) \in T  OBVIOUS
<1> QED BY <1>5, <1>6, <1>7, <1>8

LEMMA SetOfType ==
  ASSUME NEW T, NEW q \in Seq(T)
  PROVE  ToSet(q) \subseteq T
BY DEF ToSet

LEMMA LeastNatural ==
  ASSUME NEW T \in SUBSET Nat, T # {}
  PROVE  \E x \in T : \A y \in T : x <= y
<1> DEFINE R == {ss \in Nat \X Nat : ss[1] < ss[2]}
<1>1. IsWellFoundedOn(R, Nat)  BY NatLessThanWellFounded DEF OpToRel
<1> HIDE DEF R
<1>2. \E x \in T : \A y \in T : <<y, x>> \notin R  BY <1>1, WFMin
<1>3. \A x, y \in Nat : <<y, x>> \notin R => ~(y < x)  BY DEF R
<1>4. \A x, y \in Nat : ~(y < x) => x <= y  OBVIOUS
<1> QED BY <1>2, <1>3, <1>4

\* What holds at the start and from each number to the next holds up to N.
LEMMA UpTo ==
  ASSUME NEW N \in Nat, NEW Good, 0 \in Good,
         \A n \in 1 .. N : n - 1 \in Good => n \in Good
  PROVE  \A n \in 0 .. N : n \in Good
<1> DEFINE Bad == {n \in 0 .. N : n \notin Good}
<1>1. SUFFICES ASSUME Bad # {} PROVE FALSE  OBVIOUS
<1>2. Bad \in SUBSET Nat  OBVIOUS
<1>3. PICK n \in Bad : \A y \in Bad : n <= y
  <2> HIDE DEF Bad
  <2> QED BY <1>1, <1>2, LeastNatural
<1>4. n \in 1 .. N  OBVIOUS
<1>5. n - 1 \in 0 .. N /\ ~(n <= n - 1)  BY <1>4
<1>6. n - 1 \notin Bad  BY <1>3, <1>5
<1> QED BY <1>4, <1>5, <1>6

\* g begins with b and goes on as F says.
Steps(N, b, F, g) == g[0] = b /\ \A n \in 1 .. N : g[n] = F[n][g[n - 1]]

\* A recursion over 1 .. N whose steps stay in T has a value.
LEMMA Recursion ==
  ASSUME NEW N \in Nat, NEW T, NEW b \in T, NEW F \in [1 .. N -> [T -> T]]
  PROVE  \E g \in [0 .. N -> T] : Steps(N, b, F, g)
<1> DEFINE Rec(M, g) == g[0] = b /\ \A n \in 1 .. M : g[n] = F[n][g[n - 1]]
           Good == {M \in 0 .. N : \E g \in [0 .. M -> T] : Rec(M, g)}
<1>1. 0 \in Good
  <2> DEFINE g == [n \in 0 .. 0 |-> b]
  <2>1. Rec(0, g) /\ g \in [0 .. 0 -> T]  OBVIOUS
  <2>2. 0 \in 0 .. N  OBVIOUS
  <2> HIDE DEF Rec, g
  <2> QED BY <2>1, <2>2
<1>2. ASSUME NEW M \in 1 .. N, M - 1 \in Good PROVE M \in Good
  <2>1. PICK g \in [0 .. M - 1 -> T] : Rec(M - 1, g)  BY <1>2
  <2> DEFINE h == [n \in 0 .. M |-> IF n = M THEN F[M][g[M - 1]] ELSE g[n]]
  <2>2. \A n \in 0 .. M - 1 : h[n] = g[n]  OBVIOUS
  <2>3. h \in [0 .. M -> T]
    <3>1. F[M] \in [T -> T] /\ g[M - 1] \in T  OBVIOUS
    <3> QED BY <3>1
  <2>4. Rec(M, h)
    <3>1. h[0] = b  BY <2>1
    <3>2. ASSUME NEW n \in 1 .. M PROVE h[n] = F[n][h[n - 1]]
      <4>1. CASE n = M  BY <4>1
      <4>2. CASE n # M
        <5>1. n \in 1 .. M - 1 /\ n - 1 \in 0 .. M - 1  BY <4>2
        <5>2. g[n] = F[n][g[n - 1]]  BY <2>1, <5>1
        <5> QED BY <2>2, <5>1, <5>2
      <4> QED BY <4>1, <4>2
    <3> QED BY <3>1, <3>2
  <2>5. M \in 0 .. N  OBVIOUS
  <2> HIDE DEF Rec, h
  <2> QED BY <2>3, <2>4, <2>5
<1>3. \A n \in 0 .. N : n \in Good
  <2> HIDE DEF Good
  <2> QED BY <1>1, <1>2, UpTo
<1>4. PICK g \in [0 .. N -> T] : Rec(N, g)  BY <1>3
<1> QED BY <1>4 DEF Steps

-----------------------------------------------------------------------------
(* What send_stun_list sends. *)

Accs == [out : Outs, buf : Seq(S!Entries)]

LEMMA VisitType ==
  ASSUME NEW acc \in Accs, NEW p \in S!Entries, NEW new \in S!Entries
  PROVE  S!Visit(acc, p, new) \in Accs
<1>1. ASSUME NEW out \in Outs, NEW c \in Clients, NEW es \in Seq(S!Entries)
      PROVE  S!Sent(out, c, S!Down("Peers", es)) \in Outs
  <2>1. S!Down("Peers", es) \in DownMsgs  BY DEF S!Down, DownMsgs, S!Cmds
  <2>2. Append(out[c], S!Down("Peers", es)) \in Seq(DownMsgs)  BY <2>1 DEF Outs
  <2> QED BY <2>2 DEF Outs, S!Sent
<1>2. S!Tell(acc.out, p, new) \in Outs
  <2>1. <<new>> \in Seq(S!Entries) /\ p.addr \in Clients /\ acc.out \in Outs
    BY DEF S!Entries, Accs
  <2> QED BY <1>1, <2>1 DEF S!Tell
<1>3. Append(acc.buf, p) \in Seq(S!Entries) /\ new.addr \in Clients
  BY DEF Accs, S!Entries
<1>4. <<>> \in Seq(S!Entries)  OBVIOUS
<1>5. S!Sent(S!Tell(acc.out, p, new), new.addr, S!Down("Peers", Append(acc.buf, p))) \in Outs
  BY <1>1, <1>2, <1>3
<1> QED BY <1>2, <1>3, <1>4, <1>5 DEF S!Visit, Accs

LEMMA VisitedRec ==
  ASSUME ServerTypes, NEW nodes \in Seq(S!Entries), NEW new \in S!Entries
  PROVE  /\ S!Visited(nodes, new) \in [0 .. Len(nodes) -> Accs]
         /\ S!Visited(nodes, new)[0] = [out |-> down, buf |-> <<>>]
         /\ \A n \in 1 .. Len(nodes) : S!Visited(nodes, new)[n]
              = S!Visit(S!Visited(nodes, new)[n - 1], nodes[n], new)
<1> DEFINE N == Len(nodes)
           b == [out |-> down, buf |-> <<>>]
           Rec(g) == g = [n \in 0 .. N |-> IF n = 0 THEN b
                                           ELSE S!Visit(g[n - 1], nodes[n], new)]
           F == [n \in 1 .. N |-> [acc \in Accs |-> S!Visit(acc, nodes[n], new)]]
<1>1. S!Visited(nodes, new) = CHOOSE g : Rec(g)  BY DEF S!Visited
<1>2. b \in Accs /\ N \in Nat  BY DEF ServerTypes, Accs
<1>3. F \in [1 .. N -> [Accs -> Accs]]
  <2>1. \A n \in 1 .. N : nodes[n] \in S!Entries  OBVIOUS
  <2> QED BY <2>1, VisitType
<1>4. PICK g \in [0 .. N -> Accs] : Steps(N, b, F, g)
  <2> HIDE DEF F, b, N
  <2> QED BY <1>2, <1>3, Recursion
<1>5. Rec(g)
  <2>1. ASSUME NEW n \in 0 .. N
        PROVE  g[n] = IF n = 0 THEN b ELSE S!Visit(g[n - 1], nodes[n], new)
    <3>1. CASE n = 0  BY <1>4, <3>1 DEF Steps
    <3>2. CASE n # 0
      <4>1. n \in 1 .. N /\ n - 1 \in 0 .. N  BY <1>2, <3>2
      <4>2. g[n - 1] \in Accs  BY <4>1
      <4>3. F[n][g[n - 1]] = S!Visit(g[n - 1], nodes[n], new)  BY <4>1, <4>2
      <4> QED BY <1>4, <3>2, <4>1, <4>3 DEF Steps
    <3> QED BY <3>1, <3>2
  <2>2. g = [n \in 0 .. N |-> g[n]]  OBVIOUS
  <2> HIDE DEF b, F, N
  <2> QED BY <2>1, <2>2
<1>6. Rec(S!Visited(nodes, new))
  <2> HIDE DEF Rec
  <2> QED BY <1>1, <1>5
<1> DEFINE v == S!Visited(nodes, new)
<1>7. /\ DOMAIN v = 0 .. N /\ v[0] = b
      /\ \A n \in 1 .. N : v[n] = S!Visit(v[n - 1], nodes[n], new)
  <2> HIDE DEF v, b, N
  <2>1. v = [n \in 0 .. N |-> IF n = 0 THEN b ELSE S!Visit(v[n - 1], nodes[n], new)]
    BY <1>6 DEF v
  <2>2. \A n \in 1 .. N : n \in 0 .. N /\ n # 0  BY <1>2
  <2>3. 0 \in 0 .. N  BY <1>2
  <2> QED BY <2>1, <2>2, <2>3
<1>8. \A n \in 0 .. N : v[n] \in Accs
  <2> DEFINE Good == {n \in 0 .. N : v[n] \in Accs}
  <2>1. 0 \in Good  BY <1>2, <1>7
  <2>2. ASSUME NEW n \in 1 .. N, n - 1 \in Good PROVE n \in Good
    <3>1. v[n - 1] \in Accs /\ nodes[n] \in S!Entries /\ n \in 0 .. N  BY <2>2
    <3> QED BY <1>7, <3>1, VisitType
  <2> HIDE DEF Good, v, N
  <2>3. \A n \in 0 .. N : n \in Good  BY <1>2, <2>1, <2>2, UpTo
  <2> QED BY <2>3 DEF Good
<1>9. v \in [0 .. N -> Accs]
  <2>1. v = [n \in 0 .. N |-> v[n]]
    <3> HIDE DEF b, N
    <3> QED BY <1>6
  <2> HIDE DEF v
  <2> QED BY <1>8, <2>1
<1> QED BY <1>7, <1>9

\* A part of the list of a session, in a datagram.
IsListMsg(m, nodes) ==
  m.cmd = "Peers" /\ Len(m.es) \in 1 .. ListMax /\ ToSet(m.es) \subseteq ToSet(nodes)

\* r are the datagrams q and behind them parts of the list.
News(q, r, nodes) ==
  /\ Len(q) <= Len(r) /\ \A i \in 1 .. Len(q) : r[i] = q[i]
  /\ \A i \in Len(q) + 1 .. Len(r) : IsListMsg(r[i], nodes)

OnlyNews(out, nodes) == \A x \in Clients : News(down[x], out[x], nodes)

\* Nothing that is on its way in out is missing in more.
Keeps(out, more) == \A x \in Clients : ToSet(out[x]) \subseteq ToSet(more[x])

Bears(m, e) == m.cmd = "Peers" /\ e \in ToSet(m.es)

LEMMA EntryAt ==
  ASSUME NEW nodes \in Seq(S!Entries), NEW k \in 1 .. Len(nodes)
  PROVE  /\ nodes[k] \in S!Entries /\ nodes[k] \in ToSet(nodes)
         /\ nodes[k].addr \in Clients /\ nodes[k].self \in Nat /\ nodes[k].session \in Nat
<1>1. nodes[k] \in S!Entries  OBVIOUS
<1>2. nodes[k] \in ToSet(nodes)  BY DEF ToSet
<1> QED BY <1>1, <1>2 DEF S!Entries

LEMMA EntryOf ==
  ASSUME NEW nodes \in Seq(S!Entries), NEW e \in ToSet(nodes)
  PROVE  /\ e \in S!Entries
         /\ e.addr \in Clients /\ e.self \in Nat /\ e.session \in Nat
<1>1. e \in S!Entries  BY DEF ToSet
<1> QED BY <1>1 DEF S!Entries

LEMMA SentNews ==
  ASSUME ServerTypes, NEW nodes \in Seq(S!Entries), NEW out \in Outs, NEW c \in Clients,
         OnlyNews(out, nodes),
         NEW es \in Seq(S!Entries), Len(es) \in 1 .. ListMax,
         ToSet(es) \subseteq ToSet(nodes),
         NEW sent, sent = S!Sent(out, c, S!Down("Peers", es))
  PROVE  /\ sent \in Outs
         /\ OnlyNews(sent, nodes)
         /\ Keeps(out, sent)
         /\ S!Down("Peers", es) \in ToSet(sent[c])
<1> DEFINE m == S!Down("Peers", es)
<1>1. m \in DownMsgs /\ IsListMsg(m, nodes)
  BY DEF S!Down, DownMsgs, S!Cmds, IsListMsg
<1> HIDE DEF m
<1>2. sent = [out EXCEPT ![c] = Append(@, m)]  BY DEF S!Sent, m
<1>3. \A x \in Clients : out[x] \in Seq(DownMsgs) /\ down[x] \in Seq(DownMsgs)
  BY DEF Outs, ServerTypes
<1>4. \A x \in Clients : sent[x] = IF x = c THEN Append(out[c], m) ELSE out[x]
  BY <1>2 DEF Outs
<1>5. Append(out[c], m) \in Seq(DownMsgs)  BY <1>1, <1>3
<1>6. sent \in Outs  BY <1>2, <1>5 DEF Outs
<1>7. ToSet(Append(out[c], m)) = ToSet(out[c]) \cup {m}  BY <1>1, <1>3, SetOfAppend
<1>8. News(down[c], Append(out[c], m), nodes)
  <2>1. News(down[c], out[c], nodes)  BY DEF OnlyNews
  <2>2. /\ Len(Append(out[c], m)) = Len(out[c]) + 1
        /\ Append(out[c], m)[Len(out[c]) + 1] = m
        /\ \A n \in 1 .. Len(out[c]) : Append(out[c], m)[n] = out[c][n]
    BY <1>1, <1>3
  <2>3. Len(out[c]) \in Nat /\ Len(down[c]) \in Nat /\ Len(down[c]) <= Len(out[c])
    BY <1>3, <2>1 DEF News
  <2>4. ASSUME NEW k \in Len(down[c]) + 1 .. Len(out[c]) + 1
        PROVE  IsListMsg(Append(out[c], m)[k], nodes)
    <3>1. CASE k = Len(out[c]) + 1  BY <1>1, <2>2, <3>1
    <3>2. CASE k # Len(out[c]) + 1
      <4>1. k \in Len(down[c]) + 1 .. Len(out[c]) /\ k \in 1 .. Len(out[c])
        BY <2>3, <3>2
      <4> QED BY <2>1, <2>2, <4>1 DEF News
    <3> QED BY <3>1, <3>2
  <2>5. \A k \in 1 .. Len(down[c]) : Append(out[c], m)[k] = down[c][k]
    <3>1. \A k \in 1 .. Len(down[c]) : k \in 1 .. Len(out[c])  BY <2>3
    <3> QED BY <2>1, <2>2, <3>1 DEF News
  <2>6. Len(down[c]) <= Len(Append(out[c], m))  BY <2>2, <2>3
  <2> QED BY <2>2, <2>4, <2>5, <2>6 DEF News
<1>9. OnlyNews(sent, nodes)  BY <1>4, <1>8 DEF OnlyNews
<1>10. Keeps(out, sent)  BY <1>4, <1>7 DEF Keeps
<1> QED BY <1>4, <1>6, <1>7, <1>9, <1>10 DEF m

\* What send_stun_list's loop has done when n nodes have been visited.
VisitInv(acc, n, nodes, new) ==
  /\ acc \in Accs /\ Len(acc.buf) < ListMax
  /\ ToSet(acc.buf) \subseteq ToSet(nodes)
  /\ OnlyNews(acc.out, nodes)
  /\ \A k \in 1 .. n : nodes[k].self # new.self =>
       \E m \in ToSet(acc.out[nodes[k].addr]) : Bears(m, new)
  /\ \A k \in 1 .. n : \/ nodes[k] \in ToSet(acc.buf)
                       \/ \E m \in ToSet(acc.out[new.addr]) : Bears(m, nodes[k])

LEMMA VisitStep ==
  ASSUME ServerTypes, NEW nodes \in Seq(S!Entries), NEW new \in ToSet(nodes),
         NEW n \in 1 .. Len(nodes), NEW acc, VisitInv(acc, n - 1, nodes, new)
  PROVE  VisitInv(S!Visit(acc, nodes[n], new), n, nodes, new)
<1> DEFINE p    == nodes[n]
           told == S!Tell(acc.out, p, new)
           buf  == Append(acc.buf, p)
           full == S!Sent(told, new.addr, S!Down("Peers", buf))
           next == S!Visit(acc, p, new)
<1>1. /\ p \in S!Entries /\ p \in ToSet(nodes) /\ p.addr \in Clients
      /\ new \in S!Entries /\ new.addr \in Clients
  BY EntryAt, EntryOf
<1>2. acc \in Accs /\ acc.out \in Outs /\ acc.buf \in Seq(S!Entries) /\ ListMax \in Nat \ {0}
  BY StunNetAssumption DEF VisitInv, Accs
<1>3. /\ <<new>> \in Seq(S!Entries) /\ Len(<<new>>) \in 1 .. ListMax
      /\ ToSet(<<new>>) = {new}
  BY <1>1, <1>2 DEF ToSet
<1>4. /\ told \in Outs
      /\ OnlyNews(told, nodes)
      /\ Keeps(acc.out, told)
      /\ p.self # new.self => \E m \in ToSet(told[p.addr]) : Bears(m, new)
  <2>1. CASE p.self = new.self  BY <1>2, <2>1 DEF S!Tell, VisitInv, Keeps
  <2>2. CASE p.self # new.self
    <3>1. told = S!Sent(acc.out, p.addr, S!Down("Peers", <<new>>))
      BY <2>2 DEF S!Tell
    <3>2. OnlyNews(acc.out, nodes)  BY DEF VisitInv
    <3>3. /\ told \in Outs
          /\ OnlyNews(told, nodes)
          /\ Keeps(acc.out, told)
          /\ S!Down("Peers", <<new>>) \in ToSet(told[p.addr])
      <4> HIDE DEF told, p
      <4> QED BY <1>1, <1>2, <1>3, <3>1, <3>2, SentNews
    <3>4. Bears(S!Down("Peers", <<new>>), new)  BY <1>3 DEF Bears, S!Down
    <3> QED BY <3>3, <3>4
  <2> QED BY <2>1, <2>2
<1>5. /\ buf \in Seq(S!Entries) /\ Len(buf) = Len(acc.buf) + 1
      /\ ToSet(buf) = ToSet(acc.buf) \cup {p} /\ Len(buf) \in 1 .. ListMax
      /\ ToSet(buf) \subseteq ToSet(nodes)
  <2>1. ToSet(buf) = ToSet(acc.buf) \cup {p}  BY <1>1, <1>2, SetOfAppend
  <2>2. buf \in Seq(S!Entries) /\ Len(buf) = Len(acc.buf) + 1 /\ Len(acc.buf) \in Nat
    BY <1>1, <1>2
  <2> QED BY <1>1, <1>2, <2>1, <2>2 DEF VisitInv
<1>6. next = IF Len(buf) = ListMax THEN [out |-> full, buf |-> <<>>]
                                   ELSE [out |-> told, buf |-> buf]
  BY DEF S!Visit
<1>7. next \in Accs
  <2> HIDE DEF p
  <2> QED BY <1>1, <1>2, VisitType
<1>8. /\ full \in Outs
      /\ OnlyNews(full, nodes)
      /\ Keeps(told, full)
      /\ S!Down("Peers", buf) \in ToSet(full[new.addr])
  <2>1. full = S!Sent(told, new.addr, S!Down("Peers", buf))  OBVIOUS
  <2> HIDE DEF told, buf, full
  <2> QED BY <1>1, <1>4, <1>5, <2>1, SentNews
<1>9. /\ Len(next.buf) < ListMax /\ ToSet(next.buf) \subseteq ToSet(nodes)
      /\ OnlyNews(next.out, nodes)
      /\ Keeps(told, next.out)
  <2> HIDE DEF told, buf, full, next, p
  <2>1. ToSet(<<>>) = {} /\ Len(<<>>) = 0  BY DEF ToSet
  <2>2. CASE Len(buf) = ListMax
    <3>1. next.out = full /\ next.buf = <<>>  BY <1>6, <2>2
    <3> QED BY <1>2, <1>4, <1>8, <2>1, <3>1
  <2>3. CASE Len(buf) # ListMax
    <3>1. Len(buf) < ListMax  BY <1>2, <1>5, <2>3
    <3> QED BY <1>4, <1>5, <1>6, <2>3, <3>1 DEF Keeps
  <2> QED BY <2>2, <2>3
<1>10. Keeps(acc.out, next.out)
  <2> HIDE DEF told, next
  <2> QED BY <1>4, <1>9 DEF Keeps
<1>11. \A k \in 1 .. n : k = n \/ k \in 1 .. n - 1  OBVIOUS
<1>12. \A k \in 1 .. n : nodes[k].addr \in Clients
  <2>1. \A k \in 1 .. n : k \in 1 .. Len(nodes)  OBVIOUS
  <2> QED BY <2>1, EntryAt
<1>13. ASSUME NEW k \in 1 .. n, nodes[k].self # new.self
       PROVE  \E m \in ToSet(next.out[nodes[k].addr]) : Bears(m, new)
  <2>1. CASE k = n
    <3> HIDE DEF told, next
    <3> QED BY <1>1, <1>4, <1>9, <1>13, <2>1 DEF Keeps
  <2>2. CASE k \in 1 .. n - 1
    <3> HIDE DEF told, next, p
    <3> QED BY <1>10, <1>12, <1>13, <2>2 DEF VisitInv, Keeps
  <2> QED BY <1>11, <2>1, <2>2
<1>14. ASSUME NEW x \in ToSet(buf)
       PROVE  \/ x \in ToSet(next.buf)
              \/ \E m \in ToSet(next.out[new.addr]) : Bears(m, x)
  <2>1. CASE Len(buf) # ListMax
    <3> HIDE DEF told, next, buf, full
    <3> QED BY <1>6, <1>14, <2>1
  <2>2. CASE Len(buf) = ListMax
    <3>1. Bears(S!Down("Peers", buf), x)  BY <1>14 DEF Bears, S!Down
    <3> HIDE DEF told, next, buf, full
    <3> QED BY <1>6, <1>8, <2>2, <3>1
  <2> QED BY <2>1, <2>2
<1>15. ASSUME NEW k \in 1 .. n
       PROVE  \/ nodes[k] \in ToSet(next.buf)
              \/ \E m \in ToSet(next.out[new.addr]) : Bears(m, nodes[k])
  <2> HIDE DEF told, next, buf, full
  <2>1. CASE k = n  BY <1>5, <1>14, <2>1 DEF p
  <2>2. CASE k \in 1 .. n - 1
    <3>1. CASE nodes[k] \in ToSet(acc.buf)  BY <1>5, <1>14, <3>1
    <3>2. CASE \E m \in ToSet(acc.out[new.addr]) : Bears(m, nodes[k])
      BY <1>1, <1>10, <3>2 DEF Keeps
    <3> QED BY <2>2, <3>1, <3>2 DEF VisitInv
  <2> QED BY <1>11, <2>1, <2>2
<1> HIDE DEF next
<1> QED BY <1>7, <1>9, <1>13, <1>15 DEF VisitInv, p, next

\* Everybody with another self_session_id is told of the new client, and the
\* new client of everybody.
LEMMA ListSent ==
  ASSUME ServerTypes, NEW nodes \in Seq(S!Entries), NEW new \in ToSet(nodes),
         NEW sent, sent = S!SendStunList(nodes, new)
  PROVE  /\ sent \in Outs
         /\ OnlyNews(sent, nodes)
         /\ Len(nodes) > 1 => \A k \in 1 .. Len(nodes) :
              /\ nodes[k].self # new.self =>
                   \E m \in ToSet(sent[nodes[k].addr]) : Bears(m, new)
              /\ \E m \in ToSet(sent[new.addr]) : Bears(m, nodes[k])
<1> DEFINE N == Len(nodes)
           v == S!Visited(nodes, new)
           end == v[N]
           Good == {n \in 0 .. N : VisitInv(v[n], n, nodes, new)}
<1>1. N \in Nat /\ new \in S!Entries /\ new.addr \in Clients
  BY EntryOf
<1>2. down \in Outs /\ OnlyNews(down, nodes)
  <2>1. \A x \in Clients : Len(down[x]) \in Nat  BY DEF ServerTypes, Outs
  <2> QED BY <2>1 DEF ServerTypes, News, OnlyNews
<1>3. /\ v \in [0 .. N -> Accs] /\ v[0] = [out |-> down, buf |-> <<>>]
      /\ \A n \in 1 .. N : v[n] = S!Visit(v[n - 1], nodes[n], new)
  BY <1>1, VisitedRec
<1>4. VisitInv(v[0], 0, nodes, new)
  <2>1. ToSet(<<>>) = {} /\ Len(<<>>) = 0  BY DEF ToSet
  <2>2. v[0].out = down /\ v[0].buf = <<>> /\ v[0] \in Accs  BY <1>1, <1>3
  <2> HIDE DEF v
  <2> QED BY <1>2, <2>1, <2>2, StunNetAssumption DEF VisitInv
<1>5. \A n \in 0 .. N : n \in Good
  <2>1. 0 \in Good  BY <1>1, <1>4
  <2>2. ASSUME NEW n \in 1 .. N, n - 1 \in Good PROVE n \in Good
    <3>1. n \in 0 .. N  OBVIOUS
    <3> HIDE DEF v
    <3>2. VisitInv(v[n], n, nodes, new)  BY <1>3, <2>2, VisitStep
    <3> QED BY <3>1, <3>2
  <2> HIDE DEF Good, N
  <2> QED BY <1>1, <2>1, <2>2, UpTo
<1>6. VisitInv(end, N, nodes, new)  BY <1>1, <1>5
<1> HIDE DEF v, Good
<1>7. CASE N <= 1  BY <1>1, <1>2, <1>7 DEF S!SendStunList
<1>8. CASE N > 1 /\ end.buf = <<>>
  <2>1. sent = end.out  BY <1>1, <1>8 DEF S!SendStunList, v
  <2>2. ToSet(end.buf) = {}  BY <1>8 DEF ToSet
  <2> HIDE DEF end
  <2> QED BY <1>6, <2>1, <2>2 DEF VisitInv, Accs
<1>9. CASE N > 1 /\ end.buf # <<>>
  <2>1. sent = S!Sent(end.out, new.addr, S!Down("Peers", end.buf))
    BY <1>1, <1>9 DEF S!SendStunList, v
  <2> HIDE DEF end
  <2>2. /\ end.out \in Outs /\ end.buf \in Seq(S!Entries)
        /\ OnlyNews(end.out, nodes)
        /\ ToSet(end.buf) \subseteq ToSet(nodes) /\ Len(end.buf) \in 1 .. ListMax
    <3>1. end.buf \in Seq(S!Entries)  BY <1>6 DEF VisitInv, Accs
    <3>2. Len(end.buf) \in Nat \ {0}  BY <1>9, <3>1
    <3> QED BY <1>6, <3>1, <3>2, StunNetAssumption DEF VisitInv, Accs
  <2>3. /\ sent \in Outs
        /\ OnlyNews(sent, nodes)
        /\ Keeps(end.out, sent)
        /\ S!Down("Peers", end.buf) \in ToSet(sent[new.addr])
    BY <1>1, <2>1, <2>2, SentNews
  <2>4. ASSUME NEW k \in 1 .. N
        PROVE  /\ nodes[k].self # new.self =>
                    \E m \in ToSet(sent[nodes[k].addr]) : Bears(m, new)
               /\ \E m \in ToSet(sent[new.addr]) : Bears(m, nodes[k])
    <3>1. nodes[k].addr \in Clients  BY EntryAt
    <3>2. \A x \in ToSet(end.buf) : Bears(S!Down("Peers", end.buf), x)
      BY DEF Bears, S!Down
    <3> QED BY <1>1, <1>6, <2>3, <3>1, <3>2 DEF VisitInv, Keeps
  <2> QED BY <2>3, <2>4
<1> QED BY <1>1, <1>7, <1>8, <1>9

-----------------------------------------------------------------------------
(* What client_recv_run adds to a list. *)

LEMMA NodeType ==
  ASSUME NEW e \in S!Entries
  PROVE  /\ Node(e) \in Nodes
         /\ Node(e).session = e.session /\ Node(e).self = e.self /\ Node(e).addr = e.addr
<1>1. e.session \in Nat /\ e.self \in Nat /\ e.addr \in Clients  BY DEF S!Entries
<1> QED BY <1>1 DEF Node, Nodes

LEMMA AddedRec ==
  ASSUME NEW c \in Clients, NEW l \in ClientLists, NEW es \in Seq(S!Entries)
  PROVE  /\ Added(c, l, es)[0] = l.nodes
         /\ \A n \in 1 .. Len(es) : Added(c, l, es)[n] =
              IF Skipped(c, l, es[n]) THEN Added(c, l, es)[n - 1]
              ELSE Append(Added(c, l, es)[n - 1], Node(es[n]))
<1> DEFINE N == Len(es)
           Add(q, n) == IF Skipped(c, l, es[n]) THEN q ELSE Append(q, Node(es[n]))
           Rec(g) == g = [n \in 0 .. N |-> IF n = 0 THEN l.nodes ELSE
                            IF Skipped(c, l, es[n]) THEN g[n - 1]
                            ELSE Append(g[n - 1], Node(es[n]))]
           F == [n \in 1 .. N |-> [q \in Seq(Nodes) |-> Add(q, n)]]
<1>1. Added(c, l, es) = CHOOSE g : Rec(g)  BY DEF Added
<1>2. l.nodes \in Seq(Nodes) /\ N \in Nat  BY DEF ClientLists
<1>3. F \in [1 .. N -> [Seq(Nodes) -> Seq(Nodes)]]
  <2>1. ASSUME NEW n \in 1 .. N, NEW q \in Seq(Nodes) PROVE Add(q, n) \in Seq(Nodes)
    <3>1. Node(es[n]) \in Nodes  BY NodeType
    <3> QED BY <3>1
  <2> HIDE DEF Add
  <2> QED BY <2>1
<1>4. PICK g \in [0 .. N -> Seq(Nodes)] : Steps(N, l.nodes, F, g)
  <2> HIDE DEF F, N
  <2> QED BY <1>2, <1>3, Recursion
<1>5. Rec(g)
  <2>1. ASSUME NEW n \in 0 .. N
        PROVE  g[n] = IF n = 0 THEN l.nodes ELSE Add(g[n - 1], n)
    <3>1. CASE n = 0  BY <1>4, <3>1 DEF Steps
    <3>2. CASE n # 0
      <4>1. n \in 1 .. N /\ n - 1 \in 0 .. N  BY <1>2, <3>2
      <4>2. g[n - 1] \in Seq(Nodes)  BY <4>1
      <4> HIDE DEF Add
      <4>3. F[n][g[n - 1]] = Add(g[n - 1], n)  BY <4>1, <4>2
      <4> QED BY <1>4, <3>2, <4>1, <4>3 DEF Steps
    <3> QED BY <3>1, <3>2
  <2>2. g = [n \in 0 .. N |-> g[n]]  OBVIOUS
  <2>3. g = [n \in 0 .. N |-> IF n = 0 THEN l.nodes ELSE Add(g[n - 1], n)]
    <3> HIDE DEF Add, F, N
    <3> QED BY <2>1, <2>2
  <2> QED BY <2>3
<1>6. Rec(Added(c, l, es))
  <2> HIDE DEF Rec
  <2> QED BY <1>1, <1>5
<1> DEFINE v == Added(c, l, es)
<1>7. v[0] = l.nodes /\ \A n \in 1 .. N : v[n] = Add(v[n - 1], n)
  <2>1. v = [n \in 0 .. N |-> IF n = 0 THEN l.nodes ELSE Add(v[n - 1], n)]
    BY <1>6
  <2> HIDE DEF v, N, Add
  <2>2. \A n \in 1 .. N : n \in 0 .. N /\ n # 0  BY <1>2
  <2>3. 0 \in 0 .. N  BY <1>2
  <2> QED BY <2>1, <2>2, <2>3
<1> QED BY <1>7

\* What has been added when n entries of a datagram have been looked at.
AddInv(q, n, c, l, es) ==
  /\ q \in Seq(Nodes)
  /\ Len(l.nodes) <= Len(q) /\ \A k \in 1 .. Len(l.nodes) : q[k] = l.nodes[k]
  /\ \A x \in ToSet(q) : \/ x \in ToSet(l.nodes)
                         \/ \E e \in ToSet(es) : x.session = e.session
  /\ \A k \in 1 .. n : ~Skipped(c, l, es[k]) =>
       \E x \in ToSet(q) : x.self = es[k].self /\ x.addr = es[k].addr

LEMMA AddStep ==
  ASSUME NEW c \in Clients, NEW l \in ClientLists, NEW es \in Seq(S!Entries),
         NEW n \in 1 .. Len(es), NEW q, AddInv(q, n - 1, c, l, es)
  PROVE  AddInv(IF Skipped(c, l, es[n]) THEN q ELSE Append(q, Node(es[n])), n, c, l, es)
<1>1. \A k \in 1 .. n : k = n \/ k \in 1 .. n - 1  OBVIOUS
<1>2. CASE Skipped(c, l, es[n])  BY <1>1, <1>2 DEF AddInv
<1>3. CASE ~Skipped(c, l, es[n])
  <2> DEFINE r == Append(q, Node(es[n]))
  <2>1. es[n] \in S!Entries /\ es[n] \in ToSet(es)  BY EntryAt
  <2>2. /\ Node(es[n]) \in Nodes /\ Node(es[n]).self = es[n].self
        /\ Node(es[n]).session = es[n].session /\ Node(es[n]).addr = es[n].addr
    BY <2>1, NodeType
  <2>3. q \in Seq(Nodes) /\ l.nodes \in Seq(Nodes)  BY DEF AddInv, ClientLists
  <2>4. ToSet(r) = ToSet(q) \cup {Node(es[n])}  BY <2>2, <2>3, SetOfAppend
  <2>5. /\ r \in Seq(Nodes) /\ Len(r) = Len(q) + 1 /\ Len(q) \in Nat
        /\ Len(l.nodes) \in Nat
        /\ \A k \in 1 .. Len(q) : r[k] = q[k]
    BY <2>2, <2>3
  <2> HIDE DEF r
  <2>6. Len(l.nodes) <= Len(r) /\ \A k \in 1 .. Len(l.nodes) : r[k] = l.nodes[k]
    BY <2>5 DEF AddInv
  <2>7. \A x \in ToSet(r) : \/ x \in ToSet(l.nodes)
                            \/ \E e \in ToSet(es) : x.session = e.session
    BY <2>1, <2>2, <2>4 DEF AddInv
  <2>8. \A k \in 1 .. n : ~Skipped(c, l, es[k]) =>
          \E x \in ToSet(r) : x.self = es[k].self /\ x.addr = es[k].addr
    BY <1>1, <2>2, <2>4 DEF AddInv
  <2>9. AddInv(r, n, c, l, es)  BY <2>5, <2>6, <2>7, <2>8 DEF AddInv
  <2> QED BY <1>3, <2>9 DEF r
<1> QED BY <1>2, <1>3

\* The entries of a datagram are added, but for the client itself in its own
\* session.
LEMMA PeersAdded ==
  ASSUME NEW c \in Clients, NEW l \in ClientLists, NEW es \in Seq(S!Entries),
         NEW new, new = WithPeers(c, l, es)
  PROVE  /\ new \in ClientLists /\ new.made = l.made /\ new.session = l.session
         /\ AddInv(new.nodes, Len(es), c, l, es)
<1> DEFINE v == Added(c, l, es)
           N == Len(es)
           Good == {n \in 0 .. N : AddInv(v[n], n, c, l, es)}
<1>1. N \in Nat /\ l.nodes \in Seq(Nodes)  BY DEF ClientLists
<1>2. /\ v[0] = l.nodes
      /\ \A n \in 1 .. N : v[n] = IF Skipped(c, l, es[n]) THEN v[n - 1]
                                  ELSE Append(v[n - 1], Node(es[n]))
  BY AddedRec
<1>3. \A n \in 0 .. N : n \in Good
  <2> HIDE DEF v
  <2>1. 0 \in Good
    <3>1. Len(l.nodes) \in Nat  BY <1>1
    <3> QED BY <1>1, <1>2, <3>1 DEF AddInv
  <2>2. ASSUME NEW n \in 1 .. N, n - 1 \in Good PROVE n \in Good
    <3>1. n \in 0 .. N  OBVIOUS
    <3>2. AddInv(v[n], n, c, l, es)
      <4>1. AddInv(v[n - 1], n - 1, c, l, es)  BY <2>2
      <4> QED BY <1>2, <4>1, AddStep
    <3> QED BY <3>1, <3>2
  <2> HIDE DEF Good, N
  <2> QED BY <1>1, <2>1, <2>2, UpTo
<1>4. AddInv(v[N], N, c, l, es)  BY <1>1, <1>3
<1>5. new = [l EXCEPT !.nodes = v[N]]  BY DEF WithPeers
<1> HIDE DEF v, N
<1>6. v[N] \in Seq(Nodes)  BY <1>4 DEF AddInv
<1>7. /\ new \in ClientLists /\ new.made = l.made /\ new.session = l.session
      /\ new.nodes = v[N]
  BY <1>5, <1>6 DEF ClientLists
<1> QED BY <1>4, <1>7 DEF N

-----------------------------------------------------------------------------
(* The invariant. *)

\* A datagram to a client holds sessions that were given out, and as many as
\* fit.
Fit == \A c \in Clients : \A m \in ToSet(down[c]) :
         Len(m.es) \in 1 .. ListMax /\ \A e \in ToSet(m.es) : e.session \in 1 .. globSession

\* The answer to a registration is about the client itself.
Answers == \A c \in Clients : \A m \in ToSet(down[c]) : m.cmd = "Reg" =>
             m.es[1].addr = c /\ m.es[1].self = m.es[1].session /\ m.es[1].session > 1

\* A session, taken or in an answer, is one client's.
OneEach ==
  /\ \A c, d \in Clients : \A m \in ToSet(down[c]), w \in ToSet(down[d]) :
       m.cmd = "Reg" /\ w.cmd = "Reg" /\ m.es[1].session = w.es[1].session => c = d
  /\ \A c, d \in Clients : \A m \in ToSet(down[c]) :
       m.cmd = "Reg" /\ m.es[1].session = self[d] => c = d
  /\ \A c, d \in Clients : self[c] = self[d] /\ self[c] # 0 => c = d

OwnLists == \A c \in Clients :
  /\ self[c] <= globSession
  /\ self[c] # 0 <=> list[c][Own].made
  /\ self[c] # 0 => /\ session[c] = self[c] /\ list[c][Own].session = self[c]
                    /\ list[c][Own].nodes # <<>>
                    /\ list[c][Own].nodes[1].addr = c
                    /\ list[c][Own].nodes[1].self = self[c]
  /\ \A k \in Lists : ~list[c][k].made => list[c][k].nodes = <<>>

KnownSessions == \A c \in Clients, k \in Lists : \A x \in ToSet(list[c][k].nodes) :
                   x.session \in 1 .. globSession

\* A list is in the place of its session, and about sessions given out.
PlacesTaken == \A n \in 0 .. MaxOnline - 1 :
  /\ ~slot[n].made => ~slot[n].freed /\ slot[n].nodes = <<>>
  /\ slot[n].made => slot[n].session \in 2 .. globSession /\ S!Place(slot[n].session) = n
  /\ \A e \in ToSet(slot[n].nodes) : e.session \in 1 .. globSession

IInv == /\ Types /\ Fit /\ Answers /\ OneEach /\ OwnLists /\ KnownSessions
        /\ PlacesTaken

-----------------------------------------------------------------------------
(* Types. *)

LEMMA PlaceIn ==
  ASSUME NEW s \in Nat
  PROVE  S!Place(s) \in 0 .. MaxOnline - 1
BY StunNetAssumption DEF S!Place

LEMMA EntryType ==
  ASSUME NEW s \in Nat, NEW t \in Nat, NEW c \in Clients, NEW cmd \in S!Cmds
  PROVE  /\ S!Entry(s, t, c) \in S!Entries
         /\ S!Down(cmd, <<S!Entry(s, t, c)>>) \in DownMsgs
BY DEF S!Entry, S!Entries, S!Down, DownMsgs

LEMMA SentType ==
  ASSUME NEW out \in Outs, NEW c \in Clients, NEW msg \in DownMsgs
  PROVE  /\ S!Sent(out, c, msg) \in Outs
         /\ \A x \in Clients : S!Sent(out, c, msg)[x]
              = IF x = c THEN Append(out[c], msg) ELSE out[x]
<1>1. Append(out[c], msg) \in Seq(DownMsgs)  BY DEF Outs
<1> QED BY <1>1 DEF S!Sent, Outs

LEMMA TakenUp ==
  ASSUME ClientTypes, NEW c \in Clients, up[c] # <<>>
  PROVE  /\ Head(up[c]) \in UpMsgs /\ Head(up[c]) \in ToSet(up[c])
         /\ Head(up[c]).session \in Nat /\ Head(up[c]).self \in Nat
<1>1. up[c] \in Seq(UpMsgs)  BY DEF ClientTypes
<1>2. Head(up[c]) \in UpMsgs /\ Head(up[c]) \in ToSet(up[c])  BY <1>1, SetOfTail
<1> QED BY <1>2 DEF UpMsgs

LEMMA TakenDown ==
  ASSUME ServerTypes, Fit, NEW c \in Clients, down[c] # <<>>
  PROVE  /\ Head(down[c]) \in DownMsgs /\ Head(down[c]) \in ToSet(down[c])
         /\ Head(down[c]).es \in Seq(S!Entries)
         /\ Len(Head(down[c]).es) \in 1 .. ListMax
         /\ Head(down[c]).es[1] \in S!Entries
         /\ Head(down[c]).es[1] \in ToSet(Head(down[c]).es)
<1>1. down[c] \in Seq(DownMsgs)  BY DEF ServerTypes, Outs
<1>2. Head(down[c]) \in DownMsgs /\ Head(down[c]) \in ToSet(down[c])  BY <1>1, SetOfTail
<1>3. Head(down[c]).es \in Seq(S!Entries)  BY <1>2 DEF DownMsgs
<1>4. Len(Head(down[c]).es) \in 1 .. ListMax  BY <1>2 DEF Fit
<1>5. 1 \in 1 .. Len(Head(down[c]).es)  BY <1>4, StunNetAssumption
<1> QED BY <1>2, <1>3, <1>4, <1>5, EntryAt

LEMMA NewSlot ==
  ASSUME NEW l \in Slots, NEW q \in Seq(S!Entries), NEW t \in Nat, NEW new,
         new = [l EXCEPT !.made = TRUE, !.session = t, !.nodes = q]
  PROVE  /\ new \in Slots /\ new.made = TRUE /\ new.freed = l.freed
         /\ new.session = t /\ new.nodes = q
BY DEF Slots

LEMMA FreedSlot ==
  ASSUME NEW l \in Slots, NEW q \in Seq(S!Entries), NEW new,
         new = [l EXCEPT !.freed = TRUE, !.nodes = q]
  PROVE  /\ new \in Slots /\ new.made = l.made /\ new.freed = TRUE
         /\ new.session = l.session /\ new.nodes = q
BY DEF Slots

LEMMA ServerType ==
  ASSUME ServerTypes, NEW m \in UpMsgs, NEW c \in Clients, S!ServerRecv(m, c)
  PROVE  ServerTypes'
<1>1. /\ m.session \in Nat /\ m.self \in Nat /\ m.cmd \in S!Cmds
      /\ down \in Outs /\ globSession \in Nat \ {0}
      /\ slot \in [0 .. MaxOnline - 1 -> Slots] /\ wild \in BOOLEAN
  BY DEF UpMsgs, ServerTypes
<1>2. CASE S!Register(m, c)
  <2> DEFINE e == S!Entry(globSession + 1, globSession + 1, c)
             n == S!Place(globSession + 1)
  <2>1. e \in S!Entries /\ S!Down("Reg", <<e>>) \in DownMsgs
    BY <1>1, EntryType DEF S!Cmds
  <2>2. n \in 0 .. MaxOnline - 1
    <3>1. globSession + 1 \in Nat  BY <1>1
    <3> QED BY <3>1, PlaceIn
  <2>3. slot[n] \in Slots /\ slot[n].nodes \in Seq(S!Entries)  BY <1>1, <2>2 DEF Slots
  <2>4. Append(slot[n].nodes, e) \in Seq(S!Entries)  BY <2>1, <2>3
  <2> HIDE DEF e, n
  <2>5. down' = S!Sent(down, c, S!Down("Reg", <<e>>))
    BY <1>2 DEF S!Register, S!NewSession, e
  <2>6. down' \in Outs  BY <1>1, <2>1, <2>5, SentType
  <2> DEFINE q   == Append(slot[n].nodes, e)
             new == [slot[n] EXCEPT !.made = TRUE, !.session = globSession + 1,
                                    !.nodes = q]
  <2>7. slot' = [slot EXCEPT ![n] = new]
    BY <1>2 DEF S!Register, S!NewSession, e, n
  <2>8. new \in Slots
    <3>1. q \in Seq(S!Entries) /\ globSession + 1 \in Nat  BY <1>1, <2>4
    <3> HIDE DEF q
    <3> QED BY <2>3, <3>1, NewSlot
  <2>9. slot' \in [0 .. MaxOnline - 1 -> Slots]
    <3> HIDE DEF q, new
    <3> QED BY <1>1, <2>2, <2>7, <2>8
  <2>10. globSession' = globSession + 1 /\ wild' = wild
    BY <1>2 DEF S!Register, S!NewSession
  <2> QED BY <1>1, <2>6, <2>9, <2>10 DEF ServerTypes
<1>3. CASE S!Join(m, c)
  <2> DEFINE e == S!Entry(m.session, m.self, c)
             n == S!Place(m.session)
             nodes == Append(slot[n].nodes, e)
  <2>1. e \in S!Entries  BY <1>1, EntryType DEF S!Cmds
  <2>2. n \in 0 .. MaxOnline - 1  BY <1>1, PlaceIn
  <2>3. slot[n] \in Slots /\ slot[n].nodes \in Seq(S!Entries)  BY <1>1, <2>2 DEF Slots
  <2>4. nodes \in Seq(S!Entries) /\ e \in ToSet(nodes)
    BY <2>1, <2>3, SetOfAppend
  <2>5. down' = S!SendStunList(nodes, e)  BY <1>3 DEF S!Join
  <2>6. slot' = [slot EXCEPT ![n].nodes = nodes] /\ globSession' = globSession /\ wild' = wild
    BY <1>3 DEF S!Join
  <2> HIDE DEF e, n, nodes
  <2>7. down' \in Outs  BY <2>4, <2>5, ListSent
  <2>8. slot' \in [0 .. MaxOnline - 1 -> Slots]  BY <1>1, <2>2, <2>3, <2>4, <2>6 DEF Slots
  <2> QED BY <1>1, <2>6, <2>7, <2>8 DEF ServerTypes
<1>4. CASE S!Echo(m, c)
  <2>1. S!Down(m.cmd, <<S!Entry(m.session, m.self, c)>>) \in DownMsgs
    BY <1>1, EntryType
  <2>2. down' \in Outs  BY <1>1, <1>4, <2>1, SentType DEF S!Echo
  <2> QED BY <1>1, <1>4, <2>2 DEF S!Echo, ServerTypes
<1>5. CASE S!Exit(m, c)
  <2>1. S!Down("Exit", <<S!Entry(m.session, m.self, c)>>) \in DownMsgs
    BY <1>1, EntryType DEF S!Cmds
  <2>2. down' \in Outs  BY <1>1, <1>5, <2>1, SentType DEF S!Exit
  <2> DEFINE n == S!Place(m.session)
  <2>3. n \in 0 .. MaxOnline - 1 /\ slot[n] \in Slots  BY <1>1, PlaceIn
  <2>4. /\ slot' = [slot EXCEPT ![n].freed = TRUE, ![n].nodes = <<>>]
        /\ globSession' = globSession /\ wild' = wild
    BY <1>5 DEF S!Exit
  <2> HIDE DEF n
  <2>5. slot' \in [0 .. MaxOnline - 1 -> Slots]
    <3> DEFINE gone == [slot[n] EXCEPT !.freed = TRUE, !.nodes = <<>>]
    <3>1. gone \in Slots
      <4>1. <<>> \in Seq(S!Entries)  OBVIOUS
      <4> HIDE DEF gone
      <4> QED BY <2>3, <4>1, FreedSlot DEF gone
    <3>2. slot' = [slot EXCEPT ![n] = gone]  BY <1>1, <2>3, <2>4
    <3> HIDE DEF gone
    <3> QED BY <1>1, <2>3, <3>1, <3>2
  <2> QED BY <1>1, <2>2, <2>4, <2>5 DEF ServerTypes
<1>6. CASE S!UseFreed(m, c)  BY <1>1, <1>6 DEF S!UseFreed, ServerTypes
<1>7. CASE S!Ignore(m, c)  BY <1>1, <1>7 DEF S!Ignore, S!serverVars, ServerTypes
<1> QED BY <1>2, <1>3, <1>4, <1>5, <1>6, <1>7 DEF S!ServerRecv

LEMMA ListSet ==
  ASSUME ClientTypes, NEW c \in Clients, NEW k \in Lists, NEW new \in ClientLists,
         list' = [list EXCEPT ![c][k] = new]
  PROVE  /\ list' \in [Clients -> [Lists -> ClientLists]]
         /\ \A d \in Clients, j \in Lists :
              list'[d][j] = IF d = c /\ j = k THEN new ELSE list[d][j]
BY DEF ClientTypes

\* new is l with some nodes marked as connected or pinged.
Remarked(l, new) ==
  /\ new.made = l.made /\ new.session = l.session /\ Len(new.nodes) = Len(l.nodes)
  /\ \A n \in 1 .. Len(l.nodes) : /\ new.nodes[n].session = l.nodes[n].session
                                  /\ new.nodes[n].self = l.nodes[n].self
                                  /\ new.nodes[n].addr = l.nodes[n].addr

LEMMA NewNodes ==
  ASSUME NEW l \in ClientLists, NEW q \in Seq(Nodes), NEW new,
         new = [l EXCEPT !.nodes = q]
  PROVE  /\ new \in ClientLists /\ new.made = l.made /\ new.session = l.session
         /\ new.nodes = q
BY DEF ClientLists

LEMMA NodePinged ==
  ASSUME NEW x \in Nodes, NEW t \in Nat, NEW new, new = [x EXCEPT !.pings = t]
  PROVE  /\ new \in Nodes /\ new.session = x.session /\ new.self = x.self
         /\ new.addr = x.addr
BY DEF Nodes

LEMMA ListIn ==
  ASSUME ClientTypes, NEW c \in Clients, NEW k \in Lists
  PROVE  /\ list[c][k] \in ClientLists /\ list[c][k].nodes \in Seq(Nodes)
         /\ Len(list[c][k].nodes) \in Nat
         /\ \A n \in 1 .. Len(list[c][k].nodes) : list[c][k].nodes[n] \in Nodes
BY DEF ClientTypes, ClientLists

LEMMA ListsAre == Own \in Lists /\ Joined \in Lists /\ Own # Joined
                  /\ \A c, s : ListOf(c, s) \in Lists
BY DEF Own, Joined, Lists, ListOf

LEMMA AckDoes ==
  ASSUME ClientTypes, NEW c \in Clients, NEW m, RecvAck(c, m)
  PROVE  \E k \in Lists, new \in ClientLists :
           Remarked(list[c][k], new) /\ list' = [list EXCEPT ![c][k] = new]
<1> DEFINE k   == ListOf(c, m.session)
           l   == list[c][k]
           N   == FirstOf(l.nodes, m.self)
           q   == [n \in DOMAIN l.nodes |-> IF n \in N
                     THEN [l.nodes[n] EXCEPT !.cnn = TRUE] ELSE l.nodes[n]]
           new == [l EXCEPT !.nodes = q]
<1>1. k \in Lists  BY ListsAre
<1> HIDE DEF k
<1>2. /\ l \in ClientLists /\ l.nodes \in Seq(Nodes) /\ Len(l.nodes) \in Nat
      /\ DOMAIN l.nodes = 1 .. Len(l.nodes)
      /\ \A n \in 1 .. Len(l.nodes) : l.nodes[n] \in Nodes
  <2>1. /\ l \in ClientLists /\ l.nodes \in Seq(Nodes) /\ Len(l.nodes) \in Nat
        /\ \A n \in 1 .. Len(l.nodes) : l.nodes[n] \in Nodes
    BY <1>1, ListIn
  <2> QED BY <2>1
<1>3. list' = [list EXCEPT ![c][k] = new]
  BY DEF RecvAck, k
<1> HIDE DEF l, N
<1>4. \A n \in 1 .. Len(l.nodes) :
        /\ q[n] \in Nodes /\ q[n].session = l.nodes[n].session
        /\ q[n].self = l.nodes[n].self /\ q[n].addr = l.nodes[n].addr
  BY <1>2 DEF Nodes
<1>5. q \in Seq(Nodes) /\ Len(q) = Len(l.nodes)
  <2>1. q \in [1 .. Len(l.nodes) -> Nodes]  BY <1>2, <1>4
  <2> HIDE DEF q
  <2> QED BY <1>2, <2>1
<1> HIDE DEF q
<1>6. /\ new \in ClientLists /\ new.made = l.made /\ new.session = l.session
      /\ new.nodes = q
  BY <1>2, <1>5, NewNodes
<1>7. Remarked(l, new)  BY <1>4, <1>5, <1>6 DEF Remarked
<1> HIDE DEF new
<1> QED BY <1>1, <1>3, <1>6, <1>7 DEF l

LEMMA PingDoes ==
  ASSUME ClientTypes, NEW c \in Clients, NEW k \in Lists, NEW n, Ping(c, k, n)
  PROVE  \E new \in ClientLists :
           Remarked(list[c][k], new) /\ list' = [list EXCEPT ![c][k] = new]
<1> DEFINE l   == list[c][k]
           p   == [l.nodes[n] EXCEPT !.pings = @ + 1]
           q   == [l.nodes EXCEPT ![n] = p]
           new == [l EXCEPT !.nodes = q]
<1>1. /\ l \in ClientLists /\ l.nodes \in Seq(Nodes) /\ Len(l.nodes) \in Nat
      /\ \A x \in 1 .. Len(l.nodes) : l.nodes[x] \in Nodes
  BY ListIn
<1>2. n \in 1 .. Len(l.nodes)
  <2>1. n \in DOMAIN l.nodes  BY DEF Ping
  <2> QED BY <1>1, <2>1
<1>3. list' = [list EXCEPT ![c][k] = new]  BY DEF Ping
<1> HIDE DEF l
<1>4. /\ p \in Nodes /\ p.session = l.nodes[n].session
      /\ p.self = l.nodes[n].self /\ p.addr = l.nodes[n].addr
  <2>1. l.nodes[n] \in Nodes  BY <1>1, <1>2
  <2>2. l.nodes[n].pings + 1 \in Nat  BY <2>1 DEF Nodes
  <2> QED BY <2>1, <2>2, NodePinged
<1> HIDE DEF p
<1>5. /\ q \in Seq(Nodes) /\ Len(q) = Len(l.nodes)
      /\ \A x \in 1 .. Len(l.nodes) : q[x] = IF x = n THEN p ELSE l.nodes[x]
  BY <1>1, <1>2, <1>4
<1> HIDE DEF q
<1>6. /\ new \in ClientLists /\ new.made = l.made /\ new.session = l.session
      /\ new.nodes = q
  BY <1>1, <1>5, NewNodes
<1>7. Remarked(l, new)  BY <1>4, <1>5, <1>6 DEF Remarked
<1> HIDE DEF new
<1> QED BY <1>3, <1>6, <1>7 DEF l

LEMMA RegDoes ==
  ASSUME Types, Fit, NEW c \in Clients, down[c] # <<>>, RecvReg(c, Head(down[c]))
  PROVE  LET e == Head(down[c]).es[1] IN
         /\ session[c] = 0 /\ Head(down[c]).cmd = "Reg"
         /\ session' = [session EXCEPT ![c] = e.session]
         /\ self' = [self EXCEPT ![c] = e.session]
         /\ UNCHANGED <<ping, draft, turn, beats, up, p2p>>
         /\ \E new \in ClientLists :
              /\ new.made = TRUE /\ new.session = e.session
              /\ new.nodes = Append(list[c][Own].nodes, Node(e))
              /\ list' = [list EXCEPT ![c][Own] = new]
<1> DEFINE m   == Head(down[c])
           e   == m.es[1]
           l   == list[c][Own]
           q   == Append(l.nodes, Node(e))
           a   == Created(l, e.session)
           new == [a EXCEPT !.nodes = Append(@, Node(e))]
<1>1. e \in S!Entries /\ e.session \in Nat
  BY TakenDown DEF Types, S!Entries
<1> HIDE DEF m, e
<1>2. l \in ClientLists /\ l.nodes \in Seq(Nodes)  BY ListIn, ListsAre DEF Types
<1>3. Node(e) \in Nodes  BY <1>1, NodeType
<1>4. q \in Seq(Nodes)  BY <1>2, <1>3
<1>5. list' = [list EXCEPT ![c][Own] = new]  BY DEF RecvReg, m, e
<1> HIDE DEF l, q
<1>6. a \in ClientLists /\ a.made = TRUE /\ a.session = e.session /\ a.nodes = l.nodes
  BY <1>1, <1>2 DEF Created, ClientLists
<1>7. new = [a EXCEPT !.nodes = q]  BY <1>6 DEF ClientLists, q
<1> HIDE DEF a, new
<1>8. /\ new \in ClientLists /\ new.made = TRUE /\ new.session = e.session
      /\ new.nodes = q
  BY <1>4, <1>6, <1>7, NewNodes
<1>9. /\ session[c] = 0 /\ m.cmd = "Reg"
      /\ session' = [session EXCEPT ![c] = e.session]
      /\ self' = [self EXCEPT ![c] = e.session]
      /\ UNCHANGED <<ping, draft, turn, beats, up, p2p>>
  BY DEF RecvReg, Awaited, m, e
<1> QED BY <1>5, <1>8, <1>9 DEF m, e, l, q

LEMMA PeersDoes ==
  ASSUME Types, Fit, NEW c \in Clients, down[c] # <<>>, RecvPeers(c, Head(down[c]))
  PROVE  LET m == Head(down[c])
             k == ListOf(c, m.es[1].session)
         IN
         /\ m.cmd = "Peers"
         /\ UNCHANGED <<session, self, draft, turn, beats, up, p2p>>
         /\ \/ ping' = ping
            \/ ping' = [ping EXCEPT ![c][k].pc = "created"]
         /\ \E l, new \in ClientLists :
              /\ l.nodes = list[c][k].nodes
              /\ k = Own => l = list[c][Own]
              /\ k = Joined => l.made = TRUE /\ l.session = m.es[1].session
              /\ new.made = l.made /\ new.session = l.session
              /\ AddInv(new.nodes, Len(m.es), c, l, m.es)
              /\ list' = [list EXCEPT ![c][k] = new]
<1> DEFINE m   == Head(down[c])
           s   == m.es[1].session
           k   == ListOf(c, s)
           l   == IF k = Own THEN list[c][Own] ELSE Created(list[c][Joined], s)
           new == WithPeers(c, l, m.es)
<1>1. m.es \in Seq(S!Entries) /\ s \in Nat
  BY TakenDown DEF Types, S!Entries
<1>2. /\ k \in Lists /\ (k = Own \/ k = Joined)
      /\ list[c][Own] \in ClientLists /\ list[c][Joined] \in ClientLists
  BY ListIn, ListsAre DEF Types, ListOf
<1> HIDE DEF k, s
<1>3. /\ l \in ClientLists /\ l.nodes = list[c][k].nodes
      /\ k = Own => l = list[c][Own]
      /\ k = Joined => l.made = TRUE /\ l.session = s
  <2>1. CASE k = Own  BY <1>2, <2>1, ListsAre
  <2>2. CASE k = Joined
    <3>1. l = Created(list[c][Joined], s)  BY <2>2, ListsAre
    <3> HIDE DEF l
    <3> QED BY <1>1, <1>2, <2>2, <3>1, ListsAre DEF Created, ClientLists
  <2> QED BY <1>2, <2>1, <2>2
<1>4. list' = [list EXCEPT ![c][k] = new]  BY DEF RecvPeers, k, s
<1>5. /\ m.cmd = "Peers"
      /\ UNCHANGED <<session, self, draft, turn, beats, up, p2p>>
      /\ \/ ping' = ping
         \/ ping' = [ping EXCEPT ![c][k].pc = "created"]
  BY DEF RecvPeers, k, s
<1> HIDE DEF l
<1>6. /\ new \in ClientLists /\ new.made = l.made /\ new.session = l.session
      /\ AddInv(new.nodes, Len(m.es), c, l, m.es)
  <2> HIDE DEF m
  <2> QED BY <1>1, <1>3, PeersAdded
<1> HIDE DEF new, m
<1> QED BY <1>3, <1>4, <1>5, <1>6 DEF k, s, m

-----------------------------------------------------------------------------
(* What the network does. *)

\* No list of peers overtakes the answer about its session.
InTurn(q) == \A n, k \in 1 .. Len(q) :
  n < k /\ q[n].cmd = "Peers" /\ q[k].cmd = "Reg" =>
    q[n].es[1].session # q[k].es[1].session

LEMMA TailInTurn ==
  ASSUME NEW T, NEW q \in Seq(T), q # <<>>, InTurn(q)
  PROVE  InTurn(Tail(q))
<1>1. Len(q) \in Nat \ {0}  OBVIOUS
<1>2. Len(Tail(q)) = Len(q) - 1 /\ \A n \in 1 .. Len(q) - 1 : Tail(q)[n] = q[n + 1]
  OBVIOUS
<1>3. \A n \in 1 .. Len(q) - 1 : n + 1 \in 1 .. Len(q)  BY <1>1
<1>4. \A n, k \in 1 .. Len(q) - 1 : n < k => n + 1 < k + 1  OBVIOUS
<1> QED BY <1>2, <1>3, <1>4 DEF InTurn

LEMMA RepeatedHead ==
  ASSUME NEW T, NEW q \in Seq(T), q # <<>>
  PROVE  /\ <<Head(q)>> \o q \in Seq(T) /\ ToSet(<<Head(q)>> \o q) = ToSet(q)
         /\ InTurn(q) => InTurn(<<Head(q)>> \o q)
<1> DEFINE r == <<Head(q)>> \o q
           At(n) == IF n = 1 THEN 1 ELSE n - 1
<1>1. Len(q) \in Nat \ {0} /\ Head(q) = q[1] /\ Head(q) \in T /\ DOMAIN q = 1 .. Len(q)
  OBVIOUS
<1>2. r \in Seq(T) /\ Len(r) = Len(q) + 1 /\ DOMAIN r = 1 .. Len(q) + 1  BY <1>1
<1>3. \A n \in 1 .. Len(q) + 1 : r[n] = q[At(n)] /\ At(n) \in 1 .. Len(q)  BY <1>1
<1>4. \A n \in 1 .. Len(q) : n + 1 \in 1 .. Len(q) + 1 /\ At(n + 1) = n  BY <1>1
<1> HIDE DEF r
<1>5. ToSet(r) = ToSet(q)
  <2>1. \A n \in 1 .. Len(q) + 1 : r[n] \in ToSet(q)  BY <1>1, <1>3 DEF ToSet
  <2>2. \A n \in 1 .. Len(q) : q[n] \in ToSet(r)
    <3>1. \A n \in 1 .. Len(q) : q[n] = r[n + 1]  BY <1>3, <1>4
    <3> QED BY <1>2, <1>4, <3>1 DEF ToSet
  <2> QED BY <1>1, <1>2, <2>1, <2>2 DEF ToSet
<1>6. ASSUME InTurn(q) PROVE InTurn(r)
  <2>1. SUFFICES ASSUME NEW n \in 1 .. Len(q) + 1, NEW k \in 1 .. Len(q) + 1,
                        n < k, r[n].cmd = "Peers", r[k].cmd = "Reg"
                 PROVE  r[n].es[1].session # r[k].es[1].session
    BY <1>2 DEF InTurn
  <2>2. At(n) < At(k) \/ At(n) = At(k)  BY <2>1
  <2>3. At(n) # At(k)  BY <1>3, <2>1
  <2> QED BY <1>3, <1>6, <2>1, <2>2, <2>3 DEF InTurn
<1> QED BY <1>2, <1>5, <1>6 DEF r

LEMMA SwappedSet ==
  ASSUME NEW T, NEW q \in Seq(T), Len(q) > 1
  PROVE  Swapped(q) \in Seq(T) /\ ToSet(Swapped(q)) = ToSet(q)
<1> DEFINE r == Swapped(q)
           At(n) == IF n = 1 THEN 2 ELSE IF n = 2 THEN 1 ELSE n
<1>1. Len(q) \in Nat /\ DOMAIN q = 1 .. Len(q) /\ q[1] \in T /\ q[2] \in T  OBVIOUS
<1>2. /\ SubSeq(q, 3, Len(q)) \in Seq(T) /\ Len(SubSeq(q, 3, Len(q))) = Len(q) - 2
      /\ \A n \in 1 .. Len(q) - 2 : SubSeq(q, 3, Len(q))[n] = q[n + 2]
  BY <1>1
<1>3. <<q[2], q[1]>> \in Seq(T) /\ Len(<<q[2], q[1]>>) = 2  BY <1>1
<1>4. r \in Seq(T) /\ Len(r) = Len(q)  BY <1>1, <1>2, <1>3 DEF Swapped
<1>5. \A n \in 1 .. Len(q) : r[n] = q[At(n)]
  <2>1. ASSUME NEW n \in 1 .. Len(q) PROVE r[n] = q[At(n)]
    <3>1. CASE n \in {1, 2}  BY <1>1, <1>2, <1>3, <3>1 DEF Swapped
    <3>2. CASE n > 2
      <4>1. n - 2 \in 1 .. Len(q) - 2 /\ (n - 2) + 2 = n  BY <1>1, <3>2
      <4>2. r[n] = SubSeq(q, 3, Len(q))[n - 2]
        BY <1>1, <1>2, <1>3, <3>2 DEF Swapped
      <4> QED BY <1>2, <3>2, <4>1, <4>2
    <3> QED BY <3>1, <3>2
  <2> QED BY <2>1
<1>6. \A n \in 1 .. Len(q) : At(n) \in 1 .. Len(q) /\ At(At(n)) = n  BY <1>1
<1> HIDE DEF r
<1>7. DOMAIN r = 1 .. Len(q)  BY <1>4
<1>8. ToSet(r) = ToSet(q)
  <2>1. \A n \in 1 .. Len(q) : r[n] \in ToSet(q)  BY <1>1, <1>5, <1>6 DEF ToSet
  <2>2. \A n \in 1 .. Len(q) : q[n] \in ToSet(r)
    <3>1. \A n \in 1 .. Len(q) : q[n] = r[At(n)]  BY <1>5, <1>6
    <3> QED BY <1>6, <1>7, <3>1 DEF ToSet
  <2> QED BY <1>1, <1>7, <2>1, <2>2 DEF ToSet
<1> QED BY <1>4, <1>8 DEF r

\* Nothing new is on its way to a client, and the server is as it was.
NoNews == /\ UNCHANGED <<globSession, slot, wild>> /\ down' \in Outs
          /\ \A x \in Clients : ToSet(down'[x]) \subseteq ToSet(down[x])

\* The clients know what they knew.
Quietly == /\ UNCHANGED <<session, self>>
           /\ list' \in [Clients -> [Lists -> ClientLists]]
           /\ \A d \in Clients, j \in Lists : Remarked(list[d][j], list'[d][j])

PeersStay == \A x \in Clients : \A m \in ToSet(down[x]) :
               m.cmd = "Peers" => m \in ToSet(down'[x])

TurnsStay == \A x \in Clients : InTurn(down[x]) => InTurn(down'[x])

Served(c) ==
  /\ up[c] # <<>> /\ S!ServerRecv(Head(up[c]), c)
  /\ up' = [up EXCEPT ![c] = Tail(@)]
  /\ UNCHANGED <<clientVars, p2p, faultVars>>

Informed(c) ==
  /\ down[c] # <<>>
  /\ RecvReg(c, Head(down[c])) \/ RecvPeers(c, Head(down[c]))
  /\ NoNews /\ TurnsStay /\ UNCHANGED faultVars
  /\ down' = [down EXCEPT ![c] = Tail(@)]
  /\ \A x \in Clients : \A m \in ToSet(down[x]) :
       m \in ToSet(down'[x]) \/ (x = c /\ m = Head(down[c]))

Passes ==
  /\ NoNews /\ Quietly
  /\ lost' = 0 => lost = 0 /\ PeersStay
  /\ overtaken' = 0 => overtaken = 0 /\ TurnsStay

LEMMA QuietLists ==
  ASSUME ClientTypes, UNCHANGED <<session, self, list>>
  PROVE  Quietly
<1>1. list' = list /\ session' = session /\ self' = self  OBVIOUS
<1>2. \A d \in Clients, j \in Lists : Remarked(list[d][j], list[d][j])
  BY DEF Remarked
<1> QED BY <1>1, <1>2 DEF Quietly, ClientTypes

LEMMA QuietMark ==
  ASSUME ClientTypes, UNCHANGED <<session, self>>, NEW c \in Clients, NEW k \in Lists,
         NEW new \in ClientLists, Remarked(list[c][k], new),
         list' = [list EXCEPT ![c][k] = new]
  PROVE  Quietly
<1>1. /\ list' \in [Clients -> [Lists -> ClientLists]]
      /\ \A d \in Clients, j \in Lists :
           list'[d][j] = IF d = c /\ j = k THEN new ELSE list[d][j]
  BY ListSet
<1>2. \A d \in Clients, j \in Lists : Remarked(list[d][j], list[d][j])
  BY DEF Remarked
<1> QED BY <1>1, <1>2 DEF Quietly

LEMMA SameDown ==
  ASSUME ServerTypes, UNCHANGED serverVars
  PROVE  NoNews /\ PeersStay /\ TurnsStay
<1>1. down' = down /\ UNCHANGED <<globSession, slot, wild>>  BY DEF serverVars
<1>2. down \in Outs  BY DEF ServerTypes
<1> QED BY <1>1, <1>2 DEF NoNews, PeersStay, TurnsStay

LEMMA OtherDown ==
  ASSUME ServerTypes, UNCHANGED <<globSession, slot, wild>>, NEW c \in Clients,
         NEW q \in Seq(DownMsgs), ToSet(q) \subseteq ToSet(down[c]),
         down' = [down EXCEPT ![c] = q]
  PROVE  /\ NoNews
         /\ \A x \in Clients : down'[x] = IF x = c THEN q ELSE down[x]
<1>1. down \in Outs  BY DEF ServerTypes
<1>2. \A x \in Clients : down'[x] = IF x = c THEN q ELSE down[x]  BY <1>1 DEF Outs
<1>3. down' \in Outs  BY <1>1 DEF Outs
<1> QED BY <1>2, <1>3 DEF NoNews

\* A client takes the first datagram.
LEMMA HeadTaken ==
  ASSUME ServerTypes, UNCHANGED <<globSession, slot, wild>>, NEW c \in Clients,
         down[c] # <<>>, down' = [down EXCEPT ![c] = Tail(@)]
  PROVE  /\ NoNews /\ TurnsStay
         /\ \A x \in Clients : \A m \in ToSet(down[x]) :
              m \in ToSet(down'[x]) \/ (x = c /\ m = Head(down[c]))
<1>1. down[c] \in Seq(DownMsgs)  BY DEF ServerTypes, Outs
<1>2. /\ Tail(down[c]) \in Seq(DownMsgs)
      /\ ToSet(down[c]) = ToSet(Tail(down[c])) \cup {Head(down[c])}
  BY <1>1, SetOfTail
<1>3. down' = [down EXCEPT ![c] = Tail(down[c])]  OBVIOUS
<1>4. /\ NoNews
      /\ \A x \in Clients : down'[x] = IF x = c THEN Tail(down[c]) ELSE down[x]
  BY <1>2, <1>3, OtherDown
<1>5. InTurn(down[c]) => InTurn(Tail(down[c]))  BY <1>1, TailInTurn
<1>6. TurnsStay  BY <1>4, <1>5 DEF TurnsStay
<1> QED BY <1>2, <1>4, <1>6

LEMMA FaultPasses ==
  ASSUME Types, Lose \/ Repeat \/ OvertakeOne
  PROVE  Passes
<1>1. UNCHANGED <<globSession, slot, wild>> /\ UNCHANGED <<session, self, list>>
  BY DEF Lose, Repeat, OvertakeOne, clientVars
<1>2. Quietly  BY <1>1, QuietLists DEF Types
<1>3. \A c \in Clients : down[c] \in Seq(DownMsgs)  BY DEF Types, ServerTypes, Outs
<1>4. CASE down' = down
  <2>1. NoNews /\ PeersStay /\ TurnsStay
    BY <1>1, <1>4, SameDown DEF Types, serverVars
  <2>2. (lost' = 0 => lost = 0) /\ (overtaken' = 0 => overtaken = 0)
    <3>1. lost' \in {lost, lost + 1} /\ overtaken' \in {overtaken, overtaken + 1}
      BY DEF Lose, Repeat, OvertakeOne
    <3> QED BY <3>1 DEF Types, FaultTypes
  <2> QED BY <1>2, <2>1, <2>2 DEF Passes
<1>5. ASSUME NEW c \in Clients, down[c] # <<>>,
             down' = [down EXCEPT ![c] = Tail(@)], lost' = lost + 1,
             overtaken' = overtaken
      PROVE  Passes
  <2>1. NoNews /\ TurnsStay  BY <1>1, <1>5, HeadTaken DEF Types
  <2>2. lost' # 0  BY <1>5 DEF Types, FaultTypes
  <2> QED BY <1>2, <1>5, <2>1, <2>2 DEF Passes
<1>6. ASSUME NEW c \in Clients, down[c] # <<>>,
             down' = [down EXCEPT ![c] = <<Head(@)>> \o @], lost' = lost,
             overtaken' = overtaken
      PROVE  Passes
  <2> DEFINE q == <<Head(down[c])>> \o down[c]
  <2>1. /\ q \in Seq(DownMsgs) /\ ToSet(q) = ToSet(down[c])
        /\ InTurn(down[c]) => InTurn(q)
    BY <1>3, <1>6, RepeatedHead
  <2>2. down' = [down EXCEPT ![c] = q]  BY <1>6
  <2> HIDE DEF q
  <2>3. NoNews /\ \A x \in Clients : down'[x] = IF x = c THEN q ELSE down[x]
    BY <1>1, <2>1, <2>2, OtherDown DEF Types
  <2>4. PeersStay /\ TurnsStay  BY <2>1, <2>3 DEF PeersStay, TurnsStay
  <2> QED BY <1>2, <1>6, <2>3, <2>4 DEF Passes
<1>7. ASSUME NEW c \in Clients, Len(down[c]) > 1,
             down' = [down EXCEPT ![c] = Swapped(@)], lost' = lost,
             overtaken' = overtaken + 1
      PROVE  Passes
  <2>1. Swapped(down[c]) \in Seq(DownMsgs) /\ ToSet(Swapped(down[c])) = ToSet(down[c])
    BY <1>3, <1>7, SwappedSet
  <2>2. /\ NoNews
        /\ \A x \in Clients : down'[x] = IF x = c THEN Swapped(down[c]) ELSE down[x]
    BY <1>1, <1>7, <2>1, OtherDown DEF Types
  <2>3. PeersStay  BY <2>1, <2>2 DEF PeersStay
  <2>4. overtaken' # 0  BY <1>7 DEF Types, FaultTypes
  <2> QED BY <1>2, <1>7, <2>2, <2>3, <2>4 DEF Passes
<1>8. CASE Lose  BY <1>4, <1>5, <1>8 DEF Lose
<1>9. CASE Repeat  BY <1>4, <1>6, <1>9 DEF Repeat
<1>10. CASE OvertakeOne  BY <1>4, <1>7, <1>10 DEF OvertakeOne
<1> QED BY <1>8, <1>9, <1>10

\* A step is one of three: the server takes a datagram, a client is told of a
\* session or of peers, or nobody knows more than before.
LEMMA StepKinds ==
  ASSUME Types, [Next]_vars
  PROVE  Passes \/ \E c \in Clients : Served(c) \/ Informed(c)
<1>1. CASE ToServer  BY <1>1 DEF ToServer, Served
<1>2. CASE ToClient
  <2>1. PICK c \in Clients :
          /\ down[c] # <<>> /\ ClientRecv(c, Head(down[c]))
          /\ down' = [down EXCEPT ![c] = Tail(@)]
          /\ UNCHANGED <<globSession, slot, wild, faultVars>>
    BY <1>2 DEF ToClient
  <2>2. /\ NoNews /\ TurnsStay
        /\ \A x \in Clients : \A m \in ToSet(down[x]) :
             m \in ToSet(down'[x]) \/ (x = c /\ m = Head(down[c]))
    BY <2>1, HeadTaken DEF Types
  <2>3. CASE RecvOther(c, Head(down[c]))
    <3>1. Head(down[c]).cmd # "Peers" /\ UNCHANGED <<session, self, list>>
      BY <2>3 DEF RecvOther, clientVars
    <3>2. Quietly  BY <3>1, QuietLists DEF Types
    <3>3. PeersStay  BY <2>2, <3>1 DEF PeersStay
    <3>4. UNCHANGED <<lost, overtaken>>  BY <2>1 DEF faultVars
    <3> QED BY <2>2, <3>2, <3>3, <3>4 DEF Passes
  <2>4. CASE RecvReg(c, Head(down[c])) \/ RecvPeers(c, Head(down[c]))
    BY <2>1, <2>2, <2>4 DEF Informed
  <2> QED BY <2>1, <2>3, <2>4 DEF ClientRecv
<1>3. ASSUME UNCHANGED <<serverVars, faultVars>>, Quietly PROVE Passes
  BY <1>3, SameDown DEF Types, Passes, faultVars
<1>4. CASE ToPeer
  <2>1. PICK m \in p2p : RecvPing(m.to, m) \/ RecvAck(m.to, m)
    BY <1>4 DEF ToPeer
  <2>2. m.to \in Clients  BY DEF Types, ClientTypes, PingMsgs
  <2>3. CASE RecvPing(m.to, m)
    <3>1. Quietly  BY <2>3, QuietLists DEF Types, RecvPing, clientVars
    <3> QED BY <1>3, <1>4, <3>1 DEF ToPeer
  <2>4. CASE RecvAck(m.to, m)
    <3>1. PICK k \in Lists, new \in ClientLists :
            Remarked(list[m.to][k], new) /\ list' = [list EXCEPT ![m.to][k] = new]
      BY <2>2, <2>4, AckDoes DEF Types
    <3>2. Quietly  BY <2>2, <2>4, <3>1, QuietMark DEF Types, RecvAck
    <3> QED BY <1>3, <1>4, <3>2 DEF ToPeer
  <2> QED BY <2>1, <2>3, <2>4
<1>5. CASE Threads
  <2>1. PICK c \in Clients :
          \/ TestRound(c)
          \/ \E k \in Lists : StartPing(c, k) \/ \E n \in DOMAIN list[c][k].nodes : Ping(c, k, n)
    BY <1>5 DEF Threads
  <2>2. CASE \E k \in Lists : \E n \in DOMAIN list[c][k].nodes : Ping(c, k, n)
    <3>0. PICK k \in Lists : \E n \in DOMAIN list[c][k].nodes : Ping(c, k, n)  BY <2>2
    <3>1. PICK n \in DOMAIN list[c][k].nodes : Ping(c, k, n)  BY <3>0
    <3>2. PICK new \in ClientLists :
            Remarked(list[c][k], new) /\ list' = [list EXCEPT ![c][k] = new]
      BY <3>1, PingDoes DEF Types
    <3>3. Quietly  BY <3>1, <3>2, QuietMark DEF Types, Ping
    <3> QED BY <1>3, <1>5, <3>3 DEF Threads
  <2>3. CASE TestRound(c) \/ \E k \in Lists : StartPing(c, k)
    <3>1. Quietly
      BY <2>3, QuietLists DEF Types, TestRound, Round, SendRound, StartPing
    <3> QED BY <1>3, <1>5, <3>1 DEF Threads
  <2> QED BY <2>1, <2>2, <2>3
<1>6. CASE Users
  <2>1. Quietly  BY <1>6, QuietLists DEF Types, Users, Beat, Command
  <2> QED BY <1>3, <1>6, <2>1 DEF Users
<1>7. CASE Lose \/ Repeat \/ OvertakeOne  BY <1>7, FaultPasses
<1>8. CASE UNCHANGED vars
  <2>1. Quietly  BY <1>8, QuietLists DEF Types, vars, clientVars
  <2> QED BY <1>3, <1>8, <2>1 DEF vars
<1> QED BY <1>1, <1>2, <1>4, <1>5, <1>6, <1>7, <1>8 DEF Next, Progress

-----------------------------------------------------------------------------
(* Type correctness. *)

LEMMA ServerTypesKept ==
  ASSUME Types, [Next]_vars
  PROVE  ServerTypes'
<1>1. ASSUME NoNews PROVE ServerTypes'  BY <1>1 DEF NoNews, Types, ServerTypes
<1>2. ASSUME NEW c \in Clients, Served(c) PROVE ServerTypes'
  BY <1>2, TakenUp, ServerType DEF Types, Served
<1> QED BY <1>1, <1>2, StepKinds DEF Passes, Informed

LEMMA FaultTypesKept ==
  ASSUME Types, [Next]_vars
  PROVE  FaultTypes'
<1>1. \/ UNCHANGED faultVars
      \/ /\ lost' \in {lost, lost + 1} /\ repeated' \in {repeated, repeated + 1}
         /\ overtaken' \in {overtaken, overtaken + 1}
  BY DEF Next, Progress, ToServer, ToClient, ToPeer, Threads, Users, Lose, Repeat,
         OvertakeOne, vars
<1> QED BY <1>1 DEF Types, FaultTypes, faultVars

\* Another datagram, or one less, on its way to the server.
LEMMA UpSet ==
  ASSUME ClientTypes, NEW c \in Clients, NEW q \in Seq(UpMsgs),
         up' = [up EXCEPT ![c] = q]
  PROVE  up' \in [Clients -> Seq(UpMsgs)]
BY DEF ClientTypes

LEMMA SendType ==
  ASSUME ClientTypes, NEW c \in Clients, NEW m \in UpMsgs, Send(c, m)
  PROVE  up' \in [Clients -> Seq(UpMsgs)]
<1>1. Append(up[c], m) \in Seq(UpMsgs)  BY DEF ClientTypes
<1> QED BY <1>1, UpSet DEF Send

LEMMA UpMsgType ==
  ASSUME NEW cmd \in S!Cmds, NEW s \in Nat, NEW t \in Nat
  PROVE  [cmd |-> cmd, session |-> s, self |-> t] \in UpMsgs
BY DEF UpMsgs

LEMMA FaultUp ==
  ASSUME Types, Lose \/ Repeat \/ OvertakeOne
  PROVE  ClientTypes'
<1>1. UNCHANGED <<clientVars, p2p>>  BY DEF Lose, Repeat, OvertakeOne
<1>2. \A c \in Clients : up[c] \in Seq(UpMsgs)  BY DEF Types, ClientTypes
<1>3. ASSUME up' \in [Clients -> Seq(UpMsgs)] PROVE ClientTypes'
  BY <1>1, <1>3 DEF Types, ClientTypes, clientVars
<1>4. CASE up' = up  BY <1>3, <1>4 DEF Types, ClientTypes
<1>5. ASSUME NEW c \in Clients, up[c] # <<>>, up' = [up EXCEPT ![c] = Tail(@)]
      PROVE  ClientTypes'
  <2>1. Tail(up[c]) \in Seq(UpMsgs)  BY <1>2, <1>5, SetOfTail
  <2> QED BY <1>3, <1>5, <2>1, UpSet DEF Types
<1>6. ASSUME NEW c \in Clients, up[c] # <<>>, up' = [up EXCEPT ![c] = <<Head(@)>> \o @]
      PROVE  ClientTypes'
  <2>1. <<Head(up[c])>> \o up[c] \in Seq(UpMsgs)  BY <1>2, <1>6, RepeatedHead
  <2> QED BY <1>3, <1>6, <2>1, UpSet DEF Types
<1>7. ASSUME NEW c \in Clients, Len(up[c]) > 1, up' = [up EXCEPT ![c] = Swapped(@)]
      PROVE  ClientTypes'
  <2>1. Swapped(up[c]) \in Seq(UpMsgs)  BY <1>2, <1>7, SwappedSet
  <2> QED BY <1>3, <1>7, <2>1, UpSet DEF Types
<1> QED BY <1>4, <1>5, <1>6, <1>7 DEF Lose, Repeat, OvertakeOne

LEMMA ThreadTypes ==
  ASSUME Types, NEW c \in Clients,
         \/ TestRound(c) \/ Beat(c)
         \/ \E k \in Lists : StartPing(c, k) \/ \E n \in DOMAIN list[c][k].nodes : Ping(c, k, n)
         \/ \E cmd \in {"Reg", "Peers", "Exit"}, sess \in JoinIds \cup {0} : Command(c, cmd, sess)
  PROVE  ClientTypes'
<1>1. ClientTypes /\ session[c] \in Nat /\ self[c] \in Nat /\ turn[c] + 1 \in Nat
      /\ beats + 1 \in Nat /\ draft[c] \in {NoDraft, "Reg", "Peers", "Exit"}
  BY DEF Types, ClientTypes
<1>2. CASE Round(c)
  <2>1. RoundCmd(c) \in {"Reg", "Peers", "Exit"}  BY DEF RoundCmd
  <2> QED BY <1>1, <1>2, <2>1 DEF Round, ClientTypes
<1>3. CASE SendRound(c)
  <2>1. draft[c] \in S!Cmds  BY <1>1, <1>3 DEF SendRound, S!Cmds
  <2>2. up' \in [Clients -> Seq(UpMsgs)]
    BY <1>1, <1>3, <2>1, UpMsgType, SendType DEF SendRound
  <2>3. draft' \in [Clients -> {NoDraft, "Reg", "Peers", "Exit"}]
    BY <1>1, <1>3 DEF SendRound, ClientTypes
  <2> QED BY <1>1, <1>3, <2>2, <2>3 DEF SendRound, ClientTypes
<1>4. CASE Beat(c)
  <2>1. up' \in [Clients -> Seq(UpMsgs)]
    BY <1>1, <1>4, UpMsgType, SendType DEF Beat, S!Cmds
  <2> QED BY <1>1, <1>4, <2>1 DEF Beat, ClientTypes
<1>5. ASSUME NEW k \in Lists, StartPing(c, k) PROVE ClientTypes'
  <2>1. ping' \in [Clients -> [Lists -> [pc : {"none", "created", "runs"}, self : Nat]]]
    BY <1>1, <1>5 DEF StartPing, ClientTypes
  <2> QED BY <1>1, <1>5, <2>1 DEF StartPing, ClientTypes
<1>6. ASSUME NEW k \in Lists, NEW n \in DOMAIN list[c][k].nodes, Ping(c, k, n)
      PROVE  ClientTypes'
  <2>1. list' \in [Clients -> [Lists -> ClientLists]]
    BY <1>1, <1>6, PingDoes, ListSet
  <2>2. list[c][k].nodes[n].addr \in Clients
    <3>1. n \in 1 .. Len(list[c][k].nodes)  BY <1>1, ListIn
    <3> QED BY <1>1, <3>1, ListIn DEF Nodes
  <2>3. p2p' \in SUBSET PingMsgs
    <3>1. [to |-> list[c][k].nodes[n].addr, from |-> c, ack |-> FALSE,
           session |-> session[c], self |-> self[c]] \in PingMsgs
      BY <1>1, <2>2 DEF PingMsgs
    <3> QED BY <1>1, <1>6, <3>1 DEF Ping, ClientTypes
  <2> QED BY <1>1, <1>6, <2>1, <2>3 DEF Ping, ClientTypes
<1>7. ASSUME NEW cmd \in {"Reg", "Peers", "Exit"}, NEW sess \in JoinIds \cup {0},
             Command(c, cmd, sess)
      PROVE  ClientTypes'
  <2>1. (IF sess > 0 THEN sess ELSE self[c]) \in Nat
    <3>1. sess \in Nat  BY ClientAssumption
    <3> QED BY <1>1, <3>1
  <2>2. cmd \in S!Cmds  BY DEF S!Cmds
  <2>3. up' \in [Clients -> Seq(UpMsgs)]
    BY <1>1, <1>7, <2>1, <2>2, UpMsgType, SendType DEF Command
  <2> QED BY <1>1, <1>7, <2>3 DEF Command, ClientTypes
<1> QED BY <1>2, <1>3, <1>4, <1>5, <1>6, <1>7 DEF TestRound

LEMMA PingCreated ==
  ASSUME ping \in [Clients -> [Lists -> [pc : {"none", "created", "runs"}, self : Nat]]],
         NEW c \in Clients, NEW k \in Lists,
         ping' = [ping EXCEPT ![c][k].pc = "created"]
  PROVE  /\ ping' \in [Clients -> [Lists -> [pc : {"none", "created", "runs"}, self : Nat]]]
         /\ \A d \in Clients, j \in Lists : ping'[d][j] = ping[d][j] \/ (d = c /\ j = k)
<1> DEFINE R == [pc : {"none", "created", "runs"}, self : Nat]
           p == [ping[c][k] EXCEPT !.pc = "created"]
<1>1. ping[c] \in [Lists -> R] /\ ping[c][k] \in R  OBVIOUS
<1>2. p \in R
  <2>1. ping[c][k].self \in Nat  BY <1>1
  <2>2. p = [pc |-> "created", self |-> ping[c][k].self]  BY <1>1
  <2> QED BY <2>1, <2>2
<1>3. ping' = [ping EXCEPT ![c][k] = p]  OBVIOUS
<1> HIDE DEF p, R
<1>4. [ping[c] EXCEPT ![k] = p] \in [Lists -> R]  BY <1>1, <1>2
<1>5. \A d \in Clients, j \in Lists : ping'[d][j] = ping[d][j] \/ (d = c /\ j = k)
  BY <1>3
<1> QED BY <1>3, <1>4, <1>5 DEF R

LEMMA ClientTypesKept ==
  ASSUME Types, Fit, [Next]_vars
  PROVE  ClientTypes'
<1>1. CASE ToServer
  <2>1. PICK c \in Clients : /\ up[c] # <<>> /\ up' = [up EXCEPT ![c] = Tail(@)]
                             /\ UNCHANGED <<clientVars, p2p>>
    BY <1>1 DEF ToServer
  <2>2. Tail(up[c]) \in Seq(UpMsgs)  BY <2>1, SetOfTail DEF Types, ClientTypes
  <2>3. up' \in [Clients -> Seq(UpMsgs)]  BY <2>1, <2>2, UpSet DEF Types
  <2> QED BY <2>1, <2>3 DEF Types, ClientTypes, clientVars
<1>2. CASE ToClient
  <2>1. PICK c \in Clients : down[c] # <<>> /\ ClientRecv(c, Head(down[c]))
    BY <1>2 DEF ToClient
  <2>2. CASE RecvReg(c, Head(down[c]))
    <3> DEFINE t == Head(down[c]).es[1].session
    <3>1. t \in Nat  BY <2>1, TakenDown DEF Types, S!Entries
    <3>2. PICK new \in ClientLists : list' = [list EXCEPT ![c][Own] = new]
      BY <2>1, <2>2, RegDoes
    <3>3. list' \in [Clients -> [Lists -> ClientLists]]
      BY <3>2, ListSet, ListsAre DEF Types
    <3>4. /\ session' = [session EXCEPT ![c] = t] /\ self' = [self EXCEPT ![c] = t]
          /\ UNCHANGED <<ping, draft, turn, beats, up, p2p>>
      BY <2>1, <2>2, RegDoes
    <3> HIDE DEF t
    <3> QED BY <3>1, <3>3, <3>4 DEF Types, ClientTypes
  <2>3. CASE RecvPeers(c, Head(down[c]))
    <3> DEFINE k == ListOf(c, Head(down[c]).es[1].session)
    <3>1. k \in Lists  BY ListsAre
    <3>2. PICK new \in ClientLists : list' = [list EXCEPT ![c][k] = new]
      BY <2>1, <2>3, PeersDoes
    <3>3. list' \in [Clients -> [Lists -> ClientLists]]  BY <3>1, <3>2, ListSet DEF Types
    <3>4. /\ UNCHANGED <<session, self, draft, turn, beats, up, p2p>>
          /\ ping' = ping \/ ping' = [ping EXCEPT ![c][k].pc = "created"]
      BY <2>1, <2>3, PeersDoes
    <3> HIDE DEF k
    <3>5. ping' \in [Clients -> [Lists -> [pc : {"none", "created", "runs"}, self : Nat]]]
      BY <3>1, <3>4, PingCreated DEF Types, ClientTypes
    <3> QED BY <3>3, <3>4, <3>5 DEF Types, ClientTypes
  <2>4. CASE RecvOther(c, Head(down[c]))
    BY <2>4 DEF RecvOther, clientVars, Types, ClientTypes
  <2> QED BY <2>1, <2>2, <2>3, <2>4 DEF ClientRecv
<1>3. CASE ToPeer
  <2>1. PICK m \in p2p : RecvPing(m.to, m) \/ RecvAck(m.to, m)  BY <1>3 DEF ToPeer
  <2>2. m.to \in Clients /\ m.from \in Clients /\ m \in PingMsgs
    BY DEF Types, ClientTypes, PingMsgs
  <2>3. CASE RecvPing(m.to, m)
    <3>1. [m EXCEPT !.to = m.from, !.from = m.to, !.ack = TRUE] \in PingMsgs
      BY <2>2 DEF PingMsgs
    <3>2. p2p' \in SUBSET PingMsgs  BY <2>3, <3>1 DEF RecvPing, Types, ClientTypes
    <3> QED BY <2>3, <3>2 DEF RecvPing, clientVars, Types, ClientTypes
  <2>4. CASE RecvAck(m.to, m)
    <3>1. list' \in [Clients -> [Lists -> ClientLists]]
      BY <2>2, <2>4, AckDoes, ListSet DEF Types
    <3> QED BY <2>4, <3>1 DEF RecvAck, Types, ClientTypes
  <2> QED BY <2>1, <2>3, <2>4
<1>4. CASE Threads  BY <1>4, ThreadTypes DEF Threads
<1>5. CASE Users  BY <1>5, ThreadTypes DEF Users
<1>6. CASE Lose \/ Repeat \/ OvertakeOne  BY <1>6, FaultUp
<1>7. CASE UNCHANGED vars  BY <1>7 DEF vars, clientVars, Types, ClientTypes
<1> QED BY <1>1, <1>2, <1>3, <1>4, <1>5, <1>6, <1>7 DEF Next, Progress

LEMMA TypesKept ==
  ASSUME Types, Fit, [Next]_vars
  PROVE  Types'
BY ServerTypesKept, ClientTypesKept, FaultTypesKept DEF Types

-----------------------------------------------------------------------------
(* What the server does with a datagram. *)

\* client c gets a session
TakesSession(c) ==
  LET t == globSession + 1
      n == S!Place(t)
      e == S!Entry(t, t, c)
  IN  /\ globSession' = t /\ ~slot[n].freed
      /\ slot'[n].made = TRUE /\ slot'[n].freed = FALSE /\ slot'[n].session = t
      /\ slot'[n].nodes = Append(slot[n].nodes, e)
      /\ \A x \in 0 .. MaxOnline - 1 : x # n => slot'[x] = slot[x]
      /\ down' = S!Sent(down, c, S!Down("Reg", <<e>>))

\* client c, of session s, joins session t
JoinsSession(c, t, s) ==
  LET n == S!Place(t)
      e == S!Entry(t, s, c)
  IN  /\ t \in 1 .. globSession /\ globSession' = globSession
      /\ slot[n].made /\ ~slot[n].freed
      /\ slot'[n].made = slot[n].made /\ slot'[n].freed = slot[n].freed
      /\ slot'[n].session = slot[n].session
      /\ slot'[n].nodes = Append(slot[n].nodes, e)
      /\ \A x \in 0 .. MaxOnline - 1 : x # n => slot'[x] = slot[x]
      /\ down' = S!SendStunList(Append(slot[n].nodes, e), e)

\* client c gets another answer, about session t, whose list may be freed
GetsAnswer(c, t, s, cmd) ==
  /\ t \in 1 .. globSession /\ globSession' = globSession
  /\ cmd \in {"HeartBeat", "Bye", "Exit"}
  /\ \A x \in 0 .. MaxOnline - 1 :
       \/ slot'[x] = slot[x]
       \/ /\ slot[x].made /\ slot'[x].made = slot[x].made
          /\ slot'[x].freed = TRUE /\ slot'[x].session = slot[x].session
          /\ slot'[x].nodes = <<>>
  /\ down' = S!Sent(down, c, S!Down(cmd, <<S!Entry(t, s, c)>>))

LEMMA ServedKinds ==
  ASSUME Types, NEW c \in Clients, Served(c)
  PROVE  \E u \in UpMsgs :
           /\ u \in ToSet(up[c])
           /\ \/ TakesSession(c) \/ JoinsSession(c, u.session, u.self)
              \/ GetsAnswer(c, u.session, u.self, u.cmd)
              \/ UNCHANGED <<globSession, slot, down>>
<1> DEFINE u == Head(up[c])
           k == S!Place(u.session)
<1>1. /\ u \in UpMsgs /\ u \in ToSet(up[c]) /\ u.session \in Nat
  BY TakenUp DEF Types, Served
<1>2. S!ServerRecv(u, c)  BY DEF Served
<1>3. globSession \in Nat \ {0} /\ slot \in [0 .. MaxOnline - 1 -> Slots]
  BY DEF Types, ServerTypes
<1> HIDE DEF u
<1>4. CASE S!Register(u, c)
  <2> DEFINE t == globSession + 1
             n == S!Place(t)
             e == S!Entry(t, t, c)
             q == Append(slot[n].nodes, e)
             new == [slot[n] EXCEPT !.made = TRUE, !.session = t, !.nodes = q]
  <2>0. t \in Nat  BY <1>3
  <2>1. n \in 0 .. MaxOnline - 1 /\ e \in S!Entries
    <3> HIDE DEF t
    <3> QED BY <2>0, PlaceIn, EntryType DEF S!Cmds
  <2>2. /\ ~slot[n].freed /\ globSession' = t /\ slot' = [slot EXCEPT ![n] = new]
        /\ down' = S!Sent(down, c, S!Down("Reg", <<e>>))
    BY <1>4 DEF S!Register, S!NewSession
  <2> HIDE DEF t, n, e
  <2>3. slot[n] \in Slots /\ slot[n].nodes \in Seq(S!Entries) /\ slot[n].freed \in BOOLEAN
    BY <1>3, <2>1 DEF Slots
  <2>4. q \in Seq(S!Entries)  BY <2>1, <2>3
  <2> HIDE DEF q
  <2>5. new.made = TRUE /\ new.freed = slot[n].freed /\ new.session = t /\ new.nodes = q
    <3> DEFINE l == slot[n]
    <3>1. l \in Slots  BY <2>3
    <3> HIDE DEF l
    <3> QED BY <2>0, <2>4, <3>1 DEF Slots
  <2> HIDE DEF new
  <2>6. slot'[n] = new /\ \A x \in 0 .. MaxOnline - 1 : x # n => slot'[x] = slot[x]
    BY <1>3, <2>1, <2>2
  <2>7. TakesSession(c)
    BY <2>2, <2>3, <2>5, <2>6 DEF TakesSession, t, n, e, q
  <2> QED BY <1>1, <2>7
<1>5. CASE S!Join(u, c)
  <2> DEFINE e == S!Entry(u.session, u.self, c)
             q == Append(slot[k].nodes, e)
  <2>1. k \in 0 .. MaxOnline - 1  BY <1>1, PlaceIn
  <2>2. /\ u.session > 0 /\ u.session <= globSession /\ slot[k].made /\ ~slot[k].freed
        /\ slot' = [slot EXCEPT ![k].nodes = q] /\ down' = S!SendStunList(q, e)
        /\ globSession' = globSession
    BY <1>5 DEF S!Join, S!OfSession
  <2> HIDE DEF k, q
  <2>3. slot[k] \in Slots  BY <1>3, <2>1
  <2>4. /\ slot'[k].made = slot[k].made /\ slot'[k].freed = slot[k].freed
        /\ slot'[k].session = slot[k].session /\ slot'[k].nodes = q
        /\ \A x \in 0 .. MaxOnline - 1 : x # k => slot'[x] = slot[x]
    BY <1>3, <2>1, <2>2, <2>3 DEF Slots
  <2>5. u.session \in 1 .. globSession  BY <1>1, <1>3, <2>2
  <2>6. JoinsSession(c, u.session, u.self)  BY <2>2, <2>4, <2>5 DEF JoinsSession, k, q
  <2> QED BY <1>1, <2>6
<1>6. CASE S!Echo(u, c)
  <2>1. u.session \in 1 .. globSession  BY <1>1, <1>3, <1>6 DEF S!Echo, S!OfSession
  <2>2. GetsAnswer(c, u.session, u.self, u.cmd)
    BY <1>6, <2>1 DEF S!Echo, GetsAnswer
  <2> QED BY <1>1, <2>2
<1>7. CASE S!Exit(u, c)
  <2> DEFINE new == [slot[k] EXCEPT !.freed = TRUE, !.nodes = <<>>]
  <2>1. k \in 0 .. MaxOnline - 1  BY <1>1, PlaceIn
  <2>2. /\ u.session > 0 /\ u.session <= globSession /\ slot[k].made /\ u.cmd = "Exit"
        /\ slot' = [slot EXCEPT ![k].freed = TRUE, ![k].nodes = <<>>]
        /\ down' = S!Sent(down, c, S!Down("Exit", <<S!Entry(u.session, u.self, c)>>))
        /\ globSession' = globSession
    BY <1>7 DEF S!Exit, S!OfSession
  <2> HIDE DEF k
  <2>3. slot[k] \in Slots /\ <<>> \in Seq(S!Entries)  BY <1>3, <2>1
  <2>4. /\ new.made = slot[k].made /\ new.freed = TRUE /\ new.session = slot[k].session
        /\ new.nodes = <<>>
    <3> DEFINE l == slot[k]
    <3>1. l \in Slots  BY <2>3
    <3> HIDE DEF l
    <3> QED BY <3>1 DEF Slots
  <2>5. slot' = [slot EXCEPT ![k] = new]  BY <1>3, <2>1, <2>2
  <2> HIDE DEF new
  <2>6. slot'[k] = new /\ \A x \in 0 .. MaxOnline - 1 : x # k => slot'[x] = slot[x]
    BY <1>3, <2>1, <2>5
  <2>7. u.session \in 1 .. globSession  BY <1>1, <1>3, <2>2
  <2>8. GetsAnswer(c, u.session, u.self, u.cmd)
    BY <2>2, <2>4, <2>6, <2>7 DEF GetsAnswer
  <2> QED BY <1>1, <2>8
<1>8. CASE S!UseFreed(u, c) \/ S!Ignore(u, c)
  BY <1>1, <1>8 DEF S!UseFreed, S!Ignore, S!serverVars
<1> QED BY <1>2, <1>4, <1>5, <1>6, <1>7, <1>8 DEF S!ServerRecv

\* One more datagram is on its way to c.
LEMMA OneMore ==
  ASSUME ServerTypes, NEW c \in Clients, NEW msg \in DownMsgs,
         down' = S!Sent(down, c, msg)
  PROVE  /\ down' \in Outs
         /\ \A x \in Clients : /\ ToSet(down[x]) \subseteq ToSet(down'[x])
                               /\ \A m \in ToSet(down'[x]) :
                                    m \in ToSet(down[x]) \/ (x = c /\ m = msg)
<1>1. /\ down' \in Outs
      /\ \A x \in Clients : down'[x] = IF x = c THEN Append(down[c], msg) ELSE down[x]
  BY SentType DEF ServerTypes
<1>2. ToSet(Append(down[c], msg)) = ToSet(down[c]) \cup {msg}
  BY SetOfAppend DEF ServerTypes, Outs
<1> QED BY <1>1, <1>2

LEMMA NewsSet ==
  ASSUME NEW q \in Seq(DownMsgs), NEW r \in Seq(DownMsgs), NEW nodes, News(q, r, nodes)
  PROVE  /\ ToSet(q) \subseteq ToSet(r)
         /\ \A m \in ToSet(r) : m \in ToSet(q) \/ IsListMsg(m, nodes)
<1>1. /\ Len(q) \in Nat /\ Len(r) \in Nat /\ DOMAIN q = 1 .. Len(q)
      /\ DOMAIN r = 1 .. Len(r) /\ Len(q) <= Len(r)
  BY DEF News
<1>2. \A i \in 1 .. Len(q) : i \in 1 .. Len(r) /\ r[i] = q[i]  BY <1>1 DEF News
<1>3. \A i \in 1 .. Len(r) : i \in 1 .. Len(q) \/ i \in Len(q) + 1 .. Len(r)  BY <1>1
<1> QED BY <1>1, <1>2, <1>3 DEF ToSet, News

\* The members of the session are sent parts of its list, and nothing else.
LEMMA JoinNews ==
  ASSUME Types, NEW c \in Clients, NEW t \in Nat, NEW s \in Nat, JoinsSession(c, t, s)
  PROVE  LET n     == S!Place(t)
             e     == S!Entry(t, s, c)
             nodes == Append(slot[n].nodes, e)
         IN
         /\ n \in 0 .. MaxOnline - 1 /\ nodes \in Seq(S!Entries) /\ e \in S!Entries
         /\ ToSet(nodes) = ToSet(slot[n].nodes) \cup {e}
         /\ down' \in Outs /\ OnlyNews(down', nodes)
         /\ Len(nodes) > 1 => \A k \in 1 .. Len(nodes) :
              /\ nodes[k].self # s => \E m \in ToSet(down'[nodes[k].addr]) : Bears(m, e)
              /\ \E m \in ToSet(down'[c]) : Bears(m, nodes[k])
<1> DEFINE n     == S!Place(t)
           e     == S!Entry(t, s, c)
           nodes == Append(slot[n].nodes, e)
<1>1. n \in 0 .. MaxOnline - 1  BY PlaceIn
<1>2. e \in S!Entries /\ e.self = s /\ e.addr = c
  BY EntryType DEF S!Cmds, S!Entry
<1>3. slot[n].nodes \in Seq(S!Entries)
  BY <1>1 DEF Types, ServerTypes, Slots
<1>4. down' = S!SendStunList(nodes, e)  BY DEF JoinsSession
<1> HIDE DEF n, e
<1>5. nodes \in Seq(S!Entries) /\ ToSet(nodes) = ToSet(slot[n].nodes) \cup {e}
  BY <1>2, <1>3, SetOfAppend
<1>6. e \in ToSet(nodes)  BY <1>5
<1> HIDE DEF nodes
<1>7. /\ down' \in Outs
      /\ OnlyNews(down', nodes)
      /\ Len(nodes) > 1 => \A k \in 1 .. Len(nodes) :
           /\ nodes[k].self # e.self => \E m \in ToSet(down'[nodes[k].addr]) : Bears(m, e)
           /\ \E m \in ToSet(down'[e.addr]) : Bears(m, nodes[k])
  BY <1>4, <1>5, <1>6, ListSent DEF Types
<1> QED BY <1>1, <1>2, <1>5, <1>7 DEF n, e, nodes

-----------------------------------------------------------------------------
(* The invariant is kept. *)

\* What the server has sent to x: a list, the answer to a registration of c,
\* or another answer.
Fresh(c, x, m) ==
  /\ m.cmd \in {"Peers", "Reg"} \/ x = c
  /\ Len(m.es) \in 1 .. ListMax
  /\ \A e \in ToSet(m.es) : e.session \in 1 .. globSession'
  /\ m.cmd = "Peers" => \E n \in 0 .. MaxOnline - 1 :
                           ToSet(m.es) \subseteq ToSet(slot'[n].nodes)
  /\ m.cmd = "Reg" => /\ x = c /\ globSession' = globSession + 1
                      /\ m.es[1] = S!Entry(globSession', globSession', c)

LEMMA ServedDown ==
  ASSUME Types, PlacesTaken, NEW c \in Clients, Served(c)
  PROVE  /\ globSession' \in {globSession, globSession + 1} /\ globSession \in Nat \ {0}
         /\ \A x \in Clients : /\ ToSet(down[x]) \subseteq ToSet(down'[x])
                               /\ \A m \in ToSet(down'[x]) :
                                    m \in ToSet(down[x]) \/ Fresh(c, x, m)
<1>1. globSession \in Nat \ {0} /\ 1 \in 1 .. ListMax
  BY StunNetAssumption DEF Types, ServerTypes
<1>2. PICK u \in UpMsgs :
        \/ TakesSession(c) \/ JoinsSession(c, u.session, u.self)
        \/ GetsAnswer(c, u.session, u.self, u.cmd)
        \/ UNCHANGED <<globSession, slot, down>>
  BY ServedKinds
<1>3. u.session \in Nat /\ u.self \in Nat /\ u.cmd \in S!Cmds  BY DEF UpMsgs
<1>4. ASSUME NEW e \in S!Entries, NEW cmd \in S!Cmds, NEW msg, msg = S!Down(cmd, <<e>>)
      PROVE  /\ msg \in DownMsgs /\ msg.cmd = cmd /\ msg.es[1] = e /\ Len(msg.es) = 1
             /\ ToSet(msg.es) = {e}
  BY <1>4 DEF S!Down, DownMsgs, ToSet
<1>5. CASE TakesSession(c)
  <2> DEFINE t   == globSession + 1
             e   == S!Entry(t, t, c)
             msg == S!Down("Reg", <<e>>)
  <2>1. t \in Nat /\ "Reg" \in S!Cmds  BY <1>1 DEF S!Cmds
  <2>2. globSession' = t /\ down' = S!Sent(down, c, msg)  BY <1>5 DEF TakesSession
  <2>3. e \in S!Entries /\ e.session = t
    <3> HIDE DEF t
    <3> QED BY <2>1, EntryType DEF S!Entry
  <2> HIDE DEF e
  <2>4. /\ msg \in DownMsgs /\ msg.cmd = "Reg" /\ msg.es[1] = e /\ Len(msg.es) = 1
        /\ ToSet(msg.es) = {e}
    BY <1>4, <2>1, <2>3
  <2> HIDE DEF msg
  <2>5. \A x \in Clients : /\ ToSet(down[x]) \subseteq ToSet(down'[x])
                           /\ \A m \in ToSet(down'[x]) :
                                m \in ToSet(down[x]) \/ (x = c /\ m = msg)
    BY <2>2, <2>4, OneMore DEF Types
  <2>6. t \in 1 .. t  BY <1>1
  <2>7. Fresh(c, c, msg)  BY <1>1, <2>2, <2>3, <2>4, <2>6 DEF Fresh, e
  <2> QED BY <1>1, <2>2, <2>5, <2>7
<1>6. CASE JoinsSession(c, u.session, u.self)
  <2> DEFINE n == S!Place(u.session)
             e == S!Entry(u.session, u.self, c)
             nodes == Append(slot[n].nodes, e)
  <2>1. /\ n \in 0 .. MaxOnline - 1
        /\ ToSet(nodes) = ToSet(slot[n].nodes) \cup {e}
        /\ down' \in Outs /\ OnlyNews(down', nodes)
    BY <1>3, <1>6, JoinNews
  <2>2. u.session \in 1 .. globSession /\ globSession' = globSession
    BY <1>6 DEF JoinsSession
  <2>3. e.session = u.session  BY DEF S!Entry
  <2> HIDE DEF n, e
  <2>4. \A y \in ToSet(nodes) : y.session \in 1 .. globSession
    BY <2>1, <2>2, <2>3 DEF PlacesTaken
  <2> HIDE DEF nodes
  <2>5. \A x \in Clients : /\ ToSet(down[x]) \subseteq ToSet(down'[x])
                           /\ \A m \in ToSet(down'[x]) :
                                m \in ToSet(down[x]) \/ IsListMsg(m, nodes)
    <3>1. SUFFICES ASSUME NEW x \in Clients
                   PROVE  /\ ToSet(down[x]) \subseteq ToSet(down'[x])
                          /\ \A m \in ToSet(down'[x]) :
                               m \in ToSet(down[x]) \/ IsListMsg(m, nodes)
      OBVIOUS
    <3>2. /\ down[x] \in Seq(DownMsgs) /\ down'[x] \in Seq(DownMsgs)
          /\ News(down[x], down'[x], nodes)
      BY <2>1 DEF OnlyNews, Types, ServerTypes, Outs
    <3> QED BY <3>2, NewsSet
  <2>6. slot'[n].nodes = nodes  BY <1>6 DEF JoinsSession, n, e, nodes
  <2>7. \A x, m : IsListMsg(m, nodes) => Fresh(c, x, m)
    BY <2>1, <2>2, <2>4, <2>6 DEF IsListMsg, Fresh
  <2> QED BY <1>1, <2>2, <2>5, <2>7
<1>7. CASE GetsAnswer(c, u.session, u.self, u.cmd)
  <2> DEFINE e   == S!Entry(u.session, u.self, c)
             msg == S!Down(u.cmd, <<e>>)
  <2>1. /\ u.session \in 1 .. globSession /\ globSession' = globSession
        /\ u.cmd # "Reg" /\ u.cmd # "Peers" /\ down' = S!Sent(down, c, msg)
    BY <1>7 DEF GetsAnswer
  <2>2. e \in S!Entries /\ e.session = u.session  BY <1>3, EntryType DEF S!Entry
  <2> HIDE DEF e
  <2>3. /\ msg \in DownMsgs /\ msg.cmd = u.cmd /\ Len(msg.es) = 1 /\ ToSet(msg.es) = {e}
    BY <1>3, <1>4, <2>2
  <2> HIDE DEF msg
  <2>4. \A x \in Clients : /\ ToSet(down[x]) \subseteq ToSet(down'[x])
                           /\ \A m \in ToSet(down'[x]) :
                                m \in ToSet(down[x]) \/ (x = c /\ m = msg)
    BY <2>1, <2>3, OneMore DEF Types
  <2>5. Fresh(c, c, msg)  BY <1>1, <2>1, <2>2, <2>3 DEF Fresh
  <2> QED BY <1>1, <2>1, <2>4, <2>5
<1>8. CASE UNCHANGED <<globSession, slot, down>>  BY <1>1, <1>8
<1> QED BY <1>2, <1>5, <1>6, <1>7, <1>8

LEMMA ServedPlaces ==
  ASSUME Types, PlacesTaken, NEW c \in Clients, Served(c)
  PROVE  PlacesTaken'
<1>1. PICK u \in UpMsgs :
        \/ TakesSession(c) \/ JoinsSession(c, u.session, u.self)
        \/ GetsAnswer(c, u.session, u.self, u.cmd)
        \/ UNCHANGED <<globSession, slot, down>>
  BY ServedKinds
<1>2. u.session \in Nat /\ u.self \in Nat /\ globSession \in Nat \ {0}
  BY DEF UpMsgs, Types, ServerTypes
<1>3. ASSUME NEW x \in 0 .. MaxOnline - 1, slot'[x] = slot[x],
             globSession' \in {globSession, globSession + 1}
      PROVE  /\ ~slot'[x].made => ~slot'[x].freed /\ slot'[x].nodes = <<>>
             /\ slot'[x].made =>
                  slot'[x].session \in 2 .. globSession' /\ S!Place(slot'[x].session) = x
             /\ \A e \in ToSet(slot'[x].nodes) : e.session \in 1 .. globSession'
  <2>1. 2 .. globSession \subseteq 2 .. globSession'  BY <1>2, <1>3
  <2>2. 1 .. globSession \subseteq 1 .. globSession'  BY <1>2, <1>3
  <2> QED BY <1>3, <2>1, <2>2 DEF PlacesTaken
<1>4. CASE TakesSession(c)
  <2> DEFINE t == globSession + 1
             n == S!Place(t)
             e == S!Entry(t, t, c)
  <2>1. t \in Nat /\ t \in 2 .. t /\ t \in 1 .. t /\ 1 .. globSession \subseteq 1 .. t  BY <1>2
  <2>2. /\ globSession' = t /\ slot'[n].made = TRUE /\ slot'[n].session = t
        /\ slot'[n].nodes = Append(slot[n].nodes, e)
        /\ \A x \in 0 .. MaxOnline - 1 : x # n => slot'[x] = slot[x]
    BY <1>4 DEF TakesSession
  <2>3. n \in 0 .. MaxOnline - 1 /\ e \in S!Entries /\ e.session = t
    <3> HIDE DEF t
    <3> QED BY <2>1, PlaceIn, EntryType DEF S!Cmds, S!Entry
  <2> HIDE DEF e
  <2>4. slot[n].nodes \in Seq(S!Entries)  BY <2>3 DEF Types, ServerTypes, Slots
  <2>5. ToSet(slot'[n].nodes) = ToSet(slot[n].nodes) \cup {e}
    BY <2>2, <2>3, <2>4, SetOfAppend
  <2>6. \A y \in ToSet(slot'[n].nodes) : y.session \in 1 .. globSession'
    BY <2>1, <2>2, <2>3, <2>5 DEF PlacesTaken
  <2>7. globSession' \in {globSession, globSession + 1}  BY <2>2
  <2>8. S!Place(slot'[n].session) = n  BY <2>2
  <2> HIDE DEF t, n
  <2> QED BY <1>3, <2>1, <2>2, <2>3, <2>6, <2>7, <2>8 DEF PlacesTaken
<1>5. CASE JoinsSession(c, u.session, u.self)
  <2> DEFINE n == S!Place(u.session)
             e == S!Entry(u.session, u.self, c)
  <2>1. /\ n \in 0 .. MaxOnline - 1
        /\ ToSet(Append(slot[n].nodes, e)) = ToSet(slot[n].nodes) \cup {e}
    BY <1>2, <1>5, JoinNews
  <2>2. /\ u.session \in 1 .. globSession /\ globSession' = globSession
        /\ slot[n].made /\ slot'[n].made = slot[n].made
        /\ slot'[n].session = slot[n].session
        /\ slot'[n].nodes = Append(slot[n].nodes, e)
        /\ \A x \in 0 .. MaxOnline - 1 : x # n => slot'[x] = slot[x]
    BY <1>5 DEF JoinsSession
  <2>3. e.session = u.session  BY DEF S!Entry
  <2> HIDE DEF n, e
  <2>4. \A y \in ToSet(slot'[n].nodes) : y.session \in 1 .. globSession'
    BY <2>1, <2>2, <2>3 DEF PlacesTaken
  <2>5. slot'[n].session \in 2 .. globSession' /\ S!Place(slot'[n].session) = n
    BY <2>1, <2>2 DEF PlacesTaken
  <2>6. \A x \in 0 .. MaxOnline - 1 : x # n =>
          /\ ~slot'[x].made => ~slot'[x].freed /\ slot'[x].nodes = <<>>
          /\ slot'[x].made =>
               slot'[x].session \in 2 .. globSession' /\ S!Place(slot'[x].session) = x
          /\ \A y \in ToSet(slot'[x].nodes) : y.session \in 1 .. globSession'
    BY <1>3, <2>2
  <2> QED BY <2>1, <2>2, <2>4, <2>5, <2>6 DEF PlacesTaken
<1>6. CASE GetsAnswer(c, u.session, u.self, u.cmd)
  <2>1. /\ globSession' = globSession
        /\ \A x \in 0 .. MaxOnline - 1 :
             \/ slot'[x] = slot[x]
             \/ /\ slot[x].made /\ slot'[x].made = slot[x].made
                /\ slot'[x].session = slot[x].session /\ slot'[x].nodes = <<>>
    BY <1>6 DEF GetsAnswer
  <2>2. ToSet(<<>>) = {}  BY DEF ToSet
  <2> QED BY <1>3, <2>1, <2>2 DEF PlacesTaken
<1>7. CASE UNCHANGED <<globSession, slot, down>>  BY <1>7 DEF PlacesTaken
<1> QED BY <1>1, <1>4, <1>5, <1>6, <1>7

LEMMA ServedKeeps ==
  ASSUME IInv, NEW c \in Clients, Served(c)
  PROVE  (Fit /\ Answers /\ OneEach /\ OwnLists /\ KnownSessions /\ PlacesTaken)'
<1>1. /\ globSession' \in {globSession, globSession + 1} /\ globSession \in Nat \ {0}
      /\ \A x \in Clients : /\ ToSet(down[x]) \subseteq ToSet(down'[x])
                            /\ \A m \in ToSet(down'[x]) :
                                 m \in ToSet(down[x]) \/ Fresh(c, x, m)
  BY ServedDown DEF IInv
<1>2. UNCHANGED <<session, self, list>>  BY DEF Served, clientVars
<1>3. 1 .. globSession \subseteq 1 .. globSession' /\ globSession <= globSession'  BY <1>1
<1>4. Fit'
  <2>1. ASSUME NEW x \in Clients, NEW m \in ToSet(down'[x])
        PROVE  Len(m.es) \in 1 .. ListMax
               /\ \A e \in ToSet(m.es) : e.session \in 1 .. globSession'
    <3>1. CASE m \in ToSet(down[x])  BY <1>3, <3>1 DEF IInv, Fit
    <3>2. CASE Fresh(c, x, m)  BY <3>2 DEF Fresh
    <3> QED BY <1>1, <3>1, <3>2
  <2> QED BY <2>1 DEF Fit
<1>5. ASSUME NEW x \in Clients, NEW m \in ToSet(down'[x]), m.cmd = "Reg"
      PROVE  \/ m \in ToSet(down[x])
             \/ /\ x = c /\ m.es[1].addr = c /\ m.es[1].self = globSession + 1
                /\ m.es[1].session = globSession + 1
  BY <1>1, <1>5 DEF Fresh, S!Entry
<1>6. Answers'  BY <1>1, <1>5 DEF IInv, Answers
<1>7. ASSUME NEW x \in Clients, NEW m \in ToSet(down[x])
      PROVE  m.es[1].session # globSession + 1
  <2>1. Len(m.es) \in 1 .. ListMax /\ \A e \in ToSet(m.es) : e.session \in 1 .. globSession
    BY DEF IInv, Fit
  <2>2. m \in DownMsgs  BY DEF IInv, Types, ServerTypes, Outs, ToSet
  <2>3. m.es \in Seq(S!Entries) /\ 1 \in 1 .. Len(m.es)
    BY <2>1, <2>2, StunNetAssumption DEF DownMsgs
  <2>4. m.es[1] \in ToSet(m.es)  BY <2>3, EntryAt
  <2> QED BY <1>1, <2>1, <2>4
<1>8. \A d \in Clients : self[d] \in Nat /\ self[d] <= globSession
  BY DEF IInv, OwnLists, Types, ClientTypes
<1>9. OneEach'
  <2>1. \A x, y \in Clients : \A m \in ToSet(down'[x]), w \in ToSet(down'[y]) :
          m.cmd = "Reg" /\ w.cmd = "Reg" /\ m.es[1].session = w.es[1].session => x = y
    BY <1>5, <1>7 DEF IInv, OneEach
  <2>2. \A x, y \in Clients : \A m \in ToSet(down'[x]) :
          m.cmd = "Reg" /\ m.es[1].session = self[y] => x = y
    BY <1>1, <1>5, <1>8 DEF IInv, OneEach
  <2> QED BY <1>2, <2>1, <2>2 DEF IInv, OneEach
<1>10. OwnLists'
  <2>1. \A x \in Clients : self[x] <= globSession'  BY <1>1, <1>8
  <2> QED BY <1>2, <2>1 DEF IInv, OwnLists
<1>11. KnownSessions'  BY <1>2, <1>3 DEF IInv, KnownSessions
<1>12. PlacesTaken'  BY ServedPlaces DEF IInv
<1> QED BY <1>4, <1>6, <1>9, <1>10, <1>11, <1>12

\* When nothing new is on its way.
LEMMA DownKeeps ==
  ASSUME IInv, NoNews
  PROVE  /\ (Fit /\ Answers /\ PlacesTaken)'
         /\ \A c, d \in Clients : \A m \in ToSet(down'[c]), w \in ToSet(down'[d]) :
              m.cmd = "Reg" /\ w.cmd = "Reg" /\ m.es[1].session = w.es[1].session => c = d
<1>1. UNCHANGED <<globSession, slot>>
      /\ \A x \in Clients : \A m \in ToSet(down'[x]) : m \in ToSet(down[x])
  BY DEF NoNews
<1>2. Fit'  BY <1>1 DEF IInv, Fit
<1>3. Answers'  BY <1>1 DEF IInv, Answers
<1>4. PlacesTaken'  BY <1>1 DEF IInv, PlacesTaken
<1>5. \A c, d \in Clients : \A m \in ToSet(down'[c]), w \in ToSet(down'[d]) :
        m.cmd = "Reg" /\ w.cmd = "Reg" /\ m.es[1].session = w.es[1].session => c = d
  BY <1>1 DEF IInv, OneEach
<1> QED BY <1>2, <1>3, <1>4, <1>5

LEMMA NodeIn ==
  ASSUME ClientTypes, NEW c \in Clients, NEW k \in Lists
  PROVE  /\ \A n \in 1 .. Len(list[c][k].nodes) :
              list[c][k].nodes[n] \in ToSet(list[c][k].nodes)
         /\ \A x \in ToSet(list[c][k].nodes) : \E n \in 1 .. Len(list[c][k].nodes) :
              x = list[c][k].nodes[n]
         /\ list[c][k].nodes # <<>> <=> Len(list[c][k].nodes) >= 1
<1>1. list[c][k].nodes \in Seq(Nodes)  BY ListIn
<1> QED BY <1>1 DEF ToSet

LEMMA PassesKeeps ==
  ASSUME IInv, Passes, ClientTypes'
  PROVE  (Fit /\ Answers /\ OneEach /\ OwnLists /\ KnownSessions /\ PlacesTaken)'
<1>1. /\ UNCHANGED <<session, self>> /\ globSession' = globSession
      /\ \A d \in Clients, j \in Lists : Remarked(list[d][j], list'[d][j])
      /\ \A x \in Clients : \A m \in ToSet(down'[x]) : m \in ToSet(down[x])
  BY DEF Passes, Quietly, NoNews
<1>2. OneEach'
  <2>1. \A c, d \in Clients : \A m \in ToSet(down'[c]) :
          m.cmd = "Reg" /\ m.es[1].session = self[d] => c = d
    BY <1>1 DEF IInv, OneEach
  <2>2. \A c, d \in Clients : self[c] = self[d] /\ self[c] # 0 => c = d
    BY DEF IInv, OneEach
  <2> QED BY <1>1, <2>1, <2>2, DownKeeps DEF Passes, OneEach
<1>3. \A c \in Clients, k \in Lists :
        /\ list[c][k].nodes \in Seq(Nodes) /\ list'[c][k].nodes \in Seq(Nodes)
        /\ Len(list'[c][k].nodes) = Len(list[c][k].nodes)
        /\ Len(list[c][k].nodes) \in Nat
  BY <1>1 DEF IInv, Types, ClientTypes, ClientLists, Remarked
<1>4. OwnLists'
  <2>1. ASSUME NEW c \in Clients
        PROVE  /\ self'[c] <= globSession'
               /\ self'[c] # 0 <=> list'[c][Own].made
               /\ self'[c] # 0 =>
                    /\ session'[c] = self'[c] /\ list'[c][Own].session = self'[c]
                    /\ list'[c][Own].nodes # <<>>
                    /\ list'[c][Own].nodes[1].addr = c
                    /\ list'[c][Own].nodes[1].self = self'[c]
               /\ \A k \in Lists : ~list'[c][k].made => list'[c][k].nodes = <<>>
    <3>1. Own \in Lists /\ Remarked(list[c][Own], list'[c][Own])  BY <1>1, ListsAre
    <3>2. list[c][Own].nodes # <<>> => 1 \in 1 .. Len(list[c][Own].nodes)
      BY <1>3, <3>1
    <3>3. \A k \in Lists : list[c][k].nodes = <<>> <=> list'[c][k].nodes = <<>>
      BY <1>3
    <3>4. \A k \in Lists : ~list'[c][k].made => list'[c][k].nodes = <<>>
      BY <1>1, <3>3 DEF IInv, OwnLists, Remarked
    <3> QED BY <1>1, <3>1, <3>2, <3>3, <3>4 DEF IInv, OwnLists, Remarked
  <2> QED BY <2>1 DEF OwnLists
<1>5. KnownSessions'
  <2>1. ASSUME NEW c \in Clients, NEW k \in Lists, NEW x \in ToSet(list'[c][k].nodes)
        PROVE  x.session \in 1 .. globSession
    <3>1. PICK n \in 1 .. Len(list[c][k].nodes) : x = list'[c][k].nodes[n]
      BY <1>3 DEF ToSet
    <3>2. x.session = list[c][k].nodes[n].session  BY <1>1, <3>1 DEF Remarked
    <3>3. list[c][k].nodes[n] \in ToSet(list[c][k].nodes)
      BY NodeIn DEF IInv, Types
    <3> QED BY <3>2, <3>3 DEF IInv, KnownSessions
  <2> QED BY <1>1, <2>1 DEF KnownSessions
<1> QED BY <1>2, <1>4, <1>5, DownKeeps DEF Passes

\* A client without a session of its own has an empty list for it.
LEMMA Unregistered ==
  ASSUME IInv, NEW c \in Clients, session[c] = 0
  PROVE  self[c] = 0 /\ list[c][Own].nodes = <<>>
<1>1. self[c] = 0  BY DEF IInv, OwnLists
<1> QED BY <1>1, ListsAre DEF IInv, OwnLists

LEMMA RegKeeps ==
  ASSUME IInv, ClientTypes', NEW c \in Clients, Informed(c), RecvReg(c, Head(down[c]))
  PROVE  (OneEach /\ OwnLists /\ KnownSessions)'
<1> DEFINE m == Head(down[c])
           e == m.es[1]
           t == e.session
<1>1. /\ down[c] # <<>> /\ globSession' = globSession
      /\ \A x \in Clients : \A w \in ToSet(down'[x]) : w \in ToSet(down[x])
  BY DEF Informed, NoNews
<1>2. /\ m \in ToSet(down[c]) /\ e \in S!Entries /\ e \in ToSet(m.es)
  BY <1>1, TakenDown DEF IInv, Types
<1>3. /\ session[c] = 0 /\ m.cmd = "Reg"
      /\ session' = [session EXCEPT ![c] = t] /\ self' = [self EXCEPT ![c] = t]
  BY <1>1, RegDoes DEF IInv, Types
<1>4. PICK new \in ClientLists :
        /\ new.made = TRUE /\ new.session = t
        /\ new.nodes = Append(list[c][Own].nodes, Node(e))
        /\ list' = [list EXCEPT ![c][Own] = new]
  BY <1>1, RegDoes DEF IInv, Types
<1>5. t \in 1 .. globSession /\ e.addr = c /\ e.self = t /\ globSession \in Nat
  BY <1>2, <1>3 DEF IInv, Fit, Answers, Types, ServerTypes
<1> HIDE DEF t, e, m
<1>6. /\ Node(e) \in Nodes /\ Node(e).session = t /\ Node(e).self = t /\ Node(e).addr = c
  BY <1>2, <1>5, NodeType DEF t
<1>7. new.nodes = <<Node(e)>>
  <2>1. list[c][Own].nodes = <<>>  BY <1>3, Unregistered
  <2> QED BY <1>4, <1>6, <2>1
<1>8. /\ \A x \in Clients : /\ session'[x] = IF x = c THEN t ELSE session[x]
                            /\ self'[x] = IF x = c THEN t ELSE self[x]
      /\ \A x \in Clients, k \in Lists :
           list'[x][k] = IF x = c /\ k = Own THEN new ELSE list[x][k]
  <2>1. \A x \in Clients : /\ session'[x] = IF x = c THEN t ELSE session[x]
                           /\ self'[x] = IF x = c THEN t ELSE self[x]
    BY <1>3 DEF IInv, Types, ClientTypes
  <2>2. \A x \in Clients, k \in Lists :
          list'[x][k] = IF x = c /\ k = Own THEN new ELSE list[x][k]
    BY <1>4, ListSet, ListsAre DEF IInv, Types
  <2> QED BY <2>1, <2>2
<1>9. OneEach'
  <2>1. \A x, y \in Clients : \A p \in ToSet(down'[x]), w \in ToSet(down'[y]) :
          p.cmd = "Reg" /\ w.cmd = "Reg" /\ p.es[1].session = w.es[1].session => x = y
    BY DownKeeps DEF Informed
  <2>2. m.es[1].session = t  BY DEF t, e
  <2>3. \A x \in Clients : \A p \in ToSet(down[x]) :
          p.cmd = "Reg" /\ p.es[1].session = t => x = c
    BY <1>2, <1>3, <2>2 DEF IInv, OneEach
  <2>4. \A y \in Clients : self[y] = t => y = c
    BY <1>2, <1>3, <2>2 DEF IInv, OneEach
  <2>5. \A x, y \in Clients : \A p \in ToSet(down'[x]) :
          p.cmd = "Reg" /\ p.es[1].session = self'[y] => x = y
    <3>1. SUFFICES ASSUME NEW x \in Clients, NEW y \in Clients, NEW p \in ToSet(down'[x]),
                          p.cmd = "Reg", p.es[1].session = self'[y]
                   PROVE  x = y
      OBVIOUS
    <3>2. p \in ToSet(down[x])  BY <1>1
    <3>3. CASE y = c  BY <1>8, <2>3, <3>1, <3>2, <3>3
    <3>4. CASE y # c
      <4>1. self'[y] = self[y]  BY <1>8, <3>4
      <4> QED BY <3>1, <3>2, <4>1 DEF IInv, OneEach
    <3> QED BY <3>3, <3>4
  <2>6. \A x, y \in Clients : self'[x] = self'[y] /\ self'[x] # 0 => x = y
    BY <1>8, <2>4 DEF IInv, OneEach
  <2> QED BY <2>1, <2>5, <2>6 DEF OneEach
<1>10. OwnLists'
  <2>1. new.nodes # <<>> /\ new.nodes[1] = Node(e)  BY <1>7
  <2>2. t <= globSession /\ t # 0  BY <1>5
  <2>3. Own \in Lists  BY ListsAre
  <2> QED BY <1>1, <1>4, <1>6, <1>8, <2>1, <2>2, <2>3 DEF IInv, OwnLists
<1>11. KnownSessions'
  <2>1. \A x \in ToSet(new.nodes) : x.session = t  BY <1>6, <1>7 DEF ToSet
  <2> QED BY <1>1, <1>5, <1>8, <2>1 DEF IInv, KnownSessions
<1> QED BY <1>9, <1>10, <1>11

LEMMA PeersKeeps ==
  ASSUME IInv, ClientTypes', NEW c \in Clients, Informed(c), RecvPeers(c, Head(down[c]))
  PROVE  (OneEach /\ OwnLists /\ KnownSessions)'
<1> DEFINE m == Head(down[c])
           s == m.es[1].session
           k == ListOf(c, s)
<1>1. /\ down[c] # <<>> /\ globSession' = globSession
      /\ \A x \in Clients : \A w \in ToSet(down'[x]) : w \in ToSet(down[x])
  BY DEF Informed, NoNews
<1>2. /\ m \in ToSet(down[c]) /\ m.es[1] \in ToSet(m.es)
      /\ m.es \in Seq(S!Entries) /\ Len(m.es) \in Nat
  BY <1>1, TakenDown DEF IInv, Types
<1>3. UNCHANGED <<session, self>>
  BY <1>1, PeersDoes DEF IInv, Types
<1>4. PICK l \in ClientLists, new \in ClientLists :
        /\ l.nodes = list[c][k].nodes
        /\ k = Own => l = list[c][Own]
        /\ k = Joined => l.made = TRUE /\ l.session = s
        /\ new.made = l.made /\ new.session = l.session
        /\ AddInv(new.nodes, Len(m.es), c, l, m.es)
        /\ list' = [list EXCEPT ![c][k] = new]
  BY <1>1, PeersDoes DEF IInv, Types
<1>5. \A e \in ToSet(m.es) : e.session \in 1 .. globSession  BY <1>2 DEF IInv, Fit
<1>6. s \in 1 .. globSession  BY <1>2, <1>5
<1>7. /\ k \in Lists /\ k \in {Own, Joined} /\ Own # Joined
      /\ k = Own => self[c] = s
  BY ListsAre DEF ListOf
<1> HIDE DEF m, s, k
<1>8. \A x \in Clients, j \in Lists :
        list'[x][j] = IF x = c /\ j = k THEN new ELSE list[x][j]
  BY <1>4, <1>7, ListSet, ListsAre DEF IInv, Types, k
<1>9. OneEach'
  <2>1. \A x, y \in Clients : \A p \in ToSet(down'[x]), w \in ToSet(down'[y]) :
          p.cmd = "Reg" /\ w.cmd = "Reg" /\ p.es[1].session = w.es[1].session => x = y
    BY DownKeeps DEF Informed
  <2> QED BY <1>1, <1>3, <2>1 DEF IInv, OneEach
<1>10. OwnLists'
  <2>1. /\ new.nodes \in Seq(Nodes) /\ list[c][k].nodes \in Seq(Nodes)
        /\ Len(list[c][k].nodes) <= Len(new.nodes)
        /\ \A n \in 1 .. Len(list[c][k].nodes) : new.nodes[n] = list[c][k].nodes[n]
    <3>1. list[c][k].nodes \in Seq(Nodes)  BY <1>7, ListIn, ListsAre DEF IInv, Types
    <3> QED BY <1>4, <3>1 DEF AddInv
  <2>2. k = Own => self[c] # 0 /\ list[c][Own].made /\ new.made
    BY <1>4, <1>6, <1>7 DEF IInv, OwnLists
  <2>3. new.made  BY <1>4, <1>7, <2>2
  <2>4. k = Own => /\ new.nodes # <<>> /\ new.nodes[1] = list[c][Own].nodes[1]
                   /\ new.session = list[c][Own].session
    <3>1. list[c][Own].nodes # <<>> /\ k = Own => 1 \in 1 .. Len(list[c][k].nodes)
      BY <2>1
    <3>2. list[c][Own].nodes # <<>> /\ k = Own => new.nodes # <<>>  BY <2>1
    <3>3. k = Own => list[c][Own].nodes # <<>>  BY <2>2 DEF IInv, OwnLists
    <3> QED BY <1>4, <2>1, <3>1, <3>2, <3>3
  <2>5. Own \in Lists /\ UNCHANGED <<globSession, session, self>>  BY <1>1, <1>3, ListsAre
  <2>6. \A j \in Lists : ~list'[c][j].made => list'[c][j].nodes = <<>>
    BY <1>8, <2>3 DEF IInv, OwnLists
  <2>7. \A x \in Clients : x # c => \A j \in Lists : list'[x][j] = list[x][j]  BY <1>8
  <2>8. list'[c][Own] = IF k = Own THEN new ELSE list[c][Own]  BY <1>8, <2>5
  <2>9. /\ self[c] # 0 <=> list'[c][Own].made
        /\ self[c] # 0 => /\ list'[c][Own].session = self[c]
                          /\ list'[c][Own].nodes # <<>>
                          /\ list'[c][Own].nodes[1].addr = c
                          /\ list'[c][Own].nodes[1].self = self[c]
    BY <2>2, <2>4, <2>8 DEF IInv, OwnLists
  <2> QED BY <2>5, <2>6, <2>7, <2>9 DEF IInv, OwnLists
<1>11. KnownSessions'
  <2>1. \A x \in ToSet(new.nodes) : x.session \in 1 .. globSession
    <3>1. \A x \in ToSet(new.nodes) : \/ x \in ToSet(list[c][k].nodes)
                                      \/ \E e \in ToSet(m.es) : x.session = e.session
      BY <1>4 DEF AddInv
    <3>2. \A x \in ToSet(list[c][k].nodes) : x.session \in 1 .. globSession
      BY <1>7 DEF IInv, KnownSessions
    <3> QED BY <1>5, <3>1, <3>2
  <2> QED BY <1>1, <1>8, <2>1 DEF IInv, KnownSessions
<1> QED BY <1>9, <1>10, <1>11

LEMMA InitHolds ==
  ASSUME Init
  PROVE  IInv
<1>1. /\ session = Preset /\ self = [c \in Clients |-> 0]
      /\ list = [c \in Clients |-> [k \in Lists |-> NoList]]
      /\ ping = [c \in Clients |-> [k \in Lists |-> [pc |-> "none", self |-> 0]]]
      /\ draft = [c \in Clients |-> NoDraft] /\ turn = [c \in Clients |-> 0]
      /\ beats = 0 /\ up = [c \in Clients |-> <<>>] /\ p2p = {}
  BY DEF Init, ClientInit
<1>2. /\ globSession = 1 /\ slot = [n \in 0 .. MaxOnline - 1 |-> S!NoList]
      /\ down = [c \in Clients |-> <<>>] /\ wild = FALSE
      /\ lost = 0 /\ repeated = 0 /\ overtaken = 0
  BY DEF Init, S!ServerInit
<1>3. /\ S!NoList \in Slots /\ S!NoList.made = FALSE /\ S!NoList.freed = FALSE
      /\ S!NoList.nodes = <<>>
  BY DEF S!NoList, Slots
<1>4. NoList \in ClientLists /\ NoList.made = FALSE /\ NoList.nodes = <<>>
  BY DEF NoList, ClientLists
<1>5. \A q : q = <<>> => ToSet(q) = {}  BY DEF ToSet
<1>6. ServerTypes
  <2>1. down \in Outs  BY <1>2 DEF Outs
  <2>2. slot \in [0 .. MaxOnline - 1 -> Slots]  BY <1>2, <1>3
  <2>3. wild \in BOOLEAN  BY <1>2
  <2>4. globSession \in Nat \ {0}  BY <1>2
  <2> QED BY <2>1, <2>2, <2>3, <2>4 DEF ServerTypes
<1>7. ClientTypes  BY <1>1, <1>4, ClientAssumption DEF ClientTypes
<1>8. FaultTypes  BY <1>2 DEF FaultTypes
<1>9. Fit /\ Answers  BY <1>2, <1>5 DEF Fit, Answers
<1>10. OneEach  BY <1>1, <1>2, <1>5 DEF OneEach
<1>11. OwnLists
  <2>1. \A c \in Clients : self[c] = 0 /\ self[c] <= globSession
    <3>1. \A c \in Clients : self[c] = 0  BY <1>1
    <3>2. 0 <= globSession  BY <1>2
    <3> QED BY <3>1, <3>2
  <2>2. \A c \in Clients, k \in Lists : list[c][k] = NoList  BY <1>1
  <2> QED BY <1>4, <2>1, <2>2, ListsAre DEF OwnLists
<1>12. KnownSessions  BY <1>1, <1>4, <1>5 DEF KnownSessions
<1>13. PlacesTaken  BY <1>2, <1>3, <1>5 DEF PlacesTaken
<1> QED BY <1>6, <1>7, <1>8, <1>9, <1>10, <1>11, <1>12, <1>13 DEF IInv, Types

LEMMA StepHolds ==
  ASSUME IInv, [Next]_vars
  PROVE  IInv'
<1>1. Types'  BY TypesKept DEF IInv
<1>2. CASE Passes  BY <1>1, <1>2, PassesKeeps DEF IInv, Types
<1>3. ASSUME NEW c \in Clients, Served(c) PROVE IInv'
  BY <1>1, <1>3, ServedKeeps DEF IInv
<1>4. ASSUME NEW c \in Clients, Informed(c) PROVE IInv'
  <2>1. (OneEach /\ OwnLists /\ KnownSessions)'
    BY <1>1, <1>4, RegKeeps, PeersKeeps DEF Informed, Types
  <2>2. (Fit /\ Answers /\ PlacesTaken)'  BY <1>4, DownKeeps DEF Informed
  <2> QED BY <1>1, <2>1, <2>2 DEF IInv
<1> QED BY <1>2, <1>3, <1>4, StepKinds DEF IInv

\* The invariant the properties follow from: of whom a list is, whose session
\* is whose, and where datagrams come from.
THEOREM StunInvariant == Spec => []IInv
<1>1. IInv /\ [Next]_vars => IInv'  BY StepHolds
<1> QED BY <1>1, InitHolds, PTL DEF Spec

\* A client that has registered has a session of its own, and its list for it
\* begins with the client: source/base_stun.c, client_recv_run at kReg.
THEOREM OwnSessions == Spec => []OwnSession
<1>1. IInv => OwnSession  BY DEF IInv, OneEach, OwnLists, OwnSession
<1> QED BY <1>1, StunInvariant, PTL

\* The types, the size of a datagram, and that a client's list has nodes only
\* once it is made: source/base_stun.c:386 and the lists of pClientInfo.
THEOREM TypeCorrect == Spec => []TypeOK
<1>1. ASSUME IInv PROVE TypeOK
  <2>1. \A n \in DOMAIN slot : slot[n] \in Slots
    BY <1>1 DEF IInv, Types, ServerTypes
  <2>2. \A c \in Clients : /\ \A m \in ToSet(up[c]) : m.cmd \in S!Cmds
                           /\ \A m \in ToSet(down[c]) : m \in DownMsgs
    <3>1. \A c \in Clients : up[c] \in Seq(UpMsgs) /\ down[c] \in Seq(DownMsgs)
      BY <1>1 DEF IInv, Types, ServerTypes, ClientTypes, Outs
    <3> QED BY <3>1, SetOfType DEF UpMsgs
  <2>3. globSession \in Nat /\ wild \in BOOLEAN
    BY <1>1 DEF IInv, Types, ServerTypes
  <2>4. \A c \in Clients : session[c] \in Nat /\ self[c] \in 0 .. globSession
    <3>1. \A c \in Clients : session[c] \in Nat /\ self[c] \in Nat
      BY <1>1 DEF IInv, Types, ClientTypes
    <3>2. \A c \in Clients : self[c] <= globSession  BY <1>1 DEF IInv, OwnLists
    <3>3. globSession \in Nat  BY <2>3
    <3>4. \A x \in Nat : x <= globSession => x \in 0 .. globSession  BY <3>3
    <3> QED BY <3>1, <3>2, <3>4
  <2>5. \A c \in Clients, k \in Lists : list[c][k].nodes # <<>> => list[c][k].made
    BY <1>1 DEF IInv, OwnLists
  <2>6. \A c \in Clients : \A m \in ToSet(down[c]) :
          m.cmd \in S!Cmds /\ m.es \in Seq(S!Entries) /\ Len(m.es) \in 1 .. ListMax
    BY <1>1, <2>2 DEF IInv, Fit, DownMsgs
  <2>7. \A n \in DOMAIN slot : /\ slot[n].session \in Nat
                               /\ slot[n].made \in BOOLEAN /\ slot[n].freed \in BOOLEAN
                               /\ slot[n].nodes \in Seq(S!Entries)
    BY <2>1 DEF Slots
  <2> QED BY <2>2, <2>3, <2>4, <2>5, <2>6, <2>7 DEF TypeOK
<1> QED BY <1>1, StunInvariant, PTL

-----------------------------------------------------------------------------
(* Which list a session is in. *)

\* Nobody asks for session 1, which is never given out, but whose place is
\* that of session MaxOnline + 1.
GivenOut == 1 \notin JoinIds /\ \A c \in Clients : Preset[c] # 1

AskedFor == \A c \in Clients :
  session[c] # 1 /\ self[c] # 1 /\ \A m \in ToSet(up[c]) : m.session # 1

\* A list is of one session, and so is what a datagram carries of it.
SameSession == NoWrap =>
  /\ \A n \in 0 .. MaxOnline - 1 : \A e \in ToSet(slot[n].nodes) :
       e.session = slot[n].session
  /\ \A c \in Clients : \A m \in ToSet(down[c]) :
       m.cmd = "Peers" => \A e \in ToSet(m.es) : e.session = m.es[1].session

TurnsKept == overtaken = 0 => \A c \in Clients : InTurn(down[c])

\* A list of peers is in the right place, and the answer about its session is
\* not to come.
RightNow == overtaken = 0 /\ NoWrap => \A c \in Clients :
  /\ \A x \in ToSet(list[c][Own].nodes) : x.session = self[c]
  /\ \A x \in ToSet(list[c][Joined].nodes) :
       /\ x.session # self[c]
       /\ \A m \in ToSet(down[c]) : m.cmd = "Reg" => m.es[1].session # x.session

RInv == IInv /\ AskedFor /\ SameSession /\ TurnsKept /\ RightNow

\* Sessions have places of their own until they go round.
LEMMA PlaceOne ==
  ASSUME NEW s \in 2 .. MaxOnline + 1, NEW t \in 2 .. MaxOnline + 1,
         S!Place(s) = S!Place(t)
  PROVE  s = t
<1> DEFINE M == MaxOnline  r == s % M  a == s \div M  b == t \div M
<1>1. M \in Nat \ {0} /\ s \in Nat /\ t \in Nat  BY StunNetAssumption
<1>2. r = t % M  BY DEF S!Place
<1>3. a \in Nat /\ r \in 0 .. M - 1 /\ s = (M * a) + r
  <2> HIDE DEF M
  <2> QED BY <1>1
<1>4. b \in Nat /\ t = (M * b) + r
  <2> HIDE DEF M
  <2>1. b \in Nat /\ t = (M * b) + (t % M)  BY <1>1
  <2> QED BY <1>2, <2>1
<1>5. s - t < M /\ t - s < M  BY <1>1
<1> HIDE DEF M, r, a, b
<1>6. M * a \in Nat /\ M * b \in Nat  BY <1>1, <1>3, <1>4
<1>7. \A i, j \in Nat : i < j => (M * i) + M <= M * j  BY <1>1
<1>8. ~(a < b) /\ ~(b < a)  BY <1>1, <1>3, <1>4, <1>5, <1>6, <1>7
<1>9. a = b  BY <1>3, <1>4, <1>8
<1> QED BY <1>3, <1>4, <1>9

\* A client sends datagrams about the session it has or one it asks to join,
\* as the one it has registered as.
Asks(c) == {session[c], self[c]} \cup JoinIds

LEMMA UpNews ==
  ASSUME Types, [Next]_vars, NEW c \in Clients, NEW m \in ToSet(up'[c])
  PROVE  m \in ToSet(up[c]) \/ (m.session \in Asks(c) /\ m.self = self[c])
<1> DEFINE Goal == m \in ToSet(up[c]) \/ (m.session \in Asks(c) /\ m.self = self[c])
<1>1. \A d \in Clients : up[d] \in Seq(UpMsgs)  BY DEF Types, ClientTypes
<1>2. up \in [Clients -> Seq(UpMsgs)]  BY DEF Types, ClientTypes
<1>3. ASSUME NEW d \in Clients, NEW q, up' = [up EXCEPT ![d] = q],
             ToSet(q) \subseteq ToSet(up[d])
      PROVE  Goal
  BY <1>2, <1>3
<1>4. ASSUME NEW d \in Clients, NEW w \in UpMsgs, Send(d, w), w.session \in Asks(d),
             w.self = self[d]
      PROVE  Goal
  <2>1. up' = [up EXCEPT ![d] = Append(up[d], w)]  BY <1>4 DEF Send
  <2>2. ToSet(Append(up[d], w)) = ToSet(up[d]) \cup {w}  BY <1>1, SetOfAppend
  <2> QED BY <1>2, <1>4, <2>1, <2>2
<1>5. ASSUME NEW d \in Clients, up[d] # <<>>, up' = [up EXCEPT ![d] = Tail(@)]
      PROVE  Goal
  <2>1. ToSet(Tail(up[d])) \subseteq ToSet(up[d])  BY <1>1, <1>5, SetOfTail
  <2> QED BY <1>3, <1>5, <2>1
<1>6. CASE UNCHANGED up  BY <1>6
<1>7. CASE ToServer  BY <1>5, <1>7 DEF ToServer
<1>8. CASE ToClient
  BY <1>6, <1>8 DEF ToClient, ClientRecv, RecvReg, RecvPeers, RecvOther
<1>9. CASE ToPeer  BY <1>6, <1>9 DEF ToPeer, RecvPing, RecvAck
<1>10. \A d \in Clients : /\ session[d] \in Nat /\ self[d] \in Nat
                          /\ draft[d] \in {NoDraft, "Reg", "Peers", "Exit"}
  BY DEF Types, ClientTypes
<1>11. CASE Threads
  <2>1. PICK d \in Clients :
          \/ TestRound(d)
          \/ \E k \in Lists : StartPing(d, k) \/ \E n \in DOMAIN list[d][k].nodes : Ping(d, k, n)
    BY <1>11 DEF Threads
  <2>2. CASE SendRound(d)
    <3> DEFINE w == [cmd |-> draft[d], session |-> session[d], self |-> self[d]]
    <3>1. w \in UpMsgs
      BY <1>10, <2>2, UpMsgType DEF SendRound, S!Cmds
    <3>2. Send(d, w) /\ w.session \in Asks(d) /\ w.self = self[d]
      BY <2>2 DEF SendRound, Asks
    <3> HIDE DEF w
    <3> QED BY <1>4, <3>1, <3>2
  <2>3. CASE ~SendRound(d)
    BY <1>6, <2>1, <2>3 DEF TestRound, Round, StartPing, Ping
  <2> QED BY <2>2, <2>3
<1>12. CASE Users
  <2>1. PICK d \in Clients :
          \/ Beat(d)
          \/ \E cmd \in {"Reg", "Peers", "Exit"}, sess \in JoinIds \cup {0} : Command(d, cmd, sess)
    BY <1>12 DEF Users
  <2>2. CASE Beat(d)
    <3> DEFINE w == [cmd |-> "HeartBeat", session |-> session[d], self |-> self[d]]
    <3>1. w \in UpMsgs  BY <1>10, UpMsgType DEF S!Cmds
    <3>2. Send(d, w) /\ w.session \in Asks(d) /\ w.self = self[d]  BY <2>2 DEF Beat, Asks
    <3> HIDE DEF w
    <3> QED BY <1>4, <3>1, <3>2
  <2>3. ASSUME NEW cmd \in {"Reg", "Peers", "Exit"}, NEW sess \in JoinIds \cup {0},
               Command(d, cmd, sess)
        PROVE  Goal
    <3> DEFINE t == IF sess > 0 THEN sess ELSE self[d]
               w == [cmd |-> cmd, session |-> t, self |-> self[d]]
    <3>1. sess \in Nat /\ t \in Nat
      <4>1. sess \in Nat  BY ClientAssumption
      <4> QED BY <1>10, <4>1
    <3>2. t \in Asks(d)  BY <3>1 DEF Asks
    <3>3. Send(d, w)  BY <2>3 DEF Command
    <3> HIDE DEF t
    <3>4. w \in UpMsgs /\ w.session = t /\ w.self = self[d]
      BY <1>10, <3>1, UpMsgType DEF S!Cmds
    <3> HIDE DEF w
    <3> QED BY <1>4, <3>2, <3>3, <3>4
  <2> QED BY <2>1, <2>2, <2>3
<1>13. CASE Lose \/ Repeat \/ OvertakeOne
  <2>1. ASSUME NEW d \in Clients, up[d] # <<>>, up' = [up EXCEPT ![d] = <<Head(@)>> \o @]
        PROVE  Goal
    <3>1. ToSet(<<Head(up[d])>> \o up[d]) = ToSet(up[d])  BY <1>1, <2>1, RepeatedHead
    <3> QED BY <1>3, <2>1, <3>1
  <2>2. ASSUME NEW d \in Clients, Len(up[d]) > 1, up' = [up EXCEPT ![d] = Swapped(@)]
        PROVE  Goal
    <3>1. ToSet(Swapped(up[d])) = ToSet(up[d])  BY <1>1, <2>2, SwappedSet
    <3> QED BY <1>3, <2>2, <3>1
  <2> QED BY <1>5, <1>6, <1>13, <2>1, <2>2 DEF Lose, Repeat, OvertakeOne
<1>14. CASE UNCHANGED vars  BY <1>6, <1>14 DEF vars
<1> QED BY <1>7, <1>8, <1>9, <1>11, <1>12, <1>13, <1>14 DEF Next, Progress

LEMMA Handled ==
  ASSUME Types, Fit, NEW c \in Clients, Informed(c)
  PROVE  \/ RecvReg(c, Head(down[c])) /\ Head(down[c]).cmd = "Reg"
         \/ RecvPeers(c, Head(down[c])) /\ Head(down[c]).cmd = "Peers"
BY DEF Informed, RecvReg, RecvPeers, Awaited

LEMMA AskedKept ==
  ASSUME IInv, GivenOut, AskedFor, [Next]_vars
  PROVE  AskedFor'
<1>1. \A c \in Clients : \A m \in ToSet(up'[c]) : m.session # 1
  BY UpNews DEF IInv, AskedFor, GivenOut, Asks
<1>2. ASSUME UNCHANGED <<session, self>> PROVE AskedFor'
  BY <1>1, <1>2 DEF AskedFor
<1>3. CASE Passes  BY <1>2, <1>3 DEF Passes, Quietly
<1>4. ASSUME NEW c \in Clients, Served(c) PROVE AskedFor'
  BY <1>2, <1>4 DEF Served, clientVars
<1>5. ASSUME NEW c \in Clients, Informed(c) PROVE AskedFor'
  <2>1. CASE RecvPeers(c, Head(down[c]))
    BY <1>2, <1>5, <2>1, PeersDoes DEF IInv, Informed
  <2>2. CASE RecvReg(c, Head(down[c])) /\ Head(down[c]).cmd = "Reg"
    <3> DEFINE m == Head(down[c])
               t == m.es[1].session
    <3>1. down[c] # <<>>  BY <1>5 DEF Informed
    <3>2. m \in ToSet(down[c])  BY <3>1, TakenDown DEF IInv, Types
    <3>3. t > 1  BY <2>2, <3>2 DEF IInv, Answers
    <3>4. session' = [session EXCEPT ![c] = t] /\ self' = [self EXCEPT ![c] = t]
      BY <2>2, <3>1, RegDoes DEF IInv
    <3>5. t \in Nat  BY <3>1, TakenDown DEF IInv, Types, S!Entries
    <3> HIDE DEF t
    <3>6. t # 1  BY <3>3, <3>5
    <3>7. \A x \in Clients : session'[x] # 1 /\ self'[x] # 1
      BY <3>4, <3>6 DEF IInv, Types, ClientTypes, AskedFor
    <3> QED BY <1>1, <3>7 DEF AskedFor
  <2> QED BY <1>5, <2>1, <2>2, Handled DEF IInv
<1> QED BY <1>3, <1>4, <1>5, StepKinds DEF IInv

\* The place of a new session is free as long as sessions have places of their own.
LEMMA NewPlace ==
  ASSUME IInv, globSession + 1 <= MaxOnline + 1
  PROVE  LET n == S!Place(globSession + 1) IN
         n \in 0 .. MaxOnline - 1 /\ ~slot[n].made /\ slot[n].nodes = <<>>
<1> DEFINE t == globSession + 1
           n == S!Place(t)
<1>1. globSession \in Nat \ {0} /\ MaxOnline \in Nat
  BY StunNetAssumption DEF IInv, Types, ServerTypes
<1>2. t \in Nat /\ t \in 2 .. MaxOnline + 1  BY <1>1
<1>3. n \in 0 .. MaxOnline - 1
  <2> HIDE DEF t
  <2> QED BY <1>2, PlaceIn
<1>4. ASSUME slot[n].made PROVE FALSE
  <2> DEFINE s == slot[n].session
  <2>1. s \in 2 .. globSession /\ S!Place(s) = n  BY <1>3, <1>4 DEF IInv, PlacesTaken
  <2> HIDE DEF s
  <2>2. s \in 2 .. MaxOnline + 1  BY <1>1, <2>1
  <2>3. s = t
    <3> HIDE DEF t
    <3> QED BY <1>2, <2>1, <2>2, PlaceOne DEF n
  <2> QED BY <1>1, <2>1, <2>3
<1> QED BY <1>3, <1>4 DEF IInv, PlacesTaken

\* A client that joins gets into the list of the session it names.
LEMMA JoinPlace ==
  ASSUME IInv, AskedFor, NoWrap, NEW c \in Clients, NEW u \in ToSet(up[c]), u \in UpMsgs,
         JoinsSession(c, u.session, u.self)
  PROVE  LET n == S!Place(u.session) IN
         n \in 0 .. MaxOnline - 1 /\ slot[n].session = u.session
<1> DEFINE t == u.session
           n == S!Place(t)
           s == slot[n].session
<1>1. globSession \in Nat \ {0} /\ globSession <= MaxOnline + 1 /\ MaxOnline \in Nat
  BY StunNetAssumption DEF IInv, Types, ServerTypes, NoWrap
<1>2. t \in 1 .. globSession /\ slot[n].made  BY DEF JoinsSession
<1>3. t # 1 /\ t \in Nat  BY DEF AskedFor, UpMsgs
<1> HIDE DEF t
<1>4. n \in 0 .. MaxOnline - 1  BY <1>3, PlaceIn
<1>5. s \in 2 .. globSession /\ S!Place(s) = n  BY <1>2, <1>4 DEF IInv, PlacesTaken
<1> HIDE DEF s
<1>6. s \in 2 .. MaxOnline + 1 /\ t \in 2 .. MaxOnline + 1  BY <1>1, <1>2, <1>3, <1>5
<1>7. s = t  BY <1>5, <1>6, PlaceOne DEF n
<1> QED BY <1>4, <1>7 DEF t, s

LEMMA SameServed ==
  ASSUME RInv, IInv', NoWrap', NEW c \in Clients, Served(c)
  PROVE  \A n \in 0 .. MaxOnline - 1 : \A e \in ToSet(slot'[n].nodes) :
           e.session = slot'[n].session
<1>1. globSession \in Nat /\ globSession' \in {globSession, globSession + 1}
      /\ globSession' <= MaxOnline + 1 /\ MaxOnline \in Nat
  BY ServedDown, StunNetAssumption DEF RInv, IInv, NoWrap
<1>2. NoWrap  BY <1>1 DEF NoWrap
<1>3. \A n \in 0 .. MaxOnline - 1 : \A e \in ToSet(slot[n].nodes) :
        e.session = slot[n].session
  BY <1>2 DEF RInv, SameSession
<1>4. PICK u \in UpMsgs :
        /\ u \in ToSet(up[c])
        /\ \/ TakesSession(c) \/ JoinsSession(c, u.session, u.self)
           \/ GetsAnswer(c, u.session, u.self, u.cmd)
           \/ UNCHANGED <<globSession, slot, down>>
  BY ServedKinds DEF RInv, IInv
<1>5. u.session \in Nat /\ u.self \in Nat  BY DEF UpMsgs
<1>6. CASE TakesSession(c)
  <2> DEFINE t == globSession + 1
             n == S!Place(t)
             e == S!Entry(t, t, c)
  <2>1. /\ globSession' = t /\ slot'[n].session = t
        /\ slot'[n].nodes = Append(slot[n].nodes, e)
        /\ \A x \in 0 .. MaxOnline - 1 : x # n => slot'[x] = slot[x]
    BY <1>6 DEF TakesSession
  <2>2. n \in 0 .. MaxOnline - 1 /\ slot[n].nodes = <<>>
    BY <1>1, <2>1, NewPlace DEF RInv
  <2>3. e \in S!Entries /\ e.session = t
    <3>1. t \in Nat  BY <1>1
    <3> HIDE DEF t
    <3> QED BY <3>1, EntryType DEF S!Entry, S!Cmds
  <2> HIDE DEF e, n, t
  <2>4. slot'[n].nodes = <<e>>  BY <2>1, <2>2, <2>3
  <2>5. ToSet(<<e>>) = {e}  BY <2>3 DEF ToSet
  <2>6. \A x \in ToSet(slot'[n].nodes) : x.session = slot'[n].session
    BY <2>1, <2>3, <2>4, <2>5
  <2> QED BY <1>3, <2>1, <2>6
<1>7. CASE JoinsSession(c, u.session, u.self)
  <2> DEFINE n == S!Place(u.session)
             e == S!Entry(u.session, u.self, c)
  <2>1. n \in 0 .. MaxOnline - 1 /\ slot[n].session = u.session
    BY <1>2, <1>4, <1>7, JoinPlace DEF RInv
  <2>2. ToSet(Append(slot[n].nodes, e)) = ToSet(slot[n].nodes) \cup {e}
    BY <1>5, <1>7, JoinNews DEF RInv, IInv
  <2>3. /\ slot'[n].session = slot[n].session
        /\ slot'[n].nodes = Append(slot[n].nodes, e)
        /\ \A x \in 0 .. MaxOnline - 1 : x # n => slot'[x] = slot[x]
    BY <1>7 DEF JoinsSession
  <2>4. e.session = u.session  BY DEF S!Entry
  <2> HIDE DEF e, n
  <2>5. \A x \in ToSet(slot'[n].nodes) : x.session = slot'[n].session
    BY <1>3, <2>1, <2>2, <2>3, <2>4
  <2> QED BY <1>3, <2>3, <2>5
<1>8. CASE GetsAnswer(c, u.session, u.self, u.cmd)
  <2>1. \A x \in 0 .. MaxOnline - 1 :
          slot'[x] = slot[x] \/ slot'[x].nodes = <<>>
    BY <1>8 DEF GetsAnswer
  <2>2. ToSet(<<>>) = {}  BY DEF ToSet
  <2> QED BY <1>3, <2>1, <2>2
<1>9. CASE UNCHANGED <<globSession, slot, down>>  BY <1>3, <1>9
<1> QED BY <1>4, <1>6, <1>7, <1>8, <1>9

LEMMA FirstEntry ==
  ASSUME IInv, NEW c \in Clients, NEW m \in ToSet(down[c])
  PROVE  m.es[1] \in ToSet(m.es) /\ m.es[1].session \in 1 .. globSession
<1>1. Len(m.es) \in 1 .. ListMax /\ \A e \in ToSet(m.es) : e.session \in 1 .. globSession
  BY DEF IInv, Fit
<1>2. down[c] \in Seq(DownMsgs)  BY DEF IInv, Types, ServerTypes, Outs
<1>3. m \in DownMsgs  BY <1>2, SetOfType
<1>4. m.es \in Seq(S!Entries) /\ 1 \in 1 .. Len(m.es)
  BY <1>1, <1>3, StunNetAssumption DEF DownMsgs
<1> QED BY <1>1, <1>4, EntryAt

LEMMA SameKept ==
  ASSUME RInv, IInv', [Next]_vars
  PROVE  SameSession'
<1>1. SUFFICES ASSUME NoWrap'
               PROVE  /\ \A n \in 0 .. MaxOnline - 1 : \A e \in ToSet(slot'[n].nodes) :
                           e.session = slot'[n].session
                      /\ \A x \in Clients : \A m \in ToSet(down'[x]) : m.cmd = "Peers" =>
                           \A e \in ToSet(m.es) : e.session = m.es[1].session
  BY DEF SameSession
<1>2. ASSUME NoNews PROVE SameSession'
  BY <1>2 DEF NoNews, RInv, SameSession, NoWrap
<1>3. ASSUME NEW c \in Clients, Served(c) PROVE SameSession'
  <2>1. NoWrap
    <3>1. globSession \in Nat /\ globSession' \in {globSession, globSession + 1}
          /\ globSession' <= MaxOnline + 1 /\ MaxOnline \in Nat
      BY <1>1, <1>3, ServedDown, StunNetAssumption DEF RInv, IInv, NoWrap
    <3> QED BY <3>1 DEF NoWrap
  <2>2. \A n \in 0 .. MaxOnline - 1 : \A e \in ToSet(slot'[n].nodes) :
          e.session = slot'[n].session
    BY <1>1, <1>3, SameServed
  <2>3. ASSUME NEW x \in Clients, NEW m \in ToSet(down'[x]), m.cmd = "Peers"
        PROVE  \A e \in ToSet(m.es) : e.session = m.es[1].session
    <3>1. CASE m \in ToSet(down[x])  BY <2>1, <2>3, <3>1 DEF RInv, SameSession
    <3>2. CASE Fresh(c, x, m)
      <4>1. PICK n \in 0 .. MaxOnline - 1 : ToSet(m.es) \subseteq ToSet(slot'[n].nodes)
        BY <2>3, <3>2 DEF Fresh
      <4>2. (m.es)[1] \in ToSet(m.es)
        <5>1. down'[x] \in Seq(DownMsgs)  BY DEF IInv, Types, ServerTypes, Outs
        <5>2. m \in DownMsgs  BY <5>1, SetOfType
        <5>3. m.es \in Seq(S!Entries) /\ 1 \in 1 .. Len(m.es)
          BY <3>2, <5>2, StunNetAssumption DEF DownMsgs, Fresh
        <5> QED BY <5>3, EntryAt
      <4> QED BY <2>2, <4>1, <4>2
    <3> QED BY <1>3, <3>1, <3>2, ServedDown DEF RInv, IInv
  <2> QED BY <2>2, <2>3 DEF SameSession
<1>4. SameSession'
  BY <1>2, <1>3, StepKinds DEF RInv, IInv, Passes, Informed
<1> QED BY <1>1, <1>4 DEF SameSession

\* The answer about a new session is the last datagram, if there is one.
LEMMA ServedOrder ==
  ASSUME IInv, NEW c \in Clients, Served(c), NEW x \in Clients
  PROVE  /\ down[x] \in Seq(DownMsgs) /\ down'[x] \in Seq(DownMsgs)
         /\ Len(down[x]) <= Len(down'[x])
         /\ \A i \in 1 .. Len(down[x]) : down'[x][i] = down[x][i]
         /\ \A i \in Len(down[x]) + 1 .. Len(down'[x]) : down'[x][i].cmd = "Reg" =>
              i = Len(down[x]) + 1 /\ down'[x][i].es[1].session = globSession + 1
<1> DEFINE q == down[x]  r == down'[x]
           Goal == /\ q \in Seq(DownMsgs) /\ r \in Seq(DownMsgs)
                   /\ Len(q) <= Len(r)
                   /\ \A i \in 1 .. Len(q) : r[i] = q[i]
                   /\ \A i \in Len(q) + 1 .. Len(r) : r[i].cmd = "Reg" =>
                        i = Len(q) + 1 /\ r[i].es[1].session = globSession + 1
<1>1. q \in Seq(DownMsgs) /\ globSession \in Nat /\ down \in Outs
  BY DEF IInv, Types, ServerTypes, Outs
<1>2. PICK u \in UpMsgs :
        \/ TakesSession(c) \/ JoinsSession(c, u.session, u.self)
        \/ GetsAnswer(c, u.session, u.self, u.cmd)
        \/ UNCHANGED <<globSession, slot, down>>
  BY ServedKinds DEF IInv
<1>3. u.session \in Nat /\ u.self \in Nat /\ u.cmd \in S!Cmds  BY DEF UpMsgs
<1>4. ASSUME r = q PROVE Goal
  <2>1. \A i \in Len(q) + 1 .. Len(r) : FALSE  BY <1>1, <1>4
  <2> HIDE DEF q, r
  <2>2. Len(q) <= Len(r)  BY <1>1, <1>4
  <2> QED BY <1>1, <1>4, <2>1, <2>2
<1>5. ASSUME NEW msg \in DownMsgs, down' = S!Sent(down, c, msg),
             msg.cmd = "Reg" => msg.es[1].session = globSession + 1
      PROVE  Goal
  <2>1. r = IF x = c THEN Append(q, msg) ELSE q  BY <1>1, <1>5, SentType
  <2>2. CASE x # c  BY <1>4, <2>1, <2>2
  <2>3. CASE x = c
    <3>1. r = Append(q, msg)  BY <2>1, <2>3
    <3> HIDE DEF q, r
    <3>2. /\ r \in Seq(DownMsgs) /\ Len(r) = Len(q) + 1 /\ Len(q) \in Nat
          /\ \A i \in 1 .. Len(q) : r[i] = q[i]
          /\ r[Len(q) + 1] = msg
      BY <1>1, <3>1
    <3>3. \A i \in Len(q) + 1 .. Len(r) : i = Len(q) + 1  BY <3>2
    <3>4. Len(q) <= Len(r)  BY <3>2
    <3> QED BY <1>1, <1>5, <3>2, <3>3, <3>4
  <2> QED BY <2>2, <2>3
<1>6. CASE TakesSession(c)
  <2> DEFINE t   == globSession + 1
             e   == S!Entry(t, t, c)
             msg == S!Down("Reg", <<e>>)
  <2>1. msg \in DownMsgs /\ e.session = t /\ msg.es[1] = e
    <3>1. t \in Nat  BY <1>1
    <3> HIDE DEF t
    <3> QED BY <3>1, EntryType DEF S!Entry, S!Cmds, S!Down
  <2>2. down' = S!Sent(down, c, msg)  BY <1>6 DEF TakesSession
  <2> HIDE DEF e, msg
  <2> QED BY <1>5, <2>1, <2>2
<1>7. ASSUME JoinsSession(c, u.session, u.self) PROVE Goal
  <2> DEFINE n == S!Place(u.session)
             e == S!Entry(u.session, u.self, c)
             nodes == Append(slot[n].nodes, e)
  <2>1. down' \in Outs /\ OnlyNews(down', nodes)  BY <1>3, <1>7, JoinNews DEF IInv
  <2> HIDE DEF nodes
  <2>2. r \in Seq(DownMsgs) /\ News(q, r, nodes)  BY <2>1 DEF OnlyNews, Outs
  <2> HIDE DEF q, r
  <2>3. \A i \in Len(q) + 1 .. Len(r) : r[i].cmd = "Peers"  BY <2>2 DEF News, IsListMsg
  <2> QED BY <1>1, <2>2, <2>3 DEF News
<1>8. CASE GetsAnswer(c, u.session, u.self, u.cmd)
  <2> DEFINE msg == S!Down(u.cmd, <<S!Entry(u.session, u.self, c)>>)
  <2>1. msg \in DownMsgs /\ msg.cmd = u.cmd  BY <1>3, EntryType DEF S!Down
  <2>2. down' = S!Sent(down, c, msg) /\ u.cmd # "Reg"  BY <1>8 DEF GetsAnswer
  <2> HIDE DEF msg
  <2> QED BY <1>5, <2>1, <2>2
<1>9. CASE UNCHANGED <<globSession, slot, down>>  BY <1>4, <1>9
<1> QED BY <1>2, <1>6, <1>7, <1>8, <1>9

LEMMA InTurnMore ==
  ASSUME NEW q \in Seq(DownMsgs), NEW r \in Seq(DownMsgs), Len(q) <= Len(r), InTurn(q),
         NEW b,
         \A i \in 1 .. Len(q) : r[i] = q[i] /\ q[i].es[1].session # b,
         \A i \in Len(q) + 1 .. Len(r) : r[i].cmd = "Reg" =>
           i = Len(q) + 1 /\ r[i].es[1].session = b
  PROVE  InTurn(r)
<1>1. Len(q) \in Nat /\ Len(r) \in Nat  OBVIOUS
<1>2. SUFFICES ASSUME NEW n \in 1 .. Len(r), NEW k \in 1 .. Len(r), n < k,
                      r[n].cmd = "Peers", r[k].cmd = "Reg"
               PROVE  r[n].es[1].session # r[k].es[1].session
  BY DEF InTurn
<1>3. CASE k \in 1 .. Len(q)
  <2>1. n \in 1 .. Len(q)  BY <1>1, <1>2, <1>3
  <2> QED BY <1>2, <1>3, <2>1 DEF InTurn
<1>4. CASE k \in Len(q) + 1 .. Len(r)
  <2>1. k = Len(q) + 1 /\ r[k].es[1].session = b  BY <1>2, <1>4
  <2>2. n \in 1 .. Len(q)  BY <1>1, <1>2, <2>1
  <2> QED BY <2>1, <2>2
<1> QED BY <1>1, <1>3, <1>4

LEMMA TurnsKeptOn ==
  ASSUME RInv, [Next]_vars
  PROVE  TurnsKept'
<1>1. CASE Passes  BY <1>1 DEF Passes, TurnsStay, RInv, TurnsKept
<1>2. ASSUME NEW c \in Clients, Informed(c) PROVE TurnsKept'
  BY <1>2 DEF Informed, faultVars, TurnsStay, RInv, TurnsKept
<1>3. ASSUME NEW c \in Clients, Served(c) PROVE TurnsKept'
  <2>1. SUFFICES ASSUME overtaken = 0, NEW x \in Clients PROVE InTurn(down'[x])
    BY <1>3 DEF TurnsKept, Served, faultVars
  <2>2. InTurn(down[x])  BY <2>1 DEF RInv, TurnsKept
  <2>3. /\ down[x] \in Seq(DownMsgs) /\ down'[x] \in Seq(DownMsgs)
        /\ Len(down[x]) <= Len(down'[x])
        /\ \A i \in 1 .. Len(down[x]) : down'[x][i] = down[x][i]
        /\ \A i \in Len(down[x]) + 1 .. Len(down'[x]) : down'[x][i].cmd = "Reg" =>
             i = Len(down[x]) + 1 /\ down'[x][i].es[1].session = globSession + 1
    BY <1>3, ServedOrder DEF RInv
  <2>4. \A i \in 1 .. Len(down[x]) : down[x][i].es[1].session # globSession + 1
    <3>1. SUFFICES ASSUME NEW i \in 1 .. Len(down[x])
                   PROVE  down[x][i].es[1].session # globSession + 1
      OBVIOUS
    <3>2. down[x][i] \in ToSet(down[x])  BY <2>3 DEF ToSet
    <3>3. down[x][i].es[1].session \in 1 .. globSession  BY <3>2, FirstEntry DEF RInv
    <3>4. globSession \in Nat  BY DEF RInv, IInv, Types, ServerTypes
    <3> QED BY <3>3, <3>4
  <2> QED BY <2>2, <2>3, <2>4, InTurnMore
<1> QED BY <1>1, <1>2, <1>3, StepKinds DEF RInv, IInv

RightFor(c) ==
  /\ \A x \in ToSet(list[c][Own].nodes) : x.session = self[c]
  /\ \A x \in ToSet(list[c][Joined].nodes) :
       /\ x.session # self[c]
       /\ \A m \in ToSet(down[c]) : m.cmd = "Reg" => m.es[1].session # x.session

LEMMA RightPasses ==
  ASSUME RInv, ClientTypes', Passes
  PROVE  RightNow'
<1>1. SUFFICES ASSUME overtaken' = 0, NoWrap', NEW c \in Clients PROVE RightFor(c)'
  BY DEF RightNow, RightFor
<1>2. RightFor(c)  BY <1>1 DEF Passes, NoNews, NoWrap, RInv, RightNow, RightFor
<1>3. /\ self' = self /\ \A m \in ToSet(down'[c]) : m \in ToSet(down[c])
      /\ \A j \in Lists : Remarked(list[c][j], list'[c][j])
  BY DEF Passes, Quietly, NoNews
<1>4. ASSUME NEW j \in Lists, NEW x \in ToSet(list'[c][j].nodes)
      PROVE  \E y \in ToSet(list[c][j].nodes) : x.session = y.session
  <2>1. list'[c][j].nodes \in Seq(Nodes) /\ list[c][j].nodes \in Seq(Nodes)
    BY DEF RInv, IInv, Types, ClientTypes, ClientLists
  <2>2. PICK n \in 1 .. Len(list[c][j].nodes) : x = list'[c][j].nodes[n]
    BY <1>3, <2>1 DEF ToSet, Remarked
  <2>3. list[c][j].nodes[n] \in ToSet(list[c][j].nodes)  BY <2>1 DEF ToSet
  <2> QED BY <1>3, <2>2, <2>3 DEF Remarked
<1> QED BY <1>2, <1>3, <1>4, ListsAre DEF RightFor

LEMMA RightServed ==
  ASSUME RInv, NEW c \in Clients, Served(c)
  PROVE  RightNow'
<1>1. globSession \in Nat /\ globSession' \in {globSession, globSession + 1}
  BY ServedDown DEF RInv, IInv
<1>2. SUFFICES ASSUME overtaken = 0, NoWrap, NEW x \in Clients PROVE RightFor(x)'
  <2>1. overtaken' = overtaken /\ (NoWrap' => NoWrap)
    BY <1>1, StunNetAssumption DEF Served, faultVars, NoWrap
  <2> QED BY <2>1 DEF RightNow, RightFor
<1>3. RightFor(x)  BY <1>2 DEF RInv, RightNow, RightFor
<1>4. UNCHANGED <<self, list>>  BY DEF Served, clientVars
<1>5. ASSUME NEW m \in ToSet(down'[x]), m.cmd = "Reg"
      PROVE  m \in ToSet(down[x]) \/ m.es[1].session = globSession + 1
  <2>1. m \in ToSet(down[x]) \/ Fresh(c, x, m)  BY ServedDown DEF RInv, IInv
  <2> QED BY <1>5, <2>1 DEF Fresh, S!Entry
<1>6. \A y \in ToSet(list[x][Joined].nodes) : y.session # globSession + 1
  <2>1. \A y \in ToSet(list[x][Joined].nodes) : y.session \in 1 .. globSession
    BY ListsAre DEF RInv, IInv, KnownSessions
  <2> QED BY <1>1, <2>1
<1> QED BY <1>3, <1>4, <1>5, <1>6 DEF RightFor

LEMMA RightInformed ==
  ASSUME RInv, ClientTypes', NEW c \in Clients, Informed(c)
  PROVE  RightNow'
<1> DEFINE m == Head(down[c])
           s == m.es[1].session
<1>1. /\ UNCHANGED <<globSession, overtaken>> /\ down[c] # <<>>
      /\ \A x \in Clients : \A w \in ToSet(down'[x]) : w \in ToSet(down[x])
      /\ down' = [down EXCEPT ![c] = Tail(@)]
  BY DEF Informed, NoNews, faultVars
<1>2. SUFFICES ASSUME overtaken = 0, NoWrap PROVE \A x \in Clients : RightFor(x)'
  BY <1>1 DEF RightNow, RightFor, NoWrap
<1>3. \A x \in Clients : RightFor(x)  BY <1>2 DEF RInv, RightNow, RightFor
<1>4. m \in ToSet(down[c])  BY <1>1, TakenDown DEF RInv, IInv, Types
<1>5. s \in 1 .. globSession /\ m.es[1] \in ToSet(m.es)  BY <1>4, FirstEntry DEF RInv
<1>6. CASE RecvReg(c, m) /\ m.cmd = "Reg"
  <2> DEFINE e == m.es[1]
  <2>1. PICK new \in ClientLists :
          /\ new.nodes = Append(list[c][Own].nodes, Node(e))
          /\ list' = [list EXCEPT ![c][Own] = new]
    BY <1>1, <1>6, RegDoes DEF RInv, IInv
  <2>2. session[c] = 0 /\ self' = [self EXCEPT ![c] = s]
    BY <1>1, <1>6, RegDoes DEF RInv, IInv
  <2>3. list[c][Own].nodes = <<>>  BY <2>2, Unregistered DEF RInv
  <2>4. Node(e).session = s  BY DEF Node
  <2> HIDE DEF e, s, m
  <2>5. ToSet(new.nodes) = {Node(e)}
    <3>1. new.nodes = <<Node(e)>>  BY <2>1, <2>3
    <3> QED BY <3>1 DEF ToSet
  <2>6. /\ \A x \in Clients : self'[x] = IF x = c THEN s ELSE self[x]
        /\ \A x \in Clients, j \in Lists :
             list'[x][j] = IF x = c /\ j = Own THEN new ELSE list[x][j]
    <3>1. \A x \in Clients : self'[x] = IF x = c THEN s ELSE self[x]
      BY <2>2 DEF RInv, IInv, Types, ClientTypes
    <3>2. \A x \in Clients, j \in Lists :
            list'[x][j] = IF x = c /\ j = Own THEN new ELSE list[x][j]
      BY <2>1, ListSet, ListsAre DEF RInv, IInv, Types
    <3> QED BY <3>1, <3>2
  <2>7. \A x \in ToSet(list[c][Joined].nodes) : x.session # s
    BY <1>3, <1>4, <1>6 DEF RightFor, s
  <2>8. RightFor(c)'
    <3>1. /\ self'[c] = s /\ list'[c][Own] = new /\ list'[c][Joined] = list[c][Joined]
      BY <2>6, ListsAre
    <3>2. \A x \in ToSet(list'[c][Own].nodes) : x.session = self'[c]
      BY <2>4, <2>5, <3>1
    <3>3. \A x \in ToSet(list'[c][Joined].nodes) :
            /\ x.session # self'[c]
            /\ \A w \in ToSet(down'[c]) : w.cmd = "Reg" => w.es[1].session # x.session
      BY <1>1, <1>3, <2>7, <3>1 DEF RightFor
    <3> QED BY <3>2, <3>3 DEF RightFor
  <2>9. ASSUME NEW x \in Clients, x # c PROVE RightFor(x)'
    BY <1>1, <1>3, <2>6, <2>9, ListsAre DEF RightFor
  <2> QED BY <2>8, <2>9
<1>7. CASE RecvPeers(c, m) /\ m.cmd = "Peers"
  <2> DEFINE k == ListOf(c, s)
  <2>1. self' = self  BY <1>1, <1>7, PeersDoes DEF RInv, IInv
  <2>2. PICK l \in ClientLists, new \in ClientLists :
          /\ l.nodes = list[c][k].nodes
          /\ k = Own => l = list[c][Own]
          /\ k = Joined => l.made = TRUE /\ l.session = s
          /\ new.made = l.made /\ new.session = l.session
          /\ AddInv(new.nodes, Len(m.es), c, l, m.es)
          /\ list' = [list EXCEPT ![c][k] = new]
    BY <1>1, <1>7, PeersDoes DEF RInv, IInv
  <2>3. /\ k \in Lists /\ k \in {Own, Joined} /\ Own # Joined
        /\ (k = Own => self[c] = s) /\ (k = Joined => self[c] # s)
    BY ListsAre DEF ListOf
  <2>4. \A e \in ToSet(m.es) : e.session = s  BY <1>2, <1>4, <1>7 DEF RInv, SameSession
  <2>5. \A x \in ToSet(new.nodes) : x \in ToSet(list[c][k].nodes) \/ x.session = s
    BY <2>2, <2>4 DEF AddInv
  <2>6. \A w \in ToSet(down'[c]) : w.cmd = "Reg" => w.es[1].session # s
    <3>1. SUFFICES ASSUME NEW w \in ToSet(down'[c]), w.cmd = "Reg"
                   PROVE  w.es[1].session # s
      OBVIOUS
    <3>2. down[c] \in Seq(DownMsgs) /\ InTurn(down[c])
      BY <1>2 DEF RInv, TurnsKept, IInv, Types, ServerTypes, Outs
    <3>3. down'[c] = Tail(down[c])
      BY <1>1 DEF RInv, IInv, Types, ServerTypes, Outs
    <3>4. Len(down[c]) \in Nat /\ Len(down[c]) >= 1 /\ m = down[c][1]  BY <1>1, <3>2
    <3>5. PICK n \in 1 .. Len(down[c]) - 1 : w = Tail(down[c])[n]
      <4>1. Tail(down[c]) \in Seq(DownMsgs) /\ Len(Tail(down[c])) = Len(down[c]) - 1
        BY <1>1, <3>2
      <4>2. w \in ToSet(Tail(down[c]))  BY <3>3
      <4> QED BY <4>1, <4>2 DEF ToSet
    <3>6. w = down[c][n + 1]  BY <1>1, <3>2, <3>5
    <3>7. 1 \in 1 .. Len(down[c]) /\ n + 1 \in 1 .. Len(down[c]) /\ 1 < n + 1
      BY <3>4, <3>5
    <3> QED BY <1>7, <3>1, <3>2, <3>4, <3>6, <3>7 DEF InTurn
  <2> HIDE DEF m, s, k
  <2>7. \A x \in Clients, j \in Lists :
          list'[x][j] = IF x = c /\ j = k THEN new ELSE list[x][j]
    BY <2>2, <2>3, ListSet DEF RInv, IInv, Types
  <2>8. RightFor(c)'
    <3>1. \A j \in Lists : list'[c][j] = IF j = k THEN new ELSE list[c][j]  BY <2>7
    <3>2. \A x \in ToSet(list'[c][Own].nodes) : x.session = self[c]
      <4>1. CASE k = Own  BY <1>3, <2>3, <2>5, <3>1, <4>1 DEF RightFor
      <4>2. CASE k # Own  BY <1>3, <3>1, <4>2, ListsAre DEF RightFor
      <4> QED BY <4>1, <4>2
    <3>3. \A x \in ToSet(list'[c][Joined].nodes) :
            /\ x.session # self[c]
            /\ \A w \in ToSet(down'[c]) : w.cmd = "Reg" => w.es[1].session # x.session
      <4>1. \A x \in ToSet(list[c][Joined].nodes) :
              /\ x.session # self[c]
              /\ \A w \in ToSet(down'[c]) : w.cmd = "Reg" => w.es[1].session # x.session
        BY <1>1, <1>3 DEF RightFor
      <4>2. CASE k = Joined
        <5>1. list'[c][Joined] = new  BY <2>3, <3>1, <4>2
        <5> QED BY <2>3, <2>5, <2>6, <4>1, <4>2, <5>1
      <4>3. CASE k # Joined  BY <3>1, <4>1, <4>3, ListsAre
      <4> QED BY <4>2, <4>3
    <3> QED BY <2>1, <3>2, <3>3 DEF RightFor
  <2>9. ASSUME NEW x \in Clients, x # c PROVE RightFor(x)'
    BY <1>1, <1>3, <2>1, <2>7, <2>9, ListsAre DEF RightFor
  <2> QED BY <2>8, <2>9
<1> QED BY <1>6, <1>7, Handled DEF RInv, IInv

LEMMA RightHolds ==
  ASSUME RInv, GivenOut, [Next]_vars
  PROVE  RInv'
<1>1. IInv'  BY StepHolds DEF RInv
<1>2. AskedFor'  BY AskedKept DEF RInv
<1>3. SameSession'  BY <1>1, SameKept
<1>4. TurnsKept'  BY TurnsKeptOn
<1>5. RightNow'
  BY <1>1, RightPasses, RightServed, RightInformed, StepKinds DEF RInv, IInv, Types
<1> QED BY <1>1, <1>2, <1>3, <1>4, <1>5 DEF RInv

LEMMA RightInit ==
  ASSUME Init, GivenOut
  PROVE  RInv
<1>1. /\ session = Preset /\ self = [c \in Clients |-> 0]
      /\ list = [c \in Clients |-> [k \in Lists |-> NoList]]
      /\ up = [c \in Clients |-> <<>>] /\ down = [c \in Clients |-> <<>>]
      /\ slot = [n \in 0 .. MaxOnline - 1 |-> S!NoList]
  BY DEF Init, ClientInit, S!ServerInit
<1>2. NoList.nodes = <<>> /\ S!NoList.nodes = <<>>  BY DEF NoList, S!NoList
<1>3. \A q : q = <<>> => ToSet(q) = {} /\ InTurn(q)  BY DEF ToSet, InTurn
<1>4. AskedFor
  <2>1. \A c \in Clients : session[c] = Preset[c] /\ self[c] = 0 /\ up[c] = <<>>  BY <1>1
  <2>2. \A c \in Clients : ToSet(up[c]) = {}  BY <1>3, <2>1
  <2>3. \A c \in Clients : session[c] # 1 /\ self[c] # 1
    <3>1. \A c \in Clients : session[c] # 1  BY <2>1 DEF GivenOut
    <3>2. 0 # 1  OBVIOUS
    <3>3. \A c \in Clients : self[c] # 1  BY <2>1, <3>2
    <3> QED BY <3>1, <3>3
  <2> QED BY <2>2, <2>3 DEF AskedFor
<1>5. SameSession  BY <1>1, <1>2, <1>3 DEF SameSession
<1>6. TurnsKept  BY <1>1, <1>3 DEF TurnsKept
<1>7. RightNow  BY <1>1, <1>2, <1>3, ListsAre DEF RightNow
<1> QED BY <1>4, <1>5, <1>6, <1>7, InitHolds DEF RInv

LEMMA RightImplied ==
  ASSUME RInv
  PROVE  RightList
<1>1. ASSUME overtaken = 0, NoWrap, NEW c \in Clients
      PROVE  /\ \A node \in ToSet(list[c][Own].nodes) : node.session = self[c]
             /\ \A node \in ToSet(list[c][Joined].nodes) : node.session # self[c]
  BY <1>1 DEF RInv, RightNow
<1> QED BY <1>1 DEF RightList

\* As long as no datagram has overtaken another one and sessions have places
\* of their own, the client's own list holds the members of its session and
\* the other list those of other sessions: client_recv_run's test for
\* self_session_id in source/base_stun.c.
THEOREM RightLists ==
  ASSUME GivenOut
  PROVE  Spec => []RightList
<1>1. Init => RInv  BY RightInit
<1>2. RInv /\ [Next]_vars => RInv'  BY RightHolds
<1> QED BY <1>1, <1>2, RightImplied, PTL DEF Spec

-----------------------------------------------------------------------------
(* Whose an entry of a list is. *)

\* Client d has the session id, or will have it.
Owns(d, id) == \/ self[d] = id
               \/ \E m \in ToSet(down[d]) : m.cmd = "Reg" /\ m.es[1].session = id

\* The client of an entry owns the session it names as its own, if any does.
EntryOwned(e) == e.self # 0 =>
  e.self <= globSession /\ \A d \in Clients : Owns(d, e.self) => d = e.addr

Owned ==
  /\ \A n \in 0 .. MaxOnline - 1 : \A e \in ToSet(slot[n].nodes) : EntryOwned(e)
  /\ \A c \in Clients : \A m \in ToSet(down[c]) :
       m.cmd = "Peers" => \A e \in ToSet(m.es) : EntryOwned(e)
  /\ \A c \in Clients : \A m \in ToSet(up[c]) : m.self \in {0, self[c]}

\* Sessions that were given out stay with their clients.
LEMMA OwnsLess ==
  ASSUME IInv, [Next]_vars
  PROVE  /\ globSession <= globSession'
         /\ \A c \in Clients : self'[c] = self[c] \/ self[c] = 0
         /\ \A d \in Clients, id \in Nat : id <= globSession /\ Owns(d, id)' => Owns(d, id)
<1>1. globSession \in Nat \ {0} /\ self \in [Clients -> Nat] /\ Types
  BY DEF IInv, Types, ServerTypes, ClientTypes
<1>2. ASSUME NoNews, UNCHANGED self
      PROVE  /\ globSession <= globSession'
             /\ \A c \in Clients : self'[c] = self[c] \/ self[c] = 0
             /\ \A d \in Clients, id \in Nat :
                  id <= globSession /\ Owns(d, id)' => Owns(d, id)
  BY <1>1, <1>2 DEF NoNews, Owns
<1>3. CASE Passes  BY <1>2, <1>3 DEF Passes, Quietly
<1>4. ASSUME NEW c \in Clients, Served(c)
      PROVE  /\ globSession <= globSession' /\ self' = self
             /\ \A d \in Clients, id \in Nat :
                  id <= globSession /\ Owns(d, id)' => Owns(d, id)
  <2>1. /\ globSession' \in {globSession, globSession + 1}
        /\ \A x \in Clients : \A m \in ToSet(down'[x]) :
             m \in ToSet(down[x]) \/ Fresh(c, x, m)
    BY <1>4, ServedDown DEF IInv
  <2>2. self' = self  BY <1>4 DEF Served, clientVars
  <2>3. \A x, m : Fresh(c, x, m) /\ m.cmd = "Reg" => m.es[1].session = globSession + 1
    BY DEF Fresh, S!Entry
  <2>4. ASSUME NEW d \in Clients, NEW id \in Nat, id <= globSession, Owns(d, id)'
        PROVE  Owns(d, id)
    <3>1. id # globSession + 1  BY <1>1, <2>4
    <3> QED BY <2>1, <2>2, <2>3, <2>4, <3>1 DEF Owns
  <2>5. globSession <= globSession'  BY <1>1, <2>1
  <2> QED BY <2>2, <2>4, <2>5
<1>5. ASSUME NEW c \in Clients, Informed(c)
      PROVE  /\ globSession <= globSession'
             /\ \A x \in Clients : self'[x] = self[x] \/ self[x] = 0
             /\ \A d \in Clients, id \in Nat :
                  id <= globSession /\ Owns(d, id)' => Owns(d, id)
  <2>1. down[c] # <<>> /\ NoNews  BY <1>5 DEF Informed
  <2>2. CASE RecvPeers(c, Head(down[c]))
    BY <1>2, <2>1, <2>2, PeersDoes DEF IInv
  <2>3. CASE RecvReg(c, Head(down[c]))
    <3> DEFINE m == Head(down[c])
               t == m.es[1].session
    <3>1. m \in ToSet(down[c])  BY <2>1, TakenDown DEF IInv, Types
    <3>2. /\ session[c] = 0 /\ m.cmd = "Reg"
          /\ self' = [self EXCEPT ![c] = t]
      BY <2>1, <2>3, RegDoes DEF IInv
    <3>3. self[c] = 0  BY <3>2, Unregistered
    <3>4. Owns(c, t)  BY <3>1, <3>2 DEF Owns
    <3> HIDE DEF m, t
    <3>5. \A x \in Clients : self'[x] = IF x = c THEN t ELSE self[x]  BY <1>1, <3>2
    <3>6. globSession' = globSession
          /\ \A x \in Clients : \A w \in ToSet(down'[x]) : w \in ToSet(down[x])
      BY <2>1 DEF NoNews
    <3>7. \A d \in Clients : \A id : Owns(d, id)' => Owns(d, id)
      BY <3>4, <3>5, <3>6 DEF Owns
    <3> QED BY <1>1, <3>3, <3>5, <3>6, <3>7
  <2> QED BY <1>5, <2>2, <2>3 DEF Informed
<1> QED BY <1>1, <1>3, <1>4, <1>5, StepKinds

LEMMA EntryStays ==
  ASSUME IInv, [Next]_vars, NEW e \in S!Entries, EntryOwned(e)
  PROVE  EntryOwned(e)'
<1>1. e.self \in Nat /\ globSession \in Nat /\ globSession' \in Nat
  BY StepHolds DEF S!Entries, IInv, Types, ServerTypes
<1>2. ASSUME e.self # 0
      PROVE  e.self <= globSession' /\ \A d \in Clients : Owns(d, e.self)' => d = e.addr
  <2>1. e.self <= globSession /\ \A d \in Clients : Owns(d, e.self) => d = e.addr
    BY <1>2 DEF EntryOwned
  <2>2. globSession <= globSession'  BY OwnsLess
  <2>3. \A d \in Clients : Owns(d, e.self)' => Owns(d, e.self)  BY <1>1, <2>1, OwnsLess
  <2>4. e.self <= globSession'  BY <1>1, <2>1, <2>2
  <2> QED BY <2>1, <2>3, <2>4
<1> QED BY <1>2 DEF EntryOwned

\* A new entry of a list is the client's that registers or joins.
LEMMA NewOwned ==
  ASSUME IInv, Owned, [Next]_vars, NEW c \in Clients, Served(c),
         NEW n \in 0 .. MaxOnline - 1, NEW e \in ToSet(slot'[n].nodes)
  PROVE  EntryOwned(e)'
<1>1. globSession \in Nat \ {0} /\ self \in [Clients -> Nat] /\ self' = self /\ Types
  BY DEF IInv, Types, ServerTypes, ClientTypes, Served, clientVars
<1>2. PICK u \in UpMsgs :
        /\ u \in ToSet(up[c])
        /\ \/ TakesSession(c) \/ JoinsSession(c, u.session, u.self)
           \/ GetsAnswer(c, u.session, u.self, u.cmd)
           \/ UNCHANGED <<globSession, slot, down>>
  BY <1>1, ServedKinds
<1>3. u.session \in Nat /\ u.self \in Nat /\ u.self \in {0, self[c]}
  BY <1>2 DEF UpMsgs, Owned
<1>4. slot[n].nodes \in Seq(S!Entries)  BY <1>1 DEF Types, ServerTypes, Slots
<1>5. ASSUME e \in ToSet(slot[n].nodes) PROVE EntryOwned(e)'
  <2>1. e \in S!Entries  BY <1>4, <1>5, EntryOf
  <2> QED BY <1>5, <2>1, EntryStays DEF Owned
<1>6. CASE slot'[n] = slot[n]  BY <1>5, <1>6
<1>7. CASE TakesSession(c)
  <2> DEFINE t == globSession + 1
             p == S!Place(t)
             y == S!Entry(t, t, c)
  <2>1. /\ globSession' = t /\ slot'[p].nodes = Append(slot[p].nodes, y)
        /\ \A x \in 0 .. MaxOnline - 1 : x # p => slot'[x] = slot[x]
    BY <1>7 DEF TakesSession
  <2>2. y \in S!Entries /\ y.self = t /\ y.addr = c
    <3>1. t \in Nat  BY <1>1
    <3> HIDE DEF t
    <3> QED BY <3>1, EntryType DEF S!Cmds, S!Entry
  <2> HIDE DEF p, y
  <2>3. CASE n = p
    <3>0. slot'[n].nodes = Append(slot[n].nodes, y)  BY <2>1, <2>3
    <3>1. ToSet(slot'[n].nodes) = ToSet(slot[n].nodes) \cup {y}
      BY <1>4, <2>2, <3>0, SetOfAppend
    <3>2. CASE e = y
      <4>0. e.self = t  BY <2>2, <3>2
      <4>1. ASSUME NEW d \in Clients, Owns(d, e.self)' PROVE d = c
        <5>1. self'[d] # t
          <6>1. self[d] <= globSession /\ self[d] \in Nat  BY <1>1 DEF IInv, OwnLists
          <6> QED BY <1>1, <6>1
        <5>2. PICK m \in ToSet(down'[d]) : m.cmd = "Reg" /\ m.es[1].session = t
          BY <4>0, <4>1, <5>1 DEF Owns
        <5>3. m \in ToSet(down[d]) \/ Fresh(c, d, m)
          BY ServedDown DEF IInv
        <5>4. m \notin ToSet(down[d])
          <6>1. SUFFICES ASSUME m \in ToSet(down[d]) PROVE FALSE  OBVIOUS
          <6>2. m \in DownMsgs /\ Len(m.es) \in 1 .. ListMax
            BY <6>1 DEF IInv, Fit, Types, ServerTypes, Outs, ToSet
          <6>3. m.es \in Seq(S!Entries) /\ 1 \in 1 .. Len(m.es)
            BY <6>2, StunNetAssumption DEF DownMsgs
          <6>4. m.es[1] \in ToSet(m.es)  BY <6>3, EntryAt
          <6>5. t \in 1 .. globSession  BY <5>2, <6>1, <6>4 DEF IInv, Fit
          <6> QED BY <1>1, <6>5
        <5> QED BY <5>2, <5>3, <5>4 DEF Fresh
      <4>2. t <= globSession'  BY <1>1, <2>1
      <4> HIDE DEF t
      <4> QED BY <2>2, <3>2, <4>0, <4>1, <4>2 DEF EntryOwned
    <3> QED BY <1>5, <3>1, <3>2
  <2> QED BY <1>6, <2>1, <2>3
<1>8. CASE JoinsSession(c, u.session, u.self)
  <2> DEFINE p == S!Place(u.session)
             y == S!Entry(u.session, u.self, c)
  <2>1. /\ slot'[p].nodes = Append(slot[p].nodes, y)
        /\ \A x \in 0 .. MaxOnline - 1 : x # p => slot'[x] = slot[x]
    BY <1>8 DEF JoinsSession
  <2>2. y \in S!Entries /\ y.self = u.self /\ y.addr = c
    BY <1>3, EntryType DEF S!Cmds, S!Entry
  <2> HIDE DEF p, y
  <2>3. EntryOwned(y)
    <3>1. ASSUME y.self # 0
          PROVE  y.self <= globSession /\ \A d \in Clients : Owns(d, y.self) => d = c
      <4>1. y.self = self[c]  BY <1>3, <2>2, <3>1
      <4>2. y.self <= globSession  BY <4>1 DEF IInv, OwnLists
      <4>3. \A d \in Clients : Owns(d, self[c]) => d = c
        BY <3>1, <4>1 DEF Owns, IInv, OneEach
      <4> QED BY <4>1, <4>2, <4>3
    <3> QED BY <2>2, <3>1 DEF EntryOwned
  <2>4. CASE n = p
    <3>0. slot'[n].nodes = Append(slot[n].nodes, y)  BY <2>1, <2>4
    <3>1. ToSet(slot'[n].nodes) = ToSet(slot[n].nodes) \cup {y}
      BY <1>4, <2>2, <3>0, SetOfAppend
    <3> QED BY <1>5, <2>2, <2>3, <3>1, EntryStays
  <2> QED BY <1>6, <2>1, <2>4
<1>9. CASE GetsAnswer(c, u.session, u.self, u.cmd)
  <2>1. slot'[n] = slot[n] \/ slot'[n].nodes = <<>>  BY <1>9 DEF GetsAnswer
  <2>2. slot'[n].nodes # <<>>  BY DEF ToSet
  <2> QED BY <1>6, <2>1, <2>2
<1>10. CASE UNCHANGED <<globSession, slot, down>>  BY <1>6, <1>10
<1> QED BY <1>2, <1>7, <1>8, <1>9, <1>10

LEMMA OwnedKept ==
  ASSUME IInv, Owned, [Next]_vars
  PROVE  Owned'
<1>1. Types /\ \A x \in Clients : down[x] \in Seq(DownMsgs)
  BY DEF IInv, Types, ServerTypes, Outs
<1>2. \A c \in Clients : \A m \in ToSet(up'[c]) : m.self \in {0, self'[c]}
  BY <1>1, UpNews, OwnsLess DEF Owned
<1>3. ASSUME NEW x \in Clients, NEW m \in ToSet(down[x]), m.cmd = "Peers",
             NEW e \in ToSet(m.es)
      PROVE  EntryOwned(e)'
  <2>0. m \in DownMsgs  BY <1>1 DEF ToSet
  <2>1. m.es \in Seq(S!Entries)  BY <2>0 DEF DownMsgs
  <2>2. e \in S!Entries  BY <2>1, EntryOf
  <2> QED BY <1>3, <2>2, EntryStays DEF Owned
<1>4. ASSUME NoNews PROVE Owned'
  <2>1. ASSUME NEW n \in 0 .. MaxOnline - 1, NEW e \in ToSet(slot[n].nodes)
        PROVE  EntryOwned(e)'
    <3>1. e \in S!Entries  BY <1>1, EntryOf DEF Types, ServerTypes, Slots
    <3> QED BY <3>1, EntryStays DEF Owned
  <2>2. slot' = slot /\ \A x \in Clients : ToSet(down'[x]) \subseteq ToSet(down[x])
    BY <1>4 DEF NoNews
  <2>3. \A n \in 0 .. MaxOnline - 1 : \A e \in ToSet(slot'[n].nodes) : EntryOwned(e)'
    BY <2>1, <2>2
  <2>4. \A x \in Clients : \A m \in ToSet(down'[x]) : m.cmd = "Peers" =>
          \A e \in ToSet(m.es) : EntryOwned(e)'
    BY <1>3, <2>2
  <2> QED BY <1>2, <2>3, <2>4 DEF Owned
<1>5. ASSUME NEW c \in Clients, Served(c) PROVE Owned'
  <2>1. \A n \in 0 .. MaxOnline - 1 : \A e \in ToSet(slot'[n].nodes) : EntryOwned(e)'
    BY <1>5, NewOwned
  <2>2. \A x \in Clients : \A m \in ToSet(down'[x]) : m \in ToSet(down[x]) \/ Fresh(c, x, m)
    BY <1>5, ServedDown DEF IInv
  <2>3. \A x \in Clients : \A m \in ToSet(down'[x]) : m.cmd = "Peers" =>
          \A e \in ToSet(m.es) : EntryOwned(e)'
    BY <1>3, <2>1, <2>2 DEF Fresh
  <2> QED BY <1>2, <2>1, <2>3 DEF Owned
<1> QED BY <1>1, <1>4, <1>5, StepKinds DEF Passes, Informed

-----------------------------------------------------------------------------
(* The members of a session know each other. *)

\* x and e are the same client under the same self_session_id.
Same(x, e) == x.self = e.self /\ x.addr = e.addr

KnownBy(c, e) == \E k \in Lists : \E x \in ToSet(list[c][k].nodes) : Same(x, e)

ToldSoon(c, e) == \E m \in ToSet(down[c]) :
                    m.cmd = "Peers" /\ \E x \in ToSet(m.es) : Same(x, e)

\* a joined before b.
Ahead(nodes, a, b) == \E i, k \in 1 .. Len(nodes) : a = nodes[i] /\ b = nodes[k] /\ i < k

\* As MutualKnowledge, while datagrams are on their way.
MutualSoon == lost = 0 /\ NoWrap =>
  \A n \in 0 .. MaxOnline - 1 : ~slot[n].freed =>
    \A a, b \in ToSet(slot[n].nodes) :
      Ahead(slot[n].nodes, a, b) \/ a.self # b.self =>
        KnownBy(b.addr, a) \/ ToldSoon(b.addr, a)

MInv == IInv /\ Owned /\ MutualSoon

LEMMA KnownIsKnown ==
  ASSUME ClientTypes, NEW c \in Clients, NEW e
  PROVE  KnownBy(c, e) <=> <<e.self, e.addr>> \in Known(c)
BY DEF KnownBy, Known, Same

\* Nobody forgets a node.
LEMMA KnownKept ==
  ASSUME IInv, ClientTypes', [Next]_vars, NEW c \in Clients, NEW e, KnownBy(c, e)
  PROVE  KnownBy(c, e)'
<1>0. PICK k \in Lists : \E x \in ToSet(list[c][k].nodes) : Same(x, e)  BY DEF KnownBy
<1>1. PICK x \in ToSet(list[c][k].nodes) : Same(x, e)  BY <1>0
<1>2. PICK n \in 1 .. Len(list[c][k].nodes) : x = list[c][k].nodes[n]
  BY NodeIn DEF IInv, Types
<1>3. list'[c][k].nodes \in Seq(Nodes) /\ list[c][k].nodes \in Seq(Nodes)
  BY DEF IInv, Types, ClientTypes, ClientLists
<1>4. ASSUME n \in 1 .. Len(list'[c][k].nodes), Same(list'[c][k].nodes[n], e)
      PROVE  KnownBy(c, e)'
  <2>1. list'[c][k].nodes[n] \in ToSet(list'[c][k].nodes)  BY <1>3, <1>4 DEF ToSet
  <2> QED BY <1>4, <2>1 DEF KnownBy
<1>5. CASE list'[c][k] = list[c][k]  BY <1>1, <1>2, <1>4, <1>5
<1>6. CASE Passes
  <2>1. Remarked(list[c][k], list'[c][k])  BY <1>6 DEF Passes, Quietly
  <2> QED BY <1>1, <1>2, <1>4, <2>1 DEF Remarked, Same
<1>7. ASSUME NEW d \in Clients, Served(d) PROVE KnownBy(c, e)'
  BY <1>5, <1>7 DEF Served, clientVars
<1>8. ASSUME NEW d \in Clients, NEW j \in Lists, NEW new \in ClientLists,
             list' = [list EXCEPT ![d][j] = new],
             Len(list[d][j].nodes) <= Len(new.nodes),
             \A i \in 1 .. Len(list[d][j].nodes) : new.nodes[i] = list[d][j].nodes[i]
      PROVE  KnownBy(c, e)'
  <2>1. list'[c][k] = IF c = d /\ k = j THEN new ELSE list[c][k]
    BY <1>8, ListSet DEF IInv, Types
  <2>2. CASE c = d /\ k = j
    <3>1. n \in 1 .. Len(new.nodes)
      <4>1. Len(new.nodes) \in Nat /\ Len(list[c][k].nodes) \in Nat
        BY <1>3 DEF ClientLists
      <4> QED BY <1>8, <2>2, <4>1
    <3> QED BY <1>1, <1>2, <1>4, <1>8, <2>1, <2>2, <3>1
  <2> QED BY <1>5, <2>1, <2>2
<1>9. ASSUME NEW d \in Clients, Informed(d) PROVE KnownBy(c, e)'
  <2>1. down[d] # <<>>  BY <1>9 DEF Informed
  <2>2. CASE RecvReg(d, Head(down[d]))
    <3>1. PICK new \in ClientLists :
            /\ new.nodes = Append(list[d][Own].nodes, Node(Head(down[d]).es[1]))
            /\ list' = [list EXCEPT ![d][Own] = new]
      BY <2>1, <2>2, RegDoes DEF IInv
    <3>2. Own \in Lists /\ list[d][Own].nodes \in Seq(Nodes)
      BY ListIn, ListsAre DEF IInv, Types
    <3>3. /\ Len(list[d][Own].nodes) <= Len(new.nodes)
          /\ \A i \in 1 .. Len(list[d][Own].nodes) : new.nodes[i] = list[d][Own].nodes[i]
      <4> DEFINE old == list[d][Own].nodes  v == Node(Head(down[d]).es[1])
      <4>1. /\ new.nodes = Append(old, v) /\ old \in Seq(Nodes)
        BY <3>1, <3>2
      <4> HIDE DEF old, v
      <4>2. Len(old) <= Len(new.nodes)  BY <4>1
      <4>3. \A i \in 1 .. Len(old) : new.nodes[i] = old[i]  BY <4>1
      <4> QED BY <4>2, <4>3 DEF old
    <3> QED BY <1>8, <3>1, <3>2, <3>3
  <2>3. CASE RecvPeers(d, Head(down[d]))
    <3> DEFINE m == Head(down[d])
               j == ListOf(d, m.es[1].session)
    <3>1. PICK l \in ClientLists, new \in ClientLists :
            /\ l.nodes = list[d][j].nodes
            /\ j = Own => l = list[d][Own]
            /\ j = Joined => l.made = TRUE /\ l.session = m.es[1].session
            /\ new.made = l.made /\ new.session = l.session
            /\ AddInv(new.nodes, Len(m.es), d, l, m.es)
            /\ list' = [list EXCEPT ![d][j] = new]
      BY <2>1, <2>3, PeersDoes DEF IInv
    <3>2. j \in Lists  BY ListsAre
    <3> HIDE DEF j
    <3>3. /\ Len(list[d][j].nodes) <= Len(new.nodes)
          /\ \A i \in 1 .. Len(list[d][j].nodes) : new.nodes[i] = list[d][j].nodes[i]
      BY <3>1 DEF AddInv
    <3> QED BY <1>8, <3>1, <3>2, <3>3
  <2> QED BY <1>9, <2>2, <2>3 DEF Informed
<1> QED BY <1>6, <1>7, <1>9, StepKinds DEF IInv

\* A client that takes a list of peers knows them all.
LEMMA Learnt ==
  ASSUME IInv, Owned, ClientTypes', NEW c \in Clients, Informed(c), [Next]_vars,
         RecvPeers(c, Head(down[c])), NEW e \in ToSet(Head(down[c]).es)
  PROVE  KnownBy(c, e)'
<1> DEFINE m == Head(down[c])
           s == m.es[1].session
           k == ListOf(c, s)
<1>1. down[c] # <<>>  BY DEF Informed
<1>2. /\ m \in ToSet(down[c]) /\ m.es \in Seq(S!Entries) /\ Len(m.es) \in Nat
      /\ s \in 1 .. globSession
  BY <1>1, TakenDown, FirstEntry DEF IInv, Types
<1>0. m.cmd = "Peers"  BY DEF RecvPeers
<1>3. PICK l \in ClientLists, new \in ClientLists :
        /\ l.nodes = list[c][k].nodes
        /\ k = Own => l = list[c][Own]
        /\ k = Joined => l.made = TRUE /\ l.session = s
        /\ new.made = l.made /\ new.session = l.session
        /\ AddInv(new.nodes, Len(m.es), c, l, m.es)
        /\ list' = [list EXCEPT ![c][k] = new]
  BY <1>1, PeersDoes DEF IInv
<1>4. PICK n \in 1 .. Len(m.es) : e = m.es[n]  BY <1>2 DEF ToSet
<1>5. /\ k \in Lists /\ k \in {Own, Joined} /\ Own # Joined
      /\ (k = Own => self[c] = s) /\ (k = Joined => self[c] # s)
  BY ListsAre DEF ListOf
<1> HIDE DEF m, s, k
<1>6. list'[c][k] = new  BY <1>3, <1>5, ListSet DEF IInv, Types
<1>7. CASE ~Skipped(c, l, m.es[n])
  <2>1. \E x \in ToSet(new.nodes) : Same(x, e)
    BY <1>3, <1>4, <1>7 DEF AddInv, Same
  <2> QED BY <1>5, <1>6, <2>1 DEF KnownBy
<1>8. CASE Skipped(c, l, m.es[n])
  <2>1. e.self = self[c] /\ l.session = self[c]  BY <1>4, <1>8 DEF Skipped
  <2>2. self[c] # 0
    <3>1. k = Own  BY <1>3, <1>5, <2>1
    <3> QED BY <1>2, <1>5, <3>1
  <2>3. /\ list[c][Own].nodes # <<>> /\ list[c][Own].nodes[1].self = self[c]
        /\ list[c][Own].nodes[1].addr = c
    BY <2>2 DEF IInv, OwnLists
  <2>4. list[c][Own].nodes[1] \in ToSet(list[c][Own].nodes)
    <3>1. list[c][Own].nodes \in Seq(Nodes)  BY ListIn, ListsAre DEF IInv, Types
    <3>2. 1 \in 1 .. Len(list[c][Own].nodes)  BY <2>3, <3>1
    <3> QED BY <3>1, <3>2 DEF ToSet
  <2>5. e.addr = c
    <3>1. EntryOwned(e)  BY <1>0, <1>2 DEF Owned, m
    <3> QED BY <2>1, <2>2, <3>1 DEF EntryOwned, Owns
  <2>6. KnownBy(c, e)  BY <2>1, <2>3, <2>4, <2>5, ListsAre DEF KnownBy, Same
  <2> QED BY <2>6, KnownKept
<1> QED BY <1>7, <1>8

LEMMA MutualQuiet ==
  ASSUME MInv, IInv', [Next]_vars, NoNews,
         lost' = 0 => lost = 0,
         lost' = 0 => \A c \in Clients : \A m \in ToSet(down[c]) : m.cmd = "Peers" =>
           m \in ToSet(down'[c]) \/ \A e \in ToSet(m.es) : KnownBy(c, e)'
  PROVE  MutualSoon'
<1>1. slot' = slot /\ globSession' = globSession  BY DEF NoNews
<1>2. SUFFICES ASSUME lost' = 0, NoWrap,
                      NEW n \in 0 .. MaxOnline - 1, ~slot[n].freed,
                      NEW a \in ToSet(slot[n].nodes), NEW b \in ToSet(slot[n].nodes),
                      Ahead(slot[n].nodes, a, b) \/ a.self # b.self
               PROVE  KnownBy(b.addr, a)' \/ ToldSoon(b.addr, a)'
  BY <1>1 DEF MutualSoon, NoWrap, KnownBy, ToldSoon
<1>3. b.addr \in Clients
  <2>1. slot[n].nodes \in Seq(S!Entries)  BY DEF MInv, IInv, Types, ServerTypes, Slots
  <2> QED BY <2>1, EntryOf
<1>4. KnownBy(b.addr, a) \/ ToldSoon(b.addr, a)
  BY <1>2 DEF MInv, MutualSoon
<1>5. CASE KnownBy(b.addr, a)
  BY <1>3, <1>5, KnownKept DEF MInv, IInv, Types
<1>6. CASE ToldSoon(b.addr, a)
  <2>1. PICK m \in ToSet(down[b.addr]) :
          m.cmd = "Peers" /\ \E x \in ToSet(m.es) : Same(x, a)
    BY <1>6 DEF ToldSoon
  <2>2. \/ m \in ToSet(down'[b.addr])
        \/ \A x \in ToSet(m.es) : KnownBy(b.addr, x)'
    BY <1>2, <1>3, <2>1
  <2>3. CASE m \in ToSet(down'[b.addr])  BY <2>1, <2>3 DEF ToldSoon
  <2>4. CASE \A x \in ToSet(m.es) : KnownBy(b.addr, x)'
    <3>1. PICK x \in ToSet(m.es) : Same(x, a)  BY <2>1
    <3>2. KnownBy(b.addr, x)'  BY <2>4
    <3> QED BY <3>1, <3>2 DEF KnownBy, Same
  <2> QED BY <2>2, <2>3, <2>4
<1> QED BY <1>4, <1>5, <1>6

LEMMA MutualServed ==
  ASSUME MInv, IInv', [Next]_vars, NEW c \in Clients, Served(c)
  PROVE  MutualSoon'
<1>1. /\ globSession \in Nat /\ globSession' \in {globSession, globSession + 1}
      /\ \A x \in Clients : ToSet(down[x]) \subseteq ToSet(down'[x])
  BY ServedDown DEF MInv, IInv
<1>2. list' = list /\ lost' = lost  BY DEF Served, clientVars, faultVars
<1>3. SUFFICES ASSUME lost = 0, NoWrap', NEW n \in 0 .. MaxOnline - 1, ~slot'[n].freed,
                      NEW a \in ToSet(slot'[n].nodes), NEW b \in ToSet(slot'[n].nodes),
                      Ahead(slot'[n].nodes, a, b) \/ a.self # b.self
               PROVE  KnownBy(b.addr, a)' \/ ToldSoon(b.addr, a)'
  BY <1>2 DEF MutualSoon
<1>4. globSession' <= MaxOnline + 1 /\ MaxOnline \in Nat /\ NoWrap
  BY <1>1, <1>3, StunNetAssumption DEF NoWrap
<1>5. slot'[n].nodes \in Seq(S!Entries) /\ slot[n].nodes \in Seq(S!Entries)
  BY DEF MInv, IInv, Types, ServerTypes, Slots
<1>6. b.addr \in Clients  BY <1>5, EntryOf
<1>7. ASSUME ~slot[n].freed, a \in ToSet(slot[n].nodes), b \in ToSet(slot[n].nodes),
             Ahead(slot[n].nodes, a, b) \/ a.self # b.self
      PROVE  KnownBy(b.addr, a)' \/ ToldSoon(b.addr, a)'
  <2>1. KnownBy(b.addr, a) \/ ToldSoon(b.addr, a)
    BY <1>3, <1>4, <1>7 DEF MInv, MutualSoon
  <2> QED BY <1>1, <1>2, <1>6, <2>1 DEF KnownBy, ToldSoon
<1>8. CASE slot'[n] = slot[n]  BY <1>3, <1>7, <1>8
<1>9. PICK u \in UpMsgs :
        \/ TakesSession(c) \/ JoinsSession(c, u.session, u.self)
        \/ GetsAnswer(c, u.session, u.self, u.cmd)
        \/ UNCHANGED <<globSession, slot, down>>
  BY ServedKinds DEF MInv, IInv
<1>10. u.session \in Nat /\ u.self \in Nat  BY DEF UpMsgs
<1>11. CASE TakesSession(c)
  <2> DEFINE t == globSession + 1
             p == S!Place(t)
             e == S!Entry(t, t, c)
  <2>1. /\ globSession' = t /\ slot'[p].nodes = Append(slot[p].nodes, e)
        /\ \A x \in 0 .. MaxOnline - 1 : x # p => slot'[x] = slot[x]
    BY <1>11 DEF TakesSession
  <2>2. p \in 0 .. MaxOnline - 1 /\ slot[p].nodes = <<>>
    BY <1>4, <2>1, NewPlace DEF MInv
  <2> HIDE DEF e, p, t
  <2>3. slot'[p].nodes = <<e>>  BY <2>1, <2>2
  <2>4. CASE n = p
    <3>1. a = e /\ b = e  BY <2>3, <2>4 DEF ToSet
    <3>2. ~Ahead(<<e>>, a, b)  BY DEF Ahead
    <3> QED BY <1>3, <2>3, <2>4, <3>1, <3>2
  <2> QED BY <1>8, <2>1, <2>4
<1>12. CASE JoinsSession(c, u.session, u.self)
  <2> DEFINE p == S!Place(u.session)
             e == S!Entry(u.session, u.self, c)
             nodes == Append(slot[p].nodes, e)
  <2>1. /\ slot'[p].nodes = nodes /\ ~slot[p].freed
        /\ \A x \in 0 .. MaxOnline - 1 : x # p => slot'[x] = slot[x]
    BY <1>12 DEF JoinsSession
  <2>2. /\ nodes \in Seq(S!Entries) /\ e \in S!Entries
        /\ ToSet(nodes) = ToSet(slot[p].nodes) \cup {e}
        /\ Len(nodes) > 1 => \A k \in 1 .. Len(nodes) :
             /\ nodes[k].self # u.self =>
                  \E m \in ToSet(down'[nodes[k].addr]) : Bears(m, e)
             /\ \E m \in ToSet(down'[c]) : Bears(m, nodes[k])
    BY <1>10, <1>12, JoinNews DEF MInv, IInv
  <2>3. e.self = u.self /\ e.addr = c  BY DEF S!Entry
  <2> HIDE DEF nodes, e, p
  <2>4. CASE n = p
    <3>1. PICK i \in 1 .. Len(nodes) : a = nodes[i]  BY <2>1, <2>2, <2>4 DEF ToSet
    <3>2. PICK j \in 1 .. Len(nodes) : b = nodes[j]  BY <2>1, <2>2, <2>4 DEF ToSet
    <3>3. Len(nodes) > 1
      <4>1. Len(nodes) \in Nat  BY <2>2
      <4>2. CASE Ahead(nodes, a, b)  BY <4>1, <4>2 DEF Ahead
      <4>3. CASE a.self # b.self
        <5>1. i # j  BY <3>1, <3>2, <4>3
        <5> QED BY <4>1, <5>1
      <4> QED BY <1>3, <2>1, <2>4, <4>2, <4>3
    <3>4. CASE b = e
      <4>1. \E m \in ToSet(down'[b.addr]) : Bears(m, a)
        BY <2>2, <2>3, <3>1, <3>3, <3>4
      <4> QED BY <4>1 DEF Bears, ToldSoon, Same
    <3>5. CASE b # e /\ Ahead(nodes, a, b)
      <4>1. PICK x, y \in 1 .. Len(nodes) : a = nodes[x] /\ b = nodes[y] /\ x < y
        BY <3>5 DEF Ahead
      <4> DEFINE old == slot[p].nodes
      <4>2. old \in Seq(S!Entries) /\ nodes = Append(old, e)
        BY <1>5, <2>4 DEF nodes
      <4> HIDE DEF old
      <4>3. /\ Len(old) \in Nat /\ Len(nodes) = Len(old) + 1 /\ nodes[Len(old) + 1] = e
            /\ \A z \in 1 .. Len(old) : nodes[z] = old[z]
        BY <2>2, <4>2
      <4>4. y # Len(old) + 1  BY <3>5, <4>1, <4>3
      <4>5. x \in 1 .. Len(old) /\ y \in 1 .. Len(old)  BY <4>1, <4>3, <4>4
      <4>6. a = old[x] /\ b = old[y]  BY <4>1, <4>3, <4>5
      <4>7. a \in ToSet(old) /\ b \in ToSet(old)  BY <4>2, <4>5, <4>6, EntryAt
      <4>8. Ahead(old, a, b)  BY <4>1, <4>5, <4>6 DEF Ahead
      <4> QED BY <1>7, <2>1, <2>4, <4>7, <4>8 DEF old
    <3>6. CASE b # e /\ ~Ahead(nodes, a, b)
      <4>1. a.self # b.self  BY <1>3, <2>1, <2>4, <3>6
      <4>2. CASE a = e
        <5>1. \E m \in ToSet(down'[b.addr]) : Bears(m, a)
          BY <2>2, <2>3, <3>2, <3>3, <4>1, <4>2
        <5> QED BY <5>1 DEF Bears, ToldSoon, Same
      <4>3. CASE a # e
        <5>1. a \in ToSet(slot[n].nodes) /\ b \in ToSet(slot[n].nodes) /\ ~slot[n].freed
          BY <2>1, <2>2, <2>4, <3>6, <4>3
        <5> QED BY <1>7, <4>1, <5>1
      <4> QED BY <4>2, <4>3
    <3> QED BY <3>4, <3>5, <3>6
  <2> QED BY <1>8, <2>1, <2>4
<1>13. CASE GetsAnswer(c, u.session, u.self, u.cmd)
  <2>1. slot'[n] = slot[n] \/ slot'[n].freed = TRUE  BY <1>13 DEF GetsAnswer
  <2> QED BY <1>3, <1>8, <2>1
<1>14. CASE UNCHANGED <<globSession, slot, down>>  BY <1>8, <1>14
<1> QED BY <1>9, <1>11, <1>12, <1>13, <1>14

LEMMA MutualHolds ==
  ASSUME MInv, [Next]_vars
  PROVE  MInv'
<1>1. IInv'  BY StepHolds DEF MInv
<1>2. ASSUME Passes PROVE MutualSoon'
  BY <1>1, <1>2, MutualQuiet DEF Passes, PeersStay
<1>3. ASSUME NEW c \in Clients, Served(c) PROVE MutualSoon'
  BY <1>1, <1>3, MutualServed
<1>4. ASSUME NEW c \in Clients, Informed(c) PROVE MutualSoon'
  <2>1. /\ NoNews /\ lost' = lost
        /\ \A x \in Clients : \A m \in ToSet(down[x]) :
             m \in ToSet(down'[x]) \/ (x = c /\ m = Head(down[c]))
    BY <1>4 DEF Informed, faultVars
  <2>2. Head(down[c]).cmd = "Peers" =>
          \A e \in ToSet(Head(down[c]).es) : KnownBy(c, e)'
    BY <1>1, <1>4, Handled, Learnt DEF MInv, IInv, Types
  <2> QED BY <1>1, <2>1, <2>2, MutualQuiet
<1>5. MutualSoon'  BY <1>2, <1>3, <1>4, StepKinds DEF MInv, IInv
<1>6. Owned'  BY OwnedKept DEF MInv
<1> QED BY <1>1, <1>5, <1>6 DEF MInv

LEMMA MutualInit ==
  ASSUME Init
  PROVE  MInv
<1>1. \A n \in 0 .. MaxOnline - 1 : slot[n].nodes = <<>>
  BY DEF Init, S!ServerInit, S!NoList
<1>0. ToSet(<<>>) = {}  BY DEF ToSet
<1>2. \A n \in 0 .. MaxOnline - 1 : ToSet(slot[n].nodes) = {}  BY <1>0, <1>1
<1>3. \A c \in Clients : ToSet(up[c]) = {} /\ ToSet(down[c]) = {}
  <2>1. \A c \in Clients : up[c] = <<>> /\ down[c] = <<>>
    BY DEF Init, ClientInit, S!ServerInit
  <2> QED BY <1>0, <2>1
<1>4. Owned  BY <1>2, <1>3 DEF Owned
<1> QED BY <1>2, <1>4, InitHolds DEF MInv, MutualSoon

LEMMA MutualImplied ==
  ASSUME MInv
  PROVE  MutualKnowledge
<1>1. SUFFICES ASSUME Quiet, lost = 0, NoWrap,
                      NEW n \in DOMAIN slot, ~slot[n].freed,
                      NEW i \in DOMAIN slot[n].nodes, NEW k \in DOMAIN slot[n].nodes,
                      NEW a, a = slot[n].nodes[i], NEW b, b = slot[n].nodes[k],
                      i < k \/ a.self # b.self
               PROVE  <<a.self, a.addr>> \in Known(b.addr)
  BY DEF MutualKnowledge
<1>2. n \in 0 .. MaxOnline - 1 /\ slot[n].nodes \in Seq(S!Entries) /\ ClientTypes
  BY DEF MInv, IInv, Types, ServerTypes, Slots
<1>3. i \in 1 .. Len(slot[n].nodes) /\ k \in 1 .. Len(slot[n].nodes)  BY <1>2
<1>4. /\ a \in ToSet(slot[n].nodes) /\ b \in ToSet(slot[n].nodes)
      /\ b.addr \in Clients
  BY <1>1, <1>2, <1>3, EntryAt
<1>5. Ahead(slot[n].nodes, a, b) \/ a.self # b.self  BY <1>1, <1>3 DEF Ahead
<1>6. KnownBy(b.addr, a) \/ ToldSoon(b.addr, a)
  BY <1>1, <1>2, <1>4, <1>5 DEF MInv, MutualSoon
<1>7. ToSet(down[b.addr]) = {}
  <2>1. down[b.addr] = <<>>  BY <1>1, <1>4 DEF Quiet
  <2> QED BY <2>1 DEF ToSet
<1>8. KnownBy(b.addr, a)  BY <1>6, <1>7 DEF ToldSoon
<1> QED BY <1>2, <1>4, <1>8, KnownIsKnown

\* When all datagrams have arrived and none was lost, a member of a session
\* knows those that joined before it, and those that joined after it with
\* another self_session_id: send_stun_list in source/base_stun.c, which does
\* not tell members of a later one with their own self_session_id.
THEOREM MembersKnown == Spec => []MutualKnowledge
<1>1. MInv /\ [Next]_vars => MInv'  BY MutualHolds
<1> QED BY <1>1, MutualInit, MutualImplied, PTL DEF Spec

-----------------------------------------------------------------------------
(* The answer to a ping finds its list. *)

\* A ping and its answer are about the session of the client that pinged, or
\* about none, and then there is no answer.
PingsFit == \A m \in p2p :
  LET o == IF m.ack THEN m.to ELSE m.from
  IN  /\ m.ack => m.session # 0
      /\ m.session # 0 => m.session = session[o] /\ list[o][ListOf(o, m.session)].made

\* A ping thread has a list.
Pinging == \A c \in Clients, k \in Lists : ping[c][k].pc # "none" => list[c][k].made

AInv == IInv /\ PingsFit /\ Pinging

\* A list that is made stays, and a session stays a client's.
LEMMA MadeKept ==
  ASSUME IInv, IInv', [Next]_vars, NEW c \in Clients
  PROVE  /\ \A k \in Lists : list[c][k].made => list'[c][k].made
         /\ session[c] # 0 => session'[c] = session[c] /\ self'[c] = self[c]
<1>1. ASSUME UNCHANGED <<session, self, list>>
      PROVE  /\ \A k \in Lists : list[c][k].made => list'[c][k].made
             /\ session[c] # 0 => session'[c] = session[c] /\ self'[c] = self[c]
  BY <1>1
<1>2. CASE Passes  BY <1>2 DEF Passes, Quietly, Remarked
<1>3. ASSUME NEW d \in Clients, Served(d)
      PROVE  /\ \A k \in Lists : list[c][k].made => list'[c][k].made
             /\ session[c] # 0 => session'[c] = session[c] /\ self'[c] = self[c]
  BY <1>1, <1>3 DEF Served, clientVars
<1>4. ASSUME NEW d \in Clients, Informed(d)
      PROVE  /\ \A k \in Lists : list[c][k].made => list'[c][k].made
             /\ session[c] # 0 => session'[c] = session[c] /\ self'[c] = self[c]
  <2>1. down[d] # <<>>  BY <1>4 DEF Informed
  <2>2. CASE RecvReg(d, Head(down[d]))
    <3> DEFINE t == Head(down[d]).es[1].session
    <3>1. /\ session[d] = 0 /\ session' = [session EXCEPT ![d] = t]
          /\ self' = [self EXCEPT ![d] = t]
      BY <2>1, <2>2, RegDoes DEF IInv
    <3>2. PICK new \in ClientLists : new.made = TRUE /\ list' = [list EXCEPT ![d][Own] = new]
      BY <2>1, <2>2, RegDoes DEF IInv
    <3> HIDE DEF t
    <3>3. \A k \in Lists : list'[c][k] = IF c = d /\ k = Own THEN new ELSE list[c][k]
      BY <3>2, ListSet, ListsAre DEF IInv, Types
    <3>4. session[c] # 0 => session'[c] = session[c] /\ self'[c] = self[c]
      BY <3>1 DEF IInv, Types, ClientTypes
    <3> QED BY <3>2, <3>3, <3>4
  <2>3. CASE RecvPeers(d, Head(down[d]))
    <3> DEFINE m == Head(down[d])
               j == ListOf(d, m.es[1].session)
    <3>1. PICK l \in ClientLists, new \in ClientLists :
            /\ l.nodes = list[d][j].nodes
            /\ j = Own => l = list[d][Own]
            /\ j = Joined => l.made = TRUE /\ l.session = m.es[1].session
            /\ new.made = l.made /\ new.session = l.session
            /\ AddInv(new.nodes, Len(m.es), d, l, m.es)
            /\ list' = [list EXCEPT ![d][j] = new]
      BY <2>1, <2>3, PeersDoes DEF IInv
    <3>2. j \in Lists /\ j \in {Own, Joined}  BY ListsAre DEF ListOf
    <3>3. UNCHANGED <<session, self>>  BY <2>1, <2>3, PeersDoes DEF IInv
    <3> HIDE DEF j
    <3>4. \A k \in Lists : list'[c][k] = IF c = d /\ k = j THEN new ELSE list[c][k]
      BY <3>1, <3>2, ListSet DEF IInv, Types
    <3>5. j = Own /\ list[d][Own].made => new.made  BY <3>1
    <3>6. j = Joined => new.made  BY <3>1
    <3> QED BY <3>2, <3>3, <3>4, <3>5, <3>6
  <2> QED BY <1>4, <2>2, <2>3 DEF Informed
<1> QED BY <1>2, <1>3, <1>4, StepKinds DEF IInv

\* The session of a ping that was made out is still its client's.
LEMMA PingStays ==
  ASSUME AInv, IInv', [Next]_vars, NEW o \in Clients, NEW s \in Nat, s # 0,
         s = session[o], list[o][ListOf(o, s)].made
  PROVE  s = session'[o] /\ list'[o][ListOf(o, s)'].made
<1>1. session'[o] = session[o] /\ self'[o] = self[o]  BY MadeKept DEF AInv
<1>2. ListOf(o, s)' = ListOf(o, s)  BY <1>1 DEF ListOf
<1> QED BY <1>1, <1>2, MadeKept, ListsAre DEF AInv

LEMMA PingsFitOn ==
  ASSUME AInv, IInv', [Next]_vars
  PROVE  PingsFit'
<1> DEFINE Fits(m) == LET o == IF m.ack THEN m.to ELSE m.from
                      IN  /\ m.ack => m.session # 0
                          /\ m.session # 0 => /\ m.session = session[o]
                                              /\ list[o][ListOf(o, m.session)].made
<1>1. ASSUME NEW m \in PingMsgs, Fits(m) PROVE Fits(m)'
  <2> DEFINE o == IF m.ack THEN m.to ELSE m.from
  <2>1. o \in Clients /\ m.session \in Nat  BY DEF PingMsgs
  <2>2. CASE m.session = 0  BY <1>1, <2>2
  <2>3. CASE m.session # 0
    <3>1. m.session = session[o] /\ list[o][ListOf(o, m.session)].made  BY <1>1, <2>3
    <3> HIDE DEF o
    <3>2. m.session = session'[o] /\ list'[o][ListOf(o, m.session)'].made
      BY <2>1, <2>3, <3>1, PingStays
    <3>3. m.session = session'[o] /\ (list[o][ListOf(o, m.session)].made)'  BY <3>2
    <3> QED BY <2>3, <3>3 DEF o
  <2> QED BY <2>2, <2>3
<1>2. \A m \in p2p : m \in PingMsgs /\ Fits(m)
  BY DEF AInv, PingsFit, IInv, Types, ClientTypes
<1>3. ASSUME NEW new \in PingMsgs, Fits(new)', p2p' \subseteq p2p \cup {new}
      PROVE  PingsFit'
  <2>1. \A m \in p2p' : Fits(m)'
    <3> HIDE DEF Fits
    <3> QED BY <1>1, <1>2, <1>3
  <2> QED BY <2>1 DEF PingsFit
<1>4. ASSUME p2p' \subseteq p2p PROVE PingsFit'
  <2>1. \A m \in p2p' : Fits(m)'
    <3> HIDE DEF Fits
    <3> QED BY <1>1, <1>2, <1>4
  <2> QED BY <2>1 DEF PingsFit
<1>5. CASE ToPeer
  <2>1. PICK m \in p2p : RecvPing(m.to, m) \/ RecvAck(m.to, m)  BY <1>5 DEF ToPeer
  <2>2. CASE RecvAck(m.to, m)  BY <1>4, <2>2 DEF RecvAck
  <2>3. CASE RecvPing(m.to, m) /\ ~(m.session > 0)
    BY <1>4, <2>3 DEF RecvPing
  <2>4. CASE RecvPing(m.to, m) /\ m.session > 0
    <3> DEFINE new == [m EXCEPT !.to = m.from, !.from = m.to, !.ack = TRUE]
    <3>1. m \in PingMsgs /\ Fits(m) /\ ~m.ack /\ m.session # 0
      BY <1>2, <2>4 DEF RecvPing, PingMsgs
    <3>2. /\ new \in PingMsgs /\ new.ack = TRUE /\ new.to = m.from
          /\ new.session = m.session
      BY <3>1 DEF PingMsgs
    <3>3. p2p' \subseteq p2p \cup {new}  BY <2>4 DEF RecvPing
    <3> HIDE DEF new
    <3>4. m.session = session[m.from] /\ list[m.from][ListOf(m.from, m.session)].made
      BY <3>1
    <3>5. Fits(new)  BY <3>1, <3>2, <3>4
    <3> HIDE DEF Fits
    <3>6. Fits(new)'  BY <1>1, <3>2, <3>5
    <3> QED BY <1>3, <3>2, <3>3, <3>6
  <2> QED BY <2>1, <2>2, <2>3, <2>4
<1>6. ASSUME NEW c \in Clients, NEW k \in Lists, NEW n \in DOMAIN list[c][k].nodes,
             Ping(c, k, n)
      PROVE  PingsFit'
  <2> DEFINE sent == [to |-> list[c][k].nodes[n].addr, from |-> c, ack |-> FALSE,
                      session |-> session[c], self |-> self[c]]
  <2>1. p2p' \subseteq p2p \cup {sent}  BY <1>6 DEF Ping
  <2>2. list[c][k].nodes[n].addr \in Clients
    <3>1. n \in 1 .. Len(list[c][k].nodes)  BY ListIn DEF AInv, IInv, Types
    <3> QED BY <3>1, ListIn DEF AInv, IInv, Types, Nodes
  <2>3. sent \in PingMsgs
    BY <2>2 DEF PingMsgs, AInv, IInv, Types, ClientTypes
  <2>4. session[c] # 0 => list[c][ListOf(c, session[c])].made
    <3>1. list[c][k].made  BY <1>6 DEF Ping, AInv, Pinging
    <3>2. self[c] # 0 => list[c][Own].made /\ session[c] = self[c]
      BY DEF AInv, IInv, OwnLists
    <3>3. self[c] = 0 => ~list[c][Own].made  BY DEF AInv, IInv, OwnLists
    <3>4. k \in {Own, Joined}  BY DEF Lists
    <3> QED BY <3>1, <3>2, <3>3, <3>4 DEF ListOf
  <2>5. sent.ack = FALSE /\ sent.from = c /\ sent.session = session[c]  OBVIOUS
  <2> HIDE DEF sent
  <2>6. PICK new \in PingMsgs : new = sent  BY <2>3
  <2>7. Fits(new)  BY <2>4, <2>5, <2>6
  <2>8. p2p' \subseteq p2p \cup {new}  BY <2>1, <2>6
  <2> HIDE DEF Fits
  <2>9. Fits(new)'  BY <1>1, <2>7
  <2> QED BY <1>3, <2>8, <2>9
<1>7. CASE Threads
  <2>1. PICK c \in Clients :
          \/ TestRound(c)
          \/ \E k \in Lists : StartPing(c, k) \/ \E n \in DOMAIN list[c][k].nodes : Ping(c, k, n)
    BY <1>7 DEF Threads
  <2>2. CASE \E k \in Lists : \E n \in DOMAIN list[c][k].nodes : Ping(c, k, n)
    BY <1>6, <2>2
  <2>3. CASE TestRound(c) \/ \E k \in Lists : StartPing(c, k)
    BY <1>4, <2>3 DEF TestRound, Round, SendRound, StartPing
  <2> QED BY <2>1, <2>2, <2>3
<1>8. CASE ToServer \/ Lose \/ Repeat \/ OvertakeOne
  BY <1>4, <1>8 DEF ToServer, Lose, Repeat, OvertakeOne
<1>9. CASE ToClient
  BY <1>4, <1>9 DEF ToClient, ClientRecv, RecvReg, RecvPeers, RecvOther
<1>10. CASE Users  BY <1>4, <1>10 DEF Users, Beat, Command
<1>11. CASE UNCHANGED vars  BY <1>4, <1>11 DEF vars
<1> QED BY <1>5, <1>7, <1>8, <1>9, <1>10, <1>11 DEF Next, Progress

LEMMA PingingOn ==
  ASSUME AInv, IInv', [Next]_vars
  PROVE  Pinging'
<1>1. \A c \in Clients, k \in Lists : list[c][k].made => list'[c][k].made
  BY MadeKept DEF AInv
<1>2. ASSUME UNCHANGED ping PROVE Pinging'
  BY <1>1, <1>2 DEF AInv, Pinging
<1>3. CASE ToClient
  <2>1. PICK c \in Clients : /\ down[c] # <<>> /\ ClientRecv(c, Head(down[c]))
    BY <1>3 DEF ToClient
  <2>2. CASE RecvReg(c, Head(down[c])) \/ RecvOther(c, Head(down[c]))
    BY <1>2, <2>2 DEF RecvReg, RecvOther, clientVars
  <2>3. CASE RecvPeers(c, Head(down[c]))
    <3> DEFINE m == Head(down[c])
               s == m.es[1].session
               j == ListOf(c, s)
    <3>1. /\ ping' = ping \/ ping' = [ping EXCEPT ![c][j].pc = "created"]
          /\ j \in Lists
      BY <2>1, <2>3, PeersDoes, ListsAre DEF AInv, IInv
    <3>2. PICK l \in ClientLists, new \in ClientLists :
            /\ l.nodes = list[c][j].nodes
            /\ j = Own => l = list[c][Own]
            /\ j = Joined => l.made = TRUE /\ l.session = s
            /\ new.made = l.made /\ new.session = l.session
            /\ AddInv(new.nodes, Len(m.es), c, l, m.es)
            /\ list' = [list EXCEPT ![c][j] = new]
      BY <2>1, <2>3, PeersDoes DEF AInv, IInv
    <3>3. s \in 1 .. globSession
      BY <2>1, TakenDown, FirstEntry DEF AInv, IInv, Types
    <3>4. j = Own => self[c] # 0  BY <3>3, ListsAre DEF ListOf
    <3>5. j = Own => list[c][Own].made  BY <3>4 DEF AInv, IInv, OwnLists
    <3>6. j \in {Own, Joined}  BY DEF ListOf
    <3> HIDE DEF j, s, m
    <3>7. new.made  BY <3>2, <3>5, <3>6
    <3>8. list'[c][j] = new  BY <3>1, <3>2, ListSet DEF AInv, IInv, Types
    <3>9. \A d \in Clients, k \in Lists : ping'[d][k].pc # "none" =>
            ping[d][k].pc # "none" \/ (d = c /\ k = j)
      <4>1. CASE ping' = ping  BY <4>1
      <4>2. CASE ping' = [ping EXCEPT ![c][j].pc = "created"]
        <5>1. \A d \in Clients, k \in Lists :
                ping'[d][k] = ping[d][k] \/ (d = c /\ k = j)
          BY <3>1, <4>2, PingCreated DEF AInv, IInv, Types, ClientTypes
        <5> QED BY <5>1
      <4> QED BY <3>1, <4>1, <4>2
    <3> QED BY <1>1, <3>7, <3>8, <3>9 DEF AInv, Pinging
  <2> QED BY <2>1, <2>2, <2>3 DEF ClientRecv
<1>4. CASE Threads
  <2>1. PICK c \in Clients :
          \/ TestRound(c)
          \/ \E k \in Lists : StartPing(c, k) \/ \E n \in DOMAIN list[c][k].nodes : Ping(c, k, n)
    BY <1>4 DEF Threads
  <2>2. ASSUME NEW k \in Lists, StartPing(c, k) PROVE Pinging'
    <3>1. /\ ping[c][k].pc = "created"
          /\ ping' = [ping EXCEPT ![c][k] = [pc |-> "runs", self |-> self[c]]]
      BY <2>2 DEF StartPing
    <3>2. \A d \in Clients, j \in Lists : ping'[d][j].pc # "none" =>
            ping[d][j].pc # "none"
      BY <3>1 DEF AInv, IInv, Types, ClientTypes
    <3> QED BY <1>1, <3>2 DEF AInv, Pinging
  <2>3. CASE TestRound(c) \/ \E k \in Lists : \E n \in DOMAIN list[c][k].nodes : Ping(c, k, n)
    BY <1>2, <2>3 DEF TestRound, Round, SendRound, Ping
  <2> QED BY <2>1, <2>2, <2>3
<1>5. CASE ToServer \/ Lose \/ Repeat \/ OvertakeOne
  BY <1>2, <1>5 DEF ToServer, Lose, Repeat, OvertakeOne, clientVars
<1>6. CASE ToPeer  BY <1>2, <1>6 DEF ToPeer, RecvPing, RecvAck, clientVars
<1>7. CASE Users  BY <1>2, <1>7 DEF Users, Beat, Command
<1>8. CASE UNCHANGED vars  BY <1>2, <1>8 DEF vars, clientVars
<1> QED BY <1>3, <1>4, <1>5, <1>6, <1>7, <1>8 DEF Next, Progress

\* The answer to a ping is looked up in a list that is there: client_recv_run
\* at kPing in source/base_stun.c goes through it without a test for NULL.
THEOREM AcksFindLists == Spec => []AckFindsList
<1>1. Init => AInv
  <2>1. ASSUME Init PROVE PingsFit /\ Pinging
    <3>1. p2p = {}  BY <2>1 DEF Init, ClientInit
    <3>2. \A c \in Clients, k \in Lists : ping[c][k].pc = "none"
      BY <2>1 DEF Init, ClientInit
    <3> QED BY <3>1, <3>2 DEF PingsFit, Pinging
  <2> QED BY <2>1, InitHolds DEF AInv
<1>2. AInv /\ [Next]_vars => AInv'
  <2>1. ASSUME AInv, [Next]_vars PROVE AInv'
    <3>1. IInv'  BY <2>1, StepHolds DEF AInv
    <3> QED BY <2>1, <3>1, PingsFitOn, PingingOn DEF AInv
  <2> QED BY <2>1
<1>3. AInv => AckFindsList  BY DEF AInv, PingsFit, AckFindsList
<1> QED BY <1>1, <1>2, <1>3, PTL DEF Spec

-----------------------------------------------------------------------------
(* The same of the clients that type, in the composition of MCStun. *)

LEMMA TypingSteps ==
  ASSUME MCNext \/ UNCHANGED mcVars, cast = "typing"
  PROVE  [Next]_vars /\ cast' = cast
BY DEF MCNext, mcVars

\* OwnSession, among clients that register, join and exit in any order.
THEOREM TypingOwnSessions == MCSpec => []TypingOwnSession
<1> DEFINE Inv == cast = "typing" => IInv
<1>1. MCInit => Inv  BY InitHolds DEF MCInit
<1>2. Inv /\ [MCNext]_mcVars => Inv'
  <2>1. ASSUME Inv, [MCNext]_mcVars, cast' = "typing" PROVE IInv'
    <3>1. cast = "typing"  BY <2>1 DEF MCNext, mcVars
    <3> QED BY <2>1, <3>1, TypingSteps, StepHolds
  <2> QED BY <2>1
<1>3. Inv => TypingOwnSession
  BY DEF TypingOwnSession, IInv, OneEach, OwnLists, OwnSession
<1> QED BY <1>1, <1>2, <1>3, PTL DEF MCSpec

\* MutualKnowledge, among the same: also among those that join without a
\* session of their own, of whom only the later ones know the earlier.
THEOREM TypingMembersKnown == MCSpec => []TypingMutualKnowledge
<1> DEFINE Inv == cast = "typing" => MInv
<1>1. MCInit => Inv  BY MutualInit DEF MCInit
<1>2. Inv /\ [MCNext]_mcVars => Inv'
  <2>1. ASSUME Inv, [MCNext]_mcVars, cast' = "typing" PROVE MInv'
    <3>1. cast = "typing"  BY <2>1 DEF MCNext, mcVars
    <3> QED BY <2>1, <3>1, TypingSteps, MutualHolds
  <2> QED BY <2>1
<1>3. Inv => TypingMutualKnowledge  BY MutualImplied DEF TypingMutualKnowledge
<1> QED BY <1>1, <1>2, <1>3, PTL DEF MCSpec

\* RightList, among the same, where nobody asks for session 1.
THEOREM TypingRightLists ==
  ASSUME GivenOut
  PROVE  MCSpec => []TypingRightList
<1> DEFINE Inv == cast = "typing" => RInv
<1>1. MCInit => Inv  BY RightInit DEF MCInit
<1>2. Inv /\ [MCNext]_mcVars => Inv'
  <2>1. ASSUME Inv, [MCNext]_mcVars, cast' = "typing" PROVE RInv'
    <3>1. cast = "typing"  BY <2>1 DEF MCNext, mcVars
    <3> QED BY <2>1, <3>1, TypingSteps, RightHolds
  <2> QED BY <2>1
<1>3. Inv => TypingRightList  BY RightImplied DEF TypingRightList
<1> QED BY <1>1, <1>2, <1>3, PTL DEF MCSpec

=============================================================================
