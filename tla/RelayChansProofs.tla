-------------------------- MODULE RelayChansProofs --------------------------
(***************************************************************************)
(* Who holds the channels of the relay server's sessions, of RelayChans:   *)
(* ChansAccounted, for any number of clients, sessions and channels.       *)
(***************************************************************************)
EXTENDS MCRelayChans, FiniteSetTheorems, SequenceTheorems, WellFoundedInduction,
        TLAPS

Grants == [client : Clients, sess : Sessions, chan : Chans, rand : RandIds]

Types == /\ status \in [Sessions -> {-1, 0, 1}]
         /\ free \in [Sessions -> SUBSET Chans]
         /\ idx \in 0 .. MaxSessions
         /\ own \in [Clients -> SUBSET Chans]
         /\ held \subseteq Grants /\ given \subseteq Grants

\* h is a grant of channel k of session s.
Of(h, s, k) == h.sess = s /\ h.chan = k

\* What ChansAccounted says of one channel, by the grants themselves.
OneHolder(s, k) ==
  <<s, k>> \notin strayed =>
    \A g, h \in held : Of(g, s, k) /\ Of(h, s, k) => g.client = h.client

FreeIsNobodys(s, k) ==
  k \in free[s] => (\A h \in held : ~Of(h, s, k)) \/ <<s, k>> \in strayed

TakenIsHeld(s, k) ==
  k \notin free[s] => (\E h \in held : Of(h, s, k)) \/ <<s, k>> \in leaked

Account(s, k) == OneHolder(s, k) /\ FreeIsNobodys(s, k) /\ TakenIsHeld(s, k)

Accounted ==
  \A s \in Sessions, k \in Chans \ Overlaid : status[s] = 1 => Account(s, k)

IInv == Types /\ Accounted

-----------------------------------------------------------------------------
\* A set of natural numbers that is not empty has a least element.
LEMMA LeastNatural ==
  ASSUME NEW T \in SUBSET Nat, T # {}
  PROVE  \E x \in T : \A y \in T : x <= y
<1> DEFINE R == {ss \in Nat \X Nat : ss[1] < ss[2]}
<1>1. IsWellFoundedOn(R, Nat)  BY NatLessThanWellFounded DEF OpToRel
<1> HIDE DEF R
<1>2. \E x \in T : \A y \in T : <<y, x>> \notin R  BY <1>1, WFMin
<1>3. \A x, y \in Nat : <<y, x>> \notin R => ~(y < x)  BY DEF R
<1>4. \A x, y \in Nat : ~(y < x) => x <= y  OBVIOUS
<1> QED BY <1>2, <1>3, <1>4

LEMMA MinIsIn ==
  ASSUME NEW T \in SUBSET Nat, T # {}
  PROVE  Min(T) \in T
BY LeastNatural, Zenon DEF Min

\* A channel keeps its account when nothing about it changes.
LEMMA SameAccount ==
  ASSUME NEW s, NEW k, Account(s, k),
         \A h : Of(h, s, k) => (h \in held' <=> h \in held),
         k \in free'[s] <=> k \in free[s],
         <<s, k>> \in strayed' <=> <<s, k>> \in strayed,
         <<s, k>> \in leaked' <=> <<s, k>> \in leaked
  PROVE  Account(s, k)'
BY DEF Account, OneHolder, FreeIsNobodys, TakenIsHeld, Of

\* A channel of a session that has just been emptied.
LEMMA EmptyAccount ==
  ASSUME NEW s, NEW k, \A h \in held' : ~Of(h, s, k), k \in free'[s]
  PROVE  Account(s, k)'
BY DEF Account, OneHolder, FreeIsNobodys, TakenIsHeld, Of

-----------------------------------------------------------------------------
LEMMA InitInv == Init => IInv
<1> SUFFICES ASSUME Init PROVE IInv  OBVIOUS
<1>1. 0 \in 0 .. MaxSessions  BY ChansAssumption
<1>2. Types  BY <1>1 DEF Init, Types
<1>3. Accounted  BY DEF Init, Accounted
<1> QED BY <1>2, <1>3 DEF IInv

\* The least free channel is granted; the last four are as the overlay says.
LEMMA GetChanIdInv ==
  ASSUME IInv, NEW c \in Clients, NEW s \in Sessions, NEW r \in RandIds,
         GetChanId(c, s, r)
  PROVE  IInv'
<1> DEFINE n == Min(free[s])
           g == Grant(c, s, n, r)
<1>1. /\ free' = [free EXCEPT ![s] = Overlay(Taken(s, n), r)]
      /\ held' = held \cup {g} /\ given' = given \cup {g}
      /\ Note(c, n) /\ UNCHANGED <<status, rand, idx, listed, strayed, leaked>>
  BY DEF GetChanId
<1>2. free[s] \subseteq Chans /\ Chans \subseteq Nat
  BY ChansAssumption DEF IInv, Types, Chans
<1>3. n \in free[s] /\ n \in Chans  BY <1>2, MinIsIn DEF GetChanId
<1> HIDE DEF n
<1>4. g \in Grants /\ Of(g, s, n) /\ g.client = c /\ g.sess = s /\ g.chan = n
  BY <1>3 DEF Grant, Grants, Of
<1>5. BytesFF[r] \subseteq Overlaid /\ Overlaid \subseteq Chans
  BY ChansAssumption
<1>6. /\ \A k \in Chans \ Overlaid : k \in free'[s] <=> k \in free[s] /\ k # n
      /\ \A t \in Sessions \ {s} : free'[t] = free[t]
      /\ free' \in [Sessions -> SUBSET Chans]
  BY <1>1, <1>2, <1>5 DEF IInv, Types, Overlay, Taken
<1>7. Types'
  <2>1. own' \in [Clients -> SUBSET Chans]
    BY <1>1, <1>3 DEF Note, IInv, Types
  <2> QED BY <1>1, <1>4, <1>6, <2>1 DEF IInv, Types
<1> HIDE DEF g
<1>8. ASSUME NEW t \in Sessions, NEW k \in Chans \ Overlaid, status'[t] = 1
      PROVE  Account(t, k)'
  <2>1. Account(t, k)  BY <1>1, <1>8 DEF IInv, Accounted
  <2>2. CASE t = s /\ k = n
    BY <1>1, <1>3, <1>4, <1>6, <2>1, <2>2
       DEF Account, OneHolder, FreeIsNobodys, TakenIsHeld, Of
  <2>3. CASE t # s \/ k # n
    <3>1. ~Of(g, t, k)  BY <1>4, <2>3 DEF Of
    <3>2. k \in free'[t] <=> k \in free[t]  BY <1>6, <2>3
    <3> QED BY <1>1, <2>1, <3>1, <3>2, SameAccount
  <2> QED BY <2>2, <2>3
<1> QED BY <1>7, <1>8 DEF IInv, Accounted

\* A command takes a channel, be it the one granted or one given back.
LEMMA TakeInv ==
  ASSUME IInv, NEW c \in Clients, NEW s \in Sessions, NEW k \in Chans,
         free' = [free EXCEPT ![s] = Taken(s, k)], leaked' = Leaks(c, s, k),
         own' \in [Clients -> SUBSET Chans],
         UNCHANGED <<status, idx, held, given, strayed>>
  PROVE  IInv'
<1>1. /\ \A j \in Chans : j \in free'[s] <=> j \in free[s] /\ j # k
      /\ \A t \in Sessions \ {s} : free'[t] = free[t]
      /\ free' \in [Sessions -> SUBSET Chans]
  BY DEF IInv, Types, Taken
<1>2. Types'  BY <1>1 DEF IInv, Types
<1>3. ASSUME NEW t \in Sessions, NEW j \in Chans \ Overlaid, status'[t] = 1
      PROVE  Account(t, j)'
  <2>1. Account(t, j)  BY <1>3 DEF IInv, Accounted
  <2>2. CASE t = s /\ j = k
    <3>1. (\E h \in held : Of(h, s, k)) \/ <<s, k>> \in leaked'
      BY DEF Leaks, Holds, Of
    <3> QED BY <1>1, <2>1, <2>2, <3>1
            DEF Account, OneHolder, FreeIsNobodys, TakenIsHeld, Of
  <2>3. CASE t # s \/ j # k
    <3>1. <<t, j>> \in leaked' <=> <<t, j>> \in leaked  BY <2>3 DEF Leaks
    <3>2. j \in free'[t] <=> j \in free[t]  BY <1>1, <2>3
    <3> QED BY <2>1, <3>1, <3>2, SameAccount
  <2> QED BY <2>2, <2>3
<1> QED BY <1>2, <1>3 DEF IInv, Accounted

\* A client gives back what its node has noted, in the session it names.
LEMMA ByeInv ==
  ASSUME IInv, NEW c \in Clients, NEW s \in Sessions, Bye(c, s)
  PROVE  IInv'
<1>1. /\ free' = [free EXCEPT ![s] = @ \cup Noted(c)]
      /\ held' = {h \in held : ~(h.client = c /\ h.sess = s)}
      /\ strayed' = {sk \in strayed \cup ({s} \X Noted(c)) :
                       \E h \in held' : h.sess = sk[1] /\ h.chan = sk[2]}
      /\ leaked' = (leaked \ ({s} \X Noted(c)))
                     \cup ({s} \X ({k \in Chans : Holds(c, s, k)} \ Noted(c)))
      /\ UNCHANGED <<status, idx, own, given>>
  BY DEF Bye, Given
<1>2. Noted(c) \subseteq Chans  BY DEF Noted, IInv, Types
<1>3. /\ \A k : k \in free'[s] <=> k \in free[s] \/ k \in Noted(c)
      /\ \A t \in Sessions \ {s} : free'[t] = free[t]
      /\ free' \in [Sessions -> SUBSET Chans]
  BY <1>1, <1>2 DEF IInv, Types
<1>4. Types'  BY <1>1, <1>3 DEF IInv, Types
<1>5. ASSUME NEW t, NEW k
      PROVE  <<t, k>> \in strayed' <=>
               /\ <<t, k>> \in strayed \/ (t = s /\ k \in Noted(c))
               /\ \E h \in held' : Of(h, t, k)
  BY <1>1 DEF Of
<1>6. ASSUME NEW t \in Sessions, NEW k \in Chans \ Overlaid, status'[t] = 1
      PROVE  Account(t, k)'
  <2>1. Account(t, k)  BY <1>1, <1>6 DEF IInv, Accounted
  <2>2. held' \subseteq held  BY <1>1
  <2>3. OneHolder(t, k)'
    BY <1>5, <2>1, <2>2 DEF Account, OneHolder
  <2>4. FreeIsNobodys(t, k)'
    BY <1>3, <1>5, <2>1, <2>2 DEF Account, FreeIsNobodys
  <2>5. TakenIsHeld(t, k)'
    <3> SUFFICES ASSUME k \notin free'[t]
                 PROVE  (\E h \in held' : Of(h, t, k)) \/ <<t, k>> \in leaked'
      BY DEF TakenIsHeld
    <3>1. k \notin free[t] /\ (t = s => k \notin Noted(c))  BY <1>3
    <3>2. CASE <<t, k>> \in leaked  BY <1>1, <3>1, <3>2
    <3>3. ASSUME NEW h \in held, Of(h, t, k)
          PROVE  (\E g \in held' : Of(g, t, k)) \/ <<t, k>> \in leaked'
      <4>1. CASE h.client = c /\ h.sess = s
        <5>1. t = s /\ Holds(c, s, k)  BY <3>3, <4>1 DEF Of, Holds
        <5> QED BY <1>1, <3>1, <5>1
      <4>2. CASE ~(h.client = c /\ h.sess = s)  BY <1>1, <3>3, <4>2
      <4> QED BY <4>1, <4>2
    <3> QED BY <2>1, <3>1, <3>2, <3>3 DEF Account, TakenIsHeld
  <2> QED BY <2>3, <2>4, <2>5 DEF Account
<1> QED BY <1>4, <1>6 DEF IInv, Accounted

\* A session is opened, closed or given up.
LEMMA AllFreeInv ==
  ASSUME IInv, NEW s \in Sessions, AllFree(s),
         status' \in [Sessions -> {-1, 0, 1}],
         \A t \in Sessions \ {s} : status'[t] = status[t],
         idx' \in 0 .. MaxSessions, own' \in [Clients -> SUBSET Chans]
  PROVE  IInv'
<1>1. /\ free' = [free EXCEPT ![s] = Chans]
      /\ held' = {h \in held : h.sess # s}
      /\ strayed' = {sk \in strayed : sk[1] # s}
      /\ leaked'  = {sk \in leaked : sk[1] # s}
      /\ given' = given
  BY DEF AllFree
<1>2. Types'  BY <1>1 DEF IInv, Types
<1>3. ASSUME NEW t \in Sessions, NEW k \in Chans \ Overlaid, status'[t] = 1
      PROVE  Account(t, k)'
  <2>1. CASE t = s
    <3>1. k \in free'[t]  BY <1>1, <2>1 DEF IInv, Types
    <3>2. \A h \in held' : ~Of(h, t, k)  BY <1>1, <2>1 DEF Of
    <3> QED BY <3>1, <3>2, EmptyAccount
  <2>2. CASE t # s
    <3>1. Account(t, k)  BY <1>3, <2>2 DEF IInv, Accounted
    <3>2. free'[t] = free[t]  BY <1>1, <2>2 DEF IInv, Types
    <3>3. \A h : Of(h, t, k) => (h \in held' <=> h \in held)
      BY <1>1, <2>2 DEF Of
    <3>4. /\ <<t, k>> \in strayed' <=> <<t, k>> \in strayed
          /\ <<t, k>> \in leaked' <=> <<t, k>> \in leaked
      BY <1>1, <2>2
    <3> QED BY <3>1, <3>2, <3>3, <3>4, SameAccount
  <2> QED BY <2>1, <2>2
<1> QED BY <1>2, <1>3 DEF IInv, Accounted

\* What the other steps do concerns no channel, or only takes a status of 1.
LEMMA QuietInv ==
  ASSUME IInv, UNCHANGED <<free, idx, history>>,
         status' \in [Sessions -> {-1, 0, 1}],
         \A t \in Sessions : status'[t] = 1 => status[t] = 1,
         own' \in [Clients -> SUBSET Chans]
  PROVE  IInv'
<1>1. Types'  BY DEF IInv, Types, history
<1>2. ASSUME NEW t \in Sessions, NEW k \in Chans \ Overlaid, status'[t] = 1
      PROVE  Account(t, k)'
  <2>1. Account(t, k)  BY <1>2 DEF IInv, Accounted
  <2> QED BY <2>1, SameAccount DEF history
<1> QED BY <1>1, <1>2 DEF IInv, Accounted

LEMMA StepInv == IInv /\ [Next]_vars => IInv'
<1> SUFFICES ASSUME IInv, [Next]_vars PROVE IInv'  OBVIOUS
<1>1. Types  BY DEF IInv
<1>2. ASSUME NEW c \in Clients, GetSessionId(c) PROVE IInv'
  <2>1. idx \in Sessions /\ idx + 1 \in 0 .. MaxSessions
    BY <1>1, <1>2, ChansAssumption DEF GetSessionId, Types, Sessions
  <2> QED BY <1>1, <1>2, <2>1, AllFreeInv DEF GetSessionId, Types
<1>3. ASSUME NEW c \in Clients, BroadCastReg(c) PROVE IInv'
  BY <1>1, <1>3, QuietInv DEF BroadCastReg, sessVars, history, Types
<1>4. ASSUME NEW c \in Clients, NEW s \in Sessions, NEW exit \in BOOLEAN, Close(c, s, exit)
      PROVE  IInv'
  BY <1>1, <1>4, AllFreeInv DEF Close, Types
<1>5. ASSUME NEW g \in given, Confirm(g.client, g.sess, g.chan, g.rand)
      PROVE  IInv'
  <2>1. g.client \in Clients /\ g.sess \in Sessions /\ g.chan \in Chans
    BY <1>1 DEF Types, Grants
  <2>2. own' \in [Clients -> SUBSET Chans]
    BY <1>1, <1>5, <2>1 DEF Confirm, Note, Types
  <2> QED BY <1>5, <2>1, <2>2, TakeInv DEF Confirm
<1>6. ASSUME NEW g \in given, RegEncoder(g.client, g.sess, g.chan)
      PROVE  IInv'
  <2>1. g.client \in Clients /\ g.sess \in Sessions /\ g.chan \in Chans
    BY <1>1 DEF Types, Grants
  <2> QED BY <1>1, <1>6, <2>1, TakeInv DEF RegEncoder, Types
<1>7. CASE Broadcaster
  <2>1. ASSUME NEW s \in Sessions, status' = [status EXCEPT ![s] = -1],
               UNCHANGED <<free, rand, idx, own, listed, history>>
        PROVE  IInv'
    <3>1. \A t \in Sessions : status'[t] = 1 => status[t] = 1
      BY <1>1, <2>1 DEF Types
    <3> QED BY <1>1, <2>1, <3>1, QuietInv DEF Types
  <2>2. ASSUME NEW c \in listed, own' = [own EXCEPT ![c] = {}],
               UNCHANGED <<sessVars, idx, history>>
        PROVE  IInv'
    BY <1>1, <2>2, QuietInv DEF sessVars, Types
  <2> QED BY <1>7, <2>1, <2>2 DEF Broadcaster
<1>8. CASE UNCHANGED vars
  BY <1>1, <1>8, QuietInv DEF vars, sessVars, Types
<1> QED BY <1>2, <1>3, <1>4, <1>5, <1>6, <1>7, <1>8, GetChanIdInv, ByeInv DEF Next

-----------------------------------------------------------------------------
\* The invariant holds whatever the clients send, and in whatever order.
THEOREM ChansInvariant == Spec => []IInv
BY InitInv, StepInv, PTL DEF Spec

\* A channel of an open session has one holder, and is taken as long as it has
\* one, but for what kBye and late commands do (udpbase.c:710, 1198, 1421).
THEOREM ChansAreAccounted == Spec => []ChansAccounted
<1>1. IInv => ChansAccounted
  <2> SUFFICES ASSUME IInv, NEW s \in Sessions, NEW k \in Chans \ Overlaid,
                      status[s] = 1
               PROVE  LET holders == {c \in Clients : Holds(c, s, k)}
                      IN  /\ <<s, k>> \notin strayed => Cardinality(holders) <= 1
                          /\ k \in free[s] => holders = {} \/ <<s, k>> \in strayed
                          /\ k \notin free[s] => holders # {} \/ <<s, k>> \in leaked
    BY DEF ChansAccounted
  <2> DEFINE holders == {c \in Clients : Holds(c, s, k)}
  <2>1. Account(s, k) /\ held \subseteq Grants  BY DEF IInv, Accounted, Types
  <2>2. holders = {h.client : h \in {g \in held : Of(g, s, k)}}
    BY <2>1 DEF Holds, Of, Grants
  <2> HIDE DEF holders
  <2>3. <<s, k>> \notin strayed => Cardinality(holders) <= 1
    <3>1. CASE holders = {}
      <4>1. Cardinality(holders) = 0  BY <3>1, FS_EmptySet
      <4> QED BY <4>1
    <3>2. ASSUME NEW c \in holders, <<s, k>> \notin strayed
          PROVE  Cardinality(holders) <= 1
      <4>1. holders = {c}  BY <2>1, <2>2, <3>2 DEF Account, OneHolder
      <4>2. Cardinality(holders) = 1  BY <4>1, FS_Singleton
      <4> QED BY <4>2
    <3> QED BY <3>1, <3>2
  <2>4. k \in free[s] => holders = {} \/ <<s, k>> \in strayed
    BY <2>1, <2>2 DEF Account, FreeIsNobodys
  <2>5. k \notin free[s] => holders # {} \/ <<s, k>> \in leaked
    BY <2>1, <2>2 DEF Account, TakenIsHeld
  <2> QED BY <2>3, <2>4, <2>5 DEF holders
<1> QED BY <1>1, ChansInvariant, PTL

-----------------------------------------------------------------------------
(* The list of nodes. *)

\* The place before the i-th node of the nodes c, or of the last one.
Before(c, i) == IF i = 0 THEN ListHead ELSE c[i]

\* The node behind it.
Behind(c, i) == IF i = Len(c) THEN Null ELSE c[i + 1]

\* The pointers of nx lead from the head through the nodes c to NULL.
Leads(nx, c) ==
  /\ c \in Seq(ListNodes) /\ IsInjective(c)
  /\ nx \in [ListNodes \cup {ListHead} -> ListNodes \cup {Null}]
  /\ \A i \in 0 .. Len(c) : nx[Before(c, i)] = Behind(c, i)

\* The list is that of the nodes c.
ListOf(c) ==
  /\ Leads(next, c)
  /\ tail = Before(c, Len(c)) /\ num = Len(c) /\ live = Range(c)
  /\ id \in [ListNodes -> Nat] /\ key \in [ListNodes -> ListKeys \cup {Null}]
  /\ lastId \in Nat /\ made \in BOOLEAN
  /\ ~made => c = <<>> /\ lastId = 0

ListInv == \E c \in Seq(ListNodes) : ListOf(c)

\* The walk along the pointers of nx, and what it meets.
Walk(nx) ==
  LET at[i \in 0 .. Cardinality(ListNodes) + 1] ==
        IF i = 0 THEN ListHead
        ELSE IF at[i-1] = Null THEN Null ELSE nx[at[i-1]]
  IN  at

Items(c, ids, keys) ==
  [i \in 1 .. Len(c) |-> [node |-> c[i], id |-> ids[c[i]], key |-> keys[c[i]]]]

\* The sequence s without its i-th element.
Skip(s, i) == [j \in 1 .. Len(s) - 1 |-> IF j < i THEN s[j] ELSE s[j + 1]]

LEMMA NodesAre ==
  ASSUME NEW c \in Seq(ListNodes), IsInjective(c)
  PROVE  /\ Len(c) \in Nat /\ Len(c) <= Cardinality(ListNodes) /\ Cardinality(ListNodes) \in Nat
         /\ \A i \in 1 .. Len(c) : c[i] \in ListNodes
         /\ \A i, j \in 1 .. Len(c) : c[i] = c[j] => i = j
<1>1. Len(c) \in Nat /\ c \in [1 .. Len(c) -> ListNodes]  OBVIOUS
<1>2. Cardinality(1 .. Len(c)) = Len(c) /\ IsFiniteSet(1 .. Len(c))
  BY <1>1, FS_Interval
<1>3. c \in Injection(1 .. Len(c), ListNodes)  BY <1>1 DEF Injection
<1>4. Len(c) <= Cardinality(ListNodes) /\ Cardinality(ListNodes) \in Nat
  BY <1>2, <1>3, FS_Injection, FS_CardinalityType, ListAssumption
<1> QED BY <1>1, <1>4 DEF IsInjective

\* Where the walk along a list gets.
LEMMA WalkIs ==
  ASSUME NEW nx, NEW c \in Seq(ListNodes), Leads(nx, c)
  PROVE  Walk(nx) = [i \in 0 .. Cardinality(ListNodes) + 1 |->
                       IF i <= Len(c) THEN Before(c, i) ELSE Null]
<1> DEFINE N == Cardinality(ListNodes) + 1
           Rec(g) == g = [i \in 0 .. N |->
                            IF i = 0 THEN ListHead
                            ELSE IF g[i-1] = Null THEN Null ELSE nx[g[i-1]]]
           w == [i \in 0 .. N |-> IF i <= Len(c) THEN Before(c, i) ELSE Null]
<1>1. Walk(nx) = CHOOSE g : Rec(g)  BY DEF Walk
<1>2. /\ Len(c) \in Nat /\ N \in Nat /\ Len(c) < N
      /\ \A i \in 0 .. Len(c) : Before(c, i) # Null
      /\ \A i \in 0 .. Len(c) : nx[Before(c, i)] = Behind(c, i)
  BY NodesAre, ListAssumption DEF Leads, Before
<1> HIDE DEF N
<1>3. ASSUME NEW i \in 0 .. N
      PROVE  w[i] = IF i = 0 THEN ListHead
                    ELSE IF w[i-1] = Null THEN Null ELSE nx[w[i-1]]
  <2>1. CASE i = 0  BY <1>2, <2>1 DEF Before
  <2>2. CASE i # 0
    <3>1. i - 1 \in 0 .. N /\ i \in Nat  BY <1>2, <2>2
    <3>2. CASE i - 1 <= Len(c)
      <4>1. w[i-1] = Before(c, i - 1) /\ i - 1 \in 0 .. Len(c)  BY <1>2, <3>1, <3>2
      <4>2. nx[w[i-1]] = Behind(c, i - 1) /\ w[i-1] # Null  BY <1>2, <4>1
      <4>3. w[i] = Behind(c, i - 1)
        BY <1>2, <2>2, <3>1, <3>2 DEF Behind, Before
      <4> QED BY <2>2, <4>2, <4>3
    <3>3. CASE i - 1 > Len(c)
      <4>1. w[i-1] = Null /\ w[i] = Null  BY <1>2, <3>1, <3>3
      <4> QED BY <2>2, <4>1
    <3> QED BY <1>2, <3>1, <3>2, <3>3
  <2> QED BY <2>1, <2>2
<1>4. Rec(w)
  <2> HIDE DEF w
  <2>1. w = [i \in 0 .. N |-> w[i]]  BY DEF w
  <2> QED BY <1>3, <2>1
<1> DEFINE v == Walk(nx)
<1>5. Rec(v)
  <2> HIDE DEF Rec, w
  <2> QED BY <1>1, <1>4
<1> DEFINE Bad == {i \in 0 .. N : v[i] # w[i]}
<1>6. v = [i \in 0 .. N |-> v[i]]
      /\ \A i \in 0 .. N : v[i] = IF i = 0 THEN ListHead
                              ELSE IF v[i-1] = Null THEN Null ELSE nx[v[i-1]]
  <2> HIDE DEF v
  <2> QED BY <1>5
<1>7. Bad = {}
  <2> HIDE DEF v, w
  <2> SUFFICES ASSUME Bad # {} PROVE FALSE  OBVIOUS
  <2>1. Bad \in SUBSET Nat  BY <1>2
  <2> HIDE DEF Bad
  <2>2. PICK i \in Bad : \A j \in Bad : i <= j  BY <2>1, LeastNatural
  <2>3. i \in 0 .. N /\ v[i] # w[i]  BY <2>2 DEF Bad
  <2>4. i # 0  BY <1>3, <1>6, <2>3
  <2>5. i - 1 \in 0 .. N /\ i - 1 \notin Bad  BY <1>2, <2>2, <2>3, <2>4
  <2>6. v[i-1] = w[i-1]  BY <2>5 DEF Bad
  <2> QED BY <1>3, <1>6, <2>3, <2>6
<1>8. \A i \in 0 .. N : v[i] = w[i]  BY <1>7
<1>9. w = [i \in 0 .. N |-> w[i]]  OBVIOUS
<1>10. v = w
  <2> HIDE DEF v, w
  <2> QED BY <1>6, <1>8, <1>9
<1> QED BY <1>10 DEF N

\* What a search returns among items.
Search(items, k) ==
  IF L!S!Places(items, k) = {} THEN Null ELSE items[L!S!Place(items, k)].node

\* What the mapped variables are of a list of nodes c.
Mapped(c) ==
  /\ L!Met = 1 .. Len(c)
  /\ \A i \in 0 .. Len(c) : L!At[i] = Before(c, i)
  /\ L!Contents = Items(c, id, key)
  /\ \A k : L!MetWith(k) = L!S!Places(Items(c, id, key), k)
  /\ \A k : L!Found(k) = Search(Items(c, id, key), k)

LEMMA MappedIs ==
  ASSUME NEW c \in Seq(ListNodes), ListOf(c)
  PROVE  Mapped(c)
<1> DEFINE N == Cardinality(ListNodes) + 1
<1>0. L!Cardinality(ListNodes) = Cardinality(ListNodes)  BY DEF L!Cardinality, Cardinality
<1>1. L!At = Walk(next)  BY <1>0 DEF L!At, Walk
<1>2. Leads(next, c)  BY DEF ListOf
<1>3. /\ Len(c) \in Nat /\ N \in Nat /\ Len(c) < N
      /\ \A i \in 1 .. Len(c) : c[i] \in ListNodes
  BY <1>2, NodesAre DEF Leads
<1>4. L!At = [i \in 0 .. N |-> IF i <= Len(c) THEN Before(c, i) ELSE Null]
  BY <1>1, <1>2, WalkIs
<1> HIDE DEF N
<1>5. L!Met = 1 .. Len(c)
  <2>1. \A i \in 1 .. Len(c) : Before(c, i) # Null
    BY <1>3, ListAssumption DEF Before
  <2> QED BY <1>3, <1>4, <2>1 DEF L!Met
<1>6. \A i \in 0 .. Len(c) : L!At[i] = Before(c, i)  BY <1>3, <1>4
<1>7. \A i \in 1 .. Len(c) : L!At[i] = c[i]  BY <1>3, <1>6 DEF Before
<1>8. L!Contents = Items(c, id, key)  BY <1>5, <1>7 DEF L!Contents, Items
<1>9. \A k : L!MetWith(k) = L!S!Places(Items(c, id, key), k)
  BY <1>5, <1>7 DEF L!MetWith, L!S!Places, Items
<1>10. ASSUME NEW k PROVE L!Found(k) = Search(Items(c, id, key), k)
  <2> DEFINE items == Items(c, id, key)
             P == L!S!Places(items, k)
  <2>1. CASE P = {}  BY <1>9, <2>1 DEF L!Found, Search
  <2>2. CASE P # {}
    <3>1. P \subseteq 1 .. Len(c)  BY DEF L!S!Places, Items
    <3>2. L!Min(L!MetWith(k)) = L!S!Place(items, k)
      BY <1>9 DEF L!Min, L!S!Place
    <3>3. L!S!Place(items, k) \in P
      <4>1. P \in SUBSET Nat  BY <1>3, <3>1
      <4> HIDE DEF P
      <4>2. PICK x \in P : \A y \in P : x <= y  BY <2>2, <4>1, LeastNatural
      <4>3. L!S!Place(items, k) = CHOOSE i \in P : \A j \in P : i <= j
        BY DEF L!S!Place, P
      <4> QED BY <4>2, <4>3
    <3> DEFINE p == L!S!Place(items, k)
    <3>4. p \in 1 .. Len(c)  BY <3>1, <3>3
    <3>5. L!Found(k) = L!At[p]  BY <1>9, <2>2, <3>2 DEF L!Found
    <3> HIDE DEF p
    <3>6. items[p].node = c[p] /\ L!At[p] = c[p]  BY <1>7, <3>4 DEF Items
    <3> QED BY <2>2, <3>5, <3>6 DEF Search, p
  <2> QED BY <2>1, <2>2
<1> QED BY <1>5, <1>6, <1>8, <1>9, <1>10 DEF Mapped

LEMMA MappedNext ==
  ASSUME NEW c \in Seq(ListNodes)
  PROVE  ListOf(c)' => Mapped(c)'
<1>1. ListOf(c) => Mapped(c)  BY MappedIs
<1> QED BY <1>1, PTL

\* A step to a list of nodes c is one to a sequence.
LEMMA BecomesIs ==
  ASSUME NEW c \in Seq(ListNodes), ListOf(c)'
  PROVE  L!S!Becomes(Items(c, id', key'))
<1> DEFINE items == Items(c, id', key')
<1>1. Mapped(c)'  BY MappedNext
<1>2. Len(c) \in Nat /\ DOMAIN items = 1 .. Len(c) /\ Len(items) = Len(c)
      /\ \A i \in 1 .. Len(c) : items[i].node = c[i]
  BY DEF Items
<1>3. L!Contents' = items  BY <1>1 DEF Mapped
<1>4. num' = Len(items)  BY <1>2 DEF ListOf
<1>5. live' = {items[i].node : i \in DOMAIN items}
  <2>1. live' = Range(c)  BY DEF ListOf
  <2>2. DOMAIN c = 1 .. Len(c)  OBVIOUS
  <2> HIDE DEF items
  <2> QED BY <1>2, <2>1, <2>2 DEF Range
<1>6. \A k : L!Found(k)' = Search(items, k)  BY <1>1 DEF Mapped
<1> HIDE DEF items
<1> QED BY <1>3, <1>4, <1>5, <1>6 DEF L!S!Becomes, Search, items

LEMMA SkipIs ==
  ASSUME NEW T, NEW s \in Seq(T), NEW i \in 1 .. Len(s)
  PROVE  /\ Skip(s, i) \in Seq(T) /\ Len(Skip(s, i)) = Len(s) - 1
         /\ \A j \in 1 .. Len(s) - 1 :
              Skip(s, i)[j] = IF j < i THEN s[j] ELSE s[j + 1]
<1>1. Len(s) \in Nat /\ Len(s) - 1 \in Nat  OBVIOUS
<1>2. \A j \in 1 .. Len(s) - 1 : s[j] \in T /\ s[j + 1] \in T  OBVIOUS
<1>3. \A j \in 1 .. Len(s) - 1 : (IF j < i THEN s[j] ELSE s[j + 1]) \in T  BY <1>2
<1> QED BY <1>1, <1>3 DEF Skip

\* The i-th node of c goes.
LEMMA UnlinkSkips ==
  ASSUME NEW c \in Seq(ListNodes), ListOf(c), NEW i \in 1 .. Len(c), made, L!Unlink(i)
  PROVE  /\ ListOf(Skip(c, i))'
         /\ Items(Skip(c, i), id', key') = Skip(Items(c, id, key), i)
         /\ lastId' = lastId
<1> DEFINE d == Skip(c, i)
           p == c[i]
           q == Before(c, i - 1)
           out == [next EXCEPT ![q] = next[p]]
<1>1. Leads(next, c) /\ IsInjective(c) /\ next \in [ListNodes \cup {ListHead} -> ListNodes \cup {Null}]
  BY DEF ListOf, Leads
<1>2. /\ Len(c) \in Nat /\ i \in Nat /\ i - 1 \in 0 .. Len(c) /\ i \in 0 .. Len(c)
      /\ \A j \in 1 .. Len(c) : c[j] \in ListNodes /\ c[j] # ListHead /\ c[j] # Null
      /\ \A j, m \in 1 .. Len(c) : c[j] = c[m] => j = m
  <2>1. /\ Len(c) \in Nat /\ \A j \in 1 .. Len(c) : c[j] \in ListNodes
        /\ \A j, m \in 1 .. Len(c) : c[j] = c[m] => j = m
    BY <1>1, NodesAre
  <2>2. i \in Nat /\ i - 1 \in 0 .. Len(c) /\ i \in 0 .. Len(c)  BY <2>1
  <2> QED BY <2>1, <2>2, ListAssumption
<1>3. L!At[i] = p /\ L!At[i-1] = q  BY <1>2, MappedIs DEF Mapped, Before
<1>4. /\ \A j \in 0 .. Len(c) : Before(c, j) \in ListNodes \cup {ListHead}
      /\ \A j, m \in 0 .. Len(c) : Before(c, j) = Before(c, m) => j = m
  BY <1>2 DEF Before
<1>5. \A j \in 0 .. Len(c) : next[Before(c, j)] = Behind(c, j)
  BY <1>1 DEF Leads
<1>6. /\ p = Before(c, i) /\ p \in ListNodes /\ q \in ListNodes \cup {ListHead} /\ p # q
      /\ next[p] = Behind(c, i) /\ Behind(c, i) \in ListNodes \cup {Null}
      /\ Behind(c, i) = Null <=> i = Len(c)
  BY <1>2, <1>4, <1>5 DEF Before, Behind
<1>7. tail = Before(c, Len(c)) /\ num = Len(c) /\ live = Range(c)
      /\ id \in [ListNodes -> Nat] /\ key \in [ListNodes -> ListKeys \cup {Null}]
      /\ lastId \in Nat
  BY DEF ListOf
<1>8. /\ d \in Seq(ListNodes) /\ Len(d) = Len(c) - 1
      /\ \A j \in 1 .. Len(c) - 1 : d[j] = IF j < i THEN c[j] ELSE c[j + 1]
  BY SkipIs
<1>9. \A j \in 0 .. Len(c) - 1 :
        Before(d, j) = IF j < i THEN Before(c, j) ELSE Before(c, j + 1)
  BY <1>2, <1>8 DEF Before
<1>10. \A j \in 0 .. Len(c) - 1 :
         Behind(d, j) = IF j < i - 1 THEN Behind(c, j) ELSE Behind(c, j + 1)
  BY <1>2, <1>8 DEF Behind
<1>11. /\ num' = num - 1 /\ made' = made /\ lastId' = lastId
       /\ IF out[ListHead] = Null THEN tail' = ListHead /\ L!Freed({p}, out)
          ELSE IF out[q] = Null
          THEN tail' = q /\ L!Freed({p}, [out EXCEPT ![tail] = q])
          ELSE tail' = tail /\ L!Freed({p}, out)
  BY <1>3 DEF L!Unlink
<1> HIDE DEF d, p, q
<1>12. /\ out \in [ListNodes \cup {ListHead} -> ListNodes \cup {Null}]
       /\ out[q] = Behind(c, i)
       /\ \A n \in ListNodes \cup {ListHead} : n # q => out[n] = next[n]
  BY <1>1, <1>6
<1>13. /\ live' = live \ {p}
       /\ id' = [n \in ListNodes |-> IF n = p THEN 0 ELSE id[n]]
       /\ key' = [n \in ListNodes |-> IF n = p THEN Null ELSE key[n]]
       /\ next' = [n \in ListNodes \cup {ListHead} |->
                     IF n = p THEN Null ELSE IF n = q THEN Behind(c, i) ELSE next[n]]
       /\ tail' = IF i = Len(c) THEN q ELSE tail
  <2>1. out[ListHead] = Null <=> (i = 1 /\ Len(c) = 1)
    <3>1. Before(c, 0) = ListHead /\ 0 \in 0 .. Len(c)  BY <1>2 DEF Before
    <3>2. next[ListHead] = Behind(c, 0)  BY <1>5, <3>1
    <3>3. next[ListHead] # Null  BY <1>2, <3>2 DEF Behind
    <3>4. q = ListHead <=> i = 1  BY <1>2, <1>4, <3>1 DEF q
    <3> QED BY <1>2, <1>6, <1>12, <3>3, <3>4
  <2>2. q = ListHead \/ i # 1  BY <1>2 DEF q, Before
  <2>3. i = Len(c) => tail = p  BY <1>6, <1>7
  <2> HIDE DEF out
  <2>4. CASE out[ListHead] = Null
    <3>1. tail' = ListHead /\ L!Freed({p}, out)  BY <1>11, <2>4
    <3> QED BY <1>12, <2>1, <2>2, <2>4, <3>1 DEF L!Freed
  <2>5. CASE out[ListHead] # Null /\ out[q] = Null
    <3>1. tail' = q /\ L!Freed({p}, [out EXCEPT ![tail] = q])  BY <1>11, <2>5
    <3>2. i = Len(c) /\ tail = p  BY <1>6, <1>12, <2>3, <2>5
    <3>3. \A n \in ListNodes \cup {ListHead} : n # p => [out EXCEPT ![tail] = q][n] = out[n]
      BY <1>12, <3>2
    <3> QED BY <1>12, <3>1, <3>2, <3>3 DEF L!Freed
  <2>6. CASE out[ListHead] # Null /\ out[q] # Null
    <3>1. tail' = tail /\ L!Freed({p}, out)  BY <1>11, <2>6
    <3>2. i # Len(c)  BY <1>6, <1>12, <2>6
    <3> QED BY <1>12, <3>1, <3>2 DEF L!Freed
  <2> QED BY <2>4, <2>5, <2>6
<1> HIDE DEF out
<1>14. Leads(next', d)
  <2>1. IsInjective(d)
    <3>1. ASSUME NEW j \in 1 .. Len(d), NEW m \in 1 .. Len(d), d[j] = d[m]
          PROVE  j = m
      <4>1. j \in 0 .. Len(c) - 1 /\ m \in 0 .. Len(c) - 1  BY <1>2, <1>8
      <4>2. Before(d, j) = Before(d, m)  BY <1>2, <1>8, <3>1 DEF Before
      <4>3. CASE j < i /\ m < i  BY <1>2, <1>4, <1>9, <4>1, <4>2, <4>3
      <4>4. CASE j < i /\ m >= i  BY <1>2, <1>4, <1>9, <4>1, <4>2, <4>4
      <4>5. CASE j >= i /\ m < i  BY <1>2, <1>4, <1>9, <4>1, <4>2, <4>5
      <4>6. CASE j >= i /\ m >= i
        <5>1. Before(c, j + 1) = Before(c, m + 1)  BY <1>2, <1>9, <4>1, <4>2, <4>6
        <5> QED BY <1>2, <1>4, <4>1, <5>1
      <4> QED BY <1>2, <4>1, <4>3, <4>4, <4>5, <4>6
    <3>2. DOMAIN d = 1 .. Len(d)  BY <1>8
    <3> QED BY <3>1, <3>2 DEF IsInjective
  <2>2. next' \in [ListNodes \cup {ListHead} -> ListNodes \cup {Null}]  BY <1>1, <1>6, <1>13
  <2>3. ASSUME NEW j \in 0 .. Len(d) PROVE next'[Before(d, j)] = Behind(d, j)
    <3>1. j \in 0 .. Len(c) - 1 /\ j \in 0 .. Len(c) /\ j + 1 \in 0 .. Len(c)
      BY <1>2, <1>8
    <3>2. CASE j < i - 1
      <4>1. Before(d, j) = Before(c, j) /\ Behind(d, j) = Behind(c, j)
        BY <1>2, <1>9, <1>10, <3>1, <3>2
      <4>2. Before(c, j) # p /\ Before(c, j) # q  BY <1>2, <1>4, <1>6, <3>1, <3>2 DEF q
      <4> QED BY <1>4, <1>5, <1>13, <3>1, <4>1, <4>2
    <3>3. CASE j = i - 1
      <4>1. Before(d, j) = q /\ Behind(d, j) = Behind(c, i)
        BY <1>2, <1>9, <1>10, <3>1, <3>3 DEF q
      <4> QED BY <1>6, <1>13, <4>1
    <3>4. CASE j > i - 1
      <4>1. Before(d, j) = Before(c, j + 1) /\ Behind(d, j) = Behind(c, j + 1)
        BY <1>2, <1>9, <1>10, <3>1, <3>4
      <4>2. Before(c, j + 1) # p /\ Before(c, j + 1) # q
        BY <1>2, <1>4, <1>6, <3>1, <3>4 DEF q
      <4> QED BY <1>4, <1>5, <1>13, <3>1, <4>1, <4>2
    <3> QED BY <1>2, <3>1, <3>2, <3>3, <3>4
  <2> QED BY <1>8, <2>1, <2>2, <2>3 DEF Leads
<1>15. tail' = Before(d, Len(d))
  <2>1. Len(d) \in 0 .. Len(c) - 1  BY <1>2, <1>8
  <2>2. CASE i = Len(c)  BY <1>2, <1>8, <1>9, <1>13, <2>1, <2>2 DEF q
  <2>3. CASE i # Len(c)  BY <1>2, <1>7, <1>8, <1>9, <1>13, <2>1, <2>3
  <2> QED BY <2>2, <2>3
<1>16. live' = Range(d)
  <2>1. Range(c) = {c[j] : j \in 1 .. Len(c)}  BY DEF Range
  <2>2. Range(d) = {d[j] : j \in 1 .. Len(c) - 1}  BY <1>8 DEF Range
  <2>3. ASSUME NEW x \in Range(c), x # p PROVE x \in Range(d)
    <3>1. PICK j \in 1 .. Len(c) : x = c[j]  BY <2>1
    <3>2. j # i  BY <2>3, <3>1 DEF p
    <3>3. CASE j < i
      <4>1. j \in 1 .. Len(c) - 1 /\ d[j] = x  BY <1>2, <1>8, <3>1, <3>3
      <4> QED BY <2>2, <4>1
    <3>4. CASE j > i
      <4>1. j - 1 \in 1 .. Len(c) - 1 /\ d[j - 1] = x  BY <1>2, <1>8, <3>1, <3>4
      <4> QED BY <2>2, <4>1
    <3> QED BY <1>2, <3>1, <3>2, <3>3, <3>4
  <2>4. ASSUME NEW x \in Range(d) PROVE x \in Range(c) /\ x # p
    <3>1. PICK j \in 1 .. Len(c) - 1 : x = d[j]  BY <2>2
    <3>2. j \in 1 .. Len(c) /\ j + 1 \in 1 .. Len(c)  BY <1>2
    <3>3. (x = c[j] /\ j < i) \/ (x = c[j + 1] /\ j >= i)  BY <1>2, <1>8, <3>1
    <3> QED BY <1>2, <2>1, <3>2, <3>3 DEF p
  <2> QED BY <1>7, <1>13, <2>3, <2>4
<1>17. ListOf(d)'
  BY <1>2, <1>7, <1>8, <1>11, <1>13, <1>14, <1>15, <1>16 DEF ListOf
<1>18. Items(d, id', key') = Skip(Items(c, id, key), i)
  <2> DEFINE items == Items(c, id, key)
  <2>1. Len(items) = Len(c)  BY <1>2 DEF Items
  <2>2. ASSUME NEW j \in 1 .. Len(c) - 1
        PROVE  [node |-> d[j], id |-> id'[d[j]], key |-> key'[d[j]]]
                 = IF j < i THEN items[j] ELSE items[j + 1]
    <3>1. d[j] \in ListNodes /\ d[j] # p  BY <1>2, <1>8 DEF p
    <3>2. id'[d[j]] = id[d[j]] /\ key'[d[j]] = key[d[j]]  BY <1>7, <1>13, <3>1
    <3>3. j \in 1 .. Len(c) /\ j + 1 \in 1 .. Len(c)  BY <1>2
    <3> QED BY <1>8, <3>2, <3>3 DEF Items
  <2> HIDE DEF items
  <2>3. Items(d, id', key') = [j \in 1 .. Len(c) - 1 |->
                                 IF j < i THEN items[j] ELSE items[j + 1]]
    BY <1>8, <2>2 DEF Items
  <2> QED BY <2>1, <2>3 DEF Skip, items
<1> QED BY <1>11, <1>17, <1>18 DEF d

\* A function on 1 .. n is a sequence.
LEMMA IsASeqOf ==
  ASSUME NEW n \in Nat, NEW T, NEW f, f = [j \in 1 .. n |-> f[j]],
         \A j \in 1 .. n : f[j] \in T
  PROVE  f \in Seq(T)
<1>1. f \in [1 .. n -> T]  OBVIOUS
<1> QED BY <1>1, SeqDef

\* A node is added behind the last one.
LEMMA AddAppends ==
  ASSUME NEW c \in Seq(ListNodes), ListOf(c), NEW n \in ListNodes, NEW k \in ListKeys,
         L!Add(n, k)
  PROVE  /\ ListOf(Append(c, n))'
         /\ Items(Append(c, n), id', key')
              = Append(Items(c, id, key), [node |-> n, id |-> lastId + 1, key |-> k])
<1> DEFINE d == Append(c, n)
           last == Before(c, Len(c))
<1>1. Leads(next, c) /\ IsInjective(c) /\ next \in [ListNodes \cup {ListHead} -> ListNodes \cup {Null}]
  BY DEF ListOf, Leads
<1>2. /\ Len(c) \in Nat
      /\ \A j \in 1 .. Len(c) : c[j] \in ListNodes /\ c[j] # ListHead /\ c[j] # Null
      /\ \A j, m \in 1 .. Len(c) : c[j] = c[m] => j = m
  BY <1>1, NodesAre, ListAssumption
<1>3. /\ tail = last /\ num = Len(c) /\ live = Range(c) /\ n \notin live
      /\ id \in [ListNodes -> Nat] /\ key \in [ListNodes -> ListKeys \cup {Null}]
      /\ lastId \in Nat /\ made
  BY DEF ListOf, L!Add
<1>4. n # ListHead /\ n # Null /\ \A j \in 1 .. Len(c) : c[j] # n
  <2>1. Range(c) = {c[j] : j \in 1 .. Len(c)}  BY DEF Range
  <2> QED BY <1>3, <2>1, ListAssumption
<1>5. /\ \A j \in 0 .. Len(c) : Before(c, j) \in ListNodes \cup {ListHead} /\ Before(c, j) # n
      /\ \A j, m \in 0 .. Len(c) : Before(c, j) = Before(c, m) => j = m
  BY <1>2, <1>4 DEF Before
<1>6. \A j \in 0 .. Len(c) : next[Before(c, j)] = Behind(c, j)
  BY <1>1 DEF Leads
<1>7. /\ next' = [next EXCEPT ![n] = Null, ![last] = n]
      /\ tail' = n /\ num' = num + 1 /\ lastId' = lastId + 1 /\ made' = made
      /\ id' = [id EXCEPT ![n] = lastId + 1] /\ key' = [key EXCEPT ![n] = k]
      /\ live' = live \cup {n}
  BY <1>3 DEF L!Add
<1>8. /\ d \in Seq(ListNodes) /\ Len(d) = Len(c) + 1 /\ d[Len(c) + 1] = n
      /\ \A j \in 1 .. Len(c) : d[j] = c[j]
  BY <1>2
<1>9. /\ \A j \in 0 .. Len(c) : Before(d, j) = Before(c, j)
      /\ Before(d, Len(d)) = n
      /\ \A j \in 0 .. Len(c) : j # Len(c) => Behind(d, j) = Behind(c, j)
      /\ Behind(d, Len(c)) = n /\ Behind(d, Len(d)) = Null
  BY <1>2, <1>8 DEF Before, Behind
<1> HIDE DEF d, last
<1>10. Leads(next', d)
  <2>1. IsInjective(d)
    <3>1. \A j, m \in 1 .. Len(d) : d[j] = d[m] => j = m  BY <1>2, <1>4, <1>8
    <3>2. DOMAIN d = 1 .. Len(d)  BY <1>8
    <3> QED BY <3>1, <3>2 DEF IsInjective
  <2>2. last \in ListNodes \cup {ListHead} /\ last # n  BY <1>2, <1>5 DEF last
  <2>3. /\ next' \in [ListNodes \cup {ListHead} -> ListNodes \cup {Null}]
        /\ next'[n] = Null /\ next'[last] = n
        /\ \A m \in ListNodes \cup {ListHead} : m # n /\ m # last => next'[m] = next[m]
    BY <1>1, <1>7, <2>2
  <2>4. ASSUME NEW j \in 0 .. Len(d) PROVE next'[Before(d, j)] = Behind(d, j)
    <3>1. CASE j = Len(d)  BY <1>9, <2>3, <3>1
    <3>2. CASE j = Len(c)  BY <1>2, <1>9, <2>3, <3>2 DEF last
    <3>3. CASE j # Len(d) /\ j # Len(c)
      <4>1. j \in 0 .. Len(c) /\ Len(c) \in 0 .. Len(c)  BY <1>2, <1>8, <3>3
      <4>2. Before(d, j) = Before(c, j) /\ Behind(d, j) = Behind(c, j)
        BY <1>9, <3>3, <4>1
      <4>3. Before(c, j) # last  BY <1>5, <3>3, <4>1 DEF last
      <4> QED BY <1>5, <1>6, <2>3, <4>1, <4>2, <4>3
    <3> QED BY <3>1, <3>2, <3>3
  <2> QED BY <1>8, <2>1, <2>3, <2>4 DEF Leads
<1>11. live' = Range(d)
  <2>1. Range(c) = {c[j] : j \in 1 .. Len(c)}  BY DEF Range
  <2>2. Range(d) = {d[j] : j \in 1 .. Len(c) + 1}  BY <1>8 DEF Range
  <2>3. 1 .. Len(c) + 1 = (1 .. Len(c)) \cup {Len(c) + 1}  BY <1>2
  <2>4. Range(d) = Range(c) \cup {n}  BY <1>8, <2>1, <2>2, <2>3
  <2> QED BY <1>3, <1>7, <2>4
<1>12. ListOf(d)'
  BY <1>2, <1>3, <1>7, <1>8, <1>9, <1>10, <1>11 DEF ListOf
<1>13. Items(d, id', key')
         = Append(Items(c, id, key), [node |-> n, id |-> lastId + 1, key |-> k])
  <2> DEFINE items == Items(c, id, key)
             new == [node |-> n, id |-> lastId + 1, key |-> k]
  <2>1. items \in Seq({items[j] : j \in 1 .. Len(c)}) /\ Len(items) = Len(c)
    BY <1>2 DEF Items
  <2>2. ASSUME NEW j \in 1 .. Len(c) + 1
        PROVE  [node |-> d[j], id |-> id'[d[j]], key |-> key'[d[j]]]
                 = IF j = Len(c) + 1 THEN new ELSE items[j]
    <3>1. CASE j = Len(c) + 1  BY <1>3, <1>7, <1>8, <3>1
    <3>2. CASE j # Len(c) + 1
      <4>1. j \in 1 .. Len(c)  BY <1>2, <3>2
      <4>2. id'[c[j]] = id[c[j]] /\ key'[c[j]] = key[c[j]]
        BY <1>2, <1>3, <1>4, <1>7, <4>1
      <4> QED BY <1>8, <3>2, <4>1, <4>2 DEF Items
    <3> QED BY <3>1, <3>2
  <2> HIDE DEF items, new
  <2>3. Items(d, id', key') = [j \in 1 .. Len(c) + 1 |->
                                 IF j = Len(c) + 1 THEN new ELSE items[j]]
    BY <1>8, <2>2 DEF Items
  <2> DEFINE T == {items[j] : j \in 1 .. Len(c)} \cup {new}
             a == Append(items, new)
             b == [j \in 1 .. Len(c) + 1 |-> IF j = Len(c) + 1 THEN new ELSE items[j]]
  <2>4. a = b
    <3>1. items \in Seq(T)  BY <2>1, SeqMonotonic
    <3>2. a \in Seq(T) /\ Len(a) = Len(c) + 1
      BY <1>2, <2>1, <3>1
    <3>3. \A j \in 1 .. Len(c) + 1 : a[j] = b[j]  BY <1>2, <2>1, <3>1
    <3>4. b \in Seq(T) /\ Len(b) = Len(c) + 1  BY <1>2
    <3> HIDE DEF a, b, T
    <3> QED BY <1>2, <3>2, <3>3, <3>4, SeqEqual
  <2> QED BY <2>3, <2>4 DEF items, new
<1> QED BY <1>12, <1>13 DEF d

\* The node with a key that is met first, and the place of the first item.
LEMMA PlaceIs ==
  ASSUME NEW c \in Seq(ListNodes), ListOf(c), NEW k, L!MetWith(k) # {}
  PROVE  /\ L!Min(L!MetWith(k)) = L!S!Place(Items(c, id, key), k)
         /\ L!S!Place(Items(c, id, key), k) \in 1 .. Len(c)
         /\ L!S!Places(Items(c, id, key), k) # {}
<1> DEFINE P == L!S!Places(Items(c, id, key), k)
<1>1. L!MetWith(k) = P  BY MappedIs DEF Mapped
<1>2. P \subseteq 1 .. Len(c) /\ P \in SUBSET Nat /\ P # {}
  BY <1>1 DEF L!S!Places, Items
<1>3. L!Min(L!MetWith(k)) = CHOOSE i \in P : \A j \in P : i <= j
  BY <1>1 DEF L!Min
<1>4. L!S!Place(Items(c, id, key), k) = CHOOSE i \in P : \A j \in P : i <= j
  BY DEF L!S!Place
<1> HIDE DEF P
<1>5. PICK x \in P : \A y \in P : x <= y  BY <1>2, LeastNatural
<1>6. (CHOOSE i \in P : \A j \in P : i <= j) \in P  BY <1>5
<1> QED BY <1>2, <1>3, <1>4, <1>6 DEF P

LEMMA RemoveSkips ==
  ASSUME NEW T, NEW s \in Seq(T), NEW i \in 1 .. Len(s)
  PROVE  L!S!RemoveAt(s, i) = Skip(s, i) /\ (i = 1 => Tail(s) = Skip(s, i))
<1>1. Len(s) \in Nat /\ i \in Nat  OBVIOUS
<1>2. /\ SubSeq(s, 1, i - 1) \in Seq(T) /\ Len(SubSeq(s, 1, i - 1)) = i - 1
      /\ \A j \in 1 .. i - 1 : SubSeq(s, 1, i - 1)[j] = s[j]
  <2>1. \A j \in 1 .. i - 1 : s[j] \in T  BY <1>1
  <2> QED BY <1>1, <2>1, SubSeqProperties
<1>3. /\ SubSeq(s, i + 1, Len(s)) \in Seq(T)
      /\ Len(SubSeq(s, i + 1, Len(s))) = Len(s) - i
      /\ \A j \in 1 .. Len(s) - i : SubSeq(s, i + 1, Len(s))[j] = s[i + j]
  <2>1. \A j \in i + 1 .. Len(s) : s[j] \in T  BY <1>1
  <2> QED BY <1>1, <2>1, SubSeqProperties
<1> DEFINE a == SubSeq(s, 1, i - 1)
           b == SubSeq(s, i + 1, Len(s))
<1>4. L!S!RemoveAt(s, i) = a \o b  BY DEF L!S!RemoveAt
<1> HIDE DEF a, b
<1> DEFINE w == Skip(s, i)
<1>5. w \in Seq(T) /\ Len(w) = Len(s) - 1
      /\ \A j \in 1 .. Len(s) - 1 : w[j] = IF j < i THEN s[j] ELSE s[j + 1]
  BY SkipIs
<1> HIDE DEF w
<1>6. a \o b = w
  <2>1. a \in Seq(T) /\ b \in Seq(T) /\ Len(a) = i - 1 /\ Len(b) = Len(s) - i
    BY <1>2, <1>3 DEF a, b
  <2>a. Len(a) + Len(b) = Len(s) - 1  BY <1>1, <2>1
  <2> DEFINE ab == a \o b
  <2>2. /\ ab \in Seq(T) /\ Len(ab) = Len(s) - 1
        /\ \A j \in 1 .. Len(s) - 1 :
             ab[j] = IF j <= Len(a) THEN a[j] ELSE b[j - Len(a)]
    BY <2>1, <2>a, ConcatProperties
  <2> HIDE DEF ab
  <2>3. ASSUME NEW j \in 1 .. Len(s) - 1 PROVE ab[j] = w[j]
    <3>1. CASE j < i
      <4>1. j <= i - 1 /\ j \in 1 .. i - 1  BY <1>1, <3>1
      <4>2. a[j] = s[j]  BY <1>2, <4>1 DEF a
      <4>3. ab[j] = a[j]  BY <2>1, <2>2, <4>1
      <4> QED BY <1>5, <3>1, <4>2, <4>3
    <3>2. CASE j >= i
      <4>1. ~(j <= i - 1) /\ j - (i - 1) \in 1 .. Len(s) - i  BY <1>1, <3>2
      <4>2. b[j - (i - 1)] = s[i + (j - (i - 1))]  BY <1>3, <4>1 DEF b
      <4>3. i + (j - (i - 1)) = j + 1  BY <1>1
      <4>4. ab[j] = b[j - (i - 1)]  BY <2>1, <2>2, <4>1
      <4>5. w[j] = s[j + 1]  BY <1>1, <1>5, <3>2
      <4> QED BY <4>2, <4>3, <4>4, <4>5
    <3> QED BY <1>1, <3>1, <3>2
  <2>4. ab = w  BY <1>1, <1>5, <2>2, <2>3, SeqEqual
  <2> QED BY <2>4 DEF ab
<1>7. i = 1 => Tail(s) = w
  <2>1. SUFFICES ASSUME i = 1 PROVE Tail(s) = w  OBVIOUS
  <2> DEFINE t == Tail(s)
  <2>2. t \in Seq(T) /\ Len(t) = Len(s) - 1
    BY <1>1
  <2>3. \A j \in 1 .. Len(s) - 1 : t[j] = s[j + 1]  BY <1>1
  <2>4. \A j \in 1 .. Len(s) - 1 : t[j] = w[j]  BY <1>1, <1>5, <2>1, <2>3
  <2> HIDE DEF t
  <2>5. t = w  BY <1>1, <1>5, <2>2, <2>4, SeqEqual
  <2> QED BY <2>5 DEF t
<1> QED BY <1>4, <1>6, <1>7 DEF w

\* An empty list has no items, whatever its nodes were.
LEMMA NoItems ==
  ASSUME NEW ids, NEW keys
  PROVE  Items(<<>>, ids, keys) = <<>>
         /\ \A k : Search(Items(<<>>, ids, keys), k) = Null
<1> DEFINE c == <<>>
<1>1. Len(c) = 0 /\ 1 .. 0 = {}  OBVIOUS
<1>2. Items(c, ids, keys) = <<>>  BY <1>1 DEF Items
<1>3. \A k : L!S!Places(<<>>, k) = {}  BY DEF L!S!Places
<1> QED BY <1>2, <1>3 DEF Search

LEMMA FreeLeavesNone ==
  ASSUME NEW c \in Seq(ListNodes), ListOf(c), L!Free
  PROVE  ListOf(<<>>)' /\ lastId' = 0
<1> DEFINE d == <<>>
<1>1. Leads(next, c) /\ IsInjective(c) /\ next \in [ListNodes \cup {ListHead} -> ListNodes \cup {Null}]
  BY DEF ListOf, Leads
<1>2. Len(c) \in Nat  OBVIOUS
<1>3. {L!At[i] : i \in L!Met} = Range(c)
  <2>1. L!Met = 1 .. Len(c) /\ \A i \in 1 .. Len(c) : L!At[i] = c[i]
    BY <1>2, MappedIs DEF Mapped, Before
  <2>2. Range(c) = {c[i] : i \in 1 .. Len(c)}  BY DEF Range
  <2> QED BY <2>1, <2>2
<1>4. ListHead \notin Range(c)
  BY <1>1, NodesAre, ListAssumption DEF Range
<1>5. live = Range(c) /\ id \in [ListNodes -> Nat] /\ key \in [ListNodes -> ListKeys \cup {Null}]
  BY DEF ListOf
<1>6. /\ live' = {} /\ made' = FALSE /\ tail' = ListHead /\ num' = 0 /\ lastId' = 0
      /\ id' \in [ListNodes -> Nat] /\ key' \in [ListNodes -> ListKeys \cup {Null}]
      /\ next' \in [ListNodes \cup {ListHead} -> ListNodes \cup {Null}]
      /\ next'[ListHead] = Null
  BY <1>1, <1>3, <1>4, <1>5 DEF L!Free, L!Freed
<1>7. d \in Seq(ListNodes) /\ Len(d) = 0 /\ IsInjective(d) /\ Range(d) = {}
  BY DEF IsInjective, Range
<1>8. Leads(next', d)  BY <1>6, <1>7 DEF Leads, Before, Behind
<1>9. Before(d, Len(d)) = ListHead  BY <1>7 DEF Before
<1> QED BY <1>6, <1>7, <1>8, <1>9 DEF ListOf

LEMMA ListInit ==
  ASSUME L!Init
  PROVE  ListOf(<<>>) /\ L!S!Init
<1> DEFINE d == <<>>
<1>1. d \in Seq(ListNodes) /\ Len(d) = 0 /\ IsInjective(d) /\ Range(d) = {}
  BY DEF IsInjective, Range
<1>2. Leads(next, d)  BY <1>1 DEF Leads, Before, Behind, L!Init
<1>3. Before(d, Len(d)) = ListHead  BY <1>1 DEF Before
<1>4. ListOf(d)  BY <1>1, <1>2, <1>3 DEF ListOf, L!Init
<1>5. Mapped(d)  BY <1>1, <1>4, MappedIs
<1>6. L!Contents = <<>> /\ \A k : L!Found(k) = Null  BY <1>5, NoItems DEF Mapped
<1> QED BY <1>4, <1>6 DEF L!S!Init, L!Init

\* Every step of the list leads to a list, and is one of the sequence.
LEMMA ListStep ==
  ASSUME ListInv, [L!Next]_(L!listVars)
  PROVE  ListInv' /\ [L!S!Next]_(L!S!seqVars)
<1>1. PICK c \in Seq(ListNodes) : ListOf(c)  BY DEF ListInv
<1>2. /\ Mapped(c) /\ Len(c) \in Nat
      /\ L!Contents = Items(c, id, key) /\ Len(Items(c, id, key)) = Len(c)
      /\ Items(c, id, key) \in Seq({Items(c, id, key)[j] : j \in 1 .. Len(c)})
  <2> DEFINE items == Items(c, id, key)
             T == {items[j] : j \in 1 .. Len(c)}
  <2>1. Len(c) \in Nat /\ Len(items) = Len(c) /\ DOMAIN items = 1 .. Len(c)
        /\ items = [j \in 1 .. Len(c) |-> items[j]]
    BY DEF Items
  <2> HIDE DEF items
  <2>2. items \in Seq(T)
    <3>1. \A j \in 1 .. Len(c) : items[j] \in T  OBVIOUS
    <3> HIDE DEF T
    <3> QED BY <2>1, <3>1, IsASeqOf
  <2> QED BY <1>1, <2>1, <2>2, MappedIs DEF Mapped, items
<1>3. CASE L!Create
  <2>1. ~made /\ c = <<>> /\ lastId = 0  BY <1>1, <1>3 DEF L!Create, ListOf
  <2>2. /\ made' = TRUE /\ next' = [next EXCEPT ![ListHead] = Null]
        /\ tail' = ListHead /\ num' = 0 /\ lastId' = 0
        /\ id' = id /\ key' = key /\ live' = live
    BY <1>3 DEF L!Create, L!fields
  <2>3. Len(c) = 0 /\ num = 0 /\ Before(c, 0) = ListHead
        /\ next \in [ListNodes \cup {ListHead} -> ListNodes \cup {Null}] /\ IsInjective(c)
    BY <1>1, <2>1 DEF ListOf, Leads, Before
  <2>4. Leads(next', c)  BY <2>2, <2>3 DEF Leads, Before, Behind
  <2>5. ListOf(c)'  BY <1>1, <2>2, <2>3, <2>4 DEF ListOf
  <2>6. Mapped(c)'  BY <2>5, MappedNext
  <2>7. L!Contents' = L!Contents /\ \A k : L!Found(k)' = L!Found(k)
    BY <1>2, <2>1, <2>2, <2>6 DEF Mapped
  <2>8. UNCHANGED L!S!seqVars  BY <2>1, <2>2, <2>3, <2>7 DEF L!S!seqVars
  <2> QED BY <2>5, <2>8 DEF ListInv
<1>4. ASSUME NEW n \in ListNodes, NEW k \in ListKeys, L!Add(n, k)
      PROVE  ListInv' /\ [L!S!Next]_(L!S!seqVars)
  <2> DEFINE d == Append(c, n)
  <2>1. d \in Seq(ListNodes)  OBVIOUS
  <2>2. /\ ListOf(d)'
        /\ Items(d, id', key')
             = Append(L!Contents, [node |-> n, id |-> lastId + 1, key |-> k])
    BY <1>1, <1>2, <1>4, AddAppends
  <2> HIDE DEF d
  <2>3. L!S!Becomes(Items(d, id', key'))  BY <2>1, <2>2, BecomesIs
  <2>4. n \notin live /\ lastId' = lastId + 1  BY <1>4 DEF L!Add
  <2>5. L!S!Add(n, k)  BY <2>2, <2>3, <2>4 DEF L!S!Add
  <2> QED BY <2>1, <2>2, <2>5 DEF ListInv, L!S!Next
<1>5. ASSUME NEW i \in 1 .. Len(c), made, L!Unlink(i)
      PROVE  /\ ListInv' /\ lastId' = lastId
             /\ L!S!Becomes(Skip(L!Contents, i))
  <2> DEFINE d == Skip(c, i)
  <2>1. d \in Seq(ListNodes)  BY SkipIs
  <2>2. ListOf(d)' /\ Items(d, id', key') = Skip(L!Contents, i) /\ lastId' = lastId
    BY <1>1, <1>2, <1>5, UnlinkSkips
  <2> HIDE DEF d
  <2>3. L!S!Becomes(Items(d, id', key'))  BY <2>1, <2>2, BecomesIs
  <2> QED BY <2>1, <2>2, <2>3 DEF ListInv
<1>6. ASSUME NEW k \in ListKeys, L!Delete(k)
      PROVE  ListInv' /\ [L!S!Next]_(L!S!seqVars)
  <2> DEFINE i == L!S!Place(L!Contents, k)
  <2>1. made /\ L!MetWith(k) # {} /\ L!Unlink(L!Min(L!MetWith(k)))
    BY <1>6 DEF L!Delete
  <2>2. L!Min(L!MetWith(k)) = i /\ i \in 1 .. Len(c) /\ L!S!Places(L!Contents, k) # {}
    BY <1>1, <1>2, <2>1, PlaceIs
  <2> HIDE DEF i
  <2>3. ListInv' /\ lastId' = lastId /\ L!S!Becomes(Skip(L!Contents, i))
    BY <1>5, <2>1, <2>2
  <2>4. L!S!RemoveAt(L!Contents, i) = Skip(L!Contents, i)
    BY <1>2, <2>2, RemoveSkips
  <2>5. L!S!Delete(k)  BY <2>2, <2>3, <2>4 DEF L!S!Delete, i
  <2> QED BY <2>3, <2>5 DEF L!S!Next
<1>7. CASE L!DeleteFirst
  <2>1. made /\ L!Met # {} /\ L!Unlink(1)  BY <1>7 DEF L!DeleteFirst
  <2>2. 1 \in 1 .. Len(c) /\ L!Contents # <<>>
    <3>1. L!Met = 1 .. Len(c)  BY <1>2 DEF Mapped
    <3> QED BY <1>2, <2>1, <3>1
  <2>3. ListInv' /\ lastId' = lastId /\ L!S!Becomes(Skip(L!Contents, 1))
    BY <1>5, <2>1, <2>2
  <2>4. Tail(L!Contents) = Skip(L!Contents, 1)  BY <1>2, <2>2, RemoveSkips
  <2>5. L!S!DeleteFirst  BY <2>2, <2>3, <2>4 DEF L!S!DeleteFirst
  <2> QED BY <2>3, <2>5 DEF L!S!Next
<1>8. CASE L!Free
  <2> DEFINE d == <<>>
  <2>1. ListOf(d)' /\ lastId' = 0 /\ d \in Seq(ListNodes)
    BY <1>1, <1>8, FreeLeavesNone
  <2>2. L!S!Becomes(Items(d, id', key'))  BY <2>1, BecomesIs
  <2>3. L!S!Free  BY <2>1, <2>2, NoItems DEF L!S!Free
  <2> QED BY <2>1, <2>3 DEF ListInv, L!S!Next
<1>9. CASE UNCHANGED L!listVars
  <2>1. ListOf(c)'  BY <1>1, <1>9 DEF L!listVars, L!fields, ListOf
  <2>2. Mapped(c)'  BY <2>1, MappedNext
  <2>3. L!Contents' = L!Contents /\ \A k : L!Found(k)' = L!Found(k)
    BY <1>2, <1>9, <2>2 DEF Mapped, L!listVars, L!fields
  <2>4. UNCHANGED L!S!seqVars  BY <1>9, <2>3 DEF L!S!seqVars, L!listVars
  <2> QED BY <2>1, <2>4 DEF ListInv
<1> QED BY <1>3, <1>4, <1>6, <1>7, <1>8, <1>9 DEF L!Next

\* However nodes are added, found and deleted in stun_list.c, its copies in
\* file_list.c, file_frame.c, file_pic.c and file_group.c and udpbase.c's lists
\* of sockets, the pointers are those of a sequence of the nodes in use, for
\* any number of places, keys and nodes added.
THEOREM ListIsSequenceHolds == MCSpec => ListIsSequence
<1>1. MCInit => ListInv /\ L!S!Init
  <2>1. L!Init => ListOf(<<>>) /\ L!S!Init  BY ListInit
  <2>2. <<>> \in Seq(ListNodes)  OBVIOUS
  <2> QED BY <2>1, <2>2 DEF MCInit, ListInv
<1>2. ListInv /\ [MCNext]_<<vars, lists>> => ListInv' /\ [L!S!Next]_(L!S!seqVars)
  <2>1. [MCNext]_<<vars, lists>> => [L!Next]_(L!listVars)
    BY DEF MCNext, lists, L!listVars, L!fields
  <2> QED BY <2>1, ListStep
<1> QED BY <1>1, <1>2, PTL DEF MCSpec, ListIsSequence, L!IsSequence, L!S!Spec
=============================================================================
