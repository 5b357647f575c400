----------------------------- MODULE RelayProofs -----------------------------
(***************************************************************************)
(* Safety of the relay server's broadcaster, of Relay: its types, what it  *)
(* may meet on the list while the other thread changes it, and whom it has *)
(* told of what when it gives up a session that was closed.                *)
(***************************************************************************)
EXTENDS Relay, FiniteSetTheorems, SequenceTheorems, WellFoundedInduction, TLAPS

Entry == [status : {-1, 0, 1}, fresh : BOOLEAN, life : BOOLEAN]

\* Nodes are told of a death no more often than of the life.
Tellable(nodes) ==
  /\ nodes \in [NodeIds -> Nodes]
  /\ \A n \in NodeIds, i \in Sessions : nodes[n].dead[i] <= nodes[n].live[i]

Types == /\ sess \in [Sessions -> Entry] /\ Tellable(node)
         /\ idx \in 0 .. MaxSessions /\ regs \in 0 .. MaxNodes
         /\ blist \in Seq(1 .. regs) /\ IsInjective(blist)
         /\ wild \in {"no", "empty", "touched", "walked"}
         /\ exited \subseteq Clients

Calls == [cmd : {"GetSessionId", "HeartBeat", "Ask", "Exit"}, addr : Clients,
          sid : Sessions \cup {0}, p : 0 .. MaxNodes]

\* A handler that has looked its client up; only one advances session_idx.
CallInv == call # NoCall => /\ call \in Calls
                            /\ call.cmd = "GetSessionId" => idx < MaxSessions

\* x is before y on the list l.
Before(l, x, y) == \E i, j \in 1 .. Len(l) : i < j /\ l[i] = x /\ l[j] = y

\* A node that is on the list, or was deleted with its client's kExit.
Sound(n) == Listed(n) \/ node[n].addr \in exited

\* The broadcaster is at a sound node, goes on with one, and has it behind the
\* one it deletes.
Walker ==
  /\ bpc \in {"pick", "walk", "delete", "end"}
  /\ bi \in 0 .. idx /\ bst \in {-1, 0, 1} /\ balive \in BOOLEAN
  /\ bq \in 0 .. regs /\ bold \in 0 .. regs
  /\ bpc # "pick" => bi < idx
  /\ bpc = "walk" => bq # NoNode /\ Sound(bq)
  /\ bpc = "delete" =>
       /\ bold # NoNode /\ Sound(bold)
       /\ bq # NoNode => /\ Sound(bq)
                         /\ Listed(bold) /\ Listed(bq) => Before(blist, bold, bq)

IInv == Types /\ CallInv /\ Walker /\ WalkerSafe

-----------------------------------------------------------------------------
(* Lists. *)

\* A set of natural numbers that is not empty has a least element.
LEMMA LeastNatural ==
  ASSUME NEW T \in SUBSET Nat, T # {}
  PROVE  \E x \in T : \A y \in T : x <= y
<1> DEFINE R == {ss \in Nat \X Nat : ss[1] < ss[2]}
<1>1. IsWellFoundedOn(R, Nat)  BY NatLessThanWellFounded DEF OpToRel
<1> HIDE DEF R
<1>2. \E x \in T : \A y \in T : <<y, x>> \notin R  BY <1>1, WFMin
<1>3. \A x, y \in Nat : <<y, x>> \notin R => ~(y < x)  BY DEF R
<1>4. \A x, y \in Nat : ~(y < x) => x <= y  OBVIOUS
<1> QED BY <1>2, <1>3, <1>4

LEMMA MinIsLeast ==
  ASSUME NEW T \in SUBSET Nat, T # {}
  PROVE  Min(T) \in T /\ \A x \in T : Min(T) <= x
BY LeastNatural, Zenon DEF Min

\* FindPos is the first place of the address on the list, if it has one.
LEMMA FirstPlace ==
  ASSUME NEW c, blist \in Seq(1 .. regs)
  PROVE  /\ FindPos(c) \in 0 .. Len(blist)
         /\ FindPos(c) # 0 => node[blist[FindPos(c)]].addr = c
         /\ \A j \in 1 .. Len(blist) : node[blist[j]].addr = c =>
              FindPos(c) # 0 /\ FindPos(c) <= j
<1> DEFINE T == {j \in 1 .. Len(blist) : node[blist[j]].addr = c}
<1>1. FindPos(c) = IF T # {} THEN Min(T) ELSE 0
  BY DEF FindPos, SelectInSeq
<1>2. T \in SUBSET Nat /\ Len(blist) \in Nat  OBVIOUS
<1>3. CASE T = {}
  <2>1. FindPos(c) = 0  BY <1>1, <1>3
  <2>2. \A x \in 1 .. Len(blist) : node[blist[x]].addr # c  BY <1>3
  <2> HIDE DEF T
  <2> QED BY <1>2, <2>1, <2>2
<1>4. CASE T # {}
  <2>1. Min(T) \in T /\ \A x \in T : Min(T) <= x
    BY <1>2, <1>4, MinIsLeast
  <2>2. FindPos(c) = Min(T)  BY <1>1, <1>4
  <2>3. FindPos(c) \in T /\ \A x \in T : FindPos(c) <= x  BY <2>1, <2>2
  <2>4. FindPos(c) \in 1 .. Len(blist) /\ node[blist[FindPos(c)]].addr = c
    BY <2>3
  <2> QED BY <1>2, <2>3, <2>4
<1> QED BY <1>3, <1>4

\* t is s without its element e.
OneGone(s, t, e) ==
  /\ IsInjective(t) /\ Range(t) = Range(s) \ {e}
  /\ \A x, y \in Range(t) : Before(s, x, y) => Before(t, x, y)

LEMMA RemoveAtShape ==
  ASSUME NEW S, NEW s \in Seq(S), NEW i \in 1 .. Len(s)
  PROVE  /\ RemoveAt(s, i) \in Seq(S) /\ Len(RemoveAt(s, i)) = Len(s) - 1
         /\ \A j \in 1 .. Len(s) - 1 :
              RemoveAt(s, i)[j] = IF j < i THEN s[j] ELSE s[j + 1]
<1> DEFINE p == SubSeq(s, 1, i - 1)
           q == SubSeq(s, i + 1, Len(s))
<1>1. Len(s) \in Nat /\ i \in Nat /\ \A j \in 1 .. Len(s) : s[j] \in S
  BY ElementOfSeq, LenProperties
<1>2. p \in Seq(S) /\ Len(p) = i - 1 /\ \A j \in 1 .. i - 1 : p[j] = s[j]
  BY <1>1, SubSeqProperties
<1>3. /\ q \in Seq(S) /\ Len(q) = Len(s) - i
      /\ \A j \in 1 .. Len(s) - i : q[j] = s[i + j]
  BY <1>1, SubSeqProperties
<1> HIDE DEF p, q
<1>4. /\ p \o q \in Seq(S) /\ Len(p \o q) = Len(p) + Len(q)
      /\ \A j \in 1 .. Len(p) + Len(q) :
           (p \o q)[j] = IF j <= Len(p) THEN p[j] ELSE q[j - Len(p)]
  BY <1>2, <1>3, ConcatProperties, Zenon
<1>5. RemoveAt(s, i) = p \o q  BY DEF RemoveAt, p, q
<1>6. Len(p \o q) = Len(s) - 1  BY <1>1, <1>2, <1>3, <1>4
<1>7. ASSUME NEW j \in 1 .. Len(s) - 1
      PROVE  (p \o q)[j] = IF j < i THEN s[j] ELSE s[j + 1]
  <2>1. (p \o q)[j] = IF j <= i - 1 THEN p[j] ELSE q[j - (i - 1)]
    BY <1>1, <1>2, <1>3, <1>4
  <2>2. CASE j < i  BY <1>1, <1>2, <2>1, <2>2
  <2>3. CASE ~(j < i)
    <3>1. j - (i - 1) \in 1 .. Len(s) - i /\ i + (j - (i - 1)) = j + 1
      BY <1>1, <2>3
    <3>2. q[j - (i - 1)] = s[i + (j - (i - 1))]  BY <1>3, <3>1
    <3>3. ~(j <= i - 1)  BY <1>1, <2>3
    <3> QED BY <2>1, <2>3, <3>1, <3>2, <3>3
  <2> QED BY <2>2, <2>3
<1> QED BY <1>4, <1>5, <1>6, <1>7

LEMMA RemoveAtGone ==
  ASSUME NEW S, NEW s \in Seq(S), IsInjective(s), NEW i \in 1 .. Len(s)
  PROVE  OneGone(s, RemoveAt(s, i), s[i])
<1> DEFINE t == RemoveAt(s, i)
           old(j) == IF j < i THEN j ELSE j + 1
           new(j) == IF j < i THEN j ELSE j - 1
<1>1. /\ Len(s) \in Nat /\ i \in Nat /\ t \in Seq(S) /\ Len(t) = Len(s) - 1
      /\ \A j \in 1 .. Len(t) : t[j] = s[old(j)]
  <2>1. Len(s) \in Nat  BY LenProperties
  <2>2. /\ t \in Seq(S) /\ Len(t) = Len(s) - 1
        /\ \A j \in 1 .. Len(s) - 1 : t[j] = IF j < i THEN s[j] ELSE s[j + 1]
    BY RemoveAtShape
  <2> HIDE DEF t
  <2> QED BY <2>1, <2>2
<1>2. DOMAIN s = 1 .. Len(s) /\ DOMAIN t = 1 .. Len(t)  BY <1>1, LenProperties
<1> HIDE DEF t
<1>3. \A j \in 1 .. Len(t) : old(j) \in 1 .. Len(s) /\ old(j) # i  BY <1>1
<1>4. \A j \in 1 .. Len(s) : j # i => new(j) \in 1 .. Len(t) /\ old(new(j)) = j
  BY <1>1
<1>5. \A j, k \in 1 .. Len(s) : j < k /\ j # i /\ k # i => new(j) < new(k)
  BY <1>1
<1>6. \A j, k \in 1 .. Len(t) : old(j) = old(k) => j = k  BY <1>1
<1>7. \A j \in 1 .. Len(s) : j # i => t[new(j)] = s[j]  BY <1>1, <1>4
<1> HIDE DEF old, new
<1>8. IsInjective(t)
  <2>1. \A j, k \in 1 .. Len(t) : s[old(j)] = s[old(k)] => old(j) = old(k)
    BY <1>2, <1>3 DEF IsInjective
  <2> QED BY <1>1, <1>2, <1>6, <2>1, SMTT(30) DEF IsInjective
<1>9. \A j \in 1 .. Len(s) : s[j] = s[i] => j = i  BY <1>2 DEF IsInjective
<1>10. \A x \in Range(t) : x \in Range(s) /\ x # s[i]
  BY <1>1, <1>2, <1>3, <1>9 DEF Range
<1>11. \A x \in Range(s) : x # s[i] => x \in Range(t)
  BY <1>2, <1>4, <1>7 DEF Range
<1>12. ASSUME NEW x \in Range(t), NEW y \in Range(t), Before(s, x, y)
       PROVE  Before(t, x, y)
  <2>1. PICK j, k \in 1 .. Len(s) : j < k /\ s[j] = x /\ s[k] = y
    BY <1>12 DEF Before
  <2>2. j # i /\ k # i  BY <1>10, <2>1
  <2> QED BY <1>4, <1>5, <1>7, <2>1, <2>2 DEF Before
<1> QED BY <1>8, <1>10, <1>11, <1>12 DEF OneGone, t

\* The same nodes, but for their times.
SameNodes(nodes) ==
  \A n \in NodeIds : /\ nodes[n].addr = node[n].addr
                     /\ nodes[n].live = node[n].live
                     /\ nodes[n].dead = node[n].dead

\* What a deletion does: a node of the client leaves the list, if there is one,
\* and it is not behind another node of the client.
Removal(c) ==
  /\ Tellable(node') /\ \A n \in NodeIds : node'[n].addr = node[n].addr
  /\ \A n \in Range(blist') : /\ node'[n].live = node[n].live
                               /\ node'[n].dead = node[n].dead
  /\ \A n \in NodeIds, i \in Sessions : node'[n].dead[i] > 0 => node[n].dead[i] > 0
  /\ blist' \in Seq(1 .. regs) /\ IsInjective(blist')
  /\ Range(blist') \subseteq Range(blist)
  /\ \A n \in Range(blist) : n \notin Range(blist') => node[n].addr = c
  /\ \A x, y \in Range(blist') : Before(blist, x, y) => Before(blist', x, y)
  /\ \A x, y : Before(blist, x, y) /\ node[x].addr = c => y \in Range(blist')
  /\ \A y \in Range(blist') : node[y].addr = c =>
       \E x \in Range(blist) : Before(blist, x, y) /\ node[x].addr = c

LEMMA DeleteRemoves ==
  ASSUME Types, NEW c \in Clients, NEW nodes, Tellable(nodes), SameNodes(nodes),
         Delete(nodes, c)
  PROVE  Removal(c)
<1> DEFINE pos == FindPos(c)
<1>1. /\ blist \in Seq(1 .. regs) /\ IsInjective(blist)
      /\ Len(blist) \in Nat /\ DOMAIN blist = 1 .. Len(blist)
      /\ \A j \in 1 .. Len(blist) : blist[j] \in 1 .. regs
      /\ 1 .. regs \subseteq NodeIds
  <2>1. blist \in Seq(1 .. regs) /\ IsInjective(blist)  BY DEF Types
  <2>2. 1 .. regs \subseteq NodeIds  BY RelayAssumption DEF Types, NodeIds
  <2> QED BY <2>1, <2>2, LenProperties, ElementOfSeq
<1>2. /\ pos \in 0 .. Len(blist)
      /\ pos # 0 => node[blist[pos]].addr = c
      /\ \A j \in 1 .. Len(blist) : node[blist[j]].addr = c => pos # 0 /\ pos <= j
  BY <1>1, FirstPlace
<1>3. /\ blist' = IF pos = 0 THEN blist ELSE RemoveAt(blist, pos)
      /\ node' = IF pos = 0 THEN nodes
                 ELSE [nodes EXCEPT ![blist[pos]] = NewNode(c)]
  BY DEF Delete, FindNode
<1> HIDE DEF pos
<1>4. /\ Tellable(node') /\ \A n \in NodeIds : node'[n].addr = node[n].addr
      /\ \A n \in NodeIds, i \in Sessions : node'[n].dead[i] > 0 => node[n].dead[i] > 0
      /\ \A n \in NodeIds : pos = 0 \/ n # blist[pos] =>
           node'[n].live = node[n].live /\ node'[n].dead = node[n].dead
  <2>1. CASE pos = 0  BY <1>3, <2>1 DEF SameNodes
  <2>2. CASE pos # 0
    <3>1. NewNode(c) \in Nodes /\ NewNode(c).addr = c
      BY BroadcastAssumption DEF NewNode, Nodes
    <3>2. \A i \in Sessions : /\ NewNode(c).dead[i] <= NewNode(c).live[i]
                              /\ ~(NewNode(c).dead[i] > 0)
      BY DEF NewNode
    <3>3. blist[pos] \in NodeIds  BY <1>1, <1>2, <2>2
    <3>4. node' = [nodes EXCEPT ![blist[pos]] = NewNode(c)]  BY <1>3, <2>2
    <3>5. \A n \in NodeIds : node'[n] = IF n = blist[pos] THEN NewNode(c) ELSE nodes[n]
      BY <3>4 DEF Tellable
    <3>6. Tellable(node')  BY <3>1, <3>2, <3>3, <3>4 DEF Tellable
    <3> QED BY <1>2, <2>2, <3>1, <3>2, <3>5, <3>6 DEF SameNodes
  <2> QED BY <2>1, <2>2
<1>5. CASE pos = 0
  <2>1. \A j \in 1 .. Len(blist) : node[blist[j]].addr # c  BY <1>2, <1>5
  <2>2. \A x, y : Before(blist, x, y) => node[x].addr # c  BY <2>1 DEF Before
  <2>3. \A x \in Range(blist) : node[x].addr # c /\ x \in NodeIds
    BY <1>1, <2>1 DEF Range
  <2> QED BY <1>1, <1>3, <1>4, <1>5, <2>2, <2>3 DEF Removal
<1>6. CASE pos # 0
  <2>1. pos \in 1 .. Len(blist)  BY <1>1, <1>2, <1>6
  <2>2. /\ blist' = RemoveAt(blist, pos) /\ blist' \in Seq(1 .. regs)
        /\ OneGone(blist, blist', blist[pos])
    BY <1>1, <1>3, <1>6, <2>1, RemoveAtShape, RemoveAtGone
  <2>3. ASSUME NEW x, NEW y, Before(blist, x, y), node[x].addr = c
        PROVE  y \in Range(blist')
    <3>1. PICK i, j \in 1 .. Len(blist) : i < j /\ blist[i] = x /\ blist[j] = y
      BY <2>3 DEF Before
    <3>2. pos <= i  BY <1>2, <2>3, <3>1
    <3>3. j # pos  BY <1>1, <2>1, <3>1, <3>2
    <3>4. y # blist[pos]  BY <1>1, <2>1, <3>1, <3>3 DEF IsInjective
    <3>5. y \in Range(blist)  BY <1>1, <3>1 DEF Range
    <3> QED BY <2>2, <3>4, <3>5 DEF OneGone
  <2>4. ASSUME NEW y \in Range(blist'), node[y].addr = c
        PROVE  \E x \in Range(blist) : Before(blist, x, y) /\ node[x].addr = c
    <3>1. PICK j \in 1 .. Len(blist) : blist[j] = y /\ y # blist[pos]
      BY <1>1, <2>2, <2>4 DEF OneGone, Range
    <3>2. pos <= j /\ pos # j  BY <1>2, <2>4, <3>1
    <3>3. pos < j  BY <2>1, <3>2
    <3>4. blist[pos] \in Range(blist)  BY <1>1, <2>1 DEF Range
    <3> QED BY <1>2, <1>6, <2>1, <3>1, <3>3, <3>4 DEF Before
  <2>5. \A n \in Range(blist') : n \in NodeIds /\ n # blist[pos]
    <3>1. Range(blist) \subseteq NodeIds  BY <1>1 DEF Range
    <3> QED BY <2>2, <3>1 DEF OneGone
  <2> QED BY <1>2, <1>4, <1>6, <2>2, <2>3, <2>4, <2>5 DEF Removal, OneGone
<1> QED BY <1>5, <1>6

\* The broadcaster stays sound when the other thread changes the list.
LEMMA WalkerStays ==
  ASSUME Types, Walker, UNCHANGED bcVars,
         idx' \in Nat, idx <= idx', regs' \in Nat, regs <= regs',
         exited \subseteq exited',
         \A n \in 1 .. regs : node'[n].addr = node[n].addr,
         \A n \in Range(blist) : n \notin Range(blist') => node[n].addr \in exited',
         \A x, y \in Range(blist') : Before(blist, x, y) => Before(blist', x, y),
         Range(blist') \cap 1 .. regs \subseteq Range(blist)
  PROVE  Walker'
<1>1. /\ idx \in Nat /\ regs \in Nat
      /\ \A n \in 0 .. regs : n # NoNode => n \in 1 .. regs
  BY RelayAssumption DEF Types, NoNode
<1>2. /\ bpc' \in {"pick", "walk", "delete", "end"}
      /\ bi' \in 0 .. idx' /\ bst' \in {-1, 0, 1} /\ balive' \in BOOLEAN
      /\ bq' \in 0 .. regs' /\ bold' \in 0 .. regs'
      /\ bpc' # "pick" => bi' < idx'
  BY <1>1 DEF Walker, bcVars
<1>3. \A n \in 1 .. regs : Sound(n) =>
        n \in Range(blist') \/ node'[n].addr \in exited'
  BY DEF Sound, Listed
<1>4. bpc = "walk" => bq # NoNode /\ Sound(bq)'
  BY <1>1, <1>3 DEF Walker, bcVars, Sound, Listed
<1>5. bpc = "delete" =>
        /\ bold # NoNode /\ Sound(bold)'
        /\ bq # NoNode => Sound(bq)'
  BY <1>1, <1>3 DEF Walker, bcVars, Sound, Listed
<1>6. bpc = "delete" /\ bq # NoNode /\ Listed(bold)' /\ Listed(bq)'
        => Before(blist', bold, bq)
  BY <1>1 DEF Walker, bcVars, Listed
<1>7. Before(blist', bold, bq) => Before(blist, bold, bq)'  BY DEF bcVars, Before
<1> QED BY <1>2, <1>4, <1>5, <1>6, <1>7 DEF Walker, bcVars, NoNode

-----------------------------------------------------------------------------
(* The commands. *)

LEMMA InitInv == Init => IInv
<1> SUFFICES ASSUME Init PROVE IInv  OBVIOUS
<1> DEFINE c == CHOOSE x \in Clients : TRUE
<1>1. c \in Clients  BY RelayAssumption
<1> HIDE DEF c
<1>2. NewNode(c) \in Nodes  BY <1>1, BroadcastAssumption DEF NewNode, Nodes
<1>3. node = [n \in NodeIds |-> NewNode(c)]  BY DEF Init, CmdInit, c
<1>4. Tellable(node)
  <2>1. \A i \in Sessions : NewNode(c).dead[i] <= NewNode(c).live[i]
    BY DEF NewNode
  <2> QED BY <1>2, <1>3, <2>1 DEF Tellable
<1>5. blist \in Seq(1 .. regs) /\ IsInjective(blist)
  BY DEF Init, CmdInit, IsInjective
<1>6. Types
  BY <1>4, <1>5, RelayAssumption DEF Init, CmdInit, Types, NoSession, Entry
<1>7. CallInv /\ WalkerSafe  BY DEF Init, CmdInit, CallInv, WalkerSafe
<1>8. Walker
  <2>1. 0 \in 0 .. 0  OBVIOUS
  <2>2. /\ bpc = "pick" /\ bi = 0 /\ bst = 0 /\ bq = 0 /\ bold = 0
        /\ balive = FALSE /\ idx = 0 /\ regs = 0
    BY DEF Init, CmdInit, NoNode
  <2> QED BY <2>1, <2>2, Zenon DEF Walker
<1> QED BY <1>6, <1>7, <1>8 DEF IInv

LEMMA BroadCastRegInv ==
  ASSUME IInv, NEW c \in Clients, BroadCastReg(c), UNCHANGED bcVars
  PROVE  IInv'
<1>1. /\ wild = "no" /\ wild' = wild /\ call' = call /\ idx' = idx
      /\ sess' = sess /\ exited' = exited
      /\ regs \in Nat /\ regs < MaxNodes /\ regs' = regs + 1
      /\ blist' = Append(blist, regs') /\ blist \in Seq(1 .. regs)
      /\ node' = [node EXCEPT ![regs'] = NewNode(c)] /\ idx \in Nat
  BY RelayAssumption DEF IInv, Types, BroadCastReg, Ready
<1>2. regs' \in NodeIds /\ \A n \in 1 .. regs : node'[n] = node[n]
  BY <1>1, RelayAssumption DEF IInv, Types, Tellable, NodeIds
<1>3. Tellable(node')
  <2>1. NewNode(c) \in Nodes  BY BroadcastAssumption DEF NewNode, Nodes
  <2>2. \A i \in Sessions : NewNode(c).dead[i] <= NewNode(c).live[i]
    BY DEF NewNode
  <2> QED BY <1>1, <1>2, <2>1, <2>2 DEF IInv, Types, Tellable
<1>4. /\ Len(blist) \in Nat /\ DOMAIN blist = 1 .. Len(blist)
      /\ \A j \in 1 .. Len(blist) : blist[j] \in 1 .. regs
  BY <1>1, LenProperties, ElementOfSeq
<1>5. /\ blist \in Seq(1 .. regs') /\ regs' \in 1 .. regs'
  <2>1. \A j \in 1 .. Len(blist) : blist[j] \in 1 .. regs'  BY <1>1, <1>4
  <2> QED BY <1>1, <1>4, <2>1
<1>6. /\ blist' \in Seq(1 .. regs') /\ DOMAIN blist' = 1 .. Len(blist')
      /\ Len(blist') = Len(blist) + 1 /\ blist'[Len(blist) + 1] = regs'
      /\ \A j \in 1 .. Len(blist) : blist'[j] = blist[j]
  BY <1>1, <1>5, AppendProperties, LenProperties
<1>7. IsInjective(blist')
  <2>1. \A j \in 1 .. Len(blist') : j = Len(blist) + 1 \/ j \in 1 .. Len(blist)
    BY <1>4, <1>6
  <2>2. \A j \in 1 .. Len(blist) : blist'[j] # regs'  BY <1>1, <1>4, <1>6
  <2> QED BY <1>4, <1>6, <2>1, <2>2 DEF IInv, Types, IsInjective
<1>8. Types'
  <2>1. regs' \in 0 .. MaxNodes  BY <1>1, RelayAssumption
  <2> QED BY <1>1, <1>3, <1>6, <1>7, <2>1 DEF IInv, Types
<1>9. Walker'
  <2>1. Range(blist) \subseteq Range(blist')
    BY <1>4, <1>6 DEF Range
  <2>2. \A x, y : Before(blist, x, y) => Before(blist', x, y)
    BY <1>4, <1>6 DEF Before
  <2>3. Range(blist') \cap 1 .. regs \subseteq Range(blist)
    <3>1. \A j \in 1 .. Len(blist') : j = Len(blist) + 1 \/ j \in 1 .. Len(blist)
      BY <1>4, <1>6
    <3> QED BY <1>1, <1>4, <1>6, <3>1 DEF Range
  <2>4. Types /\ Walker /\ regs <= regs' /\ regs' \in Nat
        /\ idx' \in Nat /\ idx <= idx'
    BY <1>1 DEF IInv
  <2> QED BY <1>1, <1>2, <2>1, <2>2, <2>3, <2>4, WalkerStays
<1> QED BY <1>1, <1>8, <1>9 DEF IInv, CallInv, WalkerSafe

\* Steps of the other thread that leave the list alone.
LEMMA SameListInv ==
  ASSUME IInv, UNCHANGED <<bcVars, blist, regs, exited, wild>>, wild = "no",
         Tellable(node'), \A n \in NodeIds : node'[n].addr = node[n].addr,
         sess' \in [Sessions -> Entry], idx' \in 0 .. MaxSessions, idx <= idx',
         CallInv'
  PROVE  IInv'
<1>1. Types'  BY DEF IInv, Types
<1>2. Types /\ Walker  BY DEF IInv
<1>3. /\ idx' \in Nat /\ regs' \in Nat /\ regs <= regs'
      /\ 1 .. regs \subseteq NodeIds
  BY RelayAssumption DEF IInv, Types, NodeIds
<1>4. Walker'  BY <1>2, <1>3, WalkerStays
<1>5. WalkerSafe'  BY DEF WalkerSafe
<1> QED BY <1>1, <1>4, <1>5 DEF IInv

LEMMA LookUpCalls ==
  ASSUME Types, NEW cmd \in {"GetSessionId", "HeartBeat", "Ask", "Exit"},
         NEW c \in Clients, NEW i \in Sessions \cup {0}, LookUp(cmd, c, i)
  PROVE  call' \in Calls /\ call'.cmd = cmd
<1>1. blist \in Seq(1 .. regs) /\ 0 .. regs \subseteq 0 .. MaxNodes
  BY RelayAssumption DEF Types
<1>2. FindPos(c) \in 0 .. Len(blist)  BY <1>1, FirstPlace
<1>3. FindNode(c) \in 0 .. regs
  <2>1. \A j \in 1 .. Len(blist) : blist[j] \in 1 .. regs
    BY <1>1, ElementOfSeq
  <2>2. Len(blist) \in Nat /\ regs \in Nat
    BY <1>1, LenProperties, RelayAssumption DEF Types
  <2> QED BY <1>2, <2>1, <2>2 DEF FindNode, NoNode
<1> QED BY <1>1, <1>3 DEF LookUp, Calls

LEMMA GetSessionIdInv ==
  ASSUME IInv, NEW c \in Clients, GetSessionId(c), UNCHANGED bcVars
  PROVE  IInv'
<1>1. /\ wild = "no" /\ idx < MaxSessions /\ LookUp("GetSessionId", c, idx)
      /\ UNCHANGED <<idx, blist, node, regs, wild, exited>>
  BY DEF GetSessionId, Ready
<1>2. idx \in Sessions /\ idx \in Nat  BY <1>1, RelayAssumption DEF IInv, Types, Sessions
<1>3. call' \in Calls  BY <1>1, <1>2, LookUpCalls DEF IInv
<1>4. CallInv'  BY <1>1, <1>3 DEF CallInv
<1>5. sess' \in [Sessions -> Entry]
  <2>1. \A life \in BOOLEAN : Opened(life) \in Entry  BY DEF Opened, Entry
  <2> QED BY <1>2, <2>1 DEF GetSessionId, IInv, Types
<1> QED BY <1>1, <1>2, <1>4, <1>5, SameListInv DEF IInv, Types

\* The other commands that look their client up.
LEMMA LookUpInv ==
  ASSUME IInv, wild = "no", UNCHANGED <<bcVars, idx, blist, node, regs, wild, exited>>,
         NEW cmd \in {"HeartBeat", "Ask", "Exit"}, NEW c \in Clients,
         NEW i \in Sessions \cup {0}, LookUp(cmd, c, i),
         sess' \in [Sessions -> Entry]
  PROVE  IInv'
<1>1. call' \in Calls /\ call'.cmd = cmd  BY LookUpCalls DEF IInv
<1>2. CallInv'  BY <1>1 DEF CallInv
<1>3. idx \in Nat  BY RelayAssumption DEF IInv, Types
<1> QED BY <1>2, <1>3, SameListInv DEF IInv, Types

LEMMA ClearedEntry ==
  ASSUME NEW i, sess \in [Sessions -> Entry],
         \E fresh \in BOOLEAN : sess' = [sess EXCEPT ![i] = Cleared(fresh)]
  PROVE  sess' \in [Sessions -> Entry]
<1>1. \A fresh \in BOOLEAN : Cleared(fresh) \in Entry  BY DEF Cleared, Entry
<1> QED BY <1>1

LEMMA HeartBeatInv ==
  ASSUME IInv, NEW c \in Clients, NEW i \in Sessions, HeartBeat(c, i),
         UNCHANGED bcVars
  PROVE  IInv'
BY LookUpInv DEF HeartBeat, Ready, IInv, Types

LEMMA AskInv ==
  ASSUME IInv, NEW c \in Clients, Ask(c), UNCHANGED bcVars
  PROVE  IInv'
BY LookUpInv DEF Ask, Ready, IInv, Types

LEMMA ExitInv ==
  ASSUME IInv, NEW c \in Clients, NEW i \in Sessions, Exit(c, i),
         UNCHANGED bcVars
  PROVE  IInv'
<1>1. sess' \in [Sessions -> Entry]  BY ClearedEntry DEF Exit, IInv, Types
<1> QED BY <1>1, LookUpInv DEF Exit, Ready

LEMMA SessionCloseInv ==
  ASSUME IInv, NEW i \in Sessions, SessionClose(i), UNCHANGED bcVars
  PROVE  IInv'
<1>1. sess' \in [Sessions -> Entry]
  BY ClearedEntry DEF SessionClose, IInv, Types
<1>2. idx \in Nat /\ CallInv'
  BY RelayAssumption DEF IInv, Types, CallInv, SessionClose
<1> QED BY <1>1, <1>2, SameListInv DEF SessionClose, Ready, IInv, Types

\* A kExit deletes a node of its client.
LEMMA RemovalInv ==
  ASSUME IInv, wild = "no", UNCHANGED <<bcVars, regs, wild>>, NEW c \in Clients,
         Removal(c), exited' = exited \cup {c}, sess' \in [Sessions -> Entry],
         idx' \in 0 .. MaxSessions, idx <= idx', CallInv'
  PROVE  IInv'
<1>1. Types'  BY DEF IInv, Types, Removal
<1>2. Types /\ Walker  BY DEF IInv
<1>3. /\ idx' \in Nat /\ regs' \in Nat /\ regs <= regs'
      /\ 1 .. regs \subseteq NodeIds
  BY RelayAssumption DEF IInv, Types, NodeIds
<1>4. Walker'  BY <1>2, <1>3, WalkerStays DEF Removal
<1>5. WalkerSafe'  BY DEF WalkerSafe
<1> QED BY <1>1, <1>4, <1>5 DEF IInv

LEMMA ExitOnlyInv ==
  ASSUME IInv, NEW c \in Clients, ExitOnly(c), UNCHANGED bcVars
  PROVE  IInv'
<1>1. Removal(c)  BY DeleteRemoves DEF ExitOnly, IInv, Types, SameNodes
<1>2. idx \in Nat /\ CallInv'
  BY RelayAssumption DEF IInv, Types, CallInv, ExitOnly
<1> QED BY <1>1, <1>2, RemovalInv DEF ExitOnly, Ready, IInv, Types

\* The node is touched, and with kExit the first node of the client deleted.
LEMMA FinishInv ==
  ASSUME IInv, Finish, UNCHANGED bcVars
  PROVE  IInv'
<1> DEFINE touched == IF call.p = NoNode THEN node
                      ELSE [node EXCEPT ![call.p].fresh = TRUE]
<1>1. Tellable(node) /\ call \in Calls /\ idx \in Nat
  BY RelayAssumption DEF IInv, Types, CallInv, Finish
<1>2. Tellable(touched) /\ SameNodes(touched)
  BY <1>1 DEF Tellable, Nodes, SameNodes
<1>3. sess' \in [Sessions -> Entry]  BY DEF Finish, IInv, Types, Entry
<1>4. idx' \in 0 .. MaxSessions /\ idx <= idx'
  <2>1. call.cmd = "GetSessionId" => idx < MaxSessions
    BY DEF Finish, IInv, CallInv
  <2>2. idx' = IF call.cmd = "GetSessionId" THEN idx + 1 ELSE idx  BY DEF Finish
  <2>3. idx \in 0 .. MaxSessions  BY DEF IInv, Types
  <2> QED BY <2>1, <2>2, <2>3, RelayAssumption
<1>5. CallInv'  BY DEF Finish, CallInv
<1>6. CASE call.cmd = "Exit"
  <2>1. call.addr \in Clients  BY <1>1 DEF Calls
  <2>2. Delete(touched, call.addr) /\ exited' = exited \cup {call.addr}
        /\ UNCHANGED <<regs, wild>> /\ wild = "no"
    BY <1>6 DEF Finish
  <2> HIDE DEF touched
  <2>3. Removal(call.addr)  BY <1>2, <2>1, <2>2, DeleteRemoves DEF IInv
  <2> QED BY <1>3, <1>4, <1>5, <2>1, <2>2, <2>3, RemovalInv
<1>7. CASE call.cmd # "Exit"
  <2>1. /\ node' = touched /\ UNCHANGED <<blist, exited, regs, wild>>
        /\ wild = "no"
    BY <1>7 DEF Finish
  <2> HIDE DEF touched
  <2> QED BY <1>2, <1>3, <1>4, <1>5, <2>1, SameListInv DEF SameNodes
<1> QED BY <1>6, <1>7

\* The program stops, and the broadcaster did not run into a freed node.
LEMMA CrashInv ==
  ASSUME IInv, UNCHANGED bcVars, NEW how \in {"empty", "touched"}, Crash(how)
  PROVE  IInv'
<1>1. Types'  BY DEF IInv, Types, Crash
<1>2. CallInv' /\ WalkerSafe'  BY DEF IInv, CallInv, WalkerSafe, Crash
<1>3. Walker'  BY DEF IInv, Walker, Crash, bcVars, Sound, Listed, Before
<1> QED BY <1>1, <1>2, <1>3 DEF IInv

LEMMA ProcessCmdInv ==
  ASSUME IInv, ProcessCmd, UNCHANGED bcVars
  PROVE  IInv'
<1>1. ASSUME FindInEmpty PROVE IInv'
  BY <1>1, CrashInv DEF FindInEmpty
<1> QED
  BY <1>1, BroadCastRegInv, GetSessionIdInv, AskInv, ExitOnlyInv, HeartBeatInv,
     ExitInv, SessionCloseInv DEF ProcessCmd

-----------------------------------------------------------------------------
(* The broadcaster. *)

\* Steps of the broadcaster that leave the list alone.
LEMMA BroadcasterInv ==
  ASSUME IInv, wild = "no",
         UNCHANGED <<idx, blist, regs, call, wild, exited>>,
         Tellable(node'), sess' \in [Sessions -> Entry], Walker'
  PROVE  IInv'
<1>1. Types'  BY DEF IInv, Types
<1> QED BY <1>1 DEF IInv, CallInv, WalkerSafe

\* What the broadcaster goes on with when it is at a listed node.
LEMMA NodeAfterListed ==
  ASSUME Types, NEW n, Listed(n)
  PROVE  /\ NodeAfter(n) \in 0 .. regs
         /\ NodeAfter(n) # NoNode =>
              Listed(NodeAfter(n)) /\ Before(blist, n, NodeAfter(n))
<1> DEFINE T == {j \in 1 .. Len(blist) : blist[j] = n}
           pos == SelectInSeq(blist, LAMBDA m : m = n)
<1>1. /\ blist \in Seq(1 .. regs) /\ Len(blist) \in Nat
      /\ DOMAIN blist = 1 .. Len(blist)
      /\ \A j \in 1 .. Len(blist) : blist[j] \in 1 .. regs
  BY LenProperties, ElementOfSeq DEF Types
<1>2. T # {} /\ T \in SUBSET Nat  BY <1>1 DEF Listed, Range
<1>3. pos = Min(T)  BY <1>2 DEF SelectInSeq
<1>4. Min(T) \in T  BY <1>2, MinIsLeast
<1>5. pos \in 1 .. Len(blist) /\ blist[pos] = n  BY <1>3, <1>4
<1>6. NodeAfter(n) = IF pos = Len(blist) THEN NoNode ELSE blist[pos + 1]
  BY DEF NodeAfter
<1> HIDE DEF pos
<1>7. CASE pos = Len(blist)
  BY <1>6, <1>7, RelayAssumption DEF NoNode, Types
<1>8. CASE pos # Len(blist)
  <2>1. pos + 1 \in 1 .. Len(blist) /\ pos < pos + 1
    <3>1. \A l \in Nat : \A i \in 1 .. l : i # l => i + 1 \in 1 .. l /\ i < i + 1
      OBVIOUS
    <3> QED BY <1>1, <1>5, <1>8, <3>1
  <2>2. NodeAfter(n) = blist[pos + 1]  BY <1>6, <1>8
  <2>3. NodeAfter(n) \in 1 .. regs /\ Listed(NodeAfter(n))
    BY <1>1, <2>1, <2>2 DEF Listed, Range
  <2>4. Before(blist, n, NodeAfter(n))  BY <1>5, <2>1, <2>2 DEF Before
  <2> QED BY <2>3, <2>4, RelayAssumption DEF Types
<1> QED BY <1>7, <1>8

LEMMA SkipInv ==
  ASSUME IInv, wild = "no", Skip
  PROVE  IInv'
<1>1. bi' \in 0 .. idx
  BY RelayAssumption DEF IInv, Types, Walker, Skip, FirstSession
<1>2. Walker'  BY <1>1 DEF IInv, Walker, Skip, cmdVars
<1> QED BY <1>2, BroadcasterInv DEF IInv, Types, Skip, cmdVars

LEMMA PickInv ==
  ASSUME IInv, wild = "no", Pick
  PROVE  IInv'
<1>1. bq' \in 0 .. regs /\ (bq' # NoNode => Listed(bq'))
  <2>1. CASE blist = <<>>
    BY <2>1, RelayAssumption DEF IInv, Types, Pick, NoNode
  <2>2. CASE blist # <<>>
    <3>1. blist \in Seq(1 .. regs) /\ Len(blist) \in Nat /\ 1 \in 1 .. Len(blist)
          /\ DOMAIN blist = 1 .. Len(blist)
      BY <2>2, EmptySeq, LenProperties DEF IInv, Types
    <3>2. blist[1] \in 1 .. regs /\ Listed(blist[1])
      BY <3>1, ElementOfSeq DEF Listed, Range
    <3>3. bq' = blist[1]  BY <2>2 DEF Pick
    <3> QED BY <3>2, <3>3, RelayAssumption DEF IInv, Types
  <2> QED BY <2>1, <2>2
<1>2. bst' \in {-1, 0, 1} /\ bi < idx
  <2>1. bi \in Sessions /\ bi < idx
    BY RelayAssumption DEF IInv, Types, Walker, Pick, Sessions
  <2> QED BY <2>1 DEF IInv, Types, Pick, Entry
<1>3. bpc' \in {"walk", "end"} /\ (bpc' = "walk" => bq' # NoNode)
  BY DEF Pick, At
<1>4. /\ UNCHANGED <<bi, bold, balive, sess, idx, blist, node, regs, call, wild, exited>>
  BY DEF Pick, cmdVars
<1>5. Walker'
  BY <1>1, <1>2, <1>3, <1>4 DEF IInv, Walker, Sound, Listed
<1> QED BY <1>4, <1>5, BroadcasterInv DEF IInv, Types

LEMMA TellInv ==
  ASSUME IInv, wild = "no", Tell
  PROVE  IInv'
<1>1. /\ bpc = "walk" /\ Listed(bq) /\ bi \in Sessions /\ bi < idx
      /\ bq \in NodeIds /\ Tellable(node)
      /\ UNCHANGED <<sess, idx, blist, regs, call, wild, exited, bi, bst, bold>>
      /\ bq' = NodeAfter(bq) /\ bpc' = At(bq')
  <2>1. bpc = "walk" /\ bq \in 1 .. regs /\ bi \in 0 .. idx /\ bi < idx
    BY RelayAssumption DEF Tell, IInv, Types, Walker, NoNode
  <2>2. bi \in Sessions /\ bq \in NodeIds
    BY <2>1, RelayAssumption DEF IInv, Types, Sessions, NodeIds
  <2> QED BY <2>1, <2>2 DEF Tell, IInv, Types
<1>2. Tellable(node') /\ balive' \in BOOLEAN
  <2>1. CASE Due(bq) /\ bst > 0
    <3>1. /\ node' = [node EXCEPT ![bq].live[bi] = @ + 1] /\ balive' = TRUE
          /\ node[bq].live[bi] < MaxTimes
      BY <2>1 DEF Tell, Due, LifeDue
    <3>2. node[bq].live[bi] + 1 \in 0 .. MaxTimes
      BY <1>1, <3>1, BroadcastAssumption DEF Tellable, Nodes
    <3>3. node' \in [NodeIds -> Nodes]
      BY <1>1, <3>1, <3>2 DEF Tellable, Nodes
    <3>4. ASSUME NEW n \in NodeIds, NEW i \in Sessions
          PROVE  node'[n].dead[i] <= node'[n].live[i]
      <4>1. /\ node[n].dead[i] \in Nat /\ node[n].live[i] \in Nat
            /\ node[n].dead[i] <= node[n].live[i]
        BY <1>1, BroadcastAssumption DEF Tellable, Nodes
      <4>2. /\ node'[n].dead[i] = node[n].dead[i]
            /\ node'[n].live[i] = IF n = bq /\ i = bi THEN node[n].live[i] + 1
                                  ELSE node[n].live[i]
        BY <1>1, <3>1 DEF Tellable, Nodes
      <4> QED BY <4>1, <4>2
    <3> QED BY <3>1, <3>3, <3>4 DEF Tellable
  <2>2. CASE Due(bq) /\ ~(bst > 0)
    <3>1. /\ node' = [node EXCEPT ![bq].dead[bi] = @ + 1] /\ balive' = TRUE
          /\ node[bq].dead[bi] < MaxTimes
          /\ node[bq].live[bi] > node[bq].dead[bi]
      BY <2>2 DEF Tell, Due, DeathDue
    <3>2. node[bq].dead[bi] + 1 \in 0 .. MaxTimes
      BY <1>1, <3>1, BroadcastAssumption DEF Tellable, Nodes
    <3>3. node' \in [NodeIds -> Nodes]
      BY <1>1, <3>1, <3>2 DEF Tellable, Nodes
    <3>4. ASSUME NEW n \in NodeIds, NEW i \in Sessions
          PROVE  node'[n].dead[i] <= node'[n].live[i]
      <4>1. /\ node[n].dead[i] \in Nat /\ node[n].live[i] \in Nat
            /\ node[n].dead[i] <= node[n].live[i]
        BY <1>1, BroadcastAssumption DEF Tellable, Nodes
      <4>2. /\ node'[n].live[i] = node[n].live[i]
            /\ node'[n].dead[i] = IF n = bq /\ i = bi THEN node[n].dead[i] + 1
                                  ELSE node[n].dead[i]
        BY <1>1, <3>1 DEF Tellable, Nodes
      <4> QED BY <3>1, <4>1, <4>2
    <3> QED BY <3>1, <3>3, <3>4 DEF Tellable
  <2>3. CASE ~Due(bq)
    BY <1>1, <2>3 DEF Tell, IInv, Walker
  <2> QED BY <2>1, <2>2, <2>3
<1>3. bq' \in 0 .. regs /\ (bq' # NoNode => Listed(bq'))
  BY <1>1, NodeAfterListed DEF IInv
<1>4. bpc' \in {"walk", "end"} /\ (bpc' = "walk" => bq' # NoNode)
  BY <1>1 DEF At
<1>5. Walker'
  BY <1>1, <1>2, <1>3, <1>4 DEF IInv, Walker, Sound, Listed
<1> QED BY <1>1, <1>2, <1>5, BroadcasterInv DEF IInv, Types

LEMMA FindDeadInv ==
  ASSUME IInv, wild = "no", FindDead
  PROVE  IInv'
<1>1. /\ bpc = "walk" /\ Listed(bq) /\ bq \in 1 .. regs /\ bi < idx /\ bq # NoNode
      /\ UNCHANGED <<sess, idx, blist, node, regs, call, wild, exited, bi, bst, balive>>
      /\ bold' = bq /\ bq' = NodeAfter(bq) /\ bpc' = "delete"
  BY RelayAssumption DEF FindDead, Onward, cmdVars, IInv, Types, Walker, NoNode
<1>2. /\ bq' \in 0 .. regs
      /\ bq' # NoNode => Listed(bq') /\ Before(blist, bold', bq')
  BY <1>1, NodeAfterListed DEF IInv
<1>3. Before(blist, bold', bq') => Before(blist, bold, bq)'
  BY <1>1 DEF Before
<1>4. bold' \in 0 .. regs  BY <1>1
<1>5. Walker'
  BY <1>1, <1>2, <1>3, <1>4 DEF IInv, Walker, Sound, Listed
<1> QED BY <1>1, <1>5, BroadcasterInv DEF IInv, Types

\* The node to go on with stays on the list: it is behind the one whose
\* client's first node is deleted.
LEMMA DeleteDeadInv ==
  ASSUME IInv, wild = "no", DeleteDead
  PROVE  IInv'
<1> DEFINE c == node[bold].addr
<1>1. /\ bpc = "delete" /\ Listed(bold) /\ Delete(node, c) /\ bi < idx
      /\ UNCHANGED <<sess, idx, regs, call, wild, exited, bi, bst, bq, balive>>
      /\ bold' = NoNode /\ bpc' = At(bq) /\ bold \in NodeIds
      /\ bq # NoNode => Sound(bq) /\ (Listed(bq) => Before(blist, bold, bq))
  BY RelayAssumption DEF DeleteDead, IInv, Types, Walker, NoNode, NodeIds
<1>2. c \in Clients /\ Tellable(node) /\ SameNodes(node)
  BY <1>1 DEF IInv, Types, Tellable, Nodes, SameNodes
<1>3. Removal(c)  BY <1>1, <1>2, DeleteRemoves DEF IInv
<1>4. bq # NoNode => bq \in Range(blist') \/ node'[bq].addr \in exited
  <2>1. bq # NoNode => bq \in NodeIds
    BY RelayAssumption DEF IInv, Types, Walker, NodeIds, NoNode
  <2> QED BY <1>1, <1>3, <2>1 DEF Removal, Sound, Listed
<1>5. Types'  BY <1>1, <1>3 DEF IInv, Types, Removal
<1>6. bpc' \in {"walk", "end"} /\ (bpc' = "walk" => bq # NoNode)
  BY <1>1 DEF At
<1>7. NoNode \in 0 .. regs  BY RelayAssumption DEF NoNode, IInv, Types
<1> HIDE DEF c
<1>8. Walker'
  BY <1>1, <1>4, <1>6, <1>7 DEF IInv, Walker, Sound, Listed
<1> QED BY <1>1, <1>5, <1>8 DEF IInv, CallInv, WalkerSafe

LEMMA EndSessionInv ==
  ASSUME IInv, wild = "no", EndSession
  PROVE  IInv'
<1>1. /\ bpc = "end" /\ bi < idx /\ bi \in 0 .. idx /\ idx \in Nat
      /\ UNCHANGED <<idx, blist, node, regs, call, wild, exited, bq, bold>>
      /\ bi' = bi + 1 /\ bpc' = "pick" /\ bst' = 0 /\ balive' = FALSE
  BY RelayAssumption DEF EndSession, IInv, Walker, Types
<1>2. sess' \in [Sessions -> Entry]
  <2>1. sess \in [Sessions -> Entry]  BY DEF IInv, Types
  <2>2. sess' = [sess EXCEPT ![bi].status = -1] \/ sess' = sess
    BY DEF EndSession
  <2>3. CASE bi \in Sessions
    <3>1. [sess[bi] EXCEPT !.status = -1] \in Entry  BY <2>1, <2>3 DEF Entry
    <3> QED BY <2>1, <2>2, <2>3, <3>1
  <2>4. CASE bi \notin Sessions
    <3>1. [sess EXCEPT ![bi].status = -1] = sess  BY <2>1, <2>4
    <3> QED BY <2>1, <2>2, <3>1
  <2> QED BY <2>3, <2>4
<1>3. bi' \in 0 .. idx'  BY <1>1
<1>4. Walker'  BY <1>1, <1>3, Zenon DEF IInv, Walker
<1> QED BY <1>1, <1>2, <1>4, BroadcasterInv DEF IInv, Types

\* The only freed node that the broadcaster meets is one of a client that left.
LEMMA WalkFreedInv ==
  ASSUME IInv, WalkFreed
  PROVE  IInv'
<1>1. /\ wild' = "walked" /\ UNCHANGED <<sess, idx, blist, regs, call, node, exited>>
      /\ UNCHANGED bcVars
  BY DEF WalkFreed, Crash
<1>2. Types' /\ CallInv'  BY <1>1 DEF IInv, Types, CallInv
<1>3. Walker'  BY <1>1 DEF IInv, Walker, bcVars, Sound, Listed, Before
<1>4. \/ bq # NoNode /\ ~Listed(bq) /\ node[bq].addr \in exited
      \/ bold # NoNode /\ ~Listed(bold) /\ node[bold].addr \in exited
  BY DEF WalkFreed, IInv, Walker, Sound
<1>5. WalkerSafe'  BY <1>1, <1>4 DEF WalkerSafe, bcVars, Listed, NoNode
<1> QED BY <1>2, <1>3, <1>5 DEF IInv

LEMMA AgeInv ==
  ASSUME IInv, Age
  PROVE  IInv'
<1>1. /\ wild = "no" /\ UNCHANGED <<idx, blist, regs, call, wild, exited, bcVars>>
      /\ idx \in Nat
  BY RelayAssumption DEF Age, IInv, Types
<1> DEFINE Aged == /\ Tellable(node') /\ sess' \in [Sessions -> Entry]
                   /\ \A n \in NodeIds : node'[n].addr = node[n].addr
<1>2. Aged
  <2>1. Tellable(node) /\ sess \in [Sessions -> Entry]  BY DEF IInv, Types
  <2>2. ASSUME NEW n \in NodeIds, node' = [node EXCEPT ![n].fresh = FALSE], sess' = sess
        PROVE  Aged
    BY <2>1, <2>2 DEF Tellable, Nodes
  <2>3. ASSUME NEW i \in Sessions, sess' = [sess EXCEPT ![i].fresh = FALSE], node' = node
        PROVE  Aged
    BY <2>1, <2>3 DEF Entry
  <2> QED BY <2>2, <2>3 DEF Age
<1>3. CallInv'  BY <1>1 DEF IInv, CallInv
<1> QED BY <1>1, <1>2, <1>3, SameListInv DEF IInv, Types

LEMMA NextInv == IInv /\ [Next]_vars => IInv'
<1> SUFFICES ASSUME IInv, [Next]_vars PROVE IInv'  OBVIOUS
<1>1. CASE ProcessCmd /\ UNCHANGED bcVars  BY <1>1, ProcessCmdInv
<1>2. CASE Finish /\ UNCHANGED bcVars  BY <1>2, FinishInv
<1>3. CASE TouchFreed /\ UNCHANGED bcVars  BY <1>3, CrashInv DEF TouchFreed
<1>4. CASE Broadcast
  BY <1>4, SkipInv, PickInv, TellInv, FindDeadInv, DeleteDeadInv, EndSessionInv,
     WalkFreedInv DEF Broadcast
<1>5. CASE Age  BY <1>5, AgeInv
<1>6. CASE UNCHANGED vars
  <2>1. Types' /\ CallInv'
    BY <1>6 DEF vars, cmdVars, IInv, Types, CallInv
  <2>2. Walker'
    BY <1>6 DEF vars, cmdVars, bcVars, IInv, Walker, Sound, Listed, Before
  <2>3. WalkerSafe'
    BY <1>6 DEF vars, cmdVars, bcVars, IInv, WalkerSafe, Listed
  <2> QED BY <2>1, <2>2, <2>3 DEF IInv
<1> QED BY <1>1, <1>2, <1>3, <1>4, <1>5, <1>6 DEF Next

\* The inductive invariant: types, what a handler has looked up, and that the
\* broadcaster is at nodes that are on the list or went with a kExit.
THEOREM RelayInvariant == Spec => []IInv
BY InitInv, NextInv, PTL DEF Spec

\* The variables have their types: in particular the list keeps every node
\* once, and no client is told more often than MAX_BROADCAST_TIMES.
THEOREM TypeCorrect == Spec => []TypeOK
<1>1. IInv => TypeOK
  <2> SUFFICES ASSUME IInv PROVE TypeOK  OBVIOUS
  <2>1. Range(blist) \subseteq 1 .. regs
    BY ElementOfSeq, LenProperties DEF IInv, Types, Range
  <2> QED BY <2>1 DEF IInv, Types, Tellable, Entry, TypeOK
<1> QED BY <1>1, RelayInvariant, PTL

\* However commands and deletions interleave, the broadcaster meets a freed
\* node only if a kExit deleted one of the same client.
THEOREM WalkerIsSafe == Spec => []WalkerSafe
<1>1. IInv => WalkerSafe  BY DEF IInv
<1> QED BY <1>1, RelayInvariant, PTL

-----------------------------------------------------------------------------
(* Who has been told.  Nodes are on the list in the order of their         *)
(* registration, and a deletion takes the first of its client.             *)

Ordered == \A j, k \in 1 .. Len(blist) : j < k => blist[j] < blist[k]

\* The node has been told of session i's life, or death.
Lives(n, i) == node[n].live[i] > 0
Mourns(n, i) == node[n].dead[i] > 0

Walking == bpc # "pick"

\* The broadcaster has the node behind it.
Passed(n) == \/ bpc = "walk" /\ n < bq
             \/ bpc = "delete" /\ n < bold
             \/ bpc = "end"

\* Two nodes on the list of one client, the first that it registered and another.
Pair(m, n) == /\ Listed(m) /\ Listed(n) /\ m < n
              /\ node[m].addr = node[n].addr /\ Earlier(m) = {}

\* Nobody is told of the death of a session that lives.
NoDeathInLife ==
  \A n \in NodeIds, i \in Sessions :
    i >= idx \/ sess[i].status = 1 \/ (Walking /\ bi = i /\ bst > 0) =>
      ~Mourns(n, i)

SeenClosed == Walking /\ bst <= 0 => bst = 0 /\ sess[bi].status # 1

NothingBetween ==
  bpc = "delete" =>
    \A n \in Range(blist) : n > bold =>
      IF bq = NoNode THEN \A i \in Sessions : ~Lives(n, i) ELSE n >= bq

FirstIsToldLife ==
  bpc \in {"walk", "delete"} /\ bst > 0 =>
    \A n \in Range(blist) : Passed(n) /\ Earlier(n) = {} => Lives(n, bi)

FirstHeardOfLife ==
  \A m, n \in NodeIds, i \in Sessions : Pair(m, n) /\ Lives(n, i) => Lives(m, i)

SecondHearsOfDeath ==
  \A m, n \in NodeIds, i \in Sessions :
    Pair(m, n) /\ Mourns(m, i) /\ Lives(n, i) /\ ~Mourns(n, i) =>
      Walking /\ bi = i /\ bst = 0 /\ balive /\ ~Passed(n)

PassedIsTold ==
  Walking /\ bst = 0 /\ ~balive =>
    \A n \in Range(blist) :
      Passed(n) /\ (\A k, l \in Earlier(n) : k = l) /\ Lives(n, bi) => Mourns(n, bi)

ToldInv == /\ Ordered /\ NoDeathInLife /\ SeenClosed /\ NothingBetween
           /\ FirstIsToldLife /\ FirstHeardOfLife /\ SecondHearsOfDeath
           /\ PassedIsTold

-----------------------------------------------------------------------------
(* The list in order. *)

LEMMA Basics ==
  ASSUME Types
  PROVE  /\ idx \in Nat /\ regs \in Nat /\ NodeIds \subseteq Nat \ {0}
         /\ 1 .. regs \subseteq NodeIds /\ Range(blist) \subseteq 1 .. regs
         /\ \A n \in NodeIds, i \in Sessions :
              /\ node[n].live[i] \in Nat /\ node[n].dead[i] \in Nat
              /\ node[n].dead[i] <= node[n].live[i]
<1>1. /\ idx \in Nat /\ regs \in Nat /\ 1 .. regs \subseteq NodeIds
      /\ NodeIds \subseteq Nat \ {0}
  BY RelayAssumption DEF Types, NodeIds
<1>2. Range(blist) \subseteq 1 .. regs
  BY ElementOfSeq, LenProperties DEF Types, Range
<1>3. ASSUME NEW n \in NodeIds, NEW i \in Sessions
      PROVE  /\ node[n].live[i] \in Nat /\ node[n].dead[i] \in Nat
             /\ node[n].dead[i] <= node[n].live[i]
  BY BroadcastAssumption DEF Types, Tellable, Nodes
<1> QED BY <1>1, <1>2, <1>3

LEMMA OrderIsBefore ==
  ASSUME Types, Ordered
  PROVE  /\ \A x, y : Before(blist, x, y) => x < y
         /\ \A x, y \in Range(blist) : x < y => Before(blist, x, y)
<1>1. Len(blist) \in Nat /\ DOMAIN blist = 1 .. Len(blist)
  BY LenProperties DEF Types
<1>2. \A x, y : Before(blist, x, y) => x < y  BY DEF Before, Ordered
<1>3. ASSUME NEW x \in Range(blist), NEW y \in Range(blist), x < y
      PROVE  Before(blist, x, y)
  <2>1. PICK i, j \in 1 .. Len(blist) : blist[i] = x /\ blist[j] = y
    BY <1>1 DEF Range
  <2>2. x \in Nat /\ y \in Nat  BY Basics
  <2>3. ~(j < i) /\ j # i  BY <1>3, <2>1, <2>2 DEF Ordered
  <2> QED BY <2>1, <2>3 DEF Before
<1> QED BY <1>2, <1>3

LEMMA RemovalKeepsOrder ==
  ASSUME Types, Types', Ordered, NEW c, Removal(c)
  PROVE  Ordered'
<1>1. /\ Len(blist') \in Nat /\ DOMAIN blist' = 1 .. Len(blist')
      /\ IsInjective(blist')
  BY LenProperties DEF Types
<1> SUFFICES ASSUME NEW j \in 1 .. Len(blist'), NEW k \in 1 .. Len(blist'), j < k
             PROVE  blist'[j] < blist'[k]
  BY DEF Ordered
<1>2. blist'[j] \in Range(blist') /\ blist'[k] \in Range(blist')
  BY <1>1 DEF Range
<1>3. blist'[j] \in Nat /\ blist'[k] \in Nat
  BY <1>2, Basics DEF Removal
<1>4. blist'[j] # blist'[k]  BY <1>1 DEF IsInjective
<1>5. ASSUME blist'[k] < blist'[j] PROVE FALSE
  <2>1. Before(blist', blist'[k], blist'[j])
    BY <1>2, <1>5, OrderIsBefore DEF Removal
  <2>2. PICK p, q \in 1 .. Len(blist') :
          p < q /\ blist'[p] = blist'[k] /\ blist'[q] = blist'[j]
    BY <2>1 DEF Before
  <2>3. p = k /\ q = j  BY <1>1, <2>2 DEF IsInjective
  <2> QED BY <2>2, <2>3
<1> QED BY <1>3, <1>4, <1>5

\* A deletion leaves only nodes of the client that have an earlier one.
LEMMA RemovalTakesFirst ==
  ASSUME Types, Ordered, NEW c, Removal(c), NEW n \in Range(blist'),
         node[n].addr = c
  PROVE  \E m \in Range(blist) : /\ m \in Earlier(n) /\ m \notin Range(blist')
<1>1. PICK m \in Range(blist) : /\ Before(blist, m, n) /\ node[m].addr = c
                               /\ m \notin Range(blist')
  <2> DEFINE T == {m \in Range(blist) : node[m].addr = c}
  <2>1. T \subseteq Nat /\ n \in T  BY Basics DEF Removal
  <2>2. PICK m \in T : \A k \in T : m <= k  BY <2>1, LeastNatural
  <2>3. ~ \E k \in T : k < m  BY <2>1, <2>2
  <2>4. m \notin Range(blist')
    BY <2>3, OrderIsBefore DEF Removal
  <2>5. m # n /\ m <= n /\ m \in Nat /\ n \in Nat  BY <2>1, <2>2, <2>4
  <2>6. Before(blist, m, n)  BY <2>1, <2>5, OrderIsBefore
  <2> QED BY <2>4, <2>6
<1>2. m < n /\ m \in 1 .. n - 1
  BY <1>1, OrderIsBefore, Basics DEF Removal
<1> QED BY <1>1, <1>2 DEF Earlier

\* NodeAfter is the least node on the list that is greater.
LEMMA NodeAfterIsNext ==
  ASSUME Types, Ordered, NEW n \in Range(blist)
  PROVE  /\ NodeAfter(n) # NoNode => n < NodeAfter(n)
         /\ \A m \in Range(blist) : n < m => NodeAfter(n) # NoNode /\ NodeAfter(n) <= m
<1> DEFINE T == {j \in 1 .. Len(blist) : blist[j] = n}
           pos == SelectInSeq(blist, LAMBDA m : m = n)
<1>1. /\ Len(blist) \in Nat /\ DOMAIN blist = 1 .. Len(blist)
      /\ \A j \in 1 .. Len(blist) : blist[j] \in Nat \ {0}
  BY LenProperties, ElementOfSeq, RelayAssumption DEF Types
<1>2. T # {} /\ T \in SUBSET Nat  BY <1>1 DEF Range
<1>3. pos = Min(T)  BY <1>2 DEF SelectInSeq
<1>4. Min(T) \in T  BY <1>2, MinIsLeast
<1>5. pos \in 1 .. Len(blist) /\ blist[pos] = n  BY <1>3, <1>4
<1>6. NodeAfter(n) = IF pos = Len(blist) THEN NoNode ELSE blist[pos + 1]
  BY DEF NodeAfter
<1> HIDE DEF pos
<1>7. \A l \in Nat : \A i \in 1 .. l : i # l => i + 1 \in 1 .. l /\ i < i + 1
  OBVIOUS
<1>8. NodeAfter(n) # NoNode => n < NodeAfter(n)
  <2>1. pos # Len(blist) => pos + 1 \in 1 .. Len(blist) /\ pos < pos + 1
    BY <1>1, <1>5, <1>7
  <2> QED BY <1>1, <1>5, <1>6, <2>1 DEF Ordered, NoNode
<1>9. ASSUME NEW m \in Range(blist), n < m
      PROVE  NodeAfter(n) # NoNode /\ NodeAfter(n) <= m
  <2>1. PICK j \in 1 .. Len(blist) : blist[j] = m  BY <1>1 DEF Range
  <2>2. pos < j
    <3>1. ~(j < pos) /\ j # pos  BY <1>1, <1>5, <1>9, <2>1 DEF Ordered
    <3> QED BY <1>5, <3>1
  <2>3. pos # Len(blist) /\ pos + 1 \in 1 .. Len(blist)
    <3>1. pos # Len(blist)  BY <1>1, <2>2
    <3> QED BY <1>1, <1>5, <1>7, <3>1
  <2>4. NodeAfter(n) = blist[pos + 1]  BY <1>6, <2>3
  <2>5. CASE j = pos + 1  BY <1>1, <2>1, <2>3, <2>4, <2>5 DEF NoNode
  <2>6. CASE j # pos + 1
    <3>1. pos + 1 < j  BY <1>5, <2>2, <2>6
    <3>2. blist[pos + 1] < blist[j]  BY <2>3, <3>1 DEF Ordered
    <3> QED BY <1>1, <2>1, <2>3, <2>4, <3>2 DEF NoNode
  <2> QED BY <2>5, <2>6
<1> QED BY <1>8, <1>9

-----------------------------------------------------------------------------
(* The other thread. *)

\* A step that is none of the broadcaster's: nodes leave the list, or one comes
\* that was told of nothing, and no session lives that did not.
Frame ==
  /\ UNCHANGED bcVars /\ Ordered' /\ idx <= idx'
  /\ \A n \in 1 .. regs : node'[n].addr = node[n].addr
  /\ \A n \in Range(blist') :
       \/ /\ n \in Range(blist)
          /\ node'[n].live = node[n].live /\ node'[n].dead = node[n].dead
       \/ n > regs /\ \A i \in Sessions : ~(node'[n].live[i] > 0)
  /\ \A n \in NodeIds, i \in Sessions : node'[n].dead[i] > 0 => node[n].dead[i] > 0
  /\ \A i \in Sessions : sess'[i].status = 1 => sess[i].status = 1 \/ i >= idx

LEMMA SameEarlier ==
  ASSUME Types, \A n \in 1 .. regs : node'[n].addr = node[n].addr,
         NEW n \in Range(blist)
  PROVE  Earlier(n)' = Earlier(n)
<1>1. n \in 1 .. regs /\ 1 .. n - 1 \subseteq 1 .. regs  BY Basics
<1> QED BY <1>1 DEF Earlier

LEMMA FrameTold ==
  ASSUME IInv, IInv', ToldInv, Frame
  PROVE  ToldInv'
<1>1. bpc' = bpc /\ bi' = bi /\ bst' = bst /\ bq' = bq /\ bold' = bold
      /\ balive' = balive
  BY DEF Frame, bcVars
<1>2. /\ idx \in Nat /\ regs \in Nat /\ NodeIds \subseteq Nat \ {0}
      /\ 1 .. regs \subseteq NodeIds /\ Range(blist) \subseteq 1 .. regs
      /\ Sessions \subseteq Nat /\ idx' \in Nat
      /\ Walking => bi \in Sessions /\ bi < idx
      /\ \A n \in Range(blist') : n \in Nat
  <2>1. Sessions \subseteq Nat /\ (Walking => bi \in Sessions /\ bi < idx)
    BY RelayAssumption DEF IInv, Types, Walker, Walking, Sessions
  <2>2. idx' \in Nat  BY RelayAssumption DEF IInv, Types
  <2>3. \A n \in Range(blist') : n \in Nat
    BY <2>2, ElementOfSeq, LenProperties DEF IInv, Types, Range
  <2> QED BY <2>1, <2>2, <2>3, Basics DEF IInv
<1>3. \A n \in Range(blist') : ~(n > regs) =>
        /\ n \in Range(blist)
        /\ node'[n].live = node[n].live /\ node'[n].dead = node[n].dead
  BY DEF Frame
<1>4. \A n \in Range(blist') : n > regs =>
        \A i \in Sessions : ~(node'[n].live[i] > 0)
  BY <1>2 DEF Frame
<1>5. \A n \in Range(blist) : Earlier(n)' = Earlier(n)
  BY SameEarlier DEF IInv, Frame
<1>6. NoDeathInLife'
  <2> SUFFICES ASSUME NEW n \in NodeIds, NEW i \in Sessions, node'[n].dead[i] > 0
               PROVE  /\ ~(i >= idx') /\ sess'[i].status # 1
                      /\ ~(Walking /\ bi = i /\ bst > 0)
    BY <1>1 DEF NoDeathInLife, Mourns, Walking
  <2>1. node[n].dead[i] > 0  BY DEF Frame
  <2>2. ~(i >= idx) /\ sess[i].status # 1 /\ ~(Walking /\ bi = i /\ bst > 0)
    BY <2>1 DEF ToldInv, NoDeathInLife, Mourns
  <2>3. idx <= idx' /\ (sess'[i].status = 1 => sess[i].status = 1 \/ i >= idx)
    BY DEF Frame
  <2>4. ~(i >= idx')
    <3> QED BY <1>2, <2>2, <2>3
  <2> QED BY <2>2, <2>3, <2>4, Zenon
<1>7. SeenClosed'
  <2> SUFFICES ASSUME Walking, bst <= 0
               PROVE  bst = 0 /\ sess'[bi].status # 1
    BY <1>1 DEF SeenClosed, Walking
  <2>1. bst = 0 /\ sess[bi].status # 1  BY DEF ToldInv, SeenClosed
  <2>2. ~(bi >= idx)
    <3>1. bi \in Nat /\ idx \in Nat /\ bi < idx  BY <1>2
    <3> QED BY <3>1
  <2> QED BY <1>2, <2>1, <2>2 DEF Frame
<1>8. NothingBetween'
  <2> SUFFICES ASSUME bpc = "delete", NEW n \in Range(blist'), n > bold
               PROVE  IF bq = NoNode THEN \A i \in Sessions : ~(node'[n].live[i] > 0)
                                     ELSE n >= bq
    BY <1>1 DEF NothingBetween, Lives
  <2>1. CASE n > regs
    <3>1. bq \in 0 .. regs  BY DEF IInv, Walker
    <3>2. n >= bq  BY <1>2, <2>1, <3>1
    <3>3. \A i \in Sessions : ~(node'[n].live[i] > 0)  BY <1>4, <2>1
    <3> QED BY <3>2, <3>3, Zenon
  <2>2. CASE ~(n > regs)
    BY <1>3, <2>2 DEF ToldInv, NothingBetween, Lives
  <2> QED BY <2>1, <2>2
<1>9. FirstIsToldLife'
  <2> SUFFICES ASSUME bpc \in {"walk", "delete"}, bst > 0, NEW n \in Range(blist'),
                      Passed(n)', Earlier(n)' = {}
               PROVE  node'[n].live[bi] > 0
    BY <1>1 DEF FirstIsToldLife, Lives
  <2>1. Passed(n)  BY <1>1 DEF Passed
  <2>2. ~(n > regs)
    <3>1. bq \in 0 .. regs /\ bold \in 0 .. regs  BY DEF IInv, Walker
    <3> QED BY <1>2, <2>1, <3>1 DEF Passed
  <2> QED BY <1>3, <1>5, <2>1, <2>2 DEF ToldInv, FirstIsToldLife, Lives
<1>10. \A m, n \in NodeIds : Pair(m, n)' /\ ~(n > regs) =>
         /\ Pair(m, n)
         /\ node'[m].live = node[m].live /\ node'[m].dead = node[m].dead
         /\ node'[n].live = node[n].live /\ node'[n].dead = node[n].dead
  <2> SUFFICES ASSUME NEW m \in NodeIds, NEW n \in NodeIds, Pair(m, n)', ~(n > regs)
               PROVE  /\ Pair(m, n)
                      /\ node'[m].live = node[m].live /\ node'[m].dead = node[m].dead
                      /\ node'[n].live = node[n].live /\ node'[n].dead = node[n].dead
    OBVIOUS
  <2>1. /\ m \in Range(blist') /\ n \in Range(blist') /\ m < n
        /\ node'[m].addr = node'[n].addr /\ Earlier(m)' = {}
    BY DEF Pair, Listed
  <2>2. m \in Nat /\ n \in Nat /\ ~(m > regs)  BY <1>2, <2>1
  <2>3. m \in Range(blist) /\ n \in Range(blist)  BY <1>3, <2>1, <2>2
  <2> QED BY <1>2, <1>3, <1>5, <2>1, <2>2, <2>3 DEF Pair, Listed, Frame
<1>11. FirstHeardOfLife'
  <2> SUFFICES ASSUME NEW m \in NodeIds, NEW n \in NodeIds, NEW i \in Sessions,
                      Pair(m, n)', node'[n].live[i] > 0
               PROVE  node'[m].live[i] > 0
    BY DEF FirstHeardOfLife, Lives
  <2>1. ~(n > regs)  BY <1>4 DEF Pair, Listed
  <2> QED BY <1>10, <2>1 DEF ToldInv, FirstHeardOfLife, Lives
<1>12. SecondHearsOfDeath'
  <2> SUFFICES ASSUME NEW m \in NodeIds, NEW n \in NodeIds, NEW i \in Sessions,
                      Pair(m, n)', node'[m].dead[i] > 0, node'[n].live[i] > 0,
                      ~(node'[n].dead[i] > 0)
               PROVE  Walking /\ bi = i /\ bst = 0 /\ balive /\ ~Passed(n)
    BY <1>1 DEF SecondHearsOfDeath, Lives, Mourns, Walking, Passed
  <2>1. ~(n > regs)  BY <1>4 DEF Pair, Listed
  <2> QED BY <1>10, <2>1 DEF ToldInv, SecondHearsOfDeath, Lives, Mourns
<1>13. PassedIsTold'
  <2> SUFFICES ASSUME Walking, bst = 0, ~balive, NEW n \in Range(blist'), Passed(n)',
                      \A k, l \in Earlier(n)' : k = l, node'[n].live[bi] > 0
               PROVE  node'[n].dead[bi] > 0
    BY <1>1 DEF PassedIsTold, Lives, Mourns, Walking
  <2>1. ~(n > regs) /\ Passed(n)  BY <1>1, <1>2, <1>4 DEF Passed
  <2> QED BY <1>3, <1>5, <2>1 DEF ToldInv, PassedIsTold, Lives, Mourns
<1> QED
  BY <1>6, <1>7, <1>8, <1>9, <1>11, <1>12, <1>13 DEF ToldInv, Frame

\* Sessions that are alive were alive, or are being opened.
NoRevival ==
  \A i \in Sessions : sess'[i].status = 1 => sess[i].status = 1 \/ i >= idx

LEMMA QuietTold ==
  ASSUME IInv, IInv', ToldInv, UNCHANGED <<bcVars, blist>>, SameNodes(node'),
         idx <= idx', NoRevival
  PROVE  ToldInv'
<1>1. Ordered'  BY DEF ToldInv, Ordered
<1>2. 1 .. regs \subseteq NodeIds /\ Range(blist) \subseteq 1 .. regs
  BY Basics DEF IInv
<1>3. Frame  BY <1>1, <1>2 DEF Frame, SameNodes, NoRevival
<1> QED BY <1>3, FrameTold

LEMMA RemovalTold ==
  ASSUME IInv, IInv', ToldInv, UNCHANGED bcVars, NEW c, Removal(c),
         idx <= idx', NoRevival
  PROVE  ToldInv'
<1>1. Ordered'  BY RemovalKeepsOrder DEF IInv, ToldInv
<1>2. 1 .. regs \subseteq NodeIds  BY Basics DEF IInv
<1>3. Frame  BY <1>1, <1>2 DEF Frame, Removal, NoRevival
<1> QED BY <1>3, FrameTold

LEMMA BroadCastRegTold ==
  ASSUME IInv, IInv', ToldInv, NEW c \in Clients, BroadCastReg(c), UNCHANGED bcVars
  PROVE  ToldInv'
<1>1. /\ idx' = idx /\ idx \in Nat /\ regs \in Nat /\ sess' = sess
      /\ blist' = Append(blist, regs + 1) /\ blist \in Seq(1 .. regs)
      /\ node' = [node EXCEPT ![regs + 1] = NewNode(c)] /\ regs + 1 \in NodeIds
      /\ node \in [NodeIds -> Nodes] /\ 1 .. regs \subseteq NodeIds
      /\ Range(blist) \subseteq 1 .. regs
  <2>1. regs \in Nat /\ regs < MaxNodes /\ regs' = regs + 1
    BY Basics DEF IInv, BroadCastReg
  <2>2. regs + 1 \in NodeIds  BY <2>1, RelayAssumption DEF NodeIds
  <2> QED BY <2>1, <2>2, Basics DEF IInv, Types, Tellable, BroadCastReg
<1>2. /\ Len(blist) \in Nat /\ DOMAIN blist = 1 .. Len(blist)
      /\ \A j \in 1 .. Len(blist) : blist[j] \in 1 .. regs
  BY <1>1, LenProperties, ElementOfSeq
<1>3. /\ DOMAIN blist' = 1 .. Len(blist') /\ Len(blist') = Len(blist) + 1
      /\ blist'[Len(blist) + 1] = regs + 1
      /\ \A j \in 1 .. Len(blist) : blist'[j] = blist[j]
  <2>1. \A j \in 1 .. Len(blist) : blist[j] \in Nat  BY <1>1, <1>2
  <2>2. blist \in Seq(Nat) /\ regs + 1 \in Nat  BY <1>1, <1>2, <2>1
  <2> QED BY <1>1, <2>2, AppendProperties, LenProperties
<1>4. \A j \in 1 .. Len(blist') : j = Len(blist) + 1 \/ j \in 1 .. Len(blist)
  BY <1>2, <1>3
<1>5. Ordered'
  <2> SUFFICES ASSUME NEW j \in 1 .. Len(blist'), NEW k \in 1 .. Len(blist'), j < k
               PROVE  blist'[j] < blist'[k]
    BY DEF Ordered
  <2>1. j \in 1 .. Len(blist)  BY <1>2, <1>3
  <2>2. CASE k = Len(blist) + 1
    <3>1. blist[j] \in 1 .. regs  BY <1>2, <2>1
    <3> QED BY <1>1, <1>3, <2>1, <2>2, <3>1
  <2>3. CASE k \in 1 .. Len(blist)
    BY <1>3, <2>1, <2>3 DEF ToldInv, Ordered
  <2> QED BY <1>4, <2>2, <2>3
<1>6. \A n \in NodeIds : node'[n] = IF n = regs + 1 THEN NewNode(c) ELSE node[n]
  BY <1>1
<1>7. \A n \in 1 .. regs : n # regs + 1 /\ node'[n] = node[n]  BY <1>1, <1>6
<1>8. \A n \in Range(blist') : n \in Range(blist) \/ n = regs + 1
  BY <1>2, <1>3, <1>4 DEF Range
<1>9. \A i \in Sessions : /\ ~(NewNode(c).live[i] > 0)
                          /\ ~(NewNode(c).dead[i] > 0)
  BY DEF NewNode
<1>10. \A n \in NodeIds, i \in Sessions : node'[n].dead[i] > 0 => node[n].dead[i] > 0
  BY <1>6, <1>9
<1>11. \A n \in Range(blist') :
         \/ /\ n \in Range(blist)
            /\ node'[n].live = node[n].live /\ node'[n].dead = node[n].dead
         \/ n > regs /\ \A i \in Sessions : ~(node'[n].live[i] > 0)
  BY <1>1, <1>6, <1>7, <1>8, <1>9
<1>12. Frame  BY <1>1, <1>5, <1>7, <1>10, <1>11 DEF Frame
<1> QED BY <1>12, FrameTold

LEMMA ProcessCmdTold ==
  ASSUME IInv, IInv', ToldInv, ProcessCmd, UNCHANGED bcVars
  PROVE  ToldInv'
<1>1. /\ idx \in Nat /\ Sessions \subseteq Nat /\ sess \in [Sessions -> Entry]
  BY RelayAssumption DEF IInv, Types, Sessions
<1>2. ASSUME NEW c \in Clients, GetSessionId(c) PROVE ToldInv'
  <2>1. UNCHANGED <<blist, node, idx>>  BY <1>2 DEF GetSessionId
  <2>2. NoRevival
    <3>1. \A i \in Sessions : i # idx => sess'[i] = sess[i]
      BY <1>1, <1>2 DEF GetSessionId
    <3> QED BY <1>1, <3>1 DEF NoRevival
  <2> QED BY <1>1, <2>1, <2>2, QuietTold DEF SameNodes
<1>3. ASSUME NEW c \in Clients, Ask(c) \/ \E i \in Sessions : HeartBeat(c, i)
      PROVE  ToldInv'
  BY <1>1, <1>3, QuietTold DEF Ask, HeartBeat, SameNodes, NoRevival
<1>4. ASSUME NEW i \in Sessions,
             SessionClose(i) \/ \E c \in Clients : Exit(c, i)
      PROVE  ToldInv'
  <2>1. UNCHANGED <<blist, node, idx>>  BY <1>4 DEF SessionClose, Exit
  <2>2. \E fresh \in BOOLEAN : sess' = [sess EXCEPT ![i] = Cleared(fresh)]
    BY <1>4 DEF SessionClose, Exit
  <2>3. NoRevival  BY <1>1, <2>2 DEF NoRevival, Cleared
  <2> QED BY <1>1, <2>1, <2>3, QuietTold DEF SameNodes
<1>5. ASSUME NEW c \in Clients, ExitOnly(c) PROVE ToldInv'
  <2>1. Removal(c)  BY <1>5, DeleteRemoves DEF ExitOnly, IInv, Types, SameNodes
  <2>2. idx' = idx /\ NoRevival  BY <1>5 DEF ExitOnly, NoRevival
  <2> QED BY <1>1, <2>1, <2>2, RemovalTold
<1>6. ASSUME FindInEmpty PROVE ToldInv'
  BY <1>1, <1>6, QuietTold DEF FindInEmpty, Crash, SameNodes, NoRevival
<1> QED
  BY <1>2, <1>3, <1>4, <1>5, <1>6, BroadCastRegTold DEF ProcessCmd

LEMMA FinishTold ==
  ASSUME IInv, IInv', ToldInv, Finish, UNCHANGED bcVars
  PROVE  ToldInv'
<1> DEFINE touched == IF call.p = NoNode THEN node
                      ELSE [node EXCEPT ![call.p].fresh = TRUE]
<1>1. Tellable(node) /\ call \in Calls /\ idx \in Nat /\ sess \in [Sessions -> Entry]
  BY Basics DEF IInv, Types, CallInv, Finish
<1>2. Tellable(touched) /\ SameNodes(touched)
  BY <1>1 DEF Tellable, Nodes, SameNodes
<1>3. NoRevival  BY <1>1 DEF Finish, NoRevival, Entry
<1>4. idx <= idx'  BY <1>1 DEF Finish
<1>5. CASE call.cmd = "Exit"
  <2>1. call.addr \in Clients /\ Delete(touched, call.addr)
    BY <1>1, <1>5 DEF Calls, Finish
  <2> HIDE DEF touched
  <2>2. Removal(call.addr)  BY <1>2, <2>1, DeleteRemoves DEF IInv
  <2> QED BY <1>3, <1>4, <2>2, RemovalTold
<1>6. CASE call.cmd # "Exit"
  <2>1. node' = touched /\ UNCHANGED blist  BY <1>6 DEF Finish
  <2> HIDE DEF touched
  <2> QED BY <1>2, <1>3, <1>4, <2>1, QuietTold
<1> QED BY <1>5, <1>6

LEMMA AgeTold ==
  ASSUME IInv, IInv', ToldInv, Age
  PROVE  ToldInv'
<1>1. Tellable(node) /\ idx \in Nat /\ sess \in [Sessions -> Entry]
  BY Basics DEF IInv, Types
<1>2. UNCHANGED <<bcVars, blist, idx>>  BY DEF Age
<1>3. SameNodes(node')
  <2>1. CASE node' = node  BY <2>1 DEF SameNodes
  <2>2. ASSUME NEW n \in NodeIds, node' = [node EXCEPT ![n].fresh = FALSE]
        PROVE  SameNodes(node')
    BY <1>1, <2>2 DEF Tellable, Nodes, SameNodes
  <2> QED BY <2>1, <2>2 DEF Age
<1>4. NoRevival  BY <1>1 DEF Age, NoRevival, Entry
<1> QED BY <1>1, <1>2, <1>3, <1>4, QuietTold

-----------------------------------------------------------------------------
(* The broadcaster. *)

LEMMA SkipTold ==
  ASSUME IInv, ToldInv, Skip
  PROVE  ToldInv'
<1>1. /\ bpc = "pick" /\ bpc' = "pick"
      /\ UNCHANGED <<sess, idx, blist, node>>
  BY DEF Skip, cmdVars
<1>2. ~Walking /\ ~Walking'  BY <1>1 DEF Walking
<1>3. Ordered'  BY <1>1 DEF ToldInv, Ordered
<1>4. NoDeathInLife'  BY <1>1, <1>2 DEF ToldInv, NoDeathInLife, Mourns
<1>5. SeenClosed' /\ NothingBetween' /\ FirstIsToldLife' /\ PassedIsTold'
  BY <1>1, <1>2 DEF SeenClosed, NothingBetween, FirstIsToldLife, PassedIsTold
<1>6. FirstHeardOfLife'
  BY <1>1 DEF ToldInv, FirstHeardOfLife, Pair, Listed, Earlier, Lives
<1>7. SecondHearsOfDeath'
  BY <1>1, <1>2 DEF ToldInv, SecondHearsOfDeath, Pair, Listed, Earlier, Lives, Mourns
<1> QED BY <1>3, <1>4, <1>5, <1>6, <1>7 DEF ToldInv

LEMMA PickTold ==
  ASSUME IInv, ToldInv, Pick
  PROVE  ToldInv'
<1>1. /\ bpc = "pick" /\ bi' = bi /\ bi < idx /\ bi \in Sessions /\ idx \in Nat
      /\ sess[bi].status >= 0 /\ bst' = sess[bi].status /\ sess[bi].status \in {-1, 0, 1}
      /\ UNCHANGED <<sess, idx, blist, node, balive>>
      /\ Sessions \subseteq Nat
  <2>1. bi \in Sessions /\ Sessions \subseteq Nat /\ idx \in Nat
    BY RelayAssumption DEF IInv, Types, Walker, Pick, Sessions
  <2>2. sess[bi].status \in {-1, 0, 1}  BY <2>1 DEF IInv, Types, Entry
  <2> QED BY <2>1, <2>2 DEF Pick, cmdVars
<1>2. ~Walking  BY <1>1 DEF Walking
<1>3. bpc' \in {"walk", "end"}  BY DEF Pick, At
<1>4. \A n \in Range(blist) : ~Passed(n)'
  <2> SUFFICES ASSUME NEW n \in Range(blist) PROVE ~Passed(n)'  OBVIOUS
  <2>1. /\ Len(blist) \in Nat /\ DOMAIN blist = 1 .. Len(blist)
        /\ \A j \in 1 .. Len(blist) : blist[j] \in Nat \ {0}
    BY LenProperties, ElementOfSeq, RelayAssumption DEF IInv, Types
  <2>2. PICK j \in 1 .. Len(blist) : blist[j] = n  BY <2>1 DEF Range
  <2>3. blist # <<>> /\ 1 \in 1 .. Len(blist)  BY <2>1, <2>2
  <2>4. bq' = blist[1] /\ bpc' = "walk"
    BY <2>1, <2>3 DEF Pick, At, NoNode
  <2>5. ~(n < blist[1])
    <3>1. CASE j = 1  BY <2>1, <2>2, <3>1
    <3>2. CASE j # 1
      <4>1. blist[1] < blist[j]  BY <2>1, <2>3, <3>2 DEF ToldInv, Ordered
      <4> QED BY <2>1, <2>2, <2>3, <4>1
    <3> QED BY <3>1, <3>2
  <2> QED BY <2>4, <2>5 DEF Passed
<1>5. Ordered'  BY <1>1 DEF ToldInv, Ordered
<1>6. NoDeathInLife'
  <2> SUFFICES ASSUME NEW n \in NodeIds, NEW i \in Sessions, node[n].dead[i] > 0
               PROVE  ~(i >= idx) /\ sess[i].status # 1 /\ ~(bi = i /\ bst' > 0)
    BY <1>1 DEF NoDeathInLife, Mourns
  <2>1. ~(i >= idx) /\ sess[i].status # 1
    BY DEF ToldInv, NoDeathInLife, Mourns
  <2> QED BY <1>1, <2>1
<1>7. SeenClosed'  BY <1>1 DEF SeenClosed
<1>8. NothingBetween'  BY <1>3 DEF NothingBetween
<1>9. FirstIsToldLife' /\ PassedIsTold'
  BY <1>1, <1>4 DEF FirstIsToldLife, PassedIsTold
<1>10. FirstHeardOfLife'
  BY <1>1 DEF ToldInv, FirstHeardOfLife, Pair, Listed, Earlier, Lives
<1>11. SecondHearsOfDeath'
  BY <1>1, <1>2 DEF ToldInv, SecondHearsOfDeath, Pair, Listed, Earlier, Lives, Mourns
<1> QED BY <1>5, <1>6, <1>7, <1>8, <1>9, <1>10, <1>11 DEF ToldInv

\* Where Tell leaves the node it is at, and who is behind the broadcaster then.
LEMMA TellStep ==
  ASSUME IInv, ToldInv, Tell
  PROVE  /\ bpc = "walk" /\ bq \in Range(blist) /\ bi \in Sessions /\ bi < idx
         /\ bst \in {-1, 0, 1} /\ bpc' \in {"walk", "end"}
         /\ UNCHANGED <<sess, idx, blist, regs, bi, bst, bold>>
         /\ \A n \in Range(blist) : Passed(n)' <=> Passed(n) \/ n = bq
         /\ \A n \in Range(blist) : n > bq => ~Passed(n)'
<1>1. /\ bpc = "walk" /\ bq \in Range(blist) /\ bi < idx /\ bst \in {-1, 0, 1}
      /\ UNCHANGED <<sess, idx, blist, regs, bi, bst, bold>>
      /\ bq' = NodeAfter(bq) /\ bpc' = At(bq')
  BY DEF Tell, Listed, IInv, Walker
<1>2. bi \in Sessions
  BY <1>1, RelayAssumption DEF IInv, Types, Walker, Sessions
<1>3. /\ bq' # NoNode => bq < bq'
      /\ \A m \in Range(blist) : bq < m => bq' # NoNode /\ bq' <= m
  BY <1>1, NodeAfterIsNext DEF IInv, ToldInv
<1>4. Range(blist) \subseteq Nat /\ bq' \in Nat
  <2>1. bq' \in 0 .. regs  BY <1>1, NodeAfterListed DEF IInv, Listed
  <2> QED BY <2>1, Basics DEF IInv
<1>5. bpc' = IF bq' = NoNode THEN "end" ELSE "walk"  BY <1>1 DEF At
<1>6. \A n \in Range(blist) : Passed(n) <=> n < bq  BY <1>1 DEF Passed
<1>7. \A n \in Range(blist) : Passed(n)' <=> bq' = NoNode \/ n < bq'
  BY <1>5 DEF Passed
<1>8. \A n \in Range(blist) : Passed(n)' <=> ~(bq < n)
  <2> SUFFICES ASSUME NEW n \in Range(blist) PROVE Passed(n)' <=> ~(bq < n)
    OBVIOUS
  <2>1. CASE bq < n
    <3>1. bq' # NoNode /\ ~(n < bq')  BY <1>3, <1>4, <2>1
    <3> QED BY <1>7, <2>1, <3>1
  <2>2. CASE ~(bq < n)
    <3>1. bq' # NoNode => n < bq'  BY <1>1, <1>3, <1>4, <2>2
    <3> QED BY <1>7, <2>2, <3>1
  <2> QED BY <2>1, <2>2
<1>9. \A n \in Range(blist) : (n < bq \/ n = bq <=> ~(bq < n)) /\ (n > bq <=> bq < n)
  BY <1>1, <1>4
<1>10. bpc' \in {"walk", "end"}  BY <1>5
<1> QED BY <1>1, <1>2, <1>6, <1>8, <1>9, <1>10, Zenon

\* What Tell writes: of a session that lives, that the node has been told of
\* its life; of a dead one, of its death if it was told of the life.
LEMMA TellWrites ==
  ASSUME IInv, Tell
  PROVE  /\ \A n \in NodeIds : node'[n].addr = node[n].addr
         /\ \A n \in NodeIds, i \in Sessions : n # bq \/ i # bi =>
              /\ node'[n].live[i] = node[n].live[i]
              /\ node'[n].dead[i] = node[n].dead[i]
         /\ bst > 0 =>
              /\ \A n \in NodeIds : node'[n].dead = node[n].dead
              /\ node'[bq].live[bi] > 0
         /\ ~(bst > 0) =>
              /\ \A n \in NodeIds : node'[n].live = node[n].live
              /\ node[bq].live[bi] > 0 => node'[bq].dead[bi] > 0
              /\ node'[bq].dead[bi] > 0 => node[bq].dead[bi] > 0 \/ balive'
         /\ balive => balive'
<1>1. /\ bi \in Sessions /\ bq \in NodeIds /\ node \in [NodeIds -> Nodes]
      /\ balive \in BOOLEAN
  <2>1. bi \in Sessions
    BY RelayAssumption DEF Tell, IInv, Types, Walker, Sessions
  <2>2. bq \in NodeIds  BY Basics DEF Tell, Listed, IInv
  <2> QED BY <2>1, <2>2 DEF IInv, Types, Tellable, Walker
<1>2. /\ node[bq].live[bi] \in Nat /\ node[bq].dead[bi] \in Nat
      /\ node[bq].dead[bi] <= node[bq].live[bi] /\ MaxTimes \in Nat \ {0}
  BY <1>1, Basics, BroadcastAssumption DEF IInv
<1>3. CASE Due(bq) /\ bst > 0
  <2>1. node' = [node EXCEPT ![bq].live[bi] = @ + 1] /\ balive' = TRUE
    BY <1>3 DEF Tell
  <2>2. \A n \in NodeIds :
          /\ node'[n].addr = node[n].addr /\ node'[n].dead = node[n].dead
          /\ \A i \in Sessions :
               node'[n].live[i] = IF n = bq /\ i = bi THEN node[n].live[i] + 1
                                  ELSE node[n].live[i]
    BY <1>1, <2>1 DEF Nodes
  <2>3. node'[bq].live[bi] > 0  BY <1>1, <1>2, <2>2
  <2> QED BY <1>3, <2>1, <2>2, <2>3
<1>4. CASE Due(bq) /\ ~(bst > 0)
  <2>1. node' = [node EXCEPT ![bq].dead[bi] = @ + 1] /\ balive' = TRUE
    BY <1>4 DEF Tell
  <2>2. \A n \in NodeIds :
          /\ node'[n].addr = node[n].addr /\ node'[n].live = node[n].live
          /\ \A i \in Sessions :
               node'[n].dead[i] = IF n = bq /\ i = bi THEN node[n].dead[i] + 1
                                  ELSE node[n].dead[i]
    BY <1>1, <2>1 DEF Nodes
  <2>3. node'[bq].dead[bi] > 0  BY <1>1, <1>2, <2>2
  <2> QED BY <1>4, <2>1, <2>2, <2>3
<1>5. CASE ~Due(bq)
  <2>1. node' = node /\ balive' = balive  BY <1>5 DEF Tell
  <2>2. bst > 0 => node[bq].live[bi] > 0
    <3>1. bst > 0 => ~(node[bq].live[bi] < MaxTimes)  BY <1>5 DEF Due, LifeDue
    <3> QED BY <1>2, <3>1
  <2>3. ~(bst > 0) /\ node[bq].live[bi] > 0 => node[bq].dead[bi] > 0
    <3>1. ~(bst > 0) => \/ ~(node[bq].dead[bi] < MaxTimes)
                        \/ ~(node[bq].live[bi] > node[bq].dead[bi])
      BY <1>5 DEF Due, DeathDue
    <3> QED BY <1>2, <3>1
  <2> QED BY <2>1, <2>2, <2>3
<1> QED BY <1>3, <1>4, <1>5

LEMMA TellTold ==
  ASSUME IInv, ToldInv, Tell
  PROVE  ToldInv'
<1>1. /\ bpc = "walk" /\ bq \in Range(blist) /\ bi \in Sessions /\ bi < idx
      /\ bst \in {-1, 0, 1} /\ bpc' \in {"walk", "end"}
      /\ UNCHANGED <<sess, idx, blist, regs, bi, bst, bold>>
      /\ \A n \in Range(blist) : Passed(n)' <=> Passed(n) \/ n = bq
      /\ \A n \in Range(blist) : n > bq => ~Passed(n)'
  BY TellStep
<1>2. /\ Range(blist) \subseteq NodeIds /\ NodeIds \subseteq Nat /\ 1 .. regs \subseteq NodeIds
      /\ idx \in Nat /\ Sessions \subseteq Nat
      /\ \A n \in Range(blist) : Passed(n) <=> n < bq
  BY <1>1, Basics, RelayAssumption DEF IInv, Passed, Sessions
<1>3. Walking /\ Walking'  BY <1>1 DEF Walking
<1>4. /\ \A n \in NodeIds : node'[n].addr = node[n].addr
      /\ \A n \in Range(blist) : Earlier(n)' = Earlier(n)
  BY <1>2, TellWrites, SameEarlier DEF IInv
<1>5. \A n \in NodeIds, i \in Sessions : n # bq \/ i # bi =>
        (Lives(n, i)' <=> Lives(n, i)) /\ (Mourns(n, i)' <=> Mourns(n, i))
  BY TellWrites DEF Lives, Mourns
<1>6. bst > 0 =>
        /\ \A n \in NodeIds, i \in Sessions : Mourns(n, i)' <=> Mourns(n, i)
        /\ \A n \in NodeIds, i \in Sessions : Lives(n, i) => Lives(n, i)'
        /\ \A n \in NodeIds, i \in Sessions : n = bq /\ i = bi => Lives(n, i)'
  BY <1>5, TellWrites DEF Lives, Mourns
<1>7. ~(bst > 0) =>
        /\ \A n \in NodeIds, i \in Sessions : Lives(n, i)' <=> Lives(n, i)
        /\ \A n \in NodeIds, i \in Sessions : n = bq /\ i = bi =>
             /\ Lives(n, i) => Mourns(n, i)'
             /\ Mourns(n, i)' => Mourns(n, i) \/ balive'
        /\ balive => balive'
  BY TellWrites DEF Lives, Mourns
<1>8. \A n, i : Mourns(n, i) /\ n \in NodeIds /\ i \in Sessions => Lives(n, i)
  BY Basics DEF IInv, Lives, Mourns
<1>9. ~(bst > 0) =>
        \A n \in NodeIds, i \in Sessions : Mourns(n, i) => Mourns(n, i)'
  BY <1>5, <1>7, <1>8
<1>10. ~(bst > 0) => bst = 0 /\ sess[bi].status # 1
  BY <1>1, <1>3 DEF ToldInv, SeenClosed
<1>11. \A m, n \in NodeIds : Pair(m, n)' => Pair(m, n)
  BY <1>1, <1>4 DEF Pair, Listed
<1>12. Ordered'  BY <1>1 DEF ToldInv, Ordered
<1>13. NoDeathInLife'
  <2> SUFFICES ASSUME NEW n \in NodeIds, NEW i \in Sessions, Mourns(n, i)'
               PROVE  ~(i >= idx) /\ sess[i].status # 1 /\ ~(bi = i /\ bst > 0)
    BY <1>1 DEF NoDeathInLife
  <2>1. CASE Mourns(n, i)
    BY <1>3, <2>1 DEF ToldInv, NoDeathInLife
  <2>2. CASE ~Mourns(n, i)
    <3>1. n = bq /\ i = bi /\ ~(bst > 0)  BY <1>5, <1>6, <2>2
    <3>2. ~(bi >= idx)
      <4>1. bi \in Nat /\ idx \in Nat /\ bi < idx  BY <1>1, <1>2
      <4> QED BY <4>1
    <3> QED BY <1>10, <3>1, <3>2
  <2> QED BY <2>1, <2>2
<1>14. SeenClosed'  BY <1>1, <1>3 DEF ToldInv, SeenClosed
<1>15. NothingBetween'  BY <1>1 DEF NothingBetween
<1>16. FirstIsToldLife'
  <2> SUFFICES ASSUME bst > 0, NEW n \in Range(blist), Passed(n)', Earlier(n) = {}
               PROVE  Lives(n, bi)'
    BY <1>1, <1>4 DEF FirstIsToldLife, Lives
  <2>1. CASE Passed(n)
    <3>1. Lives(n, bi)  BY <1>1, <2>1 DEF ToldInv, FirstIsToldLife
    <3> QED BY <1>1, <1>2, <1>6, <3>1
  <2>2. CASE n = bq  BY <1>1, <1>2, <1>6, <2>2
  <2> QED BY <1>1, <2>1, <2>2
<1>17. FirstHeardOfLife'
  <2> SUFFICES ASSUME NEW m \in NodeIds, NEW n \in NodeIds, NEW i \in Sessions,
                      Pair(m, n), Lives(n, i)'
               PROVE  Lives(m, i)'
    BY <1>11 DEF FirstHeardOfLife
  <2>1. CASE Lives(n, i)
    <3>1. Lives(m, i)  BY <2>1 DEF ToldInv, FirstHeardOfLife
    <3> QED BY <1>6, <1>7, <3>1
  <2>2. CASE ~Lives(n, i)
    <3>1. n = bq /\ i = bi /\ bst > 0  BY <1>5, <1>7, <2>2
    <3>2. m \in Range(blist) /\ Passed(m) /\ Earlier(m) = {}
      BY <1>2, <3>1 DEF Pair, Listed
    <3>3. Lives(m, bi)  BY <1>1, <3>1, <3>2 DEF ToldInv, FirstIsToldLife
    <3> QED BY <1>6, <3>1, <3>3
  <2> QED BY <2>1, <2>2
<1>18. SecondHearsOfDeath'
  <2> SUFFICES ASSUME NEW m \in NodeIds, NEW n \in NodeIds, NEW i \in Sessions,
                      Pair(m, n), Mourns(m, i)', Lives(n, i)', ~Mourns(n, i)'
               PROVE  bi = i /\ bst = 0 /\ balive' /\ ~Passed(n)'
    BY <1>1, <1>3, <1>11 DEF SecondHearsOfDeath
  <2>1. m \in Range(blist) /\ n \in Range(blist) /\ m < n  BY DEF Pair, Listed
  <2>2. CASE bst > 0
    <3>1. Mourns(m, i) /\ ~Mourns(n, i)  BY <1>6, <2>2
    <3>2. ~Lives(n, i)
      BY <2>2, <3>1 DEF ToldInv, SecondHearsOfDeath
    <3>3. i = bi  BY <1>5, <3>2
    <3> QED BY <1>3, <2>2, <3>1, <3>3 DEF ToldInv, NoDeathInLife
  <2>3. CASE ~(bst > 0)
    <3>1. Lives(n, i) /\ ~Mourns(n, i)  BY <1>7, <1>9, <2>3
    <3>2. ~(n = bq /\ i = bi)  BY <1>7, <2>3, <3>1
    <3>3. CASE Mourns(m, i)
      <4>1. bi = i /\ bst = 0 /\ balive /\ ~Passed(n)
        BY <3>1, <3>3 DEF ToldInv, SecondHearsOfDeath
      <4> QED BY <1>1, <1>7, <2>1, <2>3, <3>2, <4>1
    <3>4. CASE ~Mourns(m, i)
      <4>1. m = bq /\ i = bi  BY <1>5, <3>4
      <4>2. balive'  BY <1>7, <2>3, <3>4, <4>1
      <4>3. n > bq  BY <1>2, <2>1, <4>1
      <4> QED BY <1>1, <1>10, <2>1, <2>3, <4>1, <4>2, <4>3
    <3> QED BY <3>3, <3>4
  <2> QED BY <2>2, <2>3
<1>19. PassedIsTold'
  <2> SUFFICES ASSUME bst = 0, ~balive', NEW n \in Range(blist), Passed(n)',
                      \A k, l \in Earlier(n) : k = l,
                      NEW i \in Sessions, i = bi, Lives(n, i)'
               PROVE  Mourns(n, i)'
    BY <1>1, <1>4 DEF PassedIsTold, Lives, Mourns
  <2>1. ~(bst > 0) /\ n \in NodeIds  BY <1>2
  <2>2. ~balive /\ Lives(n, i)  BY <1>7, <2>1
  <2>3. CASE Passed(n)
    <3>1. Mourns(n, i)  BY <1>3, <2>2, <2>3 DEF ToldInv, PassedIsTold
    <3> QED BY <1>9, <2>1, <3>1
  <2>4. CASE n = bq  BY <1>7, <2>1, <2>2, <2>4
  <2> QED BY <1>1, <2>3, <2>4
<1> QED
  BY <1>12, <1>13, <1>14, <1>15, <1>16, <1>17, <1>18, <1>19 DEF ToldInv

LEMMA FindDeadTold ==
  ASSUME IInv, ToldInv, FindDead
  PROVE  ToldInv'
<1>1. /\ bpc = "walk" /\ bpc' = "delete" /\ bold' = bq /\ bq' = NodeAfter(bq)
      /\ bq \in Range(blist)
      /\ UNCHANGED <<sess, idx, blist, node, bi, bst, balive>>
  BY DEF FindDead, Onward, cmdVars, Listed
<1>2. \A n : Passed(n)' <=> Passed(n)  BY <1>1 DEF Passed
<1>3. Walking /\ Walking'  BY <1>1 DEF Walking
<1>4. Ordered'  BY <1>1 DEF ToldInv, Ordered
<1>5. NoDeathInLife'  BY <1>1, <1>3 DEF ToldInv, NoDeathInLife, Mourns
<1>6. SeenClosed'  BY <1>1, <1>3 DEF ToldInv, SeenClosed
<1>7. NothingBetween'
  <2>1. \A m \in Range(blist) : bq < m => NodeAfter(bq) # NoNode /\ NodeAfter(bq) <= m
    BY <1>1, NodeAfterIsNext DEF IInv, ToldInv
  <2>2. bq \in Nat /\ NodeAfter(bq) \in Nat /\ Range(blist) \subseteq Nat
    <3>1. NodeAfter(bq) \in 0 .. regs
      BY <1>1, NodeAfterListed DEF IInv, Listed
    <3> QED BY <1>1, <3>1, Basics DEF IInv
  <2>3. \A m \in Range(blist) : m > bq => NodeAfter(bq) # NoNode /\ m >= NodeAfter(bq)
    BY <2>1, <2>2
  <2> QED BY <1>1, <2>3 DEF NothingBetween
<1>8. FirstIsToldLife'
  BY <1>1, <1>2 DEF ToldInv, FirstIsToldLife, Lives, Earlier
<1>9. FirstHeardOfLife'
  BY <1>1 DEF ToldInv, FirstHeardOfLife, Pair, Listed, Earlier, Lives
<1>10. SecondHearsOfDeath'
  BY <1>1, <1>2, <1>3 DEF ToldInv, SecondHearsOfDeath, Pair, Listed, Earlier, Lives, Mourns
<1>11. PassedIsTold'
  BY <1>1, <1>2, <1>3 DEF ToldInv, PassedIsTold, Lives, Mourns, Earlier
<1> QED
  BY <1>4, <1>5, <1>6, <1>7, <1>8, <1>9, <1>10, <1>11 DEF ToldInv

\* If the silent node stays, its client's first one went, and that one has told
\* the client of all that the silent one missed.
LEMMA DeleteDeadTold ==
  ASSUME IInv, IInv', ToldInv, DeleteDead
  PROVE  ToldInv'
<1> DEFINE c == node[bold].addr
<1>1. /\ bpc = "delete" /\ bold \in Range(blist) /\ Delete(node, c)
      /\ UNCHANGED <<sess, idx, regs, bi, bst, bq, balive>>
      /\ bpc' = (IF bq = NoNode THEN "end" ELSE "walk")
      /\ bi \in Sessions
  BY RelayAssumption DEF DeleteDead, At, Listed, IInv, Types, Walker, Sessions
<1>2. /\ Range(blist) \subseteq NodeIds /\ NodeIds \subseteq Nat \ {0} /\ 1 .. regs \subseteq NodeIds
      /\ bq \in Nat /\ bold \in Nat /\ bold \in NodeIds
      /\ \A n \in Range(blist) : Passed(n) <=> n < bold
  BY <1>1, Basics DEF IInv, Walker, Passed
<1>3. Removal(c)
  <2>1. c \in Clients /\ SameNodes(node)
    BY <1>2 DEF IInv, Types, Tellable, Nodes, SameNodes
  <2> QED BY <1>1, <2>1, DeleteRemoves DEF IInv, Types
<1>4. /\ Range(blist') \subseteq Range(blist)
      /\ \A n \in NodeIds : node'[n].addr = node[n].addr
      /\ \A n \in Range(blist'), i \in Sessions :
           (Lives(n, i)' <=> Lives(n, i)) /\ (Mourns(n, i)' <=> Mourns(n, i))
      /\ \A n \in NodeIds, i \in Sessions : Mourns(n, i)' => Mourns(n, i)
  BY <1>3 DEF Removal, Lives, Mourns
<1>5. \A n \in Range(blist) : Earlier(n)' = Earlier(n)
  BY <1>2, <1>4, SameEarlier DEF IInv
<1>6. Walking /\ Walking'  BY <1>1 DEF Walking
<1>7. \A n \in Range(blist') : node[n].addr = node[bold].addr =>
        \E m \in Range(blist) : m \in Earlier(n) /\ m \notin Range(blist')
  BY <1>3, RemovalTakesFirst DEF IInv, ToldInv
<1> HIDE DEF c
<1>8. \A n \in Range(blist) : n > bold =>
        IF bq = NoNode THEN \A i \in Sessions : ~Lives(n, i) ELSE ~(n < bq)
  BY <1>1, <1>2 DEF ToldInv, NothingBetween
<1>9. \A n \in Range(blist) : Passed(n)' =>
        \/ Passed(n) \/ n = bold
        \/ bpc' = "end" /\ \A i \in Sessions : ~Lives(n, i)
  <2> SUFFICES ASSUME NEW n \in Range(blist), Passed(n)', ~(n < bold), n # bold
               PROVE  bpc' = "end" /\ \A i \in Sessions : ~Lives(n, i)
    BY <1>2
  <2>1. n > bold
    <3>1. n \in Nat /\ bold \in Nat  BY <1>2
    <3> QED BY <3>1
  <2>2. bq = NoNode \/ n < bq  BY <1>1 DEF Passed
  <2> QED BY <1>1, <1>8, <2>1, <2>2
<1>10. \A n \in Range(blist), i \in Sessions :
         ~Passed(n) /\ n # bold /\ Lives(n, i) => ~Passed(n)'
  BY <1>2, <1>9
<1>11. Ordered'  BY <1>3, RemovalKeepsOrder DEF IInv, ToldInv
<1>12. NoDeathInLife'
  BY <1>1, <1>4, <1>6 DEF ToldInv, NoDeathInLife
<1>13. SeenClosed'  BY <1>1, <1>6 DEF ToldInv, SeenClosed
<1>14. NothingBetween'  BY <1>1 DEF NothingBetween
<1>15. \A m, n \in NodeIds : Pair(m, n)' =>
         Pair(m, n) /\ m \in Range(blist') /\ n \in Range(blist')
  BY <1>4, <1>5 DEF Pair, Listed
<1>16. FirstIsToldLife'
  <2> SUFFICES ASSUME bpc' = "walk", bst > 0, NEW n \in Range(blist'), Passed(n)',
                      Earlier(n) = {}, NEW i \in Sessions, i = bi
               PROVE  Lives(n, i)'
    BY <1>1, <1>4, <1>5 DEF FirstIsToldLife, Lives
  <2>1. n # bold  BY <1>7
  <2>2. Passed(n)  BY <1>4, <1>9, <2>1
  <2> QED BY <1>1, <1>4, <2>2 DEF ToldInv, FirstIsToldLife
<1>17. FirstHeardOfLife'
  BY <1>4, <1>15 DEF ToldInv, FirstHeardOfLife
<1>18. SecondHearsOfDeath'
  <2> SUFFICES ASSUME NEW m \in NodeIds, NEW n \in NodeIds, NEW i \in Sessions,
                      Pair(m, n)', Mourns(m, i)', Lives(n, i)', ~Mourns(n, i)'
               PROVE  bi = i /\ bst = 0 /\ balive /\ ~Passed(n)'
    BY <1>1, <1>6 DEF SecondHearsOfDeath
  <2>1. /\ Pair(m, n) /\ m \in Range(blist') /\ n \in Range(blist)
        /\ Mourns(m, i) /\ Lives(n, i) /\ ~Mourns(n, i)
    BY <1>4, <1>15
  <2>2. bi = i /\ bst = 0 /\ balive /\ ~Passed(n)
    BY <2>1 DEF ToldInv, SecondHearsOfDeath
  <2>3. n # bold  BY <1>7, <2>1 DEF Pair
  <2> QED BY <1>10, <2>1, <2>2, <2>3
<1>19. PassedIsTold'
  <2> SUFFICES ASSUME bst = 0, ~balive, NEW n \in Range(blist'), Passed(n)',
                      \A k, l \in Earlier(n) : k = l,
                      NEW i \in Sessions, i = bi, Lives(n, i)
               PROVE  Mourns(n, i)
    BY <1>1, <1>4, <1>5, <1>6 DEF PassedIsTold, Lives, Mourns
  <2>1. n \in Range(blist) /\ n \in NodeIds  BY <1>2, <1>4
  <2>2. CASE Passed(n)  BY <1>6, <2>1, <2>2 DEF ToldInv, PassedIsTold
  <2>3. CASE n = bold
    <3>1. PICK m \in Range(blist) : m \in Earlier(bold)
      BY <1>7, <2>3
    <3>2. m < bold /\ m \in 1 .. bold - 1 /\ node[m].addr = node[bold].addr
      BY <1>2, <3>1 DEF Earlier
    <3>3. Earlier(m) = {}
      <4> SUFFICES ASSUME NEW k \in Earlier(m) PROVE FALSE  OBVIOUS
      <4>1. k \in 1 .. m - 1 /\ node[k].addr = node[m].addr  BY DEF Earlier
      <4>2. k \in Earlier(bold) /\ k # m  BY <1>2, <3>2, <4>1 DEF Earlier
      <4> QED BY <2>3, <3>1, <4>2
    <3>4. Pair(m, n) /\ Passed(m) /\ m \in NodeIds
      BY <1>2, <2>1, <2>3, <3>2, <3>3 DEF Pair, Listed
    <3>5. Lives(m, i)  BY <2>1, <3>4 DEF ToldInv, FirstHeardOfLife
    <3>6. Mourns(m, i)
      BY <1>6, <3>3, <3>4, <3>5 DEF ToldInv, PassedIsTold
    <3> QED BY <2>1, <3>4, <3>6 DEF ToldInv, SecondHearsOfDeath
  <2> QED BY <1>9, <2>1, <2>2, <2>3
<1> QED
  BY <1>11, <1>12, <1>13, <1>14, <1>16, <1>17, <1>18, <1>19 DEF ToldInv

LEMMA EndSessionTold ==
  ASSUME IInv, ToldInv, EndSession
  PROVE  ToldInv'
<1>1. /\ bpc = "end" /\ bpc' = "pick" /\ UNCHANGED <<idx, blist, node>>
      /\ Walking /\ ~Walking'
  BY DEF EndSession, Walking
<1>2. \A i \in Sessions : sess'[i].status = 1 => sess[i].status = 1
  BY DEF EndSession, IInv, Types, Entry
<1>3. Ordered'  BY <1>1 DEF ToldInv, Ordered
<1>4. NoDeathInLife'  BY <1>1, <1>2 DEF ToldInv, NoDeathInLife, Mourns
<1>5. SeenClosed' /\ NothingBetween' /\ FirstIsToldLife' /\ PassedIsTold'
  BY <1>1 DEF SeenClosed, NothingBetween, FirstIsToldLife, PassedIsTold
<1>6. FirstHeardOfLife'
  BY <1>1 DEF ToldInv, FirstHeardOfLife, Pair, Listed, Earlier, Lives
<1>7. \A n : Passed(n)  BY <1>1 DEF Passed
<1>8. SecondHearsOfDeath'
  BY <1>1, <1>7 DEF ToldInv, SecondHearsOfDeath, Pair, Listed, Earlier, Lives, Mourns
<1> QED BY <1>3, <1>4, <1>5, <1>6, <1>8 DEF ToldInv

-----------------------------------------------------------------------------
LEMMA InitTold == Init => ToldInv
<1> SUFFICES ASSUME Init PROVE ToldInv  OBVIOUS
<1>1. bpc = "pick" /\ ~Walking /\ blist = <<>> /\ Range(blist) = {}
  BY DEF Init, CmdInit, Walking, Range
<1>2. \A n \in NodeIds, i \in Sessions : ~Mourns(n, i)
  BY DEF Init, CmdInit, NewNode, Mourns
<1>3. \A m, n : ~Pair(m, n)  BY <1>1 DEF Pair, Listed
<1>4. Ordered  BY <1>1 DEF Ordered
<1> QED
  BY <1>1, <1>2, <1>3, <1>4 DEF ToldInv, NoDeathInLife, SeenClosed, NothingBetween,
     FirstIsToldLife, FirstHeardOfLife, SecondHearsOfDeath, PassedIsTold

LEMMA NextTold == IInv /\ ToldInv /\ [Next]_vars => ToldInv'
<1> SUFFICES ASSUME IInv, ToldInv, [Next]_vars PROVE ToldInv'  OBVIOUS
<1>1. IInv'  BY NextInv
<1>2. idx <= idx /\ SameNodes(node) /\ \A i \in Sessions : sess[i].status = sess[i].status
  BY Basics DEF IInv, SameNodes
<1>3. CASE ProcessCmd /\ UNCHANGED bcVars  BY <1>1, <1>3, ProcessCmdTold
<1>4. CASE Finish /\ UNCHANGED bcVars  BY <1>1, <1>4, FinishTold
<1>5. CASE TouchFreed /\ UNCHANGED bcVars
  BY <1>1, <1>2, <1>5, QuietTold DEF TouchFreed, Crash, SameNodes, NoRevival
<1>6. CASE Broadcast
  <2>1. CASE WalkFreed
    BY <1>1, <1>2, <2>1, QuietTold DEF WalkFreed, Crash, SameNodes, NoRevival
  <2> QED
    BY <1>1, <1>6, <2>1, SkipTold, PickTold, TellTold, FindDeadTold, DeleteDeadTold,
       EndSessionTold DEF Broadcast
<1>7. CASE Age  BY <1>1, <1>7, AgeTold
<1>8. CASE UNCHANGED vars
  BY <1>1, <1>2, <1>8, QuietTold DEF vars, cmdVars, SameNodes, NoRevival
<1> QED BY <1>3, <1>4, <1>5, <1>6, <1>7, <1>8 DEF Next

\* Only EndSession gives a session up.
LEMMA OnlyEndSession ==
  ASSUME IInv, [Next]_vars, NEW i \in Sessions, sess[i].status = 0,
         sess'[i].status = -1
  PROVE  EndSession /\ i = bi
<1>1. sess \in [Sessions -> Entry]  BY DEF IInv, Types
<1>2. CASE ProcessCmd
  BY <1>1, <1>2 DEF ProcessCmd, BroadCastReg, GetSessionId, HeartBeat, Ask,
     SessionClose, Exit, ExitOnly, FindInEmpty, Crash, Cleared, Opened
<1>3. CASE Finish \/ TouchFreed  BY <1>1, <1>3 DEF Finish, TouchFreed, Crash, Entry
<1>4. CASE Broadcast
  <2>1. CASE EndSession  BY <1>1, <2>1 DEF EndSession
  <2> QED
    BY <1>4, <2>1 DEF Broadcast, Skip, Pick, Tell, FindDead, DeleteDead, WalkFreed,
       Crash, cmdVars
<1>5. CASE Age  BY <1>1, <1>5 DEF Age, Entry
<1>6. CASE UNCHANGED vars  BY <1>6 DEF vars, cmdVars
<1> QED BY <1>2, <1>3, <1>4, <1>5, <1>6 DEF Next

LEMMA AtMostOne ==
  ASSUME NEW S, IsFiniteSet(S), Cardinality(S) <= 1
  PROVE  \A k, l \in S : k = l
<1> SUFFICES ASSUME NEW k \in S, NEW l \in S, k # l PROVE FALSE  OBVIOUS
<1>1. IsFiniteSet({k}) /\ Cardinality({k}) = 1  BY FS_Singleton
<1>2. IsFiniteSet({k} \cup {l}) /\ Cardinality({k} \cup {l}) = 2
  <2>1. l \notin {k}  OBVIOUS
  <2>2. 1 + 1 = 2  OBVIOUS
  <2> QED BY <1>1, <2>1, <2>2, FS_AddElement, Zenon
<1>3. Cardinality({k} \cup {l}) <= Cardinality(S)  BY FS_Subset
<1>4. Cardinality(S) \in Nat  BY FS_CardinalityType
<1> QED BY <1>2, <1>3, <1>4

\* What the broadcaster has told the nodes of one client that are still on the
\* list, behind it and ahead of it: an inductive invariant with IInv.
THEOREM ToldInvariant == Spec => []ToldInv
<1>1. Init => IInv /\ ToldInv  BY InitInv, InitTold
<1>2. IInv /\ ToldInv /\ [Next]_vars => (IInv /\ ToldInv)'  BY NextInv, NextTold
<1> QED BY <1>1, <1>2, PTL DEF Spec

\* A closed session is given up only when every client on the list that was told
\* of its life has been told of its death, at its first two registrations.
THEOREM ClosedSessionsAreTold == Spec => ClosedIsTold
<1> DEFINE Act == \A i \in Sessions :
             bst = 0 /\ sess[i].status = 0 /\ sess'[i].status = -1 =>
               \A n \in Range(blist) :
                 Cardinality(Earlier(n)) <= 1 /\ node[n].live[i] > 0 =>
                   node[n].dead[i] > 0
<1>1. IInv /\ ToldInv /\ [Next]_vars => Act
  <2> SUFFICES ASSUME IInv, ToldInv, [Next]_vars, NEW i \in Sessions, bst = 0,
                      sess[i].status = 0, sess'[i].status = -1,
                      NEW n \in Range(blist), Cardinality(Earlier(n)) <= 1,
                      node[n].live[i] > 0
               PROVE  node[n].dead[i] > 0
    OBVIOUS
  <2>1. EndSession /\ i = bi  BY OnlyEndSession
  <2>2. bpc = "end" /\ ~balive
    <3>1. sess \in [Sessions -> Entry]  BY DEF IInv, Types
    <3> QED BY <2>1, <3>1 DEF EndSession, GivenUp
  <2>3. IsFiniteSet(Earlier(n))
    <3>1. n - 1 \in Int /\ IsFiniteSet(1 .. n - 1)
      <4>1. n \in Nat  BY Basics DEF IInv
      <4>2. 1 \in Int /\ n - 1 \in Int  BY <4>1
      <4> QED BY <4>2, FS_Interval
    <3>2. Earlier(n) \subseteq 1 .. n - 1  BY DEF Earlier
    <3> QED BY <3>1, <3>2, FS_Subset
  <2>4. \A k, l \in Earlier(n) : k = l  BY <2>3, AtMostOne
  <2>5. Walking /\ Passed(n)  BY <2>2 DEF Walking, Passed
  <2> QED BY <2>1, <2>2, <2>4, <2>5 DEF ToldInv, PassedIsTold, Lives, Mourns
<1>2. Spec => []IInv /\ []ToldInv  BY RelayInvariant, ToldInvariant
<1>3. Spec => [][Next]_vars  BY PTL DEF Spec
<1> QED BY <1>1, <1>2, <1>3, PTL DEF ClosedIsTold
=============================================================================
