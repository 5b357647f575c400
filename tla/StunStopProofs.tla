--------------------------- MODULE StunStopProofs ---------------------------
(***************************************************************************)
(* Safety of stopping the STUN server and its client, of StunStop.  How    *)
(* much of its plan the owner has left, Len(todo), tells what it has done; *)
(* the invariant says what the threads can be doing then.                  *)
(***************************************************************************)
EXTENDS StunStop, Integers, SequenceTheorems, TLAPS

\* The plan of the owner, and all the steps there are in plans.
Creates == [n \in DOMAIN Started |-> <<"create", Started[n]>>]
Plan    == Creates \o StopOrder
Steps   == ({"create", "join"} \X Threads) \cup {<<"clear">>, <<"free">>}

Left == Len(todo)

\* What is left of the plan is its end.
Suffix == /\ Left \in 0 .. Len(Plan)
          /\ todo = SubSeq(Plan, Len(Plan) - Left + 1, Len(Plan))

Types == /\ role \in {"server", "client"}
         /\ status \in {0, 1} /\ overtook \in BOOLEAN
         /\ pc \in [Threads -> {"none", "created", "test", "wait", "turn", "over"}
                                 \cup Pings]
         /\ misuse \in Threads \cup {"nobody"} /\ busy \subseteq Threads

\* The lists are freed in the step after clearing status.
FreedLate == lists = "freed" => Left <= 4

\* Once status has been cleared for good, no thread is within a turn but those
\* that were when it was cleared.
LateTurns ==
  Left <= 5 /\ ~overtook =>
    /\ status = 0
    /\ \A t \in Threads : pc[t] \in {"wait", "turn"} \cup Pings => t \in busy

\* A thread that has been joined is over, or never was.
Gone(t) == pc[t] \in {"none", "over"}
Joined  == /\ Left <= 3 => Gone("recv")
           /\ Left <= 2 => Gone("hb")
           /\ Left <= 1 => Gone("ping0")
           /\ Left <= 0 => Gone("ping1")

IInv == Types /\ Suffix /\ FreedLate /\ LateTurns /\ Joined /\ FreedUsedInTurnOnly

-----------------------------------------------------------------------------
\* A function on 1 .. n is a sequence of length n.
LEMMA SeqOfFunction ==
  ASSUME NEW S, NEW n \in Nat, NEW f \in [1 .. n -> S]
  PROVE  f \in Seq(S) /\ Len(f) = n
<1>1. f \in Seq(S)  BY SeqDef, Zenon
<1>2. Len(f) \in Nat /\ 1 .. Len(f) = 1 .. n  BY <1>1, LenProperties
<1>3. CASE n = 0
  <2>1. 1 \notin 1 .. Len(f)  BY <1>2, <1>3
  <2> QED BY <1>1, <1>2, <1>3, <2>1
<1>4. CASE n # 0
  <2>1. n \in 1 .. Len(f)  BY <1>2, <1>4
  <2>2. Len(f) \in 1 .. Len(f)  BY <1>2, <2>1
  <2>3. Len(f) \in 1 .. n  BY <1>2, <2>2
  <2> QED BY <1>1, <1>2, <2>1, <2>3
<1> QED BY <1>3, <1>4

\* The steps of api_socket_stop, in their order.
LEMMA StopOrderIs ==
  /\ StopOrder \in Seq(Steps) /\ Len(StopOrder) = 6
  /\ StopOrder[1] = <<"clear">> /\ StopOrder[2] = <<"free">>
  /\ StopOrder[3] = <<"join", "recv">> /\ StopOrder[4] = <<"join", "hb">>
  /\ StopOrder[5] = <<"join", "ping0">> /\ StopOrder[6] = <<"join", "ping1">>
<1> DEFINE first == <<<<"clear">>, <<"free">>>>
           ts    == <<"recv", "hb", "ping0", "ping1">>
           joins == Joins(ts)
<1>1. first \in Seq(Steps) /\ Len(first) = 2
      /\ first[1] = <<"clear">> /\ first[2] = <<"free">>
  BY DEF Steps
<1>2. joins = [n \in 1 .. 4 |-> <<"join", ts[n]>>]  BY DEF Joins
<1>3. /\ joins[1] = <<"join", "recv">> /\ joins[2] = <<"join", "hb">>
      /\ joins[3] = <<"join", "ping0">> /\ joins[4] = <<"join", "ping1">>
  BY <1>2
<1>4. joins \in [1 .. 4 -> Steps]  BY <1>2 DEF Steps, Threads, Pings
<1> HIDE DEF first, joins
<1>5. joins \in Seq(Steps) /\ Len(joins) = 4  BY <1>4, SeqOfFunction
<1>6. /\ first \o joins \in Seq(Steps)
      /\ Len(first \o joins) = Len(first) + Len(joins)
      /\ \A i \in 1 .. Len(first) + Len(joins) :
           (first \o joins)[i] = IF i <= Len(first) THEN first[i] ELSE joins[i - Len(first)]
  BY <1>1, <1>5, ConcatProperties, Zenon
<1>7. StopOrder = first \o joins  BY DEF StopOrder, first, joins
<1> QED BY <1>1, <1>3, <1>5, <1>6, <1>7, SMTT(30)

\* server_init creates the receiver; client_init creates the heartbeats, too.
LEMMA CreatesIs ==
  ASSUME Types
  PROVE  /\ Creates \in Seq(Steps)
         /\ role = "server" => /\ Len(Creates) = 1
                                /\ Creates[1] = <<"create", "recv">>
         /\ role = "client" => /\ Len(Creates) = 2
                                /\ Creates[1] = <<"create", "recv">>
                                /\ Creates[2] = <<"create", "hb">>
<1>1. CASE role = "server"
  <2>1. Creates = [n \in 1 .. 1 |-> <<"create", <<"recv">>[n]>>]
    BY <1>1 DEF Creates, Started
  <2>2. Creates[1] = <<"create", "recv">> /\ Creates \in [1 .. 1 -> Steps]
    BY <2>1 DEF Steps, Threads, Pings
  <2> QED BY <1>1, <2>2, SeqOfFunction
<1>2. CASE role = "client"
  <2>1. Creates = [n \in 1 .. 2 |-> <<"create", <<"recv", "hb">>[n]>>]
    BY <1>2 DEF Creates, Started
  <2>2. /\ Creates[1] = <<"create", "recv">> /\ Creates[2] = <<"create", "hb">>
        /\ Creates \in [1 .. 2 -> Steps]
    BY <2>1 DEF Steps, Threads, Pings
  <2> QED BY <1>2, <2>2, SeqOfFunction
<1> QED BY <1>1, <1>2 DEF Types

\* The plan, counted from its end.
LEMMA PlanIs ==
  ASSUME Types
  PROVE  /\ Plan \in Seq(Steps)
         /\ role = "server" => Len(Plan) = 7
         /\ role = "client" => Len(Plan) = 8
         /\ role = "client" => Plan[1] = <<"create", "recv">>
         /\ Plan[Len(Plan) - 6] =
              IF role = "server" THEN <<"create", "recv">> ELSE <<"create", "hb">>
         /\ Plan[Len(Plan) - 5] = <<"clear">>
         /\ Plan[Len(Plan) - 4] = <<"free">>
         /\ Plan[Len(Plan) - 3] = <<"join", "recv">>
         /\ Plan[Len(Plan) - 2] = <<"join", "hb">>
         /\ Plan[Len(Plan) - 1] = <<"join", "ping0">>
         /\ Plan[Len(Plan)] = <<"join", "ping1">>
<1>1. /\ Plan \in Seq(Steps)
      /\ Len(Plan) = Len(Creates) + Len(StopOrder)
      /\ \A i \in 1 .. Len(Creates) + Len(StopOrder) :
           Plan[i] = IF i <= Len(Creates) THEN Creates[i] ELSE StopOrder[i - Len(Creates)]
  BY CreatesIs, StopOrderIs, ConcatProperties, Zenon DEF Plan
<1>2. CASE role = "server"
  <2>1. Len(Creates) = 1 /\ Creates[1] = <<"create", "recv">>  BY <1>2, CreatesIs
  <2> QED BY <1>1, <1>2, <2>1, StopOrderIs
<1>3. CASE role = "client"
  <2>1. /\ Len(Creates) = 2 /\ Creates[1] = <<"create", "recv">>
        /\ Creates[2] = <<"create", "hb">>
    BY <1>3, CreatesIs
  <2> QED BY <1>1, <1>3, <2>1, StopOrderIs
<1> QED BY <1>2, <1>3 DEF Types

\* The owner's next step is the one of the plan, and one less is left then.
LEMMA OwnerStep ==
  ASSUME Types, Suffix, NEW step, Owner(step), role' = role
  PROVE  /\ Left > 0 /\ step = Plan[Len(Plan) - Left + 1]
         /\ Left' = Left - 1 /\ Suffix'
<1> DEFINE m == Len(Plan) - Left + 1
           n == Len(Plan)
<1>1. Plan \in Seq(Steps) /\ n \in Nat /\ Left \in 0 .. n
  BY PlanIs, LenProperties DEF Suffix
<1>2. todo # <<>> /\ step = Head(todo) /\ todo' = Tail(todo) /\ todo = SubSeq(Plan, m, n)
  BY DEF Owner, Suffix
<1>3. Left # 0
  <2>1. Left = 0 => n < m  BY <1>1
  <2> QED BY <1>1, <1>2, <2>1, SubSeqEmpty
<1>4. m \in 1 .. n /\ n \in m .. n  BY <1>1, <1>3
<1> HIDE DEF m, n
<1>5. Head(SubSeq(Plan, m, n)) = Plan[m] /\ Tail(SubSeq(Plan, m, n)) = SubSeq(Plan, m + 1, n)
  BY <1>1, <1>4, HeadTailOfSubSeq DEF n
<1>6. step = Plan[m] /\ todo' = SubSeq(Plan, m + 1, n)  BY <1>2, <1>5, Zenon
<1>7. Left' = Left - 1
  <2>1. \A i \in (m + 1) .. n : Plan[i] \in Steps
    BY <1>1, <1>4, ElementOfSeq DEF n
  <2>2. Len(SubSeq(Plan, m + 1, n)) = IF m + 1 <= n THEN n - (m + 1) + 1 ELSE 0
    BY <1>1, <1>4, <2>1, SubSeqProperties
  <2>3. m = n - Left + 1  BY DEF m, n
  <2>4. Left' = Len(SubSeq(Plan, m + 1, n))  BY <1>6 DEF Left
  <2> HIDE DEF Left
  <2> QED BY <1>1, <1>3, <1>4, <2>2, <2>3, <2>4
<1>8. Plan' = Plan
  BY DEF Plan, Creates, Started
<1>9. Suffix'
  <2>1. Left' \in 0 .. n /\ m + 1 = n - Left' + 1  BY <1>1, <1>3, <1>7 DEF m, n
  <2> QED BY <1>6, <1>8, <2>1, Zenon DEF Suffix, n
<1> QED BY <1>1, <1>3, <1>6, <1>7, <1>9 DEF m, n

\* What step the owner takes tells how much was left.
LEMMA OwnerAt ==
  ASSUME Types, Suffix, NEW step, Owner(step), role' = role
  PROVE  /\ Left \in 1 .. 8 /\ Left' = Left - 1 /\ Suffix'
         /\ step = <<"clear">> <=> Left = 6
         /\ step = <<"free">> <=> Left = 5
         /\ \A t \in Threads : step = <<"create", t>> => Left > 6 /\ t \in {"recv", "hb"}
         /\ \A t \in Threads : step = <<"join", t>> =>
              \/ Left = 4 /\ t = "recv"
              \/ Left = 3 /\ t = "hb"
              \/ Left = 2 /\ t = "ping0"
              \/ Left = 1 /\ t = "ping1"
<1>1. Left' = Left - 1 /\ Suffix' /\ step = Plan[Len(Plan) - Left + 1]
  BY OwnerStep
<1>2. Len(Plan) \in {7, 8} /\ Left \in 1 .. Len(Plan)
  <2>1. Len(Plan) \in {7, 8}  BY PlanIs, Zenon DEF Types
  <2>2. Left > 0 /\ Left \in 0 .. Len(Plan)  BY OwnerStep DEF Suffix
  <2> QED BY <2>1, <2>2
<1>3. /\ Left = 8 => step = <<"create", "recv">>
      /\ Left = 7 => step = <<"create", "recv">> \/ step = <<"create", "hb">>
      /\ Left = 6 => step = <<"clear">>
      /\ Left = 5 => step = <<"free">>
      /\ Left = 4 => step = <<"join", "recv">>
      /\ Left = 3 => step = <<"join", "hb">>
      /\ Left = 2 => step = <<"join", "ping0">>
      /\ Left = 1 => step = <<"join", "ping1">>
  <2> HIDE DEF Left
  <2>1. CASE role = "server"
    <3>1. Len(Plan) = 7 /\ Left \in 1 .. 7  BY <1>2, <2>1, PlanIs, Zenon
    <3> QED BY <1>1, <2>1, <3>1, PlanIs
  <2>2. CASE role = "client"
    <3>1. Len(Plan) = 8 /\ Left \in 1 .. 8  BY <1>2, <2>2, PlanIs, Zenon
    <3> QED BY <1>1, <2>2, <3>1, PlanIs
  <2> QED BY <2>1, <2>2 DEF Types
<1> HIDE DEF Left
<1>4. Left \in 1 .. 8 /\ (Left > 6 => Left \in {7, 8})
  <2>1. PICK n : n = Len(Plan)  OBVIOUS
  <2>2. n \in {7, 8} /\ Left \in 1 .. n  BY <1>2, <2>1, Zenon
  <2> QED BY <2>2
<1>5. Left \in {1, 2, 3, 4, 5, 6, 7, 8}  BY <1>4
<1>6. step = <<"clear">> <=> Left = 6  BY <1>3, <1>5
<1>7. step = <<"free">> <=> Left = 5  BY <1>3, <1>5
<1>8. ASSUME NEW t \in Threads, step = <<"create", t>>
      PROVE  Left > 6 /\ t \in {"recv", "hb"}
  <2>1. Left \in {7, 8}  BY <1>3, <1>5, <1>8
  <2>2. t \in {"recv", "hb"}  BY <1>3, <2>1, <1>8
  <2>3. Left > 6  BY <2>1
  <2> QED BY <2>2, <2>3
<1>9. ASSUME NEW t \in Threads, step = <<"join", t>>
      PROVE  \/ Left = 4 /\ t = "recv"
             \/ Left = 3 /\ t = "hb"
             \/ Left = 2 /\ t = "ping0"
             \/ Left = 1 /\ t = "ping1"
  BY <1>3, <1>5, <1>9
<1> QED BY <1>1, <1>4, <1>6, <1>7, <1>8, <1>9

-----------------------------------------------------------------------------
\* The invariant holds when the owner is about to create the threads.
LEMMA InitInv == Init => IInv
<1> SUFFICES ASSUME Init PROVE IInv  OBVIOUS
<1>1. Types  BY DEF Init, Types
<1>2. Suffix /\ Left \in {7, 8}
  <2>1. todo = Plan  BY DEF Init, Plan, Creates
  <2>2. Len(Plan) \in {7, 8} /\ Plan \in Seq(Steps)  BY <1>1, PlanIs, Zenon DEF Types
  <2>3. SubSeq(Plan, 1, Len(Plan)) = Plan  BY <2>2, SubSeqFull
  <2>4. Len(Plan) - Len(Plan) + 1 = 1 /\ Len(Plan) \in 0 .. Len(Plan)  BY <2>2
  <2> QED BY <2>1, <2>2, <2>3, <2>4 DEF Suffix, Left
<1>3. FreedLate /\ FreedUsedInTurnOnly
  BY DEF Init, FreedLate, FreedUsedInTurnOnly
<1>4. LateTurns /\ Joined  BY <1>2 DEF LateTurns, Joined
<1> QED BY <1>1, <1>2, <1>3, <1>4 DEF IInv

\* A step of the owner.
LEMMA OwnerInv ==
  ASSUME IInv, misuse = "nobody", Create \/ Clear \/ Free \/ Join
  PROVE  IInv'
<1> USE DEF IInv
<1> HIDE DEF Left
<1>1. CASE Create
  <2>1. PICK t \in Threads : /\ Owner(<<"create", t>>)
                             /\ pc' = [pc EXCEPT ![t] = "created"]
                             /\ UNCHANGED <<role, status, lists, misuse, busy, overtook>>
    BY <1>1 DEF Create
  <2>2. Left \in 7 .. 8 /\ Left' = Left - 1 /\ Suffix'  BY <2>1, OwnerAt
  <2>3. Types'  BY <2>1 DEF Types
  <2>4. FreedLate' /\ FreedUsedInTurnOnly'
    BY <2>1, <2>2 DEF FreedLate, FreedUsedInTurnOnly
  <2>5. LateTurns' /\ Joined'  BY <2>2 DEF LateTurns, Joined
  <2> QED BY <2>2, <2>3, <2>4, <2>5
<1>2. CASE Clear
  <2> USE <1>2 DEF Clear
  <2>1. Left = 6 /\ Left' = 5 /\ Suffix'  BY OwnerAt
  <2>2. Types'  BY DEF Types
  <2>3. FreedLate' /\ FreedUsedInTurnOnly'
    BY <2>1 DEF FreedLate, FreedUsedInTurnOnly
  <2>4. LateTurns'  BY DEF LateTurns
  <2>5. Joined'  BY <2>1 DEF Joined
  <2> QED BY <2>1, <2>2, <2>3, <2>4, <2>5
<1>3. CASE Free
  <2> USE <1>3 DEF Free
  <2>1. Left = 5 /\ Left' = 4 /\ Suffix'  BY OwnerAt
  <2>2. Types'  BY DEF Types
  <2>3. FreedLate' /\ FreedUsedInTurnOnly'
    BY <2>1 DEF FreedLate, FreedUsedInTurnOnly
  <2>4. LateTurns' /\ Joined'  BY <2>1 DEF LateTurns, Joined
  <2> QED BY <2>1, <2>2, <2>3, <2>4
<1>4. CASE Join
  <2>1. PICK t \in Threads : /\ Gone(t) /\ Owner(<<"join", t>>)
                             /\ UNCHANGED <<role, status, lists, pc, misuse, busy, overtook>>
    BY <1>4 DEF Join, Gone
  <2>2. /\ Left' = Left - 1 /\ Suffix' /\ Left \in 1 .. 4
        /\ \/ Left = 4 /\ t = "recv"
           \/ Left = 3 /\ t = "hb"
           \/ Left = 2 /\ t = "ping0"
           \/ Left = 1 /\ t = "ping1"
    BY <2>1, OwnerAt
  <2>3. Types'  BY <2>1 DEF Types
  <2>4. FreedLate' /\ FreedUsedInTurnOnly'
    BY <2>1, <2>2 DEF FreedLate, FreedUsedInTurnOnly
  <2>5. LateTurns'  BY <2>1, <2>2 DEF LateTurns
  <2>6. \A u : Gone(u) => Gone(u)'  BY <2>1 DEF Gone
  <2>7. Joined'  BY <2>1, <2>2, <2>6 DEF Joined
  <2> QED BY <2>2, <2>3, <2>4, <2>5, <2>7
<1> QED BY <1>1, <1>2, <1>3, <1>4

\* Threads leave the owner's plan alone.
LEMMA SamePlan ==
  ASSUME UNCHANGED <<role, todo>>
  PROVE  Left' = Left /\ (Suffix => Suffix')
<1>1. Plan' = Plan /\ Left' = Left  BY DEF Plan, Creates, Started, Left
<1> QED BY <1>1 DEF Suffix

\* A thread that is over, or was never created, is created only by the owner
\* or by a receiver that is neither.
LEMMA StaysGone ==
  ASSUME Types, NEW t \in Threads, Thread(t), NEW u \in Threads, Gone(u),
         u \in Pings => Gone("recv")
  PROVE  Gone(u)'
<1> USE DEF Types, Gone, Threads, Pings
<1>1. CASE Begin(t)  BY <1>1 DEF Begin, Step
<1>2. CASE Test(t)  BY <1>2 DEF Test, Step
<1>3. CASE Use(t)  BY <1>3 DEF Use
<1>4. CASE EndTurn(t)  BY <1>4 DEF EndTurn, Step
<1>5. CASE Recvfrom  BY <1>5 DEF Recvfrom, Step
<1>6. ASSUME NEW k \in Pings, FindPeers(k) PROVE Gone(u)'
  BY <1>6 DEF FindPeers, Step
<1>7. ASSUME NEW k \in Pings, StartPing(k) PROVE Gone(u)'
  BY <1>7 DEF StartPing
<1> QED BY <1>1, <1>2, <1>3, <1>4, <1>5, <1>6, <1>7 DEF Thread

\* A step of a thread.
LEMMA ThreadInv ==
  ASSUME IInv, misuse = "nobody", NEW t \in Threads, Thread(t)
  PROVE  IInv'
<1> USE DEF IInv
<1>1. UNCHANGED <<role, todo, lists, busy>>
  BY DEF Thread, Begin, Test, Use, EndTurn, Recvfrom, FindPeers, StartPing
<1>2. Left' = Left /\ Suffix'  BY <1>1, SamePlan
<1>3. Left \in Nat /\ (Left <= 5 => Stopping)
  <2>1. Len(Plan) \in {7, 8} /\ Len(StopOrder) = 6
    BY PlanIs, StopOrderIs, Zenon DEF Types
  <2>2. Left \in Nat  BY <2>1 DEF Suffix
  <2> QED BY <2>1, <2>2 DEF Stopping, Left
<1> HIDE DEF Left
<1>4. Types'
  <2> USE DEF Types, Threads, Pings
  <2>1. CASE Begin(t)  BY <2>1 DEF Begin, Step, SetsStatus
  <2>2. CASE Test(t)  BY <2>2 DEF Test, Step
  <2>3. CASE Use(t)  BY <2>3 DEF Use
  <2>4. CASE EndTurn(t)  BY <2>4 DEF EndTurn, Step
  <2>5. CASE Recvfrom  BY <2>5 DEF Recvfrom, Step
  <2>6. ASSUME NEW k \in Pings, FindPeers(k) PROVE Types'
    BY <2>6 DEF FindPeers, Step
  <2>7. ASSUME NEW k \in Pings, StartPing(k) PROVE Types'
    BY <2>7 DEF StartPing
  <2> QED BY <2>1, <2>2, <2>3, <2>4, <2>5, <2>6, <2>7 DEF Thread
<1>5. FreedLate'  BY <1>1, <1>2 DEF FreedLate
<1>6. LateTurns'
  <2> SUFFICES ASSUME Left <= 5, ~overtook'
               PROVE  /\ status' = 0
                      /\ \A u \in Threads :
                           pc'[u] \in {"wait", "turn"} \cup Pings => u \in busy
    BY <1>1, <1>2 DEF LateTurns
  <2> USE DEF Types, Threads, Pings
  <2>1. /\ ~overtook => status = 0
        /\ ~overtook => \A u \in Threads :
             pc[u] \in {"wait", "turn"} \cup Pings => u \in busy
    BY DEF LateTurns
  <2>2. CASE Begin(t)
    <3>1. ~overtook /\ role # "server"  BY <1>3, <2>2 DEF Begin
    <3>2. status' = 0  BY <2>1, <2>2, <3>1 DEF Begin, SetsStatus
    <3> QED BY <2>1, <2>2, <3>1, <3>2 DEF Begin, Step
  <2>3. CASE Test(t)  BY <2>1, <2>3 DEF Test, Step
  <2>4. CASE Use(t)  BY <2>1, <2>4 DEF Use
  <2>5. CASE EndTurn(t)  BY <2>1, <2>5 DEF EndTurn, Step
  <2>6. CASE Recvfrom  BY <2>1, <2>6 DEF Recvfrom, Step
  <2>7. CASE \E k \in Pings : FindPeers(k)  BY <2>1, <2>7 DEF FindPeers, Step
  <2>8. CASE \E k \in Pings : StartPing(k)  BY <2>1, <2>8 DEF StartPing
  <2> QED BY <2>2, <2>3, <2>4, <2>5, <2>6, <2>7, <2>8 DEF Thread
<1>7. Joined'
  <2>1. "recv" \in Threads /\ "hb" \in Threads /\ "ping0" \in Threads
        /\ "ping1" \in Threads /\ {"recv", "hb"} \cap Pings = {}
    BY DEF Threads, Pings
  <2>2. Gone("recv") => Gone("recv")'  BY <2>1, StaysGone
  <2>3. \A u \in Threads : Gone("recv") /\ Gone(u) => Gone(u)'
    BY StaysGone
  <2> QED BY <1>2, <1>3, <2>1, <2>2, <2>3 DEF Joined
<1>8. FreedUsedInTurnOnly'
  <2>1. CASE Use(t)
    <3>1. misuse' = t /\ pc[t] = "turn" /\ lists = "freed" /\ overtook' = overtook
      BY <2>1 DEF Use
    <3>2. Left <= 5  BY <1>3, <3>1 DEF FreedLate
    <3> QED BY <1>1, <3>1, <3>2 DEF LateTurns, FreedUsedInTurnOnly
  <2>2. CASE ~Use(t)
    <3>1. misuse' = misuse
      BY <2>2 DEF Thread, Begin, Test, EndTurn, Recvfrom, FindPeers, StartPing
    <3> QED BY <3>1 DEF FreedUsedInTurnOnly
  <2> QED BY <2>1, <2>2
<1> QED BY <1>2, <1>4, <1>5, <1>6, <1>7, <1>8

\* No step, and no stuttering step, breaks the invariant.
LEMMA StepInv == IInv /\ [Next]_vars => IInv'
<1> SUFFICES ASSUME IInv, [Next]_vars PROVE IInv'  OBVIOUS
<1>1. CASE Next
  <2>1. misuse = "nobody"  BY <1>1 DEF Next
  <2>2. CASE Create \/ Clear \/ Free \/ Join  BY <2>1, <2>2, OwnerInv
  <2>3. CASE \E t \in Threads : Thread(t)  BY <2>1, <2>3, ThreadInv
  <2> QED BY <1>1, <2>2, <2>3 DEF Next
<1>2. CASE UNCHANGED vars
  <2>1. Left' = Left /\ Suffix'  BY <1>2, SamePlan DEF vars, IInv
  <2>2. Types' /\ FreedUsedInTurnOnly'
    BY <1>2 DEF vars, IInv, Types, FreedUsedInTurnOnly
  <2> HIDE DEF Left
  <2>3. FreedLate' /\ LateTurns' /\ Joined'
    BY <1>2, <2>1 DEF vars, IInv, FreedLate, LateTurns, Joined, Gone
  <2> QED BY <2>1, <2>2, <2>3 DEF IInv
<1> QED BY <1>1, <1>2

-----------------------------------------------------------------------------
\* The invariant holds in every state the program reaches.
THEOREM StopInvariant == Spec => []IInv
BY InitInv, StepInv, PTL DEF Spec

\* When api_socket_stop has returned no thread is left (base_stun.c:222-268).
THEOREM NoThreadLeft == Spec => []NoThreadSurvives
<1>1. IInv => NoThreadSurvives
  <2> SUFFICES ASSUME IInv, todo = <<>>
               PROVE  \A t \in Threads : pc[t] \in {"none", "over"}
    BY DEF NoThreadSurvives
  <2>1. Left = 0  BY DEF Left
  <2>2. Gone("recv") /\ Gone("hb") /\ Gone("ping0") /\ Gone("ping1")
    BY <2>1 DEF IInv, Joined
  <2> QED BY <2>2 DEF Gone, Threads, Pings
<1> QED BY <1>1, StopInvariant, PTL

\* After the lists are freed only a thread uses them that was within a
\* datagram or a pass over its list when status was cleared, or a server's
\* that came to run after that (base_stun.c:1050).
THEOREM FreedInTurn == Spec => []FreedUsedInTurnOnly
<1>1. IInv => FreedUsedInTurnOnly  BY DEF IInv
<1> QED BY <1>1, StopInvariant, PTL
=============================================================================
