----------------------------- MODULE RelayChans -----------------------------
(***************************************************************************)
(* The channels of the relay server's sessions: kGetChanId, kReg, kBye and *)
(* what other commands do to them (ProcessCmd and AssignChanId,            *)
(* source/udpbase.c).  A client asks for a channel with a random number,   *)
(* is granted one, and confirms it by the same command with the channel.   *)
(* Its channels are noted in its node on the list of clients, for all      *)
(* sessions together; kBye gives them back.                                *)
(***************************************************************************)
EXTENDS Integers, FiniteSets, FiniteSetsExt

CONSTANTS Clients, RandIds,
          MaxChan,      \* MAX_CHAN_NUM
          Overlaid,     \* the last four channels: see Overlay
          BytesFF,      \* of each randId, the bytes that are 0xFF, as channels
          MaxSessions,  \* bound: sessions
          MaxGrants     \* bound: different grants

Chans    == 0 .. MaxChan - 1
Sessions == 0 .. MaxSessions - 1
NoRand   == "none"

ASSUME ChansAssumption ==
  /\ MaxChan \in Nat \ {0} /\ MaxSessions \in Nat /\ MaxGrants \in Nat
  /\ Overlaid \subseteq Chans /\ NoRand \notin RandIds
  /\ BytesFF \in [RandIds -> SUBSET Overlaid]

VARIABLES status,   \* SessionList[..].status
          free,     \* the channels whose entry in chanIdList is -1
          rand,     \* randIdList
          idx,      \* obj->session_idx
          own,      \* node->chanIdList: of each client that has a node
          listed,   \* the clients that have a node
          held,     \* history: the channels granted and not given back
          given,    \* history: all that was ever granted
          strayed,  \* history: channels another client's kBye set free under
                    \* their holder
          leaked    \* history: channels that no kBye will give back

sessVars == <<status, free, rand>>
history  == <<held, given, strayed, leaked>>
vars == <<sessVars, idx, own, listed, history>>

Grant(c, s, k, r) == [client |-> c, sess |-> s, chan |-> k, rand |-> r]

Holds(c, s, k) == \E h \in held : h.client = c /\ h.sess = s /\ h.chan = k

-----------------------------------------------------------------------------
\* AssignChanId finds a free entry, whose value is -1, and stores randId at
\* that value's place: randIdList[-1] lies over the last four channels.  Each
\* of them is free after that if its byte of randId is 0xFF, and taken if not.
Overlay(chans, r) == (chans \ Overlaid) \cup BytesFF[r]

\* the free channels of a session without one of them
Taken(s, k) == free[s] \ {k}

\* The client's node notes the channel; findnode needs a list that is not
\* empty (what happens otherwise is in RelayCmds).
Note(c, k) ==
  /\ listed # {}
  /\ own' = IF c \in listed THEN [own EXCEPT ![c] = @ \cup {k}] ELSE own

\* kGetChanId without a channel, in a session that is not closed: also in one
\* that was given up, or never opened and has no free entry.  A randId that is
\* in randIdList is refused.
GetChanId(c, s, r) ==
  /\ status[s] # 0
  /\ \A k \in Chans : rand[s][k] # r
  /\ free[s] # {}
  /\ LET k == Min(free[s])
     IN  /\ free' = [free EXCEPT ![s] = Overlay(Taken(s, k), r)]
         /\ Note(c, k)
         /\ held'  = held \cup {Grant(c, s, k, r)}
         /\ given' = given \cup {Grant(c, s, k, r)}
         /\ Cardinality(given') <= MaxGrants
  /\ UNCHANGED <<status, rand, idx, listed, strayed, leaked>>

\* A command that takes a channel, late: it was given back already.
Leaks(c, s, k) == leaked \cup (IF Holds(c, s, k) THEN {} ELSE {<<s, k>>})

\* kGetChanId with the channel that was granted, also one that comes late.
Confirm(c, s, k, r) ==
  /\ status[s] # 0
  /\ free' = [free EXCEPT ![s] = Taken(s, k)]
  /\ rand' = [rand EXCEPT ![s][k] = r]
  /\ Note(c, k)
  /\ leaked' = Leaks(c, s, k)
  /\ UNCHANGED <<status, idx, listed, held, given, strayed>>

\* kReg of an encoder, with its channel
RegEncoder(c, s, k) ==
  /\ status[s] # 0
  /\ free' = [free EXCEPT ![s] = Taken(s, k)]
  /\ leaked' = Leaks(c, s, k)
  /\ UNCHANGED <<status, rand, idx, own, listed, held, given, strayed>>

\* what the client's node has noted, in whatever session
Noted(c) == IF c \in listed THEN own[c] ELSE {}

\* Mutant of Given: channel 0 is taken for no channel.
GivenNotFirst(c) == Noted(c) \ {0}

\* The channels kBye sets free: all that are noted, and will be after it.
Given(c) == Noted(c)

\* kBye
Bye(c, s) ==
  /\ s < idx /\ listed # {}
  /\ free' = [free EXCEPT ![s] = @ \cup Given(c)]
  /\ held' = {h \in held : ~(h.client = c /\ h.sess = s)}
  /\ strayed' = {sk \in strayed \cup ({s} \X Given(c)) :
                   \E h \in held' : h.sess = sk[1] /\ h.chan = sk[2]}
  /\ leaked' = (leaked \ ({s} \X Noted(c)))
                 \cup ({s} \X ({k \in Chans : Holds(c, s, k)} \ Noted(c)))
  /\ UNCHANGED <<status, rand, idx, own, listed, given>>

-----------------------------------------------------------------------------
\* All channels of a session are free, and nobody's.
AllFree(s) ==
  /\ free' = [free EXCEPT ![s] = Chans]
  /\ held' = {h \in held : h.sess # s}
  /\ strayed' = {sk \in strayed : sk[1] # s}
  /\ leaked'  = {sk \in leaked : sk[1] # s}
  /\ UNCHANGED given

\* kGetSessionId; a session number is not used again before all have been.
GetSessionId(c) ==
  /\ idx < MaxSessions /\ listed # {}
  /\ status' = [status EXCEPT ![idx] = 1]
  /\ AllFree(idx)
  /\ idx' = idx + 1
  /\ UNCHANGED <<rand, own, listed>>

\* kSessionClose, and kExit, which also deletes the client's node
Close(c, s, exit) ==
  /\ s < idx /\ (exit => listed # {})
  /\ status' = [status EXCEPT ![s] = 0]
  /\ rand' = [rand EXCEPT ![s] = [k \in Chans |-> NoRand]]
  /\ AllFree(s)
  /\ listed' = IF exit THEN listed \ {c} ELSE listed
  /\ own' = IF exit THEN [own EXCEPT ![c] = {}] ELSE own
  /\ UNCHANGED idx

\* kBroadCastReg: one node per client here; clients with two are in RelayCmds
BroadCastReg(c) ==
  /\ c \notin listed /\ listed' = listed \cup {c}
  /\ UNCHANGED <<sessVars, idx, own, history>>

\* The broadcaster gives a session up, or deletes the node of a silent client.
Broadcaster ==
  \/ \E s \in Sessions : /\ s < idx /\ status' = [status EXCEPT ![s] = -1]
                         /\ UNCHANGED <<free, rand, idx, own, listed, history>>
  \/ \E c \in listed : /\ listed' = listed \ {c}
                       /\ own' = [own EXCEPT ![c] = {}]
                       /\ UNCHANGED <<sessVars, idx, history>>

-----------------------------------------------------------------------------
\* calloc'ed: status is set to -1, and no entry of chanIdList is -1.
Init == /\ status = [s \in Sessions |-> -1]
        /\ free = [s \in Sessions |-> {}]
        /\ rand = [s \in Sessions |-> [k \in Chans |-> NoRand]]
        /\ idx = 0
        /\ own = [c \in Clients |-> {}] /\ listed = {}
        /\ held = {} /\ given = {} /\ strayed = {} /\ leaked = {}

\* Clients name channels they were granted, at any time later.
Next ==
  \/ \E c \in Clients :
       \/ GetSessionId(c) \/ BroadCastReg(c)
       \/ \E s \in Sessions :
            \/ Bye(c, s) \/ \E exit \in BOOLEAN : Close(c, s, exit)
            \/ \E r \in RandIds : GetChanId(c, s, r)
  \/ \E g \in given : \/ Confirm(g.client, g.sess, g.chan, g.rand)
                      \/ RegEncoder(g.client, g.sess, g.chan)
  \/ Broadcaster

Spec == Init /\ [][Next]_vars

-----------------------------------------------------------------------------
\* A channel of an open session, other than the last four, belongs to no two
\* clients, unless a kBye has set it free while another client held it; and it
\* is taken exactly as long as somebody holds it, unless such a kBye set it
\* free, or a client left without a node to remember it, or took it again by a
\* command that came late (udpbase.c:710, 1198, 1421).
ChansAccounted ==
  \A s \in Sessions, k \in Chans \ Overlaid :
    status[s] = 1 =>
      LET holders == {c \in Clients : Holds(c, s, k)}
      IN  /\ <<s, k>> \notin strayed => Cardinality(holders) <= 1
          /\ k \in free[s] => holders = {} \/ <<s, k>> \in strayed
          /\ k \notin free[s] => holders # {} \/ <<s, k>> \in leaked
=============================================================================
