----------------------------- MODULE Connection -----------------------------
(***************************************************************************)
(* How a client gets a slot of the server and loses it (sv_client.c,       *)
(* sv_main.c, cl_main.c): challenge, connect, first gamestate, disconnect, *)
(* kick, zombies, and the time-outs of both sides.                         *)
(*                                                                         *)
(* A client is a base address with its qport.  Packets are lost, repeated  *)
(* and reordered.  Of the messages inside a connection only what tells one *)
(* connection from another is kept: challenge, sequence numbers, and       *)
(* whether the client has the gamestate.  The limits on time (time-outs,   *)
(* zombies, sv_reconnectlimit) may have passed at any moment, since any    *)
(* number of packets may have been lost.                                   *)
(* Challenge numbers are given out in order, so that they are also the     *)
(* times at which they were given.                                         *)
(***************************************************************************)
EXTENDS Integers, FiniteSets, FiniteSetsExt

CONSTANTS
  Clients,              \* the clients
  NoClient,             \* the address in an unused challenge_t or client_t
  MaxClients,           \* sv_maxclients, less the slots that need a password
  MaxChallenges,        \* MAX_CHALLENGES
  MaxChallengesMulti,   \* MAX_CHALLENGES_MULTI
  MaxChallenge,         \* bound: challenge numbers the server gives out
  MaxAccepts,           \* bound: connects accepted with the same challenge
  MaxConnects,          \* bound: times a client's user asks for a connection
  MaxSequence,          \* bound: messages of a connection that are followed
  MaxInFlight           \* bound: packets on their way

ASSUME ClientAssumption == NoClient \notin Clients
ASSUME MultiAssumption ==
  /\ MaxChallengesMulti \in Nat \ {0}
  /\ MaxChallengesMulti <= MaxChallenges
ASSUME BoundAssumption ==
  {MaxClients, MaxChallenges, MaxChallenge, MaxSequence, MaxInFlight} \subseteq Nat

VARIABLES
  challenges,  \* svs.challenges
  slots,       \* svs.clients
  inGame,      \* the slots in which the game has a player
  cl,          \* each client's clc
  packets,     \* packets on their way
  given,       \* history: to whom each challenge number was given, for which
               \* of its attempts, and how often it was used to connect
  ghosts       \* history: slots taken from a player without telling the game

vars == <<challenges, slots, inGame, cl, packets, given, ghosts>>

Slots == 1..MaxClients
Entries == 1..MaxChallenges

NoChallenge == [adr |-> NoClient, challenge |-> 0, clientChallenge |-> 0,
                connected |-> FALSE, wasrefused |-> FALSE]

(* The rest of a free slot is never read. *)
FreeSlot == [state |-> "free", adr |-> NoClient, challenge |-> 0,
             incoming |-> 0, outgoing |-> 1, gamestateMessageNum |-> -1]

(* A wiped clc; attempt counts connections asked for, and is kept. *)
Disconnected(n) == [state |-> "disconnected", challenge |-> 0, incoming |-> 0,
                    outgoing |-> 1, attempt |-> n,
                    gamestate |-> [challenge |-> 0, sequence |-> 0]]

Init ==
  /\ challenges = [i \in Entries |-> NoChallenge]
  /\ slots = [s \in Slots |-> FreeSlot]
  /\ inGame = {}
  /\ cl = [c \in Clients |-> Disconnected(0)]
  /\ packets = {}
  /\ given = <<>>
  /\ ghosts = {}

(***************************************************************************)
(* The network.  A packet that finds it full is lost.                      *)
(***************************************************************************)
Carried(old, new) ==
  IF Cardinality(old \cup new) <= MaxInFlight THEN old \cup new ELSE old

Send(new) == packets' = Carried(packets, new)

(* p is delivered and new is sent in answer.  A message of a connection    *)
(* may be delivered again; the other packets are sent again anyhow.        *)
Receive(p, new) ==
  \/ packets' = Carried(packets \ {p}, new)
  \/ p.type \in {"client", "server"} /\ packets' = Carried(packets, new)

Lose(p) ==
  /\ packets' = packets \ {p}
  /\ UNCHANGED <<challenges, slots, inGame, cl, given, ghosts>>

GetChallenge(c) ==
  [type |-> "getchallenge", client |-> c, challenge |-> cl[c].challenge]
ChallengeResponse(c, n, m) ==
  [type |-> "challengeResponse", client |-> c, challenge |-> n,
   clientChallenge |-> m]
Connect(c) ==
  [type |-> "connect", client |-> c, challenge |-> cl[c].challenge]
ConnectResponse(c, n) ==
  [type |-> "connectResponse", client |-> c, challenge |-> n]

(* A question to the authorize server, which holds the number asked about. *)
IpAuthorize(n) == [type |-> "ipAuthorize", challenge |-> n]

(* Messages of a connection: from a client, and to one. *)
ClientMessage(c, isDisconnect) ==
  [type |-> "client", client |-> c, challenge |-> cl[c].challenge,
   sequence |-> cl[c].outgoing, acknowledge |-> cl[c].incoming,
   hasGamestate |-> cl[c].state = "primed", disconnect |-> isDisconnect]
ServerMessage(s, what) ==
  [type |-> "server", client |-> slots[s].adr, challenge |-> slots[s].challenge,
   sequence |-> slots[s].outgoing, what |-> what]

(* NETCHAN_GENCHECKSUM: challenge ^ (sequence * challenge), which is zero  *)
(* for the first message of every connection.  That two other challenges   *)
(* have the same checksum by accident is left out.                         *)
Checksum(challenge, sequence) == IF sequence = 1 THEN 0 ELSE challenge

(* A wrong Accepted, for mutation: the challenge is not looked at. *)
AcceptedFromAny(chan, p) == p.sequence > chan.incoming

(* The netchan with the given state lets p through. *)
Accepted(chan, p) ==
  /\ Checksum(chan.challenge, p.sequence) = Checksum(p.challenge, p.sequence)
  /\ p.sequence > chan.incoming

(***************************************************************************)
(* The server's challenges.                                                *)
(***************************************************************************)
(* A challenge for c, not yet used to connect, is at i or before it. *)
WasFound(c, i) ==
  \E j \in 1..i : ~challenges[j].connected /\ challenges[j].adr = c

(* The entries looked at before the search for the oldest is broken off. *)
Searched(c) ==
  {i \in Entries :
     \A j \in 1..i : ~(j > MaxChallengesMulti /\ WasFound(c, j))}

Oldest(c) ==
  LET time == Min({challenges[i].challenge : i \in Searched(c)})
  IN Min({i \in Searched(c) : challenges[i].challenge = time})

(* The challenges without the first one for c. *)
WithoutFirst(c) ==
  LET found == {i \in Entries : challenges[i].adr = c}
  IN IF found = {} THEN challenges
     ELSE [challenges EXCEPT ![Min(found)] = NoChallenge]

(* Every request is given a new number, in the oldest entry.  The answer   *)
(* goes out now, or when the authorize server has let the client in.       *)
SV_GetChallenge(p) ==
  LET n == Cardinality(DOMAIN given) + 1
      c == p.client
  IN /\ p.type = "getchallenge" /\ n <= MaxChallenge
     /\ challenges' = [challenges EXCEPT ![Oldest(c)] =
                        [NoChallenge EXCEPT !.adr = c, !.challenge = n,
                                            !.clientChallenge = p.challenge]]
     /\ given' = [i \in 1..n |->
                   IF i # n THEN given[i]
                   ELSE [client |-> c, attempt |-> p.challenge, used |-> 0]]
     /\ \/ Receive(p, {ChallengeResponse(c, n, p.challenge)})
        \/ Receive(p, {IpAuthorize(n)})
     /\ UNCHANGED <<slots, inGame, cl, ghosts>>

(* The authorize server answers: accept, or one of its refusals, which     *)
(* clear the challenge.                                                    *)
SV_AuthorizeIpPacket(p) ==
  LET found == {i \in Entries : challenges[i].challenge = p.challenge}
  IN /\ p.type = "ipAuthorize"
     /\ \/ found = {} /\ Receive(p, {}) /\ UNCHANGED challenges
        \/ \E i \in found :
             /\ Receive(p, {ChallengeResponse(challenges[i].adr, p.challenge,
                                       challenges[i].clientChallenge)})
             /\ UNCHANGED challenges
        \/ \E i \in found :
             /\ Receive(p, {})
             /\ challenges' = [challenges EXCEPT ![i] = NoChallenge]
     /\ UNCHANGED <<slots, inGame, cl, given, ghosts>>

(***************************************************************************)
(* The server's slots.                                                     *)
(***************************************************************************)
Live(s) == slots[s].state \notin {"free", "zombie"}

(* A wrong SlotsOf, for mutation: a zombie's slot is not the client's. *)
LiveSlotsOf(c) == {s \in Slots : slots[s].adr = c /\ Live(s)}

(* The slots a connection from c's address and qport would go to. *)
SlotsOf(c) == {s \in Slots : slots[s].adr = c}

ValidChallenges(p) ==
  {i \in Entries : /\ challenges[i].adr = p.client
                   /\ challenges[i].challenge = p.challenge}

(* The slots c's connection may go to: the one it has, or a free one.  Its *)
(* first is taken.                                                         *)
SlotsFor(c) ==
  IF SlotsOf(c) # {} THEN SlotsOf(c)
  ELSE {s \in Slots : slots[s].state = "free"}

Refuse(p) ==
  /\ Receive(p, {})
  /\ UNCHANGED <<challenges, slots, inGame, given, ghosts>>

(* The ping is above sv_maxPing or below sv_minPing. *)
RefuseForPing(p, i) ==
  /\ Receive(p, {})
  /\ challenges' = [challenges EXCEPT ![i].wasrefused = TRUE]
  /\ UNCHANGED <<slots, inGame, given, ghosts>>

(* The game says no: the slot has been wiped already, and if it was in use *)
(* the game is not told that its player has gone.                          *)
Deny(p, s) ==
  /\ Receive(p, {})
  /\ slots' = [slots EXCEPT ![s] = FreeSlot]
  /\ ghosts' = IF s \in inGame THEN ghosts \cup {s} ELSE ghosts
  /\ UNCHANGED <<inGame, given>>

Accept(p, s) ==
  /\ given[p.challenge].used < MaxAccepts
  /\ Receive(p, {ConnectResponse(p.client, p.challenge)})
  /\ slots' = [slots EXCEPT ![s] =
                [FreeSlot EXCEPT !.state = "connected", !.adr = p.client,
                   !.challenge = p.challenge]]
  /\ given' = [given EXCEPT ![p.challenge].used = @ + 1]
  /\ inGame' = inGame \cup {s}
  /\ ghosts' = ghosts \ {s}

SV_DirectConnect(p) ==
  /\ p.type = "connect"
  /\ \/ SlotsOf(p.client) # {} /\ Refuse(p)   \* sv_reconnectlimit
     \/ ValidChallenges(p) = {} /\ Refuse(p)
     \/ /\ ValidChallenges(p) # {}
        /\ LET i == Min(ValidChallenges(p))
           IN \/ challenges[i].wasrefused /\ Refuse(p)
              \/ ~challenges[i].wasrefused /\ RefuseForPing(p, i)
              \/ /\ ~challenges[i].wasrefused
                 /\ challenges' = [challenges EXCEPT ![i].connected = TRUE]
                 /\ \/ /\ SlotsOf(p.client) = {}   \* others hold the rest
                       /\ Receive(p, {})
                       /\ UNCHANGED <<slots, inGame, given, ghosts>>
                    \/ /\ SlotsFor(p.client) # {}
                       /\ LET s == Min(SlotsFor(p.client))
                          IN Deny(p, s) \/ Accept(p, s)
  /\ UNCHANGED cl

Zombie(slot) == [slot EXCEPT !.state = "zombie"]

(* Forgetting to tell the game, for mutation. *)
DropUnnoticed(s, left) ==
  /\ challenges' = WithoutFirst(slots[s].adr)
  /\ slots' = [slots EXCEPT ![s] = left]
  /\ UNCHANGED <<inGame, ghosts>>

(* The client of slot s is dropped, and the slot left as given. *)
SV_DropClient(s, left) ==
  /\ challenges' = WithoutFirst(slots[s].adr)
  /\ slots' = [slots EXCEPT ![s] = left]
  /\ inGame' = inGame \ {s}
  /\ UNCHANGED ghosts

(* A wrong SV_CheckTimeouts, for mutation: zombies are not looked at. *)
TimeoutsOfLive(s) ==
  /\ Live(s)
  /\ SV_DropClient(s, FreeSlot)
  /\ UNCHANGED <<cl, packets, given>>

(* sv_timeout, or for a zombie sv_zombietime, after the last packet. *)
SV_CheckTimeouts(s) ==
  /\ \/ /\ Live(s)
        /\ SV_DropClient(s, FreeSlot)
     \/ /\ slots[s].state = "zombie"
        /\ slots' = [slots EXCEPT ![s] = FreeSlot]
        /\ UNCHANGED <<challenges, inGame, ghosts>>
  /\ UNCHANGED <<cl, packets, given>>

(* The operator, or anything else that drops a client. *)
SV_Kick_f(s) ==
  /\ Live(s)
  /\ SV_DropClient(s, Zombie(slots[s]))
  /\ UNCHANGED <<cl, packets, given>>

(* A zombie is still sent its last command. *)
SV_SendClientMessages(s) ==
  /\ slots[s].state # "free" /\ slots[s].outgoing <= MaxSequence
  /\ Send({ServerMessage(s, IF Live(s) THEN "snapshot" ELSE "disconnect")})
  /\ slots' = [slots EXCEPT ![s].outgoing = @ + 1]
  /\ UNCHANGED <<challenges, inGame, cl, given, ghosts>>

(* The slot after the gamestate has been sent to its client. *)
GamestateSent(slot) ==
  [slot EXCEPT !.state = "primed", !.outgoing = @ + 1,
               !.gamestateMessageNum = slot.outgoing]

Heard(s, p) == [slots[s] EXCEPT !.incoming = p.sequence]

(* A message with another serverId brings the gamestate, if the client has *)
(* acknowledged something since it was last sent, and nothing else.  Of    *)
(* the others a move takes a client that is ready for it into the world.   *)
SV_ExecuteClientMessage(s, p) ==
  \/ /\ ~p.hasGamestate
     /\ p.acknowledge > slots[s].gamestateMessageNum
     /\ slots[s].outgoing <= MaxSequence
     /\ Receive(p, {ServerMessage(s, "gamestate")})
     /\ slots' = [slots EXCEPT ![s] = GamestateSent(Heard(s, p))]
     /\ UNCHANGED <<challenges, inGame, ghosts>>
  \/ /\ ~p.hasGamestate
     /\ p.acknowledge <= slots[s].gamestateMessageNum
     /\ Receive(p, {})
     /\ slots' = [slots EXCEPT ![s] = Heard(s, p)]
     /\ UNCHANGED <<challenges, inGame, ghosts>>
  \/ /\ p.hasGamestate /\ p.disconnect
     /\ Receive(p, {})
     /\ SV_DropClient(s, Zombie(Heard(s, p)))
  \/ /\ p.hasGamestate /\ ~p.disconnect
     /\ Receive(p, {})
     /\ slots' = [slots EXCEPT ![s] =
                   IF slots[s].state = "primed"
                   THEN [Heard(s, p) EXCEPT !.state = "active"]
                   ELSE Heard(s, p)]
     /\ UNCHANGED <<challenges, inGame, ghosts>>

SV_PacketEvent(p) ==
  /\ p.type = "client"
  /\ IF SlotsOf(p.client) = {} \/ ~Accepted(slots[Min(SlotsOf(p.client))], p)
     THEN Receive(p, {}) /\ UNCHANGED <<challenges, slots, inGame, ghosts>>
     ELSE LET s == Min(SlotsOf(p.client))
          IN \/ /\ slots[s].state = "zombie"
                /\ Receive(p, {})
                /\ slots' = [slots EXCEPT ![s] = Heard(s, p)]
                /\ UNCHANGED <<challenges, inGame, ghosts>>
             \/ Live(s) /\ SV_ExecuteClientMessage(s, p)
  /\ UNCHANGED <<cl, given>>

(***************************************************************************)
(* The client.                                                             *)
(***************************************************************************)
InConnection(c) == cl[c].state \in {"connected", "primed"}

(* The packets of CL_Disconnect: three of the same message in the code. *)
Goodbye(c) ==
  IF InConnection(c) /\ cl[c].outgoing <= MaxSequence
  THEN {ClientMessage(c, TRUE)} ELSE {}

CL_Disconnect_f(c) ==
  /\ cl[c].state # "disconnected"
  /\ Send(Goodbye(c))
  /\ cl' = [cl EXCEPT ![c] = Disconnected(cl[c].attempt)]
  /\ UNCHANGED <<challenges, slots, inGame, given, ghosts>>

(* A new random challenge for the server to give back: the attempt's number. *)
CL_Connect_f(c) ==
  LET n == cl[c].attempt + 1
  IN /\ n <= MaxConnects
     /\ Send(Goodbye(c))
     /\ cl' = [cl EXCEPT ![c] = [Disconnected(n) EXCEPT
                 !.state = "connecting", !.challenge = n]]
     /\ UNCHANGED <<challenges, slots, inGame, given, ghosts>>

CL_CheckForResend(c) ==
  /\ \/ cl[c].state = "connecting" /\ Send({GetChallenge(c)})
     \/ cl[c].state = "challenging" /\ Send({Connect(c)})
  /\ UNCHANGED <<challenges, slots, inGame, cl, given, ghosts>>

(* A wrong MyChallenge, for mutation: any answer will do. *)
AnyChallenge(p) == cl[p.client].state = "connecting"

(* p answers the request the client is making. *)
MyChallenge(p) ==
  /\ cl[p.client].state = "connecting"
  /\ p.clientChallenge = cl[p.client].challenge

CL_ConnectionlessPacket(p) ==
  /\ p.type \in {"challengeResponse", "connectResponse"}
  /\ Receive(p, {})
  /\ cl' = IF p.type = "challengeResponse" /\ MyChallenge(p)
           THEN [cl EXCEPT ![p.client].state = "challenging",
                           ![p.client].challenge = p.challenge]
           ELSE IF /\ p.type = "connectResponse"
                   /\ cl[p.client].state = "challenging"
                   /\ p.challenge = cl[p.client].challenge
           THEN [cl EXCEPT ![p.client].state = "connected"]
           ELSE cl
  /\ UNCHANGED <<challenges, slots, inGame, given, ghosts>>

(* The command "disconnect" is executed by the cgame, which runs only when *)
(* the gamestate is there.                                                 *)
CL_PacketEvent(p) ==
  LET c == p.client
      accepted == InConnection(c) /\ Accepted(cl[c], p)
      heard == [cl[c] EXCEPT !.incoming = p.sequence]
  IN /\ p.type = "server"
     /\ \/ ~accepted /\ Receive(p, {}) /\ UNCHANGED cl
        \/ /\ accepted /\ p.what = "gamestate"
           /\ Receive(p, {})
           /\ cl' = [cl EXCEPT ![c] = [heard EXCEPT !.state = "primed",
                !.gamestate = [challenge |-> p.challenge,
                               sequence |-> p.sequence]]]
        \/ /\ accepted /\ p.what = "disconnect" /\ cl[c].state = "primed"
           /\ Receive(p, Goodbye(c))
           /\ cl' = [cl EXCEPT ![c] = Disconnected(cl[c].attempt)]
        \/ /\ accepted
           /\ \/ p.what = "snapshot"
              \/ p.what = "disconnect" /\ cl[c].state = "connected"
           /\ Receive(p, {})
           /\ cl' = [cl EXCEPT ![c] = heard]
     /\ UNCHANGED <<challenges, slots, inGame, given, ghosts>>

CL_WritePacket(c) ==
  /\ InConnection(c) /\ cl[c].outgoing <= MaxSequence
  /\ Send({ClientMessage(c, FALSE)})
  /\ cl' = [cl EXCEPT ![c].outgoing = @ + 1]
  /\ UNCHANGED <<challenges, slots, inGame, given, ghosts>>

(* A wrong CL_CheckTimeout, for mutation: not before the gamestate. *)
TimeoutInGame(c) ==
  /\ cl[c].state = "primed"
  /\ Send(Goodbye(c))
  /\ cl' = [cl EXCEPT ![c] = Disconnected(cl[c].attempt)]
  /\ UNCHANGED <<challenges, slots, inGame, given, ghosts>>

(* cl_timeout after the last packet. *)
CL_CheckTimeout(c) ==
  /\ InConnection(c)
  /\ Send(Goodbye(c))
  /\ cl' = [cl EXCEPT ![c] = Disconnected(cl[c].attempt)]
  /\ UNCHANGED <<challenges, slots, inGame, given, ghosts>>

Next ==
  \/ \E p \in packets :
       \/ SV_GetChallenge(p) \/ SV_AuthorizeIpPacket(p) \/ SV_DirectConnect(p)
       \/ SV_PacketEvent(p) \/ CL_ConnectionlessPacket(p) \/ CL_PacketEvent(p)
       \/ Lose(p)
  \/ \E s \in Slots :
       \/ SV_CheckTimeouts(s) \/ SV_Kick_f(s) \/ SV_SendClientMessages(s)
  \/ \E c \in Clients :
       \/ CL_Connect_f(c) \/ CL_Disconnect_f(c) \/ CL_CheckForResend(c)
       \/ CL_WritePacket(c) \/ CL_CheckTimeout(c)

(* The client of slot s goes on sending messages that its netchan accepts; *)
(* a zombie's do not count as heard.                                       *)
SV_Hears(s) ==
  /\ Live(s) /\ InConnection(slots[s].adr)
  /\ cl[slots[s].adr].challenge = slots[s].challenge

(* The client asks for the slot's connection again. *)
AskedFor(s) ==
  /\ cl[slots[s].adr].state = "challenging"
  /\ cl[slots[s].adr].challenge = slots[s].challenge

(* The server sends messages to every slot, a zombie's too, and any packet, *)
(* the refused ones too, sets the client's lastPacketTime.                  *)
CL_Hears(c) == SlotsOf(c) # {}

(* A side that for ever has no one to hear from times out.  Nothing else   *)
(* is assumed of the network or the user, except that a connect is not     *)
(* repeated for ever (MaxAccepts).                                         *)
Fairness ==
  /\ \A s \in Slots :
       WF_vars(slots[s].state # "free" /\ ~SV_Hears(s) /\ ~AskedFor(s)
               /\ SV_CheckTimeouts(s))
  /\ \A c \in Clients : WF_vars(~CL_Hears(c) /\ CL_CheckTimeout(c))

Spec == Init /\ [][Next]_vars /\ Fairness

(***************************************************************************)
(* Properties.                                                             *)
(***************************************************************************)
(* Every number stays in its range, and a slot is in use exactly when it   *)
(* has an address.                                                         *)
TypeOK ==
  /\ \A i \in Entries : /\ challenges[i].adr \in Clients \cup {NoClient}
                        /\ challenges[i].challenge \in 0..MaxChallenge
  /\ \A s \in Slots :
       /\ slots[s].state \in {"free", "zombie", "connected", "primed", "active"}
       /\ slots[s].state = "free" <=> slots[s].adr = NoClient
       /\ slots[s].gamestateMessageNum < slots[s].outgoing
       /\ slots[s].outgoing \in 1..MaxSequence + 1
       /\ slots[s].incoming \in 0..MaxSequence
  /\ inGame \subseteq Slots /\ ghosts \subseteq inGame
  /\ Cardinality(packets) <= MaxInFlight

(* A client never has two slots, a zombie's included: SV_PacketEvent and   *)
(* the reuse of a slot by SV_DirectConnect look no further than the first. *)
OneSlotEach ==
  \A c \in Clients : Cardinality({s \in Slots : slots[s].adr = c}) <= 1

(* The game has a player in exactly the slots that are in use, except the  *)
(* one whose client connected again and was denied (ghosts).               *)
GameAgrees == \A s \in Slots : s \in inGame <=> Live(s) \/ s \in ghosts

(* A client goes on only with an answer to the request it is making, and   *)
(* so never joins with a number given to an earlier attempt of its own.    *)
AnswersThisAttempt ==
  \A c \in Clients :
    cl[c].state \in {"challenging", "connected", "primed"} =>
      LET g == given[cl[c].challenge]
      IN g.client = c /\ g.attempt = cl[c].attempt

(* A client that runs a gamestate and the slot it is connected to agree    *)
(* that one was sent, unless the client's connect was accepted twice, or   *)
(* the gamestate was the first message of an earlier connection, whose     *)
(* checksum is every challenge's.  In those two cases the client is never  *)
(* sent one and waits for ever.                                            *)
StuckOnlyIf ==
  \A c \in Clients : \A s \in SlotsOf(c) :
    (/\ cl[c].state = "primed" /\ Live(s)
     /\ slots[s].challenge = cl[c].challenge) =>
      \/ slots[s].gamestateMessageNum # -1
      \/ given[cl[c].challenge].used > 1
      \/ /\ cl[c].gamestate.sequence = 1
         /\ cl[c].gamestate.challenge # cl[c].challenge

(* The client believes in a connection that the server does not have. *)
Orphan(c) ==
  /\ InConnection(c)
  /\ \A s \in SlotsOf(c) : slots[s].challenge # cl[c].challenge

(* The server keeps a slot for a connection that its client is not in and  *)
(* does not ask for.                                                       *)
Abandoned(s) ==
  /\ slots[s].state # "free"
  /\ \/ slots[s].challenge # cl[slots[s].adr].challenge
     \/ cl[slots[s].adr].state \notin {"challenging", "connected", "primed"}

(* A client whose slot has gone finds out, though nobody tells it and      *)
(* every packet, the wrong ones too, sets lastPacketTime.                  *)
FindsOut == \A c \in Clients : Orphan(c) ~> ~Orphan(c)

(* A slot whose client has gone does not stay, a zombie neither. *)
EventuallyFreed == \A s \in Slots : Abandoned(s) ~> ~Abandoned(s)
(***************************************************************************)
(* What the invariants rest on.                                            *)
(***************************************************************************)
(* Challenge n was given to c. *)
WasGiven(n, c) == n \in DOMAIN given /\ given[n].client = c

GivenOK ==
  \E n \in 0..MaxChallenge :
    given \in [1..n -> [client : Clients, attempt : Nat, used : Nat]]

(* An entry remembers to whom its number was given, and for which attempt. *)
ChallengesOK ==
  /\ challenges \in [Entries -> [adr : Clients \cup {NoClient},
                                 challenge : 0..MaxChallenge,
                                 clientChallenge : Nat,
                                 connected : BOOLEAN, wasrefused : BOOLEAN]]
  /\ \A i \in Entries :
       LET e == challenges[i]
       IN e.challenge # 0 => /\ WasGiven(e.challenge, e.adr)
                             /\ given[e.challenge].attempt = e.clientChallenge

(* A slot is in use by the client to whom its challenge was given. *)
SlotsOK ==
  /\ slots \in [Slots -> [state : {"free", "zombie", "connected", "primed", "active"},
                          adr : Clients \cup {NoClient},
                          challenge : 0..MaxChallenge,
                          incoming : 0..MaxSequence,
                          outgoing : 1..MaxSequence + 1,
                          gamestateMessageNum : -1..MaxSequence]]
  /\ \A s \in Slots :
       slots[s].state # "free" => /\ WasGiven(slots[s].challenge, slots[s].adr)
                                  /\ given[slots[s].challenge].used > 0

(* A gamestate was sent to who connected with challenge n: the slot still  *)
(* knows, unless n was used again.                                         *)
Served(n) ==
  /\ n \in DOMAIN given /\ given[n].used > 0
  /\ \/ given[n].used > 1
     \/ \A s \in Slots : slots[s].state # "free" /\ slots[s].challenge = n =>
                          slots[s].gamestateMessageNum # -1

(* A client in a gamestate was sent it, for this connection or, as a first *)
(* message, for an earlier one.                                            *)
ClientsOK ==
  /\ cl \in [Clients -> [state : {"disconnected", "connecting", "challenging",
                                  "connected", "primed"},
                         challenge : Nat, incoming : Nat,
                         outgoing : 1..MaxSequence + 1, attempt : Nat,
                         gamestate : [challenge : Nat, sequence : Nat]]]
  /\ \A c \in Clients :
       /\ cl[c].state = "connecting" => cl[c].challenge = cl[c].attempt
       /\ cl[c].state \in {"challenging", "connected", "primed"} =>
            cl[c].challenge \in DOMAIN given
       /\ cl[c].state = "primed" =>
            /\ Served(cl[c].gamestate.challenge)
            /\ \/ cl[c].gamestate.sequence = 1
               \/ cl[c].gamestate.challenge = cl[c].challenge

(* What a packet says of a challenge is so, however late it comes. *)
PacketOK(p) ==
  /\ p.type # "ipAuthorize" => p.client \in Clients
  /\ p.type = "getchallenge" => p.challenge \in Nat
  /\ p.type = "ipAuthorize" => p.challenge \in DOMAIN given
  /\ p.type = "challengeResponse" =>
       /\ WasGiven(p.challenge, p.client)
       /\ given[p.challenge].attempt = p.clientChallenge
  /\ p.type = "connect" => WasGiven(p.challenge, p.client)
  /\ p.type \in {"client", "server"} => p.sequence \in 1..MaxSequence
  /\ p.type = "server" => p.challenge \in Nat
  /\ p.type = "server" /\ p.what = "gamestate" => Served(p.challenge)

PacketsOK ==
  /\ IsFiniteSet(packets)
  /\ \A p \in packets : PacketOK(p)

(* The inductive invariant: challenges, slots, players, clients, packets   *)
(* and the record of what was given to whom agree, and a client has one    *)
(* slot at most.  The ghosts' slots have been wiped.                       *)
IInv ==
  /\ TypeOK /\ OneSlotEach /\ GameAgrees /\ AnswersThisAttempt
  /\ \A s \in ghosts : slots[s].state = "free"
  /\ GivenOK /\ ChallengesOK /\ SlotsOK /\ ClientsOK /\ PacketsOK
=============================================================================
