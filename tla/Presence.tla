------------------------------ MODULE Presence ------------------------------
(***************************************************************************)
(* RealtimeGateway: the sockets of one user.  A socket is connected for    *)
(* the browser as soon as the handshake is over; the server has yet to     *)
(* verify its token and to load the user before the socket is in the       *)
(* user's room, and waits for the room before it counts it as present.     *)
(***************************************************************************)
EXTENDS FiniteSets, Integers, Sequences

CONSTANT
    MaxDrops  \* bound: connections that end

VARIABLES
    alive,    \* sockets connected on the browser's side
    checked,  \* sockets whose token is being verified, and their user loaded
    room,     \* sockets in the user's room
    joining,  \* sockets whose join the server waits for, not counted yet
    online,   \* sockets counted as present
    drops     \* connections ended so far

presence == <<alive, checked, room, joining, online, drops>>

\* The user's sockets: each connection is a new one.
Sockets == 1 .. MaxDrops + 1

\* A browser connects: the handshake; handleConnection begins.
Connect(s) ==
    /\ s \notin alive \cup checked \cup room \cup joining \cup online
    /\ alive' = alive \cup {s} /\ checked' = checked \cup {s}
    /\ UNCHANGED <<room, joining, online, drops>>

\* readToken, verifyToken, getOrCreate, and join, whether or not the socket is
\* still connected: one that is not enters no room.
Join(s) ==
    /\ s \in checked
    /\ checked' = checked \ {s} /\ joining' = joining \cup {s}
    /\ room' = IF s \in alive THEN room \cup {s} ELSE room
    /\ UNCHANGED <<alive, online, drops>>

\* The join is over: addPresence, whatever became of the socket meanwhile.
AddPresence(s) ==
    /\ s \in joining
    /\ joining' = joining \ {s} /\ online' = online \cup {s}
    /\ UNCHANGED <<alive, checked, room, drops>>

\* The token is not accepted (a reconnect sends the one of the first connect,
\* however old): the server ends the connection.
Refuse(s) ==
    /\ s \in checked /\ drops < MaxDrops
    /\ checked' = checked \ {s} /\ alive' = alive \ {s} /\ drops' = drops + 1
    /\ UNCHANGED <<room, joining, online>>

\* Mutant of RemovePresence: a user with two sockets leaves with the first.
RemoveUser(s) == online' = {}

RemovePresence(s) == online' = online \ {s}

\* The connection drops.  handleDisconnect knows the user only once they are
\* loaded; before that it leaves admission to go on.  While the join is waited
\* for there is no presence to remove yet.
Drop(s) ==
    /\ s \in alive /\ drops < MaxDrops
    /\ alive' = alive \ {s} /\ room' = room \ {s} /\ drops' = drops + 1
    /\ IF s \in checked THEN online' = online ELSE RemovePresence(s)
    /\ UNCHANGED <<checked, joining>>

PresenceInit ==
    /\ alive = {} /\ checked = {} /\ room = {} /\ joining = {} /\ online = {}
    /\ drops = 0

\* Several tabs of the user come and go.
PresenceNext ==
    \E s \in Sockets :
        Connect(s) \/ Join(s) \/ AddPresence(s) \/ Refuse(s) \/ Drop(s)

PresenceSpec == PresenceInit /\ [][PresenceNext]_presence

\* A socket is connected and in the user's room: it can hear the server.
Joined(s) == s \in alive /\ s \in room

-----------------------------------------------------------------------------
\* isOnline never denies someone who was admitted: whatever tabs come and go,
\* and while others are being admitted, a socket that hears the server is
\* counted, but for the moment its own join is waited for: then isOnline may
\* still say no, of someone who can hear.  (The converse fails: a socket that
\* drops while it is admitted is counted for good.)
PresentIsOnline ==
    \A s \in Sockets : Joined(s) /\ s \notin joining => s \in online

\* That moment passes: from some time after it connected, a socket is counted
\* for as long as it is connected.
ComesOnline == \A s \in Sockets : s \in alive ~> [](s \in alive => s \in online)
=============================================================================
