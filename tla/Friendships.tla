----------------------------- MODULE Friendships -----------------------------
(***************************************************************************)
(* FriendshipsService and its controller: entering a code, accepting and   *)
(* declining, each split at its awaits.  A call decides on the row it      *)
(* loaded; other calls run before it writes.  Writes go by the row's _id,  *)
(* so a write to a row deleted meanwhile finds nothing, even when the same *)
(* two people have a new one.                                              *)
(***************************************************************************)
EXTENDS FiniteSets, Naturals

CONSTANTS
    Users,    \* people with an account, each with a pairing code
    None,     \* null
    Codes,    \* <<u, v>>: u was given v's pairing code
    OldPairs, \* the pairs with a row from before requests existed
    Calls,    \* requests the server can have in flight at once
    MaxRows   \* bound: friendship rows ever inserted

VARIABLES
    rows,     \* the friendships collection, by pair; the index keeps it unique
    inserted, \* rows inserted so far: the source of ids
    calls,    \* the requests in flight
    told      \* the last event sent about a pair

Pairs == {p \in SUBSET Users : \E u, v \in Users : u # v /\ p = {u, v}}

\* requestedBy is null in rows from before requests existed.
Row == [id : Nat, status : {"PENDING", "ACCEPTED"},
        requestedBy : Users \cup {None}]

\* Such a row: no status is read as ACCEPTED, the schema's default.
LegacyRow == [id |-> 0, status |-> "ACCEPTED", requestedBy |-> None]

News == {"friend:requested", "friend:paired"}

\* about: the pair the call is on.  doc: the row it loaded.
Idle == [pc |-> "idle", actor |-> None, about |-> None, doc |-> None,
         left |-> {}]

FriendshipsInit ==
    /\ rows = [p \in Pairs |-> IF p \in OldPairs THEN LegacyRow ELSE None]
    /\ inserted = 0
    /\ told = [p \in Pairs |-> None]

Begin(k, call) == calls[k] = Idle /\ calls' = [calls EXCEPT ![k] = call]

Goto(k, pc) == calls' = [calls EXCEPT ![k].pc = pc]

End(k) == calls' = [calls EXCEPT ![k] = Idle]

\* A call of u that loaded doc, about some pair or group.
Loaded(pc, u, about, doc) ==
    [pc |-> pc, actor |-> u, about |-> about, doc |-> doc, left |-> {}]

-----------------------------------------------------------------------------
Accepted(p) == rows[p] # None /\ rows[p].status # "PENDING"

ArePaired(u, v) == u = v \/ Accepted({u, v})

\* The request of v that waits for u (pendingFrom).
PendingFrom(u, v) ==
    /\ u # v
    /\ rows[{u, v}] # None
    /\ rows[{u, v}].status = "PENDING" /\ rows[{u, v}].requestedBy = v

\* What entering v's code comes to, given the row found.
PairOutcome(u, row) ==
    IF row = None THEN "insert"
    ELSE IF row.status # "PENDING" THEN "paired"
    ELSE IF row.requestedBy \notin {None, u} THEN "accept"
    ELSE "requested"

\* POST /pair: u enters v's code.
Pair(k, u, v) ==
    /\ <<u, v>> \in Codes /\ u # v
    /\ Begin(k, Loaded(PairOutcome(u, rows[{u, v}]), u, {u, v}, rows[{u, v}]))
    /\ UNCHANGED <<rows, inserted, told>>

\* create: refused by the unique index when a row is there by now.
InsertRow(k) ==
    LET p == calls[k].about IN
    /\ calls[k].pc = "insert"
    /\ \/ /\ rows[p] = None
          /\ inserted < MaxRows
          /\ inserted' = inserted + 1
          /\ rows' = [rows EXCEPT ![p] =
                [id |-> inserted', status |-> "PENDING",
                 requestedBy |-> calls[k].actor]]
          /\ Goto(k, "requested")
       \/ /\ rows[p] # None
          /\ End(k)
          /\ UNCHANGED <<rows, inserted>>
    /\ UNCHANGED told

\* POST /friends/requests/:userId/accept
Accept(k, u, v) ==
    /\ PendingFrom(u, v)
    /\ Begin(k, Loaded("accept", u, {u, v}, rows[{u, v}]))
    /\ UNCHANGED <<rows, inserted, told>>

\* Mutant of SaveAccepted: the row is found by its pair.
SaveAcceptedByPair(k) ==
    LET p == calls[k].about IN
    /\ calls[k].pc = "accept"
    /\ IF rows[p] # None
       THEN rows' = [rows EXCEPT ![p].status = "ACCEPTED"] /\ Goto(k, "paired")
       ELSE End(k) /\ UNCHANGED rows
    /\ UNCHANGED <<inserted, told>>

\* status = 'ACCEPTED'; save(): DocumentNotFoundError when the row is gone.
SaveAccepted(k) ==
    LET p == calls[k].about IN
    /\ calls[k].pc = "accept"
    /\ IF rows[p] # None /\ rows[p].id = calls[k].doc.id
       THEN rows' = [rows EXCEPT ![p].status = "ACCEPTED"] /\ Goto(k, "paired")
       ELSE End(k) /\ UNCHANGED rows
    /\ UNCHANGED <<inserted, told>>

\* POST /friends/requests/:userId/decline
Decline(k, u, v) ==
    /\ PendingFrom(u, v)
    /\ Begin(k, Loaded("delete", u, {u, v}, rows[{u, v}]))
    /\ UNCHANGED <<rows, inserted, told>>

\* deleteOne(), by _id, whatever became of the row.
DeleteRow(k) ==
    LET p == calls[k].about IN
    /\ calls[k].pc = "delete"
    /\ rows' = IF rows[p] # None /\ rows[p].id = calls[k].doc.id
               THEN [rows EXCEPT ![p] = None] ELSE rows
    /\ End(k)
    /\ UNCHANGED <<inserted, told>>

\* The controller's last step: the other hears of the request, or both that
\* they are paired.
AnnounceFriends(k) ==
    /\ \/ /\ calls[k].pc = "requested"
          /\ told' = [told EXCEPT ![calls[k].about] = "friend:requested"]
       \/ /\ calls[k].pc = "paired"
          /\ told' = [told EXCEPT ![calls[k].about] = "friend:paired"]
    /\ End(k)
    /\ UNCHANGED <<rows, inserted>>

-----------------------------------------------------------------------------
FriendshipsArrive(k) ==
    \E u, v \in Users : Pair(k, u, v) \/ Accept(k, u, v) \/ Decline(k, u, v)

FriendshipsStep(k) ==
    InsertRow(k) \/ SaveAccepted(k) \/ DeleteRow(k) \/ AnnounceFriends(k)
=============================================================================
