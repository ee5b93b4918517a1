-------------------------------- MODULE Groups --------------------------------
(***************************************************************************)
(* GroupsService and its controller, on top of Friendships, which it asks  *)
(* about the people a group starts with.  A join replaces the array        *)
(* memberIds: its save is conditional on the version the group was loaded  *)
(* at, and increments it.                                                  *)
(***************************************************************************)
EXTENDS Friendships

CONSTANTS
    GroupIds,     \* ids (and invite codes) of the groups that can be created
    MaxMembers,   \* MAX_GROUP_MEMBERS
    MaxFailures   \* bound: database calls that fail

VARIABLES
    groups,    \* the groups collection: document or None, by id
    rosters,   \* the last roster each person was sent of a group, by id
    failures

friendVars == <<rows, inserted, told>>
groupVars == <<groups, rosters>>
vars == <<rows, inserted, told, calls, groups, rosters, failures>>

Group == [createdBy : Users, memberIds : SUBSET Users, version : Nat]

ASSUME CircleAssumptions ==
    /\ None \notin Users \cup GroupIds /\ None \notin Row \cup Group
    /\ MaxMembers \in Nat \ {0} /\ MaxRows \in Nat /\ MaxFailures \in Nat

\* A call is about nothing, a pair or a group.  left: the starting members of
\* a new group that are still to be checked.
FriendCall ==
    [pc : {"insert", "accept", "delete", "requested", "paired"}, actor : Users,
     about : Pairs, doc : Row \cup {None}, left : {{}}]

GroupCall ==
    [pc : {"check", "join", "roster"}, actor : Users,
     about : GroupIds \cup {None}, doc : Group, left : SUBSET Users]

Call == {Idle} \cup FriendCall \cup GroupCall

TypeOK ==
    /\ rows \in [Pairs -> Row \cup {None}]
    /\ inserted \in Nat
    /\ told \in [Pairs -> News \cup {None}]
    /\ calls \in [Calls -> Call]
    /\ groups \in [GroupIds -> Group \cup {None}]
    /\ rosters \in [GroupIds -> [Users -> SUBSET Users]]
    /\ failures \in Nat

Init ==
    /\ FriendshipsInit
    /\ calls = [k \in Calls |-> Idle]
    /\ groups = [g \in GroupIds |-> None]
    /\ rosters = [g \in GroupIds |-> [u \in Users |-> {}]]
    /\ failures = 0

Stored == {g \in GroupIds : groups[g] # None}

-----------------------------------------------------------------------------
\* The bound on groups: every group about to be inserted has an id left.
RoomLeft ==
    Cardinality(Stored) + Cardinality({k \in Calls : calls[k].pc = "check"})
        < Cardinality(GroupIds)

\* POST /groups: u starts a group with the people ids.
Create(k, u, ids) ==
    /\ RoomLeft
    /\ Cardinality(ids) <= MaxMembers
    /\ Begin(k, [Loaded("check", u, None,
                        [createdBy |-> u, memberIds |-> {u}, version |-> 0])
                 EXCEPT !.left = ids \ {u}])
    /\ UNCHANGED <<friendVars, groupVars, failures>>

\* The next of them is looked up, and refused unless paired with the creator.
CheckMember(k) ==
    /\ calls[k].pc = "check"
    /\ \E id \in calls[k].left :
        IF ArePaired(calls[k].actor, id)
        THEN calls' = [calls EXCEPT ![k].left = @ \ {id},
                                    ![k].doc.memberIds = @ \cup {id}]
        ELSE End(k)
    /\ UNCHANGED <<friendVars, groupVars, failures>>

\* All are: the group is inserted if it is not too large.
InsertGroup(k) ==
    /\ calls[k].pc = "check" /\ calls[k].left = {}
    /\ IF Cardinality(calls[k].doc.memberIds) > MaxMembers
       THEN End(k) /\ UNCHANGED groups
       ELSE \E g \in GroupIds \ Stored :
                /\ groups' = [groups EXCEPT ![g] = calls[k].doc]
                /\ calls' = [calls EXCEPT ![k].pc = "roster", ![k].about = g]
    /\ UNCHANGED <<friendVars, rosters, failures>>

\* POST /groups/join: u enters the invite code of g.
Join(k, u, g) ==
    /\ g \in Stored
    /\ \/ /\ u \in groups[g].memberIds
          /\ Begin(k, Loaded("roster", u, g, groups[g]))
       \/ /\ u \notin groups[g].memberIds
          /\ Cardinality(groups[g].memberIds) < MaxMembers
          /\ Begin(k, Loaded("join", u, g,
                             [groups[g] EXCEPT !.memberIds = @ \cup {u}]))
    /\ UNCHANGED <<friendVars, groupVars, failures>>

\* Mutant of SaveJoin: $addToSet, which needs no version.
SaveJoinAdding(k) ==
    /\ calls[k].pc = "join"
    /\ groups' = [groups EXCEPT ![calls[k].about].memberIds =
                                    @ \cup calls[k].doc.memberIds]
    /\ Goto(k, "roster")
    /\ UNCHANGED <<friendVars, rosters, failures>>

\* Mutant of SaveJoin: the last writer wins.
SaveJoinBlindly(k) ==
    /\ calls[k].pc = "join"
    /\ groups' = [groups EXCEPT ![calls[k].about].memberIds =
                                    calls[k].doc.memberIds]
    /\ Goto(k, "roster")
    /\ UNCHANGED <<friendVars, rosters, failures>>

\* memberIds = [...]; save(): VersionError when somebody joined meanwhile.
SaveJoin(k) ==
    LET g == calls[k].about IN
    /\ calls[k].pc = "join"
    /\ IF groups[g].version = calls[k].doc.version
       THEN /\ groups' = [groups EXCEPT ![g].memberIds = calls[k].doc.memberIds,
                                        ![g].version = @ + 1]
            /\ Goto(k, "roster")
       ELSE End(k) /\ UNCHANGED groups
    /\ UNCHANGED <<friendVars, rosters, failures>>

\* Mutant of AnnounceGroup: only the caller hears.
AnswerOnly(k) ==
    /\ calls[k].pc = "roster"
    /\ rosters' = [rosters EXCEPT ![calls[k].about][calls[k].actor] =
                                      calls[k].doc.memberIds]
    /\ End(k)
    /\ UNCHANGED <<friendVars, groups, failures>>

\* notifyGroupUpdated: every member hears the roster the call loaded.
AnnounceGroup(k) ==
    LET members == calls[k].doc.memberIds IN
    /\ calls[k].pc = "roster"
    /\ rosters' = [rosters EXCEPT ![calls[k].about] =
          [u \in Users |-> IF u \in members THEN members ELSE @[u]]]
    /\ End(k)
    /\ UNCHANGED <<friendVars, groups, failures>>

\* A database call throws, or the process restarts, before the call is done.
Fail(k) ==
    /\ failures < MaxFailures
    /\ calls[k] # Idle
    /\ failures' = failures + 1
    /\ End(k)
    /\ UNCHANGED <<friendVars, groupVars>>

-----------------------------------------------------------------------------
GroupsArrive(k) ==
    \E u \in Users :
        \/ \E ids \in SUBSET Users : Create(k, u, ids)
        \/ \E g \in GroupIds : Join(k, u, g)

GroupsStep(k) ==
    CheckMember(k) \/ InsertGroup(k) \/ SaveJoin(k) \/ AnnounceGroup(k)

Next ==
    \E k \in Calls :
        \/ FriendshipsArrive(k) /\ UNCHANGED <<groupVars, failures>>
        \/ FriendshipsStep(k) /\ UNCHANGED <<groupVars, failures>>
        \/ GroupsArrive(k)
        \/ GroupsStep(k)
        \/ Fail(k)

Spec == Init /\ [][Next]_vars

\* Every await returns; nobody has to call.
Fairness ==
    \A k \in Calls :
        WF_vars(\/ FriendshipsStep(k) /\ UNCHANGED <<groupVars, failures>>
                \/ GroupsStep(k))

FairSpec == Spec /\ Fairness

-----------------------------------------------------------------------------
(* Properties                                                              *)

\* "Only the other person can accept": a request becomes a friendship only by
\* a step of the one who was asked, who loaded that very request, however it
\* was declined and asked again, from either side, meanwhile.
OnlyTheAskedAccept ==
    [][\A p \in Pairs :
          rows[p] # None /\ rows[p].status = "PENDING" /\ rows'[p] # None
          /\ rows'[p].status # "PENDING" =>
              \E k \in Calls :
                  /\ calls[k].pc = "accept" /\ calls[k].about = p
                  /\ calls[k].doc = rows[p]
                  /\ calls[k].actor \in p
                  /\ calls[k].actor # rows[p].requestedBy]_vars

\* No two joins, each of which saw the last place free, both take it.
CapKept == \A g \in Stored : Cardinality(groups[g].memberIds) <= MaxMembers

\* Nobody who joined is lost to somebody else's join: members stay, and past
\* its save, a join announces nobody who is not stored.
MembersKept ==
    /\ \A g \in Stored : groups[g].createdBy \in groups[g].memberIds
    /\ \A k \in Calls :
           calls[k].pc = "roster" =>
               calls[k].doc.memberIds \subseteq groups[calls[k].about].memberIds

\* A friendship that was asked for is announced to both, and every roster to
\* all of it, if no call fails (an older roster may be sent again later).
EveryoneHears ==
    [](failures = 0) =>
        /\ \A p \in Pairs :
               <>(Accepted(p) /\ rows[p].requestedBy # None) =>
                   <>(told[p] = "friend:paired")
        /\ \A g \in GroupIds, members \in SUBSET Users :
               <>(g \in Stored /\ groups[g].memberIds = members) =>
                   <>(g \in Stored /\ \A u \in members :
                          members \subseteq rosters[g][u])

\* "Can you unpair? ... out of scope" (PAIRING.md), and decline() answers "No
\* request from that person is waiting." when none is: a friendship stays.
FriendsStay == [][\A p \in Pairs : Accepted(p) => Accepted(p)']_vars
=============================================================================
