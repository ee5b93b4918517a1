------------------------------ MODULE GroupsInv ------------------------------
(***************************************************************************)
(* The inductive invariant of Friendships and Groups: what the stored rows *)
(* and groups satisfy, and what a call in flight may rely on of the one it *)
(* loaded.                                                                 *)
(***************************************************************************)
EXTENDS Groups

\* A request was made by one of the two.
RowInv(p) ==
    rows[p] # None =>
        /\ rows[p].id <= inserted
        /\ rows[p].status = "PENDING" => rows[p].requestedBy \in p

GroupInv(g) ==
    groups[g] # None =>
        /\ groups[g].createdBy \in groups[g].memberIds
        /\ IsFiniteSet(groups[g].memberIds)
        /\ Cardinality(groups[g].memberIds) <= MaxMembers

\* An acceptance: the request it loaded was the other's, and is the stored one
\* if that has the same id and still waits.
AcceptInv(call) ==
    LET row == rows[call.about] IN
    /\ call.actor \in call.about
    /\ call.doc # None /\ call.doc.id <= inserted
    /\ call.doc.requestedBy # call.actor
    /\ row # None /\ row.id = call.doc.id /\ row.status = "PENDING" =>
           row = call.doc

\* A join: good as long as the version check will let it through.
JoinInv(call) ==
    LET group == groups[call.about] IN
    /\ call.about \in Stored
    /\ call.doc.version <= group.version
    /\ call.doc.version = group.version =>
           /\ call.doc.memberIds = group.memberIds \cup {call.actor}
           /\ Cardinality(group.memberIds) < MaxMembers

Relies(call) ==
    /\ call.pc = "insert" => call.actor \in call.about
    /\ call.pc = "accept" => AcceptInv(call)
    /\ call.pc = "check" =>
           /\ call.doc.createdBy \in call.doc.memberIds
           /\ IsFiniteSet(call.doc.memberIds)
    /\ call.pc = "join" => JoinInv(call)
    /\ call.pc = "roster" =>
           /\ call.about \in Stored
           /\ call.doc.memberIds \subseteq groups[call.about].memberIds

IInv ==
    /\ TypeOK
    /\ \A p \in Pairs : RowInv(p)
    /\ \A g \in GroupIds : GroupInv(g)
    /\ \A k \in Calls : Relies(calls[k])
=============================================================================
