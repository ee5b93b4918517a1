----------------------------- MODULE GroupsProofs -----------------------------
(***************************************************************************)
(* Proofs about Friendships and Groups: IInv is inductive, and what follows*)
(* from it, for any people, codes, calls, groups and member cap.           *)
(***************************************************************************)
EXTENDS GroupsInv, FiniteSetTheorems, TLAPS

-----------------------------------------------------------------------------
(* Types                                                                   *)

LEMMA IdleType == Idle \in Call /\ Idle.pc = "idle"
  BY DEF Idle, Call

\* Which kind a call is, by its point.
LEMMA CallTypes ==
  ASSUME NEW c \in Call
  PROVE  /\ c.pc \in {"insert", "accept", "delete", "requested", "paired"} =>
                c \in FriendCall
         /\ c.pc \in {"check", "join", "roster"} => c \in GroupCall
  BY DEF Call, FriendCall, GroupCall, Idle

LEMMA PairType ==
  ASSUME NEW u \in Users, NEW v \in Users, u # v
  PROVE  {u, v} \in Pairs
  BY DEF Pairs

\* A call just begun.
LEMMA LoadedType ==
  ASSUME NEW u, NEW pc, NEW about, NEW doc
  PROVE  Loaded(pc, u, about, doc) =
             [pc |-> pc, actor |-> u, about |-> about, doc |-> doc, left |-> {}]
  BY DEF Loaded

-----------------------------------------------------------------------------
(* Steps that write no row and no group                                    *)

\* Such a step keeps the invariant if the call it moves may rely on its part.
LEMMA QuietStep ==
  ASSUME IInv, NEW k \in Calls, NEW new \in Call, Relies(new),
         calls' = [calls EXCEPT ![k] = new],
         told' \in [Pairs -> News \cup {None}],
         rosters' \in [GroupIds -> [Users -> SUBSET Users]],
         failures' \in Nat,
         UNCHANGED <<rows, inserted, groups>>
  PROVE  IInv'
<1>1. TypeOK'
  BY DEF IInv, TypeOK
<1>2. \A p \in Pairs : RowInv(p)'
  BY DEF IInv, RowInv
<1>3. \A g \in GroupIds : GroupInv(g)'
  BY DEF IInv, GroupInv
<1>4. ASSUME NEW j \in Calls PROVE Relies(calls[j])'
  <2>1. calls'[j] = new \/ calls'[j] = calls[j]
    BY DEF IInv, TypeOK
  <2>2. Relies(calls[j]) /\ Relies(new)
    BY DEF IInv
  <2> QED
    BY <2>1, <2>2 DEF Relies, AcceptInv, JoinInv, Stored
<1> QED
  BY <1>1, <1>2, <1>3, <1>4 DEF IInv

\* A call that ends relies on nothing.
LEMMA EndStep ==
  ASSUME IInv, NEW k \in Calls, End(k),
         told' \in [Pairs -> News \cup {None}],
         rosters' \in [GroupIds -> [Users -> SUBSET Users]],
         failures' \in Nat,
         UNCHANGED <<rows, inserted, groups>>
  PROVE  IInv'
<1>1. Relies(Idle)
  BY IdleType DEF Relies
<1> QED
  BY <1>1, IdleType, QuietStep DEF End

LEMMA PairInv ==
  ASSUME IInv, NEW k \in Calls, NEW u \in Users, NEW v \in Users, Pair(k, u, v),
         UNCHANGED <<groupVars, failures>>
  PROVE  IInv'
<1> DEFINE row == rows[{u, v}]
           new == Loaded(PairOutcome(u, row), u, {u, v}, row)
<1>1. {u, v} \in Pairs /\ row \in Row \cup {None}
  BY PairType DEF Pair, IInv, TypeOK
<1>2. PairOutcome(u, row) \in {"insert", "accept", "requested", "paired"}
  BY DEF PairOutcome
<1>3. new \in Call
  BY <1>1, <1>2, LoadedType DEF Call, FriendCall
<1>4. Relies(new)
  BY <1>1, <1>2, LoadedType, CircleAssumptions
     DEF Relies, AcceptInv, PairOutcome, IInv, RowInv, Row
<1> QED
  BY <1>3, <1>4, QuietStep DEF Pair, Begin, IInv, TypeOK, groupVars

LEMMA AcceptKeeps ==
  ASSUME IInv, NEW k \in Calls, NEW u \in Users, NEW v \in Users,
         Accept(k, u, v), UNCHANGED <<groupVars, failures>>
  PROVE  IInv'
<1> DEFINE new == Loaded("accept", u, {u, v}, rows[{u, v}])
<1>1. {u, v} \in Pairs /\ rows[{u, v}] \in Row
  BY PairType DEF Accept, PendingFrom, IInv, TypeOK
<1>2. new \in Call
  BY <1>1, LoadedType DEF Call, FriendCall
<1>3. Relies(new)
  BY <1>1, LoadedType DEF Relies, AcceptInv, Accept, PendingFrom, IInv, RowInv
<1> QED
  BY <1>2, <1>3, QuietStep DEF Accept, Begin, IInv, TypeOK, groupVars

LEMMA DeclineInv ==
  ASSUME IInv, NEW k \in Calls, NEW u \in Users, NEW v \in Users,
         Decline(k, u, v), UNCHANGED <<groupVars, failures>>
  PROVE  IInv'
<1> DEFINE new == Loaded("delete", u, {u, v}, rows[{u, v}])
<1>1. {u, v} \in Pairs /\ rows[{u, v}] \in Row
  BY PairType DEF Decline, PendingFrom, IInv, TypeOK
<1>2. new \in Call
  BY <1>1, LoadedType DEF Call, FriendCall
<1>3. Relies(new)
  BY <1>1, LoadedType DEF Relies
<1> QED
  BY <1>2, <1>3, QuietStep DEF Decline, Begin, IInv, TypeOK, groupVars

LEMMA AnnounceFriendsInv ==
  ASSUME IInv, NEW k \in Calls, AnnounceFriends(k),
         UNCHANGED <<groupVars, failures>>
  PROVE  IInv'
<1>1. told' \in [Pairs -> News \cup {None}]
  BY DEF AnnounceFriends, IInv, TypeOK, News
<1> QED
  BY <1>1, EndStep DEF AnnounceFriends, IInv, TypeOK, groupVars

LEMMA CreateInv ==
  ASSUME IInv, NEW k \in Calls, NEW u \in Users, NEW ids \in SUBSET Users,
         Create(k, u, ids)
  PROVE  IInv'
<1> DEFINE doc == [createdBy |-> u, memberIds |-> {u}, version |-> 0]
           new == [Loaded("check", u, None, doc) EXCEPT !.left = ids \ {u}]
<1>1. new = [pc |-> "check", actor |-> u, about |-> None, doc |-> doc,
             left |-> ids \ {u}]
  <2> HIDE DEF doc
  <2>1. Loaded("check", u, None, doc) =
            [pc |-> "check", actor |-> u, about |-> None, doc |-> doc, left |-> {}]
    BY LoadedType
  <2> QED
    BY <2>1
<1>2. doc \in Group
  BY DEF Group
<1>3. new \in Call
  BY <1>1, <1>2 DEF Call, GroupCall
<1>4. IsFiniteSet({u})
  BY FS_Singleton
<1>5. Relies(new)
  <2>1. new.pc = "check" /\ new.doc.createdBy = u /\ new.doc.memberIds = {u}
    BY <1>1
  <2> QED
    BY <1>4, <2>1 DEF Relies
<1> QED
  BY <1>3, <1>5, QuietStep DEF Create, Begin, IInv, TypeOK, groupVars, friendVars

LEMMA CheckMemberInv ==
  ASSUME IInv, NEW k \in Calls, CheckMember(k)
  PROVE  IInv'
<1>1. PICK id \in calls[k].left :
        IF ArePaired(calls[k].actor, id)
        THEN calls' = [calls EXCEPT ![k].left = @ \ {id},
                                    ![k].doc.memberIds = @ \cup {id}]
        ELSE End(k)
  BY DEF CheckMember
<1>2. calls[k] \in GroupCall /\ calls[k].pc = "check"
  BY CallTypes DEF CheckMember, IInv, TypeOK
<1>3. UNCHANGED <<rows, inserted, told, groups, rosters, failures>>
  BY DEF CheckMember, friendVars, groupVars
<1>4. /\ told' \in [Pairs -> News \cup {None}] /\ failures' \in Nat
      /\ rosters' \in [GroupIds -> [Users -> SUBSET Users]]
  BY <1>3 DEF IInv, TypeOK
<1>5. CASE End(k)
  BY <1>3, <1>4, <1>5, EndStep
<1>6. CASE ~End(k)
  <2> DEFINE doc == [calls[k].doc EXCEPT !.memberIds = @ \cup {id}]
             new == [calls[k] EXCEPT !.left = @ \ {id}, !.doc = doc]
  <2>1. id \in Users /\ calls[k].doc \in Group /\ doc \in Group
    BY <1>2 DEF GroupCall, Group
  <2>2. new \in Call /\ new.pc = "check" /\ new.doc = doc
    BY <1>2, <2>1 DEF Call, GroupCall
  <2>3. calls' = [calls EXCEPT ![k] = new]
    BY <1>1, <1>2, <1>6, <2>1 DEF IInv, TypeOK, GroupCall, Group
  <2>4. /\ calls[k].doc.createdBy \in calls[k].doc.memberIds
        /\ IsFiniteSet(calls[k].doc.memberIds)
    BY <1>2 DEF IInv, Relies
  <2>5. /\ doc.memberIds = calls[k].doc.memberIds \cup {id}
        /\ doc.createdBy = calls[k].doc.createdBy
    BY <2>1 DEF Group
  <2>6. IsFiniteSet(doc.memberIds)
    BY <2>4, <2>5, FS_AddElement
  <2>7. Relies(new)
    BY <2>2, <2>4, <2>5, <2>6 DEF Relies
  <2> QED
    BY <1>3, <1>4, <2>2, <2>3, <2>7, QuietStep
<1> QED
  BY <1>5, <1>6

LEMMA JoinKeeps ==
  ASSUME IInv, NEW k \in Calls, NEW u \in Users, NEW g \in GroupIds, Join(k, u, g)
  PROVE  IInv'
<1>1. groups[g] \in Group /\ g \in Stored
  BY DEF Join, Stored, IInv, TypeOK
<1>2. UNCHANGED <<rows, inserted, told, groups, rosters, failures>>
  BY DEF Join, friendVars, groupVars
<1>3. /\ told' \in [Pairs -> News \cup {None}] /\ failures' \in Nat
      /\ rosters' \in [GroupIds -> [Users -> SUBSET Users]]
  BY <1>2 DEF IInv, TypeOK
<1>4. CASE Begin(k, Loaded("roster", u, g, groups[g]))
  <2> DEFINE new == Loaded("roster", u, g, groups[g])
  <2>1. new \in Call
    BY <1>1, LoadedType DEF Call, GroupCall
  <2>2. Relies(new)
    BY <1>1, LoadedType DEF Relies
  <2> QED
    BY <1>2, <1>3, <1>4, <2>1, <2>2, QuietStep DEF Begin
<1>5. CASE ~Begin(k, Loaded("roster", u, g, groups[g]))
  <2> DEFINE doc == [groups[g] EXCEPT !.memberIds = @ \cup {u}]
             new == Loaded("join", u, g, doc)
  <2>1. /\ Cardinality(groups[g].memberIds) < MaxMembers
        /\ Begin(k, new)
    BY <1>5 DEF Join
  <2>2. /\ doc \in Group /\ doc.version = groups[g].version
        /\ doc.memberIds = groups[g].memberIds \cup {u}
    BY <1>1 DEF Group
  <2>3. new \in Call
    BY <1>1, <2>2, LoadedType DEF Call, GroupCall
  <2>4. Relies(new)
    BY <1>1, <2>1, <2>2, LoadedType DEF Relies, JoinInv, Group
  <2> QED
    BY <1>2, <1>3, <2>1, <2>3, <2>4, QuietStep DEF Begin
<1> QED
  BY <1>4, <1>5

LEMMA AnnounceGroupInv ==
  ASSUME IInv, NEW k \in Calls, AnnounceGroup(k)
  PROVE  IInv'
<1>1. calls[k] \in GroupCall
  BY CallTypes DEF AnnounceGroup, IInv, TypeOK
<1>2. calls[k].doc.memberIds \in SUBSET Users
  BY <1>1 DEF GroupCall, Group
<1>3. rosters' \in [GroupIds -> [Users -> SUBSET Users]]
  BY <1>2 DEF AnnounceGroup, IInv, TypeOK
<1> QED
  BY <1>3, EndStep DEF AnnounceGroup, IInv, TypeOK, friendVars

LEMMA FailInv ==
  ASSUME IInv, NEW k \in Calls, Fail(k)
  PROVE  IInv'
<1>1. failures' \in Nat
  BY DEF Fail, IInv, TypeOK
<1> QED
  BY <1>1, EndStep DEF Fail, IInv, TypeOK, friendVars, groupVars


-----------------------------------------------------------------------------
(* Steps that write a row                                                  *)

\* A step that writes row of pair p keeps the invariant if what the calls on p
\* rely on still holds.
LEMMA RowStep ==
  ASSUME IInv, NEW k \in Calls, NEW new \in Call, Relies(new)',
         new.pc # "accept", new.pc # "join",
         NEW p \in Pairs, NEW row \in Row \cup {None},
         rows' = [rows EXCEPT ![p] = row],
         calls' = [calls EXCEPT ![k] = new],
         inserted' \in Nat, inserted <= inserted',
         row # None => /\ row.id <= inserted'
                       /\ row.status = "PENDING" => row.requestedBy \in p,
         row # None /\ row.status = "PENDING" =>
             row = rows[p] \/ row.id > inserted,
         UNCHANGED <<told, groups, rosters, failures>>
  PROVE  IInv'
<1>1. TypeOK'
  BY DEF IInv, TypeOK
<1>2. ASSUME NEW q \in Pairs PROVE RowInv(q)'
  <2>1. CASE q = p
    BY <2>1 DEF RowInv, IInv, TypeOK
  <2>2. CASE q # p
    <3>1. rows'[q] = rows[q] /\ rows[q] \in Row \cup {None} /\ RowInv(q)
      BY <2>2 DEF IInv, TypeOK
    <3> QED
      BY <3>1 DEF RowInv, Row, IInv, TypeOK
  <2> QED
    BY <2>1, <2>2
<1>3. \A g \in GroupIds : GroupInv(g)'
  BY DEF IInv, GroupInv
<1>4. ASSUME NEW j \in Calls PROVE Relies(calls[j])'
  <2>1. CASE j = k
    BY <2>1 DEF IInv, TypeOK
  <2>2. CASE j # k
    <3>1. calls'[j] = calls[j] /\ calls[j] \in Call /\ Relies(calls[j])
      BY <2>2 DEF IInv, TypeOK
    <3>2. calls[j].pc = "accept" => AcceptInv(calls[j])'
      <4> SUFFICES ASSUME calls[j].pc = "accept" PROVE AcceptInv(calls[j])'
        OBVIOUS
      <4>1. /\ calls[j].about \in Pairs /\ calls[j].doc \in Row
            /\ AcceptInv(calls[j])
        BY <3>1, CallTypes DEF Relies, AcceptInv, FriendCall
      <4>2. calls[j].doc.id \in Nat /\ inserted \in Nat
        BY <4>1 DEF Row, IInv, TypeOK
      <4>3. CASE calls[j].about = p
        <5>1. rows'[p] = row
          BY DEF IInv, TypeOK
        <5>2. row # None => row.id \in Nat
          BY DEF Row
        <5> QED
          BY <3>1, <4>1, <4>2, <4>3, <5>1, <5>2 DEF AcceptInv
      <4>4. CASE calls[j].about # p
        <5>1. rows'[calls[j].about] = rows[calls[j].about]
          BY <4>1, <4>4 DEF IInv, TypeOK
        <5> QED
          BY <3>1, <4>1, <4>2, <5>1 DEF AcceptInv
      <4> QED
        BY <4>3, <4>4
    <3>3. calls[j].pc = "join" => JoinInv(calls[j])'
      BY <3>1 DEF Relies, JoinInv, Stored
    <3> QED
      BY <3>1, <3>2, <3>3 DEF Relies, Stored
  <2> QED
    BY <2>1, <2>2
<1> QED
  BY <1>1, <1>2, <1>3, <1>4 DEF IInv

\* The call after its write: it only has something to announce.
LEMMA Announces ==
  ASSUME IInv, NEW k \in Calls, calls[k] \in FriendCall,
         NEW pc \in {"requested", "paired"}
  PROVE  /\ [calls[k] EXCEPT !.pc = pc] \in Call
         /\ [calls[k] EXCEPT !.pc = pc].pc = pc
  BY DEF Call, FriendCall

LEMMA InsertRowInv ==
  ASSUME IInv, NEW k \in Calls, InsertRow(k), UNCHANGED <<groupVars, failures>>
  PROVE  IInv'
<1>1. calls[k] \in FriendCall
  BY CallTypes DEF InsertRow, IInv, TypeOK
<1>2. PICK p \in Pairs : p = calls[k].about
  BY <1>1 DEF FriendCall
<1>3. calls[k].actor \in Users
  BY <1>1 DEF FriendCall
<1>4. CASE rows[p] # None
  BY <1>2, <1>4, EndStep DEF InsertRow, IInv, TypeOK, groupVars
<1>5. CASE rows[p] = None
  <2>1. inserted' = inserted + 1 /\ inserted \in Nat
    BY <1>2, <1>5 DEF InsertRow, IInv, TypeOK
  <2>2. PICK row \in Row : row = [id |-> inserted + 1, status |-> "PENDING",
                                  requestedBy |-> calls[k].actor]
    <3>1. [id |-> inserted + 1, status |-> "PENDING",
           requestedBy |-> calls[k].actor] \in Row
      BY <1>3, <2>1 DEF Row
    <3> QED
      BY <3>1
  <2>3. PICK new \in Call : new = [calls[k] EXCEPT !.pc = "requested"]
    BY <1>1, Announces
  <2>4. new.pc = "requested"
    BY <1>1, <2>3, Announces
  <2>5. /\ rows' = [rows EXCEPT ![p] = row]
        /\ calls' = [calls EXCEPT ![k] = new]
    BY <1>2, <1>5, <2>1, <2>2, <2>3 DEF InsertRow, Goto, IInv, TypeOK
  <2>6. calls[k].actor \in p
    BY <1>2 DEF InsertRow, IInv, Relies
  <2>7. Relies(new)'
    BY <2>4 DEF Relies
  <2>8. UNCHANGED <<told, groups, rosters, failures>>
    BY DEF InsertRow, groupVars
  <2>9. /\ row.id <= inserted' /\ row.id > inserted /\ row.requestedBy \in p
        /\ inserted' \in Nat /\ inserted <= inserted'
    BY <2>1, <2>2, <2>6
  <2> QED
    BY <2>4, <2>5, <2>7, <2>8, <2>9, RowStep
<1> QED
  BY <1>4, <1>5

LEMMA SaveAcceptedInv ==
  ASSUME IInv, NEW k \in Calls, SaveAccepted(k), UNCHANGED <<groupVars, failures>>
  PROVE  IInv'
<1>1. calls[k] \in FriendCall
  BY CallTypes DEF SaveAccepted, IInv, TypeOK
<1>2. PICK p \in Pairs : p = calls[k].about
  BY <1>1 DEF FriendCall
<1>3. CASE ~(rows[p] # None /\ rows[p].id = calls[k].doc.id)
  BY <1>2, <1>3, EndStep DEF SaveAccepted, IInv, TypeOK, groupVars
<1>4. CASE rows[p] # None /\ rows[p].id = calls[k].doc.id
  <2>1. rows[p] \in Row /\ RowInv(p) /\ inserted \in Nat
    BY <1>4 DEF IInv, TypeOK
  <2>2. PICK row \in Row : row = [rows[p] EXCEPT !.status = "ACCEPTED"]
    BY <2>1 DEF Row
  <2>3. row.status = "ACCEPTED" /\ row.id <= inserted
    BY <1>4, <2>1, <2>2 DEF Row, RowInv
  <2>4. PICK new \in Call : new = [calls[k] EXCEPT !.pc = "paired"]
    BY <1>1, Announces
  <2>5. new.pc = "paired"
    BY <1>1, <2>4, Announces
  <2>6. /\ rows' = [rows EXCEPT ![p] = row]
        /\ calls' = [calls EXCEPT ![k] = new]
    BY <1>2, <1>4, <2>2, <2>4 DEF SaveAccepted, Goto, IInv, TypeOK
  <2>7. Relies(new)'
    BY <2>5 DEF Relies
  <2>8. UNCHANGED <<inserted, told, groups, rosters, failures>>
    BY DEF SaveAccepted, groupVars
  <2>9. inserted' \in Nat /\ inserted <= inserted'
    BY <2>1, <2>8
  <2> QED
    BY <2>3, <2>5, <2>6, <2>7, <2>8, <2>9, RowStep
<1> QED
  BY <1>3, <1>4

LEMMA DeleteRowInv ==
  ASSUME IInv, NEW k \in Calls, DeleteRow(k), UNCHANGED <<groupVars, failures>>
  PROVE  IInv'
<1> DEFINE p == calls[k].about
<1>1. calls[k] \in FriendCall
  BY CallTypes DEF DeleteRow, IInv, TypeOK
<1>2. p \in Pairs
  BY <1>1 DEF FriendCall
<1>3. UNCHANGED <<inserted, told, groups, rosters, failures>> /\ End(k)
  BY DEF DeleteRow, groupVars
<1>4. CASE UNCHANGED rows
  BY <1>3, <1>4, EndStep DEF IInv, TypeOK
<1>5. CASE rows' = [rows EXCEPT ![p] = None]
  <2>1. Relies(Idle)'
    BY IdleType DEF Relies
  <2>2. inserted \in Nat
    BY DEF IInv, TypeOK
  <2> DEFINE row == None
             new == Idle
  <2>3. /\ calls' = [calls EXCEPT ![k] = new]
        /\ rows' = [rows EXCEPT ![p] = row]
        /\ new \in Call /\ Relies(new)'
        /\ row \in Row \cup {None}
    BY <1>3, <1>5, <2>1, IdleType DEF End
  <2>4. new.pc # "accept" /\ new.pc # "join" /\ row = None
    BY IdleType
  <2> HIDE DEF p, row, new
  <2>5. /\ inserted' \in Nat /\ inserted <= inserted'
        /\ row # None => /\ row.id <= inserted'
                         /\ row.status = "PENDING" => row.requestedBy \in p
        /\ row # None /\ row.status = "PENDING" =>
               row = rows[p] \/ row.id > inserted
    BY <1>3, <2>2, <2>4
  <2> QED
    BY <1>2, <1>3, <2>3, <2>4, <2>5, RowStep
<1> QED
  BY <1>4, <1>5 DEF DeleteRow

-----------------------------------------------------------------------------
(* Steps that write a group                                                *)

\* A step that writes group g keeps the invariant if it only adds members, and
\* moves the version on unless the group is new.
LEMMA GroupStep ==
  ASSUME IInv, NEW k \in Calls, NEW new \in Call, Relies(new)',
         NEW g \in GroupIds, NEW doc \in Group,
         groups' = [groups EXCEPT ![g] = doc],
         calls' = [calls EXCEPT ![k] = new],
         doc.createdBy \in doc.memberIds, IsFiniteSet(doc.memberIds),
         Cardinality(doc.memberIds) <= MaxMembers,
         groups[g] # None => /\ groups[g].memberIds \subseteq doc.memberIds
                             /\ groups[g].version < doc.version,
         UNCHANGED <<rows, inserted, told, rosters, failures>>
  PROVE  IInv'
<1>1. TypeOK'
  BY DEF IInv, TypeOK
<1>2. \A p \in Pairs : RowInv(p)'
  BY DEF IInv, RowInv
<1>3. ASSUME NEW h \in GroupIds PROVE GroupInv(h)'
  <2>1. groups'[h] = groups[h] \/ (h = g /\ groups'[h] = doc)
    BY DEF IInv, TypeOK
  <2> QED
    BY <2>1 DEF IInv, GroupInv
<1>4. ASSUME NEW j \in Calls PROVE Relies(calls[j])'
  <2>1. CASE j = k
    BY <2>1 DEF IInv, TypeOK
  <2>2. CASE j # k
    <3>1. calls'[j] = calls[j] /\ calls[j] \in Call /\ Relies(calls[j])
      BY <2>2 DEF IInv, TypeOK
    <3>2. ASSUME NEW h \in Stored
          PROVE  /\ h \in Stored'
                 /\ groups[h] \in Group /\ groups'[h] \in Group
                 /\ groups[h].memberIds \subseteq groups'[h].memberIds
                 /\ groups[h].version <= groups'[h].version
                 /\ groups'[h] = groups[h]
                    \/ groups[h].version < groups'[h].version
      <4>1. h \in GroupIds /\ groups[h] # None /\ groups[h] \in Group
        BY DEF Stored, IInv, TypeOK
      <4>2. CASE h = g
        <5>1. groups'[h] = doc /\ doc # None
          BY <4>2, CircleAssumptions DEF IInv, TypeOK
        <5> QED
          BY <4>1, <4>2, <5>1 DEF Stored, Group
      <4>3. CASE h # g
        <5>1. groups'[h] = groups[h]
          BY <4>1, <4>3 DEF IInv, TypeOK
        <5> QED
          BY <4>1, <5>1 DEF Stored, Group
      <4> QED
        BY <4>2, <4>3
    <3>3. calls[j].pc = "join" => JoinInv(calls[j])'
      <4> SUFFICES ASSUME calls[j].pc = "join" PROVE JoinInv(calls[j])'
        OBVIOUS
      <4>1. JoinInv(calls[j]) /\ calls[j].doc \in Group
        BY <3>1, CallTypes DEF Relies, GroupCall
      <4>2. PICK h \in Stored : h = calls[j].about
        BY <4>1 DEF JoinInv
      <4>3. calls[j].doc.version \in Nat
        BY <4>1 DEF Group
      <4>4. groups[h].version \in Nat /\ groups'[h].version \in Nat
        BY <3>2 DEF Group
      <4> QED
        BY <3>1, <3>2, <4>1, <4>2, <4>3, <4>4 DEF JoinInv
    <3>4. calls[j].pc = "accept" => AcceptInv(calls[j])'
      BY <3>1 DEF Relies, AcceptInv
    <3>5. calls[j].pc = "roster" =>
              /\ calls[j].about \in Stored'
              /\ calls[j].doc.memberIds \subseteq groups'[calls[j].about].memberIds
      BY <3>1, <3>2 DEF Relies
    <3> QED
      BY <3>1, <3>3, <3>4, <3>5 DEF Relies
  <2> QED
    BY <2>1, <2>2
<1> QED
  BY <1>1, <1>2, <1>3, <1>4 DEF IInv

LEMMA InsertGroupInv ==
  ASSUME IInv, NEW k \in Calls, InsertGroup(k)
  PROVE  IInv'
<1>1. calls[k] \in GroupCall /\ Relies(calls[k]) /\ calls[k].pc = "check"
  BY CallTypes DEF InsertGroup, IInv, TypeOK
<1>2. PICK doc \in Group : doc = calls[k].doc
  BY <1>1 DEF GroupCall
<1>3. UNCHANGED <<rows, inserted, told, rosters, failures>>
  BY DEF InsertGroup, friendVars
<1>4. CASE Cardinality(doc.memberIds) > MaxMembers
  BY <1>2, <1>3, <1>4, EndStep DEF InsertGroup, IInv, TypeOK
<1>5. CASE ~(Cardinality(doc.memberIds) > MaxMembers)
  <2>1. PICK g \in GroupIds \ Stored :
          /\ groups' = [groups EXCEPT ![g] = doc]
          /\ calls' = [calls EXCEPT ![k].pc = "roster", ![k].about = g]
    BY <1>2, <1>5 DEF InsertGroup
  <2>2. PICK new \in Call :
          new = [calls[k] EXCEPT !.pc = "roster", !.about = g]
    <3>1. [calls[k] EXCEPT !.pc = "roster", !.about = g] \in Call
      BY <1>1 DEF Call, GroupCall
    <3> QED
      BY <3>1
  <2>3. new.pc = "roster" /\ new.about = g /\ new.doc = doc
    BY <1>1, <1>2, <2>2 DEF GroupCall
  <2>4. calls' = [calls EXCEPT ![k] = new]
    BY <1>1, <2>1, <2>2 DEF IInv, TypeOK, GroupCall
  <2>5. doc.createdBy \in doc.memberIds /\ IsFiniteSet(doc.memberIds)
    BY <1>1, <1>2 DEF Relies
  <2>6. Cardinality(doc.memberIds) <= MaxMembers
    <3>1. Cardinality(doc.memberIds) \in Nat
      BY <2>5, FS_CardinalityType
    <3> QED
      BY <1>5, <3>1, CircleAssumptions
  <2>7. groups[g] = None
    BY DEF Stored
  <2>8. groups'[g] = doc /\ doc # None
    BY <2>1, CircleAssumptions DEF IInv, TypeOK
  <2>9. Relies(new)'
    BY <2>3, <2>8 DEF Relies, Stored
  <2> QED
    BY <1>3, <2>1, <2>4, <2>5, <2>6, <2>7, <2>9, GroupStep
<1> QED
  BY <1>4, <1>5

\* A group with its members replaced and its version moved on.
LEMMA Replaced ==
  ASSUME NEW d \in Group, NEW members
  PROVE  [d EXCEPT !.memberIds = members, !.version = @ + 1]
             = [createdBy |-> d.createdBy, memberIds |-> members,
                version |-> d.version + 1]
<1> DEFINE e == [createdBy |-> d.createdBy, memberIds |-> members,
                 version |-> d.version]
<1>1. [d EXCEPT !.memberIds = members] = e
  BY DEF Group
<1>2. [d EXCEPT !.memberIds = members, !.version = @ + 1]
        = [e EXCEPT !.version = @ + 1]
  BY <1>1
<1>3. [e EXCEPT !.version = @ + 1]
        = [createdBy |-> d.createdBy, memberIds |-> members,
           version |-> d.version + 1]
  OBVIOUS
<1> QED
  BY <1>2, <1>3

LEMMA SaveJoinInv ==
  ASSUME IInv, NEW k \in Calls, SaveJoin(k)
  PROVE  IInv'
<1>1. calls[k] \in GroupCall /\ JoinInv(calls[k])
  BY CallTypes DEF SaveJoin, IInv, TypeOK, Relies
<1>2. PICK g \in Stored : g = calls[k].about
  BY <1>1 DEF JoinInv
<1>3. g \in GroupIds /\ groups[g] # None /\ groups[g] \in Group /\ GroupInv(g)
  BY DEF Stored, IInv, TypeOK
<1>4. UNCHANGED <<rows, inserted, told, rosters, failures>>
  BY DEF SaveJoin, friendVars
<1>5. CASE groups[g].version # calls[k].doc.version
  BY <1>2, <1>4, <1>5, EndStep DEF SaveJoin, IInv, TypeOK
<1>6. CASE groups[g].version = calls[k].doc.version
  <2> DEFINE u == calls[k].actor
             m == groups[g].memberIds
  <2>1. /\ calls[k].doc.memberIds = m \cup {u}
        /\ Cardinality(m) < MaxMembers
    BY <1>1, <1>2, <1>6 DEF JoinInv
  <2>2. u \in Users /\ m \in SUBSET Users /\ groups[g].version \in Nat
    BY <1>1, <1>3 DEF GroupCall, Group
  <2>3. PICK doc \in Group :
          doc = [groups[g] EXCEPT !.memberIds = m \cup {u}, !.version = @ + 1]
    <3>1. groups[g].version + 1 \in Nat /\ m \cup {u} \in SUBSET Users
      BY <2>2
    <3>2. [groups[g] EXCEPT !.memberIds = m \cup {u}, !.version = @ + 1]
            = [createdBy |-> groups[g].createdBy, memberIds |-> m \cup {u},
               version |-> groups[g].version + 1]
      BY <1>3, Replaced
    <3>3. groups[g].createdBy \in Users
      BY <1>3 DEF Group
    <3>4. [createdBy |-> groups[g].createdBy, memberIds |-> m \cup {u},
           version |-> groups[g].version + 1] \in Group
      BY <3>1, <3>3 DEF Group
    <3> QED
      BY <3>2, <3>4
  <2>4. /\ doc.createdBy = groups[g].createdBy /\ doc.memberIds = m \cup {u}
        /\ doc.version = groups[g].version + 1
    BY <1>3, <2>3 DEF Group
  <2>5. PICK new \in Call : new = [calls[k] EXCEPT !.pc = "roster"]
    <3>1. [calls[k] EXCEPT !.pc = "roster"] \in Call
      BY <1>1 DEF Call, GroupCall
    <3> QED
      BY <3>1
  <2>6. new.pc = "roster" /\ new.about = g /\ new.doc = calls[k].doc
    BY <1>1, <1>2, <2>5 DEF GroupCall
  <2>7. calls' = [calls EXCEPT ![k] = new]
    BY <1>2, <1>6, <2>5 DEF SaveJoin, Goto, IInv, TypeOK
  <2>8. groups' = [groups EXCEPT ![g] = doc]
    BY <1>2, <1>3, <1>6, <2>1, <2>3 DEF SaveJoin, IInv, TypeOK, Group
  <2>9. /\ IsFiniteSet(m)
        /\ IsFiniteSet(m \cup {u}) /\ Cardinality(m \cup {u}) <= MaxMembers
    <3>1. IsFiniteSet(m) /\ Cardinality(m) \in Nat
      BY <1>3, FS_CardinalityType DEF GroupInv
    <3>2. /\ IsFiniteSet(m \cup {u})
          /\ Cardinality(m \cup {u}) \in {Cardinality(m), Cardinality(m) + 1}
      BY <3>1, FS_AddElement
    <3> QED
      BY <2>1, <3>1, <3>2, CircleAssumptions
  <2>10. groups'[g] = doc /\ doc # None
    BY <1>3, <2>8, CircleAssumptions DEF IInv, TypeOK
  <2>11. Relies(new)'
    BY <1>3, <2>1, <2>4, <2>6, <2>10 DEF Relies, Stored
  <2>12. /\ doc.createdBy \in doc.memberIds /\ IsFiniteSet(doc.memberIds)
         /\ Cardinality(doc.memberIds) <= MaxMembers
         /\ groups[g].memberIds \subseteq doc.memberIds
         /\ groups[g].version < doc.version
    BY <1>3, <2>2, <2>4, <2>9 DEF GroupInv
  <2> QED
    BY <1>3, <1>4, <2>7, <2>8, <2>11, <2>12, GroupStep
<1> QED
  BY <1>5, <1>6

-----------------------------------------------------------------------------
(* The invariant                                                           *)

LEMMA InitInv == Init => IInv
<1> SUFFICES ASSUME Init PROVE IInv
  OBVIOUS
<1>1. LegacyRow \in Row
  BY DEF LegacyRow, Row
<1>2. TypeOK
  BY <1>1, IdleType DEF Init, FriendshipsInit, TypeOK
<1>3. \A p \in Pairs : RowInv(p)
  BY <1>1 DEF Init, FriendshipsInit, RowInv, LegacyRow
<1>4. \A g \in GroupIds : GroupInv(g)
  BY DEF Init, GroupInv
<1>5. \A k \in Calls : Relies(calls[k])
  BY IdleType DEF Init, Relies
<1> QED
  BY <1>2, <1>3, <1>4, <1>5 DEF IInv

LEMMA NextInv == IInv /\ [Next]_vars => IInv'
<1> SUFFICES ASSUME IInv, [Next]_vars PROVE IInv'
  OBVIOUS
<1>1. CASE UNCHANGED vars
  BY <1>1 DEF vars, IInv, TypeOK, RowInv, GroupInv, Relies, AcceptInv, JoinInv,
              Stored
<1>2. ASSUME NEW k \in Calls, FriendshipsArrive(k), UNCHANGED <<groupVars, failures>>
      PROVE  IInv'
  BY <1>2, PairInv, AcceptKeeps, DeclineInv DEF FriendshipsArrive
<1>3. ASSUME NEW k \in Calls, FriendshipsStep(k), UNCHANGED <<groupVars, failures>>
      PROVE  IInv'
  BY <1>3, InsertRowInv, SaveAcceptedInv, DeleteRowInv, AnnounceFriendsInv
     DEF FriendshipsStep
<1>4. ASSUME NEW k \in Calls, GroupsArrive(k) PROVE IInv'
  BY <1>4, CreateInv, JoinKeeps DEF GroupsArrive
<1>5. ASSUME NEW k \in Calls, GroupsStep(k) PROVE IInv'
  BY <1>5, CheckMemberInv, InsertGroupInv, SaveJoinInv, AnnounceGroupInv
     DEF GroupsStep
<1>6. ASSUME NEW k \in Calls, Fail(k) PROVE IInv'
  BY <1>6, FailInv
<1> QED
  BY <1>1, <1>2, <1>3, <1>4, <1>5, <1>6 DEF Next

\* Whatever the people do, and whichever calls fail, the collections and the
\* calls in flight stay as IInv says.
THEOREM CirclesInvariance == Spec => []IInv
BY InitInv, NextInv, PTL DEF Spec

\* Every row, group and call in flight has the shape the schemas give it.
THEOREM CirclesTypeCorrect == Spec => []TypeOK
<1>1. IInv => TypeOK
  BY DEF IInv
<1> QED
  BY <1>1, CirclesInvariance, PTL

\* The version check keeps the cap (groups.service.ts, join), however many
\* joins are in flight at once.
THEOREM CapIsKept == Spec => []CapKept
<1>1. IInv => CapKept
  BY DEF IInv, GroupInv, CapKept, Stored
<1> QED
  BY <1>1, CirclesInvariance, PTL

\* No join loses the member another added, and none announces a roster that
\* names somebody who is not stored.
THEOREM MembersAreKept == Spec => []MembersKept
<1>1. IInv => MembersKept
  BY DEF IInv, GroupInv, Relies, MembersKept, Stored
<1> QED
  BY <1>1, CirclesInvariance, PTL

\* The step behind OnlyAskedAccept.
LEMMA AcceptanceStep ==
  ASSUME IInv, Next, NEW p \in Pairs,
         rows[p] # None, rows[p].status = "PENDING",
         rows'[p] # None, rows'[p].status # "PENDING"
  PROVE  \E k \in Calls :
             /\ calls[k].pc = "accept" /\ calls[k].about = p
             /\ calls[k].doc = rows[p]
             /\ calls[k].actor \in p
             /\ calls[k].actor # rows[p].requestedBy
<1>1. rows' # rows
  OBVIOUS
<1>2. PICK k \in Calls : InsertRow(k) \/ SaveAccepted(k) \/ DeleteRow(k)
  <2>1. PICK k \in Calls : \/ FriendshipsArrive(k) \/ FriendshipsStep(k)
                          \/ GroupsArrive(k) \/ GroupsStep(k) \/ Fail(k)
    BY DEF Next
  <2>2. ~FriendshipsArrive(k)
    BY <1>1 DEF FriendshipsArrive, Pair, Accept, Decline
  <2>3. ~GroupsArrive(k)
    BY <1>1 DEF GroupsArrive, Create, Join, friendVars
  <2>4. ~GroupsStep(k)
    BY <1>1 DEF GroupsStep, CheckMember, InsertGroup, SaveJoin, AnnounceGroup, friendVars
  <2>5. ~Fail(k)
    BY <1>1 DEF Fail, friendVars
  <2>6. ~AnnounceFriends(k)
    BY <1>1 DEF AnnounceFriends
  <2> QED
    BY <2>1, <2>2, <2>3, <2>4, <2>5, <2>6 DEF FriendshipsStep
<1>3. rows \in [Pairs -> Row \cup {None}] /\ calls \in [Calls -> Call]
  BY DEF IInv, TypeOK
<1>4. CASE InsertRow(k)
  BY <1>3, <1>4, CallTypes DEF InsertRow, FriendCall
<1>5. CASE DeleteRow(k)
  BY <1>3, <1>5, CallTypes DEF DeleteRow, FriendCall
<1>6. CASE SaveAccepted(k)
  <2>1. calls[k].pc = "accept" /\ calls[k] \in FriendCall
    BY <1>3, <1>6, CallTypes DEF SaveAccepted
  <2>2. calls[k].about = p /\ rows[p].id = calls[k].doc.id
    BY <1>3, <1>6, <2>1 DEF SaveAccepted, FriendCall
  <2>3. AcceptInv(calls[k])
    BY <2>1 DEF IInv, Relies
  <2> QED
    BY <2>1, <2>2, <2>3 DEF AcceptInv
<1> QED
  BY <1>2, <1>4, <1>5, <1>6

\* A request becomes a friendship only by the one it was made to, on that very
\* request (friendships.service.ts, accept and pair).
THEOREM OnlyAskedAccept == Spec => OnlyTheAskedAccept
<1>1. IInv /\ [Next]_vars =>
        [\A p \in Pairs :
            rows[p] # None /\ rows[p].status = "PENDING" /\ rows'[p] # None
            /\ rows'[p].status # "PENDING" =>
                \E k \in Calls :
                    /\ calls[k].pc = "accept" /\ calls[k].about = p
                    /\ calls[k].doc = rows[p]
                    /\ calls[k].actor \in p
                    /\ calls[k].actor # rows[p].requestedBy]_vars
  BY AcceptanceStep
<1> QED
  BY <1>1, CirclesInvariance, PTL DEF Spec, OnlyTheAskedAccept
=============================================================================
