------------------------------- MODULE Lockbox -------------------------------
(***************************************************************************)
(* What the stash service promises about locks, as the product spec words  *)
(* it (SPEC.md, "Condition types" and "Groups"): one atomic step for each  *)
(* thing people do to a lock.  Documents, snapshots, saves, timers, events *)
(* and failures are left to the service; it implements this module.        *)
(***************************************************************************)
CONSTANTS Users, LockIds, None

VARIABLE boxes   \* the locks people have sealed: what is known of each, or None

Box == [senderId : Users, recipientIds : SUBSET Users,
        conditionType : {"MANUAL", "TOGETHER", "RECIPIENT_SET"},
        named : BOOLEAN,                    \* a recipient wrote the condition
        answers : LockIds \cup {None},      \* the trade this one answers
        state : {"LOCKED", "READY", "UNLOCKED"},
        held : SUBSET Users,                \* who has completed a hold
        alone : BOOLEAN]                    \* the sender went ahead

\* A lock as it is sealed: nobody has held it.
NewBox == [senderId : Users, recipientIds : SUBSET Users,
           conditionType : {"MANUAL", "TOGETHER", "RECIPIENT_SET"},
           named : BOOLEAN, answers : LockIds \cup {None},
           state : {"LOCKED"}, held : {{}}, alone : {FALSE}]

LockboxTypeOK == boxes \in [LockIds -> Box \cup {None}]

Exists(l) == boxes[l] # None

Answer(r, l) == Exists(r) /\ boxes[r].answers = l

Everyone(box) == {box.senderId} \cup box.recipientIds

\* "Open together" between exactly two people, not itself an answer.
Trade(box) ==
    /\ box.conditionType = "TOGETHER" /\ box.answers = None
    /\ \E u \in box.recipientIds :
           u # box.senderId /\ Everyone(box) = {box.senderId, u}

SelfStash(box) == Everyone(box) = {box.senderId}

Init == boxes = [l \in LockIds |-> None]

\* A new lock is sealed; an answer goes to the sender of a trade, from one of
\* its recipients.
Seal(l) ==
    /\ ~Exists(l)
    /\ \E box \in NewBox :
        /\ box.conditionType = "RECIPIENT_SET" => ~box.named
        /\ box.answers # None =>
               /\ Exists(box.answers) /\ Trade(boxes[box.answers])
               /\ box.conditionType = "TOGETHER"
               /\ box.senderId \in boxes[box.answers].recipientIds
               /\ box.recipientIds = {boxes[box.answers].senderId}
        /\ boxes' = [boxes EXCEPT ![l] = box]

\* The recipient of a "you decide" lock writes its condition.
Name(l) ==
    /\ Exists(l) /\ boxes[l].conditionType = "RECIPIENT_SET"
    /\ boxes' = [boxes EXCEPT ![l].named = TRUE]

\* One hold opens a lock that waits for a recipient, or for its sender alone.
HoldSolo(l, u) ==
    /\ Exists(l) /\ boxes[l].state # "UNLOCKED"
    /\ \/ boxes[l].conditionType = "MANUAL" /\ u \in boxes[l].recipientIds
       \/ /\ boxes[l].conditionType = "RECIPIENT_SET"
          /\ u \in boxes[l].recipientIds /\ boxes[l].named
       \/ /\ boxes[l].conditionType = "TOGETHER" /\ boxes[l].answers = None
          /\ SelfStash(boxes[l]) /\ u = boxes[l].senderId
    /\ boxes' = [boxes EXCEPT ![l].state = "UNLOCKED", ![l].held = @ \cup {u}]

\* In a group everyone holds once; the last hold opens it.
HoldGroup(l, u) ==
    /\ Exists(l) /\ boxes[l].state # "UNLOCKED"
    /\ boxes[l].conditionType = "TOGETHER" /\ boxes[l].answers = None
    /\ ~Trade(boxes[l]) /\ ~SelfStash(boxes[l])
    /\ u \in Everyone(boxes[l]) \ boxes[l].held
    /\ boxes' = [boxes EXCEPT
          ![l].state = IF Everyone(boxes[l]) \subseteq boxes[l].held \cup {u}
                       THEN "UNLOCKED" ELSE "READY",
          ![l].held = @ \cup {u}]

\* The sender of an answered trade starts its opening.
StartTrade(l) ==
    /\ Exists(l) /\ Trade(boxes[l]) /\ boxes[l].state = "LOCKED"
    /\ \E r \in LockIds : Answer(r, l)
    /\ boxes' = [boxes EXCEPT ![l].state = "READY",
                              ![l].held = @ \cup {boxes[l].senderId}]

\* The recipient opens a started trade with them.
FinishTrade(l, u) ==
    /\ Exists(l) /\ Trade(boxes[l]) /\ boxes[l].state = "READY"
    /\ u \in boxes[l].recipientIds \ {boxes[l].senderId}
    /\ boxes' = [boxes EXCEPT ![l].state = "UNLOCKED", ![l].held = @ \cup {u}]

\* The minute is over.  That the recipient may open in the same moment is a
\* race the service does not exclude.
GoAhead(l) ==
    /\ Exists(l) /\ Trade(boxes[l]) /\ boxes[l].state # "LOCKED"
    /\ boxes' = [boxes EXCEPT ![l].alone = TRUE]

\* An answer opens with the trade it answers, or when its sender went ahead.
OpenAnswer(r, l) ==
    /\ Answer(r, l) /\ boxes[r].state = "LOCKED"
    /\ boxes[l].state = "UNLOCKED" \/ boxes[l].alone
    /\ boxes' = [boxes EXCEPT ![r].state = "UNLOCKED",
                              ![r].held = Everyone(boxes[r])]

Next ==
    \E l \in LockIds :
        \/ Seal(l) \/ Name(l) \/ StartTrade(l) \/ GoAhead(l)
        \/ \E u \in Users : HoldSolo(l, u) \/ HoldGroup(l, u) \/ FinishTrade(l, u)
        \/ \E r \in LockIds : OpenAnswer(r, l)

Spec == Init /\ [][Next]_boxes
=============================================================================
