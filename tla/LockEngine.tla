----------------------------- MODULE LockEngine -----------------------------
(***************************************************************************)
(* The pure rules of a lock (apps/api/src/stashes/lock.engine.ts): who     *)
(* takes part, who may hold, and what one hold does.  A lock is a record   *)
(* with the fields of LockEngineInput; lists of ids are sets, since the    *)
(* code only appends, de-duplicates and tests membership.                  *)
(***************************************************************************)
EXTENDS FiniteSets

CONSTANT None   \* null: no label, no moment, no linked lock

\* Text that is only white space.  trim() makes it "", which is falsy.
Blank == ""

\* Boolean(label), for a stored label.
Truthy(label) == label \notin {None, Blank}

Participants(lock) == {lock.senderId} \cup lock.recipientIds

IsRecipient(lock, u) == u \in lock.recipientIds

IsParticipant(lock, u) == u \in Participants(lock)

\* participants(lock).length === 1
IsSelfStash(lock) == \A u \in lock.recipientIds : u = lock.senderId

\* participants(lock).length === 2
TwoPeople(lock) ==
    \E u \in lock.recipientIds :
        u # lock.senderId /\ Participants(lock) = {lock.senderId, u}

IsReply(lock) == lock.replyToId # None

IsPairTogether(lock) ==
    lock.conditionType = "TOGETHER" /\ TwoPeople(lock) /\ ~IsReply(lock)

CanSetCondition(lock, u) ==
    /\ lock.conditionType = "RECIPIENT_SET"
    /\ IsRecipient(lock, u)
    /\ lock.state = "LOCKED"
    /\ ~Truthy(lock.conditionLabel)

\* Mutant of CanConfirmTogether: the sender starts a trade nobody answered.
StartsUnanswered(lock, u) ==
    \/ IsSelfStash(lock)
    \/ IsPairTogether(lock) /\ u = lock.senderId /\ lock.state = "LOCKED"
    \/ /\ IsPairTogether(lock)
       /\ u # lock.senderId
       /\ IsRecipient(lock, u) /\ lock.state = "READY"

\* The branches of canConfirm for a TOGETHER lock that is no stash-back.
CanConfirmTogether(lock, u) ==
    \/ IsSelfStash(lock)
    \/ /\ IsPairTogether(lock)
       /\ u = lock.senderId
       /\ lock.state = "LOCKED" /\ lock.replyId # None
    \/ /\ IsPairTogether(lock)
       /\ u # lock.senderId
       /\ IsRecipient(lock, u) /\ lock.state = "READY"
    \/ /\ ~IsSelfStash(lock) /\ ~IsPairTogether(lock)
       /\ IsParticipant(lock, u) /\ u \notin lock.confirmedIds

\* Mutant of CanConfirm: a "you decide" lock needs no condition.
CanConfirmUnwritten(lock, u) ==
    /\ lock.state # "UNLOCKED"
    /\ IF lock.conditionType = "TOGETHER"
       THEN ~IsReply(lock) /\ CanConfirmTogether(lock, u)
       ELSE IsRecipient(lock, u)

CanConfirm(lock, u) ==
    /\ lock.state # "UNLOCKED"
    /\ \/ lock.conditionType = "MANUAL" /\ IsRecipient(lock, u)
       \/ /\ lock.conditionType = "RECIPIENT_SET"
          /\ IsRecipient(lock, u) /\ Truthy(lock.conditionLabel)
       \/ /\ lock.conditionType = "TOGETHER"
          /\ ~IsReply(lock) /\ CanConfirmTogether(lock, u)

\* startedOpening: this hold starts a pair opening.
StartsOpening(lock, u) == IsPairTogether(lock) /\ u = lock.senderId

\* The holds still missing from a group TOGETHER lock (remainingHolds is
\* their number); none for anything else.
RemainingHolds(lock) ==
    IF \/ lock.conditionType # "TOGETHER" \/ lock.state = "UNLOCKED"
       \/ IsPairTogether(lock) \/ IsReply(lock)
    THEN {}
    ELSE Participants(lock) \ lock.confirmedIds

\* Mutant of StateAfter: the sender's hold is not waited for.
StateAfterRecipients(lock, u) ==
    IF IsPairTogether(lock)
    THEN IF u = lock.senderId THEN "READY" ELSE "UNLOCKED"
    ELSE IF lock.conditionType # "TOGETHER" \/ IsSelfStash(lock)
            \/ lock.recipientIds \subseteq lock.confirmedIds \cup {u}
         THEN "UNLOCKED" ELSE "READY"

StateAfter(lock, u) ==
    LET everyone == Participants(lock) \subseteq lock.confirmedIds \cup {u}
        opens == IF IsPairTogether(lock)
                 THEN u # lock.senderId
                 ELSE \/ lock.conditionType # "TOGETHER"
                      \/ IsSelfStash(lock) \/ everyone
    IN  IF opens THEN "UNLOCKED" ELSE "READY"

\* The document as confirm() stages it: applyConfirm, and the start of the
\* one-minute wait when this hold started a pair opening.  unlockedAt is
\* written exactly when state becomes UNLOCKED and is left out.
ApplyConfirm(lock, u) ==
    [lock EXCEPT !.state = StateAfter(lock, u),
                 !.confirmedIds = @ \cup {u},
                 !.openingStartedAt = @ \/ StartsOpening(lock, u)]

DefaultConditionLabel(type, label) ==
    IF type = "RECIPIENT_SET" THEN None
    ELSE IF Truthy(label) THEN label
    ELSE IF type = "TOGETHER" THEN "Open together"
    ELSE "Open when it feels right"
=============================================================================
