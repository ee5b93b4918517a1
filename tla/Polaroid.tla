------------------------------ MODULE Polaroid ------------------------------
(***************************************************************************)
(* The card of a lock (apps/web/src/components/Polaroid.tsx): when the     *)
(* client, which has rules of its own, offers to hold it.                  *)
(***************************************************************************)
EXTENDS LockEngine

\* The recipient has yet to write the condition of a "you decide" lock.
NeedsCondition(lock, u) ==
    /\ lock.conditionType = "RECIPIENT_SET" /\ ~Truthy(lock.conditionLabel)
    /\ IsRecipient(lock, u) /\ lock.state = "LOCKED"

\* Mutant of CanHold: a card without its condition can be held.
CanHoldUnwritten(lock, u) ==
    /\ lock.state # "UNLOCKED" /\ ~IsReply(lock)
    /\ \/ lock.conditionType # "TOGETHER" /\ IsRecipient(lock, u)
       \/ /\ lock.conditionType = "TOGETHER" /\ ~IsPairTogether(lock)
          /\ IsParticipant(lock, u) /\ u \notin lock.confirmedIds

CanHold(lock, u) ==
    /\ lock.state # "UNLOCKED" /\ ~NeedsCondition(lock, u) /\ ~IsReply(lock)
    /\ \/ /\ IsPairTogether(lock) /\ u = lock.senderId
          /\ lock.state = "LOCKED" /\ lock.replyId # None
       \/ /\ IsPairTogether(lock) /\ u # lock.senderId
          /\ IsRecipient(lock, u) /\ lock.state = "READY"
       \/ /\ lock.conditionType = "TOGETHER" /\ ~IsPairTogether(lock)
          /\ IsParticipant(lock, u) /\ u \notin lock.confirmedIds
       \/ lock.conditionType # "TOGETHER" /\ IsRecipient(lock, u)
=============================================================================
