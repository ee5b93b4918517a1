------------------------------ MODULE StashesInv ------------------------------
(***************************************************************************)
(* The inductive invariant of Stashes: what the stored locks satisfy, and  *)
(* what a request in flight may still rely on of the document it read,     *)
(* while other requests change the stored one.                             *)
(***************************************************************************)
EXTENDS Stashes, Polaroid

-----------------------------------------------------------------------------
(* Stored locks                                                            *)

\* The fields nothing writes after the insert.
SameLock(s, t) ==
    /\ s.senderId = t.senderId /\ s.recipientIds = t.recipientIds
    /\ s.conditionType = t.conditionType /\ s.context = t.context
    /\ s.requiresMfa = t.requiresMfa /\ s.replyToId = t.replyToId

\* Stash-back answer fits the trade it answers, lock.
Fits(answer, lock) ==
    /\ IsPairTogether(lock)
    /\ answer.conditionType = "TOGETHER"
    /\ answer.senderId \in lock.recipientIds
    /\ answer.recipientIds = {lock.senderId}

\* A sealed group "open together" lacks a hold.
StillLacks(lock) ==
    /\ lock.conditionType = "TOGETHER" /\ lock.state # "UNLOCKED"
    /\ ~IsPairTogether(lock) /\ ~IsReply(lock)
    => ~(Participants(lock) \subseteq lock.confirmedIds)

\* Held by its people and opened by its rule, but for a self-stash.
LockHeld(lock) == ~OwnStash(lock) => RightlyHeld(lock)

LockInv(l) ==
    LET lock == locks[l]
        original == lock.replyToId
    IN
    /\ lock.state = "LOCKED" => lock.confirmedIds = {}
    /\ lock.state = "READY" => lock.conditionType = "TOGETHER"
    /\ LockHeld(lock)
    /\ StillLacks(lock)
    /\ IsReply(lock) =>
           /\ original \in Stored /\ Fits(lock, locks[original])
           /\ lock.state # "READY"
           /\ lock.state = "UNLOCKED" =>
                  locks[original].state = "UNLOCKED" \/ locks[original].openedAlone
    /\ lock.replyId # None => IsPairTogether(lock) /\ lock.replyId \in AnswersTo(l)
    /\ IsPairTogether(lock) /\ lock.state # "LOCKED" =>
           /\ lock.replyId # None /\ lock.openingStartedAt
           /\ lock.senderId \in lock.confirmedIds
    /\ lock.openedAlone => IsPairTogether(lock) /\ lock.state # "LOCKED"
    /\ lock.contextMetBy # None =>
           lock.contextMetBy \in lock.recipientIds /\ lock.context # None

-----------------------------------------------------------------------------
(* Requests in flight                                                      *)

\* A document in memory is an older or equal version of the stored lock.
DocInv(l, doc) ==
    /\ l \in Stored /\ SameLock(doc, locks[l])
    /\ doc.version <= locks[l].version
    /\ doc.replyId # None => doc.replyId \in AnswersTo(l)

FreshInv(lock) ==
    /\ lock # None
    /\ lock.state = "LOCKED" /\ lock.confirmedIds = {} /\ lock.version = 0
    /\ lock.replyId = None /\ lock.contextMetBy = None
    /\ ~lock.openingStartedAt /\ ~lock.openedAlone
    /\ lock.conditionType = "RECIPIENT_SET" => lock.conditionLabel = None
    /\ IsReply(lock) =>
           lock.replyToId \in Stored /\ Fits(lock, locks[lock.replyToId])

\* u may still hold the stored lock: canConfirm, whatever label was written.
MayHold(lock, u) ==
    /\ lock.state # "UNLOCKED"
    /\ \/ lock.conditionType = "MANUAL" /\ IsRecipient(lock, u)
       \/ /\ lock.conditionType = "RECIPIENT_SET"
          /\ IsRecipient(lock, u) /\ lock.conditionLabel # None
       \/ /\ lock.conditionType = "TOGETHER"
          /\ ~IsReply(lock) /\ CanConfirmTogether(lock, u)

\* A staged hold: good as long as the version check will let it through.
HoldInv(l, doc, u) ==
    doc.version = locks[l].version =>
        /\ MayHold(locks[l], u)
        /\ doc.state = StateAfter(locks[l], u)
        /\ doc.confirmedIds = locks[l].confirmedIds \cup {u}
        /\ doc.openingStartedAt =
               (locks[l].openingStartedAt \/ StartsOpening(locks[l], u))

\* A staged opening of stash-back r.
ReplyInv(r, doc) ==
    /\ doc.state = "UNLOCKED" /\ doc.confirmedIds = Participants(doc)
    /\ doc.version = locks[r].version =>
           /\ locks[r].state # "UNLOCKED"
           /\ doc.openingStartedAt = locks[r].openingStartedAt

\* Save for the hold it is about to make, a task knows only stored holds of
\* its target.
KnowsHolds(t) ==
    LET l == t.target IN
    l \in LockIds /\ t.docs[l] # None /\ t.pc # "save" =>
        t.docs[l].confirmedIds \subseteq locks[l].confirmedIds

\* What task t of runner k relies on at each of its points.
Relies(k, t) ==
    LET l == t.target
        has == l \in LockIds /\ t.docs[l] # None
        opens == /\ has /\ t.docs[l].replyId \in AnswersTo(l)
                 /\ locks[l].state = "UNLOCKED" \/ locks[l].openedAlone
    IN
    /\ \A m \in LockIds : t.docs[m] # None => DocInv(m, t.docs[m])
    /\ t.pc = "insert" => FreshInv(t.fresh) /\
           (IsReply(t.fresh) => t.docs[t.fresh.replyToId] # None)
    /\ t.pc \in {"link", "tellOriginal"} =>
           /\ has /\ t.docs[l].replyToId \in LockIds
           /\ t.docs[t.docs[l].replyToId] # None
    /\ t.pc \in {"arm", "announce"} => has
    /\ t.pc = "save" => has /\ t.actor \in Users /\ HoldInv(l, t.docs[l], t.actor)
    /\ t.pc \in {"open", "saveReply", "tellReply"} => opens
    /\ t.pc \in {"saveReply", "tellReply"} => t.docs[t.docs[l].replyId] # None
    /\ t.pc = "saveReply" => ReplyInv(t.docs[l].replyId, t.docs[t.docs[l].replyId])
    /\ t.pc = "alone" =>
           /\ has /\ l = k /\ t.docs[l].replyId \in AnswersTo(l)
           /\ IsPairTogether(locks[l]) /\ locks[l].state # "LOCKED"
    /\ t.pc = "write" =>
           /\ has /\ t.docs[l].conditionLabel # None
           /\ locks[l].conditionType = "RECIPIENT_SET"
    /\ t.pc = "stamp" =>
           /\ t.actor \in Users
           /\ \A m \in LockIds : t.docs[m] # None =>
                  /\ t.actor \in locks[m].recipientIds
                  /\ locks[m].context # None
    /\ KnowsHolds(t)

TaskInv(k) == Relies(k, tasks[k])

IInv ==
    /\ TypeOK
    /\ \A l \in Stored : LockInv(l)
    /\ \A k \in Runners : TaskInv(k)

-----------------------------------------------------------------------------
(* The minute of a started trade                                           *)

\* Trade l is started, and neither finished nor given up on.
Started(l) ==
    l \in Pairs /\ locks[l].state = "READY" /\ ~locks[l].openedAlone

\* Its minute is running, over, or about to be armed.
Minded(l) ==
    \/ l \in waits
    \/ tasks[l].pc = "alone"
    \/ \E k \in Requests : tasks[k].pc = "arm" /\ tasks[k].target = l

\* Only requests make holds: a started trade is some request's to arm.
WaitInv ==
    /\ restarts = 0 /\ failures = 0 => \A l \in LockIds : Started(l) => Minded(l)
    /\ \A k \in Runners : tasks[k].pc = "save" => k \in Requests

-----------------------------------------------------------------------------
(* Steps                                                                   *)

\* How a step may change a stored lock: never backwards.
Grows(l) ==
    LET old == locks[l]
        new == locks'[l]
    IN
    /\ new # None /\ SameLock(new, old)
    /\ old.version <= new.version
    /\ old.version = new.version =>
           /\ new.state = old.state /\ new.confirmedIds = old.confirmedIds
           /\ new.openingStartedAt = old.openingStartedAt
    /\ old.replyId # None => new.replyId # None
    /\ old.conditionLabel # None => new.conditionLabel # None
    /\ old.openedAlone => new.openedAlone
    /\ old.state = "UNLOCKED" => new.state = "UNLOCKED"
    /\ old.state # "LOCKED" => new.state # "LOCKED"
    /\ old.confirmedIds \subseteq new.confirmedIds
    /\ old.openingStartedAt => new.openingStartedAt

-----------------------------------------------------------------------------
(* The client beside the server                                            *)

\* A card as it is stored offers its hold to those the server lets hold it,
\* and to nobody else on it: the client's rules are not the server's, but no
\* lock gets into a state where they differ.  (A second key may yet be asked.)
CardsOfferHolds ==
    \A l \in Stored : \A u \in Participants(locks[l]) :
        CanHold(locks[l], u) <=> CanConfirm(locks[l], u)

-----------------------------------------------------------------------------
(* A claim of the documents that a failure breaks                          *)

\* "Both locks open in the same moment" (SPEC.md): once the recipient has
\* opened a trade, a stash-back to it opens too.
BothOpen ==
    \A l \in LockIds :
        (l \in Pairs /\ locks[l].state = "UNLOCKED") ~>
            (\E r \in AnswersTo(l) : locks[r].state = "UNLOCKED")
=============================================================================
