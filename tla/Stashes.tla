------------------------------- MODULE Stashes -------------------------------
(***************************************************************************)
(* StashesService and StashesController: every request on a lock, split at *)
(* its awaits, and the one-minute wait of a pair "open together".          *)
(*                                                                         *)
(* A request reads a lock document, decides on that snapshot, saves, and   *)
(* tells everyone; other requests run between any two of these steps.      *)
(* save() sends only the changed paths.  A save that replaces the array    *)
(* confirmedIds is also conditional on the version the document was loaded *)
(* at, and increments it; a save of scalars is unconditional.              *)
(***************************************************************************)
EXTENDS Creation

CONSTANTS
    Users,          \* people with an account
    LockIds,        \* ids of the locks that can be created
    Requests,       \* requests on locks the server can have in flight at once
    Drafts,         \* the stashes people compose (CreateLockDto and its author)
    Words,          \* conditions people write, after trim()
    Moments,        \* moments people write, after normalizeMoment()
    SecondKeys,     \* values of requiresMfa on a stash-back, of the MFA claim
    MaxRestarts,    \* bound: restarts of the API process
    MaxFailures     \* bound: database calls that fail

VARIABLES
    locks,     \* the locks collection: document or None, by id
    waits,     \* StashesService.waits: locks with an armed one-minute timer
    tasks,     \* the requests and timer callbacks in flight
    told,      \* what the last event to a lock's participants showed, by id
    restarts, failures

vars == <<locks, waits, tasks, told, restarts, failures>>

-----------------------------------------------------------------------------
ConditionTypes == {"MANUAL", "TOGETHER", "RECIPIENT_SET"}
LockStates == {"LOCKED", "READY", "UNLOCKED"}
DefaultLabels == {"Open together", "Open when it feels right", "Opens with theirs"}
Labels == Words \cup DefaultLabels \cup {Blank, None}

Lock == [senderId : Users, recipientIds : SUBSET Users,
         conditionType : ConditionTypes, conditionLabel : Labels,
         context : Moments \cup {None}, contextMetBy : Users \cup {None},
         requiresMfa : BOOLEAN,
         replyToId : LockIds \cup {None}, replyId : LockIds \cup {None},
         openingStartedAt : BOOLEAN, openedAlone : BOOLEAN,
         state : LockStates, confirmedIds : SUBSET Users, version : Nat]

Draft == [senderId : Users, recipientIds : SUBSET Users,
          conditionType : ConditionTypes, conditionLabel : Words \cup {Blank, None},
          context : Moments \cup {Blank, None}, requiresMfa : BOOLEAN]

ASSUME ConstantAssumptions ==
    /\ None \notin Users /\ None \notin LockIds
    /\ None \notin Moments /\ Blank \notin Moments
    /\ None \notin Words \cup {Blank} /\ Blank \notin Words
    /\ Drafts \subseteq Draft /\ SecondKeys \subseteq BOOLEAN
    /\ MaxRestarts \in Nat /\ MaxFailures \in Nat
    /\ None \notin Lock

\* What a request waits for.  "arm" and "open" follow the save of a hold.
Pcs == {"idle", "insert", "link", "tellOriginal", "save", "arm", "open",
        "saveReply", "tellReply", "alone", "write", "stamp", "announceHere",
        "announce"}

\* Timer callbacks run beside the requests, at most one for each lock.
Runners == Requests \cup LockIds

\* actor: the caller.  target: the lock the call is about.  docs: the
\* documents it holds in memory, by id.  fresh: the lock it will insert.
Task == [pc : Pcs, actor : Users \cup {None}, target : LockIds \cup {None},
         docs : [LockIds -> Lock \cup {None}], fresh : Lock \cup {None}]

\* What an event shows of a lock: its state, and whether a recipient is there.
View == [state : LockStates, here : BOOLEAN]

NoDocs == [l \in LockIds |-> None]

Idle == [pc |-> "idle", actor |-> None, target |-> None, docs |-> NoDocs,
         fresh |-> None]

TypeOK ==
    /\ locks \in [LockIds -> Lock \cup {None}]
    /\ waits \subseteq LockIds
    /\ tasks \in [Runners -> Task]
    /\ told \in [LockIds -> View \cup {None}]
    /\ restarts \in Nat /\ failures \in Nat

Init ==
    /\ locks = [l \in LockIds |-> None]
    /\ waits = {}
    /\ tasks = [k \in Runners |-> Idle]
    /\ told = [l \in LockIds |-> None]
    /\ restarts = 0 /\ failures = 0

Stored == {l \in LockIds : locks[l] # None}

-----------------------------------------------------------------------------
(* Steps of a task.                                                        *)

Begin(k, task) == tasks[k] = Idle /\ tasks' = [tasks EXCEPT ![k] = task]

Goto(k, pc) == tasks' = [tasks EXCEPT ![k].pc = pc]

End(k) == tasks' = [tasks EXCEPT ![k] = Idle]

\* The document k holds of its target.
Doc(k) == tasks[k].docs[tasks[k].target]

\* A task that loaded lock l and staged doc to be saved.
Loaded(pc, u, l, doc) ==
    [Idle EXCEPT !.pc = pc, !.actor = u, !.target = l, !.docs[l] = doc]

\* Everyone on lock l is sent an event carrying document doc.
Tell(l, doc) ==
    told' = [told EXCEPT ![l] = [state |-> doc.state,
                                 here |-> doc.contextMetBy # None]]

\* lock with the paths of doc that a hold changes.
WithHolds(lock, doc) ==
    [lock EXCEPT !.state = doc.state, !.confirmedIds = doc.confirmedIds,
                 !.openingStartedAt = doc.openingStartedAt,
                 !.version = @ + 1]

\* Mutant of SavesHolds: no version, the last writer wins.
SavesHoldsBlindly(l, doc) ==
    locks' = [locks EXCEPT ![l] = WithHolds(@, doc)]

\* Mutant of SavesHolds: $addToSet on the holds, a stale state beside them.
AddsHolds(l, doc) ==
    locks' = [locks EXCEPT
                ![l].state = doc.state,
                ![l].confirmedIds = @ \cup doc.confirmedIds,
                ![l].version = @ + 1]

\* doc.save() that replaces confirmedIds: conditional on the version.
SavesHolds(l, doc) ==
    /\ locks[l].version = doc.version
    /\ locks' = [locks EXCEPT ![l] = WithHolds(@, doc)]

\* The version moved on: VersionError, and the request ends.
VersionError(k, l, doc) ==
    /\ locks[l].version # doc.version
    /\ End(k)
    /\ UNCHANGED locks

-----------------------------------------------------------------------------
(* create                                                                  *)

Sealed(sender, recipients, type, label, context, mfa, replyTo) ==
    [senderId |-> sender, recipientIds |-> recipients, conditionType |-> type,
     conditionLabel |-> label, context |-> context, contextMetBy |-> None,
     requiresMfa |-> mfa, replyToId |-> replyTo, replyId |-> None,
     openingStartedAt |-> FALSE, openedAlone |-> FALSE, state |-> "LOCKED",
     confirmedIds |-> {}, version |-> 0]

FromDraft(d) ==
    Sealed(d.senderId, d.recipientIds, d.conditionType,
           DefaultConditionLabel(d.conditionType, d.conditionLabel),
           NormalizeMoment(d.context), d.requiresMfa, None)

AnswerTo(l, doc, u, mfa) ==
    Sealed(u, {doc.senderId}, "TOGETHER", "Opens with theirs", doc.context,
           mfa, l)

\* The bound on locks: every lock about to be inserted has an id left.
RoomLeft ==
    Cardinality(Stored) + Cardinality({k \in Requests : tasks[k].pc = "insert"})
        < Cardinality(LockIds)

\* POST /locks without replyToId, up to the insert.
Create(k, d) ==
    /\ RoomLeft
    /\ Allowed(d)
    /\ Begin(k, [Idle EXCEPT !.pc = "insert", !.actor = d.senderId,
                             !.fresh = FromDraft(d)])
    /\ UNCHANGED <<locks, waits, told, restarts, failures>>

\* POST /locks with replyToId: the original is loaded and checked first.
StashBack(k, u, l, mfa) ==
    /\ RoomLeft
    /\ l \in Stored
    /\ IsRecipient(locks[l], u) /\ IsPairTogether(locks[l])
    /\ locks[l].replyId = None
    /\ locks[l].state = "LOCKED"
    /\ <<u, locks[l].senderId>> \in MayStash
    /\ Begin(k, [Loaded("insert", u, l, locks[l]) EXCEPT
                   !.fresh = AnswerTo(l, locks[l], u, mfa)])
    /\ UNCHANGED <<locks, waits, told, restarts, failures>>

\* lockModel.create: the new lock is stored, in the original's shadow still.
Insert(k) ==
    /\ tasks[k].pc = "insert"
    /\ \E new \in LockIds \ Stored :
        /\ locks' = [locks EXCEPT ![new] = tasks[k].fresh]
        /\ tasks' = [tasks EXCEPT ![k] = [@ EXCEPT
              !.pc = IF IsReply(tasks[k].fresh) THEN "link" ELSE "announce",
              !.target = new, !.docs[new] = tasks[k].fresh, !.fresh = None]]
    /\ UNCHANGED <<waits, told, restarts, failures>>

\* Mutant of LinkReply: the whole original is written back as it was loaded.
LinkReplyWhole(k) ==
    /\ tasks[k].pc = "link"
    /\ locks' = [locks EXCEPT ![Doc(k).replyToId] =
          [tasks[k].docs[Doc(k).replyToId] EXCEPT !.replyId = tasks[k].target]]
    /\ Goto(k, "tellOriginal")
    /\ UNCHANGED <<waits, told, restarts, failures>>

\* original.replyId = lock._id; original.save(): a scalar, unconditional.
LinkReply(k) ==
    /\ tasks[k].pc = "link"
    /\ locks' = [locks EXCEPT ![Doc(k).replyToId].replyId = tasks[k].target]
    /\ Goto(k, "tellOriginal")
    /\ UNCHANGED <<waits, told, restarts, failures>>

\* The sender learns they can now start opening.
TellOriginal(k) ==
    /\ tasks[k].pc = "tellOriginal"
    /\ Tell(Doc(k).replyToId, tasks[k].docs[Doc(k).replyToId])
    /\ Goto(k, "announce")
    /\ UNCHANGED <<locks, waits, restarts, failures>>

\* The controller's last step: everyone on the target hears of it.
Announce(k) ==
    /\ tasks[k].pc = "announce"
    /\ Tell(tasks[k].target, Doc(k))
    /\ End(k)
    /\ UNCHANGED <<locks, waits, restarts, failures>>

-----------------------------------------------------------------------------
(* confirm: one hold                                                       *)

\* mfa: the MFA claim of the caller's token.
Confirm(k, u, l, mfa) ==
    /\ l \in Stored
    /\ CanConfirm(locks[l], u)
    /\ locks[l].requiresMfa => mfa
    /\ Begin(k, Loaded("save", u, l, ApplyConfirm(locks[l], u)))
    /\ UNCHANGED <<locks, waits, told, restarts, failures>>

\* Mutant of AfterHold: the stash-back opens after any hold of a trade.
AfterAnyHold(doc, u) == IF doc.replyId # None THEN "open" ELSE "announce"

\* What confirm() goes on with once the hold is saved.
AfterHold(doc, u) ==
    IF StartsOpening(doc, u) THEN "arm"
    ELSE IF doc.state = "UNLOCKED" /\ doc.replyId # None THEN "open"
    ELSE "announce"

SaveHold(k) ==
    /\ tasks[k].pc = "save"
    /\ \/ /\ SavesHolds(tasks[k].target, Doc(k))
          /\ Goto(k, AfterHold(Doc(k), tasks[k].actor))
       \/ VersionError(k, tasks[k].target, Doc(k))
    /\ UNCHANGED <<waits, told, restarts, failures>>

\* Mutant of ScheduleOpenAlone: the wait is cleared after it was set.
ScheduleThenCancel(k) ==
    /\ tasks[k].pc = "arm"
    /\ waits' = waits \ {tasks[k].target}
    /\ Goto(k, "announce")
    /\ UNCHANGED <<locks, told, restarts, failures>>

\* Mutant of ScheduleOpenAlone: the wait is filed under the caller.
ScheduleByActor(k) ==
    /\ tasks[k].pc = "arm"
    /\ waits' = waits \cup {tasks[k].actor}
    /\ Goto(k, "announce")
    /\ UNCHANGED <<locks, told, restarts, failures>>

\* scheduleOpenAlone
ScheduleOpenAlone(k) ==
    /\ tasks[k].pc = "arm"
    /\ waits' = waits \cup {tasks[k].target}
    /\ Goto(k, "announce")
    /\ UNCHANGED <<locks, told, restarts, failures>>

\* unlockReply loads the stash-back; a hold cancels the wait just before.
\* A stash-back that is open already is left alone.
UnlockReply(k) ==
    LET r == Doc(k).replyId IN
    /\ tasks[k].pc = "open"
    /\ waits' = IF k \in Requests THEN waits \ {tasks[k].target} ELSE waits
    /\ IF locks[r] = None \/ locks[r].state = "UNLOCKED"
       THEN Goto(k, "announce")
       ELSE tasks' = [tasks EXCEPT
              ![k].pc = "saveReply",
              ![k].docs[r] = [locks[r] EXCEPT
                    !.state = "UNLOCKED",
                    !.confirmedIds = Participants(locks[r])]]
    /\ UNCHANGED <<locks, told, restarts, failures>>

SaveReply(k) ==
    LET r == Doc(k).replyId IN
    /\ tasks[k].pc = "saveReply"
    /\ \/ SavesHolds(r, tasks[k].docs[r]) /\ Goto(k, "tellReply")
       \/ VersionError(k, r, tasks[k].docs[r])
    /\ UNCHANGED <<waits, told, restarts, failures>>

TellReply(k) ==
    LET r == Doc(k).replyId IN
    /\ tasks[k].pc = "tellReply"
    /\ Tell(r, tasks[k].docs[r])
    /\ Goto(k, "announce")
    /\ UNCHANGED <<locks, waits, restarts, failures>>

-----------------------------------------------------------------------------
(* openAlone: the minute is over                                           *)

\* The timer fires: the wait is forgotten and openAlone loads the lock.
OpenAlone(l) ==
    /\ l \in waits
    /\ waits' = waits \ {l}
    /\ IF /\ l \in Stored /\ locks[l].state = "READY"
          /\ ~locks[l].openedAlone /\ locks[l].replyId # None
       THEN Begin(l, Loaded("alone", None, l,
                            [locks[l] EXCEPT !.openedAlone = TRUE]))
       ELSE UNCHANGED tasks
    /\ UNCHANGED <<locks, told, restarts, failures>>

\* Mutant of SaveAlone: the stash-back is not opened.
SaveAloneOnly(l) ==
    /\ tasks[l].pc = "alone"
    /\ locks' = [locks EXCEPT ![l].openedAlone = TRUE]
    /\ Goto(l, "announce")
    /\ UNCHANGED <<waits, told, restarts, failures>>

\* lock.openedAlone = true; lock.save(): a scalar, unconditional.
SaveAlone(l) ==
    /\ tasks[l].pc = "alone"
    /\ locks' = [locks EXCEPT ![l].openedAlone = TRUE]
    /\ Goto(l, "open")
    /\ UNCHANGED <<waits, told, restarts, failures>>

-----------------------------------------------------------------------------
(* setCondition, and "I'm here"                                            *)

\* text: the label as typed, trimmed; the DTO lets white space through.
\* save() has nothing to send when the label is what it was.
SetCondition(k, u, l, text) ==
    /\ l \in Stored
    /\ CanSetCondition(locks[l], u)
    /\ Begin(k, Loaded(IF text = locks[l].conditionLabel THEN "announce"
                                                         ELSE "write",
                       u, l, [locks[l] EXCEPT !.conditionLabel = text]))
    /\ UNCHANGED <<locks, waits, told, restarts, failures>>

\* lock.conditionLabel = ...; lock.save(): a scalar, unconditional.
SaveCondition(k) ==
    /\ tasks[k].pc = "write"
    /\ locks' = [locks EXCEPT ![tasks[k].target].conditionLabel =
                                  Doc(k).conditionLabel]
    /\ Goto(k, "announce")
    /\ UNCHANGED <<waits, told, restarts, failures>>

\* Mutant of Matches: locks addressed to anybody match.
MatchesAnyone(l, u, moment) ==
    /\ l \in Stored
    /\ locks[l].context = moment
    /\ locks[l].state # "UNLOCKED" /\ locks[l].contextMetBy = None

\* markHere's query.
Matches(l, u, moment) ==
    /\ l \in Stored
    /\ IsRecipient(locks[l], u) /\ locks[l].context = moment
    /\ locks[l].state # "UNLOCKED" /\ locks[l].contextMetBy = None

MarkHere(k, u, moment) ==
    /\ \E l \in LockIds : Matches(l, u, moment)
    /\ Begin(k, [Idle EXCEPT !.pc = "stamp", !.actor = u, !.docs =
           [l \in LockIds |-> IF Matches(l, u, moment) THEN locks[l] ELSE None]])
    /\ UNCHANGED <<locks, waits, told, restarts, failures>>

\* The next found lock is stamped; once all are, they are announced.
Stamp(k) ==
    /\ tasks[k].pc = "stamp"
    /\ \E l \in LockIds :
        /\ tasks[k].docs[l] # None /\ tasks[k].docs[l].contextMetBy = None
        /\ locks' = [locks EXCEPT ![l].contextMetBy = tasks[k].actor]
        /\ tasks' = [tasks EXCEPT ![k] = [@ EXCEPT
              !.docs[l].contextMetBy = tasks[k].actor,
              !.pc = IF \A m \in LockIds \ {l} :
                              \/ tasks[k].docs[m] = None
                              \/ tasks[k].docs[m].contextMetBy # None
                     THEN "announceHere" ELSE "stamp"]]
    /\ UNCHANGED <<waits, told, restarts, failures>>

\* Mutant of AnnounceHere: it returns after the first lock.
AnnounceFirst(k) ==
    /\ tasks[k].pc = "announceHere"
    /\ \E l \in LockIds : tasks[k].docs[l] # None /\ Tell(l, tasks[k].docs[l])
    /\ End(k)
    /\ UNCHANGED <<locks, waits, restarts, failures>>

AnnounceHere(k) ==
    /\ tasks[k].pc = "announceHere"
    /\ \E l \in LockIds :
        /\ tasks[k].docs[l] # None
        /\ Tell(l, tasks[k].docs[l])
        /\ IF \A m \in LockIds \ {l} : tasks[k].docs[m] = None
           THEN End(k)
           ELSE tasks' = [tasks EXCEPT ![k].docs[l] = None]
    /\ UNCHANGED <<locks, waits, restarts, failures>>

-----------------------------------------------------------------------------
(* Failures                                                                *)

\* A database call of a task throws: the request answers 500, a timer
\* callback logs it, and what was saved before stays.
Fail(k) ==
    /\ failures < MaxFailures
    /\ tasks[k].pc \notin {"idle", "arm"}
    /\ failures' = failures + 1
    /\ End(k)
    /\ UNCHANGED <<locks, waits, told, restarts>>

\* The process restarts: what was in memory is gone.
Restart ==
    /\ restarts < MaxRestarts
    /\ restarts' = restarts + 1
    /\ waits' = {}
    /\ tasks' = [k \in Runners |-> Idle]
    /\ UNCHANGED <<locks, told, failures>>

-----------------------------------------------------------------------------
\* The next step of a task in flight.
Step(k) ==
    \/ Insert(k) \/ LinkReply(k) \/ TellOriginal(k) \/ Announce(k)
    \/ SaveHold(k) \/ ScheduleOpenAlone(k)
    \/ UnlockReply(k) \/ SaveReply(k) \/ TellReply(k)
    \/ SaveCondition(k) \/ Stamp(k) \/ AnnounceHere(k)

\* A request arrives.
Arrive(k) ==
    \/ \E d \in Drafts : Create(k, d)
    \/ \E u \in Users, l \in LockIds :
        \/ \E mfa \in SecondKeys : StashBack(k, u, l, mfa) \/ Confirm(k, u, l, mfa)
        \/ \E text \in Words \cup {Blank} : SetCondition(k, u, l, text)
    \/ \E u \in Users, moment \in Moments : MarkHere(k, u, moment)

Next ==
    \/ \E k \in Requests : Arrive(k)
    \/ \E k \in Runners : Step(k) \/ Fail(k)
    \/ \E l \in LockIds : OpenAlone(l) \/ SaveAlone(l)
    \/ Restart

Spec == Init /\ [][Next]_vars

\* Every await returns and every armed timer fires; nobody has to call.
Fairness ==
    /\ \A k \in Runners : WF_vars(Step(k))
    /\ \A l \in LockIds : WF_vars(OpenAlone(l)) /\ WF_vars(SaveAlone(l))

FairSpec == Spec /\ Fairness

-----------------------------------------------------------------------------
(* Safety                                                                  *)

Pairs == {l \in Stored : IsPairTogether(locks[l])}

AnswersTo(l) == {r \in Stored : locks[r].replyToId = l}

\* The holds the type of an open lock asks for: any recipient's for MANUAL; the
\* same for RECIPIENT_SET, once a condition was set; everyone's "open together":
\* on a trade the sender's, once it was answered, and then the other's.
HeldByItsRule(lock) ==
    \/ /\ lock.conditionType = "MANUAL"
       /\ lock.confirmedIds \cap lock.recipientIds # {}
    \/ /\ lock.conditionType = "RECIPIENT_SET"
       /\ lock.confirmedIds \cap lock.recipientIds # {}
       /\ lock.conditionLabel # None
    \/ /\ lock.conditionType = "TOGETHER"
       /\ Participants(lock) \subseteq lock.confirmedIds
       /\ IsPairTogether(lock) => lock.openingStartedAt /\ lock.replyId # None

\* "Unlock: anyone else" (SPEC.md:173): no.
RightlyHeld(lock) ==
    /\ lock.confirmedIds \subseteq Participants(lock)
    /\ lock.state = "UNLOCKED" => HeldByItsRule(lock)

\* What its sender sealed for nobody but themselves.
OwnStash(lock) ==
    lock.conditionType = "TOGETHER" /\ IsSelfStash(lock) /\ ~IsReply(lock)

\* A lock is held by nobody but its people, and open only after the holds its
\* type asks for, whatever requests interleave; but for a self-stash, which
\* the service lets anybody hold (NobodyElseHolds is false).
OpenedByItsRule ==
    \A l \in Stored : ~OwnStash(locks[l]) => RightlyHeld(locks[l])

\* "Unlock (TOGETHER): Sender, Recipient" and not "Anyone else"
\* (SPEC.md:174), of every lock: canConfirm admits anybody to a self-stash.
NobodyElseHolds == \A l \in Stored : RightlyHeld(locks[l])

\* A stash-back is never open while the lock it answers is neither open nor
\* given up on after the minute (unlockReply is its only way to open).
AnswerOpensWithOriginal ==
    \A l \in Stored : \A r \in AnswersTo(l) :
        locks[r].state = "UNLOCKED" =>
            locks[l].state = "UNLOCKED" \/ locks[l].openedAlone

\* A trade starts only once it is answered: the link leads to a stash-back
\* that answers this lock, comes from a recipient and goes to the sender; a
\* started or given-up trade has one; only a started one is given up on.
TradeInOrder ==
    \A l \in Stored :
        /\ locks[l].replyId # None =>
               LET r == locks[l].replyId IN
               /\ l \in Pairs /\ r \in AnswersTo(l)
               /\ locks[r].senderId \in locks[l].recipientIds
               /\ locks[r].recipientIds = {locks[l].senderId}
        /\ l \in Pairs /\ locks[l].state # "LOCKED" => locks[l].replyId # None
        /\ locks[l].openedAlone => l \in Pairs /\ locks[l].openingStartedAt

\* No hold is lost: past the save of a hold, what the request is about to
\* answer and to announce as held is held in the stored lock, however many
\* others of the same lock were in flight (the version check of confirm()).
HoldsKept ==
    \A k \in Requests :
        tasks[k].pc \in {"arm", "open", "saveReply", "tellReply", "announce"} =>
            Doc(k).confirmedIds \subseteq locks[tasks[k].target].confirmedIds

\* Nobody waits on nobody: a sealed group "open together" always lacks a hold.
LastHoldOpens ==
    \A l \in Stored :
        /\ locks[l].conditionType = "TOGETHER" /\ l \notin Pairs
        /\ ~IsReply(locks[l]) /\ locks[l].state # "UNLOCKED"
        => RemainingHolds(locks[l]) # {}

\* While the process has neither restarted nor seen a database call fail, a
\* started trade that nobody has finished or given up on has its minute
\* running, or a task that is about to start it or to give up.
WaitIsKept ==
    restarts = 0 /\ failures = 0 =>
        \A l \in Pairs :
            locks[l].state = "READY" /\ ~locks[l].openedAlone =>
                \/ l \in waits
                \/ tasks[l].pc = "alone"
                \/ \E k \in Requests :
                       tasks[k].pc = "arm" /\ tasks[k].target = l

\* Only a recipient is "there", and only for a lock tied to a moment.
StampedByRecipient ==
    \A l \in Stored :
        locks[l].contextMetBy # None =>
            /\ locks[l].contextMetBy \in locks[l].recipientIds
            /\ locks[l].context # None

-----------------------------------------------------------------------------
(* Steps                                                                   *)

Rank == [LOCKED |-> 0, READY |-> 1, UNLOCKED |-> 2]

\* Once unlocked, a lock stays unlocked: no step takes a stored lock back to
\* an earlier state, drops a hold, or forgets that a trade was started or
\* given up on, whatever stale document it saves.
NeverResealed ==
    [][\A l \in Stored :
          /\ locks'[l] # None
          /\ Rank[locks[l].state] <= Rank[locks'[l].state]
          /\ locks[l].confirmedIds \subseteq locks'[l].confirmedIds
          /\ locks[l].openingStartedAt => locks'[l].openingStartedAt
          /\ locks[l].openedAlone => locks'[l].openedAlone]_vars

-----------------------------------------------------------------------------
(* What the service implements                                             *)

\* The stored documents, seen as the locks of the product spec.
BoxOf(lock) ==
    [senderId |-> lock.senderId, recipientIds |-> lock.recipientIds,
     conditionType |-> lock.conditionType,
     named |-> lock.conditionLabel # None,
     answers |-> lock.replyToId, state |-> lock.state,
     held |-> lock.confirmedIds, alone |-> lock.openedAlone]

Boxes == [l \in LockIds |-> IF l \in Stored THEN BoxOf(locks[l]) ELSE None]

Box == INSTANCE Lockbox WITH boxes <- Boxes

\* null is no lock, here as there.
ASSUME NoneIsNoBox == None \notin Box!Box

\* What the product spec does not allow and the service does: somebody else's
\* hold opens a self-stash (lock.engine.ts:97, SPEC.md:174).
StrangerOpens(l, u) ==
    /\ Box!Exists(l) /\ Boxes[l].state # "UNLOCKED"
    /\ Boxes[l].conditionType = "TOGETHER" /\ Boxes[l].answers = None
    /\ Box!SelfStash(Boxes[l]) /\ u \notin Box!Everyone(Boxes[l])
    /\ Boxes' = [Boxes EXCEPT ![l].state = "UNLOCKED", ![l].held = @ \cup {u}]

BoxStep == Box!Next \/ \E l \in LockIds, u \in Users : StrangerOpens(l, u)

\* Every step of the service, on whatever stale documents it acts, does to the
\* stored locks one thing the product spec allows, or nothing; a stranger's
\* hold on a self-stash is the one exception.
ImplementsLockbox == Box!Init /\ [][BoxStep]_Boxes

-----------------------------------------------------------------------------
(* Liveness                                                                *)

\* A trade once started always pays its sender: some stash-back to it opens,
\* with the recipient's hold or after the minute.
TradePaysOut ==
    \A l \in LockIds :
        (l \in Pairs /\ locks[l].state = "READY") ~>
            (\E r \in AnswersTo(l) : locks[r].state = "UNLOCKED")

\* Everyone on a lock somebody tapped "I'm here" for is told of it once (a
\* later event may show an older document again).
HereIsHeard ==
    \A l \in LockIds :
        <>(l \in Stored /\ locks[l].contextMetBy # None) =>
            <>(told[l] # None /\ told[l].here)
=============================================================================
