---------------------------- MODULE StashesProofs ----------------------------
(* Theorems about Stashes, for every value of its constants.                *)
EXTENDS StashesInv, TLAPS

USE DEF Runners

-----------------------------------------------------------------------------
(* Types of what the steps build.                                          *)

LEMMA IdleType == Idle \in Task
  BY ConstantAssumptions DEF Idle, Task, Pcs, NoDocs

LEMMA LoadedType ==
  ASSUME NEW pc \in Pcs, NEW u \in Users \cup {None}, NEW l \in LockIds,
         NEW doc \in Lock
  PROVE  Loaded(pc, u, l, doc) \in Task
  BY IdleType DEF Loaded, Task, Idle, NoDocs

LEMMA SealedType ==
  ASSUME NEW sender \in Users, NEW recipients \in SUBSET Users,
         NEW type \in ConditionTypes, NEW label \in Labels,
         NEW context \in Moments \cup {None}, NEW mfa \in BOOLEAN,
         NEW replyTo \in LockIds \cup {None}
  PROVE  Sealed(sender, recipients, type, label, context, mfa, replyTo) \in Lock
  BY DEF Sealed, Lock, LockStates

LEMMA FromDraftType ==
  ASSUME NEW d \in Drafts
  PROVE  FromDraft(d) \in Lock
<1>1. d \in Draft
  BY ConstantAssumptions
<1>2. DefaultConditionLabel(d.conditionType, d.conditionLabel) \in Labels
  BY <1>1 DEF Draft, DefaultConditionLabel, Labels, DefaultLabels
<1>3. NormalizeMoment(d.context) \in Moments \cup {None}
  BY <1>1 DEF Draft, NormalizeMoment
<1> QED
  BY <1>1, <1>2, <1>3, SealedType DEF FromDraft, Draft

LEMMA AnswerToType ==
  ASSUME NEW l \in LockIds, NEW doc \in Lock, NEW u \in Users, NEW mfa \in BOOLEAN
  PROVE  AnswerTo(l, doc, u, mfa) \in Lock
<1>1. /\ {doc.senderId} \in SUBSET Users /\ doc.context \in Moments \cup {None}
      /\ "TOGETHER" \in ConditionTypes /\ "Opens with theirs" \in Labels
      /\ l \in LockIds \cup {None}
  BY DEF Lock, ConditionTypes, Labels, DefaultLabels
<1> QED
  BY <1>1, SealedType DEF AnswerTo

LEMMA ApplyConfirmType ==
  ASSUME NEW lock \in Lock, NEW u \in Users
  PROVE  ApplyConfirm(lock, u) \in Lock
<1>1. StateAfter(lock, u) \in LockStates
  BY DEF StateAfter, LockStates
<1>2. (lock.openingStartedAt \/ StartsOpening(lock, u)) \in BOOLEAN
  OBVIOUS
<1>3. lock.confirmedIds \cup {u} \in SUBSET Users
  BY DEF Lock
<1> QED
  BY <1>1, <1>2, <1>3 DEF ApplyConfirm, Lock

-----------------------------------------------------------------------------
(* Locks only grow, and what is known of the rest stays known.             *)

LEMMA StaysStored ==
  ASSUME \A l \in Stored : Grows(l)
  PROVE  /\ \A l \in Stored : l \in Stored'
         /\ \A l \in LockIds : \A r \in AnswersTo(l) : r \in AnswersTo(l)'
<1>1. \A l \in Stored : l \in Stored'
  BY DEF Stored, Grows
<1>2. \A l \in LockIds : \A r \in AnswersTo(l) : r \in AnswersTo(l)'
  BY <1>1 DEF AnswersTo, Grows, SameLock
<1> QED
  BY <1>1, <1>2

LEMMA SameParties ==
  ASSUME NEW s, NEW t, SameLock(s, t)
  PROVE  /\ Participants(s) = Participants(t)
         /\ IsSelfStash(s) <=> IsSelfStash(t)
         /\ IsPairTogether(s) <=> IsPairTogether(t)
         /\ IsReply(s) <=> IsReply(t)
         /\ \A u : IsRecipient(s, u) <=> IsRecipient(t, u)
         /\ \A u : IsParticipant(s, u) <=> IsParticipant(t, u)
  BY DEF SameLock, Participants, IsSelfStash, IsPairTogether, TwoPeople, IsReply,
         IsRecipient, IsParticipant

\* An answer fits a trade by what does not change of either.
LEMMA StillFits ==
  ASSUME NEW a, NEW b, NEW s, NEW t, SameLock(s, a), SameLock(t, b), Fits(a, b)
  PROVE  Fits(s, t)
<1>1. IsPairTogether(t)
  BY SameParties DEF Fits
<1> QED
  BY <1>1 DEF Fits, SameLock

\* A hold that may still be made may be made after any step that leaves the
\* version alone.
LEMMA KeepsHold ==
  ASSUME NEW old \in Lock, NEW new \in Lock, NEW u, SameLock(new, old),
         new.state = old.state, new.confirmedIds = old.confirmedIds,
         old.conditionLabel # None => new.conditionLabel # None,
         old.replyId # None => new.replyId # None,
         MayHold(old, u)
  PROVE  MayHold(new, u)
<1>1. /\ new.senderId = old.senderId /\ new.recipientIds = old.recipientIds
      /\ new.conditionType = old.conditionType
  BY DEF SameLock
<1>2. CanConfirmTogether(old, u) => CanConfirmTogether(new, u)
  BY <1>1, SameParties DEF CanConfirmTogether
<1> QED
  BY <1>1, <1>2, SameParties DEF MayHold, IsRecipient

LEMMA KeepsStateAfter ==
  ASSUME NEW old, NEW new, NEW u, SameLock(new, old),
         new.confirmedIds = old.confirmedIds
  PROVE  /\ StateAfter(new, u) = StateAfter(old, u)
         /\ StartsOpening(new, u) <=> StartsOpening(old, u)
<1>1. /\ new.senderId = old.senderId /\ new.conditionType = old.conditionType
  BY DEF SameLock
<1> QED
  BY <1>1, SameParties DEF StateAfter, StartsOpening

LEMMA KeepsDoc ==
  ASSUME TypeOK, TypeOK', \A l \in Stored : Grows(l),
         NEW m \in LockIds, NEW doc \in Lock, DocInv(m, doc)
  PROVE  DocInv(m, doc)'
<1>1. Grows(m) /\ m \in Stored'
  BY StaysStored DEF DocInv
<1>2. SameLock(doc, locks'[m])
  BY <1>1 DEF DocInv, Grows, SameLock
<1>3. doc.version <= locks'[m].version
  <2>1. m \in Stored /\ locks[m] \in Lock /\ locks'[m] \in Lock
    BY <1>1 DEF DocInv, TypeOK, Stored
  <2>2. doc.version \in Nat /\ locks[m].version \in Nat /\ locks'[m].version \in Nat
    BY <2>1 DEF Lock
  <2> QED
    BY <1>1, <2>2 DEF DocInv, Grows
<1>4. doc.replyId # None => doc.replyId \in AnswersTo(m)'
  BY StaysStored DEF DocInv
<1> QED
  BY <1>1, <1>2, <1>3, <1>4 DEF DocInv

LEMMA KeepsFresh ==
  ASSUME TypeOK, \A l \in Stored : Grows(l), NEW lock, FreshInv(lock)
  PROVE  FreshInv(lock)'
<1>1. ASSUME IsReply(lock) PROVE Fits(lock, locks[lock.replyToId])'
  <2>1. lock.replyToId \in Stored /\ Grows(lock.replyToId)
    BY <1>1 DEF FreshInv
  <2>2. SameLock(locks'[lock.replyToId], locks[lock.replyToId])
    BY <2>1 DEF Grows
  <2> QED
    BY <1>1, <2>1, <2>2, SameParties DEF FreshInv, Fits, SameLock
<1> QED
  BY <1>1, StaysStored DEF FreshInv

\* A document read at the stored version is as good after a step that lets it
\* be the stored version still.
LEMMA KeepsHoldInv ==
  ASSUME TypeOK, TypeOK', \A l \in Stored : Grows(l),
         NEW l \in Stored, NEW doc \in Lock, NEW u,
         DocInv(l, doc), HoldInv(l, doc, u)
  PROVE  HoldInv(l, doc, u)'
<1> SUFFICES ASSUME doc.version = locks'[l].version
             PROVE  /\ MayHold(locks'[l], u)
                    /\ doc.state = StateAfter(locks'[l], u)
                    /\ doc.confirmedIds = locks'[l].confirmedIds \cup {u}
                    /\ doc.openingStartedAt =
                         (locks'[l].openingStartedAt \/ StartsOpening(locks'[l], u))
  BY DEF HoldInv
<1>1. locks[l] \in Lock /\ locks'[l] \in Lock
  BY StaysStored DEF TypeOK, Stored
<1>2. doc.version = locks[l].version /\ locks[l].version = locks'[l].version
  <2>1. doc.version \in Nat /\ locks[l].version \in Nat /\ locks'[l].version \in Nat
    BY <1>1 DEF Lock
  <2> QED
    BY <2>1 DEF DocInv, Grows
<1>3. Grows(l)
  OBVIOUS
<1>4. /\ locks'[l].state = locks[l].state
      /\ locks'[l].confirmedIds = locks[l].confirmedIds
      /\ locks'[l].openingStartedAt = locks[l].openingStartedAt
      /\ SameLock(locks'[l], locks[l])
      /\ locks[l].conditionLabel # None => locks'[l].conditionLabel # None
      /\ locks[l].replyId # None => locks'[l].replyId # None
  BY <1>2, <1>3 DEF Grows
<1>5. MayHold(locks'[l], u)
  BY <1>1, <1>2, <1>4, KeepsHold DEF HoldInv
<1>6. /\ StateAfter(locks'[l], u) = StateAfter(locks[l], u)
      /\ StartsOpening(locks'[l], u) <=> StartsOpening(locks[l], u)
  BY <1>4, KeepsStateAfter
<1> QED
  BY <1>2, <1>4, <1>5, <1>6 DEF HoldInv

LEMMA KeepsReplyInv ==
  ASSUME TypeOK, TypeOK', \A l \in Stored : Grows(l),
         NEW r \in Stored, NEW doc \in Lock,
         DocInv(r, doc), ReplyInv(r, doc)
  PROVE  ReplyInv(r, doc)'
<1>1. locks[r] \in Lock /\ locks'[r] \in Lock
  BY StaysStored DEF TypeOK, Stored
<1>2. doc.version \in Nat /\ locks[r].version \in Nat /\ locks'[r].version \in Nat
  BY <1>1 DEF Lock
<1>3. Grows(r)
  OBVIOUS
<1>4. doc.version = locks'[r].version =>
         /\ doc.version = locks[r].version
         /\ locks'[r].state = locks[r].state
         /\ locks'[r].openingStartedAt = locks[r].openingStartedAt
  BY <1>2, <1>3 DEF Grows, DocInv
<1> QED
  BY <1>4 DEF ReplyInv

\* A task that takes no step still relies on what it relied on.
LEMMA KeepsTask ==
  ASSUME TypeOK, TypeOK', \A l \in Stored : Grows(l),
         NEW k, NEW t \in Task, Relies(k, t)
  PROVE  Relies(k, t)'
<1> DEFINE l == t.target
<1> USE DEF Relies
<1>1. \A m \in LockIds : t.docs[m] # None =>
         /\ t.docs[m] \in Lock /\ DocInv(m, t.docs[m]) /\ DocInv(m, t.docs[m])'
         /\ m \in Stored /\ m \in Stored'
         /\ SameLock(locks'[m], locks[m]) /\ Grows(m)
  <2> TAKE m \in LockIds
  <2> HAVE t.docs[m] # None
  <2>1. t.docs[m] \in Lock /\ DocInv(m, t.docs[m])
    BY DEF Task
  <2>2. DocInv(m, t.docs[m])'
    BY <2>1, KeepsDoc
  <2>3. m \in Stored
    BY <2>1 DEF DocInv
  <2>4. m \in Stored' /\ Grows(m)
    BY <2>3, StaysStored
  <2> QED
    BY <2>1, <2>2, <2>3, <2>4 DEF Grows
<1>2. t.pc = "insert" => FreshInv(t.fresh)'
  BY KeepsFresh
<1>3. t.pc = "save" => HoldInv(l, t.docs[l], t.actor)'
  BY <1>1, KeepsHoldInv
<1>4. t.pc = "saveReply" => ReplyInv(t.docs[l].replyId, t.docs[t.docs[l].replyId])'
  <2> HAVE t.pc = "saveReply"
  <2>1. t.docs[l].replyId \in LockIds
    BY DEF AnswersTo, Stored
  <2> QED
    BY <1>1, <2>1, KeepsReplyInv
<1>5. t.pc \in {"open", "saveReply", "tellReply"} =>
         /\ t.docs[l].replyId \in AnswersTo(l)'
         /\ locks'[l].state = "UNLOCKED" \/ locks'[l].openedAlone
  BY <1>1, StaysStored DEF Grows
<1>6. t.pc = "alone" =>
         /\ t.docs[l].replyId \in AnswersTo(l)'
         /\ IsPairTogether(locks'[l]) /\ locks'[l].state # "LOCKED"
  BY <1>1, StaysStored, SameParties DEF Grows
<1>7. t.pc = "write" => locks'[l].conditionType = "RECIPIENT_SET"
  BY <1>1 DEF SameLock
<1>8. t.pc = "stamp" => \A m \in LockIds : t.docs[m] # None =>
                  t.actor \in locks'[m].recipientIds /\ locks'[m].context # None
  BY <1>1 DEF SameLock
<1>9. KnowsHolds(t)'
  BY <1>1 DEF KnowsHolds, Grows
<1> QED
  BY <1>1, <1>2, <1>3, <1>4, <1>5, <1>6, <1>7, <1>8, <1>9

LEMMA NextTaskInv ==
  ASSUME NEW k, NEW t, tasks'[k] = t, Relies(k, t)'
  PROVE  TaskInv(k)'
  BY DEF TaskInv, Relies

\* A lock no step wrote to is as good as it was.
LEMMA KeepsLock ==
  ASSUME \A l \in Stored : Grows(l),
         NEW l \in Stored, LockInv(l), locks'[l] = locks[l]
  PROVE  LockInv(l)'
<1>1. IsReply(locks[l]) =>
         /\ locks[l].replyToId \in Stored'
         /\ Fits(locks[l], locks'[locks[l].replyToId])
         /\ Grows(locks[l].replyToId)
  <2> SUFFICES ASSUME IsReply(locks[l])
      PROVE  /\ locks[l].replyToId \in Stored'
             /\ Fits(locks[l], locks'[locks[l].replyToId])
             /\ Grows(locks[l].replyToId)
    OBVIOUS
  <2>1. PICK o : o = locks[l].replyToId
    OBVIOUS
  <2>2. o \in Stored /\ Fits(locks[l], locks[o])
    BY <2>1 DEF LockInv
  <2>3. o \in Stored' /\ Grows(o) /\ SameLock(locks'[o], locks[o])
    BY <2>2, StaysStored DEF Grows
  <2>4. SameLock(locks[l], locks[l])
    BY DEF SameLock
  <2> QED
    BY <2>1, <2>2, <2>3, <2>4, StillFits
<1>2. locks[l].replyId # None => locks[l].replyId \in AnswersTo(l)'
  BY StaysStored DEF LockInv, Stored
<1> QED
  BY <1>1, <1>2 DEF LockInv, Grows

\* Task k becomes t, and nobody else's task changes.
Moves(k, t) == t \in Task /\ tasks' = [tasks EXCEPT ![k] = t]

LEMMA MovesType ==
  ASSUME TypeOK, NEW k \in Runners, NEW t, Moves(k, t)
  PROVE  /\ tasks' \in [Runners -> Task] /\ tasks'[k] = t
         /\ \A j \in Runners \ {k} : tasks'[j] = tasks[j]
  BY DEF Moves, TypeOK

\* What every step has to do.
GoodStep == IInv' /\ \A l \in Stored : Grows(l)

\* What a step of task k has to show.
LEMMA StepInv ==
  ASSUME IInv, TypeOK', \A l \in Stored : Grows(l),
         NEW k \in Runners, NEW t, Moves(k, t), Relies(k, t)',
         \A l \in Stored' : (l \in Stored /\ locks'[l] = locks[l]) \/ LockInv(l)'
  PROVE  GoodStep
<1>1. \A l \in Stored' : LockInv(l)'
  <2>1. \A l \in Stored : locks'[l] = locks[l] => LockInv(l)'
    BY KeepsLock DEF IInv
  <2> QED
    BY <2>1
<1>2. ASSUME NEW j \in Runners PROVE TaskInv(j)'
  <2>1. CASE j = k
    BY <2>1, MovesType, NextTaskInv DEF IInv
  <2>2. CASE j # k
    <3>1. PICK s \in Task : s = tasks[j]
      BY DEF IInv, TypeOK
    <3>2. Relies(j, s)'
      BY <3>1, KeepsTask DEF IInv, TaskInv
    <3> QED
      BY <2>2, <3>1, <3>2, MovesType, NextTaskInv DEF IInv
  <2> QED
    BY <2>1, <2>2
<1> QED
  BY <1>1, <1>2 DEF IInv, GoodStep

\* A step that leaves the locks alone.
LEMMA SameGrows ==
  ASSUME TypeOK, locks' = locks
  PROVE  \A l \in Stored : Grows(l)
<1> SUFFICES ASSUME NEW l \in Stored PROVE Grows(l)
  OBVIOUS
<1>1. locks'[l] = locks[l] /\ locks[l] # None /\ locks[l].version \in Nat
  BY DEF Stored, TypeOK, Lock
<1> QED
  BY <1>1 DEF Grows, SameLock

LEMMA QuietStep ==
  ASSUME IInv, TypeOK', locks' = locks,
         NEW k \in Runners, NEW t, Moves(k, t), Relies(k, t)'
  PROVE  GoodStep
<1>1. \A l \in Stored' : l \in Stored /\ locks'[l] = locks[l]
  BY DEF Stored
<1> QED
  BY <1>1, SameGrows, StepInv DEF IInv

\* With the locks as they were, what t relies on is as it was.
LEMMA SameRelies ==
  ASSUME locks' = locks, NEW k, NEW t, Relies(k, t)
  PROVE  Relies(k, t)'
<1>1. Stored' = Stored /\ \A m : AnswersTo(m)' = AnswersTo(m)
  BY DEF AnswersTo, Stored
<1>2. \A m, doc : DocInv(m, doc) => DocInv(m, doc)'
  BY <1>1 DEF DocInv
<1>3. \A lock : FreshInv(lock) => FreshInv(lock)'
  BY <1>1 DEF FreshInv
<1>4. \A m, doc, u : HoldInv(m, doc, u) => HoldInv(m, doc, u)'
  BY DEF HoldInv
<1>5. \A m, doc : ReplyInv(m, doc) => ReplyInv(m, doc)'
  BY DEF ReplyInv
<1>6. KnowsHolds(t) => KnowsHolds(t)'
  BY DEF KnowsHolds
<1> QED
  BY <1>1, <1>2, <1>3, <1>4, <1>5, <1>6 DEF Relies

\* The documents of a task stay good.
LEMMA KeepsDocs ==
  ASSUME TypeOK, TypeOK', \A l \in Stored : Grows(l),
         NEW k, NEW t \in Task, Relies(k, t)
  PROVE  \A m \in LockIds : t.docs[m] # None => DocInv(m, t.docs[m])'
<1> SUFFICES ASSUME NEW m \in LockIds, t.docs[m] # None PROVE DocInv(m, t.docs[m])'
  OBVIOUS
<1>1. t.docs[m] \in Lock /\ DocInv(m, t.docs[m])
  BY DEF Task, Relies
<1> QED
  BY <1>1, KeepsDoc

\* What a task knows of its target's holds stays stored.
LEMMA KeepsHolds ==
  ASSUME \A l \in Stored : Grows(l),
         NEW k, NEW s, Relies(k, s), s.pc # "save",
         NEW t, t.target = s.target, t.target \in LockIds => t.docs[t.target] = s.docs[t.target]
  PROVE  KnowsHolds(t)'
<1> SUFFICES ASSUME t.target \in LockIds, s.docs[t.target] # None
             PROVE  s.docs[t.target].confirmedIds \subseteq locks'[t.target].confirmedIds
  BY DEF KnowsHolds
<1>1. t.target \in Stored
  BY DEF Relies, DocInv
<1>2. s.docs[t.target].confirmedIds \subseteq locks[t.target].confirmedIds
  BY DEF Relies, KnowsHolds
<1> QED
  BY <1>1, <1>2 DEF Grows

-----------------------------------------------------------------------------
(* The steps of a task: Begin, Goto, End.                                  *)

LEMMA GotoTask ==
  ASSUME TypeOK, NEW k \in Runners, NEW pc \in Pcs, Goto(k, pc)
  PROVE  Moves(k, [tasks[k] EXCEPT !.pc = pc])
<1>1. tasks[k] \in Task /\ [tasks[k] EXCEPT !.pc = pc] \in Task
  BY DEF TypeOK, Task
<1> QED
  BY <1>1 DEF Goto, TypeOK, Moves

\* What no point of a task relies on but its documents, task s may end in.
LEMMA GotoDocs ==
  ASSUME NEW s \in Task, NEW t, NEW pc, t = [s EXCEPT !.pc = pc]
  PROVE  /\ t.pc = pc /\ t.docs = s.docs /\ t.target = s.target
         /\ t.actor = s.actor /\ t.fresh = s.fresh
  BY DEF Task

LEMMA EndTask ==
  ASSUME NEW k \in Runners, End(k)
  PROVE  Moves(k, Idle) /\ Relies(k, Idle)'
<1>1. Relies(k, Idle)'
  BY DEF Relies, Idle, NoDocs, KnowsHolds
<1> QED
  BY <1>1, IdleType DEF End, Moves

\* What a freshly loaded document satisfies.
LEMMA LoadedDocs ==
  ASSUME TypeOK, NEW l \in Stored, LockInv(l), NEW doc \in Lock,
         SameLock(doc, locks[l]), doc.version = locks[l].version,
         doc.replyId = locks[l].replyId,
         NEW pc \in Pcs, NEW u \in Users \cup {None},
         NEW t, t = Loaded(pc, u, l, doc)
  PROVE  /\ t \in Task
         /\ t.pc = pc /\ t.actor = u /\ t.target = l /\ t.docs[l] = doc
         /\ \A m \in LockIds : t.docs[m] # None => DocInv(m, t.docs[m])
<1>1. locks[l] \in Lock /\ l \in LockIds
  BY DEF TypeOK, Stored
<1>2. DocInv(l, doc)
  BY <1>1 DEF DocInv, LockInv, Lock
<1>3. t \in Task
  BY <1>1, LoadedType
<1> QED
  BY <1>1, <1>2, <1>3 DEF Loaded, Idle, NoDocs

-----------------------------------------------------------------------------
(* The steps that leave the stored locks alone.                            *)

LEMMA CreateInv ==
  ASSUME IInv, NEW k \in Requests, NEW d \in Drafts, Create(k, d)
  PROVE  GoodStep
<1>1. PICK fresh : fresh = FromDraft(d)
  OBVIOUS
<1>2. PICK t : t = [Idle EXCEPT !.pc = "insert", !.actor = d.senderId,
                                !.fresh = fresh]
  OBVIOUS
<1>3. d \in Draft /\ fresh \in Lock
  BY <1>1, ConstantAssumptions, FromDraftType
<1>4. t \in Task
  BY <1>2, <1>3, IdleType DEF Task, Draft, Pcs
<1>5. Moves(k, t)
  BY <1>1, <1>2, <1>4 DEF Create, Begin, Moves
<1>6. TypeOK'
  BY <1>5, MovesType DEF IInv, TypeOK, Create
<1>7. fresh # None /\ ~IsReply(fresh) /\ FreshInv(fresh)
  <2>1. fresh # None
    BY <1>3, ConstantAssumptions
  <2> QED
    BY <1>1, <2>1 DEF FreshInv, FromDraft, Sealed, IsReply, DefaultConditionLabel
<1>8. Relies(k, t)
  BY <1>2, <1>7 DEF Relies, Idle, NoDocs, KnowsHolds
<1> QED
  BY <1>5, <1>6, <1>8, SameRelies, QuietStep DEF Create

LEMMA StashBackInv ==
  ASSUME IInv, NEW k \in Requests, NEW u \in Users, NEW l \in LockIds,
         NEW mfa \in SecondKeys, StashBack(k, u, l, mfa)
  PROVE  GoodStep
<1>1. PICK answer : answer = AnswerTo(l, locks[l], u, mfa)
  OBVIOUS
<1>2. PICK s : s = Loaded("insert", u, l, locks[l])
  OBVIOUS
<1>3. PICK t : t = [s EXCEPT !.fresh = answer]
  OBVIOUS
<1>4. l \in Stored /\ locks[l] \in Lock /\ LockInv(l)
  BY DEF StashBack, IInv, TypeOK, Stored
<1>5. answer \in Lock
  BY <1>1, <1>4, AnswerToType, ConstantAssumptions
<1>6. /\ s \in Task
      /\ s.pc = "insert" /\ s.target = l /\ s.docs[l] = locks[l]
      /\ \A m \in LockIds : s.docs[m] # None => DocInv(m, s.docs[m])
  BY <1>2, <1>4, LoadedDocs DEF SameLock, IInv, Pcs
<1>7. /\ t \in Task /\ t.pc = "insert" /\ t.target = l
      /\ t.docs = s.docs /\ t.fresh = answer
  BY <1>3, <1>5, <1>6 DEF Task
<1>8. Moves(k, t)
  BY <1>1, <1>2, <1>3, <1>7 DEF StashBack, Begin, Moves
<1>9. TypeOK'
  BY <1>8, MovesType DEF IInv, TypeOK, StashBack
<1>10. FreshInv(answer) /\ answer.replyToId = l
  <2>1. Fits(answer, locks[l])
    BY <1>1 DEF StashBack, Fits, AnswerTo, Sealed, IsRecipient
  <2>2. answer # None
    BY <1>5, ConstantAssumptions
  <2> QED
    BY <1>1, <1>4, <2>1, <2>2 DEF FreshInv, AnswerTo, Sealed
<1>11. Relies(k, t)
  <2>1. t.docs[l] # None
    BY <1>4, <1>6, <1>7, ConstantAssumptions
  <2> QED
    BY <1>6, <1>7, <1>10, <2>1 DEF Relies, KnowsHolds
<1> QED
  BY <1>8, <1>9, <1>11, SameRelies, QuietStep DEF StashBack

LEMMA TellOriginalInv ==
  ASSUME IInv, NEW k \in Runners, TellOriginal(k)
  PROVE  GoodStep
<1>1. PICK s \in Task : s = tasks[k]
  BY DEF IInv, TypeOK
<1>2. PICK t : t = [s EXCEPT !.pc = "announce"]
  OBVIOUS
<1>3. Relies(k, s) /\ s.pc = "tellOriginal"
  BY <1>1 DEF IInv, TaskInv, TellOriginal
<1>4. Moves(k, t)
  BY <1>1, <1>2, GotoTask DEF TellOriginal, IInv, Pcs
<1>5. TypeOK'
  <2>1. Doc(k).replyToId \in LockIds /\ s.docs[Doc(k).replyToId] \in Lock
    BY <1>1, <1>3 DEF Relies, Doc, Task
  <2> QED
    BY <1>1, <1>4, <2>1, MovesType DEF IInv, TypeOK, TellOriginal, Tell, View, Lock
<1>6. Relies(k, t)
  BY <1>2, <1>3, GotoDocs DEF Relies, KnowsHolds
<1> QED
  BY <1>4, <1>5, <1>6, SameRelies, QuietStep DEF TellOriginal

LEMMA AnnounceInv ==
  ASSUME IInv, NEW k \in Runners, Announce(k)
  PROVE  GoodStep
<1>1. tasks[k] \in Task /\ Relies(k, tasks[k])
  BY DEF IInv, TypeOK, TaskInv
<1>2. Doc(k) \in Lock /\ tasks[k].target \in LockIds
  BY <1>1 DEF Announce, Relies, Doc, Task
<1>3. TypeOK'
  BY <1>2, EndTask, MovesType DEF IInv, TypeOK, Announce, Tell, View, Lock
<1> QED
  BY <1>3, EndTask, QuietStep DEF Announce

LEMMA ConfirmInv ==
  ASSUME IInv, NEW k \in Requests, NEW u \in Users, NEW l \in LockIds,
         NEW mfa \in SecondKeys, Confirm(k, u, l, mfa)
  PROVE  GoodStep
<1>1. PICK doc : doc = ApplyConfirm(locks[l], u)
  OBVIOUS
<1>2. PICK t : t = Loaded("save", u, l, doc)
  OBVIOUS
<1>3. l \in Stored /\ locks[l] \in Lock /\ LockInv(l)
  BY DEF Confirm, IInv, TypeOK, Stored
<1>4. doc \in Lock
  BY <1>1, <1>3, ApplyConfirmType
<1>5. /\ SameLock(doc, locks[l]) /\ doc.version = locks[l].version
      /\ doc.replyId = locks[l].replyId
      /\ doc.state = StateAfter(locks[l], u)
      /\ doc.confirmedIds = locks[l].confirmedIds \cup {u}
      /\ doc.openingStartedAt =
             (locks[l].openingStartedAt \/ StartsOpening(locks[l], u))
  BY <1>1, <1>3 DEF ApplyConfirm, SameLock, Lock
<1>6. /\ t \in Task
      /\ t.pc = "save" /\ t.actor = u /\ t.target = l /\ t.docs[l] = doc
      /\ \A m \in LockIds : t.docs[m] # None => DocInv(m, t.docs[m])
  BY <1>2, <1>3, <1>4, <1>5, LoadedDocs DEF IInv, Pcs
<1>7. Moves(k, t)
  BY <1>1, <1>2, <1>6 DEF Confirm, Begin, Moves
<1>8. TypeOK'
  BY <1>7, MovesType DEF IInv, TypeOK, Confirm
<1>9. HoldInv(l, doc, u)
  <2>1. MayHold(locks[l], u)
    BY DEF Confirm, CanConfirm, MayHold, Truthy
  <2> QED
    BY <1>5, <2>1 DEF HoldInv
<1>10. Relies(k, t)
  BY <1>4, <1>6, <1>9, ConstantAssumptions DEF Relies, KnowsHolds
<1> QED
  BY <1>7, <1>8, <1>10, SameRelies, QuietStep DEF Confirm

LEMMA ScheduleOpenAloneInv ==
  ASSUME IInv, NEW k \in Runners, ScheduleOpenAlone(k)
  PROVE  GoodStep
<1>1. PICK s \in Task : s = tasks[k]
  BY DEF IInv, TypeOK
<1>2. PICK t : t = [s EXCEPT !.pc = "announce"]
  OBVIOUS
<1>3. Relies(k, s) /\ s.pc = "arm"
  BY <1>1 DEF IInv, TaskInv, ScheduleOpenAlone
<1>4. Moves(k, t)
  BY <1>1, <1>2, GotoTask DEF ScheduleOpenAlone, IInv, Pcs
<1>5. TypeOK'
  BY <1>1, <1>3, <1>4, MovesType DEF IInv, TypeOK, ScheduleOpenAlone, Relies
<1>6. Relies(k, t)
  BY <1>2, <1>3, GotoDocs DEF Relies, KnowsHolds
<1> QED
  BY <1>4, <1>5, <1>6, SameRelies, QuietStep DEF ScheduleOpenAlone

LEMMA UnlockReplyInv ==
  ASSUME IInv, NEW k \in Runners, UnlockReply(k)
  PROVE  GoodStep
<1>1. PICK s \in Task : s = tasks[k]
  BY DEF IInv, TypeOK
<1>2. PICK l, r : l = s.target /\ r = s.docs[l].replyId
  OBVIOUS
<1>3. Relies(k, s) /\ s.pc = "open" /\ r = Doc(k).replyId
  BY <1>1, <1>2 DEF IInv, TaskInv, UnlockReply, Doc
<1>4. /\ l \in LockIds /\ s.docs[l] # None /\ r \in AnswersTo(l)
      /\ locks[l].state = "UNLOCKED" \/ locks[l].openedAlone
  BY <1>2, <1>3 DEF Relies
<1>5. r \in Stored /\ r \in LockIds /\ locks[r] \in Lock /\ LockInv(r)
      /\ locks[r].replyToId = l
  BY <1>4 DEF AnswersTo, Stored, IInv, TypeOK
<1>6. r # l
  <2>1. IsReply(locks[r])
    BY <1>4, <1>5, ConstantAssumptions DEF IsReply
  <2>2. IsPairTogether(locks[l])
    BY <1>5, <2>1 DEF LockInv, Fits
  <2> QED
    BY <2>1, <2>2 DEF IsPairTogether
<1>7. CASE locks[r].state = "UNLOCKED"
  <2>1. PICK t : t = [s EXCEPT !.pc = "announce"]
    OBVIOUS
  <2>2. Moves(k, t)
    BY <1>1, <1>3, <1>7, <2>1, GotoTask DEF UnlockReply, IInv, Pcs
  <2>3. TypeOK'
    BY <2>2, MovesType DEF IInv, TypeOK, UnlockReply
  <2>4. Relies(k, t)
    BY <1>3, <2>1, GotoDocs DEF Relies, KnowsHolds
  <2> QED
    BY <2>2, <2>3, <2>4, SameRelies, QuietStep DEF UnlockReply
<1>8. CASE locks[r].state # "UNLOCKED"
  <2>1. PICK doc : doc = [locks[r] EXCEPT !.state = "UNLOCKED",
                                          !.confirmedIds = Participants(locks[r])]
    OBVIOUS
  <2>2. PICK t : t = [s EXCEPT !.pc = "saveReply", !.docs[r] = doc]
    OBVIOUS
  <2>3. doc \in Lock
    BY <1>5, <2>1 DEF Lock, LockStates, Participants
  <2>4. /\ t \in Task /\ t.pc = "saveReply" /\ t.target = l
        /\ t.docs = [s.docs EXCEPT ![r] = doc]
    BY <1>2, <1>5, <2>2, <2>3 DEF Task, Pcs
  <2>5. Moves(k, t)
    <3>1. tasks' = [tasks EXCEPT
              ![k].pc = "saveReply",
              ![k].docs[r] = [locks[r] EXCEPT
                    !.state = "UNLOCKED", !.confirmedIds = Participants(locks[r])]]
      BY <1>3, <1>5, <1>8 DEF UnlockReply, Stored
    <3>2. tasks' = [tasks EXCEPT ![k].pc = "saveReply", ![k].docs[r] = doc]
      BY <2>1, <3>1
    <3>3. tasks' = [tasks EXCEPT ![k] = t]
      BY <1>1, <2>2, <3>2
    <3> QED
      BY <2>4, <3>3 DEF Moves
  <2>6. TypeOK'
    BY <2>5, MovesType DEF IInv, TypeOK, UnlockReply
  <2>7. /\ SameLock(doc, locks[r]) /\ doc.version = locks[r].version
        /\ doc.replyId = locks[r].replyId /\ doc.state = "UNLOCKED"
        /\ doc.openingStartedAt = locks[r].openingStartedAt
        /\ doc.confirmedIds = Participants(locks[r])
    BY <1>5, <2>1 DEF SameLock, Lock
  <2>8. DocInv(r, doc)
    BY <1>5, <2>7 DEF DocInv, LockInv, Lock
  <2>9. ReplyInv(r, doc)
    BY <1>8, <2>7, SameParties DEF ReplyInv
  <2>10. /\ t.docs[r] = doc /\ t.docs[l] = s.docs[l]
         /\ \A m \in LockIds \ {r} : t.docs[m] = s.docs[m]
    BY <1>4, <1>5, <1>6, <2>4 DEF Task
  <2>11. Relies(k, t)
    <3>1. doc # None
      BY <2>3, ConstantAssumptions
    <3>2. ASSUME NEW m \in LockIds, t.docs[m] # None PROVE DocInv(m, t.docs[m])
      BY <1>3, <2>8, <2>10, <3>2 DEF Relies
    <3>3. t.docs[l].replyId = r
      BY <1>2, <2>10
    <3>4. KnowsHolds(t)
      BY <1>2, <1>3, <1>4, <2>4, <2>10 DEF Relies, KnowsHolds
    <3> QED
      BY <1>4, <2>4, <2>9, <2>10, <3>1, <3>2, <3>3, <3>4 DEF Relies
  <2> QED
    BY <2>5, <2>6, <2>11, SameRelies, QuietStep DEF UnlockReply
<1> QED
  BY <1>7, <1>8

LEMMA TellReplyInv ==
  ASSUME IInv, NEW k \in Runners, TellReply(k)
  PROVE  GoodStep
<1>1. PICK s \in Task : s = tasks[k]
  BY DEF IInv, TypeOK
<1>2. PICK t : t = [s EXCEPT !.pc = "announce"]
  OBVIOUS
<1>3. Relies(k, s) /\ s.pc = "tellReply"
  BY <1>1 DEF IInv, TaskInv, TellReply
<1>4. Moves(k, t)
  BY <1>1, <1>2, GotoTask DEF TellReply, IInv, Pcs
<1>5. TypeOK'
  <2>1. Doc(k).replyId \in LockIds /\ s.docs[Doc(k).replyId] \in Lock
    BY <1>1, <1>3 DEF Relies, Doc, Task, AnswersTo, Stored
  <2> QED
    BY <1>1, <1>4, <2>1, MovesType DEF IInv, TypeOK, TellReply, Tell, View, Lock
<1>6. Relies(k, t)
  BY <1>2, <1>3, GotoDocs DEF Relies, KnowsHolds
<1> QED
  BY <1>4, <1>5, <1>6, SameRelies, QuietStep DEF TellReply

LEMMA OpenAloneInv ==
  ASSUME IInv, NEW l \in LockIds, OpenAlone(l)
  PROVE  GoodStep
<1>1. CASE /\ l \in Stored /\ locks[l].state = "READY"
           /\ ~locks[l].openedAlone /\ locks[l].replyId # None
  <2>1. PICK doc : doc = [locks[l] EXCEPT !.openedAlone = TRUE]
    OBVIOUS
  <2>2. PICK t : t = Loaded("alone", None, l, doc)
    OBVIOUS
  <2>3. locks[l] \in Lock /\ LockInv(l)
    BY <1>1 DEF IInv, TypeOK, Stored
  <2>4. /\ doc \in Lock /\ SameLock(doc, locks[l])
        /\ doc.version = locks[l].version /\ doc.replyId = locks[l].replyId
        /\ doc.confirmedIds = locks[l].confirmedIds
    BY <2>1, <2>3 DEF Lock, SameLock
  <2>5. /\ t \in Task /\ t.pc = "alone" /\ t.target = l /\ t.docs[l] = doc
        /\ \A m \in LockIds : t.docs[m] # None => DocInv(m, t.docs[m])
    BY <1>1, <2>2, <2>3, <2>4, LoadedDocs DEF IInv, Pcs
  <2>6. Moves(l, t)
    BY <1>1, <2>1, <2>2, <2>5 DEF OpenAlone, Begin, Moves
  <2>7. TypeOK'
    BY <2>6, MovesType DEF IInv, TypeOK, OpenAlone
  <2>8. Relies(l, t)
    BY <1>1, <2>3, <2>4, <2>5, ConstantAssumptions DEF Relies, LockInv, KnowsHolds
  <2> QED
    BY <2>6, <2>7, <2>8, SameRelies, QuietStep DEF OpenAlone
<1>2. CASE ~(/\ l \in Stored /\ locks[l].state = "READY"
             /\ ~locks[l].openedAlone /\ locks[l].replyId # None)
  <2>1. PICK t \in Task : t = tasks[l]
    BY DEF IInv, TypeOK
  <2>2. tasks' = tasks
    BY <1>2 DEF OpenAlone
  <2>3. TypeOK'
    BY <2>2 DEF IInv, TypeOK, OpenAlone
  <2>4. Moves(l, t) /\ Relies(l, t)
    BY <2>1, <2>2 DEF Moves, IInv, TypeOK, TaskInv
  <2> QED
    BY <2>3, <2>4, SameRelies, QuietStep DEF OpenAlone
<1> QED
  BY <1>1, <1>2

LEMMA SetConditionInv ==
  ASSUME IInv, NEW k \in Requests, NEW u \in Users, NEW l \in LockIds,
         NEW text \in Words \cup {Blank}, SetCondition(k, u, l, text)
  PROVE  GoodStep
<1>1. PICK doc : doc = [locks[l] EXCEPT !.conditionLabel = text]
  OBVIOUS
<1>2. PICK pc : pc = IF text = locks[l].conditionLabel THEN "announce" ELSE "write"
  OBVIOUS
<1>3. PICK t : t = Loaded(pc, u, l, doc)
  OBVIOUS
<1>4. l \in Stored /\ locks[l] \in Lock /\ LockInv(l)
  BY DEF SetCondition, IInv, TypeOK, Stored
<1>5. /\ doc \in Lock /\ SameLock(doc, locks[l])
      /\ doc.version = locks[l].version /\ doc.replyId = locks[l].replyId
      /\ doc.conditionLabel = text /\ doc.confirmedIds = locks[l].confirmedIds
  BY <1>1, <1>4 DEF Lock, Labels, SameLock
<1>6. /\ t \in Task /\ t.pc = pc /\ t.target = l /\ t.docs[l] = doc
      /\ \A m \in LockIds : t.docs[m] # None => DocInv(m, t.docs[m])
  BY <1>2, <1>3, <1>4, <1>5, LoadedDocs DEF IInv, Pcs
<1>7. Moves(k, t)
  BY <1>1, <1>2, <1>3, <1>6 DEF SetCondition, Begin, Moves
<1>8. TypeOK'
  BY <1>7, MovesType DEF IInv, TypeOK, SetCondition
<1>9. Relies(k, t)
  <2>1. text # None
    BY <1>5, ConstantAssumptions DEF CanSetCondition, SetCondition, Truthy
  <2>2. locks[l].conditionType = "RECIPIENT_SET"
    BY DEF SetCondition, CanSetCondition
  <2> QED
    BY <1>2, <1>5, <1>6, <2>1, <2>2, ConstantAssumptions DEF Relies, KnowsHolds
<1> QED
  BY <1>7, <1>8, <1>9, SameRelies, QuietStep DEF SetCondition

LEMMA MarkHereInv ==
  ASSUME IInv, NEW k \in Requests, NEW u \in Users, NEW moment \in Moments,
         MarkHere(k, u, moment)
  PROVE  GoodStep
<1>1. PICK docs : docs = [l \in LockIds |-> IF Matches(l, u, moment) THEN locks[l]
                                            ELSE None]
  OBVIOUS
<1>2. PICK t : t = [Idle EXCEPT !.pc = "stamp", !.actor = u, !.docs = docs]
  OBVIOUS
<1>3. docs \in [LockIds -> Lock \cup {None}]
  BY <1>1 DEF IInv, TypeOK
<1>4. /\ t \in Task /\ t.pc = "stamp" /\ t.actor = u /\ t.target \notin LockIds
      /\ t.docs = docs
  BY <1>2, <1>3, IdleType, ConstantAssumptions DEF Task, Pcs, Idle
<1>5. Moves(k, t)
  BY <1>1, <1>2, <1>4 DEF MarkHere, Begin, Moves
<1>6. TypeOK'
  BY <1>5, MovesType DEF IInv, TypeOK, MarkHere
<1>7. ASSUME NEW m \in LockIds, docs[m] # None
      PROVE  /\ DocInv(m, docs[m])
             /\ u \in locks[m].recipientIds /\ locks[m].context # None
  <2>1. Matches(m, u, moment) /\ docs[m] = locks[m]
    BY <1>1, <1>7
  <2>2. m \in Stored /\ locks[m] \in Lock /\ LockInv(m)
    BY <2>1 DEF Matches, IInv, TypeOK, Stored
  <2> QED
    BY <2>1, <2>2, ConstantAssumptions
       DEF Matches, DocInv, SameLock, LockInv, IsRecipient, Lock
<1>8. Relies(k, t)
  BY <1>4, <1>7 DEF Relies, KnowsHolds
<1> QED
  BY <1>5, <1>6, <1>8, SameRelies, QuietStep DEF MarkHere

LEMMA AnnounceHereInv ==
  ASSUME IInv, NEW k \in Runners, AnnounceHere(k)
  PROVE  GoodStep
<1>1. PICK s \in Task : s = tasks[k]
  BY DEF IInv, TypeOK
<1>2. PICK l \in LockIds :
         /\ s.docs[l] # None /\ Tell(l, s.docs[l])
         /\ IF \A m \in LockIds \ {l} : s.docs[m] = None
            THEN End(k) ELSE tasks' = [tasks EXCEPT ![k].docs[l] = None]
  BY <1>1 DEF AnnounceHere
<1>3. Relies(k, s) /\ s.pc = "announceHere" /\ s.docs[l] \in Lock
  BY <1>1, <1>2 DEF IInv, TaskInv, AnnounceHere, Task
<1>4. ASSUME NEW t, Moves(k, t) PROVE TypeOK'
  BY <1>2, <1>3, <1>4, MovesType DEF IInv, TypeOK, AnnounceHere, Tell, View, Lock
<1>5. CASE End(k)
  BY <1>4, <1>5, EndTask, QuietStep DEF AnnounceHere
<1>6. CASE tasks' = [tasks EXCEPT ![k].docs[l] = None]
  <2>1. PICK t : t = [s EXCEPT !.docs[l] = None]
    OBVIOUS
  <2>2. /\ t \in Task /\ t.pc = "announceHere" /\ t.target = s.target
        /\ t.docs = [s.docs EXCEPT ![l] = None]
    BY <1>3, <2>1 DEF Task
  <2>3. Moves(k, t)
    BY <1>1, <1>6, <2>1, <2>2 DEF Moves, IInv, TypeOK
  <2>4. \A m \in LockIds : t.docs[m] # None => DocInv(m, t.docs[m])
    BY <1>3, <2>2 DEF Relies, Task
  <2>5. KnowsHolds(t)
    BY <1>3, <2>2 DEF Relies, KnowsHolds, Task
  <2>6. Relies(k, t)
    BY <2>2, <2>4, <2>5 DEF Relies
  <2> QED
    BY <1>4, <2>3, <2>6, SameRelies, QuietStep DEF AnnounceHere
<1> QED
  BY <1>2, <1>5, <1>6

LEMMA FailInv ==
  ASSUME IInv, NEW k \in Runners, Fail(k)
  PROVE  GoodStep
<1>1. TypeOK'
  BY EndTask, MovesType DEF IInv, TypeOK, Fail
<1> QED
  BY <1>1, EndTask, QuietStep DEF Fail

LEMMA RestartInv ==
  ASSUME IInv, Restart
  PROVE  GoodStep
<1>1. TypeOK'
  BY IdleType DEF IInv, TypeOK, Restart
<1>2. \A l \in Stored' : LockInv(l)'
  BY DEF IInv, Restart, Stored, LockInv, AnswersTo
<1>3. ASSUME NEW k \in Runners PROVE TaskInv(k)'
  <2>1. PICK t : t = Idle
    OBVIOUS
  <2>2. tasks'[k] = t /\ Relies(k, t)'
    BY <2>1 DEF Restart, Relies, Idle, NoDocs, KnowsHolds
  <2> QED
    BY <2>2, NextTaskInv
<1> QED
  BY <1>1, <1>2, <1>3, SameGrows DEF IInv, GoodStep, Restart

-----------------------------------------------------------------------------
(* The steps that store a lock.                                            *)

\* One stored lock is written, and the others stay as they were.
LEMMA WriteStep ==
  ASSUME TypeOK, NEW l \in Stored, NEW new \in Lock,
         locks' = [locks EXCEPT ![l] = new], Grows(l)
  PROVE  /\ locks' \in [LockIds -> Lock \cup {None}] /\ locks'[l] = new
         /\ \A m \in Stored : Grows(m)
         /\ \A m \in Stored' : m \in Stored /\ (m # l => locks'[m] = locks[m])
<1>1. l \in LockIds /\ locks'[l] = new /\ locks' \in [LockIds -> Lock \cup {None}]
  BY DEF TypeOK, Stored
<1>2. \A m \in LockIds \ {l} : locks'[m] = locks[m]
  BY DEF TypeOK
<1>3. ASSUME NEW m \in Stored, m # l PROVE Grows(m)
  <2>1. locks'[m] = locks[m] /\ locks[m] # None /\ locks[m].version \in Nat
    BY <1>2, <1>3 DEF Stored, TypeOK, Lock
  <2> QED
    BY <2>1 DEF Grows, SameLock
<1> QED
  BY <1>1, <1>2, <1>3 DEF Stored

\* What a lock that grew still refers to.
LEMMA KeepsLinks ==
  ASSUME \A m \in Stored : Grows(m), NEW l \in Stored, LockInv(l)
  PROVE  /\ SameLock(locks'[l], locks[l])
         /\ IsReply(locks'[l]) <=> IsReply(locks[l])
         /\ IsPairTogether(locks'[l]) <=> IsPairTogether(locks[l])
         /\ IsReply(locks'[l]) =>
                LET o == locks'[l].replyToId IN
                /\ o \in Stored' /\ Fits(locks'[l], locks'[o])
                /\ locks[o].state = "UNLOCKED" => locks'[o].state = "UNLOCKED"
                /\ locks[o].openedAlone => locks'[o].openedAlone
         /\ locks[l].replyId # None => locks[l].replyId \in AnswersTo(l)'
<1>1. SameLock(locks'[l], locks[l]) /\ l \in LockIds
  BY DEF Grows, Stored
<1>2. IsReply(locks[l]) =>
         /\ Grows(locks[l].replyToId) /\ locks[l].replyToId \in Stored'
         /\ Fits(locks'[l], locks'[locks[l].replyToId])
  <2> SUFFICES ASSUME IsReply(locks[l])
      PROVE  /\ Grows(locks[l].replyToId) /\ locks[l].replyToId \in Stored'
             /\ Fits(locks'[l], locks'[locks[l].replyToId])
    OBVIOUS
  <2>1. PICK o : o = locks[l].replyToId
    OBVIOUS
  <2>2. o \in Stored /\ Fits(locks[l], locks[o])
    BY <2>1 DEF LockInv
  <2>3. o \in Stored' /\ Grows(o) /\ SameLock(locks'[o], locks[o])
    BY <2>2, StaysStored DEF Grows
  <2> QED
    BY <1>1, <2>1, <2>2, <2>3, StillFits
<1>3. locks[l].replyId # None => locks[l].replyId \in AnswersTo(l)'
  BY <1>1, StaysStored DEF LockInv
<1>4. locks'[l].replyToId = locks[l].replyToId
  BY <1>1 DEF SameLock
<1> QED
  BY <1>1, <1>2, <1>3, <1>4, SameParties DEF Grows

LEMMA InsertInv ==
  ASSUME IInv, NEW k \in Runners, Insert(k)
  PROVE  GoodStep
<1>1. PICK s \in Task : s = tasks[k]
  BY DEF IInv, TypeOK
<1>2. PICK fresh : fresh = s.fresh
  OBVIOUS
<1>3. PICK new \in LockIds \ Stored :
         /\ locks' = [locks EXCEPT ![new] = fresh]
         /\ tasks' = [tasks EXCEPT ![k] = [s EXCEPT
               !.pc = IF IsReply(fresh) THEN "link" ELSE "announce",
               !.target = new, !.docs[new] = fresh, !.fresh = None]]
  BY <1>1, <1>2 DEF Insert
<1>4. PICK t : t = [s EXCEPT !.pc = IF IsReply(fresh) THEN "link" ELSE "announce",
                             !.target = new, !.docs[new] = fresh, !.fresh = None]
  OBVIOUS
<1>5. Relies(k, s) /\ s.pc = "insert" /\ FreshInv(fresh) /\ fresh \in Lock
  BY <1>1, <1>2 DEF IInv, TaskInv, Insert, Relies, Task, FreshInv
<1>6. /\ t \in Task /\ t.pc = (IF IsReply(fresh) THEN "link" ELSE "announce")
      /\ t.target = new /\ t.docs = [s.docs EXCEPT ![new] = fresh]
  BY <1>3, <1>4, <1>5 DEF Task, Pcs
<1>7. Moves(k, t)
  BY <1>1, <1>3, <1>4, <1>6 DEF Moves, IInv, TypeOK
<1>8. /\ locks' \in [LockIds -> Lock \cup {None}] /\ locks'[new] = fresh
      /\ \A m \in LockIds \ {new} : locks'[m] = locks[m]
      /\ Stored' = Stored \cup {new}
  BY <1>3, <1>5, ConstantAssumptions DEF IInv, TypeOK, Stored
<1>9. TypeOK'
  BY <1>7, <1>8, MovesType DEF IInv, TypeOK, Insert
<1>10. \A l \in Stored : Grows(l)
  <2> SUFFICES ASSUME NEW l \in Stored PROVE Grows(l)
    OBVIOUS
  <2>1. locks'[l] = locks[l] /\ locks[l] # None /\ locks[l].version \in Nat
    BY <1>3, <1>8 DEF Stored, IInv, TypeOK, Lock
  <2> QED
    BY <2>1 DEF Grows, SameLock
<1>11. LockInv(new)'
  <2>1. IsReply(fresh) => /\ fresh.replyToId \in Stored'
                          /\ Fits(fresh, locks'[fresh.replyToId])
    BY <1>3, <1>5, <1>8 DEF FreshInv, Stored
  <2> QED
    BY <1>5, <1>8, <2>1 DEF LockInv, FreshInv, StillLacks, Participants, LockHeld,
                            RightlyHeld
<1>12. DocInv(new, fresh)'
  BY <1>5, <1>8 DEF DocInv, FreshInv, SameLock
<1>13. Relies(k, t)'
  <2>1. t.docs[new] = fresh /\ \A m \in LockIds \ {new} : t.docs[m] = s.docs[m]
    BY <1>6 DEF Task
  <2>2. ASSUME NEW m \in LockIds, t.docs[m] # None PROVE DocInv(m, t.docs[m])'
    <3>1. CASE m = new
      BY <1>12, <2>1, <3>1
    <3>2. CASE m # new
      <4>1. t.docs[m] = s.docs[m] /\ DocInv(m, s.docs[m])'
        BY <1>5, <1>9, <1>10, <2>1, <2>2, <3>2, KeepsDocs DEF IInv
      <4> QED
        BY <4>1
    <3> QED
      BY <3>1, <3>2
  <2>3. IsReply(fresh) => /\ fresh.replyToId \in LockIds \ {new}
                          /\ t.docs[fresh.replyToId] # None
    BY <1>2, <1>3, <1>5, <2>1 DEF Relies, FreshInv, Stored
  <2>4. fresh # None
    BY <1>5 DEF FreshInv
  <2>5. KnowsHolds(t)'
    BY <1>5, <1>6, <2>1 DEF KnowsHolds, FreshInv
  <2> QED
    BY <1>6, <2>1, <2>2, <2>3, <2>4, <2>5 DEF Relies
<1> QED
  BY <1>7, <1>8, <1>9, <1>10, <1>11, <1>13, StepInv DEF Stored

LEMMA LinkReplyInv ==
  ASSUME IInv, NEW k \in Runners, LinkReply(k)
  PROVE  GoodStep
<1>1. PICK s \in Task : s = tasks[k]
  BY DEF IInv, TypeOK
<1>2. PICK t : t = [s EXCEPT !.pc = "tellOriginal"]
  OBVIOUS
<1>3. PICK r, o : r = s.target /\ o = s.docs[r].replyToId
  OBVIOUS
<1>4. Relies(k, s) /\ s.pc = "link"
  BY <1>1 DEF IInv, TaskInv, LinkReply
<1>5. /\ r \in LockIds /\ s.docs[r] # None /\ DocInv(r, s.docs[r])
      /\ o \in LockIds /\ s.docs[o] # None /\ DocInv(o, s.docs[o])
  BY <1>3, <1>4 DEF Relies
<1>6. /\ r \in Stored /\ LockInv(r) /\ o \in Stored /\ LockInv(o)
      /\ locks[o] \in Lock /\ locks[r].replyToId = o /\ r \in AnswersTo(o)
  <2>1. r \in Stored /\ o \in Stored /\ locks[r].replyToId = o
    BY <1>3, <1>5 DEF DocInv, SameLock
  <2>2. LockInv(r) /\ LockInv(o)
    BY <2>1 DEF IInv
  <2>3. locks[o] \in Lock
    BY <2>1 DEF IInv, TypeOK, Stored
  <2> QED
    BY <1>5, <2>1, <2>2, <2>3 DEF AnswersTo
<1>7. IsPairTogether(locks[o])
  BY <1>5, <1>6, ConstantAssumptions DEF LockInv, IsReply, Fits
<1>8. PICK new : new = [locks[o] EXCEPT !.replyId = r]
  OBVIOUS
<1>9. /\ new \in Lock /\ SameLock(new, locks[o]) /\ new.replyId = r
      /\ new.state = locks[o].state /\ new.confirmedIds = locks[o].confirmedIds
      /\ new.openingStartedAt = locks[o].openingStartedAt
      /\ new.openedAlone = locks[o].openedAlone
      /\ new.conditionLabel = locks[o].conditionLabel
      /\ new.contextMetBy = locks[o].contextMetBy
      /\ new.version = locks[o].version
  BY <1>5, <1>6, <1>8 DEF Lock, SameLock
<1>10. locks' = [locks EXCEPT ![o] = new]
  BY <1>1, <1>3, <1>8 DEF LinkReply, Doc
<1>11. locks'[o] = new /\ new # None /\ new.version \in Nat
  BY <1>5, <1>9, <1>10, ConstantAssumptions DEF IInv, TypeOK, Lock
<1>12. Grows(o)
  BY <1>5, <1>9, <1>11, ConstantAssumptions DEF Grows
<1>13. /\ locks' \in [LockIds -> Lock \cup {None}] /\ \A m \in Stored : Grows(m)
       /\ \A m \in Stored' : m \in Stored /\ (m # o => locks'[m] = locks[m])
  BY <1>6, <1>9, <1>10, <1>12, WriteStep DEF IInv
<1>14. Moves(k, t)
  BY <1>1, <1>2, GotoTask DEF LinkReply, IInv, Pcs
<1>15. TypeOK'
  BY <1>13, <1>14, MovesType DEF IInv, TypeOK, LinkReply
<1>16. LockInv(o)'
  <2>1. LockHeld(locks[o]) => LockHeld(new)
    BY <1>5, <1>9, SameParties, ConstantAssumptions
       DEF LockHeld, RightlyHeld, OwnStash, HeldByItsRule, SameLock
  <2>2. r \in AnswersTo(o)'
    BY <1>5, <1>6, <1>13, StaysStored
  <2>3. IsPairTogether(new) /\ ~IsReply(new)
    BY <1>7, <1>9, SameParties DEF IsPairTogether
  <2>4. new.state # "LOCKED" => new.openingStartedAt /\ new.senderId \in new.confirmedIds
    BY <1>6, <1>7, <1>9 DEF LockInv, SameLock
  <2>5. new.contextMetBy # None =>
           new.contextMetBy \in new.recipientIds /\ new.context # None
    BY <1>6, <1>9 DEF LockInv, SameLock
  <2>6. new.state = "READY" => new.conditionType = "TOGETHER"
    BY <2>3 DEF IsPairTogether
  <2> QED
    BY <1>5, <1>6, <1>9, <1>11, <2>1, <2>2, <2>3, <2>4, <2>5, <2>6, ConstantAssumptions
       DEF LockInv, StillLacks
<1>17. Relies(k, t)'
  <2>1. \A m \in LockIds : t.docs[m] # None => DocInv(m, t.docs[m])'
    BY <1>2, <1>4, <1>13, <1>15, KeepsDocs, GotoDocs DEF IInv
  <2>2. KnowsHolds(t)'
    BY <1>2, <1>4, <1>13, KeepsHolds, GotoDocs
  <2> QED
    BY <1>2, <1>4, <2>1, <2>2, GotoDocs DEF Relies
<1> QED
  BY <1>13, <1>14, <1>15, <1>16, <1>17, StepInv

LEMMA SaveAloneInv ==
  ASSUME IInv, NEW l \in LockIds, SaveAlone(l)
  PROVE  GoodStep
<1>1. PICK s \in Task : s = tasks[l]
  BY DEF IInv, TypeOK
<1>2. PICK t : t = [s EXCEPT !.pc = "open"]
  OBVIOUS
<1>3. Relies(l, s) /\ s.pc = "alone"
  BY <1>1 DEF IInv, TaskInv, SaveAlone
<1>4. /\ s.target = l /\ s.docs[l] # None /\ DocInv(l, s.docs[l])
      /\ s.docs[l].replyId \in AnswersTo(l)
      /\ IsPairTogether(locks[l]) /\ locks[l].state # "LOCKED"
  BY <1>3 DEF Relies
<1>5. l \in Stored /\ LockInv(l) /\ locks[l] \in Lock
  BY <1>4 DEF DocInv, IInv, TypeOK, Stored
<1>6. PICK new : new = [locks[l] EXCEPT !.openedAlone = TRUE]
  OBVIOUS
<1>7. /\ new \in Lock /\ SameLock(new, locks[l]) /\ new.openedAlone
      /\ new.state = locks[l].state /\ new.confirmedIds = locks[l].confirmedIds
      /\ new.openingStartedAt = locks[l].openingStartedAt
      /\ new.replyId = locks[l].replyId
      /\ new.conditionLabel = locks[l].conditionLabel
      /\ new.contextMetBy = locks[l].contextMetBy
      /\ new.version = locks[l].version
  BY <1>5, <1>6 DEF Lock, SameLock
<1>8. locks' = [locks EXCEPT ![l] = new]
  BY <1>6 DEF SaveAlone
<1>9. locks'[l] = new /\ new # None /\ new.version \in Nat
  BY <1>7, <1>8, ConstantAssumptions DEF IInv, TypeOK, Lock
<1>10. Grows(l)
  BY <1>7, <1>9 DEF Grows
<1>11. /\ locks' \in [LockIds -> Lock \cup {None}] /\ \A m \in Stored : Grows(m)
       /\ \A m \in Stored' : m \in Stored /\ (m # l => locks'[m] = locks[m])
  BY <1>5, <1>7, <1>8, <1>10, WriteStep DEF IInv
<1>12. Moves(l, t)
  BY <1>1, <1>2, GotoTask DEF SaveAlone, IInv, Pcs
<1>13. TypeOK'
  BY <1>11, <1>12, MovesType DEF IInv, TypeOK, SaveAlone
<1>14. LockInv(l)'
  <2>1. LockHeld(locks[l]) => LockHeld(new)
    BY <1>7, SameParties
       DEF LockHeld, RightlyHeld, OwnStash, HeldByItsRule, SameLock
  <2> QED
    BY <1>4, <1>5, <1>7, <1>9, <1>11, <2>1, KeepsLinks
       DEF LockInv, SameLock, StillLacks
<1>15. Relies(l, t)'
  <2>1. \A m \in LockIds : t.docs[m] # None => DocInv(m, t.docs[m])'
    BY <1>2, <1>3, <1>11, <1>13, KeepsDocs, GotoDocs DEF IInv
  <2>2. s.docs[l].replyId \in AnswersTo(l)'
    BY <1>4, <1>11, StaysStored
  <2>3. KnowsHolds(t)'
    BY <1>2, <1>3, <1>11, KeepsHolds, GotoDocs
  <2> QED
    BY <1>2, <1>4, <1>7, <1>9, <2>1, <2>2, <2>3, GotoDocs DEF Relies
<1> QED
  BY <1>11, <1>12, <1>13, <1>14, <1>15, StepInv

LEMMA SaveConditionInv ==
  ASSUME IInv, NEW k \in Runners, SaveCondition(k)
  PROVE  GoodStep
<1>1. PICK s \in Task : s = tasks[k]
  BY DEF IInv, TypeOK
<1>2. PICK t : t = [s EXCEPT !.pc = "announce"]
  OBVIOUS
<1>3. PICK l, doc : l = s.target /\ doc = s.docs[l]
  OBVIOUS
<1>4. Relies(k, s) /\ s.pc = "write"
  BY <1>1 DEF IInv, TaskInv, SaveCondition
<1>5. /\ l \in LockIds /\ doc # None /\ doc \in Lock /\ DocInv(l, doc)
      /\ doc.conditionLabel # None /\ locks[l].conditionType = "RECIPIENT_SET"
  BY <1>3, <1>4 DEF Relies, Task
<1>6. l \in Stored /\ LockInv(l) /\ locks[l] \in Lock
  BY <1>5 DEF DocInv, IInv, TypeOK, Stored
<1>7. PICK new : new = [locks[l] EXCEPT !.conditionLabel = doc.conditionLabel]
  OBVIOUS
<1>8. /\ new \in Lock /\ SameLock(new, locks[l])
      /\ new.conditionLabel # None
      /\ new.state = locks[l].state /\ new.confirmedIds = locks[l].confirmedIds
      /\ new.openingStartedAt = locks[l].openingStartedAt
      /\ new.replyId = locks[l].replyId /\ new.openedAlone = locks[l].openedAlone
      /\ new.contextMetBy = locks[l].contextMetBy
      /\ new.version = locks[l].version
  BY <1>5, <1>6, <1>7 DEF Lock, SameLock
<1>9. locks' = [locks EXCEPT ![l] = new]
  BY <1>1, <1>3, <1>7 DEF SaveCondition, Doc
<1>10. locks'[l] = new /\ new # None /\ new.version \in Nat
  BY <1>5, <1>8, <1>9, ConstantAssumptions DEF IInv, TypeOK, Lock
<1>11. Grows(l)
  BY <1>8, <1>10 DEF Grows
<1>12. /\ locks' \in [LockIds -> Lock \cup {None}] /\ \A m \in Stored : Grows(m)
       /\ \A m \in Stored' : m \in Stored /\ (m # l => locks'[m] = locks[m])
  BY <1>6, <1>8, <1>9, <1>11, WriteStep DEF IInv
<1>13. Moves(k, t)
  BY <1>1, <1>2, GotoTask DEF SaveCondition, IInv, Pcs
<1>14. TypeOK'
  BY <1>12, <1>13, MovesType DEF IInv, TypeOK, SaveCondition
<1>15. LockInv(l)'
  <2>1. LockHeld(locks[l]) => LockHeld(new)
    BY <1>8, SameParties
       DEF LockHeld, RightlyHeld, OwnStash, HeldByItsRule, SameLock
  <2>2. StillLacks(locks[l]) => StillLacks(new)
    BY <1>8, SameParties DEF StillLacks, SameLock
  <2> QED
    BY <1>6, <1>8, <1>10, <1>12, <2>1, <2>2, KeepsLinks DEF LockInv, SameLock
<1>16. Relies(k, t)'
  <2>1. \A m \in LockIds : t.docs[m] # None => DocInv(m, t.docs[m])'
    BY <1>2, <1>4, <1>12, <1>14, KeepsDocs, GotoDocs DEF IInv
  <2>2. KnowsHolds(t)'
    BY <1>2, <1>4, <1>12, KeepsHolds, GotoDocs
  <2> QED
    BY <1>2, <1>3, <1>5, <2>1, <2>2, GotoDocs DEF Relies
<1> QED
  BY <1>12, <1>13, <1>14, <1>15, <1>16, StepInv

LEMMA StampInv ==
  ASSUME IInv, NEW k \in Runners, Stamp(k)
  PROVE  GoodStep
<1>1. PICK s \in Task : s = tasks[k]
  BY DEF IInv, TypeOK
<1>2. PICK l \in LockIds :
         /\ s.docs[l] # None
         /\ locks' = [locks EXCEPT ![l].contextMetBy = s.actor]
         /\ \E pc \in {"stamp", "announceHere"} :
               tasks' = [tasks EXCEPT ![k] =
                           [s EXCEPT !.docs[l].contextMetBy = s.actor, !.pc = pc]]
  BY <1>1 DEF Stamp
<1>3. PICK pc \in {"stamp", "announceHere"} :
         tasks' = [tasks EXCEPT ![k] =
                     [s EXCEPT !.docs[l].contextMetBy = s.actor, !.pc = pc]]
  BY <1>2
<1>4. PICK t : t = [s EXCEPT !.docs[l].contextMetBy = s.actor, !.pc = pc]
  OBVIOUS
<1>5. PICK u, doc : u = s.actor /\ doc = [s.docs[l] EXCEPT !.contextMetBy = u]
  OBVIOUS
<1>6. Relies(k, s) /\ s.pc = "stamp"
  BY <1>1 DEF IInv, TaskInv, Stamp
<1>7. /\ u \in Users /\ s.docs[l] \in Lock /\ DocInv(l, s.docs[l])
      /\ u \in locks[l].recipientIds /\ locks[l].context # None
  BY <1>2, <1>5, <1>6 DEF Relies, Task
<1>8. l \in Stored /\ LockInv(l) /\ locks[l] \in Lock
  BY <1>7 DEF DocInv, IInv, TypeOK, Stored
<1>9. /\ doc \in Lock /\ SameLock(doc, s.docs[l])
      /\ doc.version = s.docs[l].version /\ doc.replyId = s.docs[l].replyId
      /\ doc.confirmedIds = s.docs[l].confirmedIds
  BY <1>5, <1>7 DEF Lock, SameLock
<1>10. /\ t \in Task /\ t.pc = pc /\ t.actor = u
       /\ t.target = s.target /\ t.docs = [s.docs EXCEPT ![l] = doc]
  BY <1>3, <1>4, <1>5, <1>9 DEF Task, Pcs
<1>11. PICK new : new = [locks[l] EXCEPT !.contextMetBy = u]
  OBVIOUS
<1>12. /\ new \in Lock /\ SameLock(new, locks[l]) /\ new.contextMetBy = u
       /\ new.state = locks[l].state /\ new.confirmedIds = locks[l].confirmedIds
       /\ new.openingStartedAt = locks[l].openingStartedAt
       /\ new.replyId = locks[l].replyId /\ new.openedAlone = locks[l].openedAlone
       /\ new.conditionLabel = locks[l].conditionLabel
       /\ new.version = locks[l].version
  BY <1>7, <1>8, <1>11 DEF Lock, SameLock
<1>13. locks' = [locks EXCEPT ![l] = new]
  BY <1>2, <1>5, <1>11
<1>14. locks'[l] = new /\ new # None /\ new.version \in Nat
  BY <1>12, <1>13, ConstantAssumptions DEF IInv, TypeOK, Lock
<1>15. Grows(l)
  BY <1>12, <1>14 DEF Grows
<1>16. /\ locks' \in [LockIds -> Lock \cup {None}] /\ \A m \in Stored : Grows(m)
       /\ \A m \in Stored' : m \in Stored /\ (m # l => locks'[m] = locks[m])
  BY <1>8, <1>12, <1>13, <1>15, WriteStep DEF IInv
<1>17. Moves(k, t)
  BY <1>3, <1>4, <1>10 DEF Moves
<1>18. TypeOK'
  BY <1>16, <1>17, MovesType DEF IInv, TypeOK, Stamp
<1>19. LockInv(l)'
  <2>1. LockHeld(locks[l]) => LockHeld(new)
    BY <1>12, SameParties
       DEF LockHeld, RightlyHeld, OwnStash, HeldByItsRule, SameLock
  <2>2. StillLacks(locks[l]) => StillLacks(new)
    BY <1>12, SameParties DEF StillLacks, SameLock
  <2> QED
    BY <1>7, <1>8, <1>12, <1>14, <1>16, <2>1, <2>2, KeepsLinks DEF LockInv, SameLock
<1>20. Relies(k, t)'
  <2>1. t.docs[l] = doc /\ \A m \in LockIds \ {l} : t.docs[m] = s.docs[m]
    BY <1>10 DEF Task
  <2>2. \A m \in LockIds : s.docs[m] # None => DocInv(m, s.docs[m])'
    BY <1>6, <1>16, <1>18, KeepsDocs DEF IInv
  <2>3. DocInv(l, doc)'
    BY <1>2, <1>9, <2>2 DEF DocInv, SameLock
  <2>4. \A m \in LockIds : t.docs[m] # None => DocInv(m, t.docs[m])'
    BY <2>1, <2>2, <2>3
  <2>5. ASSUME NEW m \in LockIds, t.docs[m] # None
        PROVE  u \in locks'[m].recipientIds /\ locks'[m].context # None
    <3>1. s.docs[m] # None
      BY <1>2, <2>1, <2>5
    <3>2. /\ u \in locks[m].recipientIds /\ locks[m].context # None
          /\ m \in Stored
      BY <1>5, <1>6, <3>1 DEF Relies, DocInv
    <3>3. SameLock(locks'[m], locks[m])
      BY <1>16, <3>2 DEF Grows
    <3> QED
      BY <3>2, <3>3 DEF SameLock
  <2>6. KnowsHolds(t)'
    <3>1. KnowsHolds(s)'
      BY <1>6, <1>16, KeepsHolds
    <3> QED
      BY <1>2, <1>6, <1>9, <1>10, <2>1, <3>1 DEF KnowsHolds
  <2> QED
    BY <1>7, <1>10, <2>4, <2>5, <2>6 DEF Relies
<1> QED
  BY <1>16, <1>17, <1>18, <1>19, <1>20, StepInv

\* The rule of a lock and what its hold does: what a hold leaves behind.
LEMMA HoldByItsRule ==
  ASSUME NEW old \in Lock, NEW new \in Lock, NEW u \in Users,
         MayHold(old, u), SameLock(new, old), LockHeld(old),
         new.state = StateAfter(old, u),
         new.confirmedIds = old.confirmedIds \cup {u},
         new.openingStartedAt = (old.openingStartedAt \/ StartsOpening(old, u)),
         new.replyId = old.replyId, new.conditionLabel = old.conditionLabel,
         IsPairTogether(old) /\ old.state # "LOCKED" =>
             /\ old.replyId # None /\ old.openingStartedAt
             /\ old.senderId \in old.confirmedIds
  PROVE  /\ new.state \in {"READY", "UNLOCKED"}
         /\ LockHeld(new)
         /\ IsPairTogether(new) =>
                /\ new.replyId # None /\ new.openingStartedAt
                /\ new.senderId \in new.confirmedIds
<1>1. /\ new.senderId = old.senderId /\ new.recipientIds = old.recipientIds
      /\ new.conditionType = old.conditionType
      /\ new.replyToId = old.replyToId
  BY DEF SameLock
<1>2. new.state \in {"READY", "UNLOCKED"}
  BY DEF StateAfter
<1>3. old.conditionType \in ConditionTypes
  BY DEF Lock
<1>4. /\ Participants(new) = Participants(old)
      /\ IsSelfStash(new) <=> IsSelfStash(old)
      /\ IsPairTogether(new) <=> IsPairTogether(old)
      /\ IsReply(new) <=> IsReply(old)
  BY SameParties
<1>5. OwnStash(new) <=> OwnStash(old)
  BY <1>1, <1>4 DEF OwnStash
<1>6. ~OwnStash(old) => new.confirmedIds \subseteq Participants(new)
  <2>1. ~OwnStash(old) => u \in Participants(old)
    BY DEF MayHold, CanConfirmTogether, IsRecipient, IsParticipant, OwnStash,
           Participants
  <2>2. ~OwnStash(old) => old.confirmedIds \subseteq Participants(old)
    BY DEF LockHeld, RightlyHeld
  <2> QED
    BY <1>4, <2>1, <2>2
<1>7. ASSUME ~OwnStash(old) /\ new.state = "UNLOCKED" => HeldByItsRule(new)
       PROVE  LockHeld(new)
  BY <1>5, <1>6, <1>7 DEF LockHeld, RightlyHeld
<1>8. CASE old.conditionType = "MANUAL"
  <2>1. HeldByItsRule(new) /\ ~IsPairTogether(new)
    BY <1>1, <1>8 DEF MayHold, HeldByItsRule, IsRecipient, IsPairTogether
  <2> QED
    BY <1>2, <1>7, <2>1
<1>9. CASE old.conditionType = "RECIPIENT_SET"
  <2>1. HeldByItsRule(new) /\ ~IsPairTogether(new)
    BY <1>1, <1>9 DEF MayHold, HeldByItsRule, IsRecipient, IsPairTogether
  <2> QED
    BY <1>2, <1>7, <2>1
<1>10. CASE old.conditionType = "TOGETHER" /\ IsPairTogether(old)
  <2>1. ~IsSelfStash(old)
    BY <1>10 DEF IsPairTogether, TwoPeople, IsSelfStash
  <2>2. IsPairTogether(new) /\ ~IsSelfStash(new)
    BY <1>10, <2>1, SameParties
  <2>3. CASE u = old.senderId
    <3>1. old.replyId # None
      BY <1>10, <2>1, <2>3 DEF MayHold, CanConfirmTogether
    <3>2. new.state = "READY" /\ new.openingStartedAt
      BY <1>10, <2>3 DEF StateAfter, StartsOpening
    <3> QED
      BY <1>1, <1>7, <2>3, <3>1, <3>2
  <2>4. CASE u # old.senderId
    <3>1. u \in old.recipientIds /\ old.state = "READY"
      BY <1>10, <2>1, <2>4 DEF MayHold, CanConfirmTogether, IsRecipient
    <3>2. Participants(old) = {old.senderId, u}
      BY <1>10, <2>4, <3>1 DEF IsPairTogether, TwoPeople, Participants
    <3>3. Participants(new) \subseteq new.confirmedIds
      BY <1>10, <3>1, <3>2, SameParties
    <3>4. new.openingStartedAt /\ new.replyId # None
      BY <1>10, <3>1
    <3> QED
      BY <1>1, <1>2, <1>10, <1>7, <2>2, <3>1, <3>3, <3>4 DEF HeldByItsRule
  <2> QED
    BY <2>3, <2>4
<1>11. CASE old.conditionType = "TOGETHER" /\ ~IsPairTogether(old)
  <2>1. ~IsPairTogether(new)
    BY <1>11, SameParties
  <2>2. CASE IsSelfStash(old)
    <3>1. OwnStash(old)
      BY <1>11, <2>2 DEF OwnStash, MayHold
    <3> QED
      BY <1>2, <1>7, <2>1, <3>1
  <2>3. CASE ~IsSelfStash(old)
    <3>1. new.state = "UNLOCKED" => Participants(old) \subseteq new.confirmedIds
      BY <1>11, <2>3 DEF StateAfter
    <3> QED
      BY <1>1, <1>2, <1>11, <1>4, <1>7, <2>1, <3>1 DEF HeldByItsRule
  <2> QED
    BY <2>2, <2>3
<1> QED
  BY <1>3, <1>8, <1>9, <1>10, <1>11 DEF ConditionTypes

\* The stored lock once the holds of document doc are saved.
LEMMA SavedHoldType ==
  ASSUME NEW lock \in Lock, NEW doc \in Lock,
         NEW new, new = WithHolds(lock, doc)
  PROVE  /\ new \in Lock /\ SameLock(new, lock)
         /\ new.state = doc.state /\ new.confirmedIds = doc.confirmedIds
         /\ new.openingStartedAt = doc.openingStartedAt
         /\ new.replyId = lock.replyId /\ new.openedAlone = lock.openedAlone
         /\ new.conditionLabel = lock.conditionLabel
         /\ new.contextMetBy = lock.contextMetBy
         /\ new.version = lock.version + 1
<1>1. lock.version \in Nat /\ lock.version + 1 \in Nat
  BY DEF Lock
<1>2. new \in Lock
  BY <1>1 DEF Lock, WithHolds
<1> QED
  BY <1>2 DEF Lock, SameLock, WithHolds

LEMMA SaveHoldInv ==
  ASSUME IInv, NEW k \in Runners, SaveHold(k)
  PROVE  GoodStep
<1>1. PICK s \in Task : s = tasks[k]
  BY DEF IInv, TypeOK
<1>2. PICK l, doc, u : l = s.target /\ doc = s.docs[l] /\ u = s.actor
  OBVIOUS
<1>3. Relies(k, s) /\ s.pc = "save" /\ doc = Doc(k)
  BY <1>1, <1>2 DEF IInv, TaskInv, SaveHold, Doc
<1>4. /\ l \in LockIds /\ doc # None /\ doc \in Lock /\ DocInv(l, doc)
      /\ u \in Users /\ HoldInv(l, doc, u)
  BY <1>2, <1>3 DEF Relies, Task
<1>5. l \in Stored /\ LockInv(l) /\ locks[l] \in Lock
  BY <1>4 DEF DocInv, IInv, TypeOK, Stored
<1>6. CASE VersionError(k, l, doc)
  <2>1. TypeOK'
    BY <1>6, EndTask, MovesType DEF IInv, TypeOK, VersionError, SaveHold
  <2> QED
    BY <1>6, <2>1, EndTask, QuietStep DEF VersionError
<1>7. CASE SavesHolds(l, doc) /\ Goto(k, AfterHold(doc, u))
  <2>1. PICK pc : pc = AfterHold(doc, u)
    OBVIOUS
  <2>2. PICK t : t = [s EXCEPT !.pc = pc]
    OBVIOUS
  <2>3. PICK new : new = WithHolds(locks[l], doc)
    OBVIOUS
  <2>4. /\ new \in Lock /\ SameLock(new, locks[l])
        /\ new.state = doc.state /\ new.confirmedIds = doc.confirmedIds
        /\ new.openingStartedAt = doc.openingStartedAt
        /\ new.replyId = locks[l].replyId /\ new.openedAlone = locks[l].openedAlone
        /\ new.conditionLabel = locks[l].conditionLabel
        /\ new.contextMetBy = locks[l].contextMetBy
        /\ new.version = locks[l].version + 1
    BY <1>4, <1>5, <2>3, SavedHoldType
  <2>5. locks' = [locks EXCEPT ![l] = new]
    BY <1>7, <2>3 DEF SavesHolds
  <2>6. /\ locks'[l] = new /\ new # None
        /\ locks[l].version \in Nat /\ new.version \in Nat
    <3>1. locks'[l] = new
      BY <1>4, <2>5 DEF IInv, TypeOK
    <3>2. new # None
      BY <2>4, ConstantAssumptions
    <3>3. \A lock \in Lock : lock.version \in Nat
      BY DEF Lock
    <3> QED
      BY <1>5, <2>4, <3>1, <3>2, <3>3
  <2>7. /\ MayHold(locks[l], u)
        /\ new.state = StateAfter(locks[l], u)
        /\ new.confirmedIds = locks[l].confirmedIds \cup {u}
        /\ new.openingStartedAt =
               (locks[l].openingStartedAt \/ StartsOpening(locks[l], u))
    BY <1>4, <1>7, <2>4 DEF HoldInv, SavesHolds
  <2>8. /\ new.state \in {"READY", "UNLOCKED"}
        /\ LockHeld(new)
        /\ IsPairTogether(new) =>
               /\ new.replyId # None /\ new.openingStartedAt
               /\ new.senderId \in new.confirmedIds
    BY <1>4, <1>5, <2>4, <2>7, HoldByItsRule DEF LockInv
  <2>9. Grows(l)
    <3>1. locks[l].state # "UNLOCKED"
      BY <2>7 DEF MayHold
    <3>2. locks[l].openingStartedAt => new.openingStartedAt
      BY <2>7
    <3> QED
      BY <2>4, <2>6, <2>7, <2>8, <3>1, <3>2 DEF Grows
  <2>10. /\ locks' \in [LockIds -> Lock \cup {None}] /\ \A m \in Stored : Grows(m)
         /\ \A m \in Stored' : m \in Stored /\ (m # l => locks'[m] = locks[m])
    BY <1>5, <2>4, <2>5, <2>9, WriteStep DEF IInv
  <2>11. pc \in Pcs /\ Moves(k, t)
    BY <1>1, <1>7, <2>1, <2>2, GotoTask DEF AfterHold, IInv, Pcs
  <2>12. TypeOK'
    BY <2>10, <2>11, MovesType DEF IInv, TypeOK, SaveHold
  <2>13. LockInv(l)'
    <3>1. ~IsReply(locks[l])
      BY <1>5, <2>7 DEF LockInv, Fits, MayHold
    <3>2. ~IsReply(new) /\ (IsPairTogether(new) <=> IsPairTogether(locks[l]))
      BY <2>4, <3>1, SameParties
    <3>3. new.replyId # None =>
             IsPairTogether(new) /\ new.replyId \in AnswersTo(l)'
      BY <1>5, <2>4, <2>10, <3>2, KeepsLinks DEF LockInv
    <3>4. new.openedAlone => IsPairTogether(new) /\ new.state # "LOCKED"
      BY <1>5, <2>4, <2>8, <3>2 DEF LockInv
    <3>5. new.contextMetBy # None =>
             new.contextMetBy \in new.recipientIds /\ new.context # None
      BY <1>5, <2>4 DEF LockInv, SameLock
    <3>6. StillLacks(new)
      BY <2>4, <2>7, <3>2, SameParties DEF StillLacks, StateAfter, SameLock
    <3>7. new.state = "READY" => new.conditionType = "TOGETHER"
      BY <2>4, <2>7 DEF StateAfter, IsPairTogether, SameLock
    <3> QED
      BY <2>6, <2>8, <3>2, <3>3, <3>4, <3>5, <3>6, <3>7 DEF LockInv
  <2>14. Relies(k, t)'
    <3>1. \A m \in LockIds : t.docs[m] # None => DocInv(m, t.docs[m])'
      BY <1>3, <2>2, <2>10, <2>12, KeepsDocs, GotoDocs DEF IInv
    <3>2. pc \in {"arm", "open", "announce"}
      BY <2>1 DEF AfterHold
    <3>3. pc = "open" => doc.state = "UNLOCKED" /\ doc.replyId # None
      BY <2>1 DEF AfterHold
    <3>4. doc.replyId # None => doc.replyId \in AnswersTo(l)'
      BY <1>4, <2>10, StaysStored DEF DocInv
    <3>5. KnowsHolds(t)'
      BY <1>2, <2>2, <2>4, <2>6, GotoDocs DEF KnowsHolds
    <3> QED
      BY <1>2, <1>4, <2>2, <2>4, <2>6, <3>1, <3>2, <3>3, <3>4, <3>5, GotoDocs
         DEF Relies
  <2> QED
    BY <2>10, <2>11, <2>12, <2>13, <2>14, StepInv
<1> QED
  BY <1>1, <1>2, <1>3, <1>6, <1>7 DEF SaveHold

LEMMA SaveReplyInv ==
  ASSUME IInv, NEW k \in Runners, SaveReply(k)
  PROVE  GoodStep
<1>1. PICK s \in Task : s = tasks[k]
  BY DEF IInv, TypeOK
<1>2. PICK l, r, doc : l = s.target /\ r = s.docs[l].replyId /\ doc = s.docs[r]
  OBVIOUS
<1>3. Relies(k, s) /\ s.pc = "saveReply" /\ r = Doc(k).replyId
  BY <1>1, <1>2 DEF IInv, TaskInv, SaveReply, Doc
<1>4. /\ l \in LockIds /\ s.docs[l] # None /\ r \in AnswersTo(l)
      /\ locks[l].state = "UNLOCKED" \/ locks[l].openedAlone
      /\ doc # None /\ ReplyInv(r, doc)
  BY <1>2, <1>3 DEF Relies
<1>5. /\ r \in Stored /\ r \in LockIds /\ locks[r] \in Lock /\ LockInv(r)
      /\ locks[r].replyToId = l /\ IsReply(locks[r])
  BY <1>4, ConstantAssumptions DEF AnswersTo, Stored, IInv, TypeOK, IsReply
<1>6. doc \in Lock /\ DocInv(r, doc)
  BY <1>2, <1>3, <1>4, <1>5 DEF Relies, Task
<1>7. CASE VersionError(k, r, doc)
  <2>1. TypeOK'
    BY <1>7, EndTask, MovesType DEF IInv, TypeOK, VersionError, SaveReply
  <2> QED
    BY <1>7, <2>1, EndTask, QuietStep DEF VersionError
<1>8. CASE SavesHolds(r, doc) /\ Goto(k, "tellReply")
  <2>1. PICK t : t = [s EXCEPT !.pc = "tellReply"]
    OBVIOUS
  <2>2. PICK new : new = WithHolds(locks[r], doc)
    OBVIOUS
  <2>3. /\ new \in Lock /\ SameLock(new, locks[r])
        /\ new.state = doc.state /\ new.confirmedIds = doc.confirmedIds
        /\ new.openingStartedAt = doc.openingStartedAt
        /\ new.replyId = locks[r].replyId /\ new.openedAlone = locks[r].openedAlone
        /\ new.conditionLabel = locks[r].conditionLabel
        /\ new.contextMetBy = locks[r].contextMetBy
        /\ new.version = locks[r].version + 1
    BY <1>5, <1>6, <2>2, SavedHoldType
  <2>4. locks' = [locks EXCEPT ![r] = new]
    BY <1>8, <2>2 DEF SavesHolds
  <2>5. /\ locks'[r] = new /\ new # None
        /\ locks[r].version \in Nat /\ new.version \in Nat
    <3>1. locks'[r] = new
      BY <1>5, <2>4 DEF IInv, TypeOK
    <3>2. new # None
      BY <2>3, ConstantAssumptions
    <3>3. \A lock \in Lock : lock.version \in Nat
      BY DEF Lock
    <3> QED
      BY <1>5, <2>3, <3>1, <3>2, <3>3
  <2>6. /\ locks[r].state # "UNLOCKED" /\ new.state = "UNLOCKED"
        /\ new.openingStartedAt = locks[r].openingStartedAt
        /\ new.confirmedIds = Participants(locks[r])
    BY <1>4, <1>6, <1>8, <2>3, SameParties DEF ReplyInv, SavesHolds, DocInv
  <2>7. locks[r].state = "LOCKED" /\ locks[r].confirmedIds \subseteq Participants(locks[r])
    <3>1. locks[r].state = "LOCKED"
      BY <1>5, <2>6 DEF LockInv, Lock, LockStates
    <3> QED
      BY <1>5, <3>1 DEF LockInv
  <2>8. Grows(r)
    BY <2>3, <2>5, <2>6, <2>7 DEF Grows
  <2>9. /\ locks' \in [LockIds -> Lock \cup {None}] /\ \A m \in Stored : Grows(m)
        /\ \A m \in Stored' : m \in Stored /\ (m # r => locks'[m] = locks[m])
    BY <1>5, <2>3, <2>4, <2>8, WriteStep DEF IInv
  <2>10. Moves(k, t)
    BY <1>1, <1>8, <2>1, GotoTask DEF IInv, Pcs
  <2>11. TypeOK'
    BY <2>9, <2>10, MovesType DEF IInv, TypeOK, SaveReply
  <2>12. LockInv(r)'
    <3>1. IsReply(new) /\ ~IsPairTogether(new) /\ new.conditionType = "TOGETHER"
      BY <1>5, <2>3, SameParties DEF LockInv, Fits, SameLock, IsPairTogether
    <3>2. LockHeld(new)
      BY <2>3, <2>6, <3>1, SameParties DEF LockHeld, RightlyHeld, HeldByItsRule
    <3> QED
      BY <1>4, <1>5, <2>3, <2>5, <2>6, <2>9, <3>1, <3>2, KeepsLinks
         DEF LockInv, SameLock, StillLacks
  <2>13. Relies(k, t)'
    <3>1. \A m \in LockIds : t.docs[m] # None => DocInv(m, t.docs[m])'
      BY <1>3, <2>1, <2>9, <2>11, KeepsDocs, GotoDocs DEF IInv
    <3>2. r \in AnswersTo(l)'
      BY <1>4, <2>9, StaysStored
    <3>3. locks'[l].state = "UNLOCKED" \/ locks'[l].openedAlone
      <4>1. l \in Stored
        BY <1>3, <1>4 DEF Relies, DocInv
      <4> QED
        BY <1>4, <2>9, <4>1 DEF Grows
    <3>4. KnowsHolds(t)'
      BY <1>3, <2>1, <2>9, KeepsHolds, GotoDocs
    <3> QED
      BY <1>2, <1>4, <2>1, <3>1, <3>2, <3>3, <3>4, GotoDocs DEF Relies
  <2> QED
    BY <2>9, <2>10, <2>11, <2>12, <2>13, StepInv
<1> QED
  BY <1>1, <1>2, <1>3, <1>7, <1>8 DEF SaveReply

-----------------------------------------------------------------------------
(* The theorems.                                                           *)

LEMMA InitInv == Init => IInv
<1> SUFFICES ASSUME Init PROVE IInv
  OBVIOUS
<1>1. TypeOK
  BY IdleType DEF Init, TypeOK
<1>2. Stored = {}
  BY DEF Init, Stored
<1>3. ASSUME NEW k \in Runners PROVE TaskInv(k)
  BY DEF Init, TaskInv, Relies, Idle, NoDocs, KnowsHolds
<1> QED
  BY <1>1, <1>2, <1>3 DEF IInv

LEMMA StutterInv ==
  ASSUME IInv, UNCHANGED vars
  PROVE  GoodStep
<1>1. locks' = locks /\ tasks' = tasks /\ TypeOK'
  BY DEF vars, IInv, TypeOK
<1>2. \A l \in Stored' : LockInv(l)'
  BY <1>1 DEF IInv, Stored, LockInv, AnswersTo
<1>3. ASSUME NEW k \in Runners PROVE TaskInv(k)'
  <2>1. PICK t : t = tasks[k]
    OBVIOUS
  <2>2. tasks'[k] = t /\ Relies(k, t)
    BY <1>1, <2>1 DEF IInv, TaskInv
  <2> QED
    BY <1>1, <2>2, SameRelies, NextTaskInv
<1> QED
  BY <1>1, <1>2, <1>3, SameGrows DEF IInv, GoodStep

LEMMA StepIsGood ==
  ASSUME IInv, NEW k \in Runners, Step(k)
  PROVE  GoodStep
  BY InsertInv, LinkReplyInv, TellOriginalInv, AnnounceInv, SaveHoldInv,
     ScheduleOpenAloneInv, UnlockReplyInv, SaveReplyInv, TellReplyInv,
     SaveConditionInv, StampInv, AnnounceHereInv DEF Step

LEMMA ArriveIsGood ==
  ASSUME IInv, NEW k \in Requests, Arrive(k)
  PROVE  GoodStep
  BY CreateInv, StashBackInv, ConfirmInv, SetConditionInv, MarkHereInv DEF Arrive

LEMMA NextIsGood ==
  ASSUME IInv, [Next]_vars
  PROVE  GoodStep
  BY ArriveIsGood, StepIsGood, FailInv, OpenAloneInv, SaveAloneInv, RestartInv,
     StutterInv DEF Next

\* Inv is inductive: it holds at first, and every step keeps it.
THEOREM Invariance == Spec => []IInv
<1>1. IInv /\ [Next]_vars => IInv'
  BY NextIsGood DEF GoodStep
<1> QED
  BY <1>1, InitInv, PTL DEF Spec

\* Every document, in the database and in memory, is a lock; every task points
\* at a lock or at nothing, whatever requests, failures and restarts interleave.
THEOREM TypeCorrect == Spec => []TypeOK
<1>1. IInv => TypeOK
  BY DEF IInv
<1> QED
  BY <1>1, Invariance, PTL

\* canConfirm, applyConfirm and the version check on save together: nobody but
\* its people holds a lock, and it opens only with the holds its type asks for,
\* for any number of people, locks and requests in flight; a self-stash, which
\* the service lets anybody hold, is the one exception.
THEOREM OpensByItsRule == Spec => []OpenedByItsRule
<1>1. IInv => OpenedByItsRule
  BY DEF IInv, OpenedByItsRule, LockInv, LockHeld
<1> QED
  BY <1>1, Invariance, PTL

\* unlockReply only ever runs once the original is open or was given up on.
THEOREM AnswersOpenWithOriginals == Spec => []AnswerOpensWithOriginal
<1>1. IInv => AnswerOpensWithOriginal
  BY ConstantAssumptions
     DEF IInv, AnswerOpensWithOriginal, LockInv, AnswersTo, IsReply, Stored
<1> QED
  BY <1>1, Invariance, PTL

\* The stash-back a trade is linked to is one to it, from its recipient to its
\* sender; no trade starts before it is linked, and none is given up on before
\* it started.
THEOREM TradesInOrder == Spec => []TradeInOrder
<1>1. IInv => TradeInOrder
  <2> SUFFICES ASSUME IInv, NEW l \in Stored
               PROVE  /\ locks[l].replyId # None =>
                             LET r == locks[l].replyId IN
                             /\ l \in Pairs /\ r \in AnswersTo(l)
                             /\ locks[r].senderId \in locks[l].recipientIds
                             /\ locks[r].recipientIds = {locks[l].senderId}
                      /\ l \in Pairs /\ locks[l].state # "LOCKED" =>
                             locks[l].replyId # None
                      /\ locks[l].openedAlone =>
                             l \in Pairs /\ locks[l].openingStartedAt
    BY DEF TradeInOrder
  <2>1. LockInv(l) /\ l \in LockIds
    BY DEF IInv, Stored
  <2>2. ASSUME NEW r \in AnswersTo(l) PROVE Fits(locks[r], locks[l])
    BY <2>1, ConstantAssumptions DEF IInv, AnswersTo, LockInv, IsReply
  <2> QED
    BY <2>1, <2>2 DEF LockInv, Pairs, Fits
<1> QED
  BY <1>1, Invariance, PTL

\* Only a recipient is stamped as "there", and only on a lock with a moment.
THEOREM StampedByRecipients == Spec => []StampedByRecipient
<1>1. IInv => StampedByRecipient
  BY DEF IInv, StampedByRecipient, LockInv
<1> QED
  BY <1>1, Invariance, PTL

\* No save of a document read long ago takes a stored lock backwards.
THEOREM NothingReseals == Spec => NeverResealed
<1>1. ASSUME IInv, [Next]_vars, NEW l \in Stored
      PROVE  /\ locks'[l] # None
             /\ Rank[locks[l].state] <= Rank[locks'[l].state]
             /\ locks[l].confirmedIds \subseteq locks'[l].confirmedIds
             /\ locks[l].openingStartedAt => locks'[l].openingStartedAt
             /\ locks[l].openedAlone => locks'[l].openedAlone
  <2>1. Grows(l) /\ l \in Stored' /\ TypeOK'
    BY <1>1, NextIsGood, StaysStored DEF GoodStep, IInv
  <2>2. locks[l].state \in LockStates /\ locks'[l].state \in LockStates
    BY <1>1, <2>1 DEF IInv, TypeOK, Stored, Lock
  <2>3. Rank[locks[l].state] <= Rank[locks'[l].state]
    BY <2>1, <2>2 DEF Grows, LockStates, Rank
  <2> QED
    BY <2>1, <2>3 DEF Grows
<1>2. IInv /\ [Next]_vars =>
        [\A l \in Stored :
          /\ locks'[l] # None
          /\ Rank[locks[l].state] <= Rank[locks'[l].state]
          /\ locks[l].confirmedIds \subseteq locks'[l].confirmedIds
          /\ locks[l].openingStartedAt => locks'[l].openingStartedAt
          /\ locks[l].openedAlone => locks'[l].openedAlone]_vars
  BY <1>1
<1> QED
  BY <1>2, Invariance, PTL DEF Spec, NeverResealed

\* The version check of confirm(): of the holds in flight on one lock, those a
\* request goes on to announce are all in the stored lock.
THEOREM HoldsAreKept == Spec => []HoldsKept
<1>1. ASSUME IInv, NEW k \in Requests,
             tasks[k].pc \in {"arm", "open", "saveReply", "tellReply", "announce"}
      PROVE  Doc(k).confirmedIds \subseteq locks[tasks[k].target].confirmedIds
  BY <1>1 DEF IInv, TaskInv, Relies, KnowsHolds, Doc
<1>2. IInv => HoldsKept
  BY <1>1 DEF HoldsKept
<1> QED
  BY <1>2, Invariance, PTL

\* A sealed group lock always has somebody left to hold it: the last hold of a
\* group opens it.
THEOREM LastHoldAlwaysOpens == Spec => []LastHoldOpens
<1>1. ASSUME IInv, NEW l \in Stored, locks[l].conditionType = "TOGETHER",
             l \notin Pairs, ~IsReply(locks[l]), locks[l].state # "UNLOCKED"
      PROVE  RemainingHolds(locks[l]) # {}
  <2>1. StillLacks(locks[l]) /\ ~IsPairTogether(locks[l])
    BY <1>1 DEF IInv, LockInv, Pairs
  <2> QED
    BY <1>1, <2>1 DEF StillLacks, RemainingHolds
<1>2. IInv => LastHoldOpens
  BY <1>1 DEF LastHoldOpens
<1> QED
  BY <1>2, Invariance, PTL

\* A lone person of a lock that is no trade is its sender and its recipient.
LEMMA SelfStashIsNoPair ==
    ASSUME NEW lock, IsSelfStash(lock)
    PROVE  ~IsPairTogether(lock) /\ Participants(lock) = {lock.senderId}
BY DEF IsSelfStash, IsPairTogether, TwoPeople, Participants

\* The rules of the client's card and the server's rules agree on every lock
\* there can be, whatever its type: what a card offers is not refused.
THEOREM CardsOfferTheirHolds == Spec => []CardsOfferHolds
<1>1. ASSUME IInv, NEW l \in Stored, NEW u \in Participants(locks[l])
      PROVE  CanHold(locks[l], u) <=> CanConfirm(locks[l], u)
  <2>1. LockInv(l)
    BY <1>1 DEF IInv
  <2>2. locks[l].conditionType \in {"MANUAL", "RECIPIENT_SET", "TOGETHER"}
        /\ locks[l].state \in {"LOCKED", "READY", "UNLOCKED"}
    BY <1>1 DEF IInv, TypeOK, Stored, Lock, ConditionTypes, LockStates
  <2>3. IsReply(locks[l]) => locks[l].conditionType = "TOGETHER"
    BY <2>1 DEF LockInv, Fits
  <2>4. CASE locks[l].conditionType # "TOGETHER"
    <3>1. ~IsPairTogether(locks[l]) /\ ~IsReply(locks[l])
      BY <2>3, <2>4 DEF IsPairTogether
    <3>2. locks[l].state # "READY"
      BY <2>1, <2>4 DEF LockInv
    <3> QED
      BY <2>2, <2>4, <3>1, <3>2 DEF CanHold, CanConfirm, NeedsCondition
  <2>5. CASE locks[l].conditionType = "TOGETHER" /\ IsSelfStash(locks[l])
    <3>1. ~IsPairTogether(locks[l]) /\ Participants(locks[l]) = {locks[l].senderId}
      BY <2>5, SelfStashIsNoPair
    <3>2. locks[l].state # "UNLOCKED" /\ ~IsReply(locks[l])
          => u \notin locks[l].confirmedIds
      BY <1>1, <2>1, <2>5, <3>1 DEF LockInv, StillLacks
    <3> QED
      BY <1>1, <2>5, <3>1, <3>2
      DEF CanHold, CanConfirm, CanConfirmTogether, NeedsCondition, IsParticipant
  <2>6. CASE locks[l].conditionType = "TOGETHER" /\ ~IsSelfStash(locks[l])
    BY <1>1, <2>6
    DEF CanHold, CanConfirm, CanConfirmTogether, NeedsCondition, IsParticipant
  <2> QED
    BY <2>2, <2>4, <2>5, <2>6
<1>2. IInv => CardsOfferHolds
  BY <1>1 DEF CardsOfferHolds
<1> QED
  BY <1>2, Invariance, PTL
=============================================================================
