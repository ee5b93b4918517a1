---------------------------- MODULE LockboxProofs ----------------------------
(***************************************************************************)
(* The stash service implements Lockbox, but for strangers who open a      *)
(* self-stash, and keeps the minute of a started trade, for every value of *)
(* the constants.                                                          *)
(***************************************************************************)
EXTENDS StashesProofs

-----------------------------------------------------------------------------
(* The minute of a started trade.                                          *)

\* A trade that is started after a step, and was READY before, was started.
LEMMA WasStarted ==
  ASSUME IInv, GoodStep, NEW l \in LockIds, Started(l)',
         l \in Stored, locks[l].state = "READY"
  PROVE  Started(l)
<1>1. Grows(l)
  BY DEF GoodStep
<1>2. IsPairTogether(locks[l]) /\ ~locks[l].openedAlone
  BY <1>1, SameParties DEF Started, Pairs, Grows
<1> QED
  BY <1>2 DEF Started, Pairs

\* Runner k alone takes a step.
Alone(k) == \A j \in Runners \ {k} : tasks'[j] = tasks[j]

\* A step of a runner that is neither to arm a wait nor to end one.
LEMMA StaysMinded ==
  ASSUME NEW k, Alone(k), tasks[k].pc \notin {"alone", "arm"},
         NEW l \in LockIds, l \in waits => l \in waits', Minded(l)
  PROVE  Minded(l)'
<1>1. l \in Runners /\ \A j \in Requests : j \in Runners
  BY DEF Runners
<1>2. ASSUME NEW j \in Runners, tasks[j].pc \in {"alone", "arm"}
      PROVE  tasks'[j] = tasks[j]
  BY <1>2 DEF Alone
<1> QED
  BY <1>1, <1>2 DEF Minded

\* What a step that starts no trade and ends no wait has to show.
LEMMA QuietWait ==
  ASSUME IInv, WaitInv, GoodStep, NEW k, Alone(k),
         tasks[k].pc \notin {"alone", "arm"}, waits \subseteq waits',
         tasks'[k].pc = "save" => k \in Requests,
         UNCHANGED <<restarts, failures>>,
         \A l \in LockIds : Started(l)' => l \in Stored /\ locks[l].state = "READY"
  PROVE  WaitInv'
<1>1. \A j \in Runners : tasks'[j].pc = "save" => j \in Requests
  BY DEF WaitInv, Alone
<1>2. ASSUME restarts = 0, failures = 0, NEW l \in LockIds, Started(l)'
      PROVE  Minded(l)'
  BY <1>2, WasStarted, StaysMinded DEF WaitInv
<1> QED
  BY <1>1, <1>2 DEF WaitInv

LEMMA SameStarted ==
  ASSUME locks' = locks
  PROVE  \A l \in LockIds : Started(l)' => l \in Stored /\ locks[l].state = "READY"
  BY DEF Started, Pairs, Stored

\* The saves that leave the state of every stored lock as it was.
LEMMA SameStates ==
  ASSUME TypeOK, NEW m \in LockIds, NEW new, locks' = [locks EXCEPT ![m] = new],
         new.state = "READY" => m \in Stored /\ locks[m].state = "READY"
  PROVE  \A l \in LockIds : Started(l)' => l \in Stored /\ locks[l].state = "READY"
  BY DEF TypeOK, Started, Pairs, Stored

LEMMA ArriveWait ==
  ASSUME IInv, WaitInv, GoodStep, NEW k \in Requests, Arrive(k)
  PROVE  WaitInv'
<1>1. /\ UNCHANGED <<locks, waits, restarts, failures>>
      /\ \E t : Begin(k, t)
  BY DEF Arrive, Create, StashBack, Confirm, SetCondition, MarkHere
<1>2. Alone(k) /\ tasks[k].pc = "idle"
  BY <1>1 DEF Begin, Alone, IInv, TypeOK, Idle
<1> QED
  BY <1>1, <1>2, SameStarted, QuietWait

\* The end of a task, or a step of it to pc.
LEMMA GotoAlone ==
  ASSUME TypeOK, NEW k \in Runners, NEW pc \in Pcs, Goto(k, pc) \/ End(k)
  PROVE  Alone(k) /\ tasks'[k].pc \in {pc, "idle"}
<1>1. tasks[k] \in Task
  BY DEF TypeOK
<1> QED
  BY <1>1 DEF Goto, End, Alone, TypeOK, Idle, Task

\* The steps of a task that write no state, and end no wait.
LEMMA TalkWait ==
  ASSUME IInv, WaitInv, GoodStep, NEW k \in Runners,
         TellOriginal(k) \/ Announce(k) \/ TellReply(k)
  PROVE  WaitInv'
<1>1. /\ UNCHANGED <<locks, waits, restarts, failures>>
      /\ Goto(k, "announce") \/ End(k)
      /\ tasks[k].pc \notin {"alone", "arm"}
  BY DEF TellOriginal, Announce, TellReply
<1> QED
  BY <1>1, GotoAlone, SameStarted, QuietWait DEF IInv, Pcs

LEMMA AnnounceHereWait ==
  ASSUME IInv, WaitInv, GoodStep, NEW k \in Runners, AnnounceHere(k)
  PROVE  WaitInv'
<1>1. /\ UNCHANGED <<locks, waits, restarts, failures>>
      /\ tasks[k].pc = "announceHere" /\ tasks[k] \in Task
      /\ \/ End(k)
         \/ \E l \in LockIds : tasks' = [tasks EXCEPT ![k].docs[l] = None]
  BY DEF AnnounceHere, IInv, TypeOK
<1>2. Alone(k) /\ tasks'[k].pc # "save"
  BY <1>1 DEF Alone, End, IInv, TypeOK, Idle, Task
<1> QED
  BY <1>1, <1>2, SameStarted, QuietWait

LEMMA InsertWait ==
  ASSUME IInv, WaitInv, GoodStep, NEW k \in Runners, Insert(k)
  PROVE  WaitInv'
<1>1. PICK new \in LockIds \ Stored :
         /\ locks' = [locks EXCEPT ![new] = tasks[k].fresh]
         /\ tasks' = [tasks EXCEPT ![k] = [tasks[k] EXCEPT
               !.pc = IF IsReply(tasks[k].fresh) THEN "link" ELSE "announce",
               !.target = new, !.docs[new] = tasks[k].fresh, !.fresh = None]]
  BY DEF Insert
<1>2. Alone(k) /\ tasks'[k].pc # "save" /\ tasks[k].pc = "insert"
  <2>1. PICK s \in Task : s = tasks[k]
    BY DEF IInv, TypeOK
  <2>2. PICK t : t = [s EXCEPT
               !.pc = IF IsReply(s.fresh) THEN "link" ELSE "announce",
               !.target = new, !.docs[new] = s.fresh, !.fresh = None]
    OBVIOUS
  <2>3. t.pc \in {"link", "announce"}
    BY <2>2 DEF Task
  <2> QED
    BY <1>1, <2>1, <2>2, <2>3 DEF Alone, IInv, TypeOK, Insert
<1>3. tasks[k].fresh.state = "LOCKED"
  BY <1>2 DEF IInv, TaskInv, Relies, FreshInv
<1> QED
  BY <1>1, <1>2, <1>3, SameStates, QuietWait DEF IInv, Insert

LEMMA LinkReplyWait ==
  ASSUME IInv, WaitInv, GoodStep, NEW k \in Runners, LinkReply(k)
  PROVE  WaitInv'
<1>1. PICK o : o = Doc(k).replyToId
  OBVIOUS
<1>2. /\ o \in LockIds /\ o \in Stored
  BY <1>1 DEF IInv, TaskInv, Relies, DocInv, LinkReply, Doc
<1>3. locks[o] \in Lock
  BY <1>2 DEF IInv, TypeOK, Stored
<1>4. PICK new : new = [locks[o] EXCEPT !.replyId = tasks[k].target]
  OBVIOUS
<1>5. locks' = [locks EXCEPT ![o] = new] /\ new.state = locks[o].state
  BY <1>1, <1>3, <1>4 DEF LinkReply, Lock
<1>6. Alone(k) /\ tasks'[k].pc # "save" /\ tasks[k].pc = "link"
  BY GotoAlone DEF LinkReply, IInv, Pcs
<1> QED
  BY <1>2, <1>5, <1>6, SameStates, QuietWait DEF IInv, LinkReply

LEMMA SaveConditionWait ==
  ASSUME IInv, WaitInv, GoodStep, NEW k \in Runners, SaveCondition(k)
  PROVE  WaitInv'
<1>1. PICK o : o = tasks[k].target
  OBVIOUS
<1>2. /\ o \in LockIds /\ o \in Stored
  BY <1>1 DEF IInv, TaskInv, Relies, DocInv, SaveCondition
<1>3. locks[o] \in Lock
  BY <1>2 DEF IInv, TypeOK, Stored
<1>4. PICK new : new = [locks[o] EXCEPT !.conditionLabel = Doc(k).conditionLabel]
  OBVIOUS
<1>5. locks' = [locks EXCEPT ![o] = new] /\ new.state = locks[o].state
  BY <1>1, <1>3, <1>4 DEF SaveCondition, Lock
<1>6. Alone(k) /\ tasks'[k].pc # "save" /\ tasks[k].pc = "write"
  BY GotoAlone DEF SaveCondition, IInv, Pcs
<1> QED
  BY <1>2, <1>5, <1>6, SameStates, QuietWait DEF IInv, SaveCondition

LEMMA StampWait ==
  ASSUME IInv, WaitInv, GoodStep, NEW k \in Runners, Stamp(k)
  PROVE  WaitInv'
<1>1. PICK o \in LockIds :
         /\ tasks[k].docs[o] # None
         /\ locks' = [locks EXCEPT ![o].contextMetBy = tasks[k].actor]
         /\ \E pc \in {"stamp", "announceHere"} :
               tasks' = [tasks EXCEPT ![k] = [tasks[k] EXCEPT
                   !.docs[o].contextMetBy = tasks[k].actor, !.pc = pc]]
  BY DEF Stamp
<1>2. o \in Stored
  BY <1>1 DEF IInv, TaskInv, Relies, DocInv
<1>3. locks[o] \in Lock /\ tasks[k] \in Task
  BY <1>2 DEF IInv, TypeOK, Stored
<1>4. PICK new : new = [locks[o] EXCEPT !.contextMetBy = tasks[k].actor]
  OBVIOUS
<1>5. locks' = [locks EXCEPT ![o] = new] /\ new.state = locks[o].state
  BY <1>1, <1>3, <1>4 DEF Lock
<1>6. Alone(k) /\ tasks'[k].pc # "save" /\ tasks[k].pc = "stamp"
  BY <1>1, <1>3 DEF Alone, IInv, TypeOK, Stamp, Task
<1> QED
  BY <1>2, <1>5, <1>6, SameStates, QuietWait DEF IInv, Stamp

\* The hold that starts a trade is its sender's, and arms the wait.
LEMMA SaveHoldWait ==
  ASSUME IInv, WaitInv, GoodStep, NEW k \in Runners, SaveHold(k)
  PROVE  WaitInv'
<1>1. PICK s \in Task : s = tasks[k]
  BY DEF IInv, TypeOK
<1>2. PICK l, doc, u : l = s.target /\ doc = s.docs[l] /\ u = s.actor
  OBVIOUS
<1>3. /\ s.pc = "save" /\ Doc(k) = doc /\ k \in Requests /\ Relies(k, s)
      /\ UNCHANGED <<waits, restarts, failures>>
  BY <1>1, <1>2 DEF SaveHold, Doc, WaitInv, IInv, TaskInv
<1>4. /\ l \in Stored /\ l \in LockIds /\ DocInv(l, doc) /\ HoldInv(l, doc, u)
      /\ doc \in Lock
  BY <1>2, <1>3 DEF Relies, DocInv, Task
<1>5. locks[l] \in Lock
  BY <1>4 DEF IInv, TypeOK, Stored
<1>6. CASE VersionError(k, l, doc)
  <2>1. Alone(k) /\ tasks'[k].pc # "save"
    BY <1>6, GotoAlone DEF IInv, VersionError, Pcs
  <2> QED
    BY <1>1, <1>3, <1>6, <2>1, SameStarted, QuietWait DEF VersionError
<1>7. CASE SavesHolds(l, doc) /\ Goto(k, AfterHold(doc, u))
  <2>1. PICK pc : pc = AfterHold(doc, u)
    OBVIOUS
  <2>2. pc \in {"arm", "open", "announce"} /\ pc \in Pcs
    BY <2>1 DEF AfterHold, Pcs
  <2>3. Alone(k) /\ tasks'[k].pc \in {pc, "idle"}
    BY <1>7, <2>1, <2>2, GotoAlone DEF IInv
  <2>4. tasks'[k].pc = pc /\ tasks'[k].target = l
    BY <1>1, <1>2, <1>7, <2>1 DEF Goto, IInv, TypeOK, Task
  <2>5. \A j \in Runners : tasks'[j].pc = "save" => j \in Requests
    BY <2>3, <1>3 DEF WaitInv, Alone
  <2>6. ASSUME restarts = 0, failures = 0, NEW m \in LockIds, Started(m)', m # l
        PROVE  Minded(m)'
    <3>1. m \in Stored /\ locks[m].state = "READY"
      BY <1>7, <2>6 DEF SavesHolds, IInv, TypeOK, Started, Pairs, Stored
    <3> QED
      BY <1>1, <1>3, <2>3, <2>6, <3>1, WasStarted, StaysMinded DEF WaitInv
  <2>7. ASSUME Started(l)' PROVE pc = "arm"
    <3>1. PICK new : new = WithHolds(locks[l], doc)
      OBVIOUS
    <3>2. locks'[l] = new /\ new.state = doc.state /\ SameLock(new, locks[l])
      BY <1>4, <1>5, <1>7, <3>1, SavedHoldType DEF SavesHolds, IInv, TypeOK
    <3>3. IsPairTogether(locks[l]) /\ IsPairTogether(doc) /\ doc.state = "READY"
      BY <1>4, <2>7, <3>2, SameParties DEF Started, Pairs, DocInv
    <3>4. doc.state = StateAfter(locks[l], u)
      BY <1>4, <1>7 DEF HoldInv, SavesHolds
    <3>5. u = locks[l].senderId
      BY <3>3, <3>4 DEF StateAfter
    <3> QED
      BY <1>4, <2>1, <3>3, <3>5 DEF AfterHold, StartsOpening, DocInv, SameLock
  <2>8. Started(l)' => Minded(l)'
    BY <1>3, <2>4, <2>7 DEF Minded
  <2> QED
    BY <1>3, <2>5, <2>6, <2>8 DEF WaitInv
<1> QED
  BY <1>1, <1>2, <1>3, <1>6, <1>7 DEF SaveHold

LEMMA ScheduleOpenAloneWait ==
  ASSUME IInv, WaitInv, GoodStep, NEW k \in Runners, ScheduleOpenAlone(k)
  PROVE  WaitInv'
<1>1. /\ UNCHANGED <<locks, restarts, failures>> /\ tasks[k].pc = "arm"
      /\ waits' = waits \cup {tasks[k].target}
      /\ Alone(k) /\ tasks'[k].pc # "save"
  BY GotoAlone DEF ScheduleOpenAlone, IInv, Pcs
<1>2. \A j \in Runners : tasks'[j].pc = "save" => j \in Requests
  BY <1>1 DEF WaitInv, Alone
<1>3. ASSUME NEW l \in LockIds, Minded(l) PROVE Minded(l)'
  BY <1>1, <1>3 DEF Minded, Alone, Runners
<1>4. \A l \in LockIds : Started(l)' => Started(l)
  BY <1>1 DEF Started, Pairs, Stored
<1> QED
  BY <1>1, <1>2, <1>3, <1>4 DEF WaitInv

\* A hold cancels a wait only once the trade is open, and a timer callback
\* opens stash-backs only once the trade is given up on.
LEMMA UnlockReplyWait ==
  ASSUME IInv, WaitInv, GoodStep, NEW k \in Runners, UnlockReply(k)
  PROVE  WaitInv'
<1>1. PICK s \in Task : s = tasks[k]
  BY DEF IInv, TypeOK
<1>2. PICK l, r : l = s.target /\ r = Doc(k).replyId
  OBVIOUS
<1>3. /\ UNCHANGED <<locks, restarts, failures>> /\ s.pc = "open"
      /\ \A m \in waits : m # l => m \in waits'
      /\ ~Started(l)
  BY <1>1, <1>2 DEF UnlockReply, IInv, TaskInv, Relies, Started
<1>4. Alone(k) /\ tasks'[k].pc # "save"
  <2>1. CASE Goto(k, "announce")
    BY <2>1, GotoAlone DEF IInv, Pcs
  <2>2. CASE ~Goto(k, "announce")
    <3>1. PICK t : t = [s EXCEPT !.pc = "saveReply", !.docs[r] = [locks[r] EXCEPT
                      !.state = "UNLOCKED", !.confirmedIds = Participants(locks[r])]]
      OBVIOUS
    <3>2. t.pc = "saveReply" /\ tasks' = [tasks EXCEPT ![k] = t]
      BY <1>1, <1>2, <2>2, <3>1 DEF UnlockReply, Task
    <3> QED
      BY <3>2 DEF Alone, IInv, TypeOK
  <2> QED
    BY <2>1, <2>2
<1>5. \A j \in Runners : tasks'[j].pc = "save" => j \in Requests
  BY <1>4 DEF WaitInv, Alone
<1>6. ASSUME restarts = 0, failures = 0, NEW m \in LockIds, Started(m)'
      PROVE  Minded(m)'
  <2>1. Started(m) /\ m # l
    BY <1>3, <1>6 DEF Started, Pairs, Stored
  <2> QED
    BY <1>1, <1>3, <1>4, <1>6, <2>1, StaysMinded DEF WaitInv
<1> QED
  BY <1>3, <1>5, <1>6 DEF WaitInv

LEMMA SaveReplyWait ==
  ASSUME IInv, WaitInv, GoodStep, NEW k \in Runners, SaveReply(k)
  PROVE  WaitInv'
<1>1. PICK s \in Task : s = tasks[k]
  BY DEF IInv, TypeOK
<1>2. PICK l, r, doc : l = s.target /\ r = s.docs[l].replyId /\ doc = s.docs[r]
  OBVIOUS
<1>3. Relies(k, s) /\ s.pc = "saveReply" /\ r = Doc(k).replyId
  BY <1>1, <1>2 DEF IInv, TaskInv, SaveReply, Doc
<1>4. /\ r \in LockIds /\ r \in Stored /\ doc.state = "UNLOCKED"
      /\ locks[r] \in Lock /\ doc \in Lock
  BY <1>2, <1>3 DEF Relies, ReplyInv, AnswersTo, Stored, IInv, TypeOK, Task
<1>5. Alone(k) /\ tasks'[k].pc # "save"
  BY GotoAlone DEF SaveReply, VersionError, IInv, Pcs
<1>6. \A m \in LockIds : Started(m)' => m \in Stored /\ locks[m].state = "READY"
  <2>1. CASE SavesHolds(r, doc)
    <3>1. PICK new : new = WithHolds(locks[r], doc)
      OBVIOUS
    <3>2. new.state = "UNLOCKED" /\ locks' = [locks EXCEPT ![r] = new]
      BY <1>4, <2>1, <3>1, SavedHoldType DEF SavesHolds
    <3> QED
      BY <1>4, <3>2, SameStates DEF IInv
  <2>2. CASE VersionError(k, r, doc)
    BY <2>2, SameStarted DEF VersionError
  <2> QED
    BY <1>1, <1>2, <1>3, <2>1, <2>2 DEF SaveReply
<1> QED
  BY <1>1, <1>3, <1>5, <1>6, QuietWait DEF SaveReply

\* The timer fires: the trade becomes its callback's, unless it is over.
LEMMA OpenAloneWait ==
  ASSUME IInv, WaitInv, GoodStep, NEW l \in LockIds, OpenAlone(l)
  PROVE  WaitInv'
<1>1. /\ UNCHANGED <<locks, restarts, failures>>
      /\ \A m \in waits : m # l => m \in waits'
      /\ l \in Runners
  BY DEF OpenAlone, Runners
<1>2. \A m \in LockIds : Started(m)' => Started(m)
  BY <1>1 DEF Started, Pairs, Stored
<1>3. CASE Started(l)
  <2>1. PICK t : t = Loaded("alone", None, l, [locks[l] EXCEPT !.openedAlone = TRUE])
    OBVIOUS
  <2>2. t.pc = "alone"
    BY <2>1 DEF Loaded, Idle
  <2>3. LockInv(l) /\ l \in Stored /\ locks[l].replyId # None
    BY <1>3 DEF IInv, LockInv, Started, Pairs
  <2>4. tasks[l] = Idle /\ tasks' = [tasks EXCEPT ![l] = t]
    BY <1>3, <2>1, <2>3 DEF OpenAlone, Begin, Started
  <2>5. Alone(l) /\ tasks'[l].pc = "alone" /\ tasks[l].pc = "idle"
    BY <1>1, <2>2, <2>4 DEF Alone, IInv, TypeOK, Idle
  <2>6. \A m \in LockIds : Minded(m) => Minded(m)'
    BY <1>1, <2>5, StaysMinded DEF Minded
  <2>7. \A j \in Runners : tasks'[j].pc = "save" => j \in Requests
    BY <2>5 DEF WaitInv, Alone
  <2> QED
    BY <1>1, <1>2, <2>6, <2>7 DEF WaitInv
<1>4. CASE ~Started(l)
  <2>1. \/ tasks' = tasks
        \/ \E t : tasks[l] = Idle /\ tasks' = [tasks EXCEPT ![l] = t]
                  /\ t.pc = "alone"
    <3>1. PICK t : t = Loaded("alone", None, l,
                              [locks[l] EXCEPT !.openedAlone = TRUE])
      OBVIOUS
    <3>2. t.pc = "alone"
      BY <3>1 DEF Loaded, Idle
    <3> QED
      BY <3>1, <3>2 DEF OpenAlone, Begin
  <2>2. /\ \A j \in Runners : tasks'[j].pc = "save" => j \in Requests
        /\ Alone(l) /\ (tasks' = tasks \/ tasks[l].pc \notin {"alone", "arm"})
    BY <1>1, <2>1 DEF WaitInv, Alone, IInv, TypeOK, Idle
  <2>3. ASSUME NEW m \in LockIds, m # l, Minded(m) PROVE Minded(m)'
    BY <1>1, <2>2, <2>3, StaysMinded DEF Minded
  <2> QED
    BY <1>1, <1>2, <1>4, <2>2, <2>3 DEF WaitInv
<1> QED
  BY <1>3, <1>4

\* The callback gives the trade up.
LEMMA SaveAloneWait ==
  ASSUME IInv, WaitInv, GoodStep, NEW l \in LockIds, SaveAlone(l)
  PROVE  WaitInv'
<1>1. /\ UNCHANGED <<waits, restarts, failures>> /\ l \in Runners
      /\ locks' = [locks EXCEPT ![l].openedAlone = TRUE]
      /\ tasks[l].pc = "alone" /\ Alone(l) /\ tasks'[l].pc # "save"
  BY GotoAlone DEF SaveAlone, IInv, Pcs, Runners
<1>2. l \in Stored /\ locks[l] \in Lock
  <2>1. Relies(l, tasks[l])
    BY <1>1 DEF IInv, TaskInv
  <2>2. l \in Stored
    BY <1>1, <2>1 DEF Relies, DocInv
  <2> QED
    BY <2>2 DEF IInv, TypeOK, Stored
<1>3. PICK new : new = [locks[l] EXCEPT !.openedAlone = TRUE]
  OBVIOUS
<1>4. locks' = [locks EXCEPT ![l] = new] /\ new.openedAlone /\ new.state = locks[l].state
  BY <1>1, <1>2, <1>3 DEF Lock
<1>5. ~Started(l)'
  BY <1>2, <1>4 DEF Started, Stored, IInv, TypeOK
<1>6. \A m \in LockIds : Started(m)' => Started(m)
  BY <1>2, <1>4, SameStates, WasStarted DEF IInv
<1>7. ASSUME NEW m \in LockIds, m # l, Minded(m) PROVE Minded(m)'
  BY <1>1, <1>7 DEF Minded, Alone, Runners
<1>8. \A j \in Runners : tasks'[j].pc = "save" => j \in Requests
  BY <1>1 DEF WaitInv, Alone
<1> QED
  BY <1>1, <1>5, <1>6, <1>7, <1>8 DEF WaitInv

\* After a failure or a restart nothing is promised.
LEMMA FailWait ==
  ASSUME IInv, WaitInv, GoodStep, NEW k \in Runners, Fail(k)
  PROVE  WaitInv'
<1>1. failures' # 0 /\ Alone(k) /\ tasks'[k].pc # "save"
  BY GotoAlone DEF Fail, IInv, TypeOK, Pcs
<1> QED
  BY <1>1 DEF WaitInv, Alone

LEMMA RestartWait ==
  ASSUME IInv, WaitInv, GoodStep, Restart
  PROVE  WaitInv'
<1>1. restarts' # 0 /\ \A k \in Runners : tasks'[k] = Idle
  BY DEF Restart, IInv, TypeOK
<1> QED
  BY <1>1 DEF WaitInv, Idle

LEMMA InitWait == Init => WaitInv
  BY DEF Init, WaitInv, Started, Pairs, Stored, Idle

LEMMA NextWait ==
  ASSUME IInv, WaitInv, [Next]_vars
  PROVE  WaitInv'
<1>1. GoodStep
  BY NextIsGood
<1>2. ASSUME NEW k \in Runners, Step(k) PROVE WaitInv'
  BY <1>1, <1>2, InsertWait, LinkReplyWait, TalkWait, SaveHoldWait,
     ScheduleOpenAloneWait, UnlockReplyWait, SaveReplyWait, SaveConditionWait,
     StampWait, AnnounceHereWait DEF Step
<1>3. CASE UNCHANGED vars
  BY <1>3 DEF vars, WaitInv, Started, Minded, Pairs, Stored
<1> QED
  BY <1>1, <1>2, <1>3, ArriveWait, FailWait, OpenAloneWait, SaveAloneWait,
     RestartWait DEF Next

\* scheduleOpenAlone and openAlone: as long as the process neither restarts
\* nor sees a database call fail, the minute of every started trade is running,
\* or somebody is about to start it or to act on its end, however many trades,
\* holds and callbacks are in flight.
THEOREM WaitsAreKept == Spec => []WaitIsKept
<1>1. WaitInv => WaitIsKept
  BY DEF WaitInv, WaitIsKept, Started, Minded, Pairs, Stored
<1>2. IInv /\ WaitInv /\ [Next]_vars => WaitInv'
  BY NextWait
<1> QED
  BY <1>1, <1>2, InitWait, Invariance, PTL DEF Spec

-----------------------------------------------------------------------------
(* Every step of the service is one step of a lock, or none.               *)

LEMMA BoxType ==
  ASSUME NEW lock \in Lock
  PROVE  BoxOf(lock) \in Box!Box /\ BoxOf(lock) # None
<1>1. BoxOf(lock) \in Box!Box
  BY DEF BoxOf, Box!Box, Lock, ConditionTypes, LockStates
<1> QED
  BY <1>1, NoneIsNoBox

\* What a box shows of a lock.
LEMMA BoxFields ==
  ASSUME NEW lock
  PROVE  /\ BoxOf(lock).senderId = lock.senderId
         /\ BoxOf(lock).recipientIds = lock.recipientIds
         /\ BoxOf(lock).conditionType = lock.conditionType
         /\ BoxOf(lock).named = (lock.conditionLabel # None)
         /\ BoxOf(lock).answers = lock.replyToId
         /\ BoxOf(lock).state = lock.state
         /\ BoxOf(lock).held = lock.confirmedIds
         /\ BoxOf(lock).alone = lock.openedAlone
  BY DEF BoxOf

\* The rules of Lockbox are those of the engine.
LEMMA SameRules ==
  ASSUME NEW lock
  PROVE  /\ Box!Everyone(BoxOf(lock)) = Participants(lock)
         /\ Box!Trade(BoxOf(lock)) <=> IsPairTogether(lock)
         /\ Box!SelfStash(BoxOf(lock)) <=> IsSelfStash(lock)
<1>1. Box!Everyone(BoxOf(lock)) = Participants(lock)
  BY BoxFields DEF Box!Everyone, Participants
<1>2. Box!Trade(BoxOf(lock)) <=> IsPairTogether(lock)
  BY <1>1, BoxFields DEF Box!Trade, IsPairTogether, TwoPeople, IsReply
<1>3. Box!SelfStash(BoxOf(lock)) <=> IsSelfStash(lock)
  BY <1>1, BoxFields DEF Box!SelfStash, IsSelfStash, Participants
<1> QED
  BY <1>1, <1>2, <1>3

LEMMA StoredBox ==
  ASSUME TypeOK, NEW l \in LockIds
  PROVE  /\ l \in Stored => Boxes[l] = BoxOf(locks[l]) /\ Box!Exists(l)
         /\ l \notin Stored => Boxes[l] = None
<1>1. ASSUME l \in Stored PROVE Boxes[l] = BoxOf(locks[l]) /\ Boxes[l] # None
  BY <1>1, BoxType DEF Boxes, TypeOK, Stored
<1> QED
  BY <1>1 DEF Boxes, Box!Exists

\* Stored or new, one lock is written.
LEMMA WriteBoxes ==
  ASSUME TypeOK, NEW l \in LockIds, NEW new \in Lock,
         locks' = [locks EXCEPT ![l] = new]
  PROVE  Boxes' = [Boxes EXCEPT ![l] = BoxOf(new)]
<1>1. /\ \A m \in LockIds \ {l} : locks'[m] = locks[m]
      /\ locks'[l] = new /\ new # None
  BY ConstantAssumptions DEF TypeOK
<1>2. l \in Stored' /\ \A m \in LockIds \ {l} : m \in Stored' <=> m \in Stored
  BY <1>1 DEF Stored
<1>3. ASSUME NEW m \in LockIds
      PROVE  Boxes'[m] = IF m = l THEN BoxOf(new) ELSE Boxes[m]
  BY <1>1, <1>2 DEF Boxes
<1> QED
  BY <1>3 DEF Boxes

\* A step that changes nothing a box shows.
LEMMA SameBoxes ==
  ASSUME TypeOK,
         \/ locks' = locks
         \/ \E l \in Stored, new \in Lock :
                locks' = [locks EXCEPT ![l] = new] /\ BoxOf(new) = BoxOf(locks[l])
  PROVE  Boxes' = Boxes
<1>1. CASE locks' = locks
  BY <1>1 DEF Boxes, Stored
<1>2. ASSUME NEW l \in Stored, NEW new \in Lock,
             locks' = [locks EXCEPT ![l] = new], BoxOf(new) = BoxOf(locks[l])
      PROVE  Boxes' = Boxes
  <2>1. l \in LockIds
    BY DEF Stored
  <2>2. Boxes' = [Boxes EXCEPT ![l] = Boxes[l]]
    <3>1. Boxes' = [Boxes EXCEPT ![l] = BoxOf(new)]
      BY <1>2, <2>1, WriteBoxes
    <3>2. Boxes[l] = BoxOf(locks[l])
      BY <2>1, StoredBox
    <3> QED
      BY <1>2, <3>1, <3>2, Zenon
  <2> QED
    BY <2>1, <2>2 DEF Boxes
<1> QED
  BY <1>1, <1>2

LEMMA InsertBox ==
  ASSUME IInv, NEW k \in Runners, Insert(k)
  PROVE  Box!Next
<1>1. PICK new \in LockIds \ Stored : locks' = [locks EXCEPT ![new] = tasks[k].fresh]
  BY DEF Insert
<1>2. PICK fresh, box : fresh = tasks[k].fresh /\ box = BoxOf(fresh)
  OBVIOUS
<1>3. FreshInv(fresh) /\ fresh \in Lock
  <2>1. Relies(k, tasks[k]) /\ tasks[k].pc = "insert"
    BY DEF IInv, TaskInv, Insert
  <2>2. FreshInv(fresh)
    BY <1>2, <2>1 DEF Relies
  <2>3. tasks[k] \in Task
    BY DEF IInv, TypeOK
  <2>4. fresh \in Lock
    BY <1>2, <2>2, <2>3 DEF Task, FreshInv
  <2> QED
    BY <2>2, <2>4
<1>4. Boxes' = [Boxes EXCEPT ![new] = box]
  <2>1. TypeOK /\ new \in LockIds /\ locks' = [locks EXCEPT ![new] = fresh]
    BY <1>1, <1>2 DEF IInv
  <2>2. Boxes' = [Boxes EXCEPT ![new] = BoxOf(fresh)]
    BY <1>3, <2>1, WriteBoxes
  <2> QED
    BY <1>2, <2>2
<1>5. box \in Box!NewBox
  <2>1. box \in Box!Box
    BY <1>2, <1>3, BoxType
  <2>2. box.state = "LOCKED" /\ box.held = {} /\ box.alone = FALSE
    BY <1>2, <1>3, BoxFields DEF FreshInv
  <2> QED
    BY <2>1, <2>2 DEF Box!Box, Box!NewBox
<1>6. ~Box!Exists(new)
  BY <1>1, StoredBox DEF Box!Exists, IInv
<1>7. box.conditionType = "RECIPIENT_SET" => ~box.named
  BY <1>2, <1>3, BoxFields DEF FreshInv
<1>8. ASSUME box.answers # None
      PROVE  /\ Box!Exists(box.answers) /\ Box!Trade(Boxes[box.answers])
             /\ box.conditionType = "TOGETHER"
             /\ box.senderId \in Boxes[box.answers].recipientIds
             /\ box.recipientIds = {Boxes[box.answers].senderId}
  <2>1. PICK o : o = fresh.replyToId /\ box.answers = o
    BY <1>2, BoxFields
  <2>2. o \in Stored /\ o \in LockIds /\ Fits(fresh, locks[o])
    BY <1>3, <1>8, <2>1 DEF FreshInv, IsReply, Stored
  <2>3. Boxes[o] = BoxOf(locks[o]) /\ Box!Exists(o)
    BY <2>2, StoredBox DEF IInv
  <2> QED
    BY <1>2, <2>1, <2>2, <2>3, BoxFields, SameRules DEF Fits
<1>9. Box!Seal(new)
  BY <1>4, <1>5, <1>6, <1>7, <1>8 DEF Box!Seal
<1> QED
  BY <1>9 DEF Box!Next

\* One hold of u takes lock l to state.
LEMMA HeldBox ==
  ASSUME TypeOK, NEW l \in LockIds, l \in Stored, NEW new \in Lock, NEW u,
         SameLock(new, locks[l]), new.conditionLabel = locks[l].conditionLabel,
         new.openedAlone = locks[l].openedAlone,
         new.confirmedIds = locks[l].confirmedIds \cup {u},
         locks' = [locks EXCEPT ![l] = new]
  PROVE  Boxes' = [Boxes EXCEPT ![l].state = new.state, ![l].held = @ \cup {u}]
<1>1. Boxes' = [Boxes EXCEPT ![l] = BoxOf(new)] /\ Boxes[l] = BoxOf(locks[l])
  BY WriteBoxes, StoredBox
<1>2. BoxOf(new) = [BoxOf(locks[l]) EXCEPT !.state = new.state, !.held = @ \cup {u}]
  <2>1. PICK box, a, b, c, d, e, f, g, h, s :
               /\ box = BoxOf(locks[l]) /\ s = new.state
               /\ a = locks[l].senderId /\ b = locks[l].recipientIds
               /\ c = locks[l].conditionType /\ d = (locks[l].conditionLabel # None)
               /\ e = locks[l].replyToId /\ f = locks[l].state
               /\ g = locks[l].confirmedIds /\ h = locks[l].openedAlone
    OBVIOUS
  <2>2. box = [senderId |-> a, recipientIds |-> b, conditionType |-> c, named |-> d,
               answers |-> e, state |-> f, held |-> g, alone |-> h]
    BY <2>1 DEF BoxOf
  <2>3. BoxOf(new)
        = [senderId |-> a, recipientIds |-> b, conditionType |-> c, named |-> d,
           answers |-> e, state |-> s, held |-> g \cup {u}, alone |-> h]
    BY <2>1 DEF BoxOf, SameLock
  <2>4. [box EXCEPT !.state = s, !.held = @ \cup {u}]
        = [senderId |-> a, recipientIds |-> b, conditionType |-> c, named |-> d,
           answers |-> e, state |-> s, held |-> g \cup {u}, alone |-> h]
    <3>1. PICK q : q = [box EXCEPT !.state = s]
      OBVIOUS
    <3>2. q = [senderId |-> a, recipientIds |-> b, conditionType |-> c, named |-> d,
               answers |-> e, state |-> s, held |-> g, alone |-> h]
      BY <2>2, <3>1
    <3>3. [q EXCEPT !.held = @ \cup {u}]
          = [senderId |-> a, recipientIds |-> b, conditionType |-> c, named |-> d,
             answers |-> e, state |-> s, held |-> g \cup {u}, alone |-> h]
      BY <3>2
    <3>4. [box EXCEPT !.state = s, !.held = @ \cup {u}] = [q EXCEPT !.held = @ \cup {u}]
      BY <3>1, Zenon
    <3> QED
      BY <3>3, <3>4
  <2> QED
    BY <2>1, <2>3, <2>4, Zenon
<1>3. Boxes' = [Boxes EXCEPT ![l] =
                   [BoxOf(locks[l]) EXCEPT !.state = new.state, !.held = @ \cup {u}]]
  BY <1>1, <1>2
<1> QED
  BY <1>1, <1>3 DEF Boxes

LEMMA SaveHoldBox ==
  ASSUME IInv, NEW k \in Runners, SaveHold(k)
  PROVE  BoxStep \/ Boxes' = Boxes
<1>1. PICK s \in Task : s = tasks[k]
  BY DEF IInv, TypeOK
<1>2. PICK l, doc, u : l = s.target /\ doc = s.docs[l] /\ u = s.actor
  OBVIOUS
<1>3. Relies(k, s) /\ s.pc = "save" /\ doc = Doc(k)
  BY <1>1, <1>2 DEF IInv, TaskInv, SaveHold, Doc
<1>4. /\ l \in LockIds /\ doc \in Lock /\ DocInv(l, doc)
      /\ u \in Users /\ HoldInv(l, doc, u)
  BY <1>2, <1>3 DEF Relies, Task
<1>5. l \in Stored /\ LockInv(l) /\ locks[l] \in Lock
  BY <1>4 DEF DocInv, IInv, TypeOK, Stored
<1>6. CASE VersionError(k, l, doc)
  BY <1>6, SameBoxes DEF VersionError, IInv
<1>7. CASE SavesHolds(l, doc)
  <2>1. PICK old, new : old = locks[l] /\ new = WithHolds(locks[l], doc)
    OBVIOUS
  <2>2. PICK box : box = Boxes[l]
    OBVIOUS
  <2>3. /\ new \in Lock /\ SameLock(new, old)
        /\ new.state = doc.state /\ new.confirmedIds = doc.confirmedIds
        /\ new.openedAlone = old.openedAlone
        /\ new.conditionLabel = old.conditionLabel
    BY <1>4, <1>5, <2>1, SavedHoldType
  <2>4. /\ MayHold(old, u) /\ new.state = StateAfter(old, u)
        /\ new.confirmedIds = old.confirmedIds \cup {u}
    BY <1>4, <1>7, <2>1, <2>3 DEF HoldInv, SavesHolds
  <2>5. Boxes' = [Boxes EXCEPT ![l].state = new.state, ![l].held = @ \cup {u}]
    BY <1>4, <1>5, <1>7, <2>1, <2>3, <2>4, HeldBox DEF SavesHolds, IInv
  <2>6. /\ box = BoxOf(old) /\ Box!Exists(l)
        /\ box.senderId = old.senderId /\ box.recipientIds = old.recipientIds
        /\ box.conditionType = old.conditionType /\ box.state = old.state
        /\ box.named = (old.conditionLabel # None)
        /\ box.answers = old.replyToId /\ box.held = old.confirmedIds
        /\ Box!Everyone(box) = Participants(old)
        /\ Box!Trade(box) <=> IsPairTogether(old)
        /\ Box!SelfStash(box) <=> IsSelfStash(old)
    BY <1>4, <1>5, <2>1, <2>2, StoredBox, BoxFields, SameRules DEF IInv
  <2>7. CASE \/ old.conditionType # "TOGETHER" \/ IsSelfStash(old)
    <3>1. new.state = "UNLOCKED"
      BY <2>4, <2>7 DEF StateAfter, IsPairTogether, TwoPeople, IsSelfStash
    <3>2. CASE old.conditionType # "TOGETHER" \/ u = old.senderId
      <4>1. Box!HoldSolo(l, u)
        BY <2>2, <2>4, <2>5, <2>6, <2>7, <3>1, <3>2
           DEF Box!HoldSolo, MayHold, IsRecipient, IsReply
      <4> QED
        BY <1>4, <4>1 DEF Box!Next, BoxStep
    <3>3. CASE old.conditionType = "TOGETHER" /\ u # old.senderId
      <4>1. Participants(old) = {old.senderId}
        BY <2>7, <3>3 DEF Participants, IsSelfStash
      <4>2. StrangerOpens(l, u)
        BY <2>2, <2>4, <2>5, <2>6, <2>7, <3>1, <3>3, <4>1
           DEF StrangerOpens, MayHold, IsReply
      <4> QED
        BY <1>4, <4>2 DEF BoxStep
    <3> QED
      BY <3>2, <3>3
  <2>8. CASE IsPairTogether(old) /\ u = old.senderId
    <3>1. /\ old.state = "LOCKED" /\ old.replyId # None /\ new.state = "READY"
          /\ ~IsSelfStash(old)
      BY <2>4, <2>8 DEF MayHold, CanConfirmTogether, StateAfter, IsSelfStash,
                        IsPairTogether, TwoPeople
    <3>2. PICK r : r = old.replyId
      OBVIOUS
    <3>3. r \in Stored /\ r \in LockIds /\ locks[r].replyToId = l
      BY <1>5, <2>1, <3>1, <3>2 DEF LockInv, AnswersTo, Stored
    <3>4. Box!Answer(r, l)
      BY <3>3, StoredBox, BoxFields DEF Box!Answer, IInv
    <3>5. Box!StartTrade(l)
      BY <2>2, <2>5, <2>6, <2>8, <3>1, <3>3, <3>4 DEF Box!StartTrade
    <3> QED
      BY <1>4, <3>5 DEF Box!Next, BoxStep
  <2>9. CASE IsPairTogether(old) /\ u # old.senderId
    <3>1. /\ old.state = "READY" /\ u \in old.recipientIds
          /\ new.state = "UNLOCKED"
      BY <2>4, <2>9 DEF MayHold, CanConfirmTogether, StateAfter, IsSelfStash,
                        IsPairTogether, TwoPeople, IsRecipient
    <3>2. Box!FinishTrade(l, u)
      BY <2>2, <2>5, <2>6, <2>9, <3>1 DEF Box!FinishTrade
    <3> QED
      BY <1>4, <3>2 DEF Box!Next, BoxStep
  <2>10. CASE /\ old.conditionType = "TOGETHER" /\ ~IsSelfStash(old)
              /\ ~IsPairTogether(old)
    <3>1. /\ u \in Participants(old) \ old.confirmedIds /\ old.state # "UNLOCKED"
          /\ old.replyToId = None
          /\ new.state = IF Participants(old) \subseteq old.confirmedIds \cup {u}
                         THEN "UNLOCKED" ELSE "READY"
      BY <2>4, <2>10 DEF MayHold, CanConfirmTogether, StateAfter, IsParticipant,
                         IsReply
    <3>2. Box!HoldGroup(l, u)
      BY <2>2, <2>5, <2>6, <2>10, <3>1 DEF Box!HoldGroup
    <3> QED
      BY <1>4, <3>2 DEF Box!Next, BoxStep
  <2> QED
    BY <2>7, <2>8, <2>9, <2>10 DEF IsPairTogether
<1> QED
  BY <1>1, <1>2, <1>3, <1>6, <1>7 DEF SaveHold

\* unlockReply's save takes lock r from wherever it was to open, all holds in.
LEMMA OpenedBox ==
  ASSUME TypeOK, NEW r \in LockIds, r \in Stored, NEW new \in Lock,
         SameLock(new, locks[r]), new.conditionLabel = locks[r].conditionLabel,
         new.openedAlone = locks[r].openedAlone, new.state = "UNLOCKED",
         new.confirmedIds = Participants(locks[r]),
         locks' = [locks EXCEPT ![r] = new]
  PROVE  Boxes' = [Boxes EXCEPT ![r].state = "UNLOCKED",
                                ![r].held = Box!Everyone(Boxes[r])]
<1>1. Boxes' = [Boxes EXCEPT ![r] = BoxOf(new)] /\ Boxes[r] = BoxOf(locks[r])
  BY WriteBoxes, StoredBox
<1>2. PICK box, all : box = Boxes[r] /\ all = Box!Everyone(box)
  OBVIOUS
<1>3. BoxOf(new) = [box EXCEPT !.state = "UNLOCKED", !.held = all]
  <2>1. PICK a, b, c, d, e, f, g, h :
               /\ a = locks[r].senderId /\ b = locks[r].recipientIds
               /\ c = locks[r].conditionType /\ d = (locks[r].conditionLabel # None)
               /\ e = locks[r].replyToId /\ f = locks[r].state
               /\ g = locks[r].confirmedIds /\ h = locks[r].openedAlone
    OBVIOUS
  <2>2. box = [senderId |-> a, recipientIds |-> b, conditionType |-> c, named |-> d,
               answers |-> e, state |-> f, held |-> g, alone |-> h]
    BY <1>1, <1>2, <2>1 DEF BoxOf
  <2>3. all = Participants(locks[r])
    BY <1>1, <1>2, SameRules
  <2>4. BoxOf(new)
        = [senderId |-> a, recipientIds |-> b, conditionType |-> c, named |-> d,
           answers |-> e, state |-> "UNLOCKED", held |-> all, alone |-> h]
    BY <2>1, <2>3 DEF BoxOf, SameLock
  <2>5. [box EXCEPT !.state = "UNLOCKED", !.held = all]
        = [senderId |-> a, recipientIds |-> b, conditionType |-> c, named |-> d,
           answers |-> e, state |-> "UNLOCKED", held |-> all, alone |-> h]
    <3>1. PICK q : q = [box EXCEPT !.state = "UNLOCKED"]
      OBVIOUS
    <3>2. q = [senderId |-> a, recipientIds |-> b, conditionType |-> c, named |-> d,
               answers |-> e, state |-> "UNLOCKED", held |-> g, alone |-> h]
      BY <2>2, <3>1
    <3>3. [q EXCEPT !.held = all]
          = [senderId |-> a, recipientIds |-> b, conditionType |-> c, named |-> d,
             answers |-> e, state |-> "UNLOCKED", held |-> all, alone |-> h]
      BY <3>2
    <3>4. [box EXCEPT !.state = "UNLOCKED", !.held = all] = [q EXCEPT !.held = all]
      BY <3>1, Zenon
    <3> QED
      BY <3>3, <3>4
  <2> QED
    BY <2>4, <2>5, Zenon
<1>4. Boxes' = [Boxes EXCEPT ![r] = [box EXCEPT !.state = "UNLOCKED", !.held = all]]
  BY <1>1, <1>3
<1> QED
  BY <1>2, <1>4 DEF Boxes

LEMMA SaveReplyBox ==
  ASSUME IInv, NEW k \in Runners, SaveReply(k)
  PROVE  Box!Next \/ Boxes' = Boxes
<1>1. PICK s \in Task : s = tasks[k]
  BY DEF IInv, TypeOK
<1>2. PICK l, r, doc : l = s.target /\ r = s.docs[l].replyId /\ doc = s.docs[r]
  OBVIOUS
<1>3. Relies(k, s) /\ s.pc = "saveReply" /\ r = Doc(k).replyId
  BY <1>1, <1>2 DEF IInv, TaskInv, SaveReply, Doc
<1>4. /\ l \in LockIds /\ s.docs[l] # None /\ r \in AnswersTo(l)
      /\ locks[l].state = "UNLOCKED" \/ locks[l].openedAlone
      /\ doc # None /\ ReplyInv(r, doc) /\ DocInv(l, s.docs[l])
  BY <1>2, <1>3 DEF Relies
<1>5. /\ r \in Stored /\ r \in LockIds /\ locks[r] \in Lock /\ LockInv(r)
      /\ locks[r].replyToId = l /\ IsReply(locks[r]) /\ l \in Stored
  BY <1>4, ConstantAssumptions DEF AnswersTo, Stored, IInv, TypeOK, IsReply, DocInv
<1>6. doc \in Lock /\ DocInv(r, doc)
  BY <1>2, <1>3, <1>4, <1>5 DEF Relies, Task
<1>7. CASE VersionError(k, r, doc)
  BY <1>7, SameBoxes DEF VersionError, IInv
<1>8. CASE SavesHolds(r, doc)
  <2>1. PICK new : new = WithHolds(locks[r], doc)
    OBVIOUS
  <2>2. /\ new \in Lock /\ SameLock(new, locks[r])
        /\ new.state = doc.state /\ new.confirmedIds = doc.confirmedIds
        /\ new.openedAlone = locks[r].openedAlone
        /\ new.conditionLabel = locks[r].conditionLabel
    BY <1>5, <1>6, <2>1, SavedHoldType
  <2>3. locks' = [locks EXCEPT ![r] = new]
    BY <1>8, <2>1 DEF SavesHolds
  <2>4. /\ locks[r].state # "UNLOCKED" /\ new.state = "UNLOCKED"
        /\ new.confirmedIds = Participants(locks[r])
    BY <1>4, <1>6, <1>8, <2>2, SameParties DEF ReplyInv, SavesHolds, DocInv
  <2>5. locks[r].state = "LOCKED"
    BY <1>5, <2>4 DEF LockInv, Lock, LockStates
  <2>6. Boxes' = [Boxes EXCEPT ![r].state = "UNLOCKED",
                               ![r].held = Box!Everyone(Boxes[r])]
    BY <1>5, <2>2, <2>3, <2>4, OpenedBox DEF IInv
  <2>7. Box!OpenAnswer(r, l)
    BY <1>4, <1>5, <2>5, <2>6, StoredBox, BoxFields
       DEF Box!OpenAnswer, Box!Answer, IInv
  <2> QED
    BY <1>4, <1>5, <2>7 DEF Box!Next
<1> QED
  BY <1>1, <1>2, <1>3, <1>7, <1>8 DEF SaveReply

LEMMA SaveAloneBox ==
  ASSUME IInv, NEW l \in LockIds, SaveAlone(l)
  PROVE  Box!Next
<1>1. /\ l \in Stored /\ IsPairTogether(locks[l]) /\ locks[l].state # "LOCKED"
  <2>1. Relies(l, tasks[l]) /\ tasks[l].pc = "alone"
    BY DEF SaveAlone, IInv, TaskInv, Runners
  <2> QED
    BY <2>1 DEF Relies, DocInv
<1>2. locks[l] \in Lock
  BY <1>1 DEF IInv, TypeOK, Stored
<1>3. PICK new : new = [locks[l] EXCEPT !.openedAlone = TRUE]
  OBVIOUS
<1>4. new \in Lock /\ locks' = [locks EXCEPT ![l] = new]
  BY <1>2, <1>3 DEF Lock, SaveAlone
<1>5. PICK box : box = BoxOf(locks[l])
  OBVIOUS
<1>6. Boxes' = [Boxes EXCEPT ![l].alone = TRUE]
  <2>1. BoxOf(new) = [box EXCEPT !.alone = TRUE]
    <3>1. /\ SameLock(new, locks[l]) /\ new.conditionLabel = locks[l].conditionLabel
          /\ new.state = locks[l].state /\ new.confirmedIds = locks[l].confirmedIds
          /\ new.openedAlone = TRUE
      BY <1>2, <1>3 DEF Lock, SameLock
    <3>2. PICK a, b, c, d, e, f, g, h, t :
                 /\ t = TRUE /\ a = new.senderId /\ b = new.recipientIds
                 /\ c = new.conditionType /\ d = (new.conditionLabel # None)
                 /\ e = new.replyToId /\ f = new.state
                 /\ g = new.confirmedIds /\ h = locks[l].openedAlone
      OBVIOUS
    <3>3. BoxOf(new)
          = [senderId |-> a, recipientIds |-> b, conditionType |-> c, named |-> d,
             answers |-> e, state |-> f, held |-> g, alone |-> t]
      BY <3>1, <3>2 DEF BoxOf
    <3>4. box
          = [senderId |-> a, recipientIds |-> b, conditionType |-> c, named |-> d,
             answers |-> e, state |-> f, held |-> g, alone |-> h]
      BY <1>5, <3>1, <3>2 DEF BoxOf, SameLock
    <3>5. [box EXCEPT !.alone = t]
          = [senderId |-> a, recipientIds |-> b, conditionType |-> c, named |-> d,
             answers |-> e, state |-> f, held |-> g, alone |-> t]
      BY <3>4
    <3> QED
      BY <3>2, <3>3, <3>5, Zenon
  <2>2. Boxes' = [Boxes EXCEPT ![l] = BoxOf(new)] /\ Boxes[l] = box
    BY <1>1, <1>4, <1>5, WriteBoxes, StoredBox DEF IInv, Stored
  <2>3. Boxes' = [Boxes EXCEPT ![l] = [box EXCEPT !.alone = TRUE]]
    BY <2>1, <2>2, Zenon
  <2> QED
    BY <2>2, <2>3 DEF Boxes
<1>7. Box!GoAhead(l)
  BY <1>1, <1>6, StoredBox, BoxFields, SameRules DEF Box!GoAhead, IInv
<1> QED
  BY <1>7 DEF Box!Next

LEMMA SaveConditionBox ==
  ASSUME IInv, NEW k \in Runners, SaveCondition(k)
  PROVE  Box!Next
<1>1. PICK s \in Task : s = tasks[k]
  BY DEF IInv, TypeOK
<1>2. PICK l, text : l = s.target /\ text = s.docs[l].conditionLabel
  OBVIOUS
<1>3. Relies(k, s) /\ s.pc = "write"
  BY <1>1 DEF IInv, TaskInv, SaveCondition
<1>4. /\ l \in LockIds /\ s.docs[l] # None /\ s.docs[l] \in Lock
      /\ DocInv(l, s.docs[l]) /\ text # None
      /\ locks[l].conditionType = "RECIPIENT_SET"
  BY <1>2, <1>3 DEF Relies, Task
<1>5. l \in Stored /\ locks[l] \in Lock /\ text \in Labels
  BY <1>2, <1>4 DEF DocInv, IInv, TypeOK, Stored, Lock
<1>6. PICK new : new = [locks[l] EXCEPT !.conditionLabel = text]
  OBVIOUS
<1>7. new \in Lock /\ locks' = [locks EXCEPT ![l] = new]
  BY <1>1, <1>2, <1>5, <1>6 DEF Lock, SaveCondition, Doc
<1>8. PICK box : box = BoxOf(locks[l])
  OBVIOUS
<1>9. Boxes' = [Boxes EXCEPT ![l].named = TRUE]
  <2>1. BoxOf(new) = [box EXCEPT !.named = TRUE]
    <3>1. /\ SameLock(new, locks[l]) /\ (new.conditionLabel # None) = TRUE
          /\ new.state = locks[l].state /\ new.confirmedIds = locks[l].confirmedIds
          /\ new.openedAlone = locks[l].openedAlone
      BY <1>4, <1>5, <1>6 DEF Lock, SameLock
    <3>2. PICK a, b, c, d, e, f, g, h, t :
                 /\ t = TRUE /\ a = new.senderId /\ b = new.recipientIds
                 /\ c = new.conditionType /\ d = (locks[l].conditionLabel # None)
                 /\ e = new.replyToId /\ f = new.state
                 /\ g = new.confirmedIds /\ h = new.openedAlone
      OBVIOUS
    <3>3. BoxOf(new)
          = [senderId |-> a, recipientIds |-> b, conditionType |-> c, named |-> t,
             answers |-> e, state |-> f, held |-> g, alone |-> h]
      BY <3>1, <3>2 DEF BoxOf
    <3>4. box
          = [senderId |-> a, recipientIds |-> b, conditionType |-> c, named |-> d,
             answers |-> e, state |-> f, held |-> g, alone |-> h]
      BY <1>8, <3>1, <3>2 DEF BoxOf, SameLock
    <3>5. [box EXCEPT !.named = t]
          = [senderId |-> a, recipientIds |-> b, conditionType |-> c, named |-> t,
             answers |-> e, state |-> f, held |-> g, alone |-> h]
      BY <3>4
    <3> QED
      BY <3>2, <3>3, <3>5, Zenon
  <2>2. Boxes' = [Boxes EXCEPT ![l] = BoxOf(new)] /\ Boxes[l] = box
    BY <1>4, <1>5, <1>7, <1>8, WriteBoxes, StoredBox DEF IInv
  <2>3. Boxes' = [Boxes EXCEPT ![l] = [box EXCEPT !.named = TRUE]]
    BY <2>1, <2>2, Zenon
  <2> QED
    BY <2>2, <2>3 DEF Boxes
<1>10. Box!Name(l)
  BY <1>4, <1>5, <1>9, StoredBox, BoxFields DEF Box!Name, IInv
<1> QED
  BY <1>4, <1>10 DEF Box!Next

\* The link to an answer, and who is there, are no part of a box.
LEMMA LinkReplyBox ==
  ASSUME IInv, NEW k \in Runners, LinkReply(k)
  PROVE  Boxes' = Boxes
<1>1. PICK s \in Task : s = tasks[k]
  BY DEF IInv, TypeOK
<1>2. PICK r, o : r = s.target /\ o = s.docs[r].replyToId
  OBVIOUS
<1>3. Relies(k, s) /\ s.pc = "link"
  BY <1>1 DEF IInv, TaskInv, LinkReply
<1>4. r \in LockIds /\ o \in LockIds /\ o \in Stored /\ locks[o] \in Lock
  BY <1>2, <1>3 DEF Relies, DocInv, IInv, TypeOK, Stored
<1>5. PICK new : new = [locks[o] EXCEPT !.replyId = r]
  OBVIOUS
<1>6. new \in Lock /\ BoxOf(new) = BoxOf(locks[o])
  BY <1>4, <1>5 DEF Lock, BoxOf
<1>7. locks' = [locks EXCEPT ![o] = new]
  BY <1>1, <1>2, <1>5 DEF LinkReply, Doc
<1> QED
  BY <1>4, <1>6, <1>7, SameBoxes DEF IInv

LEMMA StampBox ==
  ASSUME IInv, NEW k \in Runners, Stamp(k)
  PROVE  Boxes' = Boxes
<1>1. PICK s \in Task : s = tasks[k]
  BY DEF IInv, TypeOK
<1>2. PICK l \in LockIds :
         s.docs[l] # None /\ locks' = [locks EXCEPT ![l].contextMetBy = s.actor]
  BY <1>1 DEF Stamp
<1>3. s.actor \in Users /\ l \in Stored
  BY <1>1, <1>2 DEF IInv, TaskInv, Relies, DocInv, Stamp
<1>4. locks[l] \in Lock
  BY <1>3 DEF IInv, TypeOK, Stored
<1>5. PICK new : new = [locks[l] EXCEPT !.contextMetBy = s.actor]
  OBVIOUS
<1>6. new \in Lock /\ BoxOf(new) = BoxOf(locks[l])
  BY <1>3, <1>4, <1>5 DEF Lock, BoxOf
<1> QED
  BY <1>2, <1>3, <1>5, <1>6, SameBoxes DEF IInv

LEMMA InitBox == Init => Box!Init
  BY DEF Init, Box!Init, Boxes, Stored

LEMMA NextBox ==
  ASSUME IInv, [Next]_vars
  PROVE  [BoxStep]_Boxes
<1>1. ASSUME NEW k \in Requests, Arrive(k) PROVE locks' = locks
  BY <1>1 DEF Arrive, Create, StashBack, Confirm, SetCondition, MarkHere
<1>2. ASSUME NEW k \in Runners, Step(k) PROVE BoxStep \/ Boxes' = Boxes
  <2>1. CASE \/ TellOriginal(k) \/ Announce(k) \/ ScheduleOpenAlone(k)
             \/ UnlockReply(k) \/ TellReply(k) \/ AnnounceHere(k)
    <3>1. locks' = locks
      BY <2>1 DEF TellOriginal, Announce, ScheduleOpenAlone, UnlockReply,
                  TellReply, AnnounceHere
    <3> QED
      BY <3>1, SameBoxes DEF IInv
  <2> QED
    BY <1>2, <2>1, InsertBox, LinkReplyBox, SaveHoldBox, SaveReplyBox,
       SaveConditionBox, StampBox DEF Step, BoxStep
<1>3. ASSUME NEW k \in Runners, Fail(k) PROVE locks' = locks
  BY <1>3 DEF Fail
<1>4. ASSUME NEW l \in LockIds, OpenAlone(l) PROVE locks' = locks
  BY <1>4 DEF OpenAlone
<1>5. Restart => locks' = locks
  BY DEF Restart
<1>6. UNCHANGED vars => locks' = locks
  BY DEF vars
<1>7. locks' = locks => Boxes' = Boxes
  BY SameBoxes DEF IInv
<1> QED
  BY <1>1, <1>2, <1>3, <1>4, <1>5, <1>6, <1>7, SaveAloneBox
     DEF Next, BoxStep

\* What people are promised of a lock they get, whatever requests, callbacks,
\* failures and restarts interleave: every save of the service seals, names,
\* holds, starts, finishes, gives up on or opens one lock as the product spec
\* has it, or shows nobody anything; or it is a stranger's hold on a self-stash.
THEOREM LockboxIsImplemented == Spec => ImplementsLockbox
<1>1. IInv /\ [Next]_vars => [BoxStep]_Boxes
  BY NextBox
<1> QED
  BY <1>1, InitBox, Invariance, PTL DEF Spec, ImplementsLockbox

\* As long as no stranger opens a self-stash, the service is what the product
\* spec says it is.
THEOREM LockboxWithoutStrangers ==
  Spec /\ [][\A l \in LockIds, u \in Users : ~StrangerOpens(l, u)]_Boxes
    => Box!Spec
<1>1. /\ [BoxStep]_Boxes
      /\ [\A l \in LockIds, u \in Users : ~StrangerOpens(l, u)]_Boxes
      => [Box!Next]_Boxes
  BY DEF BoxStep
<1> QED
  BY <1>1, LockboxIsImplemented, PTL DEF ImplementsLockbox, Box!Spec
=============================================================================
