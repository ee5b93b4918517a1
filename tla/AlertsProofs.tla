---------------------------- MODULE AlertsProofs ----------------------------
(***************************************************************************)
(* The daily ceiling, the gap and the turns of stash alerts for any number *)
(* of people, friends, deliveries under way, hours and days.               *)
(***************************************************************************)
EXTENDS Alerts, FiniteSetTheorems, SequenceTheorems, TLAPS

-----------------------------------------------------------------------------
(* The inductive invariant                                                 *)

Pcs == {"idle", "next", "lists", "todays", "compose", "store", "push",
        "preview", "shown"}

\* A delivery or a preview, whatever the preview shows.
IsJob(job) ==
    job \in [pc : Pcs, kind : {"tick", "send", "preview", Nobody},
             user : Users \cup {Nobody}, left : SUBSET OptedIn, budget : Nat,
             todays : SUBSET (Friends \cup {Nobody}), shown : {job.shown},
             friend : Friends \cup {Nobody}]

Alert == [userId : Users, day : Nat, at : Nat, title : Titles,
          friendId : Friends \cup {Nobody}, scheduled : BOOLEAN]

AlertsTypeOK ==
    /\ clock \in 0 .. Hours
    /\ social \in [Users -> Nat]
    /\ even \in [0 .. Day(Hours) -> BOOLEAN]
    /\ alerts \in Seq(Alert)
    /\ jobs = [j \in Jobs |-> jobs[j]]
    /\ \A j \in Jobs : IsJob(jobs[j])

\* Alerts are filed under the day they were stored on.
FiledInv == \A i \in DOMAIN alerts :
                alerts[i].at <= clock /\ alerts[i].day = Day(alerts[i].at)

\* Today's alerts of u are three hours old, but for those sent by hand since.
Spaced(u) == \A k \in Todays(u) :
    \/ clock - alerts[k].at >= MinGap
    \/ ~alerts[k].scheduled /\ alerts[k].at = clock

\* What a delivery relies on, at each of its points.
Relies(job) ==
    /\ job.pc \in {"lists", "todays", "compose", "store", "push"} => job.user \in Users
    /\ job.kind = "tick" /\ job.pc \in {"lists", "todays", "compose", "store"} =>
           job.user \in OptedIn
    /\ job.pc = "todays" => job.budget <= Budget(job.user)
    /\ job.pc = "compose" => job.todays \subseteq Pinged(Todays(job.user))
    /\ job.kind = "tick" /\ job.pc \in {"compose", "store"} =>
           /\ Cardinality(Scheduled(job.user, Day(clock))) < Budget(job.user)
           /\ Spaced(job.user)

\* The cron does not fire again before its last round is over.
OneTick == \A i, j \in Jobs : jobs[i].kind = "tick" /\ jobs[j].kind = "tick" => i = j

AlertsInv ==
    /\ AlertsTypeOK /\ FiledInv /\ CeilingKept /\ SpacedOut /\ OneTick
    /\ \A j \in Jobs : Relies(jobs[j])

-----------------------------------------------------------------------------
(* Types and pure rules                                                    *)

\* More friends never make the budget smaller.
LEMMA BudgetGrows ==
  ASSUME NEW n \in Nat, NEW m \in Nat, n <= m, NEW b \in BOOLEAN
  PROVE  /\ DailyAlertBudget(n, b) \in Nat /\ DailyAlertBudget(m, b) \in Nat
         /\ DailyAlertBudget(n, b) <= DailyAlertBudget(m, b)
  BY DEF DailyAlertBudget

LEMMA DayType ==
  ASSUME NEW t \in 0 .. Hours
  PROVE  Day(t) \in 0 .. Day(Hours) /\ Day(t) \in Nat
  BY AlertsAssumptions DEF Day

LEMMA BudgetType ==
  ASSUME AlertsInv, NEW u \in Users
  PROVE  /\ Budget(u) \in Nat /\ even[Day(clock)] \in BOOLEAN /\ social[u] \in Nat
         /\ Day(clock) \in 0 .. Day(Hours)
<1>1. social[u] \in Nat /\ Day(clock) \in 0 .. Day(Hours) /\ even[Day(clock)] \in BOOLEAN
  BY DayType DEF AlertsInv, AlertsTypeOK
<1> QED
  BY <1>1, BudgetGrows DEF Budget

LEMMA AlertType ==
  ASSUME AlertsInv
  PROVE  /\ alerts \in Seq(Alert) /\ Len(alerts) \in Nat
         /\ DOMAIN alerts = 1 .. Len(alerts)
         /\ \A i \in DOMAIN alerts :
                /\ alerts[i] \in Alert /\ alerts[i].at \in Nat
                /\ alerts[i].day \in Nat
                /\ alerts[i].friendId \in Friends \cup {Nobody}
<1>1. alerts \in Seq(Alert) /\ Len(alerts) \in Nat /\ DOMAIN alerts = 1 .. Len(alerts)
  BY DEF AlertsInv, AlertsTypeOK
<1>2. \A i \in DOMAIN alerts : alerts[i] \in Alert
  BY <1>1
<1> QED
  BY <1>1, <1>2 DEF Alert

LEMMA ScheduledFinite ==
  ASSUME AlertsInv, NEW u, NEW d
  PROVE  IsFiniteSet(Scheduled(u, d)) /\ Cardinality(Scheduled(u, d)) \in Nat
<1>1. Scheduled(u, d) \subseteq DOMAIN alerts /\ IsFiniteSet(DOMAIN alerts)
  BY AlertType, FS_Interval DEF Scheduled
<1> QED
  BY <1>1, FS_Subset, FS_CardinalityType

LEMMA FreeType ==
  IsJob(Free) /\ Free.pc = "idle" /\ Free.kind = Nobody
  BY DEF IsJob, Free, Pcs

LEMMA JobType ==
  ASSUME AlertsInv, NEW j \in Jobs
  PROVE  /\ IsJob(jobs[j]) /\ Relies(jobs[j])
         /\ jobs[j].left \in SUBSET OptedIn /\ jobs[j].user \in Users \cup {Nobody}
  BY DEF AlertsInv, AlertsTypeOK, IsJob

LEMMA JobUpdate ==
  ASSUME AlertsInv, NEW j \in Jobs, NEW r, IsJob(r), jobs' = [jobs EXCEPT ![j] = r]
  PROVE  /\ jobs' = [i \in Jobs |-> jobs'[i]]
         /\ \A i \in Jobs : IsJob(jobs'[i])
         /\ \A i \in Jobs : jobs'[i] = IF i = j THEN r ELSE jobs[i]
<1>1. jobs = [i \in Jobs |-> jobs[i]] /\ \A i \in Jobs : IsJob(jobs[i])
  BY DEF AlertsInv, AlertsTypeOK
<1>2. jobs' = [i \in Jobs |-> IF i = j THEN r ELSE jobs[i]]
  BY <1>1
<1>3. \A i \in Jobs : jobs'[i] = IF i = j THEN r ELSE jobs[i]
  BY <1>2
<1>4. \A i \in Jobs : IsJob(jobs'[i])
  BY <1>1, <1>3
<1> QED
  BY <1>2, <1>3, <1>4

-----------------------------------------------------------------------------
(* Steps of the deliveries and previews                                    *)

\* A job relies on what c relies on, once it is c.
LEMMA NextRelies ==
  ASSUME NEW i, NEW c, jobs'[i] = c, Relies(c)'
  PROVE  Relies(jobs[i])'
  BY DEF Relies

\* What a job relies on depends on nothing but the clock, the budget and the
\* alerts.
LEMMA ReliesStays ==
  ASSUME NEW c, Relies(c), UNCHANGED <<clock, social, even, alerts>>
  PROVE  Relies(c)'
<1>1. \A u : /\ Todays(u)' = Todays(u) /\ Budget(u)' = Budget(u)
             /\ Scheduled(u, Day(clock))' = Scheduled(u, Day(clock))
             /\ Pinged(Todays(u))' = Pinged(Todays(u))
             /\ Spaced(u)' = Spaced(u)
  BY DEF Todays, Budget, Scheduled, Pinged, Spaced
<1> QED
  BY <1>1 DEF Relies

\* One job goes on, and nothing else changes.
LEMMA JobMoves ==
  ASSUME AlertsInv, NEW j \in Jobs, NEW r, IsJob(r), Relies(r),
         jobs' = [jobs EXCEPT ![j] = r],
         r.kind = "tick" =>
             jobs[j].kind = "tick" \/ \A i \in Jobs : jobs[i].kind # "tick",
         UNCHANGED <<clock, social, even, alerts>>
  PROVE  AlertsInv'
<1>1. /\ jobs' = [i \in Jobs |-> jobs'[i]]
      /\ \A i \in Jobs : IsJob(jobs'[i])
      /\ \A i \in Jobs : jobs'[i] = IF i = j THEN r ELSE jobs[i]
  BY JobUpdate
<1>2. AlertsTypeOK' /\ FiledInv'
  BY <1>1 DEF AlertsInv, AlertsTypeOK, FiledInv, IsJob
<1>3. CeilingKept' /\ SpacedOut'
  BY DEF AlertsInv, CeilingKept, SpacedOut, Scheduled
<1>4. OneTick'
  BY <1>1 DEF AlertsInv, OneTick
<1>5. ASSUME NEW i \in Jobs PROVE Relies(jobs[i])'
  <2>1. PICK c : c = IF i = j THEN r ELSE jobs[i]
    OBVIOUS
  <2>2. Relies(c)'
    <3>1. Relies(c)
      BY <2>1 DEF AlertsInv
    <3> QED
      BY <3>1, ReliesStays
  <2> QED
    BY <1>1, <2>1, <2>2, NextRelies
<1> QED
  BY <1>2, <1>3, <1>4, <1>5 DEF AlertsInv

\* A delivery that is over, or the tick that goes on to its next user.
LEMMA LeaveKeeps ==
  ASSUME AlertsInv, NEW j \in Jobs, Leave(j), UNCHANGED <<clock, social, even, alerts>>
  PROVE  AlertsInv'
<1>1. PICK left \in SUBSET OptedIn : left = jobs[j].left
  BY JobType
<1>2. PICK next : next = [Free EXCEPT !.pc = "next", !.kind = "tick", !.left = left]
  OBVIOUS
<1>3. IsJob(next) /\ next.pc = "next" /\ next.kind = "tick"
  BY <1>2 DEF IsJob, Free, Pcs
<1>4. \/ jobs' = [jobs EXCEPT ![j] = next] /\ jobs[j].kind = "tick"
      \/ jobs' = [jobs EXCEPT ![j] = Free]
  BY <1>1, <1>2 DEF Leave, AlertsInv, AlertsTypeOK
<1>5. Relies(next) /\ Relies(Free)
  BY <1>3, FreeType, AlertsAssumptions DEF Relies
<1> QED
  BY <1>3, <1>4, <1>5, FreeType, AlertsAssumptions, JobMoves

LEMMA TickKeeps ==
  ASSUME AlertsInv, NEW j \in Jobs, Tick(j)
  PROVE  AlertsInv'
<1>1. PICK r : r = [Free EXCEPT !.pc = "next", !.kind = "tick", !.left = OptedIn]
  OBVIOUS
<1>2. IsJob(r) /\ r.pc = "next" /\ r.kind = "tick"
  BY <1>1 DEF IsJob, Free, Pcs
<1>3. Relies(r)
  BY <1>2 DEF Relies
<1> QED
  BY <1>1, <1>2, <1>3, JobMoves DEF Tick

LEMMA NextUserKeeps ==
  ASSUME AlertsInv, NEW j \in Jobs, NextUser(j)
  PROVE  AlertsInv'
<1>1. PICK job : job = jobs[j] /\ IsJob(job) /\ job.pc = "next"
                 /\ job.left \in SUBSET OptedIn
  BY JobType DEF NextUser
<1>2. PICK u \in job.left : jobs' = [jobs EXCEPT ![j] = TurnedTo(u, job)]
  BY <1>1 DEF NextUser
<1>3. u \in OptedIn /\ u \in Users
  BY <1>1, AlertsAssumptions
<1>4. PICK r : r = TurnedTo(u, job)
  OBVIOUS
<1>5. \/ /\ IsJob(r) /\ r.pc = "lists" /\ r.kind = job.kind /\ r.user = u
      \/ r = Free
      \/ /\ IsJob(r) /\ r.pc = "next" /\ r.kind = job.kind
  <2>1. CASE r = [job EXCEPT !.left = job.left \ {u}, !.user = u, !.pc = "lists"]
    BY <1>1, <1>3, <2>1 DEF IsJob, Pcs
  <2>2. CASE r = [job EXCEPT !.left = job.left \ {u}]
    BY <1>1, <2>2 DEF IsJob
  <2> QED
    BY <1>4, <2>1, <2>2 DEF TurnedTo
<1>6. IsJob(r) /\ Relies(r) /\ (r.kind = "tick" => job.kind = "tick")
  BY <1>3, <1>5, FreeType, AlertsAssumptions DEF Relies
<1> QED
  BY <1>1, <1>2, <1>4, <1>6, JobMoves DEF NextUser

LEMMA SendNowKeeps ==
  ASSUME AlertsInv, NEW j \in Jobs, NEW u \in Users,
         NEW draft \in Friends \cup {Nobody}, SendNow(j, u, draft)
  PROVE  AlertsInv'
<1>1. PICK r : r = [Free EXCEPT !.pc = "lists", !.kind = "send", !.user = u,
                                !.friend = draft]
  OBVIOUS
<1>2. IsJob(r) /\ r.pc = "lists" /\ r.kind = "send" /\ r.user = u
  BY <1>1 DEF IsJob, Free, Pcs
<1>3. Relies(r)
  BY <1>2 DEF Relies
<1> QED
  BY <1>1, <1>2, <1>3, JobMoves DEF SendNow

LEMMA ReadListsKeeps ==
  ASSUME AlertsInv, NEW j \in Jobs, ReadLists(j)
  PROVE  AlertsInv'
<1>1. PICK job : job = jobs[j] /\ IsJob(job) /\ Relies(job) /\ job.pc = "lists"
  BY JobType DEF ReadLists
<1>2. job.user \in Users /\ (job.kind = "tick" => job.user \in OptedIn)
  BY <1>1 DEF Relies
<1>3. PICK budget \in Nat : budget = Budget(job.user)
  BY <1>2, BudgetType
<1>4. PICK r : r = [job EXCEPT !.pc = "todays", !.budget = budget]
  OBVIOUS
<1>5. /\ IsJob(r) /\ r.pc = "todays" /\ r.kind = job.kind /\ r.user = job.user
      /\ r.budget = budget
  BY <1>1, <1>4 DEF IsJob, Pcs
<1>6. Relies(r)
  BY <1>2, <1>3, <1>5 DEF Relies
<1>7. Leave(j) \/ jobs' = [jobs EXCEPT ![j] = r]
  <2>1. Leave(j) \/ jobs' = [jobs EXCEPT ![j].pc = "todays", ![j].budget = budget]
    BY <1>1, <1>3 DEF ReadLists
  <2> QED
    BY <1>1, <1>4, <2>1 DEF AlertsInv, AlertsTypeOK
<1> QED
  BY <1>1, <1>5, <1>6, <1>7, LeaveKeeps, JobMoves DEF ReadLists

LEMMA ReadTodaysKeeps ==
  ASSUME AlertsInv, NEW j \in Jobs, ReadTodays(j)
  PROVE  AlertsInv'
<1>1. PICK job : job = jobs[j] /\ IsJob(job) /\ Relies(job) /\ job.pc = "todays"
  BY JobType DEF ReadTodays
<1>2. /\ job.user \in Users /\ (job.kind = "tick" => job.user \in OptedIn)
      /\ job.budget \in Nat /\ job.budget <= Budget(job.user)
  BY <1>1 DEF Relies, IsJob
<1>3. PICK u : u = job.user
  OBVIOUS
<1>4. PICK pinged : pinged = Pinged(Todays(u))
  OBVIOUS
<1>5. pinged \in SUBSET (Friends \cup {Nobody})
    BY <1>4, AlertType DEF Pinged, Todays
<1>6. PICK r : r = [job EXCEPT !.pc = "compose", !.todays = pinged]
  OBVIOUS
<1>7. /\ IsJob(r) /\ r.pc = "compose" /\ r.kind = job.kind /\ r.user = u
      /\ r.todays = pinged
  BY <1>1, <1>3, <1>5, <1>6 DEF IsJob, Pcs
<1>8. ASSUME Due(Todays(u), job.budget) PROVE /\ Spaced(u)
                 /\ Cardinality(Scheduled(u, Day(clock))) < Budget(u)
  <2>1. Todays(u) \subseteq DOMAIN alerts /\ IsFiniteSet(DOMAIN alerts)
    BY AlertType, FS_Interval DEF Todays
  <2>2. Scheduled(u, Day(clock)) \subseteq Todays(u)
    BY DEF Scheduled, Todays
  <2>3. /\ Cardinality(Scheduled(u, Day(clock))) <= Cardinality(Todays(u))
        /\ Cardinality(Scheduled(u, Day(clock))) \in Nat
        /\ Cardinality(Todays(u)) \in Nat
    BY <2>1, <2>2, FS_Subset, FS_CardinalityType
  <2>4. Budget(u) \in Nat
    BY <1>2, <1>3, BudgetType
  <2>5. Cardinality(Todays(u)) < job.budget
    BY <1>8 DEF Due
  <2>6. Spaced(u)
    BY <1>8 DEF Due, GapOver, Spaced
  <2> QED
    BY <1>2, <1>3, <2>3, <2>4, <2>5, <2>6
<1>9. (job.kind = "tick" => Due(Todays(u), job.budget)) => Relies(r)
  BY <1>2, <1>3, <1>4, <1>7, <1>8 DEF Relies
<1>10. \/ Leave(j)
       \/ /\ jobs' = [jobs EXCEPT ![j] = r]
          /\ job.kind = "tick" => Due(Todays(u), job.budget)
  <2>1. \/ Leave(j)
        \/ /\ jobs' = [jobs EXCEPT ![j].pc = "compose", ![j].todays = pinged]
           /\ job.kind = "tick" => Due(Todays(u), job.budget)
    BY <1>1, <1>3, <1>4 DEF ReadTodays
  <2> QED
    BY <1>1, <1>6, <2>1 DEF AlertsInv, AlertsTypeOK
<1> QED
  BY <1>1, <1>7, <1>9, <1>10, LeaveKeeps, JobMoves DEF ReadTodays

LEMMA ComposeKeeps ==
  ASSUME AlertsInv, NEW j \in Jobs, Compose(j)
  PROVE  AlertsInv'
<1>1. PICK job : job = jobs[j] /\ IsJob(job) /\ Relies(job) /\ job.pc = "compose"
  BY JobType DEF Compose
<1>2. PICK r : r = [job EXCEPT !.pc = "store"]
  OBVIOUS
<1>3. IsJob(r) /\ r.pc = "store" /\ r.kind = job.kind /\ r.user = job.user
  BY <1>1, <1>2 DEF IsJob, Pcs
<1>4. ASSUME NEW f \in Friends PROVE
        \E s : /\ s = [job EXCEPT !.pc = "store", !.friend = f]
               /\ IsJob(s) /\ s.pc = "store" /\ s.kind = job.kind /\ s.user = job.user
  <2>1. PICK s : s = [job EXCEPT !.pc = "store", !.friend = f]
    OBVIOUS
  <2>2. IsJob(s) /\ s.pc = "store" /\ s.kind = job.kind /\ s.user = job.user
    BY <1>1, <2>1 DEF IsJob, Pcs
  <2> QED
    BY <2>1, <2>2
<1>5. \A s : s.pc = "store" /\ s.kind = job.kind /\ s.user = job.user => Relies(s)
  BY <1>1 DEF Relies
<1>6. \/ Leave(j)
      \/ jobs' = [jobs EXCEPT ![j] = r]
      \/ \E f \in Friends :
            jobs' = [jobs EXCEPT ![j] = [job EXCEPT !.pc = "store", !.friend = f]]
  <2>1. \/ Leave(j) \/ Proceed(j, "store")
        \/ \E f \in Friends : jobs' = [jobs EXCEPT ![j].pc = "store", ![j].friend = f]
    BY DEF Compose
  <2>2. Proceed(j, "store") => jobs' = [jobs EXCEPT ![j] = r]
    BY <1>1, <1>2 DEF Proceed, AlertsInv, AlertsTypeOK
  <2>3. ASSUME NEW f \in Friends, jobs' = [jobs EXCEPT ![j].pc = "store", ![j].friend = f]
        PROVE  jobs' = [jobs EXCEPT ![j] = [job EXCEPT !.pc = "store", !.friend = f]]
    BY <1>1, <2>3 DEF AlertsInv, AlertsTypeOK
  <2> QED
    BY <2>1, <2>2, <2>3
<1>7. UNCHANGED <<clock, social, even, alerts>>
  BY DEF Compose
<1>8. CASE jobs' = [jobs EXCEPT ![j] = r]
  BY <1>1, <1>3, <1>5, <1>7, <1>8, JobMoves
<1>9. ASSUME NEW f \in Friends,
             jobs' = [jobs EXCEPT ![j] = [job EXCEPT !.pc = "store", !.friend = f]]
      PROVE  AlertsInv'
  <2>1. PICK s : /\ jobs' = [jobs EXCEPT ![j] = s]
                 /\ IsJob(s) /\ s.pc = "store" /\ s.kind = job.kind /\ s.user = job.user
    BY <1>4, <1>9
  <2> QED
    BY <1>1, <1>5, <1>7, <2>1, JobMoves
<1> QED
  BY <1>6, <1>7, <1>8, <1>9, LeaveKeeps

\* The device is sent the alert, and the delivery is over.
LEMMA PushKeeps ==
  ASSUME AlertsInv, NEW j \in Jobs, Push(j) \/ FailJob(j)
  PROVE  AlertsInv'
  BY LeaveKeeps DEF Push, FailJob

\* Previews store nothing.
LEMMA PreviewKeeps ==
  ASSUME AlertsInv, NEW j \in Jobs, NEW u \in Users, Preview(j, u)
  PROVE  AlertsInv'
<1>1. PICK budget \in Nat : budget = Budget(u)
  BY BudgetType
<1>2. PICK r : r = [Free EXCEPT !.pc = "preview", !.kind = "preview", !.user = u,
                                !.budget = budget]
  OBVIOUS
<1>3. IsJob(r) /\ r.pc = "preview" /\ r.kind = "preview"
  BY <1>2 DEF IsJob, Free, Pcs
<1>4. Relies(r)
  BY <1>3 DEF Relies
<1> QED
  BY <1>1, <1>2, <1>3, <1>4, JobMoves DEF Preview

LEMMA PreviewOneKeeps ==
  ASSUME AlertsInv, NEW j \in Jobs, PreviewOne(j)
  PROVE  AlertsInv'
<1>1. PICK job : job = jobs[j] /\ IsJob(job) /\ job.pc = "preview"
  BY JobType DEF PreviewOne
<1>2. PICK f \in Friends :
          \/ \E shown : jobs' = [jobs EXCEPT ![j].shown = shown,
                                           ![j].todays = @ \cup {f}]
          \/ \E pc \in {"preview", "shown"} :
                jobs' = [jobs EXCEPT ![j].todays = @ \cup {f}, ![j].pc = pc]
  <2>1. PICK f \in Friends :
          \/ \E item : jobs' = [jobs EXCEPT
                 ![j].shown = Append(@, [friend |-> f, cue |-> item.cue]),
                 ![j].todays = @ \cup {f}]
          \/ jobs' = [jobs EXCEPT ![j].todays = @ \cup {f},
                 ![j].pc = IF Friends \subseteq jobs[j].todays \cup {f}
                           THEN "shown" ELSE @]
    BY DEF PreviewOne
  <2> QED
    BY <1>1, <2>1
<1>3. PICK todays \in SUBSET (Friends \cup {Nobody}) : todays = job.todays \cup {f}
  BY <1>1 DEF IsJob
<1>4. UNCHANGED <<clock, social, even, alerts>>
  BY DEF PreviewOne
<1>5. ASSUME NEW shown, jobs' = [jobs EXCEPT ![j].shown = shown,
                                             ![j].todays = @ \cup {f}]
      PROVE  AlertsInv'
  <2>1. PICK r : r = [job EXCEPT !.shown = shown, !.todays = todays]
    OBVIOUS
  <2>2. IsJob(r) /\ r.pc = "preview" /\ r.kind = job.kind
    BY <1>1, <2>1 DEF IsJob, Pcs
  <2>3. jobs' = [jobs EXCEPT ![j] = r]
    BY <1>1, <1>3, <1>5, <2>1 DEF AlertsInv, AlertsTypeOK
  <2>4. Relies(r)
    BY <2>2 DEF Relies
  <2> QED
    BY <1>1, <1>4, <2>2, <2>3, <2>4, JobMoves
<1>6. ASSUME NEW pc \in {"preview", "shown"},
             jobs' = [jobs EXCEPT ![j].todays = @ \cup {f}, ![j].pc = pc]
      PROVE  AlertsInv'
  <2>1. PICK r : r = [job EXCEPT !.todays = todays, !.pc = pc]
    OBVIOUS
  <2>2. IsJob(r) /\ r.pc = pc /\ r.kind = job.kind
    BY <1>1, <2>1 DEF IsJob, Pcs
  <2>3. jobs' = [jobs EXCEPT ![j] = r]
    BY <1>1, <1>3, <1>6, <2>1 DEF AlertsInv, AlertsTypeOK
  <2>4. Relies(r)
    BY <2>2 DEF Relies
  <2> QED
    BY <1>1, <1>4, <2>2, <2>3, <2>4, JobMoves
<1> QED
  BY <1>2, <1>5, <1>6

LEMMA PreviewEndsKeeps ==
  ASSUME AlertsInv, NEW j \in Jobs, PreviewEnds(j)
  PROVE  AlertsInv'
<1>1. Relies(Free) /\ Free.kind # "tick"
  BY FreeType, AlertsAssumptions DEF Relies
<1> QED
  BY <1>1, FreeType, JobMoves DEF PreviewEnds

-----------------------------------------------------------------------------
(* Steps that change what deliveries read                                  *)

\* An alert is stored: one that was due, or one that was sent by hand.
LEMMA StoreKeeps ==
  ASSUME AlertsInv, NEW j \in Jobs, Store(j)
  PROVE  AlertsInv'
<1>1. PICK job : job = jobs[j] /\ IsJob(job) /\ Relies(job) /\ job.pc = "store"
  BY JobType DEF Store
<1>2. PICK u \in Users : u = job.user
  BY <1>1 DEF Relies
<1>3. PICK last \in Alert :
          /\ alerts' = Append(alerts, last)
          /\ last.userId = u /\ last.day = Day(clock) /\ last.at = clock
          /\ last.scheduled = (job.kind = "tick")
  <2>1. PICK title \in Titles : alerts' = Append(alerts,
            [userId |-> jobs[j].user, day |-> Day(clock), at |-> clock,
             title |-> title, friendId |-> jobs[j].friend,
             scheduled |-> jobs[j].kind = "tick"])
    BY DEF Store
  <2>2. PICK scheduled \in BOOLEAN : scheduled = (job.kind = "tick")
    OBVIOUS
  <2>3. PICK last : last = [userId |-> u, day |-> Day(clock), at |-> clock,
             title |-> title, friendId |-> job.friend, scheduled |-> scheduled]
    OBVIOUS
  <2>4. alerts' = Append(alerts, last)
    BY <1>1, <1>2, <2>1, <2>2, <2>3
  <2>5. clock \in Nat /\ Day(clock) \in Nat /\ job.friend \in Friends \cup {Nobody}
    BY <1>1, DayType, AlertsAssumptions DEF AlertsInv, AlertsTypeOK, IsJob
  <2>6. /\ last \in Alert /\ last.scheduled = scheduled
        /\ last.userId = u /\ last.day = Day(clock) /\ last.at = clock
    BY <2>3, <2>5 DEF Alert
  <2> QED
    BY <2>2, <2>4, <2>6
<1>4. PICK r : r = [Free EXCEPT !.pc = "push", !.kind = job.kind, !.user = job.user,
                                !.left = job.left]
  OBVIOUS
<1>5. IsJob(r) /\ r.pc = "push" /\ r.kind = job.kind /\ r.user = u
  BY <1>1, <1>2, <1>4 DEF IsJob, Free, Pcs
<1>6. /\ jobs' = [jobs EXCEPT ![j] = r]
      /\ UNCHANGED <<clock, social, even>>
  BY <1>1, <1>4 DEF Store
<1>7. /\ jobs' = [i \in Jobs |-> jobs'[i]]
      /\ \A i \in Jobs : IsJob(jobs'[i])
      /\ \A i \in Jobs : jobs'[i] = IF i = j THEN r ELSE jobs[i]
  BY <1>5, <1>6, JobUpdate
<1>8. PICK n \in Nat : n = Len(alerts)
  BY AlertType
<1>9. /\ alerts' \in Seq(Alert) /\ DOMAIN alerts' = 1 .. n + 1
      /\ DOMAIN alerts = 1 .. n /\ alerts'[n + 1] = last
      /\ \A i \in 1 .. n : alerts'[i] = alerts[i]
  BY <1>3, <1>8, AlertType
<1>10. AlertsTypeOK'
  BY <1>6, <1>7, <1>9 DEF AlertsInv, AlertsTypeOK, IsJob
<1>11. FiledInv'
  BY <1>3, <1>6, <1>9, AlertType DEF AlertsInv, AlertsTypeOK, FiledInv
<1>12. OneTick'
  BY <1>1, <1>5, <1>7 DEF AlertsInv, OneTick
<1>13. ASSUME NEW v, NEW d, ~(v = u /\ d = Day(clock) /\ job.kind = "tick")
       PROVE  Scheduled(v, d)' = Scheduled(v, d)
  <2>1. ~(last.userId = v /\ last.day = d /\ last.scheduled)
    BY <1>3, <1>13
  <2>2. Scheduled(v, d)' = {i \in 1 .. n + 1 : /\ alerts'[i].userId = v
                               /\ alerts'[i].day = d /\ alerts'[i].scheduled}
    BY <1>9 DEF Scheduled
  <2>3. Scheduled(v, d) = {i \in 1 .. n : /\ alerts[i].userId = v
                               /\ alerts[i].day = d /\ alerts[i].scheduled}
    BY <1>9 DEF Scheduled
  <2>4. \A i \in 1 .. n + 1 : i \in 1 .. n \/ i = n + 1
    BY <1>8
  <2>5. 1 .. n \subseteq 1 .. n + 1
    BY <1>8
  <2> QED
    BY <1>9, <2>1, <2>2, <2>3, <2>4, <2>5
<1>14. ASSUME NEW v \in OptedIn, NEW d \in 0 .. Day(Hours)
       PROVE  Cardinality(Scheduled(v, d)') <= DailyAlertBudget(social'[v], even'[d])
  <2>1. Cardinality(Scheduled(v, d)) <= DailyAlertBudget(social[v], even[d])
    BY <1>14 DEF AlertsInv, CeilingKept
  <2>2. CASE ~(v = u /\ d = Day(clock) /\ job.kind = "tick")
    BY <1>6, <1>13, <2>1, <2>2
  <2>3. CASE v = u /\ d = Day(clock) /\ job.kind = "tick"
    <3>1. Scheduled(v, d)' = Scheduled(v, d) \cup {n + 1}
      <4>1. Scheduled(v, d)' = {i \in 1 .. n + 1 : /\ alerts'[i].userId = v
                                   /\ alerts'[i].day = d /\ alerts'[i].scheduled}
        BY <1>9 DEF Scheduled
      <4>2. Scheduled(v, d) = {i \in 1 .. n : /\ alerts[i].userId = v
                                   /\ alerts[i].day = d /\ alerts[i].scheduled}
        BY <1>9 DEF Scheduled
      <4>3. \A i : i \in 1 .. n + 1 <=> i \in 1 .. n \/ i = n + 1
        BY <1>8
      <4>4. last.scheduled /\ last.userId = v /\ last.day = d
        BY <1>3, <2>3
      <4> QED
        BY <1>9, <4>1, <4>2, <4>3, <4>4
    <3>2. IsFiniteSet(Scheduled(v, d)) /\ n + 1 \notin Scheduled(v, d)
      <4>1. Scheduled(v, d) \subseteq 1 .. n /\ n + 1 \notin 1 .. n
        BY <1>8, <1>9 DEF Scheduled
      <4>2. IsFiniteSet(1 .. n)
        BY <1>8, FS_Interval
      <4> QED
        BY <4>1, <4>2, FS_Subset
    <3>3. /\ Cardinality(Scheduled(v, d)') = Cardinality(Scheduled(v, d)) + 1
          /\ Cardinality(Scheduled(v, d)) \in Nat
      BY <3>1, <3>2, FS_AddElement, FS_CardinalityType
    <3>4. Cardinality(Scheduled(v, d)) < DailyAlertBudget(social[v], even[d])
      BY <1>1, <1>2, <2>3 DEF Relies, Budget
    <3>5. DailyAlertBudget(social[v], even[d]) \in Nat
      BY <1>2, <2>3, BudgetType DEF Budget
    <3> QED
      BY <1>6, <3>3, <3>4, <3>5
  <2> QED
    BY <2>2, <2>3
<1>15. CeilingKept'
  BY <1>14 DEF CeilingKept
<1>16. SpacedOut'
  <2> SUFFICES ASSUME NEW k \in 1 .. n + 1, NEW i \in 1 .. n + 1,
                      k < i, alerts'[i].scheduled,
                      alerts'[k].userId = alerts'[i].userId,
                      alerts'[k].day = alerts'[i].day
               PROVE  \/ alerts'[i].at - alerts'[k].at >= MinGap
                      \/ ~alerts'[k].scheduled /\ alerts'[k].at = alerts'[i].at
    BY <1>9 DEF SpacedOut
  <2>1. CASE i \in 1 .. n
    <3>1. k \in 1 .. n /\ alerts'[i] = alerts[i] /\ alerts'[k] = alerts[k]
      BY <1>8, <1>9, <2>1
    <3> QED
      BY <1>9, <2>1, <3>1 DEF AlertsInv, SpacedOut
  <2>2. CASE i = n + 1
    <3>1. k \in 1 .. n /\ alerts'[i] = last /\ alerts'[k] = alerts[k]
      BY <1>8, <1>9, <2>2
    <3>2. job.kind = "tick" /\ k \in Todays(u)
      BY <1>3, <1>9, <3>1 DEF Todays
    <3>3. Spaced(u)
      BY <1>1, <1>2, <3>2 DEF Relies
    <3> QED
      BY <1>3, <3>1, <3>2, <3>3 DEF Spaced
  <2> QED
    BY <1>8, <2>1, <2>2
<1>17. ASSUME NEW c, Relies(c), c.kind = "tick" => job.kind # "tick"
       PROVE  Relies(c)'
  <2>1. \A v : /\ Budget(v)' = Budget(v) /\ Pinged(Todays(v)) \subseteq Pinged(Todays(v))'
    <3>1. \A v : Todays(v) \subseteq Todays(v)' /\ Todays(v) \subseteq 1 .. n
      BY <1>6, <1>8, <1>9 DEF Todays
    <3> QED
      BY <1>6, <1>9, <3>1 DEF Budget, Pinged
  <2>2. ASSUME NEW v, Spaced(v), job.kind # "tick"
        PROVE  Spaced(v)'
    <3> SUFFICES ASSUME NEW k \in Todays(v)'
                 PROVE  \/ clock' - alerts'[k].at >= MinGap
                        \/ ~alerts'[k].scheduled /\ alerts'[k].at = clock'
      BY DEF Spaced
    <3>1. k \in 1 .. n + 1
      BY <1>9 DEF Todays
    <3>2. CASE k \in 1 .. n
      <4>1. k \in Todays(v)
        BY <1>6, <1>9, <3>2 DEF Todays
      <4> QED
        BY <1>6, <1>9, <2>2, <3>2, <4>1 DEF Spaced
    <3>3. CASE k = n + 1
      BY <1>3, <1>6, <1>9, <2>2, <3>3
    <3> QED
      BY <1>8, <3>1, <3>2, <3>3
  <2>3. job.kind # "tick" =>
            \A v : Scheduled(v, Day(clock))' = Scheduled(v, Day(clock))
    BY <1>6, <1>13
  <2> QED
    BY <1>17, <2>1, <2>2, <2>3 DEF Relies
<1>18. Relies(r)'
  BY <1>5, AlertsAssumptions DEF Relies
<1>19. ASSUME NEW i \in Jobs PROVE Relies(jobs[i])'
  <2>1. CASE i = j
    BY <1>7, <1>18, <2>1, NextRelies
  <2>2. CASE i # j
    <3>1. PICK c : c = jobs[i]
      OBVIOUS
    <3>2. Relies(c) /\ (c.kind = "tick" => job.kind # "tick")
      BY <1>1, <2>2, <3>1 DEF AlertsInv, OneTick
    <3>3. Relies(c)'
      BY <1>17, <3>2
    <3> QED
      BY <1>7, <2>2, <3>1, <3>3, NextRelies
  <2> QED
    BY <2>1, <2>2
<1> QED
  BY <1>10, <1>11, <1>12, <1>15, <1>16, <1>19 DEF AlertsInv

LEMMA BefriendKeeps ==
  ASSUME AlertsInv, NEW u \in OptedIn, Befriend(u)
  PROVE  AlertsInv'
<1>1. /\ UNCHANGED <<clock, even, alerts, jobs>>
      /\ social \in [Users -> Nat] /\ u \in Users
      /\ social' = [social EXCEPT ![u] = @ + 1]
  BY AlertsAssumptions DEF Befriend, AlertsInv, AlertsTypeOK
<1>2. social' \in [Users -> Nat] /\ \A v \in Users : social[v] <= social'[v]
  BY <1>1
<1>3. AlertsTypeOK' /\ FiledInv' /\ SpacedOut' /\ OneTick'
  BY <1>1, <1>2 DEF AlertsInv, AlertsTypeOK, FiledInv, SpacedOut, OneTick, IsJob
<1>4. ASSUME NEW v \in Users, NEW d \in 0 .. Day(Hours)
      PROVE  /\ DailyAlertBudget(social[v], even[d]) \in Nat
             /\ DailyAlertBudget(social'[v], even[d]) \in Nat
             /\ DailyAlertBudget(social[v], even[d])
                   <= DailyAlertBudget(social'[v], even[d])
  <2>1. even[d] \in BOOLEAN /\ social[v] \in Nat /\ social'[v] \in Nat
    BY <1>2 DEF AlertsInv, AlertsTypeOK
  <2> QED
    BY <1>2, <2>1, BudgetGrows
<1>5. ASSUME NEW v \in OptedIn, NEW d \in 0 .. Day(Hours)
      PROVE  Cardinality(Scheduled(v, d)') <= DailyAlertBudget(social'[v], even'[d])
  <2>1. /\ Cardinality(Scheduled(v, d)) <= DailyAlertBudget(social[v], even[d])
        /\ Cardinality(Scheduled(v, d)) \in Nat
    BY ScheduledFinite DEF AlertsInv, CeilingKept
  <2>2. Scheduled(v, d)' = Scheduled(v, d)
    BY <1>1 DEF Scheduled
  <2> QED
    BY <1>1, <1>4, <2>1, <2>2, AlertsAssumptions
<1>6. \A v \in Users : Budget(v) <= Budget(v)' /\ Budget(v) \in Nat /\ Budget(v)' \in Nat
  BY <1>1, <1>4, BudgetType DEF Budget
<1>7. ASSUME NEW c, IsJob(c), Relies(c) PROVE Relies(c)'
  <2>1. \A v : /\ Scheduled(v, Day(clock))' = Scheduled(v, Day(clock))
               /\ Cardinality(Scheduled(v, Day(clock))) \in Nat
               /\ Pinged(Todays(v))' = Pinged(Todays(v))
               /\ Spaced(v)' = Spaced(v)
    BY <1>1, ScheduledFinite DEF Scheduled, Todays, Pinged, Spaced
  <2>2. c.budget \in Nat
    BY <1>7 DEF IsJob
  <2> QED
    BY <1>6, <1>7, <2>1, <2>2 DEF Relies
<1>8. ASSUME NEW i \in Jobs PROVE Relies(jobs[i])'
  <2>1. PICK c : c = jobs[i]
    OBVIOUS
  <2> QED
    BY <1>1, <1>7, <2>1, JobType, NextRelies
<1> QED
  BY <1>3, <1>5, <1>8 DEF AlertsInv, CeilingKept

\* The hour is over when nothing is under way.
LEMMA AdvanceKeeps ==
  ASSUME AlertsInv, Advance
  PROVE  AlertsInv'
<1>1. /\ UNCHANGED <<social, even, alerts, jobs>> /\ clock' = clock + 1
      /\ clock < Hours /\ \A j \in Jobs : jobs[j] = Free
  BY DEF Advance
<1>2. AlertsTypeOK' /\ clock \in Nat
  BY <1>1, AlertsAssumptions DEF AlertsInv, AlertsTypeOK, IsJob
<1>3. FiledInv' /\ SpacedOut' /\ OneTick' /\ CeilingKept'
  <2>1. FiledInv'
    BY <1>1, <1>2, AlertType DEF AlertsInv, FiledInv
  <2> QED
    BY <1>1, <2>1 DEF AlertsInv, SpacedOut, OneTick, CeilingKept, Scheduled
<1>4. \A j \in Jobs : Relies(jobs[j])'
  BY <1>1, FreeType, AlertsAssumptions DEF Relies
<1> QED
  BY <1>2, <1>3, <1>4 DEF AlertsInv

LEMMA NothingKeeps ==
  ASSUME AlertsInv, UNCHANGED <<clock, social, even, alerts, jobs>>
  PROVE  AlertsInv'
<1>1. AlertsTypeOK' /\ FiledInv' /\ SpacedOut' /\ OneTick' /\ CeilingKept'
  BY DEF AlertsInv, AlertsTypeOK, FiledInv, SpacedOut, OneTick, CeilingKept,
         Scheduled, IsJob
<1>2. ASSUME NEW i \in Jobs PROVE Relies(jobs[i])'
  <2>1. PICK c : c = jobs[i] /\ Relies(c)
    BY JobType
  <2> QED
    BY <2>1, ReliesStays, NextRelies
<1> QED
  BY <1>1, <1>2 DEF AlertsInv

-----------------------------------------------------------------------------
(* What the service promises                                               *)

LEMMA AlertsInitInv == AlertsInit => AlertsInv
<1> SUFFICES ASSUME AlertsInit PROVE AlertsInv
  OBVIOUS
<1>1. /\ clock = 0 /\ alerts = <<>> /\ jobs = [j \in Jobs |-> Free]
      /\ social = [u \in Users |-> IF u \in OptedIn THEN Social[1] ELSE 0]
      /\ even \in [0 .. Day(Hours) -> BOOLEAN]
  BY DEF AlertsInit
<1>2. AlertsTypeOK
  BY <1>1, FreeType, AlertsAssumptions DEF AlertsTypeOK
<1>3. FiledInv /\ SpacedOut /\ OneTick
  BY <1>1, FreeType, AlertsAssumptions DEF FiledInv, SpacedOut, OneTick
<1>4. CeilingKept
  <2> SUFFICES ASSUME NEW u \in OptedIn, NEW d \in 0 .. Day(Hours)
               PROVE  Cardinality(Scheduled(u, d)) <=
                          DailyAlertBudget(social[u], even[d])
    BY DEF CeilingKept
  <2>1. Scheduled(u, d) = {}
    BY <1>1 DEF Scheduled
  <2>2. DailyAlertBudget(social[u], even[d]) \in Nat
    <3>1. social[u] \in Nat /\ even[d] \in BOOLEAN
      BY <1>1, AlertsAssumptions
    <3> QED
      BY <3>1, BudgetGrows
  <2> QED
    BY <2>1, <2>2, FS_EmptySet
<1>5. \A j \in Jobs : Relies(jobs[j])
  BY <1>1, FreeType, AlertsAssumptions DEF Relies
<1> QED
  BY <1>2, <1>3, <1>4, <1>5 DEF AlertsInv

LEMMA AlertsNextInv ==
  ASSUME AlertsInv, [AlertsNext]_alertsVars
  PROVE  AlertsInv'
<1>1. ASSUME \/ \E u \in Users, d \in Devices : Subscribe(u, d)
             \/ \E u \in Users, gone \in SUBSET Devices : Unsubscribe(u, gone)
             \/ UNCHANGED alertsVars
      PROVE  AlertsInv'
  BY <1>1, NothingKeeps DEF Subscribe, Unsubscribe, alertsVars
<1> QED
  BY <1>1, AdvanceKeeps, BefriendKeeps, TickKeeps, NextUserKeeps, SendNowKeeps,
     ReadListsKeeps, ReadTodaysKeeps, ComposeKeeps, StoreKeeps, PushKeeps,
     PreviewKeeps, PreviewOneKeeps, PreviewEndsKeeps DEF AlertsNext

LEMMA AlertsInvariance == AlertsSpec => []AlertsInv
  BY AlertsInitInv, AlertsNextInv, PTL DEF AlertsSpec

\* The hourly tick never sends a person more in a day than the day's budget,
\* however many sends by hand and new friends fall between its steps.
THEOREM CeilingsAreKept == AlertsSpec => []CeilingKept
<1>1. AlertsInv => CeilingKept
  BY DEF AlertsInv
<1> QED
  BY <1>1, AlertsInvariance, PTL

\* Within a day scheduled alerts keep three hours from all others, but for the
\* sends that were asked for while they were composed.
THEOREM AlertsAreSpacedOut == AlertsSpec => []SpacedOut
<1>1. AlertsInv => SpacedOut
  BY DEF AlertsInv
<1> QED
  BY <1>1, AlertsInvariance, PTL

LEMMA NotLeft ==
  ASSUME AlertsInv, NEW j \in Jobs, jobs'[j].pc = "store"
  PROVE  ~Leave(j)
<1>1. PICK next : next = [Free EXCEPT !.pc = "next", !.kind = "tick",
                                      !.left = jobs[j].left]
  OBVIOUS
<1>2. next.pc = "next"
  BY <1>1 DEF Free
<1>3. Leave(j) => jobs'[j] \in {next, Free}
  BY <1>1 DEF Leave, AlertsInv, AlertsTypeOK
<1> QED
  BY <1>2, <1>3, FreeType

\* No other step takes a delivery from composing to storing.
LEMMA ComposedBy ==
  ASSUME AlertsInv, AlertsNext, NEW j \in Jobs,
         jobs[j].pc = "compose", jobs'[j].pc = "store"
  PROVE  Compose(j)
<1>1. jobs = [i \in Jobs |-> jobs[i]]
  BY DEF AlertsInv, AlertsTypeOK
<1>2. jobs[j] # Free
  BY FreeType
<1>3. jobs' # jobs
  OBVIOUS
<1>4. ASSUME NEW i \in Jobs, i # j,
             \/ Tick(i) \/ NextUser(i) \/ ReadLists(i) \/ ReadTodays(i)
             \/ Compose(i) \/ Store(i) \/ Push(i)
             \/ PreviewOne(i) \/ PreviewEnds(i) \/ FailJob(i)
             \/ \E u \in Users, draft \in Friends \cup {Nobody} : SendNow(i, u, draft)
             \/ \E u \in Users : Preview(i, u)
      PROVE  jobs'[j] = jobs[j]
  BY <1>1, <1>4 DEF Tick, NextUser, ReadLists, ReadTodays, Compose, Store, Push,
        PreviewOne, PreviewEnds, FailJob, SendNow, Preview, Leave, Proceed
<1>5. ~FailJob(j)
  BY NotLeft DEF FailJob
<1>6. ~(Tick(j) \/ NextUser(j) \/ ReadLists(j) \/ ReadTodays(j) \/ Store(j)
        \/ Push(j) \/ PreviewOne(j) \/ PreviewEnds(j)
        \/ (\E u \in Users, draft \in Friends \cup {Nobody} : SendNow(j, u, draft))
        \/ \E u \in Users : Preview(j, u))
  BY <1>2 DEF Tick, NextUser, ReadLists, ReadTodays, Store, Push, PreviewOne,
              PreviewEnds, SendNow, Preview
<1>7. ~(Advance \/ (\E u \in OptedIn : Befriend(u))
        \/ (\E u \in Users, d \in Devices : Subscribe(u, d))
        \/ \E u \in Users, gone \in SUBSET Devices : Unsubscribe(u, gone))
  BY <1>3 DEF Advance, Befriend, Subscribe, Unsubscribe
<1> QED
  BY <1>4, <1>5, <1>6, <1>7 DEF AlertsNext

\* A friend whose alert of today was read comes up again only when everyone
\* with news had an alert today, whatever was sent since it was read.
THEOREM TurnsAreTaken == AlertsSpec => TurnsTaken
<1>1. AlertsInv /\ [AlertsNext]_alertsVars =>
        [\A j \in Jobs :
          /\ jobs[j].pc = "compose" /\ jobs'[j].pc = "store"
          /\ jobs[j].friend = Nobody /\ jobs'[j].friend \in jobs[j].todays
          => \A g \in Friends :
                HasNews(g, UsedTitles(jobs[j].user)) =>
                    \E i \in Todays(jobs[j].user) : alerts[i].friendId = g]_alertsVars
  <2> SUFFICES ASSUME AlertsInv, AlertsNext, NEW j \in Jobs,
                      jobs[j].pc = "compose", jobs'[j].pc = "store",
                      jobs[j].friend = Nobody, jobs'[j].friend \in jobs[j].todays,
                      NEW g \in Friends, HasNews(g, UsedTitles(jobs[j].user))
               PROVE  \E i \in Todays(jobs[j].user) : alerts[i].friendId = g
    OBVIOUS
  <2>1. Compose(j)
    BY ComposedBy
  <2>2. PICK job : job = jobs[j] /\ IsJob(job) /\ Relies(job)
    BY JobType
  <2>3. PICK f \in Friends :
            /\ Leads(f, job.todays, UsedTitles(job.user))
            /\ jobs' = [jobs EXCEPT ![j].pc = "store", ![j].friend = f]
    BY <2>1, <2>2, NotLeft DEF Compose
  <2>4. jobs'[j].friend = f
    BY <2>2, <2>3 DEF AlertsInv, AlertsTypeOK, IsJob
  <2>5. g \in job.todays
    BY <2>2, <2>3, <2>4 DEF Leads
  <2>6. job.todays \subseteq Pinged(Todays(job.user))
    BY <2>2 DEF Relies
  <2> QED
    BY <2>2, <2>5, <2>6 DEF Pinged
<1> QED
  BY <1>1, AlertsInvariance, PTL DEF AlertsSpec, TurnsTaken
=============================================================================
