------------------------------- MODULE Alerts -------------------------------
(***************************************************************************)
(* NotificationsService: the hourly tick over the people who opted in, the *)
(* sends and previews people ask for, and the push subscriptions.  A       *)
(* delivery reads the user's friends and groups, then today's alerts, then *)
(* composes copy for seconds, and stores: sends of the same person come in *)
(* between.  Time is counted in hours; a delivery ends in the hour it      *)
(* began in (its requests time out after seconds).                         *)
(***************************************************************************)
EXTENDS FiniteSets, Integers, Sequences, SequencesExt, TLC

CONSTANTS
    Users,     \* people with the app
    OptedIn,   \* those with stashAlertsEnabled
    Nobody,    \* null
    Friends,   \* friends at a school with a feed, of every user in OptedIn
    Feed,      \* each such friend's happenings, best first: [cue, kind]
    Titles,    \* titles compose() may come up with
    Kinds,     \* kinds of happenings
    Devices,   \* push endpoints
    Jobs,      \* deliveries and previews under way at once
    Social,    \* friends and groups of a user, at first and at last
    Hours,     \* bound: the last hour
    MaxSends,  \* bound: sends asked for
    PreviewHours \* bound: the hours previews are asked for in

\* null is no kind of job; and what is counted are numbers.
ASSUME AlertsAssumptions ==
    /\ OptedIn \subseteq Users
    /\ Nobody \notin {"tick", "send", "preview"}
    /\ Hours \in Nat /\ Social[1] \in Nat /\ Social[2] \in Nat

VARIABLES
    clock,     \* hours since midnight UTC of the first day
    social,    \* how many friends and groups each user has
    even,      \* whether the hash of a day's stamp is even
    alerts,    \* the stash alerts, in the order they were stored
    sends,     \* sends asked for so far
    ticked,    \* the last hour the cron fired in
    jobs,      \* what is under way
    devices    \* the user each endpoint is subscribed for

alertsVars == <<clock, social, even, alerts, sends, ticked, jobs, devices>>

Day(t) == t \div 24
Hour(t) == t % 24

-----------------------------------------------------------------------------
(* Pure rules                                                              *)

QuietHours == 4 .. 13       \* QUIET_HOURS_UTC
MinGap == 3                 \* MIN_GAP_MS, in hours
AwakeHours == 24 - Cardinality(QuietHours)

\* dailyAlertBudget
DailyAlertBudget(n, isEven) ==
    IF n <= 0 THEN 0 ELSE IF n <= 4 THEN 2 ELSE IF isEven THEN 3 ELSE 4

\* awakeHourIndex; the loop answers 0 for a quiet hour
AwakeHourIndex(h) ==
    IF h \in QuietHours THEN 0 ELSE Cardinality((0 .. h - 1) \ QuietHours)

\* The hours of a day the budget is spread over.
OnSlot(h, budget) == AwakeHourIndex(h) % (AwakeHours \div budget) = 0

\* Items whose cue is not among the cues used.
Fresh(items, used) == SelectSeq(items, LAMBDA item : item.cue \notin used)

\* pickHappening over any hash: one of the best three of some kind.
Picks(items, used) ==
    LET fresh == Fresh(items, used)
        OfKind(kind) == SelectSeq(fresh, LAMBDA item : item.kind = kind)
    IN  UNION {{OfKind(kind)[i] : i \in {j \in 1 .. 3 : j <= Len(OfKind(kind))}}
               : kind \in Kinds}

HasNews(f, used) == Picks(Feed[f], used) # {}

\* Mutant of Leads: whom today's alerts were about makes no difference.
LeadsAnyway(f, pinged, used) == HasNews(f, used)

\* rankFriends, and the first of them with something to say: friends not
\* pinged today first, in an order that changes from day to day.
Leads(f, pinged, used) ==
    /\ HasNews(f, used)
    /\ f \in pinged => \A g \in Friends \ pinged : ~HasNews(g, used)

-----------------------------------------------------------------------------
\* todays: the friends today's alerts were about, or those a preview tried.
\* shown: the preview so far.
Free == [pc |-> "idle", kind |-> Nobody, user |-> Nobody, left |-> {},
         budget |-> 0, todays |-> {}, shown |-> <<>>, friend |-> Nobody]

Todays(u) == {i \in DOMAIN alerts :
                 alerts[i].userId = u /\ alerts[i].day = Day(clock)}

Pinged(indices) == {alerts[i].friendId : i \in indices}

\* What the last week's alerts are filed under, to be compared with cues.
UsedTitles(u) == {alerts[i].title :
                     i \in {j \in DOMAIN alerts : alerts[j].userId = u}}

Budget(u) == DailyAlertBudget(social[u], even[Day(clock)])

Proceed(j, pc) == jobs' = [jobs EXCEPT ![j].pc = pc]

\* A delivery that comes to nothing, or is done: the tick goes on to the next.
Leave(j) ==
    jobs' = [jobs EXCEPT ![j] =
        IF @.kind = "tick" /\ @.left # {}
        THEN [Free EXCEPT !.pc = "next", !.kind = "tick", !.left = jobs[j].left]
        ELSE Free]

\* Every hour.
Tick(j) ==
    /\ jobs[j] = Free /\ ticked < clock /\ OptedIn # {}
    /\ \A i \in Jobs : jobs[i].kind # "tick"
    /\ ticked' = clock
    /\ jobs' = [jobs EXCEPT ![j] =
          [Free EXCEPT !.pc = "next", !.kind = "tick", !.left = OptedIn]]
    /\ UNCHANGED <<clock, social, even, alerts, sends, devices>>

\* The tick turns to u; nobody is woken in the quiet hours.
TurnedTo(u, job) ==
    IF Hour(clock) \notin QuietHours
    THEN [job EXCEPT !.left = @ \ {u}, !.user = u, !.pc = "lists"]
    ELSE IF job.left = {u} THEN Free
    ELSE [job EXCEPT !.left = @ \ {u}]

\* The tick's next user.
NextUser(j) ==
    /\ jobs[j].pc = "next"
    /\ \E u \in jobs[j].left : jobs' = [jobs EXCEPT ![j] = TurnedTo(u, @)]
    /\ UNCHANGED <<clock, social, even, alerts, sends, ticked, devices>>

\* POST /alerts/send-now, with the draft of a preview or without
SendNow(j, u, draft) ==
    /\ jobs[j] = Free /\ sends < MaxSends
    /\ sends' = sends + 1
    /\ jobs' = [jobs EXCEPT ![j] =
          [Free EXCEPT !.pc = "lists", !.kind = "send", !.user = u,
                       !.friend = draft]]
    /\ UNCHANGED <<clock, social, even, alerts, ticked, devices>>

\* The lists of friends and groups: the day's budget.
ReadLists(j) ==
    LET budget == Budget(jobs[j].user) IN
    /\ jobs[j].pc = "lists"
    /\ IF budget = 0 THEN Leave(j)
       ELSE jobs' = [jobs EXCEPT ![j].pc = "todays", ![j].budget = budget]
    /\ UNCHANGED <<clock, social, even, alerts, sends, ticked, devices>>

\* Whether today's alerts, hence the last of them, are three hours old.  Both
\* times fell within their hours: three may be a little more or less.
GapOver(todays) == \A i \in todays : clock - alerts[i].at >= MinGap

\* Mutant of Due: one more than the ceiling.
DueOnceMore(todays, budget) ==
    /\ Cardinality(todays) <= budget
    /\ GapOver(todays)
    /\ OnSlot(Hour(clock), budget)

\* Mutant of Due: no gap is kept.
DueWithoutGap(todays, budget) ==
    /\ Cardinality(todays) < budget
    /\ OnSlot(Hour(clock), budget)

\* A scheduled alert is due: room under the ceiling, the gap, the slot.
Due(todays, budget) ==
    /\ Cardinality(todays) < budget
    /\ GapOver(todays)
    /\ OnSlot(Hour(clock), budget)

\* Today's alerts are read; a scheduled delivery may end here, if only
\* because its hour is a little short of three hours after the last.
ReadTodays(j) ==
    LET job == jobs[j]
        todays == Todays(job.user)
    IN  /\ job.pc = "todays"
        /\ \/ /\ job.kind = "tick" => Due(todays, job.budget)
              /\ jobs' = [jobs EXCEPT ![j].pc = "compose",
                                      ![j].todays = Pinged(todays)]
           \/ /\ job.kind = "tick"
              /\ \/ ~Due(todays, job.budget)
                 \/ \E i \in todays : clock - alerts[i].at = MinGap
              /\ Leave(j)
        /\ UNCHANGED <<clock, social, even, alerts, sends, ticked, devices>>

\* The happenings of the first friend with news become copy; without any
\* the answer is 'no-cues'.  A draft's friend needs none.
Compose(j) ==
    LET job == jobs[j]
        used == UsedTitles(job.user)
    IN  /\ job.pc = "compose"
        /\ \/ job.friend # Nobody /\ Proceed(j, "store")
           \/ /\ job.friend = Nobody
              /\ \E f \in Friends :
                    /\ Leads(f, job.todays, used)
                    /\ jobs' = [jobs EXCEPT ![j].pc = "store",
                                            ![j].friend = f]
           \/ /\ job.friend = Nobody
              /\ \A f \in Friends : ~HasNews(f, used)
              /\ Leave(j)
        /\ UNCHANGED <<clock, social, even, alerts, sends, ticked, devices>>

\* alertModel.create
Store(j) ==
    LET job == jobs[j] IN
    /\ job.pc = "store"
    /\ \E title \in Titles :
          alerts' = Append(alerts,
              [userId |-> job.user, day |-> Day(clock), at |-> clock,
               title |-> title, friendId |-> job.friend,
               scheduled |-> job.kind = "tick"])
    /\ jobs' = [jobs EXCEPT ![j] =
          [Free EXCEPT !.pc = "push", !.kind = job.kind, !.user = job.user,
                       !.left = job.left]]
    /\ UNCHANGED <<clock, social, even, sends, ticked, devices>>

DevicesOf(u) == {d \in Devices : devices[d] = u}

\* push: each of the user's devices gets the alert, or does not, or is gone
\* and forgotten.
Push(j) ==
    /\ jobs[j].pc = "push"
    /\ \E gone \in SUBSET DevicesOf(jobs[j].user) :
          devices' = [d \in Devices |-> IF d \in gone THEN Nobody ELSE devices[d]]
    /\ Leave(j)
    /\ UNCHANGED <<clock, social, even, alerts, sends, ticked>>

-----------------------------------------------------------------------------
(* Previews, subscriptions, the world                                      *)

\* POST /alerts/preview: composed like alerts, nothing stored.
Preview(j, u) ==
    /\ jobs[j] = Free /\ Hour(clock) \in PreviewHours
    /\ jobs' = [jobs EXCEPT ![j] =
          [Free EXCEPT !.pc = "preview", !.kind = "preview", !.user = u,
                       !.budget = Budget(u)]]
    /\ UNCHANGED <<clock, social, even, alerts, sends, ticked, devices>>

PreviewUsed(shown) == {shown[i].cue : i \in DOMAIN shown}

\* One more alert of the preview, about a friend it had not tried, or else
\* about any.  todays: the friends it tried.
PreviewOne(j) ==
    LET job == jobs[j]
        Picked(f) == Picks(Feed[f], PreviewUsed(job.shown))
    IN  /\ job.pc = "preview" /\ Len(job.shown) < job.budget
        /\ \E f \in Friends :
              /\ f \in job.todays => Friends \subseteq job.todays
              /\ \/ \E item \in Picked(f) :
                       jobs' = [jobs EXCEPT
                           ![j].shown = Append(@, [friend |-> f, cue |-> item.cue]),
                           ![j].todays = @ \cup {f}]
                 \/ /\ Picked(f) = {}
                    /\ jobs' = [jobs EXCEPT ![j].todays = @ \cup {f},
                           ![j].pc = IF Friends \subseteq job.todays \cup {f}
                                     THEN "shown" ELSE @]
        /\ UNCHANGED <<clock, social, even, alerts, sends, ticked, devices>>

\* The preview is answered.
PreviewEnds(j) ==
    /\ \/ jobs[j].pc = "shown"
       \/ jobs[j].pc = "preview"
            /\ (Len(jobs[j].shown) = jobs[j].budget \/ Friends = {})
    /\ jobs' = [jobs EXCEPT ![j] = Free]
    /\ UNCHANGED <<clock, social, even, alerts, sends, ticked, devices>>

\* saveSubscription: by endpoint, whoever had it before.
Subscribe(u, d) ==
    /\ devices[d] # u
    /\ devices' = [devices EXCEPT ![d] = u]
    /\ UNCHANGED <<clock, social, even, alerts, sends, ticked, jobs>>

\* removeSubscription: this device, or all of the user's.
Unsubscribe(u, gone) ==
    /\ gone # {} /\ gone \subseteq DevicesOf(u)
    /\ devices' = [d \in Devices |-> IF d \in gone THEN Nobody ELSE devices[d]]
    /\ UNCHANGED <<clock, social, even, alerts, sends, ticked, jobs>>

\* A friend accepts, or a group is joined.
Befriend(u) ==
    /\ social[u] < Social[2]
    /\ social' = [social EXCEPT ![u] = @ + 1]
    /\ UNCHANGED <<clock, even, alerts, sends, ticked, jobs, devices>>

Advance ==
    /\ clock < Hours /\ \A j \in Jobs : jobs[j] = Free
    /\ clock' = clock + 1
    /\ UNCHANGED <<social, even, alerts, sends, ticked, jobs, devices>>

\* A call that throws, or a restart of the process.
FailJob(j) ==
    /\ jobs[j] # Free
    /\ Leave(j)
    /\ UNCHANGED <<clock, social, even, alerts, sends, ticked, devices>>

AlertsInit ==
    /\ clock = 0 /\ ticked = -1 /\ sends = 0
    /\ social = [u \in Users |-> IF u \in OptedIn THEN Social[1] ELSE 0]
    /\ even \in [0 .. Day(Hours) -> BOOLEAN]
    /\ alerts = <<>>
    /\ jobs = [j \in Jobs |-> Free]
    /\ devices = [d \in Devices |-> Nobody]

AlertsNext ==
    \/ Advance
    \/ \E u \in OptedIn : Befriend(u)
    \/ \E u \in Users, d \in Devices : Subscribe(u, d)
    \/ \E u \in Users, gone \in SUBSET Devices : Unsubscribe(u, gone)
    \/ \E j \in Jobs :
          \/ Tick(j) \/ NextUser(j) \/ ReadLists(j) \/ ReadTodays(j)
          \/ Compose(j) \/ Store(j) \/ Push(j)
          \/ PreviewOne(j) \/ PreviewEnds(j) \/ FailJob(j)
          \/ \E u \in Users, draft \in Friends \cup {Nobody} : SendNow(j, u, draft)
          \/ \E u \in Users : Preview(j, u)

AlertsSpec == AlertsInit /\ [][AlertsNext]_alertsVars

-----------------------------------------------------------------------------
(* Properties                                                              *)

Scheduled(u, day) ==
    {i \in DOMAIN alerts : /\ alerts[i].userId = u /\ alerts[i].day = day
                           /\ alerts[i].scheduled}

\* "Hard daily ceiling on device alerts": what the cron sends in a day never
\* exceeds the day's budget, whatever was sent by hand in between and however
\* the budget grew with a friend.
CeilingKept ==
    \A u \in OptedIn, day \in 0 .. Day(Hours) :
        Cardinality(Scheduled(u, day)) <=
            DailyAlertBudget(social[u], even[day])

\* No scheduled alert comes within three hours of another of that day, but for
\* a send the user asked for while it was composed; although slots move when
\* the budget grows.
SpacedOut ==
    \A k, i \in DOMAIN alerts :
        /\ k < i /\ alerts[i].scheduled
        /\ alerts[k].userId = alerts[i].userId /\ alerts[k].day = alerts[i].day
        => \/ alerts[i].at - alerts[k].at >= MinGap
           \/ ~alerts[k].scheduled /\ alerts[k].at = alerts[i].at

\* Nobody is stashed for twice in a day before everyone with news was, unless
\* both alerts were composed at once: a friend whose alert a job had read of
\* comes after all others.
TurnsTaken ==
    [][\A j \in Jobs :
          /\ jobs[j].pc = "compose" /\ jobs'[j].pc = "store"
          /\ jobs[j].friend = Nobody /\ jobs'[j].friend \in jobs[j].todays
          => \A g \in Friends :
                HasNews(g, UsedTitles(jobs[j].user)) =>
                    \E i \in Todays(jobs[j].user) : alerts[i].friendId = g]_alertsVars

\* "Spread the remaining budget across the awake window so alerts don't
\* cluster" (notifications.service.ts:277): scheduled alerts of one person are
\* three hours apart.
NeverClustered ==
    \A k, i \in DOMAIN alerts :
        /\ k < i /\ alerts[i].scheduled /\ alerts[k].scheduled
        /\ alerts[k].userId = alerts[i].userId
        => alerts[i].at - alerts[k].at >= MinGap
=============================================================================
