---------------------------- MODULE Happenings ----------------------------
(***************************************************************************)
(* HappeningsService: what is going on at a school.  A request that finds  *)
(* no fresh list scrapes two feeds, adds the seeds kept by hand, lets K2   *)
(* judge the lot through PromptsService, and keeps the result; requests    *)
(* for the same school do so side by side.                                 *)
(***************************************************************************)
EXTENDS Prompts

CONSTANTS
    NewsFeeds,   \* what the news may hold: sequences of [cue, kind]
    RedditFeeds, \* what reddit may hold
    Tradition,   \* the day's tradition, a cue
    Food,        \* the day's food, a cue
    Game,        \* the noon of the game on the athletics calendar, in ticks
    DayTicks,    \* ticks of a day
    PerFeed,     \* items taken from a feed
    MaxItems,    \* items kept of all
    SchoolTtl,   \* how long a list is kept, in ticks
    Replies      \* what K2 may say: sequences of [i, kind, stashable, score]

\* A row K2 answers with, as far as curate makes numbers of what it says.
Rows == [i : Int, kind : STRING, stashable : BOOLEAN, score : Int]

\* The cues of seeds, of which a day has some.
SeedCues == {Tradition, Food} \cup {<<"game", days>> : days \in -2 .. 10}

\* The cache's keys begin with what is asked; feeds and replies are lists.
ASSUME HappeningsAssumptions ==
    /\ MaxItems >= 2 * PerFeed + 2 /\ MaxItems \in Nat /\ PerFeed \in Nat
    /\ Callers \cap Others = {}
    /\ \A key \in Keys \cup Range(Cards) : key[1] # "curate"
    /\ \A feed \in NewsFeeds \cup RedditFeeds : Len(feed) \in Nat
    /\ Tradition # Food /\ Tradition[1] # "game" /\ Food[1] # "game"
    /\ Replies \subseteq Seq(Rows) /\ Replies # {}

\* No headline reads like a seed: it would stand in for it.
ASSUME HeadlinesAreNoSeeds ==
    \A feed \in NewsFeeds \cup RedditFeeds :
        \A i \in 1 .. Len(feed) : feed[i].cue \notin SeedCues

VARIABLES
    school,  \* the school's list: None or [at, items]
    loads    \* the requests that build one

hvars == <<vars, school, loads>>

AlertKinds == {"athletics", "tradition", "food", "event", "news"}
RuleScore == 5

Item(cue, kind, seed) ==
    [cue |-> cue, kind |-> kind, seed |-> seed, score |-> RuleScore,
     by |-> "rules"]

\* parseRss, fetchReddit: the first items the rules find stashable.
Scraped(feed) == [i \in 1 .. Min({PerFeed, Len(feed)}) |->
                     Item(feed[i].cue, feed[i].kind, FALSE)]

\* daysUntil: whole days to the game's noon, rounded down, if it is near.
DaysUntil(t) == LET days == (Game - t) \div DayTicks
                IN  IF days \in -2 .. 10 THEN days ELSE None

\* seedHappenings: the athletics calendar, a tradition and a food.
Seeds(t) ==
    (IF DaysUntil(t) = None THEN <<>>
     ELSE <<Item(<<"game", DaysUntil(t)>>, "athletics", TRUE)>>)
    \o <<Item(Tradition, "tradition", TRUE), Item(Food, "food", TRUE)>>

\* Array.prototype.sort, by score and the best first: what scores alike keeps
\* its order.
Ahead(S, score, i) == {k \in S : \/ score[k] > score[i]
                                 \/ score[k] = score[i] /\ k < i}

Ranked(S, score) ==
    [n \in 1 .. Cardinality(S) |->
        CHOOSE i \in S : Cardinality(Ahead(S, score, i)) = n - 1]

\* dedupe: the first item of each cue.
Dedupe(items) ==
    LET firsts == {i \in DOMAIN items : \A k \in 1 .. i - 1 : items[k].cue # items[i].cue}
        order == Ranked(firsts, [i \in firsts |-> 0])
    IN  [n \in DOMAIN order |-> items[order[n]]]

Merged(news, reddit) ==
    LET all == Dedupe(Scraped(news) \o Scraped(reddit) \o Seeds(clock))
    IN  SubSeq(all, 1, Min({MaxItems, Len(all)}))

CurateKey(items) == <<"curate", [i \in DOMAIN items |-> items[i].cue]>>

\* Mutant of RowsFor: indices are counted from one.
RowsFromOne(reply, k) == {r \in DOMAIN reply : reply[r].i = k}

\* The rows that are about the item in place k; rows count from zero.
RowsFor(reply, k) == {r \in DOMAIN reply : reply[r].i = k - 1}

\* What curate makes of K2's rows: one verdict an item, the first, with a
\* kind that is known and a score within bounds.
Verdicts(reply, n) ==
    [k \in {k \in 1 .. n : RowsFor(reply, k) # {}} |->
        [reply[Min(RowsFor(reply, k))] EXCEPT
            !.kind = IF @ \in AlertKinds THEN @ ELSE "news",
            !.score = Max({0, Min({10, @})})]]

\* Fewer than half of the items judged: the rules stand.
Enough(verdicts, n) == 2 * Cardinality(DOMAIN verdicts) >= n

\* Mutant of Judged: what is not stashable is dropped, by hand or not.
JudgedAlike(items, verdicts) ==
    LET kept == {i \in DOMAIN items : i \notin DOMAIN verdicts \/ verdicts[i].stashable}
        order == Ranked(kept, [i \in kept |-> 0])
    IN  [n \in DOMAIN order |-> items[order[n]]]

\* HappeningsService.curate: scraped items K2 finds unfit are dropped and the
\* others take its kind; seeds are only scored; the best come first.
Judged(items, verdicts) ==
    LET kept == {i \in DOMAIN items : \/ i \notin DOMAIN verdicts
                                     \/ items[i].seed \/ verdicts[i].stashable}
        scored == [i \in kept |->
            IF i \notin DOMAIN verdicts THEN items[i]
            ELSE [items[i] EXCEPT
                     !.kind = IF items[i].seed THEN @ ELSE verdicts[i].kind,
                     !.score = verdicts[i].score, !.by = "ifm"]]
        order == Ranked(kept, [i \in kept |-> scored[i].score])
    IN  [n \in DOMAIN order |-> scored[order[n]]]

-----------------------------------------------------------------------------

SchoolFresh == school # None /\ clock - school.at < SchoolTtl

Kept(l, items) ==
    /\ school' = [at |-> clock, items |-> items]
    /\ loads' = [loads EXCEPT ![l] = None]

\* happeningsForSchool, when the list is old or missing
LoadSchool(l) ==
    /\ loads[l] = None /\ ~SchoolFresh /\ asks[l] = Idle
    /\ Cardinality(Busy \cup {o \in Others : loads[o] # None}) < MaxAsks
    /\ loads' = [loads EXCEPT ![l] = <<>>]
    /\ UNCHANGED <<vars, school>>

\* Both feeds are in, or failed and are empty; K2 is asked to judge, unless
\* its verdicts on these very cues are in the cache.
FeedsIn(l) ==
    /\ loads[l] = <<>> /\ asks[l] = Idle
    /\ \E news \in NewsFeeds \cup {<<>>}, reddit \in RedditFeeds \cup {<<>>} :
          LET items == Merged(news, reddit)
              key == CurateKey(items)
          IN  IF Hit(key)
              THEN /\ Kept(l, Judged(items, CachedValue(key)))
                   /\ UNCHANGED <<cache, asks>>
              ELSE /\ loads' = [loads EXCEPT ![l] = items]
                   /\ Forget(key) /\ StartAsk(l, key)
                   /\ UNCHANGED school
    /\ UNCHANGED <<clock, gateway, strict, models, shelf>>

\* K2's verdicts are remembered if there are enough, and the list is kept.
Curated(l) ==
    LET items == loads[l] IN
    /\ asks[l].pc \in {"usable", "failed"}
    /\ \/ /\ asks[l].pc = "failed"
          /\ Kept(l, items) /\ UNCHANGED cache
       \/ /\ asks[l].pc = "usable"
          /\ \E reply \in Replies :
                LET verdicts == Verdicts(reply, Len(items)) IN
                IF Enough(verdicts, Len(items))
                THEN /\ cache' = Remembered(asks[l].key, verdicts)
                     /\ Kept(l, Judged(items, verdicts))
                ELSE Kept(l, items) /\ UNCHANGED cache
    /\ asks' = [asks EXCEPT ![l] = Idle]
    /\ UNCHANGED <<clock, gateway, strict, models, shelf>>

HappeningsInit == Init /\ school = None /\ loads = [l \in Others |-> None]

HappeningsNext ==
    \/ PromptsNext /\ UNCHANGED <<school, loads>>
    \/ \E l \in Others : LoadSchool(l) \/ FeedsIn(l) \/ Curated(l)

HappeningsSpec == HappeningsInit /\ [][HappeningsNext]_hvars

-----------------------------------------------------------------------------
(* Properties                                                              *)

\* The seeds of some day, with the kind they were given by hand.
SeedOf(item) == \E t \in 0 .. clock :
    \E i \in DOMAIN Seeds(t) : /\ Seeds(t)[i].cue = item.cue
                               /\ Seeds(t)[i].kind = item.kind

\* "Seeds are already curated by hand, so they only get re-scored": with both
\* feeds full, and whatever K2 says of them, two seeds at least stay on the
\* list, and every seed there is of the kind it was given.  The game comes
\* first: with it, the food may be cut.
SeedsOnlyScored ==
    school # None =>
        /\ Cardinality({i \in DOMAIN school.items : school.items[i].seed}) >= 2
        /\ \A i \in DOMAIN school.items :
              school.items[i].seed => SeedOf(school.items[i])

\* What the request was to keep a list of.
Given(l) ==
    IF loads[l] # <<>> THEN {loads[l]}
    ELSE {Merged(news, reddit) : news \in NewsFeeds \cup {<<>>},
                                 reddit \in RedditFeeds \cup {<<>>}}

\* No item gets the verdict of another: what K2 judged of a list that is kept,
\* now or when the verdicts were cached, it said of the item in that place, and
\* a scraped item it found unfit is not on the list.
VerdictsOwn ==
    [][school' # school =>
          \E l \in Others :
              /\ loads' = [loads EXCEPT ![l] = None]
              /\ \E given \in Given(l), reply \in Replies :
                    \A k \in DOMAIN school'.items :
                        LET item == school'.items[k] IN
                        item.by = "ifm" =>
                            \E r \in DOMAIN reply :
                                /\ reply[r].i + 1 \in DOMAIN given
                                /\ given[reply[r].i + 1].cue = item.cue
                                /\ item.seed \/ reply[r].stashable
                                /\ item.score = Max({0, Min({10, reply[r].score})})]_hvars
=============================================================================
