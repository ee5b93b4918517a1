------------------------------ MODULE Prompts ------------------------------
(***************************************************************************)
(* PromptsService: the one conversation with K2 (ask), what it has learned *)
(* of the endpoint (the list of models, the refusal of the reasoning       *)
(* knob), the cache of what was composed, and the workers that share one   *)
(* cursor over the cards of a shelf.  The service is configured; copy is   *)
(* the key it was asked for, or the card's id.  Time is in ticks that may  *)
(* fall between any two steps.                                             *)
(***************************************************************************)
EXTENDS FiniteSets, Integers, Sequences, SequencesExt, TLC

CONSTANTS
    None,      \* null
    Callers,   \* compose requests under way at once
    Workers,   \* SHELF_CONCURRENCY workers of a shelf request
    Others,    \* further callers of ask
    Keys,      \* what compose is asked for: school, emotion, friend and cue
    Cards,     \* the contents of a shelf's cards, in order
    Wanted,    \* IFM_MODEL
    Aliases,   \* other models of the K2 family
    Serving,   \* the sets of models the endpoint may serve
    CacheMax,  \* entries of the cache
    CacheTtl,  \* CACHE_TTL_MS, in ticks
    ModelsTtl, \* MODELS_TTL_MS, in ticks
    MaxAsks,   \* bound: calls under way beside those of the shelf
    MaxTime    \* bound: the last tick

\* A card's index, where there may be none yet.
Slot == DOMAIN Cards \cup {None}

\* shelfCopy's cursor, the card each worker has, and the results.
ShelfRequest == [cursor : 1 .. Len(Cards) + 1, slots : [Workers -> Slot],
                 results : [DOMAIN Cards -> Slot]]

\* A worker asks for its shelf only; and null is no index and no shelf.
ASSUME PromptsAssumptions ==
    /\ Workers \cap (Callers \cup Others) = {}
    /\ Cards \in Seq({Cards[i] : i \in DOMAIN Cards})
    /\ None \notin DOMAIN Cards /\ None \notin ShelfRequest
    /\ CacheMax \in Nat \ {0}

VARIABLES
    clock,     \* now
    gateway,   \* the endpoint: [takesKnob, serves, lists]
    cache,     \* entries [key, at, value] in the order of insertion
    strict,    \* strictParams
    models,    \* the list of models: None or [at, ids]
    asks,      \* the call of ask each asker is in
    shelf      \* the shelf request: None or [cursor, slots, results]

vars == <<clock, gateway, cache, strict, models, asks, shelf>>

Askers == Callers \cup Workers \cup Others

Idle == [pc |-> "idle", key |-> None, model |-> None, knob |-> FALSE]

Goto(a, pc) ==
    asks' = [asks EXCEPT ![a] =
        [pc |-> pc, key |-> @.key, knob |-> FALSE,
         model |-> IF pc \in {"sent", "retry"} THEN @.model ELSE None]]

-----------------------------------------------------------------------------
(* The cache                                                               *)

Fresh(key) ==
    {i \in DOMAIN cache : cache[i].key = key /\ clock - cache[i].at < CacheTtl}

Hit(key) == Fresh(key) # {}

CachedValue(key) == cache[CHOOSE i \in Fresh(key) : TRUE].value

\* fromCache forgets what is too old.
Forget(key) ==
    LET old == {i \in DOMAIN cache :
                   cache[i].key = key /\ clock - cache[i].at >= CacheTtl}
    IN  cache' = IF old = {} THEN cache
                 ELSE RemoveAt(cache, CHOOSE i \in old : TRUE)

\* Mutant of Remembered: the entry is added before room is made, for another.
RememberedFirst(key, value) ==
    IF \E i \in DOMAIN cache : cache[i].key = key THEN cache
    ELSE Append(IF Len(cache) > CacheMax THEN Tail(cache) ELSE cache,
                [key |-> key, at |-> clock, value |-> value])

\* remember: a full cache loses its oldest entry, even if one is overwritten;
\* an overwritten entry keeps its place.
Remembered(key, value) ==
    LET room == IF Len(cache) >= CacheMax THEN Tail(cache) ELSE cache
        entry == [key |-> key, at |-> clock, value |-> value]
    IN  IF \E i \in DOMAIN room : room[i].key = key
        THEN [i \in DOMAIN room |-> IF room[i].key = key THEN entry ELSE room[i]]
        ELSE Append(room, entry)

-----------------------------------------------------------------------------
(* ask                                                                     *)

\* pickModel: the wanted model if listed, else one of its family.
PickModel(ids) ==
    IF Wanted \in ids \/ ids \cap Aliases = {} THEN Wanted
    ELSE CHOOSE id \in ids \cap Aliases : TRUE

\* resolveModel: without a list, the wanted one.
Resolved(ids) == IF ids = None THEN Wanted ELSE PickModel(ids)

ModelsFresh == models # None /\ clock - models.at < ModelsTtl

\* A call's first step: nothing usable in the cache.
StartAsk(a, key) ==
    asks' = [asks EXCEPT ![a] =
        [pc |-> "models", key |-> key, model |-> None, knob |-> FALSE]]

\* The completion is sent, with the knob unless it is known to be refused.
Send(a, ids) ==
    asks' = [asks EXCEPT ![a] = [pc |-> "sent", key |-> @.key,
                                 model |-> Resolved(ids), knob |-> ~strict]]

\* A fresh list of models is used as it is; else the endpoint is asked.
Resolve(a) ==
    /\ asks[a].pc = "models"
    /\ IF ModelsFresh THEN Send(a, models.ids) ELSE Goto(a, "listing")
    /\ UNCHANGED <<clock, gateway, cache, strict, models, shelf>>

\* listModels: the answer, or null when it failed or is not offered.
ListModels(a) ==
    /\ asks[a].pc \in {"listing", "relisting"}
    /\ \E ids \in {gateway.lists, None} :
          /\ models' = [at |-> clock, ids |-> ids]
          /\ IF asks[a].pc = "listing" THEN Send(a, ids) ELSE Goto(a, "failed")
    /\ UNCHANGED <<clock, gateway, cache, strict, shelf>>

\* What the endpoint answers: it refuses an unknown field, then an unknown
\* model; it is down or busy at times.
Responses(model, knob) ==
    {"down"} \cup
    IF knob /\ ~gateway.takesKnob THEN {"400"}
    ELSE IF model \notin gateway.serves THEN {"400", "404"}
    ELSE {"ok"}

\* An answer is text; the last balanced block of it may or may not parse.
Parsed == {"usable", "failed"}

\* The completion is answered.  A 400 is tried again without the knob, unless
\* another call has learned of it meanwhile; a 400 or a 404 renews the list.
Answered(a) ==
    LET ask == asks[a] IN
    /\ ask.pc = "sent"
    /\ \E status \in Responses(ask.model, ask.knob) :
          \/ status = "ok" /\ \E result \in Parsed : Goto(a, result)
          \/ status = "down" /\ Goto(a, "failed")
          \/ status = "400" /\ ~strict /\ Goto(a, "retry")
          \/ status = "400" /\ strict /\ Goto(a, "relisting")
          \/ status = "404" /\ Goto(a, "relisting")
    /\ UNCHANGED <<clock, gateway, cache, strict, models, shelf>>

\* Mutant of Retried: the knob is dropped whatever the second try says.
RetriedAnyway(a) ==
    /\ asks[a].pc = "retry"
    /\ strict' = TRUE
    /\ \E status \in Responses(asks[a].model, FALSE) :
          \/ status = "ok" /\ \E result \in Parsed : Goto(a, result)
          \/ status # "ok" /\ Goto(a, "relisting")
    /\ UNCHANGED <<clock, gateway, cache, models, shelf>>

\* Mutant of Retried: tried again for as long as it is refused.
RetriedOnAndOn(a) ==
    /\ asks[a].pc = "retry"
    /\ \E status \in Responses(asks[a].model, FALSE) :
          \/ status = "ok" /\ \E result \in Parsed : Goto(a, result)
          \/ status # "ok" /\ Goto(a, "sent")
    /\ strict' = strict
    /\ UNCHANGED <<clock, gateway, cache, models, shelf>>

\* The second try: if it is answered, the knob is dropped from now on.  When
\* it is refused too the first refusal stands; a timeout ends the call.
Retried(a) ==
    /\ asks[a].pc = "retry"
    /\ \E status \in Responses(asks[a].model, FALSE) :
          \/ /\ status = "ok" /\ strict' = TRUE
             /\ \E result \in Parsed : Goto(a, result)
          \/ /\ status # "ok" /\ strict' = strict
             /\ Goto(a, "relisting")
          \/ /\ status = "down" /\ strict' = strict
             /\ Goto(a, "failed")
    /\ UNCHANGED <<clock, gateway, cache, models, shelf>>

-----------------------------------------------------------------------------
(* compose                                                                 *)

Busy == {a \in Callers \cup Others : asks[a].pc # "idle"}

\* What is in the cache is answered at once; else K2 is asked.
Compose(c, key) ==
    /\ asks[c] = Idle /\ Cardinality(Busy) < MaxAsks /\ ~Hit(key)
    /\ Forget(key) /\ StartAsk(c, key)
    /\ UNCHANGED <<clock, gateway, strict, models, shelf>>

\* The copy is remembered; a failure is answered by the template.
Composed(c) ==
    /\ asks[c].pc \in {"usable", "failed"}
    /\ cache' = IF asks[c].pc = "usable" THEN Remembered(asks[c].key, None)
                ELSE cache
    /\ asks' = [asks EXCEPT ![c] = Idle]
    /\ UNCHANGED <<clock, gateway, strict, models, shelf>>

-----------------------------------------------------------------------------
(* shelfCopy                                                               *)

ShelfAsked ==
    /\ shelf = None
    /\ shelf' = [cursor |-> 1, slots |-> [w \in Workers |-> None],
                 results |-> [i \in DOMAIN Cards |-> None]]
    /\ UNCHANGED <<clock, gateway, cache, strict, models, asks>>

\* Mutant of HitId: a card found in the cache keeps the id it was stored with.
HitIdStored(stored, i) == stored

\* The id of an answer from the cache: that of the card asked for.
HitId(stored, i) == i

\* A worker takes the next card; a hit is answered at once.
Take(w) ==
    LET i == shelf.cursor IN
    /\ shelf # None /\ shelf.slots[w] = None /\ i <= Len(Cards)
    /\ IF Hit(Cards[i])
       THEN /\ shelf' = [shelf EXCEPT !.cursor = i + 1,
                   !.results[i] = HitId(CachedValue(Cards[i]), i)]
            /\ UNCHANGED <<cache, asks>>
       ELSE /\ shelf' = [shelf EXCEPT !.cursor = i + 1, !.slots[w] = i]
            /\ Forget(Cards[i]) /\ StartAsk(w, Cards[i])
    /\ UNCHANGED <<clock, gateway, strict, models>>

\* rewriteShelfItem is done: rewritten and remembered if K2 gave a title and
\* a body, untouched otherwise.
CardDone(w) ==
    LET i == shelf.slots[w] IN
    /\ asks[w].pc \in {"usable", "failed"}
    /\ \/ asks[w].pc = "usable" /\ cache' = Remembered(Cards[i], i)
       \/ cache' = cache
    /\ shelf' = [shelf EXCEPT !.slots[w] = None, !.results[i] = i]
    /\ asks' = [asks EXCEPT ![w] = Idle]
    /\ UNCHANGED <<clock, gateway, strict, models>>

\* Every worker has found the cursor at the end.
ShelfAnswered ==
    /\ shelf # None /\ shelf.cursor > Len(Cards)
    /\ \A w \in Workers : shelf.slots[w] = None
    /\ shelf' = None
    /\ UNCHANGED <<clock, gateway, cache, strict, models, asks>>

\* GET /prompts/ifm renews the list; other callers are in the middle of it.
Diagnostics ==
    /\ \E ids \in {gateway.lists, None} : models' = [at |-> clock, ids |-> ids]
    /\ UNCHANGED <<clock, gateway, cache, strict, asks, shelf>>

Advance ==
    /\ clock < MaxTime /\ clock' = clock + 1
    /\ UNCHANGED <<gateway, cache, strict, models, asks, shelf>>

Init ==
    /\ clock = 0 /\ cache = <<>> /\ strict = FALSE /\ models = None
    /\ gateway \in [takesKnob : BOOLEAN, serves : Serving,
                    lists : {None} \cup Serving]
    /\ gateway.lists \in {None, gateway.serves}
    /\ asks = [a \in Askers |-> Idle] /\ shelf = None

AskStep(a) == Resolve(a) \/ ListModels(a) \/ Answered(a) \/ Retried(a)

ShelfStep(w) == AskStep(w) \/ Take(w) \/ CardDone(w)

PromptsNext ==
    \/ Advance \/ Diagnostics \/ ShelfAsked \/ ShelfAnswered
    \/ \E a \in Askers : AskStep(a)
    \/ \E c \in Callers : Composed(c) \/ \E key \in Keys : Compose(c, key)
    \/ \E w \in Workers : Take(w) \/ CardDone(w)

-----------------------------------------------------------------------------
(* Properties                                                              *)

\* However many calls end at once, the cache never holds more than CACHE_MAX
\* entries, and never two for one key.
CacheBounded ==
    /\ Len(cache) <= CacheMax
    /\ \A i, j \in DOMAIN cache : cache[i].key = cache[j].key => i = j

\* Workers never share a card, no card is skipped, and every answer stands in
\* its card's place under its card's id, even if two cards say the same.
ShelfInPlace ==
    shelf # None =>
        /\ \A w, x \in Workers :
              shelf.slots[w] # None /\ shelf.slots[w] = shelf.slots[x] => w = x
        /\ \A i \in DOMAIN Cards :
              IF \E w \in Workers : shelf.slots[w] = i THEN shelf.results[i] = None
              ELSE shelf.results[i] = IF i < shelf.cursor THEN i ELSE None

\* The knob is dropped only if it was what the endpoint refused: an unknown
\* model, refused with the same 400, or an outage never turns it off.
KnobDroppedRightly == strict => ~gateway.takesKnob

\* A shelf request is answered: no call is tried without end.
ShelfServed == shelf # None ~> shelf = None
=============================================================================
