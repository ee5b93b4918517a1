--------------------------- MODULE PromptsProofs ---------------------------
(***************************************************************************)
(* The cache, the reasoning knob and the shelf's workers for any number of *)
(* requests, cards, keys and models, with the lists of schools that are    *)
(* judged meanwhile; and the last balanced block of a text of any length.  *)
(***************************************************************************)
EXTENDS Happenings, Braces, FunctionTheorems, FiniteSetTheorems,
        SequenceTheorems, WellFoundedInduction, TLAPS

-----------------------------------------------------------------------------
(* The inductive invariant                                                 *)

\* A call of ask, whatever it asks.
IsAsk(ask) == ask = [pc |-> ask.pc, key |-> ask.key,
                     model |-> ask.model, knob |-> ask.knob]

PromptsTypeOK ==
    /\ cache \in Seq({cache[i] : i \in DOMAIN cache})
    /\ asks = [a \in Askers |-> asks[a]]
    /\ \A a \in Askers : IsAsk(asks[a])
    /\ shelf # None => shelf \in ShelfRequest

\* What was refused with the knob, and is served here, was refused for it.
Refused(ask) ==
    ask.pc = "retry" /\ ask.model \in gateway.serves => ~gateway.takesKnob

KnobInv == KnobDroppedRightly /\ \A a \in Askers : Refused(asks[a])

\* A worker asks only for the card it has taken.
Working(w) == asks[w].pc # "idle" => shelf # None /\ shelf.slots[w] # None

ShelfInv ==
    /\ ShelfInPlace
    /\ shelf # None => \A w \in Workers :
           shelf.slots[w] # None => shelf.slots[w] < shelf.cursor
    /\ \A w \in Workers : Working(w)

PromptsInv == PromptsTypeOK /\ CacheBounded /\ KnobInv /\ ShelfInv

-----------------------------------------------------------------------------
(* The cache                                                               *)

\* What may stand in for the cache: no more entries than there is room for,
\* and one for each key.
IsCache(c) ==
    /\ c \in Seq({c[i] : i \in DOMAIN c})
    /\ Len(c) <= CacheMax
    /\ \A i, j \in DOMAIN c : c[i].key = c[j].key => i = j

LEMMA CacheTypeBounded ==
  PromptsInv => IsCache(cache)
  BY DEF PromptsInv, PromptsTypeOK, CacheBounded, IsCache

\* Nothing is in d that was not in c.
Within(d, c) == \A i \in DOMAIN d : \E j \in DOMAIN c : d[i] = c[j]

\* A cache without one of its entries is one.
LEMMA WithoutIsCache ==
  ASSUME NEW c, IsCache(c), NEW k \in DOMAIN c
  PROVE  /\ IsCache(RemoveAt(c, k)) /\ Len(RemoveAt(c, k)) = Len(c) - 1
         /\ Within(RemoveAt(c, k), c)
<1> DEFINE S == {c[i] : i \in DOMAIN c}
           head == SubSeq(c, 1, k - 1)
           tail == SubSeq(c, k + 1, Len(c))
           out == RemoveAt(c, k)
<1>1. /\ Len(c) \in Nat /\ DOMAIN c = 1 .. Len(c) /\ k \in 1 .. Len(c)
      /\ \A i \in 1 .. Len(c) : c[i] \in S
      /\ \A i, j \in 1 .. Len(c) : c[i].key = c[j].key => i = j
  BY DEF IsCache
<1>2. /\ head \in Seq(S) /\ Len(head) = k - 1
      /\ \A i \in 1 .. k - 1 : head[i] = c[i]
  <2> HIDE DEF S
  <2> QED
    BY <1>1, SubSeqProperties
<1>3. /\ tail \in Seq(S) /\ Len(tail) = Len(c) - k
      /\ \A i \in 1 .. Len(c) - k : tail[i] = c[i + k]
  <2> HIDE DEF S
  <2> QED
    BY <1>1, SubSeqProperties
<1>4. /\ out \in Seq(S) /\ Len(out) = Len(c) - 1
      /\ \A i \in 1 .. Len(out) : out[i] = IF i < k THEN c[i] ELSE c[i + 1]
  <2> HIDE DEF S, head, tail
  <2>1. out = head \o tail
    BY DEF out, head, tail, RemoveAt
  <2>2. /\ head \o tail \in Seq(S) /\ Len(head \o tail) = Len(head) + Len(tail)
        /\ \A i \in 1 .. Len(head) + Len(tail) : (head \o tail)[i] =
               IF i <= Len(head) THEN head[i] ELSE tail[i - Len(head)]
    BY <1>2, <1>3, ConcatProperties
  <2> QED
    <3>1. out \in Seq(S) /\ Len(out) = Len(c) - 1
      BY <1>1, <1>2, <1>3, <2>1, <2>2
    <3>2. ASSUME NEW i \in 1 .. Len(out)
          PROVE  out[i] = IF i < k THEN c[i] ELSE c[i + 1]
      <4>1. i \in 1 .. Len(head) + Len(tail)
        BY <1>1, <1>2, <1>3, <3>1
      <4>2. out[i] = IF i <= k - 1 THEN head[i] ELSE tail[i - (k - 1)]
        BY <1>2, <2>1, <2>2, <4>1
      <4>3. CASE i < k
        BY <1>1, <1>2, <4>1, <4>2, <4>3
      <4>4. CASE ~(i < k)
        <5>1. i - (k - 1) \in 1 .. Len(c) - k /\ i - (k - 1) + k = i + 1
          <6>1. PICK n : n = Len(c)
            OBVIOUS
          <6>2. n \in Nat /\ k \in 1 .. n /\ i \in 1 .. n - 1 /\ ~(i < k)
            BY <1>1, <3>1, <4>4, <6>1
          <6>3. i - (k - 1) \in 1 .. n - k /\ i - (k - 1) + k = i + 1
            BY <6>2
          <6> QED
            BY <6>1, <6>3
        <5>2. tail[i - (k - 1)] = c[i + 1]
          BY <1>3, <5>1
        <5> QED
          BY <1>1, <4>1, <4>2, <4>4, <5>2
      <4> QED
        BY <4>3, <4>4
    <3> QED
      BY <3>1, <3>2
<1> HIDE DEF S, head, tail, out
<1>5. DOMAIN out = 1 .. Len(out) /\ Len(out) \in Nat
  BY <1>4
<1>6. out \in Seq({out[i] : i \in DOMAIN out})
  BY <1>5, <1>4
<1>7. \A i, j \in DOMAIN out : out[i].key = out[j].key => i = j
  BY <1>1, <1>4, <1>5
<1>8. ASSUME NEW i \in DOMAIN out PROVE \E j \in DOMAIN c : out[i] = c[j]
  <2>1. CASE i < k
    <3>1. i \in DOMAIN c /\ out[i] = c[i]
      BY <1>1, <1>4, <1>5, <2>1
    <3> QED
      BY <3>1
  <2>2. CASE ~(i < k)
    <3>1. i + 1 \in DOMAIN c /\ out[i] = c[i + 1]
      BY <1>1, <1>4, <1>5, <2>2
    <3> QED
      BY <3>1
  <2> QED
    BY <2>1, <2>2
<1>9. Within(out, c)
  BY <1>8 DEF Within
<1>10. Len(out) <= CacheMax
  <2>1. Len(c) <= CacheMax
    BY DEF IsCache
  <2> QED
    BY <1>1, <1>4, <2>1, PromptsAssumptions
<1>11. IsCache(out)
  BY <1>6, <1>7, <1>10 DEF IsCache
<1> QED
  BY <1>4, <1>9, <1>11 DEF out

LEMMA TailIsCache ==
  ASSUME NEW c, IsCache(c), Len(c) > 0
  PROVE  IsCache(Tail(c)) /\ Len(Tail(c)) = Len(c) - 1 /\ Within(Tail(c), c)
<1> DEFINE S == {c[i] : i \in DOMAIN c}
           out == Tail(c)
<1>1. /\ Len(c) \in Nat /\ DOMAIN c = 1 .. Len(c) /\ c # <<>> /\ c \in Seq(S)
      /\ \A i, j \in 1 .. Len(c) : c[i].key = c[j].key => i = j
  BY DEF IsCache
<1>2. /\ out \in Seq(S) /\ Len(out) = Len(c) - 1
      /\ \A i \in 1 .. Len(out) : out[i] = c[i + 1]
  <2> HIDE DEF S
  <2> QED
    BY <1>1, HeadTailProperties
<1> HIDE DEF S, out
<1>3. DOMAIN out = 1 .. Len(out) /\ Len(out) \in Nat
  BY <1>2
<1>4. out \in Seq({out[i] : i \in DOMAIN out})
  BY <1>2, <1>3
<1>5. \A i, j \in DOMAIN out : out[i].key = out[j].key => i = j
  BY <1>1, <1>2, <1>3
<1>6. Within(out, c)
  <2>1. ASSUME NEW i \in 1 .. Len(out) PROVE i + 1 \in DOMAIN c /\ out[i] = c[i + 1]
    BY <1>1, <1>2
  <2> QED
    BY <1>3, <2>1 DEF Within
<1>7. Len(out) <= CacheMax
  <2>1. Len(c) <= CacheMax
    BY DEF IsCache
  <2> QED
    BY <1>1, <1>2, <2>1, PromptsAssumptions
<1>8. IsCache(out)
  BY <1>4, <1>5, <1>7 DEF IsCache
<1> QED
  BY <1>2, <1>6, <1>8 DEF out

\* A value is remembered within bounds, in place of an older one for its key.
LEMMA RememberedIsCache ==
  ASSUME IsCache(cache), NEW key, NEW value
  PROVE  /\ IsCache(Remembered(key, value))
         /\ \A i \in DOMAIN Remembered(key, value) :
                \/ Remembered(key, value)[i] = [key |-> key, at |-> clock, value |-> value]
                \/ \E j \in DOMAIN cache : Remembered(key, value)[i] = cache[j]
<1> DEFINE room == IF Len(cache) >= CacheMax THEN Tail(cache) ELSE cache
           entry == [key |-> key, at |-> clock, value |-> value]
<1>1. Len(cache) \in Nat
  BY DEF IsCache
<1>2. IsCache(room) /\ Len(room) < CacheMax /\ Within(room, cache)
  <2>1. CASE Len(cache) >= CacheMax
    <3>1. Len(cache) > 0 /\ Len(cache) <= CacheMax
      BY <1>1, <2>1, PromptsAssumptions DEF IsCache
    <3>2. /\ IsCache(Tail(cache)) /\ Len(Tail(cache)) = Len(cache) - 1
          /\ Within(Tail(cache), cache)
      BY <3>1, TailIsCache
    <3> QED
      BY <1>1, <2>1, <3>1, <3>2, PromptsAssumptions
  <2>2. CASE ~(Len(cache) >= CacheMax)
    BY <1>1, <2>2, PromptsAssumptions DEF Within
  <2> QED
    BY <2>1, <2>2
<1> HIDE DEF room
<1>3. /\ Len(room) \in Nat /\ DOMAIN room = 1 .. Len(room)
      /\ entry.key = key
  BY <1>2 DEF IsCache
<1> HIDE DEF entry
<1>4. ASSUME \E i \in DOMAIN room : room[i].key = key,
             NEW out, out = [i \in DOMAIN room |->
                                IF room[i].key = key THEN entry ELSE room[i]]
      PROVE  /\ IsCache(out)
             /\ \A i \in DOMAIN out : out[i] = entry \/ \E j \in DOMAIN cache : out[i] = cache[j]
  <2>1. DOMAIN out = 1 .. Len(room) /\ Len(out) = Len(room)
    BY <1>3, <1>4
  <2>2. \A i \in DOMAIN out : out[i].key = room[i].key
    BY <1>3, <1>4, <2>1
  <2>3. out \in Seq({out[i] : i \in DOMAIN out})
    BY <1>3, <1>4, <2>1
  <2>4. \A i \in DOMAIN out : out[i] = entry \/ \E j \in DOMAIN cache : out[i] = cache[j]
    BY <1>2, <1>4 DEF Within
  <2> QED
    BY <1>2, <1>3, <2>1, <2>2, <2>3, <2>4, PromptsAssumptions DEF IsCache
<1>5. ASSUME ~\E i \in DOMAIN room : room[i].key = key,
             NEW out, out = Append(room, entry)
      PROVE  /\ IsCache(out)
             /\ \A i \in DOMAIN out : out[i] = entry \/ \E j \in DOMAIN cache : out[i] = cache[j]
  <2>1. PICK S : S = {room[i] : i \in DOMAIN room} \cup {entry}
    OBVIOUS
  <2>2. room \in Seq(S) /\ entry \in S
    BY <1>2, <1>3, <2>1 DEF IsCache
  <2>3. /\ out \in Seq(S) /\ Len(out) = Len(room) + 1 /\ DOMAIN out = 1 .. Len(out)
        /\ \A i \in 1 .. Len(room) : out[i] = room[i]
        /\ out[Len(out)] = entry
    BY <1>3, <1>5, <2>2
  <2>4. out \in Seq({out[i] : i \in DOMAIN out})
    BY <2>3
  <2>5. \A i, j \in DOMAIN out : out[i].key = out[j].key => i = j
    BY <1>2, <1>3, <1>5, <2>3 DEF IsCache
  <2>6. ASSUME NEW i \in DOMAIN out
        PROVE  out[i] = entry \/ \E j \in DOMAIN cache : out[i] = cache[j]
    <3>1. i \in DOMAIN room \/ i = Len(out)
      BY <1>3, <2>3
    <3>2. i \in DOMAIN room => out[i] = room[i]
      BY <1>3, <2>3
    <3> QED
      BY <1>2, <2>3, <3>1, <3>2 DEF Within
  <2> QED
    BY <1>2, <1>3, <2>3, <2>4, <2>5, <2>6, PromptsAssumptions DEF IsCache
<1>6. PICK out : out = Remembered(key, value)
  OBVIOUS
<1>7. out = IF \E i \in DOMAIN room : room[i].key = key
            THEN [i \in DOMAIN room |-> IF room[i].key = key THEN entry ELSE room[i]]
            ELSE Append(room, entry)
  BY <1>6 DEF Remembered, room, entry
<1>8. /\ IsCache(out)
      /\ \A i \in DOMAIN out : out[i] = entry \/ \E j \in DOMAIN cache : out[i] = cache[j]
  <2>1. CASE \E i \in DOMAIN room : room[i].key = key
    <3>1. out = [i \in DOMAIN room |-> IF room[i].key = key THEN entry ELSE room[i]]
      BY <1>7, <2>1
    <3> QED
      BY <1>4, <2>1, <3>1
  <2>2. CASE ~\E i \in DOMAIN room : room[i].key = key
    <3>1. out = Append(room, entry)
      BY <1>7, <2>2
    <3> QED
      BY <1>5, <2>2, <3>1
  <2> QED
    BY <2>1, <2>2
<1> QED
  BY <1>6, <1>8 DEF entry

LEMMA ForgottenIsCache ==
  ASSUME IsCache(cache), NEW key, Forget(key)
  PROVE  IsCache(cache') /\ Within(cache', cache)
<1> DEFINE old == {i \in DOMAIN cache :
                      cache[i].key = key /\ clock - cache[i].at >= CacheTtl}
           k == CHOOSE i \in old : TRUE
<1>1. CASE old = {}
  BY <1>1 DEF Forget, Within
<1>2. CASE old # {}
  <2>1. k \in DOMAIN cache /\ cache' = RemoveAt(cache, k)
    BY <1>2 DEF Forget
  <2> QED
    BY <2>1, WithoutIsCache
<1> QED
  BY <1>1, <1>2

-----------------------------------------------------------------------------
(* Steps                                                                   *)

\* What IsCache says of the cache is what the invariant says of it.
LEMMA BoundedAgain ==
  ASSUME IsCache(cache')
  PROVE  CacheBounded' /\ cache' \in Seq({cache'[i] : i \in DOMAIN cache'})
  BY DEF IsCache, CacheBounded

\* Whoever asks something else, or is done, asks with the fields of a call.
LEMMA AsksType ==
  ASSUME PromptsInv, NEW a \in Askers, NEW r, IsAsk(r),
         asks' = [asks EXCEPT ![a] = r]
  PROVE  /\ asks' = [b \in Askers |-> asks'[b]]
         /\ \A b \in Askers : IsAsk(asks'[b])
         /\ \A b \in Askers : asks'[b] = IF b = a THEN r ELSE asks[b]
<1>1. asks = [b \in Askers |-> asks[b]] /\ \A b \in Askers : IsAsk(asks[b])
  BY DEF PromptsInv, PromptsTypeOK
<1>2. asks' = [b \in Askers |-> IF b = a THEN r ELSE asks[b]]
  BY <1>1
<1> QED
  BY <1>1, <1>2

\* One step of a call of ask: the cache and the shelf stay as they are.
LEMMA AskMoves ==
  ASSUME PromptsInv, NEW a \in Askers, NEW r, IsAsk(r), Refused(r),
         asks[a].pc # "idle", asks' = [asks EXCEPT ![a] = r],
         UNCHANGED <<gateway, cache, shelf>>, KnobDroppedRightly'
  PROVE  PromptsInv'
<1>1. /\ asks' = [b \in Askers |-> asks'[b]]
      /\ \A b \in Askers : IsAsk(asks'[b])
      /\ \A b \in Askers : asks'[b] = IF b = a THEN r ELSE asks[b]
  BY AsksType
<1>2. PromptsTypeOK' /\ CacheBounded'
  BY <1>1 DEF PromptsInv, PromptsTypeOK, CacheBounded, IsAsk
<1>3. KnobInv'
  BY <1>1 DEF PromptsInv, KnobInv, Refused
<1>4. ShelfInv'
  <2>1. ShelfInPlace' /\ (shelf' # None => \A w \in Workers :
            shelf'.slots[w] # None => shelf'.slots[w] < shelf'.cursor)
    BY DEF PromptsInv, ShelfInv, ShelfInPlace
  <2>2. \A w \in Workers : Working(w)'
    BY <1>1 DEF PromptsInv, ShelfInv, Working, Askers
  <2> QED
    BY <2>1, <2>2 DEF ShelfInv
<1> QED
  BY <1>2, <1>3, <1>4 DEF PromptsInv

\* What Goto and Send make of a call.
LEMMA GotoAsk ==
  ASSUME PromptsInv, NEW a \in Askers, NEW pc, Goto(a, pc)
  PROVE  \E r : /\ IsAsk(r) /\ r.pc = pc /\ asks' = [asks EXCEPT ![a] = r]
                /\ r.key = asks[a].key
                /\ pc = "retry" => r.model = asks[a].model
<1>1. PICK m, key : /\ m = IF pc \in {"sent", "retry"} THEN asks[a].model ELSE None
                    /\ key = asks[a].key
  OBVIOUS
<1>2. PICK r : r = [pc |-> pc, key |-> key, model |-> m, knob |-> FALSE]
  OBVIOUS
<1>3. asks' = [asks EXCEPT ![a] = r]
  BY <1>1, <1>2 DEF Goto, PromptsInv, PromptsTypeOK
<1>4. IsAsk(r) /\ r.pc = pc /\ r.model = m /\ r.key = key
  BY <1>2 DEF IsAsk
<1>5. key = asks[a].key /\ (pc = "retry" => m = asks[a].model)
  BY <1>1
<1> QED
  BY <1>3, <1>4, <1>5

LEMMA SendAsk ==
  ASSUME PromptsInv, NEW a \in Askers, NEW ids, Send(a, ids)
  PROVE  \E r : /\ IsAsk(r) /\ r.pc = "sent" /\ asks' = [asks EXCEPT ![a] = r]
                /\ r.key = asks[a].key
<1>1. PICK m, key, knob :
          m = Resolved(ids) /\ key = asks[a].key /\ knob = ~strict
  OBVIOUS
<1>2. PICK r : r = [pc |-> "sent", key |-> key, model |-> m, knob |-> knob]
  OBVIOUS
<1>3. asks' = [asks EXCEPT ![a] = r]
  BY <1>1, <1>2 DEF Send, PromptsInv, PromptsTypeOK
<1>4. IsAsk(r) /\ r.pc = "sent" /\ r.key = key
  BY <1>2 DEF IsAsk
<1> QED
  BY <1>1, <1>3, <1>4

\* The call of one who is no worker begins or ends, and the cache forgets or
\* remembers.
LEMMA OtherAsks ==
  ASSUME PromptsInv, NEW a \in Callers \cup Others, NEW r, IsAsk(r), r.pc # "retry",
         asks' = [asks EXCEPT ![a] = r], IsCache(cache'),
         UNCHANGED <<gateway, strict, shelf>>
  PROVE  PromptsInv'
<1>1. a \in Askers /\ \A w \in Workers : w \in Askers /\ w # a
  BY PromptsAssumptions DEF Askers
<1>2. /\ asks' = [b \in Askers |-> asks'[b]]
      /\ \A b \in Askers : IsAsk(asks'[b])
      /\ \A b \in Askers : asks'[b] = IF b = a THEN r ELSE asks[b]
  BY <1>1, AsksType
<1>3. PromptsTypeOK' /\ CacheBounded'
  <2>1. CacheBounded' /\ cache' \in Seq({cache'[i] : i \in DOMAIN cache'})
    BY BoundedAgain
  <2> QED
    BY <1>2, <2>1 DEF PromptsInv, PromptsTypeOK, IsAsk
<1>4. KnobInv'
  BY <1>2 DEF PromptsInv, KnobInv, KnobDroppedRightly, Refused
<1>5. ShelfInv'
  <2>1. ShelfInPlace' /\ (shelf' # None => \A w \in Workers :
            shelf'.slots[w] # None => shelf'.slots[w] < shelf'.cursor)
    BY DEF PromptsInv, ShelfInv, ShelfInPlace
  <2>2. \A w \in Workers : Working(w)'
    BY <1>1, <1>2 DEF PromptsInv, ShelfInv, Working
  <2> QED
    BY <2>1, <2>2 DEF ShelfInv
<1> QED
  BY <1>3, <1>4, <1>5 DEF PromptsInv

LEMMA AskStepKeeps ==
  ASSUME PromptsInv, NEW a \in Askers, AskStep(a)
  PROVE  PromptsInv'
<1>1. KnobDroppedRightly /\ Refused(asks[a])
  BY DEF PromptsInv, KnobInv
<1>2. asks[a].pc # "idle"
  BY DEF AskStep, Resolve, ListModels, Answered, Retried
<1>3. CASE Resolve(a)
  <2>1. UNCHANGED <<gateway, cache, shelf, strict>>
    BY <1>3 DEF Resolve
  <2>2. KnobDroppedRightly'
    BY <1>1, <2>1 DEF KnobDroppedRightly
  <2>3. \E ids : Send(a, ids) \/ Goto(a, "listing")
    BY <1>3 DEF Resolve
  <2>4. PICK r : IsAsk(r) /\ r.pc # "retry" /\ asks' = [asks EXCEPT ![a] = r]
    BY <2>3, SendAsk, GotoAsk
  <2> QED
    BY <1>2, <2>1, <2>2, <2>4, AskMoves DEF Refused
<1>4. CASE ListModels(a)
  <2>1. UNCHANGED <<gateway, cache, shelf, strict>>
    BY <1>4 DEF ListModels
  <2>2. KnobDroppedRightly'
    BY <1>1, <2>1 DEF KnobDroppedRightly
  <2>3. \E ids : Send(a, ids) \/ Goto(a, "failed")
    BY <1>4 DEF ListModels
  <2>4. PICK r : IsAsk(r) /\ r.pc # "retry" /\ asks' = [asks EXCEPT ![a] = r]
    BY <2>3, SendAsk, GotoAsk
  <2> QED
    BY <1>2, <2>1, <2>2, <2>4, AskMoves DEF Refused
<1>5. CASE Answered(a)
  <2>1. UNCHANGED <<gateway, cache, shelf, strict>>
    BY <1>5 DEF Answered
  <2>2. KnobDroppedRightly'
    BY <1>1, <2>1 DEF KnobDroppedRightly
  <2>3. \/ \E pc \in {"usable", "failed", "relisting"} : Goto(a, pc)
        \/ /\ Goto(a, "retry")
           /\ "400" \in Responses(asks[a].model, asks[a].knob)
    BY <1>5 DEF Answered, Parsed
  <2>4. CASE \E pc \in {"usable", "failed", "relisting"} : Goto(a, pc)
    <3>1. PICK r : IsAsk(r) /\ r.pc # "retry" /\ asks' = [asks EXCEPT ![a] = r]
      BY <2>4, GotoAsk
    <3> QED
      BY <1>2, <2>1, <2>2, <3>1, AskMoves DEF Refused
  <2>5. CASE /\ Goto(a, "retry")
             /\ "400" \in Responses(asks[a].model, asks[a].knob)
    <3>1. PICK r : IsAsk(r) /\ asks' = [asks EXCEPT ![a] = r]
                   /\ r.model = asks[a].model
      BY <2>5, GotoAsk
    <3>2. r.model \in gateway.serves => ~gateway.takesKnob
      BY <2>5, <3>1 DEF Responses
    <3> QED
      BY <1>2, <2>1, <2>2, <3>1, <3>2, AskMoves DEF Refused
  <2> QED
    BY <2>3, <2>4, <2>5
<1>6. CASE Retried(a)
  <2>1. UNCHANGED <<gateway, cache, shelf>> /\ asks[a].pc = "retry"
    BY <1>6 DEF Retried
  <2>2. \E pc \in {"usable", "failed", "relisting"} : Goto(a, pc)
    BY <1>6 DEF Retried, Parsed
  <2>3. \/ strict' = strict
        \/ "ok" \in Responses(asks[a].model, FALSE)
    BY <1>6 DEF Retried
  <2>4. "ok" \in Responses(asks[a].model, FALSE) => asks[a].model \in gateway.serves
    BY DEF Responses
  <2>5. KnobDroppedRightly'
    BY <1>1, <2>1, <2>3, <2>4 DEF KnobDroppedRightly, Refused
  <2>6. PICK r : IsAsk(r) /\ r.pc # "retry" /\ asks' = [asks EXCEPT ![a] = r]
    BY <2>2, GotoAsk
  <2> QED
    BY <1>2, <2>1, <2>5, <2>6, AskMoves DEF Refused
<1> QED
  BY <1>3, <1>4, <1>5, <1>6 DEF AskStep

LEMMA IdleAsk == IsAsk(Idle) /\ Idle.pc = "idle"
  BY DEF Idle, IsAsk

\* A call that starts to ask for a key.
LEMMA StartAsks ==
  ASSUME PromptsInv, NEW a \in Askers, NEW key, StartAsk(a, key)
  PROVE  \E r : /\ IsAsk(r) /\ r.pc = "models" /\ asks' = [asks EXCEPT ![a] = r]
                /\ r.key = key
<1>1. PICK r : r = [pc |-> "models", key |-> key, model |-> None, knob |-> FALSE]
  OBVIOUS
<1>2. asks' = [asks EXCEPT ![a] = r]
  BY <1>1 DEF StartAsk
<1>3. IsAsk(r) /\ r.pc = "models" /\ r.key = key
  BY <1>1 DEF IsAsk
<1> QED
  BY <1>2, <1>3

\* compose, and the lists of schools that K2 judges.
LEMMA ComposeKeeps ==
  ASSUME PromptsInv, NEW a \in Callers \cup Others,
         \/ \E key : Forget(key) /\ StartAsk(a, key)
         \/ asks' = [asks EXCEPT ![a] = Idle] /\ IsCache(cache'),
         UNCHANGED <<gateway, strict, shelf>>
  PROVE  PromptsInv'
<1>1. a \in Askers /\ IsCache(cache)
  BY CacheTypeBounded DEF Askers
<1>2. CASE \E key : Forget(key) /\ StartAsk(a, key)
  <2>1. IsCache(cache')
    BY <1>1, <1>2, ForgottenIsCache
  <2>2. PICK r : IsAsk(r) /\ r.pc = "models" /\ asks' = [asks EXCEPT ![a] = r]
    BY <1>1, <1>2, StartAsks
  <2> QED
    BY <2>1, <2>2, OtherAsks
<1>3. CASE asks' = [asks EXCEPT ![a] = Idle] /\ IsCache(cache')
  BY <1>3, IdleAsk, OtherAsks
<1> QED
  BY <1>2, <1>3

\* The shelf as it is when it is there.
LEMMA ShelfType ==
  ASSUME PromptsInv, shelf # None
  PROVE  /\ shelf \in ShelfRequest
         /\ DOMAIN Cards = 1 .. Len(Cards) /\ Len(Cards) \in Nat
         /\ None \notin 1 .. Len(Cards)
  BY PromptsAssumptions DEF PromptsInv, PromptsTypeOK

\* A worker takes a card no other one has or will have.
LEMMA TakeKeeps ==
  ASSUME PromptsInv, NEW w \in Workers, Take(w)
  PROVE  PromptsInv'
<1> DEFINE i == shelf.cursor
<1>1. /\ shelf \in ShelfRequest /\ shelf # None /\ shelf.slots[w] = None
      /\ i \in 1 .. Len(Cards) /\ i + 1 \in 1 .. Len(Cards) + 1
      /\ DOMAIN Cards = 1 .. Len(Cards) /\ Len(Cards) \in Nat
      /\ None \notin 1 .. Len(Cards)
  BY ShelfType DEF Take, ShelfRequest
<1>2. PICK cursor, slots, results :
          /\ shelf = [cursor |-> cursor, slots |-> slots, results |-> results]
          /\ cursor \in 1 .. Len(Cards) /\ slots \in [Workers -> Slot]
          /\ results \in [DOMAIN Cards -> Slot] /\ slots[w] = None
  BY <1>1 DEF ShelfRequest
<1>3. /\ \A v, x \in Workers : slots[v] # None /\ slots[v] = slots[x] => v = x
      /\ \A k \in DOMAIN Cards :
             IF \E v \in Workers : slots[v] = k THEN results[k] = None
             ELSE results[k] = IF k < cursor THEN k ELSE None
      /\ \A v \in Workers : slots[v] # None => slots[v] < cursor
      /\ \A v \in Workers : asks[v].pc # "idle" => slots[v] # None
  BY <1>1, <1>2 DEF PromptsInv, ShelfInv, ShelfInPlace, Working
<1>4. CASE Hit(Cards[i])
  <2>1. shelf' = [cursor |-> cursor + 1, slots |-> slots,
                  results |-> [results EXCEPT ![cursor] = cursor]]
    BY <1>1, <1>2, <1>4 DEF Take, HitId
  <2>2. UNCHANGED <<cache, asks, gateway, strict>>
    BY <1>4 DEF Take
  <2>3. shelf' \in ShelfRequest
    BY <1>1, <1>2, <2>1 DEF ShelfRequest, Slot
  <2>4. ShelfInPlace'
    BY <1>1, <1>2, <1>3, <2>1 DEF ShelfInPlace, Slot
  <2>5. \A v \in Workers : shelf'.slots[v] # None => shelf'.slots[v] < shelf'.cursor
    BY <1>1, <1>2, <1>3, <2>1 DEF Slot
  <2>6. \A v \in Workers : Working(v)'
    BY <1>1, <1>2, <1>3, <2>1, <2>2, <2>3, PromptsAssumptions DEF Working
  <2> QED
    BY <2>2, <2>3, <2>4, <2>5, <2>6
       DEF PromptsInv, PromptsTypeOK, CacheBounded, KnobInv, KnobDroppedRightly,
           Refused, ShelfInv, IsAsk
<1>5. CASE ~Hit(Cards[i])
  <2>1. shelf' = [cursor |-> cursor + 1, slots |-> [slots EXCEPT ![w] = cursor],
                  results |-> results]
    BY <1>1, <1>2, <1>5 DEF Take
  <2>2. UNCHANGED <<gateway, strict>> /\ Forget(Cards[i]) /\ StartAsk(w, Cards[i])
    BY <1>5 DEF Take
  <2>3. w \in Askers /\ IsCache(cache')
    BY <2>2, CacheTypeBounded, ForgottenIsCache DEF Askers
  <2>4. PICK r : IsAsk(r) /\ r.pc = "models" /\ asks' = [asks EXCEPT ![w] = r]
    BY <2>2, <2>3, StartAsks
  <2>5. /\ asks' = [b \in Askers |-> asks'[b]]
        /\ \A b \in Askers : IsAsk(asks'[b])
        /\ \A b \in Askers : asks'[b] = IF b = w THEN r ELSE asks[b]
    BY <2>3, <2>4, AsksType
  <2>6. shelf' \in ShelfRequest
    BY <1>1, <1>2, <2>1 DEF ShelfRequest, Slot
  <2>7. ShelfInPlace'
    BY <1>1, <1>2, <1>3, <2>1 DEF ShelfInPlace, Slot
  <2>8. \A v \in Workers : shelf'.slots[v] # None => shelf'.slots[v] < shelf'.cursor
    BY <1>1, <1>2, <1>3, <2>1 DEF Slot
  <2>9. ASSUME NEW v \in Workers PROVE Working(v)'
    <3>1. shelf' # None
      BY <2>6, PromptsAssumptions
    <3>2. shelf'.slots[v] = IF v = w THEN cursor ELSE slots[v]
      BY <1>2, <2>1
    <3>3. v # w => asks'[v] = asks[v]
      BY <2>5 DEF Askers
    <3>4. CASE v = w
      <4>1. cursor # None
        BY <1>1, <1>2
      <4> QED
        BY <3>1, <3>2, <3>4, <4>1 DEF Working
    <3>5. CASE v # w
      BY <1>3, <3>1, <3>2, <3>3, <3>5 DEF Working
    <3> QED
      BY <3>4, <3>5
  <2>10. PromptsTypeOK' /\ CacheBounded'
    BY <2>3, <2>5, <2>6, BoundedAgain DEF PromptsTypeOK, IsAsk
  <2>11. KnobInv'
    BY <2>2, <2>4, <2>5 DEF PromptsInv, KnobInv, KnobDroppedRightly, Refused
  <2> QED
    BY <2>7, <2>8, <2>9, <2>10, <2>11 DEF PromptsInv, ShelfInv
<1> QED
  BY <1>4, <1>5

\* A card's answer takes its place.
LEMMA CardDoneKeeps ==
  ASSUME PromptsInv, NEW w \in Workers, CardDone(w)
  PROVE  PromptsInv'
<1> DEFINE i == shelf.slots[w]
<1>1. shelf # None /\ i # None
  BY DEF CardDone, PromptsInv, ShelfInv, Working
<1>2. /\ shelf \in ShelfRequest /\ i \in DOMAIN Cards
      /\ DOMAIN Cards = 1 .. Len(Cards) /\ Len(Cards) \in Nat
      /\ None \notin 1 .. Len(Cards)
  BY <1>1, ShelfType DEF ShelfRequest, Slot
<1>3. PICK cursor, slots, results :
          /\ shelf = [cursor |-> cursor, slots |-> slots, results |-> results]
          /\ cursor \in 1 .. Len(Cards) + 1 /\ slots \in [Workers -> Slot]
          /\ results \in [DOMAIN Cards -> Slot] /\ slots[w] = i
  BY <1>2 DEF ShelfRequest
<1>4. /\ \A v, x \in Workers : slots[v] # None /\ slots[v] = slots[x] => v = x
      /\ \A k \in DOMAIN Cards :
             IF \E v \in Workers : slots[v] = k THEN results[k] = None
             ELSE results[k] = IF k < cursor THEN k ELSE None
      /\ \A v \in Workers : slots[v] # None => slots[v] < cursor
      /\ \A v \in Workers : asks[v].pc # "idle" => slots[v] # None
  BY <1>1, <1>3 DEF PromptsInv, ShelfInv, ShelfInPlace, Working
<1>5. shelf' = [cursor |-> cursor, slots |-> [slots EXCEPT ![w] = None],
                results |-> [results EXCEPT ![i] = i]]
  BY <1>2, <1>3 DEF CardDone
<1>6. /\ UNCHANGED <<gateway, strict>> /\ asks' = [asks EXCEPT ![w] = Idle]
      /\ cache' = cache \/ cache' = Remembered(Cards[i], i)
  BY DEF CardDone
<1>7. w \in Askers /\ IsCache(cache')
  BY <1>6, CacheTypeBounded, RememberedIsCache DEF Askers
<1>8. /\ asks' = [b \in Askers |-> asks'[b]]
      /\ \A b \in Askers : IsAsk(asks'[b])
      /\ \A b \in Askers : asks'[b] = IF b = w THEN Idle ELSE asks[b]
  BY <1>6, <1>7, IdleAsk, AsksType
<1> HIDE DEF i
<1>9. shelf' \in ShelfRequest
  BY <1>2, <1>3, <1>5 DEF ShelfRequest, Slot
<1>10. ShelfInPlace'
  BY <1>2, <1>3, <1>4, <1>5 DEF ShelfInPlace, Slot
<1>11. \A v \in Workers : shelf'.slots[v] # None => shelf'.slots[v] < shelf'.cursor
  BY <1>3, <1>4, <1>5
<1>12. ASSUME NEW v \in Workers PROVE Working(v)'
  <2>1. shelf' # None
    BY <1>9, PromptsAssumptions
  <2>2. shelf'.slots[v] = IF v = w THEN None ELSE slots[v]
    BY <1>3, <1>5
  <2>3. asks'[v] = IF v = w THEN Idle ELSE asks[v]
    BY <1>8 DEF Askers
  <2>4. CASE v = w
    BY <2>3, <2>4, IdleAsk DEF Working
  <2>5. CASE v # w
    BY <1>4, <2>1, <2>2, <2>3, <2>5 DEF Working
  <2> QED
    BY <2>4, <2>5
<1>13. PromptsTypeOK' /\ CacheBounded'
  BY <1>7, <1>8, <1>9, BoundedAgain DEF PromptsTypeOK, IsAsk
<1>14. KnobInv'
  BY <1>6, <1>8, IdleAsk DEF PromptsInv, KnobInv, KnobDroppedRightly, Refused
<1> QED
  BY <1>10, <1>11, <1>12, <1>13, <1>14 DEF PromptsInv, ShelfInv

\* The shelf is asked for when no worker is at it, and answered when none is.
LEMMA ShelfComesAndGoes ==
  ASSUME PromptsInv, ShelfAsked \/ ShelfAnswered
  PROVE  PromptsInv'
<1>1. UNCHANGED <<gateway, cache, strict, asks>>
  BY DEF ShelfAsked, ShelfAnswered
<1>2. \A w \in Workers : asks[w].pc = "idle"
  BY DEF ShelfAsked, ShelfAnswered, PromptsInv, ShelfInv, Working
<1>3. \/ shelf' = None
      \/ shelf' = [cursor |-> 1, slots |-> [w \in Workers |-> None],
                   results |-> [i \in DOMAIN Cards |-> None]]
  BY DEF ShelfAsked, ShelfAnswered
<1>4. Len(Cards) \in Nat /\ DOMAIN Cards = 1 .. Len(Cards) /\ None \notin DOMAIN Cards
  BY PromptsAssumptions
<1>5. shelf' # None => shelf' \in ShelfRequest
  BY <1>3, <1>4 DEF ShelfRequest, Slot
<1>6. ShelfInPlace'
  BY <1>3, <1>4 DEF ShelfInPlace
<1>7. ShelfInv'
  BY <1>1, <1>2, <1>3, <1>6 DEF ShelfInv, Working
<1> QED
  BY <1>1, <1>5, <1>7
     DEF PromptsInv, PromptsTypeOK, CacheBounded, KnobInv, KnobDroppedRightly,
         Refused, IsAsk

LEMMA NothingKeeps ==
  ASSUME PromptsInv, UNCHANGED <<gateway, cache, strict, asks, shelf>>
  PROVE  PromptsInv'
<1>1. PromptsTypeOK'
  BY DEF PromptsInv, PromptsTypeOK, IsAsk
<1>2. CacheBounded'
  BY DEF PromptsInv, CacheBounded
<1>3. KnobInv'
  BY DEF PromptsInv, KnobInv, KnobDroppedRightly, Refused
<1>4. ShelfInv'
  BY DEF PromptsInv, ShelfInv, ShelfInPlace, Working
<1> QED
  BY <1>1, <1>2, <1>3, <1>4 DEF PromptsInv

LEMMA PromptsInitInv == HappeningsInit => PromptsInv
<1> SUFFICES ASSUME HappeningsInit PROVE PromptsInv
  OBVIOUS
<1>1. /\ cache = <<>> /\ strict = FALSE /\ shelf = None
      /\ asks = [a \in Askers |-> Idle]
  BY DEF HappeningsInit, Init
<1>2. PromptsTypeOK
  BY <1>1, IdleAsk DEF PromptsTypeOK
<1>3. CacheBounded
  BY <1>1, PromptsAssumptions DEF CacheBounded
<1>4. KnobInv
  BY <1>1, IdleAsk DEF KnobInv, KnobDroppedRightly, Refused
<1>5. ShelfInv
  BY <1>1, IdleAsk DEF ShelfInv, ShelfInPlace, Working, Askers
<1> QED
  BY <1>2, <1>3, <1>4, <1>5 DEF PromptsInv

LEMMA PromptsNextInv ==
  ASSUME PromptsInv, [HappeningsNext]_hvars
  PROVE  PromptsInv'
<1>1. IsCache(cache)
  BY CacheTypeBounded
<1>2. ASSUME NEW c \in Callers, NEW key, Compose(c, key) PROVE PromptsInv'
  BY <1>2, ComposeKeeps DEF Compose
<1>3. ASSUME NEW c \in Callers, Composed(c) PROVE PromptsInv'
  <2>1. IsCache(cache')
    BY <1>1, <1>3, RememberedIsCache DEF Composed
  <2> QED
    BY <1>3, <2>1, ComposeKeeps DEF Composed
<1>4. CASE Advance \/ Diagnostics
  BY <1>4, NothingKeeps DEF Advance, Diagnostics
<1>5. ASSUME NEW l \in Others, LoadSchool(l) PROVE PromptsInv'
  BY <1>5, NothingKeeps DEF LoadSchool, vars
<1>6. ASSUME NEW l \in Others, FeedsIn(l) PROVE PromptsInv'
  <2>1. UNCHANGED <<gateway, strict, shelf>>
    BY <1>6 DEF FeedsIn
  <2>2. \/ UNCHANGED <<cache, asks>>
        \/ \E key : Forget(key) /\ StartAsk(l, key)
    BY <1>6 DEF FeedsIn
  <2> QED
    BY <2>1, <2>2, NothingKeeps, ComposeKeeps
<1>7. ASSUME NEW l \in Others, Curated(l) PROVE PromptsInv'
  <2>1. UNCHANGED <<gateway, strict, shelf>> /\ asks' = [asks EXCEPT ![l] = Idle]
    BY <1>7 DEF Curated
  <2>2. cache' = cache \/ \E key, value : cache' = Remembered(key, value)
    BY <1>7 DEF Curated
  <2> QED
    BY <1>1, <2>1, <2>2, RememberedIsCache, ComposeKeeps
<1>8. CASE UNCHANGED hvars
  BY <1>8, NothingKeeps DEF hvars, vars
<1> QED
  BY <1>2, <1>3, <1>4, <1>5, <1>6, <1>7, <1>8, AskStepKeeps, TakeKeeps,
     CardDoneKeeps, ShelfComesAndGoes DEF HappeningsNext, PromptsNext

LEMMA PromptsInvariance == HappeningsSpec => []PromptsInv
  BY PromptsInitInv, PromptsNextInv, PTL DEF HappeningsSpec

-----------------------------------------------------------------------------
(* What the service promises                                               *)

\* However many calls end at once, the cache stays within CACHE_MAX, with one
\* entry for each key.
THEOREM CachesAreBounded == HappeningsSpec => []CacheBounded
<1>1. PromptsInv => CacheBounded
  BY DEF PromptsInv
<1> QED
  BY <1>1, PromptsInvariance, PTL

\* Workers that share one cursor rewrite each card once, and answer it in its
\* place under its id, however many there are and whatever the cache holds.
THEOREM ShelvesAreInPlace == HappeningsSpec => []ShelfInPlace
<1>1. PromptsInv => ShelfInPlace
  BY DEF PromptsInv, ShelfInv
<1> QED
  BY <1>1, PromptsInvariance, PTL

\* Only an endpoint that refuses the reasoning knob makes the service drop it.
THEOREM KnobsAreDroppedRightly == HappeningsSpec => []KnobDroppedRightly
<1>1. PromptsInv => KnobDroppedRightly
  BY DEF PromptsInv, KnobInv
<1> QED
  BY <1>1, PromptsInvariance, PTL

-----------------------------------------------------------------------------
(* Lists in order                                                          *)

\* Every element of a set of places has a rank of its own.
LEMMA RanksDiffer ==
  ASSUME NEW n \in Nat, NEW S, S \subseteq 1 .. n,
         NEW score, \A i \in S : score[i] \in Int
  PROVE  /\ IsFiniteSet(S) /\ Cardinality(S) \in Nat
         /\ \A i \in S : Cardinality(Ahead(S, score, i)) \in 0 .. Cardinality(S) - 1
         /\ \A i, j \in S :
                Cardinality(Ahead(S, score, i)) = Cardinality(Ahead(S, score, j)) => i = j
<1> DEFINE Rank(i) == Cardinality(Ahead(S, score, i))
           size == Cardinality(S)
<1>1. IsFiniteSet(1 .. n)
  BY FS_Interval
<1>2. IsFiniteSet(S) /\ size \in Nat
  BY <1>1, FS_Subset, FS_CardinalityType
<1>3. ASSUME NEW i \in S
      PROVE  IsFiniteSet(Ahead(S, score, i)) /\ Rank(i) \in Nat /\ Rank(i) < size
  <2>1. Ahead(S, score, i) \in SUBSET (S \ {i})
    BY DEF Ahead
  <2>2. IsFiniteSet(S \ {i}) /\ Cardinality(S \ {i}) = size - 1
    BY <1>2, FS_RemoveElement
  <2>3. IsFiniteSet(Ahead(S, score, i)) /\ Rank(i) <= size - 1
    BY <2>1, <2>2, FS_Subset
  <2>4. Rank(i) \in Nat
    BY <2>3, FS_CardinalityType
  <2> HIDE DEF Rank, size
  <2> QED
    BY <1>2, <2>3, <2>4
<1>4. ASSUME NEW i \in S, NEW j \in S, i \in Ahead(S, score, j)
      PROVE  Rank(i) < Rank(j)
  <2>1. i \notin Ahead(S, score, i)
    BY DEF Ahead
  <2>2. ASSUME NEW k \in Ahead(S, score, i) PROVE k \in Ahead(S, score, j)
    <3>1. k \in S /\ score[k] \in Int /\ score[i] \in Int /\ score[j] \in Int
      BY DEF Ahead
    <3>2. k \in Int /\ i \in Int /\ j \in Int
      BY <3>1
    <3>3. /\ score[k] > score[i] \/ (score[k] = score[i] /\ k < i)
          /\ score[i] > score[j] \/ (score[i] = score[j] /\ i < j)
      BY <1>4 DEF Ahead
    <3>4. score[k] > score[j] \/ (score[k] = score[j] /\ k < j)
      BY <3>1, <3>2, <3>3
    <3> QED
      BY <3>1, <3>4 DEF Ahead
  <2>3. Cardinality(Ahead(S, score, i) \cup {i}) = Rank(i) + 1
    BY <1>3, <2>1, FS_AddElement
  <2>4. Ahead(S, score, i) \cup {i} \in SUBSET Ahead(S, score, j)
    BY <1>4, <2>2
  <2>5. Rank(i) + 1 <= Rank(j)
    BY <1>3, <2>3, <2>4, FS_Subset
  <2>6. Rank(i) \in Nat /\ Rank(j) \in Nat
    BY <1>3
  <2> HIDE DEF Rank
  <2> QED
    BY <2>5, <2>6
<1>5. ASSUME NEW i \in S, NEW j \in S, i # j
      PROVE  Rank(i) # Rank(j)
  <2>1. i \in Ahead(S, score, j) \/ j \in Ahead(S, score, i)
    BY <1>5 DEF Ahead
  <2>2. Rank(i) < Rank(j) \/ Rank(j) < Rank(i)
    BY <1>4, <2>1
  <2>3. Rank(i) \in Nat /\ Rank(j) \in Nat
    BY <1>3
  <2> HIDE DEF Rank
  <2> QED
    BY <2>2, <2>3
<1> HIDE DEF Rank, size
<1>6. \A i \in S : Rank(i) \in 0 .. size - 1
  BY <1>2, <1>3
<1> QED
  BY <1>2, <1>5, <1>6 DEF Rank, size

\* So there is one at every rank, and a place in the order for every element.
LEMMA RankedIn ==
  ASSUME NEW n \in Nat, NEW S, S \subseteq 1 .. n,
         NEW score, \A i \in S : score[i] \in Int
  PROVE  /\ Cardinality(S) \in Nat
         /\ DOMAIN Ranked(S, score) = 1 .. Cardinality(S)
         /\ \A m \in 1 .. Cardinality(S) : Ranked(S, score)[m] \in S
         /\ \A i \in S :
                /\ Cardinality(Ahead(S, score, i)) + 1 \in 1 .. Cardinality(S)
                /\ Ranked(S, score)[Cardinality(Ahead(S, score, i)) + 1] = i
<1> DEFINE Rank(i) == Cardinality(Ahead(S, score, i))
           size == Cardinality(S)
           f == [i \in S |-> Rank(i)]
<1>1. IsFiniteSet(S) /\ size \in Nat
  BY RanksDiffer
<1>2. \A i, j \in S : Rank(i) = Rank(j) => i = j
  BY RanksDiffer
<1>3. \A i \in S : Rank(i) \in 0 .. size - 1
  BY RanksDiffer
<1> HIDE DEF Rank, size
<1>4. f \in Injection(S, 0 .. size - 1)
  BY <1>2, <1>3 DEF Injection, IsInjective
<1>5. IsFiniteSet(0 .. size - 1) /\ Cardinality(0 .. size - 1) = size
  BY <1>1, FS_Interval
<1>6. f \in Surjection(S, 0 .. size - 1)
  BY <1>4, <1>5, FS_Injection DEF size
<1>7. ASSUME NEW m \in 1 .. size
       PROVE  \E i \in S : Rank(i) = m - 1
  <2>1. m - 1 \in 0 .. size - 1
    BY <1>1
  <2> QED
    BY <1>6, <2>1 DEF Surjection
<1>8. Ranked(S, score) = [m \in 1 .. size |-> CHOOSE i \in S : Rank(i) = m - 1]
  BY DEF Ranked, Rank, size
<1>9. ASSUME NEW i \in S
       PROVE  Rank(i) + 1 \in 1 .. size /\ Ranked(S, score)[Rank(i) + 1] = i
  <2>1. PICK m : m = Rank(i) + 1
    OBVIOUS
  <2>2. m \in 1 .. size /\ Rank(i) = m - 1
    BY <1>1, <1>3, <2>1
  <2>3. Ranked(S, score)[m] = CHOOSE k \in S : Rank(k) = m - 1
    BY <1>8, <2>2
  <2>4. Ranked(S, score)[m] \in S /\ Rank(Ranked(S, score)[m]) = m - 1
    BY <1>7, <2>2, <2>3
  <2> QED
    BY <1>2, <2>1, <2>2, <2>4
<1> QED
  BY <1>1, <1>7, <1>8, <1>9 DEF size, Rank

\* The first of some rows.
LEMMA LeastRow ==
  ASSUME NEW n \in Nat, NEW S, S \subseteq 1 .. n, S # {}
  PROVE  Min(S) \in S
<1>1. S \subseteq Nat
  OBVIOUS
<1>2. PICK d \in S : \A e \in S : ~(<<e, d>> \in OpToRel(<, Nat))
  BY <1>1, NatLessThanWellFounded, WFMin
<1>3. \A e \in S : d =< e
  <2> SUFFICES ASSUME NEW e \in S, ~(d =< e) PROVE FALSE
    OBVIOUS
  <2>1. <<e, d>> \in Nat \X Nat /\ e < d
    BY <1>1
  <2>2. <<e, d>> \in OpToRel(<, Nat)
    BY <2>1 DEF OpToRel
  <2> QED
    BY <1>2, <2>2
<1> QED
  BY <1>3 DEF Min

-----------------------------------------------------------------------------
(* What K2 is asked to judge                                               *)

\* An item as the feeds and the seeds give it.
IsItem(item) ==
    item = [cue |-> item.cue, kind |-> item.kind, seed |-> item.seed,
            score |-> RuleScore, by |-> "rules"]

IsList(items) ==
    /\ items \in Seq({items[i] : i \in DOMAIN items})
    /\ \A i \in DOMAIN items : IsItem(items[i])

LEMMA ListShape ==
  ASSUME NEW items, IsList(items)
  PROVE  Len(items) \in Nat /\ DOMAIN items = 1 .. Len(items)
  BY DEF IsList

\* A list of any n items, given one by one.
LEMMA ListOf ==
  ASSUME NEW n \in Nat, NEW items, items = [i \in 1 .. n |-> items[i]],
         \A i \in 1 .. n : IsItem(items[i])
  PROVE  IsList(items) /\ Len(items) = n
  BY DEF IsList

LEMMA LesserOfTwo ==
  ASSUME NEW a \in Nat, NEW b \in Nat
  PROVE  /\ Min({a, b}) \in Nat /\ Min({a, b}) <= a /\ Min({a, b}) <= b
         /\ Min({a, b}) = a \/ Min({a, b}) = b
<1>1. \E x \in {a, b} : \A y \in {a, b} : x =< y
  OBVIOUS
<1>2. Min({a, b}) \in {a, b} /\ \A y \in {a, b} : Min({a, b}) =< y
  BY <1>1 DEF Min
<1> QED
  BY <1>2

LEMMA ItemIs == \A cue, kind, seed : IsItem(Item(cue, kind, seed))
  BY DEF IsItem, Item

\* What the feeds add is no seed, and does not read like one.
LEMMA Headlines ==
  ASSUME NEW feed \in NewsFeeds \cup RedditFeeds \cup {<<>>}
  PROVE  /\ IsList(Scraped(feed)) /\ Len(Scraped(feed)) <= PerFeed
         /\ \A i \in DOMAIN Scraped(feed) :
                ~Scraped(feed)[i].seed /\ Scraped(feed)[i].cue \notin SeedCues
<1>1. Len(feed) \in Nat /\ \A i \in 1 .. Len(feed) : feed[i].cue \notin SeedCues
  BY HappeningsAssumptions, HeadlinesAreNoSeeds
<1>2. PICK n : n = Min({PerFeed, Len(feed)})
  OBVIOUS
<1>3. n \in Nat /\ n <= PerFeed /\ n <= Len(feed)
  BY <1>1, <1>2, LesserOfTwo, HappeningsAssumptions
<1>4. PICK out : out = Scraped(feed)
  OBVIOUS
<1>5. out = [i \in 1 .. n |-> Item(feed[i].cue, feed[i].kind, FALSE)]
  BY <1>2, <1>4 DEF Scraped
<1>6. ASSUME NEW i \in 1 .. n
      PROVE  IsItem(out[i]) /\ ~out[i].seed /\ out[i].cue \notin SeedCues
  <2>1. out[i] = Item(feed[i].cue, feed[i].kind, FALSE)
    BY <1>5
  <2>2. out[i].seed = FALSE /\ out[i].cue = feed[i].cue
    BY <2>1 DEF Item
  <2>3. i \in 1 .. Len(feed)
    BY <1>1, <1>3
  <2> QED
    BY <1>1, <2>1, <2>2, <2>3, ItemIs
<1>7. out = [i \in 1 .. n |-> out[i]]
  BY <1>5
<1>8. IsList(out) /\ Len(out) = n /\ DOMAIN out = 1 .. n
  BY <1>3, <1>6, <1>7, ListOf
<1> QED
  BY <1>3, <1>4, <1>6, <1>8

\* A list of the items of one, then those of another.
IsJoined(out, a, b) ==
    /\ IsList(out) /\ Len(out) = Len(a) + Len(b)
    /\ \A i \in 1 .. Len(a) : out[i] = a[i]
    /\ \A i \in 1 .. Len(b) : out[Len(a) + i] = b[i]

LEMMA JoinedList ==
  ASSUME NEW a, IsList(a), NEW b, IsList(b)
  PROVE  IsJoined(a \o b, a, b)
<1>1. PICK S : S = {a[i] : i \in DOMAIN a} \cup {b[i] : i \in DOMAIN b}
  OBVIOUS
<1>2. a \in Seq(S) /\ b \in Seq(S)
  BY <1>1 DEF IsList
<1>3. PICK out : out = a \o b
  OBVIOUS
<1>4. /\ out \in Seq(S) /\ Len(out) = Len(a) + Len(b)
      /\ \A i \in 1 .. Len(a) + Len(b) :
             out[i] = IF i <= Len(a) THEN a[i] ELSE b[i - Len(a)]
  BY <1>2, <1>3, ConcatProperties
<1>5. Len(a) \in Nat /\ Len(b) \in Nat /\ DOMAIN a = 1 .. Len(a) /\ DOMAIN b = 1 .. Len(b)
  BY ListShape
<1>6. \A i \in 1 .. Len(a) : out[i] = a[i]
  BY <1>4, <1>5
<1>7. ASSUME NEW i \in 1 .. Len(b) PROVE out[Len(a) + i] = b[i]
  <2>1. PICK k : k = Len(a) + i
    OBVIOUS
  <2>2. k \in 1 .. Len(a) + Len(b) /\ ~(k <= Len(a)) /\ k - Len(a) = i
    BY <1>5, <2>1
  <2> QED
    BY <1>4, <2>1, <2>2
<1>8. ASSUME NEW k \in 1 .. Len(a) + Len(b)
      PROVE  k \in 1 .. Len(a) \/ \E i \in 1 .. Len(b) : k = Len(a) + i
  <2>1. CASE k <= Len(a)
    BY <1>5, <2>1
  <2>2. CASE ~(k <= Len(a))
    <3>1. k - Len(a) \in 1 .. Len(b) /\ k = Len(a) + (k - Len(a))
      BY <1>5, <2>2
    <3> QED
      BY <3>1
  <2> QED
    BY <2>1, <2>2
<1>9. ASSUME NEW i \in 1 .. Len(a) + Len(b) PROVE IsItem(out[i])
  BY <1>5, <1>6, <1>7, <1>8 DEF IsList
<1>10. out = [i \in 1 .. Len(a) + Len(b) |-> out[i]] /\ Len(a) + Len(b) \in Nat
  BY <1>4, <1>5
<1> QED
  <2>1. IsList(out) /\ Len(out) = Len(a) + Len(b)
    BY <1>9, <1>10, ListOf
  <2>2. IsJoined(out, a, b)
    BY <1>6, <1>7, <2>1 DEF IsJoined
  <2> QED
    BY <1>3, <2>2

\* A day has two seeds at least, that are told apart.
LEMMA SeedsOfADay ==
  /\ IsList(Seeds(clock)) /\ Len(Seeds(clock)) >= 2
  /\ \A i \in DOMAIN Seeds(clock) : Seeds(clock)[i].seed /\ Seeds(clock)[i].cue \in SeedCues
  /\ Seeds(clock)[1].cue # Seeds(clock)[2].cue
<1>1. PICK tradition, food :
          /\ tradition = Item(Tradition, "tradition", TRUE)
          /\ food = Item(Food, "food", TRUE)
  OBVIOUS
<1>2. /\ IsItem(tradition) /\ tradition.seed /\ tradition.cue = Tradition
      /\ IsItem(food) /\ food.seed /\ food.cue = Food
  BY <1>1, ItemIs DEF Item
<1>3. Tradition # Food /\ Tradition \in SeedCues /\ Food \in SeedCues
  BY HappeningsAssumptions DEF SeedCues
<1>4. CASE DaysUntil(clock) = None
  <2>1. PICK s : s = Seeds(clock)
    OBVIOUS
  <2>2. s = <<>> \o <<tradition, food>>
    BY <1>1, <1>4, <2>1 DEF Seeds
  <2>3. s = <<tradition, food>>
    BY <2>2
  <2>4. Len(s) = 2 /\ DOMAIN s = 1 .. 2 /\ s[1] = tradition /\ s[2] = food
    BY <2>3
  <2>5. s = [i \in 1 .. 2 |-> s[i]] /\ \A i \in 1 .. 2 : i = 1 \/ i = 2
    BY <2>3
  <2>6. IsList(s)
    BY <1>2, <2>4, <2>5, ListOf
  <2> QED
    BY <1>2, <1>3, <2>1, <2>4, <2>5, <2>6
<1>5. CASE DaysUntil(clock) # None
  <2>1. PICK s : s = Seeds(clock)
    OBVIOUS
  <2>2. PICK days : days = DaysUntil(clock)
    OBVIOUS
  <2>3. days \in -2 .. 10
    BY <1>5, <2>2 DEF DaysUntil
  <2>4. PICK game : game = Item(<<"game", days>>, "athletics", TRUE)
    OBVIOUS
  <2>5. IsItem(game) /\ game.seed /\ game.cue = <<"game", days>>
    BY <2>4, ItemIs DEF Item
  <2>6. game.cue \in SeedCues /\ game.cue # Tradition
    BY <2>3, <2>5, HappeningsAssumptions DEF SeedCues
  <2>7. s = <<game>> \o <<tradition, food>>
    BY <1>1, <1>5, <2>1, <2>2, <2>4 DEF Seeds
  <2>8. PICK g : g = <<game>>
    OBVIOUS
  <2>9. PICK o : o = <<tradition, food>>
    OBVIOUS
  <2>10. g = [i \in 1 .. 1 |-> g[i]] /\ (\A i \in 1 .. 1 : i = 1) /\ g[1] = game
    BY <2>8
  <2>11. /\ o = [i \in 1 .. 2 |-> o[i]] /\ \A i \in 1 .. 2 : i = 1 \/ i = 2
         /\ o[1] = tradition /\ o[2] = food
    BY <2>9
  <2>12. IsList(g) /\ Len(g) = 1 /\ IsList(o) /\ Len(o) = 2
    BY <1>2, <2>5, <2>10, <2>11, ListOf
  <2>13. s = g \o o
    BY <2>7, <2>8, <2>9
  <2>14. /\ IsList(s) /\ Len(s) = 1 + 2
         /\ \A i \in 1 .. 1 : s[i] = g[i]
         /\ \A i \in 1 .. 2 : s[1 + i] = o[i]
    <3>1. IsJoined(s, g, o)
      BY <2>12, <2>13, JoinedList
    <3> QED
      BY <2>12, <3>1 DEF IsJoined
  <2>15. /\ s[1] = game /\ s[1 + 1] = tradition /\ s[1 + 2] = food
         /\ DOMAIN s = 1 .. 3 /\ Len(s) = 3
    BY <2>10, <2>11, <2>14, ListShape
  <2>16. s[2] = tradition /\ s[3] = food /\ \A i \in 1 .. 3 : i = 1 \/ i = 2 \/ i = 3
    BY <2>15
  <2> QED
    BY <1>2, <1>3, <2>1, <2>5, <2>6, <2>14, <2>15, <2>16
<1> QED
  BY <1>4, <1>5

\* Of items with one cue the first is kept, and none moves back.
LEMMA DedupedList ==
  ASSUME NEW items, IsList(items)
  PROVE  /\ IsList(Dedupe(items))
         /\ \A m \in DOMAIN Dedupe(items) :
                \E i \in DOMAIN items : Dedupe(items)[m] = items[i]
         /\ \A i \in DOMAIN items :
                (\A k \in 1 .. i - 1 : items[k].cue # items[i].cue) =>
                    \E m \in DOMAIN Dedupe(items) : m <= i /\ Dedupe(items)[m] = items[i]
<1>1. PICK firsts : firsts = {i \in DOMAIN items :
                         \A k \in 1 .. i - 1 : items[k].cue # items[i].cue}
  OBVIOUS
<1>2. PICK score : score = [i \in firsts |-> 0]
  OBVIOUS
<1>3. PICK order : order = Ranked(firsts, score)
  OBVIOUS
<1>4. firsts \subseteq DOMAIN items /\ firsts \subseteq 1 .. Len(items)
      /\ Len(items) \in Nat
  BY <1>1, ListShape
<1>5. \A i \in firsts : score[i] \in Int /\ score[i] = 0
  BY <1>2
<1>6. /\ Cardinality(firsts) \in Nat /\ DOMAIN order = 1 .. Cardinality(firsts)
      /\ \A m \in 1 .. Cardinality(firsts) : order[m] \in firsts
      /\ \A i \in firsts :
             /\ Cardinality(Ahead(firsts, score, i)) + 1 \in 1 .. Cardinality(firsts)
             /\ order[Cardinality(Ahead(firsts, score, i)) + 1] = i
  BY <1>3, <1>4, <1>5, RankedIn
<1>7. PICK out : out = Dedupe(items)
  OBVIOUS
<1>8. out = [n \in DOMAIN order |-> items[order[n]]]
  BY <1>1, <1>2, <1>3, <1>7 DEF Dedupe
<1>9. /\ out = [n \in 1 .. Cardinality(firsts) |-> out[n]]
      /\ \A n \in 1 .. Cardinality(firsts) : IsItem(out[n])
  BY <1>4, <1>6, <1>8 DEF IsList
<1>10. ASSUME NEW i \in DOMAIN items, \A k \in 1 .. i - 1 : items[k].cue # items[i].cue
       PROVE  \E m \in DOMAIN out : m <= i /\ out[m] = items[i]
  <2>1. i \in firsts /\ i \in Nat
    BY <1>1, <1>4, <1>10
  <2>2. PICK before : before = Cardinality(Ahead(firsts, score, i))
    OBVIOUS
  <2>3. Ahead(firsts, score, i) \in SUBSET (1 .. i - 1)
    <3>1. ASSUME NEW k \in Ahead(firsts, score, i) PROVE k \in 1 .. i - 1
      <4>1. k \in firsts /\ (score[k] > score[i] \/ k < i)
        BY DEF Ahead
      <4>2. score[k] = 0 /\ score[i] = 0
        BY <1>5, <2>1, <4>1
      <4>3. k \in 1 .. Len(items) /\ k < i
        BY <1>4, <4>1, <4>2
      <4> QED
        BY <1>4, <2>1, <4>3
    <3> QED
      BY <3>1
  <2>4. IsFiniteSet(1 .. i - 1) /\ Cardinality(1 .. i - 1) = i - 1
    <3>1. i - 1 \in Int /\ i >= 1
      BY <1>4, <2>1
    <3>2. /\ IsFiniteSet(1 .. i - 1)
          /\ Cardinality(1 .. i - 1) = IF 1 > i - 1 THEN 0 ELSE i - 1 - 1 + 1
      BY <3>1, FS_Interval
    <3> QED
      BY <2>1, <3>1, <3>2
  <2>5. before <= i - 1 /\ before \in Nat
    BY <2>2, <2>3, <2>4, FS_Subset, FS_CardinalityType
  <2>6. before + 1 \in DOMAIN order /\ order[before + 1] = i
    BY <1>6, <2>1, <2>2
  <2>7. before + 1 <= i
    BY <2>1, <2>5
  <2> QED
    BY <1>8, <2>6, <2>7
<1>11. \A m \in DOMAIN out : \E i \in DOMAIN items : out[m] = items[i]
  BY <1>4, <1>6, <1>8
<1> QED
  BY <1>6, <1>7, <1>9, <1>10, <1>11, ListOf

\* Two seeds at least, and none but those of some days.
HasSeeds(items, times) ==
    /\ \E n \in Nat : DOMAIN items = 1 .. n
    /\ \E i, j \in DOMAIN items : i # j /\ items[i].seed /\ items[j].seed
    /\ \A i \in DOMAIN items : items[i].seed =>
           \E t \in times : \E k \in DOMAIN Seeds(t) :
               Seeds(t)[k].cue = items[i].cue /\ Seeds(t)[k].kind = items[i].kind

\* Two full feeds leave room for the first two seeds, which no headline hides.

LEMMA MergedList ==
  ASSUME NEW news \in NewsFeeds \cup {<<>>}, NEW reddit \in RedditFeeds \cup {<<>>}
  PROVE  IsList(Merged(news, reddit)) /\ HasSeeds(Merged(news, reddit), {clock})
<1>1. PICK a, b, s : a = Scraped(news) /\ b = Scraped(reddit) /\ s = Seeds(clock)
  OBVIOUS
<1>2. /\ IsList(a) /\ Len(a) <= PerFeed
      /\ \A i \in DOMAIN a : ~a[i].seed /\ a[i].cue \notin SeedCues
  BY <1>1, Headlines
<1>3. /\ IsList(b) /\ Len(b) <= PerFeed
      /\ \A i \in DOMAIN b : ~b[i].seed /\ b[i].cue \notin SeedCues
  BY <1>1, Headlines
<1>4. /\ IsList(s) /\ Len(s) >= 2 /\ s[1].cue # s[2].cue
      /\ \A i \in DOMAIN s : s[i].seed /\ s[i].cue \in SeedCues
  BY <1>1, SeedsOfADay
<1>5. /\ Len(a) \in Nat /\ DOMAIN a = 1 .. Len(a)
      /\ Len(b) \in Nat /\ DOMAIN b = 1 .. Len(b)
      /\ Len(s) \in Nat /\ DOMAIN s = 1 .. Len(s)
  BY <1>2, <1>3, <1>4, ListShape
<1>6. PICK c : c = a \o b
  OBVIOUS
<1>7. /\ IsList(c) /\ Len(c) = Len(a) + Len(b)
      /\ \A i \in 1 .. Len(a) : c[i] = a[i]
      /\ \A i \in 1 .. Len(b) : c[Len(a) + i] = b[i]
  BY <1>2, <1>3, <1>6, JoinedList DEF IsJoined
<1>8. PICK p : p = Len(c)
  OBVIOUS
<1>9. p \in Nat /\ DOMAIN c = 1 .. p /\ p + 2 <= MaxItems /\ MaxItems \in Nat
  BY <1>2, <1>3, <1>5, <1>7, <1>8, HappeningsAssumptions
<1>10. ASSUME NEW k \in 1 .. p PROVE ~c[k].seed /\ c[k].cue \notin SeedCues
  <2>1. CASE k <= Len(a)
    BY <1>2, <1>5, <1>7, <1>9, <2>1
  <2>2. CASE ~(k <= Len(a))
    <3>1. k - Len(a) \in 1 .. Len(b) /\ Len(a) + (k - Len(a)) = k
      BY <1>5, <1>7, <1>8, <2>2
    <3> QED
      BY <1>3, <1>5, <1>7, <3>1
  <2> QED
    BY <2>1, <2>2
<1>11. PICK d : d = c \o s
  OBVIOUS
<1>12. /\ IsList(d) /\ Len(d) = p + Len(s)
       /\ \A i \in 1 .. p : d[i] = c[i]
       /\ \A i \in 1 .. Len(s) : d[p + i] = s[i]
  <2>1. IsJoined(d, c, s)
    BY <1>4, <1>7, <1>11, JoinedList
  <2> QED
    BY <1>8, <2>1 DEF IsJoined
<1>13. DOMAIN d = 1 .. p + Len(s)
  BY <1>12, ListShape
<1>14. PICK all : all = Dedupe(d)
  OBVIOUS
<1>15. /\ IsList(all)
       /\ \A m \in DOMAIN all : \E i \in DOMAIN d : all[m] = d[i]
       /\ \A i \in DOMAIN d :
              (\A k \in 1 .. i - 1 : d[k].cue # d[i].cue) =>
                  \E m \in DOMAIN all : m <= i /\ all[m] = d[i]
  BY <1>12, <1>14, DedupedList
<1>16. Len(all) \in Nat /\ DOMAIN all = 1 .. Len(all)
  BY <1>15, ListShape
<1>17. d[p + 1] = s[1] /\ d[p + 2] = s[2] /\ p + 1 \in DOMAIN d /\ p + 2 \in DOMAIN d
  BY <1>4, <1>5, <1>9, <1>12, <1>13
<1>18. s[1].seed /\ s[2].seed /\ s[1].cue \in SeedCues /\ s[2].cue \in SeedCues
  BY <1>4, <1>5
<1>19. \E m \in DOMAIN all : m <= p + 1 /\ all[m] = s[1]
  <2>1. PICK i : i = p + 1
    OBVIOUS
  <2>2. ASSUME NEW k \in 1 .. i - 1 PROVE d[k].cue # d[i].cue
    <3>1. k \in 1 .. p
      BY <1>9, <2>1
    <3> QED
      BY <1>10, <1>12, <1>17, <1>18, <2>1, <3>1
  <2>3. i \in DOMAIN d /\ d[i] = s[1]
    BY <1>17, <2>1
  <2>4. \E m \in DOMAIN all : m <= i /\ all[m] = d[i]
    BY <1>15, <2>2, <2>3
  <2> QED
    BY <2>1, <2>3, <2>4
<1>20. \E m \in DOMAIN all : m <= p + 2 /\ all[m] = s[2]
  <2>1. PICK i : i = p + 2
    OBVIOUS
  <2>2. ASSUME NEW k \in 1 .. i - 1 PROVE d[k].cue # d[i].cue
    <3>1. k \in 1 .. p \/ k = p + 1
      BY <1>9, <2>1
    <3>2. d[i] = s[2]
      BY <1>17, <2>1
    <3>3. CASE k \in 1 .. p
      <4>1. d[k] = c[k] /\ c[k].cue \notin SeedCues
        BY <1>10, <1>12, <3>3
      <4> QED
        BY <1>18, <3>2, <4>1
    <3>4. CASE k = p + 1
      BY <1>4, <1>17, <3>2, <3>4
    <3> QED
      BY <3>1, <3>3, <3>4
  <2>3. i \in DOMAIN d /\ d[i] = s[2]
    BY <1>17, <2>1
  <2>4. \E m \in DOMAIN all : m <= i /\ all[m] = d[i]
    BY <1>15, <2>2, <2>3
  <2> QED
    BY <2>1, <2>3, <2>4
<1>21. PICK n : n = Min({MaxItems, Len(all)})
  OBVIOUS
<1>22. n \in Nat /\ n <= Len(all) /\ (n = MaxItems \/ n = Len(all))
  BY <1>16, <1>21, LesserOfTwo, HappeningsAssumptions
<1>23. PICK out : out = Merged(news, reddit)
  OBVIOUS
<1>24. out = SubSeq(all, 1, n)
  BY <1>1, <1>6, <1>11, <1>14, <1>21, <1>23 DEF Merged
<1>25. PICK S : S = {all[i] : i \in DOMAIN all}
  OBVIOUS
<1>26. \A i \in 1 .. n : all[i] \in S /\ i \in DOMAIN all /\ 1 + i - 1 = i
  <2>0. PICK len : len = Len(all)
    OBVIOUS
  <2>1. \A i \in 1 .. n : i \in 1 .. Len(all)
    <3>1. len \in Nat /\ n \in Nat /\ n <= len
      BY <1>16, <1>22, <2>0
    <3>2. \A i \in 1 .. n : i \in 1 .. len
      BY <3>1
    <3> QED
      BY <2>0, <3>2
  <2>2. \A i \in 1 .. n : 1 + i - 1 = i
    BY <1>22
  <2> QED
    BY <1>16, <1>25, <2>1, <2>2, Zenon
<1>27. /\ out \in Seq(S) /\ Len(out) = IF 1 <= n THEN n - 1 + 1 ELSE 0
       /\ \A i \in 1 .. n - 1 + 1 : out[i] = all[1 + i - 1]
  BY <1>22, <1>24, <1>26, SubSeqProperties
<1>28. Len(out) = n /\ out = [i \in 1 .. n |-> out[i]] /\ 1 .. n - 1 + 1 = 1 .. n
  BY <1>22, <1>27
<1>29. \A i \in 1 .. n : out[i] = all[i]
  BY <1>26, <1>27, <1>28
<1>30. \A i \in 1 .. n : IsItem(out[i])
  BY <1>15, <1>26, <1>29 DEF IsList
<1>31. DOMAIN out = 1 .. n
  BY <1>28
<1>32. IsList(out)
  BY <1>22, <1>28, <1>30, ListOf
<1>33. \E i, j \in DOMAIN out : i # j /\ out[i].seed /\ out[j].seed
  <2>1. PICK i \in DOMAIN all : i <= p + 1 /\ all[i] = s[1]
    BY <1>19
  <2>2. PICK j \in DOMAIN all : j <= p + 2 /\ all[j] = s[2]
    BY <1>20
  <2>3. i \in 1 .. n /\ j \in 1 .. n
    <3>1. i \in 1 .. Len(all) /\ j \in 1 .. Len(all)
      BY <1>16
    <3>2. i <= MaxItems /\ j <= MaxItems
      BY <1>9, <2>1, <2>2, <3>1
    <3> QED
      BY <1>9, <1>22, <3>1, <3>2
  <2>4. i # j
    BY <1>4, <2>1, <2>2
  <2> QED
    BY <1>18, <1>29, <1>31, <2>1, <2>2, <2>3, <2>4
<1>34. ASSUME NEW i \in DOMAIN out, out[i].seed
       PROVE  \E k \in DOMAIN Seeds(clock) : /\ Seeds(clock)[k].cue = out[i].cue
                                             /\ Seeds(clock)[k].kind = out[i].kind
  <2>1. PICK k \in DOMAIN d : out[i] = d[k]
    BY <1>15, <1>26, <1>29, <1>31
  <2>2. ~(k \in 1 .. p)
    BY <1>10, <1>12, <1>34, <2>1
  <2>3. k - p \in 1 .. Len(s) /\ p + (k - p) = k
    BY <1>5, <1>9, <1>13, <2>2
  <2>4. out[i] = s[k - p] /\ k - p \in DOMAIN s
    BY <1>5, <1>12, <2>1, <2>3
  <2> QED
    BY <1>1, <2>4
<1>35. HasSeeds(out, {clock})
  BY <1>22, <1>31, <1>33, <1>34 DEF HasSeeds
<1> QED
  BY <1>23, <1>32, <1>35

\* What a kept list says of an item by K2 is what one row of a reply said of the
\* item in that place.
SaysOf(judged, items, reply) ==
    \A k \in DOMAIN judged :
        judged[k].by = "ifm" =>
            \E r \in DOMAIN reply :
                /\ reply[r].i + 1 \in DOMAIN items
                /\ items[reply[r].i + 1].cue = judged[k].cue
                /\ judged[k].seed \/ reply[r].stashable
                /\ judged[k].score = Max({0, Min({10, reply[r].score})})

\* A list that is judged keeps its seeds, as they were named by hand.
KeepsSeeds(judged, items) ==
    /\ \E n \in Nat : DOMAIN judged = 1 .. n
    /\ \A m \in DOMAIN judged : judged[m].seed =>
           \E i \in DOMAIN items : /\ items[i].seed
                                  /\ judged[m].cue = items[i].cue
                                  /\ judged[m].kind = items[i].kind
    /\ \A i, j \in DOMAIN items :
           i # j /\ items[i].seed /\ items[j].seed =>
               \E m, n \in DOMAIN judged : m # n /\ judged[m].seed /\ judged[n].seed

LEMMA BoundedScore ==
  ASSUME NEW x \in Int
  PROVE  Max({0, Min({10, x})}) \in Int
<1>1. PICK y : y = Min({10, x})
  OBVIOUS
<1>2. y \in Int
  <2>1. \E a \in {10, x} : \A b \in {10, x} : a =< b
    OBVIOUS
  <2>2. y \in {10, x}
    BY <1>1, <2>1 DEF Min
  <2> QED
    BY <2>2
<1>3. \E a \in {0, y} : \A b \in {0, y} : a >= b
  BY <1>2
<1>4. Max({0, y}) \in {0, y}
  BY <1>3 DEF Max
<1> QED
  BY <1>1, <1>2, <1>4

\* A verdict is one row's, about the item whose place it has.
LEMMA VerdictIsARow ==
  ASSUME NEW reply \in Replies, NEW n \in Nat, NEW i \in DOMAIN Verdicts(reply, n)
  PROVE  /\ i \in 1 .. n
         /\ \E r \in DOMAIN reply :
               /\ reply[r].i \in Int /\ reply[r].i + 1 = i
               /\ Verdicts(reply, n)[i].stashable = reply[r].stashable
               /\ Verdicts(reply, n)[i].score = Max({0, Min({10, reply[r].score})})
               /\ Verdicts(reply, n)[i].score \in Int
<1>1. reply \in Seq(Rows)
  BY HappeningsAssumptions
<1>2. DOMAIN reply = 1 .. Len(reply) /\ Len(reply) \in Nat
  BY <1>1
<1>3. i \in 1 .. n /\ RowsFor(reply, i) # {}
  BY DEF Verdicts
<1>4. RowsFor(reply, i) \subseteq 1 .. Len(reply)
  BY <1>2 DEF RowsFor
<1>5. PICK r : r = Min(RowsFor(reply, i))
  OBVIOUS
<1>6. r \in RowsFor(reply, i)
  BY <1>2, <1>3, <1>4, <1>5, LeastRow
<1>7. r \in DOMAIN reply /\ reply[r].i = i - 1
  BY <1>6 DEF RowsFor
<1>8. reply[r] \in Rows
  BY <1>1, <1>2, <1>7
<1>9. PICK row : row = reply[r]
  OBVIOUS
<1>10. PICK score : score = Max({0, Min({10, row.score})})
  OBVIOUS
<1>11. PICK kind : kind = IF row.kind \in AlertKinds THEN row.kind ELSE "news"
  OBVIOUS
<1>12. PICK verdict : verdict = Verdicts(reply, n)[i]
  OBVIOUS
<1>13. verdict = [row EXCEPT !.kind = kind, !.score = score]
  BY <1>3, <1>5, <1>9, <1>10, <1>11, <1>12 DEF Verdicts
<1>14. verdict.stashable = row.stashable /\ verdict.score = score
  BY <1>8, <1>9, <1>13 DEF Rows
<1>15. row.score \in Int /\ row.i \in Int /\ i - 1 + 1 = i
  BY <1>3, <1>8, <1>9 DEF Rows
<1>16. score \in Int
  BY <1>10, <1>15, BoundedScore
<1> QED
  BY <1>3, <1>7, <1>9, <1>10, <1>12, <1>14, <1>15, <1>16

\* Judging a list leaves every verdict with its item, and every seed on it.
LEMMA JudgedOwn ==
  ASSUME NEW items, IsList(items), NEW reply \in Replies
  PROVE  /\ SaysOf(Judged(items, Verdicts(reply, Len(items))), items, reply)
         /\ KeepsSeeds(Judged(items, Verdicts(reply, Len(items))), items)
<1>1. Len(items) \in Nat /\ DOMAIN items = 1 .. Len(items)
  BY ListShape
<1>2. PICK verdicts : verdicts = Verdicts(reply, Len(items))
  OBVIOUS
<1> DEFINE kept == {i \in DOMAIN items : \/ i \notin DOMAIN verdicts
                                         \/ items[i].seed \/ verdicts[i].stashable}
           scored == [i \in kept |->
               IF i \notin DOMAIN verdicts THEN items[i]
               ELSE [items[i] EXCEPT
                        !.kind = IF items[i].seed THEN @ ELSE verdicts[i].kind,
                        !.score = verdicts[i].score, !.by = "ifm"]]
           score == [i \in kept |-> scored[i].score]
           order == Ranked(kept, score)
           judged == Judged(items, verdicts)
<1>3. kept = {i \in DOMAIN items : \/ i \notin DOMAIN verdicts
                                   \/ items[i].seed \/ verdicts[i].stashable}
  OBVIOUS
<1>4. scored = [i \in kept |->
          IF i \notin DOMAIN verdicts THEN items[i]
          ELSE [items[i] EXCEPT
                   !.kind = IF items[i].seed THEN @ ELSE verdicts[i].kind,
                   !.score = verdicts[i].score, !.by = "ifm"]]
  OBVIOUS
<1>5. score = [i \in kept |-> scored[i].score]
  OBVIOUS
<1>6. order = Ranked(kept, score)
  OBVIOUS
<1>7. judged = Judged(items, verdicts)
  OBVIOUS
<1>8. judged = [n \in DOMAIN order |-> scored[order[n]]]
  BY DEF Judged
<1> HIDE DEF kept, scored, score, order, judged
<1>9. ASSUME NEW i \in kept, i \notin DOMAIN verdicts
      PROVE  /\ scored[i].by # "ifm" /\ scored[i].score \in Int
             /\ i \in DOMAIN items /\ scored[i] = items[i]
  <2>1. scored[i] = items[i] /\ i \in DOMAIN items
    BY <1>3, <1>4, <1>9
  <2>2. IsItem(items[i])
    BY <2>1 DEF IsList
  <2>3. items[i].by = "rules" /\ items[i].score = RuleScore
    BY <2>2 DEF IsItem
  <2>4. RuleScore \in Int
    BY DEF RuleScore
  <2> QED
    BY <2>1, <2>3, <2>4
<1>10. ASSUME NEW i \in kept, i \in DOMAIN verdicts
       PROVE  /\ i \in DOMAIN items /\ (items[i].seed \/ verdicts[i].stashable)
              /\ scored[i].cue = items[i].cue /\ scored[i].seed = items[i].seed
              /\ scored[i].score = verdicts[i].score
              /\ items[i].seed => scored[i].kind = items[i].kind
  <2>1. i \in DOMAIN items /\ (items[i].seed \/ verdicts[i].stashable)
    BY <1>3, <1>10
  <2>2. PICK kind : kind = IF items[i].seed THEN items[i].kind ELSE verdicts[i].kind
    OBVIOUS
  <2>3. scored[i] = [items[i] EXCEPT !.kind = kind, !.score = verdicts[i].score,
                                     !.by = "ifm"]
    BY <1>4, <1>10, <2>2
  <2>4. IsItem(items[i])
    BY <2>1 DEF IsList
  <2>5. PICK cue, seed, old :
            /\ items[i] = [cue |-> cue, kind |-> old, seed |-> seed,
                           score |-> RuleScore, by |-> "rules"]
            /\ cue = items[i].cue /\ seed = items[i].seed /\ old = items[i].kind
    BY <2>4 DEF IsItem
  <2>6. scored[i] = [cue |-> cue, kind |-> kind, seed |-> seed,
                     score |-> verdicts[i].score, by |-> "ifm"]
    BY <2>3, <2>5
  <2> QED
    BY <2>1, <2>2, <2>5, <2>6
<1>11. ASSUME NEW i \in kept, i \in DOMAIN verdicts
       PROVE  \E r \in DOMAIN reply :
                 /\ reply[r].i + 1 = i
                 /\ verdicts[i].stashable = reply[r].stashable
                 /\ verdicts[i].score = Max({0, Min({10, reply[r].score})})
                 /\ verdicts[i].score \in Int
  <2>1. i \in DOMAIN Verdicts(reply, Len(items)) /\ Len(items) \in Nat
    BY <1>1, <1>2, <1>11
  <2>2. PICK r \in DOMAIN reply :
           /\ reply[r].i + 1 = i
           /\ Verdicts(reply, Len(items))[i].stashable = reply[r].stashable
           /\ Verdicts(reply, Len(items))[i].score = Max({0, Min({10, reply[r].score})})
           /\ Verdicts(reply, Len(items))[i].score \in Int
    BY <2>1, VerdictIsARow
  <2> QED
    BY <1>2, <2>2
<1>12. \A i \in kept : score[i] \in Int
  BY <1>5, <1>9, <1>10, <1>11
<1>13. kept \subseteq 1 .. Len(items)
  BY <1>1, <1>3
<1>14. /\ DOMAIN order = 1 .. Cardinality(kept) /\ Cardinality(kept) \in Nat
       /\ \A m \in DOMAIN order : order[m] \in kept
       /\ \A i \in kept :
              /\ Cardinality(Ahead(kept, score, i)) + 1 \in 1 .. Cardinality(kept)
              /\ order[Cardinality(Ahead(kept, score, i)) + 1] = i
  BY <1>1, <1>6, <1>12, <1>13, RankedIn
<1>15. ASSUME NEW m \in DOMAIN judged, judged[m].by = "ifm"
       PROVE  \E r \in DOMAIN reply :
                 /\ reply[r].i + 1 \in DOMAIN items
                 /\ items[reply[r].i + 1].cue = judged[m].cue
                 /\ judged[m].seed \/ reply[r].stashable
                 /\ judged[m].score = Max({0, Min({10, reply[r].score})})
  <2>1. PICK i : i = order[m]
    OBVIOUS
  <2>2. i \in kept /\ judged[m] = scored[i]
    BY <1>8, <1>14, <2>1
  <2>3. i \in DOMAIN verdicts
    BY <1>9, <1>15, <2>2
  <2>4. PICK r \in DOMAIN reply :
           /\ reply[r].i + 1 = i
           /\ verdicts[i].stashable = reply[r].stashable
           /\ verdicts[i].score = Max({0, Min({10, reply[r].score})})
    BY <1>11, <2>2, <2>3
  <2>5. /\ i \in DOMAIN items /\ (items[i].seed \/ verdicts[i].stashable)
        /\ scored[i].cue = items[i].cue /\ scored[i].seed = items[i].seed
        /\ scored[i].score = verdicts[i].score
    BY <1>10, <2>2, <2>3
  <2> QED
    BY <2>2, <2>4, <2>5
<1>16. DOMAIN judged = DOMAIN order
  BY <1>8
<1>17. ASSUME NEW i \in kept
       PROVE  /\ i \in DOMAIN items /\ scored[i].cue = items[i].cue
              /\ scored[i].seed = items[i].seed
              /\ items[i].seed => scored[i].kind = items[i].kind
  BY <1>9, <1>10
<1>18. ASSUME NEW m \in DOMAIN judged, judged[m].seed
       PROVE  \E i \in DOMAIN items : /\ items[i].seed
                                      /\ judged[m].cue = items[i].cue
                                      /\ judged[m].kind = items[i].kind
  <2>1. PICK i : i = order[m]
    OBVIOUS
  <2>2. i \in kept /\ judged[m] = scored[i]
    BY <1>8, <1>14, <1>16, <2>1
  <2> QED
    BY <1>17, <1>18, <2>2
<1>19. ASSUME NEW i \in DOMAIN items, items[i].seed
       PROVE  \E m \in DOMAIN judged : order[m] = i /\ judged[m].seed
  <2>1. i \in kept
    BY <1>3, <1>19
  <2>2. PICK m \in DOMAIN judged : order[m] = i
    BY <1>14, <1>16, <2>1
  <2>3. judged[m] = scored[i]
    BY <1>8, <1>16, <2>2
  <2> QED
    BY <1>17, <1>19, <2>1, <2>2, <2>3
<1>20. ASSUME NEW i \in DOMAIN items, NEW j \in DOMAIN items,
              i # j, items[i].seed, items[j].seed
       PROVE  \E m, n \in DOMAIN judged : m # n /\ judged[m].seed /\ judged[n].seed
  BY <1>19, <1>20
<1>21. KeepsSeeds(judged, items)
  BY <1>14, <1>16, <1>18, <1>20 DEF KeepsSeeds
<1>22. SaysOf(judged, items, reply)
  BY <1>15 DEF SaysOf
<1> QED
  BY <1>2, <1>7, <1>21, <1>22

\* A list that keeps the rules' word says nothing of K2's.
LEMMA UnjudgedOwn ==
  ASSUME NEW items, IsList(items), NEW reply
  PROVE  SaysOf(items, items, reply)
<1>1. \A k \in DOMAIN items : items[k].by = "rules"
  BY DEF IsList, IsItem
<1> QED
  BY <1>1 DEF SaysOf

-----------------------------------------------------------------------------
(* No item gets the verdict of another                                     *)

\* Verdicts that are cached are a reply's, on as many cues as they are filed
\* under.
EntryOwn(entry) ==
    entry.key[1] = "curate" =>
        \E reply \in Replies : entry.value = Verdicts(reply, Len(entry.key[2]))

\* Only a request for a list asks for verdicts, on the very cues of its list.
OwnInv ==
    /\ loads = [l \in Others |-> loads[l]]
    /\ \A i \in DOMAIN cache : EntryOwn(cache[i])
    /\ \A c \in Callers : asks[c].pc # "idle" => asks[c].key[1] # "curate"
    /\ \A l \in Others : asks[l].pc # "idle" =>
           IsList(loads[l]) /\ asks[l].key = CurateKey(loads[l])

\* The cues a list is filed under are as many as its items.
LEMMA KeyLength ==
  ASSUME NEW items, IsList(items)
  PROVE  CurateKey(items)[1] = "curate" /\ Len(CurateKey(items)[2]) = Len(items)
<1>1. Len(items) \in Nat /\ DOMAIN items = 1 .. Len(items)
  BY ListShape
<1>2. PICK cues : cues = [i \in DOMAIN items |-> items[i].cue]
  OBVIOUS
<1>3. Len(cues) = Len(items)
  BY <1>1, <1>2
<1>4. CurateKey(items) = <<"curate", cues>>
  BY <1>2 DEF CurateKey
<1> QED
  BY <1>3, <1>4

LEMMA ForgottenOwn ==
  ASSUME OwnInv, Within(cache', cache), NEW i \in DOMAIN cache'
  PROVE  EntryOwn(cache'[i])
  BY DEF OwnInv, Within

LEMMA RememberedOwn ==
  ASSUME PromptsInv, OwnInv, NEW key, NEW value, cache' = Remembered(key, value),
         key[1] = "curate" =>
             \E reply \in Replies : value = Verdicts(reply, Len(key[2])),
         NEW i \in DOMAIN cache'
  PROVE  EntryOwn(cache'[i])
<1>1. IsCache(cache)
  BY CacheTypeBounded
<1>2. PICK entry : entry = [key |-> key, at |-> clock, value |-> value]
  OBVIOUS
<1>3. cache'[i] = entry \/ \E j \in DOMAIN cache : cache'[i] = cache[j]
  BY <1>1, <1>2, RememberedIsCache
<1>4. entry.key = key /\ entry.value = value
  BY <1>2
<1>5. EntryOwn(entry)
  BY <1>4 DEF EntryOwn
<1>6. \A j \in DOMAIN cache : EntryOwn(cache[j])
  BY DEF OwnInv
<1> QED
  BY <1>3, <1>5, <1>6

\* What the invariant asks of a step of one asker.
LEMMA OwnStep ==
  ASSUME PromptsInv, OwnInv, NEW a \in Askers, NEW r,
         asks' = [asks EXCEPT ![a] = r],
         \A i \in DOMAIN cache' : EntryOwn(cache'[i]),
         a \in Callers /\ r.pc # "idle" => r.key[1] # "curate",
         a \in Others /\ r.pc # "idle" =>
             IsList(loads'[a]) /\ r.key = CurateKey(loads'[a]),
         loads' = [l \in Others |-> loads'[l]],
         \A l \in Others \ {a} : loads'[l] = loads[l]
  PROVE  OwnInv'
<1>1. \A b \in Askers : asks'[b] = IF b = a THEN r ELSE asks[b]
  BY DEF PromptsInv, PromptsTypeOK
<1>2. \A c \in Callers : asks'[c].pc # "idle" => asks'[c].key[1] # "curate"
  BY <1>1 DEF OwnInv, Askers
<1>3. \A l \in Others : asks'[l].pc # "idle" =>
          IsList(loads'[l]) /\ asks'[l].key = CurateKey(loads'[l])
  BY <1>1 DEF OwnInv, Askers
<1> QED
  BY <1>2, <1>3 DEF OwnInv

\* A conversation goes on about what it was begun about.
LEMMA AskStepKey ==
  ASSUME PromptsInv, NEW a \in Askers, AskStep(a)
  PROVE  /\ asks[a].pc # "idle" /\ cache' = cache
         /\ \E r : asks' = [asks EXCEPT ![a] = r] /\ r.key = asks[a].key
<1>1. /\ cache' = cache /\ asks[a].pc # "idle"
      /\ (\E ids : Send(a, ids)) \/ (\E pc : Goto(a, pc))
  BY DEF AskStep, Resolve, ListModels, Answered, Retried
<1> QED
  BY <1>1, SendAsk, GotoAsk

LEMMA OwnInit == HappeningsInit => OwnInv
<1> SUFFICES ASSUME HappeningsInit PROVE OwnInv
  OBVIOUS
<1>1. /\ cache = <<>> /\ loads = [l \in Others |-> None]
      /\ asks = [a \in Askers |-> Idle]
  BY DEF HappeningsInit, Init
<1>2. \A a \in Callers \cup Others : asks[a].pc = "idle"
  BY <1>1, IdleAsk DEF Askers
<1> QED
  BY <1>1, <1>2 DEF OwnInv

\* compose, and the workers of a shelf, ask for nothing a list is filed under.
LEMMA PromptsKeepOwn ==
  ASSUME PromptsInv, OwnInv, PromptsNext, loads' = loads
  PROVE  OwnInv'
<1>1. loads' = [l \in Others |-> loads'[l]]
  BY DEF OwnInv
<1>2. \A i \in DOMAIN cache : EntryOwn(cache[i])
  BY DEF OwnInv
<1>3. IsCache(cache)
  BY CacheTypeBounded
<1>4. ASSUME UNCHANGED <<asks, cache>> PROVE OwnInv'
  BY <1>4 DEF OwnInv
<1>5. ASSUME NEW a \in Askers, AskStep(a) PROVE OwnInv'
  <2>1. /\ asks[a].pc # "idle" /\ cache' = cache
        /\ \E r : asks' = [asks EXCEPT ![a] = r] /\ r.key = asks[a].key
    BY <1>5, AskStepKey
  <2>2. PICK r : asks' = [asks EXCEPT ![a] = r] /\ r.key = asks[a].key
    BY <2>1
  <2>3. a \in Callers => r.key[1] # "curate"
    BY <2>1, <2>2 DEF OwnInv
  <2>4. a \in Others => IsList(loads'[a]) /\ r.key = CurateKey(loads'[a])
    BY <2>1, <2>2 DEF OwnInv
  <2> QED
    BY <1>1, <1>2, <2>1, <2>2, <2>3, <2>4, OwnStep
<1>6. ASSUME NEW c \in Callers, NEW key \in Keys, Compose(c, key) PROVE OwnInv'
  <2>1. c \in Askers /\ c \notin Others /\ key[1] # "curate"
    BY HappeningsAssumptions DEF Askers
  <2>2. Forget(key) /\ StartAsk(c, key)
    BY <1>6 DEF Compose
  <2>3. Within(cache', cache)
    BY <1>3, <2>2, ForgottenIsCache
  <2>4. \A i \in DOMAIN cache' : EntryOwn(cache'[i])
    BY <2>3, ForgottenOwn
  <2>5. PICK r : asks' = [asks EXCEPT ![c] = r] /\ r.key = key
    BY <2>1, <2>2, StartAsks
  <2> QED
    BY <1>1, <2>1, <2>4, <2>5, OwnStep
<1>7. ASSUME NEW c \in Callers, Composed(c) PROVE OwnInv'
  <2>1. c \in Askers /\ c \notin Others
    BY HappeningsAssumptions DEF Askers
  <2>2. asks' = [asks EXCEPT ![c] = Idle] /\ asks[c].pc # "idle"
    BY <1>7 DEF Composed
  <2>3. asks[c].key[1] # "curate"
    BY <2>2 DEF OwnInv
  <2>4. cache' = cache \/ cache' = Remembered(asks[c].key, None)
    BY <1>7 DEF Composed
  <2>5. \A i \in DOMAIN cache' : EntryOwn(cache'[i])
    BY <1>2, <2>3, <2>4, RememberedOwn
  <2> QED
    BY <1>1, <2>1, <2>2, <2>5, IdleAsk, OwnStep
<1>8. ASSUME NEW w \in Workers PROVE w \in Askers /\ w \notin Callers /\ w \notin Others
  BY PromptsAssumptions DEF Askers
<1>9. ASSUME NEW w \in Workers, Take(w) PROVE OwnInv'
  <2>1. \/ UNCHANGED <<cache, asks>>
        \/ \E key : Forget(key) /\ StartAsk(w, key)
    BY <1>9 DEF Take
  <2>2. ASSUME NEW key, Forget(key), StartAsk(w, key) PROVE OwnInv'
    <3>1. Within(cache', cache)
      BY <1>3, <2>2, ForgottenIsCache
    <3>2. \A i \in DOMAIN cache' : EntryOwn(cache'[i])
      BY <3>1, ForgottenOwn
    <3>3. PICK r : asks' = [asks EXCEPT ![w] = r]
      BY <1>8, <2>2, StartAsks
    <3> QED
      BY <1>1, <1>8, <3>2, <3>3, OwnStep
  <2> QED
    BY <1>4, <2>1, <2>2
<1>10. ASSUME NEW w \in Workers, CardDone(w) PROVE OwnInv'
  <2>1. PICK i : i = shelf.slots[w]
    OBVIOUS
  <2>2. /\ asks' = [asks EXCEPT ![w] = Idle] /\ asks[w].pc # "idle"
        /\ cache' = cache \/ cache' = Remembered(Cards[i], i)
    BY <1>10, <2>1 DEF CardDone
  <2>3. shelf # None /\ i # None
    BY <2>1, <2>2 DEF PromptsInv, ShelfInv, Working
  <2>4. i \in DOMAIN Cards
    BY <2>1, <2>3, ShelfType DEF ShelfRequest, Slot
  <2>5. Cards[i][1] # "curate"
    BY <2>4, HappeningsAssumptions DEF Range
  <2>6. \A j \in DOMAIN cache' : EntryOwn(cache'[j])
    BY <1>2, <2>2, <2>5, RememberedOwn
  <2> QED
    BY <1>1, <1>8, <2>2, <2>6, OwnStep
<1>11. ASSUME Advance \/ Diagnostics \/ ShelfAsked \/ ShelfAnswered PROVE OwnInv'
  BY <1>4, <1>11 DEF Advance, Diagnostics, ShelfAsked, ShelfAnswered
<1> QED
  BY <1>5, <1>6, <1>7, <1>9, <1>10, <1>11 DEF PromptsNext

\* A list that is kept is a list's judged by one reply, the request's own.
OwnVerdicts(l) ==
    /\ loads' = [loads EXCEPT ![l] = None]
    /\ \E given \in Given(l), reply \in Replies : SaysOf(school'.items, given, reply)

LEMMA LoadKeepsOwn ==
  ASSUME PromptsInv, OwnInv, NEW l \in Others, LoadSchool(l)
  PROVE  OwnInv' /\ school' = school
<1>1. /\ loads' = [loads EXCEPT ![l] = <<>>] /\ asks[l] = Idle
      /\ UNCHANGED <<asks, cache, school>>
  BY DEF LoadSchool, vars
<1>2. \A o \in Others \ {l} : loads'[o] = loads[o]
  BY <1>1 DEF OwnInv
<1> QED
  BY <1>1, <1>2, IdleAsk DEF OwnInv

\* Verdicts in the cache are a reply's on the list that is asked about.
LEMMA CachedVerdicts ==
  ASSUME OwnInv, NEW items, IsList(items), Hit(CurateKey(items))
  PROVE  \E reply \in Replies :
             CachedValue(CurateKey(items)) = Verdicts(reply, Len(items))
<1>1. PICK key : key = CurateKey(items)
  OBVIOUS
<1>2. key[1] = "curate" /\ Len(key[2]) = Len(items)
  BY <1>1, KeyLength
<1>3. PICK i : i = CHOOSE j \in Fresh(key) : TRUE
  OBVIOUS
<1>4. i \in DOMAIN cache /\ cache[i].key = key /\ CachedValue(key) = cache[i].value
  BY <1>1, <1>3 DEF Hit, Fresh, CachedValue
<1>5. EntryOwn(cache[i])
  BY <1>4 DEF OwnInv
<1> QED
  BY <1>1, <1>2, <1>4, <1>5 DEF EntryOwn

LEMMA FeedsKeepOwn ==
  ASSUME PromptsInv, OwnInv, NEW l \in Others, FeedsIn(l)
  PROVE  OwnInv' /\ (school' # school => OwnVerdicts(l))
<1>1. PICK news \in NewsFeeds \cup {<<>>}, reddit \in RedditFeeds \cup {<<>>} :
          LET items == Merged(news, reddit)
              key == CurateKey(items)
          IN  IF Hit(key)
              THEN /\ Kept(l, Judged(items, CachedValue(key)))
                   /\ UNCHANGED <<cache, asks>>
              ELSE /\ loads' = [loads EXCEPT ![l] = items]
                   /\ Forget(key) /\ StartAsk(l, key)
                   /\ UNCHANGED school
  BY DEF FeedsIn
<1>2. PICK items : items = Merged(news, reddit)
  OBVIOUS
<1>3. PICK key : key = CurateKey(items)
  OBVIOUS
<1>4. IsList(items)
  BY <1>2, MergedList
<1>5. key[1] = "curate" /\ Len(key[2]) = Len(items)
  BY <1>3, <1>4, KeyLength
<1>6. l \in Askers /\ l \notin Callers
  BY HappeningsAssumptions DEF Askers
<1>7. asks[l] = Idle /\ loads[l] = <<>>
  BY DEF FeedsIn
<1>8. ASSUME NEW x, loads' = [loads EXCEPT ![l] = x]
      PROVE  /\ loads' = [o \in Others |-> loads'[o]] /\ loads'[l] = x
             /\ \A o \in Others \ {l} : loads'[o] = loads[o]
  BY <1>8 DEF OwnInv
<1>9. CASE Hit(key)
  <2>1. Kept(l, Judged(items, CachedValue(key))) /\ UNCHANGED <<cache, asks>>
    BY <1>1, <1>2, <1>3, <1>9
  <2>2. PICK reply \in Replies : CachedValue(key) = Verdicts(reply, Len(items))
    BY <1>3, <1>4, <1>9, CachedVerdicts
  <2>3. school'.items = Judged(items, Verdicts(reply, Len(items)))
    BY <2>1, <2>2 DEF Kept
  <2>4. SaysOf(school'.items, items, reply)
    BY <1>4, <2>3, JudgedOwn
  <2>5. items \in Given(l)
    BY <1>2, <1>7 DEF Given
  <2>6. loads' = [loads EXCEPT ![l] = None]
    BY <2>1 DEF Kept
  <2>7. OwnVerdicts(l)
    BY <2>4, <2>5, <2>6 DEF OwnVerdicts
  <2>8. OwnInv'
    BY <1>7, <1>8, <2>1, <2>6, IdleAsk DEF OwnInv
  <2> QED
    BY <2>7, <2>8
<1>10. CASE ~Hit(key)
  <2>1. /\ loads' = [loads EXCEPT ![l] = items]
        /\ Forget(key) /\ StartAsk(l, key) /\ UNCHANGED school
    BY <1>1, <1>2, <1>3, <1>10
  <2>2. Within(cache', cache)
    BY <2>1, CacheTypeBounded, ForgottenIsCache
  <2>3. \A i \in DOMAIN cache' : EntryOwn(cache'[i])
    BY <2>2, ForgottenOwn
  <2>4. PICK r : asks' = [asks EXCEPT ![l] = r] /\ r.key = key
    BY <1>6, <2>1, StartAsks
  <2>5. OwnInv'
    BY <1>3, <1>4, <1>6, <1>8, <2>1, <2>3, <2>4, OwnStep
  <2> QED
    BY <2>1, <2>5
<1> QED
  BY <1>9, <1>10

LEMMA CuratedKeepsOwn ==
  ASSUME PromptsInv, OwnInv, NEW l \in Others, Curated(l)
  PROVE  OwnInv' /\ OwnVerdicts(l)
<1>1. PICK items : items = loads[l]
  OBVIOUS
<1>2. /\ asks[l].pc # "idle" /\ asks' = [asks EXCEPT ![l] = Idle]
      /\ \/ Kept(l, items) /\ UNCHANGED cache
         \/ \E reply \in Replies :
               /\ cache' = Remembered(asks[l].key, Verdicts(reply, Len(items)))
               /\ Kept(l, Judged(items, Verdicts(reply, Len(items))))
  BY <1>1 DEF Curated
<1>3. IsList(items) /\ asks[l].key = CurateKey(items)
  BY <1>1, <1>2 DEF OwnInv
<1>4. Len(asks[l].key[2]) = Len(items)
  BY <1>3, KeyLength
<1>5. l \in Askers /\ l \notin Callers
  BY HappeningsAssumptions DEF Askers
<1>6. loads' = [loads EXCEPT ![l] = None]
  BY <1>2 DEF Kept
<1>7. /\ loads' = [o \in Others |-> loads'[o]]
      /\ \A o \in Others \ {l} : loads'[o] = loads[o]
  BY <1>6 DEF OwnInv
<1>8. \A i \in DOMAIN cache' : EntryOwn(cache'[i])
  <2>1. CASE cache' = cache
    BY <2>1 DEF OwnInv
  <2>2. ASSUME NEW reply \in Replies,
               cache' = Remembered(asks[l].key, Verdicts(reply, Len(items)))
        PROVE  \A i \in DOMAIN cache' : EntryOwn(cache'[i])
    BY <1>4, <2>2, RememberedOwn
  <2> QED
    BY <1>2, <2>1, <2>2
<1>9. OwnInv'
  BY <1>2, <1>5, <1>7, <1>8, IdleAsk, OwnStep
<1>10. \E reply \in Replies : SaysOf(school'.items, items, reply)
  <2>1. CASE Kept(l, items)
    <3>1. PICK reply : reply \in Replies
      BY HappeningsAssumptions
    <3>2. school'.items = items
      BY <2>1 DEF Kept
    <3> QED
      BY <1>3, <3>1, <3>2, UnjudgedOwn
  <2>2. ASSUME NEW reply \in Replies,
               Kept(l, Judged(items, Verdicts(reply, Len(items))))
        PROVE  SaysOf(school'.items, items, reply)
    <3>1. school'.items = Judged(items, Verdicts(reply, Len(items)))
      BY <2>2 DEF Kept
    <3> QED
      BY <1>3, <3>1, JudgedOwn
  <2> QED
    BY <1>2, <2>1, <2>2
<1>11. \E given \in Given(l), reply \in Replies : SaysOf(school'.items, given, reply)
  <2>1. CASE items # <<>>
    <3>1. items \in Given(l)
      BY <1>1, <2>1 DEF Given
    <3> QED
      BY <1>10, <3>1
  <2>2. CASE items = <<>>
    <3>1. PICK reply \in Replies : SaysOf(school'.items, items, reply)
      BY <1>10
    <3>2. \A given : SaysOf(school'.items, given, reply)
      BY <2>2, <3>1 DEF SaysOf
    <3>3. Merged(<<>>, <<>>) \in Given(l)
      BY <1>1, <2>2 DEF Given
    <3> QED
      BY <3>1, <3>2, <3>3
  <2> QED
    BY <2>1, <2>2
<1> QED
  BY <1>6, <1>9, <1>11 DEF OwnVerdicts

LEMMA HappeningsKeepOwn ==
  ASSUME PromptsInv, OwnInv, [HappeningsNext]_hvars
  PROVE  OwnInv' /\ (school' # school => \E l \in Others : OwnVerdicts(l))
<1>1. CASE PromptsNext /\ UNCHANGED <<school, loads>>
  BY <1>1, PromptsKeepOwn
<1>2. CASE \E l \in Others : LoadSchool(l) \/ FeedsIn(l) \/ Curated(l)
  BY <1>2, LoadKeepsOwn, FeedsKeepOwn, CuratedKeepsOwn
<1>3. CASE UNCHANGED hvars
  BY <1>3 DEF OwnInv, hvars, vars
<1> QED
  BY <1>1, <1>2, <1>3 DEF HappeningsNext

LEMMA OwnInvariance == HappeningsSpec => []OwnInv
  BY HappeningsKeepOwn, OwnInit, PromptsInvariance, PTL DEF HappeningsSpec

\* No item on a school's list has the verdict of another, and nothing scraped
\* that K2 found unfit is on it: for any feeds, replies and requests that judge
\* side by side, whether the verdicts are new or were cached.
THEOREM VerdictsAreOwn == HappeningsSpec => VerdictsOwn
<1>1. ASSUME PromptsInv, OwnInv, [HappeningsNext]_hvars, school' # school
      PROVE  \E l \in Others :
                 /\ loads' = [loads EXCEPT ![l] = None]
                 /\ \E given \in Given(l), reply \in Replies :
                       SaysOf(school'.items, given, reply)
  BY <1>1, HappeningsKeepOwn DEF OwnVerdicts
<1> QED
  BY <1>1, OwnInvariance, PromptsInvariance, PTL DEF HappeningsSpec, VerdictsOwn, SaysOf

-----------------------------------------------------------------------------
(* Seeds stay on the list                                                  *)

\* The list a request holds while K2 judges it, and the one that is kept, have
\* the seeds of days that have come.
SeedInv ==
    /\ clock \in Nat
    /\ \A l \in Others : asks[l].pc # "idle" => HasSeeds(loads[l], 0 .. clock)
    /\ school # None => HasSeeds(school.items, 0 .. clock)

LEMMA SeedsOfMoreDays ==
  ASSUME NEW items, NEW times, NEW more, HasSeeds(items, times), times \subseteq more
  PROVE  HasSeeds(items, more)
  BY DEF HasSeeds

LEMMA JudgedSeeds ==
  ASSUME NEW items, IsList(items), NEW reply \in Replies,
         NEW times, HasSeeds(items, times)
  PROVE  HasSeeds(Judged(items, Verdicts(reply, Len(items))), times)
<1>1. PICK judged : judged = Judged(items, Verdicts(reply, Len(items)))
  OBVIOUS
<1>2. KeepsSeeds(judged, items)
  BY <1>1, JudgedOwn
<1>3. ASSUME NEW m \in DOMAIN judged, judged[m].seed
      PROVE  \E t \in times : \E k \in DOMAIN Seeds(t) :
                 Seeds(t)[k].cue = judged[m].cue /\ Seeds(t)[k].kind = judged[m].kind
  <2>1. PICK i \in DOMAIN items : /\ items[i].seed
                                 /\ judged[m].cue = items[i].cue
                                 /\ judged[m].kind = items[i].kind
    BY <1>2, <1>3 DEF KeepsSeeds
  <2>2. PICK t \in times : \E k \in DOMAIN Seeds(t) :
            Seeds(t)[k].cue = items[i].cue /\ Seeds(t)[k].kind = items[i].kind
    BY <2>1 DEF HasSeeds
  <2> QED
    BY <2>1, <2>2
<1>4. \E m, n \in DOMAIN judged : m # n /\ judged[m].seed /\ judged[n].seed
  BY <1>2 DEF KeepsSeeds, HasSeeds
<1>5. \E n \in Nat : DOMAIN judged = 1 .. n
  BY <1>2 DEF KeepsSeeds
<1>6. HasSeeds(judged, times)
  BY <1>3, <1>4, <1>5 DEF HasSeeds
<1> QED
  BY <1>1, <1>6

\* Two places of a list are two of its places.
LEMMA SeedsCounted ==
  ASSUME NEW items, NEW times, HasSeeds(items, times)
  PROVE  Cardinality({i \in DOMAIN items : items[i].seed}) >= 2
<1>1. PICK seeds : seeds = {i \in DOMAIN items : items[i].seed}
  OBVIOUS
<1>2. PICK n \in Nat : DOMAIN items = 1 .. n
  BY DEF HasSeeds
<1>3. PICK i, j \in DOMAIN items : i # j /\ items[i].seed /\ items[j].seed
  BY DEF HasSeeds
<1>4. IsFiniteSet(1 .. n)
  BY FS_Interval
<1>5. IsFiniteSet(seeds)
  BY <1>1, <1>2, <1>4, FS_Subset
<1>6. IsFiniteSet({i}) /\ Cardinality({i}) = 1
  BY FS_Singleton
<1>7. Cardinality({i} \cup {j}) = 1 + 1
  BY <1>3, <1>6, FS_AddElement
<1>8. {i} \cup {j} \in SUBSET seeds
  BY <1>1, <1>3
<1>9. /\ Cardinality({i} \cup {j}) <= Cardinality(seeds)
      /\ Cardinality(seeds) \in Nat
  BY <1>5, <1>8, FS_Subset, FS_CardinalityType
<1> QED
  BY <1>1, <1>7, <1>9

LEMMA SeedInit == HappeningsInit => SeedInv
  BY IdleAsk DEF HappeningsInit, Init, SeedInv, Askers

\* compose, and the workers of a shelf, leave a list that is judged alone.
LEMMA PromptsKeepSeeds ==
  ASSUME PromptsInv, SeedInv, PromptsNext, UNCHANGED <<school, loads>>
  PROVE  SeedInv'
<1>1. clock' \in Nat /\ 0 .. clock \subseteq 0 .. clock'
  <2>1. clock' = clock \/ clock' = clock + 1
    BY DEF PromptsNext, Advance, Diagnostics, ShelfAsked, ShelfAnswered, AskStep,
           Resolve, ListModels, Answered, Retried, Compose, Composed, Take, CardDone
  <2> QED
    BY <2>1 DEF SeedInv
<1>2. ASSUME NEW l \in Others, asks'[l].pc # "idle" PROVE asks[l].pc # "idle"
  <2>1. ASSUME NEW a \in Askers, AskStep(a) PROVE asks[l].pc # "idle"
    <3>1. asks[a].pc # "idle" /\ \E r : asks' = [asks EXCEPT ![a] = r]
      BY <2>1, AskStepKey
    <3> QED
      BY <1>2, <3>1 DEF PromptsInv, PromptsTypeOK
  <2>2. ASSUME NEW a \in Callers \cup Workers,
               \E r : asks' = [asks EXCEPT ![a] = r]
        PROVE  asks[l].pc # "idle"
    <3>1. a # l
      BY HappeningsAssumptions, PromptsAssumptions
    <3> QED
      BY <1>2, <2>2, <3>1 DEF PromptsInv, PromptsTypeOK
  <2>3. ASSUME NEW c \in Callers, Composed(c) \/ \E key \in Keys : Compose(c, key)
        PROVE  asks[l].pc # "idle"
    <3>1. c \in Askers
      BY DEF Askers
    <3>2. \E r : asks' = [asks EXCEPT ![c] = r]
      BY <2>3, <3>1, StartAsks DEF Composed, Compose
    <3> QED
      BY <2>2, <3>2
  <2>4. ASSUME NEW w \in Workers, Take(w) \/ CardDone(w)
        PROVE  asks[l].pc # "idle"
    <3>1. w \in Askers
      BY DEF Askers
    <3>2. asks' = asks \/ \E r : asks' = [asks EXCEPT ![w] = r]
      BY <2>4, <3>1, StartAsks DEF Take, CardDone
    <3> QED
      BY <1>2, <2>2, <3>2
  <2>5. CASE asks' = asks
    BY <1>2, <2>5
  <2> QED
    BY <2>1, <2>3, <2>4, <2>5 DEF PromptsNext, Advance, Diagnostics, ShelfAsked,
                                 ShelfAnswered
<1>3. \A l \in Others : asks'[l].pc # "idle" => HasSeeds(loads'[l], 0 .. clock')
  BY <1>1, <1>2, SeedsOfMoreDays DEF SeedInv
<1>4. school' # None => HasSeeds(school'.items, 0 .. clock')
  BY <1>1, SeedsOfMoreDays DEF SeedInv
<1> QED
  BY <1>1, <1>3, <1>4 DEF SeedInv

\* What the invariant asks of a step of one request.
LEMMA SeedStep ==
  ASSUME PromptsInv, OwnInv, SeedInv, NEW l \in Others, NEW x, NEW r,
         clock' = clock, loads' = [loads EXCEPT ![l] = x],
         asks' = [asks EXCEPT ![l] = r],
         r.pc # "idle" => HasSeeds(x, 0 .. clock),
         school' # school => HasSeeds(school'.items, 0 .. clock)
  PROVE  SeedInv'
<1>1. \A o \in Others : asks'[o] = IF o = l THEN r ELSE asks[o]
  BY DEF PromptsInv, PromptsTypeOK, Askers
<1>2. \A o \in Others : loads'[o] = IF o = l THEN x ELSE loads[o]
  BY DEF OwnInv
<1>3. \A o \in Others : asks'[o].pc # "idle" => HasSeeds(loads'[o], 0 .. clock)
  BY <1>1, <1>2 DEF SeedInv
<1> QED
  BY <1>3 DEF SeedInv

LEMMA FeedsKeepSeeds ==
  ASSUME PromptsInv, OwnInv, SeedInv, NEW l \in Others, FeedsIn(l)
  PROVE  SeedInv'
<1>1. PICK news \in NewsFeeds \cup {<<>>}, reddit \in RedditFeeds \cup {<<>>} :
          LET items == Merged(news, reddit)
              key == CurateKey(items)
          IN  IF Hit(key)
              THEN /\ Kept(l, Judged(items, CachedValue(key)))
                   /\ UNCHANGED <<cache, asks>>
              ELSE /\ loads' = [loads EXCEPT ![l] = items]
                   /\ Forget(key) /\ StartAsk(l, key)
                   /\ UNCHANGED school
  BY DEF FeedsIn
<1>2. PICK items : items = Merged(news, reddit)
  OBVIOUS
<1>3. PICK key : key = CurateKey(items)
  OBVIOUS
<1>4. IsList(items) /\ HasSeeds(items, {clock})
  BY <1>2, MergedList
<1>5. HasSeeds(items, 0 .. clock)
  <2>1. {clock} \subseteq 0 .. clock
    BY DEF SeedInv
  <2> QED
    BY <1>4, <2>1, SeedsOfMoreDays
<1>6. clock' = clock /\ asks[l] = Idle
  BY DEF FeedsIn
<1>7. l \in Askers
  BY DEF Askers
<1>8. CASE Hit(key)
  <2>1. Kept(l, Judged(items, CachedValue(key))) /\ UNCHANGED <<cache, asks>>
    BY <1>1, <1>2, <1>3, <1>8
  <2>2. PICK reply \in Replies : CachedValue(key) = Verdicts(reply, Len(items))
    BY <1>3, <1>4, <1>8, CachedVerdicts
  <2>3. HasSeeds(school'.items, 0 .. clock)
    BY <1>4, <1>5, <2>1, <2>2, JudgedSeeds DEF Kept
  <2>4. loads' = [loads EXCEPT ![l] = None]
    BY <2>1 DEF Kept
  <2>5. asks' = [asks EXCEPT ![l] = Idle]
    BY <1>6, <2>1 DEF PromptsInv, PromptsTypeOK
  <2> QED
    BY <1>6, <2>3, <2>4, <2>5, IdleAsk, SeedStep
<1>9. CASE ~Hit(key)
  <2>1. /\ loads' = [loads EXCEPT ![l] = items]
        /\ StartAsk(l, key) /\ UNCHANGED school
    BY <1>1, <1>2, <1>3, <1>9
  <2>2. PICK r : asks' = [asks EXCEPT ![l] = r]
    BY <1>7, <2>1, StartAsks
  <2> QED
    BY <1>5, <1>6, <2>1, <2>2, SeedStep
<1> QED
  BY <1>8, <1>9

LEMMA CuratedKeepsSeeds ==
  ASSUME PromptsInv, OwnInv, SeedInv, NEW l \in Others, Curated(l)
  PROVE  SeedInv'
<1>1. PICK items : items = loads[l]
  OBVIOUS
<1>2. /\ asks[l].pc # "idle" /\ asks' = [asks EXCEPT ![l] = Idle]
      /\ clock' = clock
      /\ \/ Kept(l, items)
         \/ \E reply \in Replies :
               Kept(l, Judged(items, Verdicts(reply, Len(items))))
  BY <1>1 DEF Curated
<1>3. IsList(items) /\ HasSeeds(items, 0 .. clock)
  BY <1>1, <1>2 DEF OwnInv, SeedInv
<1>4. loads' = [loads EXCEPT ![l] = None]
  BY <1>2 DEF Kept
<1>5. HasSeeds(school'.items, 0 .. clock)
  <2>1. CASE Kept(l, items)
    BY <1>3, <2>1 DEF Kept
  <2>2. ASSUME NEW reply \in Replies,
               Kept(l, Judged(items, Verdicts(reply, Len(items))))
        PROVE  HasSeeds(school'.items, 0 .. clock)
    BY <1>3, <2>2, JudgedSeeds DEF Kept
  <2> QED
    BY <1>2, <2>1, <2>2
<1> QED
  BY <1>2, <1>4, <1>5, IdleAsk, SeedStep

\* Whatever the feeds hold and whatever K2 says of it, two of the seeds kept by
\* hand are on a school's list, and every seed there is of the kind it was given.
THEOREM SeedsStay == HappeningsSpec => []SeedsOnlyScored
<1>1. ASSUME PromptsInv, OwnInv, SeedInv, [HappeningsNext]_hvars
      PROVE  SeedInv'
  <2>1. CASE PromptsNext /\ UNCHANGED <<school, loads>>
    BY <1>1, <2>1, PromptsKeepSeeds
  <2>2. ASSUME NEW l \in Others, LoadSchool(l) PROVE SeedInv'
    <3>1. /\ loads' = [loads EXCEPT ![l] = <<>>] /\ asks[l] = Idle
          /\ UNCHANGED <<clock, asks, school>>
      BY <2>2 DEF LoadSchool, vars
    <3>2. asks' = [asks EXCEPT ![l] = Idle]
      BY <1>1, <3>1 DEF PromptsInv, PromptsTypeOK
    <3> QED
      BY <1>1, <3>1, <3>2, IdleAsk, SeedStep
  <2>3. ASSUME NEW l \in Others, FeedsIn(l) \/ Curated(l) PROVE SeedInv'
    BY <1>1, <2>3, FeedsKeepSeeds, CuratedKeepsSeeds
  <2>4. CASE UNCHANGED hvars
    BY <1>1, <2>4 DEF SeedInv, hvars, vars
  <2> QED
    BY <1>1, <2>1, <2>2, <2>3, <2>4 DEF HappeningsNext
<1>2. ASSUME SeedInv PROVE SeedsOnlyScored
  <2>1. PICK items : items = school.items
    OBVIOUS
  <2>2. ASSUME HasSeeds(items, 0 .. clock)
        PROVE  /\ Cardinality({i \in DOMAIN items : items[i].seed}) >= 2
               /\ \A i \in DOMAIN items : items[i].seed => SeedOf(items[i])
    <3>1. Cardinality({i \in DOMAIN items : items[i].seed}) >= 2
      BY <2>2, SeedsCounted
    <3>2. \A i \in DOMAIN items : items[i].seed => SeedOf(items[i])
      BY <2>2 DEF HasSeeds, SeedOf
    <3> QED
      BY <3>1, <3>2
  <2> QED
    BY <1>2, <2>1, <2>2 DEF SeedInv, SeedsOnlyScored
<1> QED
  BY <1>1, <1>2, SeedInit, OwnInvariance, PromptsInvariance, PTL DEF HappeningsSpec

-----------------------------------------------------------------------------
(* The last balanced block, in a text of any length                        *)

LEMMA MaxIsGreatest ==
    ASSUME NEW n \in Nat, NEW S, S \subseteq 1 .. n, S # {}
    PROVE  Max(S) \in S /\ \A k \in S : k <= Max(S)
<1> DEFINE Below == {n - i : i \in S}
<1>s. \A i \in S : i \in Nat /\ i <= n /\ n - i \in Nat  OBVIOUS
<1>1. Below \subseteq Nat /\ Below # {}  BY <1>s
<1>2. PICK d \in Below : \A e \in Below : ~(<<e, d>> \in OpToRel(<, Nat))
  BY <1>1, NatLessThanWellFounded, WFMin
<1>3. \A e \in Below : ~(e < d)
  <2> SUFFICES ASSUME NEW e \in Below, e < d PROVE FALSE
    OBVIOUS
  <2>1. <<e, d>> \in Nat \X Nat  BY <1>1
  <2>2. <<e, d>> \in OpToRel(<, Nat)  BY <2>1 DEF OpToRel
  <2> QED  BY <1>2, <2>2
<1>4. PICK i \in S : d = n - i  OBVIOUS
<1>5. ASSUME NEW k \in S PROVE i >= k
  <2>1. n - k \in Below  OBVIOUS
  <2>2. ~(n - k < n - i)  BY <2>1, <1>3, <1>4
  <2>3. i \in Int /\ k \in Int  BY <1>s
  <2> QED  BY <2>2, <2>3
<1>6. \A k \in S : Max(S) >= k /\ Max(S) \in S
  BY <1>5 DEF Max
<1> QED  BY <1>6, <1>s

LEMMA PlacesFinite ==
    \A raw, brace : \A i, k \in Int :
        IsFiniteSet(Places(raw, brace, i, k)) /\ Count(raw, brace, i, k) \in Nat
<1> SUFFICES ASSUME NEW raw, NEW brace, NEW i \in Int, NEW k \in Int
    PROVE  IsFiniteSet(Places(raw, brace, i, k)) /\ Count(raw, brace, i, k) \in Nat
  OBVIOUS
<1>1. IsFiniteSet(i .. k)  BY FS_Interval
<1>2. Places(raw, brace, i, k) \in SUBSET (i .. k)  BY DEF Places
<1>3. IsFiniteSet(Places(raw, brace, i, k))  BY <1>1, <1>2, FS_Subset
<1> QED  BY <1>3, FS_CardinalityType DEF Count

\* One step of the way back.
LEMMA CountGoesBack ==
    ASSUME NEW raw, NEW brace, NEW i \in Int, NEW k \in Int, i <= k
    PROVE  Count(raw, brace, i, k) =
               IF raw[i] = brace THEN Count(raw, brace, i + 1, k) + 1
               ELSE Count(raw, brace, i + 1, k)
<1> PICK S : S = Places(raw, brace, i + 1, k)  OBVIOUS
<1>0. i + 1 \in Int  OBVIOUS
<1>1. IsFiniteSet(S) /\ Cardinality(S) \in Nat
  BY <1>0, PlacesFinite DEF Count
<1>2. i \notin S  BY DEF Places
<1>3. \A n : n \in i .. k <=> n = i \/ n \in i + 1 .. k  OBVIOUS
<1>4. CASE raw[i] = brace
  <2>1. Places(raw, brace, i, k) = S \cup {i}  BY <1>3, <1>4 DEF Places
  <2>2. Cardinality(S \cup {i}) = Cardinality(S) + 1
    BY <1>1, <1>2, FS_AddElement
  <2> QED  BY <1>4, <2>1, <2>2 DEF Count
<1>5. CASE raw[i] # brace
  <2>1. Places(raw, brace, i, k) = S  BY <1>3, <1>5 DEF Places
  <2> QED  BY <1>1, <1>5, <2>1 DEF Count
<1> QED  BY <1>4, <1>5

LEMMA CountSplits ==
    ASSUME NEW raw, NEW brace, NEW i \in Int, NEW m \in Int, NEW k \in Int,
           i <= m, m <= k + 1
    PROVE  Count(raw, brace, i, k) =
               Count(raw, brace, i, m - 1) + Count(raw, brace, m, k)
<1> PICK L : L = Places(raw, brace, i, m - 1)  OBVIOUS
<1> PICK R : R = Places(raw, brace, m, k)  OBVIOUS
<1>0. m - 1 \in Int  OBVIOUS
<1>1. /\ IsFiniteSet(L) /\ Cardinality(L) \in Nat
      /\ IsFiniteSet(R) /\ Cardinality(R) \in Nat
  BY <1>0, PlacesFinite DEF Count
<1>2. /\ \A n : n \in i .. k <=> n \in i .. m - 1 \/ n \in m .. k
      /\ \A n : ~(n \in i .. m - 1 /\ n \in m .. k)
  OBVIOUS
<1>3. Places(raw, brace, i, k) = L \cup R /\ L \cap R = {}
  BY <1>2 DEF Places
<1>4. Cardinality(L \cup R) = Cardinality(L) + Cardinality(R) - Cardinality(L \cap R)
  BY <1>1, FS_Union
<1>5. Cardinality(L \cap R) = 0  BY <1>3, FS_EmptySet
<1>6. Cardinality(L \cup R) = Cardinality(L) + Cardinality(R)
  BY <1>1, <1>4, <1>5
<1> QED  BY <1>3, <1>6 DEF Count

\* A part of the text has the braces the text has there.
LEMMA CountInBlock ==
    ASSUME NEW raw, NEW block, NEW brace, NEW a \in Int, NEW n \in Nat,
           \A i \in 1 .. n : block[i] = raw[a + i - 1]
    PROVE  Count(block, brace, 1, n) = Count(raw, brace, a, a + n - 1)
<1> DEFINE Inner == Places(block, brace, 1, n)
           Outer == Places(raw, brace, a, a + n - 1)
           Place == [i \in Inner |-> a + i - 1]
<1>0. a + n - 1 \in Int  OBVIOUS
<1>i. \A i : i \in Inner <=> i \in 1 .. n /\ raw[a + i - 1] = brace
  BY DEF Places
<1>o. \A k : k \in Outer <=> k \in a .. a + n - 1 /\ raw[k] = brace
  BY DEF Places
<1>f. IsFiniteSet(Inner)  BY PlacesFinite
<1> HIDE DEF Inner, Outer
<1>1. \A i \in Inner : a + i - 1 \in Outer  BY <1>i, <1>o
<1>2. \A i, j \in Inner : a + i - 1 = a + j - 1 => i = j  BY <1>i
<1>3. ASSUME NEW k \in Outer PROVE \E i \in Inner : k = a + i - 1
  <2>1. k \in a .. a + n - 1 /\ raw[k] = brace  BY <1>o
  <2>2. k - a + 1 \in 1 .. n /\ a + (k - a + 1) - 1 = k  BY <2>1
  <2>3. k - a + 1 \in Inner  BY <2>1, <2>2, <1>i
  <2> QED  BY <2>2, <2>3
<1>4. Place \in Bijection(Inner, Outer)
  BY <1>1, <1>2, <1>3 DEF Bijection, Injection, Surjection, IsInjective
<1>5. ExistsBijection(Inner, Outer)  BY <1>4 DEF ExistsBijection
<1>6. Cardinality(Outer) = Cardinality(Inner)
  BY <1>5, <1>f, FS_Bijection
<1> QED  BY <1>6 DEF Count, Inner, Outer

\* Walking back from a closing brace, with as many that close as that open
\* nowhere but at the end of the walk, there are more that close all the way:
\* what the counts differ by begins at one and changes by one at a time.
LEMMA DepthIsPositive ==
    ASSUME NEW a \in Nat, NEW end \in Nat, a < end,
           NEW open \in [Int -> Nat], NEW shut \in [Int -> Nat],
           open[end] = 0, shut[end] = 1,
           \A i \in a + 1 .. end : open[i] # shut[i],
           \A i \in a + 1 .. end :
               open[i] <= open[i + 1] + 1 /\ shut[i] >= shut[i + 1]
    PROVE  \A i \in a + 1 .. end : open[i] < shut[i]
<1>w. PICK Wrong : Wrong = {i \in a + 1 .. end : ~(open[i] < shut[i])}
  OBVIOUS
<1>0. Wrong \subseteq 1 .. end  BY <1>w
<1> SUFFICES ASSUME Wrong # {} PROVE FALSE
  BY <1>w
<1>1. PICK m \in Wrong : \A k \in Wrong : k <= m
  BY <1>0, MaxIsGreatest
<1>2. m \in a + 1 .. end /\ ~(open[m] < shut[m]) /\ open[m] # shut[m]
  BY <1>1, <1>w
<1>3. m # end  BY <1>2
<1>4. m + 1 \in a + 1 .. end  BY <1>2, <1>3
<1>5. m + 1 \notin Wrong  BY <1>1, <1>2
<1>6. open[m + 1] < shut[m + 1]  BY <1>4, <1>5, <1>w
<1>7. open[m] <= open[m + 1] + 1 /\ shut[m] >= shut[m + 1]  BY <1>2
<1>8. /\ open[m] \in Nat /\ shut[m] \in Nat
      /\ open[m + 1] \in Nat /\ shut[m + 1] \in Nat
  BY <1>2, <1>4
<1>9. PICK x, y, u, v :
          x = open[m] /\ y = shut[m] /\ u = open[m + 1] /\ v = shut[m + 1]
  OBVIOUS
<1>10. /\ x \in Nat /\ y \in Nat /\ u \in Nat /\ v \in Nat
       /\ ~(x < y) /\ x # y /\ u < v /\ x <= u + 1 /\ y >= v
  BY <1>2, <1>6, <1>7, <1>8, <1>9
<1> QED  BY <1>10

\* Whatever K2 wrote, what lastBalanced finds in it begins and ends with a
\* brace, and its braces even out there and nowhere before.
THEOREM BlocksAreBalanced ==
    ASSUME NEW Char, text \in Seq(Char)
    PROVE  BlockBalanced
<1>blk. PICK block : block = LastBalanced(text)  OBVIOUS
<1>end. PICK end : end = Max(Ends(text))  OBVIOUS
<1>beg. PICK a : a = Max(Even(text))  OBVIOUS
<1>o. PICK open : open = [i \in Int |-> Count(text, "{", i, end)]  OBVIOUS
<1>c. PICK shut : shut = [i \in Int |-> Count(text, "}", i, end)]  OBVIOUS
<1> SUFFICES ASSUME block # NoText
    PROVE  /\ block[1] = "{" /\ block[Len(block)] = "}"
           /\ Count(block, "}", 1, Len(block)) = Count(block, "{", 1, Len(block))
           /\ \A n \in 1 .. Len(block) - 1 :
                 Count(block, "}", 1, n) < Count(block, "{", 1, n)
  BY <1>blk DEF BlockBalanced
<1>1. Ends(text) # {} /\ Even(text) # {} /\ block = SubSeq(text, a, end)
  BY <1>blk, <1>end, <1>beg DEF LastBalanced
<1>2. PICK len \in Nat : Len(text) = len /\ DOMAIN text = 1 .. len
  BY LenProperties
<1>3. end \in 1 .. len /\ text[end] = "}"
  <2>1. Ends(text) \subseteq 1 .. len  BY <1>2 DEF Ends
  <2>2. end \in Ends(text)  BY <1>1, <1>2, <1>end, <2>1, MaxIsGreatest
  <2> QED  BY <2>1, <2>2 DEF Ends
<1>e. end \in Nat /\ end \in Int /\ end <= len
  <2>1. end \in 1 .. len  BY <1>3
  <2> QED  BY <2>1
<1>f. open \in [Int -> Nat] /\ shut \in [Int -> Nat]  BY <1>e, <1>o, <1>c, PlacesFinite
<1>g. \A i \in Int : open[i + 1] \in Nat /\ shut[i + 1] \in Nat
  <2>1. \A i \in Int : i + 1 \in Int  OBVIOUS
  <2> QED  BY <2>1, <1>f
<1>4. /\ a \in 1 .. end /\ open[a] = shut[a]
      /\ \A k \in Even(text) : k <= a
  <2>1. Even(text) \subseteq 1 .. end  BY <1>end DEF Even
  <2>2. a \in Even(text) /\ \A k \in Even(text) : k <= a
    BY <1>1, <1>e, <1>beg, <2>1, MaxIsGreatest
  <2>3. a \in Int  BY <2>1, <2>2, <1>e
  <2> QED  BY <2>1, <2>2, <2>3, <1>end, <1>o, <1>c DEF Even
<1>a. a \in Nat /\ a \in Int /\ a <= end  BY <1>4, <1>e
<1>s. ASSUME NEW i \in Int, i <= end
      PROVE  /\ text[i] = "{" => open[i] = open[i + 1] + 1
             /\ text[i] # "{" => open[i] = open[i + 1]
             /\ text[i] = "}" => shut[i] = shut[i + 1] + 1
             /\ text[i] # "}" => shut[i] = shut[i + 1]
  <2>1. i + 1 \in Int  OBVIOUS
  <2>2. ASSUME NEW brace
        PROVE  Count(text, brace, i, end) =
                   IF text[i] = brace THEN Count(text, brace, i + 1, end) + 1
                   ELSE Count(text, brace, i + 1, end)
    BY <1>s, <1>e, CountGoesBack
  <2>3. /\ open[i] = Count(text, "{", i, end)
        /\ open[i + 1] = Count(text, "{", i + 1, end)
        /\ shut[i] = Count(text, "}", i, end)
        /\ shut[i + 1] = Count(text, "}", i + 1, end)
    BY <2>1, <1>o, <1>c
  <2> QED  BY <2>2, <2>3
<1>5. ASSUME NEW i \in a + 1 .. end PROVE open[i] # shut[i]
  <2>1. i \in 1 .. end /\ i \in Int /\ ~(i <= a)  BY <1>e, <1>a
  <2>2. i \notin Even(text)  BY <2>1, <1>4
  <2> QED  BY <2>1, <2>2, <1>end, <1>o, <1>c DEF Even
<1>6. open[end] = 0 /\ shut[end] = 1
  <2>1. end + 1 \in Int /\ end <= end /\ end + 1 .. end = {}  BY <1>e
  <2>2. \A brace : Places(text, brace, end + 1, end) = {}
    BY <2>1 DEF Places
  <2>3. open[end + 1] = 0 /\ shut[end + 1] = 0
    BY <2>1, <2>2, <1>o, <1>c, FS_EmptySet DEF Count
  <2>4. open[end] = open[end + 1] /\ shut[end] = shut[end + 1] + 1
    BY <2>1, <1>3, <1>e, <1>s
  <2> QED  BY <2>3, <2>4
<1>7. a < end
  <2>1. a # end  BY <1>4, <1>6
  <2> QED  BY <2>1, <1>a, <1>e
<1>8. \A i \in a + 1 .. end : open[i] < shut[i]
  <2>1. ASSUME NEW i \in a + 1 .. end
        PROVE  open[i] <= open[i + 1] + 1 /\ shut[i] >= shut[i + 1]
    <3>1. i \in Int /\ i <= end  BY <1>a, <1>e
    <3>2. open[i + 1] \in Nat /\ shut[i + 1] \in Nat  BY <3>1, <1>g
    <3>3. open[i] = open[i + 1] + 1 \/ open[i] = open[i + 1]
      BY <3>1, <1>s
    <3>4. shut[i] = shut[i + 1] + 1 \/ shut[i] = shut[i + 1]
      BY <3>1, <1>s
    <3> QED  BY <3>2, <3>3, <3>4
  <2> QED  BY <2>1, <1>a, <1>e, <1>f, <1>5, <1>6, <1>7, DepthIsPositive
<1>9. text[a] = "{"
  <2>1. open[a + 1] < shut[a + 1]  BY <1>a, <1>e, <1>7, <1>8
  <2>2. open[a + 1] \in Nat /\ shut[a + 1] \in Nat  BY <1>g, <1>a
  <2>3. shut[a] = shut[a + 1] + 1 \/ shut[a] = shut[a + 1]
    BY <1>a, <1>s
  <2>4. text[a] # "{" => open[a] = open[a + 1]  BY <1>a, <1>s
  <2>5. open[a] # open[a + 1]  BY <2>1, <2>2, <2>3, <1>4
  <2> QED  BY <2>4, <2>5
<1>z. PICK size : size = end - a + 1  OBVIOUS
<1>l. size \in Nat /\ size > 1 /\ a + size - 1 = end  BY <1>z, <1>a, <1>e, <1>7
<1>10. /\ Len(block) = size
       /\ \A i \in 1 .. size : block[i] = text[a + i - 1]
  <2>1. \A i \in a .. end : i \in 1 .. Len(text)
    <3>1. a >= 1  BY <1>4
    <3> QED  BY <3>1, <1>2, <1>a, <1>e
  <2>2. \A i \in a .. end : text[i] \in Char
    BY <2>1, ElementOfSeq
  <2> QED  BY <2>2, <1>1, <1>a, <1>e, <1>7, <1>z, SubSeqProperties
<1>11. block[1] = "{" /\ block[Len(block)] = "}"
  <2>1. 1 \in 1 .. size /\ size \in 1 .. size /\ a + 1 - 1 = a
    BY <1>a, <1>l
  <2> QED  BY <2>1, <1>3, <1>9, <1>10, <1>l
<1>12. ASSUME NEW n \in 1 .. size, NEW brace
       PROVE  Count(block, brace, 1, n) = Count(text, brace, a, a + n - 1)
  <2>1. n \in Nat /\ \A i \in 1 .. n : i \in 1 .. size  BY <1>l
  <2>2. \A i \in 1 .. n : block[i] = text[a + i - 1]  BY <2>1, <1>10
  <2> QED  BY <2>1, <2>2, <1>a, CountInBlock
<1>13. Count(block, "}", 1, Len(block)) = Count(block, "{", 1, Len(block))
  <2>1. size \in 1 .. size  BY <1>l
  <2>2. /\ open[a] = Count(text, "{", a, end)
        /\ shut[a] = Count(text, "}", a, end)
    BY <1>a, <1>o, <1>c
  <2> QED  BY <2>1, <2>2, <1>4, <1>l, <1>10, <1>12
<1>14. ASSUME NEW n \in 1 .. size - 1
       PROVE  Count(block, "}", 1, n) < Count(block, "{", 1, n)
  <2>1. /\ n \in 1 .. size /\ a + n \in a + 1 .. end
        /\ a + n \in Int /\ a + n - 1 \in Int /\ a <= a + n /\ a + n <= end + 1
    BY <1>a, <1>e, <1>l
  <2>2. ASSUME NEW brace
        PROVE  /\ Count(text, brace, a, end) =
                      Count(text, brace, a, a + n - 1) + Count(text, brace, a + n, end)
               /\ Count(text, brace, a, a + n - 1) \in Nat
               /\ Count(text, brace, a + n, end) \in Nat
    BY <2>1, <1>a, <1>e, CountSplits, PlacesFinite
  <2>3. Count(text, "{", a + n, end) < Count(text, "}", a + n, end)
    BY <2>1, <1>8, <1>o, <1>c
  <2>4. Count(text, "{", a, end) = Count(text, "}", a, end)
    BY <1>a, <1>4, <1>o, <1>c
  <2>5. Count(text, "}", a, a + n - 1) < Count(text, "{", a, a + n - 1)
    <3>0. PICK o1, o2, c1, c2 :
            /\ o1 = Count(text, "{", a, a + n - 1)
            /\ o2 = Count(text, "{", a + n, end)
            /\ c1 = Count(text, "}", a, a + n - 1)
            /\ c2 = Count(text, "}", a + n, end)
      OBVIOUS
    <3>1. o1 \in Nat /\ o2 \in Nat /\ c1 \in Nat /\ c2 \in Nat  BY <3>0, <2>2
    <3>2. o1 + o2 = c1 + c2  BY <3>0, <2>2, <2>4
    <3>3. o2 < c2  BY <3>0, <2>3
    <3>4. c1 < o1  BY <3>1, <3>2, <3>3
    <3> QED  BY <3>0, <3>4
  <2> QED  BY <2>1, <2>5, <1>12
<1> QED  BY <1>10, <1>11, <1>13, <1>14
=============================================================================
