--------------------------- MODULE AccountsProofs ---------------------------
(***************************************************************************)
(* Sign-in, profile edits and the Spotify handshake for any number of      *)
(* people, requests, states and consents.                                  *)
(***************************************************************************)
EXTENDS Spotify, TLAPS

-----------------------------------------------------------------------------
(* The inductive invariant                                                 *)

Pcs == {"idle", "draw", "insert", "retry", "refused", "noCode", "handle", "sync",
        "patch", "state", "burn", "exchange", "profile", "tokens", "clear", "ask",
        "refresh", "refreshed", "shown"}

\* What now-playing answers.
Answers == {[current |-> h.current, recent |-> Recent(h)] : h \in Histories}

Call == [pc : Pcs, actor : People \cup {None}, claim : TokenNames \cup {None},
         doc : Account \cup {None}, dirty : SUBSET Fields,
         data : Codes \cup Grants \cup Answers \cup {None}]

AccountsTypeOK ==
    /\ users \in [People -> Account \cup {None}]
    /\ calls \in [Calls -> Call]
    /\ issued \in [States -> People \cup {None}]

\* State s was given out, and is stored no longer: it never will be again.
Burned(s) == issued[s] # None /\ \A v \in Members : users[v].spotifyAuthState # s

\* The tokens in doc, a document of u, came by a state of u that is burned.
Owns(u, doc) ==
    doc.spotify # None =>
        issued[doc.spotify.state] = u /\ Burned(doc.spotify.state)

\* A state that is stored was given out to the person it is stored on.
StoredInv(u) ==
    /\ Owns(u, users[u])
    /\ users[u].spotifyAuthState # None => issued[users[u].spotifyAuthState] = u

\* Where a request works on a document.
Loaded == {"handle", "sync", "patch", "state", "burn", "exchange", "profile",
           "tokens", "clear", "ask", "refresh", "refreshed"}

\* What request c relies on, and the paths it will save, at each of its points.
Relies(c) ==
    /\ c.pc \in Loaded => c.doc # None
    /\ c.doc # None => c.actor \in Members /\ Owns(c.actor, c.doc)
    /\ c.pc = "sync" => c.dirty \subseteq {"displayName"} /\ ~c.doc.displayNameSet
    /\ c.pc = "patch" =>
           /\ c.dirty \subseteq {"displayName", "displayNameSet"}
           /\ c.doc.displayNameSet
    /\ c.pc = "state" =>
           /\ c.dirty \subseteq {"spotifyAuthState"}
           /\ c.doc.spotifyAuthState \in States
           /\ issued[c.doc.spotifyAuthState] = None
    /\ c.pc = "burn" =>
           c.dirty = {"spotifyAuthState"} /\ c.doc.spotifyAuthState = None
    /\ c.pc \in {"tokens", "refreshed"} => c.dirty \subseteq {"spotify"}
    /\ c.pc = "clear" =>
           /\ c.dirty \subseteq {"spotify", "spotifyAuthState"}
           /\ c.doc.spotifyAuthState = None
    /\ c.pc \in {"burn", "exchange", "profile", "tokens"} =>
           c.data \in Grants /\ issued[c.data.state] = c.actor
    /\ c.pc \in {"exchange", "profile", "tokens"} => Burned(c.data.state)
    /\ c.pc \in {"draw", "insert", "retry", "refused", "noCode"} => c.actor \in People
    /\ c.pc \in {"insert", "retry", "refused"} => c.data \in Codes
    /\ c.pc = "retry" => c.actor \in Members \/ Taken(c.data)
    /\ c.pc = "refused" =>
           \E v \in Members \ {c.actor} : users[v].pairingCode = c.data

\* Request c is about to give out another state than every request of a set.
Apart(c, others) ==
    c.pc = "state" => \A j \in others :
        calls[j].pc = "state" =>
            calls[j].doc.spotifyAuthState # c.doc.spotifyAuthState

AccountsInv ==
    /\ AccountsTypeOK
    /\ \A u \in Members : StoredInv(u)
    /\ \A k \in Calls : Relies(calls[k]) /\ Apart(calls[k], Calls \ {k})

-----------------------------------------------------------------------------
(* Types                                                                   *)

LEMMA IdleType == Idle \in Call
  BY DEF Idle, Call, Pcs

\* What is changed of a copy is among the paths that differ.
LEMMA StageType ==
  ASSUME NEW call \in Call, NEW pc \in Pcs, NEW new \in Account,
         NEW t, t = Stage(call, pc, new)
  PROVE  /\ t \in Call /\ t.pc = pc /\ t.actor = call.actor /\ t.doc = new
         /\ t.data = call.data /\ t.claim = call.claim
         /\ t.dirty = {f \in Fields : new[f] # call.doc[f]}
  BY DEF Stage, Call

\* The stored account after a save, path by path.
LEMMA SavedType ==
  ASSUME NEW stored \in Account, NEW doc \in Account, NEW dirty \in SUBSET Fields,
         NEW new, new = Saved(stored, doc, dirty)
  PROVE
    /\ new \in Account
    /\ new.displayName =
         (IF "displayName" \in dirty THEN doc.displayName ELSE stored.displayName)
    /\ new.displayNameSet =
         (IF "displayNameSet" \in dirty THEN doc.displayNameSet ELSE stored.displayNameSet)
    /\ new.pairingCode =
         (IF "pairingCode" \in dirty THEN doc.pairingCode ELSE stored.pairingCode)
    /\ new.spotify = (IF "spotify" \in dirty THEN doc.spotify ELSE stored.spotify)
    /\ new.spotifyAuthState =
         (IF "spotifyAuthState" \in dirty THEN doc.spotifyAuthState
                                          ELSE stored.spotifyAuthState)
<1>1. \A f \in Fields : new[f] = IF f \in dirty THEN doc[f] ELSE stored[f]
  BY DEF Saved
<1>2. /\ new.displayName =
           (IF "displayName" \in dirty THEN doc.displayName ELSE stored.displayName)
      /\ new.pairingCode =
           (IF "pairingCode" \in dirty THEN doc.pairingCode ELSE stored.pairingCode)
      /\ new.spotify = (IF "spotify" \in dirty THEN doc.spotify ELSE stored.spotify)
      /\ new.spotifyAuthState =
           (IF "spotifyAuthState" \in dirty THEN doc.spotifyAuthState
                                            ELSE stored.spotifyAuthState)
  BY <1>1 DEF Fields
<1>3. new.displayNameSet =
        (IF "displayNameSet" \in dirty THEN doc.displayNameSet ELSE stored.displayNameSet)
  BY <1>1 DEF Fields
<1>4. PICK a, b, c, d, e :
         /\ a = new.displayName /\ b = new.displayNameSet /\ c = new.pairingCode
         /\ d = new.spotify /\ e = new.spotifyAuthState
  OBVIOUS
<1>5. new = [displayName |-> a, displayNameSet |-> b, pairingCode |-> c,
             spotify |-> d, spotifyAuthState |-> e]
  BY <1>4 DEF Saved, Fields
<1>6. /\ a \in {"Friend"} \cup TokenNames \cup TypedNames /\ b \in BOOLEAN
      /\ c \in Codes /\ d \in Grants \cup {None} /\ e \in States \cup {None}
  BY <1>2, <1>3, <1>4 DEF Account
<1>7. new \in Account
  BY <1>5, <1>6 DEF Account
<1> QED
  BY <1>2, <1>3, <1>7

-----------------------------------------------------------------------------
(* What other requests cannot take away                                    *)

\* How a step changes the stored accounts and the states given out.
Grows ==
    /\ \A v \in Members : v \in Members' /\ users'[v].pairingCode = users[v].pairingCode
    /\ \A s \in States : issued[s] # None => issued'[s] = issued[s]
    /\ \A s \in States : Burned(s) => Burned(s)'

LEMMA KeepsOwns ==
  ASSUME Grows, NEW u \in People, NEW doc \in Account, Owns(u, doc)
  PROVE  Owns(u, doc)'
<1>1. doc.spotify # None => doc.spotify.state \in States
  BY DEF Account, Grants
<1> QED
  BY <1>1, NullAssumptions DEF Owns, Grows

LEMMA KeepsRelies ==
  ASSUME AccountsTypeOK, Grows, NEW c \in Call, Relies(c),
         c.pc = "state" => issued'[c.doc.spotifyAuthState] = None
  PROVE  Relies(c)'
<1>1. c.doc # None => c.actor \in Members' /\ Owns(c.actor, c.doc)'
  <2>1. c.doc # None => c.actor \in Members /\ c.actor \in People /\ c.doc \in Account
    BY DEF Relies, Call, Members
  <2> QED
    BY <2>1, KeepsOwns DEF Relies, Grows
<1>2. /\ c.data \in Grants => c.data.state \in States
      /\ c.pc = "retry" /\ c.actor \notin Members => Taken(c.data)'
      /\ c.pc = "refused" =>
           \E v \in Members' \ {c.actor} : users'[v].pairingCode = c.data
  BY DEF Grants, Relies, Taken, Grows
<1>3. c.pc \in {"burn", "exchange", "profile", "tokens"} => c.actor \in People
  BY DEF Relies, Loaded, Members
<1>4. c.pc \in {"burn", "exchange", "profile", "tokens"} =>
           c.data \in Grants /\ issued'[c.data.state] = c.actor
  BY <1>2, <1>3, NullAssumptions DEF Relies, Grows
<1>5. c.pc \in {"exchange", "profile", "tokens"} => Burned(c.data.state)'
  BY <1>2 DEF Relies, Grows
<1>6. c.pc = "retry" => c.actor \in Members' \/ Taken(c.data)'
  BY <1>2 DEF Relies, Grows
<1> QED
  BY <1>1, <1>2, <1>4, <1>5, <1>6 DEF Relies

\* A step of request k that stores nothing.
LEMMA QuietStep ==
  ASSUME AccountsInv, UNCHANGED <<users, issued>>,
         NEW k \in Calls, NEW t \in Call, calls' = [calls EXCEPT ![k] = t],
         Relies(t), Apart(t, Calls \ {k})
  PROVE  AccountsInv'
<1>1. AccountsTypeOK'
  BY DEF AccountsInv, AccountsTypeOK
<1>2. ASSUME NEW u \in Members' PROVE StoredInv(u)'
  BY <1>2 DEF AccountsInv, StoredInv, Owns, Burned, Members
<1>3. \A c : Relies(c) => Relies(c)'
  BY DEF Relies, Owns, Burned, Taken, Members
<1>4. ASSUME NEW j \in Calls PROVE Relies(calls[j])' /\ Apart(calls[j], Calls \ {j})'
  BY <1>3 DEF AccountsInv, AccountsTypeOK, Apart
<1> QED
  BY <1>1, <1>2, <1>4 DEF AccountsInv

LEMMA EndKeeps ==
  ASSUME AccountsInv, UNCHANGED <<users, issued>>, NEW k \in Calls, End(k)
  PROVE  AccountsInv'
<1>1. Relies(Idle) /\ Apart(Idle, Calls \ {k})
  BY DEF Relies, Apart, Idle, Loaded
<1> QED
  BY <1>1, IdleType, QuietStep DEF End

\* t is request call, moved on to pc with what it has.
Moved(t, call, pc) ==
    /\ t.pc = pc /\ t.actor = call.actor /\ t.doc = call.doc
    /\ t.data = call.data /\ t.dirty = call.dirty

LEMMA GotoKeeps ==
  ASSUME AccountsInv, UNCHANGED <<users, issued>>, NEW k \in Calls, NEW pc \in Pcs,
         Goto(k, pc), pc # "state",
         \A t \in Call : Moved(t, calls[k], pc) => Relies(t)
  PROVE  AccountsInv'
<1>1. PICK call \in Call : call = calls[k]
  BY DEF AccountsInv, AccountsTypeOK
<1>2. PICK t : t = [call EXCEPT !.pc = pc]
  OBVIOUS
<1>3. /\ t \in Call /\ t.pc = pc /\ t.actor = call.actor /\ t.doc = call.doc
      /\ t.data = call.data /\ t.dirty = call.dirty
  BY <1>2 DEF Call
<1>4. Relies(t) /\ Apart(t, Calls \ {k})
  BY <1>1, <1>3 DEF Moved, Apart
<1>5. calls' = [calls EXCEPT ![k] = t]
  BY <1>1, <1>2 DEF Goto
<1> QED
  BY <1>3, <1>4, <1>5, QuietStep

\* A request for u that has read u's document, with the sync it needs.
LEMMA FoundRelies ==
  ASSUME AccountsInv, NEW call \in Call, NEW u \in Members, u = call.actor,
         NEW t, t = Found(call, users[u])
  PROVE  t \in Call /\ Relies(t) /\ t.pc # "state"
<1>1. PICK doc \in Account : doc = users[u]
  BY DEF AccountsInv, AccountsTypeOK, Members
<1>2. doc # None /\ Owns(u, doc)
  BY <1>1, NullAssumptions DEF AccountsInv, StoredInv
<1>3. PICK loaded : loaded = [call EXCEPT !.pc = "handle", !.doc = doc, !.claim = None]
  OBVIOUS
<1>4. /\ loaded \in Call /\ loaded.pc = "handle" /\ loaded.doc = doc
      /\ loaded.actor = u
  BY <1>3 DEF Call, Pcs
<1>5. PICK name : name = SyncedName(doc, call.claim)
  OBVIOUS
<1>6. /\ name \in {"Friend"} \cup TokenNames \cup TypedNames
      /\ doc.displayNameSet => name = doc.displayName
  BY <1>5 DEF SyncedName, Call, Account
<1>7. PICK new : new = [doc EXCEPT !.displayName = name]
  OBVIOUS
<1>8. /\ new \in Account /\ new.spotify = doc.spotify
      /\ new.displayNameSet = doc.displayNameSet
      /\ name = doc.displayName => new = doc
      /\ \A f \in Fields : f # "displayName" => new[f] = doc[f]
  BY <1>6, <1>7 DEF Account, Fields
<1>9. t = IF new = doc THEN loaded ELSE Stage(loaded, "sync", new)
  BY <1>1, <1>3, <1>5, <1>7 DEF Found
<1>10. CASE new = doc
  BY <1>2, <1>4, <1>9, <1>10 DEF Relies, Loaded
<1>11. CASE new # doc
  <2>1. /\ t \in Call /\ t.pc = "sync" /\ t.actor = u /\ t.doc = new
        /\ t.dirty = {f \in Fields : new[f] # doc[f]}
    <3>1. t = Stage(loaded, "sync", new) /\ "sync" \in Pcs
      BY <1>9, <1>11 DEF Pcs
    <3> QED
      BY <1>4, <1>8, <3>1, StageType
  <2>2. t.dirty \subseteq {"displayName"} /\ ~t.doc.displayNameSet
    BY <1>6, <1>8, <1>11, <2>1
  <2>3. t.doc # None /\ Owns(u, t.doc)
    BY <1>2, <1>8, <2>1, NullAssumptions DEF Owns
  <2> QED
    BY <2>1, <2>2, <2>3 DEF Relies, Loaded
<1> QED
  BY <1>10, <1>11

-----------------------------------------------------------------------------
(* Sign-in                                                                 *)

LEMMA SignInInv ==
  ASSUME AccountsInv, UNCHANGED spotifyVars, NEW k \in Calls, NEW u \in People,
         NEW claim \in TokenNames, SignIn(k, u, claim)
  PROVE  AccountsInv'
<1>1. PICK call : call = [Idle EXCEPT !.pc = "draw", !.actor = u, !.claim = claim]
  OBVIOUS
<1>2. call \in Call /\ call.pc = "draw" /\ call.actor = u /\ call.doc = None
  BY <1>1 DEF Idle, Call, Pcs
<1>3. PICK t : t = IF users[u] = None THEN call ELSE Found(call, users[u])
  OBVIOUS
<1>4. t \in Call /\ Relies(t) /\ t.pc # "state"
  <2>1. CASE users[u] = None
    BY <1>2, <1>3, <2>1 DEF Relies, Loaded
  <2>2. CASE users[u] # None
    BY <1>2, <1>3, <2>2, FoundRelies DEF Members
  <2> QED
    BY <2>1, <2>2
<1> QED
  BY <1>1, <1>3, <1>4, QuietStep DEF SignIn, spotifyVars, Apart

LEMMA DrawCodeInv ==
  ASSUME AccountsInv, UNCHANGED spotifyVars, NEW k \in Calls, DrawCode(k)
  PROVE  AccountsInv'
<1>1. PICK call \in Call : call = calls[k] /\ Relies(call) /\ call.pc = "draw"
  BY DEF AccountsInv, AccountsTypeOK, DrawCode
<1>2. ASSUME NEW c \in Codes, calls' = [calls EXCEPT ![k].pc = "insert", ![k].data = c]
      PROVE  AccountsInv'
  <2>1. PICK t : t = [call EXCEPT !.pc = "insert", !.data = c]
    OBVIOUS
  <2>2. /\ t \in Call /\ t.pc = "insert" /\ t.actor = call.actor
        /\ t.doc = call.doc /\ t.data = c
    BY <2>1 DEF Call, Pcs
  <2>3. Relies(t) /\ Apart(t, Calls \ {k})
    BY <1>1, <2>2 DEF Relies, Loaded, Apart
  <2>4. calls' = [calls EXCEPT ![k] = t]
    BY <1>1, <1>2, <2>1 DEF AccountsInv, AccountsTypeOK
  <2> QED
    BY <2>2, <2>3, <2>4, QuietStep DEF DrawCode, spotifyVars
<1>3. CASE Goto(k, "noCode")
  <2>1. \A t \in Call : Moved(t, calls[k], "noCode") => Relies(t)
    BY <1>1 DEF Moved, Relies, Loaded
  <2> QED
    BY <1>1, <1>3, <2>1, GotoKeeps DEF Pcs, DrawCode, spotifyVars
<1> QED
  BY <1>2, <1>3 DEF DrawCode

LEMMA RetrySignInInv ==
  ASSUME AccountsInv, UNCHANGED spotifyVars, NEW k \in Calls, RetrySignIn(k)
  PROVE  AccountsInv'
<1>1. PICK call \in Call : call = calls[k] /\ Relies(call) /\ call.pc = "retry"
  BY DEF AccountsInv, AccountsTypeOK, RetrySignIn
<1>2. PICK u \in People : u = call.actor
  BY <1>1 DEF Relies
<1>3. CASE users[u] = None
  <2>1. \E v \in Members \ {u} : users[v].pairingCode = call.data
    BY <1>1, <1>2, <1>3 DEF Relies, Taken, Members
  <2> QED
    <3>1. \A t \in Call : Moved(t, calls[k], "refused") => Relies(t)
      BY <1>1, <1>2, <2>1 DEF Moved, Relies, Loaded
    <3>2. Goto(k, "refused")
      BY <1>1, <1>2, <1>3 DEF RetrySignIn
    <3> QED
      BY <1>1, <3>1, <3>2, GotoKeeps DEF Pcs, RetrySignIn, spotifyVars
<1>4. CASE users[u] # None
  <2>1. PICK found : found = [call EXCEPT !.data = None]
    OBVIOUS
  <2>2. found \in Call /\ found.actor = u
    BY <1>2, <2>1 DEF Call
  <2>3. PICK t : t = Found(found, users[u])
    OBVIOUS
  <2>4. t \in Call /\ Relies(t) /\ t.pc # "state"
    BY <1>2, <1>4, <2>2, <2>3, FoundRelies DEF Members
  <2>5. calls' = [calls EXCEPT ![k] = t]
    BY <1>1, <1>2, <1>4, <2>1, <2>3 DEF RetrySignIn
  <2> QED
    BY <2>4, <2>5, QuietStep DEF RetrySignIn, spotifyVars, Apart
<1> QED
  BY <1>3, <1>4

\* A request that stages a change of its copy, after its sign-in.
LEMMA HandleFacts ==
  ASSUME AccountsInv, NEW k \in Calls, NEW call, call = calls[k],
         call.pc \in Loaded
  PROVE  /\ call \in Call /\ Relies(call) /\ call.doc \in Account
         /\ call.actor \in Members /\ call.actor \in People
         /\ Owns(call.actor, call.doc)
<1>1. call \in Call /\ Relies(call)
  BY DEF AccountsInv, AccountsTypeOK
<1>2. call.doc # None /\ call.actor \in Members /\ Owns(call.actor, call.doc)
  BY <1>1 DEF Relies
<1> QED
  BY <1>1, <1>2 DEF Call, Members

LEMMA PatchInv ==
  ASSUME AccountsInv, UNCHANGED spotifyVars, NEW k \in Calls,
         NEW name \in TypedNames, Patch(k, name)
  PROVE  AccountsInv'
<1>1. PICK call : call = calls[k]
  OBVIOUS
<1>2. call.pc = "handle"
  BY <1>1 DEF Patch
<1>3. /\ call \in Call /\ call.doc \in Account
      /\ call.actor \in Members /\ Owns(call.actor, call.doc)
  BY <1>1, <1>2, HandleFacts DEF Loaded
<1>4. PICK new : new = [call.doc EXCEPT !.displayName = name, !.displayNameSet = TRUE]
  OBVIOUS
<1>5. /\ new \in Account /\ new.spotify = call.doc.spotify /\ new.displayNameSet
      /\ \A f \in Fields : f \notin {"displayName", "displayNameSet"} =>
                               new[f] = call.doc[f]
  BY <1>3, <1>4 DEF Account, Fields
<1>6. PICK t : t = Stage(call, "patch", new)
  OBVIOUS
<1>7. /\ t \in Call /\ t.pc = "patch" /\ t.actor = call.actor /\ t.doc = new
      /\ t.dirty = {f \in Fields : new[f] # call.doc[f]}
  <2>1. "patch" \in Pcs
    BY DEF Pcs
  <2> QED
    BY <1>3, <1>5, <1>6, <2>1, StageType
<1>8. t.dirty \subseteq {"displayName", "displayNameSet"}
  BY <1>5, <1>7
<1>9. Relies(t) /\ Apart(t, Calls \ {k})
  BY <1>3, <1>5, <1>7, <1>8, NullAssumptions DEF Relies, Loaded, Owns, Apart
<1>10. calls' = [calls EXCEPT ![k] = t]
  BY <1>1, <1>4, <1>6 DEF Patch
<1> QED
  BY <1>7, <1>9, <1>10, QuietStep DEF Patch, spotifyVars

LEMMA AuthorizeUrlInv ==
  ASSUME AccountsInv, NEW k \in Calls, AuthorizeUrl(k)
  PROVE  AccountsInv'
<1>1. PICK call : call = calls[k]
  OBVIOUS
<1>2. call.pc = "handle"
  BY <1>1 DEF AuthorizeUrl
<1>3. /\ call \in Call /\ call.doc \in Account
      /\ call.actor \in Members /\ Owns(call.actor, call.doc)
  BY <1>1, <1>2, HandleFacts DEF Loaded
<1>4. PICK s \in States :
         /\ issued[s] = None
         /\ \A j \in Calls : calls[j].pc = "state" =>
                              calls[j].doc.spotifyAuthState # s
         /\ calls' = [calls EXCEPT ![k] =
               Stage(calls[k], "state", [calls[k].doc EXCEPT !.spotifyAuthState = s])]
  BY DEF AuthorizeUrl
<1>5. PICK new : new = [call.doc EXCEPT !.spotifyAuthState = s]
  OBVIOUS
<1>6. /\ new \in Account /\ new.spotify = call.doc.spotify /\ new.spotifyAuthState = s
      /\ \A f \in Fields : f # "spotifyAuthState" => new[f] = call.doc[f]
  BY <1>3, <1>5 DEF Account, Fields
<1>7. PICK t : t = Stage(call, "state", new)
  OBVIOUS
<1>8. /\ t \in Call /\ t.pc = "state" /\ t.actor = call.actor /\ t.doc = new
      /\ t.dirty = {f \in Fields : new[f] # call.doc[f]}
  <2>1. "state" \in Pcs
    BY DEF Pcs
  <2> QED
    BY <1>3, <1>6, <1>7, <2>1, StageType
<1>9. t.dirty \subseteq {"spotifyAuthState"}
  BY <1>6, <1>8
<1>10. Relies(t)
  BY <1>3, <1>4, <1>6, <1>8, <1>9, NullAssumptions DEF Relies, Loaded, Owns
<1>11. Apart(t, Calls \ {k})
  BY <1>4, <1>6, <1>8 DEF Apart
<1>12. calls' = [calls EXCEPT ![k] = t]
  BY <1>1, <1>4, <1>5, <1>7
<1> QED
  BY <1>8, <1>10, <1>11, <1>12, QuietStep DEF AuthorizeUrl, spotifyVars

\* Only the person a state was given out to is found by it.
LEMMA CallbackInv ==
  ASSUME AccountsInv, NEW k \in Calls, NEW g \in Grants, Callback(k, g)
  PROVE  AccountsInv'
<1>1. PICK u \in People :
         /\ HasState(u, g.state)
         /\ calls' = [calls EXCEPT ![k] =
               Stage([Idle EXCEPT !.actor = u, !.data = g, !.doc = users[u]],
                     "burn", [users[u] EXCEPT !.spotifyAuthState = None])]
  BY DEF Callback
<1>2. PICK doc : doc = users[u]
  OBVIOUS
<1>3. u \in Members /\ doc \in Account /\ Owns(u, doc) /\ doc.spotifyAuthState = g.state
  BY <1>1, <1>2 DEF HasState, AccountsInv, AccountsTypeOK, Members, StoredInv
<1>4. g.state \in States /\ g.state # None /\ issued[g.state] = u
  <2>1. g.state \in States
    BY DEF Grants
  <2> QED
    BY <1>2, <1>3, <2>1, NullAssumptions DEF AccountsInv, StoredInv
<1>5. PICK call : call = [Idle EXCEPT !.actor = u, !.data = g, !.doc = doc]
  OBVIOUS
<1>6. call \in Call /\ call.actor = u /\ call.data = g /\ call.doc = doc
  BY <1>3, <1>5 DEF Idle, Call, Pcs
<1>7. PICK new : new = [doc EXCEPT !.spotifyAuthState = None]
  OBVIOUS
<1>8. /\ new \in Account /\ new.spotify = doc.spotify /\ new.spotifyAuthState = None
      /\ \A f \in Fields : f # "spotifyAuthState" => new[f] = doc[f]
  BY <1>3, <1>7 DEF Account, Fields
<1>9. PICK t : t = Stage(call, "burn", new)
  OBVIOUS
<1>10. /\ t \in Call /\ t.pc = "burn" /\ t.actor = u /\ t.doc = new /\ t.data = g
       /\ t.dirty = {f \in Fields : new[f] # doc[f]}
  <2>1. "burn" \in Pcs
    BY DEF Pcs
  <2> QED
    BY <1>6, <1>8, <1>9, <2>1, StageType
<1>11. t.dirty = {"spotifyAuthState"}
  BY <1>3, <1>4, <1>8, <1>10 DEF Fields
<1>12. Relies(t) /\ Apart(t, Calls \ {k})
  BY <1>3, <1>4, <1>8, <1>10, <1>11, NullAssumptions DEF Relies, Loaded, Owns, Apart
<1>13. calls' = [calls EXCEPT ![k] = t]
  BY <1>1, <1>2, <1>5, <1>7, <1>9
<1> QED
  BY <1>10, <1>12, <1>13, QuietStep DEF Callback, spotifyVars

LEMMA StoreTokensInv ==
  ASSUME AccountsInv, NEW k \in Calls, StoreTokens(k)
  PROVE  AccountsInv'
<1>1. PICK call : call = calls[k]
  OBVIOUS
<1>2. call.pc = "profile"
  BY <1>1 DEF StoreTokens
<1>3. /\ call \in Call /\ call.doc \in Account /\ call.actor \in Members /\ Relies(call)
  BY <1>1, <1>2, HandleFacts DEF Loaded
<1>4. /\ call.data \in Grants /\ issued[call.data.state] = call.actor
      /\ Burned(call.data.state)
  BY <1>2, <1>3 DEF Relies
<1>5. PICK new : new = [call.doc EXCEPT !.spotify = call.data]
  OBVIOUS
<1>6. /\ new \in Account /\ new.spotify = call.data
      /\ \A f \in Fields : f # "spotify" => new[f] = call.doc[f]
  BY <1>3, <1>4, <1>5 DEF Account, Fields
<1>7. PICK t : t = Stage(call, "tokens", new)
  OBVIOUS
<1>8. /\ t \in Call /\ t.pc = "tokens" /\ t.actor = call.actor /\ t.doc = new
      /\ t.data = call.data /\ t.dirty = {f \in Fields : new[f] # call.doc[f]}
  <2>1. "tokens" \in Pcs
    BY DEF Pcs
  <2> QED
    BY <1>3, <1>6, <1>7, <2>1, StageType
<1>9. t.dirty \subseteq {"spotify"}
  BY <1>6, <1>8
<1>10. Relies(t) /\ Apart(t, Calls \ {k})
  BY <1>3, <1>4, <1>6, <1>8, <1>9, NullAssumptions DEF Relies, Loaded, Owns, Apart
<1>11. calls' = [calls EXCEPT ![k] = t]
  BY <1>1, <1>5, <1>7 DEF StoreTokens
<1> QED
  BY <1>8, <1>10, <1>11, QuietStep DEF StoreTokens, spotifyVars

LEMMA DisconnectInv ==
  ASSUME AccountsInv, NEW k \in Calls, Disconnect(k)
  PROVE  AccountsInv'
<1>1. PICK call : call = calls[k]
  OBVIOUS
<1>2. call.pc = "handle"
  BY <1>1 DEF Disconnect
<1>3. /\ call \in Call /\ call.doc \in Account /\ call.actor \in Members
  BY <1>1, <1>2, HandleFacts DEF Loaded
<1>4. PICK new : new = [call.doc EXCEPT !.spotify = None, !.spotifyAuthState = None]
  OBVIOUS
<1>5. /\ new \in Account /\ new.spotify = None /\ new.spotifyAuthState = None
      /\ \A f \in Fields : f \notin {"spotify", "spotifyAuthState"} =>
                               new[f] = call.doc[f]
  BY <1>3, <1>4 DEF Account, Fields
<1>6. PICK t : t = Stage(call, "clear", new)
  OBVIOUS
<1>7. /\ t \in Call /\ t.pc = "clear" /\ t.actor = call.actor /\ t.doc = new
      /\ t.dirty = {f \in Fields : new[f] # call.doc[f]}
  <2>1. "clear" \in Pcs
    BY DEF Pcs
  <2> QED
    BY <1>3, <1>5, <1>6, <2>1, StageType
<1>8. t.dirty \subseteq {"spotify", "spotifyAuthState"}
  BY <1>5, <1>7
<1>9. Relies(t) /\ Apart(t, Calls \ {k})
  BY <1>3, <1>5, <1>7, <1>8, NullAssumptions DEF Relies, Loaded, Owns, Apart
<1>10. calls' = [calls EXCEPT ![k] = t]
  BY <1>1, <1>4, <1>6 DEF Disconnect
<1> QED
  BY <1>7, <1>9, <1>10, QuietStep DEF Disconnect, spotifyVars

\* Steps that only move on.
LEMMA MoveOnInv ==
  ASSUME AccountsInv, NEW k \in Calls, Exchange(k) \/ FreshAccessToken(k)
  PROVE  AccountsInv'
<1>1. PICK call : call = calls[k]
  OBVIOUS
<1>2. call.pc \in {"exchange", "handle"} /\ UNCHANGED <<users, issued>>
  BY <1>1 DEF Exchange, FreshAccessToken, spotifyVars
<1>3. call.doc # None /\ Relies(call)
  BY <1>1, <1>2, HandleFacts, NullAssumptions DEF Loaded
<1>4. CASE call.pc = "exchange" /\ Goto(k, "profile")
  <2>1. \A t \in Call : Moved(t, calls[k], "profile") => Relies(t)
    BY <1>1, <1>3, <1>4 DEF Moved, Relies, Loaded
  <2> QED
    BY <1>2, <1>4, <2>1, GotoKeeps DEF Pcs
<1>5. ASSUME NEW pc \in {"ask", "refresh"}, call.pc = "handle", Goto(k, pc)
      PROVE  AccountsInv'
  <2>1. \A t \in Call : Moved(t, calls[k], pc) => Relies(t)
    BY <1>1, <1>3, <1>5 DEF Moved, Relies, Loaded
  <2> QED
    BY <1>2, <1>5, <2>1, GotoKeeps DEF Pcs
<1> QED
  BY <1>1, <1>4, <1>5 DEF Exchange, FreshAccessToken

LEMMA RefreshInv ==
  ASSUME AccountsInv, NEW k \in Calls, Refresh(k)
  PROVE  AccountsInv'
<1>1. PICK call : call = calls[k]
  OBVIOUS
<1>2. call.pc = "refresh"
  BY <1>1 DEF Refresh
<1>3. call \in Call /\ call.doc \in Account /\ Relies(call)
  BY <1>1, <1>2, HandleFacts DEF Loaded
<1>4. PICK t : t = [call EXCEPT !.pc = "refreshed", !.dirty = {"spotify"}]
  OBVIOUS
<1>5. /\ t \in Call /\ t.pc = "refreshed" /\ t.actor = call.actor
      /\ t.doc = call.doc /\ t.dirty = {"spotify"}
  BY <1>3, <1>4 DEF Call, Pcs, Fields
<1>6. Relies(t) /\ Apart(t, Calls \ {k})
  BY <1>2, <1>3, <1>5, NullAssumptions DEF Relies, Loaded, Apart
<1>7. calls' = [calls EXCEPT ![k] = t]
  BY <1>1, <1>4 DEF Refresh, AccountsInv, AccountsTypeOK
<1> QED
  BY <1>5, <1>6, <1>7, QuietStep DEF Refresh, spotifyVars

LEMMA NowPlayingInv ==
  ASSUME AccountsInv, NEW k \in Calls, NowPlaying(k)
  PROVE  AccountsInv'
<1>1. PICK call : call = calls[k]
  OBVIOUS
<1>2. call.pc = "ask"
  BY <1>1 DEF NowPlaying
<1>3. call \in Call /\ call.doc \in Account /\ Relies(call)
  BY <1>1, <1>2, HandleFacts DEF Loaded
<1>4. PICK answer \in Answers :
         calls' = [calls EXCEPT ![k].pc = "shown", ![k].data = answer]
  BY DEF NowPlaying, Answers
<1>5. PICK t : t = [call EXCEPT !.pc = "shown", !.data = answer]
  OBVIOUS
<1>6. /\ t \in Call /\ t.pc = "shown" /\ t.actor = call.actor /\ t.doc = call.doc
  BY <1>3, <1>5 DEF Call, Pcs
<1>7. Relies(t) /\ Apart(t, Calls \ {k})
  BY <1>2, <1>3, <1>6 DEF Relies, Loaded, Apart
<1>8. calls' = [calls EXCEPT ![k] = t]
  BY <1>1, <1>4, <1>5 DEF AccountsInv, AccountsTypeOK
<1> QED
  BY <1>6, <1>7, <1>8, QuietStep DEF NowPlaying, spotifyVars

-----------------------------------------------------------------------------
(* Steps that store something                                              *)

\* Request j relies on what c relies on, once it is c.
LEMMA NextRelies ==
  ASSUME NEW j, NEW c, calls'[j] = c, Relies(c)'
  PROVE  Relies(calls[j])'
  BY DEF Relies, Owns

LEMMA LoudStep ==
  ASSUME AccountsInv, AccountsTypeOK', Grows, \A v \in Members' : StoredInv(v)',
         NEW k \in Calls, NEW t \in Call, calls' = [calls EXCEPT ![k] = t],
         Relies(t)', t.pc # "state",
         \A j \in Calls \ {k} :
             calls[j].pc = "state" => issued'[calls[j].doc.spotifyAuthState] = None
  PROVE  AccountsInv'
<1>1. calls'[k] = t /\ \A j \in Calls \ {k} : calls'[j] = calls[j]
  BY DEF AccountsInv, AccountsTypeOK
<1>2. ASSUME NEW j \in Calls PROVE Relies(calls[j])'
  <2>1. CASE j = k
    BY <1>1, <2>1, NextRelies
  <2>2. CASE j # k
    <3>1. PICK c \in Call : c = calls[j]
      BY DEF AccountsInv, AccountsTypeOK
    <3>2. Relies(c)'
      BY <2>2, <3>1, KeepsRelies DEF AccountsInv
    <3> QED
      BY <1>1, <2>2, <3>1, <3>2, NextRelies
  <2> QED
    BY <2>1, <2>2
<1>3. ASSUME NEW j \in Calls PROVE Apart(calls[j], Calls \ {j})'
  BY <1>1 DEF AccountsInv, Apart
<1> QED
  BY <1>2, <1>3 DEF AccountsInv

LEMMA InsertUserInv ==
  ASSUME AccountsInv, UNCHANGED spotifyVars, NEW k \in Calls, InsertUser(k)
  PROVE  AccountsInv'
<1>1. PICK call \in Call : call = calls[k] /\ Relies(call) /\ call.pc = "insert"
  BY DEF AccountsInv, AccountsTypeOK, InsertUser
<1>2. PICK u \in People : u = call.actor /\ call.data \in Codes
  BY <1>1 DEF Relies
<1>3. PICK new : new = NewAccount(call.claim, call.data)
  OBVIOUS
<1>4. /\ new \in Account /\ new # None
      /\ new.spotify = None /\ new.spotifyAuthState = None
  <2>1. PICK name : name = IF call.claim = None THEN "Friend" ELSE call.claim
    OBVIOUS
  <2>2. name \in {"Friend"} \cup TokenNames \cup TypedNames
    BY <2>1 DEF Call
  <2>3. new = [displayName |-> name, displayNameSet |-> FALSE,
               pairingCode |-> call.data, spotify |-> None,
               spotifyAuthState |-> None]
    BY <1>3, <2>1 DEF NewAccount
  <2>4. new \in Account
    BY <1>2, <2>2, <2>3 DEF Account
  <2> QED
    BY <2>3, <2>4, NullAssumptions
<1>5. CASE ~(users[u] = None /\ ~Taken(call.data))
  <2>1. Goto(k, "retry") /\ UNCHANGED users
    BY <1>1, <1>2, <1>5 DEF InsertUser
  <2>2. u \in Members \/ Taken(call.data)
    BY <1>5 DEF Members
  <2>3. \A t \in Call : Moved(t, calls[k], "retry") => Relies(t)
    BY <1>1, <1>2, <2>2 DEF Moved, Relies, Loaded
  <2> QED
    BY <2>1, <2>3, GotoKeeps DEF Pcs, spotifyVars
<1>6. CASE users[u] = None /\ ~Taken(call.data)
  <2>1. PICK t : t = Signed(call, new)
    OBVIOUS
  <2>2. /\ t \in Call /\ t.pc = "handle" /\ t.actor = u /\ t.doc = new
    BY <1>2, <1>4, <2>1 DEF Signed, Call, Pcs
  <2>3. /\ users' = [users EXCEPT ![u] = new]
        /\ calls' = [calls EXCEPT ![k] = t] /\ issued' = issued
    BY <1>1, <1>2, <1>3, <1>6, <2>1 DEF InsertUser, spotifyVars
  <2>4. /\ AccountsTypeOK' /\ users'[u] = new
        /\ \A v \in People \ {u} : users'[v] = users[v]
    BY <1>4, <2>2, <2>3 DEF AccountsInv, AccountsTypeOK
  <2>5. /\ u \in Members' /\ u \notin Members
        /\ \A v \in Members : v \in Members' /\ users'[v] = users[v]
        /\ \A v \in Members' : v = u \/ v \in Members
    BY <1>4, <1>6, <2>4 DEF Members
  <2>6. Grows
    <3>1. ASSUME NEW s \in States, Burned(s) PROVE Burned(s)'
      <4>1. ASSUME NEW v \in Members' PROVE users'[v].spotifyAuthState # s
        <5>1. CASE v = u
          BY <1>4, <2>4, <5>1, NullAssumptions
        <5>2. CASE v \in Members
          BY <2>5, <3>1, <5>2 DEF Burned
        <5> QED
          BY <2>5, <5>1, <5>2
      <4> QED
        BY <2>3, <3>1, <4>1 DEF Burned
    <3> QED
      BY <2>3, <2>5, <3>1 DEF Grows
  <2>7. ASSUME NEW v \in Members PROVE StoredInv(v)'
    <3>1. v \in People /\ users[v] \in Account
      BY DEF Members, AccountsInv, AccountsTypeOK
    <3> QED
      BY <2>3, <2>5, <2>6, <3>1, KeepsOwns DEF AccountsInv, StoredInv
  <2>8. Relies(t)'
    BY <1>4, <2>2, <2>5 DEF Relies, Loaded, Owns
  <2>9. \A j \in Calls \ {k} :
           calls[j].pc = "state" => issued'[calls[j].doc.spotifyAuthState] = None
    BY <2>3 DEF AccountsInv, Relies
  <2> QED
    <3>1. ASSUME NEW v \in Members' PROVE StoredInv(v)'
      <4>1. CASE v = u
        BY <1>4, <2>4, <4>1 DEF StoredInv, Owns
      <4> QED
        BY <2>5, <2>7, <4>1
    <3> QED
      BY <2>2, <2>3, <2>4, <2>6, <2>8, <2>9, <3>1, LoudStep
<1> QED
  BY <1>5, <1>6

\* What a save does to the stored account, whatever it was meanwhile.
LEMMA SaveFacts ==
  ASSUME AccountsInv, NEW k \in Calls, Save(k),
         NEW call, call = calls[k], NEW u, u = call.actor,
         NEW old, old = users[u], NEW new, new = Saved(old, call.doc, call.dirty)
  PROVE  /\ call \in Call /\ Relies(call) /\ call.doc \in Account
         /\ call.pc \in {"sync", "patch", "state", "burn", "tokens", "clear",
                         "refreshed"}
         /\ u \in Members /\ u \in People /\ old \in Account
         /\ new \in Account /\ new # None /\ users' = [users EXCEPT ![u] = new]
         /\ new.pairingCode = old.pairingCode
         /\ old.displayNameSet => new.displayNameSet
         /\ new.displayName = old.displayName \/ call.pc \in {"sync", "patch"}
         /\ \/ new.spotify = old.spotify
            \/ call.pc \notin {"sync", "patch"} /\ new.spotify = call.doc.spotify
         /\ \/ new.spotifyAuthState = old.spotifyAuthState
            \/ call.pc \in {"burn", "clear"} /\ new.spotifyAuthState = None
            \/ call.pc = "state" /\ new.spotifyAuthState = call.doc.spotifyAuthState
         /\ call.pc = "burn" => new.spotifyAuthState = None
<1>1. call.pc \in {"sync", "patch", "state", "burn", "tokens", "clear", "refreshed"}
  BY DEF Save, AfterSave
<1>2. /\ call \in Call /\ Relies(call) /\ call.doc \in Account
      /\ u \in Members /\ u \in People
  BY <1>1, HandleFacts DEF Loaded
<1>3. old \in Account
  BY <1>2 DEF AccountsInv, AccountsTypeOK, Members
<1>4. call.dirty \subseteq Fields
  BY <1>2 DEF Call
<1>5. new \in Account /\ new # None
  BY <1>2, <1>3, <1>4, SavedType, NullAssumptions
<1>6. users' = [users EXCEPT ![u] = new]
  BY <1>2 DEF Save
<1>7. /\ "pairingCode" \notin call.dirty
      /\ "displayName" \in call.dirty => call.pc \in {"sync", "patch"}
      /\ "displayNameSet" \in call.dirty => call.pc = "patch"
      /\ "spotify" \in call.dirty => call.pc \notin {"sync", "patch"}
      /\ "spotifyAuthState" \in call.dirty => call.pc \in {"burn", "clear", "state"}
      /\ call.pc = "burn" => "spotifyAuthState" \in call.dirty
  BY <1>1, <1>2 DEF Relies
<1>8. /\ call.pc = "patch" => call.doc.displayNameSet
      /\ call.pc \in {"burn", "clear"} => call.doc.spotifyAuthState = None
  BY <1>2 DEF Relies
<1>9. /\ new.pairingCode = old.pairingCode
      /\ new.displayName = old.displayName \/ call.pc \in {"sync", "patch"}
  BY <1>2, <1>3, <1>4, <1>7, SavedType
<1>10. old.displayNameSet => new.displayNameSet
  BY <1>2, <1>3, <1>4, <1>7, <1>8, SavedType
<1>11. \/ new.spotify = old.spotify
       \/ call.pc \notin {"sync", "patch"} /\ new.spotify = call.doc.spotify
  BY <1>2, <1>3, <1>4, <1>7, SavedType
<1>12. /\ \/ new.spotifyAuthState = old.spotifyAuthState
          \/ call.pc \in {"burn", "clear"} /\ new.spotifyAuthState = None
          \/ call.pc = "state" /\ new.spotifyAuthState = call.doc.spotifyAuthState
       /\ call.pc = "burn" => new.spotifyAuthState = None
  BY <1>2, <1>3, <1>4, <1>7, <1>8, SavedType
<1> QED
  BY <1>1, <1>2, <1>3, <1>5, <1>6, <1>9, <1>10, <1>11, <1>12

\* A save takes no state out of the hands of its owner, and brings none back.
LEMMA SaveInv ==
  ASSUME AccountsInv, NEW k \in Calls, Save(k)
  PROVE  AccountsInv'
<1>1. PICK call : call = calls[k]
  OBVIOUS
<1>2. PICK u : u = call.actor
  OBVIOUS
<1>3. PICK old, new : old = users[u] /\ new = Saved(old, call.doc, call.dirty)
  OBVIOUS
<1>4. PICK s : s = call.doc.spotifyAuthState
  OBVIOUS
<1>5. /\ call \in Call /\ Relies(call) /\ call.doc \in Account
      /\ call.pc \in {"sync", "patch", "state", "burn", "tokens", "clear",
                      "refreshed"}
      /\ u \in Members /\ u \in People /\ old \in Account
      /\ new \in Account /\ new # None /\ users' = [users EXCEPT ![u] = new]
      /\ new.pairingCode = old.pairingCode
  BY <1>1, <1>2, <1>3, SaveFacts
<1>6. /\ new.spotify = old.spotify \/ new.spotify = call.doc.spotify
      /\ \/ new.spotifyAuthState = old.spotifyAuthState
         \/ new.spotifyAuthState = None
         \/ call.pc = "state" /\ new.spotifyAuthState = s
      /\ call.pc = "burn" => new.spotifyAuthState = None
  BY <1>1, <1>2, <1>3, <1>4, SaveFacts
<1>7. issued' = IF call.pc = "state" THEN [issued EXCEPT ![s] = u] ELSE issued
  BY <1>1, <1>2, <1>4 DEF Save
<1>8. call.pc = "state" => s \in States /\ issued[s] = None
  BY <1>4, <1>5 DEF Relies
<1>9. PICK t : t = IF call.pc \in {"sync", "burn", "refreshed"}
                   THEN [call EXCEPT !.pc = AfterSave[call.pc], !.dirty = {}]
                   ELSE Idle
  OBVIOUS
<1>10. calls' = [calls EXCEPT ![k] = t]
  <2>1. AfterSave[call.pc] = "idle" <=> call.pc \notin {"sync", "burn", "refreshed"}
    BY <1>5 DEF AfterSave
  <2>2. calls' = [calls EXCEPT ![k] =
                     IF AfterSave[call.pc] = "idle" THEN Idle
                     ELSE [call EXCEPT !.pc = AfterSave[call.pc], !.dirty = {}]]
    BY <1>1 DEF Save
  <2> QED
    BY <1>9, <2>1, <2>2
<1>11. \/ t = Idle
       \/ /\ t \in Call /\ t.doc = call.doc /\ t.actor = u /\ t.data = call.data
          /\ t.pc \in {"handle", "exchange", "ask"}
          /\ t.pc = "exchange" => call.pc = "burn"
  <2>1. CASE call.pc \in {"sync", "burn", "refreshed"}
    <3>1. PICK pc : pc = AfterSave[call.pc]
      OBVIOUS
    <3>2. pc \in {"handle", "exchange", "ask"} /\ (pc = "exchange" => call.pc = "burn")
      BY <2>1, <3>1 DEF AfterSave
    <3>3. t = [call EXCEPT !.pc = pc, !.dirty = {}]
      BY <1>9, <2>1, <3>1
    <3> QED
      BY <1>2, <1>5, <3>2, <3>3 DEF Call, Pcs
  <2> QED
    BY <1>9, <2>1
<1>12. t \in Call /\ t.pc # "state"
  BY <1>11, IdleType DEF Idle
<1>13. /\ AccountsTypeOK' /\ users'[u] = new
       /\ \A v \in People \ {u} : users'[v] = users[v]
  BY <1>5, <1>7, <1>8, <1>10, <1>12 DEF AccountsInv, AccountsTypeOK
<1>14. Members' = Members
  BY <1>5, <1>13 DEF Members
<1>15. \A x \in States : issued[x] # None => issued'[x] = issued[x]
  BY <1>7, <1>8
<1>16. ASSUME NEW x \in States, Burned(x) PROVE Burned(x)'
  <2>1. new.spotifyAuthState # x
    BY <1>3, <1>5, <1>6, <1>8, <1>16, NullAssumptions DEF Burned
  <2>2. issued'[x] # None
    BY <1>15, <1>16 DEF Burned
  <2> QED
    BY <1>13, <1>14, <1>16, <2>1, <2>2 DEF Burned, Members
<1>17. Grows
  BY <1>3, <1>5, <1>13, <1>14, <1>15, <1>16 DEF Grows, Members
<1>18. \A v \in People, doc \in Account : Owns(v, doc) => Owns(v, doc)'
  BY <1>17, KeepsOwns
<1>19. ASSUME NEW v \in Members' PROVE StoredInv(v)'
  <2>1. /\ v \in Members /\ v \in People /\ users[v] \in Account /\ StoredInv(v)
    BY <1>14 DEF AccountsInv, AccountsTypeOK, Members
  <2>2. CASE v # u
    <3>1. users'[v] = users[v] /\ Owns(v, users[v])'
      BY <1>13, <1>18, <2>1, <2>2 DEF StoredInv
    <3>2. users[v].spotifyAuthState # None =>
              issued'[users[v].spotifyAuthState] = v
      BY <1>15, <2>1, NullAssumptions DEF StoredInv, Account
    <3> QED
      BY <3>1, <3>2 DEF StoredInv
  <2>3. CASE v = u
    <3>1. Owns(u, new)
      <4>1. Owns(u, old) /\ Owns(u, call.doc)
        BY <1>2, <1>3, <1>5, <2>1, <2>3, NullAssumptions DEF StoredInv, Relies
      <4> QED
        BY <1>6, <4>1 DEF Owns
    <3>2. Owns(u, new)'
      BY <1>5, <1>18, <3>1
    <3>3. new.spotifyAuthState # None => issued'[new.spotifyAuthState] = u
      <4>1. CASE new.spotifyAuthState = old.spotifyAuthState
        BY <1>3, <1>5, <1>15, <2>1, <2>3, <4>1, NullAssumptions DEF StoredInv, Account
      <4>2. CASE call.pc = "state" /\ new.spotifyAuthState = s
        BY <1>7, <1>8, <4>2 DEF AccountsInv, AccountsTypeOK
      <4> QED
        BY <1>6, <4>1, <4>2
    <3> QED
      BY <1>13, <2>3, <3>2, <3>3 DEF StoredInv
  <2> QED
    BY <2>2, <2>3
<1>20. Relies(t)'
  <2>1. CASE t = Idle
    BY <2>1 DEF Relies, Idle, Loaded
  <2>2. CASE t # Idle
    <3>1. /\ t.doc = call.doc /\ t.actor = u /\ t.data = call.data
          /\ t.pc \in {"handle", "exchange", "ask"}
          /\ t.pc = "exchange" => call.pc = "burn"
      BY <1>11, <2>2
    <3>2. t.doc # None /\ u \in Members' /\ Owns(u, t.doc)'
      BY <1>2, <1>5, <1>14, <1>18, <3>1, NullAssumptions DEF Relies
    <3>3. ASSUME call.pc = "burn"
          PROVE  /\ call.data \in Grants /\ issued'[call.data.state] = u
                 /\ Burned(call.data.state)'
      <4>1. /\ call.data \in Grants /\ issued[call.data.state] = u
            /\ call.data.state \in States
        BY <1>2, <1>5, <3>3 DEF Relies, Grants
      <4>2. issued'[call.data.state] = u /\ u # None
        BY <1>5, <1>15, <4>1, NullAssumptions
      <4>3. \A v \in Members \ {u} : users[v].spotifyAuthState # call.data.state
        BY <4>1, NullAssumptions DEF AccountsInv, StoredInv
      <4>4. new.spotifyAuthState # call.data.state
        BY <1>6, <3>3, <4>1, NullAssumptions
      <4> QED
        BY <1>13, <1>14, <4>1, <4>2, <4>3, <4>4 DEF Burned, Members
    <3> QED
      BY <3>1, <3>2, <3>3 DEF Relies, Loaded
  <2> QED
    BY <2>1, <2>2
<1>21. ASSUME NEW j \in Calls \ {k}, calls[j].pc = "state"
       PROVE  issued'[calls[j].doc.spotifyAuthState] = None
  <2>1. /\ issued[calls[j].doc.spotifyAuthState] = None
        /\ calls[j].doc.spotifyAuthState \in States
    BY <1>21 DEF AccountsInv, Relies
  <2>2. call.pc = "state" => calls[j].doc.spotifyAuthState # s
    BY <1>1, <1>4, <1>21 DEF AccountsInv, Apart
  <2> QED
    BY <1>7, <1>8, <2>1, <2>2 DEF AccountsInv, AccountsTypeOK
<1> QED
  BY <1>10, <1>12, <1>13, <1>17, <1>19, <1>20, <1>21, LoudStep

-----------------------------------------------------------------------------
(* Theorems                                                                *)

LEMMA AccountsInit == SpotifyInit => AccountsInv
  BY IdleType DEF SpotifyInit, UsersInit, AccountsInv, AccountsTypeOK, Members,
                  Relies, Loaded, Apart, Idle

LEMMA AccountsNext ==
  ASSUME AccountsInv, [SpotifyNext]_accountVars
  PROVE  AccountsInv'
<1>1. ASSUME NEW k \in Calls, Arrive(k) PROVE AccountsInv'
  BY <1>1, SignInInv, CallbackInv DEF Arrive
<1>2. ASSUME NEW k \in Calls, UsersStep(k) /\ UNCHANGED spotifyVars
      PROVE  AccountsInv'
  <2>1. CASE Me(k)
    BY <1>2, <2>1, EndKeeps DEF Me, spotifyVars
  <2> QED
    BY <1>2, <2>1, DrawCodeInv, InsertUserInv, RetrySignInInv, PatchInv DEF UsersStep
<1>3. ASSUME NEW k \in Calls, Answer(k) PROVE AccountsInv'
  BY <1>3, EndKeeps DEF Answer, spotifyVars
<1>4. ASSUME NEW k \in Calls, Step(k) PROVE AccountsInv'
  BY <1>2, <1>3, <1>4, AuthorizeUrlInv, MoveOnInv, StoreTokensInv, DisconnectInv,
     RefreshInv, NowPlayingInv, SaveInv DEF Step
<1>5. ASSUME NEW k \in Calls, FailCall(k) /\ UNCHANGED spotifyVars PROVE AccountsInv'
  BY <1>5, EndKeeps DEF FailCall, spotifyVars
<1>6. CASE UNCHANGED accountVars
  BY <1>6 DEF accountVars, AccountsInv, AccountsTypeOK, StoredInv, Relies, Owns,
              Burned, Taken, Members, Apart
<1> QED
  BY <1>1, <1>4, <1>5, <1>6 DEF SpotifyNext

LEMMA AccountsInvariance == AccountsSpec => []AccountsInv
  BY AccountsInit, AccountsNext, PTL DEF AccountsSpec

\* First requests of one person never shut each other out: however many race
\* to insert the account, one that is refused lost its code to somebody else.
THEOREM NobodyIsShutOut == AccountsSpec => []NobodyShutOut
<1>1. AccountsInv => NobodyShutOut
  BY DEF AccountsInv, Relies, NobodyShutOut
<1> QED
  BY <1>1, AccountsInvariance, PTL

\* Callbacks, refreshes and disconnects in any order: the tokens stored on a
\* person came from a connect page made for that person.
THEOREM TokensGoToTheirOwner == AccountsSpec => []ConnectsItsOwner
<1>1. AccountsInv => ConnectsItsOwner
  BY DEF AccountsInv, StoredInv, Owns, ConnectsItsOwner
<1> QED
  BY <1>1, AccountsInvariance, PTL

\* The state of stored tokens is gone from every account for good, also from
\* those that requests with older copies have saved since.
THEOREM StatesAreBurned == AccountsSpec => []BurnedBeforeStored
<1>1. AccountsInv => BurnedBeforeStored
  BY DEF AccountsInv, StoredInv, Owns, Burned, BurnedBeforeStored
<1> QED
  BY <1>1, AccountsInvariance, PTL

\* The steps that store nothing on those who have an account.
LEMMA OnlySavesWrite ==
  ASSUME AccountsInv, [SpotifyNext]_accountVars
  PROVE  \/ \A u \in Members : users'[u] = users[u]
         \/ \E k \in Calls : Save(k)
<1>1. ASSUME NEW k \in Calls, InsertUser(k) PROVE \A u \in Members : users'[u] = users[u]
  BY <1>1 DEF InsertUser, Members, AccountsInv, AccountsTypeOK
<1>2. ASSUME NEW k \in Calls, Arrive(k) PROVE users' = users
  BY <1>2 DEF Arrive, SignIn, Callback
<1>3. ASSUME NEW k \in Calls, UsersStep(k), ~InsertUser(k) PROVE users' = users
  BY <1>3 DEF UsersStep, DrawCode, RetrySignIn, Me, Patch
<1>4. ASSUME NEW k \in Calls, Step(k), ~UsersStep(k), ~Save(k) PROVE users' = users
  BY <1>4 DEF Step, AuthorizeUrl, Exchange, StoreTokens, Disconnect,
              FreshAccessToken, Refresh, NowPlaying, Answer
<1>5. ASSUME NEW k \in Calls, FailCall(k) PROVE users' = users
  BY <1>5 DEF FailCall
<1>6. UNCHANGED accountVars => users' = users
  BY DEF accountVars
<1> QED
  BY <1>1, <1>2, <1>3, <1>4, <1>5, <1>6 DEF SpotifyNext, Step

\* What one save does to everybody's account.
LEMMA SaveEffect ==
  ASSUME AccountsInv, NEW k \in Calls, Save(k), NEW u \in Members
  PROVE  /\ users'[u].pairingCode = users[u].pairingCode
         /\ users[u].displayNameSet => users'[u].displayNameSet
         /\ \/ users'[u] = users[u]
            \/ /\ calls[k].actor = u
               /\ \/ calls[k].pc \notin {"sync", "patch"}
                  \/ /\ users'[u].spotify = users[u].spotify
                     /\ users'[u].spotifyAuthState = users[u].spotifyAuthState
               /\ \/ users'[u].displayName = users[u].displayName
                  \/ calls[k].pc = "patch"
                  \/ calls[k].pc = "sync" /\ ~calls[k].doc.displayNameSet
<1>1. PICK call : call = calls[k]
  OBVIOUS
<1>2. PICK old, new : /\ old = users[call.actor]
                      /\ new = Saved(old, call.doc, call.dirty)
  OBVIOUS
<1>3. /\ Relies(call) /\ call.actor \in People
      /\ users' = [users EXCEPT ![call.actor] = new]
      /\ new.pairingCode = old.pairingCode
      /\ old.displayNameSet => new.displayNameSet
      /\ new.displayName = old.displayName \/ call.pc \in {"sync", "patch"}
      /\ \/ new.spotify = old.spotify
         \/ call.pc \notin {"sync", "patch"}
      /\ \/ new.spotifyAuthState = old.spotifyAuthState
         \/ call.pc \in {"burn", "clear", "state"}
  BY <1>1, <1>2, SaveFacts
<1>4. CASE u # call.actor
  BY <1>3, <1>4 DEF AccountsInv, AccountsTypeOK, Members
<1>5. CASE u = call.actor
  <2>1. users'[u] = new /\ old = users[u]
    BY <1>2, <1>3, <1>5 DEF AccountsInv, AccountsTypeOK
  <2>2. call.pc = "sync" => ~call.doc.displayNameSet
    BY <1>3 DEF Relies
  <2> QED
    BY <1>1, <1>3, <1>5, <2>1, <2>2
<1> QED
  BY <1>4, <1>5

\* Requests that work on copies of the same document write back nothing they
\* did not change, at any number of them in flight.
THEOREM EditsAreKept == AccountsSpec => EditsKept
<1>1. ASSUME AccountsInv, [SpotifyNext]_accountVars, NEW u \in Members
      PROVE  /\ users'[u].pairingCode = users[u].pairingCode
             /\ users[u].displayNameSet => users'[u].displayNameSet
             /\ \/ /\ users'[u].spotify = users[u].spotify
                   /\ users'[u].spotifyAuthState = users[u].spotifyAuthState
                \/ \E k \in Calls : /\ calls[k].actor = u
                                    /\ calls[k].pc \notin {"sync", "patch"}
  BY <1>1, OnlySavesWrite, SaveEffect
<1>2. AccountsInv /\ [SpotifyNext]_accountVars =>
        [\A u \in Members :
          /\ users'[u].pairingCode = users[u].pairingCode
          /\ users[u].displayNameSet => users'[u].displayNameSet
          /\ \/ /\ users'[u].spotify = users[u].spotify
                /\ users'[u].spotifyAuthState = users[u].spotifyAuthState
             \/ \E k \in Calls : /\ calls[k].actor = u
                                 /\ calls[k].pc \notin {"sync", "patch"}]_accountVars
  BY <1>1
<1> QED
  BY <1>2, AccountsInvariance, PTL DEF AccountsSpec, EditsKept
=============================================================================
