------------------------------ MODULE Spotify ------------------------------
(***************************************************************************)
(* SpotifyService and its controller on the documents of Users: the        *)
(* connect handshake with its one-time state, the tokens and their         *)
(* refresh, disconnecting, and what "now playing" answers.  Spotify itself *)
(* grants a code per consent and exchanges each code once.                 *)
(***************************************************************************)
EXTENDS Users, SequencesExt

CONSTANTS
    States,      \* states randomBytes may draw, each once
    MaxConsents, \* bound: consents given on one connect page
    Histories    \* what Spotify may answer: [current, recent]

VARIABLES
    issued,      \* the person whose connect page carries each state
    exchanged    \* the grants Spotify exchanged for tokens

spotifyVars == <<issued, exchanged>>
accountVars == <<users, calls, issued, exchanged>>

\* What Spotify sends the browser back with: the state of a connect page, and
\* the code of a consent given there.
Grants == [state : States, nr : 1 .. MaxConsents]

\* spotify on a user stands for the tokens a grant was exchanged for, however
\* often refreshed: it is the grant.  Whether the access token is good for
\* another minute (REFRESH_SKEW_MS) is a matter of when it is asked.

Account ==
    [displayName : {"Friend"} \cup TokenNames \cup TypedNames,
     displayNameSet : BOOLEAN, pairingCode : Codes,
     spotify : Grants \cup {None}, spotifyAuthState : States \cup {None}]

\* null is no person, no state, no grant and no document.
ASSUME NullAssumptions ==
    /\ None \notin People /\ None \notin States
    /\ None \notin Grants /\ None \notin Account

-----------------------------------------------------------------------------
(* Connect                                                                 *)

\* GET /spotify/authorize-url: a new state on the user.
AuthorizeUrl(k) ==
    /\ calls[k].pc = "handle"
    /\ \E s \in States :
          /\ issued[s] = None
          /\ \A j \in Calls : calls[j].pc = "state" =>
                               calls[j].doc.spotifyAuthState # s
          /\ calls' = [calls EXCEPT ![k] =
                Stage(@, "state",
                      [@.doc EXCEPT !.spotifyAuthState = s])]
    /\ UNCHANGED <<users, spotifyVars>>

\* findOne({ spotifyAuthState: state })
HasState(u, s) == u \in Members /\ users[u].spotifyAuthState = s

\* Mutant of Callback: whoever has a connect under way.
CallbackOfAnyone(k, g) ==
    /\ calls[k] = Idle /\ issued[g.state] # None
    /\ \E u \in Members :
          /\ users[u].spotifyAuthState # None
          /\ calls' = [calls EXCEPT ![k] =
                Stage([Idle EXCEPT !.actor = u, !.data = g, !.doc = users[u]],
                      "burn", [users[u] EXCEPT !.spotifyAuthState = None])]
    /\ UNCHANGED <<users, spotifyVars>>

\* Mutant of Callback: the state is left where it is.
CallbackKeeping(k, g) ==
    /\ calls[k] = Idle /\ issued[g.state] # None
    /\ \E u \in People :
          /\ HasState(u, g.state)
          /\ calls' = [calls EXCEPT ![k] =
                [Idle EXCEPT !.pc = "burn", !.actor = u, !.data = g,
                             !.doc = users[u]]]
    /\ UNCHANGED <<users, spotifyVars>>

\* GET /spotify/callback, with no token, as often as the page is reloaded: the
\* state names the person, and is to be burned first.  No person with it, and nothing happens.
Callback(k, g) ==
    /\ calls[k] = Idle /\ issued[g.state] # None
    /\ \E u \in People :
          /\ HasState(u, g.state)
          /\ calls' = [calls EXCEPT ![k] =
                Stage([Idle EXCEPT !.actor = u, !.data = g, !.doc = users[u]],
                      "burn", [users[u] EXCEPT !.spotifyAuthState = None])]
    /\ UNCHANGED <<users, spotifyVars>>

\* The code for tokens, once; a refusal ends the call.
Exchange(k) ==
    LET g == calls[k].data IN
    /\ calls[k].pc = "exchange" /\ g \notin exchanged
    /\ exchanged' = exchanged \cup {g}
    /\ Goto(k, "profile")
    /\ UNCHANGED <<users, issued>>

\* GET /v1/me did not answer 403: the tokens are to be saved.
StoreTokens(k) ==
    /\ calls[k].pc = "profile"
    /\ calls' = [calls EXCEPT ![k] =
          Stage(@, "tokens",
                [@.doc EXCEPT !.spotify = calls[k].data])]
    /\ UNCHANGED <<users, spotifyVars>>

-----------------------------------------------------------------------------
(* Disconnect, refresh, now playing                                        *)

\* DELETE /spotify
Disconnect(k) ==
    /\ calls[k].pc = "handle"
    /\ calls' = [calls EXCEPT ![k] =
          Stage(@, "clear", [@.doc EXCEPT
                    !.spotify = None, !.spotifyAuthState = None])]
    /\ UNCHANGED <<users, spotifyVars>>

\* freshAccessToken: the one of the copy while it is valid, or another.
\* Without any the request is refused.
FreshAccessToken(k) ==
    /\ calls[k].pc = "handle" /\ calls[k].doc.spotify # None
    /\ Goto(k, "ask") \/ Goto(k, "refresh")
    /\ UNCHANGED <<users, spotifyVars>>

\* The new access token is to be saved with what was there; Spotify usually
\* omits the refresh token, and then the old one is kept.
Refresh(k) ==
    /\ calls[k].pc = "refresh"
    /\ calls' = [calls EXCEPT ![k].pc = "refreshed", ![k].dirty = {"spotify"}]
    /\ UNCHANGED <<users, spotifyVars>>

\* The first occurrence of each track.
Once(songs) ==
    FoldLeft(LAMBDA kept, s : IF Contains(kept, s) THEN kept
                              ELSE Append(kept, s), <<>>, songs)

\* What was heard lately, without what is playing.
Recent(history) ==
    SelectSeq(Once(history.recent), LAMBDA s : s # history.current)

\* GET /spotify/now-playing: both questions are answered.
NowPlaying(k) ==
    /\ calls[k].pc = "ask"
    /\ \E h \in Histories :
          calls' = [calls EXCEPT ![k].pc = "shown",
                ![k].data = [current |-> h.current, recent |-> Recent(h)]]
    /\ UNCHANGED <<users, spotifyVars>>

\* The answer, or the refusal, reaches the caller.
Answer(k) ==
    /\ calls[k].pc \in {"shown", "refused", "noCode"}
    /\ End(k)
    /\ UNCHANGED <<users, spotifyVars>>

-----------------------------------------------------------------------------
(* Saves                                                                   *)

\* Where each request goes on once its copy is saved; "idle": it is answered.
AfterSave == [sync |-> "handle", burn |-> "exchange", refreshed |-> "ask",
              patch |-> "idle", state |-> "idle", tokens |-> "idle",
              clear |-> "idle"]

\* user.save().  Only then does the connect page go out with its state.
Save(k) ==
    LET call == calls[k] IN
    /\ call.pc \in DOMAIN AfterSave
    /\ users' = [users EXCEPT ![call.actor] = Saved(@, call.doc, call.dirty)]
    /\ calls' = [calls EXCEPT ![k] =
          IF AfterSave[call.pc] = "idle" THEN Idle
          ELSE [@ EXCEPT !.pc = AfterSave[call.pc], !.dirty = {}]]
    /\ issued' = IF call.pc = "state"
                 THEN [issued EXCEPT ![call.doc.spotifyAuthState] = call.actor]
                 ELSE issued
    /\ UNCHANGED exchanged

SpotifyInit ==
    /\ UsersInit
    /\ calls = [k \in Calls |-> Idle]
    /\ issued = [s \in States |-> None]
    /\ exchanged = {}

Arrive(k) ==
    \/ \E u \in People, claim \in TokenNames :
          SignIn(k, u, claim) /\ UNCHANGED spotifyVars
    \/ \E g \in Grants : Callback(k, g)

Step(k) ==
    \/ UsersStep(k) /\ UNCHANGED spotifyVars
    \/ AuthorizeUrl(k) \/ Exchange(k) \/ StoreTokens(k) \/ Disconnect(k)
    \/ FreshAccessToken(k) \/ Refresh(k) \/ NowPlaying(k) \/ Answer(k)
    \/ Save(k)

SpotifyNext ==
    \/ \E k \in Calls : Arrive(k) \/ Step(k)
    \/ \E k \in Calls : FailCall(k) /\ UNCHANGED spotifyVars

AccountsSpec == SpotifyInit /\ [][SpotifyNext]_accountVars

-----------------------------------------------------------------------------
(* Properties                                                              *)

\* First requests of one person that arrive together (the client loads five
\* lists at once) do not shut each other out: sign-up is refused only when
\* somebody else got the code.
NobodyShutOut ==
    \A k \in Calls : calls[k].pc = "refused" =>
        \E v \in Members \ {calls[k].actor} :
            users[v].pairingCode = calls[k].data

\* Whoever's tokens are stored, the consent was given on a page made for the
\* person they are stored on, whichever callback came first.
ConnectsItsOwner ==
    \A u \in Members :
        users[u].spotify # None => issued[users[u].spotify.state] = u

\* A state that brought tokens is stored no longer: its callback replayed
\* later connects nobody, on whatever copies the requests between worked.
BurnedBeforeStored ==
    \A u, v \in Members :
        users[u].spotify # None =>
            users[v].spotifyAuthState # users[u].spotify.state

\* Requests that work on older copies of the document write back nothing they
\* did not change: a code never changes, a typed name stays typed, and what
\* Spotify's requests store only they change.
EditsKept ==
    [][\A u \in Members :
          /\ users'[u].pairingCode = users[u].pairingCode
          /\ users[u].displayNameSet => users'[u].displayNameSet
          /\ \/ /\ users'[u].spotify = users[u].spotify
                /\ users'[u].spotifyAuthState = users[u].spotifyAuthState
             \/ \E k \in Calls : /\ calls[k].actor = u
                                 /\ calls[k].pc \notin {"sync", "patch"}]_accountVars

\* "A name the user typed themselves wins over whatever Auth0 says"
\* (users.service.ts:17): it is not so when the sign-in of another request
\* read the document before the name was typed and saves its sync after.
TypedNameWins ==
    \A u \in Members :
        users[u].displayNameSet => users[u].displayName \in TypedNames
=============================================================================
