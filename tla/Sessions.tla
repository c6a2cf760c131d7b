------------------------------ MODULE Sessions ------------------------------
(***************************************************************************)
(* The session store under the requests of one browser, which all send the *)
(* same cookie.  A request loads a copy of its session when it comes in    *)
(* and, if it changed the copy, saves the whole of it when it ends: the    *)
(* copies of two requests overwrite each other.  Logging in makes a new    *)
(* session, logging out destroys one, an OAuth handshake keeps its state   *)
(* token in the session from its redirect to its callback.                 *)
(***************************************************************************)
EXTENDS BackOffice

CONSTANTS
  Provider,       \* OAuth providers, each with its own keys in the session
  MaxSessions,    \* bound: sessions made
  MaxHandshakes   \* bound: state tokens generated

ASSUME SessionsAssumption == MaxSessions \in Nat /\ MaxHandshakes \in Nat

VARIABLES
  store,       \* session id -> provider -> the state token stored, or 0
  cookie,      \* the session id the browser sends, or 0
  handling,    \* per request
  handshakes,  \* token -> the handshake it was generated for
  made,        \* number of sessions made
  ended        \* history: sessions logged out while no other request had a copy to save

sessionVars == <<store, cookie, handling, handshakes, made, ended>>

SessionId == 1..MaxSessions
Token == 1..MaxHandshakes
NoStates == [p \in Provider |-> 0]

\* `sent`: the browser has been redirected; `accepted` counts valid callbacks;
\* `disturbed`: another request was in the session when it mattered, or a new
\* handshake with the provider, or a stale callback, has cleared its state.
Handshake == [of : Provider, session : SessionId, sent : BOOLEAN, accepted : 0..MaxHandshakes,
              expired : BOOLEAN, disturbed : BOOLEAN]

SessionTypeOK ==
  /\ DOMAIN store \subseteq SessionId
  /\ \A s \in DOMAIN store : store[s] \in [Provider -> {0} \cup Token]
  /\ cookie \in 0..MaxSessions
  /\ \A r \in Request : handling[r] # Idle =>
       handling[r].pc \in {"login", "logout", "authorize", "exchange", "refused"}
  /\ handshakes \in Seq(Handshake)
  /\ made \in 0..MaxSessions
  /\ ended \subseteq SessionId

SessionInit ==
  /\ store = <<>>
  /\ cookie = 0
  /\ handling = [r \in Request |-> Idle]
  /\ handshakes = <<>>
  /\ made = 0
  /\ ended = {}

\* SessionAuthGuard: the cookie names a session in the store.
Authenticated == cookie \in DOMAIN store

Handles(r, request) == handling' = [handling EXCEPT ![r] = request]

\* Another request has a copy of session s that it will save.
CopiesOut(r, s) ==
  \E q \in Request \ {r} : /\ handling[q].pc \in {"authorize", "exchange", "refused"}
                           /\ handling[q].session = s

Saved(s, states) == [t \in DOMAIN store \cup {s} |-> IF t = s THEN states ELSE store[t]]

Removed(s) == [t \in DOMAIN store \ {s} |-> store[t]]

\* PROVIDER_SESSION_KEYS
StateKey(p) == p

\* The handshakes with p that a new one, or a callback of another, does away with.
Outdated(p, but, hs) ==
  [t \in DOMAIN hs |->
     [hs[t] EXCEPT !.disturbed = @ \/ (hs[t].session = cookie /\ hs[t].of = p /\ t # but)]]

\* The handshakes of session s, when request r loads or saves it beside another.
Disturbed(r, s) ==
  [t \in DOMAIN handshakes |->
     [handshakes[t] EXCEPT !.disturbed = @ \/ (handshakes[t].session = s /\ CopiesOut(r, s))]]

-----------------------------------------------------------------------------
\* POST login: the credentials have been accepted.
LoginArrives(r) ==
  /\ handling[r] = Idle
  /\ made < MaxSessions
  /\ Handles(r, [pc |-> "login", session |-> cookie])
  /\ UNCHANGED <<store, cookie, handshakes, made, ended>>

\* regenerate destroys the session the request came with and makes another.
LoginMakesSession(r) ==
  /\ handling[r].pc = "login"
  /\ made < MaxSessions
  /\ store' = [s \in (DOMAIN store \ {handling[r].session}) \cup {made + 1} |->
                  IF s = made + 1 THEN NoStates ELSE store[s]]
  /\ cookie' = made + 1
  /\ made' = made + 1
  /\ Handles(r, Idle)
  /\ UNCHANGED <<handshakes, ended>>

LogoutArrives(r) ==
  /\ handling[r] = Idle
  /\ Authenticated
  /\ Handles(r, [pc |-> "logout", session |-> cookie])
  /\ UNCHANGED <<store, cookie, handshakes, made, ended>>

LogoutDestroys(r) ==
  LET s == handling[r].session IN
  /\ handling[r].pc = "logout"
  /\ store' = Removed(s)
  /\ ended' = IF CopiesOut(r, s) THEN ended ELSE ended \cup {s}
  /\ Handles(r, Idle)
  /\ UNCHANGED <<cookie, handshakes, made>>

\* The TTL of a session runs out.
SessionExpires(s) ==
  /\ store' = Removed(s)
  /\ UNCHANGED <<cookie, handling, handshakes, made, ended>>

-----------------------------------------------------------------------------
\* GET authorize: OAuthStateService.generate, on the request's copy.
AuthorizeArrives(r, p) ==
  LET t == Len(handshakes) + 1 IN
  /\ handling[r] = Idle
  /\ Authenticated
  /\ t <= MaxHandshakes
  /\ Handles(r, [pc |-> "authorize", session |-> cookie, token |-> t, fair |-> FALSE,
                 copy |-> [store[cookie] EXCEPT ![StateKey(p)] = t]])
  /\ handshakes' = Append(Outdated(p, t, Disturbed(r, cookie)),
        [of |-> p, session |-> cookie, sent |-> FALSE, accepted |-> 0, expired |-> FALSE,
         disturbed |-> CopiesOut(r, cookie)])
  /\ UNCHANGED <<store, cookie, made, ended>>

\* The copy is saved, then the browser is sent to the provider.
AuthorizeEnds(r) ==
  LET s == handling[r].session IN
  /\ handling[r].pc = "authorize"
  /\ store' = Saved(s, handling[r].copy)
  /\ handshakes' = [Disturbed(r, s) EXCEPT ![handling[r].token].sent = TRUE]
  /\ Handles(r, Idle)
  /\ UNCHANGED <<cookie, made, ended>>

\* Ten minutes after its redirect, at the latest, a state token is refused.
HandshakeExpires(t) ==
  /\ handshakes[t].sent /\ ~handshakes[t].expired
  /\ handshakes' = [handshakes EXCEPT ![t].expired = TRUE]
  /\ UNCHANGED <<store, cookie, handling, made, ended>>

\* Mutant: the state is left in the session after its use.
NotConsumed(copy, key) == copy

\* validate clears the state, valid or not.
Consumed(copy, key) == [copy EXCEPT ![key] = 0]

\* GET callback, with a token the provider hands back, perhaps again.
CallbackArrives(r, t) ==
  LET key   == StateKey(handshakes[t].of)
      valid == store[cookie][key] = t /\ ~handshakes[t].expired
      now   == Outdated(handshakes[t].of, t, Disturbed(r, cookie))
  IN
  /\ handling[r] = Idle
  /\ Authenticated
  /\ handshakes[t].sent
  /\ Handles(r, [pc |-> IF valid THEN "exchange" ELSE "refused", session |-> cookie, token |-> t,
                 fair |-> /\ now[t].session = cookie /\ now[t].accepted = 0
                          /\ ~now[t].expired /\ ~now[t].disturbed,
                 copy |-> Consumed(store[cookie], key)])
  /\ handshakes' = IF valid /\ now[t].accepted < MaxHandshakes
                     THEN [now EXCEPT ![t].accepted = @ + 1] ELSE now
  /\ UNCHANGED <<store, cookie, made, ended>>

\* The exchange is over, or the callback was refused; either way the copy is saved.
CallbackEnds(r) ==
  LET s == handling[r].session IN
  /\ handling[r].pc \in {"exchange", "refused"}
  /\ store' = Saved(s, handling[r].copy)
  /\ handshakes' = Disturbed(r, s)
  /\ Handles(r, Idle)
  /\ UNCHANGED <<cookie, made, ended>>

\* The server goes down under its requests; the store is in Redis.
SessionServerDies ==
  /\ \E r \in Request : handling[r] # Idle
  /\ handling' = [r \in Request |-> Idle]
  /\ handshakes' = [t \in DOMAIN handshakes |-> [handshakes[t] EXCEPT !.disturbed = TRUE]]
  /\ UNCHANGED <<store, cookie, made, ended>>

SessionNext ==
  \/ \E r \in Request : \/ LoginArrives(r) \/ LoginMakesSession(r)
                        \/ LogoutArrives(r) \/ LogoutDestroys(r)
                        \/ \E p \in Provider : AuthorizeArrives(r, p)
                        \/ AuthorizeEnds(r)
                        \/ \E t \in DOMAIN handshakes : CallbackArrives(r, t)
                        \/ CallbackEnds(r)
  \/ \E s \in DOMAIN store : SessionExpires(s)
  \/ \E t \in DOMAIN handshakes : HandshakeExpires(t)
  \/ SessionServerDies

SessionSpec == SessionInit /\ [][SessionNext]_sessionVars

-----------------------------------------------------------------------------
\* Requests of one session that do not overlap do not harm each other.  A
\* handshake that nothing disturbed is accepted when its callback comes in,
\* though handshakes with other providers began and ended meanwhile; its
\* state is accepted once; and a session that was logged out while nobody
\* had a copy of it stays out of the store for good.
SessionsAreSound ==
  /\ \A r \in Request : handling[r].pc = "refused" => ~handling[r].fair
  /\ \A t \in DOMAIN handshakes : handshakes[t].accepted > 1 => handshakes[t].disturbed
  /\ ended \cap DOMAIN store = {}
=============================================================================
