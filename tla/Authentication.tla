--------------------------- MODULE Authentication ---------------------------
(***************************************************************************)
(* Logging in with Zhihu (apps/server/src/auth.ts): a browser asks to log  *)
(* in and is given a short-lived session with a nonce, the state; Zhihu    *)
(* sends it back to the callback with that state; the callback consumes    *)
(* the state, asks Zhihu who the user is, and opens a session for the      *)
(* account.  A callback's address may be opened again, late, or in another *)
(* browser, and two callbacks may be waiting for Zhihu at once.            *)
(*                                                                         *)
(* Requests and answers of a browser overlap and pass one another: it may  *)
(* ask to log in twice before the first cookie arrives, and the cookies    *)
(* may arrive in the other order.  So a request that the server handles    *)
(* carries any of the cookies its browser has ever been given, or none.    *)
(*                                                                         *)
(* A state is named by the id of the session it was made with.  What the   *)
(* two requests to Zhihu return is a choice, and as nothing is read or     *)
(* written between them they are one wait.  The server is configured; a    *)
(* server that is not refuses login and callback before it changes         *)
(* anything.                                                               *)
(***************************************************************************)
EXTENDS Naturals

CONSTANTS
  Browsers,    \* browsers, each with its cookies
  Accounts,    \* users of Zhihu
  StateLife,   \* how long a state may be used (10 minutes)
  Lifetime,    \* how long a login lasts at most (8 hours)
  MaxIds,      \* bound: sessions opened
  MaxTime,     \* bound: the clock
  None         \* no profile, no state

\* What the proofs and the runs assume of the constants.
Parameters ==
  /\ StateLife \in Nat \ {0} /\ Lifetime \in Nat \ {0} /\ MaxIds \in Nat /\ MaxTime \in Nat
  /\ None \notin Accounts

VARIABLES
  now,         \* the clock
  sessions,    \* the live sessions, by their ids
  held,        \* the cookies a request of a browser may carry, 0 for none
  lastId,      \* the last nonce
  exchanges,   \* callbacks that wait for Zhihu
  asked,       \* history: for each state, the browser that asked for it and when
  dropped,     \* history: the sessions that a login or a logout has ended
  logins       \* history: the logins, with the state each one used

vars == <<now, sessions, held, lastId, exchanges, asked, dropped, logins>>

Ids == 1 .. MaxIds

Session == [expires : Nat, state : BOOLEAN, profile : Accounts \cup {None}]

Without(f, S) == [id \in DOMAIN f \ S |-> f[id]]

Live == {id \in DOMAIN sessions : sessions[id].expires > now}

\* session(req): the expired ones are dropped, and the cookie's one looked up.
Pruned == [id \in Live |-> sessions[id]]

\* Faulty variant: the state stays until the exchange is over.
ConsumedLate(c) == Pruned

\* The state is used up before the first request to Zhihu.
Consumed(c) == Without(Pruned, {c})

Least(m, n) == IF m <= n THEN m ELSE n

-----------------------------------------------------------------------------

Init ==
  /\ now = 0 /\ lastId = 0
  /\ sessions = [id \in {} |-> None]
  /\ held = [b \in Browsers |-> {0}]
  /\ exchanges = {} /\ logins = {} /\ dropped = {}
  /\ asked = [id \in {} |-> None]

\* GET /api/auth/login: the session of the request's cookie ends, if it has one,
\* and a new attempt begins; others that the browser has begun go on.
Login(b, c) ==
  LET id == lastId + 1
      kept == Without(Pruned, {c})
  IN /\ id \in Ids
     /\ lastId' = id
     /\ sessions' = [i \in DOMAIN kept \cup {id} |->
                       IF i = id THEN [expires |-> now + StateLife, state |-> TRUE, profile |-> None]
                       ELSE kept[i]]
     /\ asked' = [i \in DOMAIN asked \cup {id} |->
                    IF i = id THEN [browser |-> b, at |-> now] ELSE asked[i]]
     /\ dropped' = dropped \cup ({c} \cap DOMAIN sessions)
     /\ held' = [held EXCEPT ![b] = @ \cup {id}]
     /\ UNCHANGED <<now, exchanges, logins>>

\* The callback is opened with the state of the cookie's session, and in time
\* (a state and its session are made with one expiry, so a live one is in time).
Accepted(c, s) == c \in Live /\ sessions[c].state /\ s = c

\* The user agreed: the state is consumed, and Zhihu is asked for the user.
Callback(b, c, s) ==
  /\ Accepted(c, s)
  /\ sessions' = Consumed(c)
  /\ exchanges' = exchanges \cup {[browser |-> b, state |-> s, began |-> now, dropped |-> dropped]}
  /\ UNCHANGED <<now, held, lastId, asked, dropped, logins>>

\* The user declined, or there is no usable code: the state is consumed all the same.
Declined(c, s) ==
  /\ Accepted(c, s)
  /\ sessions' = Consumed(c)
  /\ UNCHANGED <<now, held, lastId, exchanges, asked, dropped, logins>>

\* Any other callback is sent back to the page with an error.
CallbackRefused(c, s) ==
  /\ ~ Accepted(c, s)
  /\ sessions' = Pruned
  /\ UNCHANGED <<now, held, lastId, exchanges, asked, dropped, logins>>

\* Zhihu named the user and how long the authorization lasts: a new session is
\* opened, whatever the browser has asked for meanwhile.
ExchangeSucceeds(x, account, granted) ==
  LET id == lastId + 1
  IN /\ id \in Ids
     /\ lastId' = id
     /\ exchanges' = exchanges \ {x}
     /\ sessions' = [i \in DOMAIN sessions \cup {id} |->
                       IF i = id THEN [expires |-> now + Least(Lifetime, granted),
                                       state |-> FALSE, profile |-> account]
                       ELSE sessions[i]]
     /\ held' = [held EXCEPT ![x.browser] = @ \cup {id}]
     /\ logins' = logins \cup {[session |-> id, browser |-> x.browser, state |-> x.state,
                                began |-> x.began, dropped |-> x.dropped]}
     /\ UNCHANGED <<now, asked, dropped>>

\* Zhihu failed, timed out or gave no usable user or expiry.
ExchangeFails(x) ==
  /\ exchanges' = exchanges \ {x}
  /\ UNCHANGED <<now, sessions, held, lastId, asked, dropped, logins>>

\* POST /api/auth/logout; the cookie it sets is none, which a browser may
\* always have.
Logout(c) ==
  /\ sessions' = Without(sessions, {c})
  /\ dropped' = dropped \cup ({c} \cap DOMAIN sessions)
  /\ UNCHANGED <<now, held, lastId, exchanges, asked, logins>>

\* GET /api/auth/status and every request that needs an identity.
Status ==
  /\ sessions' = Pruned
  /\ UNCHANGED <<now, held, lastId, exchanges, asked, dropped, logins>>

Tick ==
  /\ now < MaxTime
  /\ now' = now + 1
  /\ UNCHANGED <<sessions, held, lastId, exchanges, asked, dropped, logins>>

Next ==
  \/ \E b \in Browsers : \E c \in held[b] :
       \/ Login(b, c) \/ Logout(c)
       \/ \E s \in DOMAIN asked : Callback(b, c, s) \/ Declined(c, s) \/ CallbackRefused(c, s)
  \/ \E x \in exchanges, account \in Accounts, granted \in 1 .. Lifetime + 1 :
       ExchangeSucceeds(x, account, granted)
  \/ \E x \in exchanges : ExchangeFails(x)
  \/ Status \/ Tick

Spec == Init /\ [][Next]_vars

-----------------------------------------------------------------------------

Use == [browser : Browsers, state : Ids, began : Nat, dropped : SUBSET Ids]

TypeOK ==
  /\ now \in Nat /\ lastId \in 0 .. MaxIds
  /\ DOMAIN sessions \subseteq 1 .. lastId
  /\ \A id \in DOMAIN sessions : sessions[id] \in Session
  /\ held \in [Browsers -> SUBSET (0 .. lastId)] /\ dropped \subseteq 1 .. lastId
  /\ DOMAIN asked \subseteq 1 .. lastId
  /\ \A id \in DOMAIN asked : asked[id] \in [browser : Browsers, at : 0 .. now]
  /\ exchanges \subseteq Use
  /\ logins \subseteq
       [session : Ids, browser : Browsers, state : Ids, began : Nat, dropped : SUBSET Ids]

\* However often, late or elsewhere a callback's address is opened, and however
\* a browser's requests, its answers and the waits for Zhihu overlap, a state
\* gives one login at most: to the browser that asked for it, opened in its
\* time, and not after a login or a logout has ended its session (handle's login,
\* callback and logout).  A newer attempt alone does not end it.
StateUsedOnce ==
  \A l \in logins :
    /\ l.state \in DOMAIN asked
    /\ asked[l.state].browser = l.browser
    /\ l.began < asked[l.state].at + StateLife
    /\ l.state \notin l.dropped
    /\ \A m \in logins : m.state = l.state => m = l
=============================================================================
