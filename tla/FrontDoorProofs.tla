---------------------------- MODULE FrontDoorProofs ----------------------------
(***************************************************************************)
(* Theorems about the front of the server.  First about logging in, for    *)
(* any browsers, accounts and lifetimes: a state gives one login.  A state *)
(* is spent once its session is gone, so the invariant ties every use of a *)
(* state to that, and every session that may still be used to the browser  *)
(* and the time it was made for.  Then about the progress of requests, for *)
(* any requests, accounts and limits of the tracker: what a page may still *)
(* expect, and what an entry is.                                           *)
(***************************************************************************)
EXTENDS FrontDoor, FiniteSetTheorems, TLAPS

\* A live session with a state is the one made when it was asked for.
SessionsInv ==
  \A id \in DOMAIN sessions :
    sessions[id].state => id \in DOMAIN asked /\ sessions[id].expires = asked[id].at + StateLife

\* A browser that has a cookie of a state has asked for it.
CookiesInv ==
  \A b \in Browsers : \A c \in held[b] : c \in DOMAIN asked => asked[c].browser = b

\* What a login or a logout has ended does not come back.
DroppedInv == dropped \cap DOMAIN sessions = {}

\* The state of x was used as it should be, and cannot be used again.
UsedWell(x) ==
  /\ x.state \in DOMAIN asked /\ x.state \notin DOMAIN sessions
  /\ asked[x.state].browser = x.browser
  /\ x.began < asked[x.state].at + StateLife
  /\ x.state \notin x.dropped

UsesInv == \A x \in exchanges \cup logins : UsedWell(x)

\* A state has one exchange, or one login, or neither.
OnceInv == \A x, y \in exchanges \cup logins : x.state = y.state => x = y

Uses == SessionsInv /\ CookiesInv /\ DroppedInv /\ UsesInv /\ OnceInv

AuthInv == Auth!TypeOK /\ Uses

LEMMA AuthInit == ASSUME Auth!Parameters PROVE Auth!Init => AuthInv
BY DEF Auth!Parameters, Auth!Init, AuthInv, Uses, Auth!TypeOK, SessionsInv, CookiesInv, DroppedInv,
   UsesInv, OnceInv

-----------------------------------------------------------------------------
(* Sessions only go, unless one is opened.                                 *)

Shrunk == /\ DOMAIN sessions' \subseteq DOMAIN sessions
          /\ \A id \in DOMAIN sessions' : sessions'[id] = sessions[id]

LEMMA PrunedShrinks == sessions' = Auth!Pruned => Shrunk
BY DEF Auth!Pruned, Auth!Live, Shrunk

LEMMA ConsumedShrinks ==
  ASSUME NEW c, sessions' = Auth!Consumed(c)
  PROVE  Shrunk /\ c \notin DOMAIN sessions'
BY DEF Auth!Consumed, Auth!Without, Auth!Pruned, Auth!Live, Shrunk

LEMMA LogoutShrinks ==
  ASSUME NEW c, sessions' = Auth!Without(sessions, {c})
  PROVE  Shrunk /\ c \notin DOMAIN sessions'
BY DEF Auth!Without, Shrunk

\* Nothing is asked for or used; what is ended is gone.
LEMMA ShrinkKeeps ==
  ASSUME Auth!Parameters, AuthInv, Shrunk,
         UNCHANGED <<now, held, lastId, exchanges, asked, logins>>,
         dropped' \subseteq 1 .. lastId,
         (dropped' \ dropped) \cap DOMAIN sessions' = {}
  PROVE  AuthInv'
<1>1. Auth!TypeOK'
  BY DEF AuthInv, Auth!TypeOK, Shrunk
<1>2. SessionsInv'
  BY DEF AuthInv, Uses, SessionsInv, Shrunk
<1>3. CookiesInv' /\ DroppedInv'
  BY DEF AuthInv, Uses, CookiesInv, DroppedInv, Shrunk
<1>4. UsesInv'
  BY DEF AuthInv, Uses, UsesInv, UsedWell, Shrunk
<1>5. OnceInv'
  BY DEF AuthInv, Uses, OnceInv
<1> QED
  BY <1>1, <1>2, <1>3, <1>4, <1>5 DEF AuthInv, Uses

-----------------------------------------------------------------------------
(* The steps.                                                              *)

LEMMA LoginKeeps ==
  ASSUME Auth!Parameters, AuthInv, NEW b \in Browsers, NEW c \in held[b], Auth!Login(b, c)
  PROVE  AuthInv'
<1> DEFINE id == lastId + 1
<1>0. /\ lastId \in Nat /\ id \in Auth!Ids /\ lastId' = id /\ DOMAIN asked \subseteq 1 .. lastId
      /\ dropped \subseteq 1 .. lastId /\ DOMAIN sessions \subseteq 1 .. lastId
  BY DEF Auth!Login, AuthInv, Auth!TypeOK, Auth!Parameters
<1>1. /\ DOMAIN sessions' \subseteq (DOMAIN sessions \ {c}) \cup {id} /\ id \in DOMAIN sessions'
      /\ \A i \in DOMAIN sessions' \ {id} : sessions'[i] = sessions[i]
      /\ sessions'[id] = [expires |-> now + StateLife, state |-> TRUE, profile |-> None]
  BY DEF Auth!Login, Auth!Without, Auth!Pruned, Auth!Live
<1>2. /\ DOMAIN asked' = DOMAIN asked \cup {id}
      /\ \A i \in DOMAIN asked : asked'[i] = asked[i]
      /\ asked'[id] = [browser |-> b, at |-> now]
  BY <1>0 DEF Auth!Login
<1>3. /\ held' = [held EXCEPT ![b] = @ \cup {id}] /\ UNCHANGED <<now, exchanges, logins>>
      /\ dropped' = dropped \cup ({c} \cap DOMAIN sessions)
  BY DEF Auth!Login
<1>4. Auth!TypeOK'
  <2>1. lastId' \in 0 .. MaxIds /\ now' \in Nat
    BY <1>0, <1>3 DEF AuthInv, Auth!TypeOK, Auth!Ids, Auth!Parameters
  <2>2. DOMAIN sessions' \subseteq 1 .. lastId' /\ DOMAIN asked' \subseteq 1 .. lastId'
    BY <1>0, <1>1, <1>2 DEF AuthInv, Auth!TypeOK
  <2>3. \A i \in DOMAIN sessions' : sessions'[i] \in Auth!Session
    <3>1. now + StateLife \in Nat
      BY DEF AuthInv, Auth!TypeOK, Auth!Parameters
    <3>2. sessions'[id] \in Auth!Session
      BY <1>1, <3>1 DEF Auth!Session
    <3> QED
      BY <1>1, <3>2 DEF AuthInv, Auth!TypeOK
  <2>4. \A i \in DOMAIN asked' : asked'[i] \in [browser : Browsers, at : 0 .. now']
    BY <1>2, <1>3 DEF AuthInv, Auth!TypeOK
  <2>5. held' \in [Browsers -> SUBSET (0 .. lastId')]
    <3>1. id \in 0 .. lastId' /\ 0 .. lastId \subseteq 0 .. lastId'
      BY <1>0
    <3> QED
      BY <1>3, <3>1 DEF AuthInv, Auth!TypeOK
  <2>6. dropped' \subseteq 1 .. lastId'
    <3>1. 1 .. lastId \subseteq 1 .. lastId'
      BY <1>0
    <3> QED
      BY <1>0, <1>3, <3>1
  <2> QED
    BY <1>3, <2>1, <2>2, <2>3, <2>4, <2>5, <2>6 DEF AuthInv, Auth!TypeOK
<1>5. SessionsInv'
  BY <1>0, <1>1, <1>2 DEF AuthInv, Uses, SessionsInv
<1>6. CookiesInv' /\ DroppedInv'
  <2>1. ASSUME NEW d \in Browsers, NEW e \in held'[d], e \in DOMAIN asked' PROVE asked'[e].browser = d
    <3>1. e \in held[d] \/ (d = b /\ e = id)
      BY <1>3, <2>1 DEF AuthInv, Auth!TypeOK
    <3>2. e \in held[d] => e # id
      BY <1>0 DEF AuthInv, Auth!TypeOK
    <3> QED
      BY <1>2, <2>1, <3>1, <3>2 DEF AuthInv, Uses, CookiesInv
  <2>2. DroppedInv'
    BY <1>0, <1>1, <1>3 DEF AuthInv, Uses, DroppedInv
  <2> QED
    BY <2>1, <2>2 DEF CookiesInv
<1>7. UsesInv'
  <2> SUFFICES ASSUME NEW x \in exchanges \cup logins PROVE UsedWell(x)'
    BY <1>3 DEF UsesInv
  <2>1. UsedWell(x) /\ x.state # id
    BY <1>0 DEF AuthInv, Uses, UsesInv, UsedWell, Auth!TypeOK, Auth!Use
  <2> QED
    BY <1>0, <1>1, <1>2, <2>1 DEF UsedWell
<1>8. OnceInv'
  BY <1>3 DEF AuthInv, Uses, OnceInv
<1> QED
  BY <1>4, <1>5, <1>6, <1>7, <1>8 DEF AuthInv, Uses

LEMMA CallbackKeeps ==
  ASSUME Auth!Parameters, AuthInv, NEW b \in Browsers, NEW c \in held[b], NEW s \in DOMAIN asked,
         Auth!Callback(b, c, s)
  PROVE  AuthInv'
<1> DEFINE x == [browser |-> b, state |-> s, began |-> now, dropped |-> dropped]
<1>0. /\ s = c /\ s \in DOMAIN sessions /\ sessions[s].expires > now /\ sessions[s].state
      /\ exchanges' = exchanges \cup {x} /\ UNCHANGED <<now, held, lastId, asked, dropped, logins>>
  BY DEF Auth!Callback, Auth!Accepted, Auth!Live
<1>1. Shrunk /\ s \notin DOMAIN sessions'
  BY <1>0, ConsumedShrinks DEF Auth!Callback
<1>2. Auth!TypeOK'
  <2>1. x \in Auth!Use
    BY DEF Auth!Use, AuthInv, Auth!TypeOK, Auth!Ids, Auth!Parameters
  <2> QED
    BY <1>0, <1>1, <2>1 DEF AuthInv, Auth!TypeOK, Shrunk
<1>3. SessionsInv'
  BY <1>0, <1>1 DEF AuthInv, Uses, SessionsInv, Shrunk
<1>4. CookiesInv' /\ DroppedInv'
  BY <1>0, <1>1 DEF AuthInv, Uses, CookiesInv, DroppedInv, Shrunk
<1>5. UsedWell(x)'
  <2>1. sessions[s].expires = asked[s].at + StateLife
    BY <1>0 DEF AuthInv, Uses, SessionsInv
  <2>2. asked[s].browser = b /\ s \notin dropped
    BY <1>0 DEF AuthInv, Uses, CookiesInv, DroppedInv
  <2>3. \A t \in DOMAIN asked : t \in Nat /\ asked[t].at \in Nat
    BY DEF AuthInv, Auth!TypeOK
  <2> QED
    BY <1>0, <1>1, <2>1, <2>2, <2>3 DEF UsedWell, AuthInv, Auth!TypeOK, Auth!Parameters
<1>6. UsesInv'
  <2>1. \A y \in exchanges \cup logins : UsedWell(y)'
    BY <1>0, <1>1 DEF AuthInv, Uses, UsesInv, UsedWell, Shrunk
  <2> QED
    BY <1>0, <1>5, <2>1 DEF UsesInv
<1>7. OnceInv'
  <2>1. \A y \in exchanges \cup logins : y.state # s
    BY <1>0 DEF AuthInv, Uses, UsesInv, UsedWell
  <2> QED
    BY <1>0, <2>1 DEF AuthInv, Uses, OnceInv
<1> QED
  BY <1>2, <1>3, <1>4, <1>6, <1>7 DEF AuthInv, Uses

LEMMA ExchangeKeeps ==
  ASSUME Auth!Parameters, AuthInv, NEW x \in exchanges, NEW user \in Accounts,
         NEW granted \in 1 .. Lifetime + 1, Auth!ExchangeSucceeds(x, user, granted)
  PROVE  AuthInv'
<1> DEFINE id == lastId + 1
<1>l. PICK l : l = [session |-> id, browser |-> x.browser, state |-> x.state,
                    began |-> x.began, dropped |-> x.dropped]
  OBVIOUS
<1>0. /\ lastId \in Nat /\ id \in Auth!Ids /\ lastId' = id /\ DOMAIN asked \subseteq 1 .. lastId
      /\ dropped \subseteq 1 .. lastId /\ x \in Auth!Use /\ UsedWell(x) /\ id \notin DOMAIN asked
  BY DEF Auth!ExchangeSucceeds, AuthInv, Uses, UsesInv, Auth!TypeOK, Auth!Parameters
<1>1. /\ DOMAIN sessions' = DOMAIN sessions \cup {id}
      /\ \A i \in DOMAIN sessions' \ {id} : sessions'[i] = sessions[i]
      /\ sessions'[id] = [expires |-> now + Auth!Least(Lifetime, granted), state |-> FALSE,
                          profile |-> user]
  BY DEF Auth!ExchangeSucceeds
<1>2. /\ exchanges' = exchanges \ {x} /\ logins' = logins \cup {l}
      /\ held' = [held EXCEPT ![x.browser] = @ \cup {id}] /\ UNCHANGED <<now, asked, dropped>>
  BY <1>l DEF Auth!ExchangeSucceeds
<1>3. Auth!TypeOK'
  <2>1. lastId' \in 0 .. MaxIds /\ now' \in Nat
        /\ l \in [session : Auth!Ids, browser : Browsers, state : Auth!Ids, began : Nat,
                  dropped : SUBSET Auth!Ids]
    BY <1>l, <1>0, <1>2 DEF AuthInv, Auth!TypeOK, Auth!Ids, Auth!Use, Auth!Parameters
  <2>2. DOMAIN sessions' \subseteq 1 .. lastId' /\ DOMAIN asked' \subseteq 1 .. lastId'
    BY <1>0, <1>1, <1>2 DEF AuthInv, Auth!TypeOK
  <2>3. now + Auth!Least(Lifetime, granted) \in Nat
    BY DEF Auth!Least, Auth!Parameters, AuthInv, Auth!TypeOK
  <2>4. \A i \in DOMAIN sessions' : sessions'[i] \in Auth!Session
    <3>1. sessions'[id] \in Auth!Session
      BY <1>1, <2>3 DEF Auth!Session
    <3> QED
      BY <1>1, <3>1 DEF AuthInv, Auth!TypeOK
  <2>5. held' \in [Browsers -> SUBSET (0 .. lastId')]
    <3>1. id \in 0 .. lastId' /\ 0 .. lastId \subseteq 0 .. lastId'
      BY <1>0
    <3>2. held \in [Browsers -> SUBSET (0 .. lastId)]
      BY DEF AuthInv, Auth!TypeOK
    <3> HIDE DEF id
    <3> QED
      BY <1>2, <3>1, <3>2
  <2>6. dropped' \subseteq 1 .. lastId'
    BY <1>0, <1>2
  <2> QED
    BY <1>2, <2>1, <2>2, <2>4, <2>5, <2>6 DEF AuthInv, Auth!TypeOK
<1>4. SessionsInv'
  BY <1>1, <1>2 DEF AuthInv, Uses, SessionsInv
<1>5. CookiesInv' /\ DroppedInv'
  <2>1. ASSUME NEW d \in Browsers, NEW e \in held'[d], e \in DOMAIN asked PROVE asked[e].browser = d
    <3>1. e \in held[d]
      BY <1>0, <1>2, <2>1 DEF AuthInv, Auth!TypeOK
    <3> QED
      BY <2>1, <3>1 DEF AuthInv, Uses, CookiesInv
  <2>2. DroppedInv'
    BY <1>0, <1>1, <1>2 DEF AuthInv, Uses, DroppedInv
  <2> QED
    BY <1>2, <2>1, <2>2 DEF CookiesInv
<1>6. UsedWell(l)' /\ \A y \in exchanges \cup logins : UsedWell(y)'
  <2>1. ASSUME NEW y, UsedWell(y)
        PROVE  UsedWell(y)'
    <3>1. y.state # id
      BY <1>0, <2>1 DEF UsedWell
    <3> QED
      BY <1>0, <1>1, <1>2, <2>1, <3>1 DEF UsedWell
  <2>2. UsedWell(l)
    BY <1>l, <1>0 DEF UsedWell, Auth!Use
  <2>3. \A y \in exchanges \cup logins : UsedWell(y)
    BY DEF AuthInv, Uses, UsesInv
  <2> QED
    BY <2>1, <2>2, <2>3
<1>7. OnceInv'
  <2>1. \A y \in (exchanges \cup logins) \ {x} : y.state # x.state
    BY DEF AuthInv, Uses, OnceInv
  <2>2. x \notin logins
    BY DEF AuthInv, Auth!TypeOK, Auth!Use
  <2> QED
    BY <1>l, <1>2, <2>1, <2>2 DEF AuthInv, Uses, OnceInv
<1> QED
  BY <1>2, <1>3, <1>4, <1>5, <1>6, <1>7 DEF AuthInv, Uses, UsesInv

LEMMA AuthNext ==
  ASSUME Auth!Parameters, AuthInv, [Auth!Next]_(Auth!vars)
  PROVE  AuthInv'
<1>0. dropped \subseteq 1 .. lastId
  BY DEF AuthInv, Auth!TypeOK
<1>1. ASSUME NEW b \in Browsers, NEW c \in held[b], Auth!Login(b, c) PROVE AuthInv'
  BY <1>1, LoginKeeps
<1>2. ASSUME NEW c, Auth!Logout(c) PROVE AuthInv'
  <2>1. dropped' = dropped \cup ({c} \cap DOMAIN sessions) /\ DOMAIN sessions \subseteq 1 .. lastId
    BY <1>2 DEF Auth!Logout, AuthInv, Auth!TypeOK
  <2>2. Shrunk /\ c \notin DOMAIN sessions'
    BY <1>2, LogoutShrinks DEF Auth!Logout
  <2> QED
    BY <1>0, <1>2, <2>1, <2>2, ShrinkKeeps DEF Auth!Logout
<1>3. CASE Auth!Status
  BY <1>0, <1>3, PrunedShrinks, ShrinkKeeps DEF Auth!Status
<1>4. ASSUME NEW b \in Browsers, NEW c \in held[b], NEW s \in DOMAIN asked, Auth!Callback(b, c, s)
      PROVE  AuthInv'
  BY <1>4, CallbackKeeps
<1>5. ASSUME NEW c, NEW s, Auth!Declined(c, s) PROVE AuthInv'
  BY <1>0, <1>5, ConsumedShrinks, ShrinkKeeps DEF Auth!Declined
<1>6. ASSUME NEW c, NEW s, Auth!CallbackRefused(c, s) PROVE AuthInv'
  BY <1>0, <1>6, PrunedShrinks, ShrinkKeeps DEF Auth!CallbackRefused
<1>7. ASSUME NEW x \in exchanges, NEW user \in Accounts, NEW granted \in 1 .. Lifetime + 1,
             Auth!ExchangeSucceeds(x, user, granted)
      PROVE  AuthInv'
  BY <1>7, ExchangeKeeps
<1>8. ASSUME NEW x \in exchanges, Auth!ExchangeFails(x) PROVE AuthInv'
  BY <1>8
  DEF Auth!ExchangeFails, AuthInv, Auth!TypeOK, Uses, SessionsInv, CookiesInv, DroppedInv, UsesInv,
      UsedWell, OnceInv
<1>9. CASE Auth!Tick
  BY <1>9
  DEF Auth!Tick, AuthInv, Auth!TypeOK, Uses, SessionsInv, CookiesInv, DroppedInv, UsesInv,
      UsedWell, OnceInv
<1>10. CASE UNCHANGED Auth!vars
  BY <1>10
  DEF Auth!vars, AuthInv, Auth!TypeOK, Uses, SessionsInv, CookiesInv, DroppedInv, UsesInv, UsedWell,
      OnceInv
<1> QED
  BY <1>1, <1>2, <1>3, <1>4, <1>5, <1>6, <1>7, <1>8, <1>9, <1>10 DEF Auth!Next

-----------------------------------------------------------------------------

\* Sessions, cookies and uses of states fit in every reachable state, whatever
\* the browsers and accounts.
THEOREM LoginsInvariant == ASSUME Auth!Parameters PROVE Auth!Spec => []AuthInv
<1>1. Auth!Init => AuthInv
  BY AuthInit
<1>2. AuthInv /\ [Auth!Next]_(Auth!vars) => AuthInv'
  BY AuthNext
<1> QED
  BY <1>1, <1>2, PTL DEF Auth!Spec

\* A state gives one login at most, in its time, to the browser that asked for
\* it, and none once a login or a logout has ended its session, in whatever order
\* requests and cookies arrive (login, callback and logout of handle).
THEOREM StatesAreUsedOnce == ASSUME Auth!Parameters PROVE Auth!Spec => []Auth!StateUsedOnce
<1>1. AuthInv => Auth!StateUsedOnce
  BY DEF AuthInv, Uses, UsesInv, UsedWell, OnceInv, Auth!StateUsedOnce
<1> QED
  BY <1>1, LoginsInvariant, PTL

-----------------------------------------------------------------------------
(* The progress of requests.                                               *)

\* What a page was answered came from its own request, and a page that has not
\* begun expects nothing.
PagesInv ==
  \A r \in Requests :
    /\ phase[r] = "new" => ~ timer[r] /\ poll[r] = Track!NoPoll
    /\ poll[r].state = "none" => poll[r] = Track!NoPoll
    /\ poll[r].run # 0 => poll[r].run \in 1 .. runs /\ progress[poll[r].run].id = r

TrackInv == Track!TypeOK /\ PagesInv /\ Track!EndedIsQuiet /\ Track!ProgressIsItsRuns

\* The instance counts as this module does.
LEMMA TrackCounts == ASSUME NEW S PROVE Track!Cardinality(S) = Cardinality(S)
BY DEF Track!Cardinality, Cardinality

LEMMA KeptIsSmall ==
  ASSUME Track!Parameters, Track!TypeOK
  PROVE  IsFiniteSet(Track!Kept) /\ Cardinality(Track!Kept) <= MaxEntries - 1
<1> DEFINE Later(i) == {j \in Track!Fresh : j > i}
           f == [i \in Track!Kept |-> Cardinality(Later(i))]
<1>1. IsFiniteSet(Track!Fresh) /\ Track!Fresh \subseteq Nat
  <2>1. Track!Fresh \subseteq 1 .. runs /\ runs \in Nat
    <3>1. entries \subseteq 1 .. runs /\ runs \in 0 .. MaxRuns
      BY DEF Track!TypeOK
    <3>2. Track!Fresh \subseteq entries
      BY DEF Track!Fresh
    <3> QED
      BY <3>1, <3>2 DEF Track!Parameters
  <2>2. IsFiniteSet(1 .. runs)
    BY <2>1, FS_Interval
  <2>3. IsFiniteSet(Track!Fresh)
    BY <2>1, <2>2, FS_Subset
  <2> QED
    BY <2>1, <2>3
<1>2. ASSUME NEW i \in Nat
      PROVE  IsFiniteSet(Later(i)) /\ Cardinality(Later(i)) \in Nat
  BY <1>1, FS_Subset, FS_CardinalityType
<1>3. f \in [Track!Kept -> 0 .. MaxEntries - 2]
  <2> SUFFICES ASSUME NEW i \in Track!Kept
               PROVE  Cardinality(Later(i)) \in 0 .. MaxEntries - 2
    OBVIOUS
  <2>1. Cardinality(Later(i)) < MaxEntries - 1 /\ i \in Nat
    BY <1>1, TrackCounts DEF Track!Kept
  <2> QED
    BY <2>1, <1>2 DEF Track!Parameters
<1>4. ASSUME NEW i \in Track!Kept, NEW k \in Track!Kept, i < k
      PROVE  f[i] # f[k]
  <2>1. i \in Nat /\ k \in Nat /\ k \in Track!Fresh
    BY <1>1 DEF Track!Kept
  <2>2. Later(k) \subseteq Later(i) /\ k \in Later(i) /\ k \notin Later(k)
    <3>1. \A j \in Track!Fresh : j \in Nat /\ (j > k => j > i)
      BY <1>1, <1>4, <2>1
    <3>2. k > i /\ ~ k > k
      BY <1>4, <2>1
    <3> QED
      BY <2>1, <3>1, <3>2
  <2>3. Cardinality(Later(i)) # Cardinality(Later(k))
    BY <1>2, <2>1, <2>2, FS_Subset
  <2> QED
    BY <2>3
<1>5. f \in Injection(Track!Kept, 0 .. MaxEntries - 2)
  <2>1. \A i, k \in Track!Kept : i # k => i < k \/ k < i
    BY <1>1 DEF Track!Kept
  <2>2. \A i, k \in Track!Kept : f[i] = f[k] => i = k
    <3> SUFFICES ASSUME NEW i \in Track!Kept, NEW k \in Track!Kept, i # k
                 PROVE  f[i] # f[k]
      OBVIOUS
    <3> HIDE DEF f
    <3> QED
      BY <1>4, <2>1
  <2> HIDE DEF f
  <2> QED
    BY <1>3, <2>2 DEF Injection, IsInjective
<1>6. IsFiniteSet(0 .. MaxEntries - 2) /\ Cardinality(0 .. MaxEntries - 2) = MaxEntries - 1
  BY FS_Interval DEF Track!Parameters
<1> QED
  BY <1>5, <1>6, FS_Injection

LEMMA TrackInit == ASSUME Track!Parameters PROVE Track!Init => TrackInv
<1> SUFFICES ASSUME Track!Init PROVE TrackInv
  OBVIOUS
<1>1. Track!TypeOK
  BY DEF Track!Init, Track!TypeOK, Track!Parameters, Track!Polls, Track!NoPoll
<1>2. Cardinality(entries) = 0
  BY FS_EmptySet DEF Track!Init
<1>3. 0 <= MaxEntries /\ \A i \in 1 .. 0 : FALSE
  BY DEF Track!Parameters
<1>4. PagesInv /\ Track!EndedIsQuiet
  BY DEF Track!Init, PagesInv, Track!EndedIsQuiet, Track!NoPoll
<1>5. Track!ProgressIsItsRuns
  BY <1>2, <1>3, TrackCounts DEF Track!Init, Track!ProgressIsItsRuns
<1> QED
  BY <1>1, <1>4, <1>5 DEF TrackInv

-----------------------------------------------------------------------------
(* The page.  Its steps leave the tracker alone.                           *)

tracker == <<now, account, runs, progress, entries, ended>>

LEMMA PageKeeps ==
  ASSUME Track!Parameters, TrackInv, NEW r \in Requests, UNCHANGED tracker,
         \/ Track!Fetch(r) \/ Track!Poll(r) \/ Track!PollAnswered(r) \/ Track!PollFails(r) \/ Track!FetchEnds(r)
  PROVE  TrackInv'
<1>1. Track!ProgressIsItsRuns'
  BY DEF TrackInv, Track!ProgressIsItsRuns, tracker
<1>2. Track!TypeOK'
  <2> USE DEF TrackInv, Track!TypeOK, tracker
  <2>1. Track!NoPoll \in Track!Polls
    BY DEF Track!NoPoll, Track!Polls, Track!Parameters
  <2>2. poll[r].run \in 0 .. MaxRuns
    BY DEF Track!Polls
  <2>3. CASE Track!Fetch(r)
    BY <2>3 DEF Track!Fetch
  <2>4. CASE Track!Poll(r)
    BY <2>4 DEF Track!Poll, Track!Polls
  <2>5. CASE Track!PollAnswered(r)
    <3>1. poll[r].run # 0 => poll[r].run \in 1 .. MaxRuns
      BY <2>2 DEF Track!Parameters
    <3>2. shown' \in [Requests -> (1 .. MaxRuns) \cup {None}]
      BY <2>5, <3>1 DEF Track!PollAnswered
    <3>3. timer' \in [Requests -> BOOLEAN] /\ poll' \in [Requests -> Track!Polls]
      BY <2>1, <2>5 DEF Track!PollAnswered, Track!PollAgain
    <3> QED
      BY <2>5, <3>2, <3>3 DEF Track!PollAnswered
  <2>6. CASE Track!PollFails(r)
    BY <2>1, <2>6 DEF Track!PollFails, Track!PollAgain
  <2>7. CASE Track!FetchEnds(r)
    BY <2>7 DEF Track!FetchEnds
  <2> QED
    BY <2>3, <2>4, <2>5, <2>6, <2>7
<1>3. /\ Track!NoPoll.run = 0 /\ Track!NoPoll.state = "none"
      /\ phase \in [Requests -> {"new", "waiting", "ended"}]
      /\ timer \in [Requests -> BOOLEAN] /\ poll \in [Requests -> Track!Polls]
      /\ DOMAIN shown = Requests
      /\ timer' \in [Requests -> BOOLEAN]
  BY <1>2 DEF Track!NoPoll, TrackInv, Track!TypeOK
<1>4. PagesInv' /\ Track!EndedIsQuiet'
  <2> USE <1>3 DEF TrackInv, PagesInv, Track!EndedIsQuiet, tracker
  <2>1. CASE Track!Fetch(r)
    BY <2>1 DEF Track!Fetch
  <2>2. CASE Track!Poll(r)
    <3>1. /\ phase[r] = "waiting" /\ poll[r] = Track!NoPoll /\ UNCHANGED <<phase, shown>>
          /\ ~ timer'[r] /\ poll'[r].state = "sent" /\ poll'[r].run = 0
          /\ \A q \in Requests \ {r} : timer'[q] = timer[q] /\ poll'[q] = poll[q]
      BY <2>2 DEF Track!Poll, Track!Polls
    <3> QED
      BY <3>1
  <2>3. CASE Track!PollAnswered(r)
    <3>1. /\ poll'[r] = Track!NoPoll /\ UNCHANGED phase
          /\ timer'[r] => phase[r] = "waiting"
          /\ phase[r] # "new"
          /\ shown'[r] = shown[r] \/ (shown'[r] = poll[r].run /\ poll[r].run # 0)
          /\ \A q \in Requests \ {r} :
                timer'[q] = timer[q] /\ poll'[q] = poll[q] /\ shown'[q] = shown[q]
      BY <2>3 DEF Track!PollAnswered, Track!PollAgain
    <3> QED
      BY <3>1
  <2>4. CASE Track!PollFails(r)
    <3>1. /\ poll'[r] = Track!NoPoll /\ UNCHANGED <<phase, shown>>
          /\ timer'[r] => phase[r] = "waiting"
          /\ phase[r] # "new"
          /\ \A q \in Requests \ {r} : timer'[q] = timer[q] /\ poll'[q] = poll[q]
      BY <2>4 DEF Track!PollFails, Track!PollAgain
    <3> QED
      BY <3>1
  <2>5. CASE Track!FetchEnds(r)
    BY <2>5 DEF Track!FetchEnds
  <2> QED
    BY <2>1, <2>2, <2>3, <2>4, <2>5
<1> QED
  BY <1>1, <1>2, <1>4 DEF TrackInv

-----------------------------------------------------------------------------
(* The tracker.                                                            *)

LEMMA KeptAreEntries == Track!Kept \subseteq entries
BY DEF Track!Kept, Track!Fresh

\* A new run is the last of its id, and takes the place a prune has made.
LEMMA RunKeeps ==
  ASSUME Track!Parameters, TrackInv, NEW r \in Requests, Track!Run(r)
  PROVE  TrackInv'
<1> DEFINE new == runs + 1
<1>0. /\ runs \in Nat /\ new \in 1 .. MaxRuns /\ runs' = new /\ account \in Accounts
      /\ new \notin 1 .. runs /\ 1 .. new = (1 .. runs) \cup {new}
  BY DEF Track!Run, TrackInv, Track!TypeOK, Track!Parameters
<1>1. /\ progress' = [i \in 1 .. new |->
                        IF i = new
                        THEN [owner |-> account, id |-> r, status |-> "running", updated |-> now]
                        ELSE progress[i]]
      /\ ended' = [i \in 1 .. new |-> IF i = new THEN "running" ELSE ended[i]]
      /\ entries' = Track!Kept \cup {new} /\ UNCHANGED <<now, account, phase, timer, poll, shown>>
  BY <1>0 DEF Track!Run, Track!page, TrackInv, Track!TypeOK
<1>2. Track!TypeOK'
  <2>1. progress' \in [1 .. new -> Track!Progress]
    BY <1>0, <1>1 DEF TrackInv, Track!TypeOK, Track!Progress
  <2>2. ended' \in [1 .. new -> {"running", "complete", "failed"}]
    BY <1>0, <1>1 DEF TrackInv, Track!TypeOK
  <2>3. entries' \subseteq 1 .. new
    BY <1>0, <1>1, KeptAreEntries DEF TrackInv, Track!TypeOK
  <2>4. runs' \in 0 .. MaxRuns
    BY <1>0
  <2> QED
    BY <1>0, <1>1, <2>1, <2>2, <2>3, <2>4 DEF TrackInv, Track!TypeOK
<1>3. PagesInv' /\ Track!EndedIsQuiet'
  BY <1>0, <1>1 DEF TrackInv, PagesInv, Track!EndedIsQuiet
<1>4. \A i \in 1 .. new : progress'[i].status = ended'[i]
  BY <1>0, <1>1 DEF TrackInv, Track!ProgressIsItsRuns
<1>5. \A i \in entries', j \in 1 .. new :
        progress'[i].owner = progress'[j].owner /\ progress'[i].id = progress'[j].id => j <= i
  <2> SUFFICES ASSUME NEW i \in entries', NEW j \in 1 .. new,
                      progress'[i].owner = progress'[j].owner, progress'[i].id = progress'[j].id
               PROVE  j <= i
    OBVIOUS
  <2>1. CASE i = new
    BY <1>0, <2>1
  <2>2. CASE i # new /\ j = new
    <3>1. i \in Track!Kept /\ progress[i].owner = account /\ progress[i].id = r
      BY <1>0, <1>1, <2>2, KeptAreEntries DEF TrackInv, Track!TypeOK
    <3> QED
      BY <3>1 DEF Track!Run, Track!Found
  <2>3. CASE i # new /\ j # new
    <3>1. i \in entries /\ i \in 1 .. runs /\ j \in 1 .. runs
      BY <1>0, <1>1, <2>3, KeptAreEntries DEF TrackInv, Track!TypeOK
    <3> QED
      BY <1>0, <1>1, <2>3, <3>1 DEF TrackInv, Track!ProgressIsItsRuns
  <2> QED
    BY <2>1, <2>2, <2>3
<1>6. Cardinality(entries') <= MaxEntries
  <2>1. IsFiniteSet(Track!Kept) /\ Cardinality(Track!Kept) <= MaxEntries - 1 /\ Cardinality(Track!Kept) \in Nat
    BY KeptIsSmall, FS_CardinalityType DEF TrackInv
  <2>2. Cardinality(entries') <= Cardinality(Track!Kept) + 1
    <3>1. Cardinality(entries') = IF new \in Track!Kept THEN Cardinality(Track!Kept) ELSE Cardinality(Track!Kept) + 1
      BY <1>1, <2>1, FS_AddElement
    <3> QED
      BY <2>1, <3>1
  <2>3. Cardinality(entries') \in Nat
    BY <1>1, <2>1, FS_AddElement, FS_CardinalityType
  <2> QED
    BY <2>1, <2>2, <2>3 DEF Track!Parameters
<1> QED
  BY <1>0, <1>2, <1>3, <1>4, <1>5, <1>6, TrackCounts DEF TrackInv, Track!ProgressIsItsRuns

\* A request that is refused, and a poll, do no more to the map than a prune.
LEMMA PruneKeeps ==
  ASSUME Track!Parameters, TrackInv, entries' = Track!Kept \/ entries' = entries,
         UNCHANGED <<runs, progress, ended>>
  PROVE  Track!ProgressIsItsRuns' /\ entries' \subseteq 1 .. runs
<1>1. entries' \subseteq entries
  BY KeptAreEntries
<1>2. Cardinality(entries') <= MaxEntries
  <2>1. CASE entries' = Track!Kept
    <3>1. Cardinality(Track!Kept) \in Nat
      BY KeptIsSmall, FS_CardinalityType DEF TrackInv
    <3> QED
      BY <2>1, <3>1, KeptIsSmall DEF TrackInv, Track!Parameters
  <2>2. CASE entries' = entries
    BY <2>2, TrackCounts DEF TrackInv, Track!ProgressIsItsRuns
  <2> QED
    BY <2>1, <2>2
<1>3. entries' \subseteq 1 .. runs
  BY <1>1 DEF TrackInv, Track!TypeOK
<1> QED
  BY <1>1, <1>2, <1>3, TrackCounts DEF TrackInv, Track!ProgressIsItsRuns

LEMMA AnswerKeeps ==
  ASSUME Track!Parameters, TrackInv, NEW r \in Requests, Track!Answer(r)
  PROVE  TrackInv'
<1>1. PICK i \in 0 .. runs :
        /\ i # 0 => i \in Track!Found(account, r)
        /\ entries' = Track!Kept \/ entries' = entries
        /\ poll' = [poll EXCEPT ![r] = [state |-> "answered", run |-> i]]
  BY DEF Track!Answer
<1>2. UNCHANGED <<now, account, phase, timer, shown, runs, progress, ended>> /\ poll[r].state = "sent"
  BY DEF Track!Answer
<1>3. i # 0 => i \in 1 .. runs /\ progress[i].id = r
  BY <1>1, KeptAreEntries DEF Track!Found, TrackInv, Track!TypeOK
<1>4. Track!ProgressIsItsRuns' /\ entries' \subseteq 1 .. runs
  BY <1>1, <1>2, PruneKeeps
<1>5. Track!TypeOK'
  <2>1. i \in 0 .. MaxRuns
    BY DEF TrackInv, Track!TypeOK, Track!Parameters
  <2>2. poll' \in [Requests -> Track!Polls]
    BY <1>1, <2>1 DEF TrackInv, Track!TypeOK, Track!Polls
  <2> QED
    BY <1>2, <1>4, <2>2 DEF TrackInv, Track!TypeOK
<1>6. /\ poll'[r].state = "answered" /\ poll'[r].run = i
      /\ \A q \in Requests \ {r} : poll'[q] = poll[q]
  BY <1>1 DEF TrackInv, Track!TypeOK
<1>7. phase[r] # "new" /\ ~ timer[r]
  BY <1>2 DEF TrackInv, PagesInv, Track!EndedIsQuiet, Track!NoPoll
<1>8. PagesInv' /\ Track!EndedIsQuiet'
  BY <1>2, <1>3, <1>6, <1>7 DEF TrackInv, PagesInv, Track!EndedIsQuiet
<1> QED
  BY <1>4, <1>5, <1>8 DEF TrackInv

\* The work of a run tells of itself, or ends.
LEMMA WorkKeeps ==
  ASSUME Track!Parameters, TrackInv, NEW i \in 1 .. runs, NEW status \in {"running", "complete", "failed"},
         progress' = [progress EXCEPT ![i].status = status, ![i].updated = now],
         ended' = [ended EXCEPT ![i] = status],
         UNCHANGED <<now, account, phase, timer, poll, shown, runs, entries>>
  PROVE  TrackInv'
<1>0. progress \in [1 .. runs -> Track!Progress] /\ DOMAIN ended = 1 .. runs
  BY DEF TrackInv, Track!TypeOK
<1>1. /\ progress'[i].status = status /\ ended'[i] = status
      /\ \A j \in 1 .. runs : progress'[j].owner = progress[j].owner /\ progress'[j].id = progress[j].id
      /\ \A j \in (1 .. runs) \ {i} : progress'[j].status = progress[j].status /\ ended'[j] = ended[j]
  BY <1>0 DEF Track!Progress
<1>2. Track!TypeOK'
  <2>1. progress' \in [1 .. runs -> Track!Progress]
    <3>1. now \in Nat /\ runs \in Nat
      BY DEF TrackInv, Track!TypeOK, Track!Parameters
    <3>2. QED BY <1>0, <3>1 DEF Track!Progress
  <2>2. ended' \in [1 .. runs -> {"running", "complete", "failed"}]
    BY DEF TrackInv, Track!TypeOK
  <2> QED
    BY <2>1, <2>2 DEF TrackInv, Track!TypeOK
<1>3. PagesInv' /\ Track!EndedIsQuiet'
  BY <1>1 DEF TrackInv, PagesInv, Track!EndedIsQuiet, Track!TypeOK
<1>4. Track!ProgressIsItsRuns'
  BY <1>1 DEF TrackInv, Track!ProgressIsItsRuns, Track!TypeOK
<1> QED
  BY <1>2, <1>3, <1>4 DEF TrackInv

LEMMA TrackNext ==
  ASSUME Track!Parameters, TrackInv, [Track!Next]_(Track!vars)
  PROVE  TrackInv'
<1>1. ASSUME NEW r \in Requests,
             Track!Fetch(r) \/ Track!Poll(r) \/ Track!PollAnswered(r) \/ Track!PollFails(r) \/ Track!FetchEnds(r)
      PROVE  TrackInv'
  BY <1>1, PageKeeps DEF tracker, Track!Fetch, Track!Poll, Track!PollAnswered, Track!PollFails, Track!FetchEnds
<1>2. ASSUME NEW r \in Requests, Track!Run(r) PROVE TrackInv'
  BY <1>2, RunKeeps
<1>3. ASSUME NEW r \in Requests, Track!Refuse(r) PROVE TrackInv'
  <2>1. Track!ProgressIsItsRuns' /\ entries' \subseteq 1 .. runs
    BY <1>3, PruneKeeps DEF Track!Refuse
  <2> QED
    BY <1>3, <2>1 DEF Track!Refuse, Track!page, TrackInv, Track!TypeOK, PagesInv, Track!EndedIsQuiet
<1>4. ASSUME NEW r \in Requests, Track!Answer(r) PROVE TrackInv'
  BY <1>4, AnswerKeeps
<1>5. ASSUME NEW i \in 1 .. runs, Track!ReportProgress(i) PROVE TrackInv'
  <2>1. progress[i].status = "running" /\ ended[i] = "running"
    BY <1>5 DEF Track!ReportProgress, TrackInv, Track!ProgressIsItsRuns
  <2>2. /\ progress' = [progress EXCEPT ![i].status = "running", ![i].updated = now]
        /\ ended' = [ended EXCEPT ![i] = "running"]
    BY <1>5, <2>1 DEF Track!ReportProgress, TrackInv, Track!TypeOK, Track!Progress
  <2> QED
    BY <1>5, <2>2, WorkKeeps DEF Track!ReportProgress, Track!page
<1>6. ASSUME NEW i \in 1 .. runs, NEW status \in {"complete", "failed"}, Track!Finish(i, status)
      PROVE  TrackInv'
  BY <1>6, WorkKeeps DEF Track!Finish, Track!Settle, Track!page
<1>7. CASE Track!Tick
  BY <1>7 DEF Track!Tick, Track!page, TrackInv, Track!TypeOK, PagesInv, Track!EndedIsQuiet, Track!ProgressIsItsRuns
<1>8. CASE Track!SwitchAccount
  BY <1>8 DEF Track!SwitchAccount, Track!page, TrackInv, Track!TypeOK, PagesInv, Track!EndedIsQuiet, Track!ProgressIsItsRuns
<1>9. CASE UNCHANGED Track!vars
  BY <1>9 DEF Track!vars, TrackInv, Track!TypeOK, PagesInv, Track!EndedIsQuiet, Track!ProgressIsItsRuns
<1> QED
  BY <1>1, <1>2, <1>3, <1>4, <1>5, <1>6, <1>7, <1>8, <1>9 DEF Track!Next

-----------------------------------------------------------------------------

\* IInv holds in every reachable state, whatever the requests and the limits.
THEOREM ProgressInvariant == ASSUME Track!Parameters PROVE Track!Spec => []TrackInv
<1>1. Track!Init => TrackInv
  BY TrackInit
<1>2. TrackInv /\ [Track!Next]_(Track!vars) => TrackInv'
  BY TrackNext
<1> QED
  BY <1>1, <1>2, PTL DEF Track!Spec

\* An entry tells how the last run of its id ended, and there are never more
\* entries than the tracker keeps (OperationTracker.run, prune).
THEOREM EntriesAreTheirRuns == ASSUME Track!Parameters PROVE Track!Spec => []Track!ProgressIsItsRuns
<1>1. TrackInv => Track!ProgressIsItsRuns
  BY DEF TrackInv
<1> QED
  BY <1>1, ProgressInvariant, PTL

\* A page whose request is over plans no more polls, and what it showed came
\* from a run of that request (trackedFetch).
THEOREM PagesGoQuiet == ASSUME Track!Parameters PROVE Track!Spec => []Track!EndedIsQuiet
<1>1. TrackInv => Track!EndedIsQuiet
  BY DEF TrackInv
<1> QED
  BY <1>1, ProgressInvariant, PTL

-----------------------------------------------------------------------------
(* The two together.                                                       *)

\* The part a behaviour looks at is in its invariant; of the other all that is
\* left is what its own state says, which stays as it began.
DoorInv ==
  \/ part = "Auth" /\ AuthInv /\ ProgressIsItsRuns /\ EndedIsQuiet
  \/ part = "Track" /\ TrackInv /\ StateUsedOnce

LEMMA DoorInit == Init => DoorInv
<1> SUFFICES ASSUME Init PROVE DoorInv
  OBVIOUS
<1>1. AuthInv /\ TrackInv
  BY BothParameters, AuthInit, TrackInit DEF Init
<1>2. StateUsedOnce /\ ProgressIsItsRuns /\ EndedIsQuiet
  BY <1>1 DEF AuthInv, Uses, UsesInv, UsedWell, OnceInv, Auth!StateUsedOnce, StateUsedOnce,
              TrackInv, ProgressIsItsRuns, EndedIsQuiet
<1> QED
  BY <1>1, <1>2 DEF Init, DoorInv

LEMMA DoorNext == ASSUME DoorInv, [Next]_vars PROVE DoorInv'
<1>1. CASE part = "Auth" /\ Auth!Next /\ UNCHANGED <<part, trackOwn>>
  <2>1. AuthInv'
    BY <1>1, BothParameters, AuthNext DEF DoorInv
  <2>2. (ProgressIsItsRuns /\ EndedIsQuiet)'
    BY <1>1 DEF DoorInv, trackOwn, ProgressIsItsRuns, EndedIsQuiet,
                Track!ProgressIsItsRuns, Track!EndedIsQuiet
  <2> QED
    BY <1>1, <2>1, <2>2 DEF DoorInv
<1>2. CASE part = "Track" /\ Track!Next /\ UNCHANGED <<part, authOwn>>
  <2>1. TrackInv'
    BY <1>2, BothParameters, TrackNext DEF DoorInv
  <2>2. StateUsedOnce'
    BY <1>2 DEF DoorInv, authOwn, StateUsedOnce, Auth!StateUsedOnce
  <2> QED
    BY <1>2, <2>1, <2>2 DEF DoorInv
<1>3. CASE UNCHANGED vars
  <2>1. UNCHANGED <<part, Auth!vars, Track!vars, authOwn, trackOwn>>
    BY <1>3 DEF vars, authOwn, trackOwn, Auth!vars, Track!vars
  <2>2. AuthInv => AuthInv'
    BY <2>1, BothParameters, AuthNext
  <2>3. TrackInv => TrackInv'
    BY <2>1, BothParameters, TrackNext
  <2>4. (StateUsedOnce => StateUsedOnce')
        /\ (ProgressIsItsRuns => ProgressIsItsRuns') /\ (EndedIsQuiet => EndedIsQuiet')
    BY <2>1 DEF authOwn, trackOwn, StateUsedOnce, Auth!StateUsedOnce, ProgressIsItsRuns, EndedIsQuiet,
                Track!ProgressIsItsRuns, Track!EndedIsQuiet
  <2> QED
    BY <2>1, <2>2, <2>3, <2>4 DEF DoorInv
<1> QED
  BY <1>1, <1>2, <1>3 DEF Next

LEMMA DoorInvariant == Spec => []DoorInv
BY DoorInit, DoorNext, PTL DEF Spec

\* At the front of the server, too, a state gives one login at most.
THEOREM DoorUsesStatesOnce == Spec => []StateUsedOnce
<1>1. DoorInv => StateUsedOnce
  BY DEF DoorInv, AuthInv, Uses, UsesInv, UsedWell, OnceInv, Auth!StateUsedOnce, StateUsedOnce
<1> QED
  BY <1>1, DoorInvariant, PTL

\* An entry tells how the last run of its id ended.
THEOREM DoorEntriesAreTheirRuns == Spec => []ProgressIsItsRuns
<1>1. DoorInv => ProgressIsItsRuns
  BY DEF DoorInv, TrackInv, ProgressIsItsRuns
<1> QED
  BY <1>1, DoorInvariant, PTL

\* A page whose request is over plans no more polls.
THEOREM DoorPagesGoQuiet == Spec => []EndedIsQuiet
<1>1. DoorInv => EndedIsQuiet
  BY DEF DoorInv, TrackInv, EndedIsQuiet
<1> QED
  BY <1>1, DoorInvariant, PTL
=============================================================================
