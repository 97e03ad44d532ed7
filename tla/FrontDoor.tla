------------------------------ MODULE FrontDoor ------------------------------
(***************************************************************************)
(* The front of the server: who may enter, and the progress of what runs.  *)
(* They share the clock and the names of accounts only, so a behaviour     *)
(* looks at one of them; the state of the other stays as it began.         *)
(***************************************************************************)
EXTENDS Naturals

CONSTANTS
  Browsers, StateLife, Lifetime, MaxIds, AuthTime,           \* of Authentication
  Requests, MaxEntries, Expiry, MaxRuns, TrackTime,          \* of OperationProgress
  Accounts, None

VARIABLES
  part, now,
  sessions, held, lastId, exchanges, asked, dropped, logins,
  account, phase, timer, poll, shown, runs, progress, entries, ended

Auth  == INSTANCE Authentication WITH MaxTime <- AuthTime
Track == INSTANCE OperationProgress WITH MaxTime <- TrackTime

ASSUME BothParameters == Auth!Parameters /\ Track!Parameters

authOwn  == <<sessions, held, lastId, exchanges, asked, dropped, logins>>
trackOwn == <<account, phase, timer, poll, shown, runs, progress, entries, ended>>
vars == <<part, now, authOwn, trackOwn>>

Init ==
  /\ part \in {"Auth", "Track"}
  /\ Auth!Init /\ Track!Init

Next ==
  \/ part = "Auth" /\ Auth!Next /\ UNCHANGED <<part, trackOwn>>
  \/ part = "Track" /\ Track!Next /\ UNCHANGED <<part, authOwn>>

Spec == Init /\ [][Next]_vars

-----------------------------------------------------------------------------

\* A state gives one login at most, in time, to the browser that asked for it,
\* unless a login or a logout has ended its session.
StateUsedOnce == Auth!StateUsedOnce

\* An entry tells how the last run of its id ended, whatever older runs do.
ProgressIsItsRuns == Track!ProgressIsItsRuns

\* A page whose request is over plans no more polls, and showed its own run.
EndedIsQuiet == Track!EndedIsQuiet
=============================================================================
