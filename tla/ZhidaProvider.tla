---------------------------- MODULE ZhidaProvider ----------------------------
(***************************************************************************)
(* One call of the Zhida provider: a command line client whose stdout is a *)
(* stream of events, shown to the user while it comes, with a block of     *)
(* sources that must not be shown.                                         *)
(*                                                                         *)
(* An answer is a sequence of pieces; <sources> may be cut in two by the   *)
(* stream, so it is the piece "lt" followed by the piece "sources".  An    *)
(* event with both content and a finish reason is the two in turn.         *)
(* Whitespace and the fields of sources are not told apart, and any chunk  *)
(* may be the one that goes beyond the limit of its stream.                *)
(***************************************************************************)
EXTENDS Naturals, Sequences, SequencesExt

CONSTANTS
  Texts,        \* what the client may send, as sequences of pieces
  Answer, None

Failures == {"cancelled", "timeout", "startup_failed", "process_failed", "output_limit",
             "invalid_response", "empty_answer", "refused_answer", "cleanup_failed"}

Pieces == {"text", "fence", "lt", "sources", "end"}
Frames == Pieces \cup {"stop", "[DONE]", "error", "malformed"}

VARIABLES
  outcome,    \* of the promise
  aborted,    \* the caller's signal
  child,      \* "none", "unborn" (spawn reports its failure later), "running", "exited", "closed"
  told,       \* the child was sent a signal
  timer,      \* the call's timer is armed
  failure,    \* why the child is being stopped
  killTimer,  \* SIGKILL is still to come
  pending,    \* an event whose end has not come
  answer, stopped, done,
  shown       \* history: what onText was given; emitted is its length

promise == <<outcome, timer, failure, killTimer, told>>
reader  == <<pending, answer, stopped, done, shown>>
vars    == <<promise, aborted, child, reader>>

Init ==
  /\ outcome = None /\ aborted \in BOOLEAN /\ child = "none" /\ told = FALSE
  /\ timer = FALSE /\ failure = None /\ killTimer = FALSE
  /\ pending = None /\ answer = <<>> /\ stopped = FALSE /\ done = FALSE /\ shown = <<>>

-----------------------------------------------------------------------------
(* The text of an answer.                                                  *)

IsTag(raw, i) == i < Len(raw) /\ raw[i] = "lt" /\ raw[i + 1] = "sources"

WithoutPendingFence(t) == IF t # <<>> /\ Last(t) = "fence" THEN Front(t) ELSE t

\* What comes before the first tag, or before what may become one.
BeforeSources(raw) ==
  LET tags == {i \in DOMAIN raw : IsTag(raw, i)}
  IN  IF tags # {} THEN SubSeq(raw, 1, (CHOOSE i \in tags : \A j \in tags : i <= j) - 1)
      ELSE IF raw # <<>> /\ Last(raw) = "lt" THEN Front(raw) ELSE raw

\* Faulty variant: a fence is shown before it is known whether sources follow.
VisiblePrefixWithFence(raw) == BeforeSources(raw)

\* What may be shown of an unfinished answer.
VisiblePrefix(raw) == WithoutPendingFence(BeforeSources(raw))

\* What parseAnswer makes of one more piece: every block of sources goes, with
\* a fence around it.  "kept" may not be taken from before "from", where the
\* last block ended.
ReadPiece(s, p) ==
  IF s.inside
  THEN IF p = "end" THEN [s EXCEPT !.inside = FALSE, !.after = TRUE] ELSE s
  ELSE IF p = "sources" /\ Len(s.kept) > s.from /\ Last(s.kept) = "lt"
  THEN LET k == Front(s.kept)
           l == IF Len(k) > s.from THEN WithoutPendingFence(k) ELSE k
       IN  [kept |-> l, from |-> Len(l), inside |-> TRUE, after |-> FALSE]
  ELSE IF s.after /\ p = "fence"
  THEN [s EXCEPT !.after = FALSE]
  ELSE [s EXCEPT !.kept = Append(@, p), !.after = FALSE]

\* parseAnswer without its sources, piece by piece.
Reading(raw) ==
  LET read[k \in 0 .. Len(raw)] ==
        IF k = 0 THEN [kept |-> <<>>, from |-> 0, inside |-> FALSE, after |-> FALSE]
        ELSE ReadPiece(read[k - 1], raw[k])
  IN  read

WithoutSources(raw) == Reading(raw)[Len(raw)].kept

-----------------------------------------------------------------------------
(* finish and stop.                                                        *)

\* The timers and listeners go.
Finish(o) ==
  IF outcome = None
  THEN outcome' = o /\ timer' = FALSE /\ killTimer' = FALSE /\ UNCHANGED <<failure, told>>
  ELSE UNCHANGED promise

\* Only the first failure counts.
Stop(error) ==
  IF outcome # None \/ failure # None
  THEN UNCHANGED promise
  ELSE /\ failure' = error /\ timer' = FALSE /\ killTimer' = TRUE
       /\ told' = (child = "running")
       /\ UNCHANGED outcome

\* SIGKILL after 300 ms.
Escalate ==
  /\ killTimer /\ killTimer' = FALSE
  /\ UNCHANGED <<outcome, timer, failure, told, aborted, child, reader>>

\* After two seconds nobody waits for the child any longer.
GiveUp ==
  /\ failure # None /\ outcome = None /\ ~ killTimer
  /\ Finish("cleanup_failed")
  /\ UNCHANGED <<aborted, child, reader>>

-----------------------------------------------------------------------------
(* The call and its listeners.                                             *)

Research ==
  /\ child = "none" /\ outcome = None
  /\ \/ aborted /\ Finish("cancelled") /\ UNCHANGED child
     \/ ~ aborted /\ Finish("startup_failed") /\ UNCHANGED child
     \/ /\ ~ aborted /\ child' \in {"unborn", "running"} /\ timer' = TRUE
        /\ UNCHANGED <<outcome, failure, killTimer, told>>
  /\ UNCHANGED <<aborted, reader>>

\* The events acceptFrame does not throw at.
Accepts(f) ==
  /\ ~ done
  /\ f = "[DONE]" => stopped
  /\ f \in Pieces \cup {"stop"} => ~ stopped
  /\ f # "malformed"

\* acceptFrame of an event it accepts, but for the child's own error.
Accept(f) ==
  /\ done' = (f = "[DONE]" \/ done)
  /\ stopped' = (f = "stop" \/ stopped)
  /\ IF f \notin Pieces
     THEN UNCHANGED <<answer, shown>>
     ELSE /\ answer' = Append(answer, f)
          /\ LET visible == VisiblePrefix(answer')
             IN  shown' = IF Len(visible) > Len(shown)
                          THEN shown \o SubSeq(visible, Len(shown) + 1, Len(visible))
                          ELSE shown

\* consume of one event, in onStdout.
Consume(f) ==
  IF ~ Accepts(f)
  THEN Stop("invalid_response") /\ UNCHANGED <<answer, stopped, done, shown>>
  ELSE IF f = "error"
  THEN Stop("process_failed") /\ UNCHANGED <<answer, stopped, done, shown>>
  ELSE Accept(f) /\ UNCHANGED promise

Alive == child \in {"running", "exited"} /\ outcome = None

\* A chunk: too much, an event, one whose end is to come, or that end.
OnStdout ==
  /\ Alive /\ failure = None
  /\ \/ Stop("output_limit") /\ UNCHANGED reader
     \/ pending # None /\ pending' = None /\ Consume(pending)
     \/ /\ pending = None
        /\ \E f \in Frames :
             /\ f \in Pieces => \E t \in Texts : IsPrefix(Append(answer, f), t)
             /\ \/ Consume(f) /\ UNCHANGED pending
                \/ pending' = f /\ UNCHANGED <<answer, stopped, done, shown, promise>>
  /\ UNCHANGED <<aborted, child>>

\* Too much on stderr; what is within the limit is thrown away.
OnStderr ==
  /\ Alive /\ Stop("output_limit")
  /\ UNCHANGED <<aborted, child, reader>>

\* The error events of the child and its streams.
OnError ==
  /\ child \in {"unborn", "running", "exited"} /\ outcome = None
  /\ \E error \in {"startup_failed", "process_failed"} : Stop(error)
  /\ UNCHANGED <<aborted, child, reader>>

OnTimeout ==
  /\ timer /\ Stop("timeout")
  /\ UNCHANGED <<aborted, child, reader>>

OnAbort ==
  /\ ~ aborted /\ aborted' = TRUE
  /\ IF child = "none" THEN UNCHANGED promise ELSE Stop("cancelled")
  /\ UNCHANGED <<child, reader>>

Exit ==
  /\ child = "running" /\ child' = "exited"
  /\ UNCHANGED <<promise, aborted, reader>>

\* The whole stream has come: the text that was held back is shown, unless it
\* was held back for its sources.
Conclude ==
  IF ~ (done' /\ stopped)
  THEN Finish("invalid_response") /\ shown' = shown
  ELSE IF WithoutSources(answer) = <<>>
  THEN Finish("empty_answer") /\ shown' = shown
  ELSE \/ WithoutSources(answer) = <<"text">> /\ Finish("refused_answer") /\ shown' = shown
       \/ /\ Finish(Answer)
          /\ shown' = IF \E i \in DOMAIN answer : IsTag(answer, i)
                      THEN shown
                      ELSE shown \o SubSeq(answer, Len(shown) + 1, Len(answer))

\* The end of a child that was not stopped.  An event that lacks only its end
\* is taken: only a [DONE] may be missing, whatever else it is comes too early.
Close ==
  \/ Finish("process_failed") /\ UNCHANGED reader
  \/ /\ pending = None
     /\ UNCHANGED <<pending, answer, stopped, done>> /\ Conclude
  \/ /\ pending # None /\ pending' = None
     /\ CASE ~ Accepts(pending) ->
               Finish("invalid_response") /\ UNCHANGED <<answer, shown, stopped, done>>
          [] Accepts(pending) /\ pending = "error" ->
               Finish("process_failed") /\ UNCHANGED <<answer, shown, stopped, done>>
          [] Accepts(pending) /\ pending = "[DONE]" ->
               done' = TRUE /\ Conclude /\ UNCHANGED <<answer, stopped>>
          [] OTHER -> Accept(pending) /\ Finish("invalid_response")

OnClose ==
  /\ child = "exited" \/ (child = "unborn" /\ failure # None)
  /\ child' = "closed"
  /\ CASE outcome # None -> UNCHANGED <<promise, reader>>
       [] outcome = None /\ failure # None -> Finish(failure) /\ UNCHANGED reader
       [] outcome = None /\ failure = None -> Close
  /\ UNCHANGED aborted

Next ==
  \/ Research \/ Escalate \/ GiveUp \/ Exit
  \/ OnStdout \/ OnStderr \/ OnError \/ OnTimeout \/ OnAbort \/ OnClose

\* The call is made, and timers fire.
Fairness == WF_vars(Research) /\ WF_vars(OnTimeout) /\ WF_vars(Escalate) /\ WF_vars(GiveUp)

Spec == Init /\ [][Next]_vars /\ Fairness

-----------------------------------------------------------------------------

PromiseOK ==
  /\ outcome \in Failures \cup {Answer, None} /\ failure \in Failures \cup {None}
  /\ child \in {"none", "unborn", "running", "exited", "closed"}
  /\ told \in BOOLEAN /\ timer \in BOOLEAN /\ aborted \in BOOLEAN /\ killTimer \in BOOLEAN

ReaderOK ==
  /\ pending \in Frames \cup {None} /\ answer \in Seq(Pieces) /\ shown \in Seq(Pieces)
  /\ stopped \in BOOLEAN /\ done \in BOOLEAN

TypeOK == PromiseOK /\ ReaderOK

\* A call that is over and left its child running says so (cleanupTimer).
LeftoverIsReported == outcome # None /\ child = "running" => outcome = "cleanup_failed"

\* What the user was shown is the beginning of the answer: no piece of a block
\* of sources, however the stream cuts it, and nothing to take back later
\* (visiblePrefix against parseAnswer).
ShownIsKept == IsPrefix(shown, WithoutSources(answer))

\* The call as its caller sees it.
Work ==
  CASE child \in {"none", "unborn"}   -> "none"
    [] child = "running"              -> "running"
    [] child \in {"exited", "closed"} -> "gone"

Call == INSTANCE ProviderCall WITH work <- Work

\* Whatever order the stream, the child's end, the two kill timers, the timeout
\* and the signal come in, the call settles once, answers only from a child that
\* ended by itself, and fails only after the child has ended or was killed.
CallSettles == Call!Spec
=============================================================================
