------------------------------ MODULE Providers ------------------------------
(***************************************************************************)
(* One call, of whichever provider the behaviour starts with; the state of *)
(* the other two stays empty.                                              *)
(***************************************************************************)
EXTENDS Naturals, Sequences

CONSTANTS
  StdoutLimit, StderrLimit, MaxLine,   \* of Zhihu
  Texts,                               \* what the client of Zhida may send
  MaxOutput,                           \* of Roadmapper
  Answer, None

VARIABLES
  provider,                                     \* whose call it is
  outcome, aborted, told, timer, child,         \* of every provider that has them
  settled, ending, cleanup, upstream, stdoutBytes, stderrLine, discardStderrLine,
  diagnosticsSeen, diagnostic, said,            \* of Zhihu
  failure, killTimer, pending, answer, stopped, done, shown,   \* of Zhida
  stage, bytes                                  \* of Roadmapper

Zhihu      == INSTANCE ZhihuProvider
Zhida      == INSTANCE ZhidaProvider
Roadmapper == INSTANCE RoadmapperProvider

zhihuOwn      == <<settled, ending, cleanup, upstream, stdoutBytes, stderrLine, discardStderrLine,
                   diagnosticsSeen, diagnostic, said>>
zhidaOwn      == <<failure, killTimer, pending, answer, stopped, done, shown>>
roadmapperOwn == <<stage, bytes>>
vars == <<provider, outcome, aborted, told, timer, child, zhihuOwn, zhidaOwn, roadmapperOwn>>

Init ==
  /\ provider \in {"Zhihu", "Zhida", "Roadmapper"}
  /\ Zhihu!Init /\ Zhida!Init /\ Roadmapper!Init

Next ==
  \/ /\ provider = "Zhihu" /\ Zhihu!Next
     /\ UNCHANGED <<provider, zhidaOwn, roadmapperOwn>>
  \/ /\ provider = "Zhida" /\ Zhida!Next
     /\ UNCHANGED <<provider, zhihuOwn, roadmapperOwn>>
  \/ /\ provider = "Roadmapper" /\ Roadmapper!Next
     /\ UNCHANGED <<provider, child, zhihuOwn, zhidaOwn>>

\* The fairness of the provider that is called: its call is made, its timers fire.
Fairness ==
  /\ WF_vars(provider = "Zhihu" /\ Zhihu!Execute /\ UNCHANGED <<provider, zhidaOwn, roadmapperOwn>>)
  /\ WF_vars(provider = "Zhihu" /\ Zhihu!OnTimeout /\ UNCHANGED <<provider, zhidaOwn, roadmapperOwn>>)
  /\ WF_vars(provider = "Zhihu" /\ Zhihu!KillTimeout /\ UNCHANGED <<provider, zhidaOwn, roadmapperOwn>>)
  /\ WF_vars(provider = "Zhida" /\ Zhida!Research /\ UNCHANGED <<provider, zhihuOwn, roadmapperOwn>>)
  /\ WF_vars(provider = "Zhida" /\ Zhida!OnTimeout /\ UNCHANGED <<provider, zhihuOwn, roadmapperOwn>>)
  /\ WF_vars(provider = "Zhida" /\ Zhida!Escalate /\ UNCHANGED <<provider, zhihuOwn, roadmapperOwn>>)
  /\ WF_vars(provider = "Zhida" /\ Zhida!GiveUp /\ UNCHANGED <<provider, zhihuOwn, roadmapperOwn>>)
  /\ WF_vars(provider = "Roadmapper" /\ Roadmapper!Generate
             /\ UNCHANGED <<provider, child, zhihuOwn, zhidaOwn>>)
  /\ WF_vars(provider = "Roadmapper" /\ Roadmapper!OnTimeout
             /\ UNCHANGED <<provider, child, zhihuOwn, zhidaOwn>>)

Spec == Init /\ [][Next]_vars /\ Fairness

-----------------------------------------------------------------------------

\* A call that is over and left a child process running says so, so that no
\* project is freed while research may still run for it unnoticed
\* (terminateTree of the Zhihu provider, cleanupTimer of the Zhida provider).
LeftoverIsReported ==
  /\ provider = "Zhihu" => Zhihu!LeftoverIsReported
  /\ provider = "Zhida" => Zhida!LeftoverIsReported

\* However stderr is cut and oversized lines fall, an error carries the child's
\* own diagnosis only if it was the only one (onStderr of the Zhihu provider).
DiagnosisIsFromOneLine == Zhihu!DiagnosisIsFromOneLine

\* What the user was shown is the beginning of the answer: no piece of a block
\* of sources and nothing to take back later (visiblePrefix, parseAnswer).
ShownIsKept == Zhida!ShownIsKept

Call ==
  INSTANCE ProviderCall WITH
    Failures <- Zhihu!Failures \cup Zhida!Failures \cup Roadmapper!Failures,
    work <- CASE provider = "Zhihu"      -> Zhihu!Work
              [] provider = "Zhida"      -> Zhida!Work
              [] provider = "Roadmapper" -> Roadmapper!Work

\* Whatever order data, ends, errors, timers and the signal come in, a call of
\* any provider settles, once; it answers only when its work ended by itself and
\* fails only when the work has ended or was told to stop.
CallSettles == Call!Spec

ASSUME ProviderLimits == Zhihu!Limits /\ Roadmapper!Limits /\ Call!OutcomesDiffer
=============================================================================
