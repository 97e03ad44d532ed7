---------------------------- MODULE MCEventReplan ----------------------------
(***************************************************************************)
(* Weeks of two days, routes of up to four tasks over one or two weeks,    *)
(* and plans of two tasks that are edited and replanned over three weeks.  *)
(***************************************************************************)
EXTENDS EventReplan

CONSTANTS m1, m2, t1, t2, t3, t4, e1, e2

Task(t, m, w, h, ds, es) ==
  [id |-> t, milestone |-> m, week |-> w, hours |-> h, dependsOn |-> ds, evidence |-> es]

Stones(a, b) == m1 :> [start |-> 1, end |-> a, evidence |-> {}] @@
                m2 :> [start |-> b, end |-> 2, evidence |-> {}]

\* Everything the order, the weeks and the hours of four tasks can be.
Schedules ==
  {[milestones |-> Stones(a, 1),
    tasks |-> <<Task(t1, m1, w1, h1, d1, {e1}), Task(t2, m1, w2, 50, d2, {}),
                Task(t3, m2, w3, h3, d3, {}), Task(t4, m2, 2, 50, {t1}, {})>>,
    evidence |-> {e1}, applications |-> e1 :> {t1}] :
   a \in {1, 2}, w1 \in {1, 2}, w2 \in {1, 2}, w3 \in {1, 2}, h1 \in {50, 150}, h3 \in {50, 100},
   d1 \in {{}, {t2}, {t3}}, d2 \in {{}, {t1}, {t3}}, d3 \in {{}, {t2}}}

\* Everything two cards can be used and claimed for.
Citations ==
  {[milestones |-> Stones(1, 2),
    tasks |-> <<Task(t1, m1, 1, 50, {}, x), Task(t2, m2, 2, 50, {t1}, y)>>,
    evidence |-> c, applications |-> [e \in a |-> s]] :
   x \in SUBSET {e1, e2}, y \in SUBSET {e1, e2}, c \in SUBSET {e1, e2},
   a \in SUBSET {e1, e2}, s \in {{t1}, {t2}, {t1, t2}}}

\* Two tasks that depend on each other, in one week or in two.
Plan(w, h) ==
  [milestones |-> Stones(w, w),
   tasks |-> <<Task(t1, m1, 1, 100, {}, {e1}), Task(t2, IF w = 1 THEN m1 ELSE m2, w, h, {t1}, {})>>,
   evidence |-> {e1}, applications |-> e1 :> {t1}]

OneStone(route) == [route EXCEPT !.milestones = m1 :> [start |-> 1, end |-> 1, evidence |-> {}]]

MCConfirmed == {[route |-> OneStone(Plan(1, 100)), days |-> 2], [route |-> Plan(2, 100), days |-> 4]}

MCDrafts == MCConfirmed \cup {[route |-> r, days |-> d] : r \in Schedules \cup Citations, d \in {3, 4}}

\* Days, pairs of days, some longer spans, one out of range and one upside down.
MCSpans ==
  {s \in [start : 0 .. 4, end : 0 .. 5] : s.start <= s.end /\ s.end - s.start <= 1}
    \cup {[start |-> 1, end |-> 3], [start |-> 2, end |-> 5], [start |-> 4, end |-> 6],
          [start |-> 3, end |-> 2]}

MCEdits == {[start |-> 0, end |-> 1], [start |-> 1, end |-> 1], [start |-> 2, end |-> 4]}
=============================================================================
