---------------------------- MODULE MCResearchRun ----------------------------
EXTENDS ResearchRun, TLC

CONSTANTS q1, q2, q3, q4, q5, k1, k2, k3, k4, k5, s1, s2, s3, x, y

\* k2 is k1 under another id, with another author named; k3 shares its source, k4 the author of k3.
MCContentOf == k1 :> k1 @@ k2 :> k1 @@ k3 :> k3 @@ k4 :> k4 @@ k5 :> k5
MCSourceOf  == k1 :> s1 @@ k2 :> s1 @@ k3 :> s1 @@ k4 :> s2 @@ k5 :> s3
MCAuthorOf  == k1 :> x @@ k2 :> y @@ k3 :> y @@ k4 :> y @@ k5 :> None

MCPacks ==
  {[cards |-> <<>>,       routes |-> {},                   gap |-> FALSE],
   [cards |-> <<k1, k3>>, routes |-> {{k1}, {k1, k3}},     gap |-> FALSE],
   [cards |-> <<k4, k2>>, routes |-> {{k2, k4}},           gap |-> FALSE],
   [cards |-> <<k5, k3>>, routes |-> {{k5}},               gap |-> FALSE],
   [cards |-> <<k5>>,     routes |-> {{k5}, {k1}},         gap |-> TRUE]}

\* q2 is q1 in another spelling.
MCNormalOf == q1 :> q1 @@ q2 :> q1 @@ q3 :> q3 @@ q4 :> q4 @@ q5 :> q5

ask(question, queries) == [question |-> question, queries |-> queries]
MCBatches ==
  {<<ask("A", <<q1>>), ask("B", <<q3>>)>>, <<ask("A", <<q1, q3>>)>>,
   <<ask("A", <<q1, q3>>), ask("B", <<q2, q4>>)>>, <<ask("A", <<q1>>), ask("B", <<q2>>)>>,
   <<ask("A", <<q4>>)>>, <<ask("C", <<q2>>)>>, <<ask("C", <<q4>>), ask("B", <<q2>>)>>,
   <<ask("A", <<q1>>), ask("B", <<q3>>), ask("C", <<q4>>)>>, <<ask("D", <<q4, q5>>)>>, <<ask("B", <<q5>>)>>}
=============================================================================
