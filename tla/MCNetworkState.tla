-------------------------- MODULE MCNetworkState --------------------------
(***************************************************************************)
(* A small instance of NetworkState: the mandatory document and one        *)
(* optional one, two managed files.  The second interfaces document needs  *)
(* the second managed file and resolves only without optional content.     *)
(***************************************************************************)
EXTENDS NetworkState, TLC

CONSTANTS
  p1, p2,               \* processes
  b1, b2, crlf, bad,    \* bodies; b1 is empty, crlf is a header and b2, all
                        \* with "\r\n" line ends
  m1, m2,               \* what they mean
  a1, a2, c1, c2, raw   \* managed files and contents; raw is not UTF-8

MCAsText == [d \in Docs |-> IF d.body = crlf THEN [body |-> b2, header |-> TRUE] ELSE d]
MCMeans == [b \in Bodies |-> CASE b = b1 -> m1 [] b = bad -> Invalid [] OTHER -> m2]
MCPlannable == {<<m1, m1>>, <<m1, m2>>, <<m2, m1>>}
MCGenerated == [i \in MCPlannable |->
  CASE i = <<m1, m1>> -> a1 :> c1 @@ a2 :> Absent
    [] i = <<m1, m2>> -> a1 :> c2 @@ a2 :> Absent
    [] i = <<m2, m1>> -> a1 :> c1 @@ a2 :> c1]
MCCandidates == {MCGenerated[i] : i \in MCPlannable}
\* Fewer documents that resolve, where others change the managed files too:
\* what the optional one holds decides whether there is a second file.
MCFewPlannable == {<<m1, m1>>, <<m1, m2>>}
MCFewGenerated == [i \in MCFewPlannable |->
  CASE i = <<m1, m1>> -> a1 :> c1 @@ a2 :> c1
    [] i = <<m1, m2>> -> a1 :> c2 @@ a2 :> Absent]
MCFewCandidates == {MCFewGenerated[i] : i \in MCFewPlannable}
MCReadText == [c \in Contents |-> c]

\* Documents as Kavernis leaves them, and as an administrator first wrote them.
WithHeaders(bodies) == [body : bodies, header : {TRUE}]
MCHeaders == WithHeaders({b1, b2})
MCMixed == {[body |-> b1, header |-> FALSE], [body |-> b2, header |-> TRUE],
            [body |-> bad, header |-> TRUE]}
MCLineEnds == WithHeaders({b1}) \cup {[body |-> crlf, header |-> FALSE]}

ProcessSymmetry == Permutations(Processes)
=============================================================================
