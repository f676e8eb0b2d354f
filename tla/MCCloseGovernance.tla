------------------------- MODULE MCCloseGovernance -------------------------
(***************************************************************************)
(* TLC instances of CloseGovernance: closes of one deployment and period,  *)
(* evidence that passes in one or two ways and evidence that does not.     *)
(***************************************************************************)
EXTENDS CloseGovernance, TLC

CONSTANTS org, m1, q1, full, gap, s1, s2, good, better, bad, r1, r2, why1, why2, a, b, x

closeA == [id |-> a, company |-> m1, start |-> 1, end |-> 31, core |-> TRUE]
\* The same period prepared again from other inputs.
closeB == [id |-> b, company |-> m1, start |-> 1, end |-> 31, core |-> TRUE]
\* A close whose core controls have exceptions open.
closeX == [id |-> x, company |-> m1, start |-> 1, end |-> 31, core |-> FALSE]

MCRealModes == {TRUE}
MCAllModes == {TRUE, FALSE}

MCOneClose == {closeA}
MCClosesBlocked == {closeA, closeB, closeX}

MCOneRequest == {r1}
MCTwoRequests == {r1, r2}

MCRegistries == {q1}
MCArtifacts == {full, gap}
MCArtifactsFull == {full}
MCComplete == {<<q1, full>>}

MCScopes == {s1, s2}
MCScopeOne == {s1}
MCEntries == {good, bad}
MCEntriesTwoWays == {good, better}
MCEntriesGood == {good}
\* `good' reconciles every account of either scope, `better' only of the first.
MCPassing == ((Entries \cap {good}) \X Scopes) \cup ((Entries \cap {better}) \X {s1})

MCReasons == {why1, why2}
MCReasonOne == {why1}

AllOps == {"configure", "record", "reconcile", "evaluate", "get", "approve", "lock", "reopen"}
CloseOps == {"reconcile", "approve", "lock", "reopen"}

=============================================================================
