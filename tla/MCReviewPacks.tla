---------------------------- MODULE MCReviewPacks ----------------------------
(***************************************************************************)
(* TLC instances of ReviewPacks: edits, sign-offs and purges that overlap, *)
(* without receipts; and everything, receipts included, one request at a   *)
(* time.                                                                   *)
(***************************************************************************)
EXTENDS ReviewPacks, TLC

CONSTANTS u1, u2, f1, d1, d2, p1, p2, t1, t2, k1, k2, r1, r2

MCUsers == {u1, u2}
MCFiles == {f1}
MCDocs == {d1, d2}
MCDocOne == {d1}
MCNoDocs == {}
MCPacks == {p1, p2}
MCTxs == {t1, t2}
MCTxOne == {t1}
MCCats == {k1, k2}
MCCatOne == {k1}
MCOneRequest == {r1}
MCTwoRequests == {r1, r2}

MCModes == {"LAB", "MANUAL_REVIEW", "SCANNER", "BLOCK"}
MCManual == {"MANUAL_REVIEW"}

\* The rule pack knows the merchants of all transactions, or of the first only.
MCBuiltInOne == [t \in Txs |-> IF t = t1 THEN k1 ELSE None]

MCBuiltInAll == [t \in Txs |-> k1]

MCSymmetry == Permutations(Packs) \cup Permutations(Requests) \cup Permutations(Docs)
                \cup Permutations(Users)

MCEditOps == {"create", "answer", "correct", "sign", "purge"}
MCAllOps == MCEditOps \cup {"delete", "upload", "review", "scan", "read", "erase"}
MCSignOps == {"create", "correct", "sign"}

=============================================================================
