----------------------------- MODULE MCPipeline -----------------------------
(***************************************************************************)
(* Small instances of Pipeline for TLC.                                    *)
(***************************************************************************)
EXTENDS BatchInv, TLC

CONSTANTS j1, j2, j3, s1, s2, b1, w1, w2, h1, h2, h3

(* Both submissions belong to one batch. *)
MCBothInBatch == (s1 :> b1) @@ (s2 :> b1)

MCOneInBatch == s1 :> b1

(* A submission of its own, in no batch. *)
MCNoBatch == s1 :> None

(* What the clients of one instance call: one analysis each, one batch
   analysis, a batch analysis and one or two retries, a batch analysis and any
   other call. *)
MCStart == [h \in Requests |-> {"start"}]
MCAnalyze == [h \in Requests |-> {"analyze"}]
MCAnalyzeRetry ==
    [h \in Requests |-> IF h = h1 THEN {"analyze"} ELSE {"retry"}]
MCAnalyzeAny ==
    [h \in Requests |-> IF h = h1 THEN {"analyze"} ELSE {"start", "shared", "retry"}]

=============================================================================
