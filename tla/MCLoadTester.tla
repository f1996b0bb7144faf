---------------------------- MODULE MCLoadTester ----------------------------
(* Instances of LoadTester, and with it of Ingestion, for TLC. *)
EXTENDS LoadTester, TLC

CONSTANTS s1, s2, s3, r1, r2, r3, b1, b2, h1, h2

(* A batch of one signal and one of two; r1 is s1 sent again, and so on.   *)
(* (An empty array only gets its 503.)                                     *)
TwoLoads == [b \in Loads |-> IF b = b1 THEN <<<<s1>>, <<r1>>>>
                                       ELSE <<<<s2, s3>>, <<r2, r3>>>>]

SomeBatches == {<<s1>>, <<r1>>, <<s2, s3>>, <<r2, r3>>}
=============================================================================
