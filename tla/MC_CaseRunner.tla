--------------------------- MODULE MC_CaseRunner ---------------------------
(* Instances of CaseRunner for the case lists of 30.js and 33.js. *)
EXTENDS CaseRunner, Fixtures

MC_Stub      == {"stub"}
MC_StubBoth  == {"stub", "stubReordered"}
=============================================================================
