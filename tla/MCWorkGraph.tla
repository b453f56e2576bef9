---------------------------- MODULE MCWorkGraph ----------------------------
(***************************************************************************)
(* WorkGraph for TLC: three tasks whose wanted dependencies form cycles    *)
(* and give one task two blockers, or two tasks in a workflow of two       *)
(* phases.                                                                 *)
(***************************************************************************)
EXTENDS WorkGraph
CONSTANTS t1, t2, t3, a1, r1

MCThree == {t1, t2, t3}
MCTwo == {t1, t2}
MCEdges == {<<t1, t2>>, <<t2, t1>>, <<t1, t3>>, <<t3, t2>>}
MCOneEdge == {<<t2, t1>>}
MCKeys == (MCThree \X {"completed"}) \cup (MCThree \X {"failed"} \X (1..0))
MCPhaseKeys == (MCTwo \X {"completed"}) \cup (MCTwo \X {"failed"} \X (1..1))
MCNoGates == <<>>
MCGates == <<"all_done", "any_resolved">>
=============================================================================
