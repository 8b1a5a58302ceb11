---------------------------- MODULE MCQuestSync ----------------------------
(* Model-checking instance of QuestSync: three facts so that the cache can  *)
(* overflow a limit of two and be pruned, two values so that overwrites are *)
(* visible, one scene, a fail-safe of one heartbeat period.                *)
EXTENDS QuestSync

CONSTANTS f1, f2, f3

MCFacts == {f1, f2, f3}
MCValues == {1, 2}
MCScenes == {1}
====
