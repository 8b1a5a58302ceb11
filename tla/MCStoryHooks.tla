---------------------------- MODULE MCStoryHooks ----------------------------
(* Model-checking instance of StoryHooks: one quest fact and one objective *)
(* fact, one value, an area scene, the cutscene scene and the console's    *)
(* test scene, a cache that never overflows, no console.                   *)
EXTENDS StoryHooks

CONSTANTS q1, o1

MCFacts == {q1, o1}
MCObjectiveFacts == {o1}
MCValues == {1}
MCScenes == {1, 123, 999}
MCAreaScenes == {1}
====
