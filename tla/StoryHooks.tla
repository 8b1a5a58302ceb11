----------------------------- MODULE StoryHooks -----------------------------
(***************************************************************************)
(* The game-side narrative hooks of src/src/scripts/W3M_CombatSync.ws,    *)
(* composed with the bridge they call (QuestSync, src/unnamed/part_009).  *)
(*                                                                         *)
(* The hooks wrap engine events on the script thread: CQuestsSystem's     *)
(* AddFact and SetFact, the player's dialogue and cutscene start and end, *)
(* and quest objective updates; the exec console commands of the same     *)
(* file call the bridge directly.  Each hook runs the engine's own method *)
(* and then makes one synchronous bridge call, so it is the script        *)
(* thread's entry step of QuestSync ("main" idle), after which QuestSync's *)
(* steps and the async fail-safe interleave as before.                     *)
(*                                                                         *)
(* The engine's own fact database is not a variable: no property compares *)
(* its values.  What matters is which write of the quest system reached   *)
(* the bridge, kept in the ghost lastWrite.                                *)
(***************************************************************************)
EXTENDS QuestSync

CONSTANTS
    ObjectiveFacts, \* "quest_objective_" + questName, a subset of Facts
    AreaScenes,     \* GetCommonMapManager().GetCurrentArea() as a scene id
    CutsceneScene,  \* the scene id 999 of OnCutsceneStart
    TestScene,      \* the scene id 123 of W3mTestStoryLock
    DebugConsole    \* whether the exec console commands are typed at all

ASSUME ObjectiveFacts \subseteq Facts
ASSUME AreaScenes \cup {CutsceneScene, TestScene} \subseteq Scenes
ASSUME 1 \in Values

QuestFacts == Facts \ ObjectiveFacts

VARIABLES
    inDialogue,  \* between OnDialogueStart and OnDialogueEnd
    inCutscene,  \* between OnCutsceneStart and OnCutsceneEnd
    lastWrite    \* ghost: id of the quest system's last write of each fact

hookVars == <<inDialogue, inCutscene, lastWrite>>
allVars == <<vars, hookVars>>

-----------------------------------------------------------------------------
(* Quest event interception.                                               *)

\* The AddFact and SetFact wrappers: the engine records the fact, then
\* W3mAtomicAddFact(factId, value) is called only if
\* !W3mIsGlobalSyncInProgress().  Only the script thread sets the flag, so
\* W3mAtomicAddFact's own load sees what the wrapper saw.  A write the
\* wrapper skips still counts as a script call.
QuestFactHook(f, v) ==
    /\ pc["main"] = "idle"
    /\ ops < MaxOps
    /\ lastWrite' = [lastWrite EXCEPT ![f] = ops + 1]
    /\ IF sync
         THEN /\ ops' = ops + 1
              /\ UNCHANGED <<cache, clock, pending, outbox, issued, applied>>
              /\ UNCHANGED <<sync, active, lockScene, tsAge, heldAge>>
              /\ UNCHANGED <<pc, arg, sceneArg, relScene, forced>>
         ELSE ScriptAtomicAddFact(f, v)
    /\ UNCHANGED <<inDialogue, inCutscene>>

\* OnDialogueStart: W3mAcquireStoryLock(GUID, current area); the
\* proximity check that follows only logs.
OnDialogueStart ==
    /\ ~inDialogue
    /\ inDialogue' = TRUE
    /\ \E s \in AreaScenes : ScriptAcquireStoryLock(s)
    /\ UNCHANGED <<inCutscene, lastWrite>>

\* OnDialogueEnd: W3mReleaseStoryLock().
OnDialogueEnd ==
    /\ inDialogue
    /\ inDialogue' = FALSE
    /\ ScriptReleaseStoryLock
    /\ UNCHANGED <<inCutscene, lastWrite>>

\* OnCutsceneStart: W3mAcquireStoryLock(GUID, 999).
OnCutsceneStart ==
    /\ ~inCutscene
    /\ inCutscene' = TRUE
    /\ ScriptAcquireStoryLock(CutsceneScene)
    /\ UNCHANGED <<inDialogue, lastWrite>>

\* OnCutsceneEnd: W3mReleaseStoryLock().
OnCutsceneEnd ==
    /\ inCutscene
    /\ inCutscene' = FALSE
    /\ ScriptReleaseStoryLock
    /\ UNCHANGED <<inDialogue, lastWrite>>

\* OnQuestObjectiveUpdated: W3mBroadcastFact("quest_objective_" + name, 1).
OnQuestObjectiveUpdated(o) ==
    /\ ScriptBroadcastFact(o, 1)
    /\ UNCHANGED hookVars

\* The exec commands W3mTestStoryLock, W3mTestStoryUnlock,
\* W3mTestFactBroadcast and W3mClearFacts; the others only read.
ConsoleCommand ==
    /\ DebugConsole
    /\ \/ ScriptAcquireStoryLock(TestScene)
       \/ ScriptReleaseStoryLock
       \/ \E f \in Facts : ScriptBroadcastFact(f, 1)
       \/ ScriptClearFactCache
    /\ UNCHANGED hookVars

-----------------------------------------------------------------------------

HookCall ==
    \/ \E f \in QuestFacts, v \in Values : QuestFactHook(f, v)
    \/ OnDialogueStart \/ OnDialogueEnd
    \/ OnCutsceneStart \/ OnCutsceneEnd
    \/ \E o \in ObjectiveFacts : OnQuestObjectiveUpdated(o)
    \/ ConsoleCommand

HooksInit ==
    /\ Init
    /\ inDialogue = FALSE
    /\ inCutscene = FALSE
    /\ lastWrite = [f \in Facts |-> 0]

HooksNext ==
    \/ HookCall
    \/ (MainStep \/ AsyncStep \/ Tick) /\ UNCHANGED hookVars

HooksSpec == HooksInit /\ [][HooksNext]_allVars /\ Fairness

-----------------------------------------------------------------------------
(* Properties.                                                             *)

\* Nothing of the bridge is in progress and no story sync is open.
Quiescent ==
    /\ pc = [t \in Threads |-> "idle"]
    /\ ~sync
    /\ ~active

\* Spec section 4.2 (atomic_add_fact queues while the lock is held, and the
\* release flushes the queue): once a dialogue or cutscene is over and the
\* bridge is quiet, the fact registry holds the quest system's last write
\* of every fact it changed, including the choices made inside the scene.
SceneFactsSynced ==
    Quiescent =>
        \A f \in QuestFacts :
            lastWrite[f] # 0 => cache[f] # NoEntry /\ cache[f].id = lastWrite[f]

=============================================================================
